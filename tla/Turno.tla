-------------------------------- MODULE Turno --------------------------------
(***************************************************************************)
(* What the kernel and the cpu promise of a turn, whatever the clocks do:  *)
(* one process is out of the kernel at a time, each turn ends once with    *)
(* the process that was sent, and a turn ends in INTERRUPCION only at the  *)
(* cost of a quantum that was granted to a turn, this one or an earlier    *)
(* one.  A quantum may also come to nothing.                               *)
(***************************************************************************)
EXTENDS Integers

CONSTANT MaxDespachos

VARIABLES
  turno,    \* the number of the turn, and of its process
  afuera,   \* the processes out of the kernel
  quantums  \* granted and not yet spent or lost

Init == turno = 0 /\ afuera = {} /\ quantums = 0

\* A turn begins, with a quantum or (READY2, or FIFO) without limit.
Despachar(concedido) ==
  /\ afuera = {} /\ turno < MaxDespachos
  /\ turno' = turno + 1 /\ afuera' = {turno + 1}
  /\ quantums' = quantums + concedido

Volver == afuera = {turno} /\ afuera' = {} /\ UNCHANGED <<turno, quantums>>

Desalojar ==
  /\ afuera = {turno} /\ quantums > 0
  /\ afuera' = {} /\ quantums' = quantums - 1
  /\ UNCHANGED turno

Perder == quantums > 0 /\ quantums' = quantums - 1 /\ UNCHANGED <<turno, afuera>>

Next == Despachar(0) \/ Despachar(1) \/ Volver \/ Desalojar \/ Perder

Spec == Init /\ [][Next]_<<turno, afuera, quantums>>
=============================================================================
