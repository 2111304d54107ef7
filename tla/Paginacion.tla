----------------------------- MODULE Paginacion -----------------------------
(***************************************************************************)
(* What memoria promises to whoever keeps a frame number: which pages of a *)
(* process are loaded and where, and how that may change.  A loaded page   *)
(* stays in its frame until another page of the SAME process takes that    *)
(* frame, or the process has ended.  Nothing here of bits, bitmaps, swap   *)
(* or threads: Memoria implements it, and Tlb relies on nothing else.      *)
(***************************************************************************)
EXTENDS Integers, FiniteSets

CONSTANTS Procesos, Paginas, Marcos, MARCOS_POR_PROCESO

VARIABLES
  residente,  \* for each process, the frame of each of its loaded pages
  terminados  \* the processes that will not run again

Cargadas(p) == DOMAIN residente[p]

\* Page j of p gets a frame, while p has fewer than MARCOS_POR_PROCESO.
Cargar(p, j, m) ==
  /\ p \notin terminados
  /\ j \notin Cargadas(p) /\ Cardinality(Cargadas(p)) < MARCOS_POR_PROCESO
  /\ residente' = [residente EXCEPT ![p] =
       [k \in Cargadas(p) \cup {j} |-> IF k = j THEN m ELSE residente[p][k]]]
  /\ UNCHANGED terminados

\* Page j of p takes the frame of page i of p.
Reemplazar(p, i, j) ==
  /\ p \notin terminados
  /\ i \in Cargadas(p) /\ j \notin Cargadas(p)
  /\ Cardinality(Cargadas(p)) = MARCOS_POR_PROCESO
  /\ residente' = [residente EXCEPT ![p] =
       [k \in (Cargadas(p) \ {i}) \cup {j} |-> residente[p][IF k = j THEN i ELSE k]]]
  /\ UNCHANGED terminados

Terminar(p) ==
  /\ p \notin terminados
  /\ terminados' = terminados \cup {p}
  /\ UNCHANGED residente

\* A page of a process that ended is released.
Liberar(p, j) ==
  /\ p \in terminados /\ j \in Cargadas(p)
  /\ residente' = [residente EXCEPT ![p] =
       [k \in Cargadas(p) \ {j} |-> residente[p][k]]]
  /\ UNCHANGED terminados

Init ==
  /\ residente = [p \in Procesos |-> [j \in {} |-> 0]]
  /\ terminados = {}

Next ==
  \E p \in Procesos :
    \/ Terminar(p)
    \/ \E j \in Paginas :
         \/ Liberar(p, j)
         \/ \E m \in Marcos : Cargar(p, j, m)
         \/ \E i \in Paginas : Reemplazar(p, i, j)

Spec == Init /\ [][Next]_<<residente, terminados>>
=============================================================================
