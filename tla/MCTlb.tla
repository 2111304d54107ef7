-------------------------------- MODULE MCTlb --------------------------------
(* A small instance of Tlb for TLC. *)
EXTENDS Tlb, TLC

CONSTANTS p1, p2

MCProcesos == {p1, p2}

\* With pages of 2 addresses and tables of 2 entries: p1 has two segments, of two
\* pages (the second half used) and of one, and p2 has a single page.
MCSegmentos == p1 :> <<3, 2>> @@ p2 :> <<2>>

\* The code only compares the instants, and only under LRU: TLC sees them through
\* their rank, so that they need no bound.
Rango(n) == IF algoritmo_reemplazo_tlb = "FIFO" THEN 0
            ELSE Cardinality({tlb[i].instante : i \in DOMAIN tlb} \cap (0 .. n - 1))

\* The page of an entry whose process is dead is never looked up again.
Entrada(i) ==
  <<tlb[i].pid, Rango(tlb[i].instante)>> \o
  (IF tlb[i].pid \in terminados THEN <<>> ELSE <<tlb[i].pagina, tlb[i].marco>>)

\* The history as positions of the TLB; FIFO needs it until limpiar_tlb acts.
Posiciones ==
  IF algoritmo_reemplazo_tlb = "FIFO" /\ limpiada THEN <<>>
  ELSE [k \in DOMAIN orden |->
          CHOOSE i \in DOMAIN tlb : Nombre(tlb[i].pid, tlb[i].pagina) = orden[k]]

\* Nothing happens after a crash, and the pages of the dead are not looked at.
Vista ==
  IF caida # "nadie" THEN <<caida>> ELSE
  <<config, [i \in DOMAIN tlb |-> Entrada(i)],
    algoritmo_reemplazo_tlb = "LRU" /\ \E i \in DOMAIN tlb : tlb[i].instante = instante,
    ultima_entrada_fifo, Posiciones, falta, acceso, limpiada, terminados,
    [p \in Procesos \ terminados |-> residente[p]]>>
=============================================================================
