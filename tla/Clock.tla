-------------------------------- MODULE Clock --------------------------------
(***************************************************************************)
(* What the page replacement of memoria/src/memoria.c chooses, in closed   *)
(* form: ejecutar_clock and ejecutar_clock_modificado as functions of the  *)
(* queue of the process's pages and of their bits.  Reemplazo shows that   *)
(* the loops of the code compute this.                                     *)
(***************************************************************************)
EXTENDS Integers, Sequences, SequencesExt

Algoritmos == {"CLOCK", "CLOCK-M"}

\* The lower its class, the sooner a page goes: CLOCK looks at the bit uso,
\* CLOCK-M at the pair (uso, modificado).
Clase(algoritmo, r) ==
  IF algoritmo = "CLOCK" THEN r.uso ELSE 2 * r.uso + r.modificado

\* Position of the victim in cola, the queue of the registros of the pages:
\* the first of the lowest class.
Victima(algoritmo, cola) ==
  Min({i \in DOMAIN cola : \A j \in DOMAIN cola :
         Clase(algoritmo, cola[i]) <= Clase(algoritmo, cola[j])})

\* Positions whose bit uso the search clears.  CLOCK clears what it passes, all
\* when every page was used; CLOCK-M clears nothing while it looks for a (0,0).
Limpiadas(algoritmo, cola) ==
  LET i == Victima(algoritmo, cola)
  IN  IF cola[i].uso = 1 THEN DOMAIN cola
      ELSE IF algoritmo = "CLOCK" \/ cola[i].modificado = 1 THEN 1 .. i - 1
      ELSE {}

\* Mutant: the new page is not pushed.
RotarSinNueva(cola, i, nueva) ==
  SubSeq(cola, i + 1, Len(cola)) \o SubSeq(cola, 1, i - 1)

\* The queue once position i left it and nueva came in: the search rotates it.
Rotar(cola, i, nueva) ==
  SubSeq(cola, i + 1, Len(cola)) \o SubSeq(cola, 1, i - 1) \o <<nueva>>
=============================================================================
