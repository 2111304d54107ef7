------------------------------ MODULE Reemplazo ------------------------------
(***************************************************************************)
(* The loops of the page replacement, one turn at a time: ejecutar_clock,  *)
(* and ejecutar_clock_modificado with buscar_registro_0_0 and              *)
(* buscar_registro_0_1 (memoria.c:478-572).  They run when the process has *)
(* marcos_por_proceso pages loaded, so that is the length of its queue.    *)
(* Meanwhile the thread of the cpu serves other processes: a read sets the *)
(* bit uso of the page that was last WRITTEN (memoria.c:252), which may be *)
(* one of these.                                                           *)
(***************************************************************************)
EXTENDS Clock

CONSTANT MaxMarcos  \* bound of marcos_por_proceso

ASSUME ReemplazoAssumption == MaxMarcos \in Nat \ {0}

VARIABLES
  algoritmo,          \* algoritmo_reemplazo
  marcos_por_proceso,
  cola,               \* paginas_frames_proceso: page numbers
  registro,           \* the bits of each page
  busca,              \* the loop that runs, or "nada" once there is a victim
  vuelta,             \* its turns in a CLOCK-M search
  victima,            \* the page that left (0 before)
  escrita,            \* the page last written, 0 if it is of another process
  inicial,            \* history: the registros of the queue at the start
  estorbo             \* history: a read has set a bit that was not

vars == <<algoritmo, marcos_por_proceso, cola, registro, busca, vuelta,
          victima, escrita, inicial, estorbo>>
fijas == <<algoritmo, marcos_por_proceso, escrita, inicial>>

Nueva == marcos_por_proceso + 1
Bits == [uso : {0, 1}, modificado : {0, 1}]

Init ==
  /\ algoritmo \in Algoritmos
  /\ marcos_por_proceso \in 1 .. MaxMarcos
  /\ cola = [i \in 1 .. marcos_por_proceso |-> i]
  /\ inicial \in [1 .. marcos_por_proceso -> Bits]
  /\ registro = Append(inicial, [uso |-> 0, modificado |-> 0])
  /\ busca = IF algoritmo = "CLOCK" THEN "clock" ELSE "0_0"
  /\ vuelta = 0
  /\ victima = 0
  /\ escrita \in 0 .. marcos_por_proceso
  /\ estorbo = FALSE

\* The page at the head leaves its frame to the new one; if it was modified it
\* is written to swap (actualizar_pagina_en_swap).
Reemplazar ==
  /\ victima' = Head(cola)
  /\ registro' = [registro EXCEPT ![Head(cola)].modificado = 0, ![Nueva].uso = 1]
  /\ cola' = Append(Tail(cola), Nueva)
  /\ busca' = "nada"
  /\ UNCHANGED <<vuelta, estorbo, fijas>>

\* The page at the head goes to the end, with its bit uso set to u.
Pasar(u) ==
  /\ registro' = [registro EXCEPT ![Head(cola)].uso = u]
  /\ cola' = Append(Tail(cola), Head(cola))
  /\ UNCHANGED <<victima, estorbo, fijas>>

Bit == registro[Head(cola)]

EjecutarClock ==
  /\ busca = "clock"
  /\ \/ Bit.uso = 0 /\ Reemplazar
     \/ Bit.uso = 1 /\ Pasar(0) /\ UNCHANGED <<busca, vuelta>>

\* One turn of a search of CLOCK-M, which looks for a page with sirve and sets
\* the bit uso of the others to u, or its end: then the other search starts.
Turno(esta, otra, sirve, u) ==
  /\ busca = esta
  /\ IF vuelta = marcos_por_proceso
     THEN /\ busca' = otra /\ vuelta' = 0
          /\ UNCHANGED <<cola, registro, victima, estorbo, fijas>>
     ELSE \/ sirve /\ Reemplazar
          \/ ~ sirve /\ Pasar(u) /\ vuelta' = vuelta + 1 /\ UNCHANGED busca

\* Mutant: the first search clears the bit uso too.
Buscar_0_0_Limpiando ==
  Turno("0_0", "0_1", Bit = [uso |-> 0, modificado |-> 0], 0)

Buscar_0_0 ==
  Turno("0_0", "0_1", Bit = [uso |-> 0, modificado |-> 0], Bit.uso)

\* Mutant: the second search does not clear it.
Buscar_0_1_SinLimpiar ==
  Turno("0_1", "0_0", Bit = [uso |-> 0, modificado |-> 1], Bit.uso)

Buscar_0_1 ==
  Turno("0_1", "0_0", Bit = [uso |-> 0, modificado |-> 1], 0)

Buscar == EjecutarClock \/ Buscar_0_0 \/ Buscar_0_1

\* LEER_MEMORIA, between two turns.
Leer ==
  /\ busca # "nada" /\ escrita # 0 /\ registro[escrita].uso = 0
  /\ registro' = [registro EXCEPT ![escrita].uso = 1]
  /\ estorbo' = TRUE
  /\ UNCHANGED <<cola, busca, vuelta, victima, fijas>>

Next == Buscar \/ Leer

\* The search goes on; nobody has to read.
Spec == Init /\ [][Next]_vars /\ WF_vars(Buscar)

-----------------------------------------------------------------------------
(* Properties *)

\* The victim among the pages that were not last written.
VictimaEntreLasDemas ==
  LET demas == [k \in 1 .. marcos_por_proceso - 1 |-> IF k < escrita THEN k ELSE k + 1]
  IN  demas[Victima(algoritmo, [k \in DOMAIN demas |-> inicial[demas[k]]])]

\* Whatever the bits, the passes of two searches that call each other choose the
\* first page of the lowest class (uso, modificado), leave the rest in their order
\* and give a second chance to exactly the pages of Limpiadas.  The reads of other
\* processes, as many as come and whenever they come, can save the page last
\* written, for the page that would be chosen without it, and change nothing else.
ReemplazoCorrecto ==
  busca = "nada" =>
    LET i == Victima(algoritmo, inicial)
        paginas == [k \in DOMAIN inicial |-> k]
    IN
    /\ \/ victima = i
       \/ estorbo /\ i = escrita /\ victima = VictimaEntreLasDemas
    /\ \E k \in DOMAIN inicial : k = victima /\ cola = Rotar(paginas, k, Nueva)
    /\ ~ estorbo =>
         \A k \in DOMAIN inicial :
           registro[k] =
             [uso |-> IF k \in Limpiadas(algoritmo, inicial) THEN 0
                      ELSE inicial[k].uso,
              modificado |-> IF k = i THEN 0 ELSE inicial[k].modificado]

\* The search ends, so that memoria's thread of page faults is not lost in it, and
\* with two frames or more it does however many reads come.
Termina == marcos_por_proceso > 1 \/ escrita = 0 => <>(busca = "nada")
=============================================================================
