------------------------------- MODULE Memoria -------------------------------
(***************************************************************************)
(* Paging in memoria/src/memoria.c: the page tables, the bitmap of frames, *)
(* the user space and the swap file, worked on by three threads - the one  *)
(* that serves the cpu, the one that serves the kernel and the one that    *)
(* looks for frames.                                                       *)
(*                                                                         *)
(* The environment is the cpu without TLB (ENTRADAS_TLB=0), which asks for *)
(* a frame and then reads or writes it, one process at a time, and the     *)
(* kernel, which creates, blocks, unblocks and finishes the processes.  A  *)
(* process has one segment.  Kernel shows that the answer to a page fault  *)
(* unblocks the process that raised it, so here it does at once.           *)
(*                                                                         *)
(* The content of a page or a frame is what was last written to it: zeros, *)
(* garbage, or the value written by a process to a page.                   *)
(***************************************************************************)
EXTENDS Clock, FiniteSets

CONSTANTS
  Procesos,
  Tamanio,            \* how many pages the segment of each process takes
  Escribibles,        \* bound: the pages the processes write (they read all)
  Valores,            \* what a process may write
  CantidadMarcos,     \* tamanio_memoria / tamanio_pagina
  MARCOS_POR_PROCESO,
  TAMANIO_SWAP,       \* in pages
  GradoMax,           \* the kernel's GRADO_MAX_MULTIPROGRAMACION
  Nadie               \* no process

ASSUME MemoriaAssumption ==
  /\ IsFiniteSet(Procesos) /\ Nadie \notin Procesos
  /\ Tamanio \in [Procesos -> Nat \ {0}]
  /\ MARCOS_POR_PROCESO \in Nat \ {0}
  /\ GradoMax \in Nat \ {0}
  /\ CantidadMarcos \in Nat /\ CantidadMarcos >= GradoMax * MARCOS_POR_PROCESO
  /\ TAMANIO_SWAP \in Nat

Paginas == UNION {1 .. Tamanio[p] : p \in Procesos}

Marcos == 0 .. CantidadMarcos - 1

Ceros == <<Nadie, 0, 0>>
Basura == <<Nadie, 0, 1>>

VARIABLES
  algoritmo,       \* algoritmo_reemplazo
  tabla,           \* tabla_paginas: the registros of each process
  puntero_swap,    \* where the next page goes in the swap file, in pages
  bitmap,          \* bitarray_frames: the frames marked as taken
  espacio,         \* espacio_usuario_memoria: the content of each frame
  swap,            \* the swap file: the content of each page
  frames_ocupados, \* for each process, the queue of its loaded pages
  pendientes,      \* cola_pid_registro_tabla_paginas
  buscador,        \* the frame thread, between reading the bitmap and writing it
  liberador,       \* the kernel's thread, idem, in liberar_tablas_paginas_proceso
  liberadas,       \* how many pages of the process it has released
  ultima_escritura,\* the page last written, as the cpu's thread remembers it
  viva,            \* memoria has not crashed nor written outside its memory
  vida,            \* of each process, for the kernel
  por_liberar,     \* FINALIZAR_PROCESO messages not served yet
  reintento,       \* the page whose instruction a process must try again, or 0
  acceso,          \* the cpu's access between obtaining the frame and using it
  escrito          \* history: what each page must hold

tablas == <<algoritmo, tabla, puntero_swap, frames_ocupados, ultima_escritura>>
fisica == <<bitmap, espacio, swap>>
hilos == <<pendientes, buscador, liberador, liberadas>>
procesos == <<vida, por_liberar, reintento, acceso>>
vars == <<tablas, fisica, hilos, viva, procesos, escrito>>

Libre == [pid |-> Nadie]   \* a thread that is doing nothing

Registro == [frame : Marcos, modificado : {0, 1}, uso : {0, 1},
             presencia : {0, 1}, posicion_swap : Nat]

Init ==
  /\ algoritmo \in Algoritmos
  /\ tabla = [p \in Procesos |-> <<>>]
  /\ puntero_swap = 0
  /\ bitmap = {}
  /\ espacio = [m \in Marcos |-> Basura]
  /\ swap = [i \in 1 .. TAMANIO_SWAP |-> Ceros]
  /\ frames_ocupados = [p \in Procesos |-> <<>>]
  /\ pendientes = <<>> /\ buscador = Libre
  /\ liberador = Libre /\ liberadas = 0
  /\ ultima_escritura = Libre
  /\ viva = TRUE
  /\ vida = [p \in Procesos |-> "sin_crear"]
  /\ por_liberar = <<>>
  /\ reintento = [p \in Procesos |-> 0]
  /\ acceso = Libre
  /\ escrito = [p \in Procesos |-> <<>>]

-----------------------------------------------------------------------------
(* The thread of the kernel *)

Vivos == {p \in Procesos : vida[p] \in {"listo", "bloqueado"}}

\* crear_estructuras_administrativas_proceso: a registro per page, each with the
\* next position of the swap file.  Its message comes behind the FINALIZAR_PROCESO
\* of whoever gave it a place in the degree of multiprogramming.
CrearEstructuras(p) ==
  /\ vida[p] = "sin_crear"
  /\ liberador = Libre /\ liberadas = 0
  /\ Cardinality(Vivos) + Len(por_liberar) < GradoMax
  /\ tabla' = [tabla EXCEPT ![p] =
       [j \in 1 .. Tamanio[p] |->
          [frame |-> 0, modificado |-> 0, uso |-> 0, presencia |-> 0,
           posicion_swap |-> puntero_swap + j - 1]]]
  /\ puntero_swap' = puntero_swap + Tamanio[p]
  /\ escrito' = [escrito EXCEPT ![p] = [j \in 1 .. Tamanio[p] |-> Ceros]]
  /\ vida' = [vida EXCEPT ![p] = "listo"]
  /\ UNCHANGED <<algoritmo, frames_ocupados, ultima_escritura, fisica, hilos,
                 viva, por_liberar, reintento, acceso>>

\* The process in the cpu ended: the kernel sends FINALIZAR_PROCESO.
Finalizar(p) ==
  /\ vida[p] = "listo" /\ acceso = Libre /\ reintento[p] = 0
  /\ vida' = [vida EXCEPT ![p] = "finalizado"]
  /\ por_liberar' = Append(por_liberar, p)
  /\ UNCHANGED <<tablas, fisica, hilos, viva, reintento, acceso, escrito>>

\* liberar_tablas_paginas_proceso, one page: bitarray_clean_bit reads the bitmap...
LiberarPagina ==
  /\ por_liberar # <<>>
  /\ liberador = Libre
  /\ LET p == Head(por_liberar)
         j == liberadas + 1
     IN  /\ tabla' = [tabla EXCEPT ![p][j].presencia = 0]
         /\ liberador' = [pid |-> p, pagina |-> j, leido |-> bitmap]
  /\ UNCHANGED <<algoritmo, puntero_swap, frames_ocupados, ultima_escritura,
                 fisica, pendientes, buscador, liberadas, viva, procesos, escrito>>

\* Mutant: only for a page that is loaded, but presencia is already 0.
SinBitSiPresente(leido, r) == IF r.presencia = 1 THEN leido \ {r.frame} ELSE leido

SinBit(leido, r) == leido \ {r.frame}

\* ... and writes it back without the bit of the registro's frame, even if the
\* page was not loaded.
LimpiarBit ==
  /\ liberador # Libre
  /\ liberador' = Libre
  /\ LET p == liberador.pid
         j == liberador.pagina
     IN  /\ bitmap' = SinBit(liberador.leido, tabla[p][j])
         /\ IF j < Len(tabla[p])
            THEN liberadas' = j /\ UNCHANGED por_liberar
            ELSE liberadas' = 0 /\ por_liberar' = Tail(por_liberar)
         /\ escrito' = IF j < Len(tabla[p]) THEN escrito
                       ELSE [escrito EXCEPT ![p] = <<>>]
  /\ UNCHANGED <<tablas, espacio, swap, pendientes, buscador, viva, vida,
                 reintento, acceso>>

-----------------------------------------------------------------------------
(* The thread of the cpu: obtain the frame of a page, then read or write it *)

\* OBTENER_MARCO.  A process that raised a page fault tries the same page again.
ObtenerMarco(p, j) ==
  /\ vida[p] = "listo" /\ acceso = Libre
  /\ reintento[p] \in {0, j}
  /\ IF tabla[p][j].presencia = 1
     THEN /\ tabla' = [tabla EXCEPT ![p][j].uso = 1]
          /\ acceso' = [pid |-> p, pagina |-> j, marco |-> tabla[p][j].frame]
          /\ reintento' = [reintento EXCEPT ![p] = 0]
          /\ UNCHANGED <<pendientes, vida>>
     ELSE /\ pendientes' = Append(pendientes, [pid |-> p, pagina |-> j])
          /\ vida' = [vida EXCEPT ![p] = "bloqueado"]
          /\ reintento' = [reintento EXCEPT ![p] = j]
          /\ UNCHANGED <<tabla, acceso>>
  /\ UNCHANGED <<algoritmo, puntero_swap, frames_ocupados, ultima_escritura,
                 fisica, buscador, liberador, liberadas, viva, por_liberar, escrito>>

\* ESCRIBIR_MEMORIA.
Escribir(v) ==
  /\ acceso # Libre /\ acceso.pagina \in Escribibles
  /\ LET p == acceso.pid
         j == acceso.pagina
     IN  /\ espacio' = [espacio EXCEPT ![acceso.marco] = <<p, j, v>>]
         /\ tabla' = [tabla EXCEPT ![p][j].modificado = 1, ![p][j].uso = 1]
         /\ ultima_escritura' = [pid |-> p, pagina |-> j]
         /\ escrito' = [escrito EXCEPT ![p][j] = <<p, j, v>>]
  /\ acceso' = Libre
  /\ UNCHANGED <<algoritmo, puntero_swap, frames_ocupados, bitmap, swap, hilos,
                 viva, vida, por_liberar, reintento>>

\* LEER_MEMORIA.  It sets the bit uso of the page LAST WRITTEN (memoria.c:252);
\* before any write those variables hold whatever the stack had: some page that
\* exists, or none and memoria dies.
Leer ==
  /\ acceso # Libre
  /\ acceso' = Libre
  /\ \/ \E p \in Procesos : \E j \in DOMAIN tabla[p] :
          /\ ultima_escritura \in {Libre, [pid |-> p, pagina |-> j]}
          /\ tabla' = [tabla EXCEPT ![p][j].uso = 1]
          /\ UNCHANGED viva
     \/ /\ ultima_escritura = Libre
        /\ viva' = FALSE
        /\ UNCHANGED tabla
  /\ UNCHANGED <<algoritmo, puntero_swap, frames_ocupados, ultima_escritura,
                 fisica, hilos, vida, por_liberar, reintento, escrito>>

-----------------------------------------------------------------------------
(* The thread that looks for frames *)

\* Mutant: the first page is not counted.
OcupadosDesdeUno(p) == Cardinality({j \in DOMAIN tabla[p] : j > 1 /\ tabla[p][j].presencia = 1})

\* obtener_cantidad_marcos_ocupados_proceso.
Ocupados(p) == Cardinality({j \in DOMAIN tabla[p] : tabla[p][j].presencia = 1})

\* Mutant: the read end of the queue is not the one popped.
SacarUltimo == pendientes' = Front(pendientes)

\* obtener_tupla_elementos_lista_frames_pendientes.
SacarPendiente == pendientes' = Tail(pendientes)

\* Mutant: off by one.
MarcoAnterior == Min(Marcos \ bitmap) - 1

\* obtener_numero_frame_libre.
MarcoLibre == Min(Marcos \ bitmap)

\* buscar_frame_libre_proceso, a process with frames left: the first bit at zero
\* is found and the bitmap read to set it.  The loop has no end: when all are
\* taken it goes past the bits of the frames, and the page is copied beyond the
\* user space.
BuscarMarco ==
  /\ pendientes # <<>> /\ buscador = Libre
  /\ MARCOS_POR_PROCESO > Ocupados(Head(pendientes).pid)
  /\ SacarPendiente
  /\ IF Marcos \subseteq bitmap
     THEN viva' = FALSE /\ UNCHANGED buscador
     ELSE /\ buscador' = [pid |-> Head(pendientes).pid,
                          pagina |-> Head(pendientes).pagina,
                          marco |-> MarcoLibre, leido |-> bitmap]
          /\ UNCHANGED viva
  /\ UNCHANGED <<tablas, fisica, liberador, liberadas, procesos, escrito>>

\* Mutant: the kernel is not told.
NoAtender(p) == UNCHANGED vida

\* PAGE_FAULT_ATENDIDO.
Atender(p) == vida' = [vida EXCEPT ![p] = "listo"]

\* Mutant: presencia is not set.
CargadaAusente(r, m) == [r EXCEPT !.frame = m, !.uso = 1]

\* The registro of a page loaded into frame m.
Cargada(r, m) == [r EXCEPT !.frame = m, !.presencia = 1, !.uso = 1]

\* Mutant: bitarray_set_bit is missing.
SinPonerBit(leido, m) == leido

ConBit(leido, m) == leido \cup {m}

\* Mutant: positions of the file taken from 1.
EnSwapDesdeUno(i) == IF i \in DOMAIN swap THEN swap[i] ELSE Basura

\* What the swap file gives for a page: a read beyond its end fills nothing of
\* the buffer just allocated.
EnSwap(i) == IF i + 1 \in DOMAIN swap THEN swap[i + 1] ELSE Basura

\* ... the bitmap is written, and the page read from swap into its frame.
CargarPagina ==
  /\ buscador # Libre
  /\ LET p == buscador.pid
         j == buscador.pagina
     IN  /\ tabla' = [tabla EXCEPT ![p][j] = Cargada(@, buscador.marco)]
         /\ espacio' = [espacio EXCEPT ![buscador.marco] =
                          EnSwap(tabla[p][j].posicion_swap)]
         /\ frames_ocupados' = [frames_ocupados EXCEPT ![p] = Append(@, j)]
         /\ Atender(p)
  /\ bitmap' = ConBit(buscador.leido, buscador.marco)
  /\ buscador' = Libre
  /\ UNCHANGED <<algoritmo, puntero_swap, ultima_escritura, swap, pendientes,
                 liberador, liberadas, viva, por_liberar, reintento, acceso, escrito>>

\* actualizar_pagina_en_swap: "wb" truncates the file before the page is written
\* at its position, so the pages before it become zeros and those after it go.
EscribirSwap(i, contenido) ==
  [k \in 1 .. i + 1 |-> IF k = i + 1 THEN contenido ELSE Ceros]

\* ejecutar_clock, ejecutar_clock_modificado: the victim's frame passes to the
\* new page as it is.  An empty queue would give NULL, and memoria would die.
Reemplazar ==
  /\ pendientes # <<>> /\ buscador = Libre
  /\ MARCOS_POR_PROCESO <= Ocupados(Head(pendientes).pid)
  /\ SacarPendiente
  /\ LET p     == Head(pendientes).pid
         nueva == Head(pendientes).pagina
         cola  == [k \in DOMAIN frames_ocupados[p] |-> tabla[p][frames_ocupados[p][k]]]
         i     == Victima(algoritmo, cola)
         sale  == frames_ocupados[p][i]
         limpias == {frames_ocupados[p][k] : k \in Limpiadas(algoritmo, cola)} \ {sale}
     IN  IF cola = <<>> THEN viva' = FALSE /\ UNCHANGED <<tabla, frames_ocupados, swap, vida>>
         ELSE /\ tabla' = [tabla EXCEPT ![p] =
                   [j \in DOMAIN tabla[p] |->
                      CASE j = nueva -> Cargada(tabla[p][j], tabla[p][sale].frame)
                        [] j = sale  -> [tabla[p][j] EXCEPT
                             !.presencia = 0, !.uso = 0, !.modificado = 0]
                        [] j \in limpias -> [tabla[p][j] EXCEPT !.uso = 0]
                        [] OTHER -> tabla[p][j]]]
              /\ frames_ocupados' = [frames_ocupados EXCEPT ![p] = Rotar(@, i, nueva)]
              /\ swap' = IF cola[i].modificado = 1
                         THEN EscribirSwap(cola[i].posicion_swap, espacio[cola[i].frame])
                         ELSE swap
              /\ Atender(p)
              /\ UNCHANGED viva
  /\ UNCHANGED <<algoritmo, puntero_swap, ultima_escritura, bitmap, espacio,
                 buscador, liberador, liberadas, por_liberar, reintento, acceso, escrito>>

-----------------------------------------------------------------------------

HiloKernel == (\E p \in Procesos : CrearEstructuras(p)) \/ LiberarPagina \/ LimpiarBit

HiloCpu ==
  \/ \E p \in Procesos : \E j \in 1 .. Tamanio[p] : ObtenerMarco(p, j)
  \/ \E v \in Valores : Escribir(v)
  \/ Leer

HiloBuscador == BuscarMarco \/ CargarPagina \/ Reemplazar

Next ==
  /\ viva
  /\ \/ HiloKernel \/ HiloCpu \/ HiloBuscador
     \/ \E p \in Procesos : Finalizar(p)

Spec == Init /\ [][Next]_vars

\* The frame thread runs whenever sem_wait(&buscar_frame) lets it.
SpecJusta == Spec /\ WF_vars(viva /\ HiloBuscador)

-----------------------------------------------------------------------------
(* Properties *)

Contenidos == {Ceros, Basura} \cup (Procesos \X Paginas \X Valores)

Pagina == [pid : Procesos, pagina : Paginas]

\* The type of every variable of memoria and of its environment.
TypeOK ==
  /\ algoritmo \in Algoritmos
  /\ tabla \in [Procesos -> Seq(Registro)]
  /\ puntero_swap \in Nat
  /\ bitmap \subseteq Marcos
  /\ espacio \in [Marcos -> Contenidos]
  /\ swap \in Seq(Contenidos)
  /\ frames_ocupados \in [Procesos -> Seq(Paginas)]
  /\ pendientes \in Seq(Pagina)
  /\ buscador \in {Libre} \cup [pid : Procesos, pagina : Paginas,
                                marco : Marcos, leido : SUBSET Marcos]
  /\ liberador \in {Libre} \cup [pid : Procesos, pagina : Paginas,
                                 leido : SUBSET Marcos]
  /\ liberadas \in 0 .. Cardinality(Paginas)
  /\ ultima_escritura \in {Libre} \cup Pagina
  /\ viva \in BOOLEAN
  /\ vida \in [Procesos -> {"sin_crear", "listo", "bloqueado", "finalizado"}]
  /\ por_liberar \in Seq(Procesos)
  /\ reintento \in [Procesos -> 0 .. Cardinality(Paginas)]
  /\ acceso \in {Libre} \cup [pid : Procesos, pagina : Paginas, marco : Marcos]
  /\ escrito \in [Procesos -> Seq(Contenidos)]

Presentes(p) == {j \in DOMAIN tabla[p] : tabla[p][j].presencia = 1}

\* The queue the replacement turns round holds exactly the pages of its process
\* that are loaded, once each, and never more than MARCOS_POR_PROCESO: the clock
\* finds no NULL in it and its MARCOS_POR_PROCESO turns are one whole pass.
ResidentesEnCola ==
  \A p \in Vivos : /\ ToSet(frames_ocupados[p]) = Presentes(p)
                   /\ IsInjective(frames_ocupados[p])
                   /\ Len(frames_ocupados[p]) <= MARCOS_POR_PROCESO

\* A process blocked by a page fault has exactly one request on its way through
\* the frame thread, for the page it will try again; nobody else has any.
PendientesExactos ==
  LET pedidos == pendientes \o (IF buscador = Libre THEN <<>>
                   ELSE <<[pid |-> buscador.pid, pagina |-> buscador.pagina]>>)
  IN  viva => /\ IsInjective(pedidos)
              /\ ToSet(pedidos) = {[pid |-> p, pagina |-> reintento[p]] :
                                     p \in {q \in Procesos : vida[q] = "bloqueado"}}

\* When a page fault was answered the page stays until the process uses it: no
\* other thread or process takes it away, so a fault is not raised twice.
FaltaUtil ==
  \A p \in Procesos :
     vida[p] = "listo" /\ reintento[p] # 0 => reintento[p] \in Presentes(p)

\* No frame holds two pages of processes alive, loaded or being loaded.
MarcosExclusivos ==
  \A p, q \in Vivos : \A j \in Presentes(p), k \in Presentes(q) :
     tabla[p][j].frame = tabla[q][k].frame => p = q /\ j = k

\* Between two operations the bitmap marks the frames in use and no other.
BitmapExacto ==
  buscador = Libre /\ liberador = Libre /\ liberadas = 0 =>
    bitmap = UNION {{tabla[p][j].frame : j \in Presentes(p)} : p \in Procesos}

\* An access finds in its frame what was last written to its page.
AccesoCorrecto ==
  acceso # Libre => espacio[acceso.marco] = escrito[acceso.pid][acceso.pagina]

\* ... while no page had to be written to swap and the process fits in its frames.
AccesoSinReemplazo ==
  acceso # Libre /\ Len(tabla[acceso.pid]) <= MARCOS_POR_PROCESO
    /\ swap = [i \in 1 .. TAMANIO_SWAP |-> Ceros] => AccesoCorrecto

\* Memoria dies only when it reads before anything was written.
UnicaCaida == [][ viva' \/ (acceso # Libre /\ ultima_escritura = Libre) ]_vars

\* Every page fault is answered, unless memoria dies.
FaltaAtendida ==
  \A p \in Procesos : vida[p] = "bloqueado" ~> (vida[p] = "listo" \/ ~ viva)
-----------------------------------------------------------------------------
(* The abstract paging that memoria implements *)

Residente(p) == [j \in Presentes(p) |-> tabla[p][j].frame]

Residentes == [p \in Procesos |-> Residente(p)]

Terminados == {p \in Procesos : vida[p] = "finalizado"}

Pag == INSTANCE Paginacion WITH residente <- Residentes, terminados <- Terminados

\* Whatever the threads do to the tables and the bitmap, a loaded page changes
\* or loses its frame only to another page of its process, or once it ended:
\* what the cpu's TLB takes for granted.
PaginacionRespetada == Pag!Spec
=============================================================================
