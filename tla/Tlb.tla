--------------------------------- MODULE Tlb ---------------------------------
(***************************************************************************)
(* The MMU and the TLB of cpu/src/cpu.c:266-523: a logical address becomes *)
(* a segmentation fault, a page fault or a frame, found in the TLB or else *)
(* asked to memoria and kept, in the place of another entry when the TLB   *)
(* is full (FIFO or LRU).  Only the EXIT of its process removes an entry:  *)
(* nobody tells the cpu that a page was replaced.                          *)
(*                                                                         *)
(* Memoria is Paginacion, which Memoria.tla implements.  The kernel may    *)
(* give the cpu any process after any instruction, and while one process   *)
(* runs only the page faults of others are served, so a whole translation  *)
(* is one action.                                                          *)
(***************************************************************************)
EXTENDS Integers, Sequences, FiniteSets, SequencesExt

CONSTANTS
  Procesos,
  tamanio_segmento,    \* the sizes of the segments of each process
  tamanio_pagina,
  entradas_por_tabla,
  Marcos, MARCOS_POR_PROCESO,
  MaxEntradas          \* bound of ENTRADAS_TLB

TamanioMaximo == entradas_por_tabla * tamanio_pagina

ASSUME TlbAssumption ==
  /\ tamanio_pagina \in Nat \ {0} /\ entradas_por_tabla \in Nat \ {0}
  /\ MARCOS_POR_PROCESO \in Nat \ {0} /\ MaxEntradas \in Nat
  /\ \A p \in Procesos : tamanio_segmento[p] \in Seq(1 .. TamanioMaximo)

\* Segments and pages are numbered from 0, and a page is <<segment, number>>.
Segmentos(p) == 0 .. Len(tamanio_segmento[p]) - 1

\* crear_estructuras_administrativas_proceso: the registros memoria makes.
PaginasDe(p) ==
  {j \in Segmentos(p) \X (0 .. entradas_por_tabla - 1) :
     j[2] * tamanio_pagina < tamanio_segmento[p][j[1] + 1]}

Paginas == UNION {PaginasDe(p) : p \in Procesos}

\* Bound: the logical addresses a program may name, one segment too many.
Direcciones(p) == 0 .. (Len(tamanio_segmento[p]) + 1) * TamanioMaximo - 1

VARIABLES
  algoritmo_reemplazo_tlb, entradas_max_tlb,  \* REEMPLAZO_TLB, ENTRADAS_TLB
  tlb, ultima_entrada_fifo,
  instante,   \* instante_referencia_nueva_entrada
  falta,      \* the page each process waits for or tries again, as a set
  caida,      \* who has dereferenced NULL, if anybody
  acceso,     \* the frame the cpu goes to now, as a set of one translation
  orden,      \* history: the pages in the TLB, oldest arrival (FIFO) or use first
  limpiada,   \* history: limpiar_tlb has removed something
  residente, terminados  \* Paginacion's

cpu == <<tlb, ultima_entrada_fifo, instante, orden>>
config == <<algoritmo_reemplazo_tlb, entradas_max_tlb>>
vars == <<config, cpu, falta, caida, acceso, limpiada, residente, terminados>>

Pag == INSTANCE Paginacion

Init ==
  /\ algoritmo_reemplazo_tlb \in {"FIFO", "LRU"}
  /\ entradas_max_tlb \in 0 .. MaxEntradas
  /\ tlb = <<>> /\ ultima_entrada_fifo = 0 /\ instante = 0
  /\ falta = [p \in Procesos |-> {}]
  /\ caida = "nadie" /\ acceso = {}
  /\ orden = <<>> /\ limpiada = FALSE
  /\ Pag!Init

-----------------------------------------------------------------------------
(* Translation *)

\* What is left of a list: its elements at positions I, in their order (SelectSeq
\* is recursive, which no prover expands).
Quedan(s, I) ==
  [k \in 1 .. Cardinality(I) |-> s[CHOOSE i \in I : Cardinality({h \in I : h <= i}) = k]]

\* limpiar_tlb, on the TLB or on its history.
SinEntradasDe(p, s) == Quedan(s, {i \in DOMAIN s : s[i].pid # p})

\* The history without an entry that is referred again or leaves.
SinNombre(n) == Quedan(orden, {k \in DOMAIN orden : orden[k] # n})

Segmento(dir) == dir \div TamanioMaximo
Desplazamiento(dir) == dir % TamanioMaximo
Pagina(dir) == <<Segmento(dir), Desplazamiento(dir) \div tamanio_pagina>>

\* Mutant: the first address after the segment is taken for one of its own.
ExcedePorMas(p, dir) ==
  Desplazamiento(dir) > tamanio_segmento[p][Segmento(dir) + 1]

Excede(p, dir) ==
  Desplazamiento(dir) >= tamanio_segmento[p][Segmento(dir) + 1]

\* p executes an instruction with address dir; it tries again the page it missed.
Ejecuta(p, dir) ==
  /\ p \notin terminados /\ dir \in Direcciones(p)
  /\ falta[p] \subseteq {Pagina(dir)} \cap Pag!Cargadas(p)

\* Mutant: the entry may be of another process.
BuscarSinPid(p, j) == {i \in DOMAIN tlb : tlb[i].pagina = j}

\* tlb_obtener_marco: the position of the entry of page j of p, as a set.
Buscar(p, j) == {i \in DOMAIN tlb : tlb[i].pid = p /\ tlb[i].pagina = j}

Nombre(p, j) == [pid |-> p, pagina |-> j]
Traduccion(p, j, m) == [pid |-> p, pagina |-> j, marco |-> m]

\* Mutant: a hit does not count as a reference.
ReferirNada(i) == UNCHANGED <<tlb, instante, ultima_entrada_fifo>>

\* A hit takes the next instant.
Referir(i) ==
  /\ instante' = instante + 1
  /\ tlb' = [tlb EXCEPT ![i].instante = instante + 1]
  /\ UNCHANGED ultima_entrada_fifo

Acertar(p, dir) ==
  /\ Ejecuta(p, dir)
  /\ Segmento(dir) \in Segmentos(p) /\ ~ Excede(p, dir)
  /\ LET j == Pagina(dir) IN
       \E i \in Buscar(p, j) :
         /\ \A k \in Buscar(p, j) : i <= k
         /\ Referir(i)
         /\ acceso' = {Traduccion(p, j, tlb[i].marco)}
         /\ orden' = IF algoritmo_reemplazo_tlb = "LRU"
                     THEN Append(SinNombre(Nombre(p, j)), Nombre(p, j))
                     ELSE orden
  /\ falta' = [falta EXCEPT ![p] = {}]
  /\ UNCHANGED <<config, caida, limpiada, residente, terminados>>

\* obtener_indice_entrada_menor_instante_referencia.
IndiceMenorInstante ==
  CHOOSE i \in DOMAIN tlb : \A k \in DOMAIN tlb :
    tlb[i].instante < tlb[k].instante \/ (tlb[i].instante = tlb[k].instante /\ i <= k)

\* Mutant: the pointer goes one past the end.
SiguienteFifoDeMas ==
  IF ultima_entrada_fifo = entradas_max_tlb THEN 0 ELSE ultima_entrada_fifo + 1

SiguienteFifo ==
  IF ultima_entrada_fifo = entradas_max_tlb - 1 THEN 0 ELSE ultima_entrada_fifo + 1

\* tlb_actualizar and reemplazar_entrada_tlb: a miss takes the CURRENT instant,
\* which may be that of the last hit.
Guardar(entrada) ==
  /\ instante' = instante + 1
  /\ IF Len(tlb) < entradas_max_tlb
     THEN /\ tlb' = Append(tlb, entrada)
          /\ orden' = Append(orden, Nombre(entrada.pid, entrada.pagina))
          /\ UNCHANGED ultima_entrada_fifo
     ELSE LET i == IF algoritmo_reemplazo_tlb = "FIFO" THEN ultima_entrada_fifo + 1
                                                       ELSE IndiceMenorInstante
          IN  /\ tlb' = [tlb EXCEPT ![i] = entrada]
              /\ orden' = Append(SinNombre(Nombre(tlb[i].pid, tlb[i].pagina)),
                                 Nombre(entrada.pid, entrada.pagina))
              /\ IF algoritmo_reemplazo_tlb = "FIFO"
                 THEN ultima_entrada_fifo' = SiguienteFifo
                 ELSE UNCHANGED ultima_entrada_fifo

\* A TLB miss whose page is loaded (OBTENER_MARCO).
Fallar(p, dir) ==
  /\ Ejecuta(p, dir)
  /\ Segmento(dir) \in Segmentos(p) /\ ~ Excede(p, dir)
  /\ LET j == Pagina(dir) IN
       /\ Buscar(p, j) = {} /\ j \in Pag!Cargadas(p)
       /\ acceso' = {Traduccion(p, j, residente[p][j])}
       /\ IF entradas_max_tlb > 0
          THEN Guardar([pid |-> p, pagina |-> j, marco |-> residente[p][j],
                        instante |-> instante])
          ELSE UNCHANGED cpu
  /\ falta' = [falta EXCEPT ![p] = {}]
  /\ UNCHANGED <<config, caida, limpiada, residente, terminados>>

\* A TLB miss whose page is not: memoria answers PAGE_FAULT.  For a page without
\* a registro it dereferences NULL.
FaltarPagina(p, dir) ==
  /\ Ejecuta(p, dir)
  /\ Segmento(dir) \in Segmentos(p) /\ ~ Excede(p, dir)
  /\ LET j == Pagina(dir) IN
       /\ Buscar(p, j) = {} /\ j \notin Pag!Cargadas(p)
       /\ IF j \in PaginasDe(p)
          THEN falta' = [falta EXCEPT ![p] = {j}] /\ UNCHANGED caida
          ELSE caida' = "memoria" /\ UNCHANGED falta
  /\ acceso' = {}
  /\ UNCHANGED <<config, cpu, limpiada, residente, terminados>>

\* SEGMENTATION_FAULT: the process ends and limpiar_tlb leaves its entries.  A
\* segment that is not in the table is dereferenced.
Fuera(p, dir) ==
  /\ Ejecuta(p, dir)
  /\ IF Segmento(dir) \in Segmentos(p)
     THEN Excede(p, dir) /\ Pag!Terminar(p) /\ UNCHANGED caida
     ELSE caida' = "cpu" /\ UNCHANGED <<residente, terminados>>
  /\ acceso' = {}
  /\ UNCHANGED <<config, cpu, falta, limpiada>>

\* FINALIZAR_PROCESO: limpiar_tlb removes the entries of p; the FIFO pointer
\* stays where it was.
Salir(p) ==
  /\ p \notin terminados /\ falta[p] = {}
  /\ Pag!Terminar(p)
  /\ tlb' = SinEntradasDe(p, tlb)
  /\ orden' = SinEntradasDe(p, orden)
  /\ limpiada' = (limpiada \/ tlb' # tlb)
  /\ acceso' = {}
  /\ UNCHANGED <<config, ultima_entrada_fifo, instante, falta, caida>>

\* Memoria serves the page fault of p.  The frame may be any, one that p or another
\* process has included: liberar_tablas_paginas_proceso clears bits of frames in
\* use, and obtener_numero_frame_libre gives the first clear one.  Any page of p may
\* be the one that leaves.
Paginar(p) ==
  /\ \E j \in falta[p] : \/ \E m \in Marcos : Pag!Cargar(p, j, m)
                          \/ \E i \in Paginas : Pag!Reemplazar(p, i, j)
  /\ acceso' = {}
  /\ UNCHANGED <<config, cpu, falta, caida, limpiada>>

Next ==
  /\ caida = "nadie"
  /\ \E p \in Procesos :
       \/ Salir(p) \/ Paginar(p)
       \/ \E dir \in Direcciones(p) : \/ Acertar(p, dir) \/ Fallar(p, dir)
                                      \/ FaltarPagina(p, dir) \/ Fuera(p, dir)

Spec == Init /\ [][Next]_vars

-----------------------------------------------------------------------------
(* Properties *)

Nombres == [pid : Procesos, pagina : Paginas]

\* The type of every variable of the cpu's MMU; the TLB has no page twice and
\* never more than ENTRADAS_TLB entries, and the FIFO pointer is on one of them
\* whenever a victim is needed.
TypeOK ==
  /\ algoritmo_reemplazo_tlb \in {"FIFO", "LRU"}
  /\ entradas_max_tlb \in Nat
  /\ tlb \in Seq([pid : Procesos, pagina : Paginas, marco : Marcos, instante : Nat])
  /\ Len(tlb) <= entradas_max_tlb
  /\ instante \in Nat
  /\ ultima_entrada_fifo \in 0 .. (IF entradas_max_tlb = 0 THEN 0 ELSE entradas_max_tlb - 1)
  /\ falta \in [Procesos -> SUBSET Paginas]
  /\ caida \in {"nadie", "cpu", "memoria"} /\ limpiada \in BOOLEAN
  /\ acceso \subseteq [pid : Procesos, pagina : Paginas, marco : Marcos]
  /\ orden \in Seq(Nombres) /\ IsInjective(orden)
  /\ ToSet(orden) = {Nombre(tlb[i].pid, tlb[i].pagina) : i \in DOMAIN tlb}
  /\ Len(orden) = Len(tlb)
  /\ DOMAIN residente = Procesos
  /\ terminados \subseteq Procesos

\* What the cpu holds as the frame of a page of a process that still runs.
Traducciones ==
  {t \in acceso \cup {Traduccion(tlb[i].pid, tlb[i].pagina, tlb[i].marco) :
                        i \in DOMAIN tlb} : t.pid \notin terminados}

\* A process whose pages fit in its frames, so that none is ever replaced.
Cabe(p) == Cardinality(PaginasDe(p)) <= MARCOS_POR_PROCESO

\* For a process that fits in its frames the TLB, which nobody ever tells of a
\* replacement, still agrees with the page tables, and so does every access.
TlbCoherente ==
  \A t \in Traducciones :
    Cabe(t.pid) => t.pagina \in Pag!Cargadas(t.pid) /\ residente[t.pid][t.pagina] = t.marco

\* For the others an entry may name a page that left, but its frame is still one that
\* the process's own table gives to some page: what a stale hit reaches is a frame
\* of the process, and whether memoria gave that frame to another one too is
\* memoria's matter (MarcosExclusivos of Memoria).
MarcoPropio ==
  \A t \in Traducciones :
    \E j \in Pag!Cargadas(t.pid) : residente[t.pid][j] = t.marco

\* Whichever entry gives its place to another in a step is the one that should.
VictimaDebida ==
  \A i \in DOMAIN tlb :
    terminados' = terminados /\ Len(tlb') = Len(tlb)
    /\ Nombre(tlb'[i].pid, tlb'[i].pagina) # Nombre(tlb[i].pid, tlb[i].pagina) =>
      LET v == Nombre(tlb[i].pid, tlb[i].pagina)
          Instante(n) == (CHOOSE e \in ToSet(tlb) : Nombre(e.pid, e.pagina) = n).instante
      IN  IF algoritmo_reemplazo_tlb = "FIFO" THEN limpiada \/ v = orden[1]
          ELSE v = orden[1] \/ (v = orden[2] /\ Instante(v) = Instante(orden[1]))

\* The entry that leaves a full TLB.  FIFO: the first that came, until limpiar_tlb
\* removes an entry and the pointer no longer follows the arrivals.  LRU: the one
\* not used for longest, or the next one when both have the same instant, which a
\* hit and the miss after it get.
VictimaJusta == [][VictimaDebida]_vars

\* Memoria, which rounds the sizes up to make its registros, is never asked for a
\* page it made none for: the address is checked against the size in bytes.
ConsultaValida == caida # "memoria"
=============================================================================
