# ChamacOS in TLA+

Specifications, model-checking configurations and machine-checked proofs for
ChamacOS (tp-2022-2c-Chamacos), a distributed simulation of an operating system:
a kernel that schedules, a cpu, a memory with paging and swap, and consoles that
send programs, four C programs that talk through TCP sockets.

Contents: 1 the system, 2 what is hard in it, 3 the plan, 4 the modules and the
code, 5 the runs, 6 the proofs, 7 disagreements found, 8 what is not modelled.

To check: `tlc -config Mezcla.cfg MCKernel.tla` (the module of each run is in
section 5) and `tlapm KernelProofs.tla`, `QuantumProofs.tla`, `MemoriaProofs.tla`,
`TlbProofs.tla`, `ReemplazoProofs.tla`, `ComunicacionProofs.tla`,
`DescriptoresProofs.tla` and `Conteo.tla`, which the others share.

## 1. The system

| Component | Source | State | Operations |
|---|---|---|---|
| Kernel | `kernel/src/kernel.c`, `kernel.h` | eight queues and lists of PCBs (`kernel.h:61-70`), thirteen semaphores, a mutex per list, one thread per console and per device | admission under a degree of multiprogramming, FIFO / RR / FEEDBACK, dispatch, blocking on a device, the screen, the keyboard or a page fault, finalisation |
| Kernel, quantum | `conexion_interrupt`, `clock_interrupt` | a clock thread per quantum, two semaphores | start, cancel, interrupt |
| CPU, instruction cycle | `cpu/src/cpu.c` | the PCB in execution, `estado_proceso`, `hubo_interrupcion` | fetch, decode, execute (SET, ADD, MOV_IN, MOV_OUT, IO, EXIT), check of interrupts |
| CPU, MMU and TLB | `cpu.c:266-534` | the list `tlb`, `ultima_entrada_fifo`, `instante_referencia_nueva_entrada` | translation, segmentation fault, lookup, replacement FIFO / LRU, clean-up |
| Memoria | `memoria/src/memoria.c`, `memoria.h` | page tables, bitmap of frames, user space, swap file, pending page faults, a queue of loaded pages per process | create and release tables, obtain a frame, read, write, load or replace a page (CLOCK, CLOCK-M) |
| Consola | `consola/src/consola.c` | one process, one socket | send the program, answer prompts, end |
| Communication | `shared/src/communication.c` | - | serialisation and framing of messages |
| Utilities | `shared_utils.c`, `translation_utils.c` | - | configuration, log, names |

How they interact:

* A console sends its instructions and segments. Its thread in the kernel makes
  a PCB, in `new_queue`. The long term thread takes a place of the degree of
  multiprogramming and sends the PCB to memoria, which creates the page tables
  and sends it back; the thread that listens to memoria puts it in READY.
* The ready thread takes a PCB from READY1, or READY2 if that is empty, when the
  cpu is free; the dispatch thread sends it to the cpu and waits for it to come
  back with a reason: end of quantum, IO, screen, keyboard, page fault, end or
  segmentation fault. It files the PCB in the queue of the reason and posts the
  semaphore of the thread that serves it.
* One thread per device takes from the list all devices share the first PCB that
  waits for its device. A handler thread for the screen and one for the keyboard
  prompt the console of a PCB of their list; the thread of the console that
  answers takes the PCB out.
* A page fault travels twice: the cpu gives the PCB back to the kernel, and
  memoria, which noted the page, loads it and tells the kernel
  PAGE_FAULT_ATENDIDO. The two messages come by different sockets to different
  threads.
* In memoria one thread serves the cpu, one the kernel and one looks for frames.
  They share the tables, and the bitmap, which no mutex protects.

What makes each component correct:

* Kernel: no PCB is lost or duplicated; one process at most runs; the degree is
  never exceeded nor leaked; every semaphore counts what it stands for, so that
  no thread takes from an empty queue; each answer wakes its own process; every
  process ends.
* Memoria: no frame holds two pages; no frame is leaked; an access finds what was
  written; a process never has more than its frames; every page fault is
  answered, once, and usefully; the search for a victim ends and chooses the
  page it is meant to.
* Quantum: a turn ends once, with the process that was sent; a preemption costs
  a quantum that was granted; a clock does not outlive its turn; the cpu always
  becomes free again.
* CPU: a process stops for exactly one reason; the TLB agrees with the tables,
  has no page twice, and loses the entry its algorithm says.
* Consola: each prompt gets one answer.
* Communication: what is received is what was sent, whole and in order, however
  TCP cuts it.

## 2. What is hard

`PROJECT.json` lists the hazards at their lines. In short:

* Eleven kernel threads hand PCBs to each other through semaphores. Every
  `queue_pop` and `list_remove` is dereferenced without looking, so each
  semaphore must match its queue exactly.
* The mutex of a list is passed BY VALUE (`kernel.c:416-440`): what is locked is
  a copy, and a copy of a locked mutex stays locked.
* Sizes, indexes and PCBs are read under a mutex, or none, and used after
  (`kernel.c:570-581`, `606-637`); `agregar_a_ready` shows the ready lists with no
  mutex while the ready thread takes from them (`kernel.c:679-690`).
* PAGE_FAULT_ATENDIDO names no process and may overtake its PCB.
* In memoria two threads read, change and write the bitmap; the release of a
  process clears bits that are no longer its own; a page that replaces another
  is never read from swap; the swap file is truncated at each write.
* The clock of the quantum is cancelled in the middle of whatever it is doing,
  perhaps before it exists or after it has ended; its interrupt crosses with the
  PCB that comes back, and the cpu keeps it for whoever runs next.
* Nobody tells the TLB that a page was replaced; its instants and its FIFO
  pointer are kept by hand.
* Half of the `recv` calls do not ask for all of their field.

## 3. The plan

In order of importance:

1. `Kernel`: the scheduler with all its threads, cpu, memoria and consoles as
   environment. `CicloDeVida`: the abstract life cycle it implements.
2. `KernelProofs`: every safety property of `Kernel` that a run checks, and the
   refinement, proved. `Conteo` has the facts about counting that the proofs share.
3. `Clock` and `Reemplazo`: the choice of a victim, in closed form and as the
   loops of the code.
4. `Memoria`: page tables, bitmap, user space and swap under three threads.
5. `Paginacion`: what memoria promises of its frames; `Memoria` implements it.
6. `Tlb`: the cpu's MMU over `Paginacion`: entries, FIFO pointer, instants, and
   whether an entry agrees with the page tables.
7. `Turno` and `Quantum`: the clock thread, its creation and its cancellation,
   the interrupt that arrives when another process is in the cpu.
8. `QuantumProofs`: no clock outlives its turn, and the refinement of `Turno`,
   proved.
9. `Comunicacion`: the framing of messages with short reads.
10. `Descriptores`: consoles that die, descriptors that are reused.
11. `MemoriaProofs`: the tables, queues and page faults of `Memoria` and the
    refinement of `Paginacion`, and its frames and contents with one process at a
    time, proved.
12. `TlbProofs`, `ReemplazoProofs`, `ComunicacionProofs` and `DescriptoresProofs`:
    the safety properties of the other components, proved.

All of it is done. What was considered and left out is in section 8; the next step
would be `Listas`, the operations on a list step by step with the mutexes by value.
Of it `RunningSinCarrera` (proved) keeps two threads out of `running_queue`; nothing
does for the other queues.

## 4. The modules and the code

`PROJECT.json` maps every definition to its lines. Names are the code's where
they exist, in Spanish like the code's.

### Kernel

A PCB is its process. `cola` gives each place its PCBs in order: the queues of
`kernel.h`, the PCBs in flight to and from memoria (`a_memoria`, `de_memoria`),
the one in the cpu (`cpu`), and the one each device's thread is serving (the
device's name). `sem` holds the semaphores. `lista_instrucciones`, `pc` and
`estado_proceso` are those of the PCB and the cpu. `con_mutex`, `ultimo` (the
position a handler is about to read) and `elegido` are the local state of the
handlers, `conexion` that of the consoles' threads. `mostrando` are the threads in
the loops at the end of `agregar_a_ready`, and `acortadas` those of them that have
seen the ready thread take a PCB since they began.

`Mover(W, c, i, e, P)` is the common shape of the code: wait for W, take
position i of c, put it at the end of e, post P. If there is nothing at i the
code dereferences NULL: the kernel dies (`vivo`). `AgregarAReady` is the push of
`agregar_a_ready`; `TerminarDeMostrar` the end of its loops and the `sem_post` after
them (dispatch's, of `cpu_libre`, included), or the NULL of a `list_get` whose index
was compared with the size the list had. Each thread is a group of
actions: `HiloMemoria`, `Dispatch`, `HiloPageFault`, `HiloDispositivo(d)`,
`Manejador(h)`, `HiloConsola(p)`; the environment is `Cpu(p)`, `Consola(p)`, `CrearEstructuras`
and `AtenderPageFault`.

What one action merges, no other thread can tell apart: a `sem_wait`, the
operation on one queue, and the `sem_post` that follows. It does not merge what
the code separates: the push into READY, the loops that show the lists and the post
of `pcbs_en_ready`; the handler's lock with its `list_size`, its `list_get` and the
prompt; the `list_size` of a search (`AtenderConsola`), each turn of its loop
(`BuscarIndice`) and the use of the index (`Desbloquear`); the sending and the
receiving half of dispatch. One call of a list operation is indivisible.

The PCB a handler has chosen is never freed: `recibir_PCB` allocates a new one each
time the process comes back, and `finalizador_procesos` frees the last. What may be
stale is the descriptor in it. When the console is told to end while a handler has its
descriptor, the prompt may be read or not; when it has closed, it is lost or raises
SIGPIPE, which kills the kernel; when `CerrarConexion` has freed the number, it goes to
nobody or to a console that connects later and is given the same number.

Abstractions: registers, operands and times are left out; ADD is SET, MOV_IN and
MOV_OUT are `MOV`, a memory access with a segmentation fault is `MOV_FUERA`. The
interrupt of a quantum may come after any instruction (never under FIFO), a
superset of what the clocks of `Quantum` do. Whether the next page is loaded (`presente`) is
free until memoria answers a page fault.

### CicloDeVida

The states of `estado_pcb` and the changes that `logear_cambio_estado` logs, with
the rules a user of the kernel relies on. `Kernel` maps the place of a PCB to its
state (`EstadoDe`), as the code itself keeps no other.

### Clock and Reemplazo

`Clock` says in closed form what the replacement does: the victim is the first
page of the lowest class, `uso` for CLOCK and (`uso`, `modificado`) for CLOCK-M;
`Limpiadas` are the pages that lose their bit `uso`; `Rotar` is the queue
afterwards. `Reemplazo` is the code: `ejecutar_clock`, and the two searches of
CLOCK-M with their counter of turns. Between two turns the thread of the cpu may
serve a read (`Leer`), which sets the bit `uso` of the page last written, perhaps
one of these. The run `reemplazo` shows that without such a read the loops are the
closed form, which `Memoria` uses, and that the reads can only save that one page.

### Paginacion

The contract between memoria and whoever keeps a frame number. `residente` gives
each process the frames of its loaded pages; a page is loaded (`Cargar`), takes
the frame of another of its process (`Reemplazar`), or is released after its
process ended (`Liberar`). `Memoria` implements it (`PaginacionRespetada`) and
`Tlb` is built on it, so neither has to be checked inside the other.

### Tlb

`tlb`, `ultima_entrada_fifo` and `instante` are the code's. The segment, page and
displacement of an address are computed as `obtener_direccion_fisica` does, so
addresses are numbers. Each action is one way through that function: `Acertar`,
`Fallar`, `FaltarPagina` (memoria's PAGE_FAULT, or its NULL for a page without a
registro) and `Fuera` (SEGMENTATION_FAULT, or the cpu's NULL for a segment that is
not in the table). `Salir` is EXIT with `limpiar_tlb`; `Paginar` is memoria serving
a page fault, in any frame: Memoria does give one that another process has (see
`marco_compartido`), and `Paginacion` allows it. The kernel may put any process in the cpu after any instruction.
`orden` is a history: the pages in the TLB by arrival (FIFO) or use (LRU). What stays
of a list when some entries leave it is `Quedan`, by positions: the k-th of those that
stay.

### Turno and Quantum

`Turno` is what a turn of the cpu promises whatever the clocks do. `Quantum` has
the threads: in the kernel the ready thread (`Elegir`, `Anunciar`), dispatch from
`EnviarPcb` to `Archivar`, `conexion_interrupt` (`CrearReloj`) and the clocks
(`Sonar`, `Tomar`, `Loguear`, `EnviarInterrupcion`, and `Morir` of a cancellation);
in the cpu `main` (`IniciarSemaforos`, `Reanudar`, `Detener`), dispatch
(`CargarPcb`, `DevolverPcb`) and `conexion_interrupt`. Turns are numbered, and a
clock has the number of the limited turn it was posted for. The process runs until
it stops (`PARADA`, every code of dispatch's switch but INTERRUPCION) or finds the
flag. `hubo_interrupcion` holds the number of the clock that set it: the code's flag
is whether there is one.

pthread_cancel acts at the next cancellation point: `usleep`, `send` and the write
of the log, where the clock holds `mutex_logger`, which then stays locked. On a
thread that has ended it is undefined: nothing, or the end of the kernel (`roto`).
The thread that was never created is 0, and the kernel dies. `mutex_logger` is
modelled for the clocks alone; any other thread takes it and releases it in a
step, and waits while a clock has it.

### Comunicacion

One direction of one of the nine connections at a time. A sender's message is the
sequence of fields its code adds to the packet, an operation code first
(`Escribe`); the receiver's is the list of its `recv` calls, each with or without
MSG_WAITALL (`Lee`); the two are translated from different files. TCP delivers in
pieces: each field arrives in two halves. A `recv` with MSG_WAITALL waits for both;
one without takes what is there (`corta` if it is half a field). After a short read
the bytes that follow are no longer told apart and the behaviour stops. A field is
a number or the body of a list as a whole.

### Descriptores

The life of a console's connection: `accept` takes the lowest free number
(`Conectar`), the PCB keeps it (`NuevoProceso`), the kernel's thread closes it when
the console is gone and nothing of it is left to read (`Cerrar`). A console may die
at any moment (`Morir`). What the kernel sends goes to whoever has the number
(`Enviar`): to nobody if it is closed, and to a dead console at the risk of SIGPIPE,
which kills the kernel. The scheduler is reduced to what the consoles see: the
handler may prompt for any process that waits and index 0 may be any of them, a
superset of what `Kernel` does; a stale index is left to `Kernel`.

### Memoria

`tabla` holds the registros (frame, modificado, uso, presencia, posicion_swap) of
each process; `bitmap` the frames marked as taken; `espacio` and `swap` what each
frame and each page of the file contains; `frames_ocupados` the queue the clock
turns round. The three threads are `HiloCpu`, `HiloKernel` and `HiloBuscador`.
`bitarray_set_bit` and `bitarray_clean_bit` read a byte and write it back, with no
mutex, so each is two steps (`BuscarMarco`, `CargarPagina`; `LiberarPagina`,
`LimpiarBit`). All frames are taken to be in one byte of the bitmap, as the first
eight are.

What the code does and its author may not have meant is modelled as it is: LEER
sets the bit `uso` of the page last written; before any write that page is any
that exists, or memoria dies; the loop for a free frame runs past the bitmap;
"wb" truncates the swap file; the page that replaces another is not read.

The environment: the cpu without TLB (`ENTRADAS_TLB=0`, one of the
configurations of the repository), which obtains a frame and then reads or writes
it with no other process in between; and the kernel, which blocks a process with
a page fault until PAGE_FAULT_ATENDIDO, and creates and finishes processes under
`GradoMax`. That the answer unblocks the right process is what `PageFaultEnOrden`
of `Kernel` shows; that the page is there when the process tries again, which
`Kernel` assumes of memoria, is `FaltaUtil` here. The content of a page is what
was last written to it, as one unit.

## 5. The runs

| Run | Module, cfg | Properties | Result |
|---|---|---|---|
| mezcla | MCKernel, Mezcla.cfg | TypeOK, UnSoloLugar, GradoRespetado, CpuExclusiva, RunningSinCarrera, SemaforosContados, DispositivoContado, PageFaultEnOrden, FichasRespetadas, UnicasCaidas, CicloRespetado | pass, 147,402 states |
| termina | MCKernel, Termina.cfg | Terminan | pass, 18,175 |
| grado_uno | MCKernel, GradoUno.cfg | SinColapso, RespuestaPropia, TerminanTodos | pass, 3,859 |
| reemplazo | Reemplazo, Reemplazo.cfg | ReemplazoCorrecto, Termina | pass, 103,448 |
| memoria | MCMemoria, Memoria.cfg | TypeOK, ResidentesEnCola, PendientesExactos, FaltaUtil, PaginacionRespetada | pass, 710,232 |
| memoria_uno | MCMemoria, MemoriaUno.cfg | MarcosExclusivos, BitmapExacto, AccesoSinReemplazo, UnicaCaida, FaltaAtendida | pass, 75,098 |
| marco_compartido | MCMemoria, MarcoCompartido.cfg | MarcosExclusivos | violated |
| pagina_perdida | MCMemoria, PaginaPerdida.cfg | AccesoCorrecto | violated |
| tlb | MCTlb, Tlb.cfg | TypeOK, TlbCoherente, MarcoPropio, ConsultaValida, VictimaJusta | pass, 310,611 |
| quantum | Quantum, Quantum.cfg | TypeOK, SinDesfasaje, TurnoRespetado, CadaDespachoVuelve | pass, 31,005 |
| comunicacion | Comunicacion, Comunicacion.cfg | Fiel, TodoSeRecibe | pass, 156,542 |
| descriptores | Descriptores, Descriptores.cfg | HuerfanosAcotados, FinAvisado | pass, 177,277 |

What each asks, and why its bounds are enough:

* **mezcla.** Three processes for a degree of two, two devices, FEEDBACK. The three
  programs contain every way of leaving the cpu: a device each, the keyboard, a
  page fault, a segmentation fault, EXIT, and the quantum at any instruction. The
  third process waits for the place of one that ends, and may connect when a console
  closes. Two processes are enough for every race of the lists: one that is
  shown, searched or read, and one that is taken from it. The processes are
  symmetric. `UnicasCaidas` is the strongest statement the code allows about its
  unchecked pointers, and names the four steps that may still kill the kernel: in the loops of
  `agregar_a_ready` when a list was shortened since they began (`acortadas`), in the
  search or the removal of a console's PCB (`IndiceViejo`), in a handler's `list_get`
  (`UltimoViejo`), and of SIGPIPE (`ConsolaCerrada`).
  `RunningSinCarrera` is what protects `running_queue`, since its mutex does not.
  `CicloRespetado` says the kernel implements `CicloDeVida`: what one may rely on
  even after a crash.
* **termina.** Two processes, FEEDBACK with degree 2. Each process finishes,
  unless the kernel has crashed, hung, or lost a prompt (`Colapso`); nothing else
  can stop a process, not even a preempted one that always goes to READY2.
* **grado_uno.** With GRADO_MAX_MULTIPROGRAMACION=1, a setting the configuration
  allows, none of the races of the ready lists, the screen and the keyboard can
  happen: no crash,
  no hang, every answer reaches its process and every console closes. One process
  runs long programs with the peripherals twice while the other waits.
* **reemplazo.** All bits of queues of one to five pages, both algorithms: longer
  queues add no case, as each search looks at one page at a time. The reads of
  other processes come at any turn and as often as they like. `Termina` has a
  condition: with one frame, and a read between every two turns, the search would
  go on for as long as the reads do.
* **memoria.** Degree 2, two frames per process, four frames. A process of three
  pages, which must be replaced, with one of one page, which ends while the other
  runs. Each process writes its first page and reads all. Two frames per process
  are the least with a queue that turns.
* **memoria_uno.** Degree 1, two processes one after the other in the same two
  frames, in either order, the second fitting in them. With one process at a time
  the bitmap has one writer at a time: it stays exact and no frame is shared.
  `AccesoSinReemplazo` says contents are right as long as the process fits and no
  page was written to swap; the run visits both sides of that condition.
* **tlb.** Two processes, one of three pages in two segments for two frames, with a
  segment that ends in the middle of a page, and one of a page; TLBs of zero to
  three entries, so that the TLB is smaller than, equal to and larger than what a
  process uses, and both algorithms. There are three frames, any of which may be given
  to any page, so that the two processes may share one. `TlbCoherente` holds for a
  process that fits; `MarcoPropio` is what is left for the other: its entries may be
  of pages that left, but the frames are those of its own table. Whether another
  process has the same frame is memoria's doing (`MarcosExclusivos`), not the TLB's.
  `VictimaJusta` looks at every entry that gives its place to another page, of the same
  or another process, and names the two
  exceptions of the code: FIFO after `limpiar_tlb` has removed something, and LRU
  between two entries of the same instant, which a hit and the miss after it get.
  The instants grow without bound and TLC compares states through `Vista`
  (MCTlb): the rank of the instants, the history as positions, and nothing of dead
  processes, which no action and no property looks at.
* **quantum.** Three turns: one whose clock may survive it, one that may inherit
  the interrupt, one that may inherit that one's. Four turns (391,596 states) pass
  too. Among the behaviours are the cancellation of a clock that was not created,
  that ended, and that is writing to the log; the interrupt that arrives after its
  PCB left; the turn without limit (READY2) that is interrupted by an old clock.
  `CadaDespachoVuelve` names the three ways a turn may never end.
* **comunicacion.** Each of the nine connections, all its operation codes, two
  messages in a row, so that the end of one is followed by the beginning of
  another; a receiver keeps nothing from one message to the next but its place in
  the stream. Each field may be cut once, which is all a `recv` can notice.
* **descriptores.** Three consoles, two of which may die: the first leaves its
  descriptor to the second, which is told to end in its place and leaves its own to
  the third. `HuerfanosAcotados` is the damage: processes whose console is gone are
  never more than the consoles that died by themselves, however the messages go
  astray; with no death there is none, though descriptors are reused all the time.
  `FinAvisado` says that a live console is always told of the end of its process.

Bounds: `Procesos`, `Dispositivos`, `Programas`, `GradoMax` (Kernel);
`MaxMarcos` (Reemplazo); `Tamanio`, `Escribibles`, `Valores`, `CantidadMarcos`,
`MARCOS_POR_PROCESO`, `TAMANIO_SWAP`, `GradoMax` (Memoria); `MaxEntradas`, the
segments and `Direcciones` (Tlb); `MaxDespachos` (Quantum); `MaxMensajes`
(Comunicacion); `Consolas`, `MaxBajas` (Descriptores). There are no state constraints.
A process is created once, so nothing else needs a cap. `Memoria` assumes that the frames are enough for the degree, and its runs that the swap file
is enough for all the processes, as in the repository's configurations.

Deadlock is not checked (`CHECK_DEADLOCK FALSE`) because the systems do stop: when
every process has finished, when a program has crashed, in `Reemplazo` with the victim,
in `Quantum` after the last turn, in `Comunicacion` after a short read or the last
message. `Terminan`, `TerminanTodos`, `FaltaAtendida`, `Termina`,
`CadaDespachoVuelve`, `TodoSeRecibe` and `FinAvisado` say that they do not stop before.

Fairness. Weak fairness of each thread: a POSIX thread that can run is
scheduled sooner or later, and between two of its guards (a semaphore, a message,
a mutex) it does not block. Each group of `Justicia` is one thread, never one
action. The consoles are under it too: the user types what is asked. Weak
fairness is enough because nothing disables a thread that is waiting with its
guard true: each semaphore of the model has one waiter, or waiters that each
find a unit of their own. In `Memoria` only the frame thread is fair, and in
`Reemplazo` only the search: no read has to come. In `Quantum` each action of the
threads of kernel and cpu is fair, and a clock that holds `mutex_logger` (it goes
on or dies); not the arrival of a process, nor the end of a quantum, nor a flag: a
process stops by itself, as its program is finite and has no jumps. In
`Comunicacion` TCP delivers and the receiver reads; nobody has to send. In
`Descriptores` the thread that ends processes and the loops of the consoles.

## 6. The proofs

For any finite set of processes, any devices and programs, any degree and the
three algorithms (Kernel); any number of turns (Quantum); any finite set of
processes, sizes, frames, swap file, degree and both algorithms (Memoria); any
processes, segments, page size, frames and entries, and both algorithms (Tlb); any
frames per process, bits and reads, and both algorithms (Reemplazo); any number of
messages of any connection (Comunicacion); any finite set of consoles (Descriptores):

| Theorem | Module | Says |
|---|---|---|
| TipoCorrecto | KernelProofs | `Spec => []TypeOK` |
| SemaforosCorrectos | KernelProofs | `Spec => []SemaforosContados` |
| CpuCorrecta | KernelProofs | `Spec => []CpuExclusiva` |
| CarreraCorrecta | KernelProofs | `Spec => []RunningSinCarrera` |
| LugarCorrecto | KernelProofs | `Spec => []UnSoloLugar` |
| GradoCorrecto | KernelProofs | `Spec => []GradoRespetado` |
| CicloCorrecto | KernelProofs | `Spec => CicloRespetado`: Kernel implements `CicloDeVida` |
| DispositivosCorrectos | KernelProofs | `Spec => []DispositivoContado` |
| FallosCorrectos | KernelProofs | `Spec => []PageFaultEnOrden` |
| FichasCorrectas | KernelProofs | `Spec => []FichasRespetadas` |
| CaidasCorrectas | KernelProofs | `Spec => UnicasCaidas` |
| GradoUnoCorrecto | KernelProofs | `GradoMax = 1`: `Spec => []SinColapso` |
| RespuestaCorrecta | KernelProofs | `GradoMax = 1`: `Spec => RespuestaPropia` |
| TipoQuantumCorrecto | QuantumProofs | `Spec => []TypeOK` |
| SinDesfasajeCorrecto | QuantumProofs | `Spec => []SinDesfasaje` |
| TurnoCorrecto | QuantumProofs | `Spec => TurnoRespetado`: Quantum implements `Turno` |
| TipoMemoriaCorrecto | MemoriaProofs | `Spec => [](TypeOK /\ InvPaginas)` |
| ColasCorrectas | MemoriaProofs | `Spec => []ResidentesEnCola` |
| FaltasUtiles | MemoriaProofs | `Spec => []FaltaUtil` |
| PedidosCorrectos | MemoriaProofs | `Spec => []PendientesExactos` |
| PaginacionCorrecta | MemoriaProofs | `Spec => PaginacionRespetada`: Memoria implements `Paginacion` |
| MarcosCorrectos | MemoriaProofs | `GradoMax = 1`: `Spec => []MarcosExclusivos` |
| BitmapCorrecto | MemoriaProofs | `GradoMax = 1`: `Spec => []BitmapExacto` |
| CaidaDeMemoria | MemoriaProofs | `GradoMax = 1`: `Spec => UnicaCaida` |
| AccesosCorrectos | MemoriaProofs | `GradoMax = 1`: `Spec => [](puntero_swap <= TAMANIO_SWAP => AccesoSinReemplazo)` |
| TiposTlb | TlbProofs | `Spec => []TypeOK` |
| TlbSiempreCoherente | TlbProofs | `Spec => []TlbCoherente` |
| MarcoSiemprePropio | TlbProofs | `Spec => []MarcoPropio` |
| ConsultaSiempreValida | TlbProofs | `Spec => []ConsultaValida` |
| VictimaSiempreJusta | TlbProofs | `Spec => VictimaJusta` |
| ReemplazoSiempreCorrecto | ReemplazoProofs | `Spec => []ReemplazoCorrecto` |
| ComunicacionFiel | ComunicacionProofs | `Spec => []Fiel` |
| HuerfanosCorrectos | DescriptoresProofs | `Spec => []HuerfanosAcotados` |

Assumptions of Kernel: `GradoAssumption` (the degree is positive),
`AlgoritmoAssumption`, `NadieAssumption`, `ProcesosAssumption` (finite),
`DispositivosAssumption` (a device is not named as a queue, a semaphore or an
instruction), `HilosAssumption` (finite devices; threads, devices and processes have
different names), `ProgramasAssumption` (a program ends in EXIT, as every pseudo-code of
the repository does: the cpu does not check the end of the list). Of Quantum:
`DespachosAssumption` (the bound on the turns is positive). Of Memoria:
`MemoriaAssumption` (the frames are enough for the degree, as in the repository's
configurations). Of Tlb: `TlbAssumption` (a page has a size,
and no segment is empty or larger than `entradas_por_tabla` pages, which are those the
table of a segment has). Of Reemplazo: `ReemplazoAssumption` (a process has a frame at
least). Of Comunicacion and Descriptores: `MensajesAssumption` and
`ConsolasAssumption` (the bounds are numbers, the consoles finite).

`GradoMax = 1` is a hypothesis of those theorems and not of the module, because with
two processes at a time each of them is false. mezcla's processes crash the
kernel and answer for each other. In memoria marco_compartido shares a frame, and
three processes of one page, two at a time in two frames, break the others within
seventeen steps: the frame thread reads a byte of the bitmap, the release of another
process clears a bit of it, and the frame thread writes the byte back with the bit
set; that frame is leaked, and the third process's page finds none (`UnicaCaida`).

`AccesosCorrectos` is about the states where the swap file has room for the pages
created so far; beyond that memoria gives out positions past its end.

The arguments:

* **TypeOK** is inductive. `MoverTipo` and `SincronizarTipo` do the work for the
  actions that move a PCB: the guard `sem[s] > 0` keeps semaphores natural.
* **Semaphores and cpu.** `Cuentas == SemaforosContados /\ CpuExclusiva` is
  inductive with `TypeOK`. `MoverTraslado` says what a `Mover` does to the lengths
  of the queues; `TrasladoEquilibrado` says that when the semaphores waited for
  and posted match the place left and the place reached, every count is kept. Each
  action is then an instance, and it is the choice of W and P in the code that is
  being verified. The two are proved together because a removal from an empty
  queue is excluded by the semaphore that counts it. A PCB that is in READY before its
  thread has shown the lists counts already: each count is of `sem` and of what the
  threads of `mostrando` have still to post (`Pendientes`).
* **Places and degree.** `LugaresYGrado == Unicos /\ GradoRespetado`. `Unicos` is
  `UnSoloLugar` split so that it can be carried: no duplicates, none lost, and,
  what makes it inductive, a freed process does not still have its console
  "conectada", or it could be created again. `MoverOrigen` gives each position
  after a move the one it came from, `OrigenInyectivo` that no two come from one:
  so no duplicate appears. `MoverLleva` says a move loses nobody. The degree then
  follows because a move changes `Admitidos` only in `AdmitirProceso`, which waits
  for a place, and `Finalizar`, which gives it back.
* **Running queue.** `CarreraCorrecta` follows from `CpuExclusiva` and
  `SemaforosContados`: were both threads past their semaphores, `cpu_libre` and
  `enviar_pcb_a_cpu` would be up at once, and together they count one process.
* **Quantum.** `InvDesfasaje` is inductive: `SinDesfasaje` with `Testigo` (the
  turn is in one hand: the ready thread's, a semaphore or dispatch's), `Creados` (the
  clocks that exist are 1 to `thread_clock`) and `Emitidas` (an interrupt on its way
  or in the flag is of a clock that has ended). The last is what makes it go
  through: when a turn is closed by the interrupt of its own clock, that clock is
  dead; when it is closed by a stop, its clock is cancelled, unless it was
  not created yet, and then the turn is `desfasado`.
* **Life cycle.** A step of `Kernel` moves one PCB or none. `InvCiclo` adds to the
  invariants above that INTERRUPCION is only given by an algorithm that preempts.
  Under the mapping `EstadoAbstracto` each `Mover` changes the state of the PCB it
  moves and of no other, since no PCB is in two places; each change is one of
  `CicloDeVida`, and the places of a state that the code does not log (the hands of
  a thread) are stutters.
* **Devices.** `EsperaContada`: the semaphore of a device and its thread, if it holds
  the mutex, count the processes of the shared list that wait for that device
  (`EnEspera`). The thread of a device can only take a PCB of its own, because the
  wait of a PCB is the instruction before its `pc`, which nothing changes while it
  is blocked.
* **Page faults.** `FallosEnOrden` follows the blocked processes in the order they
  asked, the one on its way back from the cpu included (`Esperan`): the answers that
  came (`Atendidos`) are for the first of them, the rest are memoria's pending
  requests, in the same order. So an answer that names nobody wakes its process,
  though the two messages travel by different sockets. `CpuOcupada` puts the last
  one in its place.
* **Screen and keyboard.** A token is a post of the handler's semaphore, its lock, a
  PCB chosen, a prompt, an answer or a console's thread about to unblock.
  `FichasConLista` says they are as many as the PCBs in the list. `Partes` splits
  the sum and `Cambio` says how much a step adds to each part: each step moves a
  token or takes one with its PCB.
* **Deaths.** `Confianza` is all of the above with `Reparto` (each
  ACTUALIZAR_INDICE_TABLA_PAGINAS has its PCB). Under it every removal finds what it
  takes (`NoCae`), and four pointers are left that the code does not look at: those of
  `UnicasCaidas`. A thread that shows the lists does not die while the ready thread has
  taken nothing since it began, because the other threads only make the lists longer;
  likewise the last position of a list, once read, is there until a console's thread
  removes something.
* **One process at a time (Kernel).** `Uno` adds `Solitarios`: what is on its way to
  unblock a PCB is for the one that waits, and who waits has something on its way
  (`Emparejados`); no console's thread has hung; what a handler or a console's thread
  read of a list is still so, as the only PCB is the one it read (`AlDia`); and a console
  told to end is told last, when nobody has its PCB in hand (`Fines`). The ready thread
  takes the only PCB after the thread that put it there has shown the lists. Together
  they leave no way to die or hang, and no way out of a list but the answer of one's own
  console.
* **Turno.** `InvTurno` locates the one PCB that is out of the kernel
  (`UnPcbAfuera`), ties the cpu's cycle and semaphores to it (`CicloDePcb`), and bounds
  the clocks by the turns (`TurnosContados`). `Gasto` says how each part of
  `QuantumsVivos` changes in a step: a quantum goes from the mark to the semaphore, to
  a clock, to an interrupt on its way, to the flag, and is spent or lost, never made.
* **Tables of memoria.** `InvPaginas` is inductive with `TypeOK`: the shape of the
  tables in each moment of a process (`InvTablas`), the requests of frames and the
  blocked processes one to one (`Pedidos`), `ResidentesEnCola` and `FaltaUtil`. They
  go together: the clock finds a victim because the queue holds exactly the loaded
  pages, the queue stays so because the page asked for is not loaded, and that is
  known because a request is made once. `Toma` says what a replacement does, whichever
  page is chosen and however it is written to swap.
* **Paginacion.** From the same invariant: a load, a replacement and a release change
  the pages of one process as `Paginacion` says, and the other steps change none.
* **Frames, one process at a time.** `InvMarcos`: at most one process has pages, alive
  or being released (`Solo`); what a thread read of the bitmap has not changed since,
  and the bits are those of that process's frames (`Bits`); during the release the bits
  left are of frames named by pages to come, loaded or not, so that the release clears
  all of them and no other's (`Liberacion`); its pages have different frames
  (`Exclusivos`); and the cpu's access is to the frame its page has (`EnSuMarco`).
  `HayMarco` then counts: a process with a page still to load leaves a frame free.
* **Contents.** The positions of swap given so far are behind the pointer
  (`Posiciones`), so that while the pointer is in the file a new page finds there what
  it was created with. While no page had to be written, a loaded page holds what was last
  written to it and one not loaded was never written (`Contenido`). A process that
  fits in its frames replaces nothing (`NoReemplaza`).

* **TLB.** `Invariante` of `TlbProofs`. `PaginasSuyas`: what is loaded is the process's
  own pages, in no more frames than its share, so that a process that fits is never
  replaced and `TlbCoherente` is kept by memoria's steps; `MarcoPropio` by a
  replacement, because the page that comes takes the frame of the one that left. Both
  are about live processes: the entries of one that ended with a segmentation fault stay
  (`limpiar_tlb` is for EXIT), and its pid does not come back. `Historia`: history and
  entries are one to one. `Edades` (LRU): the instants follow the history, and two are
  equal only if they are neighbours. `Rueda` (FIFO, while nothing was removed): read
  from the FIFO pointer on, round the list, the entries are the history. From these two,
  `VictimaJusta` is what one step does. `PosicionesQuedan` says which element each
  position of `Quedan` comes from.
* **Search for a victim.** `Invariante` of `ReemplazoProofs`. The passes of a search are
  numbered by the class they look for (`c`, 0 and 1 for CLOCK, 0 to 3 for CLOCK-M, whose
  two searches call each other); after `h` turns of one (`Recorre`), the queue is the
  first one rotated `h` places (`Rotada`), no page is of a class below `c`, nor are the
  first `h` of class `c`, and the bits `uso` cleared are those of `Limpias` (`Etapa`),
  all but for the page that a read may touch (`Leida`). A page that serves is then before
  all the others (`Acierta`); one that does not is of a higher class or was read
  (`ClaseNoSirve`); and a pass that ends empty is the start of the next one
  (`OtraPasada`), unless it was the last, which only one frame and its reads can bring
  about (`Sola`). With this the turns need no induction of their own.
* **Framing.** `Invariante` of `ComunicacionProofs`: the messages on their way follow each
  other in the stream from the place where the receiver is to its end (`Corriente`), and
  what the receiver has still to `recv` of its message is at the head (`Recepcion`).
  `Acordado` compares, for each operation code of each connection, the fields its sender
  writes with those its receiver reads, which were translated from different files.
* **Descriptors.** `Invariante` of `DescriptoresProofs`: no number is open twice and a
  process whose console lives has its number (`Duenios`), and the consoles that are gone,
  or will be when they read what they were told, while their process goes on
  (`Condenados`) are no more than the deaths. To count the messages on their way too is
  what makes it inductive: the harm is done when FINALIZAR_PROCESO is sent to a number
  that changed hands, and seen when it is read.

Only model-checked: the liveness properties (`Terminan`, `TerminanTodos`,
`FaltaAtendida`, `Termina`, `CadaDespachoVuelve`, `TodoSeRecibe`, `FinAvisado`), which
need fairness and ENABLED, beyond the prover. For more than one process at a time nothing
is proved of the exclusivity of frames, the bitmap, the contents or the survival of
memoria: see above. Induction over data is out of the prover's reach too.

No RECURSIVE operator is used. Cardinalities use FiniteSetTheorems.

## 7. Where the code departs from what it says

* **marco_compartido** (`memoria.c:632`). The release of a process clears the bit
  of the frame of each registro, loaded or not. A page never loaded has frame 0.
* **pagina_perdida** (`memoria.c:491`, `556`). Replacement does not read the new
  page: MOV_IN, which "Lee el valor de memoria del segmento de Datos
  correspondiente a la Dirección Lógica" (`cpu.c:190`), finds the victim's value.

Each run ends in a counterexample a few states long that reads as a scenario.

Other departures, which the passing properties name as exceptions:

* The handler of the screen prompts the console of the last PCB of the list, not of
  the one it was woken for, and leaves it there; a console with no PCB in the list
  takes out the one at index 0 (`kernel.c:570`, `623`). With two processes on the
  screen, one console is prompted twice and unblocks the other's process:
  `RespuestaPropia` holds only with one process at a time (`grado_uno`), and
  `Terminan` excepts the prompt that is lost.
* The loops that log the ready lists at the end of `agregar_a_ready` hold no mutex
  (`kernel.c:679`): if the ready thread takes a PCB between a `list_size` and its
  `list_get`, the kernel dies of the line it was logging. `UnicasCaidas` has it;
  `SinColapso` says it cannot happen with one process at a time.
* A console that dies may cost another console its process (`kernel.c:472`): see
  `HuerfanosAcotados`.
* A copy of a mutex made while a handler holds the original is born locked
  (`kernel.c:429`): two processes that meet at the same list are enough for the
  dispatch thread to hang for ever. `Colapso` has it; `SinColapso` says it cannot
  happen with one process at a time.
* A quantum may be paid by another turn (`kernel.c:219-244`): a clock that survives
  its turn interrupts a later one, even one of READY2 or one that has just begun.
  `TurnoRespetado` bounds it (one preemption for one quantum granted), and
  `desfasado` says when it begins.
* A clock cancelled in `log_info` leaves `mutex_logger` taken (`kernel.c:239`), and
  every thread stops at its next line of log.
* The cpu's semaphores are initialised after the threads that use them have
  started (`cpu.c:47`): a PCB that comes before memoria's answer is lost.
* The frame thread and the release of a process change the bitmap with no mutex
  (`memoria.c:403`, `632`): a frame may be leaked, and memoria dies looking for one.
  `BitmapExacto` and `UnicaCaida` hold with one process at a time (`memoria_uno`).
* LRU may evict the later of two entries with the same instant, and FIFO is no
  longer FIFO after a process with entries ends (`cpu.c:331`, `342`).
* After a replacement the TLB gives the frame of a page that left (`cpu.c:283`).
* A PCB, the lists of a console and memoria's handshake are read short if TCP cuts
  them (`communication.c:328-442`, `cpu.c:316`).

## 8. What is not modelled, and why

* Two threads inside one list operation (see section 3), but for
  `running_queue`. Each operation on a list is indivisible.
* The start of the system: which connection is which module, and what a console
  that connects too early does (`kernel.c:77`). In `Quantum` the cpu's own start is
  modelled.
* The death of a module, after which the kernel's threads spin on a closed
  descriptor (`kernel.c:264`). In `Kernel` a console lives until it is told to end.
* In `Comunicacion`, the bytes read after a short `recv`, the lengths of lists, a
  list without elements (a `recv` of zero bytes), and `send` that fails or sends a
  part.
* Several segments per process in `Memoria` (tables that behave as one; `Tlb` has
  them), accesses that cross the end of a page (`memoria.c:222`), and frames beyond
  the first byte of the bitmap.
* The interleaving of the clock's turns with the reads in `Memoria`, where a
  replacement is one step: `Reemplazo` shows what they can change.
* Parsing of programs and configuration, log, names of states: no state that
  matters to a property.
