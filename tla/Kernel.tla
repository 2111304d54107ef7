------------------------------- MODULE Kernel -------------------------------
(***************************************************************************)
(* The scheduler of ChamacOS, kernel/src/kernel.c, with the environment it *)
(* talks to: the cpu (one instruction at a time), memoria's answers and    *)
(* the consoles.                                                           *)
(*                                                                         *)
(* Every PCB the kernel knows is in one "lugar" (place): a queue or list   *)
(* of kernel.h:61-70, a message in flight, or the hands of one thread.     *)
(* One action is one critical step of one thread: the operations on a      *)
(* queue, and the sem_wait and sem_post around them, are one action when   *)
(* nothing another thread does can tell them apart.  One call of a list    *)
(* operation is taken as indivisible.  What is NOT merged is what the code *)
(* separates, for its mutexes are passed by value and exclude nobody: a    *)
(* loop over a list and the list_get of each turn, a list_size and the     *)
(* list_get after it, the search of an index and its use, a mutex held     *)
(* while others copy it, a handler's choice of a PCB and the prompt.       *)
(***************************************************************************)
EXTENDS Integers, FiniteSets, Sequences, SequencesExt

CONSTANTS
  Procesos,     \* processes; process p is the one of console p
  Dispositivos, \* devices of kernel.config (DISPOSITIVOS_IO)
  Programas,    \* the instruction lists a console may send
  GradoMax,     \* GRADO_MAX_MULTIPROGRAMACION
  Algoritmo,    \* ALGORITMO_PLANIFICACION
  Nadie         \* no process

Perifericos == {"PANTALLA", "TECLADO"}

Instrucciones ==
  {"SET", "MOV", "MOV_FUERA", "EXIT"} \cup Perifericos \cup Dispositivos

\* The queues and lists of the kernel, the PCBs in flight to and from memoria,
\* the one sent to the cpu, and (a device) the one its thread is serving.
Colas == {"new_queue", "a_memoria", "de_memoria", "ready1_list", "ready2_list",
          "running_queue", "cpu", "blocked_io_list", "blocked_screen_list",
          "blocked_keyboard_list", "blocked_page_fault_queue", "exit_queue"}

Lugares == Colas \cup Dispositivos

\* Semaphores of kernel.h:34-48 that are waited on; a device names its own.
SemaforosSincro ==
  {"grado_multiprogramacion", "new_to_ready", "pcbs_en_ready", "cpu_libre",
   "finish_process", "enviar_pcb_a_cpu", "bloquear_por_pantalla",
   "bloquear_por_teclado", "desbloquear_por_pf", "atender_pf"}

Semaforos == SemaforosSincro \cup Dispositivos

\* The threads that call agregar_a_ready; those of the devices and of the consoles
\* go by their device and their process.
HilosSincro == {"conexion_memoria", "conexion_dispatch", "blocked_page_fault_thread"}

Hilos == HilosSincro \cup Dispositivos \cup Procesos

ASSUME GradoAssumption == GradoMax \in Nat \ {0}
ASSUME AlgoritmoAssumption == Algoritmo \in {"FIFO", "RR", "FEEDBACK"}
ASSUME NadieAssumption == Nadie \notin Procesos
ASSUME ProcesosAssumption == IsFiniteSet(Procesos)
ASSUME DispositivosAssumption ==
  Dispositivos \cap (Colas \cup SemaforosSincro \cup Perifericos
                     \cup {"SET", "MOV", "MOV_FUERA", "EXIT"}) = {}
ASSUME HilosAssumption ==
  /\ IsFiniteSet(Dispositivos)
  /\ HilosSincro \cap (Dispositivos \cup Procesos) = {}
  /\ Dispositivos \cap Procesos = {}
\* A console's pseudo-code ends in EXIT: the cpu has no other way to stop.
ASSUME ProgramasAssumption ==
  /\ Programas \subseteq Seq(Instrucciones)
  /\ \A prog \in Programas : Len(prog) > 0 /\ prog[Len(prog)] = "EXIT"

VARIABLES
  cola,            \* the PCBs in each place, in order
  sem,             \* the value of each semaphore
  lista_instrucciones, pc, \* of each PCB
  estado_proceso,  \* the cpu's: why it stops, or CONTINUA_PROCESO
  presente,        \* processes whose next memory access finds its page loaded
  pendientes,      \* memoria's cola_pid_registro_tabla_paginas
  mensajes,        \* the operation codes memoria sent to the kernel
  mostrando,       \* threads in the loops of agregar_a_ready
  acortadas,       \* those whose lists lost a PCB since they began
  con_mutex,       \* handler threads that hold the mutex of their list
  ultimo,          \* the position each handler is about to read
  elegido,         \* the console each handler is about to prompt
  conexion,        \* the kernel's thread of each console
  a_consola, de_consola, \* messages to and from each console
  consola,         \* the life of each console program
  dispatch_colgado,\* the dispatch thread waits on a mutex nobody will unlock
  vivo,            \* the kernel process has not crashed
  fin              \* processes whose PCB was freed

pcbs == <<lista_instrucciones, pc, estado_proceso>>
memoria == <<presente, pendientes, mensajes>>
recorrido == <<mostrando, acortadas>>
manejadores == <<con_mutex, ultimo, elegido>>
consolas == <<conexion, a_consola, de_consola, consola>>
vars == <<cola, sem, pcbs, memoria, recorrido, manejadores, consolas,
          dispatch_colgado, vivo, fin>>

-----------------------------------------------------------------------------
(* Queues, semaphores and PCBs *)

Lista(h) == IF h = "PANTALLA" THEN "blocked_screen_list"
                              ELSE "blocked_keyboard_list"
SemaforoDe(h) == IF h = "PANTALLA" THEN "bloquear_por_pantalla"
                                   ELSE "bloquear_por_teclado"

\* Mutant: a sem_wait that returns without waiting (EINTR unchecked).
SincronizarSinEsperar(W, P) ==
  sem' = [s \in Semaforos |-> sem[s] - (IF s \in W THEN 1 ELSE 0)
                                    + (IF s \in P THEN 1 ELSE 0)]

\* sem_wait on the semaphores of W, sem_post on those of P.
Sincronizar(W, P) ==
  /\ \A s \in W : sem[s] > 0
  /\ sem' = [s \in Semaforos |-> sem[s] - (IF s \in W THEN 1 ELSE 0)
                                        + (IF s \in P THEN 1 ELSE 0)]

\* After the sem_wait of W, position i of place c is taken out and appended to
\* place e, and P is posted.  Taking from an empty queue, or beyond the end of a
\* list, yields NULL: every PCB so obtained is dereferenced, and the kernel dies.
Mover(W, c, i, e, P) ==
  IF i \in DOMAIN cola[c]
  THEN /\ Sincronizar(W, P)
       /\ cola' = [cola EXCEPT ![c] = RemoveAt(cola[c], i),
                               ![e] = Append(cola[e], cola[c][i])]
       /\ UNCHANGED vivo
  ELSE /\ \A s \in W : sem[s] > 0
       /\ vivo' = FALSE
       /\ UNCHANGED <<cola, sem>>

\* Mutant: the reason is not looked at.
ColaReadySinMotivo(motivo) ==
  IF Algoritmo = "FEEDBACK" THEN "ready2_list" ELSE "ready1_list"

\* Where agregar_a_ready puts a PCB.
ColaReady(motivo) ==
  IF Algoritmo = "FEEDBACK" /\ motivo = "INTERRUPCION"
  THEN "ready2_list" ELSE "ready1_list"

TieneDesalojo == Algoritmo # "FIFO"

Anterior(p) == lista_instrucciones[p][pc[p] - 1]

\* agregar_a_ready by thread t of the PCB so obtained: after the push it walks READY1
\* and READY2 to show them.  Its sem_post comes after that, in TerminarDeMostrar.
AgregarAReady(t, W, c, i, motivo) ==
  /\ t \notin mostrando
  /\ Mover(W, c, i, ColaReady(motivo), {})
  /\ mostrando' = mostrando \cup IF i \in DOMAIN cola[c] THEN {t} ELSE {}
  /\ UNCHANGED acortadas

\* The loops end, and dispatch goes on to its sem_post(&cpu_libre).  If a list lost
\* a PCB meanwhile, a turn that had compared its index with the old list_size gets
\* NULL from list_get, and the kernel dies.
TerminarDeMostrar(t) ==
  /\ t \in mostrando
  /\ \/ /\ mostrando' = mostrando \ {t}
        /\ acortadas' = acortadas \ {t}
        /\ Sincronizar({}, {"pcbs_en_ready"} \cup
                            IF t = "conexion_dispatch" THEN {"cpu_libre"} ELSE {})
        /\ UNCHANGED vivo
     \/ t \in acortadas /\ vivo' = FALSE /\ UNCHANGED <<sem, recorrido>>
  /\ UNCHANGED <<cola, pcbs, memoria, manejadores, consolas, dispatch_colgado,
                 fin>>

\* Mutant: the first PCB, whatever device it waits for.
BuscarPrimero(d) == IF cola["blocked_io_list"] = <<>> THEN 0 ELSE 1

\* buscar_pcb_a_bloquear: the first PCB of the list that waits for device d.
BuscarPcbABloquear(d) ==
  LET s == cola["blocked_io_list"]
      Suyo(i) == Anterior(s[i]) = d
  IN  IF \E i \in DOMAIN s : Suyo(i)
      THEN CHOOSE i \in DOMAIN s : Suyo(i) /\ \A j \in 1 .. i - 1 : ~ Suyo(j)
      ELSE 0

-----------------------------------------------------------------------------
(* Long term: consoles, admission and memoria's administrative structures *)

\* conexion_consola, LISTA_INSTRUCCIONES_SEGMENTOS.
NuevoProceso(p) ==
  /\ consola[p] = "conectada"
  /\ consola' = [consola EXCEPT ![p] = "esperando"]
  /\ \E prog \in Programas :
       lista_instrucciones' = [lista_instrucciones EXCEPT ![p] = prog]
  /\ cola' = [cola EXCEPT !["new_queue"] = Append(@, p)]
  /\ Sincronizar({}, {"new_to_ready"})
  /\ UNCHANGED <<pc, estado_proceso, memoria, manejadores, conexion, a_consola,
                 de_consola, recorrido, dispatch_colgado, vivo, fin>>

\* Mutant: admission without sem_wait(&grado_multiprogramacion).
AdmitirSinGrado ==
  /\ Mover({"new_to_ready"}, "new_queue", 1, "a_memoria", {})
  /\ UNCHANGED <<pcbs, memoria, manejadores, consolas, recorrido,
                 dispatch_colgado, fin>>

\* pcb_a_dispatcher.
AdmitirProceso ==
  /\ Mover({"new_to_ready", "grado_multiprogramacion"},
           "new_queue", 1, "a_memoria", {})
  /\ UNCHANGED <<pcbs, memoria, manejadores, consolas, recorrido,
                 dispatch_colgado, fin>>

\* memoria's conexion_kernel, CREAR_ESTRUCTURAS_ADMIN.
CrearEstructuras ==
  /\ cola["a_memoria"] # <<>>
  /\ Mover({}, "a_memoria", 1, "de_memoria", {})
  /\ mensajes' = Append(mensajes, "ACTUALIZAR_INDICE_TABLA_PAGINAS")
  /\ UNCHANGED <<pcbs, presente, pendientes, manejadores, consolas, recorrido,
                 dispatch_colgado, fin>>

Recibir(mensaje) ==
  /\ mensajes # <<>>
  /\ Head(mensajes) = mensaje
  /\ mensajes' = Tail(mensajes)

\* conexion_memoria, ACTUALIZAR_INDICE_TABLA_PAGINAS.
IndiceActualizado ==
  /\ Recibir("ACTUALIZAR_INDICE_TABLA_PAGINAS")
  /\ AgregarAReady("conexion_memoria", {}, "de_memoria", 1, "PCB")
  /\ UNCHANGED <<pcbs, presente, pendientes, manejadores, consolas,
                 dispatch_colgado, fin>>

\* finalizador_procesos: the console is told, the PCB is freed and its place in
\* the degree of multiprogramming given back.
Finalizar ==
  /\ sem["finish_process"] > 0
  /\ IF cola["exit_queue"] = <<>>
     THEN /\ vivo' = FALSE
          /\ UNCHANGED <<cola, sem, a_consola, fin>>
     ELSE /\ Sincronizar({"finish_process"}, {"grado_multiprogramacion"})
          /\ cola' = [cola EXCEPT !["exit_queue"] = Tail(@)]
          /\ LET p == Head(cola["exit_queue"]) IN
               /\ a_consola' = [a_consola EXCEPT ![p] = Append(@, "FIN")]
               /\ fin' = fin \cup {p}
          /\ UNCHANGED vivo
  /\ UNCHANGED <<pcbs, memoria, manejadores, conexion, de_consola, consola,
                 recorrido, dispatch_colgado>>

-----------------------------------------------------------------------------
(* Short term: the cpu is given a process and gives it back *)

\* Mutant: READY2 is forgotten.
ElegirSoloReady1 ==
  /\ Mover({"pcbs_en_ready", "cpu_libre"}, "ready1_list", 1, "running_queue",
           {"enviar_pcb_a_cpu"})
  /\ acortadas' = mostrando
  /\ UNCHANGED <<pcbs, memoria, mostrando, manejadores, consolas,
                 dispatch_colgado, fin>>

\* manejador_estado_ready with quitar_de_ready: READY1 goes first.  Whoever is
\* showing the lists meanwhile has one shorter than when it began.
ElegirListo ==
  /\ Mover({"pcbs_en_ready", "cpu_libre"},
           IF cola["ready1_list"] = <<>> /\ Algoritmo = "FEEDBACK"
           THEN "ready2_list" ELSE "ready1_list", 1, "running_queue",
           {"enviar_pcb_a_cpu"})
  /\ acortadas' = mostrando
  /\ UNCHANGED <<pcbs, memoria, mostrando, manejadores, consolas,
                 dispatch_colgado, fin>>

\* Mutant: the cpu is declared free as soon as the PCB is sent.
EnviarLiberando ==
  /\ ~ dispatch_colgado /\ "conexion_dispatch" \notin mostrando
  /\ cola["cpu"] = <<>>
  /\ Mover({"enviar_pcb_a_cpu"}, "running_queue", 1, "cpu", {"cpu_libre"})
  /\ UNCHANGED <<pcbs, memoria, manejadores, consolas, recorrido,
                 dispatch_colgado, fin>>

\* The sending half of conexion_dispatch, once it has filed the last PCB.
EnviarACpu ==
  /\ ~ dispatch_colgado /\ "conexion_dispatch" \notin mostrando
  /\ cola["cpu"] = <<>>
  /\ Mover({"enviar_pcb_a_cpu"}, "running_queue", 1, "cpu", {})
  /\ UNCHANGED <<pcbs, memoria, manejadores, consolas, recorrido,
                 dispatch_colgado, fin>>

\* The process in the cpu and its next instruction.
EnCpu(p, ins) ==
  /\ estado_proceso = "CONTINUA_PROCESO"
  /\ cola["cpu"] # <<>>
  /\ p = Head(cola["cpu"])
  /\ ins = lista_instrucciones[p][pc[p]]

\* An instruction that lets the process go on, and chequear_interrupcion: the
\* quantum may have ended (never under FIFO, which starts no clock).  A memory
\* access that succeeds says nothing of the page of the next one.
EjecutarYSeguir(p) ==
  /\ \/ EnCpu(p, "SET") /\ UNCHANGED presente
     \/ EnCpu(p, "MOV") /\ p \in presente
                        /\ presente' \in {presente, presente \ {p}}
  /\ pc' = [pc EXCEPT ![p] = @ + 1]
  /\ estado_proceso' \in {"CONTINUA_PROCESO"}
                        \cup IF TieneDesalojo THEN {"INTERRUPCION"} ELSE {}
  /\ UNCHANGED <<cola, sem, lista_instrucciones, pendientes, mensajes,
                 manejadores, consolas, recorrido, dispatch_colgado, vivo,
                 fin>>

\* obtener_marco_memoria: memoria notes the page and answers PAGE_FAULT; the
\* program counter goes back to the same instruction.
EjecutarPageFault(p) ==
  /\ EnCpu(p, "MOV")
  /\ p \notin presente
  /\ pendientes' = Append(pendientes, p)
  /\ estado_proceso' = "PAGE_FAULT"
  /\ UNCHANGED <<cola, sem, lista_instrucciones, pc, presente, mensajes,
                 manejadores, consolas, recorrido, dispatch_colgado, vivo,
                 fin>>

\* What the cpu gives a PCB back with, by the instruction that stopped it.
Respuesta(ins) ==
  CASE ins = "EXIT"      -> "FINALIZAR_PROCESO"
    [] ins = "MOV_FUERA" -> "SEGMENTATION_FAULT"
    [] ins = "PANTALLA"  -> "BLOQUEAR_PROCESO_PANTALLA"
    [] ins = "TECLADO"   -> "BLOQUEAR_PROCESO_TECLADO"
    [] OTHER             -> "BLOQUEAR_PROCESO_IO"

\* An instruction that stops the process: EXIT, an IO or a segmentation fault.
EjecutarYParar(p) ==
  /\ \E ins \in Instrucciones \ {"SET", "MOV"} :
       EnCpu(p, ins) /\ estado_proceso' = Respuesta(ins)
  /\ pc' = [pc EXCEPT ![p] = @ + 1]
  /\ UNCHANGED <<cola, sem, lista_instrucciones, memoria, manejadores,
                 consolas, recorrido, dispatch_colgado, vivo, fin>>

\* Mutant: sem_post(&cpu_libre) is missing.
ArchivarSinLiberar(codigos, e, s) ==
  /\ ~ dispatch_colgado
  /\ estado_proceso \in codigos
  /\ estado_proceso' = "CONTINUA_PROCESO"
  /\ Mover({}, "cpu", 1, e, {s})
  /\ UNCHANGED <<lista_instrucciones, pc, memoria, manejadores, consolas,
                 recorrido, dispatch_colgado, fin>>

\* The receiving half of conexion_dispatch: the PCB that came back with one of
\* the codes is filed in e, the semaphore s of who handles it is posted, and
\* the cpu is free.
Archivar(codigos, e, s) ==
  /\ ~ dispatch_colgado
  /\ estado_proceso \in codigos
  /\ estado_proceso' = "CONTINUA_PROCESO"
  /\ Mover({}, "cpu", 1, e, {s, "cpu_libre"})
  /\ UNCHANGED <<lista_instrucciones, pc, memoria, manejadores, consolas,
                 recorrido, dispatch_colgado, fin>>

\* The end of the quantum: dispatch shows the ready lists before the cpu is free.
DesalojarPorQuantum ==
  /\ ~ dispatch_colgado
  /\ estado_proceso = "INTERRUPCION"
  /\ estado_proceso' = "CONTINUA_PROCESO"
  /\ AgregarAReady("conexion_dispatch", {}, "cpu", 1, "INTERRUPCION")
  /\ UNCHANGED <<lista_instrucciones, pc, memoria, manejadores, consolas,
                 dispatch_colgado, fin>>

BloquearPorPageFault ==
  Archivar({"PAGE_FAULT"}, "blocked_page_fault_queue", "atender_pf")

TerminarProceso ==
  Archivar({"FINALIZAR_PROCESO", "SEGMENTATION_FAULT"}, "exit_queue",
           "finish_process")

\* The mutex of a blocked list reaches agregar_pcb_a_lista by value: a copy
\* made while a handler holds it is locked for ever.
MutexIOTomado == con_mutex \cap Dispositivos # {}

BloquearPorIO(d) ==
  /\ estado_proceso = "BLOQUEAR_PROCESO_IO"
  /\ ~ MutexIOTomado
  /\ d = Anterior(Head(cola["cpu"]))
  /\ Archivar({"BLOQUEAR_PROCESO_IO"}, "blocked_io_list", d)

BloquearPorPeriferico(h) ==
  /\ h \notin con_mutex
  /\ Archivar({Respuesta(h)}, Lista(h), SemaforoDe(h))

ColgarDispatch ==
  /\ \/ estado_proceso = "BLOQUEAR_PROCESO_IO" /\ MutexIOTomado
     \/ \E h \in Perifericos \cap con_mutex :
           estado_proceso = Respuesta(h)
  /\ ~ dispatch_colgado
  /\ dispatch_colgado' = TRUE
  /\ UNCHANGED <<cola, sem, pcbs, memoria, manejadores, consolas, recorrido,
                 vivo, fin>>

-----------------------------------------------------------------------------
(* Page faults *)

\* Mutant: the pending pages are a stack.
AtenderUltimo ==
  /\ pendientes # <<>>
  /\ pendientes' = Front(pendientes)
  /\ presente' = presente \cup {Last(pendientes)}
  /\ mensajes' = Append(mensajes, "PAGE_FAULT_ATENDIDO")
  /\ UNCHANGED <<cola, sem, pcbs, manejadores, consolas, recorrido,
                 dispatch_colgado, vivo, fin>>

\* memoria's buscar_marcos_para_procesos: the oldest pending page is loaded.
AtenderPageFault ==
  /\ pendientes # <<>>
  /\ pendientes' = Tail(pendientes)
  /\ presente' = presente \cup {Head(pendientes)}
  /\ mensajes' = Append(mensajes, "PAGE_FAULT_ATENDIDO")
  /\ UNCHANGED <<cola, sem, pcbs, manejadores, consolas, recorrido,
                 dispatch_colgado, vivo, fin>>

\* Mutant: the PCB is not waited for.
AtendidoSinEsperar ==
  /\ "conexion_memoria" \notin mostrando
  /\ Recibir("PAGE_FAULT_ATENDIDO")
  /\ Sincronizar({}, {"desbloquear_por_pf"})
  /\ UNCHANGED <<cola, pcbs, presente, pendientes, manejadores, consolas,
                 recorrido, dispatch_colgado, vivo, fin>>

\* conexion_memoria, PAGE_FAULT_ATENDIDO: it waits until dispatch has blocked
\* the PCB, and so holds back the messages behind this one.
PageFaultAtendido ==
  /\ "conexion_memoria" \notin mostrando
  /\ Recibir("PAGE_FAULT_ATENDIDO")
  /\ Sincronizar({"atender_pf"}, {"desbloquear_por_pf"})
  /\ UNCHANGED <<cola, pcbs, presente, pendientes, manejadores, consolas,
                 recorrido, dispatch_colgado, vivo, fin>>

\* manejador_estado_blocked_pf: the message names no process, the first goes.
DesbloquearPageFault ==
  /\ AgregarAReady("blocked_page_fault_thread", {"desbloquear_por_pf"},
                   "blocked_page_fault_queue", 1, "PCB")
  /\ UNCHANGED <<pcbs, memoria, manejadores, consolas, dispatch_colgado, fin>>

-----------------------------------------------------------------------------
(* Devices: one thread bloquear_pcb each *)

\* The thread of d takes mutex_blocked_io, by reference here: it excludes the
\* other devices' threads.
TomarMutexIO(d) ==
  /\ cola[d] = <<>> /\ d \notin mostrando
  /\ ~ MutexIOTomado
  /\ Sincronizar({d}, {})
  /\ con_mutex' = con_mutex \cup {d}
  /\ UNCHANGED <<cola, pcbs, memoria, ultimo, elegido, consolas, recorrido,
                 dispatch_colgado, vivo, fin>>

\* Mutant: the PCB is read with list_get and stays in the list.
AtenderSinQuitar(d) ==
  /\ d \in con_mutex
  /\ con_mutex' = con_mutex \ {d}
  /\ BuscarPcbABloquear(d) # 0
  /\ cola' = [cola EXCEPT ![d] =
               Append(@, cola["blocked_io_list"][BuscarPcbABloquear(d)])]
  /\ UNCHANGED <<sem, pcbs, memoria, ultimo, elegido, consolas, recorrido,
                 dispatch_colgado, vivo, fin>>

\* buscar_pcb_a_bloquear.  Finding none leaves an uninitialised pointer.
AtenderEnDispositivo(d) ==
  /\ d \in con_mutex
  /\ con_mutex' = con_mutex \ {d}
  /\ Mover({}, "blocked_io_list", BuscarPcbABloquear(d), d, {})
  /\ UNCHANGED <<pcbs, memoria, ultimo, elegido, consolas, recorrido,
                 dispatch_colgado, fin>>

\* The device's time is over.
TerminarIO(d) ==
  /\ cola[d] # <<>>
  /\ AgregarAReady(d, {}, d, 1, "BLOQUEAR_PROCESO_IO")
  /\ UNCHANGED <<pcbs, memoria, manejadores, consolas, dispatch_colgado, fin>>

-----------------------------------------------------------------------------
(* Screen and keyboard: a handler thread each, and the consoles *)

\* manejador_estado_blocked_screen / _keyboard: sem_wait, mutex and list_size.
TomarMutex(h) ==
  /\ h \notin con_mutex
  /\ elegido[h] = Nadie
  /\ Sincronizar({SemaforoDe(h)}, {})
  /\ con_mutex' = con_mutex \cup {h}
  /\ ultimo' = [ultimo EXCEPT ![h] = Len(cola[Lista(h)])]
  /\ UNCHANGED <<cola, pcbs, memoria, elegido, consolas, recorrido,
                 dispatch_colgado, vivo, fin>>

\* list_get of the last position there was; the PCB stays in the list.  A console's
\* thread with an older copy of the mutex may have removed one.
LeerUltimo(h) ==
  /\ h \in con_mutex
  /\ con_mutex' = con_mutex \ {h}
  /\ ultimo' = [ultimo EXCEPT ![h] = 0]
  /\ IF ultimo[h] \in DOMAIN cola[Lista(h)]
     THEN /\ elegido' = [elegido EXCEPT ![h] = cola[Lista(h)][ultimo[h]]]
          /\ UNCHANGED vivo
     ELSE vivo' = FALSE /\ UNCHANGED elegido
  /\ UNCHANGED <<cola, sem, pcbs, memoria, consolas, recorrido,
                 dispatch_colgado, fin>>

\* Mutant: the handler prompts again without a new wake-up.
PedirDeNuevo(h) ==
  /\ elegido[h] # Nadie
  /\ a_consola' = [a_consola EXCEPT ![elegido[h]] = Append(@, h)]
  /\ UNCHANGED <<cola, sem, pcbs, memoria, manejadores, conexion, de_consola,
                 consola, recorrido, dispatch_colgado, vivo, fin>>

\* The prompt goes to the console at the other end of the PCB's descriptor.  One
\* that was told to end may read it no more, and if it is already closed the send
\* may raise SIGPIPE, which nobody handles; one that inherited the descriptor may
\* not be connected yet.
PedirAConsola(h) ==
  /\ elegido[h] # Nadie
  /\ elegido' = [elegido EXCEPT ![h] = Nadie]
  /\ LET p == elegido[h] IN
       \/ /\ p \notin fin
          /\ a_consola' = [a_consola EXCEPT ![p] = Append(@, h)]
          /\ UNCHANGED vivo
       \/ /\ p \in fin \/ consola[p] = "conectada"
          /\ UNCHANGED <<a_consola, vivo>>
       \/ consola[p] = "cerrada" /\ vivo' = FALSE /\ UNCHANGED a_consola
  /\ UNCHANGED <<cola, sem, pcbs, memoria, con_mutex, ultimo, conexion,
                 de_consola, consola, recorrido, dispatch_colgado, fin>>

\* consola's main loop answers a prompt, or ends.
ConsolaResponde(p) ==
  /\ consola[p] = "esperando"
  /\ a_consola[p] # <<>>
  /\ Head(a_consola[p]) \in Perifericos
  /\ a_consola' = [a_consola EXCEPT ![p] = Tail(@)]
  /\ de_consola' = [de_consola EXCEPT ![p] = Append(@, Head(a_consola[p]))]
  /\ UNCHANGED <<cola, sem, pcbs, memoria, manejadores, conexion, consola,
                 recorrido, dispatch_colgado, vivo, fin>>

ConsolaTermina(p) ==
  /\ consola[p] = "esperando"
  /\ a_consola[p] # <<>>
  /\ Head(a_consola[p]) = "FIN"
  /\ a_consola' = [a_consola EXCEPT ![p] = Tail(@)]
  /\ consola' = [consola EXCEPT ![p] = "cerrada"]
  /\ UNCHANGED <<cola, sem, pcbs, memoria, manejadores, conexion, de_consola,
                 recorrido, dispatch_colgado, vivo, fin>>

EnRecv == [paso |-> "recv", lista |-> Nadie, indice |-> 0, cuantos |-> 0]

\* recibir_operacion closes the descriptor of a console that ended, and its thread
\* returns.  A handler that has the descriptor sends to nobody, or to the console
\* that connects next and is given the same number.
CerrarConexion(p) ==
  /\ consola[p] = "cerrada" /\ de_consola[p] = <<>>
  /\ conexion[p].paso = "recv" /\ p \notin mostrando
  /\ conexion' = [conexion EXCEPT ![p].paso = "terminada"]
  /\ \E q \in {Nadie} \cup {c \in Procesos : /\ consola[c] = "conectada"
                                          /\ a_consola[c] = <<>>
                                          /\ \A h \in Perifericos : elegido[h] # c} :
       elegido' = [h \in Perifericos |-> IF elegido[h] = p THEN q ELSE elegido[h]]
  /\ UNCHANGED <<cola, sem, pcbs, memoria, con_mutex, ultimo, a_consola,
                 de_consola, consola, recorrido, dispatch_colgado, vivo, fin>>

\* conexion_consola, INPUT_VALOR / IMPRIMIR_VALOR: it copies the mutex of the list
\* and its list_size.
AtenderConsola(p) ==
  /\ conexion[p].paso = "recv" /\ p \notin mostrando
  /\ de_consola[p] # <<>>
  /\ de_consola' = [de_consola EXCEPT ![p] = Tail(@)]
  /\ LET h == Head(de_consola[p]) IN
       conexion' = [conexion EXCEPT ![p] =
         [paso    |-> IF h \in con_mutex THEN "colgada" ELSE "buscar",
          lista   |-> h,
          indice  |-> 1,
          cuantos |-> Len(cola[Lista(h)])]]
  /\ UNCHANGED <<cola, sem, pcbs, memoria, manejadores, a_consola, consola,
                 recorrido, dispatch_colgado, vivo, fin>>

\* obtener_indice_pcb_segun_socket, one turn: it looks for its own PCB, and ends
\* with the first index when the list does not hold it.  A list_get beyond the end
\* of a list that lost a PCB meanwhile is NULL.
BuscarIndice(p) ==
  /\ conexion[p].paso = "buscar"
  /\ LET c == conexion[p]
         s == cola[Lista(c.lista)]
     IN  \/ /\ c.indice > c.cuantos
            /\ conexion' = [conexion EXCEPT ![p] = [c EXCEPT !.paso = "quitar", !.indice = 1]]
            /\ UNCHANGED vivo
         \/ /\ c.indice <= c.cuantos /\ c.indice \in DOMAIN s
            /\ conexion' = [conexion EXCEPT ![p] =
                 IF s[c.indice] = p THEN [c EXCEPT !.paso = "quitar"]
                                    ELSE [c EXCEPT !.indice = @ + 1]]
            /\ UNCHANGED vivo
         \/ /\ c.indice <= c.cuantos /\ c.indice \notin DOMAIN s
            /\ vivo' = FALSE /\ UNCHANGED conexion
  /\ UNCHANGED <<cola, sem, pcbs, memoria, manejadores, a_consola, de_consola,
                 consola, recorrido, dispatch_colgado, fin>>

\* obtener_pcb_de_lista_segun_socket, second critical section: what is at that
\* index now goes to READY1.
Desbloquear(p) ==
  /\ conexion[p].paso = "quitar"
  /\ AgregarAReady(p, {}, Lista(conexion[p].lista), conexion[p].indice,
                   Respuesta(conexion[p].lista))
  /\ conexion' = [conexion EXCEPT ![p] = EnRecv]
  /\ UNCHANGED <<pcbs, memoria, manejadores, a_consola, de_consola, consola,
                 dispatch_colgado, fin>>

-----------------------------------------------------------------------------
Init ==
  /\ cola = [c \in Lugares |-> <<>>]
  /\ sem = [s \in Semaforos |-> CASE s = "grado_multiprogramacion" -> GradoMax
                                 [] s = "cpu_libre" -> 1
                                 [] OTHER -> 0]
  /\ lista_instrucciones = [p \in Procesos |-> <<>>]
  /\ pc = [p \in Procesos |-> 1]
  /\ estado_proceso = "CONTINUA_PROCESO"
  /\ presente = {} /\ pendientes = <<>> /\ mensajes = <<>>
  /\ mostrando = {} /\ acortadas = {}
  /\ con_mutex = {} /\ ultimo = [h \in Perifericos |-> 0]
  /\ elegido = [h \in Perifericos |-> Nadie]
  /\ conexion = [p \in Procesos |-> EnRecv]
  /\ a_consola = [p \in Procesos |-> <<>>]
  /\ de_consola = [p \in Procesos |-> <<>>]
  /\ consola = [p \in Procesos |-> "conectada"]
  /\ dispatch_colgado = FALSE /\ vivo = TRUE /\ fin = {}

Dispatch ==
  \/ EnviarACpu \/ DesalojarPorQuantum \/ BloquearPorPageFault
  \/ TerminarProceso \/ ColgarDispatch \/ TerminarDeMostrar("conexion_dispatch")
  \/ \E d \in Dispositivos : BloquearPorIO(d)
  \/ \E h \in Perifericos : BloquearPorPeriferico(h)

Cpu(p) == EjecutarYSeguir(p) \/ EjecutarPageFault(p) \/ EjecutarYParar(p)

HiloMemoria ==
  IndiceActualizado \/ PageFaultAtendido \/ TerminarDeMostrar("conexion_memoria")

HiloPageFault ==
  DesbloquearPageFault \/ TerminarDeMostrar("blocked_page_fault_thread")

HiloDispositivo(d) ==
  TomarMutexIO(d) \/ AtenderEnDispositivo(d) \/ TerminarIO(d) \/ TerminarDeMostrar(d)

Manejador(h) == TomarMutex(h) \/ LeerUltimo(h) \/ PedirAConsola(h)

Consola(p) == NuevoProceso(p) \/ ConsolaResponde(p) \/ ConsolaTermina(p)

HiloConsola(p) ==
  \/ AtenderConsola(p) \/ BuscarIndice(p) \/ Desbloquear(p)
  \/ TerminarDeMostrar(p) \/ CerrarConexion(p)

Next ==
  /\ vivo
  /\ \/ AdmitirProceso \/ CrearEstructuras \/ HiloMemoria
     \/ ElegirListo \/ Dispatch \/ Finalizar
     \/ AtenderPageFault \/ HiloPageFault
     \/ \E p \in Procesos : Cpu(p) \/ Consola(p) \/ HiloConsola(p)
     \/ \E d \in Dispositivos : HiloDispositivo(d)
     \/ \E h \in Perifericos : Manejador(h)

Spec == Init /\ [][Next]_vars

\* Every thread that can run does run: they are POSIX threads that block only
\* where the guards say, and the user of a console types what is asked.
Justicia ==
  /\ WF_vars(vivo /\ AdmitirProceso) /\ WF_vars(vivo /\ CrearEstructuras)
  /\ WF_vars(vivo /\ HiloMemoria) /\ WF_vars(vivo /\ ElegirListo)
  /\ WF_vars(vivo /\ Dispatch) /\ WF_vars(vivo /\ Finalizar)
  /\ WF_vars(vivo /\ AtenderPageFault)
  /\ WF_vars(vivo /\ HiloPageFault)
  /\ \A p \in Procesos : /\ WF_vars(vivo /\ Cpu(p))
                         /\ WF_vars(vivo /\ Consola(p))
                         /\ WF_vars(vivo /\ HiloConsola(p))
  /\ \A d \in Dispositivos : WF_vars(vivo /\ HiloDispositivo(d))
  /\ \A h \in Perifericos : WF_vars(vivo /\ Manejador(h))

SpecJusta == Spec /\ Justicia

-----------------------------------------------------------------------------
(* Properties *)

CodigosCpu ==
  {"CONTINUA_PROCESO", "INTERRUPCION", "PAGE_FAULT", "FINALIZAR_PROCESO",
   "SEGMENTATION_FAULT", "BLOQUEAR_PROCESO_IO", "BLOQUEAR_PROCESO_PANTALLA",
   "BLOQUEAR_PROCESO_TECLADO"}

CodigosMemoria == {"ACTUALIZAR_INDICE_TABLA_PAGINAS", "PAGE_FAULT_ATENDIDO"}

\* The type of every variable of the kernel and its environment.
TypeOK ==
  /\ cola \in [Lugares -> Seq(Procesos)]
  /\ sem \in [Semaforos -> Nat]
  /\ lista_instrucciones \in [Procesos -> Programas \cup {<<>>}]
  /\ pc \in [Procesos -> Nat]
  /\ estado_proceso \in CodigosCpu
  /\ presente \subseteq Procesos
  /\ pendientes \in Seq(Procesos)
  /\ mensajes \in Seq(CodigosMemoria)
  /\ mostrando \subseteq Hilos /\ acortadas \subseteq mostrando
  /\ con_mutex \subseteq Dispositivos \cup Perifericos
  /\ ultimo \in [Perifericos -> Nat]
  /\ elegido \in [Perifericos -> Procesos \cup {Nadie}]
  /\ conexion \in [Procesos ->
       [paso    : {"recv", "buscar", "quitar", "colgada", "terminada"},
        lista   : Perifericos \cup {Nadie},
        indice  : Nat,
        cuantos : Nat]]
  /\ a_consola \in [Procesos -> Seq(Perifericos \cup {"FIN"})]
  /\ de_consola \in [Procesos -> Seq(Perifericos)]
  /\ consola \in [Procesos -> {"conectada", "esperando", "cerrada"}]
  /\ dispatch_colgado \in BOOLEAN
  /\ vivo \in BOOLEAN
  /\ fin \subseteq Procesos

Esta(p, c) == \E i \in DOMAIN cola[c] : cola[c][i] = p

\* No PCB is in two places, nor twice in one.
SinDuplicados ==
  \A c, e \in Lugares : \A i \in DOMAIN cola[c], j \in DOMAIN cola[e] :
     cola[c][i] = cola[e][j] => c = e /\ i = j

\* No PCB is lost: it is somewhere from its creation until it is freed.
SinPerdidos ==
  \A p \in Procesos :
     (\E c \in Lugares : Esta(p, c)) <=> (consola[p] # "conectada" /\ p \notin fin)

\* Eleven threads hand the PCBs from one queue to another; whatever their
\* order, every process is in exactly one place from NEW to the free of
\* finalizador_procesos.
UnSoloLugar == SinDuplicados /\ SinPerdidos

Admitidos ==
  {p \in Procesos : \E c \in Lugares \ {"new_queue"} : Esta(p, c)}

\* The degree of multiprogramming is never exceeded, and no place of it is
\* leaked: what the semaphore has left and the processes admitted add up to
\* GRADO_MAX_MULTIPROGRAMACION.
GradoRespetado ==
  sem["grado_multiprogramacion"] + Cardinality(Admitidos) = GradoMax

\* One process at most is running (chosen, in the cpu, or being filed by
\* dispatch), and cpu_libre is up exactly when none is.
CpuExclusiva ==
  sem["cpu_libre"] + Len(cola["running_queue"]) + Len(cola["cpu"])
  + (IF "conexion_dispatch" \in mostrando THEN 1 ELSE 0) = 1

\* running_queue needs no mutex, and its mutexes are private copies: the ready
\* thread (past pcbs_en_ready and cpu_libre, about to push) and dispatch (past
\* enviar_pcb_a_cpu, about to pop) are never in its operations at once.
RunningSinCarrera ==
  sem["pcbs_en_ready"] > 0 /\ sem["cpu_libre"] > 0 => sem["enviar_pcb_a_cpu"] = 0

\* The semaphores that count a queue count it exactly, so no thread takes a PCB
\* from an empty one and none sleeps while there is work for it.
SemaforosContados ==
  /\ sem["new_to_ready"] = Len(cola["new_queue"])
  /\ sem["pcbs_en_ready"] + Cardinality(mostrando)
       = Len(cola["ready1_list"]) + Len(cola["ready2_list"])
  /\ sem["enviar_pcb_a_cpu"] = Len(cola["running_queue"])
  /\ sem["finish_process"] = Len(cola["exit_queue"])
  /\ sem["atender_pf"] + sem["desbloquear_por_pf"]
       = Len(cola["blocked_page_fault_queue"])

\* One wake-up per blocked process and device: the thread of d always finds a
\* PCB of its own in the list all the devices share.
DispositivoContado ==
  \A d \in Dispositivos :
     sem[d] + (IF d \in con_mutex THEN 1 ELSE 0) =
       Cardinality({i \in DOMAIN cola["blocked_io_list"] :
                      Anterior(cola["blocked_io_list"][i]) = d})

\* PAGE_FAULT_ATENDIDO names no process and may overtake the PCB it is about.
\* Still the answers meet the blocked PCBs in order: those already answered
\* have their page loaded, and the rest are memoria's pending ones.
PageFaultEnOrden ==
  LET esperan   == cola["blocked_page_fault_queue"] \o
                   (IF estado_proceso = "PAGE_FAULT" THEN cola["cpu"] ELSE <<>>)
      atendidos == sem["desbloquear_por_pf"] +
                   Cardinality({i \in DOMAIN mensajes :
                                  mensajes[i] = "PAGE_FAULT_ATENDIDO"})
  IN  /\ \A i \in 1 .. atendidos : i \in DOMAIN esperan /\ esperan[i] \in presente
      /\ SubSeq(esperan, atendidos + 1, Len(esperan)) = pendientes

\* The messages h that are in the channels of the consoles.
EnCanal(canal, h) ==
  UNION {{p} \X {i \in DOMAIN canal[p] : canal[p][i] = h} : p \in Procesos}

Mensajes(canal, h) == Cardinality(EnCanal(canal, h))

\* What is on its way to take one PCB out of the list of h: a wake-up of the
\* handler, the handler itself, a prompt, an answer, a thread about to remove.
Fichas(h) ==
  sem[SemaforoDe(h)] + (IF h \in con_mutex THEN 1 ELSE 0)
  + (IF elegido[h] # Nadie THEN 1 ELSE 0)
  + Mensajes(a_consola, h) + Mensajes(de_consola, h)
  + Cardinality({p \in Procesos : conexion[p].paso \notin {"recv", "terminada"}
                                  /\ conexion[p].lista = h})

\* Prompts may go to the wrong console and answers may unblock the wrong
\* process, but no answer is worth more than one blocked process: the handler
\* that reads the last element and the thread that looks for an index never
\* find the list empty.
FichasRespetadas == \A h \in Perifericos : Fichas(h) <= Len(cola[Lista(h)])

\* A console's thread that searches, or is about to remove, beyond the end.
IndiceViejo(p) ==
  /\ \/ conexion[p].paso = "quitar"
     \/ conexion[p].paso = "buscar" /\ conexion[p].indice <= conexion[p].cuantos
  /\ conexion[p].indice \notin DOMAIN cola[Lista(conexion[p].lista)]

\* A handler about to read beyond the end.
UltimoViejo(h) == h \in con_mutex /\ ultimo[h] \notin DOMAIN cola[Lista(h)]

\* A handler about to prompt a console that closed.
ConsolaCerrada(h) == elegido[h] # Nadie /\ consola[elegido[h]] = "cerrada"

\* The steps that may kill the kernel.
Caida ==
  \/ \E t \in acortadas : TerminarDeMostrar(t)
  \/ \E p \in Procesos : IndiceViejo(p) /\ (BuscarIndice(p) \/ Desbloquear(p))
  \/ \E h \in Perifericos : UltimoViejo(h) /\ LeerUltimo(h)
  \/ \E h \in Perifericos : ConsolaCerrada(h) /\ PedirAConsola(h)

\* Every queue_pop, list_get and list_remove of the kernel is dereferenced
\* unchecked.  The semaphores make all of them safe but those of a thread that goes
\* by a size or an index that another thread made stale: the loops that show the
\* ready lists, the search of a console's PCB and its removal, the handlers' look
\* at the last PCB.  The only other death is the prompt to a closed console.
UnicasCaidas == [][ vivo' \/ Caida ]_vars

\* No thread waits for ever on a copy of a locked mutex.
SinCuelgue == ~ dispatch_colgado /\ \A p \in Procesos : conexion[p].paso # "colgada"

\* A process blocked on the screen or the keyboard is unblocked by the answer of
\* its own console, the one desbloquear_pcb_* gets the socket of.
RespuestaPropia ==
  [][ \A h \in Perifericos, p \in Procesos :
        Esta(p, Lista(h)) /\ ~ Esta(p, Lista(h))' =>
          conexion[p].paso = "quitar" /\ conexion[p].lista = h ]_vars

\* Nothing can bring these back: a crash, a hung thread, a prompt lost.
Colapso ==
  \/ ~ vivo \/ ~ SinCuelgue
  \/ \E h \in Perifericos : Fichas(h) < Len(cola[Lista(h)])

\* With GRADO_MAX_MULTIPROGRAMACION = 1 none of those happens.
SinColapso == ~ Colapso

\* Every process sent to the kernel finishes, unless the kernel collapses.
Terminan ==
  \A p \in Procesos : consola[p] = "esperando" ~> (p \in fin \/ Colapso)

\* Every console gets its process run to the end and closes.
TerminanTodos == \A p \in Procesos : <>(consola[p] = "cerrada")
-----------------------------------------------------------------------------
(* The abstract life cycle that the scheduler implements *)

\* The place of a PCB is its state: the kernel keeps no other.
EstadoDeLugar(c) ==
  CASE c \in {"new_queue", "a_memoria", "de_memoria"} -> "NEW"
    [] c = "ready1_list"              -> "READY1"
    [] c = "ready2_list"              -> "READY2"
    [] c \in {"running_queue", "cpu"} -> "RUNNING"
    [] c = "blocked_screen_list"      -> "BLOQUEADO_PANTALLA"
    [] c = "blocked_keyboard_list"    -> "BLOQUEADO_TECLADO"
    [] c = "blocked_page_fault_queue" -> "BLOQUEADO_PAGE_FAULT"
    [] c = "exit_queue"               -> "EXIT_S"
    [] OTHER                          -> "BLOQUEADO_IO"

EstadoDe(p) ==
  IF p \in fin THEN "LIBERADO"
  ELSE IF \E c \in Lugares : Esta(p, c)
       THEN EstadoDeLugar(CHOOSE c \in Lugares : Esta(p, c))
       ELSE "SIN_CREAR"

Ciclo == INSTANCE CicloDeVida WITH estado <- [p \in Procesos |-> EstadoDe(p)]

\* Whatever the threads do, and even if the kernel dies, the states of the
\* processes change only as CicloDeVida allows.
CicloRespetado == Ciclo!Spec
=============================================================================
