------------------------------- MODULE Quantum -------------------------------
(***************************************************************************)
(* One turn of the cpu after another, with the threads that share it: in   *)
(* the kernel the ready thread, conexion_dispatch, conexion_interrupt and  *)
(* one clock for each quantum (kernel.c:106-244, 506-519); in the cpu the  *)
(* main thread (the instruction cycle), conexion_dispatch and              *)
(* conexion_interrupt (cpu.c:16-132, 248-264).                             *)
(*                                                                         *)
(* What the process executes is left to Kernel: here it runs on or stops.  *)
(* Of mutex_logger only a clock that holds it matters, for only a clock    *)
(* can die with it: everybody else takes it and releases it in one step.   *)
(***************************************************************************)
EXTENDS Integers, Sequences, FiniteSets

CONSTANT MaxDespachos  \* bound: the turns of a behaviour

ASSUME DespachosAssumption == MaxDespachos \in Nat \ {0}

\* A turn is named by its number, and so is the PCB it sends; a clock too.
Turnos == 1 .. MaxDespachos

\* "PARADA" is any code a process stops with by itself, all of which conexion_dispatch
\* treats alike as far as the clock is concerned.
Codigos == {"CONTINUA_PROCESO", "INTERRUPCION", "PARADA"}

VARIABLES
  algoritmo_planificacion,
  \* the ready thread
  paso_ready, cpu_libre, ready_anterior_pcb_running,
  \* conexion_dispatch
  paso_dispatch, enviar_pcb_a_cpu, despachos, codigo_operacion, hay_proceso_ejecutando,
  \* conexion_interrupt and the clocks
  continuar_conteo_quantum,
  thread_clock,  \* the last clock created, 0 if none
  reloj,         \* where each clock is
  cancelado,     \* the clocks with a cancellation pending
  mutex_logger,  \* the clock that holds it, or 0
  roto,          \* pthread_cancel was given a thread that does not exist
  desfasado,     \* history: a turn has left its clock behind (Atender says when)
  \* messages: PCBs, the answer, and the clocks of the interrupts on their way
  a_cpu, de_cpu, interrupciones,
  \* cpu
  paso_ciclo, pcb, estado_proceso,
  hubo_interrupcion,  \* the clock that set the flag, or 0
  continuar_ciclo_instruccion, desalojar_pcb,
  aviso_perdido       \* history: sem_init has erased a sem_post

ready == <<algoritmo_planificacion, paso_ready, cpu_libre, ready_anterior_pcb_running>>
dispatch == <<paso_dispatch, enviar_pcb_a_cpu, despachos, codigo_operacion,
              hay_proceso_ejecutando>>
relojes == <<thread_clock, reloj, mutex_logger>>
cancelacion == <<cancelado, roto, desfasado>>
pcbs == <<a_cpu, de_cpu, pcb>>
ciclo == <<paso_ciclo, estado_proceso, aviso_perdido>>
cpu_sems == <<continuar_ciclo_instruccion, desalojar_pcb>>
flag == <<interrupciones, hubo_interrupcion>>

vars == <<ready, dispatch, continuar_conteo_quantum, relojes,
          cancelacion, pcbs, ciclo, cpu_sems, flag>>

Init ==
  /\ algoritmo_planificacion \in {"FIFO", "RR", "FEEDBACK"}
  /\ paso_ready = "espera" /\ cpu_libre = 1 /\ ready_anterior_pcb_running = "READY1"
  /\ paso_dispatch = "espera" /\ enviar_pcb_a_cpu = 0 /\ despachos = 0
  /\ codigo_operacion = "PARADA" /\ hay_proceso_ejecutando = FALSE
  /\ continuar_conteo_quantum = 0
  /\ thread_clock = 0 /\ reloj = [k \in Turnos |-> "no"] /\ mutex_logger = 0
  /\ cancelado = {} /\ roto = FALSE /\ desfasado = FALSE
  /\ a_cpu = {} /\ de_cpu = {} /\ pcb = {}
  /\ paso_ciclo = "conecta" /\ estado_proceso = "CONTINUA_PROCESO"
  /\ aviso_perdido = FALSE
  /\ continuar_ciclo_instruccion = 0 /\ desalojar_pcb = 0
  /\ interrupciones = <<>> /\ hubo_interrupcion = 0

tiene_desalojo == algoritmo_planificacion # "FIFO"

-----------------------------------------------------------------------------
(* Kernel: the ready thread (manejador_estado_ready) *)

\* Mutant: the cpu is not waited for.
ElegirSinEsperar ==
  /\ paso_ready = "espera" /\ despachos < MaxDespachos
  /\ paso_ready' = "loguea" /\ cpu_libre' = 0 /\ ready_anterior_pcb_running' = "READY1"
  /\ UNCHANGED <<algoritmo_planificacion, dispatch, continuar_conteo_quantum, relojes,
                 cancelacion, pcbs, ciclo, cpu_sems, flag>>

\* It takes the cpu for a process of READY1, or of READY2 under FEEDBACK.
Elegir ==
  /\ paso_ready = "espera" /\ cpu_libre > 0 /\ despachos < MaxDespachos
  /\ paso_ready' = "loguea" /\ cpu_libre' = cpu_libre - 1
  /\ \/ ready_anterior_pcb_running' = "READY1"
     \/ algoritmo_planificacion = "FEEDBACK" /\ ready_anterior_pcb_running' = "READY2"
  /\ UNCHANGED <<algoritmo_planificacion, dispatch, continuar_conteo_quantum, relojes,
                 cancelacion, pcbs, ciclo, cpu_sems, flag>>

\* logear_cambio_estado, and the post.
Anunciar ==
  /\ paso_ready = "loguea" /\ mutex_logger = 0
  /\ paso_ready' = "espera" /\ enviar_pcb_a_cpu' = enviar_pcb_a_cpu + 1
  /\ UNCHANGED <<algoritmo_planificacion, cpu_libre, ready_anterior_pcb_running, paso_dispatch, despachos,
                 codigo_operacion, hay_proceso_ejecutando, continuar_conteo_quantum, relojes,
                 cancelacion, pcbs, ciclo, cpu_sems, flag>>

-----------------------------------------------------------------------------
(* Kernel: conexion_dispatch *)

EnviarPcb ==
  /\ paso_dispatch = "espera" /\ enviar_pcb_a_cpu > 0
  /\ paso_dispatch' = "marca" /\ enviar_pcb_a_cpu' = enviar_pcb_a_cpu - 1
  /\ despachos' = despachos + 1 /\ a_cpu' = a_cpu \cup {despachos + 1}
  /\ UNCHANGED <<ready, codigo_operacion, hay_proceso_ejecutando, continuar_conteo_quantum,
                 relojes, cancelacion, de_cpu, pcb, ciclo, cpu_sems, flag>>

\* A turn is limited when the algorithm preempts and its process came from READY1.
ConQuantum == tiene_desalojo /\ ready_anterior_pcb_running = "READY1"

Marcar ==
  /\ paso_dispatch = "marca"
  /\ paso_dispatch' = "recibe" /\ hay_proceso_ejecutando' = TRUE
  /\ continuar_conteo_quantum' = continuar_conteo_quantum + (IF ConQuantum THEN 1 ELSE 0)
  /\ UNCHANGED <<ready, enviar_pcb_a_cpu, despachos, codigo_operacion, relojes, cancelacion,
                 pcbs, ciclo, cpu_sems, flag>>

RecibirPcb ==
  /\ paso_dispatch = "recibe"
  /\ \E m \in de_cpu : de_cpu' = de_cpu \ {m} /\ codigo_operacion' = m.codigo
  /\ paso_dispatch' = "desmarca"
  /\ UNCHANGED <<ready, enviar_pcb_a_cpu, despachos, hay_proceso_ejecutando,
                 continuar_conteo_quantum, relojes, cancelacion, a_cpu, pcb, ciclo, cpu_sems,
                 flag>>

Desmarcar ==
  /\ paso_dispatch = "desmarca"
  /\ paso_dispatch' = "atiende" /\ hay_proceso_ejecutando' = FALSE
  /\ UNCHANGED <<ready, enviar_pcb_a_cpu, despachos, codigo_operacion,
                 continuar_conteo_quantum, relojes, cancelacion, pcbs, ciclo, cpu_sems, flag>>

\* The clock of a limited turn, created or not: there is one for each post.
RelojDelTurno == thread_clock + continuar_conteo_quantum

Vive(k) == reloj[k] \notin {"no", "fin", "muerto"}

\* pthread_cancel(thread_clock).  A thread that ended is undefined behaviour (at
\* best nothing happens), and so is none at all (0 is dereferenced).
Cancelar ==
  \/ /\ thread_clock # 0 /\ Vive(thread_clock)
     /\ cancelado' = cancelado \cup {thread_clock} /\ UNCHANGED roto
  \/ /\ thread_clock # 0 /\ ~ Vive(thread_clock)
     /\ roto' \in BOOLEAN /\ UNCHANGED cancelado
  \/ thread_clock = 0 /\ roto' = TRUE /\ UNCHANGED cancelado

\* Mutant: the answer is handled without cancelling the clock.
AtenderSinCancelar ==
  /\ paso_dispatch = "atiende"
  /\ paso_dispatch' = "archiva"
  /\ UNCHANGED <<cancelado, roto, desfasado>>
  /\ UNCHANGED <<ready, enviar_pcb_a_cpu, despachos, codigo_operacion,
                 hay_proceso_ejecutando, continuar_conteo_quantum, relojes, pcbs, ciclo,
                 cpu_sems, flag>>

\* The first thing each case of the switch does.  A clock is left behind when the
\* turn of another one was ended by an older interrupt, or by a cancellation that
\* came before conexion_interrupt had created it.
Atender ==
  /\ paso_dispatch = "atiende"
  /\ paso_dispatch' = "archiva"
  /\ \/ /\ codigo_operacion = "INTERRUPCION"
        /\ desfasado' = (desfasado \/ (ConQuantum /\ hubo_interrupcion # RelojDelTurno))
        /\ UNCHANGED <<cancelado, roto>>
     \/ /\ codigo_operacion # "INTERRUPCION" /\ tiene_desalojo
        /\ Cancelar
        /\ desfasado' = (desfasado \/ continuar_conteo_quantum > 0)
     \/ /\ codigo_operacion # "INTERRUPCION" /\ ~ tiene_desalojo
        /\ UNCHANGED cancelacion
  /\ UNCHANGED <<ready, enviar_pcb_a_cpu, despachos, codigo_operacion,
                 hay_proceso_ejecutando, continuar_conteo_quantum, relojes, pcbs, ciclo,
                 cpu_sems, flag>>

\* The rest of the case: every one logs, puts the PCB away and releases the cpu.
Archivar ==
  /\ paso_dispatch = "archiva" /\ mutex_logger = 0
  /\ paso_dispatch' = "espera" /\ cpu_libre' = cpu_libre + 1
  /\ UNCHANGED <<algoritmo_planificacion, paso_ready, ready_anterior_pcb_running, enviar_pcb_a_cpu, despachos,
                 codigo_operacion, hay_proceso_ejecutando, continuar_conteo_quantum, relojes,
                 cancelacion, pcbs, ciclo, cpu_sems, flag>>

-----------------------------------------------------------------------------
(* Kernel: conexion_interrupt and the clocks *)

\* conexion_interrupt, when there is preemption.
CrearReloj ==
  /\ tiene_desalojo /\ continuar_conteo_quantum > 0
  /\ continuar_conteo_quantum' = continuar_conteo_quantum - 1
  /\ thread_clock' = thread_clock + 1
  /\ reloj' = [reloj EXCEPT ![thread_clock + 1] = "duerme"]
  /\ UNCHANGED <<ready, dispatch, mutex_logger, cancelacion, pcbs, ciclo, cpu_sems, flag>>

\* A step of clock k, from desde to hasta, that does not send anything.
Pasar(k, desde, hasta) ==
  /\ reloj[k] = desde
  /\ reloj' = [reloj EXCEPT ![k] = hasta]
  /\ UNCHANGED <<ready, dispatch, continuar_conteo_quantum, thread_clock, cancelacion, pcbs,
                 ciclo, cpu_sems, flag>>

\* The quantum is over, and the flag of dispatch is read without a lock.
Sonar(k) ==
  Pasar(k, "duerme", IF hay_proceso_ejecutando THEN "pide" ELSE "fin") /\ UNCHANGED mutex_logger

Tomar(k) == mutex_logger = 0 /\ Pasar(k, "pide", "loguea") /\ mutex_logger' = k

\* Mutant: the mutex is not released.
LoguearSinLiberar(k) == Pasar(k, "loguea", "envia") /\ UNCHANGED mutex_logger

Loguear(k) == Pasar(k, "loguea", "envia") /\ mutex_logger' = 0

\* A pending cancellation acts in usleep, in send and perhaps in the write of the
\* log: there the mutex is held, and stays so.
Morir(k) ==
  /\ k \in cancelado
  /\ \/ Pasar(k, "duerme", "fin") \/ Pasar(k, "envia", "fin") \/ Pasar(k, "loguea", "muerto")
  /\ UNCHANGED mutex_logger

\* enviar_interrupcion.
EnviarInterrupcion(k) ==
  /\ reloj[k] = "envia" /\ k \notin cancelado
  /\ reloj' = [reloj EXCEPT ![k] = "fin"]
  /\ interrupciones' = Append(interrupciones, k)
  /\ UNCHANGED <<ready, dispatch, continuar_conteo_quantum, thread_clock, mutex_logger,
                 cancelacion, pcbs, ciclo, cpu_sems, hubo_interrupcion>>

-----------------------------------------------------------------------------
(* Cpu *)

\* main initialises the semaphores when memoria has answered, long after it has
\* started the threads that use them.
IniciarSemaforos ==
  /\ paso_ciclo = "conecta"
  /\ paso_ciclo' = "inicia"
  /\ continuar_ciclo_instruccion' = 0 /\ desalojar_pcb' = 0
  /\ aviso_perdido' = (continuar_ciclo_instruccion > 0)
  /\ UNCHANGED <<ready, dispatch, continuar_conteo_quantum, relojes, cancelacion, pcbs,
                 estado_proceso, flag>>

\* conexion_dispatch: a PCB arrives, while it waits for one.
CargarPcb ==
  /\ pcb = {}
  /\ \E d \in a_cpu : pcb' = {d} /\ a_cpu' = a_cpu \ {d}
  /\ continuar_ciclo_instruccion' = continuar_ciclo_instruccion + 1
  /\ UNCHANGED <<ready, dispatch, continuar_conteo_quantum, relojes, cancelacion, de_cpu,
                 ciclo, desalojar_pcb, flag>>

\* conexion_dispatch: the PCB goes back with estado_proceso.
DevolverPcb ==
  /\ pcb # {} /\ desalojar_pcb > 0
  /\ desalojar_pcb' = desalojar_pcb - 1
  /\ de_cpu' = de_cpu \cup {[pcb |-> d, codigo |-> estado_proceso] : d \in pcb}
  /\ pcb' = {}
  /\ UNCHANGED <<ready, dispatch, continuar_conteo_quantum, relojes, cancelacion, a_cpu,
                 ciclo, continuar_ciclo_instruccion, flag>>

\* Mutant: the flag of the last turn is kept.
ReanudarSinLimpiar ==
  /\ paso_ciclo \in {"inicia", "espera"} /\ continuar_ciclo_instruccion > 0
  /\ paso_ciclo' = "ejecuta"
  /\ continuar_ciclo_instruccion' = continuar_ciclo_instruccion - 1
  /\ estado_proceso' = "CONTINUA_PROCESO"
  /\ UNCHANGED <<ready, dispatch, continuar_conteo_quantum, relojes, cancelacion, pcbs,
                 aviso_perdido, desalojar_pcb, flag>>

\* The cycle goes on with the next PCB; the flag is cleared, but not the first time.
Reanudar ==
  /\ paso_ciclo \in {"inicia", "espera"} /\ continuar_ciclo_instruccion > 0
  /\ paso_ciclo' = "ejecuta"
  /\ continuar_ciclo_instruccion' = continuar_ciclo_instruccion - 1
  /\ estado_proceso' = "CONTINUA_PROCESO"
  /\ hubo_interrupcion' = IF paso_ciclo = "inicia" THEN hubo_interrupcion ELSE 0
  /\ UNCHANGED <<ready, dispatch, continuar_conteo_quantum, relojes, cancelacion, pcbs,
                 aviso_perdido, desalojar_pcb, interrupciones>>

\* An instruction stops the process, or chequear_interrupcion does after one that
\* does not: desalojo_proceso up to its sem_wait.
Detener(codigo) ==
  /\ paso_ciclo = "ejecuta"
  /\ codigo = "INTERRUPCION" => hubo_interrupcion # 0
  /\ paso_ciclo' = "espera" /\ estado_proceso' = codigo
  /\ desalojar_pcb' = desalojar_pcb + 1
  /\ UNCHANGED <<ready, dispatch, continuar_conteo_quantum, relojes, cancelacion, pcbs,
                 aviso_perdido, continuar_ciclo_instruccion, flag>>

\* conexion_interrupt: the flag is set, if it was not.
RecibirInterrupcion ==
  /\ interrupciones # <<>>
  /\ interrupciones' = Tail(interrupciones)
  /\ hubo_interrupcion' =
       IF hubo_interrupcion = 0 THEN Head(interrupciones) ELSE hubo_interrupcion
  /\ UNCHANGED <<ready, dispatch, continuar_conteo_quantum, relojes, cancelacion, pcbs,
                 ciclo, cpu_sems>>

-----------------------------------------------------------------------------

Kernel ==
  Elegir \/ Anunciar \/ EnviarPcb \/ Marcar \/ RecibirPcb \/ Desmarcar \/ Atender \/ Archivar
  \/ CrearReloj

Reloj(k) ==
  Sonar(k) \/ Tomar(k) \/ Loguear(k) \/ Morir(k) \/ EnviarInterrupcion(k)

Cpu ==
  IniciarSemaforos \/ CargarPcb \/ DevolverPcb \/ Reanudar \/ RecibirInterrupcion
  \/ \E codigo \in {"INTERRUPCION", "PARADA"} : Detener(codigo)

\* After the undefined behaviour nothing is known of the kernel.
Next == ~ roto /\ (Kernel \/ Cpu \/ \E k \in Turnos : Reloj(k))

\* Every thread that can go on does, but the arrival of a process in READY is up to
\* the consoles, and a quantum need not expire before the process stops: its program
\* is finite, and has no jumps.
Fairness ==
  /\ WF_vars(~ roto /\ Anunciar) /\ WF_vars(~ roto /\ EnviarPcb)
  /\ WF_vars(~ roto /\ Marcar) /\ WF_vars(~ roto /\ RecibirPcb)
  /\ WF_vars(~ roto /\ Desmarcar) /\ WF_vars(~ roto /\ Atender)
  /\ WF_vars(~ roto /\ Archivar)
  /\ WF_vars(~ roto /\ IniciarSemaforos) /\ WF_vars(~ roto /\ CargarPcb)
  /\ WF_vars(~ roto /\ DevolverPcb) /\ WF_vars(~ roto /\ Reanudar)
  /\ WF_vars(~ roto /\ Detener("PARADA"))
  /\ \A k \in Turnos : WF_vars(~ roto /\ (Loguear(k) \/ Morir(k)))

Spec == Init /\ [][Next]_vars /\ Fairness

-----------------------------------------------------------------------------
(* Properties *)

\* The type of every variable; each semaphore but continuar_conteo_quantum is used
\* as a binary one, and never is there more than one PCB between kernel and cpu.
TypeOK ==
  /\ algoritmo_planificacion \in {"FIFO", "RR", "FEEDBACK"}
  /\ paso_ready \in {"espera", "loguea"}
  /\ ready_anterior_pcb_running \in {"READY1", "READY2"}
  /\ cpu_libre \in 0 .. 1 /\ enviar_pcb_a_cpu \in 0 .. 1
  /\ paso_dispatch \in {"espera", "marca", "recibe", "desmarca", "atiende", "archiva"}
  /\ despachos \in 0 .. MaxDespachos /\ codigo_operacion \in Codigos \ {"CONTINUA_PROCESO"}
  /\ hay_proceso_ejecutando \in BOOLEAN
  /\ continuar_conteo_quantum \in 0 .. MaxDespachos
  /\ thread_clock \in 0 .. MaxDespachos /\ mutex_logger \in 0 .. MaxDespachos
  /\ reloj \in [Turnos -> {"no", "duerme", "pide", "loguea", "envia", "fin", "muerto"}]
  /\ cancelado \subseteq Turnos /\ roto \in BOOLEAN /\ desfasado \in BOOLEAN
  /\ a_cpu \subseteq Turnos /\ pcb \subseteq Turnos
  /\ de_cpu \subseteq [pcb : Turnos, codigo : Codigos \ {"CONTINUA_PROCESO"}]
  /\ Cardinality(a_cpu) + Cardinality(pcb) + Cardinality(de_cpu) <= 1
  /\ interrupciones \in Seq(Turnos) /\ hubo_interrupcion \in 0 .. MaxDespachos
  /\ paso_ciclo \in {"conecta", "inicia", "ejecuta", "espera"}
  /\ estado_proceso \in Codigos /\ aviso_perdido \in BOOLEAN
  /\ continuar_ciclo_instruccion \in 0 .. 1 /\ desalojar_pcb \in 0 .. 1

\* The quantums of Turno: not yet posted, not yet counted by a clock, counted by one,
\* in an interrupt, in the flag (once the cycle has stopped for it, only until the
\* kernel has the answer).
Si(condicion) == IF condicion THEN 1 ELSE 0

EnFlag ==
  IF estado_proceso = "INTERRUPCION"
  THEN Si(desalojar_pcb > 0 \/ de_cpu # {})
  ELSE Si(hubo_interrupcion # 0)

QuantumsVivos ==
  Si(paso_dispatch = "marca" /\ ConQuantum) + continuar_conteo_quantum
  + Cardinality({k \in Turnos : Vive(k)}) + Len(interrupciones) + EnFlag

\* The seven threads implement Turno: the PCB is in one place until it comes back,
\* and each preemption spends a quantum that was granted to a limited turn.
T == INSTANCE Turno WITH
       turno <- despachos,
       afuera <- a_cpu \cup pcb \cup {m.pcb : m \in de_cpu},
       quantums <- QuantumsVivos

TurnoRespetado == T!Spec

\* As long as every preemption was that of the turn's own clock, and no cancellation
\* came before the clock it was meant for, a clock that may still interrupt belongs
\* to the limited turn that is going on: no quantum is carried over to another turn.
SinDesfasaje ==
  ~ desfasado =>
    LET abierto == ConQuantum /\ paso_dispatch \in {"recibe", "desmarca", "atiende"} IN
    /\ continuar_conteo_quantum > 0 => abierto /\ continuar_conteo_quantum = 1
    /\ \A k \in Turnos \ cancelado : Vive(k) => abierto /\ k = RelojDelTurno

\* Every turn ends and the cpu is free again, unless the clock was cancelled as it
\* wrote to the log (mutex_logger stays taken), pthread_cancel met no thread, or the
\* first PCB came before the cpu's semaphores were initialised.
CadaDespachoVuelve ==
  paso_dispatch # "espera" ~>
    \/ paso_dispatch = "espera"
    \/ roto \/ aviso_perdido \/ (mutex_logger # 0 /\ reloj[mutex_logger] = "muerto")
=============================================================================
