---------------------------- MODULE QuantumProofs ----------------------------
(***************************************************************************)
(* Proofs about Quantum, for any number of turns.                          *)
(***************************************************************************)
EXTENDS Quantum, FiniteSetTheorems, SequenceTheorems, TLAPS

-----------------------------------------------------------------------------
(* The inductive invariant of SinDesfasaje *)

\* One of the ready thread, the semaphores between it and dispatch, and dispatch
\* itself has the turn.
Testigo ==
  /\ cpu_libre \in {0, 1} /\ enviar_pcb_a_cpu \in {0, 1}
  /\ paso_ready \in {"espera", "loguea"}
  /\ paso_ready = "loguea" =>
       cpu_libre = 0 /\ enviar_pcb_a_cpu = 0 /\ paso_dispatch = "espera"
  /\ cpu_libre = 1 => enviar_pcb_a_cpu = 0 /\ paso_dispatch = "espera"
  /\ enviar_pcb_a_cpu = 1 => paso_dispatch = "espera"

\* Clocks are created in order.
Creados ==
  /\ thread_clock \in Nat /\ continuar_conteo_quantum \in Nat
  /\ reloj \in [Turnos -> {"no", "duerme", "pide", "loguea", "envia", "fin", "muerto"}]
  /\ \A k \in Turnos : k > thread_clock => reloj[k] = "no"
  /\ desfasado \in BOOLEAN

\* The clock of an interrupt has ended.
Emitidas ==
  /\ interrupciones \in Seq(Turnos)
  /\ \A i \in DOMAIN interrupciones : reloj[interrupciones[i]] = "fin"
  /\ hubo_interrupcion # 0 => hubo_interrupcion \in Turnos /\ reloj[hubo_interrupcion] = "fin"

InvDesfasaje == Testigo /\ Creados /\ Emitidas /\ SinDesfasaje

\* Clock k goes from one step to the next: none comes to life, and none that had
\* ended or was not created moves.
LEMMA PasarNoRevive ==
  ASSUME Creados, NEW k \in Turnos, Vive(k),
         NEW hasta \in {"duerme", "pide", "loguea", "envia", "fin", "muerto"},
         reloj' = [reloj EXCEPT ![k] = hasta],
         UNCHANGED <<thread_clock, continuar_conteo_quantum, desfasado>>
  PROVE  /\ Creados'
         /\ \A j \in Turnos : Vive(j)' => Vive(j)
         /\ \A j \in Turnos : reloj[j] = "fin" => reloj'[j] = "fin"
  BY DEF Creados, Vive

LEMMA InvInicial == Init => InvDesfasaje
<1> SUFFICES ASSUME Init PROVE InvDesfasaje
  OBVIOUS
<1>1. Testigo
  BY DEF Init, Testigo
<1>2. Creados
  BY DEF Init, Creados
<1>3. Emitidas
  BY DEF Init, Emitidas
<1>4. SinDesfasaje
  BY DEF Init, SinDesfasaje, Vive
<1> QED
  BY <1>1, <1>2, <1>3, <1>4 DEF InvDesfasaje

LEMMA TestigoInductivo == Testigo /\ [Next]_vars => Testigo'
<1> SUFFICES ASSUME Testigo, [Next]_vars PROVE Testigo'
  OBVIOUS
<1> USE DEF Testigo
<1>1. CASE Elegir
  BY <1>1 DEF Elegir, dispatch
<1>2. CASE Anunciar
  BY <1>2 DEF Anunciar
<1>3. CASE EnviarPcb
  BY <1>3 DEF EnviarPcb, ready
<1>4. CASE Marcar \/ RecibirPcb \/ Desmarcar \/ Atender
  BY <1>4 DEF Marcar, RecibirPcb, Desmarcar, Atender, ready
<1>5. CASE Archivar
  BY <1>5 DEF Archivar
<1>6. CASE UNCHANGED <<ready, dispatch>>
  BY <1>6 DEF ready, dispatch
<1> QED
  BY <1>1, <1>2, <1>3, <1>4, <1>5, <1>6
  DEF Next, Kernel, Cpu, Reloj, CrearReloj, Sonar, Tomar, Loguear, Morir, Pasar,
      EnviarInterrupcion, IniciarSemaforos, CargarPcb, DevolverPcb, Reanudar, Detener,
      RecibirInterrupcion, vars

\* The other steps do not touch the clocks.
LEMMA OtrosPasos ==
  Next => \/ UNCHANGED <<thread_clock, reloj, continuar_conteo_quantum, desfasado>>
          \/ Marcar \/ CrearReloj \/ Atender
          \/ \E k \in Turnos : Reloj(k)
  BY DEF Next, Kernel, Cpu, Elegir, Anunciar, EnviarPcb, RecibirPcb, Desmarcar, Archivar,
         IniciarSemaforos, CargarPcb, DevolverPcb, Reanudar, Detener, RecibirInterrupcion,
         relojes, cancelacion

\* A step of a clock is one of those of PasarNoRevive.
LEMMA PasoDeReloj ==
  ASSUME NEW k \in Turnos, Reloj(k)
  PROVE  /\ Vive(k) /\ UNCHANGED <<thread_clock, continuar_conteo_quantum, desfasado>>
         /\ \E hasta \in {"duerme", "pide", "loguea", "envia", "fin", "muerto"} :
              reloj' = [reloj EXCEPT ![k] = hasta]
  BY DEF Reloj, Sonar, Tomar, Loguear, Morir, EnviarInterrupcion, Pasar, Vive, cancelacion

LEMMA CreadosInductivo == Creados /\ [Next]_vars => Creados'
<1> SUFFICES ASSUME Creados, [Next]_vars PROVE Creados'
  OBVIOUS
<1>1. CASE UNCHANGED <<thread_clock, reloj, continuar_conteo_quantum, desfasado>>
  BY <1>1 DEF Creados
<1>2. CASE Marcar \/ Atender
  <2>1. UNCHANGED <<thread_clock, reloj>> /\ continuar_conteo_quantum' \in Nat
    BY <1>2 DEF Marcar, Atender, Creados, relojes
  <2>2. desfasado' \in BOOLEAN
    BY <1>2 DEF Marcar, Atender, Creados, cancelacion
  <2> QED
    BY <2>1, <2>2 DEF Creados
<1>3. CASE CrearReloj
  <2>1. /\ thread_clock' = thread_clock + 1 /\ thread_clock' \in Nat
        /\ continuar_conteo_quantum' \in Nat /\ desfasado' \in BOOLEAN
    BY <1>3 DEF CrearReloj, Creados, cancelacion
  <2>2. \A k \in Turnos : reloj'[k] = IF k = thread_clock' THEN "duerme" ELSE reloj[k]
    BY <1>3 DEF CrearReloj, Creados
  <2>3. reloj' \in [Turnos -> {"no", "duerme", "pide", "loguea", "envia", "fin", "muerto"}]
    BY <1>3 DEF CrearReloj, Creados
  <2> QED
    BY <2>1, <2>2, <2>3 DEF Creados, Turnos
<1>4. ASSUME NEW k \in Turnos, Reloj(k) PROVE Creados'
  BY <1>4, PasoDeReloj, PasarNoRevive
<1> QED
  BY <1>1, <1>2, <1>3, <1>4, OtrosPasos DEF vars, relojes, cancelacion

LEMMA EmitidasInductivo == Creados /\ Emitidas /\ [Next]_vars => Emitidas'
<1> SUFFICES ASSUME Creados, Emitidas, [Next]_vars PROVE Emitidas'
  OBVIOUS
<1>1. \A k \in Turnos : reloj[k] = "fin" => reloj'[k] = "fin"
  <2>1. CASE UNCHANGED reloj
    BY <2>1
  <2>2. CASE CrearReloj
    BY <2>2 DEF CrearReloj, Creados
  <2>3. ASSUME NEW k \in Turnos, Reloj(k)
        PROVE  \A j \in Turnos : reloj[j] = "fin" => reloj'[j] = "fin"
    BY <2>3, PasoDeReloj, PasarNoRevive
  <2> QED
    BY <2>1, <2>2, <2>3, OtrosPasos DEF vars, relojes, Marcar, Atender
<1>2. CASE UNCHANGED flag
  BY <1>1, <1>2 DEF Emitidas, flag
<1>3. CASE Reanudar
  BY <1>1, <1>3 DEF Emitidas, Reanudar
<1>4. CASE RecibirInterrupcion
  <2>1. Head(interrupciones) = interrupciones[1] /\ 1 \in DOMAIN interrupciones
    BY <1>4 DEF Emitidas, RecibirInterrupcion
  <2>2. /\ Tail(interrupciones) \in Seq(Turnos)
        /\ \A i \in DOMAIN Tail(interrupciones) :
             i + 1 \in DOMAIN interrupciones /\ Tail(interrupciones)[i] = interrupciones[i + 1]
    BY <1>4 DEF Emitidas, RecibirInterrupcion
  <2> QED
    BY <1>1, <1>4, <2>1, <2>2 DEF Emitidas, RecibirInterrupcion
<1>5. ASSUME NEW k \in Turnos, EnviarInterrupcion(k) PROVE Emitidas'
  <2>1. reloj'[k] = "fin"
    BY <1>5 DEF EnviarInterrupcion, Creados
  <2>2. /\ interrupciones' \in Seq(Turnos)
        /\ \A i \in DOMAIN interrupciones' :
             \/ interrupciones'[i] = k
             \/ i \in DOMAIN interrupciones /\ interrupciones'[i] = interrupciones[i]
    BY <1>5 DEF EnviarInterrupcion, Emitidas
  <2> QED
    BY <1>1, <1>5, <2>1, <2>2 DEF EnviarInterrupcion, Emitidas
<1> QED
  BY <1>2, <1>3, <1>4, <1>5
  DEF Next, Kernel, Cpu, Reloj, Elegir, Anunciar, EnviarPcb, Marcar, RecibirPcb, Desmarcar,
      Atender, Archivar, CrearReloj, Sonar, Tomar, Loguear, Morir, Pasar, IniciarSemaforos,
      CargarPcb, DevolverPcb, Detener, vars

\* The limited turn that is going on.
Abierto == ConQuantum /\ paso_dispatch \in {"recibe", "desmarca", "atiende"}

LEMMA DesfasajeInductivo == InvDesfasaje /\ [Next]_vars => SinDesfasaje'
<1> SUFFICES ASSUME InvDesfasaje, [Next]_vars PROVE SinDesfasaje'
  OBVIOUS
<1> USE DEF InvDesfasaje
<1>1. CASE /\ UNCHANGED <<thread_clock, reloj, continuar_conteo_quantum, cancelado, desfasado>>
           /\ Abierto' <=> Abierto
  BY <1>1 DEF SinDesfasaje, Abierto, Vive, RelojDelTurno
<1>2. CASE Elegir
  <2>1. ~ Abierto /\ ~ Abierto'
    BY <1>2 DEF Elegir, Testigo, Abierto, dispatch
  <2> QED
    BY <1>2, <2>1, <1>1 DEF Elegir, relojes, cancelacion
<1>3. CASE Marcar
  BY <1>3 DEF Marcar, SinDesfasaje, Creados, Vive, RelojDelTurno, ConQuantum, tiene_desalojo,
              relojes, cancelacion, ready
<1>4. CASE Atender
  <2> SUFFICES ASSUME ~ desfasado'
               PROVE  /\ continuar_conteo_quantum = 0
                      /\ \A k \in Turnos \ cancelado' : ~ Vive(k)
    BY <1>4 DEF Atender, SinDesfasaje, Vive, relojes
  <2>1. CASE ~ ConQuantum
    BY <1>4, <2>1 DEF Atender, Cancelar, SinDesfasaje, Creados, cancelacion
  <2>2. CASE ConQuantum /\ codigo_operacion = "INTERRUPCION"
    <3>1. hubo_interrupcion = RelojDelTurno /\ ~ desfasado /\ cancelado' = cancelado
      BY <1>4, <2>2 DEF Atender
    <3>2. /\ continuar_conteo_quantum = 0
          /\ RelojDelTurno \in Turnos => ~ Vive(RelojDelTurno)
      BY <3>1 DEF Emitidas, Creados, RelojDelTurno, Vive, Turnos
    <3> QED
      BY <3>1, <3>2 DEF SinDesfasaje
  <2>3. CASE ConQuantum /\ codigo_operacion # "INTERRUPCION"
    <3>1. Cancelar /\ ~ desfasado /\ continuar_conteo_quantum = 0
      <4>1. Cancelar /\ desfasado' = (desfasado \/ continuar_conteo_quantum > 0)
        BY <1>4, <2>3 DEF Atender, ConQuantum
      <4>2. ~ desfasado /\ ~ (continuar_conteo_quantum > 0)
        BY <4>1, Zenon
      <4> QED
        BY <4>1, <4>2 DEF Creados
    <3>2. \A k \in Turnos \ cancelado : Vive(k) => k = thread_clock
      BY <3>1 DEF SinDesfasaje, RelojDelTurno, Creados
    <3> QED
      BY <3>1, <3>2 DEF Cancelar, Turnos
  <2> QED
    BY <2>1, <2>2, <2>3
<1>5. CASE CrearReloj
  <2> SUFFICES ASSUME ~ desfasado'
               PROVE  /\ continuar_conteo_quantum' = 0 /\ Abierto
                      /\ \A k \in Turnos \ cancelado : Vive(k)' => k = RelojDelTurno
    BY <1>5 DEF CrearReloj, SinDesfasaje, Abierto, RelojDelTurno, Creados, cancelacion, ready,
                dispatch, ConQuantum, tiene_desalojo
  <2> QED
    BY <1>5 DEF CrearReloj, SinDesfasaje, Abierto, RelojDelTurno, Creados, Vive, cancelacion
<1>6. ASSUME NEW k \in Turnos, Reloj(k) PROVE SinDesfasaje'
  <2>1. \A j \in Turnos : Vive(j)' => Vive(j)
    BY <1>6, PasoDeReloj, PasarNoRevive
  <2>2. UNCHANGED <<thread_clock, continuar_conteo_quantum, cancelado, desfasado, ready,
                    paso_dispatch>>
    BY <1>6 DEF Reloj, Sonar, Tomar, Loguear, Morir, EnviarInterrupcion, Pasar, cancelacion,
                dispatch
  <2> QED
    BY <2>1, <2>2 DEF SinDesfasaje, RelojDelTurno, ConQuantum, tiene_desalojo, ready
<1>7. CASE RecibirPcb \/ Desmarcar
  BY <1>7, <1>1 DEF RecibirPcb, Desmarcar, Abierto, ConQuantum, tiene_desalojo, relojes,
                    cancelacion, ready
<1>8. CASE EnviarPcb \/ Archivar \/ Anunciar
  BY <1>8, <1>1 DEF EnviarPcb, Archivar, Anunciar, Abierto, ConQuantum, tiene_desalojo,
                    relojes, cancelacion, ready
<1>9. CASE Cpu \/ UNCHANGED vars
  BY <1>9, <1>1
  DEF Cpu, IniciarSemaforos, CargarPcb, DevolverPcb, Reanudar, Detener, RecibirInterrupcion,
      Abierto, ConQuantum, tiene_desalojo, relojes, cancelacion, ready, dispatch, vars
<1> QED
  BY <1>2, <1>3, <1>4, <1>5, <1>6, <1>7, <1>8, <1>9 DEF Next, Kernel

\* As long as every preemption was that of the turn's own clock, and no cancellation
\* came too soon, conexion_dispatch leaves no clock behind, however many turns.
THEOREM SinDesfasajeCorrecto == Spec => []SinDesfasaje
<1>1. InvDesfasaje /\ [Next]_vars => InvDesfasaje'
  BY TestigoInductivo, CreadosInductivo, EmitidasInductivo, DesfasajeInductivo
  DEF InvDesfasaje
<1>2. InvDesfasaje => SinDesfasaje
  BY DEF InvDesfasaje
<1> QED
  BY InvInicial, <1>1, <1>2, PTL DEF Spec

-----------------------------------------------------------------------------
(* Types, and the refinement of Turno *)

\* The one PCB that is out of the kernel, and only while dispatch has not got it back.
UnPcbAfuera ==
  /\ paso_dispatch \notin {"marca", "recibe"} => a_cpu = {} /\ pcb = {} /\ de_cpu = {}
  /\ paso_dispatch \in {"marca", "recibe"} =>
       \/ a_cpu = {despachos} /\ pcb = {} /\ de_cpu = {}
       \/ a_cpu = {} /\ pcb = {despachos} /\ de_cpu = {}
       \/ a_cpu = {} /\ pcb = {}
          /\ de_cpu = {[pcb |-> despachos, codigo |-> estado_proceso]}

\* The cpu's cycle and its two semaphores: the cycle runs, or is told to run, or has
\* stopped and says so, only with a PCB in the cpu.
CicloDePcb ==
  /\ continuar_ciclo_instruccion \in {0, 1} /\ desalojar_pcb \in {0, 1}
  /\ paso_ciclo \in {"conecta", "inicia", "ejecuta", "espera"}
  /\ estado_proceso \in Codigos
  /\ pcb = {} => /\ continuar_ciclo_instruccion = 0 /\ desalojar_pcb = 0
                 /\ paso_ciclo # "ejecuta"
  /\ continuar_ciclo_instruccion = 1 => desalojar_pcb = 0 /\ paso_ciclo # "ejecuta"
  /\ desalojar_pcb = 1 => paso_ciclo = "espera"
  /\ paso_ciclo = "espera" <=> estado_proceso # "CONTINUA_PROCESO"
  /\ de_cpu # {} => paso_ciclo = "espera"

\* A turn that is announced is within the bound, and each limited turn gets one
\* clock at most.
TurnosContados ==
  /\ despachos \in 0 .. MaxDespachos
  /\ paso_ready = "loguea" \/ enviar_pcb_a_cpu = 1 => despachos < MaxDespachos
  /\ paso_dispatch \in {"marca", "recibe"} => despachos >= 1
  /\ thread_clock + continuar_conteo_quantum + Si(paso_dispatch = "marca" /\ ConQuantum)
       <= despachos

\* What has a type and takes no part in the argument.
TiposSueltos ==
  /\ algoritmo_planificacion \in {"FIFO", "RR", "FEEDBACK"}
  /\ ready_anterior_pcb_running \in {"READY1", "READY2"}
  /\ paso_dispatch \in {"espera", "marca", "recibe", "desmarca", "atiende", "archiva"}
  /\ codigo_operacion \in Codigos \ {"CONTINUA_PROCESO"}
  /\ mutex_logger \in 0 .. MaxDespachos /\ hubo_interrupcion \in 0 .. MaxDespachos
  /\ cancelado \subseteq Turnos

Banderas == hay_proceso_ejecutando \in BOOLEAN /\ roto \in BOOLEAN /\ aviso_perdido \in BOOLEAN

InvTurno ==
  /\ Testigo /\ Creados /\ Emitidas
  /\ UnPcbAfuera /\ CicloDePcb /\ TurnosContados /\ TiposSueltos /\ Banderas

LEMMA InvTurnoInicial == Init => InvTurno
<1> SUFFICES ASSUME Init PROVE InvTurno
  OBVIOUS
<1>1. Testigo /\ Creados /\ Emitidas
  BY InvInicial DEF InvDesfasaje
<1>2. UnPcbAfuera /\ CicloDePcb
  BY DEF Init, UnPcbAfuera, CicloDePcb, Codigos
<1>3. TurnosContados
  BY DespachosAssumption DEF Init, TurnosContados, Si
<1>4. TiposSueltos
  BY DespachosAssumption DEF Init, TiposSueltos, Codigos
<1>5. Banderas
  BY DEF Init, Banderas
<1> QED
  BY <1>1, <1>2, <1>3, <1>4, <1>5 DEF InvTurno

LEMMA AfueraInductivo ==
  ASSUME UnPcbAfuera, CicloDePcb, Testigo, TurnosContados, [Next]_vars
  PROVE  UnPcbAfuera'
<1>1. CASE UNCHANGED <<paso_dispatch, a_cpu, pcb, de_cpu, despachos, estado_proceso>>
  BY <1>1 DEF UnPcbAfuera
<1>2. CASE EnviarPcb
  BY <1>2 DEF EnviarPcb, UnPcbAfuera, TurnosContados
<1>3. CASE Marcar \/ Desmarcar \/ Atender \/ Archivar
  BY <1>3 DEF Marcar, Desmarcar, Atender, Archivar, UnPcbAfuera, pcbs, ciclo
<1>4. CASE RecibirPcb
  BY <1>4 DEF RecibirPcb, UnPcbAfuera, ciclo
<1>5. CASE CargarPcb
  BY <1>5 DEF CargarPcb, UnPcbAfuera, dispatch, ciclo
<1>6. CASE DevolverPcb
  <2>1. /\ paso_dispatch \in {"marca", "recibe"} /\ a_cpu = {} /\ pcb = {despachos}
        /\ de_cpu = {}
    BY <1>6 DEF DevolverPcb, UnPcbAfuera
  <2>2. de_cpu' = {[pcb |-> despachos, codigo |-> estado_proceso]} /\ pcb' = {}
    BY <1>6, <2>1 DEF DevolverPcb
  <2> QED
    BY <1>6, <2>1, <2>2 DEF DevolverPcb, UnPcbAfuera, dispatch, ciclo
<1>7. CASE Reanudar \/ \E codigo \in {"INTERRUPCION", "PARADA"} : Detener(codigo)
  <2>1. pcb # {} /\ UNCHANGED <<paso_dispatch, a_cpu, pcb, de_cpu, despachos>>
    BY <1>7 DEF Reanudar, Detener, CicloDePcb, dispatch, pcbs
  <2> QED
    BY <2>1 DEF UnPcbAfuera
<1> QED
  BY <1>1, <1>2, <1>3, <1>4, <1>5, <1>6, <1>7
  DEF Next, Kernel, Cpu, Reloj, Elegir, Anunciar, CrearReloj, Sonar, Tomar, Loguear, Morir,
      Pasar, EnviarInterrupcion, IniciarSemaforos, RecibirInterrupcion, dispatch, pcbs,
      ciclo, vars

LEMMA CicloInductivo ==
  ASSUME UnPcbAfuera, CicloDePcb, [Next]_vars
  PROVE  CicloDePcb'
<1>1. CASE UNCHANGED <<pcb, de_cpu, ciclo, cpu_sems>>
  BY <1>1 DEF CicloDePcb, ciclo, cpu_sems
<1>2. CASE RecibirPcb
  BY <1>2 DEF RecibirPcb, CicloDePcb, ciclo, cpu_sems
<1>3. CASE IniciarSemaforos
  BY <1>3 DEF IniciarSemaforos, CicloDePcb, pcbs
<1>4. CASE CargarPcb
  BY <1>4 DEF CargarPcb, CicloDePcb, ciclo
<1>5. CASE DevolverPcb
  BY <1>5 DEF DevolverPcb, CicloDePcb, ciclo
<1>6. CASE Reanudar
  <2>1. pcb # {} /\ de_cpu = {}
    BY <1>6 DEF Reanudar, CicloDePcb, UnPcbAfuera
  <2> QED
    BY <1>6, <2>1 DEF Reanudar, CicloDePcb, pcbs, Codigos
<1>7. ASSUME NEW codigo \in {"INTERRUPCION", "PARADA"}, Detener(codigo) PROVE CicloDePcb'
  <2>1. pcb # {} /\ de_cpu = {} /\ continuar_ciclo_instruccion = 0 /\ desalojar_pcb = 0
    BY <1>7 DEF Detener, CicloDePcb, UnPcbAfuera
  <2> QED
    BY <1>7, <2>1 DEF Detener, CicloDePcb, pcbs, Codigos
<1> QED
  BY <1>1, <1>2, <1>3, <1>4, <1>5, <1>6, <1>7
  DEF Next, Kernel, Cpu, Reloj, Elegir, Anunciar, EnviarPcb, Marcar, Desmarcar, Atender,
      Archivar, CrearReloj, Sonar, Tomar, Loguear, Morir, Pasar, EnviarInterrupcion,
      RecibirInterrupcion, pcbs, vars

LEMMA ContadosInductivo ==
  ASSUME TurnosContados, Testigo, Creados, [Next]_vars
  PROVE  TurnosContados'
<1> USE DespachosAssumption
<1>1. CASE UNCHANGED <<ready, dispatch, thread_clock, continuar_conteo_quantum>>
  BY <1>1 DEF TurnosContados, ready, dispatch, Si, ConQuantum, tiene_desalojo
<1>2. CASE Elegir
  <2>1. ~ (paso_dispatch = "marca") /\ ~ (paso_dispatch' = "marca")
    BY <1>2 DEF Elegir, Testigo, dispatch
  <2> QED
    BY <1>2, <2>1 DEF Elegir, TurnosContados, Testigo, Si, dispatch, relojes
<1>3. CASE Anunciar
  BY <1>3 DEF Anunciar, TurnosContados, Testigo, Si, ConQuantum, tiene_desalojo, relojes
<1>4. CASE EnviarPcb
  BY <1>4 DEF EnviarPcb, TurnosContados, Testigo, Creados, Si, ConQuantum, tiene_desalojo,
              ready, relojes
<1>5. CASE Marcar
  BY <1>5 DEF Marcar, TurnosContados, Creados, Si, ConQuantum, tiene_desalojo, ready,
              relojes
<1>6. CASE RecibirPcb \/ Desmarcar \/ Atender \/ Archivar
  BY <1>6 DEF RecibirPcb, Desmarcar, Atender, Archivar, TurnosContados, Testigo, Si,
              ConQuantum, tiene_desalojo, ready, relojes
<1>7. CASE CrearReloj
  BY <1>7 DEF CrearReloj, TurnosContados, Creados, Si, ConQuantum, tiene_desalojo, ready,
              dispatch
<1> QED
  BY <1>1, <1>2, <1>3, <1>4, <1>5, <1>6, <1>7
  DEF Next, Kernel, Cpu, Reloj, Sonar, Tomar, Loguear, Morir, Pasar, EnviarInterrupcion,
      IniciarSemaforos, CargarPcb, DevolverPcb, Reanudar, Detener, RecibirInterrupcion,
      relojes, vars

LEMMA SueltosInductivo ==
  ASSUME TiposSueltos, UnPcbAfuera, CicloDePcb, TurnosContados, Emitidas, Creados,
         [Next]_vars
  PROVE  TiposSueltos'
<1>1. CASE UNCHANGED <<algoritmo_planificacion, ready_anterior_pcb_running, paso_dispatch,
                       codigo_operacion, mutex_logger, cancelado, hubo_interrupcion>>
  BY <1>1 DEF TiposSueltos
<1>2. CASE Elegir
  BY <1>2 DEF Elegir, TiposSueltos, dispatch, relojes, cancelacion, flag
<1>3. CASE Anunciar \/ EnviarPcb \/ Marcar \/ Desmarcar \/ Archivar
  BY <1>3 DEF Anunciar, EnviarPcb, Marcar, Desmarcar, Archivar, TiposSueltos, ready,
              relojes, cancelacion, flag
<1>4. CASE RecibirPcb
  <2>1. codigo_operacion' \in Codigos \ {"CONTINUA_PROCESO"}
    BY <1>4 DEF RecibirPcb, UnPcbAfuera, CicloDePcb
  <2> QED
    BY <1>4, <2>1 DEF RecibirPcb, TiposSueltos, ready, relojes, cancelacion, flag
<1>5. CASE Atender
  <2>1. cancelado' = cancelado \/ (Cancelar /\ thread_clock # 0
                                    /\ cancelado' = cancelado \cup {thread_clock})
    BY <1>5 DEF Atender, Cancelar, cancelacion
  <2>2. thread_clock # 0 => thread_clock \in Turnos
    BY DespachosAssumption DEF Creados, TurnosContados, Turnos, Si
  <2>3. cancelado' \subseteq Turnos
    BY <2>1, <2>2 DEF TiposSueltos, Cancelar
  <2> QED
    BY <1>5, <2>3 DEF Atender, TiposSueltos, ready, relojes, flag
<1>6. ASSUME NEW k \in Turnos, Reloj(k) PROVE TiposSueltos'
  <2>1. mutex_logger' \in {mutex_logger, 0, k}
    BY <1>6 DEF Reloj, Sonar, Tomar, Loguear, Morir, EnviarInterrupcion
  <2>2. mutex_logger' \in 0 .. MaxDespachos
    BY <2>1, DespachosAssumption DEF TiposSueltos, Turnos
  <2>3. UNCHANGED <<algoritmo_planificacion, ready_anterior_pcb_running, paso_dispatch,
                    codigo_operacion, cancelado, hubo_interrupcion>>
    BY <1>6 DEF Reloj, Sonar, Tomar, Loguear, Morir, Pasar, EnviarInterrupcion, ready,
                dispatch, cancelacion, flag
  <2> QED
    BY <2>2, <2>3 DEF TiposSueltos
<1>7. CASE RecibirInterrupcion
  <2>1. Head(interrupciones) \in 0 .. MaxDespachos
    BY <1>7, DespachosAssumption DEF RecibirInterrupcion, Emitidas, Turnos
  <2> QED
    BY <1>7, <2>1 DEF RecibirInterrupcion, TiposSueltos, ready, dispatch, relojes,
                      cancelacion
<1>8. CASE Reanudar
  BY <1>8, DespachosAssumption
     DEF Reanudar, TiposSueltos, ready, dispatch, relojes, cancelacion
<1> QED
  BY <1>1, <1>2, <1>3, <1>4, <1>5, <1>6, <1>7, <1>8
  DEF Next, Kernel, Cpu, CrearReloj, CargarPcb, DevolverPcb, Detener, IniciarSemaforos,
      ready, dispatch, relojes, cancelacion, flag, vars

LEMMA BanderasInductivo ==
  ASSUME Banderas, [Next]_vars
  PROVE  Banderas'
<1>1. hay_proceso_ejecutando' \in {hay_proceso_ejecutando, TRUE, FALSE}
  BY DEF Next, Kernel, Cpu, Reloj, Elegir, Anunciar, EnviarPcb, Marcar, RecibirPcb,
         Desmarcar, Atender, Archivar, CrearReloj, Sonar, Tomar, Loguear, Morir, Pasar,
         EnviarInterrupcion, IniciarSemaforos, CargarPcb, DevolverPcb, Reanudar, Detener,
         RecibirInterrupcion, dispatch, vars
<1>2. roto' = roto \/ roto' \in BOOLEAN
  BY DEF Next, Kernel, Cpu, Reloj, Elegir, Anunciar, EnviarPcb, Marcar, RecibirPcb,
         Desmarcar, Atender, Cancelar, Archivar, CrearReloj, Sonar, Tomar, Loguear, Morir,
         Pasar, EnviarInterrupcion, IniciarSemaforos, CargarPcb, DevolverPcb, Reanudar,
         Detener, RecibirInterrupcion, cancelacion, vars
<1>3. aviso_perdido' = aviso_perdido
        \/ aviso_perdido' = (continuar_ciclo_instruccion > 0)
  BY DEF Next, Kernel, Cpu, Reloj, Elegir, Anunciar, EnviarPcb, Marcar, RecibirPcb,
         Desmarcar, Atender, Archivar, CrearReloj, Sonar, Tomar, Loguear, Morir, Pasar,
         EnviarInterrupcion, IniciarSemaforos, CargarPcb, DevolverPcb, Reanudar, Detener,
         RecibirInterrupcion, ciclo, vars
<1>4. aviso_perdido' \in BOOLEAN
  <2>1. CASE aviso_perdido' = aviso_perdido
    BY <2>1, Zenon DEF Banderas
  <2>2. CASE aviso_perdido' = (continuar_ciclo_instruccion > 0)
    <3> DEFINE b == continuar_ciclo_instruccion > 0
    <3>1. b \in BOOLEAN
      OBVIOUS
    <3> HIDE DEF b
    <3>2. aviso_perdido' = b
      BY <2>2 DEF b
    <3> QED
      BY <3>1, <3>2, Zenon
  <2> QED
    BY <1>3, <2>1, <2>2, Zenon
<1> QED
  BY <1>1, <1>2, <1>4, Zenon DEF Banderas

LEMMA TurnoInductivo == InvTurno /\ [Next]_vars => InvTurno'
  BY TestigoInductivo, CreadosInductivo, EmitidasInductivo, AfueraInductivo,
     CicloInductivo, ContadosInductivo, SueltosInductivo, BanderasInductivo DEF InvTurno

LEMMA TurnoTipo == InvTurno => TypeOK
<1> SUFFICES ASSUME InvTurno PROVE TypeOK
  OBVIOUS
<1> USE DEF InvTurno
<1>1. /\ paso_ready \in {"espera", "loguea"} /\ cpu_libre \in 0 .. 1
      /\ enviar_pcb_a_cpu \in 0 .. 1
  BY DEF Testigo
<1>2. /\ despachos \in 0 .. MaxDespachos
      /\ continuar_conteo_quantum \in 0 .. MaxDespachos /\ thread_clock \in 0 .. MaxDespachos
  BY DespachosAssumption DEF TurnosContados, Creados, Si
<1>3. /\ a_cpu \subseteq Turnos /\ pcb \subseteq Turnos
      /\ de_cpu \subseteq [pcb : Turnos, codigo : Codigos \ {"CONTINUA_PROCESO"}]
  BY DespachosAssumption DEF UnPcbAfuera, CicloDePcb, TurnosContados, Turnos
<1>4. Cardinality(a_cpu) + Cardinality(pcb) + Cardinality(de_cpu) <= 1
  <2>1. /\ Cardinality({despachos}) = 1 /\ Cardinality({}) = 0
        /\ Cardinality({[pcb |-> despachos, codigo |-> estado_proceso]}) = 1
    BY FS_Singleton, FS_EmptySet
  <2>2. CASE a_cpu = {despachos} /\ pcb = {} /\ de_cpu = {}
    BY <2>1, <2>2
  <2>3. CASE a_cpu = {} /\ pcb = {despachos} /\ de_cpu = {}
    BY <2>1, <2>3
  <2>4. CASE /\ a_cpu = {} /\ pcb = {}
             /\ de_cpu = {[pcb |-> despachos, codigo |-> estado_proceso]}
    BY <2>1, <2>4
  <2>5. CASE a_cpu = {} /\ pcb = {} /\ de_cpu = {}
    BY <2>1, <2>5
  <2> QED
    BY <2>2, <2>3, <2>4, <2>5 DEF UnPcbAfuera
<1>5. /\ paso_ciclo \in {"conecta", "inicia", "ejecuta", "espera"}
      /\ estado_proceso \in Codigos
      /\ continuar_ciclo_instruccion \in 0 .. 1 /\ desalojar_pcb \in 0 .. 1
  BY DEF CicloDePcb
<1> QED
  BY <1>1, <1>2, <1>3, <1>4, <1>5 DEF TypeOK, TiposSueltos, Banderas, Creados, Emitidas

LEMMA TurnoInvariante == Spec => []InvTurno
  BY InvTurnoInicial, TurnoInductivo, PTL DEF Spec

\* For any number of turns every variable keeps its type: the semaphores are used as
\* binary ones, and no more than one PCB is between kernel and cpu.
THEOREM TipoQuantumCorrecto == Spec => []TypeOK
  BY TurnoInvariante, TurnoTipo, PTL

-----------------------------------------------------------------------------
(* Quantum implements Turno *)

\* The refinement mapping, by name.
Afuera == a_cpu \cup pcb \cup {m.pcb : m \in de_cpu}
Vivos == {k \in Turnos : Vive(k)}
EnMarca == Si(paso_dispatch = "marca" /\ ConQuantum)

\* How much each part of QuantumsVivos changes in a step.
Gasto(m, c, v, l, f) ==
  /\ EnMarca' = EnMarca + m
  /\ continuar_conteo_quantum' = continuar_conteo_quantum + c
  /\ Cardinality(Vivos)' = Cardinality(Vivos) + v
  /\ Len(interrupciones') = Len(interrupciones) + l
  /\ EnFlag' = EnFlag + f

PartesQuantum ==
  /\ EnMarca \in 0 .. 1 /\ continuar_conteo_quantum \in Nat
  /\ IsFiniteSet(Vivos) /\ Cardinality(Vivos) \in Nat
  /\ Len(interrupciones) \in Nat /\ EnFlag \in 0 .. 1
  /\ QuantumsVivos \in Nat

LEMMA PartesNaturales == InvTurno => PartesQuantum
<1> SUFFICES ASSUME InvTurno PROVE PartesQuantum
  OBVIOUS
<1>1. EnMarca \in 0 .. 1 /\ EnFlag \in 0 .. 1
  BY DEF EnMarca, EnFlag, Si
<1>2. IsFiniteSet(Vivos) /\ Cardinality(Vivos) \in Nat
  <2>1. IsFiniteSet(Turnos)
    BY DespachosAssumption, FS_Interval DEF Turnos
  <2>2. Vivos \subseteq Turnos
    BY DEF Vivos
  <2> QED
    BY <2>1, <2>2, FS_Subset, FS_CardinalityType
<1>3. continuar_conteo_quantum \in Nat /\ Len(interrupciones) \in Nat
  BY LenProperties DEF InvTurno, Creados, Emitidas
<1>4. QuantumsVivos = EnMarca + continuar_conteo_quantum + Cardinality(Vivos)
                        + Len(interrupciones) + EnFlag
  BY DEF QuantumsVivos, EnMarca, Vivos
<1>5. QuantumsVivos \in Nat
  <2> DEFINE v == Cardinality(Vivos)
             l == Len(interrupciones)
  <2>1. QuantumsVivos = EnMarca + continuar_conteo_quantum + v + l + EnFlag
        /\ v \in Nat /\ l \in Nat
    BY <1>2, <1>3, <1>4
  <2> HIDE DEF v, l
  <2> QED
    BY <1>1, <1>3, <2>1
<1> QED
  BY <1>1, <1>2, <1>3, <1>5 DEF PartesQuantum

LEMMA PartesDespues == (InvTurno => PartesQuantum)'
  BY PartesNaturales, PTL

LEMMA GastoTotal ==
  ASSUME InvTurno, InvTurno', NEW m \in Int, NEW c \in Int, NEW v \in Int, NEW l \in Int,
         NEW f \in Int, Gasto(m, c, v, l, f)
  PROVE  /\ QuantumsVivos \in Nat /\ QuantumsVivos' \in Nat
         /\ QuantumsVivos' = QuantumsVivos + (m + c + v + l + f)
<1> DEFINE w == Cardinality(Vivos)
           n == Len(interrupciones)
<1>1. PartesQuantum /\ PartesQuantum'
  BY PartesNaturales, PartesDespues
<1>2. /\ QuantumsVivos = EnMarca + continuar_conteo_quantum + w + n + EnFlag
      /\ QuantumsVivos' = EnMarca' + continuar_conteo_quantum' + w' + n' + EnFlag'
  BY DEF QuantumsVivos, EnMarca, Vivos
<1>3. w \in Nat /\ n \in Nat /\ w' = w + v /\ n' = n + l
  BY <1>1 DEF PartesQuantum, Gasto
<1> HIDE DEF w, n
<1> QED
  BY <1>1, <1>2, <1>3 DEF PartesQuantum, Gasto

PasoDeTurno == [T!Next]_<<despachos, a_cpu \cup pcb \cup {m.pcb : m \in de_cpu}, QuantumsVivos>>

\* A step that does not move the PCB: a quantum is lost at most.
LEMMA SoloQuantums ==
  ASSUME InvTurno, InvTurno', NEW m \in Int, NEW c \in Int, NEW v \in Int, NEW l \in Int,
         NEW f \in Int, Gasto(m, c, v, l, f), m + c + v + l + f \in {0, -1},
         UNCHANGED <<despachos, Afuera>>
  PROVE  PasoDeTurno
<1> DEFINE d == m + c + v + l + f
<1>1. QuantumsVivos \in Nat /\ QuantumsVivos' \in Nat /\ QuantumsVivos' = QuantumsVivos + d
  BY GastoTotal
<1>2. d \in {0, -1}
  OBVIOUS
<1> HIDE DEF d
<1>3. CASE d = 0
  BY <1>1, <1>3 DEF PasoDeTurno, Afuera
<1>4. CASE d = -1
  <2>1. QuantumsVivos > 0 /\ QuantumsVivos' = QuantumsVivos - 1
    BY <1>1, <1>4
  <2> QED
    BY <2>1 DEF PasoDeTurno, Afuera, T!Next, T!Perder
<1> QED
  BY <1>2, <1>3, <1>4

\* The clocks that run, when none moves, when one is created and when one moves.
LEMMA VivosQuietos ==
  ASSUME UNCHANGED reloj, InvTurno
  PROVE  Cardinality(Vivos)' = Cardinality(Vivos) + 0
<1>1. Vivos' = Vivos
  BY DEF Vivos, Vive
<1>2. Cardinality(Vivos) \in Nat
  BY PartesNaturales DEF PartesQuantum
<1> QED
  BY <1>1, <1>2

LEMMA VivosCrece ==
  ASSUME InvTurno, CrearReloj
  PROVE  Cardinality(Vivos)' = Cardinality(Vivos) + 1
<1> DEFINE k == thread_clock + 1
<1>1. k \in Turnos /\ reloj[k] = "no"
  BY DespachosAssumption
     DEF InvTurno, CrearReloj, TurnosContados, Creados, Turnos, Si
<1>2. reloj' = [reloj EXCEPT ![k] = "duerme"]
      /\ reloj \in [Turnos -> {"no", "duerme", "pide", "loguea", "envia", "fin", "muerto"}]
  BY DEF CrearReloj, InvTurno, Creados
<1> HIDE DEF k
<1>3. Vivos' = Vivos \cup {k} /\ k \notin Vivos
  BY <1>1, <1>2 DEF Vivos, Vive
<1>4. IsFiniteSet(Vivos) /\ Cardinality(Vivos) \in Nat
  BY PartesNaturales DEF PartesQuantum
<1> QED
  BY <1>3, <1>4, FS_AddElement

LEMMA VivosPaso ==
  ASSUME InvTurno, NEW k \in Turnos, Vive(k),
         NEW hasta \in {"duerme", "pide", "loguea", "envia", "fin", "muerto"},
         reloj' = [reloj EXCEPT ![k] = hasta]
  PROVE  Cardinality(Vivos)'
           = Cardinality(Vivos) + (IF hasta \in {"fin", "muerto"} THEN -1 ELSE 0)
<1>1. reloj \in [Turnos -> {"no", "duerme", "pide", "loguea", "envia", "fin", "muerto"}]
  BY DEF InvTurno, Creados
<1>2. IsFiniteSet(Vivos) /\ Cardinality(Vivos) \in Nat /\ k \in Vivos
  BY PartesNaturales DEF PartesQuantum, Vivos
<1>3. CASE hasta \in {"fin", "muerto"}
  <2>1. Vivos' = Vivos \ {k}
    BY <1>1, <1>3 DEF Vivos, Vive
  <2> QED
    BY <1>2, <1>3, <2>1, FS_RemoveElement
<1>4. CASE hasta \notin {"fin", "muerto"}
  <2>1. Vivos' = Vivos
    BY <1>1, <1>4 DEF Vivos, Vive
  <2> QED
    BY <1>2, <1>4, <2>1
<1> QED
  BY <1>3, <1>4

LEMMA FlagQuieto ==
  ASSUME InvTurno,
         UNCHANGED <<estado_proceso, desalojar_pcb, hubo_interrupcion>>,
         de_cpu' = {} <=> de_cpu = {}
  PROVE  EnFlag' = EnFlag + 0
BY PartesNaturales DEF PartesQuantum, EnFlag, Si

\* The steps of the ready thread and of dispatch that do not move the PCB.
LEMMA RefinaKernel ==
  ASSUME InvTurno, InvTurno',
         Elegir \/ Anunciar \/ Marcar \/ Desmarcar \/ Atender \/ Archivar \/ CrearReloj
  PROVE  PasoDeTurno
<1>1. UNCHANGED <<despachos, Afuera>>
  BY DEF Elegir, Anunciar, Marcar, Desmarcar, Atender, Archivar, CrearReloj, dispatch, pcbs,
         Afuera
<1>2. EnFlag' = EnFlag + 0
  BY FlagQuieto
     DEF Elegir, Anunciar, Marcar, Desmarcar, Atender, Archivar, CrearReloj, pcbs, ciclo,
         cpu_sems, flag
<1>3. Len(interrupciones') = Len(interrupciones) + 0
  BY PartesNaturales
     DEF PartesQuantum, Elegir, Anunciar, Marcar, Desmarcar, Atender, Archivar, CrearReloj,
         flag
<1>4. ~ CrearReloj => Cardinality(Vivos)' = Cardinality(Vivos) + 0
  BY VivosQuietos DEF Elegir, Anunciar, Marcar, Desmarcar, Atender, Archivar, relojes
<1>5. continuar_conteo_quantum \in Nat /\ EnMarca \in 0 .. 1
  BY PartesNaturales DEF PartesQuantum
<1>6. CASE Marcar
  <2>1. Gasto(0 - EnMarca, EnMarca, 0, 0, 0)
    <3>1. CrearReloj => FALSE
      BY <1>6 DEF Marcar, CrearReloj, dispatch
    <3>2. EnMarca = (IF ConQuantum THEN 1 ELSE 0) /\ EnMarca' = 0
      BY <1>6 DEF Marcar, EnMarca, Si
    <3> QED
      BY <1>2, <1>3, <1>4, <1>5, <1>6, <3>1, <3>2 DEF Gasto, Marcar
  <2> QED
    BY <1>1, <1>5, <2>1, SoloQuantums
<1>7. CASE CrearReloj
  <2>1. EnMarca' = EnMarca + 0
    BY <1>5, <1>7 DEF CrearReloj, EnMarca, ConQuantum, tiene_desalojo, ready, dispatch
  <2>2. Gasto(0, -1, 1, 0, 0)
    BY <1>2, <1>3, <1>5, <1>7, <2>1, VivosCrece DEF Gasto, CrearReloj
  <2> QED
    BY <1>1, <2>2, SoloQuantums
<1>8. CASE ~ Marcar /\ ~ CrearReloj
  <2>1. EnMarca' = EnMarca
    <3>1. CASE Elegir
      BY <3>1 DEF Elegir, InvTurno, Testigo, EnMarca, dispatch, Si
    <3>2. CASE ~ Elegir
      BY <1>8, <3>2 DEF Anunciar, Desmarcar, Atender, Archivar, EnMarca, ConQuantum,
                        tiene_desalojo, ready, Si
    <3> QED
      BY <3>1, <3>2
  <2>2. continuar_conteo_quantum' = continuar_conteo_quantum
    BY <1>8 DEF Elegir, Anunciar, Desmarcar, Atender, Archivar
  <2>3. Gasto(0, 0, 0, 0, 0)
    BY <1>2, <1>3, <1>4, <1>5, <1>8, <2>1, <2>2 DEF Gasto
  <2> QED
    BY <1>1, <2>3, SoloQuantums
<1> QED
  BY <1>6, <1>7, <1>8

\* The steps of a clock: it goes on, or ends with or without an interrupt.
LEMMA RefinaReloj ==
  ASSUME InvTurno, InvTurno', NEW k \in Turnos, Reloj(k)
  PROVE  PasoDeTurno
<1>1. UNCHANGED <<despachos, Afuera>>
  BY DEF Reloj, Sonar, Tomar, Loguear, Morir, Pasar, EnviarInterrupcion, dispatch, pcbs,
         Afuera
<1>2. EnFlag' = EnFlag + 0
  BY FlagQuieto
     DEF Reloj, Sonar, Tomar, Loguear, Morir, Pasar, EnviarInterrupcion, pcbs, ciclo,
         cpu_sems, flag
<1>3. EnMarca' = EnMarca + 0 /\ continuar_conteo_quantum' = continuar_conteo_quantum + 0
  <2>1. continuar_conteo_quantum \in Nat /\ EnMarca \in 0 .. 1
    BY PartesNaturales DEF PartesQuantum
  <2>2. UNCHANGED <<ready, dispatch, continuar_conteo_quantum>>
    BY DEF Reloj, Sonar, Tomar, Loguear, Morir, Pasar, EnviarInterrupcion
  <2> QED
    BY <2>1, <2>2 DEF EnMarca, ConQuantum, tiene_desalojo, ready, dispatch
<1>4. CASE EnviarInterrupcion(k)
  <2>1. Vive(k) /\ reloj' = [reloj EXCEPT ![k] = "fin"]
        /\ interrupciones' = Append(interrupciones, k) /\ interrupciones \in Seq(Turnos)
    BY <1>4 DEF EnviarInterrupcion, Vive, InvTurno, Emitidas
  <2>2. Cardinality(Vivos)' = Cardinality(Vivos) + (-1)
    BY <2>1, VivosPaso
  <2>3. Len(interrupciones') = Len(interrupciones) + 1
    BY <2>1
  <2>4. Gasto(0, 0, -1, 1, 0)
    BY <1>2, <1>3, <2>2, <2>3 DEF Gasto
  <2> QED
    BY <1>1, <2>4, SoloQuantums
<1>5. CASE ~ EnviarInterrupcion(k)
  <2>1. PICK hasta \in {"duerme", "pide", "loguea", "envia", "fin", "muerto"} :
          reloj' = [reloj EXCEPT ![k] = hasta]
    BY PasoDeReloj
  <2>2. Vive(k)
    BY PasoDeReloj
  <2> DEFINE v == IF hasta \in {"fin", "muerto"} THEN -1 ELSE 0
  <2>3. Cardinality(Vivos)' = Cardinality(Vivos) + v /\ v \in {0, -1}
    BY <2>1, <2>2, VivosPaso
  <2> HIDE DEF v
  <2>4. Len(interrupciones') = Len(interrupciones) + 0
    BY <1>5, PartesNaturales
       DEF Reloj, Sonar, Tomar, Loguear, Morir, Pasar, PartesQuantum, flag
  <2>5. Gasto(0, 0, v, 0, 0)
    BY <1>2, <1>3, <2>3, <2>4 DEF Gasto
  <2>6. v \in Int /\ 0 + 0 + v + 0 + 0 \in {0, -1}
    BY <2>3
  <2> QED
    BY <1>1, <2>5, <2>6, SoloQuantums
<1> QED
  BY <1>4, <1>5

LEMMA Diferencia == \A x \in 0 .. 1, y \in 0 .. 1 : y = x + (y - x)
OBVIOUS

\* The steps of the cpu: an interrupt reaches the flag or is lost, and the flag is
\* spent by the process that stops for it or cleared with the next.
LEMMA RefinaCpu ==
  ASSUME InvTurno, InvTurno', Cpu
  PROVE  PasoDeTurno
<1>1. UNCHANGED <<despachos, ready, paso_dispatch, continuar_conteo_quantum, reloj>>
  BY DEF Cpu, IniciarSemaforos, CargarPcb, DevolverPcb, Reanudar, Detener,
         RecibirInterrupcion, dispatch, relojes
<1>2. Cardinality(Vivos)' = Cardinality(Vivos) + 0
  BY <1>1, VivosQuietos
<1>3. EnMarca' = EnMarca + 0 /\ continuar_conteo_quantum' = continuar_conteo_quantum + 0
  <2>1. continuar_conteo_quantum \in Nat /\ EnMarca \in 0 .. 1
    BY PartesNaturales DEF PartesQuantum
  <2> QED
    BY <1>1, <2>1 DEF EnMarca, ConQuantum, tiene_desalojo, ready
<1>4. EnFlag \in 0 .. 1 /\ EnFlag' \in 0 .. 1 /\ Len(interrupciones) \in Nat
  BY PartesNaturales, PartesDespues DEF PartesQuantum
<1>5. UNCHANGED Afuera
  <2>1. CASE CargarPcb
    <3>1. PICK d \in a_cpu : pcb' = {d} /\ a_cpu' = a_cpu \ {d} /\ de_cpu' = de_cpu
      BY <2>1 DEF CargarPcb
    <3>2. a_cpu = {despachos} /\ pcb = {}
      BY <2>1 DEF CargarPcb, InvTurno, UnPcbAfuera
    <3>3. a_cpu' \cup pcb' = a_cpu \cup pcb
      BY <3>1, <3>2
    <3> QED
      BY <3>1, <3>3 DEF Afuera
  <2>2. CASE DevolverPcb
    <3>1. /\ a_cpu = {} /\ pcb = {despachos} /\ de_cpu = {}
          /\ de_cpu' = {[pcb |-> despachos, codigo |-> estado_proceso]}
          /\ pcb' = {} /\ a_cpu' = {}
      <4>1. a_cpu = {} /\ pcb = {despachos} /\ de_cpu = {}
        BY <2>2 DEF DevolverPcb, InvTurno, UnPcbAfuera
      <4> QED
        BY <2>2, <4>1 DEF DevolverPcb
    <3>2. Afuera = {despachos} /\ Afuera' = {despachos}
      BY <3>1 DEF Afuera
    <3> QED
      BY <3>2
  <2>3. CASE ~ CargarPcb /\ ~ DevolverPcb
    BY <2>3 DEF Cpu, IniciarSemaforos, Reanudar, Detener, RecibirInterrupcion, Afuera, pcbs
  <2> QED
    BY <2>1, <2>2, <2>3
<1>6. CASE RecibirInterrupcion
  <2>1. Len(interrupciones') = Len(interrupciones) + (-1)
    BY <1>6 DEF RecibirInterrupcion, InvTurno, Emitidas
  <2> DEFINE f == EnFlag' - EnFlag
  <2>2. f \in {0, 1}
    <3>1. UNCHANGED <<estado_proceso, desalojar_pcb, de_cpu>>
          /\ (hubo_interrupcion # 0 => hubo_interrupcion' = hubo_interrupcion)
      BY <1>6 DEF RecibirInterrupcion, ciclo, cpu_sems, pcbs
    <3> QED
      BY <3>1 DEF EnFlag, Si
  <2>3. EnFlag' = EnFlag + f
    BY <1>4, Diferencia
  <2> HIDE DEF f
  <2>4. Gasto(0, 0, 0, -1, f)
    BY <1>2, <1>3, <2>1, <2>3 DEF Gasto
  <2>5. f \in Int /\ 0 + 0 + 0 + (-1) + f \in {0, -1}
    BY <2>2
  <2> QED
    BY <1>1, <1>5, <2>4, <2>5, SoloQuantums
<1>7. CASE ~ RecibirInterrupcion
  <2>1. Len(interrupciones') = Len(interrupciones) + 0
    BY <1>4, <1>7 DEF Cpu, IniciarSemaforos, CargarPcb, DevolverPcb, Reanudar, Detener, flag
  <2> DEFINE f == EnFlag' - EnFlag
  <2>2. f \in {0, -1}
    <3> USE DEF EnFlag, Si, InvTurno, CicloDePcb, UnPcbAfuera
    <3>1. CASE IniciarSemaforos
      BY <3>1 DEF IniciarSemaforos, pcbs, flag
    <3>2. CASE CargarPcb
      BY <3>2 DEF CargarPcb, ciclo, flag
    <3>3. CASE DevolverPcb
      <4>1. desalojar_pcb = 1 /\ pcb = {despachos}
        BY <3>3 DEF DevolverPcb
      <4>2. de_cpu' # {}
        BY <3>3, <4>1 DEF DevolverPcb
      <4> QED
        BY <3>3, <4>1, <4>2 DEF DevolverPcb, ciclo, flag
    <3>4. CASE Reanudar
      <4>1. desalojar_pcb = 0 /\ de_cpu = {}
        BY <3>4 DEF Reanudar
      <4> QED
        BY <3>4, <4>1 DEF Reanudar, pcbs
    <3>5. ASSUME NEW codigo \in {"INTERRUPCION", "PARADA"}, Detener(codigo)
          PROVE  f \in {0, -1}
      BY <3>5 DEF Detener, pcbs, flag
    <3> QED
      BY <1>7, <3>1, <3>2, <3>3, <3>4, <3>5 DEF Cpu
  <2>3. EnFlag' = EnFlag + f
    BY <1>4, Diferencia
  <2> HIDE DEF f
  <2>4. Gasto(0, 0, 0, 0, f)
    BY <1>2, <1>3, <2>1, <2>3 DEF Gasto
  <2>5. f \in Int /\ 0 + 0 + 0 + 0 + f \in {0, -1}
    BY <2>2
  <2> QED
    BY <1>1, <1>5, <2>4, <2>5, SoloQuantums
<1> QED
  BY <1>6, <1>7

\* Dispatch sends the PCB: a turn begins, with a quantum if it is limited.
LEMMA RefinaEnvio ==
  ASSUME InvTurno, InvTurno', EnviarPcb
  PROVE  PasoDeTurno
<1>1. /\ a_cpu = {} /\ pcb = {} /\ de_cpu = {} /\ despachos < MaxDespachos
      /\ a_cpu' = {despachos + 1} /\ pcb' = {} /\ de_cpu' = {} /\ despachos' = despachos + 1
  BY DEF EnviarPcb, InvTurno, UnPcbAfuera, TurnosContados, Testigo
<1>2. Afuera = {} /\ Afuera' = {despachos + 1}
  BY <1>1 DEF Afuera
<1>3. EnMarca = 0 /\ EnMarca' \in {0, 1}
  BY DEF EnviarPcb, EnMarca, Si
<1>4. EnFlag' = EnFlag + 0
  BY <1>1, FlagQuieto DEF EnviarPcb, ciclo, cpu_sems, flag
<1>5. Cardinality(Vivos)' = Cardinality(Vivos) + 0
  BY VivosQuietos DEF EnviarPcb, relojes
<1>6. Gasto(EnMarca', 0, 0, 0, 0)
  <2>1. EnMarca' = EnMarca + EnMarca'
    <3>1. CASE EnMarca' = 0
      BY <1>3, <3>1
    <3>2. CASE EnMarca' = 1
      BY <1>3, <3>2
    <3> QED
      BY <1>3, <3>1, <3>2
  <2>2. /\ continuar_conteo_quantum' = continuar_conteo_quantum + 0
        /\ Len(interrupciones') = Len(interrupciones) + 0
    BY PartesNaturales DEF PartesQuantum, EnviarPcb, flag
  <2> QED
    BY <1>4, <1>5, <2>1, <2>2 DEF Gasto
<1>7. QuantumsVivos' = QuantumsVivos + EnMarca'
  <2>1. EnMarca' \in Int
    BY <1>3
  <2>2. /\ QuantumsVivos \in Nat
        /\ QuantumsVivos' = QuantumsVivos + (EnMarca' + 0 + 0 + 0 + 0)
    BY <1>6, <2>1, GastoTotal
  <2> QED
    BY <2>1, <2>2
<1> QED
  BY <1>1, <1>2, <1>3, <1>7 DEF PasoDeTurno, Afuera, T!Next, T!Despachar

\* Dispatch gets the PCB back: the turn ends, and a quantum with it if it was
\* preempted.
LEMMA RefinaVuelta ==
  ASSUME InvTurno, InvTurno', RecibirPcb
  PROVE  PasoDeTurno
<1>1. /\ a_cpu = {} /\ pcb = {}
      /\ de_cpu = {[pcb |-> despachos, codigo |-> estado_proceso]}
      /\ a_cpu' = {} /\ pcb' = {} /\ de_cpu' = {} /\ despachos' = despachos
  BY DEF RecibirPcb, InvTurno, UnPcbAfuera
<1>2. Afuera = {despachos} /\ Afuera' = {}
  BY <1>1 DEF Afuera
<1>3. EnMarca = 0 /\ EnMarca' = 0
  BY DEF RecibirPcb, EnMarca, Si
<1>4. EnFlag' = EnFlag + (IF estado_proceso = "INTERRUPCION" THEN -1 ELSE 0)
  <2>1. desalojar_pcb = 0 /\ UNCHANGED <<desalojar_pcb, estado_proceso, hubo_interrupcion>>
    BY <1>1 DEF RecibirPcb, InvTurno, CicloDePcb, ciclo, cpu_sems, flag
  <2> QED
    BY <1>1, <2>1 DEF EnFlag, Si
<1>5. Cardinality(Vivos)' = Cardinality(Vivos) + 0
  BY VivosQuietos DEF RecibirPcb, relojes
<1>6. /\ EnMarca' = EnMarca + 0
      /\ continuar_conteo_quantum' = continuar_conteo_quantum + 0
      /\ Len(interrupciones') = Len(interrupciones) + 0
  BY <1>3, PartesNaturales DEF PartesQuantum, RecibirPcb, flag
<1>7. CASE estado_proceso = "INTERRUPCION"
  <2>1. Gasto(0, 0, 0, 0, -1)
    BY <1>4, <1>5, <1>6, <1>7 DEF Gasto
  <2>2. /\ QuantumsVivos \in Nat /\ QuantumsVivos' \in Nat
        /\ QuantumsVivos' = QuantumsVivos + (0 + 0 + 0 + 0 + (-1))
    BY <2>1, GastoTotal
  <2>3. QuantumsVivos > 0 /\ QuantumsVivos' = QuantumsVivos - 1
    BY <2>2
  <2> QED
    BY <1>1, <1>2, <2>3 DEF PasoDeTurno, Afuera, T!Next, T!Desalojar
<1>8. CASE estado_proceso # "INTERRUPCION"
  <2>1. Gasto(0, 0, 0, 0, 0)
    BY <1>4, <1>5, <1>6, <1>8 DEF Gasto
  <2>2. /\ QuantumsVivos \in Nat
        /\ QuantumsVivos' = QuantumsVivos + (0 + 0 + 0 + 0 + 0)
    BY <2>1, GastoTotal
  <2>3. QuantumsVivos' = QuantumsVivos
    BY <2>2
  <2> QED
    BY <1>1, <1>2, <2>3 DEF PasoDeTurno, Afuera, T!Next, T!Volver
<1> QED
  BY <1>7, <1>8

LEMMA RefinaPaso ==
  ASSUME InvTurno, InvTurno', [Next]_vars
  PROVE  PasoDeTurno
<1>1. CASE UNCHANGED vars
  BY <1>1 DEF PasoDeTurno, vars, ready, dispatch, relojes, pcbs, ciclo, cpu_sems, flag,
              QuantumsVivos, EnFlag, Vive, ConQuantum, tiene_desalojo
<1>2. CASE Next
  BY <1>2, RefinaKernel, RefinaReloj, RefinaCpu, RefinaEnvio, RefinaVuelta
     DEF Next, Kernel
<1> QED
  BY <1>1, <1>2

LEMMA RefinaInicial == Init => T!Init
<1> SUFFICES ASSUME Init PROVE T!Init
  OBVIOUS
<1>1. {k \in Turnos : Vive(k)} = {}
  BY DEF Init, Vive
<1>2. Cardinality({k \in Turnos : Vive(k)}) = 0
  BY <1>1, FS_EmptySet
<1>3. Len(interrupciones) = 0
  BY DEF Init
<1>4. QuantumsVivos = 0
  BY <1>2, <1>3 DEF Init, QuantumsVivos, EnFlag, Si
<1>5. a_cpu \cup pcb \cup {m.pcb : m \in de_cpu} = {} /\ despachos = 0
  BY DEF Init
<1> QED
  BY <1>4, <1>5 DEF T!Init

\* Whatever the clocks do, and for any number of turns: one PCB at most is out of the
\* kernel, it comes back once, and a preemption costs a quantum that was granted.
THEOREM TurnoCorrecto == Spec => TurnoRespetado
<1>1. InvTurno /\ InvTurno' /\ [Next]_vars
        => [T!Next]_<<despachos, a_cpu \cup pcb \cup {m.pcb : m \in de_cpu}, QuantumsVivos>>
  BY RefinaPaso DEF PasoDeTurno
<1> QED
  BY RefinaInicial, TurnoInvariante, <1>1, PTL DEF Spec, TurnoRespetado, T!Spec
=============================================================================
