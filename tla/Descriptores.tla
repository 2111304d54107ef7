---------------------------- MODULE Descriptores ----------------------------
(***************************************************************************)
(* The consoles' connections with the kernel, when a console may die at    *)
(* any moment.  A PCB keeps the number of its console's descriptor; the    *)
(* kernel's thread for that console closes it when the console is gone,    *)
(* the PCB stays, and accept gives the number to the next console.         *)
(*                                                                         *)
(* The scheduler is left to Kernel: here a process goes on, waits for its  *)
(* console or ends, and the handler may prompt for any process that waits, *)
(* as may be the last of the list.                                         *)
(***************************************************************************)
EXTENDS Integers, Sequences, FiniteSets, FiniteSetsExt

CONSTANTS
  Consolas,  \* a process is named as the console that sent it
  MaxBajas   \* bound: the consoles that die by themselves

ASSUME ConsolasAssumption == IsFiniteSet(Consolas) /\ MaxBajas \in Nat

Nadie == 0
Numeros == 1 .. Cardinality(Consolas)

VARIABLES
  consola,         \* "fuera", "conectada", "espera" (its loop) or "terminada"
  programa,        \* the consoles whose program is on its way to the kernel
  pedidos,         \* the op_codes on their way to each console
  respuestas,      \* how many answers of each console are on their way
  descriptor,      \* of each console's thread in the kernel, Nadie if it has ended
  proceso,         \* "no", "activo", "bloqueado", "exit" or "fin"
  socket_consola,  \* in each PCB
  bloquear_por_pantalla,
  vivo,            \* the kernel has not been killed
  bajas            \* history: the consoles that died by themselves

mensajes == <<programa, pedidos, respuestas>>
kernel == <<descriptor, proceso, socket_consola, bloquear_por_pantalla, vivo>>
vars == <<consola, mensajes, kernel, bajas>>

Init ==
  /\ consola = [c \in Consolas |-> "fuera"]
  /\ programa = {}
  /\ pedidos = [c \in Consolas |-> <<>>] /\ respuestas = [c \in Consolas |-> 0]
  /\ descriptor = [c \in Consolas |-> Nadie]
  /\ proceso = [c \in Consolas |-> "no"]
  /\ socket_consola = [c \in Consolas |-> Nadie]
  /\ bloquear_por_pantalla = 0
  /\ vivo = TRUE /\ bajas = 0

Viva(c) == consola[c] \in {"conectada", "espera"}

-----------------------------------------------------------------------------
(* Consoles *)

\* It connects, and esperar_cliente accepts it: the lowest number that is free.
Conectar(c) ==
  /\ consola[c] = "fuera"
  /\ consola' = [consola EXCEPT ![c] = "conectada"]
  /\ descriptor' =
       [descriptor EXCEPT ![c] = Min(Numeros \ {descriptor[d] : d \in Consolas})]
  /\ UNCHANGED <<mensajes, proceso, socket_consola, bloquear_por_pantalla, vivo, bajas>>

EnviarPrograma(c) ==
  /\ consola[c] = "conectada"
  /\ consola' = [consola EXCEPT ![c] = "espera"]
  /\ programa' = programa \cup {c}
  /\ UNCHANGED <<pedidos, respuestas, kernel, bajas>>

\* IMPRIMIR_VALOR: it prints and answers.
Responder(c) ==
  /\ consola[c] = "espera" /\ pedidos[c] # <<>> /\ Head(pedidos[c]) = "IMPRIMIR_VALOR"
  /\ pedidos' = [pedidos EXCEPT ![c] = Tail(@)]
  /\ respuestas' = [respuestas EXCEPT ![c] = @ + 1]
  /\ UNCHANGED <<consola, programa, kernel, bajas>>

\* Mutant: the case breaks, and the loop goes on.
TerminarSinSalir(c) ==
  /\ consola[c] = "espera" /\ pedidos[c] # <<>> /\ Head(pedidos[c]) = "FINALIZAR_PROCESO"
  /\ pedidos' = [pedidos EXCEPT ![c] = Tail(@)]
  /\ UNCHANGED <<consola, programa, respuestas, kernel, bajas>>

\* FINALIZAR_PROCESO: it exits.
Terminar(c) ==
  /\ consola[c] = "espera" /\ pedidos[c] # <<>> /\ Head(pedidos[c]) = "FINALIZAR_PROCESO"
  /\ consola' = [consola EXCEPT ![c] = "terminada"]
  /\ pedidos' = [pedidos EXCEPT ![c] = <<>>]
  /\ UNCHANGED <<programa, respuestas, kernel, bajas>>

Morir(c) ==
  /\ Viva(c) /\ bajas < MaxBajas
  /\ consola' = [consola EXCEPT ![c] = "terminada"]
  /\ pedidos' = [pedidos EXCEPT ![c] = <<>>]
  /\ bajas' = bajas + 1
  /\ UNCHANGED <<programa, respuestas, kernel>>

-----------------------------------------------------------------------------
(* Kernel *)

\* send on the descriptor of the PCB of p.  A number that was closed is an error
\* nobody looks at; a console that is gone loses the message or, if it has been
\* noticed, costs the kernel a SIGPIPE.
Enviar(p, codigo) ==
  LET duenios == {c \in Consolas : descriptor[c] = socket_consola[p]} IN
  /\ pedidos' = [c \in Consolas |-> IF c \in duenios /\ Viva(c)
                                    THEN Append(pedidos[c], codigo) ELSE pedidos[c]]
  /\ \/ UNCHANGED vivo
     \/ (\E c \in duenios : ~ Viva(c)) /\ vivo' = FALSE

\* conexion_consola: the program arrives.
NuevoProceso(c) ==
  /\ descriptor[c] # Nadie /\ c \in programa
  /\ programa' = programa \ {c}
  /\ proceso' = [proceso EXCEPT ![c] = "activo"]
  /\ socket_consola' = [socket_consola EXCEPT ![c] = descriptor[c]]
  /\ UNCHANGED <<consola, pedidos, respuestas, descriptor, bloquear_por_pantalla, vivo, bajas>>

\* An answer unblocks a process with the descriptor of this thread, or, when there
\* is none, one that is not: index 0.  Some process waits, as each of them is asked
\* for once.
Desbloquear(c) ==
  /\ descriptor[c] # Nadie /\ c \notin programa /\ respuestas[c] > 0
  /\ respuestas' = [respuestas EXCEPT ![c] = @ - 1]
  /\ LET bloqueados == {p \in Consolas : proceso[p] = "bloqueado"}
         suyos == {p \in bloqueados : socket_consola[p] = descriptor[c]}
     IN  \E p \in IF suyos = {} THEN bloqueados ELSE suyos :
           proceso' = [proceso EXCEPT ![p] = "activo"]
  /\ UNCHANGED <<consola, programa, pedidos, descriptor, socket_consola,
                 bloquear_por_pantalla, vivo, bajas>>

\* recibir_operacion closes the descriptor, and the thread ends.
Cerrar(c) ==
  /\ descriptor[c] # Nadie /\ c \notin programa /\ respuestas[c] = 0
  /\ consola[c] = "terminada"
  /\ descriptor' = [descriptor EXCEPT ![c] = Nadie]
  /\ UNCHANGED <<consola, mensajes, proceso, socket_consola, bloquear_por_pantalla, vivo, bajas>>

\* conexion_dispatch.
Bloquear(p) ==
  /\ proceso[p] = "activo"
  /\ proceso' = [proceso EXCEPT ![p] = "bloqueado"]
  /\ bloquear_por_pantalla' = bloquear_por_pantalla + 1
  /\ UNCHANGED <<consola, mensajes, descriptor, socket_consola, vivo, bajas>>

\* Mutant: the console is told as soon as its process stops to run.
SalirAvisando(p) ==
  /\ proceso[p] = "activo"
  /\ proceso' = [proceso EXCEPT ![p] = "exit"]
  /\ Enviar(p, "FINALIZAR_PROCESO")
  /\ UNCHANGED <<consola, programa, respuestas, descriptor, socket_consola,
                 bloquear_por_pantalla, bajas>>

Salir(p) ==
  /\ proceso[p] = "activo"
  /\ proceso' = [proceso EXCEPT ![p] = "exit"]
  /\ UNCHANGED <<consola, mensajes, descriptor, socket_consola, bloquear_por_pantalla, vivo, bajas>>

\* manejador_estado_blocked_screen.
Pedir ==
  /\ bloquear_por_pantalla > 0
  /\ bloquear_por_pantalla' = bloquear_por_pantalla - 1
  /\ \E p \in Consolas : proceso[p] = "bloqueado" /\ Enviar(p, "IMPRIMIR_VALOR")
  /\ UNCHANGED <<consola, programa, respuestas, descriptor, proceso, socket_consola, bajas>>

\* finalizador_procesos.
Finalizar(p) ==
  /\ proceso[p] = "exit"
  /\ proceso' = [proceso EXCEPT ![p] = "fin"]
  /\ Enviar(p, "FINALIZAR_PROCESO")
  /\ UNCHANGED <<consola, programa, respuestas, descriptor, socket_consola,
                 bloquear_por_pantalla, bajas>>

-----------------------------------------------------------------------------

Consola(c) == Conectar(c) \/ EnviarPrograma(c) \/ Responder(c) \/ Terminar(c) \/ Morir(c)

HiloConsola(c) == NuevoProceso(c) \/ Desbloquear(c) \/ Cerrar(c)

Next ==
  /\ vivo
  /\ \/ Pedir
     \/ \E c \in Consolas : Consola(c) \/ HiloConsola(c)
     \/ \E p \in Consolas : Bloquear(p) \/ Salir(p) \/ Finalizar(p)

\* The threads that end a process and the loop of a console go on; nobody has to
\* connect, to die, to block or to end.
Fairness ==
  \A c \in Consolas : /\ WF_vars(vivo /\ Finalizar(c))
                      /\ WF_vars(vivo /\ (Responder(c) \/ Terminar(c)))
                      /\ WF_vars(vivo /\ EnviarPrograma(c))

Spec == Init /\ [][Next]_vars /\ Fairness

-----------------------------------------------------------------------------
(* Properties *)

\* The processes in the kernel whose console is gone.
Huerfanos ==
  {p \in Consolas : proceso[p] \in {"activo", "bloqueado", "exit"} /\ ~ Viva(p)}

\* Each console that dies costs one console to one process, not always its own: the
\* end of an orphan may be told to the console that has inherited its descriptor,
\* whose process is then the orphan.  While none dies no process loses its console,
\* though numbers are reused.
HuerfanosAcotados == Cardinality(Huerfanos) <= bajas

\* A console whose process ended exits, whatever happened to the others, unless the
\* kernel was killed.
FinAvisado ==
  \A c \in Consolas : proceso[c] = "exit" ~> (consola[c] = "terminada" \/ ~ vivo)

=============================================================================
