----------------------------- MODULE Comunicacion -----------------------------
(***************************************************************************)
(* Messages over TCP, shared/src/communication.c: one direction of one     *)
(* connection between two modules of ChamacOS.  Its sender serialises each *)
(* message in one send; TCP delivers the bytes in order but in pieces of   *)
(* any size; its receiver reads field after field with recv, which waits   *)
(* for all of the field when it is given MSG_WAITALL and otherwise returns *)
(* with whatever part of it is there.                                      *)
(*                                                                         *)
(* A field is an integer or a whole list, and TCP may cut it once: of the  *)
(* bytes of a field none, some or all have arrived.                        *)
(***************************************************************************)
EXTENDS Integers, Sequences, SequencesExt

CONSTANT MaxMensajes  \* bound: the messages of a behaviour

ASSUME MensajesAssumption == MaxMensajes \in Nat \ {0}

Conexiones ==
  {"consola_kernel", "kernel_consola", "kernel_memoria", "memoria_kernel",
   "kernel_cpu", "cpu_kernel", "interrupt", "cpu_memoria", "memoria_cpu"}

\* estado_proceso, with which the cpu returns a PCB.
Motivos ==
  {"INTERRUPCION", "BLOQUEAR_PROCESO_IO", "BLOQUEAR_PROCESO_PANTALLA",
   "BLOQUEAR_PROCESO_TECLADO", "PAGE_FAULT", "FINALIZAR_PROCESO", "SEGMENTATION_FAULT"}

\* The op_codes each module sends on each connection.
Codigos(conexion) ==
  CASE conexion = "consola_kernel" ->
         {"LISTA_INSTRUCCIONES_SEGMENTOS", "INPUT_VALOR", "IMPRIMIR_VALOR"}
    [] conexion = "kernel_consola" -> {"IMPRIMIR_VALOR", "INPUT_VALOR", "FINALIZAR_PROCESO"}
    [] conexion = "kernel_memoria" -> {"CREAR_ESTRUCTURAS_ADMIN", "FINALIZAR_PROCESO"}
    [] conexion = "memoria_kernel" ->
         {"ACTUALIZAR_INDICE_TABLA_PAGINAS", "PAGE_FAULT_ATENDIDO"}
    [] conexion = "kernel_cpu"     -> {"PCB"}
    [] conexion = "cpu_kernel"     -> Motivos
    [] conexion = "interrupt"      -> {"INTERRUPCION"}
    [] conexion = "cpu_memoria"    -> {"ESCRIBIR_MEMORIA", "LEER_MEMORIA", "OBTENER_MARCO"}
    [] conexion = "memoria_cpu"    ->
         {"HANDSHAKE_CPU_MEMORIA", "MENSAJE", "LEER_MEMORIA", "OBTENER_MARCO", "PAGE_FAULT"}

VARIABLES
  conexion,    \* which one this is
  enviados,    \* history: the op_codes sent
  stream,      \* the fields sent and not yet read
  llegado,     \* how much of stream has arrived, in halves of a field
  guion,       \* the fields of this message the receiver has still to recv
  leyendo,     \* the op_code of this message
  entregados,  \* history: the op_codes of the messages received
  corta,       \* a recv has returned with a part of its field
  confundido,  \* a recv has returned another field than the one it was for
  cerrado,     \* the sender has gone
  fin          \* recibir_operacion has returned -1

vars == <<conexion, enviados, stream, llegado, guion, leyendo, entregados, corta,
          confundido, cerrado, fin>>

Init ==
  /\ conexion \in Conexiones
  /\ enviados = <<>> /\ entregados = <<>>
  /\ stream = <<>> /\ llegado = 0
  /\ guion = <<>> /\ leyendo = "nada"
  /\ corta = FALSE /\ confundido = FALSE /\ cerrado = FALSE /\ fin = FALSE

-----------------------------------------------------------------------------
(* Senders *)

\* agregar_lista_instrucciones, agregar_tabla_segmentos.
Listas == <<"cantidad_instrucciones", "instrucciones", "cantidad_segmentos", "segmentos">>

\* enviar_PCB.
CamposPCB ==
  <<"pid", "program_counter", "ax", "bx", "cx", "dx">> \o Listas \o <<"socket_consola">>

\* Messages that are an op_code and no more (enviar_codigo_op, enviar_interrupcion).
SoloCodigo ==
  {<<"consola_kernel", "IMPRIMIR_VALOR">>, <<"kernel_consola", "INPUT_VALOR">>,
   <<"kernel_consola", "FINALIZAR_PROCESO">>, <<"memoria_kernel", "PAGE_FAULT_ATENDIDO">>,
   <<"interrupt", "INTERRUPCION">>, <<"memoria_cpu", "PAGE_FAULT">>}

\* Those that carry a PCB.
ConPCB ==
  ({"kernel_memoria", "kernel_cpu", "cpu_kernel"} \X
     UNION {Codigos(c) : c \in {"kernel_memoria", "kernel_cpu", "cpu_kernel"}})
  \cup {<<"memoria_kernel", "ACTUALIZAR_INDICE_TABLA_PAGINAS">>}

\* The stream of any other packet, in the order its sender adds the fields.
Cuerpo(codigo) ==
  CASE codigo = "LISTA_INSTRUCCIONES_SEGMENTOS" -> Listas
    [] codigo = "HANDSHAKE_CPU_MEMORIA" -> <<"tamanio_pagina", "entradas_por_tabla">>
    [] codigo = "MENSAJE" -> <<"texto">>
    [] codigo \in {"INPUT_VALOR", "IMPRIMIR_VALOR"} -> <<"valor">>

CuerpoACpu(codigo) == IF codigo \in {"LEER_MEMORIA", "OBTENER_MARCO"} THEN <<"valor">>
                      ELSE Cuerpo(codigo)

CuerpoAMemoria(codigo) ==
  CASE codigo = "ESCRIBIR_MEMORIA" ->
         <<"pid", "numero_pagina", "marco", "desplazamiento", "indice_tabla", "valor">>
    [] codigo = "LEER_MEMORIA" ->
         <<"pid", "indice_tabla", "numero_pagina", "marco", "desplazamiento">>
    [] codigo = "OBTENER_MARCO" -> <<"pid", "indice_tabla", "numero_pagina">>

\* enviar_paquete: the op_code, the size and the stream, in one send.
Escribe(codigo) ==
  CASE <<conexion, codigo>> \in SoloCodigo -> <<codigo>>
    [] <<conexion, codigo>> \in ConPCB -> <<codigo, "tamanio">> \o CamposPCB
    [] conexion = "cpu_memoria" -> <<codigo, "tamanio">> \o CuerpoAMemoria(codigo)
    [] OTHER -> <<codigo, "tamanio">> \o CuerpoACpu(codigo)

\* memoria's first message to the cpu, and no other, is the handshake.
Enviar(codigo) ==
  /\ ~ cerrado /\ Len(enviados) < MaxMensajes
  /\ codigo = "HANDSHAKE_CPU_MEMORIA" <=> conexion = "memoria_cpu" /\ enviados = <<>>
  /\ enviados' = Append(enviados, codigo)
  /\ stream' = stream \o Escribe(codigo)
  /\ UNCHANGED <<conexion, llegado, guion, leyendo, entregados, corta, confundido, cerrado,
                 fin>>

\* The sender's process ends; what it had sent still arrives.
Cerrar ==
  /\ ~ cerrado /\ cerrado' = TRUE
  /\ UNCHANGED <<conexion, enviados, stream, llegado, guion, leyendo, entregados, corta,
                 confundido, fin>>

\* TCP: a piece of any size is so many of these.
Llegar ==
  /\ llegado < 2 * Len(stream) /\ llegado' = llegado + 1
  /\ UNCHANGED <<conexion, enviados, stream, guion, leyendo, entregados, corta, confundido,
                 cerrado, fin>>

-----------------------------------------------------------------------------
(* Receivers *)

\* recv with MSG_WAITALL, and without.
Entero(campos) == [i \in DOMAIN campos |-> [campo |-> campos[i], waitall |-> TRUE]]
LoQueHaya(campos) == [i \in DOMAIN campos |-> [campo |-> campos[i], waitall |-> FALSE]]

\* Mutant: socket_consola is taken before the lists.
recibir_PCB_desordenado ==
  Entero(<<"tamanio">>)
  \o LoQueHaya(<<"pid", "program_counter", "ax", "bx", "cx", "dx", "socket_consola">> \o Listas)

recibir_PCB == Entero(<<"tamanio">>) \o LoQueHaya(CamposPCB)

recibir_listas ==
  LoQueHaya(<<"tamanio">>) \o Entero(<<"cantidad_instrucciones", "instrucciones">>)
  \o LoQueHaya(<<"cantidad_segmentos", "segmentos">>)

handshake_memoria == LoQueHaya(<<"tamanio", "tamanio_pagina", "entradas_por_tabla">>)

\* Mutant: without MSG_WAITALL.
recibir_buffer_parcial(campos) == LoQueHaya(<<"tamanio">> \o campos)

\* recibir_buffer, and what its caller takes out of the buffer.
recibir_buffer(campos) == Entero(<<"tamanio">> \o campos)

recibir_valor == recibir_buffer(<<"valor">>)

\* What the receiver's switch reads after the op_code.
Lee(codigo) ==
  CASE <<conexion, codigo>> \in SoloCodigo -> <<>>
    [] <<conexion, codigo>> \in ConPCB -> recibir_PCB
    [] conexion = "consola_kernel" /\ codigo = "LISTA_INSTRUCCIONES_SEGMENTOS" -> recibir_listas
    [] conexion = "cpu_memoria" /\ codigo = "ESCRIBIR_MEMORIA" ->
         recibir_buffer(<<"pid", "numero_pagina", "marco", "desplazamiento", "indice_tabla",
                          "valor">>)
    [] conexion = "cpu_memoria" /\ codigo = "LEER_MEMORIA" ->
         recibir_buffer(<<"pid", "indice_tabla", "numero_pagina", "marco", "desplazamiento">>)
    [] conexion = "cpu_memoria" /\ codigo = "OBTENER_MARCO" ->
         recibir_buffer(<<"pid", "indice_tabla", "numero_pagina">>)
    [] codigo = "HANDSHAKE_CPU_MEMORIA" -> handshake_memoria
    [] codigo = "MENSAJE" -> recibir_buffer(<<"texto">>)
    [] OTHER -> recibir_valor

Sano == ~ corta /\ ~ confundido /\ ~ fin

\* recibir_operacion.
RecibirOperacion ==
  /\ Sano /\ leyendo = "nada"
  /\ llegado >= 2
  /\ stream' = Tail(stream) /\ llegado' = llegado - 2
  /\ IF Head(stream) \in Codigos(conexion)
     THEN /\ guion' = Lee(Head(stream)) /\ UNCHANGED confundido
          /\ IF Lee(Head(stream)) = <<>>
             THEN entregados' = Append(entregados, Head(stream)) /\ UNCHANGED leyendo
             ELSE leyendo' = Head(stream) /\ UNCHANGED entregados
     ELSE confundido' = TRUE /\ UNCHANGED <<guion, leyendo, entregados>>
  /\ UNCHANGED <<conexion, enviados, corta, cerrado, fin>>

\* It returns -1 when the sender has gone and nothing is left.
RecibirFin ==
  /\ Sano /\ leyendo = "nada" /\ cerrado /\ stream = <<>>
  /\ fin' = TRUE
  /\ UNCHANGED <<conexion, enviados, stream, llegado, guion, leyendo, entregados, corta,
                 confundido, cerrado>>

\* The last field completes the message.
Entregar ==
  IF Len(guion) = 1
  THEN entregados' = Append(entregados, leyendo) /\ leyendo' = "nada"
  ELSE UNCHANGED <<entregados, leyendo>>

\* The next recv of a message.
RecibirCampo ==
  /\ Sano /\ leyendo # "nada"
  /\ IF llegado >= 2
     THEN /\ stream' = Tail(stream) /\ llegado' = llegado - 2
          /\ confundido' = (Head(stream) # Head(guion).campo)
          /\ guion' = Tail(guion)
          /\ Entregar
          /\ UNCHANGED corta
     ELSE /\ llegado = 1 /\ ~ Head(guion).waitall
          /\ corta' = TRUE
          /\ UNCHANGED <<stream, llegado, guion, leyendo, entregados, confundido>>
  /\ UNCHANGED <<conexion, enviados, cerrado, fin>>

Next ==
  \/ \E codigo \in Codigos(conexion) : Enviar(codigo)
  \/ Cerrar \/ Llegar \/ RecibirOperacion \/ RecibirFin \/ RecibirCampo

\* TCP delivers and the receiver goes on reading; nobody has to send.
Fairness == WF_vars(Llegar) /\ WF_vars(RecibirOperacion) /\ WF_vars(RecibirCampo)

Spec == Init /\ [][Next]_vars /\ Fairness

-----------------------------------------------------------------------------
(* Properties *)

\* Unless a recv was cut short, what arrives is what was sent: every recv gets the
\* field it was written for, a message is left with nothing of it unread, the messages
\* are received in order and whole, and the end of the connection is seen only when
\* none is missing.
Fiel ==
  /\ ~ confundido
  /\ leyendo = "nada" <=> guion = <<>>
  /\ IsPrefix(entregados, enviados)
  /\ fin => entregados = enviados

\* Every message is received, unless one was cut short, which only a PCB, the lists
\* of a console and the handshake of memoria can be: the others are received
\* whatever TCP does with them.
TodoSeRecibe ==
  \A n \in 1 .. MaxMensajes :
    Len(enviados) >= n ~>
      \/ Len(entregados) >= n
      \/ corta /\ (\/ <<conexion, leyendo>> \in ConPCB
                  \/ leyendo = "LISTA_INSTRUCCIONES_SEGMENTOS"
                  \/ leyendo = "HANDSHAKE_CPU_MEMORIA")

=============================================================================
