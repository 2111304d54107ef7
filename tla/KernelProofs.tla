---------------------------- MODULE KernelProofs ----------------------------
(***************************************************************************)
(* What TLAPS proves of Kernel, for any processes, devices, programs,      *)
(* degree of multiprogramming and algorithm: the types and the semaphores, *)
(* where the PCBs are and the refinement of CicloDeVida, the blocked       *)
(* processes, and what would kill the kernel.                              *)
(***************************************************************************)
EXTENDS Kernel, Conteo, SequenceTheorems

-----------------------------------------------------------------------------
(* The operations on semaphores and places *)

LEMMA SincronizarTipo ==
  ASSUME sem \in [Semaforos -> Nat], NEW W, NEW P, Sincronizar(W, P)
  PROVE  sem' \in [Semaforos -> Nat]
BY DEF Sincronizar

\* RemoveAt keeps every element but one, in order.
LEMMA QuitarPosicion ==
  ASSUME NEW S, NEW s \in Seq(S), NEW i \in DOMAIN s
  PROVE  /\ RemoveAt(s, i) \in Seq(S)
         /\ Len(RemoveAt(s, i)) = Len(s) - 1
         /\ \A j \in 1 .. Len(s) - 1 :
              RemoveAt(s, i)[j] = IF j < i THEN s[j] ELSE s[j + 1]
<1> DEFINE a == SubSeq(s, 1, i - 1)
           b == SubSeq(s, i + 1, Len(s))
<1>1. i \in 1 .. Len(s) /\ Len(s) \in Nat
  OBVIOUS
<1>2. a \in Seq(S) /\ Len(a) = i - 1 /\ \A j \in 1 .. i - 1 : a[j] = s[j]
  BY <1>1, SubSeqProperties
<1>3. b \in Seq(S) /\ Len(b) = Len(s) - i
      /\ \A j \in 1 .. Len(s) - i : b[j] = s[i + j]
  BY <1>1, SubSeqProperties
<1>4. RemoveAt(s, i) = a \o b
  BY DEF RemoveAt
<1> HIDE DEF a, b
<1>5. QED
  BY <1>1, <1>2, <1>3, <1>4, ConcatProperties, SMTT(30)

\* The places that Mover leaves, when it does not find the kernel dead.
LEMMA MoverEfecto ==
  ASSUME cola \in [Lugares -> Seq(Procesos)],
         NEW W, NEW P, NEW c \in Lugares, NEW e \in Lugares, NEW i,
         c # e, i \in DOMAIN cola[c], Mover(W, c, i, e, P)
  PROVE  /\ cola' \in [Lugares -> Seq(Procesos)]
         /\ cola'[c] = RemoveAt(cola[c], i)
         /\ cola'[e] = Append(cola[e], cola[c][i])
         /\ \A x \in Lugares \ {c, e} : cola'[x] = cola[x]
         /\ Sincronizar(W, P)
         /\ vivo' = vivo
<1>1. cola' = [cola EXCEPT ![c] = RemoveAt(cola[c], i),
                           ![e] = Append(cola[e], cola[c][i])]
      /\ Sincronizar(W, P) /\ vivo' = vivo
  BY DEF Mover
<1>2. RemoveAt(cola[c], i) \in Seq(Procesos)
  BY QuitarPosicion
<1>3. Append(cola[e], cola[c][i]) \in Seq(Procesos)
  <2>1. cola[c][i] \in Procesos
    BY ElementOfSeq
  <2>2. QED
    BY <2>1, AppendProperties
<1>4. QED
  BY <1>1, <1>2, <1>3

LEMMA MoverTipo ==
  ASSUME cola \in [Lugares -> Seq(Procesos)], sem \in [Semaforos -> Nat],
         vivo \in BOOLEAN,
         NEW W, NEW P, NEW c \in Lugares, NEW e \in Lugares, NEW i,
         c # e, Mover(W, c, i, e, P)
  PROVE  /\ cola' \in [Lugares -> Seq(Procesos)]
         /\ sem' \in [Semaforos -> Nat]
         /\ vivo' \in BOOLEAN
<1>1. CASE i \in DOMAIN cola[c]
  BY <1>1, MoverEfecto, SincronizarTipo
<1>2. CASE i \notin DOMAIN cola[c]
  BY <1>2 DEF Mover
<1>3. QED
  BY <1>1, <1>2

-----------------------------------------------------------------------------
(* Type correctness *)

\* The name of a place, a semaphore or an operation code is one of the listed.
LEMMA Nombres ==
  /\ Colas \subseteq Lugares /\ Dispositivos \subseteq Lugares
  /\ SemaforosSincro \subseteq Semaforos /\ Dispositivos \subseteq Semaforos
  /\ \A h : Lista(h) \in {"blocked_screen_list", "blocked_keyboard_list"}
  /\ \A h : SemaforoDe(h) \in {"bloquear_por_pantalla", "bloquear_por_teclado"}
  /\ \A m : ColaReady(m) \in {"ready1_list", "ready2_list"}
  /\ Dispositivos \cap Colas = {}
BY DispositivosAssumption DEF Lugares, Semaforos, Lista, SemaforoDe, ColaReady

LEMMA RespuestaTipo ==
  \A ins : Respuesta(ins) \in CodigosCpu
BY DEF Respuesta, CodigosCpu

LEMMA TipoInicial == Init => TypeOK
<1> SUFFICES ASSUME Init PROVE TypeOK
  OBVIOUS
<1>1. sem \in [Semaforos -> Nat]
  BY GradoAssumption DEF Init
<1>2. cola \in [Lugares -> Seq(Procesos)]
  BY DEF Init
<1>3. conexion \in [Procesos ->
        [paso    : {"recv", "buscar", "quitar", "colgada", "terminada"},
         lista   : Perifericos \cup {Nadie},
         indice  : Nat,
         cuantos : Nat]]
  BY DEF Init, EnRecv
<1>4. /\ lista_instrucciones \in [Procesos -> Programas \cup {<<>>}]
      /\ pc \in [Procesos -> Nat]
      /\ estado_proceso \in CodigosCpu
      /\ presente \subseteq Procesos
      /\ pendientes \in Seq(Procesos)
  BY DEF Init, CodigosCpu
<1>8. mensajes \in Seq(CodigosMemoria)
  BY DEF Init
<1>5. /\ con_mutex \subseteq Dispositivos \cup Perifericos
      /\ mostrando \subseteq Hilos /\ acortadas \subseteq mostrando
      /\ ultimo \in [Perifericos -> Nat]
      /\ elegido \in [Perifericos -> Procesos \cup {Nadie}]
      /\ consola \in [Procesos -> {"conectada", "esperando", "cerrada"}]
      /\ dispatch_colgado \in BOOLEAN /\ vivo \in BOOLEAN /\ fin \subseteq Procesos
  BY DEF Init
<1>6. /\ a_consola \in [Procesos -> Seq(Perifericos \cup {"FIN"})]
      /\ de_consola \in [Procesos -> Seq(Perifericos)]
  BY DEF Init
<1>7. QED
  BY <1>1, <1>2, <1>3, <1>4, <1>5, <1>6, <1>8 DEF TypeOK

\* Every action that is a Mover between two places keeps the type of what it
\* moves; what is left is one line per action.
LEMMA TipoMover ==
  ASSUME TypeOK, NEW W, NEW P, NEW c \in Lugares, NEW e \in Lugares, NEW i,
         c # e, Mover(W, c, i, e, P)
  PROVE  /\ cola' \in [Lugares -> Seq(Procesos)]
         /\ sem' \in [Semaforos -> Nat]
         /\ vivo' \in BOOLEAN
BY MoverTipo DEF TypeOK

\* agregar_a_ready keeps the types too, and its caller is one of the threads.
LEMMA AgregarTipo ==
  ASSUME TypeOK, NEW t \in Hilos, NEW W, NEW c \in Lugares, NEW i, NEW motivo,
         c \notin {"ready1_list", "ready2_list"}, AgregarAReady(t, W, c, i, motivo)
  PROVE  /\ cola' \in [Lugares -> Seq(Procesos)]
         /\ sem' \in [Semaforos -> Nat]
         /\ vivo' \in BOOLEAN
         /\ mostrando' \subseteq Hilos /\ acortadas' \subseteq mostrando'
<1>1. ColaReady(motivo) \in Lugares /\ c # ColaReady(motivo)
  BY Nombres DEF Colas
<1>2. mostrando' \subseteq Hilos /\ acortadas' \subseteq mostrando'
  BY DEF TypeOK, AgregarAReady
<1> QED
  BY <1>1, <1>2, TipoMover DEF AgregarAReady

\* What the thread of a console is doing.
Conexiones == [paso    : {"recv", "buscar", "quitar", "colgada", "terminada"},
               lista   : Perifericos \cup {Nadie},
               indice  : Nat,
               cuantos : Nat]

LEMMA ConexionesCambiadas ==
  /\ \A c \in Conexiones, paso \in {"quitar", "terminada"} :
       [c EXCEPT !.paso = paso] \in Conexiones
  /\ \A c \in Conexiones, i \in Nat : [c EXCEPT !.indice = i] \in Conexiones
BY DEF Conexiones

LEMMA ConexionTipo ==
  ASSUME TypeOK, NEW p \in Procesos,
         AtenderConsola(p) \/ BuscarIndice(p) \/ CerrarConexion(p)
  PROVE  conexion' \in [Procesos -> Conexiones]
<1>1. conexion \in [Procesos -> Conexiones]
  BY DEF TypeOK, Conexiones
<1>2. conexion[p] \in Conexiones /\ conexion[p].indice \in Nat
  BY <1>1 DEF Conexiones
<1>3. SUFFICES \/ conexion' = conexion
               \/ \E c \in Conexiones : conexion' = [conexion EXCEPT ![p] = c]
  BY <1>1
<1>4. CASE AtenderConsola(p)
  <2>1. Head(de_consola[p]) \in Perifericos
    BY <1>4, HeadTailProperties DEF AtenderConsola, TypeOK
  <2>2. cola[Lista(Head(de_consola[p]))] \in Seq(Procesos)
    BY Nombres DEF Colas, TypeOK
  <2>3. Len(cola[Lista(Head(de_consola[p]))]) \in Nat
    BY <2>2, LenProperties
  <2> QED
    BY <1>4, <2>1, <2>3 DEF AtenderConsola, Conexiones
<1>5. CASE BuscarIndice(p)
  <2>1. conexion[p].indice + 1 \in Nat /\ 1 \in Nat
    BY <1>2
  <2>2. /\ [conexion[p] EXCEPT !.paso = "quitar"] \in Conexiones
        /\ [conexion[p] EXCEPT !.indice = @ + 1] \in Conexiones
    BY <1>2, <2>1, ConexionesCambiadas
  <2>3. [conexion[p] EXCEPT !.paso = "quitar", !.indice = 1] \in Conexiones
    BY <2>1, <2>2, ConexionesCambiadas
  <2> QED
    BY <1>5, <2>2, <2>3 DEF BuscarIndice
<1>6. CASE CerrarConexion(p)
  <2>1. [conexion[p] EXCEPT !.paso = "terminada"] \in Conexiones
    BY <1>2, ConexionesCambiadas
  <2>2. conexion' = [conexion EXCEPT ![p] = [conexion[p] EXCEPT !.paso = "terminada"]]
    BY <1>6 DEF CerrarConexion
  <2> QED
    BY <2>1, <2>2
<1> QED
  BY <1>4, <1>5, <1>6

LEMMA TipoPaso == TypeOK /\ Next => TypeOK'
<1> SUFFICES ASSUME TypeOK, Next PROVE TypeOK'
  OBVIOUS
<1> USE DEF TypeOK, pcbs, memoria, recorrido, manejadores, consolas
<1>1. CASE AdmitirProceso
  <2>1. cola' \in [Lugares -> Seq(Procesos)] /\ sem' \in [Semaforos -> Nat]
        /\ vivo' \in BOOLEAN
    BY <1>1, TipoMover, Nombres DEF AdmitirProceso, Colas
  <2>3. QED
    BY <1>1, <2>1 DEF AdmitirProceso
<1>2. CASE CrearEstructuras
  <2>1. cola' \in [Lugares -> Seq(Procesos)] /\ sem' \in [Semaforos -> Nat]
        /\ vivo' \in BOOLEAN
    BY <1>2, TipoMover, Nombres DEF CrearEstructuras, Colas
  <2>2. mensajes' \in Seq(CodigosMemoria)
    BY <1>2, AppendProperties DEF CrearEstructuras, CodigosMemoria
  <2>3. QED
    BY <1>2, <2>1, <2>2 DEF CrearEstructuras
<1>3. CASE IndiceActualizado
  <2>1. cola' \in [Lugares -> Seq(Procesos)] /\ sem' \in [Semaforos -> Nat]
        /\ vivo' \in BOOLEAN
        /\ mostrando' \subseteq Hilos /\ acortadas' \subseteq mostrando'
    <3>1. /\ "de_memoria" \in Lugares /\ "conexion_memoria" \in Hilos
          /\ "de_memoria" \notin {"ready1_list", "ready2_list"}
      BY Nombres, DispositivosAssumption DEF Hilos, HilosSincro, Colas
    <3> QED
      BY <1>3, <3>1, AgregarTipo DEF IndiceActualizado
  <2>2. mensajes' \in Seq(CodigosMemoria)
    BY <1>3, HeadTailProperties DEF IndiceActualizado, Recibir
  <2>3. QED
    BY <1>3, <2>1, <2>2 DEF IndiceActualizado, Recibir
<1>4. CASE ElegirListo
  <2>1. cola' \in [Lugares -> Seq(Procesos)] /\ sem' \in [Semaforos -> Nat]
        /\ vivo' \in BOOLEAN
    BY <1>4, TipoMover, Nombres DEF ElegirListo, Colas
  <2>3. QED
    BY <1>4, <2>1 DEF ElegirListo
<1>5. CASE EnviarACpu
  <2>1. cola' \in [Lugares -> Seq(Procesos)] /\ sem' \in [Semaforos -> Nat]
        /\ vivo' \in BOOLEAN
    BY <1>5, TipoMover, Nombres DEF EnviarACpu, Colas
  <2>3. QED
    BY <1>5, <2>1 DEF EnviarACpu
<1>6. CASE DesalojarPorQuantum
  <2>1. cola' \in [Lugares -> Seq(Procesos)] /\ sem' \in [Semaforos -> Nat]
        /\ vivo' \in BOOLEAN
        /\ mostrando' \subseteq Hilos /\ acortadas' \subseteq mostrando'
    <3>1. /\ "cpu" \in Lugares /\ "conexion_dispatch" \in Hilos
          /\ "cpu" \notin {"ready1_list", "ready2_list"}
      BY Nombres, DispositivosAssumption DEF Hilos, HilosSincro, Colas
    <3> QED
      BY <1>6, <3>1, AgregarTipo DEF DesalojarPorQuantum
  <2>3. QED
    BY <1>6, <2>1 DEF DesalojarPorQuantum, CodigosCpu
<1>7. CASE BloquearPorPageFault
  <2>1. cola' \in [Lugares -> Seq(Procesos)] /\ sem' \in [Semaforos -> Nat]
        /\ vivo' \in BOOLEAN
    BY <1>7, TipoMover, Nombres DEF BloquearPorPageFault, Colas, Archivar
  <2>3. QED
    BY <1>7, <2>1 DEF BloquearPorPageFault, Archivar, CodigosCpu
<1>8. CASE TerminarProceso
  <2>1. cola' \in [Lugares -> Seq(Procesos)] /\ sem' \in [Semaforos -> Nat]
        /\ vivo' \in BOOLEAN
    BY <1>8, TipoMover, Nombres DEF TerminarProceso, Colas, Archivar
  <2>3. QED
    BY <1>8, <2>1 DEF TerminarProceso, Archivar, CodigosCpu
<1>9. CASE DesbloquearPageFault
  <2>1. cola' \in [Lugares -> Seq(Procesos)] /\ sem' \in [Semaforos -> Nat]
        /\ vivo' \in BOOLEAN
        /\ mostrando' \subseteq Hilos /\ acortadas' \subseteq mostrando'
    <3>1. /\ "blocked_page_fault_queue" \in Lugares
          /\ "blocked_page_fault_thread" \in Hilos
          /\ "blocked_page_fault_queue" \notin {"ready1_list", "ready2_list"}
      BY Nombres, DispositivosAssumption DEF Hilos, HilosSincro, Colas
    <3> QED
      BY <1>9, <3>1, AgregarTipo DEF DesbloquearPageFault
  <2>3. QED
    BY <1>9, <2>1 DEF DesbloquearPageFault
<1>10. ASSUME NEW d \in Dispositivos, BloquearPorIO(d) PROVE TypeOK'
  <2>1. cola' \in [Lugares -> Seq(Procesos)] /\ sem' \in [Semaforos -> Nat]
        /\ vivo' \in BOOLEAN
    BY <1>10, TipoMover, Nombres DEF BloquearPorIO, Archivar, Colas
  <2>2. QED
    BY <1>10, <2>1 DEF BloquearPorIO, Archivar, CodigosCpu
<1>11. ASSUME NEW h \in Perifericos, BloquearPorPeriferico(h) PROVE TypeOK'
  <2>1. cola' \in [Lugares -> Seq(Procesos)] /\ sem' \in [Semaforos -> Nat]
        /\ vivo' \in BOOLEAN
    BY <1>11, TipoMover, Nombres DEF BloquearPorPeriferico, Archivar, Colas
  <2>2. QED
    BY <1>11, <2>1 DEF BloquearPorPeriferico, Archivar, CodigosCpu
<1>12. ASSUME NEW d \in Dispositivos, AtenderEnDispositivo(d) PROVE TypeOK'
  <2>1. cola' \in [Lugares -> Seq(Procesos)] /\ sem' \in [Semaforos -> Nat]
        /\ vivo' \in BOOLEAN
    BY <1>12, TipoMover, Nombres DEF AtenderEnDispositivo, Colas
  <2>2. QED
    BY <1>12, <2>1 DEF AtenderEnDispositivo
<1>13. ASSUME NEW d \in Dispositivos, TerminarIO(d) PROVE TypeOK'
  <2>1. cola' \in [Lugares -> Seq(Procesos)] /\ sem' \in [Semaforos -> Nat]
        /\ vivo' \in BOOLEAN
        /\ mostrando' \subseteq Hilos /\ acortadas' \subseteq mostrando'
    <3>1. /\ d \in Lugares /\ d \in Hilos
          /\ d \notin {"ready1_list", "ready2_list"}
      BY Nombres, DispositivosAssumption DEF Hilos, HilosSincro, Colas
    <3> QED
      BY <1>13, <3>1, AgregarTipo DEF TerminarIO
  <2>2. QED
    BY <1>13, <2>1 DEF TerminarIO
<1>14. ASSUME NEW p \in Procesos, Desbloquear(p) PROVE TypeOK'
  <2>1. cola' \in [Lugares -> Seq(Procesos)] /\ sem' \in [Semaforos -> Nat]
        /\ vivo' \in BOOLEAN
        /\ mostrando' \subseteq Hilos /\ acortadas' \subseteq mostrando'
    <3>1. /\ Lista(conexion[p].lista) \in Lugares /\ p \in Hilos
          /\ Lista(conexion[p].lista) \notin {"ready1_list", "ready2_list"}
      BY Nombres, DispositivosAssumption DEF Hilos, HilosSincro, Colas
    <3> QED
      BY <1>14, <3>1, AgregarTipo DEF Desbloquear
  <2>2. QED
    BY <1>14, <2>1 DEF Desbloquear, EnRecv
<1>15. CASE ColgarDispatch
  BY <1>15 DEF ColgarDispatch
<1>16. CASE AtenderPageFault
  <2>1. pendientes' \in Seq(Procesos) /\ Head(pendientes) \in Procesos
    BY <1>16, HeadTailProperties DEF AtenderPageFault
  <2>2. mensajes' \in Seq(CodigosMemoria)
    BY <1>16, AppendProperties DEF AtenderPageFault, CodigosMemoria
  <2>3. QED
    BY <1>16, <2>1, <2>2 DEF AtenderPageFault
<1>17. CASE PageFaultAtendido
  <2>1. mensajes' \in Seq(CodigosMemoria)
    BY <1>17, HeadTailProperties DEF PageFaultAtendido, Recibir
  <2>2. sem' \in [Semaforos -> Nat]
    BY <1>17, SincronizarTipo DEF PageFaultAtendido
  <2>3. QED
    BY <1>17, <2>1, <2>2 DEF PageFaultAtendido
<1>18. ASSUME NEW d \in Dispositivos, TomarMutexIO(d) PROVE TypeOK'
  <2>1. sem' \in [Semaforos -> Nat]
    BY <1>18, SincronizarTipo DEF TomarMutexIO
  <2>2. QED
    BY <1>18, <2>1 DEF TomarMutexIO
<1>19. ASSUME NEW h \in Perifericos, TomarMutex(h) PROVE TypeOK'
  <2>1. sem' \in [Semaforos -> Nat]
    BY <1>19, SincronizarTipo DEF TomarMutex
  <2>2. Len(cola[Lista(h)]) \in Nat
    BY Nombres, LenProperties DEF Colas
  <2>3. QED
    BY <1>19, <2>1, <2>2 DEF TomarMutex
<1>20. ASSUME NEW h \in Perifericos, LeerUltimo(h) PROVE TypeOK'
  <2>1. cola[Lista(h)] \in Seq(Procesos)
    BY Nombres DEF Colas
  <2>2. elegido' \in [Perifericos -> Procesos \cup {Nadie}] /\ vivo' \in BOOLEAN
    <3>1. CASE ultimo[h] \in DOMAIN cola[Lista(h)]
      <4>1. cola[Lista(h)][ultimo[h]] \in Procesos
        BY <2>1, <3>1, ElementOfSeq
      <4> QED
        BY <1>20, <3>1, <4>1 DEF LeerUltimo
    <3>2. CASE ultimo[h] \notin DOMAIN cola[Lista(h)]
      BY <1>20, <3>2 DEF LeerUltimo
    <3> QED
      BY <3>1, <3>2
  <2> QED
    BY <1>20, <2>2 DEF LeerUltimo
<1>21. ASSUME NEW h \in Perifericos, PedirAConsola(h) PROVE TypeOK'
  <2>1. elegido[h] \in Procesos
    BY <1>21 DEF PedirAConsola
  <2>2. Append(a_consola[elegido[h]], h) \in Seq(Perifericos \cup {"FIN"})
    BY <2>1, AppendProperties
  <2>3. CASE a_consola' = [a_consola EXCEPT ![elegido[h]] = Append(@, h)] /\ vivo' = vivo
    <3>1. a_consola' \in [Procesos -> Seq(Perifericos \cup {"FIN"})]
      BY <2>1, <2>2, <2>3
    <3> QED
      BY <1>21, <2>3, <3>1 DEF PedirAConsola
  <2>4. CASE a_consola' = a_consola /\ vivo' \in BOOLEAN
    BY <1>21, <2>4 DEF PedirAConsola
  <2> QED
    BY <1>21, <2>3, <2>4 DEF PedirAConsola
<1>22. ASSUME NEW p \in Procesos, NuevoProceso(p) PROVE TypeOK'
  <2>1. cola' \in [Lugares -> Seq(Procesos)]
    BY <1>22, Nombres, AppendProperties DEF NuevoProceso, Colas
  <2>2. sem' \in [Semaforos -> Nat]
    BY <1>22, SincronizarTipo DEF NuevoProceso
  <2>3. QED
    BY <1>22, <2>1, <2>2, SMTT(30) DEF NuevoProceso
<1>23. CASE Finalizar
  <2>1. "exit_queue" \in Lugares
    BY Nombres DEF Colas
  <2>2. CASE cola["exit_queue"] = <<>>
    BY <1>23, <2>2 DEF Finalizar
  <2>3. CASE cola["exit_queue"] # <<>>
    <3>1. /\ Head(cola["exit_queue"]) \in Procesos
          /\ Tail(cola["exit_queue"]) \in Seq(Procesos)
      BY <2>1, <2>3, HeadTailProperties
    <3>2. sem' \in [Semaforos -> Nat]
      BY <1>23, <2>3, SincronizarTipo DEF Finalizar
    <3>3. cola' \in [Lugares -> Seq(Procesos)]
      BY <1>23, <2>3, <3>1 DEF Finalizar
    <3>6. Append(a_consola[Head(cola["exit_queue"])], "FIN")
            \in Seq(Perifericos \cup {"FIN"})
      BY <3>1, AppendProperties
    <3>4. a_consola' \in [Procesos -> Seq(Perifericos \cup {"FIN"})]
      BY <1>23, <2>3, <3>1, <3>6 DEF Finalizar
    <3>5. QED
      BY <1>23, <2>3, <3>1, <3>2, <3>3, <3>4 DEF Finalizar
  <2>4. QED
    BY <2>2, <2>3
<1>24. ASSUME NEW p \in Procesos, EjecutarYSeguir(p) PROVE TypeOK'
  <2>1. presente' \subseteq Procesos
    BY <1>24 DEF EjecutarYSeguir
  <2>2. pc' \in [Procesos -> Nat]
    BY <1>24 DEF EjecutarYSeguir
  <2>3. estado_proceso' \in CodigosCpu
    BY <1>24 DEF EjecutarYSeguir, CodigosCpu
  <2>4. QED
    BY <1>24, <2>1, <2>2, <2>3 DEF EjecutarYSeguir
<1>25. ASSUME NEW p \in Procesos, EjecutarPageFault(p) PROVE TypeOK'
  <2>1. pendientes' \in Seq(Procesos)
    BY <1>25, AppendProperties DEF EjecutarPageFault
  <2>2. QED
    BY <1>25, <2>1 DEF EjecutarPageFault, CodigosCpu
<1>26. ASSUME NEW p \in Procesos, EjecutarYParar(p) PROVE TypeOK'
  <2>1. estado_proceso' \in CodigosCpu
    BY <1>26, RespuestaTipo DEF EjecutarYParar
  <2>2. pc' \in [Procesos -> Nat]
    BY <1>26 DEF EjecutarYParar
  <2>3. QED
    BY <1>26, <2>1, <2>2 DEF EjecutarYParar
<1>27. ASSUME NEW p \in Procesos, ConsolaResponde(p) PROVE TypeOK'
  <2>1. a_consola' \in [Procesos -> Seq(Perifericos \cup {"FIN"})]
    BY <1>27, HeadTailProperties DEF ConsolaResponde
  <2>2. de_consola' \in [Procesos -> Seq(Perifericos)]
    BY <1>27, AppendProperties DEF ConsolaResponde
  <2>3. QED
    BY <1>27, <2>1, <2>2 DEF ConsolaResponde
<1>28. ASSUME NEW p \in Procesos, ConsolaTermina(p) PROVE TypeOK'
  <2>1. a_consola' \in [Procesos -> Seq(Perifericos \cup {"FIN"})]
    BY <1>28, HeadTailProperties DEF ConsolaTermina
  <2>2. QED
    BY <1>28, <2>1 DEF ConsolaTermina
<1>29. ASSUME NEW p \in Procesos, BuscarIndice(p) PROVE TypeOK'
  <2>1. conexion' \in [Procesos -> Conexiones]
    BY <1>29, ConexionTipo
  <2>2. vivo' \in BOOLEAN
    BY <1>29 DEF BuscarIndice
  <2> QED
    BY <1>29, <2>1, <2>2 DEF BuscarIndice, Conexiones
<1>30. ASSUME NEW p \in Procesos, AtenderConsola(p) PROVE TypeOK'
  <2>1. conexion' \in [Procesos -> Conexiones]
    BY <1>30, ConexionTipo
  <2>2. de_consola' \in [Procesos -> Seq(Perifericos)]
    BY <1>30, HeadTailProperties DEF AtenderConsola
  <2> QED
    BY <1>30, <2>1, <2>2 DEF AtenderConsola, Conexiones
<1>31. ASSUME NEW p \in Procesos, CerrarConexion(p) PROVE TypeOK'
  <2>1. conexion' \in [Procesos -> Conexiones]
    BY <1>31, ConexionTipo
  <2>2. elegido' \in [Perifericos -> Procesos \cup {Nadie}]
    BY <1>31 DEF CerrarConexion
  <2> QED
    BY <1>31, <2>1, <2>2 DEF CerrarConexion, Conexiones
<1>32. ASSUME NEW t \in Hilos, TerminarDeMostrar(t) PROVE TypeOK'
  <2>1. sem' \in [Semaforos -> Nat]
    BY <1>32, SincronizarTipo DEF TerminarDeMostrar
  <2>2. /\ mostrando' \subseteq Hilos /\ acortadas' \subseteq mostrando'
        /\ vivo' \in BOOLEAN
    BY <1>32 DEF TerminarDeMostrar
  <2> QED
    BY <1>32, <2>1, <2>2 DEF TerminarDeMostrar
<1>33. QED
  BY <1>1, <1>2, <1>3, <1>4, <1>5, <1>6, <1>7, <1>8, <1>9, <1>10, <1>11, <1>12,
     <1>13, <1>14, <1>15, <1>16, <1>17, <1>18, <1>19, <1>20, <1>21, <1>22, <1>23,
     <1>24, <1>25, <1>26, <1>27, <1>28, <1>29, <1>30, <1>31, <1>32
     DEF Next, Dispatch, Cpu, HiloMemoria, HiloPageFault, HiloDispositivo, Manejador,
         Consola, HiloConsola, Hilos, HilosSincro

\* Whatever the threads do, every queue holds processes, every semaphore is a
\* natural number, every message one the receiver understands.
THEOREM TipoCorrecto == Spec => []TypeOK
<1>1. TypeOK /\ UNCHANGED vars => TypeOK'
  BY DEF TypeOK, vars, pcbs, memoria, recorrido, manejadores, consolas
<1>2. QED
  BY TipoInicial, TipoPaso, <1>1, PTL DEF Spec

-----------------------------------------------------------------------------
(* Semaphores count their queues *)

\* 1 if x is one of S, 0 otherwise.
Cuenta(x, S) == IF x \in S THEN 1 ELSE 0

\* What each semaphore will have when the threads in the loops of agregar_a_ready
\* have come to their sem_post.
prometido ==
  [s \in Semaforos |->
     IF s = "pcbs_en_ready" THEN sem[s] + Cardinality(mostrando)
     ELSE IF s = "cpu_libre" THEN sem[s] + Cuenta("conexion_dispatch", mostrando)
     ELSE sem[s]]

LEMMA MostrandoFinito ==
  ASSUME TypeOK, NEW t \in Hilos
  PROVE  /\ IsFiniteSet(mostrando) /\ Cardinality(mostrando) \in Nat
         /\ t \notin mostrando => Cardinality(mostrando \cup {t}) = Cardinality(mostrando) + 1
         /\ t \in mostrando => Cardinality(mostrando \ {t}) = Cardinality(mostrando) - 1
<1>1. IsFiniteSet(HilosSincro)
  <2>1. IsFiniteSet({"conexion_memoria"} \cup {"conexion_dispatch"})
    BY FS_Singleton, FS_Union
  <2>2. IsFiniteSet(({"conexion_memoria"} \cup {"conexion_dispatch"})
                    \cup {"blocked_page_fault_thread"})
    BY <2>1, FS_Singleton, FS_Union
  <2>3. ({"conexion_memoria"} \cup {"conexion_dispatch"}) \cup {"blocked_page_fault_thread"}
          = HilosSincro
    BY DEF HilosSincro
  <2> QED
    BY <2>2, <2>3
<1>2. IsFiniteSet(Hilos)
  BY <1>1, ProcesosAssumption, HilosAssumption, FS_Union DEF Hilos
<1>3. IsFiniteSet(mostrando)
  BY <1>2, FS_Subset DEF TypeOK
<1> QED
  BY <1>3, FS_CardinalityType, FS_AddElement, FS_RemoveElement

LEMMA PrometidoTipo ==
  ASSUME TypeOK PROVE prometido \in [Semaforos -> Nat]
<1>1. "conexion_memoria" \in Hilos
  BY DEF Hilos, HilosSincro
<1>2. Cardinality(mostrando) \in Nat
  BY <1>1, MostrandoFinito
<1>3. \A s \in Semaforos : prometido[s] \in Nat
  BY <1>2 DEF TypeOK, prometido, Cuenta
<1> QED
  BY <1>3 DEF prometido

\* What a Mover does to the lengths and the semaphores, when it does something.
Traslado(W, c, e, P) ==
  \/ cola' = cola /\ prometido' = prometido
  \/ /\ \A x \in Lugares :
          Len(cola'[x]) = Len(cola[x]) + Cuenta(x, {e}) - Cuenta(x, {c})
     /\ \A s \in Semaforos :
          prometido'[s] = prometido[s] - Cuenta(s, W) + Cuenta(s, P)

\* The lengths alone: what Mover does to them, for AgregarAReady as well.
LEMMA MoverLargos ==
  ASSUME TypeOK, NEW W, NEW P, NEW c \in Lugares, NEW e \in Lugares, NEW i,
         c # e, i \in DOMAIN cola[c], Mover(W, c, i, e, P)
  PROVE  /\ \A x \in Lugares :
              Len(cola'[x]) = Len(cola[x]) + Cuenta(x, {e}) - Cuenta(x, {c})
         /\ \A s \in Semaforos : sem'[s] = sem[s] - Cuenta(s, W) + Cuenta(s, P)
<1>1. cola \in [Lugares -> Seq(Procesos)]
  BY DEF TypeOK
<1>2. /\ cola'[c] = RemoveAt(cola[c], i)
      /\ cola'[e] = Append(cola[e], cola[c][i])
      /\ \A x \in Lugares \ {c, e} : cola'[x] = cola[x]
      /\ Sincronizar(W, P)
  BY <1>1, MoverEfecto
<1>3. Len(cola'[c]) = Len(cola[c]) - 1
  BY <1>1, <1>2, QuitarPosicion
<1>4. Len(cola'[e]) = Len(cola[e]) + 1
  <2>1. cola[c][i] \in Procesos
    BY <1>1, ElementOfSeq
  <2>2. QED
    BY <1>1, <1>2, <2>1, AppendProperties
<1>5. \A x \in Lugares :
        Len(cola'[x]) = Len(cola[x]) + Cuenta(x, {e}) - Cuenta(x, {c})
  <2>1. \A x \in Lugares : Len(cola[x]) \in Nat
    BY <1>1, LenProperties
  <2> TAKE x \in Lugares
  <2>2. Cuenta(x, {e}) = IF x = e THEN 1 ELSE 0
    BY DEF Cuenta
  <2>3. Cuenta(x, {c}) = IF x = c THEN 1 ELSE 0
    BY DEF Cuenta
  <2>4. Len(cola'[x]) = IF x = c THEN Len(cola[x]) - 1
                        ELSE IF x = e THEN Len(cola[x]) + 1 ELSE Len(cola[x])
    BY <1>2, <1>3, <1>4
  <2>5. QED
    BY <2>1, <2>2, <2>3, <2>4
<1>6. \A s \in Semaforos : sem'[s] = sem[s] - Cuenta(s, W) + Cuenta(s, P)
  BY <1>2 DEF TypeOK, Sincronizar, Cuenta
<1> QED
  BY <1>5, <1>6

LEMMA MoverTraslado ==
  ASSUME TypeOK, NEW W, NEW P, NEW c \in Lugares, NEW e \in Lugares, NEW i,
         c # e, Mover(W, c, i, e, P), mostrando' = mostrando
  PROVE  Traslado(W, c, e, P)
<1>1. CASE i \notin DOMAIN cola[c]
  BY <1>1 DEF Mover, Traslado, prometido
<1>2. CASE i \in DOMAIN cola[c]
  <2>1. /\ \A x \in Lugares :
             Len(cola'[x]) = Len(cola[x]) + Cuenta(x, {e}) - Cuenta(x, {c})
        /\ \A s \in Semaforos : sem'[s] = sem[s] - Cuenta(s, W) + Cuenta(s, P)
    BY <1>2, MoverLargos
  <2>2. \A s \in Semaforos :
          prometido'[s] = prometido[s] - Cuenta(s, W) + Cuenta(s, P)
    <3> TAKE s \in Semaforos
    <3>1. /\ sem[s] \in Nat /\ Cardinality(mostrando) \in Nat
          /\ Cuenta(s, W) \in Nat /\ Cuenta(s, P) \in Nat
          /\ Cuenta("conexion_dispatch", mostrando) \in Nat
      BY MostrandoFinito DEF TypeOK, Cuenta, Hilos, HilosSincro
    <3>2. sem'[s] = sem[s] - Cuenta(s, W) + Cuenta(s, P)
      BY <2>1
    <3>3. CASE s = "pcbs_en_ready"
      BY <3>1, <3>2, <3>3 DEF prometido
    <3>4. CASE s = "cpu_libre"
      BY <3>1, <3>2, <3>4 DEF prometido
    <3>5. CASE s \notin {"pcbs_en_ready", "cpu_libre"}
      BY <3>1, <3>2, <3>5 DEF prometido
    <3> QED
      BY <3>3, <3>4, <3>5
  <2> QED
    BY <2>1, <2>2 DEF Traslado
<1>3. QED
  BY <1>1, <1>2

\* agregar_a_ready counts as a Mover that has already made its sem_post.
Avisos(t) ==
  {"pcbs_en_ready"} \cup IF t = "conexion_dispatch" THEN {"cpu_libre"} ELSE {}

LEMMA AgregarTraslado ==
  ASSUME TypeOK, NEW t \in Hilos, NEW W, NEW c \in Lugares, NEW i, NEW motivo,
         c \notin {"ready1_list", "ready2_list"}, AgregarAReady(t, W, c, i, motivo)
  PROVE  Traslado(W, c, ColaReady(motivo), Avisos(t))
<1> DEFINE e == ColaReady(motivo)
<1>0. e \in Lugares /\ c # e
  BY Nombres DEF Colas
<1>a. Mover(W, c, i, e, {})
  BY DEF AgregarAReady
<1>1. CASE i \notin DOMAIN cola[c]
  <2>1. mostrando' = mostrando
    BY <1>1 DEF AgregarAReady
  <2> QED
    BY <1>1, <1>a, <2>1 DEF Mover, Traslado, prometido
<1>2. CASE i \in DOMAIN cola[c]
  <2>1. /\ \A x \in Lugares :
             Len(cola'[x]) = Len(cola[x]) + Cuenta(x, {e}) - Cuenta(x, {c})
        /\ \A s \in Semaforos : sem'[s] = sem[s] - Cuenta(s, W) + Cuenta(s, {})
    BY <1>0, <1>2, <1>a, MoverLargos
  <2>2. t \notin mostrando /\ mostrando' = mostrando \cup {t}
    BY <1>2 DEF AgregarAReady
  <2>3. /\ Cardinality(mostrando) \in Nat
        /\ Cardinality(mostrando') = Cardinality(mostrando) + 1
    BY <2>2, MostrandoFinito
  <2>4. Cuenta("conexion_dispatch", mostrando') =
          Cuenta("conexion_dispatch", mostrando) + Cuenta("cpu_libre", Avisos(t))
    BY <2>2 DEF Cuenta, Avisos
  <2>5. \A s \in Semaforos :
          prometido'[s] = prometido[s] - Cuenta(s, W) + Cuenta(s, Avisos(t))
    <3> TAKE s \in Semaforos
    <3>1. /\ sem[s] \in Nat /\ Cuenta(s, {}) = 0
          /\ Cuenta(s, W) \in Nat /\ Cuenta(s, Avisos(t)) \in Nat
          /\ Cuenta("conexion_dispatch", mostrando) \in Nat
      BY DEF TypeOK, Cuenta
    <3>2. sem'[s] = sem[s] - Cuenta(s, W)
      BY <2>1, <3>1
    <3>3. CASE s = "pcbs_en_ready"
      <4>1. Cuenta(s, Avisos(t)) = 1
        BY <3>3 DEF Cuenta, Avisos
      <4> QED
        BY <2>3, <3>1, <3>2, <3>3, <4>1 DEF prometido
    <3>4. CASE s = "cpu_libre"
      BY <2>4, <3>1, <3>2, <3>4 DEF prometido
    <3>5. CASE s \notin {"pcbs_en_ready", "cpu_libre"}
      <4>1. Cuenta(s, Avisos(t)) = 0
        BY <3>5 DEF Cuenta, Avisos
      <4> QED
        BY <3>1, <3>2, <3>5, <4>1 DEF prometido
    <3> QED
      BY <3>3, <3>4, <3>5
  <2> HIDE DEF e
  <2> QED
    BY <2>1, <2>5 DEF Traslado, e
<1>3. QED
  BY <1>1, <1>2

Cuentas == SemaforosContados /\ CpuExclusiva

\* The effect of moving from c to e on the length of x.
Salto(x, c, e) == Cuenta(x, {e}) - Cuenta(x, {c})

\* Moving a PCB from c to e is matched by what is waited for and posted.
Equilibrado(W, c, e, P) ==
  LET Neto(s) == Cuenta(s, P) - Cuenta(s, W) IN
  /\ Neto("new_to_ready") = Salto("new_queue", c, e)
  /\ Neto("pcbs_en_ready")
       = Salto("ready1_list", c, e) + Salto("ready2_list", c, e)
  /\ Neto("enviar_pcb_a_cpu") = Salto("running_queue", c, e)
  /\ Neto("finish_process") = Salto("exit_queue", c, e)
  /\ Neto("atender_pf") + Neto("desbloquear_por_pf")
       = Salto("blocked_page_fault_queue", c, e)
  /\ Neto("cpu_libre") + Salto("running_queue", c, e) + Salto("cpu", c, e) = 0

\* Cuentas, in terms of what the semaphores will have.
EnCuenta ==
  /\ prometido["new_to_ready"] = Len(cola["new_queue"])
  /\ prometido["pcbs_en_ready"] = Len(cola["ready1_list"]) + Len(cola["ready2_list"])
  /\ prometido["enviar_pcb_a_cpu"] = Len(cola["running_queue"])
  /\ prometido["finish_process"] = Len(cola["exit_queue"])
  /\ prometido["atender_pf"] + prometido["desbloquear_por_pf"]
       = Len(cola["blocked_page_fault_queue"])
  /\ prometido["cpu_libre"] + Len(cola["running_queue"]) + Len(cola["cpu"]) = 1

LEMMA EnCuentaCuentas == TypeOK => (Cuentas <=> EnCuenta)
<1> SUFFICES ASSUME TypeOK PROVE Cuentas <=> EnCuenta
  OBVIOUS
<1>1. /\ Len(cola["running_queue"]) \in Nat /\ Len(cola["cpu"]) \in Nat
      /\ sem["cpu_libre"] \in Nat
  BY Nombres, LenProperties DEF TypeOK, SemaforosSincro, Colas
<1>2. /\ prometido["new_to_ready"] = sem["new_to_ready"]
      /\ prometido["pcbs_en_ready"] = sem["pcbs_en_ready"] + Cardinality(mostrando)
      /\ prometido["enviar_pcb_a_cpu"] = sem["enviar_pcb_a_cpu"]
      /\ prometido["finish_process"] = sem["finish_process"]
      /\ prometido["atender_pf"] = sem["atender_pf"]
      /\ prometido["desbloquear_por_pf"] = sem["desbloquear_por_pf"]
      /\ prometido["cpu_libre"] = sem["cpu_libre"]
           + Cuenta("conexion_dispatch", mostrando)
  BY Nombres DEF prometido, SemaforosSincro
<1>3. Cuenta("conexion_dispatch", mostrando) \in Nat
  BY DEF Cuenta
<1>4. CpuExclusiva <=> sem["cpu_libre"] + Len(cola["running_queue"]) + Len(cola["cpu"])
                       + Cuenta("conexion_dispatch", mostrando) = 1
  BY DEF CpuExclusiva, Cuenta
<1>5. CpuExclusiva <=>
        prometido["cpu_libre"] + Len(cola["running_queue"]) + Len(cola["cpu"]) = 1
  <2>1. \A a, b, c, d \in Nat : a + b + c + d = 1 <=> (a + d) + b + c = 1
    OBVIOUS
  <2> QED
    BY <1>1, <1>2, <1>3, <1>4, <2>1
<1> QED
  BY <1>2, <1>5 DEF Cuentas, SemaforosContados, EnCuenta

\* Where nobody enters or leaves those loops, the promises change with the semaphores.
LEMMA PrometidoQuieto ==
  ASSUME TypeOK, TypeOK', mostrando' = mostrando, NEW s \in SemaforosSincro
  PROVE  /\ sem[s] \in Nat /\ sem'[s] \in Nat
         /\ prometido[s] \in Nat /\ prometido'[s] \in Nat
         /\ prometido'[s] = prometido[s] + (sem'[s] - sem[s])
<1>1. s \in Semaforos
  BY Nombres
<1>2. /\ Cardinality(mostrando) \in Nat
      /\ Cuenta("conexion_dispatch", mostrando) \in Nat
  BY MostrandoFinito DEF Cuenta, Hilos, HilosSincro
<1>3. sem[s] \in Nat /\ sem'[s] \in Nat
  BY <1>1 DEF TypeOK
<1>4. CASE s = "pcbs_en_ready"
  BY <1>1, <1>2, <1>3, <1>4 DEF prometido
<1>5. CASE s = "cpu_libre"
  BY <1>1, <1>2, <1>3, <1>5 DEF prometido
<1>6. CASE s \notin {"pcbs_en_ready", "cpu_libre"}
  BY <1>1, <1>2, <1>3, <1>6 DEF prometido
<1> QED
  BY <1>4, <1>5, <1>6

LEMMA TrasladoEquilibrado ==
  ASSUME TypeOK, TypeOK', Cuentas, NEW W, NEW P, NEW c \in Lugares, NEW e \in Lugares,
         Traslado(W, c, e, P), Equilibrado(W, c, e, P)
  PROVE  Cuentas'
<1>0. EnCuenta /\ (Cuentas' <=> EnCuenta')
  <2>1. TypeOK' => (Cuentas' <=> EnCuenta')
    BY EnCuentaCuentas, PTL
  <2> QED
    BY <2>1, EnCuentaCuentas
<1>1. CASE cola' = cola /\ prometido' = prometido
  BY <1>0, <1>1 DEF EnCuenta
<1>2. CASE /\ \A x \in Lugares :
                Len(cola'[x]) = Len(cola[x]) + Cuenta(x, {e}) - Cuenta(x, {c})
           /\ \A s \in Semaforos :
                prometido'[s] = prometido[s] - Cuenta(s, W) + Cuenta(s, P)
  <2>1. \A x, S : Cuenta(x, S) \in {0, 1}
    BY DEF Cuenta
  <2>2. \A x \in Colas : /\ Len(cola[x]) \in Nat
                         /\ Len(cola'[x]) = Len(cola[x]) + Salto(x, c, e)
                         /\ Salto(x, c, e) \in Int
    <3> TAKE x \in Colas
    <3>1. x \in Lugares
      BY Nombres
    <3>2. cola[x] \in Seq(Procesos)
      BY <3>1 DEF TypeOK
    <3>3. Len(cola[x]) \in Nat
      BY <3>2, LenProperties
    <3>4. Len(cola'[x]) = Len(cola[x]) + Cuenta(x, {e}) - Cuenta(x, {c})
      BY <1>2, <3>1
    <3>5. QED
      BY <2>1, <3>3, <3>4 DEF Salto
  <2>3. \A s \in SemaforosSincro :
          /\ prometido[s] \in Nat
          /\ prometido'[s] = prometido[s] + (Cuenta(s, P) - Cuenta(s, W))
    <3> TAKE s \in SemaforosSincro
    <3>1. s \in Semaforos /\ prometido[s] \in Nat
      BY Nombres, PrometidoTipo
    <3>2. prometido'[s] = prometido[s] - Cuenta(s, W) + Cuenta(s, P)
      BY <1>2, <3>1
    <3>3. Cuenta(s, W) \in {0, 1} /\ Cuenta(s, P) \in {0, 1}
      BY <2>1
    <3>4. QED
      BY <3>1, <3>2, <3>3
  <2>4. \A s : Cuenta(s, P) - Cuenta(s, W) \in Int
    BY <2>1
  <2> DEFINE L(x) == Len(cola[x])
             M(x) == Len(cola'[x])
             J(x) == Salto(x, c, e)
             N(s) == Cuenta(s, P) - Cuenta(s, W)
  <2>5. \A x \in Colas : L(x) \in Nat /\ J(x) \in Int /\ M(x) = L(x) + J(x)
    BY <2>2
  <2>6. \A s \in SemaforosSincro :
          prometido[s] \in Nat /\ N(s) \in Int /\ prometido'[s] = prometido[s] + N(s)
    BY <2>3, <2>4
  <2>7. /\ N("new_to_ready") = J("new_queue")
        /\ N("pcbs_en_ready") = J("ready1_list") + J("ready2_list")
        /\ N("enviar_pcb_a_cpu") = J("running_queue")
        /\ N("finish_process") = J("exit_queue")
        /\ N("atender_pf") + N("desbloquear_por_pf")
             = J("blocked_page_fault_queue")
        /\ N("cpu_libre") + J("running_queue") + J("cpu") = 0
    BY DEF Equilibrado
  <2>8. /\ prometido["new_to_ready"] = L("new_queue")
        /\ prometido["pcbs_en_ready"] = L("ready1_list") + L("ready2_list")
        /\ prometido["enviar_pcb_a_cpu"] = L("running_queue")
        /\ prometido["finish_process"] = L("exit_queue")
        /\ prometido["atender_pf"] + prometido["desbloquear_por_pf"]
             = L("blocked_page_fault_queue")
        /\ prometido["cpu_libre"] + L("running_queue") + L("cpu") = 1
    BY <1>0 DEF EnCuenta
  <2> HIDE DEF L, M, J, N
  <2>9. {"new_queue", "ready1_list", "ready2_list", "running_queue", "cpu",
         "exit_queue", "blocked_page_fault_queue"} \subseteq Colas
    BY DEF Colas
  <2>10. {"new_to_ready", "pcbs_en_ready", "enviar_pcb_a_cpu", "cpu_libre",
          "finish_process", "atender_pf", "desbloquear_por_pf"}
           \subseteq SemaforosSincro
    BY DEF SemaforosSincro
  <2>11. /\ prometido'["new_to_ready"] = M("new_queue")
         /\ prometido'["pcbs_en_ready"] = M("ready1_list") + M("ready2_list")
         /\ prometido'["enviar_pcb_a_cpu"] = M("running_queue")
         /\ prometido'["finish_process"] = M("exit_queue")
         /\ prometido'["atender_pf"] + prometido'["desbloquear_por_pf"]
              = M("blocked_page_fault_queue")
         /\ prometido'["cpu_libre"] + M("running_queue") + M("cpu") = 1
    BY <2>5, <2>6, <2>7, <2>8, <2>9, <2>10
  <2>12. QED
    BY <1>0, <2>11 DEF M, EnCuenta
<1>3. QED
  BY <1>1, <1>2 DEF Traslado

\* The actions that move no PCB and touch no semaphore.
AccionQuieta ==
  \/ ColgarDispatch \/ AtenderPageFault
  \/ \E p \in Procesos : \/ Cpu(p) \/ ConsolaResponde(p) \/ AtenderConsola(p)
                         \/ BuscarIndice(p) \/ CerrarConexion(p)
  \/ \E h \in Perifericos : LeerUltimo(h) \/ PedirAConsola(h)

LEMMA QuietaEfecto ==
  AccionQuieta => UNCHANGED <<cola, sem, recorrido, consola, fin>>
<1>1. CASE ColgarDispatch \/ AtenderPageFault
  BY <1>1 DEF consolas, recorrido, ColgarDispatch, AtenderPageFault
<1>2. ASSUME NEW p \in Procesos, Cpu(p) \/ ConsolaResponde(p)
      PROVE  UNCHANGED <<cola, sem, recorrido, consola, fin>>
  BY <1>2 DEF consolas, recorrido, Cpu, EjecutarYSeguir, EjecutarPageFault,
       EjecutarYParar, ConsolaResponde
<1>3. ASSUME NEW p \in Procesos,
             AtenderConsola(p) \/ BuscarIndice(p) \/ CerrarConexion(p)
      PROVE  UNCHANGED <<cola, sem, recorrido, consola, fin>>
  BY <1>3 DEF recorrido, AtenderConsola, BuscarIndice, CerrarConexion
<1>4. ASSUME NEW h \in Perifericos, LeerUltimo(h) \/ PedirAConsola(h)
      PROVE  UNCHANGED <<cola, sem, recorrido, consola, fin>>
  BY <1>4 DEF consolas, recorrido, LeerUltimo, PedirAConsola
<1> QED
  BY <1>1, <1>2, <1>3, <1>4 DEF AccionQuieta

LEMMA NombresDeHilos ==
  /\ "conexion_memoria" \in Hilos /\ "conexion_dispatch" \in Hilos
  /\ "blocked_page_fault_thread" \in Hilos
  /\ Dispositivos \subseteq Hilos /\ Procesos \subseteq Hilos
BY DEF Hilos, HilosSincro

\* The end of agregar_a_ready moves no PCB: it posts two semaphores at most.
LEMMA MostrarEfecto ==
  ASSUME TypeOK, NEW t, TerminarDeMostrar(t)
  PROVE  /\ UNCHANGED <<cola, pcbs, memoria, manejadores, consolas, dispatch_colgado, fin>>
         /\ \A s \in Semaforos \ {"pcbs_en_ready", "cpu_libre"} : sem'[s] = sem[s]
<1>1. CASE sem' = sem
  BY <1>1 DEF TerminarDeMostrar
<1>2. ASSUME NEW P \in SUBSET {"pcbs_en_ready", "cpu_libre"}, Sincronizar({}, P),
             NEW s \in Semaforos \ {"pcbs_en_ready", "cpu_libre"}
      PROVE  sem'[s] = sem[s]
  <2>1. sem[s] \in Nat
    BY DEF TypeOK
  <2>2. s \notin P
    OBVIOUS
  <2> QED
    BY <1>2, <2>1, <2>2 DEF Sincronizar
<1>3. /\ Sincronizar({}, Avisos(t)) \/ sem' = sem
      /\ Avisos(t) \subseteq {"pcbs_en_ready", "cpu_libre"}
  BY DEF TerminarDeMostrar, Avisos
<1> QED
  BY <1>1, <1>2, <1>3 DEF TerminarDeMostrar

LEMMA CuentasPaso == TypeOK /\ Cuentas /\ Next => Cuentas'
<1> SUFFICES ASSUME TypeOK, Cuentas, Next PROVE Cuentas'
  OBVIOUS
<1>0. TypeOK'
  BY TipoPaso
<1>a. EnCuenta /\ (EnCuenta' => Cuentas')
  <2>1. TypeOK' => (Cuentas' <=> EnCuenta')
    BY EnCuentaCuentas, PTL
  <2> QED
    BY <1>0, <2>1, EnCuentaCuentas
<1>b. \A d \in Dispositivos \cup Procesos : Avisos(d) = {"pcbs_en_ready"}
  BY HilosAssumption DEF Avisos, HilosSincro
<1>1. CASE AdmitirProceso
  <2>1. Equilibrado({"new_to_ready", "grado_multiprogramacion"},
                    "new_queue",
                    "a_memoria", {})
    BY Nombres DEF Equilibrado, Cuenta, Salto, Colas
  <2>2. QED
    BY <1>1, <2>1, <1>0, MoverTraslado, TrasladoEquilibrado, Nombres
       DEF AdmitirProceso, Colas, recorrido
<1>2. CASE CrearEstructuras
  <2>1. Equilibrado({}, "a_memoria", "de_memoria", {})
    BY Nombres DEF Equilibrado, Cuenta, Salto, Colas
  <2>2. QED
    BY <1>2, <2>1, <1>0, MoverTraslado, TrasladoEquilibrado, Nombres
       DEF CrearEstructuras, Colas, recorrido
<1>3. CASE IndiceActualizado
  <2>1. Equilibrado({}, "de_memoria", ColaReady("PCB"), Avisos("conexion_memoria"))
    BY Nombres DEF Equilibrado, Cuenta, Salto, Colas, Avisos
  <2>2. /\ "de_memoria" \in Lugares /\ "de_memoria" \notin {"ready1_list", "ready2_list"}
        /\ "conexion_memoria" \in Hilos /\ ColaReady("PCB") \in Lugares
    BY Nombres, DispositivosAssumption DEF Colas, Hilos, HilosSincro
  <2>3. Traslado({}, "de_memoria", ColaReady("PCB"), Avisos("conexion_memoria"))
    BY <1>3, <2>2, AgregarTraslado DEF IndiceActualizado
  <2> QED
    BY <1>0, <2>1, <2>2, <2>3, TrasladoEquilibrado
<1>4. CASE ElegirListo
  <2>1. Equilibrado({"pcbs_en_ready", "cpu_libre"},
                    IF cola["ready1_list"] = <<>> /\ Algoritmo = "FEEDBACK" THEN "ready2_list" ELSE "ready1_list",
                    "running_queue", {"enviar_pcb_a_cpu"})
    BY Nombres DEF Equilibrado, Cuenta, Salto, Colas
  <2>2. QED
    BY <1>4, <2>1, <1>0, MoverTraslado, TrasladoEquilibrado, Nombres
       DEF ElegirListo, Colas, recorrido
<1>5. CASE EnviarACpu
  <2>1. Equilibrado({"enviar_pcb_a_cpu"}, "running_queue", "cpu", {})
    BY Nombres DEF Equilibrado, Cuenta, Salto, Colas
  <2>2. QED
    BY <1>5, <2>1, <1>0, MoverTraslado, TrasladoEquilibrado, Nombres
       DEF EnviarACpu, Colas, recorrido
<1>6. CASE DesalojarPorQuantum
  <2>1. Equilibrado({},
                    "cpu",
                    ColaReady("INTERRUPCION"), Avisos("conexion_dispatch"))
    BY Nombres DEF Equilibrado, Cuenta, Salto, Colas, Avisos
  <2>2. /\ "cpu" \in Lugares /\ "cpu" \notin {"ready1_list", "ready2_list"}
        /\ "conexion_dispatch" \in Hilos /\ ColaReady("INTERRUPCION") \in Lugares
    BY Nombres, DispositivosAssumption DEF Colas, Hilos, HilosSincro
  <2>3. Traslado({}, "cpu", ColaReady("INTERRUPCION"), Avisos("conexion_dispatch"))
    BY <1>6, <2>2, AgregarTraslado DEF DesalojarPorQuantum
  <2> QED
    BY <1>0, <2>1, <2>2, <2>3, TrasladoEquilibrado
<1>7. CASE BloquearPorPageFault
  <2>1. Equilibrado({},
                    "cpu",
                    "blocked_page_fault_queue", {"atender_pf", "cpu_libre"})
    BY Nombres DEF Equilibrado, Cuenta, Salto, Colas
  <2>2. QED
    BY <1>7, <2>1, <1>0, MoverTraslado, TrasladoEquilibrado, Nombres
       DEF BloquearPorPageFault, Colas, recorrido, Archivar
<1>8. CASE TerminarProceso
  <2>1. Equilibrado({}, "cpu", "exit_queue", {"finish_process", "cpu_libre"})
    BY Nombres DEF Equilibrado, Cuenta, Salto, Colas
  <2>2. QED
    BY <1>8, <2>1, <1>0, MoverTraslado, TrasladoEquilibrado, Nombres
       DEF TerminarProceso, Colas, recorrido, Archivar
<1>9. CASE DesbloquearPageFault
  <2>1. Equilibrado({"desbloquear_por_pf"},
                    "blocked_page_fault_queue",
                    ColaReady("PCB"), Avisos("blocked_page_fault_thread"))
    BY Nombres DEF Equilibrado, Cuenta, Salto, Colas, Avisos
  <2>2. /\ "blocked_page_fault_queue" \in Lugares /\ "blocked_page_fault_queue" \notin {"ready1_list", "ready2_list"}
        /\ "blocked_page_fault_thread" \in Hilos /\ ColaReady("PCB") \in Lugares
    BY Nombres, DispositivosAssumption DEF Colas, Hilos, HilosSincro
  <2>3. Traslado({"desbloquear_por_pf"}, "blocked_page_fault_queue", ColaReady("PCB"), Avisos("blocked_page_fault_thread"))
    BY <1>9, <2>2, AgregarTraslado DEF DesbloquearPageFault
  <2> QED
    BY <1>0, <2>1, <2>2, <2>3, TrasladoEquilibrado
<1>10. ASSUME NEW d \in Dispositivos, BloquearPorIO(d) PROVE Cuentas'
  <2>1. Equilibrado({}, "cpu", "blocked_io_list", {d, "cpu_libre"})
    BY Nombres, DispositivosAssumption DEF Equilibrado, Cuenta, Salto, Colas, SemaforosSincro
  <2>2. QED
    BY <1>10, <2>1, <1>0, MoverTraslado, TrasladoEquilibrado, Nombres
       DEF BloquearPorIO, Colas, recorrido, Archivar
<1>11. ASSUME NEW h \in Perifericos, BloquearPorPeriferico(h) PROVE Cuentas'
  <2>1. Equilibrado({}, "cpu", Lista(h), {SemaforoDe(h), "cpu_libre"})
    BY Nombres DEF Equilibrado, Cuenta, Salto, Colas
  <2>2. QED
    BY <1>11, <2>1, <1>0, MoverTraslado, TrasladoEquilibrado, Nombres
       DEF BloquearPorPeriferico, Colas, recorrido, Archivar
<1>12. ASSUME NEW d \in Dispositivos, AtenderEnDispositivo(d) PROVE Cuentas'
  <2>1. Equilibrado({}, "blocked_io_list", d, {})
    BY Nombres, DispositivosAssumption DEF Equilibrado, Cuenta, Salto, Colas, SemaforosSincro
  <2>2. QED
    BY <1>12, <2>1, <1>0, MoverTraslado, TrasladoEquilibrado, Nombres
       DEF AtenderEnDispositivo, Colas, recorrido
<1>13. ASSUME NEW d \in Dispositivos, TerminarIO(d) PROVE Cuentas'
  <2>1. Equilibrado({},
                    d,
                    ColaReady("BLOQUEAR_PROCESO_IO"), Avisos(d))
    BY <1>b, Nombres, DispositivosAssumption
       DEF Equilibrado, Cuenta, Salto, Colas, SemaforosSincro
  <2>2. /\ d \in Lugares /\ d \notin {"ready1_list", "ready2_list"}
        /\ d \in Hilos /\ ColaReady("BLOQUEAR_PROCESO_IO") \in Lugares
    BY Nombres, DispositivosAssumption DEF Colas, Hilos, HilosSincro
  <2>3. Traslado({}, d, ColaReady("BLOQUEAR_PROCESO_IO"), Avisos(d))
    BY <1>13, <2>2, AgregarTraslado DEF TerminarIO
  <2> QED
    BY <1>0, <2>1, <2>2, <2>3, TrasladoEquilibrado
<1>14. ASSUME NEW p \in Procesos, Desbloquear(p) PROVE Cuentas'
  <2>1. Equilibrado({},
                    Lista(conexion[p].lista),
                    ColaReady(Respuesta(conexion[p].lista)), Avisos(p))
    BY <1>b, Nombres DEF Equilibrado, Cuenta, Salto, Colas
  <2>2. /\ Lista(conexion[p].lista) \in Lugares /\ Lista(conexion[p].lista) \notin {"ready1_list", "ready2_list"}
        /\ p \in Hilos /\ ColaReady(Respuesta(conexion[p].lista)) \in Lugares
    BY Nombres, DispositivosAssumption DEF Colas, Hilos, HilosSincro
  <2>3. Traslado({}, Lista(conexion[p].lista), ColaReady(Respuesta(conexion[p].lista)), Avisos(p))
    BY <1>14, <2>2, AgregarTraslado DEF Desbloquear
  <2> QED
    BY <1>0, <2>1, <2>2, <2>3, TrasladoEquilibrado
<1>15. CASE UNCHANGED <<cola, sem, mostrando>>
  BY <1>a, <1>15 DEF EnCuenta, prometido
<1> DEFINE Sincro == {"new_to_ready", "pcbs_en_ready", "enviar_pcb_a_cpu", "cpu_libre",
                      "finish_process", "atender_pf", "desbloquear_por_pf"}
<1>c. Sincro \subseteq SemaforosSincro
  BY DEF SemaforosSincro
\* The actions that take no part in agregar_a_ready, by what they do to sem and cola.
<1>d. ASSUME mostrando' = mostrando, NEW s \in Sincro
      PROVE  /\ sem[s] \in Nat /\ prometido[s] \in Nat
             /\ prometido'[s] = prometido[s] + (sem'[s] - sem[s])
  BY <1>0, <1>c, <1>d, PrometidoQuieto
<1> HIDE DEF Sincro
<1>e. ASSUME mostrando' = mostrando, cola' = cola, \A s \in Sincro : sem'[s] = sem[s]
      PROVE  Cuentas'
  <2>1. \A s \in Sincro : prometido'[s] = prometido[s]
    BY <1>d, <1>e
  <2> QED
    BY <1>a, <1>e, <2>1 DEF EnCuenta, Sincro
<1>16. ASSUME NEW d \in Dispositivos, TomarMutexIO(d) PROVE Cuentas'
  <2>1. cola' = cola /\ mostrando' = mostrando /\ \A s \in Semaforos \ {d} : sem'[s] = sem[s]
    BY <1>16 DEF TomarMutexIO, Sincronizar, TypeOK, recorrido
  <2>2. Sincro \subseteq Semaforos \ {d}
    BY <1>c, Nombres, DispositivosAssumption
  <2> QED
    BY <1>e, <2>1, <2>2
<1>17. ASSUME NEW h \in Perifericos, TomarMutex(h) PROVE Cuentas'
  <2>1. /\ cola' = cola /\ mostrando' = mostrando
        /\ \A s \in Semaforos \ {SemaforoDe(h)} : sem'[s] = sem[s]
    BY <1>17 DEF TomarMutex, Sincronizar, TypeOK, recorrido
  <2>2. Sincro \subseteq Semaforos \ {SemaforoDe(h)}
    BY <1>c, Nombres DEF Sincro
  <2> QED
    BY <1>e, <2>1, <2>2
<1>18. CASE PageFaultAtendido
  <2>1. /\ cola' = cola /\ mostrando' = mostrando
        /\ \A s \in Semaforos :
             sem'[s] = sem[s] - (IF s = "atender_pf" THEN 1 ELSE 0)
                              + (IF s = "desbloquear_por_pf" THEN 1 ELSE 0)
    BY <1>18 DEF PageFaultAtendido, Sincronizar, recorrido
  <2>2. \A s \in Sincro :
          /\ prometido[s] \in Nat
          /\ prometido'[s] = IF s = "atender_pf" THEN prometido[s] - 1
                             ELSE IF s = "desbloquear_por_pf" THEN prometido[s] + 1
                             ELSE prometido[s]
    BY <1>c, <1>d, <2>1, Nombres
  <2>3. /\ prometido'["atender_pf"] + prometido'["desbloquear_por_pf"]
             = prometido["atender_pf"] + prometido["desbloquear_por_pf"]
        /\ prometido'["new_to_ready"] = prometido["new_to_ready"]
        /\ prometido'["pcbs_en_ready"] = prometido["pcbs_en_ready"]
        /\ prometido'["enviar_pcb_a_cpu"] = prometido["enviar_pcb_a_cpu"]
        /\ prometido'["finish_process"] = prometido["finish_process"]
        /\ prometido'["cpu_libre"] = prometido["cpu_libre"]
    BY <2>2 DEF Sincro
  <2> QED
    BY <1>a, <2>1, <2>3 DEF EnCuenta
<1>19. ASSUME NEW p \in Procesos, NuevoProceso(p) PROVE Cuentas'
  <2>1. /\ Len(cola'["new_queue"]) = Len(cola["new_queue"]) + 1
        /\ \A x \in Colas \ {"new_queue"} : cola'[x] = cola[x]
    BY <1>19, Nombres, AppendProperties DEF NuevoProceso, TypeOK, Colas
  <2>2. mostrando' = mostrando /\ Sincronizar({}, {"new_to_ready"})
    BY <1>19 DEF NuevoProceso, recorrido
  <2>3. \A s \in Semaforos :
          sem'[s] = sem[s] - 0 + (IF s = "new_to_ready" THEN 1 ELSE 0)
    BY <2>2 DEF Sincronizar
  <2>4. \A s \in Sincro :
          /\ prometido[s] \in Nat
          /\ prometido'[s] = IF s = "new_to_ready" THEN prometido[s] + 1 ELSE prometido[s]
    BY <1>c, <1>d, <2>2, <2>3, Nombres
  <2> QED
    BY <1>a, <2>1, <2>4 DEF EnCuenta, Sincro, Colas
<1>20. CASE Finalizar
  <2>1. CASE cola["exit_queue"] = <<>>
    BY <1>15, <1>20, <2>1 DEF Finalizar, recorrido
  <2>2. CASE cola["exit_queue"] # <<>>
    <3>1. cola["exit_queue"] \in Seq(Procesos)
      BY Nombres DEF TypeOK, Colas
    <3>2. /\ Sincronizar({"finish_process"}, {"grado_multiprogramacion"})
          /\ cola' = [cola EXCEPT !["exit_queue"] = Tail(@)] /\ mostrando' = mostrando
      BY <1>20, <2>2 DEF Finalizar, recorrido
    <3>3. Len(Tail(cola["exit_queue"])) = Len(cola["exit_queue"]) - 1
      BY <2>2, <3>1
    <3>4. /\ Len(cola'["exit_queue"]) = Len(cola["exit_queue"]) - 1
          /\ \A x \in Colas \ {"exit_queue"} : cola'[x] = cola[x]
      BY <3>2, <3>3, Nombres DEF TypeOK, Colas
    <3>5. \A s \in Semaforos :
            sem'[s] = sem[s] - (IF s = "finish_process" THEN 1 ELSE 0)
                             + (IF s = "grado_multiprogramacion" THEN 1 ELSE 0)
      BY <3>2 DEF Sincronizar
    <3>6. \A s \in Sincro :
            /\ prometido[s] \in Nat
            /\ prometido'[s] = IF s = "finish_process" THEN prometido[s] - 1
                               ELSE prometido[s]
      <4>1. "grado_multiprogramacion" \notin Sincro
        BY DEF Sincro
      <4> QED
        BY <1>c, <1>d, <3>2, <3>5, <4>1, Nombres
    <3> QED
      BY <1>a, <3>4, <3>6 DEF EnCuenta, Sincro, Colas
  <2>3. QED
    BY <2>1, <2>2
<1>21. ASSUME NEW t \in Hilos, TerminarDeMostrar(t) PROVE Cuentas'
  <2>1. CASE UNCHANGED <<sem, mostrando>>
    BY <1>15, <1>21, <2>1 DEF TerminarDeMostrar
  <2>2. CASE mostrando' = mostrando \ {t} /\ Sincronizar({}, Avisos(t))
    <3>1. /\ Cardinality(mostrando) \in Nat
          /\ Cardinality(mostrando') = Cardinality(mostrando) - 1
      BY <1>21, <2>2, MostrandoFinito DEF TerminarDeMostrar
    <3>2. Cuenta("conexion_dispatch", mostrando) =
            Cuenta("conexion_dispatch", mostrando') + Cuenta("cpu_libre", Avisos(t))
      BY <1>21, <2>2 DEF TerminarDeMostrar, Cuenta, Avisos
    <3>3. \A s \in Semaforos : prometido'[s] = prometido[s]
      <4> TAKE s \in Semaforos
      <4>1. /\ sem[s] \in Nat /\ sem'[s] = sem[s] + Cuenta(s, Avisos(t))
            /\ Cuenta(s, Avisos(t)) \in Nat
            /\ Cuenta("conexion_dispatch", mostrando) \in Nat
            /\ Cuenta("conexion_dispatch", mostrando') \in Nat
        BY <2>2 DEF TypeOK, Sincronizar, Cuenta
      <4>2. CASE s = "pcbs_en_ready"
        <5>1. Cuenta(s, Avisos(t)) = 1
          BY <4>2 DEF Cuenta, Avisos
        <5> QED
          BY <3>1, <4>1, <4>2, <5>1 DEF prometido
      <4>3. CASE s = "cpu_libre"
        BY <3>2, <4>1, <4>3 DEF prometido
      <4>4. CASE s \notin {"pcbs_en_ready", "cpu_libre"}
        <5>1. Cuenta(s, Avisos(t)) = 0
          BY <4>4 DEF Cuenta, Avisos
        <5> QED
          BY <4>1, <4>4, <5>1 DEF prometido
      <4> QED
        BY <4>2, <4>3, <4>4
    <3>4. prometido' = prometido
      BY <3>3 DEF prometido
    <3>5. cola' = cola
      BY <1>21 DEF TerminarDeMostrar
    <3> QED
      BY <1>a, <3>4, <3>5 DEF EnCuenta
  <2> QED
    BY <1>21, <2>1, <2>2 DEF TerminarDeMostrar, Avisos, recorrido
<1>22. ASSUME AccionQuieta \/ \E p \in Procesos : ConsolaTermina(p)
       PROVE  UNCHANGED <<cola, sem, mostrando>>
  BY <1>22, QuietaEfecto DEF ConsolaTermina, recorrido
<1>23. QED
  BY <1>1, <1>2, <1>3, <1>4, <1>5, <1>6, <1>7, <1>8, <1>9, <1>10, <1>11, <1>12,
     <1>13, <1>14, <1>15, <1>16, <1>17, <1>18, <1>19, <1>20, <1>21, <1>22, NombresDeHilos
     DEF Next, Dispatch, HiloMemoria, HiloPageFault, HiloDispositivo, Manejador,
         Consola, HiloConsola, AccionQuieta

\* Initially every queue is empty.
LEMMA CuentasInicial == Init => Cuentas
BY Nombres, FS_EmptySet DEF Init, Cuentas, SemaforosContados, CpuExclusiva, Colas,
               SemaforosSincro

LEMMA CuentasInvariante == Spec => []Cuentas
<1>1. Cuentas /\ UNCHANGED vars => Cuentas'
  BY DEF Cuentas, SemaforosContados, CpuExclusiva, vars, recorrido
<1>2. QED
  BY TipoCorrecto, CuentasInicial, CuentasPaso, <1>1, PTL DEF Spec

\* Every semaphore that counts a queue counts it exactly, whatever the threads
\* do: none takes a PCB from an empty queue, none sleeps while there is work.
THEOREM SemaforosCorrectos == Spec => []SemaforosContados
<1>1. Cuentas => SemaforosContados
  BY DEF Cuentas
<1>2. QED
  BY CuentasInvariante, <1>1, PTL

\* The cpu is never given to two processes, nor left idle by a lost cpu_libre.
THEOREM CpuCorrecta == Spec => []CpuExclusiva
<1>1. Cuentas => CpuExclusiva
  BY DEF Cuentas
<1>2. QED
  BY CuentasInvariante, <1>1, PTL

\* The ready thread and dispatch are never both inside running_queue, whose
\* mutexes exclude nobody: what keeps them apart is cpu_libre.
THEOREM CarreraCorrecta == Spec => []RunningSinCarrera
<1>1. TypeOK /\ Cuentas => RunningSinCarrera
  <2> SUFFICES ASSUME TypeOK, Cuentas PROVE RunningSinCarrera
    OBVIOUS
  <2>1. /\ sem["cpu_libre"] \in Nat /\ Cardinality(mostrando) \in Nat
        /\ Len(cola["running_queue"]) \in Nat
        /\ Len(cola["cpu"]) \in Nat
    BY Nombres, LenProperties, MostrandoFinito
       DEF TypeOK, SemaforosSincro, Colas, Hilos, HilosSincro
  <2>2. /\ sem["enviar_pcb_a_cpu"] = Len(cola["running_queue"])
        /\ sem["cpu_libre"] + Len(cola["running_queue"]) + Len(cola["cpu"])
           + Cuenta("conexion_dispatch", mostrando) = 1
        /\ Cuenta("conexion_dispatch", mostrando) \in Nat
    BY DEF Cuentas, SemaforosContados, CpuExclusiva, Cuenta
  <2>3. \A a, b, c, d \in Nat : a + b + c + d = 1 /\ a > 0 => b = 0
    OBVIOUS
  <2>4. QED
    BY <2>1, <2>2, <2>3 DEF RunningSinCarrera
<1>2. QED
  BY TipoCorrecto, CuentasInvariante, <1>1, PTL

-----------------------------------------------------------------------------
(***************************************************************************)
(* No PCB of Kernel is lost or duplicated, the degree of multiprogramming  *)
(* is exact, and Kernel implements CicloDeVida: proofs for any values of   *)
(* the constants.                                                          *)
(***************************************************************************)

-----------------------------------------------------------------------------
(* Where the PCBs are after a Mover *)

\* Each position after the removal of place c, position i, and its addition to
\* place e, comes from one position before, and no two from the same.
OrigenLugar(x, j, c, e) ==
  IF x = e /\ j = Len(cola[e]) + 1 THEN c ELSE x

OrigenIndice(x, j, c, i, e) ==
  IF x = e /\ j = Len(cola[e]) + 1 THEN i
  ELSE IF x = c /\ j >= i THEN j + 1 ELSE j

LEMMA MoverOrigen ==
  ASSUME TypeOK, NEW W, NEW P, NEW c \in Lugares, NEW e \in Lugares, NEW i,
         c # e, i \in DOMAIN cola[c], Mover(W, c, i, e, P),
         NEW x \in Lugares, NEW j \in DOMAIN cola'[x]
  PROVE  /\ OrigenLugar(x, j, c, e) \in Lugares
         /\ OrigenIndice(x, j, c, i, e) \in DOMAIN cola[OrigenLugar(x, j, c, e)]
         /\ cola'[x][j] =
              cola[OrigenLugar(x, j, c, e)][OrigenIndice(x, j, c, i, e)]
<1>1. cola \in [Lugares -> Seq(Procesos)]
  BY DEF TypeOK
<1>2. /\ cola' \in [Lugares -> Seq(Procesos)]
      /\ cola'[c] = RemoveAt(cola[c], i)
      /\ cola'[e] = Append(cola[e], cola[c][i])
      /\ \A y \in Lugares \ {c, e} : cola'[y] = cola[y]
      /\ Sincronizar(W, P) /\ vivo' = vivo
  BY <1>1, MoverEfecto
<1>3. /\ cola[c] \in Seq(Procesos) /\ Len(cola[c]) \in Nat
      /\ cola[e] \in Seq(Procesos) /\ Len(cola[e]) \in Nat
      /\ i \in 1 .. Len(cola[c]) /\ cola[c][i] \in Procesos
  <2>1. cola[c] \in Seq(Procesos) /\ cola[e] \in Seq(Procesos)
    BY <1>1
  <2>2. QED
    BY <2>1, LenProperties, ElementOfSeq
<1>4. CASE x = c
  <2>1. /\ Len(cola'[c]) = Len(cola[c]) - 1
        /\ \A k \in 1 .. Len(cola[c]) - 1 :
             cola'[c][k] = IF k < i THEN cola[c][k] ELSE cola[c][k + 1]
    <3>1. /\ Len(RemoveAt(cola[c], i)) = Len(cola[c]) - 1
          /\ \A k \in 1 .. Len(cola[c]) - 1 :
               RemoveAt(cola[c], i)[k] =
                 IF k < i THEN cola[c][k] ELSE cola[c][k + 1]
      BY <1>3, QuitarPosicion
    <3>2. QED
      BY <1>2, <3>1
  <2>2. j \in 1 .. Len(cola[c]) - 1
    BY <1>2, <1>4, <2>1, LenProperties
  <2>3. CASE j < i
    <3>1. OrigenLugar(x, j, c, e) = c /\ OrigenIndice(x, j, c, i, e) = j
      BY <1>3, <1>4, <2>2, <2>3 DEF OrigenLugar, OrigenIndice
    <3>2. j \in 1 .. Len(cola[c])
      BY <1>3, <2>2
    <3>3. cola'[c][j] = cola[c][j]
      BY <2>1, <2>2, <2>3
    <3> QED
      BY <1>3, <1>4, <3>1, <3>2, <3>3
  <2>4. CASE ~ (j < i)
    <3>1. OrigenLugar(x, j, c, e) = c /\ OrigenIndice(x, j, c, i, e) = j + 1
      BY <1>3, <1>4, <2>2, <2>4 DEF OrigenLugar, OrigenIndice
    <3>2. j + 1 \in 1 .. Len(cola[c])
      BY <1>3, <2>2
    <3>3. cola'[c][j] = cola[c][j + 1]
      BY <2>1, <2>2, <2>4
    <3> QED
      BY <1>3, <1>4, <3>1, <3>2, <3>3
  <2>5. QED
    BY <2>3, <2>4
<1>5. CASE x = e
  <2>1. /\ Len(cola'[e]) = Len(cola[e]) + 1
        /\ \A k \in 1 .. Len(cola[e]) : cola'[e][k] = cola[e][k]
        /\ cola'[e][Len(cola[e]) + 1] = cola[c][i]
    BY <1>2, <1>3, AppendProperties
  <2>2. j \in 1 .. Len(cola[e]) + 1
    BY <1>2, <1>5, <2>1, LenProperties
  <2>3. CASE j = Len(cola[e]) + 1
    <3>1. OrigenLugar(x, j, c, e) = c /\ OrigenIndice(x, j, c, i, e) = i
      BY <1>5, <2>3 DEF OrigenLugar, OrigenIndice
    <3> QED
      BY <1>3, <1>5, <2>1, <2>3, <3>1
  <2>4. CASE j # Len(cola[e]) + 1
    <3>1. OrigenLugar(x, j, c, e) = e /\ OrigenIndice(x, j, c, i, e) = j
      BY <1>5, <2>4 DEF OrigenLugar, OrigenIndice
    <3>2. j \in 1 .. Len(cola[e])
      BY <1>3, <2>2, <2>4
    <3> QED
      BY <1>3, <1>5, <2>1, <3>1, <3>2
  <2>5. QED
    BY <2>3, <2>4
<1>6. CASE x \notin {c, e}
  BY <1>2, <1>6 DEF OrigenLugar, OrigenIndice
<1>7. QED
  BY <1>4, <1>5, <1>6

LEMMA OrigenInyectivo ==
  ASSUME TypeOK, NEW c \in Lugares, NEW e \in Lugares, c # e,
         NEW i \in Nat, NEW j \in Nat, NEW k \in Nat, NEW x, NEW y,
         OrigenLugar(x, j, c, e) = OrigenLugar(y, k, c, e),
         OrigenIndice(x, j, c, i, e) = OrigenIndice(y, k, c, i, e)
  PROVE  x = y /\ j = k
<1>1. Len(cola[e]) \in Nat
  BY LenProperties DEF TypeOK
<1>2. QED
  BY <1>1 DEF OrigenLugar, OrigenIndice

\* Once p was moved to e, p is there and nowhere else, and the rest stay.
Llevado(p, e) ==
  \A q \in Procesos, x \in Lugares :
     Esta(q, x)' <=> IF q = p THEN x = e ELSE Esta(q, x)

LEMMA MoverLleva ==
  ASSUME TypeOK, SinDuplicados, NEW W, NEW P,
         NEW c \in Lugares, NEW e \in Lugares, NEW i,
         c # e, i \in DOMAIN cola[c], Mover(W, c, i, e, P)
  PROVE  /\ SinDuplicados'
         /\ cola[c][i] \in Procesos
         /\ Esta(cola[c][i], c)
         /\ Llevado(cola[c][i], e)
<1> DEFINE OL(x, j) == OrigenLugar(x, j, c, e)
           OI(x, j) == OrigenIndice(x, j, c, i, e)
<1>1. cola \in [Lugares -> Seq(Procesos)]
  BY DEF TypeOK
<1>2. /\ cola' \in [Lugares -> Seq(Procesos)]
      /\ cola'[c] = RemoveAt(cola[c], i)
      /\ cola'[e] = Append(cola[e], cola[c][i])
      /\ \A y \in Lugares \ {c, e} : cola'[y] = cola[y]
      /\ Sincronizar(W, P) /\ vivo' = vivo
  BY <1>1, MoverEfecto
<1>3. /\ cola[c] \in Seq(Procesos) /\ Len(cola[c]) \in Nat
      /\ cola[e] \in Seq(Procesos) /\ Len(cola[e]) \in Nat
      /\ i \in 1 .. Len(cola[c]) /\ i \in Nat /\ cola[c][i] \in Procesos
  <2>1. cola[c] \in Seq(Procesos) /\ cola[e] \in Seq(Procesos)
    BY <1>1
  <2>2. i \in 1 .. Len(cola[c])
    BY <2>1, LenProperties
  <2>3. QED
    BY <2>1, <2>2, LenProperties, ElementOfSeq
<1>4. \A x \in Lugares : DOMAIN cola'[x] \subseteq Nat
  BY <1>2, LenProperties
<1>5. \A x \in Lugares : \A j \in DOMAIN cola'[x] :
        /\ OL(x, j) \in Lugares
        /\ OI(x, j) \in DOMAIN cola[OL(x, j)]
        /\ cola'[x][j] = cola[OL(x, j)][OI(x, j)]
  <2> SUFFICES ASSUME NEW x \in Lugares, NEW j \in DOMAIN cola'[x]
               PROVE  /\ OL(x, j) \in Lugares
                      /\ OI(x, j) \in DOMAIN cola[OL(x, j)]
                      /\ cola'[x][j] = cola[OL(x, j)][OI(x, j)]
    OBVIOUS
  <2>1. QED
    BY MoverOrigen
<1>6. \A x, y : \A j, k \in Nat :
        OL(x, j) = OL(y, k) /\ OI(x, j) = OI(y, k) => x = y /\ j = k
  BY <1>3, OrigenInyectivo
<1>7. SinDuplicados'
  <2> SUFFICES ASSUME NEW x \in Lugares, NEW y \in Lugares,
                      NEW j \in DOMAIN cola'[x], NEW k \in DOMAIN cola'[y],
                      cola'[x][j] = cola'[y][k]
               PROVE  x = y /\ j = k
    BY DEF SinDuplicados
  <2> HIDE DEF OL, OI
  <2>1. OL(x, j) = OL(y, k) /\ OI(x, j) = OI(y, k)
    BY <1>5 DEF SinDuplicados
  <2>2. QED
    BY <1>4, <1>6, <2>1
<1>8. Esta(cola[c][i], c)
  BY DEF Esta
<1>9. Llevado(cola[c][i], e)
  <2> SUFFICES ASSUME NEW q \in Procesos, NEW x \in Lugares
               PROVE  Esta(q, x)' <=> IF q = cola[c][i] THEN x = e
                                                       ELSE Esta(q, x)
    BY DEF Llevado
  <2>1. ASSUME Esta(q, x)' PROVE IF q = cola[c][i] THEN x = e ELSE Esta(q, x)
    <3>1. PICK j \in DOMAIN cola'[x] : cola'[x][j] = q
      BY <2>1 DEF Esta
    <3>2. /\ OL(x, j) \in Lugares /\ OI(x, j) \in DOMAIN cola[OL(x, j)]
          /\ q = cola[OL(x, j)][OI(x, j)]
      BY <1>5, <3>1
    <3>3. CASE q = cola[c][i]
      <4> HIDE DEF OL, OI
      <4>1. OL(x, j) = c /\ OI(x, j) = i
        BY <3>2, <3>3 DEF SinDuplicados
      <4>2. j \in Nat
        BY <1>4
      <4>3. x = e
        BY <1>3, <4>1, <4>2 DEF OL, OI, OrigenLugar, OrigenIndice
      <4>4. QED
        BY <3>3, <4>3
    <3>4. CASE q # cola[c][i]
      <4>1. ~ (x = e /\ j = Len(cola[e]) + 1)
        BY <3>2, <3>4 DEF OrigenLugar, OrigenIndice
      <4>3. OL(x, j) = x
        BY <4>1 DEF OrigenLugar
      <4>4. QED
        BY <3>2, <3>4, <4>3 DEF Esta
    <3>5. QED
      BY <3>3, <3>4
  <2>2. ASSUME q = cola[c][i], x = e PROVE Esta(q, x)'
    <3>1. /\ cola'[e] \in Seq(Procesos)
          /\ Len(cola'[e]) = Len(cola[e]) + 1
          /\ cola'[e][Len(cola[e]) + 1] = cola[c][i]
      BY <1>2, <1>3, AppendProperties
    <3>2. Len(cola[e]) + 1 \in DOMAIN cola'[e]
      BY <1>3, <3>1, LenProperties
    <3>3. QED
      BY <2>2, <3>1, <3>2 DEF Esta
  <2>3. ASSUME q # cola[c][i], Esta(q, x) PROVE Esta(q, x)'
    <3>1. PICK k \in DOMAIN cola[x] : cola[x][k] = q
      BY <2>3 DEF Esta
    <3>2. CASE x = c
      <4>1. /\ Len(cola'[c]) = Len(cola[c]) - 1
            /\ \A n \in 1 .. Len(cola[c]) - 1 :
                 cola'[c][n] = IF n < i THEN cola[c][n] ELSE cola[c][n + 1]
        <5>1. /\ Len(RemoveAt(cola[c], i)) = Len(cola[c]) - 1
              /\ \A n \in 1 .. Len(cola[c]) - 1 :
                   RemoveAt(cola[c], i)[n] =
                     IF n < i THEN cola[c][n] ELSE cola[c][n + 1]
          BY <1>3, QuitarPosicion
        <5>2. QED
          BY <1>2, <5>1
      <4>2. k \in 1 .. Len(cola[c]) /\ k # i
        BY <1>3, <2>3, <3>1, <3>2
      <4> DEFINE n == IF k < i THEN k ELSE k - 1
      <4>3. n \in 1 .. Len(cola[c]) - 1
        BY <1>3, <4>2
      <4>4. cola'[c][n] = q
        <5>1. CASE k < i
          BY <3>1, <3>2, <4>1, <4>3, <5>1
        <5>2. CASE ~ (k < i)
          <6>1. n = k - 1 /\ ~ (n < i) /\ n + 1 = k
            BY <1>3, <4>2, <5>2
          <6>2. QED
            BY <3>1, <3>2, <4>1, <4>3, <6>1
        <5>3. QED
          BY <5>1, <5>2
      <4>5. n \in DOMAIN cola'[c]
        BY <1>2, <4>1, <4>3, LenProperties
      <4>6. QED
        BY <3>2, <4>4, <4>5 DEF Esta
    <3>3. CASE x = e
      <4>1. /\ Len(cola'[e]) = Len(cola[e]) + 1
            /\ \A n \in 1 .. Len(cola[e]) : cola'[e][n] = cola[e][n]
        BY <1>2, <1>3, AppendProperties
      <4>2. k \in 1 .. Len(cola[e])
        BY <1>3, <3>1, <3>3, LenProperties
      <4>3. k \in DOMAIN cola'[e]
        BY <1>2, <1>3, <4>1, <4>2, LenProperties
      <4>4. QED
        BY <3>1, <3>3, <4>1, <4>2, <4>3 DEF Esta
    <3>4. CASE x \notin {c, e}
      BY <1>2, <3>1, <3>4 DEF Esta
    <3>5. QED
      BY <3>2, <3>3, <3>4
  <2>4. QED
    BY <2>1, <2>2, <2>3
<1>10. QED
  BY <1>3, <1>7, <1>8, <1>9

-----------------------------------------------------------------------------
(* Every process in one place, and the degree of multiprogramming *)

\* UnSoloLugar is inductive once freed processes are known to be of consoles
\* that already sent theirs.
Unicos ==
  /\ SinDuplicados
  /\ SinPerdidos
  /\ \A p \in fin : consola[p] # "conectada"

LugaresYGrado == Unicos /\ GradoRespetado

LEMMA AdmitidosFinitos ==
  /\ IsFiniteSet(Admitidos) /\ Cardinality(Admitidos) \in Nat
  /\ IsFiniteSet(Admitidos)' /\ Cardinality(Admitidos)' \in Nat
<1>1. Admitidos \subseteq Procesos /\ Admitidos' \subseteq Procesos
  BY DEF Admitidos
<1>2. QED
  BY <1>1, ProcesosAssumption, FS_Subset, FS_CardinalityType

LEMMA UnicosMover ==
  ASSUME TypeOK, Unicos, NEW W, NEW P,
         NEW c \in Lugares, NEW e \in Lugares, NEW i,
         c # e, i \in DOMAIN cola[c], Mover(W, c, i, e, P),
         UNCHANGED <<consola, fin>>
  PROVE  Unicos'
<1> DEFINE p == cola[c][i]
<1>1. /\ SinDuplicados' /\ p \in Procesos /\ Esta(p, c) /\ Llevado(p, e)
  BY MoverLleva DEF Unicos
<1> HIDE DEF p
<1>2. SinPerdidos'
  <2> SUFFICES ASSUME NEW q \in Procesos
               PROVE  (\E x \in Lugares : Esta(q, x)')
                        <=> (consola[q] # "conectada" /\ q \notin fin)
    BY DEF SinPerdidos
  <2>1. (\E x \in Lugares : Esta(q, x))
          <=> (consola[q] # "conectada" /\ q \notin fin)
    BY DEF Unicos, SinPerdidos
  <2>2. (\E x \in Lugares : Esta(q, x)') <=> (\E x \in Lugares : Esta(q, x))
    BY <1>1 DEF Llevado
  <2>3. QED
    BY <2>1, <2>2
<1>3. QED
  BY <1>1, <1>2 DEF Unicos

\* A Mover among the places of admitted processes.
MoverAdmitido(W, c, i, e, P) ==
  /\ c \in Lugares \ {"new_queue"} /\ e \in Lugares \ {"new_queue"} /\ c # e
  /\ "grado_multiprogramacion" \notin W \cup P
  /\ Mover(W, c, i, e, P)
  /\ UNCHANGED <<consola, fin>>

LEMMA PasoMover ==
  ASSUME TypeOK, LugaresYGrado, NEW W, NEW P, NEW c, NEW e, NEW i,
         MoverAdmitido(W, c, i, e, P)
  PROVE  LugaresYGrado'
<1>0. /\ c \in Lugares /\ e \in Lugares /\ c # e /\ "new_queue" \notin {c, e}
      /\ "grado_multiprogramacion" \notin W \cup P
      /\ Mover(W, c, i, e, P) /\ UNCHANGED <<consola, fin>>
  BY DEF MoverAdmitido
<1>1. CASE i \notin DOMAIN cola[c]
  BY <1>0, <1>1 DEF Mover, LugaresYGrado, Unicos, SinDuplicados, SinPerdidos,
              GradoRespetado, Admitidos, Esta
<1>2. CASE i \in DOMAIN cola[c]
  <2>1. Unicos'
    BY <1>0, <1>2, UnicosMover DEF LugaresYGrado
  <2>2. Admitidos' = Admitidos
    <3> DEFINE p == cola[c][i]
    <3>1. p \in Procesos /\ Esta(p, c) /\ Llevado(p, e)
      BY <1>0, <1>2, MoverLleva DEF LugaresYGrado, Unicos
    <3> HIDE DEF p
    <3>2. \A q \in Procesos :
            (\E x \in Lugares \ {"new_queue"} : Esta(q, x)')
              <=> (\E x \in Lugares \ {"new_queue"} : Esta(q, x))
      BY <1>0, <3>1 DEF Llevado
    <3>3. QED
      BY <3>2 DEF Admitidos
  <2>3. sem'["grado_multiprogramacion"] = sem["grado_multiprogramacion"]
    <3>1. Sincronizar(W, P)
      BY <1>0, <1>2 DEF Mover
    <3>2. "grado_multiprogramacion" \in Semaforos
      BY Nombres DEF SemaforosSincro
    <3>3. sem["grado_multiprogramacion"] \in Nat
      BY <3>2 DEF TypeOK
    <3>4. QED
      BY <1>0, <3>1, <3>2, <3>3 DEF Sincronizar
  <2>4. QED
    BY <1>0, <2>1, <2>2, <2>3 DEF LugaresYGrado, GradoRespetado
<1>3. QED
  BY <1>1, <1>2

\* A step that moves no PCB.
LEMMA PasoQuieto ==
  ASSUME LugaresYGrado, cola' = cola, fin' = fin,
         sem'["grado_multiprogramacion"] = sem["grado_multiprogramacion"],
         \A p \in Procesos :
           consola'[p] = "conectada" <=> consola[p] = "conectada",
         fin \subseteq Procesos
  PROVE  LugaresYGrado'
BY DEF LugaresYGrado, Unicos, SinDuplicados, SinPerdidos, GradoRespetado,
       Admitidos, Esta

LEMMA PasoAdmitir ==
  ASSUME TypeOK, LugaresYGrado, AdmitirProceso PROVE LugaresYGrado'
<1> DEFINE p == cola["new_queue"][1]
           W == {"new_to_ready", "grado_multiprogramacion"}
<1>1. /\ "new_queue" \in Lugares /\ "a_memoria" \in Lugares
      /\ "grado_multiprogramacion" \in Semaforos
  BY Nombres DEF Colas, SemaforosSincro
<1>2. Mover(W, "new_queue", 1, "a_memoria", {}) /\ UNCHANGED <<consola, fin>>
  BY DEF AdmitirProceso, consolas
<1>3. CASE 1 \notin DOMAIN cola["new_queue"]
  BY <1>2, <1>3, PasoQuieto DEF Mover, TypeOK
<1>4. CASE 1 \in DOMAIN cola["new_queue"]
  <2>1. Unicos'
    BY <1>1, <1>2, <1>4, UnicosMover DEF LugaresYGrado
  <2>2. /\ p \in Procesos /\ Esta(p, "new_queue") /\ Llevado(p, "a_memoria")
    BY <1>1, <1>2, <1>4, MoverLleva DEF LugaresYGrado, Unicos
  <2> HIDE DEF p
  <2>3. p \notin Admitidos
    <3>1. \A x \in Lugares : Esta(p, x) => x = "new_queue"
      BY <1>1, <2>2 DEF LugaresYGrado, Unicos, SinDuplicados, Esta
    <3>2. QED
      BY <3>1 DEF Admitidos
  <2>4. Admitidos' = Admitidos \cup {p}
    <3>1. \A q \in Procesos :
            (\E x \in Lugares \ {"new_queue"} : Esta(q, x)')
              <=> (q = p \/ \E x \in Lugares \ {"new_queue"} : Esta(q, x))
      BY <1>1, <2>2 DEF Llevado
    <3>2. QED
      BY <2>2, <3>1 DEF Admitidos
  <2>5. Cardinality(Admitidos)' = Cardinality(Admitidos) + 1
    BY <2>3, <2>4, AdmitidosFinitos, FS_AddElement
  <2>6. sem'["grado_multiprogramacion"] = sem["grado_multiprogramacion"] - 1
    BY <1>1, <1>2, <1>4 DEF Mover, Sincronizar, TypeOK
  <2>7. sem["grado_multiprogramacion"] \in Nat
    BY <1>1 DEF TypeOK
  <2>8. QED
    BY <2>1, <2>5, <2>6, <2>7, AdmitidosFinitos
       DEF LugaresYGrado, GradoRespetado
<1>5. QED
  BY <1>3, <1>4

LEMMA PasoNuevo ==
  ASSUME TypeOK, LugaresYGrado, NEW p \in Procesos, NuevoProceso(p)
  PROVE  LugaresYGrado'
<1> DEFINE s == cola["new_queue"]
<1>1. "new_queue" \in Lugares /\ "grado_multiprogramacion" \in Semaforos
  BY Nombres DEF Colas, SemaforosSincro
<1>2. s \in Seq(Procesos) /\ Len(s) \in Nat /\ DOMAIN s = 1 .. Len(s)
  BY <1>1, LenProperties DEF TypeOK
<1>3. /\ consola[p] = "conectada"
      /\ consola' = [consola EXCEPT ![p] = "esperando"]
      /\ cola' = [cola EXCEPT !["new_queue"] = Append(s, p)]
      /\ fin' = fin
  BY DEF NuevoProceso
<1>4. \A x \in Lugares : ~ Esta(p, x)
  BY <1>3 DEF LugaresYGrado, Unicos, SinPerdidos
<1>5. /\ Append(s, p) \in Seq(Procesos)
      /\ DOMAIN Append(s, p) = 1 .. Len(s) + 1
      /\ \A k \in 1 .. Len(s) : Append(s, p)[k] = s[k]
      /\ Append(s, p)[Len(s) + 1] = p
  BY <1>2, AppendProperties, LenProperties
<1>6. /\ cola'["new_queue"] = Append(s, p)
      /\ \A x \in Lugares \ {"new_queue"} : cola'[x] = cola[x]
  BY <1>1, <1>3 DEF TypeOK
<1>7. \A q \in Procesos, x \in Lugares :
        Esta(q, x)' <=> Esta(q, x) \/ (q = p /\ x = "new_queue")
  <2> TAKE q \in Procesos, x \in Lugares
  <2>1. CASE x = "new_queue"
    BY <1>2, <1>5, <1>6, <2>1, SMTT(30) DEF Esta
  <2>2. CASE x # "new_queue"
    BY <1>6, <2>2 DEF Esta
  <2>3. QED
    BY <2>1, <2>2
<1>8. SinDuplicados'
  <2> SUFFICES ASSUME NEW x \in Lugares, NEW y \in Lugares,
                      NEW j \in DOMAIN cola'[x], NEW k \in DOMAIN cola'[y],
                      cola'[x][j] = cola'[y][k]
               PROVE  x = y /\ j = k
    BY DEF SinDuplicados
  <2> DEFINE Nuevo(z, n) == z = "new_queue" /\ n = Len(s) + 1
  <2>1. \A z \in Lugares : \A n \in DOMAIN cola'[z] :
          ~ Nuevo(z, n) => n \in DOMAIN cola[z] /\ cola'[z][n] = cola[z][n]
    BY <1>2, <1>5, <1>6, SMTT(30)
  <2>2. \A z \in Lugares : \A n \in DOMAIN cola'[z] :
          ~ Nuevo(z, n) => cola'[z][n] # p
    BY <1>4, <2>1 DEF Esta
  <2>3. \A z \in Lugares : \A n \in DOMAIN cola'[z] :
          Nuevo(z, n) => cola'[z][n] = p
    BY <1>5, <1>6
  <2>4. CASE Nuevo(x, j)
    BY <2>2, <2>3, <2>4
  <2>5. CASE ~ Nuevo(x, j)
    <3>1. ~ Nuevo(y, k)
      BY <2>2, <2>3, <2>5
    <3>2. QED
      BY <2>1, <2>5, <3>1 DEF LugaresYGrado, Unicos, SinDuplicados
  <2>6. QED
    BY <2>4, <2>5
<1>9. SinPerdidos'
  BY <1>1, <1>3, <1>7
     DEF LugaresYGrado, Unicos, SinPerdidos, TypeOK
<1>10. Admitidos' = Admitidos
  <2>1. \A q \in Procesos :
          (\E x \in Lugares \ {"new_queue"} : Esta(q, x)')
            <=> (\E x \in Lugares \ {"new_queue"} : Esta(q, x))
    BY <1>7
  <2>2. QED
    BY <2>1 DEF Admitidos
<1>11. sem'["grado_multiprogramacion"] = sem["grado_multiprogramacion"]
  BY <1>1 DEF NuevoProceso, Sincronizar, TypeOK
<1>12. \A q \in fin' : consola'[q] # "conectada"
  BY <1>3 DEF LugaresYGrado, Unicos, TypeOK
<1>13. QED
  BY <1>8, <1>9, <1>10, <1>11, <1>12 DEF LugaresYGrado, Unicos, GradoRespetado

LEMMA PasoFinalizar ==
  ASSUME TypeOK, LugaresYGrado, Finalizar PROVE LugaresYGrado'
<1> DEFINE s == cola["exit_queue"]
           p == Head(s)
<1>1. /\ "exit_queue" \in Lugares /\ "exit_queue" # "new_queue"
      /\ "grado_multiprogramacion" \in Semaforos
  BY Nombres DEF Colas, SemaforosSincro
<1>2. consola' = consola
  BY DEF Finalizar, consolas
<1>3. CASE s = <<>>
  BY <1>2, <1>3, PasoQuieto DEF Finalizar, TypeOK
<1>4. CASE s # <<>>
  <2>1. /\ Sincronizar({"finish_process"}, {"grado_multiprogramacion"})
        /\ cola' = [cola EXCEPT !["exit_queue"] = Tail(s)]
        /\ fin' = fin \cup {p}
    BY <1>4 DEF Finalizar
  <2>2. /\ s \in Seq(Procesos) /\ Len(s) \in Nat \ {0}
        /\ DOMAIN s = 1 .. Len(s) /\ p = s[1] /\ p \in Procesos
    BY <1>1, <1>4, LenProperties, EmptySeq, HeadTailProperties DEF TypeOK
  <2>3. /\ DOMAIN Tail(s) = 1 .. Len(s) - 1
        /\ \A k \in 1 .. Len(s) - 1 : Tail(s)[k] = s[k + 1]
    BY <1>4, <2>2
  <2>4. /\ cola'["exit_queue"] = Tail(s)
        /\ \A x \in Lugares \ {"exit_queue"} : cola'[x] = cola[x]
    BY <1>1, <2>1 DEF TypeOK
  <2> HIDE DEF s, p
  <2>5. Esta(p, "exit_queue")
    BY <2>2 DEF Esta, s
  <2>6. \A x \in Lugares : \A k \in DOMAIN cola[x] :
          cola[x][k] = p => x = "exit_queue" /\ k = 1
    BY <1>1, <2>2 DEF LugaresYGrado, Unicos, SinDuplicados, s
  <2>7. \A q \in Procesos, x \in Lugares : Esta(q, x)' <=> Esta(q, x) /\ q # p
    <3> TAKE q \in Procesos, x \in Lugares
    <3>1. CASE x # "exit_queue"
      BY <2>4, <2>6, <3>1 DEF Esta
    <3>2. CASE x = "exit_queue"
      <4>1. ASSUME Esta(q, x)' PROVE Esta(q, x) /\ q # p
        <5>1. PICK k \in 1 .. Len(s) - 1 : Tail(s)[k] = q
          BY <2>3, <2>4, <3>2, <4>1 DEF Esta
        <5>2. k + 1 \in DOMAIN s /\ s[k + 1] = q /\ k + 1 # 1
          BY <2>2, <2>3, <5>1
        <5>3. QED
          BY <2>6, <3>2, <5>2 DEF Esta, s
      <4>2. ASSUME Esta(q, x), q # p PROVE Esta(q, x)'
        <5>1. PICK k \in DOMAIN s : s[k] = q
          BY <3>2, <4>2 DEF Esta, s
        <5>2. k - 1 \in 1 .. Len(s) - 1
          BY <2>2, <4>2, <5>1
        <5>3. Tail(s)[k - 1] = q
          BY <2>2, <2>3, <5>1, <5>2
        <5>4. QED
          BY <2>3, <2>4, <3>2, <5>2, <5>3 DEF Esta
      <4>3. QED
        BY <4>1, <4>2
    <3>3. QED
      BY <3>1, <3>2
  <2>8. SinDuplicados'
    <3> SUFFICES ASSUME NEW x \in Lugares, NEW y \in Lugares,
                        NEW j \in DOMAIN cola'[x], NEW k \in DOMAIN cola'[y],
                        cola'[x][j] = cola'[y][k]
                 PROVE  x = y /\ j = k
      BY DEF SinDuplicados
    <3> DEFINE Antes(z, n) == IF z = "exit_queue" THEN n + 1 ELSE n
    <3>1. \A z \in Lugares : \A n \in DOMAIN cola'[z] :
            /\ Antes(z, n) \in DOMAIN cola[z]
            /\ cola'[z][n] = cola[z][Antes(z, n)]
      <4> TAKE z \in Lugares
      <4>1. CASE z = "exit_queue"
        <5>1. DOMAIN cola[z] = 1 .. Len(s) /\ DOMAIN cola'[z] = 1 .. Len(s) - 1
          BY <2>2, <2>3, <2>4, <4>1 DEF s
        <5>2. \A n \in 1 .. Len(s) - 1 : n + 1 \in 1 .. Len(s)
          BY <2>2
        <5>3. QED
          BY <2>3, <2>4, <4>1, <5>1, <5>2 DEF s
      <4>2. CASE z # "exit_queue"
        BY <2>4, <4>2
      <4>3. QED
        BY <4>1, <4>2
    <3> HIDE DEF Antes
    <3>2. x = y /\ Antes(x, j) = Antes(y, k)
      BY <3>1 DEF LugaresYGrado, Unicos, SinDuplicados
    <3>3. x = "exit_queue" => j \in Nat /\ k \in Nat
      BY <2>2, <2>3, <2>4, <3>2
    <3>4. QED
      BY <3>2, <3>3 DEF Antes
  <2>9. SinPerdidos'
    BY <1>2, <2>1, <2>5, <2>7, <1>1 DEF LugaresYGrado, Unicos, SinPerdidos
  <2>10. \A q \in fin' : consola'[q] # "conectada"
    BY <1>1, <1>2, <2>1, <2>2, <2>5 DEF LugaresYGrado, Unicos, SinPerdidos
  <2>11. p \in Admitidos /\ Admitidos' = Admitidos \ {p}
    <3>1. \A q \in Procesos :
            (\E x \in Lugares \ {"new_queue"} : Esta(q, x)')
              <=> (\E x \in Lugares \ {"new_queue"} : Esta(q, x)) /\ q # p
      BY <2>7
    <3>2. QED
      BY <1>1, <2>2, <2>5, <3>1 DEF Admitidos
  <2>12. Cardinality(Admitidos)' = Cardinality(Admitidos) - 1
    BY <2>11, AdmitidosFinitos, FS_RemoveElement
  <2>13. sem["grado_multiprogramacion"] \in Nat
    BY <1>1 DEF TypeOK
  <2>14. sem'["grado_multiprogramacion"] = sem["grado_multiprogramacion"] + 1
    BY <1>1, <2>1, <2>13 DEF Sincronizar
  <2>15. QED
    BY <2>8, <2>9, <2>10, <2>12, <2>13, <2>14, AdmitidosFinitos
       DEF LugaresYGrado, Unicos, GradoRespetado
<1>5. QED
  BY <1>3, <1>4

LEMMA LugaresPaso == TypeOK /\ LugaresYGrado /\ Next => LugaresYGrado'
<1> SUFFICES ASSUME TypeOK, LugaresYGrado, Next PROVE LugaresYGrado'
  OBVIOUS
<1> USE DEF consolas
<1>1. CASE CrearEstructuras
  <2>1. MoverAdmitido({}, "a_memoria", 1, "de_memoria", {})
    BY <1>1, Nombres DEF CrearEstructuras, MoverAdmitido, Colas
  <2>2. QED
    BY <2>1, PasoMover
<1>2. CASE IndiceActualizado
  <2>1. MoverAdmitido({},
                      "de_memoria",
                      1, ColaReady("PCB"),
                      {})
    BY <1>2, Nombres DEF IndiceActualizado, AgregarAReady, MoverAdmitido, Colas
  <2>2. QED
    BY <2>1, PasoMover
<1>3. CASE ElegirListo
  <2>1. MoverAdmitido({"pcbs_en_ready", "cpu_libre"},
                      IF cola["ready1_list"] = <<>> /\ Algoritmo = "FEEDBACK"
                      THEN "ready2_list" ELSE "ready1_list",
                      1, "running_queue",
                      {"enviar_pcb_a_cpu"})
    BY <1>3, Nombres DEF ElegirListo, MoverAdmitido, Colas
  <2>2. QED
    BY <2>1, PasoMover
<1>4. CASE EnviarACpu
  <2>1. MoverAdmitido({"enviar_pcb_a_cpu"}, "running_queue", 1, "cpu", {})
    BY <1>4, Nombres DEF EnviarACpu, MoverAdmitido, Colas
  <2>2. QED
    BY <2>1, PasoMover
<1>5. CASE DesalojarPorQuantum
  <2>1. MoverAdmitido({},
                      "cpu",
                      1, ColaReady("INTERRUPCION"),
                      {})
    BY <1>5, Nombres DEF DesalojarPorQuantum, AgregarAReady, MoverAdmitido, Colas
  <2>2. QED
    BY <2>1, PasoMover
<1>6. CASE BloquearPorPageFault
  <2>1. MoverAdmitido({},
                      "cpu",
                      1, "blocked_page_fault_queue",
                      {"atender_pf", "cpu_libre"})
    BY <1>6, Nombres DEF BloquearPorPageFault, Archivar, MoverAdmitido, Colas
  <2>2. QED
    BY <2>1, PasoMover
<1>7. CASE TerminarProceso
  <2>1. MoverAdmitido({},
                      "cpu",
                      1, "exit_queue",
                      {"finish_process", "cpu_libre"})
    BY <1>7, Nombres DEF TerminarProceso, Archivar, MoverAdmitido, Colas
  <2>2. QED
    BY <2>1, PasoMover
<1>8. CASE DesbloquearPageFault
  <2>1. MoverAdmitido({"desbloquear_por_pf"},
                      "blocked_page_fault_queue",
                      1, ColaReady("PCB"),
                      {})
    BY <1>8, Nombres DEF DesbloquearPageFault, AgregarAReady, MoverAdmitido, Colas
  <2>2. QED
    BY <2>1, PasoMover
<1>9. ASSUME NEW d \in Dispositivos, BloquearPorIO(d) PROVE LugaresYGrado'
  <2>1. MoverAdmitido({}, "cpu", 1, "blocked_io_list", {d, "cpu_libre"})
    BY <1>9, Nombres, DispositivosAssumption DEF BloquearPorIO, Archivar, MoverAdmitido, Colas, SemaforosSincro
  <2>2. QED
    BY <2>1, PasoMover
<1>10. ASSUME NEW h \in Perifericos, BloquearPorPeriferico(h) PROVE LugaresYGrado'
  <2>1. MoverAdmitido({}, "cpu", 1, Lista(h), {SemaforoDe(h), "cpu_libre"})
    BY <1>10, Nombres DEF BloquearPorPeriferico, Archivar, MoverAdmitido, Colas
  <2>2. QED
    BY <2>1, PasoMover
<1>11. ASSUME NEW d \in Dispositivos, AtenderEnDispositivo(d) PROVE LugaresYGrado'
  <2>1. MoverAdmitido({}, "blocked_io_list", BuscarPcbABloquear(d), d, {})
    BY <1>11, Nombres, DispositivosAssumption DEF AtenderEnDispositivo, MoverAdmitido, Colas, SemaforosSincro
  <2>2. QED
    BY <2>1, PasoMover
<1>12. ASSUME NEW d \in Dispositivos, TerminarIO(d) PROVE LugaresYGrado'
  <2>1. MoverAdmitido({},
                      d,
                      1, ColaReady("BLOQUEAR_PROCESO_IO"),
                      {})
    BY <1>12, Nombres, DispositivosAssumption DEF TerminarIO, AgregarAReady, MoverAdmitido, Colas, SemaforosSincro
  <2>2. QED
    BY <2>1, PasoMover
<1>13. ASSUME NEW p \in Procesos, Desbloquear(p) PROVE LugaresYGrado'
  <2>1. MoverAdmitido({},
                      Lista(conexion[p].lista),
                      conexion[p].indice, ColaReady(Respuesta(conexion[p].lista)),
                      {})
    BY <1>13, Nombres DEF Desbloquear, AgregarAReady, MoverAdmitido, Colas
  <2>2. QED
    BY <2>1, PasoMover
<1>14. CASE AdmitirProceso
  BY <1>14, PasoAdmitir
<1>15. ASSUME NEW p \in Procesos, NuevoProceso(p) PROVE LugaresYGrado'
  BY <1>15, PasoNuevo
<1>16. CASE Finalizar
  BY <1>16, PasoFinalizar
<1>17. CASE UNCHANGED <<cola, sem, consola, fin>>
  BY <1>17, PasoQuieto DEF TypeOK
<1>18. ASSUME NEW p \in Procesos, ConsolaTermina(p) PROVE LugaresYGrado'
  <2>1. \A q \in Procesos : consola'[q] = "conectada" <=> consola[q] = "conectada"
    BY <1>18 DEF ConsolaTermina, TypeOK
  <2>2. QED
    BY <1>18, <2>1, PasoQuieto DEF ConsolaTermina, TypeOK
<1>19. ASSUME NEW d \in Dispositivos, TomarMutexIO(d) PROVE LugaresYGrado'
  <2>1. sem'["grado_multiprogramacion"] = sem["grado_multiprogramacion"]
    BY <1>19, Nombres, DispositivosAssumption
       DEF TomarMutexIO, Sincronizar, TypeOK, SemaforosSincro
  <2>2. QED
    BY <1>19, <2>1, PasoQuieto DEF TomarMutexIO, TypeOK
<1>20. ASSUME NEW h \in Perifericos, TomarMutex(h) PROVE LugaresYGrado'
  <2>1. sem'["grado_multiprogramacion"] = sem["grado_multiprogramacion"]
    <3>1. SemaforoDe(h) # "grado_multiprogramacion"
      BY DEF SemaforoDe
    <3>2. "grado_multiprogramacion" \in Semaforos
      BY Nombres DEF SemaforosSincro
    <3>3. QED
      BY <1>20, <3>1, <3>2 DEF TomarMutex, Sincronizar, TypeOK
  <2>2. QED
    BY <1>20, <2>1, PasoQuieto DEF TomarMutex, TypeOK
<1>21. CASE PageFaultAtendido
  <2>1. sem'["grado_multiprogramacion"] = sem["grado_multiprogramacion"]
    BY <1>21, Nombres DEF PageFaultAtendido, Sincronizar, TypeOK, SemaforosSincro
  <2>2. QED
    BY <1>21, <2>1, PasoQuieto DEF PageFaultAtendido, TypeOK
<1>22. ASSUME NEW t, TerminarDeMostrar(t) PROVE LugaresYGrado'
  <2>1. sem'["grado_multiprogramacion"] = sem["grado_multiprogramacion"]
    BY <1>22, MostrarEfecto, Nombres DEF SemaforosSincro
  <2> QED
    BY <1>22, <2>1, MostrarEfecto, PasoQuieto DEF TypeOK
<1>23. CASE AccionQuieta
  BY <1>17, <1>23, QuietaEfecto
<1>24. QED
  BY <1>1, <1>2, <1>3, <1>4, <1>5, <1>6, <1>7, <1>8, <1>9, <1>10, <1>11, <1>12,
     <1>13, <1>14, <1>15, <1>16, <1>18, <1>19, <1>20, <1>21, <1>22, <1>23
     DEF Next, Dispatch, HiloMemoria, HiloPageFault, HiloDispositivo, Manejador,
         Consola, HiloConsola, AccionQuieta

LEMMA LugaresInicial == Init => LugaresYGrado
<1> SUFFICES ASSUME Init PROVE LugaresYGrado
  OBVIOUS
<1>1. \A x \in Lugares : cola[x] = <<>>
  BY DEF Init
<1>2. \A x \in Lugares : \A p : ~ Esta(p, x)
  BY <1>1 DEF Esta
<1>3. Admitidos = {}
  BY <1>2 DEF Admitidos
<1>4. Cardinality(Admitidos) = 0
  BY <1>3, FS_EmptySet
<1>5. sem["grado_multiprogramacion"] = GradoMax
  BY Nombres DEF Init, SemaforosSincro
<1>6. Unicos
  BY <1>1, <1>2 DEF Init, Unicos, SinDuplicados, SinPerdidos
<1>7. QED
  BY <1>4, <1>5, <1>6, GradoAssumption DEF LugaresYGrado, GradoRespetado

LEMMA LugaresInvariante == Spec => []LugaresYGrado
<1>1. LugaresYGrado /\ UNCHANGED vars => LugaresYGrado'
  BY DEF LugaresYGrado, Unicos, SinDuplicados, SinPerdidos, GradoRespetado,
         Admitidos, Esta, vars, consolas
<1>2. QED
  BY TipoCorrecto, LugaresInicial, LugaresPaso, <1>1, PTL DEF Spec

\* From the creation of its PCB to the free of finalizador_procesos every
\* process is in one place of the scheduler and in no other, however the threads
\* that hand it over are interleaved.
THEOREM LugarCorrecto == Spec => []UnSoloLugar
<1>1. LugaresYGrado => UnSoloLugar
  BY DEF LugaresYGrado, Unicos, UnSoloLugar
<1>2. QED
  BY LugaresInvariante, <1>1, PTL

\* GRADO_MAX_MULTIPROGRAMACION is respected and no place of it is ever lost,
\* however processes end.
THEOREM GradoCorrecto == Spec => []GradoRespetado
<1>1. LugaresYGrado => GradoRespetado
  BY DEF LugaresYGrado
<1>2. QED
  BY LugaresInvariante, <1>1, PTL

-----------------------------------------------------------------------------
(* The life cycle *)

\* The refinement mapping.
EstadoAbstracto == [p \in Procesos |-> EstadoDe(p)]

\* The cpu stops a process for its quantum only where there are quantums.
QuantumConDesalojo == estado_proceso = "INTERRUPCION" => TieneDesalojo

InvCiclo == TypeOK /\ LugaresYGrado /\ Cuentas /\ QuantumConDesalojo

-----------------------------------------------------------------------------
(* The state of a process is that of the one place it is in *)

LEMMA EstadoEnLugar ==
  ASSUME Unicos, NEW p \in Procesos, NEW c \in Lugares, Esta(p, c)
  PROVE  EstadoDe(p) = EstadoDeLugar(c)
<1>1. p \notin fin
  BY DEF Unicos, SinPerdidos
<1>2. \A x \in Lugares : Esta(p, x) => x = c
  BY DEF Unicos, SinDuplicados, Esta
<1>3. (CHOOSE x \in Lugares : Esta(p, x)) = c
  BY <1>2
<1> QED
  BY <1>1, <1>3 DEF EstadoDe

\* The same of the next state.
LEMMA EstadoEnLugarDespues ==
  ASSUME Unicos', NEW p \in Procesos, NEW c \in Lugares, Esta(p, c)'
  PROVE  EstadoDe(p)' = EstadoDeLugar(c)
<1>1. p \notin fin'
  BY DEF Unicos, SinPerdidos
<1>2. \A x \in Lugares : Esta(p, x)' => x = c
  BY DEF Unicos, SinDuplicados, Esta
<1>3. (CHOOSE x \in Lugares : Esta(p, x)') = c
  BY <1>2
<1> QED
  BY <1>1, <1>3 DEF EstadoDe

\* Who stays where it was, freed or not, keeps its state.
LEMMA EstadoQuieto ==
  ASSUME Unicos, Unicos', NEW p \in Procesos,
         p \in fin' <=> p \in fin,
         \A c \in Lugares : Esta(p, c)' <=> Esta(p, c)
  PROVE  EstadoDe(p)' = EstadoDe(p)
<1>1. CASE \E c \in Lugares : Esta(p, c)
  BY <1>1, EstadoEnLugar, EstadoEnLugarDespues
<1>2. CASE ~ \E c \in Lugares : Esta(p, c)
  BY <1>2 DEF EstadoDe
<1> QED
  BY <1>1, <1>2

\* If only p changes its state, the abstract step is a Pasa of p.
LEMMA SoloUnoPasa ==
  ASSUME NEW p \in Procesos, NEW desde, NEW hasta,
         EstadoDe(p) = desde, EstadoDe(p)' = hasta,
         \A q \in Procesos \ {p} : EstadoDe(q)' = EstadoDe(q)
  PROVE  Ciclo!Pasa(p, desde, hasta)
<1>1. [q \in Procesos |-> EstadoDe(q)]' =
        [[q \in Procesos |-> EstadoDe(q)] EXCEPT ![p] = hasta]
  OBVIOUS
<1> QED
  BY <1>1 DEF Ciclo!Pasa

\* A Mover is a Pasa of the PCB it moves.
LEMMA MoverPasa ==
  ASSUME TypeOK, Unicos, NEW W, NEW P,
         NEW c \in Lugares, NEW e \in Lugares, NEW i, c # e,
         Mover(W, c, i, e, P), UNCHANGED <<consola, fin>>
  PROVE  \/ UNCHANGED EstadoAbstracto
         \/ /\ Sincronizar(W, P)
            /\ \E p \in Procesos :
                 Esta(p, c) /\ Ciclo!Pasa(p, EstadoDeLugar(c), EstadoDeLugar(e))
<1>1. CASE i \notin DOMAIN cola[c]
  BY <1>1 DEF Mover, EstadoAbstracto, EstadoDe, Esta
<1>2. CASE i \in DOMAIN cola[c]
  <2>1. PICK p \in Procesos : Esta(p, c) /\ Llevado(p, e)
    BY <1>2, MoverLleva DEF Unicos
  <2>2. Unicos'
    BY <1>2, UnicosMover
  <2>3. Sincronizar(W, P)
    BY <1>2 DEF Mover
  <2>4. EstadoDe(p) = EstadoDeLugar(c)
    BY <2>1, EstadoEnLugar
  <2>5. EstadoDe(p)' = EstadoDeLugar(e)
    BY <2>1, <2>2, EstadoEnLugarDespues DEF Llevado
  <2>6. \A q \in Procesos \ {p} : EstadoDe(q)' = EstadoDe(q)
    BY <2>1, <2>2, EstadoQuieto DEF Llevado
  <2>7. Ciclo!Pasa(p, EstadoDeLugar(c), EstadoDeLugar(e))
    BY <2>1, <2>4, <2>5, <2>6, SoloUnoPasa
  <2> QED
    BY <2>1, <2>3, <2>7
<1> QED
  BY <1>1, <1>2

\* ... and a stutter when both places are the same state.
LEMMA MoverMudo ==
  ASSUME TypeOK, Unicos, NEW W, NEW P,
         NEW c \in Lugares, NEW e \in Lugares, NEW i, c # e,
         Mover(W, c, i, e, P), UNCHANGED <<consola, fin>>,
         EstadoDeLugar(c) = EstadoDeLugar(e)
  PROVE  UNCHANGED EstadoAbstracto
<1> DEFINE s == EstadoDeLugar(c)
<1>1. ASSUME NEW p \in Procesos, Ciclo!Pasa(p, s, s) PROVE UNCHANGED EstadoAbstracto
  BY <1>1 DEF Ciclo!Pasa, EstadoAbstracto
<1> QED
  BY <1>1, MoverPasa

-----------------------------------------------------------------------------
(* Each step is one of the life cycle, or none *)

\* Who has a state other than the first and the last is in a place of that state.
LEMMA LugarDeEstado ==
  ASSUME NEW p \in Procesos, EstadoDe(p) \notin {"SIN_CREAR", "LIBERADO"}
  PROVE  \E c \in Lugares : Esta(p, c) /\ EstadoDe(p) = EstadoDeLugar(c)
<1>1. p \notin fin /\ \E c \in Lugares : Esta(p, c)
  BY DEF EstadoDe
<1>2. /\ (CHOOSE c \in Lugares : Esta(p, c)) \in Lugares
      /\ Esta(p, CHOOSE c \in Lugares : Esta(p, c))
  BY <1>1
<1> QED
  BY <1>1, <1>2 DEF EstadoDe

LEMMA EstadosDeLugares ==
  /\ \A c \in {"new_queue", "a_memoria", "de_memoria"} : EstadoDeLugar(c) = "NEW"
  /\ EstadoDeLugar("ready1_list") = "READY1"
  /\ EstadoDeLugar("ready2_list") = "READY2"
  /\ \A c \in {"running_queue", "cpu"} : EstadoDeLugar(c) = "RUNNING"
  /\ EstadoDeLugar("blocked_page_fault_queue") = "BLOQUEADO_PAGE_FAULT"
  /\ EstadoDeLugar("blocked_screen_list") = "BLOQUEADO_PANTALLA"
  /\ EstadoDeLugar("blocked_keyboard_list") = "BLOQUEADO_TECLADO"
  /\ EstadoDeLugar("exit_queue") = "EXIT_S"
  /\ \A d \in Dispositivos \cup {"blocked_io_list"} : EstadoDeLugar(d) = "BLOQUEADO_IO"
BY Nombres DEF EstadoDeLugar, Colas

\* The places of each state.
LEMMA LugaresDeEstado ==
  ASSUME NEW c \in Lugares
  PROVE  /\ EstadoDeLugar(c) = "RUNNING" => c \in {"running_queue", "cpu"}
         /\ EstadoDeLugar(c) = "READY1" => c = "ready1_list"
         /\ c = "new_queue" => EstadoDeLugar(c) = "NEW"
BY DEF EstadoDeLugar

\* A process that is not active yet has a place among the active ones.
LEMMA HayGrado ==
  ASSUME InvCiclo, NEW p \in Procesos, Esta(p, "de_memoria")
  PROVE  Cardinality(Ciclo!Activos) < GradoMax
<1>1. "de_memoria" \in Lugares \ {"new_queue"} /\ "grado_multiprogramacion" \in Semaforos
  BY Nombres DEF Colas, SemaforosSincro
<1>2. p \in Admitidos
  BY <1>1 DEF Admitidos
<1>3. EstadoDe(p) = "NEW"
  BY <1>1, EstadoEnLugar, EstadosDeLugares DEF InvCiclo, LugaresYGrado
<1>4. Ciclo!Activos = {q \in Procesos : EstadoDe(q) \notin {"SIN_CREAR", "NEW", "LIBERADO"}}
  BY DEF Ciclo!Activos
<1>5. \A q \in Procesos : EstadoDe(q) \notin {"SIN_CREAR", "NEW", "LIBERADO"} =>
        \E c \in Lugares \ {"new_queue"} : Esta(q, c)
  BY LugarDeEstado, LugaresDeEstado
<1>6. Ciclo!Activos \subseteq Admitidos \ {p}
  BY <1>3, <1>4, <1>5 DEF Admitidos
<1>7. /\ IsFiniteSet(Admitidos \ {p})
      /\ Cardinality(Admitidos \ {p}) = Cardinality(Admitidos) - 1
  BY <1>2, AdmitidosFinitos, FS_RemoveElement
<1>8. Cardinality(Ciclo!Activos) <= Cardinality(Admitidos \ {p})
  BY <1>6, <1>7, FS_Subset
<1>9. /\ sem["grado_multiprogramacion"] \in Nat
      /\ sem["grado_multiprogramacion"] + Cardinality(Admitidos) = GradoMax
  BY <1>1 DEF InvCiclo, TypeOK, LugaresYGrado, GradoRespetado
<1>10. IsFiniteSet(Ciclo!Activos) /\ Cardinality(Ciclo!Activos) \in Nat
  BY <1>6, <1>7, FS_Subset, FS_CardinalityType
<1> QED
  BY <1>7, <1>8, <1>9, <1>10, AdmitidosFinitos, GradoAssumption

\* While cpu_libre is up nobody runs.
LEMMA NadieCorre ==
  ASSUME InvCiclo, sem["cpu_libre"] > 0
  PROVE  Ciclo!EnEstado("RUNNING") = {}
<1>1. /\ cola["running_queue"] \in Seq(Procesos) /\ Len(cola["running_queue"]) \in Nat
      /\ cola["cpu"] \in Seq(Procesos) /\ Len(cola["cpu"]) \in Nat
      /\ sem["cpu_libre"] \in Nat
  BY Nombres, LenProperties DEF InvCiclo, TypeOK, Colas, SemaforosSincro
<1>2. Len(cola["running_queue"]) = 0 /\ Len(cola["cpu"]) = 0
  <2>1. /\ sem["cpu_libre"] + Len(cola["running_queue"]) + Len(cola["cpu"])
             + Cuenta("conexion_dispatch", mostrando) = 1
        /\ Cuenta("conexion_dispatch", mostrando) \in Nat
    BY DEF InvCiclo, Cuentas, CpuExclusiva, Cuenta
  <2>2. \A a, b, c, d \in Nat : a + b + c + d = 1 /\ a > 0 => b = 0 /\ c = 0
    OBVIOUS
  <2> QED
    BY <1>1, <2>1, <2>2
<1>3. DOMAIN cola["running_queue"] = {} /\ DOMAIN cola["cpu"] = {}
  BY <1>1, <1>2
<1>4. \A p \in Procesos : EstadoDe(p) # "RUNNING"
  BY <1>3, LugarDeEstado, LugaresDeEstado DEF Esta
<1> QED
  BY <1>4 DEF Ciclo!EnEstado

LEMMA NadieEnReady1 ==
  ASSUME cola["ready1_list"] = <<>>
  PROVE  Ciclo!EnEstado("READY1") = {}
<1>1. \A p \in Procesos : EstadoDe(p) # "READY1"
  BY LugarDeEstado, LugaresDeEstado DEF Esta
<1> QED
  BY <1>1 DEF Ciclo!EnEstado

\* The instance of the abstract module brings its own copy of Cardinality.
LEMMA MismaCardinalidad == \A S : Ciclo!Cardinality(S) = Cardinality(S)
BY DEF Cardinality, Ciclo!Cardinality, IsFiniteSet, Ciclo!IsFiniteSet

PasoAbstracto == Ciclo!Next \/ UNCHANGED EstadoAbstracto

\* What the steps that only move PCBs leave alone.
LEMMA QuietoMudo ==
  ASSUME UNCHANGED <<cola, fin>> PROVE UNCHANGED EstadoAbstracto
BY DEF EstadoAbstracto, EstadoDe, Esta

LEMMA PasoAdmitirMudo ==
  ASSUME TypeOK, Unicos, AdmitirProceso \/ CrearEstructuras
  PROVE  UNCHANGED EstadoAbstracto
<1>1. {"new_queue", "a_memoria", "de_memoria"} \subseteq Lugares
  BY Nombres DEF Colas
<1>2. CASE AdmitirProceso
  BY <1>1, <1>2, MoverMudo, EstadosDeLugares DEF AdmitirProceso, consolas
<1>3. CASE CrearEstructuras
  BY <1>1, <1>3, MoverMudo, EstadosDeLugares DEF CrearEstructuras, consolas
<1> QED
  BY <1>2, <1>3

LEMMA PasoRunningMudo ==
  ASSUME TypeOK, Unicos, EnviarACpu PROVE UNCHANGED EstadoAbstracto
<1>1. "running_queue" \in Lugares /\ "cpu" \in Lugares
  BY Nombres DEF Colas
<1> QED
  BY <1>1, MoverMudo, EstadosDeLugares DEF EnviarACpu, consolas

LEMMA PasoDispositivoMudo ==
  ASSUME TypeOK, Unicos, NEW d \in Dispositivos, AtenderEnDispositivo(d)
  PROVE  UNCHANGED EstadoAbstracto
<1>1. /\ "blocked_io_list" \in Lugares /\ d \in Lugares /\ d # "blocked_io_list"
      /\ EstadoDeLugar(d) = EstadoDeLugar("blocked_io_list")
  BY Nombres, EstadosDeLugares, DispositivosAssumption DEF Colas
<1> QED
  BY <1>1, MoverMudo DEF AtenderEnDispositivo, consolas

LEMMA PasoIndice ==
  ASSUME InvCiclo, IndiceActualizado PROVE PasoAbstracto
<1>1. /\ "de_memoria" \in Lugares /\ "ready1_list" \in Lugares
      /\ ColaReady("PCB") = "ready1_list"
      /\ EstadoDeLugar("de_memoria") = "NEW"
      /\ EstadoDeLugar("ready1_list") = "READY1"
  BY Nombres, EstadosDeLugares DEF Colas, ColaReady
<1>2. \/ UNCHANGED EstadoAbstracto
      \/ \E p \in Procesos : Esta(p, "de_memoria") /\ Ciclo!Pasa(p, "NEW", "READY1")
  BY <1>1, MoverPasa
     DEF IndiceActualizado, AgregarAReady, consolas, InvCiclo, LugaresYGrado
<1>3. ASSUME NEW p \in Procesos, Esta(p, "de_memoria"),
             Ciclo!Pasa(p, "NEW", "READY1")
      PROVE  Ciclo!Admitir(p)
  BY <1>3, HayGrado, MismaCardinalidad DEF Ciclo!Admitir
<1> QED
  BY <1>2, <1>3 DEF PasoAbstracto, Ciclo!Next

LEMMA PasoElegir ==
  ASSUME InvCiclo, ElegirListo PROVE PasoAbstracto
<1> DEFINE c == IF cola["ready1_list"] = <<>> /\ Algoritmo = "FEEDBACK"
                THEN "ready2_list" ELSE "ready1_list"
           W == {"pcbs_en_ready", "cpu_libre"}
<1>1. /\ {"ready1_list", "ready2_list", "running_queue"} \subseteq Lugares
      /\ EstadoDeLugar("ready1_list") = "READY1"
      /\ EstadoDeLugar("ready2_list") = "READY2"
      /\ EstadoDeLugar("running_queue") = "RUNNING"
  BY Nombres, EstadosDeLugares DEF Colas
<1>2. Mover(W, c, 1, "running_queue", {"enviar_pcb_a_cpu"})
      /\ UNCHANGED <<consola, fin>>
  BY DEF ElegirListo, consolas
<1>3. c \in {"ready1_list", "ready2_list"}
      /\ (c = "ready2_list" => cola["ready1_list"] = <<>>)
  OBVIOUS
<1> HIDE DEF c
<1>4. \/ UNCHANGED EstadoAbstracto
      \/ /\ Sincronizar(W, {"enviar_pcb_a_cpu"})
         /\ \E p \in Procesos : Ciclo!Pasa(p, EstadoDeLugar(c), "RUNNING")
  BY <1>1, <1>2, <1>3, MoverPasa DEF InvCiclo, LugaresYGrado
<1>5. ASSUME NEW p \in Procesos, Sincronizar(W, {"enviar_pcb_a_cpu"}),
             Ciclo!Pasa(p, EstadoDeLugar(c), "RUNNING")
      PROVE  Ciclo!Despachar(p)
  <2>1. Ciclo!EnEstado("RUNNING") = {}
    BY <1>5, NadieCorre DEF Sincronizar
  <2>2. CASE c = "ready1_list"
    BY <1>1, <1>5, <2>1, <2>2 DEF Ciclo!Despachar
  <2>3. CASE c = "ready2_list"
    BY <1>1, <1>3, <1>5, <2>1, <2>3, NadieEnReady1 DEF Ciclo!Despachar
  <2> QED
    BY <1>3, <2>2, <2>3
<1> QED
  BY <1>4, <1>5 DEF PasoAbstracto, Ciclo!Next

\* Where dispatch files a PCB is the state it goes to.
LEMMA ArchivarPasa ==
  ASSUME InvCiclo, NEW codigos, NEW e \in Lugares, NEW s, e # "cpu",
         Archivar(codigos, e, s)
  PROVE  \/ UNCHANGED EstadoAbstracto
         \/ \E p \in Procesos : Ciclo!Pasa(p, "RUNNING", EstadoDeLugar(e))
<1>1. "cpu" \in Lugares /\ EstadoDeLugar("cpu") = "RUNNING"
  BY Nombres, EstadosDeLugares DEF Colas
<1> QED
  BY <1>1, MoverPasa DEF Archivar, consolas, InvCiclo, LugaresYGrado

LEMMA PasoDesalojar ==
  ASSUME InvCiclo, DesalojarPorQuantum PROVE PasoAbstracto
<1> DEFINE e == ColaReady("INTERRUPCION")
<1>1. e \in Lugares /\ e # "cpu" /\ e \in {"ready1_list", "ready2_list"}
  BY Nombres DEF Colas
<1>2. \/ Algoritmo = "RR" /\ EstadoDeLugar(e) = "READY1"
      \/ Algoritmo = "FEEDBACK" /\ EstadoDeLugar(e) = "READY2"
  BY AlgoritmoAssumption, EstadosDeLugares
     DEF DesalojarPorQuantum, InvCiclo, QuantumConDesalojo,
         TieneDesalojo, ColaReady
<1>3. \/ UNCHANGED EstadoAbstracto
      \/ \E p \in Procesos : Ciclo!Pasa(p, "RUNNING", EstadoDeLugar(e))
  <2>1. "cpu" \in Lugares /\ EstadoDeLugar("cpu") = "RUNNING"
    BY Nombres, EstadosDeLugares DEF Colas
  <2> HIDE DEF e
  <2>2. Mover({}, "cpu", 1, e, {}) /\ UNCHANGED <<consola, fin>>
    BY DEF DesalojarPorQuantum, AgregarAReady, consolas, e
  <2> QED
    BY <1>1, <2>1, <2>2, MoverPasa DEF InvCiclo, LugaresYGrado
<1> QED
  BY <1>2, <1>3 DEF PasoAbstracto, Ciclo!Next, Ciclo!Desalojar

LEMMA PasoBloquear ==
  ASSUME InvCiclo,
         \/ BloquearPorPageFault
         \/ \E d \in Dispositivos : BloquearPorIO(d)
         \/ \E h \in Perifericos : BloquearPorPeriferico(h)
  PROVE  PasoAbstracto
<1> DEFINE Bloqueos == {"blocked_page_fault_queue", "blocked_io_list",
                        "blocked_screen_list", "blocked_keyboard_list"}
<1>1. \E e \in Bloqueos : \E codigos, s : Archivar(codigos, e, s)
  BY Nombres DEF BloquearPorPageFault, BloquearPorIO, BloquearPorPeriferico
<1>2. \A e \in Bloqueos :
        e \in Lugares /\ e # "cpu" /\ EstadoDeLugar(e) \in Ciclo!Bloqueados
  BY Nombres, EstadosDeLugares DEF Colas, Ciclo!Bloqueados
<1> HIDE DEF Bloqueos
<1>3. \/ UNCHANGED EstadoAbstracto
      \/ \E p \in Procesos, b \in Ciclo!Bloqueados : Ciclo!Pasa(p, "RUNNING", b)
  BY <1>1, <1>2, ArchivarPasa
<1> QED
  BY <1>3 DEF PasoAbstracto, Ciclo!Next, Ciclo!Bloquear

LEMMA PasoTerminar ==
  ASSUME InvCiclo, TerminarProceso PROVE PasoAbstracto
<1>1. "exit_queue" \in Lugares /\ EstadoDeLugar("exit_queue") = "EXIT_S"
  BY Nombres, EstadosDeLugares DEF Colas
<1>2. \/ UNCHANGED EstadoAbstracto
      \/ \E p \in Procesos : Ciclo!Pasa(p, "RUNNING", "EXIT_S")
  BY <1>1, ArchivarPasa DEF TerminarProceso
<1> QED
  BY <1>2 DEF PasoAbstracto, Ciclo!Next, Ciclo!Salir

LEMMA PasoDespertar ==
  ASSUME InvCiclo,
         \/ DesbloquearPageFault
         \/ \E d \in Dispositivos : TerminarIO(d)
         \/ \E p \in Procesos : Desbloquear(p)
  PROVE  PasoAbstracto
<1> DEFINE Bloqueos == {"blocked_page_fault_queue", "blocked_screen_list",
                        "blocked_keyboard_list"} \cup Dispositivos
<1>1. \A m : m # "INTERRUPCION" => ColaReady(m) = "ready1_list"
  BY DEF ColaReady
<1>2. \A h : Respuesta(h) # "INTERRUPCION"
  BY DEF Respuesta
<1>3. \E c \in Bloqueos : \E W, i, P : Mover(W, c, i, "ready1_list", P)
  <2>1. CASE DesbloquearPageFault
    BY <1>1, <2>1 DEF DesbloquearPageFault, AgregarAReady
  <2>2. ASSUME NEW d \in Dispositivos, TerminarIO(d)
        PROVE  \E W, i, P : Mover(W, d, i, "ready1_list", P)
    BY <1>1, <2>2 DEF TerminarIO, AgregarAReady
  <2>3. ASSUME NEW p \in Procesos, Desbloquear(p)
        PROVE  \E W, i, P :
                 Mover(W, Lista(conexion[p].lista), i, "ready1_list", P)
    BY <1>1, <1>2, <2>3 DEF Desbloquear, AgregarAReady
  <2> QED
    BY <2>1, <2>2, <2>3, Nombres
<1>4. UNCHANGED <<consola, fin>>
  BY DEF DesbloquearPageFault, TerminarIO, Desbloquear, consolas
<1>5. /\ "ready1_list" \in Lugares /\ EstadoDeLugar("ready1_list") = "READY1"
      /\ \A c \in Bloqueos :
           c \in Lugares /\ c # "ready1_list"
           /\ EstadoDeLugar(c) \in Ciclo!Bloqueados
  BY Nombres, EstadosDeLugares, DispositivosAssumption
     DEF Colas, Ciclo!Bloqueados
<1> HIDE DEF Bloqueos
<1>6. \/ UNCHANGED EstadoAbstracto
      \/ \E p \in Procesos, b \in Ciclo!Bloqueados : Ciclo!Pasa(p, b, "READY1")
  BY <1>3, <1>4, <1>5, MoverPasa DEF InvCiclo, LugaresYGrado
<1> QED
  BY <1>6 DEF PasoAbstracto, Ciclo!Next, Ciclo!Despertar

LEMMA PasoCrear ==
  ASSUME InvCiclo, NEW p \in Procesos, NuevoProceso(p) PROVE PasoAbstracto
<1> DEFINE s == cola["new_queue"]
<1>1. Unicos /\ Unicos'
  BY PasoNuevo DEF InvCiclo, LugaresYGrado
<1>2. /\ "new_queue" \in Lugares
      /\ s \in Seq(Procesos) /\ Len(s) \in Nat /\ DOMAIN s = 1 .. Len(s)
  BY Nombres, LenProperties DEF InvCiclo, TypeOK, Colas
<1>3. /\ consola[p] = "conectada" /\ fin' = fin
      /\ cola' = [cola EXCEPT !["new_queue"] = Append(s, p)]
  BY DEF NuevoProceso
<1>4. /\ cola'["new_queue"] = Append(s, p)
      /\ \A x \in Lugares \ {"new_queue"} : cola'[x] = cola[x]
  BY <1>2, <1>3 DEF InvCiclo, TypeOK
<1>5. /\ DOMAIN Append(s, p) = 1 .. Len(s) + 1
      /\ \A k \in 1 .. Len(s) : Append(s, p)[k] = s[k]
      /\ Append(s, p)[Len(s) + 1] = p
  BY <1>2, AppendProperties, LenProperties
<1> HIDE DEF s
<1>6. Esta(p, "new_queue")'
  BY <1>2, <1>4, <1>5 DEF Esta
<1>7. \A q \in Procesos \ {p}, x \in Lugares : Esta(q, x)' <=> Esta(q, x)
  <2> TAKE q \in Procesos \ {p}, x \in Lugares
  <2>1. CASE x = "new_queue"
    BY <1>2, <1>4, <1>5, <2>1, SMTT(30) DEF Esta, s
  <2>2. CASE x # "new_queue"
    BY <1>4, <2>2 DEF Esta
  <2> QED
    BY <2>1, <2>2
<1>8. EstadoDe(p) = "SIN_CREAR"
  BY <1>1, <1>3 DEF Unicos, SinPerdidos, EstadoDe
<1>9. EstadoDe(p)' = "NEW"
  BY <1>1, <1>2, <1>6, EstadoEnLugarDespues, EstadosDeLugares
<1>10. \A q \in Procesos \ {p} : EstadoDe(q)' = EstadoDe(q)
  BY <1>1, <1>3, <1>7, EstadoQuieto
<1>11. Ciclo!Crear(p)
  BY <1>8, <1>9, <1>10, SoloUnoPasa DEF Ciclo!Crear
<1> QED
  BY <1>11 DEF PasoAbstracto, Ciclo!Next

LEMMA PasoLiberar ==
  ASSUME InvCiclo, Finalizar PROVE PasoAbstracto
<1> DEFINE s == cola["exit_queue"]
<1>1. Unicos /\ Unicos'
  BY PasoFinalizar DEF InvCiclo, LugaresYGrado
<1>2. "exit_queue" \in Lugares /\ s \in Seq(Procesos)
  BY Nombres DEF InvCiclo, TypeOK, Colas
<1>3. CASE s = <<>>
  BY <1>3, QuietoMudo DEF Finalizar, PasoAbstracto
<1>4. CASE s # <<>>
  <2>1. /\ Len(s) \in Nat \ {0} /\ DOMAIN s = 1 .. Len(s)
        /\ Head(s) = s[1] /\ Head(s) \in Procesos
    BY <1>2, <1>4, LenProperties, EmptySeq, HeadTailProperties
  <2>2. PICK p \in Procesos : p = Head(s)
    BY <2>1
  <2>3. /\ cola' = [cola EXCEPT !["exit_queue"] = Tail(s)]
        /\ fin' = fin \cup {p}
    BY <1>4, <2>2 DEF Finalizar
  <2>4. /\ cola'["exit_queue"] = Tail(s)
        /\ \A x \in Lugares \ {"exit_queue"} : cola'[x] = cola[x]
    BY <1>2, <2>3 DEF InvCiclo, TypeOK
  <2>5. /\ DOMAIN Tail(s) = 1 .. Len(s) - 1
        /\ \A k \in 1 .. Len(s) - 1 : Tail(s)[k] = s[k + 1]
    BY <1>2, <1>4, <2>1
  <2> HIDE DEF s
  <2>6. Esta(p, "exit_queue")
    BY <2>1, <2>2 DEF Esta, s
  <2>7. \A q \in Procesos \ {p}, x \in Lugares : Esta(q, x)' <=> Esta(q, x)
    <3> TAKE q \in Procesos \ {p}, x \in Lugares
    <3>1. CASE x # "exit_queue"
      BY <2>4, <3>1 DEF Esta
    <3>2. CASE x = "exit_queue"
      <4>1. ASSUME Esta(q, x)' PROVE Esta(q, x)
        <5>1. PICK k \in 1 .. Len(s) - 1 : Tail(s)[k] = q
          BY <2>4, <2>5, <3>2, <4>1 DEF Esta
        <5>2. k + 1 \in DOMAIN s /\ s[k + 1] = q
          BY <2>1, <2>5, <5>1
        <5> QED
          BY <3>2, <5>2 DEF Esta, s
      <4>2. ASSUME Esta(q, x) PROVE Esta(q, x)'
        <5>1. PICK k \in DOMAIN s : s[k] = q
          BY <3>2, <4>2 DEF Esta, s
        <5>2. k - 1 \in 1 .. Len(s) - 1
          BY <2>1, <2>2, <5>1
        <5>3. Tail(s)[k - 1] = q
          BY <2>1, <2>5, <5>1, <5>2
        <5> QED
          BY <2>4, <2>5, <3>2, <5>2, <5>3 DEF Esta
      <4> QED
        BY <4>1, <4>2
    <3> QED
      BY <3>1, <3>2
  <2>8. EstadoDe(p) = "EXIT_S"
    BY <1>1, <1>2, <2>6, EstadoEnLugar, EstadosDeLugares
  <2>9. EstadoDe(p)' = "LIBERADO"
    BY <2>3 DEF EstadoDe
  <2>10. \A q \in Procesos \ {p} : EstadoDe(q)' = EstadoDe(q)
    BY <1>1, <2>3, <2>7, EstadoQuieto
  <2>11. Ciclo!Liberar(p)
    BY <2>8, <2>9, <2>10, SoloUnoPasa DEF Ciclo!Liberar
  <2> QED
    BY <2>11 DEF PasoAbstracto, Ciclo!Next
<1> QED
  BY <1>3, <1>4

LEMMA CicloPaso == InvCiclo /\ Next => PasoAbstracto
<1> SUFFICES ASSUME InvCiclo, Next PROVE PasoAbstracto
  OBVIOUS
<1>1. CASE \/ AdmitirProceso \/ CrearEstructuras \/ EnviarACpu
           \/ \E d \in Dispositivos : AtenderEnDispositivo(d)
  BY <1>1, PasoAdmitirMudo, PasoRunningMudo, PasoDispositivoMudo
     DEF InvCiclo, LugaresYGrado, PasoAbstracto
<1>2. CASE \/ IndiceActualizado \/ ElegirListo \/ DesalojarPorQuantum
           \/ TerminarProceso \/ Finalizar
  BY <1>2, PasoIndice, PasoElegir, PasoDesalojar, PasoTerminar, PasoLiberar
<1>3. CASE \/ BloquearPorPageFault
           \/ \E d \in Dispositivos : BloquearPorIO(d)
           \/ \E h \in Perifericos : BloquearPorPeriferico(h)
  BY <1>3, PasoBloquear
<1>4. CASE \/ DesbloquearPageFault
           \/ \E d \in Dispositivos : TerminarIO(d)
           \/ \E p \in Procesos : Desbloquear(p)
  BY <1>4, PasoDespertar
<1>5. CASE \E p \in Procesos : NuevoProceso(p)
  BY <1>5, PasoCrear
<1>6. CASE UNCHANGED <<cola, fin>>
  BY <1>6, QuietoMudo DEF PasoAbstracto
<1>7. CASE AccionQuieta
  BY <1>6, <1>7, QuietaEfecto
<1>8. CASE \/ PageFaultAtendido
           \/ \E p \in Procesos : ConsolaTermina(p)
           \/ \E d \in Dispositivos : TomarMutexIO(d)
           \/ \E h \in Perifericos : TomarMutex(h)
           \/ \E t \in Hilos : TerminarDeMostrar(t)
  BY <1>6, <1>8 DEF PageFaultAtendido, ConsolaTermina, TomarMutexIO, TomarMutex,
                    TerminarDeMostrar
<1> QED
  BY <1>1, <1>2, <1>3, <1>4, <1>5, <1>7, <1>8, NombresDeHilos
     DEF Next, Dispatch, HiloMemoria, HiloPageFault, HiloDispositivo, Manejador,
         Consola, HiloConsola, AccionQuieta

LEMMA CicloInicial == Init => Ciclo!Init
<1> SUFFICES ASSUME Init PROVE Ciclo!Init
  OBVIOUS
<1>1. \A p \in Procesos : EstadoDe(p) = "SIN_CREAR"
  BY DEF Init, EstadoDe, Esta
<1> QED
  BY <1>1 DEF Ciclo!Init

LEMMA QuantumPaso ==
  TypeOK /\ QuantumConDesalojo /\ Next => QuantumConDesalojo'
<1> SUFFICES ASSUME QuantumConDesalojo, Next, estado_proceso' = "INTERRUPCION"
             PROVE  TieneDesalojo
  BY DEF QuantumConDesalojo, TieneDesalojo
<1>1. CASE \E p \in Procesos : EjecutarYSeguir(p)
  BY <1>1 DEF EjecutarYSeguir, TieneDesalojo
<1>2. \A ins : Respuesta(ins) # "INTERRUPCION"
  BY DEF Respuesta
<1>3. CASE \E p \in Procesos : EjecutarPageFault(p) \/ EjecutarYParar(p)
  BY <1>2, <1>3 DEF EjecutarPageFault, EjecutarYParar
<1>4. CASE \/ DesalojarPorQuantum \/ BloquearPorPageFault \/ TerminarProceso
           \/ \E d \in Dispositivos : BloquearPorIO(d)
           \/ \E h \in Perifericos : BloquearPorPeriferico(h)
  BY <1>4 DEF DesalojarPorQuantum, BloquearPorPageFault, TerminarProceso,
              BloquearPorIO, BloquearPorPeriferico, Archivar
<1>5. CASE UNCHANGED estado_proceso
  BY <1>5 DEF QuantumConDesalojo
<1>6. CASE \E p \in Procesos : Consola(p) \/ HiloConsola(p)
  BY <1>5, <1>6
     DEF Consola, HiloConsola, pcbs, ConsolaResponde, ConsolaTermina, AtenderConsola,
         BuscarIndice, CerrarConexion, Desbloquear, NuevoProceso, TerminarDeMostrar
<1>7. CASE \/ \E d \in Dispositivos : HiloDispositivo(d)
           \/ \E h \in Perifericos : Manejador(h)
  BY <1>5, <1>7
     DEF HiloDispositivo, Manejador, pcbs, AtenderEnDispositivo, TerminarIO, TomarMutexIO,
         TerminarDeMostrar, TomarMutex, LeerUltimo, PedirAConsola
<1>8. CASE \/ HiloMemoria \/ HiloPageFault \/ AdmitirProceso \/ CrearEstructuras
           \/ ElegirListo \/ EnviarACpu \/ ColgarDispatch \/ Finalizar
           \/ AtenderPageFault \/ TerminarDeMostrar("conexion_dispatch")
  BY <1>5, <1>8
     DEF HiloMemoria, HiloPageFault, pcbs, IndiceActualizado, PageFaultAtendido,
         DesbloquearPageFault, AdmitirProceso, CrearEstructuras, ElegirListo, EnviarACpu,
         ColgarDispatch, Finalizar, AtenderPageFault, TerminarDeMostrar
<1> QED
  BY <1>1, <1>3, <1>4, <1>6, <1>7, <1>8 DEF Next, Dispatch, Cpu

\* The threads, queues, semaphores and messages of the kernel implement the
\* life cycle a process is promised: one runs at a time, READY1 goes before
\* READY2, the degree bounds who is admitted, nobody changes state otherwise.
THEOREM CicloCorrecto == Spec => CicloRespetado
<1>1. Init => QuantumConDesalojo
  BY DEF Init, QuantumConDesalojo
<1>2. QuantumConDesalojo /\ UNCHANGED vars => QuantumConDesalojo'
  BY DEF QuantumConDesalojo, TieneDesalojo, vars, pcbs
<1>3. UNCHANGED vars => UNCHANGED EstadoAbstracto
  BY QuietoMudo DEF vars
<1>4. TypeOK /\ LugaresYGrado /\ Cuentas /\ QuantumConDesalojo => InvCiclo
  BY DEF InvCiclo
<1>5. InvCiclo /\ [Next]_vars => [Ciclo!Next]_EstadoAbstracto
  BY <1>3, CicloPaso DEF PasoAbstracto
<1> QED
  BY TipoCorrecto, LugaresInvariante, CuentasInvariante, QuantumPaso,
     CicloInicial, <1>1, <1>2, <1>4, <1>5, PTL
     DEF Spec, CicloRespetado, Ciclo!Spec, EstadoAbstracto

-----------------------------------------------------------------------------
(***************************************************************************)
(* The processes that wait for a page, a device, the screen or the         *)
(* keyboard, and what comes to wake them up, for any values of the         *)
(* constants.                                                              *)
(***************************************************************************)

-----------------------------------------------------------------------------
(* The messages of the consoles *)

\* Those of the other channels.
Resto(canal, p, h) ==
  UNION {{q} \X {i \in DOMAIN canal[q] : canal[q][i] = h} : q \in Procesos \ {p}}

LEMMA RestoFinito ==
  ASSUME NEW S, NEW canal \in [Procesos -> Seq(S)], NEW p, NEW h
  PROVE  IsFiniteSet(Resto(canal, p, h)) /\ Cardinality(Resto(canal, p, h)) \in Nat
<1> DEFINE I(q) == {i \in DOMAIN canal[q] : canal[q][i] = h}
           f == [q \in Procesos \ {p} |-> {q} \X I(q)]
           T == {{q} \X I(q) : q \in Procesos \ {p}}
<1>1. \A q \in Procesos : IsFiniteSet(I(q))
  BY PosicionesFinitas
<1>2. \A q \in Procesos : IsFiniteSet({q} \X I(q))
  BY <1>1, FS_Singleton, FS_Product
<1>3. f \in Surjection(Procesos \ {p}, T)
  BY DEF Surjection
<1>4. IsFiniteSet(T)
  <2>1. IsFiniteSet(Procesos \ {p})
    BY ProcesosAssumption, FS_RemoveElement
  <2> QED
    BY <1>3, <2>1, FS_Surjection
<1>5. \A U \in T : IsFiniteSet(U)
  BY <1>2
<1>6. Resto(canal, p, h) = UNION T
  BY DEF Resto
<1> HIDE DEF T
<1>7. IsFiniteSet(UNION T)
  BY <1>4, <1>5, FS_UNION
<1> QED
  BY <1>6, <1>7, FS_CardinalityType

\* The channel of p, and the others.
LEMMA MensajesDe ==
  ASSUME NEW S, NEW canal \in [Procesos -> Seq(S)], NEW p \in Procesos, NEW h
  PROVE  /\ Cardinality(Resto(canal, p, h)) \in Nat /\ Veces(canal[p], h) \in Nat
         /\ Mensajes(canal, h) = Cardinality(Resto(canal, p, h)) + Veces(canal[p], h)
<1> DEFINE I == {i \in DOMAIN canal[p] : canal[p][i] = h}
           R == Resto(canal, p, h)
           X == {p} \X I
<1>1. IsFiniteSet(R) /\ Cardinality(R) \in Nat
  BY RestoFinito
<1>2. IsFiniteSet(I) /\ Cardinality(I) \in Nat
  BY PosicionesFinitas
<1>3. EnCanal(canal, h) = R \cup X /\ R \cap X = {}
  BY DEF EnCanal, Resto
<1> HIDE DEF I, R
<1>8. IsFiniteSet({p}) /\ Cardinality({p}) = 1
  BY FS_Singleton
<1>4. /\ IsFiniteSet(X)
      /\ Cardinality(X) = Cardinality({p}) * Cardinality(I)
  BY <1>2, <1>8, FS_Product
<1> HIDE DEF X
<1>5. Cardinality(X) = Cardinality(I)
  BY <1>2, <1>4, <1>8
<1>6. Cardinality(R \cup X) = Cardinality(R) + Cardinality(X) - Cardinality(R \cap X)
  BY <1>1, <1>4, FS_Union
<1>7. Cardinality(EnCanal(canal, h)) = Cardinality(R) + Cardinality(I)
  <2>1. Cardinality(EnCanal(canal, h)) = Cardinality(R \cup X)
    BY <1>3, Zenon
  <2>2. Cardinality(R \cap X) = 0
    BY <1>3, FS_EmptySet, Zenon
  <2> QED
    BY <1>1, <1>2, <1>5, <1>6, <2>1, <2>2
<1> QED
  BY <1>1, <1>2, <1>7 DEF Mensajes, Veces, I, R

\* A message more in the channel of p, and one less.
Agregado(canal, nuevo, p, m) == nuevo = [canal EXCEPT ![p] = Append(@, m)]
Quitado(canal, nuevo, p) == nuevo = [canal EXCEPT ![p] = Tail(@)]

LEMMA MensajeAgregado ==
  ASSUME NEW S, NEW canal \in [Procesos -> Seq(S)], NEW p \in Procesos,
         NEW m \in S, NEW nuevo, Agregado(canal, nuevo, p, m), NEW h
  PROVE  /\ Mensajes(canal, h) \in Nat
         /\ Mensajes(nuevo, h) = Mensajes(canal, h) + (IF m = h THEN 1 ELSE 0)
<1>1. nuevo \in [Procesos -> Seq(S)] /\ nuevo[p] = Append(canal[p], m)
  BY AppendProperties DEF Agregado
<1>2. Resto(nuevo, p, h) = Resto(canal, p, h)
  BY DEF Resto, Agregado
<1>3. /\ Veces(canal[p], h) \in Nat
      /\ Veces(nuevo[p], h) = Veces(canal[p], h) + (IF m = h THEN 1 ELSE 0)
  BY <1>1, VecesAgregar
<1>4. /\ Cardinality(Resto(canal, p, h)) \in Nat
      /\ Mensajes(canal, h) = Cardinality(Resto(canal, p, h)) + Veces(canal[p], h)
      /\ Mensajes(nuevo, h) = Cardinality(Resto(nuevo, p, h)) + Veces(nuevo[p], h)
  BY <1>1, MensajesDe
<1>5. /\ Mensajes(canal, h) \in Nat
      /\ Mensajes(nuevo, h) = Mensajes(canal, h) + (IF m = h THEN 1 ELSE 0)
  BY <1>2, <1>3, <1>4
<1> QED
  BY <1>5

LEMMA MensajeQuitado ==
  ASSUME NEW S, NEW canal \in [Procesos -> Seq(S)], NEW p \in Procesos,
         canal[p] # <<>>, NEW nuevo, Quitado(canal, nuevo, p), NEW h
  PROVE  /\ Mensajes(canal, h) \in Nat /\ Mensajes(nuevo, h) \in Nat
         /\ Mensajes(canal, h)
              = Mensajes(nuevo, h) + (IF Head(canal[p]) = h THEN 1 ELSE 0)
<1>1. nuevo \in [Procesos -> Seq(S)] /\ nuevo[p] = Tail(canal[p])
  BY HeadTailProperties DEF Quitado
<1>2. Resto(nuevo, p, h) = Resto(canal, p, h)
  BY DEF Resto, Quitado
<1>3. /\ Veces(canal[p], h) \in Nat /\ Veces(nuevo[p], h) \in Nat
      /\ Veces(canal[p], h)
           = Veces(nuevo[p], h) + (IF Head(canal[p]) = h THEN 1 ELSE 0)
  BY <1>1, VecesQuitar
<1>4. /\ Cardinality(Resto(canal, p, h)) \in Nat
      /\ Mensajes(canal, h) = Cardinality(Resto(canal, p, h)) + Veces(canal[p], h)
      /\ Mensajes(nuevo, h) = Cardinality(Resto(nuevo, p, h)) + Veces(nuevo[p], h)
  BY <1>1, MensajesDe
<1>5. /\ Mensajes(canal, h) \in Nat /\ Mensajes(nuevo, h) \in Nat
      /\ Mensajes(canal, h)
           = Mensajes(nuevo, h) + (IF Head(canal[p]) = h THEN 1 ELSE 0)
  BY <1>2, <1>3, <1>4
<1> QED
  BY <1>5

-----------------------------------------------------------------------------
(* The devices: one wake-up per process that waits for each *)

\* A Mover leaves the other places and the other semaphores alone.
LEMMA MoverAjeno ==
  ASSUME TypeOK, NEW W, NEW P, NEW c \in Lugares, NEW e \in Lugares, NEW i,
         c # e, Mover(W, c, i, e, P)
  PROVE  /\ \A x \in Lugares \ {c, e} : cola'[x] = cola[x]
         /\ \A s \in Semaforos \ (W \cup P) : sem'[s] = sem[s]
<1>1. CASE i \notin DOMAIN cola[c]
  BY <1>1 DEF Mover
<1>2. CASE i \in DOMAIN cola[c]
  <2>1. /\ \A x \in Lugares \ {c, e} : cola'[x] = cola[x]
        /\ Sincronizar(W, P)
    BY <1>2, MoverEfecto, SMTT(40) DEF TypeOK
  <2> QED
    BY <2>1 DEF Sincronizar, TypeOK
<1> QED
  BY <1>1, <1>2

\* A process is in one place.
LEMMA EnOtroLugar ==
  ASSUME Unicos, NEW p, NEW c \in Lugares, NEW e \in Lugares, c # e, Esta(p, c)
  PROVE  ~ Esta(p, e)
BY DEF Unicos, SinDuplicados, Esta

\* The processes that wait for d, in the list all the devices share.
EnEspera(d) == {p \in Procesos : Esta(p, "blocked_io_list") /\ Anterior(p) = d}

EsperaContada ==
  \A d \in Dispositivos :
     sem[d] + (IF d \in con_mutex THEN 1 ELSE 0) = Cardinality(EnEspera(d))

LEMMA EsperaFinita ==
  ASSUME NEW d
  PROVE  IsFiniteSet(EnEspera(d)) /\ Cardinality(EnEspera(d)) \in Nat
<1>1. EnEspera(d) \subseteq Procesos
  BY DEF EnEspera
<1> QED
  BY <1>1, ProcesosAssumption, FS_Subset, FS_CardinalityType

\* To count positions of the list or processes in it is the same.
LEMMA EsperaEsDispositivo ==
  TypeOK /\ Unicos /\ EsperaContada => DispositivoContado
<1> SUFFICES ASSUME TypeOK, Unicos, EsperaContada, NEW d \in Dispositivos
             PROVE  sem[d] + (IF d \in con_mutex THEN 1 ELSE 0) =
                      Cardinality({i \in DOMAIN cola["blocked_io_list"] :
                                     Anterior(cola["blocked_io_list"][i]) = d})
  BY DEF DispositivoContado
<1> DEFINE s == cola["blocked_io_list"]
           I == {i \in DOMAIN s : Anterior(s[i]) = d}
           B == {s[i] : i \in I}
<1>1. "blocked_io_list" \in Lugares
  BY Nombres DEF Colas
<1>2. s \in Seq(Procesos) /\ \A i \in DOMAIN s : s[i] \in Procesos
  BY <1>1, LenProperties DEF TypeOK
<1>3. \A i, j \in DOMAIN s : s[i] = s[j] => i = j
  BY <1>1 DEF Unicos, SinDuplicados
<1>4. EnEspera(d) = B /\ I \in SUBSET DOMAIN s
  BY <1>2 DEF EnEspera, Esta
<1> HIDE DEF s, I
<1>5. Cardinality(I) = Cardinality(B)
  BY <1>2, <1>3, <1>4, ContarUnicos
<1>6. Cardinality(I) = Cardinality(EnEspera(d))
  BY <1>4, <1>5, Zenon
<1> QED
  BY <1>6 DEF EsperaContada, s, I

\* buscar_pcb_a_bloquear finds a process of d if there is one.
LEMMA BuscarEncuentra ==
  ASSUME TypeOK, NEW d \in Dispositivos, EnEspera(d) # {}
  PROVE  /\ BuscarPcbABloquear(d) \in DOMAIN cola["blocked_io_list"]
         /\ Anterior(cola["blocked_io_list"][BuscarPcbABloquear(d)]) = d
<1> DEFINE s == cola["blocked_io_list"]
           A == {i \in DOMAIN s : Anterior(s[i]) = d}
<1>1. DOMAIN s = 1 .. Len(s) /\ Len(s) \in Nat
  BY Nombres, LenProperties DEF TypeOK, Colas
<1>2. A # {} /\ A \subseteq Nat
  BY <1>1 DEF EnEspera, Esta
<1>3. \E i \in A : \A j \in A : ~ (j < i)
  BY <1>2, Primero
<1>4. \E i \in DOMAIN s : /\ Anterior(s[i]) = d
                          /\ \A j \in 1 .. i - 1 : ~ (Anterior(s[j]) = d)
  BY <1>1, <1>3
<1>5. \E i \in DOMAIN s : Anterior(s[i]) = d
  BY <1>4
<1> HIDE DEF s, A
<1>6. BuscarPcbABloquear(d)
        = CHOOSE i \in DOMAIN s :
            Anterior(s[i]) = d /\ \A j \in 1 .. i - 1 : ~ (Anterior(s[j]) = d)
  BY <1>5 DEF BuscarPcbABloquear, s
<1> QED
  BY <1>4, <1>6 DEF s

LEMMA EsperaQuieta ==
  ASSUME EsperaContada,
         cola'["blocked_io_list"] = cola["blocked_io_list"],
         \A p \in Procesos :
           Esta(p, "blocked_io_list") => Anterior(p)' = Anterior(p),
         \A d \in Dispositivos : sem'[d] = sem[d],
         \A d \in Dispositivos : d \in con_mutex' <=> d \in con_mutex
  PROVE  EsperaContada'
<1>1. \A d \in Dispositivos : EnEspera(d)' = EnEspera(d)
  BY DEF EnEspera, Esta
<1> QED
  BY <1>1 DEF EsperaContada

LEMMA EsperaMoverAjeno ==
  ASSUME TypeOK, EsperaContada,
         NEW W, NEW P, NEW c \in Lugares, NEW e \in Lugares, NEW i,
         c # e, "blocked_io_list" \notin {c, e}, W \cup P \subseteq SemaforosSincro,
         Mover(W, c, i, e, P), UNCHANGED <<lista_instrucciones, pc, con_mutex>>
  PROVE  EsperaContada'
<1>1. cola'["blocked_io_list"] = cola["blocked_io_list"]
  BY MoverAjeno, Nombres DEF Colas
<1>2. \A d \in Dispositivos : sem'[d] = sem[d]
  <2>1. \A d \in Dispositivos : d \in Semaforos \ (W \cup P)
    BY Nombres, DispositivosAssumption
  <2>2. \A s \in Semaforos \ (W \cup P) : sem'[s] = sem[s]
    BY MoverAjeno
  <2> QED
    BY <2>1, <2>2
<1> QED
  BY <1>1, <1>2, EsperaQuieta DEF Anterior

\* One more process waits for d.
LEMMA PasoBloquearPorIO ==
  ASSUME TypeOK, Unicos, EsperaContada, NEW d \in Dispositivos, BloquearPorIO(d)
  PROVE  EsperaContada'
<1> DEFINE io == "blocked_io_list"
<1>1. /\ io \in Lugares /\ "cpu" \in Lugares /\ d \in Semaforos
      /\ "cpu_libre" \notin Dispositivos
  BY Nombres, DispositivosAssumption DEF Colas, SemaforosSincro
<1>2. /\ Mover({}, "cpu", 1, io, {d, "cpu_libre"})
      /\ d = Anterior(Head(cola["cpu"]))
      /\ UNCHANGED <<lista_instrucciones, pc, con_mutex>>
  BY DEF BloquearPorIO, Archivar, manejadores
<1>3. CASE 1 \notin DOMAIN cola["cpu"]
  BY <1>2, <1>3, EsperaQuieta DEF Mover, Anterior
<1>4. CASE 1 \in DOMAIN cola["cpu"]
  <2>1. cola["cpu"] \in Seq(Procesos) /\ Head(cola["cpu"]) = cola["cpu"][1]
    BY <1>1 DEF TypeOK
  <2>2. PICK p \in Procesos : p = cola["cpu"][1] /\ Esta(p, "cpu") /\ Llevado(p, io)
    BY <1>1, <1>2, <1>4, MoverLleva DEF Unicos
  <2>3. ~ Esta(p, io) /\ Anterior(p) = d
    BY <1>1, <1>2, <2>1, <2>2, EnOtroLugar
  <2>4. \A q \in Procesos : Esta(q, io)' <=> Esta(q, io) \/ q = p
    BY <1>1, <2>2 DEF Llevado
  <2>5. \A q \in Procesos : Anterior(q)' = Anterior(q)
    BY <1>2 DEF Anterior
  <2>6. EnEspera(d)' = EnEspera(d) \cup {p} /\ p \notin EnEspera(d)
    BY <2>3, <2>4, <2>5 DEF EnEspera
  <2>7. \A x \in Dispositivos \ {d} : EnEspera(x)' = EnEspera(x)
    BY <2>3, <2>4, <2>5 DEF EnEspera
  <2>8. Sincronizar({}, {d, "cpu_libre"})
    BY <1>2, <1>4 DEF Mover
  <2>9. sem[d] \in Nat /\ sem'[d] = sem[d] + 1
    BY <1>1, <2>8 DEF Sincronizar, TypeOK
  <2>10. \A x \in Dispositivos \ {d} : sem'[x] = sem[x]
    BY <1>1, <2>8, Nombres DEF Sincronizar, TypeOK
  <2>11. Cardinality(EnEspera(d))' = Cardinality(EnEspera(d)) + 1
    BY <2>6, EsperaFinita, FS_AddElement
  <2>12. sem'[d] + (IF d \in con_mutex' THEN 1 ELSE 0) = Cardinality(EnEspera(d))'
    BY <1>2, <2>9, <2>11 DEF EsperaContada
  <2> QED
    BY <1>2, <2>7, <2>10, <2>12 DEF EsperaContada
<1> QED
  BY <1>3, <1>4

\* The thread of d takes out a process that waits for d, and there is one.
LEMMA PasoAtenderEnDispositivo ==
  ASSUME TypeOK, Unicos, EsperaContada, NEW d \in Dispositivos,
         AtenderEnDispositivo(d)
  PROVE  EsperaContada' /\ UNCHANGED vivo
<1> DEFINE io == "blocked_io_list"
           i == BuscarPcbABloquear(d)
<1>1. /\ io \in Lugares /\ d \in Lugares /\ d # io /\ sem[d] \in Nat
  BY Nombres, DispositivosAssumption DEF Colas, TypeOK
<1>2. /\ Mover({}, io, i, d, {}) /\ d \in con_mutex /\ con_mutex' = con_mutex \ {d}
      /\ UNCHANGED <<lista_instrucciones, pc>>
  BY DEF AtenderEnDispositivo, pcbs
<1>3. Cardinality(EnEspera(d)) = sem[d] + 1 /\ IsFiniteSet(EnEspera(d))
  BY <1>2, EsperaFinita DEF EsperaContada
<1>4. EnEspera(d) # {}
  BY <1>1, <1>3, FS_EmptySet
<1>5. i \in DOMAIN cola[io] /\ Anterior(cola[io][i]) = d
  BY <1>4, BuscarEncuentra
<1> HIDE DEF i
<1>6. PICK p \in Procesos : p = cola[io][i] /\ Esta(p, io) /\ Llevado(p, d)
  BY <1>1, <1>2, <1>5, MoverLleva DEF Unicos
<1>7. \A q \in Procesos : Esta(q, io)' <=> Esta(q, io) /\ q # p
  BY <1>1, <1>6 DEF Llevado
<1>8. \A q \in Procesos : Anterior(q)' = Anterior(q)
  BY <1>2 DEF Anterior
<1>9. EnEspera(d)' = EnEspera(d) \ {p} /\ p \in EnEspera(d)
  BY <1>5, <1>6, <1>7, <1>8 DEF EnEspera
<1>10. \A x \in Dispositivos \ {d} : EnEspera(x)' = EnEspera(x)
  BY <1>5, <1>6, <1>7, <1>8 DEF EnEspera
<1>11. Sincronizar({}, {}) /\ vivo' = vivo
  BY <1>2, <1>5 DEF Mover
<1>12. \A x \in Dispositivos : sem'[x] = sem[x]
  BY <1>11, Nombres DEF Sincronizar, TypeOK
<1>13. Cardinality(EnEspera(d))' = Cardinality(EnEspera(d)) - 1
  BY <1>3, <1>9, FS_RemoveElement
<1>14. sem'[d] + (IF d \in con_mutex' THEN 1 ELSE 0) = Cardinality(EnEspera(d))'
  BY <1>1, <1>2, <1>3, <1>12, <1>13
<1> QED
  BY <1>2, <1>10, <1>11, <1>12, <1>14 DEF EsperaContada

LEMMA PasoTomarMutexIO ==
  ASSUME TypeOK, EsperaContada, NEW d \in Dispositivos, TomarMutexIO(d)
  PROVE  EsperaContada'
<1>1. /\ d \notin con_mutex /\ con_mutex' = con_mutex \cup {d}
      /\ Sincronizar({d}, {}) /\ UNCHANGED <<cola, lista_instrucciones, pc>>
  BY DEF TomarMutexIO, MutexIOTomado, pcbs
<1>2. /\ sem[d] \in Nat /\ sem'[d] = sem[d] - 1
      /\ \A x \in Dispositivos \ {d} : sem'[x] = sem[x]
  BY <1>1, Nombres DEF Sincronizar, TypeOK
<1>3. \A x \in Dispositivos : EnEspera(x)' = EnEspera(x)
  BY <1>1 DEF EnEspera, Esta, Anterior
<1> QED
  BY <1>1, <1>2, <1>3 DEF EsperaContada

\* The process in the cpu is in no list.
LEMMA EnCpuNoEspera ==
  ASSUME TypeOK, Unicos, NEW p, NEW ins, EnCpu(p, ins),
         NEW c \in Lugares, c # "cpu"
  PROVE  Esta(p, "cpu") /\ ~ Esta(p, c)
<1>1. /\ "cpu" \in Lugares /\ cola["cpu"] \in Seq(Procesos) /\ cola["cpu"] # <<>>
      /\ p = Head(cola["cpu"])
  BY Nombres DEF EnCpu, TypeOK, Colas
<1>2. 1 \in DOMAIN cola["cpu"] /\ p = cola["cpu"][1]
  BY <1>1
<1> QED
  BY <1>1, <1>2, EnOtroLugar DEF Esta

LEMMA EsperaPaso ==
  TypeOK /\ Unicos /\ EsperaContada /\ Next => EsperaContada'
<1> SUFFICES ASSUME TypeOK, Unicos, EsperaContada, Next PROVE EsperaContada'
  OBVIOUS
<1> USE DEF pcbs, manejadores
<1>0. "blocked_io_list" \in Lugares
  BY Nombres DEF Colas
<1>1. CASE AdmitirProceso
  BY <1>1, EsperaMoverAjeno, Nombres DEF AdmitirProceso, Colas, SemaforosSincro
<1>2. CASE CrearEstructuras
  BY <1>2, EsperaMoverAjeno, Nombres DEF CrearEstructuras, Colas, SemaforosSincro
<1>3. CASE IndiceActualizado
  BY <1>3, EsperaMoverAjeno, Nombres
     DEF IndiceActualizado, AgregarAReady, ColaReady, Colas, SemaforosSincro
<1>4. CASE ElegirListo
  BY <1>4, EsperaMoverAjeno, Nombres DEF ElegirListo, Colas, SemaforosSincro
<1>5. CASE EnviarACpu
  BY <1>5, EsperaMoverAjeno, Nombres DEF EnviarACpu, Colas, SemaforosSincro
<1>6. CASE DesalojarPorQuantum
  BY <1>6, EsperaMoverAjeno, Nombres
     DEF DesalojarPorQuantum, AgregarAReady, ColaReady, Colas, SemaforosSincro
<1>7. CASE BloquearPorPageFault
  BY <1>7, EsperaMoverAjeno, Nombres
     DEF BloquearPorPageFault, Archivar, Colas, SemaforosSincro
<1>8. CASE TerminarProceso
  BY <1>8, EsperaMoverAjeno, Nombres
     DEF TerminarProceso, Archivar, Colas, SemaforosSincro
<1>9. CASE DesbloquearPageFault
  BY <1>9, EsperaMoverAjeno, Nombres
     DEF DesbloquearPageFault, AgregarAReady, ColaReady, Colas, SemaforosSincro
<1>10. ASSUME NEW h \in Perifericos, BloquearPorPeriferico(h) PROVE EsperaContada'
  BY <1>10, EsperaMoverAjeno, Nombres
     DEF BloquearPorPeriferico, Archivar, Colas, SemaforosSincro
<1>11. ASSUME NEW d \in Dispositivos, TerminarIO(d) PROVE EsperaContada'
  BY <1>0, <1>11, EsperaMoverAjeno, Nombres, DispositivosAssumption
     DEF TerminarIO, AgregarAReady, ColaReady, Colas, SemaforosSincro
<1>12. ASSUME NEW p \in Procesos, Desbloquear(p) PROVE EsperaContada'
  BY <1>12, EsperaMoverAjeno, Nombres
     DEF Desbloquear, AgregarAReady, ColaReady, Colas, SemaforosSincro
<1>13. ASSUME NEW d \in Dispositivos,
              BloquearPorIO(d) \/ AtenderEnDispositivo(d) \/ TomarMutexIO(d)
       PROVE  EsperaContada'
  BY <1>13, PasoBloquearPorIO, PasoAtenderEnDispositivo, PasoTomarMutexIO
<1>14. ASSUME NEW p \in Procesos, Cpu(p) PROVE EsperaContada'
  <2>1. /\ UNCHANGED <<cola, sem, lista_instrucciones, con_mutex>>
        /\ \A q \in Procesos \ {p} : pc'[q] = pc[q]
        /\ \E ins : EnCpu(p, ins)
    BY <1>14 DEF Cpu, EjecutarYSeguir, EjecutarPageFault, EjecutarYParar, TypeOK
  <2>2. ~ Esta(p, "blocked_io_list")
    BY <1>0, <2>1, EnCpuNoEspera
  <2> QED
    BY <2>1, <2>2, EsperaQuieta DEF Anterior
<1>15. ASSUME NEW p \in Procesos, NuevoProceso(p) PROVE EsperaContada'
  <2>1. ~ Esta(p, "blocked_io_list")
    BY <1>0, <1>15 DEF NuevoProceso, Unicos, SinPerdidos
  <2>2. /\ cola'["blocked_io_list"] = cola["blocked_io_list"]
        /\ UNCHANGED <<pc, con_mutex>>
        /\ \A q \in Procesos \ {p} : lista_instrucciones'[q] = lista_instrucciones[q]
    BY <1>0, <1>15 DEF NuevoProceso, TypeOK
  <2>3. \A d \in Dispositivos : sem'[d] = sem[d]
    BY <1>15, Nombres, DispositivosAssumption, SMTT(40)
       DEF NuevoProceso, Sincronizar, TypeOK, SemaforosSincro
  <2> QED
    BY <2>1, <2>2, <2>3, EsperaQuieta DEF Anterior
<1>16. CASE Finalizar
  <2>1. cola'["blocked_io_list"] = cola["blocked_io_list"]
    BY <1>0, <1>16 DEF Finalizar, TypeOK
  <2>2. \A d \in Dispositivos : sem'[d] = sem[d]
    BY <1>16, Nombres, DispositivosAssumption
       DEF Finalizar, Sincronizar, TypeOK, SemaforosSincro
  <2> QED
    BY <1>16, <2>1, <2>2, EsperaQuieta DEF Finalizar, Anterior
<1>17. ASSUME NEW h \in Perifericos, TomarMutex(h) \/ LeerUltimo(h)
       PROVE  EsperaContada'
  <2>1. h \notin Dispositivos
    BY DispositivosAssumption
  <2>2. UNCHANGED <<cola, lista_instrucciones, pc>>
        /\ \A d \in Dispositivos : d \in con_mutex' <=> d \in con_mutex
    BY <1>17, <2>1 DEF TomarMutex, LeerUltimo
  <2>3. \A d \in Dispositivos : sem'[d] = sem[d]
    <3>1. SemaforoDe(h) \notin Dispositivos
      BY Nombres, DispositivosAssumption DEF SemaforosSincro
    <3>2. CASE TomarMutex(h)
      <4>1. Sincronizar({SemaforoDe(h)}, {})
        BY <3>2 DEF TomarMutex
      <4> QED
        BY <3>1, <4>1, Nombres DEF Sincronizar, TypeOK
    <3>3. CASE LeerUltimo(h)
      BY <3>3 DEF LeerUltimo
    <3> QED
      BY <1>17, <3>2, <3>3
  <2> QED
    BY <2>2, <2>3, EsperaQuieta DEF Anterior
<1>18. CASE PageFaultAtendido
  <2>1. \A d \in Dispositivos : sem'[d] = sem[d]
    BY <1>18, Nombres, DispositivosAssumption
       DEF PageFaultAtendido, Sincronizar, TypeOK, SemaforosSincro
  <2> QED
    BY <1>18, <2>1, EsperaQuieta DEF PageFaultAtendido, Anterior
<1>19. CASE UNCHANGED <<cola, sem, lista_instrucciones, pc, con_mutex>>
  BY <1>19, EsperaQuieta DEF Anterior
<1>20. ASSUME NEW t \in Hilos, TerminarDeMostrar(t) PROVE EsperaContada'
  <2>1. \A d \in Dispositivos : sem'[d] = sem[d]
    <3>1. \A d \in Dispositivos : d \in Semaforos \ {"pcbs_en_ready", "cpu_libre"}
      BY Nombres, DispositivosAssumption DEF SemaforosSincro
    <3> QED
      BY <1>20, <3>1, MostrarEfecto
  <2>2. UNCHANGED <<cola, lista_instrucciones, pc, con_mutex>>
    BY <1>20, MostrarEfecto
  <2> QED
    BY <2>1, <2>2, EsperaQuieta DEF Anterior
<1>21. ASSUME NEW p \in Procesos,
              \/ ConsolaResponde(p) \/ ConsolaTermina(p) \/ AtenderConsola(p)
              \/ BuscarIndice(p) \/ CerrarConexion(p)
       PROVE  EsperaContada'
  BY <1>19, <1>21 DEF ConsolaResponde, ConsolaTermina, AtenderConsola, BuscarIndice,
                      CerrarConexion
<1>22. CASE \/ ColgarDispatch \/ AtenderPageFault
            \/ \E h \in Perifericos : PedirAConsola(h)
  BY <1>19, <1>22 DEF ColgarDispatch, AtenderPageFault, PedirAConsola
<1> QED
  BY <1>1, <1>2, <1>3, <1>4, <1>5, <1>6, <1>7, <1>8, <1>9, <1>10, <1>11,
     <1>12, <1>13, <1>14, <1>15, <1>16, <1>17, <1>18, <1>20, <1>21, <1>22,
     NombresDeHilos
     DEF Next, Dispatch, HiloMemoria, HiloPageFault, HiloDispositivo, Manejador,
         Consola, HiloConsola

LEMMA EsperaInicial == Init => EsperaContada
<1> SUFFICES ASSUME Init PROVE EsperaContada
  OBVIOUS
<1>1. "blocked_io_list" \in Lugares
  BY Nombres DEF Colas
<1>2. \A d : EnEspera(d) = {}
  BY <1>1 DEF Init, EnEspera, Esta
<1>3. \A d \in Dispositivos : sem[d] = 0 /\ d \notin con_mutex
  BY Nombres, DispositivosAssumption DEF Init, SemaforosSincro
<1> QED
  BY <1>2, <1>3, FS_EmptySet DEF EsperaContada

LEMMA EsperaInvariante == Spec => []EsperaContada
<1>1. LugaresYGrado => Unicos
  BY DEF LugaresYGrado
<1>2. EsperaContada /\ UNCHANGED vars => EsperaContada'
  BY EsperaQuieta DEF vars, pcbs, manejadores, Anterior
<1> QED
  BY TipoCorrecto, LugaresInvariante, EsperaInicial, EsperaPaso, <1>1, <1>2,
     PTL DEF Spec

\* There is one wake-up for each process that waits for a device, so the thread
\* of the device always finds one of its own in the list they all share.
THEOREM DispositivosCorrectos == Spec => []DispositivoContado
<1>1. LugaresYGrado => Unicos
  BY DEF LugaresYGrado
<1> QED
  BY TipoCorrecto, LugaresInvariante, EsperaInvariante, EsperaEsDispositivo,
     <1>1, PTL

-----------------------------------------------------------------------------
(* Page faults: the answers meet the blocked processes in order *)

\* The first n of the waiting sequence have their page, the rest are pending.
EnOrden(espera, n, con_pagina, pedidos) ==
  /\ \A i \in 1 .. n : i \in DOMAIN espera /\ espera[i] \in con_pagina
  /\ SubSeq(espera, n + 1, Len(espera)) = pedidos

LEMMA OrdenPorPosicion ==
  ASSUME NEW S, NEW e \in Seq(S), NEW n \in Nat, NEW c, NEW d \in Seq(S)
  PROVE  EnOrden(e, n, c, d) <=>
           /\ n <= Len(e) /\ Len(d) = Len(e) - n
           /\ \A i \in 1 .. n : e[i] \in c
           /\ \A i \in 1 .. Len(e) - n : e[n + i] = d[i]
<1>1. Len(e) \in Nat /\ DOMAIN e = 1 .. Len(e) /\ Len(d) \in Nat
  BY LenProperties
<1> DEFINE r == SubSeq(e, n + 1, Len(e))
<1>2. ASSUME n <= Len(e)
      PROVE  /\ r \in Seq(S) /\ Len(r) = Len(e) - n
             /\ \A i \in 1 .. Len(e) - n : r[i] = e[n + i]
  <2> DEFINE m == n + 1
             l == Len(e)
  <2>1. m \in Int /\ l \in Int /\ \A i \in m .. l : e[i] \in S
    BY <1>1, <1>2
  <2>5. l - m + 1 = Len(e) - n /\ (IF m <= l THEN l - m + 1 ELSE 0) = Len(e) - n
    <3>1. l \in Nat /\ n <= l
      BY <1>1, <1>2
    <3> HIDE DEF l
    <3>2. l - m + 1 = l - n /\ (IF m <= l THEN l - m + 1 ELSE 0) = l - n
      BY <3>1
    <3> QED
      BY <3>2, Zenon DEF l
  <2> HIDE DEF m, l
  <2>4. /\ SubSeq(e, m, l) \in Seq(S)
        /\ Len(SubSeq(e, m, l)) = IF m <= l THEN l - m + 1 ELSE 0
        /\ \A i \in 1 .. l - m + 1 : SubSeq(e, m, l)[i] = e[m + i - 1]
    BY <2>1, SubSeqProperties, SMTT(40)
  <2>2. /\ r \in Seq(S)
        /\ Len(r) = Len(e) - n
        /\ \A i \in 1 .. Len(e) - n : r[i] = e[n + 1 + i - 1]
    BY <2>1, <2>4, <2>5, Zenon DEF m, l
  <2>3. \A i \in 1 .. Len(e) - n : n + 1 + i - 1 = n + i
    BY <1>1
  <2> QED
    BY <2>1, <2>2, <2>3, SMTT(40)
<1>3. (\A i \in 1 .. n : i \in DOMAIN e) <=> n <= Len(e)
  BY <1>1, SMTT(40)
<1>4. ASSUME n <= Len(e)
      PROVE  r = d <=>
               /\ Len(d) = Len(e) - n
               /\ \A i \in 1 .. Len(e) - n : e[n + i] = d[i]
  <2> HIDE DEF r
  <2> QED
    BY <1>1, <1>2, <1>4, SeqEqual, Zenon
<1>5. EnOrden(e, n, c, d) <=>
        (\A i \in 1 .. n : i \in DOMAIN e /\ e[i] \in c) /\ r = d
  BY DEF EnOrden
<1> HIDE DEF r
<1> QED
  BY <1>3, <1>4, <1>5

LEMMA OrdenFalla ==
  ASSUME NEW S, NEW e \in Seq(S), NEW n \in Nat, NEW c, NEW d \in Seq(S),
         EnOrden(e, n, c, d), NEW p \in S
  PROVE  EnOrden(Append(e, p), n, c, Append(d, p))
<1>1. /\ Append(e, p) \in Seq(S) /\ Append(d, p) \in Seq(S)
      /\ Len(e) \in Nat /\ Len(d) \in Nat
      /\ Len(Append(e, p)) = Len(e) + 1 /\ Len(Append(d, p)) = Len(d) + 1
      /\ \A i \in 1 .. Len(e) : Append(e, p)[i] = e[i]
      /\ \A i \in 1 .. Len(d) : Append(d, p)[i] = d[i]
      /\ Append(e, p)[Len(e) + 1] = p /\ Append(d, p)[Len(d) + 1] = p
  BY AppendProperties, LenProperties
<1>2. /\ n <= Len(e) /\ Len(d) = Len(e) - n
      /\ \A i \in 1 .. n : e[i] \in c
      /\ \A i \in 1 .. Len(e) - n : e[n + i] = d[i]
  BY OrdenPorPosicion
<1> DEFINE e2 == Append(e, p)
           d2 == Append(d, p)
<1>5. e2 \in Seq(S) /\ d2 \in Seq(S)
  BY <1>1
<1>3. /\ n <= Len(e2) /\ Len(d2) = Len(e2) - n
      /\ \A i \in 1 .. n : e2[i] \in c
      /\ \A i \in 1 .. Len(e2) - n : e2[n + i] = d2[i]
  <2> HIDE DEF e2, d2
  <2>1. /\ Len(e) \in Nat /\ Len(d) \in Nat
        /\ Len(e2) = Len(e) + 1 /\ Len(d2) = Len(d) + 1
        /\ \A i \in 1 .. Len(e) : e2[i] = e[i]
        /\ \A i \in 1 .. Len(d) : d2[i] = d[i]
        /\ e2[Len(e) + 1] = p /\ d2[Len(d) + 1] = p
    BY <1>1 DEF e2, d2
  <2>2. \A i \in 1 .. Len(e2) - n : e2[n + i] = d2[i]
    <3> TAKE i \in 1 .. Len(e2) - n
    <3>1. CASE i \in 1 .. Len(e) - n
      <4>1. n + i \in 1 .. Len(e) /\ i \in 1 .. Len(d)
        BY <1>2, <2>1, <3>1
      <4> QED
        BY <1>2, <2>1, <3>1, <4>1
    <3>2. CASE i = Len(e) - n + 1
      <4>1. n + i = Len(e) + 1 /\ i = Len(d) + 1
        BY <1>2, <2>1, <3>2
      <4> QED
        BY <2>1, <4>1
    <3> QED
      BY <1>2, <2>1, <3>1, <3>2
  <2>3. \A i \in 1 .. n : e2[i] \in c
    <3>1. 1 .. n \subseteq 1 .. Len(e)
      BY <1>2, <2>1
    <3> QED
      BY <1>2, <2>1, <3>1
  <2> QED
    BY <1>2, <2>1, <2>2, <2>3
<1> HIDE DEF e2, d2
<1>4. EnOrden(e2, n, c, d2)
  BY <1>3, <1>5, OrdenPorPosicion
<1> QED
  BY <1>4 DEF e2, d2

LEMMA OrdenAtiende ==
  ASSUME NEW S, NEW e \in Seq(S), NEW n \in Nat, NEW c, NEW d \in Seq(S),
         EnOrden(e, n, c, d), d # <<>>
  PROVE  EnOrden(e, n + 1, c \cup {Head(d)}, Tail(d))
<1> DEFINE d2 == Tail(d)
<1>1. /\ d2 \in Seq(S) /\ Len(d) \in Nat /\ Len(d) # 0 /\ Len(e) \in Nat
      /\ Head(d) = d[1] /\ Len(d2) = Len(d) - 1
      /\ \A i \in 1 .. Len(d) - 1 : d2[i] = d[i + 1]
  BY EmptySeq, HeadTailProperties, LenProperties
<1>2. /\ n <= Len(e) /\ Len(d) = Len(e) - n
      /\ \A i \in 1 .. n : e[i] \in c
      /\ \A i \in 1 .. Len(e) - n : e[n + i] = d[i]
  BY OrdenPorPosicion
<1> HIDE DEF d2
<1>3. /\ n + 1 <= Len(e) /\ Len(d2) = Len(e) - (n + 1)
      /\ \A i \in 1 .. Len(e) - (n + 1) : e[(n + 1) + i] = d2[i]
  <2>1. \A i \in 1 .. Len(e) - (n + 1) : e[(n + 1) + i] = d2[i]
    <3> TAKE i \in 1 .. Len(e) - (n + 1)
    <3>1. i + 1 \in 1 .. Len(e) - n /\ (n + 1) + i = n + (i + 1)
      BY <1>1, <1>2
    <3> QED
      BY <1>1, <1>2, <3>1
  <2> QED
    BY <1>1, <1>2, <2>1
<1>4. \A i \in 1 .. n + 1 : e[i] \in c \cup {Head(d)}
  <2>1. e[n + 1] = Head(d)
    BY <1>1, <1>2
  <2> QED
    BY <1>2, <2>1
<1>6. n + 1 \in Nat
  OBVIOUS
<1>5. EnOrden(e, n + 1, c \cup {Head(d)}, d2)
  BY <1>6, <1>1, <1>3, <1>4, OrdenPorPosicion
<1> QED
  BY <1>5 DEF d2

LEMMA OrdenDespierta ==
  ASSUME NEW S, NEW e \in Seq(S), NEW n \in Nat, NEW c, NEW d \in Seq(S),
         EnOrden(e, n + 1, c, d)
  PROVE  e # <<>> /\ EnOrden(Tail(e), n, c, d)
<1> DEFINE e2 == Tail(e)
<1>6. n + 1 \in Nat
  OBVIOUS
<1>2. /\ n + 1 <= Len(e) /\ Len(d) = Len(e) - (n + 1)
      /\ \A i \in 1 .. n + 1 : e[i] \in c
      /\ \A i \in 1 .. Len(e) - (n + 1) : e[(n + 1) + i] = d[i]
  <2> DEFINE m == n + 1
  <2>1. m \in Nat /\ EnOrden(e, m, c, d)
    OBVIOUS
  <2> HIDE DEF m
  <2>2. /\ m <= Len(e) /\ Len(d) = Len(e) - m
        /\ \A i \in 1 .. m : e[i] \in c
        /\ \A i \in 1 .. Len(e) - m : e[m + i] = d[i]
    BY <2>1, OrdenPorPosicion
  <2> QED
    BY <2>2 DEF m
<1>0. e # <<>>
  BY <1>2
<1>1. /\ e2 \in Seq(S) /\ Len(d) \in Nat /\ Len(e) # 0 /\ Len(e) \in Nat
      /\ Len(e2) = Len(e) - 1
      /\ \A i \in 1 .. Len(e) - 1 : e2[i] = e[i + 1]
  BY <1>0, EmptySeq, HeadTailProperties, LenProperties
<1> HIDE DEF e2
<1>3. /\ n <= Len(e2) /\ Len(d) = Len(e2) - n
      /\ \A i \in 1 .. n : e2[i] \in c
      /\ \A i \in 1 .. Len(e2) - n : e2[n + i] = d[i]
  <2>1. \A i \in 1 .. Len(e2) - n : e2[n + i] = d[i]
    <3> TAKE i \in 1 .. Len(e2) - n
    <3>1. n + i \in 1 .. Len(e) - 1 /\ (n + 1) + i = (n + i) + 1
          /\ i \in 1 .. Len(e) - (n + 1)
      BY <1>1, <1>2
    <3> QED
      BY <1>1, <1>2, <3>1
  <2>2. \A i \in 1 .. n : e2[i] \in c
    <3> TAKE i \in 1 .. n
    <3>1. i + 1 \in 1 .. n + 1 /\ i \in 1 .. Len(e) - 1
      BY <1>1, <1>2
    <3> QED
      BY <1>1, <1>2, <3>1
  <2> QED
    BY <1>1, <1>2, <2>1, <2>2
<1>5. EnOrden(e2, n, c, d)
  BY <1>1, <1>3, OrdenPorPosicion
<1> QED
  BY <1>0, <1>5 DEF e2

\* Dispatch has a PCB in its hands whenever the cpu gave one back.
CpuOcupada == estado_proceso # "CONTINUA_PROCESO" => cola["cpu"] # <<>>

\* Those that wait for a page, in the order they asked, and the answers so far.
Esperan == cola["blocked_page_fault_queue"] \o
             (IF estado_proceso = "PAGE_FAULT" THEN cola["cpu"] ELSE <<>>)
Atendidos == sem["desbloquear_por_pf"] + Veces(mensajes, "PAGE_FAULT_ATENDIDO")

FallosEnOrden ==
  CpuOcupada /\ EnOrden(Esperan, Atendidos, presente, pendientes)

LEMMA FallosEsPageFault == FallosEnOrden => PageFaultEnOrden
BY DEF FallosEnOrden, EnOrden, Esperan, Atendidos, Veces, PageFaultEnOrden

LEMMA FallosTipo ==
  ASSUME TypeOK
  PROVE  /\ Esperan \in Seq(Procesos) /\ Atendidos \in Nat
         /\ Veces(mensajes, "PAGE_FAULT_ATENDIDO") \in Nat
         /\ sem["desbloquear_por_pf"] \in Nat
         /\ cola["blocked_page_fault_queue"] \in Seq(Procesos)
         /\ cola["cpu"] \in Seq(Procesos)
<1>1. /\ sem["desbloquear_por_pf"] \in Nat
      /\ cola["blocked_page_fault_queue"] \in Seq(Procesos)
      /\ cola["cpu"] \in Seq(Procesos)
  BY Nombres DEF TypeOK, Colas, SemaforosSincro
<1>2. Veces(mensajes, "PAGE_FAULT_ATENDIDO") \in Nat
  BY PosicionesFinitas DEF Veces, TypeOK
<1>3. <<>> \in Seq(Procesos)
  OBVIOUS
<1>4. Esperan \in Seq(Procesos)
  BY <1>1, <1>3, ConcatProperties DEF Esperan
<1> QED
  BY <1>1, <1>2, <1>4 DEF Atendidos

\* A step that touches neither the two places nor the answers.
LEMMA FallosQuietos ==
  ASSUME FallosEnOrden,
         cola'["blocked_page_fault_queue"] = cola["blocked_page_fault_queue"],
         cola'["cpu"] = cola["cpu"],
         UNCHANGED <<estado_proceso, presente, pendientes>>,
         sem'["desbloquear_por_pf"] = sem["desbloquear_por_pf"],
         Veces(mensajes, "PAGE_FAULT_ATENDIDO")'
           = Veces(mensajes, "PAGE_FAULT_ATENDIDO")
  PROVE  FallosEnOrden'
BY DEF FallosEnOrden, Esperan, Atendidos, CpuOcupada

LEMMA FallosMoverAjeno ==
  ASSUME TypeOK, FallosEnOrden,
         NEW W, NEW P, NEW c \in Lugares, NEW e \in Lugares, NEW i, c # e,
         c \notin {"blocked_page_fault_queue", "cpu"},
         e \notin {"blocked_page_fault_queue", "cpu"},
         W \cup P \subseteq Semaforos \ {"desbloquear_por_pf"},
         Mover(W, c, i, e, P),
         UNCHANGED <<estado_proceso, presente, pendientes>>,
         Veces(mensajes, "PAGE_FAULT_ATENDIDO")'
           = Veces(mensajes, "PAGE_FAULT_ATENDIDO")
  PROVE  FallosEnOrden'
<1>1. /\ {"blocked_page_fault_queue", "cpu"} \subseteq Lugares \ {c, e}
      /\ "desbloquear_por_pf" \in Semaforos \ (W \cup P)
  BY Nombres DEF Colas, SemaforosSincro
<1>2. /\ \A x \in Lugares \ {c, e} : cola'[x] = cola[x]
      /\ \A s \in Semaforos \ (W \cup P) : sem'[s] = sem[s]
  BY MoverAjeno
<1> QED
  BY <1>1, <1>2, FallosQuietos

\* Dispatch files the PCB elsewhere than in the queue of page faults.
LEMMA FallosArchivar ==
  ASSUME TypeOK, FallosEnOrden, NEW codigos, NEW e \in Lugares, NEW s,
         e \notin {"cpu", "blocked_page_fault_queue"}, s # "desbloquear_por_pf",
         "PAGE_FAULT" \notin codigos, Archivar(codigos, e, s)
  PROVE  FallosEnOrden'
<1>1. /\ "cpu" \in Lugares
      /\ "blocked_page_fault_queue" \in Lugares \ {"cpu", e}
      /\ "desbloquear_por_pf" \in Semaforos \ ({} \cup {s, "cpu_libre"})
  BY Nombres DEF Colas, SemaforosSincro
<1>2. /\ Mover({}, "cpu", 1, e, {s, "cpu_libre"})
      /\ estado_proceso # "PAGE_FAULT" /\ estado_proceso' = "CONTINUA_PROCESO"
      /\ UNCHANGED <<presente, pendientes, mensajes>>
  BY DEF Archivar, memoria
<1>4. /\ \A x \in Lugares \ {"cpu", e} : cola'[x] = cola[x]
      /\ \A x \in Semaforos \ ({} \cup {s, "cpu_libre"}) : sem'[x] = sem[x]
  BY <1>1, <1>2, MoverAjeno
<1>3. /\ cola'["blocked_page_fault_queue"] = cola["blocked_page_fault_queue"]
      /\ sem'["desbloquear_por_pf"] = sem["desbloquear_por_pf"]
  BY <1>1, <1>4
<1> QED
  BY <1>2, <1>3 DEF FallosEnOrden, Esperan, Atendidos, CpuOcupada

LEMMA QuitarPrimero ==
  ASSUME NEW S, NEW s \in Seq(S), s # <<>>
  PROVE  RemoveAt(s, 1) = Tail(s)
<1> DEFINE u == RemoveAt(s, 1)
           v == Tail(s)
<1>1. 1 \in DOMAIN s /\ Len(s) \in Nat \ {0}
  BY EmptySeq, LenProperties
<1>2. /\ u \in Seq(S) /\ Len(u) = Len(s) - 1
      /\ \A j \in 1 .. Len(s) - 1 : u[j] = s[j + 1]
  <2>1. /\ u \in Seq(S) /\ Len(u) = Len(s) - 1
        /\ \A j \in 1 .. Len(s) - 1 : u[j] = IF j < 1 THEN s[j] ELSE s[j + 1]
    BY <1>1, QuitarPosicion
  <2> QED
    BY <2>1
<1>3. /\ v \in Seq(S) /\ Len(v) = Len(s) - 1
      /\ \A j \in 1 .. Len(s) - 1 : v[j] = s[j + 1]
  BY HeadTailProperties
<1> HIDE DEF u, v
<1>4. Len(u) = Len(v) /\ \A j \in 1 .. Len(u) : u[j] = v[j]
  BY <1>2, <1>3
<1>5. u = v
  BY <1>2, <1>3, <1>4, SeqEqual
<1> QED
  BY <1>5 DEF u, v

\* The cpu holds one PCB at most.
LEMMA UnoEnCpu ==
  ASSUME TypeOK, Cuentas, cola["cpu"] # <<>>
  PROVE  Head(cola["cpu"]) \in Procesos /\ cola["cpu"] = <<Head(cola["cpu"])>>
<1>1. /\ cola["cpu"] \in Seq(Procesos) /\ Len(cola["running_queue"]) \in Nat
      /\ Len(cola["cpu"]) \in Nat /\ sem["cpu_libre"] \in Nat
  BY Nombres, LenProperties DEF TypeOK, Colas, SemaforosSincro
<1>2. Len(cola["cpu"]) <= 1
  <2>1. /\ sem["cpu_libre"] + Len(cola["running_queue"]) + Len(cola["cpu"])
             + Cuenta("conexion_dispatch", mostrando) = 1
        /\ Cuenta("conexion_dispatch", mostrando) \in Nat
    BY DEF Cuentas, CpuExclusiva, Cuenta
  <2>2. \A a, b, c, d \in Nat : a + b + c + d = 1 => c <= 1
    OBVIOUS
  <2> QED
    BY <1>1, <2>1, <2>2
<1>3. Len(cola["cpu"]) = 1
  <2> DEFINE n == Len(cola["cpu"])
  <2>1. n \in Nat /\ n <= 1 /\ n # 0
    BY <1>1, <1>2, EmptySeq
  <2> HIDE DEF n
  <2>2. n = 1
    BY <2>1
  <2> QED
    BY <2>2 DEF n
<1>4. Head(cola["cpu"]) \in Procesos /\ Head(cola["cpu"]) = cola["cpu"][1]
  BY <1>1
<1>5. cola["cpu"] = <<cola["cpu"][1]>>
  BY <1>1, <1>3
<1> QED
  BY <1>4, <1>5

LEMMA AgregarEsConcatenar ==
  ASSUME NEW S, NEW s \in Seq(S), NEW x \in S
  PROVE  s \o <<x>> = Append(s, x) /\ s \o <<>> = s
OBVIOUS

LEMMA ColaDeConcatenar ==
  ASSUME NEW S, NEW s \in Seq(S), NEW t \in Seq(S), s # <<>>
  PROVE  Tail(s \o t) = Tail(s) \o t
<1> DEFINE a == s \o t
           u == Tail(a)
           w == Tail(s)
           v == w \o t
<1>1. Len(s) \in Nat \ {0} /\ Len(t) \in Nat
  BY EmptySeq, LenProperties
<1>2. /\ a \in Seq(S) /\ Len(a) = Len(s) + Len(t)
      /\ \A j \in 1 .. Len(s) + Len(t) :
           a[j] = IF j <= Len(s) THEN s[j] ELSE t[j - Len(s)]
  BY ConcatProperties
<1>3. /\ w \in Seq(S) /\ Len(w) = Len(s) - 1
      /\ \A j \in 1 .. Len(s) - 1 : w[j] = s[j + 1]
  BY HeadTailProperties
<1> HIDE DEF a, w
<1>4. a # <<>>
  BY <1>1, <1>2
<1>5. /\ u \in Seq(S) /\ Len(u) = Len(a) - 1
      /\ \A j \in 1 .. Len(a) - 1 : u[j] = a[j + 1]
  BY <1>2, <1>4, HeadTailProperties
<1>6. /\ v \in Seq(S) /\ Len(v) = Len(w) + Len(t)
      /\ \A j \in 1 .. Len(w) + Len(t) :
           v[j] = IF j <= Len(w) THEN w[j] ELSE t[j - Len(w)]
  BY <1>3, ConcatProperties
<1> HIDE DEF u, v
<1>7. Len(u) = Len(v) /\ Len(u) = Len(s) + Len(t) - 1
  BY <1>1, <1>2, <1>3, <1>5, <1>6
<1>8. \A j \in 1 .. Len(u) : u[j] = v[j]
  <2> TAKE j \in 1 .. Len(u)
  <2>1. u[j] = a[j + 1] /\ j + 1 \in 1 .. Len(s) + Len(t)
    BY <1>1, <1>2, <1>5, <1>7
  <2>2. CASE j <= Len(s) - 1
    BY <1>1, <1>2, <1>3, <1>6, <1>7, <2>1, <2>2
  <2>3. CASE ~ (j <= Len(s) - 1)
    <3>1. (j + 1) - Len(s) = j - Len(w) /\ ~ (j + 1 <= Len(s))
      BY <1>1, <1>3, <1>7, <2>3
    <3> QED
      BY <1>1, <1>2, <1>3, <1>6, <1>7, <2>1, <2>3, <3>1
  <2> QED
    BY <2>2, <2>3
<1>9. u = v
  BY <1>5, <1>6, <1>7, <1>8, SeqEqual
<1> QED
  BY <1>9 DEF u, v, a, w

\* The page fault of the process in the cpu: one more waits, one more asks.
LEMMA PasoEjecutarPageFault ==
  ASSUME TypeOK, Cuentas, FallosEnOrden, NEW p \in Procesos, EjecutarPageFault(p)
  PROVE  FallosEnOrden'
<1> DEFINE b == cola["blocked_page_fault_queue"]
<1>1. /\ estado_proceso = "CONTINUA_PROCESO" /\ estado_proceso' = "PAGE_FAULT"
      /\ cola["cpu"] # <<>> /\ p = Head(cola["cpu"])
      /\ pendientes' = Append(pendientes, p)
      /\ UNCHANGED <<cola, sem, presente, mensajes>>
  BY DEF EjecutarPageFault, EnCpu
<1>2. cola["cpu"] = <<p>> /\ b \in Seq(Procesos) /\ pendientes \in Seq(Procesos)
  BY <1>1, UnoEnCpu, FallosTipo DEF TypeOK
<1>3. Esperan = b /\ Esperan' = Append(b, p) /\ Atendidos' = Atendidos
  BY <1>1, <1>2, AgregarEsConcatenar DEF Esperan, Atendidos
<1>4. EnOrden(b, Atendidos, presente, pendientes)
  BY <1>3 DEF FallosEnOrden
<1>5. EnOrden(Append(b, p), Atendidos, presente, Append(pendientes, p))
  BY <1>2, <1>4, FallosTipo, OrdenFalla
<1> QED
  BY <1>1, <1>3, <1>5 DEF FallosEnOrden, CpuOcupada

\* Dispatch files it: it waits as before.
LEMMA PasoBloquearPorPageFault ==
  ASSUME TypeOK, Cuentas, FallosEnOrden, BloquearPorPageFault
  PROVE  FallosEnOrden'
<1> DEFINE b == cola["blocked_page_fault_queue"]
           p == Head(cola["cpu"])
<1>1. /\ estado_proceso = "PAGE_FAULT" /\ estado_proceso' = "CONTINUA_PROCESO"
      /\ Mover({}, "cpu", 1, "blocked_page_fault_queue", {"atender_pf", "cpu_libre"})
      /\ UNCHANGED <<presente, pendientes, mensajes>>
  BY DEF BloquearPorPageFault, Archivar, memoria
<1>2. cola["cpu"] # <<>>
  BY <1>1 DEF FallosEnOrden, CpuOcupada
<1>3. /\ p \in Procesos /\ cola["cpu"] = <<p>> /\ b \in Seq(Procesos)
      /\ 1 \in DOMAIN cola["cpu"] /\ cola["cpu"][1] = p
  BY <1>2, UnoEnCpu, FallosTipo
<1>4. /\ "cpu" \in Lugares /\ "blocked_page_fault_queue" \in Lugares
      /\ "desbloquear_por_pf" \in Semaforos \ ({} \cup {"atender_pf", "cpu_libre"})
  BY Nombres DEF Colas, SemaforosSincro
<1>9. cola' = [cola EXCEPT !["cpu"] = RemoveAt(cola["cpu"], 1),
                 !["blocked_page_fault_queue"] = Append(b, cola["cpu"][1])]
  BY <1>1, <1>3 DEF Mover
<1>10. cola \in [Lugares -> Seq(Procesos)]
  BY DEF TypeOK
<1>5. cola'["blocked_page_fault_queue"] = Append(b, p)
  BY <1>3, <1>4, <1>9, <1>10
<1>6. sem'["desbloquear_por_pf"] = sem["desbloquear_por_pf"]
  <2>1. \A x \in Semaforos \ ({} \cup {"atender_pf", "cpu_libre"}) : sem'[x] = sem[x]
    BY <1>1, <1>4, MoverAjeno
  <2> QED
    BY <1>4, <2>1
<1>7. Append(b, p) \in Seq(Procesos)
  BY <1>3, AppendProperties
<1>8. Esperan = Append(b, p) /\ Esperan' = Append(b, p) /\ Atendidos' = Atendidos
  <2>1. Esperan = Append(b, p)
    BY <1>1, <1>3, AgregarEsConcatenar DEF Esperan
  <2>2. Esperan' = Append(b, p) \o <<>>
    BY <1>1, <1>5 DEF Esperan
  <2>3. Append(b, p) \o <<>> = Append(b, p)
    BY <1>3, <1>7, AgregarEsConcatenar
  <2> QED
    BY <1>1, <1>6, <2>1, <2>2, <2>3 DEF Atendidos
<1> QED
  BY <1>1, <1>8 DEF FallosEnOrden, CpuOcupada

\* memoria loads the oldest page asked for and answers.
LEMMA PasoAtenderPageFault ==
  ASSUME TypeOK, FallosEnOrden, AtenderPageFault PROVE FallosEnOrden'
<1>1. /\ pendientes # <<>> /\ pendientes' = Tail(pendientes)
      /\ presente' = presente \cup {Head(pendientes)}
      /\ mensajes' = Append(mensajes, "PAGE_FAULT_ATENDIDO")
      /\ UNCHANGED <<cola, sem, estado_proceso>>
  BY DEF AtenderPageFault, pcbs
<1>2. mensajes \in Seq(CodigosMemoria) /\ "PAGE_FAULT_ATENDIDO" \in CodigosMemoria
  BY DEF TypeOK, CodigosMemoria
<1>3. Veces(mensajes, "PAGE_FAULT_ATENDIDO")'
        = Veces(mensajes, "PAGE_FAULT_ATENDIDO") + 1
  BY <1>1, <1>2, VecesAgregar
<1>4. Esperan' = Esperan /\ Atendidos' = Atendidos + 1
  <2> DEFINE a == Veces(mensajes, "PAGE_FAULT_ATENDIDO")
             u == sem["desbloquear_por_pf"]
  <2>1. Esperan' = Esperan
    BY <1>1 DEF Esperan
  <2>2. Atendidos = u + a /\ Atendidos' = u + (a + 1)
    BY <1>1, <1>3 DEF Atendidos
  <2>3. a \in Nat /\ u \in Nat
    BY FallosTipo
  <2> HIDE DEF a, u
  <2> QED
    BY <2>1, <2>2, <2>3
<1>5. EnOrden(Esperan, Atendidos, presente, pendientes)
  BY DEF FallosEnOrden
<1>6. EnOrden(Esperan, Atendidos + 1, presente', pendientes')
  BY <1>1, <1>5, FallosTipo, OrdenAtiende DEF TypeOK
<1> QED
  BY <1>1, <1>4, <1>6 DEF FallosEnOrden, CpuOcupada

\* The kernel takes an answer: it counts in the semaphore from now on.
LEMMA PasoPageFaultAtendido ==
  ASSUME TypeOK, FallosEnOrden, PageFaultAtendido PROVE FallosEnOrden'
<1>1. /\ mensajes # <<>> /\ Head(mensajes) = "PAGE_FAULT_ATENDIDO"
      /\ mensajes' = Tail(mensajes)
      /\ Sincronizar({"atender_pf"}, {"desbloquear_por_pf"})
      /\ UNCHANGED <<cola, estado_proceso, presente, pendientes>>
  BY DEF PageFaultAtendido, Recibir, pcbs
<1>2. /\ Veces(mensajes, "PAGE_FAULT_ATENDIDO") \in Nat
      /\ Veces(Tail(mensajes), "PAGE_FAULT_ATENDIDO") \in Nat
      /\ Veces(mensajes, "PAGE_FAULT_ATENDIDO")
           = Veces(Tail(mensajes), "PAGE_FAULT_ATENDIDO") + 1
  BY <1>1, VecesQuitar DEF TypeOK
<1>3. sem'["desbloquear_por_pf"] = sem["desbloquear_por_pf"] + 1
  BY <1>1, Nombres, FallosTipo DEF Sincronizar, SemaforosSincro
<1>4. Veces(mensajes, "PAGE_FAULT_ATENDIDO")'
        = Veces(Tail(mensajes), "PAGE_FAULT_ATENDIDO")
  BY <1>1
<1>6. Esperan' = Esperan
  BY <1>1 DEF Esperan
<1>5. Esperan' = Esperan /\ Atendidos' = Atendidos
  <2> DEFINE a == Veces(mensajes, "PAGE_FAULT_ATENDIDO")
             b == Veces(Tail(mensajes), "PAGE_FAULT_ATENDIDO")
             u == sem["desbloquear_por_pf"]
             v == sem'["desbloquear_por_pf"]
  <2>1. Atendidos = u + a /\ Atendidos' = v + b
    BY <1>4 DEF Atendidos
  <2>2. a \in Nat /\ b \in Nat /\ u \in Nat /\ a = b + 1 /\ v = u + 1
    BY <1>2, <1>3, FallosTipo
  <2> HIDE DEF a, b, u, v
  <2> QED
    BY <1>6, <2>1, <2>2
<1> QED
  BY <1>1, <1>5 DEF FallosEnOrden, CpuOcupada

\* The first one goes: it has its page, and the queue is not empty.
LEMMA PasoDesbloquearPageFault ==
  ASSUME TypeOK, FallosEnOrden, Cuentas, DesbloquearPageFault
  PROVE  FallosEnOrden' /\ UNCHANGED vivo
<1> DEFINE b == cola["blocked_page_fault_queue"]
           r == IF estado_proceso = "PAGE_FAULT" THEN cola["cpu"] ELSE <<>>
           e == ColaReady("PCB")
           n == Veces(mensajes, "PAGE_FAULT_ATENDIDO") + sem'["desbloquear_por_pf"]
<1>1. /\ Mover({"desbloquear_por_pf"}, "blocked_page_fault_queue", 1, e, {})
      /\ UNCHANGED <<estado_proceso, presente, pendientes, mensajes>>
  BY DEF DesbloquearPageFault, AgregarAReady, pcbs, memoria
<1>2. /\ {"blocked_page_fault_queue", "cpu"} \subseteq Lugares
      /\ e \in Lugares \ {"blocked_page_fault_queue", "cpu"}
      /\ {"desbloquear_por_pf", "atender_pf"} \subseteq Semaforos
  BY Nombres DEF ColaReady, Colas, SemaforosSincro
<1>3. b \in Seq(Procesos) /\ r \in Seq(Procesos) /\ pendientes \in Seq(Procesos)
      /\ sem["desbloquear_por_pf"] \in Nat /\ sem["atender_pf"] \in Nat
  BY <1>2, FallosTipo DEF TypeOK
<1>4. sem["desbloquear_por_pf"] > 0
  BY <1>1 DEF Mover, Sincronizar
<1>5. Len(b) > 0
  BY <1>3, <1>4 DEF Cuentas, SemaforosContados
<1>6. b # <<>> /\ 1 \in DOMAIN b /\ Len(b) \in Nat /\ DOMAIN b = 1 .. Len(b)
  BY <1>3, <1>5, LenProperties
<1>15. e \in Lugares \ {"blocked_page_fault_queue", "cpu"}
  BY <1>2
<1> HIDE DEF e
<1>7. /\ cola'["blocked_page_fault_queue"] = Tail(b)
      /\ cola'["cpu"] = cola["cpu"]
      /\ Sincronizar({"desbloquear_por_pf"}, {})
      /\ vivo' = vivo
  <2>1. /\ cola' = [cola EXCEPT !["blocked_page_fault_queue"] = RemoveAt(b, 1),
                                ![e] = Append(cola[e], b[1])]
        /\ Sincronizar({"desbloquear_por_pf"}, {})
        /\ vivo' = vivo
    BY <1>1, <1>6 DEF Mover
  <2>2. cola \in [Lugares -> Seq(Procesos)]
    BY DEF TypeOK
  <2>3. RemoveAt(b, 1) = Tail(b)
    BY <1>3, <1>6, QuitarPrimero
  <2> QED
    BY <1>2, <1>15, <2>1, <2>2, <2>3
<1>8. sem'["desbloquear_por_pf"] = sem["desbloquear_por_pf"] - 1
  BY <1>2, <1>3, <1>7 DEF Sincronizar
<1>10. /\ Esperan = b \o r /\ Esperan' = Tail(b) \o r
       /\ Atendidos = n + 1 /\ Atendidos' = n /\ n \in Nat
  <2>1. Esperan = b \o r /\ Esperan' = Tail(b) \o r
    BY <1>1, <1>7 DEF Esperan
  <2>2. Veces(mensajes, "PAGE_FAULT_ATENDIDO")'
          = Veces(mensajes, "PAGE_FAULT_ATENDIDO")
    BY <1>1
  <2> DEFINE a == Veces(mensajes, "PAGE_FAULT_ATENDIDO")
             u == sem["desbloquear_por_pf"]
             v == sem'["desbloquear_por_pf"]
  <2>3. Atendidos = u + a /\ Atendidos' = v + a /\ n = a + v
    BY <2>2 DEF Atendidos
  <2>4. a \in Nat /\ u \in Nat /\ u > 0 /\ v = u - 1
    BY <1>4, <1>8, FallosTipo
  <2> HIDE DEF a, u, v, n
  <2>5. Atendidos = n + 1 /\ Atendidos' = n /\ n \in Nat
    BY <2>3, <2>4
  <2> QED
    BY <2>1, <2>5
<1>11. Tail(b \o r) = Tail(b) \o r /\ b \o r \in Seq(Procesos)
  BY <1>3, <1>6, ConcatProperties, ColaDeConcatenar
<1> HIDE DEF b, r, n
<1>12. EnOrden(b \o r, n + 1, presente, pendientes)
  BY <1>10 DEF FallosEnOrden
<1>13. EnOrden(Tail(b \o r), n, presente, pendientes)
  BY <1>3, <1>10, <1>11, <1>12, OrdenDespierta
<1>14. cola'["cpu"] = cola["cpu"]
  BY <1>7
<1> QED
  BY <1>1, <1>7, <1>10, <1>11, <1>13, <1>14 DEF FallosEnOrden, CpuOcupada

\* The process in the cpu goes on, or stops for another reason: those that wait
\* keep their pages.
LEMMA PasoEjecutar ==
  ASSUME TypeOK, Unicos, FallosEnOrden, NEW p \in Procesos,
         EjecutarYSeguir(p) \/ EjecutarYParar(p)
  PROVE  FallosEnOrden'
<1> DEFINE b == cola["blocked_page_fault_queue"]
<1>1. /\ estado_proceso = "CONTINUA_PROCESO" /\ estado_proceso' # "PAGE_FAULT"
      /\ cola["cpu"] # <<>> /\ \E ins : EnCpu(p, ins)
      /\ presente \ {p} \subseteq presente'
      /\ UNCHANGED <<cola, sem, pendientes, mensajes>>
  BY DEF EjecutarYSeguir, EjecutarYParar, EnCpu, Respuesta, memoria
<1>2. "blocked_page_fault_queue" \in Lugares /\ b \in Seq(Procesos)
  BY Nombres, FallosTipo DEF Colas
<1>3. Esperan = b /\ Esperan' = b /\ Atendidos' = Atendidos
  BY <1>1, <1>2, AgregarEsConcatenar DEF Esperan, Atendidos
<1>4. \A i \in DOMAIN b : b[i] # p
  BY <1>1, <1>2, EnCpuNoEspera DEF Esta
<1>5. EnOrden(b, Atendidos, presente, pendientes)
  BY <1>3 DEF FallosEnOrden
<1>6. EnOrden(b, Atendidos, presente', pendientes)
  BY <1>1, <1>4, <1>5 DEF EnOrden
<1> QED
  BY <1>1, <1>3, <1>6 DEF FallosEnOrden, CpuOcupada

LEMMA PasoEnviarACpu ==
  ASSUME TypeOK, FallosEnOrden, EnviarACpu PROVE FallosEnOrden'
<1>1. /\ Mover({"enviar_pcb_a_cpu"}, "running_queue", 1, "cpu", {})
      /\ UNCHANGED <<estado_proceso, presente, pendientes, mensajes>>
      /\ estado_proceso = "CONTINUA_PROCESO"
  BY DEF EnviarACpu, FallosEnOrden, CpuOcupada, pcbs, memoria
<1>2. /\ {"running_queue", "cpu"} \subseteq Lugares
      /\ "blocked_page_fault_queue" \in Lugares \ {"running_queue", "cpu"}
      /\ "desbloquear_por_pf" \in Semaforos \ ({"enviar_pcb_a_cpu"} \cup {})
  BY Nombres DEF Colas, SemaforosSincro
<1>3. /\ \A x \in Lugares \ {"running_queue", "cpu"} : cola'[x] = cola[x]
      /\ \A s \in Semaforos \ ({"enviar_pcb_a_cpu"} \cup {}) : sem'[s] = sem[s]
  BY <1>1, <1>2, MoverAjeno
<1> QED
  BY <1>1, <1>2, <1>3 DEF FallosEnOrden, Esperan, Atendidos, CpuOcupada

LEMMA FallosPaso ==
  TypeOK /\ Unicos /\ Cuentas /\ FallosEnOrden /\ Next => FallosEnOrden'
<1> SUFFICES ASSUME TypeOK, Unicos, Cuentas, FallosEnOrden, Next
             PROVE  FallosEnOrden'
  OBVIOUS
<1> USE DEF pcbs, memoria
<1>1. CASE AdmitirProceso
  BY <1>1, FallosMoverAjeno, Nombres DEF AdmitirProceso, Colas, SemaforosSincro
<1>2. CASE CrearEstructuras
  <2>1. Veces(mensajes, "PAGE_FAULT_ATENDIDO")'
          = Veces(mensajes, "PAGE_FAULT_ATENDIDO")
    <3>1. /\ mensajes \in Seq(CodigosMemoria)
          /\ "ACTUALIZAR_INDICE_TABLA_PAGINAS" \in CodigosMemoria
          /\ mensajes' = Append(mensajes, "ACTUALIZAR_INDICE_TABLA_PAGINAS")
      BY <1>2 DEF CrearEstructuras, TypeOK, CodigosMemoria
    <3> QED
      BY <3>1, VecesAgregar
  <2> QED
    BY <1>2, <2>1, FallosMoverAjeno, Nombres DEF CrearEstructuras, Colas, SemaforosSincro
<1>3. CASE IndiceActualizado
  <2>1. Veces(mensajes, "PAGE_FAULT_ATENDIDO")'
          = Veces(mensajes, "PAGE_FAULT_ATENDIDO")
    <3>1. /\ mensajes \in Seq(CodigosMemoria) /\ mensajes # <<>>
          /\ Head(mensajes) # "PAGE_FAULT_ATENDIDO" /\ mensajes' = Tail(mensajes)
      BY <1>3 DEF IndiceActualizado, Recibir, TypeOK
    <3>2. /\ Veces(mensajes, "PAGE_FAULT_ATENDIDO") \in Nat
          /\ Veces(Tail(mensajes), "PAGE_FAULT_ATENDIDO") \in Nat
          /\ Veces(mensajes, "PAGE_FAULT_ATENDIDO")
               = Veces(Tail(mensajes), "PAGE_FAULT_ATENDIDO") + 0
      BY <3>1, VecesQuitar
    <3> QED
      BY <3>1, <3>2
  <2> QED
    BY <1>3, <2>1, FallosMoverAjeno, Nombres
       DEF IndiceActualizado, AgregarAReady, ColaReady, Colas, SemaforosSincro
<1>4. CASE ElegirListo
  BY <1>4, FallosMoverAjeno, Nombres DEF ElegirListo, Colas, SemaforosSincro
<1>5. CASE DesalojarPorQuantum
  <2> DEFINE e == ColaReady("INTERRUPCION")
  <2>1. /\ Mover({}, "cpu", 1, e, {})
        /\ estado_proceso = "INTERRUPCION" /\ estado_proceso' = "CONTINUA_PROCESO"
        /\ UNCHANGED <<presente, pendientes, mensajes>>
    BY <1>5 DEF DesalojarPorQuantum, AgregarAReady
  <2>2. /\ "cpu" \in Lugares /\ e \in Lugares /\ e # "cpu"
        /\ "blocked_page_fault_queue" \in Lugares \ {"cpu", e}
        /\ "desbloquear_por_pf" \in Semaforos \ ({} \cup {})
    BY Nombres DEF ColaReady, Colas, SemaforosSincro
  <2> HIDE DEF e
  <2>3. /\ \A x \in Lugares \ {"cpu", e} : cola'[x] = cola[x]
        /\ \A s \in Semaforos \ ({} \cup {}) : sem'[s] = sem[s]
    BY <2>1, <2>2, MoverAjeno
  <2>4. /\ cola'["blocked_page_fault_queue"] = cola["blocked_page_fault_queue"]
        /\ sem'["desbloquear_por_pf"] = sem["desbloquear_por_pf"]
    BY <2>2, <2>3
  <2> QED
    BY <2>1, <2>4 DEF FallosEnOrden, Esperan, Atendidos, CpuOcupada
<1>6. CASE TerminarProceso
  BY <1>6, FallosArchivar, Nombres DEF TerminarProceso, Colas
<1>7. ASSUME NEW h \in Perifericos, BloquearPorPeriferico(h) PROVE FallosEnOrden'
  BY <1>7, FallosArchivar, Nombres DEF BloquearPorPeriferico, Respuesta, Colas
<1>8. ASSUME NEW d \in Dispositivos, BloquearPorIO(d) PROVE FallosEnOrden'
  BY <1>8, FallosArchivar, Nombres, DispositivosAssumption
     DEF BloquearPorIO, Colas, SemaforosSincro
<1>9. ASSUME NEW d \in Dispositivos, TerminarIO(d) PROVE FallosEnOrden'
  BY <1>9, FallosMoverAjeno, Nombres, DispositivosAssumption
     DEF TerminarIO, AgregarAReady, ColaReady, Colas, SemaforosSincro
<1>10. ASSUME NEW d \in Dispositivos, AtenderEnDispositivo(d) PROVE FallosEnOrden'
  BY <1>10, FallosMoverAjeno, Nombres, DispositivosAssumption
     DEF AtenderEnDispositivo, Colas, SemaforosSincro
<1>11. ASSUME NEW p \in Procesos, Desbloquear(p) PROVE FallosEnOrden'
  BY <1>11, FallosMoverAjeno, Nombres
     DEF Desbloquear, AgregarAReady, ColaReady, Colas, SemaforosSincro
<1>12. CASE EnviarACpu \/ BloquearPorPageFault \/ AtenderPageFault
            \/ PageFaultAtendido \/ DesbloquearPageFault
  BY <1>12, PasoEnviarACpu, PasoBloquearPorPageFault, PasoAtenderPageFault,
     PasoPageFaultAtendido, PasoDesbloquearPageFault
<1>13. ASSUME NEW p \in Procesos, Cpu(p) PROVE FallosEnOrden'
  BY <1>13, PasoEjecutar, PasoEjecutarPageFault DEF Cpu
<1>14. ASSUME NEW p \in Procesos, NuevoProceso(p) PROVE FallosEnOrden'
  <2>1. /\ cola'["blocked_page_fault_queue"] = cola["blocked_page_fault_queue"]
        /\ cola'["cpu"] = cola["cpu"]
    BY <1>14, Nombres DEF NuevoProceso, TypeOK, Colas
  <2>2. sem'["desbloquear_por_pf"] = sem["desbloquear_por_pf"]
    BY <1>14, Nombres, SMTT(40) DEF NuevoProceso, Sincronizar, TypeOK, SemaforosSincro
  <2> QED
    BY <1>14, <2>1, <2>2, FallosQuietos DEF NuevoProceso
<1>15. CASE Finalizar
  <2>1. /\ cola'["blocked_page_fault_queue"] = cola["blocked_page_fault_queue"]
        /\ cola'["cpu"] = cola["cpu"]
    BY <1>15, Nombres DEF Finalizar, TypeOK, Colas
  <2>2. sem'["desbloquear_por_pf"] = sem["desbloquear_por_pf"]
    <3>1. \/ sem' = sem
          \/ Sincronizar({"finish_process"}, {"grado_multiprogramacion"})
      BY <1>15 DEF Finalizar
    <3> QED
      BY <3>1, Nombres, FallosTipo DEF Sincronizar, SemaforosSincro
  <2> QED
    BY <1>15, <2>1, <2>2, FallosQuietos DEF Finalizar
<1>16. ASSUME NEW h \in Perifericos, TomarMutex(h) PROVE FallosEnOrden'
  <2>1. sem'["desbloquear_por_pf"] = sem["desbloquear_por_pf"]
    <3>1. Sincronizar({SemaforoDe(h)}, {})
      BY <1>16 DEF TomarMutex
    <3> QED
      BY <3>1, Nombres, FallosTipo DEF Sincronizar, SemaforosSincro
  <2> QED
    BY <1>16, <2>1, FallosQuietos DEF TomarMutex
<1>17. ASSUME NEW d \in Dispositivos, TomarMutexIO(d) PROVE FallosEnOrden'
  <2>1. sem'["desbloquear_por_pf"] = sem["desbloquear_por_pf"]
    BY <1>17, Nombres, DispositivosAssumption
       DEF TomarMutexIO, Sincronizar, TypeOK, SemaforosSincro
  <2> QED
    BY <1>17, <2>1, FallosQuietos DEF TomarMutexIO
<1>18. CASE UNCHANGED <<cola, sem, estado_proceso, memoria>>
  BY <1>18, FallosQuietos
<1>19. ASSUME NEW t \in Hilos, TerminarDeMostrar(t) PROVE FallosEnOrden'
  <2>1. "desbloquear_por_pf" \in Semaforos \ {"pcbs_en_ready", "cpu_libre"}
    BY Nombres DEF SemaforosSincro
  <2>2. /\ sem'["desbloquear_por_pf"] = sem["desbloquear_por_pf"]
        /\ UNCHANGED <<cola, pcbs, memoria>>
    BY <1>19, <2>1, MostrarEfecto
  <2> QED
    BY <2>2, FallosQuietos
<1>20. ASSUME NEW p \in Procesos,
              \/ ConsolaResponde(p) \/ ConsolaTermina(p) \/ AtenderConsola(p)
              \/ BuscarIndice(p) \/ CerrarConexion(p)
       PROVE  FallosEnOrden'
  BY <1>18, <1>20 DEF ConsolaResponde, ConsolaTermina, AtenderConsola, BuscarIndice,
                      CerrarConexion
<1>21. CASE \/ ColgarDispatch
            \/ \E h \in Perifericos : LeerUltimo(h) \/ PedirAConsola(h)
  BY <1>18, <1>21 DEF ColgarDispatch, LeerUltimo, PedirAConsola
<1> QED
  BY <1>1, <1>2, <1>3, <1>4, <1>5, <1>6, <1>7, <1>8, <1>9, <1>10, <1>11,
     <1>12, <1>13, <1>14, <1>15, <1>16, <1>17, <1>19, <1>20, <1>21, NombresDeHilos
     DEF Next, Dispatch, HiloMemoria, HiloPageFault, HiloDispositivo, Manejador,
         Consola, HiloConsola

LEMMA FallosInicial == Init => FallosEnOrden
<1> SUFFICES ASSUME Init PROVE FallosEnOrden
  OBVIOUS
<1>1. /\ Esperan = <<>> /\ pendientes = <<>> /\ mensajes = <<>>
      /\ sem["desbloquear_por_pf"] = 0 /\ CpuOcupada
  BY Nombres DEF Init, Esperan, CpuOcupada, Colas, SemaforosSincro
<1>2. Veces(<<>>, "PAGE_FAULT_ATENDIDO") = 0
  <2>1. {i \in DOMAIN <<>> : <<>>[i] = "PAGE_FAULT_ATENDIDO"} = {}
    OBVIOUS
  <2> QED
    BY <2>1, FS_EmptySet DEF Veces
<1>3. Atendidos = 0
  BY <1>1, <1>2 DEF Atendidos
<1>4. EnOrden(<<>>, 0, presente, <<>>)
  <2>1. (\A i \in 1 .. 0 : FALSE) /\ SubSeq(<<>>, 1, 0) = <<>> /\ Len(<<>>) = 0
    BY SubSeqEmpty
  <2> QED
    BY <2>1 DEF EnOrden
<1> QED
  BY <1>1, <1>3, <1>4 DEF FallosEnOrden

LEMMA FallosInvariante == Spec => []FallosEnOrden
<1>1. FallosEnOrden /\ UNCHANGED vars => FallosEnOrden'
  BY FallosQuietos DEF vars, pcbs, memoria
<1>2. LugaresYGrado => Unicos
  BY DEF LugaresYGrado
<1> QED
  BY TipoCorrecto, LugaresInvariante, CuentasInvariante, FallosInicial,
     FallosPaso, <1>1, <1>2, PTL DEF Spec

\* PAGE_FAULT_ATENDIDO names no process, and may arrive before dispatch has
\* blocked the one it is about; still each answer meets the process whose page
\* was loaded, for any number of processes.
THEOREM FallosCorrectos == Spec => []PageFaultEnOrden
BY FallosInvariante, FallosEsPageFault, PTL

-----------------------------------------------------------------------------
(* The screen and the keyboard: no answer without a blocked process *)

\* A console's thread that is past recv has a list to take a PCB from.
ConexionesConLista ==
  \A p \in Procesos : conexion[p].paso \notin {"recv", "terminada"} =>
                       conexion[p].lista \in Perifericos

FichasConLista == FichasRespetadas /\ ConexionesConLista

\* The console threads about to take a PCB out of the list of h.
EnCurso(h) == {p \in Procesos : conexion[p].paso \notin {"recv", "terminada"}
                                /\ conexion[p].lista = h}

Tomado(h) == IF h \in con_mutex THEN 1 ELSE 0
Leido(h) == IF elegido[h] # Nadie THEN 1 ELSE 0

LEMMA ListasDistintas ==
  /\ Perifericos = {"PANTALLA", "TECLADO"}
  /\ \A h \in Perifericos :
       Lista(h) \in Lugares /\ Lista(h) \in Colas /\ SemaforoDe(h) \in Semaforos
  /\ \A h, k \in Perifericos :
       h # k => Lista(h) # Lista(k) /\ SemaforoDe(h) # SemaforoDe(k)
BY Nombres DEF Perifericos, Lista, SemaforoDe, Colas, SemaforosSincro

LEMMA MensajesTipo ==
  ASSUME NEW S, NEW canal \in [Procesos -> Seq(S)], NEW h
  PROVE  Mensajes(canal, h) \in Nat
<1>1. Resto(canal, Nadie, h) = EnCanal(canal, h)
  BY NadieAssumption DEF Resto, EnCanal
<1> QED
  BY <1>1, RestoFinito DEF Mensajes

LEMMA EnCursoFinito ==
  \A h : /\ IsFiniteSet(EnCurso(h)) /\ Cardinality(EnCurso(h)) \in Nat
         /\ IsFiniteSet(EnCurso(h))' /\ Cardinality(EnCurso(h))' \in Nat
<1> TAKE h
<1>1. EnCurso(h) \subseteq Procesos /\ EnCurso(h)' \subseteq Procesos
  BY DEF EnCurso
<1> QED
  BY <1>1, ProcesosAssumption, FS_Subset, FS_CardinalityType

\* The parts of Fichas are naturals, and the steps move them about.
Partes(h) ==
         /\ Fichas(h) = sem[SemaforoDe(h)] + Tomado(h) + Leido(h)
                          + Mensajes(a_consola, h) + Mensajes(de_consola, h)
                          + Cardinality(EnCurso(h))
         /\ sem[SemaforoDe(h)] \in Nat /\ Tomado(h) \in Nat /\ Leido(h) \in Nat
         /\ Mensajes(a_consola, h) \in Nat /\ Mensajes(de_consola, h) \in Nat
         /\ Cardinality(EnCurso(h)) \in Nat
         /\ Len(cola[Lista(h)]) \in Nat /\ Fichas(h) \in Nat

LEMMA FichasPartes ==
  ASSUME TypeOK, NEW h \in Perifericos PROVE Partes(h)
<1>1. Fichas(h) = sem[SemaforoDe(h)] + Tomado(h) + Leido(h)
                    + Mensajes(a_consola, h) + Mensajes(de_consola, h)
                    + Cardinality(EnCurso(h))
  BY DEF Fichas, Tomado, Leido, EnCurso
<1>2. sem[SemaforoDe(h)] \in Nat /\ Tomado(h) \in Nat /\ Leido(h) \in Nat
  BY ListasDistintas DEF TypeOK, Tomado, Leido
<1>3. Mensajes(a_consola, h) \in Nat /\ Mensajes(de_consola, h) \in Nat
  BY MensajesTipo DEF TypeOK
<1>4. Len(cola[Lista(h)]) \in Nat
  BY ListasDistintas, LenProperties DEF TypeOK
<1> QED
  BY <1>1, <1>2, <1>3, <1>4, EnCursoFinito, SMTT(40) DEF Partes

\* What a step must not touch to leave the tokens of h as they are.
FichasIguales(h) ==
  /\ cola'[Lista(h)] = cola[Lista(h)] /\ sem'[SemaforoDe(h)] = sem[SemaforoDe(h)]
  /\ (h \in con_mutex' <=> h \in con_mutex) /\ elegido'[h] = elegido[h]
  /\ Mensajes(a_consola', h) = Mensajes(a_consola, h)
  /\ Mensajes(de_consola', h) = Mensajes(de_consola, h)
  /\ UNCHANGED conexion

LEMMA FichasQuietas ==
  ASSUME NEW h, FichasIguales(h), Fichas(h) <= Len(cola[Lista(h)])
  PROVE  (Fichas(h) <= Len(cola[Lista(h)]))'
BY DEF FichasIguales, Fichas

LEMMA FichasQuietasTodas ==
  ASSUME FichasConLista, \A h \in Perifericos : FichasIguales(h),
         UNCHANGED conexion
  PROVE  FichasConLista'
<1>1. \A h \in Perifericos : (Fichas(h) <= Len(cola[Lista(h)]))'
  BY FichasQuietas DEF FichasConLista, FichasRespetadas
<1>2. FichasRespetadas'
  BY <1>1 DEF FichasRespetadas
<1> QED
  BY <1>2 DEF FichasConLista, ConexionesConLista

LEMMA FichasMoverAjeno ==
  ASSUME TypeOK, FichasConLista,
         NEW W, NEW P, NEW c \in Lugares, NEW e \in Lugares, NEW i, c # e,
         c \notin {"blocked_screen_list", "blocked_keyboard_list"},
         e \notin {"blocked_screen_list", "blocked_keyboard_list"},
         W \cup P \subseteq
           Semaforos \ {"bloquear_por_pantalla", "bloquear_por_teclado"},
         Mover(W, c, i, e, P),
         \A h \in Perifericos : h \in con_mutex' <=> h \in con_mutex,
         UNCHANGED <<elegido, consolas>>
  PROVE  FichasConLista'
<1>1. \A h \in Perifericos : /\ Lista(h) \in Lugares \ {c, e}
                             /\ SemaforoDe(h) \in Semaforos \ (W \cup P)
  BY ListasDistintas DEF Lista, SemaforoDe
<1>2. /\ \A x \in Lugares \ {c, e} : cola'[x] = cola[x]
      /\ \A s \in Semaforos \ (W \cup P) : sem'[s] = sem[s]
  BY MoverAjeno
<1>3. \A h \in Perifericos : FichasIguales(h)
  BY <1>1, <1>2 DEF FichasIguales, consolas
<1> QED
  BY <1>3, FichasQuietasTodas DEF consolas

\* When only the tokens of h change, those of the other are as they were.
LEMMA FichasDeUno ==
  ASSUME FichasConLista, NEW h \in Perifericos,
         \A k \in Perifericos \ {h} : FichasIguales(k) \/ (Fichas(k) <= Len(cola[Lista(k)]))',
         (Fichas(h) <= Len(cola[Lista(h)]))', ConexionesConLista'
  PROVE  FichasConLista'
<1>1. \A k \in Perifericos : (Fichas(k) <= Len(cola[Lista(k)]))'
  BY FichasQuietas DEF FichasConLista, FichasRespetadas
<1> QED
  BY <1>1 DEF FichasConLista, FichasRespetadas

\* How much each part of the tokens of h, and the list, grows in a step.
Cambio(h, ds, dt, dy, da, dd, dr, dl) ==
  /\ sem'[SemaforoDe(h)] = sem[SemaforoDe(h)] + ds
  /\ Tomado(h)' = Tomado(h) + dt
  /\ Leido(h)' = Leido(h) + dy
  /\ Mensajes(a_consola', h) = Mensajes(a_consola, h) + da
  /\ Mensajes(de_consola', h) = Mensajes(de_consola, h) + dd
  /\ Cardinality(EnCurso(h))' = Cardinality(EnCurso(h)) + dr
  /\ Len(cola'[Lista(h)]) = Len(cola[Lista(h)]) + dl

\* No more tokens than the list grows.
LEMMA FichasCambian ==
  ASSUME TypeOK, FichasConLista, NEW h \in Perifericos,
         NEW ds \in Int, NEW dt \in Int, NEW dy \in Int, NEW da \in Int,
         NEW dd \in Int, NEW dr \in Int, NEW dl \in Int,
         Cambio(h, ds, dt, dy, da, dd, dr, dl),
         ds + dt + dy + da + dd + dr <= dl
  PROVE  (Fichas(h) <= Len(cola[Lista(h)]))'
<1> DEFINE s == sem[SemaforoDe(h)]
           t == Tomado(h)
           y == Leido(h)
           a == Mensajes(a_consola, h)
           d == Mensajes(de_consola, h)
           r == Cardinality(EnCurso(h))
           l == Len(cola[Lista(h)])
<1>1. /\ s \in Nat /\ t \in Nat /\ y \in Nat /\ a \in Nat /\ d \in Nat
      /\ r \in Nat /\ l \in Nat
      /\ Fichas(h) = s + t + y + a + d + r
  BY FichasPartes DEF Partes
<1>2. Fichas(h) <= l
  BY DEF FichasConLista, FichasRespetadas
<1>3. Fichas(h)' = sem'[SemaforoDe(h)] + Tomado(h)' + Leido(h)'
                     + Mensajes(a_consola', h) + Mensajes(de_consola', h)
                     + Cardinality(EnCurso(h))'
  BY DEF Fichas, Tomado, Leido, EnCurso
<1>4. /\ Fichas(h)' = (s + ds) + (t + dt) + (y + dy) + (a + da) + (d + dd) + (r + dr)
      /\ Len(cola'[Lista(h)]) = l + dl
  BY <1>3, Zenon DEF Cambio
<1> HIDE DEF s, t, y, a, d, r, l
<1>5. s + t + y + a + d + r <= l
  BY <1>1, <1>2
<1>6. (s + ds) + (t + dt) + (y + dy) + (a + da) + (d + dd) + (r + dr) <= l + dl
  BY <1>1, <1>5
<1> QED
  BY <1>4, <1>6


\* A Mover in lengths and semaphores: one place less here, one more there.
Movido(W, c, e, P) ==
  \/ cola' = cola /\ sem' = sem
  \/ /\ \A x \in Lugares :
          Len(cola'[x]) = Len(cola[x]) + Cuenta(x, {e}) - Cuenta(x, {c})
     /\ \A s \in Semaforos : sem'[s] = sem[s] - Cuenta(s, W) + Cuenta(s, P)

LEMMA MoverMovido ==
  ASSUME TypeOK, NEW W, NEW P, NEW c \in Lugares, NEW e \in Lugares, NEW i,
         c # e, Mover(W, c, i, e, P)
  PROVE  Movido(W, c, e, P)
<1>1. CASE i \notin DOMAIN cola[c]
  BY <1>1 DEF Mover, Movido
<1>2. CASE i \in DOMAIN cola[c]
  BY <1>2, MoverLargos DEF Movido
<1> QED
  BY <1>1, <1>2

\* What a step leaves alone does not change its part of the tokens.
LEMMA PartesQuietas ==
  ASSUME TypeOK, NEW h \in Perifericos
  PROVE  /\ UNCHANGED sem => sem'[SemaforoDe(h)] = sem[SemaforoDe(h)] + 0
         /\ UNCHANGED con_mutex => Tomado(h)' = Tomado(h) + 0
         /\ UNCHANGED elegido => Leido(h)' = Leido(h) + 0
         /\ UNCHANGED a_consola =>
              Mensajes(a_consola', h) = Mensajes(a_consola, h) + 0
         /\ UNCHANGED de_consola =>
              Mensajes(de_consola', h) = Mensajes(de_consola, h) + 0
         /\ EnCurso(h)' = EnCurso(h) =>
              Cardinality(EnCurso(h))' = Cardinality(EnCurso(h)) + 0
         /\ UNCHANGED conexion =>
              Cardinality(EnCurso(h))' = Cardinality(EnCurso(h)) + 0
         /\ UNCHANGED cola => Len(cola'[Lista(h)]) = Len(cola[Lista(h)]) + 0
<1>0. \A x \in Nat : x + 0 = x
  OBVIOUS
<1>1. /\ sem[SemaforoDe(h)] + 0 = sem[SemaforoDe(h)] /\ Tomado(h) + 0 = Tomado(h)
      /\ Leido(h) + 0 = Leido(h)
      /\ Mensajes(a_consola, h) + 0 = Mensajes(a_consola, h)
      /\ Mensajes(de_consola, h) + 0 = Mensajes(de_consola, h)
      /\ Cardinality(EnCurso(h)) + 0 = Cardinality(EnCurso(h))
      /\ Len(cola[Lista(h)]) + 0 = Len(cola[Lista(h)])
  BY <1>0, FichasPartes, Zenon DEF Partes
<1>2. /\ UNCHANGED con_mutex => Tomado(h)' = Tomado(h)
      /\ UNCHANGED elegido => Leido(h)' = Leido(h)
      /\ UNCHANGED conexion => EnCurso(h)' = EnCurso(h)
  BY DEF Tomado, Leido, EnCurso
<1> QED
  BY <1>1, <1>2, Zenon

\* One more process waits for h, and one more wake-up.
LEMMA PasoBloquearPorPeriferico ==
  ASSUME TypeOK, FichasConLista, NEW h \in Perifericos, BloquearPorPeriferico(h)
  PROVE  FichasConLista'
<1> DEFINE P == {SemaforoDe(h), "cpu_libre"}
<1>1. /\ Mover({}, "cpu", 1, Lista(h), P)
      /\ UNCHANGED <<manejadores, consolas>>
  BY DEF BloquearPorPeriferico, Archivar
<1>2. /\ "cpu" \in Lugares /\ Lista(h) \in Lugares /\ Lista(h) # "cpu"
      /\ \A k \in Perifericos : Lista(k) \in Lugares /\ Lista(k) # "cpu"
      /\ \A k \in Perifericos : SemaforoDe(k) \in Semaforos
                                /\ SemaforoDe(k) # "cpu_libre"
  BY Nombres, ListasDistintas DEF Colas, Lista, SemaforoDe
<1>3. Movido({}, "cpu", Lista(h), P)
  BY <1>1, <1>2, MoverMovido
<1>4. ASSUME NEW k \in Perifericos PROVE (Fichas(k) <= Len(cola[Lista(k)]))'
  <2> DEFINE u == IF k = h THEN 1 ELSE 0
  <2>0. Partes(k)
    BY FichasPartes
  <2>1. CASE cola' = cola /\ sem' = sem
    BY <1>1, <2>1 DEF FichasConLista, FichasRespetadas, Fichas, manejadores, consolas
  <2>2. CASE /\ Len(cola'[Lista(k)]) = Len(cola[Lista(k)])
                  + Cuenta(Lista(k), {Lista(h)}) - Cuenta(Lista(k), {"cpu"})
             /\ sem'[SemaforoDe(k)] = sem[SemaforoDe(k)]
                  - Cuenta(SemaforoDe(k), {}) + Cuenta(SemaforoDe(k), P)
    <3>1. /\ Cuenta(Lista(k), {Lista(h)}) = u
          /\ Cuenta(Lista(k), {"cpu"}) = 0
          /\ Cuenta(SemaforoDe(k), {}) = 0
          /\ Cuenta(SemaforoDe(k), P) = u
          /\ u \in Int
      BY <1>2, ListasDistintas DEF Cuenta
    <3>2. /\ UNCHANGED <<con_mutex, elegido, conexion, a_consola, de_consola>>
          /\ Len(cola'[Lista(k)]) = Len(cola[Lista(k)]) + u - 0
          /\ sem'[SemaforoDe(k)] = sem[SemaforoDe(k)] - 0 + u
      BY <1>1, <2>2, <3>1 DEF manejadores, consolas
    <3> HIDE DEF u
    <3>3. Cambio(k, u, 0, 0, 0, 0, 0, u)
      <4>1. /\ Len(cola[Lista(k)]) \in Nat /\ sem[SemaforoDe(k)] \in Nat
        BY <2>0 DEF Partes
      <4>2. /\ sem'[SemaforoDe(k)] = sem[SemaforoDe(k)] + u
            /\ Len(cola'[Lista(k)]) = Len(cola[Lista(k)]) + u
        BY <3>1, <3>2, <4>1
      <4> QED
        BY <3>2, <4>2, PartesQuietas, Zenon DEF Cambio
    <3>4. u + 0 + 0 + 0 + 0 + 0 <= u
      BY <3>1
    <3> QED
      BY <3>1, <3>3, <3>4, FichasCambian
  <2> QED
    BY <1>2, <1>3, <2>1, <2>2 DEF Movido
<1>5. ConexionesConLista'
  BY <1>1 DEF FichasConLista, ConexionesConLista, consolas
<1> QED
  BY <1>4, <1>5 DEF FichasConLista, FichasRespetadas

\* The handler: wake-up, mutex, choice, prompt.
LEMMA PasoTomarMutex ==
  ASSUME TypeOK, FichasConLista, NEW h \in Perifericos, TomarMutex(h)
  PROVE  FichasConLista'
<1>0. Partes(h)
  BY FichasPartes
<1>1. /\ h \notin con_mutex /\ con_mutex' = con_mutex \cup {h}
      /\ Sincronizar({SemaforoDe(h)}, {})
      /\ UNCHANGED <<cola, elegido, conexion, a_consola, de_consola>>
  BY DEF TomarMutex, consolas
<1>2. sem'[SemaforoDe(h)] = sem[SemaforoDe(h)] - 1
  BY <1>1, ListasDistintas DEF Sincronizar, TypeOK
<1>3. \A k \in Perifericos \ {h} : sem'[SemaforoDe(k)] = sem[SemaforoDe(k)]
  BY <1>1, ListasDistintas DEF Sincronizar, TypeOK
<1>4. \A k \in Perifericos \ {h} : FichasIguales(k)
  BY <1>1, <1>3 DEF FichasIguales
<1>5. Tomado(h) = 0 /\ Tomado(h)' = 1
  BY <1>1 DEF Tomado
<1>6. Cambio(h, -1, 1, 0, 0, 0, 0, 0)
  <2>1. sem'[SemaforoDe(h)] = sem[SemaforoDe(h)] + (-1)
    BY <1>0, <1>2 DEF Partes
  <2>2. Tomado(h)' = Tomado(h) + 1
    BY <1>5
  <2> QED
    BY <1>1, <2>1, <2>2, PartesQuietas, Zenon DEF Cambio
<1>7. (Fichas(h) <= Len(cola[Lista(h)]))'
  BY <1>6, FichasCambian
<1>8. ConexionesConLista'
  BY <1>1 DEF FichasConLista, ConexionesConLista
<1> QED
  BY <1>4, <1>7, <1>8, FichasDeUno

LEMMA PasoLeerUltimo ==
  ASSUME TypeOK, FichasConLista, NEW h \in Perifericos, LeerUltimo(h)
  PROVE  FichasConLista'
<1>0. Partes(h)
  BY FichasPartes
<1>1. /\ h \in con_mutex /\ con_mutex' = con_mutex \ {h}
      /\ UNCHANGED <<cola, sem, conexion, a_consola, de_consola>>
  BY DEF LeerUltimo, consolas
<1>2. Tomado(h) = 1 /\ Tomado(h)' = 0
  BY <1>1 DEF Tomado
<1>6. \A k \in Perifericos \ {h} : FichasIguales(k)
  BY <1>1 DEF LeerUltimo, FichasIguales, TypeOK
<1>7. \E u \in Int : u <= 1 /\ Leido(h)' = Leido(h) + u
  <2>1. Leido(h) \in {0, 1} /\ Leido(h)' \in {0, 1}
    BY DEF Leido
  <2>2. \A x, y \in {0, 1} : \E u \in Int : u <= 1 /\ y = x + u
    <3> TAKE x, y \in {0, 1}
    <3>1. y - x \in Int /\ y - x <= 1 /\ y = x + (y - x)
      OBVIOUS
    <3> QED
      BY <3>1
  <2> QED
    BY <2>1, <2>2
<1>8. PICK u \in Int : u <= 1 /\ Leido(h)' = Leido(h) + u
  BY <1>7
<1>9. Cambio(h, 0, -1, u, 0, 0, 0, 0)
  <2>1. Tomado(h)' = Tomado(h) + (-1)
    BY <1>2
  <2> QED
    BY <1>1, <1>8, <2>1, PartesQuietas, Zenon DEF Cambio
<1>10. 0 + (-1) + u + 0 + 0 + 0 <= 0
  BY <1>8
<1>11. (Fichas(h) <= Len(cola[Lista(h)]))'
  BY <1>9, <1>10, FichasCambian
<1>12. ConexionesConLista'
  BY <1>1 DEF FichasConLista, ConexionesConLista
<1> QED
  BY <1>6, <1>11, <1>12, FichasDeUno

LEMMA PasoPedirAConsola ==
  ASSUME TypeOK, FichasConLista, NEW h \in Perifericos, PedirAConsola(h)
  PROVE  FichasConLista'
<1> DEFINE p == elegido[h]
<1>0. Partes(h)
  BY FichasPartes
<1>1. /\ p # Nadie /\ elegido' = [elegido EXCEPT ![h] = Nadie]
      /\ a_consola' = a_consola
           \/ a_consola' = [a_consola EXCEPT ![p] = Append(@, h)]
      /\ UNCHANGED <<cola, sem, con_mutex, conexion, de_consola>>
  BY DEF PedirAConsola
<1>2. p \in Procesos /\ a_consola \in [Procesos -> Seq(Perifericos \cup {"FIN"})]
      /\ h \in Perifericos \cup {"FIN"} /\ elegido'[h] = Nadie
  BY <1>1 DEF TypeOK
<1>3. Leido(h) = 1 /\ Leido(h)' = 0
  BY <1>1, <1>2 DEF Leido
<1> HIDE DEF p
<1>4. \E u \in Int :
        /\ u <= 1 /\ Mensajes(a_consola', h) = Mensajes(a_consola, h) + u
        /\ \A k \in Perifericos \ {h} : Mensajes(a_consola', k) = Mensajes(a_consola, k)
  <2>1. CASE a_consola' = a_consola
    <3>1. Mensajes(a_consola', h) = Mensajes(a_consola, h) + 0
      BY <1>0, <2>1 DEF Partes
    <3> QED
      BY <2>1, <3>1
  <2>2. CASE a_consola' = [a_consola EXCEPT ![p] = Append(@, h)]
    <3>1. \A k : /\ Mensajes(a_consola, k) \in Nat
                 /\ Mensajes(a_consola', k)
                      = Mensajes(a_consola, k) + (IF h = k THEN 1 ELSE 0)
      <4> TAKE k
      <4> DEFINE S == Perifericos \cup {"FIN"}
                 nuevo == a_consola'
      <4>1. a_consola \in [Procesos -> Seq(S)] /\ h \in S
        BY <1>2
      <4>2. Agregado(a_consola, nuevo, p, h)
        BY <2>2 DEF Agregado
      <4> HIDE DEF S, nuevo
      <4>3. /\ Mensajes(a_consola, k) \in Nat
            /\ Mensajes(nuevo, k) = Mensajes(a_consola, k) + (IF h = k THEN 1 ELSE 0)
        BY <1>2, <4>1, <4>2, MensajeAgregado
      <4> QED
        BY <4>3 DEF nuevo
    <3>2. \A k \in Perifericos \ {h} : Mensajes(a_consola', k) = Mensajes(a_consola, k)
      BY <3>1
    <3>3. Mensajes(a_consola', h) = Mensajes(a_consola, h) + 1
      BY <3>1
    <3> QED
      BY <3>2, <3>3
  <2> QED
    BY <1>1, <2>1, <2>2
<1>5. PICK u \in Int :
        /\ u <= 1 /\ Mensajes(a_consola', h) = Mensajes(a_consola, h) + u
        /\ \A k \in Perifericos \ {h} : Mensajes(a_consola', k) = Mensajes(a_consola, k)
  BY <1>4
<1>6. \A k \in Perifericos \ {h} : FichasIguales(k)
  BY <1>1, <1>5 DEF FichasIguales, TypeOK
<1>7. Cambio(h, 0, 0, -1, u, 0, 0, 0)
  <2>1. Leido(h)' = Leido(h) + (-1)
    BY <1>3
  <2> QED
    BY <1>1, <1>5, <2>1, PartesQuietas, Zenon DEF Cambio
<1>8. 0 + 0 + (-1) + u + 0 + 0 <= 0
  BY <1>5
<1>9. (Fichas(h) <= Len(cola[Lista(h)]))'
  BY <1>7, <1>8, FichasCambian
<1>10. ConexionesConLista'
  BY <1>1 DEF FichasConLista, ConexionesConLista
<1> QED
  BY <1>6, <1>9, <1>10, FichasDeUno

\* A console answers: one message less one way, one more the other.
LEMMA PasoConsolaResponde ==
  ASSUME TypeOK, FichasConLista, NEW p \in Procesos, ConsolaResponde(p)
  PROVE  FichasConLista'
<1> DEFINE m == Head(a_consola[p])
           S == Perifericos \cup {"FIN"}
<1>1. /\ a_consola[p] # <<>> /\ m \in Perifericos
      /\ Quitado(a_consola, a_consola', p) /\ Agregado(de_consola, de_consola', p, m)
      /\ UNCHANGED <<cola, sem, con_mutex, elegido, conexion>>
  BY DEF ConsolaResponde, manejadores, Agregado, Quitado
<1>2. /\ a_consola \in [Procesos -> Seq(S)]
      /\ de_consola \in [Procesos -> Seq(Perifericos)]
  BY DEF TypeOK
<1> HIDE DEF S
<1>3. ASSUME NEW k \in Perifericos PROVE (Fichas(k) <= Len(cola[Lista(k)]))'
  <2> DEFINE u == IF m = k THEN 1 ELSE 0
  <2>0. Partes(k) /\ u \in Nat
    BY FichasPartes
  <2>1. /\ Mensajes(a_consola', k) \in Nat
        /\ Mensajes(a_consola, k) = Mensajes(a_consola', k) + u
    BY <1>1, <1>2, MensajeQuitado
  <2> HIDE DEF m
  <2>2. Mensajes(de_consola', k) = Mensajes(de_consola, k) + u
    BY <1>1, <1>2, MensajeAgregado
  <2> HIDE DEF u
  <2>3. Mensajes(a_consola', k) = Mensajes(a_consola, k) + (0 - u)
    BY <2>0, <2>1
  <2>4. Cambio(k, 0, 0, 0, 0 - u, u, 0, 0)
    BY <1>1, <2>2, <2>3, PartesQuietas, Zenon DEF Cambio
  <2>5. 0 + 0 + 0 + (0 - u) + u + 0 <= 0 /\ 0 - u \in Int /\ u \in Int
    BY <2>0
  <2> QED
    BY <2>4, <2>5, FichasCambian
<1>4. ConexionesConLista'
  BY <1>1 DEF FichasConLista, ConexionesConLista
<1> QED
  BY <1>3, <1>4 DEF FichasConLista, FichasRespetadas

\* The thread of a console takes an answer: it becomes a removal.
LEMMA PasoAtenderConsola ==
  ASSUME TypeOK, FichasConLista, NEW p \in Procesos, AtenderConsola(p)
  PROVE  FichasConLista'
<1> DEFINE m == Head(de_consola[p])
<1>1. /\ conexion[p].paso = "recv" /\ de_consola[p] # <<>>
      /\ Quitado(de_consola, de_consola', p)
      /\ \A q \in Procesos \ {p} : conexion'[q] = conexion[q]
      /\ conexion'[p].paso \notin {"recv", "terminada"} /\ conexion'[p].lista = m
      /\ UNCHANGED <<cola, sem, con_mutex, elegido, a_consola>>
  BY DEF AtenderConsola, manejadores, TypeOK, Quitado
<1>2. de_consola \in [Procesos -> Seq(Perifericos)]
  BY DEF TypeOK
<1>3. m \in Perifericos
  BY <1>1, <1>2, HeadTailProperties
<1>4. ASSUME NEW k \in Perifericos PROVE (Fichas(k) <= Len(cola[Lista(k)]))'
  <2> DEFINE u == IF m = k THEN 1 ELSE 0
  <2>0. Partes(k) /\ u \in Nat
    BY FichasPartes
  <2>1. /\ Mensajes(de_consola', k) \in Nat
        /\ Mensajes(de_consola, k) = Mensajes(de_consola', k) + u
    BY <1>1, <1>2, MensajeQuitado
  <2>2. Cardinality(EnCurso(k))' = Cardinality(EnCurso(k)) + u
    <3> DEFINE c == m = k
    <3>1. p \notin EnCurso(k)
          /\ EnCurso(k)' = EnCurso(k) \cup (IF c THEN {p} ELSE {})
      BY <1>1 DEF EnCurso
    <3> QED
      BY <3>1, EnCursoFinito, SumarUno
  <2> HIDE DEF m, u
  <2>3. Mensajes(de_consola', k) = Mensajes(de_consola, k) + (0 - u)
    BY <2>0, <2>1
  <2>4. Cambio(k, 0, 0, 0, 0, 0 - u, u, 0)
    BY <1>1, <2>2, <2>3, PartesQuietas, Zenon DEF Cambio
  <2>5. 0 + 0 + 0 + 0 + (0 - u) + u <= 0 /\ 0 - u \in Int /\ u \in Int
    BY <2>0
  <2> QED
    BY <2>4, <2>5, FichasCambian
<1>5. ConexionesConLista'
  BY <1>1, <1>3 DEF FichasConLista, ConexionesConLista
<1> QED
  BY <1>4, <1>5 DEF FichasConLista, FichasRespetadas

\* The search keeps the answer in hand; the end of a console takes at most a prompt.
LEMMA PasoBuscarIndice ==
  ASSUME TypeOK, FichasConLista, NEW p \in Procesos, BuscarIndice(p) \/ CerrarConexion(p)
  PROVE  FichasConLista'
<1>1. /\ UNCHANGED <<cola, sem, con_mutex, a_consola, de_consola>>
      /\ \A q \in Procesos \ {p} : conexion'[q] = conexion[q]
  BY DEF BuscarIndice, CerrarConexion, manejadores, TypeOK
<1>2. \/ /\ conexion[p].paso = "buscar" /\ conexion'[p].paso \in {"buscar", "quitar"}
         /\ conexion'[p].lista = conexion[p].lista
      \/ conexion[p].paso = "recv" /\ conexion'[p].paso = "terminada"
      \/ conexion' = conexion
  <2>1. conexion[p] \in Conexiones /\ conexion \in [Procesos -> Conexiones]
    BY DEF TypeOK, Conexiones
  <2>2. CASE BuscarIndice(p)
    <3> DEFINE c == conexion[p]
               X == {[c EXCEPT !.paso = "quitar", !.indice = 1],
                     [c EXCEPT !.paso = "quitar"], [c EXCEPT !.indice = @ + 1]}
    <3>1. /\ c.paso = "buscar"
          /\ \/ \E x \in X : conexion' = [conexion EXCEPT ![p] = x]
             \/ conexion' = conexion
      BY <2>2 DEF BuscarIndice
    <3>2. \A x : [conexion EXCEPT ![p] = x][p] = x
      BY <2>1
    <3>3. ASSUME NEW x, x.paso \in {"buscar", "quitar"}, x.lista = c.lista,
                 conexion' = [conexion EXCEPT ![p] = x]
          PROVE  /\ conexion'[p].paso \in {"buscar", "quitar"}
                 /\ conexion'[p].lista = conexion[p].lista
      BY <3>2, <3>3
    <3>4. \A x \in X : x.paso \in {"buscar", "quitar"} /\ x.lista = c.lista
      BY <2>1, <3>1 DEF Conexiones
    <3> HIDE DEF X
    <3> QED
      BY <3>1, <3>3, <3>4
  <2>3. CASE CerrarConexion(p)
    BY <2>1, <2>3 DEF CerrarConexion, Conexiones
  <2> QED
    BY <2>2, <2>3
<1>3. \A k : EnCurso(k)' = EnCurso(k)
  BY <1>1, <1>2 DEF EnCurso
<1>4. \A k \in Perifericos : Leido(k)' <= Leido(k)
  <2>1. CASE BuscarIndice(p)
    BY <2>1 DEF BuscarIndice, manejadores, Leido
  <2>2. CASE CerrarConexion(p)
    BY <2>2, NadieAssumption DEF CerrarConexion, Leido
  <2> QED
    BY <2>1, <2>2
<1>5. ASSUME NEW k \in Perifericos PROVE (Fichas(k) <= Len(cola[Lista(k)]))'
  <2>0. Partes(k)
    BY FichasPartes
  <2>1. PICK u \in Int : u <= 0 /\ Leido(k)' = Leido(k) + u
    <3>1. Leido(k) \in {0, 1} /\ Leido(k)' \in {0, 1}
      BY DEF Leido
    <3>2. \A x, y \in {0, 1} : y <= x => \E u \in Int : u <= 0 /\ y = x + u
      <4> TAKE x, y \in {0, 1}
      <4>1. y - x \in Int /\ (y <= x => y - x <= 0) /\ y = x + (y - x)
        OBVIOUS
      <4> QED
        BY <4>1
    <3> QED
      BY <1>4, <3>1, <3>2
  <2>2. Cambio(k, 0, 0, u, 0, 0, 0, 0)
    BY <1>1, <1>3, <2>1, PartesQuietas, Zenon DEF Cambio
  <2>3. 0 + 0 + u + 0 + 0 + 0 <= 0
    BY <2>1
  <2> QED
    BY <2>1, <2>2, <2>3, FichasCambian
<1>6. ConexionesConLista'
  BY <1>1, <1>2 DEF FichasConLista, ConexionesConLista
<1> QED
  BY <1>5, <1>6 DEF FichasConLista, FichasRespetadas

\* The order to end is no prompt.
LEMMA FinNoEsPedido ==
  ASSUME TypeOK, NEW h \in Perifericos, NEW p \in Procesos,
         \/ Agregado(a_consola, a_consola', p, "FIN")
         \/ a_consola[p] # <<>> /\ Head(a_consola[p]) = "FIN"
              /\ Quitado(a_consola, a_consola', p)
  PROVE  Mensajes(a_consola', h) = Mensajes(a_consola, h)
<1> DEFINE S == Perifericos \cup {"FIN"}
<1>1. a_consola \in [Procesos -> Seq(S)] /\ "FIN" \in S /\ h # "FIN"
  BY DEF TypeOK, Perifericos
<1> HIDE DEF S
<1>2. CASE Agregado(a_consola, a_consola', p, "FIN")
  <2>1. /\ Mensajes(a_consola, h) \in Nat
        /\ Mensajes(a_consola', h) = Mensajes(a_consola, h) + 0
    BY <1>1, <1>2, MensajeAgregado
  <2> QED
    BY <2>1
<1>3. CASE a_consola[p] # <<>> /\ Head(a_consola[p]) = "FIN"
             /\ Quitado(a_consola, a_consola', p)
  <2>1. /\ Mensajes(a_consola', h) \in Nat
        /\ Mensajes(a_consola, h) = Mensajes(a_consola', h) + 0
    BY <1>1, <1>3, MensajeQuitado
  <2> QED
    BY <2>1
<1> QED
  BY <1>2, <1>3

LEMMA PasoConsolaTermina ==
  ASSUME TypeOK, FichasConLista, NEW p \in Procesos, ConsolaTermina(p)
  PROVE  FichasConLista'
<1>1. /\ a_consola[p] # <<>> /\ Head(a_consola[p]) = "FIN"
      /\ Quitado(a_consola, a_consola', p)
      /\ UNCHANGED <<cola, sem, con_mutex, elegido, conexion, de_consola>>
  BY DEF ConsolaTermina, manejadores, Quitado
<1>2. \A h \in Perifericos : FichasIguales(h)
  BY <1>1, FinNoEsPedido DEF FichasIguales
<1> QED
  BY <1>1, <1>2, FichasQuietasTodas

LEMMA PasoFinalizarFichas ==
  ASSUME TypeOK, FichasConLista, Finalizar PROVE FichasConLista'
<1>1. UNCHANGED <<con_mutex, elegido, conexion, de_consola>>
  BY DEF Finalizar, manejadores
<1>2. "exit_queue" \in Lugares /\ cola["exit_queue"] \in Seq(Procesos)
      /\ \A h \in Perifericos :
           /\ Lista(h) \in Lugares /\ Lista(h) # "exit_queue"
           /\ SemaforoDe(h) \in
                Semaforos \ {"finish_process", "grado_multiprogramacion"}
  BY Nombres, ListasDistintas DEF TypeOK, Colas, SemaforosSincro, Lista, SemaforoDe
<1>3. CASE UNCHANGED <<cola, sem, a_consola>>
  BY <1>1, <1>3, FichasQuietasTodas DEF FichasIguales
<1>4. CASE /\ cola["exit_queue"] # <<>>
           /\ Sincronizar({"finish_process"}, {"grado_multiprogramacion"})
           /\ cola' = [cola EXCEPT !["exit_queue"] = Tail(@)]
           /\ Agregado(a_consola, a_consola', Head(cola["exit_queue"]), "FIN")
  <2>1. Head(cola["exit_queue"]) \in Procesos
    BY <1>2, <1>4, HeadTailProperties
  <2>2. \A h \in Perifericos : Mensajes(a_consola', h) = Mensajes(a_consola, h)
    BY <1>4, <2>1, FinNoEsPedido
  <2>3. \A h \in Perifericos : /\ cola'[Lista(h)] = cola[Lista(h)]
                               /\ sem'[SemaforoDe(h)] = sem[SemaforoDe(h)]
    BY <1>2, <1>4 DEF TypeOK, Sincronizar
  <2>4. \A h \in Perifericos : FichasIguales(h)
    BY <1>1, <2>2, <2>3 DEF FichasIguales
  <2> QED
    BY <1>1, <2>4, FichasQuietasTodas
<1> QED
  BY <1>3, <1>4 DEF Finalizar, Agregado

\* The removal: a token less and, if the index was right, a process less.
LEMMA PasoDesbloquear ==
  ASSUME TypeOK, FichasConLista, NEW p \in Procesos, Desbloquear(p)
  PROVE  FichasConLista'
<1> DEFINE h == conexion[p].lista
           e == ColaReady(Respuesta(h))
<1>1. /\ conexion[p].paso = "quitar"
      /\ Mover({}, Lista(h), conexion[p].indice, e, {})
      /\ conexion' = [conexion EXCEPT ![p] = EnRecv]
      /\ UNCHANGED <<con_mutex, elegido, a_consola, de_consola>>
  BY DEF Desbloquear, AgregarAReady, manejadores
<1>2. h \in Perifericos
  BY <1>1 DEF FichasConLista, ConexionesConLista
<1>3. /\ Lista(h) \in Lugares /\ e \in Lugares /\ Lista(h) # e
      /\ \A k \in Perifericos :
           /\ Lista(k) \in Lugares /\ Lista(k) # e
           /\ SemaforoDe(k) \in Semaforos
      /\ conexion'[p].paso = "recv"
      /\ \A q \in Procesos \ {p} : conexion'[q] = conexion[q]
  BY <1>1, <1>2, Nombres, ListasDistintas
     DEF Colas, Lista, SemaforoDe, ColaReady, EnRecv, TypeOK
<1>4. Movido({}, Lista(h), e, {})
  BY <1>1, <1>3, MoverMovido
<1> HIDE DEF e
<1>5. ASSUME NEW k \in Perifericos PROVE (Fichas(k) <= Len(cola[Lista(k)]))'
  <2> DEFINE u == IF h = k THEN 1 ELSE 0
  <2>0. Partes(k) /\ u \in Nat
    BY FichasPartes
  <2>1. Cardinality(EnCurso(k))' \in Nat
        /\ Cardinality(EnCurso(k)) = Cardinality(EnCurso(k))' + u
    <3> DEFINE c == h = k
    <3>1. p \notin EnCurso(k)'
          /\ EnCurso(k) = EnCurso(k)' \cup (IF c THEN {p} ELSE {})
      BY <1>1, <1>3 DEF EnCurso
    <3> QED
      BY <3>1, EnCursoFinito, SumarUno
  <2>2. \E v \in Nat : /\ v <= u
                       /\ Len(cola'[Lista(k)]) = Len(cola[Lista(k)]) + (0 - v)
                       /\ sem'[SemaforoDe(k)] = sem[SemaforoDe(k)] + 0
    <3>1. CASE cola' = cola /\ sem' = sem
      <4>1. /\ 0 <= u /\ 0 \in Nat
            /\ Len(cola'[Lista(k)]) = Len(cola[Lista(k)]) + (0 - 0)
            /\ sem'[SemaforoDe(k)] = sem[SemaforoDe(k)] + 0
        BY <2>0, <3>1 DEF Partes
      <4> QED
        BY <4>1
    <3>2. CASE /\ Len(cola'[Lista(k)]) = Len(cola[Lista(k)])
                    + Cuenta(Lista(k), {e}) - Cuenta(Lista(k), {Lista(h)})
               /\ sem'[SemaforoDe(k)] = sem[SemaforoDe(k)]
                    - Cuenta(SemaforoDe(k), {}) + Cuenta(SemaforoDe(k), {})
      <4>1. /\ Cuenta(Lista(k), {e}) = 0
            /\ Cuenta(Lista(k), {Lista(h)}) = u
            /\ Cuenta(SemaforoDe(k), {}) = 0
        BY <1>2, <1>3, ListasDistintas DEF Cuenta
      <4>2. /\ Len(cola'[Lista(k)]) = Len(cola[Lista(k)]) + 0 - u
            /\ sem'[SemaforoDe(k)] = sem[SemaforoDe(k)] - 0 + 0
        BY <3>2, <4>1
      <4> HIDE DEF u
      <4>3. /\ u <= u
            /\ Len(cola'[Lista(k)]) = Len(cola[Lista(k)]) + (0 - u)
            /\ sem'[SemaforoDe(k)] = sem[SemaforoDe(k)] + 0
        BY <2>0, <4>2 DEF Partes
      <4> QED
        BY <2>0, <4>3
    <3> QED
      BY <1>3, <1>4, <3>1, <3>2 DEF Movido
  <2>3. PICK v \in Nat : /\ v <= u
                         /\ Len(cola'[Lista(k)]) = Len(cola[Lista(k)]) + (0 - v)
                         /\ sem'[SemaforoDe(k)] = sem[SemaforoDe(k)] + 0
    BY <2>2
  <2> HIDE DEF u
  <2>4. Cardinality(EnCurso(k))' = Cardinality(EnCurso(k)) + (0 - u)
    BY <2>0, <2>1
  <2>5. Cambio(k, 0, 0, 0, 0, 0, 0 - u, 0 - v)
    BY <1>1, <2>3, <2>4, PartesQuietas, Zenon DEF Cambio
  <2>6. 0 + 0 + 0 + 0 + 0 + (0 - u) <= 0 - v /\ 0 - u \in Int /\ 0 - v \in Int
    BY <2>0, <2>3
  <2> QED
    BY <2>5, <2>6, FichasCambian
<1>6. ConexionesConLista'
  BY <1>3 DEF FichasConLista, ConexionesConLista
<1> QED
  BY <1>5, <1>6 DEF FichasConLista, FichasRespetadas

LEMMA FichasPaso == TypeOK /\ FichasConLista /\ Next => FichasConLista'
<1> SUFFICES ASSUME TypeOK, FichasConLista, Next PROVE FichasConLista'
  OBVIOUS
<1> USE DEF manejadores, consolas
<1> DEFINE Otras == {"blocked_screen_list", "blocked_keyboard_list"}
<1>0. ASSUME UNCHANGED <<cola, sem, con_mutex, elegido, conexion, a_consola,
                         de_consola>>
      PROVE  FichasConLista'
  BY <1>0, FichasQuietasTodas DEF FichasIguales
<1>25. ASSUME NEW t \in Hilos, TerminarDeMostrar(t) PROVE FichasConLista'
  <2>1. \A h \in Perifericos :
          SemaforoDe(h) \in Semaforos \ {"pcbs_en_ready", "cpu_libre"}
    BY Nombres DEF SemaforoDe, SemaforosSincro
  <2>2. /\ UNCHANGED <<cola, con_mutex, elegido, conexion, a_consola, de_consola>>
        /\ \A h \in Perifericos : sem'[SemaforoDe(h)] = sem[SemaforoDe(h)]
    BY <1>25, <2>1, MostrarEfecto
  <2> QED
    BY <2>2, FichasQuietasTodas DEF FichasIguales
<1>1. CASE AdmitirProceso
  BY <1>1, FichasMoverAjeno, Nombres DEF AdmitirProceso, Colas, SemaforosSincro
<1>2. CASE CrearEstructuras
  BY <1>2, FichasMoverAjeno, Nombres DEF CrearEstructuras, Colas, SemaforosSincro
<1>3. CASE IndiceActualizado
  BY <1>3, FichasMoverAjeno, Nombres
     DEF IndiceActualizado, AgregarAReady, Colas, SemaforosSincro, ColaReady
<1>4. CASE PageFaultAtendido
  <2>1. \A h \in Perifericos : sem'[SemaforoDe(h)] = sem[SemaforoDe(h)]
    BY <1>4, ListasDistintas DEF PageFaultAtendido, Sincronizar, TypeOK, SemaforoDe
  <2> QED
    BY <1>4, <2>1, FichasQuietasTodas DEF PageFaultAtendido, FichasIguales
<1>5. CASE ElegirListo
  BY <1>5, FichasMoverAjeno, Nombres DEF ElegirListo, Colas, SemaforosSincro
<1>6. CASE EnviarACpu
  BY <1>6, FichasMoverAjeno, Nombres DEF EnviarACpu, Colas, SemaforosSincro
<1>7. CASE DesalojarPorQuantum
  BY <1>7, FichasMoverAjeno, Nombres
     DEF DesalojarPorQuantum, AgregarAReady, Colas, SemaforosSincro, ColaReady
<1>8. CASE BloquearPorPageFault
  BY <1>8, FichasMoverAjeno, Nombres
     DEF BloquearPorPageFault, Archivar, Colas, SemaforosSincro
<1>9. CASE TerminarProceso
  BY <1>9, FichasMoverAjeno, Nombres
     DEF TerminarProceso, Archivar, Colas, SemaforosSincro
<1>10. CASE ColgarDispatch
  BY <1>0, <1>10 DEF ColgarDispatch
<1>11. ASSUME NEW d \in Dispositivos, BloquearPorIO(d) PROVE FichasConLista'
  <2>1. d \in Semaforos \ {"bloquear_por_pantalla", "bloquear_por_teclado"}
    BY DispositivosAssumption DEF Semaforos, SemaforosSincro
  <2> QED
    BY <1>11, <2>1, FichasMoverAjeno, Nombres
       DEF BloquearPorIO, Archivar, Colas, SemaforosSincro
<1>12. ASSUME NEW h \in Perifericos, BloquearPorPeriferico(h) PROVE FichasConLista'
  BY <1>12, PasoBloquearPorPeriferico
<1>13. CASE Finalizar
  BY <1>13, PasoFinalizarFichas
<1>14. CASE AtenderPageFault
  BY <1>0, <1>14 DEF AtenderPageFault
<1>15. CASE DesbloquearPageFault
  BY <1>15, FichasMoverAjeno, Nombres
     DEF DesbloquearPageFault, AgregarAReady, Colas, SemaforosSincro, ColaReady
<1>16. ASSUME NEW p \in Procesos, Cpu(p) PROVE FichasConLista'
  BY <1>0, <1>16 DEF Cpu, EjecutarYSeguir, EjecutarPageFault, EjecutarYParar
<1>17. ASSUME NEW p \in Procesos, NuevoProceso(p) PROVE FichasConLista'
  <2>1. \A h \in Perifericos :
          /\ cola'[Lista(h)] = cola[Lista(h)]
          /\ sem'[SemaforoDe(h)] = sem[SemaforoDe(h)]
    BY <1>17, ListasDistintas
       DEF NuevoProceso, Sincronizar, TypeOK, SemaforoDe, Lista
  <2> QED
    BY <1>17, <2>1, FichasQuietasTodas DEF NuevoProceso, FichasIguales
<1>18. ASSUME NEW p \in Procesos, ConsolaResponde(p) PROVE FichasConLista'
  BY <1>18, PasoConsolaResponde
<1>19. ASSUME NEW p \in Procesos, ConsolaTermina(p) PROVE FichasConLista'
  BY <1>19, PasoConsolaTermina
<1>20. ASSUME NEW p \in Procesos, HiloConsola(p) PROVE FichasConLista'
  BY <1>20, <1>25, NombresDeHilos, PasoAtenderConsola, PasoBuscarIndice, PasoDesbloquear
     DEF HiloConsola
<1>21. ASSUME NEW d \in Dispositivos, TomarMutexIO(d) PROVE FichasConLista'
  <2>1. \A h \in Perifericos :
          /\ sem'[SemaforoDe(h)] = sem[SemaforoDe(h)]
          /\ (h \in con_mutex' <=> h \in con_mutex)
    BY <1>21, ListasDistintas, DispositivosAssumption, SMTT(40)
       DEF TomarMutexIO, Sincronizar, TypeOK, SemaforoDe, SemaforosSincro
  <2> QED
    BY <1>21, <2>1, FichasQuietasTodas DEF TomarMutexIO, FichasIguales
<1>22. ASSUME NEW d \in Dispositivos, AtenderEnDispositivo(d) PROVE FichasConLista'
  <2>1. /\ d \in Lugares /\ "blocked_io_list" \in Lugares /\ d # "blocked_io_list"
        /\ d \notin Otras
        /\ \A h \in Perifericos : h \in con_mutex' <=> h \in con_mutex
    BY <1>22, ListasDistintas, Nombres, DispositivosAssumption
       DEF AtenderEnDispositivo, Lugares, Colas
  <2>2. {} \cup {} \subseteq
           Semaforos \ {"bloquear_por_pantalla", "bloquear_por_teclado"}
    OBVIOUS
  <2> QED
    BY <1>22, <2>1, <2>2, FichasMoverAjeno DEF AtenderEnDispositivo
<1>23. ASSUME NEW d \in Dispositivos, TerminarIO(d) PROVE FichasConLista'
  <2> DEFINE e == ColaReady("BLOQUEAR_PROCESO_IO")
  <2>1. /\ d \in Lugares /\ e \in Lugares /\ d # e
        /\ d \notin Otras /\ e \notin Otras
    BY Nombres, DispositivosAssumption DEF Lugares, Colas, ColaReady
  <2>2. {} \cup {} \subseteq
           Semaforos \ {"bloquear_por_pantalla", "bloquear_por_teclado"}
    OBVIOUS
  <2> QED
    BY <1>23, <2>1, <2>2, FichasMoverAjeno DEF TerminarIO, AgregarAReady
<1>24. ASSUME NEW h \in Perifericos, Manejador(h) PROVE FichasConLista'
  BY <1>24, PasoTomarMutex, PasoLeerUltimo, PasoPedirAConsola DEF Manejador
<1> QED
  BY <1>1, <1>2, <1>3, <1>4, <1>5, <1>6, <1>7, <1>8, <1>9, <1>10, <1>11, <1>12,
     <1>13, <1>14, <1>15, <1>16, <1>17, <1>18, <1>19, <1>20, <1>21, <1>22, <1>23,
     <1>24, <1>25, NombresDeHilos
     DEF Next, HiloMemoria, HiloPageFault, Dispatch, Consola, HiloDispositivo

LEMMA FichasInicial == Init => FichasConLista
<1> SUFFICES ASSUME Init PROVE FichasConLista
  OBVIOUS
<1>1. ConexionesConLista
  BY DEF Init, EnRecv, ConexionesConLista
<1>2. ASSUME NEW h \in Perifericos PROVE Fichas(h) <= Len(cola[Lista(h)])
  <2>1. /\ sem[SemaforoDe(h)] = 0 /\ h \notin con_mutex /\ elegido[h] = Nadie
        /\ cola[Lista(h)] = <<>>
    BY ListasDistintas DEF Init, SemaforoDe, SemaforosSincro
  <2>2. Mensajes(a_consola, h) = 0 /\ Mensajes(de_consola, h) = 0
    <3>1. EnCanal(a_consola, h) = {} /\ EnCanal(de_consola, h) = {}
      BY DEF Init, EnCanal
    <3> QED
      BY <3>1, FS_EmptySet DEF Mensajes
  <2>3. Cardinality(EnCurso(h)) = 0
    <3>1. EnCurso(h) = {}
      BY DEF Init, EnRecv, EnCurso
    <3> QED
      BY <3>1, FS_EmptySet
  <2>4. Fichas(h) = 0
    BY <2>1, <2>2, <2>3 DEF Fichas, EnCurso
  <2> QED
    BY <2>1, <2>4
<1> QED
  BY <1>1, <1>2 DEF FichasConLista, FichasRespetadas

LEMMA FichasInvariante == Spec => []FichasConLista
<1>1. FichasConLista /\ UNCHANGED vars => FichasConLista'
  BY FichasQuietasTodas DEF vars, manejadores, consolas, FichasIguales
<1> QED
  BY TipoCorrecto, FichasInicial, FichasPaso, <1>1, PTL DEF Spec

\* Prompts go to the wrong console and answers unblock the wrong process, yet
\* whatever comes to take a process out of the list of the screen or of the
\* keyboard is worth one blocked process, for any number of them.
THEOREM FichasCorrectas == Spec => []FichasRespetadas
<1>1. FichasConLista => FichasRespetadas
  BY DEF FichasConLista
<1> QED
  BY FichasInvariante, <1>1, PTL

-----------------------------------------------------------------------------
(***************************************************************************)
(* The operations that kill the kernel, and why none of them does, and     *)
(* nothing hangs, with a degree of multiprogramming of one: for any other  *)
(* values of the constants.                                                *)
(***************************************************************************)

-----------------------------------------------------------------------------
(* The operations that kill the kernel *)

IndicesContados ==
  Veces(mensajes, "ACTUALIZAR_INDICE_TABLA_PAGINAS") = Len(cola["de_memoria"])

\* Only FEEDBACK has a second ready queue.
SegundaCola == Algoritmo # "FEEDBACK" => cola["ready2_list"] = <<>>

Reparto == IndicesContados /\ SegundaCola

LEMMA RepartoQuieto ==
  ASSUME Reparto, cola'["de_memoria"] = cola["de_memoria"],
         cola'["ready2_list"] = cola["ready2_list"],
         Veces(mensajes, "ACTUALIZAR_INDICE_TABLA_PAGINAS")'
           = Veces(mensajes, "ACTUALIZAR_INDICE_TABLA_PAGINAS")
  PROVE  Reparto'
BY DEF Reparto, IndicesContados, SegundaCola

LEMMA RepartoMover ==
  ASSUME TypeOK, Reparto,
         NEW W, NEW P, NEW c \in Lugares, NEW e \in Lugares, NEW i, c # e,
         c # "de_memoria", e # "de_memoria",
         "ready2_list" \in {c, e} => Algoritmo = "FEEDBACK",
         W \cup P \subseteq Semaforos, Mover(W, c, i, e, P),
         Veces(mensajes, "ACTUALIZAR_INDICE_TABLA_PAGINAS")'
           = Veces(mensajes, "ACTUALIZAR_INDICE_TABLA_PAGINAS")
  PROVE  Reparto'
<1>1. "de_memoria" \in Lugares \ {c, e} /\ "ready2_list" \in Lugares
  BY Nombres DEF Colas
<1>2. \A x \in Lugares \ {c, e} : cola'[x] = cola[x]
  BY MoverAjeno
<1> QED
  BY <1>1, <1>2 DEF Reparto, IndicesContados, SegundaCola

LEMMA PasoCrearIndice ==
  ASSUME TypeOK, Reparto, CrearEstructuras PROVE Reparto' /\ UNCHANGED vivo
<1> DEFINE A == "ACTUALIZAR_INDICE_TABLA_PAGINAS"
           v == Veces(mensajes, A)
           w == Veces(mensajes, A)'
           l == Len(cola["de_memoria"])
<1>1. /\ cola["a_memoria"] # <<>> /\ Mover({}, "a_memoria", 1, "de_memoria", {})
      /\ mensajes' = Append(mensajes, A)
  BY DEF CrearEstructuras
<1>2. /\ "a_memoria" \in Lugares /\ "de_memoria" \in Lugares
      /\ "ready2_list" \in Lugares \ {"a_memoria", "de_memoria"}
      /\ cola["a_memoria"] \in Seq(Procesos) /\ cola["de_memoria"] \in Seq(Procesos)
      /\ cola \in [Lugares -> Seq(Procesos)]
  BY Nombres DEF TypeOK, Colas
<1>3. 1 \in DOMAIN cola["a_memoria"] /\ cola["a_memoria"][1] \in Procesos
  BY <1>1, <1>2
<1>4. /\ cola' = [cola EXCEPT !["a_memoria"] = RemoveAt(cola["a_memoria"], 1),
                   !["de_memoria"] = Append(cola["de_memoria"], cola["a_memoria"][1])]
      /\ UNCHANGED vivo
  BY <1>1, <1>3 DEF Mover
<1>5. /\ cola'["de_memoria"] = Append(cola["de_memoria"], cola["a_memoria"][1])
      /\ cola'["ready2_list"] = cola["ready2_list"]
  BY <1>2, <1>4
<1>6. Len(cola'["de_memoria"]) = l + 1 /\ l \in Nat
  BY <1>2, <1>3, <1>5, AppendProperties, LenProperties
<1>7. w = v + 1 /\ v \in Nat
  <2>1. mensajes \in Seq(CodigosMemoria) /\ A \in CodigosMemoria
    BY DEF TypeOK, CodigosMemoria
  <2>2. /\ Veces(mensajes, A) \in Nat
        /\ Veces(Append(mensajes, A), A) = Veces(mensajes, A) + 1
    BY <2>1, VecesAgregar
  <2> QED
    BY <1>1, <2>2
<1> QED
  BY <1>4, <1>5, <1>6, <1>7 DEF Reparto, IndicesContados, SegundaCola

LEMMA PasoIndiceActualizado ==
  ASSUME TypeOK, Reparto, IndiceActualizado PROVE Reparto' /\ UNCHANGED vivo
<1> DEFINE A == "ACTUALIZAR_INDICE_TABLA_PAGINAS"
           v == Veces(mensajes, A)
           w == Veces(mensajes, A)'
           l == Len(cola["de_memoria"])
           e == ColaReady("PCB")
<1>1. /\ mensajes # <<>> /\ Head(mensajes) = A /\ mensajes' = Tail(mensajes)
      /\ Mover({}, "de_memoria", 1, e, {})
  BY DEF IndiceActualizado, AgregarAReady, Recibir
<1>2. /\ "de_memoria" \in Lugares /\ e = "ready1_list" /\ e \in Lugares
      /\ "ready2_list" \in Lugares \ {"de_memoria", e}
      /\ cola["de_memoria"] \in Seq(Procesos) /\ cola \in [Lugares -> Seq(Procesos)]
  BY Nombres DEF TypeOK, Colas, ColaReady
<1>3. v = w + 1 /\ v \in Nat /\ w \in Nat
  <2>1. /\ Veces(mensajes, A) \in Nat /\ Veces(Tail(mensajes), A) \in Nat
        /\ Veces(mensajes, A) = Veces(Tail(mensajes), A) + 1
    BY <1>1, VecesQuitar DEF TypeOK
  <2> QED
    BY <1>1, <2>1
<1>4. cola["de_memoria"] # <<>>
  <2>1. l # 0
    BY <1>3 DEF Reparto, IndicesContados
  <2> QED
    BY <2>1
<1>5. 1 \in DOMAIN cola["de_memoria"] /\ cola["de_memoria"][1] \in Procesos
  BY <1>2, <1>4
<1>6. /\ cola' = [cola EXCEPT !["de_memoria"] = RemoveAt(cola["de_memoria"], 1),
                   ![e] = Append(cola[e], cola["de_memoria"][1])]
      /\ UNCHANGED vivo
  BY <1>1, <1>5 DEF Mover
<1>7. RemoveAt(cola["de_memoria"], 1) = Tail(cola["de_memoria"])
  BY <1>2, <1>4, QuitarPrimero
<1>8. /\ cola'["de_memoria"] = Tail(cola["de_memoria"])
      /\ cola'["ready2_list"] = cola["ready2_list"]
  BY <1>2, <1>6, <1>7
<1>9. Len(cola'["de_memoria"]) = l - 1 /\ l \in Nat
  BY <1>2, <1>4, <1>8, HeadTailProperties, LenProperties
<1>10. v = l
  BY DEF Reparto, IndicesContados
<1>11. w = l - 1
  <2> HIDE DEF v, w, l
  <2> QED
    BY <1>3, <1>9, <1>10
<1> QED
  BY <1>6, <1>8, <1>9, <1>11 DEF Reparto, IndicesContados, SegundaCola

LEMMA RepartoPaso == TypeOK /\ Reparto /\ Next => Reparto'
<1> SUFFICES ASSUME TypeOK, Reparto, Next PROVE Reparto'
  OBVIOUS
<1> USE DEF pcbs, memoria
<1> DEFINE A == "ACTUALIZAR_INDICE_TABLA_PAGINAS"
<1>1. CASE AdmitirProceso
  BY <1>1, RepartoMover, Nombres DEF AdmitirProceso, Colas, SemaforosSincro
<1>2. CASE CrearEstructuras \/ IndiceActualizado
  BY <1>2, PasoCrearIndice, PasoIndiceActualizado
<1>3. CASE ElegirListo
  BY <1>3, RepartoMover, Nombres DEF ElegirListo, Colas, SemaforosSincro
<1>4. CASE EnviarACpu
  BY <1>4, RepartoMover, Nombres DEF EnviarACpu, Colas, SemaforosSincro
<1>5. CASE DesalojarPorQuantum
  BY <1>5, RepartoMover, Nombres
     DEF DesalojarPorQuantum, AgregarAReady, Colas, SemaforosSincro, ColaReady
<1>6. CASE BloquearPorPageFault
  BY <1>6, RepartoMover, Nombres
     DEF BloquearPorPageFault, Archivar, Colas, SemaforosSincro
<1>7. CASE TerminarProceso
  BY <1>7, RepartoMover, Nombres
     DEF TerminarProceso, Archivar, Colas, SemaforosSincro
<1>8. CASE DesbloquearPageFault
  BY <1>8, RepartoMover, Nombres
     DEF DesbloquearPageFault, AgregarAReady, Colas, SemaforosSincro, ColaReady
<1>9. ASSUME NEW h \in Perifericos, BloquearPorPeriferico(h) PROVE Reparto'
  BY <1>9, RepartoMover, Nombres
     DEF BloquearPorPeriferico, Archivar, Colas, SemaforosSincro
<1>10. ASSUME NEW d \in Dispositivos, BloquearPorIO(d) PROVE Reparto'
  BY <1>10, RepartoMover, Nombres
     DEF BloquearPorIO, Archivar, Colas, SemaforosSincro, Semaforos
<1>11. ASSUME NEW d \in Dispositivos, AtenderEnDispositivo(d) PROVE Reparto'
  <2>1. /\ "blocked_io_list" \in Lugares /\ d \in Lugares
        /\ d \notin {"blocked_io_list", "de_memoria", "ready2_list"}
    BY Nombres, DispositivosAssumption DEF Colas, Lugares
  <2>2. {} \cup {} \subseteq Semaforos
    OBVIOUS
  <2> QED
    BY <1>11, <2>1, <2>2, RepartoMover DEF AtenderEnDispositivo
<1>12. ASSUME NEW d \in Dispositivos, TerminarIO(d) PROVE Reparto'
  <2>1. /\ "ready1_list" \in Lugares /\ d \in Lugares
        /\ d \notin {"ready1_list", "de_memoria", "ready2_list"}
        /\ ColaReady("BLOQUEAR_PROCESO_IO") = "ready1_list"
    BY Nombres, DispositivosAssumption DEF Colas, Lugares, ColaReady
  <2>2. {} \cup {} \subseteq Semaforos
    OBVIOUS
  <2> QED
    BY <1>12, <2>1, <2>2, RepartoMover DEF TerminarIO, AgregarAReady
<1>13. ASSUME NEW p \in Procesos, Desbloquear(p) PROVE Reparto'
  BY <1>13, RepartoMover, Nombres
     DEF Desbloquear, AgregarAReady, Colas, SemaforosSincro, ColaReady, Lista,
         Respuesta
<1>14. CASE AtenderPageFault
  <2>1. mensajes \in Seq(CodigosMemoria) /\ "PAGE_FAULT_ATENDIDO" \in CodigosMemoria
        /\ mensajes' = Append(mensajes, "PAGE_FAULT_ATENDIDO")
    BY <1>14 DEF AtenderPageFault, TypeOK, CodigosMemoria
  <2>2. Veces(mensajes, A)' = Veces(mensajes, A)
    BY <2>1, VecesAgregar
  <2> QED
    BY <1>14, <2>2, RepartoQuieto DEF AtenderPageFault
<1>15. CASE PageFaultAtendido
  <2>1. /\ mensajes \in Seq(CodigosMemoria) /\ mensajes # <<>>
        /\ Head(mensajes) # A /\ mensajes' = Tail(mensajes)
    BY <1>15 DEF PageFaultAtendido, Recibir, TypeOK
  <2>2. /\ Veces(mensajes, A) \in Nat /\ Veces(Tail(mensajes), A) \in Nat
        /\ Veces(mensajes, A) = Veces(Tail(mensajes), A) + 0
    BY <2>1, VecesQuitar
  <2>3. Veces(mensajes, A)' = Veces(mensajes, A)
    BY <2>1, <2>2
  <2> QED
    BY <1>15, <2>3, RepartoQuieto DEF PageFaultAtendido
<1>16. ASSUME NEW p \in Procesos, NuevoProceso(p) PROVE Reparto'
  <2>1. /\ cola' = [cola EXCEPT !["new_queue"] = Append(@, p)]
        /\ UNCHANGED mensajes
    BY <1>16 DEF NuevoProceso
  <2>2. /\ cola'["de_memoria"] = cola["de_memoria"]
        /\ cola'["ready2_list"] = cola["ready2_list"]
    BY <2>1, Nombres DEF TypeOK, Colas
  <2> QED
    BY <2>1, <2>2, RepartoQuieto
<1>17. CASE Finalizar
  <2>1. /\ cola' \in {cola, [cola EXCEPT !["exit_queue"] = Tail(@)]}
        /\ UNCHANGED mensajes
    BY <1>17 DEF Finalizar
  <2>2. /\ cola'["de_memoria"] = cola["de_memoria"]
        /\ cola'["ready2_list"] = cola["ready2_list"]
    BY <2>1, Nombres DEF TypeOK, Colas
  <2> QED
    BY <2>1, <2>2, RepartoQuieto
<1>18. CASE UNCHANGED <<cola, mensajes>>
  BY <1>18, RepartoQuieto
<1>19. ASSUME NEW t \in Hilos, TerminarDeMostrar(t) PROVE Reparto'
  BY <1>18, <1>19, MostrarEfecto
<1>20. CASE \/ ColgarDispatch
            \/ \E p \in Procesos : ConsolaResponde(p) \/ ConsolaTermina(p) \/ CerrarConexion(p)
  BY <1>18, <1>20 DEF ColgarDispatch, ConsolaResponde, ConsolaTermina, CerrarConexion
<1>22. ASSUME NEW p \in Procesos, AtenderConsola(p) PROVE Reparto'
  BY <1>18, <1>22 DEF AtenderConsola
<1>23. ASSUME NEW p \in Procesos, BuscarIndice(p) PROVE Reparto'
  BY <1>18, <1>23 DEF BuscarIndice
<1>24. ASSUME NEW p \in Procesos, Cpu(p) PROVE Reparto'
  BY <1>18, <1>24 DEF Cpu, EjecutarYSeguir, EjecutarPageFault, EjecutarYParar
<1>21. CASE \/ \E d \in Dispositivos : TomarMutexIO(d)
            \/ \E h \in Perifericos : TomarMutex(h) \/ LeerUltimo(h) \/ PedirAConsola(h)
  BY <1>18, <1>21 DEF TomarMutexIO, TomarMutex, LeerUltimo, PedirAConsola
<1> QED
  BY <1>1, <1>2, <1>3, <1>4, <1>5, <1>6, <1>7, <1>8, <1>9, <1>10, <1>11,
     <1>12, <1>13, <1>14, <1>15, <1>16, <1>17, <1>19, <1>20, <1>21, <1>22,
     <1>23, <1>24, NombresDeHilos
     DEF Next, Dispatch, HiloMemoria, HiloPageFault, HiloDispositivo, Manejador,
         Consola, HiloConsola

LEMMA RepartoInvariante == Spec => []Reparto
<1>1. Init => Reparto
  <2> SUFFICES ASSUME Init PROVE Reparto
    OBVIOUS
  <2>1. cola["de_memoria"] = <<>> /\ cola["ready2_list"] = <<>> /\ mensajes = <<>>
    BY Nombres DEF Init, Colas
  <2>2. {i \in DOMAIN <<>> : <<>>[i] = "ACTUALIZAR_INDICE_TABLA_PAGINAS"} = {}
    OBVIOUS
  <2>3. Veces(<<>>, "ACTUALIZAR_INDICE_TABLA_PAGINAS") = 0
    BY <2>2, FS_EmptySet DEF Veces
  <2> QED
    BY <2>1, <2>3 DEF Reparto, IndicesContados, SegundaCola
<1>2. Reparto /\ UNCHANGED vars => Reparto'
  BY RepartoQuieto DEF vars, memoria
<1> QED
  BY TipoCorrecto, <1>1, RepartoPaso, <1>2, PTL DEF Spec

\* The operations that need an element find one.
LEMMA MoverVive ==
  ASSUME TypeOK, NEW W, NEW P, NEW c \in Lugares, NEW e, Mover(W, c, 1, e, P),
         cola[c] # <<>>, vivo
  PROVE  vivo'
<1>1. cola[c] \in Seq(Procesos)
  BY DEF TypeOK
<1>2. 1 \in DOMAIN cola[c]
  BY <1>1
<1> QED
  BY <1>2 DEF Mover

LEMMA MoverConFicha ==
  ASSUME NEW W, NEW P, NEW c, NEW i, NEW e, Mover(W, c, i, e, P), NEW s \in W
  PROVE  sem[s] > 0
BY DEF Mover, Sincronizar

\* What is known when an operation runs.
Confianza ==
  /\ TypeOK /\ Unicos /\ Cuentas /\ EsperaContada /\ FallosEnOrden
  /\ FichasConLista /\ Reparto

NoCae == vivo' \/ Caida

LEMMA ArchivarVive ==
  ASSUME Confianza, vivo, NEW codigos, NEW e, NEW s, Archivar(codigos, e, s),
         "CONTINUA_PROCESO" \notin codigos
  PROVE  vivo'
<1>1. /\ cola["cpu"] # <<>> /\ TypeOK /\ "cpu" \in Lugares
      /\ Mover({}, "cpu", 1, e, {s, "cpu_libre"})
  BY Nombres DEF Archivar, Confianza, FallosEnOrden, CpuOcupada, Colas
<1> QED
  BY <1>1, MoverVive

LEMMA NoCaePaso == Confianza /\ Next => NoCae
<1> SUFFICES ASSUME Confianza, Next PROVE NoCae
  OBVIOUS
<1>0. /\ TypeOK /\ Unicos /\ Cuentas /\ EsperaContada /\ FallosEnOrden
      /\ FichasConLista /\ Reparto /\ vivo
      /\ Colas \subseteq Lugares /\ \A c \in Lugares : cola[c] \in Seq(Procesos)
  BY Nombres DEF Confianza, Next, TypeOK
<1>1. CASE AdmitirProceso
  <2>1. Mover({"new_to_ready", "grado_multiprogramacion"}, "new_queue", 1,
              "a_memoria", {})
    BY <1>1 DEF AdmitirProceso
  <2>2. sem["new_to_ready"] > 0
    BY <2>1, MoverConFicha
  <2>3. cola["new_queue"] # <<>> /\ "new_queue" \in Lugares
    BY <1>0, <2>2 DEF Cuentas, SemaforosContados, Colas
  <2> QED
    BY <1>0, <2>1, <2>3, MoverVive DEF NoCae
<1>2. CASE CrearEstructuras \/ IndiceActualizado
  BY <1>0, <1>2, PasoCrearIndice, PasoIndiceActualizado DEF NoCae
<1>3. CASE ElegirListo
  <2> DEFINE c == IF cola["ready1_list"] = <<>> /\ Algoritmo = "FEEDBACK"
                  THEN "ready2_list" ELSE "ready1_list"
  <2>1. Mover({"pcbs_en_ready", "cpu_libre"}, c, 1, "running_queue",
              {"enviar_pcb_a_cpu"})
    BY <1>3 DEF ElegirListo
  <2>2. sem["pcbs_en_ready"] > 0
    BY <2>1, MoverConFicha
  <2>3. cola["ready1_list"] # <<>> \/ cola["ready2_list"] # <<>>
    <3> SUFFICES ASSUME cola["ready1_list"] = <<>>, cola["ready2_list"] = <<>>
                 PROVE  FALSE
      OBVIOUS
    <3>1. Len(cola["ready1_list"]) = 0 /\ Len(cola["ready2_list"]) = 0
      OBVIOUS
    <3>2. sem["pcbs_en_ready"] + Cardinality(mostrando) = 0 + 0
      BY <1>0, <3>1, Zenon DEF Cuentas, SemaforosContados
    <3>3. Cardinality(mostrando) \in Nat /\ sem["pcbs_en_ready"] \in Nat
      BY <1>0, MostrandoFinito, NombresDeHilos, Nombres DEF TypeOK, SemaforosSincro
    <3> QED
      BY <2>2, <3>2, <3>3
  <2>4. cola[c] # <<>> /\ c \in Lugares
    BY <1>0, <2>3 DEF Reparto, SegundaCola, Colas
  <2> QED
    BY <1>0, <2>1, <2>4, MoverVive DEF NoCae
<1>4. CASE EnviarACpu
  <2>1. Mover({"enviar_pcb_a_cpu"}, "running_queue", 1, "cpu", {})
    BY <1>4 DEF EnviarACpu
  <2>2. sem["enviar_pcb_a_cpu"] > 0
    BY <2>1, MoverConFicha
  <2>3. cola["running_queue"] # <<>> /\ "running_queue" \in Lugares
    BY <1>0, <2>2 DEF Cuentas, SemaforosContados, Colas
  <2> QED
    BY <1>0, <2>1, <2>3, MoverVive DEF NoCae
<1>5. CASE BloquearPorPageFault \/ TerminarProceso
  BY <1>0, <1>5, ArchivarVive DEF Confianza, NoCae, BloquearPorPageFault, TerminarProceso
<1>16. CASE DesalojarPorQuantum
  <2>1. /\ Mover({}, "cpu", 1, ColaReady("INTERRUPCION"), {})
        /\ cola["cpu"] # <<>> /\ "cpu" \in Lugares
    BY <1>0, <1>16 DEF DesalojarPorQuantum, AgregarAReady, FallosEnOrden, CpuOcupada, Colas
  <2> QED
    BY <1>0, <2>1, MoverVive DEF NoCae
<1>6. ASSUME NEW d \in Dispositivos, BloquearPorIO(d) PROVE NoCae
  BY <1>0, <1>6, ArchivarVive DEF NoCae, BloquearPorIO
<1>7. ASSUME NEW h \in Perifericos, BloquearPorPeriferico(h) PROVE NoCae
  BY <1>0, <1>7, ArchivarVive DEF NoCae, BloquearPorPeriferico, Respuesta
<1>8. CASE Finalizar
  <2>1. sem["finish_process"] > 0
    BY <1>8 DEF Finalizar
  <2>2. cola["exit_queue"] # <<>>
    BY <1>0, <2>1 DEF Cuentas, SemaforosContados
  <2> QED
    BY <1>0, <1>8, <2>2 DEF Finalizar, NoCae
<1>9. CASE DesbloquearPageFault
  BY <1>0, <1>9, PasoDesbloquearPageFault DEF NoCae
<1>10. ASSUME NEW d \in Dispositivos, AtenderEnDispositivo(d) PROVE NoCae
  BY <1>0, <1>10, PasoAtenderEnDispositivo DEF NoCae
<1>11. ASSUME NEW d \in Dispositivos, TerminarIO(d) PROVE NoCae
  <2>1. /\ Mover({}, d, 1, ColaReady("BLOQUEAR_PROCESO_IO"), {})
        /\ cola[d] # <<>> /\ d \in Lugares
    BY <1>11 DEF TerminarIO, AgregarAReady, Lugares
  <2> QED
    BY <1>0, <2>1, MoverVive DEF NoCae
<1>12. ASSUME NEW h \in Perifericos, LeerUltimo(h) PROVE NoCae
  <2>1. vivo' \/ UltimoViejo(h)
    BY <1>0, <1>12 DEF LeerUltimo, UltimoViejo
  <2> QED
    BY <1>12, <2>1 DEF NoCae, Caida
<1>13. ASSUME NEW h \in Perifericos, PedirAConsola(h) PROVE NoCae
  <2>1. vivo' \/ ConsolaCerrada(h)
    BY <1>0, <1>13 DEF PedirAConsola, ConsolaCerrada
  <2> QED
    BY <1>13, <2>1 DEF NoCae, Caida
<1>14. ASSUME NEW p \in Procesos, Desbloquear(p) PROVE NoCae
  <2>1. vivo' \/ IndiceViejo(p)
    BY <1>0, <1>14 DEF Desbloquear, AgregarAReady, Mover, IndiceViejo
  <2> QED
    BY <1>14, <2>1 DEF NoCae, Caida
<1>17. ASSUME NEW p \in Procesos, BuscarIndice(p) PROVE NoCae
  <2>1. vivo' \/ IndiceViejo(p)
    BY <1>0, <1>17 DEF BuscarIndice, IndiceViejo
  <2> QED
    BY <1>17, <2>1 DEF NoCae, Caida
<1>18. ASSUME NEW t \in Hilos, TerminarDeMostrar(t) PROVE NoCae
  <2>1. vivo' \/ t \in acortadas
    BY <1>0, <1>18 DEF TerminarDeMostrar
  <2> QED
    BY <1>18, <2>1 DEF NoCae, Caida
<1>15. CASE UNCHANGED vivo
  BY <1>0, <1>15 DEF NoCae
<1>19. CASE \/ ColgarDispatch \/ AtenderPageFault \/ PageFaultAtendido
            \/ \E d \in Dispositivos : TomarMutexIO(d)
            \/ \E h \in Perifericos : TomarMutex(h)
            \/ \E p \in Procesos :
                 \/ NuevoProceso(p) \/ ConsolaResponde(p) \/ ConsolaTermina(p)
                 \/ AtenderConsola(p) \/ CerrarConexion(p) \/ Cpu(p)
  <2>1. CASE \/ ColgarDispatch \/ AtenderPageFault \/ PageFaultAtendido
             \/ \E d \in Dispositivos : TomarMutexIO(d)
             \/ \E h \in Perifericos : TomarMutex(h)
    BY <1>15, <2>1 DEF ColgarDispatch, AtenderPageFault, PageFaultAtendido, TomarMutexIO,
         TomarMutex
  <2>2. CASE \E p \in Procesos :
               \/ NuevoProceso(p) \/ ConsolaResponde(p) \/ ConsolaTermina(p)
               \/ AtenderConsola(p) \/ CerrarConexion(p) \/ Cpu(p)
    BY <1>15, <2>2 DEF NuevoProceso, ConsolaResponde, ConsolaTermina, AtenderConsola,
         CerrarConexion, Cpu, EjecutarYSeguir, EjecutarPageFault, EjecutarYParar
  <2> QED
    BY <1>19, <2>1, <2>2
<1> QED
  BY <1>1, <1>2, <1>3, <1>4, <1>5, <1>6, <1>7, <1>8, <1>9, <1>10, <1>11, <1>12,
     <1>13, <1>14, <1>16, <1>17, <1>18, <1>19, NombresDeHilos
     DEF Next, Dispatch, HiloMemoria, HiloPageFault, HiloDispositivo, Manejador,
         Consola, HiloConsola

\* Whatever the order of the threads, an operation finds the PCB it takes out,
\* for any number of processes: the kernel can only die of an index or a size that
\* another thread made stale in a loop or a read that nothing locks (the walk over
\* the ready lists, a console's search and removal, a handler's look at the last
\* PCB), or of a prompt to a console that closed.
THEOREM CaidasCorrectas == Spec => UnicasCaidas
<1>1. Confianza /\ [Next]_vars => [vivo' \/ Caida]_vars
  BY NoCaePaso DEF NoCae
<1>2. LugaresYGrado => Unicos
  BY DEF LugaresYGrado
<1>3. TypeOK /\ Unicos /\ Cuentas /\ EsperaContada /\ FallosEnOrden
        /\ FichasConLista /\ Reparto => Confianza
  BY DEF Confianza
<1> QED
  BY TipoCorrecto, LugaresInvariante, CuentasInvariante, EsperaInvariante,
     FallosInvariante, FichasInvariante, RepartoInvariante,
     <1>1, <1>2, <1>3, PTL DEF Spec, UnicasCaidas

-----------------------------------------------------------------------------
(* A degree of multiprogramming of one *)

En(s, x) == \E i \in DOMAIN s : s[i] = x

\* Something on its way to unblock p, which waits for h.
Pide(p, h) ==
  \/ elegido[h] = p
  \/ En(a_consola[p], h) \/ En(de_consola[p], h)
  \/ conexion[p].paso \notin {"recv", "terminada"} /\ conexion[p].lista = h

\* A wake-up of the handler that has not chosen yet.
Aviso(h) == sem[SemaforoDe(h)] > 0 \/ h \in con_mutex

\* What is on its way is for a process that waits, and the one that waits has
\* something on its way.
Emparejados(h) ==
  /\ \A p \in Procesos : Pide(p, h) => Esta(p, Lista(h))
  /\ cola[Lista(h)] # <<>> => Aviso(h) \/ \E p \in Procesos : Pide(p, h)

Solitarios ==
  /\ \A h \in Perifericos : Emparejados(h)
  /\ \A p \in Procesos : /\ conexion[p].paso # "colgada"
                         /\ conexion[p].paso \in {"buscar", "quitar"} =>
                              conexion[p].indice = 1

\* Nobody goes by a size that is no longer the list's.
AlDia ==
  /\ acortadas = {}
  /\ \A h \in Perifericos \cap con_mutex : ultimo[h] = 1

\* A console closes only when it is told to, after its PCB was freed.
Fines ==
  \A p \in Procesos : En(a_consola[p], "FIN") \/ consola[p] = "cerrada" => p \in fin

\* No process leaves a list but by the answer of its own console.
Conserva ==
  \A h \in Perifericos, p \in Procesos :
     Esta(p, Lista(h)) /\ ~ Esta(p, Lista(h))' =>
       conexion[p].paso = "quitar" /\ conexion[p].lista = h

GradoUno == Confianza /\ Fines /\ GradoRespetado /\ GradoMax = 1

LEMMA UnoSolo ==
  ASSUME GradoUno, NEW p \in Procesos, NEW q \in Procesos,
         NEW c \in Lugares \ {"new_queue"}, NEW e \in Lugares \ {"new_queue"},
         Esta(p, c), Esta(q, e)
  PROVE  p = q /\ c = e
<1>1. p \in Admitidos /\ q \in Admitidos
  BY DEF Admitidos
<1>2. Cardinality(Admitidos) <= 1
  <2> DEFINE s == sem["grado_multiprogramacion"]
             n == Cardinality(Admitidos)
  <2>1. s \in Nat /\ n \in Nat /\ s + n = 1
    BY AdmitidosFinitos, Nombres
       DEF GradoUno, Confianza, TypeOK, GradoRespetado, SemaforosSincro
  <2> HIDE DEF s, n
  <2>2. n <= 1
    BY <2>1
  <2> QED
    BY <2>2 DEF n
<1>3. p = q
  <2> SUFFICES ASSUME p # q PROVE FALSE
    OBVIOUS
  <2>1. /\ IsFiniteSet(Admitidos \ {p})
        /\ Cardinality(Admitidos \ {p}) = Cardinality(Admitidos) - 1
    BY <1>1, AdmitidosFinitos, FS_RemoveElement
  <2>2. Cardinality(Admitidos \ {p}) = 0
    BY <1>2, <2>1, AdmitidosFinitos, FS_CardinalityType
  <2>3. Admitidos \ {p} = {}
    BY <2>1, <2>2, FS_EmptySet
  <2> QED
    BY <1>1, <2>3
<1>4. c = e
  BY <1>3, EnOtroLugar DEF GradoUno, Confianza
<1> QED
  BY <1>3, <1>4

LEMMA UnoPorLugar ==
  ASSUME GradoUno, NEW c \in Lugares \ {"new_queue"}
  PROVE  Len(cola[c]) \in {0, 1}
<1> DEFINE s == cola[c]
<1>1. s \in Seq(Procesos) /\ Len(s) \in Nat
  BY LenProperties DEF GradoUno, Confianza, TypeOK
<1>2. \A i, j \in DOMAIN s : i = j
  <2> TAKE i, j \in DOMAIN s
  <2>1. s[i] \in Procesos /\ s[j] \in Procesos
    BY <1>1
  <2>2. Esta(s[i], c) /\ Esta(s[j], c)
    BY DEF Esta
  <2>3. s[i] = s[j]
    BY <2>1, <2>2, UnoSolo
  <2> QED
    BY <2>3 DEF GradoUno, Confianza, Unicos, SinDuplicados
<1> HIDE DEF s
<1>3. ~ (Len(s) >= 2)
  <2> SUFFICES ASSUME Len(s) >= 2 PROVE FALSE
    OBVIOUS
  <2>1. 1 \in DOMAIN s /\ 2 \in DOMAIN s
    BY <1>1
  <2>2. 1 = 2
    BY <1>2, <2>1
  <2> QED
    BY <2>2
<1>4. Len(s) \in {0, 1}
  <2> DEFINE n == Len(s)
  <2>1. n \in Nat /\ ~ (n >= 2)
    BY <1>1, <1>3
  <2> HIDE DEF n
  <2>2. n = 0 \/ n = 1
    BY <2>1
  <2> QED
    BY <2>2 DEF n
<1> QED
  BY <1>4 DEF s

LEMMA EnSeCuenta ==
  ASSUME NEW S, NEW canal \in [Procesos -> Seq(S)], NEW p \in Procesos, NEW h,
         En(canal[p], h)
  PROVE  Mensajes(canal, h) >= 1
<1> DEFINE I == {i \in DOMAIN canal[p] : canal[p][i] = h}
<1>1. IsFiniteSet(I) /\ Cardinality(I) \in Nat /\ I # {}
  BY PosicionesFinitas DEF En
<1>2. Veces(canal[p], h) = Cardinality(I)
  BY DEF Veces
<1> HIDE DEF I
<1>3. Veces(canal[p], h) # 0
  BY <1>1, <1>2, FS_EmptySet
<1>4. Veces(canal[p], h) \in Nat /\ Veces(canal[p], h) # 0
  BY <1>1, <1>2, <1>3
<1> DEFINE v == Veces(canal[p], h)
           o == Cardinality(Resto(canal, p, h))
           m == Mensajes(canal, h)
<1>5. o \in Nat /\ m = o + v
  BY MensajesDe
<1> HIDE DEF v, o, m
<1>6. v \in Nat /\ v # 0
  BY <1>4 DEF v
<1>7. m >= 1
  BY <1>5, <1>6
<1> QED
  BY <1>7 DEF m

\* What asks for a process is a token.
LEMMA PideEsFicha ==
  \A p \in Procesos, h \in Perifericos :
     TypeOK /\ Pide(p, h) =>
       /\ Fichas(h) >= 1
       /\ Aviso(h) /\ elegido[h] # p => Fichas(h) >= 2
<1> SUFFICES ASSUME NEW p \in Procesos, NEW h \in Perifericos, TypeOK, Pide(p, h)
             PROVE  /\ Fichas(h) >= 1
                    /\ Aviso(h) /\ elegido[h] # p => Fichas(h) >= 2
  OBVIOUS
<1> DEFINE s == sem[SemaforoDe(h)]
           t == Tomado(h)
           y == Leido(h)
           a == Mensajes(a_consola, h)
           d == Mensajes(de_consola, h)
           r == Cardinality(EnCurso(h))
           av == Aviso(h)
           pi == elegido[h] # p
<1>1. /\ s \in Nat /\ t \in Nat /\ y \in Nat /\ a \in Nat /\ d \in Nat /\ r \in Nat
      /\ Fichas(h) = s + t + y + a + d + r
  BY FichasPartes DEF Partes
<1>2. elegido[h] = p => y = 1
  BY NadieAssumption DEF Leido
<1>3. En(a_consola[p], h) => a >= 1
  <2> DEFINE S == Perifericos \cup {"FIN"}
  <2>1. a_consola \in [Procesos -> Seq(S)]
    BY DEF TypeOK
  <2> HIDE DEF S
  <2> QED
    BY <2>1, EnSeCuenta
<1>4. En(de_consola[p], h) => d >= 1
  BY EnSeCuenta DEF TypeOK
<1>5. conexion[p].paso \notin {"recv", "terminada"} /\ conexion[p].lista = h => r >= 1
  <2> SUFFICES ASSUME conexion[p].paso \notin {"recv", "terminada"},
                      conexion[p].lista = h
               PROVE  r >= 1
    OBVIOUS
  <2>1. EnCurso(h) # {}
    BY DEF EnCurso
  <2>2. Cardinality(EnCurso(h)) # 0
    BY <2>1, EnCursoFinito, FS_EmptySet
  <2> QED
    BY <1>1, <2>2
<1>6. av => s + t >= 1
  <2>1. s > 0 => s + t >= 1
    <3> HIDE DEF s, t
    <3> QED
      BY <1>1
  <2>2. h \in con_mutex => t = 1
    BY DEF Tomado
  <2>3. t = 1 => s + t >= 1
    <3> HIDE DEF s, t
    <3> QED
      BY <1>1
  <2> QED
    BY <2>1, <2>2, <2>3 DEF Aviso
<1>7. \/ y = 1 /\ ~ pi
      \/ a >= 1 \/ d >= 1 \/ r >= 1
  BY <1>2, <1>3, <1>4, <1>5 DEF Pide
<1> HIDE DEF s, t, y, a, d, r, av, pi
<1>8. /\ s + t + y + a + d + r >= 1
      /\ av /\ pi => s + t + y + a + d + r >= 2
  BY <1>1, <1>6, <1>7
<1> QED
  BY <1>1, <1>8 DEF av, pi

\* A list with nobody in it has no tokens, so nothing asks for anybody.
NadaQuePedir(x, q) ==
  TypeOK /\ FichasConLista /\ cola[Lista(x)] = <<>> => ~ Pide(q, x)

LEMMA ListaVacia == \A x \in Perifericos, q \in Procesos : NadaQuePedir(x, q)
<1> SUFFICES ASSUME NEW h \in Perifericos, NEW p \in Procesos, TypeOK,
                    FichasConLista, cola[Lista(h)] = <<>>, Pide(p, h)
             PROVE  FALSE
  BY DEF NadaQuePedir
<1>1. Fichas(h) <= 0
  BY DEF FichasConLista, FichasRespetadas
<1>2. Fichas(h) >= 1 /\ Fichas(h) \in Nat
  BY PideEsFicha, FichasPartes DEF Partes
<1> QED
  BY <1>1, <1>2

LEMMA ListaVaciaDespues == (\A x \in Perifericos, q \in Procesos : NadaQuePedir(x, q))'
BY ListaVacia, PTL

\* What is the same for h before and after.
Iguales(h) ==
  /\ cola'[Lista(h)] = cola[Lista(h)] /\ sem'[SemaforoDe(h)] = sem[SemaforoDe(h)]
  /\ (h \in con_mutex' <=> h \in con_mutex) /\ elegido'[h] = elegido[h]

MismosMensajes(h) ==
  /\ \A p \in Procesos : En(a_consola'[p], h) <=> En(a_consola[p], h)
  /\ UNCHANGED <<conexion, de_consola>>

LEMMA EmparejadosIguales ==
  ASSUME NEW h, Emparejados(h), Iguales(h), MismosMensajes(h)
  PROVE  Emparejados(h)'
<1>1. Aviso(h)' <=> Aviso(h)
  BY DEF Iguales, Aviso
<1>2. \A p \in Procesos : Pide(p, h)' <=> Pide(p, h)
  BY DEF Iguales, MismosMensajes, Pide
<1>3. \A p \in Procesos : Esta(p, Lista(h))' <=> Esta(p, Lista(h))
  BY DEF Iguales, Esta
<1>4. cola'[Lista(h)] = cola[Lista(h)]
  BY DEF Iguales
<1> QED
  BY <1>1, <1>2, <1>3, <1>4 DEF Emparejados

\* A step that matters to h only.
LEMMA SolitariosDeUno ==
  ASSUME Solitarios, NEW h, UNCHANGED conexion,
         \A k \in Perifericos \ {h} : Iguales(k) /\ MismosMensajes(k),
         Emparejados(h)',
         \A p \in Procesos : Esta(p, Lista(h)) => Esta(p, Lista(h))'
  PROVE  Solitarios' /\ Conserva
<1>1. \A k \in Perifericos \ {h} : Emparejados(k)'
  BY EmparejadosIguales DEF Solitarios
<1>2. \A k \in Perifericos \ {h}, p \in Procesos :
        Esta(p, Lista(k)) => Esta(p, Lista(k))'
  BY DEF Iguales, Esta
<1> QED
  BY <1>1, <1>2 DEF Solitarios, Conserva

LEMMA SolitariosQuietos ==
  ASSUME Solitarios, UNCHANGED conexion,
         \A h \in Perifericos : Iguales(h) /\ MismosMensajes(h)
  PROVE  Solitarios' /\ Conserva
<1>1. \A h \in Perifericos : Emparejados(h)'
  BY EmparejadosIguales DEF Solitarios
<1>2. \A h \in Perifericos, p \in Procesos :
        Esta(p, Lista(h)) => Esta(p, Lista(h))'
  BY DEF Iguales, Esta
<1> QED
  BY <1>1, <1>2 DEF Solitarios, Conserva

LEMMA SolitariosMover ==
  ASSUME TypeOK, Solitarios,
         NEW W, NEW P, NEW c \in Lugares, NEW e \in Lugares, NEW i, c # e,
         c \notin {"blocked_screen_list", "blocked_keyboard_list"},
         e \notin {"blocked_screen_list", "blocked_keyboard_list"},
         W \cup P \subseteq
           Semaforos \ {"bloquear_por_pantalla", "bloquear_por_teclado"},
         Mover(W, c, i, e, P),
         \A h \in Perifericos : h \in con_mutex' <=> h \in con_mutex,
         UNCHANGED <<elegido, consolas>>
  PROVE  Solitarios' /\ Conserva
<1>1. \A h \in Perifericos : /\ Lista(h) \in Lugares \ {c, e}
                             /\ SemaforoDe(h) \in Semaforos \ (W \cup P)
  BY ListasDistintas DEF Lista, SemaforoDe
<1>2. /\ \A x \in Lugares \ {c, e} : cola'[x] = cola[x]
      /\ \A s \in Semaforos \ (W \cup P) : sem'[s] = sem[s]
  BY MoverAjeno
<1>3. \A h \in Perifericos : Iguales(h) /\ MismosMensajes(h)
  BY <1>1, <1>2 DEF Iguales, MismosMensajes, consolas
<1> QED
  BY <1>3, SolitariosQuietos DEF consolas

LEMMA EnAgregar ==
  ASSUME NEW S, NEW s \in Seq(S), NEW e \in S, NEW x
  PROVE  En(Append(s, e), x) <=> En(s, x) \/ x = e
<1>1. /\ Len(s) \in Nat /\ DOMAIN s = 1 .. Len(s)
      /\ DOMAIN Append(s, e) = 1 .. Len(s) + 1
      /\ \A k \in 1 .. Len(s) : Append(s, e)[k] = s[k]
      /\ Append(s, e)[Len(s) + 1] = e
  BY AppendProperties, LenProperties
<1> QED
  BY <1>1 DEF En

LEMMA EnQuitar ==
  ASSUME NEW S, NEW s \in Seq(S), s # <<>>, NEW x
  PROVE  En(s, x) <=> En(Tail(s), x) \/ x = Head(s)
<1>1. /\ Len(s) \in Nat \ {0} /\ DOMAIN s = 1 .. Len(s) /\ Head(s) = s[1]
      /\ Tail(s) \in Seq(S) /\ DOMAIN Tail(s) = 1 .. Len(s) - 1
      /\ \A k \in 1 .. Len(s) - 1 : Tail(s)[k] = s[k + 1]
  BY EmptySeq, LenProperties, HeadTailProperties
<1>2. \A k \in 1 .. Len(s) : k = 1 \/ (s[k] = Tail(s)[k - 1] /\ k - 1 \in 1 .. Len(s) - 1)
  BY <1>1
<1>3. ASSUME En(s, x) PROVE En(Tail(s), x) \/ x = Head(s)
  BY <1>1, <1>2, <1>3 DEF En
<1>4. ASSUME En(Tail(s), x) PROVE En(s, x)
  <2>1. PICK k \in 1 .. Len(s) - 1 : Tail(s)[k] = x
    BY <1>1, <1>4 DEF En
  <2>2. k + 1 \in DOMAIN s /\ s[k + 1] = x
    BY <1>1, <2>1
  <2> QED
    BY <2>2 DEF En
<1>5. ASSUME x = Head(s) PROVE En(s, x)
  BY <1>1, <1>5 DEF En
<1> QED
  BY <1>3, <1>4, <1>5

LEMMA UnoBloquear ==
  ASSUME GradoUno, Solitarios, NEW h \in Perifericos, BloquearPorPeriferico(h)
  PROVE  Solitarios' /\ Conserva
<1>1. /\ Mover({}, "cpu", 1, Lista(h), {SemaforoDe(h), "cpu_libre"})
      /\ cola["cpu"] # <<>> /\ TypeOK
      /\ UNCHANGED <<con_mutex, elegido, conexion, a_consola, de_consola>>
  BY DEF BloquearPorPeriferico, Archivar, Respuesta, GradoUno, Confianza,
         FallosEnOrden, CpuOcupada, manejadores, consolas
<1>2. /\ "cpu" \in Lugares /\ cola["cpu"] \in Seq(Procesos)
      /\ \A k \in Perifericos :
           /\ Lista(k) \in Lugares /\ Lista(k) # "cpu" /\ SemaforoDe(k) \in Semaforos
           /\ SemaforoDe(k) # "cpu_libre" /\ sem[SemaforoDe(k)] \in Nat
           /\ cola[Lista(k)] \in Seq(Procesos)
  BY <1>1, Nombres, ListasDistintas DEF Colas, Lista, SemaforoDe, TypeOK
<1>3. 1 \in DOMAIN cola["cpu"] /\ cola["cpu"][1] \in Procesos
  BY <1>1, <1>2
<1>4. /\ cola' = [cola EXCEPT !["cpu"] = RemoveAt(cola["cpu"], 1),
                   ![Lista(h)] = Append(cola[Lista(h)], cola["cpu"][1])]
      /\ Sincronizar({}, {SemaforoDe(h), "cpu_libre"})
  BY <1>1, <1>3 DEF Mover
<1>5. \A k \in Perifericos \ {h} : Iguales(k) /\ MismosMensajes(k)
  <2> TAKE k \in Perifericos \ {h}
  <2>1. k # h /\ Lista(k) # Lista(h) /\ SemaforoDe(k) # SemaforoDe(h)
    BY ListasDistintas
  <2>2. cola'[Lista(k)] = cola[Lista(k)]
    BY <1>1, <1>2, <1>4, <2>1 DEF TypeOK
  <2>3. sem'[SemaforoDe(k)] = sem[SemaforoDe(k)]
    BY <1>2, <1>4, <2>1 DEF Sincronizar
  <2> QED
    BY <1>1, <2>2, <2>3 DEF Iguales, MismosMensajes
<1>6. cola'[Lista(h)] = Append(cola[Lista(h)], cola["cpu"][1])
  BY <1>1, <1>2, <1>4 DEF TypeOK
<1>7. \A p \in Procesos : Esta(p, Lista(h)) => Esta(p, Lista(h))'
  <2>1. \A p \in Procesos : En(cola[Lista(h)], p) => En(cola'[Lista(h)], p)
    BY <1>2, <1>3, <1>6, EnAgregar
  <2> QED
    BY <2>1 DEF En, Esta
<1>8. Aviso(h)'
  <2>1. sem'[SemaforoDe(h)] = sem[SemaforoDe(h)] + 1
    BY <1>1, <1>2, <1>4 DEF Sincronizar
  <2> QED
    BY <1>2, <2>1 DEF Aviso
<1>9. \A p \in Procesos : Pide(p, h)' <=> Pide(p, h)
  BY <1>1 DEF Pide
<1>10. Emparejados(h)'
  BY <1>7, <1>8, <1>9 DEF Emparejados, Solitarios
<1> QED
  BY <1>1, <1>5, <1>7, <1>10, SolitariosDeUno

\* Whoever wakes up finds the one PCB of its list.
LEMMA AvisoEnLista ==
  ASSUME GradoUno, NEW h \in Perifericos, Aviso(h)
  PROVE  Len(cola[Lista(h)]) = 1 /\ 1 \in DOMAIN cola[Lista(h)]
<1> DEFINE s == sem[SemaforoDe(h)]
           t == Tomado(h)
           y == Leido(h)
           a == Mensajes(a_consola, h)
           d == Mensajes(de_consola, h)
           r == Cardinality(EnCurso(h))
           n == Len(cola[Lista(h)])
<1>1. TypeOK /\ FichasConLista /\ Partes(h)
  BY FichasPartes DEF GradoUno, Confianza
<1>2. /\ s \in Nat /\ t \in Nat /\ y \in Nat /\ a \in Nat /\ d \in Nat /\ r \in Nat
      /\ n \in Nat /\ s + t + y + a + d + r <= n
  BY <1>1, Zenon DEF Partes, FichasConLista, FichasRespetadas
<1>3. s > 0 \/ t = 1
  BY DEF Aviso, Tomado
<1>4. Lista(h) \in Lugares \ {"new_queue"} /\ cola[Lista(h)] \in Seq(Procesos)
  BY <1>1, ListasDistintas DEF Lista, TypeOK
<1>5. n \in {0, 1}
  BY <1>4, UnoPorLugar
<1>6. n = 1
  <2> HIDE DEF s, t, y, a, d, r, n
  <2> QED
    BY <1>2, <1>3, <1>5
<1> QED
  BY <1>4, <1>6

LEMMA UnoTomarMutex ==
  ASSUME GradoUno, Solitarios, NEW h \in Perifericos, TomarMutex(h)
  PROVE  Solitarios' /\ Conserva
<1>1. /\ con_mutex' = con_mutex \cup {h} /\ Sincronizar({SemaforoDe(h)}, {})
      /\ UNCHANGED <<cola, elegido, conexion, a_consola, de_consola>> /\ TypeOK
  BY DEF TomarMutex, consolas, GradoUno, Confianza
<1>2. \A k \in Perifericos \ {h} : sem'[SemaforoDe(k)] = sem[SemaforoDe(k)]
  BY <1>1, ListasDistintas DEF Sincronizar, TypeOK
<1>3. \A k \in Perifericos \ {h} : Iguales(k) /\ MismosMensajes(k)
  BY <1>1, <1>2 DEF Iguales, MismosMensajes
<1>4. Aviso(h)' /\ \A p \in Procesos : Pide(p, h)' <=> Pide(p, h)
  BY <1>1 DEF Pide, Aviso
<1>5. \A p \in Procesos : Esta(p, Lista(h))' <=> Esta(p, Lista(h))
  BY <1>1 DEF Esta
<1>6. Emparejados(h)'
  BY <1>4, <1>5 DEF Emparejados, Solitarios
<1> QED
  BY <1>1, <1>3, <1>5, <1>6, SolitariosDeUno

LEMMA UnoLeerUltimo ==
  ASSUME GradoUno, Solitarios, AlDia, NEW h \in Perifericos, LeerUltimo(h)
  PROVE  Solitarios' /\ Conserva
<1> DEFINE s == cola[Lista(h)]
<1>0. TypeOK /\ FichasConLista
  BY DEF GradoUno, Confianza
<1>1. /\ con_mutex' = con_mutex \ {h} /\ h \in con_mutex
      /\ UNCHANGED <<cola, sem, conexion, a_consola, de_consola>>
  BY DEF LeerUltimo, consolas
<1>2. s \in Seq(Procesos) /\ 1 \in DOMAIN s
  BY <1>0, <1>1, AvisoEnLista, ListasDistintas DEF Aviso, TypeOK
<1>3. PICK q \in Procesos : q = s[1] /\ Esta(q, Lista(h))
  <2>1. s[1] \in Procesos
    BY <1>2
  <2> QED
    BY <1>2, <2>1 DEF Esta
<1>4. elegido' = [elegido EXCEPT ![h] = q]
  BY <1>1, <1>2, <1>3 DEF LeerUltimo, AlDia
<1>5. \A k \in Perifericos \ {h} : Iguales(k) /\ MismosMensajes(k)
  BY <1>0, <1>1, <1>4 DEF Iguales, MismosMensajes, TypeOK
<1>6. \A p \in Procesos : Esta(p, Lista(h))' <=> Esta(p, Lista(h))
  BY <1>1 DEF Esta
<1>7. elegido'[h] = q
  BY <1>0, <1>4 DEF TypeOK
<1>8. Pide(q, h)' /\ \A p \in Procesos : Pide(p, h)' => Pide(p, h) \/ p = q
  BY <1>1, <1>7 DEF Pide
<1>9. Emparejados(h)'
  BY <1>3, <1>6, <1>8 DEF Emparejados, Solitarios
<1> QED
  BY <1>1, <1>5, <1>6, <1>9, SolitariosDeUno

\* The chosen one still waits, so it is connected and its PCB was not freed.
LEMMA UnoElegido ==
  ASSUME GradoUno, Solitarios, NEW h \in Perifericos, elegido[h] # Nadie
  PROVE  elegido[h] \in Procesos \ fin /\ consola[elegido[h]] = "esperando"
<1>1. PICK p \in Procesos : p = elegido[h]
  BY DEF GradoUno, Confianza, TypeOK
<1>2. Esta(p, Lista(h)) /\ Lista(h) \in Lugares
  BY <1>1, ListasDistintas DEF Solitarios, Emparejados, Pide
<1>3. consola[p] # "conectada" /\ p \notin fin
  BY <1>2 DEF GradoUno, Confianza, Unicos, SinPerdidos
<1>4. consola[p] # "cerrada" /\ consola[p] \in {"conectada", "esperando", "cerrada"}
  BY <1>3 DEF GradoUno, Fines, Confianza, TypeOK
<1> QED
  BY <1>1, <1>3, <1>4

LEMMA UnoPedir ==
  ASSUME GradoUno, Solitarios, NEW h \in Perifericos, PedirAConsola(h)
  PROVE  Solitarios' /\ Conserva
<1>1. PICK p \in Procesos : p = elegido[h]
  BY DEF PedirAConsola, GradoUno, Confianza, TypeOK
<1>2. /\ elegido' = [elegido EXCEPT ![h] = Nadie]
      /\ a_consola' = [a_consola EXCEPT ![p] = Append(@, h)]
      /\ UNCHANGED <<cola, sem, con_mutex, conexion, de_consola>> /\ TypeOK
  <2>1. elegido[h] # Nadie /\ TypeOK
    BY DEF PedirAConsola, GradoUno, Confianza
  <2>2. p \notin fin /\ consola[p] = "esperando"
    BY <1>1, <2>1, UnoElegido
  <2> QED
    BY <1>1, <2>1, <2>2 DEF PedirAConsola
<1>3. /\ elegido'[h] = Nadie /\ \A k \in Perifericos \ {h} : elegido'[k] = elegido[k]
      /\ \A q \in Procesos : q # Nadie
  BY <1>2, NadieAssumption DEF TypeOK
<1>4. \A q \in Procesos, k \in Perifericos :
        En(a_consola'[q], k) <=> En(a_consola[q], k) \/ (q = p /\ k = h)
  <2> TAKE q \in Procesos, k \in Perifericos
  <2> DEFINE S == Perifericos \cup {"FIN"}
  <2>1. /\ h \in S /\ a_consola[q] \in Seq(S)
        /\ a_consola'[q] = IF q = p THEN Append(a_consola[q], h) ELSE a_consola[q]
    BY <1>2 DEF TypeOK
  <2> HIDE DEF S
  <2>2. En(Append(a_consola[q], h), k) <=> En(a_consola[q], k) \/ k = h
    BY <2>1, EnAgregar
  <2> QED
    BY <2>1, <2>2
<1>5. \A k \in Perifericos \ {h} : Iguales(k) /\ MismosMensajes(k)
  BY <1>2, <1>3, <1>4 DEF Iguales, MismosMensajes
<1>6. \A q \in Procesos : Esta(q, Lista(h))' <=> Esta(q, Lista(h))
  BY <1>2 DEF Esta
<1>7. Pide(p, h) /\ Pide(p, h)' /\ \A q \in Procesos : Pide(q, h)' => Pide(q, h)
  <2>1. \A q \in Procesos : En(a_consola'[q], h) <=> En(a_consola[q], h) \/ q = p
    BY <1>4
  <2> QED
    BY <1>1, <1>2, <1>3, <2>1 DEF Pide
<1>8. Emparejados(h)'
  BY <1>6, <1>7 DEF Emparejados, Solitarios
<1> QED
  BY <1>2, <1>5, <1>6, <1>8, SolitariosDeUno

\* A step that only changes what asks for p, from one thing to another.
LEMMA SolitariosCambio ==
  ASSUME Solitarios, UNCHANGED <<cola, sem, con_mutex>>,
         \A q \in Procesos, k \in Perifericos : Pide(q, k)' <=> Pide(q, k),
         \A q \in Procesos : /\ conexion'[q].paso # "colgada"
                             /\ conexion'[q].paso \in {"buscar", "quitar"} =>
                                  conexion'[q].indice = 1
  PROVE  Solitarios' /\ Conserva
<1>1. \A q, k : Esta(q, Lista(k))' <=> Esta(q, Lista(k))
  BY DEF Esta
<1>2. \A k \in Perifericos : Emparejados(k)'
  BY <1>1 DEF Emparejados, Solitarios, Aviso
<1> QED
  BY <1>1, <1>2 DEF Solitarios, Conserva

LEMMA UnoResponde ==
  ASSUME GradoUno, Solitarios, NEW p \in Procesos, ConsolaResponde(p)
  PROVE  Solitarios' /\ Conserva
<1>1. PICK m \in Perifericos : m = Head(a_consola[p])
  BY DEF ConsolaResponde
<1>2. /\ a_consola[p] # <<>> /\ TypeOK
      /\ a_consola' = [a_consola EXCEPT ![p] = Tail(@)]
      /\ de_consola' = [de_consola EXCEPT ![p] = Append(@, m)]
      /\ UNCHANGED <<cola, sem, con_mutex, elegido, conexion>>
  BY <1>1 DEF ConsolaResponde, manejadores, GradoUno, Confianza
<1>3. \A k \in Perifericos :
        /\ En(a_consola[p], k) <=> En(a_consola'[p], k) \/ k = m
        /\ En(de_consola'[p], k) <=> En(de_consola[p], k) \/ k = m
  <2> TAKE k \in Perifericos
  <2> DEFINE S == Perifericos \cup {"FIN"}
  <2>1. a_consola[p] \in Seq(S) /\ a_consola'[p] = Tail(a_consola[p])
    BY <1>2 DEF TypeOK
  <2> HIDE DEF S
  <2>2. En(a_consola[p], k) <=> En(Tail(a_consola[p]), k) \/ k = m
    BY <1>1, <1>2, <2>1, EnQuitar
  <2>3. de_consola[p] \in Seq(Perifericos) /\ de_consola'[p] = Append(de_consola[p], m)
    BY <1>2 DEF TypeOK
  <2>4. En(Append(de_consola[p], m), k) <=> En(de_consola[p], k) \/ k = m
    BY <2>3, EnAgregar
  <2> QED
    BY <2>1, <2>2, <2>3, <2>4
<1>4. \A q \in Procesos \ {p} : a_consola'[q] = a_consola[q] /\ de_consola'[q] = de_consola[q]
  BY <1>2 DEF TypeOK
<1>5. \A q \in Procesos, k \in Perifericos : Pide(q, k)' <=> Pide(q, k)
  <2> TAKE q \in Procesos, k \in Perifericos
  <2>1. CASE q = p
    BY <1>2, <1>3, <2>1 DEF Pide
  <2>2. CASE q # p
    BY <1>2, <1>4, <2>2 DEF Pide
  <2> QED
    BY <2>1, <2>2
<1> QED
  BY <1>2, <1>5, SolitariosCambio DEF Solitarios

LEMMA UnoAtender ==
  ASSUME GradoUno, Solitarios, NEW p \in Procesos, AtenderConsola(p)
  PROVE  Solitarios' /\ Conserva
<1>0. TypeOK /\ FichasConLista
  BY DEF GradoUno, Confianza
<1>1. PICK m : m = Head(de_consola[p])
  OBVIOUS
<1>2. /\ conexion[p].paso = "recv" /\ de_consola[p] # <<>>
      /\ de_consola' = [de_consola EXCEPT ![p] = Tail(@)]
      /\ conexion'[p].paso = IF m \in con_mutex THEN "colgada" ELSE "buscar"
      /\ conexion'[p].lista = m
      /\ conexion'[p].indice = 1
      /\ \A q \in Procesos \ {p} : conexion'[q] = conexion[q]
      /\ UNCHANGED <<cola, sem, con_mutex, elegido, a_consola>>
  BY <1>0, <1>1 DEF AtenderConsola, manejadores, TypeOK
<1>3. de_consola[p] \in Seq(Perifericos) /\ m \in Perifericos
  BY <1>0, <1>1, <1>2, HeadTailProperties DEF TypeOK
<1>4. \A k \in Perifericos : En(de_consola[p], k) <=> En(de_consola'[p], k) \/ k = m
  <2> TAKE k \in Perifericos
  <2>1. de_consola'[p] = Tail(de_consola[p])
    BY <1>0, <1>2 DEF TypeOK
  <2> QED
    BY <1>1, <1>2, <1>3, <2>1, EnQuitar
<1>5. \A q \in Procesos \ {p} : de_consola'[q] = de_consola[q]
  BY <1>0, <1>2 DEF TypeOK
<1>6. \A q \in Procesos, k \in Perifericos : Pide(q, k)' <=> Pide(q, k)
  <2> TAKE q \in Procesos, k \in Perifericos
  <2>1. CASE q = p
    BY <1>2, <1>4, <2>1 DEF Pide
  <2>2. CASE q # p
    BY <1>2, <1>5, <2>2 DEF Pide
  <2> QED
    BY <2>1, <2>2
<1>7. Lista(m) \in Lugares \ {"new_queue"}
  BY <1>3, ListasDistintas DEF Lista
<1>8. Len(cola[Lista(m)]) \in {0, 1} /\ cola[Lista(m)] \in Seq(Procesos)
  BY <1>0, <1>7, UnoPorLugar DEF TypeOK
<1>10. m \notin con_mutex
  <2> SUFFICES ASSUME m \in con_mutex PROVE FALSE
    OBVIOUS
  <2>1. Pide(p, m) /\ Aviso(m)
    BY <1>3, <1>4 DEF Pide, Aviso
  <2>2. elegido[m] # p => Fichas(m) >= 2
    BY <1>0, <1>3, <2>1, PideEsFicha
  <2>3. elegido[m] = p => Fichas(m) >= 2
    <3> SUFFICES ASSUME elegido[m] = p PROVE Fichas(m) >= 2
      OBVIOUS
    <3> DEFINE s == sem[SemaforoDe(m)]
               a == Mensajes(a_consola, m)
               d == Mensajes(de_consola, m)
               r == Cardinality(EnCurso(m))
    <3>1. Tomado(m) = 1 /\ Leido(m) = 1
      BY NadieAssumption DEF Tomado, Leido
    <3>2. /\ s \in Nat /\ a \in Nat /\ d \in Nat /\ r \in Nat
          /\ Fichas(m) = s + 1 + 1 + a + d + r
      BY <1>0, <1>3, <3>1, FichasPartes, Zenon DEF Partes
    <3> HIDE DEF s, a, d, r
    <3> QED
      BY <3>2
  <2>4. Fichas(m) >= 2 /\ Fichas(m) <= Len(cola[Lista(m)]) /\ Fichas(m) \in Nat
    BY <1>0, <1>3, <2>2, <2>3, FichasPartes DEF FichasConLista, FichasRespetadas, Partes
  <2>5. Len(cola[Lista(m)]) <= 1 /\ Len(cola[Lista(m)]) \in Nat
    <3> DEFINE n == Len(cola[Lista(m)])
    <3>1. n \in {0, 1}
      BY <1>8
    <3> HIDE DEF n
    <3>2. n <= 1 /\ n \in Nat
      BY <3>1
    <3> QED
      BY <3>2 DEF n
  <2> QED
    BY <2>4, <2>5
<1>9. \A q \in Procesos : /\ conexion'[q].paso # "colgada"
                          /\ conexion'[q].paso \in {"buscar", "quitar"} =>
                               conexion'[q].indice = 1
  BY <1>2, <1>10 DEF Solitarios
<1> QED
  BY <1>2, <1>6, <1>9, SolitariosCambio

\* The only PCB of the list is the one that is looked for.
LEMMA UnoBuscarIndice ==
  ASSUME GradoUno, Solitarios, NEW p \in Procesos, BuscarIndice(p)
  PROVE  Solitarios' /\ Conserva
<1>0. TypeOK /\ FichasConLista
  BY DEF GradoUno, Confianza
<1>1. PICK h \in Perifericos : h = conexion[p].lista
  BY <1>0 DEF FichasConLista, ConexionesConLista, BuscarIndice
<1> DEFINE s == cola[Lista(h)]
<1>2. conexion[p].paso = "buscar" /\ Esta(p, Lista(h)) /\ conexion[p].indice = 1
  BY <1>1 DEF BuscarIndice, Solitarios, Emparejados, Pide
<1>3. Lista(h) \in Lugares \ {"new_queue"} /\ s \in Seq(Procesos)
  BY <1>0, ListasDistintas DEF Lista, TypeOK
<1>4. 1 \in DOMAIN s /\ s[1] = p
  <2>1. PICK i \in DOMAIN s : s[i] = p
    BY <1>2 DEF Esta
  <2>2. Len(s) \in {0, 1}
    BY <1>3, UnoPorLugar
  <2>3. i = 1
    BY <1>3, <2>1, <2>2
  <2> QED
    BY <2>1, <2>3
<1>5. /\ conexion'[p].paso = "quitar" /\ conexion'[p].lista = h
      /\ conexion'[p].indice = 1
      /\ \A q \in Procesos \ {p} : conexion'[q] = conexion[q]
      /\ UNCHANGED <<cola, sem, con_mutex, elegido, a_consola, de_consola>>
  <2>1. /\ conexion[p].lista = h /\ conexion[p].indice = 1
        /\ conexion \in [Procesos -> [paso : {"recv", "buscar", "quitar", "colgada", "terminada"},
                                      lista : Perifericos \cup {Nadie},
                                      indice : Nat, cuantos : Nat]]
    BY <1>0, <1>1, <1>2 DEF TypeOK
  <2>2. conexion' \in {[conexion EXCEPT ![p] = [conexion[p] EXCEPT !.paso = "quitar", !.indice = 1]],
                       [conexion EXCEPT ![p] = [conexion[p] EXCEPT !.paso = "quitar"]]}
    BY <1>1, <1>2, <1>4 DEF BuscarIndice
  <2>3. UNCHANGED <<cola, sem, con_mutex, elegido, a_consola, de_consola>>
    BY DEF BuscarIndice, manejadores
  <2>4. CASE conexion' = [conexion EXCEPT ![p] = [conexion[p] EXCEPT !.paso = "quitar", !.indice = 1]]
    BY <2>1, <2>3, <2>4
  <2>5. CASE conexion' = [conexion EXCEPT ![p] = [conexion[p] EXCEPT !.paso = "quitar"]]
    BY <2>1, <2>3, <2>5
  <2> QED
    BY <2>2, <2>4, <2>5
<1>6. \A q \in Procesos, k \in Perifericos : Pide(q, k)' <=> Pide(q, k)
  <2> TAKE q \in Procesos, k \in Perifericos
  <2>1. CASE q = p
    BY <1>1, <1>2, <1>5, <2>1 DEF Pide
  <2>2. CASE q # p
    BY <1>5, <2>2 DEF Pide
  <2> QED
    BY <2>1, <2>2
<1>7. \A q \in Procesos : /\ conexion'[q].paso # "colgada"
                          /\ conexion'[q].paso \in {"buscar", "quitar"} =>
                               conexion'[q].indice = 1
  BY <1>5 DEF Solitarios
<1> QED
  BY <1>5, <1>6, <1>7, SolitariosCambio

\* Nobody holds the descriptor of a console that closes.
LEMMA UnoCerrar ==
  ASSUME GradoUno, Solitarios, NEW p \in Procesos, CerrarConexion(p)
  PROVE  Solitarios' /\ Conserva
<1>0. TypeOK
  BY DEF GradoUno, Confianza
<1>1. /\ consola[p] = "cerrada" /\ conexion[p].paso = "recv"
      /\ conexion'[p].paso = "terminada"
      /\ \A q \in Procesos \ {p} : conexion'[q] = conexion[q]
      /\ UNCHANGED <<cola, sem, con_mutex, a_consola, de_consola>>
  BY <1>0 DEF CerrarConexion, TypeOK
<1>2. \A h \in Perifericos : elegido[h] # p
  BY <1>1, UnoElegido, NadieAssumption
<1>3. \A h \in Perifericos : elegido'[h] = elegido[h]
  BY <1>2 DEF CerrarConexion
<1>4. \A q \in Procesos, k \in Perifericos : Pide(q, k)' <=> Pide(q, k)
  <2> TAKE q \in Procesos, k \in Perifericos
  <2>1. CASE q = p
    BY <1>1, <1>3, <2>1 DEF Pide
  <2>2. CASE q # p
    BY <1>1, <1>3, <2>2 DEF Pide
  <2> QED
    BY <2>1, <2>2
<1>5. \A q \in Procesos : /\ conexion'[q].paso # "colgada"
                          /\ conexion'[q].paso \in {"buscar", "quitar"} =>
                               conexion'[q].indice = 1
  BY <1>1 DEF Solitarios
<1> QED
  BY <1>1, <1>4, <1>5, SolitariosCambio

LEMMA UnoDesbloquear ==
  ASSUME GradoUno, Solitarios, vivo, NEW p \in Procesos, Desbloquear(p)
  PROVE  Solitarios' /\ Conserva
<1>0. TypeOK /\ FichasConLista
  BY DEF GradoUno, Confianza
<1>1. PICK h \in Perifericos : h = conexion[p].lista
  BY <1>0 DEF FichasConLista, ConexionesConLista, Desbloquear
<1>2. PICK e \in {"ready1_list", "ready2_list"} :
        /\ Mover({}, Lista(h), 1, e, {})
        /\ conexion[p].paso = "quitar"
        /\ conexion' = [conexion EXCEPT ![p] = EnRecv]
        /\ UNCHANGED <<con_mutex, elegido, a_consola, de_consola>>
  BY <1>1 DEF Desbloquear, AgregarAReady, ColaReady, manejadores, Solitarios
<1>3. Pide(p, h) /\ Esta(p, Lista(h))
  BY <1>1, <1>2 DEF Solitarios, Emparejados, Pide
<1>4. /\ Lista(h) \in Lugares \ {"new_queue", e} /\ e \in Lugares
      /\ \A k \in Perifericos \ {h} :
           /\ Lista(k) \in Lugares \ {Lista(h), e}
           /\ SemaforoDe(k) \in Semaforos \ ({} \cup {})
  BY <1>2, ListasDistintas, Nombres DEF Lista, SemaforoDe, Colas
<1>5. /\ \A x \in Lugares \ {Lista(h), e} : cola'[x] = cola[x]
      /\ \A s \in Semaforos \ ({} \cup {}) : sem'[s] = sem[s]
  BY <1>0, <1>2, <1>4, MoverAjeno
<1>6. cola'[Lista(h)] = <<>>
  <2> DEFINE s == cola[Lista(h)]
  <2>1. s \in Seq(Procesos) /\ Len(s) \in {0, 1} /\ s # <<>>
    <3>1. s \in Seq(Procesos)
      BY <1>0, <1>4 DEF TypeOK
    <3>2. Len(s) \in {0, 1}
      BY <1>4, UnoPorLugar
    <3>3. s # <<>>
      BY <1>3 DEF Esta
    <3> QED
      BY <3>1, <3>2, <3>3
  <2>2. Len(s) = 1 /\ 1 \in DOMAIN s
    BY <2>1, EmptySeq
  <2>3. cola' = [cola EXCEPT ![Lista(h)] = RemoveAt(s, 1), ![e] = Append(cola[e], s[1])]
    BY <1>2, <2>2 DEF Mover
  <2>4. RemoveAt(s, 1) = Tail(s)
    BY <2>1, QuitarPrimero
  <2>5. cola'[Lista(h)] = Tail(s)
    BY <1>0, <1>4, <2>3, <2>4 DEF TypeOK
  <2> HIDE DEF s
  <2>6. Tail(s) \in Seq(Procesos) /\ Len(Tail(s)) = 0
    BY <2>1, <2>2, HeadTailProperties
  <2> QED
    BY <2>5, <2>6, EmptySeq
<1>7. conexion'[p].paso = "recv" /\ \A q \in Procesos \ {p} : conexion'[q] = conexion[q]
  BY <1>0, <1>2 DEF EnRecv, TypeOK
<1>8. \A q \in Procesos : ~ Pide(q, h)'
  <2>1. TypeOK' /\ FichasConLista'
    <3>1. Next
      BY DEF Next, HiloConsola
    <3> QED
      BY <1>0, <3>1, TipoPaso, PasoDesbloquear
  <2>2. \A q \in Procesos : NadaQuePedir(h, q)'
    BY ListaVaciaDespues
  <2> QED
    BY <1>6, <2>1, <2>2 DEF NadaQuePedir
<1>9. Emparejados(h)'
  BY <1>6, <1>8 DEF Emparejados
<1>10. ASSUME NEW k \in Perifericos \ {h}
       PROVE  Emparejados(k)' /\ \A q \in Procesos : Esta(q, Lista(k)) => Esta(q, Lista(k))'
  <2>1. cola'[Lista(k)] = cola[Lista(k)] /\ sem'[SemaforoDe(k)] = sem[SemaforoDe(k)]
    BY <1>4, <1>5
  <2>2. \A q \in Procesos : Pide(q, k)' <=> Pide(q, k)
    BY <1>1, <1>2, <1>7 DEF Pide
  <2>3. Aviso(k)' <=> Aviso(k)
    BY <1>2, <2>1 DEF Aviso
  <2>4. \A q \in Procesos : Esta(q, Lista(k))' <=> Esta(q, Lista(k))
    BY <2>1 DEF Esta
  <2> QED
    BY <2>1, <2>2, <2>3, <2>4 DEF Emparejados, Solitarios
<1>11. \A q \in Procesos : Esta(q, Lista(h)) => q = p
  BY <1>3, <1>4, UnoSolo
<1>12. Conserva
  BY <1>1, <1>2, <1>10, <1>11 DEF Conserva
<1>13. \A q \in Procesos : /\ conexion'[q].paso # "colgada"
                           /\ conexion'[q].paso \in {"buscar", "quitar"} =>
                                conexion'[q].indice = 1
  BY <1>7 DEF Solitarios
<1> QED
  BY <1>9, <1>10, <1>12, <1>13 DEF Solitarios

\* The order to end the console is not a prompt.
LEMMA FinNoPide ==
  ASSUME TypeOK, NEW p \in Procesos, NEW h \in Perifericos,
         \/ Agregado(a_consola, a_consola', p, "FIN")
         \/ a_consola[p] # <<>> /\ Head(a_consola[p]) = "FIN"
              /\ Quitado(a_consola, a_consola', p)
  PROVE  \A q \in Procesos : En(a_consola'[q], h) <=> En(a_consola[q], h)
<1> TAKE q \in Procesos
<1> DEFINE S == Perifericos \cup {"FIN"}
<1>1. a_consola \in [Procesos -> Seq(S)] /\ "FIN" \in S /\ h # "FIN"
  BY DEF TypeOK, Perifericos
<1> HIDE DEF S
<1>2. q # p => a_consola'[q] = a_consola[q]
  BY <1>1 DEF Agregado, Quitado
<1>3. CASE Agregado(a_consola, a_consola', p, "FIN")
  <2>1. a_consola'[p] = Append(a_consola[p], "FIN") /\ a_consola[p] \in Seq(S)
    BY <1>1, <1>3 DEF Agregado
  <2>2. En(Append(a_consola[p], "FIN"), h) <=> En(a_consola[p], h) \/ h = "FIN"
    BY <1>1, <2>1, EnAgregar
  <2> QED
    BY <1>1, <1>2, <2>1, <2>2
<1>4. CASE a_consola[p] # <<>> /\ Head(a_consola[p]) = "FIN"
             /\ Quitado(a_consola, a_consola', p)
  <2>1. a_consola'[p] = Tail(a_consola[p]) /\ a_consola[p] \in Seq(S)
    BY <1>1, <1>4 DEF Quitado
  <2>2. En(a_consola[p], h) <=> En(Tail(a_consola[p]), h) \/ h = Head(a_consola[p])
    BY <1>4, <2>1, EnQuitar
  <2> QED
    BY <1>1, <1>2, <1>4, <2>1, <2>2
<1> QED
  BY <1>3, <1>4

LEMMA UnoFinalizar ==
  ASSUME GradoUno, Solitarios, Finalizar PROVE Solitarios' /\ Conserva
<1>0. TypeOK
  BY DEF GradoUno, Confianza
<1>1. UNCHANGED <<con_mutex, elegido, conexion, de_consola>>
  BY DEF Finalizar, manejadores
<1>2. "exit_queue" \in Lugares /\ cola["exit_queue"] \in Seq(Procesos)
      /\ \A h \in Perifericos :
           /\ Lista(h) \in Lugares /\ Lista(h) # "exit_queue"
           /\ SemaforoDe(h) \in
                Semaforos \ {"finish_process", "grado_multiprogramacion"}
  BY <1>0, Nombres, ListasDistintas
     DEF TypeOK, Colas, SemaforosSincro, Lista, SemaforoDe
<1>3. CASE UNCHANGED <<cola, sem, a_consola>>
  BY <1>1, <1>3, SolitariosQuietos DEF Iguales, MismosMensajes
<1>4. CASE /\ cola["exit_queue"] # <<>>
           /\ Sincronizar({"finish_process"}, {"grado_multiprogramacion"})
           /\ cola' = [cola EXCEPT !["exit_queue"] = Tail(@)]
           /\ Agregado(a_consola, a_consola', Head(cola["exit_queue"]), "FIN")
  <2>1. Head(cola["exit_queue"]) \in Procesos
    BY <1>2, <1>4, HeadTailProperties
  <2>2. \A h \in Perifericos : MismosMensajes(h)
    BY <1>0, <1>1, <1>4, <2>1, FinNoPide DEF MismosMensajes
  <2>3. \A h \in Perifericos : /\ cola'[Lista(h)] = cola[Lista(h)]
                               /\ sem'[SemaforoDe(h)] = sem[SemaforoDe(h)]
    BY <1>0, <1>2, <1>4 DEF TypeOK, Sincronizar
  <2>4. \A h \in Perifericos : Iguales(h)
    BY <1>1, <2>3 DEF Iguales
  <2> QED
    BY <1>1, <2>2, <2>4, SolitariosQuietos
<1> QED
  BY <1>3, <1>4 DEF Finalizar, Agregado

LEMMA UnoTermina ==
  ASSUME GradoUno, Solitarios, NEW p \in Procesos, ConsolaTermina(p)
  PROVE  Solitarios' /\ Conserva
<1>1. /\ a_consola[p] # <<>> /\ Head(a_consola[p]) = "FIN"
      /\ Quitado(a_consola, a_consola', p) /\ TypeOK
      /\ UNCHANGED <<cola, sem, con_mutex, elegido, conexion, de_consola>>
  BY DEF ConsolaTermina, manejadores, Quitado, GradoUno, Confianza
<1>2. \A h \in Perifericos : Iguales(h) /\ MismosMensajes(h)
  BY <1>1, FinNoPide DEF Iguales, MismosMensajes
<1> QED
  BY <1>1, <1>2, SolitariosQuietos

\* Dispatch finds no handler holding the mutex it is about to copy.
LEMMA UnoNoCuelga ==
  ASSUME GradoUno, ColgarDispatch PROVE FALSE
<1>0. /\ TypeOK /\ EsperaContada /\ FichasConLista /\ "cpu" \in Lugares \ {"new_queue"}
      /\ "blocked_io_list" \in Lugares \ {"new_queue"}
  BY Nombres DEF GradoUno, Confianza, Colas
<1>1. /\ estado_proceso # "CONTINUA_PROCESO"
      /\ MutexIOTomado \/ \E h \in Perifericos : h \in con_mutex
  BY DEF ColgarDispatch, Respuesta
<1>2. cola["cpu"] # <<>> /\ cola["cpu"] \in Seq(Procesos)
  BY <1>0, <1>1 DEF GradoUno, Confianza, FallosEnOrden, CpuOcupada, TypeOK
<1>3. PICK p \in Procesos : Esta(p, "cpu")
  <2>1. 1 \in DOMAIN cola["cpu"] /\ cola["cpu"][1] \in Procesos
    BY <1>2
  <2> QED
    BY <2>1 DEF Esta
<1>4. ASSUME NEW c \in Lugares \ {"new_queue", "cpu"}, NEW q \in Procesos, Esta(q, c)
      PROVE  FALSE
  BY <1>0, <1>3, <1>4, UnoSolo
<1>5. CASE MutexIOTomado
  <2>1. PICK d \in Dispositivos : d \in con_mutex
    BY <1>5 DEF MutexIOTomado
  <2>2. sem[d] \in Nat /\ sem[d] + 1 = Cardinality(EnEspera(d))
    BY <1>0, <2>1 DEF EsperaContada, TypeOK, Semaforos
  <2>3. Cardinality(EnEspera(d)) # 0
    BY <2>2
  <2>4. EnEspera(d) # {}
    BY <2>3, FS_EmptySet
  <2>5. \E q \in Procesos : Esta(q, "blocked_io_list")
    BY <2>4 DEF EnEspera
  <2> QED
    BY <1>0, <1>4, <2>5
<1>6. ASSUME NEW h \in Perifericos, h \in con_mutex PROVE FALSE
  <2> DEFINE s == cola[Lista(h)]
  <2>1. s \in Seq(Procesos) /\ Lista(h) \in Lugares \ {"new_queue", "cpu"}
    BY <1>0, ListasDistintas DEF TypeOK, Lista
  <2>4. 1 \in DOMAIN s /\ s[1] \in Procesos
    BY <1>6, <2>1, AvisoEnLista DEF Aviso
  <2>5. Esta(s[1], Lista(h))
    BY <2>4 DEF Esta
  <2> QED
    BY <1>4, <2>1, <2>4, <2>5
<1> QED
  BY <1>1, <1>5, <1>6

LEMMA UnoVive ==
  ASSUME GradoUno, Solitarios, AlDia, Next PROVE vivo'
<1>1. \A p \in Procesos : ~ IndiceViejo(p)
  <2> SUFFICES ASSUME NEW p \in Procesos, conexion[p].paso \in {"buscar", "quitar"},
                      conexion[p].indice \notin DOMAIN cola[Lista(conexion[p].lista)]
               PROVE  FALSE
    BY DEF IndiceViejo
  <2>1. PICK h \in Perifericos : h = conexion[p].lista
    BY DEF GradoUno, Confianza, FichasConLista, ConexionesConLista
  <2>2. Esta(p, Lista(h)) /\ conexion[p].indice = 1
    BY <2>1 DEF Solitarios, Emparejados, Pide
  <2>3. cola[Lista(h)] \in Seq(Procesos)
    BY ListasDistintas DEF GradoUno, Confianza, TypeOK
  <2>4. 1 \in DOMAIN cola[Lista(h)]
    BY <2>2, <2>3 DEF Esta
  <2> QED
    BY <2>1, <2>2, <2>4
<1>2. \A h \in Perifericos : ~ UltimoViejo(h)
  <2> SUFFICES ASSUME NEW h \in Perifericos, h \in con_mutex,
                      ultimo[h] \notin DOMAIN cola[Lista(h)]
               PROVE  FALSE
    BY DEF UltimoViejo
  <2>1. ultimo[h] = 1
    BY DEF AlDia
  <2>2. Aviso(h)
    BY DEF Aviso
  <2> QED
    BY <2>1, <2>2, AvisoEnLista
<1>3. \A h \in Perifericos : ~ ConsolaCerrada(h)
  BY UnoElegido DEF ConsolaCerrada
<1>4. NoCae
  BY NoCaePaso DEF GradoUno
<1> QED
  BY <1>1, <1>2, <1>3, <1>4 DEF NoCae, Caida, AlDia

\* With one PCB admitted, nobody shows the ready lists while it waits in them.
LEMMA UnoElegirListo ==
  ASSUME GradoUno, ElegirListo PROVE acortadas' = {}
<1> DEFINE a == Len(cola["ready1_list"])
           b == Len(cola["ready2_list"])
           m == Cardinality(mostrando)
           s == sem["pcbs_en_ready"]
<1>0. TypeOK /\ Cuentas /\ {"ready1_list", "ready2_list"} \subseteq Lugares \ {"new_queue"}
  BY Nombres DEF GradoUno, Confianza, Colas
<1>1. s > 0 /\ s \in Nat
  <2>1. \E c : Mover({"pcbs_en_ready", "cpu_libre"}, c, 1, "running_queue",
                     {"enviar_pcb_a_cpu"})
    BY DEF ElegirListo
  <2> QED
    BY <1>0, <2>1, MoverConFicha, Nombres DEF TypeOK, SemaforosSincro
<1>2. a \in {0, 1} /\ b \in {0, 1}
  BY <1>0, UnoPorLugar
<1>3. ~ (a = 1 /\ b = 1)
  <2> SUFFICES ASSUME a = 1, b = 1 PROVE FALSE
    OBVIOUS
  <2>1. /\ 1 \in DOMAIN cola["ready1_list"] /\ cola["ready1_list"][1] \in Procesos
        /\ 1 \in DOMAIN cola["ready2_list"] /\ cola["ready2_list"][1] \in Procesos
    <3>1. cola["ready1_list"] \in Seq(Procesos) /\ cola["ready2_list"] \in Seq(Procesos)
      BY <1>0 DEF TypeOK
    <3> QED
      BY <3>1
  <2>2. Esta(cola["ready1_list"][1], "ready1_list") /\ Esta(cola["ready2_list"][1], "ready2_list")
    BY <2>1 DEF Esta
  <2>3. "ready1_list" = "ready2_list"
    BY <1>0, <2>1, <2>2, UnoSolo
  <2> QED
    BY <2>3
<1>4. s + m = a + b
  BY <1>0, Zenon DEF Cuentas, SemaforosContados
<1>5. m \in Nat
  BY <1>0, MostrandoFinito, NombresDeHilos
<1>6. m = 0
  <2> HIDE DEF a, b, m, s
  <2> QED
    BY <1>1, <1>2, <1>3, <1>4, <1>5
<1>7. mostrando = {}
  <2>1. IsFiniteSet(mostrando)
    BY <1>0, MostrandoFinito, NombresDeHilos
  <2> QED
    BY <1>6, <2>1, FS_EmptySet
<1> QED
  BY <1>7 DEF ElegirListo

\* The steps that say something to a console, take a mutex or shorten a list.
LEMMA PasosCallados ==
  ASSUME Next
  PROVE  \/ UNCHANGED <<a_consola, consola, fin, con_mutex, ultimo, acortadas,
                        dispatch_colgado>>
         \/ ElegirListo \/ Finalizar \/ ColgarDispatch
         \/ \E t \in Hilos : TerminarDeMostrar(t)
         \/ \E p \in Procesos : NuevoProceso(p) \/ ConsolaResponde(p) \/ ConsolaTermina(p)
         \/ \E d \in Dispositivos : TomarMutexIO(d) \/ AtenderEnDispositivo(d)
         \/ \E h \in Perifericos : Manejador(h)
<1> DEFINE Callado == UNCHANGED <<a_consola, consola, fin, con_mutex, ultimo, acortadas,
                                  dispatch_colgado>>
<1> USE DEF manejadores, consolas, recorrido
<1>1. CASE AdmitirProceso \/ CrearEstructuras
  BY <1>1 DEF AdmitirProceso, CrearEstructuras
<1>2. CASE IndiceActualizado \/ DesalojarPorQuantum \/ DesbloquearPageFault
  BY <1>2 DEF IndiceActualizado, DesalojarPorQuantum, DesbloquearPageFault, AgregarAReady
<1>3. ASSUME NEW d \in Dispositivos, TerminarIO(d) PROVE Callado
  BY <1>3 DEF TerminarIO, AgregarAReady
<1>4. CASE EnviarACpu \/ AtenderPageFault \/ PageFaultAtendido
  BY <1>4 DEF EnviarACpu, AtenderPageFault, PageFaultAtendido
<1>5. CASE BloquearPorPageFault \/ TerminarProceso
  BY <1>5 DEF BloquearPorPageFault, TerminarProceso, Archivar
<1>6. ASSUME NEW d \in Dispositivos, BloquearPorIO(d) PROVE Callado
  BY <1>6 DEF BloquearPorIO, Archivar
<1>7. ASSUME NEW h \in Perifericos, BloquearPorPeriferico(h) PROVE Callado
  BY <1>7 DEF BloquearPorPeriferico, Archivar
<1>8. ASSUME NEW p \in Procesos, Cpu(p) PROVE Callado
  BY <1>8 DEF Cpu, EjecutarYSeguir, EjecutarPageFault, EjecutarYParar
<1>9. ASSUME NEW p \in Procesos, AtenderConsola(p) PROVE Callado
  BY <1>9 DEF AtenderConsola
<1>10. ASSUME NEW p \in Procesos, BuscarIndice(p) PROVE Callado
  BY <1>10 DEF BuscarIndice
<1>11. ASSUME NEW p \in Procesos, CerrarConexion(p) PROVE Callado
  BY <1>11 DEF CerrarConexion
<1>12. ASSUME NEW p \in Procesos, Desbloquear(p) PROVE Callado
  BY <1>12 DEF Desbloquear, AgregarAReady
<1> HIDE DEF Callado
<1>13. CASE Dispatch
  BY <1>2, <1>4, <1>5, <1>6, <1>7, <1>13, NombresDeHilos DEF Dispatch, Callado
<1>14. CASE HiloMemoria \/ HiloPageFault
  BY <1>2, <1>4, <1>14, NombresDeHilos DEF HiloMemoria, HiloPageFault, Callado
<1>15. CASE \E p \in Procesos : Cpu(p) \/ Consola(p) \/ HiloConsola(p)
  BY <1>8, <1>9, <1>10, <1>11, <1>12, <1>15, NombresDeHilos DEF Consola, HiloConsola, Callado
<1>16. CASE \E d \in Dispositivos : HiloDispositivo(d)
  BY <1>3, <1>16, NombresDeHilos DEF HiloDispositivo, Callado
<1> QED
  BY <1>1, <1>4, <1>13, <1>14, <1>15, <1>16 DEF Next, Callado

\* What is sent to a console, and when it closes.
LEMMA FinesPaso == TypeOK /\ Fines /\ Next => Fines'
<1> SUFFICES ASSUME TypeOK, Fines, Next PROVE Fines'
  OBVIOUS
<1> DEFINE S == Perifericos \cup {"FIN"}
<1>0. ASSUME UNCHANGED <<a_consola, consola>>, fin \subseteq fin' PROVE Fines'
  BY <1>0 DEF Fines
<1>t. /\ a_consola \in [Procesos -> Seq(S)] /\ Perifericos \subseteq S /\ "FIN" \in S
      /\ "FIN" \notin Perifericos
      /\ \A p \in Procesos : a_consola[p] \in Seq(S)
  BY DEF TypeOK, Perifericos
<1> HIDE DEF S
<1>1. CASE \/ ElegirListo \/ ColgarDispatch
           \/ \E d \in Dispositivos : TomarMutexIO(d) \/ AtenderEnDispositivo(d)
           \/ \E h \in Perifericos : TomarMutex(h) \/ LeerUltimo(h)
  BY <1>0, <1>1 DEF ElegirListo, ColgarDispatch, TomarMutexIO, AtenderEnDispositivo,
       TomarMutex, LeerUltimo, consolas
<1>2. ASSUME NEW t \in Hilos, TerminarDeMostrar(t) PROVE Fines'
  BY <1>0, <1>2, MostrarEfecto DEF consolas
<1>3. ASSUME NEW p \in Procesos, NuevoProceso(p) PROVE Fines'
  <2>1. /\ UNCHANGED <<a_consola, fin>>
        /\ \A q \in Procesos : consola'[q] = "cerrada" => consola[q] = "cerrada"
    BY <1>3 DEF NuevoProceso, TypeOK
  <2> QED
    BY <2>1 DEF Fines
<1>4. ASSUME NEW p \in Procesos, ConsolaResponde(p) \/ ConsolaTermina(p) PROVE Fines'
  <2>1. /\ a_consola[p] # <<>> /\ a_consola'[p] = Tail(a_consola[p])
        /\ \A q \in Procesos \ {p} : a_consola'[q] = a_consola[q] /\ consola'[q] = consola[q]
        /\ consola'[p] = "cerrada" => consola[p] = "cerrada" \/ Head(a_consola[p]) = "FIN"
        /\ UNCHANGED fin
    BY <1>4, <1>t DEF ConsolaResponde, ConsolaTermina, TypeOK
  <2>2. En(a_consola[p], "FIN") <=> En(Tail(a_consola[p]), "FIN") \/ "FIN" = Head(a_consola[p])
    BY <1>t, <2>1, EnQuitar
  <2> QED
    BY <2>1, <2>2 DEF Fines
<1>5. ASSUME NEW h \in Perifericos, PedirAConsola(h) PROVE Fines'
  <2>1. PICK p \in Procesos : p = elegido[h]
    BY <1>5 DEF PedirAConsola, TypeOK
  <2>2. CASE a_consola' = [a_consola EXCEPT ![p] = Append(@, h)]
    <3>1. /\ a_consola'[p] = Append(a_consola[p], h)
          /\ \A q \in Procesos \ {p} : a_consola'[q] = a_consola[q]
      BY <1>t, <2>2
    <3>2. En(Append(a_consola[p], h), "FIN") <=> En(a_consola[p], "FIN") \/ "FIN" = h
      BY <1>t, EnAgregar
    <3>3. UNCHANGED <<consola, fin>>
      BY <1>5 DEF PedirAConsola
    <3> QED
      BY <1>t, <3>1, <3>2, <3>3 DEF Fines
  <2>3. CASE UNCHANGED a_consola
    BY <1>0, <1>5, <2>3 DEF PedirAConsola
  <2> QED
    BY <1>5, <2>1, <2>2, <2>3 DEF PedirAConsola
<1>6. CASE Finalizar
  <2>1. CASE UNCHANGED <<a_consola, fin>>
    BY <1>0, <1>6, <2>1 DEF Finalizar
  <2>2. CASE cola["exit_queue"] # <<>>
    <3>1. PICK p \in Procesos : p = Head(cola["exit_queue"])
      <4>1. cola["exit_queue"] \in Seq(Procesos)
        BY Nombres DEF TypeOK, Colas
      <4>2. Head(cola["exit_queue"]) \in Procesos
        BY <2>2, <4>1, HeadTailProperties
      <4> QED
        BY <4>2
    <3>2. /\ a_consola' = [a_consola EXCEPT ![p] = Append(@, "FIN")]
          /\ fin' = fin \cup {p} /\ UNCHANGED consola
      BY <1>6, <2>2, <3>1 DEF Finalizar
    <3>3. \A q \in Procesos \ {p} : a_consola'[q] = a_consola[q]
      BY <1>t, <3>2
    <3> QED
      BY <3>2, <3>3 DEF Fines
  <2> QED
    BY <1>6, <2>1, <2>2 DEF Finalizar
<1> QED
  BY PasosCallados, <1>0, <1>1, <1>2, <1>3, <1>4, <1>5, <1>6 DEF Manejador

LEMMA AlDiaPaso ==
  ASSUME GradoUno, AlDia, Next PROVE AlDia'
<1>0. TypeOK
  BY DEF GradoUno, Confianza
<1>1. ASSUME UNCHANGED <<acortadas, ultimo>>, con_mutex' \cap Perifericos \subseteq con_mutex
      PROVE  AlDia'
  BY <1>1 DEF AlDia
<1>2. CASE ElegirListo
  BY <1>1, <1>2, UnoElegirListo DEF AlDia, ElegirListo, manejadores
<1>3. CASE \/ Finalizar \/ ColgarDispatch
           \/ \E p \in Procesos : NuevoProceso(p) \/ ConsolaResponde(p) \/ ConsolaTermina(p)
           \/ \E h \in Perifericos : PedirAConsola(h)
  BY <1>1, <1>3 DEF Finalizar, ColgarDispatch, NuevoProceso, ConsolaResponde,
       ConsolaTermina, PedirAConsola, manejadores, recorrido
<1>4. ASSUME NEW t \in Hilos, TerminarDeMostrar(t) PROVE AlDia'
  BY <1>0, <1>4, MostrarEfecto DEF AlDia, TerminarDeMostrar, manejadores, recorrido
<1>5. ASSUME NEW d \in Dispositivos, TomarMutexIO(d) \/ AtenderEnDispositivo(d)
      PROVE  AlDia'
  BY <1>1, <1>5, DispositivosAssumption DEF TomarMutexIO, AtenderEnDispositivo, recorrido
<1>6. ASSUME NEW h \in Perifericos, TomarMutex(h) PROVE AlDia'
  <2>1. Aviso(h)
    BY <1>6 DEF TomarMutex, Sincronizar, Aviso
  <2>2. ultimo' = [ultimo EXCEPT ![h] = 1]
    BY <1>6, <2>1, AvisoEnLista DEF TomarMutex
  <2>3. con_mutex' = con_mutex \cup {h} /\ UNCHANGED acortadas
    BY <1>6 DEF TomarMutex, recorrido
  <2> QED
    BY <1>0, <2>2, <2>3 DEF AlDia, TypeOK
<1>7. ASSUME NEW h \in Perifericos, LeerUltimo(h) PROVE AlDia'
  <2>1. con_mutex' = con_mutex \ {h} /\ ultimo' = [ultimo EXCEPT ![h] = 0] /\ UNCHANGED acortadas
    BY <1>7 DEF LeerUltimo, recorrido
  <2> QED
    BY <1>0, <2>1 DEF AlDia, TypeOK
<1> QED
  BY PasosCallados, <1>1, <1>2, <1>3, <1>4, <1>5, <1>6, <1>7 DEF Manejador

LEMMA UnoPaso ==
  ASSUME GradoUno, Solitarios, AlDia, Next PROVE Solitarios' /\ Conserva
<1> USE DEF manejadores, consolas
<1> DEFINE Otras == {"blocked_screen_list", "blocked_keyboard_list"}
<1>a. TypeOK /\ vivo
  BY DEF GradoUno, Confianza, Next
<1>0. ASSUME UNCHANGED <<cola, sem, con_mutex, elegido, conexion, a_consola,
                         de_consola>>
      PROVE  Solitarios' /\ Conserva
  BY <1>0, SolitariosQuietos DEF Iguales, MismosMensajes
<1>1. CASE AdmitirProceso
  BY <1>a, <1>1, SolitariosMover, Nombres DEF AdmitirProceso, Colas, SemaforosSincro
<1>2. CASE CrearEstructuras
  BY <1>a, <1>2, SolitariosMover, Nombres DEF CrearEstructuras, Colas, SemaforosSincro
<1>3. CASE IndiceActualizado
  BY <1>a, <1>3, SolitariosMover, Nombres
     DEF IndiceActualizado, AgregarAReady, Colas, SemaforosSincro, ColaReady
<1>4. CASE PageFaultAtendido
  <2>1. \A h \in Perifericos : sem'[SemaforoDe(h)] = sem[SemaforoDe(h)]
    BY <1>a, <1>4, ListasDistintas DEF PageFaultAtendido, Sincronizar, TypeOK, SemaforoDe
  <2> QED
    BY <1>4, <2>1, SolitariosQuietos DEF PageFaultAtendido, Iguales, MismosMensajes
<1>5. CASE ElegirListo
  BY <1>a, <1>5, SolitariosMover, Nombres DEF ElegirListo, Colas, SemaforosSincro
<1>6. CASE EnviarACpu
  BY <1>a, <1>6, SolitariosMover, Nombres DEF EnviarACpu, Colas, SemaforosSincro
<1>7. CASE DesalojarPorQuantum
  BY <1>a, <1>7, SolitariosMover, Nombres
     DEF DesalojarPorQuantum, AgregarAReady, Colas, SemaforosSincro, ColaReady
<1>8. CASE BloquearPorPageFault
  BY <1>a, <1>8, SolitariosMover, Nombres
     DEF BloquearPorPageFault, Archivar, Colas, SemaforosSincro
<1>9. CASE TerminarProceso
  BY <1>a, <1>9, SolitariosMover, Nombres
     DEF TerminarProceso, Archivar, Colas, SemaforosSincro
<1>10. CASE ColgarDispatch
  BY <1>10, UnoNoCuelga
<1>11. ASSUME NEW d \in Dispositivos, BloquearPorIO(d) PROVE Solitarios' /\ Conserva
  <2>1. d \in Semaforos \ {"bloquear_por_pantalla", "bloquear_por_teclado"}
    BY DispositivosAssumption DEF Semaforos, SemaforosSincro
  <2> QED
    BY <1>a, <1>11, <2>1, SolitariosMover, Nombres
       DEF BloquearPorIO, Archivar, Colas, SemaforosSincro
<1>12. ASSUME NEW h \in Perifericos, BloquearPorPeriferico(h)
       PROVE  Solitarios' /\ Conserva
  BY <1>12, UnoBloquear
<1>13. CASE Finalizar
  BY <1>13, UnoFinalizar
<1>14. CASE AtenderPageFault
  BY <1>0, <1>14 DEF AtenderPageFault
<1>15. CASE DesbloquearPageFault
  BY <1>a, <1>15, SolitariosMover, Nombres
     DEF DesbloquearPageFault, AgregarAReady, Colas, SemaforosSincro, ColaReady
<1>16. ASSUME NEW p \in Procesos, Cpu(p) PROVE Solitarios' /\ Conserva
  BY <1>0, <1>16 DEF Cpu, EjecutarYSeguir, EjecutarPageFault, EjecutarYParar
<1>17. ASSUME NEW p \in Procesos, NuevoProceso(p) PROVE Solitarios' /\ Conserva
  <2>1. \A h \in Perifericos :
          /\ cola'[Lista(h)] = cola[Lista(h)]
          /\ sem'[SemaforoDe(h)] = sem[SemaforoDe(h)]
    BY <1>a, <1>17, ListasDistintas
       DEF NuevoProceso, Sincronizar, TypeOK, SemaforoDe, Lista
  <2> QED
    BY <1>17, <2>1, SolitariosQuietos DEF NuevoProceso, Iguales, MismosMensajes
<1>18. ASSUME NEW p \in Procesos, ConsolaResponde(p) \/ ConsolaTermina(p)
       PROVE  Solitarios' /\ Conserva
  BY <1>18, UnoResponde, UnoTermina
<1>24. ASSUME NEW t \in Hilos, TerminarDeMostrar(t) PROVE Solitarios' /\ Conserva
  <2>1. \A h \in Perifericos : sem'[SemaforoDe(h)] = sem[SemaforoDe(h)]
    BY <1>a, <1>24, MostrarEfecto, ListasDistintas DEF SemaforoDe
  <2>2. UNCHANGED <<cola, con_mutex, elegido, conexion, a_consola, de_consola>>
    BY <1>a, <1>24, MostrarEfecto
  <2> QED
    BY <2>1, <2>2, SolitariosQuietos DEF Iguales, MismosMensajes
<1>19. ASSUME NEW p \in Procesos, HiloConsola(p) PROVE Solitarios' /\ Conserva
  BY <1>a, <1>19, <1>24, UnoAtender, UnoBuscarIndice, UnoCerrar, UnoDesbloquear,
     NombresDeHilos DEF HiloConsola
<1>20. ASSUME NEW d \in Dispositivos, TomarMutexIO(d) PROVE Solitarios' /\ Conserva
  <2>1. \A h \in Perifericos :
          /\ sem'[SemaforoDe(h)] = sem[SemaforoDe(h)]
          /\ (h \in con_mutex' <=> h \in con_mutex)
    BY <1>a, <1>20, ListasDistintas, DispositivosAssumption, SMTT(40)
       DEF TomarMutexIO, Sincronizar, TypeOK, SemaforoDe, SemaforosSincro
  <2> QED
    BY <1>20, <2>1, SolitariosQuietos DEF TomarMutexIO, Iguales, MismosMensajes
<1>21. ASSUME NEW d \in Dispositivos, AtenderEnDispositivo(d)
       PROVE  Solitarios' /\ Conserva
  <2>1. /\ d \in Lugares /\ "blocked_io_list" \in Lugares /\ d # "blocked_io_list"
        /\ d \notin Otras
        /\ \A h \in Perifericos : h \in con_mutex' <=> h \in con_mutex
    BY <1>21, ListasDistintas, Nombres, DispositivosAssumption
       DEF AtenderEnDispositivo, Lugares, Colas
  <2>2. {} \cup {} \subseteq
           Semaforos \ {"bloquear_por_pantalla", "bloquear_por_teclado"}
    OBVIOUS
  <2> QED
    BY <1>a, <1>21, <2>1, <2>2, SolitariosMover DEF AtenderEnDispositivo
<1>22. ASSUME NEW d \in Dispositivos, TerminarIO(d) PROVE Solitarios' /\ Conserva
  <2> DEFINE e == ColaReady("BLOQUEAR_PROCESO_IO")
  <2>1. /\ d \in Lugares /\ e \in Lugares /\ d # e
        /\ d \notin Otras /\ e \notin Otras
    BY Nombres, DispositivosAssumption DEF Lugares, Colas, ColaReady
  <2>2. {} \cup {} \subseteq
           Semaforos \ {"bloquear_por_pantalla", "bloquear_por_teclado"}
    OBVIOUS
  <2> QED
    BY <1>a, <1>22, <2>1, <2>2, SolitariosMover DEF TerminarIO, AgregarAReady
<1>23. ASSUME NEW h \in Perifericos, Manejador(h) PROVE Solitarios' /\ Conserva
  BY <1>23, UnoTomarMutex, UnoLeerUltimo, UnoPedir DEF Manejador
<1> QED
  BY <1>1, <1>2, <1>3, <1>4, <1>5, <1>6, <1>7, <1>8, <1>9, <1>10, <1>11, <1>12,
     <1>13, <1>14, <1>15, <1>16, <1>17, <1>18, <1>19, <1>20, <1>21, <1>22, <1>23,
     <1>24, NombresDeHilos
     DEF Next, HiloMemoria, HiloPageFault, Dispatch, Consola, HiloDispositivo

LEMMA SolitariosInicial == Init => Solitarios
<1> SUFFICES ASSUME Init PROVE Solitarios
  OBVIOUS
<1>1. \A h \in Perifericos : cola[Lista(h)] = <<>>
  BY ListasDistintas DEF Init
<1>2. \A h \in Perifericos, p \in Procesos : ~ Pide(p, h)
  BY NadieAssumption DEF Init, Pide, En, EnRecv
<1> QED
  BY <1>1, <1>2 DEF Solitarios, Emparejados, Init, EnRecv

\* With the degree of multiprogramming at one nothing asks for a process that is
\* not there, so there is nothing stale to use.
Uno == Solitarios /\ AlDia /\ Fines /\ vivo /\ ~ dispatch_colgado

LEMMA UnoSinColapso ==
  ASSUME Confianza, Uno, GradoRespetado, GradoMax = 1 PROVE SinColapso
<1>1. SinCuelgue /\ vivo
  BY DEF Uno, SinCuelgue, Solitarios
<1>2. ASSUME NEW h \in Perifericos, Fichas(h) < Len(cola[Lista(h)]) PROVE FALSE
  <2>1. Partes(h) /\ GradoUno
    BY FichasPartes DEF Confianza, GradoUno, Uno
  <2>2. Lista(h) \in Lugares \ {"new_queue"}
    BY ListasDistintas DEF Lista
  <2>3. Len(cola[Lista(h)]) = 1 /\ Fichas(h) = 0
    <3> DEFINE n == Len(cola[Lista(h)])
               f == Fichas(h)
    <3>1. n \in {0, 1} /\ f \in Nat /\ f < n
      BY <1>2, <2>1, <2>2, UnoPorLugar DEF Partes
    <3> HIDE DEF n, f
    <3>2. n = 1 /\ f = 0
      BY <3>1
    <3> QED
      BY <3>2 DEF n, f
  <2>4. cola[Lista(h)] # <<>>
    <3>1. cola[Lista(h)] = <<>> => Len(cola[Lista(h)]) = 0
      OBVIOUS
    <3> QED
      BY <2>3, <3>1
  <2>5. CASE Aviso(h)
    <3>1. sem[SemaforoDe(h)] > 0 \/ Tomado(h) = 1
      BY <2>5 DEF Aviso, Tomado
    <3> QED
      BY <2>1, <2>3, <3>1 DEF Partes
  <2>6. ASSUME NEW p \in Procesos, Pide(p, h) PROVE FALSE
    BY <2>3, <2>6, PideEsFicha DEF Confianza
  <2> QED
    BY <2>4, <2>5, <2>6 DEF Uno, Solitarios, Emparejados
<1> QED
  BY <1>1, <1>2 DEF SinColapso, Colapso

LEMMA UnoConserva ==
  ASSUME Confianza, GradoRespetado, GradoMax = 1, Uno, [Next]_vars
  PROVE  Uno' /\ [Conserva]_vars
<1>0. GradoUno /\ TypeOK /\ Solitarios /\ AlDia /\ Fines /\ vivo /\ ~ dispatch_colgado
  BY DEF GradoUno, Uno, Confianza
<1>1. CASE Next
  <2>1. Solitarios' /\ Conserva
    BY <1>0, <1>1, UnoPaso
  <2>2. vivo' /\ AlDia' /\ Fines'
    BY <1>0, <1>1, UnoVive, AlDiaPaso, FinesPaso
  <2>3. UNCHANGED dispatch_colgado
    <3>1. CASE ElegirListo \/ Finalizar
      BY <3>1 DEF ElegirListo, Finalizar
    <3>2. ASSUME NEW t \in Hilos, TerminarDeMostrar(t) PROVE UNCHANGED dispatch_colgado
      BY <3>2 DEF TerminarDeMostrar
    <3>3. CASE \E p \in Procesos : NuevoProceso(p) \/ ConsolaResponde(p) \/ ConsolaTermina(p)
      BY <3>3 DEF NuevoProceso, ConsolaResponde, ConsolaTermina
    <3>4. CASE \E d \in Dispositivos : TomarMutexIO(d) \/ AtenderEnDispositivo(d)
      BY <3>4 DEF TomarMutexIO, AtenderEnDispositivo
    <3>5. CASE \E h \in Perifericos : Manejador(h)
      BY <3>5 DEF Manejador, TomarMutex, LeerUltimo, PedirAConsola
    <3> QED
      BY <1>0, <1>1, UnoNoCuelga, PasosCallados, <3>1, <3>2, <3>3, <3>4, <3>5
  <2> QED
    BY <1>0, <2>1, <2>2, <2>3 DEF Uno
<1>2. CASE UNCHANGED vars
  <2>1. UNCHANGED <<cola, sem, con_mutex, ultimo, elegido, conexion, a_consola, de_consola,
                    acortadas, consola, fin, vivo, dispatch_colgado>>
    BY <1>2 DEF vars, manejadores, consolas, recorrido
  <2>2. Solitarios'
    BY <1>0, <2>1, SolitariosQuietos DEF Iguales, MismosMensajes
  <2>3. AlDia' /\ Fines'
    BY <1>0, <2>1 DEF AlDia, Fines
  <2> QED
    BY <1>0, <1>2, <2>1, <2>2, <2>3 DEF Uno
<1> QED
  BY <1>1, <1>2

LEMMA UnoInicial == Init => Uno
BY SolitariosInicial DEF Init, Uno, AlDia, Fines, En

LEMMA UnoInvariante ==
  ASSUME GradoMax = 1
  PROVE  Spec => [](Confianza /\ GradoRespetado /\ Uno) /\ [][Conserva]_vars
<1>1. Confianza /\ GradoRespetado /\ Uno /\ [Next]_vars => Uno' /\ [Conserva]_vars
  BY UnoConserva
<1>2. LugaresYGrado => Unicos /\ GradoRespetado
  BY DEF LugaresYGrado
<1>3. TypeOK /\ Unicos /\ Cuentas /\ EsperaContada /\ FallosEnOrden
        /\ FichasConLista /\ Reparto => Confianza
  BY DEF Confianza
<1> QED
  BY TipoCorrecto, LugaresInvariante, CuentasInvariante, EsperaInvariante,
     FallosInvariante, FichasInvariante, RepartoInvariante, UnoInicial,
     <1>1, <1>2, <1>3, PTL DEF Spec

\* With a degree of multiprogramming of one and any number of processes, the
\* kernel loses no prompt, hangs no thread and never dies.
THEOREM GradoUnoCorrecto ==
  ASSUME GradoMax = 1
  PROVE  Spec => []SinColapso
<1>1. Confianza /\ GradoRespetado /\ Uno => SinColapso
  BY UnoSinColapso
<1> QED
  BY UnoInvariante, <1>1, PTL

\* With that degree each process leaves the list of the screen or the keyboard
\* by the answer of its own console.
THEOREM RespuestaCorrecta ==
  ASSUME GradoMax = 1
  PROVE  Spec => RespuestaPropia
BY UnoInvariante, PTL DEF RespuestaPropia, Conserva
=============================================================================
