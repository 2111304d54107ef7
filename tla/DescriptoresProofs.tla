------------------------- MODULE DescriptoresProofs -------------------------
(***************************************************************************)
(* What TLAPS proves of Descriptores, for any consoles and any number of   *)
(* them that die.                                                          *)
(***************************************************************************)
EXTENDS Descriptores, Conteo

-----------------------------------------------------------------------------
(* The inductive invariant *)

OpCodes == {"IMPRIMIR_VALOR", "FINALIZAR_PROCESO"}
Socket == {Nadie} \cup Numeros

Tipos ==
  /\ consola \in [Consolas -> {"fuera", "conectada", "espera", "terminada"}]
  /\ programa \subseteq Consolas
  /\ pedidos \in [Consolas -> Seq(OpCodes)]
  /\ respuestas \in [Consolas -> Nat]
  /\ descriptor \in [Consolas -> Socket] /\ socket_consola \in [Consolas -> Socket]
  /\ proceso \in [Consolas -> {"no", "activo", "bloqueado", "exit", "fin"}]
  /\ bajas \in Nat

\* No number is open twice, and a process whose console is alive has its number.
Duenios ==
  /\ \A c, d \in Consolas : descriptor[c] = descriptor[d] /\ descriptor[c] # Nadie => c = d
  /\ \A c \in Consolas :
       /\ Viva(c) => descriptor[c] # Nadie
       /\ proceso[c] # "no" => socket_consola[c] # Nadie
       /\ proceso[c] # "no" /\ Viva(c) => socket_consola[c] = descriptor[c]

\* A process begins once, when the program of its console arrives.
Comienzos ==
  \A c \in Consolas :
    /\ consola[c] = "fuera" => descriptor[c] = Nadie /\ pedidos[c] = <<>>
    /\ consola[c] \in {"fuera", "conectada"} => proceso[c] = "no" /\ c \notin programa
    /\ c \in programa => proceso[c] = "no"

\* A console that is gone, or will be as soon as it reads what it was told.
Avisada(c) ==
  consola[c] = "terminada" \/ \E i \in DOMAIN pedidos[c] : pedidos[c][i] = "FINALIZAR_PROCESO"

\* Those whose process has not ended: each is paid by a death.
Condenados == {c \in Consolas : proceso[c] # "fin" /\ Avisada(c)}

Invariante == Tipos /\ Duenios /\ Comienzos /\ Cardinality(Condenados) <= bajas

-----------------------------------------------------------------------------
(* The steps *)

\* accept finds a number: this console has none and each other has one at most.
LEMMA NumeroLibre ==
  ASSUME Tipos, NEW c \in Consolas, descriptor[c] = Nadie
  PROVE  LET n == Min(Numeros \ {descriptor[d] : d \in Consolas})
         IN  n \in Numeros /\ \A d \in Consolas : descriptor[d] # n
<1> DEFINE otras == Consolas \ {c}
           tomados == {descriptor[d] : d \in otras}
           libres == Numeros \ {descriptor[d] : d \in Consolas}
<1>1. /\ IsFiniteSet(otras) /\ Cardinality(otras) = Cardinality(Consolas) - 1
      /\ Cardinality(Consolas) \in Nat
  BY ConsolasAssumption, FS_RemoveElement, FS_CardinalityType
<1>2. IsFiniteSet(tomados) /\ Cardinality(tomados) <= Cardinality(otras)
  <2> DEFINE f == [d \in otras |-> descriptor[d]]
  <2>1. f \in [otras -> tomados] /\ \A z \in tomados : \E d \in otras : f[d] = z
    OBVIOUS
  <2> HIDE DEF otras, tomados, f
  <2> QED
    BY <1>1, <2>1, TamanoImagen
<1>3. IsFiniteSet(Numeros) /\ Cardinality(Numeros) = Cardinality(Consolas)
  BY <1>1, FS_Interval DEF Numeros
<1>4. libres # {}
  <2> SUFFICES ASSUME libres = {} PROVE FALSE
    OBVIOUS
  <2>1. Numeros \subseteq tomados
    <3> SUFFICES ASSUME NEW n \in Numeros PROVE n \in tomados
      OBVIOUS
    <3>1. PICK d \in Consolas : n = descriptor[d]
      OBVIOUS
    <3>2. n # Nadie
      BY <1>1 DEF Numeros, Nadie
    <3> QED
      BY <3>1, <3>2
  <2>2. Cardinality(Numeros) <= Cardinality(tomados)
    <3> HIDE DEF tomados
    <3> QED
      BY <1>2, <2>1, FS_Subset
  <2>3. Cardinality(tomados) \in Nat
    <3> HIDE DEF tomados
    <3> QED
      BY <1>2, FS_CardinalityType
  <2> QED
    <3> HIDE DEF tomados, otras
    <3> QED
      BY <1>1, <1>2, <1>3, <2>2, <2>3
<1>5. libres \subseteq Nat
  BY <1>1 DEF Numeros
<1>6. \E n \in libres : \A m \in libres : n <= m
  <2>1. PICK n \in libres : \A m \in libres : ~ (m < n)
    <3> HIDE DEF libres
    <3> QED
      BY <1>4, <1>5, Primero
  <2> QED
    BY <1>5, <2>1
<1>7. Min(libres) \in libres
  <2> HIDE DEF libres
  <2> QED
    BY <1>6 DEF Min
<1> QED
  BY <1>7

\* What a send on the descriptor of p does: if it is of a console, of one only.
LEMMA EnviarEfecto ==
  ASSUME Tipos, Duenios, NEW p \in Consolas, proceso[p] # "no",
         NEW codigo \in OpCodes, Enviar(p, codigo)
  PROVE  /\ pedidos' \in [Consolas -> Seq(OpCodes)]
         /\ \/ pedidos' = pedidos
            \/ \E c \in Consolas :
                 /\ Viva(c) /\ (Viva(p) => c = p)
                 /\ pedidos' = [pedidos EXCEPT ![c] = Append(pedidos[c], codigo)]
<1> DEFINE duenios == {c \in Consolas : descriptor[c] = socket_consola[p]}
<1>1. \A c, d \in duenios : c = d
  BY DEF Duenios
<1>2. Viva(p) => p \in duenios
  BY DEF Duenios
<1>3. pedidos' = [c \in Consolas |-> IF c \in duenios /\ Viva(c)
                                    THEN Append(pedidos[c], codigo) ELSE pedidos[c]]
  BY DEF Enviar
<1>4. pedidos \in [Consolas -> Seq(OpCodes)]
  BY DEF Tipos
<1>5. \A c \in Consolas : pedidos[c] \in Seq(OpCodes) /\ Append(pedidos[c], codigo) \in Seq(OpCodes)
  BY <1>4, AppendProperties
<1>6. pedidos' \in [Consolas -> Seq(OpCodes)]
  <2> HIDE DEF duenios
  <2> QED
    BY <1>3, <1>5
<1>7. CASE \E c \in duenios : Viva(c)
  <2>1. PICK c \in duenios : Viva(c)
    BY <1>7
  <2>2. \A d \in Consolas : d \in duenios /\ Viva(d) <=> d = c
    BY <1>1, <2>1
  <2>3. pedidos' = [pedidos EXCEPT ![c] = Append(pedidos[c], codigo)]
    <3> HIDE DEF duenios
    <3> QED
      BY <1>3, <1>4, <2>2
  <2> QED
    BY <1>1, <1>2, <1>6, <2>1, <2>3
<1>8. CASE ~ \E c \in duenios : Viva(c)
  <2>1. pedidos' = pedidos
    <3> HIDE DEF duenios
    <3> QED
      BY <1>3, <1>4, <1>8
  <2> QED
    BY <1>6, <2>1
<1> QED
  BY <1>7, <1>8

LEMMA CondenadosFinitos ==
  /\ IsFiniteSet(Condenados) /\ Cardinality(Condenados) \in Nat
  /\ IsFiniteSet(Condenados') /\ Cardinality(Condenados') \in Nat
<1>1. Condenados \subseteq Consolas /\ Condenados' \subseteq Consolas
  BY DEF Condenados
<1> QED
  BY <1>1, ConsolasAssumption, FS_Subset, FS_CardinalityType

\* No message but the end of a process condemns a console.
LEMMA MasPedidos ==
  ASSUME Tipos, NEW c \in Consolas, NEW codigo \in OpCodes,
         pedidos' = [pedidos EXCEPT ![c] = Append(pedidos[c], codigo)], consola' = consola
  PROVE  /\ \A d \in Consolas \ {c} : Avisada(d)' <=> Avisada(d)
         /\ codigo # "FINALIZAR_PROCESO" => (Avisada(c)' <=> Avisada(c))
<1>1. \A d \in Consolas \ {c} : pedidos'[d] = pedidos[d]
  BY DEF Tipos
<1>2. /\ pedidos'[c] = Append(pedidos[c], codigo) /\ pedidos[c] \in Seq(OpCodes)
      /\ Len(pedidos[c]) \in Nat /\ DOMAIN pedidos[c] = 1 .. Len(pedidos[c])
  BY LenProperties DEF Tipos
<1>3. /\ DOMAIN pedidos'[c] = 1 .. Len(pedidos[c]) + 1
      /\ \A i \in 1 .. Len(pedidos[c]) : pedidos'[c][i] = pedidos[c][i]
      /\ pedidos'[c][Len(pedidos[c]) + 1] = codigo
  BY <1>2, AppendProperties
<1>4. ASSUME codigo # "FINALIZAR_PROCESO"
      PROVE  (\E i \in DOMAIN pedidos'[c] : pedidos'[c][i] = "FINALIZAR_PROCESO")
               <=> \E i \in DOMAIN pedidos[c] : pedidos[c][i] = "FINALIZAR_PROCESO"
  BY <1>2, <1>3, <1>4
<1> QED
  BY <1>1, <1>4 DEF Avisada

\* Reading a message is not to be told another.
LEMMA MenosPedidos ==
  ASSUME Tipos, NEW c \in Consolas, pedidos[c] # <<>>,
         pedidos' = [pedidos EXCEPT ![c] = Tail(pedidos[c])], consola' = consola
  PROVE  /\ pedidos' \in [Consolas -> Seq(OpCodes)]
         /\ \A d \in Consolas : Avisada(d)' => Avisada(d)
<1>1. \A d \in Consolas \ {c} : pedidos'[d] = pedidos[d]
  BY DEF Tipos
<1>2. /\ pedidos'[c] = Tail(pedidos[c]) /\ pedidos[c] \in Seq(OpCodes)
      /\ Len(pedidos[c]) \in Nat /\ DOMAIN pedidos[c] = 1 .. Len(pedidos[c])
  BY LenProperties DEF Tipos
<1>3. /\ Tail(pedidos[c]) \in Seq(OpCodes) /\ DOMAIN pedidos'[c] = 1 .. Len(pedidos[c]) - 1
      /\ \A i \in 1 .. Len(pedidos[c]) - 1 : pedidos'[c][i] = pedidos[c][i + 1]
  BY <1>2, HeadTailProperties, LenProperties
<1>4. pedidos' \in [Consolas -> Seq(OpCodes)]
  BY <1>3 DEF Tipos
<1>5. Avisada(c)' => Avisada(c)
  <2> SUFFICES ASSUME NEW i \in 1 .. Len(pedidos[c]) - 1, pedidos[c][i + 1] = "FINALIZAR_PROCESO"
               PROVE  Avisada(c)
    BY <1>3 DEF Avisada
  <2>1. i + 1 \in DOMAIN pedidos[c]
    BY <1>2
  <2> QED
    BY <2>1 DEF Avisada
<1> QED
  BY <1>1, <1>4, <1>5 DEF Avisada

\* Each part of the invariant but the count: steps of the consoles.
LEMMA ConsolaSigue ==
  ASSUME Tipos, Duenios, Comienzos, NEW c \in Consolas, Consola(c)
  PROVE  Tipos' /\ Duenios' /\ Comienzos'
<1> USE DEF mensajes, kernel
<1>1. CASE Conectar(c)
  <2> DEFINE n == Min(Numeros \ {descriptor[d] : d \in Consolas})
  <2>1. descriptor[c] = Nadie /\ ~ Viva(c) /\ proceso[c] = "no" /\ c \notin programa
    BY <1>1 DEF Conectar, Comienzos, Viva
  <2>2. n \in Numeros /\ \A d \in Consolas : descriptor[d] # n
    BY <2>1, NumeroLibre
  <2>3. n # Nadie
    <3> HIDE DEF n
    <3> QED
      BY <2>2, FS_CardinalityType, ConsolasAssumption DEF Numeros, Nadie
  <2>4. descriptor' = [descriptor EXCEPT ![c] = n]
    BY <1>1 DEF Conectar
  <2> HIDE DEF n
  <2>5. /\ consola' = [consola EXCEPT ![c] = "conectada"]
        /\ UNCHANGED <<programa, pedidos, respuestas, proceso, socket_consola, bajas>>
    BY <1>1 DEF Conectar
  <2>6. Tipos'
    BY <2>2, <2>4, <2>5 DEF Tipos, Socket
  <2>7. Duenios'
    BY <2>1, <2>2, <2>3, <2>4, <2>5 DEF Duenios, Tipos, Viva
  <2>8. Comienzos'
    BY <2>1, <2>4, <2>5 DEF Comienzos, Tipos
  <2> QED
    BY <2>6, <2>7, <2>8
<1>2. CASE EnviarPrograma(c)
  <2>1. Tipos'
    BY <1>2 DEF EnviarPrograma, Tipos
  <2>2. Duenios'
    BY <1>2 DEF EnviarPrograma, Duenios, Tipos, Viva
  <2>3. Comienzos'
    BY <1>2 DEF EnviarPrograma, Comienzos, Tipos
  <2> QED
    BY <2>1, <2>2, <2>3
<1>3. CASE Responder(c)
  <2>1. pedidos' \in [Consolas -> Seq(OpCodes)]
    BY <1>3, MenosPedidos DEF Responder
  <2>2. Tipos'
    BY <1>3, <2>1 DEF Responder, Tipos
  <2>3. Duenios'
    BY <1>3 DEF Responder, Duenios, Viva
  <2>4. Comienzos'
    BY <1>3 DEF Responder, Comienzos, Tipos
  <2> QED
    BY <2>2, <2>3, <2>4
<1>4. CASE Terminar(c) \/ Morir(c)
  <2>1. /\ consola[c] # "fuera" /\ consola' = [consola EXCEPT ![c] = "terminada"]
        /\ pedidos' = [pedidos EXCEPT ![c] = <<>>]
        /\ bajas' \in {bajas, bajas + 1}
        /\ UNCHANGED <<programa, respuestas, descriptor, proceso, socket_consola>>
    BY <1>4 DEF Terminar, Morir, Viva
  <2>2. Tipos'
    BY <2>1 DEF Tipos
  <2>3. Duenios'
    BY <2>1 DEF Duenios, Viva, Tipos
  <2>4. Comienzos'
    BY <2>1 DEF Comienzos, Tipos
  <2> QED
    BY <2>2, <2>3, <2>4
<1> QED
  BY <1>1, <1>2, <1>3, <1>4 DEF Consola

\* Steps of the kernel's threads.
LEMMA KernelSigue ==
  ASSUME Tipos, Duenios, Comienzos, NEW c \in Consolas,
         Pedir \/ HiloConsola(c) \/ Bloquear(c) \/ Salir(c) \/ Finalizar(c)
  PROVE  Tipos' /\ Duenios' /\ Comienzos'
<1> USE DEF mensajes, kernel
<1>1. CASE Pedir
  <2>1. PICK p \in Consolas : proceso[p] = "bloqueado" /\ Enviar(p, "IMPRIMIR_VALOR")
    BY <1>1 DEF Pedir
  <2>2. /\ pedidos' \in [Consolas -> Seq(OpCodes)]
        /\ \/ pedidos' = pedidos
           \/ \E d \in Consolas : /\ Viva(d) 
                /\ pedidos' = [pedidos EXCEPT ![d] = Append(pedidos[d], "IMPRIMIR_VALOR")]
    BY <2>1, EnviarEfecto DEF OpCodes
  <2>3. UNCHANGED <<consola, programa, respuestas, descriptor, proceso, socket_consola, bajas>>
    BY <1>1 DEF Pedir
  <2>4. Tipos'
    BY <2>2, <2>3 DEF Tipos
  <2>5. Duenios'
    BY <2>3 DEF Duenios, Viva
  <2>6. Comienzos'
    BY <2>2, <2>3 DEF Comienzos, Viva, Tipos
  <2> QED
    BY <2>4, <2>5, <2>6
<1>2. CASE NuevoProceso(c)
  <2>1. Tipos'
    BY <1>2 DEF NuevoProceso, Tipos
  <2>2. Duenios'
    BY <1>2 DEF NuevoProceso, Duenios, Viva, Tipos
  <2>3. Comienzos'
    BY <1>2 DEF NuevoProceso, Comienzos, Tipos
  <2> QED
    BY <2>1, <2>2, <2>3
<1>3. CASE Desbloquear(c)
  <2>1. /\ respuestas[c] > 0 /\ respuestas' = [respuestas EXCEPT ![c] = respuestas[c] - 1]
        /\ UNCHANGED <<consola, programa, pedidos, descriptor, socket_consola, bajas>>
    BY <1>3 DEF Desbloquear
  <2>2. PICK p \in Consolas : /\ proceso[p] = "bloqueado"
                              /\ proceso' = [proceso EXCEPT ![p] = "activo"]
    BY <1>3 DEF Desbloquear
  <2>3. Tipos'
    BY <2>1, <2>2 DEF Tipos
  <2>4. Duenios'
    BY <2>1, <2>2 DEF Duenios, Viva, Tipos
  <2>5. Comienzos'
    BY <2>1, <2>2 DEF Comienzos, Tipos
  <2> QED
    BY <2>3, <2>4, <2>5
<1>4. CASE Cerrar(c)
  <2>1. Tipos'
    BY <1>4 DEF Cerrar, Tipos, Socket
  <2>2. Duenios'
    BY <1>4 DEF Cerrar, Duenios, Viva, Tipos
  <2>3. Comienzos'
    BY <1>4 DEF Cerrar, Comienzos, Tipos
  <2> QED
    BY <2>1, <2>2, <2>3
<1>5. CASE Bloquear(c) \/ Salir(c)
  <2>1. /\ proceso[c] = "activo"
        /\ \E estado \in {"bloqueado", "exit"} : proceso' = [proceso EXCEPT ![c] = estado]
        /\ UNCHANGED <<consola, programa, pedidos, respuestas, descriptor, socket_consola, bajas>>
    BY <1>5 DEF Bloquear, Salir
  <2>2. Tipos'
    BY <2>1 DEF Tipos
  <2>3. Duenios'
    BY <2>1 DEF Duenios, Viva, Tipos
  <2>4. Comienzos'
    BY <2>1 DEF Comienzos, Tipos
  <2> QED
    BY <2>2, <2>3, <2>4
<1>6. CASE Finalizar(c)
  <2>1. /\ proceso[c] = "exit" /\ proceso' = [proceso EXCEPT ![c] = "fin"]
        /\ Enviar(c, "FINALIZAR_PROCESO")
        /\ UNCHANGED <<consola, programa, respuestas, descriptor, socket_consola, bajas>>
    BY <1>6 DEF Finalizar
  <2>2. /\ pedidos' \in [Consolas -> Seq(OpCodes)]
        /\ \/ pedidos' = pedidos
           \/ \E d \in Consolas : /\ Viva(d) 
                /\ pedidos' = [pedidos EXCEPT ![d] = Append(pedidos[d], "FINALIZAR_PROCESO")]
    BY <2>1, EnviarEfecto DEF OpCodes
  <2>3. Tipos'
    BY <2>1, <2>2 DEF Tipos
  <2>4. Duenios'
    BY <2>1 DEF Duenios, Viva, Tipos
  <2>5. Comienzos'
    BY <2>1, <2>2 DEF Comienzos, Viva, Tipos
  <2> QED
    BY <2>3, <2>4, <2>5
<1> QED
  BY <1>1, <1>2, <1>3, <1>4, <1>5, <1>6 DEF HiloConsola

\* A step that condemns nobody costs nothing.
LEMMA NadieMasCondenado ==
  ASSUME Condenados' \subseteq Condenados, Cardinality(Condenados) <= bajas,
         bajas \in Nat, bajas' \in Nat, bajas <= bajas'
  PROVE  Cardinality(Condenados)' <= bajas'
<1>1. Cardinality(Condenados') <= Cardinality(Condenados)
  BY CondenadosFinitos, FS_Subset
<1> QED
  BY <1>1, CondenadosFinitos

\* The end of an orphan may condemn one console, in the place of its own.
LEMMA FinDeHuerfano ==
  ASSUME Tipos, Duenios, Comienzos, NEW p \in Consolas, Finalizar(p)
  PROVE  Cardinality(Condenados)' <= Cardinality(Condenados)
<1>1. /\ proceso[p] = "exit" /\ proceso' = [proceso EXCEPT ![p] = "fin"]
      /\ Enviar(p, "FINALIZAR_PROCESO") /\ consola' = consola
  BY DEF Finalizar
<1>2. /\ proceso'[p] = "fin" /\ \A d \in Consolas \ {p} : proceso'[d] = proceso[d]
  BY <1>1 DEF Tipos
<1>3. CASE pedidos' = pedidos
  <2>1. Condenados' \subseteq Condenados
    BY <1>1, <1>2, <1>3 DEF Condenados, Avisada
  <2> QED
    BY <2>1, CondenadosFinitos, FS_Subset
<1>4. ASSUME NEW c \in Consolas, Viva(c), Viva(p) => c = p,
             pedidos' = [pedidos EXCEPT ![c] = Append(pedidos[c], "FINALIZAR_PROCESO")]
      PROVE  Cardinality(Condenados)' <= Cardinality(Condenados)
  <2>1. \A d \in Consolas \ {c} : Avisada(d)' <=> Avisada(d)
    BY <1>1, <1>4, MasPedidos DEF OpCodes
  <2>2. CASE c = p
    <3>1. Condenados' \subseteq Condenados
      BY <1>2, <2>1, <2>2 DEF Condenados
    <3> QED
      BY <3>1, CondenadosFinitos, FS_Subset
  <2>3. CASE c # p
    <3>1. ~ Viva(p) /\ consola[p] \notin {"fuera", "conectada"}
      BY <1>1, <1>4, <2>3 DEF Comienzos
    <3>2. consola[p] = "terminada"
      BY <3>1 DEF Tipos, Viva
    <3>3. p \in Condenados
      BY <1>1, <3>2 DEF Condenados, Avisada
    <3>4. Condenados' \subseteq (Condenados \ {p}) \cup {c}
      BY <1>2, <2>1 DEF Condenados
    <3> DEFINE menos == Condenados \ {p}
    <3>5. IsFiniteSet(menos) /\ Cardinality(menos) = Cardinality(Condenados) - 1
      BY <3>3, CondenadosFinitos, FS_RemoveElement
    <3>6. /\ IsFiniteSet(menos \cup {c}) /\ Cardinality(menos \cup {c}) \in Nat
          /\ Cardinality(menos \cup {c}) <= Cardinality(Condenados)
      <4> HIDE DEF menos
      <4>1. /\ IsFiniteSet(menos \cup {c})
            /\ Cardinality(menos \cup {c}) =
                 IF c \in menos THEN Cardinality(menos) ELSE Cardinality(menos) + 1
        BY <3>5, FS_AddElement
      <4>2. Cardinality(Condenados) \in Nat /\ Cardinality(menos \cup {c}) \in Nat
        BY <4>1, CondenadosFinitos, FS_CardinalityType
      <4>3. CASE c \in menos
        BY <3>5, <4>1, <4>2, <4>3
      <4>4. CASE c \notin menos
        BY <3>5, <4>1, <4>2, <4>4
      <4> QED
        BY <4>3, <4>4
    <3>7. Cardinality(Condenados') <= Cardinality(menos \cup {c})
      BY <3>4, <3>6, FS_Subset
    <3> QED
      BY <3>6, <3>7, CondenadosFinitos
  <2> QED
    BY <2>2, <2>3
<1> QED
  BY <1>1, <1>3, <1>4, EnviarEfecto DEF OpCodes

\* Each step keeps the bound.
LEMMA Pagados ==
  ASSUME Invariante, Next
  PROVE  Cardinality(Condenados)' <= bajas'
<1> USE DEF mensajes, kernel
<1>1. /\ Tipos /\ Duenios /\ Comienzos /\ Cardinality(Condenados) <= bajas /\ bajas \in Nat
  BY DEF Invariante, Tipos
<1>2. CASE Pedir
  <2>1. PICK p \in Consolas : proceso[p] = "bloqueado" /\ Enviar(p, "IMPRIMIR_VALOR")
    BY <1>2 DEF Pedir
  <2>2. UNCHANGED <<consola, proceso, bajas>>
    BY <1>2 DEF Pedir
  <2>3. \/ pedidos' = pedidos
        \/ \E d \in Consolas :
             pedidos' = [pedidos EXCEPT ![d] = Append(pedidos[d], "IMPRIMIR_VALOR")]
    BY <1>1, <2>1, EnviarEfecto DEF OpCodes
  <2>4. \A d \in Consolas : Avisada(d)' <=> Avisada(d)
    <3>1. CASE pedidos' = pedidos
      BY <2>2, <3>1 DEF Avisada
    <3>2. ASSUME NEW c \in Consolas,
                 pedidos' = [pedidos EXCEPT ![c] = Append(pedidos[c], "IMPRIMIR_VALOR")]
          PROVE  \A d \in Consolas : Avisada(d)' <=> Avisada(d)
      BY <1>1, <2>2, <3>2, MasPedidos DEF OpCodes
    <3> QED
      BY <2>3, <3>1, <3>2
  <2>5. Condenados' \subseteq Condenados
    BY <2>2, <2>4 DEF Condenados
  <2> QED
    BY <1>1, <2>2, <2>5, NadieMasCondenado
<1>3. ASSUME NEW c \in Consolas, Conectar(c) \/ EnviarPrograma(c)
      PROVE  Cardinality(Condenados)' <= bajas'
  <2>1. /\ consola[c] \in {"fuera", "conectada"} /\ UNCHANGED <<pedidos, proceso, bajas>>
        /\ \E estado \in {"conectada", "espera"} : consola' = [consola EXCEPT ![c] = estado]
    BY <1>3 DEF Conectar, EnviarPrograma
  <2>2. Condenados' \subseteq Condenados
    BY <1>1, <2>1 DEF Condenados, Avisada, Tipos
  <2> QED
    BY <1>1, <2>1, <2>2, NadieMasCondenado
<1>4. ASSUME NEW c \in Consolas, Responder(c)
      PROVE  Cardinality(Condenados)' <= bajas'
  <2>1. \A d \in Consolas : Avisada(d)' => Avisada(d)
    BY <1>1, <1>4, MenosPedidos DEF Responder
  <2>2. UNCHANGED <<proceso, bajas>>
    BY <1>4 DEF Responder
  <2>3. Condenados' \subseteq Condenados
    BY <2>1, <2>2 DEF Condenados
  <2> QED
    BY <1>1, <2>2, <2>3, NadieMasCondenado
<1>5. ASSUME NEW c \in Consolas, Terminar(c)
      PROVE  Cardinality(Condenados)' <= bajas'
  <2>1. /\ pedidos[c] \in Seq(OpCodes) /\ pedidos[c] # <<>>
        /\ Head(pedidos[c]) = "FINALIZAR_PROCESO" /\ UNCHANGED <<proceso, bajas>>
    BY <1>1, <1>5 DEF Terminar, Tipos
  <2>2. 1 \in DOMAIN pedidos[c] /\ pedidos[c][1] = "FINALIZAR_PROCESO"
    BY <2>1, EmptySeq, LenProperties, HeadTailProperties
  <2>3. Avisada(c)
    BY <2>2 DEF Avisada
  <2>4. \A d \in Consolas \ {c} : consola'[d] = consola[d] /\ pedidos'[d] = pedidos[d]
    BY <1>1, <1>5 DEF Terminar, Tipos
  <2>5. Condenados' \subseteq Condenados
    BY <2>1, <2>3, <2>4 DEF Condenados, Avisada
  <2> QED
    BY <1>1, <2>1, <2>5, NadieMasCondenado
<1>6. ASSUME NEW c \in Consolas, Morir(c)
      PROVE  Cardinality(Condenados)' <= bajas'
  <2>1. \A d \in Consolas \ {c} : consola'[d] = consola[d] /\ pedidos'[d] = pedidos[d]
    BY <1>1, <1>6 DEF Morir, Tipos
  <2>2. proceso' = proceso /\ bajas' = bajas + 1
    BY <1>6 DEF Morir
  <2>3. Condenados' \subseteq Condenados \cup {c}
    BY <2>1, <2>2 DEF Condenados, Avisada
  <2>4. /\ IsFiniteSet(Condenados \cup {c}) /\ Cardinality(Condenados \cup {c}) \in Nat
        /\ \/ Cardinality(Condenados \cup {c}) = Cardinality(Condenados)
           \/ Cardinality(Condenados \cup {c}) = Cardinality(Condenados) + 1
    BY CondenadosFinitos, FS_AddElement, FS_CardinalityType
  <2>5. Cardinality(Condenados') <= Cardinality(Condenados \cup {c})
    BY <2>3, <2>4, FS_Subset
  <2> QED
    BY <1>1, <2>2, <2>4, <2>5, CondenadosFinitos
<1>7. ASSUME NEW c \in Consolas, HiloConsola(c) \/ Bloquear(c) \/ Salir(c)
      PROVE  Cardinality(Condenados)' <= bajas'
  <2>1. UNCHANGED <<consola, pedidos, bajas>>
    BY <1>7 DEF HiloConsola, NuevoProceso, Desbloquear, Cerrar, Bloquear, Salir
  <2>2. \A d \in Consolas : proceso'[d] # "fin" => proceso[d] # "fin"
    <3>1. CASE NuevoProceso(c)
      <4>1. proceso[c] = "no" /\ proceso' = [proceso EXCEPT ![c] = "activo"]
        BY <1>1, <3>1 DEF NuevoProceso, Comienzos
      <4> QED
        BY <1>1, <4>1 DEF Tipos
    <3>2. CASE Desbloquear(c)
      <4>1. \E p \in Consolas : /\ proceso[p] = "bloqueado"
                                /\ proceso' = [proceso EXCEPT ![p] = "activo"]
        BY <3>2 DEF Desbloquear
      <4> QED
        BY <1>1, <4>1 DEF Tipos
    <3>3. CASE Cerrar(c)
      BY <3>3 DEF Cerrar
    <3>4. CASE Bloquear(c) \/ Salir(c)
      BY <1>1, <3>4 DEF Bloquear, Salir, Tipos
    <3> QED
      BY <1>7, <3>1, <3>2, <3>3, <3>4 DEF HiloConsola
  <2>3. Condenados' \subseteq Condenados
    BY <2>1, <2>2 DEF Condenados, Avisada
  <2> QED
    BY <1>1, <2>1, <2>3, NadieMasCondenado
<1>8. ASSUME NEW p \in Consolas, Finalizar(p)
      PROVE  Cardinality(Condenados)' <= bajas'
  <2>1. bajas' = bajas
    BY <1>8 DEF Finalizar
  <2>2. Cardinality(Condenados)' <= Cardinality(Condenados)
    BY <1>1, <1>8, FinDeHuerfano
  <2> QED
    BY <1>1, <2>1, <2>2, CondenadosFinitos
<1> QED
  BY <1>2, <1>3, <1>4, <1>5, <1>6, <1>7, <1>8 DEF Next, Consola

LEMMA Inductiva == Invariante /\ [Next]_vars => Invariante'
<1> SUFFICES ASSUME Invariante, [Next]_vars PROVE Invariante'
  OBVIOUS
<1>1. CASE Next
  <2>1. Tipos' /\ Duenios' /\ Comienzos'
    <3>1. ASSUME NEW c \in Consolas, Consola(c)
          PROVE  Tipos' /\ Duenios' /\ Comienzos'
      BY <3>1, ConsolaSigue DEF Invariante
    <3>2. ASSUME NEW c \in Consolas, HiloConsola(c) \/ Bloquear(c) \/ Salir(c) \/ Finalizar(c)
          PROVE  Tipos' /\ Duenios' /\ Comienzos'
      BY <3>2, KernelSigue DEF Invariante
    <3>3. ASSUME Pedir
          PROVE  Tipos' /\ Duenios' /\ Comienzos'
      <4>1. PICK c \in Consolas : proceso[c] = "bloqueado"
        BY <3>3 DEF Pedir
      <4> QED
        BY <3>3, KernelSigue DEF Invariante
    <3> QED
      BY <1>1, <3>1, <3>2, <3>3 DEF Next
  <2> QED
    BY <1>1, <2>1, Pagados DEF Invariante
<1>2. CASE UNCHANGED vars
  BY <1>2 DEF Invariante, Tipos, Duenios, Comienzos, Condenados, Avisada, Viva,
              vars, mensajes, kernel
<1> QED
  BY <1>1, <1>2

LEMMA AlPrincipio == Init => Invariante
<1> SUFFICES ASSUME Init PROVE Invariante
  OBVIOUS
<1> USE DEF Init
<1>1. Tipos
  BY DEF Tipos, Socket
<1>2. Duenios /\ Comienzos
  BY DEF Duenios, Comienzos, Viva
<1>3. Condenados = {}
  BY DEF Condenados, Avisada
<1> QED
  BY <1>1, <1>2, <1>3, FS_EmptySet DEF Invariante

\* An orphan is condemned: its console is gone and it has not ended.
LEMMA HuerfanosCondenados == Invariante => HuerfanosAcotados
<1> SUFFICES ASSUME Invariante PROVE HuerfanosAcotados
  OBVIOUS
<1>1. Huerfanos \subseteq Condenados
  BY DEF Invariante, Tipos, Comienzos, Huerfanos, Condenados, Avisada, Viva
<1>2. Cardinality(Huerfanos) <= Cardinality(Condenados) /\ Cardinality(Huerfanos) \in Nat
  BY <1>1, CondenadosFinitos, FS_Subset, FS_CardinalityType
<1> QED
  BY <1>2, CondenadosFinitos DEF Invariante, Tipos, HuerfanosAcotados

-----------------------------------------------------------------------------

\* The descriptors, the processes and the messages keep their types, and no number
\* is open twice (the accept of esperar_cliente, conexion_consola).
THEOREM DescriptoresCorrectos == Spec => []Invariante
<1> QED
  BY AlPrincipio, Inductiva, PTL DEF Spec

\* Each console that dies costs one console to one process at most, whoever inherits
\* its descriptor (finalizador_procesos, manejador_estado_blocked_screen).
THEOREM HuerfanosCorrectos == Spec => []HuerfanosAcotados
<1> QED
  BY DescriptoresCorrectos, HuerfanosCondenados, PTL
=============================================================================
