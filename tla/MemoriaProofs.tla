--------------------------- MODULE MemoriaProofs ----------------------------
(***************************************************************************)
(* What TLAPS proves of Memoria, for any processes, sizes, frames, swap    *)
(* file, algorithm and degree of multiprogramming; of the frames, with a   *)
(* degree of one.                                                          *)
(***************************************************************************)
EXTENDS Memoria, Conteo

-----------------------------------------------------------------------------
(* The inductive invariant *)

\* What the tables of a process are in each moment of its life.
TablaDe(p) ==
  /\ vida[p] = "sin_crear" =>
       Len(tabla[p]) = 0 /\ frames_ocupados[p] = <<>> /\ reintento[p] = 0 /\ escrito[p] = <<>>
  /\ vida[p] # "sin_crear" => Len(tabla[p]) = Tamanio[p]
  /\ vida[p] \in {"listo", "bloqueado"} => Len(escrito[p]) = Tamanio[p]
  /\ vida[p] = "bloqueado" => reintento[p] \in 1 .. Tamanio[p]
  /\ vida[p] = "listo" => reintento[p] \in 0 .. Tamanio[p]

\* The processes to release are those that ended, and each is released once.
PorLiberar ==
  /\ \A i \in DOMAIN por_liberar : vida[por_liberar[i]] = "finalizado"
  /\ \A i, j \in DOMAIN por_liberar : por_liberar[i] = por_liberar[j] => i = j

\* The release goes page by page through the first of them.
Liberando ==
  /\ liberador # Libre => /\ por_liberar # <<>> /\ liberador.pid = Head(por_liberar)
                          /\ liberador.pagina = liberadas + 1
                          /\ liberador.pagina \in 1 .. Tamanio[liberador.pid]
  /\ por_liberar = <<>> => liberadas = 0
  /\ por_liberar # <<>> => liberadas < Tamanio[Head(por_liberar)]

\* The cpu's access and the last write name pages that exist.
Accesos ==
  /\ acceso # Libre => /\ vida[acceso.pid] = "listo" /\ reintento[acceso.pid] = 0
                       /\ acceso.pagina \in 1 .. Tamanio[acceso.pid]
  /\ ultima_escritura # Libre =>
       /\ vida[ultima_escritura.pid] # "sin_crear"
       /\ ultima_escritura.pagina \in 1 .. Tamanio[ultima_escritura.pid]

InvTablas == (\A p \in Procesos : TablaDe(p)) /\ PorLiberar /\ Liberando /\ Accesos

\* The requests of frames and the processes blocked are the same, one to one, and
\* the page asked for is not loaded.
Pedidos ==
  /\ \A i \in DOMAIN pendientes :
       /\ vida[pendientes[i].pid] = "bloqueado"
       /\ pendientes[i].pagina = reintento[pendientes[i].pid]
  /\ \A i, j \in DOMAIN pendientes : pendientes[i].pid = pendientes[j].pid => i = j
  /\ \A p \in Procesos : buscador # Libre /\ buscador.pid = p =>
       /\ vida[p] = "bloqueado" /\ buscador.pagina = reintento[p]
       /\ \A i \in DOMAIN pendientes : pendientes[i].pid # p
       /\ Cardinality(Presentes(p)) < MARCOS_POR_PROCESO
  /\ \A p \in Procesos : vida[p] = "bloqueado" =>
       /\ reintento[p] \notin Presentes(p)
       /\ viva => \/ \E i \in DOMAIN pendientes : pendientes[i].pid = p
                  \/ buscador # Libre /\ buscador.pid = p

\* The queue of a live process and the pages it has loaded.
EnCola(p) ==
  /\ ToSet(frames_ocupados[p]) = Presentes(p) /\ IsInjective(frames_ocupados[p])
  /\ Len(frames_ocupados[p]) <= MARCOS_POR_PROCESO

InvPaginas == InvTablas /\ Pedidos /\ ResidentesEnCola /\ FaltaUtil

-----------------------------------------------------------------------------
(* Constants and operators *)

LEMMA PaginasDeProcesos ==
  /\ \A p \in Procesos : /\ Tamanio[p] \in Nat \ {0} /\ 1 .. Tamanio[p] \subseteq Paginas
                         /\ Tamanio[p] <= Cardinality(Paginas)
  /\ Paginas \subseteq Nat \ {0} /\ IsFiniteSet(Paginas) /\ Cardinality(Paginas) \in Nat
<1> USE MemoriaAssumption
<1>1. \A p \in Procesos : Tamanio[p] \in Nat \ {0} /\ 1 .. Tamanio[p] \subseteq Paginas
  BY DEF Paginas
<1>2. \A n \in Nat : IsFiniteSet(1 .. n) /\ Cardinality(1 .. n) = n
  <2> TAKE n \in Nat
  <2>1. IsFiniteSet(1 .. n) /\ Cardinality(1 .. n) = IF 1 > n THEN 0 ELSE n - 1 + 1
    BY FS_Interval
  <2> QED
    BY <2>1
<1>3. IsFiniteSet(Paginas)
  <2> DEFINE T == {1 .. Tamanio[p] : p \in Procesos}
             f == [p \in Procesos |-> 1 .. Tamanio[p]]
  <2>1. f \in Surjection(Procesos, T)
    BY DEF Surjection
  <2>2. IsFiniteSet(T)
    BY <2>1, FS_Surjection
  <2>3. \A x \in T : IsFiniteSet(x)
    BY <1>2
  <2> HIDE DEF T
  <2>4. IsFiniteSet(UNION T)
    BY <2>2, <2>3, FS_UNION
  <2> QED
    BY <2>4 DEF T, Paginas
<1>4. \A p \in Procesos : Tamanio[p] <= Cardinality(Paginas)
  <2> TAKE p \in Procesos
  <2>1. Cardinality(1 .. Tamanio[p]) <= Cardinality(Paginas)
    BY <1>1, <1>3, FS_Subset
  <2> QED
    BY <1>1, <1>2, <2>1
<1> QED
  BY <1>1, <1>3, <1>4, FS_CardinalityType DEF Paginas

LEMMA MarcosDeMemoria ==
  /\ CantidadMarcos \in Nat \ {0} /\ 0 \in Marcos /\ Marcos \subseteq Nat
  /\ CantidadMarcos >= MARCOS_POR_PROCESO
  /\ IsFiniteSet(Marcos) /\ Cardinality(Marcos) = CantidadMarcos
<1>1. \A g, m \in Nat \ {0} : g * m >= m /\ m >= 1
  OBVIOUS
<1>2. CantidadMarcos \in Nat /\ CantidadMarcos >= MARCOS_POR_PROCESO
        /\ MARCOS_POR_PROCESO \in Nat \ {0}
  BY <1>1, MemoriaAssumption
<1>3. /\ IsFiniteSet(0 .. CantidadMarcos - 1)
      /\ Cardinality(0 .. CantidadMarcos - 1)
           = IF 0 > CantidadMarcos - 1 THEN 0 ELSE CantidadMarcos - 1 - 0 + 1
  BY <1>2, FS_Interval
<1> QED
  BY <1>2, <1>3 DEF Marcos

LEMMA MinimoNatural ==
  ASSUME NEW A \in SUBSET Nat, A # {}
  PROVE  Min(A) \in A /\ \A x \in A : Min(A) <= x
<1>1. \E i \in A : \A j \in A : i <= j
  BY Primero
<1> QED
  BY Zenon, <1>1 DEF Min

\* The search of a victim finds one in any queue that is not empty.
LEMMA VictimaEnCola ==
  ASSUME NEW a \in Algoritmos, NEW cola \in Seq(Registro), cola # <<>>
  PROVE  Victima(a, cola) \in DOMAIN cola
<1>1. DOMAIN cola # {} /\ DOMAIN cola \subseteq Nat
  BY EmptySeq
<1>2. \A i \in DOMAIN cola : Clase(a, cola[i]) \in Nat
  <2> TAKE i \in DOMAIN cola
  <2>1. cola[i] \in Registro
    OBVIOUS
  <2> QED
    BY <2>1 DEF Registro, Clase
<1> DEFINE C == {Clase(a, cola[i]) : i \in DOMAIN cola}
           D == {i \in DOMAIN cola : \A j \in DOMAIN cola :
                   Clase(a, cola[i]) <= Clase(a, cola[j])}
<1>3. PICK c \in C : \A d \in C : ~ (d < c)
  <2>1. C \subseteq Nat /\ C # {}
    BY <1>1, <1>2
  <2> HIDE DEF C
  <2> QED
    BY <2>1, Primero
<1>4. PICK i \in DOMAIN cola : c = Clase(a, cola[i])
  OBVIOUS
<1>5. i \in D
  <2> SUFFICES ASSUME NEW j \in DOMAIN cola
               PROVE  Clase(a, cola[i]) <= Clase(a, cola[j])
    OBVIOUS
  <2>1. ~ (Clase(a, cola[j]) < c)
    BY <1>3
  <2> QED
    BY <1>2, <1>4, <2>1
<1>6. D \subseteq Nat /\ D # {}
  BY <1>1, <1>5
<1>7. Victima(a, cola) = Min(D)
  BY DEF Victima
<1>8. D \subseteq DOMAIN cola
  OBVIOUS
<1> HIDE DEF D
<1> QED
  BY Zenon, <1>6, <1>7, <1>8, MinimoNatural

LEMMA EscribirSwapTipo ==
  ASSUME NEW i \in Nat, NEW c \in Contenidos
  PROVE  EscribirSwap(i, c) \in Seq(Contenidos)
<1>1. Ceros \in Contenidos
  BY DEF Contenidos
<1>2. EscribirSwap(i, c) = [k \in 1 .. i + 1 |-> IF k = i + 1 THEN c ELSE Ceros]
  BY DEF EscribirSwap
<1>3. i + 1 \in Nat
  OBVIOUS
<1> HIDE DEF EscribirSwap
<1>4. \A k \in 1 .. i + 1 : (IF k = i + 1 THEN c ELSE Ceros) \in Contenidos
  BY <1>1
<1> QED
  BY <1>2, <1>3, <1>4, IsASeq

LEMMA EnSwapTipo ==
  ASSUME swap \in Seq(Contenidos), NEW i
  PROVE  EnSwap(i) \in Contenidos
BY DEF EnSwap, Contenidos

-----------------------------------------------------------------------------
(* What each action does to the tables *)

\* The types, apart: the values of two elements go together.
TipoTablas ==
  /\ tabla \in [Procesos -> Seq(Registro)]
  /\ frames_ocupados \in [Procesos -> Seq(Paginas)]
  /\ bitmap \subseteq Marcos
  /\ pendientes \in Seq(Pagina)
  /\ buscador \in {Libre} \cup [pid : Procesos, pagina : Paginas,
                                marco : Marcos, leido : SUBSET Marcos]
  /\ liberador \in {Libre} \cup [pid : Procesos, pagina : Paginas,
                                 leido : SUBSET Marcos]
  /\ acceso \in {Libre} \cup [pid : Procesos, pagina : Paginas, marco : Marcos]
  /\ por_liberar \in Seq(Procesos)
  /\ liberadas \in Nat

\* Table u is table t but for the registro of page j of p.
OtroRegistro(u, t, p, j, r) ==
  /\ u \in [Procesos -> Seq(Registro)]
  /\ \A q \in Procesos : Len(u[q]) = Len(t[q])
  /\ u[p][j] = r
  /\ \A q \in Procesos : \A k \in 1 .. Len(t[q]) : q # p \/ k # j => u[q][k] = t[q][k]

LEMMA CambiarRegistro ==
  ASSUME NEW t \in [Procesos -> Seq(Registro)], NEW p \in Procesos,
         NEW j \in 1 .. Len(t[p]), NEW r \in Registro
  PROVE  OtroRegistro([t EXCEPT ![p] = [t[p] EXCEPT ![j] = r]], t, p, j, r)
<1> DEFINE s == [t[p] EXCEPT ![j] = r]
<1>1. t[p] \in Seq(Registro)
  OBVIOUS
<1>2. /\ s \in Seq(Registro) /\ Len(s) = Len(t[p])
      /\ \A k \in 1 .. Len(t[p]) : s[k] = IF k = j THEN r ELSE t[p][k]
  BY <1>1, ExceptSeq
<1> HIDE DEF s
<1>3. OtroRegistro([t EXCEPT ![p] = s], t, p, j, r)
  BY <1>2 DEF OtroRegistro
<1> QED
  BY <1>3 DEF s

LEMMA DominiosDeTabla ==
  ASSUME TipoTablas, NEW p \in Procesos
  PROVE  /\ tabla[p] \in Seq(Registro) /\ Len(tabla[p]) \in Nat
         /\ DOMAIN tabla[p] = 1 .. Len(tabla[p])
         /\ \A j \in 1 .. Len(tabla[p]) : tabla[p][j] \in Registro
         /\ Presentes(p) = {j \in 1 .. Len(tabla[p]) : tabla[p][j].presencia = 1}
         /\ frames_ocupados[p] \in Seq(Paginas) /\ Len(frames_ocupados[p]) \in Nat
         /\ DOMAIN frames_ocupados[p] = 1 .. Len(frames_ocupados[p])
BY LenProperties DEF TipoTablas, Presentes

\* The records of the threads, when they are doing something.
LEMMA HilosTrabajando ==
  ASSUME TipoTablas
  PROVE  /\ buscador # Libre => /\ buscador.pid \in Procesos /\ buscador.pagina \in Paginas
                                /\ buscador.marco \in Marcos /\ buscador.leido \subseteq Marcos
         /\ liberador # Libre => /\ liberador.pid \in Procesos /\ liberador.pagina \in Paginas
                                 /\ liberador.leido \subseteq Marcos
         /\ acceso # Libre => /\ acceso.pid \in Procesos /\ acceso.pagina \in Paginas
                              /\ acceso.marco \in Marcos
         /\ pendientes # <<>> => /\ Head(pendientes) \in Pagina
                                 /\ Head(pendientes).pid \in Procesos
                                 /\ Head(pendientes).pagina \in Paginas
                                 /\ Head(pendientes) = pendientes[1] /\ 1 \in DOMAIN pendientes
         /\ por_liberar # <<>> => /\ Head(por_liberar) \in Procesos
                                  /\ Head(por_liberar) = por_liberar[1]
                                  /\ 1 \in DOMAIN por_liberar
<1>1. pendientes # <<>> => /\ Head(pendientes) \in Pagina
                           /\ Head(pendientes) = pendientes[1] /\ 1 \in DOMAIN pendientes
  BY EmptySeq, LenProperties, HeadTailProperties DEF TipoTablas
<1>2. por_liberar # <<>> => /\ Head(por_liberar) \in Procesos
                            /\ Head(por_liberar) = por_liberar[1] /\ 1 \in DOMAIN por_liberar
  BY EmptySeq, LenProperties, HeadTailProperties DEF TipoTablas
<1>3. \A x \in Pagina : x.pid \in Procesos /\ x.pagina \in Paginas
  BY DEF Pagina
<1> QED
  BY <1>1, <1>2, <1>3 DEF TipoTablas

\* The step changes no length, bit of presence, frame nor position in the swap file.
MismosBits == \A q \in Procesos :
  /\ Len(tabla[q])' = Len(tabla[q])
  /\ \A k \in 1 .. Len(tabla[q]) : /\ tabla'[q][k].presencia = tabla[q][k].presencia
                                   /\ tabla'[q][k].frame = tabla[q][k].frame
                                   /\ tabla'[q][k].posicion_swap = tabla[q][k].posicion_swap

CambiaRegistro(p, j, r) == tabla' = [tabla EXCEPT ![p] = [tabla[p] EXCEPT ![j] = r]]

LEMMA CambioDeBits ==
  ASSUME TipoTablas, NEW p \in Procesos, NEW j \in 1 .. Len(tabla[p]), NEW r \in Registro,
         CambiaRegistro(p, j, r)
  PROVE  /\ tabla' \in [Procesos -> Seq(Registro)]
         /\ \A q \in Procesos : Len(tabla[q])' = Len(tabla[q])
         /\ \A q \in Procesos : \A k \in 1 .. Len(tabla[q]) :
              tabla'[q][k] = IF q = p /\ k = j THEN r ELSE tabla[q][k]
<1>1. OtroRegistro(tabla', tabla, p, j, r)
  BY Zenon, CambiarRegistro DEF TipoTablas, CambiaRegistro
<1> QED
  BY <1>1 DEF OtroRegistro

LEMMA TablaLiberarPagina ==
  ASSUME TipoTablas, InvTablas, LiberarPagina
  PROVE  /\ tabla' \in [Procesos -> Seq(Registro)]
         /\ \A q \in Procesos : Len(tabla[q])' = Len(tabla[q])
         /\ \A q \in Procesos : \A k \in 1 .. Len(tabla[q]) :
              /\ tabla'[q][k].presencia =
                   IF q = Head(por_liberar) /\ k = liberadas + 1 THEN 0 ELSE tabla[q][k].presencia
              /\ tabla'[q][k].frame = tabla[q][k].frame
              /\ tabla'[q][k].posicion_swap = tabla[q][k].posicion_swap
         /\ Head(por_liberar) \in Procesos /\ vida[Head(por_liberar)] = "finalizado"
         /\ liberadas + 1 \in 1 .. Len(tabla[Head(por_liberar)])
<1> DEFINE p == Head(por_liberar)
           j == liberadas + 1
           r == [tabla[p][j] EXCEPT !.presencia = 0]
<1>1. p \in Procesos /\ por_liberar # <<>> /\ p = por_liberar[1] /\ 1 \in DOMAIN por_liberar
  BY HilosTrabajando DEF LiberarPagina
<1>2. vida[p] = "finalizado" /\ liberadas < Tamanio[p] /\ liberadas \in Nat
        /\ Len(tabla[p]) = Tamanio[p]
  BY <1>1 DEF InvTablas, PorLiberar, Liberando, TablaDe, TipoTablas
<1>3. j \in 1 .. Len(tabla[p])
  BY <1>1, <1>2, PaginasDeProcesos
<1>4. tabla[p][j] \in Registro
  BY <1>1, <1>3, DominiosDeTabla
<1>5. /\ r \in Registro /\ r.presencia = 0 /\ r.frame = tabla[p][j].frame
      /\ r.posicion_swap = tabla[p][j].posicion_swap
  BY <1>4 DEF Registro
<1>6. CambiaRegistro(p, j, r)
  BY <1>1, <1>2, <1>3 DEF LiberarPagina, TipoTablas, CambiaRegistro
<1> HIDE DEF r
<1>7. /\ tabla' \in [Procesos -> Seq(Registro)]
      /\ \A q \in Procesos : Len(tabla[q])' = Len(tabla[q])
      /\ \A q \in Procesos : \A k \in 1 .. Len(tabla[q]) :
           tabla'[q][k] = IF q = p /\ k = j THEN r ELSE tabla[q][k]
  BY <1>1, <1>3, <1>5, <1>6, CambioDeBits
<1> QED
  BY <1>1, <1>2, <1>3, <1>5, <1>7

LEMMA TablaObtenerMarco ==
  ASSUME TipoTablas, InvTablas, NEW p \in Procesos, NEW j \in 1 .. Tamanio[p],
         ObtenerMarco(p, j)
  PROVE  /\ tabla' \in [Procesos -> Seq(Registro)] /\ MismosBits
         /\ j \in 1 .. Len(tabla[p])
<1> DEFINE r == [tabla[p][j] EXCEPT !.uso = 1]
<1>1. Len(tabla[p]) = Tamanio[p] /\ j \in 1 .. Len(tabla[p])
  BY DEF ObtenerMarco, InvTablas, TablaDe
<1>2. tabla[p][j] \in Registro
  BY <1>1, DominiosDeTabla
<1>3. /\ r \in Registro /\ r.presencia = tabla[p][j].presencia /\ r.frame = tabla[p][j].frame
      /\ r.posicion_swap = tabla[p][j].posicion_swap
  BY <1>2 DEF Registro
<1>4. CASE tabla' = tabla
  BY <1>1, <1>4 DEF TipoTablas, MismosBits
<1>5. CASE tabla' # tabla
  <2>1. CambiaRegistro(p, j, r)
    BY <1>1, <1>5 DEF ObtenerMarco, TipoTablas, CambiaRegistro
  <2> HIDE DEF r
  <2>2. /\ tabla' \in [Procesos -> Seq(Registro)]
        /\ \A q \in Procesos : Len(tabla[q])' = Len(tabla[q])
        /\ \A q \in Procesos : \A k \in 1 .. Len(tabla[q]) :
             tabla'[q][k] = IF q = p /\ k = j THEN r ELSE tabla[q][k]
    BY <1>1, <1>3, <2>1, CambioDeBits
  <2> QED
    BY Zenon, <1>1, <1>3, <2>2 DEF MismosBits
<1> QED
  BY <1>4, <1>5

LEMMA TablaEscribir ==
  ASSUME TipoTablas, InvTablas, NEW v \in Valores, Escribir(v)
  PROVE  tabla' \in [Procesos -> Seq(Registro)] /\ MismosBits
<1> DEFINE p == acceso.pid
           j == acceso.pagina
           r == [tabla[p][j] EXCEPT !.modificado = 1, !.uso = 1]
<1>1. p \in Procesos /\ Len(tabla[p]) = Tamanio[p] /\ j \in 1 .. Len(tabla[p])
  BY HilosTrabajando DEF Escribir, InvTablas, TablaDe, Accesos
<1>2. tabla[p][j] \in Registro
  BY <1>1, DominiosDeTabla
<1>3. /\ r \in Registro /\ r.presencia = tabla[p][j].presencia /\ r.frame = tabla[p][j].frame
      /\ r.posicion_swap = tabla[p][j].posicion_swap
  BY Zenon, <1>2 DEF Registro
<1>4. tabla' = [tabla EXCEPT ![p][j].modificado = 1, ![p][j].uso = 1]
  BY DEF Escribir
<1>5. CambiaRegistro(p, j, r)
  <2>1. tabla \in [Procesos -> Seq(Registro)] /\ j \in DOMAIN tabla[p]
    BY <1>1, DominiosDeTabla DEF TipoTablas
  <2> DEFINE r1 == [tabla[p][j] EXCEPT !.modificado = 1]
             t1 == [tabla EXCEPT ![p] = [tabla[p] EXCEPT ![j] = r1]]
  <2>2. tabla' = [t1 EXCEPT ![p] = [t1[p] EXCEPT ![j] = [t1[p][j] EXCEPT !.uso = 1]]]
    BY <1>4
  <2>3. DOMAIN t1 = Procesos /\ t1[p] = [tabla[p] EXCEPT ![j] = r1] /\ t1[p][j] = r1
    BY Zenon, <1>1, <2>1
  <2>4. [r1 EXCEPT !.uso = 1] = r
    OBVIOUS
  <2>5. [[tabla[p] EXCEPT ![j] = r1] EXCEPT ![j] = r] = [tabla[p] EXCEPT ![j] = r]
    BY <2>1
  <2>6. tabla' = [t1 EXCEPT ![p] = [tabla[p] EXCEPT ![j] = r]]
    BY Zenon, <2>2, <2>3, <2>4, <2>5
  <2> HIDE DEF r1, r
  <2> QED
    BY Zenon, <1>1, <2>1, <2>6 DEF CambiaRegistro
<1> HIDE DEF r, p, j
<1>6. /\ tabla' \in [Procesos -> Seq(Registro)]
      /\ \A q \in Procesos : Len(tabla[q])' = Len(tabla[q])
      /\ \A q \in Procesos : \A k \in 1 .. Len(tabla[q]) :
           tabla'[q][k] = IF q = p /\ k = j THEN r ELSE tabla[q][k]
  BY <1>1, <1>3, <1>5, CambioDeBits
<1> QED
  BY <1>1, <1>3, <1>6 DEF MismosBits

LEMMA TablaLeer ==
  ASSUME TipoTablas, Leer
  PROVE  tabla' \in [Procesos -> Seq(Registro)] /\ MismosBits
<1>1. CASE tabla' = tabla
  BY <1>1 DEF TipoTablas, MismosBits
<1>2. CASE tabla' # tabla
  <2>1. PICK p \in Procesos : \E j \in DOMAIN tabla[p] : tabla' = [tabla EXCEPT ![p][j].uso = 1]
    BY <1>2 DEF Leer
  <2>0. PICK j \in DOMAIN tabla[p] : tabla' = [tabla EXCEPT ![p][j].uso = 1]
    BY Zenon, <2>1
  <2> DEFINE r == [tabla[p][j] EXCEPT !.uso = 1]
  <2>2. j \in 1 .. Len(tabla[p]) /\ tabla[p][j] \in Registro
    BY DominiosDeTabla
  <2>3. /\ r \in Registro /\ r.presencia = tabla[p][j].presencia
        /\ r.frame = tabla[p][j].frame /\ r.posicion_swap = tabla[p][j].posicion_swap
    BY <2>2 DEF Registro
  <2>4. CambiaRegistro(p, j, r)
    BY <2>0 DEF TipoTablas, CambiaRegistro
  <2> HIDE DEF r
  <2>5. /\ tabla' \in [Procesos -> Seq(Registro)]
        /\ \A q \in Procesos : Len(tabla[q])' = Len(tabla[q])
        /\ \A q \in Procesos : \A k \in 1 .. Len(tabla[q]) :
             tabla'[q][k] = IF q = p /\ k = j THEN r ELSE tabla[q][k]
    BY <2>2, <2>3, <2>4, CambioDeBits
  <2> QED
    BY <2>2, <2>3, <2>5 DEF MismosBits
<1> QED
  BY <1>1, <1>2

LEMMA TablaCrearEstructuras ==
  ASSUME TipoTablas, puntero_swap \in Nat, NEW p \in Procesos, CrearEstructuras(p)
  PROVE  /\ tabla' \in [Procesos -> Seq(Registro)]
         /\ Len(tabla[p])' = Tamanio[p]
         /\ \A k \in 1 .. Tamanio[p] : /\ tabla'[p][k].presencia = 0
                                        /\ tabla'[p][k].posicion_swap = puntero_swap + k - 1
         /\ \A q \in Procesos \ {p} : tabla'[q] = tabla[q]
<1> DEFINE r(j) == [frame |-> 0, modificado |-> 0, uso |-> 0, presencia |-> 0,
                    posicion_swap |-> puntero_swap + j - 1]
           s == [j \in 1 .. Tamanio[p] |-> r(j)]
<1>1. Tamanio[p] \in Nat \ {0} /\ 0 \in Marcos
  BY PaginasDeProcesos, MarcosDeMemoria
<1>2. \A j \in 1 .. Tamanio[p] : /\ r(j) \in Registro /\ r(j).presencia = 0
                                 /\ r(j).posicion_swap = puntero_swap + j - 1
  <2> TAKE j \in 1 .. Tamanio[p]
  <2>1. puntero_swap + j - 1 \in Nat
    BY <1>1
  <2> QED
    BY <1>1, <2>1 DEF Registro
<1>3. tabla' = [tabla EXCEPT ![p] = s]
  BY DEF CrearEstructuras
<1> HIDE DEF r
<1>4. s \in Seq(Registro) /\ Len(s) = Tamanio[p] /\ \A j \in 1 .. Tamanio[p] : s[j] = r(j)
  <2>1. s \in Seq(Registro)
    BY <1>1, <1>2, IsASeq
  <2>2. DOMAIN s = 1 .. Tamanio[p] /\ Tamanio[p] \in Nat
    BY <1>1
  <2>3. DOMAIN s = 1 .. Len(s) /\ Len(s) \in Nat
    BY Zenon, <2>1, LenProperties
  <2> HIDE DEF s
  <2>4. Len(s) = Tamanio[p]
    BY <2>2, <2>3
  <2> QED
    BY Zenon, <2>1, <2>4 DEF s
<1> HIDE DEF s
<1> QED
  BY <1>1, <1>2, <1>3, <1>4 DEF TipoTablas

LEMMA TablaCargarPagina ==
  ASSUME TipoTablas, InvTablas, Pedidos, CargarPagina
  PROVE  /\ tabla' \in [Procesos -> Seq(Registro)]
         /\ \A q \in Procesos : Len(tabla[q])' = Len(tabla[q])
         /\ \A q \in Procesos : \A k \in 1 .. Len(tabla[q]) :
              /\ tabla'[q][k].presencia = IF q = buscador.pid /\ k = buscador.pagina
                                          THEN 1 ELSE tabla[q][k].presencia
              /\ tabla'[q][k].frame = IF q = buscador.pid /\ k = buscador.pagina
                                      THEN buscador.marco ELSE tabla[q][k].frame
              /\ tabla'[q][k].posicion_swap = tabla[q][k].posicion_swap
         /\ buscador.pid \in Procesos /\ vida[buscador.pid] = "bloqueado"
         /\ buscador.pagina \in 1 .. Len(tabla[buscador.pid])
         /\ buscador.pagina \notin Presentes(buscador.pid)
         /\ buscador.pagina \in Paginas
<1> DEFINE p == buscador.pid
           j == buscador.pagina
           r == Cargada(tabla[p][j], buscador.marco)
<1>1. p \in Procesos /\ buscador.marco \in Marcos /\ j \in Paginas
  BY HilosTrabajando DEF CargarPagina
<1>2. /\ vida[p] = "bloqueado" /\ Len(tabla[p]) = Tamanio[p] /\ j \in 1 .. Len(tabla[p])
      /\ j \notin Presentes(p)
  BY <1>1 DEF CargarPagina, InvTablas, TablaDe, Pedidos
<1>3. tabla[p][j] \in Registro
  BY <1>1, <1>2, DominiosDeTabla
<1>4. /\ r \in Registro /\ r.presencia = 1 /\ r.frame = buscador.marco
      /\ r.posicion_swap = tabla[p][j].posicion_swap
  BY Zenon, <1>1, <1>3 DEF Registro, Cargada
<1>5. CambiaRegistro(p, j, r)
  <2>1. tabla' = [tabla EXCEPT ![p][j] = Cargada(@, buscador.marco)]
    BY DEF CargarPagina
  <2> QED
    BY <1>1, <1>2, <2>1 DEF TipoTablas, CambiaRegistro
<1> HIDE DEF r
<1>6. /\ tabla' \in [Procesos -> Seq(Registro)]
      /\ \A q \in Procesos : Len(tabla[q])' = Len(tabla[q])
      /\ \A q \in Procesos : \A k \in 1 .. Len(tabla[q]) :
           tabla'[q][k] = IF q = p /\ k = j THEN r ELSE tabla[q][k]
  BY <1>1, <1>2, <1>4, <1>5, CambioDeBits
<1> QED
  BY <1>1, <1>2, <1>4, <1>6

\* In process p, page nueva takes the frame of the page at position i of its queue.
Toma(p, nueva, i) ==
  LET sale == frames_ocupados[p][i]
  IN  /\ p \in Procesos /\ vida[p] = "bloqueado" /\ p = Head(pendientes).pid
      /\ nueva \in 1 .. Len(tabla[p]) /\ nueva \notin Presentes(p) /\ nueva \in Paginas
      /\ nueva = Head(pendientes).pagina
      /\ i \in 1 .. Len(frames_ocupados[p]) /\ sale \in Presentes(p) /\ sale # nueva
      /\ tabla' \in [Procesos -> Seq(Registro)]
      /\ \A q \in Procesos : Len(tabla[q])' = Len(tabla[q])
      /\ \A q \in Procesos \ {p} : tabla'[q] = tabla[q]
      /\ \A k \in 1 .. Len(tabla[p]) :
           /\ tabla'[p][k].presencia = IF k = nueva THEN 1 ELSE IF k = sale THEN 0
                                       ELSE tabla[p][k].presencia
           /\ tabla'[p][k].frame = IF k = nueva THEN tabla[p][sale].frame
                                   ELSE tabla[p][k].frame
           /\ tabla'[p][k].posicion_swap = tabla[p][k].posicion_swap
      /\ frames_ocupados' = [frames_ocupados EXCEPT ![p] = Rotar(frames_ocupados[p], i, nueva)]
      /\ vida' = [vida EXCEPT ![p] = "listo"] /\ viva' = viva
      /\ \/ swap' = swap
         \/ swap' = EscribirSwap(tabla[p][sale].posicion_swap, espacio[tabla[p][sale].frame])

\* The queue is not empty: memoria never dies looking for a victim.
LEMMA TablaReemplazar ==
  ASSUME TipoTablas, InvTablas, Pedidos, ResidentesEnCola, algoritmo \in Algoritmos, Reemplazar
  PROVE  \E p \in Procesos, nueva \in Paginas, i \in Nat : Toma(p, nueva, i)
<1> DEFINE p     == Head(pendientes).pid
           nueva == Head(pendientes).pagina
           cola  == [k \in DOMAIN frames_ocupados[p] |-> tabla[p][frames_ocupados[p][k]]]
           i     == Victima(algoritmo, cola)
           sale  == frames_ocupados[p][i]
           limpias == {frames_ocupados[p][k] : k \in Limpiadas(algoritmo, cola)} \ {sale}
<1>1. p \in Procesos /\ nueva \in Paginas /\ vida[p] = "bloqueado" /\ nueva = reintento[p]
  BY ZenonT(30), HilosTrabajando DEF Reemplazar, Pedidos
<1>2. /\ Len(tabla[p]) = Tamanio[p] /\ nueva \in 1 .. Len(tabla[p]) /\ nueva \notin Presentes(p)
  BY <1>1 DEF InvTablas, TablaDe, Pedidos
<1>3. EnCola(p)
  BY <1>1 DEF ResidentesEnCola, Vivos, EnCola
<1>4. frames_ocupados[p] # <<>>
  <2> SUFFICES ASSUME frames_ocupados[p] = <<>> PROVE FALSE
    OBVIOUS
  <2>1. Presentes(p) = {}
    BY <1>3 DEF EnCola, ToSet
  <2>2. Ocupados(p) = Cardinality({})
    BY Zenon, <2>1 DEF Ocupados, Presentes
  <2> QED
    BY <2>2, FS_EmptySet, MemoriaAssumption DEF Reemplazar
<1>5. /\ frames_ocupados[p] \in Seq(Paginas) /\ Len(frames_ocupados[p]) \in Nat \ {0}
      /\ DOMAIN frames_ocupados[p] = 1 .. Len(frames_ocupados[p])
      /\ \A k \in 1 .. Len(frames_ocupados[p]) : frames_ocupados[p][k] \in Presentes(p)
  BY <1>1, <1>3, <1>4, DominiosDeTabla, EmptySeq DEF EnCola, ToSet
<1>6. \A k \in Presentes(p) : k \in 1 .. Len(tabla[p]) /\ tabla[p][k] \in Registro
                                /\ tabla[p][k].presencia = 1
  BY <1>1, DominiosDeTabla
<1>7. cola \in Seq(Registro) /\ cola # <<>> /\ DOMAIN cola = 1 .. Len(frames_ocupados[p])
  <2> DEFINE n == Len(frames_ocupados[p])
             e(k) == tabla[p][frames_ocupados[p][k]]
  <2>1. cola = [k \in 1 .. n |-> e(k)] /\ n \in Nat \ {0}
    BY <1>5
  <2>2. \A k \in 1 .. n : e(k) \in Registro
    BY <1>5, <1>6
  <2> HIDE DEF e, n
  <2>3. [k \in 1 .. n |-> e(k)] \in Seq(Registro)
    BY <2>1, <2>2, IsASeq
  <2> HIDE DEF cola
  <2>4. DOMAIN cola = 1 .. n /\ 1 \in DOMAIN cola
    BY <2>1
  <2> QED
    BY <2>1, <2>3, <2>4 DEF n
<1> HIDE DEF cola
<1>8. i \in 1 .. Len(frames_ocupados[p])
  BY <1>7, VictimaEnCola
<1>9. sale \in Presentes(p) /\ sale # nueva /\ sale \in 1 .. Len(tabla[p])
        /\ tabla[p][sale] \in Registro
  BY <1>2, <1>5, <1>6, <1>8
<1> DEFINE r(j) == CASE j = nueva -> Cargada(tabla[p][j], tabla[p][sale].frame)
                     [] j = sale  -> [tabla[p][j] EXCEPT
                          !.presencia = 0, !.uso = 0, !.modificado = 0]
                     [] j \in limpias -> [tabla[p][j] EXCEPT !.uso = 0]
                     [] OTHER -> tabla[p][j]
           s == [j \in 1 .. Len(tabla[p]) |-> r(j)]
<1>10. /\ tabla' = [tabla EXCEPT ![p] = s]
       /\ frames_ocupados' = [frames_ocupados EXCEPT ![p] = Rotar(frames_ocupados[p], i, nueva)]
       /\ vida' = [vida EXCEPT ![p] = "listo"] /\ viva' = viva
       /\ swap' = IF cola[i].modificado = 1
                  THEN EscribirSwap(cola[i].posicion_swap, espacio[cola[i].frame])
                  ELSE swap
  <2>1. DOMAIN tabla[p] = 1 .. Len(tabla[p])
    BY <1>1, DominiosDeTabla
  <2> QED
    BY Zenon, <1>1, <1>7, <2>1 DEF Reemplazar, Atender, cola
<1>11. cola[i] = tabla[p][sale] /\ sale \notin limpias /\ nueva \notin limpias
  <2>1. cola[i] = tabla[p][sale]
    BY Zenon, <1>5, <1>8 DEF cola
  <2>2. Limpiadas(algoritmo, cola) \subseteq 1 .. Len(frames_ocupados[p])
    BY <1>5, <1>7, <1>8 DEF Limpiadas
  <2>3. \A j \in limpias : j \in Presentes(p)
    BY <1>5, <2>2
  <2> QED
    BY <1>2, <2>1, <2>3
<1> HIDE DEF i, limpias
<1>12. \A j \in 1 .. Len(tabla[p]) :
         /\ r(j) \in Registro
         /\ r(j).presencia = IF j = nueva THEN 1 ELSE IF j = sale THEN 0
                             ELSE tabla[p][j].presencia
         /\ r(j).frame = IF j = nueva THEN tabla[p][sale].frame ELSE tabla[p][j].frame
         /\ r(j).posicion_swap = tabla[p][j].posicion_swap
  <2> TAKE j \in 1 .. Len(tabla[p])
  <2>1. tabla[p][j] \in Registro
    BY <1>1, DominiosDeTabla
  <2> HIDE DEF sale, p, nueva
  <2>2. CASE j = nueva
    <3>1. r(j) = Cargada(tabla[p][j], tabla[p][sale].frame)
      BY <2>2, <1>9, <1>11
    <3> DEFINE m == tabla[p][sale].frame
    <3>2. m \in Marcos
      BY <1>9 DEF Registro
    <3> HIDE DEF m
    <3>3. Cargada(tabla[p][j], m) \in Registro /\ Cargada(tabla[p][j], m).presencia = 1
            /\ Cargada(tabla[p][j], m).frame = m
            /\ Cargada(tabla[p][j], m).posicion_swap = tabla[p][j].posicion_swap
      BY Zenon, <2>1, <3>2 DEF Registro, Cargada
    <3> QED
      BY Zenon, <2>2, <3>1, <3>3 DEF m
  <2>3. CASE j # nueva /\ j = sale
    <3>1. r(j) = [tabla[p][j] EXCEPT !.presencia = 0, !.uso = 0, !.modificado = 0]
      BY <2>3, <1>11
    <3> QED
      BY ZenonT(30), <2>1, <2>3, <3>1 DEF Registro
  <2>4. CASE j # nueva /\ j # sale /\ j \in limpias
    <3>1. r(j) = [tabla[p][j] EXCEPT !.uso = 0]
      BY <2>4
    <3> QED
      BY <2>1, <2>4, <3>1 DEF Registro
  <2>5. CASE j # nueva /\ j # sale /\ j \notin limpias
    <3>1. r(j) = tabla[p][j]
      BY <2>5
    <3> QED
      BY <2>1, <2>5, <3>1
  <2> QED
    BY <2>2, <2>3, <2>4, <2>5, SMTT(40)
<1> HIDE DEF r
<1>13. s \in Seq(Registro) /\ Len(s) = Len(tabla[p]) /\ \A j \in 1 .. Len(tabla[p]) : s[j] = r(j)
  <2>1. Len(tabla[p]) \in Nat
    BY <1>1, DominiosDeTabla
  <2>2. s \in Seq(Registro)
    BY <1>12, <2>1, IsASeq
  <2>3. DOMAIN s = 1 .. Len(tabla[p])
    OBVIOUS
  <2>4. DOMAIN s = 1 .. Len(s) /\ Len(s) \in Nat
    BY <2>2, LenProperties
  <2> HIDE DEF s
  <2>5. Len(s) = Len(tabla[p])
    BY <2>1, <2>3, <2>4
  <2> QED
    BY <2>2, <2>5 DEF s
<1> HIDE DEF s
<1>14. /\ tabla' \in [Procesos -> Seq(Registro)]
       /\ \A q \in Procesos : Len(tabla[q])' = Len(tabla[q])
       /\ \A q \in Procesos \ {p} : tabla'[q] = tabla[q]
       /\ tabla'[p] = s
  BY <1>1, <1>10, <1>13 DEF TipoTablas
<1>15. Toma(p, nueva, i)
  <2>1. \/ swap' = swap
        \/ swap' = EscribirSwap(tabla[p][sale].posicion_swap, espacio[tabla[p][sale].frame])
    BY Zenon, <1>10, <1>11
  <2>2. \A k \in 1 .. Len(tabla[p]) :
           /\ tabla'[p][k].presencia = IF k = nueva THEN 1 ELSE IF k = sale THEN 0
                                       ELSE tabla[p][k].presencia
           /\ tabla'[p][k].frame = IF k = nueva THEN tabla[p][sale].frame
                                   ELSE tabla[p][k].frame
           /\ tabla'[p][k].posicion_swap = tabla[p][k].posicion_swap
    BY <1>12, <1>13, <1>14
  <2> QED
    BY ZenonT(30), <1>1, <1>2, <1>8, <1>9, <1>10, <1>14, <2>1, <2>2 DEF Toma
<1>16. i \in Nat
  BY <1>5, <1>8
<1>17. PICK x \in Procesos, y \in Paginas, z \in Nat : x = p /\ y = nueva /\ z = i
  BY <1>1, <1>16
<1> HIDE DEF p, nueva, sale
<1>18. Toma(x, y, z)
  BY Zenon, <1>15, <1>17 DEF Toma, p, nueva
<1> QED
  BY <1>18

-----------------------------------------------------------------------------
(* What each action does to the pages that are loaded *)

\* Page k of p is where it was, if it was loaded.
LEMMA PresentesIguales ==
  ASSUME TipoTablas, MismosBits, tabla' \in [Procesos -> Seq(Registro)], NEW p \in Procesos
  PROVE  Presentes(p)' = Presentes(p) /\ Residente(p)' = Residente(p)
<1>1. /\ DOMAIN tabla[p] = 1 .. Len(tabla[p]) /\ DOMAIN tabla'[p] = 1 .. Len(tabla'[p])
      /\ Len(tabla'[p]) = Len(tabla[p])
  BY LenProperties DEF TipoTablas, MismosBits
<1>2. Presentes(p)' = Presentes(p)
  BY <1>1 DEF Presentes, MismosBits
<1>3. \A k \in Presentes(p) : tabla'[p][k].frame = tabla[p][k].frame
  BY <1>1 DEF Presentes, MismosBits
<1> QED
  BY <1>2, <1>3 DEF Residente

LEMMA PresentesDeOtro ==
  ASSUME NEW p \in Procesos, tabla'[p] = tabla[p]
  PROVE  Presentes(p)' = Presentes(p) /\ Residente(p)' = Residente(p)
BY DEF Presentes, Residente

LEMMA PresentesCrear ==
  ASSUME TipoTablas, puntero_swap \in Nat, NEW p \in Procesos, CrearEstructuras(p)
  PROVE  /\ Presentes(p)' = {} /\ Residente(p)' = [j \in {} |-> 0]
         /\ \A q \in Procesos \ {p} : Presentes(q)' = Presentes(q) /\ Residente(q)' = Residente(q)
<1>1. /\ tabla' \in [Procesos -> Seq(Registro)] /\ Len(tabla[p])' = Tamanio[p]
      /\ \A k \in 1 .. Tamanio[p] : tabla'[p][k].presencia = 0
      /\ \A q \in Procesos \ {p} : tabla'[q] = tabla[q]
  BY TablaCrearEstructuras
<1>2. DOMAIN tabla'[p] = 1 .. Tamanio[p]
  BY <1>1, LenProperties
<1>3. Presentes(p)' = {}
  BY <1>1, <1>2 DEF Presentes
<1> QED
  BY <1>1, <1>3, PresentesDeOtro DEF Residente

LEMMA PresentesLiberar ==
  ASSUME TipoTablas, InvTablas, LiberarPagina, NEW p \in Procesos
  PROVE  /\ Presentes(p)' = IF p = Head(por_liberar) THEN Presentes(p) \ {liberadas + 1}
                            ELSE Presentes(p)
         /\ Residente(p)' = [j \in Presentes(p)' |-> Residente(p)[j]]
<1>1. /\ tabla' \in [Procesos -> Seq(Registro)]
      /\ Len(tabla[p])' = Len(tabla[p])
      /\ \A k \in 1 .. Len(tabla[p]) :
              /\ tabla'[p][k].presencia =
                   IF p = Head(por_liberar) /\ k = liberadas + 1 THEN 0 ELSE tabla[p][k].presencia
              /\ tabla'[p][k].frame = tabla[p][k].frame
  BY TablaLiberarPagina
<1>2. DOMAIN tabla'[p] = 1 .. Len(tabla[p]) /\ DOMAIN tabla[p] = 1 .. Len(tabla[p])
  BY <1>1, LenProperties DEF TipoTablas
<1>3. Presentes(p)' = IF p = Head(por_liberar) THEN Presentes(p) \ {liberadas + 1}
                      ELSE Presentes(p)
  <2>1. CASE p = Head(por_liberar)
    BY <1>1, <1>2, <2>1 DEF Presentes
  <2>2. CASE p # Head(por_liberar)
    BY <1>1, <1>2, <2>2 DEF Presentes
  <2> QED
    BY <2>1, <2>2
<1>4. \A j \in Presentes(p)' : j \in Presentes(p) /\ tabla'[p][j].frame = tabla[p][j].frame
  BY <1>1, <1>2, <1>3 DEF Presentes
<1>5. \A j \in Presentes(p)' : tabla'[p][j].frame = Residente(p)[j]
  BY <1>4 DEF Residente
<1> QED
  BY <1>3, <1>5 DEF Residente

LEMMA PresentesCargar ==
  ASSUME TipoTablas, InvTablas, Pedidos, CargarPagina,
         NEW p \in Procesos, p = buscador.pid, NEW j, j = buscador.pagina
  PROVE  /\ Presentes(p)' = Presentes(p) \cup {j}
         /\ Residente(p)' = [k \in Presentes(p) \cup {j} |->
                                IF k = j THEN buscador.marco ELSE Residente(p)[k]]
         /\ \A q \in Procesos \ {p} : Presentes(q)' = Presentes(q) /\ Residente(q)' = Residente(q)
<1>2. /\ tabla' \in [Procesos -> Seq(Registro)] /\ j \in 1 .. Len(tabla[p])
      /\ \A q \in Procesos : Len(tabla[q])' = Len(tabla[q])
      /\ \A q \in Procesos : \A k \in 1 .. Len(tabla[q]) :
           /\ tabla'[q][k].presencia = IF q = p /\ k = j THEN 1 ELSE tabla[q][k].presencia
           /\ tabla'[q][k].frame = IF q = p /\ k = j THEN buscador.marco ELSE tabla[q][k].frame
  BY TablaCargarPagina
<1>3. \A q \in Procesos : DOMAIN tabla'[q] = 1 .. Len(tabla[q]) /\ DOMAIN tabla[q] = 1 .. Len(tabla[q])
  BY <1>2, LenProperties DEF TipoTablas
<1>4. Presentes(p)' = Presentes(p) \cup {j}
  BY <1>2, <1>3 DEF Presentes
<1>5. Residente(p)' = [k \in Presentes(p) \cup {j} |->
                  IF k = j THEN buscador.marco ELSE Residente(p)[k]]
  <2>1. \A k \in Presentes(p) : k \in 1 .. Len(tabla[p])
    BY <1>3 DEF Presentes
  <2>2. \A k \in Presentes(p) \cup {j} :
          tabla'[p][k].frame = IF k = j THEN buscador.marco ELSE Residente(p)[k]
    BY <1>2, <2>1 DEF Residente
  <2> QED
    BY <1>4, <2>2 DEF Residente
<1>6. ASSUME NEW q \in Procesos \ {p}
      PROVE  Presentes(q)' = Presentes(q) /\ Residente(q)' = Residente(q)
  <2>1. Presentes(q)' = Presentes(q)
    BY <1>2, <1>3 DEF Presentes
  <2>2. \A k \in Presentes(q) : tabla'[q][k].frame = tabla[q][k].frame
    BY <1>2, <1>3 DEF Presentes
  <2> QED
    BY <2>1, <2>2 DEF Residente
<1> QED
  BY <1>4, <1>5, <1>6

LEMMA PresentesToma ==
  ASSUME TipoTablas, NEW p \in Procesos, NEW nueva \in Paginas, NEW i \in Nat, Toma(p, nueva, i)
  PROVE  /\ \E sale \in Presentes(p) : /\ sale = frames_ocupados[p][i]
                                       /\ Presentes(p)' = (Presentes(p) \ {sale}) \cup {nueva}
         /\ \A q \in Procesos \ {p} : Presentes(q)' = Presentes(q)
<1>0. PICK sale \in Presentes(p) : sale = frames_ocupados[p][i] /\ sale # nueva
  BY ZenonT(30) DEF Toma
<1>1. /\ tabla' \in [Procesos -> Seq(Registro)] /\ nueva \in 1 .. Len(tabla[p])
      /\ sale \in Presentes(p) /\ sale # nueva
      /\ Len(tabla'[p]) = Len(tabla[p])
      /\ \A q \in Procesos \ {p} : tabla'[q] = tabla[q]
      /\ \A k \in 1 .. Len(tabla[p]) :
           /\ tabla'[p][k].presencia = IF k = nueva THEN 1 ELSE IF k = sale THEN 0
                                       ELSE tabla[p][k].presencia
           /\ tabla'[p][k].frame = IF k = nueva THEN tabla[p][sale].frame
                                   ELSE tabla[p][k].frame
  BY ZenonT(30), <1>0 DEF Toma
<1>2. DOMAIN tabla'[p] = 1 .. Len(tabla[p]) /\ DOMAIN tabla[p] = 1 .. Len(tabla[p])
  BY <1>1, LenProperties DEF TipoTablas
<1>3. Presentes(p)' = (Presentes(p) \ {sale}) \cup {nueva}
  BY <1>1, <1>2 DEF Presentes
<1> QED
  BY <1>0, <1>1, <1>3, PresentesDeOtro

Sale(p, i, x) == x = frames_ocupados[p][i]

LEMMA ResidenteToma ==
  ASSUME TipoTablas, NEW p \in Procesos, NEW nueva, NEW i, Toma(p, nueva, i),
         NEW sale \in Presentes(p), Sale(p, i, sale)
  PROVE  /\ \A k \in Presentes(p)' : Residente(p)'[k] = Residente(p)[IF k = nueva THEN sale ELSE k]
         /\ Presentes(p)' = (Presentes(p) \ {sale}) \cup {nueva}
         /\ \A q \in Procesos \ {p} : Residente(q)' = Residente(q)
<1>0. sale = frames_ocupados[p][i]
  BY DEF Sale
<1>1. /\ tabla' \in [Procesos -> Seq(Registro)] /\ nueva \in 1 .. Len(tabla[p])
      /\ sale \in Presentes(p) /\ sale # nueva
      /\ Len(tabla'[p]) = Len(tabla[p])
      /\ \A q \in Procesos \ {p} : tabla'[q] = tabla[q]
      /\ \A k \in 1 .. Len(tabla[p]) :
           /\ tabla'[p][k].presencia = IF k = nueva THEN 1 ELSE IF k = sale THEN 0
                                       ELSE tabla[p][k].presencia
           /\ tabla'[p][k].frame = IF k = nueva THEN tabla[p][sale].frame
                                   ELSE tabla[p][k].frame
  BY Zenon, <1>0 DEF Toma
<1>2. DOMAIN tabla'[p] = 1 .. Len(tabla[p]) /\ DOMAIN tabla[p] = 1 .. Len(tabla[p])
  BY <1>1, LenProperties DEF TipoTablas
<1>3. Presentes(p)' = (Presentes(p) \ {sale}) \cup {nueva}
  BY <1>1, <1>2 DEF Presentes
<1>4. \A k \in Presentes(p) : k \in 1 .. Len(tabla[p]) /\ Residente(p)[k] = tabla[p][k].frame
  BY <1>2 DEF Presentes, Residente
<1>5. \A k \in (Presentes(p) \ {sale}) \cup {nueva} :
        tabla'[p][k].frame = Residente(p)[IF k = nueva THEN sale ELSE k]
  BY <1>1, <1>4
<1> QED
  BY <1>0, <1>1, <1>3, <1>5, PresentesDeOtro DEF Residente

-----------------------------------------------------------------------------
(* Queues *)

\* The queue once it was turned round: the page at position i left it and x came in.
LEMMA RotarCola ==
  ASSUME NEW S, NEW s \in Seq(S), NEW i \in 1 .. Len(s), NEW x \in S
  PROVE  /\ Rotar(s, i, x) \in Seq(S) /\ Len(Rotar(s, i, x)) = Len(s)
         /\ \A k \in 1 .. Len(s) : Rotar(s, i, x)[k] =
              IF k = Len(s) THEN x ELSE IF k <= Len(s) - i THEN s[k + i] ELSE s[k - (Len(s) - i)]
<1>0. PICK n \in Nat : n = Len(s)
  BY LenProperties
<1> DEFINE a == SubSeq(s, i + 1, n)
           b == SubSeq(s, 1, i - 1)
<1>1. i \in 1 .. n /\ i \in Int /\ DOMAIN s = 1 .. n /\ \A k \in 1 .. n : s[k] \in S
  BY <1>0, LenProperties
<1>2. /\ a \in Seq(S) /\ Len(a) = n - i /\ \A k \in 1 .. n - i : a[k] = s[k + i]
  <2>1. i + 1 \in Int /\ n \in Int /\ \A k \in i + 1 .. n : s[k] \in S
    BY <1>1
  <2>2. /\ SubSeq(s, i + 1, n) \in Seq(S)
        /\ Len(SubSeq(s, i + 1, n)) = IF i + 1 <= n THEN n - (i + 1) + 1 ELSE 0
        /\ \A k \in 1 .. n - (i + 1) + 1 : SubSeq(s, i + 1, n)[k] = s[i + 1 + k - 1]
    BY <2>1, SubSeqProperties
  <2> QED
    BY <1>1, <2>2
<1>3. /\ b \in Seq(S) /\ Len(b) = i - 1 /\ \A k \in 1 .. i - 1 : b[k] = s[k]
  <2>1. 1 \in Int /\ i - 1 \in Int /\ \A k \in 1 .. i - 1 : s[k] \in S
    BY <1>1
  <2>2. /\ SubSeq(s, 1, i - 1) \in Seq(S)
        /\ Len(SubSeq(s, 1, i - 1)) = IF 1 <= i - 1 THEN i - 1 - 1 + 1 ELSE 0
        /\ \A k \in 1 .. i - 1 - 1 + 1 : SubSeq(s, 1, i - 1)[k] = s[1 + k - 1]
    BY <2>1, SubSeqProperties
  <2> QED
    BY <1>1, <2>2
<1>4. Rotar(s, i, x) = (a \o b) \o <<x>>
  BY <1>0 DEF Rotar
<1> HIDE DEF a, b
<1>5. /\ a \o b \in Seq(S) /\ Len(a \o b) = n - 1
      /\ \A k \in 1 .. n - 1 : (a \o b)[k] = IF k <= n - i THEN a[k] ELSE b[k - (n - i)]
  BY <1>1, <1>2, <1>3, ConcatProperties
<1> DEFINE c == a \o b
<1> HIDE DEF c
<1>6. c \in Seq(S) /\ Len(c) = n - 1 /\ Rotar(s, i, x) = c \o <<x>>
  BY <1>4, <1>5 DEF c
<1>7. Append(c, x) = c \o <<x>>
  BY <1>6, AppendIsConcat
<1>8. /\ Append(c, x) \in Seq(S) /\ Len(Append(c, x)) = n
      /\ \A k \in 1 .. n - 1 : Append(c, x)[k] = c[k]
      /\ Append(c, x)[n] = x
  BY <1>1, <1>6, AppendProperties
<1>9. \A k \in 1 .. n - 1 : c[k] = IF k <= n - i THEN s[k + i] ELSE s[k - (n - i)]
  BY <1>1, <1>2, <1>3, <1>5 DEF c
<1>10. \A k \in 1 .. n : k = n \/ k \in 1 .. n - 1
  OBVIOUS
<1> QED
  BY Zenon, <1>0, <1>6, <1>7, <1>8, <1>9, <1>10

\* In it every page is once, if it was so and x was not there.
LEMMA RotarUnicos ==
  ASSUME NEW S, NEW s \in Seq(S), NEW i \in 1 .. Len(s), NEW x \in S,
         IsInjective(s), x \notin ToSet(s)
  PROVE  /\ ToSet(Rotar(s, i, x)) = (ToSet(s) \ {s[i]}) \cup {x}
         /\ IsInjective(Rotar(s, i, x))
<1>0. PICK n \in Nat : n = Len(s)
  BY LenProperties
<1> DEFINE r == Rotar(s, i, x)
           de(k) == IF k <= n - i THEN k + i ELSE k - (n - i)
           a(k)  == IF k > i THEN k - i ELSE k + (n - i)
<1>1. DOMAIN s = 1 .. n /\ i \in 1 .. n /\ \A k \in 1 .. n : k = n \/ k \in 1 .. n - 1
  BY <1>0, LenProperties
<1>2. /\ r \in Seq(S) /\ DOMAIN r = 1 .. n /\ r[n] = x
      /\ \A k \in 1 .. n - 1 : r[k] = s[de(k)]
  <2>1. /\ r \in Seq(S) /\ Len(r) = n
        /\ \A k \in 1 .. n : r[k] =
             IF k = n THEN x ELSE IF k <= n - i THEN s[k + i] ELSE s[k - (n - i)]
    <3>1. /\ Rotar(s, i, x) \in Seq(S) /\ Len(Rotar(s, i, x)) = Len(s)
          /\ \A k \in 1 .. Len(s) : Rotar(s, i, x)[k] =
               IF k = Len(s) THEN x ELSE IF k <= Len(s) - i THEN s[k + i]
               ELSE s[k - (Len(s) - i)]
      BY RotarCola
    <3> QED
      BY <1>0, <3>1
  <2>2. DOMAIN r = 1 .. n
    BY <2>1, LenProperties
  <2> HIDE DEF r
  <2>3. \A k \in 1 .. n - 1 : k \in 1 .. n /\ k # n
    OBVIOUS
  <2>4. n \in 1 .. n
    BY <1>1
  <2> QED
    BY <2>1, <2>2, <2>3, <2>4
<1> HIDE DEF r
<1>3. \A k \in 1 .. n - 1 : de(k) \in 1 .. n /\ de(k) # i
  BY <1>1
<1>4. \A k, l \in 1 .. n - 1 : de(k) = de(l) => k = l
  BY <1>1
<1>5. \A k \in 1 .. n : k # i => a(k) \in 1 .. n - 1 /\ de(a(k)) = k
  BY <1>1
<1> HIDE DEF de, a
<1>6. \A k, l \in 1 .. n : s[k] = s[l] => k = l
  BY <1>1 DEF IsInjective
<1>7. ToSet(s) = {s[k] : k \in 1 .. n} /\ ToSet(r) = {r[k] : k \in 1 .. n}
  BY <1>1, <1>2 DEF ToSet
<1>8. ToSet(r) \subseteq (ToSet(s) \ {s[i]}) \cup {x}
  <2> SUFFICES ASSUME NEW k \in 1 .. n, k # n PROVE r[k] \in ToSet(s) \ {s[i]}
    BY <1>2, <1>7
  <2>1. k \in 1 .. n - 1
    BY <1>1
  <2> QED
    BY <1>1, <1>2, <1>3, <1>6, <1>7, <2>1
<1>9. (ToSet(s) \ {s[i]}) \cup {x} \subseteq ToSet(r)
  <2>1. x \in ToSet(r)
    BY <1>1, <1>2, <1>7
  <2>2. ASSUME NEW k \in 1 .. n, k # i PROVE s[k] \in ToSet(r)
    <3>1. a(k) \in 1 .. n - 1 /\ de(a(k)) = k /\ a(k) \in 1 .. n
      BY <1>1, <1>5, <2>2
    <3>2. r[a(k)] = s[k]
      BY <1>2, <3>1
    <3> QED
      BY <1>7, <3>1, <3>2
  <2> QED
    BY <1>7, <2>1, <2>2
<1>10. IsInjective(r)
  <2> SUFFICES ASSUME NEW k \in 1 .. n, NEW l \in 1 .. n, r[k] = r[l] PROVE k = l
    BY <1>2 DEF IsInjective
  <2>1. \A m \in 1 .. n : m # n => m \in 1 .. n - 1 /\ r[m] = s[de(m)] /\ r[m] # x
    BY <1>1, <1>2, <1>3, <1>7
  <2>2. CASE k = n \/ l = n
    BY Zenon, <1>2, <2>1, <2>2
  <2>3. CASE k # n /\ l # n
    <3>1. de(k) = de(l)
      BY <1>3, <1>6, <2>1, <2>3
    <3> QED
      BY <1>4, <2>1, <2>3, <3>1
  <2> QED
    BY <2>2, <2>3
<1> QED
  BY <1>8, <1>9, <1>10 DEF r

LEMMA AgregarUnico ==
  ASSUME NEW S, NEW s \in Seq(S), NEW x \in S
  PROVE  /\ ToSet(Append(s, x)) = ToSet(s) \cup {x}
         /\ IsInjective(s) /\ x \notin ToSet(s) => IsInjective(Append(s, x))
<1>1. /\ Len(s) \in Nat /\ DOMAIN s = 1 .. Len(s)
      /\ DOMAIN Append(s, x) = 1 .. Len(s) + 1
      /\ \A k \in 1 .. Len(s) : Append(s, x)[k] = s[k]
      /\ Append(s, x)[Len(s) + 1] = x
  BY AppendProperties, LenProperties
<1>2. \A k \in 1 .. Len(s) + 1 : k \in 1 .. Len(s) \/ k = Len(s) + 1
  BY <1>1
<1>3. 1 .. Len(s) \subseteq 1 .. Len(s) + 1 /\ Len(s) + 1 \in 1 .. Len(s) + 1
  BY <1>1
<1>4. ToSet(Append(s, x)) = ToSet(s) \cup {x}
  BY <1>1, <1>2, <1>3 DEF ToSet
<1>5. ASSUME IsInjective(s), x \notin ToSet(s) PROVE IsInjective(Append(s, x))
  <2>1. \A k \in 1 .. Len(s) : s[k] # x
    BY <1>1, <1>5 DEF ToSet
  <2> QED
    BY <1>1, <1>2, <1>5, <2>1 DEF IsInjective
<1> QED
  BY <1>4, <1>5

-----------------------------------------------------------------------------
(* Types *)

TipoDatos ==
  /\ algoritmo \in Algoritmos
  /\ puntero_swap \in Nat
  /\ espacio \in [Marcos -> Contenidos]
  /\ swap \in Seq(Contenidos)
  /\ escrito \in [Procesos -> Seq(Contenidos)]

TipoProcesos ==
  /\ liberadas \in 0 .. Cardinality(Paginas)
  /\ ultima_escritura \in {Libre} \cup Pagina
  /\ vida \in [Procesos -> {"sin_crear", "listo", "bloqueado", "finalizado"}]
  /\ reintento \in [Procesos -> 0 .. Cardinality(Paginas)]

LEMMA TypeOKPartes == TypeOK <=> TipoTablas /\ TipoDatos /\ TipoProcesos /\ viva \in BOOLEAN
<1>1. liberadas \in 0 .. Cardinality(Paginas) => liberadas \in Nat
  BY PaginasDeProcesos
<1> QED
  BY Zenon, <1>1 DEF TypeOK, TipoTablas, TipoDatos, TipoProcesos

LEMMA TypeOKPartesDespues ==
  (TypeOK <=> TipoTablas /\ TipoDatos /\ TipoProcesos /\ viva \in BOOLEAN)'
BY TypeOKPartes, PTL

LEMMA InicioTypeOK == Init => TypeOK
<1> SUFFICES ASSUME Init PROVE TypeOK
  OBVIOUS
<1>1. Ceros \in Contenidos /\ Basura \in Contenidos
  BY DEF Contenidos
<1>2. TipoTablas
  BY EmptySeq DEF Init, TipoTablas
<1>3. TipoDatos
  <2> DEFINE e(i) == Ceros
  <2>1. \A i \in 1 .. TAMANIO_SWAP : e(i) \in Contenidos
    BY <1>1
  <2>2. TAMANIO_SWAP \in Nat
    BY MemoriaAssumption
  <2> HIDE DEF e
  <2>3. [i \in 1 .. TAMANIO_SWAP |-> e(i)] \in Seq(Contenidos)
    BY <2>1, <2>2, IsASeq
  <2>4. swap \in Seq(Contenidos)
    BY <2>3 DEF e, Init
  <2> QED
    BY <1>1, <2>4, EmptySeq DEF Init, TipoDatos
<1>4. TipoProcesos /\ viva \in BOOLEAN
  BY PaginasDeProcesos DEF Init, TipoProcesos
<1> QED
  BY <1>2, <1>3, <1>4, TypeOKPartes

LEMMA TipoTablasPaso ==
  ASSUME TypeOK, InvPaginas, Next
  PROVE  TipoTablas'
<1>0. TipoTablas /\ algoritmo \in Algoritmos /\ puntero_swap \in Nat
        /\ InvTablas /\ Pedidos /\ ResidentesEnCola
  BY TypeOKPartes DEF InvPaginas, TipoDatos
<1>1. ASSUME NEW p \in Procesos, CrearEstructuras(p) PROVE TipoTablas'
  <2>1. tabla' \in [Procesos -> Seq(Registro)]
    BY <1>0, <1>1, TablaCrearEstructuras
  <2> QED
    BY <1>0, <1>1, <2>1 DEF CrearEstructuras, TipoTablas, fisica, hilos
<1>2. ASSUME LiberarPagina PROVE TipoTablas'
  <2>1. tabla' \in [Procesos -> Seq(Registro)]
    BY <1>0, <1>2, TablaLiberarPagina
  <2>2. liberador' \in [pid : Procesos, pagina : Paginas, leido : SUBSET Marcos]
    <3>1. PICK p \in Procesos, j \in Paginas : p = Head(por_liberar) /\ j = liberadas + 1
      BY <1>0, <1>2, TablaLiberarPagina, PaginasDeProcesos DEF InvTablas, TablaDe
    <3>2. liberador' = [pid |-> p, pagina |-> j, leido |-> bitmap]
      BY <1>2, <3>1 DEF LiberarPagina
    <3> QED
      BY <1>0, <3>2 DEF TipoTablas
  <2> QED
    BY Zenon, <1>0, <1>2, <2>1, <2>2 DEF LiberarPagina, TipoTablas, fisica, procesos
<1>3. ASSUME LimpiarBit PROVE TipoTablas'
  <2>1. liberador.leido \subseteq Marcos /\ liberador.pagina \in Nat
          /\ por_liberar # <<>>
    BY <1>0, <1>3, HilosTrabajando, PaginasDeProcesos DEF LimpiarBit, InvTablas, Liberando
  <2>2. Tail(por_liberar) \in Seq(Procesos)
    BY <1>0, <2>1, HeadTailProperties DEF TipoTablas
  <2>3. bitmap' \subseteq Marcos
    BY <1>3, <2>1 DEF LimpiarBit, SinBit
  <2>4. por_liberar' \in Seq(Procesos) /\ liberadas' \in Nat
    <3>1. por_liberar \in Seq(Procesos) /\ 0 \in Nat
      BY <1>0 DEF TipoTablas
    <3>2. \/ liberadas' = liberador.pagina /\ por_liberar' = por_liberar
          \/ liberadas' = 0 /\ por_liberar' = Tail(por_liberar)
      BY <1>3 DEF LimpiarBit
    <3> QED
      BY Zenon, <2>1, <2>2, <3>1, <3>2
  <2> QED
    BY <1>0, <1>3, <2>3, <2>4 DEF LimpiarBit, TipoTablas, tablas
<1>4. ASSUME NEW p \in Procesos, NEW j \in 1 .. Tamanio[p], ObtenerMarco(p, j) PROVE TipoTablas'
  <2>1. tabla' \in [Procesos -> Seq(Registro)] /\ j \in 1 .. Len(tabla[p])
    BY <1>0, <1>4, TablaObtenerMarco
  <2>2. j \in Paginas /\ tabla[p][j].frame \in Marcos
    BY Zenon, <1>0, <2>1, PaginasDeProcesos, DominiosDeTabla DEF Registro
  <2>3. acceso' \in {Libre} \cup [pid : Procesos, pagina : Paginas, marco : Marcos]
    BY <1>0, <1>4, <2>2 DEF ObtenerMarco, TipoTablas
  <2>4. [pid |-> p, pagina |-> j] \in Pagina
    BY <2>2 DEF Pagina
  <2>5. pendientes' \in Seq(Pagina)
    <3>1. pendientes \in Seq(Pagina)
      BY <1>0 DEF TipoTablas
    <3>2. Append(pendientes, [pid |-> p, pagina |-> j]) \in Seq(Pagina)
      BY <2>4, <3>1, AppendProperties
    <3> QED
      BY <1>4, <3>1, <3>2, SMTT(40) DEF ObtenerMarco
  <2> QED
    BY Zenon, <1>0, <1>4, <2>1, <2>3, <2>5 DEF ObtenerMarco, TipoTablas, fisica
<1>5. ASSUME NEW v \in Valores, Escribir(v) PROVE TipoTablas'
  <2>1. tabla' \in [Procesos -> Seq(Registro)]
    BY <1>0, <1>5, TablaEscribir
  <2> QED
    BY <1>0, <1>5, <2>1 DEF Escribir, TipoTablas, hilos
<1>6. ASSUME Leer PROVE TipoTablas'
  <2>1. tabla' \in [Procesos -> Seq(Registro)]
    BY <1>0, <1>6, TablaLeer
  <2> QED
    BY Zenon, <1>0, <1>6, <2>1 DEF Leer, TipoTablas, fisica, hilos
<1>7. ASSUME BuscarMarco PROVE TipoTablas'
  <2>1. /\ pendientes' \in Seq(Pagina) /\ Head(pendientes).pid \in Procesos
        /\ Head(pendientes).pagina \in Paginas
    BY <1>0, <1>7, HilosTrabajando, HeadTailProperties DEF BuscarMarco, SacarPendiente, TipoTablas
  <2>2. buscador' \in {Libre} \cup [pid : Procesos, pagina : Paginas,
                                    marco : Marcos, leido : SUBSET Marcos]
    <3>1. CASE Marcos \subseteq bitmap
      BY <1>0, <1>7, <3>1 DEF BuscarMarco, TipoTablas
    <3>2. CASE ~ (Marcos \subseteq bitmap)
      <4>1. Marcos \ bitmap \in SUBSET Nat /\ Marcos \ bitmap # {}
        BY Zenon, <3>2, MarcosDeMemoria
      <4>2. Min(Marcos \ bitmap) \in Marcos \ bitmap
        BY <4>1, MinimoNatural
      <4>3. MarcoLibre \in Marcos
        BY <4>2 DEF MarcoLibre
      <4>4. buscador' = [pid |-> Head(pendientes).pid, pagina |-> Head(pendientes).pagina,
                         marco |-> MarcoLibre, leido |-> bitmap]
        BY <1>7, <3>2 DEF BuscarMarco
      <4>5. bitmap \in SUBSET Marcos
        BY <1>0 DEF TipoTablas
      <4> QED
        BY <2>1, <4>3, <4>4, <4>5
    <3> QED
      BY <3>1, <3>2
  <2> QED
    BY <1>0, <1>7, <2>1, <2>2 DEF BuscarMarco, TipoTablas, tablas, fisica, procesos
<1>8. ASSUME CargarPagina PROVE TipoTablas'
  <2>1. tabla' \in [Procesos -> Seq(Registro)]
    BY <1>0, <1>8, TablaCargarPagina
  <2>2. /\ buscador.pid \in Procesos /\ buscador.pagina \in Paginas
        /\ buscador.marco \in Marcos /\ buscador.leido \subseteq Marcos
    BY <1>0, <1>8, HilosTrabajando DEF CargarPagina
  <2>3. frames_ocupados[buscador.pid] \in Seq(Paginas)
    BY <1>0, <2>2 DEF TipoTablas
  <2>4. Append(frames_ocupados[buscador.pid], buscador.pagina) \in Seq(Paginas)
    BY <2>2, <2>3, AppendProperties
  <2>5. frames_ocupados' \in [Procesos -> Seq(Paginas)]
    BY <1>0, <1>8, <2>2, <2>4 DEF CargarPagina, TipoTablas
  <2>6. bitmap' \subseteq Marcos
    BY <1>8, <2>2 DEF CargarPagina, ConBit
  <2> QED
    BY <1>0, <1>8, <2>1, <2>5, <2>6 DEF CargarPagina, TipoTablas
<1>9. ASSUME Reemplazar PROVE TipoTablas'
  <2>1. PICK p \in Procesos, nueva \in Paginas, i \in Nat : Toma(p, nueva, i)
    BY <1>0, <1>9, TablaReemplazar
  <2>2. frames_ocupados[p] \in Seq(Paginas) /\ i \in 1 .. Len(frames_ocupados[p])
    BY ZenonT(30), <1>0, <2>1 DEF TipoTablas, Toma
  <2>3. Rotar(frames_ocupados[p], i, nueva) \in Seq(Paginas)
    BY <2>2, RotarCola
  <2>4. frames_ocupados' \in [Procesos -> Seq(Paginas)]
    BY ZenonT(30), <1>0, <2>1, <2>3 DEF Toma, TipoTablas
  <2>5. tabla' \in [Procesos -> Seq(Registro)]
    BY ZenonT(30), <2>1 DEF Toma
  <2>6. pendientes' \in Seq(Pagina)
    BY Zenon, <1>0, <1>9, HeadTailProperties DEF Reemplazar, SacarPendiente, TipoTablas
  <2> QED
    BY Zenon, <1>0, <1>9, <2>4, <2>5, <2>6 DEF Reemplazar, TipoTablas
<1>10. ASSUME NEW p \in Procesos, Finalizar(p) PROVE TipoTablas'
  <2>1. por_liberar' \in Seq(Procesos)
    BY <1>0, <1>10, AppendProperties DEF Finalizar, TipoTablas
  <2> QED
    BY <1>0, <1>10, <2>1 DEF Finalizar, TipoTablas, tablas, fisica, hilos
<1> QED
  BY <1>1, <1>2, <1>3, <1>4, <1>5, <1>6, <1>7, <1>8, <1>9, <1>10
     DEF Next, HiloKernel, HiloCpu, HiloBuscador

LEMMA TipoDatosPaso ==
  ASSUME TypeOK, InvPaginas, Next
  PROVE  TipoDatos'
<1>0. TipoTablas /\ TipoDatos /\ InvTablas /\ Pedidos /\ ResidentesEnCola
        /\ algoritmo \in Algoritmos
  BY TypeOKPartes DEF InvPaginas, TipoDatos
<1>1. ASSUME NEW p \in Procesos, CrearEstructuras(p) PROVE TipoDatos'
  <2>1. puntero_swap' \in Nat
    BY <1>0, <1>1, PaginasDeProcesos DEF CrearEstructuras, TipoDatos
  <2>2. [j \in 1 .. Tamanio[p] |-> Ceros] \in Seq(Contenidos)
    <3> DEFINE e(j) == Ceros
    <3>1. \A j \in 1 .. Tamanio[p] : e(j) \in Contenidos
      BY DEF Contenidos
    <3>2. Tamanio[p] \in Nat
      BY PaginasDeProcesos
    <3> HIDE DEF e
    <3>3. [j \in 1 .. Tamanio[p] |-> e(j)] \in Seq(Contenidos)
      BY <3>1, <3>2, IsASeq
    <3> QED
      BY <3>3 DEF e
  <2>3. escrito' \in [Procesos -> Seq(Contenidos)]
    BY <1>0, <1>1, <2>2 DEF CrearEstructuras, TipoDatos
  <2> QED
    BY <1>0, <1>1, <2>1, <2>3 DEF CrearEstructuras, TipoDatos, fisica
<1>2. ASSUME LiberarPagina PROVE TipoDatos'
  BY <1>0, <1>2 DEF LiberarPagina, TipoDatos, fisica
<1>3. ASSUME LimpiarBit PROVE TipoDatos'
  <2>1. escrito' = escrito \/ \E p : escrito' = [escrito EXCEPT ![p] = <<>>]
    BY Zenon, <1>3 DEF LimpiarBit
  <2>2. escrito' \in [Procesos -> Seq(Contenidos)]
    BY Zenon, <1>0, <2>1, EmptySeq DEF TipoDatos
  <2> QED
    BY <1>0, <1>3, <2>2 DEF LimpiarBit, TipoDatos, tablas
<1>4. ASSUME NEW p \in Procesos, NEW j \in 1 .. Tamanio[p], ObtenerMarco(p, j) PROVE TipoDatos'
  BY <1>0, <1>4 DEF ObtenerMarco, TipoDatos, fisica
<1>5. ASSUME NEW v \in Valores, Escribir(v) PROVE TipoDatos'
  <2>1. PICK p \in Procesos, j \in Paginas, m \in Marcos :
          p = acceso.pid /\ j = acceso.pagina /\ m = acceso.marco
    BY <1>0, <1>5, HilosTrabajando DEF Escribir
  <2>2. <<p, j, v>> \in Contenidos
    BY DEF Contenidos
  <2>3. j \in 1 .. Len(escrito[p])
    BY <1>0, <1>5, <2>1 DEF Escribir, InvTablas, Accesos, TablaDe
  <2>4. [escrito[p] EXCEPT ![j] = <<p, j, v>>] \in Seq(Contenidos)
    BY <1>0, <2>2, <2>3, ExceptSeq DEF TipoDatos
  <2>5. escrito' = [escrito EXCEPT ![p] = [escrito[p] EXCEPT ![j] = <<p, j, v>>]]
    BY <1>0, <1>5, <2>1 DEF Escribir, TipoDatos
  <2>6. escrito' \in [Procesos -> Seq(Contenidos)]
    BY <1>0, <2>4, <2>5 DEF TipoDatos
  <2>7. espacio' \in [Marcos -> Contenidos]
    BY <1>0, <1>5, <2>1, <2>2 DEF Escribir, TipoDatos
  <2> QED
    BY <1>0, <1>5, <2>6, <2>7 DEF Escribir, TipoDatos
<1>6. ASSUME Leer PROVE TipoDatos'
  BY <1>0, <1>6 DEF Leer, TipoDatos, fisica
<1>7. ASSUME BuscarMarco PROVE TipoDatos'
  BY <1>0, <1>7 DEF BuscarMarco, TipoDatos, tablas, fisica
<1>8. ASSUME CargarPagina PROVE TipoDatos'
  <2>1. buscador.marco \in Marcos
    BY <1>0, <1>8, HilosTrabajando DEF CargarPagina
  <2>2. EnSwap(tabla[buscador.pid][buscador.pagina].posicion_swap) \in Contenidos
    BY <1>0, EnSwapTipo DEF TipoDatos
  <2>3. espacio' \in [Marcos -> Contenidos]
    BY <1>0, <1>8, <2>1, <2>2 DEF CargarPagina, TipoDatos
  <2> QED
    BY <1>0, <1>8, <2>3 DEF CargarPagina, TipoDatos
<1>9. ASSUME Reemplazar PROVE TipoDatos'
  <2>1. PICK p \in Procesos, nueva \in Paginas, i \in Nat : Toma(p, nueva, i)
    BY <1>0, <1>9, TablaReemplazar
  <2>2. PICK sale : sale = frames_ocupados[p][i] /\ sale \in Presentes(p)
    BY Zenon, <2>1 DEF Toma
  <2>3. tabla[p][sale] \in Registro
    BY <1>0, <2>2, DominiosDeTabla
  <2>4. tabla[p][sale].posicion_swap \in Nat /\ espacio[tabla[p][sale].frame] \in Contenidos
    BY <1>0, <2>3 DEF Registro, TipoDatos
  <2>5. EscribirSwap(tabla[p][sale].posicion_swap, espacio[tabla[p][sale].frame])
          \in Seq(Contenidos)
    BY <2>4, EscribirSwapTipo
  <2>6. swap' \in Seq(Contenidos)
    BY Zenon, <1>0, <2>1, <2>2, <2>5 DEF Toma, TipoDatos
  <2> QED
    BY Zenon, <1>0, <1>9, <2>6 DEF Reemplazar, TipoDatos
<1>10. ASSUME NEW p \in Procesos, Finalizar(p) PROVE TipoDatos'
  BY <1>0, <1>10 DEF Finalizar, TipoDatos, tablas, fisica
<1> QED
  BY <1>1, <1>2, <1>3, <1>4, <1>5, <1>6, <1>7, <1>8, <1>9, <1>10
     DEF Next, HiloKernel, HiloCpu, HiloBuscador

LEMMA TipoProcesosPaso ==
  ASSUME TypeOK, InvPaginas, Next
  PROVE  TipoProcesos'
<1>0. TipoTablas /\ TipoProcesos /\ InvTablas /\ Pedidos /\ ResidentesEnCola
        /\ algoritmo \in Algoritmos
  BY TypeOKPartes DEF InvPaginas, TipoDatos
<1>1. ASSUME NEW p \in Procesos, CrearEstructuras(p) PROVE TipoProcesos'
  BY <1>0, <1>1 DEF CrearEstructuras, TipoProcesos, hilos
<1>2. ASSUME LiberarPagina PROVE TipoProcesos'
  BY <1>0, <1>2 DEF LiberarPagina, TipoProcesos, procesos
<1>3. ASSUME LimpiarBit PROVE TipoProcesos'
  <2>1. liberador.pid \in Procesos /\ liberador.pagina \in 1 .. Tamanio[liberador.pid]
    BY <1>0, <1>3, HilosTrabajando DEF LimpiarBit, InvTablas, Liberando
  <2>2. liberador.pagina \in 0 .. Cardinality(Paginas) /\ 0 \in 0 .. Cardinality(Paginas)
    BY <2>1, PaginasDeProcesos
  <2>3. liberadas' \in 0 .. Cardinality(Paginas)
    <3>1. liberadas' = liberador.pagina \/ liberadas' = 0
      BY <1>3 DEF LimpiarBit
    <3> QED
      BY <2>2, <3>1
  <2> QED
    BY <1>0, <1>3, <2>3 DEF LimpiarBit, TipoProcesos, tablas
<1>4. ASSUME NEW p \in Procesos, NEW j \in 1 .. Tamanio[p], ObtenerMarco(p, j) PROVE TipoProcesos'
  <2>1. j \in 0 .. Cardinality(Paginas) /\ 0 \in 0 .. Cardinality(Paginas)
    BY PaginasDeProcesos
  <2> QED
    BY Zenon, <1>0, <1>4, <2>1 DEF ObtenerMarco, TipoProcesos
<1>5. ASSUME NEW v \in Valores, Escribir(v) PROVE TipoProcesos'
  <2>1. acceso.pid \in Procesos /\ acceso.pagina \in Paginas
    BY <1>0, <1>5, HilosTrabajando DEF Escribir
  <2>2. [pid |-> acceso.pid, pagina |-> acceso.pagina] \in Pagina
    BY <2>1 DEF Pagina
  <2> QED
    BY <1>0, <1>5, <2>2 DEF Escribir, TipoProcesos, hilos
<1>6. ASSUME Leer PROVE TipoProcesos'
  BY <1>0, <1>6 DEF Leer, TipoProcesos, hilos
<1>7. ASSUME BuscarMarco PROVE TipoProcesos'
  BY <1>0, <1>7 DEF BuscarMarco, TipoProcesos, tablas, procesos
<1>8. ASSUME CargarPagina PROVE TipoProcesos'
  BY ZenonT(30), <1>0, <1>8 DEF CargarPagina, TipoProcesos, Atender
<1>9. ASSUME Reemplazar PROVE TipoProcesos'
  <2>1. PICK p \in Procesos, nueva \in Paginas, i \in Nat : Toma(p, nueva, i)
    BY <1>0, <1>9, TablaReemplazar
  <2>2. vida' \in [Procesos -> {"sin_crear", "listo", "bloqueado", "finalizado"}]
    BY Zenon, <1>0, <2>1 DEF Toma, TipoProcesos
  <2> QED
    BY Zenon, <1>0, <1>9, <2>2 DEF Reemplazar, TipoProcesos
<1>10. ASSUME NEW p \in Procesos, Finalizar(p) PROVE TipoProcesos'
  BY <1>0, <1>10 DEF Finalizar, TipoProcesos, tablas, hilos
<1> QED
  BY <1>1, <1>2, <1>3, <1>4, <1>5, <1>6, <1>7, <1>8, <1>9, <1>10
     DEF Next, HiloKernel, HiloCpu, HiloBuscador

LEMMA VivaPaso ==
  ASSUME TypeOK, InvPaginas, Next
  PROVE  viva' \in BOOLEAN
<1>0. TipoTablas /\ viva \in BOOLEAN /\ InvTablas /\ Pedidos /\ ResidentesEnCola
        /\ algoritmo \in Algoritmos
  BY TypeOKPartes DEF InvPaginas, TipoDatos
<1>1. viva' = viva \/ viva' = FALSE
  <2>1. ASSUME Reemplazar PROVE viva' = viva
    BY <1>0, <2>1, TablaReemplazar DEF Toma
  <2> QED
    BY Zenon, <2>1 DEF Next, HiloKernel, HiloCpu, HiloBuscador, CrearEstructuras, LiberarPagina,
       LimpiarBit, ObtenerMarco, Escribir, Leer, BuscarMarco, CargarPagina, Finalizar
<1> QED
  BY Zenon, <1>0, <1>1

LEMMA TypeOKPaso ==
  ASSUME TypeOK, InvPaginas, Next
  PROVE  TypeOK'
BY TipoTablasPaso, TipoDatosPaso, TipoProcesosPaso, VivaPaso, TypeOKPartesDespues

-----------------------------------------------------------------------------
(* The tables along the life of a process *)

LEMMA InicioPaginas == Init => InvPaginas
<1> SUFFICES ASSUME Init PROVE InvPaginas
  OBVIOUS
<1>1. \A p \in Procesos : vida[p] = "sin_crear" /\ TablaDe(p)
  BY EmptySeq DEF Init, TablaDe
<1>2. PorLiberar /\ Liberando /\ Accesos
  BY DEF Init, PorLiberar, Liberando, Accesos
<1>3. Pedidos
  BY <1>1 DEF Init, Pedidos
<1>4. ResidentesEnCola /\ FaltaUtil
  BY <1>1 DEF ResidentesEnCola, FaltaUtil, Vivos
<1> QED
  BY <1>1, <1>2, <1>3, <1>4 DEF InvPaginas, InvTablas

\* Whoever ended stays so, and only its own requests move a process.
LEMMA TablaDePaso ==
  ASSUME TypeOK, InvPaginas, Next, NEW q \in Procesos
  PROVE  TablaDe(q)'
<1>0. /\ TipoTablas /\ TipoProcesos /\ InvTablas /\ Pedidos /\ ResidentesEnCola
      /\ algoritmo \in Algoritmos /\ puntero_swap \in Nat
      /\ escrito \in [Procesos -> Seq(Contenidos)]
      /\ vida \in [Procesos -> {"sin_crear", "listo", "bloqueado", "finalizado"}]
      /\ reintento \in [Procesos -> 0 .. Cardinality(Paginas)]
  BY TypeOKPartes DEF InvPaginas, TipoDatos, TipoProcesos
<1>00. TablaDe(q) /\ Tamanio[q] \in Nat \ {0}
  BY <1>0, PaginasDeProcesos DEF InvTablas
<1>1. ASSUME NEW p \in Procesos, CrearEstructuras(p) PROVE TablaDe(q)'
  <2>1. /\ Len(tabla[p])' = Tamanio[p]
        /\ \A x \in Procesos \ {p} : tabla'[x] = tabla[x]
    BY <1>0, <1>1, TablaCrearEstructuras
  <2>2. /\ vida[p] = "sin_crear" /\ vida' = [vida EXCEPT ![p] = "listo"]
        /\ escrito' = [escrito EXCEPT ![p] = [j \in 1 .. Tamanio[p] |-> Ceros]]
        /\ frames_ocupados' = frames_ocupados /\ reintento' = reintento
    BY <1>1 DEF CrearEstructuras
  <2>3. CASE q = p
    <3> DEFINE s == [j \in 1 .. Tamanio[p] |-> Ceros]
    <3>1. Len(s) = Tamanio[p]
      BY PaginasDeProcesos
    <3> HIDE DEF s
    <3>2. vida'[q] = "listo" /\ reintento'[q] = 0 /\ escrito'[q] = s
      BY <1>0, <1>00, <2>2, <2>3 DEF TablaDe, s
    <3> QED
      BY <1>00, <2>1, <2>3, <3>1, <3>2 DEF TablaDe
  <2>4. CASE q # p
    BY <1>0, <1>00, <2>1, <2>2, <2>4 DEF TablaDe
  <2> QED
    BY <2>3, <2>4
<1>2. ASSUME LiberarPagina PROVE TablaDe(q)'
  <2>1. Len(tabla[q])' = Len(tabla[q])
    BY <1>0, <1>2, TablaLiberarPagina
  <2> QED
    BY <1>00, <1>2, <2>1 DEF LiberarPagina, TablaDe, procesos
<1>3. ASSUME LimpiarBit PROVE TablaDe(q)'
  <2>1. vida[liberador.pid] = "finalizado"
    BY <1>0, <1>3, HilosTrabajando DEF LimpiarBit, InvTablas, Liberando, PorLiberar
  <2>2. q # liberador.pid => escrito'[q] = escrito[q]
    BY <1>0, <1>3 DEF LimpiarBit
  <2> QED
    BY <1>00, <1>3, <2>1, <2>2 DEF LimpiarBit, TablaDe, tablas
<1>4. ASSUME NEW p \in Procesos, NEW j \in 1 .. Tamanio[p], ObtenerMarco(p, j) PROVE TablaDe(q)'
  <2>1. Len(tabla[q])' = Len(tabla[q])
    BY <1>0, <1>4, TablaObtenerMarco DEF MismosBits
  <2>2. vida[p] = "listo" /\ frames_ocupados' = frames_ocupados /\ escrito' = escrito
    BY <1>4 DEF ObtenerMarco
  <2>3. \/ vida' = vida /\ reintento' = [reintento EXCEPT ![p] = 0]
        \/ vida' = [vida EXCEPT ![p] = "bloqueado"] /\ reintento' = [reintento EXCEPT ![p] = j]
    BY <1>4 DEF ObtenerMarco
  <2>4. CASE q = p
    BY <1>0, <1>00, <2>1, <2>2, <2>3, <2>4 DEF TablaDe
  <2>5. CASE q # p
    BY <1>0, <1>00, <2>1, <2>2, <2>3, <2>5 DEF TablaDe
  <2> QED
    BY <2>4, <2>5
<1>5. ASSUME NEW v \in Valores, Escribir(v) PROVE TablaDe(q)'
  <2>1. Len(tabla[q])' = Len(tabla[q])
    BY <1>0, <1>5, TablaEscribir DEF MismosBits
  <2>2. PICK p \in Procesos, j \in Paginas : p = acceso.pid /\ j = acceso.pagina
    BY <1>0, <1>5, HilosTrabajando DEF Escribir
  <2>3. escrito' = [escrito EXCEPT ![p][j] = <<p, j, v>>]
    BY <1>5, <2>2 DEF Escribir
  <2>4. vida[p] = "listo"
    BY <1>0, <1>5, <2>2 DEF Escribir, InvTablas, Accesos
  <2>5. Len(escrito'[q]) = Len(escrito[q]) /\ (q # p => escrito'[q] = escrito[q])
    <3>1. CASE q # p
      BY <1>0, <2>3, <3>1
    <3>2. CASE q = p
      BY <1>0, <2>3, <3>2
    <3> QED
      BY <3>1, <3>2
  <2>6. vida' = vida /\ reintento' = reintento /\ frames_ocupados' = frames_ocupados
    BY <1>5 DEF Escribir
  <2> QED
    BY <1>00, <2>1, <2>4, <2>5, <2>6 DEF TablaDe
<1>6. ASSUME Leer PROVE TablaDe(q)'
  <2>1. Len(tabla[q])' = Len(tabla[q])
    BY <1>0, <1>6, TablaLeer DEF MismosBits
  <2> QED
    BY <1>00, <1>6, <2>1 DEF Leer, TablaDe
<1>7. ASSUME BuscarMarco PROVE TablaDe(q)'
  BY <1>00, <1>7 DEF BuscarMarco, TablaDe, tablas, procesos
<1>8. ASSUME CargarPagina PROVE TablaDe(q)'
  <2>1. PICK p \in Procesos : p = buscador.pid /\ vida[p] = "bloqueado"
    BY <1>0, <1>8, TablaCargarPagina
  <2>2. Len(tabla[q])' = Len(tabla[q])
    BY <1>0, <1>8, TablaCargarPagina
  <2>3. /\ vida' = [vida EXCEPT ![p] = "listo"] /\ reintento' = reintento /\ escrito' = escrito
        /\ q # p => frames_ocupados'[q] = frames_ocupados[q]
    BY <1>0, <1>8, <2>1 DEF CargarPagina, Atender, TipoTablas
  <2>4. reintento[q] \in 1 .. Tamanio[q] => reintento[q] \in 0 .. Tamanio[q]
    BY <1>00
  <2> QED
    BY <1>0, <1>00, <2>1, <2>2, <2>3, <2>4 DEF TablaDe
<1>9. ASSUME Reemplazar PROVE TablaDe(q)'
  <2>1. PICK p \in Procesos, nueva \in Paginas, i \in Nat : Toma(p, nueva, i)
    BY <1>0, <1>9, TablaReemplazar
  <2>2. /\ vida' = [vida EXCEPT ![p] = "listo"] /\ vida[p] = "bloqueado"
        /\ q # p => frames_ocupados'[q] = frames_ocupados[q]
        /\ Len(tabla[q])' = Len(tabla[q])
    BY ZenonT(30), <1>0, <2>1 DEF Toma, TipoTablas
  <2>3. reintento' = reintento /\ escrito' = escrito
    BY Zenon, <1>9 DEF Reemplazar
  <2>4. reintento[q] \in 1 .. Tamanio[q] => reintento[q] \in 0 .. Tamanio[q]
    BY <1>00
  <2> QED
    BY <1>0, <1>00, <2>2, <2>3, <2>4 DEF TablaDe
<1>10. ASSUME NEW p \in Procesos, Finalizar(p) PROVE TablaDe(q)'
  BY <1>0, <1>00, <1>10 DEF Finalizar, TablaDe, tablas
<1> QED
  BY <1>1, <1>2, <1>3, <1>4, <1>5, <1>6, <1>7, <1>8, <1>9, <1>10
     DEF Next, HiloKernel, HiloCpu, HiloBuscador

\* How the state of the processes changes.
LEMMA VidaPaso ==
  ASSUME TypeOK, InvPaginas, Next
  PROVE  \/ vida' = vida
         \/ \E p \in Procesos : CrearEstructuras(p)
         \/ \E p \in Procesos : \E j \in 1 .. Tamanio[p] :
              ObtenerMarco(p, j) /\ vida' = [vida EXCEPT ![p] = "bloqueado"]
         \/ /\ CargarPagina \/ Reemplazar
            /\ \E p \in Procesos : vida[p] = "bloqueado" /\ vida' = [vida EXCEPT ![p] = "listo"]
         \/ \E p \in Procesos : Finalizar(p)
<1>0. /\ TipoTablas /\ InvTablas /\ Pedidos /\ ResidentesEnCola /\ algoritmo \in Algoritmos
  BY TypeOKPartes DEF InvPaginas, TipoDatos
<1>1. ASSUME CargarPagina
      PROVE  \E p \in Procesos : vida[p] = "bloqueado" /\ vida' = [vida EXCEPT ![p] = "listo"]
  <2>1. PICK p \in Procesos : p = buscador.pid /\ vida[p] = "bloqueado"
    BY <1>0, <1>1, TablaCargarPagina
  <2> QED
    BY Zenon, <1>1, <2>1 DEF CargarPagina, Atender
<1>2. ASSUME Reemplazar
      PROVE  \E p \in Procesos : vida[p] = "bloqueado" /\ vida' = [vida EXCEPT ![p] = "listo"]
  BY <1>0, <1>2, TablaReemplazar DEF Toma
<1>3. ASSUME NEW p \in Procesos, NEW j \in 1 .. Tamanio[p], ObtenerMarco(p, j)
      PROVE  vida' = vida \/ vida' = [vida EXCEPT ![p] = "bloqueado"]
  BY <1>3 DEF ObtenerMarco
<1>4. LiberarPagina \/ LimpiarBit \/ Leer \/ BuscarMarco \/ (\E v \in Valores : Escribir(v))
        => vida' = vida
  BY Zenon DEF LiberarPagina, LimpiarBit, Leer, BuscarMarco, Escribir, procesos
<1>5. CASE HiloKernel
  BY <1>4, <1>5 DEF HiloKernel
<1>6. CASE HiloCpu
  BY <1>3, <1>4, <1>6 DEF HiloCpu
<1>7. CASE HiloBuscador
  BY <1>1, <1>2, <1>4, <1>7 DEF HiloBuscador
<1> QED
  BY <1>5, <1>6, <1>7 DEF Next

LEMMA FinalizadoSigue ==
  ASSUME TypeOK, InvPaginas, Next, NEW q \in Procesos
  PROVE  /\ vida[q] = "finalizado" => vida'[q] = "finalizado"
         /\ vida[q] # "sin_crear" => vida'[q] # "sin_crear"
<1>1. vida \in [Procesos -> {"sin_crear", "listo", "bloqueado", "finalizado"}]
  BY TypeOKPartes DEF TipoProcesos
<1> QED
  BY Zenon, <1>1, VidaPaso DEF CrearEstructuras, ObtenerMarco, Finalizar

LEMMA PorLiberarPaso ==
  ASSUME TypeOK, InvPaginas, Next
  PROVE  PorLiberar'
<1>0. /\ TipoTablas /\ InvTablas /\ por_liberar \in Seq(Procesos) /\ PorLiberar
      /\ vida \in [Procesos -> {"sin_crear", "listo", "bloqueado", "finalizado"}]
  BY TypeOKPartes DEF InvPaginas, InvTablas, TipoTablas, TipoProcesos
<1>1. \A i \in DOMAIN por_liberar : vida'[por_liberar[i]] = "finalizado"
  BY <1>0, FinalizadoSigue DEF PorLiberar
<1>2. CASE por_liberar' = por_liberar
  BY <1>0, <1>1, <1>2 DEF PorLiberar
<1>3. CASE por_liberar # <<>> /\ por_liberar' = Tail(por_liberar)
  <2>1. /\ Len(por_liberar) \in Nat \ {0} /\ DOMAIN por_liberar = 1 .. Len(por_liberar)
        /\ DOMAIN Tail(por_liberar) = 1 .. Len(por_liberar) - 1
        /\ \A i \in 1 .. Len(por_liberar) - 1 :
             i + 1 \in 1 .. Len(por_liberar) /\ Tail(por_liberar)[i] = por_liberar[i + 1]
    BY <1>0, <1>3, EmptySeq, LenProperties, HeadTailProperties
  <2>2. \A i, j \in DOMAIN Tail(por_liberar) :
          Tail(por_liberar)[i] = Tail(por_liberar)[j] => i = j
    <3> TAKE i, j \in DOMAIN Tail(por_liberar)
    <3>1. i \in Int /\ j \in Int /\ i + 1 \in DOMAIN por_liberar /\ j + 1 \in DOMAIN por_liberar
      BY <2>1
    <3>2. por_liberar[i + 1] = por_liberar[j + 1] => i + 1 = j + 1
      BY <1>0, <3>1 DEF PorLiberar
    <3> QED
      BY <2>1, <3>1, <3>2
  <2>3. \A i \in DOMAIN Tail(por_liberar) : vida'[Tail(por_liberar)[i]] = "finalizado"
    BY <1>1, <2>1
  <2> QED
    BY <1>3, <2>2, <2>3 DEF PorLiberar
<1>4. ASSUME NEW p \in Procesos, Finalizar(p) PROVE PorLiberar'
  <2>1. /\ vida[p] = "listo" /\ por_liberar' = Append(por_liberar, p)
        /\ vida' = [vida EXCEPT ![p] = "finalizado"]
    BY <1>4 DEF Finalizar
  <2>2. /\ Len(por_liberar) \in Nat /\ DOMAIN por_liberar = 1 .. Len(por_liberar)
        /\ DOMAIN Append(por_liberar, p) = 1 .. Len(por_liberar) + 1
        /\ \A i \in 1 .. Len(por_liberar) : Append(por_liberar, p)[i] = por_liberar[i]
        /\ Append(por_liberar, p)[Len(por_liberar) + 1] = p
    BY <1>0, AppendProperties, LenProperties
  <2>3. \A i \in DOMAIN por_liberar : por_liberar[i] # p
    BY <1>0, <2>1 DEF PorLiberar
  <2>4. \A i \in 1 .. Len(por_liberar) + 1 : i \in 1 .. Len(por_liberar) \/ i = Len(por_liberar) + 1
    BY <2>2
  <2> QED
    BY <1>0, <1>1, <2>1, <2>2, <2>3, <2>4 DEF PorLiberar
<1>5. \/ por_liberar' = por_liberar
      \/ LimpiarBit /\ por_liberar' = Tail(por_liberar)
      \/ \E p \in Procesos : Finalizar(p)
  BY Zenon DEF Next, HiloKernel, HiloCpu, HiloBuscador, CrearEstructuras, LiberarPagina,
     LimpiarBit, ObtenerMarco, Escribir, Leer, BuscarMarco, CargarPagina, Reemplazar, procesos
<1>6. LimpiarBit => por_liberar # <<>>
  BY <1>0 DEF LimpiarBit, InvTablas, Liberando
<1> QED
  BY <1>2, <1>3, <1>4, <1>5, <1>6

LEMMA LiberandoPaso ==
  ASSUME TypeOK, InvPaginas, Next
  PROVE  Liberando'
<1>0. /\ TipoTablas /\ InvTablas /\ por_liberar \in Seq(Procesos) /\ Liberando
      /\ liberadas \in Nat
  BY TypeOKPartes DEF InvPaginas, InvTablas, TipoTablas
<1>1. CASE UNCHANGED <<por_liberar, liberador, liberadas>>
  BY <1>0, <1>1 DEF Liberando
<1>2. CASE LiberarPagina
  <2>1. PICK h \in Procesos, j \in Nat : h = Head(por_liberar) /\ j = liberadas + 1
    BY <1>0, <1>2, TablaLiberarPagina
  <2>2. j \in 1 .. Tamanio[h] /\ liberadas < Tamanio[h]
    BY <1>0, <1>2, <2>1, PaginasDeProcesos DEF LiberarPagina, Liberando
  <2>3. /\ liberador' = [pid |-> h, pagina |-> j, leido |-> bitmap] /\ por_liberar' = por_liberar
        /\ liberadas' = liberadas /\ por_liberar # <<>>
    BY <1>2, <2>1 DEF LiberarPagina, procesos
  <2> QED
    BY <2>1, <2>2, <2>3 DEF Liberando
<1>3. CASE LimpiarBit
  <2>1. PICK h \in Procesos, j \in Nat : /\ h = liberador.pid /\ j = liberador.pagina
                                         /\ h = Head(por_liberar) /\ j \in 1 .. Tamanio[h]
    BY <1>0, <1>3, HilosTrabajando, PaginasDeProcesos DEF LimpiarBit, Liberando
  <2>2. vida[h] = "finalizado" /\ Len(tabla[h]) = Tamanio[h] /\ por_liberar # <<>>
    BY <1>0, <1>3, <2>1, HilosTrabajando DEF LimpiarBit, InvTablas, Liberando, PorLiberar, TablaDe
  <2>3. liberador' = Libre
    BY <1>3 DEF LimpiarBit
  <2>4. CASE j < Len(tabla[h])
    <3>1. liberadas' = j /\ por_liberar' = por_liberar
      BY <1>3, <2>1, <2>4 DEF LimpiarBit
    <3> QED
      BY <2>1, <2>2, <2>3, <2>4, <3>1 DEF Liberando
  <2>5. CASE ~ (j < Len(tabla[h]))
    <3>1. liberadas' = 0 /\ por_liberar' = Tail(por_liberar)
      BY <1>3, <2>1, <2>5 DEF LimpiarBit
    <3>2. Tail(por_liberar) \in Seq(Procesos)
      BY <1>0, <2>2, HeadTailProperties
    <3>3. Tail(por_liberar) # <<>> => Head(Tail(por_liberar)) \in Procesos
      BY <3>2, HeadTailProperties
    <3>4. Tail(por_liberar) # <<>> => 0 < Tamanio[Head(Tail(por_liberar))]
      BY <3>3, PaginasDeProcesos
    <3> QED
      BY <2>3, <3>1, <3>4 DEF Liberando
  <2> QED
    BY <2>4, <2>5
<1>4. ASSUME NEW p \in Procesos, Finalizar(p) PROVE Liberando'
  <2>1. /\ por_liberar' = Append(por_liberar, p) /\ liberador' = liberador
        /\ liberadas' = liberadas
    BY <1>4 DEF Finalizar, hilos
  <2>2. /\ Append(por_liberar, p) # <<>>
        /\ Head(Append(por_liberar, p)) = IF por_liberar = <<>> THEN p ELSE Head(por_liberar)
    BY <1>0, HeadTailAppend, AppendProperties
  <2>3. 0 < Tamanio[p]
    BY PaginasDeProcesos
  <2>4. CASE por_liberar = <<>>
    BY <1>0, <2>1, <2>2, <2>3, <2>4 DEF Liberando
  <2>5. CASE por_liberar # <<>>
    BY <1>0, <2>1, <2>2, <2>5 DEF Liberando
  <2> QED
    BY <2>4, <2>5
<1>5. \/ UNCHANGED <<por_liberar, liberador, liberadas>> \/ LiberarPagina \/ LimpiarBit
      \/ \E p \in Procesos : Finalizar(p)
  BY Zenon DEF Next, HiloKernel, HiloCpu, HiloBuscador, CrearEstructuras, ObtenerMarco, Escribir,
     Leer, BuscarMarco, CargarPagina, Reemplazar, procesos, hilos
<1> QED
  BY <1>1, <1>2, <1>3, <1>4, <1>5

LEMMA AccesosPaso ==
  ASSUME TypeOK, InvPaginas, Next
  PROVE  Accesos'
<1>0. /\ TipoTablas /\ InvTablas /\ Accesos
      /\ vida \in [Procesos -> {"sin_crear", "listo", "bloqueado", "finalizado"}]
      /\ reintento \in [Procesos -> 0 .. Cardinality(Paginas)]
      /\ ultima_escritura \in {Libre} \cup Pagina
  BY TypeOKPartes DEF InvPaginas, InvTablas, TipoTablas, TipoProcesos
<1> DEFINE DelAcceso == acceso # Libre => /\ vida[acceso.pid] = "listo"
                                          /\ reintento[acceso.pid] = 0
                                          /\ acceso.pagina \in 1 .. Tamanio[acceso.pid]
           DeLaEscritura == ultima_escritura # Libre =>
                                /\ vida[ultima_escritura.pid] # "sin_crear"
                                /\ ultima_escritura.pagina \in 1 .. Tamanio[ultima_escritura.pid]
<1>1. DeLaEscritura'
  <2>1. CASE ultima_escritura' = ultima_escritura
    <3>1. ultima_escritura # Libre => ultima_escritura.pid \in Procesos
      BY <1>0 DEF Pagina
    <3> QED
      BY <1>0, <2>1, <3>1, FinalizadoSigue DEF Accesos
  <2>2. ASSUME NEW v \in Valores, Escribir(v) PROVE DeLaEscritura'
    <3>1. /\ ultima_escritura' = [pid |-> acceso.pid, pagina |-> acceso.pagina]
          /\ acceso # Libre /\ vida' = vida
      BY <2>2 DEF Escribir
    <3> QED
      BY <1>0, <3>1 DEF Accesos
  <2>3. ultima_escritura' = ultima_escritura \/ \E v \in Valores : Escribir(v)
    BY Zenon DEF Next, HiloKernel, HiloCpu, HiloBuscador, CrearEstructuras, ObtenerMarco,
       Leer, BuscarMarco, CargarPagina, Reemplazar, LiberarPagina, LimpiarBit, Finalizar, tablas
  <2> QED
    BY <2>1, <2>2, <2>3
<1>2. DelAcceso'
  <2>1. ASSUME NEW p \in Procesos, NEW j \in 1 .. Tamanio[p], ObtenerMarco(p, j) PROVE DelAcceso'
    <3>1. /\ acceso = Libre /\ vida[p] = "listo"
          /\ \/ /\ acceso' = [pid |-> p, pagina |-> j, marco |-> tabla[p][j].frame]
                /\ reintento' = [reintento EXCEPT ![p] = 0] /\ vida' = vida
             \/ acceso' = acceso
      BY <2>1 DEF ObtenerMarco
    <3> QED
      BY <1>0, <3>1
  <2>2. CASE acceso' = Libre
    BY <2>2
  <2>3. CASE acceso' = acceso /\ acceso # Libre /\ ~ \E p \in Procesos : \E j \in 1 .. Tamanio[p] : ObtenerMarco(p, j)
    <3>1. acceso.pid \in Procesos /\ vida[acceso.pid] = "listo" /\ reintento[acceso.pid] = 0
      BY <1>0, <2>3, HilosTrabajando DEF Accesos
    <3>2. vida'[acceso.pid] = "listo"
      <4>1. \A p \in Procesos : ~ Finalizar(p)
        BY <2>3 DEF Finalizar
      <4>2. \A p \in Procesos : CrearEstructuras(p) => p # acceso.pid
        BY <3>1 DEF CrearEstructuras
      <4> QED
        BY <1>0, <2>3, <3>1, <4>1, <4>2, VidaPaso DEF CrearEstructuras
    <3>3. reintento' = reintento
      BY ZenonT(30), <2>3 DEF Next, HiloKernel, HiloCpu, HiloBuscador, CrearEstructuras, Escribir,
         Leer, BuscarMarco, CargarPagina, Reemplazar, LiberarPagina, LimpiarBit, Finalizar,
         procesos
    <3> QED
      BY <1>0, <2>3, <3>1, <3>2, <3>3 DEF Accesos
  <2>4. \/ acceso' = Libre \/ acceso' = acceso
        \/ \E p \in Procesos : \E j \in 1 .. Tamanio[p] : ObtenerMarco(p, j)
    BY Zenon DEF Next, HiloKernel, HiloCpu, HiloBuscador, CrearEstructuras, Escribir,
       Leer, BuscarMarco, CargarPagina, Reemplazar, LiberarPagina, LimpiarBit, Finalizar,
       procesos
  <2>5. CASE acceso' = acceso /\ acceso = Libre
    BY <2>5
  <2> QED
    BY <2>1, <2>2, <2>3, <2>4, <2>5
<1> QED
  BY <1>1, <1>2 DEF Accesos

LEMMA InvTablasPaso ==
  ASSUME TypeOK, InvPaginas, Next
  PROVE  InvTablas'
BY TablaDePaso, PorLiberarPaso, LiberandoPaso, AccesosPaso DEF InvTablas

-----------------------------------------------------------------------------
(* The requests of frames *)

LEMMA PedidosDeProcesos ==
  ASSUME TipoTablas, NEW i \in DOMAIN pendientes
  PROVE  pendientes[i].pid \in Procesos /\ pendientes[i].pagina \in Paginas
<1>1. pendientes \in Seq(Pagina)
  BY DEF TipoTablas
<1>2. pendientes[i] \in Pagina
  BY <1>1, LenProperties
<1> QED
  BY <1>2 DEF Pagina

\* Nothing that matters to the processes blocked.
LEMMA PedidosQuietos ==
  ASSUME TipoTablas, Pedidos, UNCHANGED <<pendientes, buscador>>, viva' => viva,
         \A q \in Procesos : vida'[q] = "bloqueado" <=> vida[q] = "bloqueado",
         \A q \in Procesos : vida[q] = "bloqueado" =>
           reintento'[q] = reintento[q] /\ Presentes(q)' = Presentes(q)
  PROVE  Pedidos'
<1>1. \A i \in DOMAIN pendientes : pendientes[i].pid \in Procesos
  BY PedidosDeProcesos
<1>2. \A i \in DOMAIN pendientes : /\ vida'[pendientes[i].pid] = "bloqueado"
                                   /\ pendientes[i].pagina = reintento'[pendientes[i].pid]
  BY <1>1 DEF Pedidos
<1>3. \A p \in Procesos : buscador # Libre /\ buscador.pid = p =>
       /\ vida'[p] = "bloqueado" /\ buscador.pagina = reintento'[p]
       /\ \A i \in DOMAIN pendientes : pendientes[i].pid # p
       /\ Cardinality(Presentes(p)') < MARCOS_POR_PROCESO
  BY DEF Pedidos
<1>4. \A p \in Procesos : vida'[p] = "bloqueado" =>
       /\ reintento'[p] \notin Presentes(p)'
       /\ viva' => \/ \E i \in DOMAIN pendientes : pendientes[i].pid = p
                   \/ buscador # Libre /\ buscador.pid = p
  BY DEF Pedidos
<1>5. \A i, j \in DOMAIN pendientes : pendientes[i].pid = pendientes[j].pid => i = j
  BY DEF Pedidos
<1> QED
  BY <1>2, <1>3, <1>4, <1>5 DEF Pedidos

\* The first request is taken: the others, one place ahead.
LEMMA PrimerPedido ==
  ASSUME TipoTablas, Pedidos, pendientes # <<>>
  PROVE  /\ Head(pendientes) = pendientes[1] /\ 1 \in DOMAIN pendientes
         /\ \A i \in DOMAIN Tail(pendientes) :
              i + 1 \in DOMAIN pendientes /\ Tail(pendientes)[i] = pendientes[i + 1]
                /\ Tail(pendientes)[i].pid # Head(pendientes).pid
         /\ \A i \in DOMAIN pendientes : i = 1 \/ \E j \in DOMAIN Tail(pendientes) :
              pendientes[i] = Tail(pendientes)[j]
         /\ \A i, j \in DOMAIN Tail(pendientes) :
              Tail(pendientes)[i].pid = Tail(pendientes)[j].pid => i = j
<1>1. /\ Len(pendientes) \in Nat \ {0} /\ DOMAIN pendientes = 1 .. Len(pendientes)
      /\ DOMAIN Tail(pendientes) = 1 .. Len(pendientes) - 1
      /\ \A i \in 1 .. Len(pendientes) - 1 : Tail(pendientes)[i] = pendientes[i + 1]
      /\ Head(pendientes) = pendientes[1]
  BY EmptySeq, LenProperties, HeadTailProperties DEF TipoTablas
<1>0. PICK n \in Nat \ {0} : n = Len(pendientes)
  BY Zenon, <1>1
<1>2. /\ \A i \in 1 .. n - 1 : i + 1 \in 1 .. n /\ i + 1 # 1
      /\ \A i \in 1 .. n : i = 1 \/ (i - 1 \in 1 .. n - 1 /\ i - 1 + 1 = i)
      /\ \A i, j \in 1 .. n - 1 : i + 1 = j + 1 => i = j
      /\ 1 \in 1 .. n
  OBVIOUS
<1>3. \A i, j \in 1 .. n : pendientes[i].pid = pendientes[j].pid => i = j
  BY <1>0, <1>1 DEF Pedidos
<1>4. \A i \in 1 .. n : i = 1 \/ \E j \in 1 .. n - 1 : pendientes[i] = Tail(pendientes)[j]
  BY <1>0, <1>1, <1>2
<1>5. \A i \in 1 .. n - 1 : i + 1 \in 1 .. n /\ Tail(pendientes)[i] = pendientes[i + 1]
                              /\ Tail(pendientes)[i].pid # Head(pendientes).pid
  BY <1>0, <1>1, <1>2, <1>3
<1>6. \A i, j \in 1 .. n - 1 : Tail(pendientes)[i].pid = Tail(pendientes)[j].pid => i = j
  <2> SUFFICES ASSUME NEW i \in 1 .. n - 1, NEW j \in 1 .. n - 1,
                      Tail(pendientes)[i].pid = Tail(pendientes)[j].pid
               PROVE  i = j
    OBVIOUS
  <2>1. i + 1 \in 1 .. n /\ j + 1 \in 1 .. n
          /\ pendientes[i + 1].pid = pendientes[j + 1].pid
    BY Zenon, <1>5
  <2>2. i + 1 = j + 1
    BY <1>3, <2>1
  <2> QED
    BY <2>2
<1>7. /\ Head(pendientes) = pendientes[1] /\ 1 \in 1 .. n
      /\ DOMAIN pendientes = 1 .. n /\ DOMAIN Tail(pendientes) = 1 .. n - 1
  BY <1>0, <1>1, <1>2
<1> QED
  BY Zenon, <1>4, <1>5, <1>6, <1>7

LEMMA PedidosPaso ==
  ASSUME TypeOK, InvPaginas, Next
  PROVE  Pedidos'
<1>0. /\ TipoTablas /\ InvTablas /\ Pedidos /\ ResidentesEnCola /\ algoritmo \in Algoritmos
      /\ puntero_swap \in Nat
      /\ vida \in [Procesos -> {"sin_crear", "listo", "bloqueado", "finalizado"}]
      /\ reintento \in [Procesos -> 0 .. Cardinality(Paginas)]
  BY TypeOKPartes DEF InvPaginas, TipoDatos, TipoProcesos
<1>00. \A i \in DOMAIN pendientes : pendientes[i].pid \in Procesos /\ pendientes[i].pagina \in Paginas
  BY <1>0, PedidosDeProcesos
<1>1. ASSUME NEW p \in Procesos, CrearEstructuras(p) PROVE Pedidos'
  <2>1. \A q \in Procesos \ {p} : Presentes(q)' = Presentes(q)
    BY <1>0, <1>1, PresentesCrear
  <2> QED
    BY <1>0, <1>1, <2>1, PedidosQuietos DEF CrearEstructuras, hilos
<1>2. ASSUME LiberarPagina PROVE Pedidos'
  <2>1. PICK h \in Procesos : h = Head(por_liberar) /\ vida[h] = "finalizado"
    BY <1>0, <1>2, TablaLiberarPagina
  <2>2. \A q \in Procesos \ {h} : Presentes(q)' = Presentes(q)
    BY <1>0, <1>2, <2>1, PresentesLiberar
  <2> QED
    BY <1>0, <1>2, <2>1, <2>2, PedidosQuietos DEF LiberarPagina, procesos
<1>3. ASSUME LimpiarBit PROVE Pedidos'
  <2>1. \A q \in Procesos : Presentes(q)' = Presentes(q)
    BY <1>3, PresentesDeOtro DEF LimpiarBit, tablas
  <2> QED
    BY <1>0, <1>3, <2>1, PedidosQuietos DEF LimpiarBit
<1>4. ASSUME NEW p \in Procesos, NEW j \in 1 .. Tamanio[p], ObtenerMarco(p, j) PROVE Pedidos'
  <2>1. \A q \in Procesos : Presentes(q)' = Presentes(q)
    BY <1>0, <1>4, TablaObtenerMarco, PresentesIguales
  <2>2. vida[p] = "listo" /\ viva' = viva /\ buscador' = buscador
    BY <1>4 DEF ObtenerMarco
  <2>3. CASE tabla[p][j].presencia = 1
    <3>1. vida' = vida /\ pendientes' = pendientes /\ reintento' = [reintento EXCEPT ![p] = 0]
      BY <1>4, <2>3 DEF ObtenerMarco
    <3> QED
      BY <1>0, <2>1, <2>2, <3>1, PedidosQuietos
  <2>4. CASE tabla[p][j].presencia # 1
    <3> DEFINE e == [pid |-> p, pagina |-> j]
    <3>1. /\ vida' = [vida EXCEPT ![p] = "bloqueado"] /\ pendientes' = Append(pendientes, e)
          /\ reintento' = [reintento EXCEPT ![p] = j]
      BY <1>4, <2>4 DEF ObtenerMarco
    <3>2. e \in Pagina /\ e.pid = p /\ e.pagina = j /\ j \in 0 .. Cardinality(Paginas)
      BY PaginasDeProcesos DEF Pagina
    <3> HIDE DEF e
    <3>3. /\ Len(pendientes) \in Nat /\ DOMAIN pendientes = 1 .. Len(pendientes)
          /\ DOMAIN pendientes' = 1 .. Len(pendientes) + 1
          /\ \A i \in 1 .. Len(pendientes) : pendientes'[i] = pendientes[i]
          /\ pendientes'[Len(pendientes) + 1] = e
      BY <1>0, <3>1, <3>2, AppendProperties, LenProperties DEF TipoTablas
    <3>0. PICK n \in Nat : n = Len(pendientes)
      BY Zenon, <3>3
    <3>4. \A i \in 1 .. n + 1 : i \in 1 .. n \/ i = n + 1
      OBVIOUS
    <3>40. 1 .. n \subseteq 1 .. n + 1 /\ n + 1 \in 1 .. n + 1
      OBVIOUS
    <3>5. \A i \in 1 .. n : pendientes[i].pid # p /\ pendientes[i].pid \in Procesos
                              /\ vida[pendientes[i].pid] = "bloqueado"
                              /\ pendientes[i].pagina = reintento[pendientes[i].pid]
      BY <1>0, <1>00, <2>2, <3>0, <3>3 DEF Pedidos
    <3>6. \A q \in Procesos \ {p} : vida'[q] = vida[q] /\ reintento'[q] = reintento[q]
      BY <1>0, <3>1
    <3>7. vida'[p] = "bloqueado" /\ reintento'[p] = j /\ j \notin Presentes(p)
      BY <1>0, <2>4, <3>1 DEF Presentes
    <3>8. \A i \in DOMAIN pendientes' : /\ vida'[pendientes'[i].pid] = "bloqueado"
                                        /\ pendientes'[i].pagina = reintento'[pendientes'[i].pid]
      BY <3>0, <3>2, <3>3, <3>4, <3>5, <3>6, <3>7
    <3>9. \A i, k \in DOMAIN pendientes' : pendientes'[i].pid = pendientes'[k].pid => i = k
      <4>1. \A i, k \in 1 .. n : pendientes[i].pid = pendientes[k].pid => i = k
        BY Zenon, <1>0, <3>0, <3>3 DEF Pedidos
      <4> QED
        BY <3>0, <3>2, <3>3, <3>4, <3>5, <4>1
    <3>10. \A q \in Procesos : buscador' # Libre /\ buscador'.pid = q =>
             /\ vida'[q] = "bloqueado" /\ buscador'.pagina = reintento'[q]
             /\ \A i \in DOMAIN pendientes' : pendientes'[i].pid # q
             /\ Cardinality(Presentes(q)') < MARCOS_POR_PROCESO
      <4> SUFFICES ASSUME NEW q \in Procesos, buscador # Libre, buscador.pid = q
                   PROVE  /\ vida'[q] = "bloqueado" /\ buscador.pagina = reintento'[q]
                          /\ \A i \in DOMAIN pendientes' : pendientes'[i].pid # q
                          /\ Cardinality(Presentes(q)') < MARCOS_POR_PROCESO
        BY <2>2
      <4>1. /\ vida[q] = "bloqueado" /\ buscador.pagina = reintento[q]
            /\ \A i \in DOMAIN pendientes : pendientes[i].pid # q
            /\ Cardinality(Presentes(q)) < MARCOS_POR_PROCESO
        BY <1>0 DEF Pedidos
      <4>2. q # p
        BY <2>2, <4>1
      <4> QED
        BY <2>1, <3>0, <3>2, <3>3, <3>4, <3>6, <4>1, <4>2
    <3>11. \A q \in Procesos : vida'[q] = "bloqueado" =>
             /\ reintento'[q] \notin Presentes(q)'
             /\ viva' => \/ \E i \in DOMAIN pendientes' : pendientes'[i].pid = q
                         \/ buscador' # Libre /\ buscador'.pid = q
      <4>1. \A q \in Procesos \ {p} : vida[q] = "bloqueado" =>
             /\ reintento[q] \notin Presentes(q)
             /\ viva => \/ \E i \in DOMAIN pendientes : pendientes[i].pid = q
                        \/ buscador # Libre /\ buscador.pid = q
        BY <1>0 DEF Pedidos
      <4>2. \A i \in DOMAIN pendientes : i \in DOMAIN pendientes' /\ pendientes'[i] = pendientes[i]
        BY <3>0, <3>3, <3>40
      <4>3. \E i \in DOMAIN pendientes' : pendientes'[i].pid = p
        BY <3>0, <3>2, <3>3, <3>40
      <4> QED
        BY <2>1, <2>2, <3>6, <3>7, <4>1, <4>2, <4>3
    <3> QED
      BY <3>8, <3>9, <3>10, <3>11 DEF Pedidos
  <2> QED
    BY <2>3, <2>4
<1>5. ASSUME NEW v \in Valores, Escribir(v) PROVE Pedidos'
  <2>1. \A q \in Procesos : Presentes(q)' = Presentes(q)
    BY <1>0, <1>5, TablaEscribir, PresentesIguales
  <2> QED
    BY <1>0, <1>5, <2>1, PedidosQuietos DEF Escribir, hilos
<1>6. ASSUME Leer PROVE Pedidos'
  <2>1. \A q \in Procesos : Presentes(q)' = Presentes(q)
    BY <1>0, <1>6, TablaLeer, PresentesIguales
  <2>2. viva' => viva
    BY Zenon, <1>6 DEF Leer
  <2> QED
    BY <1>0, <1>6, <2>1, <2>2, PedidosQuietos DEF Leer, hilos
<1>7. ASSUME BuscarMarco PROVE Pedidos'
  <2>0. pendientes # <<>> /\ buscador = Libre /\ pendientes' = Tail(pendientes)
          /\ vida' = vida /\ reintento' = reintento
    BY <1>7 DEF BuscarMarco, SacarPendiente, procesos
  <2>1. \A q \in Procesos : Presentes(q)' = Presentes(q)
    BY <1>7, PresentesDeOtro DEF BuscarMarco, tablas
  <2>2. PICK h \in Procesos : h = Head(pendientes).pid
    BY <1>0, <2>0, HilosTrabajando
  <2>3. /\ Head(pendientes) = pendientes[1] /\ 1 \in DOMAIN pendientes
        /\ \A i \in DOMAIN Tail(pendientes) :
             i + 1 \in DOMAIN pendientes /\ Tail(pendientes)[i] = pendientes[i + 1]
               /\ Tail(pendientes)[i].pid # h
        /\ \A i \in DOMAIN pendientes : i = 1 \/ \E j \in DOMAIN Tail(pendientes) :
             pendientes[i] = Tail(pendientes)[j]
        /\ \A i, j \in DOMAIN Tail(pendientes) :
             Tail(pendientes)[i].pid = Tail(pendientes)[j].pid => i = j
    BY <1>0, <2>0, <2>2, PrimerPedido
  <2>4. vida[h] = "bloqueado" /\ Head(pendientes).pagina = reintento[h]
    BY <1>0, <2>2, <2>3 DEF Pedidos
  <2>5. \A i \in DOMAIN pendientes' : /\ vida'[pendientes'[i].pid] = "bloqueado"
                                      /\ pendientes'[i].pagina = reintento'[pendientes'[i].pid]
    BY <1>0, <2>0, <2>3 DEF Pedidos
  <2>6. Cardinality(Presentes(h)) < MARCOS_POR_PROCESO
    <3>1. MARCOS_POR_PROCESO > Ocupados(h)
      BY <1>7, <2>2 DEF BuscarMarco
    <3>2. Ocupados(h) = Cardinality(Presentes(h))
      BY DEF Ocupados, Presentes
    <3>3. IsFiniteSet(Presentes(h)) /\ Cardinality(Presentes(h)) \in Nat
      <4>1. tabla[h] \in Seq(Registro) /\ Presentes(h) \in SUBSET DOMAIN tabla[h]
        BY <1>0, DominiosDeTabla DEF Presentes
      <4> HIDE DEF Registro
      <4> QED
        BY <4>1, PosicionesFinitas
    <3> QED
      BY <3>1, <3>2, <3>3, MemoriaAssumption
  <2>7. \/ viva' = FALSE /\ buscador' = buscador
        \/ /\ viva' = viva /\ buscador' # Libre
           /\ buscador'.pid = h /\ buscador'.pagina = Head(pendientes).pagina
    <3>1. \/ viva' = FALSE /\ buscador' = buscador
          \/ /\ viva' = viva
             /\ buscador' = [pid |-> h, pagina |-> Head(pendientes).pagina,
                             marco |-> MarcoLibre, leido |-> bitmap]
      BY <1>7, <2>2 DEF BuscarMarco
    <3> QED
      BY <3>1, MemoriaAssumption DEF Libre
  <2>8. \A q \in Procesos : buscador' # Libre /\ buscador'.pid = q =>
             /\ vida'[q] = "bloqueado" /\ buscador'.pagina = reintento'[q]
             /\ \A i \in DOMAIN pendientes' : pendientes'[i].pid # q
             /\ Cardinality(Presentes(q)') < MARCOS_POR_PROCESO
    BY <2>0, <2>1, <2>3, <2>4, <2>6, <2>7
  <2>9. \A q \in Procesos : vida'[q] = "bloqueado" =>
             /\ reintento'[q] \notin Presentes(q)'
             /\ viva' => \/ \E i \in DOMAIN pendientes' : pendientes'[i].pid = q
                         \/ buscador' # Libre /\ buscador'.pid = q
    <3> SUFFICES ASSUME NEW q \in Procesos, vida[q] = "bloqueado"
                 PROVE  /\ reintento[q] \notin Presentes(q)'
                        /\ viva' => \/ \E i \in DOMAIN pendientes' : pendientes'[i].pid = q
                                    \/ buscador' # Libre /\ buscador'.pid = q
      BY <2>0
    <3>1. reintento[q] \notin Presentes(q)'
      BY <1>0, <2>1 DEF Pedidos
    <3>2. viva => \E i \in DOMAIN pendientes : pendientes[i].pid = q
      BY <1>0, <2>0 DEF Pedidos
    <3> QED
      BY <2>0, <2>2, <2>3, <2>7, <3>1, <3>2
  <2> QED
    BY <2>0, <2>3, <2>5, <2>8, <2>9 DEF Pedidos
<1>8. ASSUME CargarPagina PROVE Pedidos'
  <2>1. PICK p \in Procesos : p = buscador.pid /\ vida[p] = "bloqueado"
    BY <1>0, <1>8, TablaCargarPagina
  <2>2. \A q \in Procesos \ {p} : Presentes(q)' = Presentes(q)
    BY Zenon, <1>0, <1>8, <2>1, PresentesCargar
  <2>3. /\ vida' = [vida EXCEPT ![p] = "listo"] /\ reintento' = reintento
        /\ pendientes' = pendientes /\ buscador' = Libre /\ viva' = viva /\ buscador # Libre
    BY <1>8, <2>1 DEF CargarPagina, Atender
  <2>4. \A i \in DOMAIN pendientes : pendientes[i].pid # p
    BY <1>0, <2>1, <2>3 DEF Pedidos
  <2>5. /\ vida'[p] # "bloqueado"
        /\ \A q \in Procesos \ {p} : vida'[q] = vida[q]
    BY <1>0, <2>3
  <2>6. \A i \in DOMAIN pendientes : /\ vida'[pendientes[i].pid] = "bloqueado"
                                     /\ pendientes[i].pagina = reintento[pendientes[i].pid]
    BY <1>0, <1>00, <2>4, <2>5 DEF Pedidos
  <2>7. \A q \in Procesos : vida'[q] = "bloqueado" =>
             /\ reintento[q] \notin Presentes(q)'
             /\ viva => \E i \in DOMAIN pendientes : pendientes[i].pid = q
    BY <1>0, <2>1, <2>2, <2>5 DEF Pedidos
  <2>8. \A i, j \in DOMAIN pendientes : pendientes[i].pid = pendientes[j].pid => i = j
    BY <1>0 DEF Pedidos
  <2> QED
    BY <2>3, <2>6, <2>7, <2>8 DEF Pedidos
<1>9. ASSUME Reemplazar PROVE Pedidos'
  <2>0. pendientes # <<>> /\ buscador = Libre /\ pendientes' = Tail(pendientes)
          /\ reintento' = reintento /\ buscador' = buscador
    BY Zenon, <1>9 DEF Reemplazar, SacarPendiente
  <2>1. PICK p \in Procesos, nueva \in Paginas, i \in Nat : Toma(p, nueva, i)
    BY <1>0, <1>9, TablaReemplazar
  <2>2. \A q \in Procesos \ {p} : Presentes(q)' = Presentes(q)
    BY <1>0, <2>1, PresentesToma
  <2>3. /\ vida' = [vida EXCEPT ![p] = "listo"] /\ p = Head(pendientes).pid /\ viva' = viva
    BY Zenon, <2>1 DEF Toma
  <2>4. /\ Head(pendientes) = pendientes[1] /\ 1 \in DOMAIN pendientes
        /\ \A k \in DOMAIN Tail(pendientes) :
             k + 1 \in DOMAIN pendientes /\ Tail(pendientes)[k] = pendientes[k + 1]
               /\ Tail(pendientes)[k].pid # p
        /\ \A k \in DOMAIN pendientes : k = 1 \/ \E j \in DOMAIN Tail(pendientes) :
             pendientes[k] = Tail(pendientes)[j]
        /\ \A k, j \in DOMAIN Tail(pendientes) :
             Tail(pendientes)[k].pid = Tail(pendientes)[j].pid => k = j
    BY <1>0, <2>0, <2>3, PrimerPedido
  <2>5. /\ vida'[p] # "bloqueado"
        /\ \A q \in Procesos \ {p} : vida'[q] = vida[q]
    BY <1>0, <2>3
  <2>6. \A k \in DOMAIN Tail(pendientes) :
          /\ vida'[Tail(pendientes)[k].pid] = "bloqueado"
          /\ Tail(pendientes)[k].pagina = reintento[Tail(pendientes)[k].pid]
    BY <1>0, <1>00, <2>4, <2>5 DEF Pedidos
  <2>7. \A q \in Procesos : vida'[q] = "bloqueado" =>
             /\ reintento[q] \notin Presentes(q)'
             /\ viva => \E k \in DOMAIN Tail(pendientes) : Tail(pendientes)[k].pid = q
    <3> SUFFICES ASSUME NEW q \in Procesos, vida'[q] = "bloqueado"
                 PROVE  /\ reintento[q] \notin Presentes(q)'
                        /\ viva => \E k \in DOMAIN Tail(pendientes) : Tail(pendientes)[k].pid = q
      OBVIOUS
    <3>1. q # p /\ vida[q] = "bloqueado"
      BY <2>5
    <3>2. /\ reintento[q] \notin Presentes(q)
          /\ viva => \E k \in DOMAIN pendientes : pendientes[k].pid = q
      BY <1>0, <2>0, <3>1 DEF Pedidos
    <3> QED
      BY <2>2, <2>3, <2>4, <3>1, <3>2
  <2> QED
    BY <2>0, <2>3, <2>4, <2>6, <2>7 DEF Pedidos
<1>10. ASSUME NEW p \in Procesos, Finalizar(p) PROVE Pedidos'
  <2>1. \A q \in Procesos : Presentes(q)' = Presentes(q)
    BY <1>10, PresentesDeOtro DEF Finalizar, tablas
  <2> QED
    BY <1>0, <1>10, <2>1, PedidosQuietos DEF Finalizar, hilos
<1> QED
  BY <1>1, <1>2, <1>3, <1>4, <1>5, <1>6, <1>7, <1>8, <1>9, <1>10
     DEF Next, HiloKernel, HiloCpu, HiloBuscador

-----------------------------------------------------------------------------
(* The queues of the replacement *)

LEMMA LargoDeCola ==
  ASSUME NEW s \in Seq(Paginas), IsInjective(s)
  PROVE  Cardinality(ToSet(s)) = Len(s)
<1>1. \A i, j \in DOMAIN s : s[i] = s[j] => i = j
  BY DEF IsInjective
<1> DEFINE I == DOMAIN s
<1>2. I \in SUBSET DOMAIN s
  OBVIOUS
<1>3. Cardinality(I) = Cardinality({s[i] : i \in I})
  <2> HIDE DEF I
  <2> QED
    BY <1>1, <1>2, ContarUnicos
<1>4. Cardinality(1 .. Len(s)) = Len(s)
  <2>1. Len(s) \in Nat
    BY LenProperties
  <2>2. Cardinality(1 .. Len(s)) = IF 1 > Len(s) THEN 0 ELSE Len(s) - 1 + 1
    BY <2>1, FS_Interval
  <2> QED
    BY <2>1, <2>2
<1>5. I = 1 .. Len(s)
  BY LenProperties
<1> QED
  BY <1>3, <1>4, <1>5 DEF ToSet

LEMMA EnColaPaso ==
  ASSUME TypeOK, InvPaginas, Next, NEW q \in Procesos, vida'[q] \in {"listo", "bloqueado"}
  PROVE  EnCola(q)'
<1>0. /\ TipoTablas /\ InvTablas /\ Pedidos /\ ResidentesEnCola /\ algoritmo \in Algoritmos
      /\ puntero_swap \in Nat /\ frames_ocupados \in [Procesos -> Seq(Paginas)]
      /\ vida \in [Procesos -> {"sin_crear", "listo", "bloqueado", "finalizado"}]
  BY TypeOKPartes DEF InvPaginas, TipoDatos, TipoProcesos, TipoTablas
<1>00. vida[q] \in {"listo", "bloqueado"} => EnCola(q)
  BY <1>0 DEF ResidentesEnCola, Vivos, EnCola
<1>01. ASSUME vida[q] \in {"listo", "bloqueado"}, frames_ocupados'[q] = frames_ocupados[q],
              Presentes(q)' = Presentes(q)
       PROVE  EnCola(q)'
  BY <1>00, <1>01 DEF EnCola
<1>1. ASSUME NEW p \in Procesos, CrearEstructuras(p) PROVE EnCola(q)'
  <2>1. /\ vida[p] = "sin_crear" /\ vida' = [vida EXCEPT ![p] = "listo"]
        /\ frames_ocupados' = frames_ocupados
    BY <1>1 DEF CrearEstructuras
  <2>2. Presentes(p)' = {} /\ \A x \in Procesos \ {p} : Presentes(x)' = Presentes(x)
    BY <1>0, <1>1, PresentesCrear
  <2>3. CASE q = p
    <3>1. frames_ocupados[q] = <<>>
      BY <1>0, <2>1, <2>3 DEF InvTablas, TablaDe
    <3>2. ToSet(frames_ocupados[q]) = {} /\ IsInjective(frames_ocupados[q])
            /\ Len(frames_ocupados[q]) = 0
      BY <3>1 DEF ToSet, IsInjective
    <3> QED
      BY <2>1, <2>2, <2>3, <3>2, MemoriaAssumption DEF EnCola
  <2>4. CASE q # p
    BY <1>0, <1>01, <2>1, <2>2, <2>4
  <2> QED
    BY <2>3, <2>4
<1>2. ASSUME LiberarPagina PROVE EnCola(q)'
  <2>1. PICK h \in Procesos : h = Head(por_liberar) /\ vida[h] = "finalizado"
    BY <1>0, <1>2, TablaLiberarPagina
  <2>2. vida' = vida /\ frames_ocupados' = frames_ocupados
    BY <1>2 DEF LiberarPagina, procesos
  <2>3. q # h
    BY <2>1, <2>2
  <2>4. Presentes(q)' = Presentes(q)
    BY <1>0, <1>2, <2>1, <2>3, PresentesLiberar
  <2> QED
    BY <1>01, <2>2, <2>4
<1>3. ASSUME LimpiarBit PROVE EnCola(q)'
  BY <1>01, <1>3, PresentesDeOtro DEF LimpiarBit, tablas
<1>4. ASSUME NEW p \in Procesos, NEW j \in 1 .. Tamanio[p], ObtenerMarco(p, j) PROVE EnCola(q)'
  <2>1. Presentes(q)' = Presentes(q)
    BY <1>0, <1>4, TablaObtenerMarco, PresentesIguales
  <2>2. frames_ocupados' = frames_ocupados /\ vida[q] \in {"listo", "bloqueado"}
    BY <1>0, <1>4 DEF ObtenerMarco
  <2> QED
    BY <1>01, <2>1, <2>2
<1>5. ASSUME NEW v \in Valores, Escribir(v) PROVE EnCola(q)'
  <2>1. Presentes(q)' = Presentes(q)
    BY <1>0, <1>5, TablaEscribir, PresentesIguales
  <2> QED
    BY <1>01, <1>5, <2>1 DEF Escribir
<1>6. ASSUME Leer PROVE EnCola(q)'
  <2>1. Presentes(q)' = Presentes(q)
    BY <1>0, <1>6, TablaLeer, PresentesIguales
  <2> QED
    BY <1>01, <1>6, <2>1 DEF Leer
<1>7. ASSUME BuscarMarco PROVE EnCola(q)'
  BY <1>01, <1>7, PresentesDeOtro DEF BuscarMarco, tablas, procesos
<1>8. ASSUME CargarPagina PROVE EnCola(q)'
  <2>1. PICK p \in Procesos, j \in Paginas : /\ p = buscador.pid /\ vida[p] = "bloqueado"
                                             /\ j = buscador.pagina /\ j \notin Presentes(p)
    BY <1>0, <1>8, TablaCargarPagina
  <2>2. /\ Presentes(p)' = Presentes(p) \cup {j}
        /\ \A x \in Procesos \ {p} : Presentes(x)' = Presentes(x)
    BY Zenon, <1>0, <1>8, <2>1, PresentesCargar
  <2>3. /\ frames_ocupados' = [frames_ocupados EXCEPT ![p] = Append(frames_ocupados[p], j)]
        /\ vida' = [vida EXCEPT ![p] = "listo"] /\ buscador # Libre
    BY <1>0, <1>8, <2>1 DEF CargarPagina, Atender
  <2>4. CASE q = p
    <3> DEFINE s == frames_ocupados[p]
    <3>1. s \in Seq(Paginas) /\ ToSet(s) = Presentes(p) /\ IsInjective(s)
      BY <1>0, <1>00, <2>1, <2>4 DEF EnCola
    <3>2. Len(s) \in Nat /\ Len(s) < MARCOS_POR_PROCESO
      <4>1. Cardinality(Presentes(p)) < MARCOS_POR_PROCESO
        BY <1>0, <2>1, <2>3 DEF Pedidos
      <4> QED
        BY <3>1, <4>1, LargoDeCola, LenProperties
    <3>3. Len(Append(s, j)) = Len(s) + 1
      BY <3>1, AppendProperties
    <3>4. ToSet(Append(s, j)) = ToSet(s) \cup {j} /\ IsInjective(Append(s, j))
      BY <2>1, <3>1, AgregarUnico
    <3>5. frames_ocupados'[p] = Append(s, j)
      BY <1>0, <2>3
    <3>6. Len(s) + 1 <= MARCOS_POR_PROCESO
      BY <3>2, MemoriaAssumption
    <3> HIDE DEF s
    <3> QED
      BY Zenon, <2>2, <2>4, <3>1, <3>3, <3>4, <3>5, <3>6 DEF EnCola
  <2>5. CASE q # p
    BY <1>0, <1>01, <2>2, <2>3, <2>5
  <2> QED
    BY <2>4, <2>5
<1>9. ASSUME Reemplazar PROVE EnCola(q)'
  <2>1. PICK p \in Procesos, nueva \in Paginas, i \in Nat : Toma(p, nueva, i)
    BY <1>0, <1>9, TablaReemplazar
  <2>2. PICK sale \in Presentes(p) : /\ sale = frames_ocupados[p][i]
                                     /\ Presentes(p)' = (Presentes(p) \ {sale}) \cup {nueva}
    BY <1>0, <2>1, PresentesToma
  <2>3. \A x \in Procesos \ {p} : Presentes(x)' = Presentes(x)
    BY <1>0, <2>1, PresentesToma
  <2>4. /\ frames_ocupados' = [frames_ocupados EXCEPT ![p] = Rotar(frames_ocupados[p], i, nueva)]
        /\ vida' = [vida EXCEPT ![p] = "listo"] /\ vida[p] = "bloqueado"
        /\ i \in 1 .. Len(frames_ocupados[p]) /\ nueva \notin Presentes(p)
    BY Zenon, <2>1 DEF Toma
  <2>5. CASE q = p
    <3> DEFINE s == frames_ocupados[p]
               r == Rotar(s, i, nueva)
    <3>1. s \in Seq(Paginas) /\ ToSet(s) = Presentes(p) /\ IsInjective(s)
            /\ Len(s) <= MARCOS_POR_PROCESO
      BY <1>0, <1>00, <2>4, <2>5 DEF EnCola
    <3>2. Len(r) = Len(s)
      BY <2>4, <3>1, RotarCola
    <3>3. ToSet(r) = (ToSet(s) \ {s[i]}) \cup {nueva} /\ IsInjective(r)
      BY <2>4, <3>1, RotarUnicos
    <3>4. frames_ocupados'[p] = r /\ s[i] = sale
      BY <1>0, <2>2, <2>4
    <3> HIDE DEF s, r
    <3> QED
      BY Zenon, <2>2, <2>5, <3>1, <3>2, <3>3, <3>4 DEF EnCola
  <2>6. CASE q # p
    BY <1>0, <1>01, <2>3, <2>4, <2>6
  <2> QED
    BY <2>5, <2>6
<1>10. ASSUME NEW p \in Procesos, Finalizar(p) PROVE EnCola(q)'
  <2>1. Presentes(q)' = Presentes(q)
    BY <1>10, PresentesDeOtro DEF Finalizar, tablas
  <2>2. frames_ocupados' = frames_ocupados /\ vida[q] \in {"listo", "bloqueado"}
    BY <1>0, <1>10 DEF Finalizar, tablas
  <2> QED
    BY <1>01, <2>1, <2>2
<1> QED
  BY <1>1, <1>2, <1>3, <1>4, <1>5, <1>6, <1>7, <1>8, <1>9, <1>10
     DEF Next, HiloKernel, HiloCpu, HiloBuscador

LEMMA ResidentesEnColaPaso ==
  ASSUME TypeOK, InvPaginas, Next
  PROVE  ResidentesEnCola'
<1>1. \A q \in Procesos : vida'[q] \in {"listo", "bloqueado"} => EnCola(q)'
  BY EnColaPaso
<1> QED
  BY <1>1 DEF ResidentesEnCola, Vivos, EnCola

LEMMA FaltaUtilPaso ==
  ASSUME TypeOK, InvPaginas, Next
  PROVE  FaltaUtil'
<1>0. /\ TipoTablas /\ InvTablas /\ Pedidos /\ ResidentesEnCola /\ algoritmo \in Algoritmos
      /\ puntero_swap \in Nat /\ FaltaUtil
      /\ vida \in [Procesos -> {"sin_crear", "listo", "bloqueado", "finalizado"}]
      /\ reintento \in [Procesos -> 0 .. Cardinality(Paginas)]
  BY TypeOKPartes DEF InvPaginas, TipoDatos, TipoProcesos, TipoTablas
<1> SUFFICES ASSUME NEW q \in Procesos, vida'[q] = "listo", reintento'[q] # 0
             PROVE  reintento'[q] \in Presentes(q)'
  BY DEF FaltaUtil
<1>01. ASSUME vida[q] = "listo", reintento'[q] = reintento[q], Presentes(q)' = Presentes(q)
       PROVE  reintento'[q] \in Presentes(q)'
  BY <1>0, <1>01 DEF FaltaUtil
<1>1. ASSUME NEW p \in Procesos, CrearEstructuras(p) PROVE reintento'[q] \in Presentes(q)'
  <2>1. /\ vida[p] = "sin_crear" /\ vida' = [vida EXCEPT ![p] = "listo"]
        /\ reintento' = reintento
    BY <1>1 DEF CrearEstructuras
  <2>2. \A x \in Procesos \ {p} : Presentes(x)' = Presentes(x)
    BY <1>0, <1>1, PresentesCrear
  <2>3. q # p
    BY <1>0, <2>1 DEF InvTablas, TablaDe
  <2> QED
    BY <1>0, <1>01, <2>1, <2>2, <2>3
<1>2. ASSUME LiberarPagina PROVE reintento'[q] \in Presentes(q)'
  <2>1. PICK h \in Procesos : h = Head(por_liberar) /\ vida[h] = "finalizado"
    BY <1>0, <1>2, TablaLiberarPagina
  <2>2. vida' = vida /\ reintento' = reintento
    BY <1>2 DEF LiberarPagina, procesos
  <2>3. q # h
    BY <2>1, <2>2
  <2>4. Presentes(q)' = Presentes(q)
    BY <1>0, <1>2, <2>1, <2>3, PresentesLiberar
  <2> QED
    BY <1>01, <2>2, <2>4
<1>3. ASSUME LimpiarBit PROVE reintento'[q] \in Presentes(q)'
  BY <1>01, <1>3, PresentesDeOtro DEF LimpiarBit, tablas
<1>4. ASSUME NEW p \in Procesos, NEW j \in 1 .. Tamanio[p], ObtenerMarco(p, j)
      PROVE  reintento'[q] \in Presentes(q)'
  <2>1. Presentes(q)' = Presentes(q)
    BY <1>0, <1>4, TablaObtenerMarco, PresentesIguales
  <2>2. \/ vida' = vida /\ reintento' = [reintento EXCEPT ![p] = 0]
        \/ vida' = [vida EXCEPT ![p] = "bloqueado"] /\ reintento' = [reintento EXCEPT ![p] = j]
    BY <1>4 DEF ObtenerMarco
  <2>3. q # p
    BY <1>0, <2>2
  <2>4. vida[q] = "listo" /\ reintento'[q] = reintento[q]
    BY <1>0, <2>2, <2>3
  <2> QED
    BY <1>01, <2>1, <2>4
<1>5. ASSUME NEW v \in Valores, Escribir(v) PROVE reintento'[q] \in Presentes(q)'
  <2>1. Presentes(q)' = Presentes(q)
    BY <1>0, <1>5, TablaEscribir, PresentesIguales
  <2> QED
    BY <1>01, <1>5, <2>1 DEF Escribir
<1>6. ASSUME Leer PROVE reintento'[q] \in Presentes(q)'
  <2>1. Presentes(q)' = Presentes(q)
    BY <1>0, <1>6, TablaLeer, PresentesIguales
  <2> QED
    BY <1>01, <1>6, <2>1 DEF Leer
<1>7. ASSUME BuscarMarco PROVE reintento'[q] \in Presentes(q)'
  BY <1>01, <1>7, PresentesDeOtro DEF BuscarMarco, tablas, procesos
<1>8. ASSUME CargarPagina PROVE reintento'[q] \in Presentes(q)'
  <2>1. PICK p \in Procesos, j \in Paginas : p = buscador.pid /\ j = buscador.pagina
    BY <1>0, <1>8, TablaCargarPagina
  <2>2. /\ Presentes(p)' = Presentes(p) \cup {j}
        /\ \A x \in Procesos \ {p} : Presentes(x)' = Presentes(x)
    BY Zenon, <1>0, <1>8, <2>1, PresentesCargar
  <2>3. reintento' = reintento /\ vida' = [vida EXCEPT ![p] = "listo"] /\ buscador # Libre
    BY <1>8, <2>1 DEF CargarPagina, Atender
  <2>4. reintento[p] = j
    BY <1>0, <2>1, <2>3 DEF Pedidos
  <2> QED
    BY <1>0, <1>01, <2>2, <2>3, <2>4
<1>9. ASSUME Reemplazar PROVE reintento'[q] \in Presentes(q)'
  <2>1. PICK p \in Procesos, nueva \in Paginas, i \in Nat : Toma(p, nueva, i)
    BY <1>0, <1>9, TablaReemplazar
  <2>2. PICK sale \in Presentes(p) : /\ sale = frames_ocupados[p][i]
                                     /\ Presentes(p)' = (Presentes(p) \ {sale}) \cup {nueva}
    BY <1>0, <2>1, PresentesToma
  <2>3. \A x \in Procesos \ {p} : Presentes(x)' = Presentes(x)
    BY <1>0, <2>1, PresentesToma
  <2>4. /\ vida' = [vida EXCEPT ![p] = "listo"] /\ reintento' = reintento
        /\ p = Head(pendientes).pid /\ nueva = Head(pendientes).pagina /\ pendientes # <<>>
    BY Zenon, <1>9, <2>1 DEF Toma, Reemplazar
  <2>5. reintento[p] = nueva
    BY <1>0, <2>4, HilosTrabajando DEF Pedidos
  <2> QED
    BY <1>0, <1>01, <2>2, <2>3, <2>4, <2>5
<1>10. ASSUME NEW p \in Procesos, Finalizar(p) PROVE reintento'[q] \in Presentes(q)'
  <2>1. Presentes(q)' = Presentes(q)
    BY <1>10, PresentesDeOtro DEF Finalizar, tablas
  <2>2. reintento' = reintento /\ vida[q] = "listo"
    BY <1>0, <1>10 DEF Finalizar
  <2> QED
    BY <1>01, <2>1, <2>2
<1> QED
  BY <1>1, <1>2, <1>3, <1>4, <1>5, <1>6, <1>7, <1>8, <1>9, <1>10
     DEF Next, HiloKernel, HiloCpu, HiloBuscador

-----------------------------------------------------------------------------
(* The theorems *)

LEMMA PaginasInductivo ==
  ASSUME TypeOK, InvPaginas, [Next]_vars
  PROVE  TypeOK' /\ InvPaginas'
<1>1. CASE Next
  BY <1>1, TypeOKPaso, InvTablasPaso, PedidosPaso, ResidentesEnColaPaso, FaltaUtilPaso
     DEF InvPaginas
<1>2. CASE UNCHANGED vars
  <2> USE <1>2 DEF vars, tablas, fisica, hilos, procesos
  <2>0. TipoTablas /\ InvTablas
    BY TypeOKPartes DEF InvPaginas
  <2>1. TypeOK'
    BY DEF TypeOK
  <2>2. \A p \in Procesos : Presentes(p)' = Presentes(p)
    BY PresentesDeOtro
  <2>3. (\A p \in Procesos : TablaDe(p))' /\ PorLiberar' /\ Liberando' /\ Accesos'
    BY <2>0 DEF InvTablas, TablaDe, PorLiberar, Liberando, Accesos
  <2>4. Pedidos'
    BY <2>0, <2>2, PedidosQuietos DEF InvPaginas
  <2>5. ResidentesEnCola' /\ FaltaUtil'
    BY <2>2 DEF InvPaginas, ResidentesEnCola, FaltaUtil, Vivos
  <2> QED
    BY <2>1, <2>3, <2>4, <2>5 DEF InvPaginas, InvTablas
<1> QED
  BY <1>1, <1>2

\* The types of memoria, together with what its three threads keep true of the
\* tables, the queues of pages and the requests (InvPaginas).
THEOREM TipoMemoriaCorrecto == Spec => [](TypeOK /\ InvPaginas)
<1>1. Init => TypeOK /\ InvPaginas
  BY InicioTypeOK, InicioPaginas
<1>2. TypeOK /\ InvPaginas /\ [Next]_vars => TypeOK' /\ InvPaginas'
  BY PaginasInductivo
<1> QED
  BY <1>1, <1>2, PTL DEF Spec

\* The queue the replacement turns round holds the loaded pages of its process, once
\* each and at most MARCOS_POR_PROCESO: ejecutar_clock always finds a victim.
THEOREM ColasCorrectas == Spec => []ResidentesEnCola
<1>1. InvPaginas => ResidentesEnCola
  BY DEF InvPaginas
<1> QED
  BY <1>1, TipoMemoriaCorrecto, PTL

\* The page a fault asked for stays loaded until its process uses it.
THEOREM FaltasUtiles == Spec => []FaltaUtil
<1>1. InvPaginas => FaltaUtil
  BY DEF InvPaginas
<1> QED
  BY <1>1, TipoMemoriaCorrecto, PTL

LEMMA PedidosExactos == TypeOK /\ InvPaginas => PendientesExactos
<1> SUFFICES ASSUME TypeOK, InvPaginas, viva PROVE PendientesExactos
  BY DEF PendientesExactos
<1>0. TipoTablas /\ Pedidos /\ reintento \in [Procesos -> 0 .. Cardinality(Paginas)]
  BY TypeOKPartes DEF InvPaginas, TipoProcesos
<1> DEFINE cola == IF buscador = Libre THEN <<>>
                   ELSE <<[pid |-> buscador.pid, pagina |-> buscador.pagina]>>
           pedidos == pendientes \o cola
           Bloqueados == {[pid |-> p, pagina |-> reintento[p]] :
                            p \in {q \in Procesos : vida[q] = "bloqueado"}}
<1>1. \A i \in DOMAIN pendientes : \E p \in Procesos :
        /\ pendientes[i] = [pid |-> p, pagina |-> reintento[p]]
        /\ p = pendientes[i].pid /\ vida[p] = "bloqueado"
  <2> TAKE i \in DOMAIN pendientes
  <2>1. pendientes[i].pid \in Procesos
    BY <1>0, PedidosDeProcesos
  <2>2. pendientes[i] \in Pagina
    <3>1. pendientes \in Seq(Pagina)
      BY <1>0 DEF TipoTablas
    <3> QED
      BY <3>1, LenProperties
  <2>3. vida[pendientes[i].pid] = "bloqueado" /\ pendientes[i].pagina = reintento[pendientes[i].pid]
    BY <1>0 DEF Pedidos
  <2>4. pendientes[i] = [pid |-> pendientes[i].pid, pagina |-> pendientes[i].pagina]
    BY <2>2 DEF Pagina
  <2> QED
    BY <2>1, <2>3, <2>4
<1>2. \A i, j \in DOMAIN pendientes : pendientes[i] = pendientes[j] => i = j
  BY <1>0 DEF Pedidos
<1>3. /\ Len(pendientes) \in Nat /\ DOMAIN pendientes = 1 .. Len(pendientes)
      /\ pendientes \in Seq(Pagina)
  BY <1>0, LenProperties DEF TipoTablas
<1>4. CASE buscador = Libre
  <2>1. pedidos = pendientes
    BY <1>3, <1>4, ConcatEmptySeq
  <2>2. \A p \in Procesos : vida[p] = "bloqueado" =>
          \E i \in DOMAIN pendientes : pendientes[i].pid = p
    BY <1>0, <1>4 DEF Pedidos
  <2>3. \A p \in Procesos : vida[p] = "bloqueado" =>
          \E i \in DOMAIN pendientes : pendientes[i] = [pid |-> p, pagina |-> reintento[p]]
    BY <1>1, <2>2
  <2>4. ToSet(pendientes) = Bloqueados
    BY <1>1, <2>3 DEF ToSet
  <2>5. IsInjective(pendientes)
    BY <1>2 DEF IsInjective
  <2> HIDE DEF pedidos, Bloqueados
  <2>6. IsInjective(pedidos) /\ ToSet(pedidos) = Bloqueados
    BY <2>1, <2>4, <2>5
  <2> QED
    BY <2>6 DEF PendientesExactos, pedidos, Bloqueados
<1>5. CASE buscador # Libre
  <2> DEFINE e == [pid |-> buscador.pid, pagina |-> buscador.pagina]
  <2>1. PICK b \in Procesos : b = buscador.pid /\ e \in Pagina
    BY <1>0, <1>5, HilosTrabajando DEF Pagina
  <2>2. /\ vida[b] = "bloqueado" /\ e = [pid |-> b, pagina |-> reintento[b]]
        /\ \A i \in DOMAIN pendientes : pendientes[i].pid # b
    BY <1>0, <1>5, <2>1 DEF Pedidos
  <2>3. pedidos = Append(pendientes, e)
    BY <1>3, <1>5, <2>1, AppendIsConcat
  <2>4. \A i \in DOMAIN pendientes : pendientes[i] # e
    BY <2>2
  <2>5. ToSet(pedidos) = ToSet(pendientes) \cup {e} /\ IsInjective(pedidos)
    <3>1. IsInjective(pendientes) /\ e \notin ToSet(pendientes)
      BY <1>2, <2>4 DEF IsInjective, ToSet
    <3> HIDE DEF e, pedidos
    <3> QED
      BY <1>3, <2>1, <2>3, <3>1, AgregarUnico
  <2>6. \A p \in Procesos \ {b} : vida[p] = "bloqueado" =>
          \E i \in DOMAIN pendientes : pendientes[i].pid = p
    BY <1>0, <2>1 DEF Pedidos
  <2>7. \A p \in Procesos \ {b} : vida[p] = "bloqueado" =>
          \E i \in DOMAIN pendientes : pendientes[i] = [pid |-> p, pagina |-> reintento[p]]
    BY <1>1, <2>6
  <2> HIDE DEF e
  <2>8. ToSet(pendientes) \cup {e} = Bloqueados
    BY <1>1, <2>2, <2>7 DEF ToSet
  <2> HIDE DEF pedidos, Bloqueados
  <2>9. IsInjective(pedidos) /\ ToSet(pedidos) = Bloqueados
    BY <2>5, <2>8
  <2> QED
    BY <2>9 DEF PendientesExactos, pedidos, Bloqueados
<1> QED
  BY <1>4, <1>5

\* The requests and the processes blocked are the same, one to one, while memoria lives.
THEOREM PedidosCorrectos == Spec => []PendientesExactos
BY TipoMemoriaCorrecto, PedidosExactos, PTL

-----------------------------------------------------------------------------
(* Memoria implements the paging that the TLB takes for granted *)

LEMMA MismoCardinal ==
  ASSUME NEW S
  PROVE  Pag!Cardinality(S) = Cardinality(S)
BY DEF Pag!Cardinality, Cardinality

LEMMA PagEs ==
  /\ Pag!Init <=> Residentes = [p \in Procesos |-> [j \in {} |-> 0]] /\ Terminados = {}
  /\ Pag!Spec <=> Pag!Init /\ [][Pag!Next]_<<Residentes, Terminados>>
BY DEF Pag!Init, Pag!Spec

LEMMA ResidentesDe ==
  ASSUME NEW p \in Procesos
  PROVE  DOMAIN Residentes[p] = Presentes(p) /\ Residentes[p] = Residente(p)
BY DEF Residentes, Residente

\* One process's pages change, by the function f.
OtrasResidentes(p) == \A q \in Procesos \ {p} : Residente(q)' = Residente(q)

LEMMA CambioDeResidentes ==
  ASSUME NEW p \in Procesos, NEW f, Residente(p)' = f, OtrasResidentes(p)
  PROVE  Residentes' = [Residentes EXCEPT ![p] = f]
BY Zenon DEF Residentes, OtrasResidentes

LEMMA PagQuieta ==
  ASSUME \A q \in Procesos : Residente(q)' = Residente(q), Terminados' = Terminados
  PROVE  UNCHANGED <<Residentes, Terminados>>
BY DEF Residentes

LEMMA PasoPag ==
  ASSUME TypeOK, InvPaginas, Next
  PROVE  Pag!Next \/ UNCHANGED <<Residentes, Terminados>>
<1>0. /\ TipoTablas /\ InvTablas /\ Pedidos /\ ResidentesEnCola /\ algoritmo \in Algoritmos
      /\ puntero_swap \in Nat
      /\ vida \in [Procesos -> {"sin_crear", "listo", "bloqueado", "finalizado"}]
  BY TypeOKPartes DEF InvPaginas, TipoDatos, TipoProcesos, TipoTablas
<1>1. ASSUME NEW p \in Procesos, CrearEstructuras(p)
      PROVE  UNCHANGED <<Residentes, Terminados>>
  <2>1. /\ Residente(p)' = [j \in {} |-> 0]
        /\ \A q \in Procesos \ {p} : Residente(q)' = Residente(q)
    BY <1>0, <1>1, PresentesCrear
  <2>2. vida[p] = "sin_crear" /\ vida' = [vida EXCEPT ![p] = "listo"]
    BY <1>1 DEF CrearEstructuras
  <2>3. Presentes(p) = {}
    BY <1>0, <2>2, DominiosDeTabla DEF InvTablas, TablaDe
  <2>4. Residente(p) = [j \in {} |-> 0]
    BY <2>3 DEF Residente
  <2>5. Terminados' = Terminados
    BY <1>0, <2>2 DEF Terminados
  <2> QED
    BY <2>1, <2>4, <2>5, PagQuieta
<1>2. ASSUME LiberarPagina PROVE Pag!Next \/ UNCHANGED <<Residentes, Terminados>>
  <2>1. PICK h \in Procesos, j \in Paginas :
          h = Head(por_liberar) /\ j = liberadas + 1 /\ vida[h] = "finalizado"
    BY <1>0, <1>2, TablaLiberarPagina, PaginasDeProcesos DEF InvTablas, TablaDe
  <2>2. /\ Presentes(h)' = Presentes(h) \ {j}
        /\ Residente(h)' = [k \in Presentes(h)' |-> Residente(h)[k]]
        /\ \A q \in Procesos \ {h} : /\ Presentes(q)' = Presentes(q)
                                     /\ Residente(q)' = [k \in Presentes(q)' |-> Residente(q)[k]]
    BY <1>0, <1>2, <2>1, PresentesLiberar
  <2>3. OtrasResidentes(h)
    <3>1. \A q \in Procesos : Residente(q) = [k \in Presentes(q) |-> Residente(q)[k]]
      BY DEF Residente
    <3> QED
      BY <2>2, <3>1 DEF OtrasResidentes
  <2>4. Terminados' = Terminados
    BY <1>2 DEF LiberarPagina, Terminados, procesos
  <2>5. CASE j \in Presentes(h)
    <3>1. Residentes' = [Residentes EXCEPT ![h] = [k \in Presentes(h) \ {j} |-> Residente(h)[k]]]
      BY <2>2, <2>3, CambioDeResidentes
    <3>2. /\ h \in Terminados /\ j \in DOMAIN Residentes[h] /\ UNCHANGED Terminados
          /\ Residentes' = [Residentes EXCEPT ![h] =
               [k \in DOMAIN Residentes[h] \ {j} |-> Residentes[h][k]]]
      BY Zenon, <2>1, <2>4, <2>5, <3>1, ResidentesDe DEF Terminados
    <3>3. Pag!Liberar(h, j)
      BY <3>2 DEF Pag!Liberar, Pag!Cargadas
    <3> QED
      BY <3>3 DEF Pag!Next
  <2>6. CASE j \notin Presentes(h)
    <3>1. Residente(h)' = Residente(h)
      BY <2>2, <2>6 DEF Residente
    <3> QED
      BY <2>3, <2>4, <3>1, PagQuieta DEF OtrasResidentes
  <2> QED
    BY <2>5, <2>6
<1>3. ASSUME LimpiarBit PROVE UNCHANGED <<Residentes, Terminados>>
  BY <1>3, PagQuieta, PresentesDeOtro DEF LimpiarBit, tablas, Terminados
<1>4. ASSUME NEW p \in Procesos, NEW j \in 1 .. Tamanio[p], ObtenerMarco(p, j)
      PROVE  UNCHANGED <<Residentes, Terminados>>
  <2>1. \A q \in Procesos : Residente(q)' = Residente(q)
    BY <1>0, <1>4, TablaObtenerMarco, PresentesIguales
  <2>2. Terminados' = Terminados
    BY <1>0, <1>4 DEF ObtenerMarco, Terminados
  <2> QED
    BY <2>1, <2>2, PagQuieta
<1>5. ASSUME NEW v \in Valores, Escribir(v) PROVE UNCHANGED <<Residentes, Terminados>>
  <2>1. \A q \in Procesos : Residente(q)' = Residente(q)
    BY <1>0, <1>5, TablaEscribir, PresentesIguales
  <2> QED
    BY <1>5, <2>1, PagQuieta DEF Escribir, Terminados
<1>6. ASSUME Leer PROVE UNCHANGED <<Residentes, Terminados>>
  <2>1. \A q \in Procesos : Residente(q)' = Residente(q)
    BY <1>0, <1>6, TablaLeer, PresentesIguales
  <2> QED
    BY <1>6, <2>1, PagQuieta DEF Leer, Terminados
<1>7. ASSUME BuscarMarco PROVE UNCHANGED <<Residentes, Terminados>>
  BY <1>7, PagQuieta, PresentesDeOtro DEF BuscarMarco, tablas, procesos, Terminados
<1>8. ASSUME CargarPagina PROVE Pag!Next
  <2>1. PICK p \in Procesos, j \in Paginas, m \in Marcos :
          /\ p = buscador.pid /\ vida[p] = "bloqueado" /\ j = buscador.pagina
          /\ j \notin Presentes(p) /\ m = buscador.marco
    BY <1>0, <1>8, TablaCargarPagina, HilosTrabajando DEF CargarPagina
  <2>2. /\ Residente(p)' = [k \in Presentes(p) \cup {j} |-> IF k = j THEN m ELSE Residente(p)[k]]
        /\ \A q \in Procesos \ {p} : Residente(q)' = Residente(q)
    BY <1>0, <1>8, <2>1, PresentesCargar
  <2>3. vida' = [vida EXCEPT ![p] = "listo"] /\ buscador # Libre
    BY <1>8, <2>1 DEF CargarPagina, Atender
  <2>4. Terminados' = Terminados /\ p \notin Terminados
    BY <1>0, <2>1, <2>3 DEF Terminados
  <2>5. Cardinality(Presentes(p)) < MARCOS_POR_PROCESO
    BY <1>0, <2>1, <2>3 DEF Pedidos
  <2>6. Residentes' = [Residentes EXCEPT ![p] =
          [k \in Presentes(p) \cup {j} |-> IF k = j THEN m ELSE Residente(p)[k]]]
    BY <2>2, CambioDeResidentes DEF OtrasResidentes
  <2>7. /\ p \notin Terminados /\ j \notin DOMAIN Residentes[p]
        /\ Cardinality(DOMAIN Residentes[p]) < MARCOS_POR_PROCESO
        /\ Residentes' = [Residentes EXCEPT ![p] =
             [k \in DOMAIN Residentes[p] \cup {j} |-> IF k = j THEN m ELSE Residentes[p][k]]]
        /\ UNCHANGED Terminados
    BY Zenon, <2>1, <2>4, <2>5, <2>6, ResidentesDe
  <2>8. Pag!Cargar(p, j, m)
    BY <2>7, MismoCardinal DEF Pag!Cargar, Pag!Cargadas
  <2> QED
    BY <2>8 DEF Pag!Next
<1>9. ASSUME Reemplazar PROVE Pag!Next
  <2>1. PICK p \in Procesos, nueva \in Paginas, i \in Nat : Toma(p, nueva, i)
    BY <1>0, <1>9, TablaReemplazar
  <2>0. PICK sale \in Presentes(p) : Sale(p, i, sale)
    BY Zenon, <2>1 DEF Toma, Sale
  <2>2. Residente(p)' = [k \in (Presentes(p) \ {sale}) \cup {nueva} |->
                           Residente(p)[IF k = nueva THEN sale ELSE k]]
    <3>1. Residente(p)' = [k \in Presentes(p)' |-> Residente(p)'[k]]
      BY DEF Residente
    <3>2. /\ \A k \in Presentes(p)' : Residente(p)'[k] = Residente(p)[IF k = nueva THEN sale ELSE k]
          /\ Presentes(p)' = (Presentes(p) \ {sale}) \cup {nueva}
      BY <1>0, <2>0, <2>1, ResidenteToma
    <3> QED
      BY <3>1, <3>2
  <2>3. OtrasResidentes(p)
    BY <1>0, <2>0, <2>1, ResidenteToma DEF OtrasResidentes
  <2>4. /\ vida' = [vida EXCEPT ![p] = "listo"] /\ vida[p] = "bloqueado"
        /\ nueva \notin Presentes(p) /\ p = Head(pendientes).pid
    BY Zenon, <2>1 DEF Toma
  <2>5. Terminados' = Terminados /\ p \notin Terminados
    BY <1>0, <2>4 DEF Terminados
  <2>6. Cardinality(Presentes(p)) = MARCOS_POR_PROCESO
    <3>1. MARCOS_POR_PROCESO <= Cardinality(Presentes(p))
      BY Zenon, <1>9, <2>4 DEF Reemplazar, Ocupados, Presentes
    <3>2. EnCola(p) /\ frames_ocupados[p] \in Seq(Paginas)
      BY <1>0, <2>4 DEF ResidentesEnCola, Vivos, EnCola, TipoTablas
    <3>3. Cardinality(Presentes(p)) = Len(frames_ocupados[p])
      BY <3>2, LargoDeCola DEF EnCola
    <3>4. Len(frames_ocupados[p]) \in Nat /\ Len(frames_ocupados[p]) <= MARCOS_POR_PROCESO
      BY <3>2, LenProperties DEF EnCola
    <3> QED
      BY <3>1, <3>3, <3>4, MemoriaAssumption
  <2>7. Residentes' = [Residentes EXCEPT ![p] =
          [k \in (Presentes(p) \ {sale}) \cup {nueva} |->
             Residente(p)[IF k = nueva THEN sale ELSE k]]]
    BY <2>2, <2>3, CambioDeResidentes
  <2>8. sale \in Paginas
    <3>1. frames_ocupados[p] \in Seq(Paginas) /\ ToSet(frames_ocupados[p]) = Presentes(p)
      BY <1>0, <2>4 DEF ResidentesEnCola, Vivos, TipoTablas
    <3> QED
      BY <3>1, LenProperties DEF ToSet
  <2>9. /\ p \notin Terminados /\ sale \in DOMAIN Residentes[p]
        /\ nueva \notin DOMAIN Residentes[p]
        /\ Cardinality(DOMAIN Residentes[p]) = MARCOS_POR_PROCESO
        /\ Residentes' = [Residentes EXCEPT ![p] =
             [k \in (DOMAIN Residentes[p] \ {sale}) \cup {nueva} |->
                Residentes[p][IF k = nueva THEN sale ELSE k]]]
        /\ UNCHANGED Terminados
    BY Zenon, <2>4, <2>5, <2>6, <2>7, ResidentesDe
  <2>10. Pag!Reemplazar(p, sale, nueva)
    BY <2>9, MismoCardinal DEF Pag!Reemplazar, Pag!Cargadas
  <2> QED
    BY <2>8, <2>10 DEF Pag!Next
<1>10. ASSUME NEW p \in Procesos, Finalizar(p) PROVE Pag!Next
  <2>1. \A q \in Procesos : Residente(q)' = Residente(q)
    BY <1>10, PresentesDeOtro DEF Finalizar, tablas
  <2>2. vida[p] = "listo" /\ vida' = [vida EXCEPT ![p] = "finalizado"]
    BY <1>10 DEF Finalizar
  <2>3. p \notin Terminados /\ Terminados' = Terminados \cup {p}
    BY <1>0, <2>2 DEF Terminados
  <2>4. Residentes' = Residentes
    BY <2>1 DEF Residentes
  <2>5. Pag!Terminar(p)
    BY <2>3, <2>4 DEF Pag!Terminar
  <2> QED
    BY <2>5 DEF Pag!Next
<1> QED
  BY <1>1, <1>2, <1>3, <1>4, <1>5, <1>6, <1>7, <1>8, <1>9, <1>10
     DEF Next, HiloKernel, HiloCpu, HiloBuscador

\* Whatever the threads do, a loaded page changes or loses its frame only to another
\* page of its process, or once its process ended.
THEOREM PaginacionCorrecta == Spec => PaginacionRespetada
<1>1. Init => Pag!Init
  <2> SUFFICES ASSUME Init PROVE Pag!Init
    OBVIOUS
  <2>1. \A p \in Procesos : Presentes(p) = {}
    BY DEF Init, Presentes
  <2>2. \A p \in Procesos : Residente(p) = [j \in {} |-> 0]
    BY <2>1 DEF Residente
  <2>3. Terminados = {}
    BY DEF Init, Terminados
  <2> QED
    BY <2>2, <2>3, PagEs DEF Residentes
<1>2. TypeOK /\ InvPaginas /\ [Next]_vars => [Pag!Next]_<<Residentes, Terminados>>
  <2>1. ASSUME UNCHANGED vars PROVE UNCHANGED <<Residentes, Terminados>>
    BY <2>1, PagQuieta, PresentesDeOtro DEF vars, tablas, procesos, Terminados
  <2> QED
    BY <2>1, PasoPag
<1>3. Spec => Pag!Init /\ [][Pag!Next]_<<Residentes, Terminados>>
  BY <1>1, <1>2, TipoMemoriaCorrecto, PTL DEF Spec
<1>4. Pag!Init /\ [][Pag!Next]_<<Residentes, Terminados>> => Pag!Spec
  BY PagEs
<1> QED
  BY <1>3, <1>4, PTL DEF PaginacionRespetada

-----------------------------------------------------------------------------
(***************************************************************************)
(* What TLAPS proves of the frames and of their contents when              *)
(* GRADO_MAX_MULTIPROGRAMACION is 1: for any processes, sizes, frames and  *)
(* algorithm.  With more processes the bitmap is not exact and frames are  *)
(* shared (run marco_compartido).                                          *)
(***************************************************************************)

MarcosDe(p) == {Residente(p)[j] : j \in Presentes(p)}

\* One process at most has pages: it is alive, or it ended and is being released.
Solo ==
  /\ \A p, q \in Vivos : p = q
  /\ por_liberar # <<>> => Vivos = {} /\ \E h \in Procesos : por_liberar = <<h>>
  /\ \A p \in Procesos \ Vivos : por_liberar # <<p>> => Presentes(p) = {}

\* What a thread read of the bitmap is still so, and the bits are those of the frames
\* of the process alive.
Bits ==
  /\ buscador # Libre => buscador.leido = bitmap /\ buscador.marco \notin bitmap
  /\ liberador # Libre => liberador.leido = bitmap
  /\ \A p \in Vivos : bitmap = MarcosDe(p)
  /\ Vivos = {} /\ por_liberar = <<>> => bitmap = {}

\* While a process is released the bits left are of frames of the pages to come,
\* loaded or not: releasing them all clears every bit.
Liberacion == \A h \in Procesos : por_liberar = <<h>> =>
  /\ liberador = Libre /\ liberadas = 0 => bitmap = MarcosDe(h)
  /\ \A m \in bitmap : \E j \in 1 .. Tamanio[h] : j > liberadas /\ tabla[h][j].frame = m
  /\ \A j \in 1 .. Tamanio[h] : j <= liberadas => j \notin Presentes(h)
  /\ liberador # Libre => liberadas + 1 \notin Presentes(h)

Exclusivos == \A p \in Vivos : \A j, k \in Presentes(p) :
  Residente(p)[j] = Residente(p)[k] => j = k

\* The frame the cpu obtained is still that of the page.
EnSuMarco == acceso # Libre =>
  acceso.pagina \in Presentes(acceso.pid) /\ acceso.marco = Residente(acceso.pid)[acceso.pagina]

InvMarcos == Solo /\ Bits /\ Liberacion /\ Exclusivos /\ EnSuMarco

-----------------------------------------------------------------------------

LEMMA VidasDe ==
  ASSUME TypeOK, InvPaginas
  PROVE  /\ TipoTablas /\ InvTablas /\ Pedidos /\ ResidentesEnCola /\ Accesos /\ Liberando
         /\ PorLiberar /\ algoritmo \in Algoritmos /\ puntero_swap \in Nat
         /\ vida \in [Procesos -> {"sin_crear", "listo", "bloqueado", "finalizado"}]
         /\ \A p \in Procesos : p \in Vivos <=> vida[p] \in {"listo", "bloqueado"}
         /\ \A p \in Vivos : Len(tabla[p]) = Tamanio[p] /\ Presentes(p) \subseteq 1 .. Tamanio[p]
         /\ acceso # Libre => acceso.pid \in Vivos /\ vida[acceso.pid] = "listo"
         /\ buscador # Libre => buscador.pid \in Vivos /\ vida[buscador.pid] = "bloqueado"
         /\ liberador # Libre => por_liberar # <<>>
         /\ por_liberar = <<>> => liberadas = 0
<1>0. /\ TipoTablas /\ InvTablas /\ Pedidos /\ ResidentesEnCola /\ Accesos /\ Liberando
      /\ PorLiberar /\ algoritmo \in Algoritmos /\ puntero_swap \in Nat
      /\ vida \in [Procesos -> {"sin_crear", "listo", "bloqueado", "finalizado"}]
  BY TypeOKPartes DEF InvPaginas, InvTablas, TipoDatos, TipoProcesos
<1>1. \A p \in Procesos : p \in Vivos <=> vida[p] \in {"listo", "bloqueado"}
  BY DEF Vivos
<1>2. \A p \in Vivos : Len(tabla[p]) = Tamanio[p] /\ Presentes(p) \subseteq 1 .. Tamanio[p]
  BY <1>0, DominiosDeTabla DEF InvTablas, TablaDe, Vivos
<1>3. acceso # Libre => acceso.pid \in Vivos /\ vida[acceso.pid] = "listo"
  BY <1>0, <1>1, HilosTrabajando DEF Accesos
<1>4. buscador # Libre => buscador.pid \in Vivos /\ vida[buscador.pid] = "bloqueado"
  BY <1>0, <1>1, HilosTrabajando DEF Pedidos
<1>5. (liberador # Libre => por_liberar # <<>>) /\ (por_liberar = <<>> => liberadas = 0)
  BY <1>0 DEF Liberando
<1> QED
  BY <1>0, <1>1, <1>2, <1>3, <1>4, <1>5

\* A step that changes no frame, no bit and nobody's life.
LEMMA MarcosQuietos ==
  ASSUME TypeOK, InvPaginas, InvMarcos, MismosBits, tabla' \in [Procesos -> Seq(Registro)],
         Vivos' = Vivos, UNCHANGED <<por_liberar, bitmap, buscador, liberador, liberadas>>
  PROVE  Solo' /\ Bits' /\ Liberacion' /\ Exclusivos'
<1>0. /\ TipoTablas /\ InvTablas /\ PorLiberar
  BY VidasDe
<1>1. \A p \in Procesos : Presentes(p)' = Presentes(p) /\ Residente(p)' = Residente(p)
  BY <1>0, PresentesIguales
<1>2. \A p \in Procesos : MarcosDe(p)' = MarcosDe(p)
  BY <1>1 DEF MarcosDe
<1>3. Solo'
  BY <1>1 DEF InvMarcos, Solo
<1>4. Bits'
  BY <1>2 DEF InvMarcos, Bits, Vivos
<1>5. Liberacion'
  <2> SUFFICES ASSUME NEW h \in Procesos, por_liberar = <<h>> PROVE
        /\ liberador = Libre /\ liberadas = 0 => bitmap = MarcosDe(h)
        /\ \A m \in bitmap : \E j \in 1 .. Tamanio[h] : j > liberadas /\ tabla'[h][j].frame = m
        /\ \A j \in 1 .. Tamanio[h] : j <= liberadas => j \notin Presentes(h)
        /\ liberador # Libre => liberadas + 1 \notin Presentes(h)
    BY <1>1, <1>2 DEF Liberacion
  <2>1. vida[h] = "finalizado"
    <3>1. DOMAIN por_liberar = 1 .. 1 /\ por_liberar[1] = h
      OBVIOUS
    <3> QED
      BY <1>0, <3>1 DEF PorLiberar
  <2>2. Len(tabla[h]) = Tamanio[h]
    BY <1>0, <2>1 DEF InvTablas, TablaDe
  <2>3. \A j \in 1 .. Tamanio[h] : tabla'[h][j].frame = tabla[h][j].frame
    BY <2>2 DEF MismosBits
  <2> QED
    BY <2>3 DEF InvMarcos, Liberacion
<1>6. Exclusivos'
  BY <1>1 DEF InvMarcos, Exclusivos, Vivos
<1> QED
  BY <1>3, <1>4, <1>5, <1>6

LEMMA SinCambioDeTabla ==
  ASSUME TipoTablas, tabla' = tabla
  PROVE  MismosBits /\ tabla' \in [Procesos -> Seq(Registro)]
BY DEF MismosBits, TipoTablas


-----------------------------------------------------------------------------
(* Each step *)

LEMMA MarcosInicio == Init => InvMarcos
<1> SUFFICES ASSUME Init PROVE InvMarcos
  OBVIOUS
<1>1. Vivos = {} /\ \A p \in Procesos : Presentes(p) = {}
  BY DEF Init, Vivos, Presentes
<1>2. por_liberar = <<>> /\ bitmap = {} /\ buscador = Libre /\ liberador = Libre /\ acceso = Libre
  BY DEF Init
<1>3. \A h \in Procesos : por_liberar # <<h>>
  BY <1>2
<1> QED
  BY <1>1, <1>2, <1>3 DEF InvMarcos, Solo, Bits, Liberacion, Exclusivos, EnSuMarco

LEMMA NadieMas ==
  ASSUME TypeOK, InvPaginas, GradoMax = 1, NEW p \in Procesos, CrearEstructuras(p)
  PROVE  Vivos = {} /\ por_liberar = <<>>
<1>1. IsFiniteSet(Vivos) /\ Cardinality(Vivos) \in Nat
  BY MemoriaAssumption, FS_Subset, FS_CardinalityType DEF Vivos
<1>2. por_liberar \in Seq(Procesos) /\ Len(por_liberar) \in Nat
  BY VidasDe, LenProperties DEF TipoTablas
<1>3. Cardinality(Vivos) + Len(por_liberar) < 1
  BY DEF CrearEstructuras
<1>4. Cardinality(Vivos) = 0 /\ Len(por_liberar) = 0
  BY <1>1, <1>2, <1>3
<1> QED
  BY <1>1, <1>2, <1>4, FS_EmptySet, EmptySeq

LEMMA MarcosCrear ==
  ASSUME TypeOK, InvPaginas, InvMarcos, GradoMax = 1, NEW p \in Procesos, CrearEstructuras(p)
  PROVE  InvMarcos'
<1>0. TipoTablas /\ puntero_swap \in Nat
  BY VidasDe
<1>1. /\ Vivos = {} /\ por_liberar = <<>> /\ bitmap = {}
      /\ buscador = Libre /\ liberador = Libre /\ acceso = Libre
  BY NadieMas, VidasDe DEF InvMarcos, Bits
<1>2. UNCHANGED <<por_liberar, bitmap, buscador, liberador, acceso>>
        /\ vida' = [vida EXCEPT ![p] = "listo"]
  BY DEF CrearEstructuras, fisica, hilos
<1>3. Vivos' = {p}
  BY <1>1, <1>2, VidasDe DEF Vivos
<1>4. Presentes(p)' = {} /\ \A q \in Procesos \ {p} : Presentes(q)' = Presentes(q)
  BY <1>0, PresentesCrear
<1>5. Solo'
  BY <1>1, <1>2, <1>3, <1>4 DEF InvMarcos, Solo
<1>6. Bits'
  <2>1. MarcosDe(p)' = {}
    BY <1>4 DEF MarcosDe
  <2>2. \A q \in Vivos' : bitmap' = MarcosDe(q)'
    BY <1>1, <1>2, <1>3, <2>1
  <2> QED
    BY <1>1, <1>2, <1>3, <2>2 DEF Bits
<1>7. Liberacion'
  <2>1. \A h \in Procesos : por_liberar' # <<h>>
    BY <1>1, <1>2
  <2> QED
    BY <2>1 DEF Liberacion
<1>8. Exclusivos' /\ EnSuMarco'
  <2>1. \A q \in Vivos' : Presentes(q)' = {}
    BY <1>3, <1>4
  <2> QED
    BY <1>1, <1>2, <2>1 DEF Exclusivos, EnSuMarco
<1> QED
  BY <1>5, <1>6, <1>7, <1>8 DEF InvMarcos

LEMMA MarcosFinalizar ==
  ASSUME TypeOK, InvPaginas, InvMarcos, NEW p \in Procesos, Finalizar(p)
  PROVE  InvMarcos'
<1>0. /\ TipoTablas /\ InvTablas /\ p \in Vivos /\ vida[p] = "listo" /\ acceso = Libre
      /\ \A q \in Vivos : q = p
  BY VidasDe DEF Finalizar, InvMarcos, Solo, Vivos
<1>1. /\ por_liberar = <<>> /\ liberador = Libre /\ buscador = Libre /\ liberadas = 0
      /\ bitmap = MarcosDe(p)
  BY <1>0, VidasDe DEF InvMarcos, Solo, Bits
<1>2. /\ UNCHANGED <<bitmap, buscador, liberador, liberadas, acceso, tabla>>
      /\ vida' = [vida EXCEPT ![p] = "finalizado"] /\ por_liberar' = <<p>>
  BY <1>1 DEF Finalizar, fisica, hilos, tablas
<1>3. Vivos' = {}
  BY <1>0, <1>2, VidasDe DEF Vivos
<1>4. \A q \in Procesos : Presentes(q)' = Presentes(q) /\ Residente(q)' = Residente(q)
  BY <1>2, PresentesDeOtro
<1>5. Solo'
  <2>1. \A q \in Procesos : por_liberar' # <<q>> => Presentes(q)' = {}
    <3> SUFFICES ASSUME NEW q \in Procesos, q # p PROVE Presentes(q) = {}
      BY <1>2, <1>4
    <3>1. q \notin Vivos /\ por_liberar # <<q>>
      BY <1>0, <1>1
    <3> QED
      BY <3>1 DEF InvMarcos, Solo
  <2> QED
    BY <1>2, <1>3, <2>1 DEF Solo
<1>6. Bits'
  BY <1>1, <1>2, <1>3 DEF Bits
<1>7. Liberacion'
  <2>1. \A h \in Procesos : por_liberar' = <<h>> => h = p
    BY <1>2
  <2>2. \A m \in MarcosDe(p) : \E j \in 1 .. Tamanio[p] : j > 0 /\ tabla[p][j].frame = m
    BY <1>0, VidasDe DEF MarcosDe, Residente
  <2>3. MarcosDe(p)' = MarcosDe(p)
    BY <1>4 DEF MarcosDe
  <2>4. ASSUME NEW j \in 1 .. Tamanio[p] PROVE ~ (j <= 0)
    BY <2>4
  <2> QED
    BY <1>1, <1>2, <2>1, <2>2, <2>3, <2>4 DEF Liberacion
<1>8. Exclusivos' /\ EnSuMarco'
  BY <1>0, <1>2, <1>3 DEF Exclusivos, EnSuMarco
<1> QED
  BY <1>5, <1>6, <1>7, <1>8 DEF InvMarcos

LEMMA QuienSeLibera ==
  ASSUME TypeOK, InvPaginas, InvMarcos, por_liberar # <<>>
  PROVE  /\ Vivos = {} /\ buscador = Libre /\ acceso = Libre
         /\ Head(por_liberar) \in Procesos /\ por_liberar = <<Head(por_liberar)>>
         /\ Len(tabla[Head(por_liberar)]) = Tamanio[Head(por_liberar)]
         /\ Presentes(Head(por_liberar)) \subseteq 1 .. Tamanio[Head(por_liberar)]
         /\ liberadas \in Nat /\ liberadas < Tamanio[Head(por_liberar)]
         /\ Tail(por_liberar) = <<>>
<1>1. Vivos = {} /\ buscador = Libre /\ acceso = Libre
  BY VidasDe DEF InvMarcos, Solo
<1>2. PICK h \in Procesos : por_liberar = <<h>>
  BY DEF InvMarcos, Solo
<1>3. Head(por_liberar) = h /\ Tail(por_liberar) = <<>> /\ DOMAIN por_liberar = {1}
        /\ por_liberar[1] = h
  BY <1>2
<1>4. /\ liberadas \in Nat /\ liberadas < Tamanio[h] /\ vida[h] = "finalizado"
      /\ TipoTablas /\ InvTablas
  BY <1>3, VidasDe DEF Liberando, PorLiberar, TipoTablas
<1>5. Len(tabla[h]) = Tamanio[h]
  BY <1>4 DEF InvTablas, TablaDe
<1>6. Presentes(h) \subseteq 1 .. Tamanio[h]
  BY <1>4, <1>5, DominiosDeTabla
<1> QED
  BY <1>1, <1>2, <1>3, <1>4, <1>5, <1>6

LEMMA MarcosLiberarPagina ==
  ASSUME TypeOK, InvPaginas, InvMarcos, LiberarPagina
  PROVE  InvMarcos'
<1>0. TipoTablas /\ InvTablas /\ por_liberar # <<>> /\ liberador = Libre
  BY VidasDe DEF LiberarPagina
<1>1. PICK h \in Procesos : h = Head(por_liberar)
  BY <1>0, QuienSeLibera
<1>2. /\ Vivos = {} /\ buscador = Libre /\ acceso = Libre /\ por_liberar = <<h>>
      /\ Presentes(h) \subseteq 1 .. Tamanio[h] /\ liberadas \in Nat /\ liberadas < Tamanio[h]
      /\ Len(tabla[h]) = Tamanio[h]
  BY <1>0, <1>1, QuienSeLibera
<1>3. /\ UNCHANGED <<bitmap, buscador, liberadas, acceso, vida, por_liberar>>
      /\ liberador' = [pid |-> h, pagina |-> liberadas + 1, leido |-> bitmap]
  BY <1>1 DEF LiberarPagina, fisica, procesos
<1>4. /\ Presentes(h)' = Presentes(h) \ {liberadas + 1}
      /\ \A q \in Procesos \ {h} : Presentes(q)' = Presentes(q)
  BY <1>0, <1>1, PresentesLiberar
<1>5. \A k \in 1 .. Tamanio[h] : tabla'[h][k].frame = tabla[h][k].frame
  BY <1>0, <1>2, TablaLiberarPagina
<1>6. Vivos' = {}
  BY <1>2, <1>3 DEF Vivos
<1>7. Solo'
  BY <1>2, <1>3, <1>4, <1>6 DEF InvMarcos, Solo
<1>8. Bits'
  BY <1>2, <1>3, <1>6 DEF Bits
<1>9. Liberacion'
  <2>1. liberador' # Libre
    <3>1. liberador'.pid = h /\ Libre.pid = Nadie /\ h # Nadie
      BY <1>3, MemoriaAssumption DEF Libre
    <3> QED
      BY <3>1
  <2>2. \A x \in Procesos : por_liberar' = <<x>> => x = h
    BY <1>2, <1>3
  <2>3. /\ \A m \in bitmap : \E j \in 1 .. Tamanio[h] : j > liberadas /\ tabla[h][j].frame = m
        /\ \A j \in 1 .. Tamanio[h] : j <= liberadas => j \notin Presentes(h)
    BY <1>2 DEF InvMarcos, Liberacion
  <2> QED
    BY <1>2, <1>3, <1>4, <1>5, <2>1, <2>2, <2>3 DEF Liberacion
<1>10. Exclusivos' /\ EnSuMarco'
  BY <1>2, <1>3, <1>6 DEF Exclusivos, EnSuMarco
<1> QED
  BY <1>7, <1>8, <1>9, <1>10 DEF InvMarcos

LEMMA MarcosLimpiarBit ==
  ASSUME TypeOK, InvPaginas, InvMarcos, LimpiarBit
  PROVE  InvMarcos'
<1>0. TipoTablas /\ InvTablas /\ por_liberar # <<>> /\ liberador # Libre
  BY VidasDe DEF LimpiarBit
<1>1. PICK h \in Procesos, j \in Nat : h = Head(por_liberar) /\ j = liberadas + 1
  BY <1>0, QuienSeLibera
<1>2. /\ Vivos = {} /\ buscador = Libre /\ acceso = Libre /\ por_liberar = <<h>>
      /\ Presentes(h) \subseteq 1 .. Tamanio[h] /\ liberadas \in Nat /\ liberadas < Tamanio[h]
      /\ Len(tabla[h]) = Tamanio[h] /\ Tail(por_liberar) = <<>> /\ Tamanio[h] \in Nat
  BY <1>0, <1>1, QuienSeLibera, PaginasDeProcesos
<1>3. liberador.pid = h /\ liberador.pagina = j /\ liberador.leido = bitmap
  BY <1>0, <1>1, VidasDe DEF Liberando, InvMarcos, Bits
<1>4. /\ UNCHANGED <<tabla, buscador, acceso, vida>> /\ liberador' = Libre
      /\ bitmap' = bitmap \ {tabla[h][j].frame}
      /\ j < Tamanio[h] => liberadas' = j /\ por_liberar' = por_liberar
      /\ ~ (j < Tamanio[h]) => liberadas' = 0 /\ por_liberar' = <<>>
  BY <1>2, <1>3 DEF LimpiarBit, tablas, SinBit
<1>5. \A q \in Procesos : Presentes(q)' = Presentes(q)
  BY <1>4, PresentesDeOtro
<1>6. /\ \A m \in bitmap : \E k \in 1 .. Tamanio[h] : k > liberadas /\ tabla[h][k].frame = m
      /\ \A k \in 1 .. Tamanio[h] : k <= liberadas => k \notin Presentes(h)
      /\ j \notin Presentes(h)
  BY Zenon, <1>0, <1>1, <1>2 DEF InvMarcos, Liberacion
<1>7. /\ \A m \in bitmap' : \E k \in 1 .. Tamanio[h] : k > j /\ tabla[h][k].frame = m
      /\ \A k \in 1 .. Tamanio[h] : k <= j => k \notin Presentes(h)
  <2>1. ASSUME NEW k \in 1 .. Tamanio[h] PROVE k > liberadas => k > j \/ k = j
    BY <1>1, <1>2
  <2>2. ASSUME NEW k \in 1 .. Tamanio[h] PROVE k <= j => k <= liberadas \/ k = j
    BY <1>1, <1>2
  <2> QED
    BY <1>4, <1>6, <2>1, <2>2
<1>8. Vivos' = {}
  BY <1>2, <1>4 DEF Vivos
<1>9. CASE j < Tamanio[h]
  <2>1. Solo'
    BY <1>2, <1>4, <1>5, <1>8, <1>9 DEF InvMarcos, Solo
  <2>2. Bits'
    BY <1>2, <1>4, <1>8, <1>9 DEF Bits
  <2>3. Liberacion'
    <3>1. \A x \in Procesos : por_liberar' = <<x>> => x = h
      BY <1>2, <1>4, <1>9
    <3>2. liberadas' = j /\ j # 0
      BY <1>1, <1>2, <1>4, <1>9
    <3> QED
      BY <1>4, <1>5, <1>7, <3>1, <3>2 DEF Liberacion
  <2>4. Exclusivos' /\ EnSuMarco'
    BY <1>2, <1>4, <1>8 DEF Exclusivos, EnSuMarco
  <2> QED
    BY <2>1, <2>2, <2>3, <2>4 DEF InvMarcos
<1>10. CASE ~ (j < Tamanio[h])
  <2>1. bitmap' = {} /\ Presentes(h) = {}
    <3>1. \A k \in 1 .. Tamanio[h] : ~ (k > j) /\ k <= j
      BY <1>2, <1>10
    <3> QED
      BY <1>2, <1>7, <3>1
  <2>2. por_liberar' = <<>> /\ \A x \in Procesos : por_liberar' # <<x>>
    BY <1>4, <1>10
  <2>3. Solo'
    <3>1. \A q \in Procesos : Presentes(q) = {}
      BY <1>2, <2>1 DEF InvMarcos, Solo
    <3> QED
      BY <1>5, <1>8, <2>2, <3>1 DEF Solo
  <2>4. Bits'
    BY <1>2, <1>4, <1>8, <2>1 DEF Bits
  <2>5. Liberacion' /\ Exclusivos' /\ EnSuMarco'
    BY <1>2, <1>4, <1>8, <2>2 DEF Liberacion, Exclusivos, EnSuMarco
  <2> QED
    BY <2>3, <2>4, <2>5 DEF InvMarcos
<1> QED
  BY <1>9, <1>10

\* The accesses of the cpu touch no frame of the tables.
LEMMA MarcosObtener ==
  ASSUME TypeOK, InvPaginas, InvMarcos, NEW p \in Procesos, NEW j \in 1 .. Tamanio[p],
         ObtenerMarco(p, j)
  PROVE  InvMarcos'
<1>0. TipoTablas /\ InvTablas /\ vida[p] = "listo" /\ acceso = Libre
  BY VidasDe DEF ObtenerMarco
<1>1. tabla' \in [Procesos -> Seq(Registro)] /\ MismosBits
  BY <1>0, TablaObtenerMarco
<1>2. Vivos' = Vivos
  BY VidasDe DEF ObtenerMarco, Vivos
<1>3. Solo' /\ Bits' /\ Liberacion' /\ Exclusivos'
  BY <1>1, <1>2, MarcosQuietos DEF ObtenerMarco, fisica
<1>4. EnSuMarco'
  <2>1. CASE tabla[p][j].presencia = 1
    <3>1. j \in Presentes(p) /\ Residente(p)[j] = tabla[p][j].frame
      <4>1. Len(tabla[p]) = Tamanio[p]
        BY <1>0 DEF InvTablas, TablaDe
      <4>2. j \in Presentes(p)
        BY <1>0, <2>1, <4>1, DominiosDeTabla
      <4> QED
        BY <4>2 DEF Residente
    <3>2. acceso' = [pid |-> p, pagina |-> j, marco |-> tabla[p][j].frame]
      BY <2>1 DEF ObtenerMarco
    <3>3. Presentes(p)' = Presentes(p) /\ Residente(p)' = Residente(p)
      BY <1>0, <1>1, PresentesIguales
    <3> QED
      BY <3>1, <3>2, <3>3 DEF EnSuMarco
  <2>2. CASE tabla[p][j].presencia # 1
    BY <1>0, <2>2 DEF ObtenerMarco, EnSuMarco
  <2> QED
    BY <2>1, <2>2
<1> QED
  BY <1>3, <1>4 DEF InvMarcos

LEMMA MarcosAcceder ==
  ASSUME TypeOK, InvPaginas, InvMarcos, Leer \/ \E v \in Valores : Escribir(v)
  PROVE  InvMarcos'
<1>1. tabla' \in [Procesos -> Seq(Registro)] /\ MismosBits
  BY VidasDe, TablaLeer, TablaEscribir
<1>2. /\ vida' = vida /\ acceso' = Libre
      /\ UNCHANGED <<por_liberar, bitmap, buscador, liberador, liberadas>>
  BY Zenon DEF Leer, Escribir, fisica, hilos
<1>3. Vivos' = Vivos
  BY <1>2 DEF Vivos
<1>4. Solo' /\ Bits' /\ Liberacion' /\ Exclusivos'
  BY <1>1, <1>2, <1>3, MarcosQuietos
<1>5. EnSuMarco'
  BY <1>2 DEF EnSuMarco
<1> QED
  BY <1>4, <1>5 DEF InvMarcos

\* A process with frames left finds one: the others have none.
LEMMA HayMarco ==
  ASSUME TypeOK, InvPaginas, InvMarcos, BuscarMarco
  PROVE  ~ (Marcos \subseteq bitmap)
<1>0. TipoTablas /\ Pedidos /\ pendientes # <<>>
  BY VidasDe DEF BuscarMarco
<1>1. PICK p \in Procesos : p = Head(pendientes).pid
  BY <1>0, HilosTrabajando
<1>2. p \in Vivos /\ bitmap = MarcosDe(p)
  BY <1>0, <1>1, HilosTrabajando, VidasDe DEF Pedidos, InvMarcos, Bits
<1>3. Cardinality(Presentes(p)) < MARCOS_POR_PROCESO
  <2>1. MARCOS_POR_PROCESO > Cardinality(Presentes(p))
    BY <1>1 DEF BuscarMarco, Ocupados, Presentes
  <2>2. IsFiniteSet(Presentes(p)) /\ Cardinality(Presentes(p)) \in Nat
    <3>1. Presentes(p) \subseteq Paginas /\ IsFiniteSet(Paginas)
      BY <1>2, VidasDe, PaginasDeProcesos
    <3> QED
      BY <3>1, FS_Subset, FS_CardinalityType
  <2> QED
    BY <2>1, <2>2, MemoriaAssumption
<1>4. IsFiniteSet(Presentes(p)) /\ Cardinality(Presentes(p)) \in Nat
  <2>1. Presentes(p) \subseteq Paginas /\ IsFiniteSet(Paginas)
    BY <1>2, VidasDe, PaginasDeProcesos
  <2> QED
    BY <2>1, FS_Subset, FS_CardinalityType
<1>5. IsFiniteSet(bitmap) /\ Cardinality(bitmap) <= Cardinality(Presentes(p))
        /\ Cardinality(bitmap) \in Nat
  <2> DEFINE f == [j \in Presentes(p) |-> Residente(p)[j]]
  <2>1. f \in Surjection(Presentes(p), bitmap)
    BY <1>2 DEF Surjection, MarcosDe
  <2> HIDE DEF f
  <2>2. IsFiniteSet(bitmap) /\ Cardinality(bitmap) <= Cardinality(Presentes(p))
    BY <1>4, <2>1, FS_Surjection
  <2> QED
    BY <2>2, FS_CardinalityType
<1>6. ASSUME Marcos \subseteq bitmap PROVE FALSE
  <2>1. Cardinality(Marcos) <= Cardinality(bitmap)
    BY <1>5, <1>6, FS_Subset
  <2> QED
    BY <1>3, <1>4, <1>5, <2>1, MarcosDeMemoria, MemoriaAssumption
<1> QED
  BY <1>6

LEMMA MarcosBuscar ==
  ASSUME TypeOK, InvPaginas, InvMarcos, BuscarMarco
  PROVE  InvMarcos' /\ viva' = viva
<1>0. TipoTablas /\ Pedidos /\ pendientes # <<>>
  BY VidasDe DEF BuscarMarco
<1>1. PICK p \in Procesos : p = Head(pendientes).pid
  BY <1>0, HilosTrabajando
<1>2. p \in Vivos /\ por_liberar = <<>>
  BY <1>0, <1>1, HilosTrabajando, VidasDe DEF Pedidos, InvMarcos, Solo
<1>3. /\ UNCHANGED <<tabla, bitmap, liberador, vida, por_liberar, acceso, viva>>
      /\ buscador' = [pid |-> p, pagina |-> Head(pendientes).pagina,
                      marco |-> MarcoLibre, leido |-> bitmap]
  BY Zenon, <1>1, HayMarco DEF BuscarMarco, tablas, fisica, procesos
<1>4. MarcoLibre \notin bitmap
  <2>1. Marcos \ bitmap # {} /\ Marcos \ bitmap \subseteq Nat
    BY Zenon, HayMarco, MarcosDeMemoria
  <2>2. MarcoLibre \in Marcos \ bitmap
    BY <2>1, MinimoNatural DEF MarcoLibre
  <2> QED
    BY <2>2
<1>5. \A q \in Procesos : Presentes(q)' = Presentes(q) /\ Residente(q)' = Residente(q)
  BY <1>3, PresentesDeOtro
<1>6. Vivos' = Vivos
  BY <1>3 DEF Vivos
<1>7. Solo'
  BY <1>3, <1>5, <1>6 DEF InvMarcos, Solo
<1>8. Bits'
  <2>1. \A q \in Vivos' : bitmap' = MarcosDe(q)'
    BY <1>3, <1>5, <1>6 DEF InvMarcos, Bits, MarcosDe, Vivos
  <2> QED
    BY <1>2, <1>3, <1>4, <1>6, <2>1 DEF InvMarcos, Bits
<1>9. Liberacion'
  <2>1. \A h \in Procesos : por_liberar' # <<h>>
    BY <1>2, <1>3
  <2> QED
    BY <2>1 DEF Liberacion
<1>10. Exclusivos' /\ EnSuMarco'
  <2>1. acceso # Libre => acceso.pid \in Procesos
    BY <1>0, HilosTrabajando
  <2> QED
    BY <1>3, <1>5, <1>6, <2>1 DEF InvMarcos, Exclusivos, EnSuMarco, Vivos
<1> QED
  BY <1>3, <1>7, <1>8, <1>9, <1>10 DEF InvMarcos

\* A process that waits for a page is the only one alive, and nobody is being released.
LEMMA SoloElBloqueado ==
  ASSUME TypeOK, InvPaginas, InvMarcos, NEW p \in Procesos, vida[p] = "bloqueado"
  PROVE  /\ p \in Vivos /\ Vivos = {p} /\ por_liberar = <<>> /\ acceso = Libre
         /\ liberador = Libre /\ bitmap = MarcosDe(p)
         /\ \A q \in Procesos \ {p} : Presentes(q) = {}
<1>1. p \in Vivos /\ Vivos = {p}
  BY VidasDe DEF InvMarcos, Solo
<1>2. por_liberar = <<>> /\ liberador = Libre /\ bitmap = MarcosDe(p)
  BY <1>1, VidasDe DEF InvMarcos, Solo, Bits
<1>3. acceso = Libre
  BY <1>1, VidasDe
<1>4. ASSUME NEW q \in Procesos \ {p} PROVE Presentes(q) = {}
  <2>1. q \notin Vivos /\ por_liberar # <<q>>
    BY <1>1, <1>2
  <2> QED
    BY <2>1 DEF InvMarcos, Solo
<1> QED
  BY <1>1, <1>2, <1>3, <1>4

\* The same, with the page and its frame named.
LEMMA CargaDePagina ==
  ASSUME TipoTablas, InvTablas, Pedidos, CargarPagina, NEW p \in Procesos, p = buscador.pid,
         NEW j, j = buscador.pagina, NEW m, m = buscador.marco, j \notin Presentes(p)
  PROVE  /\ Presentes(p)' = Presentes(p) \cup {j} /\ Residente(p)'[j] = m
         /\ \A k \in Presentes(p) : Residente(p)'[k] = Residente(p)[k]
         /\ \A q \in Procesos \ {p} : Presentes(q)' = Presentes(q)
<1>1. /\ Presentes(p)' = Presentes(p) \cup {j}
      /\ Residente(p)' = [k \in Presentes(p) \cup {j} |-> IF k = j THEN m ELSE Residente(p)[k]]
      /\ \A q \in Procesos \ {p} : Presentes(q)' = Presentes(q)
  BY PresentesCargar
<1> QED
  BY <1>1

LEMMA MarcosCargar ==
  ASSUME TypeOK, InvPaginas, InvMarcos, CargarPagina
  PROVE  InvMarcos'
<1>0. TipoTablas /\ InvTablas /\ Pedidos /\ buscador # Libre
  BY VidasDe DEF CargarPagina
<1>1. PICK p \in Procesos, j \in Paginas, m \in Marcos :
        /\ p = buscador.pid /\ vida[p] = "bloqueado" /\ j = buscador.pagina
        /\ j \notin Presentes(p) /\ m = buscador.marco
  BY <1>0, TablaCargarPagina, HilosTrabajando
<1>2. /\ Vivos = {p} /\ por_liberar = <<>> /\ acceso = Libre /\ liberador = Libre
      /\ bitmap = MarcosDe(p) /\ \A q \in Procesos \ {p} : Presentes(q) = {}
  BY <1>1, SoloElBloqueado
<1>3. /\ UNCHANGED <<liberador, por_liberar, acceso>> /\ buscador' = Libre
      /\ bitmap' = bitmap \cup {m} /\ vida' = [vida EXCEPT ![p] = "listo"] /\ m \notin bitmap
  BY <1>0, <1>1 DEF CargarPagina, Atender, ConBit, InvMarcos, Bits
<1>4. /\ Presentes(p)' = Presentes(p) \cup {j}
      /\ \A k \in Presentes(p) : Residente(p)'[k] = Residente(p)[k]
      /\ Residente(p)'[j] = m
      /\ \A q \in Procesos \ {p} : Presentes(q)' = Presentes(q)
  BY <1>0, <1>1, CargaDePagina
<1>5. Vivos' = {p}
  BY <1>2, <1>3, VidasDe DEF Vivos
<1>6. Solo'
  BY <1>2, <1>3, <1>4, <1>5 DEF Solo
<1>7. Bits'
  <2>1. MarcosDe(p)' = bitmap'
    BY <1>2, <1>3, <1>4 DEF MarcosDe
  <2> QED
    BY <1>2, <1>3, <1>5, <2>1 DEF Bits
<1>8. Liberacion'
  <2>1. \A h \in Procesos : por_liberar' # <<h>>
    BY <1>2, <1>3
  <2> QED
    BY <2>1 DEF Liberacion
<1>9. Exclusivos'
  <2>1. \A k \in Presentes(p) : Residente(p)[k] # m
    BY <1>2, <1>3 DEF MarcosDe
  <2>2. \A k, l \in Presentes(p) : Residente(p)[k] = Residente(p)[l] => k = l
    BY <1>2 DEF InvMarcos, Exclusivos
  <2> QED
    BY <1>4, <1>5, <2>1, <2>2 DEF Exclusivos
<1>10. EnSuMarco'
  BY <1>2, <1>3 DEF EnSuMarco
<1> QED
  BY <1>6, <1>7, <1>8, <1>9, <1>10 DEF InvMarcos

LEMMA MarcosReemplazar ==
  ASSUME TypeOK, InvPaginas, InvMarcos, Reemplazar
  PROVE  InvMarcos'
<1>0. TipoTablas /\ InvTablas /\ Pedidos /\ ResidentesEnCola /\ algoritmo \in Algoritmos
        /\ buscador = Libre
  BY Zenon, VidasDe DEF Reemplazar
<1>1. PICK p \in Procesos, nueva \in Paginas, i \in Nat : Toma(p, nueva, i)
  BY <1>0, TablaReemplazar
<1>2. PICK sale \in Presentes(p) : Sale(p, i, sale)
  BY ZenonT(30), <1>1 DEF Toma, Sale
<1>3. /\ vida[p] = "bloqueado" /\ vida' = [vida EXCEPT ![p] = "listo"] /\ nueva \notin Presentes(p)
  BY Zenon, <1>1 DEF Toma
<1>4. /\ Vivos = {p} /\ por_liberar = <<>> /\ acceso = Libre /\ liberador = Libre
      /\ bitmap = MarcosDe(p) /\ \A q \in Procesos \ {p} : Presentes(q) = {}
  BY <1>3, SoloElBloqueado
<1>5. UNCHANGED <<liberador, por_liberar, acceso, buscador, bitmap>>
  BY Zenon DEF Reemplazar
<1>6. /\ \A k \in Presentes(p)' : Residente(p)'[k] = Residente(p)[IF k = nueva THEN sale ELSE k]
      /\ Presentes(p)' = (Presentes(p) \ {sale}) \cup {nueva}
  BY <1>0, <1>1, <1>2, ResidenteToma
<1>7. \A q \in Procesos \ {p} : Presentes(q)' = Presentes(q)
  BY <1>0, <1>1, PresentesToma
<1>8. Vivos' = {p}
  BY <1>3, <1>4, VidasDe DEF Vivos
<1>9. Solo'
  BY <1>4, <1>5, <1>7, <1>8 DEF Solo
<1>10. Bits'
  <2>1. MarcosDe(p)' = MarcosDe(p)
    <3>1. MarcosDe(p)' \subseteq MarcosDe(p)
      BY <1>6 DEF MarcosDe
    <3>2. ASSUME NEW k \in Presentes(p) PROVE Residente(p)[k] \in MarcosDe(p)'
      <4>1. CASE k = sale
        <5>1. nueva \in Presentes(p)' /\ Residente(p)'[nueva] = Residente(p)[k]
          BY <1>6, <4>1
        <5> QED
          BY <5>1 DEF MarcosDe
      <4>2. CASE k # sale
        <5>1. k \in Presentes(p)' /\ Residente(p)'[k] = Residente(p)[k]
          BY <1>3, <1>6, <4>2
        <5> QED
          BY <5>1 DEF MarcosDe
      <4> QED
        BY <4>1, <4>2
    <3> QED
      BY <3>1, <3>2 DEF MarcosDe
  <2> QED
    BY <1>0, <1>4, <1>5, <1>8, <2>1 DEF Bits
<1>11. Liberacion'
  <2>1. \A h \in Procesos : por_liberar' # <<h>>
    BY <1>4, <1>5
  <2> QED
    BY <2>1 DEF Liberacion
<1>12. Exclusivos'
  <2>1. \A k, l \in Presentes(p) : Residente(p)[k] = Residente(p)[l] => k = l
    BY <1>4 DEF InvMarcos, Exclusivos
  <2> QED
    BY <1>3, <1>6, <1>8, <2>1 DEF Exclusivos
<1>13. EnSuMarco'
  BY <1>4, <1>5 DEF EnSuMarco
<1> QED
  BY <1>9, <1>10, <1>11, <1>12, <1>13 DEF InvMarcos

-----------------------------------------------------------------------------
(* The theorems *)

LEMMA MarcosPaso ==
  ASSUME TypeOK, InvPaginas, InvMarcos, GradoMax = 1, [Next]_vars
  PROVE  InvMarcos'
<1>1. CASE Next
  BY Zenon, <1>1, MarcosCrear, MarcosFinalizar, MarcosLiberarPagina, MarcosLimpiarBit, MarcosObtener,
     MarcosAcceder, MarcosBuscar, MarcosCargar, MarcosReemplazar
     DEF Next, HiloKernel, HiloCpu, HiloBuscador
<1>2. CASE UNCHANGED vars
  <2> USE <1>2 DEF vars, tablas, fisica, hilos, procesos
  <2>1. tabla' \in [Procesos -> Seq(Registro)] /\ MismosBits
    BY VidasDe, SinCambioDeTabla
  <2>2. Vivos' = Vivos
    BY DEF Vivos
  <2>3. Solo' /\ Bits' /\ Liberacion' /\ Exclusivos'
    BY <2>1, <2>2, MarcosQuietos
  <2>4. EnSuMarco'
    <3>1. acceso # Libre => acceso.pid \in Procesos
      BY VidasDe, HilosTrabajando
    <3> QED
      BY <3>1, PresentesDeOtro DEF InvMarcos, EnSuMarco
  <2> QED
    BY <2>3, <2>4 DEF InvMarcos
<1> QED
  BY <1>1, <1>2

\* With one process at a time what is known of the frames holds always (InvMarcos).
LEMMA MarcosSiempre ==
  ASSUME GradoMax = 1
  PROVE  Spec => [](TypeOK /\ InvPaginas /\ InvMarcos)
<1>1. Init => TypeOK /\ InvPaginas /\ InvMarcos
  BY InicioTypeOK, InicioPaginas, MarcosInicio
<1>2. TypeOK /\ InvPaginas /\ InvMarcos /\ [Next]_vars => TypeOK' /\ InvPaginas' /\ InvMarcos'
  BY PaginasInductivo, MarcosPaso
<1> QED
  BY <1>1, <1>2, PTL DEF Spec

\* With one process at a time no frame holds two pages.
THEOREM MarcosCorrectos ==
  ASSUME GradoMax = 1
  PROVE  Spec => []MarcosExclusivos
<1>1. ASSUME InvMarcos PROVE MarcosExclusivos
  <2> SUFFICES ASSUME NEW p \in Vivos, NEW q \in Vivos, NEW j \in Presentes(p),
                      NEW k \in Presentes(q), tabla[p][j].frame = tabla[q][k].frame
               PROVE  p = q /\ j = k
    BY DEF MarcosExclusivos
  <2>1. p = q
    BY <1>1 DEF InvMarcos, Solo
  <2>2. Residente(p)[j] = tabla[p][j].frame /\ Residente(q)[k] = tabla[q][k].frame
    BY DEF Residente
  <2> QED
    BY <1>1, <2>1, <2>2 DEF InvMarcos, Exclusivos
<1> QED
  BY <1>1, MarcosSiempre, PTL

\* With one process at a time the bitmap is exact between operations: every bit that the
\* release of a process clears was its own, and none is left.
THEOREM BitmapCorrecto ==
  ASSUME GradoMax = 1
  PROVE  Spec => []BitmapExacto
<1>1. ASSUME TypeOK, InvPaginas, InvMarcos PROVE BitmapExacto
  <2> SUFFICES ASSUME liberador = Libre, liberadas = 0
               PROVE  bitmap = UNION {{tabla[p][j].frame : j \in Presentes(p)} : p \in Procesos}
    BY DEF BitmapExacto
  <2>1. \A p \in Procesos : MarcosDe(p) = {tabla[p][j].frame : j \in Presentes(p)}
    BY DEF MarcosDe, Residente
  <2>2. \A p \in Procesos : Presentes(p) = {} => MarcosDe(p) = {}
    BY DEF MarcosDe
  <2>3. Solo /\ Bits /\ Liberacion
    BY <1>1 DEF InvMarcos
  <2>4. bitmap = UNION {MarcosDe(p) : p \in Procesos}
    <3>1. CASE por_liberar # <<>>
      <4>1. PICK h \in Procesos : por_liberar = <<h>> /\ Vivos = {}
        BY <2>3, <3>1 DEF Solo
      <4>2. bitmap = MarcosDe(h) /\ \A q \in Procesos \ {h} : MarcosDe(q) = {}
        <5>1. \A q \in Procesos \ {h} : por_liberar # <<q>>
          BY <4>1
        <5> QED
          BY <2>2, <2>3, <4>1, <5>1 DEF Liberacion, Solo
      <4> QED
        BY <4>2
    <3>2. CASE por_liberar = <<>> /\ Vivos # {}
      <4>1. PICK h \in Procesos : h \in Vivos
        BY <3>2 DEF Vivos
      <4>2. bitmap = MarcosDe(h) /\ \A q \in Procesos \ {h} : MarcosDe(q) = {}
        <5>1. \A q \in Procesos \ {h} : q \notin Vivos /\ por_liberar # <<q>>
          BY <2>3, <3>2, <4>1 DEF Solo
        <5> QED
          BY <2>2, <2>3, <4>1, <5>1 DEF Bits, Solo
      <4> QED
        BY <4>2
    <3>3. CASE por_liberar = <<>> /\ Vivos = {}
      <4>1. bitmap = {} /\ \A q \in Procesos : MarcosDe(q) = {}
        <5>1. \A q \in Procesos : por_liberar # <<q>>
          BY <3>3
        <5> QED
          BY <2>2, <2>3, <3>3, <5>1 DEF Bits, Solo
      <4> QED
        BY <4>1
    <3> QED
      BY <3>1, <3>2, <3>3
  <2> HIDE DEF MarcosDe
  <2> QED
    BY <2>1, <2>4
<1> QED
  BY <1>1, MarcosSiempre, PTL

\* With one process at a time memoria dies only of a read before anything was written:
\* it never looks for a frame or a victim in vain.
THEOREM CaidaDeMemoria ==
  ASSUME GradoMax = 1
  PROVE  Spec => UnicaCaida
<1>1. ASSUME TypeOK, InvPaginas, InvMarcos, Next
      PROVE  viva' \/ (acceso # Libre /\ ultima_escritura = Libre)
  <2>1. viva
    BY <1>1 DEF Next
  <2>2. Reemplazar => viva' = viva
    BY <1>1, VidasDe, TablaReemplazar DEF Toma
  <2>3. BuscarMarco => viva' = viva
    BY <1>1, MarcosBuscar
  <2>4. Leer => viva' = viva \/ (acceso # Libre /\ ultima_escritura = Libre)
    BY DEF Leer
  <2>5. \/ viva' = viva \/ Leer \/ BuscarMarco \/ Reemplazar
    BY Zenon, <1>1 DEF Next, HiloKernel, HiloCpu, HiloBuscador, CrearEstructuras, LiberarPagina,
       LimpiarBit, ObtenerMarco, Escribir, CargarPagina, Finalizar
  <2> QED
    BY Zenon, <2>1, <2>2, <2>3, <2>4, <2>5
<1>2. TypeOK /\ InvPaginas /\ InvMarcos /\ [Next]_vars
        => [viva' \/ (acceso # Libre /\ ultima_escritura = Libre)]_vars
  BY <1>1
<1> QED
  BY <1>2, MarcosSiempre, PTL DEF Spec, UnicaCaida

-----------------------------------------------------------------------------
(* What the frames hold *)

\* The positions given in the swap file are behind the pointer.
Posiciones == \A p \in Procesos : \A j \in 1 .. Len(tabla[p]) :
  tabla[p][j].posicion_swap < puntero_swap

SwapIntacto == swap = [i \in 1 .. TAMANIO_SWAP |-> Ceros] /\ puntero_swap <= TAMANIO_SWAP

\* A page of a process that fits in its frames is in one of them as it was last
\* written, or was never written.
ContenidoDe(p) == \A j \in 1 .. Len(tabla[p]) :
  /\ j \in Presentes(p) => espacio[Residente(p)[j]] = escrito[p][j]
  /\ j \notin Presentes(p) => escrito[p][j] = Ceros

Contenido == SwapIntacto =>
  \A p \in Vivos : Len(tabla[p]) <= MARCOS_POR_PROCESO => ContenidoDe(p)

InvContenido == Posiciones /\ Contenido

LEMMA PosicionesPaso ==
  ASSUME TypeOK, InvPaginas, Posiciones, Next
  PROVE  Posiciones'
<1>0. /\ TipoTablas /\ InvTablas /\ Pedidos /\ ResidentesEnCola /\ puntero_swap \in Nat
      /\ algoritmo \in Algoritmos
  BY VidasDe
<1>00. \A p \in Procesos : /\ Len(tabla[p]) \in Nat
                           /\ \A j \in 1 .. Len(tabla[p]) : tabla[p][j].posicion_swap \in Nat
  BY <1>0, DominiosDeTabla DEF Registro
<1>1. ASSUME NEW p \in Procesos, CrearEstructuras(p) PROVE Posiciones'
  <2>1. /\ Len(tabla[p])' = Tamanio[p]
        /\ \A k \in 1 .. Tamanio[p] : tabla'[p][k].posicion_swap = puntero_swap + k - 1
        /\ \A q \in Procesos \ {p} : tabla'[q] = tabla[q]
    BY <1>0, <1>1, TablaCrearEstructuras
  <2>2. puntero_swap' = puntero_swap + Tamanio[p] /\ Tamanio[p] \in Nat
    BY <1>1, PaginasDeProcesos DEF CrearEstructuras
  <2>3. \A k \in 1 .. Tamanio[p] : puntero_swap + k - 1 < puntero_swap + Tamanio[p]
    BY <1>0, <2>2
  <2>4. ASSUME NEW q \in Procesos \ {p}, NEW j \in 1 .. Len(tabla[q])
        PROVE  tabla[q][j].posicion_swap < puntero_swap + Tamanio[p]
    <3>1. tabla[q][j].posicion_swap < puntero_swap /\ tabla[q][j].posicion_swap \in Nat
      BY <1>00 DEF Posiciones
    <3> QED
      BY <1>0, <2>2, <3>1
  <2> QED
    BY <2>1, <2>2, <2>3, <2>4 DEF Posiciones
<1>2. ASSUME puntero_swap' = puntero_swap,
             \A q \in Procesos : /\ Len(tabla[q])' = Len(tabla[q])
                                 /\ \A k \in 1 .. Len(tabla[q]) :
                                      tabla'[q][k].posicion_swap = tabla[q][k].posicion_swap
      PROVE  Posiciones'
  BY <1>2 DEF Posiciones
<1>3. CASE MismosBits /\ puntero_swap' = puntero_swap
  BY <1>2, <1>3 DEF MismosBits
<1>4. ASSUME NEW p \in Procesos, NEW j \in 1 .. Tamanio[p], ObtenerMarco(p, j) PROVE Posiciones'
  BY <1>0, <1>3, <1>4, TablaObtenerMarco DEF ObtenerMarco
<1>5. ASSUME NEW v \in Valores, Escribir(v) PROVE Posiciones'
  BY Zenon, <1>0, <1>3, <1>5, TablaEscribir DEF Escribir
<1>6. ASSUME Leer PROVE Posiciones'
  BY Zenon, <1>0, <1>3, <1>6, TablaLeer DEF Leer
<1>7. CASE LiberarPagina
  BY <1>0, <1>2, <1>7, TablaLiberarPagina DEF LiberarPagina
<1>8. CASE LimpiarBit \/ BuscarMarco \/ \E p \in Procesos : Finalizar(p)
  BY <1>0, <1>3, <1>8, SinCambioDeTabla DEF LimpiarBit, BuscarMarco, Finalizar, tablas
<1>9. CASE CargarPagina
  BY <1>0, <1>2, <1>9, TablaCargarPagina DEF CargarPagina
<1>10. CASE Reemplazar
  <2>1. PICK p \in Procesos, nueva \in Paginas, i \in Nat : Toma(p, nueva, i)
    BY <1>0, <1>10, TablaReemplazar
  <2>2. /\ \A q \in Procesos : Len(tabla[q])' = Len(tabla[q])
        /\ \A q \in Procesos \ {p} : tabla'[q] = tabla[q]
        /\ \A k \in 1 .. Len(tabla[p]) : tabla'[p][k].posicion_swap = tabla[p][k].posicion_swap
    BY Zenon, <2>1 DEF Toma
  <2> QED
    BY Zenon, <1>2, <1>10, <2>2 DEF Reemplazar
<1> QED
  BY <1>1, <1>4, <1>5, <1>6, <1>7, <1>8, <1>9, <1>10 DEF Next, HiloKernel, HiloCpu, HiloBuscador

\* A process that fits in its frames never has to replace a page.
LEMMA NoReemplaza ==
  ASSUME TypeOK, InvPaginas, Reemplazar, NEW p \in Procesos, p = Head(pendientes).pid
  PROVE  p \in Vivos /\ ~ (Len(tabla[p]) <= MARCOS_POR_PROCESO)
<1>0. TipoTablas /\ Pedidos /\ pendientes # <<>>
  BY Zenon, VidasDe DEF Reemplazar
<1>1. vida[p] = "bloqueado" /\ p \in Vivos
  BY <1>0, HilosTrabajando, VidasDe DEF Pedidos
<1>2. PICK n \in Nat \ {0} : n = Tamanio[p] /\ Len(tabla[p]) = n
  BY <1>1, VidasDe, PaginasDeProcesos
<1>3. Presentes(p) \subseteq 1 .. n /\ reintento[p] \in 1 .. n /\ reintento[p] \notin Presentes(p)
  BY <1>0, <1>1, <1>2, VidasDe DEF Pedidos, InvTablas, TablaDe
<1>4. IsFiniteSet(1 .. n) /\ Cardinality(1 .. n) = n
  <2>1. IsFiniteSet(1 .. n) /\ Cardinality(1 .. n) = IF 1 > n THEN 0 ELSE n - 1 + 1
    BY FS_Interval
  <2> QED
    BY <2>1
<1>5. Cardinality(Presentes(p)) < n /\ Cardinality(Presentes(p)) \in Nat
  <2>1. IsFiniteSet(Presentes(p)) /\ Cardinality(Presentes(p)) <= n
    BY <1>3, <1>4, FS_Subset
  <2>2. Presentes(p) # 1 .. n
    BY <1>3
  <2>3. Cardinality(Presentes(p)) # n
    BY <1>3, <1>4, <2>2, FS_Subset
  <2> QED
    BY <2>1, <2>3, FS_CardinalityType
<1>6. MARCOS_POR_PROCESO <= Cardinality(Presentes(p))
  BY Zenon DEF Reemplazar, Ocupados, Presentes
<1> QED
  BY <1>1, <1>2, <1>5, <1>6, MemoriaAssumption

\* Nothing that the contents of the pages of p depend on.
LEMMA ContenidoQuieto ==
  ASSUME TypeOK, NEW p \in Procesos, ContenidoDe(p), Presentes(p)' = Presentes(p),
         Residente(p)' = Residente(p), Len(tabla[p])' = Len(tabla[p]),
         UNCHANGED <<espacio, escrito>>
  PROVE  ContenidoDe(p)'
BY DEF ContenidoDe

LEMMA ContenidoPaso ==
  ASSUME TypeOK, InvPaginas, InvMarcos, Posiciones, Contenido, GradoMax = 1, Next, SwapIntacto',
         NEW p \in Procesos, p \in Vivos', Len(tabla'[p]) <= MARCOS_POR_PROCESO
  PROVE  ContenidoDe(p)'
<1>0. /\ TipoTablas /\ InvTablas /\ Pedidos /\ ResidentesEnCola /\ puntero_swap \in Nat
      /\ algoritmo \in Algoritmos /\ TAMANIO_SWAP \in Nat
      /\ espacio \in [Marcos -> Contenidos] /\ escrito \in [Procesos -> Seq(Contenidos)]
  BY VidasDe, TypeOKPartes, MemoriaAssumption DEF TipoDatos
<1>01. ASSUME UNCHANGED <<swap, puntero_swap>>, p \in Vivos, Len(tabla'[p]) = Len(tabla[p])
       PROVE  ContenidoDe(p) /\ SwapIntacto
  BY <1>01 DEF Contenido, SwapIntacto
<1>02. ASSUME MismosBits, tabla' \in [Procesos -> Seq(Registro)], Vivos' = Vivos,
              UNCHANGED <<swap, puntero_swap, espacio, escrito>>
       PROVE  ContenidoDe(p)'
  <2>1. Len(tabla[p])' = Len(tabla[p])
    BY <1>02 DEF MismosBits
  <2>2. Presentes(p)' = Presentes(p) /\ Residente(p)' = Residente(p)
    BY <1>0, <1>02, PresentesIguales
  <2> QED
    BY <1>01, <1>02, <2>1, <2>2, ContenidoQuieto
<1>1. ASSUME NEW q \in Procesos, CrearEstructuras(q) PROVE ContenidoDe(p)'
  <2>1. Vivos = {} /\ vida' = [vida EXCEPT ![q] = "listo"]
    BY Zenon, <1>1, NadieMas DEF CrearEstructuras
  <2>2. p = q
    BY <2>1, VidasDe DEF Vivos
  <2>3. /\ Presentes(q)' = {} /\ Len(tabla[q])' = Tamanio[q]
        /\ escrito' = [escrito EXCEPT ![q] = [j \in 1 .. Tamanio[q] |-> Ceros]]
    BY Zenon, <1>0, <1>1, PresentesCrear, TablaCrearEstructuras DEF CrearEstructuras
  <2>4. escrito'[q] = [j \in 1 .. Tamanio[q] |-> Ceros]
    BY <1>0, <2>3
  <2> QED
    BY <2>2, <2>3, <2>4 DEF ContenidoDe
<1>2. ASSUME NEW q \in Procesos, Finalizar(q) PROVE ContenidoDe(p)'
  <2>1. Vivos = {q} /\ vida' = [vida EXCEPT ![q] = "finalizado"]
    BY <1>2, VidasDe DEF Finalizar, InvMarcos, Solo
  <2> QED
    BY <2>1, VidasDe DEF Vivos
<1>3. ASSUME LiberarPagina \/ LimpiarBit PROVE ContenidoDe(p)'
  <2>1. Vivos = {} /\ vida' = vida
    BY <1>3, QuienSeLibera, VidasDe DEF LiberarPagina, LimpiarBit, procesos
  <2> QED
    BY <2>1 DEF Vivos
<1>4. ASSUME NEW q \in Procesos, NEW j \in 1 .. Tamanio[q], ObtenerMarco(q, j) PROVE ContenidoDe(p)'
  <2>1. tabla' \in [Procesos -> Seq(Registro)] /\ MismosBits
    BY <1>0, <1>4, TablaObtenerMarco
  <2>2. Vivos' = Vivos
    BY <1>4, VidasDe DEF ObtenerMarco, Vivos
  <2> QED
    BY <1>02, <1>4, <2>1, <2>2 DEF ObtenerMarco, fisica
<1>5. ASSUME NEW v \in Valores, Escribir(v) PROVE ContenidoDe(p)'
  <2>1. tabla' \in [Procesos -> Seq(Registro)] /\ MismosBits
    BY <1>0, <1>5, TablaEscribir
  <2>2. Vivos' = Vivos /\ Len(tabla[p])' = Len(tabla[p]) /\ UNCHANGED <<swap, puntero_swap>>
    BY Zenon, <1>5, <2>1 DEF Escribir, Vivos, MismosBits
  <2>3. Presentes(p)' = Presentes(p) /\ Residente(p)' = Residente(p)
    BY <1>0, <2>1, PresentesIguales
  <2>4. PICK j \in Paginas, m \in Marcos : j = acceso.pagina /\ m = acceso.marco
    BY <1>0, <1>5, HilosTrabajando DEF Escribir
  <2>5. /\ acceso # Libre /\ acceso.pid \in Vivos /\ p \in Vivos /\ acceso.pid = p
    BY <1>5, <2>2, VidasDe DEF Escribir, InvMarcos, Solo
  <2>6. j \in Presentes(p) /\ m = Residente(p)[j]
    BY <2>4, <2>5 DEF InvMarcos, EnSuMarco
  <2>7. /\ espacio' = [espacio EXCEPT ![m] = <<p, j, v>>]
        /\ escrito' = [escrito EXCEPT ![p][j] = <<p, j, v>>]
    BY <1>5, <2>4, <2>5 DEF Escribir
  <2>8. Len(escrito[p]) = Tamanio[p] /\ Len(tabla[p]) = Tamanio[p] /\ DOMAIN escrito[p] = 1 .. Tamanio[p]
    <3>1. Len(escrito[p]) = Tamanio[p] /\ Len(tabla[p]) = Tamanio[p]
      BY <1>0, <2>5, VidasDe DEF InvTablas, TablaDe
    <3> QED
      BY <1>0, <3>1, LenProperties
  <2>9. j \in 1 .. Tamanio[p]
    BY <2>5, <2>6, VidasDe
  <2>10. /\ espacio'[m] = <<p, j, v>> /\ escrito'[p][j] = <<p, j, v>>
         /\ \A k \in 1 .. Tamanio[p] : k # j => escrito'[p][k] = escrito[p][k]
         /\ \A n \in Marcos : n # m => espacio'[n] = espacio[n]
    BY <1>0, <2>7, <2>8, <2>9
  <2>11. \A k \in Presentes(p) : k # j => Residente(p)[k] # m /\ Residente(p)[k] \in Marcos
    <3>1. \A k \in Presentes(p) : Residente(p)[k] = tabla[p][k].frame /\ tabla[p][k] \in Registro
      BY <1>0, DominiosDeTabla DEF Residente
    <3>2. \A k \in Presentes(p) : Residente(p)[k] \in Marcos
      BY <3>1 DEF Registro
    <3> QED
      BY <2>5, <2>6, <3>2 DEF InvMarcos, Exclusivos
  <2>12. ContenidoDe(p)
    BY <1>01, <2>2, <2>5
  <2>13. ASSUME NEW k \in 1 .. Tamanio[p]
         PROVE  /\ k \in Presentes(p) => espacio'[Residente(p)[k]] = escrito'[p][k]
                /\ k \notin Presentes(p) => escrito'[p][k] = Ceros
    <3>1. /\ k \in Presentes(p) => espacio[Residente(p)[k]] = escrito[p][k]
          /\ k \notin Presentes(p) => escrito[p][k] = Ceros
      BY <2>8, <2>12 DEF ContenidoDe
    <3>2. CASE k = j
      BY <2>6, <2>10, <3>2
    <3>3. CASE k # j
      BY <2>10, <2>11, <3>1, <3>3
    <3> QED
      BY <3>2, <3>3
  <2>14. \A k \in 1 .. Len(tabla'[p]) :
           /\ k \in Presentes(p)' => espacio'[Residente(p)'[k]] = escrito'[p][k]
           /\ k \notin Presentes(p)' => escrito'[p][k] = Ceros
    BY <2>2, <2>3, <2>8, <2>13
  <2> QED
    BY <2>14 DEF ContenidoDe
<1>6. ASSUME Leer PROVE ContenidoDe(p)'
  <2>1. tabla' \in [Procesos -> Seq(Registro)] /\ MismosBits
    BY <1>0, <1>6, TablaLeer
  <2>2. Vivos' = Vivos
    BY <1>6 DEF Leer, Vivos
  <2> QED
    BY <1>02, <1>6, <2>1, <2>2 DEF Leer, fisica
<1>7. ASSUME BuscarMarco PROVE ContenidoDe(p)'
  <2>1. tabla' \in [Procesos -> Seq(Registro)] /\ MismosBits
    BY <1>0, <1>7, SinCambioDeTabla DEF BuscarMarco, tablas
  <2>2. Vivos' = Vivos
    BY <1>7 DEF BuscarMarco, Vivos, procesos
  <2> QED
    BY <1>02, <1>7, <2>1, <2>2 DEF BuscarMarco, tablas, fisica
<1>8. ASSUME CargarPagina PROVE ContenidoDe(p)'
  <2>1. PICK q \in Procesos, j \in Paginas, m \in Marcos :
          /\ q = buscador.pid /\ vida[q] = "bloqueado" /\ j = buscador.pagina
          /\ j \notin Presentes(q) /\ m = buscador.marco /\ j \in 1 .. Len(tabla[q])
          /\ buscador # Libre
    BY <1>0, <1>8, TablaCargarPagina, HilosTrabajando DEF CargarPagina
  <2>2. Vivos = {q} /\ bitmap = MarcosDe(q) /\ m \notin bitmap
    BY <2>1, SoloElBloqueado DEF InvMarcos, Bits
  <2>3. vida' = [vida EXCEPT ![q] = "listo"] /\ UNCHANGED <<swap, puntero_swap, escrito>>
    BY <1>8, <2>1 DEF CargarPagina, Atender
  <2>4. p = q
    BY <2>2, <2>3, VidasDe DEF Vivos
  <2>5. /\ Presentes(p)' = Presentes(p) \cup {j} /\ Len(tabla[p])' = Len(tabla[p])
        /\ \A k \in Presentes(p) : Residente(p)'[k] = Residente(p)[k]
        /\ Residente(p)'[j] = m
    <3>1. Len(tabla[p])' = Len(tabla[p])
      BY <1>0, <1>8, TablaCargarPagina
    <3>2. p = buscador.pid /\ j \notin Presentes(p)
      BY <2>1, <2>4
    <3> QED
      BY <1>0, <1>8, <2>1, <3>1, <3>2, CargaDePagina
  <2>6. ContenidoDe(p) /\ SwapIntacto
    BY <1>01, <2>2, <2>3, <2>4, <2>5
  <2>7. espacio' = [espacio EXCEPT ![m] = Ceros]
    <3>1. espacio' = [espacio EXCEPT ![m] = EnSwap(tabla[p][j].posicion_swap)]
      BY <1>8, <2>1, <2>4 DEF CargarPagina
    <3>2. PICK n \in Nat : n = tabla[p][j].posicion_swap /\ n < puntero_swap
      BY Zenon, <1>0, <2>1, <2>4, DominiosDeTabla DEF Posiciones, Registro
    <3>3. n + 1 \in 1 .. TAMANIO_SWAP
      BY <1>0, <2>6, <3>2 DEF SwapIntacto
    <3>4. swap = [i \in 1 .. TAMANIO_SWAP |-> Ceros]
      BY <2>6 DEF SwapIntacto
    <3>5. EnSwap(n) = Ceros
      BY <3>3, <3>4 DEF EnSwap
    <3> QED
      BY <3>1, <3>2, <3>5
  <2>8. \A k \in Presentes(p) : Residente(p)[k] # m /\ Residente(p)[k] \in Marcos
    <3>1. \A k \in Presentes(p) : Residente(p)[k] = tabla[p][k].frame /\ tabla[p][k] \in Registro
      BY <1>0, DominiosDeTabla DEF Residente
    <3>2. \A k \in Presentes(p) : Residente(p)[k] \in Marcos
      BY <3>1 DEF Registro
    <3> QED
      BY <2>2, <2>4, <3>2 DEF MarcosDe
  <2>9. espacio'[m] = Ceros /\ \A k \in Presentes(p) : espacio'[Residente(p)[k]] = espacio[Residente(p)[k]]
    BY <1>0, <2>1, <2>7, <2>8
  <2>10. escrito[p][j] = Ceros
    BY <2>1, <2>4, <2>6 DEF ContenidoDe
  <2> QED
    BY <2>3, <2>5, <2>6, <2>9, <2>10 DEF ContenidoDe
<1>9. ASSUME Reemplazar PROVE ContenidoDe(p)'
  <2>1. PICK q \in Procesos, nueva \in Paginas, i \in Nat : Toma(q, nueva, i)
    BY <1>0, <1>9, TablaReemplazar
  <2>2. /\ q = Head(pendientes).pid /\ vida[q] = "bloqueado" /\ vida' = [vida EXCEPT ![q] = "listo"]
        /\ Len(tabla[q])' = Len(tabla[q])
    BY Zenon, <2>1 DEF Toma
  <2>3. Vivos = {q}
    BY <2>2, SoloElBloqueado
  <2>4. p = q
    BY <2>2, <2>3, VidasDe DEF Vivos
  <2>5. ~ (Len(tabla[q]) <= MARCOS_POR_PROCESO)
    BY <1>9, <2>2, NoReemplaza
  <2> QED
    BY <2>2, <2>4, <2>5
<1> QED
  BY <1>1, <1>2, <1>3, <1>4, <1>5, <1>6, <1>7, <1>8, <1>9
     DEF Next, HiloKernel, HiloCpu, HiloBuscador

LEMMA ContenidoInductivo ==
  ASSUME TypeOK, InvPaginas, InvMarcos, InvContenido, GradoMax = 1, [Next]_vars
  PROVE  InvContenido'
<1>1. CASE Next
  <2>1. Posiciones'
    BY <1>1, PosicionesPaso DEF InvContenido
  <2>2. ASSUME SwapIntacto', NEW p \in Vivos', Len(tabla'[p]) <= MARCOS_POR_PROCESO
        PROVE  ContenidoDe(p)'
    <3>1. p \in Procesos
      BY DEF Vivos
    <3> QED
      BY <1>1, <2>2, <3>1, ContenidoPaso DEF InvContenido
  <2> QED
    BY <2>1, <2>2 DEF InvContenido, Contenido
<1>2. CASE UNCHANGED vars
  <2> USE <1>2 DEF vars, tablas, fisica, hilos, procesos
  <2>1. \A p \in Procesos : Presentes(p)' = Presentes(p) /\ Residente(p)' = Residente(p)
    BY PresentesDeOtro
  <2>2. Posiciones'
    BY DEF InvContenido, Posiciones
  <2>3. ASSUME SwapIntacto', NEW p \in Vivos', Len(tabla'[p]) <= MARCOS_POR_PROCESO
        PROVE  ContenidoDe(p)'
    <3>1. p \in Procesos /\ p \in Vivos /\ SwapIntacto /\ Len(tabla[p]) <= MARCOS_POR_PROCESO
      BY <2>3 DEF Vivos, SwapIntacto
    <3>2. ContenidoDe(p)
      BY <3>1 DEF InvContenido, Contenido
    <3> QED
      BY <2>1, <3>1, <3>2, ContenidoQuieto
  <2> QED
    BY <2>2, <2>3 DEF InvContenido, Contenido
<1> QED
  BY <1>1, <1>2

\* With one process at a time, and as long as the swap file has room for every page
\* created and none had to be written to it, an access of a process that fits in its
\* frames finds what was last written to its page.
THEOREM AccesosCorrectos ==
  ASSUME GradoMax = 1
  PROVE  Spec => [](puntero_swap <= TAMANIO_SWAP => AccesoSinReemplazo)
<1>1. Init => InvContenido
  <2> SUFFICES ASSUME Init PROVE InvContenido
    OBVIOUS
  <2>1. \A p \in Procesos : vida[p] = "sin_crear" /\ tabla[p] = <<>>
    BY DEF Init
  <2>2. Vivos = {}
    BY <2>1 DEF Vivos
  <2> QED
    BY <2>1, <2>2 DEF InvContenido, Posiciones, Contenido
<1>2. TypeOK /\ InvPaginas /\ InvMarcos /\ InvContenido /\ [Next]_vars => InvContenido'
  BY ContenidoInductivo
<1>3. Spec => [](TypeOK /\ InvPaginas /\ InvMarcos /\ InvContenido)
  BY <1>1, <1>2, MarcosSiempre, PTL DEF Spec
<1>4. ASSUME TypeOK, InvPaginas, InvMarcos, InvContenido, puntero_swap <= TAMANIO_SWAP
      PROVE  AccesoSinReemplazo
  <2> SUFFICES ASSUME acceso # Libre, Len(tabla[acceso.pid]) <= MARCOS_POR_PROCESO,
                      swap = [i \in 1 .. TAMANIO_SWAP |-> Ceros]
               PROVE  espacio[acceso.marco] = escrito[acceso.pid][acceso.pagina]
    BY DEF AccesoSinReemplazo, AccesoCorrecto
  <2>1. acceso.pid \in Vivos
    BY <1>4, VidasDe
  <2>2. acceso.pagina \in Presentes(acceso.pid)
          /\ acceso.marco = Residente(acceso.pid)[acceso.pagina]
    BY <1>4 DEF InvMarcos, EnSuMarco
  <2>3. acceso.pagina \in 1 .. Len(tabla[acceso.pid])
    BY <1>4, <2>1, <2>2, VidasDe
  <2>4. ContenidoDe(acceso.pid)
    BY <1>4, <2>1 DEF InvContenido, Contenido, SwapIntacto
  <2> QED
    BY <2>2, <2>3, <2>4 DEF ContenidoDe
<1> QED
  BY <1>3, <1>4, PTL
=============================================================================
