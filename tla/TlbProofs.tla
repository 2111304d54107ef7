----------------------------- MODULE TlbProofs -----------------------------
(***************************************************************************)
(* What TLAPS proves of Tlb, for any processes, segments, page and table   *)
(* sizes, frames and entries of the TLB.                                   *)
(***************************************************************************)
EXTENDS Tlb, Conteo

-----------------------------------------------------------------------------
(* What is left of a list *)

LEMMA TamanoIntervalo ==
  ASSUME NEW a \in Nat, NEW b \in Nat, a <= b + 1
  PROVE  Cardinality(a .. b) = b - a + 1
<1>1. Cardinality(a .. b) = IF a > b THEN 0 ELSE b - a + 1
  BY FS_Interval
<1> QED
  BY <1>1

\* The position that each element that is left comes from.
LEMMA PosicionesQuedan ==
  ASSUME NEW S, NEW s \in Seq(S), NEW I \in SUBSET DOMAIN s
  PROVE  /\ IsFiniteSet(I) /\ Cardinality(I) \in Nat
         /\ \E g \in [1 .. Cardinality(I) -> I] :
              /\ \A i \in I : \E k \in 1 .. Cardinality(I) : g[k] = i
              /\ \A k, l \in 1 .. Cardinality(I) : k < l => g[k] < g[l]
              /\ \A k \in 1 .. Cardinality(I) : Cardinality({h \in I : h <= g[k]}) = k
              /\ \A k \in 1 .. Cardinality(I) : Quedan(s, I)[k] = s[g[k]]
<1> DEFINE n == Cardinality(I)
           hasta(i) == {h \in I : h <= i}
           rango == [i \in I |-> Cardinality(hasta(i))]
<1>1. /\ DOMAIN s = 1 .. Len(s) /\ Len(s) \in Nat /\ I \subseteq Nat
      /\ IsFiniteSet(I) /\ n \in Nat
  BY LenProperties, PosicionesFinitas
<1>2. \A i \in I : hasta(i) \subseteq I /\ i \in hasta(i)
  BY <1>1
<1>3. \A i \in I : /\ IsFiniteSet(hasta(i)) /\ Cardinality(hasta(i)) \in 1 .. n
  <2> TAKE i \in I
  <2>1. IsFiniteSet(hasta(i)) /\ Cardinality(hasta(i)) <= n /\ Cardinality(hasta(i)) \in Nat
    BY <1>1, <1>2, FS_Subset, FS_CardinalityType
  <2>2. Cardinality(hasta(i)) # 0
    BY <1>2, <2>1, FS_EmptySet
  <2> QED
    BY <1>1, <2>1, <2>2
<1>4. rango \in [I -> 1 .. n]
  BY <1>3
<1>5. \A i, j \in I : i < j => rango[i] < rango[j]
  <2> SUFFICES ASSUME NEW i \in I, NEW j \in I, i < j
               PROVE  Cardinality(hasta(i)) < Cardinality(hasta(j))
    OBVIOUS
  <2>1. hasta(i) \subseteq hasta(j) /\ hasta(i) # hasta(j)
    BY <1>1
  <2> HIDE DEF hasta
  <2>2. /\ Cardinality(hasta(i)) <= Cardinality(hasta(j))
        /\ Cardinality(hasta(i)) # Cardinality(hasta(j))
    BY <1>3, <2>1, FS_Subset
  <2> QED
    BY <1>1, <1>3, <2>2
<1>6. \A i, j \in I : rango[i] = rango[j] => i = j
  <2> SUFFICES ASSUME NEW i \in I, NEW j \in I, i # j PROVE rango[i] # rango[j]
    OBVIOUS
  <2>1. i < j \/ j < i
    BY <1>1
  <2>2. rango[i] \in Nat /\ rango[j] \in Nat
    <3> HIDE DEF hasta
    <3> QED
      BY <1>1, <1>3
  <2> HIDE DEF rango
  <2> QED
    BY <1>5, <2>1, <2>2
<1>7. \A k \in 1 .. n : \E i \in I : rango[i] = k
  <2>1. rango \in Injection(I, 1 .. n)
    BY <1>4, <1>6 DEF Injection, IsInjective
  <2>2. IsFiniteSet(1 .. n) /\ Cardinality(1 .. n) = n
    BY <1>1, FS_Interval
  <2> HIDE DEF rango, n
  <2>3. rango \in Surjection(I, 1 .. n)
    BY <1>1, <2>1, <2>2, FS_Injection DEF n
  <2> QED
    BY <2>3 DEF Surjection
<1> DEFINE g == [k \in 1 .. n |-> CHOOSE i \in I : Cardinality({h \in I : h <= i}) = k]
<1>8. \A k \in 1 .. n : g[k] \in I /\ Cardinality(hasta(g[k])) = k
  BY <1>7
<1>9. g \in [1 .. n -> I]
  <2> HIDE DEF hasta
  <2> QED
    BY <1>8
<1>10. \A i \in I : \E k \in 1 .. n : g[k] = i
  <2> SUFFICES ASSUME NEW i \in I PROVE g[rango[i]] = i /\ rango[i] \in 1 .. n
    OBVIOUS
  <2> HIDE DEF g, n, hasta
  <2> QED
    BY <1>4, <1>6, <1>8
<1>11. \A k, l \in 1 .. n : k < l => g[k] < g[l]
  <2> SUFFICES ASSUME NEW k \in 1 .. n, NEW l \in 1 .. n, k < l PROVE g[k] < g[l]
    OBVIOUS
  <2>1. g[k] \in I /\ g[l] \in I /\ rango[g[k]] = k /\ rango[g[l]] = l
    <3> HIDE DEF g, n, hasta
    <3> QED
      BY <1>8
  <2> HIDE DEF g, rango
  <2> QED
    BY <1>1, <1>5, <2>1
<1>12. \A k \in 1 .. n : Quedan(s, I)[k] = s[g[k]]
  BY DEF Quedan
<1> HIDE DEF g
<1> QED
  BY <1>1, <1>8, <1>9, <1>10, <1>11, <1>12

\* The positions of I, in their order.
Enumera(g, I) ==
  /\ g \in [1 .. Cardinality(I) -> I]
  /\ \A i \in I : \E k \in 1 .. Cardinality(I) : g[k] = i
  /\ \A k, l \in 1 .. Cardinality(I) : k < l => g[k] < g[l]

LEMMA EnumeraQuedan ==
  ASSUME NEW S, NEW s \in Seq(S), NEW I \in SUBSET DOMAIN s
  PROVE  \E g : Enumera(g, I) /\ \A k \in 1 .. Cardinality(I) : Quedan(s, I)[k] = s[g[k]]
<1>1. PICK g \in [1 .. Cardinality(I) -> I] :
        /\ \A i \in I : \E k \in 1 .. Cardinality(I) : g[k] = i
        /\ \A k, l \in 1 .. Cardinality(I) : k < l => g[k] < g[l]
        /\ \A k \in 1 .. Cardinality(I) : Quedan(s, I)[k] = s[g[k]]
  BY PosicionesQuedan, SMTT(40)
<1>2. Enumera(g, I)
  BY <1>1 DEF Enumera
<1> QED
  BY <1>1, <1>2

\* What is left, element by element.
LEMMA QuedanTipo ==
  ASSUME NEW S, NEW s \in Seq(S), NEW I \in SUBSET DOMAIN s
  PROVE  /\ Quedan(s, I) \in Seq(S) /\ Len(Quedan(s, I)) = Cardinality(I)
         /\ Len(Quedan(s, I)) \in Nat /\ Len(Quedan(s, I)) <= Len(s)
         /\ DOMAIN Quedan(s, I) = 1 .. Cardinality(I)
         /\ {Quedan(s, I)[k] : k \in DOMAIN Quedan(s, I)} = {s[i] : i \in I}
         /\ \A x : x \in {s[i] : i \in I} => x \in S
<1> DEFINE n == Cardinality(I)
           r == Quedan(s, I)
<1>1. /\ DOMAIN s = 1 .. Len(s) /\ Len(s) \in Nat /\ n \in Nat /\ n <= Len(s)
      /\ \A i \in I : s[i] \in S
  BY LenProperties, PosicionesFinitas, ElementOfSeq
<1>2. PICK g \in [1 .. n -> I] : /\ \A i \in I : \E k \in 1 .. n : g[k] = i
                                 /\ \A k \in 1 .. n : r[k] = s[g[k]]
  BY PosicionesQuedan
<1>3. DOMAIN r = 1 .. n
  BY DEF Quedan
<1>4. r = [k \in 1 .. n |-> r[k]]
  BY DEF Quedan
<1> HIDE DEF r, n
<1>5. r \in [1 .. n -> S]
  BY <1>1, <1>2, <1>4
<1>6. r \in Seq(S) /\ Len(r) = n
  BY <1>1, <1>5, LenProperties, IsASeq
<1>7. {r[k] : k \in 1 .. n} = {s[i] : i \in I}
  BY <1>2
<1> QED
  BY <1>1, <1>3, <1>6, <1>7 DEF r, n

\* Without its first m elements.
LEMMA QuedanUltimos ==
  ASSUME NEW S, NEW s \in Seq(S), NEW m \in 0 .. Len(s),
         NEW I \in SUBSET DOMAIN s, \A i \in DOMAIN s : i \in I <=> m < i
  PROVE  /\ Cardinality(I) = Len(s) - m
         /\ \A k \in 1 .. Len(s) - m : Quedan(s, I)[k] = s[m + k]
<1>1. DOMAIN s = 1 .. Len(s) /\ Len(s) \in Nat /\ I \subseteq Nat /\ m \in Nat /\ m <= Len(s)
  BY LenProperties
<1>2. I = m + 1 .. Len(s)
  <2>1. \A i \in I : i \in m + 1 .. Len(s)
    BY <1>1
  <2>2. \A i \in m + 1 .. Len(s) : i \in I
    BY <1>1
  <2> QED
    BY <2>1, <2>2
<1>3. Cardinality(I) = Len(s) - m
  BY <1>1, <1>2, TamanoIntervalo
<1>4. PICK g \in [1 .. Cardinality(I) -> I] :
        \A k \in 1 .. Cardinality(I) : /\ Cardinality({h \in I : h <= g[k]}) = k
                                       /\ Quedan(s, I)[k] = s[g[k]]
  BY PosicionesQuedan
<1>5. \A k \in 1 .. Len(s) - m : g[k] = m + k
  <2> TAKE k \in 1 .. Len(s) - m
  <2>1. PICK x \in m + 1 .. Len(s) : x = g[k] /\ Cardinality({h \in I : h <= x}) = k
    BY <1>2, <1>3, <1>4
  <2>2. {h \in I : h <= x} = m + 1 .. x
    BY <1>1, <1>2, <2>1
  <2>3. Cardinality(m + 1 .. x) = x - (m + 1) + 1
    BY <1>1, TamanoIntervalo
  <2>4. Cardinality({h \in I : h <= x}) = x - (m + 1) + 1
    BY <2>2, <2>3
  <2>5. x = m + k
    BY <1>1, <2>1, <2>4
  <2> QED
    BY <2>1, <2>5
<1> QED
  BY <1>3, <1>4, <1>5

-----------------------------------------------------------------------------
(* The inductive invariant *)

EntradasTlb == [pid : Procesos, pagina : Paginas, marco : Marcos, instante : Nat]

TiposCpu ==
  /\ algoritmo_reemplazo_tlb \in {"FIFO", "LRU"}
  /\ entradas_max_tlb \in Nat
  /\ tlb \in Seq(EntradasTlb) /\ Len(tlb) <= entradas_max_tlb
  /\ instante \in Nat
  /\ ultima_entrada_fifo \in 0 .. (IF entradas_max_tlb = 0 THEN 0 ELSE entradas_max_tlb - 1)
  /\ orden \in Seq(Nombres) /\ limpiada \in BOOLEAN

TiposResto ==
  /\ falta \in [Procesos -> SUBSET Paginas]
  /\ caida \in {"nadie", "cpu", "memoria"}
  /\ acceso \subseteq [pid : Procesos, pagina : Paginas, marco : Marcos]
  /\ DOMAIN residente = Procesos /\ terminados \subseteq Procesos

\* Nothing is loaded or waited for but the process's pages, in its share of frames.
PaginasSuyas ==
  \A p \in Procesos :
    /\ falta[p] \subseteq PaginasDe(p) /\ Pag!Cargadas(p) \subseteq PaginasDe(p)
    /\ Cardinality(Pag!Cargadas(p)) <= MARCOS_POR_PROCESO
    /\ \A j \in Pag!Cargadas(p) : residente[p][j] \in Marcos

\* The a-th page of the history is that of entry i.
Es(a, i) == orden[a] = Nombre(tlb[i].pid, tlb[i].pagina)

\* No page is twice in the TLB, and the history is of its pages.
Historia ==
  /\ \A i, k \in DOMAIN tlb : tlb[i].pid = tlb[k].pid /\ tlb[i].pagina = tlb[k].pagina => i = k
  /\ \A a, b \in DOMAIN orden : orden[a] = orden[b] => a = b
  /\ \A a \in DOMAIN orden : \E i \in DOMAIN tlb : Es(a, i)
  /\ \A i \in DOMAIN tlb : \E a \in DOMAIN orden : Es(a, i)

\* LRU: two pages have the same instant only if they follow each other, and only the
\* last may have the one that the next miss will get.
Edades ==
  algoritmo_reemplazo_tlb = "LRU" =>
    \A i \in DOMAIN tlb, a \in DOMAIN orden : Es(a, i) =>
      /\ tlb[i].instante <= instante /\ (a < Len(orden) => tlb[i].instante < instante)
      /\ \A k \in DOMAIN tlb, b \in DOMAIN orden : Es(b, k) /\ a < b =>
           tlb[i].instante <= tlb[k].instante /\ (a + 1 < b => tlb[i].instante < tlb[k].instante)

\* FIFO: the pointer is on the first that came, and the others follow it around.
Vuelta(a) ==
  IF ultima_entrada_fifo + a <= Len(tlb) THEN ultima_entrada_fifo + a
                                         ELSE ultima_entrada_fifo + a - Len(tlb)

Rueda ==
  algoritmo_reemplazo_tlb = "FIFO" /\ ~ limpiada =>
    /\ Len(tlb) < entradas_max_tlb => ultima_entrada_fifo = 0
    /\ \A a \in DOMAIN orden : Es(a, Vuelta(a))

Mmu == TiposCpu /\ Historia /\ Edades /\ Rueda

Invariante ==
  Mmu /\ TiposResto /\ PaginasSuyas /\ TlbCoherente /\ MarcoPropio /\ ConsultaValida

-----------------------------------------------------------------------------
(* The TLB and its history *)

LEMMA Posiciones ==
  ASSUME TiposCpu
  PROVE  /\ DOMAIN tlb = 1 .. Len(tlb) /\ Len(tlb) \in Nat
         /\ DOMAIN orden = 1 .. Len(orden) /\ Len(orden) \in Nat
         /\ \A i \in DOMAIN tlb : /\ tlb[i] \in EntradasTlb
                                  /\ Nombre(tlb[i].pid, tlb[i].pagina) \in Nombres
         /\ \A a \in DOMAIN orden : orden[a] \in Nombres
<1>1. /\ DOMAIN tlb = 1 .. Len(tlb) /\ Len(tlb) \in Nat
      /\ DOMAIN orden = 1 .. Len(orden) /\ Len(orden) \in Nat
  BY LenProperties DEF TiposCpu
<1>2. \A i \in DOMAIN tlb : tlb[i] \in EntradasTlb
  BY <1>1, ElementOfSeq DEF TiposCpu
<1>3. \A a \in DOMAIN orden : orden[a] \in Nombres
  BY <1>1, ElementOfSeq DEF TiposCpu
<1>4. \A i \in DOMAIN tlb : Nombre(tlb[i].pid, tlb[i].pagina) \in Nombres
  BY <1>2 DEF EntradasTlb, Nombre, Nombres
<1> QED
  BY <1>1, <1>2, <1>3, <1>4

\* Each page of the history is of one entry.
LEMMA UnaEntrada ==
  ASSUME Historia, NEW a \in DOMAIN orden, NEW b \in DOMAIN orden,
         NEW i \in DOMAIN tlb, NEW k \in DOMAIN tlb, Es(a, i), Es(b, k)
  PROVE  i = k <=> a = b
<1>1. tlb[i].pid = orden[a].pid /\ tlb[i].pagina = orden[a].pagina
  BY DEF Es, Nombre
<1>2. tlb[k].pid = orden[b].pid /\ tlb[k].pagina = orden[b].pagina
  BY DEF Es, Nombre
<1>3. a = b => i = k
  BY <1>1, <1>2 DEF Historia
<1>4. i = k => a = b
  <2> HAVE i = k
  <2>1. orden[a] = orden[b]
    BY DEF Es
  <2> QED
    BY <2>1 DEF Historia
<1> QED
  BY <1>3, <1>4

LEMMA MismoLargo ==
  ASSUME TiposCpu, Historia
  PROVE  Len(orden) = Len(tlb)
<1> DEFINE A == DOMAIN orden
           B == DOMAIN tlb
           f == [a \in A |-> CHOOSE i \in B : Es(a, i)]
<1>1. \A a \in A : f[a] \in B /\ Es(a, f[a])
  BY DEF Historia
<1>2. f \in [A -> B]
  BY <1>1
<1>3. \A a, b \in A : f[a] = f[b] => a = b
  <2> HIDE DEF f
  <2> QED
    BY <1>1, UnaEntrada
<1>4. \A i \in B : \E a \in A : f[a] = i
  <2> SUFFICES ASSUME NEW i \in B PROVE \E a \in A : f[a] = i
    OBVIOUS
  <2>1. PICK a \in A : Es(a, i)
    BY DEF Historia
  <2> HIDE DEF f
  <2>2. f[a] = i
    BY <1>1, <2>1, UnaEntrada
  <2> QED
    BY <2>2
<1>5. IsFiniteSet(A)
  BY Posiciones, PosicionesFinitas DEF TiposCpu
<1> HIDE DEF f, A, B
<1>6. Cardinality(B) = Cardinality(A)
  BY <1>2, <1>3, <1>4, <1>5, MismoTamano
<1>7. A = 1 .. Len(orden) /\ B = 1 .. Len(tlb) /\ Len(orden) \in Nat /\ Len(tlb) \in Nat
  BY Posiciones DEF A, B
<1>8. \A n \in Nat : Cardinality(1 .. n) = n
  <2> TAKE n \in Nat
  <2>1. Cardinality(1 .. n) = n - 1 + 1
    BY TamanoIntervalo
  <2> QED
    BY <2>1
<1> QED
  BY <1>6, <1>7, <1>8

\* The history without its r-th page.
LEMMA SinUno ==
  ASSUME TiposCpu, Historia, NEW r \in DOMAIN orden
  PROVE  /\ SinNombre(orden[r]) \in Seq(Nombres)
         /\ Len(SinNombre(orden[r])) = Len(orden) - 1
         /\ r = 1 => \A a \in 1 .. Len(orden) - 1 : SinNombre(orden[r])[a] = orden[1 + a]
         /\ \E g : /\ Enumera(g, DOMAIN orden \ {r})
                   /\ \A a \in 1 .. Len(orden) - 1 : SinNombre(orden[r])[a] = orden[g[a]]
         /\ Cardinality(DOMAIN orden \ {r}) = Len(orden) - 1
<1> DEFINE I == {k \in DOMAIN orden : orden[k] # orden[r]}
<1>1. I = DOMAIN orden \ {r}
  BY DEF Historia
<1>2. SinNombre(orden[r]) = Quedan(orden, I)
  BY DEF SinNombre
<1>3. /\ orden \in Seq(Nombres) /\ DOMAIN orden = 1 .. Len(orden) /\ Len(orden) \in Nat
      /\ I \in SUBSET DOMAIN orden /\ IsFiniteSet(DOMAIN orden)
  BY Posiciones, PosicionesFinitas DEF TiposCpu
<1>4. Cardinality(I) = Len(orden) - 1
  <2>1. Cardinality(DOMAIN orden) = Len(orden)
    BY <1>3, TamanoIntervalo
  <2> QED
    BY <1>1, <1>3, <2>1, FS_RemoveElement
<1> HIDE DEF I
<1>5. r = 1 => \A a \in 1 .. Len(orden) - 1 : Quedan(orden, I)[a] = orden[1 + a]
  <2> SUFFICES ASSUME r = 1 PROVE \A a \in 1 .. Len(orden) - 1 : Quedan(orden, I)[a] = orden[1 + a]
    OBVIOUS
  <2>1. (\A i \in DOMAIN orden : i \in I <=> 1 < i) /\ 1 \in 0 .. Len(orden)
    BY <1>1, <1>3
  <2> QED
    BY <1>3, <2>1, QuedanUltimos
<1>6. PICK g : Enumera(g, I) /\ \A a \in 1 .. Cardinality(I) : Quedan(orden, I)[a] = orden[g[a]]
  BY <1>3, EnumeraQuedan
<1>7. Quedan(orden, I) \in Seq(Nombres) /\ Len(Quedan(orden, I)) = Cardinality(I)
  BY <1>3, QuedanTipo
<1>8. /\ Enumera(g, DOMAIN orden \ {r}) /\ Cardinality(DOMAIN orden \ {r}) = Len(orden) - 1
      /\ \A a \in 1 .. Len(orden) - 1 : SinNombre(orden[r])[a] = orden[g[a]]
  BY <1>1, <1>2, <1>4, <1>6
<1>9. /\ SinNombre(orden[r]) \in Seq(Nombres) /\ Len(SinNombre(orden[r])) = Len(orden) - 1
  BY <1>2, <1>4, <1>7
<1>10. r = 1 => \A a \in 1 .. Len(orden) - 1 : SinNombre(orden[r])[a] = orden[1 + a]
  BY <1>2, <1>5
<1> QED
  BY <1>8, <1>9, <1>10

\* A history whose page r leaves its place and whose last is n.
SeMueve(q, g, r) ==
  /\ r \in DOMAIN orden /\ q \in Seq(Nombres) /\ Len(q) = Len(orden) - 1
  /\ g \in [1 .. Len(orden) - 1 -> DOMAIN orden \ {r}]
  /\ \A b \in DOMAIN orden \ {r} : \E a \in 1 .. Len(orden) - 1 : g[a] = b
  /\ \A a, b \in 1 .. Len(orden) - 1 : a < b => g[a] < g[b]
  /\ \A a \in 1 .. Len(orden) - 1 : q[a] = orden[g[a]]
  /\ r = 1 => \A a \in 1 .. Len(orden) - 1 : q[a] = orden[1 + a]

LEMMA SinNombreMueve ==
  ASSUME TiposCpu, Historia, NEW r \in DOMAIN orden
  PROVE  \E g : SeMueve(SinNombre(orden[r]), g, r)
<1>1. PICK g : /\ Enumera(g, DOMAIN orden \ {r})
               /\ \A a \in 1 .. Len(orden) - 1 : SinNombre(orden[r])[a] = orden[g[a]]
  BY SinUno
<1>2. Cardinality(DOMAIN orden \ {r}) = Len(orden) - 1
  BY SinUno
<1>3. /\ g \in [1 .. Len(orden) - 1 -> DOMAIN orden \ {r}]
      /\ \A b \in DOMAIN orden \ {r} : \E a \in 1 .. Len(orden) - 1 : g[a] = b
      /\ \A a, b \in 1 .. Len(orden) - 1 : a < b => g[a] < g[b]
  BY <1>1, <1>2 DEF Enumera
<1>4. SeMueve(SinNombre(orden[r]), g, r)
  BY <1>1, <1>3, SinUno DEF SeMueve
<1> QED
  BY <1>4

\* An entry that changes, with a page that was in no other: a hit or a victim.
Cambia(i, e, q, g, r) ==
  /\ i \in DOMAIN tlb /\ e \in EntradasTlb /\ Buscar(e.pid, e.pagina) \subseteq {i}
  /\ SeMueve(q, g, r) /\ Es(r, i)
  /\ tlb' = [tlb EXCEPT ![i] = e] /\ orden' = Append(q, Nombre(e.pid, e.pagina))

LEMMA MueveHistoria ==
  ASSUME TiposCpu, Historia, NEW i, NEW e, NEW q, NEW g, NEW r, Cambia(i, e, q, g, r)
  PROVE  /\ tlb' \in Seq(EntradasTlb) /\ Len(tlb') = Len(tlb) /\ DOMAIN tlb' = DOMAIN tlb
         /\ orden' \in Seq(Nombres) /\ Len(orden') = Len(orden) /\ DOMAIN orden' = DOMAIN orden
         /\ Len(orden) > 0 /\ orden'[Len(orden)] = Nombre(tlb'[i].pid, tlb'[i].pagina)
         /\ \A a \in 1 .. Len(orden) - 1 : orden'[a] = orden[g[a]] /\ orden'[a] = q[a]
         /\ \A k \in DOMAIN tlb, a \in DOMAIN orden : Es(a, k)' /\ a < Len(orden) =>
              k # i /\ tlb'[k] = tlb[k] /\ Es(g[a], k)
         /\ Historia'
<1> USE DEF Cambia
<1>1. /\ DOMAIN tlb = 1 .. Len(tlb) /\ DOMAIN orden = 1 .. Len(orden)
      /\ Len(tlb) \in Nat /\ Len(orden) \in Nat /\ r \in 1 .. Len(orden)
  BY Posiciones DEF SeMueve
<1>2. tlb' \in Seq(EntradasTlb) /\ Len(tlb') = Len(tlb) /\ DOMAIN tlb' = DOMAIN tlb
  BY <1>1, ExceptSeq DEF TiposCpu
<1>3. tlb'[i] = e /\ \A k \in DOMAIN tlb \ {i} : tlb'[k] = tlb[k]
  BY <1>1, ExceptSeq DEF TiposCpu
<1>4. Nombre(e.pid, e.pagina) \in Nombres
  BY DEF EntradasTlb, Nombre, Nombres
<1>5. /\ orden' \in Seq(Nombres) /\ Len(orden') = Len(orden)
      /\ \A a \in 1 .. Len(orden) - 1 : orden'[a] = q[a]
      /\ orden'[Len(orden)] = Nombre(e.pid, e.pagina)
  BY <1>1, <1>4, AppendProperties, SMTT(40) DEF SeMueve
<1>6. DOMAIN orden' = DOMAIN orden
  BY <1>1, <1>5, LenProperties, Zenon
<1>7. \A a \in 1 .. Len(orden) - 1 : /\ orden'[a] = orden[g[a]]
                                     /\ g[a] \in DOMAIN orden \ {r}
  BY <1>5 DEF SeMueve
<1>8. \A k \in DOMAIN tlb \ {i} : Nombre(tlb[k].pid, tlb[k].pagina) # Nombre(e.pid, e.pagina)
  BY DEF Buscar, Nombre
<1>9. \A k, l \in DOMAIN tlb : tlb'[k].pid = tlb'[l].pid /\ tlb'[k].pagina = tlb'[l].pagina => k = l
  <2> SUFFICES ASSUME NEW k \in DOMAIN tlb, NEW l \in DOMAIN tlb, k # l,
                      tlb'[k].pid = tlb'[l].pid, tlb'[k].pagina = tlb'[l].pagina
               PROVE  FALSE
    OBVIOUS
  <2>1. CASE k = i
    BY <1>3, <1>8, <2>1 DEF Nombre
  <2>2. CASE l = i
    BY <1>3, <1>8, <2>2 DEF Nombre
  <2>3. CASE k # i /\ l # i
    BY <1>3, <2>3 DEF Historia
  <2> QED
    BY <2>1, <2>2, <2>3
<1>10. \A a \in 1 .. Len(orden) - 1 :
         \E k \in DOMAIN tlb \ {i} : tlb'[k] = tlb[k] /\ Es(g[a], k)
  <2> TAKE a \in 1 .. Len(orden) - 1
  <2>1. PICK k \in DOMAIN tlb : Es(g[a], k)
    BY <1>7 DEF Historia
  <2>2. k # i
    BY <1>7, <2>1, UnaEntrada DEF SeMueve
  <2> QED
    BY <1>3, <2>1, <2>2
<1>11. \A a \in 1 .. Len(orden) - 1 : orden'[a] # Nombre(e.pid, e.pagina)
  BY <1>7, <1>8, <1>10 DEF Es
<1>12. \A a, b \in 1 .. Len(orden) - 1 : a < b => orden'[a] # orden'[b]
  <2> SUFFICES ASSUME NEW a \in 1 .. Len(orden) - 1, NEW b \in 1 .. Len(orden) - 1, a < b
               PROVE  orden'[a] # orden'[b]
    OBVIOUS
  <2>1. g[a] < g[b] /\ g[a] \in DOMAIN orden /\ g[b] \in DOMAIN orden
    BY <1>7 DEF SeMueve
  <2>2. g[a] # g[b]
    BY <1>1, <2>1
  <2>3. orden[g[a]] # orden[g[b]]
    BY <2>1, <2>2 DEF Historia
  <2> QED
    BY <1>7, <2>3
<1>13. \A a, b \in DOMAIN orden : orden'[a] = orden'[b] => a = b
  <2> SUFFICES ASSUME NEW a \in DOMAIN orden, NEW b \in DOMAIN orden, orden'[a] = orden'[b]
               PROVE  a = b
    OBVIOUS
  <2>1. /\ a = Len(orden) \/ a \in 1 .. Len(orden) - 1
        /\ b = Len(orden) \/ b \in 1 .. Len(orden) - 1
        /\ a < b \/ b < a \/ a = b
    BY <1>1
  <2>2. a = Len(orden) <=> b = Len(orden)
    BY <1>5, <1>11, <2>1
  <2> QED
    BY <1>12, <2>1, <2>2
<1>14. orden'[Len(orden)] = Nombre(tlb'[i].pid, tlb'[i].pagina)
  BY <1>3, <1>5
<1>15. \A a \in DOMAIN orden : \E k \in DOMAIN tlb : Es(a, k)'
  <2> TAKE a \in DOMAIN orden
  <2>1. CASE a = Len(orden)
    BY <1>14, <2>1 DEF Es
  <2>2. CASE a \in 1 .. Len(orden) - 1
    BY <1>7, <1>10, <2>2 DEF Es
  <2> QED
    BY <1>1, <2>1, <2>2
<1>16. \A k \in DOMAIN tlb : \E a \in DOMAIN orden : Es(a, k)'
  <2> TAKE k \in DOMAIN tlb
  <2>1. CASE k = i
    <3>1. orden'[Len(orden)] = Nombre(tlb'[k].pid, tlb'[k].pagina)
      BY <1>14, <2>1
    <3>2. PICK a \in DOMAIN orden : a = Len(orden)
      BY <1>1
    <3> QED
      BY <3>1, <3>2 DEF Es
  <2>2. CASE k # i
    <3>1. PICK b \in DOMAIN orden : Es(b, k)
      BY DEF Historia
    <3>2. b # r
      BY <2>2, <3>1, UnaEntrada DEF SeMueve
    <3>3. PICK a \in 1 .. Len(orden) - 1 : g[a] = b
      BY <3>2 DEF SeMueve
    <3>4. a \in DOMAIN orden
      BY <1>1
    <3>5. orden'[a] = Nombre(tlb'[k].pid, tlb'[k].pagina)
      BY <1>3, <1>7, <2>2, <3>1, <3>3 DEF Es
    <3> QED
      BY <3>4, <3>5 DEF Es
  <2> QED
    BY <2>1, <2>2
<1>17. Historia'
  BY <1>2, <1>6, <1>9, <1>13, <1>15, <1>16 DEF Historia
<1>18. \A k \in DOMAIN tlb, a \in DOMAIN orden : Es(a, k)' /\ a < Len(orden) =>
         k # i /\ tlb'[k] = tlb[k] /\ Es(g[a], k)
  <2> SUFFICES ASSUME NEW k \in DOMAIN tlb, NEW a \in DOMAIN orden, Es(a, k)', a < Len(orden)
               PROVE  k # i /\ tlb'[k] = tlb[k] /\ Es(g[a], k)
    OBVIOUS
  <2>1. a \in 1 .. Len(orden) - 1
    BY <1>1
  <2>2. k # i
    BY <1>3, <1>11, <2>1 DEF Es
  <2> QED
    BY <1>3, <1>7, <2>1, <2>2 DEF Es
<1>19. Len(orden) > 0
  BY <1>1
<1> QED
  BY <1>2, <1>5, <1>6, <1>7, <1>14, <1>17, <1>18, <1>19

\* LRU: the one that is referred or comes is the youngest.
LEMMA MueveEdades ==
  ASSUME TiposCpu, Historia, Edades, algoritmo_reemplazo_tlb = "LRU",
         NEW i, NEW e, NEW q, NEW g, NEW r, Cambia(i, e, q, g, r),
         instante' = instante + 1, e.instante \in {instante, instante + 1}
  PROVE  Edades'
<1>1. /\ DOMAIN tlb' = DOMAIN tlb /\ DOMAIN orden' = DOMAIN orden /\ Len(orden') = Len(orden)
      /\ orden'[Len(orden)] = Nombre(tlb'[i].pid, tlb'[i].pagina)
      /\ Len(orden) > 0 /\ Historia'
  BY MueveHistoria
<1>2. \A k \in DOMAIN tlb, a \in DOMAIN orden : Es(a, k)' /\ a < Len(orden) =>
        k # i /\ tlb'[k] = tlb[k] /\ Es(g[a], k)
  BY MueveHistoria
<1>3. /\ DOMAIN orden = 1 .. Len(orden) /\ Len(orden) \in Nat
      /\ \A k \in DOMAIN tlb : tlb[k].instante \in Nat /\ instante \in Nat
  BY Posiciones DEF TiposCpu, EntradasTlb
<1>4. /\ \A a \in 1 .. Len(orden) - 1 : g[a] \in 1 .. Len(orden)
      /\ \A a, b \in 1 .. Len(orden) - 1 : a < b => g[a] < g[b]
  BY <1>3 DEF SeMueve, Cambia
<1>5. tlb'[i] = e /\ i \in DOMAIN tlb /\ e \in EntradasTlb
  BY DEF TiposCpu, Cambia
<1>6. \A k \in DOMAIN tlb, a \in DOMAIN orden : Es(a, k)' => (a = Len(orden) <=> k = i)
  <2> SUFFICES ASSUME NEW k \in DOMAIN tlb, NEW a \in DOMAIN orden, Es(a, k)'
               PROVE  a = Len(orden) <=> k = i
    OBVIOUS
  <2>1. a < Len(orden) => k # i
    BY <1>2
  <2>2. CASE a = Len(orden)
    <3>1. /\ tlb'[k].pid = orden'[a].pid /\ tlb'[k].pagina = orden'[a].pagina
          /\ tlb'[i].pid = orden'[a].pid /\ tlb'[i].pagina = orden'[a].pagina
      BY <1>1, <2>2 DEF Es, Nombre
    <3> QED
      BY <1>1, <1>5, <2>2, <3>1, ZenonT(40) DEF Historia
  <2> QED
    BY <1>3, <2>1, <2>2
<1>7. \A a, b \in DOMAIN orden : a < b => a \in 1 .. Len(orden) - 1
  BY <1>3
<1>8. \A k \in DOMAIN tlb, a \in DOMAIN orden : Es(a, k)' =>
        /\ tlb'[k].instante <= instante + 1
        /\ a < Len(orden) => tlb'[k].instante < instante + 1 /\ tlb'[k].instante <= instante
        /\ a + 1 < Len(orden) => tlb'[k].instante < instante
  <2> SUFFICES ASSUME NEW k \in DOMAIN tlb, NEW a \in DOMAIN orden, Es(a, k)'
               PROVE  /\ tlb'[k].instante <= instante + 1
                      /\ a < Len(orden) => /\ tlb'[k].instante < instante + 1
                                           /\ tlb'[k].instante <= instante
                      /\ a + 1 < Len(orden) => tlb'[k].instante < instante
    OBVIOUS
  <2>1. CASE a = Len(orden)
    BY <1>3, <1>5, <1>6, <2>1
  <2>2. CASE a < Len(orden)
    <3>1. tlb'[k] = tlb[k] /\ Es(g[a], k) /\ g[a] \in DOMAIN orden
      BY <1>2, <1>3, <1>4, <2>2
    <3>2. /\ tlb[k].instante <= instante
          /\ g[a] < Len(orden) => tlb[k].instante < instante
      BY <3>1 DEF Edades
    <3>3. a + 1 < Len(orden) => g[a] < Len(orden)
      <4> HAVE a + 1 < Len(orden)
      <4>1. a + 1 \in 1 .. Len(orden) - 1 /\ a \in 1 .. Len(orden) - 1
        BY <1>3
      <4>2. g[a] < g[a + 1] /\ g[a + 1] \in 1 .. Len(orden) /\ g[a] \in 1 .. Len(orden)
        BY <1>3, <1>4, <4>1
      <4> QED
        BY <1>3, <4>2
    <3> QED
      BY <1>3, <2>2, <3>1, <3>2, <3>3
  <2> QED
    BY <1>3, <2>1, <2>2
<1>9. ASSUME NEW k \in DOMAIN tlb, NEW a \in DOMAIN orden, NEW l \in DOMAIN tlb, NEW b \in DOMAIN orden,
             Es(a, k)', Es(b, l)', a < b
      PROVE  /\ tlb'[k].instante <= tlb'[l].instante
             /\ a + 1 < b => tlb'[k].instante < tlb'[l].instante
  <2>1. CASE b = Len(orden)
    <3>1. tlb'[l] = e
      BY <1>5, <1>6, <1>9, <2>1
    <3>2. e.instante \in Nat /\ instante <= e.instante
      BY <1>3, <1>5
    <3>3. /\ tlb'[k].instante <= instante
          /\ a + 1 < Len(orden) => tlb'[k].instante < instante
      BY <1>8, <1>9, <2>1
    <3>4. tlb'[k].instante \in Nat
      BY <1>2, <1>3, <1>9, <2>1
    <3> QED
      BY <1>3, <2>1, <3>1, <3>2, <3>3, <3>4
  <2>2. CASE b < Len(orden)
    <3>1. /\ tlb'[k] = tlb[k] /\ Es(g[a], k) /\ tlb'[l] = tlb[l] /\ Es(g[b], l)
          /\ g[a] \in DOMAIN orden /\ g[b] \in DOMAIN orden
      BY <1>2, <1>3, <1>4, <1>9, <2>2
    <3>2. g[a] < g[b]
      BY <1>3, <1>4, <1>9, <2>2
    <3>3. a + 1 < b => g[a] + 1 < g[b]
      <4> HAVE a + 1 < b
      <4>1. a + 1 \in 1 .. Len(orden) - 1 /\ a \in 1 .. Len(orden) - 1 /\ b \in 1 .. Len(orden) - 1
        BY <1>3, <2>2
      <4>2. PICK c \in 1 .. Len(orden) - 1 : c = a + 1 /\ a < c /\ c < b
        BY <4>1
      <4>3. g[a] < g[c] /\ g[c] < g[b]
        BY <1>4, <4>1, <4>2
      <4>4. g[c] \in Nat /\ g[a] \in Nat /\ g[b] \in Nat
        BY <1>3, <1>4, <4>1, SMTT(40)
      <4> QED
        BY <4>3, <4>4
    <3>4. /\ tlb[k].instante <= tlb[l].instante
          /\ g[a] + 1 < g[b] => tlb[k].instante < tlb[l].instante
      BY <3>1, <3>2 DEF Edades
    <3> QED
      BY <3>1, <3>3, <3>4
  <2> QED
    BY <1>3, <2>1, <2>2
<1> QED
  BY <1>1, <1>8, <1>9 DEF Edades

\* FIFO: the entry under the pointer goes to the end, and the pointer to the next.
LEMMA MueveRueda ==
  ASSUME TiposCpu, Historia, Rueda, algoritmo_reemplazo_tlb = "FIFO", ~ limpiada,
         NEW i, NEW e, NEW q, NEW g, NEW r, Cambia(i, e, q, g, r),
         i = ultima_entrada_fifo + 1, Len(tlb) = entradas_max_tlb,
         entradas_max_tlb' = entradas_max_tlb, ultima_entrada_fifo' = SiguienteFifo
  PROVE  Rueda'
<1>1. /\ Len(tlb') = Len(tlb) /\ DOMAIN tlb' = DOMAIN tlb /\ DOMAIN orden' = DOMAIN orden
      /\ orden'[Len(orden)] = Nombre(tlb'[i].pid, tlb'[i].pagina)
      /\ \A a \in 1 .. Len(orden) - 1 : orden'[a] = orden[g[a]] /\ orden'[a] = q[a]
  BY MueveHistoria
<1>2. /\ DOMAIN orden = 1 .. Len(orden) /\ Len(orden) \in Nat /\ Len(orden) = Len(tlb)
      /\ DOMAIN tlb = 1 .. Len(tlb) /\ i \in 1 .. Len(tlb) /\ ultima_entrada_fifo \in Nat
  BY Posiciones, MismoLargo DEF TiposCpu, Cambia
<1>3. \A a \in DOMAIN orden : Es(a, Vuelta(a)) /\ Vuelta(a) \in DOMAIN tlb
  BY <1>2 DEF Rueda, Vuelta
<1>4. r = 1
  <2>1. 1 \in DOMAIN orden /\ Vuelta(1) = i
    BY <1>2 DEF Vuelta
  <2>2. Es(1, i) /\ r \in DOMAIN orden
    BY <1>3, <2>1 DEF SeMueve, Cambia
  <2> QED
    BY <2>1, <2>2, <1>2, UnaEntrada DEF Cambia
<1>5. \A a \in 1 .. Len(orden) - 1 : orden'[a] = orden[a + 1]
  BY <1>1, <1>4 DEF SeMueve, Cambia
<1>6. \A k \in DOMAIN tlb \ {i} : tlb'[k] = tlb[k]
  BY DEF TiposCpu, Cambia
<1>7. ultima_entrada_fifo' = IF ultima_entrada_fifo = Len(tlb) - 1 THEN 0
                             ELSE ultima_entrada_fifo + 1
  BY DEF SiguienteFifo
<1>8. \A a \in DOMAIN orden : Es(a, Vuelta(a))'
  <2> TAKE a \in DOMAIN orden
  <2>1. CASE a = Len(orden)
    <3>1. Vuelta(a)' = i
      BY <1>1, <1>2, <1>7, <2>1 DEF Vuelta
    <3> QED
      BY <1>1, <2>1, <3>1 DEF Es
  <2>2. CASE a < Len(orden)
    <3>1. a \in 1 .. Len(orden) - 1 /\ a + 1 \in DOMAIN orden
      BY <1>2, <2>2
    <3>2. Vuelta(a)' = Vuelta(a + 1)
      <4>1. CASE ultima_entrada_fifo = Len(tlb) - 1
        <5>1. ultima_entrada_fifo' = 0
          BY <1>7, <4>1
        <5>2. Vuelta(a)' = a
          BY <1>1, <1>2, <2>2, <5>1 DEF Vuelta
        <5>3. Vuelta(a + 1) = a
          BY <1>2, <2>2, <3>1, <4>1, SMTT(40) DEF Vuelta
        <5> QED
          BY <5>2, <5>3
      <4>2. CASE ultima_entrada_fifo # Len(tlb) - 1
        <5>1. ultima_entrada_fifo' = ultima_entrada_fifo + 1
          BY <1>7, <4>2
        <5>2. ultima_entrada_fifo' + a = ultima_entrada_fifo + (a + 1)
          BY <1>2, <5>1
        <5> QED
          BY <1>1, <1>2, <2>2, <5>1 DEF Vuelta
      <4> QED
        BY <4>1, <4>2
    <3>3. Vuelta(a + 1) # i
      BY <1>3, <1>4, <1>2, <3>1, UnaEntrada DEF Cambia
    <3>4. tlb'[Vuelta(a + 1)] = tlb[Vuelta(a + 1)]
      BY <1>3, <1>6, <3>1, <3>3
    <3>5. orden'[a] = Nombre(tlb[Vuelta(a + 1)].pid, tlb[Vuelta(a + 1)].pagina)
      BY <1>3, <1>5, <3>1 DEF Es
    <3> QED
      BY <3>2, <3>4, <3>5 DEF Es
  <2> QED
    BY <1>2, <2>1, <2>2
<1> QED
  BY <1>1, <1>8 DEF Rueda, Es

\* An entry more.
Crece(e) ==
  /\ Len(tlb) < entradas_max_tlb
  /\ e \in EntradasTlb /\ Buscar(e.pid, e.pagina) = {} /\ e.instante = instante
  /\ tlb' = Append(tlb, e) /\ orden' = Append(orden, Nombre(e.pid, e.pagina))
  /\ instante' = instante + 1
  /\ UNCHANGED <<algoritmo_reemplazo_tlb, entradas_max_tlb, ultima_entrada_fifo, limpiada>>

LEMMA Agrega ==
  ASSUME Mmu, NEW e, Crece(e)
  PROVE  Mmu'
<1>0. /\ Len(tlb) < entradas_max_tlb /\ e \in EntradasTlb /\ e.instante = instante
      /\ instante' = instante + 1
      /\ UNCHANGED <<algoritmo_reemplazo_tlb, entradas_max_tlb, ultima_entrada_fifo, limpiada>>
  BY DEF Crece
<1>1. /\ TiposCpu /\ Historia /\ Edades /\ Rueda
      /\ DOMAIN orden = 1 .. Len(orden) /\ Len(orden) \in Nat /\ Len(orden) = Len(tlb)
      /\ DOMAIN tlb = 1 .. Len(tlb) /\ instante \in Nat
  BY Posiciones, MismoLargo DEF Mmu, TiposCpu
<1> DEFINE n == Nombre(e.pid, e.pagina)
<1>2. n \in Nombres
  BY <1>0 DEF EntradasTlb, Nombre, Nombres
<1>3. PICK L \in Nat : L = Len(tlb) + 1
  BY <1>1
<1>4. /\ tlb' \in Seq(EntradasTlb) /\ Len(tlb') = L /\ DOMAIN tlb' = 1 .. L
      /\ \A k \in DOMAIN tlb : tlb'[k] = tlb[k]
      /\ tlb'[L] = e
  BY <1>0, <1>1, <1>3, AppendProperties, LenProperties DEF TiposCpu, Crece
<1>5. /\ orden' \in Seq(Nombres) /\ Len(orden') = L /\ DOMAIN orden' = 1 .. L
      /\ \A a \in DOMAIN orden : orden'[a] = orden[a]
      /\ orden'[L] = n
  BY <1>1, <1>2, <1>3, AppendProperties, LenProperties DEF TiposCpu, Crece
<1>6. TiposCpu'
  BY <1>0, <1>1, <1>3, <1>4, <1>5 DEF TiposCpu
<1>7. \A k \in DOMAIN tlb' : k = L \/ (k \in DOMAIN tlb /\ k \in DOMAIN orden /\ k < L)
  BY <1>1, <1>3, <1>4
<1>8. \A k \in DOMAIN tlb : Nombre(tlb[k].pid, tlb[k].pagina) # n /\ (tlb[k].pid # e.pid \/ tlb[k].pagina # e.pagina)
  BY DEF Buscar, Nombre, Crece
<1>9. \A a \in DOMAIN orden : orden[a] # n
  BY <1>1, <1>8 DEF Historia, Es
<1> HIDE DEF n
<1>10. \A k, a \in 1 .. L : Es(a, k)' =>
         \/ k = L /\ a = L
         \/ k \in DOMAIN tlb /\ a \in DOMAIN orden /\ Es(a, k)
  <2> SUFFICES ASSUME NEW k \in 1 .. L, NEW a \in 1 .. L, Es(a, k)'
               PROVE  \/ k = L /\ a = L
                      \/ k \in DOMAIN tlb /\ a \in DOMAIN orden /\ Es(a, k)
    OBVIOUS
  <2>1. orden'[a] = Nombre(tlb'[k].pid, tlb'[k].pagina)
    BY DEF Es
  <2>2. CASE k = L /\ a # L
    BY <1>4, <1>5, <1>7, <1>9, <2>1, <2>2 DEF n
  <2>3. CASE k # L /\ a = L
    BY <1>4, <1>5, <1>7, <1>8, <2>1, <2>3
  <2>4. CASE k # L /\ a # L
    BY <1>4, <1>5, <1>7, <2>1, <2>4 DEF Es
  <2> QED
    BY <2>2, <2>3, <2>4
<1>11. Historia'
  <2>1. ASSUME NEW i \in 1 .. L, NEW k \in 1 .. L,
               tlb'[i].pid = tlb'[k].pid, tlb'[i].pagina = tlb'[k].pagina
        PROVE  i = k
    <3>1. CASE i # L /\ k # L
      <4>1. i \in DOMAIN tlb /\ k \in DOMAIN tlb /\ tlb'[i] = tlb[i] /\ tlb'[k] = tlb[k]
        BY <1>4, <1>7, <3>1
      <4> QED
        BY <1>1, <2>1, <4>1 DEF Historia
    <3>2. CASE i = L /\ k # L
      BY <1>4, <1>7, <1>8, <2>1, <3>2
    <3>3. CASE i # L /\ k = L
      BY <1>4, <1>7, <1>8, <2>1, <3>3
    <3> QED
      BY <3>1, <3>2, <3>3
  <2>2. ASSUME NEW a \in 1 .. L, NEW b \in 1 .. L, orden'[a] = orden'[b]
        PROVE  a = b
    <3>1. CASE a # L /\ b # L
      BY <1>1, <1>4, <1>5, <1>7, <2>2, <3>1 DEF Historia
    <3>2. CASE a = L /\ b # L
      BY <1>4, <1>5, <1>7, <1>9, <2>2, <3>2
    <3>3. CASE a # L /\ b = L
      BY <1>4, <1>5, <1>7, <1>9, <2>2, <3>3
    <3> QED
      BY <3>1, <3>2, <3>3
  <2>3. orden'[L] = Nombre(tlb'[L].pid, tlb'[L].pagina) /\ L \in 1 .. L
    BY <1>3, <1>4, <1>5 DEF n
  <2>4. \A a \in DOMAIN orden : \E i \in DOMAIN tlb :
          i \in 1 .. L /\ orden'[a] = Nombre(tlb'[i].pid, tlb'[i].pagina)
    <3> TAKE a \in DOMAIN orden
    <3>1. PICK i \in DOMAIN tlb : orden[a] = Nombre(tlb[i].pid, tlb[i].pagina)
      BY <1>1 DEF Historia, Es
    <3>2. i \in 1 .. L /\ orden'[a] = orden[a] /\ tlb'[i] = tlb[i]
      BY <1>1, <1>3, <1>4, <1>5
    <3> QED
      BY <3>1, <3>2
  <2>5. \A i \in DOMAIN tlb : \E a \in DOMAIN orden :
          a \in 1 .. L /\ orden'[a] = Nombre(tlb'[i].pid, tlb'[i].pagina)
    <3> TAKE i \in DOMAIN tlb
    <3>1. PICK a \in DOMAIN orden : orden[a] = Nombre(tlb[i].pid, tlb[i].pagina)
      BY <1>1 DEF Historia, Es
    <3>2. a \in 1 .. L /\ orden'[a] = orden[a] /\ tlb'[i] = tlb[i]
      BY <1>1, <1>3, <1>4, <1>5
    <3> QED
      BY <3>1, <3>2
  <2>6. \A a \in 1 .. L : \E i \in 1 .. L : orden'[a] = Nombre(tlb'[i].pid, tlb'[i].pagina)
    BY <1>4, <1>7, <2>3, <2>4
  <2>7. \A i \in 1 .. L : \E a \in 1 .. L : orden'[a] = Nombre(tlb'[i].pid, tlb'[i].pagina)
    BY <1>4, <1>7, <2>3, <2>5
  <2>8. \A i, k \in DOMAIN tlb' : tlb'[i].pid = tlb'[k].pid /\ tlb'[i].pagina = tlb'[k].pagina => i = k
    BY <1>4, <2>1
  <2>9. \A a, b \in DOMAIN orden' : orden'[a] = orden'[b] => a = b
    BY <1>5, <2>2
  <2>10. \A a \in DOMAIN orden' : \E i \in DOMAIN tlb' : Es(a, i)'
    BY <1>4, <1>5, <2>6, ZenonT(40) DEF Es
  <2>11. \A i \in DOMAIN tlb' : \E a \in DOMAIN orden' : Es(a, i)'
    BY <1>4, <1>5, <2>7 DEF Es
  <2> QED
    BY <2>8, <2>9, <2>10, <2>11 DEF Historia
<1>12. ASSUME algoritmo_reemplazo_tlb = "LRU" PROVE Edades'
  <2>1. \A k \in DOMAIN tlb : tlb[k].instante \in Nat
    BY <1>0, <1>1, Posiciones DEF EntradasTlb
  <2>2. \A k \in DOMAIN tlb, a \in DOMAIN orden : Es(a, k) =>
          tlb[k].instante <= instante /\ (a + 1 < L => tlb[k].instante < instante)
    BY <1>0, <1>1, <1>3, <1>12 DEF Edades
  <2>3. ASSUME NEW i \in 1 .. L, NEW a \in 1 .. L, Es(a, i)'
        PROVE  /\ tlb'[i].instante <= instante' /\ (a < L => tlb'[i].instante < instante')
               /\ \A k, b \in 1 .. L : Es(b, k)' /\ a < b =>
                    /\ tlb'[i].instante <= tlb'[k].instante
                    /\ a + 1 < b => tlb'[i].instante < tlb'[k].instante
    <3>1. CASE a = L
      <4>1. i = L
        BY <1>1, <1>3, <1>10, <2>3, <3>1
      <4>2. tlb'[i].instante = instante
        BY <1>0, <1>4, <4>1
      <4>3. \A b \in 1 .. L : ~ (a < b)
        BY <3>1
      <4> QED
        BY <1>0, <1>1, <3>1, <4>2, <4>3
    <3>2. CASE a # L
      <4>1. i \in DOMAIN tlb /\ a \in DOMAIN orden /\ Es(a, i) /\ tlb'[i] = tlb[i]
        BY <1>0, <1>4, <1>10, <2>3, <3>2
      <4>2. ASSUME NEW k \in 1 .. L, NEW b \in 1 .. L, Es(b, k)', a < b
            PROVE  /\ tlb'[i].instante <= tlb'[k].instante
                   /\ a + 1 < b => tlb'[i].instante < tlb'[k].instante
        <5>1. CASE b = L
          <6>1. tlb'[k].instante = instante
            BY <1>0, <1>4, <1>10, <4>2, <5>1, <1>7, <1>1, <1>3
          <6> QED
            BY <2>2, <4>1, <5>1, <6>1
        <5>2. CASE b # L
          <6>1. k \in DOMAIN tlb /\ b \in DOMAIN orden /\ Es(b, k) /\ tlb'[k] = tlb[k]
            BY <1>0, <1>4, <1>10, <4>2, <5>2
          <6> QED
            BY <1>0, <1>1, <1>12, <4>1, <4>2, <6>1 DEF Edades
        <5> QED
          BY <5>1, <5>2
      <4>3. tlb'[i].instante <= instante' /\ tlb'[i].instante < instante'
        BY <1>0, <1>1, <2>1, <2>2, <4>1
      <4> QED
        BY <4>2, <4>3
    <3> QED
      BY <3>1, <3>2
  <2> QED
    BY <1>0, <1>4, <1>5, <2>3 DEF Edades
<1>13. ASSUME algoritmo_reemplazo_tlb = "FIFO", ~ limpiada PROVE Rueda'
  <2>1. /\ ultima_entrada_fifo = 0 /\ ultima_entrada_fifo' = 0
        /\ \A a \in DOMAIN orden : Es(a, Vuelta(a))
    BY <1>0, <1>1, <1>13 DEF Rueda
  <2>2. \A a \in DOMAIN orden : Vuelta(a) = a
    BY <1>0, <1>1, <2>1 DEF Vuelta
  <2>3. \A a \in 1 .. L : orden'[a] = Nombre(tlb'[a].pid, tlb'[a].pagina)
    BY <1>0, <1>1, <1>4, <1>5, <1>7, <2>1, <2>2 DEF Es, n
  <2>4. \A a \in 1 .. L : Vuelta(a)' = a
    BY <1>0, <1>4, <2>1 DEF Vuelta
  <2> QED
    BY <1>5, <2>1, <2>3, <2>4 DEF Rueda, Es
<1> QED
  BY <1>0, <1>1, <1>6, <1>11, <1>12, <1>13 DEF Mmu, Edades, Rueda

\* limpiar_tlb: what is left of the TLB and of its history is in the same order.
LEMMA Filtra ==
  ASSUME Mmu, NEW p,
         tlb' = SinEntradasDe(p, tlb), orden' = SinEntradasDe(p, orden),
         limpiada' = (limpiada \/ tlb' # tlb),
         UNCHANGED <<algoritmo_reemplazo_tlb, entradas_max_tlb, ultima_entrada_fifo, instante>>
  PROVE  Mmu' /\ {tlb'[k] : k \in DOMAIN tlb'} \subseteq {tlb[i] : i \in DOMAIN tlb}
<1> DEFINE I == {i \in DOMAIN tlb : tlb[i].pid # p}
           J == {a \in DOMAIN orden : orden[a].pid # p}
<1>1. /\ TiposCpu /\ Historia /\ Edades /\ Rueda
      /\ DOMAIN orden = 1 .. Len(orden) /\ Len(orden) \in Nat
      /\ DOMAIN tlb = 1 .. Len(tlb) /\ Len(tlb) \in Nat
      /\ tlb \in Seq(EntradasTlb) /\ orden \in Seq(Nombres)
  BY Posiciones DEF Mmu, TiposCpu
<1>2. tlb' = Quedan(tlb, I) /\ orden' = Quedan(orden, J)
  BY DEF SinEntradasDe
<1>3. I \in SUBSET DOMAIN tlb /\ J \in SUBSET DOMAIN orden
  OBVIOUS
<1>4. /\ \A i \in DOMAIN tlb : i \in I <=> tlb[i].pid # p
      /\ \A a \in DOMAIN orden : a \in J <=> orden[a].pid # p
  OBVIOUS
<1> HIDE DEF I, J
<1>5. PICK n \in Nat, m \in Nat : n = Cardinality(I) /\ m = Cardinality(J)
  BY <1>1, <1>3, PosicionesFinitas
<1>6. PICK g : /\ g \in [1 .. n -> I]
               /\ \A i \in I : \E k \in 1 .. n : g[k] = i
               /\ \A k, l \in 1 .. n : k < l => g[k] < g[l]
               /\ \A k \in 1 .. n : tlb'[k] = tlb[g[k]]
  <2>1. PICK g : Enumera(g, I) /\ \A k \in 1 .. Cardinality(I) : Quedan(tlb, I)[k] = tlb[g[k]]
    BY <1>1, <1>3, EnumeraQuedan
  <2> QED
    BY <1>2, <1>5, <2>1 DEF Enumera
<1>7. PICK h : /\ h \in [1 .. m -> J]
               /\ \A a \in J : \E k \in 1 .. m : h[k] = a
               /\ \A k, l \in 1 .. m : k < l => h[k] < h[l]
               /\ \A k \in 1 .. m : orden'[k] = orden[h[k]]
  <2>1. PICK h : Enumera(h, J) /\ \A k \in 1 .. Cardinality(J) : Quedan(orden, J)[k] = orden[h[k]]
    BY <1>1, <1>3, EnumeraQuedan
  <2> QED
    BY <1>2, <1>5, <2>1 DEF Enumera
<1>8. /\ tlb' \in Seq(EntradasTlb) /\ Len(tlb') = n /\ DOMAIN tlb' = 1 .. n /\ n <= Len(tlb)
  BY <1>1, <1>2, <1>3, <1>5, QuedanTipo
<1>9. /\ orden' \in Seq(Nombres) /\ Len(orden') = m /\ DOMAIN orden' = 1 .. m
  BY <1>1, <1>2, <1>3, <1>5, QuedanTipo
<1>10. TiposCpu'
  BY <1>1, <1>8, <1>9 DEF TiposCpu
<1>11. /\ \A k \in 1 .. n : g[k] \in DOMAIN tlb /\ g[k] \in I /\ g[k] \in Nat
       /\ \A k \in 1 .. m : h[k] \in DOMAIN orden /\ h[k] \in J /\ h[k] \in Nat
  BY <1>1, <1>3, <1>6, <1>7, SMTT(40)
<1>12. \A k \in 1 .. n, a \in 1 .. m : Es(a, k)' <=> Es(h[a], g[k])
  BY <1>6, <1>7 DEF Es
<1>13. /\ \A k, l \in 1 .. n : g[k] = g[l] => k = l
       /\ \A k, l \in 1 .. m : h[k] = h[l] => k = l
  <2>1. ASSUME NEW k \in 1 .. n, NEW l \in 1 .. n, g[k] = g[l]
        PROVE  k = l
    <3>1. ~ (k < l) /\ ~ (l < k)
      BY <1>6, <1>11, <2>1
    <3> QED
      BY <3>1
  <2>2. ASSUME NEW k \in 1 .. m, NEW l \in 1 .. m, h[k] = h[l]
        PROVE  k = l
    <3>1. ~ (k < l) /\ ~ (l < k)
      BY <1>7, <1>11, <2>2
    <3> QED
      BY <3>1
  <2> QED
    BY <2>1, <2>2
<1>14. \A i \in DOMAIN tlb, a \in DOMAIN orden : Es(a, i) => (i \in I <=> a \in J)
  BY <1>4 DEF Es, Nombre
<1>15. Historia'
  <2>1. \A i, k \in DOMAIN tlb' : tlb'[i].pid = tlb'[k].pid /\ tlb'[i].pagina = tlb'[k].pagina => i = k
    <3> SUFFICES ASSUME NEW i \in 1 .. n, NEW k \in 1 .. n,
                        tlb'[i].pid = tlb'[k].pid, tlb'[i].pagina = tlb'[k].pagina
                 PROVE  i = k
      BY <1>8
    <3>1. g[i] = g[k]
      <4>1. /\ tlb'[i] = tlb[g[i]] /\ tlb'[k] = tlb[g[k]]
            /\ g[i] \in DOMAIN tlb /\ g[k] \in DOMAIN tlb
        BY <1>6, <1>11
      <4>2. tlb[g[i]].pid = tlb[g[k]].pid /\ tlb[g[i]].pagina = tlb[g[k]].pagina
        BY <4>1
      <4> QED
        BY <1>1, <4>1, <4>2 DEF Historia
    <3> QED
      BY <1>13, <3>1
  <2>2. \A a, b \in DOMAIN orden' : orden'[a] = orden'[b] => a = b
    <3> SUFFICES ASSUME NEW a \in 1 .. m, NEW b \in 1 .. m, orden'[a] = orden'[b]
                 PROVE  a = b
      BY <1>9
    <3>1. h[a] = h[b]
      BY <1>1, <1>7, <1>11 DEF Historia
    <3> QED
      BY <1>13, <3>1
  <2>3. \A a \in DOMAIN orden' : \E k \in DOMAIN tlb' : Es(a, k)'
    <3> SUFFICES ASSUME NEW a \in 1 .. m PROVE \E k \in 1 .. n : Es(a, k)'
      BY <1>8, <1>9
    <3>1. PICK i \in DOMAIN tlb : Es(h[a], i)
      BY <1>1, <1>11 DEF Historia
    <3>2. i \in I
      BY <1>11, <1>14, <3>1
    <3>3. PICK k \in 1 .. n : g[k] = i
      BY <1>6, <3>2
    <3> QED
      BY <1>12, <3>1, <3>3
  <2>4. \A k \in DOMAIN tlb' : \E a \in DOMAIN orden' : Es(a, k)'
    <3> SUFFICES ASSUME NEW k \in 1 .. n PROVE \E a \in 1 .. m : Es(a, k)'
      BY <1>8, <1>9
    <3>1. PICK b \in DOMAIN orden : Es(b, g[k])
      BY <1>1, <1>11 DEF Historia
    <3>2. b \in J
      BY <1>11, <1>14, <3>1
    <3>3. PICK a \in 1 .. m : h[a] = b
      BY <1>7, <3>2
    <3> QED
      BY <1>12, <3>1, <3>3
  <2> QED
    BY <2>1, <2>2, <2>3, <2>4 DEF Historia
<1>16. ASSUME algoritmo_reemplazo_tlb = "LRU" PROVE Edades'
  <2>1. ASSUME NEW i \in 1 .. n, NEW a \in 1 .. m, Es(a, i)'
        PROVE  /\ tlb'[i].instante <= instante' /\ (a < m => tlb'[i].instante < instante')
               /\ \A k \in 1 .. n, b \in 1 .. m : Es(b, k)' /\ a < b =>
                    /\ tlb'[i].instante <= tlb'[k].instante
                    /\ a + 1 < b => tlb'[i].instante < tlb'[k].instante
    <3>1. Es(h[a], g[i]) /\ tlb'[i] = tlb[g[i]] /\ g[i] \in DOMAIN tlb /\ h[a] \in DOMAIN orden
      BY <1>6, <1>11, <1>12, <2>1
    <3>2. /\ tlb[g[i]].instante <= instante
          /\ h[a] < Len(orden) => tlb[g[i]].instante < instante
      BY <1>1, <1>16, <3>1 DEF Edades
    <3>3. a < m => h[a] < Len(orden)
      <4> HAVE a < m
      <4>1. h[a] < h[m] /\ h[m] \in 1 .. Len(orden) /\ h[a] \in Nat
        BY <1>1, <1>7, <1>11
      <4> QED
        BY <1>1, <4>1
    <3>4. ASSUME NEW k \in 1 .. n, NEW b \in 1 .. m, Es(b, k)', a < b
          PROVE  /\ tlb'[i].instante <= tlb'[k].instante
                 /\ a + 1 < b => tlb'[i].instante < tlb'[k].instante
      <4>1. Es(h[b], g[k]) /\ tlb'[k] = tlb[g[k]] /\ g[k] \in DOMAIN tlb /\ h[b] \in DOMAIN orden
        BY <1>6, <1>11, <1>12, <3>4
      <4>2. h[a] < h[b]
        BY <1>7, <3>4
      <4>3. a + 1 < b => h[a] + 1 < h[b]
        <5> HAVE a + 1 < b
        <5>1. PICK c \in 1 .. m : c = a + 1 /\ a < c /\ c < b
          BY <1>5
        <5>2. h[a] < h[c] /\ h[c] < h[b] /\ h[a] \in Nat /\ h[b] \in Nat /\ h[c] \in Nat
          BY <1>7, <1>11, <5>1
        <5> QED
          BY <5>2
      <4>4. /\ tlb[g[i]].instante <= tlb[g[k]].instante
            /\ h[a] + 1 < h[b] => tlb[g[i]].instante < tlb[g[k]].instante
        BY <1>1, <1>16, <3>1, <4>1, <4>2 DEF Edades
      <4> QED
        BY <3>1, <4>1, <4>3, <4>4
    <3> QED
      BY <3>1, <3>2, <3>3, <3>4
  <2> QED
    BY <1>8, <1>9, <2>1 DEF Edades
<1>17. ASSUME algoritmo_reemplazo_tlb = "FIFO", ~ limpiada' PROVE Rueda'
  <2>1. tlb' = tlb /\ ~ limpiada
    BY <1>17
  <2>2. n = Len(tlb)
    BY <1>8, <2>1
  <2>3. \A i \in DOMAIN tlb : i \in I
    <3> TAKE i \in DOMAIN tlb
    <3>1. i \in 1 .. n
      BY <1>1, <2>2
    <3>2. tlb[i] = tlb[g[i]] /\ g[i] \in DOMAIN tlb /\ g[i] \in I
      BY <1>6, <1>11, <2>1, <3>1
    <3> QED
      BY <1>4, <3>2
  <2>4. \A a \in DOMAIN orden : a \in J
    BY <1>1, <1>14, <2>3 DEF Historia
  <2>5. \A a \in DOMAIN orden : a \in J <=> 0 < a
    BY <1>1, <2>4
  <2>6. 0 \in 0 .. Len(orden)
    BY <1>1
  <2>7. Cardinality(J) = Len(orden) - 0 /\ \A a \in 1 .. Len(orden) - 0 : Quedan(orden, J)[a] = orden[0 + a]
    BY <1>1, <1>3, <2>5, <2>6, QuedanUltimos
  <2>8. m = Len(orden) /\ \A a \in 1 .. m : orden'[a] = orden[a]
    BY <1>1, <1>2, <1>5, <2>7
  <2>9. orden' = orden
    BY <1>1, <1>9, <2>8, SeqEqual
  <2> QED
    BY <1>1, <2>1, <2>9 DEF Rueda, Vuelta, Es
<1>18. {tlb'[k] : k \in DOMAIN tlb'} \subseteq {tlb[i] : i \in DOMAIN tlb}
  BY <1>6, <1>8, <1>11
<1> QED
  BY <1>1, <1>10, <1>15, <1>16, <1>17, <1>18 DEF Mmu, Edades, Rueda

-----------------------------------------------------------------------------
(* The steps, as the MMU sees them *)

\* tlb_obtener_marco: a hit of entry i.
LEMMA Acierta ==
  ASSUME Mmu, NEW p, NEW j, NEW i \in Buscar(p, j), Referir(i),
         orden' = IF algoritmo_reemplazo_tlb = "LRU"
                  THEN Append(SinNombre(Nombre(p, j)), Nombre(p, j)) ELSE orden,
         UNCHANGED <<algoritmo_reemplazo_tlb, entradas_max_tlb, limpiada>>
  PROVE  /\ Mmu' /\ DOMAIN tlb' = DOMAIN tlb
         /\ \A k \in DOMAIN tlb : /\ tlb'[k].pid = tlb[k].pid /\ tlb'[k].pagina = tlb[k].pagina
                                  /\ tlb'[k].marco = tlb[k].marco
<1>1. /\ TiposCpu /\ Historia /\ Edades /\ Rueda
      /\ DOMAIN orden = 1 .. Len(orden) /\ Len(orden) \in Nat
      /\ DOMAIN tlb = 1 .. Len(tlb) /\ Len(tlb) \in Nat
      /\ tlb \in Seq(EntradasTlb) /\ orden \in Seq(Nombres) /\ instante \in Nat
  BY Posiciones DEF Mmu, TiposCpu
<1>2. /\ i \in DOMAIN tlb /\ tlb[i].pid = p /\ tlb[i].pagina = j /\ tlb[i] \in EntradasTlb
  BY <1>1, Posiciones DEF Buscar
<1> DEFINE d == [tlb[i] EXCEPT !.instante = instante + 1]
<1>3. /\ d \in EntradasTlb /\ d.pid = p /\ d.pagina = j /\ d.instante = instante + 1
      /\ d.marco = tlb[i].marco
  BY <1>1, <1>2, SMTT(40) DEF EntradasTlb
<1>4. tlb' = [tlb EXCEPT ![i] = d] /\ instante' = instante + 1 /\ ultima_entrada_fifo' = ultima_entrada_fifo
  BY <1>2 DEF Referir
<1>5. PICK e : e = d
  OBVIOUS
<1> HIDE DEF d
<1>6. /\ tlb' \in Seq(EntradasTlb) /\ Len(tlb') = Len(tlb) /\ DOMAIN tlb' = DOMAIN tlb
      /\ tlb'[i] = e /\ \A k \in DOMAIN tlb \ {i} : tlb'[k] = tlb[k]
  BY <1>1, <1>2, <1>3, <1>4, <1>5, ExceptSeq
<1>7. \A k \in DOMAIN tlb : /\ tlb'[k].pid = tlb[k].pid /\ tlb'[k].pagina = tlb[k].pagina
                            /\ tlb'[k].marco = tlb[k].marco
  BY <1>2, <1>3, <1>5, <1>6
<1>8. Buscar(p, j) = {i}
  BY <1>1, <1>2 DEF Buscar, Historia
<1>9. CASE algoritmo_reemplazo_tlb = "LRU"
  <2>1. PICK r \in DOMAIN orden : Es(r, i)
    BY <1>1, <1>2 DEF Historia
  <2>2. Nombre(p, j) = orden[r]
    BY <1>2, <2>1 DEF Es
  <2>3. PICK q : q = SinNombre(orden[r])
    OBVIOUS
  <2>4. PICK g : SeMueve(q, g, r)
    BY <1>1, <2>3, SinNombreMueve
  <2>5. orden' = Append(q, Nombre(e.pid, e.pagina))
    BY <1>3, <1>5, <1>9, <2>2, <2>3
  <2>6. Cambia(i, e, q, g, r)
    BY <1>2, <1>3, <1>4, <1>5, <1>8, <2>1, <2>4, <2>5 DEF Cambia
  <2>7. e.instante \in {instante, instante + 1}
    BY <1>3, <1>5, SMTT(40)
  <2>8. Historia' /\ orden' \in Seq(Nombres)
    BY <1>1, <2>6, MueveHistoria, Zenon
  <2>9. Edades'
    BY <1>1, <1>4, <1>9, <2>6, <2>7, MueveEdades
  <2>10. TiposCpu'
    BY <1>1, <1>4, <1>6, <2>8 DEF TiposCpu
  <2> QED
    BY <1>6, <1>7, <1>9, <2>8, <2>9, <2>10 DEF Mmu, Rueda
<1>10. CASE algoritmo_reemplazo_tlb # "LRU"
  <2>1. orden' = orden /\ orden' \in Seq(Nombres)
    BY <1>1, <1>10
  <2>2. TiposCpu'
    <3>1. /\ algoritmo_reemplazo_tlb' \in {"FIFO", "LRU"} /\ entradas_max_tlb' \in Nat
          /\ instante' \in Nat /\ limpiada' \in BOOLEAN
      BY <1>1, <1>4 DEF TiposCpu
    <3>2. ultima_entrada_fifo' \in 0 .. (IF entradas_max_tlb' = 0 THEN 0 ELSE entradas_max_tlb' - 1)
      BY <1>1, <1>4 DEF TiposCpu
    <3>3. tlb' \in Seq(EntradasTlb) /\ Len(tlb') <= entradas_max_tlb'
      BY <1>1, <1>6 DEF TiposCpu
    <3> QED
      BY <2>1, <3>1, <3>2, <3>3 DEF TiposCpu
  <2>3. \A a, k : k \in DOMAIN tlb => (Es(a, k)' <=> Es(a, k))
    BY <1>7, <2>1, Zenon DEF Es
  <2>4. Historia'
    <3>1. \A k, l \in DOMAIN tlb' : tlb'[k].pid = tlb'[l].pid /\ tlb'[k].pagina = tlb'[l].pagina => k = l
      BY <1>1, <1>6, <1>7, Zenon DEF Historia
    <3>2. /\ \A a \in DOMAIN orden' : \E k \in DOMAIN tlb' : Es(a, k)'
          /\ \A k \in DOMAIN tlb' : \E a \in DOMAIN orden' : Es(a, k)'
      BY <1>1, <1>6, <2>1, <2>3, Zenon DEF Historia
    <3> QED
      BY <1>1, <2>1, <3>1, <3>2, Zenon DEF Historia
  <2>5. ASSUME ~ limpiada PROVE Rueda'
    <3>1. /\ Len(tlb) < entradas_max_tlb => ultima_entrada_fifo = 0
          /\ algoritmo_reemplazo_tlb = "FIFO" => \A a \in DOMAIN orden : Es(a, Vuelta(a))
      BY <1>1, <1>10, <2>5 DEF Rueda, TiposCpu
    <3>2. \A a \in DOMAIN orden : Vuelta(a)' = Vuelta(a) /\ Vuelta(a) \in DOMAIN tlb
      <4>1. ultima_entrada_fifo < Len(tlb) /\ ultima_entrada_fifo \in Nat /\ Len(orden) = Len(tlb)
        <5>1. Len(orden) = Len(tlb)
          BY <1>1, MismoLargo, Zenon
        <5>2. /\ Len(tlb) > 0 /\ Len(tlb) <= entradas_max_tlb /\ entradas_max_tlb \in Nat
              /\ ultima_entrada_fifo \in Nat
              /\ entradas_max_tlb # 0 => ultima_entrada_fifo <= entradas_max_tlb - 1
          BY <1>1, <1>2 DEF TiposCpu
        <5> QED
          BY <1>1, <3>1, <5>1, <5>2
      <4> QED
        BY <1>1, <1>4, <1>6, <4>1, SMTT(40) DEF Vuelta
    <3>3. ASSUME algoritmo_reemplazo_tlb = "FIFO"
          PROVE  \A a \in DOMAIN orden' : orden'[a] = Nombre(tlb'[Vuelta(a)'].pid, tlb'[Vuelta(a)'].pagina)
      BY <1>7, <2>1, <3>1, <3>2, <3>3 DEF Es
    <3> QED
      BY <1>4, <1>6, <3>1, <3>3 DEF Rueda, Es
  <2> QED
    BY <1>6, <1>7, <1>10, <2>2, <2>4, <2>5 DEF Mmu, Edades, Rueda
<1> QED
  BY <1>9, <1>10

LEMMA MenorInstante ==
  ASSUME TiposCpu, tlb # <<>>
  PROVE  /\ IndiceMenorInstante \in DOMAIN tlb
         /\ \A k \in DOMAIN tlb : tlb[IndiceMenorInstante].instante <= tlb[k].instante
<1>1. /\ DOMAIN tlb = 1 .. Len(tlb) /\ Len(tlb) \in Nat \ {0} /\ DOMAIN tlb \subseteq Nat
      /\ \A k \in DOMAIN tlb : tlb[k].instante \in Nat
  BY Posiciones, EmptySeq DEF TiposCpu, EntradasTlb
<1> DEFINE T == {tlb[k].instante : k \in DOMAIN tlb}
<1>2. PICK t \in T : \A u \in T : ~ (u < t)
  <2>1. T \in SUBSET Nat /\ T # {}
    BY <1>1
  <2> HIDE DEF T
  <2> QED
    BY <2>1, Primero
<1> DEFINE K == {k \in DOMAIN tlb : tlb[k].instante = t}
<1>3. PICK i \in K : \A k \in K : ~ (k < i)
  <2>1. K \in SUBSET Nat /\ K # {}
    BY <1>1, <1>2
  <2> HIDE DEF K
  <2> QED
    BY <2>1, Primero
<1>4. \A k \in DOMAIN tlb : tlb[i].instante < tlb[k].instante \/ (tlb[i].instante = tlb[k].instante /\ i <= k)
  <2> TAKE k \in DOMAIN tlb
  <2>1. tlb[k].instante \in T /\ tlb[i].instante = t /\ i \in DOMAIN tlb
    BY <1>3
  <2>2. CASE tlb[k].instante = t
    BY <1>1, <1>3, <2>1, <2>2
  <2>3. CASE tlb[k].instante # t
    <3>1. t \in Nat /\ tlb[k].instante \in Nat
      BY <1>1
    <3>2. ~ (tlb[k].instante < t)
      BY <1>2, <2>1
    <3>3. t < tlb[k].instante
      BY <2>3, <3>1, <3>2
    <3> QED
      BY <2>1, <3>3
  <2> QED
    BY <2>2, <2>3
<1>5. /\ IndiceMenorInstante \in DOMAIN tlb
      /\ \A k \in DOMAIN tlb :
           \/ tlb[IndiceMenorInstante].instante < tlb[k].instante
           \/ tlb[IndiceMenorInstante].instante = tlb[k].instante /\ IndiceMenorInstante <= k
  BY <1>3, <1>4, SMTT(40) DEF IndiceMenorInstante
<1> QED
  BY <1>1, <1>5

\* The entry that the code takes out is the one that should leave.
LEMMA VictimaElegida ==
  ASSUME Mmu, NEW i \in DOMAIN tlb,
         \/ algoritmo_reemplazo_tlb = "FIFO" /\ i = ultima_entrada_fifo + 1 /\ Len(tlb) = entradas_max_tlb
         \/ algoritmo_reemplazo_tlb = "LRU" /\ \A k \in DOMAIN tlb : tlb[i].instante <= tlb[k].instante
  PROVE  LET v == Nombre(tlb[i].pid, tlb[i].pagina)
             Instante(n) == (CHOOSE e \in ToSet(tlb) : Nombre(e.pid, e.pagina) = n).instante
         IN  IF algoritmo_reemplazo_tlb = "FIFO" THEN limpiada \/ v = orden[1]
             ELSE v = orden[1] \/ (v = orden[2] /\ Instante(v) = Instante(orden[1]))
<1>1. /\ TiposCpu /\ Historia /\ Edades /\ Rueda
      /\ DOMAIN orden = 1 .. Len(orden) /\ Len(orden) \in Nat /\ Len(orden) = Len(tlb)
      /\ DOMAIN tlb = 1 .. Len(tlb) /\ 1 \in DOMAIN orden
      /\ \A k \in DOMAIN tlb : tlb[k].instante \in Nat
  BY Posiciones, MismoLargo DEF Mmu, TiposCpu, EntradasTlb
<1>2. PICK a \in DOMAIN orden : Es(a, i)
  BY <1>1 DEF Historia
<1>3. CASE algoritmo_reemplazo_tlb = "FIFO"
  <2>1. ASSUME ~ limpiada PROVE Es(1, i)
    <3>1. Es(1, Vuelta(1)) /\ i = ultima_entrada_fifo + 1
      BY <1>1, <1>3, <2>1 DEF Rueda
    <3>2. ultima_entrada_fifo + 1 <= Len(tlb)
      BY <1>1, <3>1
    <3>3. Vuelta(1) = i
      BY <3>1, <3>2 DEF Vuelta
    <3> QED
      BY <3>1, <3>3
  <2> QED
    BY <1>3, <2>1 DEF Es
<1>4. CASE algoritmo_reemplazo_tlb = "LRU"
  <2>1. \A k \in DOMAIN tlb : tlb[i].instante <= tlb[k].instante
    BY <1>4
  <2>2. PICK k \in DOMAIN tlb : Es(1, k)
    BY <1>1 DEF Historia
  <2>3. CASE a = 1
    BY <1>2, <1>4, <2>3 DEF Es
  <2>4. CASE a # 1
    <3>1. /\ tlb[k].instante <= tlb[i].instante
          /\ 1 + 1 < a => tlb[k].instante < tlb[i].instante
      BY <1>1, <1>2, <1>4, <2>2, <2>4 DEF Edades
    <3>2. tlb[k].instante = tlb[i].instante /\ a = 2
      BY <1>1, <2>1, <2>4, <3>1
    <3> DEFINE Instante(n) == (CHOOSE e \in ToSet(tlb) : Nombre(e.pid, e.pagina) = n).instante
    <3>3. \A l \in DOMAIN tlb : Instante(Nombre(tlb[l].pid, tlb[l].pagina)) = tlb[l].instante
      <4> TAKE l \in DOMAIN tlb
      <4>1. tlb[l] \in ToSet(tlb)
        BY DEF ToSet
      <4>2. \A e \in ToSet(tlb) : Nombre(e.pid, e.pagina) = Nombre(tlb[l].pid, tlb[l].pagina) => e = tlb[l]
        <5> SUFFICES ASSUME NEW o \in DOMAIN tlb,
                            Nombre(tlb[o].pid, tlb[o].pagina) = Nombre(tlb[l].pid, tlb[l].pagina)
                     PROVE  o = l
          BY DEF ToSet
        <5>1. tlb[o].pid = tlb[l].pid /\ tlb[o].pagina = tlb[l].pagina
          BY DEF Nombre
        <5> QED
          BY <1>1, <5>1 DEF Historia
      <4> QED
        BY <4>1, <4>2
    <3>4. Instante(Nombre(tlb[i].pid, tlb[i].pagina)) = Instante(orden[1])
      <4> HIDE DEF Instante
      <4> QED
        BY <2>2, <3>2, <3>3 DEF Es
    <3>5. Nombre(tlb[i].pid, tlb[i].pagina) = orden[2]
      BY <1>2, <3>2 DEF Es
    <3> QED
      BY <1>4, <3>4, <3>5
  <2> QED
    BY <2>3, <2>4
<1> QED
  BY <1>1, <1>3, <1>4, Zenon DEF TiposCpu

\* tlb_actualizar and reemplazar_entrada_tlb.
LEMMA Guarda ==
  ASSUME Mmu, entradas_max_tlb > 0, NEW e \in EntradasTlb, Buscar(e.pid, e.pagina) = {},
         e.instante = instante, Guardar(e),
         UNCHANGED <<algoritmo_reemplazo_tlb, entradas_max_tlb, limpiada>>
  PROVE  /\ Mmu' /\ \A k \in DOMAIN tlb' : tlb'[k] = e \/ (k \in DOMAIN tlb /\ tlb'[k] = tlb[k])
         /\ VictimaDebida
<1>1. /\ TiposCpu /\ Historia /\ Edades /\ Rueda
      /\ DOMAIN orden = 1 .. Len(orden) /\ Len(orden) \in Nat
      /\ DOMAIN tlb = 1 .. Len(tlb) /\ Len(tlb) \in Nat
      /\ tlb \in Seq(EntradasTlb) /\ orden \in Seq(Nombres) /\ instante \in Nat
      /\ entradas_max_tlb \in Nat /\ Len(tlb) <= entradas_max_tlb
      /\ algoritmo_reemplazo_tlb \in {"FIFO", "LRU"}
  BY Posiciones DEF Mmu, TiposCpu
<1>2. instante' = instante + 1
  BY DEF Guardar
<1>3. CASE Len(tlb) < entradas_max_tlb
  <2>1. Crece(e)
    BY <1>2, <1>3 DEF Crece, Guardar
  <2>2. /\ Len(tlb') = Len(tlb) + 1 /\ DOMAIN tlb' = 1 .. Len(tlb) + 1
        /\ tlb'[Len(tlb) + 1] = e /\ \A k \in 1 .. Len(tlb) : tlb'[k] = tlb[k]
    BY <1>1, <2>1, AppendProperties, LenProperties DEF Crece
  <2>3. VictimaDebida
    BY <1>1, <2>2 DEF VictimaDebida
  <2>4. \A k \in DOMAIN tlb' : tlb'[k] = e \/ (k \in DOMAIN tlb /\ tlb'[k] = tlb[k])
    <3> TAKE k \in DOMAIN tlb'
    <3>1. k = Len(tlb) + 1 \/ k \in 1 .. Len(tlb)
      BY <1>1, <2>2
    <3> QED
      BY <1>1, <2>2, <3>1
  <2> QED
    BY <2>1, <2>3, <2>4, Agrega
<1>4. CASE ~ (Len(tlb) < entradas_max_tlb)
  <2> DEFINE ind == IF algoritmo_reemplazo_tlb = "FIFO" THEN ultima_entrada_fifo + 1 ELSE IndiceMenorInstante
  <2>1. Len(tlb) = entradas_max_tlb /\ tlb # <<>>
    <3>1. Len(tlb) = entradas_max_tlb
      <4>1. entradas_max_tlb \in Nat /\ Len(tlb) \in Nat /\ Len(tlb) <= entradas_max_tlb
        BY <1>1
      <4> QED
        BY <1>4, <4>1
    <3>2. Len(tlb) # 0
      BY <3>1
    <3> QED
      BY <3>1, <3>2, EmptySeq
  <2>2. PICK i : i = ind
    OBVIOUS
  <2>3. /\ tlb' = [tlb EXCEPT ![i] = e]
        /\ orden' = Append(SinNombre(Nombre(tlb[i].pid, tlb[i].pagina)), Nombre(e.pid, e.pagina))
        /\ algoritmo_reemplazo_tlb = "FIFO" => ultima_entrada_fifo' = SiguienteFifo
        /\ algoritmo_reemplazo_tlb # "FIFO" => ultima_entrada_fifo' = ultima_entrada_fifo
    BY <1>4, <2>2 DEF Guardar
  <2>4. \/ algoritmo_reemplazo_tlb = "FIFO" /\ i = ultima_entrada_fifo + 1
        \/ /\ algoritmo_reemplazo_tlb = "LRU"
           /\ \A k \in DOMAIN tlb : tlb[i].instante <= tlb[k].instante
    BY <1>1, <2>1, <2>2, MenorInstante
  <2>5. i \in DOMAIN tlb
    <3>1. CASE algoritmo_reemplazo_tlb = "FIFO"
      BY <1>1, <2>1, <2>4, <3>1 DEF TiposCpu
    <3>2. CASE algoritmo_reemplazo_tlb = "LRU"
      BY <1>1, <2>1, <2>2, <3>2, MenorInstante
    <3> QED
      BY <1>1, <3>1, <3>2
  <2> HIDE DEF ind
  <2>6. PICK r \in DOMAIN orden : Es(r, i)
    BY <1>1, <2>5 DEF Historia
  <2>7. PICK q : q = SinNombre(orden[r])
    OBVIOUS
  <2>8. PICK g : SeMueve(q, g, r)
    BY <1>1, <2>7, SinNombreMueve
  <2>9. Cambia(i, e, q, g, r)
    BY <2>3, <2>5, <2>6, <2>7, <2>8 DEF Cambia, Es
  <2>10. /\ Historia' /\ orden' \in Seq(Nombres) /\ tlb' \in Seq(EntradasTlb) /\ Len(tlb') = Len(tlb)
         /\ DOMAIN tlb' = DOMAIN tlb
    BY <1>1, <2>9, MueveHistoria
  <2>11. ASSUME algoritmo_reemplazo_tlb = "LRU" PROVE Edades'
    BY <1>1, <1>2, <2>9, <2>11, MueveEdades
  <2>12. ASSUME algoritmo_reemplazo_tlb = "FIFO", ~ limpiada PROVE Rueda'
    BY <1>1, <2>1, <2>3, <2>4, <2>9, <2>12, MueveRueda
  <2>13. ultima_entrada_fifo' \in 0 .. entradas_max_tlb - 1
    <3>1. CASE algoritmo_reemplazo_tlb = "FIFO"
      BY <1>1, <2>3, <3>1 DEF TiposCpu, SiguienteFifo
    <3>2. CASE algoritmo_reemplazo_tlb # "FIFO"
      BY <1>1, <2>3, <3>2 DEF TiposCpu
    <3> QED
      BY <3>1, <3>2
  <2>14. TiposCpu'
    BY <1>1, <1>2, <2>1, <2>10, <2>13 DEF TiposCpu
  <2>15. \A k \in DOMAIN tlb' : tlb'[k] = e \/ (k \in DOMAIN tlb /\ tlb'[k] = tlb[k])
    BY <2>3, <2>10
  <2>16. VictimaDebida
    <3>1. \A k \in DOMAIN tlb : k # i => tlb'[k] = tlb[k]
      BY <2>3, <2>10
    <3>2. PICK l \in DOMAIN tlb : l = i
      BY <2>5
    <3> QED
      BY <2>1, <2>4, <2>5, <3>1, VictimaElegida DEF VictimaDebida
  <2>17. Mmu'
    BY <1>1, <2>10, <2>11, <2>12, <2>14 DEF Mmu, Edades, Rueda
  <2> QED
    BY <2>15, <2>16, <2>17
<1> QED
  BY <1>3, <1>4

-----------------------------------------------------------------------------
(* Addresses, pages and frames *)

LEMMA Enteros ==
  /\ tamanio_pagina \in Nat \ {0} /\ entradas_por_tabla \in Nat \ {0}
  /\ MARCOS_POR_PROCESO \in Nat \ {0} /\ TamanioMaximo \in Nat /\ TamanioMaximo > 0
  /\ \A p \in Procesos : tamanio_segmento[p] \in Seq(1 .. TamanioMaximo) /\ Len(tamanio_segmento[p]) \in Nat
<1>1. TamanioMaximo \in Nat /\ TamanioMaximo > 0
  BY TlbAssumption DEF TamanioMaximo
<1>2. \A p \in Procesos : tamanio_segmento[p] \in Seq(1 .. TamanioMaximo)
  BY TlbAssumption
<1>3. \A p \in Procesos : Len(tamanio_segmento[p]) \in Nat
  BY <1>2, LenProperties
<1> QED
  BY <1>1, <1>2, <1>3, TlbAssumption

\* The MMU checks the displacement against the size in bytes: memoria has a registro
\* for the page of whatever passes.
LEMMA Direccion ==
  ASSUME NEW p \in Procesos, NEW dir \in Direcciones(p),
         Segmento(dir) \in Segmentos(p), ~ Excede(p, dir)
  PROVE  Pagina(dir) \in PaginasDe(p)
<1>1. PICK tp \in Nat \ {0}, et \in Nat \ {0} : tp = tamanio_pagina /\ et = entradas_por_tabla
  BY Enteros
<1>2. PICK s \in Segmentos(p) : s = Segmento(dir)
  OBVIOUS
<1>3. PICK l \in 1 .. TamanioMaximo : l = tamanio_segmento[p][s + 1]
  <2>1. s + 1 \in 1 .. Len(tamanio_segmento[p])
    BY <1>2, Enteros DEF Segmentos
  <2> QED
    BY <2>1, Enteros, ElementOfSeq
<1>4. dir \in Nat
  <2>1. (Len(tamanio_segmento[p]) + 1) * TamanioMaximo \in Nat
    BY Enteros
  <2> QED
    BY <2>1 DEF Direcciones
<1>5. PICK d \in Nat : d = Desplazamiento(dir) /\ d < l
  <2>1. Desplazamiento(dir) \in Nat
    BY <1>4, Enteros DEF Desplazamiento
  <2> QED
    BY <1>2, <1>3, <2>1, Enteros DEF Excede
<1>6. PICK n \in Nat : n = d \div tp /\ n * tp <= d
  <2>1. d \div tp \in Nat /\ (d \div tp) * tp <= d
    BY SMTT(30)
  <2> QED
    BY <2>1
<1>7. n * tp < l /\ n * tp < et * tp
  <2>1. PICK x \in Nat : x = n * tp
    OBVIOUS
  <2>2. x < l /\ x < TamanioMaximo
    <3>1. x <= d
      BY <1>6, <2>1
    <3>2. d < l /\ l <= TamanioMaximo /\ l \in Nat /\ TamanioMaximo \in Nat
      BY <1>5, Enteros
    <3> QED
      BY <3>1, <3>2
  <2>3. TamanioMaximo = et * tp
    BY <1>1 DEF TamanioMaximo
  <2> QED
    BY <2>1, <2>2, <2>3
<1>8. n < et
  <2> SUFFICES ASSUME n >= et PROVE FALSE
    OBVIOUS
  <2>1. PICK r \in Nat : n = et + r
    <3>1. n - et \in Nat /\ n = et + (n - et)
      OBVIOUS
    <3> QED
      BY <3>1
  <2>2. n * tp = et * tp + r * tp
    BY <2>1
  <2>3. r * tp \in Nat /\ et * tp \in Nat
    OBVIOUS
  <2> QED
    BY <1>7, <2>2, <2>3
<1>9. Pagina(dir) = <<s, n>>
  BY <1>1, <1>2, <1>5, <1>6 DEF Pagina
<1>10. <<s, n>> \in Segmentos(p) \X (0 .. entradas_por_tabla - 1)
  BY <1>1, <1>8
<1> QED
  BY <1>1, <1>3, <1>7, <1>9, <1>10 DEF PaginasDe

LEMMA PaginasFinitas ==
  ASSUME NEW p \in Procesos
  PROVE  IsFiniteSet(PaginasDe(p)) /\ PaginasDe(p) \subseteq Paginas
<1>1. IsFiniteSet(Segmentos(p)) /\ IsFiniteSet(0 .. entradas_por_tabla - 1)
  <2>1. Len(tamanio_segmento[p]) - 1 \in Int /\ entradas_por_tabla - 1 \in Int
    BY Enteros
  <2> QED
    BY <2>1, FS_Interval DEF Segmentos
<1>2. IsFiniteSet(Segmentos(p) \X (0 .. entradas_por_tabla - 1))
  BY <1>1, FS_Product
<1>3. PaginasDe(p) \subseteq Segmentos(p) \X (0 .. entradas_por_tabla - 1)
  BY DEF PaginasDe
<1> QED
  BY <1>2, <1>3, FS_Subset DEF Paginas

LEMMA Cargas ==
  ASSUME PaginasSuyas, NEW p \in Procesos
  PROVE  /\ IsFiniteSet(Pag!Cargadas(p)) /\ Cardinality(Pag!Cargadas(p)) \in Nat
         /\ Pag!Cargadas(p) \subseteq Paginas
         /\ Cabe(p) /\ Cardinality(Pag!Cargadas(p)) = MARCOS_POR_PROCESO => Pag!Cargadas(p) = PaginasDe(p)
<1>1. Pag!Cargadas(p) \subseteq PaginasDe(p)
  BY DEF PaginasSuyas
<1>2. IsFiniteSet(Pag!Cargadas(p)) /\ Cardinality(Pag!Cargadas(p)) <= Cardinality(PaginasDe(p))
  BY <1>1, PaginasFinitas, FS_Subset
<1>3. Cardinality(Pag!Cargadas(p)) \in Nat /\ Cardinality(PaginasDe(p)) \in Nat
  BY <1>2, PaginasFinitas, FS_CardinalityType
<1>4. Cabe(p) /\ Cardinality(Pag!Cargadas(p)) = MARCOS_POR_PROCESO => Pag!Cargadas(p) = PaginasDe(p)
  <2> HAVE Cabe(p) /\ Cardinality(Pag!Cargadas(p)) = MARCOS_POR_PROCESO
  <2>1. Cardinality(Pag!Cargadas(p)) = Cardinality(PaginasDe(p))
    BY <1>2, <1>3, Enteros DEF Cabe
  <2> QED
    BY <1>1, <2>1, PaginasFinitas, FS_Subset
<1> QED
  BY <1>1, <1>2, <1>3, <1>4, PaginasFinitas

\* What the cpu may believe of a page of a process that runs.
Vale(t) ==
  /\ Cabe(t.pid) => t.pagina \in Pag!Cargadas(t.pid) /\ residente[t.pid][t.pagina] = t.marco
  /\ \E j \in Pag!Cargadas(t.pid) : residente[t.pid][j] = t.marco

LEMMA Valen == (\A t \in Traducciones : Vale(t)) <=> TlbCoherente /\ MarcoPropio
  BY DEF Vale, TlbCoherente, MarcoPropio

\* Memoria serves a page fault.
LEMMA PaginaServida ==
  ASSUME TiposResto, PaginasSuyas, NEW p \in Procesos, Paginar(p)
  PROVE  /\ DOMAIN residente' = Procesos /\ PaginasSuyas' /\ terminados' = terminados
         /\ \A t \in [pid : Procesos, pagina : Paginas, marco : Marcos] : Vale(t) => Vale(t)'
<1>1. /\ DOMAIN residente = Procesos /\ falta' = falta
  BY DEF TiposResto, Paginar
<1>2. PICK j \in falta[p] : \/ \E m \in Marcos : Pag!Cargar(p, j, m)
                            \/ \E i \in Paginas : Pag!Reemplazar(p, i, j)
  BY DEF Paginar
<1>3. j \in PaginasDe(p) /\ Pag!Cargadas(p) \subseteq PaginasDe(p)
  BY DEF PaginasSuyas
<1> DEFINE C == Pag!Cargadas(p)
<1>4. /\ IsFiniteSet(C) /\ Cardinality(C) \in Nat
  BY Cargas
<1> DEFINE Deja(f) ==
             /\ residente' = [residente EXCEPT ![p] = f] /\ terminados' = terminados
             /\ DOMAIN f \subseteq C \cup {j} /\ Cardinality(DOMAIN f) <= MARCOS_POR_PROCESO
             /\ \A k \in DOMAIN f : f[k] \in Marcos
             /\ \A k \in C : \E l \in DOMAIN f : f[l] = residente[p][k]
             /\ Cabe(p) => \A k \in C : k \in DOMAIN f /\ f[k] = residente[p][k]
\* In either case the process gains j, loses at most one page of a full set, and keeps
\* its frames.
<1>5. \E f : Deja(f)
  <2>1. ASSUME NEW m \in Marcos, Pag!Cargar(p, j, m)
        PROVE  \E f : Deja(f)
    <3> DEFINE f == [k \in C \cup {j} |-> IF k = j THEN m ELSE residente[p][k]]
    <3>1. /\ j \notin C /\ residente' = [residente EXCEPT ![p] = f] /\ terminados' = terminados
      BY <2>1 DEF Pag!Cargar
    <3>2. Cardinality(C) < MARCOS_POR_PROCESO
      BY <2>1 DEF Pag!Cargar, Pag!Cardinality, Cardinality
    <3>3. DOMAIN f = C \cup {j}
      OBVIOUS
    <3>4. Cardinality(C \cup {j}) = Cardinality(C) + 1
      <4> HIDE DEF C, f
      <4> QED
        BY <1>4, <3>1, FS_AddElement
    <3>6. \A k \in DOMAIN f : f[k] \in Marcos
      BY DEF PaginasSuyas
    <3>7. \A k \in C : k \in DOMAIN f /\ f[k] = residente[p][k]
      BY <3>1
    <3>8. Cardinality(DOMAIN f) <= MARCOS_POR_PROCESO
      <4> HIDE DEF C, f
      <4> QED
        BY <1>4, <3>2, <3>3, <3>4, Enteros
    <3> HIDE DEF C, f
    <3> QED
      BY <3>1, <3>3, <3>6, <3>7, <3>8
  <2>2. ASSUME NEW i \in Paginas, Pag!Reemplazar(p, i, j)
        PROVE  \E f : Deja(f)
    <3> DEFINE f == [k \in (C \ {i}) \cup {j} |-> residente[p][IF k = j THEN i ELSE k]]
    <3>1. /\ i \in C /\ j \notin C /\ residente' = [residente EXCEPT ![p] = f] /\ terminados' = terminados
      BY <2>2 DEF Pag!Reemplazar
    <3>2. Cardinality(C) = MARCOS_POR_PROCESO
      BY <2>2 DEF Pag!Reemplazar, Pag!Cardinality, Cardinality
    <3>3. DOMAIN f = (C \ {i}) \cup {j}
      OBVIOUS
    <3>4. Cardinality((C \ {i}) \cup {j}) = Cardinality(C)
      <4> HIDE DEF C, f
      <4> DEFINE D == C \ {i}
      <4>1. IsFiniteSet(D) /\ Cardinality(D) = Cardinality(C) - 1 /\ j \notin D
        BY <1>4, <3>1, FS_RemoveElement
      <4> HIDE DEF D
      <4>2. Cardinality(D \cup {j}) = Cardinality(D) + 1
        BY <4>1, FS_AddElement
      <4> QED
        BY <1>4, <4>1, <4>2 DEF D
    <3>5. \A k \in DOMAIN f : f[k] \in Marcos
      BY <3>1 DEF PaginasSuyas
    <3>6. \A k \in C : \E l \in DOMAIN f : f[l] = residente[p][k]
      <4> SUFFICES ASSUME NEW k \in C PROVE \E l \in DOMAIN f : f[l] = residente[p][k]
        OBVIOUS
      <4>1. CASE k = i
        <5>1. j \in DOMAIN f /\ f[j] = residente[p][k]
          BY <4>1
        <5> QED
          BY <5>1
      <4>2. CASE k # i
        <5>1. k \in DOMAIN f /\ f[k] = residente[p][k]
          BY <3>1, <4>2
        <5> QED
          BY <5>1
      <4> QED
        BY <4>1, <4>2
    <3>7. ~ Cabe(p)
      BY <1>3, <3>1, <3>2, Cargas
    <3>8. Cardinality(DOMAIN f) <= MARCOS_POR_PROCESO
      <4> HIDE DEF C, f
      <4> QED
        BY <1>4, <3>2, <3>3, <3>4
    <3> HIDE DEF C, f
    <3> QED
      BY <3>1, <3>3, <3>5, <3>6, <3>7, <3>8
  <2> QED
    <3> HIDE DEF Deja
    <3> QED
      BY <1>2, <2>1, <2>2
<1>6. PICK f : /\ residente' = [residente EXCEPT ![p] = f] /\ terminados' = terminados
               /\ DOMAIN f \subseteq C \cup {j} /\ Cardinality(DOMAIN f) <= MARCOS_POR_PROCESO
               /\ \A k \in DOMAIN f : f[k] \in Marcos
               /\ \A k \in C : \E l \in DOMAIN f : f[l] = residente[p][k]
               /\ Cabe(p) => \A k \in C : k \in DOMAIN f /\ f[k] = residente[p][k]
  BY <1>5
<1>7. /\ DOMAIN residente' = Procesos /\ residente'[p] = f
      /\ \A q \in Procesos \ {p} : residente'[q] = residente[q]
  BY <1>1, <1>6
<1>8. PaginasSuyas'
  <2>1. ASSUME NEW q \in Procesos, q # p
        PROVE  /\ falta'[q] \subseteq PaginasDe(q) /\ Pag!Cargadas(q)' \subseteq PaginasDe(q)
               /\ Cardinality(Pag!Cargadas(q)') <= MARCOS_POR_PROCESO
               /\ \A k \in Pag!Cargadas(q)' : residente'[q][k] \in Marcos
    BY <1>1, <1>7, <2>1 DEF PaginasSuyas, Pag!Cargadas
  <2>2. /\ falta'[p] \subseteq PaginasDe(p) /\ Pag!Cargadas(p)' \subseteq PaginasDe(p)
        /\ Cardinality(Pag!Cargadas(p)') <= MARCOS_POR_PROCESO
        /\ \A k \in Pag!Cargadas(p)' : residente'[p][k] \in Marcos
    BY <1>1, <1>3, <1>6, <1>7 DEF PaginasSuyas, Pag!Cargadas
  <2> QED
    BY <2>1, <2>2 DEF PaginasSuyas
<1>9. ASSUME NEW t \in [pid : Procesos, pagina : Paginas, marco : Marcos], Vale(t)
      PROVE  Vale(t)'
  <2>1. PICK q \in Procesos : q = t.pid
    OBVIOUS
  <2>2. CASE q # p
    <3>1. residente'[t.pid] = residente[t.pid]
      BY <1>7, <2>1, <2>2
    <3> QED
      BY <1>9, <3>1 DEF Vale, Cabe, Pag!Cargadas
  <2>3. CASE q = p
    <3>1. residente'[t.pid] = f /\ Pag!Cargadas(t.pid) = C
      BY <1>7, <2>1, <2>3
    <3>2. /\ Cabe(p) => t.pagina \in DOMAIN f /\ f[t.pagina] = t.marco
          /\ \E l \in DOMAIN f : f[l] = t.marco
      BY <1>6, <1>9, <2>1, <2>3 DEF Vale
    <3> QED
      BY <2>1, <2>3, <3>1, <3>2 DEF Vale, Cabe, Pag!Cargadas
  <2> QED
    BY <2>2, <2>3
<1> QED
  BY <1>6, <1>7, <1>8, <1>9

\* The translations that are in the TLB.
EnTlb == {Traduccion(tlb[i].pid, tlb[i].pagina, tlb[i].marco) : i \in DOMAIN tlb}

\* Steps that leave the page tables alone, but for a translation of them in nuevas.
LEMMA MismaMemoria ==
  ASSUME TlbCoherente, MarcoPropio, residente' = residente, terminados \subseteq terminados',
         NEW nuevas, \A t \in nuevas : Vale(t),
         EnTlb' \subseteq EnTlb \cup nuevas, acceso' \subseteq EnTlb \cup nuevas
  PROVE  TlbCoherente' /\ MarcoPropio'
<1>1. ASSUME NEW t \in Traducciones' PROVE Vale(t)'
  <2>1. t \in EnTlb \cup nuevas /\ t.pid \notin terminados
    BY DEF Traducciones, EnTlb
  <2>2. Vale(t)
    BY <2>1, Valen DEF Traducciones, EnTlb
  <2> QED
    BY <2>2 DEF Vale, Cabe, Pag!Cargadas
<1>2. (\A t \in Traducciones' : Vale(t)') <=> TlbCoherente' /\ MarcoPropio'
  BY DEF Vale, TlbCoherente, MarcoPropio
<1> QED
  BY <1>1, <1>2

LEMMA ApuntadasValen ==
  ASSUME TiposCpu, NEW i \in DOMAIN tlb
  PROVE  /\ Traduccion(tlb[i].pid, tlb[i].pagina, tlb[i].marco) \in EnTlb
         /\ Traduccion(tlb[i].pid, tlb[i].pagina, tlb[i].marco) \in
              [pid : Procesos, pagina : Paginas, marco : Marcos]
  BY Posiciones DEF EnTlb, Traduccion, EntradasTlb

\* A page that is translated again: nobody waits for it any more.
LEMMA NadieEspera ==
  ASSUME TiposResto, PaginasSuyas, NEW p \in Procesos,
         falta' = [falta EXCEPT ![p] = {}], UNCHANGED <<residente, terminados, caida>>,
         acceso' \subseteq [pid : Procesos, pagina : Paginas, marco : Marcos]
  PROVE  TiposResto' /\ PaginasSuyas'
<1>1. TiposResto'
  BY DEF TiposResto
<1>2. PaginasSuyas'
  BY DEF PaginasSuyas, TiposResto, Pag!Cargadas
<1> QED
  BY <1>1, <1>2

LEMMA PasoAcertar ==
  ASSUME Invariante, NEW p \in Procesos, NEW dir \in Direcciones(p), Acertar(p, dir)
  PROVE  Invariante' /\ VictimaDebida
<1>1. /\ Mmu /\ TiposCpu /\ TiposResto /\ PaginasSuyas /\ TlbCoherente /\ MarcoPropio /\ ConsultaValida
  BY DEF Invariante, Mmu
<1>2. PICK j : j = Pagina(dir)
  OBVIOUS
<1>3. PICK i \in Buscar(p, j) :
        /\ Referir(i) /\ acceso' = {Traduccion(p, j, tlb[i].marco)}
        /\ orden' = IF algoritmo_reemplazo_tlb = "LRU"
                    THEN Append(SinNombre(Nombre(p, j)), Nombre(p, j)) ELSE orden
  BY <1>2 DEF Acertar
<1>4. /\ falta' = [falta EXCEPT ![p] = {}]
      /\ UNCHANGED <<algoritmo_reemplazo_tlb, entradas_max_tlb, caida, limpiada, residente, terminados>>
  BY DEF Acertar, config
<1>5. /\ Mmu' /\ DOMAIN tlb' = DOMAIN tlb
      /\ \A k \in DOMAIN tlb : /\ tlb'[k].pid = tlb[k].pid /\ tlb'[k].pagina = tlb[k].pagina
                               /\ tlb'[k].marco = tlb[k].marco
  BY <1>1, <1>3, <1>4, Acierta
<1>6. i \in DOMAIN tlb /\ tlb[i].pid = p /\ tlb[i].pagina = j
  BY DEF Buscar
<1>7. EnTlb' = EnTlb
  BY <1>5 DEF EnTlb
<1>8. acceso' \subseteq EnTlb /\ acceso' \subseteq [pid : Procesos, pagina : Paginas, marco : Marcos]
  BY <1>1, <1>3, <1>6, ApuntadasValen
<1>9. TlbCoherente' /\ MarcoPropio'
  <2>1. PICK nuevas : nuevas = {}
    OBVIOUS
  <2>2. \A t \in nuevas : Vale(t)
    BY <2>1
  <2>3. EnTlb' \subseteq EnTlb \cup nuevas /\ acceso' \subseteq EnTlb \cup nuevas /\ terminados \subseteq terminados'
    BY <1>4, <1>7, <1>8
  <2> QED
    BY <1>1, <1>4, <2>2, <2>3, MismaMemoria
<1>10. TiposResto' /\ PaginasSuyas'
  BY <1>1, <1>4, <1>8, NadieEspera
<1>11. VictimaDebida
  BY <1>5 DEF VictimaDebida
<1> QED
  BY <1>1, <1>4, <1>5, <1>9, <1>10, <1>11 DEF Invariante, ConsultaValida

LEMMA PasoFallar ==
  ASSUME Invariante, NEW p \in Procesos, NEW dir \in Direcciones(p), Fallar(p, dir)
  PROVE  Invariante' /\ VictimaDebida
<1>1. /\ Mmu /\ TiposCpu /\ TiposResto /\ PaginasSuyas /\ TlbCoherente /\ MarcoPropio /\ ConsultaValida
      /\ instante \in Nat /\ entradas_max_tlb \in Nat
  BY DEF Invariante, Mmu, TiposCpu
<1>2. PICK j : j = Pagina(dir)
  OBVIOUS
<1>3. PICK m : m = residente[p][j]
  OBVIOUS
<1>4. PICK e : e = [pid |-> p, pagina |-> j, marco |-> m, instante |-> instante]
  OBVIOUS
<1>5. /\ Buscar(p, j) = {} /\ j \in Pag!Cargadas(p)
      /\ acceso' = {Traduccion(p, j, m)}
      /\ IF entradas_max_tlb > 0 THEN Guardar(e) ELSE UNCHANGED cpu
      /\ falta' = [falta EXCEPT ![p] = {}]
      /\ UNCHANGED <<algoritmo_reemplazo_tlb, entradas_max_tlb, caida, limpiada, residente, terminados>>
  BY <1>2, <1>3, <1>4 DEF Fallar, config
<1>6. j \in Paginas /\ m \in Marcos
  BY <1>1, <1>3, <1>5, Cargas DEF PaginasSuyas
<1>7. /\ e \in EntradasTlb /\ e.pid = p /\ e.pagina = j /\ e.marco = m /\ e.instante = instante
      /\ Traduccion(p, j, m) \in [pid : Procesos, pagina : Paginas, marco : Marcos]
  BY <1>1, <1>4, <1>6 DEF EntradasTlb, Traduccion
<1>8. Vale(Traduccion(p, j, m))
  BY <1>3, <1>5 DEF Vale, Traduccion
<1>9. /\ Mmu' /\ VictimaDebida
      /\ \A k \in DOMAIN tlb' : tlb'[k] = e \/ (k \in DOMAIN tlb /\ tlb'[k] = tlb[k])
  <2>1. CASE entradas_max_tlb > 0
    <3>1. Guardar(e)
      BY <1>5, <2>1
    <3>2. Buscar(e.pid, e.pagina) = {}
      BY <1>5, <1>7
    <3> QED
      BY <1>1, <1>5, <1>7, <2>1, <3>1, <3>2, Guarda
  <2>2. CASE ~ (entradas_max_tlb > 0)
    <3>1. UNCHANGED <<tlb, ultima_entrada_fifo, instante, orden>>
      BY <1>5, <2>2 DEF cpu
    <3>2. Mmu'
      BY <1>1, <1>5, <3>1 DEF Mmu, TiposCpu, Historia, Edades, Rueda, Es, Vuelta
    <3> QED
      BY <3>1, <3>2 DEF VictimaDebida
  <2> QED
    BY <2>1, <2>2
<1>10. EnTlb' \subseteq EnTlb \cup {Traduccion(p, j, m)}
  BY <1>7, <1>9 DEF EnTlb
<1>11. TlbCoherente' /\ MarcoPropio'
  <2>1. \A t \in {Traduccion(p, j, m)} : Vale(t)
    BY <1>8
  <2>2. acceso' \subseteq EnTlb \cup {Traduccion(p, j, m)} /\ terminados \subseteq terminados'
    BY <1>5
  <2> QED
    BY <1>1, <1>5, <1>10, <2>1, <2>2, MismaMemoria
<1>12. TiposResto' /\ PaginasSuyas'
  BY <1>1, <1>5, <1>7, NadieEspera
<1> QED
  BY <1>1, <1>5, <1>9, <1>11, <1>12 DEF Invariante, ConsultaValida

\* A step that leaves the MMU alone.
LEMMA MismaMmu ==
  ASSUME Mmu, UNCHANGED <<config, cpu, limpiada>>
  PROVE  Mmu' /\ VictimaDebida /\ EnTlb' = EnTlb
<1>1. UNCHANGED <<algoritmo_reemplazo_tlb, entradas_max_tlb, tlb, ultima_entrada_fifo, instante, orden, limpiada>>
  BY DEF config, cpu
<1>2. Mmu'
  BY <1>1 DEF Mmu, TiposCpu, Historia, Edades, Rueda, Es, Vuelta
<1>3. VictimaDebida /\ EnTlb' = EnTlb
  BY <1>1 DEF VictimaDebida, EnTlb
<1> QED
  BY <1>2, <1>3

\* A step after which the cpu goes to no frame and the TLB has no new translation.
LEMMA SinAcceso ==
  ASSUME TlbCoherente, MarcoPropio, residente' = residente, terminados \subseteq terminados',
         EnTlb' \subseteq EnTlb, acceso' = {}
  PROVE  TlbCoherente' /\ MarcoPropio'
<1>1. PICK nuevas : nuevas = {}
  OBVIOUS
<1>2. \A t \in nuevas : Vale(t)
  BY <1>1
<1>3. EnTlb' \subseteq EnTlb \cup nuevas /\ acceso' \subseteq EnTlb \cup nuevas
  OBVIOUS
<1> QED
  BY <1>2, <1>3, MismaMemoria

LEMMA PasoFaltarPagina ==
  ASSUME Invariante, NEW p \in Procesos, NEW dir \in Direcciones(p), FaltarPagina(p, dir)
  PROVE  Invariante' /\ VictimaDebida
<1>1. /\ Mmu /\ TiposResto /\ PaginasSuyas /\ TlbCoherente /\ MarcoPropio /\ ConsultaValida
  BY DEF Invariante
<1>2. Pagina(dir) \in PaginasDe(p)
  BY Direccion DEF FaltarPagina
<1>3. /\ falta' = [falta EXCEPT ![p] = {Pagina(dir)}] /\ caida' = caida /\ acceso' = {}
      /\ UNCHANGED <<config, cpu, limpiada>> /\ residente' = residente /\ terminados' = terminados
  BY <1>2 DEF FaltarPagina
<1>4. Mmu' /\ VictimaDebida /\ EnTlb' = EnTlb
  BY <1>1, <1>3, MismaMmu
<1>5. TlbCoherente' /\ MarcoPropio'
  BY <1>1, <1>3, <1>4, SinAcceso
<1>6. TiposResto' /\ PaginasSuyas'
  <2>1. Pagina(dir) \in Paginas
    BY <1>2, PaginasFinitas
  <2>2. TiposResto'
    BY <1>1, <1>3, <2>1 DEF TiposResto
  <2>3. PaginasSuyas'
    BY <1>1, <1>2, <1>3 DEF PaginasSuyas, TiposResto, Pag!Cargadas
  <2> QED
    BY <2>2, <2>3
<1> QED
  BY <1>1, <1>3, <1>4, <1>5, <1>6 DEF Invariante, ConsultaValida

LEMMA PasoFuera ==
  ASSUME Invariante, NEW p \in Procesos, NEW dir \in Direcciones(p), Fuera(p, dir)
  PROVE  Invariante' /\ VictimaDebida
<1>1. /\ Mmu /\ TiposResto /\ PaginasSuyas /\ TlbCoherente /\ MarcoPropio /\ ConsultaValida
  BY DEF Invariante
<1>2. /\ UNCHANGED <<config, cpu, limpiada>> /\ acceso' = {} /\ falta' = falta /\ residente' = residente
      /\ caida' = caida \/ caida' = "cpu"
      /\ terminados' = terminados \/ terminados' = terminados \cup {p}
  BY DEF Fuera, Pag!Terminar
<1>3. Mmu' /\ VictimaDebida /\ EnTlb' = EnTlb
  BY <1>1, <1>2, MismaMmu
<1>4. TlbCoherente' /\ MarcoPropio'
  BY <1>1, <1>2, <1>3, SinAcceso
<1>5. TiposResto' /\ PaginasSuyas' /\ ConsultaValida'
  BY <1>1, <1>2 DEF TiposResto, PaginasSuyas, ConsultaValida, Pag!Cargadas
<1> QED
  BY <1>3, <1>4, <1>5 DEF Invariante

LEMMA PasoSalir ==
  ASSUME Invariante, NEW p \in Procesos, Salir(p)
  PROVE  Invariante' /\ VictimaDebida
<1>1. /\ Mmu /\ TiposResto /\ PaginasSuyas /\ TlbCoherente /\ MarcoPropio /\ ConsultaValida
  BY DEF Invariante
<1>2. /\ p \notin terminados /\ terminados' = terminados \cup {p} /\ residente' = residente
      /\ tlb' = SinEntradasDe(p, tlb) /\ orden' = SinEntradasDe(p, orden)
      /\ limpiada' = (limpiada \/ tlb' # tlb) /\ acceso' = {} /\ falta' = falta /\ caida' = caida
      /\ UNCHANGED <<algoritmo_reemplazo_tlb, entradas_max_tlb, ultima_entrada_fifo, instante>>
  BY DEF Salir, Pag!Terminar, config
<1>3. Mmu' /\ {tlb'[k] : k \in DOMAIN tlb'} \subseteq {tlb[i] : i \in DOMAIN tlb}
  BY <1>1, <1>2, Filtra
<1>4. EnTlb' \subseteq EnTlb
  <2>1. ASSUME NEW k \in DOMAIN tlb' PROVE Traduccion(tlb'[k].pid, tlb'[k].pagina, tlb'[k].marco) \in EnTlb
    <3>1. PICK i \in DOMAIN tlb : tlb'[k] = tlb[i]
      BY <1>3
    <3> QED
      BY <3>1 DEF EnTlb
  <2> QED
    BY <2>1 DEF EnTlb
<1>5. TlbCoherente' /\ MarcoPropio'
  BY <1>1, <1>2, <1>4, SinAcceso
<1>6. TiposResto' /\ PaginasSuyas' /\ ConsultaValida'
  BY <1>1, <1>2 DEF TiposResto, PaginasSuyas, ConsultaValida, Pag!Cargadas
<1>7. VictimaDebida
  BY <1>2 DEF VictimaDebida
<1> QED
  BY <1>3, <1>5, <1>6, <1>7 DEF Invariante

LEMMA PasoPaginar ==
  ASSUME Invariante, NEW p \in Procesos, Paginar(p)
  PROVE  Invariante' /\ VictimaDebida
<1>1. /\ Mmu /\ TiposCpu /\ TiposResto /\ PaginasSuyas /\ TlbCoherente /\ MarcoPropio /\ ConsultaValida
  BY DEF Invariante, Mmu
<1>2. /\ UNCHANGED <<config, cpu, limpiada>> /\ acceso' = {} /\ falta' = falta /\ caida' = caida
  BY DEF Paginar
<1>3. Mmu' /\ VictimaDebida /\ EnTlb' = EnTlb
  BY <1>1, <1>2, MismaMmu
<1>4. /\ DOMAIN residente' = Procesos /\ PaginasSuyas' /\ terminados' = terminados
      /\ \A t \in [pid : Procesos, pagina : Paginas, marco : Marcos] : Vale(t) => Vale(t)'
  BY <1>1, PaginaServida
<1>5. \A t \in EnTlb : t \in [pid : Procesos, pagina : Paginas, marco : Marcos]
  BY <1>1, ApuntadasValen DEF EnTlb
<1>6. TlbCoherente' /\ MarcoPropio'
  <2>1. ASSUME NEW t \in Traducciones' PROVE Vale(t)'
    <3>1. t \in EnTlb /\ t \in Traducciones
      BY <1>2, <1>3, <1>4 DEF Traducciones, EnTlb
    <3>2. Vale(t)
      BY <1>1, <3>1, Valen
    <3> QED
      BY <1>4, <1>5, <3>1, <3>2
  <2>2. (\A t \in Traducciones' : Vale(t)') <=> TlbCoherente' /\ MarcoPropio'
    BY DEF Vale, TlbCoherente, MarcoPropio
  <2> QED
    BY <2>1, <2>2
<1>7. TiposResto' /\ ConsultaValida'
  BY <1>1, <1>2, <1>4 DEF TiposResto, ConsultaValida
<1> QED
  BY <1>3, <1>4, <1>6, <1>7 DEF Invariante

-----------------------------------------------------------------------------
(* The theorems *)

LEMMA Comienza == Init => Invariante
<1> HAVE Init
<1>1. /\ tlb = <<>> /\ orden = <<>> /\ ultima_entrada_fifo = 0 /\ instante = 0 /\ limpiada = FALSE
      /\ falta = [p \in Procesos |-> {}] /\ acceso = {} /\ terminados = {} /\ caida = "nadie"
      /\ residente = [p \in Procesos |-> [j \in {} |-> 0]]
      /\ algoritmo_reemplazo_tlb \in {"FIFO", "LRU"} /\ entradas_max_tlb \in 0 .. MaxEntradas
  BY DEF Init, Pag!Init
<1>2. /\ Len(tlb) = 0 /\ DOMAIN tlb = {} /\ DOMAIN orden = {}
      /\ tlb \in Seq(EntradasTlb) /\ orden \in Seq(Nombres)
  BY <1>1, EmptySeq
<1>3. entradas_max_tlb \in Nat
  BY <1>1, TlbAssumption
<1>4. TiposCpu
  <2>1. 0 \in 0 .. (IF entradas_max_tlb = 0 THEN 0 ELSE entradas_max_tlb - 1)
    BY <1>3
  <2>2. Len(tlb) <= entradas_max_tlb
    BY <1>2, <1>3
  <2>3. limpiada \in BOOLEAN /\ instante \in Nat
    BY <1>1
  <2> QED
    BY <1>1, <1>2, <1>3, <2>1, <2>2, <2>3 DEF TiposCpu
<1>5. Historia /\ Edades /\ Rueda
  BY <1>1, <1>2 DEF Historia, Edades, Rueda
<1>6. TiposResto /\ ConsultaValida
  BY <1>1 DEF TiposResto, ConsultaValida
<1>7. \A p \in Procesos : Pag!Cargadas(p) = {}
  BY <1>1 DEF Pag!Cargadas
<1>8. PaginasSuyas
  <2>1. \A p \in Procesos : Cardinality(Pag!Cargadas(p)) = 0
    BY <1>7, FS_EmptySet
  <2>2. 0 <= MARCOS_POR_PROCESO
    BY Enteros
  <2>3. \A p \in Procesos : falta[p] = {}
    BY <1>1
  <2> QED
    BY <1>7, <2>1, <2>2, <2>3 DEF PaginasSuyas
<1>9. Traducciones = {}
  BY <1>1, <1>2 DEF Traducciones
<1> QED
  BY <1>4, <1>5, <1>6, <1>8, <1>9 DEF Invariante, Mmu, TlbCoherente, MarcoPropio

LEMMA Sigue == Invariante /\ [Next]_vars => Invariante' /\ [VictimaDebida]_vars
<1> SUFFICES ASSUME Invariante, [Next]_vars PROVE Invariante' /\ [VictimaDebida]_vars
  OBVIOUS
<1>1. CASE UNCHANGED vars
  <2>1. /\ UNCHANGED <<algoritmo_reemplazo_tlb, entradas_max_tlb, tlb, ultima_entrada_fifo, instante, orden>>
        /\ UNCHANGED <<falta, caida, acceso, limpiada, residente, terminados>>
    BY <1>1 DEF vars, config, cpu
  <2>2. Mmu'
    BY <2>1 DEF Invariante, Mmu, TiposCpu, Historia, Edades, Rueda, Es, Vuelta
  <2>3. TiposResto' /\ PaginasSuyas' /\ ConsultaValida'
    BY <2>1 DEF Invariante, TiposResto, PaginasSuyas, ConsultaValida, Pag!Cargadas
  <2>4. TlbCoherente' /\ MarcoPropio'
    BY <2>1 DEF Invariante, TlbCoherente, MarcoPropio, Traducciones, Cabe, Pag!Cargadas
  <2> QED
    BY <1>1, <2>2, <2>3, <2>4 DEF Invariante
<1>2. CASE Next
  <2>1. PICK p \in Procesos : \/ Salir(p) \/ Paginar(p)
                              \/ \E dir \in Direcciones(p) : \/ Acertar(p, dir) \/ Fallar(p, dir)
                                                             \/ FaltarPagina(p, dir) \/ Fuera(p, dir)
    BY <1>2 DEF Next
  <2>2. Invariante' /\ VictimaDebida
    BY <2>1, PasoSalir, PasoPaginar, PasoAcertar, PasoFallar, PasoFaltarPagina, PasoFuera
  <2> QED
    BY <2>2
<1> QED
  BY <1>1, <1>2

LEMMA Tipada == Invariante => TypeOK
<1> HAVE Invariante
<1>1. TiposCpu /\ Historia /\ TiposResto
  BY DEF Invariante, Mmu
<1>2. Len(orden) = Len(tlb)
  BY <1>1, MismoLargo
<1>3. IsInjective(orden)
  BY <1>1 DEF Historia, IsInjective
<1>4. ToSet(orden) = {Nombre(tlb[i].pid, tlb[i].pagina) : i \in DOMAIN tlb}
  BY <1>1 DEF Historia, Es, ToSet
<1> QED
  BY <1>1, <1>2, <1>3, <1>4 DEF TypeOK, TiposCpu, TiposResto, EntradasTlb

\* The MMU, the TLB, its history and the page tables always keep to Invariante.
THEOREM InvarianteTlb == Spec => []Invariante
  BY Comienza, Sigue, PTL DEF Spec

\* The TLB never has a page twice nor more than ENTRADAS_TLB entries, and its FIFO
\* pointer stays on one of them (tlb_actualizar, limpiar_tlb, cpu.c:340-398, 512-523).
THEOREM TiposTlb == Spec => []TypeOK
  BY InvarianteTlb, Tipada, PTL

\* The TLB and the accesses of a process that fits in its frames agree with its page
\* table (obtener_direccion_fisica, cpu.c:266-310).
THEOREM TlbSiempreCoherente == Spec => []TlbCoherente
<1>1. Invariante => TlbCoherente
  BY DEF Invariante
<1> QED
  BY <1>1, InvarianteTlb, PTL

\* Those of the others may name a page that left, but only with a frame that the
\* process's own table has now for some page (tlb_obtener_marco, cpu.c:324-338).
THEOREM MarcoSiemprePropio == Spec => []MarcoPropio
<1>1. Invariante => MarcoPropio
  BY DEF Invariante
<1> QED
  BY <1>1, InvarianteTlb, PTL

\* The check of the displacement against the segment's size in bytes keeps memoria
\* from looking for a page it has no registro of (cpu.c:274-281).
THEOREM ConsultaSiempreValida == Spec => []ConsultaValida
<1>1. Invariante => ConsultaValida
  BY DEF Invariante
<1> QED
  BY <1>1, InvarianteTlb, PTL

\* The entry that leaves a full TLB is the one FIFO or LRU promises, but after
\* limpiar_tlb in FIFO and between two entries of the same instant in LRU
\* (reemplazar_entrada_tlb, cpu.c:340-373).
THEOREM VictimaSiempreJusta == Spec => VictimaJusta
  BY InvarianteTlb, Sigue, PTL DEF Spec, VictimaJusta
=============================================================================
