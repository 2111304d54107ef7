-------------------------- MODULE ReemplazoProofs --------------------------
(***************************************************************************)
(* What TLAPS proves of Reemplazo: the loops of CLOCK and CLOCK-M choose   *)
(* the victim of Clock for any frames per process, bits of their pages and *)
(* reads of other processes meanwhile.                                     *)
(***************************************************************************)
EXTENDS Reemplazo, Conteo

-----------------------------------------------------------------------------
(* The victim *)

LEMMA ClaseBits ==
  ASSUME NEW a, NEW r \in Bits
  PROVE  /\ Clase(a, r) \in 0 .. 3 /\ (a = "CLOCK" => Clase(a, r) = r.uso)
         /\ (a # "CLOCK" => Clase(a, r) = 2 * r.uso + r.modificado)
         /\ r.uso \in {0, 1} /\ r.modificado \in {0, 1}
<1>1. r.uso \in {0, 1} /\ r.modificado \in {0, 1}
  BY DEF Bits
<1> QED
  BY <1>1 DEF Clase

\* Page w goes before page k.
Antes(a, F, w, k) ==
  Clase(a, F[w]) < Clase(a, F[k]) \/ (Clase(a, F[w]) = Clase(a, F[k]) /\ w < k)

Gana(a, F, w) == w \in DOMAIN F /\ \A k \in DOMAIN F \ {w} : Antes(a, F, w, k)

LEMMA EsVictima ==
  ASSUME NEW a, NEW n \in Nat, NEW F \in [1 .. n -> Bits], NEW w, Gana(a, F, w)
  PROVE  Victima(a, F) = w
<1> DEFINE S == {i \in DOMAIN F : \A j \in DOMAIN F : Clase(a, F[i]) <= Clase(a, F[j])}
<1>1. DOMAIN F = 1 .. n /\ w \in 1 .. n
  BY DEF Gana
<1>2. \A k \in 1 .. n : Clase(a, F[k]) \in Int
  BY ClaseBits
<1>3. w \in S
  <2> SUFFICES ASSUME NEW k \in 1 .. n PROVE Clase(a, F[w]) <= Clase(a, F[k])
    BY <1>1
  <2>1. CASE k = w
    BY <1>1, <1>2, <2>1
  <2>2. CASE k # w
    BY <1>1, <1>2, <2>2 DEF Gana, Antes
  <2> QED
    BY <2>1, <2>2
<1>4. \A y \in S : w <= y
  <2> SUFFICES ASSUME NEW y \in S PROVE w <= y
    OBVIOUS
  <2>1. y \in 1 .. n /\ Clase(a, F[y]) <= Clase(a, F[w])
    BY <1>1
  <2>2. CASE y = w
    BY <1>1, <2>2
  <2>3. CASE y # w
    <3>1. Antes(a, F, w, y)
      BY <1>1, <2>1, <2>3 DEF Gana
    <3> QED
      BY <1>1, <1>2, <2>1, <3>1 DEF Antes
  <2> QED
    BY <2>2, <2>3
<1>5. S \subseteq Nat
  BY <1>1
<1> HIDE DEF S
<1>6. Min(S) = w
  <2>1. Min(S) \in S /\ \A y \in S : Min(S) <= y
    BY <1>3, <1>4 DEF Min
  <2>2. Min(S) <= w /\ w <= Min(S) /\ w \in Nat /\ Min(S) \in Nat
    BY <1>3, <1>4, <1>5, <2>1
  <2> QED
    BY <2>2
<1> QED
  BY <1>6 DEF Victima, S

LEMMA HayVictima ==
  ASSUME NEW a, NEW n \in Nat \ {0}, NEW F \in [1 .. n -> Bits]
  PROVE  Gana(a, F, Victima(a, F))
<1> DEFINE A == {Clase(a, F[k]) : k \in 1 .. n}
<1>1. \A k \in 1 .. n : Clase(a, F[k]) \in Nat
  BY ClaseBits
<1>2. PICK c \in A : \A d \in A : ~ (d < c)
  <2>1. A \subseteq Nat /\ A # {}
    BY <1>1
  <2> HIDE DEF A
  <2> QED
    BY <2>1, Primero
<1> DEFINE S == {k \in 1 .. n : Clase(a, F[k]) = c}
<1>3. PICK w \in S : \A k \in S : ~ (k < w)
  <2>1. S \subseteq Nat /\ S # {}
    OBVIOUS
  <2> HIDE DEF S
  <2> QED
    BY <2>1, Primero
<1>4. ASSUME NEW k \in 1 .. n, k # w PROVE Antes(a, F, w, k)
  <2>1. w \in 1 .. n /\ Clase(a, F[w]) = c /\ ~ (Clase(a, F[k]) < c)
    BY <1>2
  <2>2. Clase(a, F[k]) = c => ~ (k < w)
    BY <1>3
  <2> QED
    BY <1>1, <1>4, <2>1, <2>2 DEF Antes
<1>5. Gana(a, F, w)
  BY <1>4 DEF Gana
<1> QED
  BY <1>5, EsVictima

-----------------------------------------------------------------------------
(* The inductive invariant *)

N == marcos_por_proceso
Paginas == 1 .. N

Tipos ==
  /\ algoritmo \in Algoritmos /\ N \in Nat \ {0}
  /\ inicial \in [Paginas -> Bits] /\ registro \in [1 .. N + 1 -> Bits]
  /\ busca \in {"clock", "0_0", "0_1", "nada"} /\ vuelta \in 0 .. N
  /\ escrita \in 0 .. N /\ estorbo \in BOOLEAN

\* A read may have set its bit.
Leida(k) == estorbo /\ k = escrita

ClaseDe(k) == Clase(algoritmo, inicial[k])

UltimaClase == IF algoritmo = "CLOCK" THEN 1 ELSE 3

\* After h turns in search of a page of class c, the pages whose bit uso was cleared.
Limpias(c, h) ==
  IF algoritmo = "CLOCK" THEN (IF c = 0 THEN h ELSE N)
  ELSE IF c = 0 THEN 0 ELSE IF c = 1 THEN h ELSE N

BuscaDe(c) ==
  IF algoritmo = "CLOCK" THEN "clock" ELSE IF c \in {0, 2} THEN "0_0" ELSE "0_1"

\* No page is of a lower class, nor are the first h of class c; but for the page that
\* was read, the bits are those of the start or have been cleared.
Etapa(c, h) ==
  \A k \in Paginas :
    /\ Leida(k) \/ ClaseDe(k) >= c
    /\ k <= h => Leida(k) \/ ClaseDe(k) > c
    /\ k <= Limpias(c, h) => Leida(k) \/ registro[k].uso = 0
    /\ k > Limpias(c, h) =>
         registro[k].uso = inicial[k].uso \/ (Leida(k) /\ registro[k].uso = 1)

\* The queue after h turns.
Rotada(h) == cola = [i \in Paginas |-> IF h + i <= N THEN h + i ELSE h + i - N]

Recorre(c, h) ==
  /\ busca = BuscaDe(c) /\ (algoritmo = "CLOCK-M" => vuelta = h)
  /\ Rotada(h) /\ Etapa(c, h)

\* One frame, whose page is read again and again.
Sola == N = 1 /\ escrita = 1 /\ estorbo /\ Rotada(0)

\* The search leaves the bits modificado alone.
SinTocar == \A k \in Paginas : registro[k].modificado = inicial[k].modificado

Buscando ==
  busca # "nada" =>
    /\ SinTocar
    /\ Sola \/ \E c \in 0 .. UltimaClase, h \in 0 .. N : Recorre(c, h)

Invariante == Tipos /\ Buscando /\ ReemplazoCorrecto

-----------------------------------------------------------------------------
(* The queue *)

\* The page at the head leaves it and another comes in.
LEMMA Gira ==
  ASSUME N \in Nat \ {0}, NEW h \in 0 .. N - 1, Rotada(h), NEW y \in Nat
  PROVE  /\ Head(cola) = h + 1
         /\ Append(Tail(cola), y) \in Seq(Nat) /\ Len(Append(Tail(cola), y)) = N
         /\ Append(Tail(cola), y)[N] = y
         /\ \A i \in 1 .. N - 1 :
              Append(Tail(cola), y)[i] = IF h + 1 + i <= N THEN h + 1 + i ELSE h + 1 + i - N
<1>1. PICK n \in Nat \ {0} : n = N
  OBVIOUS
<1>2. /\ cola = [i \in 1 .. n |-> IF h + i <= n THEN h + i ELSE h + i - n]
      /\ h \in 0 .. n - 1
  BY <1>1 DEF Rotada, Paginas
<1>3. \A i \in 1 .. n : (IF h + i <= n THEN h + i ELSE h + i - n) \in Nat
  BY <1>2
<1>4. cola \in [1 .. n -> Nat]
  BY <1>2, <1>3
<1>5. cola \in Seq(Nat) /\ Len(cola) = n /\ \A i \in 1 .. n : cola[i] = IF h + i <= n THEN h + i ELSE h + i - n
  BY <1>2, <1>4, SeqDef, LenProperties
<1>6. PICK t : t = Tail(cola)
  OBVIOUS
<1>7. /\ t \in Seq(Nat) /\ Len(t) = n - 1 /\ \A i \in 1 .. n - 1 : t[i] = cola[i + 1]
      /\ Head(cola) = cola[1]
  BY <1>5, <1>6, HeadTailProperties
<1>8. PICK z : z = Append(t, y)
  OBVIOUS
<1>9. /\ z \in Seq(Nat) /\ Len(z) = n - 1 + 1 /\ z[n - 1 + 1] = y
      /\ \A i \in 1 .. n - 1 : z[i] = t[i]
  BY <1>7, <1>8, AppendProperties
<1>10. cola[1] = h + 1
  BY <1>2, <1>5
<1>11. \A i \in 1 .. n - 1 : z[i] = IF h + 1 + i <= n THEN h + 1 + i ELSE h + 1 + i - n
  <2> TAKE i \in 1 .. n - 1
  <2>1. z[i] = cola[i + 1]
    BY <1>7, <1>9
  <2>2. cola[i + 1] = IF h + (i + 1) <= n THEN h + (i + 1) ELSE h + (i + 1) - n
    BY <1>5
  <2>3. h + (i + 1) = h + 1 + i
    BY <1>2
  <2> QED
    BY <2>1, <2>2, <2>3
<1> QED
  BY <1>1, <1>6, <1>7, <1>8, <1>9, <1>10, <1>11

\* It goes to the end.
LEMMA GiraUno ==
  ASSUME N \in Nat \ {0}, NEW h \in 0 .. N - 1, Rotada(h), cola' = Append(Tail(cola), Head(cola)), N' = N
  PROVE  Rotada(h + 1)' /\ Head(cola) = h + 1 /\ (h + 1 = N => Rotada(0)')
<1>1. PICK n \in Nat \ {0} : n = N
  OBVIOUS
<1>2. Head(cola) = h + 1
  BY Gira
<1>3. PICK y \in Nat : y = h + 1
  OBVIOUS
<1>4. /\ cola' \in Seq(Nat) /\ Len(cola') = n /\ cola'[n] = y
      /\ \A i \in 1 .. n - 1 : cola'[i] = IF h + 1 + i <= n THEN h + 1 + i ELSE h + 1 + i - n
  BY <1>1, <1>2, <1>3, Gira, ZenonT(40)
<1>5. cola' = [i \in 1 .. n |-> cola'[i]]
  <2>1. \A z \in Seq(Nat) : Len(z) = n => z = [i \in 1 .. n |-> z[i]]
    BY LenProperties
  <2> QED
    BY <1>4, <2>1
<1>6. \A i \in 1 .. n : cola'[i] = IF h + 1 + i <= n THEN h + 1 + i ELSE h + 1 + i - n
  <2> TAKE i \in 1 .. n
  <2>1. CASE i = n
    <3>1. ~ (h + 1 + n <= n) /\ h + 1 + n - n = h + 1
      BY <1>1
    <3> QED
      BY <1>3, <1>4, <2>1, <3>1
  <2>2. CASE i # n
    <3>1. i \in 1 .. n - 1
      BY <2>2
    <3> QED
      BY <1>4, <3>1
  <2> QED
    BY <2>1, <2>2
<1>7. cola' = [i \in 1 .. n |-> IF h + 1 + i <= n THEN h + 1 + i ELSE h + 1 + i - n]
  BY <1>5, <1>6
<1>8. Rotada(h + 1)'
  BY <1>1, <1>7 DEF Rotada, Paginas
<1>9. ASSUME h + 1 = n
      PROVE  Rotada(0)'
  <2>1. \A i \in 1 .. n : (IF h + 1 + i <= n THEN h + 1 + i ELSE h + 1 + i - n) = IF 0 + i <= n THEN 0 + i ELSE 0 + i - n
    BY <1>9
  <2>2. cola' = [i \in 1 .. n |-> IF 0 + i <= n THEN 0 + i ELSE 0 + i - n]
    BY <1>7, <2>1
  <2> QED
    BY <1>1, <2>2 DEF Rotada, Paginas
<1> QED
  BY <1>1, <1>2, <1>8, <1>9

\* After a whole pass it is as it was.
LEMMA Completa == ASSUME N \in Nat \ {0}, Rotada(N) PROVE Rotada(0)
<1>1. PICK n \in Nat \ {0} : n = N
  OBVIOUS
<1>2. cola = [i \in 1 .. n |-> IF n + i <= n THEN n + i ELSE n + i - n]
  BY <1>1 DEF Rotada, Paginas
<1>3. \A i \in 1 .. n : (IF n + i <= n THEN n + i ELSE n + i - n) = IF 0 + i <= n THEN 0 + i ELSE 0 + i - n
  OBVIOUS
<1>4. cola = [i \in 1 .. n |-> IF 0 + i <= n THEN 0 + i ELSE 0 + i - n]
  BY <1>2, <1>3
<1> QED
  BY <1>1, <1>4 DEF Rotada, Paginas

\* The victim leaves it: Clock's Rotar.
LEMMA GiraVictima ==
  ASSUME N \in Nat \ {0}, NEW h \in 0 .. N - 1, Rotada(h), cola' = Append(Tail(cola), Nueva), N' = N
  PROVE  cola' = Rotar([k \in Paginas |-> k], h + 1, Nueva)
<1>1. PICK n \in Nat \ {0}, y \in Nat : n = N /\ y = Nueva
  BY DEF Nueva, N
<1>2. /\ cola' \in Seq(Nat) /\ Len(cola') = n /\ cola'[n] = y
      /\ \A i \in 1 .. n - 1 : cola'[i] = IF h + 1 + i <= n THEN h + 1 + i ELSE h + 1 + i - n
  BY <1>1, Gira, ZenonT(40)
<1>3. PICK p : p = [k \in 1 .. n |-> k]
  OBVIOUS
<1>4. PICK w \in 1 .. n : w = h + 1
  BY <1>1
<1>5. p \in Seq(Nat) /\ Len(p) = n /\ \A k \in 1 .. n : p[k] = k
  <2>1. p \in [1 .. n -> Nat]
    BY <1>3
  <2> QED
    BY <1>3, <2>1, SeqDef, LenProperties
<1>6. PICK a, b : a = SubSeq(p, w + 1, n) /\ b = SubSeq(p, 1, w - 1)
  OBVIOUS
<1>7. /\ a \in Seq(Nat) /\ Len(a) = n - w /\ \A i \in 1 .. n - w : a[i] = w + i
  <2>1. \A i \in w + 1 .. n : p[i] \in Nat /\ i \in 1 .. n
    BY <1>5
  <2>2. /\ a \in Seq(Nat) /\ Len(a) = IF w + 1 <= n THEN n - (w + 1) + 1 ELSE 0
        /\ \A i \in 1 .. n - (w + 1) + 1 : a[i] = p[w + 1 + i - 1]
    BY <1>6, <2>1, SubSeqProperties
  <2>3. n - (w + 1) + 1 = n - w /\ (~ (w + 1 <= n) => n - w = 0)
    OBVIOUS
  <2>4. \A i \in 1 .. n - w : w + 1 + i - 1 = w + i /\ w + i \in 1 .. n
    OBVIOUS
  <2> QED
    BY <1>5, <2>2, <2>3, <2>4
<1>8. /\ b \in Seq(Nat) /\ Len(b) = w - 1 /\ \A i \in 1 .. w - 1 : b[i] = i
  <2>1. \A i \in 1 .. w - 1 : p[i] \in Nat /\ i \in 1 .. n
    BY <1>5
  <2>2. /\ b \in Seq(Nat) /\ Len(b) = IF 1 <= w - 1 THEN w - 1 - 1 + 1 ELSE 0
        /\ \A i \in 1 .. w - 1 - 1 + 1 : b[i] = p[1 + i - 1]
    BY <1>6, <2>1, SubSeqProperties
  <2>3. w - 1 - 1 + 1 = w - 1 /\ (~ (1 <= w - 1) => w - 1 = 0)
    OBVIOUS
  <2>4. \A i \in 1 .. w - 1 : 1 + i - 1 = i
    OBVIOUS
  <2> QED
    BY <1>5, <2>1, <2>2, <2>3, <2>4
<1>9. PICK c : c = a \o b
  OBVIOUS
<1>10. /\ c \in Seq(Nat) /\ Len(c) = n - 1
       /\ \A i \in 1 .. n - w : c[i] = w + i
       /\ \A i \in n - w + 1 .. n - 1 : c[i] = i - (n - w)
  <2>1. /\ c \in Seq(Nat) /\ Len(c) = Len(a) + Len(b)
        /\ \A i \in 1 .. Len(a) + Len(b) : c[i] = IF i <= Len(a) THEN a[i] ELSE b[i - Len(a)]
    BY <1>7, <1>8, <1>9, ConcatProperties, Zenon
  <2>2. /\ Len(c) = n - 1 /\ \A i \in 1 .. n - 1 : c[i] = IF i <= n - w THEN a[i] ELSE b[i - (n - w)]
    <3>1. n - w + (w - 1) = n - 1
      OBVIOUS
    <3> QED
      BY <1>7, <1>8, <2>1, <3>1
  <2>3. \A i \in 1 .. n - w : c[i] = w + i
    <3> TAKE i \in 1 .. n - w
    <3>1. i \in 1 .. n - 1 /\ i <= n - w
      OBVIOUS
    <3> QED
      BY <1>7, <2>2, <3>1
  <2>4. \A i \in n - w + 1 .. n - 1 : c[i] = i - (n - w)
    <3> TAKE i \in n - w + 1 .. n - 1
    <3>1. i \in 1 .. n - 1 /\ ~ (i <= n - w) /\ i - (n - w) \in 1 .. w - 1
      OBVIOUS
    <3> QED
      BY <1>8, <2>2, <3>1
  <2> QED
    BY <2>1, <2>2, <2>3, <2>4
<1>11. PICK d : d = c \o <<y>>
  OBVIOUS
<1>12. /\ d \in Seq(Nat) /\ Len(d) = n /\ d[n] = y /\ \A i \in 1 .. n - 1 : d[i] = c[i]
  <2>1. <<y>> \in Seq(Nat) /\ Len(<<y>>) = 1 /\ <<y>>[1] = y
    OBVIOUS
  <2>2. /\ d \in Seq(Nat) /\ Len(d) = Len(c) + 1
        /\ \A i \in 1 .. Len(c) + 1 : d[i] = IF i <= Len(c) THEN c[i] ELSE <<y>>[i - Len(c)]
    BY <1>10, <1>11, <2>1, ConcatProperties
  <2>3. n \in 1 .. n - 1 + 1 /\ ~ (n <= n - 1) /\ n - (n - 1) = 1
    OBVIOUS
  <2>4. d[n] = <<y>>[1]
    BY <1>10, <2>2, <2>3
  <2>5. \A i \in 1 .. n - 1 : i \in 1 .. n - 1 + 1 /\ i <= n - 1
    OBVIOUS
  <2> QED
    BY <1>10, <2>1, <2>2, <2>4, <2>5
<1>13. \A i \in 1 .. n : cola'[i] = d[i]
  <2> TAKE i \in 1 .. n
  <2>1. CASE i = n
    BY <1>2, <1>12, <2>1
  <2>2. CASE i \in 1 .. n - w
    <3>1. i \in 1 .. n - 1 /\ h + 1 + i <= n /\ h + 1 + i = w + i
      BY <1>1, <1>4, <2>2
    <3> QED
      BY <1>2, <1>10, <1>12, <2>2, <3>1
  <2>3. CASE i \in n - w + 1 .. n - 1
    <3>1. i \in 1 .. n - 1 /\ ~ (h + 1 + i <= n) /\ h + 1 + i - n = i - (n - w)
      BY <1>1, <1>4, <2>3
    <3> QED
      BY <1>2, <1>10, <1>12, <2>3, <3>1
  <2>4. i = n \/ i \in 1 .. n - w \/ i \in n - w + 1 .. n - 1
    OBVIOUS
  <2> QED
    BY <2>1, <2>2, <2>3, <2>4
<1>14. cola' = d
  BY <1>2, <1>12, <1>13, SeqEqual
<1>15. Rotar(p, w, y) = d
  BY <1>5, <1>6, <1>9, <1>11 DEF Rotar
<1> QED
  BY <1>1, <1>3, <1>4, <1>14, <1>15 DEF Paginas

-----------------------------------------------------------------------------
(* The choice *)

\* A page that goes before all but the one that was read is the victim, or the one
\* there would be without that page.
LEMMA DosVictimas ==
  ASSUME Tipos, NEW w \in Paginas,
         \A k \in Paginas \ {w} : ~ Leida(k) => Antes(algoritmo, inicial, w, k)
  PROVE  \/ w = Victima(algoritmo, inicial)
         \/ estorbo /\ Victima(algoritmo, inicial) = escrita /\ w = VictimaEntreLasDemas
<1>a. PICK n \in Nat \ {0} : n = N
  BY DEF Tipos
<1>b. PICK a, F : a = algoritmo /\ F = inicial
  OBVIOUS
<1>1. n = N /\ a = algoritmo /\ F = inicial
  BY <1>a, <1>b
<1>2. F \in [1 .. n -> Bits] /\ DOMAIN F = 1 .. n /\ w \in 1 .. n
  BY <1>1 DEF Tipos, Paginas
<1>3. PICK v : v = Victima(a, F)
  OBVIOUS
<1>4. v \in 1 .. n /\ \A k \in 1 .. n \ {v} : Antes(a, F, v, k)
  BY <1>2, <1>3, HayVictima DEF Gana
<1>5. \A k \in 1 .. n : Clase(a, F[k]) \in Nat
  BY <1>2, ClaseBits
<1>6. ASSUME v # w
      PROVE  estorbo /\ v = escrita /\ w = VictimaEntreLasDemas
  <2>1. Antes(a, F, v, w)
    BY <1>2, <1>4, <1>6
  <2>2. ~ Antes(a, F, w, v)
    BY <1>2, <1>4, <1>5, <2>1 DEF Antes
  <2>3. Leida(v)
    BY <1>1, <1>4, <1>6, <2>2 DEF Paginas
  <2>4. estorbo /\ v = escrita
    BY <2>3 DEF Leida
  <2>5. PICK m \in Nat : m = n - 1
    BY <1>1
  <2>6. PICK d : d = [k \in 1 .. m |-> IF k < v THEN k ELSE k + 1]
    OBVIOUS
  <2>7. \A k \in 1 .. m : /\ d[k] \in 1 .. n /\ d[k] # v /\ d[k] = IF k < v THEN k ELSE k + 1
    BY <1>4, <2>5, <2>6
  <2>8. PICK x \in 1 .. m : d[x] = w
    <3>1. CASE w < v
      <4>1. w \in 1 .. m
        BY <1>2, <1>4, <2>5, <3>1
      <4> QED
        BY <2>7, <3>1, <4>1
    <3>2. CASE ~ (w < v)
      <4>1. w - 1 \in 1 .. m /\ ~ (w - 1 < v) /\ w - 1 + 1 = w
        BY <1>2, <1>4, <1>6, <2>5, <3>2
      <4> QED
        BY <2>7, <4>1
    <3> QED
      BY <3>1, <3>2
  <2>9. PICK G : G = [k \in 1 .. m |-> F[d[k]]]
    OBVIOUS
  <2>10. G \in [1 .. m -> Bits]
    BY <1>2, <2>7, <2>9
  <2>11. Gana(a, G, x)
    <3> SUFFICES ASSUME NEW k \in 1 .. m, k # x PROVE Antes(a, G, x, k)
      BY <2>10 DEF Gana
    <3>1. d[k] # w /\ (w < d[k] => x < k)
      <4>1. PICK y \in 1 .. n : y = d[k]
        BY <2>7
      <4>2. /\ y = IF k < v THEN k ELSE k + 1
            /\ w = IF x < v THEN x ELSE x + 1
        BY <2>7, <2>8, <4>1
      <4>3. y # w /\ (w < y => x < k)
        BY <1>2, <1>4, <4>2
      <4> QED
        BY <4>1, <4>3
    <3>2. ~ Leida(d[k]) /\ d[k] \in Paginas
      BY <1>1, <2>4, <2>7 DEF Leida, Paginas
    <3>3. Antes(a, F, w, d[k])
      BY <1>1, <3>1, <3>2
    <3>4. G[x] = F[w] /\ G[k] = F[d[k]]
      BY <2>8, <2>9
    <3> QED
      BY <3>1, <3>3, <3>4 DEF Antes
  <2>12. Victima(a, G) = x
    BY <2>10, <2>11, EsVictima
  <2>13. VictimaEntreLasDemas = d[x]
    <3>1. d = [k \in 1 .. marcos_por_proceso - 1 |-> IF k < escrita THEN k ELSE k + 1]
      BY <1>1, <2>4, <2>5, <2>6 DEF N
    <3>2. DOMAIN d = 1 .. m
      BY <2>6
    <3>3. G = [k \in DOMAIN d |-> inicial[d[k]]]
      BY <1>1, <2>9, <3>2
    <3>4. VictimaEntreLasDemas = d[Victima(algoritmo, [k \in DOMAIN d |-> inicial[d[k]]])]
      BY <3>1 DEF VictimaEntreLasDemas
    <3> QED
      BY <1>1, <2>12, <3>3, <3>4
  <2> QED
    BY <2>4, <2>8, <2>13
<1> QED
  BY <1>1, <1>3, <1>6

\* The end of a search: the page at the head is the right one.
LEMMA Elegida ==
  ASSUME Tipos, SinTocar,
         NEW h \in 0 .. N - 1, Rotada(h), Reemplazar,
         \A k \in Paginas \ {h + 1} : ~ Leida(k) => Antes(algoritmo, inicial, h + 1, k),
         ~ estorbo => \A k \in Paginas :
           registro[k].uso = IF k \in Limpiadas(algoritmo, inicial) THEN 0 ELSE inicial[k].uso
  PROVE  Tipos' /\ ReemplazoCorrecto' /\ busca' = "nada"
<1>1. PICK n \in Nat \ {0}, w \in Nat : n = N /\ w = h + 1 /\ w \in 1 .. n
  BY DEF Tipos
<1>2. Head(cola) = w /\ Nueva = n + 1 /\ N = marcos_por_proceso
  BY <1>1, Gira DEF Nueva, N, Tipos
<1>3. /\ victima' = w
      /\ registro' = [registro EXCEPT ![w].modificado = 0, ![n + 1].uso = 1]
      /\ cola' = Append(Tail(cola), Nueva) /\ busca' = "nada"
      /\ UNCHANGED <<vuelta, estorbo, algoritmo, marcos_por_proceso, escrita, inicial>>
  BY <1>2 DEF Reemplazar, fijas
<1>4. N' = N
  BY <1>3 DEF N
<1>5. cola' = Rotar([k \in Paginas |-> k], w, Nueva)
  BY <1>1, <1>3, <1>4, GiraVictima
<1>6. DOMAIN inicial = 1 .. n /\ Paginas = 1 .. n
  BY <1>1 DEF Tipos, Paginas
<1>7. registro \in [1 .. n + 1 -> Bits] /\ w # n + 1
  BY <1>1 DEF Tipos
<1>8. /\ registro' \in [1 .. n + 1 -> Bits]
      /\ \A k \in 1 .. n : registro'[k] = [uso |-> registro[k].uso,
                                           modificado |-> IF k = w THEN 0 ELSE registro[k].modificado]
  <2>1. \A k \in 1 .. n + 1 : registro'[k] = IF k = w THEN [registro[k] EXCEPT !.modificado = 0]
                                  ELSE IF k = n + 1 THEN [registro[k] EXCEPT !.uso = 1] ELSE registro[k]
    BY <1>3, <1>7
  <2>2. registro' = [k \in 1 .. n + 1 |-> registro'[k]]
    BY <1>3, <1>7
  <2>3. ASSUME NEW r \in Bits
        PROVE  /\ [r EXCEPT !.modificado = 0] \in Bits /\ [r EXCEPT !.uso = 1] \in Bits
               /\ [r EXCEPT !.modificado = 0] = [uso |-> r.uso, modificado |-> 0]
               /\ r = [uso |-> r.uso, modificado |-> r.modificado]
    BY DEF Bits
  <2>4. \A k \in 1 .. n + 1 : registro[k] \in Bits /\ registro'[k] \in Bits
    <3> TAKE k \in 1 .. n + 1
    <3>1. PICK r : r = registro[k]
      OBVIOUS
    <3>2. r \in Bits
      BY <1>7, <3>1
    <3>3. \/ registro'[k] = [r EXCEPT !.modificado = 0] \/ registro'[k] = [r EXCEPT !.uso = 1]
          \/ registro'[k] = r
      BY <2>1, <3>1
    <3> QED
      BY <2>3, <3>1, <3>2, <3>3
  <2>5. registro' \in [1 .. n + 1 -> Bits]
    BY <2>2, <2>4
  <2>6. \A k \in 1 .. n : registro'[k] = [uso |-> registro[k].uso,
                                          modificado |-> IF k = w THEN 0 ELSE registro[k].modificado]
    <3> TAKE k \in 1 .. n
    <3>1. k \in 1 .. n + 1 /\ k # n + 1
      OBVIOUS
    <3>2. registro'[k] = IF k = w THEN [registro[k] EXCEPT !.modificado = 0] ELSE registro[k]
      BY <2>1, <3>1
    <3>3. registro[k] \in Bits
      BY <2>4, <3>1
    <3> QED
      BY <2>3, <3>2, <3>3
  <2> QED
    BY <2>5, <2>6
<1>9. Tipos'
  BY <1>1, <1>3, <1>4, <1>8 DEF Tipos, Paginas
<1>10. \/ w = Victima(algoritmo, inicial)
       \/ estorbo /\ Victima(algoritmo, inicial) = escrita /\ w = VictimaEntreLasDemas
  BY <1>1, <1>6, DosVictimas
<1>11. ~ estorbo =>
         \A k \in 1 .. n :
           registro'[k] = [uso |-> IF k \in Limpiadas(algoritmo, inicial) THEN 0 ELSE inicial[k].uso,
                           modificado |-> IF k = Victima(algoritmo, inicial) THEN 0 ELSE inicial[k].modificado]
  BY <1>6, <1>8, <1>10 DEF SinTocar
<1>12. /\ VictimaEntreLasDemas' = VictimaEntreLasDemas
       /\ Victima(algoritmo, inicial)' = Victima(algoritmo, inicial)
       /\ Limpiadas(algoritmo, inicial)' = Limpiadas(algoritmo, inicial) /\ Nueva' = Nueva
  BY <1>3 DEF VictimaEntreLasDemas, Nueva
<1>13. PICK v, d, L, y, p : /\ v = Victima(algoritmo, inicial) /\ d = VictimaEntreLasDemas
                           /\ L = Limpiadas(algoritmo, inicial) /\ y = Nueva
                           /\ p = [k \in DOMAIN inicial |-> k]
  OBVIOUS
<1>14. /\ v = Victima(algoritmo, inicial)' /\ d = VictimaEntreLasDemas'
       /\ L = Limpiadas(algoritmo, inicial)' /\ y = Nueva' /\ p = [k \in DOMAIN inicial' |-> k]
  BY <1>3, <1>12, <1>13
<1>15. DOMAIN inicial' = 1 .. n
  BY <1>3, <1>6
<1>16. victima' = v \/ (estorbo' /\ v = escrita' /\ victima' = d)
  BY <1>3, <1>10, <1>13
<1>17. \E k \in DOMAIN inicial' : k = victima' /\ cola' = Rotar(p, k, y)
  BY <1>1, <1>3, <1>5, <1>6, <1>13, <1>15
<1>18. ~ estorbo' =>
         \A k \in DOMAIN inicial' :
           registro'[k] = [uso |-> IF k \in L THEN 0 ELSE inicial'[k].uso,
                           modificado |-> IF k = v THEN 0 ELSE inicial'[k].modificado]
  BY <1>3, <1>11, <1>13, <1>15, Zenon
<1>19. ReemplazoCorrecto'
  BY <1>14, <1>16, <1>17, <1>18 DEF ReemplazoCorrecto
<1> QED
  BY <1>3, <1>9, <1>19

-----------------------------------------------------------------------------
(* A turn of the search *)

\* The page after the h first is the one that the search looks for.
Sirve(c, h) ==
  /\ registro[h + 1].uso = 0
  /\ algoritmo = "CLOCK-M" => registro[h + 1].modificado = IF c \in {0, 2} THEN 0 ELSE 1

LEMMA NEnteros ==
  ASSUME Tipos
  PROVE  N \in Nat \ {0} /\ \A k \in Paginas : k \in Nat /\ 0 < k /\ k <= N
BY DEF Tipos, Paginas

\* What the bits of a page say of its class, for every stage of the search.
LEMMA DeUnaPagina ==
  ASSUME Tipos, SinTocar, NEW k \in Paginas, NEW c \in 0 .. UltimaClase
  PROVE  /\ registro[k].uso \in {0, 1} /\ registro[k].modificado \in {0, 1}
         /\ inicial[k].uso \in {0, 1} /\ registro[k].modificado = inicial[k].modificado
         /\ ClaseDe(k) \in 0 .. 3
         /\ algoritmo = "CLOCK" => ClaseDe(k) = inicial[k].uso /\ c \in {0, 1}
         /\ algoritmo # "CLOCK" => /\ algoritmo = "CLOCK-M" /\ c \in 0 .. 3
                                   /\ ClaseDe(k) = 2 * inicial[k].uso + registro[k].modificado
<1>1. registro[k] \in Bits /\ inicial[k] \in Bits
  BY DEF Tipos, Paginas
<1>2. registro[k].modificado = inicial[k].modificado
  BY DEF SinTocar
<1>3. algoritmo \in {"CLOCK", "CLOCK-M"}
  BY DEF Tipos, Algoritmos
<1>4. PICK r \in Bits : r = inicial[k]
  BY <1>1
<1>5. /\ ClaseDe(k) \in 0 .. 3 /\ (algoritmo = "CLOCK" => ClaseDe(k) = r.uso)
      /\ (algoritmo # "CLOCK" => ClaseDe(k) = 2 * r.uso + r.modificado)
      /\ r.uso \in {0, 1} /\ r.modificado \in {0, 1}
  BY <1>4, ClaseBits DEF ClaseDe
<1>6. registro[k].uso \in {0, 1}
  BY <1>1 DEF Bits
<1> QED
  BY <1>2, <1>3, <1>4, <1>5, <1>6 DEF UltimaClase

\* The page that serves is of the class that is looked for, or of a lower one.
LEMMA ClaseSirve ==
  ASSUME Tipos, SinTocar, NEW c \in 0 .. UltimaClase, NEW h \in 0 .. N - 1, Etapa(c, h), Sirve(c, h)
  PROVE  ClaseDe(h + 1) <= c
<1>1. PICK w \in Paginas : w = h + 1
  BY DEF Paginas, Tipos
<1>2. w > Limpias(c, h) =>
         registro[w].uso = inicial[w].uso \/ (Leida(w) /\ registro[w].uso = 1)
  BY DEF Etapa
<1>3. registro[w].uso = 0 /\ (algoritmo = "CLOCK-M" => registro[w].modificado = IF c \in {0, 2} THEN 0 ELSE 1)
  BY <1>1 DEF Sirve
<1>4. CASE algoritmo = "CLOCK"
  <2>1. c = 0 => w > Limpias(c, h)
    BY <1>1, <1>4 DEF Limpias
  <2> QED
    BY <1>1, <1>2, <1>3, <1>4, <2>1, DeUnaPagina
<1>5. CASE algoritmo # "CLOCK"
  <2>1. c \in {0, 1} => w > Limpias(c, h)
    <3>1. N \in Nat \ {0} /\ w \in 1 .. N /\ w = h + 1
      BY <1>1, NEnteros DEF Paginas
    <3>2. Limpias(c, h) = IF c = 0 THEN 0 ELSE IF c = 1 THEN h ELSE N
      BY <1>5 DEF Limpias
    <3> QED
      BY <3>1, <3>2
  <2>2. c \in {0, 1} => inicial[w].uso = 0
    BY <1>2, <1>3, <2>1
  <2>3. /\ ClaseDe(w) = 2 * inicial[w].uso + registro[w].modificado /\ c \in 0 .. 3
        /\ inicial[w].uso \in {0, 1} /\ registro[w].modificado = IF c \in {0, 2} THEN 0 ELSE 1
    BY <1>3, <1>5, DeUnaPagina
  <2> QED
    BY <1>1, <2>2, <2>3
<1> QED
  BY <1>4, <1>5

\* The one that does not is of a higher class, or was read.
LEMMA ClaseNoSirve ==
  ASSUME Tipos, SinTocar, NEW c \in 0 .. UltimaClase, NEW h \in 0 .. N - 1, Etapa(c, h), ~ Sirve(c, h)
  PROVE  Leida(h + 1) \/ ClaseDe(h + 1) > c
<1>1. PICK w \in Paginas : w = h + 1
  BY DEF Paginas, Tipos
<1>2. SUFFICES ASSUME ~ Leida(w) PROVE ClaseDe(w) > c
  BY <1>1
<1>3. /\ ClaseDe(w) >= c
      /\ w <= Limpias(c, h) => registro[w].uso = 0
      /\ w > Limpias(c, h) => registro[w].uso = inicial[w].uso
  BY <1>2 DEF Etapa
<1>4. registro[w].uso # 0 \/ (algoritmo = "CLOCK-M" /\ registro[w].modificado # IF c \in {0, 2} THEN 0 ELSE 1)
  BY <1>1 DEF Sirve
<1>5. CASE algoritmo = "CLOCK"
  <2>1. (c = 0 => w > Limpias(c, h)) /\ (c = 1 => w <= Limpias(c, h))
    <3>1. N \in Nat \ {0} /\ w \in 1 .. N /\ w = h + 1
      BY <1>1, NEnteros DEF Paginas
    <3>2. Limpias(c, h) = IF c = 0 THEN h ELSE N
      BY <1>5 DEF Limpias
    <3> QED
      BY <3>1, <3>2
  <2> QED
    BY <1>3, <1>4, <1>5, <2>1, DeUnaPagina
<1>6. CASE algoritmo # "CLOCK"
  <2>1. (c \in {0, 1} => w > Limpias(c, h)) /\ (c \in {2, 3} => w <= Limpias(c, h))
    <3>1. N \in Nat \ {0} /\ w \in 1 .. N /\ w = h + 1
      BY <1>1, NEnteros DEF Paginas
    <3>2. Limpias(c, h) = IF c = 0 THEN 0 ELSE IF c = 1 THEN h ELSE N
      BY <1>6 DEF Limpias
    <3> QED
      BY <3>1, <3>2
  <2>2. /\ ClaseDe(w) = 2 * inicial[w].uso + registro[w].modificado /\ c \in 0 .. 3
        /\ inicial[w].uso \in {0, 1} /\ registro[w].modificado \in {0, 1} /\ registro[w].uso \in {0, 1}
    BY <1>6, DeUnaPagina
  <2>3. (c \in {0, 1} => registro[w].uso = inicial[w].uso) /\ (c \in {2, 3} => registro[w].uso = 0)
    BY <1>3, <2>1
  <2>4. registro[w].uso # 0 \/ registro[w].modificado # IF c \in {0, 2} THEN 0 ELSE 1
    BY <1>4
  <2> QED
    BY <1>3, <2>2, <2>3, <2>4
<1> QED
  BY <1>5, <1>6

\* The page that serves goes before the others, and the bits are those of Limpiadas.
LEMMA Acierta ==
  ASSUME Tipos, SinTocar, NEW c \in 0 .. UltimaClase, NEW h \in 0 .. N - 1, Etapa(c, h), Sirve(c, h)
  PROVE  /\ \A k \in Paginas \ {h + 1} : ~ Leida(k) => Antes(algoritmo, inicial, h + 1, k)
         /\ ~ estorbo => \A k \in Paginas :
              registro[k].uso = IF k \in Limpiadas(algoritmo, inicial) THEN 0 ELSE inicial[k].uso
<1>1. PICK w \in Paginas : w = h + 1
  BY DEF Paginas, Tipos
<1>2. ClaseDe(w) <= c /\ ClaseDe(w) \in 0 .. 3 /\ c \in 0 .. 3
  BY <1>1, ClaseSirve, DeUnaPagina DEF UltimaClase
<1>3. ASSUME NEW k \in Paginas \ {w}, ~ Leida(k)
      PROVE  Antes(algoritmo, inicial, w, k)
  <2>1. ClaseDe(k) >= c /\ (k <= h => ClaseDe(k) > c)
    BY <1>3 DEF Etapa
  <2>2. ClaseDe(k) \in 0 .. 3
    BY DeUnaPagina
  <2>3. k <= h \/ w < k
    BY <1>1 DEF Paginas
  <2>4. ClaseDe(w) < ClaseDe(k) \/ (ClaseDe(w) = ClaseDe(k) /\ w < k)
    BY <1>2, <2>1, <2>2, <2>3
  <2> QED
    BY <2>4 DEF Antes, ClaseDe
<1>4. ASSUME ~ estorbo
      PROVE  \A k \in Paginas :
               registro[k].uso = IF k \in Limpiadas(algoritmo, inicial) THEN 0 ELSE inicial[k].uso
  <2>1. \A k \in Paginas : ~ Leida(k)
    BY <1>4 DEF Leida
  <2>2. Victima(algoritmo, inicial) = w
    <3>1. inicial \in [1 .. N -> Bits] /\ N \in Nat
      BY DEF Tipos, Paginas
    <3>2. DOMAIN inicial = Paginas
      BY DEF Tipos
    <3>3. Gana(algoritmo, inicial, w)
      BY <1>3, <2>1, <3>2 DEF Gana
    <3> QED
      BY <3>1, <3>3, EsVictima
  <2>3. ClaseDe(w) = c
    BY <1>2, <2>1 DEF Etapa
  <2>4. PICK L : L = Limpiadas(algoritmo, inicial)
    OBVIOUS
  <2>5. L = IF inicial[w].uso = 1 THEN DOMAIN inicial
            ELSE IF algoritmo = "CLOCK" \/ inicial[w].modificado = 1 THEN 1 .. w - 1 ELSE {}
    BY <2>2, <2>4 DEF Limpiadas
  <2>6. DOMAIN inicial = Paginas
    BY DEF Tipos
  <2>7. \A k \in Paginas : k \in L <=> k <= Limpias(c, h)
    <3>1. CASE algoritmo = "CLOCK"
      <4>1. inicial[w].uso = c /\ c \in {0, 1}
        BY <2>3, <3>1, DeUnaPagina
      <4>2. Limpias(c, h) = IF c = 0 THEN h ELSE N
        BY <3>1 DEF Limpias
      <4> QED
        BY <1>1, <2>5, <2>6, <3>1, <4>1, <4>2 DEF Paginas, Tipos
    <3>2. CASE algoritmo # "CLOCK"
      <4>1. /\ c = 2 * inicial[w].uso + inicial[w].modificado
            /\ inicial[w].uso \in {0, 1} /\ inicial[w].modificado \in {0, 1}
        BY <2>3, <3>2, DeUnaPagina
      <4>2. Limpias(c, h) = IF c = 0 THEN 0 ELSE IF c = 1 THEN h ELSE N
        BY <3>2 DEF Limpias
      <4>3. /\ inicial[w].uso = 1 <=> c \in {2, 3}
            /\ inicial[w].uso # 1 => (inicial[w].modificado = 1 <=> c = 1) /\ (inicial[w].modificado # 1 <=> c = 0)
        BY <4>1
      <4>4. CASE c \in {2, 3}
        BY <2>5, <2>6, <4>2, <4>3, <4>4 DEF Paginas, Tipos
      <4>5. CASE c = 1
        BY <1>1, <2>5, <3>2, <4>2, <4>3, <4>5 DEF Paginas, Tipos
      <4>6. CASE c = 0
        BY <2>5, <3>2, <4>2, <4>3, <4>6 DEF Paginas, Tipos
      <4> QED
        BY <1>2, <4>4, <4>5, <4>6
    <3> QED
      BY <3>1, <3>2
  <2>8. \A k \in Paginas : /\ k <= Limpias(c, h) => registro[k].uso = 0
                           /\ k > Limpias(c, h) => registro[k].uso = inicial[k].uso
    BY <2>1 DEF Etapa
  <2>9. Limpias(c, h) \in Int
    BY DEF Limpias, Tipos
  <2>10. \A k \in Paginas : k \in Int
    BY DEF Paginas
  <2> QED
    BY <2>4, <2>7, <2>8, <2>9, <2>10
<1> QED
  BY <1>1, <1>3, <1>4

\* A turn without success is one more turn.
LEMMA UnoMas ==
  ASSUME Tipos, Tipos', SinTocar, NEW c \in 0 .. UltimaClase, NEW h \in 0 .. N - 1,
         Etapa(c, h), ~ Sirve(c, h), NEW u \in {0, 1},
         algoritmo = "CLOCK" \/ c \in {1, 3} => u = 0,
         algoritmo = "CLOCK-M" /\ c \in {0, 2} => u = registro[h + 1].uso,
         registro' = [registro EXCEPT ![h + 1].uso = u],
         UNCHANGED <<algoritmo, marcos_por_proceso, escrita, inicial, estorbo>>
  PROVE  SinTocar' /\ Etapa(c, h + 1)'
<1>a. PICK n \in Nat \ {0} : n = N
  BY DEF Tipos
<1>b. PICK w : w = h + 1
  OBVIOUS
<1>1. n = N /\ w = h + 1
  BY <1>a, <1>b
<1>2. w \in 1 .. n /\ h \in 0 .. n - 1 /\ N' = n /\ Paginas = 1 .. n /\ Paginas' = 1 .. n
  BY <1>1 DEF N, Paginas
<1>3. registro \in [1 .. n + 1 -> Bits]
  BY <1>1 DEF Tipos
<1>4. \A k \in 1 .. n : /\ registro'[k].modificado = registro[k].modificado
                        /\ registro'[k].uso = IF k = w THEN u ELSE registro[k].uso
  BY <1>1, <1>2, <1>3 DEF Bits
<1>5. SinTocar'
  BY <1>2, <1>4 DEF SinTocar
<1>6. Leida(w) \/ ClaseDe(w) > c
  BY <1>1, ClaseNoSirve
<1>7. \A k \in 1 .. n : (Leida(k)' <=> Leida(k)) /\ ClaseDe(k)' = ClaseDe(k)
  BY DEF Leida, ClaseDe
<1>8. Limpias(c, h + 1)' = Limpias(c, w)
  BY <1>1, <1>2 DEF Limpias
<1>9. \A k \in 1 .. n : Leida(k) \/ ClaseDe(k) >= c
  BY <1>2 DEF Etapa
<1>10. \A k \in 1 .. n : k <= w => Leida(k) \/ ClaseDe(k) > c
  <2> TAKE k \in 1 .. n
  <2>1. k <= w => k = w \/ k <= h
    BY <1>1, <1>2
  <2>2. k <= h => Leida(k) \/ ClaseDe(k) > c
    BY <1>2 DEF Etapa
  <2> QED
    BY <1>6, <2>1, <2>2
<1>11. PICK m : m = Limpias(c, h)
  OBVIOUS
<1>12. PICK l : l = Limpias(c, w)
  OBVIOUS
<1>13. /\ algoritmo = "CLOCK" => (c = 0 /\ m = h /\ l = w) \/ (c = 1 /\ m = n /\ l = n)
       /\ algoritmo # "CLOCK" => \/ c = 0 /\ m = 0 /\ l = 0
                                 \/ c = 1 /\ m = h /\ l = w
                                 \/ c \in {2, 3} /\ m = n /\ l = n
  BY <1>1, <1>11, <1>12 DEF Limpias, UltimaClase
<1>14. \A k \in 1 .. n : /\ k <= m => Leida(k) \/ registro[k].uso = 0
                         /\ k > m => registro[k].uso = inicial[k].uso \/ (Leida(k) /\ registro[k].uso = 1)
  BY <1>2, <1>11 DEF Etapa
<1>15. algoritmo \in {"CLOCK", "CLOCK-M"}
  BY DEF Tipos, Algoritmos
<1>16. registro[w].uso \in {0, 1}
  BY <1>2, <1>3 DEF Bits
<1>17. \A k \in 1 .. n : /\ k <= l => Leida(k) \/ registro'[k].uso = 0
                         /\ k > l => registro'[k].uso = inicial[k].uso \/ (Leida(k) /\ registro'[k].uso = 1)
  <2> TAKE k \in 1 .. n
  <2>1. CASE k # w
    <3>1. registro'[k].uso = registro[k].uso
      BY <1>4, <2>1
    <3>2. (k <= l => k <= m) /\ (k > l => k > m)
      BY <1>1, <1>2, <1>13, <1>15, <2>1
    <3> QED
      BY <1>14, <3>1, <3>2
  <2>2. CASE k = w
    <3>1. registro'[k].uso = u
      BY <1>4, <2>2
    <3>2. CASE u = 0 /\ l >= w
      BY <1>2, <1>13, <1>15, <2>2, <3>1, <3>2
    <3>3. CASE u = registro[w].uso /\ m = l
      BY <1>14, <2>2, <3>1, <3>3
    <3>4. (u = 0 /\ l >= w) \/ (u = registro[w].uso /\ m = l)
      BY <1>1, <1>2, <1>13, <1>15
    <3> QED
      BY <3>2, <3>3, <3>4
  <2> QED
    BY <2>1, <2>2
<1>18. inicial' = inicial
  OBVIOUS
<1>19. \A k \in Paginas' :
         /\ Leida(k)' \/ ClaseDe(k)' >= c
         /\ k <= h + 1 => Leida(k)' \/ ClaseDe(k)' > c
         /\ k <= Limpias(c, h + 1)' => Leida(k)' \/ registro'[k].uso = 0
         /\ k > Limpias(c, h + 1)' => registro'[k].uso = inicial'[k].uso \/ (Leida(k)' /\ registro'[k].uso = 1)
  <2> TAKE k \in Paginas'
  <2>1. k \in 1 .. n
    BY <1>2
  <2>2. (Leida(k)' <=> Leida(k)) /\ ClaseDe(k)' = ClaseDe(k)
    BY <1>7, <2>1
  <2>3. Limpias(c, h + 1)' = l
    BY <1>8, <1>12
  <2>4. /\ Leida(k) \/ ClaseDe(k) >= c
        /\ k <= w => Leida(k) \/ ClaseDe(k) > c
    BY <1>9, <1>10, <2>1
  <2>5. /\ k <= l => Leida(k) \/ registro'[k].uso = 0
        /\ k > l => registro'[k].uso = inicial[k].uso \/ (Leida(k) /\ registro'[k].uso = 1)
    BY <1>17, <2>1
  <2> QED
    BY <1>1, <1>18, <2>2, <2>3, <2>4, <2>5
<1>20. Etapa(c, h + 1)'
  BY <1>19 DEF Etapa
<1> QED
  BY <1>5, <1>20

\* After a whole pass the next class is looked for, unless the last page is being read.
LEMMA OtraPasada ==
  ASSUME Tipos, NEW c \in 0 .. UltimaClase, Etapa(c, N), Rotada(N)
  PROVE  Rotada(0) /\ (Sola \/ (c + 1 \in 0 .. UltimaClase /\ Etapa(c + 1, 0)))
<1>1. N \in Nat \ {0} /\ UltimaClase \in Nat
  BY NEnteros DEF UltimaClase
<1>2. Rotada(0)
  BY <1>1, Completa
<1>3. \A k \in Paginas : Leida(k) \/ ClaseDe(k) > c
  BY NEnteros DEF Etapa
<1>4. \A k \in Paginas : ClaseDe(k) \in 0 .. UltimaClase
  <2> TAKE k \in Paginas
  <2>1. PICK r \in Bits : r = inicial[k]
    BY DEF Tipos
  <2>2. /\ Clase(algoritmo, r) \in 0 .. 3 /\ (algoritmo = "CLOCK" => Clase(algoritmo, r) = r.uso)
        /\ r.uso \in {0, 1}
    BY ClaseBits
  <2> QED
    BY <2>1, <2>2 DEF ClaseDe, UltimaClase
<1>5. CASE c = UltimaClase
  <2>1. \A k \in Paginas : Leida(k)
    BY <1>1, <1>3, <1>4, <1>5
  <2>2. 1 \in Paginas /\ N \in Paginas
    BY <1>1 DEF Paginas
  <2>3. estorbo /\ escrita = 1 /\ escrita = N
    BY <2>1, <2>2 DEF Leida
  <2> QED
    BY <1>2, <2>3 DEF Sola
<1>6. CASE c # UltimaClase
  <2>1. c + 1 \in 0 .. UltimaClase
    BY <1>1, <1>6
  <2>2. Limpias(c + 1, 0) = Limpias(c, N)
    <3>1. c \in {0, 1, 2} /\ (algoritmo = "CLOCK" => c = 0)
      BY <1>6 DEF UltimaClase
    <3> QED
      BY <3>1 DEF Limpias
  <2>3. Etapa(c + 1, 0)
    <3> SUFFICES ASSUME NEW k \in Paginas
                 PROVE  /\ Leida(k) \/ ClaseDe(k) >= c + 1
                        /\ ~ (k <= 0)
                        /\ k <= Limpias(c + 1, 0) => Leida(k) \/ registro[k].uso = 0
                        /\ k > Limpias(c + 1, 0) =>
                             registro[k].uso = inicial[k].uso \/ (Leida(k) /\ registro[k].uso = 1)
      BY DEF Etapa
    <3>1. Leida(k) \/ ClaseDe(k) >= c + 1
      BY <1>1, <1>3, <1>4
    <3>2. ~ (k <= 0)
      BY NEnteros
    <3>3. /\ k <= Limpias(c, N) => Leida(k) \/ registro[k].uso = 0
          /\ k > Limpias(c, N) => registro[k].uso = inicial[k].uso \/ (Leida(k) /\ registro[k].uso = 1)
      BY DEF Etapa
    <3> QED
      BY <2>2, <3>1, <3>2, <3>3
  <2> QED
    BY <1>2, <2>1, <2>3
<1> QED
  BY <1>5, <1>6

\* The types are kept.
LEMMA PasoTipos ==
  ASSUME Tipos, Next
  PROVE  Tipos'
<1>1. PICK n \in Nat \ {0} : n = N
  BY DEF Tipos
<1>2. UNCHANGED <<algoritmo, marcos_por_proceso, escrita, inicial>>
  BY DEF Next, Buscar, EjecutarClock, Buscar_0_0, Buscar_0_1, Turno, Reemplazar, Pasar, Leer, fijas
<1>3. N' = n /\ Paginas' = Paginas /\ Nueva = n + 1
  BY <1>1, <1>2 DEF N, Paginas, Nueva
<1>4. registro \in [1 .. n + 1 -> Bits]
  BY <1>1 DEF Tipos
<1>5. registro' \in [1 .. n + 1 -> Bits]
  <2>1. ASSUME NEW x, NEW u \in {0, 1}, registro' = [registro EXCEPT ![x].uso = u]
        PROVE  registro' \in [1 .. n + 1 -> Bits]
    BY <1>4, <2>1 DEF Bits
  <2>2. CASE Leer
    BY <2>1, <2>2 DEF Leer
  <2>3. CASE Reemplazar
    BY <1>3, <1>4, <2>3, SMTT(40) DEF Reemplazar, Bits
  <2>4. CASE Pasar(0)
    BY <2>1, <2>4 DEF Pasar
  <2>5. CASE Pasar(Bit.uso)
    <3>1. CASE Head(cola) \in 1 .. n + 1
      <4>1. Bit.uso \in {0, 1}
        BY <1>4, <3>1 DEF Bit, Bits
      <4> QED
        BY <2>1, <2>5, <4>1 DEF Pasar
    <3>2. CASE Head(cola) \notin 1 .. n + 1
      <4>1. registro' = registro
        BY <1>4, <2>5, <3>2 DEF Pasar
      <4> QED
        BY <1>4, <4>1
    <3> QED
      BY <3>1, <3>2
  <2>6. CASE registro' = registro
    BY <1>4, <2>6
  <2> QED
    BY <2>2, <2>3, <2>4, <2>5, <2>6 DEF Next, Buscar, EjecutarClock, Buscar_0_0, Buscar_0_1, Turno
<1>6. vuelta' \in 0 .. n /\ vuelta \in 0 .. n
  BY <1>1 DEF Tipos, N, Next, Buscar, EjecutarClock, Buscar_0_0, Buscar_0_1, Turno, Reemplazar, Pasar, Leer
<1>7. busca' \in {"clock", "0_0", "0_1", "nada"}
  BY DEF Tipos, Next, Buscar, EjecutarClock, Buscar_0_0, Buscar_0_1, Turno, Reemplazar, Pasar, Leer
<1>8. estorbo' \in BOOLEAN
  BY DEF Tipos, Next, Buscar, EjecutarClock, Buscar_0_0, Buscar_0_1, Turno, Reemplazar, Pasar, Leer
<1> QED
  BY <1>1, <1>2, <1>3, <1>5, <1>6, <1>7, <1>8 DEF Tipos

\* The bits and the page at the head.
LEMMA LaCabeza ==
  ASSUME Tipos, NEW h \in 0 .. N - 1, Rotada(h)
  PROVE  /\ Head(cola) = h + 1 /\ Bit = registro[h + 1]
         /\ Bit = [uso |-> Bit.uso, modificado |-> Bit.modificado]
         /\ Bit.uso \in {0, 1} /\ Bit.modificado \in {0, 1}
<1>1. h + 1 \in 1 .. N + 1 /\ N \in Nat \ {0} /\ h + 1 \in Nat
  BY DEF Tipos
<1>2. Head(cola) = h + 1
  BY <1>1, Gira
<1>3. registro[h + 1] \in Bits
  BY <1>1 DEF Tipos
<1> QED
  BY <1>2, <1>3 DEF Bit, Bits

\* The search finds its page.
LEMMA PasoElige ==
  ASSUME Tipos, SinTocar, NEW c \in 0 .. UltimaClase, NEW h \in 0 .. N - 1,
         Rotada(h), Etapa(c, h), Sirve(c, h), Reemplazar
  PROVE  Invariante'
<1>1. Tipos' /\ ReemplazoCorrecto' /\ busca' = "nada"
  BY Acierta, Elegida
<1> QED
  BY <1>1 DEF Invariante, Buscando

\* It leaves one behind.
LEMMA PasoPasa ==
  ASSUME Tipos, Tipos', SinTocar, NEW c \in 0 .. UltimaClase, NEW h \in 0 .. N - 1,
         Recorre(c, h), busca # "nada", ~ Sirve(c, h), NEW u \in {0, 1},
         algoritmo = "CLOCK" \/ c \in {1, 3} => u = 0,
         algoritmo = "CLOCK-M" /\ c \in {0, 2} => u = Bit.uso,
         Pasar(u), busca' = busca, algoritmo = "CLOCK-M" => vuelta' = vuelta + 1
  PROVE  Invariante'
<1>1. Rotada(h) /\ Etapa(c, h) /\ N \in Nat \ {0}
  BY DEF Recorre, Tipos
<1>2. Head(cola) = h + 1 /\ Bit = registro[h + 1]
  BY <1>1, LaCabeza
<1>3. /\ registro' = [registro EXCEPT ![h + 1].uso = u] /\ cola' = Append(Tail(cola), Head(cola))
      /\ UNCHANGED <<algoritmo, marcos_por_proceso, escrita, inicial, estorbo>>
  BY <1>2 DEF Pasar, fijas
<1>4. N' = N
  BY <1>3 DEF N
<1>5. Rotada(h + 1)'
  BY <1>1, <1>3, <1>4, GiraUno
<1>6. SinTocar' /\ Etapa(c, h + 1)'
  BY <1>1, <1>2, <1>3, UnoMas
<1>7. busca' = BuscaDe(c)' /\ (algoritmo' = "CLOCK-M" => vuelta' = h + 1)
  BY <1>3 DEF Recorre, BuscaDe
<1>8. PICK g : g = h + 1
  OBVIOUS
<1>9. Recorre(c, g)'
  BY <1>5, <1>6, <1>7, <1>8 DEF Recorre
<1>10. g \in 0 .. N' /\ c \in 0 .. UltimaClase'
  BY <1>1, <1>3, <1>4, <1>8 DEF UltimaClase
<1>11. Buscando'
  BY <1>6, <1>9, <1>10 DEF Buscando
<1> QED
  BY <1>11 DEF Invariante, ReemplazoCorrecto

\* The only page of a process may be read without end.
LEMMA PasoSola ==
  ASSUME Tipos, Tipos', SinTocar, Sola, Buscar
  PROVE  Invariante'
<1>1. 0 \in 0 .. N - 1 /\ N \in Nat \ {0} /\ N = 1 /\ Rotada(0)
  BY DEF Sola
<1>2. CASE Reemplazar
  <2>1. \A k \in Paginas \ {0 + 1} : ~ Leida(k) => Antes(algoritmo, inicial, 0 + 1, k)
    BY <1>1 DEF Paginas
  <2>2. Tipos' /\ ReemplazoCorrecto' /\ busca' = "nada"
    <3>1. estorbo
      BY DEF Sola
    <3> QED
      BY <1>1, <1>2, <2>1, <3>1, Elegida
  <2> QED
    BY <2>2 DEF Invariante, Buscando
<1>3. ASSUME NEW u, Pasar(u), busca' # "nada"
      PROVE  Invariante'
  <2>1. /\ registro' = [registro EXCEPT ![1].uso = u] /\ cola' = Append(Tail(cola), Head(cola))
        /\ UNCHANGED <<algoritmo, marcos_por_proceso, escrita, inicial, estorbo>>
    <3>1. Head(cola) = 1
      <4>1. Head(cola) = 0 + 1 /\ 0 + 1 = 1
        BY <1>1, LaCabeza
      <4> QED
        BY <4>1
    <3> QED
      BY <1>3, <3>1 DEF Pasar, fijas
  <2>2. N' = N
    BY <2>1 DEF N
  <2>3. Rotada(0)'
    BY <1>1, <2>1, <2>2, GiraUno
  <2>4. Sola'
    BY <2>1, <2>2, <2>3 DEF Sola
  <2>5. SinTocar'
    <3>1. registro \in [1 .. 2 -> Bits] /\ Paginas = 1 .. 1 /\ Paginas' = 1 .. 1
      BY <1>1, <2>2 DEF Tipos, Paginas
    <3>2. registro'[1].modificado = registro[1].modificado
      BY <2>1, <3>1 DEF Bits
    <3> QED
      BY <2>1, <3>1, <3>2 DEF SinTocar
  <2> QED
    BY <1>3, <2>4, <2>5 DEF Invariante, Buscando, ReemplazoCorrecto
<1>4. ASSUME UNCHANGED <<cola, registro, estorbo, fijas>>, busca' # "nada"
      PROVE  Invariante'
  <2>1. Sola' /\ SinTocar'
    BY <1>4 DEF Sola, SinTocar, N, Paginas, Rotada, fijas
  <2> QED
    BY <1>4, <2>1 DEF Invariante, Buscando, ReemplazoCorrecto
<1> QED
  BY <1>2, <1>3, <1>4 DEF Buscar, EjecutarClock, Buscar_0_0, Buscar_0_1, Turno

\* A turn of the search.
LEMMA PasoBuscar ==
  ASSUME Invariante, Buscar
  PROVE  Invariante'
<1>1. Tipos /\ busca # "nada" /\ SinTocar
  BY DEF Invariante, Buscando, Buscar, EjecutarClock, Buscar_0_0, Buscar_0_1, Turno
<1>2. Tipos'
  BY <1>1, PasoTipos DEF Next
<1>3. SUFFICES ASSUME ~ Sola, NEW c \in 0 .. UltimaClase, NEW h \in 0 .. N, Recorre(c, h)
               PROVE  Invariante'
  BY <1>1, <1>2, PasoSola DEF Invariante, Buscando
<1>4. N \in Nat \ {0} /\ N = marcos_por_proceso /\ algoritmo \in {"CLOCK", "CLOCK-M"}
  BY <1>1 DEF Tipos, N, Algoritmos
<1>5. /\ busca = BuscaDe(c) /\ (algoritmo = "CLOCK-M" => vuelta = h)
      /\ Rotada(h) /\ Etapa(c, h)
  BY <1>3 DEF Recorre
<1>6. CASE algoritmo = "CLOCK"
  <2>1. EjecutarClock
    BY <1>5, <1>6 DEF BuscaDe, Buscar, Buscar_0_0, Buscar_0_1, Turno
  <2>2. ASSUME NEW d \in 0 .. UltimaClase, NEW g \in 0 .. N - 1, Recorre(d, g)
        PROVE  Invariante'
    <3>1. Rotada(g) /\ Etapa(d, g)
      BY <2>2 DEF Recorre
    <3>2. Sirve(d, g) <=> Bit.uso = 0
      BY <1>1, <1>6, <3>1, LaCabeza DEF Sirve
    <3>3. CASE Bit.uso = 0 /\ Reemplazar
      BY <1>1, <3>1, <3>2, <3>3, PasoElige
    <3>4. CASE Bit.uso = 1 /\ Pasar(0) /\ UNCHANGED <<busca, vuelta>>
      <4>1. 0 \in {0, 1} /\ ~ Sirve(d, g) /\ busca' = busca /\ Pasar(0)
        BY <3>2, <3>4
      <4> QED
        BY <1>1, <1>2, <1>6, <2>2, <4>1, PasoPasa
    <3> QED
      BY <2>1, <3>3, <3>4 DEF EjecutarClock
  <2>3. CASE h # N
    <3>1. h \in 0 .. N - 1
      BY <1>4, <2>3
    <3> QED
      BY <1>3, <2>2, <3>1
  <2>4. CASE h = N
    <3>1. Rotada(0) /\ c + 1 \in 0 .. UltimaClase /\ Etapa(c + 1, 0)
      BY <1>1, <1>3, <1>5, <2>4, OtraPasada
    <3>2. PICK d \in 0 .. UltimaClase : d = c + 1
      BY <3>1
    <3>3. Recorre(d, 0)
      BY <1>5, <1>6, <3>1, <3>2 DEF Recorre, BuscaDe
    <3>4. 0 \in 0 .. N - 1
      BY <1>4
    <3> QED
      BY <2>2, <3>3, <3>4
  <2> QED
    BY <2>3, <2>4
<1>7. CASE algoritmo = "CLOCK-M"
  <2>1. c \in 0 .. 3 /\ UltimaClase = 3
    BY <1>7 DEF UltimaClase
  <2>a. PICK sirve \in BOOLEAN :
          sirve <=> Bit = [uso |-> 0, modificado |-> IF c \in {0, 2} THEN 0 ELSE 1]
    OBVIOUS
  <2>b. PICK u, otra : /\ u = IF c \in {0, 2} THEN Bit.uso ELSE 0
                       /\ otra = IF c \in {0, 2} THEN "0_1" ELSE "0_0"
    OBVIOUS
  <2>2. /\ sirve <=> Bit = [uso |-> 0, modificado |-> IF c \in {0, 2} THEN 0 ELSE 1]
        /\ u = IF c \in {0, 2} THEN Bit.uso ELSE 0
        /\ otra = IF c \in {0, 2} THEN "0_1" ELSE "0_0"
        /\ Turno(busca, otra, sirve, u)
    <3>1. CASE c \in {0, 2}
      <4>1. busca = "0_0" /\ Buscar_0_0
        BY <1>5, <1>7, <3>1 DEF BuscaDe, Buscar, EjecutarClock, Buscar_0_1, Turno
      <4> QED
        BY <2>a, <2>b, <3>1, <4>1 DEF Buscar_0_0, Turno
    <3>2. CASE c \notin {0, 2}
      <4>1. busca = "0_1" /\ Buscar_0_1
        BY <1>5, <1>7, <3>2 DEF BuscaDe, Buscar, EjecutarClock, Buscar_0_0, Turno
      <4> QED
        BY <2>a, <2>b, <3>2, <4>1 DEF Buscar_0_1, Turno
    <3> QED
      BY <3>1, <3>2
  <2>3. CASE h = N
    <3>1. /\ busca' = otra /\ vuelta' = 0
          /\ UNCHANGED <<cola, registro, victima, estorbo, algoritmo, marcos_por_proceso, escrita, inicial>>
      BY <1>4, <1>5, <1>7, <2>2, <2>3 DEF Turno, fijas
    <3>2. Rotada(0) /\ c + 1 \in 0 .. UltimaClase /\ Etapa(c + 1, 0)
      BY <1>1, <1>3, <1>5, <2>3, OtraPasada
    <3>3. PICK d \in 0 .. UltimaClase : d = c + 1
      BY <3>2
    <3>4. otra = BuscaDe(d) /\ otra # "nada"
      BY <1>7, <2>1, <2>2, <3>3 DEF BuscaDe
    <3>5. Rotada(0)' /\ SinTocar'
      BY <1>1, <3>1, <3>2 DEF Rotada, SinTocar, N, Paginas
    <3>6. Etapa(d, 0)'
      BY <3>1, <3>2, <3>3 DEF Etapa, Leida, ClaseDe, Limpias, N, Paginas
    <3>7. Recorre(d, 0)'
      BY <1>7, <3>1, <3>4, <3>5, <3>6 DEF Recorre, BuscaDe
    <3>8. d \in 0 .. UltimaClase' /\ 0 \in 0 .. N'
      BY <1>4, <3>1 DEF UltimaClase, N
    <3>9. Buscando'
      BY <3>5, <3>7, <3>8 DEF Buscando
    <3> QED
      BY <1>2, <3>1, <3>4, <3>9 DEF Invariante, ReemplazoCorrecto
  <2>4. CASE h # N
    <3>1. h \in 0 .. N - 1 /\ vuelta # marcos_por_proceso
      BY <1>4, <1>5, <1>7, <2>4
    <3>2. /\ Bit = registro[h + 1] /\ Bit = [uso |-> Bit.uso, modificado |-> Bit.modificado]
          /\ Bit.uso \in {0, 1}
      BY <1>1, <1>5, <3>1, LaCabeza
    <3>3. Sirve(c, h) <=> sirve
      BY <1>7, <2>2, <3>2 DEF Sirve
    <3>4. CASE sirve /\ Reemplazar
      BY <1>1, <1>5, <3>1, <3>3, <3>4, PasoElige
    <3>5. CASE ~ sirve /\ Pasar(u) /\ vuelta' = vuelta + 1 /\ UNCHANGED busca
      <4>1. u \in {0, 1} /\ (c \in {1, 3} => u = 0) /\ (c \in {0, 2} => u = Bit.uso)
        BY <2>2, <3>2
      <4>2. ~ Sirve(c, h) /\ busca' = busca /\ Pasar(u) /\ vuelta' = vuelta + 1
        BY <3>3, <3>5
      <4> QED
        BY <1>1, <1>2, <1>3, <1>7, <3>1, <4>1, <4>2, PasoPasa
    <3> QED
      BY <2>2, <3>1, <3>4, <3>5 DEF Turno
  <2> QED
    BY <2>3, <2>4
<1> QED
  BY <1>4, <1>6, <1>7

\* A read between two turns.
LEMMA PasoLeer ==
  ASSUME Invariante, Leer
  PROVE  Invariante'
<1>1. Tipos /\ SinTocar
  BY DEF Invariante, Buscando, Leer
<1>2. Tipos'
  BY <1>1, PasoTipos DEF Next
<1>3. /\ busca # "nada" /\ registro' = [registro EXCEPT ![escrita].uso = 1] /\ estorbo' = TRUE
      /\ UNCHANGED <<cola, busca, vuelta, algoritmo, marcos_por_proceso, escrita, inicial>>
      /\ escrita # 0
  BY DEF Leer, fijas
<1>4. N' = N /\ Paginas' = Paginas /\ UltimaClase' = UltimaClase /\ \A h : Rotada(h)' <=> Rotada(h)
  BY <1>3 DEF N, Paginas, UltimaClase, Rotada
<1>5. PICK n \in Nat \ {0} : n = N
  BY <1>1 DEF Tipos
<1>6. registro \in [1 .. n + 1 -> Bits] /\ escrita \in 1 .. n /\ Paginas = 1 .. n
  BY <1>1, <1>3, <1>5 DEF Tipos, Paginas
<1>7. \A k \in 1 .. n : /\ registro'[k].modificado = registro[k].modificado
                        /\ registro'[k].uso = IF k = escrita THEN 1 ELSE registro[k].uso
  BY <1>3, <1>6 DEF Bits
<1>8. SinTocar'
  BY <1>1, <1>3, <1>4, <1>6, <1>7 DEF SinTocar
<1>9. CASE Sola
  BY <1>2, <1>3, <1>4, <1>8, <1>9 DEF Invariante, Buscando, ReemplazoCorrecto, Sola
<1>10. ASSUME NEW c \in 0 .. UltimaClase, NEW h \in 0 .. N, Recorre(c, h)
       PROVE  Recorre(c, h)'
  <2>1. Etapa(c, h)
    BY <1>10 DEF Recorre
  <2>2. \A k \in 1 .. n : (Leida(k)' <=> k = escrita) /\ ClaseDe(k)' = ClaseDe(k) /\ (Leida(k) => k = escrita)
    BY <1>3 DEF Leida, ClaseDe
  <2>3. PICK l : l = Limpias(c, h) /\ l = Limpias(c, h)'
    BY <1>3, <1>4 DEF Limpias
  <2>4. \A k \in Paginas' :
          /\ Leida(k)' \/ ClaseDe(k)' >= c
          /\ k <= h => Leida(k)' \/ ClaseDe(k)' > c
          /\ k <= l => Leida(k)' \/ registro'[k].uso = 0
          /\ k > l => registro'[k].uso = inicial'[k].uso \/ (Leida(k)' /\ registro'[k].uso = 1)
    <3> TAKE k \in Paginas'
    <3>1. k \in 1 .. n /\ k \in Paginas
      BY <1>4, <1>6
    <3>2. CASE k = escrita
      BY <1>7, <2>2, <3>1, <3>2
    <3>3. CASE k # escrita
      <4>1. ~ Leida(k) /\ registro'[k].uso = registro[k].uso /\ ClaseDe(k)' = ClaseDe(k)
        BY <1>7, <2>2, <3>1, <3>3
      <4>2. /\ ClaseDe(k) >= c /\ (k <= h => ClaseDe(k) > c)
            /\ k <= l => registro[k].uso = 0
            /\ k > l => registro[k].uso = inicial[k].uso
        BY <2>1, <2>3, <3>1, <4>1 DEF Etapa
      <4> QED
        BY <1>3, <4>1, <4>2
    <3> QED
      BY <3>2, <3>3
  <2>5. Etapa(c, h)'
    BY <2>3, <2>4 DEF Etapa
  <2>6. Rotada(h)'
    BY <1>4, <1>10 DEF Recorre
  <2> QED
    BY <1>3, <1>10, <2>5, <2>6 DEF Recorre, BuscaDe
<1>11. CASE ~ Sola
  <2>1. PICK c \in 0 .. UltimaClase, h \in 0 .. N : Recorre(c, h)
    BY <1>3, <1>11 DEF Invariante, Buscando
  <2>2. Recorre(c, h)' /\ c \in 0 .. UltimaClase' /\ h \in 0 .. N'
    BY <1>4, <1>10, <2>1
  <2>3. Buscando'
    BY <1>8, <2>2 DEF Buscando
  <2> QED
    BY <1>2, <1>3, <2>3 DEF Invariante, ReemplazoCorrecto
<1> QED
  BY <1>9, <1>11

LEMMA Comienzo ==
  ASSUME Init
  PROVE  Invariante
<1>1. MaxMarcos \in Nat /\ marcos_por_proceso \in 1 .. MaxMarcos
  BY ReemplazoAssumption DEF Init
<1>2. PICK n \in Nat \ {0} : n = marcos_por_proceso
  BY <1>1
<1>3. inicial \in [1 .. n -> Bits] /\ cola = [i \in 1 .. n |-> i]
  BY <1>2 DEF Init
<1>4. inicial \in Seq(Bits) /\ Len(inicial) = n
  BY <1>3, SeqDef, LenProperties
<1>5. PICK r : r = [uso |-> 0, modificado |-> 0]
  OBVIOUS
<1>6. r \in Bits
  BY <1>5 DEF Bits
<1>7. /\ registro \in Seq(Bits) /\ Len(registro) = n + 1
      /\ \A i \in 1 .. n : registro[i] = inicial[i]
  <2>1. registro = Append(inicial, r)
    BY <1>5 DEF Init
  <2> QED
    BY <1>4, <1>6, <2>1, AppendProperties
<1>8. registro \in [1 .. n + 1 -> Bits]
  <2>1. \A z \in Seq(Bits) : Len(z) = n + 1 => z \in [1 .. n + 1 -> Bits]
    BY LenProperties
  <2> QED
    BY <1>7, <2>1
<1>9. /\ algoritmo \in Algoritmos /\ busca = IF algoritmo = "CLOCK" THEN "clock" ELSE "0_0"
      /\ vuelta = 0 /\ escrita \in 0 .. n /\ estorbo = FALSE
  BY <1>2 DEF Init
<1>10. Tipos
  <2>1. N = n /\ Paginas = 1 .. n
    BY <1>2 DEF N, Paginas
  <2>2. busca \in {"clock", "0_0", "0_1", "nada"}
    BY <1>9
  <2>3. vuelta \in 0 .. n /\ estorbo \in BOOLEAN
    <3>1. 0 \in 0 .. n /\ vuelta = 0
      BY <1>9
    <3>2. estorbo \in BOOLEAN
      BY <1>9
    <3> QED
      BY <3>1, <3>2
  <2> QED
    BY <1>3, <1>8, <1>9, <2>1, <2>2, <2>3 DEF Tipos
<1>11. SinTocar
  BY <1>2, <1>7 DEF SinTocar, Paginas, N
<1>12. Rotada(0)
  <2>1. \A i \in 1 .. n : (IF 0 + i <= n THEN 0 + i ELSE 0 + i - n) = i
    OBVIOUS
  <2>2. cola = [i \in 1 .. n |-> IF 0 + i <= n THEN 0 + i ELSE 0 + i - n]
    BY <1>3, <2>1
  <2> QED
    BY <1>2, <2>2 DEF Rotada, Paginas, N
<1>13. Etapa(0, 0)
  <2> SUFFICES ASSUME NEW k \in Paginas
               PROVE  ClaseDe(k) >= 0 /\ ~ (k <= 0) /\ registro[k].uso = inicial[k].uso
                      /\ Limpias(0, 0) = 0
    BY DEF Etapa
  <2>1. k \in 1 .. n
    BY <1>2 DEF Paginas, N
  <2>2. PICK s \in Bits : s = inicial[k]
    BY <1>3, <2>1
  <2>3. Clase(algoritmo, s) \in 0 .. 3
    BY ClaseBits
  <2> QED
    BY <1>7, <2>1, <2>2, <2>3 DEF ClaseDe, Limpias
<1>14. Recorre(0, 0) /\ 0 \in 0 .. UltimaClase /\ 0 \in 0 .. N
  BY <1>2, <1>9, <1>12, <1>13 DEF Recorre, BuscaDe, UltimaClase, N
<1>15. Buscando
  BY <1>11, <1>14 DEF Buscando
<1>16. busca # "nada"
  BY <1>9
<1> QED
  BY <1>10, <1>15, <1>16 DEF Invariante, ReemplazoCorrecto

\* Whatever the frames per process, the bits of the pages and the reads of other
\* processes that come between two turns, ejecutar_clock, and ejecutar_clock_modificado
\* with buscar_registro_0_0 and buscar_registro_0_1, take the victim of Clock or, if a
\* read gave a page a second chance, the one there is without it; the rest of the queue
\* keeps its order and exactly the bits of Limpiadas are cleared (memoria.c:478-572).
THEOREM ReemplazoSiempreCorrecto == Spec => []ReemplazoCorrecto
<1>1. Invariante /\ [Next]_vars => Invariante'
  <2> SUFFICES ASSUME Invariante, [Next]_vars PROVE Invariante'
    OBVIOUS
  <2>1. CASE Next
    BY <2>1, PasoBuscar, PasoLeer DEF Next
  <2>2. CASE UNCHANGED vars
    <3>1. UNCHANGED <<algoritmo, marcos_por_proceso, cola, registro, busca, vuelta,
                      victima, escrita, inicial, estorbo>>
      BY <2>2 DEF vars
    <3>2. N' = N /\ Paginas' = Paginas /\ UltimaClase' = UltimaClase /\ Nueva' = Nueva
      BY <3>1 DEF N, Paginas, UltimaClase, Nueva
    <3>3. Tipos' /\ (Sola' <=> Sola) /\ (SinTocar' <=> SinTocar)
      BY <3>1, <3>2 DEF Invariante, Tipos, Sola, Rotada, SinTocar
    <3>4. \A c, h : Recorre(c, h)' <=> Recorre(c, h)
      BY <3>1, <3>2 DEF Recorre, BuscaDe, Rotada, Etapa, Leida, ClaseDe, Limpias
    <3>5. Buscando'
      BY <3>1, <3>2, <3>3, <3>4 DEF Invariante, Buscando
    <3>6. VictimaEntreLasDemas' = VictimaEntreLasDemas
      BY <3>1 DEF VictimaEntreLasDemas
    <3>7. ReemplazoCorrecto'
      BY <3>1, <3>2, <3>6 DEF Invariante, ReemplazoCorrecto
    <3> QED
      BY <3>3, <3>5, <3>7 DEF Invariante
  <2> QED
    BY <2>1, <2>2
<1>2. Invariante => ReemplazoCorrecto
  BY DEF Invariante
<1> QED
  BY <1>1, <1>2, Comienzo, PTL DEF Spec
=============================================================================
