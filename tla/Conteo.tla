------------------------------- MODULE Conteo -------------------------------
(***************************************************************************)
(* Facts about counting that the proofs of the components share: positions *)
(* of a sequence, injective correspondences, first elements.               *)
(***************************************************************************)
EXTENDS Integers, Sequences, FiniteSets, SequencesExt,
        FiniteSetTheorems, SequenceTheorems, WellFoundedInduction, TLAPS

\* The times x is in the sequence s.
Veces(s, x) == Cardinality({i \in DOMAIN s : s[i] = x})

LEMMA PosicionesFinitas ==
  ASSUME NEW S, NEW s \in Seq(S), NEW A \in SUBSET DOMAIN s
  PROVE  /\ IsFiniteSet(A) /\ Cardinality(A) \in Nat /\ Cardinality(A) <= Len(s)
<1>1. DOMAIN s = 1 .. Len(s) /\ Len(s) \in Nat
  BY LenProperties
<1>2. \A n \in Nat : IsFiniteSet(1 .. n) /\ Cardinality(1 .. n) = n
  <2> TAKE n \in Nat
  <2>1. /\ IsFiniteSet(1 .. n)
        /\ Cardinality(1 .. n) = IF 1 > n THEN 0 ELSE n - 1 + 1
    BY FS_Interval
  <2> QED
    BY <2>1
<1> QED
  BY <1>1, <1>2, FS_Subset, FS_CardinalityType

\* A set and its image by an injective function onto it.
LEMMA MismoTamano ==
  ASSUME NEW A, NEW B, IsFiniteSet(A), NEW f \in [A -> B],
         \A x, y \in A : f[x] = f[y] => x = y,
         \A z \in B : \E x \in A : f[x] = z
  PROVE  IsFiniteSet(B) /\ Cardinality(B) = Cardinality(A)
<1>1. f \in Bijection(A, B)
  BY DEF Bijection, Injection, Surjection, IsInjective
<1> QED
  BY <1>1, FS_Bijection DEF ExistsBijection

\* A set and its image by any function onto it.
LEMMA TamanoImagen ==
  ASSUME NEW A, NEW B, IsFiniteSet(A), NEW f \in [A -> B], \A z \in B : \E x \in A : f[x] = z
  PROVE  IsFiniteSet(B) /\ Cardinality(B) <= Cardinality(A)
<1>1. f \in Surjection(A, B)
  BY DEF Surjection
<1> QED
  BY <1>1, FS_Surjection

\* A finite set of naturals has a first element, and every set of them too.
LEMMA Primero ==
  ASSUME NEW A \in SUBSET Nat, A # {}
  PROVE  \E i \in A : \A j \in A : ~ (j < i)
<1> DEFINE R == {ss \in Nat \X Nat : ss[1] < ss[2]}
<1>1. IsWellFoundedOn(R, Nat)
  BY NatLessThanWellFounded DEF OpToRel
<1> HIDE DEF R
<1>2. \E i \in A : \A j \in A : ~ (<<j, i>> \in R)
  BY <1>1, WFMin
<1> QED
  BY <1>2 DEF R

LEMMA SumarUno ==
  ASSUME NEW A, IsFiniteSet(A), NEW B, NEW x, NEW condicion \in BOOLEAN,
         x \notin A, B = A \cup (IF condicion THEN {x} ELSE {})
  PROVE  /\ IsFiniteSet(B)
         /\ Cardinality(A) \in Nat
         /\ Cardinality(B) = Cardinality(A) + (IF condicion THEN 1 ELSE 0)
<1>1. Cardinality(A) \in Nat
  BY FS_CardinalityType
<1>2. CASE condicion
  <2>1. B = A \cup {x}
    BY <1>2
  <2> QED
    BY <1>1, <1>2, <2>1, FS_AddElement
<1>3. CASE ~ condicion
  BY <1>1, <1>3
<1> QED
  BY <1>2, <1>3

LEMMA VecesAgregar ==
  ASSUME NEW S, NEW s \in Seq(S), NEW e \in S, NEW x
  PROVE  /\ Veces(s, x) \in Nat
         /\ Veces(Append(s, e), x) = Veces(s, x) + (IF e = x THEN 1 ELSE 0)
<1> DEFINE A == {i \in DOMAIN s : s[i] = x}
           B == {i \in DOMAIN Append(s, e) : Append(s, e)[i] = x}
           c == e = x
<1>1. /\ Len(s) \in Nat /\ DOMAIN s = 1 .. Len(s)
      /\ DOMAIN Append(s, e) = 1 .. Len(s) + 1
      /\ \A k \in 1 .. Len(s) : Append(s, e)[k] = s[k]
      /\ Append(s, e)[Len(s) + 1] = e
  BY AppendProperties, LenProperties
<1>2. IsFiniteSet(A) /\ Len(s) + 1 \notin A
  BY <1>1, PosicionesFinitas
<1>3. B = A \cup (IF c THEN {Len(s) + 1} ELSE {})
  BY <1>1
<1> HIDE DEF A, B
<1>4. Cardinality(A) \in Nat /\ Cardinality(B) = Cardinality(A) + (IF c THEN 1 ELSE 0)
  BY <1>2, <1>3, SumarUno
<1> QED
  BY <1>4 DEF Veces, A, B

LEMMA VecesQuitar ==
  ASSUME NEW S, NEW s \in Seq(S), s # <<>>, NEW x
  PROVE  /\ Veces(s, x) \in Nat /\ Veces(Tail(s), x) \in Nat
         /\ Veces(s, x) = Veces(Tail(s), x) + (IF Head(s) = x THEN 1 ELSE 0)
<1> DEFINE A == {i \in DOMAIN Tail(s) : Tail(s)[i] = x}
           B == {i \in DOMAIN s : s[i] = x}
           C == B \ {1}
           f == [i \in A |-> i + 1]
           c == Head(s) = x
<1>1. /\ Len(s) \in Nat \ {0} /\ DOMAIN s = 1 .. Len(s) /\ Head(s) = s[1]
      /\ Tail(s) \in Seq(S) /\ DOMAIN Tail(s) = 1 .. Len(s) - 1
      /\ \A k \in 1 .. Len(s) - 1 : Tail(s)[k] = s[k + 1]
  BY EmptySeq, LenProperties, HeadTailProperties
<1>2. IsFiniteSet(A) /\ Cardinality(A) \in Nat
  BY <1>1, PosicionesFinitas
<1>3. IsFiniteSet(C) /\ Cardinality(C) = Cardinality(A)
  <2>1. f \in [A -> C]
    BY <1>1
  <2>2. \A i, j \in A : f[i] = f[j] => i = j
    BY <1>1
  <2>3. \A k \in C : k - 1 \in A /\ f[k - 1] = k
    BY <1>1
  <2>4. \A k \in C : \E i \in A : f[i] = k
    BY <2>3
  <2> HIDE DEF A, C, f
  <2> QED
    BY <1>2, <2>1, <2>2, <2>4, MismoTamano
<1>4. 1 \notin C /\ B = C \cup (IF c THEN {1} ELSE {})
  BY <1>1
<1> HIDE DEF A, B, C
<1>5. Cardinality(B) = Cardinality(C) + (IF c THEN 1 ELSE 0)
  BY <1>3, <1>4, SumarUno
<1>6. Veces(s, x) = Cardinality(B) /\ Veces(Tail(s), x) = Cardinality(A)
  BY DEF Veces, A, B
<1> QED
  BY <1>2, <1>3, <1>5, <1>6

\* In a sequence without repetitions, positions and elements count the same.
LEMMA ContarUnicos ==
  ASSUME NEW S, NEW s \in Seq(S), NEW I \in SUBSET DOMAIN s,
         \A i, j \in DOMAIN s : s[i] = s[j] => i = j
  PROVE  Cardinality(I) = Cardinality({s[i] : i \in I})
<1> DEFINE B == {s[i] : i \in I}
           f == [i \in I |-> s[i]]
<1>1. IsFiniteSet(I)
  BY PosicionesFinitas
<1>2. f \in [I -> B]
  OBVIOUS
<1>3. (\A i, j \in I : f[i] = f[j] => i = j) /\ \A z \in B : \E i \in I : f[i] = z
  OBVIOUS
<1> HIDE DEF f, B
<1> QED
  BY <1>1, <1>2, <1>3, MismoTamano DEF B
=============================================================================
