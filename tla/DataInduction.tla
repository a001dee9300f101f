--------------------------- MODULE DataInduction ---------------------------
(***************************************************************************)
(* What recursive definitions compute, for data of any size.               *)
(*                                                                         *)
(* Induction is stated over a set of naturals, so that a proof names the   *)
(* set {n \in Nat : P(n)} of the P it needs.  The lemmas after it unfold   *)
(* the recursive operators of the community modules the models use.        *)
(***************************************************************************)
EXTENDS Integers, SequencesExt, WellFoundedInduction, SequenceTheorems,
        FiniteSetTheorems, TLAPS

LEMMA NatSetInduction ==
  ASSUME NEW S, 0 \in S, \A n \in Nat : n \in S => n + 1 \in S
  PROVE  Nat \subseteq S
<1> DEFINE R == OpToRel(<, Nat)
           T == Nat \ S
<1>1. IsWellFoundedOn(R, Nat)
  BY NatLessThanWellFounded
<1>2. SUFFICES ASSUME T # {} PROVE FALSE
  OBVIOUS
<1>3. T \subseteq Nat
  OBVIOUS
<1>4. \A x, y \in Nat : <<y, x>> \in R <=> y < x
  BY DEF OpToRel
<1> HIDE DEF R, T
<1>5. PICK x \in T : \A y \in T : ~ (<<y, x>> \in R)
  BY <1>1, <1>2, <1>3, WFMin
<1>6. \A y \in T : ~ (y < x)
  BY <1>3, <1>4, <1>5
<1> QED
  BY <1>3, <1>5, <1>6 DEF T

---------------------------------------------------------------------------
(* FlattenSeq.                                                             *)

\* Joined one by one, from none to all.
LEMMA FlattenOneByOne ==
  ASSUME NEW V, NEW seqs \in Seq(Seq(V))
  PROVE  \E flat \in [0..Len(seqs) -> Seq(V)] :
           /\ flat[0] = <<>>
           /\ \A i \in 1..Len(seqs) : flat[i] = flat[i - 1] \o seqs[i]
           /\ FlattenSeq(seqs) = flat[Len(seqs)]
<1> DEFINE N == Len(seqs)
           Next(f, i) == IF i = 1 THEN seqs[i] ELSE f[i - 1] \o seqs[i]
           Flat(f, n) == f = [i \in 1..n |-> Next(f, i)]
           Some == {n \in Nat : \E f : Flat(f, n)}
<1>0. N \in Nat /\ \A i \in 1..N : seqs[i] \in Seq(V)
  OBVIOUS
<1>1. 0 \in Some
  <2>1. Flat([i \in 1..0 |-> <<>>], 0)
    OBVIOUS
  <2> QED BY <2>1
<1>2. ASSUME NEW n \in Nat, n \in Some  PROVE n + 1 \in Some
  <2>1. PICK f : Flat(f, n)
    BY <1>2
  <2> DEFINE g == [i \in 1..(n + 1) |-> IF i = n + 1 THEN Next(f, i) ELSE f[i]]
  <2>2. DOMAIN f = 1..n /\ \A i \in 1..n : f[i] = Next(f, i)
    BY <2>1
  <2>3. ASSUME NEW i \in 1..(n + 1)  PROVE g[i] = Next(g, i)
    <3>1. g[i] = Next(f, i)
      <4>1. CASE i = n + 1
        BY <4>1
      <4>2. CASE i \in 1..n
        <5>1. g[i] = f[i]
          BY <4>2
        <5> QED BY <2>2, <4>2, <5>1
      <4> QED BY <4>1, <4>2
    <3>2. i # 1 => g[i - 1] = f[i - 1]
      OBVIOUS
    <3> HIDE DEF g
    <3> QED BY <3>1, <3>2
  <2>4. Flat(g, n + 1)
    <3>1. g = [i \in 1..(n + 1) |-> g[i]]
      OBVIOUS
    <3> HIDE DEF g, Next
    <3> QED BY <2>3, <3>1
  <2> HIDE DEF g, Flat
  <2> QED BY <2>4
<1>3. N \in Some
  <2> HIDE DEF Some
  <2> QED BY <1>0, <1>1, <1>2, NatSetInduction
<1>4. PICK f : f = [i \in 1..N |-> Next(f, i)] /\ (N # 0 => FlattenSeq(seqs) = f[N])
  <2> DEFINE h == CHOOSE f : Flat(f, N)
  <2>1. Flat(h, N)
    BY <1>3
  <2>2. N # 0 => FlattenSeq(seqs) = h[N]
    BY Zenon DEF FlattenSeq
  <2> QED BY <2>1, <2>2
<1>5. \A i \in 1..N : f[i] = Next(f, i)
  BY <1>4
<1> DEFINE Typed == {n \in Nat : n \in 1..N => f[n] \in Seq(V)}
<1>6. 0 \in Typed
  OBVIOUS
<1>7. ASSUME NEW n \in Nat, n \in Typed  PROVE n + 1 \in Typed
  <2> SUFFICES ASSUME n + 1 \in 1..N  PROVE f[n + 1] \in Seq(V)
    OBVIOUS
  <2>1. f[n + 1] = Next(f, n + 1) /\ seqs[n + 1] \in Seq(V)
    BY <1>0, <1>5
  <2>2. CASE n = 0
    BY <2>1, <2>2
  <2>3. CASE n # 0
    <3>1. f[n] \in Seq(V) /\ f[n + 1] = f[n] \o seqs[n + 1]
      <4>1. n \in 1..N /\ n + 1 # 1 /\ (n + 1) - 1 = n
        BY <1>0, <2>3
      <4> QED BY <1>7, <2>1, <4>1
    <3> QED BY <2>1, <3>1
  <2> QED BY <2>2, <2>3
<1>8. \A i \in 1..N : f[i] \in Seq(V)
  <2>1. Nat \subseteq Typed
    <3> HIDE DEF Typed
    <3> QED BY <1>6, <1>7, NatSetInduction
  <2> QED BY <1>0, <2>1
<1> DEFINE flat == [i \in 0..N |-> IF i = 0 THEN <<>> ELSE f[i]]
<1>9. flat \in [0..N -> Seq(V)] /\ flat[0] = <<>>
  <2>1. <<>> \in Seq(V)
    OBVIOUS
  <2> QED BY <1>0, <1>8, <2>1
<1>10. ASSUME NEW i \in 1..N  PROVE flat[i] = flat[i - 1] \o seqs[i]
  <2>1. flat[i] = Next(f, i) /\ seqs[i] \in Seq(V)
    BY <1>0, <1>5
  <2>2. CASE i = 1
    <3>1. flat[i - 1] = <<>> /\ flat[i] = seqs[i]
      BY <1>9, <2>1, <2>2
    <3> QED BY <2>1, <3>1, ConcatEmptySeq
  <2>3. CASE i # 1
    <3>1. flat[i - 1] = f[i - 1]
      BY <1>0, <2>3
    <3> QED BY <2>1, <2>3, <3>1
  <2> QED BY <2>2, <2>3
<1>11. FlattenSeq(seqs) = flat[N]
  <2>1. CASE N = 0
    <3>1. FlattenSeq(seqs) = seqs /\ seqs = <<>>
      BY <2>1 DEF FlattenSeq
    <3> QED BY <1>9, <2>1, <3>1
  <2>2. CASE N # 0
    <3>1. flat[N] = f[N]
      BY <1>0, <2>2
    <3> QED BY <1>4, <2>2, <3>1
  <2> QED BY <2>1, <2>2
<1> HIDE DEF flat
<1> QED BY <1>9, <1>10, <1>11

---------------------------------------------------------------------------
(* Places in an order.                                                     *)

IsOrder(S, R) ==
  /\ \A x \in S : <<x, x>> \notin R
  /\ \A x, y, z \in S : <<x, y>> \in R /\ <<y, z>> \in R => <<x, z>> \in R
  /\ \A x, y \in S : x # y => <<x, y>> \in R \/ <<y, x>> \in R

UpTo(S, R, x) == {y \in S : y = x \/ <<y, x>> \in R}
PlaceIn(S, R, x) == Cardinality(UpTo(S, R, x))

\* The places of a finite ordered set count it from 1, in its order.
LEMMA PlacesCount ==
  ASSUME NEW S, IsFiniteSet(S), NEW R, IsOrder(S, R)
  PROVE  /\ Cardinality(S) \in Nat
         /\ \A x \in S : PlaceIn(S, R, x) \in 1..Cardinality(S)
         /\ \A x, y \in S : <<x, y>> \in R => PlaceIn(S, R, x) < PlaceIn(S, R, y)
         /\ \A x, y \in S : PlaceIn(S, R, x) = PlaceIn(S, R, y) => x = y
         /\ \A k \in 1..Cardinality(S) : \E x \in S : PlaceIn(S, R, x) = k
<1>1. Cardinality(S) \in Nat
  BY FS_CardinalityType
<1>2. ASSUME NEW x \in S
      PROVE  IsFiniteSet(UpTo(S, R, x)) /\ PlaceIn(S, R, x) \in 1..Cardinality(S)
  <2>1. UpTo(S, R, x) \subseteq S /\ UpTo(S, R, x) # {}
    BY DEF UpTo
  <2>2. IsFiniteSet(UpTo(S, R, x)) /\ Cardinality(UpTo(S, R, x)) <= Cardinality(S)
    BY <2>1, FS_Subset
  <2>3. Cardinality(UpTo(S, R, x)) \in Nat /\ Cardinality(UpTo(S, R, x)) # 0
    BY <2>1, <2>2, FS_CardinalityType, FS_EmptySet
  <2> QED BY <1>1, <2>2, <2>3 DEF PlaceIn
<1>3. ASSUME NEW x \in S, NEW y \in S, <<x, y>> \in R
      PROVE  PlaceIn(S, R, x) < PlaceIn(S, R, y)
  <2>1. UpTo(S, R, x) \subseteq UpTo(S, R, y)
    BY <1>3 DEF UpTo, IsOrder
  <2>2. <<y, x>> \notin R /\ x # y
    BY <1>3 DEF IsOrder
  <2>3. y \in UpTo(S, R, y) /\ y \notin UpTo(S, R, x)
    BY <2>2 DEF UpTo
  <2>4. UpTo(S, R, x) # UpTo(S, R, y)
    BY <2>3
  <2>5. /\ Cardinality(UpTo(S, R, x)) <= Cardinality(UpTo(S, R, y))
        /\ Cardinality(UpTo(S, R, x)) # Cardinality(UpTo(S, R, y))
    BY <1>2, <2>1, <2>4, FS_Subset
  <2>6. PlaceIn(S, R, x) \in Int /\ PlaceIn(S, R, y) \in Int
    BY <1>1, <1>2
  <2> QED BY <2>5, <2>6 DEF PlaceIn
<1>4. ASSUME NEW x \in S, NEW y \in S, PlaceIn(S, R, x) = PlaceIn(S, R, y)
      PROVE  x = y
  <2>1. PlaceIn(S, R, x) \in Int /\ ~(PlaceIn(S, R, x) < PlaceIn(S, R, y))
        /\ ~(PlaceIn(S, R, y) < PlaceIn(S, R, x))
    BY <1>1, <1>2, <1>4
  <2>2. <<x, y>> \notin R /\ <<y, x>> \notin R
    BY <1>3, <2>1
  <2> QED BY <2>2 DEF IsOrder
<1>5. ASSUME NEW k \in 1..Cardinality(S)
      PROVE  \E x \in S : PlaceIn(S, R, x) = k
  <2> DEFINE N == 1..Cardinality(S)
             place == [x \in S |-> PlaceIn(S, R, x)]
  <2>1. IsFiniteSet(N) /\ Cardinality(N) = Cardinality(S)
    BY <1>1, FS_Interval
  <2>2. place \in Injection(S, N)
    BY <1>2, <1>4 DEF Injection, IsInjective
  <2>3. place \in Surjection(S, N)
    BY <2>1, <2>2, FS_Injection
  <2> QED BY <2>3 DEF Surjection
<1> QED BY <1>1, <1>2, <1>3, <1>4, <1>5

\* A set listed without repetition, and its size.
LEMMA ListedOnce ==
  ASSUME NEW n \in Nat, NEW S, NEW f \in [1..n -> S],
         \A i, j \in 1..n : f[i] = f[j] => i = j,
         \A x \in S : \E i \in 1..n : f[i] = x
  PROVE  IsFiniteSet(S) /\ Cardinality(S) = n
<1>1. f \in Bijection(1..n, S)
  BY DEF Bijection, Injection, Surjection, IsInjective
<1>2. IsFiniteSet(1..n) /\ Cardinality(1..n) = n
  BY FS_Interval
<1> QED BY <1>1, <1>2, FS_Bijection DEF ExistsBijection

---------------------------------------------------------------------------
(* FoldLeft, which takes the greatest index last.                          *)

LEMMA MaxOfInterval ==
  ASSUME NEW n \in Nat, NEW T \in SUBSET (1..(n + 1)), n + 1 \in T
  PROVE  Max(T) = n + 1
<1>1. \A y \in T : n + 1 >= y
  OBVIOUS
<1>2. \A x \in T : (\A y \in T : x >= y) => x = n + 1
  OBVIOUS
<1> QED BY <1>1, <1>2 DEF Max
=============================================================================
