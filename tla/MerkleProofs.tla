---------------------------- MODULE MerkleProofs ----------------------------
(***************************************************************************)
(* The Merkle range of any size: the peaks are perfect trees over the      *)
(* binary digits of the leaf count, a root stands for one list of leaves,  *)
(* every leaf has a proof that shows it and nothing else, and a proof      *)
(* lives as long as its mountain.                                          *)
(*                                                                         *)
(* The loops of the code are recursive functions.  What each one computes  *)
(* is found by induction over its rounds: a lemma "...Unfolds" first says  *)
(* that the function exists, after which its equations can be used.        *)
(***************************************************************************)
EXTENDS MerkleRange, DataInduction

---------------------------------------------------------------------------
(* Division.                                                               *)

\* A number is its quotient times the divisor, and the rest.
LEMMA DivMod ==
  ASSUME NEW n \in Nat, NEW p \in Nat, p > 0
  PROVE  /\ n \div p \in Nat /\ n % p \in 0..(p - 1)
         /\ n = ((n \div p) * p) + (n % p)
OBVIOUS

\* There is one such quotient and one such rest.
LEMMA DivModUnique ==
  ASSUME NEW q \in Nat, NEW r \in Nat, NEW p \in Nat, r < p
  PROVE  /\ ((q * p) + r) \div p = q
         /\ ((q * p) + r) % p = r
OBVIOUS

\* To divide by twice as much is to halve the quotient.
LEMMA DivTwice ==
  ASSUME NEW n \in Nat, NEW p \in Nat, p > 0
  PROVE  n \div (2 * p) = (n \div p) \div 2
OBVIOUS

---------------------------------------------------------------------------
(* Powers of two.                                                          *)

\* The equations of Pow2.
LEMMA Pow2Unfolds ==
  /\ Pow2[0] = 1
  /\ \A b \in Nat : Pow2[b + 1] = 2 * Pow2[b]
<1> DEFINE Next(f, b) == IF b = 0 THEN 1 ELSE 2 * f[b - 1]
           Some == {n \in Nat : \E f : f = [b \in 0..n |-> Next(f, b)]}
           upTo[n \in Nat] == CHOOSE f : f = [b \in 0..n |-> Next(f, b)]
           all == [b \in Nat |-> upTo[b][b]]
<1>1. 0 \in Some
  <2> DEFINE f == [b \in 0..0 |-> 1]
  <2>1. f = [b \in 0..0 |-> Next(f, b)]
    OBVIOUS
  <2> HIDE DEF f
  <2> QED BY <2>1
<1>2. ASSUME NEW n \in Nat, n \in Some  PROVE n + 1 \in Some
  <2>1. PICK f : f = [b \in 0..n |-> Next(f, b)]
    BY <1>2
  <2> DEFINE g == [b \in 0..(n + 1) |-> IF b = n + 1 THEN 2 * f[n] ELSE f[b]]
  <2>2. ASSUME NEW b \in 0..(n + 1)  PROVE g[b] = Next(g, b)
    <3>1. b # n + 1 => f[b] = Next(f, b)
      BY <2>1
    <3> QED BY <3>1
  <2>3. g = [b \in 0..(n + 1) |-> g[b]]
    OBVIOUS
  <2> HIDE DEF g, Next
  <2>4. g = [b \in 0..(n + 1) |-> Next(g, b)]
    BY <2>2, <2>3
  <2> QED BY <2>4
<1>3. ASSUME NEW n \in Nat
      PROVE  upTo[n] = [b \in 0..n |-> Next(upTo[n], b)]
  <2>1. n \in Some
    <3> HIDE DEF Some
    <3> QED BY <1>1, <1>2, NatSetInduction
  <2>2. \E f : f = [b \in 0..n |-> Next(f, b)]
    BY <2>1
  <2> QED BY <2>2
<1>4. \A n \in Nat : \A b \in 0..n : upTo[n][b] = Next(upTo[n], b)
  <2> HIDE DEF upTo, Next
  <2> QED BY <1>3
<1> HIDE DEF upTo
<1>5. ASSUME NEW n \in Nat  PROVE \A b \in Nat : b <= n => upTo[n][b] = upTo[n + 1][b]
  <2> DEFINE Same == {b \in Nat : b <= n => upTo[n][b] = upTo[n + 1][b]}
  <2>1. 0 \in Same
    BY <1>4
  <2>2. ASSUME NEW b \in Nat, b \in Same  PROVE b + 1 \in Same
    BY <1>4, <2>2
  <2> HIDE DEF Same
  <2>3. Nat \subseteq Same
    BY <2>1, <2>2, NatSetInduction
  <2> QED BY <2>3 DEF Same
<1>6. ASSUME NEW b \in Nat  PROVE all[b] = Next(all, b)
  <2>1. upTo[b][b] = Next(upTo[b], b)
    BY <1>4
  <2>2. b # 0 => upTo[b][b - 1] = upTo[b - 1][b - 1]
    BY <1>5, b # 0 => b - 1 \in Nat /\ (b - 1) + 1 = b
  <2> QED BY <2>1, <2>2
<1>7. all = [b \in Nat |-> Next(all, b)]
  <2>1. all = [b \in Nat |-> all[b]]
    OBVIOUS
  <2> HIDE DEF all, Next
  <2> QED BY <1>6, <2>1
<1>8. Pow2 = [b \in Nat |-> Next(Pow2, b)]
  <2> HIDE DEF all
  <2>1. \E f : f = [b \in Nat |-> IF b = 0 THEN 1 ELSE 2 * f[b - 1]]
    BY <1>7
  <2> QED BY <2>1, Zenon DEF Pow2
<1>9. \A b \in Nat : Pow2[b] = Next(Pow2, b)
  <2> HIDE DEF Next
  <2> QED BY <1>8
<1> QED BY <1>9

\* A power of two is above its exponent, and the next one is twice as large.
LEMMA Pow2Grows ==
  /\ \A b \in Nat : Pow2[b] \in Nat /\ Pow2[b] > b
  /\ \A b, c \in Nat : b < c => 2 * Pow2[b] <= Pow2[c]
<1> DEFINE P == {b \in Nat : Pow2[b] \in Nat /\ Pow2[b] > b}
<1>1. 0 \in P /\ \A b \in Nat : b \in P => b + 1 \in P
  BY Pow2Unfolds
<1>2. \A b \in Nat : Pow2[b] \in Nat /\ Pow2[b] > b
  <2> HIDE DEF P
  <2>1. Nat \subseteq P
    BY <1>1, NatSetInduction
  <2> QED BY <2>1 DEF P
<1>3. ASSUME NEW b \in Nat  PROVE \A c \in Nat : b < c => 2 * Pow2[b] <= Pow2[c]
  <2> DEFINE Q == {c \in Nat : b < c => 2 * Pow2[b] <= Pow2[c]}
  <2>1. 0 \in Q
    OBVIOUS
  <2>2. ASSUME NEW c \in Nat, c \in Q  PROVE c + 1 \in Q
    <3>1. Pow2[c + 1] = 2 * Pow2[c] /\ Pow2[c] \in Nat /\ Pow2[b] \in Nat
      BY <1>2, Pow2Unfolds
    <3>2. CASE b = c
      BY <3>1, <3>2
    <3>3. CASE b # c
      BY <2>2, <3>1, <3>3
    <3> QED BY <3>2, <3>3
  <2> HIDE DEF Q
  <2>3. Nat \subseteq Q
    BY <2>1, <2>2, NatSetInduction
  <2> QED BY <2>3 DEF Q
<1> QED BY <1>2, <1>3

---------------------------------------------------------------------------
(* The walk from mountain to mountain.                                     *)

\* The doubling loop stops at the largest power of two that is not above the limit.
LEMMA DoubledIsLargest ==
  ASSUME NEW limit \in Nat \ {0}
  PROVE  \E b \in 0..limit : /\ DoubledUpTo(limit) = Pow2[b]
                             /\ Pow2[b] <= limit
                             /\ limit < 2 * Pow2[b]
<1> DEFINE Next(f, k) == IF k = 0 THEN 1
                         ELSE IF f[k - 1] * 2 <= limit THEN f[k - 1] * 2 ELSE f[k - 1]
           Some == {n \in Nat : \E f : f = [k \in 0..n |-> Next(f, k)]}
           size == CHOOSE f : f = [k \in 0..limit |-> Next(f, k)]
<1>1. 0 \in Some
  <2> DEFINE f == [k \in 0..0 |-> 1]
  <2>1. f = [k \in 0..0 |-> Next(f, k)]
    OBVIOUS
  <2> HIDE DEF f
  <2> QED BY <2>1
<1>2. ASSUME NEW n \in Nat, n \in Some  PROVE n + 1 \in Some
  <2>1. PICK f : f = [k \in 0..n |-> Next(f, k)]
    BY <1>2
  <2> DEFINE g == [k \in 0..(n + 1) |-> IF k = n + 1 THEN Next(f, k) ELSE f[k]]
  <2>2. ASSUME NEW k \in 0..(n + 1)  PROVE g[k] = Next(g, k)
    <3>1. g[k] = Next(f, k)
      <4> HIDE DEF Next
      <4>1. k # n + 1 => f[k] = Next(f, k)
        BY <2>1
      <4> QED BY <4>1
    <3>2. k # 0 => g[k - 1] = f[k - 1]
      OBVIOUS
    <3> HIDE DEF g
    <3> QED BY <3>1, <3>2
  <2>3. g = [k \in 0..(n + 1) |-> g[k]]
    OBVIOUS
  <2> HIDE DEF g, Next
  <2>4. g = [k \in 0..(n + 1) |-> Next(g, k)]
    BY <2>2, <2>3
  <2> QED BY <2>4
<1>3. size = [k \in 0..limit |-> Next(size, k)]
  <2>1. limit \in Some
    <3> HIDE DEF Some
    <3> QED BY <1>1, <1>2, NatSetInduction
  <2>2. \E f : f = [k \in 0..limit |-> Next(f, k)]
    BY <2>1
  <2> QED BY <2>2
<1>4. DoubledUpTo(limit) = size[limit]
  BY Zenon DEF DoubledUpTo
<1>5. \A k \in 0..limit : size[k] = Next(size, k)
  <2> HIDE DEF size, Next
  <2> QED BY <1>3
<1> HIDE DEF size
<1> DEFINE P == {k \in Nat : k <= limit =>
                   \E b \in 0..k : /\ size[k] = Pow2[b]
                                   /\ Pow2[b] <= limit
                                   /\ b = k \/ limit < 2 * Pow2[b]}
<1>6. 0 \in P
  BY <1>5, Pow2Unfolds
<1>7. ASSUME NEW k \in Nat, k \in P  PROVE k + 1 \in P
  <2> SUFFICES ASSUME k + 1 <= limit
               PROVE  \E b \in 0..(k + 1) : /\ size[k + 1] = Pow2[b]
                                            /\ Pow2[b] <= limit
                                            /\ b = k + 1 \/ limit < 2 * Pow2[b]
    OBVIOUS
  <2>1. PICK b \in 0..k : /\ size[k] = Pow2[b]
                          /\ Pow2[b] <= limit
                          /\ b = k \/ limit < 2 * Pow2[b]
    BY <1>7
  <2>2. size[k + 1] = Next(size, k + 1) /\ (k + 1) - 1 = k /\ k + 1 # 0
    BY <1>5
  <2>3. Pow2[b] \in Nat /\ Pow2[b + 1] = 2 * Pow2[b]
    BY Pow2Grows, Pow2Unfolds
  <2>4. CASE Pow2[b] * 2 <= limit
    <3>1. size[k + 1] = Pow2[b + 1] /\ b = k /\ b + 1 \in 0..(k + 1)
      BY <2>1, <2>2, <2>3, <2>4
    <3> QED BY <2>3, <2>4, <3>1
  <2>5. CASE ~ (Pow2[b] * 2 <= limit)
    <3>1. size[k + 1] = Pow2[b] /\ limit < 2 * Pow2[b] /\ b \in 0..(k + 1)
      BY <2>1, <2>2, <2>3, <2>5
    <3> QED BY <2>1, <3>1
  <2> QED BY <2>4, <2>5
<1>8. limit \in P
  <2> HIDE DEF P
  <2> QED BY <1>6, <1>7, NatSetInduction
<1>9. PICK b \in 0..limit : /\ size[limit] = Pow2[b]
                            /\ Pow2[b] <= limit
                            /\ b = limit \/ limit < 2 * Pow2[b]
  BY <1>8
<1>10. b # limit
  BY <1>9, Pow2Grows
<1> QED BY <1>4, <1>9, <1>10

\* Where the walk goes.
LEMMA OffsetsUnfold ==
  ASSUME NEW n \in Nat
  PROVE  /\ Offsets(n) \in [0..n -> 0..n]
         /\ Offsets(n)[0] = 0
         /\ \A k \in 1..n : Offsets(n)[k] = IF Offsets(n)[k - 1] < n
                                            THEN Offsets(n)[k - 1] + MountainSize(n - Offsets(n)[k - 1])
                                            ELSE Offsets(n)[k - 1]
<1> DEFINE On(offset) == IF offset < n THEN offset + MountainSize(n - offset) ELSE offset
           Next(f, k) == IF k = 0 THEN 0 ELSE On(f[k - 1])
           Some == {m \in Nat : \E f : f = [k \in 0..m |-> Next(f, k)]}
           at == CHOOSE f : f = [k \in 0..n |-> Next(f, k)]
<1>1. 0 \in Some
  <2> DEFINE f == [k \in 0..0 |-> 0]
  <2>1. f = [k \in 0..0 |-> Next(f, k)]
    OBVIOUS
  <2> HIDE DEF f
  <2> QED BY <2>1
<1>2. ASSUME NEW m \in Nat, m \in Some  PROVE m + 1 \in Some
  <2>1. PICK f : f = [k \in 0..m |-> Next(f, k)]
    BY <1>2
  <2> DEFINE g == [k \in 0..(m + 1) |-> IF k = m + 1 THEN Next(f, k) ELSE f[k]]
  <2>2. ASSUME NEW k \in 0..(m + 1)  PROVE g[k] = Next(g, k)
    <3>1. g[k] = Next(f, k)
      <4> HIDE DEF Next
      <4>1. k # m + 1 => f[k] = Next(f, k)
        BY <2>1
      <4> QED BY <4>1
    <3>2. k # 0 => g[k - 1] = f[k - 1]
      OBVIOUS
    <3> HIDE DEF g, On
    <3>3. Next(g, k) = Next(f, k)
      BY <3>2, Zenon
    <3> HIDE DEF Next
    <3> QED BY <3>1, <3>3
  <2>3. g = [k \in 0..(m + 1) |-> g[k]]
    OBVIOUS
  <2> HIDE DEF g, Next
  <2>4. g = [k \in 0..(m + 1) |-> Next(g, k)]
    BY <2>2, <2>3
  <2> QED BY <2>4
<1>3. at = [k \in 0..n |-> Next(at, k)]
  <2>1. n \in Some
    <3> HIDE DEF Some
    <3> QED BY <1>1, <1>2, NatSetInduction
  <2>2. \E f : f = [k \in 0..n |-> Next(f, k)]
    BY <2>1
  <2> QED BY <2>2
<1>4. Offsets(n) = at
  BY Zenon DEF Offsets
<1>5. at = [k \in 0..n |-> at[k]] /\ \A k \in 0..n : at[k] = Next(at, k)
  <2> HIDE DEF at, Next
  <2> QED BY <1>3
<1> HIDE DEF at
<1>6. at[0] = 0
  BY <1>5
<1> DEFINE P == {k \in Nat : k <= n => at[k] \in 0..n}
<1>7. 0 \in P
  BY <1>6
<1>8. ASSUME NEW k \in Nat, k \in P  PROVE k + 1 \in P
  <2> SUFFICES ASSUME k + 1 <= n  PROVE at[k + 1] \in 0..n
    OBVIOUS
  <2>1. at[k] \in 0..n /\ (k + 1) - 1 = k /\ k + 1 # 0 /\ k + 1 \in 0..n
    BY <1>8
  <2>2. at[k] < n => MountainSize(n - at[k]) \in 0..(n - at[k])
    <3> SUFFICES ASSUME at[k] < n  PROVE MountainSize(n - at[k]) \in 0..(n - at[k])
      OBVIOUS
    <3> DEFINE rest == n - at[k]
    <3>1. rest \in Nat \ {0}
      BY <2>1
    <3> HIDE DEF rest
    <3>2. DoubledUpTo(rest) \in 0..rest
      BY <3>1, DoubledIsLargest, Pow2Grows
    <3> QED BY <3>2 DEF rest, MountainSize
  <2>3. at[k + 1] = On(at[k])
    <3>1. at[k + 1] = Next(at, k + 1) /\ k + 1 # 0
      <4> HIDE DEF Next
      <4> QED BY <1>5, <2>1
    <3> HIDE DEF On
    <3>2. at[k + 1] = On(at[(k + 1) - 1])
      BY <3>1, Zenon
    <3> QED BY <2>1, <3>2
  <2>4. CASE at[k] < n
    <3>1. at[k + 1] = at[k] + MountainSize(n - at[k])
      BY <2>3, <2>4
    <3> QED BY <2>1, <2>2, <2>4, <3>1
  <2>5. CASE ~ (at[k] < n)
    BY <2>1, <2>3, <2>5
  <2> QED BY <2>4, <2>5
<1>9. \A k \in 0..n : at[k] \in 0..n
  <2> HIDE DEF P
  <2>1. Nat \subseteq P
    BY <1>7, <1>8, NatSetInduction
  <2> QED BY <2>1 DEF P
<1>10. at \in [0..n -> 0..n]
  BY <1>5, <1>9
<1>11. ASSUME NEW k \in 1..n  PROVE at[k] = On(at[k - 1])
  <2>1. at[k] = Next(at, k) /\ k # 0
    <3> HIDE DEF Next
    <3> QED BY <1>5
  <2> HIDE DEF On
  <2> QED BY <2>1, Zenon
<1>12. \A k \in 1..n : at[k] = On(at[k - 1])
  <2> HIDE DEF On
  <2> QED BY <1>11, Zenon
<1> QED BY <1>4, <1>10, <1>6, <1>12, Zenon

\* A set of naturals that is not empty has a least element.
LEMMA LeastOf ==
  ASSUME NEW S \in SUBSET Nat, S # {}
  PROVE  \E x \in S : \A y \in S : x <= y
<1> DEFINE R == OpToRel(<, Nat)
<1>1. IsWellFoundedOn(R, Nat)
  BY NatLessThanWellFounded
<1>2. \A x, y \in Nat : <<y, x>> \in R <=> y < x
  BY DEF OpToRel
<1> HIDE DEF R
<1>3. PICK x \in S : \A y \in S : ~ (<<y, x>> \in R)
  BY <1>1, WFMin
<1>4. ASSUME NEW y \in S  PROVE x <= y
  <2>1. x \in Nat /\ y \in Nat
    OBVIOUS
  <2>2. ~ (y < x)
    BY <1>2, <1>3, <2>1
  <2> QED BY <2>1, <2>2
<1> QED BY <1>4

\* h lists the heights of the K mountains over n leaves.
IsWalk(n, K, h) ==
  /\ K \in 0..n /\ h \in [1..K -> 0..n]
  /\ \A k \in 1..K : /\ MountainSize(n - Offsets(n)[k - 1]) = Pow2[h[k]]
                     /\ Offsets(n)[k] = Offsets(n)[k - 1] + Pow2[h[k]]
                     /\ Offsets(n)[k - 1] < n
                     /\ n < Offsets(n)[k - 1] + (2 * Pow2[h[k]])
  /\ \A k \in K..n : Offsets(n)[k] = n

\* Over any number of leaves the walk arrives at the end, mountain after mountain.
LEMMA WalkArrives ==
  ASSUME NEW n \in Nat
  PROVE  \E K, h : IsWalk(n, K, h)
<1>1. PICK at : at = Offsets(n)
  OBVIOUS
<1>2. at \in [0..n -> 0..n] /\ at[0] = 0
  BY <1>1, OffsetsUnfold
<1>3. ASSUME NEW k \in 0..(n - 1)
      PROVE  /\ at[k] = n => at[k + 1] = n
             /\ at[k] < n => \E b \in 0..n : /\ MountainSize(n - at[k]) = Pow2[b]
                                             /\ at[k + 1] = at[k] + Pow2[b]
                                             /\ n < at[k] + (2 * Pow2[b])
  <2>1. k + 1 \in 1..n /\ (k + 1) - 1 = k /\ at[k] \in 0..n
    BY <1>2
  <2>2. at[k + 1] = IF at[k] < n THEN at[k] + MountainSize(n - at[k]) ELSE at[k]
    BY <1>1, <2>1, OffsetsUnfold
  <2>3. at[k] = n => at[k + 1] = n
    BY <2>1, <2>2
  <2>4. ASSUME at[k] < n
        PROVE  \E b \in 0..n : /\ MountainSize(n - at[k]) = Pow2[b]
                               /\ at[k + 1] = at[k] + Pow2[b]
                               /\ n < at[k] + (2 * Pow2[b])
    <3>1. PICK rest : rest = n - at[k]
      OBVIOUS
    <3>2. rest \in Nat \ {0} /\ rest <= n /\ n = at[k] + rest
      BY <2>1, <2>4, <3>1
    <3>3. PICK b \in 0..rest : /\ DoubledUpTo(rest) = Pow2[b]
                               /\ Pow2[b] <= rest
                               /\ rest < 2 * Pow2[b]
      BY <3>2, DoubledIsLargest
    <3>4. Pow2[b] \in Nat /\ b \in 0..n
      BY <3>2, Pow2Grows
    <3>5. MountainSize(n - at[k]) = Pow2[b]
      BY <3>1, <3>3 DEF MountainSize
    <3>6. at[k + 1] = at[k] + Pow2[b]
      BY <2>2, <2>4, <3>5
    <3>7. n < at[k] + (2 * Pow2[b])
      BY <2>1, <3>2, <3>3, <3>4
    <3> QED BY <3>4, <3>5, <3>6, <3>7
  <2> QED BY <2>3, <2>4
<1> DEFINE P == {k \in Nat : k <= n => at[k] >= k}
<1>4. 0 \in P
  BY <1>2
<1>5. ASSUME NEW k \in Nat, k \in P  PROVE k + 1 \in P
  <2> SUFFICES ASSUME k + 1 <= n  PROVE at[k + 1] >= k + 1
    OBVIOUS
  <2>1. at[k] >= k /\ at[k] \in 0..n /\ k \in 0..(n - 1)
    BY <1>2, <1>5
  <2>2. CASE at[k] = n
    BY <1>3, <2>1, <2>2
  <2>3. CASE at[k] < n
    <3>1. PICK b \in 0..n : at[k + 1] = at[k] + Pow2[b]
      BY <1>3, <2>1, <2>3
    <3>2. Pow2[b] \in Nat /\ Pow2[b] > 0
      BY Pow2Grows
    <3> QED BY <2>1, <3>1, <3>2
  <2> QED BY <2>1, <2>2, <2>3
<1>6. at[n] = n
  <2> HIDE DEF P
  <2>1. n \in P
    BY <1>4, <1>5, NatSetInduction
  <2>2. at[n] >= n /\ at[n] \in 0..n
    BY <1>2, <2>1 DEF P
  <2> QED BY <2>2
<1> HIDE DEF P
<1>7. PICK K \in 0..n : at[K] = n /\ \A k \in 0..n : at[k] = n => K <= k
  <2> DEFINE S == {k \in 0..n : at[k] = n}
  <2>1. S \in SUBSET Nat /\ S # {}
    BY <1>6
  <2>2. PICK K \in S : \A k \in S : K <= k
    BY <2>1, LeastOf
  <2> QED BY <2>2
<1>8. \A k \in K..n : at[k] = n
  <2> DEFINE Q == {k \in Nat : k \in K..n => at[k] = n}
  <2>1. 0 \in Q
    BY <1>7
  <2>2. ASSUME NEW k \in Nat, k \in Q  PROVE k + 1 \in Q
    <3> SUFFICES ASSUME k + 1 \in K..n  PROVE at[k + 1] = n
      OBVIOUS
    <3>1. (k + 1 = K \/ k \in K..n) /\ k \in 0..(n - 1)
      OBVIOUS
    <3> QED BY <1>3, <1>7, <2>2, <3>1
  <2> HIDE DEF Q
  <2>3. Nat \subseteq Q
    BY <2>1, <2>2, NatSetInduction
  <2> QED BY <2>3 DEF Q
<1> DEFINE Step(k, b) == /\ MountainSize(n - at[k - 1]) = Pow2[b]
                         /\ at[k] = at[k - 1] + Pow2[b]
                         /\ n < at[k - 1] + (2 * Pow2[b])
           h == [k \in 1..K |-> CHOOSE b \in 0..n : Step(k, b)]
<1>9. ASSUME NEW k \in 1..K
      PROVE  at[k - 1] < n /\ h[k] \in 0..n /\ Step(k, h[k])
  <2>1. k - 1 \in 0..(n - 1) /\ (k - 1) + 1 = k /\ at[k - 1] \in 0..n
    BY <1>2
  <2>2. at[k - 1] # n
    BY <1>7, <2>1
  <2>3. at[k - 1] < n
    BY <2>1, <2>2
  <2>4. \E b \in 0..n : Step(k, b)
    BY <1>3, <2>1, <2>3
  <2> HIDE DEF Step
  <2> QED BY <2>3, <2>4
<1>10. h \in [1..K -> 0..n]
  <2> HIDE DEF Step
  <2> QED BY <1>9
<1> HIDE DEF h
<1>11. IsWalk(n, K, h)
  BY <1>1, <1>8, <1>9, <1>10 DEF IsWalk
<1> QED BY <1>11

Multiple(m, p) == \E q \in Nat : m = q * p

\* What is a multiple of a power of two is one of every lower power.
LEMMA MultipleOfLower ==
  ASSUME NEW m \in Nat, NEW b \in Nat, NEW c \in Nat, b <= c, Multiple(m, Pow2[c])
  PROVE  Multiple(m, Pow2[b])
<1> DEFINE P == {x \in Nat : Multiple(m, Pow2[b + x]) => Multiple(m, Pow2[b])}
<1>1. 0 \in P
  OBVIOUS
<1>2. ASSUME NEW x \in Nat, x \in P  PROVE x + 1 \in P
  <2> SUFFICES ASSUME Multiple(m, Pow2[b + (x + 1)])  PROVE Multiple(m, Pow2[b])
    OBVIOUS
  <2>1. PICK q \in Nat : m = q * Pow2[b + (x + 1)]
    BY DEF Multiple
  <2>2. b + x \in Nat /\ b + (x + 1) = (b + x) + 1
    OBVIOUS
  <2>3. Pow2[b + (x + 1)] = 2 * Pow2[b + x] /\ Pow2[b + x] \in Nat
    BY <2>2, Pow2Unfolds, Pow2Grows
  <2>4. 2 * q \in Nat /\ m = (2 * q) * Pow2[b + x]
    BY <2>1, <2>3
  <2>5. Multiple(m, Pow2[b + x])
    BY <2>4 DEF Multiple
  <2> QED BY <1>2, <2>5
<1>3. c - b \in Nat /\ b + (c - b) = c
  OBVIOUS
<1>4. c - b \in P
  <2> HIDE DEF P
  <2> QED BY <1>1, <1>2, <1>3, NatSetInduction
<1> QED BY <1>3, <1>4

\* A multiple and once more is a multiple.
LEMMA MultipleAdds ==
  ASSUME NEW m \in Nat, NEW p \in Nat, Multiple(m, p)
  PROVE  Multiple(m + p, p)
<1>1. PICK q \in Nat : m = q * p
  BY DEF Multiple
<1>2. q + 1 \in Nat /\ m + p = (q + 1) * p
  BY <1>1
<1> QED BY <1>2 DEF Multiple

\* What is left of a multiple and a smaller number is the smaller number.
LEMMA RestOfMultiple ==
  ASSUME NEW m \in Nat, NEW r \in Nat, NEW p \in Nat, r < p, Multiple(m, p)
  PROVE  (m + r) % p = r
<1>1. PICK q \in Nat : m = q * p
  BY DEF Multiple
<1> QED BY <1>1, DivModUnique

\* A mountain starts at a multiple of twice its size.  The mountains get lower and start
\* one behind the other.
LEMMA WalkGoesDown ==
  ASSUME NEW n \in Nat, NEW K, NEW h, IsWalk(n, K, h)
  PROVE  /\ \A j, k \in 0..n : j <= k => Offsets(n)[j] <= Offsets(n)[k]
         /\ \A j, k \in 1..K : j < k => h[k] < h[j]
         /\ \A k \in 1..K : Multiple(Offsets(n)[k - 1], Pow2[h[k] + 1])
         /\ Multiple(n, Pow2[IF K = 0 THEN n + 1 ELSE h[K]])
<1>1. PICK at : at = Offsets(n)
  OBVIOUS
<1>2. at \in [0..n -> 0..n] /\ at[0] = 0
  BY <1>1, OffsetsUnfold
<1>3. /\ K \in 0..n /\ h \in [1..K -> 0..n]
      /\ \A k \in 1..K : /\ at[k] = at[k - 1] + Pow2[h[k]]
                         /\ at[k - 1] < n
                         /\ n < at[k - 1] + (2 * Pow2[h[k]])
      /\ \A k \in K..n : at[k] = n
  BY <1>1 DEF IsWalk
<1>4. ASSUME NEW j \in 0..n  PROVE \A k \in 0..n : j <= k => at[j] <= at[k]
  <2> DEFINE P == {k \in Nat : k \in 0..n /\ j <= k => at[j] <= at[k]}
  <2>1. 0 \in P
    BY <1>2
  <2>2. ASSUME NEW k \in Nat, k \in P  PROVE k + 1 \in P
    <3> SUFFICES ASSUME k + 1 \in 0..n, j <= k + 1  PROVE at[j] <= at[k + 1]
      OBVIOUS
    <3>1. at[j] \in 0..n /\ at[k] \in 0..n /\ at[k + 1] \in 0..n
      BY <1>2
    <3>2. at[k] <= at[k + 1]
      <4>1. CASE k + 1 \in 1..K
        <5>1. at[k + 1] = at[k] + Pow2[h[k + 1]]
          BY <1>3, <4>1, (k + 1) - 1 = k
        <5>2. Pow2[h[k + 1]] \in Nat
          BY <1>3, <4>1, Pow2Grows
        <5> QED BY <3>1, <5>1, <5>2
      <4>2. CASE k + 1 \notin 1..K
        <5>1. k + 1 \in K..n
          BY <1>3, <4>2
        <5> QED BY <1>3, <3>1, <5>1
      <4> QED BY <4>1, <4>2
    <3>3. CASE j = k + 1
      BY <3>1, <3>3
    <3>4. CASE j # k + 1
      <4>1. at[j] <= at[k]
        BY <2>2, <3>4
      <4> QED BY <3>1, <3>2, <4>1
    <3> QED BY <3>3, <3>4
  <2> HIDE DEF P
  <2>3. Nat \subseteq P
    BY <2>1, <2>2, NatSetInduction
  <2> QED BY <2>3 DEF P
<1>5. ASSUME NEW j \in 1..K, NEW k \in 1..K, j < k  PROVE h[k] < h[j]
  <2>1. j \in 0..n /\ k - 1 \in 0..n /\ k \in 0..n /\ j <= k - 1 /\ j - 1 \in 0..n
    BY <1>3, <1>5
  <2>2. at[j] <= at[k - 1]
    BY <1>4, <2>1
  <2>3. PICK aj \in 0..n, ai \in 0..n, ak \in 0..n, al \in 0..n :
             aj = at[j] /\ ai = at[j - 1] /\ ak = at[k] /\ al = at[k - 1]
    BY <1>2, <2>1
  <2>4. PICK p \in Nat, q \in Nat : p = Pow2[h[j]] /\ q = Pow2[h[k]]
    <3>1. h[j] \in Nat /\ h[k] \in Nat
      BY <1>3
    <3>2. Pow2[h[j]] \in Nat /\ Pow2[h[k]] \in Nat
      BY <3>1, Pow2Grows
    <3> QED BY <3>2
  <2>5. aj = ai + p /\ n < ai + (2 * p) /\ ak = al + q /\ aj <= al
    BY <1>3, <2>2, <2>3, <2>4
  <2>6. q < p
    BY <2>3, <2>4, <2>5
  <2>7. h[j] \in Nat /\ h[k] \in Nat
    BY <1>3
  <2>8. ~ (h[j] < h[k]) /\ h[j] # h[k]
    BY <2>4, <2>6, <2>7, Pow2Grows
  <2> QED BY <2>7, <2>8
<1>6. \A k \in 1..K : Multiple(at[k], Pow2[h[k]]) /\ Multiple(at[k - 1], Pow2[h[k] + 1])
  <2> DEFINE P == {k \in Nat : k \in 1..K => /\ Multiple(at[k], Pow2[h[k]])
                                             /\ Multiple(at[k - 1], Pow2[h[k] + 1])}
  <2>1. 0 \in P
    OBVIOUS
  <2>2. ASSUME NEW k \in Nat, k \in P  PROVE k + 1 \in P
    <3> SUFFICES ASSUME k + 1 \in 1..K
                 PROVE  /\ Multiple(at[k + 1], Pow2[h[k + 1]])
                        /\ Multiple(at[(k + 1) - 1], Pow2[h[k + 1] + 1])
      OBVIOUS
    <3>1. (k + 1) - 1 = k /\ k \in 0..n /\ h[k + 1] \in Nat /\ at[k] \in Nat
      BY <1>2, <1>3
    <3>2. Multiple(at[k], Pow2[h[k + 1] + 1])
      <4>1. CASE k = 0
        <5>1. Pow2[h[k + 1] + 1] \in Nat
          BY <3>1, Pow2Grows
        <5>2. at[k] = 0 * Pow2[h[k + 1] + 1]
          BY <1>2, <4>1, <5>1
        <5> QED BY <5>2 DEF Multiple
      <4>2. CASE k # 0
        <5>1. k \in 1..K /\ h[k] \in Nat
          BY <1>3, <3>1, <4>2
        <5>2. h[k + 1] < h[k]
          BY <1>5, <5>1
        <5>3. Multiple(at[k], Pow2[h[k]])
          BY <2>2, <5>1
        <5>4. h[k + 1] + 1 \in Nat /\ h[k + 1] + 1 <= h[k]
          BY <3>1, <5>1, <5>2
        <5> QED BY <3>1, <5>1, <5>3, <5>4, MultipleOfLower
      <4> QED BY <4>1, <4>2
    <3>3. Multiple(at[k], Pow2[h[k + 1]])
      BY <3>1, <3>2, MultipleOfLower, h[k + 1] + 1 \in Nat /\ h[k + 1] <= h[k + 1] + 1
    <3>4. at[k + 1] = at[k] + Pow2[h[k + 1]] /\ Pow2[h[k + 1]] \in Nat
      BY <1>3, <3>1, Pow2Grows
    <3>5. Multiple(at[k] + Pow2[h[k + 1]], Pow2[h[k + 1]])
      BY <3>1, <3>3, <3>4, MultipleAdds
    <3> QED BY <3>1, <3>2, <3>4, <3>5
  <2> HIDE DEF P
  <2>3. Nat \subseteq P
    BY <2>1, <2>2, NatSetInduction
  <2> QED BY <2>3 DEF P
<1>7. Multiple(n, Pow2[IF K = 0 THEN n + 1 ELSE h[K]])
  <2>1. CASE K = 0
    <3>1. at[0] = n /\ Pow2[n + 1] \in Nat
      BY <1>3, <2>1, Pow2Grows
    <3>2. n = 0 * Pow2[n + 1]
      BY <1>2, <3>1
    <3>3. Multiple(n, Pow2[n + 1])
      BY <3>2 DEF Multiple
    <3> QED BY <2>1, <3>3
  <2>2. CASE K # 0
    <3>1. K \in 1..K /\ K \in K..n
      BY <1>3, <2>2
    <3>2. at[K] = n
      BY <1>3, <3>1
    <3>3. Multiple(n, Pow2[h[K]])
      BY <1>6, <3>1, <3>2
    <3> QED BY <2>2, <3>3
  <2> QED BY <2>1, <2>2
<1> QED BY <1>1, <1>4, <1>5, <1>6, <1>7

\* The heights of the mountains are the binary digits of n that are 1, from the highest.
LEMMA WalkIsDigits ==
  ASSUME NEW n \in Nat, NEW K, NEW h, IsWalk(n, K, h)
  PROVE  /\ \A k \in 1..K : h[k] \in Bits(n) /\ StartOf(n, h[k]) = Offsets(n)[k - 1]
         /\ \A b \in Bits(n) : \E k \in 1..K : h[k] = b
         /\ Cardinality(Bits(n)) = K
         /\ \A k \in 1..K : Cardinality({c \in Bits(n) : c >= h[k]}) = k
<1>1. PICK at : at = Offsets(n)
  OBVIOUS
<1>2. at \in [0..n -> 0..n] /\ at[0] = 0
  BY <1>1, OffsetsUnfold
<1>3. /\ K \in 0..n /\ h \in [1..K -> 0..n]
      /\ \A k \in 1..K : /\ at[k] = at[k - 1] + Pow2[h[k]]
                         /\ at[k - 1] < n
                         /\ n < at[k - 1] + (2 * Pow2[h[k]])
      /\ \A k \in K..n : at[k] = n
  BY <1>1 DEF IsWalk
<1>4. /\ \A j, k \in 1..K : j < k => h[k] < h[j]
      /\ \A k \in 1..K : Multiple(at[k - 1], Pow2[h[k] + 1])
      /\ Multiple(n, Pow2[IF K = 0 THEN n + 1 ELSE h[K]])
  BY <1>1, WalkGoesDown
\* The digits from b on make the start of a mountain, the rest is short.
<1>5. ASSUME NEW m \in Nat, NEW r \in Nat, NEW b \in Nat, n = m + r,
             r < Pow2[b + 1], Multiple(m, Pow2[b + 1])
      PROVE  n % Pow2[b + 1] = r
  <2>1. Pow2[b + 1] \in Nat
    BY Pow2Grows
  <2> QED BY <1>5, <2>1, RestOfMultiple
<1>6. ASSUME NEW k \in 1..K
      PROVE  h[k] \in Bits(n) /\ StartOf(n, h[k]) = at[k - 1]
  <2>1. h[k] \in 0..n /\ k - 1 \in 0..n /\ k \in 0..n
    BY <1>3
  <2>2. PICK m \in Nat, r \in Nat : m = at[k - 1] /\ n = m + r
    <3>1. at[k - 1] \in 0..n
      BY <1>2, <2>1
    <3> QED BY <3>1
  <2>3. PICK p \in Nat : p = Pow2[h[k]] /\ Pow2[h[k] + 1] = 2 * p
    <3>1. h[k] \in Nat
      BY <2>1
    <3>2. Pow2[h[k]] \in Nat /\ Pow2[h[k] + 1] = 2 * Pow2[h[k]]
      BY <3>1, Pow2Grows, Pow2Unfolds
    <3> QED BY <3>2
  <2>4. at[k] \in 0..n /\ at[k] = m + p /\ n < m + (2 * p)
    BY <1>2, <1>3, <2>1, <2>2, <2>3
  <2>5. r < 2 * p /\ r >= p
    BY <2>2, <2>4
  <2>6. Multiple(m, Pow2[h[k] + 1])
    BY <1>4, <2>2
  <2>7. n % Pow2[h[k] + 1] = r
    BY <1>5, <2>1, <2>2, <2>3, <2>5, <2>6
  <2> QED BY <2>1, <2>2, <2>3, <2>5, <2>7 DEF Bits, StartOf
<1>7. ASSUME NEW b \in 0..n, \A k \in 1..K : h[k] # b
      PROVE  b \notin Bits(n)
  <2> DEFINE S == {k \in 1..(K + 1) : k = K + 1 \/ h[k] < b}
  <2>1. S \in SUBSET Nat /\ K + 1 \in S
    BY <1>3
  <2>2. PICK k \in S : \A j \in S : k <= j
    BY <2>1, LeastOf
  <2>3. k \in 1..(K + 1) /\ k - 1 \in 0..n /\ b + 1 \in Nat
    BY <1>3
  <2>4. PICK m \in Nat, r \in Nat : m = at[k - 1] /\ n = m + r
    <3>1. at[k - 1] \in 0..n
      BY <1>2, <2>3
    <3> QED BY <3>1
  <2>5. Multiple(m, Pow2[b + 1])
    <3>1. CASE k = 1
      <4>1. m = 0 /\ k - 1 = 0
        BY <1>2, <2>4, <3>1
      <4>2. m = 0 * Pow2[b + 1]
        <5>1. Pow2[b + 1] \in Nat
          BY <2>3, Pow2Grows
        <5> QED BY <4>1, <5>1
      <4> QED BY <4>2 DEF Multiple
    <3>2. CASE k # 1
      <4>1. k - 1 \in 1..K /\ k - 1 < k /\ k - 1 \notin S
        BY <1>3, <2>2, <2>3, <3>2
      <4>2. h[k - 1] \in 0..n /\ ~ (h[k - 1] < b) /\ h[k - 1] # b
        BY <1>3, <1>7, <4>1
      <4>3. b + 1 <= h[k - 1]
        BY <4>2
      <4>4. Multiple(m, Pow2[h[k - 1]])
        <5>1. CASE k = K + 1
          <6>1. m = n /\ K # 0 /\ k - 1 = K
            BY <1>3, <2>3, <2>4, <3>2, <5>1
          <6> QED BY <1>4, <6>1
        <5>2. CASE k # K + 1
          <6>1. k \in 1..K /\ h[k] \in Nat /\ h[k] < h[k - 1]
            BY <1>3, <1>4, <2>3, <4>1, <5>2
          <6>2. at[k - 1] = at[(k - 1) - 1] + Pow2[h[k - 1]]
            BY <1>3, <4>1
          <6>3. (k - 1) - 1 \in 0..n
            BY <1>3, <4>1
          <6>4. at[(k - 1) - 1] \in Nat
            BY <1>2, <6>3
          <6>5. Multiple(at[(k - 1) - 1], Pow2[h[k - 1]])
            <7>1. Multiple(at[(k - 1) - 1], Pow2[h[k - 1] + 1])
              BY <1>4, <4>1
            <7>2. h[k - 1] \in Nat /\ h[k - 1] + 1 \in Nat /\ h[k - 1] <= h[k - 1] + 1
              BY <4>2
            <7> QED BY <6>4, <7>1, <7>2, MultipleOfLower
          <6>6. Pow2[h[k - 1]] \in Nat
            BY <4>2, Pow2Grows
          <6> QED BY <2>4, <6>2, <6>4, <6>5, <6>6, MultipleAdds
        <5> QED BY <5>1, <5>2
      <4> QED BY <2>3, <4>2, <4>3, <4>4, MultipleOfLower
    <3> QED BY <3>1, <3>2
  <2>6. PICK p \in Nat : p = Pow2[b] /\ Pow2[b + 1] = 2 * p /\ p > 0
    <3>1. b \in Nat
      BY <1>7
    <3>2. Pow2[b] \in Nat /\ Pow2[b] > 0 /\ Pow2[b + 1] = 2 * Pow2[b]
      BY <3>1, Pow2Grows, Pow2Unfolds
    <3> QED BY <3>2
  <2>7. r < p
    <3>1. CASE k = K + 1
      <4>1. m = n
        BY <1>3, <2>4, <3>1
      <4> QED BY <2>4, <2>6, <4>1
    <3>2. CASE k # K + 1
      <4>1. k \in 1..K /\ h[k] < b /\ h[k] \in Nat
        BY <1>3, <2>3, <3>2
      <4>2. 2 * Pow2[h[k]] <= p /\ Pow2[h[k]] \in Nat
        BY <2>6, <4>1, Pow2Grows
      <4>3. n < m + (2 * Pow2[h[k]])
        BY <1>3, <2>4, <4>1
      <4> QED BY <2>4, <4>2, <4>3
    <3> QED BY <3>1, <3>2
  <2>8. n % Pow2[b + 1] = r
    <3>1. r < Pow2[b + 1]
      BY <2>6, <2>7
    <3> QED BY <1>5, <2>4, <2>5, <3>1
  <2> QED BY <2>6, <2>7, <2>8 DEF Bits
<1>8. \A b \in Bits(n) : \E k \in 1..K : h[k] = b
  <2>1. Bits(n) \subseteq 0..n
    BY DEF Bits
  <2> QED BY <1>7, <2>1
<1>9. \A j, k \in 1..K : h[j] = h[k] => j = k
  <2> SUFFICES ASSUME NEW j \in 1..K, NEW k \in 1..K, h[j] = h[k]  PROVE j = k
    OBVIOUS
  <2>1. h[j] \in Nat /\ h[k] \in Nat
    BY <1>3
  <2>2. ~ (j < k) /\ ~ (k < j)
    BY <1>4, <2>1
  <2> QED BY <2>2
<1>10. Cardinality(Bits(n)) = K
  <2>1. h \in [1..K -> Bits(n)] /\ K \in Nat
    BY <1>3, <1>6
  <2> QED BY <1>8, <1>9, <2>1, ListedOnce
<1>11. ASSUME NEW k \in 1..K  PROVE Cardinality({c \in Bits(n) : c >= h[k]}) = k
  <2> DEFINE S == {c \in Bits(n) : c >= h[k]}
             g == [j \in 1..k |-> h[j]]
  <2>1. ASSUME NEW j \in 1..K  PROVE h[j] >= h[k] <=> j <= k
    <3>1. h[j] \in Nat /\ h[k] \in Nat
      BY <1>3
    <3>2. (j < k => h[k] < h[j]) /\ (k < j => h[j] < h[k])
      BY <1>4
    <3> QED BY <3>1, <3>2
  <2>2. ASSUME NEW j \in 1..k  PROVE j \in 1..K /\ g[j] = h[j] /\ g[j] \in S
    <3>1. j \in 1..K /\ j <= k
      BY <1>3
    <3> QED BY <1>6, <2>1, <3>1
  <2>3. \A i, j \in 1..k : g[i] = g[j] => i = j
    BY <1>9, <2>2
  <2>4. ASSUME NEW c \in S  PROVE \E j \in 1..k : g[j] = c
    <3>1. PICK j \in 1..K : h[j] = c
      BY <1>8
    <3>2. j \in 1..k
      BY <2>1, <3>1
    <3> QED BY <2>2, <3>1, <3>2
  <2>5. k \in Nat /\ g \in [1..k -> S]
    BY <2>2
  <2> HIDE DEF g, S
  <2>6. Cardinality(S) = k
    BY <2>3, <2>4, <2>5, ListedOnce
  <2> QED BY <2>6 DEF S
<1> QED BY <1>1, <1>6, <1>8, <1>10, <1>11

\* Leaf `index` of n is under peak k, whose mountain find_peak_for_leaf finds.
IsUnderPeak(n, h, index, k) ==
  /\ Offsets(n)[k - 1] <= index /\ index < Offsets(n)[k - 1] + Pow2[h[k]]
  /\ FindPeakForLeaf(n, index) = [peak |-> k, local |-> index - Offsets(n)[k - 1],
                                  size |-> Pow2[h[k]]]
  /\ \A ls : Len(ls) = n => MountainOf(ls, index) = Slice(ls, Offsets(n)[k - 1], Pow2[h[k]])

\* The search of find_peak_for_leaf finds the mountain that has the leaf.
LEMMA LeafIsInOneMountain ==
  ASSUME NEW n \in Nat, NEW K, NEW h, IsWalk(n, K, h), NEW index \in 0..(n - 1)
  PROVE  \E k \in 1..K : IsUnderPeak(n, h, index, k)
<1>1. PICK at : at = Offsets(n)
  OBVIOUS
<1>2. at \in [0..n -> 0..n] /\ at[0] = 0
  BY <1>1, OffsetsUnfold
<1>3. /\ K \in 0..n /\ h \in [1..K -> 0..n]
      /\ \A k \in 1..K : at[k] = at[k - 1] + Pow2[h[k]]
      /\ \A k \in K..n : at[k] = n
  BY <1>1 DEF IsWalk
<1>4. \A j, k \in 0..n : j <= k => at[j] <= at[k]
  BY <1>1, WalkGoesDown
<1>5. PICK k \in 1..K : at[k - 1] <= index /\ index < at[k]
  <2> DEFINE S == {k \in 0..K : index < at[k]}
  <2>1. S \in SUBSET Nat
    BY <1>3
  <2>2. K \in S
    BY <1>3
  <2>3. PICK k \in S : \A j \in S : k <= j
    BY <2>1, <2>2, LeastOf
  <2>4. k \in 1..K /\ k - 1 \in 0..n
    BY <1>2, <1>3, <2>3
  <2>5. k - 1 \notin S /\ at[k - 1] \in 0..n
    BY <1>2, <2>3, <2>4
  <2>6. at[k - 1] <= index
    BY <1>3, <2>4, <2>5
  <2> QED BY <2>3, <2>4, <2>6
<1>6. ASSUME NEW j \in 1..n, at[j - 1] <= index /\ index < at[j]  PROVE j = k
  <2>1. j \in 0..n /\ j - 1 \in 0..n /\ k \in 0..n /\ k - 1 \in 0..n
    BY <1>3
  <2>2. at[j] \in Nat /\ at[j - 1] \in Nat /\ at[k] \in Nat /\ at[k - 1] \in Nat
    BY <1>2, <2>1
  <2>3. (j <= k - 1 => at[j] <= at[k - 1]) /\ (k <= j - 1 => at[k] <= at[j - 1])
    BY <1>4, <2>1
  <2>4. ~ (j <= k - 1) /\ ~ (k <= j - 1)
    BY <1>5, <1>6, <2>2, <2>3
  <2> QED BY <2>1, <2>4
<1>7. FindPeakForLeaf(n, index) = [peak |-> k, local |-> index - at[k - 1], size |-> Pow2[h[k]]]
  <2> DEFINE found == CHOOSE j \in 1..n : at[j - 1] <= index /\ index < at[j]
  <2>1. k \in 1..n
    BY <1>3
  <2>2. found \in 1..n /\ at[found - 1] <= index /\ index < at[found]
    BY <1>5, <2>1
  <2>3. FindPeakForLeaf(n, index) = [peak |-> found, local |-> index - at[found - 1],
                                     size |-> at[found] - at[found - 1]]
    BY <1>1, Zenon DEF FindPeakForLeaf
  <2> HIDE DEF found
  <2>4. found = k
    BY <1>6, <2>2
  <2>5. at[k] - at[k - 1] = Pow2[h[k]]
    <3>1. at[k - 1] \in Nat /\ h[k] \in Nat /\ at[k] = at[k - 1] + Pow2[h[k]]
      BY <1>2, <1>3, k - 1 \in 0..n
    <3>2. Pow2[h[k]] \in Nat
      BY <3>1, Pow2Grows
    <3> QED BY <3>1, <3>2
  <2> QED BY <2>3, <2>4, <2>5
<1>8. ASSUME NEW ls, Len(ls) = n
      PROVE  MountainOf(ls, index) = Slice(ls, at[k - 1], Pow2[h[k]])
  <2> DEFINE bit == CHOOSE b \in Bits(n) :
                      StartOf(n, b) <= index /\ index < StartOf(n, b) + Pow2[b]
  <2>1. \A j \in 1..K : h[j] \in Bits(n) /\ StartOf(n, h[j]) = at[j - 1]
    BY <1>1, WalkIsDigits
  <2>2. \E b \in Bits(n) : StartOf(n, b) <= index /\ index < StartOf(n, b) + Pow2[b]
    BY <1>3, <1>5, <2>1
  <2>3. bit \in Bits(n) /\ StartOf(n, bit) <= index /\ index < StartOf(n, bit) + Pow2[bit]
    BY <2>2
  <2>4. MountainOf(ls, index) = Slice(ls, StartOf(n, bit), Pow2[bit])
    BY <1>8, Zenon DEF MountainOf
  <2> HIDE DEF bit
  <2>5. PICK j \in 1..K : h[j] = bit
    BY <2>3, WalkIsDigits
  <2>6. StartOf(n, bit) = at[j - 1] /\ at[j] = at[j - 1] + Pow2[bit] /\ j \in 1..n
    BY <1>3, <2>1, <2>5
  <2>7. j = k
    BY <1>6, <2>3, <2>6
  <2> QED BY <2>4, <2>5, <2>6, <2>7
<1>9. at[k] = at[k - 1] + Pow2[h[k]]
  BY <1>3
<1>10. IsUnderPeak(n, h, index, k)
  BY <1>1, <1>5, <1>7, <1>8, <1>9 DEF IsUnderPeak
<1> QED BY <1>10

---------------------------------------------------------------------------
(* The trees.                                                              *)

\* The bound of the leaves is a number.
LEMMA BoundIsNat == MaxLeaves \in Nat
BY BoundsAssumption

\* The equations of the perfect tree.
LEMMA PerfectUnfolds ==
  ASSUME NEW ls
  PROVE  /\ \A from \in Nat : Perfect(ls, 0, from) = ls[from + 1]
         /\ \A h, from \in Nat :
              Perfect(ls, h + 1, from) = <<Perfect(ls, h, from), Perfect(ls, h, from + Pow2[h])>>
<1> DEFINE Over(f, h, from) ==
             IF h = 0 THEN ls[from + 1] ELSE Hash(<<f[h - 1][from], f[h - 1][from + Pow2[h - 1]]>>)
           Next(f, h) == [from \in Nat |-> Over(f, h, from)]
           Some == {n \in Nat : \E f : f = [h \in 0..n |-> Next(f, h)]}
           tree[n \in Nat] == CHOOSE f : f = [h \in 0..n |-> Next(f, h)]
<1>1. 0 \in Some
  <2> DEFINE f == [h \in 0..0 |-> [from \in Nat |-> ls[from + 1]]]
  <2>1. f = [h \in 0..0 |-> Next(f, h)]
    OBVIOUS
  <2> HIDE DEF f
  <2> QED BY <2>1
<1>2. ASSUME NEW n \in Nat, n \in Some  PROVE n + 1 \in Some
  <2>1. PICK f : f = [h \in 0..n |-> Next(f, h)]
    BY <1>2
  <2> DEFINE g == [h \in 0..(n + 1) |-> IF h = n + 1 THEN Next(f, h) ELSE f[h]]
  <2>2. ASSUME NEW h \in 0..(n + 1)  PROVE g[h] = Next(g, h)
    <3>1. g[h] = Next(f, h)
      <4> HIDE DEF Next
      <4>1. h # n + 1 => f[h] = Next(f, h)
        BY <2>1
      <4> QED BY <4>1
    <3>2. h # 0 => g[h - 1] = f[h - 1]
      OBVIOUS
    <3> HIDE DEF g
    <3>3. \A from \in Nat : Over(g, h, from) = Over(f, h, from)
      BY <3>2, Zenon
    <3> HIDE DEF Over
    <3>4. Next(g, h) = Next(f, h)
      BY <3>3
    <3> HIDE DEF Next
    <3> QED BY <3>1, <3>4
  <2>3. g = [h \in 0..(n + 1) |-> g[h]]
    OBVIOUS
  <2> HIDE DEF g, Next
  <2>4. g = [h \in 0..(n + 1) |-> Next(g, h)]
    BY <2>2, <2>3
  <2> QED BY <2>4
<1>3. ASSUME NEW n \in Nat
      PROVE  tree[n] = [h \in 0..n |-> Next(tree[n], h)]
  <2>1. n \in Some
    <3> HIDE DEF Some
    <3> QED BY <1>1, <1>2, NatSetInduction
  <2>2. \E f : f = [h \in 0..n |-> Next(f, h)]
    BY <2>1
  <2> HIDE DEF Next
  <2> QED BY <2>2
<1>4. \A n \in Nat : \A h \in 0..n : tree[n][h] = Next(tree[n], h)
  <2> HIDE DEF tree, Next
  <2> QED BY <1>3
<1>5. ASSUME NEW n \in Nat, NEW from \in Nat  PROVE Perfect(ls, n, from) = tree[n][n][from]
  <2>1. Perfect(ls, n, from) = (CHOOSE f : f = [h \in 0..n |-> Next(f, h)])[n][from]
    BY Zenon DEF Perfect
  <2> HIDE DEF Next
  <2> QED BY <2>1
<1> HIDE DEF tree
<1>6. \A n, from \in Nat : \A h \in 0..n : tree[n][h][from] = Over(tree[n], h, from)
  <2> HIDE DEF Over
  <2> QED BY <1>4
<1>7. ASSUME NEW n \in Nat  PROVE \A h \in Nat : h <= n => tree[n][h] = tree[n + 1][h]
  <2> DEFINE Same == {h \in Nat : h <= n => tree[n][h] = tree[n + 1][h]}
  <2>1. 0 \in Same
    <3>1. tree[n][0] = Next(tree[n], 0) /\ tree[n + 1][0] = Next(tree[n + 1], 0)
      <4> HIDE DEF Next
      <4> QED BY <1>4
    <3>2. Next(tree[n], 0) = Next(tree[n + 1], 0)
      BY Zenon
    <3> HIDE DEF Next
    <3> QED BY <3>1, <3>2
  <2>2. ASSUME NEW h \in Nat, h \in Same  PROVE h + 1 \in Same
    <3> SUFFICES ASSUME h + 1 <= n  PROVE tree[n][h + 1] = tree[n + 1][h + 1]
      OBVIOUS
    <3>1. /\ tree[n][h + 1] = Next(tree[n], h + 1)
          /\ tree[n + 1][h + 1] = Next(tree[n + 1], h + 1)
      <4> HIDE DEF Next
      <4> QED BY <1>4
    <3>2. tree[n][(h + 1) - 1] = tree[n + 1][(h + 1) - 1]
      BY <2>2, (h + 1) - 1 = h
    <3>3. Next(tree[n], h + 1) = Next(tree[n + 1], h + 1)
      BY <3>2, Zenon
    <3> HIDE DEF Next
    <3> QED BY <3>1, <3>3
  <2> HIDE DEF Same
  <2>3. Nat \subseteq Same
    BY <2>1, <2>2, NatSetInduction
  <2> QED BY <2>3 DEF Same
<1>8. ASSUME NEW from \in Nat  PROVE Perfect(ls, 0, from) = ls[from + 1]
  <2>1. tree[0][0][from] = Over(tree[0], 0, from)
    <3> HIDE DEF Over
    <3> QED BY <1>6
  <2> QED BY <1>5, <2>1
<1>9. ASSUME NEW h \in Nat, NEW from \in Nat
      PROVE  Perfect(ls, h + 1, from) = <<Perfect(ls, h, from), Perfect(ls, h, from + Pow2[h])>>
  <2>1. tree[h + 1][h + 1][from] = Over(tree[h + 1], h + 1, from)
    <3> HIDE DEF Over
    <3> QED BY <1>6
  <2>2. h + 1 # 0 /\ (h + 1) - 1 = h /\ tree[h + 1][h] = tree[h][h]
    BY <1>7
  <2>3. from + Pow2[h] \in Nat
    BY Pow2Grows
  <2>4. Over(tree[h + 1], h + 1, from) = <<tree[h][h][from], tree[h][h][from + Pow2[h]]>>
    BY <2>2, Zenon DEF Hash
  <2> HIDE DEF Over
  <2> QED BY <1>5, <2>1, <2>3, <2>4
<1> QED BY <1>8, <1>9

\* The equations of the levels (build_merkle_tree).
LEMMA LevelsUnfold ==
  ASSUME NEW V, NEW leafs \in Seq(V)
  PROVE  /\ LevelsOver(leafs) = [h \in 0..Len(leafs) |-> LevelsOver(leafs)[h]]
         /\ LevelsOver(leafs)[0] = leafs
         /\ \A h \in 0..(Len(leafs) - 1) : LevelsOver(leafs)[h + 1] = PairUp(LevelsOver(leafs)[h])
<1> DEFINE Next(f, h) == IF h = 0 THEN leafs ELSE PairUp(f[h - 1])
           Some == {n \in Nat : \E f : f = [h \in 0..n |-> Next(f, h)]}
           level == CHOOSE f : f = [h \in 0..Len(leafs) |-> Next(f, h)]
<1>0. Len(leafs) \in Nat
  OBVIOUS
<1>1. 0 \in Some
  <2> DEFINE f == [h \in 0..0 |-> leafs]
  <2>1. f = [h \in 0..0 |-> Next(f, h)]
    OBVIOUS
  <2> HIDE DEF f
  <2> QED BY <2>1
<1>2. ASSUME NEW n \in Nat, n \in Some  PROVE n + 1 \in Some
  <2>1. PICK f : f = [h \in 0..n |-> Next(f, h)]
    BY <1>2
  <2> DEFINE g == [h \in 0..(n + 1) |-> IF h = n + 1 THEN Next(f, h) ELSE f[h]]
  <2>2. ASSUME NEW h \in 0..(n + 1)  PROVE g[h] = Next(g, h)
    <3>1. g[h] = Next(f, h)
      <4> HIDE DEF Next
      <4>1. h # n + 1 => f[h] = Next(f, h)
        BY <2>1
      <4> QED BY <4>1
    <3>2. h # 0 => g[h - 1] = f[h - 1]
      OBVIOUS
    <3> HIDE DEF g
    <3>3. Next(g, h) = Next(f, h)
      BY <3>2, Zenon
    <3> HIDE DEF Next
    <3> QED BY <3>1, <3>3
  <2>3. g = [h \in 0..(n + 1) |-> g[h]]
    OBVIOUS
  <2> HIDE DEF g, Next
  <2>4. g = [h \in 0..(n + 1) |-> Next(g, h)]
    BY <2>2, <2>3
  <2> QED BY <2>4
<1>3. level = [h \in 0..Len(leafs) |-> Next(level, h)]
  <2>1. Len(leafs) \in Some
    <3> HIDE DEF Some
    <3> QED BY <1>0, <1>1, <1>2, NatSetInduction
  <2>2. \E f : f = [h \in 0..Len(leafs) |-> Next(f, h)]
    BY <2>1
  <2> HIDE DEF Next
  <2> QED BY <2>2
<1>4. LevelsOver(leafs) = level
  BY Zenon DEF LevelsOver
<1>5. /\ level = [h \in 0..Len(leafs) |-> level[h]]
      /\ \A h \in 0..Len(leafs) : level[h] = Next(level, h)
  <2> HIDE DEF level, Next
  <2> QED BY <1>3
<1> HIDE DEF level
<1>6. level[0] = leafs
  BY <1>0, <1>5
<1>7. ASSUME NEW h \in 0..(Len(leafs) - 1)  PROVE level[h + 1] = PairUp(level[h])
  <2>1. level[h + 1] = Next(level, h + 1) /\ h + 1 # 0 /\ (h + 1) - 1 = h
    <3> HIDE DEF Next
    <3> QED BY <1>0, <1>5
  <2> QED BY <2>1, Zenon
<1> QED BY <1>4, <1>5, <1>6, <1>7

\* The level at height h over 2^b leaves.
PerfectLevel(leafs, b, h) == [j \in 1..Pow2[b - h] |-> Perfect(leafs, h, (j - 1) * Pow2[h])]

\* A round of the pairing loop leads from one level of the perfect tree to the next.
LEMMA PairsMakeTheNextLevel ==
  ASSUME NEW leafs, NEW b \in Nat, NEW h \in 0..(b - 1)
  PROVE  PairUp(PerfectLevel(leafs, b, h)) = PerfectLevel(leafs, b, h + 1)
<1>1. PICK p \in Nat, q \in Nat : p = Pow2[h] /\ q = Pow2[b - (h + 1)]
  <2>1. h \in Nat /\ b - (h + 1) \in Nat
    OBVIOUS
  <2>2. Pow2[h] \in Nat /\ Pow2[b - (h + 1)] \in Nat
    BY <2>1, Pow2Grows
  <2> QED BY <2>2
<1>2. Pow2[h + 1] = 2 * p /\ Pow2[b - h] = 2 * q
  <2>1. h \in Nat /\ b - (h + 1) \in Nat /\ (b - (h + 1)) + 1 = b - h
    OBVIOUS
  <2>2. Pow2[h + 1] = 2 * Pow2[h] /\ Pow2[(b - (h + 1)) + 1] = 2 * Pow2[b - (h + 1)]
    BY <2>1, Pow2Unfolds
  <2> QED BY <1>1, <2>1, <2>2
<1>3. PICK level : level = [j \in 1..(2 * q) |-> Perfect(leafs, h, (j - 1) * p)]
  OBVIOUS
<1>4. PerfectLevel(leafs, b, h) = level
  BY <1>1, <1>2, <1>3 DEF PerfectLevel
<1>5. Len(level) = 2 * q
  BY <1>3
<1>6. (Len(level) + 1) \div 2 = q
  BY <1>5
<1> DEFINE Pair(k) == IF 2 * k <= Len(level) THEN HashPair(level[2 * k - 1], level[2 * k])
                                             ELSE level[2 * k - 1]
<1>7. PairUp(level) = [k \in 1..q |-> Pair(k)]
  BY <1>6 DEF PairUp
<1>8. ASSUME NEW k \in 1..q  PROVE Pair(k) = Perfect(leafs, h + 1, (k - 1) * (2 * p))
  <2>1. 2 * k \in 1..(2 * q) /\ 2 * k - 1 \in 1..(2 * q)
    OBVIOUS
  <2>2. Pair(k) = <<level[2 * k - 1], level[2 * k]>>
    BY <1>5, <2>1 DEF HashPair, Hash
  <2>3. PICK from \in Nat : from = (k - 1) * (2 * p)
    <3>1. k - 1 \in Nat /\ 2 * p \in Nat
      OBVIOUS
    <3>2. (k - 1) * (2 * p) \in Nat
      BY <3>1
    <3> QED BY <3>2
  <2>4. ((2 * k - 1) - 1) * p = from /\ (2 * k - 1) * p = from + p
    BY <2>3
  <2>5. level[2 * k - 1] = Perfect(leafs, h, from) /\ level[2 * k] = Perfect(leafs, h, from + p)
    BY <1>3, <2>1, <2>4
  <2>6. Perfect(leafs, h + 1, from) = <<Perfect(leafs, h, from), Perfect(leafs, h, from + p)>>
    <3>1. h \in Nat
      OBVIOUS
    <3> QED BY <1>1, <3>1, PerfectUnfolds
  <2> QED BY <2>2, <2>3, <2>5, <2>6
<1>9. PerfectLevel(leafs, b, h + 1) = [k \in 1..q |-> Perfect(leafs, h + 1, (k - 1) * (2 * p))]
  BY <1>1, <1>2 DEF PerfectLevel
<1> HIDE DEF Pair
<1> QED BY <1>4, <1>7, <1>8, <1>9

\* The levels over 2^b leaves are those of the perfect tree.
LEMMA LevelsArePerfect ==
  ASSUME NEW V, NEW leafs \in Seq(V), NEW b \in Nat, Len(leafs) = Pow2[b]
  PROVE  Levels(leafs) = [k \in 1..(b + 1) |-> PerfectLevel(leafs, b, k - 1)]
<1>1. PICK level : level = LevelsOver(leafs)
  OBVIOUS
<1>2. /\ level = [h \in 0..Pow2[b] |-> level[h]]
      /\ level[0] = leafs
      /\ \A h \in 0..(Pow2[b] - 1) : level[h + 1] = PairUp(level[h])
  BY <1>1, LevelsUnfold
<1>3. Pow2[b] \in Nat /\ b < Pow2[b]
  BY Pow2Grows
<1>4. PerfectLevel(leafs, b, 0) = leafs
  <2>1. leafs = [j \in 1..Pow2[b] |-> leafs[j]]
    OBVIOUS
  <2>2. ASSUME NEW j \in 1..Pow2[b]  PROVE Perfect(leafs, 0, (j - 1) * Pow2[0]) = leafs[j]
    <3>1. (j - 1) * Pow2[0] = j - 1 /\ j - 1 \in Nat /\ (j - 1) + 1 = j
      BY <1>3, Pow2Unfolds
    <3> QED BY <3>1, PerfectUnfolds
  <2>3. b - 0 = b
    OBVIOUS
  <2> QED BY <2>1, <2>2, <2>3 DEF PerfectLevel
<1>5. \A h \in 0..b : level[h] = PerfectLevel(leafs, b, h)
  <2> DEFINE P == {h \in Nat : h <= b => level[h] = PerfectLevel(leafs, b, h)}
  <2>1. 0 \in P
    BY <1>2, <1>4
  <2>2. ASSUME NEW h \in Nat, h \in P  PROVE h + 1 \in P
    <3> SUFFICES ASSUME h + 1 <= b  PROVE level[h + 1] = PerfectLevel(leafs, b, h + 1)
      OBVIOUS
    <3>1. h \in 0..(b - 1) /\ h \in 0..(Pow2[b] - 1) /\ level[h] = PerfectLevel(leafs, b, h)
      BY <1>3, <2>2
    <3> QED BY <1>2, <3>1, PairsMakeTheNextLevel
  <2> HIDE DEF P
  <2>3. Nat \subseteq P
    BY <2>1, <2>2, NatSetInduction
  <2> QED BY <2>3 DEF P
<1>6. ASSUME NEW h \in 0..b  PROVE Len(level[h]) = Pow2[b - h] /\ (Len(level[h]) <= 1 <=> h = b)
  <2>1. b - h \in Nat /\ Pow2[b - h] \in Nat /\ Pow2[b - h] > b - h
    BY Pow2Grows
  <2>2. level[h] = [j \in 1..Pow2[b - h] |-> Perfect(leafs, h, (j - 1) * Pow2[h])]
    BY <1>5 DEF PerfectLevel
  <2>3. Len(level[h]) = Pow2[b - h]
    BY <2>1, <2>2
  <2>4. h = b => Pow2[b - h] = 1
    BY Pow2Unfolds, h = b => b - h = 0
  <2> QED BY <2>1, <2>3, <2>4
<1> DEFINE IsTop(h) == Len(level[h]) <= 1 /\ \A j \in 0..(h - 1) : Len(level[j]) > 1
           top == CHOOSE h \in DOMAIN level : IsTop(h)
<1>7. top = b
  <2>1. DOMAIN level = 0..Pow2[b]
    BY <1>2
  <2>2. IsTop(b)
    <3>1. ASSUME NEW j \in 0..(b - 1)  PROVE Len(level[j]) > 1
      <4>1. j \in 0..b /\ j # b /\ b - j \in Nat
        OBVIOUS
      <4>2. Len(level[j]) \in Nat /\ ~ (Len(level[j]) <= 1)
        BY <1>6, <4>1, Pow2Grows
      <4> QED BY <4>2
    <3> QED BY <1>6, <3>1
  <2>3. ASSUME NEW h \in 0..Pow2[b], IsTop(h)  PROVE h = b
    <3>1. CASE h < b
      <4>1. h \in 0..b /\ h # b
        BY <3>1
      <4> QED BY <1>6, <2>3, <4>1
    <3>2. CASE b < h
      <4>1. b \in 0..(h - 1) /\ b \in 0..b
        BY <3>2
      <4>2. Len(level[b]) > 1 /\ Len(level[b]) <= 1
        BY <1>6, <2>3, <4>1
      <4>3. Len(level[b]) = Pow2[b - b] /\ b - b = 0 /\ Pow2[0] = 1
        BY <1>6, <4>1, Pow2Unfolds
      <4> QED BY <4>2, <4>3
    <3> QED BY <1>3, <3>1, <3>2
  <2>4. b \in DOMAIN level
    BY <1>3, <2>1
  <2> HIDE DEF IsTop
  <2> QED BY <2>1, <2>2, <2>3, <2>4
<1>8. Levels(leafs) = [k \in 1..(top + 1) |-> level[k - 1]]
  BY <1>1, Zenon DEF Levels
<1> HIDE DEF top
<1>9. \A k \in 1..(b + 1) : level[k - 1] = PerfectLevel(leafs, b, k - 1)
  BY <1>5
<1> QED BY <1>7, <1>8, <1>9

\* A mountain's tree is the same within the mountain and within the range.
LEMMA PerfectInSlice ==
  ASSUME NEW V, NEW ls \in Seq(V), NEW start \in Nat, NEW size \in Nat, start + size <= Len(ls)
  PROVE  /\ Slice(ls, start, size) \in Seq(V) /\ Len(Slice(ls, start, size)) = size
         /\ \A i \in 1..size : Slice(ls, start, size)[i] = ls[start + i]
         /\ \A h, from \in Nat : from + Pow2[h] <= size =>
              Perfect(Slice(ls, start, size), h, from) = Perfect(ls, h, start + from)
<1>1. PICK slice : slice = Slice(ls, start, size)
  OBVIOUS
<1>2. slice \in Seq(V) /\ Len(slice) = size /\ \A i \in 1..size : slice[i] = ls[start + i]
  <2>1. slice = SubSeq(ls, start + 1, start + size)
    BY <1>1 DEF Slice
  <2> QED BY <2>1
<1> DEFINE Same(h) == \A from \in Nat : from + Pow2[h] <= size =>
                        Perfect(slice, h, from) = Perfect(ls, h, start + from)
           P == {h \in Nat : Same(h)}
<1>3. 0 \in P
  <2> SUFFICES ASSUME NEW from \in Nat, from + Pow2[0] <= size
               PROVE  Perfect(slice, 0, from) = Perfect(ls, 0, start + from)
    OBVIOUS
  <2>1. from + 1 \in 1..size /\ start + from \in Nat /\ start + (from + 1) = (start + from) + 1
    BY Pow2Unfolds
  <2>2. Perfect(slice, 0, from) = slice[from + 1]
    BY PerfectUnfolds
  <2>3. Perfect(ls, 0, start + from) = ls[(start + from) + 1]
    BY <2>1, PerfectUnfolds
  <2> QED BY <1>2, <2>1, <2>2, <2>3
<1>4. ASSUME NEW h \in Nat, h \in P  PROVE h + 1 \in P
  <2> SUFFICES ASSUME NEW from \in Nat, from + Pow2[h + 1] <= size
               PROVE  Perfect(slice, h + 1, from) = Perfect(ls, h + 1, start + from)
    OBVIOUS
  <2>1. PICK p \in Nat : p = Pow2[h] /\ Pow2[h + 1] = 2 * p
    BY Pow2Grows, Pow2Unfolds
  <2>2. /\ from + p \in Nat /\ start + from \in Nat /\ start + (from + p) = (start + from) + p
        /\ from + p <= size /\ (from + p) + p <= size
    <3>1. from + (2 * p) <= size
      BY <2>1
    <3> HIDE DEF Same
    <3> QED BY <3>1
  <2>3. Perfect(slice, h, from) = Perfect(ls, h, start + from)
    BY <1>4, <2>1, <2>2
  <2>4. Perfect(slice, h, from + p) = Perfect(ls, h, (start + from) + p)
    BY <1>4, <2>1, <2>2
  <2>5. Perfect(slice, h + 1, from) = <<Perfect(slice, h, from), Perfect(slice, h, from + p)>>
    BY <2>1, PerfectUnfolds
  <2>6. Perfect(ls, h + 1, start + from)
          = <<Perfect(ls, h, start + from), Perfect(ls, h, (start + from) + p)>>
    BY <2>1, <2>2, PerfectUnfolds
  <2> QED BY <2>3, <2>4, <2>5, <2>6
<1>5. \A h \in Nat : Same(h)
  <2> HIDE DEF P
  <2>1. Nat \subseteq P
    BY <1>3, <1>4, NatSetInduction
  <2> QED BY <2>1 DEF P
<1> QED BY <1>1, <1>2, <1>5

\* So build_merkle_tree makes the perfect tree over a power of two of leaves.
LEMMA BuildsPerfect ==
  ASSUME NEW V, NEW ls \in Seq(V), NEW start \in Nat, NEW b \in Nat, start + Pow2[b] <= Len(ls)
  PROVE  BuildMerkleTree(ls, start, Pow2[b]) = Perfect(ls, b, start)
<1>1. Pow2[b] \in Nat /\ Pow2[b] > b
  BY Pow2Grows
<1>2. CASE b = 0
  <2>1. Pow2[b] = 1
    BY <1>2, Pow2Unfolds
  <2>2. Perfect(ls, b, start) = ls[start + 1]
    BY <1>2, PerfectUnfolds
  <2> QED BY <2>1, <2>2 DEF BuildMerkleTree
<1>3. CASE b # 0
  <2>1. Pow2[b] # 1
    BY <1>1, <1>3
  <2>2. PICK slice \in Seq(V) : slice = Slice(ls, start, Pow2[b]) /\ Len(slice) = Pow2[b]
    BY <1>1, PerfectInSlice
  <2>3. BuildMerkleTree(ls, start, Pow2[b]) = Last(Levels(slice))[1]
    BY <2>1, <2>2 DEF BuildMerkleTree
  <2>4. Levels(slice) = [k \in 1..(b + 1) |-> PerfectLevel(slice, b, k - 1)]
    BY <2>2, LevelsArePerfect
  <2>5. Last(Levels(slice)) = PerfectLevel(slice, b, b)
    <3>1. PICK levels : levels = Levels(slice)
      OBVIOUS
    <3>2. Len(levels) = b + 1 /\ levels[b + 1] = PerfectLevel(slice, b, (b + 1) - 1)
      BY <2>4, <3>1
    <3> QED BY <3>1, <3>2, (b + 1) - 1 = b DEF Last
  <2>6. PerfectLevel(slice, b, b)[1] = Perfect(slice, b, 0)
    <3>1. b - b = 0 /\ Pow2[0] = 1
      BY Pow2Unfolds
    <3>2. (1 - 1) * Pow2[b] = 0
      BY <1>1
    <3>3. 1 \in 1..Pow2[b - b]
      BY <3>1
    <3> QED BY <3>2, <3>3 DEF PerfectLevel
  <2>7. Perfect(slice, b, 0) = Perfect(ls, b, start)
    <3>1. 0 + Pow2[b] <= Pow2[b] /\ start + 0 = start
      BY <1>1
    <3>2. Perfect(slice, b, 0) = Perfect(ls, b, start + 0)
      BY <1>1, <2>2, <3>1, PerfectInSlice
    <3> QED BY <3>1, <3>2
  <2> QED BY <2>3, <2>5, <2>6, <2>7
<1> QED BY <1>2, <1>3

\* The peaks of a range are the perfect trees over its mountains.
LEMMA PeaksOfWalk ==
  ASSUME NEW V, NEW ls \in Seq(V), NEW K, NEW h, IsWalk(Len(ls), K, h)
  PROVE  RecomputePeaks(ls) = [k \in 1..K |-> Perfect(ls, h[k], Offsets(Len(ls))[k - 1])]
<1>1. PICK n \in Nat, at \in {Offsets(Len(ls))} : n = Len(ls) /\ at = Offsets(n)
  OBVIOUS
<1>2. at \in [0..n -> 0..n]
  BY <1>1, OffsetsUnfold
<1>3. /\ K \in 0..n /\ h \in [1..K -> 0..n]
      /\ \A k \in 1..K : /\ MountainSize(n - at[k - 1]) = Pow2[h[k]]
                         /\ at[k] = at[k - 1] + Pow2[h[k]]
                         /\ at[k - 1] < n
      /\ \A k \in K..n : at[k] = n
  BY <1>1 DEF IsWalk
<1> DEFINE mountains == {k \in DOMAIN at : at[k] < n}
<1>4. mountains = 0..(K - 1)
  <2>1. ASSUME NEW k \in 0..n  PROVE at[k] < n <=> k < K
    <3>1. CASE k < K
      <4>1. k + 1 \in 1..K /\ (k + 1) - 1 = k
        BY <1>3, <3>1
      <4> QED BY <1>3, <3>1, <4>1
    <3>2. CASE ~ (k < K)
      <4>1. k \in K..n
        BY <1>3, <3>2
      <4> QED BY <1>3, <3>2, <4>1
    <3> QED BY <3>1, <3>2
  <2>2. DOMAIN at = 0..n
    BY <1>2
  <2> QED BY <1>3, <2>1, <2>2
<1>5. Cardinality(mountains) = K
  <2>1. 0 \in Int /\ K - 1 \in Int
    BY <1>3
  <2>2. Cardinality(0..(K - 1)) = IF 0 > K - 1 THEN 0 ELSE ((K - 1) - 0) + 1
    BY <2>1, FS_Interval
  <2>3. Cardinality(0..(K - 1)) = K
    <3>1. CASE K = 0
      BY <2>2, <3>1
    <3>2. CASE K # 0
      <4>1. ~ (0 > K - 1) /\ ((K - 1) - 0) + 1 = K
        BY <1>3, <3>2
      <4> QED BY <2>2, <4>1
    <3> QED BY <3>1, <3>2
  <2> QED BY <1>4, <2>3
<1>6. RecomputePeaks(ls) = [k \in 1..Cardinality(mountains) |->
                              BuildMerkleTree(ls, at[k - 1], MountainSize(n - at[k - 1]))]
  BY <1>1, Zenon DEF RecomputePeaks
<1> HIDE DEF mountains
<1>7. ASSUME NEW k \in 1..K
      PROVE  BuildMerkleTree(ls, at[k - 1], MountainSize(n - at[k - 1])) = Perfect(ls, h[k], at[k - 1])
  <2>1. k - 1 \in 0..n /\ k \in 0..n /\ h[k] \in Nat
    BY <1>3
  <2>2. at[k - 1] \in Nat /\ at[k] \in 0..n
    BY <1>2, <2>1
  <2>3. at[k - 1] + Pow2[h[k]] <= Len(ls)
    <3>1. at[k] = at[k - 1] + Pow2[h[k]] /\ at[k] <= n
      BY <1>3, <2>2
    <3> QED BY <1>1, <3>1
  <2>4. BuildMerkleTree(ls, at[k - 1], Pow2[h[k]]) = Perfect(ls, h[k], at[k - 1])
    BY <2>1, <2>2, <2>3, BuildsPerfect
  <2> QED BY <1>3, <2>4
<1> QED BY <1>1, <1>5, <1>6, <1>7

---------------------------------------------------------------------------
(* What is always so.                                                      *)

\* A list of leaves the bounds allow, and what a dump and a proof of it hold.
IsRange(ls) == ls \in Seq(Words) /\ Len(ls) <= MaxLeaves
DumpOf(ls) == [leaves |-> ls, peaks |-> RecomputePeaks(ls), root |-> Root(RecomputePeaks(ls)),
               count |-> Len(ls)]
CompactOf(ls, i) == [leaf |-> ls[i + 1], proof |-> ProofOf(ls, i),
                     root |-> Root(RecomputePeaks(ls)), index |-> i]

\* The peaks of the range and those of the dump were computed from the leaves they stand with,
\* so a restored range needs none computed; and a proof in a client's hands was computed from
\* the leaves of its moment.
RangeInv ==
  /\ IsRange(leaves) /\ count = Len(leaves) /\ peaks = RecomputePeaks(leaves)
  /\ \E ls : IsRange(ls) /\ saved = DumpOf(ls)
  /\ IsFiniteSet(issued) /\ Cardinality(issued) <= MaxIssued
  /\ \A p \in issued : \E ls, i : /\ IsRange(ls) /\ i \in 0..(Len(ls) - 1)
                                  /\ p = [compact |-> CompactOf(ls, i), of |-> ls]

\* An empty range has no peaks, as from recompute_peaks.
LEMMA NoLeavesNoPeaks == RecomputePeaks(<<>>) = <<>>
<1>1. PICK K, h : IsWalk(0, K, h)
  BY WalkArrives
<1>2. PICK ls : ls = <<>>
  OBVIOUS
<1>3. RecomputePeaks(ls) = [k \in 1..K |-> Perfect(ls, h[k], Offsets(0)[k - 1])]
  <2>1. ls \in Seq(Words) /\ Len(ls) = 0
    BY <1>2
  <2>2. IsWalk(Len(ls), K, h)
    BY <1>1, <2>1
  <2>3. RecomputePeaks(ls) = [k \in 1..K |-> Perfect(ls, h[k], Offsets(Len(ls))[k - 1])]
    BY <2>1, <2>2, PeaksOfWalk
  <2> QED BY <2>1, <2>3
<1>4. K = 0
  BY <1>1 DEF IsWalk
<1> QED BY <1>2, <1>3, <1>4

\* What to_json writes is a function of the leaves.
LEMMA JsonIsDump == RangeInv => ToJson = DumpOf(leaves)
BY DEF RangeInv, ToJson, DumpOf

\* A new range is in the invariant.
LEMMA RangeInitially == MerkleInit => RangeInv
<1> SUFFICES ASSUME MerkleInit  PROVE RangeInv
  OBVIOUS
<1>1. /\ leaves = <<>> /\ peaks = <<>> /\ count = 0
      /\ saved = ToJson
      /\ issued = {}
  BY DEF MerkleInit
<1>2. IsRange(<<>>) /\ Len(<<>>) = 0
  BY BoundIsNat DEF IsRange
<1>3. saved = DumpOf(<<>>)
  BY <1>1, <1>2, NoLeavesNoPeaks DEF ToJson, DumpOf
<1>4. IsFiniteSet(issued) /\ Cardinality(issued) <= MaxIssued
  <2>1. MaxIssued \in Nat
    BY BoundsAssumption
  <2> QED BY <1>1, <2>1, FS_EmptySet
<1> QED BY <1>1, <1>2, <1>3, <1>4, NoLeavesNoPeaks DEF RangeInv

\* append() keeps it: the peaks are computed anew.
LEMMA AppendKeepsRange ==
  ASSUME RangeInv, NEW word \in Words, AppendLeaf(word)
  PROVE  RangeInv'
<1>1. /\ Len(leaves) < MaxLeaves
      /\ leaves' = Append(leaves, word)
      /\ count' = count + 1
      /\ peaks' = RecomputePeaks(leaves')
      /\ saved' = saved /\ issued' = issued
  BY DEF AppendLeaf, Counted
<1>2. leaves \in Seq(Words) /\ count = Len(leaves)
  BY DEF RangeInv, IsRange
<1>3. leaves' \in Seq(Words) /\ Len(leaves') = Len(leaves) + 1 /\ Len(leaves) \in Nat
  BY <1>1, <1>2
<1>4. IsRange(leaves') /\ count' = Len(leaves')
  BY <1>1, <1>2, <1>3, BoundIsNat DEF IsRange
<1> QED BY <1>1, <1>4 DEF RangeInv

\* So does handing out a proof.
LEMMA IssueKeepsRange ==
  ASSUME RangeInv, NEW index \in 0..(MaxLeaves - 1), IssueProof(index)
  PROVE  RangeInv'
<1> DEFINE new == [compact |-> CompactProof(index), of |-> leaves]
<1>1. /\ index < Len(leaves)
      /\ Cardinality(issued) < MaxIssued
      /\ issued' = issued \union {new}
      /\ leaves' = leaves /\ peaks' = peaks /\ count' = count /\ saved' = saved
  BY DEF IssueProof
<1>2. index \in 0..(Len(leaves) - 1) /\ IsRange(leaves) /\ peaks = RecomputePeaks(leaves)
  BY <1>1 DEF RangeInv, IsRange
<1>3. new = [compact |-> CompactOf(leaves, index), of |-> leaves]
  BY <1>2 DEF CompactProof, CompactOf
<1>4. IsFiniteSet(issued') /\ Cardinality(issued') <= MaxIssued
  <2>1. IsFiniteSet(issued) /\ MaxIssued \in Nat
    BY BoundsAssumption DEF RangeInv
  <2>2. Cardinality(issued) \in Nat
    BY <2>1, FS_CardinalityType
  <2>3. /\ IsFiniteSet(issued \union {new})
        /\ Cardinality(issued \union {new})
             = IF new \in issued THEN Cardinality(issued) ELSE Cardinality(issued) + 1
    BY <2>1, FS_AddElement
  <2> HIDE DEF new
  <2> QED BY <1>1, <2>1, <2>2, <2>3
<1>5. \A p \in issued' : \E ls, i : /\ IsRange(ls) /\ i \in 0..(Len(ls) - 1)
                                    /\ p = [compact |-> CompactOf(ls, i), of |-> ls]
  <2> HIDE DEF new
  <2>1. \A p \in issued : \E ls, i : /\ IsRange(ls) /\ i \in 0..(Len(ls) - 1)
                                     /\ p = [compact |-> CompactOf(ls, i), of |-> ls]
    BY DEF RangeInv
  <2> QED BY <1>1, <1>2, <1>3, <2>1
<1> QED BY <1>1, <1>4, <1>5 DEF RangeInv

\* So does a dump: it has the peaks of its own leaves.
LEMMA SaveKeepsRange ==
  ASSUME RangeInv, Save
  PROVE  RangeInv'
<1>1. saved' = DumpOf(leaves) /\ IsRange(leaves)
  BY JsonIsDump DEF Save, RangeInv
<1> QED BY <1>1 DEF Save, RangeInv

\* So does a restore, which takes the peaks of the dump as they are.
LEMMA LoadKeepsRange ==
  ASSUME RangeInv, Load
  PROVE  RangeInv'
<1>1. PICK ls : IsRange(ls) /\ saved = DumpOf(ls)
  BY DEF RangeInv
<1>2. leaves' = ls /\ peaks' = RecomputePeaks(ls) /\ count' = Len(ls)
  BY <1>1 DEF Load, DumpOf
<1>3. saved' = saved /\ issued' = issued
  BY DEF Load
<1> QED BY <1>1, <1>2, <1>3 DEF RangeInv

\* The invariant holds in every state.
LEMMA RangeAlways == MerkleSpec => []RangeInv
<1>1. MerkleInit => RangeInv
  BY RangeInitially
<1>2. RangeInv /\ [MerkleNext]_merkleVars => RangeInv'
  <2> SUFFICES ASSUME RangeInv, [MerkleNext]_merkleVars  PROVE RangeInv'
    OBVIOUS
  <2>1. ASSUME NEW word \in Words, AppendLeaf(word)  PROVE RangeInv'
    BY <2>1, AppendKeepsRange
  <2>2. ASSUME NEW index \in 0..(MaxLeaves - 1), IssueProof(index)  PROVE RangeInv'
    BY <2>2, IssueKeepsRange
  <2>3. CASE Save
    BY <2>3, SaveKeepsRange
  <2>4. CASE Load
    BY <2>4, LoadKeepsRange
  <2>5. CASE UNCHANGED merkleVars
    BY <2>5 DEF merkleVars, RangeInv
  <2> QED BY <2>1, <2>2, <2>3, <2>4, <2>5 DEF MerkleNext
<1> QED BY <1>1, <1>2, PTL DEF MerkleSpec

\* The two counts of the leaves agree, in the range and in the dump (append, from_json).
THEOREM MerkleTypeCorrect == MerkleSpec => []MerkleTypeOK
<1>1. RangeInv => MerkleTypeOK
  BY DEF RangeInv, MerkleTypeOK, IsRange, DumpOf
<1> QED BY <1>1, RangeAlways, PTL

\* The peaks are the perfect trees over the binary digits of the leaf count, for a range of
\* any size, computed or restored (recompute_peaks, from_json).
THEOREM PeaksArePerfectTrees == MerkleSpec => []PeaksArePerfect
<1>1. RangeInv => PeaksArePerfect
  <2> SUFFICES ASSUME RangeInv  PROVE PeaksArePerfect
    OBVIOUS
  <2>1. PICK n \in Nat : n = Len(leaves) /\ leaves \in Seq(Words) /\ peaks = RecomputePeaks(leaves)
    BY DEF RangeInv, IsRange
  <2>2. PICK K, h : IsWalk(n, K, h)
    BY WalkArrives
  <2>3. peaks = [k \in 1..K |-> Perfect(leaves, h[k], Offsets(n)[k - 1])]
    BY <2>1, <2>2, PeaksOfWalk
  <2>4. /\ \A k \in 1..K : StartOf(n, h[k]) = Offsets(n)[k - 1]
        /\ \A b \in Bits(n) : \E k \in 1..K : h[k] = b
        /\ Cardinality(Bits(n)) = K
        /\ \A k \in 1..K : Cardinality({c \in Bits(n) : c >= h[k]}) = k
    BY <2>2, WalkIsDigits
  <2>5. Len(peaks) = Cardinality(Bits(n))
    BY <2>2, <2>3, <2>4 DEF IsWalk
  <2>6. ASSUME NEW b \in Bits(n)
        PROVE  peaks[Cardinality({c \in Bits(n) : c >= b})] = Perfect(leaves, b, StartOf(n, b))
    <3>1. PICK k \in 1..K : h[k] = b
      BY <2>4
    <3>2. Cardinality({c \in Bits(n) : c >= b}) = k /\ StartOf(n, b) = Offsets(n)[k - 1]
      BY <2>4, <3>1
    <3> QED BY <2>3, <3>1, <3>2
  <2> QED BY <2>1, <2>5, <2>6 DEF PeaksArePerfect
<1> QED BY <1>1, RangeAlways, PTL

---------------------------------------------------------------------------
(* What a root says.                                                       *)

\* A tree of height h over the leaves of ls behind `from`.
IsTreeIn(ls, h, from) == h \in Nat /\ from \in Nat /\ from + Pow2[h] <= Len(ls)

\* A tree above a leaf is the pair of its halves.
LEMMA HalvesOfTree ==
  ASSUME NEW ls, IsRange(ls), NEW h \in Nat, NEW from, IsTreeIn(ls, h + 1, from)
  PROVE  /\ IsTreeIn(ls, h, from) /\ IsTreeIn(ls, h, from + Pow2[h])
         /\ Perfect(ls, h + 1, from) = <<Perfect(ls, h, from), Perfect(ls, h, from + Pow2[h])>>
<1>1. PICK p \in Nat : p = Pow2[h] /\ Pow2[h + 1] = 2 * p
  BY Pow2Grows, Pow2Unfolds
<1>2. from \in Nat /\ from + (2 * p) <= Len(ls) /\ Len(ls) \in Nat
  BY <1>1 DEF IsTreeIn, IsRange
<1>3. from + p \in Nat /\ from + p <= Len(ls) /\ (from + p) + p <= Len(ls)
  BY <1>2
<1>4. Perfect(ls, h + 1, from) = <<Perfect(ls, h, from), Perfect(ls, h, from + Pow2[h])>>
  BY <1>2, PerfectUnfolds
<1> QED BY <1>1, <1>2, <1>3, <1>4 DEF IsTreeIn

\* The next `size` leaves behind two places are the same.
SameLeaves(ls, from, ms, at, size) == \A i \in 1..size : ls[from + i] = ms[at + i]

\* Equal trees of one height have the same leaves.
LEMMA TreeCommits ==
  ASSUME NEW ls, IsRange(ls), NEW ms, IsRange(ms)
  PROVE  \A g, from, at :
           IsTreeIn(ls, g, from) /\ IsTreeIn(ms, g, at) /\ Perfect(ls, g, from) = Perfect(ms, g, at)
           => SameLeaves(ls, from, ms, at, Pow2[g])
<1> DEFINE Commits(g) == \A from, at :
             IsTreeIn(ls, g, from) /\ IsTreeIn(ms, g, at) /\ Perfect(ls, g, from) = Perfect(ms, g, at)
             => SameLeaves(ls, from, ms, at, Pow2[g])
           P == {g \in Nat : Commits(g)}
<1>1. 0 \in P
  <2> SUFFICES ASSUME NEW from, NEW at, IsTreeIn(ls, 0, from), IsTreeIn(ms, 0, at),
                      Perfect(ls, 0, from) = Perfect(ms, 0, at)
               PROVE  SameLeaves(ls, from, ms, at, Pow2[0])
    OBVIOUS
  <2>1. from \in Nat /\ at \in Nat /\ Pow2[0] = 1
    BY Pow2Unfolds DEF IsTreeIn
  <2>2. Perfect(ls, 0, from) = ls[from + 1] /\ Perfect(ms, 0, at) = ms[at + 1]
    BY <2>1, PerfectUnfolds
  <2>3. \A i \in 1..Pow2[0] : ls[from + i] = ms[at + i]
    BY <2>1, <2>2
  <2> QED BY <2>3 DEF SameLeaves
<1>2. ASSUME NEW g \in Nat, g \in P  PROVE g + 1 \in P
  <2> SUFFICES ASSUME NEW from, NEW at, IsTreeIn(ls, g + 1, from), IsTreeIn(ms, g + 1, at),
                      Perfect(ls, g + 1, from) = Perfect(ms, g + 1, at)
               PROVE  SameLeaves(ls, from, ms, at, Pow2[g + 1])
    OBVIOUS
  <2>3. /\ IsTreeIn(ls, g, from) /\ IsTreeIn(ls, g, from + Pow2[g])
        /\ Perfect(ls, g + 1, from) = <<Perfect(ls, g, from), Perfect(ls, g, from + Pow2[g])>>
    BY HalvesOfTree
  <2>4. /\ IsTreeIn(ms, g, at) /\ IsTreeIn(ms, g, at + Pow2[g])
        /\ Perfect(ms, g + 1, at) = <<Perfect(ms, g, at), Perfect(ms, g, at + Pow2[g])>>
    BY HalvesOfTree
  <2>5. /\ Perfect(ls, g, from) = Perfect(ms, g, at)
        /\ Perfect(ls, g, from + Pow2[g]) = Perfect(ms, g, at + Pow2[g])
    BY <2>3, <2>4
  <2>6. /\ SameLeaves(ls, from, ms, at, Pow2[g])
        /\ SameLeaves(ls, from + Pow2[g], ms, at + Pow2[g], Pow2[g])
    BY <1>2, <2>3, <2>4, <2>5
  <2>7. PICK p \in Nat : p = Pow2[g] /\ Pow2[g + 1] = 2 * p
    BY Pow2Grows, Pow2Unfolds
  <2>8. from \in Nat /\ at \in Nat
    BY DEF IsTreeIn
  <2>9. ASSUME NEW i \in 1..(2 * p)  PROVE ls[from + i] = ms[at + i]
    <3>1. CASE i \in 1..p
      BY <2>6, <2>7, <3>1 DEF SameLeaves
    <3>2. CASE i \notin 1..p
      <4>1. PICK x \in 1..p : i = p + x
        <5>1. i - p \in 1..p /\ i = p + (i - p)
          BY <3>2
        <5> QED BY <5>1
      <4>2. ls[(from + p) + x] = ms[(at + p) + x]
        BY <2>6, <2>7 DEF SameLeaves
      <4>3. (from + p) + x = from + i /\ (at + p) + x = at + i
        BY <2>8, <4>1
      <4> QED BY <4>2, <4>3
    <3> QED BY <3>1, <3>2
  <2> QED BY <2>6, <2>7, <2>9 DEF SameLeaves
<1>3. \A g \in Nat : g \in P
  <2> HIDE DEF P
  <2> QED BY <1>1, <1>2, NatSetInduction
<1>4. \A g : g \in Nat => Commits(g)
  <2> HIDE DEF Commits
  <2> QED BY <1>3
<1> QED BY <1>4 DEF IsTreeIn

\* The mountains of a range, as trees in it.
LEMMA MountainsAreTrees ==
  ASSUME NEW ls, IsRange(ls), NEW K, NEW h, IsWalk(Len(ls), K, h)
  PROVE  /\ K \in Nat /\ RecomputePeaks(ls) = [k \in 1..K |-> RecomputePeaks(ls)[k]]
         /\ \A k \in 1..K : /\ IsTreeIn(ls, h[k], Offsets(Len(ls))[k - 1])
                            /\ RecomputePeaks(ls)[k] = Perfect(ls, h[k], Offsets(Len(ls))[k - 1])
                            /\ Offsets(Len(ls))[k] = Offsets(Len(ls))[k - 1] + Pow2[h[k]]
         /\ Offsets(Len(ls))[0] = 0 /\ Offsets(Len(ls))[K] = Len(ls)
<1>1. PICK n \in Nat, at \in {Offsets(Len(ls))} : n = Len(ls) /\ at = Offsets(n) /\ ls \in Seq(Words)
  BY DEF IsRange
<1>2. at \in [0..n -> 0..n] /\ at[0] = 0
  BY <1>1, OffsetsUnfold
<1>3. /\ K \in 0..n /\ h \in [1..K -> 0..n]
      /\ \A k \in 1..K : at[k] = at[k - 1] + Pow2[h[k]]
      /\ \A k \in K..n : at[k] = n
  BY <1>1 DEF IsWalk
<1>4. RecomputePeaks(ls) = [k \in 1..K |-> Perfect(ls, h[k], at[k - 1])]
  BY <1>1, PeaksOfWalk
<1>5. ASSUME NEW k \in 1..K
      PROVE  IsTreeIn(ls, h[k], at[k - 1])
  <2>1. k - 1 \in 0..n /\ k \in 0..n /\ h[k] \in Nat
    BY <1>3
  <2>2. at[k - 1] \in Nat /\ at[k] <= n
    BY <1>2, <2>1
  <2>3. at[k - 1] + Pow2[h[k]] <= Len(ls)
    BY <1>1, <1>3, <2>2
  <2> QED BY <2>1, <2>2, <2>3 DEF IsTreeIn
<1>6. at[K] = n /\ K \in Nat
  BY <1>3
<1> QED BY <1>1, <1>2, <1>3, <1>4, <1>5, <1>6

\* Equal peaks over as many leaves have been computed from equal leaves: the heights of the
\* mountains are those of the number.
LEMMA PeaksCommit ==
  ASSUME NEW ls, IsRange(ls), NEW ms, IsRange(ms), Len(ls) = Len(ms),
         RecomputePeaks(ls) = RecomputePeaks(ms)
  PROVE  ls = ms
<1>1. PICK n \in Nat, at \in {Offsets(Len(ls))} : n = Len(ls) /\ n = Len(ms) /\ at = Offsets(n)
  BY DEF IsRange
<1>2. PICK K, h : IsWalk(n, K, h)
  BY WalkArrives
<1>3. /\ K \in Nat
      /\ \A k \in 1..K : /\ IsTreeIn(ls, h[k], at[k - 1])
                         /\ RecomputePeaks(ls)[k] = Perfect(ls, h[k], at[k - 1])
                         /\ at[k] = at[k - 1] + Pow2[h[k]]
      /\ at[0] = 0 /\ at[K] = n
  BY <1>1, <1>2, MountainsAreTrees
<1>4. \A k \in 1..K : /\ IsTreeIn(ms, h[k], at[k - 1])
                      /\ RecomputePeaks(ms)[k] = Perfect(ms, h[k], at[k - 1])
  BY <1>1, <1>2, MountainsAreTrees
<1> DEFINE Same(k) == at[k] \in Nat /\ \A i \in 1..at[k] : ls[i] = ms[i]
           P == {k \in Nat : k <= K => Same(k)}
<1>7. 0 \in P
  BY <1>3
<1>8. ASSUME NEW k \in Nat, k \in P  PROVE k + 1 \in P
  <2> SUFFICES ASSUME k + 1 <= K  PROVE Same(k + 1)
    OBVIOUS
  <2>1. k + 1 \in 1..K /\ (k + 1) - 1 = k /\ Same(k)
    BY <1>3, <1>8
  <2>2. /\ IsTreeIn(ls, h[k + 1], at[k]) /\ IsTreeIn(ms, h[k + 1], at[k])
        /\ Perfect(ls, h[k + 1], at[k]) = Perfect(ms, h[k + 1], at[k])
        /\ at[k + 1] = at[k] + Pow2[h[k + 1]]
    BY <1>3, <1>4, <2>1
  <2>3. SameLeaves(ls, at[k], ms, at[k], Pow2[h[k + 1]])
    BY <2>2, TreeCommits
  <2>4. PICK p \in Nat, from \in Nat : p = Pow2[h[k + 1]] /\ from = at[k] /\ at[k + 1] = from + p
    <3>1. h[k + 1] \in Nat
      BY <2>2 DEF IsTreeIn
    <3>2. Pow2[h[k + 1]] \in Nat
      BY <3>1, Pow2Grows
    <3> QED BY <2>1, <2>2, <3>2
  <2>6. ASSUME NEW i \in 1..(from + p)  PROVE ls[i] = ms[i]
    <3>1. CASE i \in 1..from
      BY <2>1, <2>4, <3>1
    <3>2. CASE i \notin 1..from
      <4>1. PICK x \in 1..p : i = from + x
        <5>1. i - from \in 1..p /\ i = from + (i - from)
          BY <3>2
        <5> QED BY <5>1
      <4> QED BY <2>3, <2>4, <4>1 DEF SameLeaves
    <3> QED BY <3>1, <3>2
  <2> QED BY <2>4, <2>6
<1>9. Same(K)
  <2> HIDE DEF P
  <2>1. K \in P
    BY <1>3, <1>7, <1>8, NatSetInduction
  <2> QED BY <1>3, <2>1 DEF P
<1>10. \A i \in 1..n : ls[i] = ms[i]
  BY <1>3, <1>9
<1>11. ls = [i \in 1..n |-> ls[i]] /\ ms = [i \in 1..n |-> ms[i]]
  BY <1>1 DEF IsRange
<1> HIDE DEF P, Same
<1> QED BY <1>10, <1>11

\* A range has no peaks when it has no leaves.
LEMMA PeaksOfSome ==
  ASSUME NEW ls, IsRange(ls)
  PROVE  RecomputePeaks(ls) = <<>> <=> Len(ls) = 0
<1>1. PICK n \in Nat : n = Len(ls)
  BY DEF IsRange
<1>2. PICK K, h : IsWalk(n, K, h)
  BY WalkArrives
<1>3. /\ K \in Nat /\ RecomputePeaks(ls) = [k \in 1..K |-> RecomputePeaks(ls)[k]]
      /\ Offsets(n)[0] = 0 /\ Offsets(n)[K] = n
  BY <1>1, <1>2, MountainsAreTrees
<1>4. K \in 0..n
  BY <1>2 DEF IsWalk
<1>5. DOMAIN RecomputePeaks(ls) = 1..K
  BY <1>3
<1>6. ASSUME RecomputePeaks(ls) = <<>>  PROVE n = 0
  <2>1. 1..K = {}
    BY <1>5, <1>6
  <2>2. K = 0
    BY <1>3, <2>1
  <2> QED BY <1>3, <2>2
<1>7. ASSUME n = 0  PROVE RecomputePeaks(ls) = <<>>
  <2>1. K = 0
    BY <1>4, <1>7
  <2> QED BY <1>3, <2>1
<1> QED BY <1>1, <1>6, <1>7

\* Equal roots over as many leaves come from equal peaks, and so from equal leaves.
LEMMA RootOfPeaksCommits ==
  ASSUME NEW ls, IsRange(ls), NEW ms, IsRange(ms), Len(ls) = Len(ms),
         Root(RecomputePeaks(ls)) = Root(RecomputePeaks(ms))
  PROVE  ls = ms
<1>1. RecomputePeaks(ls) = RecomputePeaks(ms)
  BY PeaksOfSome DEF Root, Hash
<1> QED BY <1>1, PeaksCommit

\* A root and a number of leaves stand for one list of leaves of any size: of the range, of
\* a dump, of the moment a proof was made (root, to_json, compact_proof).
THEOREM RootsCommit == MerkleSpec => []RootCommits
<1>1. RangeInv => RootCommits
  <2> SUFFICES ASSUME RangeInv  PROVE RootCommits
    OBVIOUS
  <2>1. IsRange(leaves) /\ peaks = RecomputePeaks(leaves) /\ count = Len(leaves)
    BY DEF RangeInv
  <2>2. saved.root = Root(peaks) /\ saved.count = count <=> saved.leaves = leaves
    <3>1. PICK ls : IsRange(ls) /\ saved = DumpOf(ls)
      BY DEF RangeInv
    <3>2. saved.root = Root(RecomputePeaks(ls)) /\ saved.leaves = ls /\ saved.count = Len(ls)
      BY <3>1 DEF DumpOf
    <3> QED BY <2>1, <3>1, <3>2, RootOfPeaksCommits
  <2>3. ASSUME NEW p \in issued
        PROVE  p.compact.root = Root(peaks) /\ Len(p.of) = Len(leaves) <=> p.of = leaves
    <3>1. PICK ls, i : IsRange(ls) /\ p = [compact |-> CompactOf(ls, i), of |-> ls]
      BY DEF RangeInv
    <3>2. p.compact.root = Root(RecomputePeaks(ls)) /\ p.of = ls
      BY <3>1 DEF CompactOf
    <3> QED BY <2>1, <3>1, <3>2, RootOfPeaksCommits
  <2> QED BY <2>2, <2>3 DEF RootCommits
<1> QED BY <1>1, RangeAlways, PTL

---------------------------------------------------------------------------
(* What a proof says.                                                      *)

\* Halving once more halves the place.
LEMMA HalveUnfolds ==
  ASSUME NEW pos \in Nat
  PROVE  /\ Halve(pos, 0) = pos
         /\ \A k \in Nat : Halve(pos, k) \in Nat /\ Halve(pos, k + 1) = Halve(pos, k) \div 2
<1>1. Halve(pos, 0) = pos
  BY Pow2Unfolds DEF Halve
<1>2. ASSUME NEW k \in Nat
      PROVE  Halve(pos, k) \in Nat /\ Halve(pos, k + 1) = Halve(pos, k) \div 2
  <2>1. PICK p \in Nat : p = Pow2[k] /\ Pow2[k + 1] = 2 * p /\ p > 0
    <3>1. Pow2[k] \in Nat /\ Pow2[k] > 0 /\ Pow2[k + 1] = 2 * Pow2[k]
      BY Pow2Grows, Pow2Unfolds
    <3> QED BY <3>1
  <2>2. pos \div p \in Nat
    BY <2>1, DivMod
  <2>3. pos \div (2 * p) = (pos \div p) \div 2
    BY <2>1, DivTwice
  <2> QED BY <2>1, <2>2, <2>3 DEF Halve
<1> QED BY <1>1, <1>2

\* After k halvings a place in a tree of height b is a place in its level k.
LEMMA HalfIsBelow ==
  ASSUME NEW pos \in Nat, NEW b \in Nat, pos < Pow2[b]
  PROVE  \A k \in 0..b : Halve(pos, k) < Pow2[b - k]
<1> DEFINE P == {k \in Nat : k <= b => Halve(pos, k) < Pow2[b - k]}
<1>1. 0 \in P
  BY HalveUnfolds, b - 0 = b
<1>2. ASSUME NEW k \in Nat, k \in P  PROVE k + 1 \in P
  <2> SUFFICES ASSUME k + 1 <= b  PROVE Halve(pos, k + 1) < Pow2[b - (k + 1)]
    OBVIOUS
  <2>1. b - (k + 1) \in Nat /\ (b - (k + 1)) + 1 = b - k
    OBVIOUS
  <2>2. PICK p \in Nat : p = Pow2[b - (k + 1)] /\ Pow2[b - k] = 2 * p
    <3>1. Pow2[b - (k + 1)] \in Nat /\ Pow2[(b - (k + 1)) + 1] = 2 * Pow2[b - (k + 1)]
      BY <2>1, Pow2Grows, Pow2Unfolds
    <3> QED BY <2>1, <3>1
  <2>3. PICK q \in Nat : q = Halve(pos, k) /\ Halve(pos, k + 1) = q \div 2
    <3>1. Halve(pos, k) \in Nat /\ Halve(pos, k + 1) = Halve(pos, k) \div 2
      BY HalveUnfolds
    <3> QED BY <3>1
  <2>4. q < 2 * p
    BY <1>2, <2>2, <2>3
  <2>5. q \div 2 < p
    BY <2>4
  <2> QED BY <2>2, <2>3, <2>5
<1> HIDE DEF P
<1>3. Nat \subseteq P
  BY <1>1, <1>2, NatSetInduction
<1> QED BY <1>3 DEF P

\* The node over a leaf at height k, and the one beside it.
NodeOver(ls, start, local, k) == Perfect(ls, k, start + (Halve(local, k) * Pow2[k]))
NodeBeside(ls, start, local, k) == Perfect(ls, k, start + (Beside(Halve(local, k)) * Pow2[k]))

\* A node of the path is the pair of the one below it and what stands beside that one.
LEMMA NodeUp ==
  ASSUME NEW ls, NEW start \in Nat, NEW local \in Nat, NEW k \in Nat
  PROVE  NodeOver(ls, start, local, k + 1)
           = IF Halve(local, k) % 2 = 0
             THEN <<NodeOver(ls, start, local, k), NodeBeside(ls, start, local, k)>>
             ELSE <<NodeBeside(ls, start, local, k), NodeOver(ls, start, local, k)>>
<1>1. PICK p \in Nat : p = Pow2[k] /\ Pow2[k + 1] = 2 * p
  <2>1. Pow2[k] \in Nat /\ Pow2[k + 1] = 2 * Pow2[k]
    BY Pow2Grows, Pow2Unfolds
  <2> QED BY <2>1
<1>2. PICK q \in Nat : q = Halve(local, k) /\ Halve(local, k + 1) = q \div 2
  <2>1. Halve(local, k) \in Nat /\ Halve(local, k + 1) = Halve(local, k) \div 2
    BY HalveUnfolds
  <2> QED BY <2>1
<1>3. PICK c \in Nat : c = q \div 2 /\ q = (2 * c) + (q % 2) /\ q % 2 \in {0, 1}
  <2>1. q \div 2 \in Nat /\ q = (2 * (q \div 2)) + (q % 2) /\ q % 2 \in {0, 1}
    OBVIOUS
  <2> QED BY <2>1
<1>4. PICK from \in Nat : from = start + (c * (2 * p))
  <2>1. 2 * p \in Nat
    OBVIOUS
  <2>2. c * (2 * p) \in Nat
    BY <2>1
  <2>3. start + (c * (2 * p)) \in Nat
    BY <2>2
  <2> QED BY <2>3
<1>5. NodeOver(ls, start, local, k + 1) = <<Perfect(ls, k, from), Perfect(ls, k, from + p)>>
  <2>1. NodeOver(ls, start, local, k + 1) = Perfect(ls, k + 1, from)
    BY <1>1, <1>2, <1>3, <1>4 DEF NodeOver
  <2> QED BY <1>1, <2>1, PerfectUnfolds
<1>6. CASE q % 2 = 0
  <2>1. q = 2 * c /\ Beside(q) = (2 * c) + 1
    BY <1>3, <1>6 DEF Beside
  <2>2. start + (q * p) = from /\ start + (Beside(q) * p) = from + p
    BY <1>4, <2>1
  <2>3. /\ NodeOver(ls, start, local, k) = Perfect(ls, k, from)
        /\ NodeBeside(ls, start, local, k) = Perfect(ls, k, from + p)
    BY <1>1, <1>2, <2>2 DEF NodeOver, NodeBeside
  <2> QED BY <1>2, <1>5, <1>6, <2>3
<1>7. CASE q % 2 # 0
  <2>1. q = (2 * c) + 1 /\ Beside(q) = 2 * c
    BY <1>3, <1>7 DEF Beside
  <2>2. start + (q * p) = from + p /\ start + (Beside(q) * p) = from
    BY <1>4, <2>1
  <2>3. /\ NodeOver(ls, start, local, k) = Perfect(ls, k, from + p)
        /\ NodeBeside(ls, start, local, k) = Perfect(ls, k, from)
    BY <1>1, <1>2, <2>2 DEF NodeOver, NodeBeside
  <2> QED BY <1>2, <1>5, <1>7, <2>3
<1> QED BY <1>6, <1>7

\* The path starts at the leaf and ends at the root of the tree.
LEMMA NodeEnds ==
  ASSUME NEW ls, NEW start \in Nat, NEW b \in Nat, NEW local \in Nat, local < Pow2[b]
  PROVE  /\ NodeOver(ls, start, local, 0) = ls[(start + local) + 1]
         /\ NodeOver(ls, start, local, b) = Perfect(ls, b, start)
<1>1. NodeOver(ls, start, local, 0) = Perfect(ls, 0, start + local)
  <2>1. Halve(local, 0) * Pow2[0] = local
    BY HalveUnfolds, Pow2Unfolds
  <2> QED BY <2>1 DEF NodeOver
<1>2. Halve(local, b) = 0
  <2>1. Halve(local, b) < Pow2[b - b] /\ b - b = 0 /\ Halve(local, b) \in Nat
    BY HalfIsBelow, HalveUnfolds
  <2> QED BY <2>1, Pow2Unfolds
<1>3. start + (0 * Pow2[b]) = start
  BY Pow2Grows
<1>4. NodeOver(ls, start, local, b) = Perfect(ls, b, start)
  BY <1>2, <1>3 DEF NodeOver
<1>5. Perfect(ls, 0, start + local) = ls[(start + local) + 1]
  BY start + local \in Nat, PerfectUnfolds
<1> QED BY <1>1, <1>4, <1>5

\* The climb, step by step.
IsClimb(current, leaf, proof, local) ==
  /\ current[0] = leaf
  /\ \A k \in 0..(Len(proof) - 1) :
       current[k + 1] = IF Halve(local, k) % 2 = 0 THEN <<current[k], proof[k + 1]>>
                                                   ELSE <<proof[k + 1], current[k]>>
  /\ Climb(leaf, proof, local) = current[Len(proof)]

\* The equations of the climb (verify, verify_with_root).
LEMMA ClimbUnfolds ==
  ASSUME NEW leaf, NEW proof, Len(proof) \in Nat, NEW local
  PROVE  \E current : IsClimb(current, leaf, proof, local)
<1> DEFINE Next(f, k) == IF k = 0 THEN leaf
                         ELSE IF Halve(local, k - 1) % 2 = 0 THEN HashPair(f[k - 1], proof[k])
                                                             ELSE HashPair(proof[k], f[k - 1])
           Some == {n \in Nat : \E f : f = [k \in 0..n |-> Next(f, k)]}
           current == CHOOSE f : f = [k \in 0..Len(proof) |-> Next(f, k)]
<1>0. Len(proof) \in Nat
  OBVIOUS
<1>1. 0 \in Some
  <2> DEFINE f == [k \in 0..0 |-> leaf]
  <2>1. f = [k \in 0..0 |-> Next(f, k)]
    OBVIOUS
  <2> HIDE DEF f
  <2> QED BY <2>1
<1>2. ASSUME NEW n \in Nat, n \in Some  PROVE n + 1 \in Some
  <2>1. PICK f : f = [k \in 0..n |-> Next(f, k)]
    BY <1>2
  <2> DEFINE g == [k \in 0..(n + 1) |-> IF k = n + 1 THEN Next(f, k) ELSE f[k]]
  <2>2. ASSUME NEW k \in 0..(n + 1)  PROVE g[k] = Next(g, k)
    <3>1. g[k] = Next(f, k)
      <4> HIDE DEF Next
      <4>1. k # n + 1 => f[k] = Next(f, k)
        BY <2>1
      <4> QED BY <4>1
    <3>2. k # 0 => g[k - 1] = f[k - 1]
      OBVIOUS
    <3> HIDE DEF g
    <3>3. Next(g, k) = Next(f, k)
      BY <3>2, Zenon
    <3> HIDE DEF Next
    <3> QED BY <3>1, <3>3
  <2>3. g = [k \in 0..(n + 1) |-> g[k]]
    OBVIOUS
  <2> HIDE DEF g, Next
  <2>4. g = [k \in 0..(n + 1) |-> Next(g, k)]
    BY <2>2, <2>3
  <2> QED BY <2>4
<1>3. current = [k \in 0..Len(proof) |-> Next(current, k)]
  <2>1. Len(proof) \in Some
    <3> HIDE DEF Some
    <3> QED BY <1>0, <1>1, <1>2, NatSetInduction
  <2>2. \E f : f = [k \in 0..Len(proof) |-> Next(f, k)]
    BY <2>1
  <2> HIDE DEF Next
  <2> QED BY <2>2
<1>4. Climb(leaf, proof, local) = current[Len(proof)]
  BY Zenon DEF Climb
<1>5. \A k \in 0..Len(proof) : current[k] = Next(current, k)
  <2> HIDE DEF current, Next
  <2> QED BY <1>3
<1> HIDE DEF current
<1>6. current[0] = leaf
  <2>1. current[0] = Next(current, 0)
    <3> HIDE DEF Next
    <3> QED BY <1>0, <1>5
  <2> QED BY <2>1, Zenon
<1>7. ASSUME NEW k \in 0..(Len(proof) - 1)
      PROVE  current[k + 1] = IF Halve(local, k) % 2 = 0 THEN <<current[k], proof[k + 1]>>
                                                         ELSE <<proof[k + 1], current[k]>>
  <2>1. current[k + 1] = Next(current, k + 1) /\ k + 1 # 0 /\ (k + 1) - 1 = k
    <3> HIDE DEF Next
    <3> QED BY <1>0, <1>5
  <2> QED BY <2>1, Zenon DEF HashPair, Hash
<1> QED BY <1>4, <1>6, <1>7 DEF IsClimb

\* A climb as high as a tree of the range ends up at its root exactly when it went over the
\* nodes of that tree: the word is the leaf, and the proof is what stands beside its path.
Reaches(ls, b, start, word, proof, local) ==
  Climb(word, proof, local) = Perfect(ls, b, start)
  <=> /\ word = ls[(start + local) + 1]
      /\ \A k \in 0..(b - 1) : proof[k + 1] = NodeBeside(ls, start, local, k)

LEMMA ClimbReaches ==
  ASSUME NEW ls, IsRange(ls), NEW b, NEW start, IsTreeIn(ls, b, start),
         NEW word, NEW proof, Len(proof) = b, NEW local, local \in Nat, local < Pow2[b]
  PROVE  Reaches(ls, b, start, word, proof, local)
<1>1. PICK current : IsClimb(current, word, proof, local)
  BY ClimbUnfolds DEF IsTreeIn
<1>2. PICK L \in Nat : L = Len(proof) /\ L = b /\ b \in Nat /\ start \in Nat
  BY DEF IsTreeIn
<1>3. /\ current[0] = word
      /\ \A k \in 0..(L - 1) :
           current[k + 1] = IF Halve(local, k) % 2 = 0 THEN <<current[k], proof[k + 1]>>
                                                       ELSE <<proof[k + 1], current[k]>>
      /\ Climb(word, proof, local) = current[L]
  BY <1>1, <1>2 DEF IsClimb
<1>5. /\ NodeOver(ls, start, local, 0) = ls[(start + local) + 1]
      /\ NodeOver(ls, start, local, b) = Perfect(ls, b, start)
  BY <1>2, NodeEnds
<1>6. ASSUME word = ls[(start + local) + 1],
             \A k \in 0..(b - 1) : proof[k + 1] = NodeBeside(ls, start, local, k)
      PROVE  current[L] = Perfect(ls, b, start)
  <2> DEFINE P == {k \in Nat : k <= b => current[k] = NodeOver(ls, start, local, k)}
  <2>1. 0 \in P
    BY <1>3, <1>5, <1>6
  <2>2. ASSUME NEW k \in Nat, k \in P  PROVE k + 1 \in P
    <3> SUFFICES ASSUME k + 1 <= b  PROVE current[k + 1] = NodeOver(ls, start, local, k + 1)
      OBVIOUS
    <3>1. k \in 0..(b - 1) /\ k \in 0..(L - 1)
      BY <1>2, <1>6
    <3>2. current[k] = NodeOver(ls, start, local, k) /\ proof[k + 1] = NodeBeside(ls, start, local, k)
      BY <1>2, <1>6, <2>2, <3>1
    <3>3. current[k + 1] = IF Halve(local, k) % 2 = 0 THEN <<current[k], proof[k + 1]>>
                                                      ELSE <<proof[k + 1], current[k]>>
      BY <1>3, <3>1
    <3>4. NodeOver(ls, start, local, k + 1)
            = IF Halve(local, k) % 2 = 0
              THEN <<NodeOver(ls, start, local, k), NodeBeside(ls, start, local, k)>>
              ELSE <<NodeBeside(ls, start, local, k), NodeOver(ls, start, local, k)>>
      BY <1>2, NodeUp
    <3> QED BY <3>2, <3>3, <3>4
  <2>3. b \in P
    <3> HIDE DEF P
    <3> QED BY <1>2, <2>1, <2>2, NatSetInduction
  <2> QED BY <1>2, <1>5, <1>6, <2>3
<1>8. ASSUME current[L] = Perfect(ls, b, start)
      PROVE  /\ word = ls[(start + local) + 1]
             /\ \A k \in 0..(b - 1) : proof[k + 1] = NodeBeside(ls, start, local, k)
  <2>1. L = b
    BY <1>2
  <2> DEFINE P == {x \in Nat : x <= b => current[b - x] = NodeOver(ls, start, local, b - x)}
  <2>2. ASSUME NEW k \in 0..(b - 1), current[k + 1] = NodeOver(ls, start, local, k + 1)
        PROVE  /\ current[k] = NodeOver(ls, start, local, k)
               /\ proof[k + 1] = NodeBeside(ls, start, local, k)
    <3>1. current[k + 1] = IF Halve(local, k) % 2 = 0 THEN <<current[k], proof[k + 1]>>
                                                      ELSE <<proof[k + 1], current[k]>>
      BY <1>3, <2>1
    <3>2. NodeOver(ls, start, local, k + 1)
            = IF Halve(local, k) % 2 = 0
              THEN <<NodeOver(ls, start, local, k), NodeBeside(ls, start, local, k)>>
              ELSE <<NodeBeside(ls, start, local, k), NodeOver(ls, start, local, k)>>
      BY <1>2, NodeUp
    <3>3. CASE Halve(local, k) % 2 = 0
      BY <2>2, <3>1, <3>2, <3>3
    <3>4. CASE Halve(local, k) % 2 # 0
      BY <2>2, <3>1, <3>2, <3>4
    <3> QED BY <3>3, <3>4
  <2>3. 0 \in P
    BY <1>2, <1>5, <1>8, <2>1, b - 0 = b
  <2>4. ASSUME NEW x \in Nat, x \in P  PROVE x + 1 \in P
    <3> SUFFICES ASSUME x + 1 <= b
                 PROVE  current[b - (x + 1)] = NodeOver(ls, start, local, b - (x + 1))
      OBVIOUS
    <3>1. b - (x + 1) \in 0..(b - 1) /\ (b - (x + 1)) + 1 = b - x
      BY <1>2
    <3>2. current[b - x] = NodeOver(ls, start, local, b - x)
      BY <1>2, <2>4
    <3> QED BY <2>2, <3>1, <3>2
  <2>5. \A x \in Nat : x \in P
    <3> HIDE DEF P
    <3> QED BY <2>3, <2>4, NatSetInduction
  <2>6. ASSUME NEW k \in 0..b  PROVE current[k] = NodeOver(ls, start, local, k)
    <3>1. b - k \in Nat /\ b - k <= b /\ b - (b - k) = k
      BY <1>2
    <3>2. b - k \in P
      BY <2>5, <3>1
    <3> QED BY <3>1, <3>2
  <2> HIDE DEF P
  <2>7. word = ls[(start + local) + 1]
    BY <1>2, <1>3, <1>5, <2>6
  <2>8. \A k \in 0..(b - 1) : proof[k + 1] = NodeBeside(ls, start, local, k)
    <3>1. \A k \in 0..(b - 1) : k + 1 \in 0..b
      BY <1>2
    <3> QED BY <2>2, <2>6, <3>1
  <2> QED BY <2>7, <2>8
<1> QED BY <1>2, <1>3, <1>6, <1>8 DEF Reaches

\* Exponents add up.
LEMMA PowersMultiply ==
  ASSUME NEW b \in Nat
  PROVE  \A k \in 0..b : Pow2[b - k] * Pow2[k] = Pow2[b]
<1> DEFINE P == {k \in Nat : k <= b => Pow2[b - k] * Pow2[k] = Pow2[b]}
<1>1. 0 \in P
  <2>1. b - 0 = b /\ Pow2[b] \in Nat
    BY Pow2Grows
  <2> QED BY <2>1, Pow2Unfolds
<1>2. ASSUME NEW k \in Nat, k \in P  PROVE k + 1 \in P
  <2> SUFFICES ASSUME k + 1 <= b  PROVE Pow2[b - (k + 1)] * Pow2[k + 1] = Pow2[b]
    OBVIOUS
  <2>1. b - (k + 1) \in Nat /\ (b - (k + 1)) + 1 = b - k
    OBVIOUS
  <2>2. PICK q \in Nat : q = Pow2[b - (k + 1)] /\ Pow2[b - k] = 2 * q
    <3>1. Pow2[b - (k + 1)] \in Nat /\ Pow2[(b - (k + 1)) + 1] = 2 * Pow2[b - (k + 1)]
      BY <2>1, Pow2Grows, Pow2Unfolds
    <3> QED BY <2>1, <3>1
  <2>3. PICK p \in Nat : p = Pow2[k] /\ Pow2[k + 1] = 2 * p
    <3>1. Pow2[k] \in Nat /\ Pow2[k + 1] = 2 * Pow2[k]
      BY Pow2Grows, Pow2Unfolds
    <3> QED BY <3>1
  <2>4. (2 * q) * p = Pow2[b]
    BY <1>2, <2>2, <2>3
  <2>5. (2 * q) * p = q * (2 * p)
    OBVIOUS
  <2> QED BY <2>2, <2>3, <2>4, <2>5
<1> HIDE DEF P
<1>3. Nat \subseteq P
  BY <1>1, <1>2, NatSetInduction
<1> QED BY <1>3 DEF P

\* A smaller quotient, once more, is no larger product.
LEMMA TimesIsMonotone ==
  ASSUME NEW x \in Nat, NEW q \in Nat, NEW p \in Nat, x < q
  PROVE  (x * p) + p <= q * p
<1>1. PICK d \in Nat : q = (x + 1) + d
  <2>1. q - (x + 1) \in Nat /\ q = (x + 1) + (q - (x + 1))
    OBVIOUS
  <2> QED BY <2>1
<1>2. q * p = ((x * p) + p) + (d * p) /\ d * p \in Nat /\ x * p \in Nat
  BY <1>1
<1> QED BY <1>2

\* What stands beside a path lies in the tree.
LEMMA BesideIsInTree ==
  ASSUME NEW local \in Nat, NEW b \in Nat, local < Pow2[b], NEW k \in 0..(b - 1)
  PROVE  /\ Beside(Halve(local, k)) \in 0..(Pow2[b - k] - 1)
         /\ Beside(Halve(local, k)) * Pow2[k] \in Nat
         /\ (Beside(Halve(local, k)) * Pow2[k]) + Pow2[k] <= Pow2[b]
<1>1. k \in Nat /\ b - (k + 1) \in Nat /\ (b - (k + 1)) + 1 = b - k /\ k \in 0..b
  OBVIOUS
<1>2. PICK q \in Nat : q = Pow2[b - (k + 1)] /\ Pow2[b - k] = 2 * q
  <2>1. Pow2[b - (k + 1)] \in Nat /\ Pow2[(b - (k + 1)) + 1] = 2 * Pow2[b - (k + 1)]
    BY <1>1, Pow2Grows, Pow2Unfolds
  <2> QED BY <1>1, <2>1
<1>3. PICK pos \in Nat : pos = Halve(local, k) /\ pos < 2 * q
  <2>1. Halve(local, k) \in Nat /\ Halve(local, k) < Pow2[b - k]
    BY <1>1, HalveUnfolds, HalfIsBelow
  <2> QED BY <1>2, <2>1
<1>4. PICK x \in Nat : x = Beside(pos) /\ x < 2 * q
  <2>1. Beside(pos) \in Nat /\ Beside(pos) < 2 * q
    BY <1>3 DEF Beside
  <2> QED BY <2>1
<1>5. PICK p \in Nat : p = Pow2[k]
  <2>1. Pow2[k] \in Nat
    BY <1>1, Pow2Grows
  <2> QED BY <2>1
<1>6. (x * p) + p <= (2 * q) * p
  <2>1. 2 * q \in Nat
    OBVIOUS
  <2> QED BY <1>4, <2>1, TimesIsMonotone
<1>7. (2 * q) * p = Pow2[b]
  BY <1>1, <1>2, <1>5, PowersMultiply
<1>8. x * p \in Nat /\ x \in 0..((2 * q) - 1)
  BY <1>4
<1> QED BY <1>2, <1>3, <1>4, <1>5, <1>6, <1>7, <1>8

\* Where a leaf is: under which peak, in the mountain of which height from where.
IsPlace(ls, index, k, b, start) ==
  /\ k \in DOMAIN RecomputePeaks(ls) /\ RecomputePeaks(ls)[k] = Perfect(ls, b, start)
  /\ IsTreeIn(ls, b, start) /\ Multiple(start, Pow2[b])
  /\ start <= index /\ index < start + Pow2[b]
  /\ FindPeakForLeaf(Len(ls), index) = [peak |-> k, local |-> index - start, size |-> Pow2[b]]
  /\ MountainOf(ls, index) = Slice(ls, start, Pow2[b])

\* Every leaf has a place.
LEMMA LeafHasPlace ==
  ASSUME NEW ls, IsRange(ls), NEW index \in 0..(Len(ls) - 1)
  PROVE  \E k, b, start : IsPlace(ls, index, k, b, start)
<1>1. PICK n \in Nat : n = Len(ls)
  BY DEF IsRange
<1>2. PICK K, h : IsWalk(n, K, h)
  BY WalkArrives
<1>3. PICK k \in 1..K : IsUnderPeak(n, h, index, k)
  <2>1. index \in 0..(n - 1)
    BY <1>1
  <2> QED BY <1>2, <2>1, LeafIsInOneMountain
<1>4. /\ DOMAIN RecomputePeaks(ls) = 1..K
      /\ IsTreeIn(ls, h[k], Offsets(n)[k - 1])
      /\ RecomputePeaks(ls)[k] = Perfect(ls, h[k], Offsets(n)[k - 1])
  BY <1>1, <1>2, MountainsAreTrees
<1>5. Multiple(Offsets(n)[k - 1], Pow2[h[k]])
  <2>1. Multiple(Offsets(n)[k - 1], Pow2[h[k] + 1])
    BY <1>2, WalkGoesDown
  <2>2. Offsets(n)[k - 1] \in Nat /\ h[k] \in Nat
    BY <1>4 DEF IsTreeIn
  <2> QED BY <2>1, <2>2, MultipleOfLower, h[k] + 1 \in Nat /\ h[k] <= h[k] + 1
<1>6. /\ Offsets(n)[k - 1] <= index /\ index < Offsets(n)[k - 1] + Pow2[h[k]]
      /\ FindPeakForLeaf(n, index) = [peak |-> k, local |-> index - Offsets(n)[k - 1],
                                      size |-> Pow2[h[k]]]
      /\ MountainOf(ls, index) = Slice(ls, Offsets(n)[k - 1], Pow2[h[k]])
  BY <1>1, <1>3 DEF IsUnderPeak
<1>7. IsPlace(ls, index, k, h[k], Offsets(n)[k - 1])
  BY <1>1, <1>4, <1>5, <1>6 DEF IsPlace
<1> QED BY <1>7

\* In mountains of one height a leaf has one place.
LEMMA PlaceOfHeight ==
  ASSUME NEW p \in Nat, NEW index \in Nat, NEW s \in Nat, NEW t \in Nat,
         Multiple(s, p), s <= index, index < s + p,
         Multiple(t, p), t <= index, index < t + p
  PROVE  s = t
<1>1. PICK x \in Nat, y \in Nat : index = s + x /\ index = t + y /\ x < p /\ y < p
  <2>1. index - s \in Nat /\ index - t \in Nat
    OBVIOUS
  <2>2. index = s + (index - s) /\ index = t + (index - t) /\ index - s < p /\ index - t < p
    OBVIOUS
  <2> QED BY <2>1, <2>2
<1>2. (s + x) % p = x /\ (t + y) % p = y
  BY <1>1, RestOfMultiple
<1>3. x = y
  BY <1>1, <1>2
<1> QED BY <1>1, <1>3

\* proof() lists what stands beside the path of the leaf.
LEMMA ProofIsPath ==
  ASSUME NEW ls, IsRange(ls), NEW index \in 0..(Len(ls) - 1), NEW k, NEW b, NEW start,
         IsPlace(ls, index, k, b, start)
  PROVE  /\ Len(ProofOf(ls, index)) = b
         /\ \A j \in 0..(b - 1) :
              ProofOf(ls, index)[j + 1] = NodeBeside(ls, start, index - start, j)
<1>1. PICK local \in Nat : local = index - start /\ local < Pow2[b] /\ b \in Nat /\ start \in Nat
                           /\ index - local = start
  <2>1. start \in Nat /\ b \in Nat /\ start <= index /\ index < start + Pow2[b] /\ index \in Nat
    BY DEF IsPlace, IsTreeIn, IsRange
  <2>2. Pow2[b] \in Nat
    BY <2>1, Pow2Grows
  <2>3. index - start \in Nat /\ index - start < Pow2[b] /\ index - (index - start) = start
    BY <2>1, <2>2
  <2> QED BY <2>1, <2>3
<1>2. Pow2[b] \in Nat /\ start + Pow2[b] <= Len(ls) /\ ls \in Seq(Words)
  BY <1>1, Pow2Grows DEF IsPlace, IsTreeIn, IsRange
<1>3. PICK slice \in Seq(Words) : slice = Slice(ls, start, Pow2[b]) /\ Len(slice) = Pow2[b]
  BY <1>1, <1>2, PerfectInSlice
<1>4. \A g, from \in Nat : from + Pow2[g] <= Pow2[b] =>
        Perfect(slice, g, from) = Perfect(ls, g, start + from)
  BY <1>1, <1>2, <1>3, PerfectInSlice
<1>5. PICK levels : levels = Levels(slice) /\ levels = [j \in 1..(b + 1) |-> PerfectLevel(slice, b, j - 1)]
  BY <1>1, <1>3, LevelsArePerfect
<1>6. ProofOf(ls, index) = [j \in 1..(Len(levels) - 1) |->
                              levels[j][Beside(Halve(local, j - 1)) + 1]]
  <2>1. PICK found : found = FindPeakForLeaf(Len(ls), index) /\ found.local = local
                     /\ found.size = Pow2[b]
    BY <1>1 DEF IsPlace
  <2>2. levels = Levels(Slice(ls, index - found.local, found.size))
    BY <1>1, <1>3, <1>5, <2>1
  <2>3. ProofOf(ls, index) = [j \in 1..(Len(levels) - 1) |->
                                levels[j][Beside(Halve(found.local, j - 1)) + 1]]
    BY <2>1, <2>2, Zenon DEF ProofOf
  <2> QED BY <2>1, <2>3
<1>7. Len(levels) - 1 = b
  <2>1. Len(levels) = b + 1
    BY <1>1, <1>5
  <2> QED BY <1>1, <2>1
<1>8. ASSUME NEW j \in 0..(b - 1)
      PROVE  /\ levels[j + 1][Beside(Halve(local, j)) + 1] = NodeBeside(ls, start, local, j)
             /\ IsTreeIn(ls, j, start + (Beside(Halve(local, j)) * Pow2[j]))
  <2>1. PICK x \in Nat, from \in Nat : /\ x = Beside(Halve(local, j)) /\ x \in 0..(Pow2[b - j] - 1)
                                      /\ from = x * Pow2[j] /\ from + Pow2[j] <= Pow2[b]
    <3>1. /\ Beside(Halve(local, j)) \in 0..(Pow2[b - j] - 1)
          /\ Beside(Halve(local, j)) * Pow2[j] \in Nat
          /\ (Beside(Halve(local, j)) * Pow2[j]) + Pow2[j] <= Pow2[b]
      BY <1>1, BesideIsInTree
    <3>2. Beside(Halve(local, j)) \in Nat
      BY <3>1
    <3> QED BY <3>1, <3>2
  <2>2. j \in Nat /\ j + 1 \in 1..(b + 1) /\ (j + 1) - 1 = j /\ Pow2[j] \in Nat /\ Pow2[b - j] \in Nat
    <3>1. j \in Nat /\ b - j \in Nat
      BY <1>1
    <3> QED BY <1>1, <3>1, Pow2Grows
  <2>3. levels[j + 1] = PerfectLevel(slice, b, j)
    BY <1>5, <2>2
  <2>4. PerfectLevel(slice, b, j)[x + 1] = Perfect(slice, j, from)
    <3>1. x + 1 \in 1..Pow2[b - j] /\ (x + 1) - 1 = x
      <4>1. PICK y \in Nat : y = Pow2[b - j]
        BY <2>2
      <4>2. x \in 0..(y - 1)
        BY <2>1, <4>1
      <4>3. x + 1 \in 1..y /\ (x + 1) - 1 = x
        BY <4>2
      <4> QED BY <4>1, <4>3
    <3> QED BY <2>1, <3>1 DEF PerfectLevel
  <2>5. Perfect(slice, j, from) = Perfect(ls, j, start + from)
    BY <1>4, <2>1, <2>2
  <2>6. start + from \in Nat /\ (start + from) + Pow2[j] <= Len(ls)
    <3>1. PICK n \in Nat, p \in Nat, q \in Nat : n = Len(ls) /\ p = Pow2[j] /\ q = Pow2[b]
      BY <1>2, <2>2
    <3>2. start + q <= n /\ from + p <= q
      BY <1>2, <2>1, <3>1
    <3>3. start + from \in Nat /\ (start + from) + p <= n
      BY <1>1, <3>2
    <3> QED BY <3>1, <3>3
  <2> QED BY <2>1, <2>2, <2>3, <2>4, <2>5, <2>6 DEF NodeBeside, IsTreeIn
<1>9. PICK proof : proof = ProofOf(ls, index)
  OBVIOUS
<1>10. DOMAIN proof = 1..b /\ \A j \in 0..(b - 1) : proof[j + 1] = NodeBeside(ls, start, local, j)
  <2>1. proof = [j \in 1..b |-> levels[j][Beside(Halve(local, j - 1)) + 1]]
    BY <1>6, <1>7, <1>9
  <2>2. ASSUME NEW j \in 0..(b - 1)  PROVE proof[j + 1] = NodeBeside(ls, start, local, j)
    <3>1. j + 1 \in 1..b /\ (j + 1) - 1 = j
      BY <1>1
    <3> QED BY <1>8, <2>1, <3>1
  <2> QED BY <2>1, <2>2
<1>11. Len(proof) = b
  <2>1. proof = [j \in 1..b |-> proof[j]]
    BY <1>6, <1>7, <1>9, <1>10
  <2>2. PICK V : V = {proof[j] : j \in 1..b}
    OBVIOUS
  <2>3. proof \in [1..b -> V]
    <3>1. \A j \in 1..b : proof[j] \in V
      BY <2>2
    <3> QED BY <2>1, <3>1
  <2> QED BY <1>1, <2>3
<1> QED BY <1>1, <1>9, <1>10, <1>11

\* verify() accepts what climbs to the peak the leaf is under.
LEMMA VerifyIsClimb ==
  ASSUME RangeInv, NEW index \in 0..(Len(leaves) - 1), NEW k, NEW b, NEW start,
         IsPlace(leaves, index, k, b, start), NEW word, NEW proof
  PROVE  Verify(word, proof, index) <=> Climb(word, proof, index - start) = Perfect(leaves, b, start)
<1>1. peaks = RecomputePeaks(leaves) /\ IsRange(leaves)
  BY DEF RangeInv
<1>2. /\ k \in DOMAIN peaks /\ peaks[k] = Perfect(leaves, b, start)
      /\ FindPeakForLeaf(Len(leaves), index) = [peak |-> k, local |-> index - start, size |-> Pow2[b]]
  BY <1>1 DEF IsPlace
<1>3. peaks = [j \in DOMAIN peaks |-> peaks[j]]
  <2>1. PICK K, h : IsWalk(Len(leaves), K, h)
    BY <1>1, WalkArrives DEF IsRange
  <2>2. peaks = [j \in 1..K |-> peaks[j]]
    BY <1>1, <2>1, MountainsAreTrees
  <2> QED BY <2>2
<1>4. PICK top : top = Climb(word, proof, index - start)
  OBVIOUS
<1>5. ComputedRoot(word, proof, index) = [j \in DOMAIN peaks |-> IF j = k THEN top ELSE peaks[j]]
  <2>1. PICK found : found = FindPeakForLeaf(Len(leaves), index)
    OBVIOUS
  <2>2. found.peak = k /\ found.local = index - start
    BY <1>2, <2>1
  <2>3. ComputedRoot(word, proof, index)
          = [j \in DOMAIN peaks |-> IF j = found.peak THEN Climb(word, proof, found.local) ELSE peaks[j]]
    BY <2>1, Zenon DEF ComputedRoot, Hash
  <2> QED BY <1>4, <2>2, <2>3
<1>6. Root(peaks) = peaks
  <2>1. peaks # <<>>
    BY <1>2
  <2> QED BY <2>1 DEF Root, Hash
<1>7. index < Len(leaves)
  BY <1>1 DEF IsRange
<1>8. Verify(word, proof, index) <=> [j \in DOMAIN peaks |-> IF j = k THEN top ELSE peaks[j]] = peaks
  BY <1>5, <1>6, <1>7 DEF Verify
<1>9. [j \in DOMAIN peaks |-> IF j = k THEN top ELSE peaks[j]] = peaks <=> top = peaks[k]
  BY <1>2, <1>3
<1> QED BY <1>2, <1>4, <1>8, <1>9

\* The place of a leaf in its mountain.
LEMMA LocalIsInTree ==
  ASSUME NEW ls, IsRange(ls), NEW index \in 0..(Len(ls) - 1), NEW k, NEW b, NEW start,
         IsPlace(ls, index, k, b, start)
  PROVE  /\ b \in Nat /\ start \in Nat /\ index - start \in Nat /\ index - start < Pow2[b]
         /\ start + (index - start) = index /\ ls[index + 1] \in Words
<1>1. start \in Nat /\ b \in Nat /\ start <= index /\ index < start + Pow2[b] /\ index \in Nat
  BY DEF IsPlace, IsTreeIn, IsRange
<1>2. Pow2[b] \in Nat
  BY <1>1, Pow2Grows
<1>3. index - start \in Nat /\ index - start < Pow2[b] /\ start + (index - start) = index
  BY <1>1, <1>2
<1>4. ls[index + 1] \in Words
  BY DEF IsRange
<1> QED BY <1>1, <1>3, <1>4

\* A power says its exponent.
LEMMA PowersDiffer ==
  ASSUME NEW b \in Nat, NEW c \in Nat, Pow2[b] = Pow2[c]
  PROVE  b = c
<1>1. Pow2[b] \in Nat /\ Pow2[b] > 0
  BY Pow2Grows
<1>2. (b < c => 2 * Pow2[b] <= Pow2[c]) /\ (c < b => 2 * Pow2[c] <= Pow2[b])
  BY Pow2Grows
<1> QED BY <1>1, <1>2

\* The length of a mountain says its height.
LEMMA MountainLength ==
  ASSUME NEW ls, IsRange(ls), NEW j \in 0..(Len(ls) - 1), NEW k, NEW b, NEW start,
         IsPlace(ls, j, k, b, start)
  PROVE  Len(MountainOf(ls, j)) = Pow2[b]
<1>1. b \in Nat /\ start \in Nat
  BY LocalIsInTree
<1>2. Pow2[b] \in Nat /\ start + Pow2[b] <= Len(ls) /\ ls \in Seq(Words)
  BY <1>1, Pow2Grows DEF IsPlace, IsTreeIn, IsRange
<1>3. Len(Slice(ls, start, Pow2[b])) = Pow2[b]
  BY <1>1, <1>2, PerfectInSlice
<1>4. MountainOf(ls, j) = Slice(ls, start, Pow2[b])
  BY DEF IsPlace
<1> QED BY <1>3, <1>4

\* A leaf climbs to its peak by the words beside its path.
LEMMA PathClimbs ==
  ASSUME NEW ls, IsRange(ls), NEW i \in 0..(Len(ls) - 1), NEW k, NEW b, NEW start,
         IsPlace(ls, i, k, b, start), NEW proof, Len(proof) = b,
         \A x \in 0..(b - 1) : proof[x + 1] = NodeBeside(ls, start, i - start, x)
  PROVE  Climb(ls[i + 1], proof, i - start) = Perfect(ls, b, start)
<1>1. IsTreeIn(ls, b, start)
  BY DEF IsPlace
<1>2. PICK word \in Words, local \in Nat :
           word = ls[i + 1] /\ local = i - start /\ local < Pow2[b] /\ start + local = i
  BY LocalIsInTree
<1>3. /\ word = ls[(start + local) + 1]
      /\ \A x \in 0..(b - 1) : proof[x + 1] = NodeBeside(ls, start, local, x)
  BY <1>2
<1>4. Reaches(ls, b, start, word, proof, local)
  BY <1>1, <1>2, ClimbReaches
<1> QED BY <1>2, <1>3, <1>4 DEF Reaches

\* What climbs to a peak by a proof as long as its mountain is high is the leaf there.
LEMMA ClimbShowsLeaf ==
  ASSUME NEW ls, IsRange(ls), NEW i \in 0..(Len(ls) - 1), NEW k, NEW b, NEW start,
         IsPlace(ls, i, k, b, start), NEW word \in Words, NEW proof, Len(proof) = b
  PROVE  Climb(word, proof, i - start) = Perfect(ls, b, start) => word = ls[i + 1]
<1>1. IsTreeIn(ls, b, start)
  BY DEF IsPlace
<1>2. PICK local \in Nat : local = i - start /\ local < Pow2[b] /\ start + local = i
  BY LocalIsInTree
<1>3. Reaches(ls, b, start, word, proof, local)
  BY <1>1, <1>2, ClimbReaches
<1> QED BY <1>2, <1>3 DEF Reaches

\* What is verified with a proof as long as the mountain there is high, is the leaf there.
LEMMA VerifiedIsThere ==
  ASSUME RangeInv, NEW j \in 0..(Len(leaves) - 1), NEW word \in Words, NEW proof, NEW b \in Nat,
         Len(proof) = b, Pow2[b] = Len(MountainOf(leaves, j)), Verify(word, proof, j)
  PROVE  word = leaves[j + 1]
<1>1. IsRange(leaves)
  BY DEF RangeInv
<1>2. PICK l, c, from : IsPlace(leaves, j, l, c, from)
  BY <1>1, LeafHasPlace
<1>3. c \in Nat
  BY <1>1, <1>2, LocalIsInTree
<1>4. Pow2[b] = Pow2[c]
  BY <1>1, <1>2, MountainLength
<1>5. b = c
  BY <1>3, <1>4, PowersDiffer
<1>6. Climb(word, proof, j - from) = Perfect(leaves, c, from)
  BY <1>2, VerifyIsClimb
<1> QED BY <1>1, <1>2, <1>5, <1>6, ClimbShowsLeaf

\* Every leaf of a range of any size has a proof as long as its mountain is high, which both
\* verifiers accept; and in a mountain as high as the proof is long they accept it with the
\* leaf of its place only (proof, verify, verify_with_root).
THEOREM EveryLeafIsProved == MerkleSpec => []ProofsProve
<1>1. RangeInv => ProofsProve
  <2> SUFFICES ASSUME RangeInv, NEW i \in 0..(Len(leaves) - 1), NEW proof, proof = ProofOf(leaves, i)
               PROVE  /\ Pow2[Len(proof)] = Len(MountainOf(leaves, i))
                      /\ Verify(leaves[i + 1], proof, i)
                      /\ \A word \in Words : \A j \in 0..Len(leaves) :
                           /\ Verify(word, proof, j) = VerifyWithRoot(word, proof, j, Root(peaks))
                           /\ Verify(word, proof, j) =>
                                /\ j < Len(leaves)
                                /\ Pow2[Len(proof)] = Len(MountainOf(leaves, j)) =>
                                     word = leaves[j + 1]
    BY DEF ProofsProve
  <2>1. IsRange(leaves)
    BY DEF RangeInv
  <2>2. PICK k, b, start : IsPlace(leaves, i, k, b, start)
    BY <2>1, LeafHasPlace
  <2>3. /\ Len(proof) = b
        /\ \A x \in 0..(b - 1) : proof[x + 1] = NodeBeside(leaves, start, i - start, x)
    BY <2>1, <2>2, ProofIsPath
  <2>4. /\ b \in Nat /\ start \in Nat /\ i - start \in Nat /\ i - start < Pow2[b]
        /\ start + (i - start) = i /\ leaves[i + 1] \in Words
    BY <2>1, <2>2, LocalIsInTree
  <2>6. ASSUME NEW word \in Words, NEW j \in 0..Len(leaves), Verify(word, proof, j)
        PROVE  /\ j < Len(leaves)
               /\ Pow2[Len(proof)] = Len(MountainOf(leaves, j)) => word = leaves[j + 1]
    <3>1. j < Len(leaves) /\ j \in 0..(Len(leaves) - 1)
      BY <2>1, <2>6 DEF Verify, IsRange
    <3>2. ASSUME Pow2[Len(proof)] = Len(MountainOf(leaves, j))  PROVE word = leaves[j + 1]
      BY <2>3, <2>4, <2>6, <3>1, <3>2, VerifiedIsThere
    <3> QED BY <3>1, <3>2
  <2>7. ASSUME NEW word \in Words, NEW j \in 0..Len(leaves)
        PROVE  Verify(word, proof, j) = VerifyWithRoot(word, proof, j, Root(peaks))
    BY Zenon DEF Verify, VerifyWithRoot
  <2>8. Verify(leaves[i + 1], proof, i)
    <3>1. Climb(leaves[i + 1], proof, i - start) = Perfect(leaves, b, start)
      BY <2>1, <2>2, <2>3, PathClimbs
    <3> QED BY <2>2, <3>1, VerifyIsClimb
  <2>9. Pow2[Len(proof)] = Len(MountainOf(leaves, i))
    BY <2>1, <2>2, <2>3, MountainLength
  <2> QED BY <2>6, <2>7, <2>8, <2>9
<1> QED BY <1>1, RangeAlways, PTL

\* A proof verifies for as long as the mountain it was made in stands, whatever was appended
\* or restored since, and verifies at no other mountain of the same height (compact_proof,
\* verify_compact).
THEOREM ProofsLiveWithTheirMountain == MerkleSpec => []ProofLivesWithItsMountain
<1>1. RangeInv => ProofLivesWithItsMountain
  <2> SUFFICES ASSUME RangeInv, NEW p \in issued, NEW index, index = p.compact.index
               PROVE  /\ (/\ index < Len(leaves)
                          /\ MountainOf(leaves, index) = MountainOf(p.of, index))
                         => VerifyCompact(p.compact)
                      /\ VerifyCompact(p.compact) =>
                           /\ index < Len(leaves)
                           /\ Len(MountainOf(leaves, index)) = Pow2[Len(p.compact.proof)]
                                => MountainOf(leaves, index) = MountainOf(p.of, index)
    BY DEF ProofLivesWithItsMountain
  <2>1. IsRange(leaves)
    BY DEF RangeInv
  <2>2. PICK ms, i : /\ IsRange(ms) /\ i \in 0..(Len(ms) - 1)
                     /\ p = [compact |-> CompactOf(ms, i), of |-> ms]
    BY DEF RangeInv
  <2>3. PICK proof : proof = ProofOf(ms, i)
    OBVIOUS
  <2>4. /\ p.of = ms /\ index = i /\ p.compact.proof = proof
        /\ VerifyCompact(p.compact) = Verify(ms[i + 1], proof, i)
    BY <2>2, <2>3 DEF CompactOf, VerifyCompact
  <2>5. PICK l, c, from : IsPlace(ms, i, l, c, from)
    BY <2>2, LeafHasPlace
  <2>6. /\ Len(proof) = c
        /\ \A x \in 0..(c - 1) : proof[x + 1] = NodeBeside(ms, from, i - from, x)
    BY <2>2, <2>3, <2>5, ProofIsPath
  <2>7. /\ c \in Nat /\ from \in Nat /\ i - from \in Nat /\ i - from < Pow2[c]
        /\ from + (i - from) = i /\ ms[i + 1] \in Words
    BY <2>2, <2>5, LocalIsInTree
  <2>8. /\ IsTreeIn(ms, c, from) /\ MountainOf(ms, i) = Slice(ms, from, Pow2[c])
        /\ Multiple(from, Pow2[c]) /\ from <= i /\ i < from + Pow2[c]
    BY <2>5 DEF IsPlace
  <2>9. Climb(ms[i + 1], proof, i - from) = Perfect(ms, c, from)
    <3>1. PICK word \in Words, local \in Nat :
               word = ms[i + 1] /\ local = i - from /\ local < Pow2[c] /\ from + local = i
      BY <2>7
    <3>2. /\ Len(proof) = c /\ word = ms[(from + local) + 1]
          /\ \A x \in 0..(c - 1) : proof[x + 1] = NodeBeside(ms, from, local, x)
      BY <2>6, <3>1
    <3>3. Climb(word, proof, local) = Perfect(ms, c, from)
      <4>1. Reaches(ms, c, from, word, proof, local)
        BY <2>2, <2>6, <2>8, <3>1, ClimbReaches
      <4> QED BY <3>2, <4>1 DEF Reaches
    <3> QED BY <3>1, <3>3
  <2>10. CASE ~ (i < Len(leaves))
    BY <2>4, <2>10 DEF Verify
  <2>11. CASE i < Len(leaves)
    <3>1. i \in 0..(Len(leaves) - 1) /\ i \in Nat
      BY <2>1, <2>2, <2>11 DEF IsRange
    <3>2. PICK k, b, start : IsPlace(leaves, i, k, b, start)
      BY <2>1, <3>1, LeafHasPlace
    <3>3. /\ b \in Nat /\ start \in Nat /\ i - start \in Nat /\ i - start < Pow2[b]
      BY <2>1, <3>1, <3>2, LocalIsInTree
    <3>4. /\ IsTreeIn(leaves, b, start) /\ MountainOf(leaves, i) = Slice(leaves, start, Pow2[b])
          /\ Multiple(start, Pow2[b]) /\ start <= i /\ i < start + Pow2[b]
      BY <3>2 DEF IsPlace
    <3>5. Verify(ms[i + 1], proof, i) <=> Climb(ms[i + 1], proof, i - start) = Perfect(leaves, b, start)
      BY <3>1, <3>2, VerifyIsClimb
    <3>6. b = c => start = from
      <4>1. Pow2[b] \in Nat
        BY <3>3, Pow2Grows
      <4> QED BY <2>7, <2>8, <3>1, <3>3, <3>4, <4>1, PlaceOfHeight
    \* The leaves of a mountain, as a list.
    <3>7. PICK now, was : /\ now = MountainOf(leaves, i) /\ was = MountainOf(ms, i)
                          /\ now \in Seq(Words) /\ Len(now) = Pow2[b]
                          /\ was \in Seq(Words) /\ Len(was) = Pow2[c]
                          /\ \A x \in 1..Pow2[b] : now[x] = leaves[start + x]
                          /\ \A x \in 1..Pow2[c] : was[x] = ms[from + x]
                          /\ Perfect(now, b, 0) = Perfect(leaves, b, start)
                          /\ Perfect(was, c, 0) = Perfect(ms, c, from)
      <4>1. ASSUME NEW ls, IsRange(ls), NEW h, NEW at, IsTreeIn(ls, h, at)
            PROVE  /\ Slice(ls, at, Pow2[h]) \in Seq(Words) /\ Len(Slice(ls, at, Pow2[h])) = Pow2[h]
                   /\ \A x \in 1..Pow2[h] : Slice(ls, at, Pow2[h])[x] = ls[at + x]
                   /\ Perfect(Slice(ls, at, Pow2[h]), h, 0) = Perfect(ls, h, at)
        <5>1. h \in Nat /\ at \in Nat /\ at + Pow2[h] <= Len(ls) /\ ls \in Seq(Words)
          BY <4>1 DEF IsTreeIn, IsRange
        <5>2. Pow2[h] \in Nat /\ 0 + Pow2[h] <= Pow2[h] /\ at + 0 = at
          BY <5>1, Pow2Grows
        <5>3. \A g, y \in Nat : y + Pow2[g] <= Pow2[h] =>
                Perfect(Slice(ls, at, Pow2[h]), g, y) = Perfect(ls, g, at + y)
          BY <5>1, <5>2, PerfectInSlice
        <5>4. Perfect(Slice(ls, at, Pow2[h]), h, 0) = Perfect(ls, h, at)
          BY <5>1, <5>2, <5>3
        <5>5. /\ Slice(ls, at, Pow2[h]) \in Seq(Words) /\ Len(Slice(ls, at, Pow2[h])) = Pow2[h]
              /\ \A x \in 1..Pow2[h] : Slice(ls, at, Pow2[h])[x] = ls[at + x]
          <6>1. PICK size \in Nat : size = Pow2[h] /\ at + size <= Len(ls)
            BY <5>1, <5>2
          <6>2. /\ Slice(ls, at, size) \in Seq(Words) /\ Len(Slice(ls, at, size)) = size
                /\ \A x \in 1..size : Slice(ls, at, size)[x] = ls[at + x]
            <7>1. Slice(ls, at, size) \in Seq(Words) /\ Len(Slice(ls, at, size)) = size
              BY <5>1, <6>1, PerfectInSlice
            <7>2. \A x \in 1..size : Slice(ls, at, size)[x] = ls[at + x]
              BY <5>1, <6>1 DEF Slice
            <7> QED BY <7>1, <7>2
          <6> QED BY <6>1, <6>2
        <5> QED BY <5>4, <5>5
      <4> QED BY <2>1, <2>2, <2>8, <3>4, <4>1
    <3>8. ASSUME Verify(ms[i + 1], proof, i), Len(now) = Pow2[Len(proof)]  PROVE now = was
      <4>1. b = c
        BY <2>6, <2>7, <3>3, <3>7, <3>8, PowersDiffer
      <4>2. Perfect(leaves, b, start) = Perfect(ms, c, from)
        BY <2>9, <3>5, <3>6, <3>8, <4>1
      <4>3. SameLeaves(leaves, start, ms, from, Pow2[b])
        <5>1. IsTreeIn(ms, b, from) /\ Perfect(leaves, b, start) = Perfect(ms, b, from)
          BY <2>8, <4>1, <4>2
        <5> QED BY <2>1, <2>2, <3>4, <5>1, TreeCommits
      <4>4. now = [x \in 1..Pow2[b] |-> now[x]] /\ was = [x \in 1..Pow2[b] |-> was[x]]
        BY <3>7, <4>1
      <4>5. \A x \in 1..Pow2[b] : now[x] = was[x]
        BY <3>7, <4>1, <4>3 DEF SameLeaves
      <4> QED BY <4>4, <4>5
    <3>9. ASSUME now = was  PROVE Verify(ms[i + 1], proof, i)
      <4>1. b = c
        BY <2>7, <3>3, <3>7, <3>9, PowersDiffer
      <4>2. Perfect(leaves, b, start) = Perfect(ms, c, from)
        BY <3>7, <3>9, <4>1
      <4> QED BY <2>9, <3>5, <3>6, <4>1, <4>2
    <3> QED BY <2>4, <2>11, <3>7, <3>8, <3>9
  <2> QED BY <2>10, <2>11
<1> QED BY <1>1, RangeAlways, PTL
=============================================================================
