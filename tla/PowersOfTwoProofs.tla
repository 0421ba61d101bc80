------------------------- MODULE PowersOfTwoProofs -------------------------
(***************************************************************************)
(* Facts about natural numbers that the proofs about the barriers and the  *)
(* caches share: the least number of a set, the recursion that defines     *)
(* pow2, its growth, and what halving and counting around a ring compute.  *)
(* A fact is proved for every number by looking at the least number for    *)
(* which it would fail.                                                    *)
(***************************************************************************)
EXTENDS PowersOfTwo, WellFoundedInduction, TLAPS

\* A set of natural numbers that is not empty has a least one.
LEMMA LeastNumber ==
    ASSUME NEW K \in SUBSET Nat, K # {}
    PROVE  \E x \in K : \A y \in K : x <= y
<1>1. PICK x \in K : \A y \in K : <<y, x>> \notin OpToRel(<, Nat)
    BY NatLessThanWellFounded, WFMin
<1>2. ASSUME NEW y \in K PROVE ~(y < x)
  <2>1. <<y, x>> \in Nat \X Nat /\ <<y, x>>[1] = y /\ <<y, x>>[2] = x
      OBVIOUS
  <2> QED BY <1>1, <2>1 DEF OpToRel
<1> QED BY <1>2

\* A set that holds 0 and, with a number, the next one, holds every number.
LEMMA EveryNumber ==
    ASSUME NEW K, 0 \in K, \A n \in Nat : n \in K => n + 1 \in K
    PROVE  Nat \subseteq K
<1> DEFINE L == {n \in Nat : n \notin K}
<1> SUFFICES ASSUME L # {} PROVE FALSE
    OBVIOUS
<1>1. PICK x \in L : \A y \in L : x <= y
    BY LeastNumber
<1>2. x # 0
    OBVIOUS
<1>3. x - 1 \in Nat /\ x - 1 \in K
    BY <1>1, <1>2
<1>4. (x - 1) + 1 \in K
    BY <1>3
<1> QED BY <1>4

-----------------------------------------------------------------------------
(* The recursive definition defines a function *)

\* g doubles from 1 on, up to n.
Doubling(g, n) == g[0] = 1 /\ \A k \in 0 .. n - 1 : g[k + 1] = 2 * g[k]

LEMMA SomeDoubling == \A n \in Nat : \E g \in [0 .. n -> Nat] : Doubling(g, n)
<1> DEFINE K == {n \in Nat : \E g \in [0 .. n -> Nat] : Doubling(g, n)}
<1>1. 0 \in K
  <2>1. [k \in 0 .. 0 |-> 1] \in [0 .. 0 -> Nat] /\ Doubling([k \in 0 .. 0 |-> 1], 0)
      BY DEF Doubling
  <2> QED BY <2>1
<1>2. ASSUME NEW n \in Nat, n \in K PROVE n + 1 \in K
  <2>1. PICK g \in [0 .. n -> Nat] : Doubling(g, n)
      BY <1>2
  <2> DEFINE h == [k \in 0 .. n + 1 |-> IF k = n + 1 THEN 2 * g[n] ELSE g[k]]
  <2>2. h \in [0 .. n + 1 -> Nat]
      BY <2>1
  <2>3. /\ h[n + 1] = 2 * g[n] /\ h[n] = g[n] /\ h[0] = g[0]
        /\ \A k \in 0 .. n - 1 : h[k + 1] = g[k + 1] /\ h[k] = g[k]
      OBVIOUS
  <2> HIDE DEF h
  <2>4. ASSUME NEW k \in 0 .. n + 1 - 1 PROVE h[k + 1] = 2 * h[k]
    <3>1. CASE k = n
        BY <2>3, <3>1
    <3>2. CASE k \in 0 .. n - 1
        BY <2>1, <2>3, <3>2 DEF Doubling
    <3> QED BY <3>1, <3>2
  <2>5. Doubling(h, n + 1)
      BY <2>1, <2>3, <2>4 DEF Doubling
  <2> QED BY <2>2, <2>5
<1> HIDE DEF K
<1>3. Nat \subseteq K
    BY <1>1, <1>2, EveryNumber
<1> QED BY <1>3 DEF K

LEMMA OneDoubling ==
    ASSUME NEW n \in Nat, NEW g \in [0 .. n -> Nat], NEW h \in [0 .. n + 1 -> Nat],
           Doubling(g, n), Doubling(h, n + 1)
    PROVE  g[n] = h[n]
<1> DEFINE K == {k \in Nat : k <= n => g[k] = h[k]}
<1>1. 0 \in K
    BY DEF Doubling
<1>2. ASSUME NEW k \in Nat, k \in K PROVE k + 1 \in K
    BY <1>2 DEF Doubling
<1> HIDE DEF K
<1>3. n \in K
    BY <1>1, <1>2, EveryNumber
<1> QED BY <1>3 DEF K

\* The first power of two is 1, and the next is the double of the last.
LEMMA PowerRecursion ==
    pow2 \in [Nat -> Nat] /\ pow2[0] = 1 /\ \A n \in Nat : pow2[n + 1] = 2 * pow2[n]
<1> DEFINE ap(n) == CHOOSE g \in [0 .. n -> Nat] : Doubling(g, n)
           f == [n \in Nat |-> ap(n)[n]]
<1>1. \A n \in Nat : ap(n) \in [0 .. n -> Nat] /\ Doubling(ap(n), n)
    BY SomeDoubling
<1> HIDE DEF ap
<1>2. f \in [Nat -> Nat]
    BY <1>1
<1>3. f[0] = 1
    BY <1>1 DEF Doubling
<1>4. ASSUME NEW n \in Nat PROVE f[n + 1] = 2 * f[n]
  <2>1. /\ ap(n) \in [0 .. n -> Nat] /\ Doubling(ap(n), n)
        /\ ap(n + 1) \in [0 .. n + 1 -> Nat] /\ Doubling(ap(n + 1), n + 1)
      BY <1>1
  <2>2. ap(n)[n] = ap(n + 1)[n]
      BY <2>1, OneDoubling
  <2>3. ap(n + 1)[n + 1] = 2 * ap(n + 1)[n]
      BY <2>1 DEF Doubling
  <2> QED BY <2>2, <2>3
<1> HIDE DEF f
<1>5. f = [n \in Nat |-> IF n = 0 THEN 1 ELSE 2 * f[n - 1]]
  <2>1. ASSUME NEW n \in Nat PROVE f[n] = IF n = 0 THEN 1 ELSE 2 * f[n - 1]
    <3>1. CASE n = 0
        BY <3>1, <1>3
    <3>2. CASE n # 0
      <4>1. f[(n - 1) + 1] = 2 * f[n - 1]
          BY <3>2, <1>4
      <4> QED BY <3>2, <4>1
    <3> QED BY <3>1, <3>2
  <2> QED BY <2>1, <1>2
<1>6. pow2 = [n \in Nat |-> IF n = 0 THEN 1 ELSE 2 * pow2[n - 1]]
    BY <1>5 DEF pow2
<1>7. pow2[0] = 1
    BY <1>6
<1>8. \A n \in Nat : pow2[n + 1] = 2 * pow2[n]
    BY <1>6
<1>9. \A n \in Nat : pow2[n] \in Nat
  <2> DEFINE K == {k \in Nat : pow2[k] \in Nat}
  <2>1. 0 \in K /\ \A n \in Nat : n \in K => n + 1 \in K
      BY <1>7, <1>8
  <2> HIDE DEF K
  <2>2. Nat \subseteq K
      BY <2>1, EveryNumber
  <2> QED BY <2>2 DEF K
<1> QED BY <1>6, <1>7, <1>8, <1>9

-----------------------------------------------------------------------------
(* Growth *)

\* 2^n exceeds n.
LEMMA PowerExceeds == \A n \in Nat : pow2[n] \in Nat /\ pow2[n] > n
<1> DEFINE K == {k \in Nat : pow2[k] > k}
<1>1. 0 \in K
    BY PowerRecursion
<1>2. ASSUME NEW n \in Nat, n \in K PROVE n + 1 \in K
  <2>1. pow2[n + 1] = 2 * pow2[n] /\ pow2[n] > n /\ pow2[n] \in Nat
      BY <1>2, PowerRecursion
  <2> QED BY <2>1
<1> HIDE DEF K
<1>3. Nat \subseteq K
    BY <1>1, <1>2, EveryNumber
<1> QED BY <1>3, PowerRecursion DEF K

\* A number that is not 0 is halved to 1 before it is 0.
LEMMA HalvedToOne ==
    ASSUME NEW n \in Nat, n # 0
    PROVE  \E i \in 0 .. n : n \div pow2[i] = 1
<1> DEFINE K == {i \in Nat : pow2[i] > n}
<1>1. K # {} /\ n \in K
    BY PowerExceeds
<1>2. PICK x \in K : \A y \in K : x <= y
    BY <1>1, LeastNumber
<1>3. x # 0 /\ x <= n
    BY <1>1, <1>2, PowerRecursion
<1>4. x - 1 \in 0 .. n /\ pow2[x - 1] <= n
  <2>1. x - 1 \notin K /\ x - 1 \in Nat
      BY <1>2, <1>3
  <2> QED BY <1>3, <2>1, PowerExceeds
<1>5. pow2[(x - 1) + 1] = 2 * pow2[x - 1]
    BY <1>4, PowerRecursion
<1>6. \A d \in Nat : d > 0 /\ d <= n /\ n < 2 * d => n \div d = 1
    OBVIOUS
<1>7. pow2[x - 1] \in Nat /\ pow2[x - 1] > 0 /\ n < 2 * pow2[x - 1]
    BY <1>3, <1>4, <1>5, PowerExceeds
<1> QED BY <1>4, <1>6, <1>7

\* Powers of two grow.
LEMMA PowerGrows ==
    ASSUME NEW m \in Nat, NEW n \in Nat, m < n
    PROVE  2 * pow2[m] <= pow2[n]
<1> DEFINE K == {k \in Nat : 2 * pow2[m] <= pow2[m + 1 + k]}
<1>1. 0 \in K
    BY PowerRecursion
<1>2. ASSUME NEW k \in Nat, k \in K PROVE k + 1 \in K
  <2>1. /\ pow2[(m + 1 + k) + 1] = 2 * pow2[m + 1 + k] /\ pow2[m + 1 + k] \in Nat
        /\ pow2[m] \in Nat /\ 2 * pow2[m] <= pow2[m + 1 + k]
      BY <1>2, PowerRecursion
  <2>2. (m + 1 + k) + 1 = m + 1 + (k + 1)
      OBVIOUS
  <2>3. 2 * pow2[m] <= pow2[m + 1 + (k + 1)]
      BY <2>1, <2>2
  <2> QED BY <2>3
<1> HIDE DEF K
<1>3. n - m - 1 \in K
    BY <1>1, <1>2, EveryNumber
<1> QED BY <1>3 DEF K

-----------------------------------------------------------------------------
(* Remainders *)

\* One step forward and one step back on a ring of n.
LEMMA RingSteps ==
    ASSUME NEW n \in Nat, NEW p \in 0 .. n - 1, NEW d \in 1 .. n - 1
    PROVE  /\ (p + d) % n = IF p + d < n THEN p + d ELSE p + d - n
           /\ (n + p - d) % n = IF p >= d THEN p - d ELSE n + p - d
    OBVIOUS

\* Multiples of d and of 2 d.
LEMMA MultipleOf ==
    ASSUME NEW d \in Nat, d # 0, NEW x \in Nat
    PROVE  x % d = 0 <=> \E c \in Nat : x = c * d
<1>1. ASSUME x % d = 0 PROVE \E c \in Nat : x = c * d
  <2>1. x \div d \in Nat /\ x = (x \div d) * d
      BY <1>1
  <2> QED BY <2>1
<1>2. ASSUME NEW c \in Nat, x = c * d PROVE x % d = 0
    BY <1>2
<1> QED BY <1>1, <1>2

LEMMA HalfMultiples ==
    ASSUME NEW d \in Nat, d # 0, NEW x \in Nat
    PROVE  /\ x % (2 * d) = 0 => x % d = 0 /\ (x + d) % d = 0 /\ (x + d) % (2 * d) # 0
           /\ x % d = 0 /\ x % (2 * d) # 0 => x >= d /\ (x - d) % (2 * d) = 0
<1> DEFINE e == 2 * d
<1>1. e \in Nat /\ e # 0 /\ e = 2 * d
    OBVIOUS
<1> HIDE DEF e
<1>2. ASSUME NEW c \in Nat, x = c * e
      PROVE  x % d = 0 /\ (x + d) % d = 0 /\ (x + d) % e # 0
  <2>1. x = (2 * c) * d /\ x + d = (2 * c + 1) * d
      BY <1>1, <1>2
  <2>2. x % d = 0 /\ (x + d) % d = 0
      BY <2>1, MultipleOf
  <2>3. ASSUME NEW b \in Nat, x + d = b * e PROVE FALSE
    <3>1. (2 * b - 2 * c - 1) * d = 0
        BY <1>1, <1>2, <2>3
    <3> QED BY <3>1
  <2> QED BY <1>1, <2>2, <2>3, MultipleOf
<1>3. ASSUME NEW c \in Nat, x = c * d, x % e # 0
      PROVE  x >= d /\ (x - d) % e = 0
  <2>1. PICK b \in Nat : c = 2 * b \/ c = 2 * b + 1
    <3>1. c \div 2 \in Nat /\ (c = 2 * (c \div 2) \/ c = 2 * (c \div 2) + 1)
        OBVIOUS
    <3> QED BY <3>1
  <2>2. c # 2 * b
    <3>1. c = 2 * b => x = b * e
        BY <1>1, <1>3
    <3> QED BY <1>1, <1>3, <3>1, MultipleOf
  <2>3. x = b * e + d /\ x - d = b * e /\ b * e \in Nat
      BY <1>1, <1>3, <2>1, <2>2
  <2>4. PICK y \in Nat : y = x - d /\ y = b * e
      BY <2>3
  <2>5. y % e = 0
      BY <1>1, <2>4, MultipleOf
  <2> QED BY <2>4, <2>5
<1>4. /\ x % e = 0 => x % d = 0 /\ (x + d) % d = 0 /\ (x + d) % e # 0
      /\ x % d = 0 /\ x % e # 0 => x >= d /\ (x - d) % e = 0
    BY <1>1, <1>2, <1>3, MultipleOf
<1> QED BY <1>1, <1>4

\* A multiple of a power of two is one of the lower powers.
LEMMA LowerPowersDivide ==
    ASSUME NEW x \in Nat, NEW m \in Nat, NEW n \in Nat, m <= n, x % pow2[n] = 0
    PROVE  x % pow2[m] = 0
<1> DEFINE K == {k \in Nat : k <= n => x % pow2[n - k] = 0}
<1>1. 0 \in K
    OBVIOUS
<1>2. ASSUME NEW k \in Nat, k \in K PROVE k + 1 \in K
  <2> SUFFICES ASSUME k + 1 <= n PROVE x % pow2[n - (k + 1)] = 0
      OBVIOUS
  <2> DEFINE d == pow2[n - (k + 1)]
  <2>1. x % pow2[n - k] = 0
      BY <1>2
  <2>2. pow2[(n - (k + 1)) + 1] = 2 * d /\ d \in Nat /\ d > 0
      BY PowerRecursion, PowerExceeds
  <2>3. (n - (k + 1)) + 1 = n - k
      OBVIOUS
  <2>4. x % (2 * d) = 0
      BY <2>1, <2>2, <2>3
  <2> HIDE DEF d
  <2>5. x % d = 0
    <3>1. d \in Nat /\ d # 0
        BY <2>2
    <3>2. x % (2 * d) = 0 => x % d = 0
        BY <3>1, HalfMultiples
    <3> QED BY <2>4, <3>2
  <2> QED BY <2>5 DEF d
<1> HIDE DEF K
<1>3. n - m \in K
    BY <1>1, <1>2, EveryNumber
<1>4. x % pow2[n - (n - m)] = 0
    BY <1>3 DEF K
<1>5. n - (n - m) = m
    OBVIOUS
<1> QED BY <1>4, <1>5

=============================================================================
