-------------------------- MODULE PowersOfTwo_proofs --------------------------
(***************************************************************************)
(* Arithmetic that several proofs need: least elements, which stand in for *)
(* induction, functions defined by recursion on a number, and the powers   *)
(* of two.                                                                 *)
(***************************************************************************)
EXTENDS PowersOfTwo, WellFoundedInduction, TLAPS

\* A set of numbers that is not empty has a least one.
LEMMA LeastNumber ==
  ASSUME NEW S \in SUBSET Nat, S # {}
  PROVE  \E x \in S : \A y \in S : x <= y
<1> DEFINE Less == OpToRel(<, Nat)
<1>1. IsWellFoundedOn(Less, Nat)
  BY NatLessThanWellFounded
<1>2. \A m, n \in Nat : m < n => <<m, n>> \in Less
  BY DEF OpToRel
<1> HIDE DEF Less
<1>3. PICK x \in S : \A y \in S : ~(<<y, x>> \in Less)
  BY <1>1, WFMin
<1>4. \A y \in S : x <= y
  <2> TAKE y \in S
  <2>1. x \in Nat /\ y \in Nat
    OBVIOUS
  <2>2. ~(y < x)
    BY <2>1, <1>2, <1>3
  <2> QED BY <2>1, <2>2
<1> QED
  BY <1>4

\* Induction on numbers, for a property that is given as the set of those that have it.
LEMMA Induction ==
  ASSUME NEW S, 0 \in S, \A n \in Nat : n \in S => n + 1 \in S
  PROVE  Nat \subseteq S
<1> DEFINE T == {n \in Nat : n \notin S}
<1>1. SUFFICES ASSUME T # {} PROVE FALSE
  OBVIOUS
<1>2. T \in SUBSET Nat
  OBVIOUS
<1> HIDE DEF T
<1>3. PICK x \in T : \A y \in T : x <= y
  BY <1>1, <1>2, LeastNumber
<1>4. x \in Nat /\ x \notin S /\ x # 0
  BY <1>3 DEF T
<1>5. x - 1 \in Nat /\ (x - 1) + 1 = x /\ ~(x <= x - 1)
  BY <1>4
<1>6. x - 1 \in S
  BY <1>3, <1>5 DEF T
<1> QED
  BY <1>4, <1>5, <1>6

(***************************************************************************)
(* Iterating a function from a first value.                                *)
(***************************************************************************)
LEMMA Iteration ==
  ASSUME NEW V, NEW a \in V, NEW F \in [V -> V]
  PROVE  \E f \in [Nat -> V] : f[0] = a /\ \A n \in Nat : f[n + 1] = F[f[n]]
<1> DEFINE Starts(n, g) == g[0] = a /\ \A k \in 0 .. n - 1 : g[k + 1] = F[g[k]]
           Has == {n \in Nat : \E g \in [0 .. n -> V] : Starts(n, g)}
<1>1. 0 \in Has
  <2> DEFINE g == [k \in 0 .. 0 |-> a]
  <2>1. g \in [0 .. 0 -> V] /\ Starts(0, g)
    OBVIOUS
  <2> QED BY <2>1
<1>2. \A n \in Nat : n \in Has => n + 1 \in Has
  <2> TAKE n \in Nat
  <2> HAVE n \in Has
  <2>1. PICK g \in [0 .. n -> V] : Starts(n, g)
    OBVIOUS
  <2> DEFINE h == [k \in 0 .. n + 1 |-> IF k = n + 1 THEN F[g[n]] ELSE g[k]]
  <2>2. h \in [0 .. n + 1 -> V]
    OBVIOUS
  <2>3. h[0] = a
    BY <2>1
  <2>4. \A k \in 0 .. (n + 1) - 1 : h[k + 1] = F[h[k]]
    BY <2>1
  <2> HIDE DEF h
  <2>5. \E x \in [0 .. n + 1 -> V] : Starts(n + 1, x)
    BY <2>2, <2>3, <2>4
  <2> QED BY <2>5
<1>3. Nat \subseteq Has
  <2> HIDE DEF Has
  <2> QED BY <1>1, <1>2, Induction
<1> DEFINE pick == [n \in Nat |-> CHOOSE g \in [0 .. n -> V] : Starts(n, g)]
           f == [n \in Nat |-> pick[n][n]]
<1>4. \A n \in Nat : pick[n] \in [0 .. n -> V] /\ Starts(n, pick[n])
  BY <1>3
<1> HIDE DEF pick
<1>5. ASSUME NEW n \in Nat
      PROVE  Nat \subseteq {k \in Nat : k <= n => pick[n][k] = pick[n + 1][k]}
  <2> DEFINE Same == {k \in Nat : k <= n => pick[n][k] = pick[n + 1][k]}
  <2>1. Starts(n, pick[n]) /\ Starts(n + 1, pick[n + 1])
    BY <1>4
  <2>2. 0 \in Same
    BY <2>1
  <2>3. \A k \in Nat : k \in Same => k + 1 \in Same
    BY <2>1
  <2> HIDE DEF Same
  <2>4. Nat \subseteq Same
    BY <2>2, <2>3, Induction
  <2> QED BY <2>4 DEF Same
<1>6. f \in [Nat -> V]
  BY <1>4
<1>7. f[0] = a
  BY <1>4
<1>8. \A n \in Nat : f[n + 1] = F[f[n]]
  <2> TAKE n \in Nat
  <2>1. pick[n][n] = pick[n + 1][n]
    BY <1>5
  <2>2. n + 1 \in Nat /\ n \in 0 .. (n + 1) - 1
    OBVIOUS
  <2>3. Starts(n + 1, pick[n + 1])
    BY <1>4, <2>2
  <2>4. pick[n + 1][n + 1] = F[pick[n + 1][n]]
    BY <2>2, <2>3
  <2> QED BY <2>1, <2>4
<1> QED
  BY <1>6, <1>7, <1>8

-----------------------------------------------------------------------------
\* Pow2 is what its definition says.
LEMMA Pow2Def ==
  /\ Pow2 \in [Nat -> Nat] /\ Pow2[0] = 1
  /\ \A n \in Nat : Pow2[n + 1] = 2 * Pow2[n]
<1>0. [x \in Nat |-> 2 * x] \in [Nat -> Nat]
  OBVIOUS
<1>1. PICK twice : twice \in [Nat -> Nat] /\ twice = [x \in Nat |-> 2 * x]
  BY <1>0
<1>2. PICK f \in [Nat -> Nat] : f[0] = 1 /\ \A n \in Nat : f[n + 1] = twice[f[n]]
  <2>1. PICK V : V = Nat
    OBVIOUS
  <2>2. PICK a : a = 1
    OBVIOUS
  <2>3. a \in V /\ twice \in [V -> V]
    BY <1>1, <2>1, <2>2
  <2>4. \E f \in [Nat -> V] : f[0] = a /\ \A n \in Nat : f[n + 1] = twice[f[n]]
    BY <2>3, Iteration
  <2> QED BY <2>1, <2>2, <2>4
<1>3. \A n \in Nat : n # 0 => f[n] = 2 * f[n - 1]
  <2> TAKE n \in Nat
  <2> HAVE n # 0
  <2>1. n - 1 \in Nat /\ (n - 1) + 1 = n
    OBVIOUS
  <2> QED BY <1>1, <1>2, <2>1
<1>4. f = [n \in Nat |-> IF n = 0 THEN 1 ELSE 2 * f[n - 1]]
  BY <1>2, <1>3
<1>5. Pow2 = [n \in Nat |-> IF n = 0 THEN 1 ELSE 2 * Pow2[n - 1]]
  BY <1>4 DEF Pow2
<1>6. Pow2[0] = 1
  BY <1>5
<1>7. \A n \in Nat : Pow2[n + 1] = 2 * Pow2[n]
  <2> TAKE n \in Nat
  <2>1. n + 1 \in Nat /\ n + 1 # 0 /\ (n + 1) - 1 = n
    OBVIOUS
  <2> QED BY <1>5, <2>1
<1>8. Nat \subseteq {n \in Nat : Pow2[n] \in Nat}
  <2> DEFINE S == {n \in Nat : Pow2[n] \in Nat}
  <2>1. 0 \in S
    BY <1>6
  <2>2. \A n \in Nat : n \in S => n + 1 \in S
    BY <1>7
  <2> HIDE DEF S
  <2> QED BY <2>1, <2>2, Induction DEF S
<1>9. Pow2 \in [Nat -> Nat]
  BY <1>5, <1>8
<1> QED
  BY <1>6, <1>7, <1>9

\* The powers of two are positive, and grow.
LEMMA Pow2Positive == \A n \in Nat : Pow2[n] \in Nat /\ Pow2[n] > n
<1> DEFINE S == {n \in Nat : Pow2[n] > n}
<1>1. 0 \in S
  BY Pow2Def
<1>2. \A n \in Nat : n \in S => n + 1 \in S
  BY Pow2Def
<1> HIDE DEF S
<1>3. Nat \subseteq S
  BY <1>1, <1>2, Induction
<1> QED
  BY <1>3, Pow2Def DEF S

\* The power of a sum.
LEMMA Pow2Add == \A m, n \in Nat : Pow2[m + n] = Pow2[m] * Pow2[n]
<1> SUFFICES ASSUME NEW m \in Nat PROVE \A n \in Nat : Pow2[m + n] = Pow2[m] * Pow2[n]
  OBVIOUS
<1> DEFINE S == {n \in Nat : Pow2[m + n] = Pow2[m] * Pow2[n]}
<1>1. 0 \in S
  BY Pow2Def
<1>2. \A n \in Nat : n \in S => n + 1 \in S
  <2> TAKE n \in Nat
  <2> HAVE n \in S
  <2>1. m + (n + 1) = (m + n) + 1 /\ m + n \in Nat
    OBVIOUS
  <2>2. Pow2[m + (n + 1)] = 2 * Pow2[m + n] /\ Pow2[n + 1] = 2 * Pow2[n]
    BY <2>1, Pow2Def
  <2>3. Pow2[m] \in Nat /\ Pow2[n] \in Nat
    BY Pow2Def
  <2>4. \A a, b \in Nat : 2 * (a * b) = a * (2 * b)
    OBVIOUS
  <2> QED BY <2>2, <2>3, <2>4
<1> HIDE DEF S
<1>3. Nat \subseteq S
  BY <1>1, <1>2, Induction
<1> QED
  BY <1>3 DEF S

\* A larger exponent, a larger power.
LEMMA Pow2Grows == \A m, n \in Nat : (m <= n => Pow2[m] <= Pow2[n]) /\ (m < n => Pow2[m] < Pow2[n])
<1> SUFFICES ASSUME NEW m \in Nat, NEW n \in Nat, m <= n
             PROVE  Pow2[m] <= Pow2[n] /\ (m < n => Pow2[m] < Pow2[n])
  <2>1. \A a, b \in Nat : a < b => a <= b
    OBVIOUS
  <2> QED BY <2>1
<1>1. PICK d \in Nat : n = m + d /\ (m < n => d > 0)
  <2>1. n - m \in Nat /\ n = m + (n - m) /\ (m < n => n - m > 0)
    OBVIOUS
  <2> QED BY <2>1
<1>2. Pow2[n] = Pow2[m] * Pow2[d]
  BY <1>1, Pow2Add
<1>3. Pow2[m] \in Nat /\ Pow2[d] \in Nat /\ Pow2[d] > d /\ Pow2[m] > m
  BY Pow2Positive
<1>4. \A a, b \in Nat : b > 0 => a * b >= a
  OBVIOUS
<1>5. \A a, b \in Nat : a > 0 /\ b > 1 => a * b > a
  OBVIOUS
<1>6. Pow2[d] > 0 /\ Pow2[m] > 0 /\ (d > 0 => Pow2[d] > 1)
  BY <1>3
<1> QED
  BY <1>1, <1>2, <1>3, <1>4, <1>5, <1>6
=============================================================================
