------------------------------ MODULE Counting ------------------------------
(***************************************************************************)
(* What the proofs need to know of a sum of widths, of the largest of a    *)
(* set of numbers, of recursion on a number, and of quotients.             *)
(***************************************************************************)
EXTENDS Widths, FiniteSetsExt, FiniteSetTheorems, WellFoundedInduction, TLAPS

-----------------------------------------------------------------------------
(* Sums of widths.                                                         *)

\* A sum of widths over finitely many names is a natural number.
LEMMA TotalType ==
    ASSUME NEW A, IsFiniteSet(A), NEW m \in Nat, NEW f
    PROVE  IsFiniteSet(SlotsOf(A, m, f)) /\ Total(A, m, f) \in Nat
<1>1. IsFiniteSet(A \X (1 .. m))
  <2>1. IsFiniteSet(1 .. m)
    BY FS_Interval
  <2> QED
    BY <2>1, FS_Product
<1>2. IsFiniteSet(SlotsOf(A, m, f))
  BY <1>1, FS_Subset DEF SlotsOf
<1> QED
  BY <1>2, FS_CardinalityType DEF Total

\* Widening a name, or the bound on widths, never lowers the sum.
LEMMA TotalMonotone ==
    ASSUME NEW A, IsFiniteSet(A), NEW m \in Nat, NEW k \in Nat, NEW f, NEW g, m <= k,
           \A a \in A : f[a] \in Int /\ g[a] \in Int /\ f[a] <= g[a]
    PROVE  Total(A, m, f) <= Total(A, k, g)
<1>1. SlotsOf(A, m, f) \subseteq SlotsOf(A, k, g)
  BY DEF SlotsOf
<1> QED
  BY <1>1, TotalType, FS_Subset DEF Total

\* Giving an empty name a width adds exactly that width.
LEMMA TotalAdds ==
    ASSUME NEW A, IsFiniteSet(A), NEW m \in Nat, NEW f, NEW g,
           NEW a \in A, NEW n \in 0 .. m,
           f[a] = 0, g[a] = n,
           \A b \in A : f[b] \in Int /\ (b # a => g[b] = f[b])
    PROVE  Total(A, m, g) = Total(A, m, f) + n
<1> DEFINE new == {a} \X (1 .. n)
<1>1. SlotsOf(A, m, g) = SlotsOf(A, m, f) \cup new
  BY DEF SlotsOf
<1>2. SlotsOf(A, m, f) \cap new = {}
  BY DEF SlotsOf
<1>3. IsFiniteSet(new) /\ Cardinality(new) = n
  <2>1. IsFiniteSet(1 .. n) /\ Cardinality(1 .. n) = n
    BY FS_Interval
  <2>2. IsFiniteSet({a}) /\ Cardinality({a}) = 1
    BY FS_Singleton
  <2>3. IsFiniteSet(new) /\ Cardinality(new) = Cardinality({a}) * Cardinality(1 .. n)
    BY <2>1, <2>2, FS_Product
  <2>4. 1 * n = n
    OBVIOUS
  <2> QED
    BY <2>1, <2>2, <2>3, <2>4
<1>4. IsFiniteSet(SlotsOf(A, m, f)) /\ Cardinality(SlotsOf(A, m, f)) \in Nat
  BY TotalType DEF Total
<1>5. Cardinality(SlotsOf(A, m, g)) = Cardinality(SlotsOf(A, m, f)) + n - Cardinality({})
  BY <1>1, <1>2, <1>3, <1>4, FS_Union
<1> QED
  BY <1>4, <1>5, FS_EmptySet DEF Total

\* The sum of no width at all is zero.
LEMMA TotalEmpty ==
    ASSUME NEW A, NEW m \in Nat, NEW f, \A a \in A : f[a] = 0
    PROVE  Total(A, m, f) = 0
<1>1. SlotsOf(A, m, f) = {}
  BY DEF SlotsOf
<1> QED
  BY <1>1, FS_EmptySet DEF Total

\* g is f, with name a wider by d.
Widens(A, m, f, g, a, d) ==
    /\ a \in A /\ d \in Nat /\ f[a] + d <= m /\ g[a] = f[a] + d
    /\ \A b \in A : f[b] \in Nat /\ (b # a => g[b] = f[b])

\* A sum grows by as much as one of its widths.
LEMMA TotalGrows ==
    ASSUME NEW A, IsFiniteSet(A), NEW m \in Nat, NEW f, NEW g,
           NEW a, NEW d, Widens(A, m, f, g, a, d)
    PROVE  Total(A, m, g) = Total(A, m, f) + d
<1> USE DEF Widens
<1> DEFINE c == f[a]
           run == (c + 1) .. (c + d)
           new == {a} \X run
<1>0. c \in Nat
  OBVIOUS
<1>1. SlotsOf(A, m, g) = SlotsOf(A, m, f) \cup new
  <2>1. ASSUME NEW b \in A, NEW i \in 1 .. m
        PROVE  i <= g[b] <=> i <= f[b] \/ <<b, i>> \in new
    <3>1. CASE b = a
      BY <3>1
    <3>2. CASE b # a
      BY <3>2
    <3> QED
      BY <3>1, <3>2
  <2>2. new \subseteq A \X (1 .. m)
    OBVIOUS
  <2> HIDE DEF new
  <2> QED
    BY <2>1, <2>2 DEF SlotsOf
<1>2. SlotsOf(A, m, f) \cap new = {}
  BY DEF SlotsOf
<1>3. IsFiniteSet(new) /\ Cardinality(new) = d
  <2>1. IsFiniteSet(run) /\ Cardinality(run) = d
    <3>1. c + 1 \in Int /\ c + d \in Int
      BY <1>0
    <3> HIDE DEF c
    <3>2. Cardinality(run) = IF c + 1 > c + d THEN 0 ELSE (c + d) - (c + 1) + 1
      BY <3>1, FS_Interval
    <3>3. IsFiniteSet(run)
      BY <3>1, FS_Interval
    <3> HIDE DEF run
    <3> QED
      BY <1>0, <3>2, <3>3
  <2>2. IsFiniteSet({a}) /\ Cardinality({a}) = 1
    BY FS_Singleton
  <2> HIDE DEF run
  <2>3. IsFiniteSet(new) /\ Cardinality(new) = Cardinality({a}) * Cardinality(run)
    BY <2>1, <2>2, FS_Product
  <2>4. 1 * d = d
    OBVIOUS
  <2> QED
    BY <2>1, <2>2, <2>3, <2>4
<1>4. IsFiniteSet(SlotsOf(A, m, f)) /\ Cardinality(SlotsOf(A, m, f)) \in Nat
  BY TotalType DEF Total
<1> HIDE DEF new
<1>5. Cardinality(SlotsOf(A, m, g)) = Cardinality(SlotsOf(A, m, f)) + d - Cardinality({})
  BY <1>1, <1>2, <1>3, <1>4, FS_Union
<1> QED
  BY <1>4, <1>5, FS_EmptySet DEF Total

\* A sum of n widths that are all at least c is at least n times c.
LEMMA TotalAtLeast ==
    ASSUME NEW n \in Nat, NEW m \in Nat, NEW f, NEW c \in 0 .. m,
           \A a \in 1 .. n : f[a] \in Nat /\ c <= f[a]
    PROVE  n * c <= Total(1 .. n, m, f)
<1>1. IsFiniteSet(1 .. n) /\ Cardinality(1 .. n) = n
  BY FS_Interval
<1>2. IsFiniteSet(1 .. c) /\ Cardinality(1 .. c) = c
  BY FS_Interval
<1>3. IsFiniteSet((1 .. n) \X (1 .. c)) /\ Cardinality((1 .. n) \X (1 .. c)) = n * c
  <2> DEFINE N == 1 .. n
             C == 1 .. c
  <2>1. IsFiniteSet(N) /\ Cardinality(N) = n /\ IsFiniteSet(C) /\ Cardinality(C) = c
    BY <1>1, <1>2
  <2> HIDE DEF N, C
  <2>2. IsFiniteSet(N \X C) /\ Cardinality(N \X C) = Cardinality(N) * Cardinality(C)
    BY <2>1, FS_Product
  <2>3. IsFiniteSet(N \X C) /\ Cardinality(N \X C) = n * c
    BY <2>1, <2>2
  <2> QED
    BY <2>3 DEF N, C
<1>4. (1 .. n) \X (1 .. c) \subseteq SlotsOf(1 .. n, m, f)
  BY DEF SlotsOf
<1>5. IsFiniteSet(SlotsOf(1 .. n, m, f))
  BY <1>1, TotalType
<1> QED
  BY <1>3, <1>4, <1>5, FS_Subset DEF Total

-----------------------------------------------------------------------------
(* Largest elements.                                                       *)

\* A set of natural numbers that is not empty has a least element.
LEMMA LeastOf ==
    ASSUME NEW S \in SUBSET Nat, S # {}
    PROVE  \E x \in S : \A y \in S : x <= y
<1> DEFINE R == OpToRel(<, Nat)
<1>1. IsWellFoundedOn(R, Nat)
  BY NatLessThanWellFounded
<1>2. \A x \in Nat, y \in Nat : y < x => <<y, x>> \in R
  BY DEF OpToRel
<1> HIDE DEF R
<1>3. PICK x \in S : \A y \in S : ~(<<y, x>> \in R)
  BY <1>1, WFMin
<1>4. ASSUME NEW y \in S PROVE x <= y
  <2>1. x \in Nat /\ y \in Nat /\ ~(y < x)
    BY <1>2, <1>3
  <2> QED
    BY <2>1
<1> QED
  BY <1>4

\* The smaller and the larger of two numbers.
LEMMA LeastAndMost ==
    ASSUME NEW a \in Int, NEW b \in Int
    PROVE  /\ Min({a, b}) = IF a <= b THEN a ELSE b
           /\ Max({a, b}) = IF a <= b THEN b ELSE a
<1>1. \A m : m \in {a, b} /\ (\A y \in {a, b} : m <= y) => m = IF a <= b THEN a ELSE b
  OBVIOUS
<1>2. \E m \in {a, b} : \A y \in {a, b} : m <= y
  OBVIOUS
<1>3. \A m : m \in {a, b} /\ (\A y \in {a, b} : m >= y) => m = IF a <= b THEN b ELSE a
  OBVIOUS
<1>4. \E m \in {a, b} : \A y \in {a, b} : m >= y
  OBVIOUS
<1> QED
  BY <1>1, <1>2, <1>3, <1>4 DEF Min, Max

\* Max of a bounded set of natural numbers is in the set and bounds it.
LEMMA MaxOf ==
    ASSUME NEW n \in Nat, NEW S \in SUBSET (0 .. n), S # {}
    PROVE  Max(S) \in S /\ \A y \in S : y <= Max(S)
<1> DEFINE U == {k \in Nat : \A y \in S : y <= k}
<1>1. n \in U
  OBVIOUS
<1>2. PICK m \in U : \A k \in U : m <= k
  BY <1>1, LeastOf
<1>3. m \in S
  <2> SUFFICES ASSUME m \notin S PROVE FALSE
    OBVIOUS
  <2>1. \A y \in S : y <= m - 1
    BY <1>2
  <2>2. m - 1 \in U
    <3>1. PICK y \in S : TRUE
      OBVIOUS
    <3>2. y <= m - 1 /\ y \in Nat /\ m \in Nat
      BY <2>1
    <3> QED
      BY <2>1, <3>2
  <2> QED
    BY <1>2, <2>2
<1>4. \E x \in S : \A y \in S : x >= y
  BY <1>2, <1>3
<1> QED
  BY <1>4 DEF Max

-----------------------------------------------------------------------------
(* Induction, and functions defined by it.  A set stands for a property.   *)

\* What holds at zero, and at each number if at the one before, holds up to n.
LEMMA UpTo ==
    ASSUME NEW n \in Nat, NEW S, 0 \in S, \A k \in 1 .. n : k - 1 \in S => k \in S
    PROVE  \A k \in 0 .. n : k \in S
<1> DEFINE Bad == {k \in 0 .. n : k \notin S}
<1> SUFFICES ASSUME Bad # {} PROVE FALSE
  OBVIOUS
<1>0. Bad \in SUBSET Nat
  OBVIOUS
<1> HIDE DEF Bad
<1>1. PICK k \in Bad : \A j \in Bad : k <= j
  BY <1>0, LeastOf
<1> USE DEF Bad
<1>2. k \in 1 .. n
  BY <1>1
<1>3. k - 1 \in 0 .. n /\ ~(k <= k - 1)
  BY <1>2
<1>4. k - 1 \in S
  BY <1>1, <1>3
<1> QED
  BY <1>1, <1>2, <1>4

\* A step keeps to the kind of each place.
KeepsTo(S, step, n) == \A k \in 1 .. n : \A v \in S[k - 1] : step[<<k, v>>] \in S[k]

\* The function a first value and a step make.
Follows(f, base, step, S, n) ==
    /\ f = [k \in 0 .. n |-> f[k]]
    /\ f[0] = base
    /\ \A k \in 0 .. n : f[k] \in S[k]
    /\ \A k \in 1 .. n : f[k] = step[<<k, f[k - 1]>>]

\* A first value and a step make a function, whose values may be of a kind of
\* their own at each place.
LEMMA Recursion ==
    ASSUME NEW n \in Nat, NEW S, NEW base, base \in S[0], NEW step, KeepsTo(S, step, n)
    PROVE  \E f : Follows(f, base, step, S, n)
<1> USE DEF KeepsTo, Follows
<1> DEFINE T == UNION {S[k] : k \in 0 .. n}
           Good(m, f) == /\ f[0] = base
                         /\ \A k \in 0 .. m : f[k] \in S[k]
                         /\ \A k \in 1 .. m : f[k] = step[<<k, f[k - 1]>>]
           Done == {m \in 0 .. n : \E f \in [0 .. m -> T] : Good(m, f)}
<1>0. \A k \in 0 .. n : \A v \in S[k] : v \in T
  OBVIOUS
<1> HIDE DEF T
<1>1. 0 \in Done
  <2> DEFINE f == [k \in 0 .. 0 |-> base]
  <2>1. f \in [0 .. 0 -> T] /\ f[0] = base
    BY <1>0
  <2>2. Good(0, f)
    BY <2>1
  <2> HIDE DEF f
  <2> QED
    BY <2>1, <2>2
<1>2. ASSUME NEW m \in 1 .. n, m - 1 \in Done PROVE m \in Done
  <2>1. PICK f \in [0 .. (m - 1) -> T] : Good(m - 1, f)
    BY <1>2
  <2> DEFINE v == step[<<m, f[m - 1]>>]
             g == [k \in 0 .. m |-> IF k = m THEN v ELSE f[k]]
  <2>2. v \in S[m] /\ v \in T
    BY <1>0, <2>1
  <2>3. g \in [0 .. m -> T]
    BY <2>2
  <2>4. g[0] = base /\ \A k \in 0 .. m : g[k] \in S[k]
    BY <2>1, <2>2
  <2>5. ASSUME NEW k \in 1 .. m PROVE g[k] = step[<<k, g[k - 1]>>]
    <3>1. CASE k = m
      <4>1. m \in 0 .. m /\ m - 1 \in 0 .. m /\ m - 1 # m
        OBVIOUS
      <4>2. g[m] = v /\ g[m - 1] = f[m - 1]
        BY <4>1
      <4> HIDE DEF g
      <4> QED
        BY <3>1, <4>2
    <3>2. CASE k # m
      <4>1. k \in 1 .. (m - 1) /\ k \in 0 .. m /\ k - 1 \in 0 .. m /\ k - 1 # m
        BY <3>2
      <4>2. f[k] = step[<<k, f[k - 1]>>]
        BY <2>1, <4>1
      <4>3. g[k] = f[k] /\ g[k - 1] = f[k - 1]
        BY <3>2, <4>1
      <4> HIDE DEF g
      <4> QED
        BY <4>2, <4>3
    <3> QED
      BY <3>1, <3>2
  <2> HIDE DEF g
  <2>6. Good(m, g)
    BY <2>4, <2>5
  <2> QED
    BY <2>3, <2>6
<1> HIDE DEF Done
<1>3. n \in Done
  BY <1>1, <1>2, UpTo
<1>4. PICK f \in [0 .. n -> T] : Good(n, f)
  BY <1>3 DEF Done
<1>5. f = [k \in 0 .. n |-> f[k]]
  BY <1>4
<1> QED
  BY <1>4, <1>5

\* Min of a set of natural numbers that is not empty is its least element.
LEMMA MinOf ==
    ASSUME NEW S \in SUBSET Nat, S # {}
    PROVE  Min(S) \in S /\ \A y \in S : Min(S) <= y
BY LeastOf DEF Min

\* Finitely many numbers have a bound.
LEMMA BoundOf ==
    ASSUME NEW n \in Nat, NEW f, \A k \in 1 .. n : f[k] \in Nat
    PROVE  \E top \in Nat : \A k \in 1 .. n : f[k] <= top
<1> DEFINE Done == {k \in 0 .. n : \E top \in Nat : \A j \in 1 .. k : f[j] <= top}
<1>1. 0 \in Done
  OBVIOUS
<1>2. ASSUME NEW k \in 1 .. n, k - 1 \in Done PROVE k \in Done
  <2>1. PICK top \in Nat : \A j \in 1 .. (k - 1) : f[j] <= top
    BY <1>2
  <2>2. f[k] \in Nat
    OBVIOUS
  <2> DEFINE higher == top + f[k]
  <2>3. higher \in Nat
    BY <2>2
  <2>4. ASSUME NEW j \in 1 .. k PROVE f[j] <= higher
    <3>1. f[j] \in Nat
      OBVIOUS
    <3>2. CASE j = k
      BY <2>2, <3>2
    <3>3. CASE j # k
      <4>1. j \in 1 .. (k - 1)
        BY <3>3
      <4>2. f[j] <= top
        BY <2>1, <4>1
      <4> QED
        BY <2>2, <3>1, <4>2
    <3> QED
      BY <3>2, <3>3
  <2> HIDE DEF higher
  <2>5. k \in 0 .. n
    OBVIOUS
  <2> QED
    BY <2>3, <2>4, <2>5
<1> HIDE DEF Done
<1>3. \A k \in 0 .. n : k \in Done
  BY <1>1, <1>2, UpTo
<1>4. n \in Done
  BY <1>3
<1> QED
  BY <1>4 DEF Done

-----------------------------------------------------------------------------
(* Products and quotients.                                                 *)

\* Products keep the order of their factors.
LEMMA TimesMonotone ==
    ASSUME NEW a \in Int, NEW b \in Int, NEW d \in Nat, a <= b
    PROVE  a * d <= b * d /\ (a < b /\ d > 0 => a * d < b * d)
<1>1. (b - a) * d >= 0 /\ (a < b /\ d > 0 => (b - a) * d > 0)
  OBVIOUS
<1>2. (b - a) * d = b * d - a * d
  OBVIOUS
<1> QED
  BY <1>1, <1>2

\* The piece of a size that a position lies in.
LEMMA QuotientIs ==
    ASSUME NEW x \in Int, NEW edge \in Nat \ {0}, NEW q \in Int
    PROVE  (q * edge <= x /\ x < q * edge + edge) <=> q = x \div edge
<1> DEFINE d == x \div edge
<1>1. d \in Int /\ edge * d + (x % edge) = x /\ (x % edge) \in 0 .. (edge - 1)
  OBVIOUS
<1>2. d * edge = edge * d /\ q * edge \in Int /\ d * edge \in Int
  BY <1>1
<1> HIDE DEF d
<1>3. d * edge <= x /\ x < d * edge + edge
  BY <1>1, <1>2
<1>4. ASSUME q < d PROVE q * edge + edge <= d * edge
  <2>1. (q + 1) * edge <= d * edge
    BY <1>1, <1>4, TimesMonotone
  <2>2. (q + 1) * edge = q * edge + edge
    OBVIOUS
  <2> QED
    BY <2>1, <2>2
<1>5. ASSUME d < q PROVE d * edge + edge <= q * edge
  <2>1. (d + 1) * edge <= q * edge
    BY <1>1, <1>5, TimesMonotone
  <2>2. (d + 1) * edge = d * edge + edge
    BY <1>1
  <2> QED
    BY <2>1, <2>2
<1>6. (q * edge <= x /\ x < q * edge + edge) <=> q = d
  <2>1. CASE q = d
    BY <1>3, <2>1
  <2>2. CASE q < d
    BY <1>1, <1>2, <1>3, <1>4, <2>2
  <2>3. CASE d < q
    BY <1>1, <1>2, <1>3, <1>5, <2>3
  <2> QED
    BY <1>1, <2>1, <2>2, <2>3
<1> QED
  BY <1>6 DEF d

=============================================================================
