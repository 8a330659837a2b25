---------------------------- MODULE LaunchProofs ----------------------------
(***************************************************************************)
(* How a tile is cut, for every size of grid, number of scenes and width;  *)
(* how long a wave takes, for every queue and every mix of tiles; and what *)
(* the gates let through, for every shell and every account.               *)
(***************************************************************************)
EXTENDS Launch, Counting, SequenceTheorems

-----------------------------------------------------------------------------
(* Cuts.  A cut of count things into n runs is where each run ends.        *)

IsCut(ends, n, count) ==
    /\ ends \in [0 .. n -> 0 .. count]
    /\ ends[0] = 0 /\ ends[n] = count
    /\ \A k \in 1 .. n : ends[k - 1] <= ends[k]

\* No run is empty.
Strict(ends, n) == \A k \in 1 .. n : ends[k - 1] < ends[k]

\* A tabulated function is that function.
LEMMA TabulatedIs == ASSUME NEW f PROVE Tabulated(f) = f
BY DEF Tabulated

\* The runs between the ends, in order.
LEMMA RangesOf ==
    ASSUME NEW n \in Nat, NEW ends, DOMAIN ends = 0 .. n
    PROVE  Ranges(ends) = [k \in 1 .. n |-> <<ends[k - 1], ends[k]>>]
<1>1. (0 .. n) \ {0} = 1 .. n
  OBVIOUS
<1> QED
  BY <1>1, TabulatedIs DEF Ranges

\* The smaller and the larger of two numbers.
LEMMA LowerOrHigher ==
    ASSUME NEW a \in Int, NEW b \in Int
    PROVE  /\ Lower(a, b) = IF a <= b THEN a ELSE b
           /\ Higher(a, b) = IF a <= b THEN b ELSE a
BY LeastAndMost DEF Lower, Higher

\* Later ends are no earlier.
LEMMA CutMonotone ==
    ASSUME NEW n \in Nat, NEW count \in Nat, NEW ends, IsCut(ends, n, count),
           NEW j \in 0 .. n, NEW k \in 0 .. n, j <= k
    PROVE  ends[j] <= ends[k]
<1> DEFINE Above == {i \in 0 .. n : j <= i => ends[j] <= ends[i]}
<1>1. \A i \in 0 .. n : ends[i] \in Nat
  BY DEF IsCut
<1>2. 0 \in Above
  BY <1>1
<1>3. ASSUME NEW i \in 1 .. n, i - 1 \in Above PROVE i \in Above
  <2>1. ends[i - 1] <= ends[i]
    BY DEF IsCut
  <2>2. i - 1 \in 0 .. n /\ i \in 0 .. n
    OBVIOUS
  <2>3. CASE j <= i - 1
    BY <1>1, <1>3, <2>1, <2>2, <2>3
  <2>4. CASE ~(j <= i - 1)
    <3>1. ~(j <= i) \/ i = j
      BY <2>4
    <3> QED
      BY <1>1, <2>2, <3>1
  <2> QED
    BY <2>3, <2>4
<1> HIDE DEF Above
<1>4. k \in Above
  BY <1>2, <1>3, UpTo
<1> QED
  BY <1>4 DEF Above

\* Run k is the one that thing x is in.
RunOf(ends, n, x, k) == {i \in 1 .. n : x \in ends[i - 1] .. (ends[i] - 1)} = {k}

\* Each thing is in one run.
LEMMA CutOwns ==
    ASSUME NEW n \in Nat, NEW count \in Nat, NEW ends, IsCut(ends, n, count),
           NEW x \in 0 .. (count - 1)
    PROVE  \E k \in 1 .. n : RunOf(ends, n, x, k)
<1>1. \A i \in 0 .. n : ends[i] \in Nat
  BY DEF IsCut
<1> DEFINE Past == {i \in 0 .. n : x < ends[i]}
<1>2. n \in Past
  BY DEF IsCut
<1> HIDE DEF Past
<1>3. PICK k \in Past : \A i \in Past : k <= i
  <2>1. Past \in SUBSET Nat
    BY DEF Past
  <2> QED
    BY <1>2, <2>1, LeastOf
<1> USE DEF Past
<1>4. k \in 1 .. n
  BY <1>3 DEF IsCut
<1>5. k - 1 \in 0 .. n /\ ~(x < ends[k - 1])
  BY <1>3, <1>4
<1>6. x \in ends[k - 1] .. (ends[k] - 1)
  BY <1>1, <1>3, <1>4, <1>5
<1>7. ASSUME NEW i \in 1 .. n, x \in ends[i - 1] .. (ends[i] - 1) PROVE i = k
  <2>0. i - 1 \in 0 .. n /\ i \in 0 .. n
    OBVIOUS
  <2>1. k <= i
    BY <1>1, <1>3, <1>7, <2>0
  <2>2. CASE k < i
    <3>1. ends[k] <= ends[i - 1]
      BY <2>0, <2>2, CutMonotone
    <3> QED
      BY <1>1, <1>3, <1>7, <2>0, <3>1
  <2> QED
    BY <2>1, <2>2, <1>4
<1> QED
  BY <1>4, <1>6, <1>7 DEF RunOf

\* Nearly equal runs are a cut, and none is empty while there is enough.
LEMMA RunEndsIsCut ==
    ASSUME NEW n \in Nat \ {0}, NEW count \in Nat
    PROVE  /\ IsCut(RunEnds(count, n), n, count)
           /\ n <= count => \A k \in 1 .. n : RunEnds(count, n)[k - 1] < RunEnds(count, n)[k]
<1> DEFINE q == count \div n
           r == count % n
           ends == RunEnds(count, n)
<1>1. q \in Nat /\ r \in 0 .. (n - 1) /\ n * q + r = count
  OBVIOUS
<1>2. n <= count => q >= 1
  <2> SUFFICES ASSUME n <= count, q = 0 PROVE FALSE
    BY <1>1
  <2>1. n * q = 0
    OBVIOUS
  <2> QED
    BY <1>1, <2>1
<1>3. \A a \in Nat, b \in Nat : Lower(a, b) = IF a <= b THEN a ELSE b
  BY LowerOrHigher
<1>4. ends = [i \in 0 .. n |-> i * q + Lower(i, r)]
  BY DEF RunEnds
<1> HIDE DEF q, r, ends
<1>5. ASSUME NEW k \in 1 .. n
      PROVE  ends[k] = ends[k - 1] + q + (IF k <= r THEN 1 ELSE 0) /\ ends[k - 1] \in Nat
  <2>1. k \in 0 .. n /\ k - 1 \in 0 .. n
    OBVIOUS
  <2>2. (k - 1) * q + q = k * q /\ (k - 1) * q \in Nat
    BY <1>1
  <2>3. ends[k] = k * q + Lower(k, r) /\ ends[k - 1] = (k - 1) * q + Lower(k - 1, r)
    BY <1>4, <2>1
  <2>4. Lower(k, r) = Lower(k - 1, r) + (IF k <= r THEN 1 ELSE 0) /\ Lower(k - 1, r) \in Nat
    BY <1>1, <1>3, <2>1
  <2> QED
    BY <1>1, <2>2, <2>3, <2>4
<1>6. ends[0] = 0
  BY <1>1, <1>3, <1>4
<1>7. ends[n] = count
  <2>1. ends[n] = n * q + Lower(n, r)
    BY <1>4
  <2> QED
    BY <1>1, <1>3, <2>1
<1>8. \A i \in 0 .. n : ends[i] \in 0 .. count
  <2> TAKE i \in 0 .. n
  <2>1. ends[i] = i * q + Lower(i, r) /\ Lower(i, r) \in Nat /\ Lower(i, r) <= r
    BY <1>1, <1>3, <1>4
  <2>2. i * q \in Nat /\ i * q <= n * q
    <3>1. (n - i) * q \in Nat /\ n * q = i * q + (n - i) * q /\ i * q \in Nat
      BY <1>1
    <3> QED
      BY <3>1
  <2> QED
    BY <1>1, <2>1, <2>2
<1>9. IsCut(ends, n, count)
  <2>1. ends \in [0 .. n -> 0 .. count]
    BY <1>4, <1>8
  <2>2. \A k \in 1 .. n : ends[k - 1] <= ends[k]
    BY <1>1, <1>5
  <2> QED
    BY <1>6, <1>7, <2>1, <2>2 DEF IsCut
<1>10. n <= count => \A k \in 1 .. n : ends[k - 1] < ends[k]
  BY <1>1, <1>2, <1>5
<1> QED
  BY <1>9, <1>10 DEF ends

\* A partition is the ranges of a cut.
LEMMA PartitionIsCut ==
    ASSUME NEW n \in Nat \ {0}, NEW count \in Nat, n <= count
    PROVE  \E ends : /\ Partition(count, n) = Ranges(ends) /\ IsCut(ends, n, count)
                     /\ Strict(ends, n)
BY RunEndsIsCut DEF Partition, Strict

\* So many pieces of one size cover a length, and one fewer do not.
LEMMA CeilingOf ==
    ASSUME NEW a \in Nat \ {0}, NEW b \in Nat \ {0}
    PROVE  /\ Ceiling(a, b) \in Nat \ {0}
           /\ Ceiling(a, b) * b >= a /\ (Ceiling(a, b) - 1) * b < a
           /\ a \div b \in Nat /\ a \div b <= Ceiling(a, b)
<1> DEFINE c == Ceiling(a, b)
           z == a + b - 1
<1>1. z \in Nat /\ c = z \div b /\ z >= b
  BY DEF Ceiling
<1>2. c \in Nat /\ b * c + (z % b) = z /\ (z % b) \in 0 .. (b - 1)
  BY <1>1
<1>3. (c - 1) * b = b * c - b /\ c * b = b * c
  BY <1>2
<1>4. c # 0
  <2> SUFFICES ASSUME c = 0 PROVE FALSE
    OBVIOUS
  <2>1. b * c = 0
    OBVIOUS
  <2> QED
    BY <1>1, <1>2, <2>1
<1>5. a \div b \in Nat /\ a \div b <= c
  <2> DEFINE d == a \div b
  <2>1. d \in Nat /\ b * d <= a
    OBVIOUS
  <2>2. CASE d > c
    <3>1. d * b >= (c + 1) * b
      <4> HIDE DEF c, d
      <4> QED
        BY <1>2, <2>1, <2>2, TimesMonotone
    <3>2. (c + 1) * b = c * b + b /\ d * b = b * d
      BY <1>2, <2>1
    <3> QED
      BY <1>1, <1>2, <1>3, <2>1, <3>1, <3>2
  <2> QED
    BY <1>2, <2>1, <2>2
<1> QED
  BY <1>1, <1>2, <1>3, <1>4, <1>5

\* A cut of rows into bands that are not empty, on the boundaries of chunks.
IsBandCut(ends, n, height, chunk) ==
    /\ IsCut(ends, n, height)
    /\ \A k \in 1 .. n : ends[k - 1] < ends[k] /\ ends[k - 1] % chunk = 0

\* Bands are a cut of the rows on the boundaries of chunks.
LEMMA BandEdgesIsCut ==
    ASSUME NEW height \in Nat \ {0}, NEW chunk \in Nat \ {0}, NEW n \in Nat \ {0},
           n <= Ceiling(height, chunk)
    PROVE  \E ends : BandEdges(height, n, chunk) = Ranges(ends) /\ IsBandCut(ends, n, height, chunk)
<1> DEFINE c == Ceiling(height, chunk)
           runs == RunEnds(c, n)
           ends == [i \in 0 .. n |-> Lower(runs[i] * chunk, height)]
<1>1. c \in Nat /\ c * chunk >= height /\ (c - 1) * chunk < height
  BY CeilingOf
<1>2. IsCut(runs, n, c) /\ \A k \in 1 .. n : runs[k - 1] < runs[k]
  BY <1>1, RunEndsIsCut
<1>3. BandEdges(height, n, chunk) = Ranges(ends)
  BY DEF BandEdges
<1> HIDE DEF c, runs
<1>4. \A i \in 0 .. n : runs[i] \in 0 .. c
  BY <1>2 DEF IsCut
<1>5. ASSUME NEW i \in 0 .. n
      PROVE  /\ runs[i] * chunk \in Nat
             /\ ends[i] = IF runs[i] * chunk <= height THEN runs[i] * chunk ELSE height
  <2>1. runs[i] * chunk \in Nat
    BY <1>1, <1>4
  <2> QED
    BY <2>1, LowerOrHigher
<1>6. ASSUME NEW k \in 1 .. n
      PROVE  ends[k - 1] = runs[k - 1] * chunk /\ ends[k - 1] < height
  <2>0. k - 1 \in 0 .. n /\ k \in 0 .. n
    OBVIOUS
  <2>1. runs[k - 1] \in Nat /\ runs[k - 1] <= c - 1
    <3>1. runs[k - 1] \in 0 .. c /\ runs[k] \in 0 .. c /\ runs[k - 1] < runs[k]
      BY <1>2, <1>4, <2>0
    <3> QED
      BY <1>1, <3>1
  <2>2. runs[k - 1] * chunk <= (c - 1) * chunk
    BY <1>1, <2>1, TimesMonotone
  <2>3. runs[k - 1] * chunk \in Nat /\ (c - 1) * chunk \in Int
    BY <1>1, <2>1
  <2> QED
    BY <1>1, <1>5, <2>0, <2>1, <2>2, <2>3
<1>7. ASSUME NEW k \in 1 .. n
      PROVE  ends[k - 1] < ends[k] /\ ends[k - 1] % chunk = 0
  <2>1. k - 1 \in 0 .. n /\ k \in 0 .. n /\ runs[k - 1] \in Nat /\ runs[k] \in Nat /\ runs[k - 1] < runs[k]
    BY <1>2, <1>4
  <2>2. runs[k - 1] * chunk < runs[k] * chunk
    BY <2>1, TimesMonotone
  <2>3. (runs[k - 1] * chunk) % chunk = 0
    BY <2>1
  <2>4. ends[k - 1] < ends[k]
    BY <1>5, <1>6, <2>1, <2>2
  <2> QED
    BY <1>6, <2>3, <2>4
<1>8. ends[0] = 0 /\ ends[n] = height
  <2>1. runs[0] = 0 /\ runs[n] = c /\ 0 * chunk = 0
    BY <1>2 DEF IsCut
  <2> QED
    BY <1>1, <1>5, <2>1
<1>9. IsCut(ends, n, height)
  <2>1. \A i \in 0 .. n : ends[i] \in 0 .. height
    BY <1>5
  <2>2. ends \in [0 .. n -> 0 .. height]
    BY <2>1
  <2>3. \A i \in 0 .. n : ends[i] \in Nat
    BY <2>1
  <2>4. \A k \in 1 .. n : ends[k - 1] <= ends[k]
    <3> TAKE k \in 1 .. n
    <3>1. k - 1 \in 0 .. n /\ k \in 0 .. n
      OBVIOUS
    <3>2. ends[k - 1] < ends[k]
      BY <1>7
    <3> HIDE DEF ends
    <3> QED
      BY <2>3, <3>1, <3>2
  <2> HIDE DEF ends
  <2> QED
    BY <1>8, <2>2, <2>4 DEF IsCut
<1> HIDE DEF ends
<1> QED
  BY <1>3, <1>7, <1>9 DEF IsBandCut

\* The running sums of a list of numbers.
LEMMA PrefixOf ==
    ASSUME NEW weights, Len(weights) \in Nat, \A i \in 1 .. Len(weights) : weights[i] \in Nat
    PROVE  /\ Prefix(weights) \in [0 .. Len(weights) -> Nat]
           /\ Prefix(weights)[0] = 0
           /\ \A k \in 1 .. Len(weights) :
                 Prefix(weights)[k] = Prefix(weights)[k - 1] + weights[k]
<1> DEFINE n == Len(weights)
           Body(sum) == [i \in 0 .. n |-> IF i = 0 THEN 0 ELSE sum[i - 1] + weights[i]]
           S == [k \in 0 .. n |-> Nat]
           step == [p \in (1 .. n) \X Nat |-> p[2] + weights[p[1]]]
<1>0. n \in Nat
  OBVIOUS
<1>1. \A k \in 1 .. n : \A v \in Nat : step[<<k, v>>] = v + weights[k]
  OBVIOUS
<1>2. KeepsTo(S, step, n) /\ 0 \in S[0] /\ \A k \in 0 .. n : S[k] = Nat
  BY DEF KeepsTo
<1> HIDE DEF S, step
<1>3. PICK f : Follows(f, 0, step, S, n)
  BY <1>0, <1>2, Recursion
<1> USE DEF Follows
<1>4. ASSUME NEW i \in 0 .. n PROVE f[i] = IF i = 0 THEN 0 ELSE f[i - 1] + weights[i]
  <2>1. CASE i = 0
    BY <1>3, <2>1
  <2>2. CASE i # 0
    <3>1. i \in 1 .. n /\ i - 1 \in 0 .. n
      BY <2>2
    <3>2. f[i - 1] \in Nat /\ f[i] = step[<<i, f[i - 1]>>]
      BY <1>2, <1>3, <3>1
    <3> QED
      BY <1>1, <2>2, <3>1, <3>2
  <2> QED
    BY <2>1, <2>2
<1>5. f = Body(f)
  <2>1. f = [i \in 0 .. n |-> f[i]]
    BY <1>3
  <2>2. [i \in 0 .. n |-> f[i]] = [i \in 0 .. n |-> IF i = 0 THEN 0 ELSE f[i - 1] + weights[i]]
    BY <1>4
  <2> QED
    BY <2>1, <2>2
<1> DEFINE sum == CHOOSE s : s = Body(s)
<1>6. Prefix(weights) = sum
  <2>1. Prefix(weights) = Tabulated(sum)
    BY DEF Prefix
  <2> QED
    BY <2>1, TabulatedIs
<1> HIDE DEF Body
<1>7. sum = Body(sum)
  BY <1>5
<1> HIDE DEF sum
<1>c. sum = [i \in 0 .. n |-> IF i = 0 THEN 0 ELSE sum[i - 1] + weights[i]]
  BY <1>7 DEF Body
<1>d. \A i \in 0 .. n : sum[i] = IF i = 0 THEN 0 ELSE sum[i - 1] + weights[i]
  BY <1>c
<1>8. /\ sum = [i \in 0 .. n |-> sum[i]] /\ sum[0] = 0
      /\ \A k \in 1 .. n : sum[k] = sum[k - 1] + weights[k]
  <2>1. sum = [i \in 0 .. n |-> sum[i]]
    BY <1>c, <1>d
  <2>2. sum[0] = 0
    BY <1>d
  <2>3. \A k \in 1 .. n : sum[k] = sum[k - 1] + weights[k]
    BY <1>d
  <2> QED
    BY <2>1, <2>2, <2>3
<1> DEFINE Natural == {k \in 0 .. n : sum[k] \in Nat}
<1>9. \A k \in 0 .. n : k \in Natural
  <2>1. 0 \in Natural
    BY <1>8
  <2>2. ASSUME NEW k \in 1 .. n, k - 1 \in Natural PROVE k \in Natural
    <3>1. sum[k] = sum[k - 1] + weights[k] /\ weights[k] \in Nat /\ sum[k - 1] \in Nat
      BY <1>8, <2>2
    <3> QED
      BY <3>1
  <2> HIDE DEF Natural
  <2> QED
    BY <1>0, <2>1, <2>2, UpTo
<1>10. sum \in [0 .. n -> Nat]
  BY <1>8, <1>9
<1> QED
  BY <1>6, <1>8, <1>10

-----------------------------------------------------------------------------
(* The splits of phase A.                                                  *)

\* Cutting where the land has reached its share is a cut, with no run empty.
LEMMA LandIsCut ==
    ASSUME NEW hasLand, Len(hasLand) \in Nat, NEW n \in Nat \ {0}, n <= Len(hasLand)
    PROVE  \E ends : /\ BalanceByLand(hasLand, n) = Ranges(ends)
                     /\ IsCut(ends, n, Len(hasLand))
<1> DEFINE count == Len(hasLand)
           prefix == Prefix([i \in 1 .. count |-> IF hasLand[i] THEN 1 ELSE 0])
           Splits(k, v) == {end \in (v + 1) .. (count - (n - k)) :
                               end = count - (n - k) \/ prefix[end] * n >= prefix[count] * k}
           Body(e) == [k \in 0 .. n |-> IF k = 0 THEN 0 ELSE IF k = n THEN count
                                        ELSE Min(Splits(k, e[k - 1]))]
           ends == CHOOSE e : e = Body(e)
           S == [k \in 0 .. n |-> k .. (count - (n - k))]
           step == [p \in (1 .. n) \X Nat |-> IF p[1] = n THEN count ELSE Min(Splits(p[1], p[2]))]
<1>1. BalanceByLand(hasLand, n) = IF prefix[count] = 0 THEN Partition(count, n) ELSE Ranges(ends)
  BY DEF BalanceByLand
<1>2. count \in Nat /\ n \in Nat \ {0} /\ n <= count
  OBVIOUS
<1> HIDE DEF count, prefix
<1>3. ASSUME NEW k \in 1 .. n, NEW v \in (k - 1) .. (count - (n - (k - 1)))
      PROVE  /\ Min(Splits(k, v)) \in (v + 1) .. (count - (n - k))
             /\ (v + 1) .. (count - (n - k)) \subseteq k .. (count - (n - k))
  <2>1. Splits(k, v) \in SUBSET Nat /\ count - (n - k) \in Splits(k, v)
    BY <1>2
  <2>2. Min(Splits(k, v)) \in Splits(k, v)
    <3> HIDE DEF Splits
    <3> QED
      BY <2>1, MinOf
  <2> QED
    BY <1>2, <2>2
<1> HIDE DEF Splits
<1>4. \A k \in 1 .. n : \A v \in Nat :
        step[<<k, v>>] = IF k = n THEN count ELSE Min(Splits(k, v))
  OBVIOUS
<1>5. \A k \in 0 .. n : S[k] = k .. (count - (n - k))
  OBVIOUS
<1> HIDE DEF S, step
<1>6. KeepsTo(S, step, n)
  <2> SUFFICES ASSUME NEW k \in 1 .. n, NEW v \in S[k - 1] PROVE step[<<k, v>>] \in S[k]
    BY DEF KeepsTo
  <2>1. k \in 0 .. n /\ k - 1 \in 0 .. n
    OBVIOUS
  <2>2. v \in (k - 1) .. (count - (n - (k - 1))) /\ v \in Nat
    BY <1>2, <1>5, <2>1
  <2>3. CASE k = n
    BY <1>2, <1>4, <1>5, <2>1, <2>2, <2>3
  <2>4. CASE k # n
    <3>1. step[<<k, v>>] = Min(Splits(k, v))
      BY <1>4, <2>2, <2>4
    <3> QED
      BY <1>3, <1>5, <2>1, <2>2, <3>1
  <2> QED
    BY <2>3, <2>4
<1>7. PICK f : Follows(f, 0, step, S, n)
  <2>1. 0 \in S[0] /\ n \in Nat
    BY <1>2, <1>5
  <2> QED
    BY <1>6, <2>1, Recursion
<1>8. f = Body(f)
  <2>1. f = [k \in 0 .. n |-> f[k]]
    BY <1>7 DEF Follows
  <2>2. ASSUME NEW k \in 0 .. n
        PROVE  f[k] = IF k = 0 THEN 0 ELSE IF k = n THEN count ELSE Min(Splits(k, f[k - 1]))
    <3>1. CASE k = 0
      BY <1>7, <3>1 DEF Follows
    <3>2. CASE k # 0
      <4>1. k \in 1 .. n /\ k - 1 \in 0 .. n
        BY <3>2
      <4>2. f[k - 1] \in S[k - 1] /\ f[k] = step[<<k, f[k - 1]>>]
        BY <1>7, <4>1 DEF Follows
      <4>3. f[k - 1] \in Nat
        BY <1>2, <1>5, <4>1, <4>2, SMTT(20)
      <4> QED
        BY <1>4, <3>2, <4>1, <4>2, <4>3
    <3> QED
      BY <3>1, <3>2
  <2> QED
    BY <2>1, <2>2
<1> HIDE DEF Body
<1>9. ends = Body(ends)
  BY <1>8
<1> HIDE DEF ends
<1>10. ends = [k \in 0 .. n |-> IF k = 0 THEN 0 ELSE IF k = n THEN count
                                ELSE Min(Splits(k, ends[k - 1]))]
  BY <1>9 DEF Body
<1>11. ASSUME NEW k \in 1 .. n, ends[k - 1] \in S[k - 1]
       PROVE  ends[k] \in S[k] /\ ends[k - 1] <= ends[k]
  <2>1. k \in 0 .. n /\ k - 1 \in 0 .. n
    OBVIOUS
  <2>2. ends[k - 1] \in (k - 1) .. (count - (n - (k - 1)))
    BY <1>5, <1>11, <2>1
  <2>3. CASE k = n
    <3>1. ends[k] = count
      BY <1>2, <1>10, <2>1, <2>3
    <3> QED
      BY <1>2, <1>5, <2>1, <2>2, <2>3, <3>1
  <2>4. CASE k # n
    <3>1. ends[k] = Min(Splits(k, ends[k - 1]))
      BY <1>10, <2>1, <2>4
    <3>2. ends[k] \in (ends[k - 1] + 1) .. (count - (n - k)) /\ ends[k] \in k .. (count - (n - k))
      BY <1>3, <2>2, <3>1
    <3> QED
      BY <1>2, <1>5, <2>1, <2>2, <3>2
  <2> QED
    BY <2>3, <2>4
<1>12. \A k \in 0 .. n : ends[k] \in S[k]
  <2> DEFINE Placed == {k \in 0 .. n : ends[k] \in S[k]}
  <2>1. 0 \in Placed
    BY <1>2, <1>5, <1>10
  <2>2. \A k \in 1 .. n : k - 1 \in Placed => k \in Placed
    BY <1>11
  <2>3. \A k \in 0 .. n : k \in Placed
    <3> HIDE DEF Placed
    <3> QED
      BY <1>2, <2>1, <2>2, UpTo
  <2> QED
    BY <2>3
<1>13. IsCut(ends, n, count)
  <2>1. \A k \in 0 .. n : ends[k] \in 0 .. count
    BY <1>2, <1>5, <1>12
  <2>2. ends \in [0 .. n -> 0 .. count]
    <3>1. ends = [k \in 0 .. n |-> ends[k]]
      BY <1>10
    <3> QED
      BY <2>1, <3>1
  <2>3. ends[0] = 0 /\ ends[n] = count
    BY <1>2, <1>10
  <2>4. \A k \in 1 .. n : ends[k - 1] <= ends[k]
    BY <1>11, <1>12
  <2> QED
    BY <2>2, <2>3, <2>4 DEF IsCut
<1>14. CASE prefix[count] = 0
  <2>1. \E e : Partition(count, n) = Ranges(e) /\ IsCut(e, n, count)
    BY <1>2, PartitionIsCut
  <2> QED
    BY <1>1, <1>14, <2>1 DEF count
<1>15. CASE prefix[count] # 0
  BY <1>1, <1>13, <1>15 DEF count
<1> QED
  BY <1>14, <1>15

\* The running sums never fall.
LEMMA PrefixMonotone ==
    ASSUME NEW weights, Len(weights) \in Nat, \A i \in 1 .. Len(weights) : weights[i] \in Nat,
           NEW j \in 0 .. Len(weights), NEW k \in 0 .. Len(weights), j <= k
    PROVE  Prefix(weights)[j] <= Prefix(weights)[k]
<1> DEFINE n == Len(weights)
           prefix == Prefix(weights)
           Above == {i \in 0 .. n : j <= i => prefix[j] <= prefix[i]}
<1>1. n \in Nat /\ \A i \in 0 .. n : prefix[i] \in Nat
  BY PrefixOf
<1>2. \A i \in 1 .. n : prefix[i - 1] <= prefix[i]
  <2> TAKE i \in 1 .. n
  <2>0. i - 1 \in 0 .. n
    OBVIOUS
  <2>1. weights[i] \in Nat /\ prefix[i] = prefix[i - 1] + weights[i]
    BY PrefixOf
  <2>2. prefix[i - 1] \in Nat
    BY <1>1, <2>0
  <2> HIDE DEF prefix
  <2> QED
    BY <2>1, <2>2
<1>3. j \in 0 .. n /\ k \in 0 .. n
  OBVIOUS
<1> HIDE DEF n, prefix
<1>4. 0 \in Above
  BY <1>1, <1>3
<1>5. ASSUME NEW i \in 1 .. n, i - 1 \in Above PROVE i \in Above
  <2>0. i - 1 \in 0 .. n /\ i \in 0 .. n
    BY <1>1
  <2>1. i - 1 \in 0 .. n /\ i \in 0 .. n /\ prefix[i - 1] <= prefix[i]
    BY <1>2, <2>0
  <2>2. prefix[j] \in Nat /\ prefix[i - 1] \in Nat /\ prefix[i] \in Nat
    BY <1>1, <1>3, <2>1
  <2>3. CASE j <= i - 1
    BY <1>5, <2>1, <2>2, <2>3
  <2>4. CASE ~(j <= i - 1)
    <3>1. ~(j <= i) \/ i = j
      BY <1>3, <2>4
    <3> QED
      BY <2>1, <2>2, <3>1
  <2> QED
    BY <2>3, <2>4
<1> HIDE DEF Above
<1>6. k \in Above
  BY <1>1, <1>3, <1>4, <1>5, UpTo
<1> QED
  BY <1>3, <1>6 DEF Above, n, prefix

\* Running sums: they start at zero and never fall.
Rising(prefix, count) ==
    /\ prefix \in [0 .. count -> Nat] /\ prefix[0] = 0
    /\ \A j \in 0 .. count : \A k \in 0 .. count : j <= k => prefix[j] <= prefix[k]

\* The rows of the dynamic program.
LightestRows(best, prefix, n, count) ==
    best = [groups \in 0 .. n |->
              IF groups = 0
              THEN [end \in 0 .. count |-> IF end = 0 THEN 0 ELSE prefix[count] + 1]
              ELSE [end \in 0 .. count |->
                      Min({prefix[count] + 1} \cup
                          {Higher(best[groups - 1][start], prefix[end] - prefix[start]) :
                             start \in (groups - 1) .. (end - 1)})]]

\* A lightest split of the first end blocks ends with a run that starts somewhere.
LastRunStarts(best, prefix, groups, end) ==
    /\ \E start \in (groups - 1) .. (end - 1) :
          Higher(best[groups - 1][start], prefix[end] - prefix[start]) = best[groups][end]
    /\ groups = 1 => Higher(best[0][0], prefix[end] - prefix[0]) = best[1][end]
    /\ best[groups][end] \in Nat /\ best[0][0] = 0
    /\ \A start \in (groups - 1) .. (end - 1) :
          /\ best[groups - 1][start] \in Nat
          /\ best[groups][end] <= Higher(best[groups - 1][start], prefix[end] - prefix[start])

\* The lightest of the heaviest groups, row by row: it can be reached, and for
\* one group it is the weight of the blocks.
LEMMA WeightsAreReached ==
    ASSUME NEW count \in Nat, NEW n \in Nat \ {0}, n <= count,
           NEW prefix, Rising(prefix, count), NEW best, LightestRows(best, prefix, n, count),
           NEW groups \in 1 .. n, NEW end \in groups .. count
    PROVE  LastRunStarts(best, prefix, groups, end)
<1> DEFINE unreachable == prefix[count] + 1
           Costs(g, e) == {Higher(best[g - 1][start], prefix[e] - prefix[start]) :
                             start \in (g - 1) .. (e - 1)}
<1> USE DEF Rising, LightestRows
<1>1. unreachable \in Nat /\ \A e \in 0 .. count : prefix[e] \in Nat /\ prefix[e] < unreachable
  <2>1. prefix[count] \in Nat
    OBVIOUS
  <2>2. \A e \in 0 .. count : prefix[e] \in Nat /\ prefix[e] <= prefix[count]
    OBVIOUS
  <2> QED
    BY <2>1, <2>2
<1>2. /\ \A e \in 0 .. count : best[0][e] = IF e = 0 THEN 0 ELSE unreachable
      /\ \A g \in 1 .. n : \A e \in 0 .. count : best[g][e] = Min({unreachable} \cup Costs(g, e))
  <2>1. 0 \in 0 .. n
    OBVIOUS
  <2>2. best[0] = [e \in 0 .. count |-> IF e = 0 THEN 0 ELSE unreachable]
    BY <2>1
  <2>3. ASSUME NEW g \in 1 .. n
        PROVE  best[g] = [e \in 0 .. count |-> Min({unreachable} \cup Costs(g, e))]
    <3>1. g \in 0 .. n /\ g # 0
      OBVIOUS
    <3> QED
      BY <3>1
  <2> HIDE DEF Costs, unreachable
  <2>4. \A e \in 0 .. count : best[0][e] = IF e = 0 THEN 0 ELSE unreachable
    BY <2>2
  <2>5. ASSUME NEW g \in 1 .. n, NEW e \in 0 .. count
        PROVE  best[g][e] = Min({unreachable} \cup Costs(g, e))
    BY <2>3
  <2> QED
    BY <2>4, <2>5
<1> HIDE DEF unreachable
<1>3. \A a \in Nat, b \in Int : Higher(a, b) = (IF a <= b THEN b ELSE a) /\ Higher(a, b) \in Nat
  BY LowerOrHigher
<1>4. ASSUME NEW g \in 1 .. n, NEW e \in 0 .. count, \A s \in 0 .. count : best[g - 1][s] \in Nat
      PROVE  /\ Costs(g, e) \in SUBSET Nat
             /\ best[g][e] \in {unreachable} \cup Costs(g, e)
             /\ \A y \in {unreachable} \cup Costs(g, e) : best[g][e] <= y
  <2>1. ASSUME NEW s \in (g - 1) .. (e - 1)
        PROVE  Higher(best[g - 1][s], prefix[e] - prefix[s]) \in Nat
    <3>1. s \in 0 .. count
      OBVIOUS
    <3>2. prefix[e] \in Nat /\ prefix[s] \in Nat
      BY <1>1, <3>1
    <3>3. prefix[e] - prefix[s] \in Int
      BY <3>2
    <3>4. best[g - 1][s] \in Nat
      BY <1>4, <3>1
    <3> QED
      BY <1>3, <3>3, <3>4
  <2>2. Costs(g, e) \in SUBSET Nat
    <3> SUFFICES ASSUME NEW c \in Costs(g, e) PROVE c \in Nat
      OBVIOUS
    <3>1. PICK s \in (g - 1) .. (e - 1) : c = Higher(best[g - 1][s], prefix[e] - prefix[s])
      OBVIOUS
    <3> QED
      BY <2>1, <3>1
  <2> HIDE DEF Costs
  <2>3. {unreachable} \cup Costs(g, e) \in SUBSET Nat /\ {unreachable} \cup Costs(g, e) # {}
    BY <1>1, <2>2
  <2>4. best[g][e] = Min({unreachable} \cup Costs(g, e))
    BY <1>2
  <2> DEFINE all == {unreachable} \cup Costs(g, e)
  <2>5. all \in SUBSET Nat /\ all # {} /\ best[g][e] = Min(all)
    BY <2>3, <2>4
  <2> HIDE DEF all
  <2>6. Min(all) \in all /\ \A y \in all : Min(all) <= y
    BY <2>5, MinOf
  <2> QED
    BY <2>2, <2>5, <2>6 DEF all
<1> DEFINE Reached == {g \in 0 .. n : /\ \A s \in 0 .. count : best[g][s] \in Nat
                                      /\ best[g][g] <= prefix[g]}
<1>5. 0 \in Reached
  BY <1>1, <1>2
<1>6. ASSUME NEW g \in 1 .. n, g - 1 \in Reached
      PROVE  /\ g \in Reached
             /\ \A e \in g .. count : best[g][e] \in Costs(g, e)
  <2>1. \A s \in 0 .. count : best[g - 1][s] \in Nat
    BY <1>6
  <2>2. \A s \in 0 .. count : best[g][s] \in Nat
    <3> TAKE s \in 0 .. count
    <3> HIDE DEF Costs
    <3>1. Costs(g, s) \in SUBSET Nat /\ best[g][s] \in {unreachable} \cup Costs(g, s)
      BY <1>4, <2>1
    <3> QED
      BY <1>1, <3>1
  <2>3. ASSUME NEW e \in g .. count
        PROVE  best[g][e] <= prefix[e] /\ best[g][e] \in Costs(g, e)
    <3>1. e \in 0 .. count /\ g - 1 \in 0 .. count /\ g - 1 \in (g - 1) .. (e - 1) /\ g - 1 <= e
      OBVIOUS
    <3> DEFINE y == Higher(best[g - 1][g - 1], prefix[e] - prefix[g - 1])
    <3>2. y \in Costs(g, e)
      BY <3>1
    <3>3. best[g - 1][g - 1] \in Nat /\ best[g - 1][g - 1] <= prefix[g - 1]
      BY <1>6, <3>1
    <3>4. prefix[g - 1] <= prefix[e] /\ prefix[g - 1] \in Nat /\ prefix[e] \in Nat
      BY <1>1, <3>1
    <3>5. y <= prefix[e] /\ y \in Nat
      <4> DEFINE a == best[g - 1][g - 1]
                 b == prefix[e] - prefix[g - 1]
      <4>1. b \in Nat /\ b <= prefix[e] /\ a \in Nat /\ a <= prefix[e] /\ prefix[e] \in Nat
        BY <3>3, <3>4
      <4>2. y = Higher(a, b)
        OBVIOUS
      <4> HIDE DEF a, b, y
      <4>3. a \in Int /\ b \in Int
        BY <4>1
      <4>4. y = IF a <= b THEN b ELSE a
        BY <4>2, <4>3, LowerOrHigher
      <4> QED
        BY <4>1, <4>4
    <3> HIDE DEF y, Costs
    <3>6. /\ Costs(g, e) \in SUBSET Nat
          /\ best[g][e] \in {unreachable} \cup Costs(g, e)
          /\ \A x \in {unreachable} \cup Costs(g, e) : best[g][e] <= x
      BY <1>4, <2>1, <3>1
    <3>7. best[g][e] <= y
      BY <3>2, <3>6
    <3>8. best[g][e] \in Nat /\ prefix[e] < unreachable
      BY <1>1, <2>2, <3>1
    <3>9. best[g][e] <= prefix[e] /\ best[g][e] # unreachable
      BY <1>1, <3>4, <3>5, <3>7, <3>8
    <3> QED
      BY <3>6, <3>9
  <2>4. g \in g .. count /\ g \in 0 .. n
    OBVIOUS
  <2>5. best[g][g] <= prefix[g]
    BY <2>3, <2>4
  <2> HIDE DEF Costs
  <2> QED
    BY <2>2, <2>3, <2>4, <2>5
<1>7. \A g \in 0 .. n : g \in Reached
  <2> HIDE DEF Reached
  <2> QED
    BY <1>5, <1>6, UpTo
<1>8. best[groups][end] \in Costs(groups, end)
  <2>1. groups - 1 \in Reached
    <3>1. groups - 1 \in 0 .. n
      OBVIOUS
    <3> HIDE DEF Reached
    <3> QED
      BY <1>7, <3>1
  <2> HIDE DEF Reached, Costs
  <2> QED
    BY <1>6, <2>1
<1>9. \E start \in (groups - 1) .. (end - 1) :
         Higher(best[groups - 1][start], prefix[end] - prefix[start]) = best[groups][end]
  BY <1>8
<1>10. ASSUME groups = 1
       PROVE  Higher(best[0][0], prefix[end] - prefix[0]) = best[1][end]
  <2>0. groups - 1 = 0
    BY <1>10
  <2>1. PICK start \in 0 .. (end - 1) :
           Higher(best[0][start], prefix[end] - prefix[start]) = best[1][end]
    BY <1>9, <1>10, <2>0
  <2>2. start \in 0 .. count /\ 0 \in 0 .. count /\ end \in 0 .. count
    BY <1>10
  <2>3. best[0][start] = (IF start = 0 THEN 0 ELSE unreachable)
    BY <1>2, <2>2
  <2>4. best[1][end] <= prefix[end] /\ best[1][end] \in Nat
    <3>1. 1 \in 1 .. n /\ 0 \in Reached /\ 1 \in Reached
      <4>1. 0 \in 0 .. n /\ 1 \in 0 .. n /\ 1 \in 1 .. n
        OBVIOUS
      <4> HIDE DEF Reached
      <4> QED
        BY <1>7, <4>1
    <3>2. \A s \in 0 .. count : best[1 - 1][s] \in Nat
      BY <3>1
    <3> DEFINE y == Higher(best[1 - 1][0], prefix[end] - prefix[0])
    <3>3. y \in Costs(1, end)
      <4>1. 0 \in (1 - 1) .. (end - 1)
        BY <1>10
      <4> QED
        BY <4>1
    <3>4. best[1][end] <= y
      <4> HIDE DEF y, Costs
      <4> QED
        BY <1>4, <2>2, <3>1, <3>2, <3>3
    <3>5. y = prefix[end]
      <4>1. best[1 - 1][0] = 0 /\ prefix[end] - prefix[0] = prefix[end] /\ prefix[end] \in Nat
        BY <1>1, <1>2, <2>2
      <4>2. Higher(0, prefix[end]) = prefix[end]
        BY <1>3, <4>1
      <4> QED
        BY <4>1, <4>2
    <3>6. best[1][end] \in Nat
      BY <2>2, <3>1
    <3> QED
      BY <3>4, <3>5, <3>6
  <2>5. start = 0
    <3> SUFFICES ASSUME start # 0 PROVE FALSE
      OBVIOUS
    <3>1. best[0][start] = unreachable /\ prefix[end] - prefix[start] \in Int
      BY <1>1, <2>2, <2>3
    <3>2. unreachable <= best[1][end]
      <4> DEFINE x == prefix[end] - prefix[start]
      <4>1. x \in Int /\ Higher(unreachable, x) = best[1][end] /\ unreachable \in Nat
        BY <1>1, <2>1, <3>1
      <4> HIDE DEF x
      <4>2. Higher(unreachable, x) = IF unreachable <= x THEN x ELSE unreachable
        BY <4>1, LowerOrHigher
      <4> QED
        BY <4>1, <4>2
    <3>3. prefix[end] < unreachable /\ prefix[end] \in Nat
      BY <1>1, <2>2
    <3> QED
      BY <1>1, <2>4, <3>2, <3>3
  <2> QED
    BY <2>1, <2>5
<1>11. best[groups][end] \in Nat /\ best[0][0] = 0
  <2>1. groups \in Reached /\ end \in 0 .. count /\ 0 \in 0 .. count
    <3>1. groups \in 0 .. n
      OBVIOUS
    <3> HIDE DEF Reached
    <3> QED
      BY <1>7, <3>1
  <2> QED
    BY <1>2, <2>1
<1>12. ASSUME NEW start \in (groups - 1) .. (end - 1)
       PROVE  /\ best[groups - 1][start] \in Nat
              /\ best[groups][end] <= Higher(best[groups - 1][start], prefix[end] - prefix[start])
  <2>1. groups - 1 \in Reached
    <3>1. groups - 1 \in 0 .. n
      OBVIOUS
    <3> HIDE DEF Reached
    <3> QED
      BY <1>7, <3>1
  <2>2. \A s \in 0 .. count : best[groups - 1][s] \in Nat
    BY <2>1
  <2>3. start \in 0 .. count /\ end \in 0 .. count
    OBVIOUS
  <2> DEFINE y == Higher(best[groups - 1][start], prefix[end] - prefix[start])
  <2>4. y \in Costs(groups, end)
    OBVIOUS
  <2>5. best[groups][end] <= y
    <3> HIDE DEF y, Costs
    <3> QED
      BY <1>4, <2>2, <2>3, <2>4
  <2> QED
    BY <2>2, <2>3, <2>5
<1> QED
  BY <1>9, <1>10, <1>11, <1>12 DEF LastRunStarts

\* Where the last of g runs over e things may start.
StartsEarlier(cut, n, count) ==
    \A g \in 1 .. n : \A e \in g .. count : cut[<<g, e>>] \in (g - 1) .. (e - 1)

\* Ends found from the last to the first.
FromTheLast(ends, cut, n, count) ==
    /\ ends = [g \in 0 .. n |-> ends[g]]
    /\ ends[n] = count
    /\ \A g \in 0 .. n : ends[g] \in g .. count
    /\ \A g \in 0 .. (n - 1) : ends[g] = cut[<<g + 1, ends[g + 1]>>]

\* Where no run is empty, run k ends at k or later.
LEMMA StrictCutIsHigh ==
    ASSUME NEW n \in Nat, NEW count \in Nat, NEW ends, IsCut(ends, n, count), Strict(ends, n),
           NEW k \in 0 .. n
    PROVE  ends[k] \in k .. count
<1> DEFINE High == {i \in 0 .. n : ends[i] >= i}
<1>1. \A i \in 0 .. n : ends[i] \in 0 .. count
  BY DEF IsCut
<1>2. 0 \in High
  BY <1>1
<1>3. ASSUME NEW i \in 1 .. n, i - 1 \in High PROVE i \in High
  <2>1. i \in 0 .. n /\ i - 1 \in 0 .. n
    OBVIOUS
  <2>2. ends[i] \in Nat /\ ends[i - 1] \in Nat /\ ends[i - 1] < ends[i] /\ ends[i - 1] >= i - 1
    BY <1>1, <1>3, <2>1 DEF Strict
  <2> QED
    BY <2>1, <2>2
<1> HIDE DEF High
<1>4. k \in High
  BY <1>2, <1>3, UpTo
<1> QED
  BY <1>1, <1>4 DEF High

\* Cuts found from the last to the first can be tabulated.
LEMMA CutsFromTheLast ==
    ASSUME NEW n \in Nat \ {0}, NEW count \in Nat, n <= count, NEW cut,
           StartsEarlier(cut, n, count)
    PROVE  \E ends : FromTheLast(ends, cut, n, count)
<1> DEFINE S == [k \in 0 .. n |-> (n - k) .. (count - k)]
           step == [p \in (1 .. n) \X Nat |-> cut[<<n - p[1] + 1, p[2]>>]]
<1>1. \A k \in 0 .. n : S[k] = (n - k) .. (count - k)
  OBVIOUS
<1>2. \A k \in 1 .. n : \A v \in Nat : step[<<k, v>>] = cut[<<n - k + 1, v>>]
  OBVIOUS
<1> HIDE DEF S, step
<1>3. KeepsTo(S, step, n)
  <2> SUFFICES ASSUME NEW k \in 1 .. n, NEW v \in S[k - 1] PROVE step[<<k, v>>] \in S[k]
    BY DEF KeepsTo
  <2>1. k \in 0 .. n /\ k - 1 \in 0 .. n
    OBVIOUS
  <2>2. v \in (n - k + 1) .. (count - k + 1) /\ v \in Nat
    BY <1>1, <2>1
  <2>3. n - k + 1 \in 1 .. n /\ v \in (n - k + 1) .. count
    BY <2>2
  <2> DEFINE g == n - k + 1
  <2>4. cut[<<g, v>>] \in (g - 1) .. (v - 1)
    BY <2>3 DEF StartsEarlier
  <2>5. step[<<k, v>>] = cut[<<g, v>>]
    BY <1>2, <2>2
  <2>6. g - 1 = n - k
    OBVIOUS
  <2>7. S[k] = (n - k) .. (count - k)
    BY <1>1, <2>1
  <2> HIDE DEF g
  <2>8. cut[<<g, v>>] \in (n - k) .. (count - k)
    BY <2>2, <2>4, <2>6
  <2> QED
    BY <2>5, <2>7, <2>8
<1>4. PICK f : Follows(f, count, step, S, n)
  <2>1. count \in S[0] /\ n \in Nat
    BY <1>1
  <2> QED
    BY <1>3, <2>1, Recursion
<1> DEFINE ends == [g \in 0 .. n |-> f[n - g]]
<1>5. ends = [g \in 0 .. n |-> ends[g]] /\ ends[n] = count
  BY <1>4 DEF Follows
<1>6. \A g \in 0 .. n : ends[g] \in g .. count
  <2> TAKE g \in 0 .. n
  <2>1. n - g \in 0 .. n /\ n - (n - g) = g
    OBVIOUS
  <2>2. f[n - g] \in S[n - g]
    BY <1>4, <2>1 DEF Follows
  <2>3. S[n - g] = g .. (count - (n - g))
    BY <1>1, <2>1
  <2> QED
    BY <2>1, <2>2, <2>3
<1>7. \A g \in 0 .. (n - 1) : ends[g] = cut[<<g + 1, ends[g + 1]>>]
  <2> TAKE g \in 0 .. (n - 1)
  <2> DEFINE k == n - g
  <2>1. k \in 1 .. n /\ k - 1 = n - (g + 1) /\ n - k + 1 = g + 1
    OBVIOUS
  <2>2. g \in 0 .. n /\ g + 1 \in 0 .. n
    OBVIOUS
  <2>3. ends[g] = f[k] /\ ends[g + 1] = f[k - 1]
    BY <2>1, <2>2
  <2> HIDE DEF k
  <2>4. f[k] = step[<<k, f[k - 1]>>]
    BY <1>4, <2>1 DEF Follows
  <2>5. ends[g + 1] \in Nat
    BY <1>6, <2>2
  <2>6. step[<<k, f[k - 1]>>] = cut[<<n - k + 1, f[k - 1]>>]
    BY <1>2, <2>1, <2>3, <2>5
  <2> QED
    BY <2>1, <2>3, <2>4, <2>6
<1> HIDE DEF ends
<1> QED
  BY <1>5, <1>6, <1>7 DEF FromTheLast

\* Where each run starts before it ends, and the first at the first thing, the
\* runs are a cut.
LEMMA DescentIsCut ==
    ASSUME NEW n \in Nat \ {0}, NEW count \in Nat, n <= count,
           NEW ends, ends = [g \in 0 .. n |-> ends[g]], ends[n] = count,
           \A g \in 0 .. (n - 1) : ends[g + 1] \in (g + 1) .. count =>
              /\ ends[g] \in g .. (ends[g + 1] - 1)
              /\ g = 0 => ends[g] = 0
    PROVE  IsCut(ends, n, count) /\ Strict(ends, n)
<1> DEFINE Placed == {k \in 0 .. n : ends[n - k] \in (n - k) .. count}
<1>1. 0 \in Placed
  OBVIOUS
<1>2. ASSUME NEW k \in 1 .. n, k - 1 \in Placed PROVE k \in Placed
  <2> DEFINE g == n - k
  <2>1. g \in 0 .. (n - 1) /\ n - (k - 1) = g + 1
    OBVIOUS
  <2>2. ends[g + 1] \in (g + 1) .. count
    BY <1>2, <2>1
  <2>3. ends[g] \in g .. (ends[g + 1] - 1)
    BY <2>1, <2>2
  <2>4. ends[g] \in g .. count
    BY <2>1, <2>2, <2>3
  <2> QED
    BY <2>4
<1>3. \A k \in 0 .. n : k \in Placed
  <2> HIDE DEF Placed
  <2> QED
    BY <1>1, <1>2, UpTo
<1>4. \A g \in 0 .. n : ends[g] \in g .. count
  <2> TAKE g \in 0 .. n
  <2>1. n - g \in 0 .. n /\ n - (n - g) = g
    OBVIOUS
  <2>2. n - g \in Placed
    BY <1>3, <2>1
  <2> QED
    BY <2>1, <2>2
<1>5. \A g \in 0 .. n : ends[g] \in 0 .. count
  BY <1>4
<1>6. ends \in [0 .. n -> 0 .. count]
  BY <1>5
<1>7. ends[0] = 0
  <2>1. 0 \in 0 .. (n - 1) /\ 0 + 1 \in 0 .. n
    OBVIOUS
  <2>2. ends[0 + 1] \in (0 + 1) .. count
    BY <1>4, <2>1
  <2> QED
    BY <2>1, <2>2
<1>8. \A k \in 1 .. n : ends[k - 1] < ends[k]
  <2> TAKE k \in 1 .. n
  <2> DEFINE g == k - 1
  <2>1. g \in 0 .. (n - 1) /\ g + 1 = k /\ k \in 0 .. n /\ g \in 0 .. n
    OBVIOUS
  <2> HIDE DEF g
  <2>2. ends[g + 1] \in (g + 1) .. count /\ ends[g] \in Nat
    BY <1>4, <2>1
  <2>3. ends[g] \in g .. (ends[g + 1] - 1)
    BY <2>1, <2>2
  <2>4. ends[g] < ends[k]
    BY <2>1, <2>2, <2>3
  <2> QED
    BY <2>4 DEF g
<1>9. \A k \in 1 .. n : ends[k - 1] <= ends[k]
  <2> TAKE k \in 1 .. n
  <2>1. k - 1 \in 0 .. n /\ k \in 0 .. n
    OBVIOUS
  <2>2. ends[k - 1] \in Nat /\ ends[k] \in Nat /\ ends[k - 1] < ends[k]
    BY <1>5, <1>8, <2>1
  <2> QED
    BY <2>2
<1> QED
  BY <1>6, <1>7, <1>8, <1>9 DEF IsCut, Strict

\* No stretch between neighbouring cuts of the first e things weighs more than M.
Bounded(prefix, cuts, e, M) ==
    \A q \in cuts \cup {e} : \A r \in cuts \cup {0} :
       r < q /\ (\A x \in cuts : ~(r < x /\ x < q)) => prefix[q] - prefix[r] <= M

\* No run of a cut weighs more than M.
AtMost(prefix, ends, n, M) ==
    \A k \in 1 .. n : prefix[ends[k]] - prefix[ends[k - 1]] <= M

\* A number no run weighs more than, and under which no other split stays.
LightSplit(ends, n, prefix, count) ==
    \E bound \in Nat :
       /\ AtMost(prefix, ends, n, bound)
       /\ \A cuts \in SUBSET (1 .. (count - 1)), M \in Nat :
             Cardinality(cuts) = n - 1 /\ Bounded(prefix, cuts, count, M) => bound <= M

\* What the rows of the dynamic program are known to hold.
RowsHold(best, prefix, n, count) ==
    \A g \in 1 .. n : \A e \in g .. count : LastRunStarts(best, prefix, g, e)

\* No split into so many groups has a lighter heaviest group than the row says.
LEMMA EverySplitIsHeavier ==
    ASSUME NEW n \in Nat \ {0}, NEW count \in Nat, n <= count,
           NEW prefix, Rising(prefix, count), NEW best, RowsHold(best, prefix, n, count),
           NEW cuts \in SUBSET (1 .. (count - 1)), Cardinality(cuts) = n - 1,
           NEW M \in Nat, Bounded(prefix, cuts, count, M)
    PROVE  best[n][count] <= M
<1> DEFINE Least == {g \in 0 .. n : g = 0 \/
                       \A e \in g .. count : \A C \in SUBSET (1 .. (e - 1)) :
                          Cardinality(C) = g - 1 /\ Bounded(prefix, C, e, M) => best[g][e] <= M}
<1>1. \A e \in 0 .. count : prefix[e] \in Nat
  BY DEF Rising
<1>2. 0 \in Least
  OBVIOUS
<1>3. ASSUME NEW g \in 1 .. n, g - 1 \in Least,
             NEW e \in g .. count, NEW C \in SUBSET (1 .. (e - 1)),
             Cardinality(C) = g - 1, Bounded(prefix, C, e, M)
      PROVE  best[g][e] <= M
  <2>1. /\ best[g][e] \in Nat /\ best[0][0] = 0
        /\ \A start \in (g - 1) .. (e - 1) :
              /\ best[g - 1][start] \in Nat
              /\ best[g][e] <= Higher(best[g - 1][start], prefix[e] - prefix[start])
    BY DEF RowsHold, LastRunStarts
  <2>2. IsFiniteSet(C)
    <3>1. IsFiniteSet(1 .. (e - 1))
      BY FS_Interval
    <3> QED
      BY <3>1, FS_Subset
  <2>3. e \in 0 .. count /\ prefix[e] \in Nat
    BY <1>1
  \* The last run starts at s: what lies before it is no heavier than M, and so is it.
  <2>4. ASSUME NEW s \in (g - 1) .. (e - 1), best[g - 1][s] <= M, prefix[e] - prefix[s] <= M
        PROVE  best[g][e] <= M
    <3> DEFINE a == best[g - 1][s]
               b == prefix[e] - prefix[s]
    <3>1. s \in 0 .. count
      OBVIOUS
    <3>2. prefix[s] \in Nat
      BY <1>1, <3>1
    <3>3. a \in Nat /\ a <= M
      BY <2>1, <2>4
    <3>4. b \in Int /\ b <= M
      BY <2>3, <2>4, <3>2
    <3>5. best[g][e] <= Higher(a, b)
      BY <2>1
    <3> HIDE DEF a, b
    <3>6. a \in Int
      BY <3>3
    <3>7. Higher(a, b) = IF a <= b THEN b ELSE a
      BY <3>4, <3>6, LowerOrHigher
    <3>8. Higher(a, b) <= M /\ Higher(a, b) \in Int
      BY <3>3, <3>4, <3>7
    <3> QED
      BY <2>1, <3>5, <3>8
  <2>5. CASE g = 1
    <3>1. C = {}
      BY <1>3, <2>2, <2>5, FS_EmptySet
    <3>2. prefix[e] - prefix[0] <= M
      <4>1. e \in C \cup {e} /\ 0 \in C \cup {0} /\ 0 < e
        BY <2>5
      <4> QED
        BY <1>3, <3>1, <4>1 DEF Bounded
    <3>3. 0 \in (g - 1) .. (e - 1) /\ g - 1 = 0
      BY <2>5
    <3>4. best[g - 1][0] <= M
      BY <2>1, <3>3
    <3> QED
      BY <2>4, <3>2, <3>3, <3>4
  <2>6. CASE g # 1
    <3>1. C # {}
      BY <1>3, <2>6, FS_EmptySet
    <3>2. PICK s \in C : \A x \in C : x <= s
      <4>1. C \in SUBSET (0 .. (e - 1)) /\ e - 1 \in Nat
        OBVIOUS
      <4>2. Max(C) \in C /\ \A y \in C : y <= Max(C)
        BY <3>1, <4>1, MaxOf
      <4> QED
        BY <4>2
    <3>3. s \in 1 .. (e - 1) /\ \A x \in C : x \in Nat /\ x >= 1
      OBVIOUS
    <3> DEFINE D == C \ {s}
    <3>4. Cardinality(D) = g - 2 /\ D \in SUBSET (1 .. (s - 1))
      <4>1. Cardinality(D) = Cardinality(C) - 1
        BY <2>2, FS_RemoveElement
      <4>2. \A x \in D : x \in 1 .. (s - 1)
        <5> TAKE x \in D
        <5>1. x \in Nat /\ x >= 1 /\ x <= s /\ x # s
          BY <3>2, <3>3
        <5> QED
          BY <3>3, <5>1
      <4> QED
        BY <1>3, <4>1, <4>2
    <3>5. s >= g - 1
      <4>1. C \subseteq 1 .. s
        <5> SUFFICES ASSUME NEW x \in C PROVE x \in 1 .. s
          OBVIOUS
        <5>1. x \in Nat /\ x >= 1 /\ x <= s
          BY <3>2, <3>3
        <5> QED
          BY <3>3, <5>1
      <4>2. IsFiniteSet(1 .. s) /\ Cardinality(1 .. s) = s
        BY <3>3, FS_Interval
      <4>3. Cardinality(C) <= s
        BY <4>1, <4>2, FS_Subset
      <4> QED
        BY <1>3, <4>3
    <3>6. s \in (g - 1) .. (e - 1) /\ s \in (g - 1) .. count
      BY <3>3, <3>5
    <3>7. Bounded(prefix, D, s, M)
      <4> SUFFICES ASSUME NEW q \in D \cup {s}, NEW r \in D \cup {0}, r < q,
                          \A x \in D : ~(r < x /\ x < q)
                   PROVE  prefix[q] - prefix[r] <= M
        BY DEF Bounded
      <4>1. q \in C /\ q <= s /\ q \in Nat
        BY <3>2, <3>3
      <4>2. q \in C \cup {e} /\ r \in C \cup {0}
        BY <4>1
      <4>3. \A x \in C : ~(r < x /\ x < q)
        <5> SUFFICES ASSUME NEW x \in C, r < x, x < q PROVE FALSE
          OBVIOUS
        <5>1. CASE x = s
          BY <3>3, <4>1, <5>1
        <5>2. CASE x # s
          BY <5>2
        <5> QED
          BY <5>1, <5>2
      <4> HIDE DEF D
      <4> QED
        BY <1>3, <4>2, <4>3 DEF Bounded
    <3>8. prefix[e] - prefix[s] <= M
      <4>1. e \in C \cup {e} /\ s \in C \cup {0} /\ s < e
        BY <3>3
      <4>2. \A x \in C : ~(s < x /\ x < e)
        BY <3>2, <3>3
      <4> QED
        BY <1>3, <4>1, <4>2 DEF Bounded
    <3>9. best[g - 1][s] <= M
      <4>1. g - 1 # 0 /\ (g - 1) - 1 = g - 2
        BY <2>6
      <4> HIDE DEF D
      <4> QED
        BY <1>3, <3>4, <3>6, <3>7, <4>1
    <3> QED
      BY <2>4, <3>6, <3>8, <3>9
  <2> QED
    BY <2>5, <2>6
<1>4. \A g \in 1 .. n : g - 1 \in Least => g \in Least
  BY <1>3
<1> HIDE DEF Least
<1>5. n \in Least
  BY <1>2, <1>4, UpTo
<1>6. n # 0 /\ count \in n .. count
  OBVIOUS
<1> QED
  BY <1>5, <1>6 DEF Least

\* Ends that follow the rows: no run is heavier than the last row says.
LEMMA RowsBoundTheRuns ==
    ASSUME NEW n \in Nat \ {0}, NEW count \in Nat, NEW prefix, Rising(prefix, count),
           NEW best, NEW ends, IsCut(ends, n, count),
           \A g \in 0 .. n : best[g][ends[g]] \in Nat,
           \A g \in 1 .. n : Higher(best[g - 1][ends[g - 1]],
                                    prefix[ends[g]] - prefix[ends[g - 1]]) = best[g][ends[g]]
    PROVE  AtMost(prefix, ends, n, best[n][count])
<1>1. \A g \in 0 .. n : ends[g] \in 0 .. count /\ prefix[ends[g]] \in Nat
  BY DEF IsCut, Rising
<1> DEFINE at == [g \in 0 .. n |-> best[g][ends[g]]]
<1>2. \A g \in 0 .. n : at[g] \in Nat
  OBVIOUS
<1>3. ASSUME NEW g \in 1 .. n
      PROVE  at[g - 1] <= at[g] /\ prefix[ends[g]] - prefix[ends[g - 1]] <= at[g]
  <2> DEFINE a == best[g - 1][ends[g - 1]]
             b == prefix[ends[g]] - prefix[ends[g - 1]]
  <2>1. g \in 0 .. n /\ g - 1 \in 0 .. n
    OBVIOUS
  <2>2. a \in Int /\ at[g - 1] = a
    BY <2>1
  <2>3. b \in Int
    <3>1. prefix[ends[g]] \in Nat /\ prefix[ends[g - 1]] \in Nat
      BY <1>1, <2>1
    <3> QED
      BY <3>1
  <2>4. at[g] = Higher(a, b)
    BY <2>1
  <2> HIDE DEF a, b, at
  <2>5. Higher(a, b) = IF a <= b THEN b ELSE a
    BY <2>2, <2>3, LowerOrHigher
  <2>6. at[g - 1] <= at[g] /\ b <= at[g]
    BY <2>2, <2>3, <2>4, <2>5
  <2> QED
    BY <2>6 DEF b
<1>4. at[n] = best[n][count]
  BY DEF IsCut
<1> HIDE DEF at
<1> DEFINE Under == {k \in 0 .. n : at[n - k] <= at[n]}
<1>5. 0 \in Under
  <2>1. n - 0 = n /\ n \in 0 .. n
    OBVIOUS
  <2> QED
    BY <1>2, <2>1
<1>6. ASSUME NEW k \in 1 .. n, k - 1 \in Under PROVE k \in Under
  <2> DEFINE g == n - k + 1
  <2>1. g \in 1 .. n /\ g - 1 = n - k /\ g = n - (k - 1) /\ k \in 0 .. n
    OBVIOUS
  <2>2. at[g] <= at[n]
    BY <1>6, <2>1
  <2>3. g \in 0 .. n /\ g - 1 \in 0 .. n /\ n \in 0 .. n
    BY <2>1
  <2> HIDE DEF g
  <2>4. at[g - 1] <= at[g] /\ at[g] \in Nat /\ at[g - 1] \in Nat /\ at[n] \in Nat
    BY <1>2, <1>3, <2>1, <2>3
  <2>5. at[n - k] <= at[n]
    BY <2>1, <2>2, <2>4
  <2> QED
    BY <2>1, <2>5
<1>7. \A k \in 0 .. n : k \in Under
  <2> HIDE DEF Under
  <2> QED
    BY <1>5, <1>6, UpTo
<1> SUFFICES ASSUME NEW g \in 1 .. n
             PROVE  prefix[ends[g]] - prefix[ends[g - 1]] <= at[n]
  BY <1>4 DEF AtMost
<1>8. n - g \in 0 .. n /\ n - (n - g) = g /\ g \in 0 .. n /\ g - 1 \in 0 .. n /\ n \in 0 .. n
  OBVIOUS
<1>9. at[g] <= at[n]
  BY <1>7, <1>8
<1> DEFINE b == prefix[ends[g]] - prefix[ends[g - 1]]
<1>10. b \in Int
  <2>1. prefix[ends[g]] \in Nat /\ prefix[ends[g - 1]] \in Nat
    BY <1>1, <1>8
  <2> QED
    BY <2>1
<1>11. b <= at[g] /\ at[g] \in Nat /\ at[n] \in Nat
  BY <1>2, <1>3, <1>8
<1> HIDE DEF b
<1>12. b <= at[n]
  BY <1>9, <1>10, <1>11
<1> QED
  BY <1>12 DEF b

\* The split by weight is a cut, and no other is lighter.
LEMMA WeightIsCut ==
    ASSUME NEW weights, Len(weights) \in Nat, \A i \in 1 .. Len(weights) : weights[i] \in Nat,
           NEW n \in Nat \ {0}, n <= Len(weights)
    PROVE  \E ends : /\ BalanceByWeight(weights, n) = Ranges(ends)
                     /\ IsCut(ends, n, Len(weights)) /\ Strict(ends, n)
                     /\ LightSplit(ends, n, Prefix(weights), Len(weights))
<1> DEFINE count == Len(weights)
           prefix == Prefix(weights)
           unreachable == prefix[count] + 1
           Costs(fewer, g, e) == {Higher(fewer[start], prefix[e] - prefix[start]) :
                                    start \in (g - 1) .. (e - 1)}
           first == [e \in 0 .. count |-> IF e = 0 THEN 0 ELSE unreachable]
           Row(fewer, g) == [e \in 0 .. count |-> Min({unreachable} \cup Costs(fewer, g, e))]
           Rows1(l) == [g \in 0 .. n |-> IF g = 0 THEN first ELSE Tabulated(Row(l[g - 1], g))]
           lightest == CHOOSE l : l = Rows1(l)
           best == Tabulated(lightest)
           Cuts(g, e) == {start \in (g - 1) .. (e - 1) :
                            Higher(best[g - 1][start], prefix[e] - prefix[start]) = best[g][e]}
           Body(e) == [g \in 0 .. n |-> IF g = n THEN count ELSE Min(Cuts(g + 1, e[g + 1]))]
           ends == CHOOSE e : e = Body(e)
<1>1. BalanceByWeight(weights, n) =
        IF prefix[count] = 0 THEN Partition(count, n) ELSE Ranges(ends)
  BY DEF BalanceByWeight
<1>2. count \in Nat /\ n \in Nat \ {0} /\ n <= count
  OBVIOUS
<1>3. Rising(prefix, count)
  BY PrefixOf, PrefixMonotone DEF Rising
<1> HIDE DEF count, prefix
<1>4. unreachable \in Nat /\ \A e \in 0 .. count : prefix[e] \in Nat
  BY <1>2, <1>3 DEF Rising
<1> HIDE DEF unreachable
<1>5. ASSUME NEW fewer \in [0 .. count -> Nat], NEW g \in 1 .. n
      PROVE  Row(fewer, g) \in [0 .. count -> Nat]
  <2>1. ASSUME NEW e \in 0 .. count PROVE Min({unreachable} \cup Costs(fewer, g, e)) \in Nat
    <3> DEFINE all == {unreachable} \cup Costs(fewer, g, e)
    <3>1. ASSUME NEW c \in Costs(fewer, g, e) PROVE c \in Nat
      <4>1. PICK start \in (g - 1) .. (e - 1) : c = Higher(fewer[start], prefix[e] - prefix[start])
        BY <3>1
      <4>2. start \in 0 .. count
        BY <1>2
      <4> DEFINE a == fewer[start]
                 b == prefix[e] - prefix[start]
      <4>a. prefix[e] \in Nat /\ prefix[start] \in Nat
        BY <1>4, <4>2
      <4>b. a \in Nat
        BY <4>2
      <4>3. a \in Nat /\ b \in Int
        BY <4>a, <4>b
      <4>4. c = Higher(a, b)
        BY <4>1
      <4> HIDE DEF a, b
      <4>5. a \in Int
        BY <4>3
      <4>6. Higher(a, b) = IF a <= b THEN b ELSE a
        BY <4>3, <4>5, LowerOrHigher
      <4> QED
        BY <4>3, <4>4, <4>6
    <3> HIDE DEF Costs
    <3>2. all \in SUBSET Nat /\ all # {}
      BY <1>4, <3>1
    <3> HIDE DEF all
    <3>3. Min(all) \in all
      BY <3>2, MinOf
    <3>4. Min(all) \in Nat
      BY <3>2, <3>3
    <3> QED
      BY <3>4 DEF all
  <2> HIDE DEF Costs
  <2> QED
    BY <2>1
<1>6. first \in [0 .. count -> Nat]
  BY <1>4
<1> HIDE DEF first, Row
<1>7. best = [g \in 0 .. n |-> IF g = 0 THEN first ELSE Row(best[g - 1], g)]
  <2> DEFINE S == [k \in 0 .. n |-> [0 .. count -> Nat]]
             step == [p \in (1 .. n) \X [0 .. count -> Nat] |-> Row(p[2], p[1])]
  <2>1. \A k \in 0 .. n : S[k] = [0 .. count -> Nat]
    OBVIOUS
  <2>2. \A k \in 1 .. n : \A v \in [0 .. count -> Nat] : step[<<k, v>>] = Row(v, k)
    OBVIOUS
  <2> HIDE DEF S, step
  <2>3. KeepsTo(S, step, n)
    <3> SUFFICES ASSUME NEW k \in 1 .. n, NEW v \in S[k - 1] PROVE step[<<k, v>>] \in S[k]
      BY DEF KeepsTo
    <3>1. k \in 0 .. n /\ k - 1 \in 0 .. n
      BY <1>2
    <3> QED
      BY <1>5, <2>1, <2>2, <3>1
  <2>4. PICK l : Follows(l, first, step, S, n)
    <3>1. first \in S[0] /\ n \in Nat
      BY <1>2, <1>6, <2>1
    <3> QED
      BY <2>3, <3>1, Recursion
  <2>5. l = Rows1(l)
    <3>1. l = [g \in 0 .. n |-> l[g]]
      BY <2>4 DEF Follows
    <3>2. ASSUME NEW g \in 0 .. n
          PROVE  l[g] = IF g = 0 THEN first ELSE Tabulated(Row(l[g - 1], g))
      <4>1. CASE g = 0
        BY <2>4, <4>1 DEF Follows
      <4>2. CASE g # 0
        <5>1. g \in 1 .. n /\ g - 1 \in 0 .. n
          BY <1>2, <4>2
        <5>2. l[g] = step[<<g, l[g - 1]>>] /\ l[g - 1] \in S[g - 1]
          BY <2>4, <5>1 DEF Follows
        <5>3. l[g] = Row(l[g - 1], g)
          BY <2>1, <2>2, <5>1, <5>2
        <5> QED
          BY <4>2, <5>3, TabulatedIs
      <4> QED
        BY <4>1, <4>2
    <3> QED
      BY <3>1, <3>2
  <2> HIDE DEF Rows1
  <2>6. lightest = Rows1(lightest)
    BY <2>5
  <2>7. best = lightest
    BY TabulatedIs
  <2> HIDE DEF lightest, best
  <2>8. best = Rows1(best)
    BY <2>6, <2>7
  <2>9. Rows1(best) = [g \in 0 .. n |-> IF g = 0 THEN first ELSE Row(best[g - 1], g)]
    BY TabulatedIs DEF Rows1
  <2> QED
    BY <2>8, <2>9
<1> HIDE DEF best
<1>8. ASSUME NEW g \in 1 .. n, NEW e \in g .. count
      PROVE  /\ Min(Cuts(g, e)) \in (g - 1) .. (e - 1)
             /\ g = 1 => Min(Cuts(g, e)) = 0
             /\ LET s == Min(Cuts(g, e))
                IN  Higher(best[g - 1][s], prefix[e] - prefix[s]) = best[g][e]
             /\ LastRunStarts(best, prefix, g, e)
  <2>1. LightestRows(best, prefix, n, count)
    BY <1>7 DEF first, Row, unreachable, LightestRows
  <2>2. LastRunStarts(best, prefix, g, e)
    BY <1>2, <1>3, <2>1, WeightsAreReached
  <2> USE DEF LastRunStarts
  <2>3. Cuts(g, e) \in SUBSET Nat /\ Cuts(g, e) # {} /\ Cuts(g, e) \subseteq (g - 1) .. (e - 1)
    <3>1. Cuts(g, e) \subseteq (g - 1) .. (e - 1)
      OBVIOUS
    <3>2. (g - 1) .. (e - 1) \subseteq Nat
      OBVIOUS
    <3>3. Cuts(g, e) # {}
      BY <2>2
    <3> HIDE DEF Cuts
    <3> QED
      BY <3>1, <3>2, <3>3
  <2>4. g = 1 => 0 \in Cuts(g, e)
    <3> SUFFICES ASSUME g = 1 PROVE 0 \in Cuts(g, e)
      OBVIOUS
    <3>1. 0 \in (g - 1) .. (e - 1) /\ g - 1 = 0
      OBVIOUS
    <3> QED
      BY <2>2, <3>1
  <2> DEFINE all == Cuts(g, e)
  <2> HIDE DEF Cuts
  <2>5. all \in SUBSET Nat /\ all # {}
    BY <2>3
  <2> HIDE DEF all
  <2>6. Min(all) \in all /\ \A y \in all : Min(all) <= y
    BY <2>5, MinOf
  <2>7. g = 1 => Min(all) = 0
    <3>1. Min(all) \in Nat
      BY <2>5, <2>6
    <3>2. g = 1 => 0 \in all
      BY <2>4 DEF all
    <3> QED
      BY <2>6, <3>1, <3>2
  <2>8. Min(Cuts(g, e)) \in Cuts(g, e)
    BY <2>6 DEF all
  <2>9. LET s == Min(Cuts(g, e))
        IN  Higher(best[g - 1][s], prefix[e] - prefix[s]) = best[g][e]
    <3> DEFINE s == Min(Cuts(g, e))
    <3>1. s \in Cuts(g, e)
      BY <2>8
    <3> HIDE DEF s
    <3>2. Higher(best[g - 1][s], prefix[e] - prefix[s]) = best[g][e]
      BY <3>1 DEF Cuts
    <3> QED
      BY <3>2 DEF s
  <2>10. LastRunStarts(best, prefix, g, e)
    BY <2>2
  <2> HIDE DEF LastRunStarts
  <2> QED
    BY <2>3, <2>6, <2>7, <2>9, <2>10 DEF all
<1> HIDE DEF Cuts
<1>9. ends = [g \in 0 .. n |-> IF g = n THEN count ELSE Min(Cuts(g + 1, ends[g + 1]))]
  <2> DEFINE cut == [p \in (1 .. n) \X (0 .. count) |-> Min(Cuts(p[1], p[2]))]
  <2>1. \A g \in 1 .. n : \A e \in 0 .. count : cut[<<g, e>>] = Min(Cuts(g, e))
    OBVIOUS
  <2> HIDE DEF cut
  <2>2. StartsEarlier(cut, n, count)
    <3> SUFFICES ASSUME NEW g \in 1 .. n, NEW e \in g .. count
                 PROVE  cut[<<g, e>>] \in (g - 1) .. (e - 1)
      BY DEF StartsEarlier
    <3>1. e \in 0 .. count
      BY <1>2
    <3> QED
      BY <1>8, <2>1, <3>1
  <2>3. PICK h : FromTheLast(h, cut, n, count)
    BY <1>2, <2>2, CutsFromTheLast
  <2> USE DEF FromTheLast
  <2>4. ASSUME NEW g \in 0 .. n
        PROVE  h[g] = IF g = n THEN count ELSE Min(Cuts(g + 1, h[g + 1]))
    <3>1. CASE g = n
      BY <2>3, <3>1
    <3>2. CASE g # n
      <4>1. g \in 0 .. (n - 1) /\ g + 1 \in 1 .. n /\ g + 1 \in 0 .. n
        BY <1>2, <3>2
      <4>2. h[g + 1] \in (g + 1) .. count
        BY <2>3, <4>1
      <4>3. h[g + 1] \in 0 .. count
        BY <1>2, <4>1, <4>2
      <4> QED
        BY <2>1, <2>3, <3>2, <4>1, <4>3
    <3> QED
      BY <3>1, <3>2
  <2>5. h = Body(h)
    BY <2>3, <2>4
  <2> HIDE DEF Body
  <2>6. ends = Body(ends)
    BY <2>5
  <2> HIDE DEF ends
  <2> QED
    BY <2>6 DEF Body
<1> HIDE DEF ends
<1>10. IsCut(ends, n, count) /\ Strict(ends, n)
  <2>1. \A g \in 0 .. n : ends[g] = IF g = n THEN count ELSE Min(Cuts(g + 1, ends[g + 1]))
    BY <1>9
  <2>2. ends = [g \in 0 .. n |-> ends[g]] /\ ends[n] = count
    BY <1>2, <1>9, <2>1
  <2>3. ASSUME NEW g \in 0 .. (n - 1), ends[g + 1] \in (g + 1) .. count
        PROVE  ends[g] \in g .. (ends[g + 1] - 1) /\ (g = 0 => ends[g] = 0)
    <3>1. g \in 0 .. n /\ g # n /\ g + 1 \in 1 .. n /\ (g + 1) - 1 = g
      BY <1>2
    <3>2. ends[g] = Min(Cuts(g + 1, ends[g + 1]))
      BY <2>1, <3>1
    <3>3. /\ Min(Cuts(g + 1, ends[g + 1])) \in ((g + 1) - 1) .. (ends[g + 1] - 1)
          /\ g + 1 = 1 => Min(Cuts(g + 1, ends[g + 1])) = 0
      BY <1>8, <2>3, <3>1
    <3> QED
      BY <3>1, <3>2, <3>3
  <2> QED
    BY <1>2, <2>2, <2>3, DescentIsCut
<1>11. RowsHold(best, prefix, n, count)
  BY <1>8 DEF RowsHold
<1>12. ASSUME NEW g \in 1 .. n
       PROVE  /\ Higher(best[g - 1][ends[g - 1]], prefix[ends[g]] - prefix[ends[g - 1]])
                    = best[g][ends[g]]
              /\ best[g][ends[g]] \in Nat
  <2>1. g - 1 \in 0 .. n /\ g - 1 # n /\ (g - 1) + 1 = g /\ g \in 0 .. n
    BY <1>2
  <2>2. ends[g - 1] = Min(Cuts(g, ends[g]))
    BY <1>9, <2>1
  <2>3. ends[g] \in g .. count
    BY <1>2, <1>10, StrictCutIsHigh
  <2>4. LET s == Min(Cuts(g, ends[g]))
        IN  Higher(best[g - 1][s], prefix[ends[g]] - prefix[s]) = best[g][ends[g]]
    BY <1>8, <2>3
  <2>5. best[g][ends[g]] \in Nat
    <3> DEFINE e == ends[g]
    <3>1. e \in g .. count
      BY <2>3
    <3> HIDE DEF e
    <3>2. LastRunStarts(best, prefix, g, e)
      BY <1>11, <3>1 DEF RowsHold
    <3>3. best[g][e] \in Nat
      BY <3>2 DEF LastRunStarts
    <3> QED
      BY <3>3 DEF e
  <2> QED
    BY <2>2, <2>4, <2>5
<1>13. \A g \in 0 .. n : best[g][ends[g]] \in Nat
  <2> TAKE g \in 0 .. n
  <2>1. CASE g = 0
    <3>1. ends[0] = 0
      BY <1>10 DEF IsCut
    <3>2. best[0][0] = 0
      <4>1. 1 \in 1 .. n /\ count \in 1 .. count
        BY <1>2
      <4> QED
        BY <1>11, <4>1 DEF RowsHold, LastRunStarts
    <3> QED
      BY <2>1, <3>1, <3>2
  <2>2. CASE g # 0
    <3>1. g \in 1 .. n
      BY <2>2
    <3> QED
      BY <1>12, <3>1
  <2> QED
    BY <2>1, <2>2
<1>14. LightSplit(ends, n, prefix, count)
  <2> DEFINE bound == best[n][count]
  <2>1. bound \in Nat
    <3>1. n \in 0 .. n /\ ends[n] = count
      BY <1>2, <1>10 DEF IsCut
    <3> QED
      BY <1>13, <3>1
  <2>2. AtMost(prefix, ends, n, bound)
    BY <1>2, <1>3, <1>10, <1>12, <1>13, RowsBoundTheRuns
  <2>3. ASSUME NEW cuts \in SUBSET (1 .. (count - 1)), NEW M \in Nat,
               Cardinality(cuts) = n - 1, Bounded(prefix, cuts, count, M)
        PROVE  bound <= M
    BY <1>2, <1>3, <1>11, <2>3, EverySplitIsHeavier
  <2> HIDE DEF bound
  <2> QED
    BY <2>1, <2>2, <2>3 DEF LightSplit
<1>15. CASE prefix[count] = 0
  <2>1. PICK e : Partition(count, n) = Ranges(e) /\ IsCut(e, n, count) /\ Strict(e, n)
    BY <1>2, PartitionIsCut
  <2>2. \A k \in 0 .. n : prefix[e[k]] = 0
    <3> TAKE k \in 0 .. n
    <3>1. e[k] \in 0 .. count /\ count \in 0 .. count /\ e[k] <= count
      BY <1>2, <2>1 DEF IsCut
    <3>2. prefix[e[k]] \in Nat /\ prefix[e[k]] <= prefix[count]
      BY <1>3, <3>1 DEF Rising
    <3> QED
      BY <1>15, <3>2
  <2>3. AtMost(prefix, e, n, 0)
    <3> SUFFICES ASSUME NEW k \in 1 .. n PROVE prefix[e[k]] - prefix[e[k - 1]] <= 0
      BY DEF AtMost
    <3>1. k \in 0 .. n /\ k - 1 \in 0 .. n
      BY <1>2
    <3>2. prefix[e[k]] = 0 /\ prefix[e[k - 1]] = 0
      BY <2>2, <3>1
    <3> QED
      BY <3>2
  <2>4. LightSplit(e, n, prefix, count)
    <3>1. \A M \in Nat : 0 <= M
      OBVIOUS
    <3> QED
      BY <2>3, <3>1 DEF LightSplit
  <2> QED
    BY <1>1, <1>15, <2>1, <2>4 DEF count, prefix
<1>16. CASE prefix[count] # 0
  BY <1>1, <1>10, <1>14, <1>16 DEF count, prefix
<1> QED
  BY <1>15, <1>16

-----------------------------------------------------------------------------
(* The scene batches.                                                      *)

\* Ranges that follow each other from zero to stop.
Chained(out, stop) ==
    \E m \in Nat : \E ends : IsCut(ends, m, stop) /\ out = Ranges(ends)

\* The ranges of a cut are a sequence.
LEMMA RangesAreASequence ==
    ASSUME NEW m \in Nat, NEW count \in Nat, NEW ends, IsCut(ends, m, count)
    PROVE  /\ Ranges(ends) \in Seq(Nat \X Nat)
           /\ Len(Ranges(ends)) = m /\ DOMAIN Ranges(ends) = 1 .. m
           /\ \A k \in 1 .. m : Ranges(ends)[k] = <<ends[k - 1], ends[k]>>
<1>1. DOMAIN ends = 0 .. m /\ \A k \in 0 .. m : ends[k] \in Nat
  BY DEF IsCut
<1>2. Ranges(ends) = [k \in 1 .. m |-> <<ends[k - 1], ends[k]>>]
  BY <1>1, RangesOf
<1>3. \A k \in 1 .. m : <<ends[k - 1], ends[k]>> \in Nat \X Nat
  <2> TAKE k \in 1 .. m
  <2>1. k - 1 \in 0 .. m /\ k \in 0 .. m
    OBVIOUS
  <2> QED
    BY <1>1, <2>1
<1>4. Ranges(ends) \in [1 .. m -> Nat \X Nat]
  BY <1>2, <1>3
<1>5. Ranges(ends) \in Seq(Nat \X Nat)
  BY <1>4, SeqDef
<1>6. DOMAIN Ranges(ends) = 1 .. Len(Ranges(ends)) /\ Len(Ranges(ends)) \in Nat
  BY <1>5, LenProperties
<1>7. DOMAIN Ranges(ends) = 1 .. m
  BY <1>4
<1>8. Len(Ranges(ends)) = m
  <2>1. \A a \in Nat, b \in Nat : 1 .. a = 1 .. b => a = b
    <3> SUFFICES ASSUME NEW a \in Nat, NEW b \in Nat, 1 .. a = 1 .. b PROVE a = b
      OBVIOUS
    <3>1. a = 0 \/ a \in 1 .. b
      OBVIOUS
    <3>2. b = 0 \/ b \in 1 .. a
      OBVIOUS
    <3>3. a <= b /\ b <= a
      BY <3>1, <3>2
    <3> QED
      BY <3>3
  <2> QED
    BY <1>6, <1>7, <2>1
<1> QED
  BY <1>2, <1>5, <1>7, <1>8

\* A list of the runs of a cut.
ListsRuns(list, ends, m) ==
    /\ Len(list) = m /\ DOMAIN list = 1 .. m
    /\ \A k \in 1 .. m : list[k] = <<ends[k - 1], ends[k]>>

\* The ranges of a cut list its runs.
LEMMA RunsAreListed ==
    ASSUME NEW m \in Nat, NEW count \in Nat, NEW ends, IsCut(ends, m, count)
    PROVE  ListsRuns(Ranges(ends), ends, m)
BY RangesAreASequence DEF ListsRuns

\* A chain grows by a range that starts where it stops.
LEMMA ChainGrows ==
    ASSUME NEW out, NEW start \in Nat, NEW pos \in Nat, start <= pos, Chained(out, start)
    PROVE  /\ Chained(Append(out, <<start, pos>>), pos)
           /\ out \in Seq(Nat \X Nat) /\ Append(out, <<start, pos>>) \in Seq(Nat \X Nat)
<1>1. PICK m \in Nat : \E ends : IsCut(ends, m, start) /\ out = Ranges(ends)
  BY DEF Chained
<1>2. PICK ends : IsCut(ends, m, start) /\ out = Ranges(ends)
  BY <1>1
<1>3. /\ out \in Seq(Nat \X Nat) /\ Len(out) = m /\ DOMAIN out = 1 .. m
      /\ \A k \in 1 .. m : out[k] = <<ends[k - 1], ends[k]>>
  BY <1>2, RangesAreASequence, SMTT(20)
<1> DEFINE longer == [k \in 0 .. (m + 1) |-> IF k = m + 1 THEN pos ELSE ends[k]]
<1>4. \A k \in 0 .. m : longer[k] = ends[k] /\ ends[k] \in 0 .. start
  BY <1>2 DEF IsCut
<1>5. longer[m + 1] = pos
  OBVIOUS
<1>6. longer = [k \in 0 .. (m + 1) |-> longer[k]] /\ DOMAIN longer = 0 .. (m + 1)
  OBVIOUS
<1> HIDE DEF longer
<1>7. ends[0] = 0 /\ ends[m] = start /\ \A k \in 1 .. m : ends[k - 1] <= ends[k]
  BY <1>2 DEF IsCut
<1>8. IsCut(longer, m + 1, pos)
  <2>1. \A k \in 0 .. (m + 1) : longer[k] \in 0 .. pos
    <3> TAKE k \in 0 .. (m + 1)
    <3>1. CASE k = m + 1
      BY <1>5, <3>1
    <3>2. CASE k # m + 1
      BY <1>4, <3>2
    <3> QED
      BY <3>1, <3>2
  <2>2. \A k \in 1 .. (m + 1) : longer[k - 1] <= longer[k]
    <3> TAKE k \in 1 .. (m + 1)
    <3>1. CASE k = m + 1
      <4>1. k - 1 = m /\ m \in 0 .. m
        BY <3>1
      <4> QED
        BY <1>4, <1>5, <1>7, <3>1, <4>1
    <3>2. CASE k # m + 1
      <4>1. k \in 1 .. m /\ k \in 0 .. m /\ k - 1 \in 0 .. m
        BY <3>2
      <4> QED
        BY <1>4, <1>7, <4>1
    <3> QED
      BY <3>1, <3>2
  <2>3. longer \in [0 .. (m + 1) -> 0 .. pos]
    BY <1>6, <2>1
  <2>4. longer[0] = 0
    <3>1. 0 \in 0 .. m
      OBVIOUS
    <3> QED
      BY <1>4, <1>7, <3>1
  <2> QED
    BY <1>5, <2>2, <2>3, <2>4 DEF IsCut
<1> DEFINE more == Append(out, <<start, pos>>)
<1>9. /\ more \in Seq(Nat \X Nat) /\ Len(more) = m + 1
      /\ \A k \in 1 .. (m + 1) : more[k] = IF k = m + 1 THEN <<start, pos>> ELSE out[k]
  BY <1>3
<1>10. more = Ranges(longer)
  <2>1. /\ Ranges(longer) \in Seq(Nat \X Nat) /\ Len(Ranges(longer)) = m + 1
        /\ \A k \in 1 .. (m + 1) : Ranges(longer)[k] = <<longer[k - 1], longer[k]>>
    BY <1>8, RangesAreASequence
  <2>2. \A k \in 1 .. (m + 1) : more[k] = Ranges(longer)[k]
    <3> TAKE k \in 1 .. (m + 1)
    <3>1. Ranges(longer)[k] = <<longer[k - 1], longer[k]>>
      BY <2>1
    <3>2. CASE k = m + 1
      <4>1. k - 1 = m /\ m \in 0 .. m
        BY <3>2
      <4>2. longer[k - 1] = start
        BY <1>4, <1>7, <4>1
      <4> QED
        BY <1>5, <1>9, <3>1, <3>2, <4>2
    <3>3. CASE k # m + 1
      <4>1. k \in 1 .. m /\ k \in 0 .. m /\ k - 1 \in 0 .. m
        BY <3>3
      <4>2. longer[k - 1] = ends[k - 1] /\ longer[k] = ends[k]
        BY <1>4, <4>1
      <4>3. more[k] = <<ends[k - 1], ends[k]>>
        BY <1>3, <1>9, <3>3, <4>1
      <4> QED
        BY <3>1, <4>2, <4>3
    <3> QED
      BY <3>2, <3>3
  <2> HIDE DEF more
  <2> QED
    BY <1>9, <2>1, <2>2, SeqEqual
<1>11. Chained(more, pos)
  <2> HIDE DEF more
  <2>1. m + 1 \in Nat
    OBVIOUS
  <2> QED
    BY <1>8, <1>10, <2>1 DEF Chained
<1> QED
  BY <1>3, <1>9, <1>11

\* The scene batches are a cut of the scenes.
LEMMA BatchesAreACut ==
    ASSUME NEW scenes \in Nat \ {0}
    PROVE  \E m \in Nat \ {0} : \E ends :
              IsCut(ends, m, scenes) /\ SceneBatches(scenes) = Ranges(ends)
<1> DEFINE chunks == TimeChunks(scenes)
           c == Ceiling(scenes, TimeChunk)
           gather(acc, length) ==
             LET pos == acc.pos + length
             IN  IF pos - acc.start >= SceneBatch
                   THEN [out |-> Append(acc.out, <<acc.start, pos>>), start |-> pos, pos |-> pos]
                   ELSE [acc EXCEPT !.pos = pos]
           Body(f) == [k \in 0 .. Len(chunks) |->
                         IF k = 0 THEN [out |-> <<>>, start |-> 0, pos |-> 0]
                         ELSE gather(f[k - 1], chunks[k])]
           read == CHOOSE f : f = Body(f)
           all == read[Len(chunks)]
<1>1. SceneBatches(scenes) =
        IF all.start < scenes THEN Append(all.out, <<all.start, scenes>>) ELSE all.out
  BY DEF SceneBatches
<1>2. TimeChunk \in Nat \ {0} /\ SceneBatch \in Nat \ {0}
  BY CutsArePositive
<1>3. c \in Nat \ {0} /\ c * TimeChunk >= scenes /\ (c - 1) * TimeChunk < scenes
  BY <1>2, CeilingOf
<1>4. Len(chunks) = c /\ \A k \in 1 .. c : chunks[k] = Lower(TimeChunk, scenes - (k - 1) * TimeChunk)
  <2>1. chunks = [k \in 1 .. c |-> Lower(TimeChunk, scenes - (k - 1) * TimeChunk)]
    BY DEF TimeChunks
  <2> HIDE DEF c, chunks
  <2> QED
    BY <1>3, <2>1
<1> HIDE DEF c, chunks
<1> DEFINE Reached(k) == IF k * TimeChunk <= scenes THEN k * TimeChunk ELSE scenes
           Records == [out : Seq(Nat \X Nat), start : Nat, pos : Nat]
           Kept(r, k) == Chained(r.out, r.start) /\ r.start <= r.pos /\ r.pos = Reached(k)
           S == [k \in 0 .. c |-> {r \in Records : Kept(r, k)}]
           step == [p \in (1 .. c) \X Records |-> gather(p[2], chunks[p[1]])]
           none == [out |-> <<>>, start |-> 0, pos |-> 0]
<1>5. ASSUME NEW k \in 1 .. c, NEW r \in Records, Kept(r, k - 1)
      PROVE  gather(r, chunks[k]) \in Records /\ Kept(gather(r, chunks[k]), k)
  <2> DEFINE pos == r.pos + chunks[k]
             next == gather(r, chunks[k])
             before == (k - 1) * TimeChunk
  <2>1. before \in Nat /\ before < scenes /\ k * TimeChunk = before + TimeChunk
    <3>1. k - 1 <= c - 1 /\ k - 1 \in Int /\ c - 1 \in Int /\ (c - 1) * TimeChunk \in Int
      BY <1>2, <1>3
    <3>2. before <= (c - 1) * TimeChunk
      BY <1>2, <3>1, TimesMonotone
    <3>3. before \in Nat /\ k * TimeChunk = before + TimeChunk
      BY <1>2
    <3> QED
      BY <1>3, <3>1, <3>2, <3>3
  <2>2. chunks[k] = Lower(TimeChunk, scenes - before)
    BY <1>4
  <2>3. r.pos = before
    BY <1>5, <2>1
  <2> HIDE DEF before
  <2>4. chunks[k] = IF TimeChunk <= scenes - before THEN TimeChunk ELSE scenes - before
    <3>1. TimeChunk \in Int /\ scenes - before \in Int
      BY <1>2, <2>1
    <3> QED
      BY <2>2, <3>1, LowerOrHigher
  <2>5. pos \in Nat /\ r.pos <= pos /\ pos = Reached(k)
    BY <1>2, <2>1, <2>3, <2>4
  <2>6. r.start \in Nat /\ r.pos \in Nat /\ r.start <= pos /\ Chained(r.out, r.start)
    BY <1>5, <2>5
  <2> HIDE DEF pos, Reached
  <2>7. CASE pos - r.start >= SceneBatch
    <3>1. next = [out |-> Append(r.out, <<r.start, pos>>), start |-> pos, pos |-> pos]
      BY <2>7 DEF pos
    <3>2. /\ Chained(Append(r.out, <<r.start, pos>>), pos)
          /\ Append(r.out, <<r.start, pos>>) \in Seq(Nat \X Nat)
      BY <2>5, <2>6, ChainGrows
    <3> HIDE DEF next
    <3>3. next \in Records
      BY <2>5, <3>1, <3>2
    <3>4. Chained(next.out, next.start) /\ next.start <= next.pos /\ next.pos = Reached(k)
      BY <2>5, <3>1, <3>2
    <3> QED
      BY <3>3, <3>4 DEF next
  <2>8. CASE ~(pos - r.start >= SceneBatch)
    <3>1. next = [r EXCEPT !.pos = pos]
      BY <2>8 DEF pos
    <3> HIDE DEF next
    <3>2. next \in Records /\ next.out = r.out /\ next.start = r.start /\ next.pos = pos
      BY <2>5, <3>1
    <3>3. Chained(next.out, next.start) /\ next.start <= next.pos /\ next.pos = Reached(k)
      BY <2>5, <2>6, <3>2
    <3> QED
      BY <3>2, <3>3 DEF next
  <2> QED
    BY <2>7, <2>8
<1>6. none \in Records /\ Kept(none, 0)
  <2>1. none \in Records /\ none.out = <<>> /\ none.start = 0 /\ none.pos = 0
    OBVIOUS
  <2>2. Chained(<<>>, 0)
    <3> DEFINE ends == [k \in 0 .. 0 |-> 0]
    <3>1. IsCut(ends, 0, 0)
      BY DEF IsCut
    <3>2. Ranges(ends) \in Seq(Nat \X Nat) /\ Len(Ranges(ends)) = 0
      <4> HIDE DEF ends
      <4> QED
        BY <3>1, RangesAreASequence
    <3>3. Ranges(ends) = <<>>
      <4> HIDE DEF ends
      <4> QED
        BY <3>2, EmptySeq
    <3> HIDE DEF ends
    <3> QED
      BY <3>1, <3>3 DEF Chained
  <2>3. Reached(0) = 0
    BY <1>2
  <2> HIDE DEF none, Reached
  <2> QED
    BY <2>1, <2>2, <2>3
<1> HIDE DEF gather, Kept, Records, none
<1>7. \A k \in 0 .. c : S[k] = {r \in Records : Kept(r, k)}
  OBVIOUS
<1>8. \A k \in 1 .. c : \A r \in Records : step[<<k, r>>] = gather(r, chunks[k])
  OBVIOUS
<1> HIDE DEF S, step
<1>9. KeepsTo(S, step, c)
  <2> SUFFICES ASSUME NEW k \in 1 .. c, NEW r \in S[k - 1] PROVE step[<<k, r>>] \in S[k]
    BY DEF KeepsTo
  <2>1. k \in 0 .. c /\ k - 1 \in 0 .. c
    BY <1>3
  <2>2. r \in Records /\ Kept(r, k - 1)
    BY <1>7, <2>1
  <2> QED
    BY <1>5, <1>7, <1>8, <2>1, <2>2
<1>10. PICK f : Follows(f, none, step, S, c)
  <2>1. none \in S[0] /\ c \in Nat
    <3>1. 0 \in 0 .. c
      BY <1>3
    <3> QED
      BY <1>3, <1>6, <1>7, <3>1
  <2> QED
    BY <1>9, <2>1, Recursion
<1>11. Body(f) = f
  <2>1. f = [k \in 0 .. c |-> f[k]]
    BY <1>10 DEF Follows
  <2>2. ASSUME NEW k \in 0 .. c
        PROVE  f[k] = IF k = 0 THEN none ELSE gather(f[k - 1], chunks[k])
    <3>1. CASE k = 0
      BY <1>10, <3>1 DEF Follows
    <3>2. CASE k # 0
      <4>1. k \in 1 .. c /\ k - 1 \in 0 .. c
        BY <1>3, <3>2
      <4>2. f[k - 1] \in S[k - 1] /\ f[k] = step[<<k, f[k - 1]>>]
        BY <1>10, <4>1 DEF Follows
      <4>3. f[k - 1] \in Records
        BY <1>7, <4>1, <4>2
      <4> QED
        BY <1>8, <3>2, <4>1, <4>2, <4>3
    <3> QED
      BY <3>1, <3>2
  <2>3. Body(f) = [k \in 0 .. c |-> IF k = 0 THEN none ELSE gather(f[k - 1], chunks[k])]
    BY <1>4 DEF none
  <2> HIDE DEF Body
  <2> QED
    BY <2>1, <2>2, <2>3
<1> HIDE DEF Body
<1>12. read = Body(read)
  BY <1>11
<1> HIDE DEF read
<1>13. \A k \in 0 .. c : read[k] = IF k = 0 THEN none ELSE gather(read[k - 1], chunks[k])
  <2>1. read = [k \in 0 .. c |-> IF k = 0 THEN none ELSE gather(read[k - 1], chunks[k])]
    BY <1>4, <1>12 DEF Body, none
  <2> QED
    BY <2>1
<1> DEFINE Good == {k \in 0 .. c : read[k] \in Records /\ Kept(read[k], k)}
<1>14. c \in Good
  <2>1. 0 \in Good
    <3>1. 0 \in 0 .. c
      BY <1>3
    <3> QED
      BY <1>6, <1>13, <3>1
  <2>2. ASSUME NEW k \in 1 .. c, k - 1 \in Good PROVE k \in Good
    <3>1. k \in 0 .. c /\ k # 0
      BY <1>3
    <3>2. read[k] = gather(read[k - 1], chunks[k])
      BY <1>13, <3>1
    <3> QED
      BY <1>5, <2>2, <3>1, <3>2
  <2>3. c \in Nat /\ c \in 0 .. c
    BY <1>3
  <2> HIDE DEF Good
  <2> QED
    BY <2>1, <2>2, <2>3, UpTo
<1>15. all \in Records /\ Kept(all, c) /\ Reached(c) = scenes
  <2>1. all = read[c]
    BY <1>4
  <2>2. Reached(c) = scenes
    BY <1>2, <1>3
  <2> HIDE DEF all
  <2> QED
    BY <1>14, <2>1, <2>2
<1> HIDE DEF all
<1>16. all.start \in Nat /\ all.start <= scenes /\ Chained(all.out, all.start)
  BY <1>15 DEF Records, Kept
<1>17. Chained(SceneBatches(scenes), scenes)
  <2>1. CASE all.start < scenes
    <3>1. Chained(Append(all.out, <<all.start, scenes>>), scenes)
      BY <1>16, ChainGrows
    <3> QED
      BY <1>1, <2>1, <3>1
  <2>2. CASE ~(all.start < scenes)
    BY <1>1, <1>16, <2>2
  <2> QED
    BY <2>1, <2>2
<1>18. PICK m \in Nat : \E ends : IsCut(ends, m, scenes) /\ SceneBatches(scenes) = Ranges(ends)
  BY <1>17 DEF Chained
<1>19. PICK ends : IsCut(ends, m, scenes) /\ SceneBatches(scenes) = Ranges(ends)
  BY <1>18
<1>20. m # 0
  BY <1>19 DEF IsCut
<1> QED
  BY <1>19, <1>20

-----------------------------------------------------------------------------
(* The blocks.                                                             *)

\* A list of so many entries is a sequence.
LEMMA ListIsASequence ==
    ASSUME NEW n \in Nat, NEW S, NEW f \in [1 .. n -> S]
    PROVE  f \in Seq(S) /\ Len(f) = n /\ DOMAIN f = 1 .. n
<1>1. f \in Seq(S)
  BY SeqDef
<1>2. DOMAIN f = 1 .. Len(f) /\ Len(f) \in Nat /\ DOMAIN f = 1 .. n
  BY <1>1, LenProperties
<1>3. \A a \in Nat, b \in Nat : 1 .. a = 1 .. b => a = b
  <2> SUFFICES ASSUME NEW a \in Nat, NEW b \in Nat, 1 .. a = 1 .. b PROVE a = b
    OBVIOUS
  <2>1. a = 0 \/ a \in 1 .. b
    OBVIOUS
  <2>2. b = 0 \/ b \in 1 .. a
    OBVIOUS
  <2>3. a <= b /\ b <= a
    BY <2>1, <2>2
  <2> QED
    BY <2>3
<1> QED
  BY <1>1, <1>2, <1>3

\* The blocks are a list, row by row, of at least one block.
LEMMA BlocksAreAList ==
    ASSUME NEW shape \in (Nat \ {0}) \X (Nat \ {0}), NEW edge \in Nat \ {0}
    PROVE  \E n \in Nat \ {0} :
              /\ DOMAIN BlockSpans(shape, edge) = 1 .. n
              /\ Len(BlockSpans(shape, edge)) = n
<1> DEFINE down == Ceiling(shape[1], edge)
           across == Ceiling(shape[2], edge)
           n == down * across
           blocks == BlockSpans(shape, edge)
<1>1. down \in Nat \ {0} /\ across \in Nat \ {0}
  BY CeilingOf
<1> HIDE DEF down, across
<1>2. n \in Nat \ {0}
  <2>1. 1 * across <= down * across
    BY <1>1, TimesMonotone
  <2>2. n \in Nat /\ 1 * across = across
    BY <1>1
  <2> QED
    BY <1>1, <2>1, <2>2
<1>3. blocks = [i \in 1 .. n |-> blocks[i]]
  BY DEF BlockSpans, down, across
<1> HIDE DEF n, blocks
<1>4. blocks \in [1 .. n -> {blocks[i] : i \in 1 .. n}]
  BY <1>3
<1>5. Len(blocks) = n /\ DOMAIN blocks = 1 .. n
  BY <1>2, <1>4, ListIsASequence
<1> QED
  BY <1>2, <1>5 DEF blocks

\* Block k is the one that a pixel lies in.
BlockOf(blocks, y, x, k) ==
    {i \in DOMAIN blocks : y \in Rows(blocks[i]) /\ x \in Columns(blocks[i])} = {k}

\* Every pixel lies in one block.
LEMMA BlocksTile ==
    ASSUME NEW shape \in (Nat \ {0}) \X (Nat \ {0}), NEW edge \in Nat \ {0},
           NEW y \in 0 .. (shape[1] - 1), NEW x \in 0 .. (shape[2] - 1)
    PROVE  \E k : BlockOf(BlockSpans(shape, edge), y, x, k)
<1> DEFINE h == shape[1]
           w == shape[2]
           down == Ceiling(h, edge)
           across == Ceiling(w, edge)
           blocks == BlockSpans(shape, edge)
           row(i) == (i - 1) \div across
           column(i) == (i - 1) % across
           k == (y \div edge) * across + (x \div edge) + 1
<1>1. h \in Nat \ {0} /\ w \in Nat \ {0} /\ y \in 0 .. (h - 1) /\ x \in 0 .. (w - 1)
  OBVIOUS
<1>2. blocks = [i \in 1 .. (down * across) |->
                  <<row(i) * edge, Lower(row(i) * edge + edge, h),
                    column(i) * edge, Lower(column(i) * edge + edge, w)>>]
  BY DEF BlockSpans
<1> HIDE DEF h, w, blocks
<1>3. /\ down \in Nat \ {0} /\ down * edge >= h
      /\ across \in Nat \ {0} /\ across * edge >= w
  BY <1>1, CeilingOf
<1> HIDE DEF down, across
<1>4. ASSUME NEW i \in 1 .. (down * across)
      PROVE  /\ row(i) \in Nat /\ column(i) \in 0 .. (across - 1)
             /\ row(i) * across + column(i) = i - 1
  <2>1. i - 1 \in Nat
    BY <1>3
  <2> DEFINE z == i - 1
             q == z \div across
             m == z % across
  <2>2. q \in Nat /\ m \in 0 .. (across - 1) /\ across * q + m = z
    BY <1>3, <2>1
  <2>3. q * across = across * q
    BY <1>3, <2>2
  <2> QED
    BY <2>2, <2>3
<1> HIDE DEF row, column
<1>5. ASSUME NEW i \in 1 .. (down * across)
      PROVE  /\ y \in Rows(blocks[i]) <=> row(i) = y \div edge
             /\ x \in Columns(blocks[i]) <=> column(i) = x \div edge
  <2>1. blocks[i] = <<row(i) * edge, Lower(row(i) * edge + edge, h),
                      column(i) * edge, Lower(column(i) * edge + edge, w)>>
    BY <1>2
  <2> DEFINE a == row(i) * edge
             b == column(i) * edge
  <2>2. a \in Nat /\ b \in Nat /\ row(i) \in Nat /\ column(i) \in Nat
    BY <1>3, <1>4
  <2>a. y \in Int /\ x \in Int /\ row(i) \in Int /\ column(i) \in Int /\ edge \in Nat \ {0}
    BY <1>1, <2>2
  <2>3. (a <= y /\ y < a + edge) <=> row(i) = y \div edge
    <3>1. (row(i) * edge <= y /\ y < row(i) * edge + edge) <=> row(i) = y \div edge
      <4> HIDE DEF a, b
      <4> QED
        BY <2>a, QuotientIs
    <3> QED
      BY <3>1
  <2>4. (b <= x /\ x < b + edge) <=> column(i) = x \div edge
    <3>1. (column(i) * edge <= x /\ x < column(i) * edge + edge) <=> column(i) = x \div edge
      <4> HIDE DEF a, b
      <4> QED
        BY <2>a, QuotientIs
    <3> QED
      BY <3>1
  <2>5. /\ Rows(blocks[i]) = a .. (Lower(a + edge, h) - 1)
        /\ Columns(blocks[i]) = b .. (Lower(b + edge, w) - 1)
    BY <2>1 DEF Rows, Columns
  <2> HIDE DEF a, b
  <2>6. Lower(a + edge, h) = IF a + edge <= h THEN a + edge ELSE h
    BY <1>1, <2>2, LowerOrHigher
  <2>7. Lower(b + edge, w) = IF b + edge <= w THEN b + edge ELSE w
    BY <1>1, <2>2, LowerOrHigher
  <2>8. y \in a .. (Lower(a + edge, h) - 1) <=> (a <= y /\ y < a + edge)
    BY <1>1, <2>2, <2>6
  <2>9. x \in b .. (Lower(b + edge, w) - 1) <=> (b <= x /\ x < b + edge)
    BY <1>1, <2>2, <2>7
  <2> QED
    BY <2>3, <2>4, <2>5, <2>8, <2>9
<1> DEFINE r == y \div edge
           c == x \div edge
<1>6. r \in 0 .. (down - 1) /\ c \in 0 .. (across - 1)
  <2>1. r \in Nat /\ r * edge <= y
    <3>1. y \in Int /\ r \in Nat /\ r \in Int /\ r = y \div edge
      BY <1>1
    <3> HIDE DEF r
    <3> QED
      BY <1>1, <3>1, QuotientIs
  <2>2. c \in Nat /\ c * edge <= x
    <3>1. x \in Int /\ c \in Nat /\ c \in Int /\ c = x \div edge
      BY <1>1
    <3> HIDE DEF c
    <3> QED
      BY <1>1, <3>1, QuotientIs
  <2> HIDE DEF r, c
  <2>3. ASSUME down <= r PROVE FALSE
    <3>1. down * edge <= r * edge
      BY <1>3, <2>1, <2>3, TimesMonotone
    <3>2. down * edge \in Nat /\ r * edge \in Nat
      BY <1>3, <2>1
    <3> QED
      BY <1>1, <1>3, <2>1, <3>1, <3>2
  <2>4. ASSUME across <= c PROVE FALSE
    <3>1. across * edge <= c * edge
      BY <1>3, <2>2, <2>4, TimesMonotone
    <3>2. across * edge \in Nat /\ c * edge \in Nat
      BY <1>3, <2>2
    <3> QED
      BY <1>1, <1>3, <2>2, <3>1, <3>2
  <2> QED
    BY <1>3, <2>1, <2>2, <2>3, <2>4
<1>7. k = r * across + c + 1
  OBVIOUS
<1> HIDE DEF r, c, k
<1>8. k \in 1 .. (down * across)
  <2>1. (r + 1) * across <= down * across
    BY <1>3, <1>6, TimesMonotone
  <2>2. (r + 1) * across = r * across + across /\ r * across \in Nat /\ down * across \in Nat
    BY <1>3, <1>6
  <2> QED
    BY <1>3, <1>6, <1>7, <2>1, <2>2
<1>9. row(k) = r /\ column(k) = c
  <2> DEFINE q == row(k)
             m == column(k)
             z == r * across + c
  <2>1. q \in Nat /\ m \in 0 .. (across - 1) /\ q * across + m = z
    <3>1. k - 1 = z
      BY <1>3, <1>6, <1>7
    <3> QED
      BY <1>4, <1>8, <3>1
  <2>2. z \in Nat /\ r \in Nat /\ c \in Nat /\ r * across \in Nat /\ q * across \in Nat
    BY <1>3, <1>6, <2>1
  <2>3. r * across <= z /\ z < r * across + across
    BY <1>3, <1>6, <2>2
  <2>4. q * across <= z /\ z < q * across + across
    BY <1>3, <2>1, <2>2
  <2>5. z = q * across + m
    BY <2>1
  <2> HIDE DEF q, m
  <2>6. r = q
    <3> HIDE DEF z
    <3>1. z \in Int /\ r \in Int /\ q \in Int /\ across \in Nat \ {0}
      BY <1>3, <2>1, <2>2
    <3>2. r = z \div across
      BY <2>3, <3>1, QuotientIs
    <3>3. q = z \div across
      BY <2>4, <3>1, QuotientIs
    <3> QED
      BY <3>2, <3>3
  <2>7. m = c
    BY <1>6, <2>1, <2>2, <2>5, <2>6
  <2> QED
    BY <2>6, <2>7 DEF q, m
<1>10. ASSUME NEW i \in 1 .. (down * across), row(i) = r, column(i) = c PROVE i = k
  BY <1>3, <1>4, <1>6, <1>7, <1>10
<1>11. \A i \in 1 .. (down * across) :
          (y \in Rows(blocks[i]) /\ x \in Columns(blocks[i])) <=> i = k
  BY <1>5, <1>8, <1>9, <1>10 DEF r, c
<1>12. DOMAIN blocks = 1 .. (down * across)
  BY <1>2
<1>13. {i \in DOMAIN blocks : y \in Rows(blocks[i]) /\ x \in Columns(blocks[i])} = {k}
  BY <1>8, <1>11, <1>12
<1> QED
  BY <1>13 DEF blocks, BlockOf

-----------------------------------------------------------------------------
(* A plan.                                                                 *)

\* A set of one element.
LEMMA OnceIs == ASSUME NEW S, \E x : S = {x} PROVE Once(S)
BY FS_Singleton DEF Once

\* The runs of a cut, one to a unit and none to the units beyond, own each
\* piece once.
LEMMA CutGivesUnits ==
    ASSUME NEW n \in Nat \ {0}, NEW units \in Nat, n <= units, NEW count \in Nat,
           NEW ends, IsCut(ends, n, count), NEW groups,
           groups = [u \in 0 .. (units - 1) |->
                       IF u < n THEN Indexes(Ranges(ends)[u + 1]) ELSE {}]
    PROVE  UnitsOwn(count, groups)
<1>1. DOMAIN groups = 0 .. (units - 1)
  OBVIOUS
<1>2. \A k \in 1 .. n : Ranges(ends)[k] = <<ends[k - 1], ends[k]>>
  BY RangesAreASequence
<1>3. ASSUME NEW u \in 0 .. (units - 1)
      PROVE  groups[u] = IF u < n THEN ends[u] .. (ends[u + 1] - 1) ELSE {}
  <2>1. CASE u < n
    <3>1. u + 1 \in 1 .. n /\ (u + 1) - 1 = u
      BY <2>1
    <3>2. Ranges(ends)[u + 1] = <<ends[u], ends[u + 1]>>
      BY <1>2, <3>1
    <3>3. groups[u] = Indexes(Ranges(ends)[u + 1])
      BY <2>1
    <3> QED
      BY <2>1, <3>2, <3>3 DEF Indexes
  <2>2. CASE ~(u < n)
    BY <2>2
  <2> QED
    BY <2>1, <2>2
<1> SUFFICES ASSUME NEW p \in 0 .. (count - 1)
             PROVE  Once({u \in 0 .. (units - 1) : p \in groups[u]})
  BY <1>1 DEF UnitsOwn
<1>4. PICK k \in 1 .. n : RunOf(ends, n, p, k)
  BY CutOwns
<1>5. \A u \in 0 .. (units - 1) : p \in groups[u] <=> u = k - 1
  <2> TAKE u \in 0 .. (units - 1)
  <2>1. CASE u < n
    <3>1. u + 1 \in 1 .. n /\ (u + 1) - 1 = u
      BY <2>1
    <3>2. p \in ends[(u + 1) - 1] .. (ends[u + 1] - 1) <=> u + 1 = k
      BY <1>4, <3>1 DEF RunOf
    <3>3. groups[u] = ends[u] .. (ends[u + 1] - 1)
      BY <1>3, <2>1
    <3>4. p \in groups[u] <=> u + 1 = k
      BY <3>1, <3>2, <3>3
    <3> QED
      BY <3>1, <3>4
  <2>2. CASE ~(u < n)
    BY <1>3, <2>2
  <2> QED
    BY <2>1, <2>2
<1>6. k - 1 \in 0 .. (units - 1)
  OBVIOUS
<1>7. {u \in 0 .. (units - 1) : p \in groups[u]} = {k - 1}
  BY <1>5, <1>6
<1> QED
  BY <1>7, OnceIs

\* Shards of each stage that have a piece each, and units to run on.
CountsFit(counts, units, blocks, batches, rows) ==
    /\ counts.ref \in 1 .. units /\ counts.ref <= blocks
    /\ counts.scene \in 1 .. units /\ counts.scene <= batches
    /\ counts.band \in Nat \ {0} /\ (counts.band = 1 \/ counts.band <= rows)

\* A stage never has more shards than the fleet has units, or than there are
\* pieces to own.
LEMMA StageCounts ==
    ASSUME NEW units \in Nat \ {0}, NEW blocks \in Nat \ {0}, NEW batches \in Nat \ {0},
           NEW rows \in Nat
    PROVE  CountsFit(StageShardCounts(units, blocks, batches, rows), units, blocks, batches, rows)
<1>1. /\ ClimatologyVms \in Nat /\ OffsetVms \in Nat /\ CompositeVms \in Nat
      /\ AutoOffsets \in Nat \ {0} /\ AutoComposite \in Nat \ {0}
  BY CutsArePositive
<1> DEFINE Pick(a, b) == Higher(1, Lower(a, b))
<1>2. ASSUME NEW a \in Nat \ {0}, NEW b \in Nat
      PROVE  Pick(a, b) \in Nat \ {0} /\ Pick(a, b) <= a /\ (Pick(a, b) = 1 \/ Pick(a, b) <= b)
  <2> DEFINE m == Lower(a, b)
  <2>1. m = IF a <= b THEN a ELSE b
    BY LowerOrHigher
  <2> HIDE DEF m
  <2>2. Higher(1, m) = IF 1 <= m THEN m ELSE 1
    BY <2>1, LowerOrHigher
  <2> QED
    BY <2>1, <2>2 DEF m
<1> HIDE DEF Pick
<1>3. /\ StageShardCounts(units, blocks, batches, rows).ref = Pick(units, blocks)
      /\ StageShardCounts(units, blocks, batches, rows).scene = Pick(units, batches)
      /\ StageShardCounts(units, blocks, batches, rows).band =
           Pick(Or(CompositeVms, AutoComposite), rows)
  BY DEF StageShardCounts, Or, Pick
<1>4. Or(CompositeVms, AutoComposite) \in Nat \ {0}
  BY <1>1 DEF Or
<1>5. Pick(units, blocks) \in 1 .. units /\ Pick(units, blocks) <= blocks
  BY <1>2
<1>6. Pick(units, batches) \in 1 .. units /\ Pick(units, batches) <= batches
  BY <1>2
<1>7. LET b == Pick(Or(CompositeVms, AutoComposite), rows)
      IN  b \in Nat \ {0} /\ (b = 1 \/ b <= rows)
  BY <1>2, <1>4
<1> QED
  BY <1>3, <1>5, <1>6, <1>7 DEF CountsFit

\* A block has an edge.
LEMMA EdgeIsPositive ==
    ASSUME NEW shape \in (Nat \ {0}) \X (Nat \ {0}), NEW scenes
    PROVE  IoBlockEdge(shape, scenes) \in Nat \ {0}
<1> DEFINE h == shape[1]
           w == shape[2]
           largest == Lower(h, w)
           fits(e) == e <= largest /\ e * e * scenes <= UnitMemory
           bound == Higher(SmallestEdge, largest)
           edges == {e \in SmallestEdge .. bound : \E k \in 0 .. largest : e = SmallestEdge * (2 ^ k)}
           chosen == {SmallestEdge} \cup {e \in edges : \A d \in edges :
                                             SmallestEdge < d /\ d <= e => fits(d)}
           floor == Lower(Lower(SourceChunk, Higher(h, w)), largest)
<1>1. IoBlockEdge(shape, scenes) = Higher(Max(chosen), floor)
  BY DEF IoBlockEdge
<1>2. SmallestEdge \in Nat \ {0} /\ SourceChunk \in Nat \ {0}
  BY CutsArePositive
<1>3. h \in Nat \ {0} /\ w \in Nat \ {0}
  OBVIOUS
<1> HIDE DEF h, w
<1>4. \A a \in Nat \ {0}, b \in Nat \ {0} : Lower(a, b) \in Nat \ {0} /\ Higher(a, b) \in Nat \ {0}
  BY LowerOrHigher
<1>5. largest \in Nat \ {0} /\ Higher(h, w) \in Nat \ {0}
  BY <1>3, <1>4
<1>6. floor \in Nat \ {0}
  BY <1>2, <1>4, <1>5
<1> HIDE DEF largest, fits, floor
<1>7. bound \in Nat \ {0} /\ SmallestEdge <= bound
  <2>1. bound = IF SmallestEdge <= largest THEN largest ELSE SmallestEdge
    BY <1>2, <1>5, LowerOrHigher
  <2> QED
    BY <1>2, <1>5, <2>1
<1> HIDE DEF bound
<1>8. edges \subseteq 0 .. bound
  BY <1>2, <1>7
<1> HIDE DEF edges
<1>9. chosen \in SUBSET (0 .. bound) /\ chosen # {}
  <2>1. SmallestEdge \in 0 .. bound
    BY <1>2, <1>7
  <2>2. chosen \subseteq {SmallestEdge} \cup edges /\ chosen # {}
    OBVIOUS
  <2> HIDE DEF chosen
  <2> QED
    BY <1>8, <2>1, <2>2
<1> HIDE DEF chosen
<1>10. Max(chosen) \in Nat
  <2>1. Max(chosen) \in chosen
    BY <1>7, <1>9, MaxOf
  <2>2. chosen \subseteq 0 .. bound /\ 0 .. bound \subseteq Nat
    BY <1>9
  <2> QED
    BY <2>1, <2>2
<1>11. Higher(Max(chosen), floor) \in Nat \ {0}
  <2> DEFINE a == Max(chosen)
  <2>1. a \in Nat /\ a \in Int /\ floor \in Int
    BY <1>6, <1>10
  <2> HIDE DEF a
  <2>2. Higher(a, floor) = IF a <= floor THEN floor ELSE a
    BY <2>1, LowerOrHigher
  <2> QED
    BY <1>6, <2>1, <2>2 DEF a
<1> QED
  BY <1>1, <1>11

\* Weights of blocks are numbers, one for each block.
LEMMA WeightsAreNumbers ==
    ASSUME NEW n \in Nat \ {0}, NEW blocks, DOMAIN blocks = 1 .. n, NEW hasLand,
           NEW footprints \in Seq(Int \X Int \X Int \X Int)
    PROVE  /\ Len(BlockSceneWeights(blocks, hasLand, footprints)) = n
           /\ \A i \in 1 .. n : BlockSceneWeights(blocks, hasLand, footprints)[i] \in Nat
<1> DEFINE touches(f, b) == /\ f[1] <= b[2] /\ b[1] <= f[2]
                            /\ f[3] <= b[4] /\ b[3] <= f[4]
           over(i) == {j \in DOMAIN footprints : touches(footprints[j], blocks[i])}
           weights == BlockSceneWeights(blocks, hasLand, footprints)
<1>1. weights = [i \in 1 .. n |-> IF hasLand[i] THEN Cardinality(over(i)) ELSE 0]
  BY DEF BlockSceneWeights
<1>2. \A i : Cardinality(over(i)) \in Nat
  <2> TAKE i
  <2>1. DOMAIN footprints = 1 .. Len(footprints) /\ Len(footprints) \in Nat
    BY LenProperties
  <2>2. IsFiniteSet(DOMAIN footprints)
    BY <2>1, FS_Interval
  <2>3. over(i) \subseteq DOMAIN footprints
    OBVIOUS
  <2>4. IsFiniteSet(over(i))
    <3> HIDE DEF over
    <3> QED
      BY <2>2, <2>3, FS_Subset
  <2> HIDE DEF over
  <2> QED
    BY <2>4, FS_CardinalityType
<1> HIDE DEF over, weights
<1>3. weights \in [1 .. n -> Nat]
  BY <1>1, <1>2
<1>4. Len(weights) = n
  BY <1>3, ListIsASequence
<1> QED
  BY <1>3, <1>4 DEF weights

-----------------------------------------------------------------------------
(* The weight of a split.                                                  *)

\* The largest of finitely many numbers.
LEMMA MaxIs ==
    ASSUME NEW n \in Nat, NEW S \in SUBSET (0 .. n), S # {}
    PROVE  Max(S) \in S /\ Max(S) \in Nat /\ \A y \in S : y <= Max(S)
<1> DEFINE top == Max(S)
<1>1. top \in S /\ \A y \in S : y <= top
  BY MaxOf
<1> HIDE DEF top
<1>2. top \in 0 .. n
  BY <1>1
<1>3. top \in Nat
  BY <1>2
<1>4. top \in S /\ top \in Nat /\ \A y \in S : y <= top
  BY <1>1, <1>3
<1> QED
  BY <1>4 DEF top

\* The heaviest group of a split is the least number it stays under.
LEMMA HeaviestIs ==
    ASSUME NEW count \in Nat \ {0}, NEW prefix, Rising(prefix, count),
           NEW cuts \in SUBSET (1 .. (count - 1))
    PROVE  /\ Heaviest(prefix, cuts, count) \in Nat
           /\ Bounded(prefix, cuts, count, Heaviest(prefix, cuts, count))
           /\ \A M \in Nat : Bounded(prefix, cuts, count, M) => Heaviest(prefix, cuts, count) <= M
<1> DEFINE ends == cuts \cup {0, count}
           before(e) == {s \in ends : s < e}
           last(e) == Max(before(e))
           weight(e) == prefix[e] - prefix[last(e)]
           all == {weight(e) : e \in ends \ {0}}
           top == prefix[count]
           H == Heaviest(prefix, cuts, count)
<1>1. H = Max(all)
  BY DEF Heaviest
<1>2. \A e \in 0 .. count : prefix[e] \in Nat /\ prefix[e] <= top
  BY DEF Rising
<1>3. /\ ends \subseteq 0 .. count /\ \A e \in ends : e \in Nat
      /\ 0 \in ends /\ count \in ends \ {0}
  OBVIOUS
<1>4. top \in Nat
  BY <1>2
<1> HIDE DEF ends, top, H
<1>5. ASSUME NEW e \in ends \ {0}
      PROVE  /\ last(e) \in ends /\ last(e) < e
             /\ \A s \in ends : s < e => s <= last(e)
             /\ weight(e) \in 0 .. top
  <2>1. e \in 0 .. count /\ e # 0
    BY <1>3
  <2>2. before(e) \in SUBSET (0 .. count) /\ before(e) # {}
    <3>1. 0 \in before(e)
      BY <1>3, <2>1
    <3> QED
      BY <1>3, <3>1
  <2> DEFINE B == before(e)
  <2>3. B \in SUBSET (0 .. count) /\ B # {}
    BY <2>2
  <2> HIDE DEF B
  <2>4. Max(B) \in B /\ Max(B) \in Nat /\ \A y \in B : y <= Max(B)
    BY <2>3, MaxIs
  <2> USE DEF B
  <2>5. last(e) \in before(e) /\ \A y \in before(e) : y <= last(e)
    BY <2>4
  <2>6. last(e) \in ends /\ last(e) < e /\ \A s \in ends : s < e => s <= last(e)
    <3> HIDE DEF last
    <3> QED
      BY <2>5
  <2> HIDE DEF last
  <2>7. last(e) \in 0 .. count /\ last(e) <= e
    <3>1. last(e) \in 0 .. count
      BY <1>3, <2>6
    <3> QED
      BY <2>1, <2>6, <3>1
  <2>8. prefix[last(e)] <= prefix[e]
    BY <2>1, <2>7 DEF Rising
  <2>9. prefix[e] \in Nat /\ prefix[last(e)] \in Nat /\ prefix[e] <= top
    BY <1>2, <2>1, <2>7
  <2>10. weight(e) \in 0 .. top
    BY <1>4, <2>8, <2>9
  <2> QED
    BY <2>6, <2>10
<1> HIDE DEF last
<1>6. all \in SUBSET (0 .. top) /\ all # {}
  <2>1. weight(count) \in all
    BY <1>3
  <2>2. all \subseteq 0 .. top
    BY <1>5
  <2> QED
    BY <2>1, <2>2
<1>7. H \in all /\ H \in Nat /\ \A y \in all : y <= H
  <2> HIDE DEF all
  <2> QED
    BY <1>1, <1>4, <1>6, MaxIs
<1>8. Bounded(prefix, cuts, count, H)
  <2> SUFFICES ASSUME NEW q \in cuts \cup {count}, NEW r \in cuts \cup {0}, r < q,
                      \A x \in cuts : ~(r < x /\ x < q)
               PROVE  prefix[q] - prefix[r] <= H
    BY DEF Bounded
  <2>1. q \in ends \ {0} /\ r \in ends
    BY <1>3 DEF ends
  <2>2. last(q) = r
    <3>1. last(q) \in ends /\ last(q) < q /\ r <= last(q)
      BY <1>5, <2>1
    <3>2. last(q) \in Nat /\ r \in Nat /\ q \in Nat /\ q <= count
      <4>1. last(q) \in 0 .. count /\ r \in 0 .. count /\ q \in 0 .. count
        BY <1>3, <2>1, <3>1
      <4> QED
        BY <4>1
    <3>3. CASE last(q) \in cuts
      <4>1. ~(r < last(q) /\ last(q) < q)
        BY <3>3
      <4> QED
        BY <3>1, <3>2, <4>1
    <3>4. CASE last(q) = 0
      BY <3>1, <3>2, <3>4
    <3>5. CASE last(q) = count
      BY <3>1, <3>2, <3>5
    <3> QED
      BY <3>1, <3>3, <3>4, <3>5 DEF ends
  <2>3. weight(q) \in all
    BY <2>1
  <2> HIDE DEF all
  <2>4. weight(q) <= H
    BY <1>7, <2>3
  <2> QED
    BY <2>2, <2>4
<1>9. ASSUME NEW M \in Nat, Bounded(prefix, cuts, count, M) PROVE H <= M
  <2>1. PICK e \in ends \ {0} : H = weight(e)
    BY <1>7
  <2>2. last(e) \in ends /\ last(e) < e /\ \A s \in ends : s < e => s <= last(e)
    BY <1>5
  <2>3. e \in Nat /\ e <= count /\ last(e) \in Nat
    <3>1. last(e) \in 0 .. count /\ e \in 0 .. count
      BY <1>3, <2>1, <2>2
    <3> QED
      BY <3>1
  <2>4. e \in cuts \cup {count} /\ last(e) \in cuts \cup {0}
    <3>1. last(e) # count
      BY <2>2, <2>3
    <3> QED
      BY <2>1, <2>2, <3>1 DEF ends
  <2>5. \A x \in cuts : ~(last(e) < x /\ x < e)
    <3> SUFFICES ASSUME NEW x \in cuts, last(e) < x, x < e PROVE FALSE
      OBVIOUS
    <3>1. x \in ends /\ x \in Nat
      BY <1>3 DEF ends
    <3>2. x <= last(e)
      BY <2>2, <3>1
    <3> QED
      BY <2>3, <3>1, <3>2
  <2>6. prefix[e] - prefix[last(e)] <= M
    BY <1>9, <2>2, <2>4, <2>5 DEF Bounded
  <2> QED
    BY <2>1, <2>6
<1> QED
  BY <1>7, <1>8, <1>9 DEF H

\* The cuts between n runs: n - 1 of them, and none of their groups is heavier
\* than the heaviest run.
CutsLie(used, ends, n, count) ==
    /\ used \in SUBSET (1 .. (count - 1))
    /\ Cardinality(used) = n - 1
    /\ \A prefix, M : AtMost(prefix, ends, n, M) => Bounded(prefix, used, count, M)

\* The ends of a strict cut but the last lie so.
LEMMA CutsBetween ==
    ASSUME NEW n \in Nat \ {0}, NEW count \in Nat \ {0}, NEW ends, IsCut(ends, n, count),
           Strict(ends, n), NEW used, used = {ends[k] : k \in 1 .. n} \ {count}
    PROVE  CutsLie(used, ends, n, count)
<1>1. \A i \in 0 .. n : ends[i] \in i .. count
  BY StrictCutIsHigh
<1>2. ends[0] = 0 /\ ends[n] = count
  BY DEF IsCut
<1>3. ASSUME NEW j \in 0 .. n, NEW k \in 0 .. n, j < k PROVE ends[j] < ends[k]
  <2>1. k - 1 \in 0 .. n /\ k \in 1 .. n /\ j <= k - 1
    BY <1>3
  <2>2. ends[j] <= ends[k - 1]
    BY <2>1, CutMonotone
  <2>3. ends[k - 1] < ends[k]
    BY <2>1 DEF Strict
  <2>4. ends[j] \in Nat /\ ends[k - 1] \in Nat /\ ends[k] \in Nat
    BY <1>1, <2>1
  <2> QED
    BY <2>2, <2>3, <2>4
<1>4. \A k \in 1 .. (n - 1) : ends[k] \in 1 .. (count - 1)
  <2> TAKE k \in 1 .. (n - 1)
  <2>1. k \in 0 .. n /\ n \in 0 .. n /\ k < n
    OBVIOUS
  <2>2. ends[k] < ends[n] /\ ends[k] \in k .. count
    BY <1>1, <1>3, <2>1
  <2> QED
    BY <1>2, <2>2
<1>5. used = {ends[k] : k \in 1 .. (n - 1)}
  <2>1. ASSUME NEW x \in used PROVE x \in {ends[k] : k \in 1 .. (n - 1)}
    <3>1. PICK k \in 1 .. n : x = ends[k] /\ x # count
      OBVIOUS
    <3>2. k # n
      BY <1>2, <3>1
    <3>3. k \in 1 .. (n - 1)
      BY <3>2
    <3> QED
      BY <3>1, <3>3
  <2>2. ASSUME NEW k \in 1 .. (n - 1) PROVE ends[k] \in used
    <3>1. k \in 1 .. n /\ ends[k] \in 1 .. (count - 1)
      BY <1>4
    <3>2. ends[k] # count
      BY <3>1
    <3> QED
      BY <3>1, <3>2
  <2> QED
    BY <2>1, <2>2
<1>6. used \in SUBSET (1 .. (count - 1))
  BY <1>4, <1>5
<1>7. Cardinality(used) = n - 1
  <2> DEFINE T == 1 .. (n - 1)
             f == [k \in T |-> ends[k]]
  <2>1. IsFiniteSet(T) /\ Cardinality(T) = n - 1
    <3>1. n - 1 \in Int /\ 1 \in Int
      OBVIOUS
    <3>2. IsFiniteSet(T) /\ Cardinality(T) = IF 1 > n - 1 THEN 0 ELSE (n - 1) - 1 + 1
      BY <3>1, FS_Interval
    <3> HIDE DEF T
    <3> QED
      BY <3>2
  <2>2. f \in [T -> used] /\ \A x \in used : \E k \in T : f[k] = x
    BY <1>5
  <2>3. \A j \in T : \A k \in T : f[j] = f[k] => j = k
    <3> SUFFICES ASSUME NEW j \in T, NEW k \in T, f[j] = f[k], j # k PROVE FALSE
      OBVIOUS
    <3>1. j \in 0 .. n /\ k \in 0 .. n /\ ends[j] = ends[k]
      OBVIOUS
    <3>2. ends[j] \in Nat /\ ends[k] \in Nat
      BY <1>1, <3>1
    <3>3. CASE j < k
      BY <1>3, <3>1, <3>2, <3>3
    <3>4. CASE k < j
      BY <1>3, <3>1, <3>2, <3>4
    <3> QED
      BY <3>3, <3>4
  <2> HIDE DEF T, f
  <2>4. f \in Surjection(T, used) /\ f \in Injection(T, used)
    BY <2>2, <2>3 DEF Surjection, Injection, IsInjective
  <2> QED
    BY <2>1, <2>4, FS_Surjection
<1>8. ASSUME NEW prefix, NEW M, AtMost(prefix, ends, n, M)
      PROVE  Bounded(prefix, used, count, M)
  <2> SUFFICES ASSUME NEW q \in used \cup {count}, NEW r \in used \cup {0}, r < q,
                      \A x \in used : ~(r < x /\ x < q)
               PROVE  prefix[q] - prefix[r] <= M
    BY DEF Bounded
  <2>1. PICK k \in 1 .. n : q = ends[k]
    <3>1. CASE q = count
      <4>1. n \in 1 .. n
        OBVIOUS
      <4> QED
        BY <1>2, <3>1, <4>1
    <3>2. CASE q \in used
      <4>1. PICK k \in 1 .. (n - 1) : q = ends[k]
        BY <1>5, <3>2
      <4>2. k \in 1 .. n
        OBVIOUS
      <4> QED
        BY <4>1, <4>2
    <3> QED
      BY <3>1, <3>2
  <2>2. PICK j \in 0 .. (n - 1) : r = ends[j]
    <3>1. CASE r = 0
      <4>1. 0 \in 0 .. (n - 1)
        OBVIOUS
      <4> QED
        BY <1>2, <3>1, <4>1
    <3>2. CASE r \in used
      <4>1. PICK i \in 1 .. (n - 1) : r = ends[i]
        BY <1>5, <3>2
      <4>2. i \in 0 .. (n - 1)
        OBVIOUS
      <4> QED
        BY <4>1, <4>2
    <3> QED
      BY <3>1, <3>2
  <2>3. j \in 0 .. n /\ k \in 0 .. n /\ k - 1 \in 0 .. n
    OBVIOUS
  <2>4. j < k
    <3> SUFFICES ASSUME k <= j PROVE FALSE
      BY <2>3
    <3>1. ends[k] <= ends[j]
      BY <2>3, CutMonotone
    <3>2. ends[k] \in Nat /\ ends[j] \in Nat
      BY <1>1, <2>3
    <3> QED
      BY <2>1, <2>2, <3>1, <3>2
  <2>5. j = k - 1
    <3> SUFFICES ASSUME j < k - 1 PROVE FALSE
      BY <2>3, <2>4
    <3>1. k - 1 \in 1 .. (n - 1)
      BY <2>3
    <3>2. ends[k - 1] \in used
      BY <1>5, <3>1
    <3>3. ends[j] < ends[k - 1] /\ ends[k - 1] < ends[k]
      BY <1>3, <2>3
    <3> QED
      BY <2>1, <2>2, <3>2, <3>3
  <2> QED
    BY <1>8, <2>1, <2>2, <2>5 DEF AtMost
<1> QED
  BY <1>6, <1>7, <1>8 DEF CutsLie

\* A plan with weights is split as lightly as can be.
LEMMA PlanIsLight ==
    ASSUME NEW plan, NEW n \in Nat \ {0}, plan.ref_shards = n, plan.weights # NoWeights,
           Len(plan.weights) \in Nat, n <= Len(plan.weights),
           \A i \in 1 .. Len(plan.weights) : plan.weights[i] \in Nat
    PROVE  SplitIsLightest(plan)
<1> DEFINE weights == plan.weights
           count == Len(weights)
           prefix == Prefix(weights)
           groups == ClimatologyGroups(plan)
           used == {g[2] : g \in Range(groups)} \ {count}
<1>1. PICK ends : /\ BalanceByWeight(weights, n) = Ranges(ends)
                  /\ IsCut(ends, n, count) /\ Strict(ends, n)
                  /\ LightSplit(ends, n, prefix, count)
  BY WeightIsCut
<1>2. groups = Ranges(ends)
  BY <1>1 DEF ClimatologyGroups
<1>3. Rising(prefix, count)
  BY PrefixOf, PrefixMonotone DEF Rising
<1>4. count \in Nat \ {0} /\ n <= count
  OBVIOUS
<1> HIDE DEF weights, count, prefix, groups
<1>5. ListsRuns(groups, ends, n)
  BY <1>1, <1>2, <1>4, RunsAreListed
<1>6. {g[2] : g \in Range(groups)} = {ends[k] : k \in 1 .. n}
  <2>1. Range(groups) = {groups[k] : k \in 1 .. n}
    BY <1>5 DEF ListsRuns, Range
  <2>2. \A k \in 1 .. n : groups[k][2] = ends[k]
    BY <1>5 DEF ListsRuns
  <2> QED
    BY <2>1, <2>2
<1>7. used = {ends[k] : k \in 1 .. n} \ {count}
  BY <1>6
<1> HIDE DEF used
<1>8. /\ used \in SUBSET (1 .. (count - 1)) /\ Cardinality(used) = n - 1
      /\ \A M : AtMost(prefix, ends, n, M) => Bounded(prefix, used, count, M)
  <2>1. CutsLie(used, ends, n, count)
    BY <1>1, <1>4, <1>7, CutsBetween
  <2> QED
    BY <2>1 DEF CutsLie
<1>9. PICK bound \in Nat :
        /\ AtMost(prefix, ends, n, bound)
        /\ \A cuts \in SUBSET (1 .. (count - 1)), M \in Nat :
              Cardinality(cuts) = n - 1 /\ Bounded(prefix, cuts, count, M) => bound <= M
  BY <1>1 DEF LightSplit
<1>10. Heaviest(prefix, used, count) <= bound /\ Heaviest(prefix, used, count) \in Nat
  BY <1>3, <1>4, <1>8, <1>9, HeaviestIs
<1>11. ASSUME NEW cuts \in kSubset(n - 1, 1 .. (count - 1))
       PROVE  Heaviest(prefix, used, count) <= Heaviest(prefix, cuts, count)
  <2>1. cuts \in SUBSET (1 .. (count - 1)) /\ Cardinality(cuts) = n - 1
    BY DEF kSubset
  <2>2. /\ Heaviest(prefix, cuts, count) \in Nat
        /\ Bounded(prefix, cuts, count, Heaviest(prefix, cuts, count))
    BY <1>3, <1>4, <2>1, HeaviestIs
  <2>3. bound <= Heaviest(prefix, cuts, count)
    BY <1>9, <2>1, <2>2
  <2> QED
    BY <1>9, <1>10, <2>2, <2>3
<1> QED
  BY <1>8, <1>11 DEF SplitIsLightest, used, groups, prefix, count, weights

-----------------------------------------------------------------------------
(* A plan, under any width.                                                *)

\* The sizes a budget reads: every list of a plan is a cut.
InPieces(plan) ==
    /\ {plan.coarse[1], plan.coarse[2], plan.native[1], plan.native[2], plan.scenes}
         \subseteq Nat \ {0}
    /\ {Len(plan.blocks), Len(plan.batches), plan.ref_shards, plan.scene_shards,
        plan.band_shards} \subseteq Nat \ {0}
    /\ plan.scene_shards <= Len(plan.batches)
    /\ \E ends : /\ ClimatologyGroups(plan) = Ranges(ends)
                 /\ IsCut(ends, plan.ref_shards, Len(plan.blocks))
    /\ \E ends : /\ BalanceByLand(plan.has_land, plan.ref_shards) = Ranges(ends)
                 /\ IsCut(ends, plan.ref_shards, Len(plan.blocks))
    /\ \E ends : /\ plan.batches = Ranges(ends)
                 /\ IsCut(ends, Len(plan.batches), plan.scenes)
    /\ \E ends : /\ plan.bands = Ranges(ends)
                 /\ IsCut(ends, plan.band_shards, plan.native[1])

\* Every piece of the plan has one owner, its split is the lightest, and its
\* lists are cuts.
WellPlanned(plan, units) ==
    /\ Owned(plan, units)
    /\ plan.weights # NoWeights => SplitIsLightest(plan)
    /\ InPieces(plan)

\* A tile that is planned is planned well.
LEMMA PlanIsSound ==
    ASSUME NEW shape \in (Nat \ {0}) \X (Nat \ {0}), NEW land, NEW factor \in Nat \ {0},
           NEW footprints \in Seq(Int \X Int \X Int \X Int), footprints # <<>>,
           NEW units \in Nat \ {0}, NEW weighted \in BOOLEAN
    PROVE  WellPlanned(ResolveTilePlan(shape, land, factor, Len(footprints), footprints,
                                       units, weighted), units)
<1> DEFINE scenes == Len(footprints)
           plan == ResolveTilePlan(shape, land, factor, scenes, footprints, units, weighted)
           height == shape[1] * factor
           edge == IoBlockEdge(shape, scenes)
           blocks == BlockSpans(shape, edge)
           hasLand == [i \in DOMAIN blocks |->
                         \E p \in land : p[1] \in Rows(blocks[i]) /\ p[2] \in Columns(blocks[i])]
           batches == SceneBatches(scenes)
           rows == height \div CogBlocksize
           counts == StageShardCounts(units, Len(blocks), Len(batches), rows)
           weights == BlockSceneWeights(blocks, hasLand, footprints)
<1>1. scenes \in Nat \ {0}
  BY EmptySeq
<1>2. shape[1] \in Nat \ {0} /\ shape[2] \in Nat \ {0}
  OBVIOUS
<1>3. height \in Nat \ {0}
  <2> DEFINE h == shape[1]
  <2>0. h \in Nat \ {0} /\ height = h * factor
    OBVIOUS
  <2> HIDE DEF h, height
  <2>1. 1 * factor <= h * factor
    BY <2>0, TimesMonotone
  <2>2. 1 * factor = factor /\ h * factor \in Nat
    BY <2>0
  <2> QED
    BY <2>0, <2>1, <2>2
<1>4. edge \in Nat \ {0}
  BY EdgeIsPositive
<1>5. CogBlocksize \in Nat \ {0}
  BY CutsArePositive
<1>6. /\ plan.coarse = shape /\ plan.scenes = scenes /\ plan.native[1] = height
      /\ plan.blocks = blocks /\ plan.batches = batches /\ plan.has_land = hasLand
      /\ plan.weights = (IF weighted THEN weights ELSE NoWeights)
      /\ plan.bands = BandEdges(height, counts.band, CogBlocksize)
      /\ plan.ref_shards = counts.ref /\ plan.scene_shards = counts.scene
      /\ plan.native[2] = shape[2] * factor /\ plan.band_shards = counts.band
  BY DEF ResolveTilePlan
<1> HIDE DEF plan, scenes, height, edge
<1>7. PICK n \in Nat \ {0} : DOMAIN blocks = 1 .. n /\ Len(blocks) = n
  BY <1>4, BlocksAreAList
<1>8. PICK m \in Nat \ {0} : \E ends : IsCut(ends, m, scenes) /\ batches = Ranges(ends)
  BY <1>1, BatchesAreACut
<1>9. PICK starts : IsCut(starts, m, scenes) /\ batches = Ranges(starts)
  BY <1>8
<1>10. /\ Len(batches) = m /\ DOMAIN batches = 1 .. m
       /\ \A k \in 1 .. m : batches[k] = <<starts[k - 1], starts[k]>>
  <2>1. scenes \in Nat /\ m \in Nat
    BY <1>1
  <2> HIDE DEF batches
  <2> QED
    <3>1. ListsRuns(batches, starts, m)
      BY <1>9, <2>1, RunsAreListed
    <3> QED
      BY <3>1 DEF ListsRuns
<1>11. rows \in Nat /\ rows <= Ceiling(height, CogBlocksize)
       /\ Ceiling(height, CogBlocksize) \in Nat \ {0}
  BY <1>3, <1>5, CeilingOf
<1> HIDE DEF rows
<1> DEFINE ref == counts.ref
           scene == counts.scene
           band == counts.band
           most == Ceiling(height, CogBlocksize)
<1>12. /\ ref \in Nat \ {0} /\ ref <= units /\ ref <= n
       /\ scene \in Nat \ {0} /\ scene <= units /\ scene <= m
       /\ band \in Nat \ {0} /\ band <= most
  <2>1. CountsFit(counts, units, n, m, rows)
    <3>1. n \in Nat \ {0} /\ m \in Nat \ {0} /\ rows \in Nat /\ Len(blocks) = n /\ Len(batches) = m
      BY <1>7, <1>10, <1>11
    <3> HIDE DEF blocks, batches
    <3> QED
      BY <3>1, StageCounts
  <2> HIDE DEF counts
  <2>2. /\ ref \in 1 .. units /\ ref <= n /\ scene \in 1 .. units /\ scene <= m
        /\ band \in Nat \ {0} /\ (band = 1 \/ band <= rows)
    BY <2>1 DEF CountsFit
  <2>3. rows <= most /\ most \in Nat \ {0} /\ rows \in Nat
    BY <1>11
  <2> HIDE DEF ref, scene, band, most
  <2> QED
    BY <2>2, <2>3
<1>13. Len(hasLand) = n
  <2>1. hasLand \in [1 .. n -> BOOLEAN]
    BY <1>7
  <2> HIDE DEF hasLand
  <2> QED
    BY <2>1, ListIsASequence
<1>14. Len(weights) = n /\ \A i \in 1 .. n : weights[i] \in Nat
  <2> HIDE DEF hasLand, blocks
  <2> QED
    BY <1>7, WeightsAreNumbers
<1>a. /\ plan.bands = BandEdges(height, band, CogBlocksize)
      /\ plan.ref_shards = ref /\ plan.scene_shards = scene
  BY <1>6
<1>b. /\ plan.blocks = blocks /\ plan.batches = batches /\ plan.has_land = hasLand
      /\ plan.weights = (IF weighted THEN weights ELSE NoWeights)
  BY <1>6
<1>c. plan.coarse = shape /\ plan.scenes = scenes /\ plan.native[1] = height
  BY <1>6
<1> HIDE DEF blocks, hasLand, batches, counts, weights, ref, scene, band, most
<1>d. \E ends : BalanceByLand(hasLand, ref) = Ranges(ends) /\ IsCut(ends, ref, n)
  <2>1. Len(hasLand) \in Nat /\ ref <= Len(hasLand) /\ ref \in Nat \ {0}
    BY <1>12, <1>13
  <2>2. \E ends : BalanceByLand(hasLand, ref) = Ranges(ends) /\ IsCut(ends, ref, Len(hasLand))
    BY <2>1, LandIsCut
  <2> QED
    BY <1>13, <2>2
<1>e. \E ends : ClimatologyGroups(plan) = Ranges(ends) /\ IsCut(ends, ref, n)
  <2>1. CASE plan.weights # NoWeights
    <3>1. plan.weights = weights
      BY <1>b, <2>1
    <3>2. /\ Len(weights) \in Nat /\ ref <= Len(weights) /\ ref \in Nat \ {0}
          /\ \A i \in 1 .. Len(weights) : weights[i] \in Nat
      BY <1>12, <1>14
    <3>3. \E ends : BalanceByWeight(weights, ref) = Ranges(ends)
                    /\ IsCut(ends, ref, Len(weights))
      BY <3>2, WeightIsCut
    <3>4. \E ends : BalanceByWeight(weights, ref) = Ranges(ends) /\ IsCut(ends, ref, n)
      BY <1>14, <3>3
    <3> QED
      BY <1>a, <2>1, <3>1, <3>4 DEF ClimatologyGroups
  <2>2. CASE ~(plan.weights # NoWeights)
    BY <1>a, <1>b, <1>d, <2>2 DEF ClimatologyGroups
  <2> QED
    BY <2>1, <2>2
<1>15. BlocksTileTheGrid(plan)
  <2> SUFFICES ASSUME NEW y \in 0 .. (shape[1] - 1), NEW x \in 0 .. (shape[2] - 1)
               PROVE  Once({i \in DOMAIN blocks : y \in Rows(blocks[i]) /\ x \in Columns(blocks[i])})
    BY <1>b, <1>c DEF BlocksTileTheGrid
  <2>1. \E k : BlockOf(blocks, y, x, k)
    BY <1>4, BlocksTile DEF blocks
  <2> QED
    BY <2>1, OnceIs DEF BlockOf
<1>16. UnitsOwn(Len(plan.blocks),
                Tabulated([u \in 0 .. (units - 1) |-> ClimatologyGroup(plan, u)]))
  <2>1. PICK ends : ClimatologyGroups(plan) = Ranges(ends) /\ IsCut(ends, ref, n)
    BY <1>e
  <2> DEFINE groups == [u \in 0 .. (units - 1) |-> ClimatologyGroup(plan, u)]
  <2>2. groups = [u \in 0 .. (units - 1) |->
                    IF u < ref THEN Indexes(Ranges(ends)[u + 1]) ELSE {}]
    BY <1>a, <2>1 DEF ClimatologyGroup
  <2> HIDE DEF groups
  <2>3. UnitsOwn(n, groups)
    <3>1. n \in Nat /\ ref \in Nat \ {0} /\ units \in Nat /\ ref <= units
      BY <1>7, <1>12
    <3> HIDE DEF ref
    <3> QED
      BY <2>1, <2>2, <3>1, CutGivesUnits, ZenonT(60)
  <2>4. Tabulated(groups) = groups
    BY TabulatedIs
  <2> QED
    BY <1>7, <1>b, <2>3, <2>4 DEF groups
<1>17. UnitsOwn(Len(plan.batches),
                Tabulated([u \in 0 .. (units - 1) |-> OffsetsGroup(plan, u)]))
  <2>1. PICK ends : Partition(m, scene) = Ranges(ends) /\ IsCut(ends, scene, m)
    BY <1>12, PartitionIsCut
  <2> DEFINE groups == [u \in 0 .. (units - 1) |-> OffsetsGroup(plan, u)]
  <2>2. groups = [u \in 0 .. (units - 1) |->
                    IF u < scene THEN Indexes(Ranges(ends)[u + 1]) ELSE {}]
    BY <1>10, <1>a, <1>b, <2>1 DEF OffsetsGroup
  <2> HIDE DEF groups
  <2>3. UnitsOwn(m, groups)
    BY <1>12, <2>1, <2>2, CutGivesUnits
  <2>4. Tabulated(groups) = groups
    BY TabulatedIs
  <2> QED
    BY <1>10, <1>b, <2>3, <2>4 DEF groups
<1>18. BatchesHoldTheScenes(plan)
  <2> SUFFICES ASSUME NEW s \in 0 .. (scenes - 1)
               PROVE  Once({i \in DOMAIN batches : s \in Indexes(batches[i])})
    BY <1>b, <1>c DEF BatchesHoldTheScenes
  <2>1. PICK k \in 1 .. m : RunOf(starts, m, s, k)
    BY <1>1, <1>9, CutOwns
  <2>2. DOMAIN batches = 1 .. m
    BY <1>10
  <2>3. ASSUME NEW i \in 1 .. m PROVE Indexes(batches[i]) = starts[i - 1] .. (starts[i] - 1)
    <3>1. batches[i] = <<starts[i - 1], starts[i]>>
      BY <1>10
    <3> QED
      BY <3>1 DEF Indexes
  <2>4. {i \in DOMAIN batches : s \in Indexes(batches[i])}
          = {i \in 1 .. m : s \in starts[i - 1] .. (starts[i] - 1)}
    BY <2>2, <2>3
  <2> QED
    BY <2>1, <2>4, OnceIs DEF RunOf
<1>19. BandsCoverTheRows(plan.bands, plan.native[1])
  <2> DEFINE k == band
             bands == plan.bands
  <2>0. k \in Nat \ {0} /\ k <= Ceiling(height, CogBlocksize)
    BY <1>12 DEF most
  <2> HIDE DEF k
  <2>1. PICK ends : /\ BandEdges(height, k, CogBlocksize) = Ranges(ends)
                    /\ IsBandCut(ends, k, height, CogBlocksize)
    BY <1>3, <1>5, <2>0, BandEdgesIsCut
  <2>2. k \in Nat \ {0} /\ bands = Ranges(ends) /\ plan.native[1] = height
    BY <1>a, <1>c, <2>0, <2>1 DEF k
  <2> HIDE DEF bands
  <2>3. /\ Len(bands) = k /\ DOMAIN bands = 1 .. k
        /\ \A i \in 1 .. k : bands[i] = <<ends[i - 1], ends[i]>>
    <3>1. height \in Nat /\ k \in Nat
      BY <1>3, <2>0
    <3>2. IsCut(ends, k, height)
      BY <2>1 DEF IsBandCut
    <3>3. ListsRuns(bands, ends, k)
      BY <2>2, <3>1, <3>2, RunsAreListed
    <3> QED
      BY <3>3 DEF ListsRuns
  <2>4. \A i \in 1 .. k : bands[i][1] = ends[i - 1] /\ bands[i][2] = ends[i]
    BY <2>3, SMTT(20)
  <2>5. ends[0] = 0 /\ ends[k] = height
    BY <2>1 DEF IsBandCut, IsCut
  <2>6. bands[1][1] = 0
    <3>1. 1 \in 1 .. k /\ 1 - 1 = 0
      BY <2>2
    <3> QED
      BY <2>4, <2>5, <3>1
  <2>7. bands[Len(bands)][2] = height
    <3>1. k \in 1 .. k
      BY <2>2
    <3> QED
      BY <2>3, <2>4, <2>5, <3>1
  <2>8. \A i \in DOMAIN bands : bands[i][1] < bands[i][2] /\ bands[i][1] % CogBlocksize = 0
    BY <2>1, <2>3, <2>4, SMTT(20) DEF IsBandCut
  <2>9. \A i \in 2 .. Len(bands) : bands[i][1] = bands[i - 1][2]
    <3> TAKE i \in 2 .. Len(bands)
    <3>1. i \in 1 .. k /\ i - 1 \in 1 .. k
      BY <2>2, <2>3
    <3> QED
      BY <2>4, <3>1
  <2>10. BandsCoverTheRows(bands, height)
    BY <2>6, <2>7, <2>8, <2>9 DEF BandsCoverTheRows
  <2> QED
    BY <2>2, <2>10 DEF bands
<1>20. Owned(plan, units)
  BY <1>15, <1>16, <1>17, <1>18, <1>19 DEF Owned
<1>21. plan.weights # NoWeights => SplitIsLightest(plan)
  <2> SUFFICES ASSUME plan.weights # NoWeights PROVE SplitIsLightest(plan)
    OBVIOUS
  <2>1. plan.weights = weights
    BY <1>b
  <2>2. /\ Len(plan.weights) = n
        /\ \A i \in 1 .. Len(plan.weights) : plan.weights[i] \in Nat
    BY <1>14, <2>1
  <2>3. ref \in Nat \ {0} /\ plan.ref_shards = ref /\ ref <= Len(plan.weights)
        /\ Len(plan.weights) \in Nat
    BY <1>12, <1>a, <2>2
  <2> QED
    BY <2>2, <2>3, PlanIsLight
<1>22. InPieces(plan)
  <2>1. /\ plan.coarse[1] \in Nat \ {0} /\ plan.coarse[2] \in Nat \ {0}
        /\ plan.native[1] \in Nat \ {0} /\ plan.scenes \in Nat \ {0}
    BY <1>1, <1>2, <1>3, <1>c
  <2>2. plan.native[2] \in Nat \ {0}
    <3> DEFINE wide == shape[2]
    <3>1. wide \in Nat \ {0} /\ plan.native[2] = wide * factor
      BY <1>2, <1>6
    <3> HIDE DEF wide
    <3>2. 1 * factor <= wide * factor
      BY <3>1, TimesMonotone
    <3>3. wide * factor \in Nat
      BY <3>1, SMTT(20)
    <3> QED
      BY <3>1, <3>2, <3>3
  <2>3. /\ Len(plan.blocks) = n /\ Len(plan.batches) = m /\ plan.ref_shards = ref
        /\ plan.scene_shards = scene /\ plan.band_shards = band
    BY <1>6, <1>7, <1>10, <1>a, <1>b DEF blocks, batches, counts, band
  <2>4. \E ends : plan.batches = Ranges(ends) /\ IsCut(ends, m, plan.scenes)
    BY <1>9, <1>b, <1>c
  <2>5. \E ends : plan.bands = Ranges(ends) /\ IsCut(ends, band, plan.native[1])
    <3>1. band \in Nat \ {0} /\ band <= Ceiling(height, CogBlocksize)
      BY <1>12 DEF most
    <3>2. PICK ends : /\ BandEdges(height, band, CogBlocksize) = Ranges(ends)
                      /\ IsBandCut(ends, band, height, CogBlocksize)
      BY <1>3, <1>5, <3>1, BandEdgesIsCut
    <3>3. IsCut(ends, band, height)
      BY <3>2 DEF IsBandCut
    <3> QED
      BY <1>a, <1>c, <3>2, <3>3
  <2> QED
    BY <1>12, <1>b, <1>d, <1>e, <2>1, <2>2, <2>3, <2>4, <2>5 DEF InPieces
<1>23. WellPlanned(plan, units)
  BY <1>20, <1>21, <1>22 DEF WellPlanned
<1> QED
  BY <1>23 DEF plan, scenes

-----------------------------------------------------------------------------
(* The run.                                                                *)

Driven == gate.at \in {"driving", "down"}

\* The width a driver works at is the one the run was launched with, and there
\* is no plan before there is a width.
WidthIsKept ==
    /\ Driven => manifest.units \in Nat \ {0}
    /\ gate.at = "driving" => gate.units = manifest.units
    /\ ~Driven => \A t \in Tiles : plans[t] = None
    /\ DOMAIN plans = Tiles

PlansAreSound == \A t \in Tiles : plans[t] # None => WellPlanned(plans[t], manifest.units)

\* The width is kept by every step.
LEMMA WidthStays == WidthIsKept /\ [Next]_vars => WidthIsKept'
<1> SUFFICES ASSUME WidthIsKept, [Next]_vars PROVE WidthIsKept'
  OBVIOUS
<1> USE DEF WidthIsKept, Driven
<1>1. CASE ShardFleet
  <2>1. gate'.at \in {"identity", "refused"}
    BY <1>1 DEF ShardFleet, Refused
  <2> QED
    BY <1>1, <2>1 DEF ShardFleet
<1>2. CASE PreflightWriters
  <2>1. gate'.at \in {"credits", "refused"}
    BY <1>2 DEF PreflightWriters, Refused
  <2> QED
    BY <1>2, <2>1 DEF PreflightWriters
<1>3. CASE PreflightBalance
  <2>1. gate'.at \in {"passed", "refused"}
    BY <1>3 DEF PreflightBalance, Refused
  <2> QED
    BY <1>3, <2>1 DEF PreflightBalance
<1>4. CASE AskAgain
  <2>1. gate'.at = "identity"
    BY <1>4 DEF AskAgain
  <2> QED
    BY <1>4, <2>1 DEF AskAgain
<1>5. CASE WriteManifest
  <2>1. PICK configured \in Configured :
          /\ manifest' = [jobs |-> gate.jobs, units |-> OffsetsFleetUnits(configured)]
          /\ gate' = [at |-> "driving", units |-> OffsetsFleetUnits(configured)]
    BY <1>5 DEF WriteManifest
  <2>2. OffsetsFleetUnits(configured) \in Nat \ {0}
    BY CutsArePositive, LaunchAssumption DEF OffsetsFleetUnits, Or
  <2>3. UNCHANGED plans
    BY <1>5 DEF WriteManifest
  <2> QED
    BY <2>1, <2>2, <2>3
<1>6. CASE Die
  BY <1>6 DEF Die
<1>7. CASE Resume
  <2>1. gate' = [at |-> "driving", units |-> manifest.units] /\ UNCHANGED <<manifest, plans>>
    BY <1>7 DEF Resume, ReadManifest
  <2>2. manifest.units \in Nat \ {0}
    BY <1>7 DEF Resume
  <2> QED
    BY <2>1, <2>2
<1>8. ASSUME NEW t \in Tiles, Plan(t) PROVE WidthIsKept'
  <2>1. gate.at = "driving" /\ UNCHANGED <<gate, manifest>>
    BY <1>8 DEF Plan
  <2>2. DOMAIN plans' = Tiles
    BY <1>8 DEF Plan
  <2> QED
    BY <2>1, <2>2
<1>9. ASSUME NEW stage, Flush(stage) PROVE WidthIsKept'
  BY <1>9 DEF Flush
<1>10. CASE UNCHANGED vars
  BY <1>10 DEF vars
<1> QED
  BY <1>1, <1>2, <1>3, <1>4, <1>5, <1>6, <1>7, <1>8, <1>9, <1>10 DEF Next

\* A plan stays as it is, and a new one is sound.
LEMMA PlansStaySound == WidthIsKept /\ PlansAreSound /\ [Next]_vars => PlansAreSound'
<1> SUFFICES ASSUME WidthIsKept, PlansAreSound, [Next]_vars PROVE PlansAreSound'
  OBVIOUS
<1>1. CASE UNCHANGED <<manifest, plans>>
  BY <1>1 DEF PlansAreSound
<1>2. CASE WriteManifest
  <2>1. \A t \in Tiles : plans'[t] = None
    BY <1>2 DEF WriteManifest, WidthIsKept, Driven
  <2> QED
    BY <2>1 DEF PlansAreSound
<1>3. ASSUME NEW t \in Tiles, Plan(t) PROVE PlansAreSound'
  <2>1. PICK ground \in Ground[t], weighted \in BOOLEAN :
          plans' = [plans EXCEPT ![t] =
                      ResolveTilePlan(ground.shape, ground.land, ground.factor,
                                      Len(ground.footprints), ground.footprints,
                                      gate.units, weighted)]
    BY <1>3 DEF Plan
  <2> DEFINE plan == ResolveTilePlan(ground.shape, ground.land, ground.factor,
                                     Len(ground.footprints), ground.footprints,
                                     gate.units, weighted)
  <2>2. gate.units = manifest.units /\ manifest.units \in Nat \ {0} /\ UNCHANGED manifest
    BY <1>3 DEF Plan, WidthIsKept, Driven
  <2>3. /\ ground.shape \in (Nat \ {0}) \X (Nat \ {0}) /\ ground.factor \in Nat \ {0}
        /\ ground.footprints \in Seq(Int \X Int \X Int \X Int) /\ ground.footprints # <<>>
    BY LaunchAssumption
  <2>4. WellPlanned(plan, manifest.units)
    <3>1. gate.units \in Nat \ {0}
      BY <2>2
    <3>2. WellPlanned(plan, gate.units)
      BY <2>3, <3>1, PlanIsSound
    <3> QED
      BY <2>2, <3>2
  <2> HIDE DEF plan
  <2>5. plans' = [plans EXCEPT ![t] = plan] /\ DOMAIN plans = Tiles
    BY <2>1 DEF plan, WidthIsKept
  <2>6. SUFFICES ASSUME NEW s \in Tiles, plans'[s] # None
                 PROVE  WellPlanned(plans'[s], manifest.units)
    BY <2>2 DEF PlansAreSound
  <2>7. CASE s = t
    BY <2>4, <2>5, <2>7
  <2>8. CASE s # t
    BY <2>5, <2>6, <2>8 DEF PlansAreSound
  <2> QED
    BY <2>7, <2>8
<1> QED
  BY <1>1, <1>2, <1>3 DEF Next, ShardFleet, PreflightWriters, PreflightBalance, AskAgain,
     Die, Resume, Flush, vars

\* Whatever the size of the grids, the number of scenes, the footprints and the
\* widths, and whatever shell resumes the run: every pixel is in one block,
\* every block and batch has one unit of the fleet that was launched, every
\* scene one batch, every row one band.  (shards.py, shard_tasks.py,
\* fleet_driver.read_manifest)
THEOREM EveryPieceIsOwned == Spec => []EveryPieceHasAnOwner
<1>1. Init => WidthIsKept /\ PlansAreSound
  BY DEF Init, WidthIsKept, Driven, PlansAreSound
<1>2. WidthIsKept /\ PlansAreSound /\ [Next]_vars => (WidthIsKept /\ PlansAreSound)'
  BY WidthStays, PlansStaySound
<1>3. WidthIsKept /\ PlansAreSound => EveryPieceHasAnOwner
  BY DEF WidthIsKept, PlansAreSound, WellPlanned, EveryPieceHasAnOwner
<1> QED
  BY <1>1, <1>2, <1>3, PTL DEF Spec

\* Whatever the blocks and their weights: among every contiguous split into the
\* groups the plan asks for, none has a lighter heaviest group than the one the
\* readers use.  (shards.balance_by_weight)
THEOREM SplitsAreLightest == Spec => []LightestSplit
<1>1. Init => WidthIsKept /\ PlansAreSound
  BY DEF Init, WidthIsKept, Driven, PlansAreSound
<1>2. WidthIsKept /\ PlansAreSound /\ [Next]_vars => (WidthIsKept /\ PlansAreSound)'
  BY WidthStays, PlansStaySound
<1>3. WidthIsKept /\ PlansAreSound => LightestSplit
  BY DEF WidthIsKept, PlansAreSound, WellPlanned, LightestSplit
<1> QED
  BY <1>1, <1>2, <1>3, PTL DEF Spec

-----------------------------------------------------------------------------
(* The queue of a wave.                                                    *)

\* What m workers have taken when k units are gone: no more in all than the
\* units can cost, and none more than the rounds of the queue and a tail.
Loads(m, k, bound, work, rounds) ==
    {load \in [1 .. m -> 0 .. bound] :
       /\ Total(1 .. m, bound, load) <= k * work
       /\ \A a \in 1 .. m : load[a] <= (rounds + 1) * work}

\* The worker that is free first takes a unit and stays within the rounds.
LEMMA TakeFits ==
    ASSUME NEW m \in Nat \ {0}, NEW work \in Nat, NEW rounds \in Nat, NEW n \in Nat,
           n <= rounds * m, NEW k \in 1 .. n,
           NEW load \in Loads(m, k - 1, (rounds + 1) * work, work, rounds), NEW ticks \in 0 .. work
    PROVE  Take(load, ticks) \in Loads(m, k, (rounds + 1) * work, work, rounds)
<1> DEFINE bound == (rounds + 1) * work
           free == CHOOSE a \in DOMAIN load : \A b \in DOMAIN load : load[a] <= load[b]
           after == [load EXCEPT ![free] = @ + ticks]
<1>1. Take(load, ticks) = after
  BY DEF Take
<1>2. bound \in Nat /\ bound = rounds * work + work /\ rounds * work \in Nat
  OBVIOUS
<1>3. /\ load \in [1 .. m -> 0 .. bound]
      /\ Total(1 .. m, bound, load) <= (k - 1) * work
  BY DEF Loads
<1> HIDE DEF bound
<1>4. free \in 1 .. m /\ \A b \in 1 .. m : load[free] <= load[b]
  <2> DEFINE S == {load[a] : a \in 1 .. m}
  <2>1. S \in SUBSET Nat /\ load[1] \in S
    BY <1>2, <1>3
  <2>2. PICK x \in S : \A y \in S : x <= y
    BY <2>1, LeastOf
  <2>3. PICK a \in 1 .. m : x = load[a]
    BY <2>2
  <2>4. \A b \in 1 .. m : load[b] \in S
    OBVIOUS
  <2> HIDE DEF S
  <2>5. \A b \in 1 .. m : load[a] <= load[b]
    BY <2>2, <2>3, <2>4
  <2>6. DOMAIN load = 1 .. m
    BY <1>3
  <2> QED
    BY <2>5, <2>6
<1> HIDE DEF free
<1> DEFINE low == load[free]
<1>5. low \in 0 .. bound /\ low \in Nat
  BY <1>2, <1>3, <1>4
<1>6. low <= rounds * work
  <2> SUFFICES ASSUME low > rounds * work PROVE FALSE
    BY <1>2, <1>5
  <2>1. m * low <= Total(1 .. m, bound, load)
    <3>1. \A a \in 1 .. m : load[a] \in Nat /\ low <= load[a]
      BY <1>2, <1>3, <1>4
    <3>2. m \in Nat
      OBVIOUS
    <3> HIDE DEF low
    <3> QED
      BY <1>2, <1>5, <3>1, <3>2, TotalAtLeast
  <2>2. Total(1 .. m, bound, load) \in Nat
    <3>1. IsFiniteSet(1 .. m)
      BY FS_Interval
    <3> QED
      BY <1>2, <3>1, TotalType
  <2>3. (k - 1) * work <= n * work
    BY TimesMonotone
  <2>4. n * work <= (rounds * m) * work
    BY TimesMonotone
  <2>5. (rounds * work) * m < low * m
    <3> DEFINE r == rounds * work
    <3>1. r \in Int /\ low \in Int /\ m \in Nat /\ m > 0 /\ r < low
      BY <1>2, <1>5
    <3> HIDE DEF r, low
    <3>2. r * m < low * m
      BY <3>1, TimesMonotone
    <3> QED
      BY <3>2 DEF r
  <2>6. (rounds * m) * work = (rounds * work) * m /\ low * m = m * low
    BY <1>5
  <2>7. /\ (k - 1) * work \in Int /\ n * work \in Int /\ (rounds * m) * work \in Int
        /\ m * low \in Int
    BY <1>5
  <2> DEFINE a1 == (k - 1) * work
             a2 == n * work
             a3 == (rounds * m) * work
             a4 == m * low
             sum == Total(1 .. m, bound, load)
  <2>8. a4 <= sum /\ sum <= a1 /\ a1 <= a2 /\ a2 <= a3 /\ a3 < a4
    BY <1>3, <2>1, <2>3, <2>4, <2>5, <2>6
  <2>9. a1 \in Int /\ a2 \in Int /\ a3 \in Int /\ a4 \in Int /\ sum \in Int
    BY <2>2, <2>7
  <2> HIDE DEF a1, a2, a3, a4, sum
  <2> QED
    BY <2>8, <2>9
<1>7. after \in [1 .. m -> 0 .. bound]
  <2>1. low + ticks \in 0 .. bound
    BY <1>2, <1>5, <1>6
  <2> QED
    BY <1>3, <1>4, <2>1
<1>8. Total(1 .. m, bound, after) <= k * work
  <2>1. IsFiniteSet(1 .. m)
    BY FS_Interval
  <2>2. low + ticks <= bound /\ ticks \in Nat
    BY <1>2, <1>5, <1>6
  <2>3. /\ load[free] = low /\ after[free] = low + ticks
        /\ \A b \in 1 .. m : load[b] \in Nat /\ (b # free => after[b] = load[b])
    BY <1>2, <1>3, <1>4
  <2>a. Total(1 .. m, bound, load) \in Nat
    BY <1>2, <2>1, TotalType
  <2>b. low \in Nat /\ bound \in Nat /\ free \in 1 .. m
    BY <1>2, <1>4, <1>5
  <2> HIDE DEF low, after
  <2>4. Total(1 .. m, bound, after) = Total(1 .. m, bound, load) + ticks
    <3> DEFINE A == 1 .. m
    <3>1. /\ IsFiniteSet(A) /\ free \in A
          /\ \A b \in A : load[b] \in Nat /\ (b # free => after[b] = load[b])
      BY <2>1, <2>b, <2>3
    <3> HIDE DEF A
    <3>a. after[free] = load[free] + ticks /\ load[free] + ticks <= bound
      BY <2>2, <2>3
    <3>b. Widens(A, bound, load, after, free, ticks)
      BY <2>2, <3>1, <3>a DEF Widens
    <3>2. Total(A, bound, after) = Total(A, bound, load) + ticks
      BY <2>b, <3>1, <3>b, TotalGrows
    <3> QED
      BY <3>2 DEF A
  <2>5. k * work = (k - 1) * work + work /\ (k - 1) * work \in Int
    OBVIOUS
  <2> QED
    BY <1>3, <2>a, <2>4, <2>5
<1> QED
  BY <1>1, <1>7, <1>8, <1>2, SMTT(20) DEF Loads, bound

\* Whatever the units of a wave take, when none takes more than work, all are
\* done after the rounds of the queue and a tail.
LEMMA QueueFits ==
    ASSUME NEW w, NEW known, NEW n \in Nat, Len(w.units) = n, DOMAIN w.units = 1 .. n,
           NEW m \in Nat \ {0}, w.workers = m,
           NEW work \in Nat, NEW rounds \in Nat, n <= rounds * m,
           \A k \in 1 .. n : UnitTicks(known[w.units[k][1]], w.stage, w.units[k][2]) \in 0 .. work
    PROVE  Makespan(w, known) \in 0 .. ((rounds + 1) * work)
<1> DEFINE bound == (rounds + 1) * work
           base == [a \in 1 .. w.workers |-> 0]
           ticks == Tabulated([unit \in ToSet(w.units) |->
                                 UnitTicks(known[unit[1]], w.stage, unit[2])])
           cost(k) == ticks[w.units[k]]
           Body(loads) == [k \in 0 .. Len(w.units) |->
                             IF k = 0 THEN base ELSE Take(loads[k - 1], cost(k))]
           S == [k \in 0 .. n |-> Loads(m, k, bound, work, rounds)]
           T == UNION {S[k] : k \in 0 .. n}
           step == [p \in (1 .. n) \X T |-> Take(p[2], cost(p[1]))]
<1>a. \A k \in 1 .. n : cost(k) \in 0 .. work
  <2>1. \A k \in 1 .. n : w.units[k] \in ToSet(w.units)
    BY DEF ToSet
  <2>2. ticks = [unit \in ToSet(w.units) |-> UnitTicks(known[unit[1]], w.stage, unit[2])]
    BY TabulatedIs
  <2> HIDE DEF ticks
  <2> QED
    BY <2>1, <2>2
<1>b. Makespan(w, known)
        = LET loads == CHOOSE g : g = Body(g) IN Max(Range(loads[Len(w.units)]))
  BY DEF Makespan
<1> HIDE DEF ticks
<1>0. bound \in Nat
  OBVIOUS
<1>1. ASSUME NEW k \in 1 .. n, NEW v \in S[k - 1]
      PROVE  step[<<k, v>>] = Take(v, cost(k)) /\ Take(v, cost(k)) \in S[k]
  <2>1. k - 1 \in 0 .. n /\ k \in 0 .. n
    OBVIOUS
  <2>2. v \in T
    BY <2>1
  <2>3. S[k] = Loads(m, k, bound, work, rounds) /\ S[k - 1] = Loads(m, k - 1, bound, work, rounds)
    BY <2>1
  <2> HIDE DEF S, T
  <2>4. step[<<k, v>>] = Take(v, cost(k))
    BY <2>2
  <2>5. cost(k) \in 0 .. work
    BY <1>a
  <2> HIDE DEF cost
  <2>6. Take(v, cost(k)) \in Loads(m, k, bound, work, rounds)
    <3> DEFINE c == cost(k)
    <3>1. c \in 0 .. work /\ v \in Loads(m, k - 1, bound, work, rounds)
      BY <2>3, <2>5
    <3> HIDE DEF c
    <3>2. Take(v, c) \in Loads(m, k, bound, work, rounds)
      BY <3>1, TakeFits
    <3> QED
      BY <3>2 DEF c
  <2> QED
    BY <2>3, <2>4, <2>6
<1>2. base \in S[0]
  <2>1. base \in [1 .. m -> 0 .. bound]
    BY <1>0
  <2>2. Total(1 .. m, bound, base) = 0
    BY <1>0, TotalEmpty
  <2>3. 0 <= 0 * work /\ \A a \in 1 .. m : base[a] <= bound
    BY <1>0
  <2> HIDE DEF base
  <2>4. base \in Loads(m, 0, bound, work, rounds)
    BY <2>1, <2>2, <2>3 DEF Loads
  <2> QED
    BY <2>4
<1>3. KeepsTo(S, step, n)
  <2> HIDE DEF S, T, step
  <2> QED
    BY <1>1 DEF KeepsTo
<1>4. \A k \in 0 .. n : S[k] = Loads(m, k, bound, work, rounds)
  OBVIOUS
<1> HIDE DEF S, T, step, base, cost
<1>5. PICK f : Follows(f, base, step, S, n)
  BY <1>2, <1>3, Recursion
<1>6. f = Body(f)
  <2>1. f = [k \in 0 .. n |-> f[k]]
    BY <1>5 DEF Follows
  <2>2. ASSUME NEW k \in 0 .. n PROVE f[k] = IF k = 0 THEN base ELSE Take(f[k - 1], cost(k))
    <3>1. CASE k = 0
      BY <1>5, <3>1 DEF Follows
    <3>2. CASE k # 0
      <4>1. k \in 1 .. n /\ k - 1 \in 0 .. n
        BY <3>2
      <4>2. f[k] = step[<<k, f[k - 1]>>] /\ f[k - 1] \in S[k - 1]
        BY <1>5, <4>1 DEF Follows
      <4> QED
        BY <1>1, <3>2, <4>1, <4>2
    <3> QED
      BY <3>1, <3>2
  <2>3. [k \in 0 .. n |-> f[k]]
          = [k \in 0 .. n |-> IF k = 0 THEN base ELSE Take(f[k - 1], cost(k))]
    BY <2>2
  <2> QED
    BY <2>1, <2>3
<1> DEFINE loads == CHOOSE g : g = Body(g)
<1> SUFFICES Max(Range(loads[n])) \in 0 .. bound
  BY <1>b
<1> HIDE DEF Body
<1>7. loads = Body(loads)
  BY <1>6
<1> HIDE DEF loads
<1>8. \A k \in 0 .. n : loads[k] = IF k = 0 THEN base ELSE Take(loads[k - 1], cost(k))
  <2>1. loads = [k \in 0 .. n |-> IF k = 0 THEN base ELSE Take(loads[k - 1], cost(k))]
    BY <1>7 DEF Body
  <2> QED
    BY <2>1
<1> DEFINE Fits == {k \in 0 .. n : loads[k] \in S[k]}
<1>9. \A k \in 0 .. n : k \in Fits
  <2>1. 0 \in Fits
    BY <1>2, <1>8
  <2>2. ASSUME NEW k \in 1 .. n, k - 1 \in Fits PROVE k \in Fits
    <3>1. k \in 0 .. n /\ k # 0
      OBVIOUS
    <3> QED
      BY <1>1, <1>8, <2>2, <3>1
  <2> HIDE DEF Fits
  <2> QED
    BY <2>1, <2>2, UpTo
<1>10. loads[n] \in [1 .. m -> 0 .. bound]
  BY <1>4, <1>9 DEF Loads
<1> DEFINE taken == Range(loads[n])
<1>11. taken \in SUBSET (0 .. bound) /\ taken # {}
  <2> DEFINE last == loads[n]
  <2>1. last \in [1 .. m -> 0 .. bound]
    BY <1>10
  <2> HIDE DEF last
  <2>2. Range(last) = {last[a] : a \in 1 .. m}
    BY <2>1 DEF Range
  <2>3. last[1] \in Range(last) /\ Range(last) \subseteq 0 .. bound
    BY <2>1, <2>2
  <2> QED
    BY <2>3 DEF last
<1> HIDE DEF taken, bound
<1>12. Max(taken) \in taken
  BY <1>0, <1>11, MaxOf
<1> QED
  BY <1>11, <1>12 DEF taken

-----------------------------------------------------------------------------
(* What a unit takes, and what its stage is given.                         *)

\* Division keeps order.
LEMMA DivideMonotone ==
    ASSUME NEW a \in Nat, NEW b \in Nat, NEW d \in Nat \ {0}, a <= b
    PROVE  a \div d \in Nat /\ a \div d <= b \div d
<1> DEFINE q == a \div d
           r == b \div d
<1>1. q \in Nat /\ q * d <= a
  <2>1. q \in Nat /\ d * q <= a /\ d * q = q * d
    OBVIOUS
  <2> QED
    BY <2>1
<1>2. r \in Nat /\ b < r * d + d
  <2>1. r \in Nat /\ b = d * r + (b % d) /\ (b % d) \in 0 .. (d - 1) /\ d * r = r * d
    OBVIOUS
  <2> QED
    BY <2>1
<1> HIDE DEF q, r
<1>3. ASSUME q > r PROVE FALSE
  <2>1. (r + 1) * d <= q * d
    BY <1>1, <1>2, <1>3, TimesMonotone
  <2>2. (r + 1) * d = r * d + d /\ r * d \in Nat /\ q * d \in Nat
    BY <1>1, <1>2
  <2> QED
    BY <1>1, <1>2, <2>1, <2>2
<1> QED
  BY <1>1, <1>2, <1>3 DEF q, r

\* More of something costs no less.
LEMMA PriceMonotone ==
    ASSUME NEW p \in Nat, NEW x \in Nat, NEW y \in Nat, x <= y, NEW d \in Nat \ {0}
    PROVE  /\ (p * x) \div d \in Nat /\ (p * y) \div d \in Nat
           /\ (p * x) \div d <= (p * y) \div d
<1>1. x * p <= y * p /\ p * x = x * p /\ p * y = y * p /\ p * x \in Nat /\ p * y \in Nat
  BY TimesMonotone
<1> DEFINE a == p * x
           b == p * y
<1>2. a \in Nat /\ b \in Nat /\ a <= b
  BY <1>1
<1> HIDE DEF a, b
<1>3. a \div d \in Nat /\ b \div d \in Nat /\ a \div d <= b \div d
  BY <1>2, DivideMonotone
<1> QED
  BY <1>3 DEF a, b

\* The widths of a cut are numbers, and a run is no wider than the widest.
LEMMA CutWidths ==
    ASSUME NEW n \in Nat \ {0}, NEW count \in Nat, NEW ends, IsCut(ends, n, count)
    PROVE  /\ Widths(Ranges(ends)) \in SUBSET (0 .. count)
           /\ \A k \in 1 .. n : Width(Ranges(ends)[k]) \in Widths(Ranges(ends))
           /\ Widths(Ranges(ends)) # {}
<1> DEFINE list == Ranges(ends)
<1>1. DOMAIN list = 1 .. n /\ \A k \in 1 .. n : list[k] = <<ends[k - 1], ends[k]>>
  BY RunsAreListed DEF ListsRuns
<1> HIDE DEF list
<1>2. ASSUME NEW k \in 1 .. n PROVE Width(list[k]) \in 0 .. count
  <2>1. k - 1 \in 0 .. n /\ k \in 0 .. n
    OBVIOUS
  <2>2. ends[k - 1] \in 0 .. count /\ ends[k] \in 0 .. count /\ ends[k - 1] <= ends[k]
    BY <2>1 DEF IsCut
  <2>3. Width(list[k]) = ends[k] - ends[k - 1]
    BY <1>1 DEF Width
  <2> QED
    BY <2>2, <2>3
<1>3. Widths(list) = {Width(list[k]) : k \in 1 .. n}
  BY <1>1 DEF Widths
<1>4. Width(list[1]) \in Widths(list)
  BY <1>3
<1> QED
  BY <1>2, <1>3, <1>4 DEF list

\* Shares that are numbers, and a share of phase B that is no more scenes than
\* the widest.
SharesFit(plan) ==
    /\ Max(Widths(ClimatologyGroups(plan))) \in 0 .. WidestBlockShare(plan)
    /\ WidestBlockShare(plan) \in Nat
    /\ WidestBandShare(plan) \in Nat
    /\ \A i \in 1 .. plan.band_shards : Width(plan.bands[i]) \in 0 .. WidestBandShare(plan)

\* The slowest of the blocks' groups and every band are in their budgets.
LEMMA GroupsFit == ASSUME NEW plan, InPieces(plan) PROVE SharesFit(plan)
<1> DEFINE groups == ClimatologyGroups(plan)
           land == BalanceByLand(plan.has_land, plan.ref_shards)
           n == plan.ref_shards
           blocks == Len(plan.blocks)
           A == Widths(groups)
           B == Widths(land)
           both == A \cup B
<1>1. n \in Nat \ {0} /\ blocks \in Nat
  BY DEF InPieces
<1>2. A \in SUBSET (0 .. blocks) /\ A # {}
  <2>1. PICK ends : groups = Ranges(ends) /\ IsCut(ends, n, blocks)
    BY DEF InPieces
  <2> HIDE DEF groups, n, blocks
  <2> QED
    BY <1>1, <2>1, CutWidths
<1>3. B \in SUBSET (0 .. blocks)
  <2>1. PICK ends : land = Ranges(ends) /\ IsCut(ends, n, blocks)
    BY DEF InPieces
  <2> HIDE DEF land, n, blocks
  <2> QED
    BY <1>1, <2>1, CutWidths
<1>4. WidestBlockShare(plan) = Max(both)
  BY DEF WidestBlockShare
<1> HIDE DEF groups, land, n, blocks
<1>5. Max(A) \in A /\ Max(A) \in Nat
  <2> HIDE DEF A
  <2> QED
    BY <1>1, <1>2, MaxIs
<1>6. Max(both) \in Nat /\ \A y \in both : y <= Max(both)
  <2>1. both \in SUBSET (0 .. blocks) /\ both # {}
    BY <1>2, <1>3
  <2> HIDE DEF both
  <2> QED
    BY <1>1, <2>1, MaxIs
<1>7. Max(A) \in 0 .. Max(both)
  BY <1>5, <1>6
<1> DEFINE bands == plan.bands
           k == plan.band_shards
           height == plan.native[1]
           C == Widths(bands)
<1>8. PICK ends : bands = Ranges(ends) /\ IsCut(ends, k, height)
  BY DEF InPieces
<1>9. k \in Nat \ {0} /\ height \in Nat
  BY DEF InPieces
<1>10. WidestBandShare(plan) = Max(C)
  BY DEF WidestBandShare
<1> HIDE DEF bands, k, height
<1>11. C \in SUBSET (0 .. height) /\ C # {} /\ \A i \in 1 .. k : Width(bands[i]) \in C
  BY <1>8, <1>9, CutWidths
<1> HIDE DEF C
<1>12. Max(C) \in Nat /\ \A y \in C : y <= Max(C)
  BY <1>9, <1>11, MaxIs
<1>13. ASSUME NEW i \in 1 .. k PROVE Width(bands[i]) \in 0 .. Max(C)
  <2> DEFINE x == Width(bands[i])
             top == Max(C)
  <2>1. x \in C /\ x <= top /\ top \in Nat
    BY <1>11, <1>12
  <2>2. x \in 0 .. height
    BY <1>11, <2>1
  <2> HIDE DEF x, top
  <2>3. x \in 0 .. top
    BY <1>9, <2>1, <2>2
  <2> QED
    BY <2>3 DEF x, top
<1> QED
  BY <1>4, <1>6, <1>7, <1>10, <1>12, <1>13 DEF SharesFit, A, groups, bands, k

\* The scenes a unit of phase B reads.
ScenesOf(plan, i) == Cardinality(UNION {Indexes(plan.batches[b + 1]) : b \in OffsetsGroup(plan, i)})

\* No unit of phase B reads more scenes than the widest share.
LEMMA ScenesFit ==
    ASSUME NEW plan, InPieces(plan)
    PROVE  /\ WidestSceneShare(plan) \in Nat
           /\ \A i \in 0 .. (plan.scene_shards - 1) :
                 ScenesOf(plan, i) \in 0 .. WidestSceneShare(plan)
<1> DEFINE m == Len(plan.batches)
           n == plan.scene_shards
           scenes == plan.scenes
           batches == plan.batches
           runs == Partition(m, n)
           width(g) == Width(<<batches[g[1] + 1][1], batches[g[2]][2]>>)
           S == {width(g) : g \in ToSet(runs)}
<1>1. m \in Nat \ {0} /\ n \in Nat \ {0} /\ n <= m /\ scenes \in Nat
  BY DEF InPieces
<1>2. PICK starts : batches = Ranges(starts) /\ IsCut(starts, m, scenes)
  BY DEF InPieces
<1>3. WidestSceneShare(plan) = Max(S)
  BY DEF WidestSceneShare
<1>4. \A i : OffsetsGroup(plan, i) = IF i < n THEN Indexes(runs[i + 1]) ELSE {}
  BY DEF OffsetsGroup
<1>5. \A i : ScenesOf(plan, i) = Cardinality(UNION {Indexes(batches[b + 1]) : b \in OffsetsGroup(plan, i)})
  BY DEF ScenesOf
<1> HIDE DEF m, n, scenes, batches
<1>6. PICK cuts : runs = Ranges(cuts) /\ IsCut(cuts, n, m) /\ Strict(cuts, n)
  BY <1>1, PartitionIsCut
<1>7. DOMAIN runs = 1 .. n /\ \A k \in 1 .. n : runs[k] = <<cuts[k - 1], cuts[k]>>
  BY <1>1, <1>6, RunsAreListed DEF ListsRuns
<1>8. DOMAIN batches = 1 .. m /\ \A k \in 1 .. m : batches[k] = <<starts[k - 1], starts[k]>>
  BY <1>1, <1>2, RunsAreListed DEF ListsRuns
<1> HIDE DEF runs
<1>9. \A k \in 0 .. m : starts[k] \in 0 .. scenes
  BY <1>2 DEF IsCut
<1>10. ASSUME NEW k \in 1 .. n
       PROVE  /\ cuts[k - 1] \in 0 .. m /\ cuts[k] \in 1 .. m /\ cuts[k - 1] < cuts[k]
              /\ starts[cuts[k - 1]] \in 0 .. scenes /\ starts[cuts[k]] \in 0 .. scenes
              /\ starts[cuts[k - 1]] <= starts[cuts[k]]
              /\ width(runs[k]) = starts[cuts[k]] - starts[cuts[k - 1]]
  <2> DEFINE a == cuts[k - 1]
             b == cuts[k]
  <2>1. k - 1 \in 0 .. n /\ k \in 0 .. n
    BY <1>1
  <2>2. a \in 0 .. m /\ b \in 0 .. m /\ a < b
    BY <1>6, <2>1 DEF IsCut, Strict
  <2>3. runs[k] = <<a, b>>
    BY <1>7
  <2> HIDE DEF a, b
  <2>4. b \in 1 .. m /\ a + 1 \in 1 .. m /\ a <= b /\ (a + 1) - 1 = a
    BY <1>1, <2>2
  <2>5. starts[a] <= starts[b]
    <3>1. m \in Nat
      BY <1>1
    <3> QED
      BY <1>1, <1>2, <2>2, <2>4, <3>1, CutMonotone
  <2>6. width(<<a, b>>) = starts[b] - starts[a]
    <3>1. batches[a + 1] = <<starts[a], starts[a + 1]>> /\ batches[b] = <<starts[b - 1], starts[b]>>
      BY <1>8, <2>4
    <3> QED
      BY <3>1 DEF Width
  <2> HIDE DEF width
  <2> QED
    BY <1>9, <2>2, <2>3, <2>4, <2>5, <2>6 DEF a, b
<1> HIDE DEF width
<1>11. S \in SUBSET (0 .. scenes) /\ \A k \in 1 .. n : width(runs[k]) \in S
  <2>1. ToSet(runs) = {runs[k] : k \in 1 .. n}
    BY <1>7 DEF ToSet
  <2>2. S = {width(runs[k]) : k \in 1 .. n}
    BY <2>1
  <2>3. \A k \in 1 .. n : width(runs[k]) \in 0 .. scenes
    BY <1>1, <1>10
  <2> HIDE DEF S
  <2> QED
    BY <2>2, <2>3
<1> HIDE DEF S
<1>12. Max(S) \in Nat /\ \A y \in S : y <= Max(S)
  <2>1. width(runs[1]) \in S
    BY <1>1, <1>11
  <2> QED
    BY <1>1, <1>11, <2>1, MaxIs
<1>13. ASSUME NEW i \in 0 .. (n - 1) PROVE ScenesOf(plan, i) \in 0 .. Max(S)
  <2> DEFINE a == cuts[i]
             b == cuts[i + 1]
             read == UNION {Indexes(batches[j + 1]) : j \in OffsetsGroup(plan, i)}
             span == starts[a] .. (starts[b] - 1)
  <2>1. i + 1 \in 1 .. n /\ (i + 1) - 1 = i /\ i < n
    BY <1>1
  <2>2. /\ a \in 0 .. m /\ b \in 1 .. m /\ a < b /\ starts[a] \in 0 .. scenes
        /\ starts[b] \in 0 .. scenes /\ starts[a] <= starts[b]
        /\ starts[b] - starts[a] = width(runs[i + 1])
    BY <1>10, <2>1
  <2>3. OffsetsGroup(plan, i) = a .. (b - 1)
    BY <1>4, <1>7, <2>1 DEF Indexes
  <2> HIDE DEF a, b
  <2>4. ASSUME NEW j \in a .. (b - 1) PROVE Indexes(batches[j + 1]) \subseteq span
    <3>1. /\ j \in 0 .. m /\ j + 1 \in 0 .. m /\ j + 1 \in 1 .. m /\ (j + 1) - 1 = j
          /\ a <= j /\ j + 1 <= b /\ b \in 0 .. m
      BY <1>1, <2>2
    <3>2. batches[j + 1] = <<starts[j], starts[j + 1]>>
      BY <1>8, <3>1
    <3>3. starts[a] <= starts[j]
      <4>1. m \in Nat
        BY <1>1
      <4> QED
        BY <1>1, <1>2, <2>2, <3>1, <4>1, CutMonotone
    <3>4. starts[j + 1] <= starts[b]
      <4>1. m \in Nat
        BY <1>1
      <4> DEFINE c == j + 1
      <4>2. c \in 0 .. m /\ c <= b
        BY <3>1
      <4> HIDE DEF c
      <4>3. starts[c] <= starts[b]
        BY <1>1, <1>2, <3>1, <4>1, <4>2, CutMonotone
      <4> QED
        BY <4>3 DEF c
    <3>5. starts[j] \in 0 .. scenes /\ starts[j + 1] \in 0 .. scenes
      BY <1>9, <3>1
    <3>6. Indexes(batches[j + 1]) = starts[j] .. (starts[j + 1] - 1)
      BY <3>2 DEF Indexes
    <3> QED
      BY <2>2, <3>3, <3>4, <3>5, <3>6, SMTT(20)
  <2>5. read \subseteq span
    BY <2>3, <2>4
  <2>6. IsFiniteSet(span) /\ Cardinality(span) = starts[b] - starts[a]
    <3> DEFINE lo == starts[a]
               hi == starts[b] - 1
    <3>1. lo \in Int /\ hi \in Int /\ lo <= hi + 1
      BY <2>2
    <3>2. hi + 1 - lo = starts[b] - starts[a]
      BY <2>2
    <3> HIDE DEF lo, hi
    <3>3. IsFiniteSet(lo .. hi) /\ Cardinality(lo .. hi) = IF lo > hi THEN 0 ELSE hi - lo + 1
      BY <3>1, FS_Interval
    <3>4. Cardinality(lo .. hi) = hi + 1 - lo
      BY <3>1, <3>3
    <3> QED
      BY <3>2, <3>3, <3>4 DEF lo, hi
  <2> HIDE DEF read, span
  <2>7. IsFiniteSet(read) /\ Cardinality(read) <= Cardinality(span) /\ Cardinality(read) \in Nat
    BY <2>5, <2>6, FS_Subset, FS_CardinalityType
  <2>8. width(runs[i + 1]) <= Max(S) /\ width(runs[i + 1]) \in 0 .. scenes
    BY <1>1, <1>11, <1>12, <2>1
  <2>9. ScenesOf(plan, i) = Cardinality(read)
    BY <1>5 DEF read
  <2> QED
    BY <1>1, <1>12, <2>2, <2>6, <2>7, <2>8, <2>9
<1> QED
  BY <1>3, <1>12, <1>13 DEF n

\* Every unit of the stage takes no more than what its stage is given.
Fits(plan, stage) ==
    /\ StageBudget(stage, plan).boot = VmBoot /\ StageBudget(stage, plan).work \in Nat
    /\ ArtifactsOf(stage, plan) \in Nat
    /\ \A i \in 0 .. (ArtifactsOf(stage, plan) - 1) :
          UnitTicks(plan, stage, i) \in 0 .. StageBudget(stage, plan).work

\* A budget names the work it is made of.
LEMMA BudgetIs == ASSUME NEW work PROVE Budget(work).boot = VmBoot /\ Budget(work).work = work
BY DEF Budget

\* The budgets are enough for any unit.
LEMMA UnitsFit ==
    ASSUME NEW plan, InPieces(plan), NEW stage \in {"offsets", "composite", "export"}
    PROVE  Fits(plan, stage)
<1> DEFINE coarse == CoarsePixels(plan) * OffsetsPace
           native == NativePixels(plan) * CompositePace
           scenes == plan.scenes
           blocks == Len(plan.blocks)
           rows == plan.native[1]
           share == WidestSceneShare(plan)
           block == WidestBlockShare(plan)
           slowest == Max(Widths(ClimatologyGroups(plan)))
           band == WidestBandShare(plan)
<1>1. Resolve \in Nat /\ OffsetsPace \in Nat /\ CompositePace \in Nat /\ ExportPace \in Nat
  BY BudgetsArePositive
<1>2. /\ plan.coarse[1] \in Nat /\ plan.coarse[2] \in Nat /\ plan.native[1] \in Nat \ {0}
      /\ plan.native[2] \in Nat /\ scenes \in Nat \ {0} /\ blocks \in Nat \ {0}
      /\ rows \in Nat \ {0}
      /\ plan.scene_shards \in Nat /\ plan.band_shards \in Nat
  BY DEF InPieces
<1>3. coarse \in Nat /\ native \in Nat
  <2>1. \A a \in Nat, b \in Nat, c \in Nat, d \in Nat : a * b * c * d \in Nat
    OBVIOUS
  <2>2. plan.scenes \in Nat /\ plan.native[1] \in Nat
    BY <1>2
  <2>3. coarse = plan.coarse[1] * plan.coarse[2] * plan.scenes * OffsetsPace
    BY DEF CoarsePixels
  <2>4. native = plan.native[1] * plan.native[2] * plan.scenes * CompositePace
    BY DEF NativePixels
  <2> HIDE DEF coarse, native, scenes, rows
  <2>5. coarse \in Nat
    BY <1>1, <1>2, <2>1, <2>2, <2>3
  <2>6. native \in Nat
    BY <1>1, <1>2, <2>1, <2>2, <2>4
  <2> QED
    BY <2>5, <2>6
<1>4. share \in Nat /\ \A i \in 0 .. (plan.scene_shards - 1) : ScenesOf(plan, i) \in 0 .. share
  BY ScenesFit
<1>5. /\ slowest \in 0 .. block /\ block \in Nat /\ band \in Nat
      /\ \A i \in 1 .. plan.band_shards : Width(plan.bands[i]) \in 0 .. band
  BY GroupsFit DEF SharesFit
<1>6. \A x : /\ ClimatologyTicks(plan, x) = (coarse * x) \div blocks
             /\ PhaseBTicks(plan, x) = (coarse * x) \div scenes
             /\ BandTicks(plan, x) = (native * x) \div rows
  BY DEF ClimatologyTicks, PhaseBTicks, BandTicks
<1> HIDE DEF coarse, native, scenes, blocks, rows, share, block, slowest, band
<1>7. \A x \in Nat, y \in Nat : x <= y =>
        /\ ClimatologyTicks(plan, x) \in 0 .. ClimatologyTicks(plan, y)
        /\ PhaseBTicks(plan, x) \in 0 .. PhaseBTicks(plan, y)
        /\ BandTicks(plan, x) \in 0 .. BandTicks(plan, y)
        /\ ClimatologyTicks(plan, y) \in Nat /\ PhaseBTicks(plan, y) \in Nat
        /\ BandTicks(plan, y) \in Nat
  <2> SUFFICES ASSUME NEW x \in Nat, NEW y \in Nat, x <= y
               PROVE  /\ ClimatologyTicks(plan, x) \in 0 .. ClimatologyTicks(plan, y)
                      /\ PhaseBTicks(plan, x) \in 0 .. PhaseBTicks(plan, y)
                      /\ BandTicks(plan, x) \in 0 .. BandTicks(plan, y)
                      /\ ClimatologyTicks(plan, y) \in Nat /\ PhaseBTicks(plan, y) \in Nat
                      /\ BandTicks(plan, y) \in Nat
    OBVIOUS
  <2>1. ASSUME NEW p \in Nat, NEW d \in Nat \ {0}
        PROVE  (p * y) \div d \in Nat /\ (p * x) \div d \in 0 .. ((p * y) \div d)
    <3>1. /\ (p * x) \div d \in Nat /\ (p * y) \div d \in Nat
          /\ (p * x) \div d <= (p * y) \div d
      BY PriceMonotone
    <3> QED
      BY <3>1
  <2>2. (coarse * y) \div blocks \in Nat /\ (coarse * x) \div blocks \in 0 .. ((coarse * y) \div blocks)
    BY <1>2, <1>3, <2>1
  <2>3. (coarse * y) \div scenes \in Nat /\ (coarse * x) \div scenes \in 0 .. ((coarse * y) \div scenes)
    BY <1>2, <1>3, <2>1
  <2>4. (native * y) \div rows \in Nat /\ (native * x) \div rows \in 0 .. ((native * y) \div rows)
    BY <1>2, <1>3, <2>1
  <2> QED
    BY <1>6, <2>2, <2>3, <2>4
<1>8. CASE stage = "offsets"
  <2> DEFINE climatology == ClimatologyTicks(plan, block)
             phaseB == PhaseBTicks(plan, share)
             work == Resolve + climatology + phaseB
  <2>1. StageBudget(stage, plan) = Budget(work)
    BY <1>8 DEF StageBudget, OffsetsBudget, share, block
  <2>2. ArtifactsOf(stage, plan) = plan.scene_shards
    BY <1>8 DEF ArtifactsOf
  <2>3. climatology \in Nat /\ phaseB \in Nat
    BY <1>4, <1>5, <1>7
  <2>4. ASSUME NEW i \in 0 .. (plan.scene_shards - 1)
        PROVE  UnitTicks(plan, stage, i) \in 0 .. work
    <3> DEFINE x == ScenesOf(plan, i)
    <3>1. x \in Nat /\ x <= share
      BY <1>4
    <3>2. UnitTicks(plan, stage, i)
            = Resolve + PhaseBTicks(plan, x) + ClimatologyTicks(plan, slowest)
      BY <1>8 DEF UnitTicks, ScenesOf, slowest
    <3> HIDE DEF x
    <3>3. PhaseBTicks(plan, x) \in 0 .. phaseB
      BY <1>4, <1>7, <3>1
    <3>4. ClimatologyTicks(plan, slowest) \in 0 .. climatology
      BY <1>5, <1>7
    <3> HIDE DEF climatology, phaseB
    <3> QED
      BY <1>1, <2>3, <3>2, <3>3, <3>4
  <2>5. work \in Nat
    BY <1>1, <2>3
  <2> HIDE DEF work
  <2> QED
    BY <1>2, <2>1, <2>2, <2>4, <2>5, BudgetIs DEF Fits
<1>9. CASE stage = "composite"
  <2> DEFINE phaseB == PhaseBTicks(plan, share)
             most == BandTicks(plan, band)
             work == phaseB + most
  <2>1. StageBudget(stage, plan) = Budget(work)
    BY <1>9 DEF StageBudget, CompositeBudget, share, band
  <2>2. ArtifactsOf(stage, plan) = plan.band_shards
    BY <1>9 DEF ArtifactsOf
  <2>3. phaseB \in Nat /\ most \in Nat
    BY <1>4, <1>5, <1>7
  <2>4. ASSUME NEW i \in 0 .. (plan.band_shards - 1)
        PROVE  UnitTicks(plan, stage, i) \in 0 .. work
    <3> DEFINE x == Width(plan.bands[i + 1])
    <3>1. x \in Nat /\ x <= band
      <4>1. i + 1 \in 1 .. plan.band_shards
        BY <1>2
      <4>2. x \in 0 .. band
        BY <1>5, <4>1
      <4> HIDE DEF x
      <4> QED
        BY <1>5, <4>2
    <3>2. UnitTicks(plan, stage, i) = phaseB + BandTicks(plan, x)
      BY <1>9 DEF UnitTicks, share
    <3> HIDE DEF x
    <3>3. BandTicks(plan, x) \in 0 .. most
      BY <1>5, <1>7, <3>1
    <3> HIDE DEF phaseB, most
    <3> QED
      BY <2>3, <3>2, <3>3
  <2>5. work \in Nat
    BY <2>3
  <2> HIDE DEF work
  <2> QED
    BY <1>2, <2>1, <2>2, <2>4, <2>5, BudgetIs DEF Fits
<1>10. CASE stage = "export"
  <2> DEFINE work == 3 * plan.native[1] * plan.native[2] * ExportPace
  <2>1. StageBudget(stage, plan) = Budget(work)
    BY <1>10 DEF StageBudget, ExportBudget
  <2>2. ArtifactsOf(stage, plan) = 1
    BY <1>10 DEF ArtifactsOf
  <2>3. \A i : UnitTicks(plan, stage, i) = work
    BY <1>10 DEF UnitTicks
  <2>4. work \in Nat
    BY <1>1, <1>2
  <2> HIDE DEF work
  <2> QED
    BY <2>1, <2>2, <2>3, <2>4, BudgetIs DEF Fits
<1> QED
  BY <1>8, <1>9, <1>10

-----------------------------------------------------------------------------
(* A wave.                                                                 *)

\* The units a demand may name.
UnitsOf(demand) == UNION {{t} \X (0 .. (demand[t].units - 1)) : t \in DOMAIN demand}

\* The unit list is a sequence of units the tiles demand.
LEMMA UnitsAreListed ==
    ASSUME NEW S, NEW jobs \in Seq(S), NEW demand, \A t \in DOMAIN demand : demand[t].units \in Nat
    PROVE  UnitList(jobs, demand) \in Seq(UnitsOf(demand))
<1> DEFINE n == Len(jobs)
           U == UnitsOf(demand)
           of(k) == IF jobs[k] \in DOMAIN demand
                      THEN [i \in 1 .. demand[jobs[k]].units |-> <<jobs[k], i - 1>>]
                      ELSE <<>>
           Body(list) == [k \in 0 .. n |-> IF k = 0 THEN <<>> ELSE list[k - 1] \o of(k)]
           T == [k \in 0 .. n |-> Seq(U)]
           step == [p \in (1 .. n) \X Seq(U) |-> p[2] \o of(p[1])]
<1>0. n \in Nat
  BY LenProperties
<1>1. ASSUME NEW k \in 1 .. n PROVE of(k) \in Seq(U)
  <2>1. CASE jobs[k] \in DOMAIN demand
    <3> DEFINE t == jobs[k]
               m == demand[t].units
               run == [i \in 1 .. m |-> <<t, i - 1>>]
    <3>1. m \in Nat
      BY <2>1
    <3>2. \A i \in 1 .. m : <<t, i - 1>> \in {t} \X (0 .. (m - 1))
      BY <3>1
    <3>3. {t} \X (0 .. (m - 1)) \subseteq U
      BY <2>1 DEF UnitsOf
    <3>4. of(k) = run
      BY <2>1
    <3> HIDE DEF U, m, of, t
    <3>5. run \in [1 .. m -> U]
      BY <3>2, <3>3
    <3> HIDE DEF run
    <3> QED
      BY <3>1, <3>4, <3>5, ListIsASequence
  <2>2. CASE ~(jobs[k] \in DOMAIN demand)
    <3>1. of(k) = <<>>
      BY <2>2
    <3> HIDE DEF U, of
    <3> QED
      BY <3>1, EmptySeq
  <2> QED
    BY <2>1, <2>2
<1>2. UnitList(jobs, demand) = LET list == CHOOSE g : g = Body(g) IN list[n]
  BY DEF UnitList
<1> HIDE DEF n, U, of
<1>3. ASSUME NEW k \in 1 .. n, NEW v \in Seq(U)
      PROVE  step[<<k, v>>] = v \o of(k) /\ v \o of(k) \in Seq(U)
  <2>1. step[<<k, v>>] = v \o of(k)
    OBVIOUS
  <2>2. v \o of(k) \in Seq(U)
    BY <1>1, ConcatProperties
  <2> QED
    BY <2>1, <2>2
<1>4. <<>> \in T[0] /\ \A k \in 0 .. n : T[k] = Seq(U)
  BY <1>0
<1> HIDE DEF step, T
<1>5. KeepsTo(T, step, n)
  <2>1. ASSUME NEW k \in 1 .. n, NEW v \in T[k - 1] PROVE step[<<k, v>>] \in T[k]
    <3>1. k - 1 \in 0 .. n /\ k \in 0 .. n
      BY <1>0
    <3>2. v \in Seq(U)
      BY <1>4, <3>1
    <3> QED
      BY <1>3, <1>4, <3>1, <3>2
  <2> QED
    BY <2>1 DEF KeepsTo
<1>6. PICK f : Follows(f, <<>>, step, T, n)
  BY <1>0, <1>4, <1>5, Recursion
<1>7. ASSUME NEW k \in 0 .. n PROVE f[k] = IF k = 0 THEN <<>> ELSE f[k - 1] \o of(k)
  <2>1. CASE k = 0
    BY <1>6, <2>1 DEF Follows
  <2>2. CASE k # 0
    <3>1. k \in 1 .. n /\ k - 1 \in 0 .. n
      BY <1>0, <2>2
    <3>2. f[k] = step[<<k, f[k - 1]>>] /\ f[k - 1] \in T[k - 1]
      BY <1>6, <3>1 DEF Follows
    <3>3. f[k - 1] \in Seq(U)
      BY <1>4, <3>1, <3>2
    <3> QED
      BY <1>3, <2>2, <3>1, <3>2, <3>3
  <2> QED
    BY <2>1, <2>2
<1>8. f = Body(f)
  <2>1. f = [k \in 0 .. n |-> f[k]]
    BY <1>6 DEF Follows
  <2>2. [k \in 0 .. n |-> f[k]] = [k \in 0 .. n |-> IF k = 0 THEN <<>> ELSE f[k - 1] \o of(k)]
    BY <1>7
  <2> QED
    BY <2>1, <2>2
<1> DEFINE list == CHOOSE g : g = Body(g)
<1> SUFFICES list[n] \in Seq(U)
  BY <1>2 DEF U
<1> HIDE DEF Body
<1>9. list = Body(list)
  BY <1>8
<1> HIDE DEF list
<1>10. \A k \in 0 .. n : list[k] = IF k = 0 THEN <<>> ELSE list[k - 1] \o of(k)
  <2>1. list = [k \in 0 .. n |-> IF k = 0 THEN <<>> ELSE list[k - 1] \o of(k)]
    BY <1>9 DEF Body
  <2> QED
    BY <2>1
<1> DEFINE Done == {k \in 0 .. n : list[k] \in Seq(U)}
<1>11. \A k \in 0 .. n : k \in Done
  <2>1. 0 \in Done
    <3>1. 0 \in 0 .. n
      BY <1>0
    <3>2. list[0] = <<>> /\ <<>> \in Seq(U)
      BY <1>4, <1>10, <3>1
    <3> QED
      BY <3>1, <3>2
  <2>2. ASSUME NEW k \in 1 .. n, k - 1 \in Done PROVE k \in Done
    <3>1. k \in 0 .. n /\ k # 0
      BY <1>0
    <3>2. list[k - 1] \in Seq(U) /\ list[k] = list[k - 1] \o of(k)
      BY <1>10, <2>2, <3>1
    <3> QED
      BY <1>3, <3>1, <3>2
  <2> HIDE DEF Done
  <2> QED
    BY <1>0, <2>1, <2>2, UpTo
<1>12. n \in 0 .. n
  BY <1>0
<1> QED
  BY <1>11, <1>12

\* The rounds of a queue are enough for its units.
LEMMA RoundsAreEnough ==
    ASSUME NEW n \in Nat, NEW m \in Nat \ {0}
    PROVE  QueueDepth(n, m) \in Nat /\ n <= QueueDepth(n, m) * m
<1> DEFINE a == Higher(1, n)
           b == Higher(1, m)
           c == Ceiling(a, b)
           d == Higher(1, c)
<1>1. a \in Nat \ {0} /\ n <= a /\ b = m
  BY LowerOrHigher
<1>2. QueueDepth(n, m) = d
  BY DEF QueueDepth
<1> HIDE DEF a, b
<1>3. c \in Nat \ {0} /\ c * m >= a
  BY <1>1, CeilingOf
<1> HIDE DEF c
<1>4. d = c
  BY <1>3, LowerOrHigher
<1> HIDE DEF d
<1>5. c * m \in Nat
  BY <1>3
<1> QED
  BY <1>1, <1>2, <1>3, <1>4, <1>5

\* A flushed wave, of jobs that are tiles.
WaveOf(stage, units, m, planned, deadline) ==
    [stage |-> stage, units |-> units, workers |-> m, planned |-> planned, deadline |-> deadline]

\* A wave whose units fit into work each ends before the deadline made of work.
LEMMA WaveEnds ==
    ASSUME NEW stage, NEW U, NEW units \in Seq(U), NEW m \in Nat \ {0}, NEW planned,
           NEW work \in Nat, NEW known, BarrierTimeout = NoOverride,
           \A k \in DOMAIN units : UnitTicks(known[units[k][1]], stage, units[k][2]) \in 0 .. work
    PROVE  LET deadline == WaveDeadline(VmBoot, work, Len(units), m)
               w == WaveOf(stage, units, m, planned, deadline)
           IN  Safety * (VmBoot + Makespan(w, known)) <= deadline
<1> DEFINE n == Len(units)
           rounds == QueueDepth(n, m)
           deadline == WaveDeadline(VmBoot, work, n, m)
           w == WaveOf(stage, units, m, planned, deadline)
<1>1. n \in Nat /\ DOMAIN units = 1 .. n
  BY LenProperties
<1>2. w.stage = stage /\ w.units = units /\ w.workers = m
  BY DEF WaveOf
<1>3. deadline = (VmBoot + (rounds + 1) * work) * Safety
  BY DEF WaveDeadline
<1> SUFFICES Safety * (VmBoot + Makespan(w, known)) <= deadline
  OBVIOUS
<1> HIDE DEF w, deadline
<1>4. Len(w.units) = n /\ DOMAIN w.units = 1 .. n
  BY <1>1, <1>2
<1>5. \A k \in 1 .. n : UnitTicks(known[w.units[k][1]], w.stage, w.units[k][2]) \in 0 .. work
  BY <1>1, <1>2
<1> HIDE DEF n
<1>6. rounds \in Nat /\ n <= rounds * m
  BY <1>1, RoundsAreEnough
<1> HIDE DEF rounds
<1> DEFINE span == Makespan(w, known)
           most == (rounds + 1) * work
<1>7. span \in 0 .. most
  BY <1>1, <1>2, <1>4, <1>5, <1>6, QueueFits
<1>8. most \in Nat /\ VmBoot \in Nat /\ Safety \in Nat
  BY <1>6, BudgetsArePositive
<1>9. deadline = (VmBoot + most) * Safety
  BY <1>3
<1> HIDE DEF span, most
<1> DEFINE a == VmBoot + span
           b == VmBoot + most
<1>10. a \in Int /\ b \in Int /\ a <= b
  BY <1>7, <1>8
<1> HIDE DEF a, b
<1>11. a * Safety <= b * Safety /\ Safety * a = a * Safety
  BY <1>8, <1>10, TimesMonotone
<1> QED
  BY <1>9, <1>11 DEF a, b, span

\* Only rosters are driven.
JobsAreTiles ==
    /\ gate.at \in {"identity", "credits", "passed"} => gate.jobs \in Rosters
    /\ Driven => manifest.jobs \in Rosters

\* No step drives anything else.
LEMMA JobsStay == JobsAreTiles /\ [Next]_vars => JobsAreTiles'
<1> SUFFICES ASSUME JobsAreTiles, [Next]_vars PROVE JobsAreTiles'
  OBVIOUS
<1> USE DEF JobsAreTiles, Driven
<1>1. CASE ShardFleet
  BY <1>1 DEF ShardFleet, Refused
<1>2. CASE PreflightWriters
  BY <1>2 DEF PreflightWriters, Refused
<1>3. CASE PreflightBalance
  BY <1>3 DEF PreflightBalance, Refused
<1>4. CASE AskAgain
  BY <1>4 DEF AskAgain
<1>5. CASE WriteManifest
  BY <1>5 DEF WriteManifest
<1>6. CASE Die
  BY <1>6 DEF Die
<1>7. CASE Resume
  BY <1>7 DEF Resume
<1>8. ASSUME NEW t \in Tiles, Plan(t) PROVE JobsAreTiles'
  BY <1>8 DEF Plan
<1>9. ASSUME NEW stage, Flush(stage) PROVE JobsAreTiles'
  BY <1>9 DEF Flush
<1>10. CASE UNCHANGED vars
  BY <1>10 DEF vars
<1> QED
  BY <1>1, <1>2, <1>3, <1>4, <1>5, <1>6, <1>7, <1>8, <1>9, <1>10 DEF Next

\* What a tile demands: so many units, whose work is known when it is planned.
Demanded(stage, t, d) ==
    /\ d.units \in Nat /\ d.terms.boot = VmBoot /\ d.terms.work \in Nat
    /\ plans[t] # None => /\ d.units = ArtifactsOf(stage, plans[t])
                          /\ d.terms.work = StageBudget(stage, plans[t]).work
                          /\ Fits(plans[t], stage)

\* Every demand is of that kind.
LEMMA DemandIs ==
    ASSUME NEW stage \in {"offsets", "composite", "export"}, NEW t \in Tiles,
           plans[t] # None => InPieces(plans[t]), gate.units \in Nat
    PROVE  Demanded(stage, t, Demand(stage, t))
<1>1. CASE plans[t] = None
  <2>1. Demand(stage, t) = [units |-> gate.units, terms |-> BootstrapBudget]
    BY <1>1 DEF Demand
  <2>2. BootstrapBudget.boot = VmBoot /\ BootstrapBudget.work = Resolve + PlanWait
    BY BudgetIs DEF BootstrapBudget
  <2>3. Resolve + PlanWait \in Nat
    BY BudgetsArePositive
  <2> QED
    BY <1>1, <2>1, <2>2, <2>3 DEF Demanded
<1>2. CASE plans[t] # None
  <2>1. Demand(stage, t) = [units |-> ArtifactsOf(stage, plans[t]),
                            terms |-> StageBudget(stage, plans[t])]
    BY <1>2 DEF Demand
  <2>2. Fits(plans[t], stage)
    BY <1>2, UnitsFit
  <2> QED
    BY <2>1, <2>2 DEF Demanded, Fits
<1> QED
  BY <1>1, <1>2

\* A flush gives its wave a deadline that covers it.
LEMMA FlushIsCovered ==
    ASSUME NEW stage \in {"offsets", "composite", "export"}, Flush(stage),
           WidthIsKept, JobsAreTiles, \A t \in Tiles : plans[t] # None => InPieces(plans[t])
    PROVE  DeadlineCoversTheQueue'
<1> DEFINE jobs == manifest.jobs
           n == Len(jobs)
           asking == {t \in ToSet(jobs) : stage = "offsets" \/ plans[t] # None}
           demand == Tabulated([t \in asking |-> Demand(stage, t)])
           units == UnitList(jobs, demand)
           boots == {demand[t].terms.boot : t \in asking}
           works == {demand[t].terms.work : t \in asking}
           work == Max(works)
           planned == {t \in asking : plans[t] # None}
<1>1. gate.at = "driving" /\ asking # {} /\ UNCHANGED plans
  BY DEF Flush
<1>2. PICK headroom \in 1 .. MaxHeadroom :
        LET array == SubmitFleetStage(stage, units, Higher(1, Lower(Len(units), headroom)))
        IN  wave' = [stage |-> array.stage, units |-> array.units, workers |-> array.workers,
                     planned  |-> {t \in asking : plans[t] # None},
                     deadline |-> WaveDeadline(Max(boots), work, Len(units), array.workers)]
  BY DEF Flush
<1> DEFINE workers == Higher(1, Lower(Higher(1, Lower(Len(units), headroom)), Len(units)))
<1>3. wave' = WaveOf(stage, units, workers, planned,
                     WaveDeadline(Max(boots), work, Len(units), workers))
  BY <1>2 DEF SubmitFleetStage, WaveOf
<1>4. jobs \in Seq(Tiles) /\ gate.units \in Nat
  BY <1>1, LaunchAssumption DEF JobsAreTiles, WidthIsKept, Driven
<1>5. n \in Nat /\ DOMAIN jobs = 1 .. n /\ \A k \in 1 .. n : jobs[k] \in Tiles
  BY <1>4, LenProperties, ElementOfSeq
<1>6. ToSet(jobs) = {jobs[k] : k \in 1 .. n}
  BY <1>5 DEF ToSet
<1>7. asking \subseteq Tiles /\ \A t \in asking : \E k \in 1 .. n : jobs[k] = t
  BY <1>5, <1>6
<1>8. DOMAIN demand = asking /\ \A t \in asking : demand[t] = Demand(stage, t)
  <2>1. demand = [t \in asking |-> Demand(stage, t)]
    BY TabulatedIs
  <2> HIDE DEF demand, asking
  <2> QED
    BY <2>1
<1> HIDE DEF jobs, n, asking, demand, units, boots, works, work, planned, workers
<1>9. \A t \in asking : Demanded(stage, t, demand[t])
  BY <1>4, <1>7, <1>8, DemandIs
<1>10. units \in Seq(UnitsOf(demand))
  <2>1. \A t \in DOMAIN demand : demand[t].units \in Nat
    BY <1>8, <1>9 DEF Demanded
  <2> QED
    BY <1>4, <2>1, UnitsAreListed DEF units
<1>11. Max(boots) = VmBoot
  <2>1. boots = {VmBoot}
    BY <1>1, <1>9 DEF boots, Demanded
  <2>2. VmBoot \in Nat
    BY BudgetsArePositive
  <2>3. {VmBoot} \in SUBSET (0 .. VmBoot) /\ {VmBoot} # {}
    BY <2>2
  <2>4. Max({VmBoot}) \in {VmBoot}
    BY <2>2, <2>3, MaxOf
  <2> QED
    BY <2>1, <2>4
<1>12. work \in Nat /\ \A t \in asking : demand[t].terms.work <= work
  <2> DEFINE f == [k \in 1 .. n |-> IF jobs[k] \in asking THEN demand[jobs[k]].terms.work ELSE 0]
  <2>1. \A t \in asking : demand[t].terms.work \in Nat
    BY <1>9 DEF Demanded
  <2>2. \A k \in 1 .. n : f[k] \in Nat
    BY <2>1
  <2>3. \A t \in asking : \E k \in 1 .. n : f[k] = demand[t].terms.work
    BY <1>7
  <2> HIDE DEF f
  <2>4. PICK top \in Nat : \A k \in 1 .. n : f[k] <= top
    BY <1>5, <2>2, BoundOf
  <2>5. \A t \in asking : demand[t].terms.work \in 0 .. top
    BY <2>1, <2>3, <2>4
  <2>6. works \in SUBSET (0 .. top) /\ works # {}
    BY <1>1, <2>5 DEF works
  <2>7. Max(works) \in Nat /\ \A y \in works : y <= Max(works)
    BY <2>4, <2>6, MaxIs
  <2> QED
    BY <2>7 DEF work, works
<1>13. workers \in Nat \ {0} /\ Len(units) \in Nat /\ DOMAIN units = 1 .. Len(units)
  <2>1. Len(units) \in Nat /\ DOMAIN units = 1 .. Len(units)
    BY <1>10, LenProperties
  <2> DEFINE a == Lower(Len(units), headroom)
             b == Higher(1, a)
             c == Lower(b, Len(units))
             d == Higher(1, c)
  <2>2. headroom \in Int
    OBVIOUS
  <2>3. a \in Int
    BY <2>1, <2>2, LowerOrHigher
  <2> HIDE DEF a
  <2>4. b \in Int
    BY <2>3, LowerOrHigher
  <2> HIDE DEF b
  <2>5. c \in Int
    BY <2>1, <2>4, LowerOrHigher
  <2> HIDE DEF c
  <2>6. d \in Nat \ {0}
    BY <2>5, LowerOrHigher
  <2>7. workers = d
    BY DEF workers, a, b, c
  <2> QED
    BY <2>1, <2>6, <2>7
<1> DEFINE w == WaveOf(stage, units, workers, planned, WaveDeadline(VmBoot, work, Len(units), workers))
<1>14. w.units = units /\ w.planned = planned
       /\ w.deadline = WaveDeadline(VmBoot, work, Len(units), workers)
  BY DEF WaveOf
<1>15. ASSUME BarrierTimeout = NoOverride, \A k \in DOMAIN units : units[k][1] \in planned
       PROVE  Safety * (VmBoot + Makespan(w, plans)) <= w.deadline
  <2>1. ASSUME NEW k \in DOMAIN units
        PROVE  UnitTicks(plans[units[k][1]], stage, units[k][2]) \in 0 .. work
    <3> DEFINE t == units[k][1]
               i == units[k][2]
               plan == plans[t]
    <3>1. units[k] \in UnitsOf(demand)
      BY <1>10, <1>13, ElementOfSeq
    <3>2. i \in 0 .. (demand[t].units - 1) /\ t \in DOMAIN demand
      BY <3>1 DEF UnitsOf
    <3>3. t \in asking /\ plan # None
      BY <1>15 DEF planned
    <3>4. Demanded(stage, t, demand[t])
      BY <1>9, <3>3
    <3>5. i \in 0 .. (ArtifactsOf(stage, plan) - 1) /\ Fits(plan, stage)
          /\ StageBudget(stage, plan).work = demand[t].terms.work
      BY <3>2, <3>3, <3>4 DEF Demanded
    <3>6. UnitTicks(plan, stage, i) \in 0 .. demand[t].terms.work
      BY <3>5 DEF Fits
    <3>7. demand[t].terms.work \in Nat /\ demand[t].terms.work <= work
      BY <1>12, <3>3, <3>4 DEF Demanded
    <3> DEFINE x == UnitTicks(plan, stage, i)
               y == demand[t].terms.work
    <3>8. x \in 0 .. y /\ y \in Nat /\ y <= work
      BY <3>6, <3>7
    <3> HIDE DEF x, y
    <3>9. x \in 0 .. work
      BY <1>12, <3>8
    <3> QED
      BY <3>9 DEF x
  <2> QED
    BY <1>10, <1>12, <1>13, <1>14, <1>15, <2>1, WaveEnds
<1>16. wave' = w
  BY <1>3, <1>11
<1> HIDE DEF w
<1> QED
  BY <1>1, <1>14, <1>15, <1>16 DEF DeadlineCoversTheQueue

\* A wave is flushed once, and forgotten when a plan or a driver changes.
LEMMA DeadlinesHold ==
    ASSUME DeadlineCoversTheQueue, WidthIsKept, JobsAreTiles, [Next]_vars,
           \A t \in Tiles : plans[t] # None => InPieces(plans[t])
    PROVE  DeadlineCoversTheQueue'
<1>1. CASE wave' = None
  BY <1>1 DEF DeadlineCoversTheQueue
<1>2. CASE UNCHANGED <<plans, wave>>
  BY <1>2 DEF DeadlineCoversTheQueue
<1>3. ASSUME NEW stage \in {"offsets", "composite", "export"}, Flush(stage)
      PROVE  DeadlineCoversTheQueue'
  BY <1>3, FlushIsCovered
<1>4. ASSUME NEW t \in Tiles, Plan(t) PROVE wave' = None
  BY <1>4 DEF Plan
<1> QED
  BY <1>1, <1>2, <1>3, <1>4 DEF Next, ShardFleet, PreflightWriters, PreflightBalance, AskAgain,
     WriteManifest, Die, Resume, vars

\* Whatever the tiles, their plans, the units of a wave and the machines it gets:
\* a wave whose boot and units take no more than the measured pace times the
\* safety ends before the deadline it was given, and a worker that is free first
\* takes the next unit.  (budgets.wave_deadline_s, queue_depth, stage_budget)
THEOREM DeadlinesAreEnough == Spec => []DeadlineCoversTheQueue
<1> DEFINE Inv == WidthIsKept /\ PlansAreSound /\ JobsAreTiles /\ DeadlineCoversTheQueue
<1>1. Init => Inv
  BY DEF Init, WidthIsKept, Driven, PlansAreSound, JobsAreTiles, DeadlineCoversTheQueue
<1>2. Inv /\ [Next]_vars => Inv'
  <2>1. PlansAreSound => \A t \in Tiles : plans[t] # None => InPieces(plans[t])
    BY DEF PlansAreSound, WellPlanned
  <2> QED
    BY <2>1, WidthStays, PlansStaySound, JobsStay, DeadlinesHold
<1> QED
  BY <1>1, <1>2, PTL DEF Spec

-----------------------------------------------------------------------------
(* Sums of a list.                                                         *)

\* f is the running sum of n numbers.
RunningSum(f, values, n) ==
    /\ f \in [0 .. n -> Int] /\ f[0] = 0
    /\ \A k \in 1 .. n : f[k] = f[k - 1] + values[k]

\* A list of whole numbers.
IsList(values, n) == n \in Nat /\ Len(values) = n /\ \A k \in 1 .. n : values[k] \in Int

\* A sum is the last of the running sums.
LEMMA SumIs ==
    ASSUME NEW n, NEW values, IsList(values, n)
    PROVE  \E f : RunningSum(f, values, n) /\ SumOf(values) = f[n]
<1> DEFINE Body(sum) == [k \in 0 .. n |-> IF k = 0 THEN 0 ELSE sum[k - 1] + values[k]]
           S == [k \in 0 .. n |-> Int]
           step == [p \in (1 .. n) \X Int |-> p[2] + values[p[1]]]
<1>0. n \in Nat /\ Len(values) = n /\ \A k \in 1 .. n : values[k] \in Int
  BY DEF IsList
<1>1. \A k \in 1 .. n : \A v \in Int : step[<<k, v>>] = v + values[k]
  OBVIOUS
<1>2. KeepsTo(S, step, n) /\ 0 \in S[0] /\ \A k \in 0 .. n : S[k] = Int
  BY <1>0 DEF KeepsTo
<1> HIDE DEF S, step
<1>3. PICK f : Follows(f, 0, step, S, n)
  BY <1>0, <1>2, Recursion
<1> USE DEF Follows
<1>4. ASSUME NEW k \in 0 .. n PROVE f[k] = IF k = 0 THEN 0 ELSE f[k - 1] + values[k]
  <2>1. CASE k = 0
    BY <1>3, <2>1
  <2>2. CASE k # 0
    <3>1. k \in 1 .. n /\ k - 1 \in 0 .. n
      BY <1>0, <2>2
    <3>2. f[k - 1] \in Int /\ f[k] = step[<<k, f[k - 1]>>]
      BY <1>2, <1>3, <3>1
    <3> QED
      BY <1>1, <2>2, <3>1, <3>2
  <2> QED
    BY <2>1, <2>2
<1>5. f = Body(f)
  <2>1. f = [k \in 0 .. n |-> f[k]]
    BY <1>3
  <2>2. [k \in 0 .. n |-> f[k]] = [k \in 0 .. n |-> IF k = 0 THEN 0 ELSE f[k - 1] + values[k]]
    BY <1>4
  <2> QED
    BY <2>1, <2>2
<1> DEFINE sum == CHOOSE s : s = Body(s)
<1>6. SumOf(values) = sum[n]
  BY <1>0 DEF SumOf
<1> HIDE DEF Body
<1>7. sum = Body(sum)
  BY <1>5
<1> HIDE DEF sum
<1>8. sum = [k \in 0 .. n |-> IF k = 0 THEN 0 ELSE sum[k - 1] + values[k]]
  BY <1>7 DEF Body
<1>9. \A k \in 0 .. n : sum[k] = IF k = 0 THEN 0 ELSE sum[k - 1] + values[k]
  BY <1>8
<1>10. sum[0] = 0 /\ \A k \in 1 .. n : sum[k] = sum[k - 1] + values[k]
  BY <1>0, <1>9
<1>11. \A k \in 0 .. n : sum[k] \in Int
  <2> DEFINE whole == {k \in 0 .. n : sum[k] \in Int}
  <2>1. 0 \in whole
    BY <1>0, <1>10
  <2>2. ASSUME NEW k \in 1 .. n, k - 1 \in whole PROVE k \in whole
    BY <1>0, <1>10, <2>2
  <2> HIDE DEF whole
  <2>3. \A k \in 0 .. n : k \in whole
    BY <1>0, <2>1, <2>2, UpTo
  <2> QED
    BY <2>3 DEF whole
<1>12. sum \in [0 .. n -> Int]
  <2>1. sum = [k \in 0 .. n |-> sum[k]]
    BY <1>8, <1>9
  <2> QED
    BY <1>11, <2>1
<1>13. RunningSum(sum, values, n)
  BY <1>10, <1>12 DEF RunningSum
<1> QED
  BY <1>6, <1>13

\* A sum of whole numbers is one.
LEMMA SumType ==
    ASSUME NEW n, NEW values, IsList(values, n)
    PROVE  SumOf(values) \in Int
<1>1. PICK f : RunningSum(f, values, n) /\ SumOf(values) = f[n]
  BY SumIs
<1> QED
  BY <1>1 DEF RunningSum, IsList

\* The first n of m numbers are no more than others, and the rest are nothing.
NoMoreThan(lower, m, upper, n) ==
    /\ IsList(lower, m) /\ IsList(upper, n) /\ n <= m
    /\ \A k \in 1 .. n : lower[k] <= upper[k]
    /\ \A k \in (n + 1) .. m : lower[k] = 0

\* A sum of smaller numbers, then zeros, is smaller.
LEMMA SumMonotone ==
    ASSUME NEW m, NEW n, NEW lower, NEW upper, NoMoreThan(lower, m, upper, n)
    PROVE  SumOf(lower) <= SumOf(upper)
<1>0. /\ m \in Nat /\ n \in Nat /\ n <= m /\ IsList(lower, m) /\ IsList(upper, n)
      /\ \A k \in 1 .. m : lower[k] \in Int
      /\ \A k \in 1 .. n : upper[k] \in Int
  BY DEF NoMoreThan, IsList
<1>1. PICK f : RunningSum(f, lower, m) /\ SumOf(lower) = f[m]
  BY <1>0, SumIs
<1>2. PICK g : RunningSum(g, upper, n) /\ SumOf(upper) = g[n]
  BY <1>0, SumIs
<1>3. /\ f \in [0 .. m -> Int] /\ f[0] = 0 /\ \A k \in 1 .. m : f[k] = f[k - 1] + lower[k]
      /\ g \in [0 .. n -> Int] /\ g[0] = 0 /\ \A k \in 1 .. n : g[k] = g[k - 1] + upper[k]
  BY <1>1, <1>2 DEF RunningSum
<1> DEFINE Below == {k \in 0 .. m : f[k] <= g[IF k <= n THEN k ELSE n]}
<1>4. 0 \in Below
  BY <1>0, <1>3
<1>5. ASSUME NEW k \in 1 .. m, k - 1 \in Below PROVE k \in Below
  <2>0. k - 1 \in 0 .. m /\ k \in 0 .. m /\ f[k - 1] \in Int /\ lower[k] \in Int
    BY <1>0, <1>3
  <2>1. CASE k <= n
    <3>1. k \in 1 .. n /\ k - 1 \in 0 .. n /\ k - 1 <= n
      BY <1>0, <2>1
    <3>2. lower[k] <= upper[k] /\ upper[k] \in Int /\ g[k - 1] \in Int
      BY <1>0, <1>3, <3>1 DEF NoMoreThan
    <3>3. f[k - 1] <= g[k - 1]
      BY <1>5, <3>1
    <3>4. f[k] <= g[k]
      BY <1>3, <2>0, <3>1, <3>2, <3>3
    <3> QED
      BY <2>0, <2>1, <3>4
  <2>2. CASE ~(k <= n)
    <3>1. k \in (n + 1) .. m
      BY <1>0, <2>2
    <3>2. lower[k] = 0
      BY <3>1 DEF NoMoreThan
    <3>3. f[k - 1] <= g[n]
      <4>1. CASE k - 1 <= n
        <5>1. k - 1 = n
          BY <1>0, <2>2, <4>1
        <5> QED
          BY <1>5, <4>1, <5>1
      <4>2. CASE ~(k - 1 <= n)
        BY <1>5, <4>2
      <4> QED
        BY <4>1, <4>2
    <3>4. f[k] = f[k - 1]
      BY <1>3, <2>0, <3>2
    <3> QED
      BY <2>0, <2>2, <3>3, <3>4
  <2> QED
    BY <2>1, <2>2
<1> HIDE DEF Below
<1>6. \A k \in 0 .. m : k \in Below
  BY <1>0, <1>4, <1>5, UpTo
<1>7. m \in Below
  BY <1>0, <1>6
<1>8. f[m] <= g[n]
  <2>1. f[m] <= g[IF m <= n THEN m ELSE n]
    BY <1>7 DEF Below
  <2>2. (IF m <= n THEN m ELSE n) = n
    BY <1>0
  <2> QED
    BY <2>1, <2>2
<1> QED
  BY <1>1, <1>2, <1>8

\* n whole numbers, tabulated, are a list.
LEMMA TableIsList ==
    ASSUME NEW n \in Nat, NEW f \in [1 .. n -> Int]
    PROVE  IsList(f, n)
<1>1. Len(f) = n
  BY ListIsASequence
<1> QED
  BY <1>1 DEF IsList

-----------------------------------------------------------------------------
(* The gates.                                                              *)

\* Whoever has passed the writers' gate was shown to write.
ShownToWrite ==
    gate.at \in {"credits", "passed"} =>
       \A identity \in {DriverIdentity(gate.shell), WorkerIdentity(gate.shell)} :
          Operations \subseteq gate.allows[identity]

\* Every identity a run writes as is one that is probed, however they coincide.
LEMMA WritersAreProbed ==
    ASSUME NEW shell
    PROVE  {DriverIdentity(shell), WorkerIdentity(shell)} \subseteq WriterSpecs(shell)
BY GatesAssumption DEF DriverIdentity, WorkerIdentity, WriterSpecs

\* No step loses what the gate was shown, or passes it by.
LEMMA GatesShow == ShownToWrite /\ [Next]_vars => ShownToWrite'
<1> SUFFICES ASSUME ShownToWrite, [Next]_vars PROVE ShownToWrite'
  OBVIOUS
<1>1. CASE ShardFleet
  BY <1>1 DEF ShardFleet, Refused, ShownToWrite
<1>2. CASE PreflightWriters
  <2>1. PICK allows \in Permissions :
          \/ /\ PreflightWriteAccess(gate.shell, allows)
             /\ gate' = [at |-> "credits", by |-> gate.by, jobs |-> gate.jobs,
                         shell |-> gate.shell, acked |-> gate.acked, allows |-> allows]
          \/ gate' = Refused
    BY <1>2 DEF PreflightWriters
  <2>2. CASE gate' = Refused
    BY <2>2 DEF Refused, ShownToWrite
  <2>3. CASE PreflightWriteAccess(gate.shell, allows) /\ gate' # Refused
    <3>1. \A identity \in WriterSpecs(gate.shell) : Operations \subseteq allows[identity]
      BY <2>3 DEF PreflightWriteAccess, ProbeWriter
    <3>2. gate'.shell = gate.shell /\ gate'.allows = allows
      BY <2>1, <2>3
    <3> QED
      BY <3>1, <3>2, WritersAreProbed DEF ShownToWrite
  <2> QED
    BY <2>1, <2>2, <2>3
<1>3. CASE PreflightBalance
  <2>1. gate.at = "credits"
    BY <1>3 DEF PreflightBalance
  <2>2. \/ gate' = Refused
        \/ gate'.shell = gate.shell /\ gate'.allows = gate.allows
    BY <1>3 DEF PreflightBalance
  <2> QED
    BY <2>1, <2>2 DEF Refused, ShownToWrite
<1>4. CASE AskAgain
  BY <1>4 DEF AskAgain, ShownToWrite
<1>5. CASE WriteManifest
  BY <1>5 DEF WriteManifest, ShownToWrite
<1>6. CASE Die \/ Resume
  BY <1>6 DEF Die, Resume, ShownToWrite
<1>7. CASE UNCHANGED gate
  BY <1>7 DEF ShownToWrite
<1> QED
  BY <1>1, <1>2, <1>3, <1>4, <1>5, <1>6, <1>7 DEF Next, Plan, Flush, vars

\* No run is let through whose driver or workers cannot write: for every shell,
\* every setting of the workers' profile and all permissions, asked by the shell
\* and again by the driver.  (quota.writer_specs, preflight_write_access)
THEOREM AdmittedRunsMayWrite == Spec => []WritersMayWrite
<1>1. Init => ShownToWrite
  BY DEF Init, ShownToWrite
<1>2. ShownToWrite => WritersMayWrite
  BY DEF ShownToWrite, WritersMayWrite
<1> QED
  BY <1>1, <1>2, GatesShow, PTL DEF Spec

-----------------------------------------------------------------------------
(* What a run costs, and what the account can pay.                         *)

\* The price of a run is a number.
LEMMA PriceType == EstimateRunCredits \in Int
<1> DEFINE work(k) == RunFleets[k][1] * RunFleets[k][2] * RunFleets[k][3]
           f == [k \in 1 .. 2 |-> work(k)]
<1>1. /\ AutoOffsets \in Nat \ {0} /\ AutoComposite \in Nat \ {0} /\ VcpuRate \in Nat
      /\ VmBoot \in Nat /\ Resolve \in Nat
      /\ OffsetsVcpus \in Nat /\ CompositeVcpus \in Nat
      /\ OffsetsHours \in Nat /\ CompositeHours \in Nat
  BY CutsArePositive, BudgetsArePositive, GatesAssumption, LaunchAssumption
<1>2. work(1) \in Int /\ work(2) \in Int /\ Len(RunFleets) = 2
  <2>1. OffsetsHours \div AutoOffsets \in Int /\ CompositeHours \div AutoComposite \in Int
    BY <1>1
  <2>2. /\ AutoOffsets * OffsetsVcpus \in Int /\ AutoComposite * CompositeVcpus \in Int
        /\ VmBoot + Resolve + OffsetsHours \div AutoOffsets \in Int
        /\ VmBoot + CompositeHours \div AutoComposite \in Int
    BY <1>1, <2>1
  <2> DEFINE a == AutoOffsets * OffsetsVcpus
             b == VmBoot + Resolve + OffsetsHours \div AutoOffsets
             c == AutoComposite * CompositeVcpus
             d == VmBoot + CompositeHours \div AutoComposite
  <2>3. work(1) = a * b /\ work(2) = c * d
    BY DEF RunFleets
  <2>4. a \in Int /\ b \in Int /\ c \in Int /\ d \in Int
    BY <2>2
  <2> HIDE DEF a, b, c, d, work
  <2>5. work(1) \in Int /\ work(2) \in Int
    BY <2>3, <2>4
  <2> QED
    BY <2>5 DEF RunFleets
<1> HIDE DEF work
<1>3. f \in [1 .. 2 -> Int]
  BY <1>2
<1>4. EstimateRunCredits = SumOf(f) * VcpuRate
  BY <1>2 DEF EstimateRunCredits, CreditsForFleets, work
<1> HIDE DEF f
<1>5. SumOf(f) \in Int
  BY <1>3, TableIsList, SumType
<1> QED
  BY <1>1, <1>4, <1>5

\* What the safety factor asks of a run is what it asks of each tile, for each.
LEMMA NeededOfRun ==
    ASSUME NEW n \in Int
    PROVE  Needed(EstimateRunCredits * n) = Needed(EstimateRunCredits) * n
<1> DEFINE e == EstimateRunCredits
<1>1. e \in Int /\ CreditSafety \in Int
  BY PriceType, GatesAssumption
<1> HIDE DEF e
<1>2. (e * n) * CreditSafety = (e * CreditSafety) * n
  BY <1>1
<1> QED
  BY <1>2 DEF Needed, e

\* An account as Coiled may answer for one.
IsAccount(account) ==
  account \in [endpoint : [up : BOOLEAN, has_quota : BOOLEAN \cup {None}, remaining : Int \cup {None}],
               pages : Seq(Seq(Int)), broken : Nat, limit : Int, operator : Int \cup {None}]

\* The debits of a page are at least what it charges.
LEMMA DebitsCover ==
    ASSUME NEW page \in Seq(Int)
    PROVE  SumOf(page) \in Int /\ Debits(page) \in Int /\ SumOf(page) <= Debits(page)
<1> DEFINE n == Len(page)
           f == [k \in 1 .. n |-> Magnitude(page[k])]
<1>1. n \in Nat /\ \A k \in 1 .. n : page[k] \in Int
  BY LenProperties
<1>2. \A k \in 1 .. n : Magnitude(page[k]) \in Int /\ page[k] <= Magnitude(page[k])
  BY <1>1 DEF Magnitude
<1>3. f \in [1 .. n -> Int] /\ \A k \in 1 .. n : page[k] <= f[k]
  BY <1>2
<1>4. Debits(page) = SumOf(f)
  BY DEF Debits
<1>5. IsList(page, n)
  BY <1>1 DEF IsList
<1> HIDE DEF f, n
<1>6. IsList(f, n)
  BY <1>1, <1>3, TableIsList
<1>7. NoMoreThan(page, n, f, n)
  BY <1>1, <1>3, <1>5, <1>6 DEF NoMoreThan
<1> QED
  BY <1>4, <1>5, <1>6, <1>7, SumType, SumMonotone

\* No page is read that is not there.
LEMMA PagesReadType ==
    ASSUME NEW account, account.pages \in Seq(Seq(Int))
    PROVE  PagesRead(account) \in 0 .. Len(account.pages)
<1> DEFINE n == Len(account.pages)
           read == {k \in 1 .. n : k <= BillingMaxPages /\ \A j \in 1 .. (k - 1) : account.pages[j] # <<>>}
<1>1. n \in Nat
  BY LenProperties
<1>2. read \subseteq 1 .. n /\ PagesRead(account) = Cardinality(read)
  BY DEF PagesRead
<1> HIDE DEF n, read
<1>3. IsFiniteSet(1 .. n) /\ Cardinality(1 .. n) = n
  BY <1>1, FS_Interval
<1>4. IsFiniteSet(read) /\ Cardinality(read) <= n
  BY <1>2, <1>3, FS_Subset
<1>5. Cardinality(read) \in Nat
  BY <1>4, FS_CardinalityType
<1> QED
  BY <1>1, <1>2, <1>4, <1>5 DEF n

\* What is read covers what is spent.
LEMMA SpendIsSeen ==
    ASSUME NEW account, account.pages \in Seq(Seq(Int)), Honest(account)
    PROVE  LET seen == SumOf([k \in 1 .. PagesRead(account) |-> Debits(account.pages[k])])
           IN  /\ seen \in Int /\ TrueSpend(account) \in Int
               /\ TrueSpend(account) <= seen
<1> DEFINE m == Len(account.pages)
           n == PagesRead(account)
           pages == account.pages
           spent == [k \in 1 .. m |-> SumOf(pages[k])]
           debits == [k \in 1 .. n |-> Debits(pages[k])]
<1>1. m \in Nat /\ n \in Nat /\ n <= m /\ \A k \in 1 .. m : pages[k] \in Seq(Int)
  BY LenProperties, PagesReadType
<1>2. \A k \in 1 .. m : /\ SumOf(pages[k]) \in Int /\ Debits(pages[k]) \in Int
                        /\ SumOf(pages[k]) <= Debits(pages[k])
  BY <1>1, DebitsCover
<1>3. \A k \in (n + 1) .. m : pages[k] = <<>>
  BY DEF Honest
<1>4. TrueSpend(account) = SumOf(spent)
  BY DEF TrueSpend
<1> SUFFICES SumOf(debits) \in Int /\ SumOf(spent) \in Int /\ SumOf(spent) <= SumOf(debits)
  BY <1>4
<1> HIDE DEF m, n, pages
<1>5. SumOf(<<>>) = 0
  <2>1. IsList(<<>>, 0)
    BY DEF IsList
  <2>2. PICK f : RunningSum(f, <<>>, 0) /\ SumOf(<<>>) = f[0]
    BY <2>1, SumIs
  <2> QED
    BY <2>2 DEF RunningSum
<1>6. \A k \in 1 .. n : k \in 1 .. m
  BY <1>1
<1>7. spent \in [1 .. m -> Int] /\ debits \in [1 .. n -> Int]
  BY <1>2, <1>6
<1>8. \A k \in 1 .. n : spent[k] <= debits[k]
  BY <1>2, <1>6
<1>9. \A k \in (n + 1) .. m : spent[k] = 0
  <2>1. \A k \in (n + 1) .. m : k \in 1 .. m
    BY <1>1
  <2> QED
    BY <1>3, <1>5, <2>1
<1> HIDE DEF spent, debits
<1>10. IsList(spent, m) /\ IsList(debits, n)
  BY <1>1, <1>7, TableIsList
<1>11. NoMoreThan(spent, m, debits, n)
  BY <1>1, <1>8, <1>9, <1>10 DEF NoMoreThan
<1> QED
  BY <1>10, <1>11, SumType, SumMonotone

\* What the endpoint answers is None or a balance, and its figures are its own.
LEMMA EndpointAnswers ==
    ASSUME NEW account, IsAccount(account)
    PROVE  LET answer == UsageEndpointBalance(account)
           IN  IF account.endpoint.up
                 THEN /\ answer \in Balances /\ answer # None /\ answer.spent = None
                      /\ answer.remaining = account.endpoint.remaining
                      /\ answer.has_quota = account.endpoint.has_quota
                 ELSE answer = None
<1> DEFINE answer == UsageEndpointBalance(account)
<1>1. CASE account.endpoint.up
  <2>1. answer = [remaining |-> account.endpoint.remaining,
                  has_quota |-> account.endpoint.has_quota, spent |-> None]
    BY <1>1 DEF UsageEndpointBalance
  <2>2. answer \in Balances
    BY <2>1 DEF IsAccount, Balances
  <2>3. answer # None
    BY <2>2, GatesAssumption
  <2> QED
    BY <1>1, <2>1, <2>2, <2>3
<1>2. CASE ~account.endpoint.up
  BY <1>2 DEF UsageEndpointBalance
<1> QED
  BY <1>1, <1>2

\* What billing answers is None or all that is spent, and no limit.
LEMMA BillingAnswers ==
    ASSUME NEW account, IsAccount(account), Honest(account)
    PROVE  LET answer == BillingBalance(account)
           IN  \/ answer = None
               \/ /\ answer \in Balances /\ answer # None
                  /\ answer.remaining = None /\ answer.has_quota = None
                  /\ answer.spent \in Int /\ TrueSpend(account) <= answer.spent
<1> DEFINE answer == BillingBalance(account)
           seen == SumOf([k \in 1 .. PagesRead(account) |-> Debits(account.pages[k])])
<1>1. account.pages \in Seq(Seq(Int))
  BY DEF IsAccount
<1>2. seen \in Int /\ TrueSpend(account) <= seen
  BY <1>1, SpendIsSeen
<1> DEFINE failed == account.broken \in {1} \cup 1 .. PagesRead(account)
<1>3. answer = IF failed THEN None ELSE [remaining |-> None, has_quota |-> None, spent |-> seen]
  BY DEF BillingBalance
<1> HIDE DEF seen, failed, answer
<1>4. CASE failed
  BY <1>3, <1>4 DEF answer
<1>5. CASE ~failed
  <2>1. answer = [remaining |-> None, has_quota |-> None, spent |-> seen]
    BY <1>3, <1>5
  <2>2. answer \in Balances
    BY <1>2, <2>1 DEF Balances
  <2>3. answer # None
    BY <2>2, GatesAssumption
  <2>4. answer.remaining = None /\ answer.has_quota = None /\ answer.spent = seen
    BY <2>1
  <2> QED
    BY <1>2, <2>2, <2>3, <2>4 DEF answer
<1> QED
  BY <1>4, <1>5

\* A balance is read truly: its remainder is the endpoint's, its spend covers
\* what was spent, and the endpoint's refusal is in it.
ReadsTruly(balance, account) ==
    /\ balance \in Balances
    /\ balance.remaining # None => balance.remaining = account.endpoint.remaining
    /\ balance.spent # None => balance.spent \in Int /\ TrueSpend(account) <= balance.spent
    /\ account.endpoint.up /\ account.endpoint.has_quota = FALSE => balance.has_quota = FALSE

\* Every source an honest account is read from is read truly.
LEMMA BalanceIsTrue ==
    ASSUME NEW account, IsAccount(account), Honest(account)
    PROVE  ReadsTruly(ReadBalance(account), account)
<1> DEFINE endpoint == UsageEndpointBalance(account)
           billing == BillingBalance(account)
           unknown == [remaining |-> None, has_quota |-> None, spent |-> None]
           read == ReadBalance(account)
           up == account.endpoint.up
           exhausted == account.endpoint.has_quota = FALSE
<1>1. IF up THEN /\ endpoint \in Balances /\ endpoint # None /\ endpoint.spent = None
                 /\ endpoint.remaining = account.endpoint.remaining
                 /\ endpoint.has_quota = account.endpoint.has_quota
            ELSE endpoint = None
  BY EndpointAnswers
<1>2. \/ billing = None
      \/ /\ billing \in Balances /\ billing # None
         /\ billing.remaining = None /\ billing.has_quota = None
         /\ billing.spent \in Int /\ TrueSpend(account) <= billing.spent
  BY BillingAnswers
<1>3. read = IF endpoint # None /\ endpoint.has_quota = FALSE THEN endpoint
             ELSE IF billing = None
                    THEN IF endpoint # None /\ Known(endpoint) THEN endpoint ELSE unknown
                  ELSE IF endpoint = None \/ ~Known(endpoint) THEN billing
                  ELSE [billing EXCEPT !.remaining = endpoint.remaining,
                                       !.has_quota = endpoint.has_quota]
  BY DEF ReadBalance
<1>4. unknown \in Balances /\ unknown.remaining = None /\ unknown.spent = None
  BY DEF Balances
<1> HIDE DEF endpoint, billing, unknown, read
<1>5. CASE up /\ exhausted
  <2>1. read = endpoint
    BY <1>1, <1>3, <1>5
  <2> QED
    BY <1>1, <1>5, <2>1 DEF ReadsTruly, read
<1>6. CASE ~(up /\ exhausted)
  <2>0. ~(endpoint # None /\ endpoint.has_quota = FALSE)
    BY <1>1, <1>6
  <2>1. CASE billing = None /\ endpoint # None /\ Known(endpoint)
    <3>1. read = endpoint /\ up
      BY <1>1, <1>3, <2>0, <2>1
    <3> QED
      BY <1>1, <1>6, <3>1 DEF ReadsTruly, read
  <2>2. CASE billing = None /\ ~(endpoint # None /\ Known(endpoint))
    <3>1. read = unknown
      BY <1>3, <2>0, <2>2
    <3> QED
      BY <1>4, <1>6, <3>1 DEF ReadsTruly, read
  <2>3. CASE billing # None /\ (endpoint = None \/ ~Known(endpoint))
    <3>1. read = billing
      BY <1>3, <2>0, <2>3
    <3> QED
      BY <1>2, <1>6, <2>3, <3>1 DEF ReadsTruly, read
  <2>4. CASE billing # None /\ ~(endpoint = None \/ ~Known(endpoint))
    <3>1. /\ read = [billing EXCEPT !.remaining = endpoint.remaining,
                                    !.has_quota = endpoint.has_quota]
          /\ billing \in Balances /\ up
      BY <1>1, <1>2, <1>3, <2>0, <2>4
    <3>2. /\ read \in Balances
          /\ read.remaining = endpoint.remaining /\ read.spent = billing.spent
      BY <1>1, <3>1 DEF Balances
    <3> QED
      BY <1>1, <1>2, <1>6, <2>4, <3>1, <3>2 DEF ReadsTruly, read
  <2> QED
    BY <2>1, <2>2, <2>3, <2>4
<1> QED
  BY <1>5, <1>6

\* What the gate lets through can be paid.
LEMMA AdmittedCanPay ==
    ASSUME NEW account, IsAccount(account), Honest(account), NEW acked \in BOOLEAN,
           NEW estimate, Needed(estimate) \in Int,
           PreflightCredits(account, acked, estimate)
    PROVE  /\ acked \/ account.limit - TrueSpend(account) >= Needed(estimate)
           /\ ~(account.endpoint.up /\ account.endpoint.has_quota = FALSE)
<1> DEFINE read == ReadBalance(account)
           limited == WithOperatorLimit(read, account.operator)
           balance == IF acked THEN read ELSE limited
<1>0. /\ account.limit \in Int /\ account.endpoint.remaining \in Int \cup {None}
      /\ account.operator \in Int \cup {None} /\ TrueSpend(account) \in Int
      /\ None \notin Int
  <2>1. account.pages \in Seq(Seq(Int))
    BY DEF IsAccount
  <2>2. TrueSpend(account) \in Int
    BY <2>1, SpendIsSeen
  <2> QED
    BY <2>2, GatesAssumption DEF IsAccount
<1>1. /\ read \in Balances
      /\ read.remaining # None => read.remaining = account.endpoint.remaining
      /\ read.spent # None => read.spent \in Int /\ TrueSpend(account) <= read.spent
      /\ account.endpoint.up /\ account.endpoint.has_quota = FALSE => read.has_quota = FALSE
  BY BalanceIsTrue DEF ReadsTruly
<1>2. /\ balance.has_quota # FALSE
      /\ IF balance.remaining # None THEN balance.remaining >= Needed(estimate) ELSE acked
  BY DEF PreflightCredits
<1>3. \/ limited = read
      \/ /\ read.has_quota # FALSE
         /\ read.spent # None /\ account.operator # None
         /\ limited = [read EXCEPT !.remaining = account.operator - read.spent]
  BY DEF WithOperatorLimit
<1>4. /\ account.endpoint.remaining # None =>
            account.endpoint.remaining <= account.limit - TrueSpend(account)
      /\ account.operator # None => account.operator <= account.limit
  BY DEF Honest
<1> HIDE DEF read, limited
<1>5. ~(account.endpoint.up /\ account.endpoint.has_quota = FALSE)
  BY <1>1, <1>2, <1>3
<1>6. ASSUME ~acked PROVE account.limit - TrueSpend(account) >= Needed(estimate)
  <2>1. limited.remaining # None /\ limited.remaining >= Needed(estimate)
    BY <1>2, <1>6
  <2>2. CASE limited = read
    BY <1>0, <1>1, <1>4, <2>1, <2>2
  <2>3. CASE limited # read
    <3>1. limited.remaining = account.operator - read.spent
      BY <1>1, <1>3, <2>3 DEF Balances
    <3>2. /\ account.operator \in Int /\ account.operator <= account.limit
          /\ read.spent \in Int /\ TrueSpend(account) <= read.spent
      BY <1>0, <1>1, <1>3, <1>4, <2>3
    <3>3. Needed(estimate) <= account.operator - read.spent
      BY <2>1, <3>1, <3>2
    <3> QED
      BY <1>0, <3>2, <3>3
  <2> QED
    BY <2>2, <2>3
<1> QED
  BY <1>5, <1>6

\* Whoever has passed the last gate was shown to pay.
ShownToPay ==
    gate.at = "passed" =>
       /\ gate.account \in Accounts /\ gate.acked \in BOOLEAN
       /\ PreflightCredits(gate.account, gate.acked, Price(gate.jobs))

\* A run is acknowledged or not.
AckedType == gate.at \in {"identity", "credits", "passed"} => gate.acked \in BOOLEAN

\* No step passes the credits by.
LEMMA PayStays == AckedType /\ ShownToPay /\ [Next]_vars => AckedType' /\ ShownToPay'
<1> SUFFICES ASSUME AckedType, ShownToPay, [Next]_vars PROVE AckedType' /\ ShownToPay'
  OBVIOUS
<1> USE DEF AckedType, ShownToPay
<1>1. CASE ShardFleet
  BY <1>1 DEF ShardFleet, Refused
<1>2. CASE PreflightWriters
  <2>1. \/ gate' = Refused
        \/ /\ gate.at = "identity" /\ gate'.at = "credits" /\ gate'.acked = gate.acked
    BY <1>2 DEF PreflightWriters
  <2> QED
    BY <2>1 DEF Refused
<1>3. CASE PreflightBalance
  <2>1. PICK account \in Accounts :
          \/ gate' = Refused
          \/ /\ PreflightCredits(account, gate.acked, Price(gate.jobs))
             /\ gate.at = "credits" /\ gate'.at = "passed" /\ gate'.acked = gate.acked
             /\ gate'.jobs = gate.jobs /\ gate'.account = account
    BY <1>3 DEF PreflightBalance
  <2> QED
    BY <2>1 DEF Refused
<1>4. CASE AskAgain
  BY <1>4 DEF AskAgain
<1>5. CASE WriteManifest
  BY <1>5 DEF WriteManifest
<1>6. CASE Die \/ Resume
  BY <1>6 DEF Die, Resume
<1>7. CASE UNCHANGED gate
  BY <1>7
<1> QED
  BY <1>1, <1>2, <1>3, <1>4, <1>5, <1>6, <1>7 DEF Next, Plan, Flush, vars

\* No run is let through that cannot be paid, for every roster and price, any
\* pages of billing activity and any of the sources failing, where the accounts
\* keep to what the gate supposes.  (quota.preflight_credits, read_balance)
THEOREM AdmittedRunsCanBePaid ==
    ASSUME \A account \in Accounts : Honest(account)
    PROVE  Spec => []RunsCanBePaid
<1>1. Init => AckedType /\ ShownToPay /\ JobsAreTiles
  BY DEF Init, AckedType, ShownToPay, JobsAreTiles, Driven
<1>2. ShownToPay /\ JobsAreTiles => RunsCanBePaid
  <2> SUFFICES ASSUME ShownToPay, JobsAreTiles, gate.at = "passed"
               PROVE  RunsCanBePaid
    BY DEF RunsCanBePaid
  <2>1. gate.account \in Accounts /\ gate.jobs \in Rosters
    BY DEF ShownToPay, JobsAreTiles
  <2>2. IsAccount(gate.account) /\ Honest(gate.account)
    BY <2>1, LaunchAssumption DEF IsAccount
  <2>3. Len(gate.jobs) \in Int
    <3>1. gate.jobs \in Seq(Tiles)
      BY <2>1, LaunchAssumption
    <3> QED
      BY <3>1, LenProperties
  <2>4. Needed(Price(gate.jobs)) = Needed(EstimateRunCredits) * Len(gate.jobs)
    BY <2>3, NeededOfRun DEF Price
  <2>5. Needed(Price(gate.jobs)) \in Int
    BY <2>3, PriceType, GatesAssumption DEF Needed, Price
  <2>6. /\ gate.acked \in BOOLEAN
        /\ PreflightCredits(gate.account, gate.acked, Price(gate.jobs))
    BY DEF ShownToPay
  <2>7. /\ gate.acked \/ gate.account.limit - TrueSpend(gate.account) >= Needed(Price(gate.jobs))
        /\ ~(gate.account.endpoint.up /\ gate.account.endpoint.has_quota = FALSE)
    BY <2>2, <2>5, <2>6, AdmittedCanPay
  <2> QED
    BY <2>4, <2>7 DEF RunsCanBePaid
<1> QED
  BY <1>1, <1>2, PayStays, JobsStay, PTL DEF Spec
=============================================================================
