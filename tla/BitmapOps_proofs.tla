-------------------------- MODULE BitmapOps_proofs --------------------------
(***************************************************************************)
(* Lemmas about bitmap_scan, and about least and greatest numbers.  What a *)
(* recursive function computes is shown by its least counterexample.       *)
(***************************************************************************)
EXTENDS BitmapOps, FiniteSetTheorems, WellFoundedInduction, TLAPS

\* A set of natural numbers has a least element.
LEMMA Least ==
    ASSUME NEW S, S \subseteq Nat, S # {}
    PROVE  \E n \in S : \A m \in S : n <= m
<1>1. IsWellFoundedOn(OpToRel(<, Nat), Nat)
  BY NatLessThanWellFounded
<1>2. PICK n \in S : \A m \in S : ~ (<<m, n>> \in OpToRel(<, Nat))
  BY <1>1, WFMin
<1>3. \A m \in S : ~(m < n)
  BY <1>2 DEF OpToRel
<1>4. \A m \in S : n <= m
  <2> TAKE m \in S
  <2>1. m \in Nat /\ n \in Nat
    BY <1>2
  <2> QED
    BY <1>3, <2>1
<1> QED
  BY <1>2, <1>4

\* and Min finds it.
LEMMA MinIsLeast ==
    ASSUME NEW S, S \subseteq Nat, S # {}
    PROVE  Min(S) \in S /\ \A m \in S : Min(S) <= m
BY Least DEF Min

\* free_bit_cnt behind the test of each bit, see Scan
Runs(first, size, bits, f) ==
    f = [k \in first .. size |-> IF k = first THEN 1
                                 ELSE IF k \in bits THEN 0 ELSE f[k - 1] + 1]
LEMMA RunsExist ==
    ASSUME NEW first \in Nat, NEW size \in Nat, NEW bits
    PROVE  \E f : Runs(first, size, bits, f)
<1> DEFINE Bad == {n \in Nat : ~ \E f : Runs(first, n, bits, f)}
<1>1. CASE Bad = {}
  BY <1>1
<1>2. CASE Bad # {}
  <2>1. PICK n \in Bad : \A m \in Bad : n <= m
    BY <1>2, Least
  <2>2. CASE n <= first
    <3> DEFINE f == [k \in first .. n |-> 1]
    <3>1. Runs(first, n, bits, f)
      BY <2>2 DEF Runs
    <3> QED
      BY <3>1, <2>1
  <2>3. CASE n > first
    <3>1. n - 1 \in Nat /\ n - 1 \notin Bad
      BY <2>1, <2>3
    <3>2. PICK g : Runs(first, n - 1, bits, g)
      BY <3>1
    <3> DEFINE f == [k \in first .. n |-> IF k = n THEN IF n \in bits THEN 0 ELSE g[n - 1] + 1
                                          ELSE g[k]]
    <3>3. \A k \in first .. n : f[k] = IF k = first THEN 1 ELSE IF k \in bits THEN 0 ELSE f[k - 1] + 1
      <4> TAKE k \in first .. n
      <4>1. CASE k = n
        <5>1. n - 1 \in first .. n /\ n - 1 # n
          BY <2>3
        <5> QED  BY <4>1, <2>3, <5>1
      <4>2. CASE k # n
        <5>1. k \in first .. n - 1 /\ (k # first => k - 1 \in first .. n /\ k - 1 # n)
          BY <4>2
        <5>2. g[k] = IF k = first THEN 1 ELSE IF k \in bits THEN 0 ELSE g[k - 1] + 1
          BY <3>2, <5>1 DEF Runs
        <5> QED  BY <4>2, <5>1, <5>2
      <4> QED BY <4>1, <4>2
    <3>4. Runs(first, n, bits, f)
      BY <3>3 DEF Runs
    <3> QED
      BY <3>4, <2>1
  <2> QED
    BY <2>1, <2>2, <2>3
<1> QED
  BY <1>1, <1>2

\* The count at a bit is that of the free bits up to it.
RunEnds(first, bits, f, k) ==
    /\ f[k] \in Nat /\ f[k] <= k - first + 1
    /\ \A i \in k - f[k] + 1 .. k : i \notin bits

LEMMA RunsAreFree ==
    ASSUME NEW first \in Nat, NEW size \in Nat, NEW bits, first \notin bits,
           NEW f, Runs(first, size, bits, f), NEW k \in first .. size
    PROVE  RunEnds(first, bits, f, k)
<1> DEFINE Bad == {n \in first .. size : ~ RunEnds(first, bits, f, n)}
<1>1. CASE Bad = {}
  BY <1>1
<1>2. CASE Bad # {}
  <2>0. Bad \subseteq Nat
    OBVIOUS
  <2>1. PICK n \in Bad : \A m \in Bad : n <= m
    BY <1>2, <2>0, Least
  <2>2. f[n] = IF n = first THEN 1 ELSE IF n \in bits THEN 0 ELSE f[n - 1] + 1
    BY <2>1 DEF Runs
  <2>3. CASE n = first
    <3>1. RunEnds(first, bits, f, n)
      BY <2>2, <2>3 DEF RunEnds
    <3> QED BY <2>1, <3>1
  <2>4. CASE n # first
    <3>1. n - 1 \in first .. size /\ n - 1 \notin Bad
      BY <2>1, <2>4
    <3>2. RunEnds(first, bits, f, n - 1)
      BY <3>1
    <3>3. RunEnds(first, bits, f, n)
      BY <2>1, <2>2, <2>4, <3>2 DEF RunEnds
    <3> QED BY <2>1, <3>3
  <2> QED BY <2>3, <2>4
<1> QED
  BY <1>1, <1>2

\* What bitmap_scan finds is free; its end may be the bit behind the last.  The
\* search for one bit cannot fail when it does not stop the machine.
LEMMA ScanFree ==
    ASSUME NEW bits \in SUBSET Nat, NEW size \in Nat, NEW cnt \in Nat \ {0}, ~ScanPanics(bits, size)
    PROVE  \/ Scan(bits, size, cnt) = -1 /\ cnt # 1
           \/ /\ Scan(bits, size, cnt) \in 0 .. size - 1
              /\ \A i \in Scan(bits, size, cnt) .. Scan(bits, size, cnt) + cnt - 1 : i \notin bits
              /\ Scan(bits, size, cnt) + cnt - 1 <= size
<1> DEFINE first == FirstFree(bits, size)
<1>1. first \in 0 .. size - 1 /\ first \notin bits
  <2>1. (0 .. size - 1) \ bits # {} /\ (0 .. size - 1) \ bits \subseteq Nat
    BY DEF ScanPanics
  <2> QED BY <2>1, MinIsLeast DEF FirstFree
<1> DEFINE free[k \in first .. size] ==
            IF k = first THEN 1
            ELSE IF k \in bits THEN 0 ELSE free[k - 1] + 1
<1> HIDE DEF first
<1>2. Runs(first, size, bits, free)
  <2>1. PICK f : Runs(first, size, bits, f)
    BY <1>1, RunsExist
  <2>2. f = [k \in first .. size |->
            IF k = first THEN 1
            ELSE IF k \in bits THEN 0 ELSE f[k - 1] + 1]
    BY <2>1 DEF Runs
  <2>3. free = [k \in first .. size |->
            IF k = first THEN 1
            ELSE IF k \in bits THEN 0 ELSE free[k - 1] + 1]
    BY <2>2
  <2> QED BY <2>3 DEF Runs
<1> DEFINE hits == {k \in first + 1 .. size : free[k] = cnt}
<1>3. Scan(bits, size, cnt) = IF cnt = 1 THEN first
                              ELSE IF hits = {} THEN -1 ELSE Min(hits) - cnt + 1
  BY DEF Scan, first
<1> HIDE DEF free
<1>4. \A k \in first .. size : RunEnds(first, bits, free, k)
  BY <1>1, <1>2, RunsAreFree
<1>5. hits # {} => Min(hits) \in hits
  BY <1>1, MinIsLeast
<1>6. CASE cnt = 1
  BY <1>1, <1>3, <1>6
<1>7. CASE cnt # 1 /\ hits = {}
  BY <1>3, <1>7
<1>8. CASE cnt # 1 /\ hits # {}
  <2> DEFINE k == Min(hits)
  <2>1. k \in first + 1 .. size /\ free[k] = cnt
    BY <1>5, <1>8
  <2>2. RunEnds(first, bits, free, k)
    BY <1>1, <1>4, <2>1
  <2>3. Scan(bits, size, cnt) = k - cnt + 1
    BY <1>3, <1>8
  <2> HIDE DEF k
  <2> QED
    BY <1>1, <1>8, <2>1, <2>2, <2>3 DEF RunEnds
<1> QED
  BY <1>6, <1>7, <1>8

\* Where cnt bits from start on are free, the count comes to cnt.
LEMMA RunsReach ==
    ASSUME NEW first \in Nat, NEW size \in Nat, NEW bits, first \notin bits,
           NEW f, Runs(first, size, bits, f), NEW cnt \in Nat \ {0, 1},
           NEW start \in first .. size, start + cnt <= size,
           \A i \in start .. start + cnt - 1 : i \notin bits
    PROVE  \E k \in first + 1 .. size : f[k] = cnt
<1> DEFINE Short == {j \in 0 .. cnt - 1 : ~(f[start + j] >= j + 1)}
<1>1. \A k \in first .. size :
         /\ f[k] \in Nat
         /\ f[k] = IF k = first THEN 1 ELSE IF k \in bits THEN 0 ELSE f[k - 1] + 1
  <2>1. \A k \in first .. size : RunEnds(first, bits, f, k)
    BY RunsAreFree
  <2> QED
    BY <2>1 DEF Runs, RunEnds
<1>2. \A j \in 0 .. cnt - 1 : start + j \in first .. size /\ start + j \notin bits
  OBVIOUS
<1>3. Short = {}
  <2> SUFFICES ASSUME Short # {} PROVE FALSE
    OBVIOUS
  <2>1. PICK j \in Short : \A i \in Short : j <= i
    <3>1. Short \subseteq Nat
      OBVIOUS
    <3> HIDE DEF Short
    <3> QED
      BY <3>1, Least
  <2>2. start + j \in first .. size /\ start + j \notin bits
    BY <1>2
  <2>3. CASE j = 0
    <3>1. f[start] >= 1
      BY <1>1, <2>2, <2>3
    <3> QED
      BY <2>3, <3>1
  <2>4. CASE j # 0
    <3>1. j - 1 \in 0 .. cnt - 1 /\ j - 1 \notin Short
      BY <2>1, <2>4
    <3>2. f[start + (j - 1)] >= j /\ start + (j - 1) = start + j - 1
      BY <3>1
    <3>3. start + j # first
      BY <2>4
    <3>4. f[start + j] = f[start + j - 1] + 1
      BY <1>1, <2>2, <3>3
    <3>5. f[start + j - 1] \in Nat
      BY <1>1, <1>2, <3>1, <3>2
    <3> QED
      BY <3>2, <3>4, <3>5
  <2> QED
    BY <2>3, <2>4
<1> DEFINE Long == {k \in first .. size : f[k] >= cnt}
<1>4. start + cnt - 1 \in Long
  <2>1. cnt - 1 \in 0 .. cnt - 1 /\ start + (cnt - 1) = start + cnt - 1
    OBVIOUS
  <2>2. f[start + cnt - 1] >= cnt
    BY <1>3, <2>1
  <2> QED
    BY <2>2
<1>5. PICK k \in Long : \A i \in Long : k <= i
  <2>1. Long # {} /\ Long \subseteq Nat
    BY <1>4
  <2> HIDE DEF Long
  <2> QED
    BY <2>1, Least
<1>6. k # first
  BY <1>1
<1>7. k - 1 \in first .. size /\ k - 1 \notin Long
  BY <1>5, <1>6
<1>8. f[k - 1] < cnt /\ f[k - 1] \in Nat
  BY <1>1, <1>7
<1>9. f[k] <= f[k - 1] + 1 /\ f[k] \in Nat /\ f[k] >= cnt
  BY <1>1, <1>6, <1>8
<1>10. f[k] = cnt /\ k \in first + 1 .. size
  BY <1>6, <1>8, <1>9
<1> QED
  BY <1>10

\* bitmap_scan fails only when there are not so many free bits in a row.
LEMMA ScanComplete ==
    ASSUME NEW bits \in SUBSET Nat, NEW size \in Nat, NEW cnt \in Nat \ {0},
           ~ScanPanics(bits, size), Scan(bits, size, cnt) = -1,
           NEW start \in 0 .. size - 1, start + cnt <= size
    PROVE  \E i \in start .. start + cnt - 1 : i \in bits
<1> SUFFICES ASSUME \A i \in start .. start + cnt - 1 : i \notin bits
             PROVE  FALSE
  OBVIOUS
<1> DEFINE first == FirstFree(bits, size)
           Gap == (0 .. size - 1) \ bits
<1>1. /\ first \in 0 .. size - 1 /\ first \notin bits
      /\ \A i \in Gap : first <= i
  <2>1. Gap # {} /\ Gap \subseteq Nat
    BY DEF ScanPanics
  <2> QED
    BY <2>1, MinIsLeast DEF FirstFree
<1>2. start \in Gap
  OBVIOUS
<1> DEFINE free[k \in first .. size] ==
            IF k = first THEN 1
            ELSE IF k \in bits THEN 0 ELSE free[k - 1] + 1
<1> HIDE DEF first, Gap
<1>3. Runs(first, size, bits, free)
  <2>1. PICK f : Runs(first, size, bits, f)
    BY <1>1, RunsExist
  <2>2. f = [k \in first .. size |->
            IF k = first THEN 1
            ELSE IF k \in bits THEN 0 ELSE f[k - 1] + 1]
    BY <2>1 DEF Runs
  <2>3. free = [k \in first .. size |->
            IF k = first THEN 1
            ELSE IF k \in bits THEN 0 ELSE free[k - 1] + 1]
    BY <2>2
  <2> QED BY <2>3 DEF Runs
<1> DEFINE hits == {k \in first + 1 .. size : free[k] = cnt}
<1>4. Scan(bits, size, cnt) = IF cnt = 1 THEN first
                              ELSE IF hits = {} THEN -1 ELSE Min(hits) - cnt + 1
  BY DEF Scan, first
<1> HIDE DEF free
<1>5. cnt # 1
  BY <1>1, <1>4
<1>6. first <= start /\ start \in first .. size /\ first \in Nat
  BY <1>1, <1>2
<1>7. hits # {}
  <2>1. \E k \in first + 1 .. size : free[k] = cnt
    BY <1>1, <1>3, <1>5, <1>6, RunsReach
  <2> QED
    BY <2>1
<1>8. Min(hits) \in hits
  BY <1>1, <1>7, MinIsLeast
<1> DEFINE k == Min(hits)
<1>9. k \in first + 1 .. size /\ free[k] = cnt /\ k - cnt + 1 = -1
  BY <1>4, <1>5, <1>7, <1>8
<1>10. RunEnds(first, bits, free, k)
  BY <1>1, <1>3, <1>9, RunsAreFree
<1> HIDE DEF k
<1> QED
  BY <1>1, <1>9, <1>10 DEF RunEnds

\* A set of as many numbers as there are below n has a greatest one.
LEMMA Greatest ==
    ASSUME NEW S, S \subseteq Nat, S # {}, IsFiniteSet(S)
    PROVE  \E x \in S : \A y \in S : x >= y
<1> DEFINE Bad == {n \in Nat : \E X : /\ X \subseteq Nat /\ X # {} /\ IsFiniteSet(X)
                                     /\ Cardinality(X) = n
                                     /\ ~ \E x \in X : \A y \in X : x >= y}
<1>1. CASE Bad = {}
  <2>1. Cardinality(S) \in Nat
    BY FS_CardinalityType
  <2> QED
    BY <1>1, <2>1
<1>2. CASE Bad # {}
  <2>1. PICK n \in Bad : \A k \in Bad : n <= k
    BY <1>2, Least
  <2>2. PICK X : /\ X \subseteq Nat /\ X # {} /\ IsFiniteSet(X) /\ Cardinality(X) = n
                 /\ ~ \E x \in X : \A y \in X : x >= y
    BY <2>1
  <2>3. PICK z \in X : TRUE
    BY <2>2
  <2> DEFINE Y == X \ {z}
  <2>4. IsFiniteSet(Y) /\ Cardinality(Y) = n - 1
    BY <2>2, <2>3, FS_RemoveElement
  <2>5. CASE Y = {}
    BY <2>2, <2>3, <2>5
  <2>6. CASE Y # {}
    <3>1. n - 1 \in Nat
      BY <2>4, FS_CardinalityType
    <3>2. n - 1 \notin Bad
      <4>1. n \in Nat /\ ~(n <= n - 1)
        BY <2>1
      <4> HIDE DEF Bad
      <4> QED BY <2>1, <4>1
    <3>3. PICK x \in Y : \A y \in Y : x >= y
      BY <2>2, <2>4, <2>6, <3>1, <3>2
    <3>4. x \in Nat /\ z \in Nat
      BY <2>2
    <3>5. CASE x >= z
      BY <2>2, <3>3, <3>5
    <3>6. CASE ~(x >= z)
      <4>1. \A y \in X : y \in Nat /\ (y = z \/ x >= y)
        BY <2>2, <3>3
      <4>2. \A y \in X : z >= y
        BY <3>4, <3>6, <4>1
      <4> QED
        BY <2>2, <4>2
    <3> QED
      BY <3>5, <3>6
  <2> QED
    BY <2>5, <2>6
<1> QED
  BY <1>1, <1>2

LEMMA MaxIsGreatest ==
    ASSUME NEW S, S \subseteq Nat, S # {}, IsFiniteSet(S)
    PROVE  Max(S) \in S /\ \A x \in S : Max(S) >= x
BY Greatest DEF Max
=============================================================================
