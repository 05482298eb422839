----------------------- MODULE PatternDetectorProofs -----------------------
(***************************************************************************)
(* Theorems about PatternDetector, for any windows, thresholds, numbers of *)
(* events and of concurrent questions: what the binary search finds, and   *)
(* that no answer loses an event to pruning, late locks and evictions.     *)
(***************************************************************************)
EXTENDS PatternDetector, FiniteSetTheorems, SequenceTheorems,
        WellFoundedInduction, NaturalsInduction, TLAPS

-----------------------------------------------------------------------------
(* The binary search. *)

(* A set of natural numbers that is not empty has a least element. *)
LEMMA LeastElement ==
    ASSUME NEW T \in SUBSET Nat, T # {}
    PROVE  \E k \in T : \A j \in T : k <= j
<1>1. PICK k \in T : \A j \in T : <<j, k>> \notin OpToRel(<, Nat)
  BY NatLessThanWellFounded, WFMin
<1>2. \A j \in T : ~(j < k)
  BY <1>1 DEF OpToRel
<1> QED
  BY <1>2

Ascends(s) == \A i, j \in DOMAIN s : i <= j => s[i] <= s[j]

(* p of the events are before the cutoff: the first p. *)
Boundary(events, cutoff, p) ==
    /\ p \in 0..Len(events)
    /\ \A i \in 1..Len(events) : events[i] < cutoff <=> i <= p

LEMMA BoundaryExists ==
    ASSUME NEW events \in Seq(Nat), Ascends(events), NEW cutoff \in Int
    PROVE  \E p : Boundary(events, cutoff, p)
<1> DEFINE n == Len(events)
           T == {k \in 0..n : \A i \in (k + 1)..n : ~(events[i] < cutoff)}
<1>1. n \in Nat /\ DOMAIN events = 1..n /\ \A i \in 1..n : events[i] \in Nat
  OBVIOUS
<1>2. n \in T /\ T \in SUBSET Nat
  BY <1>1
<1>3. PICK p \in T : \A k \in T : p <= k
  BY <1>2, LeastElement
<1>4. ASSUME NEW i \in 1..n, i <= p PROVE events[i] < cutoff
  <2>1. p \in 1..n /\ p - 1 \in 0..n /\ ~(p <= p - 1)
    BY <1>1, <1>3, <1>4
  <2>2. PICK k \in p..n : events[k] < cutoff
    <3>1. p - 1 \notin T
      <4> HIDE DEF T
      <4> QED
        BY <1>3, <2>1
    <3>2. \E k \in ((p - 1) + 1)..n : events[k] < cutoff
      BY <2>1, <3>1
    <3>3. (p - 1) + 1 = p
      BY <1>1, <2>1
    <3> QED
      BY <3>2, <3>3
  <2>3. k = p
    BY <1>1, <1>3, <2>1, <2>2
  <2>4. events[i] <= events[p]
    BY <1>1, <1>4, <2>1 DEF Ascends
  <2> QED
    BY <1>1, <2>1, <2>2, <2>3, <2>4
<1>5. ASSUME NEW i \in 1..n, events[i] < cutoff PROVE i <= p
  BY <1>1, <1>3, <1>5
<1> QED
  BY <1>1, <1>3, <1>4, <1>5 DEF Boundary

Intervals(n) == [lo : 0..n, hi : 0..n]

(* One round of the loop, given what the rest of the search finds. *)
Round(events, cutoff, search) ==
    [r \in Intervals(Len(events)) |->
        LET mid == (r.lo + r.hi) \div 2 IN
        IF r.lo >= r.hi THEN r.lo
        ELSE IF events[mid + 1] < cutoff THEN search[[lo |-> mid + 1, hi |-> r.hi]]
             ELSE search[[lo |-> r.lo, hi |-> mid]]]

LEMMA MidIsBetween ==
    ASSUME NEW n \in Nat, NEW r \in Intervals(n), r.lo < r.hi,
           NEW mid, mid = (r.lo + r.hi) \div 2
    PROVE  /\ mid \in Nat /\ r.lo <= mid /\ mid < r.hi /\ mid + 1 \in 1..n
           /\ [lo |-> mid + 1, hi |-> r.hi] \in Intervals(n)
           /\ [lo |-> r.lo, hi |-> mid] \in Intervals(n)
BY DEF Intervals

(* What is found between lo and hi, if p events are before the cutoff. *)
Found(n, p) ==
    [r \in Intervals(n) |->
        IF r.lo >= r.hi \/ p < r.lo THEN r.lo ELSE IF p > r.hi THEN r.hi ELSE p]

LEMMA FoundIsRound ==
    ASSUME NEW events \in Seq(Nat), NEW cutoff, NEW p, Boundary(events, cutoff, p)
    PROVE  Found(Len(events), p) = Round(events, cutoff, Found(Len(events), p))
<1> DEFINE n == Len(events)
           g == Found(n, p)
<1>1. n \in Nat /\ p \in 0..n
  BY DEF Boundary
<1>2. ASSUME NEW r \in Intervals(n) PROVE g[r] = Round(events, cutoff, g)[r]
  <2> DEFINE mid == (r.lo + r.hi) \div 2
             upper == [lo |-> mid + 1, hi |-> r.hi]
             lower == [lo |-> r.lo, hi |-> mid]
  <2>0. r.lo \in 0..n /\ r.hi \in 0..n
    BY DEF Intervals
  <2>1. CASE r.lo >= r.hi
    BY <2>1 DEF Round, Found
  <2>2. CASE r.lo < r.hi
    <3>1. /\ mid \in Nat /\ r.lo <= mid /\ mid < r.hi /\ mid + 1 \in 1..n
          /\ upper \in Intervals(n) /\ lower \in Intervals(n)
      BY <1>1, <2>2, MidIsBetween
    <3>2. events[mid + 1] < cutoff <=> mid + 1 <= p
      BY <3>1 DEF Boundary
    <3>3. Round(events, cutoff, g)[r] = IF mid + 1 <= p THEN g[upper] ELSE g[lower]
      BY <2>0, <2>2, <3>2 DEF Round
    <3>4. g[r] = IF p < r.lo THEN r.lo ELSE IF p > r.hi THEN r.hi ELSE p
      BY <2>0, <2>2 DEF Found
    <3>5. g[upper] = IF mid + 1 >= r.hi \/ p < mid + 1 THEN mid + 1
                     ELSE IF p > r.hi THEN r.hi ELSE p
      BY <3>1 DEF Found
    <3>6. g[lower] = IF r.lo >= mid \/ p < r.lo THEN r.lo ELSE IF p > mid THEN mid ELSE p
      BY <3>1 DEF Found
    <3>7. mid \in Nat /\ p \in Nat /\ r.lo \in Nat /\ r.hi \in Nat
      BY <1>1, <2>0, <3>1
    <3>8. (IF mid + 1 <= p THEN g[upper] ELSE g[lower]) = g[r]
      <4> HIDE DEF g, mid, upper, lower, n
      <4> QED
        BY <2>2, <3>1, <3>4, <3>5, <3>6, <3>7
    <3> QED
      BY <3>3, <3>8
  <2> QED
    BY <2>0, <2>1, <2>2
<1> QED
  BY <1>2 DEF Found, Round

(* Whatever solves the equation of the search is that: shorter intervals first. *)
LEMMA RoundIsFound ==
    ASSUME NEW events \in Seq(Nat), NEW cutoff, NEW p, Boundary(events, cutoff, p),
           NEW f, f = Round(events, cutoff, f),
           NEW r \in Intervals(Len(events))
    PROVE  f[r] = Found(Len(events), p)[r]
<1> DEFINE n == Len(events)
           g == Found(n, p)
           Wrong == {s \in Intervals(n) : f[s] # g[s]}
           T == {d \in Nat : \E s \in Wrong : s.hi - s.lo = d}
<1>1. n \in Nat
  OBVIOUS
<1>2. g = Round(events, cutoff, g)
  BY FoundIsRound
<1>3. ASSUME NEW s \in Wrong PROVE s.lo < s.hi /\ s.hi - s.lo \in T
  <2>1. s.lo \in 0..n /\ s.hi \in 0..n
    BY DEF Intervals
  <2>2. ~(s.lo >= s.hi)
    <3>1. s.lo >= s.hi => f[s] = s.lo /\ g[s] = s.lo
      BY <1>2 DEF Round
    <3> QED
      BY <3>1
  <2> QED
    BY <2>1, <2>2
<1>4. SUFFICES ASSUME r \in Wrong PROVE FALSE
  OBVIOUS
<1>5. T # {} /\ T \in SUBSET Nat
  BY <1>3, <1>4
<1>6. PICK d \in T : \A e \in T : d <= e
  BY <1>5, LeastElement
<1>7. PICK s \in Wrong : s.hi - s.lo = d
  BY <1>6
<1> DEFINE mid == (s.lo + s.hi) \div 2
           upper == [lo |-> mid + 1, hi |-> s.hi]
           lower == [lo |-> s.lo, hi |-> mid]
<1>8. /\ mid \in Nat /\ s.lo <= mid /\ mid < s.hi
      /\ upper \in Intervals(n) /\ lower \in Intervals(n)
      /\ s.lo \in Nat /\ s.hi \in Nat
  BY <1>1, <1>3, <1>7, MidIsBetween DEF Intervals
<1>9. upper \notin Wrong /\ lower \notin Wrong
  <2>1. upper.hi - upper.lo < d /\ lower.hi - lower.lo < d
    BY <1>7, <1>8
  <2>2. \A q \in Wrong : d <= q.hi - q.lo
    BY <1>3, <1>6
  <2>3. /\ upper.hi - upper.lo \in Int /\ lower.hi - lower.lo \in Int /\ d \in Int
    BY <1>6, <1>8
  <2> HIDE DEF upper, lower, Wrong
  <2> QED
    BY <2>1, <2>2, <2>3
<1>10. f[upper] = g[upper] /\ f[lower] = g[lower]
  BY <1>8, <1>9
<1>11. ~(s.lo >= s.hi)
  BY <1>3, <1>8
<1>12. /\ f[s] = IF events[mid + 1] < cutoff THEN f[upper] ELSE f[lower]
       /\ g[s] = IF events[mid + 1] < cutoff THEN g[upper] ELSE g[lower]
  BY <1>2, <1>11 DEF Round
<1> QED
  BY <1>10, <1>12

(* What the search returns: the number of events before the cutoff. *)
LEMMA SearchFindsBoundary ==
    ASSUME NEW events \in Seq(Nat), Ascends(events), NEW cutoff \in Int
    PROVE  Boundary(events, cutoff, Stale(events, cutoff))
<1>1. PICK p : Boundary(events, cutoff, p)
  BY BoundaryExists
<1>2. \E f : f = Round(events, cutoff, f)
  BY <1>1, FoundIsRound
<1>3. PICK f : /\ f = Round(events, cutoff, f)
               /\ Stale(events, cutoff) = f[[lo |-> 0, hi |-> Len(events)]]
  BY <1>2, Zenon DEF Stale, Round, Intervals
<1>4. [lo |-> 0, hi |-> Len(events)] \in Intervals(Len(events))
  BY DEF Intervals
<1>5. Stale(events, cutoff) = Found(Len(events), p)[[lo |-> 0, hi |-> Len(events)]]
  BY <1>1, <1>3, <1>4, RoundIsFound
<1>6. Stale(events, cutoff) = p
  BY <1>1, <1>4, <1>5 DEF Found, Boundary
<1> QED
  BY <1>1, <1>6

LEMMA PruneWindowKeeps ==
    ASSUME NEW S \in SUBSET Nat, NEW events \in Seq(S), Ascends(events), NEW cutoff \in Int
    PROVE  /\ Boundary(events, cutoff, Stale(events, cutoff))
           /\ PruneWindow(events, cutoff) \in Seq(S)
           /\ Len(PruneWindow(events, cutoff)) = Len(events) - Stale(events, cutoff)
           /\ \A i \in 1..Len(PruneWindow(events, cutoff)) :
                 PruneWindow(events, cutoff)[i] = events[Stale(events, cutoff) + i]
<1> DEFINE n == Len(events)
           p == Stale(events, cutoff)
           pruned == PruneWindow(events, cutoff)
<1>1. Boundary(events, cutoff, p)
  <2>1. events \in Seq(Nat)
    BY SeqMonotonic
  <2> QED
    BY <2>1, SearchFindsBoundary
<1>2. n \in Nat /\ p \in 0..n
  BY <1>1 DEF Boundary
<1>3. pruned = SubSeq(events, p + 1, n)
  BY DEF PruneWindow
<1> HIDE DEF p, pruned
<1>4. p + 1 \in 1..(n + 1) /\ n \in (p + 1) - 1..n
  BY <1>2
<1>5. /\ SubSeq(events, p + 1, n) \in Seq(S)
      /\ Len(SubSeq(events, p + 1, n)) = IF p + 1 <= n THEN n - (p + 1) + 1 ELSE 0
      /\ \A i \in 1..(n - (p + 1) + 1) : SubSeq(events, p + 1, n)[i] = events[(p + 1) + i - 1]
  <2>1. p + 1 \in Int /\ n \in Int /\ \A i \in (p + 1)..n : events[i] \in S
    BY <1>2
  <2> HIDE DEF n
  <2> QED
    BY <2>1, SubSeqProperties
<1> HIDE DEF n
<1>6. Len(pruned) = n - p
  BY <1>2, <1>3, <1>5
<1>7. ASSUME NEW i \in 1..(n - p) PROVE pruned[i] = events[p + i]
  <2>1. i \in 1..(n - (p + 1) + 1) /\ (p + 1) + i - 1 = p + i
    BY <1>2
  <2> QED
    BY <1>3, <1>5, <2>1
<1> QED
  BY <1>1, <1>3, <1>5, <1>6, <1>7 DEF n, p, pruned

-----------------------------------------------------------------------------
(* What is kept of all the events, when only those before the cutoff are gone. *)
OnlyStaleGone(kept, all, cutoff) ==
    /\ Len(kept) <= Len(all)
    /\ \A i \in 1..Len(kept) : kept[i] = all[Len(all) - Len(kept) + i]
    /\ \A i \in 1..(Len(all) - Len(kept)) : all[i] < cutoff

LEMMA StaleLater ==
    ASSUME NEW kept \in Seq(Nat), NEW all \in Seq(Nat), NEW cutoff \in Int, NEW later \in Int,
           OnlyStaleGone(kept, all, cutoff), cutoff <= later
    PROVE  OnlyStaleGone(kept, all, later)
<1>1. ASSUME NEW i \in 1..(Len(all) - Len(kept)) PROVE all[i] < later
  <2>1. all[i] \in Nat /\ all[i] < cutoff
    BY DEF OnlyStaleGone
  <2> QED
    BY <2>1
<1> QED
  BY <1>1 DEF OnlyStaleGone

LEMMA StaleAppend ==
    ASSUME NEW kept \in Seq(Nat), NEW all \in Seq(Nat), NEW cutoff \in Int, NEW t \in Nat,
           OnlyStaleGone(kept, all, cutoff)
    PROVE  OnlyStaleGone(Append(kept, t), Append(all, t), cutoff)
<1> DEFINE m == Len(kept)
           n == Len(all)
<1>1. m \in Nat /\ n \in Nat /\ m <= n
  BY DEF OnlyStaleGone
<1>2. Len(Append(kept, t)) = m + 1 /\ Len(Append(all, t)) = n + 1
  OBVIOUS
<1>3. \A i \in 1..m : Append(kept, t)[i] = kept[i] /\ kept[i] = all[n - m + i]
  BY DEF OnlyStaleGone
<1>4. \A i \in 1..n : Append(all, t)[i] = all[i]
  OBVIOUS
<1>5. Append(kept, t)[m + 1] = t /\ Append(all, t)[n + 1] = t
  OBVIOUS
<1>6. \A i \in 1..(n - m) : all[i] < cutoff
  BY DEF OnlyStaleGone
<1> HIDE DEF m, n
<1>7. ASSUME NEW i \in 1..(m + 1)
      PROVE  Append(kept, t)[i] = Append(all, t)[(n + 1) - (m + 1) + i]
  <2> DEFINE j == (n + 1) - (m + 1) + i
  <2>1. CASE i = m + 1
    <3>1. j = n + 1
      BY <1>1, <2>1
    <3> HIDE DEF j
    <3>2. Append(kept, t)[i] = Append(all, t)[j]
      BY <1>5, <2>1, <3>1
    <3> QED
      BY <3>2 DEF j
  <2>2. CASE i # m + 1
    <3>1. i \in 1..m /\ n - m + i \in 1..n /\ j = n - m + i
      BY <1>1, <2>2
    <3> HIDE DEF j
    <3>2. Append(kept, t)[i] = Append(all, t)[j]
      BY <1>3, <1>4, <3>1
    <3> QED
      BY <3>2 DEF j
  <2> QED
    BY <2>1, <2>2
<1>8. ASSUME NEW i \in 1..((n + 1) - (m + 1)) PROVE Append(all, t)[i] < cutoff
  <2>1. i \in 1..(n - m) /\ i \in 1..n
    BY <1>1
  <2> QED
    BY <1>4, <1>6, <2>1
<1>9. m + 1 <= n + 1
  BY <1>1
<1> QED
  BY <1>2, <1>7, <1>8, <1>9 DEF OnlyStaleGone

(* Events that ascend still do when a later one is appended ... *)
LEMMA AppendAscends ==
    ASSUME NEW s \in Seq(Nat), NEW t \in Nat, Ascends(s), \A i \in DOMAIN s : s[i] <= t,
           NEW longer, longer = Append(s, t)
    PROVE  Ascends(longer) /\ \A i \in DOMAIN longer : longer[i] <= t
<1> DEFINE n == Len(s)
<1>1. n \in Nat /\ DOMAIN s = 1..n
  OBVIOUS
<1>2. \A i \in 1..n : s[i] <= t /\ s[i] \in Nat
  BY <1>1
<1>3. \A i, j \in 1..n : i <= j => s[i] <= s[j]
  BY <1>1 DEF Ascends
<1>4. /\ longer[n + 1] = t /\ DOMAIN longer = 1..(n + 1)
      /\ \A i \in 1..n : longer[i] = s[i]
  BY <1>1
<1> HIDE DEF n
<1>5. ASSUME NEW i \in 1..(n + 1) PROVE longer[i] <= t
  <2>1. CASE i = n + 1
    BY <1>4, <2>1
  <2>2. CASE i # n + 1
    <3>1. i \in 1..n
      BY <1>1, <2>2
    <3> QED
      BY <1>2, <1>4, <3>1
  <2> QED
    BY <2>1, <2>2
<1>6. ASSUME NEW i \in 1..(n + 1), NEW j \in 1..(n + 1), i <= j
      PROVE  longer[i] <= longer[j]
  <2>1. CASE j = n + 1
    BY <1>4, <1>5, <2>1
  <2>2. CASE j # n + 1
    <3>1. i \in 1..n /\ j \in 1..n
      BY <1>1, <1>6, <2>2
    <3> QED
      BY <1>3, <1>4, <1>6, <3>1
  <2> QED
    BY <2>1, <2>2
<1> QED
  BY <1>4, <1>5, <1>6 DEF Ascends

(* ... and when some are gone. *)
LEMMA KeptAscends ==
    ASSUME NEW kept \in Seq(Nat), NEW all \in Seq(Nat), NEW cutoff \in Int,
           OnlyStaleGone(kept, all, cutoff), Ascends(all)
    PROVE  Ascends(kept)
<1> DEFINE m == Len(kept)
           n == Len(all)
<1>1. m \in Nat /\ n \in Nat /\ m <= n /\ DOMAIN kept = 1..m /\ DOMAIN all = 1..n
  BY DEF OnlyStaleGone
<1>2. \A i \in 1..m : kept[i] = all[n - m + i]
  BY DEF OnlyStaleGone
<1>3. \A i, j \in 1..n : i <= j => all[i] <= all[j]
  BY <1>1 DEF Ascends
<1> HIDE DEF m, n
<1>4. ASSUME NEW i \in 1..m, NEW j \in 1..m, i <= j PROVE kept[i] <= kept[j]
  <2>1. n - m + i \in 1..n /\ n - m + j \in 1..n /\ n - m + i <= n - m + j
    BY <1>1, <1>4
  <2> QED
    BY <1>2, <1>3, <2>1
<1> QED
  BY <1>1, <1>4 DEF Ascends

(* Pruning takes away what is before its own cutoff and no more ... *)
LEMMA PrunedOnlyStale ==
    ASSUME NEW kept \in Seq(Nat), NEW all \in Seq(Nat), NEW cutoff \in Int,
           Ascends(all), OnlyStaleGone(kept, all, cutoff),
           NEW pruned, pruned = PruneWindow(kept, cutoff)
    PROVE  /\ OnlyStaleGone(pruned, all, cutoff)
           /\ Len(pruned) = Cardinality({i \in DOMAIN all : all[i] >= cutoff})
<1> DEFINE m == Len(kept)
           n == Len(all)
           p == Stale(kept, cutoff)
           q == n - m + p
<1>1. Ascends(kept)
  BY KeptAscends
<1>2. /\ Boundary(kept, cutoff, p)
      /\ Len(pruned) = m - p
      /\ \A i \in 1..Len(pruned) : pruned[i] = kept[p + i]
  <2>1. Nat \in SUBSET Nat
    OBVIOUS
  <2> QED
    BY <1>1, <2>1, PruneWindowKeeps, Zenon
<1>3. /\ m \in Nat /\ n \in Nat /\ m <= n /\ p \in 0..m /\ q \in 0..n
      /\ n - Len(pruned) = q /\ n - q = Len(pruned)
      /\ DOMAIN all = 1..n
  BY <1>2 DEF OnlyStaleGone, Boundary
<1>4. \A i \in 1..m : kept[i] = all[n - m + i]
  BY DEF OnlyStaleGone
<1>5. \A i \in 1..(n - m) : all[i] < cutoff
  BY DEF OnlyStaleGone
<1>6. \A i \in 1..m : kept[i] < cutoff <=> i <= p
  BY <1>2 DEF Boundary
<1>7. \A i \in 1..n : all[i] \in Nat
  OBVIOUS
<1> HIDE DEF p
<1>8. ASSUME NEW i \in 1..n PROVE all[i] < cutoff <=> i <= q
  <2>1. CASE i <= n - m
    BY <1>3, <1>5, <2>1
  <2>2. CASE i > n - m
    <3>1. i - (n - m) \in 1..m /\ n - m + (i - (n - m)) = i
      BY <1>3, <2>2
    <3>2. all[i] = kept[i - (n - m)]
      BY <1>4, <3>1
    <3>3. i - (n - m) <= p <=> i <= q
      BY <1>3
    <3> QED
      BY <1>6, <3>1, <3>2, <3>3
  <2> QED
    BY <1>3, <2>1, <2>2
<1>9. OnlyStaleGone(pruned, all, cutoff)
  <2>1. ASSUME NEW i \in 1..Len(pruned) PROVE pruned[i] = all[q + i]
    <3>1. p + i \in 1..m /\ n - m + (p + i) = q + i
      BY <1>2, <1>3
    <3> QED
      BY <1>2, <1>4, <3>1
  <2>2. ASSUME NEW i \in 1..q PROVE all[i] < cutoff
    BY <1>3, <1>8
  <2>3. Len(pruned) <= n
    BY <1>2, <1>3
  <2> HIDE DEF q
  <2> QED
    BY <1>3, <2>1, <2>2, <2>3 DEF OnlyStaleGone
<1>10. {i \in DOMAIN all : all[i] >= cutoff} = (q + 1)..n
  <2>1. \A i \in 1..n : all[i] >= cutoff <=> i > q
    BY <1>3, <1>7, <1>8
  <2> HIDE DEF q
  <2> QED
    BY <1>3, <2>1
<1>11. Cardinality((q + 1)..n) = n - q
  <2>1. q + 1 \in Int /\ n \in Int
    BY <1>3
  <2>2. Cardinality((q + 1)..n) = IF q + 1 > n THEN 0 ELSE n - (q + 1) + 1
    BY <2>1, FS_Interval, Zenon
  <2> HIDE DEF q
  <2> QED
    BY <1>3, <2>2
<1> QED
  BY <1>3, <1>9, <1>10, <1>11

(* The events from the cutoff on. *)
Recent(all, cutoff) == {i \in DOMAIN all : all[i] >= cutoff}

(***************************************************************************)
(* A window kept since a cutoff: all the events from there on, no others.  *)
(***************************************************************************)
KeptSince(kept, all, cutoff) ==
    /\ OnlyStaleGone(kept, all, cutoff)
    /\ \A i \in 1..Len(kept) : ~(kept[i] < cutoff)

LEMMA NothingStale ==
    ASSUME NEW kept \in Seq(Nat), Ascends(kept), NEW cutoff \in Int,
           \A i \in 1..Len(kept) : ~(kept[i] < cutoff)
    PROVE  Stale(kept, cutoff) = 0
<1>1. Boundary(kept, cutoff, Stale(kept, cutoff))
  BY SearchFindsBoundary
<1> DEFINE p == Stale(kept, cutoff)
           m == Len(kept)
<1>2. p \in 0..m /\ m \in Nat /\ \A i \in 1..m : kept[i] < cutoff <=> i <= p
  BY <1>1 DEF Boundary
<1>3. \A i \in 1..m : ~(kept[i] < cutoff)
  OBVIOUS
<1> HIDE DEF p, m
<1>4. p = 0
  <2>1. SUFFICES ASSUME p # 0 PROVE FALSE
    OBVIOUS
  <2>2. 1 \in 1..m /\ 1 <= p
    BY <1>2, <2>1
  <2> QED
    BY <1>2, <1>3, <2>2
<1> QED
  BY <1>4 DEF p

(* Pruning a window that is kept since an earlier cutoff ... *)
LEMMA PrunedForLater ==
    ASSUME NEW kept \in Seq(Nat), NEW all \in Seq(Nat), NEW since \in Int, NEW cutoff \in Int,
           Ascends(all), KeptSince(kept, all, since), since <= cutoff,
           NEW pruned, pruned = PruneWindow(kept, cutoff)
    PROVE  /\ KeptSince(pruned, all, cutoff)
           /\ Len(pruned) = Cardinality(Recent(all, cutoff))
<1>1. OnlyStaleGone(kept, all, cutoff)
  BY StaleLater DEF KeptSince
<1>2. /\ OnlyStaleGone(pruned, all, cutoff)
      /\ Len(pruned) = Cardinality(Recent(all, cutoff))
  BY <1>1, PrunedOnlyStale DEF Recent
<1> DEFINE p == Stale(kept, cutoff)
           m == Len(kept)
<1>3. /\ Boundary(kept, cutoff, p)
      /\ Len(pruned) = m - p
      /\ \A i \in 1..Len(pruned) : pruned[i] = kept[p + i]
  <2>1. Ascends(kept)
    BY <1>1, KeptAscends
  <2>2. Nat \in SUBSET Nat
    OBVIOUS
  <2> QED
    BY <2>1, <2>2, PruneWindowKeeps, Zenon
<1>4. p \in 0..m /\ m \in Nat /\ \A i \in 1..m : kept[i] < cutoff <=> i <= p
  BY <1>3 DEF Boundary
<1> HIDE DEF p, m
<1>5. ASSUME NEW i \in 1..Len(pruned) PROVE ~(pruned[i] < cutoff)
  <2>1. p + i \in 1..m /\ ~(p + i <= p)
    BY <1>3, <1>4
  <2> QED
    BY <1>3, <1>4, <2>1
<1> QED
  BY <1>2, <1>5 DEF KeptSince

(* ... and one that is kept since a later cutoff, which takes nothing away. *)
LEMMA PrunedForEarlier ==
    ASSUME NEW kept \in Seq(Nat), NEW all \in Seq(Nat), NEW since \in Int, NEW cutoff \in Int,
           Ascends(all), KeptSince(kept, all, since), cutoff <= since,
           NEW pruned, pruned = PruneWindow(kept, cutoff)
    PROVE  /\ KeptSince(pruned, all, since)
           /\ Len(pruned) = Cardinality(Recent(all, since))
<1>1. Ascends(kept) /\ OnlyStaleGone(kept, all, since)
  BY KeptAscends DEF KeptSince
<1>2. \A i \in 1..Len(kept) : kept[i] \in Nat /\ ~(kept[i] < since)
  BY DEF KeptSince
<1>3. \A i \in 1..Len(kept) : ~(kept[i] < cutoff)
  BY <1>2
<1>4. Stale(kept, cutoff) = 0 /\ Stale(kept, since) = 0
  BY <1>1, <1>2, <1>3, NothingStale
<1>5. \A c \in Int : /\ Len(PruneWindow(kept, c)) = Len(kept) - Stale(kept, c)
                     /\ \A i \in 1..Len(PruneWindow(kept, c)) :
                           PruneWindow(kept, c)[i] = kept[Stale(kept, c) + i]
  <2>1. Nat \in SUBSET Nat
    OBVIOUS
  <2> QED
    BY <1>1, <2>1, PruneWindowKeeps, Zenon
<1>6. /\ Len(pruned) = Len(kept) - 0
      /\ \A i \in 1..Len(pruned) : pruned[i] = kept[0 + i]
      /\ Len(PruneWindow(kept, since)) = Len(kept) - 0
  BY <1>4, <1>5, Zenon
<1>7. Len(PruneWindow(kept, since)) = Cardinality(Recent(all, since))
  BY <1>1, PrunedOnlyStale DEF Recent
<1>8. Len(pruned) = Len(kept) /\ \A i \in 1..Len(kept) : pruned[i] = kept[i]
  <2>1. Len(kept) \in Nat
    OBVIOUS
  <2>2. Len(pruned) = Len(kept)
    BY <1>6, <2>1
  <2>3. ASSUME NEW i \in 1..Len(kept) PROVE pruned[i] = kept[i]
    BY <1>6, <2>1, <2>2
  <2> QED
    BY <2>2, <2>3
<1>9. KeptSince(pruned, all, since)
  BY <1>1, <1>2, <1>8 DEF KeptSince, OnlyStaleGone
<1> QED
  BY <1>6, <1>7, <1>8, <1>9

(* Together: as of the later of the two moments. *)
LEMMA PrunedAsOf ==
    ASSUME NEW kept \in Seq(Nat), NEW all \in Seq(Nat), Ascends(all),
           NEW since \in Int, KeptSince(kept, all, since),
           NEW cutoff \in Int, NEW pruned, pruned = PruneWindow(kept, cutoff),
           NEW edge, edge = IF since <= cutoff THEN cutoff ELSE since
    PROVE  /\ KeptSince(pruned, all, edge)
           /\ Len(pruned) = Cardinality(Recent(all, edge))
<1>1. CASE since <= cutoff
  BY <1>1, PrunedForLater
<1>2. CASE ~(since <= cutoff)
  <2>1. cutoff <= since /\ edge = since
    BY <1>2
  <2> QED
    BY <2>1, PrunedForEarlier
<1> QED
  BY <1>1, <1>2

LEMMA KeptAppend ==
    ASSUME NEW kept \in Seq(Nat), NEW all \in Seq(Nat), NEW cutoff \in Int, NEW t \in Nat,
           KeptSince(kept, all, cutoff), cutoff <= t
    PROVE  KeptSince(Append(kept, t), Append(all, t), cutoff)
<1>1. OnlyStaleGone(Append(kept, t), Append(all, t), cutoff)
  BY StaleAppend DEF KeptSince
<1> DEFINE m == Len(kept)
           longer == Append(kept, t)
<1>2. /\ m \in Nat /\ Len(longer) = m + 1 /\ longer[m + 1] = t
      /\ \A i \in 1..m : longer[i] = kept[i] /\ ~(kept[i] < cutoff)
  BY DEF KeptSince
<1> HIDE DEF m, longer
<1>3. ASSUME NEW i \in 1..Len(longer) PROVE ~(longer[i] < cutoff)
  <2>1. CASE i = m + 1
    BY <1>2, <2>1
  <2>2. CASE i # m + 1
    BY <1>2, <2>2
  <2> QED
    BY <2>1, <2>2
<1> QED
  BY <1>1, <1>3 DEF KeptSince, longer

-----------------------------------------------------------------------------
(***************************************************************************)
(* The inductive invariant.  Every window is kept since some moment, the   *)
(* latest that a question on it or an eviction has looked back from, and   *)
(* complete from there on; the next event, recorded at RecordedAt, is      *)
(* within it.                                                              *)
(***************************************************************************)
RecordedAt == IF recording = NoCall THEN clock ELSE recording.now
Kept(f, w) == IF data[f] = NoData THEN <<>> ELSE data[f].events[w]

InTime ==
    /\ RecordedAt <= clock /\ clock <= RecordedAt + MaxDelay
    /\ \A a \in Askers : asking[a] # NoCall => asking[a].now <= clock
    /\ cleaning # NoCall => cleaning <= clock

HistoryAscends ==
    \A f \in Fingerprints :
        /\ Ascends(history[f])
        /\ \A i \in DOMAIN history[f] :
              /\ history[f][i] <= RecordedAt
              /\ data[f] # NoData => history[f][i] <= data[f].lastSeen

WindowsComplete ==
    \A f \in Fingerprints, w \in Windows :
        \E since \in 0..clock : KeptSince(Kept(f, w), history[f], since - Duration[w])

Inv == TypeOK /\ InTime /\ HistoryAscends /\ WindowsComplete

LEMMA TimesAreNat == Times \in SUBSET Nat
BY BoundsAssumption DEF Times

LEMMA Typing ==
    ASSUME TypeOK
    PROVE  /\ clock \in Nat
           /\ RecordedAt \in Times /\ RecordedAt \in Nat
           /\ \A a \in Askers : asking[a] # NoCall =>
                 asking[a].fingerprint \in Fingerprints /\ asking[a].now \in Nat
           /\ \A f \in Fingerprints :
                 /\ history[f] \in Seq(Times) /\ history[f] \in Seq(Nat)
                 /\ data[f] # NoData => data[f] \in Data
           /\ \A w \in Windows : Duration[w] \in Nat
<1>1. clock \in Nat /\ RecordedAt \in Times
  BY TimesAreNat DEF TypeOK, RecordedAt, Calls
<1>2. \A f \in Fingerprints : history[f] \in Seq(Times)
  BY DEF TypeOK
<1>3. \A f \in Fingerprints : history[f] \in Seq(Nat)
  BY <1>2, TimesAreNat, SeqMonotonic
<1>4. \A f \in Fingerprints : data[f] # NoData => data[f] \in Data
  BY DEF TypeOK
<1>5. \A w \in Windows : Duration[w] \in Nat
  BY WindowsAssumption
<1>6. ASSUME NEW a \in Askers, asking[a] # NoCall
      PROVE  asking[a].fingerprint \in Fingerprints /\ asking[a].now \in Nat
  BY <1>6, TimesAreNat DEF TypeOK, Calls
<1> QED
  BY <1>1, <1>2, <1>3, <1>4, <1>5, <1>6, TimesAreNat

LEMMA TypingNext ==
    ASSUME TypeOK'
    PROVE  clock' \in Nat /\ RecordedAt' \in Times /\ RecordedAt' \in Nat
BY TimesAreNat DEF TypeOK, RecordedAt, Calls

LEMMA KeptTyping ==
    ASSUME TypeOK, NEW f \in Fingerprints, NEW w \in Windows
    PROVE  Kept(f, w) \in Seq(Times) /\ Kept(f, w) \in Seq(Nat)
<1>1. Kept(f, w) \in Seq(Times)
  <2>1. CASE data[f] = NoData
    BY <2>1, EmptySeq DEF Kept
  <2>2. CASE data[f] # NoData
    BY <2>2, Typing DEF Kept, Data
  <2> QED
    BY <2>1, <2>2
<1>2. Kept(f, w) \in Seq(Nat)
  BY <1>1, TimesAreNat, SeqMonotonic
<1> QED
  BY <1>1, <1>2

LEMMA InitInv ==
    ASSUME Init
    PROVE  Inv
<1>1. TypeOK
  BY BoundsAssumption, EmptySeq DEF Init, TypeOK, Times
<1>2. InTime
  BY DelayAssumption DEF Init, InTime, RecordedAt
<1>3. HistoryAscends
  <2>1. ASSUME NEW f \in Fingerprints PROVE DOMAIN history[f] = {}
    <3>1. history[f] = <<>> /\ Len(<<>>) = 0 /\ <<>> \in Seq(Nat)
      BY DEF Init
    <3> QED
      BY <3>1
  <2> QED
    BY <2>1, Zenon DEF HistoryAscends, Ascends
<1>4. WindowsComplete
  <2>1. SUFFICES ASSUME NEW f \in Fingerprints, NEW w \in Windows
                 PROVE  \E since \in 0..clock :
                           KeptSince(Kept(f, w), history[f], since - Duration[w])
    BY DEF WindowsComplete
  <2>2. Kept(f, w) = <<>> /\ history[f] = <<>> /\ 0 \in 0..clock
    BY DEF Init, Kept
  <2>3. KeptSince(<<>>, <<>>, 0 - Duration[w])
    BY DEF KeptSince, OnlyStaleGone
  <2> QED
    BY <2>2, <2>3
<1> QED
  BY <1>1, <1>2, <1>3, <1>4 DEF Inv

(* A step that records, prunes and evicts nothing may only let time pass. *)
LEMMA TimePasses ==
    ASSUME Inv, TypeOK', InTime', UNCHANGED <<data, history>>,
           clock <= clock', RecordedAt <= RecordedAt'
    PROVE  Inv'
<1>1. HistoryAscends'
  <2>1. ASSUME NEW f \in Fingerprints, NEW i \in DOMAIN history[f]
        PROVE  history[f][i] <= RecordedAt'
    <3>1. history[f][i] \in Nat /\ history[f][i] <= RecordedAt
      BY Typing DEF Inv, HistoryAscends
    <3>2. RecordedAt \in Nat /\ RecordedAt' \in Nat
      BY Typing, TypingNext DEF Inv
    <3> QED
      BY <3>1, <3>2
  <2> QED
    BY <2>1 DEF Inv, HistoryAscends
<1>2. WindowsComplete'
  <2>1. clock \in Nat /\ clock' \in Nat
    BY Typing, TypingNext DEF Inv
  <2>2. 0..clock \in SUBSET (0..clock')
    BY <2>1
  <2>3. WindowsComplete
    BY DEF Inv
  <2>4. \A f \in Fingerprints, w \in Windows : Kept(f, w)' = Kept(f, w)
    BY DEF Kept
  <2> QED
    BY <2>2, <2>3, <2>4, Zenon DEF WindowsComplete
<1> QED
  BY <1>1, <1>2 DEF Inv

LEMMA TickInv ==
    ASSUME Inv, Tick
    PROVE  Inv'
<1>1. clock' \in Times /\ clock' = clock + 1 /\ clock \in Nat
  BY BoundsAssumption DEF Inv, TypeOK, Tick, Times
<1>2. TypeOK'
  BY <1>1 DEF Inv, TypeOK, Tick
<1>3. /\ RecordedAt \in Nat /\ MaxDelay \in Nat
      /\ recording # NoCall => RecordedAt' = RecordedAt /\ clock - RecordedAt < MaxDelay
      /\ recording = NoCall => RecordedAt' = clock' /\ RecordedAt = clock
      /\ RecordedAt <= clock
  BY Typing, DelayAssumption DEF Inv, InTime, RecordedAt, Tick
<1>4. cleaning' # NoCall => cleaning' <= clock'
  <2>1. cleaning' = cleaning /\ (cleaning # NoCall => cleaning \in Nat /\ cleaning <= clock)
    BY TimesAreNat DEF Inv, TypeOK, InTime, Tick
  <2> QED
    BY <1>1, <2>1
<1>5. ASSUME NEW a \in Askers, asking'[a] # NoCall PROVE asking'[a].now <= clock'
  <2>1. asking' = asking
    BY DEF Tick
  <2>2. asking[a].now \in Nat /\ asking[a].now <= clock
    BY <1>5, <2>1, Typing DEF Inv, InTime
  <2> QED
    BY <1>1, <2>1, <2>2
<1>6. InTime'
  BY <1>1, <1>3, <1>4, <1>5 DEF InTime
<1>7. RecordedAt <= RecordedAt' /\ clock <= clock'
  BY <1>1, <1>3
<1>8. UNCHANGED <<data, history>>
  BY DEF Tick
<1> QED
  BY <1>2, <1>6, <1>7, <1>8, TimePasses

LEMMA CallRecordInv ==
    ASSUME Inv, NEW f \in Fingerprints, CallRecord(f)
    PROVE  Inv'
<1>1. /\ recording = NoCall /\ recording' = [fingerprint |-> f, now |-> clock]
      /\ UNCHANGED <<clock, data, asking, cleaning, history>>
  BY DEF CallRecord
<1>2. recording' \in Calls /\ recording' # NoCall
  BY <1>1, NoneAssumption DEF Inv, TypeOK, Calls
<1>3. TypeOK'
  BY <1>1, <1>2 DEF Inv, TypeOK
<1>4. RecordedAt' = clock /\ RecordedAt = clock
  BY <1>1, <1>2 DEF RecordedAt
<1>5. clock \in Nat /\ MaxDelay \in Nat
  BY Typing, DelayAssumption DEF Inv
<1>6. InTime'
  BY <1>1, <1>4, <1>5 DEF Inv, InTime
<1>7. clock <= clock' /\ RecordedAt <= RecordedAt'
  BY <1>1, <1>4, <1>5
<1>8. UNCHANGED <<data, history>>
  BY <1>1
<1> QED
  BY <1>3, <1>6, <1>7, <1>8, TimePasses

LEMMA AskInv ==
    ASSUME Inv, NEW a \in Askers, NEW f \in Fingerprints, Ask(a, f)
    PROVE  Inv'
<1> DEFINE call == [fingerprint |-> f, now |-> clock]
<1>1. /\ asking' = [asking EXCEPT ![a] = call]
      /\ UNCHANGED <<clock, data, recording, cleaning, history>>
  BY DEF Ask
<1>2. call \in Calls /\ call.now = clock /\ clock \in Nat
  BY Typing DEF Inv, TypeOK, Calls
<1> HIDE DEF call
<1>3. TypeOK'
  BY <1>1, <1>2 DEF Inv, TypeOK
<1>4. RecordedAt' = RecordedAt /\ RecordedAt \in Nat
  BY <1>1, Typing DEF RecordedAt, Inv
<1>5. \A b \in Askers : asking'[b] # NoCall => asking'[b].now <= clock
  BY <1>1, <1>2 DEF Inv, InTime, TypeOK
<1>6. InTime'
  BY <1>1, <1>4, <1>5 DEF Inv, InTime
<1>7. clock <= clock' /\ RecordedAt <= RecordedAt'
  BY <1>1, <1>2, <1>4
<1>8. UNCHANGED <<data, history>>
  BY <1>1
<1> QED
  BY <1>3, <1>6, <1>7, <1>8, TimePasses

LEMMA CleanupTicksInv ==
    ASSUME Inv, CleanupTicks
    PROVE  Inv'
<1>1. cleaning' = clock /\ UNCHANGED <<clock, data, recording, asking, history>>
  BY DEF CleanupTicks
<1>2. TypeOK'
  BY <1>1 DEF Inv, TypeOK
<1>3. RecordedAt' = RecordedAt
  BY <1>1 DEF RecordedAt
<1>4. RecordedAt \in Nat /\ clock \in Nat
  BY Typing DEF Inv
<1>5. InTime'
  BY <1>1, <1>3, <1>4 DEF Inv, InTime
<1>6. clock <= clock' /\ RecordedAt <= RecordedAt'
  BY <1>1, <1>3, <1>4
<1>7. UNCHANGED <<data, history>>
  BY <1>1
<1> QED
  BY <1>2, <1>5, <1>6, <1>7, TimePasses

LEMMA RecordInv ==
    ASSUME Inv, Record
    PROVE  Inv'
<1> DEFINE f == recording.fingerprint
           t == recording.now
           d == IF data[f] = NoData THEN Fresh ELSE data[f]
           new == [events |-> [w \in Windows |-> Append(d.events[w], t)], lastSeen |-> t]
<1>1. /\ recording # NoCall
      /\ data' = [data EXCEPT ![f] = new]
      /\ history' = [history EXCEPT ![f] = Append(@, t)]
      /\ recording' = NoCall
      /\ UNCHANGED <<clock, asking, cleaning>>
  BY DEF Record
<1>2. f \in Fingerprints /\ t \in Times /\ t \in Nat
  BY <1>1, TimesAreNat DEF Inv, TypeOK, Calls
<1>3. ASSUME NEW w \in Windows
      PROVE  /\ d.events[w] = Kept(f, w) /\ d.events[w] \in Seq(Times)
             /\ new.events[w] = Append(Kept(f, w), t) /\ new.events[w] \in Seq(Times)
  <2>1. d.events[w] = Kept(f, w)
    BY DEF Kept, Fresh
  <2>2. d.events[w] \in Seq(Times)
    BY <1>2, <2>1, KeptTyping DEF Inv
  <2>3. new.events[w] = Append(d.events[w], t)
    OBVIOUS
  <2> HIDE DEF d, new, f, t
  <2>4. new.events[w] \in Seq(Times)
    BY <1>2, <2>2, <2>3
  <2> QED
    BY <2>1, <2>2, <2>3, <2>4
<1>4. new \in Data
  <2>1. \A w \in Windows : Append(d.events[w], t) \in Seq(Times)
    BY <1>3
  <2>2. [w \in Windows |-> Append(d.events[w], t)] \in [Windows -> Seq(Times)]
    BY <2>1
  <2> HIDE DEF d, t
  <2> QED
    BY <1>2, <2>2 DEF Data
<1>5. new # NoData /\ new.lastSeen = t
  BY <1>4, NoneAssumption
<1> HIDE DEF new, d
<1>6. /\ \A g \in Fingerprints : g # f => data'[g] = data[g] /\ history'[g] = history[g]
      /\ data'[f] = new /\ history'[f] = Append(history[f], t)
      /\ history[f] \in Seq(Times)
  BY <1>1, <1>2 DEF Inv, TypeOK
<1>7. TypeOK'
  <2>1. data' \in [Fingerprints -> Data \union {NoData}]
    BY <1>1, <1>2, <1>4 DEF Inv, TypeOK
  <2>2. history' \in [Fingerprints -> Seq(Times)]
    <3>1. Append(history[f], t) \in Seq(Times)
      BY <1>2, <1>6
    <3> QED
      BY <1>1, <1>2, <3>1 DEF Inv, TypeOK
  <2> QED
    BY <1>1, <2>1, <2>2 DEF Inv, TypeOK
<1>8. /\ RecordedAt = t /\ RecordedAt' = clock /\ t <= clock /\ clock <= t + MaxDelay
      /\ clock \in Nat /\ MaxDelay \in Nat
  BY <1>1, Typing, DelayAssumption DEF Inv, InTime, RecordedAt
<1>9. InTime'
  BY <1>1, <1>8 DEF Inv, InTime
<1>10. HistoryAscends'
  <2>1. ASSUME NEW g \in Fingerprints, g # f
        PROVE  /\ Ascends(history'[g])
               /\ \A i \in DOMAIN history'[g] :
                     /\ history'[g][i] <= clock
                     /\ data'[g] # NoData => history'[g][i] <= data'[g].lastSeen
    <3>1. /\ Ascends(history[g])
          /\ \A i \in DOMAIN history[g] :
                /\ history[g][i] <= t /\ history[g][i] \in Nat
                /\ data[g] # NoData => history[g][i] <= data[g].lastSeen
      BY <1>8, Typing DEF Inv, HistoryAscends
    <3> QED
      BY <1>2, <1>6, <1>8, <2>1, <3>1
  <2>2. /\ Ascends(history'[f])
        /\ \A i \in DOMAIN history'[f] : history'[f][i] <= clock /\ history'[f][i] <= t
    <3>1. history[f] \in Seq(Nat)
      BY <1>2, Typing DEF Inv
    <3>2. Ascends(history[f]) /\ \A i \in DOMAIN history[f] : history[f][i] <= t
      BY <1>2, <1>8 DEF Inv, HistoryAscends
    <3> HIDE DEF f, t
    <3>3. /\ Ascends(history'[f])
          /\ \A i \in DOMAIN history'[f] : history'[f][i] <= t
      BY <1>2, <1>6, <3>1, <3>2, AppendAscends
    <3>4. history'[f] \in Seq(Nat)
      BY <1>2, <1>6, <3>1
    <3>5. \A i \in DOMAIN history'[f] : history'[f][i] \in Nat
      BY <3>4
    <3> QED
      BY <1>2, <1>8, <3>3, <3>5
  <2>3. data'[f].lastSeen = t
    BY <1>5, <1>6
  <2> HIDE DEF f, t
  <2> QED
    BY <1>8, <2>1, <2>2, <2>3 DEF HistoryAscends
<1>11. WindowsComplete'
  <2>1. SUFFICES ASSUME NEW g \in Fingerprints, NEW w \in Windows
                 PROVE  \E since \in 0..clock :
                           KeptSince(Kept(g, w)', history'[g], since - Duration[w])
    BY <1>1 DEF WindowsComplete
  <2>2. PICK since \in 0..clock : KeptSince(Kept(g, w), history[g], since - Duration[w])
    BY DEF Inv, WindowsComplete
  <2> DEFINE cutoff == since - Duration[w]
  <2>3. CASE g # f
    <3>1. Kept(g, w)' = Kept(g, w) /\ history'[g] = history[g]
      BY <1>6, <2>3 DEF Kept
    <3> QED
      BY <2>2, <3>1
  <2>4. CASE g = f
    <3>1. Kept(g, w)' = Append(Kept(g, w), t) /\ history'[g] = Append(history[g], t)
      BY <1>3, <1>5, <1>6, <2>4 DEF Kept
    <3>2. cutoff \in Int /\ Kept(g, w) \in Seq(Nat) /\ history[g] \in Seq(Nat)
      BY Typing, KeptTyping DEF Inv
    <3>3. cutoff <= t
      <4>1. MaxDelay <= Duration[w] /\ Duration[w] \in Nat
        BY WidthAssumption, WindowsAssumption
      <4> HIDE DEF t
      <4> QED
        BY <1>2, <1>8, <4>1
    <3>4. KeptSince(Kept(g, w), history[g], cutoff)
      BY <2>2
    <3> HIDE DEF cutoff
    <3>5. KeptSince(Append(Kept(g, w), t), Append(history[g], t), cutoff)
      BY <1>2, <3>2, <3>3, <3>4, KeptAppend
    <3> QED
      BY <3>1, <3>5 DEF cutoff
  <2> QED
    BY <2>3, <2>4
<1> QED
  BY <1>7, <1>9, <1>10, <1>11 DEF Inv

(* A pruned window is kept since the question, or since a later moment. *)
LEMMA AsOf ==
    ASSUME Inv, NEW f \in Fingerprints, NEW w \in Windows, NEW now \in 0..clock,
           NEW pruned, pruned = PruneWindow(Kept(f, w), now - Duration[w])
    PROVE  /\ \E asof \in now..clock :
                 /\ KeptSince(pruned, history[f], asof - Duration[w])
                 /\ Len(pruned) = Cardinality(Recent(history[f], asof - Duration[w]))
           /\ pruned \in Seq(Times)
<1> DEFINE kept == Kept(f, w)
           all == history[f]
           d == Duration[w]
<1>1. PICK since \in 0..clock : KeptSince(kept, all, since - d)
  BY DEF Inv, WindowsComplete
<1>2. /\ kept \in Seq(Times) /\ kept \in Seq(Nat) /\ all \in Seq(Nat) /\ d \in Nat
      /\ clock \in Nat
  BY Typing, KeptTyping DEF Inv
<1>3. Ascends(all)
  BY DEF Inv, HistoryAscends
<1> DEFINE asof == IF since <= now THEN now ELSE since
           before == since - d
           cutoff == now - d
           edge == asof - d
<1>4. /\ since \in Nat /\ now \in Nat /\ before \in Int /\ cutoff \in Int
      /\ edge = IF before <= cutoff THEN cutoff ELSE before
  BY <1>2
<1>5. asof \in now..clock
  BY <1>2, <1>4
<1>6. pruned = PruneWindow(kept, cutoff) /\ KeptSince(kept, all, before)
  BY <1>1
<1> HIDE DEF kept, all, d, asof, before, cutoff, edge
<1>7. KeptSince(pruned, all, edge) /\ Len(pruned) = Cardinality(Recent(all, edge))
  BY <1>2, <1>3, <1>4, <1>6, PrunedAsOf
<1>8. pruned \in Seq(Times)
  <2>1. Ascends(kept)
    BY <1>2, <1>3, <1>4, <1>6, KeptAscends DEF KeptSince
  <2> QED
    BY <1>2, <1>4, <1>6, <2>1, TimesAreNat, PruneWindowKeeps
<1> QED
  BY <1>5, <1>7, <1>8 DEF all, d, edge

(* A question prunes some windows of one fingerprint. *)
LEMMA AnswerInv ==
    ASSUME Inv, NEW a \in Askers, asking[a] # NoCall,
           NEW ws, NEW given, AnswerAfterPruning(a, ws, given)
    PROVE  Inv'
<1> DEFINE f == asking[a].fingerprint
           now == asking[a].now
           d == data[f]
           pruned == Pruned(d, ws, now)
<1>1. /\ data' = IF d = NoData THEN data ELSE [data EXCEPT ![f] = pruned]
      /\ asking' = [asking EXCEPT ![a] = NoCall]
      /\ UNCHANGED <<clock, recording, cleaning, history>>
  BY DEF AnswerAfterPruning
<1>2. f \in Fingerprints /\ now \in Nat /\ now <= clock /\ clock \in Nat /\ now \in 0..clock
  <2>1. f \in Fingerprints /\ now \in Nat /\ now <= clock /\ clock \in Nat
    BY Typing DEF Inv, InTime
  <2> HIDE DEF now
  <2> QED
    BY <2>1
<1>3. RecordedAt' = RecordedAt
  BY <1>1 DEF RecordedAt
<1>4. ASSUME d # NoData, NEW w \in Windows
      PROVE  /\ pruned.events[w] \in Seq(Times)
             /\ \E since \in 0..clock :
                   KeptSince(pruned.events[w], history[f], since - Duration[w])
  <2> DEFINE kept == d.events[w]
             cut == PruneWindow(kept, now - Duration[w])
  <2>1. kept = Kept(f, w)
    BY <1>4 DEF Kept
  <2>2. pruned.events[w] = IF w \in ws THEN cut ELSE kept
    BY <1>2, <1>4, Typing DEF Pruned, Data, Inv
  <2> HIDE DEF kept, f, d, now, pruned
  <2>3. CASE w \in ws
    <3>1. /\ \E asof \in now..clock : KeptSince(cut, history[f], asof - Duration[w])
          /\ cut \in Seq(Times)
      BY <1>2, <2>1, AsOf
    <3>2. now..clock \in SUBSET (0..clock)
      BY <1>2
    <3> HIDE DEF cut
    <3> QED
      BY <2>2, <2>3, <3>1, <3>2
  <2>4. CASE w \notin ws
    <3>1. \E since \in 0..clock : KeptSince(Kept(f, w), history[f], since - Duration[w])
      BY <1>2 DEF Inv, WindowsComplete
    <3>2. Kept(f, w) \in Seq(Times)
      BY <1>2, KeptTyping DEF Inv
    <3> QED
      BY <2>1, <2>2, <2>4, <3>1, <3>2
  <2> QED
    BY <2>3, <2>4
<1>5. ASSUME d # NoData PROVE pruned \in Data /\ pruned.lastSeen = d.lastSeen
  <2> DEFINE e == [w \in Windows |->
                     IF w \in ws THEN PruneWindow(d.events[w], now - Duration[w]) ELSE d.events[w]]
  <2>1. d \in Data /\ pruned = [d EXCEPT !.events = e]
    BY <1>2, <1>5, Typing DEF Pruned, Inv
  <2> HIDE DEF e
  <2>2. pruned.events = e /\ pruned.lastSeen = d.lastSeen /\ d.lastSeen \in Times
    BY <2>1 DEF Data
  <2>3. \A w \in Windows : e[w] \in Seq(Times)
    BY <1>4, <1>5, <2>2
  <2>4. e \in [Windows -> Seq(Times)]
    BY <2>3 DEF e
  <2> HIDE DEF pruned, d
  <2> QED
    BY <2>1, <2>2, <2>4 DEF Data
<1>6. /\ \A g \in Fingerprints : g # f => data'[g] = data[g]
      /\ data[f] = NoData => data' = data
      /\ data[f] # NoData => data'[f] = pruned /\ pruned # NoData
  <2> HIDE DEF pruned
  <2>1. data[f] # NoData => pruned # NoData
    BY <1>5, NoneAssumption
  <2> QED
    BY <1>1, <1>2, <2>1 DEF Inv, TypeOK
<1>7. TypeOK'
  <2>1. data' \in [Fingerprints -> Data \union {NoData}]
    <3> HIDE DEF pruned
    <3> QED
      BY <1>1, <1>2, <1>5 DEF Inv, TypeOK
  <2> QED
    BY <1>1, <2>1 DEF Inv, TypeOK
<1>8. InTime'
  <2>1. \A b \in Askers : asking'[b] # NoCall => asking'[b].now <= clock
    BY <1>1 DEF Inv, InTime, TypeOK
  <2> QED
    BY <1>1, <1>3, <2>1 DEF Inv, InTime
<1>9. HistoryAscends'
  <2>1. ASSUME NEW g \in Fingerprints, data'[g] # NoData
        PROVE  data[g] # NoData /\ data'[g].lastSeen = data[g].lastSeen
    <3> HIDE DEF pruned
    <3> QED
      BY <1>5, <1>6, <2>1
  <2>2. history' = history /\ RecordedAt' = RecordedAt
    BY <1>1, <1>3
  <2> QED
    BY <2>1, <2>2 DEF Inv, HistoryAscends
<1>10. WindowsComplete'
  <2>1. SUFFICES ASSUME NEW g \in Fingerprints, NEW w \in Windows
                 PROVE  \E since \in 0..clock :
                           KeptSince(Kept(g, w)', history[g], since - Duration[w])
    BY <1>1 DEF WindowsComplete
  <2>2. CASE g # f \/ data[f] = NoData
    <3>1. Kept(g, w)' = Kept(g, w)
      BY <1>6, <2>2 DEF Kept
    <3> QED
      BY <3>1 DEF Inv, WindowsComplete
  <2>3. CASE g = f /\ data[f] # NoData
    <3>1. Kept(g, w)' = pruned.events[w]
      BY <1>6, <2>3 DEF Kept
    <3> HIDE DEF pruned, f
    <3> QED
      BY <1>4, <2>3, <3>1
  <2> QED
    BY <2>2, <2>3
<1> QED
  BY <1>7, <1>8, <1>9, <1>10 DEF Inv

(* An eviction takes only what no question asked from then on looks back at. *)
LEMMA CleanupInv ==
    ASSUME Inv, Cleanup
    PROVE  Inv'
<1>1. /\ cleaning # NoCall /\ cleaning' = NoCall
      /\ \A f \in Fingerprints :
            data'[f] = IF data[f] # NoData /\ data[f].lastSeen < cleaning - StaleThreshold
                       THEN NoData ELSE data[f]
      /\ UNCHANGED <<clock, recording, asking, history>>
  BY DEF Cleanup
<1>2. TypeOK'
  <2>1. data' \in [Fingerprints -> Data \union {NoData}]
    BY DEF Inv, TypeOK, Cleanup
  <2> QED
    BY <1>1, <2>1 DEF Inv, TypeOK
<1>3. RecordedAt' = RecordedAt
  BY <1>1 DEF RecordedAt
<1>4. InTime'
  BY <1>1, <1>3 DEF Inv, InTime
<1>5. HistoryAscends'
  BY <1>1, <1>3 DEF Inv, HistoryAscends
<1>6. WindowsComplete'
  <2>1. SUFFICES ASSUME NEW f \in Fingerprints, NEW w \in Windows
                 PROVE  \E since \in 0..clock :
                           KeptSince(Kept(f, w)', history[f], since - Duration[w])
    BY <1>1 DEF WindowsComplete
  <2>2. CASE data'[f] = data[f]
    <3>1. Kept(f, w)' = Kept(f, w)
      BY <2>2 DEF Kept
    <3> QED
      BY <3>1 DEF Inv, WindowsComplete
  <2>3. CASE data'[f] # data[f]
    <3> DEFINE cutoff == cleaning - Duration[w]
    <3>1. /\ data[f] # NoData /\ data[f].lastSeen < cleaning - StaleThreshold
          /\ Kept(f, w)' = <<>>
      BY <1>1, <2>3 DEF Kept
    <3>2. cleaning \in Nat /\ cleaning <= clock /\ clock \in Nat
      BY <1>1, TimesAreNat, Typing DEF Inv, TypeOK, InTime
    <3>3. /\ Duration[w] <= StaleThreshold
          /\ Duration[w] \in Nat /\ StaleThreshold \in Nat
      BY WidthAssumption, WindowsAssumption, DelayAssumption
    <3>4. data[f].lastSeen \in Nat
      BY <3>1, Typing, TimesAreNat DEF Inv, Data
    <3>5. data[f].lastSeen < cutoff
      BY <3>1, <3>2, <3>3, <3>4
    <3>6. cutoff \in Int
      BY <3>2, <3>3
    <3> HIDE DEF cutoff
    <3>7. \A i \in DOMAIN history[f] : history[f][i] < cutoff
      <4>1. ASSUME NEW i \in DOMAIN history[f]
            PROVE  history[f][i] \in Nat /\ history[f][i] <= data[f].lastSeen
        BY <3>1, Typing DEF Inv, HistoryAscends
      <4> QED
        BY <3>4, <3>5, <3>6, <4>1
    <3>8. Len(history[f]) \in Nat /\ DOMAIN history[f] = 1..Len(history[f])
      BY Typing DEF Inv
    <3>9. KeptSince(<<>>, history[f], cutoff)
      BY <3>7, <3>8 DEF KeptSince, OnlyStaleGone
    <3>10. cleaning \in 0..clock
      BY <3>2
    <3> QED
      BY <3>1, <3>9, <3>10 DEF cutoff
  <2> QED
    BY <2>2, <2>3
<1> QED
  BY <1>2, <1>4, <1>5, <1>6 DEF Inv

LEMMA NextInv ==
    ASSUME Inv, [Next]_vars
    PROVE  Inv'
<1>1. CASE Tick
  BY <1>1, TickInv
<1>2. ASSUME NEW f \in Fingerprints, CallRecord(f) PROVE Inv'
  BY <1>2, CallRecordInv
<1>3. ASSUME NEW a \in Askers, NEW f \in Fingerprints, Ask(a, f) PROVE Inv'
  BY <1>3, AskInv
<1>4. CASE Record
  BY <1>4, RecordInv
<1>5. ASSUME NEW a \in Askers, GetFrequency(a) PROVE Inv'
  BY <1>5, AnswerInv DEF GetFrequency
<1>6. ASSUME NEW a \in Askers, IsBursting(a) PROVE Inv'
  BY <1>6, AnswerInv DEF IsBursting
<1>7. ASSUME NEW a \in Askers, IsRecurring(a) PROVE Inv'
  BY <1>7, AnswerInv DEF IsRecurring
<1>8. CASE CleanupTicks
  BY <1>8, CleanupTicksInv
<1>9. CASE Cleanup
  BY <1>9, CleanupInv
<1>10. CASE UNCHANGED vars
  BY <1>10 DEF vars, Inv, TypeOK, InTime, HistoryAscends, WindowsComplete, RecordedAt, Kept
<1> QED
  BY <1>1, <1>2, <1>3, <1>4, <1>5, <1>6, <1>7, <1>8, <1>9, <1>10 DEF Next

LEMMA AlwaysInv == Spec => []Inv
<1>1. Init => Inv
  BY InitInv
<1>2. Inv /\ [Next]_vars => Inv'
  BY NextInv
<1> QED
  BY <1>1, <1>2, PTL DEF Spec

(* The windows, the calls under way and the history keep their types. *)
THEOREM TypeCorrect == Spec => []TypeOK
<1>1. Inv => TypeOK
  BY DEF Inv
<1> QED
  BY <1>1, AlwaysInv, PTL

(***************************************************************************)
(* The events of every window ascend, as pruneWindow's binary search takes *)
(* for granted, and lastSeen is not before any of them: whatever the       *)
(* delays between clock and lock, and whatever is pruned or evicted.       *)
(***************************************************************************)
THEOREM WindowsAscend == Spec => []EventsAscend
<1>1. Inv => EventsAscend
  <2>1. SUFFICES ASSUME Inv, NEW f \in Fingerprints, NEW w \in Windows, data[f] # NoData
                 PROVE  LET events == data[f].events[w] IN
                        /\ \A i, j \in DOMAIN events : i <= j => events[i] <= events[j]
                        /\ \A i \in DOMAIN events : events[i] <= data[f].lastSeen
    BY DEF EventsAscend
  <2> DEFINE events == data[f].events[w]
             all == history[f]
  <2>2. events = Kept(f, w)
    BY <2>1 DEF Kept
  <2>0. PICK since \in 0..clock : KeptSince(Kept(f, w), all, since - Duration[w])
    BY <2>1 DEF Inv, WindowsComplete
  <2> DEFINE cutoff == since - Duration[w]
  <2>3. events \in Seq(Nat) /\ all \in Seq(Nat) /\ cutoff \in Int
    BY <2>1, <2>2, KeptTyping, Typing DEF Inv
  <2>4. OnlyStaleGone(events, all, cutoff)
    BY <2>0, <2>2 DEF KeptSince
  <2>5. Ascends(all) /\ \A i \in DOMAIN all : all[i] <= data[f].lastSeen
    BY <2>1 DEF Inv, HistoryAscends
  <2> HIDE DEF events, all, cutoff
  <2>6. Ascends(events)
    BY <2>3, <2>4, <2>5, KeptAscends
  <2>7. ASSUME NEW i \in DOMAIN events PROVE events[i] <= data[f].lastSeen
    <3> DEFINE m == Len(events)
               n == Len(all)
    <3>1. m \in Nat /\ n \in Nat /\ DOMAIN events = 1..m /\ DOMAIN all = 1..n
      BY <2>3
    <3>2. m <= n /\ \A k \in 1..m : events[k] = all[n - m + k]
      BY <2>4 DEF OnlyStaleGone
    <3> HIDE DEF m, n
    <3>3. n - m + i \in 1..n /\ events[i] = all[n - m + i]
      BY <3>1, <3>2
    <3> QED
      BY <2>5, <3>1, <3>3
  <2> QED
    BY <2>6, <2>7 DEF events, Ascends
<1> QED
  BY <1>1, AlwaysInv, PTL

-----------------------------------------------------------------------------
(* The refinement. *)

LEMMA InitRefines ==
    ASSUME Init
    PROVE  Promise!Init
BY DEF Init, Promise!Init

(* What is left of a window once it is pruned is exact as of some moment. *)
LEMMA CountsAgree ==
    ASSUME Inv, NEW f \in Fingerprints, NEW w \in Windows, NEW now \in 0..clock
    PROVE  /\ \E asof \in now..clock : Count(f, w, now) = Promise!Count(f, w, asof)
           /\ Count(f, w, now) \in Nat
<1> DEFINE kept == Kept(f, w)
           pruned == PruneWindow(kept, now - Duration[w])
<1>1. /\ \E asof \in now..clock :
            Len(pruned) = Cardinality(Recent(history[f], asof - Duration[w]))
      /\ pruned \in Seq(Times)
  BY AsOf
<1>2. \A asof : Promise!Count(f, w, asof) = Cardinality(Recent(history[f], asof - Duration[w]))
  BY Zenon DEF Promise!Count, Promise!Cardinality, Cardinality, Recent
<1>3. Count(f, w, now) = Len(pruned)
  <2>1. CASE data[f] # NoData
    BY <2>1 DEF Count, Kept
  <2>2. CASE data[f] = NoData
    <3>1. Count(f, w, now) = 0 /\ kept = <<>>
      BY <2>2 DEF Count, Kept
    <3> DEFINE cutoff == now - Duration[w]
    <3>2. cutoff \in Int /\ kept \in Seq(Nat)
      BY Typing, KeptTyping DEF Inv
    <3> HIDE DEF kept
    <3>3. Ascends(kept) /\ Nat \in SUBSET Nat
      BY <3>1 DEF Ascends
    <3> HIDE DEF cutoff
    <3>4. /\ Boundary(kept, cutoff, Stale(kept, cutoff))
          /\ Len(PruneWindow(kept, cutoff)) = Len(kept) - Stale(kept, cutoff)
      BY <3>2, <3>3, PruneWindowKeeps, Zenon
    <3>5. Len(PruneWindow(kept, cutoff)) = 0
      BY <3>1, <3>4 DEF Boundary
    <3> QED
      BY <3>1, <3>5 DEF cutoff
  <2> QED
    BY <2>1, <2>2
<1> HIDE DEF pruned
<1> QED
  BY <1>1, <1>2, <1>3

LEMMA RecordRefines ==
    ASSUME Inv, Record
    PROVE  Promise!Next
<1>1. /\ recording.fingerprint \in Fingerprints /\ recording.now = RecordedAt
      /\ RecordedAt \in 0..clock
  BY Typing DEF Inv, TypeOK, InTime, Calls, Record, RecordedAt
<1>2. Promise!Record(recording.fingerprint, recording.now)
  BY DEF Record, Promise!Record
<1> QED
  BY <1>1, <1>2 DEF Promise!Next

LEMMA AnswerRefines ==
    ASSUME Inv, NEW a \in Askers, GetFrequency(a) \/ IsBursting(a) \/ IsRecurring(a)
    PROVE  Promise!Next
<1> DEFINE f == asking[a].fingerprint
           now == asking[a].now
<1>1. asking[a] # NoCall /\ UNCHANGED <<clock, history>>
  BY DEF GetFrequency, IsBursting, IsRecurring, AnswerAfterPruning
<1>2. f \in Fingerprints /\ now \in 0..clock
  <2>1. f \in Fingerprints /\ now \in Nat /\ now <= clock /\ clock \in Nat
    BY <1>1, Typing DEF Inv, InTime
  <2> HIDE DEF now
  <2> QED
    BY <2>1
<1> HIDE DEF f, now
<1>3. \A w \in Windows : \E x \in now..clock : Count(f, w, now) = Promise!Count(f, w, x)
  BY <1>2, CountsAgree
<1>4. \A w \in Windows : Count(f, w, now) \in Nat
  BY <1>2, CountsAgree
<1> DEFINE asof == [w \in Windows |->
              CHOOSE x \in now..clock : Count(f, w, now) = Promise!Count(f, w, x)]
<1>5. /\ asof \in [Windows -> now..clock]
      /\ \A w \in Windows : Count(f, w, now) = Promise!Count(f, w, asof[w])
  BY <1>3, Zenon
<1> HIDE DEF asof
<1>6. SUFFICES answer' \in Promise!Answers(f, now, asof)
  <2>1. ASSUME answer' \in Promise!Answers(f, now, asof) PROVE Promise!Answer(f, now)
    BY <1>1, <1>5, <2>1, Zenon DEF Promise!Answer
  <2> QED
    BY <1>2, <2>1 DEF Promise!Next
<1>7. CASE GetFrequency(a)
  <2>1. answer' = [frequency |-> [w \in Windows |-> Count(f, w, now)],
                   fingerprint |-> f, asked |-> now]
    BY <1>7, Zenon DEF GetFrequency, AnswerAfterPruning, f, now
  <2>2. [w \in Windows |-> Count(f, w, now)] = [w \in Windows |-> Promise!Count(f, w, asof[w])]
    BY <1>5, Zenon
  <2> QED
    BY <2>1, <2>2, Zenon DEF Promise!Answers
<1>8. CASE IsBursting(a)
  <2>1. answer' = [bursting |-> Count(f, Shortest, now) > Threshold,
                   fingerprint |-> f, asked |-> now]
    BY <1>8, Zenon DEF IsBursting, AnswerAfterPruning, f, now
  <2>2. Count(f, Shortest, now) = Promise!Count(f, Shortest, asof[Shortest])
    BY <1>5, WindowsAssumption
  <2> QED
    BY <2>1, <2>2, Zenon DEF Promise!Answers
<1>9. CASE IsRecurring(a)
  <2> DEFINE all == {w \in Windows : Count(f, w, now) = 0} = {}
             every == \A w \in Windows : Promise!Count(f, w, asof[w]) > 0
  <2>1. answer' = [recurring |-> all, fingerprint |-> f, asked |-> now]
    BY <1>9, Zenon DEF IsRecurring, AnswerAfterPruning, f, now
  <2>2. all <=> every
    BY <1>4, <1>5
  <2>3. all = every
    BY <2>2, Zenon
  <2> QED
    BY <2>1, <2>3, Zenon DEF Promise!Answers
<1> QED
  BY <1>7, <1>8, <1>9

(***************************************************************************)
(* Every answer of GetFrequency, IsBursting and IsRecurring is, as of some *)
(* moment between its question and itself, the one of a detector that      *)
(* keeps every event: for any windows, any number of overlapping questions *)
(* and however late these and the cleanup take the lock.  It is assumed    *)
(* that Record has one caller, no slower from the clock to the lock than   *)
(* the shortest window, and that no window exceeds the stale threshold.    *)
(***************************************************************************)
THEOREM Implements == Spec => ImplementsFrequency
<1>1. Init => Promise!Init
  BY InitRefines
<1>2. Inv /\ [Next]_vars => [Promise!Next]_<<clock, history, answer>>
  <2> SUFFICES ASSUME Inv, [Next]_vars
               PROVE  [Promise!Next]_<<clock, history, answer>>
    OBVIOUS
  <2>1. CASE Record
    BY <2>1, RecordRefines
  <2>2. ASSUME NEW a \in Askers, GetFrequency(a) \/ IsBursting(a) \/ IsRecurring(a)
        PROVE  Promise!Next
    BY <2>2, AnswerRefines
  <2>3. CASE Tick
    BY <2>3 DEF Tick, Promise!Next, Promise!Tick
  <2>4. CASE CleanupTicks \/ Cleanup \/ UNCHANGED vars
    BY <2>4 DEF CleanupTicks, Cleanup, vars
  <2>5. ASSUME NEW f \in Fingerprints, CallRecord(f) \/ \E a \in Askers : Ask(a, f)
        PROVE  UNCHANGED <<clock, history, answer>>
    BY <2>5 DEF CallRecord, Ask
  <2> QED
    BY <2>1, <2>2, <2>3, <2>4, <2>5 DEF Next
<1> QED
  BY <1>1, <1>2, AlwaysInv, PTL DEF Spec, ImplementsFrequency, Promise!Spec
=============================================================================
