----------------------- MODULE ProviderSelectionProofs -----------------------
(***************************************************************************)
(* Proofs about the choice of services, for any networks, requests, window *)
(* and capacity: what the usage record holds, that a default choice takes  *)
(* the best services, and that a threshold can be met.                     *)
(***************************************************************************)
EXTENDS ProviderSelection, FiniteSetTheorems, SequenceTheorems,
        WellFoundedInduction, TLAPS

-----------------------------------------------------------------------------
(* Sequences of times. *)

(* Times in the order in which they were recorded. *)
Sorted(l) == \A i, j \in 1..Len(l) : i <= j => l[i] <= l[j]

(* t is what remains of l without its first p elements. *)
SuffixFrom(t, l, p) ==
  /\ Len(t) = Len(l) - p
  /\ \A i \in 1..Len(t) : t[i] = l[p + i]

(* The first k of the times in l, and no others, have expired. *)
ExpiredTo(l, k) == \A i \in 1..Len(l) : now - l[i] > Window <=> i <= k

(* A set of numbers has a least one. *)
LEMMA LeastNumber ==
  ASSUME NEW I \in SUBSET Nat, I # {}
  PROVE  \E u \in I : \A w \in I : u <= w
  <1> DEFINE R == OpToRel(<, Nat)
  <1>1. IsWellFoundedOn(R, Nat)
    BY NatLessThanWellFounded
  <1>2. PICK u \in I : \A w \in I : ~(<<w, u>> \in R)
    <2> HIDE DEF R
    <2> QED
      BY <1>1, WFMin
  <1>3. \A w \in I : ~(w < u)
    BY <1>2 DEF OpToRel
  <1> QED
    BY <1>3

(* A suffix is determined by where it starts. *)
LEMMA SuffixUnique ==
  ASSUME NEW t \in Seq(Time), NEW u \in Seq(Time), NEW l, NEW p,
         SuffixFrom(t, l, p), SuffixFrom(u, l, p)
  PROVE  t = u
  BY DEF SuffixFrom

(* A suffix of a suffix is a suffix. *)
LEMMA SuffixOfSuffix ==
  ASSUME NEW t \in Seq(Time), NEW u \in Seq(Time), NEW l \in Seq(Time),
         NEW p \in 0..Len(l), NEW q \in 0..Len(t),
         SuffixFrom(t, l, p), SuffixFrom(u, t, q)
  PROVE  SuffixFrom(u, l, p + q) /\ p + q \in 0..Len(l)
  <1>1. Len(u) \in Nat /\ Len(t) \in Nat /\ Len(l) \in Nat
    OBVIOUS
  <1>2. Len(u) = Len(l) - (p + q)
    BY <1>1 DEF SuffixFrom
  <1>3. ASSUME NEW i \in 1..Len(u) PROVE u[i] = l[(p + q) + i]
    <2>1. u[i] = t[q + i] /\ q + i \in 1..Len(t)
      BY <1>1, <1>3 DEF SuffixFrom
    <2>2. t[q + i] = l[p + (q + i)]
      BY <2>1 DEF SuffixFrom
    <2>3. p + (q + i) = (p + q) + i
      BY <1>1
    <2> QED
      BY <2>1, <2>2, <2>3
  <1> QED
    BY <1>1, <1>2, <1>3 DEF SuffixFrom

(* A suffix of what is in order is in order. *)
LEMMA SuffixSorted ==
  ASSUME NEW t \in Seq(Time), NEW l \in Seq(Time), NEW p \in 0..Len(l),
         SuffixFrom(t, l, p), Sorted(l)
  PROVE  Sorted(t)
  <1> SUFFICES ASSUME NEW i \in 1..Len(t), NEW j \in 1..Len(t), i <= j
               PROVE  t[i] <= t[j]
    BY DEF Sorted
  <1>1. t[i] = l[p + i] /\ t[j] = l[p + j] /\ Len(t) = Len(l) - p
    BY DEF SuffixFrom
  <1>2. p + i \in 1..Len(l) /\ p + j \in 1..Len(l) /\ p + i <= p + j
    BY <1>1
  <1> QED
    BY <1>1, <1>2 DEF Sorted

(* Of times in order, those that expired come first, and evict_expired leaves
   exactly the others. *)
LEMMA UnexpiredCuts ==
  ASSUME NEW l \in Seq(Time), Sorted(l), now \in Time
  PROVE  \E k \in 0..Len(l) :
           /\ ExpiredTo(l, k)
           /\ Unexpired(l) \in Seq(Time) /\ SuffixFrom(Unexpired(l), l, k)
  <1> DEFINE n == Len(l)
             expired == {i \in DOMAIN l : now - l[i] > Window}
             alive == {i \in 1..n : ~(now - l[i] > Window)}
  <1>0. /\ n \in Nat /\ now \in Int /\ Window \in Int
        /\ \A i \in 1..n : l[i] \in Int /\ l[i] \in Time
        /\ DOMAIN l = 1..n
    BY BoundAssumption DEF Time
  <1>1. PICK k \in 0..n : ExpiredTo(l, k)
    <2>1. CASE alive = {}
      <3>1. ExpiredTo(l, n)
        BY <1>0, <2>1 DEF ExpiredTo
      <3> QED
        BY <1>0, <3>1
    <2>2. CASE alive # {}
      <3>1. PICK u \in alive : \A w \in alive : u <= w
        <4>1. alive \in SUBSET Nat
          BY <1>0
        <4> HIDE DEF alive
        <4> QED
          BY <2>2, <4>1, LeastNumber
      <3>2. u \in 1..n /\ u - 1 \in 0..n
        BY <1>0, <3>1
      <3>3. ASSUME NEW i \in 1..n PROVE now - l[i] > Window <=> i <= u - 1
        <4>1. CASE i <= u - 1
          <5>1. i \notin alive
            BY <3>1, <3>2, <4>1
          <5> QED
            BY <4>1, <5>1
        <4>2. CASE ~(i <= u - 1)
          <5>1. l[u] <= l[i] /\ ~(now - l[u] > Window)
            BY <3>1, <3>2, <4>2 DEF Sorted
          <5> QED
            BY <1>0, <3>2, <4>2, <5>1
        <4> QED
          BY <4>1, <4>2
      <3>4. ExpiredTo(l, u - 1)
        BY <3>3 DEF ExpiredTo
      <3> QED
        BY <3>2, <3>4
    <2> QED
      BY <2>1, <2>2
  <1>2. expired = 1..k
    BY <1>0, <1>1 DEF ExpiredTo
  <1>3. Cardinality(expired) = k
    <2>1. Cardinality(1..k) = IF 1 > k THEN 0 ELSE k - 1 + 1
      BY FS_Interval
    <2>2. k \in Nat
      BY <1>0
    <2> HIDE DEF expired
    <2> QED
      BY <1>2, <2>1, <2>2
  <1>4. Unexpired(l) = SubSeq(l, k + 1, n)
    BY <1>3 DEF Unexpired
  <1>5. /\ Unexpired(l) \in Seq(Time)
        /\ Len(Unexpired(l)) = IF k + 1 <= n THEN n - (k + 1) + 1 ELSE 0
        /\ \A i \in 1..(n - (k + 1) + 1) : Unexpired(l)[i] = l[(k + 1) + i - 1]
    <2>1. k + 1 \in Int /\ n \in Int /\ \A i \in (k + 1)..n : l[i] \in Time
      BY <1>0
    <2> HIDE DEF n
    <2> DEFINE m == k + 1
    <2>2. m \in Int /\ \A i \in m..n : l[i] \in Time
      BY <2>1
    <2> HIDE DEF m
    <2>3. /\ SubSeq(l, m, n) \in Seq(Time)
          /\ Len(SubSeq(l, m, n)) = IF m <= n THEN n - m + 1 ELSE 0
          /\ \A i \in 1..(n - m + 1) : SubSeq(l, m, n)[i] = l[m + i - 1]
      BY <2>1, <2>2, SubSeqProperties
    <2> QED
      BY <1>4, <2>3 DEF m
  <1>6. SuffixFrom(Unexpired(l), l, k)
    <2>1. Len(Unexpired(l)) = n - k
      <3>1. k \in Nat /\ k <= n /\ n \in Nat
        BY <1>0
      <3> HIDE DEF n
      <3> QED
        BY <1>5, <3>1
    <2>2. \A i \in 1..(n - k) : Unexpired(l)[i] = l[k + i]
      <3> TAKE i \in 1..(n - k)
      <3>1. i \in 1..(n - (k + 1) + 1) /\ (k + 1) + i - 1 = k + i
        BY <1>0
      <3> QED
        BY <1>5, <3>1
    <2> QED
      BY <2>1, <2>2 DEF SuffixFrom
  <1> QED
    BY <1>1, <1>5, <1>6

-----------------------------------------------------------------------------
(* The usage record. *)

(* t, kept at time n, is what remains of the history l without its first p
   elements, and these had to go: the record is full, or they expired. *)
KeptFrom(t, l, p, n) ==
  /\ p \in 0..Len(l) /\ SuffixFrom(t, l, p)
  /\ Len(l) - p <= Capacity
  /\ p = 0 \/ Len(l) - p = Capacity \/ n - l[p] > Window

(* The history is in order and not of the future; t is kept of it. *)
Record(t, l, n) ==
  /\ t \in Seq(Time) /\ l \in Seq(Time)
  /\ Sorted(l) /\ \A i \in 1..Len(l) : l[i] <= n
  /\ \E p \in 0..Len(l) : KeptFrom(t, l, p, n)

(* The record of every service is what its history and the clock leave. *)
RecordInv ==
  /\ now \in Time
  /\ store = [s \in Supported |-> store[s]] /\ log = [s \in Supported |-> log[s]]
  /\ \A s \in Supported : Record(store[s], log[s], now)

(* Eviction keeps a record a record. *)
LEMMA EvictionKeeps ==
  ASSUME NEW t, NEW l, now \in Time, Record(t, l, now)
  PROVE  /\ Record(Unexpired(t), l, now)
         /\ \E q \in 0..Len(l) :
              /\ KeptFrom(Unexpired(t), l, q, now)
              /\ \A i \in 1..Len(l) : i > q => ~(now - l[i] > Window)
  <1>1. /\ t \in Seq(Time) /\ l \in Seq(Time) /\ Sorted(l)
        /\ \A i \in 1..Len(l) : l[i] <= now
    BY DEF Record
  <1>2. PICK p \in 0..Len(l) : KeptFrom(t, l, p, now)
    BY DEF Record
  <1>3. SuffixFrom(t, l, p) /\ Sorted(t)
    BY <1>1, <1>2, SuffixSorted DEF KeptFrom
  <1>4. PICK k \in 0..Len(t) :
          /\ ExpiredTo(t, k)
          /\ Unexpired(t) \in Seq(Time) /\ SuffixFrom(Unexpired(t), t, k)
    BY <1>1, <1>3, UnexpiredCuts
  <1> DEFINE q == p + k
  <1>5. SuffixFrom(Unexpired(t), l, q) /\ q \in 0..Len(l)
    <2> DEFINE u == Unexpired(t)
    <2>1. u \in Seq(Time) /\ SuffixFrom(u, t, k)
      BY <1>4
    <2> HIDE DEF u
    <2>2. SuffixFrom(u, l, p + k) /\ p + k \in 0..Len(l)
      BY <1>1, <1>3, <2>1, SuffixOfSuffix
    <2> QED
      BY <2>2 DEF u
  <1>6. /\ p \in Nat /\ k \in Nat /\ Len(l) \in Nat /\ Len(t) = Len(l) - p
        /\ Len(l) - p <= Capacity /\ Capacity \in Nat
        /\ p = 0 \/ Len(l) - p = Capacity \/ now - l[p] > Window
    BY <1>1, <1>2, BoundAssumption DEF KeptFrom, SuffixFrom
  <1>7. \A i \in 1..Len(t) : t[i] = l[p + i]
    BY <1>3 DEF SuffixFrom
  <1>8. q = 0 \/ Len(l) - q = Capacity \/ now - l[q] > Window
    <2>1. CASE k = 0
      BY <1>6, <2>1
    <2>2. CASE k > 0
      <3>1. k \in 1..Len(t)
        BY <1>6, <2>2
      <3>2. now - t[k] > Window
        BY <1>4, <1>6, <3>1 DEF ExpiredTo
      <3> QED
        BY <1>7, <3>1, <3>2
    <2> QED
      BY <1>6, <2>1, <2>2
  <1>9. KeptFrom(Unexpired(t), l, q, now)
    BY <1>5, <1>6, <1>8 DEF KeptFrom
  <1>10. ASSUME NEW i \in 1..Len(l), i > q PROVE ~(now - l[i] > Window)
    <2>1. i - p \in 1..Len(t) /\ ~(i - p <= k) /\ p + (i - p) = i
      BY <1>6, <1>10
    <2>2. ~(now - t[i - p] > Window)
      BY <1>4, <2>1 DEF ExpiredTo
    <2> QED
      BY <1>7, <2>1, <2>2
  <1> HIDE DEF q
  <1> QED
    BY <1>1, <1>4, <1>5, <1>9, <1>10 DEF Record

(* What is kept and has not expired are the newest results of the window. *)
LEMMA NewestKept ==
  ASSUME NEW t, NEW l, now \in Time, Record(t, l, now)
  PROVE  Unexpired(t) = Newest(Unexpired(l), Capacity)
  <1>1. PICK q \in 0..Len(l) :
          /\ KeptFrom(Unexpired(t), l, q, now)
          /\ \A i \in 1..Len(l) : i > q => ~(now - l[i] > Window)
    BY EvictionKeeps
  <1>2. l \in Seq(Time) /\ Sorted(l) /\ Unexpired(t) \in Seq(Time)
    BY EvictionKeeps DEF Record
  <1>3. PICK k \in 0..Len(l) :
          /\ ExpiredTo(l, k)
          /\ Unexpired(l) \in Seq(Time) /\ SuffixFrom(Unexpired(l), l, k)
    BY <1>2, UnexpiredCuts
  <1> DEFINE u == Unexpired(l)
             d == IF Len(u) > Capacity THEN Len(u) - Capacity ELSE 0
  <1>4. u \in Seq(Time) /\ Len(u) = Len(l) - k /\ Len(l) \in Nat
        /\ Capacity \in Nat
    BY <1>2, <1>3, BoundAssumption DEF SuffixFrom
  <1>5. SuffixFrom(u, l, k)
    BY <1>3
  <1> HIDE DEF u
  <1>6. d \in 0..Len(u)
    BY <1>4
  <1>7. Newest(u, Capacity) = SubSeq(u, 1 + d, Len(u))
    BY DEF Newest
  <1> HIDE DEF d
  <1>8. Newest(u, Capacity) \in Seq(Time) /\ SuffixFrom(Newest(u, Capacity), u, d)
    <2> DEFINE m == 1 + d
               n == Len(u)
    <2>1. m \in Int /\ n \in Int /\ \A i \in m..n : u[i] \in Time
      BY <1>4, <1>6
    <2>2. m = 1 + d /\ n = Len(u)
      OBVIOUS
    <2> HIDE DEF m, n
    <2>3. /\ SubSeq(u, m, n) \in Seq(Time)
          /\ Len(SubSeq(u, m, n)) = IF m <= n THEN n - m + 1 ELSE 0
          /\ \A i \in 1..(n - m + 1) : SubSeq(u, m, n)[i] = u[m + i - 1]
      BY <2>1, SubSeqProperties
    <2>4. d \in Nat /\ n \in Nat /\ d <= n
      BY <1>4, <1>6, <2>2
    <2>5. Len(SubSeq(u, m, n)) = n - d
      BY <2>2, <2>3, <2>4
    <2>6. \A i \in 1..(n - d) : SubSeq(u, m, n)[i] = u[d + i]
      <3> TAKE i \in 1..(n - d)
      <3>1. i \in 1..(n - m + 1) /\ m + i - 1 = d + i
        BY <2>2, <2>4
      <3> QED
        BY <2>3, <3>1
    <2> QED
      BY <1>7, <2>2, <2>3, <2>5, <2>6 DEF SuffixFrom
  <1>9. SuffixFrom(Newest(u, Capacity), l, k + d)
    <2> DEFINE w == Newest(u, Capacity)
    <2>1. w \in Seq(Time) /\ SuffixFrom(w, u, d)
      BY <1>8
    <2> HIDE DEF w
    <2>2. SuffixFrom(w, l, k + d) /\ k + d \in 0..Len(l)
      BY <1>2, <1>4, <1>5, <1>6, <2>1, SuffixOfSuffix
    <2> QED
      BY <2>2 DEF w
  <1>10. k + d = q
    <2>1. /\ Len(l) - q <= Capacity /\ q \in Nat /\ k \in Nat
          /\ q <= Len(l) /\ k <= Len(l)
          /\ q = 0 \/ Len(l) - q = Capacity \/ now - l[q] > Window
      BY <1>1, <1>4 DEF KeptFrom
    <2>2. k <= q
      <3>1. CASE k = 0
        BY <2>1, <3>1
      <3>2. CASE k > 0
        <4>1. k \in 1..Len(l)
          BY <2>1, <1>4, <3>2
        <4>2. now - l[k] > Window
          BY <1>3, <4>1 DEF ExpiredTo
        <4> QED
          BY <1>1, <2>1, <4>1, <4>2
      <3> QED
        BY <2>1, <3>1, <3>2
    <2>3. CASE q > 0 /\ now - l[q] > Window
      <3>1. q \in 1..Len(l)
        BY <1>4, <2>1, <2>3
      <3>2. q <= k
        BY <1>3, <2>3, <3>1 DEF ExpiredTo
      <3> QED
        BY <1>4, <2>1, <2>2, <3>2 DEF d
    <2>4. CASE q = 0
      BY <1>4, <2>1, <2>2, <2>4 DEF d
    <2>5. CASE Len(l) - q = Capacity
      BY <1>4, <2>1, <2>2, <2>5 DEF d
    <2> QED
      BY <2>1, <2>3, <2>4, <2>5
  <1>11. SuffixFrom(Unexpired(t), l, q)
    BY <1>1 DEF KeptFrom
  <1>12. Unexpired(t) = Newest(u, Capacity)
    <2> DEFINE v == Unexpired(t)
               w == Newest(u, Capacity)
    <2>1. v \in Seq(Time) /\ w \in Seq(Time)
          /\ SuffixFrom(v, l, q) /\ SuffixFrom(w, l, q)
      BY <1>2, <1>8, <1>9, <1>10, <1>11
    <2> HIDE DEF v, w
    <2>2. v = w
      BY <2>1, SuffixUnique
    <2> QED
      BY <2>2 DEF v, w
  <1> QED
    BY <1>12 DEF u

(* Recording an ok result keeps a record a record. *)
LEMMA InsertionKeeps ==
  ASSUME NEW t, NEW l, now \in Time, Record(t, l, now)
  PROVE  Record(Insert(t), Append(l, now), now)
  <1> DEFINE u == Unexpired(t)
             v == IF Len(u) = Capacity THEN Tail(u) ELSE u
             m == Append(l, now)
             w == Append(v, now)
  <1>1. PICK p \in 0..Len(l) : KeptFrom(u, l, p, now)
    BY EvictionKeeps
  <1>2. /\ u \in Seq(Time) /\ l \in Seq(Time) /\ Sorted(l)
        /\ \A i \in 1..Len(l) : l[i] <= now
    BY EvictionKeeps DEF Record
  <1>3. Insert(t) = w
    BY DEF Insert
  <1> HIDE DEF u
  <1>4. /\ p \in Nat /\ Len(l) \in Nat /\ Len(u) = Len(l) - p
        /\ p <= Len(l) /\ Len(l) - p <= Capacity
        /\ Capacity \in Nat /\ Capacity > 0
        /\ p = 0 \/ Len(l) - p = Capacity \/ now - l[p] > Window
        /\ \A i \in 1..Len(u) : u[i] = l[p + i]
    BY <1>1, <1>2, BoundAssumption DEF KeptFrom, SuffixFrom
  <1>4a. /\ p \in Nat /\ Len(l) \in Nat /\ Len(u) = Len(l) - p
         /\ p <= Len(l) /\ Len(l) - p <= Capacity
         /\ Capacity \in Nat /\ Capacity > 0
    BY <1>4
  <1>5. /\ m \in Seq(Time) /\ Len(m) = Len(l) + 1 /\ m[Len(l) + 1] = now
        /\ \A i \in 1..Len(l) : m[i] = l[i]
    BY <1>2
  <1>6. Sorted(m) /\ \A i \in 1..Len(m) : m[i] <= now
    <2>1. now \in Int
      BY DEF Time
    <2> HIDE DEF m
    <2>2. \A i \in 1..Len(m) : i = Len(l) + 1 \/ i \in 1..Len(l)
      BY <1>4, <1>5
    <2>3. \A i \in 1..Len(m) : m[i] <= now
      BY <1>2, <1>5, <2>1, <2>2
    <2>4. ASSUME NEW i \in 1..Len(m), NEW j \in 1..Len(m), i <= j
          PROVE  m[i] <= m[j]
      <3>1. CASE j = Len(l) + 1
        BY <1>5, <2>3, <3>1
      <3>2. CASE j \in 1..Len(l)
        <4>1. i \in 1..Len(l)
          BY <1>4, <2>4, <3>2
        <4> QED
          BY <1>2, <1>5, <2>4, <3>2, <4>1 DEF Sorted
      <3> QED
        BY <2>2, <3>1, <3>2
    <2> QED
      BY <2>3, <2>4 DEF Sorted
  <1>7. ASSUME NEW q \in Nat, NEW x \in Seq(Time), q <= Len(l),
               Len(x) = Len(l) - q, \A i \in 1..Len(x) : x[i] = l[q + i]
        PROVE  Append(x, now) \in Seq(Time) /\ SuffixFrom(Append(x, now), m, q)
    <2> DEFINE y == Append(x, now)
    <2>1. /\ y \in Seq(Time) /\ Len(y) = Len(x) + 1 /\ y[Len(x) + 1] = now
          /\ \A i \in 1..Len(x) : y[i] = x[i]
      OBVIOUS
    <2> HIDE DEF y, m
    <2>2. Len(y) = Len(m) - q
      BY <1>4, <1>5, <1>7, <2>1
    <2>3. ASSUME NEW i \in 1..Len(y) PROVE y[i] = m[q + i]
      <3>1. CASE i = Len(x) + 1
        <4>1. q + i = Len(l) + 1
          BY <1>4, <1>7, <3>1
        <4> QED
          BY <1>5, <2>1, <3>1, <4>1
      <3>2. CASE i \in 1..Len(x)
        <4>1. q + i \in 1..Len(l)
          BY <1>4, <1>7, <3>2
        <4> QED
          BY <1>5, <1>7, <2>1, <3>2, <4>1
      <3>3. i = Len(x) + 1 \/ i \in 1..Len(x)
        BY <1>4, <1>7, <2>1
      <3> QED
        BY <3>1, <3>2, <3>3
    <2>4. y \in Seq(Time) /\ SuffixFrom(y, m, q)
      BY <2>1, <2>2, <2>3 DEF SuffixFrom
    <2> QED
      BY <2>4 DEF y
  <1>8. CASE Len(u) = Capacity
    <2>1. /\ v \in Seq(Time) /\ Len(v) = Len(u) - 1
          /\ \A i \in 1..Len(v) : v[i] = u[i + 1]
      <3>1. u # <<>>
        BY <1>8, <1>4a
      <3>2. v = Tail(u)
        BY <1>8
      <3> QED
        BY <1>2, <3>1, <3>2, HeadTailProperties
    <2> HIDE DEF v, m
    <2> DEFINE q == p + 1
    <2>2. q \in Nat /\ q <= Len(l) /\ Len(v) = Len(l) - q
      BY <1>8, <1>4a, <2>1
    <2>3. ASSUME NEW i \in 1..Len(v) PROVE v[i] = l[q + i]
      <3>1. i + 1 \in 1..Len(u) /\ p + (i + 1) = q + i
        BY <1>4, <2>1, <2>2
      <3> QED
        BY <1>4, <2>1, <3>1
    <2>4. w \in Seq(Time) /\ SuffixFrom(w, m, q)
      <3> HIDE DEF q
      <3> QED
        BY <1>7, <2>1, <2>2, <2>3
    <2>5. Len(m) - q = Capacity /\ q \in 0..Len(m)
      <3>1. Len(m) = Len(l) + 1
        BY <1>5
      <3> QED
        BY <1>8, <1>4a, <3>1
    <2>6. KeptFrom(w, m, q, now)
      BY <1>4, <2>4, <2>5 DEF KeptFrom
    <2> HIDE DEF q, w
    <2> QED
      BY <1>3, <1>5, <1>6, <2>4, <2>5, <2>6 DEF Record, m
  <1>9. CASE Len(u) # Capacity
    <2>1. v = u
      BY <1>9
    <2>2. w \in Seq(Time) /\ SuffixFrom(w, m, p)
      BY <1>2, <1>4, <1>7, <2>1
    <2> HIDE DEF v, m
    <2>3. Len(m) - p <= Capacity /\ p \in 0..Len(m)
      <3>1. Len(m) = Len(l) + 1
        BY <1>5
      <3> QED
        BY <1>9, <1>4a, <3>1
    <2>4. p = 0 \/ now - m[p] > Window
      <3>1. CASE p > 0
        <4>1. p \in 1..Len(l)
          BY <1>4, <3>1
        <4> QED
          BY <1>4, <1>5, <1>9, <3>1, <4>1
      <3> QED
        BY <1>4, <3>1
    <2>5. KeptFrom(w, m, p, now)
      BY <2>2, <2>3, <2>4 DEF KeptFrom
    <2> HIDE DEF w
    <2> QED
      BY <1>3, <1>5, <1>6, <2>2, <2>3, <2>5 DEF Record, m
  <1> QED
    BY <1>8, <1>9

(* Every step keeps the records. *)
LEMMA NextRecord == RecordInv /\ [Next]_vars => RecordInv'
  <1> SUFFICES ASSUME RecordInv, [Next]_vars PROVE RecordInv'
    OBVIOUS
  <1> USE DEF RecordInv
  <1>1. CASE UNCHANGED vars
    BY <1>1 DEF vars
  <1>2. ASSUME NEW c \in Call, NEW q \in Request, Start(c, q) PROVE RecordInv'
    <2>1. /\ store' = [s \in Supported |->
                IF ~q.given /\ s \in Range(List[q.net]) THEN Unexpired(store[s])
                                                        ELSE store[s]]
          /\ now' = now /\ log' = log
      BY <1>2 DEF Start
    <2>2. ASSUME NEW s \in Supported PROVE Record(store'[s], log[s], now)
      <3>1. Record(store[s], log[s], now)
        OBVIOUS
      <3>2. Record(Unexpired(store[s]), log[s], now)
        BY <3>1, EvictionKeeps
      <3>3. store'[s] \in {Unexpired(store[s]), store[s]}
        BY <2>1
      <3> QED
        BY <3>1, <3>2, <3>3
    <2> QED
      BY <2>1, <2>2
  <1>3. ASSUME NEW c \in Call, NEW q \in Request, Refuse(c, q) PROVE RecordInv'
    BY <1>3 DEF Refuse, vars
  <1>4. ASSUME NEW c \in Call, NEW oks \in SUBSET chosen[c], Finish(c, oks)
        PROVE  RecordInv'
    <2>1. /\ store' = [s \in Supported |->
                         IF s \in oks THEN Insert(store[s]) ELSE store[s]]
          /\ log' = [s \in Supported |->
                       IF s \in oks THEN Append(log[s], now) ELSE log[s]]
          /\ now' = now
      BY <1>4 DEF Finish
    <2>2. ASSUME NEW s \in Supported PROVE Record(store'[s], log'[s], now)
      <3>1. Record(store[s], log[s], now)
        OBVIOUS
      <3>2. CASE s \in oks
        <4>1. store'[s] = Insert(store[s]) /\ log'[s] = Append(log[s], now)
          BY <2>1, <3>2
        <4> QED
          BY <3>1, <4>1, InsertionKeeps
      <3>3. CASE s \notin oks
        BY <2>1, <3>1, <3>3
      <3> QED
        BY <3>2, <3>3
    <2> QED
      BY <2>1, <2>2
  <1>5. CASE Tick
    <2>1. /\ now < Horizon /\ now' = now + 1 /\ store' = store /\ log' = log
      BY <1>5 DEF Tick
    <2>2. now' \in Time /\ now \in Int /\ Window \in Int
      BY <2>1, BoundAssumption DEF Time
    <2>3. ASSUME NEW s \in Supported PROVE Record(store[s], log[s], now')
      <3> DEFINE t == store[s]
                 l == log[s]
      <3>1. Record(t, l, now)
        OBVIOUS
      <3> HIDE DEF t, l
      <3>2. l \in Seq(Time) /\ \A i \in 1..Len(l) : l[i] \in Int
        <4>1. l \in Seq(Time)
          BY <3>1 DEF Record
        <4>2. Time \subseteq Int
          BY DEF Time
        <4>3. ASSUME NEW i \in 1..Len(l) PROVE l[i] \in Time
          BY <4>1, ElementOfSeq
        <4> QED
          BY <4>1, <4>2, <4>3
      <3>3. \A i \in 1..Len(l) : l[i] <= now'
        BY <2>1, <2>2, <3>1, <3>2 DEF Record
      <3>4. PICK p \in 0..Len(l) : KeptFrom(t, l, p, now)
        BY <3>1 DEF Record
      <3>5. KeptFrom(t, l, p, now')
        <4>1. CASE p = 0 \/ Len(l) - p = Capacity
          BY <3>4, <4>1 DEF KeptFrom
        <4>2. CASE p # 0 /\ now - l[p] > Window
          <5>1. p \in 1..Len(l)
            BY <3>2, <4>2
          <5>2. now' - l[p] > Window
            BY <2>1, <2>2, <3>2, <4>2, <5>1
          <5> QED
            BY <3>4, <5>2 DEF KeptFrom
        <4> QED
          BY <3>4, <4>1, <4>2 DEF KeptFrom
      <3>6. Record(t, l, now')
        BY <3>1, <3>3, <3>5 DEF Record
      <3> QED
        BY <3>6 DEF t, l
    <2> QED
      BY <2>1, <2>2, <2>3
  <1>6. CASE Upgrade
    <2>1. Record(<<>>, <<>>, now)
      <3>1. KeptFrom(<<>>, <<>>, 0, now)
        BY BoundAssumption DEF KeptFrom, SuffixFrom
      <3> QED
        BY <3>1 DEF Record, Sorted
    <2> QED
      BY <1>6, <2>1 DEF Upgrade
  <1> QED
    BY <1>1, <1>2, <1>3, <1>4, <1>5, <1>6 DEF Next

(* The records are what histories and clock leave, in every behaviour. *)
LEMMA RecordInductive == Spec => []RecordInv
  <1>1. Init => RecordInv
    <2> SUFFICES ASSUME Init PROVE RecordInv
      OBVIOUS
    <2>1. Record(<<>>, <<>>, 0)
      <3>1. KeptFrom(<<>>, <<>>, 0, 0)
        BY BoundAssumption DEF KeptFrom, SuffixFrom
      <3> QED
        BY <3>1 DEF Record, Sorted
    <2>2. now = 0 /\ now \in Time
      BY BoundAssumption DEF Init, Time
    <2> QED
      BY <2>1, <2>2 DEF Init, RecordInv
  <1> QED
    BY <1>1, NextRecord, PTL DEF Spec

(* Whatever was evicted, by calls that rank and by calls that record, the
   unexpired results kept for a service are the newest ones of the window. *)
THEOREM StoreHoldsTheWindowAlways == Spec => []StoreHoldsTheWindow
  <1>1. RecordInv => StoreHoldsTheWindow
    BY NewestKept DEF RecordInv, StoreHoldsTheWindow
  <1> QED
    BY <1>1, RecordInductive, PTL

-----------------------------------------------------------------------------
(* The ranking. *)

(* Place i of a list is ranked before place j. *)
Before(list, i, j) ==
  \/ Count(list[i]) > Count(list[j])
  \/ Count(list[i]) = Count(list[j]) /\ i < j

(* The places before j, and how many they are. *)
Ahead(list, j) == {i \in DOMAIN list : Before(list, i, j)}
Rank(list, j) == Cardinality(Ahead(list, j))

(* The places that are taken. *)
Taken(list, k) == {j \in DOMAIN list : Rank(list, j) < k}

(* A list whose services can be counted and ranked. *)
Rankable(list) ==
  /\ \E T : list \in Seq(T)
  /\ \A i \in DOMAIN list : Count(list[i]) \in Nat

(* Ranking is a strict total order, and ranks follow it. *)
LEMMA RankOrder ==
  ASSUME NEW list, Rankable(list)
  PROVE  /\ \A i \in DOMAIN list : Rank(list, i) \in 0..(Len(list) - 1)
         /\ \A i, j \in DOMAIN list :
              Before(list, i, j) => Rank(list, i) < Rank(list, j)
         /\ \A i, j \in DOMAIN list : i = j \/ Before(list, i, j)
                                             \/ Before(list, j, i)
  <1>1. DOMAIN list = 1..Len(list) /\ Len(list) \in Nat
    BY DEF Rankable
  <1>2. \A i \in DOMAIN list : i \in Nat /\ Count(list[i]) \in Nat
    BY <1>1 DEF Rankable
  <1>3. IsFiniteSet(DOMAIN list) /\ Cardinality(DOMAIN list) = Len(list)
    <2>1. /\ IsFiniteSet(1..Len(list))
          /\ Cardinality(1..Len(list)) =
               IF 1 > Len(list) THEN 0 ELSE Len(list) - 1 + 1
      BY <1>1, FS_Interval
    <2> QED
      BY <1>1, <2>1
  <1>4. \A i \in DOMAIN list : i \notin Ahead(list, i)
    BY <1>2 DEF Ahead, Before
  <1>5. \A j \in DOMAIN list :
          Ahead(list, j) \subseteq DOMAIN list /\ IsFiniteSet(Ahead(list, j))
    BY <1>3, FS_Subset DEF Ahead
  <1>6. \A i, j \in DOMAIN list : i = j \/ Before(list, i, j)
                                        \/ Before(list, j, i)
    BY <1>2 DEF Before
  <1>7. ASSUME NEW i \in DOMAIN list PROVE Rank(list, i) \in 0..(Len(list) - 1)
    <2> DEFINE A == Ahead(list, i)
    <2>1. A \in SUBSET DOMAIN list /\ A # DOMAIN list
      BY <1>4, <1>5
    <2> HIDE DEF A
    <2>2. /\ IsFiniteSet(A) /\ Cardinality(A) <= Len(list)
          /\ Cardinality(A) # Len(list)
      BY <1>3, <2>1, FS_Subset
    <2>3. Cardinality(A) \in Nat
      BY <2>2, FS_CardinalityType
    <2>4. Cardinality(A) \in 0..(Len(list) - 1)
      BY <1>1, <2>2, <2>3
    <2> QED
      BY <2>4 DEF A, Rank
  <1>8. ASSUME NEW i \in DOMAIN list, NEW j \in DOMAIN list, Before(list, i, j)
        PROVE  Rank(list, i) < Rank(list, j)
    <2> DEFINE A == Ahead(list, i)
               B == Ahead(list, j)
    <2>1. ASSUME NEW x \in A PROVE x \in B
      BY <1>2, <1>8, <2>1 DEF Ahead, Before
    <2>2. i \in B /\ i \notin A /\ IsFiniteSet(B)
      BY <1>4, <1>5, <1>8 DEF Ahead
    <2> HIDE DEF A, B
    <2>3. A \in SUBSET B /\ A # B
      BY <2>1, <2>2
    <2>4. Cardinality(A) <= Cardinality(B) /\ Cardinality(A) # Cardinality(B)
          /\ IsFiniteSet(A)
      BY <2>2, <2>3, FS_Subset
    <2>5. Cardinality(A) \in Nat /\ Cardinality(B) \in Nat
      BY <2>2, <2>4, FS_CardinalityType
    <2>6. Cardinality(A) < Cardinality(B)
      BY <2>4, <2>5
    <2> QED
      BY <2>6 DEF A, B, Rank
  <1> QED
    BY <1>6, <1>7, <1>8

(* Ranks are the numbers below the length, each once, so that as many places
   are taken as are wanted, or all there are. *)
LEMMA TakenCount ==
  ASSUME NEW list, Rankable(list), NEW k \in Nat
  PROVE  /\ IsFiniteSet(Taken(list, k))
         /\ Cardinality(Taken(list, k)) = IF k < Len(list) THEN k ELSE Len(list)
  <1> DEFINE n == Len(list)
             D == DOMAIN list
             R == 0..(n - 1)
             f == [i \in D |-> Rank(list, i)]
  <1>1. D = 1..n /\ n \in Nat
    BY DEF Rankable
  <1>2. /\ IsFiniteSet(D) /\ Cardinality(D) = n
        /\ IsFiniteSet(R) /\ Cardinality(R) = n
    <2>1. /\ IsFiniteSet(1..n)
          /\ Cardinality(1..n) = IF 1 > n THEN 0 ELSE n - 1 + 1
      BY <1>1, FS_Interval
    <2> DEFINE m == n - 1
    <2>2. m \in Int
      BY <1>1
    <2> HIDE DEF m
    <2>3. /\ IsFiniteSet(0..m)
          /\ Cardinality(0..m) = IF 0 > m THEN 0 ELSE m - 0 + 1
      BY <2>2, FS_Interval
    <2> QED
      BY <1>1, <2>1, <2>3 DEF m
  <1>3. f \in [D -> R]
    BY RankOrder
  <1>4. \A i, j \in D : f[i] = f[j] => i = j
    <2> SUFFICES ASSUME NEW i \in D, NEW j \in D, f[i] = f[j], i # j
                 PROVE  FALSE
      OBVIOUS
    <2>1. Rank(list, i) = Rank(list, j)
      OBVIOUS
    <2>2. Rank(list, i) \in Int /\ Rank(list, j) \in Int
      BY <1>1, RankOrder
    <2>3. Rank(list, i) < Rank(list, j) \/ Rank(list, j) < Rank(list, i)
      BY RankOrder
    <2> QED
      BY <2>1, <2>2, <2>3
  <1>5. \A j \in D : j \in Taken(list, k) <=> f[j] < k
    BY DEF Taken
  <1>6. Taken(list, k) \subseteq D
    BY DEF Taken
  <1> HIDE DEF f, D, R
  <1>7. f \in Surjection(D, R)
    <2>1. f \in Injection(D, R)
      BY <1>3, <1>4 DEF Injection, IsInjective
    <2> QED
      BY <1>2, <2>1, FS_Injection
  <1> DEFINE m == IF k < n THEN k ELSE n
             S == Taken(list, k)
             T == 0..(m - 1)
             g == [j \in S |-> f[j]]
  <1>8. m \in Nat
    BY <1>1
  <1>9. \A r \in R : r \in T <=> r < k
    BY <1>1 DEF R
  <1>10. T \subseteq R
    BY <1>1 DEF R
  <1>11. IsFiniteSet(T) /\ Cardinality(T) = m
    <2> DEFINE b == m - 1
    <2>1. b \in Int
      BY <1>8
    <2> HIDE DEF b
    <2>2. /\ IsFiniteSet(0..b)
          /\ Cardinality(0..b) = IF 0 > b THEN 0 ELSE b - 0 + 1
      BY <2>1, FS_Interval
    <2> HIDE DEF m
    <2> QED
      BY <1>8, <2>2 DEF b
  <1> HIDE DEF T, S, m
  <1>12. g \in Bijection(S, T)
    <2>1. S \subseteq D /\ \A j \in S : f[j] \in T
      BY <1>3, <1>5, <1>6, <1>9 DEF S
    <2>2. g \in [S -> T]
      BY <2>1
    <2>3. \A i, j \in S : g[i] = g[j] => i = j
      BY <1>4, <2>1
    <2>4. ASSUME NEW r \in T PROVE \E j \in S : g[j] = r
      <3>1. PICK j \in D : f[j] = r
        BY <1>7, <1>10 DEF Surjection
      <3>2. j \in S
        BY <1>5, <1>9, <1>10, <3>1 DEF S
      <3> QED
        BY <3>1, <3>2
    <2> HIDE DEF g
    <2> QED
      BY <2>2, <2>3, <2>4 DEF Bijection, Injection, Surjection, IsInjective
  <1>13. IsFiniteSet(S) /\ Cardinality(T) = Cardinality(S)
    <2>1. IsFiniteSet(S)
      BY <1>2, <1>6, FS_Subset DEF S
    <2> HIDE DEF g
    <2>2. ExistsBijection(S, T)
      BY <1>12 DEF ExistsBijection
    <2> QED
      BY <2>1, <2>2, FS_Bijection
  <1> QED
    BY <1>11, <1>13 DEF S, m

(* With records in order, the services of a network can be ranked, by their
   recent ok results. *)
LEMMA NetworkRankable ==
  ASSUME RecordInv, NEW net \in Network
  PROVE  /\ Rankable(List[net])
         /\ \A i \in DOMAIN List[net] :
              Count(List[net][i]) = Recent(List[net][i])
  <1> DEFINE list == List[net]
  <1>1. list \in Seq(Supported)
    BY ListAssumption
  <1> HIDE DEF list
  <1>2. ASSUME NEW i \in DOMAIN list
        PROVE  Count(list[i]) \in Nat /\ Count(list[i]) = Recent(list[i])
    <2> DEFINE s == list[i]
    <2>1. s \in Supported
      BY <1>1
    <2> HIDE DEF s
    <2>2. Record(store[s], log[s], now) /\ now \in Time
      BY <2>1 DEF RecordInv
    <2>3. Unexpired(store[s]) = Newest(Unexpired(log[s]), Capacity)
      BY <2>2, NewestKept
    <2>4. Unexpired(store[s]) \in Seq(Time)
      BY <2>2, EvictionKeeps DEF Record
    <2>5. Count(s) \in Nat /\ Count(s) = Recent(s)
      BY <2>3, <2>4 DEF Count, Recent
    <2> QED
      BY <2>5 DEF s
  <1>3. Rankable(list)
    BY <1>1, <1>2 DEF Rankable
  <1> QED
    BY <1>2, <1>3 DEF list

(* As many services are chosen as places are taken, since a network lists each
   service once. *)
LEMMA TopOfNetwork ==
  ASSUME RecordInv, NEW net \in Network, NEW k \in Nat
  PROVE  /\ Top(List[net], k) \subseteq Range(List[net])
         /\ IsFiniteSet(Top(List[net], k))
         /\ Cardinality(Top(List[net], k)) =
              IF k < Len(List[net]) THEN k ELSE Len(List[net])
         /\ \A i \in DOMAIN List[net] :
              List[net][i] \in Top(List[net], k) <=> Rank(List[net], i) < k
  <1> DEFINE list == List[net]
             S == Taken(list, k)
             T == Top(list, k)
             f == [j \in S |-> list[j]]
  <1>1. T = {list[j] : j \in S}
    BY DEF Top, Taken, Rank, Ahead, Before
  <1>2. S \subseteq DOMAIN list /\ \A i \in DOMAIN list : i \in S <=> Rank(list, i) < k
    BY DEF Taken
  <1>3. \A i, j \in DOMAIN list : list[i] = list[j] => i = j
    BY ListAssumption DEF IsInjective
  <1>4. /\ IsFiniteSet(S)
        /\ Cardinality(S) = IF k < Len(list) THEN k ELSE Len(list)
    <2>1. Rankable(list)
      BY NetworkRankable
    <2> HIDE DEF list
    <2> QED
      BY <2>1, TakenCount
  <1> HIDE DEF S, T, list
  <1>5. f \in Bijection(S, T)
    <2>1. f \in [S -> T]
      BY <1>1
    <2>2. \A i, j \in S : f[i] = f[j] => i = j
      BY <1>2, <1>3
    <2>3. \A t \in T : \E j \in S : f[j] = t
      BY <1>1
    <2> HIDE DEF f
    <2> QED
      BY <2>1, <2>2, <2>3 DEF Bijection, Injection, Surjection, IsInjective
  <1>6. ExistsBijection(S, T)
    <2> HIDE DEF f
    <2> QED
      BY <1>5 DEF ExistsBijection
  <1>7. IsFiniteSet(T) /\ Cardinality(T) = Cardinality(S)
    BY <1>4, <1>6, FS_Bijection
  <1>8. T \subseteq Range(list)
    BY <1>1, <1>2 DEF Range
  <1>9. \A i \in DOMAIN list : list[i] \in T <=> Rank(list, i) < k
    BY <1>1, <1>2, <1>3
  <1> QED
    BY <1>4, <1>7, <1>8, <1>9 DEF T, list

(* The number of services wanted, of those the network has. *)
LEMMA WantedNat ==
  ASSUME NEW q \in Request, Accepted(q), ~q.given
  PROVE  /\ Wanted(q) \in Nat /\ q.net \in Network
         /\ q.strategy = "threshold" => /\ q.min \in Nat /\ 0 < q.min
                                        /\ q.min <= Wanted(q)
                                        /\ Wanted(q) <= Len(List[q.net])
  <1>1. /\ q.net \in Network /\ q.strategy \in {"equality", "threshold"}
        /\ q.min \in Nat /\ q.total \in {NoTotal} \cup 0..(U8 - 1)
        /\ DefaultNum \in Nat /\ U8 \in Nat /\ U8 > 0
    BY RequestAssumption, BoundAssumption DEF IsRequest
  <1>2. CASE q.strategy = "equality"
    BY <1>1, <1>2 DEF Wanted
  <1>3. CASE q.strategy = "threshold"
    <2> DEFINE n == Len(List[q.net])
    <2>1. n \in Nat /\ n < U8
      BY <1>1, ListAssumption
    <2>2. n % U8 = n
      <3> HIDE DEF n
      <3> QED
        BY <1>1, <2>1
    <2>3. /\ q.min > 0 /\ q.total # NoTotal /\ q.min <= q.total
          /\ q.total <= n % U8
      BY <1>3 DEF Accepted
    <2>4. q.total \in Nat
      BY <1>1, <2>3
    <2>5. Wanted(q) = q.total
      BY <1>3 DEF Wanted
    <2> HIDE DEF n
    <2>6. /\ q.min \in Nat /\ 0 < q.min /\ q.min <= q.total /\ q.total <= n
      BY <1>1, <2>1, <2>2, <2>3, <2>4
    <2> QED
      BY <1>1, <2>4, <2>5, <2>6 DEF n
  <1> QED
    BY <1>1, <1>2, <1>3

(* The services a caller names are as many as its list is long, unless it
   repeats one. *)
LEMMA NamedCount ==
  ASSUME NEW list, NEW A, list \in Seq(A)
  PROVE  /\ IsFiniteSet(Range(list))
         /\ IsInjective(list) => Cardinality(Range(list)) = Len(list)
  <1> DEFINE D == 1..Len(list)
             R == Range(list)
  <1>1. Len(list) \in Nat /\ DOMAIN list = D /\ R = {list[i] : i \in D}
    BY DEF Range
  <1>2. IsFiniteSet(D) /\ Cardinality(D) = Len(list)
    <2>1. /\ IsFiniteSet(1..Len(list))
          /\ Cardinality(1..Len(list)) =
               IF 1 > Len(list) THEN 0 ELSE Len(list) - 1 + 1
      BY <1>1, FS_Interval
    <2> QED
      BY <1>1, <2>1
  <1>3. list \in [D -> R] /\ \A t \in R : \E i \in D : list[i] = t
    BY <1>1
  <1> HIDE DEF D, R
  <1>4. list \in Surjection(D, R)
    BY <1>3 DEF Surjection
  <1>5. IsFiniteSet(R) /\ (Cardinality(R) = Cardinality(D) <=> list \in Injection(D, R))
    BY <1>2, <1>4, FS_Surjection
  <1>6. IsInjective(list) => list \in Injection(D, R)
    BY <1>1, <1>3 DEF IsInjective, Injection
  <1> QED
    BY <1>2, <1>5, <1>6 DEF R

-----------------------------------------------------------------------------
(* The calls. *)

(* A service that can be chosen is one that exists. *)
LEMMA ChoiceOfServices ==
  ASSUME RecordInv, NEW q \in Request, Accepted(q)
  PROVE  /\ Choice(q) \subseteq Service /\ IsFiniteSet(Choice(q))
         /\ q.strategy = "threshold" /\ IsInjective(q.list) =>
              0 < q.min /\ q.min <= Cardinality(Choice(q))
  <1>1. /\ q.net \in Network /\ q.list \in Seq(Service) /\ q.given \in BOOLEAN
        /\ q.strategy \in {"equality", "threshold"} /\ q.min \in Nat
        /\ U8 \in Nat /\ U8 > 0
    BY RequestAssumption, BoundAssumption DEF IsRequest
  <1>2. CASE q.given
    <2> DEFINE n == Len(q.list)
    <2>1. Choice(q) = Range(q.list)
      BY <1>2 DEF Choice
    <2>2. Range(q.list) \subseteq Service
      BY <1>1 DEF Range
    <2>3. /\ IsFiniteSet(Range(q.list))
          /\ IsInjective(q.list) => Cardinality(Range(q.list)) = n
      BY <1>1, NamedCount
    <2>4. ASSUME q.strategy = "threshold" PROVE 0 < q.min /\ q.min <= n
      <3>1. n \in Nat
        BY <1>1
      <3>2. q.min > 0 /\ q.min <= n % U8
        BY <1>2, <2>4 DEF Accepted
      <3> HIDE DEF n
      <3>3. n % U8 <= n /\ n % U8 \in Nat
        BY <1>1, <3>1
      <3> QED
        BY <1>1, <3>1, <3>2, <3>3
    <2> QED
      BY <2>1, <2>2, <2>3, <2>4
  <1>3. CASE ~q.given
    <2> DEFINE list == List[q.net]
               k == Wanted(q)
    <2>1. Choice(q) = Top(list, k)
      BY <1>3 DEF Choice
    <2>2. k \in Nat /\ (q.strategy = "threshold" =>
                           0 < q.min /\ q.min <= k /\ k <= Len(list))
      BY <1>3, WantedNat
    <2>3. /\ Top(list, k) \subseteq Range(list) /\ IsFiniteSet(Top(list, k))
          /\ Cardinality(Top(list, k)) = IF k < Len(list) THEN k ELSE Len(list)
      <3> DEFINE net == q.net
                 w == k
      <3>1. net \in Network /\ w \in Nat
        BY <1>1, <2>2
      <3> HIDE DEF net, w
      <3>2. /\ Top(List[net], w) \subseteq Range(List[net])
            /\ IsFiniteSet(Top(List[net], w))
            /\ Cardinality(Top(List[net], w)) =
                 IF w < Len(List[net]) THEN w ELSE Len(List[net])
        BY <3>1, TopOfNetwork
      <3> QED
        BY <3>2 DEF net, w
    <2>4. Range(list) \subseteq Service
      BY <1>1 DEF Service, Supported
    <2>5. Len(list) \in Nat
      BY <1>1, ListAssumption
    <2> HIDE DEF list, k
    <2>6. q.strategy = "threshold" => q.min <= Cardinality(Top(list, k))
      BY <1>1, <2>2, <2>3, <2>5
    <2> QED
      BY <2>1, <2>2, <2>3, <2>4, <2>6
  <1> QED
    BY <1>1, <1>2, <1>3

(* What an open call asked for and got. *)
CallInv ==
  /\ phase \in [Call -> {"idle", "open"}]
  /\ query \in [Call -> Request \cup {NoQuery}]
  /\ chosen \in [Call -> SUBSET Service]
  /\ \A c \in Call : IsFiniteSet(chosen[c])
  /\ ThresholdCanBeMet

(* Every step keeps it, as long as the records are in order. *)
LEMMA NextCall == RecordInv /\ CallInv /\ [Next]_vars => CallInv'
  <1> SUFFICES ASSUME RecordInv, CallInv, [Next]_vars PROVE CallInv'
    OBVIOUS
  <1> USE DEF CallInv
  <1>1. ASSUME UNCHANGED <<phase, query, chosen>> PROVE CallInv'
    BY <1>1 DEF ThresholdCanBeMet, Thresholds
  <1>2. ASSUME NEW c \in Call, NEW q \in Request, Start(c, q) PROVE CallInv'
    <2>1. /\ Accepted(q)
          /\ phase' = [phase EXCEPT ![c] = "open"]
          /\ query' = [query EXCEPT ![c] = q]
          /\ chosen' = [chosen EXCEPT ![c] = Choice(q)]
      BY <1>2 DEF Start
    <2>2. /\ Choice(q) \subseteq Service /\ IsFiniteSet(Choice(q))
          /\ q.strategy = "threshold" /\ IsInjective(q.list) =>
               0 < q.min /\ q.min <= Cardinality(Choice(q))
      BY <2>1, ChoiceOfServices
    <2>3. /\ phase' \in [Call -> {"idle", "open"}]
          /\ query' \in [Call -> Request \cup {NoQuery}]
          /\ chosen' \in [Call -> SUBSET Service]
          /\ \A d \in Call : IsFiniteSet(chosen'[d])
      BY <2>1, <2>2
    <2>4. ASSUME NEW d \in Call, phase'[d] = "open",
                 query'[d].strategy = "threshold", IsInjective(query'[d].list)
          PROVE  0 < query'[d].min /\ query'[d].min <= Cardinality(chosen'[d])
      <3>1. CASE d = c
        <4>1. query'[d] = q /\ chosen'[d] = Choice(q)
          BY <2>1, <3>1
        <4> QED
          BY <2>2, <2>4, <4>1
      <3>2. CASE d # c
        <4>1. phase'[d] = phase[d] /\ query'[d] = query[d] /\ chosen'[d] = chosen[d]
          BY <2>1, <3>2
        <4> QED
          BY <2>4, <4>1 DEF ThresholdCanBeMet, Thresholds
      <3> QED
        BY <3>1, <3>2
    <2> QED
      BY <2>3, <2>4 DEF ThresholdCanBeMet, Thresholds
  <1>3. ASSUME NEW c \in Call, NEW oks \in SUBSET chosen[c], Finish(c, oks)
        PROVE  CallInv'
    <2>1. /\ phase' = [phase EXCEPT ![c] = "idle"]
          /\ query' = [query EXCEPT ![c] = NoQuery]
          /\ chosen' = [chosen EXCEPT ![c] = {}]
      BY <1>3 DEF Finish
    <2>2. /\ phase' \in [Call -> {"idle", "open"}]
          /\ query' \in [Call -> Request \cup {NoQuery}]
          /\ chosen' \in [Call -> SUBSET Service]
          /\ \A d \in Call : IsFiniteSet(chosen'[d])
      BY <2>1, FS_EmptySet
    <2>3. ASSUME NEW d \in Call, phase'[d] = "open",
                 query'[d].strategy = "threshold", IsInjective(query'[d].list)
          PROVE  0 < query'[d].min /\ query'[d].min <= Cardinality(chosen'[d])
      <3>1. phase'[d] = phase[d] /\ query'[d] = query[d] /\ chosen'[d] = chosen[d]
        BY <2>1, <2>3
      <3> QED
        BY <2>3, <3>1 DEF ThresholdCanBeMet, Thresholds
    <2> QED
      BY <2>2, <2>3 DEF ThresholdCanBeMet, Thresholds
  <1> QED
    BY <1>1, <1>2, <1>3 DEF Next, vars, Refuse, Tick, Upgrade

(* Records and calls together, in every behaviour. *)
LEMMA CallInductive == Spec => [](RecordInv /\ CallInv)
  <1>1. Init => CallInv
    BY FS_EmptySet DEF Init, CallInv, ThresholdCanBeMet, Thresholds
  <1> QED
    BY <1>1, RecordInductive, NextCall, PTL DEF Spec

(* A threshold over services of which none is repeated can be met: choose_providers
   lets no call start whose min is zero or exceeds the services queried. *)
THEOREM ThresholdCanBeMetAlways == Spec => []ThresholdCanBeMet
  <1>1. CallInv => ThresholdCanBeMet
    BY DEF CallInv
  <1> QED
    BY <1>1, CallInductive, PTL

(* What a step that opens call c with a default choice does. *)
BestChosen(c) ==
  phase[c] = "idle" /\ phase'[c] = "open" /\ ~query'[c].given =>
    LET list == List[query'[c].net]
        in(i) == list[i] \in chosen'[c]
        k == Wanted(query'[c])
    IN  /\ chosen'[c] \subseteq Range(list)
        /\ Cardinality(chosen'[c]) = IF k < Len(list) THEN k ELSE Len(list)
        /\ \A i, j \in DOMAIN list : in(i) /\ ~in(j) =>
             \/ Recent(list[i]) > Recent(list[j])
             \/ Recent(list[i]) = Recent(list[j]) /\ i < j

(* Every step that opens a call with a default choice takes the best. *)
LEMMA NextBest ==
  ASSUME RecordInv, CallInv, [Next]_vars, NEW c \in Call
  PROVE  BestChosen(c)
  <1> SUFFICES ASSUME phase[c] = "idle", phase'[c] = "open", ~query'[c].given
               PROVE  BestChosen(c)
    BY DEF BestChosen
  <1>1. PICK q \in Request : Start(c, q)
    <2>1. ASSUME NEW d \in Call, NEW q \in Request, Start(d, q)
          PROVE  d = c
      BY <2>1 DEF Start, CallInv
    <2>2. ASSUME NEW d \in Call, NEW oks \in SUBSET chosen[d], Finish(d, oks)
          PROVE  FALSE
      BY <2>2 DEF Finish, CallInv
    <2> QED
      BY <2>1, <2>2 DEF Next, vars, Refuse, Tick, Upgrade
  <1>2. /\ Accepted(q) /\ query'[c] = q /\ chosen'[c] = Choice(q)
    BY <1>1 DEF Start, CallInv
  <1> DEFINE net == q.net
             list == List[net]
             k == Wanted(q)
             T == Top(list, k)
  <1>3. ~q.given /\ chosen'[c] = T
    BY <1>2 DEF Choice
  <1>4. k \in Nat /\ net \in Network
    BY <1>2, <1>3, WantedNat
  <1>5. /\ T \subseteq Range(list)
        /\ Cardinality(T) = IF k < Len(list) THEN k ELSE Len(list)
        /\ \A i \in DOMAIN list : list[i] \in T <=> Rank(list, i) < k
    <2> HIDE DEF net, k
    <2> QED
      BY <1>4, TopOfNetwork
  <1>6. Rankable(list) /\ \A i \in DOMAIN list : Count(list[i]) = Recent(list[i])
    <2> HIDE DEF net
    <2> QED
      BY <1>4, NetworkRankable
  <1>7. ASSUME NEW i \in DOMAIN list, NEW j \in DOMAIN list,
               list[i] \in T, list[j] \notin T
        PROVE  \/ Recent(list[i]) > Recent(list[j])
               \/ Recent(list[i]) = Recent(list[j]) /\ i < j
    <2> HIDE DEF k, T, list
    <2>1. Rank(list, i) < k /\ ~(Rank(list, j) < k)
      BY <1>5, <1>7
    <2>2. Rank(list, i) \in Int /\ Rank(list, j) \in Int
      BY <1>6, RankOrder
    <2>3. ~(Rank(list, j) < Rank(list, i))
      BY <1>4, <2>1, <2>2
    <2>4. Before(list, i, j)
      BY <1>6, <1>7, <2>3, RankOrder
    <2> QED
      BY <1>6, <2>4 DEF Before
  <1>8. query'[c].net = net /\ Wanted(query'[c]) = k
    BY <1>2
  <1> HIDE DEF T, k, net
  <1> QED
    BY <1>3, <1>5, <1>7, <1>8 DEF BestChosen

(* A call that leaves the choice to the canister queries as many different
   services as it asked for, or all there are, and leaves out none that is
   better than one it takes. *)
THEOREM DefaultsAreTheBestAlways == Spec => DefaultsAreTheBest
  <1>1. RecordInv /\ CallInv /\ [Next]_vars => [\A c \in Call : BestChosen(c)]_vars
    BY NextBest
  <1>2. DefaultsAreTheBest <=> [][\A c \in Call : BestChosen(c)]_vars
    BY DEF DefaultsAreTheBest, BestChosen
  <1> QED
    BY <1>1, <1>2, CallInductive, PTL DEF Spec

-----------------------------------------------------------------------------
(* Types. *)

(* The image of a finite set is finite. *)
LEMMA ImageFinite ==
  ASSUME NEW S, IsFiniteSet(S), NEW f, DOMAIN f = S
  PROVE  IsFiniteSet({f[x] : x \in S})
  <1> DEFINE T == {f[x] : x \in S}
             g == [x \in S |-> f[x]]
  <1>1. g \in [S -> T] /\ \A t \in T : \E x \in S : g[x] = t
    OBVIOUS
  <1> HIDE DEF g, T
  <1>2. g \in Surjection(S, T)
    BY <1>1 DEF Surjection
  <1>3. IsFiniteSet(T)
    BY <1>2, FS_Surjection
  <1> QED
    BY <1>3 DEF T

(* There are finitely many supported services. *)
LEMMA SupportedFinite == IsFiniteSet(Supported)
  <1> DEFINE f == [n \in Network |-> Range(List[n])]
             S == {f[n] : n \in Network}
  <1>1. DOMAIN f = Network /\ \A n \in Network : f[n] = Range(List[n])
    OBVIOUS
  <1>2. Supported = UNION S
    BY DEF Supported
  <1>3. \A n \in Network : IsFiniteSet(Range(List[n]))
    BY ListAssumption, NamedCount
  <1>4. \A T \in S : IsFiniteSet(T)
    BY <1>1, <1>3
  <1>5. IsFiniteSet(S)
    <2> HIDE DEF f
    <2> QED
      BY <1>1, ListAssumption, ImageFinite
  <1> HIDE DEF S
  <1> QED
    BY <1>2, <1>4, <1>5, FS_UNION

(* The history of one service is no longer than that of all. *)
LEMMA RecordedBounds ==
  ASSUME RecordInv, NEW s \in Supported
  PROVE  Recorded \in Nat /\ Len(log[s]) <= Recorded
  <1> DEFINE entries == [t \in Supported |-> {t} \X DOMAIN log[t]]
             S == {entries[t] : t \in Supported}
  <1>1. DOMAIN entries = Supported
        /\ \A t \in Supported : entries[t] = {t} \X DOMAIN log[t]
    OBVIOUS
  <1>2. Recorded = Cardinality(UNION S)
    <2>1. S = {{t} \X DOMAIN log[t] : t \in Supported}
      BY <1>1
    <2> QED
      BY <2>1 DEF Recorded
  <1>3. ASSUME NEW t \in Supported
        PROVE  /\ IsFiniteSet(entries[t])
               /\ Cardinality(entries[t]) = Len(log[t]) /\ Len(log[t]) \in Nat
    <2> DEFINE D == DOMAIN log[t]
               n == Len(log[t])
    <2>1. D = 1..n /\ n \in Nat
      BY DEF RecordInv, Record
    <2> HIDE DEF D, n
    <2>2. IsFiniteSet(D) /\ Cardinality(D) = n
      <3>1. /\ IsFiniteSet(1..n)
            /\ Cardinality(1..n) = IF 1 > n THEN 0 ELSE n - 1 + 1
        BY <2>1, FS_Interval
      <3> QED
        BY <2>1, <3>1
    <2>3. IsFiniteSet({t}) /\ Cardinality({t}) = 1
      BY FS_Singleton
    <2> DEFINE X == {t}
    <2> HIDE DEF X
    <2>4. IsFiniteSet(X \X D) /\ Cardinality(X \X D) = Cardinality(X) * Cardinality(D)
      BY <2>2, <2>3, FS_Product DEF X
    <2>5. IsFiniteSet(X \X D) /\ Cardinality(X \X D) = n
      BY <2>1, <2>2, <2>3, <2>4 DEF X
    <2> QED
      BY <1>1, <2>1, <2>5 DEF X, D, n
  <1>4. IsFiniteSet(S)
    <2> HIDE DEF entries
    <2> QED
      BY <1>1, SupportedFinite, ImageFinite
  <1>5. entries[s] \in S /\ \A T \in S : IsFiniteSet(T)
    BY <1>3
  <1> HIDE DEF S, entries
  <1>6. IsFiniteSet(UNION S)
    BY <1>4, <1>5, FS_UNION
  <1>7. entries[s] \in SUBSET UNION S
    BY <1>5
  <1>8. Cardinality(entries[s]) <= Cardinality(UNION S)
    BY <1>6, <1>7, FS_Subset
  <1>9. Cardinality(UNION S) \in Nat
    BY <1>6, FS_CardinalityType
  <1> QED
    BY <1>2, <1>3, <1>8, <1>9

(* The histories stay within their bound. *)
LogInv == \A s \in Supported : Len(log[s]) <= MaxRecorded

(* Every step keeps the histories within their bound. *)
LEMMA NextLog == RecordInv /\ CallInv /\ LogInv /\ [Next]_vars => LogInv'
  <1> SUFFICES ASSUME RecordInv, CallInv, LogInv, [Next]_vars PROVE LogInv'
    OBVIOUS
  <1>0. MaxRecorded \in Nat
    BY BoundAssumption
  <1>1. ASSUME log' = log PROVE LogInv'
    BY <1>1 DEF LogInv
  <1>2. ASSUME NEW c \in Call, NEW oks \in SUBSET chosen[c], Finish(c, oks)
        PROVE  LogInv'
    <2>1. /\ Recorded + Cardinality(oks) <= MaxRecorded
          /\ log' = [s \in Supported |->
                       IF s \in oks THEN Append(log[s], now) ELSE log[s]]
      BY <1>2 DEF Finish
    <2>2. IsFiniteSet(oks)
      BY FS_Subset DEF CallInv
    <2>3. ASSUME NEW s \in Supported PROVE Len(log'[s]) <= MaxRecorded
      <3>1. CASE s \notin oks
        BY <2>1, <3>1 DEF LogInv
      <3>2. CASE s \in oks
        <4>1. Cardinality(oks) \in Nat /\ Cardinality(oks) # 0
          BY <2>2, <3>2, FS_EmptySet, FS_CardinalityType
        <4>2. Recorded \in Nat /\ Len(log[s]) <= Recorded
          BY RecordedBounds
        <4>3. log[s] \in Seq(Time)
          BY DEF RecordInv, Record
        <4>4. Len(log'[s]) = Len(log[s]) + 1 /\ Len(log[s]) \in Nat
          <5>1. log'[s] = Append(log[s], now)
            BY <2>1, <3>2
          <5>2. now \in Time
            BY DEF RecordInv
          <5> QED
            BY <4>3, <5>1, <5>2
        <4> QED
          BY <1>0, <2>1, <4>1, <4>2, <4>4
      <3> QED
        BY <3>1, <3>2
    <2> QED
      BY <2>3 DEF LogInv
  <1>3. CASE Upgrade
    <2>1. log' = [s \in Supported |-> <<>>]
      BY <1>3 DEF Upgrade
    <2> QED
      BY <1>0, <2>1 DEF LogInv
  <1> QED
    BY <1>1, <1>2, <1>3 DEF Next, vars, Start, Refuse, Tick

(* A sequence with a bounded length is a bounded sequence. *)
LEMMA BoundedSequence ==
  ASSUME NEW t \in Seq(Time), NEW n \in Nat, Len(t) <= n
  PROVE  t \in BoundedSeq(Time, n)
  <1>1. Len(t) \in 0..n /\ t \in [1..Len(t) -> Time]
    OBVIOUS
  <1> QED
    BY <1>1 DEF BoundedSeq, SeqOf

(* Types are kept: the record of a service never exceeds its capacity, and only
   services that exist are chosen. *)
THEOREM TypeCorrect == Spec => []TypeOK
  <1>1. Init => LogInv
    BY BoundAssumption DEF Init, LogInv
  <1>2. RecordInv /\ CallInv /\ LogInv => TypeOK
    <2> SUFFICES ASSUME RecordInv, CallInv, LogInv PROVE TypeOK
      OBVIOUS
    <2>1. ASSUME NEW s \in Supported
          PROVE  /\ store[s] \in BoundedSeq(Time, Capacity)
                 /\ log[s] \in BoundedSeq(Time, MaxRecorded)
      <3> DEFINE t == store[s]
                 l == log[s]
      <3>1. Record(t, l, now) /\ Len(l) <= MaxRecorded
        BY DEF RecordInv, LogInv
      <3> HIDE DEF t, l
      <3>2. t \in Seq(Time) /\ l \in Seq(Time) /\ Len(t) <= Capacity
        BY <3>1 DEF Record, KeptFrom, SuffixFrom
      <3>3. /\ t \in BoundedSeq(Time, Capacity)
            /\ l \in BoundedSeq(Time, MaxRecorded)
        BY <3>1, <3>2, BoundAssumption, BoundedSequence
      <3> QED
        BY <3>3 DEF t, l
    <2>2. /\ store \in [Supported -> BoundedSeq(Time, Capacity)]
          /\ log \in [Supported -> BoundedSeq(Time, MaxRecorded)]
      BY <2>1 DEF RecordInv
    <2> QED
      BY <2>2 DEF TypeOK, RecordInv, CallInv
  <1> QED
    BY <1>1, <1>2, CallInductive, NextLog, PTL DEF Spec
=============================================================================
