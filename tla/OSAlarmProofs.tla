--------------------------- MODULE OSAlarmProofs ---------------------------
(***************************************************************************)
(* The alarms of OSAlarm.c, for any number of them, any delays and periods *)
(* and any reach of the decrementer: the queue stays a sound sorted list,  *)
(* no alarm is overslept, and the whole is an alarm clock.                 *)
(*                                                                         *)
(* The links are compared with the sequence s of the alarms they chain, of *)
(* length n.  What a walk along them meets is an induction over the places *)
(* of that sequence, by the least place at which the walk would be wrong.  *)
(***************************************************************************)
EXTENDS OSAlarm, FiniteSetTheorems, WellFoundedInduction, TLAPS

Size == Cardinality(Alarm)

Queue == [head : Link, tail : Link, next : [Alarm -> Link], prev : [Alarm -> Link],
          dec : Int]

\* s holds the n alarms of S, each once.
Order(S, n, s) ==
  /\ n \in 0..Size
  /\ s \in [1..n -> S]
  /\ \A a \in S : \E i \in 1..n : s[i] = a
  /\ \A i, j \in 1..n : s[i] = s[j] => i = j

\* The links of q lead through the alarms of S in the order s, and back.
Chained(q, S, n, s) ==
  /\ Order(S, n, s)
  /\ q.head = IF n = 0 THEN NULL ELSE s[1]
  /\ q.tail = IF n = 0 THEN NULL ELSE s[n]
  /\ \A i \in 1..n : q.next[s[i]] = IF i = n THEN NULL ELSE s[i + 1]
  /\ \A i \in 1..n : q.prev[s[i]] = IF i = 1 THEN NULL ELSE s[i - 1]

Sorted(e, n, s) == \A i, j \in 1..n : i <= j => e[s[i]] <= e[s[j]]

\* The inductive form of QueueIntact.
InOrder(q, S, e) ==
  \E n \in 0..Size : \E s \in [1..n -> S] : Chained(q, S, n, s) /\ Sorted(e, n, s)

\* The order s with alarm a put at place k, and without the alarm at place k.
With(s, n, k, a) ==
  [i \in 1..(n + 1) |-> IF i < k THEN s[i] ELSE IF i = k THEN a ELSE s[i - 1]]
Less(s, n, k) == [i \in 1..(n - 1) |-> IF i < k THEN s[i] ELSE s[i + 1]]

LEMMA SizeNat == Size \in Nat
  BY AlarmAssumption, FS_CardinalityType DEF Size

\* A set of natural numbers that is not empty has a least element.
LEMMA Least ==
  ASSUME NEW T, T \subseteq Nat, T # {}
  PROVE  \E m \in T : \A j \in T : ~(j < m)
  <1> DEFINE R == OpToRel(<, Nat)
  <1>1. IsWellFoundedOn(R, Nat)
    BY NatLessThanWellFounded
  <1>2. PICK m \in T : \A j \in T : <<j, m>> \notin R
    <2> HIDE DEF R
    <2> QED
      BY <1>1, WFMin
  <1>3. \A j, k \in Nat : j < k => <<j, k>> \in R
    BY DEF OpToRel
  <1> QED
    BY <1>2, <1>3

\* No order of distinct alarms is longer than the alarms are many.
LEMMA FitsSize ==
  ASSUME NEW n \in Nat, NEW s \in [1..n -> Alarm],
         \A i, j \in 1..n : s[i] = s[j] => i = j
  PROVE  n \in 0..Size
  <1>1. s \in Injection(1..n, Alarm)
    BY DEF Injection, IsInjective
  <1>2. Cardinality(1..n) <= Cardinality(Alarm)
    BY <1>1, FS_Injection, AlarmAssumption
  <1>3. Cardinality(1..n) = n
    <2>1. Cardinality(1..n) = IF 1 > n THEN 0 ELSE n - 1 + 1
      BY FS_Interval
    <2> QED
      BY <2>1
  <1> QED
    BY <1>2, <1>3, SizeNat DEF Size

-----------------------------------------------------------------------------
(* Walks along the links *)

\* Chain meets the alarms of the order one by one, then NULL.
LEMMA ChainMeets ==
  ASSUME NEW q \in Queue, NEW S \in SUBSET Alarm,
         NEW n \in 0..Size, NEW s \in [1..n -> S], Chained(q, S, n, s)
  PROVE  /\ DOMAIN Chain(q) = 0..Size
         /\ \A i \in 0..Size : Chain(q)[i] = IF i < n THEN s[i + 1] ELSE NULL
  <1> DEFINE c == [i \in 0..Size |-> IF i < n THEN s[i + 1] ELSE NULL]
             Step(f) == [i \in 0..Size |->
                           IF i = 0 THEN q.head
                           ELSE IF f[i - 1] = NULL THEN NULL ELSE q.next[f[i - 1]]]
  <1>1. ASSUME NEW f, NEW i \in 0..Size,
               i # 0 => f[i - 1] = c[i - 1]
        PROVE  Step(f)[i] = c[i]
    <2>1. CASE i = 0
      BY <2>1, SizeNat DEF Chained
    <2>2. CASE i # 0
      <3>1. i - 1 \in 0..Size /\ Step(f)[i] = IF c[i - 1] = NULL THEN NULL ELSE q.next[c[i - 1]]
        BY <1>1, <2>2, SizeNat
      <3>2. CASE i - 1 < n
        <4>1. c[i - 1] = s[i] /\ s[i] \in Alarm /\ i \in 1..n
          BY <3>1, <3>2, <2>2, SizeNat
        <4>2. Step(f)[i] = q.next[s[i]]
          BY <3>1, <4>1, AlarmAssumption
        <4>3. q.next[s[i]] = IF i = n THEN NULL ELSE s[i + 1]
          BY <4>1 DEF Chained
        <4> QED
          BY <4>1, <4>2, <4>3, SizeNat
      <3>3. CASE ~(i - 1 < n)
        <4>1. c[i - 1] = NULL
          BY <3>1, <3>3
        <4> QED
          BY <3>1, <3>3, <4>1, <2>2, SizeNat
      <3> QED
        BY <3>2, <3>3
    <2> QED
      BY <2>1, <2>2
  <1>2. c = Step(c)
    <2>1. \A i \in 0..Size : Step(c)[i] = c[i]
      <3> HIDE DEF c, Step
      <3> QED
        BY <1>1
    <2> QED
      BY <2>1
  <1>3. ASSUME NEW f, f = Step(f)
        PROVE  f = c
    <2> DEFINE T == {i \in 0..Size : f[i] # c[i]}
    <2>1. ASSUME T # {} PROVE FALSE
      <3>0. T \subseteq Nat
        BY SizeNat
      <3>1. PICK m \in T : \A j \in T : ~(j < m)
        <4> HIDE DEF T
        <4> QED
          BY <2>1, <3>0, Least
      <3>2. m \in 0..Size /\ f[m] # c[m]
        BY <3>1
      <3>3. m # 0 => f[m - 1] = c[m - 1]
        <4>1. m # 0 => m - 1 \in 0..Size /\ m - 1 < m
          BY <3>2, SizeNat
        <4> HIDE DEF c, Step
        <4> QED
          BY <4>1, <3>1
      <3>4. Step(f)[m] = c[m]
        <4> HIDE DEF c, Step
        <4> QED
          BY <1>1, <3>2, <3>3
      <3> QED
        BY <1>3, <3>2, <3>4
    <2>2. f = [i \in 0..Size |-> f[i]]
      BY <1>3
    <2>3. \A i \in 0..Size : f[i] = c[i]
      BY <2>1
    <2> QED
      BY <2>2, <2>3
  <1>4. Chain(q) = CHOOSE f : f = Step(f)
    BY DEF Chain, Size
  <1> HIDE DEF c, Step
  <1>5. Chain(q) = Step(Chain(q))
    BY <1>2, <1>4
  <1>6. Chain(q) = c
    BY <1>3, <1>5
  <1> QED
    BY <1>6 DEF c

\* FirstLater is the first alarm of the order later than e, at place k, or NULL
\* when the place is past the last.
LEMMA FirstLaterMeets ==
  ASSUME NEW q \in Queue, NEW S \in SUBSET Alarm, NEW e \in Int, end \in [Alarm -> Int],
         NEW n \in 0..Size, NEW s \in [1..n -> S], Chained(q, S, n, s)
  PROVE  \E k \in 1..(n + 1) :
           /\ FirstLater(q, e) = IF k = n + 1 THEN NULL ELSE s[k]
           /\ \A i \in 1..(k - 1) : end[s[i]] <= e
           /\ k # n + 1 => end[s[k]] > e
  <1> DEFINE c == Chain(q)
             Stop(i) == c[i] = NULL \/ end[c[i]] > e
             First(i) == Stop(i) /\ \A j \in 0..(i - 1) : ~Stop(j)
             T == {i \in 0..Size : Stop(i)}
  <1>1. /\ DOMAIN c = 0..Size
        /\ \A i \in 0..Size : c[i] = IF i < n THEN s[i + 1] ELSE NULL
    BY ChainMeets
  <1> HIDE DEF c
  <1>2. T \subseteq Nat /\ n \in T
    BY <1>1, SizeNat
  <1>3. PICK m \in T : \A j \in T : ~(j < m)
    <2> HIDE DEF T
    <2> QED
      BY <1>2, Least
  <1>4. m \in 0..Size /\ First(m)
    <2>1. m \in 0..Size /\ Stop(m)
      BY <1>3
    <2>2. ASSUME NEW j \in 0..(m - 1) PROVE ~Stop(j)
      <3>1. j \in 0..Size /\ j < m
        BY <2>1, SizeNat
      <3> HIDE DEF Stop
      <3> QED
        BY <1>3, <3>1
    <2> HIDE DEF Stop
    <2> QED
      BY <2>1, <2>2
  <1>5. FirstLater(q, e) = c[CHOOSE i \in 0..Size : First(i)]
    BY <1>1 DEF FirstLater, c
  <1>6. PICK k \in 0..Size : First(k) /\ FirstLater(q, e) = c[k]
    <2> HIDE DEF c, First
    <2> QED
      BY <1>4, <1>5
  <1>7. k <= n
    <2>1. ~(n \in 0..(k - 1))
      <3>1. Stop(n)
        BY <1>2
      <3> QED
        BY <1>6, <3>1
    <2> QED
      BY <2>1, SizeNat
  <1>8. k + 1 \in 1..(n + 1)
    BY <1>7, SizeNat
  <1>9. FirstLater(q, e) = IF k + 1 = n + 1 THEN NULL ELSE s[k + 1]
    BY <1>1, <1>6, <1>7, SizeNat
  <1>10. ASSUME NEW i \in 1..k PROVE end[s[i]] <= e
    <2>1. i - 1 \in 0..(k - 1) /\ i - 1 \in 0..Size /\ i - 1 < n /\ i \in 1..n
      BY <1>7, SizeNat
    <2>2. ~Stop(i - 1)
      BY <1>6, <2>1
    <2>3. c[i - 1] = s[i] /\ s[i] \in Alarm
      BY <1>1, <2>1
    <2> QED
      BY <2>2, <2>3
  <1>11. ASSUME k + 1 # n + 1 PROVE end[s[k + 1]] > e
    <2>1. k < n /\ k + 1 \in 1..n
      BY <1>7, <1>11, SizeNat
    <2>2. c[k] = s[k + 1] /\ s[k + 1] \in Alarm
      BY <1>1, <2>1
    <2> QED
      BY <1>6, <2>2, AlarmAssumption
  <1> HIDE DEF c, Stop, First, T
  <1>12. \A i \in 1..((k + 1) - 1) : end[s[i]] <= e
    BY <1>10
  <1> QED
    BY <1>8, <1>9, <1>11, <1>12

-----------------------------------------------------------------------------
(* The surgery *)

\* SetTimer touches the decrementer only; it runs out by e, or at once.
LEMMA TimerSet ==
  ASSUME NEW q \in Queue, NEW e \in Int, now \in Nat
  PROVE  LET r == SetTimer(q, e) IN
         /\ r \in Queue
         /\ r.head = q.head /\ r.tail = q.tail /\ r.next = q.next /\ r.prev = q.prev
         /\ r.dec >= now /\ r.dec <= now + DecMax
         /\ r.dec <= e \/ r.dec <= now
  BY AlarmAssumption DEF SetTimer, Queue

\* Links that agree keep the order.
LEMMA SameLinks ==
  ASSUME NEW q, NEW r, NEW S, NEW n, NEW s, Chained(q, S, n, s),
         r.head = q.head, r.tail = q.tail, r.next = q.next, r.prev = q.prev
  PROVE  Chained(r, S, n, s)
  BY DEF Chained

\* What With and Less hold at each place.
LEMMA WithPlaces ==
  ASSUME NEW S \in SUBSET Alarm, NEW a \in Alarm, a \notin S,
         NEW n \in Nat, NEW s, Order(S, n, s), NEW k \in 1..(n + 1)
  PROVE  Order(S \cup {a}, n + 1, With(s, n, k, a))
  <1>0. /\ s \in [1..n -> S]
        /\ \A b \in S : \E i \in 1..n : s[i] = b
        /\ \A i, j \in 1..n : s[i] = s[j] => i = j
    BY DEF Order
  <1> DEFINE t == With(s, n, k, a)
  <1>1. t \in [1..(n + 1) -> S \cup {a}]
    BY <1>0 DEF With
  <1>2. /\ t[k] = a
        /\ \A i \in 1..(n + 1) : i < k => t[i] = s[i] /\ i \in 1..n
        /\ \A i \in 1..(n + 1) : i > k => t[i] = s[i - 1] /\ i - 1 \in 1..n
    BY <1>0 DEF With
  <1> HIDE DEF t
  <1>3. ASSUME NEW b \in S \cup {a} PROVE \E i \in 1..(n + 1) : t[i] = b
    <2>1. CASE b = a
      BY <1>2, <2>1
    <2>2. CASE b # a
      <3>1. PICK i \in 1..n : s[i] = b
        BY <1>0, <2>2
      <3>2. CASE i < k
        <4>1. i \in 1..(n + 1) /\ t[i] = s[i]
          BY <1>2, <3>2
        <4> QED
          BY <3>1, <4>1
      <3>3. CASE ~(i < k)
        <4>1. i + 1 \in 1..(n + 1) /\ i + 1 > k /\ (i + 1) - 1 = i
          BY <3>3
        <4>2. t[i + 1] = s[i]
          BY <1>2, <4>1
        <4> QED
          BY <3>1, <4>1, <4>2
      <3> QED
        BY <3>2, <3>3
    <2> QED
      BY <2>1, <2>2
  <1>4. ASSUME NEW i \in 1..(n + 1), NEW j \in 1..(n + 1), t[i] = t[j]
        PROVE  i = j
    <2>1. \A h \in 1..n : s[h] # a
      BY <1>0
    <2>2. i = k <=> j = k
      BY <1>2, <1>4, <2>1
    <2>3. CASE i < k /\ j < k
      BY <1>0, <1>2, <1>4, <2>3
    <2>4. CASE i > k /\ j > k
      <3>1. i - 1 = j - 1
        BY <1>0, <1>2, <1>4, <2>4
      <3> QED
        BY <3>1
    <2>5. CASE i < k /\ j > k
      <3>1. i = j - 1
        BY <1>0, <1>2, <1>4, <2>5
      <3> QED
        BY <2>5, <3>1
    <2>6. CASE i > k /\ j < k
      <3>1. i - 1 = j
        BY <1>0, <1>2, <1>4, <2>6
      <3> QED
        BY <2>6, <3>1
    <2> QED
      BY <2>2, <2>3, <2>4, <2>5, <2>6
  <1>5. n + 1 \in 0..Size
    <2>1. t \in [1..(n + 1) -> Alarm] /\ n + 1 \in Nat
      BY <1>1
    <2> QED
      BY <1>4, <2>1, FitsSize
  <1> QED
    BY <1>1, <1>3, <1>4, <1>5 DEF t, Order

LEMMA LessPlaces ==
  ASSUME NEW S \in SUBSET Alarm, NEW n \in 0..Size, NEW s, Order(S, n, s),
         NEW k \in 1..n
  PROVE  Order(S \ {s[k]}, n - 1, Less(s, n, k))
  <1>0. /\ s \in [1..n -> S]
        /\ \A b \in S : \E i \in 1..n : s[i] = b
        /\ \A i, j \in 1..n : s[i] = s[j] => i = j
    BY DEF Order
  <1> DEFINE t == Less(s, n, k)
             old(i) == IF i < k THEN i ELSE i + 1
  <1>1. \A i \in 1..(n - 1) : old(i) \in 1..n /\ old(i) # k /\ t[i] = s[old(i)]
    BY SizeNat DEF Less
  <1>2. \A i, j \in 1..(n - 1) : old(i) = old(j) => i = j
    BY SizeNat
  <1>3. \A j \in 1..n : j # k => \E i \in 1..(n - 1) : old(i) = j
    <2> SUFFICES ASSUME NEW j \in 1..n, j # k PROVE \E i \in 1..(n - 1) : old(i) = j
      OBVIOUS
    <2>1. CASE j < k
      <3>1. j \in 1..(n - 1) /\ old(j) = j
        BY <2>1, SizeNat
      <3> QED
        BY <3>1
    <2>2. CASE j > k
      <3>1. j - 1 \in 1..(n - 1) /\ old(j - 1) = j
        BY <2>2, SizeNat
      <3> QED
        BY <3>1
    <2> QED
      BY <2>1, <2>2, SizeNat
  <1>4. t = [i \in 1..(n - 1) |-> t[i]]
    BY DEF Less
  <1> HIDE DEF t, old
  <1>5. \A i \in 1..(n - 1) : t[i] \in S \ {s[k]}
    BY <1>0, <1>1
  <1>6. t \in [1..(n - 1) -> S \ {s[k]}]
    BY <1>4, <1>5
  <1>7. ASSUME NEW b \in S \ {s[k]} PROVE \E i \in 1..(n - 1) : t[i] = b
    <2>1. PICK j \in 1..n : s[j] = b
      BY <1>0
    <2>2. PICK i \in 1..(n - 1) : old(i) = j
      BY <1>3, <2>1
    <2>3. t[i] = b
      BY <1>1, <2>1, <2>2
    <2> QED
      BY <2>3
  <1>8. \A i, j \in 1..(n - 1) : t[i] = t[j] => i = j
    BY <1>0, <1>1, <1>2
  <1>9. n - 1 \in 0..Size
    BY SizeNat
  <1> QED
    BY <1>6, <1>7, <1>8, <1>9 DEF t, Order

\* A sequence in order stays so when a later alarm than those before place k,
\* and no later than the others, is put there.
LEMMA WithSorted ==
  ASSUME NEW S \in SUBSET Alarm, NEW a \in Alarm, a \notin S, NEW e \in Int,
         NEW f \in [Alarm -> Int], NEW g \in [Alarm -> Int],
         g[a] = e, \A b \in S : g[b] = f[b],
         NEW n \in Nat, NEW s \in [1..n -> S], Sorted(f, n, s),
         NEW k \in 1..(n + 1),
         \A i \in 1..(k - 1) : f[s[i]] <= e,
         k # n + 1 => f[s[k]] >= e
  PROVE  Sorted(g, n + 1, With(s, n, k, a))
  <1> DEFINE t == With(s, n, k, a)
  <1>1. /\ t[k] = a
        /\ \A i \in 1..(n + 1) : i < k => t[i] = s[i] /\ i \in 1..n
        /\ \A i \in 1..(n + 1) : i > k => t[i] = s[i - 1] /\ i - 1 \in 1..n
    BY DEF With
  <1>2. \A i \in 1..n : g[s[i]] = f[s[i]] /\ f[s[i]] \in Int
    OBVIOUS
  <1>3. \A i, j \in 1..n : i <= j => f[s[i]] <= f[s[j]]
    BY DEF Sorted
  <1>4. \A i \in 1..n : i >= k => f[s[i]] >= e
    <2> SUFFICES ASSUME NEW i \in 1..n, i >= k PROVE f[s[i]] >= e
      OBVIOUS
    <2>1. k \in 1..n /\ f[s[k]] >= e
      OBVIOUS
    <2>2. f[s[k]] <= f[s[i]]
      BY <1>3, <2>1
    <2> QED
      BY <1>2, <2>1, <2>2
  <1>5. \A i \in 1..n : i < k => f[s[i]] <= e
    OBVIOUS
  <1> HIDE DEF t
  <1>6. ASSUME NEW i \in 1..(n + 1), NEW j \in 1..(n + 1), i <= j
        PROVE  g[t[i]] <= g[t[j]]
    <2>1. CASE i = j
      <3>1. g[t[i]] \in Int
        BY <1>1, <1>2
      <3> QED
        BY <2>1, <3>1
    <2>2. CASE i < j /\ j < k
      <3>1. t[i] = s[i] /\ t[j] = s[j] /\ i \in 1..n /\ j \in 1..n
        BY <1>1, <2>2
      <3> QED
        BY <1>2, <1>3, <2>2, <3>1
    <2>3. CASE i < k /\ j = k
      <3>1. t[i] = s[i] /\ t[j] = a /\ i \in 1..n
        BY <1>1, <2>3
      <3> QED
        BY <1>2, <1>5, <2>3, <3>1
    <2>4. CASE i < k /\ j > k
      <3>1. t[i] = s[i] /\ t[j] = s[j - 1] /\ i \in 1..n /\ j - 1 \in 1..n /\ i <= j - 1
        BY <1>1, <2>4
      <3> QED
        BY <1>2, <1>3, <3>1
    <2>5. CASE i = k /\ j > k
      <3>1. t[i] = a /\ t[j] = s[j - 1] /\ j - 1 \in 1..n /\ j - 1 >= k
        BY <1>1, <2>5
      <3> QED
        BY <1>2, <1>4, <3>1
    <2>6. CASE i > k /\ i < j
      <3>1. /\ t[i] = s[i - 1] /\ t[j] = s[j - 1]
            /\ i - 1 \in 1..n /\ j - 1 \in 1..n /\ i - 1 <= j - 1
        BY <1>1, <2>6
      <3> QED
        BY <1>2, <1>3, <3>1
    <2> QED
      BY <1>6, <2>1, <2>2, <2>3, <2>4, <2>5, <2>6
  <1> QED
    BY <1>6 DEF Sorted, t

LEMMA LessSorted ==
  ASSUME NEW S \in SUBSET Alarm, NEW e \in [Alarm -> Int],
         NEW n \in 0..Size, NEW s \in [1..n -> S], Sorted(e, n, s), NEW k \in 1..n
  PROVE  Sorted(e, n - 1, Less(s, n, k))
  <1> DEFINE t == Less(s, n, k)
             old(i) == IF i < k THEN i ELSE i + 1
  <1>1. \A i \in 1..(n - 1) : old(i) \in 1..n /\ t[i] = s[old(i)]
    BY SizeNat DEF Less
  <1>2. \A i, j \in 1..(n - 1) : i <= j => old(i) <= old(j)
    BY SizeNat
  <1> HIDE DEF t, old
  <1> QED
    BY <1>1, <1>2 DEF Sorted, t

\* What InsertAlarm makes of the queue q with the order s when the place of
\* alarm a is k.
Inserted(q, S, a, e, n, s, k) ==
  LET r == Linked(q, a, e) IN
  /\ \A i \in 1..(k - 1) : end[s[i]] <= e
  /\ k # n + 1 => end[s[k]] > e
  /\ r \in Queue
  /\ Chained(r, S \cup {a}, n + 1, With(s, n, k, a))
  /\ k = 1 => /\ r.head = a
              /\ r.dec >= now /\ r.dec <= now + DecMax
              /\ r.dec <= e \/ r.dec <= now
  /\ k # 1 => r.head = q.head /\ r.head \in S /\ r.dec = q.dec

\* InsertAlarm puts an alarm that is not in the queue at the place of its end,
\* and sets the timer when the alarm comes first.
LEMMA LinkedChained ==
  ASSUME NEW q \in Queue, NEW S \in SUBSET Alarm, NEW a \in Alarm, a \notin S,
         NEW e \in Int, end \in [Alarm -> Int], now \in Nat,
         NEW n \in 0..Size, NEW s \in [1..n -> S], Chained(q, S, n, s)
  PROVE  \E k \in 1..(n + 1) : Inserted(q, S, a, e, n, s, k)
  <1> DEFINE iter == FirstLater(q, e)
             p == IF iter = NULL THEN q.tail ELSE q.prev[iter]
             next == [b \in Alarm |-> IF b = a THEN iter ELSE IF b = p THEN a ELSE q.next[b]]
             prev == [b \in Alarm |-> IF b = a THEN p ELSE IF b = iter THEN a ELSE q.prev[b]]
             tail == IF iter = NULL THEN a ELSE q.tail
             head == IF p = NULL THEN a ELSE q.head
             r == [q EXCEPT !.next = next, !.prev = prev, !.tail = tail, !.head = head]
  <1>1. PICK k \in 1..(n + 1) :
          /\ iter = IF k = n + 1 THEN NULL ELSE s[k]
          /\ \A i \in 1..(k - 1) : end[s[i]] <= e
          /\ k # n + 1 => end[s[k]] > e
    <2>1. \E k \in 1..(n + 1) :
            /\ FirstLater(q, e) = IF k = n + 1 THEN NULL ELSE s[k]
            /\ \A i \in 1..(k - 1) : end[s[i]] <= e
            /\ k # n + 1 => end[s[k]] > e
      <3> HIDE DEF iter, p, next, prev, tail, head, r
      <3> QED
        BY FirstLaterMeets
    <2> QED
      BY <2>1
  <1>2. n \in Nat
    BY SizeNat
  <1>3. Linked(q, a, e) = IF p = NULL THEN SetTimer(r, e) ELSE r
    BY Zenon DEF Linked
  <1> HIDE DEF iter
  <1>4. p = IF k = 1 THEN NULL ELSE s[k - 1]
    <2>1. CASE k = n + 1
      BY <1>1, <1>2, <2>1 DEF Chained
    <2>2. CASE k # n + 1
      <3>1. k \in 1..n /\ s[k] \in Alarm
        BY <1>2, <2>2
      <3> QED
        BY <1>1, <2>2, <3>1, AlarmAssumption DEF Chained
    <2> QED
      BY <2>1, <2>2
  <1> HIDE DEF p
  <1>5. \A i \in 1..n : s[i] \in Alarm /\ s[i] # a /\ s[i] # NULL
    BY AlarmAssumption
  <1>6. iter \in Link /\ p \in Link
    BY <1>1, <1>4, <1>5, <1>2 DEF Link
  <1>7. /\ head \in Link /\ tail \in Link
        /\ next \in [Alarm -> Link] /\ prev \in [Alarm -> Link]
    BY <1>6 DEF Queue, Link
  <1> DEFINE t == With(s, n, k, a)
  <1>8. /\ t[k] = a
        /\ \A i \in 1..(n + 1) : i < k => t[i] = s[i] /\ i \in 1..n
        /\ \A i \in 1..(n + 1) : i > k => t[i] = s[i - 1] /\ i - 1 \in 1..n
    BY <1>2 DEF With
  <1>9. Order(S \cup {a}, n + 1, t) /\ \A i, j \in 1..n : s[i] = s[j] => i = j
    <2>1. Order(S, n, s)
      BY DEF Chained
    <2>2. Order(S \cup {a}, n + 1, t)
      <3> HIDE DEF r
      <3> QED
        BY <1>2, <2>1, WithPlaces
    <2> QED
      BY <2>1, <2>2 DEF Order
  <1>10. /\ r.head = head /\ r.tail = tail /\ r.next = next /\ r.prev = prev
         /\ r.dec = q.dec /\ r \in Queue
    <2> HIDE DEF head, tail, next, prev
    <2> QED
      BY <1>7 DEF Queue
  <1> HIDE DEF r, t
  <1>11. r.head = t[1]
    <2>1. CASE k = 1
      BY <2>1, <1>4, <1>8, <1>10
    <2>2. CASE k # 1
      <3>1. 1 \in 1..n /\ k - 1 \in 1..n /\ t[1] = s[1]
        BY <2>2, <1>2, <1>8
      <3>2. p # NULL /\ q.head = s[1]
        BY <2>2, <3>1, <1>2, <1>4, <1>5 DEF Chained
      <3> QED
        BY <3>1, <3>2, <1>10
    <2> QED
      BY <2>1, <2>2
  <1>12. r.tail = t[n + 1]
    <2>1. CASE k = n + 1
      BY <2>1, <1>1, <1>8, <1>10
    <2>2. CASE k # n + 1
      <3>1. k \in 1..n /\ n \in 1..n /\ n + 1 \in 1..(n + 1) /\ n + 1 > k /\ (n + 1) - 1 = n
        BY <2>2, <1>2
      <3>2. t[n + 1] = s[n]
        BY <3>1, <1>8
      <3>3. iter # NULL /\ q.tail = s[n]
        BY <2>2, <3>1, <1>1, <1>2, <1>5 DEF Chained
      <3> QED
        BY <3>2, <3>3, <1>10
    <2> QED
      BY <2>1, <2>2
  <1>13. ASSUME NEW i \in 1..(n + 1)
         PROVE  r.next[t[i]] = IF i = n + 1 THEN NULL ELSE t[i + 1]
    <2>1. CASE i = k
      <3>1. r.next[t[i]] = iter
        BY <2>1, <1>8, <1>10
      <3>2. i # n + 1 => t[i + 1] = s[k]
        <4>1. i # n + 1 => i + 1 \in 1..(n + 1) /\ i + 1 > k /\ (i + 1) - 1 = k
          BY <2>1, <1>2
        <4> QED
          BY <4>1, <1>8
      <3> QED
        BY <2>1, <3>1, <3>2, <1>1
    <2>2. CASE i = k - 1
      <3>1. i \in 1..n /\ i < k /\ i + 1 = k /\ i # n + 1 /\ k # 1
        BY <2>2, <1>2
      <3>2. t[i] = s[i] /\ p = s[i] /\ t[i + 1] = a
        BY <2>2, <3>1, <1>4, <1>8
      <3>3. r.next[s[i]] = a
        BY <3>1, <3>2, <1>5, <1>10
      <3> QED
        BY <3>1, <3>2, <3>3
    <2>3. CASE i < k - 1
      <3>1. /\ i \in 1..n /\ i < k /\ i + 1 < k /\ i + 1 \in 1..(n + 1) /\ i # n + 1
            /\ i # n /\ k # 1 /\ k - 1 \in 1..n /\ i # k - 1
        BY <2>3, <1>2
      <3>2. t[i] = s[i] /\ t[i + 1] = s[i + 1]
        BY <3>1, <1>8
      <3>3. p # s[i]
        BY <3>1, <1>4, <1>9
      <3>4. r.next[s[i]] = q.next[s[i]]
        BY <3>1, <3>3, <1>5, <1>10
      <3>5. q.next[s[i]] = s[i + 1]
        BY <3>1 DEF Chained
      <3> QED
        BY <3>1, <3>2, <3>4, <3>5
    <2>4. CASE i > k
      <3>1. i - 1 \in 1..n /\ t[i] = s[i - 1]
        BY <2>4, <1>8
      <3>2. p # s[i - 1]
        <4>1. k # 1 => k - 1 \in 1..n /\ k - 1 # i - 1
          BY <2>4, <1>2
        <4> QED
          BY <3>1, <4>1, <1>4, <1>5, <1>9
      <3>3. r.next[s[i - 1]] = q.next[s[i - 1]]
        BY <3>1, <3>2, <1>5, <1>10
      <3>4. q.next[s[i - 1]] = IF i - 1 = n THEN NULL ELSE s[(i - 1) + 1]
        BY <3>1 DEF Chained
      <3>5. i # n + 1 => i + 1 \in 1..(n + 1) /\ i + 1 > k /\ (i + 1) - 1 = i /\ i - 1 # n
        BY <2>4, <1>2
      <3>6. i # n + 1 => t[i + 1] = s[i]
        BY <3>5, <1>8
      <3>7. (i - 1) + 1 = i /\ (i = n + 1 => i - 1 = n)
        BY <1>2
      <3> QED
        BY <3>1, <3>3, <3>4, <3>5, <3>6, <3>7
    <2>5. i = k \/ i = k - 1 \/ i < k - 1 \/ i > k
      BY <1>2
    <2> QED
      BY <2>1, <2>2, <2>3, <2>4, <2>5
  <1>14. ASSUME NEW i \in 1..(n + 1)
         PROVE  r.prev[t[i]] = IF i = 1 THEN NULL ELSE t[i - 1]
    <2>1. CASE i = k
      <3>1. r.prev[t[i]] = p
        BY <2>1, <1>8, <1>10
      <3>2. i # 1 => i - 1 \in 1..(n + 1) /\ i - 1 < k
        BY <2>1, <1>2
      <3>3. i # 1 => t[i - 1] = s[k - 1]
        BY <2>1, <3>2, <1>8
      <3> QED
        BY <2>1, <3>1, <3>3, <1>4
    <2>2. CASE i = k + 1
      <3>1. i - 1 = k /\ i > k /\ k \in 1..n /\ k # n + 1 /\ i # 1
        BY <2>2, <1>2
      <3>2. t[i] = s[k] /\ iter = s[k] /\ t[i - 1] = a
        BY <3>1, <1>1, <1>8
      <3>3. r.prev[s[k]] = a
        BY <3>1, <3>2, <1>5, <1>10
      <3> QED
        BY <3>1, <3>2, <3>3
    <2>3. CASE i < k
      <3>1. i \in 1..n /\ t[i] = s[i]
        BY <2>3, <1>8
      <3>2. iter # s[i]
        <4>1. k # n + 1 => k \in 1..n /\ k # i
          BY <2>3, <1>2
        <4> QED
          BY <3>1, <4>1, <1>1, <1>5, <1>9
      <3>3. r.prev[s[i]] = q.prev[s[i]]
        BY <3>1, <3>2, <1>5, <1>10
      <3>4. q.prev[s[i]] = IF i = 1 THEN NULL ELSE s[i - 1]
        BY <3>1 DEF Chained
      <3>5. i # 1 => i - 1 \in 1..(n + 1) /\ i - 1 < k
        BY <2>3, <1>2
      <3>6. i # 1 => t[i - 1] = s[i - 1]
        BY <3>5, <1>8
      <3> QED
        BY <3>1, <3>3, <3>4, <3>6
    <2>4. CASE i > k + 1
      <3>1. i - 1 \in 1..n /\ t[i] = s[i - 1]
        BY <2>4, <1>2, <1>8
      <3>2. /\ i # 1 /\ i - 1 # 1 /\ i - 1 \in 1..(n + 1) /\ i - 1 > k
            /\ k \in 1..n /\ k # i - 1
        BY <2>4, <1>2
      <3>3. t[i - 1] = s[(i - 1) - 1]
        BY <3>2, <1>8
      <3>4. iter # s[i - 1]
        <4>1. iter = s[k] \/ iter = NULL
          BY <1>1
        <4> QED
          BY <3>1, <3>2, <4>1, <1>5, <1>9
      <3>5. r.prev[s[i - 1]] = q.prev[s[i - 1]]
        BY <3>1, <3>4, <1>5, <1>10
      <3>6. q.prev[s[i - 1]] = s[(i - 1) - 1]
        BY <3>1, <3>2 DEF Chained
      <3> QED
        BY <3>1, <3>2, <3>3, <3>5, <3>6
    <2>5. i = k \/ i = k + 1 \/ i < k \/ i > k + 1
      BY <1>2
    <2> QED
      BY <2>1, <2>2, <2>3, <2>4, <2>5
  <1>15. Chained(r, S \cup {a}, n + 1, t)
    <2>1. n + 1 # 0
      BY <1>2
    <2> QED
      BY <1>9, <1>11, <1>12, <1>13, <1>14, <2>1 DEF Chained
  <1>16. SetTimer(r, e).head = r.head /\ Chained(SetTimer(r, e), S \cup {a}, n + 1, t)
    BY <1>10, <1>15, TimerSet, SameLinks
  <1>17. CASE k = 1
    <2>1. p = NULL /\ Linked(q, a, e) = SetTimer(r, e)
      BY <1>3, <1>4, <1>17
    <2>2. r.head = a
      BY <1>8, <1>11, <1>17
    <2>3. /\ SetTimer(r, e) \in Queue /\ SetTimer(r, e).head = a
          /\ SetTimer(r, e).dec >= now /\ SetTimer(r, e).dec <= now + DecMax
          /\ SetTimer(r, e).dec <= e \/ SetTimer(r, e).dec <= now
      BY <1>10, <1>16, <2>2, TimerSet
    <2> QED
      BY <1>1, <1>16, <1>17, <2>1, <2>3 DEF t, Inserted
  <1>18. CASE k # 1
    <2>1. p # NULL /\ 1 \in 1..n /\ 1 \in 1..(n + 1) /\ 1 < k /\ n # 0
      BY <1>2, <1>4, <1>5, <1>18
    <2>2. r.head = s[1] /\ s[1] = q.head /\ s[1] \in S
      BY <1>8, <1>11, <2>1 DEF Chained
    <2>3. Linked(q, a, e) = r
      BY <1>3, <2>1
    <2> QED
      BY <1>1, <1>10, <1>15, <1>18, <2>2, <2>3 DEF t, Inserted
  <1> QED
    BY <1>17, <1>18

\* The queue r that InsertAlarm makes of q for the alarm a, when g are the ends
\* with its own: the timer is set anew exactly when the head is.
Joined(r, q, S, a, g) ==
  /\ r \in Queue
  /\ InOrder(r, S \cup {a}, g)
  /\ \/ /\ r.head = a
        /\ r.dec >= now /\ r.dec <= now + DecMax
        /\ r.dec <= g[a] \/ r.dec <= now
     \/ r.head = q.head /\ r.head \in S /\ r.dec = q.dec

LEMMA LinkedInOrder ==
  ASSUME NEW q \in Queue, NEW S \in SUBSET Alarm, NEW a \in Alarm, a \notin S,
         NEW e \in Int, end \in [Alarm -> Int], now \in Nat, InOrder(q, S, end),
         NEW g \in [Alarm -> Int], g[a] = e, \A b \in S : g[b] = end[b]
  PROVE  Joined(Linked(q, a, e), q, S, a, g)
  <1> DEFINE r == Linked(q, a, e)
  <1>1. PICK n \in 0..Size : \E s \in [1..n -> S] : Chained(q, S, n, s) /\ Sorted(end, n, s)
    BY DEF InOrder
  <1>2. PICK s \in [1..n -> S] : Chained(q, S, n, s) /\ Sorted(end, n, s)
    BY <1>1
  <1>3. PICK k \in 1..(n + 1) : Inserted(q, S, a, e, n, s, k)
    BY <1>2, LinkedChained
  <1> HIDE DEF r
  <1>4. n \in Nat
    BY SizeNat
  <1>5. /\ \A i \in 1..(k - 1) : end[s[i]] <= e
        /\ k # n + 1 => end[s[k]] >= e
    <2>1. k # n + 1 => end[s[k]] \in Int
      BY <1>4
    <2> QED
      BY <1>3, <2>1 DEF Inserted
  <1>6. Sorted(g, n + 1, With(s, n, k, a))
    BY <1>2, <1>4, <1>5, WithSorted
  <1>7. r \in Queue /\ Chained(r, S \cup {a}, n + 1, With(s, n, k, a))
    BY <1>3 DEF Inserted, r
  <1>8. InOrder(r, S \cup {a}, g)
    BY <1>6, <1>7, Zenon DEF InOrder, Chained, Order
  <1>9. k = 1 => /\ r.head = a
                 /\ r.dec >= now /\ r.dec <= now + DecMax
                 /\ r.dec <= e \/ r.dec <= now
    BY <1>3 DEF Inserted, r
  <1>10. k # 1 => r.head = q.head /\ r.head \in S /\ r.dec = q.dec
    BY <1>3 DEF Inserted, r
  <1>11. \/ /\ r.head = a
            /\ r.dec >= now /\ r.dec <= now + DecMax
            /\ r.dec <= g[a] \/ r.dec <= now
         \/ r.head = q.head /\ r.head \in S /\ r.dec = q.dec
    <2>1. CASE k = 1
      BY <1>9, <2>1
    <2>2. CASE k # 1
      BY <1>10, <2>2
    <2> QED
      BY <2>1, <2>2
  <1> QED
    BY <1>7, <1>8, <1>11 DEF Joined, r

\* The links as they are once the alarm at place k is out of them: the alarms
\* on both sides lead to each other, and an end of the queue moves when it was
\* at that end.  OSCancelAlarm writes all of it, and the exception callback the
\* part that the head needs.
LEMMA UnlinkedOrder ==
  ASSUME NEW q, NEW r, NEW S \in SUBSET Alarm,
         NEW n \in 0..Size, NEW s \in [1..n -> S], Chained(q, S, n, s), NEW k \in 1..n,
         r.head = IF k = 1 THEN q.next[s[k]] ELSE q.head,
         r.tail = IF k = n THEN q.prev[s[k]] ELSE q.tail,
         \A b \in S \ {s[k]} :
           /\ r.next[b] = IF b = q.prev[s[k]] THEN q.next[s[k]] ELSE q.next[b]
           /\ r.prev[b] = IF b = q.next[s[k]] THEN q.prev[s[k]] ELSE q.prev[b]
  PROVE  Chained(r, S \ {s[k]}, n - 1, Less(s, n, k))
  <1> DEFINE t == Less(s, n, k)
  <1>1. n \in Nat \ {0} /\ s[k] \in S
    BY SizeNat
  <1>2. Order(S, n, s) /\ \A i, j \in 1..n : s[i] = s[j] => i = j
    BY DEF Chained, Order
  <1>3. Order(S \ {s[k]}, n - 1, t)
    <2> HIDE DEF t
    <2> QED
      BY <1>2, LessPlaces DEF t
  <1>4. /\ \A i \in 1..(n - 1) : i < k => t[i] = s[i] /\ i \in 1..n /\ s[i] # s[k]
        /\ \A i \in 1..(n - 1) : i >= k => t[i] = s[i + 1] /\ i + 1 \in 1..n /\ s[i + 1] # s[k]
    BY <1>1, <1>2 DEF Less
  <1>5. /\ q.next[s[k]] = IF k = n THEN NULL ELSE s[k + 1]
        /\ q.prev[s[k]] = IF k = 1 THEN NULL ELSE s[k - 1]
    BY DEF Chained
  <1>6. \A i \in 1..n : s[i] \in S /\ s[i] # NULL
    BY AlarmAssumption
  <1>7. \A i \in 1..n : /\ q.next[s[i]] = IF i = n THEN NULL ELSE s[i + 1]
                        /\ q.prev[s[i]] = IF i = 1 THEN NULL ELSE s[i - 1]
    BY DEF Chained
  <1>8. /\ \A i \in 1..n : k # n /\ s[i] = q.next[s[k]] => i = k + 1
        /\ \A i \in 1..n : k # 1 /\ s[i] = q.prev[s[k]] => i = k - 1
        /\ k = n => q.next[s[k]] = NULL
        /\ k = 1 => q.prev[s[k]] = NULL
    BY <1>1, <1>2, <1>5
  <1> HIDE DEF t
  <1>9. r.head = IF n - 1 = 0 THEN NULL ELSE t[1]
    <2>1. CASE k = 1
      BY <2>1, <1>1, <1>4, <1>5
    <2>2. CASE k # 1
      <3>1. n - 1 # 0 /\ 1 \in 1..(n - 1) /\ 1 < k /\ n # 0
        BY <2>2, <1>1
      <3>2. t[1] = s[1] /\ q.head = s[1]
        BY <3>1, <1>4 DEF Chained
      <3> QED
        BY <2>2, <3>1, <3>2
    <2> QED
      BY <2>1, <2>2
  <1>10. r.tail = IF n - 1 = 0 THEN NULL ELSE t[n - 1]
    <2>1. CASE k = n
      <3>1. n - 1 # 0 => n - 1 \in 1..(n - 1) /\ n - 1 < k
        BY <2>1, <1>1
      <3>2. n - 1 # 0 => t[n - 1] = s[n - 1]
        BY <3>1, <1>4
      <3>3. n - 1 = 0 <=> k = 1
        BY <2>1, <1>1
      <3> QED
        BY <2>1, <3>2, <3>3, <1>5
    <2>2. CASE k # n
      <3>1. n - 1 # 0 /\ n - 1 \in 1..(n - 1) /\ n - 1 >= k /\ n # 0 /\ (n - 1) + 1 = n
        BY <2>2, <1>1
      <3>2. t[n - 1] = s[n] /\ q.tail = s[n]
        BY <3>1, <1>4 DEF Chained
      <3> QED
        BY <2>2, <3>1, <3>2
    <2> QED
      BY <2>1, <2>2
  <1>11. ASSUME NEW i \in 1..(n - 1)
         PROVE  r.next[t[i]] = IF i = n - 1 THEN NULL ELSE t[i + 1]
    <2>1. CASE i < k - 1
      <3>1. i < k /\ i \in 1..n /\ i # n /\ i # n - 1 /\ i + 1 \in 1..(n - 1) /\ i + 1 < k
            /\ k # 1 /\ i # k - 1
        BY <2>1, <1>1
      <3>2. t[i] = s[i] /\ t[i + 1] = s[i + 1] /\ s[i] \in S \ {s[k]}
        BY <3>1, <1>4, <1>6
      <3>3. r.next[s[i]] = q.next[s[i]]
        BY <3>1, <3>2, <1>8
      <3> QED
        BY <3>1, <3>2, <3>3, <1>7
    <2>2. CASE i = k - 1
      <3>1. i < k /\ i \in 1..n /\ k # 1
        BY <2>2, <1>1
      <3>2. t[i] = s[i] /\ s[i] \in S \ {s[k]} /\ s[i] = q.prev[s[k]]
        BY <2>2, <3>1, <1>4, <1>5, <1>6
      <3>3. r.next[s[i]] = q.next[s[k]]
        BY <3>2
      <3>4. i # n - 1 => i + 1 \in 1..(n - 1) /\ i + 1 >= k /\ (i + 1) + 1 = k + 1 /\ k # n
        BY <2>2, <1>1
      <3>5. i # n - 1 => t[i + 1] = s[k + 1]
        BY <3>4, <1>4
      <3>6. i = n - 1 => k = n
        BY <2>2, <1>1
      <3> QED
        BY <3>2, <3>3, <3>4, <3>5, <3>6, <1>5
    <2>3. CASE i >= k
      <3>1. /\ i + 1 \in 1..n /\ k # 1 => i + 1 # k - 1
            /\ i = n - 1 <=> i + 1 = n
        BY <2>3, <1>1
      <3>2. t[i] = s[i + 1] /\ s[i + 1] \in S \ {s[k]} /\ i + 1 \in 1..n
        BY <2>3, <1>4, <1>6
      <3>3. r.next[s[i + 1]] = q.next[s[i + 1]]
        <4>1. s[i + 1] # q.prev[s[k]]
          BY <3>1, <3>2, <1>6, <1>8
        <4> QED
          BY <3>2, <4>1
      <3>4. i # n - 1 => i + 1 \in 1..(n - 1) /\ i + 1 >= k
        BY <2>3, <1>1
      <3>5. i # n - 1 => t[i + 1] = s[(i + 1) + 1]
        BY <3>4, <1>4
      <3> QED
        BY <3>1, <3>2, <3>3, <3>5, <1>7
    <2>4. i < k - 1 \/ i = k - 1 \/ i >= k
      BY <1>1
    <2> QED
      BY <2>1, <2>2, <2>3, <2>4
  <1>12. ASSUME NEW i \in 1..(n - 1)
         PROVE  r.prev[t[i]] = IF i = 1 THEN NULL ELSE t[i - 1]
    <2>1. CASE i < k
      <3>1. /\ i \in 1..n /\ i # k + 1
            /\ i # 1 => i - 1 \in 1..(n - 1) /\ i - 1 < k
        BY <2>1, <1>1
      <3>2. t[i] = s[i] /\ s[i] \in S \ {s[k]}
        BY <2>1, <1>4, <1>6
      <3>3. r.prev[s[i]] = q.prev[s[i]]
        <4>1. s[i] # q.next[s[k]]
          BY <3>1, <1>6, <1>8
        <4> QED
          BY <3>2, <4>1
      <3>4. i # 1 => t[i - 1] = s[i - 1]
        BY <3>1, <1>4
      <3> QED
        BY <3>1, <3>2, <3>3, <3>4, <1>7
    <2>2. CASE i = k
      <3>1. /\ i + 1 = k + 1 /\ k # n
            /\ i # 1 => i - 1 \in 1..(n - 1) /\ i - 1 < k
        BY <2>2, <1>1
      <3>2. t[i] = s[k + 1] /\ s[k + 1] \in S \ {s[k]}
        BY <2>2, <1>4, <1>6
      <3>3. r.prev[s[k + 1]] = q.prev[s[k]]
        BY <3>1, <3>2, <1>5
      <3>4. i # 1 => t[i - 1] = s[k - 1]
        BY <2>2, <3>1, <1>4
      <3> QED
        BY <2>2, <3>2, <3>3, <3>4, <1>5
    <2>3. CASE i > k
      <3>1. /\ i + 1 \in 1..n /\ i + 1 # k + 1 /\ i + 1 # 1 /\ (i + 1) - 1 = i /\ i # 1
            /\ i - 1 \in 1..(n - 1) /\ i - 1 >= k /\ (i - 1) + 1 = i
        BY <2>3, <1>1
      <3>2. t[i] = s[i + 1] /\ s[i + 1] \in S \ {s[k]}
        BY <2>3, <1>4, <1>6
      <3>3. r.prev[s[i + 1]] = q.prev[s[i + 1]]
        <4>1. s[i + 1] # q.next[s[k]]
          BY <3>1, <1>6, <1>8
        <4> QED
          BY <3>2, <4>1
      <3>4. t[i - 1] = s[i]
        BY <3>1, <1>4
      <3> QED
        BY <3>1, <3>2, <3>3, <3>4, <1>7
    <2>4. i < k \/ i = k \/ i > k
      BY <1>1
    <2> QED
      BY <2>1, <2>2, <2>3, <2>4
  <1> QED
    BY <1>3, <1>9, <1>10, <1>11, <1>12 DEF Chained, t

\* OSCancelAlarm takes a set alarm out of any place of the queue, and sets the
\* timer for the new head when that was the head.
LEMMA UnlinkedInOrder ==
  ASSUME NEW q \in Queue, NEW S \in SUBSET Alarm, end \in [Alarm -> Int], now \in Nat,
         InOrder(q, S, end), NEW a \in S
  PROVE  LET r == Unlinked(q, a) IN
         /\ r \in Queue
         /\ InOrder(r, S \ {a}, end)
         /\ r.head \in Link
         /\ \/ r.head = NULL /\ r.dec = q.dec
            \/ r.head = q.head /\ r.dec = q.dec
            \/ /\ r.dec >= now /\ r.dec <= now + DecMax
               /\ r.dec <= end[r.head] \/ r.dec <= now
  <1> DEFINE n == q.next[a]
             p == q.prev[a]
             next == [b \in Alarm |-> IF b = p THEN n ELSE q.next[b]]
             prev == [b \in Alarm |-> IF b = n THEN p ELSE q.prev[b]]
             tail == IF n = NULL THEN p ELSE q.tail
             head == IF p = NULL THEN n ELSE q.head
             r == [q EXCEPT !.next = next, !.prev = prev, !.tail = tail, !.head = head]
  <1>1. Unlinked(q, a) = IF p = NULL /\ n # NULL THEN SetTimer(r, end[n]) ELSE r
    BY Zenon DEF Unlinked
  <1>2. n \in Link /\ p \in Link
    BY DEF Queue
  <1> HIDE DEF n, p
  <1>3. /\ head \in Link /\ tail \in Link
        /\ next \in [Alarm -> Link] /\ prev \in [Alarm -> Link]
    BY <1>2 DEF Queue
  <1>4. /\ r.head = head /\ r.tail = tail /\ r.next = next /\ r.prev = prev
        /\ r.dec = q.dec /\ r \in Queue
    <2> HIDE DEF head, tail, next, prev
    <2> QED
      BY <1>3 DEF Queue
  <1> HIDE DEF r
  <1>5. PICK m \in 0..Size : \E s \in [1..m -> S] : Chained(q, S, m, s) /\ Sorted(end, m, s)
    BY DEF InOrder
  <1>6. PICK s \in [1..m -> S] : Chained(q, S, m, s) /\ Sorted(end, m, s)
    BY <1>5
  <1>7. PICK k \in 1..m : s[k] = a
    BY <1>6 DEF Chained, Order
  <1>8. /\ n = IF k = m THEN NULL ELSE s[k + 1]
        /\ p = IF k = 1 THEN NULL ELSE s[k - 1]
    BY <1>6, <1>7 DEF Chained, n, p
  <1>9. (n = NULL <=> k = m) /\ (p = NULL <=> k = 1)
    <2>1. /\ k # m => s[k + 1] \in Alarm
          /\ k # 1 => s[k - 1] \in Alarm
      BY SizeNat
    <2> QED
      BY <1>8, <2>1, AlarmAssumption
  <1>10. Chained(r, S \ {a}, m - 1, Less(s, m, k))
    <2>1. /\ r.head = IF k = 1 THEN q.next[s[k]] ELSE q.head
          /\ r.tail = IF k = m THEN q.prev[s[k]] ELSE q.tail
      BY <1>4, <1>7, <1>9 DEF n, p
    <2>2. \A b \in S \ {s[k]} :
            /\ r.next[b] = IF b = q.prev[s[k]] THEN q.next[s[k]] ELSE q.next[b]
            /\ r.prev[b] = IF b = q.next[s[k]] THEN q.prev[s[k]] ELSE q.prev[b]
      BY <1>4, <1>7 DEF n, p
    <2>3. Chained(r, S \ {s[k]}, m - 1, Less(s, m, k))
      BY <1>6, <2>1, <2>2, UnlinkedOrder
    <2> QED
      BY <1>7, <2>3
  <1>11. Sorted(end, m - 1, Less(s, m, k))
    BY <1>6, LessSorted
  <1>12. InOrder(r, S \ {a}, end) /\ InOrder(SetTimer(r, end[n]), S \ {a}, end)
    <2>1. Chained(SetTimer(r, end[n]), S \ {a}, m - 1, Less(s, m, k))
      <3>1. LET v == SetTimer(r, end[n]) IN
            v.head = r.head /\ v.tail = r.tail /\ v.next = r.next /\ v.prev = r.prev
        BY <1>4 DEF SetTimer, Queue
      <3> QED
        BY <1>10, <3>1, SameLinks
    <2> QED
      BY <1>10, <1>11, <2>1, Zenon DEF InOrder, Chained, Order
  <1>13. CASE p = NULL /\ n # NULL
    <2>1. n \in Alarm /\ r.head = n /\ end[n] \in Int
      BY <1>2, <1>4, <1>13 DEF Link
    <2> DEFINE v == SetTimer(r, end[n])
    <2>2. /\ v \in Queue /\ v.head = n
          /\ v.dec >= now /\ v.dec <= now + DecMax
          /\ v.dec <= end[n] \/ v.dec <= now
      BY <1>4, <2>1, TimerSet
    <2> HIDE DEF v
    <2>3. Unlinked(q, a) = v /\ InOrder(v, S \ {a}, end)
      BY <1>1, <1>12, <1>13 DEF v
    <2> QED
      BY <1>2, <2>2, <2>3
  <1>14. CASE ~(p = NULL /\ n # NULL)
    <2>1. Unlinked(q, a) = r
      BY <1>1, <1>14
    <2>2. r.head = NULL \/ r.head = q.head
      BY <1>4, <1>14
    <2> QED
      BY <1>3, <1>4, <1>12, <2>1, <2>2
  <1> QED
    BY <1>13, <1>14

\* The exception callback takes off the head, the earliest of the alarms.
LEMMA PoppedInOrder ==
  ASSUME NEW q \in Queue, NEW S \in SUBSET Alarm, NEW e \in [Alarm -> Int],
         InOrder(q, S, e), q.head # NULL
  PROVE  LET r == Popped(q) IN
         /\ q.head \in S
         /\ \A b \in S : e[q.head] <= e[b]
         /\ r \in Queue /\ r.dec = q.dec
         /\ InOrder(r, S \ {q.head}, e)
  <1> DEFINE a == q.head
             n == q.next[a]
             prev == [b \in Alarm |-> IF b = n THEN NULL ELSE q.prev[b]]
             tail == IF n = NULL THEN NULL ELSE q.tail
             r == [q EXCEPT !.head = n, !.tail = tail, !.prev = prev]
  <1>1. Popped(q) = r
    BY Zenon DEF Popped
  <1>2. PICK m \in 0..Size : \E s \in [1..m -> S] : Chained(q, S, m, s) /\ Sorted(e, m, s)
    BY DEF InOrder
  <1>3. PICK s \in [1..m -> S] : Chained(q, S, m, s) /\ Sorted(e, m, s)
    BY <1>2
  <1>4. 1 \in 1..m /\ a = s[1] /\ a \in S /\ m \in Nat
    <2>1. m # 0 /\ a = s[1]
      BY <1>3 DEF Chained
    <2> QED
      BY <2>1, SizeNat
  <1>5. n = IF 1 = m THEN NULL ELSE s[1 + 1]
    BY <1>3, <1>4 DEF Chained
  <1>6. n = NULL <=> 1 = m
    <2>1. 1 # m => s[1 + 1] \in Alarm
      BY <1>4
    <2> QED
      BY <1>5, <2>1, AlarmAssumption
  <1>7. n \in Link /\ a \in Alarm /\ q.prev[a] = NULL
    BY <1>3, <1>4 DEF Queue, Chained
  <1> HIDE DEF n
  <1>8. tail \in Link /\ prev \in [Alarm -> Link]
    BY DEF Queue, Link
  <1>9. /\ r.head = n /\ r.tail = tail /\ r.next = q.next /\ r.prev = prev
        /\ r.dec = q.dec /\ r \in Queue
    <2> HIDE DEF tail, prev
    <2> QED
      BY <1>7, <1>8 DEF Queue
  <1> HIDE DEF r
  <1>10. ASSUME NEW b \in S PROVE e[a] <= e[b]
    <2>1. PICK i \in 1..m : s[i] = b
      BY <1>3 DEF Chained, Order
    <2>2. 1 <= i
      OBVIOUS
    <2> QED
      BY <1>3, <1>4, <2>1, <2>2 DEF Sorted
  <1>11. Chained(r, S \ {s[1]}, m - 1, Less(s, m, 1))
    <2>1. /\ r.head = IF 1 = 1 THEN q.next[s[1]] ELSE q.head
          /\ r.tail = IF 1 = m THEN q.prev[s[1]] ELSE q.tail
      BY <1>4, <1>6, <1>7, <1>9 DEF n
    <2>2. \A b \in S \ {s[1]} :
            /\ r.next[b] = IF b = q.prev[s[1]] THEN q.next[s[1]] ELSE q.next[b]
            /\ r.prev[b] = IF b = q.next[s[1]] THEN q.prev[s[1]] ELSE q.prev[b]
      BY <1>4, <1>7, <1>9, AlarmAssumption DEF n
    <2> QED
      BY <1>3, <1>4, <2>1, <2>2, UnlinkedOrder
  <1>12. Sorted(e, m - 1, Less(s, m, 1))
    BY <1>3, <1>4, LessSorted
  <1>13. InOrder(r, S \ {a}, e)
    BY <1>4, <1>11, <1>12, Zenon DEF InOrder, Chained, Order
  <1> QED
    BY <1>1, <1>4, <1>9, <1>10, <1>13

-----------------------------------------------------------------------------
(* The walk of the final pass *)

\* One step of the walk of OnReset, at the i-th alarm of the chain c.
WalkStep(w, c, i) ==
  IF c[i - 1] = NULL \/ c[i - 1] \in DVDAlarm THEN w ELSE Unlinked(w, c[i - 1])

\* walk holds what is left of the queue q after each of the first n steps.
IsWalk(walk, q, c, n) ==
  walk = [i \in 0..n |-> IF i = 0 THEN q ELSE WalkStep(walk[i - 1], c, i)]

\* The walk is defined at each of its steps.
LEMMA WalkDefined ==
  ASSUME NEW q, NEW c, NEW n \in Nat
  PROVE  \E f : IsWalk(f, q, c, n)
  <1> DEFINE Walk(f, m) == [i \in 0..m |-> IF i = 0 THEN q ELSE WalkStep(f[i - 1], c, i)]
             T == {m \in Nat : ~\E f : f = Walk(f, m)}
  <1>1. ASSUME T # {} PROVE FALSE
    <2>1. T \subseteq Nat
      OBVIOUS
    <2>2. PICK m \in T : \A j \in T : ~(j < m)
      <3> HIDE DEF T
      <3> QED
        BY <1>1, <2>1, Least
    <2>3. m \in Nat /\ ~\E f : f = Walk(f, m)
      BY <2>2
    <2>4. CASE m = 0
      <3> DEFINE f == [i \in 0..0 |-> q]
      <3>1. f = Walk(f, 0)
        OBVIOUS
      <3> QED
        BY <2>3, <2>4, <3>1
    <2>5. CASE m # 0
      <3>1. m - 1 \in Nat /\ m - 1 < m
        BY <2>3, <2>5
      <3>2. PICK f : f = Walk(f, m - 1)
        BY <2>2, <3>1
      <3> DEFINE g == [i \in 0..m |-> IF i = m THEN WalkStep(f[m - 1], c, m) ELSE f[i]]
      <3>3. \A i \in 0..(m - 1) : i \in 0..m /\ i # m /\ g[i] = f[i]
        BY <2>3
      <3>4. \A i \in 0..(m - 1) : f[i] = IF i = 0 THEN q ELSE WalkStep(f[i - 1], c, i)
        BY <3>2
      <3>5. ASSUME NEW i \in 0..m
            PROVE  g[i] = IF i = 0 THEN q ELSE WalkStep(g[i - 1], c, i)
        <4>1. CASE i = m
          <5>1. g[i] = WalkStep(f[m - 1], c, m) /\ i # 0 /\ m - 1 \in 0..(m - 1)
            BY <2>3, <2>5, <4>1
          <5>2. g[m - 1] = f[m - 1]
            BY <3>3, <5>1
          <5> HIDE DEF g
          <5> QED
            BY <4>1, <5>1, <5>2
        <4>2. CASE i # m
          <5>1. i \in 0..(m - 1) /\ (i # 0 => i - 1 \in 0..(m - 1))
            BY <2>3, <4>2
          <5>2. g[i] = f[i] /\ (i # 0 => g[i - 1] = f[i - 1])
            BY <3>3, <5>1
          <5> HIDE DEF g
          <5> QED
            BY <3>4, <5>1, <5>2
        <4> QED
          BY <4>1, <4>2
      <3>6. g = [i \in 0..m |-> g[i]]
        OBVIOUS
      <3> HIDE DEF g
      <3>7. g = Walk(g, m)
        BY <3>5, <3>6
      <3> QED
        BY <2>3, <3>7
    <2> QED
      BY <2>4, <2>5
  <1>2. \E f : f = Walk(f, n)
    BY <1>1
  <1> QED
    BY <1>2 DEF IsWalk

\* The walk of the final pass takes every alarm out but those of the DVD: the
\* links it follows were read before the first was taken out.
LEMMA WalkInOrder ==
  ASSUME NEW q \in Queue, NEW S \in SUBSET Alarm, end \in [Alarm -> Int],
         now \in 0..MaxTime, q.dec \in Stopped..(MaxTime + DecMax), InOrder(q, S, end),
         NEW walk, IsWalk(walk, q, Chain(q), Size)
  PROVE  /\ walk[Size] \in Queue
         /\ walk[Size].dec \in Stopped..(MaxTime + DecMax)
         /\ InOrder(walk[Size], S \cap DVDAlarm, end)
  <1>1. PICK n \in 0..Size : \E s \in [1..n -> S] : Chained(q, S, n, s) /\ Sorted(end, n, s)
    BY DEF InOrder
  <1>2. PICK s \in [1..n -> S] : Chained(q, S, n, s) /\ Sorted(end, n, s)
    BY <1>1
  <1>3. /\ \A b \in S : \E i \in 1..n : s[i] = b
        /\ \A i, j \in 1..n : s[i] = s[j] => i = j
        /\ \A i \in 1..n : s[i] \in S /\ s[i] # NULL
    <2>1. /\ \A b \in S : \E i \in 1..n : s[i] = b
          /\ \A i, j \in 1..n : s[i] = s[j] => i = j
      BY <1>2 DEF Chained, Order
    <2>2. \A i \in 1..n : s[i] \in S /\ s[i] # NULL
      BY AlarmAssumption
    <2> QED
      BY <2>1, <2>2
  <1>4. \A i \in 0..Size : Chain(q)[i] = IF i < n THEN s[i + 1] ELSE NULL
    BY <1>2, ChainMeets
  <1> DEFINE Kept(i) == {b \in S : b \in DVDAlarm \/ \A j \in 1..n : j <= i => s[j] # b}
             Sound(w, K) == /\ w \in Queue /\ w.dec \in Stopped..(MaxTime + DecMax)
                            /\ InOrder(w, K, end)
             Bad == {i \in 0..Size : ~Sound(walk[i], Kept(i))}
  <1>5. Sound(walk[0], Kept(0))
    <2>1. walk[0] = q
      BY SizeNat DEF IsWalk
    <2>2. Kept(0) = S
      OBVIOUS
    <2> QED
      BY <2>1, <2>2
  <1>6. ASSUME NEW m \in 1..Size, Sound(walk[m - 1], Kept(m - 1))
        PROVE  Sound(walk[m], Kept(m))
    <2>1. m \in 0..Size /\ m # 0 /\ m - 1 \in 0..Size /\ (m - 1) + 1 = m
      BY SizeNat
    <2>2. walk[m] = WalkStep(walk[m - 1], Chain(q), m)
      <3>1. \A i \in 0..Size : walk[i] = IF i = 0 THEN q
                                         ELSE WalkStep(walk[i - 1], Chain(q), i)
        BY DEF IsWalk
      <3> QED
        BY <2>1, <3>1
    <2>3. CASE m > n
      <3>1. Chain(q)[m - 1] = NULL
        BY <1>4, <2>1, <2>3, SizeNat
      <3>2. walk[m] = walk[m - 1]
        BY <2>2, <3>1 DEF WalkStep
      <3>3. Kept(m) = Kept(m - 1)
        <4>1. \A j \in 1..n : j <= m /\ j <= m - 1
          BY <2>3, SizeNat
        <4> QED
          BY <4>1
      <3> HIDE DEF Kept, Sound
      <3> QED
        BY <1>6, <3>2, <3>3
    <2>4. CASE m <= n
      <3>1. m \in 1..n /\ Chain(q)[m - 1] = s[m] /\ s[m] # NULL /\ s[m] \in S
        BY <1>3, <1>4, <2>1, <2>4, SizeNat
      <3>2. \A j \in 1..n : j <= m <=> j <= m - 1 \/ j = m
        BY <2>1, SizeNat
      <3>3. CASE s[m] \in DVDAlarm
        <4>1. walk[m] = walk[m - 1]
          BY <2>2, <3>1, <3>3 DEF WalkStep
        <4>2. Kept(m) = Kept(m - 1)
          BY <3>2, <3>3
        <4> HIDE DEF Kept, Sound
        <4> QED
          BY <1>6, <4>1, <4>2
      <3>4. CASE s[m] \notin DVDAlarm
        <4>1. walk[m] = Unlinked(walk[m - 1], s[m])
          BY <2>2, <3>1, <3>4 DEF WalkStep
        <4>2. s[m] \in Kept(m - 1)
          <5>1. \A j \in 1..n : j <= m - 1 => j # m
            BY <2>1, SizeNat
          <5> QED
            BY <1>3, <3>1, <5>1
        <4>3. Kept(m) = Kept(m - 1) \ {s[m]}
          BY <3>1, <3>2, <3>4
        <4>4. Kept(m - 1) \in SUBSET Alarm /\ now \in Nat
          BY AlarmAssumption
        <4> HIDE DEF Kept
        <4>5. walk[m - 1] \in Queue /\ InOrder(walk[m - 1], Kept(m - 1), end)
          BY <1>6
        <4> DEFINE r == Unlinked(walk[m - 1], s[m])
        <4>6. /\ r \in Queue
              /\ InOrder(r, Kept(m - 1) \ {s[m]}, end)
              /\ \/ r.dec = walk[m - 1].dec
                 \/ r.dec >= now /\ r.dec <= now + DecMax
          BY <4>2, <4>4, <4>5, UnlinkedInOrder
        <4> HIDE DEF r
        <4>7. r.dec \in Stopped..(MaxTime + DecMax)
          <5>1. CASE r.dec = walk[m - 1].dec
            BY <1>6, <5>1
          <5>2. CASE r.dec >= now /\ r.dec <= now + DecMax
            <6>1. r.dec \in Int
              BY <4>6 DEF Queue
            <6> QED
              BY <5>2, <6>1, AlarmAssumption DEF Stopped
          <5> QED
            BY <4>6, <5>1, <5>2
        <4> QED
          BY <4>1, <4>3, <4>6, <4>7 DEF r
      <3> QED
        BY <3>3, <3>4
    <2> QED
      BY <2>3, <2>4, SizeNat
  <1> HIDE DEF Sound, Kept
  <1>7. ASSUME Bad # {} PROVE FALSE
    <2>1. Bad \subseteq Nat
      BY SizeNat
    <2>2. PICK m \in Bad : \A j \in Bad : ~(j < m)
      <3> HIDE DEF Bad
      <3> QED
        BY <1>7, <2>1, Least
    <2>3. m \in 0..Size /\ ~Sound(walk[m], Kept(m)) /\ m # 0
      BY <1>5, <2>2
    <2>4. m \in 1..Size /\ m - 1 \in 0..Size /\ m - 1 < m
      BY <2>3, SizeNat
    <2>5. Sound(walk[m - 1], Kept(m - 1))
      BY <2>2, <2>4
    <2> QED
      BY <1>6, <2>3, <2>4, <2>5
  <1>8. Sound(walk[Size], Kept(Size))
    <2>1. Size \in 0..Size /\ Size \notin Bad
      BY <1>7, SizeNat
    <2> QED
      BY <2>1
  <1>9. Kept(Size) = S \cap DVDAlarm
    <2>1. \A j \in 1..n : j <= Size
      BY SizeNat
    <2> QED
      BY <1>3, <2>1 DEF Kept
  <1> QED
    BY <1>8, <1>9 DEF Sound

-----------------------------------------------------------------------------
(* The invariant *)

IInv == TypeOK /\ InOrder(queue, armed, end) /\ TimerArmed

LEMMA QueueTyped ==
  ASSUME NEW q
  PROVE  q \in [head : Link, tail : Link, next : [Alarm -> Link], prev : [Alarm -> Link],
                dec : Stopped..(MaxTime + DecMax)]
         <=> q \in Queue /\ q.dec \in Stopped..(MaxTime + DecMax)
  <1>1. Stopped..(MaxTime + DecMax) \subseteq Int
    BY AlarmAssumption DEF Stopped
  <1> QED
    BY <1>1 DEF Queue

\* The head of a queue in order is one of its alarms, or none.
LEMMA HeadOfOrder ==
  ASSUME NEW q, NEW S, NEW e, InOrder(q, S, e)
  PROVE  q.head = NULL \/ q.head \in S
  <1>1. PICK n \in 0..Size : \E s \in [1..n -> S] : Chained(q, S, n, s)
    BY DEF InOrder
  <1>2. PICK s \in [1..n -> S] : Chained(q, S, n, s)
    BY <1>1
  <1>3. n # 0 => s[1] \in S
    BY SizeNat
  <1> QED
    BY <1>2, <1>3 DEF Chained

\* A timer set now runs out within the typed range.
LEMMA TimerRange ==
  ASSUME NEW d \in Int, now \in 0..MaxTime, d >= now, d <= now + DecMax
  PROVE  d \in Stopped..(MaxTime + DecMax) /\ d # Stopped
  BY AlarmAssumption DEF Stopped

\* The first multiple of p past m.
LEMMA NextMultiple ==
  ASSUME NEW m \in Int, NEW p \in Nat \ {0}
  PROVE  p * (m \div p + 1) > m /\ p * (m \div p + 1) \in Int
  <1>1. p * (m \div p + 1) > m
    OBVIOUS
  <1>2. p * (m \div p + 1) \in Int
    OBVIOUS
  <1> QED
    BY <1>1, <1>2

\* A periodic alarm is queued for no earlier than now.
LEMMA PeriodicEndInt ==
  ASSUME NEW a, NEW s \in Int, NEW p \in Nat \ {0}, now \in Nat
  PROVE  PeriodicEnd(a, s, p) \in Int /\ PeriodicEnd(a, s, p) >= now
  <1>1. CASE s < now
    <2>1. PICK k \in Int : k = p * ((now - s) \div p + 1) /\ k > now - s
      BY NextMultiple
    <2>2. PeriodicEnd(a, s, p) = s + k
      BY <1>1, <2>1 DEF PeriodicEnd
    <2> QED
      BY <2>1, <2>2
  <1>2. CASE ~(s < now)
    BY <1>2 DEF PeriodicEnd
  <1> QED
    BY <1>1, <1>2

LEMMA Typed ==
  ASSUME TypeOK
  PROVE  /\ now \in 0..MaxTime /\ now \in Nat
         /\ queue \in Queue /\ queue.dec \in Stopped..(MaxTime + DecMax)
         /\ armed \in SUBSET Alarm
         /\ end \in [Alarm -> Int] /\ start \in [Alarm -> Int] /\ period \in [Alarm -> Nat]
         /\ pending \in BOOLEAN /\ handling \in Link /\ up \in BOOLEAN
  <1>1. now \in 0..MaxTime /\ now \in Nat
    BY AlarmAssumption DEF TypeOK
  <1> QED
    BY <1>1, QueueTyped DEF TypeOK

\* What the two ways to set an alarm share.
LEMMA InsertKeeps ==
  ASSUME IInv, NEW a \in Alarm, a \notin armed, NEW e \in Int,
         Insert(queue, a, e), armed' = armed \cup {a}, UNCHANGED <<now, pending, up>>
  PROVE  /\ queue' \in Queue /\ queue'.dec \in Stopped..(MaxTime + DecMax)
         /\ end' \in [Alarm -> Int] /\ armed' \in SUBSET Alarm
         /\ InOrder(queue', armed', end')
         /\ TimerArmed'
  <1>1. /\ now \in 0..MaxTime /\ now \in Nat /\ queue \in Queue
        /\ queue.dec \in Stopped..(MaxTime + DecMax)
        /\ armed \in SUBSET Alarm /\ end \in [Alarm -> Int]
        /\ InOrder(queue, armed, end) /\ TimerArmed
    BY Typed DEF IInv
  <1>2. queue' = Linked(queue, a, e) /\ end' = [end EXCEPT ![a] = e]
    BY DEF Insert
  <1>3. /\ end' \in [Alarm -> Int] /\ end'[a] = e
        /\ \A b \in armed : end'[b] = end[b]
    BY <1>1, <1>2
  <1>4. /\ queue' \in Queue
        /\ InOrder(queue', armed \cup {a}, end')
        /\ \/ /\ queue'.head = a
              /\ queue'.dec >= now /\ queue'.dec <= now + DecMax
              /\ queue'.dec <= e \/ queue'.dec <= now
           \/ queue'.head = queue.head /\ queue'.head \in armed /\ queue'.dec = queue.dec
    <2> DEFINE g == end'
               r == Linked(queue, a, e)
    <2>1. g \in [Alarm -> Int] /\ g[a] = e /\ \A b \in armed : g[b] = end[b]
      BY <1>3
    <2> HIDE DEF g
    <2>2. Joined(r, queue, armed, a, g)
      BY <1>1, <2>1, LinkedInOrder
    <2>3. r = queue'
      BY <1>2
    <2> HIDE DEF r
    <2> QED
      BY <1>3, <2>2, <2>3 DEF g, Joined
  <1>5. queue'.dec \in Int
    BY <1>4 DEF Queue
  <1>6. CASE /\ queue'.head = a
             /\ queue'.dec >= now /\ queue'.dec <= now + DecMax
             /\ queue'.dec <= e \/ queue'.dec <= now
    <2>1. queue'.dec \in Stopped..(MaxTime + DecMax) /\ queue'.dec # Stopped
      BY <1>1, <1>5, <1>6, TimerRange
    <2>2. queue'.dec <= end'[queue'.head] \/ queue'.dec <= now
      BY <1>3, <1>6
    <2>3. TimerArmed'
      BY <2>1, <2>2 DEF TimerArmed
    <2> QED
      BY <1>1, <1>3, <1>4, <2>1, <2>3
  <1>7. CASE queue'.head = queue.head /\ queue'.head \in armed /\ queue'.dec = queue.dec
    <2>1. end'[queue'.head] = end[queue.head]
      BY <1>3, <1>7
    <2>2. queue.head # NULL
      BY <1>1, <1>7, AlarmAssumption
    <2>3. TimerArmed'
      BY <1>1, <1>7, <2>1, <2>2 DEF TimerArmed
    <2> QED
      BY <1>1, <1>3, <1>4, <1>7, <2>3
  <1> QED
    BY <1>4, <1>6, <1>7

LEMMA SetKeeps ==
  ASSUME IInv, NEW a \in Alarm, NEW tick \in Tick, OSSetAlarm(a, tick)
  PROVE  IInv'
  <1>1. now + tick \in Int
    BY Typed, AlarmAssumption DEF IInv
  <1>2. /\ a \notin armed /\ Insert(queue, a, now + tick) /\ armed' = armed \cup {a}
        /\ UNCHANGED <<now, pending, up>>
    BY DEF OSSetAlarm
  <1>3. /\ queue' \in Queue /\ queue'.dec \in Stopped..(MaxTime + DecMax)
        /\ end' \in [Alarm -> Int] /\ armed' \in SUBSET Alarm
        /\ InOrder(queue', armed', end') /\ TimerArmed'
    BY <1>1, <1>2, InsertKeeps
  <1>4. /\ period' \in [Alarm -> Nat] /\ UNCHANGED <<start, handling>>
    BY Typed DEF OSSetAlarm, IInv
  <1>5. TypeOK'
    BY <1>2, <1>3, <1>4, QueueTyped DEF TypeOK, IInv
  <1> QED
    BY <1>3, <1>5 DEF IInv

LEMMA SetPeriodicKeeps ==
  ASSUME IInv, NEW a \in Alarm, NEW s \in 0..MaxTime, NEW p \in Period,
         OSSetPeriodicAlarm(a, s, p)
  PROVE  IInv'
  <1>1. PeriodicEnd(a, s, p) \in Int /\ s \in Int /\ p \in Nat
    <2>1. p \in Nat \ {0} /\ s \in Int /\ now \in Nat
      BY Typed, AlarmAssumption DEF IInv
    <2> QED
      BY <2>1, PeriodicEndInt
  <1>2. /\ a \notin armed /\ Insert(queue, a, PeriodicEnd(a, s, p)) /\ armed' = armed \cup {a}
        /\ UNCHANGED <<now, pending, up>>
    BY DEF OSSetPeriodicAlarm
  <1>3. /\ queue' \in Queue /\ queue'.dec \in Stopped..(MaxTime + DecMax)
        /\ end' \in [Alarm -> Int] /\ armed' \in SUBSET Alarm
        /\ InOrder(queue', armed', end') /\ TimerArmed'
    BY <1>1, <1>2, InsertKeeps
  <1>4. /\ period' \in [Alarm -> Nat] /\ start' \in [Alarm -> Int] /\ UNCHANGED handling
    BY <1>1, Typed DEF OSSetPeriodicAlarm, IInv
  <1>5. TypeOK'
    BY <1>2, <1>3, <1>4, QueueTyped DEF TypeOK, IInv
  <1> QED
    BY <1>3, <1>5 DEF IInv

LEMMA CancelKeeps ==
  ASSUME IInv, NEW a \in Alarm, OSCancelAlarm(a)
  PROVE  IInv'
  <1>1. /\ now \in 0..MaxTime /\ now \in Nat /\ queue \in Queue
        /\ queue.dec \in Stopped..(MaxTime + DecMax)
        /\ armed \in SUBSET Alarm /\ end \in [Alarm -> Int]
        /\ InOrder(queue, armed, end) /\ TimerArmed
    BY Typed DEF IInv
  <1>2. /\ a \in armed /\ queue' = Unlinked(queue, a) /\ armed' = armed \ {a}
        /\ UNCHANGED <<now, end, start, period, pending, handling, up>>
    BY DEF OSCancelAlarm
  <1> DEFINE r == Unlinked(queue, a)
  <1>3. /\ r \in Queue
        /\ InOrder(r, armed \ {a}, end)
        /\ \/ r.head = NULL /\ r.dec = queue.dec
           \/ r.head = queue.head /\ r.dec = queue.dec
           \/ /\ r.dec >= now /\ r.dec <= now + DecMax
              /\ r.dec <= end[r.head] \/ r.dec <= now
    BY <1>1, <1>2, UnlinkedInOrder
  <1>4. queue' = r
    BY <1>2
  <1> HIDE DEF r
  <1>5. r.dec \in Stopped..(MaxTime + DecMax) /\ TimerArmed'
    <2>1. CASE r.head = NULL /\ r.dec = queue.dec
      BY <1>1, <1>4, <2>1 DEF TimerArmed
    <2>2. CASE r.head = queue.head /\ r.dec = queue.dec
      BY <1>1, <1>2, <1>4, <2>2 DEF TimerArmed
    <2>3. CASE /\ r.dec >= now /\ r.dec <= now + DecMax
               /\ r.dec <= end[r.head] \/ r.dec <= now
      <3>1. r.dec \in Int
        BY <1>3 DEF Queue
      <3>2. r.dec \in Stopped..(MaxTime + DecMax) /\ r.dec # Stopped
        BY <1>1, <2>3, <3>1, TimerRange
      <3> QED
        BY <1>2, <1>4, <2>3, <3>2 DEF TimerArmed
    <2> QED
      BY <1>3, <2>1, <2>2, <2>3
  <1>6. TypeOK'
    BY <1>1, <1>2, <1>3, <1>4, <1>5, QueueTyped DEF TypeOK, IInv
  <1> QED
    BY <1>2, <1>3, <1>4, <1>5, <1>6 DEF IInv

LEMMA OnResetKeeps ==
  ASSUME IInv, OnReset
  PROVE  IInv'
  <1>1. /\ now \in 0..MaxTime /\ queue \in Queue
        /\ queue.dec \in Stopped..(MaxTime + DecMax)
        /\ armed \in SUBSET Alarm /\ end \in [Alarm -> Int]
        /\ InOrder(queue, armed, end)
    BY Typed DEF IInv
  <1>2. /\ up' = FALSE /\ armed' = armed \cap DVDAlarm
        /\ UNCHANGED <<now, end, start, period, pending, handling>>
    BY DEF OnReset
  <1> DEFINE walk == CHOOSE f : IsWalk(f, queue, Chain(queue), Size)
  <1>3. queue' = walk[Size]
    BY DEF OnReset, IsWalk, WalkStep, Size
  <1>4. IsWalk(walk, queue, Chain(queue), Size)
    <2>1. \E f : IsWalk(f, queue, Chain(queue), Size)
      BY SizeNat, WalkDefined
    <2> QED
      BY <2>1
  <1> HIDE DEF walk
  <1>5. /\ walk[Size] \in Queue
        /\ walk[Size].dec \in Stopped..(MaxTime + DecMax)
        /\ InOrder(walk[Size], armed \cap DVDAlarm, end)
    BY <1>1, <1>4, WalkInOrder
  <1>6. TypeOK'
    <2>1. queue' \in Queue /\ queue'.dec \in Stopped..(MaxTime + DecMax)
      BY <1>3, <1>5
    <2> QED
      BY <1>1, <1>2, <2>1, QueueTyped DEF TypeOK, IInv
  <1>7. TimerArmed'
    BY <1>2 DEF TimerArmed
  <1> QED
    BY <1>2, <1>3, <1>5, <1>6, <1>7 DEF IInv

LEMMA ClockKeeps ==
  ASSUME IInv, Clock
  PROVE  IInv'
  <1>1. /\ now \in 0..MaxTime /\ now \in Nat /\ queue \in Queue
        /\ queue.dec \in Stopped..(MaxTime + DecMax)
        /\ InOrder(queue, armed, end) /\ TimerArmed /\ end \in [Alarm -> Int]
        /\ armed \in SUBSET Alarm
    BY Typed DEF IInv
  <1>2. /\ now' \in 0..MaxTime /\ now' >= now
        /\ UNCHANGED <<armed, end, start, period, handling, up>>
    BY <1>1, AlarmAssumption DEF Clock, alarmVars
  <1>3. CASE RunsOut
    <2>1. pending' = TRUE /\ queue' = [queue EXCEPT !.dec = Stopped]
      BY <1>3 DEF Clock
    <2>2. /\ queue' \in Queue /\ queue'.dec = Stopped
          /\ queue'.head = queue.head /\ queue'.tail = queue.tail
          /\ queue'.next = queue.next /\ queue'.prev = queue.prev
      BY <1>1, <2>1 DEF Queue, Stopped
    <2>3. queue'.dec \in Stopped..(MaxTime + DecMax)
      BY <2>2, AlarmAssumption DEF Stopped
    <2>4. TypeOK'
      BY <1>2, <2>1, <2>2, <2>3, QueueTyped DEF TypeOK, IInv
    <2>5. InOrder(queue', armed, end)
      <3>1. PICK n \in 0..Size : \E s \in [1..n -> armed] :
                   Chained(queue, armed, n, s) /\ Sorted(end, n, s)
        BY <1>1 DEF InOrder
      <3>2. PICK s \in [1..n -> armed] : Chained(queue, armed, n, s) /\ Sorted(end, n, s)
        BY <3>1
      <3>3. Chained(queue', armed, n, s)
        BY <2>2, <3>2, SameLinks
      <3> QED
        BY <3>2, <3>3 DEF InOrder
    <2>6. TimerArmed'
      BY <2>1 DEF TimerArmed
    <2> QED
      BY <1>2, <2>4, <2>5, <2>6 DEF IInv
  <1>4. CASE ~RunsOut
    <2>1. UNCHANGED <<pending, queue>>
      BY <1>4 DEF Clock
    <2>2. TypeOK'
      BY <1>2, <2>1 DEF TypeOK, IInv
    <2>3. TimerArmed'
      <3>1. ASSUME up' = TRUE, queue'.head # NULL, queue.dec <= now
            PROVE  queue.dec <= now'
        BY <1>1, <1>2, <3>1 DEF Stopped
      <3> QED
        BY <1>1, <1>2, <2>1, <3>1 DEF TimerArmed
    <2> QED
      BY <1>1, <1>2, <2>1, <2>2, <2>3 DEF IInv
  <1> QED
    BY <1>3, <1>4

\* SetTimer alone keeps the order.
LEMMA TimerKeepsOrder ==
  ASSUME NEW q \in Queue, NEW S, NEW e, NEW d \in Int, now \in 0..MaxTime, InOrder(q, S, e)
  PROVE  LET r == SetTimer(q, d) IN
         /\ r \in Queue
         /\ r.head = q.head
         /\ r.dec \in Stopped..(MaxTime + DecMax) /\ r.dec # Stopped
         /\ r.dec <= d \/ r.dec <= now
         /\ InOrder(r, S, e)
  <1> DEFINE r == SetTimer(q, d)
  <1>1. now \in Nat
    BY AlarmAssumption
  <1>2. /\ r \in Queue
        /\ r.head = q.head /\ r.tail = q.tail /\ r.next = q.next /\ r.prev = q.prev
        /\ r.dec >= now /\ r.dec <= now + DecMax
        /\ r.dec <= d \/ r.dec <= now
    BY <1>1, TimerSet
  <1> HIDE DEF r
  <1>3. r.dec \in Int
    BY <1>2 DEF Queue
  <1>4. r.dec \in Stopped..(MaxTime + DecMax) /\ r.dec # Stopped
    BY <1>2, <1>3, TimerRange
  <1>5. InOrder(r, S, e)
    <2>1. PICK n \in 0..Size : \E s \in [1..n -> S] : Chained(q, S, n, s) /\ Sorted(e, n, s)
      BY DEF InOrder
    <2>2. PICK s \in [1..n -> S] : Chained(q, S, n, s) /\ Sorted(e, n, s)
      BY <2>1
    <2>3. Chained(r, S, n, s)
      BY <1>2, <2>2, SameLinks
    <2> QED
      BY <2>2, <2>3 DEF InOrder
  <1> QED
    BY <1>2, <1>4, <1>5 DEF r

LEMMA NothingDueKeeps ==
  ASSUME IInv, NothingDue
  PROVE  IInv'
  <1>1. /\ now \in 0..MaxTime /\ queue \in Queue
        /\ queue.dec \in Stopped..(MaxTime + DecMax)
        /\ InOrder(queue, armed, end) /\ end \in [Alarm -> Int]
        /\ armed \in SUBSET Alarm
    BY Typed DEF IInv
  <1>2. pending' = FALSE /\ UNCHANGED <<now, armed, end, start, period, handling, up>>
    BY DEF NothingDue, ExceptionTaken, alarmVars
  <1>3. CASE queue.head = NULL
    <2>1. queue' = queue
      BY <1>3 DEF NothingDue
    <2>2. TypeOK' /\ TimerArmed'
      BY <1>2, <1>3, <2>1 DEF TypeOK, TimerArmed, IInv
    <2> QED
      BY <1>1, <1>2, <2>1, <2>2 DEF IInv
  <1>4. CASE queue.head # NULL
    <2>1. queue' = SetTimer(queue, end[queue.head])
      BY <1>4 DEF NothingDue
    <2>2. end[queue.head] \in Int
      BY <1>1, <1>4, HeadOfOrder
    <2>3. /\ queue' \in Queue /\ queue'.head = queue.head
          /\ queue'.dec \in Stopped..(MaxTime + DecMax) /\ queue'.dec # Stopped
          /\ queue'.dec <= end[queue.head] \/ queue'.dec <= now
          /\ InOrder(queue', armed, end)
      BY <1>1, <2>1, <2>2, TimerKeepsOrder
    <2>4. TypeOK'
      BY <1>2, <2>3, QueueTyped DEF TypeOK, IInv
    <2>5. TimerArmed'
      BY <1>2, <2>3 DEF TimerArmed
    <2> QED
      BY <1>2, <2>3, <2>4, <2>5 DEF IInv
  <1> QED
    BY <1>3, <1>4

\* What the exception leaves when it sets the timer for the head, last.
LEMMA HeadTimed ==
  ASSUME NEW q \in Queue, NEW S \in SUBSET Alarm, NEW e \in [Alarm -> Int],
         now \in 0..MaxTime, q.dec \in Stopped..(MaxTime + DecMax), InOrder(q, S, e)
  PROVE  LET r == SetTimerForHead(q, e) IN
         /\ r \in Queue
         /\ r.dec \in Stopped..(MaxTime + DecMax)
         /\ InOrder(r, S, e)
         /\ r.head # NULL => r.dec # Stopped /\ (r.dec <= e[r.head] \/ r.dec <= now)
  <1>1. CASE q.head = NULL
    BY <1>1 DEF SetTimerForHead
  <1>2. CASE q.head # NULL
    <2>1. e[q.head] \in Int
      BY <1>2, HeadOfOrder
    <2> DEFINE r == SetTimer(q, e[q.head])
    <2>2. /\ r \in Queue /\ r.head = q.head
          /\ r.dec \in Stopped..(MaxTime + DecMax) /\ r.dec # Stopped
          /\ r.dec <= e[q.head] \/ r.dec <= now
          /\ InOrder(r, S, e)
      BY <2>1, TimerKeepsOrder
    <2>3. SetTimerForHead(q, e) = r
      BY <1>2 DEF SetTimerForHead
    <2> HIDE DEF r
    <2> QED
      BY <2>2, <2>3
  <1> QED
    BY <1>1, <1>2

LEMMA RingKeeps ==
  ASSUME IInv, Ring
  PROVE  IInv'
  <1> DEFINE a == queue.head
             e == PeriodicEnd(a, start[a], period[a])
             r == Popped(queue)
  <1>1. /\ now \in 0..MaxTime /\ now \in Nat /\ queue \in Queue
        /\ queue.dec \in Stopped..(MaxTime + DecMax)
        /\ InOrder(queue, armed, end) /\ end \in [Alarm -> Int]
        /\ armed \in SUBSET Alarm
        /\ start \in [Alarm -> Int] /\ period \in [Alarm -> Nat]
    BY Typed DEF IInv
  <1>2. /\ pending' = FALSE /\ a # NULL /\ handling' = a
        /\ UNCHANGED <<now, start, period, up>>
    BY DEF Ring, ExceptionTaken
  <1>3. /\ a \in armed /\ r \in Queue /\ r.dec = queue.dec
        /\ InOrder(r, armed \ {a}, end)
    BY <1>1, <1>2, PoppedInOrder
  <1>4. a \in Alarm /\ armed \ {a} \in SUBSET Alarm
    BY <1>1, <1>3
  <1> HIDE DEF r
  <1>5. CASE period[a] > 0
    <2>1. /\ end' = [end EXCEPT ![a] = e]
          /\ queue' = SetTimerForHead(Linked(r, a, e), end')
          /\ armed' = armed
      BY <1>5 DEF Ring, r
    <2>2. e \in Int
      <3>1. period[a] \in Nat \ {0} /\ start[a] \in Int
        BY <1>1, <1>4, <1>5
      <3> QED
        BY <1>1, <3>1, PeriodicEndInt
    <2> HIDE DEF e, a
    <2> DEFINE g == end'
               u == Linked(r, a, e)
    <2>3. g \in [Alarm -> Int] /\ g[a] = e /\ \A b \in armed \ {a} : g[b] = end[b]
      BY <1>1, <1>4, <2>1, <2>2
    <2>4. queue' = SetTimerForHead(u, g)
      BY <2>1
    <2> HIDE DEF g
    <2>5. Joined(u, r, armed \ {a}, a, g)
      BY <1>1, <1>3, <1>4, <2>2, <2>3, LinkedInOrder
    <2> HIDE DEF u
    <2>6. u \in Queue /\ InOrder(u, armed, g) /\ u.dec \in Stopped..(MaxTime + DecMax)
      <3>1. u \in Queue /\ InOrder(u, (armed \ {a}) \cup {a}, g)
        BY <2>5 DEF Joined
      <3>2. (armed \ {a}) \cup {a} = armed
        BY <1>3
      <3>3. u.dec \in Stopped..(MaxTime + DecMax)
        <4>1. u.dec \in Int
          BY <3>1 DEF Queue
        <4>2. CASE u.dec >= now /\ u.dec <= now + DecMax
          BY <1>1, <4>1, <4>2, TimerRange
        <4>3. CASE u.dec = r.dec
          BY <1>1, <1>3, <4>3
        <4> QED
          BY <2>5, <4>2, <4>3 DEF Joined
      <3> QED
        BY <3>1, <3>2, <3>3
    <2>7. /\ queue' \in Queue
          /\ queue'.dec \in Stopped..(MaxTime + DecMax)
          /\ InOrder(queue', armed, g)
          /\ queue'.head # NULL =>
               queue'.dec # Stopped /\ (queue'.dec <= g[queue'.head] \/ queue'.dec <= now)
      BY <1>1, <2>3, <2>4, <2>6, HeadTimed
    <2>8. TypeOK'
      BY <1>2, <1>4, <2>1, <2>3, <2>7, QueueTyped DEF TypeOK, IInv, Link, a, g
    <2>9. TimerArmed'
      BY <1>2, <2>7 DEF TimerArmed, g
    <2> QED
      BY <2>1, <2>7, <2>8, <2>9 DEF IInv, g
  <1>6. CASE ~(period[a] > 0)
    <2>1. /\ end' = end
          /\ queue' = SetTimerForHead(r, end)
          /\ armed' = armed \ {a}
      BY <1>6 DEF Ring, r
    <2> HIDE DEF a
    <2>2. /\ queue' \in Queue
          /\ queue'.dec \in Stopped..(MaxTime + DecMax)
          /\ InOrder(queue', armed \ {a}, end)
          /\ queue'.head # NULL =>
               queue'.dec # Stopped /\ (queue'.dec <= end[queue'.head] \/ queue'.dec <= now)
      BY <1>1, <1>3, <1>4, <2>1, HeadTimed
    <2>3. TypeOK'
      BY <1>2, <1>4, <2>1, <2>2, QueueTyped DEF TypeOK, IInv, Link, a
    <2>4. TimerArmed'
      BY <1>2, <2>1, <2>2 DEF TimerArmed
    <2> QED
      BY <2>1, <2>2, <2>3, <2>4 DEF IInv
  <1> QED
    BY <1>5, <1>6

LEMMA HandlerReturnsKeeps ==
  ASSUME IInv, HandlerReturns
  PROVE  IInv'
  <1>1. handling' = NULL /\ UNCHANGED <<now, queue, armed, end, start, period, pending, up>>
    BY DEF HandlerReturns, alarmVars
  <1>2. TypeOK' /\ TimerArmed' /\ InOrder(queue', armed', end')
    BY <1>1 DEF TypeOK, TimerArmed, IInv, Link
  <1> QED
    BY <1>2 DEF IInv

LEMMA InitInvariant == Init => IInv
  <1> SUFFICES ASSUME Init PROVE IInv
    OBVIOUS
  <1>1. /\ now = 0 /\ armed = {} /\ end = [a \in Alarm |-> 0]
        /\ queue.head = NULL /\ queue.tail = NULL
        /\ up = TRUE
    BY DEF Init
  <1>2. TypeOK
    BY AlarmAssumption DEF Init, TypeOK, Link, Stopped
  <1>3. TimerArmed
    BY <1>1 DEF TimerArmed
  <1>4. InOrder(queue, armed, end)
    <2> DEFINE s == [i \in 1..0 |-> 0]
    <2>1. 0 \in 0..Size /\ s \in [1..0 -> armed]
      BY SizeNat
    <2>2. Order(armed, 0, s)
      BY <1>1, <2>1 DEF Order
    <2>3. Chained(queue, armed, 0, s) /\ Sorted(end, 0, s)
      BY <1>1, <2>2 DEF Chained, Sorted
    <2> HIDE DEF s
    <2> QED
      BY <2>1, <2>3 DEF InOrder
  <1> QED
    BY <1>2, <1>3, <1>4 DEF IInv

LEMMA NextInvariant == IInv /\ [Next]_vars => IInv'
  <1> SUFFICES ASSUME IInv, [Next]_vars PROVE IInv'
    OBVIOUS
  <1>1. ASSUME NEW a \in Alarm, Call(a) PROVE IInv'
    <2>1. ASSUME NEW tick \in Tick, OSSetAlarm(a, tick) PROVE IInv'
      BY <2>1, SetKeeps
    <2>2. ASSUME NEW s \in 0..MaxTime, NEW p \in Period, OSSetPeriodicAlarm(a, s, p)
          PROVE  IInv'
      BY <2>2, SetPeriodicKeeps
    <2>3. CASE OSCancelAlarm(a)
      BY <2>3, CancelKeeps
    <2> QED
      BY <1>1, <2>1, <2>2, <2>3 DEF Call
  <1>2. CASE UNCHANGED vars
    BY <1>2 DEF IInv, TypeOK, TimerArmed, vars, alarmVars
  <1> QED
    BY <1>1, <1>2, OnResetKeeps, ClockKeeps, NothingDueKeeps, RingKeeps, HandlerReturnsKeeps
       DEF Next, Exception

\* The queue, the alarms and the decrementer keep their types through any calls.
THEOREM TypeCorrect == Spec => []TypeOK
  <1>1. Spec => []IInv
    BY InitInvariant, NextInvariant, PTL DEF Spec
  <1>2. IInv => TypeOK
    BY DEF IInv
  <1> QED
    BY <1>1, <1>2, PTL

\* Through insertions, cancellations, pops and the walk of the shutdown,
\* wherever in the queue they fall, the links of OSAlarm.c stay a sorted list
\* of exactly the set alarms.
THEOREM QueueStaysIntact == Spec => []QueueIntact
  <1>1. Spec => []IInv
    BY InitInvariant, NextInvariant, PTL DEF Spec
  <1>2. IInv => QueueIntact
    <2> SUFFICES ASSUME IInv PROVE QueueIntact
      OBVIOUS
    <2>1. queue \in Queue /\ armed \in SUBSET Alarm /\ InOrder(queue, armed, end)
      BY Typed DEF IInv
    <2>2. PICK n \in 0..Size : \E s \in [1..n -> armed] :
                 Chained(queue, armed, n, s) /\ Sorted(end, n, s)
      BY <2>1 DEF InOrder
    <2>3. PICK s \in [1..n -> armed] : Chained(queue, armed, n, s) /\ Sorted(end, n, s)
      BY <2>2
    <2>4. /\ \A b \in armed : \E i \in 1..n : s[i] = b
          /\ \A i, j \in 1..n : s[i] = s[j] => i = j
          /\ \A i \in 1..n : s[i] \in armed /\ s[i] # NULL
          /\ n \in Nat
      BY <2>1, <2>3, AlarmAssumption, SizeNat DEF Chained, Order
    <2>5. /\ queue.head = IF n = 0 THEN NULL ELSE s[1]
          /\ queue.tail = IF n = 0 THEN NULL ELSE s[n]
          /\ \A i \in 1..n : queue.next[s[i]] = IF i = n THEN NULL ELSE s[i + 1]
          /\ \A i \in 1..n : queue.prev[s[i]] = IF i = 1 THEN NULL ELSE s[i - 1]
      BY <2>3 DEF Chained
    <2>6. Listed = armed
      <3>1. /\ DOMAIN Chain(queue) = 0..Size
            /\ \A i \in 0..Size : Chain(queue)[i] = IF i < n THEN s[i + 1] ELSE NULL
        BY <2>1, <2>3, ChainMeets
      <3>2. ASSUME NEW b \in armed PROVE \E i \in 0..Size : Chain(queue)[i] = b
        <4>1. PICK i \in 1..n : s[i] = b
          BY <2>4
        <4>2. i - 1 \in 0..Size /\ i - 1 < n /\ (i - 1) + 1 = i
          BY SizeNat
        <4> QED
          BY <3>1, <4>1, <4>2
      <3>3. ASSUME NEW i \in 0..Size PROVE Chain(queue)[i] \in armed \cup {NULL}
        <4>1. i < n => i + 1 \in 1..n
          BY SizeNat
        <4> QED
          BY <2>4, <3>1, <4>1
      <3>4. NULL \notin armed
        BY <2>1, AlarmAssumption
      <3> QED
        BY <3>1, <3>2, <3>3, <3>4 DEF Listed
    <2>7. queue.head = NULL <=> queue.tail = NULL
      BY <2>4, <2>5
    <2>8. ASSUME NEW a \in armed
          PROVE  /\ queue.prev[a] = NULL <=> queue.head = a
                 /\ queue.next[a] = NULL <=> queue.tail = a
                 /\ queue.next[a] # NULL =>
                      queue.prev[queue.next[a]] = a /\ end[a] <= end[queue.next[a]]
      <3>1. PICK i \in 1..n : s[i] = a
        BY <2>4
      <3>2. n # 0 /\ 1 \in 1..n /\ n \in 1..n
        BY <2>4
      <3>3. queue.prev[a] = NULL <=> i = 1
        <4>1. i # 1 => i - 1 \in 1..n
          BY <2>4
        <4> QED
          BY <2>4, <2>5, <3>1, <4>1
      <3>4. queue.next[a] = NULL <=> i = n
        <4>1. i # n => i + 1 \in 1..n
          BY <2>4
        <4> QED
          BY <2>4, <2>5, <3>1, <4>1
      <3>5. (queue.head = a <=> i = 1) /\ (queue.tail = a <=> i = n)
        BY <2>4, <2>5, <3>1, <3>2
      <3>6. i # n => queue.prev[queue.next[a]] = a /\ end[a] <= end[queue.next[a]]
        <4>1. i # n => i + 1 \in 1..n /\ i + 1 # 1 /\ (i + 1) - 1 = i /\ i <= i + 1
          BY <2>4
        <4>2. i # n => queue.next[a] = s[i + 1] /\ queue.prev[s[i + 1]] = s[i]
          BY <2>5, <3>1, <4>1
        <4>3. i # n => end[s[i]] <= end[s[i + 1]]
          BY <2>3, <4>1 DEF Sorted
        <4> QED
          BY <3>1, <4>2, <4>3
      <3> QED
        BY <3>3, <3>4, <3>5, <3>6
    <2> QED
      BY <2>6, <2>7, <2>8 DEF QueueIntact
  <1> QED
    BY <1>1, <1>2, PTL

\* No alarm is overslept: the decrementer runs out by the first end, or as soon
\* as it can, or an exception waits that will set it.
THEOREM NoneOverslept == Spec => []TimerArmed
  <1>1. Spec => []IInv
    BY InitInvariant, NextInvariant, PTL DEF Spec
  <1>2. IInv => TimerArmed
    BY DEF IInv
  <1> QED
    BY <1>1, <1>2, PTL

-----------------------------------------------------------------------------
(* The alarm clock *)

\* The alarms that are set, with their ends, and the alarm that rings.
Due == [a \in armed |-> end[a]]
Ringing == IF handling = NULL THEN {} ELSE {handling}

\* Setting an alarm that is not set adds it to those of the clock.
LEMMA InsertSets ==
  ASSUME IInv, NEW a \in Alarm, a \notin armed, NEW e \in Int,
         end' = [end EXCEPT ![a] = e], armed' = armed \cup {a}, UNCHANGED <<now, handling>>
  PROVE  Service!Set(a)
  <1>1. armed \in SUBSET Alarm /\ end \in [Alarm -> Int]
    BY Typed DEF IInv
  <1>2. /\ DOMAIN Due = armed /\ DOMAIN Due' = armed \cup {a}
        /\ \A b \in armed : Due'[b] = Due[b]
        /\ Due'[a] = e
    BY <1>1 DEF Due
  <1>3. Ringing' = Ringing
    BY DEF Ringing
  <1> QED
    BY <1>2, <1>3 DEF Service!Set, Service!IsSet, Service!Same, Due, Ringing

\* Alarms that leave the queue, their ends untouched, are cancelled.
LEMMA LeavingCancels ==
  ASSUME NEW S, armed' = armed \ S, UNCHANGED <<now, end, handling>>
  PROVE  Service!Cancel(S)
  <1>1. Due' = [b \in DOMAIN Due \ S |-> Due[b]]
    BY DEF Due
  <1>2. Ringing' = Ringing
    BY DEF Ringing
  <1> QED
    BY <1>1, <1>2 DEF Service!Cancel, Service!Without, Due, Ringing

\* The exception fires the earliest alarm, when it is due, and not while a
\* handler runs; a periodic one is set again, for no earlier than now.
LEMMA RingFires ==
  ASSUME IInv, Ring, NEW a, a = queue.head
  PROVE  Service!Fire(a)
  <1> DEFINE e == PeriodicEnd(a, start[a], period[a])
  <1>1. /\ now \in Nat /\ queue \in Queue
        /\ InOrder(queue, armed, end) /\ end \in [Alarm -> Int]
        /\ armed \in SUBSET Alarm
        /\ start \in [Alarm -> Int] /\ period \in [Alarm -> Nat]
    BY Typed DEF IInv
  <1>2. /\ handling = NULL /\ handling' = a /\ a # NULL /\ end[a] <= now /\ now' = now
    BY DEF Ring, ExceptionTaken
  <1>3. a \in armed /\ \A b \in armed : end[a] <= end[b]
    BY <1>1, <1>2, PoppedInOrder
  <1>4. Ringing = {} /\ Ringing' = {a}
    BY <1>2 DEF Ringing
  <1>5. DOMAIN Due = armed /\ \A b \in armed : Due[b] = end[b]
    BY DEF Due
  <1>6. \/ Due' = [b \in armed \ {a} |-> Due[b]]
        \/ DOMAIN Due' = armed /\ (\A b \in armed \ {a} : Due'[b] = Due[b]) /\ Due'[a] >= now
    <2>1. CASE period[a] > 0
      <3>1. end' = [end EXCEPT ![a] = e] /\ armed' = armed
        BY <2>1 DEF Ring
      <3>2. e >= now
        <4>1. period[a] \in Nat \ {0} /\ start[a] \in Int
          BY <1>1, <1>3, <2>1
        <4> QED
          BY <1>1, <4>1, PeriodicEndInt
      <3> HIDE DEF e
      <3>3. end'[a] = e /\ \A b \in armed \ {a} : end'[b] = end[b]
        BY <1>1, <1>3, <3>1
      <3>4. DOMAIN Due' = armed /\ \A b \in armed : Due'[b] = end'[b]
        BY <3>1 DEF Due
      <3> QED
        BY <1>3, <1>5, <3>2, <3>3, <3>4
    <2>2. CASE ~(period[a] > 0)
      <3>1. end' = end /\ armed' = armed \ {a}
        BY <2>2 DEF Ring
      <3> QED
        BY <3>1 DEF Due
    <2> QED
      BY <2>1, <2>2
  <1> QED
    BY <1>2, <1>3, <1>4, <1>5, <1>6
       DEF Service!Fire, Service!IsSet, Service!Same, Service!Without, Due, Ringing

\* Every step of the alarms is a step of the clock, or leaves it as it is.
LEMMA StepOfClock ==
  ASSUME IInv, [Next]_vars
  PROVE  [Service!Next]_(Service!vars)
  <1>0. TypeOK /\ armed \in SUBSET Alarm /\ NULL \notin Alarm
    BY Typed, AlarmAssumption DEF IInv
  <1>1. ASSUME NEW a \in Alarm, Call(a) PROVE Service!Next
    <2>1. ASSUME NEW tick \in Tick, OSSetAlarm(a, tick) PROVE Service!Set(a)
      <3>1. now + tick \in Int
        BY <1>0, Typed, AlarmAssumption
      <3> QED
        BY <2>1, <3>1, InsertSets DEF OSSetAlarm, Insert
    <2>2. ASSUME NEW s \in 0..MaxTime, NEW p \in Period, OSSetPeriodicAlarm(a, s, p)
          PROVE  Service!Set(a)
      <3>1. PeriodicEnd(a, s, p) \in Int
        <4>1. p \in Nat \ {0} /\ s \in Int /\ now \in Nat
          BY <1>0, Typed, AlarmAssumption
        <4> QED
          BY <4>1, PeriodicEndInt
      <3> QED
        BY <2>2, <3>1, InsertSets DEF OSSetPeriodicAlarm, Insert
    <2>3. CASE OSCancelAlarm(a)
      <3>1. {a} \in SUBSET Alarm /\ Service!Cancel({a})
        BY <2>3, LeavingCancels DEF OSCancelAlarm
      <3> QED
        BY <3>1, Zenon DEF Service!Next
    <2> QED
      BY <1>1, <2>1, <2>2, <2>3, Zenon DEF Call, Service!Next
  <1>2. CASE OnReset
    <2> DEFINE S == Alarm \ DVDAlarm
    <2>1. armed' = armed \ S
      BY <1>0, <1>2 DEF OnReset
    <2>2. S \in SUBSET Alarm /\ Service!Cancel(S)
      BY <1>2, <2>1, LeavingCancels DEF OnReset
    <2> HIDE DEF S
    <2> QED
      BY <2>2, Zenon DEF Service!Next
  <1>3. CASE Clock
    <2>1. /\ UNCHANGED <<armed, end, handling>>
          /\ now' = now \/ now' > now
      BY <1>0, <1>3, Typed DEF Clock, alarmVars
    <2>2. Due' = Due /\ Ringing' = Ringing
      BY <2>1 DEF Due, Ringing
    <2> QED
      BY <2>1, <2>2 DEF Service!Next, Service!Pass, Service!vars, Due, Ringing
  <1>4. CASE NothingDue
    <2>1. UNCHANGED <<now, armed, end, handling>>
      BY <1>4 DEF NothingDue, alarmVars
    <2>2. Due' = Due /\ Ringing' = Ringing
      BY <2>1 DEF Due, Ringing
    <2> QED
      BY <2>1, <2>2 DEF Service!vars, Due, Ringing
  <1>5. CASE Ring
    <2>1. queue.head # NULL /\ InOrder(queue, armed, end)
      BY <1>5 DEF Ring, IInv
    <2>2. PICK a \in Alarm : a = queue.head
      BY <1>0, <2>1, HeadOfOrder
    <2>3. Service!Fire(a)
      BY <1>5, <2>2, RingFires
    <2> QED
      BY <2>3, Zenon DEF Service!Next
  <1>6. CASE HandlerReturns
    <2>1. handling # NULL /\ handling' = NULL /\ UNCHANGED <<now, armed, end>>
      BY <1>6 DEF HandlerReturns, alarmVars
    <2>2. Due' = Due /\ Ringing # {} /\ Ringing' = {}
      BY <2>1 DEF Due, Ringing
    <2> QED
      BY <2>1, <2>2 DEF Service!Next, Service!Return, Due, Ringing
  <1>7. CASE UNCHANGED vars
    <2>1. UNCHANGED <<now, armed, end, handling>>
      BY <1>7 DEF vars, alarmVars
    <2>2. Due' = Due /\ Ringing' = Ringing
      BY <2>1 DEF Due, Ringing
    <2> QED
      BY <2>1, <2>2 DEF Service!vars, Due, Ringing
  <1> QED
    BY <1>1, <1>2, <1>3, <1>4, <1>5, <1>6, <1>7 DEF Next, Exception

\* OSAlarm.c is an alarm clock: alarms fire earliest first, never early and
\* never after they were cancelled, and the periods missed are skipped.
THEOREM IsAlarmClock == Spec => ImplementsClock
  <1>1. Init => Service!Init
    <2> SUFFICES ASSUME Init PROVE Service!Init
      OBVIOUS
    <2>1. now \in Int /\ Due = [a \in {} |-> 0] /\ Ringing = {}
      BY DEF Init, Due, Ringing
    <2> QED
      BY <2>1 DEF Service!Init, Due, Ringing
  <1>2. IInv /\ [Next]_vars => [Service!Next]_(Service!vars)
    BY StepOfClock
  <1>3. Spec => []IInv
    BY InitInvariant, NextInvariant, PTL DEF Spec
  <1> QED
    BY <1>1, <1>2, <1>3, PTL DEF Spec, ImplementsClock, Service!Spec
=============================================================================
