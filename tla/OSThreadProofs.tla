---------------------------- MODULE OSThreadProofs ----------------------------
(***************************************************************************)
(* Proofs about the thread kernel: for any number of threads, mutexes and  *)
(* queues every thread is on the queue its state says, the wait queues are *)
(* in priority order, the best thread that is ready runs, priorities are   *)
(* inherited along every chain of owners, nobody waits for a free mutex,   *)
(* and the dead stay dead.                                                 *)
(***************************************************************************)
EXTENDS OSThread, SequenceTheorems, FiniteSetTheorems, WellFoundedInduction, TLAPS

(* Queues *)

LEMMA QueueNames ==
  /\ \A p \in Priority : RunQ(p) \in RunQueues
  /\ \A m \in Mutex : MutexQ(m) \in SleepQueues
  /\ \A t \in Thread : JoinQ(t) \in SleepQueues
  /\ \A w \in WaitQueue : WaitQ(w) \in SleepQueues
  /\ RunQueues \cap SleepQueues = {}
  /\ \A p, r \in Priority : RunQ(p) = RunQ(r) => p = r
  /\ Queue = RunQueues \cup SleepQueues
  /\ \A q \in RunQueues : \E p \in Priority : q = RunQ(p)
<1>1. \A p \in Priority : \A q \in SleepQueues : RunQ(p) # q
  BY DEF RunQ, SleepQueues, MutexQ, JoinQ, WaitQ
<1> QED
  BY <1>1 DEF Queue, RunQueues, SleepQueues, RunQ

\* Priorities are numbers below the one of a suspended sleeper.
LEMMA Priorities ==
  /\ Priority \subseteq Nat
  /\ \A p \in Priority : p < Suspended
  /\ Suspended \in Nat /\ Suspended \notin Priority
  /\ \A p \in Priority \cup {Suspended} : p \in Nat /\ p <= Suspended
BY ThreadAssumption DEF Priority, Suspended

\* A set of natural numbers that is not empty has a least element.
LEMMA Least ==
  ASSUME NEW T, T \subseteq Nat, T # {}
  PROVE  \E m \in T : \A j \in T : m <= j
<1> DEFINE R == OpToRel(<, Nat)
<1>1. IsWellFoundedOn(R, Nat)
  BY NatLessThanWellFounded
<1>2. PICK m \in T : \A j \in T : <<j, m>> \notin R
  <2> HIDE DEF R
  <2> QED
    BY <1>1, WFMin
<1>3. \A j, k0 \in Nat : j < k0 => <<j, k0>> \in R
  BY DEF OpToRel
<1> HIDE DEF R
<1>4. \A j \in T : ~(j < m)
  BY <1>2, <1>3
<1> QED
  BY <1>4

LEMMA MinIsLeast ==
  ASSUME NEW T, T \subseteq Nat, T # {}
  PROVE  Min(T) \in T /\ \A j \in T : Min(T) <= j
BY Least DEF Min

-----------------------------------------------------------------------------
(* Lines: sequences without repetition *)

\* Among the members of a line, those in front have no greater value of f.
InOrderOf(line, f) ==
  \A i, j \in DOMAIN line : i < j => f[line[i]] <= f[line[j]]

\* n is a line of the members M.
IsLine(n, T, M) == n \in Seq(T) /\ IsInjective(n) /\ ToSet(n) = M

\* The order that taking out, appending and inserting x keep.
KeptOrder(n, line) == \A f : InOrderOf(line, f) => InOrderOf(n, f)
AppendOrder(n, line, x) ==
  \A f : (\A y \in ToSet(line) : f[y] <= f[x]) /\ InOrderOf(line, f)
           => InOrderOf(n, f)
InsertOrder(n, line, a, x) ==
  \A f : /\ \A i \in 1..Len(line) : i < a => f[line[i]] <= f[x]
         /\ \A i \in 1..Len(line) : i >= a => f[x] <= f[line[i]]
         /\ InOrderOf(line, f)
         => InOrderOf(n, f)

LEMMA LineLen ==
  ASSUME NEW T, NEW line \in Seq(T)
  PROVE  /\ Len(line) \in Nat /\ DOMAIN line = 1..Len(line)
         /\ ToSet(line) \subseteq T
         /\ line = <<>> <=> ToSet(line) = {}
         /\ \A x : x \in ToSet(line) <=> \E i \in 1..Len(line) : line[i] = x
<1>1. Len(line) \in Nat /\ DOMAIN line = 1..Len(line) /\ \A i \in 1..Len(line) : line[i] \in T
  OBVIOUS
<1>2. line = <<>> <=> Len(line) = 0
  OBVIOUS
<1>3. \A x : x \in ToSet(line) <=> \E i \in 1..Len(line) : line[i] = x
  BY <1>1 DEF ToSet
<1>4. ToSet(line) \subseteq T
  BY <1>1, <1>3
<1>5. line = <<>> <=> ToSet(line) = {}
  <2>1. line # <<>> => 1 \in 1..Len(line)
    BY <1>1, <1>2
  <2>2. line # <<>> => ToSet(line) # {}
    BY <1>3, <2>1
  <2>3. line = <<>> => 1..Len(line) = {}
    BY <1>2
  <2>4. line = <<>> => ToSet(line) = {}
    BY <1>3, <2>3
  <2> QED
    BY <2>2, <2>4
<1> QED
  BY <1>1, <1>3, <1>4, <1>5

\* n is s without its place a, and s with x put in at place a.
IsRemoval(n, T, s, a) ==
  /\ n \in Seq(T) /\ Len(n) = Len(s) - 1
  /\ \A i \in 1..(Len(s) - 1) : n[i] = IF i < a THEN s[i] ELSE s[i + 1]

IsInsertion(n, T, s, a, x) ==
  /\ n \in Seq(T) /\ Len(n) = Len(s) + 1
  /\ \A i \in 1..(Len(s) + 1) :
       n[i] = IF i < a THEN s[i] ELSE IF i = a THEN x ELSE s[i - 1]

LEMMA RemoveAtIs ==
  ASSUME NEW T, NEW s \in Seq(T), NEW a \in 1..Len(s)
  PROVE  IsRemoval(RemoveAt(s, a), T, s, a)
<1> DEFINE f == SubSeq(s, 1, a - 1)
           b == SubSeq(s, a + 1, Len(s))
           n == RemoveAt(s, a)
<1>1. Len(s) \in Nat
  OBVIOUS
<1>2. f \in Seq(T) /\ Len(f) = a - 1 /\ \A i \in 1..(a - 1) : f[i] = s[i]
  BY <1>1
<1>3. b \in Seq(T) /\ Len(b) = Len(s) - a /\ \A i \in 1..(Len(s) - a) : b[i] = s[i + a]
  BY <1>1
<1>4. n = f \o b
  BY DEF RemoveAt
<1> HIDE DEF f, b, n
<1>5. n \in Seq(T) /\ Len(n) = Len(f) + Len(b)
  <2>1. f \in Seq(T) /\ b \in Seq(T)
    BY <1>2, <1>3
  <2> QED
    BY <1>4, <2>1
<1>6. \A i \in 1..(Len(f)+Len(b)) : n[i] = IF i <= Len(f) THEN f[i] ELSE b[i - Len(f)]
  BY <1>2, <1>3, <1>4
<1>7. ASSUME NEW i \in 1..(Len(s) - 1) PROVE n[i] = IF i < a THEN s[i] ELSE s[i + 1]
  <2>1. n[i] = IF i <= a - 1 THEN f[i] ELSE b[i - (a - 1)]
    BY <1>1, <1>2, <1>3, <1>6
  <2>2. CASE i < a
    BY <1>2, <2>1, <2>2
  <2>3. CASE ~(i < a)
    <3>1. i - (a - 1) \in 1..(Len(s) - a) /\ i - (a - 1) + a = i + 1
      BY <1>1, <2>3
    <3> QED
      BY <1>3, <2>1, <2>3, <3>1
  <2> QED
    BY <2>2, <2>3
<1>8. Len(n) = Len(s) - 1
  BY <1>1, <1>2, <1>3, <1>5
<1> QED
  BY <1>5, <1>7, <1>8 DEF n, IsRemoval

LEMMA InsertAtIs ==
  ASSUME NEW T, NEW s \in Seq(T), NEW a \in 1..(Len(s) + 1), NEW x \in T
  PROVE  IsInsertion(InsertAt(s, a, x), T, s, a, x)
<1> DEFINE f == SubSeq(s, 1, a - 1)
           c == f \o <<x>>
           b == SubSeq(s, a, Len(s))
           n == InsertAt(s, a, x)
<1>1. Len(s) \in Nat
  OBVIOUS
<1>2. f \in Seq(T) /\ Len(f) = a - 1 /\ \A i \in 1..(a - 1) : f[i] = s[i]
  BY <1>1
<1>3. b \in Seq(T) /\ Len(b) = Len(s) - a + 1 /\ \A i \in 1..(Len(s) - a + 1) : b[i] = s[i + a - 1]
  BY <1>1
<1> HIDE DEF f
<1>4. c \in Seq(T) /\ Len(c) = a /\ (\A i \in 1..(a - 1) : c[i] = s[i]) /\ c[a] = x
  BY <1>1, <1>2
<1>5. n = c \o b
  BY DEF InsertAt, f
<1> HIDE DEF b, c, n
<1>6. n \in Seq(T) /\ Len(n) = Len(c) + Len(b)
  <2>1. c \in Seq(T) /\ b \in Seq(T)
    BY <1>3, <1>4
  <2> QED
    BY <1>5, <2>1
<1>7. \A i \in 1..(Len(c)+Len(b)) : n[i] = IF i <= Len(c) THEN c[i] ELSE b[i - Len(c)]
  BY <1>3, <1>4, <1>5
<1>8. ASSUME NEW i \in 1..(Len(s) + 1) PROVE n[i] = IF i < a THEN s[i] ELSE IF i = a THEN x ELSE s[i - 1]
  <2>1. n[i] = IF i <= a THEN c[i] ELSE b[i - a]
    BY <1>1, <1>4, <1>3, <1>7
  <2>2. CASE i <= a
    BY <1>4, <2>1, <2>2
  <2>3. CASE ~(i <= a)
    <3>1. i - a \in 1..(Len(s) - a + 1) /\ i - a + a - 1 = i - 1
      BY <1>1, <2>3
    <3> QED
      BY <1>3, <2>1, <2>3, <3>1
  <2> QED
    BY <2>2, <2>3
<1>9. Len(n) = Len(s) + 1
  BY <1>1, <1>3, <1>4, <1>6
<1> QED
  BY <1>6, <1>8, <1>9 DEF n, IsInsertion

\* Taking a member out of a line leaves the others in their order.
LEMMA WithoutLine ==
  ASSUME NEW T, NEW line \in Seq(T), IsInjective(line), NEW x \in ToSet(line),
         NEW n, n = Without(line, x)
  PROVE  IsLine(n, T, ToSet(line) \ {x}) /\ KeptOrder(n, line)
<1>0. Len(line) \in Nat /\ DOMAIN line = 1..Len(line) /\ \A i \in 1..Len(line) : line[i] \in T
  OBVIOUS
<1> DEFINE at == CHOOSE i \in DOMAIN line : line[i] = x
<1>1. at \in 1..Len(line) /\ line[at] = x
  BY <1>0 DEF ToSet
<1>2. n = RemoveAt(line, at)
  BY DEF Without
<1> HIDE DEF at
<1>5. /\ n \in Seq(T) /\ Len(n) = Len(line) - 1
      /\ \A i \in 1..(Len(line) - 1) :
           n[i] = IF i < at THEN line[i] ELSE line[i + 1]
  <2>1. IsRemoval(n, T, line, at)
    BY <1>1, <1>2, RemoveAtIs
  <2> QED
    BY <2>1 DEF IsRemoval
<1>6. DOMAIN n = 1..(Len(line) - 1)
  BY <1>5
<1> DEFINE old(i) == IF i < at THEN i ELSE i + 1
<1>a. ASSUME NEW i \in 1..(Len(line) - 1)
      PROVE  old(i) \in 1..Len(line) /\ old(i) # at /\ n[i] = line[old(i)]
  BY <1>0, <1>1, <1>5
<1>b. \A y : y \in ToSet(line) <=> \E i \in 1..Len(line) : line[i] = y
  BY <1>0 DEF ToSet
<1>c. \A y : y \in ToSet(n) <=> \E i \in 1..(Len(line) - 1) : n[i] = y
  BY <1>6 DEF ToSet
<1>7. IsInjective(n)
  <2> SUFFICES ASSUME NEW i \in 1..(Len(line) - 1), NEW j \in 1..(Len(line) - 1),
                      n[i] = n[j]
               PROVE  i = j
    BY <1>6 DEF IsInjective
  <2>1. old(i) = old(j)
    <3> HIDE DEF old
    <3> QED
      BY <1>0, <1>a DEF IsInjective
  <2> QED
    BY <1>1, <2>1
<1>8. ASSUME NEW y  PROVE y \in ToSet(n) <=> y \in ToSet(line) \ {x}
  <2>1. ASSUME y \in ToSet(n)  PROVE y \in ToSet(line) \ {x}
    <3> HIDE DEF old
    <3>1. PICK i \in 1..(Len(line) - 1) : n[i] = y
      BY <1>c, <2>1
    <3>2. old(i) \in 1..Len(line) /\ old(i) # at /\ line[old(i)] = y
      BY <1>a, <3>1
    <3>3. y # line[at]
      BY <1>0, <1>1, <3>2 DEF IsInjective
    <3> QED
      BY <1>1, <1>b, <3>2, <3>3
  <2>2. ASSUME y \in ToSet(line) \ {x}  PROVE y \in ToSet(n)
    <3>1. PICK j \in 1..Len(line) : line[j] = y
      BY <1>b, <2>2
    <3> DEFINE i == IF j < at THEN j ELSE j - 1
    <3>2. j # at
      BY <1>1, <2>2, <3>1
    <3>3. i \in 1..(Len(line) - 1) /\ old(i) = j
      BY <1>0, <1>1, <3>2
    <3>4. n[i] = y
      BY <1>a, <3>1, <3>3
    <3> QED
      BY <1>c, <3>3, <3>4
  <2> QED
    BY <2>1, <2>2
<1>9. ASSUME NEW f, InOrderOf(line, f)  PROVE InOrderOf(n, f)
  <2> SUFFICES ASSUME NEW i \in 1..(Len(line) - 1), NEW j \in 1..(Len(line) - 1), i < j
               PROVE  f[n[i]] <= f[n[j]]
    BY <1>6 DEF InOrderOf
  <2>1. old(i) < old(j)
    BY <1>1
  <2> HIDE DEF old
  <2>2. old(i) \in DOMAIN line /\ old(j) \in DOMAIN line
    BY <1>0, <1>a
  <2>3. f[line[old(i)]] <= f[line[old(j)]]
    BY <1>9, <2>1, <2>2 DEF InOrderOf
  <2> QED
    BY <1>a, <2>3
<1> QED
  BY <1>5, <1>7, <1>8, <1>9 DEF IsLine, KeptOrder

LEMMA AppendLine ==
  ASSUME NEW T, NEW line \in Seq(T), IsInjective(line), NEW x \in T, x \notin ToSet(line),
         NEW n, n = Append(line, x)
  PROVE  IsLine(n, T, ToSet(line) \cup {x}) /\ n # <<>> /\ AppendOrder(n, line, x)
<1>1. Len(line) \in Nat /\ DOMAIN line = 1..Len(line)
  OBVIOUS
<1>2. /\ n \in Seq(T) /\ n # <<>> /\ Len(n) = Len(line) + 1
      /\ \A i \in 1..Len(line) : n[i] = line[i]
      /\ n[Len(line) + 1] = x
  BY AppendProperties
<1>3. DOMAIN n = 1..(Len(line) + 1)
  BY <1>2
<1>4. \A i \in 1..Len(line) : line[i] \in ToSet(line)
  BY <1>1 DEF ToSet
<1>5. \A i \in 1..(Len(line) + 1) : i \in 1..Len(line) \/ i = Len(line) + 1
  BY <1>1
<1>6. IsInjective(n)
  BY <1>1, <1>2, <1>3, <1>4, <1>5 DEF IsInjective
<1>7. \A y : y \in ToSet(n) <=> y \in ToSet(line) \cup {x}
  <2>1. \A y : y \in ToSet(n) <=> \E i \in 1..(Len(line) + 1) : n[i] = y
    BY <1>3 DEF ToSet
  <2>2. \A y : y \in ToSet(line) <=> \E i \in 1..Len(line) : line[i] = y
    BY <1>1 DEF ToSet
  <2>3. 1..Len(line) \subseteq 1..(Len(line) + 1) /\ Len(line) + 1 \in 1..(Len(line) + 1)
    BY <1>1
  <2> QED
    BY <1>2, <1>5, <2>1, <2>2, <2>3
<1>8. ASSUME NEW f, \A y \in ToSet(line) : f[y] <= f[x], InOrderOf(line, f)
      PROVE  InOrderOf(n, f)
  <2> SUFFICES ASSUME NEW i \in 1..(Len(line) + 1), NEW j \in 1..(Len(line) + 1), i < j
               PROVE  f[n[i]] <= f[n[j]]
    BY <1>3 DEF InOrderOf
  <2>1. i \in 1..Len(line)
    BY <1>1
  <2>2. CASE j \in 1..Len(line)
    BY <1>1, <1>2, <1>8, <2>1, <2>2 DEF InOrderOf
  <2>3. CASE j = Len(line) + 1
    BY <1>2, <1>4, <1>8, <2>1, <2>3
  <2> QED
    BY <1>5, <2>2, <2>3
<1> QED
  BY <1>2, <1>6, <1>7, <1>8 DEF IsLine, AppendOrder

\* Putting a new member in front of those that come after it keeps the order.
LEMMA InsertLine ==
  ASSUME NEW T, NEW line \in Seq(T), IsInjective(line), NEW x \in T, x \notin ToSet(line),
         NEW a \in 1..(Len(line) + 1), NEW n, n = InsertAt(line, a, x)
  PROVE  IsLine(n, T, ToSet(line) \cup {x}) /\ n # <<>> /\ InsertOrder(n, line, a, x)
<1>1. Len(line) \in Nat /\ DOMAIN line = 1..Len(line)
  OBVIOUS
<1>2. /\ n \in Seq(T) /\ Len(n) = Len(line) + 1
      /\ \A i \in 1..(Len(line) + 1) :
           n[i] = IF i < a THEN line[i] ELSE IF i = a THEN x ELSE line[i - 1]
  <2>1. IsInsertion(n, T, line, a, x)
    BY InsertAtIs
  <2> QED
    BY <2>1 DEF IsInsertion
<1>3. DOMAIN n = 1..(Len(line) + 1) /\ n # <<>>
  BY <1>1, <1>2
<1> DEFINE old(i) == IF i < a THEN i ELSE i - 1
<1>4. ASSUME NEW i \in 1..(Len(line) + 1)
      PROVE  IF i = a THEN n[i] = x
             ELSE old(i) \in 1..Len(line) /\ n[i] = line[old(i)]
  BY <1>1, <1>2
<1>5. \A y : y \in ToSet(line) <=> \E i \in 1..Len(line) : line[i] = y
  BY <1>1 DEF ToSet
<1>6. \A y : y \in ToSet(n) <=> \E i \in 1..(Len(line) + 1) : n[i] = y
  BY <1>3 DEF ToSet
<1>7. IsInjective(n)
  <2> SUFFICES ASSUME NEW i \in 1..(Len(line) + 1), NEW j \in 1..(Len(line) + 1), n[i] = n[j]
               PROVE  i = j
    BY <1>3 DEF IsInjective
  <2>1. CASE i # a /\ j # a
    <3>1. old(i) = old(j)
      BY <1>1, <1>4, <2>1 DEF IsInjective
    <3> QED
      BY <2>1, <3>1
  <2>2. CASE i = a \/ j = a
    BY <1>4, <1>5, <2>2
  <2> QED
    BY <2>1, <2>2
<1>8. ASSUME NEW y  PROVE y \in ToSet(n) <=> y \in ToSet(line) \cup {x}
  <2>1. y \in ToSet(n) => y \in ToSet(line) \cup {x}
    BY <1>4, <1>5, <1>6
  <2>2. ASSUME y \in ToSet(line)  PROVE y \in ToSet(n)
    <3>1. PICK j \in 1..Len(line) : line[j] = y
      BY <1>5, <2>2
    <3> DEFINE i == IF j < a THEN j ELSE j + 1
    <3>2. i \in 1..(Len(line) + 1) /\ i # a /\ old(i) = j
      BY <1>1
    <3>3. n[i] = y
      BY <1>4, <3>1, <3>2
    <3> QED
      BY <1>6, <3>2, <3>3
  <2>3. a \in 1..(Len(line) + 1) /\ n[a] = x
    BY <1>4
  <2> QED
    BY <1>6, <2>1, <2>2, <2>3
<1>9. ASSUME NEW f, \A i \in 1..Len(line) : i < a => f[line[i]] <= f[x],
             \A i \in 1..Len(line) : i >= a => f[x] <= f[line[i]],
             InOrderOf(line, f)
      PROVE  InOrderOf(n, f)
  <2> SUFFICES ASSUME NEW i \in 1..(Len(line) + 1), NEW j \in 1..(Len(line) + 1), i < j
               PROVE  f[n[i]] <= f[n[j]]
    BY <1>3 DEF InOrderOf
  <2>1. CASE i # a /\ j # a
    <3>1. old(i) < old(j)
      BY <1>1, <2>1
    <3>2. f[line[old(i)]] <= f[line[old(j)]]
      <4>1. old(i) \in DOMAIN line /\ old(j) \in DOMAIN line
        BY <1>1, <1>4, <2>1
      <4> HIDE DEF old
      <4> QED
        BY <1>9, <3>1, <4>1 DEF InOrderOf
    <3> QED
      BY <1>4, <2>1, <3>2
  <2>2. CASE i = a
    BY <1>1, <1>4, <1>9, <2>2
  <2>3. CASE j = a
    BY <1>1, <1>4, <1>9, <2>3
  <2> QED
    BY <2>1, <2>2, <2>3
<1>10. IsLine(n, T, ToSet(line) \cup {x})
  <2>1. ToSet(n) = ToSet(line) \cup {x}
    BY <1>8
  <2> QED
    BY <1>2, <1>7, <2>1, Zenon DEF IsLine
<1> QED
  BY <1>3, <1>9, <1>10 DEF InsertOrder

LEMMA TailLine ==
  ASSUME NEW T, NEW line \in Seq(T), IsInjective(line), line # <<>>
  PROVE  /\ Head(line) \in T /\ Head(line) \in ToSet(line)
         /\ IsLine(Tail(line), T, ToSet(line) \ {Head(line)})
<1> DEFINE n == Tail(line)
<1>1. Len(line) \in Nat \ {0} /\ DOMAIN line = 1..Len(line) /\ Head(line) = line[1]
  OBVIOUS
<1>2. /\ Head(line) \in T /\ n \in Seq(T) /\ Len(n) = Len(line) - 1
      /\ \A i \in 1..(Len(line) - 1) : n[i] = line[i + 1]
  BY HeadTailProperties
<1>3. DOMAIN n = 1..(Len(line) - 1)
  BY <1>2
<1> HIDE DEF n
<1>4. IsInjective(n)
  <2> SUFFICES ASSUME NEW i \in 1..(Len(line) - 1), NEW j \in 1..(Len(line) - 1),
                      n[i] = n[j]
               PROVE  i = j
    BY <1>3 DEF IsInjective
  <2>1. i + 1 \in 1..Len(line) /\ j + 1 \in 1..Len(line)
    BY <1>1
  <2>2. line[i + 1] = line[j + 1]
    BY <1>2
  <2>3. i + 1 = j + 1
    BY <1>1, <2>1, <2>2 DEF IsInjective
  <2> QED
    BY <2>3
<1>5. \A y : y \in ToSet(n) <=> \E i \in 1..(Len(line) - 1) : n[i] = y
  BY <1>3 DEF ToSet
<1>6. \A y : y \in ToSet(line) <=> \E i \in 1..Len(line) : line[i] = y
  BY <1>1 DEF ToSet
<1>7. ASSUME NEW y, y \in ToSet(n)  PROVE y \in ToSet(line) \ {Head(line)}
  <2>1. PICK i \in 1..(Len(line) - 1) : n[i] = y
    BY <1>5, <1>7
  <2>2. i + 1 \in 1..Len(line) /\ line[i + 1] = y /\ i + 1 # 1 /\ 1 \in 1..Len(line)
    BY <1>1, <1>2, <2>1
  <2> QED
    BY <1>1, <1>6, <2>2 DEF IsInjective
<1>8. ASSUME NEW y, y \in ToSet(line) \ {Head(line)}  PROVE y \in ToSet(n)
  <2>1. PICK i \in 1..Len(line) : line[i] = y
    BY <1>6, <1>8
  <2>2. i # 1
    BY <1>1, <1>8, <2>1
  <2>3. i - 1 \in 1..(Len(line) - 1) /\ n[i - 1] = line[(i - 1) + 1] /\ (i - 1) + 1 = i
    BY <1>1, <1>2, <2>2
  <2> QED
    BY <1>5, <2>1, <2>3
<1>9. 1 \in 1..Len(line)
  BY <1>1
<1> QED
  BY <1>1, <1>2, <1>4, <1>6, <1>7, <1>8, <1>9 DEF n, IsLine

-----------------------------------------------------------------------------
(* What holds of a kernel state *)

Ready(c, t) == c.state[t] = "READY" /\ c.suspend[t] = 0

\* t belongs on q.
OnQueue(c, t, q) ==
  \/ Ready(c, t) /\ q = RunQ(c.priority[t])
  \/ c.state[t] = "SLEEPING" /\ q = c.queue[t]

\* What the fields of one thread say of each other.
ThreadFits(c, t) ==
  /\ Ready(c, t) => c.queue[t] = RunQ(c.priority[t])
  /\ c.state[t] = "SLEEPING" => c.queue[t] \in SleepQueues
  /\ (c.state[t] \in Alive /\ c.suspend[t] = 0) => c.priority[t] \in Priority
  /\ c.state[t] = "RUNNING" => c.suspend[t] = 0

\* Between two steps of a call the threads of off are on no queue.
Placed(c, off) ==
  \A t \in Thread, q \in Queue :
    t \in ToSet(c.list[q]) <=> t \notin off /\ OnQueue(c, t, q)
Fit(c, off) == \A t \in Thread \ off : ThreadFits(c, t)
BitsRight(c) == \A p \in Priority : p \in c.bits <=> c.list[RunQ(p)] # <<>>
NoneTwice(c) == \A q \in Queue : IsInjective(c.list[q])
Ordered(c) == \A q \in SleepQueues : InOrderOf(c.list[q], c.priority)

Sound(c, off) ==
  c \in Kernel /\ Placed(c, off) /\ Fit(c, off) /\ BitsRight(c) /\ NoneTwice(c) /\ Ordered(c)

\* n differs from c in queues, bits and the hint only, and the hint stays up.
Moved(c, n) ==
  /\ n.state = c.state /\ n.detached = c.detached /\ n.base = c.base
  /\ n.priority = c.priority /\ n.suspend = c.suspend /\ n.mutex = c.mutex
  /\ n.active = c.active /\ n.held = c.held /\ n.owner = c.owner
  /\ n.lock = c.lock /\ n.disabled = c.disabled /\ n.current = c.current
  /\ c.hint => n.hint
  /\ \A t \in Thread : c.state[t] = "SLEEPING" => n.queue[t] = c.queue[t]

\* A ready thread is put on its run queue.
LEMMA SetRunPuts ==
  ASSUME NEW c, NEW off, Sound(c, off), NEW t \in Thread, t \in off,
         Ready(c, t), c.priority[t] \in Priority, NEW n, n = SetRun(c, t)
  PROVE  Sound(n, off \ {t}) /\ Moved(c, n) /\ n.hint = TRUE
<1> DEFINE p == c.priority[t]
           q0 == RunQ(p)
           new == Append(c.list[q0], t)
<1>0. /\ c \in Kernel /\ p \in Priority /\ q0 \in Queue /\ q0 \notin SleepQueues
      /\ c.list \in [Queue -> Seq(Thread)] /\ c.queue \in [Thread -> Queue \cup {None}]
      /\ c.bits \subseteq Priority /\ c.list[q0] \in Seq(Thread)
  BY QueueNames DEF Sound, Kernel
<1>1. /\ n.list = [c.list EXCEPT ![q0] = new]
      /\ n.queue = [c.queue EXCEPT ![t] = q0]
      /\ n.bits = c.bits \cup {p}
      /\ n.hint = TRUE
  BY <1>0 DEF SetRun, Kernel
<1>2. Moved(c, n)
  <2>1. /\ n.state = c.state /\ n.detached = c.detached /\ n.base = c.base
        /\ n.priority = c.priority /\ n.suspend = c.suspend /\ n.mutex = c.mutex
        /\ n.active = c.active /\ n.held = c.held /\ n.owner = c.owner
        /\ n.lock = c.lock /\ n.disabled = c.disabled /\ n.current = c.current
    BY <1>0 DEF SetRun, Kernel
  <2>2. \A u \in Thread : c.state[u] = "SLEEPING" => n.queue[u] = c.queue[u]
    BY <1>0, <1>1 DEF Ready
  <2> QED
    BY <1>1, <2>1, <2>2 DEF Moved
<1>3. t \notin ToSet(c.list[q0]) /\ IsInjective(c.list[q0])
  BY <1>0 DEF Sound, Placed, NoneTwice
<1>4. /\ new \in Seq(Thread) /\ new # <<>> /\ IsInjective(new)
      /\ ToSet(new) = ToSet(c.list[q0]) \cup {t}
  <2>1. IsLine(new, Thread, ToSet(c.list[q0]) \cup {t}) /\ new # <<>>
    BY <1>0, <1>3, AppendLine
  <2> HIDE DEF new
  <2> QED
    BY <2>1 DEF IsLine
<1> HIDE DEF new
<1>5. n \in Kernel
  <2>1. n.list \in [Queue -> Seq(Thread)] /\ n.queue \in [Thread -> Queue \cup {None}]
        /\ n.bits \subseteq Priority
    BY <1>0, <1>1, <1>4
  <2>2. n = [c EXCEPT !.list = n.list, !.queue = n.queue, !.bits = n.bits, !.hint = TRUE]
    BY <1>0, <1>1 DEF SetRun, Kernel
  <2> QED
    BY <1>0, <2>1, <2>2 DEF Kernel
<1>6. Placed(n, off \ {t})
  <2> SUFFICES ASSUME NEW u \in Thread, NEW q \in Queue
               PROVE  u \in ToSet(n.list[q]) <=> u \notin off \ {t} /\ OnQueue(n, u, q)
    BY DEF Placed
  <2>1. OnQueue(n, u, q) <=> OnQueue(c, u, q)
    BY <1>0, <1>1, <1>2 DEF OnQueue, Moved, Ready
  <2>2. u \in ToSet(c.list[q]) <=> u \notin off /\ OnQueue(c, u, q)
    BY DEF Sound, Placed
  <2>3. OnQueue(c, t, q) <=> q = q0
    BY DEF OnQueue, Ready
  <2>4. n.list[q] = IF q = q0 THEN new ELSE c.list[q]
    BY <1>0, <1>1
  <2> QED
    BY <1>4, <2>1, <2>2, <2>3, <2>4
<1>7. Fit(n, off \ {t})
  <2>1. ThreadFits(n, t)
    BY <1>0, <1>1, <1>2 DEF Moved, ThreadFits, Ready
  <2>2. ASSUME NEW u \in Thread \ off  PROVE ThreadFits(n, u)
    <3>1. n.queue[u] = c.queue[u] /\ ThreadFits(c, u)
      BY <1>0, <1>1 DEF Sound, Fit
    <3> QED
      BY <1>2, <3>1 DEF Moved, ThreadFits, Ready
  <2> QED
    BY <2>1, <2>2 DEF Fit
<1>8. BitsRight(n)
  BY <1>0, <1>1, <1>4, QueueNames DEF Sound, BitsRight
<1>9. NoneTwice(n)
  BY <1>0, <1>1, <1>4 DEF Sound, NoneTwice
<1>10. Ordered(n)
  BY <1>0, <1>1, <1>2, QueueNames DEF Sound, Ordered, Moved
<1> QED
  BY <1>1, <1>2, <1>5, <1>6, <1>7, <1>8, <1>9, <1>10 DEF Sound

\* A ready thread is taken off its run queue, which rest is without it.
TakeReady(c, t, rest) ==
  [c EXCEPT !.list[RunQ(c.priority[t])] = rest, !.queue[t] = None,
            !.bits = IF rest = <<>> THEN @ \ {c.priority[t]} ELSE @]

LEMMA TakesReady ==
  ASSUME NEW c, NEW off, Sound(c, off), NEW t \in Thread, t \notin off,
         Ready(c, t), NEW rest,
         IsLine(rest, Thread, ToSet(c.list[RunQ(c.priority[t])]) \ {t}),
         NEW n, n = TakeReady(c, t, rest)
  PROVE  Sound(n, off \cup {t}) /\ Moved(c, n) /\ n.hint = c.hint
<1> DEFINE p == c.priority[t]
           q0 == RunQ(p)
<1>0. /\ c \in Kernel /\ p \in Priority /\ q0 \in Queue /\ q0 \notin SleepQueues
      /\ c.list \in [Queue -> Seq(Thread)] /\ c.queue \in [Thread -> Queue \cup {None}]
      /\ c.bits \subseteq Priority /\ c.list[q0] \in Seq(Thread)
      /\ c.queue[t] = q0
  <2>1. c \in Kernel /\ ThreadFits(c, t)
    BY DEF Sound, Fit
  <2>2. p \in Priority /\ c.queue[t] = q0
    BY <2>1 DEF ThreadFits, Ready, Alive
  <2> QED
    BY <2>1, <2>2, QueueNames DEF Kernel
<1>1. /\ n.list = [c.list EXCEPT ![q0] = rest]
      /\ n.queue = [c.queue EXCEPT ![t] = None]
      /\ n.bits = IF rest = <<>> THEN c.bits \ {p} ELSE c.bits
      /\ n.hint = c.hint
  BY <1>0 DEF TakeReady, Kernel
<1>2. Moved(c, n)
  <2>1. /\ n.state = c.state /\ n.detached = c.detached /\ n.base = c.base
        /\ n.priority = c.priority /\ n.suspend = c.suspend /\ n.mutex = c.mutex
        /\ n.active = c.active /\ n.held = c.held /\ n.owner = c.owner
        /\ n.lock = c.lock /\ n.disabled = c.disabled /\ n.current = c.current
    BY <1>0 DEF TakeReady, Kernel
  <2>2. \A u \in Thread : c.state[u] = "SLEEPING" => n.queue[u] = c.queue[u]
    BY <1>0, <1>1 DEF Ready
  <2> QED
    BY <1>1, <2>1, <2>2 DEF Moved
<1>3. t \in ToSet(c.list[q0]) /\ IsInjective(c.list[q0])
  <2>1. OnQueue(c, t, q0)
    BY DEF OnQueue
  <2> QED
    BY <1>0, <2>1 DEF Sound, Placed, NoneTwice
<1>4. /\ rest \in Seq(Thread) /\ IsInjective(rest)
      /\ ToSet(rest) = ToSet(c.list[q0]) \ {t}
  BY DEF IsLine
<1>n. n = [c EXCEPT !.list = n.list, !.queue = n.queue, !.bits = n.bits]
  BY <1>0, <1>1 DEF TakeReady, Kernel
<1>5. n \in Kernel
  <2>1. n.list \in [Queue -> Seq(Thread)] /\ n.queue \in [Thread -> Queue \cup {None}]
        /\ n.bits \subseteq Priority
    BY <1>0, <1>1, <1>4
  <2> QED
    BY <1>0, <1>n, <2>1 DEF Kernel
<1>6. Placed(n, off \cup {t})
  <2> SUFFICES ASSUME NEW u \in Thread, NEW q \in Queue
               PROVE  u \in ToSet(n.list[q]) <=> u \notin off \cup {t} /\ OnQueue(n, u, q)
    BY DEF Placed
  <2>1. u # t => (OnQueue(n, u, q) <=> OnQueue(c, u, q))
    BY <1>0, <1>1, <1>2 DEF OnQueue, Moved, Ready
  <2>2. u \in ToSet(c.list[q]) <=> u \notin off /\ OnQueue(c, u, q)
    BY DEF Sound, Placed
  <2>3. OnQueue(c, t, q) <=> q = q0
    BY DEF OnQueue, Ready
  <2>4. n.list[q] = IF q = q0 THEN rest ELSE c.list[q]
    BY <1>0, <1>1
  <2> QED
    BY <1>4, <2>1, <2>2, <2>3, <2>4
<1>7. Fit(n, off \cup {t})
  <2>1. ASSUME NEW u \in Thread \ (off \cup {t})  PROVE ThreadFits(n, u)
    <3>1. n.queue[u] = c.queue[u] /\ ThreadFits(c, u)
      BY <1>0, <1>1 DEF Sound, Fit
    <3> QED
      BY <1>2, <3>1 DEF Moved, ThreadFits, Ready
  <2> QED
    BY <2>1 DEF Fit
<1>8. BitsRight(n)
  <2> SUFFICES ASSUME NEW r \in Priority
               PROVE  r \in n.bits <=> n.list[RunQ(r)] # <<>>
    BY DEF BitsRight
  <2>1. r \in c.bits <=> c.list[RunQ(r)] # <<>>
    BY DEF Sound, BitsRight
  <2>2. CASE r = p
    <3>1. n.list[RunQ(r)] = rest /\ c.list[RunQ(r)] # <<>>
      BY <1>0, <1>1, <1>3, <2>2, LineLen
    <3> QED
      BY <1>1, <2>1, <2>2, <3>1
  <2>3. CASE r # p
    <3>1. n.list[RunQ(r)] = c.list[RunQ(r)]
      BY <1>0, <1>1, <2>3, QueueNames
    <3> QED
      BY <1>1, <2>1, <2>3, <3>1
  <2> QED
    BY <2>2, <2>3
<1>9. NoneTwice(n)
  BY <1>0, <1>1, <1>4 DEF Sound, NoneTwice
<1>10. Ordered(n)
  BY <1>0, <1>1, <1>2, QueueNames DEF Sound, Ordered, Moved
<1> QED
  BY <1>1, <1>2, <1>5, <1>6, <1>7, <1>8, <1>9, <1>10 DEF Sound

\* UnsetRun takes it from where the thread's pointer says.
LEMMA UnsetRunTakes ==
  ASSUME NEW c, NEW off, Sound(c, off), NEW t \in Thread, t \notin off,
         Ready(c, t), NEW n, n = UnsetRun(c, t)
  PROVE  Sound(n, off \cup {t}) /\ Moved(c, n) /\ n.hint = c.hint
<1> DEFINE q0 == RunQ(c.priority[t])
           rest == Without(c.list[q0], t)
<1>0. /\ c \in Kernel /\ q0 \in Queue /\ c.list \in [Queue -> Seq(Thread)]
      /\ c.list[q0] \in Seq(Thread) /\ c.queue[t] = q0
  <2>1. c \in Kernel /\ ThreadFits(c, t)
    BY DEF Sound, Fit
  <2>2. c.priority[t] \in Priority /\ c.queue[t] = q0
    BY <2>1 DEF ThreadFits, Ready, Alive
  <2> QED
    BY <2>1, <2>2, QueueNames DEF Kernel
<1>1. t \in ToSet(c.list[q0]) /\ IsInjective(c.list[q0])
  <2>1. OnQueue(c, t, q0)
    BY DEF OnQueue
  <2> QED
    BY <1>0, <2>1 DEF Sound, Placed, NoneTwice
<1>2. IsLine(rest, Thread, ToSet(c.list[q0]) \ {t})
  BY <1>0, <1>1, WithoutLine
<1>3. n = TakeReady(c, t, rest)
  BY <1>0 DEF UnsetRun, TakeReady
<1> HIDE DEF rest
<1> QED
  BY <1>2, <1>3, TakesReady

\* A sleeper is taken off its queue; it still points to it.
LEMMA UnlinkTakes ==
  ASSUME NEW c, NEW off, Sound(c, off), NEW t \in Thread, t \notin off,
         c.state[t] = "SLEEPING", NEW n, n = Unlink(c, t)
  PROVE  /\ Sound(n, off \cup {t}) /\ Moved(c, n) /\ n.hint = c.hint
         /\ n.queue = c.queue /\ c.queue[t] \in SleepQueues
<1> DEFINE q0 == c.queue[t]
           rest == Without(c.list[q0], t)
<1>0. /\ c \in Kernel /\ q0 \in Queue /\ q0 \in SleepQueues
      /\ c.list \in [Queue -> Seq(Thread)]
      /\ c.bits \subseteq Priority /\ c.list[q0] \in Seq(Thread)
  <2>1. c \in Kernel /\ ThreadFits(c, t)
    BY DEF Sound, Fit
  <2>2. q0 \in SleepQueues
    BY <2>1 DEF ThreadFits
  <2> QED
    BY <2>1, <2>2, QueueNames DEF Kernel
<1>1. /\ n.list = [c.list EXCEPT ![q0] = rest]
      /\ n.queue = c.queue /\ n.bits = c.bits /\ n.hint = c.hint
  BY <1>0 DEF Unlink, Kernel
<1>2. Moved(c, n)
  <2>1. /\ n.state = c.state /\ n.detached = c.detached /\ n.base = c.base
        /\ n.priority = c.priority /\ n.suspend = c.suspend /\ n.mutex = c.mutex
        /\ n.active = c.active /\ n.held = c.held /\ n.owner = c.owner
        /\ n.lock = c.lock /\ n.disabled = c.disabled /\ n.current = c.current
    BY <1>0 DEF Unlink, Kernel
  <2> QED
    BY <1>1, <2>1 DEF Moved
<1>3. t \in ToSet(c.list[q0]) /\ IsInjective(c.list[q0])
  <2>1. OnQueue(c, t, q0)
    BY DEF OnQueue
  <2> QED
    BY <1>0, <2>1 DEF Sound, Placed, NoneTwice
<1>4. /\ rest \in Seq(Thread) /\ IsInjective(rest)
      /\ ToSet(rest) = ToSet(c.list[q0]) \ {t}
      /\ KeptOrder(rest, c.list[q0])
  <2>1. IsLine(rest, Thread, ToSet(c.list[q0]) \ {t}) /\ KeptOrder(rest, c.list[q0])
    BY <1>0, <1>3, WithoutLine
  <2> HIDE DEF rest
  <2> QED
    BY <2>1 DEF IsLine
<1>n. n = [c EXCEPT !.list = n.list]
  BY <1>0, <1>1 DEF Unlink, Kernel
<1> HIDE DEF rest
<1>5. n \in Kernel
  <2>1. n.list \in [Queue -> Seq(Thread)]
    BY <1>0, <1>1, <1>4
  <2> QED
    BY <1>0, <1>n, <2>1 DEF Kernel
<1>6. Placed(n, off \cup {t})
  <2> SUFFICES ASSUME NEW u \in Thread, NEW q \in Queue
               PROVE  u \in ToSet(n.list[q]) <=> u \notin off \cup {t} /\ OnQueue(n, u, q)
    BY DEF Placed
  <2>1. OnQueue(n, u, q) <=> OnQueue(c, u, q)
    BY <1>1, <1>2 DEF OnQueue, Moved, Ready
  <2>2. u \in ToSet(c.list[q]) <=> u \notin off /\ OnQueue(c, u, q)
    BY DEF Sound, Placed
  <2>3. OnQueue(c, t, q) <=> q = q0
    BY DEF OnQueue, Ready
  <2>4. n.list[q] = IF q = q0 THEN rest ELSE c.list[q]
    BY <1>0, <1>1
  <2> QED
    BY <1>4, <2>1, <2>2, <2>3, <2>4
<1>7. Fit(n, off \cup {t})
  BY <1>1, <1>2 DEF Sound, Fit, ThreadFits, Moved, Ready
<1>8. BitsRight(n)
  BY <1>0, <1>1, QueueNames DEF Sound, BitsRight
<1>9. NoneTwice(n)
  BY <1>0, <1>1, <1>4 DEF Sound, NoneTwice
<1>10. Ordered(n)
  BY <1>0, <1>1, <1>2, <1>4 DEF Sound, Ordered, Moved, KeptOrder
<1> QED
  BY <1>0, <1>1, <1>2, <1>5, <1>6, <1>7, <1>8, <1>9, <1>10 DEF Sound

\* A sleeper is put on a sleep queue at a place that keeps the order.
LEMMA PutsSleeper ==
  ASSUME NEW c, NEW off, Sound(c, off), NEW t \in Thread, t \in off,
         c.state[t] = "SLEEPING", c.queue[t] \in SleepQueues,
         c.suspend[t] = 0 => c.priority[t] \in Priority,
         NEW line, IsLine(line, Thread, ToSet(c.list[c.queue[t]]) \cup {t}),
         InOrderOf(line, c.priority),
         NEW n, n = [c EXCEPT !.list = [c.list EXCEPT ![c.queue[t]] = line]]
  PROVE  /\ Sound(n, off \ {t}) /\ Moved(c, n) /\ n.hint = c.hint
         /\ n.queue = c.queue
<1> DEFINE q0 == c.queue[t]
<1>0. /\ c \in Kernel /\ q0 \in Queue /\ q0 \in SleepQueues
      /\ c.list \in [Queue -> Seq(Thread)]
      /\ c.bits \subseteq Priority /\ c.list[q0] \in Seq(Thread)
  BY QueueNames DEF Kernel, Sound
<1>1. /\ n.list = [c.list EXCEPT ![q0] = line]
      /\ n.queue = c.queue /\ n.bits = c.bits /\ n.hint = c.hint
  BY <1>0 DEF Kernel
<1>2. Moved(c, n)
  <2>1. /\ n.state = c.state /\ n.detached = c.detached /\ n.base = c.base
        /\ n.priority = c.priority /\ n.suspend = c.suspend /\ n.mutex = c.mutex
        /\ n.active = c.active /\ n.held = c.held /\ n.owner = c.owner
        /\ n.lock = c.lock /\ n.disabled = c.disabled /\ n.current = c.current
    BY <1>0 DEF Kernel
  <2> QED
    BY <1>1, <2>1 DEF Moved
<1>4. /\ line \in Seq(Thread) /\ IsInjective(line)
      /\ ToSet(line) = ToSet(c.list[q0]) \cup {t}
  BY DEF IsLine
<1>5. n \in Kernel
  <2>1. n.list \in [Queue -> Seq(Thread)]
    BY <1>0, <1>1, <1>4
  <2>2. n = [c EXCEPT !.list = n.list]
    BY <1>0, <1>1
  <2> QED
    BY <1>0, <2>1, <2>2 DEF Kernel
<1>6. Placed(n, off \ {t})
  <2> SUFFICES ASSUME NEW u \in Thread, NEW q \in Queue
               PROVE  u \in ToSet(n.list[q]) <=> u \notin off \ {t} /\ OnQueue(n, u, q)
    BY DEF Placed
  <2>1. OnQueue(n, u, q) <=> OnQueue(c, u, q)
    BY <1>1, <1>2 DEF OnQueue, Moved, Ready
  <2>2. u \in ToSet(c.list[q]) <=> u \notin off /\ OnQueue(c, u, q)
    BY DEF Sound, Placed
  <2>3. OnQueue(c, t, q) <=> q = q0
    BY DEF OnQueue, Ready
  <2>4. n.list[q] = IF q = q0 THEN line ELSE c.list[q]
    BY <1>0, <1>1
  <2> QED
    BY <1>4, <2>1, <2>2, <2>3, <2>4
<1>7. Fit(n, off \ {t})
  <2>1. ThreadFits(n, t)
    BY <1>0, <1>1, <1>2 DEF Moved, ThreadFits, Ready
  <2>2. ASSUME NEW u \in Thread \ off  PROVE ThreadFits(n, u)
    BY <1>1, <1>2 DEF Sound, Fit, ThreadFits, Moved, Ready
  <2> QED
    BY <2>1, <2>2 DEF Fit
<1>8. BitsRight(n)
  BY <1>0, <1>1, QueueNames DEF Sound, BitsRight
<1>9. NoneTwice(n)
  BY <1>0, <1>1, <1>4 DEF Sound, NoneTwice
<1>10. Ordered(n)
  BY <1>0, <1>1, <1>2 DEF Sound, Ordered, Moved
<1> QED
  BY <1>0, <1>1, <1>2, <1>5, <1>6, <1>7, <1>8, <1>9, <1>10 DEF Sound

\* Link keeps the wait queue in priority order.
LEMMA LinkPuts ==
  ASSUME NEW c, NEW off, Sound(c, off), NEW t \in Thread, t \in off,
         c.state[t] = "SLEEPING", c.queue[t] \in SleepQueues,
         c.suspend[t] = 0 => c.priority[t] \in Priority,
         NEW n, n = Link(c, t)
  PROVE  /\ Sound(n, off \ {t}) /\ Moved(c, n) /\ n.hint = c.hint
         /\ n.queue = c.queue
<1> DEFINE q0 == c.queue[t]
           line == c.list[q0]
           lower == {i \in DOMAIN line : c.priority[line[i]] > c.priority[t]}
           place == Min(lower \cup {Len(line) + 1})
           new == InsertAt(line, place, t)
<1>0. /\ c \in Kernel /\ q0 \in Queue /\ line \in Seq(Thread)
      /\ c.list \in [Queue -> Seq(Thread)]
      /\ c.priority \in [Thread -> Priority \cup {Suspended}]
  BY QueueNames DEF Kernel, Sound
<1>1. n = [c EXCEPT !.list = [c.list EXCEPT ![q0] = new]]
  BY <1>0 DEF Link, Kernel
<1>2. t \notin ToSet(line) /\ IsInjective(line) /\ InOrderOf(line, c.priority)
  BY <1>0 DEF Sound, Placed, NoneTwice, Ordered
<1> HIDE DEF line
<1>3. Len(line) \in Nat /\ DOMAIN line = 1..Len(line) /\ \A i \in 1..Len(line) : line[i] \in Thread
  BY <1>0
<1>4. \A u \in Thread : c.priority[u] \in Nat
  BY <1>0, Priorities
<1>5. /\ place \in lower \cup {Len(line) + 1}
      /\ \A i \in lower \cup {Len(line) + 1} : place <= i
  <2>1. lower \cup {Len(line) + 1} \subseteq Nat
    BY <1>3
  <2> QED
    BY <2>1, MinIsLeast
<1> HIDE DEF place
<1>6. place \in 1..(Len(line) + 1)
  BY <1>3, <1>5
<1>7. \A i \in 1..Len(line) : i < place => c.priority[line[i]] <= c.priority[t]
  <2> SUFFICES ASSUME NEW i \in 1..Len(line), i < place
               PROVE  c.priority[line[i]] <= c.priority[t]
    OBVIOUS
  <2>1. i \notin lower
    BY <1>3, <1>5, <1>6
  <2> QED
    BY <1>3, <1>4, <2>1
<1>8. \A i \in 1..Len(line) : i >= place => c.priority[t] <= c.priority[line[i]]
  <2> SUFFICES ASSUME NEW i \in 1..Len(line), i >= place
               PROVE  c.priority[t] <= c.priority[line[i]]
    OBVIOUS
  <2>1. place \in lower
    BY <1>3, <1>5, <1>6
  <2>2. c.priority[line[place]] > c.priority[t] /\ place \in 1..Len(line)
    BY <1>3, <2>1
  <2>3. c.priority[line[place]] <= c.priority[line[i]]
    <3>1. CASE place = i
      BY <1>3, <1>4, <3>1
    <3>2. CASE place # i
      <4>1. place < i
        BY <1>3, <1>6, <3>2
      <4> QED
        BY <1>2, <1>3, <2>2, <4>1 DEF InOrderOf
    <3> QED
      BY <3>1, <3>2
  <2> QED
    BY <1>3, <1>4, <2>2, <2>3
<1>9. IsLine(new, Thread, ToSet(line) \cup {t}) /\ InsertOrder(new, line, place, t)
  BY <1>0, <1>2, <1>6, InsertLine
<1> HIDE DEF new
<1>10. InOrderOf(new, c.priority)
  BY <1>2, <1>7, <1>8, <1>9 DEF InsertOrder
<1>11. IsLine(new, Thread, ToSet(c.list[c.queue[t]]) \cup {t})
  BY <1>9 DEF line
<1> QED
  BY <1>1, <1>10, <1>11, PutsSleeper

\* A suspended sleeper goes to the end of its queue.
LinkLast(c, t) == [c EXCEPT !.list[c.queue[t]] = Append(@, t)]

LEMMA LastPuts ==
  ASSUME NEW c, NEW off, Sound(c, off), NEW t \in Thread, t \in off,
         c.state[t] = "SLEEPING", c.queue[t] \in SleepQueues,
         c.suspend[t] # 0, c.priority[t] = Suspended,
         NEW n, n = LinkLast(c, t)
  PROVE  /\ Sound(n, off \ {t}) /\ Moved(c, n) /\ n.hint = c.hint
         /\ n.queue = c.queue
<1> DEFINE q0 == c.queue[t]
           line == c.list[q0]
           new == Append(line, t)
<1>0. /\ c \in Kernel /\ q0 \in Queue /\ line \in Seq(Thread)
      /\ c.list \in [Queue -> Seq(Thread)]
      /\ c.priority \in [Thread -> Priority \cup {Suspended}]
  BY QueueNames DEF Kernel, Sound
<1>1. n = [c EXCEPT !.list = [c.list EXCEPT ![q0] = new]]
  BY <1>0 DEF LinkLast, Kernel
<1>2. t \notin ToSet(line) /\ IsInjective(line) /\ InOrderOf(line, c.priority)
  BY <1>0 DEF Sound, Placed, NoneTwice, Ordered
<1>3. \A u \in ToSet(line) : c.priority[u] <= c.priority[t]
  <2>1. \A u \in ToSet(line) : u \in Thread
    BY <1>0, LineLen
  <2> QED
    BY <1>0, <2>1, Priorities
<1> HIDE DEF line
<1>9. IsLine(new, Thread, ToSet(line) \cup {t}) /\ AppendOrder(new, line, t)
  BY <1>0, <1>2, AppendLine
<1> HIDE DEF new
<1>10. InOrderOf(new, c.priority)
  BY <1>2, <1>3, <1>9 DEF AppendOrder
<1>11. IsLine(new, Thread, ToSet(c.list[c.queue[t]]) \cup {t})
  BY <1>9 DEF line
<1>13. c.suspend[t] = 0 => c.priority[t] \in Priority
  OBVIOUS
<1> QED
  BY <1>1, <1>10, <1>11, <1>13, PutsSleeper

\* The fields of a thread that is on no queue may change.
Elsewhere(c, n, t) ==
  /\ n.list = c.list /\ n.bits = c.bits
  /\ \A u \in Thread \ {t} :
       /\ n.state[u] = c.state[u] /\ n.suspend[u] = c.suspend[u]
       /\ n.priority[u] = c.priority[u] /\ n.queue[u] = c.queue[u]

LEMMA OffChanges ==
  ASSUME NEW c, NEW off, Sound(c, off), NEW t \in off, NEW n, n \in Kernel,
         Elsewhere(c, n, t)
  PROVE  Sound(n, off)
<1>0. c \in Kernel /\ c.list \in [Queue -> Seq(Thread)]
  BY DEF Sound, Kernel
<1>1. Placed(n, off)
  <2> SUFFICES ASSUME NEW u \in Thread, NEW q \in Queue
               PROVE  u \in ToSet(n.list[q]) <=> u \notin off /\ OnQueue(n, u, q)
    BY DEF Placed
  <2>1. u # t => (OnQueue(n, u, q) <=> OnQueue(c, u, q))
    BY DEF Elsewhere, OnQueue, Ready
  <2> QED
    BY <2>1 DEF Sound, Placed, Elsewhere
<1>2. Fit(n, off)
  BY DEF Sound, Fit, Elsewhere, ThreadFits, Ready
<1>3. BitsRight(n) /\ NoneTwice(n)
  BY DEF Sound, BitsRight, NoneTwice, Elsewhere
<1>4. Ordered(n)
  <2> SUFFICES ASSUME NEW q \in SleepQueues, NEW i \in DOMAIN c.list[q], NEW j \in DOMAIN c.list[q], i < j
               PROVE  n.priority[c.list[q][i]] <= n.priority[c.list[q][j]]
    BY DEF Ordered, InOrderOf, Elsewhere
  <2>1. q \in Queue /\ c.list[q] \in Seq(Thread)
    BY <1>0, QueueNames
  <2>2. \A u \in ToSet(c.list[q]) : u \in Thread /\ u # t
    BY <2>1, LineLen DEF Sound, Placed
  <2>3. c.list[q][i] \in ToSet(c.list[q]) /\ c.list[q][j] \in ToSet(c.list[q])
    BY DEF ToSet
  <2>4. c.priority[c.list[q][i]] <= c.priority[c.list[q][j]]
    BY DEF Sound, Ordered, InOrderOf
  <2> QED
    BY <2>2, <2>3, <2>4 DEF Elsewhere
<1> QED
  BY <1>1, <1>2, <1>3, <1>4 DEF Sound

\* A thread that belongs on no queue is on none.
Unplaced(c, t) == ~Ready(c, t) /\ c.state[t] # "SLEEPING"

LEMMA OnNone ==
  ASSUME NEW c, NEW off, NEW t \in Thread, Unplaced(c, t)
  PROVE  /\ Sound(c, off) => Sound(c, off \cup {t})
         /\ Sound(c, off) /\ ThreadFits(c, t) => Sound(c, off \ {t})
<1>1. \A q \in Queue : ~OnQueue(c, t, q)
  BY DEF Unplaced, OnQueue
<1>2. ASSUME Sound(c, off)
      PROVE  Placed(c, off \cup {t}) /\ Fit(c, off \cup {t}) /\ Placed(c, off \ {t})
  BY <1>1, <1>2 DEF Sound, Placed, Fit
<1>3. ASSUME Sound(c, off), ThreadFits(c, t)  PROVE Fit(c, off \ {t})
  BY <1>3 DEF Sound, Fit
<1> QED
  BY <1>2, <1>3 DEF Sound

-----------------------------------------------------------------------------
(* The scheduler *)

\* What a choice of the next thread leaves alone: n follows c.
Lives(c, n, t) ==
  /\ n.state[t] \in Alive <=> c.state[t] \in Alive
  /\ c.state[t] \notin Alive => n.state[t] = c.state[t]
  /\ n.state[t] = "SLEEPING" => c.state[t] = "SLEEPING" /\ n.queue[t] = c.queue[t]
  /\ c.suspend[t] # 0 => n.priority[t] = c.priority[t]

Kept(c, n) ==
  /\ n.detached = c.detached /\ n.base = c.base /\ n.mutex = c.mutex
  /\ n.active = c.active /\ n.held = c.held /\ n.owner = c.owner
  /\ n.lock = c.lock /\ n.disabled = c.disabled /\ n.suspend = c.suspend
  /\ \A t \in Thread : Lives(c, n, t)

\* The sleepers and the priorities are the same.
Stays(c, n) ==
  /\ n.priority = c.priority
  /\ \A t \in Thread : n.state[t] = "SLEEPING" <=> c.state[t] = "SLEEPING"

LEMMA KeptTwice ==
  ASSUME NEW c, NEW m, NEW n, Kept(c, m), Kept(m, n)
  PROVE  Kept(c, n)
BY DEF Kept, Lives

LEMMA KeptNothing ==
  ASSUME NEW c
  PROVE  Kept(c, c) /\ Stays(c, c)
BY DEF Kept, Lives, Stays

LEMMA MovedKept ==
  ASSUME NEW c, NEW n, Moved(c, n)
  PROVE  Kept(c, n)
BY DEF Moved, Kept, Lives

LEMMA StaysTwice ==
  ASSUME NEW c, NEW m, NEW n, Stays(c, m), Stays(m, n)
  PROVE  Stays(c, n)
BY DEF Stays

LEMMA MovedStays ==
  ASSUME NEW c, NEW n, Moved(c, n)
  PROVE  Stays(c, n)
BY DEF Moved, Stays

\* The best thread runs; nobody is ready if none does.
Settled(c) ==
  IF c.current = None THEN c.bits = {}
  ELSE c.state[c.current] = "RUNNING"
       /\ \A t \in Thread : Ready(c, t) => c.priority[c.current] <= c.priority[t]

\* A choice of the next thread changes these fields.
Changed(c, l, b, q, s, h, u) ==
  [c EXCEPT !.list = l, !.bits = b, !.queue = q, !.state = s, !.hint = h,
            !.current = u]

LEMMA KernelChange ==
  ASSUME NEW c \in Kernel,
         NEW s \in [Thread -> Alive \cup Dead \cup {"none"}],
         NEW l \in [Queue -> Seq(Thread)], NEW b \in SUBSET Priority,
         NEW q \in [Thread -> Queue \cup {None}],
         NEW h \in BOOLEAN, NEW u \in Thread \cup {None}
  PROVE  Changed(c, l, b, q, s, h, u) \in Kernel
BY DEF Kernel, Changed

\* The first of the best run queue gets the processor.
LEMMA DispatchRuns ==
  ASSUME NEW c, Sound(c, {}), NEW n, n = Dispatch(c)
  PROVE  Sound(n, {}) /\ Kept(c, n) /\ Stays(c, n) /\ Settled(n)
<1>0. c \in Kernel /\ c.bits \subseteq Priority /\ None \notin Thread
  BY ThreadAssumption DEF Sound, Kernel
<1>1. CASE c.bits = {}
  <2>1. n = [c EXCEPT !.current = None]
    BY <1>1 DEF Dispatch
  <2>2. n \in Kernel
    BY <1>0, <2>1 DEF Kernel
  <2>3. /\ n.state = c.state /\ n.detached = c.detached /\ n.base = c.base
        /\ n.priority = c.priority /\ n.suspend = c.suspend /\ n.mutex = c.mutex
        /\ n.active = c.active /\ n.held = c.held /\ n.owner = c.owner
        /\ n.lock = c.lock /\ n.disabled = c.disabled /\ n.queue = c.queue
        /\ n.list = c.list /\ n.bits = c.bits /\ n.current = None
    BY <1>0, <2>1 DEF Kernel
  <2>4. Kept(c, n) /\ Stays(c, n) /\ Settled(n)
    BY <1>1, <2>3 DEF Kept, Lives, Settled, Stays
  <2>5. Sound(n, {})
    BY <2>2, <2>3 DEF Sound, Placed, OnQueue, Ready, Fit, ThreadFits, BitsRight, NoneTwice, Ordered
  <2> QED
    BY <2>4, <2>5
<1>2. CASE c.bits # {}
  <2> DEFINE p == HighestReady(c)
             q0 == RunQ(p)
             t == Head(c.list[q0])
             rest == Tail(c.list[q0])
             m == TakeReady(c, t, rest)
  <2>1. p \in c.bits /\ p \in Priority /\ \A r \in c.bits : p <= r
    <3>1. c.bits \cup {Suspended} \subseteq Nat
      BY <1>0, Priorities
    <3>2. p \in c.bits \cup {Suspended} /\ \A r \in c.bits \cup {Suspended} : p <= r
      BY <3>1, MinIsLeast DEF HighestReady
    <3> HIDE DEF p
    <3>3. \A r \in c.bits : r < Suspended /\ r \in Nat
      BY <1>0, Priorities
    <3>4. PICK r \in c.bits : TRUE
      BY <1>2
    <3>5. p <= r /\ r < Suspended /\ r \in Nat /\ p \in Nat /\ Suspended \in Nat
      BY <1>0, <3>2, <3>3, Priorities
    <3>6. p # Suspended
      BY <3>5
    <3> QED
      BY <1>0, <3>2, <3>6
  <2> HIDE DEF p
  <2>2. /\ q0 \in Queue /\ q0 \in RunQueues /\ c.list[q0] \in Seq(Thread)
        /\ c.list[q0] # <<>> /\ IsInjective(c.list[q0])
    BY <1>0, <2>1, QueueNames DEF Sound, BitsRight, NoneTwice, Kernel
  <2>3. /\ t \in Thread /\ t \in ToSet(c.list[q0])
        /\ IsLine(rest, Thread, ToSet(c.list[q0]) \ {t})
    BY <2>2, TailLine
  <2> HIDE DEF t, rest
  <2>4. Ready(c, t) /\ c.priority[t] = p
    <3>1. OnQueue(c, t, q0) /\ ThreadFits(c, t)
      BY <2>2, <2>3 DEF Sound, Placed, Fit
    <3>2. c.state[t] # "SLEEPING"
      BY <2>2, <3>1, QueueNames DEF OnQueue, ThreadFits
    <3>3. Ready(c, t) /\ RunQ(p) = RunQ(c.priority[t])
      BY <3>1, <3>2 DEF OnQueue
    <3>4. c.priority[t] \in Priority
      BY <3>1, <3>3 DEF ThreadFits, Ready, Alive
    <3> QED
      BY <2>1, <3>3, <3>4, QueueNames
  <2>m. m = TakeReady(c, t, rest)
    OBVIOUS
  <2> HIDE DEF m
  <2>5. Sound(m, {t}) /\ Moved(c, m)
    <3>1. IsLine(rest, Thread, ToSet(c.list[RunQ(c.priority[t])]) \ {t})
      BY <2>3, <2>4
    <3>2. Sound(m, {} \cup {t}) /\ Moved(c, m)
      BY <2>3, <2>4, <2>m, <3>1, TakesReady
    <3>3. {} \cup {t} = {t}
      OBVIOUS
    <3> QED
      BY <3>2, <3>3
  <2>6. n = [c EXCEPT !.list[q0] = rest,
                      !.bits = IF rest = <<>> THEN @ \ {p} ELSE @,
                      !.queue[t] = None, !.state[t] = "RUNNING",
                      !.hint = FALSE, !.current = t]
    BY <1>2 DEF Dispatch, p, t, rest
  <2>7. m \in Kernel
    BY <2>5 DEF Sound
  <2>b. /\ m.list = [c.list EXCEPT ![q0] = rest]
        /\ m.bits = IF rest = <<>> THEN c.bits \ {p} ELSE c.bits
        /\ m.queue = [c.queue EXCEPT ![t] = None]
    BY <1>0, <2>4, <2>m DEF TakeReady, Kernel
  <2>c. /\ n.list = [c.list EXCEPT ![q0] = rest]
        /\ n.bits = IF rest = <<>> THEN c.bits \ {p} ELSE c.bits
        /\ n.queue = [c.queue EXCEPT ![t] = None]
        /\ n.state = [c.state EXCEPT ![t] = "RUNNING"]
        /\ n.hint = FALSE /\ n.current = t
    BY <1>0, <2>6 DEF Kernel
  <2>d. /\ n.detached = c.detached /\ n.base = c.base
        /\ n.priority = c.priority /\ n.suspend = c.suspend /\ n.mutex = c.mutex
        /\ n.active = c.active /\ n.held = c.held /\ n.owner = c.owner
        /\ n.lock = c.lock /\ n.disabled = c.disabled
    BY <1>0, <2>6 DEF Kernel
  <2>8. /\ n.state = [m.state EXCEPT ![t] = "RUNNING"] /\ n.current = t
        /\ n.detached = m.detached /\ n.base = m.base
        /\ n.priority = m.priority /\ n.suspend = m.suspend /\ n.mutex = m.mutex
        /\ n.active = m.active /\ n.held = m.held /\ n.owner = m.owner
        /\ n.lock = m.lock /\ n.disabled = m.disabled /\ n.queue = m.queue
        /\ n.list = m.list /\ n.bits = m.bits
    BY <2>5, <2>b, <2>c, <2>d DEF Moved
  <2>9. n \in Kernel
    <3>1. n.state \in [Thread -> Alive \cup Dead \cup {"none"}]
      BY <2>3, <2>7, <2>8 DEF Kernel, Alive
    <3>2. n.list \in [Queue -> Seq(Thread)] /\ n.bits \subseteq Priority
          /\ n.queue \in [Thread -> Queue \cup {None}]
      BY <2>7, <2>8 DEF Kernel
    <3>3. n = Changed(c, n.list, n.bits, n.queue, n.state, FALSE, t)
      BY <1>0, <2>6, <2>c DEF Kernel, Changed
    <3>4. FALSE \in BOOLEAN /\ t \in Thread \cup {None} /\ n.bits \in SUBSET Priority
      BY <2>3, <3>2
    <3> DEFINE L == n.list
               B == n.bits
               Q == n.queue
               S == n.state
    <3>5. L \in [Queue -> Seq(Thread)] /\ B \in SUBSET Priority
          /\ Q \in [Thread -> Queue \cup {None}]
          /\ S \in [Thread -> Alive \cup Dead \cup {"none"}]
      BY <3>1, <3>2
    <3>6. n = Changed(c, L, B, Q, S, FALSE, t)
      BY <3>3
    <3> HIDE DEF L, B, Q, S, q0
    <3>7. Changed(c, L, B, Q, S, FALSE, t) \in Kernel
      BY <1>0, <3>4, <3>5, KernelChange
    <3> QED
      BY <3>6, <3>7
  <2>a. m.state \in [Thread -> Alive \cup Dead \cup {"none"}]
    BY <2>7 DEF Kernel
  <2>10. Sound(n, {t})
    <3>1. Elsewhere(m, n, t)
      BY <2>8, <2>a DEF Elsewhere
    <3> QED
      BY <2>5, <2>9, <3>1, OffChanges
  <2>11. n.state[t] = "RUNNING"
    BY <2>3, <2>8, <2>a
  <2>12. n.suspend[t] = 0 /\ n.priority[t] = p
    BY <2>4, <2>5, <2>8 DEF Ready, Moved
  <2>13. Sound(n, {})
    <3>1. Unplaced(n, t) /\ ThreadFits(n, t)
      BY <2>1, <2>11, <2>12 DEF Unplaced, ThreadFits, Ready
    <3>2. Sound(n, {t} \ {t})
      BY <2>3, <2>10, <3>1, OnNone
    <3>3. {t} \ {t} = {}
      OBVIOUS
    <3> QED
      BY <3>2, <3>3
  <2>14. Kept(c, n)
    <3>1. \A u \in Thread : Lives(c, n, u)
      BY <2>4, <2>5, <2>8, <2>a DEF Lives, Moved, Ready, Alive
    <3> QED
      BY <2>5, <2>8, <3>1 DEF Moved, Kept
  <2>16. Stays(c, n)
    BY <2>4, <2>5, <2>8, <2>a DEF Stays, Moved, Ready
  <2>15. Settled(n)
    <3> SUFFICES ASSUME NEW u \in Thread, Ready(n, u)
                 PROVE  p <= n.priority[u]
      BY <1>0, <2>3, <2>8, <2>11, <2>12 DEF Settled
    <3>1. Ready(c, u) /\ n.priority[u] = c.priority[u]
      BY <2>5, <2>8, <2>11, <2>a DEF Ready, Moved
    <3>2. c.priority[u] \in Priority
      BY <3>1 DEF Sound, Fit, ThreadFits, Ready, Alive
    <3>3. RunQ(c.priority[u]) \in Queue /\ OnQueue(c, u, RunQ(c.priority[u]))
      BY <3>1, <3>2, QueueNames DEF OnQueue
    <3>4. c.list[RunQ(c.priority[u])] # <<>>
      BY <3>3, LineLen DEF Sound, Placed, Kernel
    <3>5. c.priority[u] \in c.bits
      BY <3>2, <3>4 DEF Sound, BitsRight
    <3> QED
      BY <2>1, <3>1, <3>5
  <2> QED
    BY <2>13, <2>14, <2>15, <2>16
<1> QED
  BY <1>1, <1>2

\* No ready thread is better than the best run queue.
LEMMA HighestIsBest ==
  ASSUME NEW c, Sound(c, {}), NEW u \in Thread, Ready(c, u)
  PROVE  /\ c.priority[u] \in Priority /\ c.priority[u] \in c.bits
         /\ HighestReady(c) \in Nat /\ HighestReady(c) <= c.priority[u]
<1>0. c \in Kernel /\ c.bits \subseteq Priority
  BY DEF Sound, Kernel
<1>1. c.priority[u] \in Priority
  BY DEF Sound, Fit, ThreadFits, Ready, Alive
<1>2. RunQ(c.priority[u]) \in Queue /\ OnQueue(c, u, RunQ(c.priority[u]))
  BY <1>1, QueueNames DEF OnQueue
<1>3. c.list[RunQ(c.priority[u])] # <<>>
  BY <1>2, LineLen DEF Sound, Placed, Kernel
<1>4. c.priority[u] \in c.bits
  BY <1>1, <1>3 DEF Sound, BitsRight
<1>5. c.bits \cup {Suspended} \subseteq Nat
  BY <1>0, Priorities
<1> QED
  BY <1>1, <1>4, <1>5, MinIsLeast DEF HighestReady

\* SelectThread, unless it may not choose, leaves the best thread running.
LEMMA SelectSettles ==
  ASSUME NEW c, Sound(c, {}), NEW b \in BOOLEAN, NEW n, n = SelectThread(c, b)
  PROVE  /\ Sound(n, {}) /\ Kept(c, n) /\ Stays(c, n)
         /\ IF c.disabled \/ c.current = None THEN n = c ELSE Settled(n)
<1> DEFINE t == c.current
<1>0. c \in Kernel
  BY DEF Sound
<1>1. CASE c.disabled \/ t = None
  BY <1>1, KeptNothing DEF SelectThread
<1>2. CASE ~(c.disabled \/ t = None) /\ c.state[t] # "RUNNING"
  <2>1. n = Dispatch(c)
    BY <1>2 DEF SelectThread
  <2> QED
    BY <1>2, <2>1, DispatchRuns
<1>3. CASE /\ ~(c.disabled \/ t = None) /\ c.state[t] = "RUNNING"
           /\ ~b /\ c.priority[t] <= HighestReady(c)
  <2>1. n = c
    BY <1>3 DEF SelectThread
  <2>2. t \in Thread
    BY <1>0, <1>3 DEF Kernel
  <2>3. c.priority[t] \in Nat
    BY <1>0, <2>2, Priorities DEF Kernel
  <2>4. ASSUME NEW u \in Thread, Ready(c, u)  PROVE c.priority[t] <= c.priority[u]
    <3>1. /\ c.priority[u] \in Nat
          /\ HighestReady(c) \in Nat /\ HighestReady(c) <= c.priority[u]
      BY <2>4, HighestIsBest, Priorities
    <3> QED
      BY <1>3, <2>3, <3>1
  <2>5. Settled(n)
    BY <1>3, <2>1, <2>4 DEF Settled
  <2> QED
    BY <1>3, <2>1, <2>5, KeptNothing
<1>4. CASE /\ ~(c.disabled \/ t = None) /\ c.state[t] = "RUNNING"
           /\ ~(~b /\ c.priority[t] <= HighestReady(c))
  <2> DEFINE d == [c EXCEPT !.state[t] = "READY"]
             m == SetRun(d, t)
  <2>1. n = Dispatch(m)
    BY <1>4 DEF SelectThread
  <2>2. t \in Thread /\ c.suspend[t] = 0 /\ c.priority[t] \in Priority
    <3>1. t \in Thread
      BY <1>0, <1>4 DEF Kernel
    <3> QED
      BY <1>4, <3>1 DEF Sound, Fit, ThreadFits, Alive
  <2> HIDE DEF t
  <2>a. c.state \in [Thread -> Alive \cup Dead \cup {"none"}]
    BY <1>0 DEF Kernel
  <2>3. /\ d.state = [c.state EXCEPT ![t] = "READY"]
        /\ d.detached = c.detached /\ d.base = c.base
        /\ d.priority = c.priority /\ d.suspend = c.suspend /\ d.mutex = c.mutex
        /\ d.active = c.active /\ d.held = c.held /\ d.owner = c.owner
        /\ d.lock = c.lock /\ d.disabled = c.disabled /\ d.current = c.current
        /\ d.list = c.list /\ d.bits = c.bits /\ d.queue = c.queue
    BY <1>0 DEF Kernel
  <2>4. d \in Kernel
    <3>1. [c.state EXCEPT ![t] = "READY"] \in [Thread -> Alive \cup Dead \cup {"none"}]
      BY <2>2, <2>a DEF Alive
    <3> QED
      BY <1>0, <3>1 DEF Kernel
  <2> HIDE DEF d
  <2>5. Sound(d, {t})
    <3>1. Sound(c, {} \cup {t})
      BY <1>4, <2>2, OnNone DEF Unplaced, Ready, t
    <3>2. Elsewhere(c, d, t) /\ {} \cup {t} = {t} /\ t \in {t}
      BY <2>3, <2>a DEF Elsewhere
    <3>3. Sound(c, {t})
      BY <3>1, <3>2
    <3> QED
      BY <2>4, <3>2, <3>3, OffChanges
  <2>6. Ready(d, t) /\ d.priority[t] \in Priority
    BY <2>2, <2>3, <2>a DEF Ready
  <2>7. Sound(m, {}) /\ Moved(d, m)
    <3>1. m = SetRun(d, t) /\ t \in {t} /\ {t} \ {t} = {}
      OBVIOUS
    <3> HIDE DEF m
    <3>2. Sound(m, {t} \ {t}) /\ Moved(d, m)
      BY <2>2, <2>5, <2>6, <3>1, SetRunPuts
    <3> QED
      BY <3>1, <3>2
  <2> HIDE DEF m
  <2>8. Sound(n, {}) /\ Kept(m, n) /\ Stays(m, n) /\ Settled(n)
    BY <2>1, <2>7, DispatchRuns
  <2>9. Kept(c, d) /\ Stays(c, d)
    <3>1. \A u \in Thread : Lives(c, d, u)
      BY <1>4, <2>2, <2>3, <2>a DEF Lives, Alive, t
    <3>2. Stays(c, d)
      BY <1>4, <2>2, <2>3, <2>a DEF Stays, t
    <3> QED
      BY <2>3, <3>1, <3>2 DEF Kept
  <2>10. Kept(d, m) /\ Stays(d, m)
    BY <2>7, MovedKept, MovedStays
  <2>11. Kept(c, n)
    BY <2>8, <2>9, <2>10, KeptTwice
  <2>12. Stays(c, n)
    BY <2>8, <2>9, <2>10, StaysTwice
  <2> QED
    BY <1>4, <2>8, <2>11, <2>12 DEF t
<1> QED
  BY <1>1, <1>2, <1>3, <1>4

\* Unless the hint is up, the thread that runs is the best.
Fair(c) ==
  c.hint \/ c.current = None \/ c.state[c.current] # "RUNNING" \/ Settled(c)

LEMMA RescheduleSettles ==
  ASSUME NEW c, Sound(c, {}), NEW n, n = Reschedule(c)
  PROVE  /\ Sound(n, {}) /\ Kept(c, n) /\ Stays(c, n)
         /\ IF ~c.hint \/ c.disabled \/ c.current = None THEN n = c ELSE Settled(n)
<1>1. CASE c.hint
  <2>1. n = SelectThread(c, FALSE)
    BY <1>1 DEF Reschedule
  <2> QED
    BY <1>1, <2>1, SelectSettles
<1>2. CASE ~c.hint
  BY <1>2, KeptNothing DEF Reschedule
<1> QED
  BY <1>1, <1>2

\* n follows c without a choice of the next thread: a thread becomes ready, or
\* changes its priority while it is ready or running, only with the hint up.
Calm(c, n) ==
  /\ n.current = c.current
  /\ c.hint => n.hint
  /\ \A u \in Thread : u = c.current => n.state[u] = c.state[u]
  /\ n.hint \/ \A u \in Thread :
       /\ Ready(n, u) => Ready(c, u) /\ n.priority[u] = c.priority[u]
       /\ u = c.current /\ c.state[u] = "RUNNING" => n.priority[u] = c.priority[u]

LEMMA CalmTwice ==
  ASSUME NEW c, NEW m, NEW n, Calm(c, m), Calm(m, n)
  PROVE  Calm(c, n)
BY DEF Calm

LEMMA MovedCalm ==
  ASSUME NEW c, NEW n, Moved(c, n)
  PROVE  Calm(c, n)
BY DEF Moved, Calm, Ready

LEMMA CalmFair ==
  ASSUME NEW c, NEW n, c \in Kernel, Calm(c, n), Fair(c)
  PROVE  Fair(n)
<1>0. c.current \in Thread \cup {None}
  BY DEF Kernel
<1> SUFFICES ASSUME ~n.hint, n.current # None, n.state[n.current] = "RUNNING"
             PROVE  Settled(n)
  BY DEF Fair
<1>1. n.current = c.current /\ c.current \in Thread /\ ~c.hint
  BY <1>0 DEF Calm
<1>2. Settled(c) /\ c.state[c.current] = "RUNNING"
  BY <1>1 DEF Fair, Calm
<1>3. ASSUME NEW u \in Thread, Ready(n, u)  PROVE n.priority[n.current] <= n.priority[u]
  BY <1>1, <1>2, <1>3 DEF Settled, Calm
<1> QED
  BY <1>3 DEF Settled

\* After the hint is obeyed the best thread runs, whoever ran before.
LEMMA FairSettles ==
  ASSUME NEW c, c.current # None, c.state[c.current] = "RUNNING", Fair(c), ~c.hint
  PROVE  Settled(c)
BY DEF Fair

-----------------------------------------------------------------------------
(* Priority inheritance *)

LEMMA EffectiveIsPriority ==
  ASSUME NEW c \in Kernel, NEW t \in Thread
  PROVE  EffectivePriority(c, t) \in Priority
<1> DEFINE M == {m \in ToSet(c.held[t]) : c.list[MutexQ(m)] # <<>>}
           P == {c.priority[Head(c.list[MutexQ(m)])] : m \in M}
           T == {c.base[t]} \cup P
<1>1. /\ c.base[t] \in Priority /\ c.held[t] \in Seq(Mutex)
      /\ c.list \in [Queue -> Seq(Thread)]
      /\ c.priority \in [Thread -> Priority \cup {Suspended}]
  BY DEF Kernel
<1>2. ASSUME NEW m \in M  PROVE c.priority[Head(c.list[MutexQ(m)])] \in Nat
  <2>1. m \in Mutex /\ c.list[MutexQ(m)] # <<>>
    BY <1>1, LineLen
  <2>2. c.list[MutexQ(m)] \in Seq(Thread)
    BY <1>1, <2>1, QueueNames
  <2>3. Head(c.list[MutexQ(m)]) \in Thread
    BY <2>1, <2>2, HeadTailProperties
  <2> QED
    BY <1>1, <2>3, Priorities
<1>3. T \subseteq Nat /\ T # {} /\ c.base[t] \in T
  BY <1>1, <1>2, Priorities
<1>4. Min(T) \in Nat /\ Min(T) <= c.base[t]
  <2> HIDE DEF T
  <2> QED
    BY <1>3, MinIsLeast
<1>5. EffectivePriority(c, t) = Min(T)
  BY DEF EffectivePriority
<1> HIDE DEF T
<1> QED
  BY <1>1, <1>4, <1>5, ThreadAssumption DEF Priority

\* A thread on no queue may be given another priority.
Price(c, t, p) == [c EXCEPT !.priority[t] = p]
OnlyPriced(c, n, t, p) ==
  /\ n.state = c.state /\ n.detached = c.detached /\ n.base = c.base
  /\ n.priority = [c.priority EXCEPT ![t] = p]
  /\ n.suspend = c.suspend /\ n.mutex = c.mutex
  /\ n.active = c.active /\ n.held = c.held /\ n.owner = c.owner
  /\ n.lock = c.lock /\ n.disabled = c.disabled /\ n.current = c.current
  /\ n.list = c.list /\ n.bits = c.bits /\ n.queue = c.queue
  /\ n.hint = c.hint

LEMMA OffPriced ==
  ASSUME NEW c, NEW off, Sound(c, off), NEW t \in Thread, t \in off,
         NEW p \in Priority \cup {Suspended},
         NEW n, n = Price(c, t, p)
  PROVE  Sound(n, off) /\ OnlyPriced(c, n, t, p)
<1>0. c \in Kernel /\ c.priority \in [Thread -> Priority \cup {Suspended}]
  BY DEF Sound, Kernel
<1>1. /\ n.state = c.state /\ n.detached = c.detached /\ n.base = c.base
      /\ n.priority = [c.priority EXCEPT ![t] = p]
      /\ n.suspend = c.suspend /\ n.mutex = c.mutex
      /\ n.active = c.active /\ n.held = c.held /\ n.owner = c.owner
      /\ n.lock = c.lock /\ n.disabled = c.disabled /\ n.current = c.current
      /\ n.list = c.list /\ n.bits = c.bits /\ n.queue = c.queue
      /\ n.hint = c.hint
  BY <1>0 DEF Kernel, Price
<1>2. n \in Kernel
  <2>1. n.priority \in [Thread -> Priority \cup {Suspended}]
    BY <1>0, <1>1
  <2>2. n = [c EXCEPT !.priority = n.priority]
    BY <1>0, <1>1 DEF Kernel, Price
  <2> QED
    BY <1>0, <2>1, <2>2 DEF Kernel
<1>3. Elsewhere(c, n, t)
  BY <1>0, <1>1 DEF Elsewhere
<1> QED
  BY <1>1, <1>2, <1>3, OffChanges DEF OnlyPriced

\* SetEffectivePriority moves the thread to its new place; the hint is up
\* unless it sleeps.
Repriced(c, n, t, p) ==
  /\ n.state = c.state /\ Kept(c, n) /\ Calm(c, n)
  /\ n.priority = IF c.state[t] \in Alive THEN [c.priority EXCEPT ![t] = p]
                  ELSE c.priority

LEMMA SetEffectiveKeeps ==
  ASSUME NEW c, NEW off, Sound(c, off), NEW t \in Thread, t \notin off,
         c.suspend[t] = 0, NEW p \in Priority,
         NEW n, n = SetEffectivePriority(c, t, p)
  PROVE  Sound(n, off) /\ Repriced(c, n, t, p)
<1>0. c \in Kernel /\ c.priority \in [Thread -> Priority \cup {Suspended}]
  BY DEF Sound, Kernel
<1> DEFINE all == off \cup {t}
<1>a. t \in all /\ all \ {t} = off
  OBVIOUS
<1>b. p \in Priority \cup {Suspended}
  OBVIOUS
<1> HIDE DEF all
<1>1. CASE c.state[t] = "READY"
  <2> DEFINE m == UnsetRun(c, t)
             d == [m EXCEPT !.priority[t] = p]
  <2>1. n = SetRun(d, t)
    BY <1>1 DEF SetEffectivePriority
  <2>2. Sound(m, all) /\ Moved(c, m)
    BY <1>1, UnsetRunTakes DEF Ready, all
  <2> HIDE DEF m
  <2>d. d = Price(m, t, p)
    BY DEF Price
  <2> HIDE DEF d
  <2>o. Sound(d, all) /\ OnlyPriced(m, d, t, p)
    BY <1>a, <1>b, <2>2, <2>d, OffPriced
  <2>3. /\ d.state = m.state /\ d.detached = m.detached /\ d.base = m.base
        /\ d.priority = [m.priority EXCEPT ![t] = p]
        /\ d.suspend = m.suspend /\ d.mutex = m.mutex
        /\ d.active = m.active /\ d.held = m.held /\ d.owner = m.owner
        /\ d.lock = m.lock /\ d.disabled = m.disabled /\ d.current = m.current
        /\ d.queue = m.queue /\ d.hint = m.hint
    BY <2>o DEF OnlyPriced
  <2>4. Ready(d, t) /\ d.priority[t] \in Priority
    BY <1>0, <1>1, <2>2, <2>3 DEF Ready, Moved
  <2>5. Sound(n, off) /\ Moved(d, n) /\ n.hint = TRUE
    <3>1. Sound(n, all \ {t}) /\ Moved(d, n) /\ n.hint = TRUE
      BY <1>a, <2>1, <2>o, <2>4, SetRunPuts
    <3> QED
      BY <1>a, <3>1
  <2>6. n.state = c.state /\ n.priority = [c.priority EXCEPT ![t] = p]
    BY <2>2, <2>3, <2>5 DEF Moved
  <2>7. Kept(c, n) /\ Calm(c, n)
    <3>1. \A u \in Thread : Lives(c, n, u)
      BY <1>0, <1>1, <2>2, <2>3, <2>5, <2>6 DEF Moved, Lives
    <3>2. Kept(c, n)
      BY <2>2, <2>3, <2>5, <3>1 DEF Kept, Moved
    <3>3. Calm(c, n)
      BY <2>2, <2>3, <2>5 DEF Calm, Moved
    <3> QED
      BY <3>2, <3>3
  <2> QED
    BY <1>1, <2>5, <2>6, <2>7 DEF Repriced, Alive
<1>2. CASE c.state[t] = "SLEEPING"
  <2> DEFINE m == Unlink(c, t)
             d == [m EXCEPT !.priority[t] = p]
  <2>1. n = Link(d, t)
    BY <1>2 DEF SetEffectivePriority
  <2>2. /\ Sound(m, all) /\ Moved(c, m) /\ m.hint = c.hint
        /\ m.queue = c.queue /\ c.queue[t] \in SleepQueues
    BY <1>2, UnlinkTakes DEF all
  <2> HIDE DEF m
  <2>d. d = Price(m, t, p)
    BY DEF Price
  <2> HIDE DEF d
  <2>o. Sound(d, all) /\ OnlyPriced(m, d, t, p)
    BY <1>a, <1>b, <2>2, <2>d, OffPriced
  <2>3. /\ d.state = m.state /\ d.detached = m.detached /\ d.base = m.base
        /\ d.priority = [m.priority EXCEPT ![t] = p]
        /\ d.suspend = m.suspend /\ d.mutex = m.mutex
        /\ d.active = m.active /\ d.held = m.held /\ d.owner = m.owner
        /\ d.lock = m.lock /\ d.disabled = m.disabled /\ d.current = m.current
        /\ d.queue = m.queue /\ d.hint = m.hint
    BY <2>o DEF OnlyPriced
  <2>4. /\ d.state[t] = "SLEEPING" /\ d.queue[t] \in SleepQueues
        /\ d.priority[t] \in Priority
    BY <1>0, <1>2, <2>2, <2>3 DEF Moved
  <2>5. Sound(n, off) /\ Moved(d, n) /\ n.hint = d.hint /\ n.queue = d.queue
    <3>1. d.suspend[t] = 0 => d.priority[t] \in Priority
      BY <2>4
    <3>2. Sound(n, all \ {t}) /\ Moved(d, n) /\ n.hint = d.hint /\ n.queue = d.queue
      BY <1>a, <2>1, <2>o, <2>4, <3>1, LinkPuts
    <3> QED
      BY <1>a, <3>2
  <2>6. n.state = c.state /\ n.priority = [c.priority EXCEPT ![t] = p]
    BY <2>2, <2>3, <2>5 DEF Moved
  <2>7. Kept(c, n) /\ Calm(c, n)
    <3>1. \A u \in Thread : Lives(c, n, u)
      BY <1>0, <1>2, <2>2, <2>3, <2>5, <2>6 DEF Lives
    <3>2. Kept(c, n)
      BY <2>2, <2>3, <2>5, <3>1 DEF Kept, Moved
    <3>3. Calm(c, n)
      <4>1. \A u \in Thread : u # t => n.priority[u] = c.priority[u]
        BY <1>0, <2>6
      <4>2. n.current = c.current /\ n.suspend = c.suspend /\ (c.hint => n.hint)
        BY <2>2, <2>3, <2>5 DEF Moved
      <4> QED
        BY <1>2, <2>6, <4>1, <4>2 DEF Calm, Ready
    <3> QED
      BY <3>2, <3>3
  <2> QED
    BY <1>2, <2>5, <2>6, <2>7 DEF Repriced, Alive
<1>3. CASE c.state[t] = "RUNNING"
  <2> DEFINE d == [c EXCEPT !.priority[t] = p]
  <2>1. n = [c EXCEPT !.hint = TRUE, !.priority[t] = p]
    BY <1>3 DEF SetEffectivePriority
  <2>2. /\ n.state = c.state /\ n.detached = c.detached /\ n.base = c.base
        /\ n.priority = [c.priority EXCEPT ![t] = p]
        /\ n.suspend = c.suspend /\ n.mutex = c.mutex
        /\ n.active = c.active /\ n.held = c.held /\ n.owner = c.owner
        /\ n.lock = c.lock /\ n.disabled = c.disabled /\ n.current = c.current
        /\ n.list = c.list /\ n.bits = c.bits /\ n.queue = c.queue
        /\ n.hint = TRUE
    BY <1>0, <2>1 DEF Kernel
  <2>3. n \in Kernel
    <3>1. n.priority \in [Thread -> Priority \cup {Suspended}]
      BY <1>0, <1>b, <2>2
    <3>2. n = [c EXCEPT !.hint = TRUE, !.priority = n.priority]
      BY <1>0, <2>1, <2>2 DEF Kernel
    <3> QED
      BY <1>0, <3>1, <3>2 DEF Kernel
  <2>4. Unplaced(c, t) /\ Unplaced(n, t)
    BY <1>3, <2>2 DEF Unplaced, Ready
  <2>5. Sound(c, all)
    BY <2>4, OnNone DEF all
  <2>6. Sound(n, all)
    <3>1. Elsewhere(c, n, t)
      BY <1>0, <2>2 DEF Elsewhere
    <3> QED
      BY <1>a, <2>3, <2>5, <3>1, OffChanges
  <2>7. ThreadFits(n, t)
    BY <1>0, <1>3, <2>2 DEF ThreadFits, Ready
  <2>8. Sound(n, off)
    BY <1>a, <2>4, <2>6, <2>7, OnNone
  <2>9. \A u \in Thread : Lives(c, n, u)
    BY <1>0, <2>2 DEF Lives
  <2>10. Kept(c, n) /\ Calm(c, n)
    BY <2>2, <2>9 DEF Kept, Calm
  <2> QED
    BY <1>3, <2>2, <2>8, <2>10 DEF Repriced, Alive
<1>4. CASE c.state[t] \notin Alive
  <2>1. n = c
    BY <1>4 DEF SetEffectivePriority, Alive
  <2> QED
    BY <1>4, <2>1, KeptNothing DEF Repriced, Calm
<1> QED
  BY <1>1, <1>2, <1>3, <1>4 DEF Alive

\* u waits for a mutex that t holds.
Waits(c, u, t) ==
  \E m \in Mutex : m \in ToSet(c.held[t]) /\ u \in ToSet(c.list[MutexQ(m)])
Waiting(c) == {x \in Thread \X Thread : Waits(c, x[1], x[2])}

\* p is the best of t's base priority and those of its waiters under W.
IsBest(c, W, t, p) ==
  /\ p <= c.base[t] /\ \A u \in Thread : <<u, t>> \in W => p <= c.priority[u]
  /\ p = c.base[t] \/ \E u \in Thread : <<u, t>> \in W /\ p = c.priority[u]

LEMMA BestIsOne ==
  ASSUME NEW c \in Kernel, NEW W, NEW t \in Thread, NEW p \in Nat, NEW r \in Nat,
         IsBest(c, W, t, p), IsBest(c, W, t, r)
  PROVE  p = r
<1>1. p <= r
  BY DEF IsBest
<1>2. r <= p
  BY DEF IsBest
<1> QED
  BY <1>1, <1>2

\* EffectivePriority looks at the heads of the wait queues only, which are the
\* best of their queues.
LEMMA EffectiveIsBest ==
  ASSUME NEW c, NEW off, Sound(c, off), NEW t \in Thread
  PROVE  IsBest(c, Waiting(c), t, EffectivePriority(c, t))
<1> DEFINE M == {m \in ToSet(c.held[t]) : c.list[MutexQ(m)] # <<>>}
           P == {c.priority[Head(c.list[MutexQ(m)])] : m \in M}
           T == {c.base[t]} \cup P
           e == EffectivePriority(c, t)
<1>0. c \in Kernel
  BY DEF Sound
<1>1. /\ c.base[t] \in Priority /\ c.held[t] \in Seq(Mutex)
      /\ c.list \in [Queue -> Seq(Thread)]
      /\ c.priority \in [Thread -> Priority \cup {Suspended}]
  BY <1>0 DEF Kernel
<1>2. ASSUME NEW m \in M
      PROVE  /\ m \in Mutex /\ c.list[MutexQ(m)] \in Seq(Thread)
             /\ c.list[MutexQ(m)] # <<>> /\ MutexQ(m) \in SleepQueues
             /\ Head(c.list[MutexQ(m)]) \in Thread
             /\ Head(c.list[MutexQ(m)]) \in ToSet(c.list[MutexQ(m)])
             /\ c.priority[Head(c.list[MutexQ(m)])] \in Nat
  <2>1. m \in Mutex /\ c.list[MutexQ(m)] # <<>>
    BY <1>1, LineLen
  <2>2. c.list[MutexQ(m)] \in Seq(Thread) /\ MutexQ(m) \in SleepQueues
    BY <1>1, <2>1, QueueNames
  <2>3. IsInjective(c.list[MutexQ(m)])
    BY <2>2, QueueNames DEF Sound, NoneTwice
  <2>4. Head(c.list[MutexQ(m)]) \in Thread
        /\ Head(c.list[MutexQ(m)]) \in ToSet(c.list[MutexQ(m)])
    BY <2>1, <2>2, <2>3, TailLine
  <2> QED
    BY <1>1, <2>1, <2>2, <2>4, Priorities
<1>3. T \subseteq Nat /\ T # {} /\ c.base[t] \in T
  BY <1>1, <1>2, Priorities
<1>4. e \in T /\ \A j \in T : e <= j
  <2>1. e = Min(T)
    BY DEF EffectivePriority
  <2> HIDE DEF T, e
  <2> QED
    BY <1>3, <2>1, MinIsLeast
<1> HIDE DEF e
<1>5. ASSUME NEW u \in Thread, <<u, t>> \in Waiting(c)  PROVE e <= c.priority[u]
  <2>1. PICK m \in Mutex : m \in ToSet(c.held[t]) /\ u \in ToSet(c.list[MutexQ(m)])
    BY <1>5 DEF Waiting, Waits
  <2>2. c.list[MutexQ(m)] \in Seq(Thread) /\ MutexQ(m) \in SleepQueues
    BY <1>1, QueueNames
  <2>3. m \in M
    BY <2>1, <2>2, LineLen
  <2>4. PICK i \in 1..Len(c.list[MutexQ(m)]) : c.list[MutexQ(m)][i] = u
    BY <2>1, <2>2, LineLen
  <2>5. /\ Head(c.list[MutexQ(m)]) = c.list[MutexQ(m)][1]
        /\ 1 \in DOMAIN c.list[MutexQ(m)] /\ i \in DOMAIN c.list[MutexQ(m)]
        /\ 1 <= i /\ i \in Nat
    BY <2>2, <2>4
  <2>6. c.priority[Head(c.list[MutexQ(m)])] <= c.priority[u]
    <3>1. CASE i = 1
      BY <1>2, <2>3, <2>4, <2>5, <3>1
    <3>2. CASE i # 1
      <4>1. InOrderOf(c.list[MutexQ(m)], c.priority) /\ 1 < i
        BY <2>2, <2>5, <3>2 DEF Sound, Ordered
      <4> QED
        BY <2>4, <2>5, <4>1 DEF InOrderOf
    <3> QED
      BY <3>1, <3>2
  <2>7. e <= c.priority[Head(c.list[MutexQ(m)])]
    BY <1>4, <2>3
  <2>8. c.priority[u] \in Nat /\ c.priority[Head(c.list[MutexQ(m)])] \in Nat /\ e \in Nat
    BY <1>1, <1>2, <1>3, <1>4, <2>3, Priorities
  <2> QED
    BY <2>6, <2>7, <2>8
<1>6. e = c.base[t] \/ \E u \in Thread : <<u, t>> \in Waiting(c) /\ e = c.priority[u]
  <2> SUFFICES ASSUME e # c.base[t]
               PROVE  \E u \in Thread : <<u, t>> \in Waiting(c) /\ e = c.priority[u]
    OBVIOUS
  <2>1. PICK m \in M : e = c.priority[Head(c.list[MutexQ(m)])]
    BY <1>4
  <2> DEFINE u == Head(c.list[MutexQ(m)])
  <2>2. u \in Thread /\ u \in ToSet(c.list[MutexQ(m)]) /\ m \in Mutex /\ m \in ToSet(c.held[t])
    BY <1>2
  <2>3. <<u, t>> \in Waiting(c)
    <3> HIDE DEF u
    <3> QED
      BY <2>2 DEF Waiting, Waits
  <2> QED
    BY <2>1, <2>2, <2>3
<1> QED
  BY <1>4, <1>5, <1>6 DEF IsBest, e

-----------------------------------------------------------------------------
(* Loops: f[i] is what turn i makes of f[i - 1] *)

IsLoop(n, R, base, f) ==
  f[0] = base /\ \A i \in 1..n : f[i] = R[i][f[i - 1]]

\* A loop whose turns lead from J[i - 1] into J[i] runs to its end.
LEMMA LoopExists ==
  ASSUME NEW U, NEW n \in Nat, NEW J, NEW R, NEW base, base \in J[0],
         \A i \in 0..n : J[i] \subseteq U,
         \A i \in 1..n : \A s \in J[i - 1] : R[i][s] \in J[i]
  PROVE  \E f \in [0..n -> U] : IsLoop(n, R, base, f) /\ \A i \in 0..n : f[i] \in J[i]
<1> DEFINE Ends(k0) == \E f \in [0..k0 -> U] :
                         IsLoop(k0, R, base, f) /\ \A i \in 0..k0 : f[i] \in J[i]
           T == {k0 \in Nat : k0 <= n /\ ~Ends(k0)}
<1>1. SUFFICES ASSUME T # {} PROVE FALSE
  OBVIOUS
<1>2. PICK k0 \in T : \A j \in T : k0 <= j
  <2>1. T \subseteq Nat
    OBVIOUS
  <2> HIDE DEF T
  <2> QED
    BY <1>1, <2>1, Least
<1>3. k0 \in Nat /\ k0 <= n /\ ~Ends(k0)
  OBVIOUS
<1>4. CASE k0 = 0
  <2> DEFINE f == [i \in 0..0 |-> base]
  <2>1. f \in [0..0 -> U] /\ IsLoop(0, R, base, f) /\ \A i \in 0..0 : f[i] \in J[i]
    BY DEF IsLoop
  <2> QED
    BY <1>3, <1>4, <2>1
<1>5. CASE k0 # 0
  <2>1. k0 - 1 \in Nat /\ k0 - 1 <= n /\ k0 - 1 \notin T
    BY <1>2, <1>3, <1>5
  <2>2. PICK f \in [0..(k0 - 1) -> U] :
          IsLoop(k0 - 1, R, base, f) /\ \A i \in 0..(k0 - 1) : f[i] \in J[i]
    BY <2>1
  <2> HIDE DEF Ends, T
  <2> DEFINE last == R[k0][f[k0 - 1]]
             g == [i \in 0..k0 |-> IF i = k0 THEN last ELSE f[i]]
  <2>3. last \in J[k0] /\ last \in U
    <3>1. f[k0 - 1] \in J[k0 - 1] /\ k0 \in 1..n /\ k0 \in 0..n
      BY <1>3, <1>5, <2>1, <2>2
    <3>2. last \in J[k0]
      BY <3>1
    <3> QED
      BY <3>1, <3>2
  <2>4. last = R[k0][f[k0 - 1]]
    OBVIOUS
  <2> HIDE DEF last
  <2>5. g \in [0..k0 -> U]
    <3>1. \A i \in 0..k0 : i # k0 => i \in 0..(k0 - 1)
      BY <1>3
    <3> QED
      BY <2>2, <2>3, <3>1
  <2>6. \A i \in 0..k0 : g[i] \in J[i]
    <3>1. \A i \in 0..k0 : i # k0 => i \in 0..(k0 - 1)
      BY <1>3
    <3> QED
      BY <2>2, <2>3, <3>1
  <2>7. IsLoop(k0, R, base, g)
    <3>1. g[0] = base
      BY <1>3, <1>5, <2>2 DEF IsLoop
    <3>2. ASSUME NEW i \in 1..k0 PROVE g[i] = R[i][g[i - 1]]
      <4>1. i - 1 \in 0..(k0 - 1) /\ g[i - 1] = f[i - 1]
        BY <1>3
      <4>2. CASE i = k0
        BY <2>4, <4>1, <4>2
      <4>3. CASE i # k0
        <5>1. i \in 1..(k0 - 1) /\ g[i] = f[i]
          BY <1>3, <4>3
        <5>2. f[i] = R[i][f[i - 1]]
          BY <2>2, <5>1 DEF IsLoop
        <5> QED
          BY <4>1, <5>1, <5>2
      <4> QED
        BY <4>2, <4>3
    <3> HIDE DEF g
    <3> QED
      BY <3>1, <3>2 DEF IsLoop
  <2> HIDE DEF g
  <2> QED
    BY <1>3, <2>5, <2>6, <2>7 DEF Ends
<1> QED
  BY <1>4, <1>5

LEMMA LoopStays ==
  ASSUME NEW n \in Nat, NEW J, NEW g, g[0] \in J[0],
         \A i \in 1..n : g[i - 1] \in J[i - 1] => g[i] \in J[i]
  PROVE  \A i \in 0..n : g[i] \in J[i]
<1> DEFINE T == {i \in 0..n : g[i] \notin J[i]}
<1>1. SUFFICES ASSUME T # {} PROVE FALSE
  OBVIOUS
<1>2. PICK i \in T : \A j \in T : i <= j
  <2>1. T \subseteq Nat
    OBVIOUS
  <2> HIDE DEF T
  <2> QED
    BY <1>1, <2>1, Least
<1>3. i \in 0..n /\ g[i] \notin J[i] /\ i # 0
  OBVIOUS
<1>4. i \in 1..n /\ i - 1 \in 0..n /\ i - 1 < i
  BY <1>3
<1>5. i - 1 \notin T
  BY <1>2, <1>4
<1> QED
  BY <1>3, <1>4, <1>5

-----------------------------------------------------------------------------
(* The walk along the owners *)

\* What the walk gives the threads it meets: their effective priority, or at
\* most p on behalf of x, which is about to wait for the thread o.
Update == [promote |-> FALSE, p |-> 0, x |-> None, o |-> None]
Promote(p, x, o) == [promote |-> TRUE, p |-> p, x |-> x, o |-> o]

Aim(w, c, t) ==
  IF w.promote THEN Min({c.priority[t], w.p}) ELSE EffectivePriority(c, t)

Visit(w, s) ==
  IF s.at = None \/ s.k.suspend[s.at] > 0 \/ s.k.priority[s.at] = Aim(w, s.k, s.at)
    THEN [k |-> s.k, at |-> None]
    ELSE [k |-> SetEffectivePriority(s.k, s.at, Aim(w, s.k, s.at)),
          at |-> NextOwner(s.k, s.at)]

Turns == Cardinality(Thread \X Priority) + 1

WalkStep(w, c, t, f) ==
  [i \in 0..Turns |-> IF i = 0 THEN [k |-> c, at |-> t] ELSE Visit(w, f[i - 1])]

\* One step of the definitions of UpdatePriority and PromoteThread.
VisitEffective(s) ==
  IF s.at = None \/ s.k.suspend[s.at] > 0
       \/ s.k.priority[s.at] = EffectivePriority(s.k, s.at)
    THEN [k |-> s.k, at |-> None]
    ELSE [k |-> SetEffectivePriority(s.k, s.at, EffectivePriority(s.k, s.at)),
          at |-> NextOwner(s.k, s.at)]
UpdateStep(c, t, f) ==
  [i \in 0..Turns |-> IF i = 0 THEN [k |-> c, at |-> t] ELSE VisitEffective(f[i - 1])]

VisitPromote(p, s) ==
  IF s.at = None \/ s.k.suspend[s.at] > 0
       \/ s.k.priority[s.at] = Min({s.k.priority[s.at], p})
    THEN [k |-> s.k, at |-> None]
    ELSE [k |-> SetEffectivePriority(s.k, s.at, Min({s.k.priority[s.at], p})),
          at |-> NextOwner(s.k, s.at)]
PromoteStep(c, t, p, f) ==
  [i \in 0..Turns |-> IF i = 0 THEN [k |-> c, at |-> t] ELSE VisitPromote(p, f[i - 1])]

LEMMA UpdateFollows ==
  ASSUME NEW c, NEW t, \E f : f = WalkStep(Update, c, t, f)
  PROVE  \E g : g = WalkStep(Update, c, t, g) /\ UpdatePriority(c, t) = g[Turns].k
<1> DEFINE g == CHOOSE f : f = UpdateStep(c, t, f)
<1>1. UpdatePriority(c, t) = g[Turns].k
  BY Zenon DEF UpdatePriority, Follow, UpdateStep, VisitEffective, Turns
<1>2. ASSUME NEW s  PROVE Visit(Update, s) = VisitEffective(s)
  <2>1. Aim(Update, s.k, s.at) = EffectivePriority(s.k, s.at)
    BY DEF Aim, Update
  <2> QED
    BY <2>1, Zenon DEF Visit, VisitEffective
<1>3. \A f : UpdateStep(c, t, f) = WalkStep(Update, c, t, f)
  BY <1>2, Zenon DEF UpdateStep, WalkStep
<1>4. \E f : f = UpdateStep(c, t, f)
  BY <1>3
<1>5. g = UpdateStep(c, t, g)
  BY <1>4, Zenon
<1> HIDE DEF g
<1> QED
  BY <1>1, <1>3, <1>5

LEMMA PromoteFollows ==
  ASSUME NEW c, NEW t, NEW p, NEW x, NEW o,
         \E f : f = WalkStep(Promote(p, x, o), c, t, f)
  PROVE  \E g : /\ g = WalkStep(Promote(p, x, o), c, t, g)
                /\ PromoteThread(c, t, p) = g[Turns].k
<1> DEFINE g == CHOOSE f : f = PromoteStep(c, t, p, f)
           w == Promote(p, x, o)
<1>1. PromoteThread(c, t, p) = g[Turns].k
  BY Zenon DEF PromoteThread, Follow, PromoteStep, VisitPromote, Turns
<1>2. ASSUME NEW s  PROVE Visit(w, s) = VisitPromote(p, s)
  <2>1. Aim(w, s.k, s.at) = Min({s.k.priority[s.at], p})
    BY DEF Aim, Promote
  <2> HIDE DEF w
  <2> QED
    BY <2>1, Zenon DEF Visit, VisitPromote
<1> HIDE DEF w
<1>3. \A f : PromoteStep(c, t, p, f) = WalkStep(w, c, t, f)
  BY <1>2, Zenon DEF PromoteStep, WalkStep
<1>4. \E f : f = PromoteStep(c, t, p, f)
  BY <1>3 DEF w
<1>5. g = PromoteStep(c, t, p, g)
  BY <1>4, Zenon
<1> HIDE DEF g
<1> QED
  BY <1>1, <1>3, <1>5 DEF w

\* Who sleeps for a mutex is on its queue and does not own it; the owner of a
\* mutex holds it; a suspended sleeper is behind all others.
Chained(c, off) ==
  /\ \A t \in Thread \ off : c.state[t] = "SLEEPING" =>
       /\ c.mutex[t] # None =>
            c.queue[t] = MutexQ(c.mutex[t]) /\ c.owner[c.mutex[t]] # t
       /\ \A m \in Mutex : c.queue[t] = MutexQ(m) => c.mutex[t] = m
       /\ c.suspend[t] # 0 => c.priority[t] = Suspended
  /\ \A m \in Mutex, t \in Thread : c.owner[m] = t <=> m \in ToSet(c.held[t])

LEMMA ChainedKept ==
  ASSUME NEW c, NEW n, NEW off, Chained(c, off), Kept(c, n)
  PROVE  Chained(n, off)
BY DEF Chained, Kept, Lives

\* The waiters are those whose next owner is known.
LEMMA WaitingIs ==
  ASSUME NEW c, NEW off, Sound(c, off), Chained(c, off),
         NEW u \in Thread, NEW t \in Thread
  PROVE  <<u, t>> \in Waiting(c) <=> u \notin off /\ NextOwner(c, u) = t
<1>0. c \in Kernel /\ None \notin Thread
  BY ThreadAssumption DEF Sound
<1>1. ASSUME <<u, t>> \in Waiting(c)
      PROVE  u \notin off /\ NextOwner(c, u) = t
  <2>1. PICK m \in Mutex : m \in ToSet(c.held[t]) /\ u \in ToSet(c.list[MutexQ(m)])
    BY <1>1 DEF Waiting, Waits
  <2>2. u \notin off /\ OnQueue(c, u, MutexQ(m))
    BY <2>1, QueueNames DEF Sound, Placed
  <2>3. c.state[u] = "SLEEPING" /\ c.queue[u] = MutexQ(m)
    BY <2>2 DEF OnQueue, RunQ, MutexQ
  <2>4. c.mutex[u] = m /\ c.owner[m] = t
    BY <2>1, <2>2, <2>3 DEF Chained
  <2>5. m # None
    BY ThreadAssumption
  <2> QED
    BY <2>2, <2>3, <2>4, <2>5 DEF NextOwner
<1>2. ASSUME u \notin off, NextOwner(c, u) = t
      PROVE  <<u, t>> \in Waiting(c)
  <2>1. c.state[u] = "SLEEPING" /\ c.mutex[u] # None /\ c.owner[c.mutex[u]] = t
    BY <1>0, <1>2 DEF NextOwner
  <2>2. c.mutex[u] \in Mutex
    BY <1>0, <2>1 DEF Kernel
  <2>3. c.queue[u] = MutexQ(c.mutex[u]) /\ c.mutex[u] \in ToSet(c.held[t])
    BY <1>2, <2>1, <2>2 DEF Chained
  <2>4. u \in ToSet(c.list[MutexQ(c.mutex[u])])
    BY <1>2, <2>1, <2>2, <2>3, QueueNames DEF Sound, Placed, OnQueue
  <2> QED
    BY <2>2, <2>3, <2>4 DEF Waiting, Waits
<1> QED
  BY <1>1, <1>2

LEMMA WaitingSame ==
  ASSUME NEW c, NEW n, NEW off, Sound(c, off), Sound(n, off), Chained(c, off),
         Kept(c, n),
         \A t \in Thread : n.state[t] = "SLEEPING" <=> c.state[t] = "SLEEPING"
  PROVE  Waiting(n) = Waiting(c)
<1>1. Chained(n, off)
  BY ChainedKept
<1>2. \A u \in Thread : NextOwner(n, u) = NextOwner(c, u)
  BY DEF NextOwner, Kept
<1>3. ASSUME NEW u \in Thread, NEW t \in Thread
      PROVE  <<u, t>> \in Waiting(n) <=> <<u, t>> \in Waiting(c)
  <2>1. <<u, t>> \in Waiting(n) <=> u \notin off /\ NextOwner(n, u) = t
    BY <1>1, WaitingIs
  <2>2. <<u, t>> \in Waiting(c) <=> u \notin off /\ NextOwner(c, u) = t
    BY WaitingIs
  <2> QED
    BY <1>2, <2>1, <2>2
<1>4. Waiting(n) \subseteq Thread \X Thread /\ Waiting(c) \subseteq Thread \X Thread
  BY DEF Waiting
<1> QED
  BY <1>3, <1>4

\* t has its base priority or that of its best waiter.
Inherits(c, W, t) ==
  c.state[t] \in Alive /\ c.suspend[t] = 0 => IsBest(c, W, t, c.priority[t])

\* The priorities given so far, i of them, were all different: they only went
\* down, and the next one, a, is no exception.
Trail(c, i, a) ==
  \E G \in SUBSET (Thread \X Priority), last \in Priority :
    /\ IsFiniteSet(G) /\ Cardinality(G) = i /\ a <= last
    /\ \A x \in Thread, v \in Priority :
         <<x, v>> \in G => last <= c.priority[x] /\ c.priority[x] <= v

LEMMA TrailGrows ==
  ASSUME NEW c \in Kernel, NEW n, NEW i \in Nat, NEW a \in Priority, NEW b \in Nat,
         Trail(c, i, a), NEW t \in Thread, c.priority[t] # a, b <= a,
         n.priority = [c.priority EXCEPT ![t] = a]
  PROVE  Trail(n, i + 1, b)
<1>1. PICK G \in SUBSET (Thread \X Priority), last \in Priority :
        /\ IsFiniteSet(G) /\ Cardinality(G) = i /\ a <= last
        /\ \A x \in Thread, v \in Priority :
             <<x, v>> \in G => last <= c.priority[x] /\ c.priority[x] <= v
  BY DEF Trail
<1>2. /\ c.priority \in [Thread -> Priority \cup {Suspended}]
      /\ \A x \in Thread : c.priority[x] \in Nat
      /\ a \in Nat /\ last \in Nat /\ \A v \in Priority : v \in Nat
  BY Priorities DEF Kernel
<1>3. <<t, a>> \notin G
  <2> SUFFICES ASSUME <<t, a>> \in G PROVE FALSE
    OBVIOUS
  <2>1. last <= c.priority[t] /\ c.priority[t] <= a
    BY <1>1
  <2> QED
    BY <1>1, <1>2, <2>1
<1> DEFINE H == G \cup {<<t, a>>}
<1>4. IsFiniteSet(H) /\ Cardinality(H) = i + 1
  BY <1>1, <1>3, FS_AddElement
<1>5. H \in SUBSET (Thread \X Priority)
  OBVIOUS
<1>6. ASSUME NEW x \in Thread, NEW v \in Priority, <<x, v>> \in H
      PROVE  a <= n.priority[x] /\ n.priority[x] <= v
  <2>1. CASE <<x, v>> = <<t, a>>
    <3>1. x = t /\ v = a
      BY <2>1
    <3> QED
      BY <1>2, <3>1
  <2>2. CASE <<x, v>> \in G
    <3>1. last <= c.priority[x] /\ c.priority[x] <= v
      BY <1>1, <2>2
    <3>2. n.priority[x] = IF x = t THEN a ELSE c.priority[x]
      BY <1>2
    <3> QED
      BY <1>1, <1>2, <3>1, <3>2
  <2> QED
    BY <1>6, <2>1, <2>2
<1> HIDE DEF H
<1> QED
  BY <1>4, <1>5, <1>6 DEF Trail

\* Where the walk w from c can go: it stays among the threads of S, which the
\* owners lead back into, and W are the waiters it has in mind.
MayWalk(w, c, W, S, off) ==
  /\ S \subseteq Thread \ off
  /\ \A u \in S : NextOwner(c, u) \in S \cup {None}
  /\ w.promote \in BOOLEAN
  /\ IF w.promote
       THEN w.x \in Thread /\ w.p \in Priority /\ W = Waiting(c) \cup {<<w.x, w.o>>}
       ELSE W = Waiting(c)

\* The walk w from c after i turns: only the next thread may have to change.
OnWay(w, c, W, S, off, i, s) ==
  /\ Sound(s.k, off) /\ Chained(s.k, off)
  /\ Kept(c, s.k) /\ Calm(c, s.k) /\ s.k.state = c.state
  /\ s.at \in S \cup {None}
  /\ \A t \in Thread \ off : t # s.at => Inherits(s.k, W, t)
  /\ w.promote => s.k.priority[w.x] = w.p
  /\ s.at # None =>
       /\ s.k.state[s.at] \in Alive /\ s.k.suspend[s.at] = 0 =>
            IsBest(s.k, W, s.at, Aim(w, s.k, s.at))
       /\ Trail(s.k, i, Aim(w, s.k, s.at))

LEMMA AimIsPriority ==
  ASSUME NEW c \in Kernel, NEW t \in Thread, NEW w, w.promote => w.p \in Priority
  PROVE  /\ Aim(w, c, t) \in Priority
         /\ w.promote => /\ Aim(w, c, t) <= c.priority[t] /\ Aim(w, c, t) <= w.p
                         /\ Aim(w, c, t) = c.priority[t] \/ Aim(w, c, t) = w.p
<1>1. CASE w.promote
  <2> DEFINE T == {c.priority[t], w.p}
  <2>1. T \subseteq Nat /\ T # {}
    BY <1>1, Priorities DEF Kernel
  <2>2. Aim(w, c, t) = Min(T)
    BY <1>1 DEF Aim
  <2>3. Min(T) \in T /\ \A j \in T : Min(T) <= j
    <3> HIDE DEF T
    <3> QED
      BY <2>1, MinIsLeast
  <2>4. Aim(w, c, t) \in Nat /\ Aim(w, c, t) <= w.p
    BY <2>1, <2>2, <2>3
  <2>5. Aim(w, c, t) \in Priority
    BY <1>1, <2>4, ThreadAssumption DEF Priority
  <2> QED
    BY <2>2, <2>3, <2>5
<1>2. CASE ~w.promote
  BY <1>2, EffectiveIsPriority DEF Aim
<1> QED
  BY <1>1, <1>2

\* One turn: the thread gets what it is due, and of the others only the owner
\* it waits for can be due something new.
LEMMA VisitKeeps ==
  ASSUME NEW w, NEW c, NEW W, NEW S, NEW off, MayWalk(w, c, W, S, off),
         Sound(c, off), Chained(c, off),
         NEW i \in Nat, NEW s, OnWay(w, c, W, S, off, i, s),
         NEW s1, s1 = Visit(w, s)
  PROVE  OnWay(w, c, W, S, off, i + 1, s1)
<1> DEFINE d == s.k
           t == s.at
           a == Aim(w, d, t)
<1>0. /\ Sound(d, off) /\ Chained(d, off) /\ Kept(c, d) /\ Calm(c, d) /\ d.state = c.state
      /\ d \in Kernel /\ t \in S \cup {None} /\ None \notin Thread
      /\ \A u \in Thread \ off : u # t => Inherits(d, W, u)
      /\ w.promote => d.priority[w.x] = w.p
      /\ d.suspend \in [Thread -> Nat]
      /\ d.priority \in [Thread -> Priority \cup {Suspended}]
  BY ThreadAssumption DEF OnWay, Sound, Kernel
<1>w. /\ w.promote => w.p \in Priority /\ w.x \in Thread
      /\ S \subseteq Thread \ off
      /\ W = IF w.promote THEN Waiting(c) \cup {<<w.x, w.o>>} ELSE Waiting(c)
  BY DEF MayWalk
<1>1. CASE t = None \/ d.suspend[t] > 0 \/ d.priority[t] = a
  <2>1. s1.k = d /\ s1.at = None
    BY <1>1 DEF Visit
  <2>2. t # None => Inherits(d, W, t)
    <3> SUFFICES ASSUME t # None, d.state[t] \in Alive, d.suspend[t] = 0
                 PROVE  IsBest(d, W, t, d.priority[t])
      BY DEF Inherits
    <3>1. IsBest(d, W, t, a)
      BY DEF OnWay
    <3>2. d.priority[t] = a
      BY <1>1
    <3> QED
      BY <3>1, <3>2
  <2> HIDE DEF d, t, a
  <2>3. \A u \in Thread \ off : Inherits(d, W, u)
    BY <1>0, <2>2, <1>w
  <2> QED
    BY <1>0, <2>1, <2>3 DEF OnWay
<1>2. CASE ~(t = None \/ d.suspend[t] > 0 \/ d.priority[t] = a)
  <2> DEFINE n == SetEffectivePriority(d, t, a)
             next == NextOwner(d, t)
  <2>1. s1.k = n /\ s1.at = next
    BY <1>2 DEF Visit
  <2>2. t \in S /\ t \in Thread /\ t \notin off /\ d.suspend[t] = 0
    BY <1>0, <1>2, <1>w
  <2>3. Trail(d, i, a) /\ (d.state[t] \in Alive => IsBest(d, W, t, a))
    BY <1>2, <2>2 DEF OnWay
  <2>4. a \in Priority
    BY <1>0, <1>w, <2>2, AimIsPriority
  <2>n. n = SetEffectivePriority(d, t, a)
    OBVIOUS
  <2>x. w.promote => (d.state[t] \in Alive => a = w.p) /\ a <= d.priority[t] /\ t # w.x
    BY <1>0, <1>2, <1>w, <2>2, AimIsPriority
  <2>y. t # None /\ d.priority[t] # a
    BY <1>2
  <2>z. a = Aim(w, d, t)
    OBVIOUS
  <2>v. next = NextOwner(d, t)
    OBVIOUS
  <2> HIDE DEF n, d, t, a, next
  <2>5. Sound(n, off) /\ Repriced(d, n, t, a)
    BY <1>0, <2>2, <2>4, <2>n, SetEffectiveKeeps
  <2>6. n \in Kernel /\ n.state = d.state /\ Kept(d, n) /\ Calm(d, n)
        /\ n.priority = IF d.state[t] \in Alive THEN [d.priority EXCEPT ![t] = a]
                        ELSE d.priority
    BY <2>5 DEF Sound, Repriced
  <2>7. Chained(n, off) /\ Kept(c, n) /\ Calm(c, n) /\ n.state = c.state
    BY <1>0, <2>6, ChainedKept, KeptTwice, CalmTwice
  <2>8. next \in S \cup {None}
    <3>1. next = NextOwner(c, t)
      BY <1>0, <2>v DEF NextOwner, Kept
    <3> QED
      BY <2>2, <3>1 DEF MayWalk
  <2>9. n.suspend = d.suspend /\ n.base = d.base
    BY <2>6 DEF Kept
  <2>10. w.promote => n.priority[w.x] = w.p
    BY <1>0, <1>w, <2>6, <2>x
  <2>11. CASE d.state[t] \notin Alive
    <3>1. next = None
      BY <2>11, <2>v DEF NextOwner, Alive
    <3>2. \A u \in Thread \ off : Inherits(n, W, u)
      BY <1>0, <2>6, <2>9, <2>11 DEF Inherits, IsBest
    <3> QED
      BY <2>1, <2>5, <2>7, <2>10, <3>1, <3>2 DEF OnWay
  <2>12. CASE d.state[t] \in Alive
    <3>p. n.priority = [d.priority EXCEPT ![t] = a]
      BY <2>6, <2>12
    <3>1. \A u \in Thread : <<t, u>> \in W => u = next
      <4> SUFFICES ASSUME NEW u \in Thread, <<t, u>> \in W  PROVE u = next
        OBVIOUS
      <4>1. <<t, u>> \in Waiting(c)
        BY <1>w, <2>x
      <4>2. NextOwner(c, t) = u
        BY <2>2, <4>1, WaitingIs
      <4> QED
        BY <1>0, <2>v, <4>2 DEF NextOwner, Kept
    <3>2. ASSUME NEW u \in Thread \ off, u # next  PROVE Inherits(n, W, u)
      <4>1. <<t, u>> \notin W
        BY <3>1, <3>2
      <4>2. \A x \in Thread : <<x, u>> \in W => n.priority[x] = d.priority[x]
        BY <1>0, <3>p, <4>1
      <4>3. CASE u = t
        <5>1. IsBest(n, W, t, a)
          BY <2>3, <2>9, <2>12, <4>2, <4>3 DEF IsBest
        <5>2. n.priority[t] = a
          BY <1>0, <2>2, <3>p
        <5> QED
          BY <4>3, <5>1, <5>2 DEF Inherits
      <4>4. CASE u # t
        <5>1. Inherits(d, W, u) /\ n.priority[u] = d.priority[u]
          BY <1>0, <3>p, <4>4
        <5> QED
          BY <2>6, <2>9, <4>2, <5>1 DEF Inherits, IsBest
      <4> QED
        BY <4>3, <4>4
    <3>3. ASSUME next # None
          PROVE  /\ n.state[next] \in Alive /\ n.suspend[next] = 0 =>
                      IsBest(n, W, next, Aim(w, n, next))
                 /\ Trail(n, i + 1, Aim(w, n, next))
      <4> DEFINE b == Aim(w, n, next)
      <4>1. next \in Thread /\ next \notin off
        BY <1>w, <2>8, <3>3
      <4>2. <<t, next>> \in Waiting(c) /\ next # t
        <5>1. NextOwner(c, t) = next
          BY <1>0, <2>v DEF NextOwner, Kept
        <5>2. next # t
          BY <2>2, <3>3, <5>1 DEF NextOwner, Chained
        <5> QED
          BY <2>2, <4>1, <5>1, <5>2, WaitingIs
      <4>3. <<t, next>> \in W
        BY <1>w, <4>2
      <4>4. b \in Priority /\ b \in Nat /\ a \in Nat
        BY <1>w, <2>4, <2>6, <4>1, AimIsPriority, Priorities
      <4>5. n.priority[t] = a
        BY <1>0, <2>2, <3>p
      <4>6. CASE w.promote
        <5>1. a = w.p /\ a <= d.priority[t]
          BY <2>12, <2>x, <4>6
        <5>2. /\ b <= n.priority[next] /\ b <= w.p
              /\ b = n.priority[next] \/ b = w.p
          BY <1>w, <2>6, <4>1, <4>6, AimIsPriority
        <5>3. Trail(n, i + 1, b)
          <6> HIDE DEF b
          <6> QED
            BY <1>0, <2>2, <2>3, <2>4, <2>y, <3>p, <4>4, <5>1, <5>2, TrailGrows
        <5>4. ASSUME n.state[next] \in Alive, n.suspend[next] = 0
              PROVE  IsBest(n, W, next, b)
          <6>1. IsBest(d, W, next, d.priority[next])
            BY <1>0, <2>6, <2>9, <4>1, <4>2, <5>4 DEF Inherits
          <6>2. n.priority[next] = d.priority[next]
            BY <1>0, <3>p, <4>1, <4>2
          <6>3. \A x \in Thread : n.priority[x] = IF x = t THEN a ELSE d.priority[x]
            BY <1>0, <3>p
          <6>4. \A x \in Thread : d.priority[x] \in Nat
            BY <1>0, Priorities
          <6>5. d.base[next] \in Nat
            BY <1>0, <4>1, Priorities DEF Kernel
          <6> HIDE DEF b
          <6>6. b <= n.base[next]
            BY <2>9, <4>1, <4>4, <5>2, <6>1, <6>2, <6>4, <6>5 DEF IsBest
          <6>7. ASSUME NEW u \in Thread, <<u, next>> \in W  PROVE b <= n.priority[u]
            <7>1. d.priority[next] <= d.priority[u]
              BY <6>1, <6>7 DEF IsBest
            <7> QED
              BY <4>1, <4>4, <5>1, <5>2, <6>2, <6>3, <6>4, <7>1
          <6>8. b = n.base[next] \/ \E u \in Thread : <<u, next>> \in W /\ b = n.priority[u]
            <7>1. CASE b = w.p
              BY <2>2, <4>3, <4>5, <5>1, <7>1
            <7>2. CASE b # w.p
              <8>1. b = d.priority[next]
                BY <5>2, <6>2, <7>2
              <8>2. CASE b = d.base[next]
                BY <2>9, <8>2
              <8>3. CASE b # d.base[next]
                <9>1. PICK u \in Thread : <<u, next>> \in W /\ b = d.priority[u]
                  BY <6>1, <8>1, <8>3 DEF IsBest
                <9>2. b <= a /\ a <= d.priority[t]
                  BY <5>1, <5>2
                <9>3. u # t
                  BY <4>4, <5>1, <7>2, <9>1, <9>2
                <9> QED
                  BY <6>3, <9>1, <9>3
              <8> QED
                BY <8>2, <8>3
            <7> QED
              BY <7>1, <7>2
          <6> QED
            BY <6>6, <6>7, <6>8 DEF IsBest
        <5> QED
          BY <5>3, <5>4
      <4>7. CASE ~w.promote
        <5>1. Waiting(n) = W
          BY <1>w, <2>5, <2>7, <4>7, WaitingSame
        <5>2. b = EffectivePriority(n, next)
          BY <4>7 DEF Aim
        <5>3. IsBest(n, W, next, b)
          BY <2>5, <4>1, <5>1, <5>2, EffectiveIsBest
        <5>4. b <= a
          BY <2>2, <4>3, <4>5, <5>3 DEF IsBest
        <5>5. Trail(n, i + 1, b)
          <6> HIDE DEF b
          <6> QED
            BY <1>0, <2>2, <2>3, <2>4, <2>y, <3>p, <4>4, <5>4, TrailGrows
        <5> QED
          BY <5>3, <5>5
      <4> QED
        BY <4>6, <4>7
    <3> QED
      BY <2>1, <2>5, <2>7, <2>8, <2>10, <3>2, <3>3 DEF OnWay
  <2> QED
    BY <2>11, <2>12
<1> QED
  BY <1>1, <1>2

\* Where the walk ends nobody is left to change.
Arrived(c, n, W, off) ==
  /\ Sound(n, off) /\ Chained(n, off)
  /\ Kept(c, n) /\ Calm(c, n) /\ n.state = c.state
  /\ \A t \in Thread \ off : Inherits(n, W, t)

\* There are fewer priorities to give than turns.
LEMMA TrailEnds ==
  ASSUME NEW c, NEW a  PROVE ~Trail(c, Turns, a)
<1>1. IsFiniteSet(Thread) /\ IsFiniteSet(Priority)
  BY ThreadAssumption, FS_Interval DEF Priority
<1>2. IsFiniteSet(Thread \X Priority)
  BY <1>1, FS_Product
<1> DEFINE P == Thread \X Priority
<1>3. Cardinality(P) \in Nat
  BY <1>2, FS_CardinalityType
<1>4. ASSUME NEW G \in SUBSET P  PROVE Cardinality(G) <= Cardinality(P) /\ Cardinality(G) \in Nat
  BY <1>2, <1>4, FS_Subset, FS_CardinalityType
<1>5. Turns = Cardinality(P) + 1
  BY DEF Turns
<1> HIDE DEF P
<1>6. \A G \in SUBSET P : Cardinality(G) # Turns
  BY <1>3, <1>4, <1>5
<1> QED
  BY <1>6 DEF Trail, P

LEMMA WalkArrives ==
  ASSUME NEW w, NEW c, NEW W, NEW S, NEW off, MayWalk(w, c, W, S, off),
         Sound(c, off), Chained(c, off), NEW t,
         OnWay(w, c, W, S, off, 0, [k |-> c, at |-> t])
  PROVE  /\ \E f : f = WalkStep(w, c, t, f)
         /\ \A g : g = WalkStep(w, c, t, g) => Arrived(c, g[Turns].k, W, off)
<1> DEFINE U == [k : Kernel, at : Thread \cup {None}]
           J == [i \in 0..Turns |-> {s \in U : OnWay(w, c, W, S, off, i, s)}]
           R == [i \in 1..Turns |-> [s \in U |-> Visit(w, s)]]
           base == [k |-> c, at |-> t]
<1>0. Turns \in Nat
  <2>1. IsFiniteSet(Thread) /\ IsFiniteSet(Priority)
    BY ThreadAssumption, FS_Interval DEF Priority
  <2>2. IsFiniteSet(Thread \X Priority)
    BY <2>1, FS_Product
  <2> QED
    BY <2>2, FS_CardinalityType DEF Turns
<1>1. base \in J[0]
  <2>1. c \in Kernel /\ t \in Thread \cup {None}
    BY DEF OnWay, Sound, MayWalk
  <2> QED
    BY <1>0, <2>1
<1>2. \A i \in 0..Turns : J[i] = {s \in U : OnWay(w, c, W, S, off, i, s)}
  OBVIOUS
<1>3. \A i \in 1..Turns : \A s \in U : R[i][s] = Visit(w, s)
  OBVIOUS
<1>b. base = [k |-> c, at |-> t]
  OBVIOUS
<1> HIDE DEF J, R, base
<1>4. ASSUME NEW i \in 1..Turns, NEW s \in J[i - 1]
      PROVE  Visit(w, s) \in J[i]
  <2>1. i - 1 \in 0..Turns /\ i \in 0..Turns /\ i - 1 \in Nat /\ (i - 1) + 1 = i
    BY <1>0
  <2>2. s \in U /\ OnWay(w, c, W, S, off, i - 1, s)
    BY <1>2, <2>1
  <2> DEFINE s1 == Visit(w, s)
  <2>3. s1 = Visit(w, s)
    OBVIOUS
  <2>r. s1 = [k |-> s1.k, at |-> s1.at]
    BY DEF Visit
  <2> HIDE DEF s1
  <2>4. OnWay(w, c, W, S, off, (i - 1) + 1, s1)
    BY <2>1, <2>2, <2>3, VisitKeeps
  <2>5. OnWay(w, c, W, S, off, i, s1)
    BY <2>1, <2>4
  <2>6. s1.k \in Kernel /\ s1.at \in Thread \cup {None}
    BY <2>5 DEF OnWay, Sound, MayWalk
  <2>7. s1 \in U
    BY <2>r, <2>6
  <2> QED
    BY <1>2, <2>1, <2>3, <2>5, <2>7
<1>5. \E f : f = WalkStep(w, c, t, f)
  <2>1. \A i \in 0..Turns : J[i] \subseteq U
    BY <1>2
  <2>2. \A i \in 1..Turns : \A s \in J[i - 1] : R[i][s] \in J[i]
    <3> SUFFICES ASSUME NEW i \in 1..Turns, NEW s \in J[i - 1]  PROVE R[i][s] \in J[i]
      OBVIOUS
    <3>1. i - 1 \in 0..Turns
      BY <1>0
    <3>2. s \in U
      BY <2>1, <3>1
    <3>3. R[i][s] = Visit(w, s)
      BY <1>3, <3>2
    <3> QED
      BY <1>4, <3>3
  <2> HIDE DEF U
  <2>3. PICK f \in [0..Turns -> U] :
          IsLoop(Turns, R, base, f) /\ \A i \in 0..Turns : f[i] \in J[i]
    BY <1>0, <1>1, <2>1, <2>2, LoopExists
  <2>4. ASSUME NEW i \in 0..Turns
        PROVE  f[i] = IF i = 0 THEN [k |-> c, at |-> t] ELSE Visit(w, f[i - 1])
    <3>1. CASE i = 0
      BY <1>b, <2>3, <3>1 DEF IsLoop
    <3>2. CASE i # 0
      <4>1. i \in 1..Turns /\ i - 1 \in 0..Turns
        BY <1>0, <3>2
      <4>2. f[i] = R[i][f[i - 1]] /\ f[i - 1] \in U
        BY <2>3, <4>1 DEF IsLoop
      <4> QED
        BY <1>3, <3>2, <4>1, <4>2
    <3> QED
      BY <3>1, <3>2
  <2>5. f = [i \in 0..Turns |-> f[i]]
    BY <2>3
  <2> QED
    BY <2>4, <2>5, Zenon DEF WalkStep
<1>6. ASSUME NEW g, g = WalkStep(w, c, t, g)
      PROVE  Arrived(c, g[Turns].k, W, off)
  <2>1. \A i \in 0..Turns : g[i] = IF i = 0 THEN base ELSE Visit(w, g[i - 1])
    BY <1>6, <1>b, Zenon DEF WalkStep
  <2>2. g[0] \in J[0]
    <3>1. 0 \in 0..Turns
      BY <1>0
    <3> QED
      BY <1>1, <2>1, <3>1
  <2>3. \A i \in 1..Turns : g[i - 1] \in J[i - 1] => g[i] \in J[i]
    <3> SUFFICES ASSUME NEW i \in 1..Turns, g[i - 1] \in J[i - 1]  PROVE g[i] \in J[i]
      OBVIOUS
    <3>1. i \in 0..Turns /\ i # 0
      BY <1>0
    <3>2. g[i] = Visit(w, g[i - 1])
      BY <2>1, <3>1
    <3> QED
      BY <1>4, <3>2
  <2>4. \A i \in 0..Turns : g[i] \in J[i]
    BY <1>0, <2>2, <2>3, LoopStays
  <2>5. OnWay(w, c, W, S, off, Turns, g[Turns])
    <3>1. Turns \in 0..Turns
      BY <1>0
    <3> QED
      BY <1>2, <2>4, <3>1
  <2>6. g[Turns].at = None
    BY <2>5, TrailEnds DEF OnWay
  <2>7. None \notin Thread
    BY ThreadAssumption
  <2> QED
    BY <2>5, <2>6, <2>7 DEF OnWay, Arrived
<1> QED
  BY <1>5, <1>6

\* UpdatePriority from t, the only thread whose due may have changed, among
\* the threads S that the owners do not lead out of.
LEMMA UpdateArrives ==
  ASSUME NEW c, NEW off, NEW S, Sound(c, off), Chained(c, off),
         S \subseteq Thread \ off, \A u \in S : NextOwner(c, u) \in S \cup {None},
         NEW t \in S \cup {None},
         \A u \in Thread \ off : u # t => Inherits(c, Waiting(c), u),
         NEW n, n = UpdatePriority(c, t)
  PROVE  Arrived(c, n, Waiting(c), off)
<1> DEFINE s == [k |-> c, at |-> t]
           W == Waiting(c)
<1>1. s.k = c /\ s.at = t /\ s = [k |-> c, at |-> t]
  OBVIOUS
<1>2. Update.promote = FALSE
  BY DEF Update
<1>3. c \in Kernel /\ W = Waiting(c) /\ None \notin Thread
  BY ThreadAssumption DEF Sound
<1> HIDE DEF s, W
<1>4. Aim(Update, c, t) = EffectivePriority(c, t)
  BY <1>2 DEF Aim
<1>5. ASSUME t # None
      PROVE  IsBest(c, W, t, Aim(Update, c, t)) /\ Trail(c, 0, Aim(Update, c, t))
  <2>1. t \in Thread
    BY <1>5
  <2>2. IsBest(c, W, t, Aim(Update, c, t))
    BY <1>3, <1>4, <2>1, EffectiveIsBest
  <2>3. Aim(Update, c, t) \in Priority
    BY <1>3, <1>4, <2>1, EffectiveIsPriority
  <2>4. Trail(c, 0, Aim(Update, c, t))
    <3>1. {} \in SUBSET (Thread \X Priority) /\ IsFiniteSet({}) /\ Cardinality({}) = 0
      BY FS_EmptySet
    <3>2. PriorityMax \in Priority /\ Aim(Update, c, t) <= PriorityMax
      BY <2>3, ThreadAssumption DEF Priority
    <3> QED
      BY <3>1, <3>2 DEF Trail
  <2> QED
    BY <2>2, <2>4
<1>6. MayWalk(Update, c, W, S, off)
  BY <1>2, <1>3 DEF MayWalk
<1>7. Kept(c, c) /\ Calm(c, c)
  BY KeptNothing DEF Calm
<1>8. OnWay(Update, c, W, S, off, 0, s)
  <2>1. \A u \in Thread \ off : u # s.at => Inherits(s.k, W, u)
    BY <1>1, <1>3
  <2>2. s.at # None => /\ s.k.state[s.at] \in Alive /\ s.k.suspend[s.at] = 0 =>
                            IsBest(s.k, W, s.at, Aim(Update, s.k, s.at))
                       /\ Trail(s.k, 0, Aim(Update, s.k, s.at))
    BY <1>1, <1>5
  <2> QED
    BY <1>1, <1>2, <1>7, <2>1, <2>2 DEF OnWay
<1>9. /\ \E f : f = WalkStep(Update, c, t, f)
      /\ \A g : g = WalkStep(Update, c, t, g) => Arrived(c, g[Turns].k, W, off)
  BY <1>1, <1>6, <1>8, WalkArrives
<1> QED
  BY <1>3, <1>9, UpdateFollows

\* PromoteThread on behalf of x, which has priority p and will wait for o.
LEMMA PromoteArrives ==
  ASSUME NEW c, Sound(c, {}), Chained(c, {}), NEW x \in Thread, NEW o \in Thread,
         c.priority[x] \in Priority, o # x,
         \A u \in Thread : Inherits(c, Waiting(c), u),
         NEW n, n = PromoteThread(c, o, c.priority[x])
  PROVE  Arrived(c, n, Waiting(c) \cup {<<x, o>>}, {})
<1> DEFINE s == [k |-> c, at |-> o]
           W == Waiting(c) \cup {<<x, o>>}
           p == c.priority[x]
           w == Promote(p, x, o)
<1>1. s.k = c /\ s.at = o /\ s = [k |-> c, at |-> o]
  OBVIOUS
<1>2. w = Promote(p, x, o) /\ w.promote = TRUE /\ w.p = p /\ w.x = x /\ w.o = o
  BY DEF Promote
<1>3. c \in Kernel /\ W = Waiting(c) \cup {<<x, o>>} /\ None \notin Thread
      /\ p = c.priority[x] /\ p \in Priority
  BY ThreadAssumption DEF Sound
<1> HIDE DEF s, W, p, w
<1>a. \A y, z \in Thread : <<y, z>> \in W <=> <<y, z>> \in Waiting(c) \/ (y = x /\ z = o)
  BY <1>3
<1>4. Aim(w, c, o) = Min({c.priority[o], p})
  BY <1>2 DEF Aim
<1>5. /\ Aim(w, c, o) \in Priority /\ Aim(w, c, o) <= c.priority[o] /\ Aim(w, c, o) <= p
      /\ Aim(w, c, o) = c.priority[o] \/ Aim(w, c, o) = p
  BY <1>2, <1>3, AimIsPriority
<1>6. ASSUME c.state[o] \in Alive /\ c.suspend[o] = 0
      PROVE  IsBest(c, W, o, Aim(w, c, o))
  <2>1. IsBest(c, Waiting(c), o, c.priority[o])
    BY <1>6 DEF Inherits
  <2>2. \A u \in Thread : c.priority[u] \in Nat /\ c.base[u] \in Nat
    BY <1>3, Priorities DEF Kernel
  <2>3. Aim(w, c, o) \in Nat /\ p \in Nat
    BY <1>3, <1>5, Priorities
  <2> DEFINE a == Aim(w, c, o)
  <2>4. a <= c.base[o] /\ \A u \in Thread : <<u, o>> \in Waiting(c) => a <= c.priority[u]
    <3>1. c.priority[o] <= c.base[o]
          /\ \A u \in Thread : <<u, o>> \in Waiting(c) => c.priority[o] <= c.priority[u]
      BY <2>1 DEF IsBest
    <3>2. a <= c.priority[o] /\ a \in Nat
      BY <1>5, <2>3
    <3> HIDE DEF a
    <3> QED
      BY <2>2, <3>1, <3>2
  <2>5. a = c.base[o] \/ a = p \/ \E u \in Thread : <<u, o>> \in Waiting(c) /\ a = c.priority[u]
    BY <1>5, <2>1 DEF IsBest
  <2>6. a <= p /\ p = c.priority[x]
    BY <1>3, <1>5
  <2> HIDE DEF a
  <2>7. IsBest(c, W, o, a)
    BY <1>a, <2>4, <2>5, <2>6 DEF IsBest
  <2> QED
    BY <2>7 DEF a
<1>7. Trail(c, 0, Aim(w, c, o))
  <2>1. {} \in SUBSET (Thread \X Priority) /\ IsFiniteSet({}) /\ Cardinality({}) = 0
    BY FS_EmptySet
  <2>2. PriorityMax \in Priority /\ Aim(w, c, o) <= PriorityMax
    BY <1>5, ThreadAssumption DEF Priority
  <2> QED
    BY <2>1, <2>2 DEF Trail
<1>8. MayWalk(w, c, W, Thread, {})
  <2>1. \A u \in Thread : NextOwner(c, u) \in Thread \cup {None}
    BY <1>3 DEF NextOwner, Kernel
  <2> QED
    BY <1>2, <1>3, <2>1 DEF MayWalk
<1>9. Kept(c, c) /\ Calm(c, c)
  BY KeptNothing DEF Calm
<1>10. OnWay(w, c, W, Thread, {}, 0, s)
  <2>1. ASSUME NEW u \in Thread, u # o  PROVE Inherits(c, W, u)
    <3>1. \A y \in Thread : <<y, u>> \in W <=> <<y, u>> \in Waiting(c)
      BY <1>a, <2>1
    <3>2. Inherits(c, Waiting(c), u)
      OBVIOUS
    <3> QED
      BY <3>1, <3>2 DEF Inherits, IsBest
  <2> QED
    BY <1>1, <1>2, <1>3, <1>6, <1>7, <1>9, <2>1 DEF OnWay
<1>11. /\ \E f : f = WalkStep(w, c, o, f)
       /\ \A g : g = WalkStep(w, c, o, g) => Arrived(c, g[Turns].k, W, {})
  BY <1>1, <1>8, <1>10, WalkArrives
<1>12. \E g : g = WalkStep(w, c, o, g) /\ PromoteThread(c, o, p) = g[Turns].k
  <2>1. \E f : f = WalkStep(Promote(p, x, o), c, o, f)
    BY <1>2, <1>11
  <2> QED
    BY <1>2, <2>1, PromoteFollows
<1> QED
  BY <1>3, <1>11, <1>12

-----------------------------------------------------------------------------
(* What holds between two calls *)

Heirs(c) == \A t \in Thread : Inherits(c, Waiting(c), t)

\* Nobody waits for a mutex that no thread owns.
Claimed(c) ==
  \A t \in Thread : c.state[t] = "SLEEPING" /\ c.mutex[t] # None => c.owner[c.mutex[t]] # None

Locks(c) ==
  /\ \A m \in Mutex : c.owner[m] = None <=> c.lock[m] = 0
  /\ \A t \in Thread : IsInjective(c.held[t])

Good(c) == Sound(c, {}) /\ Chained(c, {}) /\ Heirs(c) /\ Claimed(c) /\ Locks(c)

\* The queues do not depend on the other fields.
LEMMA SameReady ==
  ASSUME NEW c, NEW off, Sound(c, off), NEW n, n \in Kernel,
         n.list = c.list, n.bits = c.bits, n.state = c.state,
         n.priority = c.priority, n.queue = c.queue,
         \A u \in Thread : c.state[u] \in Alive => (n.suspend[u] = 0 <=> c.suspend[u] = 0)
  PROVE  Sound(n, off)
<1>1. \A u \in Thread : Ready(n, u) <=> Ready(c, u)
  BY DEF Ready, Alive
<1>2. Placed(n, off)
  BY <1>1 DEF Sound, Placed, OnQueue
<1>3. Fit(n, off)
  <2>1. \A t \in Thread : ThreadFits(c, t) => ThreadFits(n, t)
    BY <1>1 DEF ThreadFits, Alive
  <2> QED
    BY <2>1 DEF Sound, Fit
<1>4. BitsRight(n) /\ NoneTwice(n) /\ Ordered(n)
  BY DEF Sound, BitsRight, NoneTwice, Ordered
<1> QED
  BY <1>2, <1>3, <1>4 DEF Sound

LEMMA InheritsKept ==
  ASSUME NEW c, NEW n, NEW W, NEW t \in Thread, Inherits(c, W, t),
         n.state[t] \in Alive => c.state[t] \in Alive,
         n.suspend = c.suspend, n.base = c.base, n.priority = c.priority
  PROVE  Inherits(n, W, t)
BY DEF Inherits, IsBest

LEMMA GoodStays ==
  ASSUME NEW c, Good(c), NEW n, Sound(n, {}), Kept(c, n), Stays(c, n)
  PROVE  Good(n)
<1>1. Sound(c, {}) /\ Chained(c, {}) /\ Heirs(c) /\ Claimed(c) /\ Locks(c)
  BY DEF Good
<1>2. Chained(n, {})
  BY <1>1, ChainedKept
<1>3. Waiting(n) = Waiting(c)
  BY <1>1, WaitingSame DEF Stays
<1>4. Heirs(n)
  <2> SUFFICES ASSUME NEW t \in Thread  PROVE Inherits(n, Waiting(c), t)
    BY <1>3 DEF Heirs
  <2>1. Inherits(c, Waiting(c), t)
    BY <1>1 DEF Heirs
  <2>2. n.state[t] \in Alive => c.state[t] \in Alive
    BY DEF Kept, Lives
  <2>3. n.suspend = c.suspend /\ n.base = c.base /\ n.priority = c.priority
    BY DEF Kept, Stays
  <2> QED
    BY <2>1, <2>2, <2>3, InheritsKept
<1>5. Claimed(n)
  BY <1>1 DEF Claimed, Kept, Stays
<1>6. Locks(n)
  BY <1>1 DEF Locks, Kept
<1> QED
  BY <1>2, <1>4, <1>5, <1>6 DEF Good

LEMMA GoodArrived ==
  ASSUME NEW c, Sound(c, {}), Chained(c, {}), Claimed(c), Locks(c),
         NEW n, Arrived(c, n, Waiting(c), {})
  PROVE  Good(n)
<1>1. Sound(n, {}) /\ Chained(n, {}) /\ Kept(c, n) /\ n.state = c.state
  BY DEF Arrived
<1>2. Waiting(n) = Waiting(c)
  BY <1>1, WaitingSame
<1>3. Heirs(n)
  BY <1>2 DEF Arrived, Heirs
<1>4. Claimed(n) /\ Locks(n)
  BY <1>1 DEF Claimed, Locks, Kept
<1> QED
  BY <1>1, <1>3, <1>4 DEF Good

\* The current thread is running and may be made to give way.
Runs(c) == c.disabled = FALSE /\ c.current # None /\ c.state[c.current] = "RUNNING"

\* After n the best thread runs, or the choice is still to be made.
Leads(c, n) ==
  \/ Settled(n)
  \/ /\ n.current = c.current /\ Fair(n)
     /\ c.current # None => n.state[c.current] = c.state[c.current]

LEMMA CalmLeads ==
  ASSUME NEW c \in Kernel, NEW s, NEW n, Calm(c, s), Leads(s, n)
  PROVE  Leads(c, n)
BY DEF Calm, Leads, Kernel

LEMMA RunsCalm ==
  ASSUME NEW c \in Kernel, NEW s, Calm(c, s), s.disabled = c.disabled, Runs(c)
  PROVE  Runs(s)
BY DEF Calm, Runs, Kernel

\* A call ends with Reschedule.
LEMMA Ends ==
  ASSUME NEW c, Good(c), Fair(c), NEW n, n = Reschedule(c)
  PROVE  /\ Good(n) /\ Kept(c, n) /\ Stays(c, n) /\ Leads(c, n)
         /\ Runs(c) => Settled(n)
         /\ c.disabled = FALSE /\ c.current # None /\ c.hint => Settled(n)
<1>1. Sound(c, {})
  BY DEF Good
<1>2. /\ Sound(n, {}) /\ Kept(c, n) /\ Stays(c, n)
      /\ IF ~c.hint \/ c.disabled \/ c.current = None THEN n = c ELSE Settled(n)
  BY <1>1, RescheduleSettles
<1>3. Good(n)
  BY <1>2, GoodStays
<1>4. Leads(c, n)
  BY <1>2 DEF Leads
<1>5. Runs(c) => Settled(n)
  BY <1>2, FairSettles DEF Runs
<1>6. c.disabled = FALSE /\ c.current # None /\ c.hint => Settled(n)
  BY <1>2
<1> QED
  BY <1>2, <1>3, <1>4, <1>5, <1>6

-----------------------------------------------------------------------------
(* Waking a queue *)

Emptied(c, q) == [c EXCEPT !.list[q] = <<>>]

\* n differs from c in queues, bits, states and the hint, which stays up.
AllSame(c, n) ==
  /\ n.detached = c.detached /\ n.base = c.base /\ n.priority = c.priority
  /\ n.suspend = c.suspend /\ n.mutex = c.mutex /\ n.active = c.active
  /\ n.held = c.held /\ n.owner = c.owner /\ n.lock = c.lock
  /\ n.disabled = c.disabled /\ n.current = c.current
  /\ c.hint => n.hint

\* The sleepers of an emptied queue are on no queue.
LEMMA EmptiedSound ==
  ASSUME NEW c, Sound(c, {}), NEW q \in SleepQueues, NEW n, n = Emptied(c, q)
  PROVE  /\ Sound(n, ToSet(c.list[q])) /\ AllSame(c, n)
         /\ n.state = c.state /\ n.queue = c.queue /\ n.hint = c.hint
         /\ \A t \in ToSet(c.list[q]) :
              t \in Thread /\ c.state[t] = "SLEEPING" /\ c.queue[t] = q
<1> DEFINE off == ToSet(c.list[q])
<1>1. c \in Kernel /\ q \in Queue
  BY QueueNames DEF Sound
<1>2. /\ n = [c EXCEPT !.list = [c.list EXCEPT ![q] = <<>>]]
      /\ n.list = [c.list EXCEPT ![q] = <<>>]
      /\ AllSame(c, n) /\ n.state = c.state /\ n.queue = c.queue /\ n.hint = c.hint
      /\ n.bits = c.bits
  BY <1>1 DEF Emptied, Kernel, AllSame
<1>3. c.list \in [Queue -> Seq(Thread)] /\ n.list \in [Queue -> Seq(Thread)]
  BY <1>1, <1>2 DEF Kernel
<1>4. n \in Kernel
  BY <1>1, <1>2, <1>3 DEF Kernel
<1>5. off \subseteq Thread
  BY <1>1, <1>3, LineLen
<1>6. ASSUME NEW t \in Thread, NEW r \in SleepQueues, OnQueue(c, t, r)
      PROVE  c.state[t] = "SLEEPING" /\ r = c.queue[t]
  <2>1. ThreadFits(c, t)
    BY DEF Sound, Fit
  <2>2. Ready(c, t) => c.priority[t] \in Priority
    BY <2>1 DEF Ready, ThreadFits, Alive
  <2>3. Ready(c, t) => r # RunQ(c.priority[t])
    BY <2>2, QueueNames
  <2> QED
    BY <1>6, <2>3 DEF OnQueue
<1>7. \A t \in off : t \in Thread /\ c.state[t] = "SLEEPING" /\ c.queue[t] = q
  <2>1. \A t \in Thread : t \in off => OnQueue(c, t, q)
    BY <1>1 DEF Sound, Placed
  <2> QED
    BY <1>5, <1>6, <2>1
<1>8. Placed(n, off)
  <2> SUFFICES ASSUME NEW t \in Thread, NEW r \in Queue
               PROVE  t \in ToSet(n.list[r]) <=> t \notin off /\ OnQueue(n, t, r)
    BY DEF Placed
  <2>1. OnQueue(n, t, r) <=> OnQueue(c, t, r)
    BY <1>2 DEF OnQueue, Ready, AllSame
  <2>2. t \in ToSet(c.list[r]) <=> OnQueue(c, t, r)
    BY DEF Sound, Placed
  <2>3. CASE r = q
    <3>1. n.list[r] = <<>>
      BY <1>2, <1>3, <2>3
    <3>2. t \notin ToSet(n.list[r])
      BY <3>1 DEF ToSet
    <3> QED
      BY <2>1, <2>2, <2>3, <3>2
  <2>4. CASE r # q
    <3>1. n.list[r] = c.list[r]
      BY <1>2, <1>3, <2>4
    <3>2. t \in off => ~OnQueue(c, t, r)
      BY <1>7, <2>4 DEF OnQueue, Ready
    <3> HIDE DEF off
    <3> QED
      BY <2>1, <2>2, <3>1, <3>2
  <2> QED
    BY <2>3, <2>4
<1>9. Fit(n, off)
  <2>1. \A t \in Thread : ThreadFits(c, t) => ThreadFits(n, t)
    BY <1>2 DEF ThreadFits, Ready, AllSame
  <2> QED
    BY <2>1 DEF Sound, Fit
<1>10. BitsRight(n)
  <2>1. \A p \in Priority : RunQ(p) # q /\ RunQ(p) \in Queue
    BY QueueNames
  <2>2. \A p \in Priority : n.list[RunQ(p)] = c.list[RunQ(p)]
    BY <1>2, <1>3, <2>1
  <2> QED
    BY <1>2, <2>2 DEF Sound, BitsRight
<1>11. NoneTwice(n)
  <2>1. IsInjective(<<>>)
    BY DEF IsInjective
  <2>2. \A r \in Queue : n.list[r] = IF r = q THEN <<>> ELSE c.list[r]
    BY <1>2, <1>3
  <2> QED
    BY <2>1, <2>2 DEF Sound, NoneTwice
<1>12. Ordered(n)
  <2>1. InOrderOf(<<>>, c.priority)
    BY DEF InOrderOf
  <2>2. \A r \in SleepQueues : n.list[r] = IF r = q THEN <<>> ELSE c.list[r]
    BY <1>2, <1>3, QueueNames
  <2>3. n.priority = c.priority
    BY <1>2 DEF AllSame
  <2> QED
    BY <2>1, <2>2, <2>3 DEF Sound, Ordered
<1> QED
  BY <1>2, <1>4, <1>7, <1>8, <1>9, <1>10, <1>11, <1>12 DEF Sound

\* One sleeper off its queue becomes ready.
Woken(c, n, t) ==
  /\ AllSame(c, n) /\ n.state = [c.state EXCEPT ![t] = "READY"]
  /\ n.hint \/ n.suspend[t] # 0
  /\ \A u \in Thread : n.state[u] = "SLEEPING" => n.queue[u] = c.queue[u]

AsReady(c, t) == [c EXCEPT !.state[t] = "READY"]

LEMMA WakeOne ==
  ASSUME NEW c, NEW off, Sound(c, off), NEW t \in Thread, t \in off,
         c.suspend[t] = 0 => c.priority[t] \in Priority,
         NEW n, n = Wake(c, t)
  PROVE  Sound(n, off \ {t}) /\ Woken(c, n, t)
<1> DEFINE a == AsReady(c, t)
<1>1. c \in Kernel
  BY DEF Sound
<1>2. /\ AllSame(c, a) /\ a.state = [c.state EXCEPT ![t] = "READY"]
      /\ a.list = c.list /\ a.bits = c.bits /\ a.queue = c.queue
      /\ a = [c EXCEPT !.state = [c.state EXCEPT ![t] = "READY"]]
  BY <1>1 DEF AsReady, AllSame, Kernel
<1>3. a \in Kernel
  <2>1. [c.state EXCEPT ![t] = "READY"] \in [Thread -> Alive \cup Dead \cup {"none"}]
    BY <1>1 DEF Kernel, Alive
  <2> HIDE DEF a
  <2> QED
    BY <1>1, <1>2, <2>1 DEF Kernel
<1>4. a.state[t] = "READY" /\ \A u \in Thread \ {t} : a.state[u] = c.state[u]
  BY <1>1, <1>2 DEF Kernel
<1>5. n = IF c.suspend[t] <= 0 THEN SetRun(a, t) ELSE a
  BY DEF Wake, AsReady
<1>6. c.suspend[t] \in Nat
  BY <1>1 DEF Kernel
<1> HIDE DEF a
<1>7. Sound(a, off)
  <2>1. Elsewhere(c, a, t)
    BY <1>2, <1>4 DEF Elsewhere, AllSame
  <2> QED
    BY <1>3, <2>1, OffChanges
<1>8. CASE c.suspend[t] = 0
  <2>1. n = SetRun(a, t)
    BY <1>5, <1>8
  <2>2. Ready(a, t) /\ a.priority[t] \in Priority
    BY <1>2, <1>4, <1>8 DEF Ready, AllSame
  <2>3. Sound(n, off \ {t}) /\ Moved(a, n) /\ n.hint = TRUE
    BY <1>7, <2>1, <2>2, SetRunPuts
  <2>4. Woken(c, n, t)
    <3>1. AllSame(c, n)
      BY <1>2, <2>3 DEF AllSame, Moved
    <3>2. n.state = [c.state EXCEPT ![t] = "READY"]
      BY <1>2, <2>3 DEF Moved
    <3>3. \A u \in Thread : n.state[u] = "SLEEPING" => n.queue[u] = c.queue[u]
      BY <1>2, <2>3 DEF Moved
    <3> QED
      BY <2>3, <3>1, <3>2, <3>3 DEF Woken
  <2> QED
    BY <2>3, <2>4
<1>9. CASE c.suspend[t] # 0
  <2>1. n = a
    BY <1>5, <1>6, <1>9
  <2>2. Unplaced(a, t) /\ ThreadFits(a, t)
    BY <1>2, <1>4, <1>9 DEF Unplaced, ThreadFits, Ready, AllSame
  <2>3. Sound(a, off \ {t})
    BY <1>7, <2>2, OnNone
  <2>4. Woken(c, n, t)
    BY <1>2, <1>9, <2>1 DEF Woken, AllSame
  <2> QED
    BY <2>1, <2>3, <2>4
<1> QED
  BY <1>8, <1>9

\* The members of line after the first i, who still sleep after i turns.
Behind(line, i) == {line[j] : j \in {h \in 1..Len(line) : h > i}}

WokeTo(c, line, i, s) ==
  /\ Sound(s, Behind(line, i)) /\ AllSame(c, s)
  /\ \A u \in Thread :
       IF \E j \in 1..Len(line) : j <= i /\ line[j] = u
         THEN s.state[u] = "READY" /\ (s.hint \/ s.suspend[u] # 0)
         ELSE s.state[u] = c.state[u]
              /\ (c.state[u] = "SLEEPING" => s.queue[u] = c.queue[u])

WakeStep(c, line, q, f) ==
  [i \in 0..Len(line) |-> IF i = 0 THEN Emptied(c, q) ELSE Wake(f[i - 1], line[i])]

LEMMA WakeTurn ==
  ASSUME NEW c, Sound(c, {}), NEW line \in Seq(Thread), IsInjective(line),
         \A u \in ToSet(line) : c.state[u] = "SLEEPING",
         NEW i \in 1..Len(line), NEW s, WokeTo(c, line, i - 1, s),
         NEW n, n = Wake(s, line[i])
  PROVE  WokeTo(c, line, i, n)
<1> DEFINE t == line[i]
           off == Behind(line, i - 1)
<1>1. Len(line) \in Nat /\ DOMAIN line = 1..Len(line) /\ t \in Thread /\ t \in ToSet(line)
  BY DEF ToSet
<1>2. t \in off /\ off \ {t} = Behind(line, i)
  <2>1. \A h \in 1..Len(line) : h > i - 1 <=> (h > i \/ h = i)
    BY <1>1
  <2>2. \A h \in 1..Len(line) : line[h] = t => h = i
    BY <1>1 DEF IsInjective
  <2>3. ~(i > i)
    OBVIOUS
  <2> QED
    BY <2>1, <2>2, <2>3 DEF Behind
<1>3. Sound(s, off) /\ AllSame(c, s)
  BY DEF WokeTo
<1>4. s.suspend[t] = 0 => s.priority[t] \in Priority
  <2>1. ThreadFits(c, t)
    BY <1>1 DEF Sound, Fit
  <2>2. c.state[t] = "SLEEPING"
    BY <1>1
  <2> QED
    BY <1>3, <2>1, <2>2 DEF ThreadFits, AllSame, Alive
<1> HIDE DEF off
<1>5. Sound(n, off \ {t}) /\ Woken(s, n, t)
  BY <1>1, <1>2, <1>3, <1>4, WakeOne
<1>6. AllSame(c, n)
  BY <1>3, <1>5 DEF AllSame, Woken
<1>7. s.state \in [Thread -> Alive \cup Dead \cup {"none"}]
  BY <1>3 DEF Sound, Kernel
<1>8. ASSUME NEW u \in Thread
      PROVE  IF \E j \in 1..Len(line) : j <= i /\ line[j] = u
               THEN n.state[u] = "READY" /\ (n.hint \/ n.suspend[u] # 0)
               ELSE n.state[u] = c.state[u]
                    /\ (c.state[u] = "SLEEPING" => n.queue[u] = c.queue[u])
  <2> DEFINE E(h) == \E j \in 1..Len(line) : j <= h /\ line[j] = u
  <2>0. E(i) <=> E(i - 1) \/ u = t
    <3>1. \A j \in 1..Len(line) : j <= i <=> j <= i - 1 \/ j = i
      BY <1>1
    <3> QED
      BY <3>1
  <2>1. IF E(i - 1)
          THEN s.state[u] = "READY" /\ (s.hint \/ s.suspend[u] # 0)
          ELSE s.state[u] = c.state[u]
               /\ (c.state[u] = "SLEEPING" => s.queue[u] = c.queue[u])
    BY DEF WokeTo
  <2>2. /\ s.hint => n.hint
        /\ n.suspend = s.suspend
    BY <1>5 DEF Woken, AllSame
  <2>3. CASE u = t
    <3>1. n.state[u] = "READY" /\ (n.hint \/ n.suspend[u] # 0)
      BY <1>5, <1>7, <2>3 DEF Woken
    <3> HIDE DEF E
    <3>2. E(i)
      BY <2>0, <2>3
    <3> QED
      BY <3>1, <3>2 DEF E
  <2>4. CASE u # t
    <3>1. n.state[u] = s.state[u]
      BY <1>5, <1>7, <2>4 DEF Woken
    <3>2. n.state[u] = "SLEEPING" => n.queue[u] = s.queue[u]
      BY <1>5 DEF Woken
    <3> HIDE DEF E
    <3>3. E(i) <=> E(i - 1)
      BY <2>0, <2>4
    <3>4. IF E(i)
            THEN n.state[u] = "READY" /\ (n.hint \/ n.suspend[u] # 0)
            ELSE n.state[u] = c.state[u]
                 /\ (c.state[u] = "SLEEPING" => n.queue[u] = c.queue[u])
      BY <2>1, <2>2, <3>1, <3>2, <3>3
    <3> QED
      BY <3>4 DEF E
  <2> QED
    BY <2>3, <2>4
<1> QED
  BY <1>2, <1>5, <1>6, <1>8 DEF WokeTo

LEMMA WakesAll ==
  ASSUME NEW c, Sound(c, {}), NEW q \in SleepQueues
  PROVE  \E s : /\ WokeTo(c, c.list[q], Len(c.list[q]), s)
                /\ Wakeup(c, q) = Reschedule(s)
<1> DEFINE line == c.list[q]
           U == Kernel
           J == [i \in 0..Len(line) |-> {s \in U : WokeTo(c, line, i, s)}]
           R == [i \in 1..Len(line) |-> [s \in U |-> Wake(s, line[i])]]
           base == Emptied(c, q)
<1>1. line \in Seq(Thread) /\ IsInjective(line) /\ Len(line) \in Nat /\ DOMAIN line = 1..Len(line)
  <2>1. c \in Kernel /\ q \in Queue
    BY QueueNames DEF Sound
  <2> QED
    BY <2>1, LineLen DEF Sound, NoneTwice, Kernel
<1>2. \A u \in ToSet(line) : u \in Thread /\ c.state[u] = "SLEEPING"
  BY EmptiedSound
<1>3. base \in J[0]
  <2>1. /\ Sound(base, ToSet(line)) /\ AllSame(c, base)
        /\ base.state = c.state /\ base.queue = c.queue
    BY EmptiedSound
  <2>2. ToSet(line) = Behind(line, 0)
    <3>1. {h \in 1..Len(line) : h > 0} = DOMAIN line
      BY <1>1
    <3> QED
      BY <3>1 DEF Behind, ToSet
  <2> HIDE DEF line, base
  <2>3. \A u \in Thread : ~ \E j \in 1..Len(line) : j <= 0 /\ line[j] = u
    BY <1>1
  <2>4. WokeTo(c, line, 0, base)
    BY <2>1, <2>2, <2>3 DEF WokeTo
  <2> QED
    BY <1>1, <2>1, <2>4 DEF Sound
<1>4. \A i \in 0..Len(line) : J[i] = {s \in U : WokeTo(c, line, i, s)}
  OBVIOUS
<1>5. \A i \in 1..Len(line) : \A s \in U : R[i][s] = Wake(s, line[i])
  OBVIOUS
<1>b. base = Emptied(c, q) /\ line = c.list[q]
  OBVIOUS
<1> HIDE DEF J, R, base, line
<1>6. ASSUME NEW i \in 1..Len(line), NEW s \in J[i - 1]
      PROVE  Wake(s, line[i]) \in J[i]
  <2>1. i - 1 \in 0..Len(line) /\ i \in 0..Len(line)
    BY <1>1
  <2>2. s \in U /\ WokeTo(c, line, i - 1, s)
    BY <1>4, <2>1
  <2>3. WokeTo(c, line, i, Wake(s, line[i]))
    BY <1>1, <1>2, <2>2, WakeTurn
  <2>4. Wake(s, line[i]) \in U
    BY <2>3 DEF WokeTo, Sound
  <2> QED
    BY <1>4, <2>1, <2>3, <2>4
<1> DEFINE n == Len(line)
<1>7. \E f : f = WakeStep(c, line, q, f)
  <2>1. \A i \in 0..Len(line) : J[i] \subseteq U
    BY <1>4
  <2>2. \A i \in 1..Len(line) : \A s \in J[i - 1] : R[i][s] \in J[i]
    <3> SUFFICES ASSUME NEW i \in 1..Len(line), NEW s \in J[i - 1]  PROVE R[i][s] \in J[i]
      OBVIOUS
    <3>1. i - 1 \in 0..Len(line)
      BY <1>1
    <3>2. s \in U
      BY <2>1, <3>1
    <3>3. R[i][s] = Wake(s, line[i])
      BY <1>5, <3>2
    <3> QED
      BY <1>6, <3>3
  <2> HIDE DEF U
  <2>3. PICK f \in [0..Len(line) -> U] :
          IsLoop(Len(line), R, base, f) /\ \A i \in 0..Len(line) : f[i] \in J[i]
    BY <1>1, <1>3, <2>1, <2>2, LoopExists
  <2>4. ASSUME NEW i \in 0..Len(line)
        PROVE  f[i] = IF i = 0 THEN Emptied(c, q) ELSE Wake(f[i - 1], line[i])
    <3>1. CASE i = 0
      BY <1>b, <2>3, <3>1 DEF IsLoop
    <3>2. CASE i # 0
      <4>1. i \in 1..Len(line) /\ i - 1 \in 0..Len(line)
        BY <1>1, <3>2
      <4>2. f[i] = R[i][f[i - 1]] /\ f[i - 1] \in U
        BY <2>3, <4>1 DEF IsLoop
      <4> QED
        BY <1>5, <3>2, <4>1, <4>2
    <3> QED
      BY <3>1, <3>2
  <2>5. f = [i \in 0..Len(line) |-> f[i]]
    BY <2>3
  <2> QED
    BY <2>4, <2>5, Zenon DEF WakeStep
<1> DEFINE g == CHOOSE f : f = WakeStep(c, line, q, f)
<1>8. Wakeup(c, q) = Reschedule(g[Len(line)])
  <2>1. Wakeup(c, q) = Reschedule((CHOOSE f : f = WakeStep(c, c.list[q], q, f))[Len(c.list[q])])
    BY Zenon DEF Wakeup, WakeStep, Emptied
  <2> QED
    BY <1>b, <2>1, Zenon
<1>9. g = WakeStep(c, line, q, g)
  BY <1>7, Zenon
<1> HIDE DEF g
<1>10. \A i \in 0..Len(line) : g[i] = IF i = 0 THEN base ELSE Wake(g[i - 1], line[i])
  BY <1>9, <1>b, Zenon DEF WakeStep
<1>11. g[0] \in J[0]
  <2>1. 0 \in 0..Len(line)
    BY <1>1
  <2> QED
    BY <1>3, <1>10, <2>1
<1>12. \A i \in 1..Len(line) : g[i - 1] \in J[i - 1] => g[i] \in J[i]
  <2> SUFFICES ASSUME NEW i \in 1..Len(line), g[i - 1] \in J[i - 1]  PROVE g[i] \in J[i]
    OBVIOUS
  <2>1. i \in 0..Len(line) /\ i # 0
    BY <1>1
  <2>2. g[i] = Wake(g[i - 1], line[i])
    BY <1>10, <2>1
  <2> QED
    BY <1>6, <2>2
<1>13. \A i \in 0..Len(line) : g[i] \in J[i]
  BY <1>1, <1>11, <1>12, LoopStays
<1>14. WokeTo(c, line, Len(line), g[Len(line)])
  <2>1. Len(line) \in 0..Len(line)
    BY <1>1
  <2> QED
    BY <1>4, <1>13, <2>1
<1> QED
  BY <1>8, <1>14, <1>b, Zenon

\* Nobody has to wait for what those on the queue q wait for, and only they may
\* wait for a mutex without owner.
Wakeable(c, q) ==
  /\ Sound(c, {}) /\ Chained(c, {}) /\ Heirs(c) /\ Locks(c)
  /\ \A u \in Thread : u \in ToSet(c.list[q]) => NextOwner(c, u) = None
  /\ \A u \in Thread : u \in ToSet(c.list[q])
       \/ (c.state[u] = "SLEEPING" /\ c.mutex[u] # None => c.owner[c.mutex[u]] # None)
  /\ \A u \in Thread : u = c.current => c.state[u] # "SLEEPING"

\* The queue is empty and the next thread not yet chosen.
Awake(c, s, q) ==
  /\ Good(s) /\ Kept(c, s) /\ Calm(c, s) /\ s.priority = c.priority
  /\ s.hint \/ \A u \in Thread : u \in ToSet(c.list[q]) => c.suspend[u] # 0
  /\ \A u \in Thread : s.state[u] = "SLEEPING" => u \notin ToSet(c.list[q])

LEMMA Wakes ==
  ASSUME NEW c, NEW q \in SleepQueues, Wakeable(c, q)
  PROVE  \E s : Awake(c, s, q) /\ Wakeup(c, q) = Reschedule(s)
<1> DEFINE line == c.list[q]
<1>1. Sound(c, {}) /\ Chained(c, {}) /\ Heirs(c) /\ Locks(c)
  BY DEF Wakeable
<1>2. PICK s : WokeTo(c, line, Len(line), s) /\ Wakeup(c, q) = Reschedule(s)
  BY <1>1, WakesAll
<1>3. line \in Seq(Thread) /\ Len(line) \in Nat
  <2>1. c \in Kernel /\ q \in Queue
    BY <1>1, QueueNames DEF Sound
  <2> QED
    BY <2>1 DEF Kernel
<1>4. \A u \in ToSet(line) : u \in Thread /\ c.state[u] = "SLEEPING"
  BY <1>1, EmptiedSound
<1>l. line = c.list[q]
  OBVIOUS
<1> HIDE DEF line
<1>5. Sound(s, {}) /\ AllSame(c, s)
  <2>1. Behind(line, Len(line)) = {}
    BY <1>3 DEF Behind
  <2> QED
    BY <1>2, <2>1 DEF WokeTo
<1>6. \A u \in Thread :
        IF u \in ToSet(line)
          THEN s.state[u] = "READY" /\ (s.hint \/ s.suspend[u] # 0)
          ELSE s.state[u] = c.state[u]
               /\ (c.state[u] = "SLEEPING" => s.queue[u] = c.queue[u])
  <2>1. \A u : u \in ToSet(line) <=> \E j \in 1..Len(line) : j <= Len(line) /\ line[j] = u
    BY <1>3, LineLen
  <2> QED
    BY <1>2, <2>1 DEF WokeTo
<1>7. Kept(c, s)
  <2>1. ASSUME NEW u \in Thread  PROVE Lives(c, s, u)
    BY <1>4, <1>5, <1>6 DEF Lives, AllSame, Alive
  <2> QED
    BY <1>5, <2>1 DEF Kept, AllSame
<1>8. Chained(s, {})
  BY <1>1, <1>7, ChainedKept
<1>9. Waiting(s) = Waiting(c)
  <2>1. ASSUME NEW u \in Thread, NEW t \in Thread
        PROVE  <<u, t>> \in Waiting(s) <=> <<u, t>> \in Waiting(c)
    <3>1. <<u, t>> \in Waiting(s) <=> NextOwner(s, u) = t
      BY <1>5, <1>8, WaitingIs
    <3>2. <<u, t>> \in Waiting(c) <=> NextOwner(c, u) = t
      BY <1>1, WaitingIs
    <3>3. NextOwner(s, u) = NextOwner(c, u)
      <4>1. CASE u \in ToSet(line)
        <5>1. NextOwner(c, u) = None
          BY <1>l, <4>1 DEF Wakeable
        <5>2. s.state[u] = "READY"
          BY <1>6, <4>1
        <5> QED
          BY <5>1, <5>2 DEF NextOwner
      <4>2. CASE u \notin ToSet(line)
        BY <1>5, <1>6, <4>2 DEF NextOwner, AllSame
      <4> QED
        BY <4>1, <4>2
    <3> QED
      BY <3>1, <3>2, <3>3
  <2>2. Waiting(s) \subseteq Thread \X Thread /\ Waiting(c) \subseteq Thread \X Thread
    BY DEF Waiting
  <2> QED
    BY <2>1, <2>2
<1>10. Heirs(s)
  <2> SUFFICES ASSUME NEW t \in Thread  PROVE Inherits(s, Waiting(c), t)
    BY <1>9 DEF Heirs
  <2>1. Inherits(c, Waiting(c), t)
    BY <1>1 DEF Heirs
  <2>2. s.state[t] \in Alive => c.state[t] \in Alive
    BY <1>7 DEF Kept, Lives
  <2>3. s.suspend = c.suspend /\ s.base = c.base /\ s.priority = c.priority
    BY <1>5 DEF AllSame
  <2> QED
    BY <2>1, <2>2, <2>3, InheritsKept
<1>11. Claimed(s)
  <2> SUFFICES ASSUME NEW u \in Thread, s.state[u] = "SLEEPING", s.mutex[u] # None
               PROVE  s.owner[s.mutex[u]] # None
    BY DEF Claimed
  <2>1. u \notin ToSet(line) /\ c.state[u] = "SLEEPING"
    BY <1>6
  <2> QED
    BY <1>5, <1>l, <2>1 DEF Wakeable, AllSame
<1>12. Locks(s)
  BY <1>1, <1>5 DEF Locks, AllSame
<1>13. Good(s)
  BY <1>5, <1>8, <1>10, <1>11, <1>12 DEF Good
<1>14. Calm(c, s)
  <2>1. s.current = c.current /\ (c.hint => s.hint) /\ s.priority = c.priority
        /\ s.suspend = c.suspend
    BY <1>5 DEF AllSame
  <2>2. \A u \in Thread : u = c.current => s.state[u] = c.state[u]
    BY <1>4, <1>6 DEF Wakeable
  <2>3. s.hint \/ \A u \in Thread : Ready(s, u) => Ready(c, u)
    BY <1>6, <2>1 DEF Ready
  <2> QED
    BY <2>1, <2>2, <2>3 DEF Calm
<1>15. s.hint \/ \A u \in Thread : u \in ToSet(c.list[q]) => c.suspend[u] # 0
  BY <1>5, <1>6, <1>l DEF AllSame
<1>16. \A u \in Thread : s.state[u] = "SLEEPING" => u \notin ToSet(c.list[q])
  BY <1>6, <1>l
<1>17. Awake(c, s, q)
  BY <1>5, <1>7, <1>13, <1>14, <1>15, <1>16 DEF Awake, AllSame
<1> QED
  BY <1>2, <1>17

\* What a call leaves behind.
Called(c, n) ==
  /\ Good(n) /\ Kept(c, n) /\ n.priority = c.priority /\ Leads(c, n)
  /\ Runs(c) => Settled(n)

\* Nobody sleeps on the queue q.
Deserted(c, q) == \A u \in Thread : c.state[u] = "SLEEPING" => c.queue[u] # q

LEMMA WakeupGood ==
  ASSUME NEW c, NEW q \in SleepQueues, Wakeable(c, q), Fair(c), NEW n, n = Wakeup(c, q)
  PROVE  Called(c, n) /\ Deserted(n, q)
<1>1. PICK s : Awake(c, s, q) /\ Wakeup(c, q) = Reschedule(s)
  BY Wakes
<1>2. Good(s) /\ Kept(c, s) /\ Calm(c, s) /\ s.priority = c.priority
  BY <1>1 DEF Awake
<1>3. c \in Kernel
  BY DEF Wakeable, Sound
<1>4. Fair(s)
  BY <1>2, <1>3, CalmFair
<1>5. Good(n) /\ Kept(s, n) /\ Stays(s, n) /\ Leads(s, n) /\ (Runs(s) => Settled(n))
  BY <1>1, <1>2, <1>4, Ends
<1>6. Kept(c, n) /\ n.priority = c.priority
  BY <1>2, <1>5, KeptTwice DEF Stays
<1>7. Leads(c, n)
  BY <1>2, <1>3, <1>5, CalmLeads
<1>8. Runs(c) => Settled(n)
  <2>1. s.disabled = c.disabled
    BY <1>2 DEF Kept
  <2> QED
    BY <1>2, <1>3, <1>5, <2>1, RunsCalm
<1>9. ASSUME NEW u \in Thread, n.state[u] = "SLEEPING", n.queue[u] = q  PROVE FALSE
  <2>1. s.state[u] = "SLEEPING" /\ s.queue[u] = q
    BY <1>5, <1>9 DEF Kept, Lives
  <2>2. c.state[u] = "SLEEPING" /\ c.queue[u] = q
    BY <1>2, <2>1 DEF Kept, Lives
  <2>3. u \in ToSet(c.list[q])
    <3>1. Placed(c, {}) /\ q \in Queue
      BY QueueNames DEF Wakeable, Sound
    <3> QED
      BY <2>2, <3>1 DEF Placed, OnQueue
  <2> QED
    BY <1>1, <2>1, <2>3 DEF Awake
<1>10. Deserted(n, q)
  BY <1>9 DEF Deserted
<1> QED
  BY <1>5, <1>6, <1>7, <1>8, <1>10 DEF Called

\* A queue of a driver or of a join: nobody there waits for a mutex.
LEMMA WaitQueueGood ==
  ASSUME NEW c, Good(c), NEW q \in SleepQueues, \A m \in Mutex : q # MutexQ(m),
         \A u \in Thread : u = c.current => c.state[u] # "SLEEPING"
  PROVE  Wakeable(c, q)
<1>1. Sound(c, {}) /\ Chained(c, {}) /\ Heirs(c) /\ Locks(c) /\ Claimed(c) /\ c \in Kernel
  BY DEF Good, Sound
<1>2. \A u \in ToSet(c.list[q]) : u \in Thread /\ c.state[u] = "SLEEPING" /\ c.queue[u] = q
  BY <1>1, EmptiedSound
<1>3. ASSUME NEW u \in Thread, u \in ToSet(c.list[q])  PROVE NextOwner(c, u) = None
  <2>1. c.mutex[u] \in Mutex \cup {None}
    BY <1>1 DEF Kernel
  <2>2. c.mutex[u] = None
    BY <1>1, <1>2, <1>3, <2>1 DEF Chained
  <2> QED
    BY <2>2 DEF NextOwner
<1> QED
  BY <1>1, <1>3 DEF Wakeable, Claimed

-----------------------------------------------------------------------------
(* Giving up a mutex *)

\* The mutex m of t is free, t holds those of h.
Free(c, t, h, m) ==
  [c EXCEPT !.held[t] = h, !.lock[m] = 0, !.owner[m] = None]

OnlyFreed(c, n, t, h, m) ==
  /\ n.state = c.state /\ n.detached = c.detached /\ n.base = c.base
  /\ n.priority = c.priority /\ n.suspend = c.suspend /\ n.mutex = c.mutex
  /\ n.queue = c.queue /\ n.active = c.active /\ n.list = c.list /\ n.bits = c.bits
  /\ n.hint = c.hint /\ n.disabled = c.disabled /\ n.current = c.current
  /\ n.held = [c.held EXCEPT ![t] = h] /\ n.lock = [c.lock EXCEPT ![m] = 0]
  /\ n.owner = [c.owner EXCEPT ![m] = None]

Released(c, n, t, m) ==
  /\ Sound(n, {}) /\ Chained(n, {}) /\ Locks(n)
  /\ \A u \in Thread, v \in Thread \ {t} : <<u, v>> \in Waiting(n) <=> <<u, v>> \in Waiting(c)
  /\ \A u \in Thread : <<u, t>> \in Waiting(n) => <<u, t>> \in Waiting(c)
  /\ \A u \in Thread : <<u, t>> \in Waiting(c) =>
       <<u, t>> \in Waiting(n) \/ u \in ToSet(c.list[MutexQ(m)])
  /\ \A u \in Thread \ {t} : Inherits(n, Waiting(n), u)

LEMMA FreeReleases ==
  ASSUME NEW c, Good(c), NEW t \in Thread, NEW m \in Mutex, c.owner[m] = t,
         NEW h, IsLine(h, Mutex, ToSet(c.held[t]) \ {m}),
         NEW n, n = Free(c, t, h, m)
  PROVE  OnlyFreed(c, n, t, h, m) /\ Released(c, n, t, m)
<1>1. Sound(c, {}) /\ Chained(c, {}) /\ Heirs(c) /\ Locks(c) /\ c \in Kernel
      /\ None \notin Thread
  BY ThreadAssumption DEF Good, Sound
<1>2. OnlyFreed(c, n, t, h, m)
  BY <1>1 DEF Free, OnlyFreed, Kernel
<1>3. n \in Kernel
  <2>1. n.held \in [Thread -> Seq(Mutex)]
    BY <1>1, <1>2 DEF OnlyFreed, Kernel, IsLine
  <2>2. n.lock \in [Mutex -> Nat] /\ n.owner \in [Mutex -> Thread \cup {None}]
    BY <1>1, <1>2 DEF OnlyFreed, Kernel
  <2>3. n = [c EXCEPT !.held = n.held, !.lock = n.lock, !.owner = n.owner]
    BY <1>1 DEF Free, Kernel
  <2> DEFINE a == n.held
             b == n.lock
             o == n.owner
  <2> HIDE DEF a, b, o
  <2>4. ASSUME a \in [Thread -> Seq(Mutex)], b \in [Mutex -> Nat], o \in [Mutex -> Thread \cup {None}]
        PROVE  [c EXCEPT !.held = a, !.lock = b, !.owner = o] \in Kernel
    BY <1>1, <2>4 DEF Kernel
  <2> QED
    BY <2>1, <2>2, <2>3, <2>4 DEF a, b, o
<1>4. Sound(n, {})
  <2>1. /\ n.list = c.list /\ n.bits = c.bits /\ n.state = c.state
        /\ n.priority = c.priority /\ n.queue = c.queue /\ n.suspend = c.suspend
    BY <1>2 DEF OnlyFreed
  <2> QED
    BY <1>1, <1>3, <2>1, SameReady
<1>5. /\ \A v \in Thread : n.held[v] = IF v = t THEN h ELSE c.held[v]
      /\ \A r \in Mutex : n.owner[r] = IF r = m THEN None ELSE c.owner[r]
      /\ \A r \in Mutex : n.lock[r] = IF r = m THEN 0 ELSE c.lock[r]
      /\ ToSet(h) = ToSet(c.held[t]) \ {m} /\ IsInjective(h)
  BY <1>1, <1>2 DEF OnlyFreed, Kernel, IsLine
<1>6. Chained(n, {})
  <2>1. ASSUME NEW r \in Mutex, NEW v \in Thread
        PROVE  n.owner[r] = v <=> r \in ToSet(n.held[v])
    <3>1. \A w \in Thread : c.owner[r] = w <=> r \in ToSet(c.held[w])
      BY <1>1 DEF Chained
    <3> QED
      BY <1>1, <1>5, <3>1
  <2>2. /\ n.state = c.state /\ n.priority = c.priority /\ n.queue = c.queue
        /\ n.suspend = c.suspend /\ n.mutex = c.mutex
    BY <1>2 DEF OnlyFreed
  <2>3. \A v \in Thread : c.mutex[v] \in Mutex \cup {None}
    BY <1>1 DEF Kernel
  <2> QED
    BY <1>1, <1>5, <2>1, <2>2, <2>3 DEF Chained
<1>7. Locks(n)
  BY <1>1, <1>5 DEF Locks
<1>8. /\ \A u \in Thread, v \in Thread \ {t} : <<u, v>> \in Waiting(n) <=> <<u, v>> \in Waiting(c)
      /\ \A u \in Thread : <<u, t>> \in Waiting(n) => <<u, t>> \in Waiting(c)
      /\ \A u \in Thread : <<u, t>> \in Waiting(c) =>
           <<u, t>> \in Waiting(n) \/ u \in ToSet(c.list[MutexQ(m)])
  <2>1. \A u, v \in Thread : <<u, v>> \in Waiting(n) <=> Waits(n, u, v)
    BY DEF Waiting
  <2>2. \A u, v \in Thread : <<u, v>> \in Waiting(c) <=> Waits(c, u, v)
    BY DEF Waiting
  <2>3. n.list = c.list
    BY <1>2 DEF OnlyFreed
  <2> QED
    BY <1>5, <2>1, <2>2, <2>3 DEF Waits
<1>9. ASSUME NEW u \in Thread \ {t}  PROVE Inherits(n, Waiting(n), u)
  <2>1. Inherits(c, Waiting(c), u)
    BY <1>1 DEF Heirs
  <2>2. Inherits(c, Waiting(n), u)
    BY <1>8, <2>1 DEF Inherits, IsBest
  <2>3. n.state = c.state /\ n.suspend = c.suspend /\ n.base = c.base /\ n.priority = c.priority
    BY <1>2 DEF OnlyFreed
  <2> QED
    BY <2>2, <2>3, InheritsKept
<1> QED
  BY <1>2, <1>4, <1>6, <1>7, <1>8, <1>9 DEF Released

\* The waiters of a mutex without owner may wake.
LEMMA FreeWakeable ==
  ASSUME NEW c, Sound(c, {}), Chained(c, {}), Heirs(c), Locks(c), NEW m \in Mutex,
         c.owner[m] = None,
         \A u \in Thread : c.state[u] = "SLEEPING" /\ c.mutex[u] \notin {None, m} =>
                             c.owner[c.mutex[u]] # None,
         \A u \in Thread : u = c.current => c.state[u] # "SLEEPING"
  PROVE  Wakeable(c, MutexQ(m))
<1> DEFINE q == MutexQ(m)
<1>1. q \in SleepQueues /\ q \in Queue /\ c \in Kernel
  BY QueueNames DEF Sound
<1>2. \A u \in ToSet(c.list[q]) : u \in Thread /\ c.state[u] = "SLEEPING" /\ c.queue[u] = q
  BY <1>1, EmptiedSound
<1>3. ASSUME NEW u \in Thread, u \in ToSet(c.list[q])  PROVE NextOwner(c, u) = None
  <2>1. c.mutex[u] = m
    BY <1>2, <1>3 DEF Chained
  <2> QED
    BY <2>1 DEF NextOwner
<1>4. ASSUME NEW u \in Thread, u \notin ToSet(c.list[q]), c.state[u] = "SLEEPING", c.mutex[u] # None
      PROVE  c.owner[c.mutex[u]] # None
  <2>1. c.mutex[u] = m => c.queue[u] = q
    BY <1>4 DEF Chained
  <2>2. c.queue[u] = q => u \in ToSet(c.list[q])
    BY <1>1, <1>4 DEF Sound, Placed, OnQueue
  <2> QED
    BY <1>4, <2>1, <2>2
<1> HIDE DEF q
<1>5. /\ \A u \in Thread : u \in ToSet(c.list[q]) => NextOwner(c, u) = None
      /\ \A u \in Thread : u \in ToSet(c.list[q])
           \/ (c.state[u] = "SLEEPING" /\ c.mutex[u] # None => c.owner[c.mutex[u]] # None)
  BY <1>3, <1>4
<1> QED
  BY <1>5 DEF q, Wakeable

\* No call gives anything to other threads: the owners are the same or gone,
\* the dead are dead, and nobody is born.
Spares(c, n) ==
  /\ n.disabled = c.disabled /\ n.mutex = c.mutex
  /\ \A t \in Thread :
       /\ n.suspend[t] <= c.suspend[t]
       /\ n.state[t] \in Alive <=> c.state[t] \in Alive
       /\ c.state[t] \notin Alive => n.state[t] = c.state[t]
  /\ \A m \in Mutex : n.owner[m] \in {c.owner[m], None} /\ n.lock[m] <= c.lock[m]

\* Nobody begins to wait for the end of a thread.
NoneJoins(c, n) ==
  \A u, t \in Thread : n.state[u] = "SLEEPING" /\ n.queue[u] = JoinQ(t) =>
    c.state[u] = "SLEEPING" /\ c.queue[u] = JoinQ(t)

Outlives(c, n) == Spares(c, n) /\ NoneJoins(c, n)

LEMMA SparesTwice ==
  ASSUME NEW c \in Kernel, NEW s \in Kernel, NEW n \in Kernel, Spares(c, s), Spares(s, n)
  PROVE  Spares(c, n)
<1>1. \A t \in Thread : c.suspend[t] \in Nat /\ s.suspend[t] \in Nat /\ n.suspend[t] \in Nat
  BY DEF Kernel
<1>2. \A m \in Mutex : c.lock[m] \in Nat /\ s.lock[m] \in Nat /\ n.lock[m] \in Nat
  BY DEF Kernel
<1>3. ASSUME NEW t \in Thread
      PROVE  /\ n.suspend[t] <= c.suspend[t]
             /\ n.state[t] \in Alive <=> c.state[t] \in Alive
             /\ c.state[t] \notin Alive => n.state[t] = c.state[t]
  BY <1>1 DEF Spares
<1>4. ASSUME NEW m \in Mutex
      PROVE  n.owner[m] \in {c.owner[m], None} /\ n.lock[m] <= c.lock[m]
  BY <1>2 DEF Spares
<1> QED
  BY <1>3, <1>4 DEF Spares

LEMMA OutlivesTwice ==
  ASSUME NEW c \in Kernel, NEW s \in Kernel, NEW n \in Kernel, Outlives(c, s), Outlives(s, n)
  PROVE  Outlives(c, n)
<1>1. Spares(c, n)
  BY SparesTwice DEF Outlives
<1>2. NoneJoins(c, n)
  BY DEF Outlives, NoneJoins
<1> QED
  BY <1>1, <1>2 DEF Outlives

LEMMA KeptOutlives ==
  ASSUME NEW c \in Kernel, NEW n, Kept(c, n)
  PROVE  Outlives(c, n)
<1>1. Spares(c, n)
  BY DEF Kept, Lives, Spares, Kernel
<1>2. NoneJoins(c, n)
  BY DEF Kept, Lives, NoneJoins
<1> QED
  BY <1>1, <1>2 DEF Outlives

\* One turn of the loop that gives up the mutexes of a dead thread.
LEMMA UnlockFirstGood ==
  ASSUME NEW c, Good(c), Fair(c), NEW t \in Thread, c.state[t] \notin Alive,
         c.held[t] # <<>>, \A u \in Thread : u = c.current => c.state[u] # "SLEEPING",
         NEW n, n = UnlockFirst(c, t)
  PROVE  Good(n) /\ Outlives(c, n) /\ Leads(c, n)
<1> DEFINE m == Head(c.held[t])
           h == Tail(c.held[t])
           f == Free(c, t, h, m)
<1>1. Sound(c, {}) /\ Chained(c, {}) /\ Heirs(c) /\ Locks(c) /\ Claimed(c) /\ c \in Kernel
      /\ None \notin Thread /\ None \notin Mutex
  BY ThreadAssumption DEF Good, Sound
<1>2. m \in Mutex /\ m \in ToSet(c.held[t]) /\ IsLine(h, Mutex, ToSet(c.held[t]) \ {m})
  <2>1. c.held[t] \in Seq(Mutex) /\ IsInjective(c.held[t])
    BY <1>1 DEF Kernel, Locks
  <2> QED
    BY <2>1, TailLine
<1>3. c.owner[m] = t
  BY <1>1, <1>2 DEF Chained
<1>4. n = Wakeup(f, MutexQ(m))
  <2>1. f = [c EXCEPT !.held[t] = Tail(@), !.lock[m] = 0, !.owner[m] = None]
    BY <1>1 DEF Free, Kernel
  <2> HIDE DEF f
  <2> QED
    BY <2>1 DEF UnlockFirst
<1>f. f = Free(c, t, h, m)
  OBVIOUS
<1> HIDE DEF f, m, h
<1>5. OnlyFreed(c, f, t, h, m) /\ Released(c, f, t, m)
  BY <1>2, <1>3, <1>f, FreeReleases
<1>6. Heirs(f)
  <2>1. Inherits(f, Waiting(f), t)
    BY <1>5 DEF Inherits, OnlyFreed
  <2> QED
    BY <1>5, <2>1 DEF Released, Heirs
<1>7. Wakeable(f, MutexQ(m))
  <2>1. f.owner[m] = None
    BY <1>1, <1>2, <1>5 DEF OnlyFreed, Kernel
  <2>2. \A u \in Thread : f.state[u] = "SLEEPING" /\ f.mutex[u] \notin {None, m} =>
                             f.owner[f.mutex[u]] # None
    <3>1. \A u \in Thread : c.mutex[u] \in Mutex \cup {None}
      BY <1>1 DEF Kernel
    <3>2. \A r \in Mutex : r # m => f.owner[r] = c.owner[r]
      BY <1>1, <1>5 DEF OnlyFreed, Kernel
    <3> QED
      BY <1>1, <1>5, <3>1, <3>2 DEF OnlyFreed, Claimed
  <2>3. \A u \in Thread : u = f.current => f.state[u] # "SLEEPING"
    BY <1>5 DEF OnlyFreed
  <2> QED
    BY <1>2, <1>5, <1>6, <2>1, <2>2, <2>3, FreeWakeable DEF Released
<1>8. Calm(c, f)
  BY <1>5 DEF OnlyFreed, Calm, Ready
<1>9. Called(f, n)
  <2>1. Fair(f)
    BY <1>1, <1>8, CalmFair
  <2> QED
    BY <1>2, <1>4, <1>7, <2>1, QueueNames, WakeupGood
<1>10. Outlives(c, f)
  <2>1. \A r \in Mutex : c.lock[r] \in Nat /\ f.lock[r] = IF r = m THEN 0 ELSE c.lock[r]
    BY <1>1, <1>5 DEF OnlyFreed, Kernel
  <2>2. \A r \in Mutex : f.lock[r] <= c.lock[r]
    BY <2>1
  <2>3. \A r \in Mutex : f.owner[r] \in {c.owner[r], None}
    BY <1>1, <1>5 DEF OnlyFreed, Kernel
  <2>4. \A u \in Thread : c.suspend[u] \in Nat
    BY <1>1 DEF Kernel
  <2>5. f.suspend = c.suspend /\ f.state = c.state /\ f.disabled = c.disabled /\ f.mutex = c.mutex
    BY <1>5 DEF OnlyFreed
  <2> QED
    <3>1. Spares(c, f)
      BY <2>2, <2>3, <2>4, <2>5 DEF Spares
    <3>2. NoneJoins(c, f)
      BY <1>5 DEF OnlyFreed, NoneJoins
    <3> QED
      BY <3>1, <3>2 DEF Outlives
<1>11. f \in Kernel /\ n \in Kernel
  BY <1>5, <1>9 DEF Released, Called, Good, Sound
<1>12. Outlives(f, n)
  BY <1>9, <1>11, KeptOutlives DEF Called
<1> QED
  BY <1>1, <1>8, <1>9, <1>10, <1>11, <1>12, OutlivesTwice, CalmLeads DEF Called

\* Between two turns of the loop run by u for the dead thread t.
Freeing(c, u, t, n) ==
  /\ Good(n) /\ Outlives(c, n) /\ n.state[t] \notin Alive
  /\ Settled(n) \/ (n.current = u /\ Fair(n) /\ n.state[u] = c.state[u])

UnlockTurn(u, t, l) ==
  IF l.current # u \/ l.held[t] = <<>> THEN l ELSE UnlockFirst(l, t)

LEMMA UnlockTurnFrees ==
  ASSUME NEW c \in Kernel, NEW u \in Thread, NEW t \in Thread,
         c.state[u] = "RUNNING" \/ c.state[u] \notin Alive,
         NEW s, Freeing(c, u, t, s), NEW n, n = UnlockTurn(u, t, s)
  PROVE  Freeing(c, u, t, n)
<1>1. CASE s.current # u \/ s.held[t] = <<>>
  BY <1>1 DEF UnlockTurn
<1>2. CASE ~(s.current # u \/ s.held[t] = <<>>)
  <2>1. n = UnlockFirst(s, t)
    BY <1>2 DEF UnlockTurn
  <2>2. Good(s) /\ Outlives(c, s) /\ s.state[t] \notin Alive /\ s \in Kernel /\ u # None
    BY ThreadAssumption DEF Freeing, Good, Sound
  <2>3. Fair(s)
    BY DEF Freeing, Fair
  <2>4. s.state[u] = c.state[u]
    <3>1. Settled(s) => s.state[u] = "RUNNING"
      BY <1>2, <2>2 DEF Settled
    <3>2. s.state[u] = "RUNNING" => c.state[u] \in Alive
      BY <2>2 DEF Outlives, Spares, Alive
    <3> QED
      BY <3>1, <3>2 DEF Freeing
  <2>5. \A v \in Thread : v = s.current => s.state[v] # "SLEEPING"
    BY <1>2, <2>4 DEF Alive
  <2>6. Good(n) /\ Outlives(s, n) /\ Leads(s, n)
    BY <1>2, <2>1, <2>2, <2>3, <2>5, UnlockFirstGood
  <2>7. Outlives(c, n)
    BY <2>2, <2>6, OutlivesTwice DEF Good, Sound
  <2>8. n.state[t] \notin Alive
    BY <2>2, <2>6 DEF Outlives, Spares
  <2>9. Settled(n) \/ (n.current = u /\ Fair(n) /\ n.state[u] = c.state[u])
    BY <1>2, <2>2, <2>4, <2>6 DEF Leads
  <2> QED
    BY <2>6, <2>7, <2>8, <2>9 DEF Freeing
<1> QED
  BY <1>1, <1>2

FreeStep(c, u, t, f) ==
  [i \in 0..Len(c.held[t]) |-> IF i = 0 THEN c ELSE UnlockTurn(u, t, f[i - 1])]

\* The loop as far as it gets.
LEMMA UnlockAllFrees ==
  ASSUME NEW c, NEW u \in Thread, NEW t \in Thread, Freeing(c, u, t, c),
         c.state[u] = "RUNNING" \/ c.state[u] \notin Alive,
         NEW n, n = UnlockAll(c, u, t)
  PROVE  Freeing(c, u, t, n)
<1> DEFINE N == Len(c.held[t])
           J == [i \in 0..N |-> {s \in Kernel : Freeing(c, u, t, s)}]
           R == [i \in 1..N |-> [s \in Kernel |-> UnlockTurn(u, t, s)]]
<1>1. c \in Kernel
  BY DEF Freeing, Good, Sound
<1>2. N \in Nat
  <2>1. c.held[t] \in Seq(Mutex)
    BY <1>1 DEF Kernel
  <2> QED
    BY <2>1
<1>n. N = Len(c.held[t])
  OBVIOUS
<1> HIDE DEF N
<1>3. \A i \in 0..N : J[i] = {s \in Kernel : Freeing(c, u, t, s)}
  OBVIOUS
<1>4. \A i \in 1..N : \A s \in Kernel : R[i][s] = UnlockTurn(u, t, s)
  OBVIOUS
<1> HIDE DEF J, R
<1>5. c \in J[0]
  BY <1>1, <1>2, <1>3
<1>6. ASSUME NEW i \in 1..N, NEW s \in J[i - 1]  PROVE UnlockTurn(u, t, s) \in J[i]
  <2>1. i - 1 \in 0..N /\ i \in 0..N
    BY <1>2
  <2>2. Freeing(c, u, t, s)
    BY <1>3, <2>1
  <2>3. Freeing(c, u, t, UnlockTurn(u, t, s))
    BY <1>1, <2>2, UnlockTurnFrees
  <2>4. UnlockTurn(u, t, s) \in Kernel
    BY <2>3 DEF Freeing, Good, Sound
  <2> QED
    BY <1>3, <2>1, <2>3, <2>4
<1>7. \E f : f = FreeStep(c, u, t, f)
  <2>1. \A i \in 0..N : J[i] \subseteq Kernel
    BY <1>3
  <2>2. \A i \in 1..N : \A s \in J[i - 1] : R[i][s] \in J[i]
    <3> SUFFICES ASSUME NEW i \in 1..N, NEW s \in J[i - 1]  PROVE R[i][s] \in J[i]
      OBVIOUS
    <3>1. i - 1 \in 0..N
      BY <1>2
    <3>2. s \in Kernel
      BY <2>1, <3>1
    <3>3. R[i][s] = UnlockTurn(u, t, s)
      BY <1>4, <3>2
    <3> QED
      BY <1>6, <3>3
  <2>3. PICK f \in [0..N -> Kernel] : IsLoop(N, R, c, f) /\ \A i \in 0..N : f[i] \in J[i]
    BY <1>2, <1>5, <2>1, <2>2, LoopExists
  <2>4. ASSUME NEW i \in 0..N
        PROVE  f[i] = IF i = 0 THEN c ELSE UnlockTurn(u, t, f[i - 1])
    <3>1. CASE i = 0
      BY <2>3, <3>1 DEF IsLoop
    <3>2. CASE i # 0
      <4>1. i \in 1..N /\ i - 1 \in 0..N
        BY <1>2, <3>2
      <4>2. f[i] = R[i][f[i - 1]] /\ f[i - 1] \in Kernel
        BY <2>3, <4>1 DEF IsLoop
      <4> QED
        BY <1>4, <3>2, <4>1, <4>2
    <3> QED
      BY <3>1, <3>2
  <2>5. f = [i \in 0..N |-> f[i]]
    BY <2>3
  <2> QED
    BY <1>n, <2>4, <2>5, Zenon DEF FreeStep
<1> DEFINE g == CHOOSE f : f = FreeStep(c, u, t, f)
<1>8. n = g[N]
  BY <1>n, Zenon DEF UnlockAll, FreeStep, UnlockTurn
<1>9. g = FreeStep(c, u, t, g)
  BY <1>7, Zenon
<1> HIDE DEF g
<1>10. \A i \in 0..N : g[i] = IF i = 0 THEN c ELSE UnlockTurn(u, t, g[i - 1])
  BY <1>9, <1>n, Zenon DEF FreeStep
<1>11. g[0] \in J[0]
  <2>1. 0 \in 0..N
    BY <1>2
  <2> QED
    BY <1>5, <1>10, <2>1
<1>12. \A i \in 1..N : g[i - 1] \in J[i - 1] => g[i] \in J[i]
  <2> SUFFICES ASSUME NEW i \in 1..N, g[i - 1] \in J[i - 1]  PROVE g[i] \in J[i]
    OBVIOUS
  <2>1. i \in 0..N /\ i # 0
    BY <1>2
  <2>2. g[i] = UnlockTurn(u, t, g[i - 1])
    BY <1>10, <2>1
  <2> QED
    BY <1>6, <2>2
<1>13. \A i \in 0..N : g[i] \in J[i]
  BY <1>2, <1>11, <1>12, LoopStays
<1>14. N \in 0..N
  BY <1>2
<1> QED
  BY <1>3, <1>8, <1>13, <1>14

\* Who holds no mutex gives up none.
LEMMA UnlockAllNone ==
  ASSUME NEW c, NEW u, NEW t, c.held[t] = <<>>
  PROVE  UnlockAll(c, u, t) = c
<1> DEFINE N == Len(c.held[t])
           z == [i \in 0..N |-> c]
           g == CHOOSE f : f = FreeStep(c, u, t, f)
<1>1. N = 0 /\ 0..N = {0} /\ 0 \in 0..N
  OBVIOUS
<1>n. N = Len(c.held[t]) /\ z = [i \in 0..N |-> c] /\ g = CHOOSE f : f = FreeStep(c, u, t, f)
  OBVIOUS
<1> HIDE DEF N, z, g
<1>2. z = FreeStep(c, u, t, z)
  <2>1. \A i \in 0..N : (IF i = 0 THEN c ELSE UnlockTurn(u, t, z[i - 1])) = c
    BY <1>1
  <2>2. FreeStep(c, u, t, z) = [i \in 0..N |-> IF i = 0 THEN c ELSE UnlockTurn(u, t, z[i - 1])]
    BY <1>n, Zenon DEF FreeStep
  <2> QED
    BY <1>n, <2>1, <2>2
<1>3. g = FreeStep(c, u, t, g)
  BY <1>2, <1>n, Zenon
<1>4. UnlockAll(c, u, t) = g[N]
  BY <1>n, Zenon DEF UnlockAll, FreeStep, UnlockTurn
<1>5. g[0] = c
  <2>1. g = [i \in 0..N |-> IF i = 0 THEN c ELSE UnlockTurn(u, t, g[i - 1])]
    BY <1>3, <1>n, Zenon DEF FreeStep
  <2> HIDE DEF FreeStep
  <2> QED
    BY <1>1, <2>1
<1> QED
  BY <1>1, <1>4, <1>5

-----------------------------------------------------------------------------
(* The end of a thread *)

HintUp(c) == [c EXCEPT !.hint = TRUE]

LEMMA HintSound ==
  ASSUME NEW c, NEW off, Sound(c, off), NEW n, n = HintUp(c)
  PROVE  Sound(n, off) /\ Moved(c, n) /\ n.hint = TRUE
<1>1. c \in Kernel
  BY DEF Sound
<1>2. n \in Kernel /\ Moved(c, n) /\ n.hint = TRUE
      /\ n.list = c.list /\ n.bits = c.bits /\ n.queue = c.queue
  BY <1>1 DEF HintUp, Kernel, Moved
<1>3. n.state = c.state /\ n.priority = c.priority /\ n.suspend = c.suspend
  BY <1>2 DEF Moved
<1> QED
  BY <1>2, <1>3, SameReady

LEMMA HintGood ==
  ASSUME NEW c, Good(c), NEW n, n = HintUp(c)
  PROVE  Good(n) /\ Fair(n) /\ Moved(c, n) /\ n.hint = TRUE
<1>1. Sound(n, {}) /\ Moved(c, n) /\ n.hint = TRUE
  BY HintSound DEF Good
<1>2. Kept(c, n) /\ Stays(c, n)
  BY <1>1, MovedKept, MovedStays
<1> QED
  BY <1>1, <1>2, GoodStays DEF Fair

\* From the mutexes on: whether or not the caller u comes back, in the end the
\* best thread runs.
LEMMA EndTurnGood ==
  ASSUME NEW c, Good(c), Fair(c), c.disabled = FALSE,
         NEW u \in Thread, c.current = u, NEW t \in Thread, c.state[t] \notin Alive,
         c.state[u] = "RUNNING" \/ u = t,
         NEW n, n = EndTurn(c, u, t)
  PROVE  /\ Good(n) /\ Outlives(c, n) /\ Settled(n)
         /\ c.held[t] = <<>> => Deserted(n, JoinQ(t))
<1> DEFINE freed == UnlockAll(c, u, t)
           woken == Wakeup(freed, JoinQ(t))
           last == Reschedule(HintUp(woken))
<1>1. c \in Kernel /\ u # None
  BY ThreadAssumption DEF Good, Sound
<1>2. n = IF freed.current # u THEN freed
          ELSE IF woken.current = u /\ u = t THEN last ELSE woken
  BY DEF EndTurn, HintUp
<1>3. freed = UnlockAll(c, u, t) /\ woken = Wakeup(freed, JoinQ(t))
      /\ last = Reschedule(HintUp(woken))
  OBVIOUS
<1> HIDE DEF freed, woken, last
<1>4. Freeing(c, u, t, c)
  <2>1. Outlives(c, c)
    BY <1>1, KeptNothing, KeptOutlives
  <2> QED
    BY <2>1 DEF Freeing
<1>5. Freeing(c, u, t, freed)
  BY <1>1, <1>3, <1>4, UnlockAllFrees
<1>6. Good(freed) /\ Outlives(c, freed) /\ freed \in Kernel
  BY <1>5 DEF Freeing, Good, Sound
<1>7. CASE freed.current # u
  <2>1. Settled(freed)
    BY <1>5, <1>7 DEF Freeing
  <2>2. c.held[t] # <<>>
    BY <1>3, <1>7, UnlockAllNone
  <2> QED
    BY <1>2, <1>6, <1>7, <2>1, <2>2
<1>8. CASE freed.current = u
  <2>1. Fair(freed)
    BY <1>5 DEF Freeing, Fair
  <2>2. u # t => freed.state[u] = "RUNNING"
    BY <1>1, <1>5, <1>8 DEF Freeing, Settled
  <2>3. u = t => freed.state[u] \notin Alive
    BY <1>5 DEF Freeing
  <2>4. freed.state[u] # "SLEEPING"
    BY <2>2, <2>3 DEF Alive
  <2>5. JoinQ(t) \in SleepQueues /\ \A m \in Mutex : JoinQ(t) # MutexQ(m)
    BY QueueNames DEF JoinQ, MutexQ
  <2>6. Wakeable(freed, JoinQ(t))
    BY <1>6, <1>8, <2>4, <2>5, WaitQueueGood
  <2>7. Called(freed, woken) /\ Deserted(woken, JoinQ(t))
    BY <1>3, <2>1, <2>5, <2>6, WakeupGood
  <2>8. Good(woken) /\ Kept(freed, woken) /\ Leads(freed, woken) /\ woken \in Kernel
    BY <2>7 DEF Called, Good, Sound
  <2>9. Outlives(freed, woken) /\ Outlives(c, woken)
    BY <1>1, <1>6, <2>8, KeptOutlives, OutlivesTwice
  <2>10. CASE woken.current = u /\ u = t
    <3>1. n = last
      BY <1>2, <1>8, <2>10
    <3> DEFINE up == HintUp(woken)
    <3>2. up = HintUp(woken) /\ n = Reschedule(up)
      BY <1>3, <3>1
    <3> HIDE DEF up
    <3>3. Good(up) /\ Fair(up) /\ Moved(woken, up) /\ up.hint = TRUE /\ up \in Kernel
      BY <2>8, <3>2, HintGood DEF Good, Sound
    <3>4. up.disabled = FALSE /\ up.current # None
      <4>1. woken.disabled = c.disabled
        BY <2>9 DEF Outlives, Spares
      <4> QED
        BY <1>1, <2>10, <3>3, <4>1 DEF Moved
    <3>5. Good(n) /\ Kept(up, n) /\ Settled(n) /\ n \in Kernel
      BY <3>2, <3>3, <3>4, Ends DEF Good, Sound
    <3>6. Kept(woken, n)
      BY <3>3, <3>5, MovedKept, KeptTwice
    <3>7. Outlives(c, n)
      BY <1>1, <2>8, <2>9, <3>5, <3>6, KeptOutlives, OutlivesTwice
    <3>8. Deserted(n, JoinQ(t))
      BY <2>7, <3>6 DEF Deserted, Kept, Lives
    <3> QED
      BY <3>5, <3>7, <3>8
  <2>11. CASE ~(woken.current = u /\ u = t)
    <3>1. n = woken
      BY <1>2, <1>8, <2>11
    <3>2. u # t => Settled(woken)
      <4>1. freed.disabled = FALSE
        BY <1>6 DEF Outlives, Spares
      <4>2. u # t => Runs(freed)
        BY <1>1, <1>8, <2>2, <4>1 DEF Runs
      <4> QED
        BY <2>7, <4>2 DEF Called
    <3>3. u = t => Settled(woken)
      BY <1>8, <2>8, <2>11 DEF Leads
    <3> QED
      BY <2>7, <2>8, <2>9, <3>1, <3>2, <3>3
  <2> QED
    BY <2>10, <2>11
<1> QED
  BY <1>7, <1>8

\* A thread that is on no queue dies.
Buried(c, n, t) ==
  /\ n.state = [c.state EXCEPT ![t] = IF c.detached[t] THEN "EXITED" ELSE "MORIBUND"]
  /\ n.detached = c.detached /\ n.base = c.base
  /\ n.priority = c.priority /\ n.suspend = c.suspend /\ n.mutex = c.mutex
  /\ n.queue = c.queue /\ n.held = c.held /\ n.owner = c.owner /\ n.lock = c.lock
  /\ n.list = c.list /\ n.bits = c.bits
  /\ n.hint = c.hint /\ n.disabled = c.disabled /\ n.current = c.current

LEMMA BuryGood ==
  ASSUME NEW c, NEW t \in Thread, Sound(c, {t}), Chained(c, {t}), Claimed(c), Locks(c),
         \A u \in Thread \ {t} : Inherits(c, Waiting(c), u),
         NEW n, n = Bury(c, t)
  PROVE  Good(n) /\ Buried(c, n, t)
<1>1. c \in Kernel /\ t \in {t}
  BY DEF Sound
<1>2. Buried(c, n, t)
  BY <1>1 DEF Bury, Buried, Kernel
<1>3. n \in Kernel
  <2>1. n.state \in [Thread -> Alive \cup Dead \cup {"none"}]
    BY <1>1, <1>2 DEF Buried, Kernel, Dead
  <2>2. n.active \in SUBSET Thread
    BY <1>1 DEF Bury, Kernel
  <2>3. n = [c EXCEPT !.state = n.state, !.active = n.active]
    BY <1>1 DEF Bury, Kernel
  <2> DEFINE s == n.state
             a == n.active
  <2> HIDE DEF s, a
  <2>4. ASSUME s \in [Thread -> Alive \cup Dead \cup {"none"}], a \in SUBSET Thread
        PROVE  [c EXCEPT !.state = s, !.active = a] \in Kernel
    BY <1>1, <2>4 DEF Kernel
  <2> QED
    BY <2>1, <2>2, <2>3, <2>4 DEF s, a
<1>4. n.state[t] \notin Alive /\ \A u \in Thread \ {t} : n.state[u] = c.state[u]
  BY <1>1, <1>2 DEF Buried, Kernel, Alive
<1>5. Sound(n, {})
  <2>1. Elsewhere(c, n, t)
    BY <1>2, <1>4 DEF Elsewhere, Buried
  <2>2. Sound(n, {t})
    BY <1>1, <1>3, <2>1, OffChanges
  <2>3. Unplaced(n, t) /\ ThreadFits(n, t)
    BY <1>4 DEF Unplaced, ThreadFits, Ready, Alive
  <2>4. Sound(n, {t} \ {t})
    BY <2>2, <2>3, OnNone
  <2>5. {t} \ {t} = {}
    OBVIOUS
  <2> QED
    BY <2>4, <2>5
<1>6. Chained(n, {})
  <2>1. ASSUME NEW u \in Thread, n.state[u] = "SLEEPING"
        PROVE  /\ n.mutex[u] # None =>
                    n.queue[u] = MutexQ(n.mutex[u]) /\ n.owner[n.mutex[u]] # u
               /\ \A m \in Mutex : n.queue[u] = MutexQ(m) => n.mutex[u] = m
               /\ n.suspend[u] # 0 => n.priority[u] = Suspended
    <3>1. u # t /\ c.state[u] = "SLEEPING"
      BY <1>4, <2>1 DEF Alive
    <3> QED
      BY <1>2, <3>1 DEF Chained, Buried
  <2>2. \A m \in Mutex, v \in Thread : n.owner[m] = v <=> m \in ToSet(n.held[v])
    BY <1>2 DEF Chained, Buried
  <2> QED
    BY <2>1, <2>2 DEF Chained
<1>7. Waiting(n) = Waiting(c)
  BY <1>2 DEF Waiting, Waits, Buried
<1>8. Heirs(n)
  <2> SUFFICES ASSUME NEW u \in Thread  PROVE Inherits(n, Waiting(n), u)
    BY DEF Heirs
  <2>1. CASE u = t
    BY <1>4, <2>1 DEF Inherits
  <2>2. CASE u # t
    <3>1. n.suspend = c.suspend /\ n.base = c.base /\ n.priority = c.priority
      BY <1>2 DEF Buried
    <3>2. n.state[u] = c.state[u]
      BY <1>4, <2>2
    <3>3. Inherits(n, Waiting(c), u)
      BY <2>2, <3>1, <3>2, InheritsKept
    <3> QED
      BY <1>7, <3>3
  <2> QED
    BY <2>1, <2>2
<1>9. Claimed(n)
  BY <1>2, <1>4 DEF Claimed, Buried, Alive
<1>10. Locks(n)
  BY <1>2 DEF Locks, Buried
<1> QED
  BY <1>2, <1>5, <1>6, <1>8, <1>9, <1>10 DEF Good

\* t is taken off its queue, nothing else changes.
TakenOff(c, n, t) ==
  /\ Sound(n, {t}) /\ AllSame(c, n) /\ n.state = c.state
  /\ \A u \in Thread \ {t} : c.state[u] = "SLEEPING" => n.queue[u] = c.queue[u]
  /\ c.state[t] = "SLEEPING" => n.queue[t] \in {c.queue[t], None}

\* Only the thread t waited for may be due another priority, and not even that
\* one if t was suspended.
LEMMA TakenGood ==
  ASSUME NEW c, Good(c), NEW t \in Thread, NEW n, TakenOff(c, n, t)
  PROVE  /\ Chained(n, {t}) /\ Claimed(n) /\ Locks(n) /\ Calm(c, n) /\ Outlives(c, n)
         /\ \A u \in Thread \ {t} : u # NextOwner(c, t) \/ c.suspend[t] # 0 =>
              Inherits(n, Waiting(n), u)
<1>1. Sound(c, {}) /\ Chained(c, {}) /\ Heirs(c) /\ Locks(c) /\ Claimed(c) /\ c \in Kernel
  BY DEF Good, Sound
<1>2. /\ n.base = c.base /\ n.priority = c.priority /\ n.suspend = c.suspend
      /\ n.mutex = c.mutex /\ n.held = c.held /\ n.owner = c.owner /\ n.lock = c.lock
      /\ n.disabled = c.disabled /\ n.current = c.current /\ (c.hint => n.hint)
      /\ n.state = c.state /\ Sound(n, {t})
      /\ \A u \in Thread \ {t} : c.state[u] = "SLEEPING" => n.queue[u] = c.queue[u]
  BY DEF TakenOff, AllSame
<1>3. Chained(n, {t})
  BY <1>1, <1>2 DEF Chained
<1>4. Claimed(n) /\ Locks(n) /\ Calm(c, n)
  BY <1>1, <1>2 DEF Claimed, Locks, Calm, Ready
<1>5. Outlives(c, n)
  <2>1. Spares(c, n)
    BY <1>1, <1>2 DEF Spares, Kernel
  <2>2. /\ c.state[t] = "SLEEPING" => n.queue[t] \in {c.queue[t], None}
        /\ \A x \in Thread : JoinQ(x) # None
    BY QueueNames, ThreadAssumption DEF TakenOff
  <2>3. NoneJoins(c, n)
    BY <1>2, <2>2 DEF NoneJoins
  <2> QED
    BY <2>1, <2>3 DEF Outlives
<1>6. ASSUME NEW u \in Thread, NEW v \in Thread
      PROVE  <<u, v>> \in Waiting(n) <=> u # t /\ <<u, v>> \in Waiting(c)
  <2>1. <<u, v>> \in Waiting(n) <=> u \notin {t} /\ NextOwner(n, u) = v
    BY <1>2, <1>3, WaitingIs
  <2>2. <<u, v>> \in Waiting(c) <=> NextOwner(c, u) = v
    BY <1>1, WaitingIs
  <2>3. NextOwner(n, u) = NextOwner(c, u)
    BY <1>2 DEF NextOwner
  <2> QED
    BY <2>1, <2>2, <2>3
<1>7. ASSUME NEW u \in Thread \ {t}, u # NextOwner(c, t) \/ c.suspend[t] # 0
      PROVE  Inherits(n, Waiting(n), u)
  <2>1. Inherits(c, Waiting(c), u)
    BY <1>1 DEF Heirs
  <2>2. ASSUME c.state[u] \in Alive, c.suspend[u] = 0
        PROVE  <<t, u>> \in Waiting(c) => c.priority[u] # c.priority[t]
    <3> SUFFICES ASSUME <<t, u>> \in Waiting(c)  PROVE c.priority[u] # c.priority[t]
      OBVIOUS
    <3>1. NextOwner(c, t) = u
      BY <1>1, WaitingIs
    <3>2. c.state[t] = "SLEEPING" /\ c.suspend[t] # 0
      BY <1>7, <3>1, ThreadAssumption DEF NextOwner
    <3>3. c.priority[t] = Suspended
      BY <1>1, <3>2 DEF Chained
    <3>4. c.priority[u] \in Priority
      BY <1>1, <2>2 DEF Sound, Fit, ThreadFits
    <3> QED
      BY <3>3, <3>4, Priorities
  <2>3. Inherits(c, Waiting(n), u)
    <3> SUFFICES ASSUME c.state[u] \in Alive, c.suspend[u] = 0
                 PROVE  IsBest(c, Waiting(n), u, c.priority[u])
      BY DEF Inherits
    <3>1. IsBest(c, Waiting(c), u, c.priority[u])
      BY <2>1 DEF Inherits
    <3>2. <<t, u>> \in Waiting(c) => c.priority[u] # c.priority[t]
      BY <2>2
    <3> QED
      BY <1>6, <3>1, <3>2 DEF IsBest
  <2> QED
    BY <1>2, <2>3, InheritsKept
<1> QED
  BY <1>3, <1>4, <1>5, <1>7

NoQueue(c, t) == [c EXCEPT !.queue[t] = None]

LEMMA NoQueueIs ==
  ASSUME NEW c \in Kernel, NEW t \in Thread, NEW n, n = NoQueue(c, t)
  PROVE  /\ n \in Kernel /\ AllSame(c, n) /\ n.state = c.state /\ n.list = c.list
         /\ n.bits = c.bits /\ n.hint = c.hint
         /\ n.queue[t] = None /\ \A u \in Thread \ {t} : n.queue[u] = c.queue[u]
<1>1. /\ AllSame(c, n) /\ n.state = c.state /\ n.list = c.list
      /\ n.bits = c.bits /\ n.hint = c.hint
  BY DEF NoQueue, Kernel, AllSame
<1>2. n.queue = [c.queue EXCEPT ![t] = None]
  BY DEF NoQueue, Kernel
<1>3. n.queue \in [Thread -> Queue \cup {None}]
      /\ n.queue[t] = None /\ \A u \in Thread \ {t} : n.queue[u] = c.queue[u]
  BY <1>2 DEF Kernel
<1>4. n = [c EXCEPT !.queue = n.queue]
  BY DEF NoQueue, Kernel
<1> DEFINE q == n.queue
<1> HIDE DEF q
<1>5. ASSUME q \in [Thread -> Queue \cup {None}]  PROVE [c EXCEPT !.queue = q] \in Kernel
  BY <1>5 DEF Kernel
<1> QED
  BY <1>1, <1>3, <1>4, <1>5 DEF q

LEMMA UnqueueTakes ==
  ASSUME NEW c, Good(c), NEW t \in Thread, c.state[t] \in Alive,
         NEW n, n = IF c.state[t] = "SLEEPING" THEN NoQueue(Unlink(c, t), t) ELSE Unqueue(c, t)
  PROVE  TakenOff(c, n, t)
<1>1. Sound(c, {}) /\ c \in Kernel
  BY DEF Good, Sound
<1>2. {} \cup {t} = {t}
  OBVIOUS
<1>3. CASE c.state[t] = "READY"
  <2>0. n = IF c.suspend[t] <= 0 THEN UnsetRun(c, t) ELSE c
    BY <1>3 DEF Unqueue
  <2>1. CASE c.suspend[t] = 0
    <3>1. n = UnsetRun(c, t) /\ Ready(c, t)
      BY <1>3, <2>0, <2>1 DEF Ready
    <3>2. Sound(n, {} \cup {t}) /\ Moved(c, n)
      BY <1>1, <3>1, UnsetRunTakes
    <3> QED
      BY <1>2, <3>2 DEF TakenOff, Moved, AllSame
  <2>2. CASE c.suspend[t] # 0
    <3>1. c.suspend[t] \in Nat
      BY <1>1 DEF Kernel
    <3>2. n = c
      BY <2>0, <2>2, <3>1
    <3>3. Unplaced(c, t)
      BY <1>3, <2>2 DEF Unplaced, Ready
    <3>4. Sound(c, {} \cup {t})
      BY <1>1, <3>3, OnNone
    <3> QED
      BY <1>2, <3>2, <3>4 DEF TakenOff, AllSame
  <2> QED
    BY <2>1, <2>2
<1>4. CASE c.state[t] = "RUNNING"
  <2>1. n = HintUp(c)
    BY <1>4 DEF Unqueue, HintUp
  <2>2. Unplaced(c, t)
    BY <1>4 DEF Unplaced, Ready
  <2>3. Sound(c, {} \cup {t})
    BY <1>1, <2>2, OnNone
  <2>4. Sound(n, {} \cup {t}) /\ Moved(c, n)
    BY <2>1, <2>3, HintSound
  <2> QED
    BY <1>2, <2>4 DEF TakenOff, Moved, AllSame
<1>5. CASE c.state[t] = "SLEEPING"
  <2> DEFINE a == Unlink(c, t)
  <2>1. a = Unlink(c, t) /\ n = NoQueue(a, t)
    BY <1>5
  <2> HIDE DEF a
  <2>2. Sound(a, {} \cup {t}) /\ Moved(c, a)
    BY <1>1, <1>5, <2>1, UnlinkTakes
  <2>3. a \in Kernel /\ Sound(a, {t}) /\ t \in {t}
    BY <1>2, <2>2 DEF Sound
  <2>5. /\ n \in Kernel
        /\ AllSame(a, n) /\ n.state = a.state /\ n.list = a.list /\ n.bits = a.bits
        /\ \A u \in Thread \ {t} : n.queue[u] = a.queue[u]
    BY <2>1, <2>3, NoQueueIs
  <2>6. Sound(n, {t})
    <3>1. Elsewhere(a, n, t)
      BY <2>5 DEF Elsewhere, AllSame
    <3> QED
      BY <2>3, <2>5, <3>1, OffChanges
  <2>7. AllSame(c, n) /\ n.state = c.state
    BY <2>2, <2>5 DEF AllSame, Moved
  <2>8. \A u \in Thread \ {t} : c.state[u] = "SLEEPING" => n.queue[u] = c.queue[u]
    BY <2>2, <2>5 DEF Moved
  <2>9. n.queue[t] = None
    BY <2>1, <2>3, NoQueueIs
  <2> QED
    BY <2>6, <2>7, <2>8, <2>9 DEF TakenOff
<1> QED
  BY <1>3, <1>4, <1>5 DEF Alive

\* Everyone but t is in order when t has left its queue.
Left(c, n, t) ==
  /\ Sound(n, {t}) /\ Chained(n, {t}) /\ Claimed(n) /\ Locks(n)
  /\ \A u \in Thread \ {t} : Inherits(n, Waiting(n), u)
  /\ Outlives(c, n) /\ Calm(c, n) /\ n.state = c.state /\ n.held = c.held

InNoCircle(c, t) ==
  \E S \in SUBSET (Thread \ {t}) :
    \A u \in S \cup {t} : NextOwner(c, u) \in S \cup {None}

LEMMA UnqueueLeaves ==
  ASSUME NEW c, Good(c), NEW t \in Thread, c.state[t] \in Alive,
         c.suspend[t] > 0 \/ InNoCircle(c, t),
         NEW n, n = Unqueue(c, t)
  PROVE  Left(c, n, t)
<1> DEFINE a == IF c.state[t] = "SLEEPING" THEN NoQueue(Unlink(c, t), t) ELSE Unqueue(c, t)
<1>1. a = IF c.state[t] = "SLEEPING" THEN NoQueue(Unlink(c, t), t) ELSE Unqueue(c, t)
  OBVIOUS
<1> HIDE DEF a
<1>2. TakenOff(c, a, t)
  BY <1>1, UnqueueTakes
<1>3. /\ Chained(a, {t}) /\ Claimed(a) /\ Locks(a) /\ Calm(c, a) /\ Outlives(c, a)
      /\ \A u \in Thread \ {t} : u # NextOwner(c, t) \/ c.suspend[t] # 0 =>
           Inherits(a, Waiting(a), u)
  BY <1>2, TakenGood
<1>4. /\ Sound(a, {t}) /\ a.state = c.state /\ a.mutex = c.mutex /\ a.owner = c.owner
      /\ a.suspend = c.suspend /\ a.disabled = c.disabled /\ a \in Kernel
  BY <1>2 DEF TakenOff, AllSame, Sound
<1>h. a.held = c.held
  BY <1>2 DEF TakenOff, AllSame
<1>5. c \in Kernel /\ None \notin Thread /\ c.suspend[t] \in Nat
  BY ThreadAssumption DEF Good, Sound, Kernel
<1>6. CASE ~(c.state[t] = "SLEEPING" /\ c.suspend[t] = 0 /\ c.mutex[t] # None)
  <2>1. n = a
    <3>1. CASE c.state[t] # "SLEEPING"
      BY <1>1, <3>1
    <3>2. CASE c.state[t] = "SLEEPING"
      <4>1. ~(c.suspend[t] <= 0 /\ c.mutex[t] # None)
        BY <1>5, <1>6, <3>2
      <4>2. n = [Unlink(c, t) EXCEPT !.queue[t] = None]
        BY <3>2, <4>1 DEF Unqueue
      <4> QED
        BY <1>1, <3>2, <4>2 DEF NoQueue
    <3> QED
      BY <3>1, <3>2
  <2>2. NextOwner(c, t) = None \/ c.suspend[t] # 0
    BY <1>6 DEF NextOwner
  <2>3. \A u \in Thread \ {t} : Inherits(a, Waiting(a), u)
    BY <1>3, <1>5, <2>2
  <2> QED
    BY <1>3, <1>4, <1>h, <2>1, <2>3 DEF Left
<1>7. CASE c.state[t] = "SLEEPING" /\ c.suspend[t] = 0 /\ c.mutex[t] # None
  <2> DEFINE o == c.owner[c.mutex[t]]
  <2>0. o = NextOwner(c, t)
    BY <1>7 DEF NextOwner
  <2>1. n = UpdatePriority(a, o)
    <3>1. n = LET off == [Unlink(c, t) EXCEPT !.queue[t] = None]
              IN UpdatePriority(off, c.owner[c.mutex[t]])
      BY <1>7 DEF Unqueue
    <3> QED
      BY <1>1, <1>7, <3>1 DEF NoQueue
  <2> HIDE DEF o
  <2>2. PICK S \in SUBSET (Thread \ {t}) :
          \A u \in S \cup {t} : NextOwner(c, u) \in S \cup {None}
    BY <1>7 DEF InNoCircle
  <2>3. o \in S \cup {None}
    BY <2>0, <2>2
  <2>4. \A u \in S : NextOwner(a, u) \in S \cup {None}
    BY <1>4, <2>2 DEF NextOwner
  <2>5. \A u \in Thread \ {t} : u # o => Inherits(a, Waiting(a), u)
    BY <1>3, <2>0
  <2>6. Arrived(a, n, Waiting(a), {t})
    BY <1>3, <1>4, <2>1, <2>2, <2>3, <2>4, <2>5, UpdateArrives
  <2>7. /\ Sound(n, {t}) /\ Chained(n, {t}) /\ Kept(a, n) /\ Calm(a, n) /\ n.state = a.state
        /\ n \in Kernel
    BY <2>6 DEF Arrived, Sound
  <2>8. Waiting(n) = Waiting(a)
    BY <1>3, <1>4, <2>7, WaitingSame
  <2>9. \A u \in Thread \ {t} : Inherits(n, Waiting(n), u)
    BY <2>6, <2>8 DEF Arrived
  <2>10. Claimed(n) /\ Locks(n)
    BY <1>3, <2>7 DEF Claimed, Locks, Kept
  <2>11. Outlives(c, n) /\ Calm(c, n)
    BY <1>3, <1>4, <1>5, <2>7, KeptOutlives, OutlivesTwice, CalmTwice
  <2>12. n.held = c.held
    BY <1>h, <2>7 DEF Kept
  <2> QED
    BY <1>4, <2>7, <2>9, <2>10, <2>11, <2>12 DEF Left
<1> QED
  BY <1>6, <1>7

\* What the death of t leaves to the others.
Dies(c, n, t) ==
  /\ n.disabled = c.disabled /\ n.mutex = c.mutex /\ n.state[t] \notin Alive
  /\ \A u \in Thread : n.suspend[u] <= c.suspend[u]
  /\ \A u \in Thread \ {t} :
       /\ n.state[u] \in Alive <=> c.state[u] \in Alive
       /\ c.state[u] \notin Alive => n.state[u] = c.state[u]
  /\ \A m \in Mutex : n.owner[m] \in {c.owner[m], None} /\ n.lock[m] <= c.lock[m]
  /\ NoneJoins(c, n)
  /\ c.held[t] = <<>> => Deserted(n, JoinQ(t))

LEMMA BuryEnds ==
  ASSUME NEW c, Good(c), Fair(c), Runs(c), NEW t \in Thread,
         NEW a, Left(c, a, t), NEW gone, gone = Bury(a, t),
         NEW n, n = EndTurn(gone, c.current, t)
  PROVE  Good(n) /\ Settled(n) /\ Dies(c, n, t)
<1> DEFINE u == c.current
<1>1. c \in Kernel /\ a \in Kernel /\ u \in Thread /\ u # None /\ c.disabled = FALSE
  BY DEF Good, Left, Sound, Runs, Kernel
<1>2. Good(gone) /\ Buried(a, gone, t)
  BY BuryGood DEF Left
<1>3. Calm(c, a) /\ Outlives(c, a) /\ a.state = c.state
  BY DEF Left
<1>4. gone.state[t] \notin Alive /\ \A v \in Thread \ {t} : gone.state[v] = a.state[v]
  BY <1>1, <1>2 DEF Buried, Kernel, Alive
<1>5. gone.current = u /\ gone.disabled = FALSE
  BY <1>1, <1>2, <1>3 DEF Buried, Outlives, Spares, Calm
<1>6. gone.state[u] = "RUNNING" \/ u = t
  BY <1>1, <1>3, <1>4 DEF Runs
<1>7. Fair(gone)
  <2>1. Fair(a)
    BY <1>1, <1>3, CalmFair
  <2>2. CASE u = t
    BY <1>4, <1>5, <2>2 DEF Fair, Alive
  <2>3. CASE u # t
    <3>1. a.current = u
      BY <1>3 DEF Calm
    <3>2. \A v \in Thread : Ready(gone, v) => Ready(a, v)
      BY <1>2, <1>4 DEF Ready, Buried, Alive
    <3>3. gone.state[u] = "RUNNING" => a.state[u] = "RUNNING"
      BY <1>1, <1>4, <2>3
    <3> QED
      BY <1>1, <1>2, <1>5, <2>1, <3>1, <3>2, <3>3 DEF Fair, Settled, Buried
  <2> QED
    BY <2>2, <2>3
<1> HIDE DEF u
<1>8. /\ Good(n) /\ Outlives(gone, n) /\ Settled(n)
      /\ gone.held[t] = <<>> => Deserted(n, JoinQ(t))
  BY <1>1, <1>2, <1>4, <1>5, <1>6, <1>7, EndTurnGood DEF u
<1>9. gone \in Kernel /\ n \in Kernel
  BY <1>2, <1>8 DEF Good, Sound
<1>10. Dies(c, n, t)
  <2>1. /\ gone.disabled = c.disabled /\ gone.mutex = c.mutex
        /\ gone.suspend = a.suspend /\ gone.owner = a.owner /\ gone.lock = a.lock
    BY <1>2, <1>3 DEF Buried, Outlives, Spares
  <2>2. \A v \in Thread : c.suspend[v] \in Nat /\ a.suspend[v] \in Nat /\ n.suspend[v] \in Nat
    BY <1>1, <1>9 DEF Kernel
  <2>3. \A m \in Mutex : c.lock[m] \in Nat /\ a.lock[m] \in Nat /\ n.lock[m] \in Nat
    BY <1>1, <1>9 DEF Kernel
  <2>4. \A v \in Thread : n.suspend[v] <= c.suspend[v]
    BY <1>3, <1>8, <2>1, <2>2 DEF Outlives, Spares
  <2>5. \A m \in Mutex : n.owner[m] \in {c.owner[m], None} /\ n.lock[m] <= c.lock[m]
    BY <1>3, <1>8, <2>1, <2>3 DEF Outlives, Spares
  <2>6. n.disabled = c.disabled /\ n.mutex = c.mutex /\ n.state[t] \notin Alive
    BY <1>4, <1>8, <2>1 DEF Outlives, Spares
  <2>7. \A v \in Thread \ {t} : /\ n.state[v] \in Alive <=> c.state[v] \in Alive
                                /\ c.state[v] \notin Alive => n.state[v] = c.state[v]
    BY <1>3, <1>4, <1>8 DEF Outlives, Spares
  <2>8. NoneJoins(c, n)
    <3>1. NoneJoins(gone, n) /\ NoneJoins(c, a)
      BY <1>3, <1>8 DEF Outlives
    <3>2. \A v \in Thread : gone.state[v] = "SLEEPING" => a.state[v] = "SLEEPING"
      BY <1>4 DEF Alive
    <3>3. gone.queue = a.queue
      BY <1>2 DEF Buried
    <3> QED
      BY <3>1, <3>2, <3>3 DEF NoneJoins
  <2>9. c.held[t] = <<>> => Deserted(n, JoinQ(t))
    <3>1. gone.held = c.held
      BY <1>2 DEF Buried, Left
    <3> QED
      BY <1>8, <3>1
  <2> QED
    BY <2>4, <2>5, <2>6, <2>7, <2>8, <2>9 DEF Dies
<1> QED
  BY <1>8, <1>10

LEMMA CancelGood ==
  ASSUME NEW c, Good(c), Fair(c), Runs(c), NEW t \in Thread, c.state[t] \in Alive,
         c.suspend[t] > 0 \/ InNoCircle(c, t),
         NEW n, n = EndTurn(Bury(Unqueue(c, t), t), c.current, t)
  PROVE  Good(n) /\ Settled(n) /\ Dies(c, n, t)
BY UnqueueLeaves, BuryEnds

LEMMA ExitGood ==
  ASSUME NEW c, Good(c), Fair(c), Runs(c),
         NEW n, n = EndTurn(Bury(c, c.current), c.current, c.current)
  PROVE  Good(n) /\ Settled(n) /\ Dies(c, n, c.current)
<1> DEFINE t == c.current
<1>1. c \in Kernel /\ t \in Thread /\ c.state[t] = "RUNNING" /\ Sound(c, {})
  BY DEF Good, Sound, Runs, Kernel
<1>2. Sound(c, {t})
  <2>1. Unplaced(c, t)
    BY <1>1 DEF Unplaced, Ready
  <2>2. Sound(c, {} \cup {t}) /\ {} \cup {t} = {t}
    BY <1>1, <2>1, OnNone
  <2> QED
    BY <2>2
<1> HIDE DEF t
<1>3. TakenOff(c, c, t)
  BY <1>2 DEF TakenOff, AllSame
<1>4. NextOwner(c, t) = None
  BY <1>1 DEF NextOwner
<1>5. Left(c, c, t)
  <2>1. /\ Chained(c, {t}) /\ Claimed(c) /\ Locks(c) /\ Calm(c, c) /\ Outlives(c, c)
        /\ \A u \in Thread \ {t} : u # NextOwner(c, t) \/ c.suspend[t] # 0 =>
             Inherits(c, Waiting(c), u)
    BY <1>1, <1>3, TakenGood
  <2>2. \A u \in Thread \ {t} : Inherits(c, Waiting(c), u)
    BY <1>4, <2>1, ThreadAssumption
  <2> QED
    BY <1>2, <2>1, <2>2 DEF Left
<1>6. n = EndTurn(Bury(c, t), c.current, t)
  BY DEF t
<1>7. Good(n) /\ Settled(n) /\ Dies(c, n, t)
  BY <1>1, <1>5, <1>6, BuryEnds
<1> QED
  BY <1>7 DEF t

-----------------------------------------------------------------------------
(* OSUnlockMutex *)

\* The mutex m is free and its owner t, who runs, back at what is due to it.
Lowered(f, t) ==
  IF f.priority[t] < f.base[t] THEN Price(f, t, EffectivePriority(f, t)) ELSE f

\* The running thread is given the priority that is due to it.
LEMMA PriceRunning ==
  ASSUME NEW c, Sound(c, {}), Chained(c, {}), NEW t \in Thread, c.state[t] = "RUNNING",
         \A u \in Thread \ {t} : Inherits(c, Waiting(c), u),
         NEW p, p = EffectivePriority(c, t), NEW n, n = Price(c, t, p)
  PROVE  Sound(n, {}) /\ Chained(n, {}) /\ Heirs(n) /\ OnlyPriced(c, n, t, p) /\ p \in Priority
<1>1. c \in Kernel
  BY DEF Sound
<1>2. p \in Priority
  BY <1>1, EffectiveIsPriority
<1>3. Sound(c, {t})
  <2>1. Unplaced(c, t)
    BY DEF Unplaced, Ready
  <2>2. Sound(c, {} \cup {t}) /\ {} \cup {t} = {t}
    BY <2>1, OnNone
  <2> QED
    BY <2>2
<1>4. Sound(n, {t}) /\ OnlyPriced(c, n, t, p)
  BY <1>2, <1>3, OffPriced
<1>5. n.priority[t] = p /\ \A u \in Thread \ {t} : n.priority[u] = c.priority[u]
  BY <1>1, <1>4 DEF OnlyPriced, Kernel
<1>6. Sound(n, {})
  <2>1. ThreadFits(c, t)
    BY DEF Sound, Fit
  <2>2. Unplaced(n, t) /\ ThreadFits(n, t)
    BY <1>2, <1>4, <1>5, <2>1 DEF Unplaced, ThreadFits, Ready, OnlyPriced
  <2>3. Sound(n, {t} \ {t}) /\ {t} \ {t} = {}
    BY <1>4, <2>2, OnNone
  <2> QED
    BY <2>3
<1>7. Chained(n, {})
  <2>1. /\ n.state = c.state /\ n.queue = c.queue /\ n.mutex = c.mutex
        /\ n.suspend = c.suspend /\ n.owner = c.owner /\ n.held = c.held
    BY <1>4 DEF OnlyPriced
  <2>2. \A u \in Thread : c.state[u] = "SLEEPING" => n.priority[u] = c.priority[u]
    BY <1>5
  <2> QED
    BY <2>1, <2>2 DEF Chained
<1>8. Waiting(n) = Waiting(c)
  BY <1>4 DEF Waiting, Waits, OnlyPriced
<1>9. \A v \in Thread : <<t, v>> \notin Waiting(c)
  <2>1. NextOwner(c, t) = None
    BY DEF NextOwner
  <2> QED
    BY <2>1, WaitingIs, ThreadAssumption
<1>10. ASSUME NEW u \in Thread  PROVE Inherits(n, Waiting(c), u)
  <2>1. n.state = c.state /\ n.suspend = c.suspend /\ n.base = c.base
    BY <1>4 DEF OnlyPriced
  <2>2. CASE u = t
    <3>1. IsBest(c, Waiting(c), t, p)
      BY EffectiveIsBest
    <3>2. IsBest(n, Waiting(c), t, p)
      BY <1>5, <1>9, <2>1, <3>1 DEF IsBest
    <3> QED
      BY <1>5, <2>2, <3>2 DEF Inherits
  <2>3. CASE u # t
    <3>1. Inherits(c, Waiting(c), u)
      BY <2>3
    <3> QED
      BY <1>5, <1>9, <2>1, <2>3, <3>1 DEF Inherits, IsBest
  <2> QED
    BY <2>2, <2>3
<1>11. Heirs(n)
  BY <1>8, <1>10 DEF Heirs
<1> QED
  BY <1>2, <1>4, <1>6, <1>7, <1>11

\* All that the lowering can change is the priority of the owner, and it does
\* so only if an unsuspended waiter of the mutex is there to set the hint.
LEMMA LoweredIs ==
  ASSUME NEW c, Good(c), Runs(c), NEW t, t = c.current, NEW m \in Mutex, NEW h,
         NEW f, OnlyFreed(c, f, t, h, m), Released(c, f, t, m),
         NEW n, n = Lowered(f, t)
  PROVE  /\ Sound(n, {}) /\ Chained(n, {}) /\ Heirs(n)
         /\ OnlyPriced(f, n, t, n.priority[t])
         /\ \/ n.priority = f.priority
            \/ \E u \in Thread : u \in ToSet(c.list[MutexQ(m)]) /\ c.suspend[u] = 0
<1>1. c \in Kernel /\ t \in Thread /\ c.state[t] = "RUNNING"
      /\ Sound(c, {}) /\ Chained(c, {}) /\ Heirs(c)
  BY DEF Good, Sound, Runs, Kernel
<1>2. /\ Sound(f, {}) /\ Chained(f, {}) /\ f \in Kernel
      /\ f.state[t] = "RUNNING" /\ f.base = c.base /\ f.priority = c.priority
      /\ f.suspend = c.suspend /\ f.state = c.state
      /\ \A u \in Thread \ {t} : Inherits(f, Waiting(f), u)
  BY <1>1 DEF OnlyFreed, Released, Sound
<1>3. c.suspend[t] = 0 /\ c.priority[t] \in Priority /\ c.state[t] \in Alive
  BY <1>1 DEF Sound, Fit, ThreadFits, Alive
<1>4. IsBest(c, Waiting(c), t, c.priority[t])
  BY <1>1, <1>3 DEF Heirs, Inherits
<1>5. c.priority[t] \in Nat /\ c.base[t] \in Nat
  BY <1>1, <1>3, Priorities DEF Kernel
<1>6. CASE ~(f.priority[t] < f.base[t])
  <2>1. n = f
    BY <1>6 DEF Lowered
  <2>2. c.priority[t] = c.base[t]
    BY <1>2, <1>4, <1>5, <1>6 DEF IsBest
  <2>3. IsBest(f, Waiting(f), t, f.priority[t])
    BY <1>2, <1>4, <2>2 DEF IsBest, Released
  <2>4. Inherits(f, Waiting(f), t)
    BY <2>3 DEF Inherits
  <2>5. Heirs(f)
    BY <1>2, <2>4 DEF Heirs
  <2>6. OnlyPriced(f, f, t, f.priority[t])
    BY <1>2 DEF OnlyPriced, Kernel
  <2> QED
    BY <1>2, <2>1, <2>5, <2>6
<1>7. CASE f.priority[t] < f.base[t]
  <2> DEFINE p == EffectivePriority(f, t)
  <2>0. p = EffectivePriority(f, t) /\ n = Price(f, t, p)
    BY <1>7 DEF Lowered
  <2> HIDE DEF p
  <2>1. Sound(n, {}) /\ Chained(n, {}) /\ Heirs(n) /\ OnlyPriced(f, n, t, p) /\ p \in Priority
    BY <1>1, <1>2, <2>0, PriceRunning
  <2>2. n.priority = [f.priority EXCEPT ![t] = p] /\ n.priority[t] = p
    BY <1>1, <1>2, <2>1 DEF OnlyPriced, Kernel
  <2>3. OnlyPriced(f, n, t, n.priority[t])
    BY <2>1, <2>2
  <2>4. IsBest(f, Waiting(f), t, p)
    BY <1>1, <1>2, <2>0, EffectiveIsBest
  <2>5. PICK u \in Thread : <<u, t>> \in Waiting(c) /\ c.priority[t] = c.priority[u]
    BY <1>2, <1>4, <1>5, <1>7 DEF IsBest
  <2>6. CASE <<u, t>> \in Waiting(f)
    <3>1. IsBest(f, Waiting(f), t, c.priority[t])
      BY <1>2, <1>4, <2>5, <2>6 DEF IsBest, Released
    <3>2. p \in Nat
      BY <2>1, Priorities
    <3>3. p = c.priority[t]
      BY <1>1, <1>2, <1>5, <2>4, <3>1, <3>2, BestIsOne
    <3>4. n.priority = f.priority
      <4>1. f.priority \in [Thread -> Priority \cup {Suspended}]
        BY <1>2 DEF Kernel
      <4>2. n.priority = [f.priority EXCEPT ![t] = f.priority[t]]
        BY <1>2, <2>2, <3>3
      <4> QED
        BY <4>1, <4>2
    <3> QED
      BY <2>1, <2>3, <3>4
  <2>7. CASE <<u, t>> \notin Waiting(f)
    <3>1. u \in ToSet(c.list[MutexQ(m)])
      BY <2>5, <2>7 DEF Released
    <3>2. NextOwner(c, u) = t
      BY <1>1, <2>5, WaitingIs
    <3>3. c.state[u] = "SLEEPING"
      BY <1>1, <3>2, ThreadAssumption DEF NextOwner
    <3>4. c.suspend[u] # 0 => c.priority[u] = Suspended
      BY <1>1, <3>3 DEF Chained
    <3>5. c.suspend[u] = 0
      BY <1>3, <2>5, <3>4, Priorities
    <3> QED
      BY <2>1, <2>3, <3>1, <3>5
  <2> QED
    BY <2>6, <2>7
<1> QED
  BY <1>6, <1>7

\* The definition of Unlock, in steps.
Counted(c, m) == [c EXCEPT !.lock[m] = @ - 1]
GivenUp(c, t, m) == [c EXCEPT !.held[t] = Without(@, m), !.owner[m] = None]

LEMMA UnlockIs ==
  ASSUME NEW c, NEW m
  PROVE  Unlock(c, m) =
           IF c.owner[m] # c.current THEN c
           ELSE IF Counted(c, m).lock[m] # 0 THEN Counted(c, m)
           ELSE Wakeup(Lowered(GivenUp(Counted(c, m), c.current, m), c.current), MutexQ(m))
BY Zenon DEF Unlock, Counted, GivenUp, Lowered, Price

LEMMA UnlockGood ==
  ASSUME NEW c, Good(c), Settled(c), Runs(c), NEW m \in Mutex, NEW n, n = Unlock(c, m)
  PROVE  Good(n) /\ Settled(n) /\ Outlives(c, n)
<1> DEFINE t == c.current
           h == Without(c.held[t], m)
           f == Free(c, t, h, m)
           l == Lowered(f, t)
<1>1. /\ c \in Kernel /\ t \in Thread /\ c.state[t] = "RUNNING" /\ c.disabled = FALSE
      /\ Sound(c, {}) /\ Chained(c, {}) /\ Heirs(c) /\ Claimed(c) /\ Locks(c)
      /\ None \notin Thread /\ None \notin Mutex
  BY ThreadAssumption DEF Good, Sound, Runs, Kernel
<1>2. Outlives(c, c)
  BY <1>1, KeptNothing, KeptOutlives
<1>3. CASE c.owner[m] # t
  <2>1. n = c
    BY <1>3 DEF Unlock
  <2> QED
    BY <1>2, <2>1
<1>4. CASE c.owner[m] = t /\ c.lock[m] - 1 # 0
  <2>1. n = [c EXCEPT !.lock[m] = @ - 1]
    BY <1>1, <1>4 DEF Unlock, Kernel
  <2>2. c.lock[m] \in Nat /\ c.lock[m] # 0
    BY <1>1, <1>4 DEF Locks, Kernel
  <2>3. n.lock = [c.lock EXCEPT ![m] = c.lock[m] - 1]
    BY <1>1, <2>1 DEF Kernel
  <2>4. n.lock \in [Mutex -> Nat]
    BY <1>1, <2>2, <2>3 DEF Kernel
  <2>5. /\ n.state = c.state /\ n.base = c.base /\ n.priority = c.priority
        /\ n.suspend = c.suspend /\ n.mutex = c.mutex /\ n.queue = c.queue
        /\ n.list = c.list /\ n.bits = c.bits /\ n.detached = c.detached
        /\ n.active = c.active
        /\ n.hint = c.hint /\ n.disabled = c.disabled /\ n.current = c.current
        /\ n.held = c.held /\ n.owner = c.owner
    BY <1>1, <2>1 DEF Kernel
  <2>6. n \in Kernel
    <3>1. n = [c EXCEPT !.lock = n.lock]
      BY <1>1, <2>1 DEF Kernel
    <3> DEFINE b == n.lock
    <3> HIDE DEF b
    <3>2. ASSUME b \in [Mutex -> Nat]  PROVE [c EXCEPT !.lock = b] \in Kernel
      BY <1>1, <3>2 DEF Kernel
    <3> QED
      BY <2>4, <3>1, <3>2 DEF b
  <2>7. Sound(n, {})
    BY <1>1, <2>5, <2>6, SameReady
  <2>8. Chained(n, {})
    BY <1>1, <2>5 DEF Chained
  <2>9. Waiting(n) = Waiting(c)
    BY <2>5 DEF Waiting, Waits
  <2>10. Heirs(n) /\ Claimed(n)
    BY <1>1, <2>5, <2>9 DEF Heirs, Inherits, IsBest, Claimed
  <2>11. \A r \in Mutex : n.lock[r] = IF r = m THEN c.lock[m] - 1 ELSE c.lock[r]
    BY <1>1, <2>3 DEF Kernel
  <2>12. Locks(n)
    BY <1>1, <1>4, <2>2, <2>5, <2>11 DEF Locks
  <2>13. Settled(n)
    BY <2>5 DEF Settled, Ready
  <2>14. Outlives(c, n)
    <3>1. \A r \in Mutex : c.lock[r] \in Nat
      BY <1>1 DEF Kernel
    <3>2. \A r \in Mutex : n.lock[r] <= c.lock[r]
      BY <2>2, <2>11, <3>1
    <3>3. NoneJoins(c, n)
      BY <2>5 DEF NoneJoins
    <3> QED
      BY <1>2, <2>5, <3>2, <3>3 DEF Outlives, Spares
  <2> QED
    BY <2>7, <2>8, <2>10, <2>12, <2>13, <2>14 DEF Good
<1>5. CASE c.owner[m] = t /\ c.lock[m] - 1 = 0
  <2>0. n = Wakeup(l, MutexQ(m))
    <3>1. f = GivenUp(Counted(c, m), t, m)
      BY <1>1, <1>5 DEF Free, Kernel, GivenUp, Counted
    <3>2. l = Lowered(f, t)
      OBVIOUS
    <3>3. Counted(c, m).lock[m] = c.lock[m] - 1
      BY <1>1 DEF Kernel, Counted
    <3> HIDE DEF f, l
    <3> QED
      BY <1>5, <3>1, <3>2, <3>3, UnlockIs
  <2>1. f = Free(c, t, h, m) /\ l = Lowered(f, t)
    OBVIOUS
  <2>2. m \in ToSet(c.held[t]) /\ IsLine(h, Mutex, ToSet(c.held[t]) \ {m})
    <3>1. c.held[t] \in Seq(Mutex) /\ IsInjective(c.held[t])
      BY <1>1 DEF Kernel, Locks
    <3>2. m \in ToSet(c.held[t])
      BY <1>1, <1>5 DEF Chained
    <3> QED
      BY <3>1, <3>2, WithoutLine
  <2>t. t = c.current
    OBVIOUS
  <2> HIDE DEF f, l, h, t
  <2>3. OnlyFreed(c, f, t, h, m) /\ Released(c, f, t, m)
    BY <1>1, <1>5, <2>1, <2>2, FreeReleases
  <2>4. /\ Sound(l, {}) /\ Chained(l, {}) /\ Heirs(l)
        /\ OnlyPriced(f, l, t, l.priority[t])
        /\ \/ l.priority = f.priority
           \/ \E u \in Thread : u \in ToSet(c.list[MutexQ(m)]) /\ c.suspend[u] = 0
    BY <2>1, <2>3, <2>t, LoweredIs
  <2>5. /\ l.state = c.state /\ l.suspend = c.suspend /\ l.mutex = c.mutex /\ l.list = c.list
        /\ l.current = c.current /\ l.disabled = c.disabled /\ l.hint = c.hint
        /\ l.owner = [c.owner EXCEPT ![m] = None] /\ l.lock = [c.lock EXCEPT ![m] = 0]
        /\ l.held = f.held
    BY <2>3, <2>4 DEF OnlyFreed, OnlyPriced
  <2>6. Locks(l)
    <3>1. Locks(f) /\ l.owner = f.owner /\ l.lock = f.lock
      BY <2>3, <2>5 DEF Released, OnlyFreed
    <3> QED
      BY <2>5, <3>1 DEF Locks
  <2>7. Wakeable(l, MutexQ(m))
    <3>1. \A r \in Mutex : l.owner[r] = IF r = m THEN None ELSE c.owner[r]
      BY <1>1, <2>5 DEF Kernel
    <3>2. \A u \in Thread : c.mutex[u] \in Mutex \cup {None}
      BY <1>1 DEF Kernel
    <3>3. \A u \in Thread : l.state[u] = "SLEEPING" /\ l.mutex[u] \notin {None, m} =>
                               l.owner[l.mutex[u]] # None
      BY <1>1, <2>5, <3>1, <3>2 DEF Claimed
    <3>4. \A u \in Thread : u = l.current => l.state[u] # "SLEEPING"
      BY <1>1, <2>5, <2>t
    <3> QED
      BY <2>4, <2>6, <3>1, <3>3, <3>4, FreeWakeable
  <2>8. MutexQ(m) \in SleepQueues
    BY QueueNames
  <2>9. PICK s : Awake(l, s, MutexQ(m)) /\ n = Reschedule(s)
    BY <2>0, <2>7, <2>8, Wakes
  <2>10. /\ Good(s) /\ Kept(l, s) /\ Calm(l, s) /\ s.priority = l.priority
         /\ s.hint \/ \A u \in Thread : u \in ToSet(l.list[MutexQ(m)]) => l.suspend[u] # 0
    BY <2>9 DEF Awake
  <2>11. Fair(s)
    <3>1. CASE s.hint
      BY <3>1 DEF Fair
    <3>2. CASE ~s.hint
      <4>1. l.priority = c.priority
        BY <2>3, <2>4, <2>5, <2>10, <3>2 DEF OnlyFreed
      <4>2. Calm(c, l)
        BY <2>5, <4>1 DEF Calm, Ready
      <4>3. Calm(c, s)
        BY <2>10, <4>2, CalmTwice
      <4> QED
        BY <1>1, <4>3, CalmFair DEF Fair
    <3> QED
      BY <3>1, <3>2
  <2>12. Runs(s)
    <3>1. Runs(l) /\ l \in Kernel
      BY <2>4, <2>5 DEF Runs, Sound
    <3>2. s.disabled = l.disabled
      BY <2>10 DEF Kept
    <3> QED
      BY <2>10, <3>1, <3>2, RunsCalm
  <2>13. Good(n) /\ Kept(s, n) /\ Settled(n)
    BY <2>9, <2>10, <2>11, <2>12, Ends
  <2>14. l \in Kernel /\ s \in Kernel /\ n \in Kernel
    BY <2>4, <2>10, <2>13 DEF Good, Sound
  <2>15. Outlives(c, l)
    <3>1. \A r \in Mutex : c.lock[r] \in Nat /\ l.lock[r] = IF r = m THEN 0 ELSE c.lock[r]
      BY <1>1, <2>5 DEF Kernel
    <3>2. \A r \in Mutex : l.lock[r] <= c.lock[r]
      BY <3>1
    <3>3. \A r \in Mutex : l.owner[r] \in {c.owner[r], None}
      BY <1>1, <2>5 DEF Kernel
    <3>4. NoneJoins(c, l)
      <4>1. l.queue = c.queue
        BY <2>3, <2>4 DEF OnlyFreed, OnlyPriced
      <4> QED
        BY <2>5, <4>1 DEF NoneJoins
    <3> QED
      BY <1>2, <2>5, <3>2, <3>3, <3>4 DEF Outlives, Spares
  <2>16. Outlives(l, s) /\ Outlives(s, n)
    BY <2>10, <2>13, <2>14, KeptOutlives
  <2>17. Outlives(c, n)
    <3>1. Outlives(c, s)
      BY <1>1, <2>14, <2>15, <2>16, OutlivesTwice
    <3> QED
      BY <1>1, <2>14, <2>16, <3>1, OutlivesTwice
  <2> QED
    BY <2>13, <2>17
<1> QED
  BY <1>3, <1>4, <1>5

-----------------------------------------------------------------------------
(* Going to sleep *)

Asleep(c, t, q) == [c EXCEPT !.state[t] = "SLEEPING", !.queue[t] = q]

LEMMA AsleepIs ==
  ASSUME NEW c \in Kernel, NEW t \in Thread, NEW q \in Queue, NEW n, n = Asleep(c, t, q)
  PROVE  /\ n \in Kernel /\ AllSame(c, n) /\ n.hint = c.hint
         /\ n.list = c.list /\ n.bits = c.bits
         /\ n.state[t] = "SLEEPING" /\ n.queue[t] = q
         /\ \A u \in Thread \ {t} : n.state[u] = c.state[u] /\ n.queue[u] = c.queue[u]
<1>1. /\ AllSame(c, n) /\ n.hint = c.hint /\ n.list = c.list /\ n.bits = c.bits
  BY DEF Asleep, Kernel, AllSame
<1>2. n.state = [c.state EXCEPT ![t] = "SLEEPING"] /\ n.queue = [c.queue EXCEPT ![t] = q]
  BY DEF Asleep, Kernel
<1>3. c.state \in [Thread -> Alive \cup Dead \cup {"none"}] /\ c.queue \in [Thread -> Queue \cup {None}]
  BY DEF Kernel
<1>4. /\ n.state \in [Thread -> Alive \cup Dead \cup {"none"}]
      /\ n.queue \in [Thread -> Queue \cup {None}]
      /\ n.state[t] = "SLEEPING" /\ n.queue[t] = q
      /\ \A u \in Thread \ {t} : n.state[u] = c.state[u] /\ n.queue[u] = c.queue[u]
  BY <1>2, <1>3 DEF Alive
<1>5. n = [c EXCEPT !.state = n.state, !.queue = n.queue]
  BY DEF Asleep, Kernel
<1> DEFINE r == n.queue
           s == n.state
<1> HIDE DEF r, s
<1>6. ASSUME s \in [Thread -> Alive \cup Dead \cup {"none"}], r \in [Thread -> Queue \cup {None}]
      PROVE  [c EXCEPT !.state = s, !.queue = r] \in Kernel
  BY <1>6 DEF Kernel
<1>7. n \in Kernel
  BY <1>4, <1>5, <1>6 DEF r, s
<1> QED
  BY <1>1, <1>4, <1>7

\* t may sleep on q, where it waits for o if q is the queue of a mutex.
MaySleep(c, t, q, o) ==
  /\ Sound(c, {}) /\ Chained(c, {}) /\ Claimed(c) /\ Locks(c) /\ Runs(c) /\ t = c.current
  /\ IF c.mutex[t] = None THEN o = None /\ \A m \in Mutex : q # MutexQ(m)
     ELSE q = MutexQ(c.mutex[t]) /\ o = c.owner[c.mutex[t]] /\ o \notin {t, None}
  /\ \A u \in Thread : Inherits(c, Waiting(c) \cup {<<t, o>>}, u)

\* Whoever begins to wait for the end of a thread sleeps on q.
Joins(c, n, q) ==
  \A u, x \in Thread : n.state[u] = "SLEEPING" /\ n.queue[u] = JoinQ(x) =>
    (c.state[u] = "SLEEPING" /\ c.queue[u] = JoinQ(x)) \/ q = JoinQ(x)

LEMMA SleepGood ==
  ASSUME NEW c, NEW t, NEW q \in SleepQueues, NEW o, MaySleep(c, t, q, o),
         NEW n, n = Sleep(c, q)
  PROVE  Good(n) /\ Settled(n) /\ Spares(c, n) /\ Joins(c, n, q)
<1> DEFINE a == Asleep(c, t, q)
           b == Link(a, t)
           s == HintUp(b)
<1>1. /\ c \in Kernel /\ t \in Thread /\ t = c.current /\ c.state[t] = "RUNNING"
      /\ Sound(c, {}) /\ Chained(c, {}) /\ Claimed(c) /\ Locks(c) /\ q \in Queue
      /\ None \notin Thread /\ c.disabled = FALSE
  BY ThreadAssumption, QueueNames DEF MaySleep, Sound, Runs, Kernel
<1>2. n = Reschedule(s)
  BY <1>1 DEF Sleep, Asleep, HintUp
<1>3. a = Asleep(c, t, q) /\ b = Link(a, t) /\ s = HintUp(b)
  OBVIOUS
<1> HIDE DEF a, b, s
<1>4. c.suspend[t] = 0 /\ c.priority[t] \in Priority
  BY <1>1 DEF Sound, Fit, ThreadFits, Alive
<1>5. /\ a \in Kernel /\ AllSame(c, a) /\ a.list = c.list /\ a.bits = c.bits
      /\ a.state[t] = "SLEEPING" /\ a.queue[t] = q
      /\ \A u \in Thread \ {t} : a.state[u] = c.state[u] /\ a.queue[u] = c.queue[u]
  BY <1>1, <1>3, AsleepIs
<1>6. Sound(a, {t})
  <2>1. Unplaced(c, t)
    BY <1>1 DEF Unplaced, Ready
  <2>2. Sound(c, {} \cup {t}) /\ {} \cup {t} = {t}
    BY <1>1, <2>1, OnNone
  <2>3. Elsewhere(c, a, t)
    BY <1>5 DEF Elsewhere, AllSame
  <2>4. Sound(c, {t}) /\ t \in {t}
    BY <2>2
  <2> QED
    BY <1>5, <2>3, <2>4, OffChanges
<1>7. Sound(b, {}) /\ Moved(a, b)
  <2>1. a.suspend[t] = 0 => a.priority[t] \in Priority
    BY <1>4, <1>5 DEF AllSame
  <2>2. Sound(b, {t} \ {t}) /\ Moved(a, b) /\ {t} \ {t} = {}
    BY <1>1, <1>3, <1>5, <1>6, <2>1, LinkPuts
  <2> QED
    BY <2>2
<1>8. Sound(s, {}) /\ Moved(b, s) /\ s.hint = TRUE
  BY <1>3, <1>7, HintSound
<1>9. AllSame(c, s)
  BY <1>5, <1>7, <1>8 DEF AllSame, Moved
<1>10. /\ s.state[t] = "SLEEPING" /\ s.queue[t] = q
       /\ \A u \in Thread \ {t} : s.state[u] = c.state[u]
            /\ (c.state[u] = "SLEEPING" => s.queue[u] = c.queue[u])
  <2>1. s.state = a.state
    BY <1>7, <1>8 DEF Moved
  <2>2. \A u \in Thread : a.state[u] = "SLEEPING" => s.queue[u] = a.queue[u]
    BY <1>7, <1>8 DEF Moved
  <2> QED
    BY <1>1, <1>5, <2>1, <2>2
<1>11. /\ s.base = c.base /\ s.priority = c.priority /\ s.suspend = c.suspend
       /\ s.mutex = c.mutex /\ s.held = c.held /\ s.owner = c.owner /\ s.lock = c.lock
       /\ s.disabled = c.disabled /\ s.current = c.current
  BY <1>9 DEF AllSame
<1>12. Chained(s, {})
  <2>1. \A u \in Thread \ {t} : s.state[u] = "SLEEPING" =>
          /\ s.mutex[u] # None =>
               s.queue[u] = MutexQ(s.mutex[u]) /\ s.owner[s.mutex[u]] # u
          /\ \A m \in Mutex : s.queue[u] = MutexQ(m) => s.mutex[u] = m
          /\ s.suspend[u] # 0 => s.priority[u] = Suspended
    BY <1>1, <1>10, <1>11 DEF Chained
  <2>2. /\ s.mutex[t] # None =>
             s.queue[t] = MutexQ(s.mutex[t]) /\ s.owner[s.mutex[t]] # t
        /\ s.suspend[t] = 0
    BY <1>4, <1>10, <1>11 DEF MaySleep
  <2>3. \A m, r \in Mutex : MutexQ(m) = MutexQ(r) => m = r
    BY DEF MutexQ
  <2>4. c.mutex[t] \in Mutex \cup {None}
    BY <1>1 DEF Kernel
  <2>5. \A m \in Mutex : s.queue[t] = MutexQ(m) => s.mutex[t] = m
    BY <1>10, <1>11, <2>3, <2>4 DEF MaySleep
  <2>6. \A m \in Mutex, u \in Thread : s.owner[m] = u <=> m \in ToSet(s.held[u])
    BY <1>1, <1>11 DEF Chained
  <2> QED
    BY <2>1, <2>2, <2>5, <2>6 DEF Chained
<1>13. ASSUME NEW u \in Thread, NEW v \in Thread
       PROVE  <<u, v>> \in Waiting(s) <=> <<u, v>> \in Waiting(c) \cup {<<t, o>>}
  <2>1. <<u, v>> \in Waiting(s) <=> NextOwner(s, u) = v
    BY <1>8, <1>12, WaitingIs
  <2>2. <<u, v>> \in Waiting(c) <=> NextOwner(c, u) = v
    BY <1>1, WaitingIs
  <2>3. CASE u = t
    <3>1. NextOwner(c, t) = None
      BY <1>1 DEF NextOwner
    <3>2. NextOwner(s, t) = o
      BY <1>10, <1>11 DEF NextOwner, MaySleep
    <3> QED
      BY <1>1, <2>1, <2>2, <2>3, <3>1, <3>2
  <2>4. CASE u # t
    <3>1. NextOwner(s, u) = NextOwner(c, u)
      BY <1>10, <1>11, <2>4 DEF NextOwner
    <3> QED
      BY <2>1, <2>2, <2>4, <3>1
  <2> QED
    BY <2>3, <2>4
<1>14. Heirs(s)
  <2> SUFFICES ASSUME NEW v \in Thread  PROVE Inherits(s, Waiting(s), v)
    BY DEF Heirs
  <2>1. Inherits(c, Waiting(c) \cup {<<t, o>>}, v)
    BY DEF MaySleep
  <2>2. \A u \in Thread : <<u, v>> \in Waiting(s) <=> <<u, v>> \in Waiting(c) \cup {<<t, o>>}
    BY <1>13
  <2> DEFINE W == Waiting(c) \cup {<<t, o>>}
             Z == Waiting(s)
  <2> HIDE DEF W, Z
  <2>3. Inherits(c, Z, v)
    <3>1. Inherits(c, W, v) /\ \A u \in Thread : <<u, v>> \in Z <=> <<u, v>> \in W
      BY <2>1, <2>2 DEF W, Z
    <3> QED
      BY <3>1 DEF Inherits, IsBest
  <2>4. s.state[v] \in Alive => c.state[v] \in Alive
    BY <1>1, <1>10 DEF Alive
  <2>5. Inherits(s, Z, v)
    BY <1>11, <2>3, <2>4, InheritsKept
  <2> QED
    BY <2>5 DEF Z
<1>15. Claimed(s)
  <2>1. s.mutex[t] # None => s.owner[s.mutex[t]] # None
    BY <1>11 DEF MaySleep
  <2> QED
    BY <1>1, <1>10, <1>11, <2>1 DEF Claimed
<1>16. Good(s)
  <2>1. Locks(s)
    BY <1>1, <1>11 DEF Locks
  <2> QED
    BY <1>8, <1>12, <1>14, <1>15, <2>1 DEF Good
<1>17. Good(n) /\ Kept(s, n) /\ Settled(n)
  <2>1. Fair(s)
    BY <1>8 DEF Fair
  <2>2. s.disabled = FALSE /\ s.current # None /\ s.hint
    BY <1>1, <1>8, <1>11
  <2> QED
    BY <1>2, <1>16, <2>1, <2>2, Ends
<1>18. Spares(c, s)
  <2>1. Spares(c, c)
    BY <1>1, KeptNothing, KeptOutlives DEF Outlives
  <2>2. \A u \in Thread : /\ s.state[u] \in Alive <=> c.state[u] \in Alive
                          /\ c.state[u] \notin Alive => s.state[u] = c.state[u]
    BY <1>1, <1>10 DEF Alive
  <2> QED
    BY <1>11, <2>1, <2>2 DEF Spares
<1>19. s \in Kernel /\ n \in Kernel
  BY <1>8, <1>17 DEF Good, Sound
<1>20. Spares(c, n)
  <2>1. Spares(s, n)
    BY <1>17, <1>19, KeptOutlives DEF Outlives
  <2> QED
    BY <1>1, <1>18, <1>19, <2>1, SparesTwice
<1>21. Joins(c, n, q)
  <2>1. \A u \in Thread : n.state[u] = "SLEEPING" =>
          s.state[u] = "SLEEPING" /\ n.queue[u] = s.queue[u]
    BY <1>17 DEF Kept, Lives
  <2>2. \A u \in Thread : s.state[u] = "SLEEPING" =>
          s.queue[u] = q \/ (c.state[u] = "SLEEPING" /\ s.queue[u] = c.queue[u])
    BY <1>10
  <2> QED
    BY <2>1, <2>2 DEF Joins
<1> QED
  BY <1>17, <1>20, <1>21

LEMMA JoinsNone ==
  ASSUME NEW c, NEW n, NEW q, Spares(c, n), Joins(c, n, q), \A x \in Thread : q # JoinQ(x)
  PROVE  Outlives(c, n)
BY DEF Joins, NoneJoins, Outlives

\* Sleeping on the queue of a driver or of a join.
LEMMA QueueSleepGood ==
  ASSUME NEW c, Good(c), Runs(c), c.mutex[c.current] = None,
         NEW q \in SleepQueues, \A m \in Mutex : q # MutexQ(m),
         NEW n, n = Sleep(c, q)
  PROVE  Good(n) /\ Settled(n) /\ Spares(c, n) /\ Joins(c, n, q)
<1>1. \A u \in Thread : Inherits(c, Waiting(c), u)
  BY DEF Good, Heirs
<1>2. None \notin Thread
  BY ThreadAssumption
<1>3. \A u \in Thread : Inherits(c, Waiting(c) \cup {<<c.current, None>>}, u)
  <2>1. \A u, v \in Thread : <<u, v>> \in Waiting(c) \cup {<<c.current, None>>} <=> <<u, v>> \in Waiting(c)
    BY <1>2
  <2> DEFINE W == Waiting(c) \cup {<<c.current, None>>}
  <2> HIDE DEF W
  <2>2. \A u \in Thread : Inherits(c, W, u)
    BY <1>1, <2>1 DEF Inherits, IsBest, W
  <2> QED
    BY <2>2 DEF W
<1>4. MaySleep(c, c.current, q, None)
  BY <1>3 DEF MaySleep, Good
<1> QED
  BY <1>4, SleepGood

\* The mutex that the running thread has in mind.
Minds(c, t, x) == [c EXCEPT !.mutex[t] = x]

SameButMutex(c, n) ==
  /\ n.state = c.state /\ n.base = c.base /\ n.priority = c.priority
  /\ n.suspend = c.suspend /\ n.queue = c.queue /\ n.held = c.held
  /\ n.owner = c.owner /\ n.lock = c.lock /\ n.list = c.list /\ n.bits = c.bits
  /\ n.hint = c.hint /\ n.current = c.current /\ n.disabled = c.disabled

LEMMA MindsGood ==
  ASSUME NEW c, Good(c), NEW t \in Thread, c.state[t] = "RUNNING",
         NEW x \in Mutex \cup {None}, NEW n, n = Minds(c, t, x)
  PROVE  /\ Good(n) /\ SameButMutex(c, n) /\ Waiting(n) = Waiting(c)
         /\ n.mutex[t] = x /\ \A u \in Thread \ {t} : n.mutex[u] = c.mutex[u]
<1>1. Sound(c, {}) /\ Chained(c, {}) /\ Heirs(c) /\ Claimed(c) /\ Locks(c) /\ c \in Kernel
  BY DEF Good, Sound
<1>2. n.mutex = [c.mutex EXCEPT ![t] = x]
  BY <1>1 DEF Minds, Kernel
<1>3. /\ n.mutex \in [Thread -> Mutex \cup {None}]
      /\ n.mutex[t] = x /\ \A u \in Thread \ {t} : n.mutex[u] = c.mutex[u]
  BY <1>1, <1>2 DEF Kernel
<1>4. n = [c EXCEPT !.mutex = n.mutex]
  BY <1>1 DEF Minds, Kernel
<1>5. n \in Kernel
  <2> DEFINE b == n.mutex
  <2> HIDE DEF b
  <2>1. ASSUME b \in [Thread -> Mutex \cup {None}]  PROVE [c EXCEPT !.mutex = b] \in Kernel
    BY <1>1, <2>1 DEF Kernel
  <2> QED
    BY <1>3, <1>4, <2>1 DEF b
<1>6. /\ n.state = c.state /\ n.base = c.base /\ n.priority = c.priority
      /\ n.suspend = c.suspend /\ n.queue = c.queue /\ n.held = c.held
      /\ n.owner = c.owner /\ n.lock = c.lock /\ n.list = c.list /\ n.bits = c.bits
      /\ n.hint = c.hint /\ n.current = c.current /\ n.disabled = c.disabled
  BY <1>1 DEF Minds, Kernel
<1>7. Sound(n, {})
  BY <1>1, <1>5, <1>6, SameReady
<1>8. Chained(n, {})
  BY <1>1, <1>3, <1>6 DEF Chained
<1>9. Waiting(n) = Waiting(c)
  BY <1>6 DEF Waiting, Waits
<1>10. Heirs(n) /\ Locks(n)
  BY <1>1, <1>6, <1>9 DEF Heirs, Inherits, IsBest, Locks
<1>11. Claimed(n)
  BY <1>1, <1>3, <1>6 DEF Claimed
<1> QED
  BY <1>3, <1>6, <1>7, <1>8, <1>9, <1>10, <1>11 DEF Good, SameButMutex

\* Only the mutex m changes, and who holds it.
OnlyLocked(c, n) ==
  /\ n.state = c.state /\ n.base = c.base /\ n.priority = c.priority
  /\ n.suspend = c.suspend /\ n.queue = c.queue /\ n.mutex = c.mutex
  /\ n.list = c.list /\ n.bits = c.bits
  /\ n.hint = c.hint /\ n.current = c.current /\ n.disabled = c.disabled

LEMMA AcquireGood ==
  ASSUME NEW c, Good(c), NEW t \in Thread, NEW m \in Mutex, c.owner[m] = None,
         NEW n, n = Acquire(c, t, m)
  PROVE  /\ Good(n) /\ OnlyLocked(c, n) /\ n.lock = [c.lock EXCEPT ![m] = @ + 1]
         /\ n.owner = [c.owner EXCEPT ![m] = t]
<1>1. Sound(c, {}) /\ Chained(c, {}) /\ Heirs(c) /\ Claimed(c) /\ Locks(c) /\ c \in Kernel
      /\ None \notin Thread /\ None \notin Mutex
  BY ThreadAssumption DEF Good, Sound
<1>2. /\ OnlyLocked(c, n)
      /\ n.lock = [c.lock EXCEPT ![m] = c.lock[m] + 1]
      /\ n.owner = [c.owner EXCEPT ![m] = t]
      /\ n.held = [c.held EXCEPT ![t] = Append(c.held[t], m)]
  BY <1>1 DEF Acquire, Kernel, OnlyLocked
<1>3. m \notin ToSet(c.held[t]) /\ c.held[t] \in Seq(Mutex) /\ IsInjective(c.held[t])
  BY <1>1 DEF Chained, Locks, Kernel
<1> DEFINE h == Append(c.held[t], m)
<1>h. h = Append(c.held[t], m)
  OBVIOUS
<1> HIDE DEF h
<1>4. IsLine(h, Mutex, ToSet(c.held[t]) \cup {m})
  BY <1>3, <1>h, AppendLine
<1>5. h \in Seq(Mutex) /\ IsInjective(h) /\ ToSet(h) = ToSet(c.held[t]) \cup {m}
  BY <1>4 DEF IsLine
<1>6. /\ n.held \in [Thread -> Seq(Mutex)]
      /\ \A u \in Thread : n.held[u] = IF u = t THEN h ELSE c.held[u]
  BY <1>1, <1>2, <1>5, <1>h DEF Kernel
<1>7. /\ n.owner \in [Mutex -> Thread \cup {None}] /\ n.lock \in [Mutex -> Nat]
      /\ \A r \in Mutex : n.owner[r] = IF r = m THEN t ELSE c.owner[r]
      /\ \A r \in Mutex : n.lock[r] = IF r = m THEN c.lock[m] + 1 ELSE c.lock[r]
  BY <1>1, <1>2 DEF Kernel
<1>8. n \in Kernel
  <2>1. n = [c EXCEPT !.owner = n.owner, !.lock = n.lock, !.held = n.held]
    BY <1>1 DEF Acquire, Kernel
  <2> DEFINE a == n.held
             b == n.lock
             o == n.owner
  <2> HIDE DEF a, b, o
  <2>2. ASSUME a \in [Thread -> Seq(Mutex)], b \in [Mutex -> Nat], o \in [Mutex -> Thread \cup {None}]
        PROVE  [c EXCEPT !.owner = o, !.lock = b, !.held = a] \in Kernel
    BY <1>1, <2>2 DEF Kernel
  <2> QED
    BY <1>6, <1>7, <2>1, <2>2 DEF a, b, o
<1>9. /\ n.state = c.state /\ n.base = c.base /\ n.priority = c.priority
      /\ n.suspend = c.suspend /\ n.queue = c.queue /\ n.mutex = c.mutex
      /\ n.list = c.list /\ n.bits = c.bits
  BY <1>2 DEF OnlyLocked
<1>10. Sound(n, {})
  BY <1>1, <1>8, <1>9, SameReady
<1>11. \A u \in Thread : c.state[u] = "SLEEPING" => c.mutex[u] # m
  BY <1>1 DEF Claimed
<1>12. Chained(n, {})
  <2>1. ASSUME NEW r \in Mutex, NEW u \in Thread
        PROVE  n.owner[r] = u <=> r \in ToSet(n.held[u])
    <3>1. c.owner[r] = u <=> r \in ToSet(c.held[u])
      BY <1>1 DEF Chained
    <3>2. CASE u = t
      <4>1. r \in ToSet(n.held[u]) <=> r \in ToSet(c.held[u]) \/ r = m
        BY <1>5, <1>6, <3>2
      <4> QED
        BY <1>7, <3>1, <3>2, <4>1
    <3>3. CASE u # t
      <4>1. n.held[u] = c.held[u]
        BY <1>6, <3>3
      <4>2. u # None
        BY <1>1
      <4> QED
        BY <1>7, <3>1, <3>3, <4>1, <4>2
    <3> QED
      BY <3>2, <3>3
  <2>2. \A u \in Thread : c.mutex[u] \in Mutex \cup {None}
    BY <1>1 DEF Kernel
  <2>3. \A u \in Thread : n.state[u] = "SLEEPING" =>
          /\ n.mutex[u] # None =>
               n.queue[u] = MutexQ(n.mutex[u]) /\ n.owner[n.mutex[u]] # u
          /\ \A r \in Mutex : n.queue[u] = MutexQ(r) => n.mutex[u] = r
          /\ n.suspend[u] # 0 => n.priority[u] = Suspended
    BY <1>1, <1>7, <1>9, <1>11, <2>2 DEF Chained
  <2> QED
    BY <2>1, <2>3 DEF Chained
<1>13. Waiting(n) = Waiting(c)
  <2>1. ASSUME NEW u \in Thread, NEW v \in Thread
        PROVE  <<u, v>> \in Waiting(n) <=> <<u, v>> \in Waiting(c)
    <3>1. <<u, v>> \in Waiting(n) <=> NextOwner(n, u) = v
      BY <1>10, <1>12, WaitingIs
    <3>2. <<u, v>> \in Waiting(c) <=> NextOwner(c, u) = v
      BY <1>1, WaitingIs
    <3>3. c.mutex[u] \in Mutex \cup {None}
      BY <1>1 DEF Kernel
    <3>4. NextOwner(n, u) = NextOwner(c, u)
      BY <1>7, <1>9, <1>11, <3>3 DEF NextOwner
    <3> QED
      BY <3>1, <3>2, <3>4
  <2>2. Waiting(n) \subseteq Thread \X Thread /\ Waiting(c) \subseteq Thread \X Thread
    BY DEF Waiting
  <2> QED
    BY <2>1, <2>2
<1>14. Heirs(n)
  BY <1>1, <1>9, <1>13 DEF Heirs, Inherits, IsBest
<1>15. Claimed(n)
  <2>1. \A u \in Thread : c.mutex[u] \in Mutex \cup {None}
    BY <1>1 DEF Kernel
  <2> QED
    BY <1>1, <1>7, <1>9, <2>1 DEF Claimed
<1>16. Locks(n)
  <2>1. \A r \in Mutex : c.lock[r] \in Nat
    BY <1>1 DEF Kernel
  <2>2. \A r \in Mutex : n.owner[r] = None <=> n.lock[r] = 0
    BY <1>1, <1>7, <2>1 DEF Locks
  <2>3. \A u \in Thread : IsInjective(n.held[u])
    BY <1>1, <1>5, <1>6 DEF Locks
  <2> QED
    BY <2>2, <2>3 DEF Locks
<1> QED
  BY <1>2, <1>10, <1>12, <1>14, <1>15, <1>16 DEF Good

\* One lock more by the owner.
LockMore(c, m) == [c EXCEPT !.lock[m] = @ + 1]

LEMMA LockMoreGood ==
  ASSUME NEW c, Good(c), NEW m \in Mutex, c.owner[m] # None, NEW n, n = LockMore(c, m)
  PROVE  /\ Good(n) /\ OnlyLocked(c, n) /\ n.lock = [c.lock EXCEPT ![m] = @ + 1]
         /\ n.owner = c.owner
<1>1. Sound(c, {}) /\ Chained(c, {}) /\ Heirs(c) /\ Claimed(c) /\ Locks(c) /\ c \in Kernel
  BY DEF Good, Sound
<1>2. /\ OnlyLocked(c, n) /\ n.owner = c.owner /\ n.held = c.held
      /\ n.lock = [c.lock EXCEPT ![m] = c.lock[m] + 1]
  BY <1>1 DEF LockMore, Kernel, OnlyLocked
<1>3. /\ n.lock \in [Mutex -> Nat]
      /\ \A r \in Mutex : n.lock[r] = IF r = m THEN c.lock[m] + 1 ELSE c.lock[r]
  BY <1>1, <1>2 DEF Kernel
<1>4. n \in Kernel
  <2>1. n = [c EXCEPT !.lock = n.lock]
    BY <1>1 DEF LockMore, Kernel
  <2> DEFINE b == n.lock
  <2> HIDE DEF b
  <2>2. ASSUME b \in [Mutex -> Nat]  PROVE [c EXCEPT !.lock = b] \in Kernel
    BY <1>1, <2>2 DEF Kernel
  <2> QED
    BY <1>3, <2>1, <2>2 DEF b
<1>5. /\ n.state = c.state /\ n.base = c.base /\ n.priority = c.priority
      /\ n.suspend = c.suspend /\ n.queue = c.queue /\ n.mutex = c.mutex
      /\ n.list = c.list /\ n.bits = c.bits
  BY <1>2 DEF OnlyLocked
<1>6. Sound(n, {})
  BY <1>1, <1>4, <1>5, SameReady
<1>7. Chained(n, {})
  BY <1>1, <1>2, <1>5 DEF Chained
<1>8. Waiting(n) = Waiting(c)
  BY <1>2, <1>5 DEF Waiting, Waits
<1>9. Heirs(n) /\ Claimed(n)
  BY <1>1, <1>2, <1>5, <1>8 DEF Heirs, Inherits, IsBest, Claimed
<1>10. Locks(n)
  <2>1. \A r \in Mutex : c.lock[r] \in Nat
    BY <1>1 DEF Kernel
  <2>2. \A r \in Mutex : n.owner[r] = None <=> n.lock[r] = 0
    BY <1>1, <1>2, <1>3, <2>1 DEF Locks
  <2> QED
    BY <1>1, <1>2, <2>2 DEF Locks
<1> QED
  BY <1>2, <1>6, <1>7, <1>9, <1>10 DEF Good

\* Taking a mutex or waiting for it: only t's own mutex and locks change.
LockEnds(c, n, t, m) ==
  /\ n.disabled = c.disabled
  /\ \A u \in Thread :
       /\ n.suspend[u] <= c.suspend[u]
       /\ n.state[u] \in Alive <=> c.state[u] \in Alive
       /\ c.state[u] \notin Alive => n.state[u] = c.state[u]
       /\ u # t => n.mutex[u] = c.mutex[u]
  /\ \A r \in Mutex \ {m} : n.owner[r] \in {c.owner[r], None} /\ n.lock[r] <= c.lock[r]
  /\ IF c.owner[m] \in {None, t}
       THEN n.owner[m] = t /\ n.mutex[t] = None /\ n.lock[m] = c.lock[m] + 1
       ELSE n.owner[m] \in {c.owner[m], None} /\ n.lock[m] <= c.lock[m]
  /\ NoneJoins(c, n)

LEMMA TakeMutexGood ==
  ASSUME NEW c, Good(c), Settled(c), NEW t \in Thread, c.mutex[t] = None, NEW m \in Mutex,
         c.owner[m] \in {None, t},
         NEW n, n = IF c.owner[m] = None THEN Acquire(c, t, m) ELSE LockMore(c, m)
  PROVE  Good(n) /\ Settled(n) /\ LockEnds(c, n, t, m)
<1>1. c \in Kernel /\ t # None
  BY ThreadAssumption DEF Good, Sound
<1>2. /\ Good(n) /\ OnlyLocked(c, n) /\ n.lock = [c.lock EXCEPT ![m] = @ + 1]
      /\ \A r \in Mutex : n.owner[r] = IF r = m THEN t ELSE c.owner[r]
  <2>1. CASE c.owner[m] = None
    <3>1. n = Acquire(c, t, m)
      BY <2>1
    <3>2. /\ Good(n) /\ OnlyLocked(c, n) /\ n.lock = [c.lock EXCEPT ![m] = @ + 1]
          /\ n.owner = [c.owner EXCEPT ![m] = t]
      BY <2>1, <3>1, AcquireGood
    <3>3. \A r \in Mutex : n.owner[r] = IF r = m THEN t ELSE c.owner[r]
      BY <1>1, <3>2 DEF Kernel
    <3> QED
      BY <3>2, <3>3
  <2>2. CASE c.owner[m] = t
    <3>1. n = LockMore(c, m) /\ c.owner[m] # None
      BY <1>1, <2>2
    <3>2. /\ Good(n) /\ OnlyLocked(c, n) /\ n.lock = [c.lock EXCEPT ![m] = @ + 1]
          /\ n.owner = c.owner
      BY <3>1, LockMoreGood
    <3> QED
      BY <2>2, <3>2
  <2> QED
    BY <2>1, <2>2
<1>3. Settled(n)
  BY <1>2 DEF OnlyLocked, Settled, Ready
<1>4. LockEnds(c, n, t, m)
  <2>1. \A r \in Mutex : /\ c.lock[r] \in Nat
                         /\ n.lock[r] = IF r = m THEN c.lock[m] + 1 ELSE c.lock[r]
    BY <1>1, <1>2 DEF Kernel
  <2>2. \A u \in Thread : c.suspend[u] \in Nat
    BY <1>1 DEF Kernel
  <2>3. n.state = c.state /\ n.suspend = c.suspend /\ n.mutex = c.mutex /\ n.disabled = c.disabled
    BY <1>2 DEF OnlyLocked
  <2>4. \A r \in Mutex \ {m} : n.owner[r] \in {c.owner[r], None} /\ n.lock[r] <= c.lock[r]
    BY <1>2, <2>1
  <2>5. n.owner[m] = t /\ n.lock[m] = c.lock[m] + 1
    BY <1>2, <2>1
  <2>6. \A u \in Thread : n.suspend[u] <= c.suspend[u]
    BY <2>2, <2>3
  <2>7. NoneJoins(c, n)
    BY <1>2 DEF OnlyLocked, NoneJoins
  <2> QED
    BY <2>3, <2>4, <2>5, <2>6, <2>7 DEF LockEnds
<1> QED
  BY <1>2, <1>3, <1>4

\* One turn of the loop of OSLockMutex.
LEMMA LockTurnGood ==
  ASSUME NEW c, Good(c), Settled(c), Runs(c), NEW t, t = c.current, c.mutex[t] = None,
         NEW m \in Mutex, NEW n, n = LockTurn(c, m)
  PROVE  Good(n) /\ Settled(n) /\ LockEnds(c, n, t, m)
<1>1. /\ c \in Kernel /\ t \in Thread /\ c.state[t] = "RUNNING"
      /\ Sound(c, {}) /\ Chained(c, {}) /\ Heirs(c) /\ Claimed(c) /\ Locks(c)
      /\ None \notin Thread /\ None \notin Mutex
  BY ThreadAssumption DEF Good, Sound, Runs, Kernel
<1>2. CASE c.owner[m] \in {None, t}
  <2>1. n = IF c.owner[m] = None THEN Acquire(c, t, m) ELSE LockMore(c, m)
    BY <1>2 DEF LockTurn, LockMore
  <2> QED
    BY <1>1, <1>2, <2>1, TakeMutexGood
<1>3. CASE c.owner[m] \notin {None, t}
  <2> DEFINE o == c.owner[m]
             j == Minds(c, t, m)
             p == c.priority[t]
             w == PromoteThread(j, o, p)
  <2>0. n = Sleep(w, MutexQ(m))
    BY <1>3 DEF LockTurn, Minds
  <2>1. /\ o = c.owner[m] /\ j = Minds(c, t, m) /\ p = c.priority[t]
        /\ w = PromoteThread(j, o, p)
    OBVIOUS
  <2> HIDE DEF o, j, p, w
  <2>2. o \in Thread /\ o # t
    BY <1>1, <1>3, <2>1 DEF Kernel
  <2>3. /\ Good(j) /\ SameButMutex(c, j) /\ Waiting(j) = Waiting(c)
        /\ j.mutex[t] = m /\ \A u \in Thread \ {t} : j.mutex[u] = c.mutex[u]
    BY <1>1, <2>1, MindsGood
  <2>4. j \in Kernel /\ Sound(j, {}) /\ Chained(j, {}) /\ Heirs(j) /\ Claimed(j) /\ Locks(j)
    BY <2>3 DEF Good, Sound
  <2>5. p = j.priority[t] /\ p \in Priority
    <3>1. ThreadFits(c, t)
      BY <1>1 DEF Sound, Fit
    <3> QED
      BY <1>1, <2>1, <2>3, <3>1 DEF SameButMutex, ThreadFits, Alive
  <2>6. Arrived(j, w, Waiting(j) \cup {<<t, o>>}, {})
    <3>1. w = PromoteThread(j, o, j.priority[t])
      BY <2>1, <2>5
    <3>2. \A u \in Thread : Inherits(j, Waiting(j), u)
      BY <2>4 DEF Heirs
    <3> QED
      BY <1>1, <2>2, <2>4, <2>5, <3>1, <3>2, PromoteArrives
  <2>7. /\ Sound(w, {}) /\ Chained(w, {}) /\ Kept(j, w) /\ Calm(j, w) /\ w.state = j.state
        /\ w \in Kernel
    BY <2>6 DEF Arrived, Sound
  <2>8. Waiting(w) = Waiting(j)
    BY <2>4, <2>7, WaitingSame
  <2>9. /\ w.mutex = j.mutex /\ w.owner = c.owner /\ w.current = c.current
        /\ w.disabled = c.disabled /\ w.state = c.state
        /\ w.lock = c.lock /\ w.suspend = c.suspend
    BY <2>3, <2>7 DEF Kept, Calm, SameButMutex
  <2>10. MaySleep(w, t, MutexQ(m), o)
    <3>1. Claimed(w) /\ Locks(w)
      BY <2>4, <2>7 DEF Claimed, Locks, Kept
    <3>2. Runs(w) /\ t = w.current
      BY <2>9 DEF Runs
    <3>3. w.mutex[t] = m /\ m # None /\ o = w.owner[m] /\ o \notin {t, None}
      BY <1>1, <2>1, <2>2, <2>3, <2>9
    <3>4. \A u \in Thread : Inherits(w, Waiting(w) \cup {<<t, o>>}, u)
      BY <2>6, <2>8 DEF Arrived
    <3> QED
      BY <2>7, <3>1, <3>2, <3>3, <3>4 DEF MaySleep
  <2>11. Good(n) /\ Settled(n) /\ Outlives(w, n)
    <3>1. Good(n) /\ Settled(n) /\ Spares(w, n) /\ Joins(w, n, MutexQ(m))
      BY <2>0, <2>10, QueueNames, SleepGood
    <3>2. \A x \in Thread : MutexQ(m) # JoinQ(x)
      BY DEF MutexQ, JoinQ
    <3> QED
      BY <3>1, <3>2, JoinsNone
  <2>12. LockEnds(c, n, t, m)
    <3>1. c.owner[m] \notin {None, t} /\ n.owner[m] \in {c.owner[m], None} /\ n.lock[m] <= c.lock[m]
      BY <1>3, <2>9, <2>11 DEF Outlives, Spares
    <3>2. \A r \in Mutex : n.owner[r] \in {c.owner[r], None} /\ n.lock[r] <= c.lock[r]
      BY <2>9, <2>11 DEF Outlives, Spares
    <3>3. \A u \in Thread :
            /\ n.suspend[u] <= c.suspend[u]
            /\ n.state[u] \in Alive <=> c.state[u] \in Alive
            /\ c.state[u] \notin Alive => n.state[u] = c.state[u]
            /\ u # t => n.mutex[u] = c.mutex[u]
      BY <2>3, <2>9, <2>11 DEF Outlives, Spares
    <3>4. n.disabled = c.disabled
      BY <2>9, <2>11 DEF Outlives, Spares
    <3>5. NoneJoins(c, n)
      <4>1. NoneJoins(w, n)
        BY <2>11 DEF Outlives
      <4>2. \A u \in Thread : w.state[u] = "SLEEPING" =>
              c.state[u] = "SLEEPING" /\ w.queue[u] = c.queue[u]
        BY <2>3, <2>7 DEF Kept, Lives, SameButMutex
      <4> QED
        BY <4>1, <4>2 DEF NoneJoins
    <3> QED
      BY <3>1, <3>2, <3>3, <3>4, <3>5 DEF LockEnds
  <2> QED
    BY <2>11, <2>12
<1> QED
  BY <1>2, <1>3

-----------------------------------------------------------------------------
(* Suspension *)

Recount(c, t, v) == [c EXCEPT !.suspend[t] = v]

OnlyRecounted(c, n, t, v) ==
  /\ n.state = c.state /\ n.detached = c.detached /\ n.base = c.base
  /\ n.priority = c.priority
  /\ n.mutex = c.mutex /\ n.queue = c.queue /\ n.active = c.active /\ n.held = c.held
  /\ n.owner = c.owner /\ n.lock = c.lock /\ n.list = c.list /\ n.bits = c.bits
  /\ n.hint = c.hint /\ n.current = c.current /\ n.disabled = c.disabled
  /\ n.suspend[t] = v /\ \A u \in Thread \ {t} : n.suspend[u] = c.suspend[u]

LEMMA RecountIs ==
  ASSUME NEW c \in Kernel, NEW t \in Thread, NEW v \in Nat, NEW n, n = Recount(c, t, v)
  PROVE  n \in Kernel /\ OnlyRecounted(c, n, t, v)
<1>1. n.suspend = [c.suspend EXCEPT ![t] = v]
  BY DEF Recount, Kernel
<1>2. /\ n.suspend \in [Thread -> Nat]
      /\ n.suspend[t] = v /\ \A u \in Thread \ {t} : n.suspend[u] = c.suspend[u]
  BY <1>1 DEF Kernel
<1>3. /\ n.state = c.state /\ n.detached = c.detached /\ n.base = c.base
      /\ n.priority = c.priority
      /\ n.mutex = c.mutex /\ n.queue = c.queue /\ n.active = c.active /\ n.held = c.held
      /\ n.owner = c.owner /\ n.lock = c.lock /\ n.list = c.list /\ n.bits = c.bits
      /\ n.hint = c.hint /\ n.current = c.current /\ n.disabled = c.disabled
  BY DEF Recount, Kernel
<1>4. n = [c EXCEPT !.suspend = n.suspend]
  BY DEF Recount, Kernel
<1> DEFINE s == n.suspend
<1> HIDE DEF s
<1>5. ASSUME s \in [Thread -> Nat]  PROVE [c EXCEPT !.suspend = s] \in Kernel
  BY <1>5 DEF Kernel
<1>6. n \in Kernel
  BY <1>2, <1>4, <1>5 DEF s
<1> QED
  BY <1>2, <1>3, <1>6 DEF OnlyRecounted

\* A count that does not reach or leave zero changes nothing for the living.
LEMMA RecountGood ==
  ASSUME NEW c, Good(c), NEW t \in Thread, NEW v \in Nat,
         c.state[t] \in Alive => c.suspend[t] # 0 /\ v # 0,
         NEW n, n = Recount(c, t, v)
  PROVE  Good(n) /\ OnlyRecounted(c, n, t, v) /\ Calm(c, n)
<1>1. Sound(c, {}) /\ Chained(c, {}) /\ Heirs(c) /\ Claimed(c) /\ Locks(c) /\ c \in Kernel
  BY DEF Good, Sound
<1>2. n \in Kernel /\ OnlyRecounted(c, n, t, v)
  BY <1>1, RecountIs
<1>3. \A u \in Thread : c.state[u] \in Alive => (n.suspend[u] = 0 <=> c.suspend[u] = 0)
  BY <1>2 DEF OnlyRecounted
<1>4. /\ n.state = c.state /\ n.base = c.base /\ n.priority = c.priority /\ n.queue = c.queue
      /\ n.list = c.list /\ n.bits = c.bits /\ n.mutex = c.mutex /\ n.owner = c.owner
      /\ n.held = c.held /\ n.lock = c.lock /\ n.current = c.current /\ n.hint = c.hint
  BY <1>2 DEF OnlyRecounted
<1>5. Sound(n, {})
  BY <1>1, <1>2, <1>3, <1>4, SameReady
<1>6. Chained(n, {})
  BY <1>1, <1>3, <1>4 DEF Chained, Alive
<1>7. Waiting(n) = Waiting(c)
  BY <1>4 DEF Waiting, Waits
<1>8. Heirs(n)
  BY <1>1, <1>3, <1>4, <1>7 DEF Heirs, Inherits, IsBest
<1>9. Claimed(n) /\ Locks(n)
  BY <1>1, <1>4 DEF Claimed, Locks
<1>10. Calm(c, n)
  BY <1>3, <1>4 DEF Calm, Ready, Alive
<1> QED
  BY <1>2, <1>5, <1>6, <1>8, <1>9, <1>10 DEF Good

\* The sleeper t has another priority, and its place on the queue with it.
Replaced(c, e, t) ==
  /\ Sound(e, {})
  /\ e.state = c.state /\ e.base = c.base /\ e.mutex = c.mutex /\ e.held = c.held
  /\ e.owner = c.owner /\ e.lock = c.lock /\ e.current = c.current
  /\ e.disabled = c.disabled /\ (c.hint => e.hint)
  /\ \A u \in Thread \ {t} : e.priority[u] = c.priority[u] /\ e.suspend[u] = c.suspend[u]
  /\ \A u \in Thread : c.state[u] = "SLEEPING" => e.queue[u] = c.queue[u]
  /\ IF e.suspend[t] = 0 THEN e.priority[t] = EffectivePriority(c, t)
     ELSE e.priority[t] = Suspended

LEMMA SleeperMoved ==
  ASSUME NEW c, Good(c), NEW t \in Thread, c.state[t] = "SLEEPING",
         NEW e, Replaced(c, e, t),
         NEW n, n = IF c.mutex[t] # None THEN UpdatePriority(e, c.owner[c.mutex[t]]) ELSE e
  PROVE  Good(n) /\ Kept(e, n) /\ Calm(c, n)
<1>1. Sound(c, {}) /\ Chained(c, {}) /\ Heirs(c) /\ Claimed(c) /\ Locks(c) /\ c \in Kernel
      /\ None \notin Thread
  BY ThreadAssumption DEF Good, Sound
<1>2. /\ Sound(e, {}) /\ e \in Kernel
      /\ e.state = c.state /\ e.base = c.base /\ e.mutex = c.mutex /\ e.held = c.held
      /\ e.owner = c.owner /\ e.lock = c.lock /\ e.current = c.current
      /\ (c.hint => e.hint)
      /\ \A u \in Thread \ {t} : e.priority[u] = c.priority[u] /\ e.suspend[u] = c.suspend[u]
      /\ \A u \in Thread : c.state[u] = "SLEEPING" => e.queue[u] = c.queue[u]
      /\ e.suspend[t] # 0 => e.priority[t] = Suspended
      /\ e.suspend[t] = 0 => e.priority[t] = EffectivePriority(c, t)
  BY DEF Replaced, Sound
<1>3. Chained(e, {})
  BY <1>1, <1>2 DEF Chained
<1>4. Claimed(e) /\ Locks(e)
  BY <1>1, <1>2 DEF Claimed, Locks
<1>5. ASSUME NEW u \in Thread, NEW v \in Thread
      PROVE  <<u, v>> \in Waiting(c) <=> NextOwner(c, u) = v
  <2>1. <<u, v>> \in Waiting(c) <=> u \notin {} /\ NextOwner(c, u) = v
    BY <1>1, WaitingIs
  <2> QED
    BY <2>1
<1>6. Waiting(e) = Waiting(c)
  <2>1. ASSUME NEW u \in Thread, NEW v \in Thread
        PROVE  <<u, v>> \in Waiting(e) <=> NextOwner(e, u) = v
    <3>1. <<u, v>> \in Waiting(e) <=> u \notin {} /\ NextOwner(e, u) = v
      BY <1>2, <1>3, WaitingIs
    <3> QED
      BY <3>1
  <2>2. \A u \in Thread : NextOwner(e, u) = NextOwner(c, u)
    BY <1>2 DEF NextOwner
  <2>3. Waiting(e) \subseteq Thread \X Thread /\ Waiting(c) \subseteq Thread \X Thread
    BY DEF Waiting
  <2>4. ASSUME NEW u \in Thread, NEW v \in Thread
        PROVE  <<u, v>> \in Waiting(e) <=> <<u, v>> \in Waiting(c)
    BY <1>5, <2>1, <2>2
  <2> QED
    BY <2>3, <2>4
<1>7. ASSUME NEW u \in Thread \ {t}, u # NextOwner(c, t)  PROVE Inherits(e, Waiting(c), u)
  <2>1. Inherits(c, Waiting(c), u)
    BY <1>1 DEF Heirs
  <2>2. <<t, u>> \notin Waiting(c)
    BY <1>5, <1>7
  <2> QED
    BY <1>2, <2>1, <2>2 DEF Inherits, IsBest
<1>8. Inherits(e, Waiting(c), t) /\ NextOwner(c, t) # t
  <2>1. NextOwner(c, t) # t
    BY <1>1 DEF NextOwner, Chained
  <2>2. <<t, t>> \notin Waiting(c)
    BY <1>5, <2>1
  <2>3. IsBest(c, Waiting(c), t, EffectivePriority(c, t))
    BY <1>1, EffectiveIsBest
  <2>4. e.suspend[t] = 0 => IsBest(e, Waiting(c), t, e.priority[t])
    BY <1>2, <2>2, <2>3 DEF IsBest
  <2> QED
    BY <2>1, <2>4 DEF Inherits
<1>9. Calm(c, e)
  <2>1. \A u \in Thread : Ready(e, u) => Ready(c, u) /\ u # t
    BY <1>2 DEF Ready
  <2> QED
    BY <1>2, <2>1 DEF Calm
<1>10. CASE c.mutex[t] = None
  <2>1. n = e
    BY <1>10
  <2>2. NextOwner(c, t) = None
    BY <1>10 DEF NextOwner
  <2>3. Heirs(e)
    BY <1>1, <1>6, <1>7, <1>8, <2>2 DEF Heirs
  <2>4. Good(e)
    BY <1>2, <1>3, <1>4, <2>3 DEF Good
  <2> QED
    BY <1>9, <2>1, <2>4, KeptNothing
<1>11. CASE c.mutex[t] # None
  <2> DEFINE o == NextOwner(c, t)
  <2>1. n = UpdatePriority(e, o)
    BY <1>11 DEF NextOwner
  <2>2. \A u \in Thread : NextOwner(e, u) \in Thread \cup {None}
    BY <1>2 DEF NextOwner, Kernel
  <2>3. o \in Thread \cup {None}
    BY <1>1 DEF NextOwner, Kernel
  <2>4. \A u \in Thread \ {} : u # o => Inherits(e, Waiting(e), u)
    BY <1>6, <1>7, <1>8
  <2>5. Thread \subseteq Thread \ {}
    OBVIOUS
  <2> HIDE DEF o
  <2>6. Arrived(e, n, Waiting(e), {})
    BY <1>2, <1>3, <2>1, <2>2, <2>3, <2>4, <2>5, UpdateArrives
  <2>7. Good(n)
    BY <1>2, <1>3, <1>4, <2>6, GoodArrived
  <2>8. Kept(e, n) /\ Calm(e, n)
    BY <2>6 DEF Arrived
  <2> QED
    BY <1>9, <2>7, <2>8, CalmTwice
<1> QED
  BY <1>10, <1>11

\* t is suspended v times, and for the others nothing gets worse.
Delays(c, n, t, v) ==
  /\ n.disabled = c.disabled /\ n.mutex = c.mutex
  /\ \A u \in Thread :
       /\ n.suspend[u] <= (IF u = t THEN v ELSE c.suspend[u])
       /\ n.state[u] \in Alive <=> c.state[u] \in Alive
       /\ c.state[u] \notin Alive => n.state[u] = c.state[u]
  /\ \A m \in Mutex : n.owner[m] \in {c.owner[m], None} /\ n.lock[m] <= c.lock[m]
  /\ NoneJoins(c, n)

\* t, on no queue, is counted and given a priority.
Regraded(c, t, v, p) == [c EXCEPT !.suspend[t] = v, !.priority[t] = p]

OnlyRegraded(c, n, t, v, p) ==
  /\ n.state = c.state /\ n.detached = c.detached /\ n.base = c.base
  /\ n.mutex = c.mutex /\ n.queue = c.queue /\ n.active = c.active /\ n.held = c.held
  /\ n.owner = c.owner /\ n.lock = c.lock /\ n.list = c.list /\ n.bits = c.bits
  /\ n.hint = c.hint /\ n.current = c.current /\ n.disabled = c.disabled
  /\ n.suspend[t] = v /\ \A u \in Thread \ {t} : n.suspend[u] = c.suspend[u]
  /\ n.priority[t] = p /\ \A u \in Thread \ {t} : n.priority[u] = c.priority[u]

LEMMA RegradedIs ==
  ASSUME NEW c, NEW off, Sound(c, off), NEW t \in Thread, t \in off, NEW v \in Nat,
         NEW p \in Priority \cup {Suspended}, NEW n, n = Regraded(c, t, v, p)
  PROVE  Sound(n, off) /\ OnlyRegraded(c, n, t, v, p)
<1>0. c \in Kernel
  BY DEF Sound
<1>1. n.suspend = [c.suspend EXCEPT ![t] = v] /\ n.priority = [c.priority EXCEPT ![t] = p]
  BY <1>0 DEF Regraded, Kernel
<1>2. /\ n.suspend \in [Thread -> Nat]
      /\ n.suspend[t] = v /\ \A u \in Thread \ {t} : n.suspend[u] = c.suspend[u]
  BY <1>0, <1>1 DEF Kernel
<1>3. /\ n.priority \in [Thread -> Priority \cup {Suspended}]
      /\ n.priority[t] = p /\ \A u \in Thread \ {t} : n.priority[u] = c.priority[u]
  BY <1>0, <1>1 DEF Kernel
<1>4. /\ n.state = c.state /\ n.detached = c.detached /\ n.base = c.base
      /\ n.mutex = c.mutex /\ n.queue = c.queue /\ n.active = c.active /\ n.held = c.held
      /\ n.owner = c.owner /\ n.lock = c.lock /\ n.list = c.list /\ n.bits = c.bits
      /\ n.hint = c.hint /\ n.current = c.current /\ n.disabled = c.disabled
  BY <1>0 DEF Regraded, Kernel
<1>5. n = [c EXCEPT !.suspend = n.suspend, !.priority = n.priority]
  BY <1>0 DEF Regraded, Kernel
<1> DEFINE s == n.suspend
           r == n.priority
<1> HIDE DEF s, r
<1>6. ASSUME s \in [Thread -> Nat], r \in [Thread -> Priority \cup {Suspended}]
      PROVE  [c EXCEPT !.suspend = s, !.priority = r] \in Kernel
  BY <1>0, <1>6 DEF Kernel
<1>7. n \in Kernel
  BY <1>2, <1>3, <1>5, <1>6 DEF s, r
<1>8. Elsewhere(c, n, t)
  BY <1>2, <1>3, <1>4 DEF Elsewhere
<1>9. Sound(n, off)
  BY <1>7, <1>8, OffChanges
<1> QED
  BY <1>2, <1>3, <1>4, <1>9 DEF OnlyRegraded

LEMMA WaitingAs ==
  ASSUME NEW c, NEW n, Sound(c, {}), Sound(n, {}), Chained(c, {}), Chained(n, {}),
         n.state = c.state, n.mutex = c.mutex, n.owner = c.owner
  PROVE  Waiting(n) = Waiting(c)
<1>1. \A u \in Thread : NextOwner(n, u) = NextOwner(c, u)
  BY DEF NextOwner
<1>2. ASSUME NEW u \in Thread, NEW v \in Thread
      PROVE  <<u, v>> \in Waiting(n) <=> <<u, v>> \in Waiting(c)
  <2>1. <<u, v>> \in Waiting(n) <=> u \notin {} /\ NextOwner(n, u) = v
    BY WaitingIs
  <2>2. <<u, v>> \in Waiting(c) <=> u \notin {} /\ NextOwner(c, u) = v
    BY WaitingIs
  <2> QED
    BY <1>1, <2>1, <2>2
<1>3. Waiting(n) \subseteq Thread \X Thread /\ Waiting(c) \subseteq Thread \X Thread
  BY DEF Waiting
<1> QED
  BY <1>2, <1>3

\* A call that counts t and then chooses the next thread.
LEMMA CountedEnds ==
  ASSUME NEW c, Good(c), Settled(c), NEW t \in Thread, NEW v,
         NEW e, Good(e), Calm(c, e), Delays(c, e, t, v), NEW n, n = Reschedule(e)
  PROVE  Good(n) /\ Delays(c, n, t, v) /\ Leads(c, n) /\ (Runs(c) => Settled(n))
<1>1. c \in Kernel /\ e \in Kernel
  BY DEF Good, Sound
<1>2. Fair(c)
  BY DEF Fair
<1>3. Fair(e)
  BY <1>1, <1>2, CalmFair
<1>4. Good(n) /\ Kept(e, n) /\ Leads(e, n) /\ (Runs(e) => Settled(n))
  BY <1>3, Ends
<1>5. n \in Kernel
  BY <1>4 DEF Good, Sound
<1>6. Outlives(e, n)
  BY <1>1, <1>4, KeptOutlives
<1>7. n.suspend = e.suspend
  BY <1>4 DEF Kept
<1>8. n.lock = e.lock /\ n.owner = e.owner
  BY <1>4 DEF Kept
<1>9. NoneJoins(c, n)
  BY <1>6 DEF Delays, Outlives, NoneJoins
<1>10. Delays(c, n, t, v)
  BY <1>6, <1>7, <1>8, <1>9 DEF Delays, Outlives, Spares
<1>11. e.disabled = c.disabled
  BY DEF Delays
<1>12. Leads(c, n) /\ (Runs(c) => Settled(n))
  BY <1>1, <1>4, <1>11, CalmLeads, RunsCalm
<1> QED
  BY <1>4, <1>10, <1>12

\* The running thread is suspended: it is ready, but may not run.
SuspendRunning(c, t) == [Recount(c, t, 1) EXCEPT !.hint = TRUE, !.state[t] = "READY"]

LEMMA SuspendRunningGood ==
  ASSUME NEW c, Good(c), Runs(c), NEW t \in Thread, c.state[t] = "RUNNING",
         NEW e, e = SuspendRunning(c, t),
         NEW n, n = Reschedule(e)
  PROVE  Good(n) /\ Settled(n) /\ Delays(c, n, t, 1)
<1>1. Sound(c, {}) /\ Chained(c, {}) /\ Heirs(c) /\ Claimed(c) /\ Locks(c) /\ c \in Kernel
  BY DEF Good, Sound
<1> DEFINE d == Recount(c, t, 1)
<1>2. d \in Kernel /\ OnlyRecounted(c, d, t, 1)
  BY <1>1, RecountIs
<1>3. e = [d EXCEPT !.hint = TRUE, !.state[t] = "READY"]
  BY DEF SuspendRunning
<1> HIDE DEF d
<1>4. e.state = [d.state EXCEPT ![t] = "READY"]
  BY <1>2, <1>3 DEF Kernel
<1>5. /\ e.state \in [Thread -> Alive \cup Dead \cup {"none"}]
      /\ e.state[t] = "READY" /\ \A u \in Thread \ {t} : e.state[u] = d.state[u]
  BY <1>2, <1>4 DEF Kernel, Alive
<1>6. /\ e.detached = d.detached /\ e.base = d.base /\ e.priority = d.priority
      /\ e.suspend = d.suspend /\ e.mutex = d.mutex /\ e.queue = d.queue
      /\ e.active = d.active /\ e.held = d.held /\ e.owner = d.owner /\ e.lock = d.lock
      /\ e.list = d.list /\ e.bits = d.bits /\ e.hint = TRUE /\ e.current = d.current
      /\ e.disabled = d.disabled
  BY <1>2, <1>3 DEF Kernel
<1>7. e \in Kernel
  <2>1. e = [d EXCEPT !.state = e.state, !.hint = TRUE]
    BY <1>2, <1>3 DEF Kernel
  <2> DEFINE s == e.state
  <2> HIDE DEF s
  <2>2. ASSUME s \in [Thread -> Alive \cup Dead \cup {"none"}]
        PROVE  [d EXCEPT !.state = s, !.hint = TRUE] \in Kernel
    BY <1>2, <2>2 DEF Kernel
  <2> QED
    BY <1>5, <2>1, <2>2 DEF s
<1>8. /\ \A u \in Thread \ {t} : e.state[u] = c.state[u] /\ e.suspend[u] = c.suspend[u]
      /\ e.suspend[t] = 1
      /\ e.base = c.base /\ e.priority = c.priority /\ e.mutex = c.mutex
      /\ e.queue = c.queue /\ e.held = c.held /\ e.owner = c.owner /\ e.lock = c.lock
      /\ e.list = c.list /\ e.bits = c.bits /\ e.current = c.current
      /\ e.disabled = c.disabled
  BY <1>2, <1>5, <1>6 DEF OnlyRecounted
<1>9. Sound(e, {})
  <2>1. Sound(c, {} \cup {t})
    BY <1>1, OnNone DEF Unplaced, Ready
  <2>2. Elsewhere(c, e, t)
    BY <1>8 DEF Elsewhere
  <2>3. Sound(e, {} \cup {t})
    BY <1>7, <2>1, <2>2, OffChanges
  <2>4. Unplaced(e, t) /\ ThreadFits(e, t)
    BY <1>5, <1>8 DEF Unplaced, ThreadFits, Ready
  <2>5. Sound(e, ({} \cup {t}) \ {t})
    BY <2>3, <2>4, OnNone
  <2>6. ({} \cup {t}) \ {t} = {}
    OBVIOUS
  <2> QED
    BY <2>5, <2>6
<1>10. Chained(e, {}) /\ Claimed(e) /\ Locks(e)
  BY <1>1, <1>5, <1>8 DEF Chained, Claimed, Locks
<1>11. Waiting(e) = Waiting(c)
  BY <1>8 DEF Waiting, Waits
<1>12. Heirs(e)
  <2>1. ASSUME NEW u \in Thread  PROVE Inherits(e, Waiting(e), u)
    <3>1. Inherits(c, Waiting(c), u)
      BY <1>1 DEF Heirs
    <3> QED
      BY <1>8, <1>11, <3>1 DEF Inherits, IsBest
  <2> QED
    BY <2>1 DEF Heirs
<1>13. Good(e) /\ Fair(e)
  BY <1>6, <1>9, <1>10, <1>12 DEF Good, Fair
<1>14. /\ Good(n) /\ Kept(e, n)
       /\ e.disabled = FALSE /\ e.current # None /\ e.hint => Settled(n)
  BY <1>13, Ends
<1>15. Settled(n)
  BY <1>6, <1>8, <1>14 DEF Runs
<1>16. \A u \in Thread : (e.state[u] \in Alive <=> c.state[u] \in Alive)
                           /\ (c.state[u] \notin Alive => e.state[u] = c.state[u])
  BY <1>5, <1>8 DEF Alive
<1>17. Delays(c, n, t, 1)
  <2>1. n.disabled = c.disabled /\ n.mutex = c.mutex /\ n.owner = c.owner /\ n.lock = c.lock
        /\ n.suspend = e.suspend
    BY <1>8, <1>14 DEF Kept
  <2>2. \A u \in Thread : (n.state[u] \in Alive <=> c.state[u] \in Alive)
                            /\ (c.state[u] \notin Alive => n.state[u] = c.state[u])
    BY <1>14, <1>16 DEF Kept, Lives
  <2>3. c.suspend \in [Thread -> Nat] /\ c.lock \in [Mutex -> Nat]
    BY <1>1 DEF Kernel
  <2>4. \A u \in Thread : n.suspend[u] <= (IF u = t THEN 1 ELSE c.suspend[u])
    BY <1>8, <2>1, <2>3
  <2>5. \A m \in Mutex : n.owner[m] \in {c.owner[m], None} /\ n.lock[m] <= c.lock[m]
    BY <2>1, <2>3
  <2>6. NoneJoins(c, n)
    <3>1. \A u \in Thread : n.state[u] = "SLEEPING" =>
            e.state[u] = "SLEEPING" /\ n.queue[u] = e.queue[u]
      BY <1>14 DEF Kept, Lives
    <3>2. \A u \in Thread : e.state[u] = "SLEEPING" =>
            c.state[u] = "SLEEPING" /\ e.queue[u] = c.queue[u]
      BY <1>5, <1>8
    <3> QED
      BY <3>1, <3>2 DEF NoneJoins
  <2> QED
    BY <2>1, <2>2, <2>4, <2>5, <2>6 DEF Delays
<1> QED
  BY <1>14, <1>15, <1>17

\* A ready thread is suspended: it leaves its run queue.
LEMMA SuspendReadyGood ==
  ASSUME NEW c, Good(c), NEW t \in Thread, c.state[t] = "READY", c.suspend[t] = 0,
         NEW e, e = Recount(UnsetRun(c, t), t, 1)
  PROVE  Good(e) /\ Calm(c, e) /\ Delays(c, e, t, 1)
<1>1. c \in Kernel
  BY DEF Good, Sound
<1> DEFINE f == UnsetRun(c, t)
<1>2. f = IF c.state[t] = "SLEEPING" THEN NoQueue(Unlink(c, t), t) ELSE Unqueue(c, t)
  BY DEF Unqueue
<1>3. e = Recount(f, t, 1)
  OBVIOUS
<1> HIDE DEF f
<1>4. c.state[t] \in Alive
  BY DEF Alive
<1>5. TakenOff(c, f, t)
  BY <1>2, <1>4, UnqueueTakes
<1>6. NextOwner(c, t) = None
  BY DEF NextOwner
<1>7. /\ Chained(f, {t}) /\ Claimed(f) /\ Locks(f) /\ Calm(c, f) /\ Outlives(c, f)
      /\ \A u \in Thread \ {t} : u # NextOwner(c, t) \/ c.suspend[t] # 0 =>
           Inherits(f, Waiting(f), u)
  BY <1>5, TakenGood
<1>8. Sound(f, {t}) /\ f \in Kernel /\ AllSame(c, f) /\ f.state = c.state
  BY <1>5 DEF TakenOff, Sound
<1>9. e \in Kernel /\ OnlyRecounted(f, e, t, 1)
  BY <1>3, <1>8, RecountIs
<1>10. /\ e.state = f.state /\ e.base = f.base /\ e.priority = f.priority
       /\ e.mutex = f.mutex /\ e.queue = f.queue /\ e.held = f.held /\ e.owner = f.owner
       /\ e.lock = f.lock /\ e.list = f.list /\ e.bits = f.bits /\ e.hint = f.hint
       /\ e.current = f.current /\ e.disabled = f.disabled
       /\ e.suspend[t] = 1 /\ \A u \in Thread \ {t} : e.suspend[u] = f.suspend[u]
  BY <1>9 DEF OnlyRecounted
<1>11. Sound(e, {})
  <2>1. Elsewhere(f, e, t)
    BY <1>10 DEF Elsewhere
  <2>2. Sound(e, {t})
    BY <1>8, <1>9, <2>1, OffChanges
  <2>3. Unplaced(e, t) /\ ThreadFits(e, t)
    BY <1>8, <1>10 DEF Unplaced, ThreadFits, Ready
  <2>4. Sound(e, {t} \ {t})
    BY <2>2, <2>3, OnNone
  <2>5. {t} \ {t} = {}
    OBVIOUS
  <2> QED
    BY <2>4, <2>5
<1>12. Chained(e, {})
  BY <1>7, <1>8, <1>10 DEF Chained
<1>13. Claimed(e) /\ Locks(e)
  BY <1>7, <1>10 DEF Claimed, Locks
<1>14. Waiting(e) = Waiting(f)
  BY <1>10 DEF Waiting, Waits
<1>15. Heirs(e)
  <2>1. ASSUME NEW u \in Thread  PROVE Inherits(e, Waiting(e), u)
    <3>1. CASE u = t
      BY <1>10, <3>1 DEF Inherits
    <3>2. CASE u # t
      <4>1. u # None
        BY ThreadAssumption
      <4>2. Inherits(f, Waiting(f), u)
        BY <1>6, <1>7, <3>2, <4>1
      <4>3. /\ e.state = f.state /\ e.base = f.base /\ e.priority = f.priority
            /\ e.suspend[u] = f.suspend[u] /\ Waiting(e) = Waiting(f)
        BY <1>10, <1>14, <3>2
      <4> QED
        BY <4>2, <4>3 DEF Inherits, IsBest
    <3> QED
      BY <3>1, <3>2
  <2> QED
    BY <2>1 DEF Heirs
<1>16. Calm(f, e)
  BY <1>10 DEF Calm, Ready
<1>17. Calm(c, e)
  BY <1>7, <1>16, CalmTwice
<1>18. Delays(c, e, t, 1)
  <2>1. c.suspend \in [Thread -> Nat] /\ c.lock \in [Mutex -> Nat]
    BY <1>1 DEF Kernel
  <2>2. f.suspend = c.suspend /\ f.mutex = c.mutex /\ f.owner = c.owner /\ f.lock = c.lock
        /\ f.disabled = c.disabled
    BY <1>8 DEF AllSame
  <2>3. \A u \in Thread : e.suspend[u] <= (IF u = t THEN 1 ELSE c.suspend[u])
    BY <1>10, <2>1, <2>2
  <2>4. \A m \in Mutex : e.owner[m] \in {c.owner[m], None} /\ e.lock[m] <= c.lock[m]
    BY <1>10, <2>1, <2>2
  <2>5. NoneJoins(c, e)
    <3>1. NoneJoins(c, f)
      BY <1>7 DEF Outlives
    <3> QED
      BY <1>10, <3>1 DEF NoneJoins
  <2> QED
    BY <1>8, <1>10, <2>2, <2>3, <2>4, <2>5 DEF Delays
<1> QED
  BY <1>11, <1>12, <1>13, <1>15, <1>17, <1>18 DEF Good

\* A sleeper takes another place on its queue, behind all others or where its
\* priority puts it.
LEMMA ReplacedIs ==
  ASSUME NEW c, Good(c), NEW t \in Thread, c.state[t] = "SLEEPING",
         NEW f, f = Unlink(c, t),
         NEW v \in Nat, NEW p, p = IF v = 0 THEN EffectivePriority(c, t) ELSE Suspended,
         NEW g, g = Regraded(f, t, v, p),
         NEW e, e = IF v = 0 THEN Link(g, t) ELSE LinkLast(g, t)
  PROVE  Replaced(c, e, t) /\ e.suspend[t] = v /\ e.queue = c.queue
<1>1. Sound(c, {}) /\ c \in Kernel
  BY DEF Good, Sound
<1>2. {} \cup {t} = {t} /\ {t} \ {t} = {} /\ t \notin {}
  OBVIOUS
<1>3. /\ Sound(f, {} \cup {t}) /\ Moved(c, f) /\ f.hint = c.hint
      /\ f.queue = c.queue /\ c.queue[t] \in SleepQueues
  BY <1>1, <1>2, UnlinkTakes
<1>4. Sound(f, {t})
  BY <1>2, <1>3
<1>5. p \in Priority \cup {Suspended}
  BY <1>1, EffectiveIsPriority
<1>6. Sound(g, {t}) /\ OnlyRegraded(f, g, t, v, p)
  BY <1>4, <1>5, RegradedIs
<1>7. /\ g.state = c.state /\ g.base = c.base /\ g.mutex = c.mutex /\ g.queue = c.queue
      /\ g.held = c.held /\ g.owner = c.owner /\ g.lock = c.lock /\ g.hint = c.hint
      /\ g.current = c.current /\ g.disabled = c.disabled
      /\ g.suspend[t] = v /\ \A u \in Thread \ {t} : g.suspend[u] = c.suspend[u]
      /\ g.priority[t] = p /\ \A u \in Thread \ {t} : g.priority[u] = c.priority[u]
  BY <1>3, <1>6 DEF OnlyRegraded, Moved
<1>8. Sound(e, {t} \ {t}) /\ Moved(g, e) /\ e.hint = g.hint /\ e.queue = g.queue
  <2>1. CASE v = 0
    <3>1. e = Link(g, t) /\ (g.suspend[t] = 0 => g.priority[t] \in Priority)
      BY <1>1, <1>7, <2>1, EffectiveIsPriority
    <3> QED
      BY <1>3, <1>6, <1>7, <3>1, LinkPuts
  <2>2. CASE v # 0
    <3>1. e = LinkLast(g, t) /\ g.suspend[t] # 0 /\ g.priority[t] = Suspended
      BY <1>7, <2>2
    <3> QED
      BY <1>3, <1>6, <1>7, <3>1, LastPuts
  <2> QED
    BY <2>1, <2>2
<1>9. Sound(e, {})
  BY <1>2, <1>8
<1>10. /\ e.state = c.state /\ e.base = c.base /\ e.mutex = c.mutex
       /\ e.held = c.held /\ e.owner = c.owner /\ e.lock = c.lock /\ e.hint = c.hint
       /\ e.current = c.current /\ e.disabled = c.disabled
       /\ e.suspend = g.suspend /\ e.priority = g.priority /\ e.queue = c.queue
  BY <1>7, <1>8 DEF Moved
<1> QED
  BY <1>7, <1>9, <1>10 DEF Replaced

CountUp(c, t) == Recount(c, t, c.suspend[t] + 1)
\* A sleeper that is suspended goes to the end of its queue.
BehindAll(c, d, t) ==
  [Unlink(d, t) EXCEPT !.priority[t] = Suspended, !.list[c.queue[t]] = Append(@, t)]
SentBack(c, t) == BehindAll(c, CountUp(c, t), t)
Graded(d, t, p) == [Unlink(d, t) EXCEPT !.priority[t] = p]
Follows(c, e, t) ==
  IF c.mutex[t] # None THEN UpdatePriority(e, c.owner[c.mutex[t]]) ELSE e

\* The definition of Suspend, case by case.
LEMMA SuspendIs ==
  ASSUME NEW c, NEW t
  PROVE  /\ c.suspend[t] # 0 => Suspend(c, t) = CountUp(c, t)
         /\ c.suspend[t] = 0 /\ c.state[t] = "RUNNING" =>
              Suspend(c, t) = Reschedule([CountUp(c, t) EXCEPT !.hint = TRUE, !.state[t] = "READY"])
         /\ c.suspend[t] = 0 /\ c.state[t] = "READY" =>
              Suspend(c, t) = Reschedule(UnsetRun(CountUp(c, t), t))
         /\ c.suspend[t] = 0 /\ c.state[t] = "SLEEPING" =>
              Suspend(c, t) = Reschedule(Follows(c, SentBack(c, t), t))
         /\ c.suspend[t] = 0 /\ c.state[t] \notin {"RUNNING", "READY", "SLEEPING"} =>
              Suspend(c, t) = Reschedule(CountUp(c, t))
<1>1. c.suspend[t] # 0 => Suspend(c, t) = CountUp(c, t)
  BY Zenon DEF Suspend, CountUp, Recount
<1>2. c.suspend[t] = 0 /\ c.state[t] = "RUNNING" =>
        Suspend(c, t) = Reschedule([CountUp(c, t) EXCEPT !.hint = TRUE, !.state[t] = "READY"])
  BY Zenon DEF Suspend, CountUp, Recount
<1>3. c.suspend[t] = 0 /\ c.state[t] = "READY" =>
        Suspend(c, t) = Reschedule(UnsetRun(CountUp(c, t), t))
  BY Zenon DEF Suspend, CountUp, Recount
<1>4. c.suspend[t] = 0 /\ c.state[t] = "SLEEPING" =>
        Suspend(c, t) = Reschedule(Follows(c, SentBack(c, t), t))
  BY Zenon DEF Suspend, CountUp, Recount, SentBack, BehindAll, Follows
<1>5. c.suspend[t] = 0 /\ c.state[t] \notin {"RUNNING", "READY", "SLEEPING"} =>
        Suspend(c, t) = Reschedule(CountUp(c, t))
  BY Zenon DEF Suspend, CountUp, Recount
<1> QED
  BY <1>1, <1>2, <1>3, <1>4, <1>5

LEMMA SuspendsOnce ==
  ASSUME NEW c \in Kernel, NEW t \in Thread
  PROVE  /\ CountUp(c, t) = Recount(c, t, c.suspend[t] + 1)
         /\ c.suspend[t] \in Nat /\ c.suspend[t] + 1 \in Nat /\ c.suspend[t] + 1 # 0
         /\ c.suspend[t] = 0 => CountUp(c, t) = Recount(c, t, 1) /\ c.suspend[t] + 1 = 1
<1>1. c.suspend[t] \in Nat
  BY DEF Kernel
<1>2. CountUp(c, t) = Recount(c, t, c.suspend[t] + 1)
  BY DEF CountUp
<1> QED
  BY <1>1, <1>2

LEMMA SleepsOnQueue ==
  ASSUME NEW c, Good(c), NEW t \in Thread, c.state[t] = "SLEEPING"
  PROVE  c.queue[t] \in SleepQueues /\ c.queue[t] \in Queue
BY QueueNames DEF Good, Sound, Fit, ThreadFits

LEMMA ReadyOnRunQueue ==
  ASSUME NEW c, Good(c), NEW t \in Thread, Ready(c, t)
  PROVE  c.queue[t] \in Queue
<1>1. c.priority[t] \in Priority
  BY DEF Good, Sound, Fit, ThreadFits, Ready, Alive
<1>2. c.queue[t] = RunQ(c.priority[t])
  BY DEF Good, Sound, Fit, ThreadFits
<1> QED
  BY <1>1, <1>2, QueueNames

\* A count and a place in the queues do not get in each other's way.
LEMMA UnsetRunCounted ==
  ASSUME NEW c \in Kernel, NEW t \in Thread, NEW v \in Nat, c.queue[t] \in Queue,
         NEW d, d = Recount(c, t, v)
  PROVE  UnsetRun(d, t) = Recount(UnsetRun(c, t), t, v)
BY DEF UnsetRun, Recount, Kernel

LEMMA GradedCounted ==
  ASSUME NEW c \in Kernel, NEW t \in Thread, NEW v \in Nat, NEW p, c.queue[t] \in Queue,
         NEW d, d = Recount(c, t, v)
  PROVE  Graded(d, t, p) = Regraded(Unlink(c, t), t, v, p)
BY DEF Graded, Unlink, Recount, Regraded, Kernel

LEMMA BehindCounted ==
  ASSUME NEW c \in Kernel, NEW t \in Thread, NEW v \in Nat, c.queue[t] \in Queue,
         NEW d, d = Recount(c, t, v)
  PROVE  BehindAll(c, d, t) = LinkLast(Regraded(Unlink(c, t), t, v, Suspended), t)
BY ZenonT(30) DEF BehindAll, Unlink, Recount, Regraded, LinkLast, Kernel

\* A count of one who is dead, or suspended before and after.
LEMMA RecountEnds ==
  ASSUME NEW c, Good(c), Settled(c), NEW t \in Thread, NEW v \in Nat,
         c.state[t] \in Alive => c.suspend[t] # 0 /\ v # 0,
         NEW e, e = Recount(c, t, v)
  PROVE  Good(e) /\ Calm(c, e) /\ Delays(c, e, t, v) /\ Settled(e)
<1>1. c \in Kernel
  BY DEF Good, Sound
<1>2. Good(e) /\ OnlyRecounted(c, e, t, v) /\ Calm(c, e)
  BY RecountGood
<1>3. /\ e.state = c.state /\ e.priority = c.priority /\ e.mutex = c.mutex
      /\ e.owner = c.owner /\ e.lock = c.lock /\ e.disabled = c.disabled
      /\ e.current = c.current /\ e.bits = c.bits
      /\ e.suspend[t] = v /\ \A u \in Thread \ {t} : e.suspend[u] = c.suspend[u]
  BY <1>2 DEF OnlyRecounted
<1>4. c.suspend \in [Thread -> Nat] /\ c.lock \in [Mutex -> Nat]
  BY <1>1 DEF Kernel
<1>5. \A u \in Thread : e.suspend[u] <= (IF u = t THEN v ELSE c.suspend[u])
  BY <1>3, <1>4
<1>6. \A m \in Mutex : e.owner[m] \in {c.owner[m], None} /\ e.lock[m] <= c.lock[m]
  BY <1>3, <1>4
<1>7. Delays(c, e, t, v)
  <2>1. NoneJoins(c, e)
    BY <1>2 DEF OnlyRecounted, NoneJoins
  <2> QED
    BY <1>3, <1>5, <1>6, <2>1 DEF Delays
<1>8. \A u \in Thread : Ready(e, u) => Ready(c, u)
  BY <1>3 DEF Ready, Alive
<1>9. Settled(e)
  BY <1>3, <1>8 DEF Settled
<1> QED
  BY <1>2, <1>7, <1>9

\* A sleeper in its new place: the owner it waits for follows.
LEMMA SleeperEnds ==
  ASSUME NEW c, Good(c), NEW t \in Thread, c.state[t] = "SLEEPING",
         NEW v \in Nat,
         NEW e, Replaced(c, e, t), e.suspend[t] = v,
         NEW n, n = IF c.mutex[t] # None THEN UpdatePriority(e, c.owner[c.mutex[t]]) ELSE e
  PROVE  Good(n) /\ Calm(c, n) /\ Delays(c, n, t, v)
<1>1. c \in Kernel
  BY DEF Good, Sound
<1>2. Good(n) /\ Kept(e, n) /\ Calm(c, n)
  BY SleeperMoved
<1>3. /\ e.state = c.state /\ e.mutex = c.mutex /\ e.owner = c.owner /\ e.lock = c.lock
      /\ e.disabled = c.disabled /\ \A u \in Thread \ {t} : e.suspend[u] = c.suspend[u]
      /\ \A u \in Thread : c.state[u] = "SLEEPING" => e.queue[u] = c.queue[u]
  BY DEF Replaced
<1>4. c.suspend \in [Thread -> Nat] /\ c.lock \in [Mutex -> Nat]
  BY <1>1 DEF Kernel
<1>5. /\ n.mutex = c.mutex /\ n.owner = c.owner /\ n.lock = c.lock
      /\ n.disabled = c.disabled /\ n.suspend = e.suspend
  BY <1>2, <1>3 DEF Kept
<1>6. ASSUME NEW u \in Thread  PROVE n.suspend[u] <= (IF u = t THEN v ELSE c.suspend[u])
  <2>1. n.suspend[u] = e.suspend[u] /\ c.suspend[u] \in Nat
    BY <1>4, <1>5
  <2>2. u # t => e.suspend[u] = c.suspend[u]
    BY <1>3
  <2> QED
    BY <2>1, <2>2
<1>7. ASSUME NEW m \in Mutex
      PROVE  n.owner[m] \in {c.owner[m], None} /\ n.lock[m] <= c.lock[m]
  <2>1. n.owner[m] = c.owner[m] /\ n.lock[m] = c.lock[m] /\ c.lock[m] \in Nat
    BY <1>4, <1>5
  <2> QED
    BY <2>1
<1>8. ASSUME NEW u \in Thread
      PROVE  (n.state[u] \in Alive <=> c.state[u] \in Alive)
               /\ (c.state[u] \notin Alive => n.state[u] = c.state[u])
  <2>1. Lives(e, n, u)
    BY <1>2 DEF Kept
  <2>2. e.state[u] = c.state[u]
    BY <1>3
  <2> QED
    BY <2>1, <2>2 DEF Lives
<1>9. NoneJoins(c, n)
  <2>1. \A u \in Thread : n.state[u] = "SLEEPING" =>
          e.state[u] = "SLEEPING" /\ n.queue[u] = e.queue[u]
    BY <1>2 DEF Kept, Lives
  <2>2. \A u \in Thread : e.state[u] = "SLEEPING" =>
          c.state[u] = "SLEEPING" /\ e.queue[u] = c.queue[u]
    BY <1>3
  <2>3. ASSUME NEW u \in Thread, n.state[u] = "SLEEPING"
        PROVE  c.state[u] = "SLEEPING" /\ n.queue[u] = c.queue[u]
    <3>1. e.state[u] = "SLEEPING" /\ n.queue[u] = e.queue[u]
      BY <2>1, <2>3
    <3> QED
      BY <2>2, <3>1
  <2> QED
    BY <2>3, Zenon DEF NoneJoins
<1>10. Delays(c, n, t, v)
  BY <1>5, <1>6, <1>7, <1>8, <1>9, Zenon DEF Delays
<1> QED
  BY <1>2, <1>10

LEMMA SuspendGood ==
  ASSUME NEW c, Good(c), Settled(c), Runs(c), NEW t \in Thread, NEW n, n = Suspend(c, t)
  PROVE  Good(n) /\ Settled(n) /\ Delays(c, n, t, c.suspend[t] + 1)
<1>1. c \in Kernel
  BY DEF Good, Sound
<1>2. CASE c.suspend[t] # 0
  <2>1. n = CountUp(c, t)
    BY <1>2, SuspendIs
  <2>2. n = Recount(c, t, c.suspend[t] + 1)
    BY <1>1, <2>1, SuspendsOnce
  <2> QED
    BY <1>1, <1>2, <2>2, SuspendsOnce, RecountEnds
<1>3. CASE c.suspend[t] = 0 /\ c.state[t] \notin {"RUNNING", "READY", "SLEEPING"}
  <2> DEFINE e == Recount(c, t, c.suspend[t] + 1)
  <2>1. n = Reschedule(CountUp(c, t))
    BY <1>3, SuspendIs
  <2>2. n = Reschedule(e)
    BY <1>1, <2>1, SuspendsOnce
  <2>3. c.state[t] \notin Alive
    BY <1>3 DEF Alive
  <2>4. Good(e) /\ Calm(c, e) /\ Delays(c, e, t, c.suspend[t] + 1)
    BY <1>1, <2>3, SuspendsOnce, RecountEnds
  <2> HIDE DEF e
  <2> QED
    BY <2>2, <2>4, CountedEnds
<1>4. CASE c.suspend[t] = 0 /\ c.state[t] = "RUNNING"
  <2>1. n = Reschedule([CountUp(c, t) EXCEPT !.hint = TRUE, !.state[t] = "READY"])
    BY <1>4, SuspendIs
  <2>2. CountUp(c, t) = Recount(c, t, 1)
    BY <1>1, <1>4, SuspendsOnce
  <2>3. n = Reschedule(SuspendRunning(c, t))
    BY <2>1, <2>2 DEF SuspendRunning
  <2> QED
    BY <1>4, <2>3, SuspendRunningGood
<1>5. CASE c.suspend[t] = 0 /\ c.state[t] = "READY"
  <2> DEFINE e == Recount(UnsetRun(c, t), t, 1)
  <2>1. n = Reschedule(UnsetRun(CountUp(c, t), t))
    BY <1>5, SuspendIs
  <2>2. CountUp(c, t) = Recount(c, t, 1)
    BY <1>1, <1>5, SuspendsOnce
  <2>3. Ready(c, t)
    BY <1>5 DEF Ready
  <2>4. c.queue[t] \in Queue
    BY <2>3, ReadyOnRunQueue
  <2>5. n = Reschedule(e)
    BY <1>1, <2>1, <2>2, <2>4, UnsetRunCounted
  <2>6. Good(e) /\ Calm(c, e) /\ Delays(c, e, t, c.suspend[t] + 1)
    BY <1>5, SuspendReadyGood
  <2> HIDE DEF e
  <2> QED
    BY <2>5, <2>6, CountedEnds
<1>6. CASE c.suspend[t] = 0 /\ c.state[t] = "SLEEPING"
  <2> DEFINE last == SentBack(c, t)
             e == Follows(c, last, t)
  <2>1. n = Reschedule(e)
    BY <1>6, SuspendIs
  <2>2. CountUp(c, t) = Recount(c, t, 1)
    BY <1>1, <1>6, SuspendsOnce
  <2>3. c.queue[t] \in Queue
    BY <1>6, SleepsOnQueue
  <2>4. last = LinkLast(Regraded(Unlink(c, t), t, 1, Suspended), t)
    BY <1>1, <2>2, <2>3, BehindCounted DEF SentBack
  <2>5. Replaced(c, last, t) /\ last.suspend[t] = 1
    BY <1>6, <2>4, ReplacedIs
  <2> HIDE DEF last
  <2>6. Good(e) /\ Calm(c, e) /\ Delays(c, e, t, c.suspend[t] + 1)
    BY <1>1, <1>6, <2>5, SuspendsOnce, SleeperEnds DEF Follows
  <2> HIDE DEF e
  <2> QED
    BY <2>1, <2>6, CountedEnds
<1> QED
  BY <1>2, <1>3, <1>4, <1>5, <1>6

CountDown(c, t) == Recount(c, t, c.suspend[t] - 1)
Effective(d, t) == Graded(d, t, EffectivePriority(d, t))
ReadyAgain(d, t) == SetRun([d EXCEPT !.priority[t] = EffectivePriority(d, t)], t)

\* The definition of Resume, case by case.
LEMMA ResumeIs ==
  ASSUME NEW c, NEW t, NEW d, d = CountDown(c, t)
  PROVE  /\ c.suspend[t] = 0 => Resume(c, t) = c
         /\ c.suspend[t] # 0 /\ d.suspend[t] > 0 => Resume(c, t) = d
         /\ c.suspend[t] # 0 /\ ~(d.suspend[t] > 0) /\ c.state[t] = "READY" =>
              Resume(c, t) = Reschedule(ReadyAgain(d, t))
         /\ c.suspend[t] # 0 /\ ~(d.suspend[t] > 0) /\ c.state[t] = "SLEEPING" =>
              Resume(c, t) = Reschedule(Follows(c, Link(Effective(d, t), t), t))
         /\ c.suspend[t] # 0 /\ ~(d.suspend[t] > 0) /\ c.state[t] \notin {"READY", "SLEEPING"} =>
              Resume(c, t) = Reschedule(d)
<1>1. c.suspend[t] = 0 => Resume(c, t) = c
  BY Zenon DEF Resume
<1>2. c.suspend[t] # 0 /\ d.suspend[t] > 0 => Resume(c, t) = d
  BY Zenon DEF Resume, CountDown, Recount
<1>3. c.suspend[t] # 0 /\ ~(d.suspend[t] > 0) /\ c.state[t] = "READY" =>
        Resume(c, t) = Reschedule(ReadyAgain(d, t))
  BY Zenon DEF Resume, CountDown, Recount, ReadyAgain
<1>4. c.suspend[t] # 0 /\ ~(d.suspend[t] > 0) /\ c.state[t] = "SLEEPING" =>
        Resume(c, t) = Reschedule(Follows(c, Link(Effective(d, t), t), t))
  BY Zenon DEF Resume, CountDown, Recount, Follows, Effective, Graded
<1>5. c.suspend[t] # 0 /\ ~(d.suspend[t] > 0) /\ c.state[t] \notin {"READY", "SLEEPING"} =>
        Resume(c, t) = Reschedule(d)
  BY Zenon DEF Resume, CountDown, Recount
<1> QED
  BY <1>1, <1>2, <1>3, <1>4, <1>5

\* The priority due to a thread does not depend on its count.
LEMMA ResumesLast ==
  ASSUME NEW c \in Kernel, NEW t \in Thread, NEW d, d = CountDown(c, t), c.suspend[t] # 0
  PROVE  /\ c.suspend[t] - 1 \in Nat /\ c.suspend[t] - 1 <= c.suspend[t] /\ 0 <= c.suspend[t]
         /\ d = Recount(c, t, c.suspend[t] - 1) /\ d.suspend[t] = c.suspend[t] - 1
         /\ EffectivePriority(d, t) = EffectivePriority(c, t)
         /\ ~(d.suspend[t] > 0) => c.suspend[t] - 1 = 0 /\ d = Recount(c, t, 0)
<1>1. c.suspend[t] \in Nat
  BY DEF Kernel
<1>2. d = Recount(c, t, c.suspend[t] - 1)
  BY DEF CountDown
<1>3. c.suspend[t] - 1 \in Nat /\ c.suspend[t] - 1 <= c.suspend[t] /\ 0 <= c.suspend[t]
  BY <1>1
<1>4. OnlyRecounted(c, d, t, c.suspend[t] - 1)
  BY <1>2, <1>3, RecountIs
<1>5. /\ d.base = c.base /\ d.held = c.held /\ d.list = c.list /\ d.priority = c.priority
      /\ d.suspend[t] = c.suspend[t] - 1
  BY <1>4 DEF OnlyRecounted
<1>6. EffectivePriority(d, t) = EffectivePriority(c, t)
  <2> DEFINE Prices(b, l, h, r) ==
        Min({b} \cup {r[Head(l[MutexQ(m)])] : m \in {n \in ToSet(h) : l[MutexQ(n)] # <<>>}})
  <2>1. /\ EffectivePriority(d, t) = Prices(d.base[t], d.list, d.held[t], d.priority)
        /\ EffectivePriority(c, t) = Prices(c.base[t], c.list, c.held[t], c.priority)
    BY Zenon DEF EffectivePriority
  <2> HIDE DEF Prices
  <2>2. d.base = c.base /\ d.held = c.held /\ d.list = c.list /\ d.priority = c.priority
    BY <1>5
  <2> QED
    BY <2>1, <2>2, Zenon
<1>7. ~(d.suspend[t] > 0) => c.suspend[t] - 1 = 0
  <2>1. \A x \in Nat : ~(x > 0) => x = 0
    OBVIOUS
  <2>2. d.suspend[t] = c.suspend[t] - 1 /\ c.suspend[t] - 1 \in Nat
    BY <1>3, <1>5
  <2> QED
    BY <2>1, <2>2
<1>8. ~(d.suspend[t] > 0) => d = Recount(c, t, 0)
  BY <1>2, <1>7
<1> QED
  BY <1>2, <1>3, <1>5, <1>6, <1>7, <1>8

\* A ready thread is runnable again, at the priority that is due to it.
LEMMA ResumeReadyGood ==
  ASSUME NEW c, Good(c), NEW t \in Thread, c.state[t] = "READY", c.suspend[t] # 0,
         NEW g, g = Regraded(c, t, 0, EffectivePriority(c, t)),
         NEW e, e = SetRun(g, t)
  PROVE  Good(e) /\ Calm(c, e) /\ Delays(c, e, t, 0)
<1>1. /\ Sound(c, {}) /\ c \in Kernel /\ Chained(c, {}) /\ Heirs(c) /\ Claimed(c) /\ Locks(c)
      /\ None \notin Thread
  BY ThreadAssumption DEF Good, Sound
<1> DEFINE p == EffectivePriority(c, t)
<1>2. p \in Priority /\ IsBest(c, Waiting(c), t, p)
  BY <1>1, EffectiveIsPriority, EffectiveIsBest
<1> HIDE DEF p
<1>3. {} \cup {t} = {t} /\ {t} \ {t} = {}
  OBVIOUS
<1>4. Sound(c, {} \cup {t})
  BY <1>1, OnNone DEF Unplaced, Ready
<1>5. Sound(c, {t})
  BY <1>3, <1>4
<1>6. Sound(g, {t}) /\ OnlyRegraded(c, g, t, 0, p)
  BY <1>2, <1>5, RegradedIs DEF p
<1>7. /\ g.state = c.state /\ g.base = c.base /\ g.mutex = c.mutex /\ g.queue = c.queue
      /\ g.held = c.held /\ g.owner = c.owner /\ g.lock = c.lock /\ g.hint = c.hint
      /\ g.current = c.current /\ g.disabled = c.disabled /\ g.list = c.list
      /\ g.suspend[t] = 0 /\ \A u \in Thread \ {t} : g.suspend[u] = c.suspend[u]
      /\ g.priority[t] = p /\ \A u \in Thread \ {t} : g.priority[u] = c.priority[u]
  BY <1>6 DEF OnlyRegraded
<1>8. Sound(e, {t} \ {t}) /\ Moved(g, e) /\ e.hint = TRUE
  BY <1>2, <1>6, <1>7, SetRunPuts DEF Ready
<1>9. Sound(e, {})
  BY <1>3, <1>8
<1>10. /\ e.state = c.state /\ e.base = c.base /\ e.mutex = c.mutex
       /\ e.held = c.held /\ e.owner = c.owner /\ e.lock = c.lock
       /\ e.current = c.current /\ e.disabled = c.disabled
       /\ e.suspend[t] = 0 /\ \A u \in Thread \ {t} : e.suspend[u] = c.suspend[u]
       /\ e.priority[t] = p /\ \A u \in Thread \ {t} : e.priority[u] = c.priority[u]
       /\ \A u \in Thread : c.state[u] = "SLEEPING" => e.queue[u] = c.queue[u]
  BY <1>7, <1>8 DEF Moved
<1>11. Chained(e, {})
  BY <1>1, <1>10 DEF Chained
<1>12. Claimed(e) /\ Locks(e)
  BY <1>1, <1>10 DEF Claimed, Locks
<1>13. Waiting(e) = Waiting(c)
  BY <1>1, <1>9, <1>10, <1>11, WaitingAs
<1>14. ASSUME NEW u \in Thread  PROVE <<t, u>> \notin Waiting(c)
  <2>1. <<t, u>> \in Waiting(c) <=> t \notin {} /\ NextOwner(c, t) = u
    BY <1>1, WaitingIs
  <2>2. NextOwner(c, t) = None
    BY DEF NextOwner
  <2> QED
    BY <1>1, <2>1, <2>2
<1>15. ASSUME NEW u \in Thread  PROVE Inherits(e, Waiting(e), u)
  <2>1. e.state = c.state /\ e.base = c.base
    BY <1>10
  <2>2. \A x \in Thread : <<x, u>> \in Waiting(c) => x # t
    BY <1>14
  <2>3. \A x \in Thread : <<x, u>> \in Waiting(c) => e.priority[x] = c.priority[x]
    BY <1>10, <2>2
  <2>4. \A r : IsBest(c, Waiting(c), u, r) => IsBest(e, Waiting(e), u, r)
    BY <1>13, <2>1, <2>3 DEF IsBest
  <2>5. CASE u = t
    BY <1>2, <1>10, <2>4, <2>5 DEF Inherits
  <2>6. CASE u # t
    <3>1. Inherits(c, Waiting(c), u) /\ e.suspend[u] = c.suspend[u]
          /\ e.priority[u] = c.priority[u]
      BY <1>1, <1>10, <2>6 DEF Heirs
    <3> QED
      BY <2>1, <2>4, <3>1 DEF Inherits
  <2> QED
    BY <2>5, <2>6
<1>16. Heirs(e)
  BY <1>15 DEF Heirs
<1>17. Good(e)
  BY <1>9, <1>11, <1>12, <1>16 DEF Good
<1>18. Calm(c, e)
  BY <1>8, <1>10 DEF Calm
<1>19. c.suspend \in [Thread -> Nat] /\ c.lock \in [Mutex -> Nat]
  BY <1>1 DEF Kernel
<1>20. \A u \in Thread : e.suspend[u] <= (IF u = t THEN 0 ELSE c.suspend[u])
  BY <1>10, <1>19
<1>21. \A m \in Mutex : e.owner[m] \in {c.owner[m], None} /\ e.lock[m] <= c.lock[m]
  BY <1>10, <1>19
<1>22. NoneJoins(c, e)
  BY <1>10 DEF NoneJoins
<1>23. Delays(c, e, t, 0)
  BY <1>10, <1>20, <1>21, <1>22 DEF Delays
<1> QED
  BY <1>17, <1>18, <1>23

LEMMA DelaysOutlives ==
  ASSUME NEW c \in Kernel, NEW n \in Kernel, NEW t \in Thread, NEW v \in Nat,
         Delays(c, n, t, v), v <= c.suspend[t]
  PROVE  Outlives(c, n)
<1>1. c.suspend \in [Thread -> Nat] /\ n.suspend \in [Thread -> Nat]
  BY DEF Kernel
<1>2. ASSUME NEW u \in Thread  PROVE n.suspend[u] <= c.suspend[u]
  <2>1. n.suspend[u] <= (IF u = t THEN v ELSE c.suspend[u])
    BY DEF Delays
  <2>2. c.suspend[u] \in Nat /\ n.suspend[u] \in Nat
    BY <1>1
  <2> QED
    BY <2>1, <2>2
<1> QED
  BY <1>2, Zenon DEF Delays, Outlives, Spares

LEMMA PriceCounted ==
  ASSUME NEW c \in Kernel, NEW t \in Thread, NEW d, d = Recount(c, t, 0), NEW p
  PROVE  [d EXCEPT !.priority[t] = p] = Regraded(c, t, 0, p)
BY DEF Recount, Regraded, Kernel

LEMMA ResumeGood ==
  ASSUME NEW c, Good(c), Settled(c), NEW t \in Thread, NEW n, n = Resume(c, t)
  PROVE  Good(n) /\ Outlives(c, n) /\ Leads(c, n) /\ (Runs(c) => Settled(n))
<1>1. c \in Kernel /\ Sound(c, {})
  BY DEF Good, Sound
<1> DEFINE d == CountDown(c, t)
           p == EffectivePriority(c, t)
<1>2. CASE c.suspend[t] = 0
  <2>1. n = c
    BY <1>2, ResumeIs
  <2>2. Kept(c, c)
    BY KeptNothing
  <2>3. Outlives(c, c)
    BY <1>1, <2>2, KeptOutlives
  <2> QED
    BY <2>1, <2>3 DEF Leads
<1>3. CASE c.suspend[t] # 0
  <2>1. /\ c.suspend[t] - 1 \in Nat /\ c.suspend[t] - 1 <= c.suspend[t] /\ 0 <= c.suspend[t]
        /\ d = Recount(c, t, c.suspend[t] - 1) /\ d.suspend[t] = c.suspend[t] - 1
        /\ EffectivePriority(d, t) = p
        /\ ~(d.suspend[t] > 0) => c.suspend[t] - 1 = 0 /\ d = Recount(c, t, 0)
    BY <1>1, <1>3, ResumesLast
  <2>2. p \in Priority
    BY <1>1, EffectiveIsPriority
  <2>3. /\ d.suspend[t] > 0 => n = d
        /\ ~(d.suspend[t] > 0) /\ c.state[t] = "READY" => n = Reschedule(ReadyAgain(d, t))
        /\ ~(d.suspend[t] > 0) /\ c.state[t] = "SLEEPING" =>
             n = Reschedule(Follows(c, Link(Effective(d, t), t), t))
        /\ ~(d.suspend[t] > 0) /\ c.state[t] \notin {"READY", "SLEEPING"} => n = Reschedule(d)
    BY <1>3, ResumeIs
  <2> HIDE DEF d, p
  <2>4. CASE d.suspend[t] > 0
    <3>1. n = Recount(c, t, c.suspend[t] - 1) /\ c.suspend[t] - 1 # 0
      BY <2>1, <2>3, <2>4
    <3>2. Good(n) /\ Delays(c, n, t, c.suspend[t] - 1) /\ Settled(n)
      BY <1>3, <2>1, <3>1, RecountEnds
    <3>3. n \in Kernel
      BY <3>2 DEF Good, Sound
    <3> QED
      BY <1>1, <2>1, <3>2, <3>3, DelaysOutlives DEF Leads
  <2>5. ASSUME NEW e, Good(e), Calm(c, e), Delays(c, e, t, 0), n = Reschedule(e)
        PROVE  Good(n) /\ Outlives(c, n) /\ Leads(c, n) /\ (Runs(c) => Settled(n))
    <3>1. Good(n) /\ Delays(c, n, t, 0) /\ Leads(c, n) /\ (Runs(c) => Settled(n))
      BY <2>5, CountedEnds
    <3>2. n \in Kernel
      BY <3>1 DEF Good, Sound
    <3> QED
      BY <1>1, <2>1, <3>1, <3>2, DelaysOutlives
  <2>6. CASE ~(d.suspend[t] > 0) /\ c.state[t] = "READY"
    <3>1. n = Reschedule(ReadyAgain(d, t))
      BY <2>3, <2>6
    <3> DEFINE e == SetRun(Regraded(c, t, 0, p), t)
    <3>2. ReadyAgain(d, t) = e
      BY <1>1, <2>1, <2>6, PriceCounted DEF ReadyAgain
    <3>3. Good(e) /\ Calm(c, e) /\ Delays(c, e, t, 0)
      BY <1>3, <2>6, ResumeReadyGood DEF p
    <3> HIDE DEF e
    <3> QED
      BY <2>5, <3>1, <3>2, <3>3
  <2>7. CASE ~(d.suspend[t] > 0) /\ c.state[t] = "SLEEPING"
    <3>1. n = Reschedule(Follows(c, Link(Effective(d, t), t), t))
      BY <2>3, <2>7
    <3> DEFINE g == Regraded(Unlink(c, t), t, 0, p)
               r == Link(g, t)
               e == Follows(c, r, t)
    <3>2. c.queue[t] \in Queue
      BY <2>7, SleepsOnQueue
    <3>3. Effective(d, t) = g
      BY <1>1, <2>1, <2>7, <3>2, GradedCounted DEF Effective
    <3>4. n = Reschedule(e)
      BY <3>1, <3>3
    <3>5. Replaced(c, r, t) /\ r.suspend[t] = 0
      BY <2>7, ReplacedIs DEF p
    <3> HIDE DEF r
    <3>6. Good(e) /\ Calm(c, e) /\ Delays(c, e, t, 0)
      BY <2>7, <3>5, SleeperEnds DEF Follows
    <3> HIDE DEF e
    <3> QED
      BY <2>5, <3>4, <3>6
  <2>8. CASE ~(d.suspend[t] > 0) /\ c.state[t] \notin {"READY", "SLEEPING"}
    <3>1. n = Reschedule(d) /\ d = Recount(c, t, 0)
      BY <2>1, <2>3, <2>8
    <3>2. c.state[t] \notin Alive
      <4>1. c.state[t] # "RUNNING"
        BY <1>1, <1>3 DEF Sound, Fit, ThreadFits
      <4> QED
        BY <2>8, <4>1 DEF Alive
    <3>3. Good(d) /\ Calm(c, d) /\ Delays(c, d, t, 0)
      BY <3>1, <3>2, RecountEnds
    <3> QED
      BY <2>5, <3>1, <3>3
  <2> QED
    BY <2>4, <2>6, <2>7, <2>8
<1> QED
  BY <1>2, <1>3

-----------------------------------------------------------------------------
(* The other calls *)

LEMMA YieldGood ==
  ASSUME NEW c, Good(c), Runs(c), NEW n, n = SelectThread(c, TRUE)
  PROVE  Good(n) /\ Settled(n) /\ Outlives(c, n)
<1>1. Sound(c, {}) /\ c \in Kernel
  BY DEF Good, Sound
<1>2. /\ Sound(n, {}) /\ Kept(c, n) /\ Stays(c, n)
      /\ IF c.disabled \/ c.current = None THEN n = c ELSE Settled(n)
  BY <1>1, SelectSettles
<1>3. Settled(n)
  BY <1>2 DEF Runs
<1>4. Good(n)
  BY <1>2, GoodStays
<1> QED
  BY <1>1, <1>2, <1>3, <1>4, KeptOutlives

Rebased(c, t, p) == [c EXCEPT !.base[t] = p]

OnlyRebased(c, n, t, p) ==
  /\ n.state = c.state /\ n.priority = c.priority
  /\ n.mutex = c.mutex /\ n.queue = c.queue /\ n.held = c.held
  /\ n.owner = c.owner /\ n.lock = c.lock /\ n.list = c.list /\ n.bits = c.bits
  /\ n.hint = c.hint /\ n.current = c.current /\ n.disabled = c.disabled
  /\ n.suspend = c.suspend
  /\ n.base[t] = p /\ \A u \in Thread \ {t} : n.base[u] = c.base[u]

LEMMA RebasedIs ==
  ASSUME NEW c \in Kernel, NEW t \in Thread, NEW p \in Priority, NEW n, n = Rebased(c, t, p)
  PROVE  n \in Kernel /\ OnlyRebased(c, n, t, p)
<1>1. n.base = [c.base EXCEPT ![t] = p]
  BY DEF Rebased, Kernel
<1>2. /\ n.base \in [Thread -> Priority]
      /\ n.base[t] = p /\ \A u \in Thread \ {t} : n.base[u] = c.base[u]
  BY <1>1 DEF Kernel
<1>3. /\ n.state = c.state /\ n.priority = c.priority
      /\ n.mutex = c.mutex /\ n.queue = c.queue /\ n.held = c.held
      /\ n.owner = c.owner /\ n.lock = c.lock /\ n.list = c.list /\ n.bits = c.bits
      /\ n.hint = c.hint /\ n.current = c.current /\ n.disabled = c.disabled
      /\ n.suspend = c.suspend
  BY DEF Rebased, Kernel
<1>4. n = [c EXCEPT !.base = n.base]
  BY DEF Rebased, Kernel
<1> DEFINE b == n.base
<1> HIDE DEF b
<1>5. ASSUME b \in [Thread -> Priority]  PROVE [c EXCEPT !.base = b] \in Kernel
  BY <1>5 DEF Kernel
<1>6. n \in Kernel
  BY <1>2, <1>4, <1>5 DEF b
<1> QED
  BY <1>2, <1>3, <1>6 DEF OnlyRebased

LEMMA SetPriorityGood ==
  ASSUME NEW c, Good(c), Settled(c), Runs(c), NEW t \in Thread, NEW p \in Priority,
         NEW a, a = Rebased(c, t, p), NEW n, n = Reschedule(UpdatePriority(a, t))
  PROVE  Good(n) /\ Settled(n) /\ Outlives(c, n)
<1>1. Sound(c, {}) /\ Chained(c, {}) /\ Heirs(c) /\ Claimed(c) /\ Locks(c) /\ c \in Kernel
  BY DEF Good, Sound
<1>2. a \in Kernel /\ OnlyRebased(c, a, t, p)
  BY <1>1, RebasedIs
<1>3. /\ a.state = c.state /\ a.priority = c.priority
      /\ a.mutex = c.mutex /\ a.queue = c.queue /\ a.held = c.held
      /\ a.owner = c.owner /\ a.lock = c.lock /\ a.list = c.list /\ a.bits = c.bits
      /\ a.hint = c.hint /\ a.current = c.current /\ a.disabled = c.disabled
      /\ a.suspend = c.suspend /\ \A u \in Thread \ {t} : a.base[u] = c.base[u]
  BY <1>2 DEF OnlyRebased
<1>4. Sound(a, {})
  BY <1>1, <1>2, <1>3, SameReady
<1>5. Chained(a, {})
  BY <1>1, <1>3 DEF Chained
<1>6. Claimed(a) /\ Locks(a)
  BY <1>1, <1>3 DEF Claimed, Locks
<1>7. Waiting(a) = Waiting(c)
  BY <1>3 DEF Waiting, Waits
<1>8. ASSUME NEW u \in Thread \ {}, u # t  PROVE Inherits(a, Waiting(a), u)
  <2>1. Inherits(c, Waiting(c), u)
    BY <1>1 DEF Heirs
  <2>2. a.base[u] = c.base[u]
    BY <1>3, <1>8
  <2> QED
    BY <1>3, <1>7, <2>1, <2>2 DEF Inherits, IsBest
<1>9. \A u \in Thread : NextOwner(a, u) \in Thread \cup {None}
  BY <1>2 DEF NextOwner, Kernel
<1> DEFINE e == UpdatePriority(a, t)
<1>10. Arrived(a, e, Waiting(a), {})
  <2>1. Thread \subseteq Thread \ {} /\ t \in Thread \cup {None}
    OBVIOUS
  <2> QED
    BY <1>4, <1>5, <1>8, <1>9, <2>1, UpdateArrives
<1> HIDE DEF e
<1>11. Good(e)
  BY <1>4, <1>5, <1>6, <1>10, GoodArrived
<1>12. Kept(a, e) /\ Calm(a, e)
  BY <1>10 DEF Arrived
<1>13. Calm(c, a)
  BY <1>3 DEF Calm, Ready
<1>14. Calm(c, e) /\ Fair(c)
  BY <1>12, <1>13, CalmTwice DEF Fair
<1>15. Fair(e)
  BY <1>1, <1>14, CalmFair
<1>16. Good(n) /\ Kept(e, n) /\ (Runs(e) => Settled(n))
  BY <1>11, <1>15, Ends DEF e
<1>17. e.disabled = c.disabled
  BY <1>3, <1>12 DEF Kept
<1>18. Settled(n)
  BY <1>1, <1>14, <1>16, <1>17, RunsCalm
<1>19. Kept(a, n)
  BY <1>12, <1>16, KeptTwice
<1>20. Outlives(a, n)
  BY <1>2, <1>19, KeptOutlives
<1>21. Spares(c, n)
  BY <1>3, <1>20 DEF Outlives, Spares
<1>22. Outlives(c, n)
  BY <1>3, <1>20, <1>21 DEF Outlives, NoneJoins
<1> QED
  BY <1>16, <1>18, <1>22

\* A thread object is used anew.
Created(c, t, p, d) ==
  [c EXCEPT !.state[t] = "READY", !.detached[t] = d, !.base[t] = p, !.priority[t] = p,
            !.suspend[t] = 1, !.mutex[t] = None, !.active = @ \cup {t}]

Born(c, n, t) ==
  /\ n.state[t] = "READY" /\ n.suspend[t] = 1 /\ n.mutex[t] = None
  /\ \A u \in Thread \ {t} :
       /\ n.state[u] = c.state[u] /\ n.suspend[u] = c.suspend[u] /\ n.mutex[u] = c.mutex[u]
       /\ n.base[u] = c.base[u] /\ n.priority[u] = c.priority[u]
  /\ n.queue = c.queue /\ n.held = c.held
  /\ n.owner = c.owner /\ n.lock = c.lock /\ n.list = c.list /\ n.bits = c.bits
  /\ n.hint = c.hint /\ n.current = c.current /\ n.disabled = c.disabled

BornAs(c, s, d, b, p, u, m, a) ==
  [c EXCEPT !.state = s, !.detached = d, !.base = b, !.priority = p, !.suspend = u,
            !.mutex = m, !.active = a]

LEMMA BornInKernel ==
  ASSUME NEW c \in Kernel,
         NEW s \in [Thread -> Alive \cup Dead \cup {"none"}], NEW d \in [Thread -> BOOLEAN],
         NEW b \in [Thread -> Priority], NEW p \in [Thread -> Priority \cup {Suspended}],
         NEW u \in [Thread -> Nat], NEW m \in [Thread -> Mutex \cup {None}],
         NEW a \in SUBSET Thread
  PROVE  BornAs(c, s, d, b, p, u, m, a) \in Kernel
BY DEF BornAs, Kernel

LEMMA CreatedIs ==
  ASSUME NEW c \in Kernel, NEW t \in Thread, NEW p \in Priority, NEW d \in BOOLEAN,
         NEW n, n = Created(c, t, p, d)
  PROVE  n \in Kernel /\ Born(c, n, t)
<1>1. /\ n.state = [c.state EXCEPT ![t] = "READY"] /\ n.detached = [c.detached EXCEPT ![t] = d]
      /\ n.base = [c.base EXCEPT ![t] = p] /\ n.priority = [c.priority EXCEPT ![t] = p]
      /\ n.suspend = [c.suspend EXCEPT ![t] = 1] /\ n.mutex = [c.mutex EXCEPT ![t] = None]
      /\ n.active = c.active \cup {t}
  BY DEF Created, Kernel
<1>2. /\ n.queue = c.queue /\ n.held = c.held
      /\ n.owner = c.owner /\ n.lock = c.lock /\ n.list = c.list /\ n.bits = c.bits
      /\ n.hint = c.hint /\ n.current = c.current /\ n.disabled = c.disabled
  BY DEF Created, Kernel
<1>3. /\ n.state \in [Thread -> Alive \cup Dead \cup {"none"}]
      /\ n.state[t] = "READY" /\ \A u \in Thread \ {t} : n.state[u] = c.state[u]
  BY <1>1 DEF Kernel, Alive
<1>4. n.detached \in [Thread -> BOOLEAN]
  BY <1>1 DEF Kernel
<1>5. n.base \in [Thread -> Priority] /\ \A u \in Thread \ {t} : n.base[u] = c.base[u]
  BY <1>1 DEF Kernel
<1>6. /\ n.priority \in [Thread -> Priority \cup {Suspended}]
      /\ \A u \in Thread \ {t} : n.priority[u] = c.priority[u]
  BY <1>1 DEF Kernel
<1>7. /\ n.suspend \in [Thread -> Nat] /\ n.suspend[t] = 1
      /\ \A u \in Thread \ {t} : n.suspend[u] = c.suspend[u]
  BY <1>1 DEF Kernel
<1>8. /\ n.mutex \in [Thread -> Mutex \cup {None}] /\ n.mutex[t] = None
      /\ \A u \in Thread \ {t} : n.mutex[u] = c.mutex[u]
  BY <1>1 DEF Kernel
<1>9. n.active \in SUBSET Thread
  BY <1>1 DEF Kernel
<1>10. n = BornAs(c, n.state, n.detached, n.base, n.priority, n.suspend, n.mutex, n.active)
  BY DEF Created, BornAs, Kernel
<1>11. n \in Kernel
  BY <1>3, <1>4, <1>5, <1>6, <1>7, <1>8, <1>9, <1>10, BornInKernel
<1> QED
  BY <1>2, <1>3, <1>5, <1>6, <1>7, <1>8, <1>11 DEF Born

LEMMA CreateGood ==
  ASSUME NEW c, Good(c), Settled(c), NEW t \in Thread, c.state[t] \notin Alive,
         NEW p \in Priority, NEW d \in BOOLEAN, NEW n, n = Created(c, t, p, d)
  PROVE  Good(n) /\ Settled(n) /\ Born(c, n, t)
<1>1. /\ Sound(c, {}) /\ Chained(c, {}) /\ Heirs(c) /\ Claimed(c) /\ Locks(c) /\ c \in Kernel
      /\ None \notin Thread
  BY ThreadAssumption DEF Good, Sound
<1>2. n \in Kernel /\ Born(c, n, t)
  BY <1>1, CreatedIs
<1>3. /\ n.state[t] = "READY" /\ n.suspend[t] = 1
      /\ \A u \in Thread \ {t} :
           /\ n.state[u] = c.state[u] /\ n.suspend[u] = c.suspend[u]
           /\ n.mutex[u] = c.mutex[u]
           /\ n.base[u] = c.base[u] /\ n.priority[u] = c.priority[u]
      /\ n.queue = c.queue /\ n.held = c.held
      /\ n.owner = c.owner /\ n.lock = c.lock /\ n.list = c.list /\ n.bits = c.bits
      /\ n.hint = c.hint /\ n.current = c.current /\ n.disabled = c.disabled
  BY <1>2 DEF Born
<1>4. Sound(n, {})
  <2>1. Sound(c, {} \cup {t})
    BY <1>1, OnNone DEF Unplaced, Ready, Alive
  <2>2. Elsewhere(c, n, t)
    BY <1>3 DEF Elsewhere
  <2>3. Sound(n, {} \cup {t})
    BY <1>2, <2>1, <2>2, OffChanges
  <2>4. Unplaced(n, t) /\ ThreadFits(n, t)
    BY <1>3 DEF Unplaced, ThreadFits, Ready
  <2>5. Sound(n, ({} \cup {t}) \ {t})
    BY <2>3, <2>4, OnNone
  <2>6. ({} \cup {t}) \ {t} = {}
    OBVIOUS
  <2> QED
    BY <2>5, <2>6
<1>5. Chained(n, {})
  BY <1>1, <1>3 DEF Chained
<1>6. Claimed(n) /\ Locks(n)
  BY <1>1, <1>3 DEF Claimed, Locks
<1>7. Waiting(n) = Waiting(c)
  BY <1>3 DEF Waiting, Waits
<1>8. ASSUME NEW u \in Thread  PROVE <<t, u>> \notin Waiting(c)
  <2>1. <<t, u>> \in Waiting(c) <=> t \notin {} /\ NextOwner(c, t) = u
    BY <1>1, WaitingIs
  <2>2. NextOwner(c, t) = None
    BY DEF NextOwner, Alive
  <2> QED
    BY <1>1, <2>1, <2>2
<1>9. ASSUME NEW u \in Thread  PROVE Inherits(n, Waiting(n), u)
  <2>1. CASE u = t
    BY <1>3, <2>1 DEF Inherits
  <2>2. CASE u # t
    <3>1. Inherits(c, Waiting(c), u)
      BY <1>1 DEF Heirs
    <3>2. \A x \in Thread : <<x, u>> \in Waiting(c) => x # t
      BY <1>8
    <3>3. \A x \in Thread : <<x, u>> \in Waiting(c) => n.priority[x] = c.priority[x]
      BY <1>3, <3>2
    <3>4. /\ n.state[u] = c.state[u] /\ n.suspend[u] = c.suspend[u]
          /\ n.base[u] = c.base[u] /\ n.priority[u] = c.priority[u]
      BY <1>3, <2>2
    <3> QED
      BY <1>7, <3>1, <3>3, <3>4 DEF Inherits, IsBest
  <2> QED
    BY <2>1, <2>2
<1>10. Heirs(n)
  BY <1>9 DEF Heirs
<1>11. Settled(n)
  <2>1. c.current # None => c.current # t
    BY DEF Settled, Alive
  <2>2. CASE c.current = None
    BY <1>3, <2>2 DEF Settled
  <2>3. CASE c.current # None
    <3>1. c.current \in Thread \ {t} /\ c.state[c.current] = "RUNNING"
      BY <1>1, <2>1, <2>3 DEF Settled, Kernel
    <3>2. n.state[c.current] = "RUNNING" /\ n.priority[c.current] = c.priority[c.current]
      BY <1>3, <3>1
    <3>3. ASSUME NEW u \in Thread, Ready(n, u)
          PROVE  Ready(c, u) /\ n.priority[u] = c.priority[u]
      BY <1>3, <3>3 DEF Ready
    <3> QED
      BY <1>3, <2>3, <3>2, <3>3 DEF Settled
  <2> QED
    BY <2>2, <2>3
<1> QED
  BY <1>2, <1>4, <1>5, <1>6, <1>10, <1>11 DEF Good

\* A dead thread may be forgotten, and detached or not; nothing else changes.
Forgets(c, n, t) ==
  /\ n \in Kernel
  /\ \A u \in Thread \ {t} : n.state[u] = c.state[u]
  /\ n.state[t] = c.state[t] \/ (c.state[t] = "MORIBUND" /\ n.state[t] = "EXITED")
  /\ n.base = c.base /\ n.priority = c.priority /\ n.suspend = c.suspend
  /\ n.mutex = c.mutex /\ n.queue = c.queue /\ n.held = c.held
  /\ n.owner = c.owner /\ n.lock = c.lock /\ n.list = c.list /\ n.bits = c.bits
  /\ n.hint = c.hint /\ n.current = c.current /\ n.disabled = c.disabled

LEMMA ForgetsGood ==
  ASSUME NEW c, Good(c), Settled(c), NEW t \in Thread, NEW n, Forgets(c, n, t)
  PROVE  Good(n) /\ Settled(n) /\ \A u \in Thread : n.state[u] \in Alive <=> c.state[u] \in Alive
<1>1. Sound(c, {}) /\ Chained(c, {}) /\ Heirs(c) /\ Claimed(c) /\ Locks(c) /\ c \in Kernel
  BY DEF Good, Sound
<1>2. /\ n \in Kernel
      /\ \A u \in Thread \ {t} : n.state[u] = c.state[u]
      /\ n.base = c.base /\ n.priority = c.priority /\ n.suspend = c.suspend
      /\ n.mutex = c.mutex /\ n.queue = c.queue /\ n.held = c.held
      /\ n.owner = c.owner /\ n.lock = c.lock /\ n.list = c.list /\ n.bits = c.bits
      /\ n.hint = c.hint /\ n.current = c.current /\ n.disabled = c.disabled
  BY DEF Forgets
<1>3. ASSUME NEW u \in Thread
      PROVE  /\ n.state[u] \in Alive <=> c.state[u] \in Alive
             /\ n.state[u] = "SLEEPING" <=> c.state[u] = "SLEEPING"
             /\ n.state[u] = "RUNNING" <=> c.state[u] = "RUNNING"
             /\ n.state[u] = "READY" <=> c.state[u] = "READY"
  BY DEF Forgets, Alive
<1>4. Sound(n, {})
  <2>1. CASE n.state[t] = c.state[t]
    <3>1. c.state \in [Thread -> Alive \cup Dead \cup {"none"}]
          /\ n.state \in [Thread -> Alive \cup Dead \cup {"none"}]
      BY <1>1, <1>2 DEF Kernel
    <3>2. \A u \in Thread : n.state[u] = c.state[u]
      BY <1>2, <2>1
    <3>3. n.state = c.state
      BY <3>1, <3>2
    <3> QED
      BY <1>1, <1>2, <3>3, SameReady
  <2>2. CASE n.state[t] # c.state[t]
    <3>1. c.state[t] \notin Alive /\ n.state[t] \notin Alive
      BY <2>2 DEF Forgets, Alive
    <3>2. Sound(c, {} \cup {t})
      BY <1>1, <3>1, OnNone DEF Unplaced, Ready, Alive
    <3>3. Elsewhere(c, n, t)
      BY <1>2 DEF Elsewhere
    <3>4. Sound(n, {} \cup {t})
      BY <1>2, <3>2, <3>3, OffChanges
    <3>5. Unplaced(n, t) /\ ThreadFits(n, t)
      BY <3>1 DEF Unplaced, ThreadFits, Ready, Alive
    <3>6. Sound(n, ({} \cup {t}) \ {t})
      BY <3>4, <3>5, OnNone
    <3>7. ({} \cup {t}) \ {t} = {}
      OBVIOUS
    <3> QED
      BY <3>6, <3>7
  <2> QED
    BY <2>1, <2>2
<1>5. Chained(n, {})
  BY <1>1, <1>2, <1>3 DEF Chained
<1>6. Claimed(n) /\ Locks(n)
  BY <1>1, <1>2, <1>3 DEF Claimed, Locks
<1>7. Waiting(n) = Waiting(c)
  BY <1>2 DEF Waiting, Waits
<1>8. ASSUME NEW u \in Thread  PROVE Inherits(n, Waiting(n), u)
  <2>1. Inherits(c, Waiting(c), u)
    BY <1>1 DEF Heirs
  <2>2. n.state[u] \in Alive <=> c.state[u] \in Alive
    BY <1>3
  <2> QED
    BY <1>2, <1>7, <2>1, <2>2 DEF Inherits, IsBest
<1>9. Heirs(n)
  BY <1>8 DEF Heirs
<1>10. \A u \in Thread : Ready(n, u) <=> Ready(c, u)
  BY <1>2, <1>3 DEF Ready
<1>11. Settled(n)
  <2>1. c.current \in Thread \cup {None}
    BY <1>1 DEF Kernel
  <2>2. c.current \in Thread => (n.state[c.current] = "RUNNING" <=> c.state[c.current] = "RUNNING")
    BY <1>3
  <2> QED
    BY <1>2, <1>10, <2>1, <2>2 DEF Settled
<1> QED
  BY <1>3, <1>4, <1>5, <1>6, <1>9, <1>11 DEF Good

LEMMA ReapForgets ==
  ASSUME NEW c \in Kernel, NEW t \in Thread, NEW n, n = Reap(c, t)
  PROVE  Forgets(c, n, t)
<1>1. CASE c.state[t] # "MORIBUND"
  <2>1. n = c
    BY <1>1 DEF Reap
  <2> QED
    BY <2>1 DEF Forgets
<1>2. CASE c.state[t] = "MORIBUND"
  <2>1. n = [c EXCEPT !.state[t] = "EXITED", !.active = @ \ {t}]
    BY <1>2 DEF Reap
  <2>2. n.state = [c.state EXCEPT ![t] = "EXITED"] /\ n.active = c.active \ {t}
    BY <2>1 DEF Kernel
  <2>3. /\ n.state \in [Thread -> Alive \cup Dead \cup {"none"}]
        /\ n.state[t] = "EXITED" /\ \A u \in Thread \ {t} : n.state[u] = c.state[u]
    BY <2>2 DEF Kernel, Dead
  <2>4. n.active \in SUBSET Thread
    BY <2>2 DEF Kernel
  <2>5. n = [c EXCEPT !.state = n.state, !.active = n.active]
    BY <2>1 DEF Kernel
  <2> DEFINE s == n.state
             a == n.active
  <2> HIDE DEF s, a
  <2>6. ASSUME s \in [Thread -> Alive \cup Dead \cup {"none"}], a \in SUBSET Thread
        PROVE  [c EXCEPT !.state = s, !.active = a] \in Kernel
    BY <2>6 DEF Kernel
  <2>7. n \in Kernel
    BY <2>3, <2>4, <2>5, <2>6 DEF s, a
  <2>8. /\ n.base = c.base /\ n.priority = c.priority /\ n.suspend = c.suspend
        /\ n.mutex = c.mutex /\ n.queue = c.queue /\ n.held = c.held
        /\ n.owner = c.owner /\ n.lock = c.lock /\ n.list = c.list /\ n.bits = c.bits
        /\ n.hint = c.hint /\ n.current = c.current /\ n.disabled = c.disabled
    BY <2>1 DEF Kernel
  <2> QED
    BY <1>2, <2>3, <2>7, <2>8 DEF Forgets
<1> QED
  BY <1>1, <1>2

Detached(c, t) == [c EXCEPT !.detached[t] = TRUE]

LEMMA DetachedForgets ==
  ASSUME NEW c \in Kernel, NEW t \in Thread, NEW n, n = Detached(c, t)
  PROVE  Forgets(c, n, t)
<1>1. n.detached = [c.detached EXCEPT ![t] = TRUE]
  BY DEF Detached, Kernel
<1>2. n.detached \in [Thread -> BOOLEAN]
  BY <1>1 DEF Kernel
<1>3. n = [c EXCEPT !.detached = n.detached]
  BY DEF Detached, Kernel
<1> DEFINE d == n.detached
<1> HIDE DEF d
<1>4. ASSUME d \in [Thread -> BOOLEAN]  PROVE [c EXCEPT !.detached = d] \in Kernel
  BY <1>4 DEF Kernel
<1>5. n \in Kernel
  BY <1>2, <1>3, <1>4 DEF d
<1>6. /\ n.state = c.state
      /\ n.base = c.base /\ n.priority = c.priority /\ n.suspend = c.suspend
      /\ n.mutex = c.mutex /\ n.queue = c.queue /\ n.held = c.held
      /\ n.owner = c.owner /\ n.lock = c.lock /\ n.list = c.list /\ n.bits = c.bits
      /\ n.hint = c.hint /\ n.current = c.current /\ n.disabled = c.disabled
  BY DEF Detached, Kernel
<1> QED
  BY <1>5, <1>6 DEF Forgets

\* Who waits to be joined has no joiner, but for one who came before the death
\* of a thread that held a mutex.
JoinsEnd(c, n) ==
  \A t \in Thread : n.state[t] = "MORIBUND" =>
    \/ Deserted(n, JoinQ(t))
    \/ ~Deserted(c, JoinQ(t)) /\ (c.state[t] = "MORIBUND" \/ c.held[t] # <<>>)

\* Nobody dies.
NoneBuried(c, n) == \A t \in Thread : n.state[t] = "MORIBUND" => c.state[t] = "MORIBUND"

LEMMA NoneLeaves ==
  ASSUME NEW c, NEW n, NoneBuried(c, n), NoneJoins(c, n)
  PROVE  JoinsEnd(c, n)
BY DEF NoneBuried, NoneJoins, JoinsEnd, Deserted

LEMMA SparesNone ==
  ASSUME NEW c, NEW n, Spares(c, n)
  PROVE  NoneBuried(c, n)
BY DEF Spares, NoneBuried, Alive

LEMMA OutlivesJoins ==
  ASSUME NEW c, NEW n, Outlives(c, n)
  PROVE  NoneBuried(c, n) /\ NoneJoins(c, n) /\ JoinsEnd(c, n)
BY SparesNone, NoneLeaves DEF Outlives

\* What is left to say of a call that lets nobody be born or die.
Quiet(c, n) ==
  /\ n.disabled = c.disabled /\ n.mutex = c.mutex
  /\ \A t \in Thread :
       /\ n.suspend[t] <= c.suspend[t]
       /\ n.state[t] \in Alive <=> c.state[t] \in Alive
  /\ \A m \in Mutex : n.owner[m] \in {c.owner[m], None} /\ n.lock[m] <= c.lock[m]
  /\ JoinsEnd(c, n)

LEMMA OutlivesQuiet ==
  ASSUME NEW c, NEW n, Outlives(c, n)
  PROVE  Quiet(c, n)
BY OutlivesJoins DEF Outlives, Spares, Quiet

\* What is forgotten changes nothing for those that join.
LEMMA ForgetsJoins ==
  ASSUME NEW c, NEW t \in Thread, NEW n, Forgets(c, n, t)
  PROVE  NoneBuried(c, n) /\ NoneJoins(c, n)
BY DEF Forgets, NoneBuried, NoneJoins

LEMMA ForgetsQuiet ==
  ASSUME NEW c, Good(c), NEW t \in Thread, NEW s, Forgets(c, s, t),
         \A u \in Thread : s.state[u] \in Alive <=> c.state[u] \in Alive,
         NEW n, Outlives(s, n)
  PROVE  Quiet(c, n)
<1>1. s.mutex = c.mutex /\ s.suspend = c.suspend /\ s.owner = c.owner /\ s.lock = c.lock
      /\ s.disabled = c.disabled
  BY DEF Forgets
<1>2. JoinsEnd(c, n)
  <2>1. NoneBuried(c, s) /\ NoneJoins(c, s) /\ NoneBuried(s, n) /\ NoneJoins(s, n)
    BY ForgetsJoins, OutlivesJoins
  <2>2. NoneBuried(c, n) /\ NoneJoins(c, n)
    BY <2>1 DEF NoneBuried, NoneJoins
  <2> QED
    BY <2>2, NoneLeaves
<1> QED
  BY <1>1, <1>2 DEF Outlives, Spares, Quiet

LEMMA ReapGood ==
  ASSUME NEW c, Good(c), Settled(c), NEW t \in Thread, NEW n, n = Reap(c, t)
  PROVE  Good(n) /\ Settled(n) /\ Quiet(c, n)
<1>1. c \in Kernel
  BY DEF Good, Sound
<1>2. Forgets(c, n, t)
  BY <1>1, ReapForgets
<1>3. Good(n) /\ Settled(n) /\ \A u \in Thread : n.state[u] \in Alive <=> c.state[u] \in Alive
  BY <1>2, ForgetsGood
<1>4. Outlives(n, n)
  <2>1. n \in Kernel
    BY <1>2 DEF Forgets
  <2> QED
    BY <2>1, KeptNothing, KeptOutlives
<1> QED
  BY <1>2, <1>3, <1>4, ForgetsQuiet

LEMMA JoinQueue ==
  ASSUME NEW t \in Thread
  PROVE  JoinQ(t) \in SleepQueues /\ \A m \in Mutex : JoinQ(t) # MutexQ(m)
BY QueueNames DEF JoinQ, MutexQ

LEMMA DriverQueue ==
  ASSUME NEW w \in WaitQueue
  PROVE  WaitQ(w) \in SleepQueues /\ \A m \in Mutex : WaitQ(w) # MutexQ(m)
BY QueueNames DEF WaitQ, MutexQ

LEMMA SettledAwake ==
  ASSUME NEW c, Settled(c)
  PROVE  Fair(c) /\ \A u \in Thread : u = c.current => c.state[u] # "SLEEPING"
BY ThreadAssumption DEF Settled, Fair

\* A call that wakes a queue which is not the one of a mutex.
LEMMA WakeCallGood ==
  ASSUME NEW c, Good(c), Settled(c), NEW q \in SleepQueues, \A m \in Mutex : q # MutexQ(m),
         NEW n, n = Wakeup(c, q)
  PROVE  Good(n) /\ Outlives(c, n) /\ Leads(c, n) /\ (Runs(c) => Settled(n))
<1>1. Fair(c) /\ Wakeable(c, q)
  BY SettledAwake, WaitQueueGood
<1>2. Called(c, n)
  BY <1>1, WakeupGood
<1>3. c \in Kernel
  BY DEF Good, Sound
<1> QED
  BY <1>2, <1>3, KeptOutlives DEF Called

LEMMA DetachGood ==
  ASSUME NEW c, Good(c), Settled(c), Runs(c), NEW t \in Thread,
         NEW n, n = Wakeup(Reap(Detached(c, t), t), JoinQ(t))
  PROVE  Good(n) /\ Settled(n) /\ Quiet(c, n)
<1>1. c \in Kernel
  BY DEF Good, Sound
<1> DEFINE d == Detached(c, t)
           r == Reap(d, t)
<1>2. Forgets(c, d, t)
  BY <1>1, DetachedForgets
<1>3. Good(d) /\ Settled(d) /\ \A u \in Thread : d.state[u] \in Alive <=> c.state[u] \in Alive
  BY <1>2, ForgetsGood
<1> HIDE DEF d
<1>4. d \in Kernel
  BY <1>2 DEF Forgets
<1>5. Forgets(d, r, t)
  BY <1>4, ReapForgets
<1>6. Good(r) /\ Settled(r) /\ \A u \in Thread : r.state[u] \in Alive <=> d.state[u] \in Alive
  BY <1>3, <1>5, ForgetsGood
<1>7. n = Wakeup(r, JoinQ(t))
  BY DEF d
<1> HIDE DEF r
<1>8. Good(n) /\ Outlives(r, n) /\ (Runs(r) => Settled(n))
  BY <1>6, <1>7, JoinQueue, WakeCallGood
<1>9. /\ r.disabled = c.disabled /\ r.current = c.current /\ r.mutex = c.mutex
      /\ r.suspend = c.suspend /\ r.owner = c.owner /\ r.lock = c.lock
  BY <1>2, <1>5 DEF Forgets
<1>10. Runs(r)
  BY <1>6, <1>9 DEF Runs, Settled
<1>11. JoinsEnd(c, n)
  <2>1. /\ NoneBuried(c, d) /\ NoneJoins(c, d) /\ NoneBuried(d, r) /\ NoneJoins(d, r)
        /\ NoneBuried(r, n) /\ NoneJoins(r, n)
    BY <1>2, <1>5, <1>8, ForgetsJoins, OutlivesJoins
  <2>2. NoneBuried(c, n) /\ NoneJoins(c, n)
    BY <2>1 DEF NoneBuried, NoneJoins
  <2> QED
    BY <2>2, NoneLeaves
<1>12. Quiet(c, n)
  BY <1>3, <1>6, <1>8, <1>9, <1>11 DEF Outlives, Spares, Quiet
<1> QED
  BY <1>8, <1>10, <1>12

-----------------------------------------------------------------------------
(* Interrupts *)

Masked(c, b) == [c EXCEPT !.disabled = b]

SameButMask(c, n) ==
  /\ n.state = c.state /\ n.base = c.base /\ n.priority = c.priority
  /\ n.suspend = c.suspend /\ n.mutex = c.mutex /\ n.queue = c.queue /\ n.held = c.held
  /\ n.owner = c.owner /\ n.lock = c.lock /\ n.list = c.list /\ n.bits = c.bits
  /\ n.hint = c.hint /\ n.current = c.current

LEMMA MaskedGood ==
  ASSUME NEW c, Good(c), NEW b \in BOOLEAN, NEW n, n = Masked(c, b)
  PROVE  Good(n) /\ SameButMask(c, n) /\ n.disabled = b /\ (Settled(c) => Settled(n))
<1>1. Sound(c, {}) /\ Chained(c, {}) /\ Heirs(c) /\ Claimed(c) /\ Locks(c) /\ c \in Kernel
  BY DEF Good, Sound
<1>2. n \in Kernel
  BY <1>1 DEF Masked, Kernel
<1>3. SameButMask(c, n) /\ n.disabled = b
  BY <1>1 DEF Masked, Kernel, SameButMask
<1>4. /\ n.state = c.state /\ n.base = c.base /\ n.priority = c.priority
      /\ n.suspend = c.suspend /\ n.mutex = c.mutex /\ n.queue = c.queue /\ n.held = c.held
      /\ n.owner = c.owner /\ n.lock = c.lock /\ n.list = c.list /\ n.bits = c.bits
      /\ n.hint = c.hint /\ n.current = c.current
  BY <1>3 DEF SameButMask
<1>5. Sound(n, {})
  BY <1>1, <1>2, <1>4, SameReady
<1>6. Chained(n, {})
  BY <1>1, <1>4 DEF Chained
<1>7. Claimed(n) /\ Locks(n)
  BY <1>1, <1>4 DEF Claimed, Locks
<1>8. Waiting(n) = Waiting(c)
  BY <1>4 DEF Waiting, Waits
<1>9. Heirs(n)
  BY <1>1, <1>4, <1>8 DEF Heirs, Inherits, IsBest
<1>10. Settled(c) => Settled(n)
  BY <1>4 DEF Settled, Ready
<1> QED
  BY <1>3, <1>5, <1>6, <1>7, <1>9, <1>10 DEF Good

\* The handler j ran with the scheduler disabled; at its end the best thread
\* runs.
LEMMA InterruptedGood ==
  ASSUME NEW c, Good(c), Settled(c), c.disabled = FALSE, NEW a, a = Masked(c, TRUE),
         NEW j, Good(j), Leads(a, j), Outlives(a, j), NEW n, n = Interrupted(j)
  PROVE  Good(n) /\ Settled(n) /\ Quiet(c, n)
<1>1. SameButMask(c, a) /\ Settled(a)
  BY MaskedGood
<1> DEFINE e == Masked(j, FALSE)
<1>2. Good(e) /\ SameButMask(j, e) /\ e.disabled = FALSE
  BY MaskedGood
<1>3. n = IF j.current = None THEN IF j.bits = {} THEN e ELSE Dispatch(e) ELSE Reschedule(e)
  BY DEF Interrupted, Masked
<1> HIDE DEF e
<1>4. /\ e.current = j.current /\ e.bits = j.bits /\ e.state = j.state /\ e.hint = j.hint
      /\ e.suspend = j.suspend /\ e.mutex = j.mutex /\ e.owner = j.owner /\ e.lock = j.lock
      /\ e.priority = j.priority
  BY <1>2 DEF SameButMask
<1>5. e \in Kernel /\ Sound(e, {})
  BY <1>2 DEF Good, Sound
<1>6. Good(n) /\ Settled(n) /\ Kept(e, n)
  <2>1. CASE j.current = None /\ j.bits = {}
    <3>1. n = e
      BY <1>3, <2>1
    <3>2. Settled(e)
      BY <1>4, <2>1 DEF Settled
    <3> QED
      BY <1>2, <3>1, <3>2, KeptNothing
  <2>2. CASE j.current = None /\ j.bits # {}
    <3>1. n = Dispatch(e)
      BY <1>3, <2>2
    <3>2. Sound(n, {}) /\ Kept(e, n) /\ Stays(e, n) /\ Settled(n)
      BY <1>5, <3>1, DispatchRuns
    <3> QED
      BY <1>2, <3>2, GoodStays
  <2>3. CASE j.current # None
    <3>1. n = Reschedule(e)
      BY <1>3, <2>3
    <3>2. Fair(j) /\ j.state[j.current] = "RUNNING"
      <4>1. CASE Settled(j)
        BY <2>3, <4>1 DEF Settled, Fair
      <4>2. CASE j.current = a.current /\ Fair(j)
                 /\ (a.current # None => j.state[a.current] = a.state[a.current])
        BY <1>1, <2>3, <4>2 DEF Settled
      <4> QED
        BY <4>1, <4>2 DEF Leads
    <3>3. Fair(e) /\ Runs(e)
      BY <1>2, <1>4, <2>3, <3>2 DEF Fair, Runs, Settled, Ready
    <3> QED
      BY <1>2, <3>1, <3>3, Ends
  <2> QED
    BY <2>1, <2>2, <2>3
<1>7. Outlives(e, n)
  BY <1>5, <1>6, KeptOutlives
<1>8. n.suspend = e.suspend /\ n.owner = e.owner /\ n.lock = e.lock /\ n.disabled = FALSE
  BY <1>2, <1>6 DEF Kept
<1>9. /\ a.state = c.state /\ a.suspend = c.suspend /\ a.mutex = c.mutex
      /\ a.owner = c.owner /\ a.lock = c.lock
  BY <1>1 DEF SameButMask
<1>10. JoinsEnd(c, n)
  <2>1. a.state = c.state /\ a.queue = c.queue /\ e.state = j.state /\ e.queue = j.queue
    BY <1>1, <1>2 DEF SameButMask
  <2>2. NoneBuried(a, j) /\ NoneJoins(a, j) /\ NoneBuried(e, n) /\ NoneJoins(e, n)
    BY <1>7, OutlivesJoins
  <2>3. NoneBuried(c, n)
    BY <2>1, <2>2 DEF NoneBuried
  <2>4. ASSUME NEW u \in Thread, NEW t \in Thread,
               n.state[u] = "SLEEPING", n.queue[u] = JoinQ(t)
        PROVE  c.state[u] = "SLEEPING" /\ c.queue[u] = JoinQ(t)
    <3>1. e.state[u] = "SLEEPING" /\ e.queue[u] = JoinQ(t)
      BY <2>2, <2>4 DEF NoneJoins
    <3>2. j.state[u] = "SLEEPING" /\ j.queue[u] = JoinQ(t)
      BY <2>1, <3>1
    <3>3. a.state[u] = "SLEEPING" /\ a.queue[u] = JoinQ(t)
      BY <2>2, <3>2 DEF NoneJoins
    <3> QED
      BY <2>1, <3>3
  <2>5. NoneJoins(c, n)
    BY <2>4 DEF NoneJoins
  <2> QED
    BY <2>3, <2>5, NoneLeaves
<1>11. Quiet(c, n)
  <2>1. ASSUME NEW t \in Thread  PROVE n.suspend[t] <= c.suspend[t]
    <3>1. j.suspend[t] <= a.suspend[t]
      BY DEF Outlives, Spares
    <3>2. n.suspend[t] = j.suspend[t] /\ a.suspend[t] = c.suspend[t]
      BY <1>4, <1>8, <1>9
    <3> QED
      BY <3>1, <3>2
  <2>2. ASSUME NEW t \in Thread  PROVE n.state[t] \in Alive <=> c.state[t] \in Alive
    <3>1. n.state[t] \in Alive <=> e.state[t] \in Alive
      BY <1>7 DEF Outlives, Spares
    <3>2. e.state[t] = j.state[t] /\ a.state[t] = c.state[t]
      BY <1>4, <1>9
    <3>3. j.state[t] \in Alive <=> a.state[t] \in Alive
      BY DEF Outlives, Spares
    <3> QED
      BY <3>1, <3>2, <3>3
  <2>3. ASSUME NEW m \in Mutex
        PROVE  n.owner[m] \in {c.owner[m], None} /\ n.lock[m] <= c.lock[m]
    <3>1. j.owner[m] \in {a.owner[m], None} /\ j.lock[m] <= a.lock[m]
      BY DEF Outlives, Spares
    <3>2. /\ n.owner[m] = j.owner[m] /\ n.lock[m] = j.lock[m]
          /\ a.owner[m] = c.owner[m] /\ a.lock[m] = c.lock[m]
      BY <1>4, <1>8, <1>9
    <3> QED
      BY <3>1, <3>2
  <2> QED
    <3>1. n.disabled = c.disabled
      BY <1>8
    <3>2. n.mutex = c.mutex
      <4>1. n.mutex = e.mutex
        BY <1>7 DEF Outlives, Spares
      <4>2. j.mutex = a.mutex
        BY DEF Outlives, Spares
      <4> QED
        BY <1>4, <1>9, <4>1, <4>2
    <3> QED
      BY <1>10, <2>1, <2>2, <2>3, <3>1, <3>2, Zenon DEF Quiet
<1> QED
  BY <1>6, <1>11

-----------------------------------------------------------------------------
(* The invariant *)

\* The calls the threads are inside: one that has a mutex in mind waits to lock
\* it and does not own it; the thread whose end is left to run is dead.
InCalls(c, r) ==
  /\ r \in [Thread -> Continuations]
  /\ \A t \in Thread : c.state[t] \in Alive /\ c.mutex[t] # None =>
       \E m \in Mutex : r[t] = <<"lock", m>>
  /\ \A t \in Thread, m \in Mutex : r[t] = <<"lock", m>> => c.owner[m] # t
  /\ \A t, u \in Thread : c.state[t] \in Alive /\ r[t] = <<"unlockAll", u>> =>
       c.state[u] \notin Alive

Bounded(c) ==
  /\ \A t \in Thread : c.suspend[t] <= MaxSuspend
  /\ \A m \in Mutex : c.lock[m] <= MaxLock

Inv(c, r, a) ==
  /\ Good(c) /\ c.disabled = FALSE /\ Settled(c) /\ Bounded(c)
  /\ InCalls(c, r) /\ a \in SUBSET Thread

IInv == Inv(k, cont, alarms)

\* No thread is created.
NoneBorn(c, n) == \A t \in Thread : n.state[t] \in Alive => c.state[t] \in Alive

\* What a call that creates no thread does to the living and to the joiners.
Tidy(c, n) == NoneBorn(c, n) /\ JoinsEnd(c, n)

LEMMA CallsKept ==
  ASSUME NEW c, NEW r, InCalls(c, r), NEW n, n.mutex = c.mutex, NoneBorn(c, n),
         \A m \in Mutex : n.owner[m] \in {c.owner[m], None}
  PROVE  InCalls(n, r)
<1>1. None \notin Thread
  BY ThreadAssumption
<1> QED
  BY <1>1 DEF InCalls, NoneBorn

\* t goes on at x.
LEMMA CallsChange ==
  ASSUME NEW c, NEW r, NEW a, Inv(c, r, a), NEW t \in Thread, NEW x \in Continuations,
         c.state[t] \in Alive /\ c.mutex[t] # None => \E m \in Mutex : x = <<"lock", m>>,
         \A m \in Mutex : x = <<"lock", m>> => c.owner[m] # t,
         \A u \in Thread : c.state[t] \in Alive /\ x = <<"unlockAll", u>> => c.state[u] \notin Alive,
         NEW s, s = [r EXCEPT ![t] = x]
  PROVE  Inv(c, s, a)
<1>1. InCalls(c, r)
  BY DEF Inv
<1>2. r \in [Thread -> Continuations]
  BY <1>1 DEF InCalls
<1>3. /\ s \in [Thread -> Continuations]
      /\ s[t] = x /\ \A u \in Thread \ {t} : s[u] = r[u]
  BY <1>2
<1>4. ASSUME NEW u \in Thread, c.state[u] \in Alive, c.mutex[u] # None
      PROVE  \E m \in Mutex : s[u] = <<"lock", m>>
  <2>1. CASE u = t
    BY <1>3, <1>4, <2>1
  <2>2. CASE u # t
    BY <1>1, <1>3, <1>4, <2>2 DEF InCalls
  <2> QED
    BY <2>1, <2>2
<1>5. ASSUME NEW u \in Thread, NEW m \in Mutex, s[u] = <<"lock", m>>  PROVE c.owner[m] # u
  <2>1. CASE u = t
    BY <1>3, <1>5, <2>1
  <2>2. CASE u # t
    BY <1>1, <1>3, <1>5, <2>2 DEF InCalls
  <2> QED
    BY <2>1, <2>2
<1>6. ASSUME NEW u \in Thread, NEW v \in Thread, c.state[u] \in Alive, s[u] = <<"unlockAll", v>>
      PROVE  c.state[v] \notin Alive
  <2>1. CASE u = t
    BY <1>3, <1>6, <2>1
  <2>2. CASE u # t
    BY <1>1, <1>3, <1>6, <2>2 DEF InCalls
  <2> QED
    BY <2>1, <2>2
<1>7. InCalls(c, s)
  BY <1>3, <1>4, <1>5, <1>6 DEF InCalls
<1> QED
  BY <1>7 DEF Inv

LEMMA BoundedLess ==
  ASSUME NEW c \in Kernel, NEW n \in Kernel, Bounded(c),
         \A t \in Thread : n.suspend[t] <= c.suspend[t],
         \A m \in Mutex : n.lock[m] <= c.lock[m]
  PROVE  Bounded(n)
<1>1. /\ c.suspend \in [Thread -> Nat] /\ n.suspend \in [Thread -> Nat]
      /\ c.lock \in [Mutex -> Nat] /\ n.lock \in [Mutex -> Nat]
      /\ MaxSuspend \in Nat /\ MaxLock \in Nat
  BY ThreadAssumption DEF Kernel
<1>2. ASSUME NEW t \in Thread  PROVE n.suspend[t] <= MaxSuspend
  <2>1. n.suspend[t] <= c.suspend[t] /\ c.suspend[t] <= MaxSuspend
    BY DEF Bounded
  <2> QED
    BY <1>1, <2>1
<1>3. ASSUME NEW m \in Mutex  PROVE n.lock[m] <= MaxLock
  <2>1. n.lock[m] <= c.lock[m] /\ c.lock[m] <= MaxLock
    BY DEF Bounded
  <2> QED
    BY <1>1, <2>1
<1> QED
  BY <1>2, <1>3 DEF Bounded

LEMMA QuietInv ==
  ASSUME NEW c, NEW r, NEW a, Inv(c, r, a), NEW n, Good(n), Settled(n), Quiet(c, n)
  PROVE  Inv(n, r, a) /\ Tidy(c, n)
<1>1. c \in Kernel /\ n \in Kernel /\ c.disabled = FALSE /\ Bounded(c) /\ InCalls(c, r)
  BY DEF Inv, Good, Sound
<1>2. /\ n.disabled = c.disabled /\ n.mutex = c.mutex /\ NoneBorn(c, n)
      /\ \A t \in Thread : n.suspend[t] <= c.suspend[t]
      /\ \A m \in Mutex : n.owner[m] \in {c.owner[m], None} /\ n.lock[m] <= c.lock[m]
  BY DEF Quiet, NoneBorn
<1>3. InCalls(n, r)
  BY <1>1, <1>2, CallsKept
<1>4. Bounded(n)
  BY <1>1, <1>2, BoundedLess
<1>5. JoinsEnd(c, n)
  BY DEF Quiet
<1> QED
  BY <1>1, <1>2, <1>3, <1>4, <1>5 DEF Inv, Tidy

LEMMA DiesInv ==
  ASSUME NEW c, NEW r, NEW a, Inv(c, r, a), NEW n, Good(n), Settled(n), NEW t \in Thread,
         Dies(c, n, t)
  PROVE  Inv(n, r, a) /\ Tidy(c, n)
<1>1. c \in Kernel /\ n \in Kernel /\ c.disabled = FALSE /\ Bounded(c) /\ InCalls(c, r)
  BY DEF Inv, Good, Sound
<1>2. /\ n.disabled = c.disabled /\ n.mutex = c.mutex
      /\ \A u \in Thread : n.suspend[u] <= c.suspend[u]
      /\ \A m \in Mutex : n.owner[m] \in {c.owner[m], None} /\ n.lock[m] <= c.lock[m]
  BY DEF Dies
<1>3. NoneBorn(c, n)
  BY DEF Dies, NoneBorn
<1>4. InCalls(n, r)
  BY <1>1, <1>2, <1>3, CallsKept
<1>5. Bounded(n)
  BY <1>1, <1>2, BoundedLess
<1>6. JoinsEnd(c, n)
  <2> SUFFICES ASSUME NEW u \in Thread, n.state[u] = "MORIBUND"
               PROVE  \/ Deserted(n, JoinQ(u))
                      \/ /\ ~Deserted(c, JoinQ(u))
                         /\ c.state[u] = "MORIBUND" \/ c.held[u] # <<>>
    BY DEF JoinsEnd
  <2>1. Deserted(c, JoinQ(u)) => Deserted(n, JoinQ(u))
    BY DEF Dies, NoneJoins, Deserted
  <2>2. u # t => c.state[u] = "MORIBUND"
    BY DEF Dies, Alive
  <2>3. c.held[t] = <<>> => Deserted(n, JoinQ(t))
    BY DEF Dies
  <2> QED
    BY <2>1, <2>2, <2>3
<1> QED
  BY <1>1, <1>2, <1>3, <1>4, <1>5, <1>6 DEF Inv, Tidy

LEMMA DelaysInv ==
  ASSUME NEW c, NEW r, NEW a, Inv(c, r, a), NEW n, Good(n), Settled(n), NEW t \in Thread,
         NEW v \in Nat, v <= MaxSuspend, Delays(c, n, t, v)
  PROVE  Inv(n, r, a) /\ Tidy(c, n)
<1>1. c \in Kernel /\ n \in Kernel /\ c.disabled = FALSE /\ Bounded(c) /\ InCalls(c, r)
  BY DEF Inv, Good, Sound
<1>2. /\ n.disabled = c.disabled /\ n.mutex = c.mutex
      /\ \A u \in Thread : n.suspend[u] <= (IF u = t THEN v ELSE c.suspend[u])
      /\ \A m \in Mutex : n.owner[m] \in {c.owner[m], None} /\ n.lock[m] <= c.lock[m]
  BY DEF Delays
<1>3. NoneBorn(c, n)
  BY DEF Delays, NoneBorn
<1>4. InCalls(n, r)
  BY <1>1, <1>2, <1>3, CallsKept
<1>5. Bounded(n)
  <2>1. /\ c.suspend \in [Thread -> Nat] /\ n.suspend \in [Thread -> Nat]
        /\ c.lock \in [Mutex -> Nat] /\ n.lock \in [Mutex -> Nat]
        /\ MaxSuspend \in Nat /\ MaxLock \in Nat
    BY <1>1, ThreadAssumption DEF Kernel
  <2>2. ASSUME NEW u \in Thread  PROVE n.suspend[u] <= MaxSuspend
    BY <1>1, <1>2, <2>1 DEF Bounded
  <2>3. ASSUME NEW m \in Mutex  PROVE n.lock[m] <= MaxLock
    <3>1. n.lock[m] <= c.lock[m] /\ c.lock[m] <= MaxLock
      BY <1>1, <1>2 DEF Bounded
    <3> QED
      BY <2>1, <3>1
  <2> QED
    BY <2>2, <2>3 DEF Bounded
<1>6. JoinsEnd(c, n)
  <2>1. NoneBuried(c, n) /\ NoneJoins(c, n)
    BY DEF Delays, NoneBuried, Alive
  <2> QED
    BY <2>1, NoneLeaves
<1> QED
  BY <1>1, <1>2, <1>3, <1>4, <1>5, <1>6 DEF Inv, Tidy

LEMMA ContinuationNames ==
  /\ User \in Continuations /\ <<"alarm">> \in Continuations
  /\ \A m \in Mutex : <<"lock", m>> \in Continuations /\ <<"lock", m>>[1] = "lock"
  /\ \A t \in Thread : <<"unlockAll", t>> \in Continuations /\ <<"join", t>> \in Continuations
  /\ \A x \in Continuations :
       /\ x[1] = "lock" => x[2] \in Mutex /\ x = <<"lock", x[2]>>
       /\ x[1] = "unlockAll" => x[2] \in Thread /\ x = <<"unlockAll", x[2]>>
       /\ x[1] = "join" => x[2] \in Thread /\ x = <<"join", x[2]>>
BY DEF Continuations, User

LEMMA OtherNames ==
  /\ \A m : User # <<"lock", m>> /\ <<"alarm">> # <<"lock", m>>
  /\ \A m, t : <<"unlockAll", t>> # <<"lock", m>> /\ <<"join", t>> # <<"lock", m>>
  /\ \A u : User # <<"unlockAll", u>> /\ <<"alarm">> # <<"unlockAll", u>>
  /\ \A u, t : <<"lock", t>> # <<"unlockAll", u>> /\ <<"join", t>> # <<"unlockAll", u>>
  /\ \A u, t : <<"unlockAll", t>> = <<"unlockAll", u>> => t = u
  /\ \A u, t : <<"lock", t>> = <<"lock", u>> => t = u
BY DEF User

\* The current thread runs.
LEMMA CurrentRuns ==
  ASSUME IInv, k.current # None
  PROVE  /\ Good(k) /\ Settled(k) /\ Runs(k) /\ Fair(k) /\ k \in Kernel
         /\ k.current \in Thread /\ k.state[k.current] = "RUNNING"
         /\ k.suspend[k.current] = 0 /\ k.state[k.current] \in Alive
         /\ cont \in [Thread -> Continuations] /\ cont[k.current] \in Continuations
         /\ (\A m \in Mutex : cont[k.current] # <<"lock", m>>) => k.mutex[k.current] = None
<1>1. Good(k) /\ Settled(k) /\ k.disabled = FALSE /\ InCalls(k, cont) /\ k \in Kernel /\ Sound(k, {})
  BY DEF IInv, Inv, Good, Sound
<1>2. k.state[k.current] = "RUNNING" /\ Fair(k)
  BY <1>1 DEF Settled, Fair
<1>3. Runs(k)
  BY <1>1, <1>2 DEF Runs
<1>4. k.current \in Thread
  BY <1>1 DEF Kernel
<1>5. k.suspend[k.current] = 0
  BY <1>1, <1>2, <1>4 DEF Sound, Fit, ThreadFits
<1>6. k.state[k.current] \in Alive
  BY <1>2 DEF Alive
<1>7. cont \in [Thread -> Continuations]
  BY <1>1 DEF InCalls
<1>8. cont[k.current] \in Continuations
  BY <1>4, <1>7
<1>9. (\A m \in Mutex : cont[k.current] # <<"lock", m>>) => k.mutex[k.current] = None
  BY <1>1, <1>4, <1>6 DEF InCalls
<1> QED
  BY <1>1, <1>2, <1>3, <1>4, <1>5, <1>6, <1>7, <1>8, <1>9

LEMMA CallingRuns ==
  ASSUME IInv, NEW call, Calling(call)
  PROVE  k.current # None /\ cont[k.current] = User /\ k.mutex[k.current] = None
<1>1. k.current # None /\ cont[k.current] = User
  BY DEF Calling
<1> QED
  BY <1>1, OtherNames, CurrentRuns

LEMMA TidyNothing ==
  ASSUME NEW c
  PROVE  Tidy(c, c)
BY NoneLeaves DEF Tidy, NoneBorn, NoneBuried, NoneJoins

\* What every step keeps.
Step == Inv(k', cont', alarms') /\ Tidy(k, k')

\* A call that ends, of those that let nobody be born or die.
LEMMA QuietStep ==
  ASSUME IInv, Good(k'), Settled(k'), Quiet(k, k'), UNCHANGED <<cont, alarms>>
  PROVE  Step
<1>1. Inv(k', cont, alarms) /\ Tidy(k, k')
  BY QuietInv DEF IInv
<1> QED
  BY <1>1 DEF Step

LEMMA YieldStep ==
  ASSUME IInv, YieldThread
  PROVE  Step
<1>1. k' = SelectThread(k, TRUE) /\ UNCHANGED <<cont, alarms>> /\ k.current # None
  BY CallingRuns DEF YieldThread, Returns
<1>2. Good(k') /\ Settled(k') /\ Outlives(k, k')
  BY <1>1, CurrentRuns, YieldGood
<1> QED
  BY <1>1, <1>2, OutlivesQuiet, QuietStep

LEMMA ResumeStep ==
  ASSUME IInv, NEW t \in Thread, ResumeThread(t)
  PROVE  Step
<1>1. k' = Resume(k, t) /\ UNCHANGED <<cont, alarms>> /\ k.current # None
  BY CallingRuns DEF ResumeThread, Returns
<1>2. Good(k') /\ Settled(k') /\ Outlives(k, k')
  BY <1>1, CurrentRuns, ResumeGood
<1> QED
  BY <1>1, <1>2, OutlivesQuiet, QuietStep

LEMMA SuspendStep ==
  ASSUME IInv, NEW t \in Thread, SuspendThread(t)
  PROVE  Step
<1>1. k' = Suspend(k, t) /\ UNCHANGED <<cont, alarms>> /\ k.current # None
      /\ k.suspend[t] < MaxSuspend
  BY CallingRuns DEF SuspendThread, Returns
<1>2. Good(k') /\ Settled(k') /\ Delays(k, k', t, k.suspend[t] + 1) /\ k \in Kernel
  BY <1>1, CurrentRuns, SuspendGood
<1>3. k.suspend[t] + 1 \in Nat /\ k.suspend[t] + 1 <= MaxSuspend
  BY <1>1, <1>2, ThreadAssumption DEF Kernel
<1>4. Inv(k', cont, alarms) /\ Tidy(k, k')
  BY <1>2, <1>3, DelaysInv DEF IInv
<1> QED
  BY <1>1, <1>4 DEF Step

LEMMA SetPriorityStep ==
  ASSUME IInv, NEW t \in Thread, NEW p \in Bases, SetThreadPriority(t, p)
  PROVE  Step
<1>1. k' = Reschedule(UpdatePriority(Rebased(k, t, p), t)) /\ UNCHANGED <<cont, alarms>>
      /\ k.current # None
  BY CallingRuns DEF SetThreadPriority, Returns, Rebased
<1>2. p \in Priority
  BY ThreadAssumption
<1>3. Good(k') /\ Settled(k') /\ Outlives(k, k')
  BY <1>1, <1>2, CurrentRuns, SetPriorityGood
<1> QED
  BY <1>1, <1>3, OutlivesQuiet, QuietStep

LEMMA SleepStep ==
  ASSUME IInv, NEW w \in WaitQueue, SleepThread(w)
  PROVE  Step
<1>1. k' = Sleep(k, WaitQ(w)) /\ UNCHANGED <<cont, alarms>> /\ k.current # None
      /\ k.mutex[k.current] = None
  BY CallingRuns DEF SleepThread, Returns
<1>2. Good(k') /\ Settled(k') /\ Spares(k, k') /\ Joins(k, k', WaitQ(w))
  BY <1>1, CurrentRuns, DriverQueue, QueueSleepGood
<1>3. \A x \in Thread : WaitQ(w) # JoinQ(x)
  BY DEF WaitQ, JoinQ
<1>4. Outlives(k, k')
  <2> DEFINE n == k'
  <2>1. Spares(k, n) /\ Joins(k, n, WaitQ(w))
    BY <1>2
  <2> HIDE DEF n
  <2>2. Outlives(k, n)
    BY <1>3, <2>1, JoinsNone
  <2> QED
    BY <2>2 DEF n
<1> QED
  BY <1>1, <1>2, <1>4, OutlivesQuiet, QuietStep

LEMMA WakeupStep ==
  ASSUME IInv, NEW w \in WaitQueue, WakeupThread(w)
  PROVE  Step
<1>1. k' = Wakeup(k, WaitQ(w)) /\ UNCHANGED <<cont, alarms>> /\ k.current # None
  BY CallingRuns DEF WakeupThread, Returns
<1>2. Good(k') /\ Settled(k') /\ Outlives(k, k')
  BY <1>1, CurrentRuns, DriverQueue, WakeCallGood
<1> QED
  BY <1>1, <1>2, OutlivesQuiet, QuietStep

LEMMA DetachStep ==
  ASSUME IInv, NEW t \in Thread, DetachThread(t)
  PROVE  Step
<1>1. k' = Wakeup(Reap(Detached(k, t), t), JoinQ(t)) /\ UNCHANGED <<cont, alarms>>
      /\ k.current # None
  BY CallingRuns DEF DetachThread, Returns, Detached
<1>2. Good(k') /\ Settled(k') /\ Quiet(k, k')
  BY <1>1, CurrentRuns, DetachGood
<1> QED
  BY <1>1, <1>2, QuietStep

LEMMA UnlockStep ==
  ASSUME IInv, NEW m \in Mutex, UnlockMutex(m)
  PROVE  Step
<1>1. k' = Unlock(k, m) /\ UNCHANGED <<cont, alarms>> /\ k.current # None
  BY CallingRuns DEF UnlockMutex, Returns
<1>2. Good(k') /\ Settled(k') /\ Outlives(k, k')
  BY <1>1, CurrentRuns, UnlockGood
<1> QED
  BY <1>1, <1>2, OutlivesQuiet, QuietStep

\* The current thread goes on at x, which is no lock.
LEMMA GoesOn ==
  ASSUME NEW c, NEW r, NEW a, Inv(c, r, a), NEW t \in Thread,
         c.state[t] \in Alive => c.mutex[t] = None,
         NEW x \in Continuations, \A m \in Mutex : x # <<"lock", m>>,
         \A u \in Thread : c.state[t] \in Alive /\ x = <<"unlockAll", u>> => c.state[u] \notin Alive,
         NEW s, s = [r EXCEPT ![t] = x]
  PROVE  Inv(c, s, a)
BY CallsChange

LEMMA SleepTicksStep ==
  ASSUME IInv, SleepTicks
  PROVE  Step
<1>1. /\ k' = Suspend(k, k.current) /\ cont' = [cont EXCEPT ![k.current] = <<"alarm">>]
      /\ alarms' = alarms \cup {k.current}
      /\ k.current # None /\ k.mutex[k.current] = None
  BY CallingRuns DEF SleepTicks
<1>2. Good(k') /\ Settled(k') /\ Delays(k, k', k.current, k.suspend[k.current] + 1)
      /\ k.current \in Thread /\ k.suspend[k.current] = 0
  BY <1>1, CurrentRuns, SuspendGood
<1>3. 1 \in Nat /\ 1 <= MaxSuspend /\ k.suspend[k.current] + 1 = 1
  BY <1>2, ThreadAssumption
<1>4. Inv(k', cont, alarms) /\ Tidy(k, k')
  BY <1>2, <1>3, DelaysInv DEF IInv
<1>5. k'.mutex[k.current] = None
  BY <1>1, <1>2 DEF Delays
<1>6. Inv(k', cont', alarms)
  BY <1>1, <1>2, <1>4, <1>5, ContinuationNames, OtherNames, GoesOn
<1>7. alarms' \in SUBSET Thread
  BY <1>1, <1>2 DEF IInv, Inv
<1>8. Inv(k', cont', alarms')
  BY <1>6, <1>7 DEF Inv
<1> QED
  BY <1>4, <1>8 DEF Step

\* Only CreateThread brings a thread to life.
LEMMA CreateStep ==
  ASSUME IInv, NEW t \in Thread, NEW p \in Bases, NEW d \in BOOLEAN, CreateThread(t, p, d)
  PROVE  /\ Inv(k', cont', alarms') /\ JoinsEnd(k, k')
         /\ k.state[t] \in {"none", "EXITED"} /\ Born(k, k', t)
<1>1. /\ k' = Created(k, t, p, d) /\ cont' = [cont EXCEPT ![t] = User] /\ alarms' = alarms
      /\ k.current # None /\ k.state[t] \in {"none", "EXITED"}
      /\ \A u \in Thread : k.state[u] \in Alive => cont[u] # <<"unlockAll", t>>
  BY CallingRuns DEF CreateThread, Created
<1>2. k.state[t] \notin Alive /\ p \in Priority
  BY <1>1, ThreadAssumption DEF Alive
<1>3. Good(k') /\ Settled(k') /\ Born(k, k', t)
  BY <1>1, <1>2, CurrentRuns, CreateGood
<1>4. /\ k'.state[t] = "READY" /\ k'.suspend[t] = 1 /\ k'.mutex[t] = None
      /\ \A u \in Thread \ {t} :
           /\ k'.state[u] = k.state[u] /\ k'.suspend[u] = k.suspend[u]
           /\ k'.mutex[u] = k.mutex[u]
      /\ k'.owner = k.owner /\ k'.lock = k.lock /\ k'.disabled = k.disabled
  BY <1>3 DEF Born
<1>5. Bounded(k) /\ InCalls(k, cont) /\ k.disabled = FALSE /\ alarms \in SUBSET Thread
  BY DEF IInv, Inv
<1>6. Bounded(k')
  <2>1. 1 <= MaxSuspend
    BY ThreadAssumption
  <2> QED
    BY <1>4, <1>5, <2>1 DEF Bounded
<1>7. cont \in [Thread -> Continuations]
  BY <1>5 DEF InCalls
<1>8. /\ cont' \in [Thread -> Continuations]
      /\ cont'[t] = User /\ \A u \in Thread \ {t} : cont'[u] = cont[u]
  BY <1>1, <1>7, ContinuationNames
<1>9. ASSUME NEW u \in Thread, k'.state[u] \in Alive, k'.mutex[u] # None
      PROVE  \E m \in Mutex : cont'[u] = <<"lock", m>>
  <2>1. u # t
    BY <1>4, <1>9
  <2>2. k.state[u] \in Alive /\ k.mutex[u] # None /\ cont'[u] = cont[u]
    BY <1>4, <1>8, <1>9, <2>1
  <2> QED
    BY <1>5, <2>2 DEF InCalls
<1>10. ASSUME NEW u \in Thread, NEW m \in Mutex, cont'[u] = <<"lock", m>>
       PROVE  k'.owner[m] # u
  <2>1. u # t
    BY <1>8, <1>10, OtherNames
  <2> QED
    BY <1>4, <1>5, <1>8, <1>10, <2>1 DEF InCalls
<1>11. ASSUME NEW u \in Thread, NEW v \in Thread, k'.state[u] \in Alive,
              cont'[u] = <<"unlockAll", v>>
       PROVE  k'.state[v] \notin Alive
  <2>1. u # t
    BY <1>8, <1>11, OtherNames
  <2>2. k.state[u] \in Alive /\ cont[u] = <<"unlockAll", v>>
    BY <1>4, <1>8, <1>11, <2>1
  <2>3. k.state[v] \notin Alive
    BY <1>5, <2>2 DEF InCalls
  <2>4. v # t
    BY <1>1, <2>2
  <2> QED
    BY <1>4, <2>3, <2>4
<1>12. InCalls(k', cont')
  BY <1>8, <1>9, <1>10, <1>11 DEF InCalls
<1>13. k'.disabled = FALSE /\ alarms' \in SUBSET Thread
  BY <1>1, <1>4, <1>5
<1>14. Inv(k', cont', alarms')
  BY <1>3, <1>6, <1>12, <1>13 DEF Inv
<1>15. JoinsEnd(k, k')
  <2> DEFINE n == k'
  <2>1. /\ n.state[t] = "READY" /\ n.queue = k.queue
        /\ \A u \in Thread \ {t} : n.state[u] = k.state[u]
    BY <1>3 DEF Born
  <2> HIDE DEF n
  <2>2. NoneBuried(k, n) /\ NoneJoins(k, n)
    BY <2>1 DEF NoneBuried, NoneJoins
  <2>3. JoinsEnd(k, n)
    BY <2>2, NoneLeaves
  <2> QED
    BY <2>3 DEF n
<1> QED
  BY <1>1, <1>3, <1>14, <1>15

-----------------------------------------------------------------------------
(* Steps of the mutexes *)

\* c is k but for the mutex that t has in mind.
MindsOther(c, t) ==
  /\ \A u \in Thread \ {t} : c.mutex[u] = k.mutex[u]
  /\ c.state = k.state /\ c.suspend = k.suspend /\ c.owner = k.owner /\ c.lock = k.lock
  /\ c.disabled = k.disabled /\ c.queue = k.queue

\* Locking, from such a state on.
LEMMA LockLeaves ==
  ASSUME NEW r, NEW a, Inv(k, r, a), NEW t, t = k.current, k.current # None,
         NEW m \in Mutex, NEW c, MindsOther(c, t),
         k.owner[m] = t => k.lock[m] < MaxLock,
         NEW n, Good(n), Settled(n), LockEnds(c, n, t, m),
         NEW s, s = [r EXCEPT ![t] = IF n.owner[m] = t THEN User ELSE <<"lock", m>>]
  PROVE  Inv(n, s, a) /\ Tidy(k, n)
<1>1. /\ Good(k) /\ Settled(k) /\ k.disabled = FALSE /\ Bounded(k) /\ InCalls(k, r)
      /\ a \in SUBSET Thread /\ k \in Kernel
  BY DEF Inv, Good, Sound
<1>2. t \in Thread /\ k.state[t] = "RUNNING"
  BY <1>1 DEF Settled, Kernel
<1>5. /\ n.disabled = FALSE
      /\ \A u \in Thread :
           /\ n.suspend[u] <= k.suspend[u]
           /\ n.state[u] \in Alive <=> k.state[u] \in Alive
           /\ u # t => n.mutex[u] = k.mutex[u]
      /\ \A x \in Mutex \ {m} : n.owner[x] \in {k.owner[x], None} /\ n.lock[x] <= k.lock[x]
      /\ IF k.owner[m] \in {None, t}
           THEN n.owner[m] = t /\ n.mutex[t] = None /\ n.lock[m] = k.lock[m] + 1
           ELSE n.owner[m] \in {k.owner[m], None} /\ n.lock[m] <= k.lock[m]
  BY <1>1 DEF LockEnds, MindsOther
<1>6. Tidy(k, n)
  <2>1. NoneBorn(k, n)
    BY <1>5 DEF NoneBorn
  <2>2. NoneBuried(k, n)
    BY DEF LockEnds, MindsOther, NoneBuried, Alive
  <2>3. NoneJoins(k, n)
    BY DEF LockEnds, MindsOther, NoneJoins
  <2> QED
    BY <2>1, <2>2, <2>3, NoneLeaves DEF Tidy
<1>7. n \in Kernel
  BY DEF Good, Sound
<1>8. Bounded(n)
  <2>1. /\ k.suspend \in [Thread -> Nat] /\ n.suspend \in [Thread -> Nat]
        /\ k.lock \in [Mutex -> Nat] /\ n.lock \in [Mutex -> Nat]
        /\ MaxSuspend \in Nat /\ MaxLock \in Nat \ {0}
    BY <1>1, <1>7, ThreadAssumption DEF Kernel
  <2>2. ASSUME NEW u \in Thread  PROVE n.suspend[u] <= MaxSuspend
    <3>1. n.suspend[u] <= k.suspend[u] /\ k.suspend[u] <= MaxSuspend
      BY <1>1, <1>5 DEF Bounded
    <3> QED
      BY <2>1, <3>1
  <2>3. ASSUME NEW x \in Mutex  PROVE n.lock[x] <= MaxLock
    <3>1. k.lock[x] \in Nat /\ n.lock[x] \in Nat /\ k.lock[x] <= MaxLock
      BY <1>1, <2>1 DEF Bounded
    <3>2. CASE n.lock[x] <= k.lock[x]
      BY <2>1, <3>1, <3>2
    <3>3. CASE x = m /\ k.owner[m] \in {None, t} /\ n.lock[m] = k.lock[m] + 1
      <4>1. k.owner[m] = None => k.lock[m] = 0
        BY <1>1 DEF Good, Locks
      <4>2. k.lock[m] < MaxLock
        BY <2>1, <3>3, <4>1
      <4> QED
        BY <2>1, <3>1, <3>3, <4>2
    <3> QED
      BY <1>5, <3>2, <3>3
  <2> QED
    BY <2>2, <2>3 DEF Bounded
<1>9. r \in [Thread -> Continuations]
  BY <1>1 DEF InCalls
<1>10. /\ s \in [Thread -> Continuations]
       /\ s[t] = (IF n.owner[m] = t THEN User ELSE <<"lock", m>>)
       /\ \A u \in Thread \ {t} : s[u] = r[u]
  BY <1>2, <1>9, ContinuationNames
<1>11. ASSUME NEW u \in Thread, n.state[u] \in Alive, n.mutex[u] # None
       PROVE  \E x \in Mutex : s[u] = <<"lock", x>>
  <2>1. CASE u = t
    <3>1. k.owner[m] \notin {None, t}
      BY <1>5, <1>11, <2>1
    <3>2. n.owner[m] # t
      BY <1>2, <1>5, <3>1, ThreadAssumption
    <3> QED
      BY <1>10, <2>1, <3>2
  <2>2. CASE u # t
    <3>1. k.state[u] \in Alive /\ k.mutex[u] # None
      BY <1>5, <1>11, <2>2
    <3> QED
      BY <1>1, <1>10, <2>2, <3>1 DEF InCalls
  <2> QED
    BY <2>1, <2>2
<1>12. ASSUME NEW u \in Thread, NEW x \in Mutex, s[u] = <<"lock", x>>
       PROVE  n.owner[x] # u
  <2>1. CASE u = t
    <3>1. n.owner[m] # t /\ x = m
      BY <1>10, <1>12, <2>1, OtherNames
    <3> QED
      BY <2>1, <3>1
  <2>2. CASE u # t
    <3>1. r[u] = <<"lock", x>>
      BY <1>10, <1>12, <2>2
    <3>2. k.owner[x] # u
      BY <1>1, <3>1 DEF InCalls
    <3>3. n.owner[x] \in {k.owner[x], None, t}
      BY <1>5
    <3> QED
      BY <2>2, <3>2, <3>3, ThreadAssumption
  <2> QED
    BY <2>1, <2>2
<1>13. ASSUME NEW u \in Thread, NEW v \in Thread, n.state[u] \in Alive,
              s[u] = <<"unlockAll", v>>
       PROVE  n.state[v] \notin Alive
  <2>1. u # t
    BY <1>10, <1>13, OtherNames
  <2>2. r[u] = <<"unlockAll", v>> /\ k.state[u] \in Alive
    BY <1>5, <1>10, <1>13, <2>1
  <2>3. k.state[v] \notin Alive
    BY <1>1, <2>2 DEF InCalls
  <2> QED
    BY <1>5, <2>3
<1>14. InCalls(n, s)
  BY <1>10, <1>11, <1>12, <1>13 DEF InCalls
<1> QED
  BY <1>1, <1>5, <1>6, <1>8, <1>14 DEF Inv

LEMMA LockStep ==
  ASSUME IInv, NEW m \in Mutex, LockMutex(m)
  PROVE  Step
<1> DEFINE t == k.current
<1>1. /\ k' = LockTurn(k, m) /\ alarms' = alarms /\ t # None /\ k.mutex[t] = None
      /\ k.owner[m] = t => k.lock[m] < MaxLock
      /\ cont' = [cont EXCEPT ![t] = IF k'.owner[m] = t THEN User ELSE <<"lock", m>>]
  BY CallingRuns DEF LockMutex, Leaves, MayNest
<1>2. Good(k') /\ Settled(k') /\ LockEnds(k, k', t, m)
  BY <1>1, CurrentRuns, LockTurnGood
<1>3. Inv(k, cont, alarms)
  BY DEF IInv
<1> DEFINE n == k'
           s == cont'
<1>4. Inv(n, s, alarms) /\ Tidy(k, n)
  <2>1. s = [cont EXCEPT ![t] = IF n.owner[m] = t THEN User ELSE <<"lock", m>>]
    BY <1>1
  <2>2. Good(n) /\ Settled(n) /\ LockEnds(k, n, t, m) /\ t # None
    BY <1>1, <1>2
  <2> HIDE DEF n, s
  <2> QED
    BY <1>1, <1>3, <2>1, <2>2, LockLeaves DEF MindsOther
<1> QED
  BY <1>1, <1>4 DEF Step

\* A thread that was woken tries again.
LEMMA ContinueLockStep ==
  ASSUME IInv, ContinueLock
  PROVE  Step
<1> DEFINE t == k.current
           m == cont[t][2]
           c == Minds(k, t, None)
<1>1. /\ k' = LockTurn(c, m) /\ alarms' = alarms /\ t # None /\ cont[t][1] = "lock"
      /\ cont' = [cont EXCEPT ![t] = IF k'.owner[m] = t THEN User ELSE <<"lock", m>>]
  BY DEF ContinueLock, Resuming, Leaves, Minds
<1>2. /\ Good(k) /\ Settled(k) /\ Runs(k) /\ k \in Kernel /\ t \in Thread
      /\ k.state[t] = "RUNNING" /\ cont[t] \in Continuations
  BY <1>1, CurrentRuns
<1>3. m \in Mutex /\ cont[t] = <<"lock", m>>
  BY <1>1, <1>2, ContinuationNames
<1>4. k.owner[m] # t
  BY <1>2, <1>3 DEF IInv, Inv, InCalls
<1>5. /\ Good(c) /\ SameButMutex(k, c)
      /\ c.mutex[t] = None /\ \A u \in Thread \ {t} : c.mutex[u] = k.mutex[u]
  BY <1>2, MindsGood
<1> HIDE DEF c, m
<1>6. /\ c.state = k.state /\ c.priority = k.priority /\ c.suspend = k.suspend
      /\ c.owner = k.owner /\ c.lock = k.lock /\ c.current = k.current
      /\ c.disabled = k.disabled /\ c.bits = k.bits /\ c.queue = k.queue
  BY <1>5 DEF SameButMutex
<1>7. Settled(c) /\ Runs(c)
  BY <1>2, <1>6 DEF Settled, Runs, Ready
<1>8. Good(k') /\ Settled(k') /\ LockEnds(c, k', t, m)
  BY <1>1, <1>3, <1>5, <1>6, <1>7, LockTurnGood
<1>9. Inv(k, cont, alarms)
  BY DEF IInv
<1> DEFINE n == k'
           s == cont'
<1>10. Inv(n, s, alarms) /\ Tidy(k, n)
  <2>1. s = [cont EXCEPT ![t] = IF n.owner[m] = t THEN User ELSE <<"lock", m>>]
    BY <1>1
  <2>2. Good(n) /\ Settled(n) /\ LockEnds(c, n, t, m)
    BY <1>8
  <2>3. k.owner[m] = t => k.lock[m] < MaxLock
    BY <1>4
  <2>4. MindsOther(c, t)
    BY <1>5, <1>6 DEF MindsOther
  <2> HIDE DEF n, s
  <2> QED
    BY <1>1, <1>3, <1>9, <2>1, <2>2, <2>3, <2>4, LockLeaves
<1> QED
  BY <1>1, <1>10 DEF Step

LEMMA TryLockStep ==
  ASSUME IInv, NEW m \in Mutex, TryLockMutex(m)
  PROVE  Step
<1> DEFINE t == k.current
<1>1. /\ k' = (IF k.owner[m] = None THEN Acquire(k, t, m)
               ELSE IF k.owner[m] = t THEN LockMore(k, m) ELSE k)
      /\ UNCHANGED <<cont, alarms>> /\ t # None /\ k.mutex[t] = None /\ cont[t] = User
      /\ k.owner[m] = t => k.lock[m] < MaxLock
  BY CallingRuns DEF TryLockMutex, Returns, MayNest, LockMore
<1>2. Good(k) /\ Settled(k) /\ Runs(k) /\ k \in Kernel /\ t \in Thread
      /\ cont \in [Thread -> Continuations]
  BY <1>1, CurrentRuns
<1>3. Inv(k, cont, alarms)
  BY DEF IInv
<1>4. CASE k.owner[m] \notin {None, t}
  <2>1. k' = k
    BY <1>1, <1>4
  <2> QED
    BY <1>1, <1>3, <2>1, TidyNothing DEF Step
<1>5. CASE k.owner[m] \in {None, t}
  <2> DEFINE n == IF k.owner[m] = None THEN Acquire(k, t, m) ELSE LockMore(k, m)
  <2>1. k' = n
    BY <1>1, <1>5
  <2>2. Good(n) /\ Settled(n) /\ LockEnds(k, n, t, m)
    BY <1>1, <1>2, <1>5, TakeMutexGood
  <2> HIDE DEF n
  <2>3. n.owner[m] = t
    BY <1>5, <2>2 DEF LockEnds
  <2>4. cont = [cont EXCEPT ![t] = User]
    BY <1>1, <1>2
  <2>5. cont = [cont EXCEPT ![t] = IF n.owner[m] = t THEN User ELSE <<"lock", m>>]
    BY <2>3, <2>4
  <2>6. Inv(n, cont, alarms) /\ Tidy(k, n)
    BY <1>1, <1>3, <2>2, <2>5, LockLeaves DEF MindsOther
  <2> QED
    BY <1>1, <2>1, <2>6 DEF Step
<1> QED
  BY <1>4, <1>5

-----------------------------------------------------------------------------
(* Steps that end, join and interrupt threads *)

\* The caller goes on with the end of the dead thread t, or is done with it.
LEMMA EndStep ==
  ASSUME IInv, k.current # None, k.mutex[k.current] = None, NEW t \in Thread,
         Inv(k', cont, alarms), Tidy(k, k'), k'.state[t] \notin Alive,
         k'.mutex = k.mutex, alarms' = alarms,
         NEW x \in {User, <<"unlockAll", t>>}, cont' = [cont EXCEPT ![k.current] = x]
  PROVE  Step
<1>1. k.current \in Thread
  BY CurrentRuns
<1>2. x \in Continuations /\ \A m \in Mutex : x # <<"lock", m>>
  BY ContinuationNames, OtherNames
<1>3. \A u \in Thread : x = <<"unlockAll", u>> => u = t
  BY OtherNames
<1>4. \A u \in Thread : x = <<"unlockAll", u>> => k'.state[u] \notin Alive
  BY <1>3
<1>5. k'.mutex[k.current] = None
  OBVIOUS
<1> DEFINE n == k'
           s == cont'
           c == k.current
<1>6. s = [cont EXCEPT ![c] = x] /\ n.mutex[c] = None /\ c \in Thread
  BY <1>1, <1>5
<1>7. Inv(n, cont, alarms) /\ \A u \in Thread : x = <<"unlockAll", u>> => n.state[u] \notin Alive
  BY <1>4
<1>8. Inv(n, s, alarms)
  <2> HIDE DEF n, s, c
  <2> QED
    BY <1>2, <1>6, <1>7, GoesOn
<1> QED
  BY <1>8 DEF Step

LEMMA EndLeavesAt ==
  ASSUME NEW j, NEW t, EndLeaves(j, t)
  PROVE  /\ alarms' = alarms
         /\ \E x \in {User, <<"unlockAll", t>>} : cont' = [cont EXCEPT ![k.current] = x]
BY DEF EndLeaves, Leaves

LEMMA ExitStep ==
  ASSUME IInv, ExitThread
  PROVE  Step
<1> DEFINE t == k.current
<1>1. /\ k' = EndTurn(Bury(k, t), t, t) /\ EndLeaves(Bury(k, t), t)
      /\ t # None /\ k.mutex[t] = None
  BY CallingRuns DEF ExitThread
<1>2. t \in Thread /\ Good(k) /\ Fair(k) /\ Runs(k)
  BY <1>1, CurrentRuns
<1>3. Good(k') /\ Settled(k') /\ Dies(k, k', t)
  BY <1>1, <1>2, ExitGood
<1>4. Inv(k', cont, alarms) /\ Tidy(k, k')
  BY <1>2, <1>3, DiesInv DEF IInv
<1>5. k'.state[t] \notin Alive /\ k'.mutex = k.mutex
  BY <1>3 DEF Dies
<1>6. PICK x \in {User, <<"unlockAll", t>>} : cont' = [cont EXCEPT ![t] = x]
  BY <1>1, EndLeavesAt
<1> QED
  BY <1>1, <1>2, <1>4, <1>5, <1>6, EndLeavesAt, EndStep

LEMMA CancelStep ==
  ASSUME IInv, NEW t \in Thread, CancelThread(t)
  PROVE  Step
<1> DEFINE gone == Bury(Unqueue(k, t), t)
<1>1. /\ k' = EndTurn(gone, k.current, t) /\ EndLeaves(gone, t)
      /\ k.current # None /\ k.mutex[k.current] = None
      /\ k.state[t] \in Alive
      /\ k.suspend[t] > 0 \/ WaitsInNoCircle(t)
  BY CallingRuns DEF CancelThread
<1>2. Good(k) /\ Fair(k) /\ Runs(k)
  BY <1>1, CurrentRuns
<1>3. WaitsInNoCircle(t) <=> InNoCircle(k, t)
  BY Zenon DEF WaitsInNoCircle, InNoCircle
<1>4. Good(k') /\ Settled(k') /\ Dies(k, k', t)
  <2>1. k.suspend[t] > 0 \/ InNoCircle(k, t)
    BY <1>1, <1>3, Zenon
  <2> QED
    BY <1>1, <1>2, <2>1, CancelGood
<1>5. Inv(k', cont, alarms) /\ Tidy(k, k')
  BY <1>4, DiesInv DEF IInv
<1>6. k'.state[t] \notin Alive /\ k'.mutex = k.mutex
  BY <1>4 DEF Dies
<1> HIDE DEF gone
<1>7. PICK x \in {User, <<"unlockAll", t>>} : cont' = [cont EXCEPT ![k.current] = x]
  BY <1>1, EndLeavesAt
<1> QED
  BY <1>1, <1>5, <1>6, <1>7, EndLeavesAt, EndStep

LEMMA ContinueUnlockAllStep ==
  ASSUME IInv, ContinueUnlockAll
  PROVE  Step
<1> DEFINE c == k.current
           t == cont[c][2]
<1>1. /\ k' = EndTurn(k, c, t) /\ EndLeaves(k, t) /\ c # None /\ cont[c][1] = "unlockAll"
  BY DEF ContinueUnlockAll, Resuming
<1>2. /\ Good(k) /\ Fair(k) /\ Runs(k) /\ c \in Thread /\ k.state[c] = "RUNNING"
      /\ k.state[c] \in Alive /\ cont[c] \in Continuations
      /\ (\A m \in Mutex : cont[c] # <<"lock", m>>) => k.mutex[c] = None
  BY <1>1, CurrentRuns
<1>3. t \in Thread /\ cont[c] = <<"unlockAll", t>>
  BY <1>1, <1>2, ContinuationNames
<1> HIDE DEF t
<1>4. k.mutex[c] = None
  BY <1>2, <1>3, OtherNames
<1>5. k.state[t] \notin Alive
  BY <1>2, <1>3 DEF IInv, Inv, InCalls
<1>6. Good(k') /\ Outlives(k, k') /\ Settled(k')
  BY <1>1, <1>2, <1>3, <1>5, EndTurnGood DEF Runs
<1>7. Inv(k', cont, alarms) /\ Tidy(k, k')
  BY <1>6, OutlivesQuiet, QuietInv DEF IInv
<1>8. k'.state[t] \notin Alive /\ k'.mutex = k.mutex
  BY <1>3, <1>5, <1>6 DEF Outlives, Spares
<1>9. PICK x \in {User, <<"unlockAll", t>>} : cont' = [cont EXCEPT ![c] = x]
  BY <1>1, EndLeavesAt
<1> QED
  BY <1>1, <1>3, <1>4, <1>7, <1>8, <1>9, EndLeavesAt, EndStep

\* The caller goes on at x, which is neither a lock nor the end of a thread.
LEMMA QuietGoesOn ==
  ASSUME IInv, k.current # None, k.mutex[k.current] = None, Good(k'), Settled(k'),
         Quiet(k, k'), alarms' \in SUBSET Thread,
         NEW x \in Continuations,
         \A m \in Mutex : x # <<"lock", m>>, \A u \in Thread : x # <<"unlockAll", u>>,
         cont' = [cont EXCEPT ![k.current] = x]
  PROVE  Step
<1>1. k.current \in Thread
  BY CurrentRuns
<1>2. Inv(k', cont, alarms) /\ Tidy(k, k')
  BY QuietInv DEF IInv
<1>3. k'.mutex[k.current] = None
  BY DEF Quiet
<1> DEFINE n == k'
           s == cont'
           c == k.current
<1>4. s = [cont EXCEPT ![c] = x] /\ n.mutex[c] = None /\ c \in Thread /\ Inv(n, cont, alarms)
  BY <1>1, <1>2, <1>3
<1>5. Inv(n, s, alarms)
  <2> HIDE DEF n, s, c
  <2> QED
    BY <1>4, GoesOn
<1>6. Inv(k', cont', alarms')
  BY <1>5 DEF Inv
<1> QED
  BY <1>2, <1>6 DEF Step

\* Who sleeps to join a thread that does not wait to be joined leaves nobody
\* behind.
LEMMA JoinsQuiet ==
  ASSUME NEW c, NEW n, NEW t \in Thread, c.state[t] # "MORIBUND",
         Spares(c, n), Joins(c, n, JoinQ(t))
  PROVE  Quiet(c, n)
<1>1. NoneBuried(c, n)
  BY SparesNone
<1>2. \A x \in Thread : JoinQ(t) = JoinQ(x) => x = t
  BY DEF JoinQ
<1>3. ASSUME NEW x \in Thread, n.state[x] = "MORIBUND", Deserted(c, JoinQ(x))
      PROVE  Deserted(n, JoinQ(x))
  <2>1. x # t
    BY <1>1, <1>3 DEF NoneBuried
  <2> QED
    BY <1>2, <1>3, <2>1 DEF Joins, Deserted
<1>4. JoinsEnd(c, n)
  BY <1>1, <1>3 DEF JoinsEnd, NoneBuried
<1> QED
  BY <1>4 DEF Spares, Quiet

LEMMA JoinStep ==
  ASSUME IInv, NEW t \in Thread, JoinThread(t)
  PROVE  Step
<1>1. k.current # None /\ k.mutex[k.current] = None
  BY CallingRuns DEF JoinThread
<1>2. alarms \in SUBSET Thread
  BY DEF IInv, Inv
<1>3. Good(k) /\ Settled(k) /\ Runs(k)
  BY <1>1, CurrentRuns
<1>4. CASE /\ k' = Sleep(k, JoinQ(t)) /\ alarms' = alarms /\ k.state[t] # "MORIBUND"
           /\ cont' = [cont EXCEPT ![k.current] = <<"join", t>>]
  <2>1. Good(k') /\ Settled(k') /\ Spares(k, k') /\ Joins(k, k', JoinQ(t))
    BY <1>1, <1>3, <1>4, JoinQueue, QueueSleepGood
  <2> DEFINE n == k'
  <2>2. Quiet(k, k')
    <3>1. Spares(k, n) /\ Joins(k, n, JoinQ(t))
      BY <2>1
    <3> HIDE DEF n
    <3>2. Quiet(k, n)
      BY <1>4, <3>1, JoinsQuiet
    <3> QED
      BY <3>2 DEF n
  <2> QED
    BY <1>1, <1>2, <1>4, <2>1, <2>2, ContinuationNames, OtherNames, QuietGoesOn
<1>5. CASE k' = Reap(k, t) /\ UNCHANGED <<cont, alarms>>
  BY <1>3, <1>5, ReapGood, QuietStep
<1> QED
  BY <1>4, <1>5 DEF JoinThread, Leaves, Returns

LEMMA ContinueJoinStep ==
  ASSUME IInv, ContinueJoin
  PROVE  Step
<1> DEFINE c == k.current
           t == cont[c][2]
<1>1. /\ k' = (IF t \in k.active /\ k.state[t] # "EXITED" THEN Reap(k, t) ELSE k)
      /\ cont' = [cont EXCEPT ![c] = User] /\ alarms' = alarms
      /\ c # None /\ cont[c][1] = "join"
  BY DEF ContinueJoin, Resuming, Leaves
<1>2. /\ Good(k) /\ Settled(k) /\ k \in Kernel /\ cont[c] \in Continuations
      /\ (\A m \in Mutex : cont[c] # <<"lock", m>>) => k.mutex[c] = None
  BY <1>1, CurrentRuns
<1>3. t \in Thread /\ cont[c] = <<"join", t>>
  BY <1>1, <1>2, ContinuationNames
<1> HIDE DEF t
<1>4. k.mutex[c] = None
  BY <1>2, <1>3, OtherNames
<1>5. Good(k') /\ Settled(k') /\ Quiet(k, k')
  <2>1. CASE k' = Reap(k, t)
    BY <1>2, <1>3, <2>1, ReapGood
  <2>2. CASE k' = k
    <3>1. Outlives(k, k)
      BY <1>2, KeptNothing, KeptOutlives
    <3> QED
      BY <1>2, <2>2, <3>1, OutlivesQuiet
  <2> QED
    BY <1>1, <2>1, <2>2
<1>6. alarms' \in SUBSET Thread
  BY <1>1 DEF IInv, Inv
<1> QED
  BY <1>1, <1>4, <1>5, <1>6, ContinuationNames, OtherNames, QuietGoesOn

LEMMA ContinueSleepTicksStep ==
  ASSUME IInv, ContinueSleepTicks
  PROVE  Step
<1> DEFINE c == k.current
<1>1. /\ k' = k /\ cont' = [cont EXCEPT ![c] = User] /\ alarms' = alarms \ {c}
      /\ c # None /\ cont[c][1] = "alarm"
  BY DEF ContinueSleepTicks, Resuming
<1>2. /\ Good(k) /\ Settled(k) /\ k \in Kernel
      /\ (\A m \in Mutex : cont[c] # <<"lock", m>>) => k.mutex[c] = None
  BY <1>1, CurrentRuns
<1>3. \A m \in Mutex : cont[c] # <<"lock", m>>
  BY <1>1
<1>4. Outlives(k, k)
  BY <1>2, KeptNothing, KeptOutlives
<1>5. Good(k') /\ Settled(k') /\ Quiet(k, k')
  BY <1>1, <1>2, <1>4, OutlivesQuiet
<1>6. alarms' \in SUBSET Thread
  BY <1>1 DEF IInv, Inv
<1> QED
  BY <1>1, <1>2, <1>3, <1>5, <1>6, ContinuationNames, OtherNames, QuietGoesOn

LEMMA InterruptStep ==
  ASSUME IInv, NEW j, Good(j), NEW a, a = Masked(k, TRUE), Leads(a, j), Outlives(a, j),
         k' = Interrupted(j), cont' = cont, alarms' \in SUBSET Thread
  PROVE  Step
<1>1. Good(k) /\ Settled(k) /\ k.disabled = FALSE
  BY DEF IInv, Inv
<1>2. Good(k') /\ Settled(k') /\ Quiet(k, k')
  BY <1>1, InterruptedGood
<1>3. Inv(k', cont, alarms) /\ Tidy(k, k')
  BY <1>2, QuietInv DEF IInv
<1>4. Inv(k', cont', alarms')
  BY <1>3 DEF Inv
<1> QED
  BY <1>3, <1>4 DEF Step

LEMMA MaskedSettled ==
  ASSUME IInv, NEW a, a = Masked(k, TRUE)
  PROVE  Good(a) /\ Settled(a)
<1>1. Good(k) /\ Settled(k)
  BY DEF IInv, Inv
<1> QED
  BY <1>1, MaskedGood

LEMMA AlarmStep ==
  ASSUME IInv, NEW t \in Thread, AlarmInterrupt(t)
  PROVE  Step
<1> DEFINE a == Masked(k, TRUE)
           j == Resume(a, t)
<1>1. k' = Interrupted(j) /\ cont' = cont /\ alarms' = alarms \ {t}
  BY DEF AlarmInterrupt, Masked
<1>2. Good(a) /\ Settled(a)
  BY MaskedSettled
<1>3. alarms' \in SUBSET Thread
  BY <1>1 DEF IInv, Inv
<1>4. a = Masked(k, TRUE)
  OBVIOUS
<1> HIDE DEF a
<1>5. Good(j) /\ Outlives(a, j) /\ Leads(a, j)
  BY <1>2, ResumeGood
<1> HIDE DEF j
<1> QED
  BY <1>1, <1>3, <1>4, <1>5, InterruptStep

LEMMA DeviceStep ==
  ASSUME IInv, NEW w \in WaitQueue, DeviceInterrupt(w)
  PROVE  Step
<1> DEFINE a == Masked(k, TRUE)
           j == Wakeup(a, WaitQ(w))
<1>1. k' = Interrupted(j) /\ cont' = cont /\ alarms' = alarms
  BY DEF DeviceInterrupt, Masked
<1>2. Good(a) /\ Settled(a)
  BY MaskedSettled
<1>3. alarms' \in SUBSET Thread
  BY <1>1 DEF IInv, Inv
<1>4. a = Masked(k, TRUE)
  OBVIOUS
<1> HIDE DEF a
<1>5. Good(j) /\ Outlives(a, j) /\ Leads(a, j)
  BY <1>2, DriverQueue, WakeCallGood
<1> HIDE DEF j
<1> QED
  BY <1>1, <1>3, <1>4, <1>5, InterruptStep

-----------------------------------------------------------------------------
(* The theorems *)

\* Main runs alone, and nothing is queued or locked.
LEMMA InitInv ==
  ASSUME Init
  PROVE  IInv
<1> DEFINE c == k
<1>1. /\ Main \in Thread /\ MainBase \in Priority /\ None \notin Thread /\ None \notin Mutex
      /\ MaxSuspend \in Nat /\ MaxLock \in Nat
  BY ThreadAssumption
<1>2. /\ c.state = [t \in Thread |-> IF t = Main THEN "RUNNING" ELSE "none"]
      /\ c.base = [t \in Thread |-> MainBase] /\ c.priority = [t \in Thread |-> MainBase]
      /\ c.suspend = [t \in Thread |-> 0] /\ c.mutex = [t \in Thread |-> None]
      /\ c.queue = [t \in Thread |-> None] /\ c.held = [t \in Thread |-> <<>>]
      /\ c.owner = [m \in Mutex |-> None] /\ c.lock = [m \in Mutex |-> 0]
      /\ c.list = [q \in Queue |-> <<>>] /\ c.bits = {} /\ c.disabled = FALSE
      /\ c.current = Main
  BY DEF Init
<1>3. c \in Kernel
  BY <1>1 DEF Init, Kernel, Alive, Dead
<1>4. cont = [t \in Thread |-> User] /\ alarms = {}
  BY DEF Init
<1> HIDE DEF c
<1>5. /\ \A q \in Queue : c.list[q] = <<>>
      /\ \A t \in Thread : ~Ready(c, t) /\ c.state[t] # "SLEEPING"
  BY <1>2 DEF Ready
<1>6. ToSet(<<>>) = {} /\ IsInjective(<<>>) /\ DOMAIN <<>> = {}
  BY DEF ToSet, IsInjective
<1>7. Placed(c, {})
  BY <1>5, <1>6 DEF Placed, OnQueue
<1>8. Fit(c, {})
  BY <1>1, <1>2, <1>5 DEF Fit, ThreadFits
<1>9. BitsRight(c)
  BY <1>2, <1>5, QueueNames DEF BitsRight
<1>10. NoneTwice(c)
  BY <1>5, <1>6 DEF NoneTwice
<1>11. Ordered(c)
  BY <1>5, <1>6, QueueNames DEF Ordered, InOrderOf
<1>12. Sound(c, {})
  BY <1>3, <1>7, <1>8, <1>9, <1>10, <1>11 DEF Sound
<1>13. Chained(c, {})
  <2>1. \A m \in Mutex, t \in Thread : c.owner[m] # t /\ m \notin ToSet(c.held[t])
    BY <1>1, <1>2, <1>6
  <2> QED
    BY <1>5, <2>1 DEF Chained
<1>14. Heirs(c)
  <2>1. \A x \in Thread \X Thread : x \notin Waiting(c)
    BY <1>2, <1>6 DEF Waiting, Waits
  <2> SUFFICES ASSUME NEW t \in Thread  PROVE Inherits(c, Waiting(c), t)
    BY DEF Heirs
  <2>2. c.priority[t] = MainBase /\ c.base[t] = MainBase /\ MainBase \in Nat
    BY <1>1, <1>2, Priorities
  <2>3. \A u \in Thread : <<u, t>> \notin Waiting(c)
    BY <2>1
  <2> QED
    BY <2>2, <2>3 DEF Inherits, IsBest
<1>15. Claimed(c)
  BY <1>5 DEF Claimed
<1>16. Locks(c)
  BY <1>2, <1>6 DEF Locks
<1>17. Settled(c)
  BY <1>1, <1>2, <1>5 DEF Settled
<1>18. Bounded(c)
  BY <1>1, <1>2 DEF Bounded
<1>19. InCalls(c, cont)
  <2>1. cont \in [Thread -> Continuations] /\ \A t \in Thread : cont[t] = User
    BY <1>4 DEF Continuations
  <2>2. \A m \in Mutex : User # <<"lock", m>>
    BY DEF User
  <2>3. \A u \in Thread : User # <<"unlockAll", u>>
    BY DEF User
  <2> QED
    BY <1>2, <2>1, <2>2, <2>3 DEF InCalls
<1>20. Good(c)
  BY <1>12, <1>13, <1>14, <1>15, <1>16 DEF Good
<1>21. Inv(c, cont, alarms)
  BY <1>2, <1>4, <1>17, <1>18, <1>19, <1>20 DEF Inv
<1> QED
  BY <1>21 DEF IInv, c

\* A thread that is created was gone, and is born suspended.
Births ==
  \A t \in Thread : k'.state[t] \in Alive /\ k.state[t] \notin Alive =>
    /\ k.state[t] \in {"none", "EXITED"}
    /\ k'.state[t] = "READY" /\ k'.suspend[t] = 1

LEMMA StepBirths ==
  ASSUME Step
  PROVE  IInv' /\ Births /\ JoinsEnd(k, k')
BY DEF Step, IInv, Tidy, NoneBorn, Births

LEMMA CreateBirths ==
  ASSUME IInv, NEW t \in Thread, NEW p \in Bases, NEW d \in BOOLEAN, CreateThread(t, p, d)
  PROVE  IInv' /\ Births /\ JoinsEnd(k, k')
<1>1. /\ Inv(k', cont', alarms') /\ JoinsEnd(k, k')
      /\ k.state[t] \in {"none", "EXITED"} /\ Born(k, k', t)
  BY CreateStep
<1> QED
  BY <1>1 DEF IInv, Births, Born

LEMMA CallInv ==
  ASSUME IInv, Call
  PROVE  IInv' /\ Births /\ JoinsEnd(k, k')
<1>1. CASE YieldThread
  BY <1>1, YieldStep, StepBirths
<1>2. CASE SleepTicks
  BY <1>2, SleepTicksStep, StepBirths
<1>3. CASE ExitThread
  BY <1>3, ExitStep, StepBirths
<1>4. CASE \E t \in Thread : ResumeThread(t)
  BY <1>4, ResumeStep, StepBirths
<1>5. CASE \E t \in Thread : SuspendThread(t)
  BY <1>5, SuspendStep, StepBirths
<1>6. CASE \E t \in Thread : CancelThread(t)
  BY <1>6, CancelStep, StepBirths
<1>7. CASE \E t \in Thread : JoinThread(t)
  BY <1>7, JoinStep, StepBirths
<1>8. CASE \E t \in Thread : DetachThread(t)
  BY <1>8, DetachStep, StepBirths
<1>9. CASE \E t \in Thread, p \in Bases : SetThreadPriority(t, p)
  BY <1>9, SetPriorityStep, StepBirths
<1>10. CASE \E t \in Thread, p \in Bases, d \in BOOLEAN : CreateThread(t, p, d)
  BY <1>10, CreateBirths
<1>11. CASE \E m \in Mutex : LockMutex(m)
  BY <1>11, LockStep, StepBirths
<1>12. CASE \E m \in Mutex : TryLockMutex(m)
  BY <1>12, TryLockStep, StepBirths
<1>13. CASE \E m \in Mutex : UnlockMutex(m)
  BY <1>13, UnlockStep, StepBirths
<1>14. CASE \E w \in WaitQueue : SleepThread(w)
  BY <1>14, SleepStep, StepBirths
<1>15. CASE \E w \in WaitQueue : WakeupThread(w)
  BY <1>15, WakeupStep, StepBirths
<1> QED
  BY <1>1, <1>2, <1>3, <1>4, <1>5, <1>6, <1>7, <1>8, <1>9, <1>10, <1>11, <1>12, <1>13,
     <1>14, <1>15, Zenon DEF Call

LEMMA NextInv ==
  ASSUME IInv, [Next]_vars
  PROVE  IInv' /\ Births /\ JoinsEnd(k, k')
<1>1. CASE Call
  BY <1>1, CallInv
<1>2. CASE ContinueLock
  BY <1>2, ContinueLockStep, StepBirths
<1>3. CASE ContinueJoin
  BY <1>3, ContinueJoinStep, StepBirths
<1>4. CASE ContinueUnlockAll
  BY <1>4, ContinueUnlockAllStep, StepBirths
<1>5. CASE ContinueSleepTicks
  BY <1>5, ContinueSleepTicksStep, StepBirths
<1>6. CASE \E t \in Thread : AlarmInterrupt(t)
  BY <1>6, AlarmStep, StepBirths
<1>7. CASE \E w \in WaitQueue : DeviceInterrupt(w)
  BY <1>7, DeviceStep, StepBirths
<1>8. CASE UNCHANGED vars
  BY <1>8, TidyNothing DEF vars, IInv, Births, Tidy
<1> QED
  BY <1>1, <1>2, <1>3, <1>4, <1>5, <1>6, <1>7, <1>8, Zenon DEF Next, Continue, Interrupt

LEMMA AlwaysInv == Spec => []IInv
<1>1. Init => IInv
  BY InitInv
<1>2. IInv /\ [Next]_vars => IInv'
  BY NextInv
<1> QED
  BY <1>1, <1>2, PTL DEF Spec

\* The kernel's fields keep their types, and no call leaves the scheduler
\* disabled.
THEOREM TypeCorrect == Spec => []TypeOK
<1>1. IInv => TypeOK
  BY DEF IInv, Inv, Good, Sound, InCalls, Bounded, TypeOK
<1> QED
  BY <1>1, AlwaysInv, PTL

\* Every thread is on exactly the queue its state says, the bits tell which run
\* queues are not empty, and the wait queues are in priority order, whatever
\* was boosted, suspended, cancelled or woken.
THEOREM QueuesStaySound == Spec => []QueuesSound
<1>1. ASSUME IInv  PROVE QueuesSound
  <2>1. /\ k \in Kernel /\ Placed(k, {}) /\ Fit(k, {}) /\ BitsRight(k) /\ NoneTwice(k)
        /\ Ordered(k)
    BY <1>1 DEF IInv, Inv, Good, Sound
  <2>2. DOMAIN k.list = Queue
    BY <2>1 DEF Kernel
  <2>3. ASSUME NEW t \in Thread, NEW q \in Queue
        PROVE  t \in ToSet(k.list[q]) <=>
                 \/ Runnable(t) /\ q = RunQ(k.priority[t])
                 \/ k.state[t] = "SLEEPING" /\ q = k.queue[t] /\ q \in SleepQueues
    <3>1. t \in ToSet(k.list[q]) <=> OnQueue(k, t, q)
      BY <2>1 DEF Placed
    <3>2. k.state[t] = "SLEEPING" => k.queue[t] \in SleepQueues
      BY <2>1 DEF Fit, ThreadFits
    <3> QED
      BY <3>1, <3>2 DEF OnQueue, Ready, Runnable
  <2>4. QueuesMatchStates
    BY <2>1, <2>2, <2>3 DEF QueuesMatchStates, BitsRight, NoneTwice
  <2>5. SleepersInOrder
    BY <2>1 DEF SleepersInOrder, Ordered, InOrderOf
  <2> QED
    BY <2>4, <2>5 DEF QueuesSound
<1> QED
  BY <1>1, AlwaysInv, PTL

\* Whatever call has run, the best thread that is ready runs, and the processor
\* idles only if none is.
THEOREM BestThreadAlwaysRuns == Spec => []BestThreadRuns
<1>1. IInv => BestThreadRuns
  BY DEF IInv, Inv, Settled, Ready, Runnable, BestThreadRuns
<1> QED
  BY <1>1, AlwaysInv, PTL

\* A living thread that is not suspended has its base priority or that of its
\* best waiter, through every chain of owners.
THEOREM PriorityStaysInherited == Spec => []PriorityIsInherited
<1>1. ASSUME IInv, NEW t \in Thread, k.state[t] \in Alive, k.suspend[t] = 0
      PROVE  k.priority[t] = EffectivePriority(k, t)
  <2>1. Sound(k, {}) /\ Heirs(k) /\ k \in Kernel /\ Fit(k, {})
    BY <1>1 DEF IInv, Inv, Good, Sound
  <2>2. IsBest(k, Waiting(k), t, k.priority[t])
    BY <1>1, <2>1 DEF Heirs, Inherits
  <2>3. IsBest(k, Waiting(k), t, EffectivePriority(k, t))
    BY <2>1, EffectiveIsBest
  <2>4. k.priority[t] \in Nat
    <3>1. ThreadFits(k, t)
      BY <2>1 DEF Fit
    <3>2. k.priority[t] \in Priority
      BY <1>1, <3>1 DEF ThreadFits
    <3> QED
      BY <3>2, Priorities
  <2>5. EffectivePriority(k, t) \in Nat
    <3>1. EffectivePriority(k, t) \in Priority
      BY <2>1, EffectiveIsPriority
    <3> QED
      BY <3>1, Priorities
  <2> QED
    BY <2>1, <2>2, <2>3, <2>4, <2>5, BestIsOne
<1>2. IInv => PriorityIsInherited
  BY <1>1 DEF PriorityIsInherited
<1> QED
  BY <1>2, AlwaysInv, PTL

\* Nobody waits for a mutex that is free, whoever gave it up and however.
THEOREM FreeMutexHasNoWaiter == Spec => []NoWaiterOnFreeMutex
<1>1. ASSUME IInv, NEW m \in Mutex, k.owner[m] = None, k.list[MutexQ(m)] # <<>>
      PROVE  FALSE
  <2>1. /\ Sound(k, {}) /\ Chained(k, {}) /\ Claimed(k) /\ k \in Kernel /\ Placed(k, {})
        /\ NoneTwice(k)
    BY <1>1 DEF IInv, Inv, Good, Sound
  <2>2. MutexQ(m) \in Queue /\ k.list[MutexQ(m)] \in Seq(Thread)
    BY <2>1, QueueNames DEF Kernel
  <2>3. PICK t \in Thread : t \in ToSet(k.list[MutexQ(m)])
    BY <1>1, <2>1, <2>2, TailLine DEF NoneTwice
  <2>4. OnQueue(k, t, MutexQ(m))
    BY <2>1, <2>2, <2>3 DEF Placed
  <2>5. k.state[t] = "SLEEPING" /\ k.queue[t] = MutexQ(m)
    BY <2>4 DEF OnQueue, RunQ, MutexQ
  <2>6. k.mutex[t] = m /\ m # None
    BY <2>1, <2>5, ThreadAssumption DEF Chained
  <2> QED
    BY <1>1, <2>1, <2>5, <2>6 DEF Claimed
<1>2. IInv => NoWaiterOnFreeMutex
  BY <1>1 DEF NoWaiterOnFreeMutex
<1> QED
  BY <1>2, AlwaysInv, PTL

\* A thread that has ended comes to life only by CreateThread, after it was
\* joined or detached, and is then suspended.
THEOREM TheDeadStayDead == Spec => DeadStaysDead
<1>1. ASSUME IInv, [Next]_vars
      PROVE  [\A t \in Thread : (k.state[t] \in Dead /\ k'.state[t] \in Alive) =>
                /\ k.state[t] = "EXITED" /\ k'.suspend[t] = 1
                /\ k'.state[t] = "READY"]_vars
  <2>1. Births
    BY <1>1, NextInv
  <2> QED
    BY <2>1 DEF Births, Alive, Dead
<1> QED
  BY <1>1, AlwaysInv, PTL DEF Spec, DeadStaysDead

\* The queue of those that join a thread is empty when nobody waits on it.
LEMMA JoinersQueued ==
  ASSUME NEW c, Good(c), NEW t \in Thread
  PROVE  c.list[JoinQ(t)] # <<>> <=> ~Deserted(c, JoinQ(t))
<1> DEFINE q == JoinQ(t)
<1>1. /\ Sound(c, {}) /\ c \in Kernel /\ Placed(c, {}) /\ NoneTwice(c)
      /\ q \in SleepQueues /\ q \in Queue
  BY QueueNames DEF Good, Sound, Queue
<1>2. \A u \in Thread : OnQueue(c, u, q) <=> c.state[u] = "SLEEPING" /\ c.queue[u] = q
  BY DEF OnQueue, RunQ, JoinQ
<1>3. c.list[q] \in Seq(Thread)
  BY <1>1 DEF Kernel
<1> HIDE DEF q
<1>4. \A u \in Thread : u \in ToSet(c.list[q]) <=> c.state[u] = "SLEEPING" /\ c.queue[u] = q
  BY <1>1, <1>2 DEF Placed
<1>5. ASSUME c.list[q] # <<>>  PROVE ~Deserted(c, q)
  <2>1. PICK u \in Thread : u \in ToSet(c.list[q])
    BY <1>1, <1>3, <1>5, TailLine DEF NoneTwice
  <2> QED
    BY <1>4, <2>1 DEF Deserted
<1>6. ASSUME ~Deserted(c, q)  PROVE c.list[q] # <<>>
  <2>1. PICK u \in Thread : u \in ToSet(c.list[q])
    BY <1>4, <1>6 DEF Deserted
  <2>2. ToSet(<<>>) = {}
    BY DEF ToSet
  <2> QED
    BY <2>1, <2>2
<1>7. c.list[q] # <<>> <=> ~Deserted(c, q)
  BY <1>5, <1>6
<1> QED
  BY <1>7 DEF q

\* Who waits to join a thread is woken when it becomes MORIBUND, whether it ends
\* itself or is cancelled, and nobody begins to wait for one that is; only a
\* thread that dies with mutexes may have joiners left then.
THEOREM NoJoinerStaysBehind == Spec => NoJoinerLeftBehind
<1>1. ASSUME IInv, [Next]_vars
      PROVE  [\A t \in Thread :
                (k'.state[t] = "MORIBUND" /\ k'.list[JoinQ(t)] # <<>>) =>
                  /\ k.list[JoinQ(t)] # <<>>
                  /\ k.state[t] = "MORIBUND" \/ k.held[t] # <<>>]_vars
  <2> SUFFICES ASSUME NEW t \in Thread,
                      k'.state[t] = "MORIBUND", k'.list[JoinQ(t)] # <<>>
               PROVE  /\ k.list[JoinQ(t)] # <<>>
                      /\ k.state[t] = "MORIBUND" \/ k.held[t] # <<>>
    OBVIOUS
  <2> DEFINE n == k'
  <2>1. JoinsEnd(k, n) /\ Good(k) /\ Good(n) /\ n.state[t] = "MORIBUND"
        /\ n.list[JoinQ(t)] # <<>>
    BY <1>1, NextInv DEF IInv, Inv
  <2> HIDE DEF n
  <2>2. ~Deserted(n, JoinQ(t))
    BY <2>1, JoinersQueued
  <2>3. ~Deserted(k, JoinQ(t)) /\ (k.state[t] = "MORIBUND" \/ k.held[t] # <<>>)
    BY <2>1, <2>2 DEF JoinsEnd
  <2> QED
    BY <2>1, <2>3, JoinersQueued
<1> QED
  BY <1>1, AlwaysInv, PTL DEF Spec, NoJoinerLeftBehind

=============================================================================
