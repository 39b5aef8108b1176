-------------------------- MODULE JobProcessorProofs --------------------------
(***************************************************************************)
(* Proofs about JobProcessor, for any number of workers, clients, queues   *)
(* and jobs, any levels and any frequencies.                               *)
(***************************************************************************)
EXTENDS JobProcessor, FiniteSetTheorems, TLAPS

-----------------------------------------------------------------------------
(* The pending list *)

Distinct(s) == \A i, k \in DOMAIN s : s[i].job = s[k].job => i = k

LEMMA SuffixPlaces ==
  ASSUME NEW S, NEW s \in Seq(S), NEW m \in Nat, m <= Len(s), NEW i \in 1..(Len(s) - m)
  PROVE  SubSeq(s, m + 1, Len(s))[i] = s[i + m]
<1>1. Len(s) \in Nat /\ (m + 1) + i - 1 = i + m
  OBVIOUS
<1>2. SubSeq(s, m + 1, Len(s))[i] = s[(m + 1) + i - 1]
  BY <1>1
<1> QED
  BY <1>1, <1>2

LEMMA UnpendType ==
  ASSUME NEW s \in Seq(Numbered), NEW j \in Job, s # <<>>
  PROVE  /\ Unpend(s, j) \in Seq(Numbered)
         /\ Len(Unpend(s, j)) = Len(s) - 1
         /\ DOMAIN Unpend(s, j) = 1..(Len(s) - 1)
<1> DEFINE n == Len(s) - 1
           t == [i \in 1..n |-> IF s[i].job = j THEN s[Len(s)] ELSE s[i]]
<1>1. n \in Nat /\ Len(s) \in 1..Len(s)
  OBVIOUS
<1>2. t \in [1..n -> Numbered]
  <2>1. \A i \in 1..Len(s) : s[i] \in Numbered
    OBVIOUS
  <2>2. \A i \in 1..n : i \in 1..Len(s)
    OBVIOUS
  <2> QED
    BY <1>1, <2>1, <2>2
<1>3. t \in Seq(Numbered) /\ Len(t) = n /\ DOMAIN t = 1..n
  BY <1>1, <1>2
<1> QED
  BY <1>3 DEF Unpend

\* Removing a job keeps the others, each once.
LEMMA UnpendElements ==
  ASSUME NEW s \in Seq(Numbered), NEW j \in Job, Distinct(s),
         NEW h \in DOMAIN s, s[h].job = j
  PROVE  /\ Elements(Unpend(s, j)) = {x \in Elements(s) : x.job # j}
         /\ Distinct(Unpend(s, j))
<1> DEFINE n == Len(s) - 1
           t == Unpend(s, j)
<1>1. s # <<>> /\ DOMAIN s = 1..Len(s) /\ Len(s) \in Nat \ {0} /\ h \in 1..Len(s)
  OBVIOUS
<1>2. DOMAIN t = 1..n
  BY <1>1, UnpendType
<1>3. \A i \in 1..n : t[i] = IF s[i].job = j THEN s[Len(s)] ELSE s[i]
  BY DEF Unpend
<1>4. \A i \in 1..n : s[i].job = j <=> i = h
  BY <1>1 DEF Distinct
<1>5. h # Len(s) => s[Len(s)].job # j
  BY <1>1 DEF Distinct
<1>6. \A i \in 1..n : t[i].job # j /\ t[i] \in Elements(s)
  <2> SUFFICES ASSUME NEW i \in 1..n PROVE t[i].job # j /\ t[i] \in Elements(s)
    OBVIOUS
  <2>1. CASE i = h
    BY <2>1, <1>1, <1>3, <1>4, <1>5 DEF Elements
  <2>2. CASE i # h
    BY <2>2, <1>1, <1>3, <1>4 DEF Elements
  <2> QED
    BY <2>1, <2>2
<1>7. \A k \in DOMAIN s : s[k].job # j => \E i \in 1..n : t[i] = s[k]
  <2> SUFFICES ASSUME NEW k \in DOMAIN s, s[k].job # j
               PROVE  \E i \in 1..n : t[i] = s[k]
    OBVIOUS
  <2>1. CASE k = Len(s)
    <3>1. h \in 1..n
      BY <2>1, <1>1
    <3> QED
      BY <3>1, <2>1, <1>3
  <2>2. CASE k # Len(s)
    <3>1. k \in 1..n
      BY <2>2, <1>1
    <3> QED
      BY <3>1, <1>3
  <2> QED
    BY <2>1, <2>2
<1>8. Elements(t) = {x \in Elements(s) : x.job # j}
  <2>1. \A x \in Elements(t) : x \in Elements(s) /\ x.job # j
    BY <1>2, <1>6, Zenon DEF Elements
  <2>2. \A x \in Elements(s) : x.job # j => x \in Elements(t)
    BY <1>2, <1>7, Zenon DEF Elements
  <2> QED
    BY <2>1, <2>2, Zenon
<1>9. Distinct(t)
  <2> SUFFICES ASSUME NEW i \in 1..n, NEW k \in 1..n, t[i].job = t[k].job
               PROVE  i = k
    BY <1>2 DEF Distinct
  <2>0. Len(s) \in Nat /\ n = Len(s) - 1
    OBVIOUS
  <2>1. i \in DOMAIN s /\ k \in DOMAIN s /\ Len(s) \in DOMAIN s
    BY <1>1, <2>0
  <2>2. i # Len(s) /\ k # Len(s)
    BY <2>0
  <2>3. CASE i = h
    BY <2>1, <2>2, <2>3, <1>3, <1>4 DEF Distinct
  <2>4. CASE k = h
    BY <2>1, <2>2, <2>4, <1>3, <1>4 DEF Distinct
  <2>5. CASE i # h /\ k # h
    BY <2>1, <2>5, <1>3, <1>4 DEF Distinct
  <2> QED
    BY <2>3, <2>4, <2>5
<1> QED
  BY <1>8, <1>9

-----------------------------------------------------------------------------
(* Type correctness *)

LEMMA Configured ==
  /\ Level \in [Ref -> 0..3] /\ Index \in [Ref -> Nat]
  /\ Frequency \in [Ref -> Int]
  /\ Slots \in Nat \ {0} /\ 1 \in Slot
BY ConfigAssumption DEF Slot

LEMMA LevelsHold == \A r \in Ref : LevelSize(Level[r]) \in Nat \ {0}
<1> SUFFICES ASSUME NEW r \in Ref PROVE LevelSize(Level[r]) \in Nat \ {0}
  OBVIOUS
<1> DEFINE S == {q \in Ref : Level[q] = Level[r]}
<1>1. IsFiniteSet(S) /\ r \in S
  BY ConfigAssumption, FS_Subset
<1>2. Cardinality(S) \in Nat /\ Cardinality(S) # 0
  BY <1>1, FS_CardinalityType, FS_EmptySet
<1> QED
  BY <1>2 DEF LevelSize

LEMMA PassedOverType ==
  ASSUME TypeOK
  PROVE  \A r \in Ref : PassedOver(r) \in Int
<1>1. iter \in [Ref -> Int] /\ Frequency \in [Ref -> Int]
  BY Configured DEF TypeOK
<1> QED
  BY <1>1 DEF PassedOver

LEMMA NextQueueType ==
  ASSUME TypeOK, NEW r \in Ref, NextQueue(r)
  PROVE  iter' \in [Ref -> Int] /\ nextQueueIndex' \in [0..3 -> Nat]
<1>1. \A s \in Ref : PassedOver(s) \in Int /\ iter[s] \in Int /\ Frequency[s] \in Int
  BY PassedOverType, Configured DEF TypeOK
<1>2. iter' \in [Ref -> Int]
  BY <1>1 DEF NextQueue
<1>3. \A a \in Nat, b \in Nat \ {0} : a % b \in Nat /\ (a + 1) % b \in Nat /\ a + 0 = a
  OBVIOUS
<1> DEFINE x == NextIndex(r)
<1>4. x \in Nat
  <2>1. Index[r] \in Nat /\ LevelSize(Level[r]) \in Nat \ {0}
    BY LevelsHold, Configured
  <2> QED
    BY <1>3, <2>1, Zenon DEF NextIndex
<1>5. nextQueueIndex \in [0..3 -> Nat]
  BY DEF TypeOK
<1>6. nextQueueIndex' = [nextQueueIndex EXCEPT ![Level[r]] = x]
  BY DEF NextQueue
<1>7. nextQueueIndex' \in [0..3 -> Nat]
  BY <1>4, <1>5, <1>6, Zenon
<1> QED
  BY <1>2, <1>7

LEMMA FencesType ==
  ASSUME TypeOK, NEW r \in Ref, NEW n \in Nat, PassFences(r, n)
  PROVE  /\ completeFences' \in [Ref -> Seq(Numbered)]
         /\ passed' \subseteq [ref : Ref, number : Nat, job : Job]
<1> DEFINE s == completeFences[r]
<1>1. PICK k \in 0..Len(s) :
        /\ passed' = passed \cup
             {[ref |-> r, number |-> s[i].number, job |-> s[i].job] : i \in 1..k}
        /\ completeFences' = [completeFences EXCEPT ![r] = SubSeq(s, k + 1, Len(s))]
  BY DEF PassFences
<1>2. s \in Seq(Numbered)
  BY DEF TypeOK
<1>3. \A i \in 1..k : s[i] \in Numbered
  BY <1>2
<1>4. \A i \in 1..k : s[i].number \in Nat /\ s[i].job \in Job
  BY <1>3 DEF Numbered
<1>5. SubSeq(s, k + 1, Len(s)) \in Seq(Numbered)
  BY <1>2
<1>6. completeFences' \in [Ref -> Seq(Numbered)]
  BY <1>1, <1>5 DEF TypeOK
<1>7. \A i \in 1..k : [ref |-> r, number |-> s[i].number, job |-> s[i].job]
                         \in [ref : Ref, number : Nat, job : Job]
  BY <1>4
<1>8. passed' \subseteq [ref : Ref, number : Nat, job : Job]
  <2>1. passed \subseteq [ref : Ref, number : Nat, job : Job]
    BY DEF TypeOK
  <2> HIDE DEF s
  <2> QED
    BY <1>1, <1>7, <2>1, Zenon
<1> QED
  BY <1>6, <1>8

LEMMA InitType == Init => TypeOK
<1> SUFFICES ASSUME Init PROVE TypeOK
  OBVIOUS
<1>1. <<>> \in Seq(Job) /\ <<>> \in Seq(Numbered)
  OBVIOUS
<1>2. /\ queue \in [Ref -> Seq(Job)]
      /\ pendingJobs \in [Ref -> Seq(Numbered)]
      /\ completeFences \in [Ref -> Seq(Numbered)]
  BY <1>1 DEF Init
<1>3. /\ iter \in [Ref -> Int]
      /\ nextQueueIndex \in [0..3 -> Nat]
      /\ jobNumber \in [Ref -> Nat]
      /\ completeNumber \in [Ref -> Nat]
      /\ barrier \in [Ref -> SUBSET Job]
  BY Configured DEF Init
<1>4. /\ addJobEvent \in BOOLEAN /\ done \in BOOLEAN
      /\ at \in [Slot -> Place]
      /\ stopEvent \in [Slot -> BOOLEAN]
      /\ main \in [at : MainPlace, slot : Slot]
      /\ client \in [Client -> {"idle", "signal"}]
  BY Configured DEF Init, Place, MainPlace
<1> QED
  BY <1>2, <1>3, <1>4 DEF Init, TypeOK

LEMMA ClientType ==
  ASSUME TypeOK, NEW c \in Client, ClientStep(c)
  PROVE  TypeOK'
<1>1. ASSUME NEW r \in Ref, NEW j \in Job, AddJob(c, r, j) PROVE TypeOK'
  <2>1. Append(queue[r], j) \in Seq(Job)
    BY DEF TypeOK
  <2>2. queue' \in [Ref -> Seq(Job)] /\ client' \in [Client -> {"idle", "signal"}]
    BY <1>1, <2>1 DEF AddJob, TypeOK
  <2> QED
    BY <1>1, <2>2 DEF AddJob, TypeOK
<1>2. ASSUME NEW r \in Ref, ReleaseBarrier(c, r) PROVE TypeOK'
  BY <1>2 DEF ReleaseBarrier, TypeOK
<1>3. CASE SignalAdd(c)
  BY <1>3 DEF SignalAdd, TypeOK, jobVars
<1> QED
  BY <1>1, <1>2, <1>3 DEF ClientStep

LEMMA TakeType ==
  ASSUME TypeOK, NEW w \in Slot, NEW r \in Ref, Take(w, r)
  PROVE  TypeOK'
<1> DEFINE j == Head(queue[r])
           n == jobNumber[r] + 1
<1>1. queue[r] \in Seq(Job) /\ queue[r] # <<>>
  BY DEF Take, NextQueue, Eligible, Ready, TypeOK
<1>2. j \in Job /\ Tail(queue[r]) \in Seq(Job)
  BY <1>1
<1>3. n \in Nat /\ [number |-> n, job |-> j] \in Numbered
  BY <1>2 DEF TypeOK, Numbered
<1>4. iter' \in [Ref -> Int] /\ nextQueueIndex' \in [0..3 -> Nat]
  BY NextQueueType DEF Take
<1>5. /\ queue' \in [Ref -> Seq(Job)]
      /\ jobNumber' \in [Ref -> Nat]
      /\ addJobEvent' \in BOOLEAN
  BY <1>2, <1>3 DEF Take, TypeOK, SignalNext
<1>6. /\ pendingJobs' \in [Ref -> Seq(Numbered)]
      /\ completeFences' \in [Ref -> Seq(Numbered)]
      /\ passed' \subseteq [ref : Ref, number : Nat, job : Job]
      /\ barrier' \in [Ref -> SUBSET Job]
      /\ at' \in [Slot -> Place]
      /\ running' \subseteq [slot : Slot, ref : Ref, number : Nat, job : Job]
  <2>1. CASE Execute(w, r, j)
    <3>1. Append(pendingJobs[r], [number |-> n, job |-> j]) \in Seq(Numbered)
      BY <1>3 DEF TypeOK
    <3>2. pendingJobs' \in [Ref -> Seq(Numbered)]
      BY <2>1, <3>1 DEF Execute, TypeOK
    <3>3. running' \subseteq [slot : Slot, ref : Ref, number : Nat, job : Job]
      BY <2>1, <1>2, <1>3 DEF Execute, TypeOK
    <3>4. at' \in [Slot -> Place]
      <4>1. at \in [Slot -> Place] /\ "executing" \in Place
        BY DEF TypeOK, Place
      <4> QED
        BY <2>1, <4>1 DEF Execute, Go
    <3>5. /\ completeFences' \in [Ref -> Seq(Numbered)] /\ barrier' \in [Ref -> SUBSET Job]
          /\ passed' \subseteq [ref : Ref, number : Nat, job : Job]
      BY <2>1 DEF Execute, TypeOK
    <3> QED
      BY <3>2, <3>3, <3>4, <3>5
  <2>2. CASE CallBack(w, r, j)
    <3>1. Append(completeFences[r], [number |-> n, job |-> j]) \in Seq(Numbered)
      BY <1>3 DEF TypeOK
    <3>2. CASE PlaceFence(r, j) /\ UNCHANGED barrier
      <4>1. completeFences' \in [Ref -> Seq(Numbered)]
        BY <3>1, <3>2 DEF PlaceFence, TypeOK
      <4>2. passed' \subseteq [ref : Ref, number : Nat, job : Job]
        <5>1. passed' \subseteq passed \cup {[ref |-> r, number |-> n, job |-> j]}
          BY <3>2 DEF PlaceFence
        <5>2. [ref |-> r, number |-> n, job |-> j] \in [ref : Ref, number : Nat, job : Job]
          BY <1>2, <1>3
        <5> QED
          BY <5>1, <5>2 DEF TypeOK
      <4> QED
        BY <2>2, <3>2, <4>1, <4>2 DEF CallBack, TypeOK
    <3>3. CASE ~(PlaceFence(r, j) /\ UNCHANGED barrier)
      <4>1. barrier' = [barrier EXCEPT ![r] = {j}] /\ UNCHANGED <<completeFences, passed>>
        BY <2>2, <3>3, Zenon DEF CallBack
      <4>2. barrier' \in [Ref -> SUBSET Job]
        BY <4>1, <1>2 DEF TypeOK
      <4> QED
        BY <2>2, <4>1, <4>2 DEF CallBack, TypeOK
    <3> QED
      BY <3>2, <3>3
  <2> QED
    BY <2>1, <2>2 DEF Take
<1> QED
  BY <1>4, <1>5, <1>6 DEF Take, TypeOK

LEMMA WorkerType ==
  ASSUME TypeOK, NEW w \in Slot, WorkerStep(w), \A e \in running : pendingJobs[e.ref] # <<>>
  PROVE  TypeOK'
<1>1. CASE LeaveWhenDone(w)
  BY <1>1 DEF LeaveWhenDone, Go, Place, TypeOK, jobVars
<1>2. CASE Idle(w)
  <2>1. \A r \in Ref : PassedOver(r) \in Int
    BY PassedOverType
  <2> QED
    BY <1>2, <2>1 DEF Idle, Go, Place, TypeOK
<1>3. CASE Wake(w)
  BY <1>3 DEF Wake, Go, Place, TypeOK, jobVars
<1>4. CASE Leave(w)
  BY <1>4 DEF Leave, Go, Place, TypeOK, jobVars
<1>5. CASE End(w)
  BY <1>5 DEF End, Go, Place, TypeOK, jobVars
<1>6. ASSUME NEW r \in Ref, Take(w, r) PROVE TypeOK'
  BY <1>6, TakeType
<1>7. ASSUME NEW e \in running, Complete(e) PROVE TypeOK'
  <2> DEFINE rest == Unpend(pendingJobs[e.ref], e.job)
  <2>1. e.ref \in Ref /\ e.job \in Job /\ e.slot \in Slot
    BY DEF TypeOK
  <2>2. rest \in Seq(Numbered)
    BY <2>1, UnpendType DEF TypeOK
  <2>3. PICK n \in 0..jobNumber[e.ref] :
          /\ completeNumber' = [completeNumber EXCEPT ![e.ref] = n]
          /\ PassFences(e.ref, n)
    BY <1>7 DEF Complete
  <2>4. n \in Nat
    BY <2>1 DEF TypeOK
  <2>5. /\ completeFences' \in [Ref -> Seq(Numbered)]
        /\ passed' \subseteq [ref : Ref, number : Nat, job : Job]
    BY <2>1, <2>3, <2>4, FencesType
  <2>6. /\ pendingJobs' \in [Ref -> Seq(Numbered)]
        /\ completeNumber' \in [Ref -> Nat]
        /\ at' \in [Slot -> Place]
        /\ running' \subseteq [slot : Slot, ref : Ref, number : Nat, job : Job]
    BY <1>7, <2>1, <2>2, <2>3, <2>4 DEF Complete, Go, Place, TypeOK
  <2> QED
    BY <1>7, <2>5, <2>6 DEF Complete, TypeOK
<1> QED
  BY <1>1, <1>2, <1>3, <1>4, <1>5, <1>6, <1>7 DEF WorkerStep

LEMMA MainType ==
  ASSUME TypeOK, MainStep
  PROVE  TypeOK'
<1>1. CASE StartFlag
  BY <1>1, Configured DEF StartFlag, TypeOK, MainPlace, jobVars
<1>2. ASSUME NEW p \in MainPlace, NextSlot(p)
      PROVE  main' \in [at : MainPlace, slot : Slot]
  <2>1. main.slot # Slots => main.slot + 1 \in Slot
    BY Configured DEF TypeOK, Slot
  <2>2. 1 \in Slot
    BY Configured
  <2> QED
    BY <1>2, <2>1, <2>2 DEF NextSlot, TypeOK
<1>3. CASE StartSlot
  <2>1. main' \in [at : MainPlace, slot : Slot]
    BY <1>2, <1>3 DEF StartSlot, MainPlace
  <2> QED
    BY <1>3, <2>1 DEF StartSlot, TypeOK, Place, jobVars
<1>4. CASE StopFlag
  BY <1>4 DEF StopFlag, TypeOK, MainPlace, jobVars
<1>5. CASE StopSignal
  BY <1>5 DEF StopSignal, TypeOK, MainPlace, jobVars
<1>6. CASE Join
  <2>1. main' \in [at : MainPlace, slot : Slot]
    BY <1>2, <1>6 DEF Join, MainPlace
  <2> QED
    BY <1>6, <2>1 DEF Join, TypeOK, jobVars
<1> QED
  BY <1>1, <1>3, <1>4, <1>5, <1>6 DEF MainStep, StopStep

-----------------------------------------------------------------------------
(* The inductive invariant *)

Entry(e) == [number |-> e.number, job |-> e.job]

\* The list of a ref holds its executing jobs, each once.
PendingInv ==
  \A r \in Ref :
    /\ Distinct(pendingJobs[r])
    /\ Elements(pendingJobs[r]) = {Entry(e) : e \in RunningOn(r)}
    /\ IsFiniteSet(RunningOn(r))
    /\ Len(pendingJobs[r]) = Cardinality(RunningOn(r))

\* A job is executed by one worker and queued at one place.
JobsInv ==
  /\ \A e, f \in running : e.job = f.job => e = f
  /\ \A r \in Ref : \A i \in DOMAIN queue[r] : \A e \in running : queue[r][i] # e.job
  /\ \A r, s \in Ref : \A i \in DOMAIN queue[r], k \in DOMAIN queue[s] :
       queue[r][i] = queue[s][k] => r = s /\ i = k

\* The numbers given out and the numbers complete.
NumberInv ==
  /\ \A e \in running :
       e.number <= jobNumber[e.ref] /\ completeNumber[e.ref] < e.number
  /\ \A r \in Ref : completeNumber[r] <= jobNumber[r]
  /\ \A f \in passed : f.number <= jobNumber[f.ref]

\* The fences stand in the order of their numbers, which no job has.
FenceOrder(r) ==
  LET s == completeFences[r] IN
  \A i \in DOMAIN s :
    /\ s[i].number <= jobNumber[r]
    /\ \A k \in DOMAIN s : i < k => s[i].number < s[k].number
    /\ \A e \in RunningOn(r) : e.number # s[i].number

FenceInv ==
  /\ \A r \in Ref : FenceOrder(r)
  /\ FenceAfterJobs
  /\ NoFenceLeft

Inv == TypeOK /\ PendingInv /\ JobsInv /\ NumberInv /\ FenceInv

LEMMA InitInv == Init => Inv
<1> SUFFICES ASSUME Init PROVE Inv
  OBVIOUS
<1>1. /\ running = {} /\ passed = {}
      /\ \A r \in Ref : /\ queue[r] = <<>> /\ pendingJobs[r] = <<>>
                        /\ completeFences[r] = <<>>
                        /\ jobNumber[r] = 0 /\ completeNumber[r] = 0
  BY DEF Init
<1>2. DOMAIN << >> = {} /\ Len(<< >>) = 0
  OBVIOUS
<1>3. \A r \in Ref : RunningOn(r) = {} /\ Elements(pendingJobs[r]) = {}
  BY <1>1, <1>2 DEF RunningOn, Elements
<1>4. PendingInv
  BY <1>1, <1>2, <1>3, FS_EmptySet DEF PendingInv, Distinct
<1>5. JobsInv /\ NumberInv
  BY <1>1, <1>2 DEF JobsInv, NumberInv
<1>6. FenceInv
  BY <1>1, <1>2 DEF FenceInv, FenceOrder, FenceAfterJobs, NoFenceLeft, Elements
<1> QED
  BY <1>4, <1>5, <1>6, InitType DEF Inv

\* Only what happens to jobs and fences matters.
LEMMA OtherSteps ==
  ASSUME Inv, TypeOK',
         UNCHANGED <<queue, jobNumber, completeNumber, pendingJobs,
                     completeFences, running>>,
         passed' \subseteq passed
  PROVE  Inv'
<1>1. \A r \in Ref : RunningOn(r)' = RunningOn(r)
  BY DEF RunningOn
<1>2. PendingInv'
  BY <1>1 DEF Inv, PendingInv
<1>3. JobsInv' /\ NumberInv'
  BY DEF Inv, JobsInv, NumberInv
<1>4. FenceInv'
  BY <1>1 DEF Inv, FenceInv, FenceOrder, FenceAfterJobs, NoFenceLeft, RunningOn
<1> QED
  BY <1>2, <1>3, <1>4 DEF Inv

LEMMA AddJobInv ==
  ASSUME Inv, NEW c \in Client, NEW r \in Ref, NEW j \in Job, AddJob(c, r, j)
  PROVE  Inv'
<1>1. /\ queue[r] \in Seq(Job)
      /\ queue' = [queue EXCEPT ![r] = Append(@, j)] /\ queue \in [Ref -> Seq(Job)]
      /\ UNCHANGED <<jobNumber, completeNumber, pendingJobs, completeFences, passed, running>>
  BY DEF AddJob, Inv, TypeOK
<1>2. /\ \A q \in Ref : \A i \in DOMAIN queue[q] : queue[q][i] # j
      /\ \A e \in running : e.job # j
  <2>1. j \notin InUse
    BY DEF AddJob
  <2>2. \A q \in Ref : Elements(queue[q]) \subseteq InUse
    <3>1. \A q \in Ref : Held(q) \subseteq InUse
      BY DEF InUse
    <3> QED
      BY <3>1 DEF Held
  <2>3. Executing \subseteq InUse
    BY DEF InUse
  <2>4. \A q \in Ref : \A i \in DOMAIN queue[q] : queue[q][i] \in InUse
    BY <2>2 DEF Elements
  <2>5. \A e \in running : e.job \in InUse
    BY <2>3 DEF Executing
  <2> QED
    BY <2>1, <2>4, <2>5, Zenon
<1>3. \A i \in DOMAIN Append(queue[r], j) :
        \/ i \in DOMAIN queue[r] /\ Append(queue[r], j)[i] = queue[r][i]
        \/ i = Len(queue[r]) + 1 /\ i \notin DOMAIN queue[r] /\ Append(queue[r], j)[i] = j
  BY <1>1
<1>4. JobsInv'
  <2>1. \A q \in Ref : \A i \in DOMAIN queue'[q] :
          \/ i \in DOMAIN queue[q] /\ queue'[q][i] = queue[q][i]
          \/ q = r /\ i = Len(queue[r]) + 1 /\ queue'[q][i] = j
    BY <1>1, <1>3
  <2>0. /\ running' = running
        /\ \A e, f \in running : e.job = f.job => e = f
        /\ \A q \in Ref : \A i \in DOMAIN queue[q] : \A e \in running : queue[q][i] # e.job
        /\ \A q, p \in Ref : \A i \in DOMAIN queue[q], k \in DOMAIN queue[p] :
             queue[q][i] = queue[p][k] => q = p /\ i = k
    BY <1>1 DEF Inv, JobsInv
  <2>2. \A e, f \in running' : e.job = f.job => e = f
    BY <2>0
  <2>3. \A q \in Ref : \A i \in DOMAIN queue'[q] : \A e \in running' : queue'[q][i] # e.job
    BY <1>2, <2>0, <2>1
  <2>4. ASSUME NEW q \in Ref, NEW p \in Ref, NEW i \in DOMAIN queue'[q],
               NEW k \in DOMAIN queue'[p], queue'[q][i] = queue'[p][k]
        PROVE  q = p /\ i = k
    <3>0. /\ \/ i \in DOMAIN queue[q] /\ queue'[q][i] = queue[q][i]
             \/ q = r /\ i = Len(queue[r]) + 1 /\ queue'[q][i] = j
          /\ \/ k \in DOMAIN queue[p] /\ queue'[p][k] = queue[p][k]
             \/ p = r /\ k = Len(queue[r]) + 1 /\ queue'[p][k] = j
      BY <2>1, Zenon
    <3>1. CASE queue'[q][i] = j
      <4>1. q = r /\ i = Len(queue[r]) + 1
        BY <3>0, <3>1, <1>2
      <4>2. p = r /\ k = Len(queue[r]) + 1
        BY <3>0, <3>1, <2>4, <1>2
      <4> QED
        BY <4>1, <4>2
    <3>2. CASE queue'[q][i] # j
      <4>1. i \in DOMAIN queue[q] /\ k \in DOMAIN queue[p] /\ queue[q][i] = queue[p][k]
        BY <3>0, <3>2, <2>4
      <4> QED
        BY <4>1, <2>0
    <3> QED
      BY <3>1, <3>2
  <2> QED
    BY <2>2, <2>3, <2>4, Zenon DEF JobsInv
<1>5. ClientStep(c)
  BY DEF ClientStep
<1>6. TypeOK'
  BY <1>5, ClientType DEF Inv
<1>7. \A q \in Ref : RunningOn(q)' = RunningOn(q)
  BY <1>1 DEF RunningOn
<1>8. PendingInv' /\ NumberInv'
  BY <1>1, <1>7 DEF Inv, PendingInv, NumberInv
<1>9. FenceInv'
  BY <1>1, <1>7 DEF Inv, FenceInv, FenceOrder, FenceAfterJobs, NoFenceLeft, RunningOn
<1> QED
  BY <1>4, <1>6, <1>8, <1>9 DEF Inv

\* Popping the first job leaves the others queued once and that one nowhere.
LEMMA TakeQueue ==
  ASSUME Inv, NEW w \in Slot, NEW r \in Ref, Take(w, r)
  PROVE  /\ Head(queue[r]) \in Job
         /\ \A e \in running : e.job # Head(queue[r])
         /\ \A q \in Ref : \A i \in DOMAIN queue'[q] :
              /\ queue'[q][i] # Head(queue[r])
              /\ \A e \in running : queue'[q][i] # e.job
         /\ \A q, p \in Ref : \A i \in DOMAIN queue'[q], k \in DOMAIN queue'[p] :
              queue'[q][i] = queue'[p][k] => q = p /\ i = k
<1> DEFINE j == Head(queue[r])
           Old(q, i) == IF q = r THEN i + 1 ELSE i
<1>1. queue \in [Ref -> Seq(Job)] /\ queue[r] \in Seq(Job) /\ queue[r] # <<>>
  BY DEF Inv, Take, NextQueue, Eligible, Ready, TypeOK
<1>2. queue' = [queue EXCEPT ![r] = Tail(@)]
  BY DEF Take
<1>3. 1 \in DOMAIN queue[r] /\ j = queue[r][1] /\ j \in Job
  BY <1>1
<1>4. \A i \in DOMAIN Tail(queue[r]) :
        /\ i + 1 \in DOMAIN queue[r] /\ Tail(queue[r])[i] = queue[r][i + 1]
        /\ i + 1 # 1 /\ i \in Int
  BY <1>1
<1>5. \A q \in Ref : \A i \in DOMAIN queue'[q] :
        /\ Old(q, i) \in DOMAIN queue[q]
        /\ queue'[q][i] = queue[q][Old(q, i)]
        /\ q = r => Old(q, i) # 1
        /\ i \in Int
  <2> SUFFICES ASSUME NEW q \in Ref, NEW i \in DOMAIN queue'[q]
               PROVE  /\ Old(q, i) \in DOMAIN queue[q]
                      /\ queue'[q][i] = queue[q][Old(q, i)]
                      /\ q = r => Old(q, i) # 1
                      /\ i \in Int
    OBVIOUS
  <2>1. CASE q = r
    BY <1>1, <1>2, <1>4, <2>1
  <2>2. CASE q # r
    BY <1>1, <1>2, <2>2
  <2> QED
    BY <2>1, <2>2
<1>. HIDE DEF j, Old
<1>0. /\ \A q \in Ref : \A i \in DOMAIN queue[q] : \A e \in running : queue[q][i] # e.job
      /\ \A q, p \in Ref : \A i \in DOMAIN queue[q], k \in DOMAIN queue[p] :
           queue[q][i] = queue[p][k] => q = p /\ i = k
  BY DEF Inv, JobsInv
<1>6. \A e \in running : e.job # j
  BY <1>0, <1>3
<1>7. \A q \in Ref : \A i \in DOMAIN queue'[q] :
        queue'[q][i] # j /\ \A e \in running : queue'[q][i] # e.job
  <2> SUFFICES ASSUME NEW q \in Ref, NEW i \in DOMAIN queue'[q]
               PROVE  queue'[q][i] # j /\ \A e \in running : queue'[q][i] # e.job
    OBVIOUS
  <2>1. Old(q, i) \in DOMAIN queue[q] /\ queue'[q][i] = queue[q][Old(q, i)]
        /\ (q = r => Old(q, i) # 1)
    BY <1>5
  <2>2. queue[q][Old(q, i)] # j
    BY <1>0, <1>3, <2>1
  <2>3. \A e \in running : queue[q][Old(q, i)] # e.job
    BY <1>0, <2>1
  <2> QED
    BY <2>1, <2>2, <2>3
<1>8. ASSUME NEW q \in Ref, NEW p \in Ref,
             NEW i \in DOMAIN queue'[q], NEW k \in DOMAIN queue'[p],
             queue'[q][i] = queue'[p][k]
      PROVE  q = p /\ i = k
  <2>1. q = p /\ Old(q, i) = Old(p, k)
    <3>1. /\ Old(q, i) \in DOMAIN queue[q] /\ queue'[q][i] = queue[q][Old(q, i)]
          /\ Old(p, k) \in DOMAIN queue[p] /\ queue'[p][k] = queue[p][Old(p, k)]
      BY <1>5
    <3>2. queue[q][Old(q, i)] = queue[p][Old(p, k)]
      BY <3>1, <1>8
    <3> QED
      BY <1>0, <3>1, <3>2
  <2>2. i \in Int /\ k \in Int
    BY <1>5
  <2> QED
    BY <2>1, <2>2 DEF Old
<1> QED
  BY <1>3, <1>6, <1>7, <1>8, Zenon DEF j

LEMMA RunningType ==
  ASSUME TypeOK
  PROVE  /\ \A e \in running : /\ e.slot \in Slot /\ e.ref \in Ref
                              /\ e.number \in Nat /\ e.job \in Job
         /\ \A f \in passed : f.ref \in Ref /\ f.number \in Nat /\ f.job \in Job
         /\ \A r \in Ref : jobNumber[r] \in Nat /\ completeNumber[r] \in Nat
         /\ \A r \in Ref : \A i \in DOMAIN completeFences[r] :
              completeFences[r][i].number \in Nat
         /\ \A r \in Ref : \A i \in DOMAIN pendingJobs[r] : pendingJobs[r][i] \in Numbered
<1>1. \A r \in Ref : \A i \in DOMAIN completeFences[r] : completeFences[r][i] \in Numbered
  BY DEF TypeOK
<1>2. \A r \in Ref : \A i \in DOMAIN pendingJobs[r] : pendingJobs[r][i] \in Numbered
  BY DEF TypeOK
<1>3. \A x \in Numbered : x.number \in Nat
  BY DEF Numbered
<1>4. /\ running \subseteq [slot : Slot, ref : Ref, number : Nat, job : Job]
      /\ passed \subseteq [ref : Ref, number : Nat, job : Job]
      /\ jobNumber \in [Ref -> Nat] /\ completeNumber \in [Ref -> Nat]
  BY DEF TypeOK
<1> QED
  BY <1>1, <1>2, <1>3, <1>4

\* A job begins to execute.
LEMMA ExecuteInv ==
  ASSUME Inv, TypeOK', NEW w \in Slot, NEW r \in Ref, Take(w, r),
         Execute(w, r, Head(queue[r]))
  PROVE  Inv'
<1> DEFINE j == Head(queue[r])
           n == jobNumber[r] + 1
           new == [slot |-> w, ref |-> r, number |-> n, job |-> j]
           entry == [number |-> n, job |-> j]
           s == pendingJobs[r]
<1>1. /\ running' = running \cup {new}
      /\ pendingJobs' = [pendingJobs EXCEPT ![r] = Append(s, entry)]
      /\ UNCHANGED <<completeFences, passed, completeNumber>>
      /\ jobNumber' = [jobNumber EXCEPT ![r] = n]
  BY DEF Execute, Take
<1>2. /\ pendingJobs \in [Ref -> Seq(Numbered)] /\ s \in Seq(Numbered)
      /\ jobNumber \in [Ref -> Nat] /\ n \in Nat /\ entry \in Numbered
      /\ completeNumber \in [Ref -> Nat]
      /\ j \in Job
  <2>1. j \in Job
    BY TakeQueue
  <2>2. pendingJobs \in [Ref -> Seq(Numbered)] /\ s \in Seq(Numbered)
    <3>1. pendingJobs \in [Ref -> Seq(Numbered)]
      BY DEF Inv, TypeOK
    <3> QED
      BY <3>1
  <2>3. jobNumber \in [Ref -> Nat] /\ n \in Nat /\ completeNumber \in [Ref -> Nat]
    <3>1. jobNumber \in [Ref -> Nat] /\ completeNumber \in [Ref -> Nat]
      BY DEF Inv, TypeOK
    <3> QED
      BY <3>1
  <2>4. entry \in Numbered
    BY <2>1, <2>3 DEF Numbered
  <2> QED
    BY <2>1, <2>2, <2>3, <2>4
<1>3. \A e \in running : e.job # j
  BY TakeQueue
<1>4. \A q \in Ref : RunningOn(q)' = IF q = r THEN RunningOn(q) \cup {new} ELSE RunningOn(q)
  BY <1>1 DEF RunningOn
<1>5. new \notin RunningOn(r)
  BY <1>3 DEF RunningOn
<1>6. PendingInv'
  <2> SUFFICES ASSUME NEW q \in Ref
               PROVE  /\ Distinct(pendingJobs'[q])
                      /\ Elements(pendingJobs'[q]) = {Entry(e) : e \in RunningOn(q)'}
                      /\ IsFiniteSet(RunningOn(q)')
                      /\ Len(pendingJobs'[q]) = Cardinality(RunningOn(q)')
    BY DEF PendingInv
  <2>0. /\ Distinct(pendingJobs[q])
        /\ Elements(pendingJobs[q]) = {Entry(e) : e \in RunningOn(q)}
        /\ IsFiniteSet(RunningOn(q))
        /\ Len(pendingJobs[q]) = Cardinality(RunningOn(q))
    BY DEF Inv, PendingInv
  <2>1. CASE q # r
    BY <2>0, <2>1, <1>1, <1>2, <1>4
  <2>2. CASE q = r
    <3>1. pendingJobs'[r] = Append(s, entry)
      BY <1>1, <1>2
    <3>2. RunningOn(r)' = RunningOn(r) \cup {new}
      BY <1>4
    <3>3. \A i \in DOMAIN s : s[i].job # j
      <4>1. \A i \in DOMAIN s : \E e \in RunningOn(r) : s[i] = Entry(e)
        BY <2>0, <2>2 DEF Elements
      <4> QED
        <5>1. \A e \in RunningOn(r) : e \in running /\ Entry(e).job = e.job
          BY DEF RunningOn, Entry
        <5> QED
          BY <4>1, <5>1, <1>3
    <3>4. /\ DOMAIN Append(s, entry) = (DOMAIN s) \cup {Len(s) + 1}
          /\ \A i \in DOMAIN s : Append(s, entry)[i] = s[i]
          /\ Append(s, entry)[Len(s) + 1] = entry
          /\ Len(Append(s, entry)) = Len(s) + 1
      BY <1>2
    <3>5. Distinct(Append(s, entry))
      BY <3>3, <3>4, <2>0, <2>2 DEF Distinct
    <3>6. Elements(Append(s, entry)) = Elements(s) \cup {entry}
      <4> HIDE DEF s, entry
      <4> QED
        BY <3>4, Zenon DEF Elements
    <3>7. {Entry(e) : e \in RunningOn(r) \cup {new}}
            = {Entry(e) : e \in RunningOn(r)} \cup {entry}
      <4>1. Entry(new) = entry
        BY DEF Entry
      <4> HIDE DEF new, entry
      <4> QED
        BY <4>1
    <3>8. /\ IsFiniteSet(RunningOn(r) \cup {new})
          /\ Cardinality(RunningOn(r) \cup {new}) = Cardinality(RunningOn(r)) + 1
      BY <2>0, <2>2, <1>5, FS_AddElement
    <3> HIDE DEF s, entry, new
    <3>9. Elements(pendingJobs'[r]) = {Entry(e) : e \in RunningOn(r)'}
      BY <2>0, <2>2, <3>1, <3>2, <3>6, <3>7, Zenon DEF s
    <3>10. Len(pendingJobs'[r]) = Cardinality(RunningOn(r)')
      BY <2>0, <2>2, <3>1, <3>2, <3>4, <3>8, Zenon DEF s
    <3> QED
      BY <2>2, <3>1, <3>2, <3>5, <3>8, <3>9, <3>10
  <2> QED
    BY <2>1, <2>2
<1>7. JobsInv'
  <2>1. \A e, f \in running' : e.job = f.job => e = f
    <3>1. \A e, f \in running : e.job = f.job => e = f
      BY DEF Inv, JobsInv
    <3> QED
      BY <3>1, <1>1, <1>3
  <2>2. \A q \in Ref : \A i \in DOMAIN queue'[q] : \A e \in running' : queue'[q][i] # e.job
    BY <1>1, TakeQueue
  <2>3. \A q, p \in Ref : \A i \in DOMAIN queue'[q], k \in DOMAIN queue'[p] :
          queue'[q][i] = queue'[p][k] => q = p /\ i = k
    BY TakeQueue
  <2> QED
    BY <2>1, <2>2, <2>3 DEF JobsInv
<1>8. \A q \in Ref : jobNumber[q] <= jobNumber'[q] /\ jobNumber[q] \in Nat
  BY <1>1, <1>2
<1>9. jobNumber'[r] = n /\ jobNumber[r] < n
  BY <1>1, <1>2
<1>10. NumberInv'
  <2>0. NumberInv
    BY DEF Inv
  <2>1. \A e \in running' :
          e.number <= jobNumber'[e.ref] /\ completeNumber'[e.ref] < e.number
    <3>1. ASSUME NEW e \in running
          PROVE  e.number <= jobNumber'[e.ref] /\ completeNumber'[e.ref] < e.number
      <4>1. e.ref \in Ref /\ e.number \in Nat
        BY RunningType DEF Inv
      <4>2. e.number <= jobNumber[e.ref] /\ completeNumber[e.ref] < e.number
        BY <2>0 DEF NumberInv
      <4>3. jobNumber[e.ref] <= jobNumber'[e.ref] /\ jobNumber[e.ref] \in Nat /\ jobNumber'[e.ref] \in Nat
        BY <4>1, <1>1, <1>2
      <4> QED
        BY <4>1, <4>2, <4>3, <1>1
    <3>2. n <= jobNumber'[r] /\ completeNumber'[r] < n
      BY <2>0, <1>1, <1>2, <1>9 DEF NumberInv
    <3> QED
      BY <3>1, <3>2, <1>1
  <2>2. \A q \in Ref : completeNumber'[q] <= jobNumber'[q]
    BY <2>0, <1>1, <1>2, <1>8 DEF NumberInv
  <2>3. \A f \in passed' : f.number <= jobNumber'[f.ref]
    <3> SUFFICES ASSUME NEW f \in passed PROVE f.number <= jobNumber'[f.ref]
      BY <1>1
    <3>1. f.ref \in Ref /\ f.number \in Nat
      BY RunningType DEF Inv
    <3>2. f.number <= jobNumber[f.ref]
      BY <2>0 DEF NumberInv
    <3>3. jobNumber[f.ref] <= jobNumber'[f.ref] /\ jobNumber[f.ref] \in Nat /\ jobNumber'[f.ref] \in Nat
      BY <3>1, <1>1, <1>2
    <3> QED
      BY <3>1, <3>2, <3>3
  <2> QED
    BY <2>1, <2>2, <2>3 DEF NumberInv
<1>11. FenceInv'
  <2>0. FenceInv /\ NumberInv
    BY DEF Inv
  <2>1. \A q \in Ref : FenceOrder(q)'
    <3> SUFFICES ASSUME NEW q \in Ref, NEW i \in DOMAIN completeFences[q]
                 PROVE  /\ completeFences[q][i].number <= jobNumber'[q]
                        /\ \A k \in DOMAIN completeFences[q] :
                             i < k => completeFences[q][i].number < completeFences[q][k].number
                        /\ \A e \in RunningOn(q)' : e.number # completeFences[q][i].number
      BY <1>1 DEF FenceOrder
    <3>1. completeFences[q][i].number \in Nat
      BY RunningType DEF Inv
    <3>2. /\ completeFences[q][i].number <= jobNumber[q]
          /\ \A k \in DOMAIN completeFences[q] :
                i < k => completeFences[q][i].number < completeFences[q][k].number
          /\ \A e \in RunningOn(q) : e.number # completeFences[q][i].number
      BY <2>0 DEF FenceInv, FenceOrder
    <3>3. jobNumber[q] <= jobNumber'[q] /\ jobNumber[q] \in Nat /\ jobNumber'[q] \in Nat
      BY <1>1, <1>2
    <3>4. q = r => n # completeFences[q][i].number
      BY <3>1, <3>2, <1>2
    <3>5. \A e \in RunningOn(q)' : e.number # completeFences[q][i].number
      BY <3>2, <3>4, <1>4
    <3> QED
      BY <3>1, <3>2, <3>3, <3>5
  <2>2. FenceAfterJobs'
    <3> SUFFICES ASSUME NEW f \in passed, NEW e \in RunningOn(f.ref)'
                 PROVE  f.number < e.number
      BY <1>1 DEF FenceAfterJobs
    <3>1. f.ref \in Ref /\ f.number \in Nat
      BY RunningType DEF Inv
    <3>2. CASE e \in RunningOn(f.ref)
      BY <3>2, <2>0 DEF FenceInv, FenceAfterJobs
    <3>3. CASE f.ref = r /\ e = new
      <4>1. f.number <= jobNumber[r]
        BY <3>3, <2>0 DEF NumberInv
      <4> QED
        BY <4>1, <3>1, <3>3, <1>2
    <3> QED
      BY <3>1, <3>2, <3>3, <1>4
  <2>3. NoFenceLeft'
    BY <2>0, <1>1, <1>4 DEF FenceInv, NoFenceLeft
  <2> QED
    BY <2>1, <2>2, <2>3 DEF FenceInv
<1> QED
  BY <1>6, <1>7, <1>10, <1>11 DEF Inv

\* The lists before a job is placed: who is pending is running.
LEMMA PendingRuns ==
  ASSUME Inv, NEW r \in Ref
  PROVE  pendingJobs[r] = <<>> <=> RunningOn(r) = {}
<1>1. /\ Elements(pendingJobs[r]) = {Entry(e) : e \in RunningOn(r)}
      /\ pendingJobs[r] \in Seq(Numbered)
  <2>1. pendingJobs \in [Ref -> Seq(Numbered)]
    BY DEF Inv, TypeOK
  <2> QED
    BY <2>1 DEF Inv, PendingInv
<1>2. pendingJobs[r] = <<>> <=> Elements(pendingJobs[r]) = {}
  <2>1. pendingJobs[r] = <<>> => DOMAIN pendingJobs[r] = {}
    OBVIOUS
  <2>2. pendingJobs[r] # <<>> => 1 \in DOMAIN pendingJobs[r]
    BY <1>1
  <2> QED
    BY <2>1, <2>2 DEF Elements
<1> QED
  BY <1>1, <1>2

\* A job under the lock gives out a number and places a fence or a barrier.
LEMMA CallBackInv ==
  ASSUME Inv, TypeOK', NEW w \in Slot, NEW r \in Ref, Take(w, r),
         CallBack(w, r, Head(queue[r]))
  PROVE  Inv'
<1> DEFINE j == Head(queue[r])
           n == jobNumber[r] + 1
           s == completeFences[r]
           entry == [number |-> n, job |-> j]
           fence == [ref |-> r, number |-> n, job |-> j]
<1>1. /\ UNCHANGED <<pendingJobs, running, completeNumber>>
      /\ jobNumber' = [jobNumber EXCEPT ![r] = n]
  BY DEF CallBack, Take
<1>2. /\ jobNumber \in [Ref -> Nat] /\ completeNumber \in [Ref -> Nat]
      /\ completeFences \in [Ref -> Seq(Numbered)]
  BY DEF Inv, TypeOK
<1>3. n \in Nat /\ s \in Seq(Numbered) /\ j \in Job
  BY <1>2, TakeQueue
<1>4. \/ passed' = passed \cup {fence} /\ UNCHANGED completeFences /\ pendingJobs[r] = <<>>
      \/ /\ completeFences' = [completeFences EXCEPT ![r] = Append(s, entry)]
         /\ UNCHANGED passed /\ pendingJobs[r] # <<>>
      \/ UNCHANGED <<completeFences, passed>>
  BY DEF CallBack, PlaceFence
<1> HIDE DEF j
<1>5. \A q \in Ref : RunningOn(q)' = RunningOn(q)
  BY <1>1 DEF RunningOn
<1>6. PendingInv'
  BY <1>1, <1>5 DEF Inv, PendingInv
<1>7. JobsInv'
  <2>1. \A e, f \in running : e.job = f.job => e = f
    BY DEF Inv, JobsInv
  <2>2. \A q \in Ref : \A i \in DOMAIN queue'[q] : \A e \in running : queue'[q][i] # e.job
    BY TakeQueue
  <2>3. \A q, p \in Ref : \A i \in DOMAIN queue'[q], k \in DOMAIN queue'[p] :
          queue'[q][i] = queue'[p][k] => q = p /\ i = k
    BY TakeQueue
  <2> QED
    BY <1>1, <2>1, <2>2, <2>3 DEF JobsInv
<1>8. \A q \in Ref : /\ jobNumber[q] <= jobNumber'[q]
                    /\ jobNumber[q] \in Nat /\ jobNumber'[q] \in Nat
  BY <1>1, <1>2
<1>9. jobNumber'[r] = n /\ jobNumber[r] < n
  BY <1>1, <1>2
<1>10. NumberInv /\ FenceInv
  BY DEF Inv
<1>11. NumberInv'
  <2>1. \A e \in running :
          e.number <= jobNumber'[e.ref] /\ completeNumber[e.ref] < e.number
    <3> SUFFICES ASSUME NEW e \in running
                 PROVE  e.number <= jobNumber'[e.ref] /\ completeNumber[e.ref] < e.number
      OBVIOUS
    <3>1. e.ref \in Ref /\ e.number \in Nat
      BY RunningType DEF Inv
    <3>2. e.number <= jobNumber[e.ref] /\ completeNumber[e.ref] < e.number
      BY <1>10 DEF NumberInv
    <3>3. jobNumber[e.ref] <= jobNumber'[e.ref] /\ jobNumber[e.ref] \in Nat /\ jobNumber'[e.ref] \in Nat
      BY <3>1, <1>8
    <3> QED
      BY <3>1, <3>2, <3>3
  <2>2. \A q \in Ref : completeNumber[q] <= jobNumber'[q]
    <3> SUFFICES ASSUME NEW q \in Ref PROVE completeNumber[q] <= jobNumber'[q]
      OBVIOUS
    <3>1. completeNumber[q] <= jobNumber[q] /\ completeNumber[q] \in Nat
      BY <1>2, <1>10 DEF NumberInv
    <3> QED
      BY <3>1, <1>8
  <2>3. \A f \in passed : f.number <= jobNumber'[f.ref]
    <3> SUFFICES ASSUME NEW f \in passed PROVE f.number <= jobNumber'[f.ref]
      OBVIOUS
    <3>1. f.ref \in Ref /\ f.number \in Nat
      BY RunningType DEF Inv
    <3>2. f.number <= jobNumber[f.ref]
      BY <1>10 DEF NumberInv
    <3>3. jobNumber[f.ref] <= jobNumber'[f.ref] /\ jobNumber[f.ref] \in Nat /\ jobNumber'[f.ref] \in Nat
      BY <3>1, <1>8
    <3> QED
      BY <3>1, <3>2, <3>3
  <2>4. fence.number <= jobNumber'[fence.ref]
    BY <1>3, <1>9
  <2>5. passed' \subseteq passed \cup {fence}
    BY <1>4
  <2>6. \A f \in passed' : f.number <= jobNumber'[f.ref]
    BY <2>3, <2>4, <2>5
  <2> QED
    BY <1>1, <2>1, <2>2, <2>6 DEF NumberInv
<1>12. ASSUME NEW q \in Ref, NEW i \in DOMAIN completeFences[q]
       PROVE  /\ completeFences[q][i].number \in Nat
              /\ completeFences[q][i].number <= jobNumber[q]
              /\ completeFences[q][i].number <= jobNumber'[q]
              /\ \A k \in DOMAIN completeFences[q] :
                   i < k => completeFences[q][i].number < completeFences[q][k].number
              /\ \A e \in RunningOn(q) : e.number # completeFences[q][i].number
  <2>1. completeFences[q][i].number \in Nat
    BY RunningType DEF Inv
  <2>2. /\ completeFences[q][i].number <= jobNumber[q]
        /\ \A k \in DOMAIN completeFences[q] :
              i < k => completeFences[q][i].number < completeFences[q][k].number
        /\ \A e \in RunningOn(q) : e.number # completeFences[q][i].number
    BY <1>10 DEF FenceInv, FenceOrder
  <2> QED
    BY <2>1, <2>2, <1>8
<1>13. ASSUME UNCHANGED completeFences
       PROVE  (\A q \in Ref : FenceOrder(q)') /\ NoFenceLeft'
  <2>1. \A q \in Ref : FenceOrder(q)'
    BY <1>12, <1>13, <1>5 DEF FenceOrder
  <2>2. NoFenceLeft'
    BY <1>10, <1>13, <1>5 DEF FenceInv, NoFenceLeft
  <2> QED
    BY <2>1, <2>2
<1>14. ASSUME UNCHANGED passed
       PROVE  FenceAfterJobs'
  BY <1>14, <1>1, <1>10 DEF FenceInv, FenceAfterJobs, RunningOn
<1>15. CASE UNCHANGED <<completeFences, passed>>
  BY <1>15, <1>6, <1>7, <1>11, <1>13, <1>14 DEF Inv, FenceInv
<1>16. CASE passed' = passed \cup {fence} /\ UNCHANGED completeFences /\ pendingJobs[r] = <<>>
  <2>1. RunningOn(r) = {}
    BY <1>16, PendingRuns
  <2>2. FenceAfterJobs'
    <3> SUFFICES ASSUME NEW f \in passed', NEW e \in RunningOn(f.ref)'
                 PROVE  f.number < e.number
      BY DEF FenceAfterJobs
    <3>1. CASE f \in passed
      <4>1. f.ref \in Ref
        BY <3>1, RunningType DEF Inv
      <4> QED
        BY <3>1, <4>1, <1>5, <1>10 DEF FenceInv, FenceAfterJobs
    <3>2. CASE f = fence
      BY <3>2, <2>1, <1>5
    <3> QED
      BY <3>1, <3>2, <1>16
  <2> QED
    BY <1>16, <2>2, <1>6, <1>7, <1>11, <1>13 DEF Inv, FenceInv
<1>17. CASE /\ completeFences' = [completeFences EXCEPT ![r] = Append(s, entry)]
            /\ UNCHANGED passed /\ pendingJobs[r] # <<>>
  <2>1. /\ DOMAIN Append(s, entry) = (DOMAIN s) \cup {Len(s) + 1}
        /\ \A i \in DOMAIN s : Append(s, entry)[i] = s[i] /\ i < Len(s) + 1 /\ i \in Int
        /\ Append(s, entry)[Len(s) + 1] = entry
        /\ Len(s) + 1 \notin DOMAIN s /\ Len(s) + 1 \in Int
    BY <1>3
  <2>2. completeFences'[r] = Append(s, entry)
    BY <1>17, <1>2
  <2>3. \A q \in Ref : q # r => completeFences'[q] = completeFences[q]
    BY <1>17, <1>2
  <2>4. \A q \in Ref : FenceOrder(q)'
    <3> SUFFICES ASSUME NEW q \in Ref, NEW i \in DOMAIN completeFences'[q]
                 PROVE  /\ completeFences'[q][i].number <= jobNumber'[q]
                        /\ \A k \in DOMAIN completeFences'[q] :
                             i < k => completeFences'[q][i].number < completeFences'[q][k].number
                        /\ \A e \in RunningOn(q)' : e.number # completeFences'[q][i].number
      BY DEF FenceOrder
    <3>1. CASE q # r
      BY <3>1, <2>3, <1>5, <1>12
    <3>2. CASE q = r /\ i \in DOMAIN s
      <4>1. completeFences'[q][i] = s[i] /\ s[i].number \in Nat
            /\ s[i].number <= jobNumber[r] /\ s[i].number <= jobNumber'[r]
        BY <3>2, <2>1, <2>2, <1>12
      <4>2. s[i].number < entry.number
        BY <4>1, <1>9, <1>8
      <4>3. ASSUME NEW k \in DOMAIN completeFences'[r], i < k
            PROVE  s[i].number < completeFences'[r][k].number
        <5>1. CASE k \in DOMAIN s
          BY <5>1, <4>3, <3>2, <2>1, <2>2, <1>12
        <5>2. CASE k = Len(s) + 1
          BY <5>2, <4>2, <2>1, <2>2
        <5> QED
          BY <5>1, <5>2, <2>1, <2>2
      <4>4. \A e \in RunningOn(r)' : e.number # s[i].number
        BY <3>2, <1>5, <1>12
      <4> QED
        BY <3>2, <4>1, <4>3, <4>4
    <3>3. CASE q = r /\ i = Len(s) + 1
      <4>1. completeFences'[q][i].number = n
        BY <3>3, <2>1, <2>2
      <4>2. \A k \in DOMAIN completeFences'[q] : ~(i < k)
        BY <3>3, <2>1, <2>2
      <4>3. \A e \in RunningOn(r) : e.number # n
        <5> SUFFICES ASSUME NEW e \in RunningOn(r) PROVE e.number # n
          OBVIOUS
        <5>1. e \in running /\ e.ref = r
          BY DEF RunningOn
        <5>2. e.number \in Nat
          BY <5>1, RunningType DEF Inv
        <5>3. e.number <= jobNumber[r]
          BY <5>1, <1>10 DEF NumberInv
        <5> QED
          BY <5>2, <5>3, <1>8, <1>9
      <4> QED
        BY <3>3, <4>1, <4>2, <4>3, <1>3, <1>5, <1>9
    <3> QED
      BY <3>1, <3>2, <3>3, <2>1, <2>2
  <2>5. NoFenceLeft'
    <3> SUFFICES ASSUME NEW q \in Ref, NEW i \in DOMAIN completeFences'[q]
                 PROVE  \E e \in RunningOn(q)' : e.number < completeFences'[q][i].number
      BY DEF NoFenceLeft, Elements
    <3>1. ASSUME NEW p \in Ref, NEW k \in DOMAIN completeFences[p]
          PROVE  \E e \in RunningOn(p) : e.number < completeFences[p][k].number
      BY <1>10 DEF FenceInv, NoFenceLeft, Elements
    <3>2. CASE q # r
      BY <3>1, <3>2, <2>3, <1>5
    <3>3. CASE q = r /\ i \in DOMAIN s
      BY <3>1, <3>3, <2>1, <2>2, <1>5
    <3>4. CASE q = r /\ i = Len(s) + 1
      <4>1. PICK e \in RunningOn(r) : TRUE
        BY <1>17, PendingRuns
      <4>2. e \in running /\ e.ref = r
        BY DEF RunningOn
      <4>3. e.number \in Nat
        BY <4>2, RunningType DEF Inv
      <4>4. e.number <= jobNumber[r]
        BY <4>2, <1>10 DEF NumberInv
      <4>5. e.number < n
        BY <4>3, <4>4, <1>8, <1>9
      <4>6. completeFences'[q][i].number = n
        BY <3>4, <2>1, <2>2
      <4> QED
        BY <3>4, <4>1, <4>5, <4>6, <1>5
    <3> QED
      BY <3>2, <3>3, <3>4, <2>1, <2>2
  <2> QED
    BY <1>17, <2>4, <2>5, <1>6, <1>7, <1>11, <1>14 DEF Inv, FenceInv
<1> QED
  BY <1>4, <1>15, <1>16, <1>17

\* A job finishes: its entry goes, the least open number is found and the
\* fences up to it pass.
LEMMA CompleteInv ==
  ASSUME Inv, TypeOK', NEW e \in running, Complete(e)
  PROVE  /\ Inv'
         /\ \A q \in Ref : completeNumber[q] <= completeNumber'[q]
<1> DEFINE r == e.ref
           s == pendingJobs[r]
           rest == Unpend(s, e.job)
           F == completeFences[r]
<1>1. r \in Ref /\ e.job \in Job /\ e.number \in Nat /\ e \in RunningOn(r)
  BY RunningType DEF Inv, RunningOn
<1>2. PICK n \in 0..jobNumber[r] :
        /\ CompleteUpTo(r, rest, n)
        /\ completeNumber' = [completeNumber EXCEPT ![r] = n]
        /\ PassFences(r, n)
  BY DEF Complete
<1>3. PICK m \in 0..Len(F) :
        /\ \A i \in 1..m : F[i].number <= n
        /\ m < Len(F) => n < F[m + 1].number
        /\ passed' = passed \cup
             {[ref |-> r, number |-> F[i].number, job |-> F[i].job] : i \in 1..m}
        /\ completeFences' = [completeFences EXCEPT ![r] = SubSeq(F, m + 1, Len(F))]
  BY <1>2 DEF PassFences
<1>4. /\ running' = running \ {e}
      /\ pendingJobs' = [pendingJobs EXCEPT ![r] = rest]
      /\ UNCHANGED <<queue, jobNumber>>
  BY DEF Complete
<1>5. /\ jobNumber \in [Ref -> Nat] /\ completeNumber \in [Ref -> Nat]
      /\ completeFences \in [Ref -> Seq(Numbered)] /\ pendingJobs \in [Ref -> Seq(Numbered)]
  BY DEF Inv, TypeOK
<1>6. F \in Seq(Numbered) /\ s \in Seq(Numbered) /\ n \in Nat /\ jobNumber[r] \in Nat
  BY <1>1, <1>5
<1>7. /\ Distinct(s) /\ Elements(s) = {Entry(f) : f \in RunningOn(r)}
      /\ IsFiniteSet(RunningOn(r)) /\ Len(s) = Cardinality(RunningOn(r))
  BY <1>1 DEF Inv, PendingInv
<1>8. PICK h \in DOMAIN s : s[h].job = e.job
  <2>1. Entry(e) \in Elements(s)
    BY <1>1, <1>7
  <2>2. PICK h \in DOMAIN s : s[h] = Entry(e)
    BY <2>1 DEF Elements
  <2> QED
    BY <2>2 DEF Entry
<1>9. /\ Elements(rest) = {x \in Elements(s) : x.job # e.job} /\ Distinct(rest)
  <2> HIDE DEF r, s
  <2> QED
    BY <1>1, <1>6, <1>7, <1>8, UnpendElements
<1>10. Len(rest) = Len(s) - 1 /\ rest \in Seq(Numbered)
  <2>1. s # <<>>
    BY <1>8
  <2> HIDE DEF r, s
  <2> QED
    BY <2>1, <1>1, <1>6, UnpendType
<1>11. \A f, g \in running : f.job = g.job => f = g
  BY DEF Inv, JobsInv
<1>12. \A q \in Ref : RunningOn(q)' = IF q = r THEN RunningOn(r) \ {e} ELSE RunningOn(q)
  BY <1>4 DEF RunningOn
<1>13. Elements(rest) = {Entry(f) : f \in RunningOn(r) \ {e}}
  <2>1. \A f \in RunningOn(r) : Entry(f).job = f.job /\ f \in running
    BY DEF Entry, RunningOn
  <2>2. \A f \in RunningOn(r) : Entry(f).job # e.job <=> f # e
    BY <2>1, <1>1, <1>11
  <2> HIDE DEF r, s, rest
  <2> QED
    BY <2>2, <1>7, <1>9
<1>14. pendingJobs'[r] = rest /\ \A q \in Ref : q # r => pendingJobs'[q] = pendingJobs[q]
  BY <1>1, <1>4, <1>5
<1>15. PendingInv'
  <2> SUFFICES ASSUME NEW q \in Ref
               PROVE  /\ Distinct(pendingJobs'[q])
                      /\ Elements(pendingJobs'[q]) = {Entry(f) : f \in RunningOn(q)'}
                      /\ IsFiniteSet(RunningOn(q)')
                      /\ Len(pendingJobs'[q]) = Cardinality(RunningOn(q)')
    BY DEF PendingInv
  <2>1. CASE q # r
    <3>1. /\ Distinct(pendingJobs[q])
          /\ Elements(pendingJobs[q]) = {Entry(f) : f \in RunningOn(q)}
          /\ IsFiniteSet(RunningOn(q))
          /\ Len(pendingJobs[q]) = Cardinality(RunningOn(q))
      BY DEF Inv, PendingInv
    <3> HIDE DEF r
    <3> QED
      BY <3>1, <2>1, <1>12, <1>14
  <2>2. CASE q = r
    <3>1. /\ IsFiniteSet(RunningOn(r) \ {e})
          /\ Cardinality(RunningOn(r) \ {e}) = Cardinality(RunningOn(r)) - 1
      BY <1>1, <1>7, FS_RemoveElement
    <3> HIDE DEF r, s, rest
    <3> QED
      BY <3>1, <2>2, <1>1, <1>7, <1>9, <1>10, <1>12, <1>13, <1>14
  <2> QED
    BY <2>1, <2>2
<1>16. JobsInv'
  <2>1. /\ running' \subseteq running /\ queue' = queue
    BY <1>4
  <2> QED
    BY <2>1 DEF Inv, JobsInv
\* The number found is below every running job of the ref.
<1>17. \A f \in RunningOn(r) \ {e} : n < f.number
  <2> SUFFICES ASSUME NEW f \in RunningOn(r) \ {e} PROVE n < f.number
    OBVIOUS
  <2>1. Entry(f) \in Elements(rest)
    BY <1>13
  <2>2. f.number \in Nat
    BY RunningType DEF Inv, RunningOn
  <2>3. n <= Entry(f).number - 1
    BY <1>2, <2>1 DEF CompleteUpTo
  <2> QED
    BY <2>2, <2>3, <1>6 DEF Entry
\* It is the last number, or one below a running job's.
<1>18. n = jobNumber[r] \/ \E f \in RunningOn(r) \ {e} : n = f.number - 1
  <2>1. n \in {jobNumber[r]} \cup {x.number - 1 : x \in Elements(rest)}
    BY <1>2 DEF CompleteUpTo
  <2>2. \A f \in RunningOn(r) : Entry(f).number = f.number
    BY DEF Entry
  <2> HIDE DEF r, rest
  <2> QED
    BY <2>1, <2>2, <1>13
<1>19. NumberInv
  BY DEF Inv
<1>20. \A q \in Ref : completeNumber'[q] = IF q = r THEN n ELSE completeNumber[q]
  BY <1>1, <1>2, <1>5
<1>21. completeNumber[r] <= n
  <2>1. CASE n = jobNumber[r]
    BY <2>1, <1>1, <1>19 DEF NumberInv
  <2>2. ASSUME NEW f \in RunningOn(r) \ {e}, n = f.number - 1 PROVE completeNumber[r] <= n
    <3>1. f \in running /\ f.ref = r
      BY DEF RunningOn
    <3>2. completeNumber[r] < f.number
      BY <3>1, <1>19 DEF NumberInv
    <3>3. f.number \in Nat /\ completeNumber[r] \in Nat
      BY <3>1, <1>1, RunningType DEF Inv
    <3> QED
      BY <2>2, <3>2, <3>3
  <2> QED
    BY <2>1, <2>2, <1>18
<1>22. \A i \in 1..m : F[i].number \in Nat /\ F[i].number <= jobNumber[r] /\ i \in DOMAIN F
  <2> SUFFICES ASSUME NEW i \in 1..m
               PROVE  F[i].number \in Nat /\ F[i].number <= jobNumber[r] /\ i \in DOMAIN F
    OBVIOUS
  <2>1. i \in DOMAIN F
    BY <1>6
  <2>2. F[i].number \in Nat
    BY <1>1, <2>1, RunningType DEF Inv
  <2>3. F[i].number <= jobNumber[r]
    BY <1>1, <2>1 DEF Inv, FenceInv, FenceOrder
  <2> QED
    BY <2>1, <2>2, <2>3
<1>23. NumberInv'
  <2>1. \A f \in running' :
          f.number <= jobNumber'[f.ref] /\ completeNumber'[f.ref] < f.number
    <3> SUFFICES ASSUME NEW f \in running, f # e
                 PROVE  f.number <= jobNumber[f.ref] /\ completeNumber'[f.ref] < f.number
      BY <1>4
    <3>1. f.ref \in Ref /\ f.number <= jobNumber[f.ref] /\ completeNumber[f.ref] < f.number
      BY <1>19, RunningType DEF NumberInv, Inv
    <3>2. f.ref = r => n < f.number
      BY <1>17 DEF RunningOn
    <3> QED
      BY <3>1, <3>2, <1>20
  <2>2. \A q \in Ref : completeNumber'[q] <= jobNumber'[q]
    BY <1>2, <1>4, <1>6, <1>19, <1>20 DEF NumberInv
  <2>3. \A f \in passed' : f.number <= jobNumber'[f.ref]
    BY <1>3, <1>4, <1>19, <1>22 DEF NumberInv
  <2> QED
    BY <2>1, <2>2, <2>3 DEF NumberInv
<1>24. /\ \A q \in Ref : q # r => completeFences'[q] = completeFences[q]
       /\ completeFences'[r] = SubSeq(F, m + 1, Len(F))
  BY <1>1, <1>3, <1>5
<1>25. \A i \in DOMAIN completeFences'[r] :
         i + m \in DOMAIN F /\ completeFences'[r][i] = F[i + m] /\ i + m >= m + 1 /\ i \in Int
  <2> DEFINE T == SubSeq(F, m + 1, Len(F))
  <2>1. m \in Nat /\ Len(F) \in Nat /\ m <= Len(F) /\ DOMAIN F = 1..Len(F)
    BY <1>6
  <2>2. DOMAIN T = 1..(Len(F) - m)
    BY <1>6, <2>1
  <2>3. ASSUME NEW i \in 1..(Len(F) - m)
        PROVE  T[i] = F[i + m]
    BY <1>6, <2>1, <2>3, SuffixPlaces
  <2>4. \A i \in 1..(Len(F) - m) : i + m \in 1..Len(F) /\ i + m >= m + 1 /\ i \in Int
    BY <2>1
  <2> HIDE DEF T
  <2>5. completeFences'[r] = T
    BY <1>24 DEF T
  <2> QED
    BY <2>1, <2>2, <2>3, <2>4, <2>5
<1>26. FenceInv
  BY DEF Inv
<1>27. \A q \in Ref : FenceOrder(q)'
  <2> SUFFICES ASSUME NEW q \in Ref, NEW i \in DOMAIN completeFences'[q]
               PROVE  /\ completeFences'[q][i].number <= jobNumber[q]
                      /\ \A k \in DOMAIN completeFences'[q] :
                           i < k => completeFences'[q][i].number < completeFences'[q][k].number
                      /\ \A f \in RunningOn(q)' : f.number # completeFences'[q][i].number
    BY <1>4 DEF FenceOrder
  <2>1. ASSUME NEW p \in Ref, NEW g \in DOMAIN completeFences[p]
        PROVE  /\ completeFences[p][g].number <= jobNumber[p]
               /\ \A k \in DOMAIN completeFences[p] :
                    g < k => completeFences[p][g].number < completeFences[p][k].number
               /\ \A f \in RunningOn(p) : f.number # completeFences[p][g].number
    BY <1>26 DEF FenceInv, FenceOrder
  <2>2. \A f \in RunningOn(q)' : f \in RunningOn(q)
    BY <1>12
  <2>3. CASE q # r
    BY <2>1, <2>2, <2>3, <1>24
  <2>4. CASE q = r
    <3>1. i + m \in DOMAIN F /\ completeFences'[r][i] = F[i + m] /\ i \in Int
      BY <2>4, <1>25
    <3>2. \A k \in DOMAIN completeFences'[r] :
            i < k => i + m < k + m /\ k + m \in DOMAIN F /\ completeFences'[r][k] = F[k + m]
      BY <3>1, <1>25
    <3> QED
      BY <2>1, <2>2, <2>4, <3>1, <3>2, <1>1
  <2> QED
    BY <2>3, <2>4
<1>28. FenceAfterJobs'
  <2> SUFFICES ASSUME NEW f \in passed', NEW g \in RunningOn(f.ref)'
               PROVE  f.number < g.number
    BY DEF FenceAfterJobs
  <2>1. CASE f \in passed
    <3>1. f.ref \in Ref
      BY <2>1, RunningType DEF Inv
    <3>2. g \in RunningOn(f.ref)
      BY <3>1, <1>12
    <3> QED
      BY <2>1, <3>2, <1>26 DEF FenceInv, FenceAfterJobs
  <2>2. CASE f \notin passed
    <3>1. PICK i \in 1..m : f.ref = r /\ f.number = F[i].number
      BY <2>2, <1>3
    <3>2. F[i].number \in Nat /\ F[i].number <= n
      BY <1>3, <1>22
    <3>3. g \in RunningOn(r) \ {e}
      BY <3>1, <1>1, <1>12
    <3>4. g.number \in Nat /\ n < g.number
      BY <3>3, <1>17, RunningType DEF Inv, RunningOn
    <3> QED
      BY <3>1, <3>2, <3>4, <1>6
  <2> QED
    BY <2>1, <2>2
<1>29. NoFenceLeft'
  <2> SUFFICES ASSUME NEW q \in Ref, NEW i \in DOMAIN completeFences'[q]
               PROVE  \E f \in RunningOn(q)' : f.number < completeFences'[q][i].number
    BY DEF NoFenceLeft, Elements
  <2>1. CASE q # r
    <3>1. i \in DOMAIN completeFences[q] /\ completeFences'[q] = completeFences[q]
      BY <2>1, <1>24
    <3>2. \E f \in RunningOn(q) : f.number < completeFences[q][i].number
      BY <3>1, <1>26 DEF FenceInv, NoFenceLeft, Elements
    <3> QED
      BY <2>1, <3>1, <3>2, <1>12
  <2>2. CASE q = r
    <3>1. i + m \in DOMAIN F /\ completeFences'[r][i] = F[i + m] /\ i + m >= m + 1 /\ i \in Int
      BY <2>2, <1>25
    <3>2. m < Len(F) /\ m + 1 \in DOMAIN F /\ m \in Nat
      BY <3>1, <1>6
    <3>3. F[m + 1].number \in Nat /\ F[i + m].number \in Nat
      BY <1>1, <3>1, <3>2, RunningType DEF Inv
    <3>4. F[m + 1].number <= F[i + m].number
      <4>1. CASE i + m = m + 1
        BY <4>1, <3>3
      <4>2. CASE m + 1 < i + m
        <5>1. F[m + 1].number < F[i + m].number
          BY <4>2, <3>1, <3>2, <1>1, <1>26 DEF FenceInv, FenceOrder
        <5> QED
          BY <5>1, <3>3
      <4> QED
        BY <4>1, <4>2, <3>1, <3>2
    <3>5. n < F[i + m].number
      BY <3>2, <3>3, <3>4, <1>3, <1>6
    <3>6. F[i + m].number <= jobNumber[r]
      BY <3>1, <1>1, <1>26 DEF FenceInv, FenceOrder
    <3>7. n # jobNumber[r]
      BY <3>3, <3>5, <3>6, <1>6
    <3>8. PICK f \in RunningOn(r) \ {e} : n = f.number - 1
      BY <3>7, <1>18
    <3>9. f.number \in Nat /\ f.number # F[i + m].number
      <4>1. f.number \in Nat
        BY RunningType DEF Inv, RunningOn
      <4>2. f.number # F[i + m].number
        BY <3>1, <1>1, <1>26 DEF FenceInv, FenceOrder
      <4> QED
        BY <4>1, <4>2
    <3>10. f.number < F[i + m].number
      BY <3>3, <3>5, <3>8, <3>9, <1>6
    <3> QED
      BY <2>2, <3>1, <3>10, <1>1, <1>12
  <2> QED
    BY <2>1, <2>2
<1>30. Inv'
  BY <1>15, <1>16, <1>23, <1>27, <1>28, <1>29 DEF Inv, FenceInv
<1>31. \A q \in Ref : completeNumber[q] <= completeNumber'[q]
  <2> SUFFICES ASSUME NEW q \in Ref PROVE completeNumber[q] <= completeNumber'[q]
    OBVIOUS
  <2>1. CASE q = r
    BY <2>1, <1>1, <1>20, <1>21
  <2>2. CASE q # r
    <3>1. completeNumber'[q] = completeNumber[q] /\ completeNumber[q] \in Nat
      BY <2>2, <1>5, <1>20
    <3> QED
      BY <3>1
  <2> QED
    BY <2>1, <2>2
<1> QED
  BY <1>30, <1>31

LEMMA StepInv ==
  ASSUME Inv, [Next]_vars
  PROVE  /\ Inv'
         /\ \A q \in Ref : completeNumber[q] <= completeNumber'[q]
<1>1. \A q \in Ref : completeNumber[q] <= completeNumber[q]
  <2>1. \A q \in Ref : completeNumber[q] \in Nat
    BY RunningType DEF Inv
  <2> QED
    BY <2>1
<1>2. TypeOK
  BY DEF Inv
<1>3. ASSUME NEW c \in Client, ClientStep(c)
      PROVE  Inv' /\ UNCHANGED completeNumber
  <2>1. ASSUME NEW r \in Ref, NEW j \in Job, AddJob(c, r, j)
        PROVE  Inv' /\ UNCHANGED completeNumber
    BY <2>1, AddJobInv DEF AddJob
  <2>2. TypeOK'
    BY <1>2, <1>3, ClientType
  <2>3. ASSUME NEW r \in Ref, ReleaseBarrier(c, r)
        PROVE  Inv' /\ UNCHANGED completeNumber
    BY <2>2, <2>3, OtherSteps DEF ReleaseBarrier
  <2>4. CASE SignalAdd(c)
    BY <2>2, <2>4, OtherSteps DEF SignalAdd, jobVars
  <2> QED
    BY <1>3, <2>1, <2>3, <2>4 DEF ClientStep
<1>4. ASSUME NEW f \in passed, ReuseFence(f)
      PROVE  Inv' /\ UNCHANGED completeNumber
  <2>1. TypeOK'
    BY <1>2, <1>4 DEF ReuseFence, TypeOK, threadVars
  <2> QED
    BY <1>4, <2>1, OtherSteps DEF ReuseFence
<1>5. ASSUME NEW w \in Slot, WorkerStep(w)
      PROVE  Inv' /\ \A q \in Ref : completeNumber[q] <= completeNumber'[q]
  <2>1. \A e \in running : pendingJobs[e.ref] # <<>>
    <3> SUFFICES ASSUME NEW e \in running PROVE pendingJobs[e.ref] # <<>>
      OBVIOUS
    <3>1. e.ref \in Ref /\ e \in RunningOn(e.ref)
      BY <1>2, RunningType DEF RunningOn
    <3> QED
      BY <3>1, PendingRuns
  <2>2. TypeOK'
    BY <1>2, <1>5, <2>1, WorkerType
  <2>3. CASE LeaveWhenDone(w)
    BY <2>2, <2>3, <1>1, OtherSteps DEF LeaveWhenDone, jobVars
  <2>4. CASE Idle(w)
    BY <2>2, <2>4, <1>1, OtherSteps DEF Idle
  <2>5. CASE Wake(w)
    BY <2>2, <2>5, <1>1, OtherSteps DEF Wake, jobVars
  <2>6. CASE Leave(w)
    BY <2>2, <2>6, <1>1, OtherSteps DEF Leave, jobVars
  <2>7. CASE End(w)
    BY <2>2, <2>7, <1>1, OtherSteps DEF End, jobVars
  <2>8. ASSUME NEW r \in Ref, Take(w, r)
        PROVE  Inv' /\ UNCHANGED completeNumber
    <3>1. CASE Execute(w, r, Head(queue[r]))
      BY <3>1, <2>2, <2>8, ExecuteInv DEF Take
    <3>2. CASE CallBack(w, r, Head(queue[r]))
      BY <3>2, <2>2, <2>8, CallBackInv DEF Take
    <3> QED
      BY <3>1, <3>2, <2>8 DEF Take
  <2>9. ASSUME NEW e \in running, Complete(e)
        PROVE  Inv' /\ \A q \in Ref : completeNumber[q] <= completeNumber'[q]
    BY <2>2, <2>9, CompleteInv
  <2> QED
    BY <1>1, <1>5, <2>3, <2>4, <2>5, <2>6, <2>7, <2>8, <2>9 DEF WorkerStep
<1>6. CASE MainStep
  <2>1. TypeOK'
    BY <1>2, <1>6, MainType
  <2>2. UNCHANGED jobVars
    BY <1>6 DEF MainStep, StopStep, StartFlag, StartSlot, StopFlag, StopSignal, Join
  <2> QED
    BY <2>1, <2>2, <1>1, OtherSteps DEF jobVars
<1>7. CASE UNCHANGED vars
  <2>1. TypeOK'
    BY <1>2, <1>7 DEF TypeOK, vars, jobVars, threadVars
  <2> QED
    BY <2>1, <1>1, <1>7, OtherSteps DEF vars, jobVars
<1> QED
  BY <1>1, <1>3, <1>4, <1>5, <1>6, <1>7 DEF Next

LEMMA Invariance == Spec => []Inv
<1>1. Inv /\ [Next]_vars => Inv'
  BY StepInv
<1> QED
  BY InitInv, <1>1, PTL DEF Spec

-----------------------------------------------------------------------------
(* The theorems *)

\* Every variable keeps its type: numbers and indices are never negative and
\* the lists hold numbered jobs.
THEOREM TypeCorrect == Spec => []TypeOK
BY Invariance, PTL DEF Inv

\* A fence passes after all the jobs before it and is never left behind, for
\* any number of workers that finish in any order.
THEOREM FencesInOrder == Spec => [](FenceAfterJobs /\ NoFenceLeft)
<1>1. Inv => FenceAfterJobs /\ NoFenceLeft
  BY DEF Inv, FenceInv
<1> QED
  BY Invariance, <1>1, PTL

\* SignalExeComplete always finds and removes the right entry, whatever the
\* order of completion, and the complete number stays below every running job.
THEOREM NumbersCorrect == Spec => []NumbersSound
<1>1. Inv => PendingExact
  BY DEF Inv, PendingInv, PendingExact, Entry
<1>2. Inv => CompleteNumberSound
  BY DEF Inv, NumberInv, CompleteNumberSound
<1>3. Inv => NumbersSound
  BY <1>1, <1>2 DEF NumbersSound
<1> QED
  BY Invariance, <1>3, PTL

\* The complete number only grows.
THEOREM CompleteNumberMonotone == Spec => CompleteNumberGrows
<1>1. Inv /\ [Next]_vars => [\A r \in Ref : completeNumber[r] <= completeNumber'[r]]_vars
  BY StepInv
<1> QED
  BY Invariance, <1>1, PTL DEF Spec, CompleteNumberGrows

-----------------------------------------------------------------------------
(* The threads: Start, Stop and the signals *)

\* A worker executes one job at a time.
RunningInv ==
  /\ \A e \in running : at[e.slot] = "executing"
  /\ \A e, f \in running : e.slot = f.slot => e = f

Gone(w) == at[w] = "off" /\ ~stopEvent[w]

\* Where the loops of Start and Stop are, and which workers are gone.
SlotsInv ==
  /\ \A w \in Slot : stopEvent[w] => at[w] = "off"
  /\ main.at \notin {"starting", "joining"} => main.slot = 1
  /\ main.at = "down" => \A w \in Slot : Gone(w)
  /\ main.at = "starting" => \A w \in Slot : main.slot <= w => Gone(w)
  /\ main.at = "joining" => \A w \in Slot : w < main.slot => Gone(w)
  /\ main.at \in {"flagged", "joining"} => done

TurnsInv ==
  (\A r \in Ref : Frequency[r] >= 0) => \A r \in Ref : iter[r] >= 0

ThreadInv == RunningInv /\ SlotsInv /\ TurnsInv /\ NoLostStop /\ NoLostJob

LEMMA InitThreads == Init => ThreadInv
BY Configured DEF Init, ThreadInv, RunningInv, SlotsInv, Gone, TurnsInv, NoLostStop, NoLostJob

\* What the thread part of the state needs of its type.
ThreadType ==
  /\ at \in [Slot -> Place]
  /\ stopEvent \in [Slot -> BOOLEAN]
  /\ main \in [at : MainPlace, slot : Slot]
  /\ running \subseteq [slot : Slot, ref : Ref, number : Nat, job : Job]
  /\ client \in [Client -> {"idle", "signal"}]

LEMMA ThreadTypes == TypeOK => ThreadType
BY DEF TypeOK, ThreadType

LEMMA ClientThreads ==
  ASSUME ThreadInv, ThreadType, NEW c \in Client, ClientStep(c)
  PROVE  ThreadInv'
<1> USE DEF ThreadInv, ThreadType, RunningInv, SlotsInv, Gone, TurnsInv, NoLostStop
<1>1. ASSUME NEW r \in Ref, NEW j \in Job, AddJob(c, r, j) PROVE ThreadInv'
  <2>1. client'[c] = "signal"
    BY <1>1 DEF AddJob
  <2> QED
    BY <1>1, <2>1 DEF AddJob, NoLostJob
<1>2. ASSUME NEW r \in Ref, ReleaseBarrier(c, r) PROVE ThreadInv'
  <2>1. client'[c] = "signal"
    BY <1>2 DEF ReleaseBarrier
  <2> QED
    BY <1>2, <2>1 DEF ReleaseBarrier, NoLostJob
<1>3. CASE SignalAdd(c)
  BY <1>3 DEF SignalAdd, NoLostJob, jobVars
<1> QED
  BY <1>1, <1>2, <1>3 DEF ClientStep

\* NextQueue never leaves a turn count below zero.
LEMMA TurnsKept ==
  ASSUME TypeOK, TurnsInv,
         \/ \E r \in Ref : NextQueue(r)
         \/ iter' = [r \in Ref |-> PassedOver(r)]
  PROVE  TurnsInv'
<1> SUFFICES ASSUME \A r \in Ref : Frequency[r] >= 0, NEW s \in Ref
             PROVE  iter'[s] >= 0
  BY DEF TurnsInv
<1>1. iter[s] \in Int /\ iter[s] >= 0 /\ Frequency[s] \in Int /\ Frequency[s] >= 0
  BY Configured DEF TypeOK, TurnsInv
<1>2. PassedOver(s) >= 0
  BY <1>1 DEF PassedOver
<1>3. CASE iter' = [r \in Ref |-> PassedOver(r)]
  BY <1>2, <1>3
<1>4. ASSUME NEW r \in Ref, NextQueue(r) PROVE iter'[s] >= 0
  <2>1. iter'[s] = IF Before(s, r) THEN PassedOver(s)
                   ELSE IF s = r THEN (IF LastTurn(r) THEN Frequency[r] ELSE iter[r] - 1)
                   ELSE iter[s]
    BY <1>4 DEF NextQueue
  <2>2. CASE Before(s, r)
    BY <1>2, <2>1, <2>2
  <2>3. CASE ~Before(s, r) /\ s = r
    BY <1>1, <2>1, <2>3 DEF LastTurn
  <2>4. CASE ~Before(s, r) /\ s # r
    BY <1>1, <2>1, <2>4
  <2> QED
    BY <2>2, <2>3, <2>4
<1> QED
  BY <1>3, <1>4

\* A step of a worker that starts or ends no callback.
LEMMA MoveThreads ==
  ASSUME ThreadInv, ThreadType, NEW w \in Slot, NEW p \in Place, NEW q \in Place,
         Go(w, p, q), p \notin {"off", "executing"}, q # "executing",
         UNCHANGED <<running, main, done>>,
         stopEvent' = IF q = "off" THEN [stopEvent EXCEPT ![w] = TRUE] ELSE stopEvent
  PROVE  RunningInv' /\ SlotsInv'
<1>1. \A v \in Slot : at'[v] = IF v = w THEN q ELSE at[v]
  BY DEF Go, ThreadType
<1>2. at[w] # "off" /\ at[w] # "executing"
  BY DEF Go
<1>3. RunningInv'
  BY <1>1, <1>2 DEF ThreadInv, RunningInv, ThreadType
<1>4. ~Gone(w)
  BY <1>2 DEF Gone
<1>5. \A v \in Slot : Gone(v) => Gone(v)'
  BY <1>1, <1>2 DEF Gone, ThreadType
<1>6. \A v \in Slot : stopEvent'[v] => at'[v] = "off"
  BY <1>1, <1>2 DEF ThreadInv, SlotsInv, ThreadType
<1>7. SlotsInv'
  BY <1>5, <1>6 DEF ThreadInv, SlotsInv
<1> QED
  BY <1>3, <1>7

LEMMA WorkerThreads ==
  ASSUME ThreadInv, TypeOK, NEW w \in Slot, WorkerStep(w)
  PROVE  ThreadInv'
<1>0. ThreadType
  BY ThreadTypes
<1>1. CASE LeaveWhenDone(w)
  <2>1. RunningInv' /\ SlotsInv'
    BY <1>0, <1>1, MoveThreads DEF LeaveWhenDone, Place, jobVars
  <2>2. at'[w] = "leaving"
    BY <1>0, <1>1 DEF LeaveWhenDone, Go, ThreadType
  <2> QED
    BY <1>1, <2>1, <2>2 DEF LeaveWhenDone, ThreadInv, TurnsInv, NoLostStop, NoLostJob, jobVars
<1>2. CASE Idle(w)
  <2>1. RunningInv' /\ SlotsInv'
    BY <1>0, <1>2, MoveThreads DEF Idle, Place
  <2>2. TurnsInv'
    BY <1>2, TurnsKept DEF Idle, ThreadInv
  <2>3. NoLostStop'
    BY <1>2 DEF Idle, ThreadInv, SlotsInv, NoLostStop
  <2>4. NoLostJob'
    <3> SUFFICES ASSUME \A r \in Ref : Frequency[r] >= 0
                 PROVE  \A r \in Ref : ~Ready(r)'
      BY DEF NoLostJob
    <3>1. \A r \in Ref : ~Ready(r)
      BY <1>2 DEF Idle, Eligible, ThreadInv, TurnsInv
    <3> QED
      BY <1>2, <3>1 DEF Idle, Ready
  <2> QED
    BY <2>1, <2>2, <2>3, <2>4 DEF ThreadInv
<1>3. CASE Wake(w)
  <2>1. RunningInv' /\ SlotsInv'
    BY <1>0, <1>3, MoveThreads DEF Wake, Place, jobVars
  <2>2. at'[w] = "turn"
    BY <1>0, <1>3 DEF Wake, Go, ThreadType
  <2> QED
    BY <1>3, <2>1, <2>2 DEF Wake, ThreadInv, TurnsInv, NoLostStop, NoLostJob, jobVars
<1>4. CASE Leave(w)
  <2>1. RunningInv' /\ SlotsInv'
    BY <1>0, <1>4, MoveThreads DEF Leave, Place, jobVars
  <2> QED
    BY <1>4, <2>1 DEF Leave, ThreadInv, TurnsInv, NoLostStop, NoLostJob, jobVars
<1>5. CASE End(w)
  <2>1. RunningInv' /\ SlotsInv'
    BY <1>0, <1>5, MoveThreads DEF End, Place, jobVars
  <2>2. \A v \in Slot : at'[v] = IF v = w THEN "off" ELSE at[v]
    BY <1>0, <1>5 DEF End, Go, ThreadType
  <2>3. at[w] = "ended"
    BY <1>5 DEF End, Go
  <2>4. NoLostStop'
    BY <1>5, <2>2, <2>3 DEF End, ThreadInv, NoLostStop
  <2>5. NoLostJob'
    BY <1>5, <2>2, <2>3 DEF End, ThreadInv, NoLostJob, Ready, jobVars
  <2> QED
    BY <1>5, <2>1, <2>4, <2>5 DEF End, ThreadInv, TurnsInv, jobVars
<1>6. ASSUME NEW r \in Ref, Take(w, r) PROVE ThreadInv'
  <2> DEFINE j == Head(queue[r])
             new == [slot |-> w, ref |-> r, number |-> jobNumber[r] + 1, job |-> j]
  <2>0. addJobEvent' /\ UNCHANGED <<done, main, stopEvent>> /\ at[w] = "turn"
    BY <1>6 DEF Take, SignalNext
  <2>1. TurnsInv'
    BY <1>6, TurnsKept DEF Take, ThreadInv
  <2>2. NoLostStop' /\ NoLostJob'
    BY <2>0 DEF NoLostStop, NoLostJob
  <2>3. RunningInv' /\ SlotsInv'
    <3>1. CASE Execute(w, r, j)
      <4>1. /\ running' = running \cup {new}
            /\ \A v \in Slot : at'[v] = IF v = w THEN "executing" ELSE at[v]
        BY <1>0, <3>1 DEF Execute, Go, ThreadType
      <4>2. new.slot = w
        OBVIOUS
      <4> HIDE DEF new
      <4>3. \A e \in running : e.slot \in Slot /\ e.slot # w
        BY <1>0, <2>0 DEF ThreadInv, RunningInv, ThreadType
      <4>4. RunningInv'
        BY <4>1, <4>2, <4>3 DEF ThreadInv, RunningInv
      <4>5. \A v \in Slot : Gone(v) => Gone(v)'
        BY <2>0, <4>1 DEF Gone
      <4>6. SlotsInv'
        BY <2>0, <4>1, <4>5 DEF ThreadInv, SlotsInv
      <4> QED
        BY <4>4, <4>6
    <3>2. CASE CallBack(w, r, j)
      <4>1. UNCHANGED <<running, at>>
        BY <3>2 DEF CallBack
      <4> QED
        BY <2>0, <4>1 DEF ThreadInv, RunningInv, SlotsInv, Gone
    <3> QED
      BY <1>6, <3>1, <3>2 DEF Take
  <2> QED
    BY <2>1, <2>2, <2>3 DEF ThreadInv
<1>7. ASSUME NEW e \in running, e.slot = w, Complete(e) PROVE ThreadInv'
  <2>1. /\ running' = running \ {e}
        /\ \A v \in Slot : at'[v] = IF v = w THEN "turn" ELSE at[v]
        /\ at[w] = "executing"
        /\ UNCHANGED <<queue, barrier, iter, addJobEvent, done, main, stopEvent, client>>
    BY <1>0, <1>7 DEF Complete, Go, ThreadType
  <2>2. RunningInv'
    BY <1>0, <1>7, <2>1 DEF ThreadInv, RunningInv, ThreadType
  <2>3. \A v \in Slot : Gone(v) => Gone(v)'
    BY <2>1 DEF Gone
  <2>4. SlotsInv'
    BY <2>1, <2>3 DEF ThreadInv, SlotsInv
  <2>5. at'[w] = "turn"
    BY <2>1
  <2>6. NoLostStop' /\ NoLostJob'
    BY <2>5 DEF NoLostStop, NoLostJob
  <2> QED
    BY <2>1, <2>2, <2>4, <2>6 DEF ThreadInv, TurnsInv
<1> QED
  BY <1>1, <1>2, <1>3, <1>4, <1>5, <1>6, <1>7 DEF WorkerStep

LEMMA MainThreads ==
  ASSUME ThreadInv, ThreadType, MainStep
  PROVE  ThreadInv'
<1> USE DEF ThreadType
<1>0. Slots \in Nat \ {0} /\ Slot = 1..Slots /\ main.slot \in 1..Slots /\ UNCHANGED jobVars
  BY Configured DEF Slot, MainStep, StopStep, StartFlag, StartSlot, StopFlag, StopSignal, Join
<1>1. TurnsInv'
  BY <1>0 DEF ThreadInv, TurnsInv, jobVars
<1>2. UNCHANGED <<queue, barrier>> /\ running' = running
  BY <1>0 DEF jobVars
<1>3. CASE StartFlag
  <2>1. /\ \A w \in Slot : Gone(w)
        /\ main' = [at |-> "starting", slot |-> 1]
        /\ UNCHANGED <<at, stopEvent>>
    BY <1>3 DEF StartFlag, ThreadInv, SlotsInv
  <2>2. SlotsInv' /\ RunningInv'
    BY <1>2, <2>1 DEF ThreadInv, SlotsInv, RunningInv, Gone
  <2>3. NoLostStop' /\ NoLostJob'
    BY <2>1 DEF NoLostStop, NoLostJob, Gone
  <2> QED
    BY <1>1, <2>2, <2>3 DEF ThreadInv
<1>4. CASE StartSlot
  <2> DEFINE m == main.slot
  <2>1. /\ main.at = "starting" /\ Gone(m)
        /\ at' = [at EXCEPT ![m] = "turn"]
        /\ main' = IF m = Slots THEN [at |-> "up", slot |-> 1]
                   ELSE [main EXCEPT !.slot = m + 1]
        /\ UNCHANGED <<addJobEvent, done, stopEvent, client>>
    BY <1>0, <1>4 DEF StartSlot, NextSlot, ThreadInv, SlotsInv
  <2>2. /\ \A w \in Slot : at'[w] = IF w = m THEN "turn" ELSE at[w]
        /\ m \in Slot
    BY <1>0, <2>1
  <2>3. RunningInv'
    BY <1>2, <2>1, <2>2 DEF ThreadInv, RunningInv, Gone
  <2>4. \A w \in Slot : w # m /\ Gone(w) => Gone(w)'
    BY <2>1, <2>2 DEF Gone
  <2>5. \A w \in Slot : stopEvent'[w] => at'[w] = "off"
    BY <2>1, <2>2 DEF ThreadInv, SlotsInv, Gone
  <2>6. CASE m = Slots
    BY <2>1, <2>5, <2>6, <1>1, <2>3, <2>2 DEF ThreadInv, SlotsInv, NoLostStop, NoLostJob
  <2>7. CASE m # Slots
    <3>1. main'.slot = m + 1 /\ main'.at = "starting"
      BY <2>1, <2>7
    <3>2. \A w \in Slot : m + 1 <= w => m <= w /\ w # m
      BY <1>0
    <3>3. \A w \in Slot : m + 1 <= w => Gone(w)'
      BY <3>2, <2>1, <2>4 DEF ThreadInv, SlotsInv
    <3>4. SlotsInv'
      BY <2>5, <3>1, <3>3 DEF SlotsInv
    <3>5. NoLostStop' /\ NoLostJob'
      BY <2>2, <3>1 DEF NoLostStop, NoLostJob
    <3> QED
      BY <1>1, <2>3, <3>4, <3>5 DEF ThreadInv
  <2> QED
    BY <2>6, <2>7
<1>5. CASE StopFlag
  BY <1>1, <1>2, <1>5 DEF StopFlag, ThreadInv, RunningInv, SlotsInv, Gone, NoLostStop, NoLostJob
<1>6. CASE StopSignal
  <2>1. /\ addJobEvent' /\ UNCHANGED <<done, at, stopEvent, client>>
        /\ main.at = "flagged" /\ main.slot = 1 /\ main'.at = "joining" /\ main'.slot = 1
    BY <1>6 DEF StopSignal, ThreadInv, SlotsInv
  <2>2. \A w \in Slot : ~(w < 1)
    BY <1>0
  <2>3. SlotsInv' /\ RunningInv'
    BY <1>2, <2>1, <2>2 DEF ThreadInv, SlotsInv, RunningInv, Gone
  <2> QED
    BY <1>1, <2>1, <2>3 DEF ThreadInv, NoLostStop, NoLostJob
<1>7. CASE Join
  <2>0. PICK m \in 1..Slots : m = main.slot
    BY <1>0
  <2>1. /\ main.at = "joining" /\ at[m] = "off" /\ done
        /\ stopEvent' = [stopEvent EXCEPT ![m] = FALSE]
        /\ main' = IF m = Slots THEN [at |-> "down", slot |-> 1]
                   ELSE [main EXCEPT !.slot = m + 1]
        /\ UNCHANGED <<addJobEvent, done, at, client>>
    BY <1>0, <2>0, <1>7 DEF Join, NextSlot, ThreadInv, SlotsInv
  <2>2. /\ \A w \in Slot : w # m => stopEvent'[w] = stopEvent[w]
        /\ ~stopEvent'[m] /\ m \in Slot
    BY <1>0, <2>1
  <2>3. RunningInv'
    BY <1>2, <2>1 DEF ThreadInv, RunningInv
  <2>4. Gone(m)' /\ \A w \in Slot : Gone(w) => Gone(w)'
    <3>1. at' = at /\ at'[m] = "off"
      BY <2>1
    <3>2. Gone(m)'
      BY <2>2, <3>1 DEF Gone
    <3>3. \A w \in Slot : Gone(w) => Gone(w)'
      <4> SUFFICES ASSUME NEW w \in Slot, Gone(w) PROVE Gone(w)'
        OBVIOUS
      <4>1. w = m => Gone(w)'
        BY <3>2
      <4>2. w # m => Gone(w)'
        BY <2>2, <3>1, Zenon DEF Gone
      <4> QED
        BY <4>1, <4>2
    <3> QED
      BY <3>2, <3>3
  <2>5. \A w \in Slot : stopEvent'[w] => at'[w] = "off"
    BY <2>1, <2>2 DEF ThreadInv, SlotsInv
  <2>6. \A w \in Slot : w < m + 1 => Gone(w)'
    <3>1. \A w \in Slot : w < m + 1 => w < m \/ w = m
      BY <1>0
    <3>2. \A w \in Slot : w < m => Gone(w)
      BY <2>0, <2>1 DEF ThreadInv, SlotsInv
    <3> QED
      BY <3>1, <3>2, <2>4
  <2>7. CASE m = Slots
    <3>1. \A w \in Slot : w < m + 1
      BY <1>0, <2>7
    <3>2. main'.at = "down" /\ main'.slot = 1
      BY <2>1, <2>7
    <3>3. \A w \in Slot : Gone(w)'
      BY <2>6, <3>1
    <3>4. SlotsInv'
      BY <2>5, <3>2, <3>3 DEF SlotsInv
    <3> QED
      BY <1>1, <2>1, <2>3, <3>2, <3>4 DEF ThreadInv, NoLostStop, NoLostJob
  <2>8. CASE m # Slots
    <3>1. main'.slot = m + 1 /\ main'.at = "joining"
      BY <2>1, <2>8
    <3>2. SlotsInv'
      BY <2>1, <2>5, <2>6, <3>1 DEF SlotsInv
    <3>3. NoLostStop'
      BY <2>1, <3>1 DEF ThreadInv, NoLostStop
    <3> QED
      BY <1>1, <2>1, <2>3, <3>2, <3>3 DEF ThreadInv, NoLostJob
  <2> QED
    BY <2>7, <2>8
<1> QED
  BY <1>3, <1>4, <1>5, <1>6, <1>7 DEF MainStep, StopStep

LEMMA StepThreads == ThreadInv /\ Inv /\ [Next]_vars => ThreadInv'
<1> SUFFICES ASSUME ThreadInv, Inv, [Next]_vars PROVE ThreadInv'
  OBVIOUS
<1>1. TypeOK /\ ThreadType
  BY ThreadTypes DEF Inv
<1>2. ASSUME NEW f \in passed, ReuseFence(f) PROVE ThreadInv'
  BY <1>2 DEF ReuseFence, threadVars, ThreadInv, RunningInv, SlotsInv, Gone, TurnsInv,
              NoLostStop, NoLostJob, Ready
<1>3. CASE UNCHANGED vars
  BY <1>3 DEF vars, jobVars, threadVars, ThreadInv, RunningInv, SlotsInv, Gone, TurnsInv,
              NoLostStop, NoLostJob, Ready
<1> QED
  BY <1>1, <1>2, <1>3, ClientThreads, WorkerThreads, MainThreads DEF Next

LEMMA ThreadInvariance == Spec => [](Inv /\ ThreadInv)
<1>1. Inv /\ [Next]_vars => Inv'
  BY StepInv
<1> QED
  BY InitInv, InitThreads, <1>1, StepThreads, PTL DEF Spec

-----------------------------------------------------------------------------
(* The theorems *)

\* No signal is lost: while a worker waits and a job could be taken, somebody
\* is on the way to it, and a stop is handed on until the last worker has seen
\* it, for any number of workers, clients and queues.
THEOREM NothingIsLost == Spec => []NothingLost
<1>1. ThreadInv => NothingLost
  BY DEF ThreadInv, NothingLost
<1> QED
  BY ThreadInvariance, <1>1, PTL

\* When Stop has returned nothing runs, nothing is pending and no fence is
\* awaited, so that Start may be called again.
THEOREM QuietAfterStop == Spec => []StopMeansQuiet
<1>1. Inv /\ ThreadInv => StopMeansQuiet
  <2> SUFFICES ASSUME Inv, ThreadInv, main.at = "down"
               PROVE  /\ running = {} /\ \A w \in Slot : at[w] = "off" /\ ~stopEvent[w]
                      /\ \A r \in Ref : pendingJobs[r] = <<>> /\ completeFences[r] = <<>>
    BY DEF StopMeansQuiet
  <2>1. \A w \in Slot : at[w] = "off" /\ ~stopEvent[w]
    BY DEF ThreadInv, SlotsInv, Gone
  <2>2. running = {}
    <3>1. \A e \in running : e.slot \in Slot
      BY RunningType DEF Inv
    <3> QED
      BY <2>1, <3>1 DEF ThreadInv, RunningInv
  <2>3. \A r \in Ref : RunningOn(r) = {}
    BY <2>2 DEF RunningOn
  <2>4. \A r \in Ref : pendingJobs[r] = <<>>
    BY <2>3, PendingRuns
  <2>5. ASSUME NEW r \in Ref PROVE completeFences[r] = <<>>
    <3>1. completeFences[r] \in Seq(Numbered)
      BY DEF Inv, TypeOK
    <3>2. completeFences[r] # <<>> => 1 \in DOMAIN completeFences[r]
      BY <3>1
    <3>3. DOMAIN completeFences[r] = {}
      BY <2>3 DEF Inv, FenceInv, NoFenceLeft, Elements
    <3> QED
      BY <3>2, <3>3
  <2> QED
    BY <2>1, <2>2, <2>4, <2>5
<1> QED
  BY ThreadInvariance, <1>1, PTL
=============================================================================
