----------------------------- MODULE JobProcessor -----------------------------
(***************************************************************************)
(* System::CoreJobProcessor of WAD02_15_1.cpp: worker threads ("slots")    *)
(* that take jobs from prioritised queues.                                 *)
(*                                                                         *)
(* What runs between jobAccessCS.Enter and Exit is one step.  The          *)
(* addJobEvent is used as AutoResetEvent, which SyncEvent implements.      *)
(* Three things are not among the sources and are modelled from what the   *)
(* processor relies on: the client that pushes a job and then signals, the *)
(* processCB of the jobs that are not executed (a complete fence, a        *)
(* barrier), and the start of a thread, which signals its stopEvent when   *)
(* Run returns.                                                            *)
(***************************************************************************)
EXTENDS Integers, Sequences, FiniteSets

CONSTANTS
  Slots,      \* the number of worker threads
  Client,     \* threads that add jobs
  Ref,        \* the CoreQueueRefs
  Level,      \* the priority level of a ref, 0 first
  Index,      \* its place in the pool of the level
  Frequency,  \* its frequency
  Job,
  Kind,       \* the type of a job
  MaxNumber   \* bound: how many jobs are added to each ref

Slot == 1..Slots
LevelSize(l) == Cardinality({r \in Ref : Level[r] = l})

ASSUME ConfigAssumption ==
  /\ Slots \in Nat \ {0}
  /\ IsFiniteSet(Ref)
  /\ Level \in [Ref -> 0..3]
  /\ Index \in [Ref -> Nat]
  /\ \A r \in Ref : Index[r] < LevelSize(Level[r])
  /\ \A r, s \in Ref : Level[r] = Level[s] /\ Index[r] = Index[s] => r = s
  /\ Frequency \in [Ref -> Int]
  /\ Kind \in [Job -> {"executable", "fence", "barrier"}]
  /\ MaxNumber \in [Ref -> Nat]

VARIABLES
  queue,           \* the jobs queued on each ref
  iter,            \* the turns a ref has left; negative: the passes it sits out
  nextQueueIndex,  \* where the search starts in each level
  jobNumber, completeNumber,
  pendingJobs,     \* per ref, the jobs being executed, in no order
  completeFences,  \* per ref, the fences not yet passed, in order
  passed,          \* the fences passed and not reused yet
  barrier,         \* per ref, {} or the set of the one barrier that holds it
  addJobEvent,
  done,
  at,              \* where each worker is
  running,         \* the executable jobs whose callback runs
  stopEvent,       \* per worker thread
  main,            \* the thread that calls Start and Stop: where and which slot
  client           \* the clients: "idle", or about to "signal"

jobVars == <<queue, iter, nextQueueIndex, jobNumber, completeNumber,
             pendingJobs, completeFences, passed, barrier, running>>
threadVars == <<addJobEvent, done, at, stopEvent, main, client>>
vars == <<jobVars, threadVars>>

Numbered == [number : Nat, job : Job]
Place == {"off", "turn", "waiting", "executing", "leaving", "ended"}
MainPlace == {"down", "starting", "up", "flagged", "joining"}

TypeOK ==
  /\ queue \in [Ref -> Seq(Job)]
  /\ iter \in [Ref -> Int]
  /\ nextQueueIndex \in [0..3 -> Nat]
  /\ jobNumber \in [Ref -> Nat]
  /\ completeNumber \in [Ref -> Nat]
  /\ pendingJobs \in [Ref -> Seq(Numbered)]
  /\ completeFences \in [Ref -> Seq(Numbered)]
  /\ passed \subseteq [ref : Ref, number : Nat, job : Job]
  /\ barrier \in [Ref -> SUBSET Job]
  /\ addJobEvent \in BOOLEAN
  /\ done \in BOOLEAN
  /\ at \in [Slot -> Place]
  /\ running \subseteq [slot : Slot, ref : Ref, number : Nat, job : Job]
  /\ stopEvent \in [Slot -> BOOLEAN]
  /\ main \in [at : MainPlace, slot : Slot]
  /\ client \in [Client -> {"idle", "signal"}]

Init ==
  /\ queue = [r \in Ref |-> <<>>]
  /\ iter = Frequency
  /\ nextQueueIndex = [l \in 0..3 |-> 0]
  /\ jobNumber = [r \in Ref |-> 0]
  /\ completeNumber = [r \in Ref |-> 0]
  /\ pendingJobs = [r \in Ref |-> <<>>]
  /\ completeFences = [r \in Ref |-> <<>>]
  /\ passed = {}
  /\ barrier = [r \in Ref |-> {}]
  /\ addJobEvent = FALSE
  /\ done = FALSE
  /\ at = [w \in Slot |-> "off"]
  /\ running = {}
  /\ stopEvent = [w \in Slot |-> FALSE]
  /\ main = [at |-> "down", slot |-> 1]
  /\ client = [c \in Client |-> "idle"]

Elements(s) == {s[i] : i \in DOMAIN s}
JobsOf(s) == {e.job : e \in Elements(s)}

\* The jobs that some queue, list or callback holds.
Held(r) == Elements(queue[r]) \cup JobsOf(completeFences[r]) \cup barrier[r]
Executing == {e.job : e \in running}
Passed == {f.job : f \in passed}
InUse == Executing \cup Passed \cup UNION {Held(r) : r \in Ref}

-----------------------------------------------------------------------------
(* The clients *)

\* A client adds a job that is not in use; the signal follows.
AddJob(c, r, j) ==
  /\ client[c] = "idle"
  /\ j \notin InUse
  /\ jobNumber[r] + Len(queue[r]) < MaxNumber[r]
  /\ queue' = [queue EXCEPT ![r] = Append(@, j)]
  /\ client' = [client EXCEPT ![c] = "signal"]
  /\ UNCHANGED <<iter, nextQueueIndex, jobNumber, completeNumber, pendingJobs,
                 completeFences, passed, barrier, running,
                 addJobEvent, done, at, stopEvent, main>>

\* A client lets the jobs behind a barrier go.
ReleaseBarrier(c, r) ==
  /\ client[c] = "idle"
  /\ barrier[r] # {}
  /\ barrier' = [barrier EXCEPT ![r] = {}]
  /\ client' = [client EXCEPT ![c] = "signal"]
  /\ UNCHANGED <<queue, iter, nextQueueIndex, jobNumber, completeNumber,
                 pendingJobs, completeFences, passed, running,
                 addJobEvent, done, at, stopEvent, main>>

SignalAdd(c) ==
  /\ client[c] = "signal"
  /\ client' = [client EXCEPT ![c] = "idle"]
  /\ addJobEvent' = TRUE
  /\ UNCHANGED <<jobVars, done, at, stopEvent, main>>

\* A client that waited for a fence has it back.
ReuseFence(f) ==
  /\ f \in passed
  /\ passed' = passed \ {f}
  /\ UNCHANGED <<queue, iter, nextQueueIndex, jobNumber, completeNumber,
                 pendingJobs, completeFences, barrier, running, threadVars>>

-----------------------------------------------------------------------------
(* ProcessNextJob *)

Ready(r) == queue[r] # <<>> /\ barrier[r] = {}
Eligible(r) == iter[r] >= 0 /\ Ready(r)

\* When NextQueue comes to a ref: level by level, each from its next index.
Turn(r) ==
  <<Level[r], (Index[r] - nextQueueIndex[Level[r]]) % LevelSize(Level[r])>>
Before(r, s) ==
  \/ Turn(r)[1] < Turn(s)[1]
  \/ Turn(r)[1] = Turn(s)[1] /\ Turn(r)[2] < Turn(s)[2]

\* Mutant of PassedOver: a pass without a job costs a turn.
PassedOverSpent(r) == iter[r] - 1

\* A ref passed over sits out one pass, or has all its turns again.
PassedOver(r) == IF iter[r] < 0 THEN iter[r] + 1 ELSE Frequency[r]

\* The last turn in a row that a ref has.
LastTurn(r) == iter[r] = 0

\* Mutant of NextIndex: the search of the level always starts at the ref that
\* was taken last.
NextIndexStays(r) == Index[r]

\* Where the search of the level of r starts after r: at r until its turns in a
\* row are used up.
NextIndex(r) ==
  (Index[r] + IF LastTurn(r) THEN 1 ELSE 0) % LevelSize(Level[r])

\* NextQueue returns r.
NextQueue(r) ==
  /\ Eligible(r)
  /\ \A s \in Ref : Before(s, r) => ~Eligible(s)
  /\ iter' = [s \in Ref |->
                IF Before(s, r) THEN PassedOver(s)
                ELSE IF s = r THEN (IF LastTurn(r) THEN Frequency[r] ELSE iter[r] - 1)
                ELSE iter[s]]
  /\ nextQueueIndex' = [nextQueueIndex EXCEPT ![Level[r]] = NextIndex(r)]

Go(w, from, to) == at[w] = from /\ at' = [at EXCEPT ![w] = to]

LeaveWhenDone(w) ==
  /\ done
  /\ Go(w, "turn", "leaving")
  /\ UNCHANGED <<jobVars, addJobEvent, done, stopEvent, main, client>>

\* NextQueue returns 0 and the worker waits for the event.
Idle(w) ==
  /\ ~done
  /\ \A r \in Ref : ~Eligible(r)
  /\ iter' = [r \in Ref |-> PassedOver(r)]
  /\ Go(w, "turn", "waiting")
  /\ UNCHANGED <<queue, nextQueueIndex, jobNumber, completeNumber, pendingJobs,
                 completeFences, passed, barrier, running,
                 addJobEvent, done, stopEvent, main, client>>

\* SyncEvent::Wait returns.
Wake(w) ==
  /\ addJobEvent
  /\ addJobEvent' = FALSE
  /\ Go(w, "waiting", "turn")
  /\ UNCHANGED <<jobVars, done, stopEvent, main, client>>

\* SignalExeStart, then the callback outside the lock.
Execute(w, r, j) ==
  LET n == jobNumber[r] + 1 IN
  /\ pendingJobs' = [pendingJobs EXCEPT ![r] = Append(@, [number |-> n, job |-> j])]
  /\ running' = running \cup {[slot |-> w, ref |-> r, number |-> n, job |-> j]}
  /\ Go(w, "turn", "executing")
  /\ UNCHANGED <<completeFences, passed, barrier>>

\* The callback of a complete fence: it passes at once when nothing runs.
PlaceFence(r, j) ==
  LET n == jobNumber[r] + 1 IN
  IF pendingJobs[r] = <<>>
  THEN /\ passed' = passed \cup {[ref |-> r, number |-> n, job |-> j]}
       /\ UNCHANGED completeFences
  ELSE /\ completeFences' =
            [completeFences EXCEPT ![r] = Append(@, [number |-> n, job |-> j])]
       /\ UNCHANGED passed

\* The job's own callback, under the lock.
CallBack(w, r, j) ==
  /\ \/ Kind[j] = "fence" /\ PlaceFence(r, j) /\ UNCHANGED barrier
     \/ /\ Kind[j] = "barrier"
        /\ barrier' = [barrier EXCEPT ![r] = {j}]
        /\ UNCHANGED <<completeFences, passed>>
  /\ UNCHANGED <<pendingJobs, running, at>>

\* Mutant of SignalNext: the event is not signalled.
SignalNextNot == UNCHANGED addJobEvent

\* A worker that found a job wakes the next one to look for another.
SignalNext == addJobEvent' = TRUE

\* A worker finds a ref, pops its first job and starts it.
Take(w, r) ==
  /\ ~done
  /\ at[w] = "turn"
  /\ NextQueue(r)
  /\ SignalNext
  /\ jobNumber' = [jobNumber EXCEPT ![r] = @ + 1]
  /\ queue' = [queue EXCEPT ![r] = Tail(@)]
  /\ LET j == Head(queue[r]) IN
       IF Kind[j] = "executable" THEN Execute(w, r, j) ELSE CallBack(w, r, j)
  /\ UNCHANGED <<completeNumber, done, stopEvent, main, client>>

\* Mutant of Unpend: the last entry is dropped, whichever finished.
UnpendLast(s, j) == SubSeq(s, 1, Len(s) - 1)

\* The last entry takes the place of the finished job's.
Unpend(s, j) ==
  [i \in 1..(Len(s) - 1) |-> IF s[i].job = j THEN s[Len(s)] ELSE s[i]]

\* Mutant of CompleteUpTo: the last number looked at, not the least.
CompleteUpToAny(r, s, n) ==
  n \in {jobNumber[r]} \cup {e.number - 1 : e \in Elements(s)}

\* Mutant of CompleteUpTo: the last number given out is left out.
CompleteUpToShort(r, s, n) ==
  LET candidates == {jobNumber[r] - 1} \cup {e.number - 1 : e \in Elements(s)} IN
  n \in candidates /\ \A m \in candidates : n <= m

\* Every number up to n is finished while the jobs of s are pending.
CompleteUpTo(r, s, n) ==
  LET candidates == {jobNumber[r]} \cup {e.number - 1 : e \in Elements(s)} IN
  n \in candidates /\ \A m \in candidates : n <= m

\* The fences up to the number n pass, from the head of the list.
PassFences(r, n) ==
  LET s == completeFences[r] IN
  \E k \in 0..Len(s) :
    /\ \A i \in 1..k : s[i].number <= n
    /\ k < Len(s) => n < s[k + 1].number
    /\ passed' = passed \cup
         {[ref |-> r, number |-> s[i].number, job |-> s[i].job] : i \in 1..k}
    /\ completeFences' = [completeFences EXCEPT ![r] = SubSeq(s, k + 1, Len(s))]

\* The callback of the job e returns: SignalExeComplete.
Complete(e) ==
  LET rest == Unpend(pendingJobs[e.ref], e.job) IN
  /\ running' = running \ {e}
  /\ Go(e.slot, "executing", "turn")
  /\ pendingJobs' = [pendingJobs EXCEPT ![e.ref] = rest]
  /\ \E n \in 0..jobNumber[e.ref] :
       /\ CompleteUpTo(e.ref, rest, n)
       /\ completeNumber' = [completeNumber EXCEPT ![e.ref] = n]
       /\ PassFences(e.ref, n)
  /\ UNCHANGED <<queue, iter, nextQueueIndex, jobNumber, barrier,
                 addJobEvent, done, stopEvent, main, client>>

\* The last signal of Slot::Run.
Leave(w) ==
  /\ Go(w, "leaving", "ended")
  /\ addJobEvent' = TRUE
  /\ UNCHANGED <<jobVars, done, stopEvent, main, client>>

\* The thread ends.
End(w) ==
  /\ Go(w, "ended", "off")
  /\ stopEvent' = [stopEvent EXCEPT ![w] = TRUE]
  /\ UNCHANGED <<jobVars, addJobEvent, done, main, client>>

-----------------------------------------------------------------------------
(* Start and Stop *)

StartFlag ==
  /\ main.at = "down"
  /\ done' = FALSE
  /\ main' = [at |-> "starting", slot |-> 1]
  /\ UNCHANGED <<jobVars, addJobEvent, at, stopEvent, client>>

\* The loop of Start, or of Stop, goes on with the next slot or ends.
NextSlot(last) ==
  main' = IF main.slot = Slots THEN [at |-> last, slot |-> 1]
          ELSE [main EXCEPT !.slot = @ + 1]

StartSlot ==
  /\ main.at = "starting"
  /\ at' = [at EXCEPT ![main.slot] = "turn"]
  /\ NextSlot("up")
  /\ UNCHANGED <<jobVars, addJobEvent, done, stopEvent, client>>

\* The flag is stored without the lock.
StopFlag ==
  /\ main.at = "up"
  /\ done' = TRUE
  /\ main' = [main EXCEPT !.at = "flagged"]
  /\ UNCHANGED <<jobVars, addJobEvent, at, stopEvent, client>>

\* Mutant of StopSignal: the workers are not told.
StopSignalNot ==
  /\ main.at = "flagged"
  /\ main' = [main EXCEPT !.at = "joining"]
  /\ UNCHANGED <<jobVars, addJobEvent, done, at, stopEvent, client>>

StopSignal ==
  /\ main.at = "flagged"
  /\ addJobEvent' = TRUE
  /\ main' = [main EXCEPT !.at = "joining"]
  /\ UNCHANGED <<jobVars, done, at, stopEvent, client>>

\* Mutant of Join: Stop looks at the events of the slots and does not wait.
JoinNot ==
  /\ main.at = "joining"
  /\ stopEvent' = [stopEvent EXCEPT ![main.slot] = FALSE]
  /\ NextSlot("down")
  /\ UNCHANGED <<jobVars, addJobEvent, done, at, client>>

Join ==
  /\ main.at = "joining"
  /\ stopEvent[main.slot]
  /\ stopEvent' = [stopEvent EXCEPT ![main.slot] = FALSE]
  /\ NextSlot("down")
  /\ UNCHANGED <<jobVars, addJobEvent, done, at, client>>

-----------------------------------------------------------------------------
ClientStep(c) ==
  \/ \E r \in Ref, j \in Job : AddJob(c, r, j)
  \/ \E r \in Ref : ReleaseBarrier(c, r)
  \/ SignalAdd(c)

WorkerStep(w) ==
  \/ LeaveWhenDone(w) \/ Idle(w) \/ Wake(w) \/ Leave(w) \/ End(w)
  \/ \E r \in Ref : Take(w, r)
  \/ \E e \in running : e.slot = w /\ Complete(e)

StopStep == StopSignal \/ Join

MainStep == StartFlag \/ StartSlot \/ StopFlag \/ StopStep

Next ==
  \/ \E c \in Client : ClientStep(c)
  \/ \E f \in passed : ReuseFence(f)
  \/ \E w \in Slot : WorkerStep(w)
  \/ MainStep

Spec == Init /\ [][Next]_vars

\* Threads that can run do run and callbacks return; nobody has to add jobs,
\* release a barrier, start or stop.
Fairness ==
  /\ \A w \in Slot : WF_vars(WorkerStep(w))
  /\ \A c \in Client : WF_vars(SignalAdd(c))
  /\ WF_vars(StartSlot)
  /\ WF_vars(StopStep)

FairSpec == Spec /\ Fairness

-----------------------------------------------------------------------------
(* Properties *)

RunningOn(r) == {e \in running : e.ref = r}

\* The list of pending jobs of a ref is exactly what its workers execute,
\* with the numbers they got, through any order of completion; it never
\* outgrows the number of slots.
PendingExact ==
  \A r \in Ref :
    /\ Elements(pendingJobs[r])
         = {[number |-> e.number, job |-> e.job] : e \in RunningOn(r)}
    /\ Len(pendingJobs[r]) = Cardinality(RunningOn(r))

\* A fence passes only when every job added to its queue before it has
\* finished, however the jobs overtake each other on the workers.
FenceAfterJobs ==
  \A f \in passed : \A e \in RunningOn(f.ref) : f.number < e.number

\* A fence is not left behind: whoever still waits for one waits for a job
\* that was added before it and is running now.
NoFenceLeft ==
  \A r \in Ref : \A f \in Elements(completeFences[r]) :
    \E e \in RunningOn(r) : e.number < f.number

\* The numbers reported complete never include a running job.
CompleteNumberSound ==
  \A e \in running : completeNumber[e.ref] < e.number

\* What a ref knows of its jobs is true: which are pending, which are complete.
NumbersSound == PendingExact /\ CompleteNumberSound

\* The numbers reported complete are never taken back.
CompleteNumberGrows ==
  [][\A r \in Ref : completeNumber[r] <= completeNumber'[r]]_vars

\* While a job could be taken and a worker waits, the event is up, or some
\* thread is about to look for a job or to signal: merged signals lose none.
\* It takes frequencies that are not negative: a ref that sits out a pass can
\* have a job while all workers go to wait.
NoLostJob ==
  (\A r \in Ref : Frequency[r] >= 0) =>
    ((\E r \in Ref : Ready(r)) /\ (\E w \in Slot : at[w] = "waiting") /\ ~done =>
       \/ addJobEvent
       \/ \E w \in Slot : at[w] = "turn"
       \/ \E c \in Client : client[c] = "signal")

\* A stop reaches everyone: until the last worker has left, one that waits
\* has the event up or another worker before it.
NoLostStop ==
  main.at = "joining" /\ (\E w \in Slot : at[w] = "waiting") =>
    \/ addJobEvent
    \/ \E w \in Slot : at[w] \in {"turn", "executing", "leaving"}

\* Neither a job nor a stop is lost among the merged signals of the event.
NothingLost == NoLostJob /\ NoLostStop

\* After Stop nothing runs, nothing is pending and no fence is awaited.
StopMeansQuiet ==
  main.at = "down" =>
    /\ running = {} /\ \A w \in Slot : at[w] = "off" /\ ~stopEvent[w]
    /\ \A r \in Ref : pendingJobs[r] = <<>> /\ completeFences[r] = <<>>

\* Stop returns, whatever the workers were doing and whoever takes the signal.
StopReturns == main.at = "flagged" ~> main.at = "down"

\* A job queued at the top level is taken, unless the processor stops or a
\* barrier stands before it: a queue of the top level that is not empty for
\* ever has its first job taken again and again.
TopJobTaken ==
  \A r \in {q \in Ref : Level[q] = 0} :
    \/ []<>(main.at # "up" \/ queue[r] = <<>> \/ barrier[r] # {})
    \/ []<><<queue[r] # <<>> /\ queue'[r] = Tail(queue[r])>>_vars

\* Every fence placed passes in the end.
FencePasses ==
  \A f \in {j \in Job : Kind[j] = "fence"} :
    LET waiting == \E r \in Ref : f \in JobsOf(completeFences[r]) IN
    waiting ~> ~waiting
=============================================================================
