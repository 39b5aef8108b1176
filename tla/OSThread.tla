------------------------------- MODULE OSThread -------------------------------
(***************************************************************************)
(* The thread kernel of the Revolution OS: OSThread.c and OSMutex.c.       *)
(*                                                                         *)
(* One processor.  Every call runs with interrupts disabled, so it is one  *)
(* step up to the point where SelectThread switches to another thread; the *)
(* rest of the call is kept in cont and runs, still without interrupts,    *)
(* when the caller is selected again.  Interrupts hit threads in their own *)
(* code, or the idle loop: an alarm resumes its sleeper, a device wakes a  *)
(* queue.                                                                  *)
(***************************************************************************)
EXTENDS OSThreadOps

CONSTANTS
  Main,          \* DefaultThread
  MainBase,      \* its priority, 16 in the code
  Bases,         \* the base priorities the program gives to threads
  Calls,         \* bound: the calls the program makes
  MaxSuspend,    \* bound: nested suspensions of one thread
  MaxLock,       \* bound: nested locks of one mutex
  ExitHolding    \* TRUE if threads may die holding mutexes

ASSUME ThreadAssumption ==
  /\ IsFiniteSet(Thread) /\ Main \in Thread
  /\ None \notin Thread \cup Mutex \cup SleepQueues
  /\ PriorityMax \in Nat /\ Bases \subseteq Priority /\ MainBase \in Priority
  /\ MaxSuspend \in Nat \ {0} /\ MaxLock \in Nat \ {0}
  /\ ExitHolding \in BOOLEAN

VARIABLES
  k,       \* the kernel state
  cont,    \* the rest of the kernel call each thread is inside, <<"user">> if none
  alarms   \* the threads inside OSSleepTicks whose alarm is set

vars == <<k, cont, alarms>>

User == <<"user">>
Continuations ==
  {User, <<"alarm">>} \cup ({"lock"} \X Mutex) \cup ({"unlockAll", "join"} \X Thread)

Alive == {"READY", "RUNNING", "SLEEPING"}
Dead == {"MORIBUND", "EXITED"}

Queue == RunQueues \cup SleepQueues

\* The kernel states; a mutex is locked at most MaxLock times, and so on, only
\* because the bounds of the model say so.
Kernel ==
  [state : [Thread -> Alive \cup Dead \cup {"none"}],
   detached : [Thread -> BOOLEAN],
   base : [Thread -> Priority],
   priority : [Thread -> Priority \cup {Suspended}],
   suspend : [Thread -> Nat],
   mutex : [Thread -> Mutex \cup {None}],
   queue : [Thread -> Queue \cup {None}],
   active : SUBSET Thread,
   held : [Thread -> Seq(Mutex)],
   owner : [Mutex -> Thread \cup {None}],
   lock : [Mutex -> Nat],
   list : [Queue -> Seq(Thread)],
   bits : SUBSET Priority,
   hint : BOOLEAN, disabled : BOOLEAN,
   current : Thread \cup {None}]

TypeOK ==
  /\ k \in Kernel /\ k.disabled = FALSE
  /\ \A t \in Thread : k.suspend[t] <= MaxSuspend
  /\ \A m \in Mutex : k.lock[m] <= MaxLock
  /\ cont \in [Thread -> Continuations]
  /\ alarms \subseteq Thread

\* __OSThreadInit: the default thread runs, no other exists.
Init ==
  /\ k = [state    |-> [t \in Thread |-> IF t = Main THEN "RUNNING" ELSE "none"],
          detached |-> [t \in Thread |-> t = Main],
          base     |-> [t \in Thread |-> MainBase],
          priority |-> [t \in Thread |-> MainBase],
          suspend  |-> [t \in Thread |-> 0],
          mutex    |-> [t \in Thread |-> None],
          queue    |-> [t \in Thread |-> None],
          active   |-> {Main},
          held     |-> [t \in Thread |-> <<>>],
          owner    |-> [m \in Mutex |-> None],
          lock     |-> [m \in Mutex |-> 0],
          list     |-> [q \in Queue |-> <<>>],
          bits     |-> {},
          hint     |-> FALSE,
          disabled |-> FALSE,
          current  |-> Main]
  /\ cont = [t \in Thread |-> User]
  /\ alarms = {}

-----------------------------------------------------------------------------
(* Calls of the current thread *)

\* The current thread is in its own code and makes the call named call.
Calling(call) ==
  /\ call \in Calls
  /\ k.current # None
  /\ cont[k.current] = User

\* The call ran to its end, or only its return is left.
Returns == UNCHANGED <<cont, alarms>>

\* The call goes on at the continuation rest unless it ran to its end.
Leaves(ended, rest) ==
  /\ cont' = [cont EXCEPT ![k.current] = IF ended THEN User ELSE rest]
  /\ UNCHANGED alarms

YieldThread ==
  /\ Calling("Yield")
  /\ k' = SelectThread(k, TRUE)
  /\ Returns

\* A thread object is used again only when nothing in the kernel names it.
CreateThread(t, prio, detached) ==
  /\ Calling("Create")
  /\ \A u \in Thread : k.state[u] \in Alive => cont[u] # <<"unlockAll", t>>
  /\ k.state[t] \in {"none", "EXITED"} /\ t \notin alarms
  /\ k.held[t] = <<>> /\ k.list[JoinQ(t)] = <<>>
  /\ k' = [k EXCEPT !.state[t] = "READY", !.detached[t] = detached,
                    !.base[t] = prio, !.priority[t] = prio,
                    !.suspend[t] = 1, !.mutex[t] = None,
                    !.active = @ \cup {t}]
  /\ cont' = [cont EXCEPT ![t] = User]
  /\ UNCHANGED alarms

ResumeThread(t) ==
  /\ Calling("Resume") /\ k.state[t] # "none"
  /\ k' = Resume(k, t)
  /\ Returns

SuspendThread(t) ==
  /\ Calling("Suspend") /\ k.state[t] # "none"
  /\ k.suspend[t] < MaxSuspend
  /\ k' = Suspend(k, t)
  /\ Returns

SetThreadPriority(t, prio) ==
  /\ Calling("SetPriority") /\ k.state[t] # "none"
  /\ k.base[t] # prio
  /\ k' = Reschedule(UpdatePriority([k EXCEPT !.base[t] = prio], t))
  /\ Returns

\* OSSleepTicks: the alarm is set and the thread suspends itself.
SleepTicks ==
  /\ Calling("SleepTicks")
  /\ alarms' = alarms \cup {k.current}
  /\ cont' = [cont EXCEPT ![k.current] = <<"alarm">>]
  /\ k' = Suspend(k, k.current)

\* A driver or a message queue sleeps on, or wakes, a queue of its own.
SleepThread(w) ==
  /\ Calling("Sleep")
  /\ k' = Sleep(k, WaitQ(w))
  /\ Returns

WakeupThread(w) ==
  /\ Calling("Wakeup")
  /\ k' = Wakeup(k, WaitQ(w))
  /\ Returns

-----------------------------------------------------------------------------
(* Mutex calls *)

\* One turn of the loop of OSLockMutex.
LockTurn(j, m) ==
  LET c == j.current
  IN IF j.owner[m] = None THEN Acquire(j, c, m)
     ELSE IF j.owner[m] = c THEN [j EXCEPT !.lock[m] = @ + 1]
     ELSE Sleep(PromoteThread([j EXCEPT !.mutex[c] = m], j.owner[m],
                              j.priority[c]), MutexQ(m))

\* The bound on nested locks.
MayNest(m) == k.owner[m] = k.current => k.lock[m] < MaxLock

LockMutex(m) ==
  /\ Calling("Lock") /\ MayNest(m)
  /\ k' = LockTurn(k, m)
  /\ Leaves(k'.owner[m] = k.current, <<"lock", m>>)

TryLockMutex(m) ==
  LET c == k.current
  IN /\ Calling("TryLock") /\ MayNest(m)
     /\ k' = IF k.owner[m] = None THEN Acquire(k, c, m)
             ELSE IF k.owner[m] = c THEN [k EXCEPT !.lock[m] = @ + 1]
             ELSE k
     /\ Returns

UnlockMutex(m) ==
  /\ Calling("Unlock")
  /\ k' = Unlock(k, m)
  /\ Returns

-----------------------------------------------------------------------------
(* The end of a thread *)

MayDie(t) == ExitHolding \/ k.held[t] = <<>>

\* A detached thread is forgotten at once, another waits to be joined.
Bury(j, t) ==
  [j EXCEPT !.state[t] = IF j.detached[t] THEN "EXITED" ELSE "MORIBUND",
            !.active = IF j.detached[t] THEN @ \ {t} ELSE @]

\* Mutant of EndTurn: the joiners are not woken.
EndTurnSilent(j, c, t) ==
  LET freed == UnlockAll(j, c, t)
  IN IF freed.current = c /\ c = t
       THEN Reschedule([freed EXCEPT !.hint = TRUE]) ELSE freed

\* From __OSUnlockAllMutex(t) on, called by c: give up the mutexes, wake the
\* joiners, and let another thread run if t was c itself.
EndTurn(j, c, t) ==
  LET freed == UnlockAll(j, c, t)
      woken == Wakeup(freed, JoinQ(t))
  IN IF freed.current # c THEN freed
     ELSE IF woken.current = c /\ c = t
            THEN Reschedule([woken EXCEPT !.hint = TRUE])
     ELSE woken

EndLeaves(j, t) ==
  Leaves(UnlockAll(j, j.current, t).current = j.current, <<"unlockAll", t>>)

ExitThread ==
  /\ Calling("Exit") /\ MayDie(k.current)
  /\ k' = EndTurn(Bury(k, k.current), k.current, k.current)
  /\ EndLeaves(Bury(k, k.current), k.current)

\* Mutant of Unqueue: a sleeper is buried without leaving its queue.
UnqueueNot(j, t) == IF j.state[t] = "READY" /\ j.suspend[t] <= 0
                      THEN UnsetRun(j, t) ELSE [j EXCEPT !.hint = TRUE]

\* OSCancelThread takes the thread off the queue it is on.
Unqueue(j, t) ==
  CASE j.state[t] = "READY" -> IF j.suspend[t] <= 0 THEN UnsetRun(j, t) ELSE j
    [] j.state[t] = "RUNNING" -> [j EXCEPT !.hint = TRUE]
    [] j.state[t] = "SLEEPING" ->
         LET off == [Unlink(j, t) EXCEPT !.queue[t] = None]
         IN IF j.suspend[t] <= 0 /\ j.mutex[t] # None
              THEN UpdatePriority(off, j.owner[j.mutex[t]]) ELSE off

\* Following the owners from the one t waits for does not lead back to t.
WaitsInNoCircle(t) ==
  \E S \in SUBSET (Thread \ {t}) :
    \A u \in S \cup {t} : NextOwner(k, u) \in S \cup {None}

\* A thread that waits in a circle is not cancelled: UpdatePriority could come
\* back to it and go through its queue pointer, which is NULL by then.
CancelThread(t) ==
  LET gone == Bury(Unqueue(k, t), t)
  IN /\ Calling("Cancel") /\ MayDie(t)
     /\ k.state[t] \in Alive
     /\ k.suspend[t] > 0 \/ WaitsInNoCircle(t)
     /\ k' = EndTurn(gone, k.current, t)
     /\ EndLeaves(gone, t)

\* A moribund thread is joined or detached: it is forgotten.
Reap(j, t) ==
  IF j.state[t] = "MORIBUND"
    THEN [j EXCEPT !.state[t] = "EXITED", !.active = @ \ {t}] ELSE j

\* Only the first joiner waits.
JoinThread(t) ==
  /\ Calling("Join") /\ k.state[t] # "none" /\ t # k.current
  /\ IF ~k.detached[t] /\ k.state[t] # "MORIBUND" /\ k.list[JoinQ(t)] = <<>>
       THEN /\ k' = Sleep(k, JoinQ(t))
            /\ Leaves(FALSE, <<"join", t>>)
       ELSE /\ k' = Reap(k, t)
            /\ Returns

DetachThread(t) ==
  /\ Calling("Detach") /\ k.state[t] # "none"
  /\ k' = Wakeup(Reap([k EXCEPT !.detached[t] = TRUE], t), JoinQ(t))
  /\ Returns

-----------------------------------------------------------------------------
(* The current thread was selected inside a call: the rest of the call runs *)

Resuming(call) == k.current # None /\ cont[k.current][1] = call

ContinueLock ==
  LET m == cont[k.current][2]
  IN /\ Resuming("lock")
     /\ k' = LockTurn([k EXCEPT !.mutex[k.current] = None], m)
     /\ Leaves(k'.owner[m] = k.current, <<"lock", m>>)

ContinueJoin ==
  LET t == cont[k.current][2]
  IN /\ Resuming("join")
     /\ k' = IF t \in k.active /\ k.state[t] # "EXITED" THEN Reap(k, t) ELSE k
     /\ Leaves(TRUE, User)

ContinueUnlockAll ==
  LET t == cont[k.current][2]
  IN /\ Resuming("unlockAll")
     /\ k' = EndTurn(k, k.current, t)
     /\ EndLeaves(k, t)

\* OSCancelAlarm, at the end of OSSleepTicks.
ContinueSleepTicks ==
  /\ Resuming("alarm")
  /\ alarms' = alarms \ {k.current}
  /\ cont' = [cont EXCEPT ![k.current] = User]
  /\ UNCHANGED k

-----------------------------------------------------------------------------
(* Interrupts *)

\* The handler runs with the scheduler disabled and reschedules at its end;
\* in the idle loop the next thread is taken as soon as one is ready.
Interrupted(j) ==
  LET enabled == [j EXCEPT !.disabled = FALSE]
  IN IF j.current = None
       THEN IF j.bits = {} THEN enabled ELSE Dispatch(enabled)
       ELSE Reschedule(enabled)

MayInterrupt == IF k.current = None THEN TRUE ELSE cont[k.current] = User

AlarmInterrupt(t) ==
  /\ MayInterrupt /\ t \in alarms
  /\ alarms' = alarms \ {t}
  /\ k' = Interrupted(Resume([k EXCEPT !.disabled = TRUE], t))
  /\ UNCHANGED cont

DeviceInterrupt(w) ==
  /\ MayInterrupt /\ k.list[WaitQ(w)] # <<>>
  /\ k' = Interrupted(Wakeup([k EXCEPT !.disabled = TRUE], WaitQ(w)))
  /\ UNCHANGED <<cont, alarms>>

-----------------------------------------------------------------------------
Call ==
  \/ YieldThread \/ SleepTicks \/ ExitThread
  \/ \E t \in Thread :
       \/ ResumeThread(t) \/ SuspendThread(t) \/ CancelThread(t)
       \/ JoinThread(t) \/ DetachThread(t)
       \/ \E p \in Bases : SetThreadPriority(t, p)
       \/ \E p \in Bases, d \in BOOLEAN : CreateThread(t, p, d)
  \/ \E m \in Mutex : LockMutex(m) \/ TryLockMutex(m) \/ UnlockMutex(m)
  \/ \E w \in WaitQueue : SleepThread(w) \/ WakeupThread(w)

Continue ==
  ContinueLock \/ ContinueJoin \/ ContinueUnlockAll \/ ContinueSleepTicks

Interrupt ==
  \/ \E t \in Thread : AlarmInterrupt(t)
  \/ \E w \in WaitQueue : DeviceInterrupt(w)

Next == Call \/ Continue \/ Interrupt

Spec == Init /\ [][Next]_vars
-----------------------------------------------------------------------------
(* Properties *)

Runnable(t) == k.state[t] = "READY" /\ k.suspend[t] = 0

\* A thread is on exactly the queue its state says, and the bits tell which
\* run queues are not empty (SetRun, UnsetRun and the list surgery of every
\* call): no thread is lost between the queues, none is on two of them.
QueuesMatchStates ==
  /\ \A p \in Priority : p \in k.bits <=> k.list[RunQ(p)] # <<>>
  /\ \A q \in DOMAIN k.list : IsInjective(k.list[q])
  /\ \A t \in Thread, q \in DOMAIN k.list :
       t \in ToSet(k.list[q]) <=>
         \/ Runnable(t) /\ q = RunQ(k.priority[t])
         \/ k.state[t] = "SLEEPING" /\ q = k.queue[t] /\ q \in SleepQueues

\* Every wait queue stays in priority order, through boosts, suspensions and
\* priority changes of the sleepers.
SleepersInOrder ==
  \A q \in SleepQueues : \A i, j \in DOMAIN k.list[q] :
    i < j => k.priority[k.list[q][i]] <= k.priority[k.list[q][j]]

\* The run queues and wait queues are sound: every thread on its queue, every
\* wait queue in order.
QueuesSound == QueuesMatchStates /\ SleepersInOrder

\* Outside a kernel call the processor runs the best thread that is ready,
\* and idles only if none is.
BestThreadRuns ==
  IF k.current = None THEN k.bits = {}
  ELSE k.state[k.current] = "RUNNING"
       /\ \A t \in Thread : Runnable(t) => k.priority[k.current] <= k.priority[t]

\* Priorities are neither lost nor kept too long: a living thread that is not
\* suspended has its base priority or that of its best waiter.
PriorityIsInherited ==
  \A t \in Thread : k.state[t] \in Alive /\ k.suspend[t] = 0 =>
    k.priority[t] = EffectivePriority(k, t)

\* Nobody waits for a mutex that is free: the waiters were woken when it was
\* given up, whoever gave it up.
NoWaiterOnFreeMutex ==
  \A m \in Mutex : k.owner[m] = None => k.list[MutexQ(m)] = <<>>

\* The dead stay dead until they are created again.
DeadStaysDead ==
  [][\A t \in Thread : (k.state[t] \in Dead /\ k'.state[t] \in Alive) =>
       /\ k.state[t] = "EXITED" /\ k'.suspend[t] = 1
       /\ k'.state[t] = "READY"]_vars

\* Nobody waits to join a thread that has died, unless it died holding a
\* mutex (it wakes the waiters of the mutex first, and a thread that ends
\* itself does not come back from that): death wakes the joiners, and who
\* calls for a thread that waits to be joined does not sleep.
NoJoinerLeftBehind ==
  [][\A t \in Thread :
       (k'.state[t] = "MORIBUND" /\ k'.list[JoinQ(t)] # <<>>) =>
         /\ k.list[JoinQ(t)] # <<>>
         /\ k.state[t] = "MORIBUND" \/ k.held[t] # <<>>]_vars
=============================================================================
