----------------------------- MODULE OSThreadOps -----------------------------
(***************************************************************************)
(* The kernel operations of OSThread.c and OSMutex.c that run with         *)
(* interrupts disabled, as operators on a kernel state k.                  *)
(*                                                                         *)
(* The linked lists of the code are sequences.  k.list maps a queue to the *)
(* threads linked on it: a run queue per priority, the wait queue of each  *)
(* mutex, the join queue of each thread, and the queues that drivers and   *)
(* message queues sleep on.  k.queue[t] is the thread's pointer to the     *)
(* queue it is on.  A smaller number is a higher priority.                 *)
(***************************************************************************)
EXTENDS Integers, FiniteSets, SequencesExt

CONSTANTS
  Thread, Mutex, WaitQueue,
  None,
  PriorityMax        \* OS_PRIORITY_MAX, 31 in the code

Priority == 0..PriorityMax
Suspended == PriorityMax + 1  \* the priority of a suspended sleeper

RunQ(p) == <<"run", p>>
MutexQ(m) == <<"mutex", m>>
JoinQ(t) == <<"join", t>>
WaitQ(w) == <<"wait", w>>

RunQueues == {RunQ(p) : p \in Priority}
SleepQueues == {MutexQ(m) : m \in Mutex} \cup {JoinQ(t) : t \in Thread}
                 \cup {WaitQ(w) : w \in WaitQueue}

\* The line without its member x.
Without(line, x) == RemoveAt(line, CHOOSE i \in DOMAIN line : line[i] = x)

-----------------------------------------------------------------------------
(* Run queues *)

\* Mutant of SetRun: nobody is told that a better thread may be ready.
SetRunSilent(k, t) ==
  LET p == k.priority[t]
  IN [k EXCEPT !.queue[t] = RunQ(p), !.list[RunQ(p)] = Append(@, t),
               !.bits = @ \cup {p}]

\* Put a ready thread last on the run queue of its priority.
SetRun(k, t) ==
  LET p == k.priority[t]
  IN [k EXCEPT !.queue[t] = RunQ(p), !.list[RunQ(p)] = Append(@, t),
               !.bits = @ \cup {p}, !.hint = TRUE]

\* Mutant of UnsetRun: the bit of an emptied run queue stays set.
UnsetRunStaleBit(k, t) ==
  [k EXCEPT !.list[k.queue[t]] = Without(@, t), !.queue[t] = None]

\* The queue is the one the thread points to, the bit the one of its priority.
UnsetRun(k, t) ==
  LET rest == Without(k.list[k.queue[t]], t)
  IN [k EXCEPT !.list[k.queue[t]] = rest, !.queue[t] = None,
               !.bits = IF rest = <<>> THEN @ \ {k.priority[t]} ELSE @]

\* The highest priority that is ready, one below the lowest if none is.
HighestReady(k) == Min(k.bits \cup {Suspended})

\* The second half of SelectThread: the next thread, or the idle loop.
Dispatch(k) ==
  IF k.bits = {} THEN [k EXCEPT !.current = None]
  ELSE LET p == HighestReady(k)
           t == Head(k.list[RunQ(p)])
           rest == Tail(k.list[RunQ(p)])
       IN [k EXCEPT !.list[RunQ(p)] = rest,
                    !.bits = IF rest = <<>> THEN @ \ {p} ELSE @,
                    !.queue[t] = None, !.state[t] = "RUNNING",
                    !.hint = FALSE, !.current = t]

\* b is TRUE for a yield: the current thread goes behind its equals.
SelectThread(k, b) ==
  LET c == k.current
  IN IF k.disabled \/ c = None THEN k
     ELSE IF k.state[c] # "RUNNING" THEN Dispatch(k)
     ELSE IF ~b /\ k.priority[c] <= HighestReady(k) THEN k
     ELSE Dispatch(SetRun([k EXCEPT !.state[c] = "READY"], c))

Reschedule(k) == IF k.hint THEN SelectThread(k, FALSE) ELSE k

-----------------------------------------------------------------------------
(* Wait queues: in priority order, equals in order of arrival *)

Unlink(k, t) == [k EXCEPT !.list[k.queue[t]] = Without(@, t)]

\* Put t on the queue it points to, before the first sleeper of lower priority.
Link(k, t) ==
  LET line == k.list[k.queue[t]]
      lower == {i \in DOMAIN line : k.priority[line[i]] > k.priority[t]}
      place == Min(lower \cup {Len(line) + 1})
  IN [k EXCEPT !.list[k.queue[t]] = InsertAt(line, place, t)]

Sleep(k, q) ==
  LET c == k.current
  IN Reschedule([Link([k EXCEPT !.state[c] = "SLEEPING", !.queue[c] = q], c)
                   EXCEPT !.hint = TRUE])

\* One sleeper: it is ready, and runnable unless it is suspended.
Wake(k, t) ==
  LET ready == [k EXCEPT !.state[t] = "READY"]
  IN IF k.suspend[t] <= 0 THEN SetRun(ready, t) ELSE ready

\* Everyone on the queue wakes; only then may another thread be chosen.
Wakeup(k, q) ==
  LET line == k.list[q]
      woken[i \in 0..Len(line)] ==
        IF i = 0 THEN [k EXCEPT !.list[q] = <<>>] ELSE Wake(woken[i - 1], line[i])
  IN Reschedule(woken[Len(line)])

-----------------------------------------------------------------------------
(* Priority inheritance *)

\* The base priority, or that of the best waiter for a mutex the thread holds.
EffectivePriority(k, t) ==
  Min({k.base[t]} \cup
      {k.priority[Head(k.list[MutexQ(m)])] :
         m \in {n \in ToSet(k.held[t]) : k.list[MutexQ(n)] # <<>>}})

SetEffectivePriority(k, t, p) ==
  CASE k.state[t] = "READY" ->
         SetRun([UnsetRun(k, t) EXCEPT !.priority[t] = p], t)
    [] k.state[t] = "SLEEPING" ->
         Link([Unlink(k, t) EXCEPT !.priority[t] = p], t)
    [] k.state[t] = "RUNNING" ->
         [k EXCEPT !.hint = TRUE, !.priority[t] = p]
    [] OTHER -> k

\* What SetEffectivePriority returns: who the thread in turn waits for.
NextOwner(k, t) ==
  IF k.state[t] = "SLEEPING" /\ k.mutex[t] # None
    THEN k.owner[k.mutex[t]] ELSE None

\* Follow the chain of owners from t while Target(k, thread) differs from the
\* thread's priority.  The priorities given on the way only go down, so no
\* thread is given the same one twice, even if threads wait in a circle.
Follow(k0, t0, Target(_, _)) ==
  LET turns == Cardinality(Thread \X Priority) + 1
      visit(s) ==
        IF s.at = None \/ s.k.suspend[s.at] > 0
             \/ s.k.priority[s.at] = Target(s.k, s.at)
          THEN [k |-> s.k, at |-> None]
          ELSE [k |-> SetEffectivePriority(s.k, s.at, Target(s.k, s.at)),
                at |-> NextOwner(s.k, s.at)]
      walk[i \in 0..turns] ==
        IF i = 0 THEN [k |-> k0, at |-> t0] ELSE visit(walk[i - 1])
  IN walk[turns].k

UpdatePriority(k, t) == Follow(k, t, EffectivePriority)

\* __OSPromoteThread: nobody on the chain stays below priority p.
PromoteThread(k, t, p) ==
  Follow(k, t, LAMBDA j, u : Min({j.priority[u], p}))

-----------------------------------------------------------------------------
(* Suspension *)

Suspend(k, t) ==
  LET counted == [k EXCEPT !.suspend[t] = @ + 1]
  IN IF k.suspend[t] # 0 THEN counted
     ELSE Reschedule(
       CASE k.state[t] = "RUNNING" ->
              [counted EXCEPT !.hint = TRUE, !.state[t] = "READY"]
         [] k.state[t] = "READY" -> UnsetRun(counted, t)
         [] k.state[t] = "SLEEPING" ->
              LET last == [Unlink(counted, t) EXCEPT
                             !.priority[t] = Suspended,
                             !.list[k.queue[t]] = Append(@, t)]
              IN IF k.mutex[t] # None
                   THEN UpdatePriority(last, k.owner[k.mutex[t]]) ELSE last
         [] OTHER -> counted)

\* Resuming a thread that is not suspended changes nothing.
Resume(k, t) ==
  IF k.suspend[t] = 0 THEN k
  ELSE LET counted == [k EXCEPT !.suspend[t] = @ - 1]
           effective == EffectivePriority(counted, t)
       IN IF counted.suspend[t] > 0 THEN counted
          ELSE Reschedule(
            CASE k.state[t] = "READY" ->
                   SetRun([counted EXCEPT !.priority[t] = effective], t)
              [] k.state[t] = "SLEEPING" ->
                   LET placed == Link([Unlink(counted, t) EXCEPT
                                         !.priority[t] = effective], t)
                   IN IF k.mutex[t] # None
                        THEN UpdatePriority(placed, k.owner[k.mutex[t]])
                        ELSE placed
              [] OTHER -> counted)

-----------------------------------------------------------------------------
(* Mutexes *)

Acquire(k, c, m) ==
  [k EXCEPT !.owner[m] = c, !.lock[m] = @ + 1, !.held[c] = Append(@, m)]

\* Mutant of Unlock: the boost is kept after the mutex is given up.
UnlockBoosted(k, m) ==
  LET c == k.current
      counted == [k EXCEPT !.lock[m] = @ - 1]
  IN IF k.owner[m] # c THEN k
     ELSE IF counted.lock[m] # 0 THEN counted
     ELSE Wakeup([counted EXCEPT !.held[c] = Without(@, m), !.owner[m] = None],
                 MutexQ(m))

\* OSUnlockMutex: only the owner's last unlock frees the mutex.  A boosted
\* owner then falls back before the waiters wake.
Unlock(k, m) ==
  LET c == k.current
      counted == [k EXCEPT !.lock[m] = @ - 1]
      free == [counted EXCEPT !.held[c] = Without(@, m), !.owner[m] = None]
      lowered == IF free.priority[c] < free.base[c]
                   THEN [free EXCEPT !.priority[c] = EffectivePriority(free, c)]
                   ELSE free
  IN IF k.owner[m] # c THEN k
     ELSE IF counted.lock[m] # 0 THEN counted
     ELSE Wakeup(lowered, MutexQ(m))

\* Mutant of UnlockFirst: the waiters are not woken.
UnlockFirstSilent(k, t) ==
  LET m == Head(k.held[t])
  IN [k EXCEPT !.held[t] = Tail(@), !.lock[m] = 0, !.owner[m] = None]

\* One turn of the loop of __OSUnlockAllMutex.
UnlockFirst(k, t) ==
  LET m == Head(k.held[t])
  IN Wakeup([k EXCEPT !.held[t] = Tail(@), !.lock[m] = 0, !.owner[m] = None],
            MutexQ(m))

\* __OSUnlockAllMutex as far as the caller c gets: it stops where waking a
\* waiter switched to another thread.
UnlockAll(k, c, t) ==
  LET turns == Len(k.held[t])
      loop[i \in 0..turns] ==
        IF i = 0 THEN k
        ELSE IF loop[i - 1].current # c \/ loop[i - 1].held[t] = <<>>
               THEN loop[i - 1]
        ELSE UnlockFirst(loop[i - 1], t)
  IN loop[turns]
=============================================================================
