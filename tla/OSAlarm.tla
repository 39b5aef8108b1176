------------------------------- MODULE OSAlarm -------------------------------
(***************************************************************************)
(* The alarms of OSAlarm.c: a doubly linked queue sorted by end time, and  *)
(* the decrementer, which interrupts when it passes below zero.            *)
(*                                                                         *)
(* Every call runs with interrupts off and is one step, at one reading of  *)
(* the time base.  A handler runs in the decrementer exception: it may     *)
(* call any of the operations, and no exception is taken before it         *)
(* returns.  The decrementer itself is hardware, modelled from SetTimer    *)
(* and the exception callback: an exception once raised stays pending      *)
(* until it is taken, whatever is written to the decrementer meanwhile.    *)
(***************************************************************************)
EXTENDS Integers, FiniteSets

CONSTANTS
  Alarm,
  DVDAlarm,   \* the alarms __DVDTestAlarm knows
  NULL,
  DecMax,     \* the largest value of the decrementer, 0x7FFFFFFF
  Tick,       \* bound: the delays, from now, of the alarms set
  Period,     \* bound: the periods of periodic alarms
  MaxTime     \* bound: the time at which the clock stops

ASSUME AlarmAssumption ==
  /\ IsFiniteSet(Alarm) /\ NULL \notin Alarm /\ DVDAlarm \subseteq Alarm
  /\ DecMax \in Nat \ {0} /\ MaxTime \in Nat
  /\ Tick \subseteq Int /\ Period \subseteq Nat \ {0}

VARIABLES
  now,       \* __OSGetSystemTime
  queue,     \* AlarmQueue, the links of the alarms and the decrementer
  armed,     \* the alarms whose handler is not NULL
  end, start, period,
  pending,   \* a decrementer exception waits to be taken
  handling,  \* the alarm whose handler runs
  up         \* FALSE after the final pass of the shutdown

alarmVars == <<armed, end, start, period>>
vars == <<now, queue, alarmVars, pending, handling, up>>

Link == Alarm \cup {NULL}
Stopped == -1

TypeOK ==
  /\ now \in 0..MaxTime
  /\ queue \in [head : Link, tail : Link,
                next : [Alarm -> Link], prev : [Alarm -> Link],
                dec : Stopped..(MaxTime + DecMax)]
  /\ armed \subseteq Alarm
  /\ end \in [Alarm -> Int]
  /\ start \in [Alarm -> Int]
  /\ period \in [Alarm -> Nat]
  /\ pending \in BOOLEAN
  /\ handling \in Link
  /\ up \in BOOLEAN

\* __OSInitAlarm; whatever the decrementer did before, an exception may wait.
Init ==
  /\ now = 0
  /\ queue = [head |-> NULL, tail |-> NULL,
              next |-> [a \in Alarm |-> NULL], prev |-> [a \in Alarm |-> NULL],
              dec |-> Stopped]
  /\ armed = {}
  /\ end = [a \in Alarm |-> 0]
  /\ start = [a \in Alarm |-> 0]
  /\ period = [a \in Alarm |-> 0]
  /\ pending \in BOOLEAN
  /\ handling = NULL
  /\ up = TRUE

-----------------------------------------------------------------------------
(* The queue *)

\* The value of the decrementer is kept as the time at which it is zero.
SetTimer(q, e) ==
  [q EXCEPT !.dec = now + IF e < now THEN 0
                          ELSE IF e - now <= DecMax THEN e - now ELSE DecMax]

\* The alarms in the order of the next links; NULL past the last.
Chain(q) ==
  LET nth[i \in 0..Cardinality(Alarm)] ==
        IF i = 0 THEN q.head
        ELSE IF nth[i - 1] = NULL THEN NULL ELSE q.next[nth[i - 1]]
  IN  nth

\* Mutant of FirstLater: the alarm goes in front of all others.
FirstLaterHead(q, e) == q.head

\* The first alarm of the queue later than e, or NULL.
FirstLater(q, e) ==
  LET c == Chain(q)
      Stop(i) == c[i] = NULL \/ end[c[i]] > e
      k == CHOOSE i \in DOMAIN c : Stop(i) /\ \A j \in 0..(i - 1) : ~Stop(j)
  IN  c[k]

\* Mutant of Linked: the timer is set only when the queue was empty.
LinkedTimerOnce(q, a, e) ==
  LET iter == FirstLater(q, e)
      p == IF iter = NULL THEN q.tail ELSE q.prev[iter]
      r == [q EXCEPT !.next = [b \in Alarm |-> IF b = a THEN iter
                                               ELSE IF b = p THEN a ELSE @[b]],
                     !.prev = [b \in Alarm |-> IF b = a THEN p
                                               ELSE IF b = iter THEN a ELSE @[b]],
                     !.tail = IF iter = NULL THEN a ELSE @,
                     !.head = IF p = NULL THEN a ELSE @]
  IN  IF p = NULL /\ iter = NULL THEN SetTimer(r, e) ELSE r

\* InsertAlarm's loop finds iter; the alarm goes in front of it, or last.
Linked(q, a, e) ==
  LET iter == FirstLater(q, e)
      p == IF iter = NULL THEN q.tail ELSE q.prev[iter]
      r == [q EXCEPT !.next = [b \in Alarm |-> IF b = a THEN iter
                                               ELSE IF b = p THEN a ELSE @[b]],
                     !.prev = [b \in Alarm |-> IF b = a THEN p
                                               ELSE IF b = iter THEN a ELSE @[b]],
                     !.tail = IF iter = NULL THEN a ELSE @,
                     !.head = IF p = NULL THEN a ELSE @]
  IN  IF p = NULL THEN SetTimer(r, e) ELSE r

\* Mutant of Unlinked: the next alarm keeps its prev link.
UnlinkedOneWay(q, a) ==
  LET n == q.next[a]
      p == q.prev[a]
      r == [q EXCEPT !.next = [b \in Alarm |-> IF b = p THEN n ELSE @[b]],
                     !.tail = IF n = NULL THEN p ELSE @,
                     !.head = IF p = NULL THEN n ELSE @]
  IN  IF p = NULL /\ n # NULL THEN SetTimer(r, end[n]) ELSE r

\* OSCancelAlarm of an alarm that is set.
Unlinked(q, a) ==
  LET n == q.next[a]
      p == q.prev[a]
      r == [q EXCEPT !.next = [b \in Alarm |-> IF b = p THEN n ELSE @[b]],
                     !.prev = [b \in Alarm |-> IF b = n THEN p ELSE @[b]],
                     !.tail = IF n = NULL THEN p ELSE @,
                     !.head = IF p = NULL THEN n ELSE @]
  IN  IF p = NULL /\ n # NULL THEN SetTimer(r, end[n]) ELSE r

\* The exception callback takes the head off.
Popped(q) ==
  LET n == q.next[q.head] IN
  [q EXCEPT !.head = n,
            !.tail = IF n = NULL THEN NULL ELSE @,
            !.prev = [b \in Alarm |-> IF b = n THEN NULL ELSE @[b]]]

\* The next end of a periodic alarm: its start, or the first period of the
\* grid after now.
PeriodicEnd(a, s, p) ==
  IF s < now THEN s + p * ((now - s) \div p + 1) ELSE s

Insert(q, a, e) ==
  /\ queue' = Linked(q, a, e)
  /\ end' = [end EXCEPT ![a] = e]

-----------------------------------------------------------------------------
(* The operations, by threads or by the handler that runs *)

\* Alarms are set only when they are not in the queue: no call tests it.
OSSetAlarm(a, tick) ==
  /\ up
  /\ a \notin armed
  /\ Insert(queue, a, now + tick)
  /\ armed' = armed \cup {a}
  /\ period' = [period EXCEPT ![a] = 0]
  /\ UNCHANGED <<now, start, pending, handling, up>>

OSSetPeriodicAlarm(a, s, p) ==
  /\ up
  /\ a \notin armed
  /\ Insert(queue, a, PeriodicEnd(a, s, p))
  /\ armed' = armed \cup {a}
  /\ start' = [start EXCEPT ![a] = s]
  /\ period' = [period EXCEPT ![a] = p]
  /\ UNCHANGED <<now, pending, handling, up>>

\* An alarm that is not set is left alone.
OSCancelAlarm(a) ==
  /\ up
  /\ a \in armed
  /\ queue' = Unlinked(queue, a)
  /\ armed' = armed \ {a}
  /\ UNCHANGED <<now, end, start, period, pending, handling, up>>

\* OnReset, the final pass: the walk cancels each alarm but those of the DVD.
OnReset ==
  /\ up
  /\ handling = NULL
  /\ up' = FALSE
  /\ LET c == Chain(queue)
         walk[i \in 0..Cardinality(Alarm)] ==
           IF i = 0 THEN queue
           ELSE IF c[i - 1] = NULL \/ c[i - 1] \in DVDAlarm THEN walk[i - 1]
           ELSE Unlinked(walk[i - 1], c[i - 1])
     IN  queue' = walk[Cardinality(Alarm)]
  /\ armed' = armed \cap DVDAlarm
  /\ UNCHANGED <<now, end, start, period, pending, handling>>

-----------------------------------------------------------------------------
(* The decrementer *)

\* The decrementer goes below zero.
RunsOut == queue.dec # Stopped /\ queue.dec <= now

\* Time passes; the decrementer interrupts when it goes below zero, which it
\* still does when the model's clock has stopped.
Clock ==
  /\ now < MaxTime \/ RunsOut
  /\ now' = IF now < MaxTime THEN now + 1 ELSE now
  /\ IF RunsOut
     THEN pending' = TRUE /\ queue' = [queue EXCEPT !.dec = Stopped]
     ELSE UNCHANGED <<pending, queue>>
  /\ UNCHANGED <<alarmVars, handling, up>>

ExceptionTaken ==
  /\ up /\ pending /\ handling = NULL
  /\ pending' = FALSE

\* No alarm is left, or the first is not due yet.
NothingDue ==
  /\ ExceptionTaken
  /\ IF queue.head = NULL THEN UNCHANGED queue
     ELSE /\ now < end[queue.head]
          /\ queue' = SetTimer(queue, end[queue.head])
  /\ UNCHANGED <<now, alarmVars, handling, up>>

\* Mutant of SetTimerForHead: the timer is left as the last insertion set it.
SetTimerForHeadNot(q, e) == q

\* The timer is set for the alarm that is first now, if there is one.
SetTimerForHead(q, e) == IF q.head = NULL THEN q ELSE SetTimer(q, e[q.head])

\* The first alarm is due: a periodic one is queued again, the timer is set
\* for the next, and the handler is called.
Ring ==
  LET a == queue.head
      e == PeriodicEnd(a, start[a], period[a])
  IN
  /\ ExceptionTaken
  /\ a # NULL
  /\ end[a] <= now
  /\ handling' = a
  /\ IF period[a] > 0
     THEN /\ end' = [end EXCEPT ![a] = e]
          /\ queue' = SetTimerForHead(Linked(Popped(queue), a, e), end')
          /\ UNCHANGED armed
     ELSE /\ armed' = armed \ {a}
          /\ queue' = SetTimerForHead(Popped(queue), end)
          /\ UNCHANGED end
  /\ UNCHANGED <<now, start, period, up>>

HandlerReturns ==
  /\ handling # NULL
  /\ handling' = NULL
  /\ UNCHANGED <<now, queue, alarmVars, pending, up>>

-----------------------------------------------------------------------------
Call(a) ==
  \/ \E tick \in Tick : OSSetAlarm(a, tick)
  \/ \E s \in 0..MaxTime, p \in Period : OSSetPeriodicAlarm(a, s, p)
  \/ OSCancelAlarm(a)

Exception == NothingDue \/ Ring

Next ==
  \/ \E a \in Alarm : Call(a)
  \/ OnReset
  \/ Clock
  \/ Exception
  \/ HandlerReturns

Spec == Init /\ [][Next]_vars

\* Time passes, exceptions are taken and handlers return.
FairSpec ==
  Spec /\ WF_vars(Clock) /\ WF_vars(Exception) /\ WF_vars(HandlerReturns)

-----------------------------------------------------------------------------
(* Properties *)

Listed == {Chain(queue)[i] : i \in DOMAIN Chain(queue)} \ {NULL}

\* Through insertions, cancellations and pops anywhere in the queue the links
\* in both directions agree, the queue is sorted and holds the set alarms.
QueueIntact ==
  LET q == queue IN
  /\ Listed = armed
  /\ q.head = NULL <=> q.tail = NULL
  /\ \A a \in armed :
       /\ q.prev[a] = NULL <=> q.head = a
       /\ q.next[a] = NULL <=> q.tail = a
       /\ q.next[a] # NULL => q.prev[q.next[a]] = a /\ end[a] <= end[q.next[a]]

\* No alarm is overslept: while one is set an exception waits, or the
\* decrementer runs out no later than the first end, or as far as it reaches.
TimerArmed ==
  up /\ queue.head # NULL =>
    \/ pending
    \/ /\ queue.dec # Stopped
       /\ \/ queue.dec <= end[queue.head]
          \/ queue.dec <= now

\* A one-shot alarm fires, or is cancelled, however the others move around it.
AlarmFires ==
  \A a \in Alarm :
    (a \in armed /\ period[a] = 0 /\ end[a] <= MaxTime) ~> (a \notin armed \/ ~up)

Service == INSTANCE AlarmClock
  WITH due <- [a \in armed |-> end[a]],
       ringing <- IF handling = NULL THEN {} ELSE {handling}

\* The queue and the timer are an alarm clock: earliest first, never early,
\* never after a cancellation, and periods missed are skipped.
ImplementsClock == Service!Spec
=============================================================================
