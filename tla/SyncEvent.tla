------------------------------- MODULE SyncEvent ------------------------------
(***************************************************************************)
(* System::SyncEvent of WAD02_15_1.cpp: a flag, an OSMutex and an OSCond.  *)
(*                                                                         *)
(* Threads call Wait and Signal at any time.  The OSCond functions are not *)
(* among the sources: OSWaitCond releases the mutex and sleeps in one      *)
(* step and takes the mutex again before it returns, OSSignalCond wakes at *)
(* least one sleeper.                                                      *)
(***************************************************************************)
CONSTANT Caller    \* the threads that call Wait and Signal

Nobody == {}

VARIABLES
  signalled,
  owner,      \* {} or the set of the one thread that holds the mutex
  at          \* where each thread is: see Place

eventVars == <<signalled, owner, at>>

Place == {"out", "wait", "test", "asleep", "relock", "clear",
          "signal", "set", "wake", "unlock"}
WaitPlaces == {"wait", "test", "asleep", "relock", "clear"}

EventTypeOK ==
  /\ signalled \in BOOLEAN
  /\ owner \in {Nobody} \cup {{t} : t \in Caller}
  /\ at \in [Caller -> Place]

\* SyncEvent::Create.
EventInit ==
  /\ signalled = FALSE
  /\ owner = Nobody
  /\ at = [t \in Caller |-> "out"]

Go(t, from, to) == at[t] = from /\ at' = [at EXCEPT ![t] = to]

CallWait(t) == Go(t, "out", "wait") /\ UNCHANGED <<signalled, owner>>
CallSignal(t) == Go(t, "out", "signal") /\ UNCHANGED <<signalled, owner>>

\* OSLockMutex, also at the end of OSWaitCond.
Lock(t) ==
  /\ owner = Nobody
  /\ owner' = {t}
  /\ \/ Go(t, "wait", "test")
     \/ Go(t, "relock", "test")
     \/ Go(t, "signal", "set")
  /\ UNCHANGED signalled

\* The loop of Wait and, while it goes on, OSWaitCond.
Test(t) ==
  /\ IF signalled
       THEN Go(t, "test", "clear") /\ UNCHANGED owner
       ELSE Go(t, "test", "asleep") /\ owner' = Nobody
  /\ UNCHANGED signalled

\* Mutant of Clear: Wait returns without resetting the flag.
ClearNothing(t) ==
  Go(t, "clear", "unlock") /\ UNCHANGED <<signalled, owner>>

Clear(t) ==
  /\ Go(t, "clear", "unlock")
  /\ signalled' = FALSE
  /\ UNCHANGED owner

\* Mutant of Set: Signal sets the flag and tells nobody.
SetSilently(t) ==
  /\ Go(t, "set", "unlock")
  /\ signalled' = TRUE
  /\ UNCHANGED owner

Set(t) ==
  /\ Go(t, "set", "wake")
  /\ signalled' = TRUE
  /\ UNCHANGED owner

Sleepers == {u \in Caller : at[u] = "asleep"}

\* OSSignalCond.
Wake(t) ==
  /\ at[t] = "wake"
  /\ \E W \in SUBSET Sleepers :
       /\ W = {} => Sleepers = {}
       /\ at' = [u \in Caller |-> IF u = t THEN "unlock"
                                  ELSE IF u \in W THEN "relock" ELSE at[u]]
  /\ UNCHANGED <<signalled, owner>>

Unlock(t) ==
  /\ Go(t, "unlock", "out")
  /\ owner' = Nobody
  /\ UNCHANGED signalled

Step(t) ==
  \/ CallWait(t) \/ CallSignal(t)
  \/ Lock(t) \/ Unlock(t)
  \/ Test(t) \/ Clear(t)
  \/ Set(t) \/ Wake(t)

EventNext == \E t \in Caller : Step(t)

EventSpec == EventInit /\ [][EventNext]_eventVars

-----------------------------------------------------------------------------
(* Properties *)

\* A signal is not slept through: while the flag is up and a thread sleeps
\* in Wait, some thread is on its way, either to wake it or to take the
\* signal itself.
NoMissedSignal ==
  signalled /\ Sleepers # {} =>
    \E u \in Caller : at[u] \in {"wake", "relock", "test", "clear"}

\* The waiters as a user sees them.
Waiting == {t \in Caller : at[t] \in WaitPlaces}

Event == INSTANCE AutoResetEvent WITH
  Thread <- Caller, flag <- signalled, waiting <- Waiting

\* However the steps of Wait and Signal interleave, each takes effect at
\* once: a thread that returns from Wait has consumed one raised flag.
ImplementsEvent == Event!Spec
=============================================================================
