------------------------------ MODULE AlarmClock ------------------------------
(***************************************************************************)
(* What OSAlarm promises: alarms are set for a time and fire in the order  *)
(* of their times, never early, and never after they were cancelled.       *)
(***************************************************************************)
EXTENDS Integers

CONSTANTS Alarm

VARIABLES
  now,
  due,     \* the alarms set, with their times
  ringing  \* the alarm whose handler runs, as a set

vars == <<now, due, ringing>>

Init == now \in Int /\ due = [a \in {} |-> 0] /\ ringing = {}

IsSet(a) == a \in DOMAIN due
Without(S) == [b \in DOMAIN due \ S |-> due[b]]
Same(S) == \A b \in S : due'[b] = due[b]

Pass == now' > now /\ UNCHANGED <<due, ringing>>

Set(a) ==
  /\ ~IsSet(a)
  /\ DOMAIN due' = DOMAIN due \cup {a}
  /\ Same(DOMAIN due)
  /\ due'[a] \in Int
  /\ UNCHANGED <<now, ringing>>

Cancel(S) ==
  /\ due' = Without(S)
  /\ UNCHANGED <<now, ringing>>

\* The earliest alarm fires; it may be set again, for no earlier than now.
Fire(a) ==
  /\ ringing = {} /\ ringing' = {a}
  /\ IsSet(a) /\ due[a] <= now
  /\ \A b \in DOMAIN due : due[a] <= due[b]
  /\ \/ due' = Without({a})
     \/ DOMAIN due' = DOMAIN due /\ Same(DOMAIN due \ {a}) /\ due'[a] >= now
  /\ UNCHANGED now

Return ==
  /\ ringing # {} /\ ringing' = {}
  /\ UNCHANGED <<now, due>>

Next ==
  \/ Pass
  \/ \E a \in Alarm : Set(a) \/ Fire(a)
  \/ \E S \in SUBSET Alarm : Cancel(S)
  \/ Return

Spec == Init /\ [][Next]_vars
=============================================================================
