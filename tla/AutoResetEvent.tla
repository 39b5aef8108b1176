---------------------------- MODULE AutoResetEvent ----------------------------
(***************************************************************************)
(* What System::SyncEvent promises its users: a flag that Signal raises,   *)
(* and that lets one waiting thread through, lowering it.  Signals that    *)
(* come while the flag is up are merged into one.                          *)
(***************************************************************************)
CONSTANT Thread

VARIABLES flag, waiting

vars == <<flag, waiting>>

Init == flag = FALSE /\ waiting = {}

Signal == flag' = TRUE /\ UNCHANGED waiting

StartWait(t) ==
  /\ t \notin waiting
  /\ waiting' = waiting \cup {t}
  /\ UNCHANGED flag

FinishWait(t) ==
  /\ t \in waiting /\ flag
  /\ flag' = FALSE
  /\ waiting' = waiting \ {t}

Next == Signal \/ \E t \in Thread : StartWait(t) \/ FinishWait(t)

Spec == Init /\ [][Next]_vars
=============================================================================
