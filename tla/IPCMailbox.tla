----------------------------- MODULE IPCMailbox ------------------------------
(***************************************************************************)
(* What the IPC client promises: requests are passed to IOS one by one in  *)
(* the order they were made; the message register is never written before  *)
(* IOS took what is in it, and at most Capacity requests wait.             *)
(***************************************************************************)
EXTENDS Integers, Sequences

CONSTANTS Req, Capacity, NoReq

VARIABLES
  waiting,  \* the requests made and not passed on
  message   \* the one in the register, or NoReq

vars == <<waiting, message>>

Init == waiting = <<>> /\ message = NoReq

Put(r) ==
  /\ Len(waiting) < Capacity
  /\ waiting' = Append(waiting, r)
  /\ UNCHANGED message

Send ==
  /\ message = NoReq /\ waiting # <<>>
  /\ message' = Head(waiting)
  /\ waiting' = Tail(waiting)

\* A request made while the register is free: the oldest is passed on at once.
PutAndSend(r) ==
  /\ Len(waiting) < Capacity
  /\ message = NoReq
  /\ message' = Head(Append(waiting, r))
  /\ waiting' = Tail(Append(waiting, r))

Take ==
  /\ message # NoReq
  /\ message' = NoReq
  /\ UNCHANGED waiting

Next == (\E r \in Req : Put(r) \/ PutAndSend(r)) \/ Send \/ Take

Spec == Init /\ [][Next]_vars
=============================================================================
