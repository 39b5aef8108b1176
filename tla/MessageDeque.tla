----------------------------- MODULE MessageDeque -----------------------------
(***************************************************************************)
(* What a message queue promises its callers: a bounded double-ended queue *)
(* with atomic operations.  A call either completes, or is refused because *)
(* the queue is full or empty and the caller did not want to wait, or is   *)
(* left pending and completes later.                                       *)
(***************************************************************************)
EXTENDS Integers, Sequences

CONSTANTS Thread, Message, Capacity

VARIABLES
  queue,   \* the messages, the next one to be received first
  call,    \* the call each thread has pending, NoCall if none
  result   \* what the last completed call of each thread returned

vars == <<queue, call, result>>

NoCall == [op |-> "none"]
PutOps == {"send", "jam"}
PutCalls == [op : PutOps, mesg : Message]
TakeCall == [op |-> "receive"]
Calls == PutCalls \cup {TakeCall}

Ok == <<"ok">>
Refused == <<"refused">>
Got(m) == <<"got", m>>

Init ==
  /\ queue = <<>>
  /\ call = [t \in Thread |-> NoCall]
  /\ result = [t \in Thread |-> Ok]

\* t is free to make the call c, or has it pending.
Has(t, c) == call[t] \in {NoCall, c}

Returns(t, r) ==
  /\ call' = [call EXCEPT ![t] = NoCall]
  /\ result' = [result EXCEPT ![t] = r]

Put(t, c) ==
  /\ Has(t, c) /\ Len(queue) < Capacity
  /\ queue' = IF c.op = "send" THEN Append(queue, c.mesg) ELSE <<c.mesg>> \o queue
  /\ Returns(t, Ok)

Take(t) ==
  /\ Has(t, TakeCall) /\ queue # <<>>
  /\ queue' = Tail(queue)
  /\ Returns(t, Got(Head(queue)))

Impossible(c) == IF c = TakeCall THEN queue = <<>> ELSE Len(queue) = Capacity

Refuse(t, c) ==
  /\ call[t] = NoCall /\ Impossible(c)
  /\ UNCHANGED queue
  /\ Returns(t, Refused)

Wait(t, c) ==
  /\ call[t] = NoCall /\ Impossible(c)
  /\ call' = [call EXCEPT ![t] = c]
  /\ UNCHANGED <<queue, result>>

Next ==
  \E t \in Thread :
    \/ \E c \in PutCalls : Put(t, c)
    \/ Take(t)
    \/ \E c \in Calls : Refuse(t, c) \/ Wait(t, c)

Spec == Init /\ [][Next]_vars
=============================================================================
