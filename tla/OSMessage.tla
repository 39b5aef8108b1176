------------------------------ MODULE OSMessage ------------------------------
(***************************************************************************)
(* One message queue of OSMessage.c: a ring buffer and two wait queues.    *)
(*                                                                         *)
(* A call runs with interrupts disabled until it returns or sleeps, so     *)
(* each turn of its loop is one step.  Waking a queue makes every sleeper  *)
(* runnable; when each of them gets its turn, and who comes in between, is *)
(* up to the scheduler (OSThread) and left open here.                      *)
(***************************************************************************)
EXTENDS Integers, Sequences

CONSTANTS Thread, Message, Capacity

ASSUME CapacityAssumption == Capacity \in Nat \ {0}

VARIABLES
  buffer,  \* the ring, indices 0..Capacity-1
  front,   \* index of the next message
  size,    \* messages in the ring
  call,    \* the call whose loop a thread is in, NoCall if none
  asleep,  \* the wait queue a thread sleeps on, "no" if it can run
  result   \* what the last completed call of each thread returned

vars == <<buffer, front, size, call, asleep, result>>

\* The n messages of a ring from index f on.
Ring(ring, f, n) == [i \in 1..n |-> ring[(f + i - 1) % Capacity]]

\* The messages in the order they will be received.
Contents == Ring(buffer, front, size)

Deque == INSTANCE MessageDeque WITH queue <- Contents

NoCall == Deque!NoCall
PutCalls == Deque!PutCalls
TakeCall == Deque!TakeCall
Result == {Deque!Ok, Deque!Refused} \cup {Deque!Got(m) : m \in Message}

TypeOK ==
  /\ buffer \in [0..(Capacity - 1) -> Message]
  /\ front \in 0..(Capacity - 1)
  /\ size \in 0..Capacity
  /\ call \in [Thread -> Deque!Calls \cup {NoCall}]
  /\ asleep \in [Thread -> {"no", "sendQueue", "recvQueue"}]
  /\ result \in [Thread -> Result]

\* OSInitMessageQueue; the caller's buffer holds whatever it held.
Init ==
  /\ buffer \in [0..(Capacity - 1) -> Message]
  /\ front = 0 /\ size = 0
  /\ call = [t \in Thread |-> NoCall]
  /\ asleep = [t \in Thread |-> "no"]
  /\ result = [t \in Thread |-> Deque!Ok]

Returns(t, r) ==
  /\ call' = [call EXCEPT ![t] = NoCall]
  /\ result' = [result EXCEPT ![t] = r]

\* OSWakeupThread.
Wakeup(q) ==
  asleep' = [u \in Thread |-> IF asleep[u] = q THEN "no" ELSE asleep[u]]

\* OSSleepThread inside the loop of the call c.
SleepOn(t, c, q) ==
  /\ call' = [call EXCEPT ![t] = c]
  /\ asleep' = [asleep EXCEPT ![t] = q]
  /\ UNCHANGED <<buffer, front, size, result>>

\* A call that cannot go on now: it returns FALSE or sleeps.
Blocked(t, c, q, blocking) ==
  IF blocking THEN SleepOn(t, c, q)
  ELSE Returns(t, Deque!Refused) /\ UNCHANGED <<buffer, front, size, asleep>>

\* Mutant of SendIndex: the slot after the last message.
SendIndexLate == (front + size + 1) % Capacity

SendIndex == (front + size) % Capacity
JamIndex == (front + Capacity - 1) % Capacity

\* Mutant of Deposit: the wrong queue is woken.
DepositWrongQueue(t, c) ==
  /\ size < Capacity
  /\ buffer' = [buffer EXCEPT ![IF c.op = "send" THEN SendIndex ELSE JamIndex] = c.mesg]
  /\ front' = IF c.op = "send" THEN front ELSE JamIndex
  /\ size' = size + 1
  /\ Wakeup("sendQueue")
  /\ Returns(t, Deque!Ok)

\* OSSendMessage and OSJamMessage once there is room.
Deposit(t, c) ==
  /\ size < Capacity
  /\ buffer' = [buffer EXCEPT ![IF c.op = "send" THEN SendIndex ELSE JamIndex] = c.mesg]
  /\ front' = IF c.op = "send" THEN front ELSE JamIndex
  /\ size' = size + 1
  /\ Wakeup("recvQueue")
  /\ Returns(t, Deque!Ok)

\* OSReceiveMessage once there is a message.
Withdraw(t) ==
  /\ size > 0
  /\ front' = (front + 1) % Capacity
  /\ size' = size - 1
  /\ Wakeup("sendQueue")
  /\ Returns(t, Deque!Got(buffer[front]))
  /\ UNCHANGED buffer

PutTurn(t, c, blocking) ==
  \/ Deposit(t, c)
  \/ Capacity <= size /\ Blocked(t, c, "sendQueue", blocking)

TakeTurn(t, blocking) ==
  \/ Withdraw(t)
  \/ size = 0 /\ Blocked(t, TakeCall, "recvQueue", blocking)

\* A call by a thread, or without blocking by an interrupt handler.
PutMessage(t, c, blocking) == call[t] = NoCall /\ PutTurn(t, c, blocking)
ReceiveMessage(t, blocking) == call[t] = NoCall /\ TakeTurn(t, blocking)

\* A thread that was woken inside a call takes the next turn of its loop.
Retry(t) ==
  /\ call[t] # NoCall /\ asleep[t] = "no"
  /\ IF call[t] = TakeCall THEN TakeTurn(t, TRUE) ELSE PutTurn(t, call[t], TRUE)

Next ==
  \E t \in Thread :
    \/ \E c \in PutCalls, blocking \in BOOLEAN : PutMessage(t, c, blocking)
    \/ \E blocking \in BOOLEAN : ReceiveMessage(t, blocking)
    \/ Retry(t)

Spec == Init /\ [][Next]_vars

-----------------------------------------------------------------------------
(* Properties *)

\* No wake-up is lost: a thread sleeps in OSSendMessage or OSJamMessage only
\* while the ring is full, in OSReceiveMessage only while it is empty, however
\* many threads are woken and find the queue full or empty again.
NoMissedWakeup ==
  \A t \in Thread :
    /\ asleep[t] = "sendQueue" => size = Capacity
    /\ asleep[t] = "recvQueue" => size = 0

\* The ring with its wake-everyone loops is a bounded deque with atomic
\* operations: nothing is lost, duplicated, reordered or refused without cause.
ImplementsDeque == Deque!Spec
=============================================================================
