------------------------------ MODULE SyncProofs ------------------------------
(***************************************************************************)
(* Proofs about what threads wait for each other with.  OSMessage: its     *)
(* typing, that no wake-up is lost, and that the ring with its retry loops *)
(* implements a bounded deque, for every capacity, every set of threads    *)
(* and every set of messages.  SyncEvent: no signal is slept through, and  *)
(* it implements an auto-reset event, for any set of callers.              *)
(***************************************************************************)
EXTENDS OSMessage, SyncEvent, SequenceTheorems, TLAPS

\* The ring index of position j, counted from the front.
LEMMA RingIndex ==
  ASSUME NEW x \in 0..(2 * Capacity - 1)
  PROVE  /\ x < Capacity => x % Capacity = x
         /\ x >= Capacity => x % Capacity = x - Capacity
         /\ x % Capacity \in 0..(Capacity - 1)
BY CapacityAssumption

\* Two positions of the ring less than a capacity apart have different slots.
LEMMA SlotsDiffer ==
  ASSUME NEW f \in 0..(Capacity - 1), NEW i \in 0..(Capacity - 1),
         NEW j \in 0..(Capacity - 1), i # j
  PROVE  (f + i) % Capacity # (f + j) % Capacity
<1>1. f + i \in 0..(2 * Capacity - 1) /\ f + j \in 0..(2 * Capacity - 1)
  BY CapacityAssumption
<1>2. QED
  BY <1>1, RingIndex, CapacityAssumption

\* The front moved on by one: the next position is what followed before.
LEMMA FrontMovesOn ==
  ASSUME NEW f \in 0..(Capacity - 1), NEW g, g = (f + 1) % Capacity,
         NEW i \in 1..(Capacity - 1)
  PROVE  (g + i - 1) % Capacity = (f + (i + 1) - 1) % Capacity
<1>1. f + 1 \in 0..(2 * Capacity - 1)
  BY CapacityAssumption
<1>2. CASE f + 1 < Capacity
  <2>1. g = f + 1
    BY <1>1, <1>2, RingIndex
  <2>2. QED
    BY <2>1, CapacityAssumption
<1>3. CASE f + 1 >= Capacity
  <2>1. f = Capacity - 1 /\ g = 0
    BY <1>1, <1>3, RingIndex, CapacityAssumption
  <2>2. g + i - 1 = i - 1 /\ f + (i + 1) - 1 = Capacity + (i - 1)
    BY <2>1, CapacityAssumption
  <2>3. i - 1 \in 0..(2 * Capacity - 1) /\ Capacity + (i - 1) \in 0..(2 * Capacity - 1)
    BY CapacityAssumption
  <2>4. (i - 1) % Capacity = i - 1
    BY <2>3, RingIndex, CapacityAssumption
  <2>5. (Capacity + (i - 1)) % Capacity = i - 1
    BY <2>3, RingIndex, CapacityAssumption
  <2>6. QED
    BY <2>2, <2>4, <2>5
<1>4. QED
  BY <1>2, <1>3, CapacityAssumption

\* The front moved back by one.
LEMMA FrontMovesBack ==
  ASSUME NEW f \in 0..(Capacity - 1), NEW g, g = (f + Capacity - 1) % Capacity,
         NEW i \in 2..Capacity
  PROVE  (g + i - 1) % Capacity = (f + (i - 1) - 1) % Capacity
<1>1. g = IF f = 0 THEN Capacity - 1 ELSE f - 1
  BY CapacityAssumption
<1>2. CASE f # 0
  BY <1>1, <1>2, CapacityAssumption
<1>3. CASE f = 0
  <2>1. g + i - 1 = Capacity + (i - 2) /\ f + (i - 1) - 1 = i - 2
    BY <1>1, <1>3, CapacityAssumption
  <2>2. i - 2 \in 0..(2 * Capacity - 1) /\ Capacity + (i - 2) \in 0..(2 * Capacity - 1)
    BY CapacityAssumption
  <2>3. (i - 2) % Capacity = i - 2
    BY <2>2, RingIndex, CapacityAssumption
  <2>4. (Capacity + (i - 2)) % Capacity = i - 2
    BY <2>2, RingIndex, CapacityAssumption
  <2>5. QED
    BY <2>1, <2>3, <2>4
<1>4. QED
  BY <1>2, <1>3

LEMMA CallsDiffer ==
  /\ NoCall # TakeCall /\ NoCall \notin PutCalls /\ TakeCall \notin PutCalls
  /\ \A c \in PutCalls : c.op \in {"send", "jam"} /\ c.mesg \in Message
  /\ Deque!Calls = PutCalls \cup {TakeCall}
BY DEF NoCall, TakeCall, PutCalls, Deque!NoCall, Deque!TakeCall,
       Deque!PutCalls, Deque!PutOps, Deque!Calls

-----------------------------------------------------------------------------
(* The invariant *)

\* A sleeping thread is inside the loop of a call.
SleepersCall == \A t \in Thread : asleep[t] # "no" => call[t] # NoCall

IInv == TypeOK /\ SleepersCall /\ NoMissedWakeup

LEMMA InitIInv == Init => IInv
BY CapacityAssumption DEF Init, IInv, TypeOK, SleepersCall, NoMissedWakeup, Result

LEMMA DepositIInv ==
  ASSUME IInv, NEW t \in Thread, NEW c \in PutCalls, asleep[t] = "no",
         Deposit(t, c)
  PROVE  IInv'
<1> USE CapacityAssumption DEF IInv
<1>1. SendIndex \in 0..(Capacity - 1) /\ JamIndex \in 0..(Capacity - 1)
  <2>1. front + size \in 0..(2 * Capacity - 1)
    BY DEF TypeOK
  <2>2. front + Capacity - 1 \in 0..(2 * Capacity - 1)
    BY DEF TypeOK
  <2>3. QED
    BY <2>1, <2>2, RingIndex DEF SendIndex, JamIndex
<1>2. TypeOK'
  <2>1. buffer' \in [0..(Capacity - 1) -> Message]
    BY CallsDiffer DEF Deposit, TypeOK
  <2>2. front' \in 0..(Capacity - 1) /\ size' \in 0..Capacity
    BY <1>1 DEF Deposit, TypeOK
  <2>3. QED
    BY <2>1, <2>2 DEF Deposit, Wakeup, Returns, TypeOK, Result
<1>3. \A u \in Thread : asleep'[u] \in {asleep[u], "no"} /\ asleep'[u] # "recvQueue"
  BY DEF Deposit, Wakeup
<1>4. SleepersCall'
  BY <1>3 DEF Deposit, Returns, SleepersCall, TypeOK
<1>5. NoMissedWakeup'
  BY <1>3 DEF Deposit, NoMissedWakeup, TypeOK
<1>6. QED
  BY <1>2, <1>4, <1>5

LEMMA WithdrawIInv ==
  ASSUME IInv, NEW t \in Thread, asleep[t] = "no", Withdraw(t)
  PROVE  IInv'
<1> USE CapacityAssumption DEF IInv
<1>1. TypeOK'
  <2>1. front' \in 0..(Capacity - 1)
    <3>1. front + 1 \in 0..(2 * Capacity - 1)
      BY DEF TypeOK
    <3>2. QED
      BY <3>1, RingIndex DEF Withdraw
  <2>2. Deque!Got(buffer[front]) \in Result
    BY DEF TypeOK, Result
  <2>3. QED
    BY <2>1, <2>2 DEF Withdraw, Wakeup, Returns, TypeOK
<1>2. \A u \in Thread : asleep'[u] \in {asleep[u], "no"} /\ asleep'[u] # "sendQueue"
  BY DEF Withdraw, Wakeup
<1>3. SleepersCall'
  BY <1>2 DEF Withdraw, Returns, SleepersCall, TypeOK
<1>4. NoMissedWakeup'
  BY <1>2 DEF Withdraw, NoMissedWakeup, TypeOK
<1>5. QED
  BY <1>1, <1>3, <1>4

LEMMA BlockedIInv ==
  ASSUME IInv, NEW t \in Thread, NEW c \in Deque!Calls, NEW b \in BOOLEAN,
         NEW q \in {"sendQueue", "recvQueue"}, Blocked(t, c, q, b),
         asleep[t] = "no",
         q = "sendQueue" => size = Capacity, q = "recvQueue" => size = 0
  PROVE  IInv'
<1> USE DEF IInv
<1>1. CASE SleepOn(t, c, q)
  <2>1. TypeOK'
    BY <1>1 DEF SleepOn, TypeOK
  <2>2. SleepersCall'
    BY <1>1, CallsDiffer DEF SleepOn, SleepersCall, TypeOK
  <2>3. NoMissedWakeup'
    BY <1>1 DEF SleepOn, NoMissedWakeup, TypeOK
  <2>4. QED
    BY <2>1, <2>2, <2>3
<1>2. CASE Returns(t, Deque!Refused) /\ UNCHANGED <<buffer, front, size, asleep>>
  BY <1>2 DEF Returns, TypeOK, Result, SleepersCall, NoMissedWakeup
<1>3. QED
  BY <1>1, <1>2 DEF Blocked

LEMMA PutTurnIInv ==
  ASSUME IInv, NEW t \in Thread, NEW c \in PutCalls, NEW b \in BOOLEAN,
         asleep[t] = "no", PutTurn(t, c, b)
  PROVE  IInv'
<1>1. CASE Deposit(t, c)
  BY <1>1, DepositIInv
<1>2. CASE Capacity <= size /\ Blocked(t, c, "sendQueue", b)
  <2>1. size = Capacity /\ c \in Deque!Calls
    BY <1>2, CallsDiffer, CapacityAssumption DEF IInv, TypeOK
  <2>2. QED
    BY <1>2, <2>1, BlockedIInv
<1>3. QED
  BY <1>1, <1>2 DEF PutTurn

LEMMA TakeTurnIInv ==
  ASSUME IInv, NEW t \in Thread, NEW b \in BOOLEAN, asleep[t] = "no",
         TakeTurn(t, b)
  PROVE  IInv'
<1>1. CASE Withdraw(t)
  BY <1>1, WithdrawIInv
<1>2. CASE size = 0 /\ Blocked(t, TakeCall, "recvQueue", b)
  BY <1>2, CallsDiffer, BlockedIInv
<1>3. QED
  BY <1>1, <1>2 DEF TakeTurn

\* Every step of Next is a turn of a thread that does not sleep.
LEMMA Turns ==
  ASSUME IInv, Next
  PROVE  \E t \in Thread, b \in BOOLEAN :
           /\ asleep[t] = "no"
           /\ \/ \E c \in PutCalls :
                   call[t] \in {NoCall, c} /\ (call[t] = c => b) /\ PutTurn(t, c, b)
              \/ call[t] \in {NoCall, TakeCall} /\ (call[t] = TakeCall => b)
                   /\ TakeTurn(t, b)
<1>1. PICK t \in Thread :
        \/ \E c \in PutCalls, b \in BOOLEAN : PutMessage(t, c, b)
        \/ \E b \in BOOLEAN : ReceiveMessage(t, b)
        \/ Retry(t)
  BY DEF Next
<1>2. CASE \E c \in PutCalls, b \in BOOLEAN : PutMessage(t, c, b)
  BY <1>2, CallsDiffer DEF PutMessage, IInv, SleepersCall
<1>3. CASE \E b \in BOOLEAN : ReceiveMessage(t, b)
  BY <1>3, CallsDiffer DEF ReceiveMessage, IInv, SleepersCall
<1>4. CASE Retry(t)
  <2>1. call[t] = TakeCall \/ call[t] \in PutCalls
    BY <1>4, CallsDiffer DEF Retry, IInv, TypeOK
  <2>2. QED
    BY <1>4, <2>1, CallsDiffer DEF Retry
<1>5. QED
  BY <1>1, <1>2, <1>3, <1>4

LEMMA NextIInv == IInv /\ [Next]_vars => IInv'
<1> SUFFICES ASSUME IInv, [Next]_vars
             PROVE  IInv'
  OBVIOUS
<1>1. CASE Next
  BY <1>1, Turns, PutTurnIInv, TakeTurnIInv
<1>2. CASE UNCHANGED vars
  BY <1>2 DEF vars, IInv, TypeOK, SleepersCall, NoMissedWakeup
<1>3. QED
  BY <1>1, <1>2

\* The inductive invariant holds in every behaviour.
THEOREM Invariance == Spec => []IInv
BY InitIInv, NextIInv, PTL DEF Spec

\* The ring's indices stay inside the ring (OSMessage.c, front and size).
THEOREM TypeCorrect == Spec => []TypeOK
BY Invariance, PTL DEF IInv

\* Nobody sleeps on a queue that could serve him (the wake-ups of
\* OSSendMessage, OSJamMessage and OSReceiveMessage).
THEOREM WakeupsReach == Spec => []NoMissedWakeup
BY Invariance, PTL DEF IInv

-----------------------------------------------------------------------------
(* The refinement *)

\* What Contents looks like for any ring.
LEMMA RingIsSeq ==
  ASSUME NEW ring \in [0..(Capacity - 1) -> Message],
         NEW f \in 0..(Capacity - 1), NEW n \in 0..Capacity
  PROVE  /\ Ring(ring, f, n) \in Seq(Message) /\ Len(Ring(ring, f, n)) = n
         /\ \A i \in 1..n : Ring(ring, f, n)[i] = ring[(f + i - 1) % Capacity]
<1>1. \A i \in 1..n : (f + i - 1) % Capacity \in 0..(Capacity - 1)
  <2>1. \A i \in 1..n : f + i - 1 \in 0..(2 * Capacity - 1)
    BY CapacityAssumption
  <2>2. QED
    BY <2>1, RingIndex
<1>2. \A i \in 1..n : ring[(f + i - 1) % Capacity] \in Message
  BY <1>1
<1>3. n \in Nat
  BY CapacityAssumption
<1>4. QED
  BY <1>2, <1>3 DEF Ring

LEMMA ContentsIsSeq ==
  ASSUME TypeOK
  PROVE  /\ Contents \in Seq(Message) /\ Len(Contents) = size
         /\ \A i \in 1..size : Contents[i] = buffer[(front + i - 1) % Capacity]
BY RingIsSeq DEF TypeOK, Contents

LEMMA NewContentsIsSeq ==
  ASSUME TypeOK'
  PROVE  /\ Contents' \in Seq(Message) /\ Len(Contents') = size'
         /\ \A i \in 1..size' : Contents'[i] = buffer'[(front' + i - 1) % Capacity]
BY RingIsSeq DEF TypeOK, Contents

LEMMA SendContents ==
  ASSUME TypeOK, TypeOK', NEW t \in Thread, NEW c \in PutCalls,
         Deposit(t, c), c.op = "send"
  PROVE  Contents' = Append(Contents, c.mesg)
<1> USE CapacityAssumption
<1>1. /\ size \in Nat /\ size < Capacity /\ size' = size + 1 /\ front' = front
      /\ buffer' = [buffer EXCEPT ![(front + size) % Capacity] = c.mesg]
      /\ c.mesg \in Message
  BY CallsDiffer DEF Deposit, SendIndex, TypeOK
<1>2. /\ Contents \in Seq(Message) /\ Len(Contents) = size
      /\ \A i \in 1..size : Contents[i] = buffer[(front + i - 1) % Capacity]
  BY ContentsIsSeq
<1>3. /\ Contents' \in Seq(Message) /\ Len(Contents') = size'
      /\ \A i \in 1..size' : Contents'[i] = buffer'[(front' + i - 1) % Capacity]
  BY NewContentsIsSeq
<1>4. /\ Append(Contents, c.mesg) \in Seq(Message)
      /\ Len(Append(Contents, c.mesg)) = size'
  BY <1>1, <1>2
<1>5. ASSUME NEW i \in 1..size'
      PROVE  Contents'[i] = Append(Contents, c.mesg)[i]
  <2>1. CASE i = size'
    <3>1. (front + i - 1) % Capacity = (front + size) % Capacity
      <4>1. front \in Int /\ size \in Int /\ i = size + 1
        BY <2>1, <1>1 DEF TypeOK
      <4>2. front + i - 1 = front + size
        BY <4>1
      <4>3. QED
        BY <4>2
    <3>2. (front + size) % Capacity \in 0..(Capacity - 1)
      <4>1. front + size \in 0..(2 * Capacity - 1)
        <5>1. front \in 0..(Capacity - 1) /\ size \in Nat /\ size < Capacity
          BY <1>1 DEF TypeOK
        <5>2. QED
          BY <5>1
      <4>2. QED
        BY <4>1, RingIndex
    <3>3. Contents'[i] = c.mesg
      BY <1>1, <1>3, <3>1, <3>2 DEF TypeOK
    <3>4. QED
      BY <2>1, <3>3, <1>1, <1>2
  <2>2. CASE i # size'
    <3>1. /\ i \in 1..size /\ i - 1 # size
          /\ i - 1 \in 0..(Capacity - 1) /\ size \in 0..(Capacity - 1)
      BY <2>2, <1>1
    <3>2. (front + (i - 1)) % Capacity # (front + size) % Capacity
      BY <3>1, SlotsDiffer DEF TypeOK
    <3>3. front + (i - 1) = front + i - 1
      BY <3>1 DEF TypeOK
    <3>4. (front + i - 1) % Capacity \in 0..(Capacity - 1)
      <4>1. front + i - 1 \in 0..(2 * Capacity - 1)
        BY <3>1 DEF TypeOK
      <4>2. QED
        BY <4>1, RingIndex
    <3>5. Contents'[i] = buffer[(front + i - 1) % Capacity]
      BY <1>1, <1>3, <3>2, <3>3, <3>4 DEF TypeOK
    <3>6. QED
      BY <3>1, <3>5, <1>2, <1>1
  <2>3. QED
    BY <2>1, <2>2
<1>6. QED
  BY <1>3, <1>4, <1>5, SeqEqual

LEMMA JamContents ==
  ASSUME TypeOK, TypeOK', NEW t \in Thread, NEW c \in PutCalls,
         Deposit(t, c), c.op # "send"
  PROVE  Contents' = <<c.mesg>> \o Contents
<1> USE CapacityAssumption
<1>1. /\ size \in Nat /\ size < Capacity /\ size' = size + 1
      /\ front' = (front + Capacity - 1) % Capacity
      /\ buffer' = [buffer EXCEPT ![front'] = c.mesg]
      /\ c.mesg \in Message
  BY CallsDiffer DEF Deposit, JamIndex, TypeOK
<1>2. /\ Contents \in Seq(Message) /\ Len(Contents) = size
      /\ \A i \in 1..size : Contents[i] = buffer[(front + i - 1) % Capacity]
  BY ContentsIsSeq
<1>3. /\ Contents' \in Seq(Message) /\ Len(Contents') = size'
      /\ \A i \in 1..size' : Contents'[i] = buffer'[(front' + i - 1) % Capacity]
  BY NewContentsIsSeq
<1>4. /\ <<c.mesg>> \in Seq(Message) /\ Len(<<c.mesg>>) = 1
      /\ <<c.mesg>> \o Contents \in Seq(Message)
      /\ Len(<<c.mesg>> \o Contents) = size'
  BY <1>1, <1>2
<1>5. front' \in 0..(Capacity - 1) /\ front \in 0..(Capacity - 1)
  BY DEF TypeOK
<1>6. front' % Capacity = front'
  <2>1. \A x \in 0..(Capacity - 1) : x % Capacity = x
    OBVIOUS
  <2>2. QED
    BY <2>1, <1>5
<1>7. ASSUME NEW i \in 1..size'
      PROVE  Contents'[i] = (<<c.mesg>> \o Contents)[i]
  <2>1. front' + i - 1 \in 0..(2 * Capacity - 1)
    BY <1>1, <1>5
  <2>2. (front' + i - 1) % Capacity \in 0..(Capacity - 1)
    BY <2>1, RingIndex
  <2>3. CASE i = 1
    <3>0. front' \in Int
      BY <1>5
    <3>1. front' + i - 1 = front'
      <4>1. \A f \in Int : f + 1 - 1 = f
        OBVIOUS
      <4>2. QED
        BY <4>1, <3>0, <2>3, Zenon
    <3>2. Contents'[i] = c.mesg
      BY <1>1, <1>3, <1>5, <1>6, <3>1 DEF TypeOK
    <3>3. QED
      BY <3>2, <2>3, <1>2, <1>4
  <2>4. CASE i # 1
    <3>1. /\ i - 1 \in 1..size /\ i - 1 # 0 /\ i \in 2..Capacity
          /\ i - 1 \in 0..(Capacity - 1) /\ 0 \in 0..(Capacity - 1)
      BY <2>4, <1>1
    <3>2. (front' + (i - 1)) % Capacity # (front' + 0) % Capacity
      BY <3>1, <1>5, SlotsDiffer
    <3>0. front' \in Int /\ i \in Int
      BY <3>1, <1>5
    <3>3. front' + 0 = front' /\ front' + (i - 1) = front' + i - 1
      <4>1. \A f, j \in Int : f + 0 = f /\ f + (j - 1) = f + j - 1
        OBVIOUS
      <4>2. QED
        BY <4>1, <3>0, Zenon
    <3>4. Contents'[i] = buffer[(front' + i - 1) % Capacity]
      BY <1>1, <1>3, <1>6, <2>2, <3>2, <3>3 DEF TypeOK
    <3>5. (front' + i - 1) % Capacity = (front + (i - 1) - 1) % Capacity
      BY <3>1, <1>1, <1>5, FrontMovesBack
    <3>6. (<<c.mesg>> \o Contents)[i] = Contents[i - 1]
      BY <2>4, <3>1, <1>2, <1>4
    <3>7. QED
      BY <3>1, <3>4, <3>5, <3>6, <1>2
  <2>5. QED
    BY <2>3, <2>4
<1>8. QED
  BY <1>3, <1>4, <1>7, SeqEqual

LEMMA WithdrawContents ==
  ASSUME TypeOK, TypeOK', NEW t \in Thread, Withdraw(t)
  PROVE  /\ Contents # <<>> /\ Head(Contents) = buffer[front]
         /\ Contents' = Tail(Contents)
<1> USE CapacityAssumption
<1>1. /\ size \in Nat /\ size > 0 /\ size' = size - 1 /\ buffer' = buffer
      /\ front' = (front + 1) % Capacity
  BY DEF Withdraw, TypeOK
<1>2. /\ Contents \in Seq(Message) /\ Len(Contents) = size
      /\ \A i \in 1..size : Contents[i] = buffer[(front + i - 1) % Capacity]
  BY ContentsIsSeq
<1>3. /\ Contents' \in Seq(Message) /\ Len(Contents') = size'
      /\ \A i \in 1..size' : Contents'[i] = buffer'[(front' + i - 1) % Capacity]
  BY NewContentsIsSeq
<1>4. Contents # <<>> /\ Head(Contents) = Contents[1]
  BY <1>1, <1>2
<1>5. (front + 1 - 1) % Capacity = front
  <2>1. front \in 0..(Capacity - 1)
    BY DEF TypeOK
  <2>2. front + 1 - 1 = front
    BY <2>1
  <2>3. front % Capacity = front
    BY <2>1
  <2> QED  BY <2>2, <2>3
<1>6. Head(Contents) = buffer[front]
  BY <1>1, <1>2, <1>4, <1>5
<1>7. /\ Tail(Contents) \in Seq(Message) /\ Len(Tail(Contents)) = size'
      /\ \A i \in 1..size' : Tail(Contents)[i] = Contents[i + 1]
  BY <1>1, <1>2, <1>4, HeadTailProperties
<1>8. ASSUME NEW i \in 1..size'
      PROVE  Contents'[i] = Tail(Contents)[i]
  <2>1. i + 1 \in 1..size /\ i \in 1..(Capacity - 1) /\ front \in 0..(Capacity - 1)
    BY <1>1 DEF TypeOK
  <2>2. (front' + i - 1) % Capacity = (front + (i + 1) - 1) % Capacity
    BY <2>1, <1>1, FrontMovesOn
  <2>3. QED
    BY <2>1, <2>2, <1>1, <1>2, <1>3, <1>7
<1>9. QED
  BY <1>3, <1>4, <1>6, <1>7, <1>8, SeqEqual

LEMMA TurnRefines ==
  ASSUME IInv, IInv', NEW t \in Thread, NEW b \in BOOLEAN,
         asleep[t] = "no",
         \/ \E c \in PutCalls :
              call[t] \in {NoCall, c} /\ (call[t] = c => b) /\ PutTurn(t, c, b)
         \/ call[t] \in {NoCall, TakeCall} /\ (call[t] = TakeCall => b)
              /\ TakeTurn(t, b)
  PROVE  Deque!Next \/ UNCHANGED <<Contents, call, result>>
<1> USE DEF IInv, NoCall, PutCalls, TakeCall
<1>1. Len(Contents) = size /\ size \in Nat /\ Contents \in Seq(Message)
  BY ContentsIsSeq, CapacityAssumption DEF TypeOK
<1>2. ASSUME NEW c \in Deque!Calls, NEW q \in {"sendQueue", "recvQueue"},
             Blocked(t, c, q, b), call[t] \in {NoCall, c}, call[t] = c => b,
             Deque!Impossible(c)
      PROVE  Deque!Next \/ UNCHANGED <<Contents, call, result>>
  <2>1. UNCHANGED Contents
    BY <1>2 DEF Blocked, SleepOn, Contents
  <2>2. CASE call[t] = c
    BY <1>2, <2>1, <2>2 DEF Blocked, SleepOn, TypeOK
  <2>3. CASE call[t] = NoCall
    BY <1>2, <2>1, <2>3 DEF Blocked, SleepOn, Returns, Deque!Next, Deque!Wait,
       Deque!Refuse, Deque!Returns
  <2>4. QED
    BY <1>2, <2>2, <2>3
<1>3. ASSUME NEW c \in PutCalls, call[t] \in {NoCall, c}, Deposit(t, c)
      PROVE  Deque!Next
  <2>1. Contents' = IF c.op = "send" THEN Append(Contents, c.mesg)
                    ELSE <<c.mesg>> \o Contents
    BY <1>3, SendContents, JamContents
  <2>2. Deque!Put(t, c)
    BY <1>1, <1>3, <2>1 DEF Deque!Put, Deque!Has, Deque!Returns, Deposit, Returns
  <2>3. QED
    BY <2>2 DEF Deque!Next
<1>4. ASSUME call[t] \in {NoCall, TakeCall}, Withdraw(t)
      PROVE  Deque!Next
  <2>1. Deque!Take(t)
    BY <1>4, WithdrawContents DEF Deque!Take, Deque!Has, Deque!Returns, Withdraw,
       Returns
  <2>2. QED
    BY <2>1 DEF Deque!Next
<1>5. ASSUME NEW c \in PutCalls, call[t] \in {NoCall, c}, call[t] = c => b,
             PutTurn(t, c, b)
      PROVE  Deque!Next \/ UNCHANGED <<Contents, call, result>>
  <2>1. CASE Deposit(t, c)
    BY <2>1, <1>3, <1>5
  <2>2. CASE Capacity <= size /\ Blocked(t, c, "sendQueue", b)
    <3>1. c \in Deque!Calls /\ c # TakeCall
      BY CallsDiffer
    <3>2. Len(Contents) = Capacity
      BY <1>1, <2>2, CapacityAssumption DEF TypeOK
    <3>3. Deque!Impossible(c)
      BY <3>1, <3>2 DEF Deque!Impossible
    <3>4. QED
      BY <1>2, <1>5, <2>2, <3>1, <3>3
  <2>3. QED
    BY <1>5, <2>1, <2>2 DEF PutTurn
<1>6. ASSUME call[t] \in {NoCall, TakeCall}, call[t] = TakeCall => b, TakeTurn(t, b)
      PROVE  Deque!Next \/ UNCHANGED <<Contents, call, result>>
  <2>1. CASE Withdraw(t)
    BY <2>1, <1>4, <1>6
  <2>2. CASE size = 0 /\ Blocked(t, TakeCall, "recvQueue", b)
    <3>1. Contents = <<>>
      BY <1>1, <2>2
    <3>2. Deque!Impossible(TakeCall) /\ TakeCall \in Deque!Calls
      BY <3>1, CallsDiffer DEF Deque!Impossible
    <3>3. QED
      BY <1>2, <1>6, <2>2, <3>2
  <2>3. QED
    BY <1>6, <2>1, <2>2 DEF TakeTurn
<1>7. QED
  BY <1>5, <1>6

LEMMA InitRefines == Init => Deque!Init
<1> SUFFICES ASSUME Init
             PROVE  Deque!Init
  OBVIOUS
<1>1. Contents = <<>>
  <2>1. TypeOK
    BY InitIInv DEF IInv
  <2>2. Len(Contents) = 0 /\ Contents \in Seq(Message)
    BY <2>1, ContentsIsSeq DEF Init
  <2>3. QED
    BY <2>2
<1>2. QED
  BY <1>1 DEF Init, Deque!Init, NoCall

LEMMA NextRefines ==
  ASSUME IInv, IInv', [Next]_vars
  PROVE  [Deque!Next]_(Deque!vars)
<1>1. CASE Next
  BY <1>1, Turns, TurnRefines DEF Deque!vars
<1>2. CASE UNCHANGED vars
  BY <1>2 DEF vars, Deque!vars, Contents
<1>3. QED
  BY <1>1, <1>2

\* The ring with its loops, its two wait queues and its wake-ups of everyone
\* does what a bounded deque with atomic operations does (OSMessage.c).
THEOREM Refinement == Spec => ImplementsDeque
<1>1. IInv /\ IInv' /\ [Next]_vars => [Deque!Next]_(Deque!vars)
  BY NextRefines
<1>2. QED
  BY InitRefines, Invariance, <1>1, PTL DEF Spec, ImplementsDeque, Deque!Spec

-----------------------------------------------------------------------------
(* The event *)

\* The places where a thread holds the mutex.
Inside == {"test", "clear", "set", "wake", "unlock"}

\* The mutex is held by the thread that is inside, and nobody but the thread
\* that saw the flag up lowers it.
LockInv ==
  /\ \A t \in Caller : at[t] \in Inside => owner = {t}
  /\ \A t \in Caller : at[t] = "clear" => signalled

EventInv == EventTypeOK /\ LockInv /\ NoMissedSignal

LEMMA EventInitInv == EventInit => EventInv
BY DEF EventInit, EventInv, EventTypeOK, LockInv, NoMissedSignal, Place, Inside, Sleepers, Nobody

LEMMA EventStepInv ==
  ASSUME EventInv, NEW t \in Caller, Step(t)
  PROVE  EventInv'
<1> USE DEF EventInv, EventTypeOK, LockInv, Place, Inside, Go, Nobody
<1>1. CASE CallWait(t)
  BY <1>1 DEF CallWait, NoMissedSignal, Sleepers
<1>2. CASE CallSignal(t)
  BY <1>2 DEF CallSignal, NoMissedSignal, Sleepers
<1>3. CASE Lock(t)
  <2>1. \A u \in Caller : at[u] \notin Inside
    BY <1>3 DEF Lock
  <2>2. CASE Go(t, "wait", "test")
    BY <1>3, <2>1, <2>2 DEF Lock, NoMissedSignal, Sleepers
  <2>3. CASE Go(t, "relock", "test")
    BY <1>3, <2>1, <2>3 DEF Lock, NoMissedSignal, Sleepers
  <2>4. CASE Go(t, "signal", "set")
    BY <1>3, <2>1, <2>4 DEF Lock, NoMissedSignal, Sleepers
  <2> QED
    BY <1>3, <2>2, <2>3, <2>4 DEF Lock
<1>4. CASE Test(t)
  <2>1. CASE signalled
    BY <1>4, <2>1 DEF Test, NoMissedSignal, Sleepers
  <2>2. CASE ~signalled
    BY <1>4, <2>2 DEF Test, NoMissedSignal, Sleepers
  <2> QED
    BY <2>1, <2>2
<1>5. CASE Clear(t)
  BY <1>5 DEF Clear, NoMissedSignal
<1>6. CASE Set(t)
  BY <1>6 DEF Set, NoMissedSignal, Sleepers
<1>7. CASE Wake(t)
  <2>1. PICK W \in SUBSET Sleepers :
          /\ W = {} => Sleepers = {}
          /\ at' = [u \in Caller |-> IF u = t THEN "unlock"
                                     ELSE IF u \in W THEN "relock" ELSE at[u]]
    BY <1>7 DEF Wake
  <2>2. EventTypeOK' /\ LockInv'
    BY <1>7, <2>1 DEF Wake, Sleepers
  <2>3. CASE W = {}
    BY <1>7, <2>1, <2>3 DEF Wake, NoMissedSignal, Sleepers
  <2>4. CASE W # {}
    <3>1. PICK u \in W : u \in Caller /\ at[u] = "asleep"
      BY <2>4 DEF Sleepers
    <3>2. at'[u] = "relock"
      BY <1>7, <2>1, <3>1 DEF Wake
    <3> QED
      BY <2>2, <3>1, <3>2 DEF NoMissedSignal
  <2> QED
    BY <2>2, <2>3, <2>4
<1>8. CASE Unlock(t)
  BY <1>8 DEF Unlock, NoMissedSignal, Sleepers
<1> QED
  BY <1>1, <1>2, <1>3, <1>4, <1>5, <1>6, <1>7, <1>8 DEF Step

LEMMA EventNextInv == EventInv /\ [EventNext]_eventVars => EventInv'
<1> SUFFICES ASSUME EventInv, [EventNext]_eventVars PROVE EventInv'
  OBVIOUS
<1>1. CASE EventNext
  BY <1>1, EventStepInv DEF EventNext
<1>2. CASE UNCHANGED eventVars
  BY <1>2 DEF eventVars, EventInv, EventTypeOK, LockInv, NoMissedSignal, Sleepers
<1> QED
  BY <1>1, <1>2

\* The mutex of the event is exclusive and every field keeps its type; no
\* signal is slept through, for any number of waiters and signallers.
THEOREM NoSignalIsMissed == EventSpec => [](EventTypeOK /\ NoMissedSignal)
<1>1. EventSpec => []EventInv
  BY EventInitInv, EventNextInv, PTL DEF EventSpec
<1> QED
  BY <1>1, PTL DEF EventInv

LEMMA StepRefines ==
  ASSUME EventInv, NEW t \in Caller, Step(t)
  PROVE  [Event!Next]_Event!vars
<1> USE DEF EventInv, EventTypeOK, LockInv, Place, Inside, Go, Waiting, WaitPlaces, Event!vars
<1>1. CASE CallWait(t)
  <2>1. Event!StartWait(t)
    BY <1>1 DEF CallWait, Event!StartWait
  <2> QED
    BY <2>1 DEF Event!Next
<1>2. CASE CallSignal(t)
  BY <1>2 DEF CallSignal
<1>3. CASE Lock(t)
  <2>1. Waiting' = Waiting
    BY <1>3 DEF Lock
  <2> QED
    BY <1>3, <2>1 DEF Lock
<1>4. CASE Test(t)
  BY <1>4 DEF Test
<1>5. CASE Clear(t)
  <2>1. Event!FinishWait(t)
    BY <1>5 DEF Clear, Event!FinishWait
  <2> QED
    BY <2>1 DEF Event!Next
<1>6. CASE Set(t)
  <2>1. Waiting' = Waiting
    BY <1>6 DEF Set
  <2> QED
    BY <1>6, <2>1 DEF Set, Event!Next, Event!Signal
<1>7. CASE Wake(t)
  <2>1. Waiting' = Waiting
    BY <1>7 DEF Wake, Sleepers
  <2> QED
    BY <1>7, <2>1 DEF Wake
<1>8. CASE Unlock(t)
  BY <1>8 DEF Unlock
<1> QED
  BY <1>1, <1>2, <1>3, <1>4, <1>5, <1>6, <1>7, <1>8 DEF Step

\* A SyncEvent is an auto-reset event, whatever the interleaving.
THEOREM EventRefinement == EventSpec => ImplementsEvent
<1>1. EventInit => Event!Init
  BY DEF EventInit, Event!Init, Waiting, WaitPlaces
<1>2. EventInv /\ [EventNext]_eventVars => [Event!Next]_Event!vars
  <2> SUFFICES ASSUME EventInv, [EventNext]_eventVars PROVE [Event!Next]_Event!vars
    OBVIOUS
  <2>1. CASE EventNext
    BY <2>1, StepRefines DEF EventNext
  <2>2. CASE UNCHANGED eventVars
    BY <2>2 DEF eventVars, Event!vars, Waiting
  <2> QED
    BY <2>1, <2>2
<1> QED
  BY EventInitInv, EventNextInv, <1>1, <1>2, PTL DEF EventSpec, Event!Spec, ImplementsEvent
=============================================================================
