----------------------------- MODULE IPCProofs -----------------------------
(***************************************************************************)
(* Proofs about IPCClient and IPCHeap.  The client: no request is lost or  *)
(* doubled, none waits for nothing, and the ring with its register         *)
(* implements the mailbox, for any threads, requests and capacity.  The    *)
(* heap: its headers, its list and the blocks given out agree, for a heap  *)
(* of any size and requests of any size and alignment.                     *)
(***************************************************************************)
EXTENDS IPCClient, IPCHeap, SequenceTheorems, FiniteSetTheorems,
        WellFoundedInduction, TLAPS

-----------------------------------------------------------------------------
(* The ring *)

\* The slot k places after one of the ring.
LEMMA SlotAfter ==
  ASSUME NEW f \in 0..(Capacity - 1), NEW k \in 0..Capacity
  PROVE  (f + k) % Capacity = IF f + k < Capacity THEN f + k ELSE f + k - Capacity
BY IPCAssumption

LEMMA FirstSlot ==
  ASSUME NEW f \in 0..(Capacity - 1)
  PROVE  (f + 1 - 1) % Capacity = f
<1>1. f + 1 - 1 = f /\ f % Capacity = f
  BY IPCAssumption
<1> QED  BY <1>1

\* Waiting, of any value of the client's record.
WaitingOf(c) ==
  [i \in 1..(c.queued - c.sent) |-> c.queue[(c.front + i - 1) % Capacity]]

Ring(c) ==
  /\ c \in Client
  /\ c.queued - c.sent \in 0..Capacity
  /\ c.back = (c.front + (c.queued - c.sent)) % Capacity
  /\ WaitingOf(c) \in Seq(Req)

LEMMA WaitingSlots ==
  ASSUME NEW c, Ring(c)
  PROVE  /\ c.queued - c.sent \in Nat /\ c.queued - c.sent <= Capacity
         /\ Len(WaitingOf(c)) = c.queued - c.sent
         /\ \A i \in 1..(c.queued - c.sent) :
              /\ (c.front + i - 1) % Capacity \in 0..(Capacity - 1)
              /\ WaitingOf(c)[i] = c.queue[(c.front + i - 1) % Capacity]
<1>1. c.queued - c.sent \in Nat /\ c.queued - c.sent <= Capacity
  BY IPCAssumption DEF Ring
<1>2. Len(WaitingOf(c)) = c.queued - c.sent
  BY <1>1 DEF Ring, WaitingOf
<1>3. ASSUME NEW i \in 1..(c.queued - c.sent)
      PROVE  (c.front + i - 1) % Capacity \in 0..(Capacity - 1)
  <2>1. c.front \in 0..(Capacity - 1)
    BY DEF Ring, Client
  <2>2. i - 1 \in 0..Capacity /\ c.front + (i - 1) = c.front + i - 1
    BY <1>1, <2>1, IPCAssumption
  <2>3. (c.front + (i - 1)) % Capacity \in 0..(Capacity - 1)
    <3>1. (c.front + (i - 1)) % Capacity
             = IF c.front + (i - 1) < Capacity THEN c.front + (i - 1)
               ELSE c.front + (i - 1) - Capacity
      BY <2>1, <2>2, SlotAfter
    <3> QED  BY <3>1, <2>1, <2>2, IPCAssumption
  <2>4. QED
    BY <2>2, <2>3
<1>4. QED
  BY <1>1, <1>2, <1>3 DEF WaitingOf

\* __ipcQueueRequest puts a request behind the others.
LEMMA QueueAppends ==
  ASSUME NEW c, Ring(c), NEW r \in Req, NEW n, n = QueueRequest(c, r),
         c.queued - c.sent < Capacity, c.queued < MaxRequests
  PROVE  /\ Ring(n) /\ WaitingOf(n) = Append(WaitingOf(c), r)
         /\ n.mailboxAck = c.mailboxAck /\ n.message = c.message
         /\ n.relnchFl = c.relnchFl /\ n.relnchRpc = c.relnchRpc
         /\ n.sent = c.sent
<1> DEFINE w == c.queued - c.sent
<1>1. /\ Capacity \in Nat \ {0} /\ MaxRequests \in Nat
      /\ c.front \in 0..(Capacity - 1) /\ c.back \in 0..(Capacity - 1)
      /\ c.sent \in 0..MaxRequests /\ c.queued \in 0..MaxRequests
      /\ w \in 0..(Capacity - 1)
  BY IPCAssumption DEF Ring, Client
<1>0. c.back = (c.front + w) % Capacity
  BY DEF Ring
<1>2. c.queue \in [0..(Capacity - 1) -> Req \cup {NoReq}]
  BY DEF Ring, Client
<1>3. /\ n.back = (c.back + 1) % Capacity /\ n.queued = c.queued + 1
      /\ n.front = c.front /\ n.sent = c.sent
  BY DEF Ring, Client, QueueRequest
<1>4. n.queue = [c.queue EXCEPT ![c.back] = r]
  BY DEF Ring, Client, QueueRequest
<1>5. /\ n.mailboxAck = c.mailboxAck /\ n.message = c.message
      /\ n.relnchFl = c.relnchFl /\ n.relnchRpc = c.relnchRpc
  BY DEF Ring, Client, QueueRequest
<1>6. n.queued - n.sent = w + 1 /\ n.queued \in 0..MaxRequests
  BY <1>1, <1>3
<1> HIDE DEF w
<1>7. n.back = (n.front + (n.queued - n.sent)) % Capacity /\ n.back \in 0..(Capacity - 1)
  <2>1. /\ 1 \in 0..Capacity /\ w \in 0..Capacity /\ w + 1 \in 0..Capacity
    BY <1>1
  <2>2. /\ (c.back + 1) % Capacity = IF c.back + 1 < Capacity THEN c.back + 1
                                     ELSE c.back + 1 - Capacity
        /\ c.back = IF c.front + w < Capacity THEN c.front + w
                    ELSE c.front + w - Capacity
        /\ (c.front + (w + 1)) % Capacity
             = IF c.front + (w + 1) < Capacity THEN c.front + (w + 1)
               ELSE c.front + (w + 1) - Capacity
    BY <2>1, <1>0, <1>1, SlotAfter
  <2>3. (c.back + 1) % Capacity = (c.front + (w + 1)) % Capacity
    BY <2>2, <1>1
  <2>4. (c.back + 1) % Capacity \in 0..(Capacity - 1)
    BY <2>2, <1>1
  <2> QED  BY <2>3, <2>4, <1>3, <1>6
<1>8. n \in Client
  <2>1. n.queue \in [0..(Capacity - 1) -> Req \cup {NoReq}]
    BY <1>2, <1>4
  <2> QED  BY <2>1, <1>6, <1>7 DEF Ring, Client, QueueRequest
<1>9. \A i \in 1..(w + 1) : WaitingOf(n)[i] = n.queue[(c.front + i - 1) % Capacity]
  BY <1>3, <1>6 DEF WaitingOf
<1>10. /\ WaitingOf(c) \in Seq(Req) /\ Len(WaitingOf(c)) = w
       /\ \A i \in 1..w : WaitingOf(c)[i] = c.queue[(c.front + i - 1) % Capacity]
       /\ \A i \in 1..w : (c.front + i - 1) % Capacity \in 0..(Capacity - 1)
  BY WaitingSlots DEF Ring, w
<1>11. ASSUME NEW i \in 1..(w + 1)
       PROVE  WaitingOf(n)[i] = Append(WaitingOf(c), r)[i]
  <2>1. c.front + (i - 1) = c.front + i - 1 /\ i - 1 \in 0..Capacity
    BY <1>1
  <2>2. CASE i = w + 1
    <3>1. (c.front + i - 1) % Capacity = c.back
      BY <2>1, <2>2, <1>0, <1>1
    <3>2. WaitingOf(n)[i] = r
      BY <3>1, <1>1, <1>2, <1>4, <1>9
    <3> QED  BY <3>2, <2>2, <1>10
  <2>3. CASE i # w + 1
    <3>1. i \in 1..w
      BY <2>3, <1>1
    <3>2. /\ (c.front + (i - 1)) % Capacity
               = IF c.front + (i - 1) < Capacity THEN c.front + (i - 1)
                 ELSE c.front + (i - 1) - Capacity
          /\ c.back = IF c.front + w < Capacity THEN c.front + w
                      ELSE c.front + w - Capacity
      <4>1. w \in 0..Capacity
        BY <1>1
      <4> QED  BY <4>1, <2>1, <1>0, <1>1, SlotAfter
    <3>3. (c.front + (i - 1)) % Capacity # c.back
      BY <3>1, <3>2, <1>1
    <3>4. WaitingOf(n)[i] = WaitingOf(c)[i]
      <4> DEFINE k == (c.front + i - 1) % Capacity
      <4>1. k # c.back
        BY <2>1, <3>3
      <4>2. /\ k \in 0..(Capacity - 1) /\ WaitingOf(c)[i] = c.queue[k]
            /\ WaitingOf(n)[i] = n.queue[k]
        BY <3>1, <1>9, <1>10
      <4> HIDE DEF k
      <4> QED  BY <4>1, <4>2, <1>2, <1>4
    <3> QED  BY <3>1, <3>4, <1>1, <1>10
  <2> QED  BY <2>2, <2>3
<1>12. WaitingOf(n) = Append(WaitingOf(c), r) /\ WaitingOf(n) \in Seq(Req)
  <2>1. /\ Append(WaitingOf(c), r) \in Seq(Req)
        /\ Len(Append(WaitingOf(c), r)) = w + 1
    BY <1>10
  <2>2. \A i \in 1..(w + 1) : WaitingOf(n)[i] \in Req
    BY <2>1, <1>11
  <2>3. WaitingOf(n) \in Seq(Req) /\ Len(WaitingOf(n)) = w + 1
    <3>1. w + 1 \in Nat
      BY <1>1
    <3>2. WaitingOf(n) = [i \in 1..(w + 1) |-> WaitingOf(n)[i]]
      BY <1>6 DEF WaitingOf
    <3> QED  BY <2>2, <3>1, <3>2
  <2> QED  BY <2>1, <2>3, <1>11, SeqEqual
<1>13. n.queued - n.sent \in 0..Capacity
  BY <1>1, <1>6
<1> QED
  BY <1>3, <1>5, <1>7, <1>8, <1>12, <1>13 DEF Ring

\* __ipcSendRequest passes the first request on.
LEMMA SendTakes ==
  ASSUME NEW c, Ring(c), WaitingOf(c) # <<>>, c.mailboxAck = 1,
         NEW n, n = SendRequest(c), NEW h, h = Head(WaitingOf(c))
  PROVE  /\ Ring(n) /\ WaitingOf(n) = Tail(WaitingOf(c))
         /\ h \in Req /\ n.message = h /\ n.sent # c.sent
         /\ n.mailboxAck = IF h \in reboot THEN -1 ELSE 0
         /\ n.relnchFl = (c.relnchFl \/ h \in reboot)
         /\ n.relnchRpc = IF h \in reboot THEN h ELSE c.relnchRpc
<1> DEFINE w == c.queued - c.sent
<1>1. /\ Capacity \in Nat \ {0} /\ MaxRequests \in Nat
      /\ c.front \in 0..(Capacity - 1) /\ c.back \in 0..(Capacity - 1)
      /\ c.sent \in 0..MaxRequests /\ c.queued \in 0..MaxRequests
      /\ w \in 0..Capacity
  BY IPCAssumption DEF Ring, Client
<1>0. c.back = (c.front + w) % Capacity
  BY DEF Ring
<1>2. /\ WaitingOf(c) \in Seq(Req) /\ Len(WaitingOf(c)) = w
      /\ \A i \in 1..w : WaitingOf(c)[i] = c.queue[(c.front + i - 1) % Capacity]
  BY WaitingSlots DEF Ring
<1>3. w \in 1..Capacity
  BY <1>1, <1>2, EmptySeq
<1>4. h = c.queue[c.front] /\ h \in Req
  <2>1. (c.front + 1 - 1) % Capacity = c.front
    BY <1>1, FirstSlot
  <2>2. 1 \in 1..w
    BY <1>1, <1>3
  <2> QED  BY <2>1, <2>2, <1>2
<1>5. ~NoneWaiting(c)
  BY <1>1, <1>3 DEF NoneWaiting
<1>6. /\ n.back = c.back /\ n.queued = c.queued
      /\ n.front = (c.front + 1) % Capacity /\ n.sent = c.sent + 1
  BY <1>5 DEF Ring, Client, SendRequest
<1>7. n.queue = c.queue /\ n.message = h
  BY <1>4, <1>5 DEF Ring, Client, SendRequest
<1>8. /\ n.mailboxAck = IF h \in reboot THEN -1 ELSE 0
      /\ n.relnchFl = (c.relnchFl \/ h \in reboot)
      /\ n.relnchRpc = IF h \in reboot THEN h ELSE c.relnchRpc
  BY <1>4, <1>5 DEF Ring, Client, SendRequest
<1>9. /\ n.queued - n.sent = w - 1 /\ n.sent \in 0..MaxRequests
      /\ n.sent # c.sent
  <2>1. /\ n.queued = c.queued /\ n.sent = c.sent + 1
        /\ c.queued - c.sent >= 1 /\ c.queued <= MaxRequests
        /\ c.queued \in Nat /\ c.sent \in Nat /\ MaxRequests \in Nat
    BY <1>1, <1>3, <1>6
  <2> QED  BY <2>1
<1> HIDE DEF w
<1>10. /\ n.front = IF c.front + 1 < Capacity THEN c.front + 1
                    ELSE c.front + 1 - Capacity
       /\ n.front \in 0..(Capacity - 1)
  <2>1. 1 \in 0..Capacity
    BY <1>1
  <2>2. n.front = IF c.front + 1 < Capacity THEN c.front + 1
                  ELSE c.front + 1 - Capacity
    BY <2>1, <1>1, <1>6, SlotAfter
  <2> QED  BY <2>2, <1>1
<1>11. ASSUME NEW i \in 1..w
       PROVE  (n.front + (i - 1)) % Capacity = (c.front + i) % Capacity
  <2>1. i - 1 \in 0..Capacity /\ i \in 0..Capacity
    BY <1>1
  <2>2. /\ (n.front + (i - 1)) % Capacity
             = IF n.front + (i - 1) < Capacity THEN n.front + (i - 1)
               ELSE n.front + (i - 1) - Capacity
        /\ (c.front + i) % Capacity = IF c.front + i < Capacity THEN c.front + i
                                      ELSE c.front + i - Capacity
    BY <2>1, <1>1, <1>10, SlotAfter
  <2>3. i \in Int /\ w \in Int /\ c.front \in Int /\ Capacity \in Int
        /\ 1 <= i /\ i <= w /\ w <= Capacity /\ 0 <= c.front /\ c.front < Capacity
    BY <1>1
  <2>4. n.front = IF c.front + 1 < Capacity THEN c.front + 1
                  ELSE c.front + 1 - Capacity
    BY <1>10
  <2>5. CASE c.front + 1 < Capacity
    <3>1. n.front + (i - 1) = c.front + i
      BY <2>3, <2>4, <2>5
    <3> QED  BY <3>1
  <2>6. CASE ~(c.front + 1 < Capacity)
    <3>1. n.front + (i - 1) = i - 1 /\ c.front + i = Capacity - 1 + i
      BY <2>3, <2>4, <2>6
    <3>2. (n.front + (i - 1)) % Capacity = i - 1
      <4>1. n.front + (i - 1) < Capacity
        BY <2>3, <3>1
      <4>2. (n.front + (i - 1)) % Capacity = n.front + (i - 1)
        BY <2>2, <4>1
      <4> QED  BY <3>1, <4>2
    <3>3. (c.front + i) % Capacity = i - 1
      <4>1. ~(c.front + i < Capacity) /\ c.front + i - Capacity = i - 1
        BY <2>3, <3>1
      <4>2. (c.front + i) % Capacity = c.front + i - Capacity
        BY <2>2, <4>1
      <4> QED  BY <4>1, <4>2
    <3> QED  BY <3>2, <3>3
  <2> QED  BY <2>5, <2>6
<1>12. n.back = (n.front + (n.queued - n.sent)) % Capacity
  <2>1. (n.front + (w - 1)) % Capacity = (c.front + w) % Capacity
    BY <1>3, <1>11, <1>1
  <2> QED  BY <2>1, <1>0, <1>6, <1>9
<1>13. n \in Client
  <2>1. /\ n.front \in 0..(Capacity - 1) /\ n.sent \in 0..MaxRequests
        /\ n.mailboxAck \in -1..1 /\ n.message \in Req \cup {NoReq}
        /\ n.relnchFl \in BOOLEAN /\ n.relnchRpc \in Req \cup {NoReq}
    BY <1>4, <1>7, <1>8, <1>9, <1>10 DEF Ring, Client
  <2> QED  BY <2>1, <1>5 DEF Ring, Client, SendRequest
<1>14. /\ WaitingOf(n) = [i \in 1..(w - 1) |-> WaitingOf(n)[i]]
       /\ \A i \in 1..(w - 1) : WaitingOf(n)[i] = c.queue[(n.front + i - 1) % Capacity]
  BY <1>7, <1>9 DEF WaitingOf
<1>15. ASSUME NEW i \in 1..(w - 1)
       PROVE  WaitingOf(n)[i] = WaitingOf(c)[i + 1]
  <2>1. /\ i \in 1..w /\ i + 1 \in 1..w
        /\ c.front + i = c.front + (i + 1) - 1
        /\ n.front + (i - 1) = n.front + i - 1
    BY <1>1, <1>10
  <2>2. (n.front + (i - 1)) % Capacity = (c.front + i) % Capacity
    BY <2>1, <1>11
  <2>3. (n.front + i - 1) % Capacity = (c.front + (i + 1) - 1) % Capacity
    BY <2>1, <2>2
  <2>4. WaitingOf(n)[i] = c.queue[(n.front + i - 1) % Capacity]
    BY <1>14
  <2>5. WaitingOf(c)[i + 1] = c.queue[(c.front + (i + 1) - 1) % Capacity]
    BY <2>1, <1>2
  <2> QED  BY <2>3, <2>4, <2>5
<1>16. WaitingOf(n) = Tail(WaitingOf(c)) /\ WaitingOf(n) \in Seq(Req)
  <2>1. /\ Tail(WaitingOf(c)) \in Seq(Req) /\ Len(Tail(WaitingOf(c))) = w - 1
        /\ \A i \in 1..(w - 1) : Tail(WaitingOf(c))[i] = WaitingOf(c)[i + 1]
    BY <1>2, <1>3, <1>1
  <2>2. \A i \in 1..(w - 1) : WaitingOf(n)[i] = Tail(WaitingOf(c))[i]
    BY <2>1, <1>15
  <2>3. \A i \in 1..(w - 1) : WaitingOf(n)[i] \in Req
    BY <2>1, <2>2
  <2>4. WaitingOf(n) \in Seq(Req) /\ Len(WaitingOf(n)) = w - 1
    <3>1. w - 1 \in Nat
      BY <1>1, <1>3
    <3> QED  BY <2>3, <3>1, <1>14
  <2> QED  BY <2>1, <2>2, <2>4, SeqEqual
<1>17. n.queued - n.sent \in 0..Capacity
  BY <1>1, <1>3, <1>9
<1> QED
  BY <1>4, <1>7, <1>8, <1>9, <1>12, <1>13, <1>16, <1>17 DEF Ring

LEMMA NothingToSend ==
  ASSUME NEW c, Ring(c), WaitingOf(c) = <<>>
  PROVE  SendRequest(c) = c
<1>1. c.queued - c.sent = 0
  BY WaitingSlots
<1> QED  BY <1>1 DEF Ring, Client, SendRequest, NoneWaiting

\* A change to the register or to the acknowledgements leaves the ring alone.
LEMMA RingSame ==
  ASSUME NEW c, Ring(c), NEW n \in Client,
         n.queue = c.queue, n.front = c.front, n.back = c.back,
         n.sent = c.sent, n.queued = c.queued
  PROVE  Ring(n) /\ WaitingOf(n) = WaitingOf(c)
BY DEF Ring, WaitingOf

In(s, r) == \E i \in 1..Len(s) : s[i] = r

Distinct(s) == \A i, j \in 1..Len(s) : s[i] = s[j] => i = j

LEMMA AppendIn ==
  ASSUME NEW s \in Seq(Req), NEW x \in Req
  PROVE  /\ \A r \in Req : In(Append(s, x), r) <=> In(s, r) \/ r = x
         /\ Distinct(s) /\ ~In(s, x) => Distinct(Append(s, x))
<1>1. /\ Len(s) \in Nat /\ Len(Append(s, x)) = Len(s) + 1
      /\ \A i \in 1..Len(s) : Append(s, x)[i] = s[i]
      /\ Append(s, x)[Len(s) + 1] = x
  OBVIOUS
<1>2. ASSUME NEW r \in Req  PROVE  In(Append(s, x), r) <=> In(s, r) \/ r = x
  BY <1>1 DEF In
<1>3. ASSUME Distinct(s), ~In(s, x)  PROVE  Distinct(Append(s, x))
  BY <1>1, <1>3 DEF In, Distinct
<1> QED  BY <1>2, <1>3

LEMMA TailIn ==
  ASSUME NEW s \in Seq(Req), s # <<>>, Distinct(s)
  PROVE  /\ \A r \in Req : In(Tail(s), r) <=> In(s, r) /\ r # Head(s)
         /\ Distinct(Tail(s)) /\ In(s, Head(s)) /\ Head(s) \in Req
<1>1. /\ Len(s) \in Nat \ {0} /\ Len(Tail(s)) = Len(s) - 1
      /\ \A i \in 1..(Len(s) - 1) : Tail(s)[i] = s[i + 1]
      /\ Head(s) = s[1] /\ Head(s) \in Req
  BY EmptySeq
<1>2. ASSUME NEW r \in Req  PROVE  In(Tail(s), r) => In(s, r) /\ r # Head(s)
  <2>1. ASSUME NEW i \in 1..(Len(s) - 1), Tail(s)[i] = r
        PROVE  In(s, r) /\ r # Head(s)
    <3>1. i + 1 \in 1..Len(s) /\ 1 \in 1..Len(s) /\ i + 1 # 1
      BY <1>1
    <3> QED  BY <3>1, <2>1, <1>1 DEF In, Distinct
  <2> QED  BY <2>1, <1>1 DEF In
<1>3. ASSUME NEW r \in Req, In(s, r), r # Head(s)  PROVE  In(Tail(s), r)
  <2>1. PICK j \in 1..Len(s) : s[j] = r
    BY <1>3 DEF In
  <2>2. j - 1 \in 1..(Len(s) - 1) /\ (j - 1) + 1 = j
    BY <2>1, <1>1, <1>3
  <2> QED  BY <2>1, <2>2, <1>1 DEF In
<1>4. Distinct(Tail(s))
  <2>1. ASSUME NEW i \in 1..(Len(s) - 1), NEW j \in 1..(Len(s) - 1),
               Tail(s)[i] = Tail(s)[j]
        PROVE  i = j
    <3>1. i + 1 \in 1..Len(s) /\ j + 1 \in 1..Len(s)
      BY <1>1
    <3>2. i + 1 = j + 1
      BY <3>1, <2>1, <1>1 DEF Distinct
    <3> QED  BY <3>2, <1>1
  <2> QED  BY <2>1, <1>1 DEF Distinct
<1>5. In(s, Head(s))
  <2>1. 1 \in 1..Len(s)
    BY <1>1
  <2> QED  BY <2>1, <1>1 DEF In
<1> QED  BY <1>1, <1>2, <1>3, <1>4, <1>5

-----------------------------------------------------------------------------
(* The invariant *)

Number(P) == IF P THEN 1 ELSE 0

InThread(r) == \E t \in Thread : req[t] = r /\ at[t] \in {"made", "woken"}

InQueue(r) == In(WaitingOf(ipc), r)

\* A launch was answered by neither the old IOS nor a failure.
Launched ==
  /\ ipc.message # ipc.relnchRpc /\ ipc.relnchRpc \notin working
  /\ reply # ipc.relnchRpc

InLaunch(r) == ipc.relnchFl /\ ipc.relnchRpc = r /\ Launched

\* The number of places a request is at.
Count(r) ==
  Number(InThread(r)) + Number(InQueue(r)) + Number(ipc.message = r)
    + Number(r \in working) + Number(reply = r) + Number(r \in lost)
    + Number(InLaunch(r))

PlacesInv == \A r \in Req : Count(r) = Number(r \in allocated)

\* __mailboxAck is 1, less a message in the register or an acknowledgement to
\* take, less the second acknowledgement of a launch as long as its request is
\* with the old IOS.
AckInv ==
  /\ ipc.message # NoReq => ~ackSet
  /\ ipc.mailboxAck = 1 - Number(ipc.message # NoReq \/ ackSet)
                        - Number(ipc.relnchFl /\ ~Launched)
  /\ ipc.relnchFl =>
       /\ ipc.relnchRpc \in reboot
       /\ ipc.message # NoReq => ipc.message = ipc.relnchRpc
       /\ Launched => ackSet
  /\ \A r \in reboot : ipc.message = r \/ r \in working \/ reply = r =>
       ipc.relnchFl /\ ipc.relnchRpc = r

\* A request with no callback is that of one thread, which waits for it.
ThreadInv ==
  /\ \A t \in Thread : at[t] = "out" <=> req[t] = NoReq
  /\ \A t, u \in Thread : req[t] = req[u] /\ req[t] # NoReq => t = u
  /\ \A t \in Thread : req[t] # NoReq => req[t] \in allocated
  /\ \A t \in Thread : at[t] \in {"asleep", "woken"} => req[t] \notin callback
  /\ callback \cap reboot = {}
  /\ \A r \in allocated \ callback : \E t \in Thread : req[t] = r

RingInv == Ring(ipc) /\ Distinct(WaitingOf(ipc))

StallInv == WaitingOf(ipc) # <<>> /\ ipc.mailboxAck > 0 => stalled

IInv == TypeOK /\ RingInv /\ AckInv /\ ThreadInv /\ PlacesInv /\ StallInv

\* What one place says of the others.
LEMMA OnlyPlace ==
  ASSUME PlacesInv, NEW r \in Req
  PROVE  /\ r \notin allocated =>
              ~InThread(r) /\ ~InQueue(r) /\ ipc.message # r /\ r \notin working
                /\ reply # r /\ r \notin lost /\ ~InLaunch(r)
         /\ InThread(r) =>
              r \in allocated /\ ~InQueue(r) /\ ipc.message # r /\ r \notin working
                /\ reply # r /\ r \notin lost /\ ~InLaunch(r)
         /\ InQueue(r) =>
              r \in allocated /\ ~InThread(r) /\ ipc.message # r /\ r \notin working
                /\ reply # r /\ r \notin lost /\ ~InLaunch(r)
         /\ ipc.message = r =>
              r \in allocated /\ ~InThread(r) /\ ~InQueue(r) /\ r \notin working
                /\ reply # r /\ r \notin lost /\ ~InLaunch(r)
         /\ r \in working =>
              r \in allocated /\ ~InThread(r) /\ ~InQueue(r) /\ ipc.message # r
                /\ reply # r /\ r \notin lost /\ ~InLaunch(r)
         /\ reply = r =>
              r \in allocated /\ ~InThread(r) /\ ~InQueue(r) /\ ipc.message # r
                /\ r \notin working /\ r \notin lost /\ ~InLaunch(r)
         /\ InLaunch(r) =>
              r \in allocated /\ ~InThread(r) /\ ~InQueue(r) /\ ipc.message # r
                /\ r \notin working /\ reply # r /\ r \notin lost
         /\ r \in allocated =>
              \/ InThread(r) \/ InQueue(r) \/ ipc.message = r \/ r \in working
              \/ reply = r \/ r \in lost \/ InLaunch(r)
BY DEF PlacesInv, Count, Number

\* When the register may be written it is empty, and no acknowledgement and no
\* launch is owed.
LEMMA RegisterFree ==
  ASSUME TypeOK, AckInv, ipc.mailboxAck > 0
  PROVE  ipc.mailboxAck = 1 /\ ipc.message = NoReq /\ ~ackSet /\ ~ipc.relnchFl
BY DEF AckInv, Number, TypeOK, Client

LEMMA InitIInv == Init => IInv
<1> SUFFICES ASSUME Init  PROVE  IInv
  OBVIOUS
<1>1. ipc \in Client /\ ipc.queued - ipc.sent \in 0..Capacity
  BY IPCAssumption DEF Init, Client
<1>2. TypeOK
  BY <1>1 DEF Init, TypeOK
<1>3. WaitingOf(ipc) = <<>>
  BY DEF Init, WaitingOf
<1>4. RingInv
  <2>1. 0 % Capacity = 0
    BY IPCAssumption
  <2>2. ipc.back = (ipc.front + (ipc.queued - ipc.sent)) % Capacity
    BY <2>1 DEF Init
  <2> QED  BY <1>1, <1>3, <2>2 DEF RingInv, Ring, Distinct
<1>5. AckInv /\ ThreadInv /\ StallInv
  BY <1>3 DEF Init, AckInv, ThreadInv, StallInv, Number
<1>6. PlacesInv
  <2> SUFFICES ASSUME NEW r \in Req  PROVE  Count(r) = Number(r \in allocated)
    BY DEF PlacesInv
  <2>1. ~InThread(r) /\ ~InQueue(r) /\ ~InLaunch(r)
    BY <1>3 DEF Init, InThread, InQueue, In, InLaunch
  <2>2. ipc.message # r /\ r \notin working /\ reply # r /\ r \notin lost
        /\ r \notin allocated
    BY IPCAssumption DEF Init
  <2> QED  BY <2>1, <2>2 DEF Count, Number
<1> QED  BY <1>2, <1>4, <1>5, <1>6 DEF IInv
-----------------------------------------------------------------------------
(* Steps of a thread that leave the client's record alone *)

LEMMA SameRecord ==
  ASSUME IInv, UNCHANGED <<ipc, working, reply>>
  PROVE  /\ RingInv' /\ (UNCHANGED stalled => StallInv')
         /\ \A r \in Req : InQueue(r)' = InQueue(r) /\ InLaunch(r)' = InLaunch(r)
BY DEF IInv, RingInv, Ring, WaitingOf, StallInv, InQueue, InLaunch, Launched

LEMMA MakeRequestIInv ==
  ASSUME IInv, NEW t \in Thread, MakeRequest(t)
  PROVE  IInv'
<1>1. PICK x \in Req \ allocated : \E withCallback, launch \in BOOLEAN :
        /\ ~(withCallback /\ launch)
        /\ allocated' = allocated \cup {x}
        /\ callback' = IF withCallback THEN callback \cup {x} ELSE callback
        /\ reboot' = IF launch THEN reboot \cup {x} ELSE reboot
        /\ req' = [req EXCEPT ![t] = x]
  BY DEF MakeRequest
<1>2. /\ at[t] = "out" /\ at' = [at EXCEPT ![t] = "made"]
      /\ UNCHANGED <<ipc, answered, stalled, ackSet, reply, working, lost>>
  BY DEF MakeRequest, iosVars
<1>3. TypeOK'
  BY <1>1, <1>2 DEF IInv, TypeOK
<1>4. /\ req[t] = NoReq /\ req'[t] = x /\ at'[t] = "made"
      /\ \A u \in Thread : u # t => req'[u] = req[u] /\ at'[u] = at[u]
  BY <1>1, <1>2 DEF IInv, TypeOK, ThreadInv
<1>5. RingInv' /\ StallInv'
      /\ \A r \in Req : InQueue(r)' = InQueue(r) /\ InLaunch(r)' = InLaunch(r)
  BY <1>2, SameRecord
<1>6. ThreadInv'
  <2>1. \A u \in Thread : req[u] # x
    BY <1>1, IPCAssumption DEF IInv, ThreadInv
  <2>2. x # NoReq
    BY IPCAssumption
  <2>3. callback' \cap reboot' = {}
    BY <1>1 DEF IInv, TypeOK, ThreadInv
  <2>4. /\ \A r : r \in callback' => r \in callback \/ r = x
        /\ \A r : r \in allocated' \ callback' => r \in allocated \ callback \/ r = x
    BY <1>1
  <2>5. ASSUME NEW u \in Thread, NEW v \in Thread, req'[u] = req'[v], req'[u] # NoReq
        PROVE  u = v
    BY <1>4, <2>1, <2>5 DEF IInv, ThreadInv
  <2>6. ASSUME NEW u \in Thread
        PROVE  /\ at'[u] = "out" <=> req'[u] = NoReq
               /\ req'[u] # NoReq => req'[u] \in allocated'
               /\ at'[u] \in {"asleep", "woken"} => req'[u] \notin callback'
    BY <1>1, <1>4, <2>1, <2>2, <2>4 DEF IInv, ThreadInv
  <2>7. ASSUME NEW r \in allocated' \ callback'
        PROVE  \E u \in Thread : req'[u] = r
    <3>1. CASE r = x
      BY <3>1, <1>4
    <3>2. CASE r \in allocated \ callback
      <4>1. PICK u \in Thread : req[u] = r
        BY <3>2 DEF IInv, ThreadInv
      <4>2. r # NoReq
        BY <3>2, IPCAssumption DEF IInv, TypeOK
      <4> QED  BY <4>1, <4>2, <1>4
    <3> QED  BY <3>1, <3>2, <2>4
  <2> QED  BY <2>3, <2>5, <2>6, <2>7 DEF ThreadInv
<1>7. AckInv'
  <2>1. ipc.message # x /\ x \notin working /\ reply # x
    BY <1>1, OnlyPlace DEF IInv
  <2>2. reboot \subseteq reboot' /\ \A r \in reboot' : r \in reboot \/ r = x
    BY <1>1
  <2> QED  BY <1>2, <2>1, <2>2 DEF IInv, AckInv, Launched
<1>8. PlacesInv'
  <2> SUFFICES ASSUME NEW r \in Req  PROVE  Count(r)' = Number(r \in allocated')
    BY DEF PlacesInv
  <2>1. InThread(r)' <=> InThread(r) \/ r = x
    BY <1>2, <1>4, IPCAssumption DEF InThread
  <2>2. Count(r) = Number(r \in allocated)
    BY DEF IInv, PlacesInv
  <2>3. r \in allocated' <=> r \in allocated \/ r = x
    BY <1>1
  <2>4. r = x => ~InThread(r) /\ r \notin allocated
    BY OnlyPlace DEF IInv
  <2> QED
    BY <1>2, <1>5, <2>1, <2>2, <2>3, <2>4 DEF Count, Number
<1> QED  BY <1>3, <1>5, <1>6, <1>7, <1>8 DEF IInv

\* The end of a call: a thread frees its request.
LEMMA FreeIInv ==
  ASSUME IInv, NEW t \in Thread, at[t] \in {"made", "woken"},
         Free(req[t]), Out(t), UNCHANGED <<ipc, stalled, iosVars>>
  PROVE  IInv'
<1> DEFINE x == req[t]
<1>1. /\ allocated' = allocated \ {x} /\ callback' = callback \ {x}
      /\ reboot' = reboot \ {x} /\ answered' = answered \ {x}
      /\ UNCHANGED <<ipc, stalled, ackSet, reply, working, lost>>
  BY DEF Free, iosVars
<1>2. x \in Req /\ InThread(x) /\ x # NoReq
  BY DEF IInv, TypeOK, ThreadInv, InThread
<1>3. /\ req'[t] = NoReq /\ at'[t] = "out"
      /\ \A u \in Thread : u # t => req'[u] = req[u] /\ at'[u] = at[u] /\ req[u] # x
      /\ req' = [req EXCEPT ![t] = NoReq] /\ at' = [at EXCEPT ![t] = "out"]
  BY <1>2 DEF Out, IInv, TypeOK, ThreadInv
<1> HIDE DEF x
<1>4. TypeOK'
  BY <1>1, <1>3 DEF IInv, TypeOK
<1>5. RingInv' /\ StallInv'
      /\ \A r \in Req : InQueue(r)' = InQueue(r) /\ InLaunch(r)' = InLaunch(r)
  BY <1>1, SameRecord
<1>6. ThreadInv'
  BY <1>1, <1>2, <1>3 DEF IInv, TypeOK, ThreadInv, x
<1>7. AckInv'
  <2>1. ipc.message # x /\ x \notin working /\ reply # x /\ ~InLaunch(x)
    BY <1>2, OnlyPlace DEF IInv
  <2>2. ipc.relnchFl => ipc.relnchRpc # x
    BY <2>1 DEF InLaunch, Launched
  <2> QED  BY <1>1, <2>2 DEF IInv, AckInv, Launched
<1>8. PlacesInv'
  <2> SUFFICES ASSUME NEW r \in Req  PROVE  Count(r)' = Number(r \in allocated')
    BY DEF PlacesInv
  <2>1. InThread(r)' <=> InThread(r) /\ r # x
    BY <1>2, <1>3 DEF InThread, x
  <2>2. Count(r) = Number(r \in allocated)
    BY DEF IInv, PlacesInv
  <2>3. r \in allocated' <=> r \in allocated /\ r # x
    BY <1>1
  <2>4. r = x => InThread(r) /\ r \in allocated
    BY <1>2, OnlyPlace DEF IInv
  <2> QED
    BY <1>1, <1>5, <2>1, <2>2, <2>3, <2>4 DEF Count, Number
<1> QED  BY <1>4, <1>5, <1>6, <1>7, <1>8 DEF IInv
-----------------------------------------------------------------------------
(* Requests queued and sent *)

LEMMA SendMoves ==
  ASSUME NEW c, Ring(c), Distinct(WaitingOf(c)), WaitingOf(c) # <<>>,
         c.mailboxAck = 1, ~c.relnchFl, NEW n, n = SendRequest(c)
  PROVE  /\ Ring(n) /\ Distinct(WaitingOf(n)) /\ WaitingOf(n) = Tail(WaitingOf(c))
         /\ \E h \in Req :
           /\ h = Head(WaitingOf(c)) /\ In(WaitingOf(c), h)
           /\ n.message = h /\ n.sent # c.sent
           /\ n.mailboxAck = IF h \in reboot THEN -1 ELSE 0
           /\ n.relnchFl = (h \in reboot)
           /\ h \in reboot => n.relnchRpc = h
           /\ \A r \in Req : In(WaitingOf(n), r) <=> In(WaitingOf(c), r) /\ r # h
<1> DEFINE h == Head(WaitingOf(c))
<1>1. WaitingOf(c) \in Seq(Req)
  BY DEF Ring
<1>2. /\ Ring(n) /\ WaitingOf(n) = Tail(WaitingOf(c))
      /\ h \in Req /\ n.message = h /\ n.sent # c.sent
      /\ n.mailboxAck = IF h \in reboot THEN -1 ELSE 0
      /\ n.relnchFl = (c.relnchFl \/ h \in reboot)
      /\ n.relnchRpc = IF h \in reboot THEN h ELSE c.relnchRpc
  BY SendTakes
<1>3. /\ \A r \in Req : In(Tail(WaitingOf(c)), r) <=> In(WaitingOf(c), r) /\ r # h
      /\ Distinct(Tail(WaitingOf(c))) /\ In(WaitingOf(c), h)
  BY <1>1, TailIn
<1> QED  BY <1>2, <1>3

\* A request is put behind the others, and the first is sent if it may be.
Queues(x) ==
  /\ ipc.mailboxAck <= 0
  /\ WaitingOf(ipc)' = Append(WaitingOf(ipc), x)
  /\ ipc'.mailboxAck = ipc.mailboxAck /\ ipc'.message = ipc.message
  /\ ipc'.relnchFl = ipc.relnchFl /\ ipc'.relnchRpc = ipc.relnchRpc
  /\ \A r \in Req : InQueue(r)' <=> InQueue(r) \/ r = x

SendsFirst(x, h) ==
  /\ ipc.mailboxAck = 1
  /\ h = Head(Append(WaitingOf(ipc), x))
  /\ WaitingOf(ipc)' = Tail(Append(WaitingOf(ipc), x))
  /\ InQueue(h) \/ h = x
  /\ ipc'.message = h
  /\ ipc'.mailboxAck = IF h \in reboot THEN -1 ELSE 0
  /\ ipc'.relnchFl = (h \in reboot)
  /\ h \in reboot => ipc'.relnchRpc = h
  /\ \A r \in Req : InQueue(r)' <=> (InQueue(r) \/ r = x) /\ r # h

LEMMA QueueAndSendMoves ==
  ASSUME IInv, NEW x \in Req, ~InQueue(x), ~Full(ipc), ipc.queued < MaxRequests,
         ipc' = QueueAndSend(ipc, x)
  PROVE  RingInv' /\ (Queues(x) \/ \E h \in Req : SendsFirst(x, h))
<1> DEFINE q == QueueRequest(ipc, x)
<1>1. Ring(ipc) /\ Distinct(WaitingOf(ipc)) /\ WaitingOf(ipc) \in Seq(Req)
  BY DEF IInv, RingInv, Ring
<1>2. ipc.queued - ipc.sent < Capacity
  BY IPCAssumption DEF IInv, TypeOK, Client, Full
<1>3. /\ Ring(q) /\ WaitingOf(q) = Append(WaitingOf(ipc), x)
      /\ q.mailboxAck = ipc.mailboxAck /\ q.message = ipc.message
      /\ q.relnchFl = ipc.relnchFl /\ q.relnchRpc = ipc.relnchRpc
      /\ q.sent = ipc.sent
  BY <1>1, <1>2, QueueAppends
<1>4. /\ \A r \in Req : In(WaitingOf(q), r) <=> InQueue(r) \/ r = x
      /\ Distinct(WaitingOf(q))
  BY <1>1, <1>3, AppendIn DEF InQueue
<1>5. CASE ipc.mailboxAck > 0
  <2>1. ipc.mailboxAck = 1 /\ ~ipc.relnchFl
    BY <1>5, RegisterFree DEF IInv
  <2>2. ipc' = SendRequest(q)
    BY <1>5 DEF QueueAndSend
  <2>3. WaitingOf(q) # <<>>
    BY <1>1, <1>3, AppendProperties
  <2> HIDE DEF q
  <2>7. Ring(ipc') /\ Distinct(WaitingOf(ipc')) /\ WaitingOf(ipc') = Tail(WaitingOf(q))
    BY Zenon, <1>3, <1>4, <2>1, <2>2, <2>3, SendMoves
  <2>4. PICK h \in Req :
           /\ h = Head(WaitingOf(q)) /\ In(WaitingOf(q), h)
           /\ ipc'.message = h /\ ipc'.sent # q.sent
           /\ ipc'.mailboxAck = IF h \in reboot THEN -1 ELSE 0
           /\ ipc'.relnchFl = (h \in reboot)
           /\ h \in reboot => ipc'.relnchRpc = h
           /\ \A r \in Req : In(WaitingOf(ipc'), r) <=> In(WaitingOf(q), r) /\ r # h
    <3>1. q.mailboxAck = 1 /\ ~q.relnchFl
      BY <1>3, <2>1
    <3>2. Ring(q) /\ Distinct(WaitingOf(q))
      BY <1>3, <1>4
    <3> QED  BY <2>2, <2>3, <3>1, <3>2, SendMoves
  <2>5. SendsFirst(x, h)
    BY Zenon, <1>3, <1>4, <2>1, <2>4, <2>7 DEF SendsFirst, InQueue, WaitingOf
  <2>6. RingInv'
    BY <2>7 DEF RingInv, Ring, WaitingOf
  <2> QED  BY <2>5, <2>6
<1>6. CASE ~(ipc.mailboxAck > 0)
  <2>1. ipc' = q
    BY <1>6 DEF QueueAndSend
  <2>2. ipc.mailboxAck <= 0
    BY <1>6 DEF IInv, TypeOK, Client
  <2> HIDE DEF q
  <2>3. Queues(x)
    BY <1>3, <1>4, <2>1, <2>2 DEF Queues, InQueue, WaitingOf
  <2>4. RingInv'
    BY <1>3, <1>4, <2>1 DEF RingInv, Ring, WaitingOf
  <2> QED  BY <2>3, <2>4
<1> QED  BY <1>5, <1>6

\* The acknowledgements after a request was sent.
LEMMA SentAck ==
  ASSUME TypeOK, NEW h \in Req, reboot' = reboot, ~ackSet', ipc'.message = h,
         ipc'.mailboxAck = IF h \in reboot THEN -1 ELSE 0,
         ipc'.relnchFl = (h \in reboot), h \in reboot => ipc'.relnchRpc = h,
         \A r \in reboot : r \notin working' /\ reply' # r
  PROVE  AckInv' /\ StallInv' /\ \A r \in Req : ~InLaunch(r)'
<1>1. h # NoReq
  BY IPCAssumption
<1>2. ipc'.relnchFl => ~Launched'
  BY DEF Launched
<1>3. ipc'.mailboxAck = 1 - Number(ipc'.message # NoReq \/ ackSet')
                          - Number(ipc'.relnchFl /\ ~Launched')
  <2>1. Number(ipc'.message # NoReq \/ ackSet') = 1
    BY <1>1 DEF Number
  <2>2. Number(ipc'.relnchFl /\ ~Launched') = IF h \in reboot THEN 1 ELSE 0
    BY <1>2 DEF Number
  <2> QED  BY <2>1, <2>2
<1>4. AckInv'
  BY <1>1, <1>2, <1>3 DEF AckInv
<1>5. ipc'.mailboxAck <= 0
  OBVIOUS
<1> QED  BY <1>2, <1>4, <1>5 DEF StallInv, InLaunch

\* A request is queued by a thread, or by the callback of a reply.
LEMMA QueuedParts ==
  ASSUME IInv, NEW x \in Req, ~InQueue(x), ~Full(ipc), ipc.queued < MaxRequests,
         ipc' = QueueAndSend(ipc, x), UNCHANGED <<reboot, ackSet, working>>,
         reply' = reply \/ (reply' = NoReq /\ reply \notin reboot)
  PROVE  /\ RingInv' /\ AckInv' /\ StallInv'
         /\ \A r \in Req : InLaunch(r)' <=> InLaunch(r)
         /\ \A r \in Req : Number(InQueue(r))' + Number(ipc'.message = r)
                             = Number(InQueue(r) \/ r = x) + Number(ipc.message = r)
<1>1. RingInv' /\ (Queues(x) \/ \E h \in Req : SendsFirst(x, h))
  BY QueueAndSendMoves
<1>2. CASE Queues(x)
  <2>1. /\ ipc.mailboxAck <= 0 /\ ipc'.mailboxAck = ipc.mailboxAck
        /\ ipc'.message = ipc.message
        /\ ipc'.relnchFl = ipc.relnchFl /\ ipc'.relnchRpc = ipc.relnchRpc
        /\ \A r \in Req : InQueue(r)' <=> InQueue(r) \/ r = x
    BY <1>2 DEF Queues
  <2>2. ipc.relnchFl => ipc.relnchRpc \in reboot /\ ipc.relnchRpc # NoReq
    BY IPCAssumption DEF IInv, AckInv, TypeOK
  <2>3. ipc.relnchFl => (Launched' <=> Launched)
    BY <2>1, <2>2 DEF Launched
  <2>4. AckInv'
    <3>1. \A r \in reboot : reply' = r => reply = r
      BY IPCAssumption DEF IInv, TypeOK
    <3> QED  BY <2>1, <2>2, <2>3, <3>1 DEF IInv, AckInv, Number
  <2>5. StallInv'
    BY <2>1 DEF StallInv, IInv, TypeOK, Client
  <2> QED  BY <1>1, <2>1, <2>3, <2>4, <2>5 DEF InLaunch, Number
<1>3. ASSUME NEW h \in Req, SendsFirst(x, h)
      PROVE  /\ AckInv' /\ StallInv'
             /\ \A r \in Req : InLaunch(r)' <=> InLaunch(r)
             /\ \A r \in Req : Number(InQueue(r))' + Number(ipc'.message = r)
                                 = Number(InQueue(r) \/ r = x) + Number(ipc.message = r)
  <2>1. ipc.mailboxAck = 1 /\ ipc.message = NoReq /\ ~ackSet /\ ~ipc.relnchFl
    BY <1>3, RegisterFree DEF IInv, SendsFirst
  <2>2. \A r \in reboot : r \notin working' /\ reply' # r
    BY <2>1, IPCAssumption DEF IInv, AckInv, TypeOK
  <2>3. AckInv' /\ StallInv' /\ \A r \in Req : ~InLaunch(r)'
    BY <1>3, <2>1, <2>2, SentAck DEF IInv, SendsFirst
  <2>4. \A r \in Req : ~InLaunch(r)
    BY <2>1 DEF InLaunch
  <2>5. \A r \in Req : ipc.message # r
    BY <2>1, IPCAssumption
  <2> QED  BY <1>3, <2>3, <2>4, <2>5 DEF SendsFirst, Number
<1> QED  BY <1>1, <1>2, <1>3

LEMMA SubmitIInv ==
  ASSUME IInv, NEW t \in Thread, Submit(t)
  PROVE  IInv'
<1> DEFINE x == req[t]
<1>1. /\ at[t] = "made" /\ ~Full(ipc) /\ ipc.queued < MaxRequests
      /\ ipc' = QueueAndSend(ipc, x) /\ stalled' = (stalled /\ ipc'.sent = ipc.sent)
      /\ IF x \in callback THEN Out(t)
         ELSE at' = [at EXCEPT ![t] = "asleep"] /\ UNCHANGED req
      /\ UNCHANGED <<allocated, callback, reboot, answered, ackSet, reply, working, lost>>
  BY DEF Submit, Sends, heapVars, iosVars
<1>2. x \in Req /\ InThread(x) /\ x # NoReq
  BY <1>1 DEF IInv, TypeOK, ThreadInv, InThread
<1>3. /\ \A u \in Thread : u # t => req'[u] = req[u] /\ at'[u] = at[u] /\ req[u] # x
      /\ \/ x \in callback /\ req'[t] = NoReq /\ at'[t] = "out"
         \/ x \notin callback /\ req'[t] = x /\ at'[t] = "asleep"
      /\ req' \in [Thread -> Req \cup {NoReq}]
      /\ at' \in [Thread -> {"out", "made", "asleep", "woken"}]
  BY <1>1, <1>2 DEF Out, IInv, TypeOK, ThreadInv
<1> HIDE DEF x
<1>4. x \in allocated /\ ~InQueue(x)
  BY <1>2, OnlyPlace DEF IInv
<1>5. /\ RingInv' /\ AckInv' /\ StallInv'
      /\ \A r \in Req : InLaunch(r)' <=> InLaunch(r)
      /\ \A r \in Req : Number(InQueue(r))' + Number(ipc'.message = r)
                          = Number(InQueue(r) \/ r = x) + Number(ipc.message = r)
  BY <1>1, <1>2, <1>4, QueuedParts
<1>6. TypeOK'
  BY <1>1, <1>3, <1>5 DEF IInv, TypeOK, RingInv, Ring
<1>7. ThreadInv'
  <2>1. ASSUME NEW u \in Thread
        PROVE  /\ at'[u] = "out" <=> req'[u] = NoReq
               /\ req'[u] # NoReq => req'[u] \in allocated'
               /\ at'[u] \in {"asleep", "woken"} => req'[u] \notin callback'
    BY <1>1, <1>2, <1>3, <1>4 DEF IInv, ThreadInv
  <2>2. ASSUME NEW u \in Thread, NEW v \in Thread, req'[u] = req'[v], req'[u] # NoReq
        PROVE  u = v
    BY <1>2, <1>3, <2>2 DEF IInv, ThreadInv
  <2>3. ASSUME NEW r \in allocated' \ callback'
        PROVE  \E u \in Thread : req'[u] = r
    <3>1. PICK u \in Thread : req[u] = r
      BY <1>1, <2>3 DEF IInv, ThreadInv
    <3> QED  BY <1>1, <1>3, <2>3, <3>1 DEF x
  <2> QED  BY <1>1, <2>1, <2>2, <2>3 DEF IInv, ThreadInv
<1>8. PlacesInv'
  <2> SUFFICES ASSUME NEW r \in Req  PROVE  Count(r)' = Number(r \in allocated')
    BY DEF PlacesInv
  <2>1. InThread(r)' <=> InThread(r) /\ r # x
    BY <1>1, <1>2, <1>3 DEF InThread, x
  <2>2. Count(r) = Number(r \in allocated)
    BY DEF IInv, PlacesInv
  <2>3. /\ InThread(r)' \in BOOLEAN /\ InThread(r) \in BOOLEAN
        /\ InQueue(r)' \in BOOLEAN /\ InQueue(r) \in BOOLEAN
        /\ InLaunch(r)' \in BOOLEAN /\ InLaunch(r) \in BOOLEAN
    BY DEF InThread, InQueue, In, InLaunch, Launched
  <2>4. Number(InQueue(r))' + Number(ipc'.message = r)
          = Number(InQueue(r) \/ r = x) + Number(ipc.message = r)
    BY <1>5
  <2>5. Number(InThread(r))' + Number(InQueue(r) \/ r = x)
          = Number(InThread(r)) + Number(InQueue(r))
    BY <1>2, <1>4, <2>1 DEF Number
  <2>6. Number(InLaunch(r))' = Number(InLaunch(r))
    BY <1>5 DEF Number
  <2> QED
    BY <1>1, <2>2, <2>4, <2>5, <2>6 DEF Count, Number
<1> QED  BY <1>5, <1>6, <1>7, <1>8 DEF IInv
-----------------------------------------------------------------------------
(* The handler *)

\* A request without a callback that is not with its thread has it asleep.
LEMMA Woken ==
  ASSUME IInv, NEW x \in allocated \ callback, ~InThread(x), Wakeup(x),
         UNCHANGED <<req, allocated, callback, reboot>>
  PROVE  /\ ThreadInv' /\ at' \in [Thread -> {"out", "made", "asleep", "woken"}]
         /\ \A r : InThread(r)' <=> InThread(r) \/ r = x
<1>1. PICK t \in Thread : req[t] = x
  BY DEF IInv, ThreadInv
<1>2. x # NoReq /\ x \in Req
  BY IPCAssumption DEF IInv, TypeOK
<1>3. at[t] = "asleep"
  BY <1>1, <1>2 DEF IInv, TypeOK, ThreadInv, InThread
<1>4. \A u \in Thread : u # t => req[u] # x
  BY <1>1, <1>2 DEF IInv, ThreadInv
<1>5. /\ at' \in [Thread -> {"out", "made", "asleep", "woken"}]
      /\ at'[t] = "woken" /\ \A u \in Thread : u # t => at'[u] = at[u]
  BY <1>1, <1>3, <1>4 DEF Wakeup, IInv, TypeOK
<1>6. ThreadInv'
  <2>1. ASSUME NEW u \in Thread
        PROVE  /\ at'[u] = "out" <=> req'[u] = NoReq
               /\ at'[u] \in {"asleep", "woken"} => req'[u] \notin callback'
    BY <1>1, <1>2, <1>5 DEF IInv, ThreadInv
  <2> QED  BY <2>1 DEF IInv, ThreadInv
<1>7. \A r : InThread(r)' <=> InThread(r) \/ r = x
  BY <1>1, <1>3, <1>4, <1>5 DEF InThread
<1> QED  BY <1>5, <1>6, <1>7

\* Changes to the register or the acknowledgements alone.
LEMMA RingKept ==
  ASSUME IInv, ipc' \in Client, ipc'.queue = ipc.queue, ipc'.front = ipc.front,
         ipc'.back = ipc.back, ipc'.sent = ipc.sent, ipc'.queued = ipc.queued
  PROVE  /\ RingInv' /\ WaitingOf(ipc)' = WaitingOf(ipc)
         /\ \A r \in Req : InQueue(r)' = InQueue(r)
<1>1. Ring(ipc') /\ WaitingOf(ipc') = WaitingOf(ipc)
  BY RingSame DEF IInv, RingInv
<1> QED  BY <1>1 DEF IInv, RingInv, Ring, WaitingOf, InQueue

\* The places as truth values.
LEMMA PlaceValues ==
  ASSUME NEW r
  PROVE  /\ InThread(r) \in BOOLEAN /\ InThread(r)' \in BOOLEAN
         /\ InQueue(r) \in BOOLEAN /\ InQueue(r)' \in BOOLEAN
         /\ (ipc.relnchFl \in BOOLEAN => InLaunch(r) \in BOOLEAN)
BY DEF InThread, InQueue, In, InLaunch, Launched

LEMMA ReplyToThreadIInv ==
  ASSUME IInv, ReplyToThread
  PROVE  IInv'
<1>1. /\ reply # NoReq /\ reply \notin callback /\ reply' = NoReq
      /\ ipc' = LaunchFailed(ipc, reply) /\ stalled' = StalledBy(ipc) /\ Wakeup(reply)
      /\ UNCHANGED <<allocated, callback, reboot, answered, req, ackSet, working, lost>>
  BY DEF ReplyToThread, heapVars
<1>2. reply \in Req
  BY <1>1 DEF IInv, TypeOK
<1>3. /\ reply \in allocated /\ ~InThread(reply) /\ ~InQueue(reply)
      /\ ipc.message # reply /\ reply \notin working /\ reply \notin lost
  BY <1>2, OnlyPlace DEF IInv
<1>4. /\ ThreadInv' /\ at' \in [Thread -> {"out", "made", "asleep", "woken"}]
      /\ \A r : InThread(r)' <=> InThread(r) \/ r = reply
  BY <1>1, <1>3, Woken
<1>5. /\ ipc' \in Client /\ ipc'.queue = ipc.queue /\ ipc'.front = ipc.front
      /\ ipc'.back = ipc.back /\ ipc'.sent = ipc.sent /\ ipc'.queued = ipc.queued
      /\ ipc'.message = ipc.message
  <2> DEFINE a == IF ipc.mailboxAck < 1 THEN ipc.mailboxAck + 1 ELSE ipc.mailboxAck
  <2>1. ipc \in Client
    BY DEF IInv, TypeOK
  <2>2. a \in -1..1
    BY <2>1 DEF Client
  <2>3. ipc' = ipc \/ ipc' = [ipc EXCEPT !.relnchFl = FALSE, !.mailboxAck = a]
    BY <1>1, <2>1 DEF LaunchFailed, Client
  <2> HIDE DEF a
  <2>4. CASE ipc' = [ipc EXCEPT !.relnchFl = FALSE, !.mailboxAck = a]
    BY <2>1, <2>2, <2>4 DEF Client
  <2> QED  BY <2>1, <2>3, <2>4
<1>6. /\ RingInv' /\ WaitingOf(ipc)' = WaitingOf(ipc)
      /\ \A r \in Req : InQueue(r)' = InQueue(r)
  BY <1>5, RingKept
<1>7. AckInv' /\ StallInv' /\ \A r \in Req : InLaunch(r)' <=> InLaunch(r)
  <2>1. CASE ipc.relnchFl /\ ipc.relnchRpc = reply
    <3>1. ~Launched /\ ipc.message = NoReq
      BY <1>3, <2>1 DEF Launched, IInv, AckInv
    <3>2. ipc.mailboxAck = (IF ackSet THEN 0 ELSE 1) - 1
      BY <2>1, <3>1 DEF IInv, AckInv, Number
    <3>3. ~ipc'.relnchFl /\ ipc'.mailboxAck = (IF ackSet THEN 0 ELSE 1)
      BY <1>1, <2>1, <3>2 DEF LaunchFailed, IInv, TypeOK, Client
    <3>4. \A r \in reboot : ipc'.message # r /\ r \notin working' /\ reply' # r
      BY <1>1, <1>3, <1>5, <2>1, <3>1, IPCAssumption DEF IInv, AckInv, TypeOK
    <3>5. AckInv'
      BY <1>1, <1>5, <3>1, <3>3, <3>4 DEF AckInv, Number
    <3>6. StallInv'
      BY <1>1, <2>1 DEF StallInv, StalledBy
    <3> QED  BY <3>1, <3>3, <3>5, <3>6 DEF InLaunch
  <2>2. CASE ~(ipc.relnchFl /\ ipc.relnchRpc = reply)
    <3>1. ipc' = ipc /\ reply \notin reboot
      BY <1>1, <2>2 DEF LaunchFailed, IInv, AckInv
    <3>2. ipc.relnchFl => ipc.relnchRpc # NoReq /\ ipc.relnchRpc # reply
      BY <2>2, IPCAssumption DEF IInv, AckInv, TypeOK
    <3>3. ipc.relnchFl => (Launched' <=> Launched)
      BY <1>1, <3>1, <3>2 DEF Launched
    <3>4. AckInv'
      <4>1. \A r \in reboot : reply' # r
        BY <1>1, IPCAssumption DEF IInv, TypeOK
      <4> QED  BY <1>1, <3>1, <3>3, <4>1 DEF IInv, AckInv, Number
    <3>5. StallInv'
      BY <1>1, <1>6, <2>2, <3>1 DEF IInv, StallInv, StalledBy
    <3> QED  BY <3>1, <3>3, <3>4, <3>5 DEF InLaunch
  <2> QED  BY <2>1, <2>2
<1>8. TypeOK'
  <2>1. stalled' \in BOOLEAN
    BY <1>1 DEF StalledBy, IInv, TypeOK, Client
  <2>2. ipc'.queued - ipc'.sent \in 0..Capacity
    BY <1>5 DEF IInv, TypeOK
  <2> QED  BY <1>1, <1>4, <1>5, <2>1, <2>2 DEF IInv, TypeOK
<1>9. PlacesInv'
  <2> SUFFICES ASSUME NEW r \in Req  PROVE  Count(r)' = Number(r \in allocated')
    BY DEF PlacesInv
  <2>1. Count(r) = Number(r \in allocated)
    BY DEF IInv, PlacesInv
  <2>2. /\ Number(InQueue(r))' = Number(InQueue(r))
        /\ Number(InLaunch(r))' = Number(InLaunch(r))
        /\ ipc'.message = ipc.message
    BY <1>5, <1>6, <1>7 DEF Number
  <2>3. Number(InThread(r))' + Number(reply' = r) = Number(InThread(r)) + Number(reply = r)
    <3>1. reply' # r
      BY <1>1, IPCAssumption
    <3> QED  BY <1>3, <1>4, <3>1 DEF Number
  <2> QED  BY <1>1, <2>1, <2>2, <2>3 DEF Count, Number
<1> QED  BY <1>4, <1>6, <1>7, <1>8, <1>9 DEF IInv

\* No thread waits for a request that has a callback, or works on one that is
\* in the register of replies.
LEMMA NoThreadHas ==
  ASSUME IInv, reply # NoReq, reply \in callback
  PROVE  /\ \A t \in Thread : req[t] # reply
         /\ reply \in allocated /\ reply \in Req /\ reply \notin reboot
         /\ ~InThread(reply) /\ ~InQueue(reply) /\ ipc.message # reply
         /\ reply \notin working /\ reply \notin lost /\ ~InLaunch(reply)
<1>1. reply \in Req /\ reply \notin reboot
  BY DEF IInv, TypeOK, ThreadInv
<1>2. /\ reply \in allocated /\ ~InThread(reply) /\ ~InQueue(reply)
      /\ ipc.message # reply /\ reply \notin working /\ reply \notin lost
      /\ ~InLaunch(reply)
  BY <1>1, OnlyPlace DEF IInv
<1>3. ASSUME NEW t \in Thread, req[t] = reply  PROVE  FALSE
  BY <1>2, <1>3 DEF IInv, TypeOK, ThreadInv, InThread
<1> QED  BY <1>1, <1>2, <1>3

LEMMA ReplyToCallbackIInv ==
  ASSUME IInv, ReplyToCallback
  PROVE  IInv'
<1>1. /\ reply # NoReq /\ reply \in callback /\ reply' = NoReq
      /\ allocated' = allocated \ {reply} /\ callback' = callback \ {reply}
      /\ reboot' = reboot \ {reply} /\ answered' = answered \ {reply}
      /\ UNCHANGED <<ipc, at, req, stalled, ackSet, working, lost>>
  BY DEF ReplyToCallback, Free
<1>2. /\ \A t \in Thread : req[t] # reply
      /\ reply \in allocated /\ reply \in Req /\ reply \notin reboot
      /\ ~InThread(reply) /\ ~InQueue(reply) /\ ipc.message # reply
      /\ reply \notin working /\ reply \notin lost /\ ~InLaunch(reply)
  BY <1>1, NoThreadHas
<1>3. reboot' = reboot
  BY <1>1, <1>2
<1>4. RingInv' /\ StallInv' /\ \A r \in Req : InQueue(r)' = InQueue(r)
  BY <1>1 DEF IInv, RingInv, Ring, WaitingOf, StallInv, InQueue
<1>5. AckInv' /\ \A r \in Req : InLaunch(r)' <=> InLaunch(r)
  <2>1. ipc.relnchFl => ipc.relnchRpc # NoReq /\ ipc.relnchRpc # reply
    BY <1>2, IPCAssumption DEF IInv, AckInv, TypeOK
  <2>2. ipc.relnchFl => (Launched' <=> Launched)
    BY <1>1, <2>1 DEF Launched
  <2>3. \A r \in reboot : reply' # r
    BY <1>1, IPCAssumption DEF IInv, TypeOK
  <2>4. AckInv'
    BY <1>1, <1>3, <2>2, <2>3 DEF IInv, AckInv, Number
  <2> QED  BY <1>1, <2>2, <2>4 DEF InLaunch
<1>6. TypeOK'
  BY <1>1, <1>2 DEF IInv, TypeOK
<1>7. ThreadInv'
  BY <1>1, <1>2 DEF IInv, ThreadInv
<1>8. PlacesInv'
  <2> SUFFICES ASSUME NEW r \in Req  PROVE  Count(r)' = Number(r \in allocated')
    BY DEF PlacesInv
  <2>1. Count(r) = Number(r \in allocated)
    BY DEF IInv, PlacesInv
  <2>2. /\ Number(InQueue(r))' = Number(InQueue(r))
        /\ Number(InLaunch(r))' = Number(InLaunch(r))
        /\ Number(InThread(r))' = Number(InThread(r))
    BY <1>1, <1>4, <1>5 DEF Number, InThread
  <2>3. Number(reply' = r) + Number(r \in allocated)
          = Number(reply = r) + Number(r \in allocated')
    <3>1. reply' # r
      BY <1>1, IPCAssumption
    <3> QED  BY <1>1, <1>2, <3>1 DEF Number
  <2> QED  BY <1>1, <2>1, <2>2, <2>3 DEF Count, Number
<1> QED  BY <1>4, <1>5, <1>6, <1>7, <1>8 DEF IInv
LEMMA ReplyAndRequestIInv ==
  ASSUME IInv, ReplyAndRequest
  PROVE  IInv'
<1>1. PICK x \in Req \ allocated :
        /\ ipc' = QueueAndSend(ipc, x)
        /\ allocated' = (allocated \cup {x}) \ {reply}
        /\ callback' = (callback \cup {x}) \ {reply}
        /\ answered' = answered \ {reply}
  BY DEF ReplyAndRequest
<1>2. /\ reply # NoReq /\ reply \in callback /\ reply' = NoReq
      /\ ~Full(ipc) /\ ipc.queued < MaxRequests
      /\ stalled' = (stalled /\ ipc'.sent = ipc.sent)
      /\ UNCHANGED <<reboot, at, req, ackSet, working, lost>>
  BY DEF ReplyAndRequest, Sends
<1>3. /\ \A t \in Thread : req[t] # reply
      /\ reply \in allocated /\ reply \in Req /\ reply \notin reboot
      /\ ~InThread(reply) /\ ~InQueue(reply) /\ ipc.message # reply
      /\ reply \notin working /\ reply \notin lost /\ ~InLaunch(reply)
  BY <1>2, NoThreadHas
<1>4. /\ ~InThread(x) /\ ~InQueue(x) /\ ipc.message # x /\ x \notin working
      /\ reply # x /\ x \notin lost /\ ~InLaunch(x) /\ x \notin reboot
      /\ x \notin allocated /\ x \in Req
  BY <1>1, OnlyPlace DEF IInv, TypeOK
<1>5. /\ RingInv' /\ AckInv' /\ StallInv'
      /\ \A r \in Req : InLaunch(r)' <=> InLaunch(r)
      /\ \A r \in Req : Number(InQueue(r))' + Number(ipc'.message = r)
                          = Number(InQueue(r) \/ r = x) + Number(ipc.message = r)
  BY <1>1, <1>2, <1>3, <1>4, QueuedParts
<1>6. TypeOK'
  <2>1. /\ reboot' \subseteq allocated' /\ callback' \subseteq allocated'
        /\ allocated' \subseteq Req /\ answered' \subseteq allocated'
    BY <1>1, <1>2, <1>3, <1>4 DEF IInv, TypeOK
  <2> QED  BY <1>2, <1>5, <2>1 DEF IInv, TypeOK, RingInv, Ring
<1>7. ThreadInv'
  <2>1. callback' \cap reboot' = {}
    BY <1>1, <1>2, <1>4 DEF IInv, ThreadInv
  <2>2. ASSUME NEW u \in Thread
        PROVE  /\ req[u] # NoReq => req[u] \in allocated'
               /\ at[u] \in {"asleep", "woken"} => req[u] \notin callback'
    BY <1>1, <1>3, <1>4 DEF IInv, ThreadInv
  <2>3. \A r \in allocated' \ callback' : r \in allocated \ callback
    BY <1>1, <1>3, <1>4
  <2> QED  BY <1>2, <2>1, <2>2, <2>3 DEF IInv, ThreadInv
<1>8. PlacesInv'
  <2> SUFFICES ASSUME NEW r \in Req  PROVE  Count(r)' = Number(r \in allocated')
    BY DEF PlacesInv
  <2>1. Count(r) = Number(r \in allocated)
    BY DEF IInv, PlacesInv
  <2>2. /\ Number(InLaunch(r))' = Number(InLaunch(r))
        /\ Number(InThread(r))' = Number(InThread(r))
        /\ Number(InQueue(r))' + Number(ipc'.message = r)
             = Number(InQueue(r) \/ r = x) + Number(ipc.message = r)
    BY <1>2, <1>5 DEF Number, InThread
  <2>3. Number(InQueue(r) \/ r = x) = Number(InQueue(r)) + Number(r = x)
    BY <1>4 DEF Number
  <2>4. Number(reply' = r) + Number(r \in allocated) + Number(r = x)
          = Number(reply = r) + Number(r \in allocated')
    <3>1. reply' # r
      BY <1>2, IPCAssumption
    <3> QED  BY <1>1, <1>3, <1>4, <3>1 DEF Number
  <2> QED  BY <1>2, <2>1, <2>2, <2>3, <2>4 DEF Count, Number
<1> QED  BY <1>5, <1>6, <1>7, <1>8 DEF IInv

\* What the acknowledgement handler makes of the record: only an
\* acknowledgement, or one more request sent.
LEMMA AckMoves ==
  ASSUME IInv, AckHandler
  PROVE  /\ RingInv' /\ AckInv' /\ StallInv' /\ stalled' \in BOOLEAN
         /\ ipc.message = NoReq
         /\ \/ /\ ipc.relnchFl /\ ~Launched
               /\ UNCHANGED <<answered, at>> /\ ipc'.message = NoReq
               /\ WaitingOf(ipc)' = WaitingOf(ipc)
               /\ \A r \in Req : InLaunch(r)' <=> InLaunch(r)
               /\ \A r \in Req : InQueue(r)' <=> InQueue(r)
            \/ /\ ipc.relnchFl => Launched
               /\ IF ipc.relnchFl
                  THEN answered' = answered \cup {ipc.relnchRpc} /\ Wakeup(ipc.relnchRpc)
                  ELSE UNCHANGED <<answered, at>>
               /\ \/ WaitingOf(ipc) = <<>> /\ ipc'.message = NoReq
                     /\ WaitingOf(ipc)' = WaitingOf(ipc)
                  \/ /\ WaitingOf(ipc) # <<>>
                     /\ ipc'.message = Head(WaitingOf(ipc))
                     /\ WaitingOf(ipc)' = Tail(WaitingOf(ipc))
               /\ \A r \in Req : ~InLaunch(r)'
               /\ \A r \in Req : Number(InQueue(r))' + Number(ipc'.message = r)
                                   = Number(InQueue(r))
<1> DEFINE c == Acked(ipc)
           d == [c EXCEPT !.relnchFl = FALSE]
           launched == c.mailboxAck > 0 /\ c.relnchFl
<1>1. /\ ackSet /\ ~ackSet'
      /\ ipc' = IF c.mailboxAck > 0 THEN SendRequest(d) ELSE c
      /\ IF launched
         THEN answered' = answered \cup {c.relnchRpc} /\ Wakeup(c.relnchRpc)
         ELSE UNCHANGED <<answered, at>>
      /\ stalled' = (stalled /\ ipc'.sent = ipc.sent)
      /\ UNCHANGED <<allocated, callback, reboot, req, reply, working, lost>>
  BY DEF AckHandler, Sends, heapVars
<1>2. ipc.message = NoReq /\ stalled' \in BOOLEAN
  BY <1>1 DEF IInv, AckInv, TypeOK
<1>3. ipc \in Client /\ Ring(ipc) /\ Distinct(WaitingOf(ipc)) /\ WaitingOf(ipc) \in Seq(Req)
  BY DEF IInv, TypeOK, RingInv, Ring
<1>4. ipc.mailboxAck = IF ipc.relnchFl /\ ~Launched THEN -1 ELSE 0
  BY <1>1 DEF IInv, AckInv, Number
<1>5. /\ c \in Client /\ c.mailboxAck = ipc.mailboxAck + 1
      /\ c.relnchFl = ipc.relnchFl /\ c.relnchRpc = ipc.relnchRpc
      /\ c.message = ipc.message
      /\ c.queue = ipc.queue /\ c.front = ipc.front /\ c.back = ipc.back
      /\ c.sent = ipc.sent /\ c.queued = ipc.queued
  <2>1. ipc.mailboxAck + 1 \in -1..1 /\ ipc.mailboxAck < 1
    BY <1>4
  <2>2. c = [ipc EXCEPT !.mailboxAck = ipc.mailboxAck + 1]
    BY <1>3, <2>1 DEF Acked
  <2> HIDE DEF c
  <2> QED  BY <1>3, <2>1, <2>2 DEF Client
<1> HIDE DEF c
<1>6. CASE ipc.relnchFl /\ ~Launched
  <2>1. /\ ipc' = c /\ c.mailboxAck = 0 /\ UNCHANGED <<answered, at>>
    BY <1>1, <1>4, <1>5, <1>6
  <2>2. RingInv' /\ WaitingOf(ipc)' = WaitingOf(ipc) /\ \A r \in Req : InQueue(r)' = InQueue(r)
    BY <1>5, <2>1, RingKept
  <2>3. ~Launched' /\ ipc'.relnchFl
    BY <1>1, <1>5, <1>6, <2>1 DEF Launched
  <2>4. AckInv'
    BY <1>1, <1>2, <1>5, <1>6, <2>1, <2>3 DEF IInv, AckInv, Number
  <2>5. StallInv'
    BY <2>1 DEF StallInv
  <2> QED  BY <1>2, <1>5, <1>6, <2>1, <2>2, <2>3, <2>4, <2>5 DEF InLaunch
<1>7. CASE ipc.relnchFl => Launched
  <2>1. /\ ipc' = SendRequest(d) /\ c.mailboxAck = 1
        /\ launched <=> ipc.relnchFl
    BY <1>1, <1>4, <1>5, <1>7
  <2>2. IF ipc.relnchFl
        THEN answered' = answered \cup {ipc.relnchRpc} /\ Wakeup(ipc.relnchRpc)
        ELSE UNCHANGED <<answered, at>>
    BY <1>1, <1>5, <2>1
  <2>3. /\ d \in Client /\ d.mailboxAck = 1 /\ ~d.relnchFl /\ d.message = NoReq
        /\ d.queue = ipc.queue /\ d.front = ipc.front /\ d.back = ipc.back
        /\ d.sent = ipc.sent /\ d.queued = ipc.queued
    BY <1>2, <1>5, <2>1 DEF Client
  <2> HIDE DEF d, launched
  <2>4. Ring(d) /\ WaitingOf(d) = WaitingOf(ipc)
    BY <1>3, <2>3, RingSame
  <2>5. \A r \in reboot : r \notin working' /\ reply' # r
    BY <1>1, <1>7 DEF IInv, AckInv, Launched
  <2>6. CASE WaitingOf(ipc) = <<>>
    <3>1. ipc' = d
      BY <2>1, <2>4, <2>6, NothingToSend
    <3>2. RingInv' /\ WaitingOf(ipc)' = WaitingOf(ipc) /\ \A r \in Req : InQueue(r)' = InQueue(r)
      BY <2>3, <3>1, RingKept
    <3>3. AckInv'
      <4>1. \A r \in reboot : r # NoReq
        BY IPCAssumption DEF IInv, TypeOK
      <4> QED  BY <1>1, <2>3, <2>5, <3>1, <4>1 DEF AckInv, Number
    <3>4. StallInv' /\ \A r \in Req : ~InLaunch(r)' /\ ipc'.message # r
      BY <2>3, <2>6, <3>1, <3>2, IPCAssumption DEF StallInv, InLaunch
    <3> QED
      BY <1>2, <1>7, <2>2, <2>3, <2>6, <3>1, <3>2, <3>3, <3>4 DEF Number
  <2>7. CASE WaitingOf(ipc) # <<>>
    <3>1. /\ Ring(ipc') /\ Distinct(WaitingOf(ipc')) /\ WaitingOf(ipc') = Tail(WaitingOf(ipc))
      BY <1>3, <2>1, <2>3, <2>4, <2>7, SendMoves
    <3>2. PICK h \in Req :
             /\ h = Head(WaitingOf(d)) /\ In(WaitingOf(d), h)
             /\ ipc'.message = h /\ ipc'.sent # d.sent
             /\ ipc'.mailboxAck = IF h \in reboot THEN -1 ELSE 0
             /\ ipc'.relnchFl = (h \in reboot)
             /\ h \in reboot => ipc'.relnchRpc = h
             /\ \A r \in Req : In(WaitingOf(ipc'), r) <=> In(WaitingOf(d), r) /\ r # h
      BY <1>3, <2>1, <2>3, <2>4, <2>7, SendMoves
    <3>3. AckInv' /\ StallInv' /\ \A r \in Req : ~InLaunch(r)'
      BY <1>1, <2>5, <3>2, SentAck DEF IInv
    <3>4. RingInv' /\ WaitingOf(ipc)' = Tail(WaitingOf(ipc))
      BY <3>1 DEF RingInv, Ring, WaitingOf
    <3>5. /\ \A r \in Req : InQueue(r)' <=> InQueue(r) /\ r # h
          /\ InQueue(h) /\ h = Head(WaitingOf(ipc))
      BY <2>4, <3>2 DEF InQueue, WaitingOf
    <3>6. \A r \in Req : Number(InQueue(r))' + Number(ipc'.message = r)
                           = Number(InQueue(r))
      BY <3>2, <3>5 DEF Number
    <3> QED  BY <1>2, <1>7, <2>2, <2>7, <3>2, <3>3, <3>4, <3>5, <3>6
  <2> QED  BY <2>6, <2>7
<1> QED  BY <1>6, <1>7

LEMMA AckHandlerIInv ==
  ASSUME IInv, AckHandler
  PROVE  IInv'
<1>1. UNCHANGED <<allocated, callback, reboot, req, reply, working, lost>> /\ ackSet' = FALSE
  BY DEF AckHandler, heapVars
<1>2. /\ RingInv' /\ AckInv' /\ StallInv' /\ stalled' \in BOOLEAN /\ ipc.message = NoReq
  BY AckMoves
<1>3. ipc \in Client /\ ipc'.queued - ipc'.sent \in 0..Capacity /\ ipc' \in Client
  BY <1>2 DEF IInv, TypeOK, RingInv, Ring
<1>4. CASE ipc.relnchFl /\ Launched
  <2> DEFINE x == ipc.relnchRpc
  <2>1. x \in reboot /\ x \in Req /\ InLaunch(x)
    BY <1>4 DEF IInv, AckInv, TypeOK, InLaunch
  <2>2. x \in allocated \ callback /\ ~InThread(x)
    BY <2>1, OnlyPlace DEF IInv, ThreadInv
  <2>3. /\ answered' = answered \cup {x} /\ Wakeup(x)
        /\ \A r \in Req : ~InLaunch(r)'
        /\ \A r \in Req : Number(InQueue(r))' + Number(ipc'.message = r)
                            = Number(InQueue(r))
    BY <1>4, AckMoves
  <2> HIDE DEF x
  <2>4. /\ ThreadInv' /\ at' \in [Thread -> {"out", "made", "asleep", "woken"}]
        /\ \A r : InThread(r)' <=> InThread(r) \/ r = x
    BY <1>1, <2>2, <2>3, Woken
  <2>5. TypeOK'
    BY <1>1, <1>2, <1>3, <2>2, <2>3, <2>4 DEF IInv, TypeOK
  <2>6. PlacesInv'
    <3> SUFFICES ASSUME NEW r \in Req  PROVE  Count(r)' = Number(r \in allocated')
      BY DEF PlacesInv
    <3>1. Count(r) = Number(r \in allocated)
      BY DEF IInv, PlacesInv
    <3>2. ipc.message # r
      BY <1>2, IPCAssumption
    <3>3. InLaunch(r) <=> r = x
      BY <1>4 DEF InLaunch, x
    <3>4. Number(InThread(r))' + Number(InLaunch(r))'
            = Number(InThread(r)) + Number(InLaunch(r))
      BY <2>2, <2>3, <2>4, <3>3 DEF Number
    <3> QED  BY <1>1, <2>3, <3>1, <3>2, <3>4 DEF Count, Number
  <2> QED  BY <1>2, <2>4, <2>5, <2>6 DEF IInv
<1>5. CASE ~(ipc.relnchFl /\ Launched)
  <2>1. /\ UNCHANGED <<answered, at>>
        /\ \A r \in Req : InLaunch(r)' <=> InLaunch(r)
        /\ \A r \in Req : Number(InQueue(r))' + Number(ipc'.message = r)
                            = Number(InQueue(r))
    <3>1. \A r \in Req : ~InLaunch(r) /\ NoReq # r
      BY <1>5, IPCAssumption DEF InLaunch
    <3>2. CASE ipc.relnchFl
      BY <1>5, <3>1, <3>2, AckMoves DEF Number
    <3>3. CASE ~ipc.relnchFl
      BY <3>1, <3>3, AckMoves
    <3> QED  BY <3>2, <3>3
  <2>2. TypeOK'
    BY <1>1, <1>2, <1>3, <2>1 DEF IInv, TypeOK
  <2>3. ThreadInv'
    BY <1>1, <2>1 DEF IInv, ThreadInv
  <2>4. PlacesInv'
    <3> SUFFICES ASSUME NEW r \in Req  PROVE  Count(r)' = Number(r \in allocated')
      BY DEF PlacesInv
    <3>1. Count(r) = Number(r \in allocated)
      BY DEF IInv, PlacesInv
    <3>2. ipc.message # r
      BY <1>2, IPCAssumption
    <3>3. /\ Number(InThread(r))' = Number(InThread(r))
          /\ Number(InLaunch(r))' = Number(InLaunch(r))
      BY <1>1, <2>1 DEF Number, InThread
    <3> QED  BY <1>1, <2>1, <3>1, <3>2, <3>3 DEF Count, Number
  <2> QED  BY <1>2, <2>2, <2>3, <2>4 DEF IInv
<1> QED  BY <1>4, <1>5
-----------------------------------------------------------------------------
(* IOS *)

\* A step that moves a request between the register and IOS.
LEMMA IOSKeepsThreads ==
  ASSUME IInv, UNCHANGED <<allocated, callback, reboot, at, req>>
  PROVE  ThreadInv' /\ \A r : InThread(r)' = InThread(r)
BY DEF IInv, ThreadInv, InThread

LEMMA AcceptIInv ==
  ASSUME IInv, Accept
  PROVE  IInv'
<1> DEFINE m == ipc.message
<1>1. /\ m # NoReq /\ ipc' = [ipc EXCEPT !.message = NoReq]
      /\ working' = working \cup {m} /\ ackSet' = TRUE
      /\ UNCHANGED <<allocated, callback, reboot, answered, at, req, stalled, reply, lost>>
  BY DEF Accept, heapVars
<1>2. m \in Req /\ ~ackSet
  BY <1>1 DEF IInv, TypeOK, Client, AckInv
<1>3. /\ m \in allocated /\ ~InThread(m) /\ ~InQueue(m) /\ m \notin working
      /\ reply # m /\ m \notin lost /\ ~InLaunch(m)
  BY <1>2, OnlyPlace DEF IInv
<1>4. /\ ipc' \in Client /\ ipc'.queue = ipc.queue /\ ipc'.front = ipc.front
      /\ ipc'.back = ipc.back /\ ipc'.sent = ipc.sent /\ ipc'.queued = ipc.queued
      /\ ipc'.mailboxAck = ipc.mailboxAck /\ ipc'.message = NoReq
      /\ ipc'.relnchFl = ipc.relnchFl /\ ipc'.relnchRpc = ipc.relnchRpc
  BY <1>1 DEF IInv, TypeOK, Client
<1>5. /\ RingInv' /\ WaitingOf(ipc)' = WaitingOf(ipc)
      /\ \A r \in Req : InQueue(r)' = InQueue(r)
  BY <1>4, RingKept
<1>6. ipc.relnchFl => ipc.relnchRpc = m /\ ~Launched /\ ~Launched'
  BY <1>1, <1>4 DEF IInv, AckInv, Launched
<1>7. AckInv'
  <2>1. \A r \in reboot : ipc.message = r \/ r \in working \/ reply = r
          <=> r \in working' \/ reply' = r
    BY <1>1
  <2> QED  BY <1>1, <1>2, <1>4, <1>6, <2>1, IPCAssumption DEF IInv, AckInv, TypeOK, Number
<1>8. StallInv' /\ \A r \in Req : ~InLaunch(r) /\ ~InLaunch(r)'
  BY <1>1, <1>4, <1>5, <1>6 DEF IInv, StallInv, InLaunch
<1>9. TypeOK'
  <2>1. ipc'.queued - ipc'.sent \in 0..Capacity
    BY <1>4 DEF IInv, TypeOK
  <2> QED  BY <1>1, <1>2, <1>4, <2>1 DEF IInv, TypeOK
<1>10. ThreadInv' /\ \A r : InThread(r)' = InThread(r)
  BY <1>1, IOSKeepsThreads
<1>11. PlacesInv'
  <2> SUFFICES ASSUME NEW r \in Req  PROVE  Count(r)' = Number(r \in allocated')
    BY DEF PlacesInv
  <2>1. Count(r) = Number(r \in allocated)
    BY DEF IInv, PlacesInv
  <2>2. Number(ipc'.message = r) + Number(r \in working')
          = Number(ipc.message = r) + Number(r \in working)
    <3>1. ipc'.message # r
      BY <1>4, IPCAssumption
    <3>2. r \in working' <=> r \in working \/ ipc.message = r
      BY <1>1
    <3>3. ipc.message = r => r \notin working
      BY <1>3
    <3> QED  BY <3>1, <3>2, <3>3 DEF Number
  <2> QED  BY <1>1, <1>5, <1>8, <1>10, <2>1, <2>2 DEF Count, Number
<1> QED  BY <1>5, <1>7, <1>8, <1>9, <1>10, <1>11 DEF IInv

LEMMA AnswerIInv ==
  ASSUME IInv, NEW x \in Req, Answer(x)
  PROVE  IInv'
<1>1. /\ reply = NoReq /\ x \in working /\ reply' = x /\ working' = working \ {x}
      /\ answered' = answered \cup {x}
      /\ UNCHANGED <<ipc, allocated, callback, reboot, at, req, stalled, ackSet, lost>>
  BY DEF Answer, heapVars
<1>2. x \in allocated
  BY <1>1, OnlyPlace DEF IInv
<1>3. RingInv' /\ StallInv' /\ \A r \in Req : InQueue(r)' = InQueue(r)
  BY <1>1 DEF IInv, RingInv, Ring, WaitingOf, StallInv, InQueue
<1>4. \A r \in Req : r \in working \/ reply = r <=> r \in working' \/ reply' = r
  BY <1>1, IPCAssumption
<1>5. ipc.relnchFl => (Launched' <=> Launched)
  BY <1>1, <1>4 DEF IInv, AckInv, TypeOK, Launched
<1>6. AckInv'
  <2>1. \A r \in reboot : r \in Req
    BY DEF IInv, TypeOK
  <2> QED  BY <1>1, <1>4, <1>5, <2>1 DEF IInv, AckInv, Number
<1>7. TypeOK'
  BY <1>1, <1>2 DEF IInv, TypeOK
<1>8. ThreadInv' /\ \A r : InThread(r)' = InThread(r)
  BY <1>1, IOSKeepsThreads
<1>9. PlacesInv'
  <2> SUFFICES ASSUME NEW r \in Req  PROVE  Count(r)' = Number(r \in allocated')
    BY DEF PlacesInv
  <2>1. Count(r) = Number(r \in allocated)
    BY DEF IInv, PlacesInv
  <2>2. Number(reply' = r) + Number(r \in working')
          = Number(reply = r) + Number(r \in working)
    BY <1>1, IPCAssumption DEF Number
  <2>3. Number(InLaunch(r))' = Number(InLaunch(r))
    BY <1>1, <1>5 DEF InLaunch, Number
  <2> QED  BY <1>1, <1>3, <1>8, <2>1, <2>2, <2>3 DEF Count, Number
<1> QED  BY <1>3, <1>6, <1>7, <1>8, <1>9 DEF IInv

LEMMA LaunchIInv ==
  ASSUME IInv, Launch
  PROVE  IInv'
<1>1. PICK x \in working \cap reboot : lost' = lost \cup (working \ {x})
  BY DEF Launch
<1>2. /\ ~ackSet /\ working' = {} /\ ackSet' = TRUE
      /\ UNCHANGED <<ipc, allocated, callback, reboot, answered, at, req, stalled, reply>>
  BY DEF Launch, heapVars
<1>3. /\ x \in Req /\ x \in reboot /\ x \in working /\ x # NoReq
      /\ ipc.message # x /\ reply # x /\ x \notin lost
  BY <1>1, OnlyPlace, IPCAssumption DEF IInv, TypeOK
<1>4. ipc.relnchFl /\ ipc.relnchRpc = x /\ ipc.message = NoReq
  BY <1>3 DEF IInv, AckInv
<1>5. ~Launched /\ Launched'
  BY <1>2, <1>3, <1>4 DEF Launched
<1>6. RingInv' /\ \A r \in Req : InQueue(r)' = InQueue(r)
  BY <1>2 DEF IInv, RingInv, Ring, WaitingOf, InQueue
<1>7. ipc.mailboxAck = 0
  BY <1>2, <1>4, <1>5 DEF IInv, AckInv, Number
<1>8. StallInv'
  BY <1>2, <1>7 DEF StallInv
<1>9. AckInv'
  BY <1>2, <1>3, <1>4, <1>5, <1>7 DEF IInv, AckInv, Number
<1>10. TypeOK'
  BY <1>1, <1>2 DEF IInv, TypeOK
<1>11. ThreadInv' /\ \A r : InThread(r)' = InThread(r)
  BY <1>2, IOSKeepsThreads
<1>12. PlacesInv'
  <2> SUFFICES ASSUME NEW r \in Req  PROVE  Count(r)' = Number(r \in allocated')
    BY DEF PlacesInv
  <2>1. Count(r) = Number(r \in allocated)
    BY DEF IInv, PlacesInv
  <2>2. (InLaunch(r)' <=> r = x) /\ ~InLaunch(r)
    BY <1>2, <1>4, <1>5 DEF InLaunch
  <2>3. r \in working => r \notin lost
    BY OnlyPlace DEF IInv
  <2>4. Number(r \in lost)' + Number(r \in working') + Number(InLaunch(r))'
          = Number(r \in lost) + Number(r \in working) + Number(InLaunch(r))
    <3>1. /\ r \in lost' <=> r \in lost \/ (r \in working /\ r # x)
          /\ r \notin working' /\ x \in working
      BY <1>1, <1>2
    <3>2. CASE r = x
      BY <1>3, <2>2, <3>1, <3>2 DEF Number
    <3>3. CASE r # x
      BY <2>2, <2>3, <3>1, <3>3 DEF Number
    <3> QED  BY <3>2, <3>3
  <2> QED  BY <1>2, <1>6, <1>11, <2>1, <2>4 DEF Count, Number
<1> QED  BY <1>6, <1>8, <1>9, <1>10, <1>11, <1>12 DEF IInv
-----------------------------------------------------------------------------
(* The theorems *)

LEMMA NextIInv == IInv /\ [Next]_vars => IInv'
<1> SUFFICES ASSUME IInv, [Next]_vars  PROVE  IInv'
  OBVIOUS
<1>1. ASSUME NEW t \in Thread, MakeRequest(t)  PROVE  IInv'
  BY <1>1, MakeRequestIInv
<1>2. ASSUME NEW t \in Thread, Refused(t)  PROVE  IInv'
  BY <1>2, FreeIInv DEF Refused
<1>3. ASSUME NEW t \in Thread, Submit(t)  PROVE  IInv'
  BY <1>3, SubmitIInv
<1>4. ASSUME NEW t \in Thread, Return(t)  PROVE  IInv'
  BY <1>4, FreeIInv DEF Return
<1>5. CASE Handler
  BY <1>5, ReplyToThreadIInv, ReplyToCallbackIInv, ReplyAndRequestIInv, AckHandlerIInv
     DEF Handler
<1>6. CASE IOS
  BY <1>6, AcceptIInv, AnswerIInv, LaunchIInv DEF IOS
<1>7. CASE UNCHANGED vars
  <2>1. UNCHANGED <<ipc, allocated, callback, reboot, answered, at, req, stalled,
                    ackSet, reply, working, lost>>
    BY <1>7 DEF vars, heapVars, iosVars
  <2>2. /\ RingInv' /\ StallInv' /\ ThreadInv' /\ TypeOK'
        /\ \A r \in Req : InQueue(r)' = InQueue(r)
    BY <2>1 DEF IInv, RingInv, Ring, WaitingOf, StallInv, ThreadInv, TypeOK, InQueue
  <2>3. AckInv' /\ \A r \in Req : InThread(r)' = InThread(r) /\ InLaunch(r)' = InLaunch(r)
    BY <2>1 DEF IInv, AckInv, Launched, InLaunch, InThread
  <2>4. PlacesInv'
    BY <2>1, <2>2, <2>3 DEF IInv, PlacesInv, Count, Number
  <2> QED  BY <2>2, <2>3, <2>4 DEF IInv
<1> QED  BY <1>1, <1>2, <1>3, <1>4, <1>5, <1>6, <1>7 DEF Next, Step

LEMMA Invariance == Spec => []IInv
BY InitIInv, NextIInv, PTL DEF Spec

\* The record, the heap of requests, the threads and IOS keep their types, and
\* the counters never say that more requests wait than the ring has slots.
THEOREM TypeCorrect == Spec => []TypeOK
BY Invariance, PTL DEF IInv

LEMMA WaitingIs == Waiting = WaitingOf(ipc)
BY DEF Waiting, WaitingOf

LEMMA CountPlaces ==
  ASSUME IInv, NEW r \in Req
  PROVE  Cardinality(Places(r)) = IF r \in allocated THEN 1 ELSE 0
<1>1. Places(r) \subseteq {"thread", "queue", "message", "working", "reply", "lost", "launch"}
  BY DEF Places
<1>2. "thread" \in Places(r) <=> InThread(r)
  BY DEF Places, InThread
<1>3. "queue" \in Places(r) <=> InQueue(r)
  <2>1. r \in Queued <=> InQueue(r)
    BY WaitingSlots DEF Queued, Waiting, InQueue, In, IInv, RingInv, WaitingOf
  <2> QED  BY <2>1 DEF Places
<1>4. "message" \in Places(r) <=> ipc.message = r
  BY DEF Places
<1>5. "working" \in Places(r) <=> r \in working
  BY DEF Places
<1>6. "reply" \in Places(r) <=> reply = r
  BY DEF Places
<1>7. "lost" \in Places(r) <=> r \in lost
  BY DEF Places
<1>8. "launch" \in Places(r) <=> InLaunch(r)
  BY DEF Places, InLaunch, Launched
<1>9. CASE r \in allocated
  <2>1. \E p : Places(r) = {p}
    <3>1. CASE InThread(r)
      <4>1. Places(r) = {"thread"}
        BY <1>1, <1>2, <1>3, <1>4, <1>5, <1>6, <1>7, <1>8, <3>1, OnlyPlace DEF IInv
      <4> QED  BY <4>1
    <3>2. CASE InQueue(r)
      <4>1. Places(r) = {"queue"}
        BY <1>1, <1>2, <1>3, <1>4, <1>5, <1>6, <1>7, <1>8, <3>2, OnlyPlace DEF IInv
      <4> QED  BY <4>1
    <3>3. CASE ipc.message = r
      <4>1. Places(r) = {"message"}
        BY <1>1, <1>2, <1>3, <1>4, <1>5, <1>6, <1>7, <1>8, <3>3, OnlyPlace DEF IInv
      <4> QED  BY <4>1
    <3>4. CASE r \in working
      <4>1. Places(r) = {"working"}
        BY <1>1, <1>2, <1>3, <1>4, <1>5, <1>6, <1>7, <1>8, <3>4, OnlyPlace DEF IInv
      <4> QED  BY <4>1
    <3>5. CASE reply = r
      <4>1. Places(r) = {"reply"}
        BY <1>1, <1>2, <1>3, <1>4, <1>5, <1>6, <1>7, <1>8, <3>5, OnlyPlace DEF IInv
      <4> QED  BY <4>1
    <3>6. CASE r \in lost
      <4>1. Places(r) = {"lost"}
        <5>1. ~InThread(r) /\ ~InQueue(r) /\ ipc.message # r /\ r \notin working
              /\ reply # r /\ ~InLaunch(r)
          BY <3>6, OnlyPlace DEF IInv
        <5> QED  BY <1>1, <1>2, <1>3, <1>4, <1>5, <1>6, <1>7, <1>8, <3>6, <5>1
      <4> QED  BY <4>1
    <3>7. CASE InLaunch(r)
      <4>1. Places(r) = {"launch"}
        BY <1>1, <1>2, <1>3, <1>4, <1>5, <1>6, <1>7, <1>8, <3>7, OnlyPlace DEF IInv
      <4> QED  BY <4>1
    <3> QED
      BY <1>9, <3>1, <3>2, <3>3, <3>4, <3>5, <3>6, <3>7, OnlyPlace DEF IInv
  <2> QED  BY <1>9, <2>1, FS_Singleton
<1>10. CASE r \notin allocated
  <2>1. Places(r) = {}
    BY <1>1, <1>2, <1>3, <1>4, <1>5, <1>6, <1>7, <1>8, <1>10, OnlyPlace DEF IInv
  <2> QED  BY <1>10, <2>1, FS_EmptySet
<1> QED  BY <1>9, <1>10

\* Whatever the threads, the callbacks and IOS do, and however often an IOS is
\* launched or fails to be, a request allocated is at one place, a freed one at
\* none, and those that wait, wait for something that will come.
THEOREM Kept == Spec => []RequestsKept
<1>1. ASSUME IInv  PROVE  RequestsKept
  <2>1. \A r \in Req : Cardinality(Places(r)) = IF r \in allocated THEN 1 ELSE 0
    BY <1>1, CountPlaces
  <2>2. ASSUME NEW i \in DOMAIN Waiting, NEW j \in DOMAIN Waiting, Waiting[i] = Waiting[j]
        PROVE  i = j
    <3>1. Distinct(Waiting) /\ Waiting \in Seq(Req)
      BY <1>1, WaitingIs DEF IInv, RingInv, Ring
    <3> QED  BY <2>2, <3>1 DEF Distinct
  <2>3. \A t, u \in Thread : req[t] = req[u] /\ req[t] # NoReq => t = u
    BY <1>1 DEF IInv, ThreadInv
  <2>4. NothingStuck
    <3>1. ASSUME ipc.message = NoReq, ~ackSet, ~ipc.relnchFl  PROVE  ipc.mailboxAck = 1
      BY <1>1, <3>1 DEF IInv, AckInv, Number
    <3> QED  BY <1>1, <3>1, WaitingIs DEF IInv, StallInv, NothingStuck
  <2> QED  BY <2>1, <2>2, <2>3, <2>4 DEF RequestsKept, OnePlace
<1> QED  BY <1>1, Invariance, PTL

LEMMA StepImplements ==
  ASSUME IInv, [Next]_vars
  PROVE  [Mailbox!Next]_(Mailbox!vars)
<1> USE DEF Mailbox!Next, Mailbox!vars
<1>1. /\ Waiting = WaitingOf(ipc) /\ Waiting' = WaitingOf(ipc)'
      /\ Ring(ipc) /\ Waiting \in Seq(Req) /\ Len(Waiting) = ipc.queued - ipc.sent
  BY WaitingIs, WaitingSlots DEF IInv, RingInv, Ring, Waiting, WaitingOf
<1>2. ASSUME ~Full(ipc)  PROVE  Len(Waiting) < Capacity
  BY <1>1, <1>2, IPCAssumption DEF Full, Ring, Client
<1>3. ASSUME NEW x \in Req, ~InQueue(x), ~Full(ipc), ipc.queued < MaxRequests,
             ipc' = QueueAndSend(ipc, x)
      PROVE  Mailbox!Put(x) \/ Mailbox!PutAndSend(x)
  <2>1. Queues(x) \/ \E h \in Req : SendsFirst(x, h)
    BY <1>3, QueueAndSendMoves
  <2>2. CASE Queues(x)
    BY <1>1, <1>2, <1>3, <2>2 DEF Queues, Mailbox!Put
  <2>3. ASSUME NEW h \in Req, SendsFirst(x, h)  PROVE  Mailbox!PutAndSend(x)
    <3>1. ipc.message = NoReq
      BY <2>3, RegisterFree DEF IInv, SendsFirst
    <3> QED  BY <1>1, <1>2, <1>3, <2>3, <3>1 DEF SendsFirst, Mailbox!PutAndSend
  <2> QED  BY <2>1, <2>2, <2>3
<1>4. ASSUME UNCHANGED ipc  PROVE  UNCHANGED <<Waiting, ipc.message>>
  BY <1>4 DEF Waiting
<1>5. ASSUME NEW t \in Thread, Step(t)  PROVE  [Mailbox!Next]_(Mailbox!vars)
  <2>1. CASE Submit(t)
    <3>1. req[t] \in Req /\ InThread(req[t])
      BY <2>1 DEF Submit, IInv, TypeOK, ThreadInv, InThread
    <3>2. ~InQueue(req[t])
      BY <3>1, OnlyPlace DEF IInv
    <3>3. Mailbox!Put(req[t]) \/ Mailbox!PutAndSend(req[t])
      BY <1>3, <2>1, <3>1, <3>2 DEF Submit
    <3> QED  BY <3>1, <3>3
  <2>2. CASE ~Submit(t)
    <3>1. UNCHANGED ipc
      BY <1>5, <2>2 DEF Step, MakeRequest, Refused, Return
    <3> QED  BY <1>4, <3>1
  <2> QED  BY <2>1, <2>2
<1>6. CASE ReplyToThread
  <2>1. /\ ipc' = LaunchFailed(ipc, reply) /\ ipc \in Client
    BY <1>6 DEF ReplyToThread, IInv, TypeOK
  <2>2. /\ ipc'.queue = ipc.queue /\ ipc'.front = ipc.front
        /\ ipc'.sent = ipc.sent /\ ipc'.queued = ipc.queued
        /\ ipc'.message = ipc.message
    BY <2>1 DEF LaunchFailed, Client
  <2> QED  BY <2>2 DEF Waiting
<1>7. CASE ReplyToCallback
  BY <1>4, <1>7 DEF ReplyToCallback
<1>8. CASE ReplyAndRequest
  <2>1. PICK x \in Req \ allocated : ipc' = QueueAndSend(ipc, x)
    BY <1>8 DEF ReplyAndRequest
  <2>2. ~InQueue(x)
    BY <2>1, OnlyPlace DEF IInv
  <2>3. Mailbox!Put(x) \/ Mailbox!PutAndSend(x)
    BY <1>3, <1>8, <2>1, <2>2 DEF ReplyAndRequest
  <2> QED  BY <2>1, <2>3
<1>9. CASE AckHandler
  <2>1. /\ ipc.message = NoReq
        /\ \/ ipc'.message = NoReq /\ WaitingOf(ipc)' = WaitingOf(ipc)
           \/ /\ WaitingOf(ipc) # <<>>
              /\ ipc'.message = Head(WaitingOf(ipc))
              /\ WaitingOf(ipc)' = Tail(WaitingOf(ipc))
    BY <1>9, AckMoves
  <2> QED  BY <1>1, <2>1 DEF Mailbox!Send
<1>10. CASE Accept
  <2>1. ipc' = [ipc EXCEPT !.message = NoReq] /\ ipc.message # NoReq /\ ipc \in Client
    BY <1>10 DEF Accept, IInv, TypeOK
  <2>2. /\ ipc'.queue = ipc.queue /\ ipc'.front = ipc.front
        /\ ipc'.sent = ipc.sent /\ ipc'.queued = ipc.queued /\ ipc'.message = NoReq
    BY <2>1 DEF Client
  <2>3. UNCHANGED Waiting
    BY <2>2 DEF Waiting
  <2> QED  BY <2>1, <2>2, <2>3 DEF Mailbox!Take
<1>11. CASE (\E r \in Req : Answer(r)) \/ Launch \/ UNCHANGED vars
  BY <1>4, <1>11 DEF Answer, Launch, vars
<1> QED
  BY <1>5, <1>6, <1>7, <1>8, <1>9, <1>10, <1>11 DEF Next, Handler, IOS

\* The ring, its two counters and __mailboxAck pass the requests on in the
\* order they were made and never write the register over a request that IOS
\* has not taken, for any capacity and any number of threads and requests.
THEOREM Refinement == Spec => ImplementsMailbox
<1>1. Init => Mailbox!Init
  <2> SUFFICES ASSUME Init  PROVE  Mailbox!Init
    OBVIOUS
  <2>1. Waiting = <<>> /\ ipc.message = NoReq
    BY DEF Init, Waiting
  <2> QED  BY <2>1 DEF Mailbox!Init
<1>2. IInv /\ [Next]_vars => [Mailbox!Next]_(Mailbox!vars)
  BY StepImplements
<1> QED  BY <1>1, <1>2, Invariance, PTL DEF Spec, ImplementsMailbox, Mailbox!Spec

-----------------------------------------------------------------------------
(* The heap: the links of a heap h, and what they say of its chunks. *)

Place == Addr \cup {NoChunk}
HeapRec == [head : Place, chunk : [Addr -> Header \cup {NoHeader}]]

NextOf(h, a) == IF a = NoChunk THEN h.head ELSE h.chunk[a].next
PrevOf(h, a) == h.chunk[a].prev
SizeOf(h, a) == h.chunk[a].size
HasHeader(h, a) == a \in Addr /\ h.chunk[a] # NoHeader

\* The chunk of F behind address a and the one before it, or NoChunk.
IsNext(F, a, n) ==
  /\ n \in F \cup {NoChunk}
  /\ n # NoChunk => a < n
  /\ \A b \in F : a < b => n # NoChunk /\ n <= b
IsPrev(F, a, p) ==
  /\ p \in F \cup {NoChunk} /\ p < a
  /\ \A b \in F : b < a => b <= p

\* The list of h holds the chunks of F by address; those of B have their link
\* back.
LinkedBack(h, F, B) ==
  /\ \A a \in F \cup {NoChunk} : IsNext(F, a, NextOf(h, a))
  /\ \A a \in B : IsPrev(F, a, PrevOf(h, a))

Linked(h, F) == LinkedBack(h, F, F)

\* The chunks of C lie one behind the other over the whole heap.
Beyond(h, a) == a + SizeOf(h, a) + 1
Tiled(h, C) ==
  /\ HeapStart \in C
  /\ \A a \in C : Beyond(h, a) \in C \cup {HeapEnd} /\ a < Beyond(h, a)
  /\ \A a, b \in C : a < b => Beyond(h, a) <= b

\* h2 has the headers of h, with their magic and size.
Keeps(h2, h) ==
  \A a \in Addr :
    /\ h2.chunk[a] = NoHeader <=> h.chunk[a] = NoHeader
    /\ h2.chunk[a] # NoHeader =>
         h2.chunk[a].magic = h.chunk[a].magic /\ SizeOf(h2, a) = SizeOf(h, a)

\* h2 has the headers of h, but for those in S.
Untouched(h2, h, S) == \A a \in Addr \ S : h2.chunk[a] = h.chunk[a]

\* h2 has the links of h, but for those forward in N and those back in P.
LinksBut(h2, h, N, P) ==
  /\ \A a \in Place \ N : NextOf(h2, a) = NextOf(h, a)
  /\ \A a \in Addr \ P : PrevOf(h2, a) = PrevOf(h, a)

LEMMA Addresses == Addr \subseteq Nat /\ NoChunk \notin Addr /\ HeapStart \in Addr
                   /\ (\A a \in Addr : HeapStart <= a /\ a < HeapEnd) /\ HeapEnd \in Nat
                   /\ HeapStart \in Nat
  BY HeapAssumption DEF Addr, HeapEnd, NoChunk

LEMMA AtMostEnd ==
  ASSUME NEW a \in Addr \cup {HeapEnd}
  PROVE  a <= HeapEnd /\ a \in Nat
  BY Addresses

-----------------------------------------------------------------------------
(* The list *)

LEMMA NextAdded ==
  ASSUME NEW F, F \subseteq Nat \ {0}, NEW a \in Nat \ {0}, NEW x \in F \cup {0}, NEW n,
         IsNext(F, x, n)
  PROVE  /\ x < a /\ (n = 0 \/ a < n) => IsNext(F \cup {a}, x, a)
         /\ ~(x < a /\ (n = 0 \/ a < n)) => IsNext(F \cup {a}, x, n)
  BY DEF IsNext, NoChunk

LEMMA PrevAdded ==
  ASSUME NEW F, F \subseteq Nat \ {0}, NEW a \in Nat \ {0}, NEW x \in F, NEW p,
         IsPrev(F, x, p), a # x
  PROVE  /\ a < x /\ p < a => IsPrev(F \cup {a}, x, a)
         /\ ~(a < x /\ p < a) => IsPrev(F \cup {a}, x, p)
  BY DEF IsPrev, NoChunk

LEMMA NextRemoved ==
  ASSUME NEW F, F \subseteq Nat \ {0}, NEW a \in F, NEW x \in F \cup {0}, NEW n, NEW m,
         IsNext(F, x, n), IsNext(F, a, m)
  PROVE  /\ n # a => IsNext(F \ {a}, x, n)
         /\ n = a => IsNext(F \ {a}, x, m)
  BY DEF IsNext, NoChunk

LEMMA PrevRemoved ==
  ASSUME NEW F, F \subseteq Nat \ {0}, NEW a \in F, NEW x \in F, NEW p, NEW q,
         IsPrev(F, x, p), IsPrev(F, a, q)
  PROVE  /\ p # a => IsPrev(F \ {a}, x, p)
         /\ p = a => IsPrev(F \ {a}, x, q)
  BY DEF IsPrev, NoChunk

LEMMA NextPrev ==
  ASSUME NEW F, F \subseteq Nat \ {0}, NEW a \in F \cup {0}, NEW b \in F, NEW n, NEW p,
         IsNext(F, a, n), IsPrev(F, b, p)
  PROVE  n = b <=> p = a
  BY DEF IsNext, IsPrev, NoChunk

\* An address a between p and n has no other neighbours.
LEMMA NextApart ==
  ASSUME NEW F, F \subseteq Nat \ {0}, NEW a \in Nat, NEW p \in F \cup {0}, NEW n,
         IsNext(F, p, n), p < a, n = 0 \/ a < n,
         NEW x \in F \cup {0}, x # p, NEW m, IsNext(F, x, m)
  PROVE  ~(x < a /\ (m = 0 \/ a < m))
  BY DEF IsNext, NoChunk

LEMMA PrevApart ==
  ASSUME NEW F, F \subseteq Nat \ {0}, NEW a \in Nat, NEW p \in F \cup {0}, NEW n,
         IsNext(F, p, n), p < a, n = 0 \/ a < n,
         NEW x \in F, x # n, NEW q, IsPrev(F, x, q)
  PROVE  ~(a < x /\ q < a)
  <1>1. p < x => n # 0 /\ n <= x /\ n \in F
    BY DEF IsNext, NoChunk
  <1>2. q \in Nat /\ n \in Nat /\ p \in Nat /\ x \in Nat
    BY DEF IsPrev, IsNext, NoChunk
  <1>3. n \in F /\ n < x => n <= q
    BY DEF IsPrev, NoChunk
  <1> QED
    BY <1>1, <1>2, <1>3

\* A chunk put behind p, where no other lies between.
LEMMA InsertLinked ==
  ASSUME NEW h, NEW h2, NEW F, F \subseteq Addr, Linked(h, F),
         NEW a \in Addr \ F, NEW p \in F \cup {NoChunk}, p < a,
         NEW n, n = NextOf(h, p), n = NoChunk \/ a < n,
         NextOf(h2, p) = a, NextOf(h2, a) = n,
         n # NoChunk => PrevOf(h2, n) = a,
         LinksBut(h2, h, {p, a}, {n, a})
  PROVE  /\ LinkedBack(h2, F \cup {a}, F)
         /\ PrevOf(h2, a) = p => Linked(h2, F \cup {a})
  <1>1. F \subseteq Nat \ {0} /\ a \in Nat \ {0} /\ p \in Nat
    BY Addresses DEF NoChunk
  <1>2. IsNext(F, p, n) /\ p \in Place /\ F \cup {NoChunk} \subseteq Place
    BY DEF Linked, LinkedBack, Place
  <1>3. ASSUME NEW x \in F \cup {NoChunk, a}
        PROVE  IsNext(F \cup {a}, x, NextOf(h2, x))
    <2>1. CASE x = p
      BY <1>1, <1>2, <2>1, NextAdded DEF NoChunk
    <2>2. CASE x = a
      BY <1>1, <1>2, <2>2 DEF IsNext, NoChunk
    <2>3. CASE x # p /\ x # a
      <3>1. x \in F \cup {NoChunk} /\ IsNext(F, x, NextOf(h, x)) /\ NextOf(h2, x) = NextOf(h, x)
        BY <1>2, <2>3 DEF Linked, LinkedBack, LinksBut
      <3>2. ~(x < a /\ (NextOf(h, x) = NoChunk \/ a < NextOf(h, x)))
        BY <1>1, <1>2, <2>3, <3>1, NextApart DEF NoChunk
      <3> QED
        BY <1>1, <3>1, <3>2, NextAdded DEF NoChunk
    <2> QED
      BY <2>1, <2>2, <2>3
  <1>4. IsPrev(F \cup {a}, a, p)
    BY <1>1, <1>2 DEF IsPrev, IsNext, NoChunk
  <1>5. ASSUME NEW x \in F
        PROVE  IsPrev(F \cup {a}, x, PrevOf(h2, x))
    <2>1. x # a /\ IsPrev(F, x, PrevOf(h, x))
      BY DEF Linked, LinkedBack
    <2>2. CASE x = n
      BY <1>1, <1>2, <2>1, <2>2 DEF IsPrev, IsNext, NoChunk
    <2>3. CASE x # n
      <3>1. PrevOf(h2, x) = PrevOf(h, x)
        BY <2>1, <2>3 DEF LinksBut
      <3>2. ~(a < x /\ PrevOf(h, x) < a)
        BY <1>1, <1>2, <2>1, <2>3, PrevApart DEF NoChunk
      <3> QED
        BY <1>1, <2>1, <3>1, <3>2, PrevAdded
    <2> QED
      BY <2>2, <2>3
  <1> QED
    BY <1>3, <1>4, <1>5 DEF Linked, LinkedBack

\* A chunk taken out; the one behind it need not lead back to it.
LEMMA RemoveLinked ==
  ASSUME NEW h, NEW h2, NEW F, F \subseteq Addr, NEW a \in F,
         NEW p, p = PrevOf(h, a), NEW n, n = NextOf(h, a),
         LinkedBack(h, F, F \ {n}),
         NextOf(h2, p) = n, n # NoChunk => PrevOf(h2, n) = p,
         LinksBut(h2, h, {p, a}, {n, a})
  PROVE  Linked(h2, F \ {a})
  <1>1. F \subseteq Nat \ {0} /\ F \cup {NoChunk} \subseteq Place
    BY Addresses DEF NoChunk, Place
  <1>2. IsNext(F, a, n) /\ IsPrev(F, a, p)
    <2>1. IsNext(F, a, n)
      BY DEF LinkedBack
    <2>2. a # n
      BY <1>1, <2>1 DEF IsNext, NoChunk
    <2> QED
      BY <2>1, <2>2 DEF LinkedBack
  <1>3. ASSUME NEW x \in (F \ {a}) \cup {NoChunk}
        PROVE  IsNext(F \ {a}, x, NextOf(h2, x))
    <2>1. x \in F \cup {0} /\ IsNext(F, x, NextOf(h, x))
      BY DEF Linked, LinkedBack, NoChunk
    <2>2. NextOf(h, x) = a <=> p = x
      <3>1. ASSUME NEW m, IsNext(F, x, m) PROVE m = a <=> p = x
        BY <1>1, <1>2, <2>1, <3>1 DEF IsNext, IsPrev, NoChunk
      <3> QED
        BY <2>1, <3>1
    <2>3. x # a
      BY <1>1 DEF NoChunk
    <2>4. x # p => NextOf(h2, x) = NextOf(h, x)
      BY <1>1, <2>3 DEF LinksBut
    <2>5. CASE x = p
      <3>1. NextOf(h2, x) = n /\ IsNext(F, x, a)
        BY <2>1, <2>2, <2>5
      <3> QED
        BY <1>1, <1>2, <2>1, <3>1, NextRemoved
    <2>6. CASE x # p
      <3>1. NextOf(h2, x) = NextOf(h, x) /\ NextOf(h, x) # a
        BY <2>2, <2>4, <2>6
      <3> QED
        BY <1>1, <1>2, <2>1, <3>1, NextRemoved
    <2> QED
      BY <2>5, <2>6
  <1>4. ASSUME NEW x \in F \ {a}
        PROVE  IsPrev(F \ {a}, x, PrevOf(h2, x))
    <2>1. CASE x = n
      <3>1. IsPrev(F, x, a)
        BY <1>1, <1>2, <2>1 DEF IsNext, IsPrev, NoChunk
      <3>2. n # NoChunk
        BY <1>1, <2>1 DEF NoChunk
      <3> QED
        BY <1>1, <1>2, <2>1, <3>1, <3>2, PrevRemoved
    <2>2. CASE x # n
      <3>1. IsPrev(F, x, PrevOf(h, x)) /\ PrevOf(h2, x) = PrevOf(h, x)
        BY <2>2 DEF LinkedBack, LinksBut
      <3>2. PrevOf(h, x) # a
        BY <1>1, <1>2, <2>2, <3>1 DEF IsNext, IsPrev, NoChunk
      <3> QED
        BY <1>1, <1>2, <3>1, <3>2, PrevRemoved
    <2> QED
      BY <2>1, <2>2
  <1> QED
    BY <1>3, <1>4 DEF Linked, LinkedBack

-----------------------------------------------------------------------------
(* The headers over the heap *)

\* A chunk cut in two.
LEMMA CutTiled ==
  ASSUME NEW h, NEW h2, NEW C, C \subseteq Addr, Tiled(h, C),
         NEW a \in C, NEW rest \in Int, a < rest, rest < Beyond(h, a),
         Beyond(h, a) \in Int,
         Beyond(h2, a) = rest, Beyond(h2, rest) = Beyond(h, a),
         \A x \in C \ {a} : Beyond(h2, x) = Beyond(h, x)
  PROVE  Tiled(h2, C \cup {rest}) /\ rest \in Addr \ C
  <1>1. C \subseteq Nat /\ HeapEnd \in Nat /\ \A x \in C : HeapStart <= x
    BY Addresses
  <1>2. Beyond(h, a) <= HeapEnd
    BY <1>1, Addresses DEF Tiled
  <1>3. rest \in Addr \ C
    <2>1. rest \in Addr
      BY <1>1, <1>2, HeapAssumption DEF Addr, HeapEnd
    <2>2. \A b \in C : a < b => Beyond(h, a) <= b
      BY DEF Tiled
    <2> QED
      BY <1>1, <2>1, <2>2
  <1>4. ASSUME NEW x \in C \cup {rest}
        PROVE  Beyond(h2, x) \in C \cup {rest, HeapEnd} /\ x < Beyond(h2, x)
    BY <1>1 DEF Tiled
  <1>5. ASSUME NEW x \in C \cup {rest}, NEW y \in C \cup {rest}, x < y
        PROVE  Beyond(h2, x) <= y
    <2>1. CASE x \in C /\ y \in C
      <3>1. Beyond(h, x) <= y
        BY <1>5, <2>1 DEF Tiled
      <3> QED
        BY <1>1, <2>1, <3>1
    <2>2. CASE x = rest
      <3>1. y \in C /\ a < y
        BY <1>1, <1>5, <2>2
      <3>2. Beyond(h, a) <= y
        BY <3>1 DEF Tiled
      <3> QED
        BY <2>2, <3>2
    <2>3. CASE x \in C /\ y = rest
      <3>1. CASE x = a
        BY <2>3, <3>1
      <3>2. CASE x # a
        <4>1. x < a
          <5>1. a < x => Beyond(h, a) <= x
            BY <2>3 DEF Tiled
          <5> QED
            BY <1>1, <1>5, <2>3, <3>2, <5>1
        <4>2. Beyond(h, x) <= a
          BY <2>3, <4>1 DEF Tiled
        <4>3. Beyond(h, x) \in C \cup {HeapEnd} /\ Beyond(h2, x) = Beyond(h, x)
          BY <2>3, <3>2 DEF Tiled
        <4>4. ASSUME NEW b \in Nat, b <= a PROVE b <= rest
          BY <1>1, <4>4
        <4> QED
          BY <1>1, <2>3, <4>2, <4>3, <4>4
      <3> QED
        BY <3>1, <3>2
    <2> QED
      BY <2>1, <2>2, <2>3
  <1> QED
    BY <1>3, <1>4, <1>5 DEF Tiled

\* A chunk joined with the one behind it.
LEMMA JoinTiled ==
  ASSUME NEW h, NEW h2, NEW C, C \subseteq Addr, Tiled(h, C),
         NEW a \in C, NEW n \in C, n = Beyond(h, a), Beyond(h2, a) = Beyond(h, n),
         \A x \in C \ {a, n} : Beyond(h2, x) = Beyond(h, x)
  PROVE  Tiled(h2, C \ {n})
  <1>1. C \subseteq Nat /\ HeapEnd \in Nat /\ \A x \in C : HeapStart <= x /\ x < HeapEnd
    BY Addresses
  <1>2. a < n /\ n < Beyond(h, n) /\ \A x \in C : Beyond(h, x) \in Nat
    BY <1>1 DEF Tiled
  <1>3. HeapStart \in C \ {n}
    BY <1>1, <1>2, Addresses DEF Tiled
  <1>4. ASSUME NEW x \in C \ {n}
        PROVE  Beyond(h2, x) \in (C \ {n}) \cup {HeapEnd} /\ x < Beyond(h2, x)
    <2>1. CASE x = a
      BY <1>1, <1>2, <2>1 DEF Tiled
    <2>2. CASE x # a
      <3>1. (x < a => Beyond(h, x) <= a) /\ (a < x => n <= x) /\ x < Beyond(h, x)
        BY DEF Tiled
      <3>2. Beyond(h, x) # n
        <4>1. x < a \/ a < x
          BY <1>1, <2>2
        <4>2. Beyond(h, x) \in Nat /\ x \in Nat /\ a \in Nat
          BY <1>1, <1>2
        <4> QED
          BY <1>2, <3>1, <4>1, <4>2
      <3> QED
        BY <2>2, <3>2 DEF Tiled
    <2> QED
      BY <2>1, <2>2
  <1>5. ASSUME NEW x \in C \ {n}, NEW y \in C \ {n}, x < y
        PROVE  Beyond(h2, x) <= y
    <2>1. CASE x = a
      <3>1. n <= y
        BY <1>5, <2>1 DEF Tiled
      <3>2. n < y
        BY <1>1, <3>1
      <3> QED
        BY <2>1, <3>2 DEF Tiled
    <2>2. CASE x # a
      BY <1>5, <2>2 DEF Tiled
    <2> QED
      BY <2>1, <2>2
  <1> QED
    BY <1>3, <1>4, <1>5 DEF Tiled

-----------------------------------------------------------------------------
(* What the calls do to the headers *)

LEMMA HeaderSet ==
  ASSUME NEW c \in Header, NEW x \in Place
  PROVE  /\ [c EXCEPT !.prev = x] \in Header /\ [c EXCEPT !.prev = x].prev = x
         /\ [c EXCEPT !.prev = x].next = c.next /\ [c EXCEPT !.prev = x].size = c.size
         /\ [c EXCEPT !.prev = x].magic = c.magic
         /\ [c EXCEPT !.next = x] \in Header /\ [c EXCEPT !.next = x].next = x
         /\ [c EXCEPT !.next = x].prev = c.prev /\ [c EXCEPT !.next = x].size = c.size
         /\ [c EXCEPT !.next = x].magic = c.magic
  BY DEF Header, Place

LEMMA HeaderMagic ==
  ASSUME NEW c \in Header, NEW m \in {"free", "used", "forAlign"}
  PROVE  /\ [c EXCEPT !.magic = m] \in Header /\ [c EXCEPT !.magic = m].magic = m
         /\ [c EXCEPT !.magic = m].prev = c.prev /\ [c EXCEPT !.magic = m].next = c.next
         /\ [c EXCEPT !.magic = m].size = c.size
  BY DEF Header

LEMMA HeaderSize ==
  ASSUME NEW c \in Header, NEW z \in 0..HeapUnits
  PROVE  /\ [c EXCEPT !.size = z] \in Header /\ [c EXCEPT !.size = z].size = z
         /\ [c EXCEPT !.size = z].prev = c.prev /\ [c EXCEPT !.size = z].next = c.next
         /\ [c EXCEPT !.size = z].magic = c.magic
  BY DEF Header

\* A heap with one header replaced.
LEMMA ChunkSet ==
  ASSUME NEW h \in HeapRec, NEW a \in Addr, NEW c \in Header \cup {NoHeader},
         NEW g, g = [h EXCEPT !.chunk = [h.chunk EXCEPT ![a] = c]]
  PROVE  /\ g \in HeapRec /\ g.head = h.head
         /\ g.chunk[a] = c /\ \A x \in Addr \ {a} : g.chunk[x] = h.chunk[x]
  BY DEF HeapRec

LEMMA SetPrevLinks ==
  ASSUME NEW h \in HeapRec, NEW a \in Place, NEW p \in Place,
         a # NoChunk => HasHeader(h, a), NEW g, g = SetPrev(h, a, p)
  PROVE  /\ g \in HeapRec /\ Keeps(g, h) /\ LinksBut(g, h, {}, {a})
         /\ Untouched(g, h, {a})
         /\ a # NoChunk => PrevOf(g, a) = p
  <1>1. CASE a = NoChunk
    BY <1>1 DEF SetPrev, Keeps, LinksBut, Untouched
  <1>2. CASE a # NoChunk
    <2> DEFINE c == [h.chunk[a] EXCEPT !.prev = p]
    <2>1. a \in Addr /\ h.chunk[a] \in Header /\ h.chunk[a] # NoHeader
      BY <1>2 DEF HasHeader, HeapRec
    <2>2. /\ c \in Header /\ c.prev = p /\ c.next = h.chunk[a].next
          /\ c.size = h.chunk[a].size /\ c.magic = h.chunk[a].magic
      BY <2>1, HeaderSet
    <2>3. g = [h EXCEPT !.chunk = [h.chunk EXCEPT ![a] = c]]
      BY <1>2 DEF SetPrev
    <2> HIDE DEF c
    <2>4. /\ g \in HeapRec /\ g.head = h.head
          /\ g.chunk[a] = c /\ \A x \in Addr \ {a} : g.chunk[x] = h.chunk[x]
      BY <2>1, <2>2, <2>3, ChunkSet
    <2>5. c # NoHeader
      BY <2>2, HeapAssumption
    <2> QED
      BY <2>1, <2>2, <2>4, <2>5 DEF Keeps, LinksBut, Untouched, NextOf, PrevOf, SizeOf, Place
  <1> QED
    BY <1>1, <1>2

LEMMA SetNextLinks ==
  ASSUME NEW h \in HeapRec, NEW a \in Place, NEW n \in Place,
         a # NoChunk => HasHeader(h, a), NEW g, g = SetNext(h, a, n)
  PROVE  /\ g \in HeapRec /\ Keeps(g, h) /\ LinksBut(g, h, {a}, {})
         /\ Untouched(g, h, {a})
         /\ NextOf(g, a) = n
  <1>1. CASE a = NoChunk
    <2>1. g = [h EXCEPT !.head = n]
      BY <1>1 DEF SetNext
    <2>2. g \in HeapRec /\ g.head = n /\ g.chunk = h.chunk
      BY <2>1 DEF HeapRec
    <2> QED
      BY <1>1, <2>2 DEF Keeps, LinksBut, Untouched, NextOf, PrevOf, SizeOf
  <1>2. CASE a # NoChunk
    <2> DEFINE c == [h.chunk[a] EXCEPT !.next = n]
    <2>1. a \in Addr /\ h.chunk[a] \in Header /\ h.chunk[a] # NoHeader
      BY <1>2 DEF HasHeader, HeapRec
    <2>2. /\ c \in Header /\ c.next = n /\ c.prev = h.chunk[a].prev
          /\ c.size = h.chunk[a].size /\ c.magic = h.chunk[a].magic
      BY <2>1, HeaderSet
    <2>3. g = [h EXCEPT !.chunk = [h.chunk EXCEPT ![a] = c]]
      BY <1>2 DEF SetNext
    <2> HIDE DEF c
    <2>4. /\ g \in HeapRec /\ g.head = h.head
          /\ g.chunk[a] = c /\ \A x \in Addr \ {a} : g.chunk[x] = h.chunk[x]
      BY <2>1, <2>2, <2>3, ChunkSet
    <2>5. c # NoHeader
      BY <2>2, HeapAssumption
    <2> QED
      BY <1>2, <2>1, <2>2, <2>4, <2>5 DEF Keeps, LinksBut, Untouched, NextOf, PrevOf, SizeOf, Place
  <1> QED
    BY <1>1, <1>2

\* Unlink takes the chunk out of the list and touches nothing else.
LEMMA UnlinkLinks ==
  ASSUME NEW h \in HeapRec, NEW F, F \subseteq Addr, \A x \in F : HasHeader(h, x),
         NEW a \in F, LinkedBack(h, F, F \ {NextOf(h, a)}), NEW g, g = Unlink(h, a)
  PROVE  g \in HeapRec /\ Keeps(g, h) /\ Untouched(g, h, F) /\ Linked(g, F \ {a})
  <1> DEFINE c == h.chunk[a]
             p == PrevOf(h, a)
             n == NextOf(h, a)
             f == SetNext(h, p, n)
             e == SetPrev(f, n, p)
             d == [[c EXCEPT !.prev = NoChunk] EXCEPT !.next = NoChunk]
  <1>1. c \in Header /\ c # NoHeader /\ a \in Addr /\ a # NoChunk
    BY Addresses DEF HasHeader, HeapRec
  <1>2. p = c.prev /\ n = c.next
    BY <1>1 DEF PrevOf, NextOf
  <1>3. /\ p \in F \cup {NoChunk} /\ p < a
        /\ n \in F \cup {NoChunk} /\ (n # NoChunk => a < n)
        /\ p \in Place /\ n \in Place
    <2>1. IsNext(F, a, n)
      BY DEF LinkedBack
    <2>2. a # n
      BY <1>1, <2>1, Addresses DEF IsNext
    <2>3. IsPrev(F, a, p)
      BY <2>2 DEF LinkedBack
    <2> QED
      BY <2>1, <2>3 DEF IsNext, IsPrev, Place
  <1>4. p # a /\ n # a
    BY <1>1, <1>3, Addresses
  <1> HIDE DEF c, p, n
  <1>5. /\ f \in HeapRec /\ Keeps(f, h) /\ LinksBut(f, h, {p}, {}) /\ NextOf(f, p) = n
        /\ Untouched(f, h, {p})
    BY <1>3, SetNextLinks
  <1>6. n # NoChunk => HasHeader(f, n)
    BY <1>3, <1>5 DEF HasHeader, Keeps
  <1> HIDE DEF f
  <1>7. /\ e \in HeapRec /\ Keeps(e, f) /\ LinksBut(e, f, {}, {n})
        /\ Untouched(e, f, {n})
        /\ n # NoChunk => PrevOf(e, n) = p
    BY <1>3, <1>5, <1>6, SetPrevLinks
  <1>8. /\ d \in Header /\ d.prev = NoChunk /\ d.next = NoChunk /\ d.size = c.size
        /\ d.magic = c.magic /\ d # NoHeader
    <2> DEFINE b == [c EXCEPT !.prev = NoChunk]
    <2>1. b \in Header /\ b.prev = NoChunk /\ b.size = c.size /\ b.magic = c.magic
      BY <1>1, HeaderSet DEF Place
    <2>2. d = [b EXCEPT !.next = NoChunk]
      OBVIOUS
    <2> HIDE DEF b
    <2>3. /\ d \in Header /\ d.next = NoChunk /\ d.prev = b.prev
          /\ d.size = b.size /\ d.magic = b.magic
      BY <2>1, <2>2 DEF Header
    <2> QED
      BY <2>1, <2>3, HeapAssumption
  <1>9. g = [e EXCEPT !.chunk = [e.chunk EXCEPT ![a] = d]]
    BY <1>2 DEF Unlink, c, f
  <1> HIDE DEF e, d
  <1>10. /\ g \in HeapRec /\ g.head = e.head
         /\ g.chunk[a] = d /\ \A x \in Addr \ {a} : g.chunk[x] = e.chunk[x]
    BY <1>1, <1>7, <1>8, <1>9, ChunkSet
  <1>11. Keeps(g, h)
    <2>1. Keeps(e, h)
      BY <1>5, <1>7 DEF Keeps
    <2> QED
      BY <1>1, <1>8, <1>10, <2>1 DEF Keeps, SizeOf, c
  <1>12. /\ NextOf(g, p) = n /\ (n # NoChunk => PrevOf(g, n) = p)
         /\ LinksBut(g, h, {p, a}, {n, a})
    <2>1. /\ \A x \in Place \ {a} : NextOf(g, x) = NextOf(e, x)
          /\ \A x \in Addr \ {a} : PrevOf(g, x) = PrevOf(e, x)
      BY <1>10 DEF NextOf, PrevOf, Place
    <2>2. n # NoChunk => n \in Addr
      BY <1>3
    <2> QED
      BY <2>1, <2>2, <1>3, <1>4, <1>5, <1>7 DEF LinksBut
  <1>13. Linked(g, F \ {a})
    BY <1>12, RemoveLinked DEF p, n
  <1>14. Untouched(g, h, F)
    <2>1. \A x \in Addr \ F : x # p /\ x # n /\ x # a
      BY <1>3, Addresses
    <2> QED
      BY <2>1, <1>5, <1>7, <1>10 DEF Untouched
  <1> QED
    BY <1>10, <1>11, <1>13, <1>14

\* Split cuts off what lies behind the size, if it can hold more than a header.
Cut(g, h, F, U, a, size, R) ==
  /\ R \subseteq Addr \ (F \cup U) /\ R \subseteq {a + size + 1}
  /\ \A x \in R : /\ HasHeader(g, x) /\ g.chunk[x].magic = "free"
                  /\ Beyond(g, x) = Beyond(h, a) /\ a < x /\ x < Beyond(h, a)
  /\ HasHeader(g, a) /\ g.chunk[a].magic = h.chunk[a].magic
  /\ a + size < Beyond(g, a) /\ (R = {} => Beyond(g, a) = Beyond(h, a))
  /\ Untouched(g, h, F \cup R)
  /\ \A x \in F \ {a} : /\ HasHeader(g, x) /\ g.chunk[x].magic = h.chunk[x].magic
                        /\ Beyond(g, x) = Beyond(h, x)

LEMMA SplitLinks ==
  ASSUME NEW h \in HeapRec, NEW F, NEW U, F \cup U \subseteq Addr,
         \A x \in F : HasHeader(h, x),
         Linked(h, F), Tiled(h, F \cup U), NEW a \in F, NEW size \in Nat \ {0},
         size <= SizeOf(h, a), NEW g, g = Split(h, a, size)
  PROVE  /\ g \in HeapRec
         /\ \E R \in SUBSET Addr :
              /\ Cut(g, h, F, U, a, size, R) /\ Tiled(g, (F \cup U) \cup R)
              /\ LinkedBack(g, F \cup R, (F \cup R) \ {NextOf(g, a)})
  <1> DEFINE c == h.chunk[a]
             n == NextOf(h, a)
             rest == a + size + 1
             new == [magic |-> "free", size |-> c.size - size - 1,
                     prev |-> NoChunk, next |-> n]
             h1 == [h EXCEPT !.chunk = [h.chunk EXCEPT ![rest] = new]]
             h2 == [h1 EXCEPT !.chunk[a].next = rest]
             h3 == [h2 EXCEPT !.chunk[a].size = size]
  <1>1. /\ c \in Header /\ c # NoHeader /\ a \in Addr /\ a # NoChunk /\ a \in Nat
        /\ n = c.next /\ SizeOf(h, a) = c.size /\ c.size \in 0..HeapUnits
    BY Addresses DEF HasHeader, HeapRec, Header, NextOf, SizeOf
  <1>2. /\ n \in F \cup {NoChunk} /\ (n # NoChunk => a < n) /\ n \in Place
        /\ Beyond(h, a) = a + c.size + 1 /\ Beyond(h, a) \in Int
    BY <1>1 DEF Linked, LinkedBack, IsNext, Place, Beyond
  <1> HIDE DEF c, n
  <1>3. CASE ~(c.size > size + 1)
    <2>1. g = h
      BY <1>1, <1>3 DEF Split, c
    <2>2. Cut(g, h, F, U, a, size, {})
      BY <1>1, <1>2, <2>1 DEF Cut, HasHeader, Untouched
    <2>3. LinkedBack(g, F \cup {}, (F \cup {}) \ {NextOf(g, a)}) /\ Tiled(g, (F \cup U) \cup {})
      BY <2>1 DEF Linked, LinkedBack
    <2> QED
      BY <2>1, <2>2, <2>3
  <1>4. CASE c.size > size + 1
    <2>1. g = SetPrev(h3, n, rest)
      BY <1>1, <1>4 DEF Split, c
    <2>2. rest \in Int /\ a < rest /\ rest < Beyond(h, a) /\ a \in F \cup U
      BY <1>1, <1>2, <1>4
    <2>3. rest \in Addr \ (F \cup U)
      <3> HIDE DEF rest
      <3>1. Beyond(h, a) <= HeapEnd
        <4>1. Beyond(h, a) \in (F \cup U) \cup {HeapEnd}
          BY <2>2 DEF Tiled
        <4>2. ASSUME NEW e \in Addr \cup {HeapEnd} PROVE e <= HeapEnd
          BY <4>2, Addresses
        <4> QED
          BY <4>1, <4>2
      <3>2. \A x \in F \cup U : a < x => Beyond(h, a) <= x
        BY <2>2 DEF Tiled
      <3>3. rest \in Addr
        BY <3>1, <2>2, <1>1, <1>2, Addresses DEF Addr
      <3> QED
        BY <3>2, <3>3, <2>2, <1>1, <1>2, Addresses
    <2>4. new \in Header /\ new # NoHeader
      <3>1. c.size - size - 1 \in 0..HeapUnits
        BY <1>1, <1>4, HeapAssumption
      <3>2. new \in Header
        BY <1>2, <3>1 DEF Header, Place
      <3> QED
        BY <3>2, HeapAssumption
    <2>5. rest \in Place /\ size \in 0..HeapUnits
      BY <1>1, <1>4, <2>3, HeapAssumption DEF Place
    <2>6. new.size = c.size - size - 1 /\ new.next = n /\ new.magic = "free"
      OBVIOUS
    <2> HIDE DEF rest, new
    <2>7. /\ h1 \in HeapRec /\ h1.head = h.head
          /\ h1.chunk[rest] = new /\ \A x \in Addr \ {rest} : h1.chunk[x] = h.chunk[x]
      BY <2>3, <2>4, ChunkSet
    <2>8. /\ h2 \in HeapRec /\ h2.head = h.head /\ h2.chunk[a] \in Header
          /\ h2.chunk[a].next = rest /\ h2.chunk[a].prev = c.prev /\ h2.chunk[a].magic = c.magic
          /\ \A x \in Addr \ {a} : h2.chunk[x] = h1.chunk[x]
      <3> DEFINE c1 == [c EXCEPT !.next = rest]
      <3>1. h1.chunk[a] = c
        BY <1>1, <2>2, <2>3, <2>7 DEF c
      <3>2. h2 = [h1 EXCEPT !.chunk = [h1.chunk EXCEPT ![a] = c1]]
        BY <3>1
      <3>3. c1 \in Header /\ c1.next = rest /\ c1.prev = c.prev /\ c1.magic = c.magic
        BY <1>1, <2>5, HeaderSet
      <3> HIDE DEF h1, h2, c1
      <3>4. /\ h2 \in HeapRec /\ h2.head = h1.head
            /\ h2.chunk[a] = c1 /\ \A x \in Addr \ {a} : h2.chunk[x] = h1.chunk[x]
        BY <1>1, <2>7, <3>2, <3>3, ChunkSet
      <3> QED
        BY <2>7, <3>3, <3>4
    <2>9. /\ h3 \in HeapRec /\ h3.head = h.head /\ h3.chunk[a] \in Header
          /\ h3.chunk[a].next = rest /\ h3.chunk[a].prev = c.prev /\ h3.chunk[a].magic = c.magic
          /\ h3.chunk[a].size = size
          /\ \A x \in Addr \ {a} : h3.chunk[x] = h1.chunk[x]
      <3> DEFINE c2 == [h2.chunk[a] EXCEPT !.size = size]
      <3> HIDE DEF h2
      <3>1. h3 = [h2 EXCEPT !.chunk = [h2.chunk EXCEPT ![a] = c2]]
        OBVIOUS
      <3>2. /\ c2 \in Header /\ c2.next = rest /\ c2.prev = c.prev /\ c2.magic = c.magic
            /\ c2.size = size
        BY <2>5, <2>8, HeaderSize
      <3> HIDE DEF h3, c2
      <3>3. /\ h3 \in HeapRec /\ h3.head = h2.head
            /\ h3.chunk[a] = c2 /\ \A x \in Addr \ {a} : h3.chunk[x] = h2.chunk[x]
        BY <1>1, <2>8, <3>1, <3>2, ChunkSet
      <3> QED
        BY <2>8, <3>2, <3>3
    <2> HIDE DEF h1, h2, h3
    <2>10. /\ rest # a /\ n # rest /\ n # a /\ rest # NoChunk
           /\ h3.chunk[rest] = new /\ \A x \in Addr \ {a, rest} : h3.chunk[x] = h.chunk[x]
           /\ n # NoChunk => HasHeader(h3, n)
      <3>1. rest # a /\ n # rest /\ n # a /\ rest # NoChunk
        BY <1>1, <1>2, <2>2, <2>3, Addresses
      <3>2. n # NoChunk => n \in Addr \ {a, rest} /\ HasHeader(h, n)
        BY <1>2, <3>1
      <3> QED
        BY <2>3, <2>7, <2>9, <3>1, <3>2 DEF HasHeader
    <2>11. /\ g \in HeapRec /\ Keeps(g, h3) /\ LinksBut(g, h3, {}, {n})
           /\ Untouched(g, h3, {n}) /\ (n # NoChunk => PrevOf(g, n) = rest)
      BY <1>2, <2>1, <2>5, <2>9, <2>10, SetPrevLinks
    <2>12. /\ HasHeader(g, rest) /\ g.chunk[rest].magic = "free" /\ SizeOf(g, rest) = new.size
           /\ HasHeader(g, a) /\ g.chunk[a].magic = c.magic /\ SizeOf(g, a) = size
      BY <1>1, <2>3, <2>4, <2>6, <2>9, <2>10, <2>11, HeapAssumption DEF Keeps, HasHeader, SizeOf
    <2>13. /\ Beyond(g, a) = rest /\ Beyond(g, rest) = Beyond(h, a)
      BY <1>1, <1>2, <2>6, <2>12 DEF Beyond, rest
    <2>14. ASSUME NEW x \in (F \cup U) \ {a}
           PROVE  Beyond(g, x) = Beyond(h, x) /\ (HasHeader(h, x) => HasHeader(g, x)
                  /\ g.chunk[x].magic = h.chunk[x].magic)
      <3>1. x \in Addr \ {a, rest}
        BY <2>3
      <3> QED
        BY <3>1, <2>10, <2>11 DEF Keeps, Beyond, SizeOf, HasHeader
    <2>15. Untouched(g, h, F \cup {rest})
      <3>1. \A x \in Addr \ (F \cup {rest}) : x # n /\ x # a
        BY <1>2, Addresses
      <3> QED
        BY <3>1, <2>10, <2>11 DEF Untouched
    <2>16. Cut(g, h, F, U, a, size, {rest})
      <3>1. {rest} \subseteq {a + size + 1} /\ a + size < rest
        BY <1>1 DEF rest
      <3> QED
        BY <2>2, <2>3, <2>12, <2>13, <2>14, <2>15, <3>1 DEF Cut, c
    <2>17. Tiled(g, (F \cup U) \cup {rest})
      BY <1>2, <2>2, <2>13, <2>14, CutTiled
    <2>18. /\ NextOf(g, a) = rest /\ NextOf(g, rest) = n
           /\ LinksBut(g, h, {a, rest}, {n, rest})
      <3>1. /\ \A x \in Place : NextOf(g, x) = NextOf(h3, x)
            /\ \A x \in Addr \ {n} : PrevOf(g, x) = PrevOf(h3, x)
        BY <2>11 DEF LinksBut
      <3>2. /\ NextOf(h3, a) = rest /\ NextOf(h3, rest) = n
            /\ PrevOf(h3, a) = PrevOf(h, a)
        BY <1>1, <2>6, <2>9, <2>10 DEF NextOf, PrevOf, c
      <3>3. /\ \A x \in Place \ {a, rest} : NextOf(h3, x) = NextOf(h, x)
            /\ \A x \in Addr \ {a, rest} : PrevOf(h3, x) = PrevOf(h, x)
        BY <2>9, <2>10 DEF NextOf, PrevOf, Place
      <3> QED
        BY <2>3, <2>5, <2>10, <3>1, <3>2, <3>3, <1>1 DEF LinksBut, Place
    <2>19. LinkedBack(g, F \cup {rest}, (F \cup {rest}) \ {NextOf(g, a)})
      <3>1. n = NoChunk \/ rest < n
        <4>1. n # NoChunk => Beyond(h, a) <= n /\ n \in Nat
          BY <1>2, <2>2, Addresses DEF Tiled
        <4> QED
          BY <1>2, <2>2, <4>1
      <3>2. F \subseteq Addr /\ rest \in Addr \ F /\ a \in F \cup {NoChunk}
        BY <2>3
      <3>3. n # NoChunk => PrevOf(g, n) = rest
        BY <2>11
      <3>4. LinkedBack(g, F \cup {rest}, F)
        BY <2>2, <2>18, <3>1, <3>2, <3>3, InsertLinked DEF n
      <3> QED
        BY <2>3, <2>18, <3>4 DEF LinkedBack
    <2> QED
      BY <2>3, <2>11, <2>16, <2>17, <2>19
  <1> QED
    BY <1>3, <1>4

-----------------------------------------------------------------------------
(* Walks along the list *)

\* A set of natural numbers that is not empty has a least element.
LEMMA Least ==
  ASSUME NEW T, T \subseteq Nat, T # {}
  PROVE  \E m \in T : \A j \in T : m <= j
  <1> DEFINE R == OpToRel(<, Nat)
  <1>1. IsWellFoundedOn(R, Nat)
    BY NatLessThanWellFounded
  <1>2. PICK m \in T : \A j \in T : <<j, m>> \notin R
    <2> HIDE DEF R
    <2> QED
      BY <1>1, WFMin
  <1>3. \A j, k \in Nat : j < k => <<j, k>> \in R
    BY DEF OpToRel
  <1>4. \A j \in T : ~(j < m)
    BY <1>2, <1>3
  <1> QED
    BY <1>4

Following(h, a) == IF a = NoChunk THEN NoChunk ELSE h.chunk[a].next

IsWalk(h, X, n, f) ==
  /\ f \in [0..n -> X] /\ f[0] = h.head
  /\ \A i \in 1..n : f[i] = Following(h, f[i - 1])

LEMMA WalkExists ==
  ASSUME NEW h, NEW X, NoChunk \in X, h.head \in X,
         \A x \in X \ {NoChunk} : h.chunk[x].next \in X, NEW n \in Nat
  PROVE  \E f \in [0..n -> X] : IsWalk(h, X, n, f)
  <1> DEFINE T == {k \in Nat : ~ \E f \in [0..k -> X] : IsWalk(h, X, k, f)}
  <1>1. SUFFICES ASSUME T # {} PROVE FALSE
    OBVIOUS
  <1>2. PICK k \in T : \A j \in T : k <= j
    <2>1. T \subseteq Nat
      OBVIOUS
    <2> HIDE DEF T
    <2> QED
      BY <1>1, <2>1, Least
  <1>3. k \in Nat /\ ~ \E f \in [0..k -> X] : IsWalk(h, X, k, f)
    OBVIOUS
  <1>4. CASE k = 0
    <2> DEFINE f == [i \in 0..0 |-> h.head]
    <2>1. f \in [0..0 -> X] /\ IsWalk(h, X, 0, f)
      BY DEF IsWalk
    <2> QED
      BY <1>3, <1>4, <2>1
  <1>5. CASE k # 0
    <2>1. k - 1 \in Nat /\ k - 1 \notin T
      BY <1>2, <1>3, <1>5
    <2>2. PICK f \in [0..(k - 1) -> X] : IsWalk(h, X, k - 1, f)
      BY <2>1
    <2> DEFINE g == [i \in 0..k |-> IF i = k THEN Following(h, f[k - 1]) ELSE f[i]]
    <2>3. f[k - 1] \in X
      BY <2>1, <2>2
    <2>4. Following(h, f[k - 1]) \in X
      BY <2>3 DEF Following
    <2>5. g \in [0..k -> X]
      BY <1>3, <2>2, <2>4
    <2>6. IsWalk(h, X, k, g)
      <3>1. g[0] = h.head
        BY <1>3, <1>5, <2>2 DEF IsWalk
      <3>2. ASSUME NEW i \in 1..k PROVE g[i] = Following(h, g[i - 1])
        <4>1. i - 1 \in 0..(k - 1) /\ g[i - 1] = f[i - 1]
          BY <1>3
        <4>2. CASE i = k
          BY <4>1, <4>2
        <4>3. CASE i # k
          <5>1. i \in 1..(k - 1) /\ g[i] = f[i]
            BY <1>3, <4>3
          <5>2. f[i] = Following(h, f[i - 1])
            BY <2>2, <5>1 DEF IsWalk
          <5> QED
            BY <4>1, <5>1, <5>2
        <4> QED
          BY <4>2, <4>3
      <3> HIDE DEF g
      <3> QED
        BY <2>5, <3>1, <3>2 DEF IsWalk
    <2> QED
      BY <1>3, <2>5, <2>6
  <1> QED
    BY <1>4, <1>5

\* Link is the walk that never leaves the list.
\* One step of the definition of Link.
LinkStep(h, f) == [n \in 0..HeapUnits |->
  IF n = 0 THEN h.head ELSE IF f[n - 1] = NoChunk THEN NoChunk ELSE h.chunk[f[n - 1]].next]

LEMMA LinkIs ==
  ASSUME NEW h
  PROVE  Link(h) = CHOOSE after : after = LinkStep(h, after)
  BY Zenon DEF Link, LinkStep

LEMMA LinkWalks ==
  ASSUME NEW h, NEW X, NoChunk \in X, h.head \in X,
         \A x \in X \ {NoChunk} : h.chunk[x].next \in X
  PROVE  IsWalk(h, X, HeapUnits, Link(h))
  <1>1. HeapUnits \in Nat
    BY HeapAssumption
  <1>2. PICK f \in [0..HeapUnits -> X] : IsWalk(h, X, HeapUnits, f)
    BY <1>1, WalkExists
  <1>3. f = LinkStep(h, f)
    <2>1. ASSUME NEW n \in 0..HeapUnits PROVE f[n] = LinkStep(h, f)[n]
      BY <1>1, <1>2, <2>1 DEF IsWalk, Following, LinkStep
    <2>2. /\ f = [n \in 0..HeapUnits |-> f[n]]
          /\ LinkStep(h, f) = [n \in 0..HeapUnits |-> LinkStep(h, f)[n]]
      BY DEF LinkStep
    <2> QED
      BY <2>1, <2>2
  <1> DEFINE l == Link(h)
  <1>5. l = LinkStep(h, l)
    BY <1>3, LinkIs
  <1>6. /\ l[0] = h.head
        /\ \A i \in 1..HeapUnits : l[i] = Following(h, l[i - 1])
    <2> HIDE DEF l
    <2>1. \A i \in 0..HeapUnits :
            l[i] = IF i = 0 THEN h.head
                   ELSE IF l[i - 1] = NoChunk THEN NoChunk ELSE h.chunk[l[i - 1]].next
      BY Zenon, <1>5 DEF LinkStep
    <2> QED
      BY <1>1, <2>1 DEF Following
  <1>7. l \in [0..HeapUnits -> X]
    <2>1. ASSUME NEW i \in 0..HeapUnits, l[i] \notin X PROVE FALSE
      <3> HIDE DEF l
      <3> DEFINE T == {k \in 0..HeapUnits : l[k] \notin X}
      <3>1. T \subseteq Nat /\ T # {}
        BY <2>1
      <3> HIDE DEF T
      <3>2. PICK k \in T : \A j \in T : k <= j
        BY <3>1, Least
      <3>3. k \in 0..HeapUnits /\ l[k] \notin X
        BY DEF T
      <3>4. k # 0
        BY <1>6, <3>3
      <3>5. k - 1 \in 0..HeapUnits /\ k \in 1..HeapUnits /\ ~(k <= k - 1)
        BY <1>1, <3>3, <3>4
      <3>6. l[k - 1] \in X
        BY <3>2, <3>5 DEF T
      <3> QED
        BY <1>6, <3>3, <3>5, <3>6 DEF Following
    <2>2. DOMAIN l = 0..HeapUnits /\ l = [i \in 0..HeapUnits |-> l[i]]
      <3> HIDE DEF l
      <3>1. l = [i \in 0..HeapUnits |->
              IF i = 0 THEN h.head ELSE IF l[i - 1] = NoChunk THEN NoChunk ELSE h.chunk[l[i - 1]].next]
        BY Zenon, <1>5 DEF LinkStep
      <3>2. DOMAIN l = 0..HeapUnits
        BY Zenon, <3>1
      <3>3. ASSUME NEW r, DOMAIN r = 0..HeapUnits,
                   r = [i \in DOMAIN r |-> r[i]]
            PROVE  r = [i \in 0..HeapUnits |-> r[i]]
        BY Zenon, <3>3
      <3>4. l = [i \in DOMAIN l |-> l[i]]
        BY Zenon, <3>1
      <3> QED
        BY Zenon, <3>2, <3>3, <3>4
    <2> HIDE DEF l
    <2> QED
      BY <2>1, <2>2
  <1> QED
    BY <1>6, <1>7 DEF IsWalk

\* Best is a free chunk with room for the block.
LEMMA BestFits ==
  ASSUME NEW F, F \subseteq Addr, Linked(Heap, F), NEW size \in Nat,
         NEW align, \A a \in F : Unaligned(a, align) \in Nat, \A a \in F : chunk[a].size \in Nat,
         NEW b, b = Best(size, align), b # NoChunk
  PROVE  b \in F /\ size + Unaligned(b, align) <= chunk[b].size
  <1> DEFINE link == Link(Heap)
             listed == {n \in 0..HeapUnits : link[n] # NoChunk}
             sizeOf(n) == chunk[link[n]].size
             exact == {n \in listed : sizeOf(n) = size /\ Unaligned(link[n], align) = 0}
             enough == {n \in listed : sizeOf(n) >= size + Unaligned(link[n], align)}
             better(n, m) == sizeOf(n) < sizeOf(m) \/ (sizeOf(n) = sizeOf(m) /\ n <= m)
  <1>1. IsWalk(Heap, F \cup {NoChunk}, HeapUnits, link)
    <2>1. Heap.head \in F \cup {NoChunk}
      BY DEF Linked, LinkedBack, IsNext, NextOf
    <2>2. \A x \in (F \cup {NoChunk}) \ {NoChunk} : Heap.chunk[x].next \in F \cup {NoChunk}
      BY DEF Linked, LinkedBack, IsNext, NextOf
    <2> QED
      BY <2>1, <2>2, LinkWalks
  <1>2. b = IF exact # {} THEN link[CHOOSE n \in exact : \A m \in exact : n <= m]
            ELSE IF enough # {} THEN link[CHOOSE n \in enough : \A m \in enough : better(n, m)]
            ELSE NoChunk
    BY DEF Best
  <1> HIDE DEF link
  <1>3. \A n \in listed : link[n] \in F /\ n \in Nat
    BY <1>1, HeapAssumption DEF IsWalk
  <1>4. ASSUME NEW n \in exact \cup enough
        PROVE  link[n] \in F /\ size + Unaligned(link[n], align) <= chunk[link[n]].size
    BY <1>3
  <1>5. CASE exact # {}
    <2>1. exact \subseteq Nat
      BY <1>3
    <2> HIDE DEF exact
    <2>2. \E n \in exact : \A m \in exact : n <= m
      BY <1>5, <2>1, Least
    <2>3. (CHOOSE n \in exact : \A m \in exact : n <= m) \in exact
      BY <2>2
    <2> QED
      BY <1>2, <1>4, <1>5, <2>3
  <1>6. CASE exact = {} /\ enough # {}
    <2> DEFINE sizes == {sizeOf(n) : n \in enough}
    <2>1. sizes \subseteq Nat /\ sizes # {}
      BY <1>3, <1>6
    <2>2. PICK s \in sizes : \A t \in sizes : s <= t
      <3> HIDE DEF sizes
      <3> QED
        BY <2>1, Least
    <2> DEFINE least == {n \in enough : sizeOf(n) = s}
    <2>3. least \subseteq Nat /\ least # {}
      BY <1>3
    <2>4. PICK n \in least : \A m \in least : n <= m
      <3> HIDE DEF least
      <3> QED
        BY <2>3, Least
    <2>5. n \in enough /\ \A m \in enough : better(n, m)
      <3>1. n \in enough /\ sizeOf(n) = s /\ s \in Nat
        BY <2>1
      <3>2. ASSUME NEW m \in enough PROVE better(n, m)
        <4>1. sizeOf(m) \in sizes
          OBVIOUS
        <4>2. s <= sizeOf(m) /\ sizeOf(m) \in Nat
          BY <2>1, <2>2, <4>1
        <4>3. CASE sizeOf(m) = s
          <5>1. m \in least
            BY <4>3
          <5>2. n <= m
            BY <2>4, <5>1
          <5> QED
            BY <3>1, <4>3, <5>2
        <4>4. CASE sizeOf(m) # s
          BY <3>1, <4>2, <4>4
        <4> QED
          BY <4>3, <4>4
      <3> QED
        BY <3>1, <3>2
    <2> HIDE DEF enough, better
    <2>6. (CHOOSE k \in enough : \A m \in enough : better(k, m)) \in enough
      BY <2>5
    <2> QED
      BY Zenon, <1>2, <1>4, <1>6, <2>6
  <1> QED
    BY Zenon, <1>2, <1>5, <1>6

-----------------------------------------------------------------------------
(* Allocation *)

FreeIn(h) == {a \in Addr : h.chunk[a] # NoHeader /\ h.chunk[a].magic = "free"}
UsedIn(h) == {a \in Addr : h.chunk[a] # NoHeader /\ h.chunk[a].magic = "used"}

\* What HeapIntact says of a heap.
Shape(h) ==
  /\ h \in HeapRec
  /\ Linked(h, FreeIn(h))
  /\ Tiled(h, FreeIn(h) \cup UsedIn(h))
  /\ \A a \in FreeIn(h) : Beyond(h, a) \notin FreeIn(h)

\* The chunk a of h becomes a used one, with room for the size, and the block in
\* it finds its way back; the headers outside of it do not change, but for the
\* links of free chunks.
Given(k, h, a, size, block) ==
  /\ Shape(k)
  /\ UsedIn(k) = UsedIn(h) \cup {a}
  /\ \A x \in UsedIn(h) : Beyond(k, x) = Beyond(h, x)
  /\ a + size < Beyond(k, a) /\ Beyond(k, a) <= Beyond(h, a)
  /\ block # a + 1 => /\ HasHeader(k, block - 1) /\ k.chunk[block - 1].magic = "forAlign"
                      /\ k.chunk[block - 1].prev = a
  /\ Untouched(k, h, FreeIn(h) \cup a..(Beyond(h, a) - 1))

LEMMA ForAlignLeads ==
  ASSUME NEW e \in HeapRec, NEW a, NEW block, block # a + 1,
         NEW y \in Addr, y = block - 1, NEW lead \in Header,
         lead = [magic |-> "forAlign", size |-> 0, prev |-> a, next |-> NoChunk],
         NEW f, f = ForAlign(e, a, block)
  PROVE  /\ f \in HeapRec /\ f.head = e.head /\ f.chunk[y] = lead
         /\ \A x \in Addr \ {y} : f.chunk[x] = e.chunk[x]
  <1>1. f = [e EXCEPT !.chunk = [e.chunk EXCEPT ![y] = lead]]
    BY DEF ForAlign
  <1>2. lead \in Header \cup {NoHeader}
    OBVIOUS
  <1> QED
    BY <1>1, <1>2 DEF HeapRec

LEMMA AllocGives ==
  ASSUME NEW h, Shape(h), NEW a \in FreeIn(h), NEW size \in Nat \ {0},
         size <= SizeOf(h, a), NEW block \in Int, a < block, block <= a + size,
         NEW f, f = ForAlign(Unlink(Split(h, a, size), a), a, block),
         NEW k, k = [head |-> f.head, chunk |-> [f.chunk EXCEPT ![a].magic = "used"]]
  PROVE  Given(k, h, a, size, block)
  <1> DEFINE F == FreeIn(h)
             U == UsedIn(h)
             g == Split(h, a, size)
             e == Unlink(g, a)
  <1>1. /\ h \in HeapRec /\ F \cup U \subseteq Addr /\ F \subseteq Addr
        /\ \A x \in F : HasHeader(h, x)
        /\ Linked(h, F) /\ Tiled(h, F \cup U) /\ a \in F /\ a \in Addr
        /\ a \notin U /\ a \in Nat
    BY Addresses DEF Shape, FreeIn, UsedIn, HasHeader
  <1> HIDE DEF g, e
  <1>2. g \in HeapRec
    BY <1>1, SplitLinks DEF g
  <1>3. PICK R \in SUBSET Addr :
          /\ Cut(g, h, F, U, a, size, R) /\ Tiled(g, (F \cup U) \cup R)
          /\ LinkedBack(g, F \cup R, (F \cup R) \ {NextOf(g, a)})
    BY <1>1, SplitLinks DEF g
  <1> HIDE DEF F, U
  <1>4. /\ R \subseteq Addr \ (F \cup U)
        /\ \A x \in F \cup R : HasHeader(g, x)
        /\ \A x \in (F \cup R) \ {a} : g.chunk[x].magic = "free"
        /\ a \notin R
    <2>1. \A x \in F : h.chunk[x].magic = "free"
      BY DEF F, FreeIn
    <2> QED
      BY <1>1, <1>3, <2>1 DEF Cut
  <1>5. e \in HeapRec /\ Keeps(e, g) /\ Untouched(e, g, F \cup R) /\ Linked(e, (F \cup R) \ {a})
    BY <1>1, <1>2, <1>3, <1>4, UnlinkLinks DEF e
  <1>6. /\ Beyond(g, a) \in Nat /\ Beyond(h, a) \in Nat
        /\ a + size < Beyond(g, a) /\ Beyond(g, a) <= Beyond(h, a)
    <2>1. /\ Beyond(g, a) \in ((F \cup U) \cup R) \cup {HeapEnd}
          /\ Beyond(h, a) \in (F \cup U) \cup {HeapEnd}
      BY <1>1, <1>3 DEF Tiled
    <2>2. a + size < Beyond(g, a) /\ (R = {} => Beyond(g, a) = Beyond(h, a))
      BY <1>3 DEF Cut
    <2>3. \A x \in R : a < x /\ x < Beyond(h, a)
      BY <1>3 DEF Cut
    <2>4. \A x \in R : Beyond(g, a) <= x
      BY <1>1, <1>3, <2>3 DEF Tiled
    <2> QED
      BY <1>1, <2>1, <2>2, <2>3, <2>4, Addresses
  <1>7. block # a + 1 => block - 1 \in Addr \ ((F \cup U) \cup R)
    <2>1. SUFFICES ASSUME block # a + 1 PROVE block - 1 \in Addr \ ((F \cup U) \cup R)
      OBVIOUS
    <2>2. a < block - 1 /\ block - 1 < Beyond(g, a)
      BY <1>1, <1>6, <2>1
    <2>3. \A x \in (F \cup U) \cup R : a < x => Beyond(g, a) <= x
      BY <1>1, <1>3 DEF Tiled
    <2>4. block - 1 \notin (F \cup U) \cup R
      BY <1>1, <1>6, <2>2, <2>3, Addresses
    <2>5. Beyond(g, a) <= HeapEnd
      <3>1. Beyond(g, a) \in ((F \cup U) \cup R) \cup {HeapEnd}
        BY <1>1, <1>3 DEF Tiled
      <3> QED
        BY <1>1, <3>1, Addresses
    <2> QED
      BY <1>1, <1>6, <2>2, <2>4, <2>5, Addresses DEF Addr
  <1> DEFINE B == {x \in Addr : block # a + 1 /\ x = block - 1}
             lead == [magic |-> "forAlign", size |-> 0, prev |-> a, next |-> NoChunk]
  <1>8. /\ f \in HeapRec /\ f.head = e.head
        /\ \A x \in Addr \ B : f.chunk[x] = e.chunk[x]
        /\ \A x \in B : f.chunk[x] = lead
        /\ B \cap ((F \cup U) \cup R) = {} /\ (block # a + 1 => block - 1 \in B)
    <2>1. lead \in Header
      BY <1>1, HeapAssumption DEF Header
    <2>2. CASE block = a + 1
      BY <1>5, <2>2 DEF ForAlign, e, g
    <2>3. CASE block # a + 1
      <3> DEFINE y == block - 1
      <3>1. f = ForAlign(e, a, block)
        BY DEF e, g
      <3>2. y \in Addr \ ((F \cup U) \cup R)
        BY <1>7, <2>3
      <3>3. B = {y}
        BY <2>3, <3>2 DEF B
      <3> HIDE DEF lead, y
      <3>4. /\ f \in HeapRec /\ f.head = e.head /\ f.chunk[y] = lead
            /\ \A x \in Addr \ {y} : f.chunk[x] = e.chunk[x]
        <4>1. e \in HeapRec /\ y \in Addr /\ y = block - 1
          BY <1>5, <3>2 DEF y
        <4> QED
          BY <2>1, <2>3, <3>1, <4>1, ForAlignLeads DEF lead
      <3>5. B \cap ((F \cup U) \cup R) = {}
        BY <3>2, <3>3
      <3> QED
        BY <3>3, <3>4, <3>5 DEF y
    <2> QED
      BY <2>2, <2>3
  <1>9. lead # NoHeader /\ lead.magic = "forAlign" /\ lead.prev = a
    <2>1. lead \in Header
      BY <1>1, HeapAssumption DEF Header
    <2> QED
      BY <2>1, HeapAssumption
  <1> HIDE DEF B, lead
  <1>10. /\ k \in HeapRec /\ k.head = e.head
         /\ \A x \in Addr \ {a} : k.chunk[x] = f.chunk[x]
         /\ HasHeader(k, a) /\ k.chunk[a].magic = "used" /\ SizeOf(k, a) = SizeOf(e, a)
    <2> DEFINE u == [f.chunk[a] EXCEPT !.magic = "used"]
    <2>1. a \notin B /\ f.chunk[a] = e.chunk[a] /\ e.chunk[a] # NoHeader
      BY <1>1, <1>4, <1>5, <1>8 DEF Keeps, HasHeader
    <2>2. f.chunk[a] \in Header
      BY <1>1, <1>8, <2>1 DEF HeapRec
    <2>3. u \in Header /\ u.magic = "used" /\ u.size = f.chunk[a].size
      BY <2>2, HeaderMagic
    <2>4. k.head = f.head /\ k.chunk = [f.chunk EXCEPT ![a] = u]
      OBVIOUS
    <2> HIDE DEF u
    <2>5. u # NoHeader
      BY <2>3, HeapAssumption
    <2>6. k \in HeapRec
      BY <1>1, <1>8, <2>3 DEF HeapRec, u
    <2> QED
      BY <1>1, <1>8, <2>1, <2>3, <2>4, <2>5, <2>6 DEF HeapRec, HasHeader, SizeOf
  <1>11. \A x \in Addr \ (B \cup {a}) : k.chunk[x] = e.chunk[x]
    BY <1>8, <1>10
  <1>12. ASSUME NEW x \in (F \cup U) \cup R
         PROVE  Beyond(k, x) = Beyond(g, x)
    <2>1. x \in Addr /\ HasHeader(g, x) => SizeOf(e, x) = SizeOf(g, x)
      BY <1>5 DEF Keeps, HasHeader
    <2>2. CASE x = a
      BY <1>1, <1>4, <1>10, <2>1, <2>2 DEF Beyond
    <2>3. CASE x # a /\ x \in F \cup R
      BY <1>4, <1>8, <1>11, <2>1, <2>3 DEF Beyond, SizeOf, HasHeader
    <2>4. CASE x # a /\ x \in U /\ x \notin F \cup R
      <3>1. x \in Addr /\ x \notin B
        BY <1>1, <1>8
      <3> QED
        BY <1>5, <1>11, <2>4, <3>1 DEF Beyond, SizeOf, Untouched
    <2> QED
      BY <2>2, <2>3, <2>4
  <1>13. ASSUME NEW x \in Addr \ (((F \cup R) \cup B) \cup {a})
         PROVE  k.chunk[x] = h.chunk[x]
    <2>1. g.chunk[x] = h.chunk[x]
      BY <1>3 DEF Cut, Untouched
    <2> QED
      BY <1>5, <1>11, <2>1 DEF Untouched
  <1>14. FreeIn(k) = (F \cup R) \ {a} /\ UsedIn(k) = U \cup {a}
    <2>1. ASSUME NEW x \in Addr
          PROVE  /\ x \in FreeIn(k) <=> x \in (F \cup R) \ {a}
                 /\ x \in UsedIn(k) <=> x \in U \cup {a}
      <3>1. CASE x = a
        BY <1>1, <1>10, <3>1 DEF FreeIn, UsedIn, HasHeader
      <3>2. CASE x \in B
        BY <1>1, <1>8, <1>9, <1>10, <3>2 DEF FreeIn, UsedIn
      <3>3. CASE x # a /\ x \in F \cup R
        <4>1. k.chunk[x] = e.chunk[x] /\ e.chunk[x] # NoHeader /\ e.chunk[x].magic = "free"
          BY <1>4, <1>5, <1>8, <1>11, <3>3 DEF Keeps, HasHeader
        <4>2. x \notin U
          BY <1>4, <3>3 DEF F, U, FreeIn, UsedIn
        <4> QED
          BY <3>3, <4>1, <4>2 DEF FreeIn, UsedIn
      <3>4. CASE x \notin ((F \cup R) \cup B) \cup {a}
        <4>1. k.chunk[x] = h.chunk[x]
          BY <1>13, <3>4
        <4> QED
          BY <3>4, <4>1 DEF FreeIn, UsedIn, F, U
      <3> QED
        BY <3>1, <3>2, <3>3, <3>4
    <2>2. FreeIn(k) \subseteq Addr /\ UsedIn(k) \subseteq Addr /\ R \subseteq Addr
      BY DEF FreeIn, UsedIn
    <2> QED
      BY <1>1, <2>1, <2>2
  <1>15. Linked(k, FreeIn(k))
    <2> DEFINE L == (F \cup R) \ {a}
    <2>1. /\ \A x \in L \cup {NoChunk} : NextOf(k, x) = NextOf(e, x)
          /\ \A x \in L : PrevOf(k, x) = PrevOf(e, x)
      <3>1. \A x \in L : x \in Addr \ (B \cup {a})
        BY <1>1, <1>8
      <3> QED
        BY <1>10, <1>11, <3>1 DEF NextOf, PrevOf
    <2> HIDE DEF L
    <2>2. Linked(k, L)
      BY <1>5, <2>1 DEF Linked, LinkedBack, L
    <2> QED
      BY <1>14, <2>2 DEF L
  <1>16. Tiled(k, FreeIn(k) \cup UsedIn(k))
    <2>1. FreeIn(k) \cup UsedIn(k) = (F \cup U) \cup R
      BY <1>1, <1>14
    <2>2. Tiled(k, (F \cup U) \cup R)
      BY <1>3, <1>12 DEF Tiled
    <2> QED
      BY <2>1, <2>2
  <1>17. ASSUME NEW x \in FreeIn(k) PROVE Beyond(k, x) \notin FreeIn(k)
    <2>1. \A y \in F : Beyond(h, y) \notin F
      BY DEF Shape, F
    <2>2. CASE x \in F
      <3>1. Beyond(k, x) = Beyond(h, x)
        BY <1>3, <1>12, <1>14, <2>2 DEF Cut
      <3>2. Beyond(h, x) \in (F \cup U) \cup {HeapEnd}
        BY <1>1, <2>2 DEF Tiled
      <3>3. Beyond(h, x) \notin R
        BY <1>4, <3>2, Addresses
      <3> QED
        BY <1>14, <2>1, <2>2, <3>1, <3>3
    <2>3. CASE x \in R
      <3>1. Beyond(k, x) = Beyond(h, a) /\ x < Beyond(h, a) /\ R \subseteq {a + size + 1}
        BY <1>3, <1>12, <2>3 DEF Cut
      <3>2. Beyond(h, a) \notin F /\ Beyond(h, a) \notin R
        BY <1>1, <1>4, <2>1, <2>3, <3>1, Addresses
      <3> QED
        BY <1>14, <3>1, <3>2
    <2> QED
      BY <1>14, <2>2, <2>3
  <1>18. Untouched(k, h, FreeIn(h) \cup a..(Beyond(h, a) - 1))
    <2>1. ((F \cup R) \cup B) \cup {a} \subseteq F \cup a..(Beyond(h, a) - 1)
      <3>1. R \subseteq a..(Beyond(h, a) - 1)
        BY <1>1, <1>3, <1>6, Addresses DEF Cut
      <3>2. B \subseteq a..(Beyond(h, a) - 1)
        BY <1>1, <1>6 DEF B
      <3> QED
        BY <1>1, <1>6, <3>1, <3>2
    <2> QED
      BY <1>13, <2>1 DEF Untouched, F
  <1>19. \A x \in U : Beyond(k, x) = Beyond(h, x)
    <2>1. \A x \in U : g.chunk[x] = h.chunk[x]
      <3>1. \A x \in U : x \in Addr \ (F \cup R)
        BY <1>1, <1>4 DEF F, U, FreeIn, UsedIn
      <3> QED
        BY <1>3, <3>1 DEF Cut, Untouched
    <2> QED
      BY <1>12, <2>1 DEF Beyond, SizeOf
  <1>20. Beyond(k, a) = Beyond(g, a)
    BY <1>1, <1>12
  <1>21. block # a + 1 => /\ HasHeader(k, block - 1) /\ k.chunk[block - 1].magic = "forAlign"
                          /\ k.chunk[block - 1].prev = a
    <2>1. \A x \in B : x \in Addr \ {a} /\ k.chunk[x] = lead
      BY <1>1, <1>8, <1>10 DEF B
    <2> QED
      BY <1>8, <1>9, <2>1 DEF HasHeader
  <1> QED
    BY <1>6, <1>10, <1>14, <1>15, <1>16, <1>17, <1>18, <1>19, <1>20, <1>21
    DEF Given, Shape, U

-----------------------------------------------------------------------------
(* Release *)

\* Before leads to the place in the list where the chunk belongs.
LEMMA BeforeFinds ==
  ASSUME NEW h, NEW F, F \subseteq Addr, Linked(h, F), NEW a \in Addr \ F,
         NEW it, it = Before(h, a),
         NEW p, p = IF it # NoChunk /\ a > it THEN it ELSE NoChunk
  PROVE  p \in F \cup {NoChunk} /\ p < a /\ (NextOf(h, p) = NoChunk \/ a < NextOf(h, p))
  <1> DEFINE link == Link(h)
             stops(n) == /\ link[n] # NoChunk
                         /\ \/ h.chunk[link[n]].next = NoChunk \/ h.chunk[link[n]].next > a
             first == {n \in 0..HeapUnits : stops(n) /\ \A m \in 0..(n - 1) : ~stops(m)}
  <1>1. /\ h.head \in F \cup {NoChunk}
        /\ \A x \in F : h.chunk[x].next \in F \cup {NoChunk}
        /\ \A x \in F : h.chunk[x].next # NoChunk => x < h.chunk[x].next
        /\ NextOf(h, NoChunk) = h.head /\ \A x \in F : NextOf(h, x) = h.chunk[x].next
    BY Addresses DEF Linked, LinkedBack, IsNext, NextOf
  <1>2. /\ IsWalk(h, F \cup {NoChunk}, HeapUnits, link) /\ HeapUnits \in Nat
        /\ F \subseteq Nat \ {0} /\ a \in Nat \ {0}
    <2>1. \A x \in (F \cup {NoChunk}) \ {NoChunk} : h.chunk[x].next \in F \cup {NoChunk}
      BY <1>1
    <2> HIDE DEF link
    <2> QED
      BY <1>1, <2>1, LinkWalks, HeapAssumption, Addresses DEF link, NoChunk
  <1>3. it = IF h.head = NoChunk THEN NoChunk ELSE link[CHOOSE n \in first : TRUE]
    BY DEF Before
  <1> HIDE DEF link
  <1>4. CASE h.head = NoChunk
    BY <1>1, <1>2, <1>3, <1>4 DEF NoChunk
  <1>5. CASE h.head # NoChunk
    <2>1. \E n \in 0..HeapUnits : stops(n)
      <3>1. SUFFICES ASSUME \A n \in 0..HeapUnits : ~stops(n) PROVE FALSE
        OBVIOUS
      <3> DEFINE T == {n \in 0..HeapUnits : ~(link[n] \in F /\ HeapStart + n <= link[n])}
      <3>2. T = {}
        <4>1. SUFFICES ASSUME T # {} PROVE FALSE
          OBVIOUS
        <4>2. T \subseteq Nat
          BY <1>2
        <4> HIDE DEF T
        <4>3. PICK n \in T : \A j \in T : n <= j
          BY <4>1, <4>2, Least
        <4>4. n \in 0..HeapUnits /\ ~(link[n] \in F /\ HeapStart + n <= link[n])
          BY <4>3 DEF T
        <4>5. n # 0
          <5>1. link[0] \in F /\ link[0] \in Addr
            BY <1>1, <1>2, <1>5 DEF IsWalk
          <5>2. \A x \in Addr : HeapStart + 0 <= x
            BY Addresses
          <5> QED
            BY <4>4, <5>1, <5>2
        <4>6. n - 1 \in 0..HeapUnits /\ n \in 1..HeapUnits /\ ~(n <= n - 1)
          BY <1>2, <4>4, <4>5
        <4>7. link[n - 1] \in F /\ HeapStart + (n - 1) <= link[n - 1]
          BY <4>3, <4>6 DEF T
        <4>8. link[n - 1] # NoChunk /\ link[n] = h.chunk[link[n - 1]].next
          BY <1>2, <4>6, <4>7 DEF IsWalk, Following, NoChunk
        <4>9. link[n] # NoChunk
          BY <3>1, <4>6, <4>8
        <4>10. link[n] \in F /\ link[n - 1] < link[n]
          BY <1>1, <4>7, <4>8, <4>9
        <4>11. ASSUME NEW u \in Nat, NEW v \in Nat, HeapStart + (n - 1) <= u, u < v
               PROVE  HeapStart + n <= v
          BY <4>6, <4>11, <1>2, HeapAssumption
        <4> QED
          BY <1>2, <4>4, <4>7, <4>10, <4>11
      <3>3. HeapUnits \in 0..HeapUnits
        BY <1>2
      <3>4. link[HeapUnits] \in Addr /\ HeapStart + HeapUnits <= link[HeapUnits]
        BY <3>2, <3>3
      <3> QED
        BY <3>4, HeapAssumption DEF Addr, HeapEnd
    <2>2. PICK n \in 0..HeapUnits : stops(n) /\ \A m \in 0..(n - 1) : ~stops(m)
      <3> HIDE DEF stops
      <3> DEFINE T == {n \in 0..HeapUnits : stops(n)}
      <3>1. T \subseteq 0..HeapUnits /\ T # {}
        BY Zenon, <2>1
      <3> HIDE DEF T
      <3>2. PICK n \in T : \A j \in T : n <= j
        <4>1. T \subseteq Nat
          BY <3>1
        <4> QED
          BY <3>1, <4>1, Least
      <3>3. n \in 0..HeapUnits /\ stops(n)
        BY Zenon DEF T
      <3>4. ASSUME NEW m \in 0..(n - 1) PROVE ~stops(m)
        <4>1. m \in 0..HeapUnits /\ ~(n <= m)
          <5>1. n \in Nat /\ n <= HeapUnits
            BY <1>2, <3>3
          <5> QED
            BY <1>2, <5>1
        <4> QED
          BY Zenon, <3>2, <4>1 DEF T
      <3> QED
        BY Zenon, <3>3, <3>4
    <2> DEFINE k == CHOOSE i \in first : TRUE
    <2>3. it = link[k]
      BY Zenon, <1>3, <1>5
    <2> HIDE DEF stops
    <2>4. k \in first
      BY Zenon, <2>2
    <2> HIDE DEF k
    <2>5. it = link[k] /\ k \in 0..HeapUnits /\ stops(k) /\ \A m \in 0..(k - 1) : ~stops(m)
      BY Zenon, <2>3, <2>4
    <2> USE DEF stops
    <2>6. it \in F /\ it # NoChunk
      BY <1>2, <2>5 DEF IsWalk
    <2>7. CASE a > it
      <3>1. p = it
        BY <2>6, <2>7
      <3> QED
        BY <1>1, <1>2, <2>5, <2>6, <2>7, <3>1
    <2>8. CASE ~(a > it)
      <3>1. p = NoChunk /\ a < it
        BY <1>2, <2>6, <2>8
      <3>2. k = 0
        <4>1. SUFFICES ASSUME k # 0 PROVE FALSE
          OBVIOUS
        <4>2. k - 1 \in 0..(k - 1) /\ k \in 1..HeapUnits /\ k - 1 \in 0..HeapUnits
          BY <1>2, <2>5, <4>1
        <4>3. ~stops(k - 1)
          BY <2>5, <4>2
        <4>4. link[k] = Following(h, link[k - 1])
          BY <1>2, <4>2 DEF IsWalk
        <4>5. link[k - 1] # NoChunk /\ link[k] = h.chunk[link[k - 1]].next
          BY <2>5, <2>6, <4>4 DEF Following
        <4> QED
          BY <2>5, <2>6, <3>1, <4>3, <4>5
      <3>3. it = h.head
        BY <1>2, <2>5, <3>2 DEF IsWalk
      <3> QED
        BY <1>1, <1>2, <3>1, <3>3 DEF NoChunk
    <2> QED
      BY <2>7, <2>8
  <1> QED
    BY <1>4, <1>5

\* PutBack inserts the chunk at its place in the list.
LEMMA PutBackLinks ==
  ASSUME NEW h \in HeapRec, NEW F, F \subseteq Addr, \A x \in F : HasHeader(h, x),
         Linked(h, F), NEW a \in Addr \ F, HasHeader(h, a), NEW g, g = PutBack(h, a)
  PROVE  g \in HeapRec /\ Keeps(g, h) /\ Untouched(g, h, F \cup {a}) /\ Linked(g, F \cup {a})
  <1> DEFINE it == Before(h, a)
             p == IF it # NoChunk /\ a > it THEN it ELSE NoChunk
             n == IF p = NoChunk THEN h.head ELSE h.chunk[p].next
             h1 == [h EXCEPT !.chunk[a].prev = p]
             h2 == [h1 EXCEPT !.chunk[a].next = n]
             h3 == SetNext(h2, p, a)
  <1>1. g = SetPrev(h3, n, a)
    BY DEF PutBack
  <1>2. p \in F \cup {NoChunk} /\ p < a /\ (NextOf(h, p) = NoChunk \/ a < NextOf(h, p))
    BY BeforeFinds
  <1>3. n = NextOf(h, p)
    BY DEF NextOf
  <1> HIDE DEF p, n
  <1>4. /\ p \in Place /\ n \in Place /\ n \in F \cup {NoChunk} /\ a \in Place /\ a # NoChunk
        /\ p # a /\ n # a
    BY <1>2, <1>3, Addresses DEF Linked, LinkedBack, IsNext, Place
  <1>5. h1 = SetPrev(h, a, p)
    BY <1>4 DEF SetPrev
  <1>6. h2 = SetNext(h1, a, n)
    BY <1>4 DEF SetNext
  <1> HIDE DEF h1, h2, h3
  <1>7. /\ h1 \in HeapRec /\ Keeps(h1, h) /\ LinksBut(h1, h, {}, {a}) /\ Untouched(h1, h, {a})
        /\ PrevOf(h1, a) = p
    BY <1>4, <1>5, SetPrevLinks
  <1>8. HasHeader(h1, a)
    BY <1>7 DEF HasHeader, Keeps
  <1>9. /\ h2 \in HeapRec /\ Keeps(h2, h1) /\ LinksBut(h2, h1, {a}, {}) /\ Untouched(h2, h1, {a})
        /\ NextOf(h2, a) = n
    BY <1>4, <1>6, <1>7, <1>8, SetNextLinks
  <1>10. p # NoChunk => HasHeader(h2, p)
    BY <1>2, <1>7, <1>9 DEF HasHeader, Keeps
  <1>11. /\ h3 \in HeapRec /\ Keeps(h3, h2) /\ LinksBut(h3, h2, {p}, {}) /\ Untouched(h3, h2, {p})
         /\ NextOf(h3, p) = a
    BY <1>4, <1>9, <1>10, SetNextLinks DEF h3
  <1>12. n # NoChunk => HasHeader(h3, n)
    BY <1>4, <1>7, <1>9, <1>11 DEF HasHeader, Keeps
  <1>13. /\ g \in HeapRec /\ Keeps(g, h3) /\ LinksBut(g, h3, {}, {n}) /\ Untouched(g, h3, {n})
         /\ n # NoChunk => PrevOf(g, n) = a
    BY <1>1, <1>4, <1>11, <1>12, SetPrevLinks
  <1>14. Keeps(g, h)
    <2>1. Keeps(h2, h)
      BY <1>7, <1>9 DEF Keeps
    <2>2. Keeps(h3, h)
      BY <1>11, <2>1 DEF Keeps
    <2> QED
      BY <1>13, <2>2 DEF Keeps
  <1>15. Untouched(g, h, F \cup {a})
    <2>1. \A x \in Addr \ (F \cup {a}) : x # p /\ x # n /\ x # a
      BY <1>2, <1>4, Addresses
    <2> QED
      BY <1>7, <1>9, <1>11, <1>13, <2>1 DEF Untouched
  <1>16. /\ NextOf(g, p) = a /\ NextOf(g, a) = n /\ PrevOf(g, a) = p
         /\ LinksBut(g, h, {p, a}, {n, a})
    <2>1. \A x \in Place \ {p, a} : NextOf(g, x) = NextOf(h, x)
      BY <1>7, <1>9, <1>11, <1>13 DEF LinksBut
    <2>2. \A x \in Addr \ {n, a} : PrevOf(g, x) = PrevOf(h, x)
      BY <1>7, <1>9, <1>11, <1>13 DEF LinksBut
    <2>3. NextOf(g, p) = a /\ NextOf(g, a) = n
      BY <1>4, <1>9, <1>11, <1>13 DEF LinksBut
    <2>4. PrevOf(g, a) = p
      BY <1>4, <1>7, <1>9, <1>11, <1>13 DEF LinksBut
    <2> QED
      BY <2>1, <2>2, <2>3, <2>4 DEF LinksBut
  <1> QED
    BY <1>2, <1>3, <1>13, <1>14, <1>15, <1>16, InsertLinked

\* Coalesce joins the chunk a with N, the one that follows in memory if it is
\* free, and nothing else.
JoinedWith(g, h, F, U, a, N) ==
  /\ N \subseteq F
  /\ N = IF a # NoChunk /\ Beyond(h, a) \in F THEN {Beyond(h, a)} ELSE {}
  /\ Linked(g, F \ N) /\ Tiled(g, (F \cup U) \ N)
  /\ \A x \in N : g.chunk[x] = NoHeader /\ Beyond(g, a) = Beyond(h, x)
  /\ \A x \in F \ N : /\ HasHeader(g, x) /\ g.chunk[x].magic = h.chunk[x].magic
                      /\ x # a => Beyond(g, x) = Beyond(h, x)
  /\ N = {} => Beyond(g, a) = Beyond(h, a)
  /\ Untouched(g, h, F)

LEMMA CoalesceJoins ==
  ASSUME NEW h \in HeapRec, NEW F, NEW U, F \cup U \subseteq Addr, F \cap U = {},
         \A x \in F : HasHeader(h, x), Linked(h, F), Tiled(h, F \cup U),
         NEW a \in F \cup {NoChunk}, NEW g, g = Coalesce(h, a)
  PROVE  /\ g \in HeapRec
         /\ \E N \in SUBSET F : JoinedWith(g, h, F, U, a, N)
  <1> DEFINE n == NextOf(h, a)
  <1>1. a # NoChunk => /\ a \in Addr /\ a \in Nat /\ h.chunk[a] \in Header /\ HasHeader(h, a)
                       /\ n = h.chunk[a].next
                       /\ Beyond(h, a) = a + h.chunk[a].size + 1 /\ a < Beyond(h, a)
                       /\ Beyond(h, a) \in Nat
    BY Addresses DEF HasHeader, HeapRec, NextOf, Beyond, SizeOf, Tiled
  <1>2. IsNext(F, a, n)
    BY DEF Linked, LinkedBack
  <1>3. a # NoChunk => (n = Beyond(h, a) <=> Beyond(h, a) \in F)
    <2>1. SUFFICES ASSUME a # NoChunk PROVE n = Beyond(h, a) <=> Beyond(h, a) \in F
      OBVIOUS
    <2>2. \A x \in F : a < x => Beyond(h, a) <= x
      BY <2>1 DEF Tiled
    <2>3. n \in F \cup {NoChunk} /\ (n # NoChunk => a < n)
          /\ \A b \in F : a < b => n # NoChunk /\ n <= b
      BY <1>2 DEF IsNext
    <2>4. Beyond(h, a) # NoChunk
      BY <1>1, <2>1 DEF NoChunk
    <2>5. F \subseteq Nat
      BY Addresses
    <2> HIDE DEF n
    <2>6. ASSUME Beyond(h, a) \in F PROVE n = Beyond(h, a)
      <3>1. n \in F /\ n <= Beyond(h, a) /\ Beyond(h, a) <= n
        BY <1>1, <2>1, <2>2, <2>3, <2>6
      <3> QED
        BY <1>1, <2>1, <2>5, <3>1
    <2> QED
      BY <2>3, <2>4, <2>6
  <1> HIDE DEF n
  <1>4. CASE a = NoChunk \/ n # Beyond(h, a)
    <2>1. g = h
      BY <1>1, <1>4 DEF Coalesce
    <2>2. ~(a # NoChunk /\ Beyond(h, a) \in F)
      BY <1>3, <1>4
    <2>3. F \ {} = F /\ (F \cup U) \ {} = F \cup U
      OBVIOUS
    <2>4. JoinedWith(h, h, F, U, a, {})
      BY <2>2, <2>3 DEF JoinedWith, Untouched
    <2> QED
      BY <2>1, <2>4
  <1>5. CASE a # NoChunk /\ n = Beyond(h, a)
    <2> DEFINE m == NextOf(h, n)
               h1 == [h EXCEPT !.chunk[a].next = m]
               h2 == [h1 EXCEPT !.chunk[a].size = @ + h.chunk[n].size + 1]
               h3 == [h2 EXCEPT !.chunk[n] = NoHeader]
               size == h.chunk[a].size + h.chunk[n].size + 1
    <2>1. /\ n \in F /\ n \in Addr /\ n \in Nat /\ n # NoChunk /\ a # n /\ a < n
          /\ h.chunk[n] \in Header /\ HasHeader(h, n) /\ m = h.chunk[n].next
          /\ Beyond(h, n) = n + h.chunk[n].size + 1 /\ a \in F /\ a \in Addr
      <3>1. n \in F /\ a \in F /\ a # n /\ a < n
        BY <1>1, <1>3, <1>5
      <3>2. n \in Addr /\ a \in Addr /\ n \in Nat /\ n # NoChunk
        BY <1>1, <3>1, Addresses
      <3>3. h.chunk[n] \in Header /\ HasHeader(h, n)
        BY <1>1, <3>1, <3>2 DEF HasHeader, HeapRec
      <3> QED
        BY <3>1, <3>2, <3>3 DEF NextOf, Beyond, SizeOf
    <2>2. g = SetPrev(h3, m, a)
      <3>1. a # NoChunk /\ h.chunk[a].next = n /\ n = a + h.chunk[a].size + 1
        BY <1>1, <1>5
      <3>2. g = SetPrev([h EXCEPT !.chunk[a].next = h.chunk[n].next,
                                  !.chunk[a].size = @ + h.chunk[n].size + 1,
                                  !.chunk[n] = NoHeader], h.chunk[n].next, a)
        BY Zenon, <3>1 DEF Coalesce
      <3>3. m = h.chunk[n].next
        BY <2>1
      <3> QED
        BY <3>2, <3>3
    <2>3. IsNext(F, n, m) /\ PrevOf(h, n) = a
      <3>1. IsPrev(F, n, PrevOf(h, n)) /\ IsNext(F, n, m)
        BY <2>1 DEF Linked, LinkedBack
      <3>2. F \subseteq Nat \ {0}
        BY Addresses DEF NoChunk
      <3>3. ASSUME NEW q, IsPrev(F, n, q) PROVE q = a
        BY <1>2, <2>1, <3>2, <3>3, NextPrev DEF NoChunk
      <3> QED
        BY <3>1, <3>3
    <2>4. /\ m \in F \cup {NoChunk} /\ (m # NoChunk => n < m) /\ m \in Place /\ a \in Place
          /\ m # n /\ m # a
      <3>1. m \in F \cup {NoChunk} /\ (m # NoChunk => n < m)
        BY <2>3 DEF IsNext
      <3> QED
        BY <1>1, <2>1, <3>1, Addresses DEF Place
    <2>5. size \in 0..HeapUnits /\ a + size + 1 = Beyond(h, n)
      <3>1. h.chunk[a].size \in Nat /\ h.chunk[n].size \in Nat
        BY <1>1, <1>5, <2>1 DEF Header
      <3>2. Beyond(h, n) = a + size + 1
        BY <1>1, <1>5, <2>1, <3>1
      <3>3. Beyond(h, n) <= HeapEnd
        <4>1. Beyond(h, n) \in (F \cup U) \cup {HeapEnd}
          BY <2>1 DEF Tiled
        <4> QED
          BY <4>1, AtMostEnd
      <3>4. HeapStart <= a
        BY <2>1, Addresses
      <3> QED
        BY <1>1, <1>5, <3>1, <3>2, <3>3, <3>4, HeapAssumption DEF HeapEnd
    <2> HIDE DEF m
    <2>6. /\ h1 \in HeapRec /\ Keeps(h1, h) /\ LinksBut(h1, h, {a}, {}) /\ Untouched(h1, h, {a})
          /\ NextOf(h1, a) = m
      <3>1. h1 = SetNext(h, a, m)
        BY <1>5 DEF SetNext
      <3> HIDE DEF h1
      <3> QED
        BY <1>1, <1>5, <2>4, <3>1, SetNextLinks
    <2> HIDE DEF h1
    <2>7. h1.chunk[a] \in Header /\ h1.chunk[a].size = h.chunk[a].size
          /\ h1.chunk[a].magic = h.chunk[a].magic /\ h1.chunk[a] # NoHeader
      BY <1>1, <1>5, <2>1, <2>6 DEF Keeps, HeapRec, HasHeader, SizeOf
    <2> DEFINE c == [h1.chunk[a] EXCEPT !.size = size]
    <2>8. h2 = [h1 EXCEPT !.chunk = [h1.chunk EXCEPT ![a] = c]]
      BY <2>7
    <2> HIDE DEF size, h2
    <2>9. /\ c \in Header /\ c.next = h1.chunk[a].next /\ c.prev = h1.chunk[a].prev
          /\ c.size = size /\ c.magic = h1.chunk[a].magic /\ c # NoHeader
      <3>1. c \in Header /\ c.next = h1.chunk[a].next /\ c.prev = h1.chunk[a].prev
            /\ c.size = size /\ c.magic = h1.chunk[a].magic
        BY <2>5, <2>7, HeaderSize
      <3> QED
        BY <3>1, HeapAssumption
    <2> HIDE DEF c
    <2>10. /\ h2 \in HeapRec /\ h2.head = h1.head
           /\ h2.chunk[a] = c /\ \A x \in Addr \ {a} : h2.chunk[x] = h1.chunk[x]
      BY <2>1, <2>6, <2>8, <2>9 DEF HeapRec
    <2>11. /\ h3 \in HeapRec /\ h3.head = h1.head /\ h3.chunk[n] = NoHeader
           /\ h3.chunk[a] = c /\ \A x \in Addr \ {a, n} : h3.chunk[x] = h1.chunk[x]
      <3>1. h3 = [h2 EXCEPT !.chunk = [h2.chunk EXCEPT ![n] = NoHeader]]
        OBVIOUS
      <3> HIDE DEF h3
      <3>2. /\ h3 \in HeapRec /\ h3.head = h2.head /\ h3.chunk[n] = NoHeader
            /\ \A x \in Addr \ {n} : h3.chunk[x] = h2.chunk[x]
        BY <2>1, <2>10, <3>1 DEF HeapRec
      <3> QED
        BY <2>1, <2>10, <3>2
    <2> HIDE DEF h3
    <2>12. /\ NextOf(h3, a) = m /\ PrevOf(h3, a) = PrevOf(h, a)
           /\ \A x \in Place \ {a, n} : NextOf(h3, x) = NextOf(h, x)
           /\ \A x \in Addr \ {a, n} : PrevOf(h3, x) = PrevOf(h, x)
      <3>1. /\ NextOf(h3, a) = NextOf(h1, a) /\ PrevOf(h3, a) = PrevOf(h1, a)
            /\ \A x \in Place \ {a, n} : NextOf(h3, x) = NextOf(h1, x)
            /\ \A x \in Addr \ {a, n} : PrevOf(h3, x) = PrevOf(h1, x)
        BY <1>5, <2>9, <2>11 DEF NextOf, PrevOf, Place
      <3> QED
        BY <2>1, <2>6, <3>1 DEF LinksBut
    <2>13. m # NoChunk => HasHeader(h3, m) /\ h3.chunk[m] = h1.chunk[m]
      BY <2>4, <2>6, <2>11 DEF HasHeader, Keeps
    <2>14. /\ g \in HeapRec /\ Keeps(g, h3) /\ LinksBut(g, h3, {}, {m}) /\ Untouched(g, h3, {m})
           /\ m # NoChunk => PrevOf(g, m) = a
      BY <2>2, <2>4, <2>11, <2>13, SetPrevLinks
    <2>15. Linked(g, F \ {n})
      <3>1. NextOf(g, a) = m /\ (m # NoChunk => PrevOf(g, m) = a)
        BY <2>4, <2>12, <2>14 DEF LinksBut
      <3>2. LinksBut(g, h, {a, n}, {m, n})
        BY <2>1, <2>4, <2>12, <2>14 DEF LinksBut
      <3> QED
        BY <2>1, <2>3, <3>1, <3>2, RemoveLinked DEF Linked, LinkedBack, m
    <2>16. /\ g.chunk[n] = NoHeader /\ HasHeader(g, a) /\ g.chunk[a].magic = h.chunk[a].magic
           /\ Beyond(g, a) = Beyond(h, n)
      <3>1. HasHeader(h3, a) /\ h3.chunk[a].magic = h.chunk[a].magic /\ SizeOf(h3, a) = size
        BY <2>1, <2>7, <2>9, <2>11 DEF HasHeader, SizeOf
      <3> QED
        BY <2>1, <2>5, <2>11, <2>14, <3>1 DEF Keeps, HasHeader, Beyond, SizeOf
    <2>17. ASSUME NEW x \in Addr \ {a, n}
           PROVE  /\ HasHeader(h, x) => HasHeader(g, x) /\ g.chunk[x].magic = h.chunk[x].magic
                                        /\ Beyond(g, x) = Beyond(h, x)
      BY <2>6, <2>11, <2>14 DEF Keeps, HasHeader, Beyond, SizeOf
    <2>18. Untouched(g, h, F)
      <3>1. \A x \in Addr \ F : x # a /\ x # n /\ x # m
        BY <2>1, <2>4, Addresses
      <3> QED
        BY <3>1, <2>6, <2>11, <2>14 DEF Untouched
    <2>19. \A x \in (F \cup U) \ {a, n} : Beyond(g, x) = Beyond(h, x)
      <3>1. ASSUME NEW x \in U PROVE Beyond(g, x) = Beyond(h, x)
        BY <2>18 DEF Untouched, Beyond, SizeOf
      <3> QED
        BY <2>17, <3>1
    <2>20. Tiled(g, (F \cup U) \ {n})
      <3> DEFINE C == F \cup U
      <3>1. C \subseteq Addr /\ a \in C /\ n \in C /\ n = Beyond(h, a) /\ Tiled(h, C)
        BY <1>5, <2>1
      <3> HIDE DEF C
      <3>2. Tiled(g, C \ {n})
        BY <2>16, <2>19, <3>1, JoinTiled DEF C
      <3> QED
        BY <3>2 DEF C
    <2>21. JoinedWith(g, h, F, U, a, {n})
      BY <1>3, <1>5, <2>1, <2>15, <2>16, <2>17, <2>18, <2>20 DEF JoinedWith
    <2> QED
      BY <2>1, <2>14, <2>21
  <1> QED
    BY <1>4, <1>5

\* The used chunk a of h is given back; the headers outside of it do not change,
\* but for the links and sizes of free chunks.
Taken(k, h, a) ==
  /\ Shape(k)
  /\ UsedIn(k) = UsedIn(h) \ {a}
  /\ \A x \in UsedIn(k) : Beyond(k, x) = Beyond(h, x)
  /\ Untouched(k, h, FreeIn(h) \cup a..(Beyond(h, a) - 1))

LEMMA FreeTakes ==
  ASSUME NEW h0, Shape(h0), NEW a \in UsedIn(h0), NEW y \in a..(Beyond(h0, a) - 1),
         y # a => HasHeader(h0, y) /\ h0.chunk[y].magic = "forAlign",
         NEW h, h = [head |-> h0.head,
                     chunk |-> [b \in Addr |->
                        IF b = a THEN [h0.chunk[a] EXCEPT !.magic = "free"]
                        ELSE IF b = y THEN NoHeader ELSE h0.chunk[b]]],
         NEW k, k = Merge(PutBack(h, a), a)
  PROVE  Taken(k, h0, a)
  <1> DEFINE F == FreeIn(h0)
             U == UsedIn(h0)
             F1 == F \cup {a}
             U1 == U \ {a}
             h1 == PutBack(h, a)
             h2 == Coalesce(h1, a)
             p == PrevOf(h2, a)
  <1>1. /\ h0 \in HeapRec /\ F \subseteq Addr /\ U \subseteq Addr /\ a \in U /\ a \in Addr
        /\ Linked(h0, F) /\ Tiled(h0, F \cup U) /\ F \cap U = {}
        /\ \A x \in F : HasHeader(h0, x) /\ h0.chunk[x].magic = "free"
        /\ \A x \in U : HasHeader(h0, x) /\ h0.chunk[x].magic = "used"
        /\ \A x \in F : Beyond(h0, x) \notin F
    BY DEF Shape, FreeIn, UsedIn, HasHeader
  <1>2. /\ a \in Nat /\ Beyond(h0, a) \in Nat /\ a < Beyond(h0, a) /\ a # NoChunk
        /\ Beyond(h0, a) \in (F \cup U) \cup {HeapEnd}
    <2>1. Beyond(h0, a) \in (F \cup U) \cup {HeapEnd} /\ a < Beyond(h0, a)
      BY <1>1 DEF Tiled
    <2> QED
      BY <1>1, <2>1, Addresses
  <1>3. k = Coalesce(h2, p)
    BY DEF Merge, PrevOf
  <1> HIDE DEF F, U, h1, h2, p
  <1>4. /\ h \in HeapRec /\ HasHeader(h, a) /\ h.chunk[a].magic = "free"
        /\ SizeOf(h, a) = SizeOf(h0, a) /\ Beyond(h, a) = Beyond(h0, a)
        /\ h.head = h0.head /\ \A x \in Addr \ {a, y} : h.chunk[x] = h0.chunk[x]
        /\ y # a => h.chunk[y] = NoHeader
    <2> DEFINE c == [h0.chunk[a] EXCEPT !.magic = "free"]
    <2>1. h0.chunk[a] \in Header
      BY <1>1 DEF HeapRec, HasHeader
    <2>2. c \in Header /\ c.magic = "free" /\ c.size = h0.chunk[a].size
      BY <2>1, HeaderMagic
    <2>3. /\ h.head = h0.head
          /\ h.chunk = [b \in Addr |-> IF b = a THEN c ELSE IF b = y THEN NoHeader ELSE h0.chunk[b]]
          /\ h = [head |-> h.head, chunk |-> h.chunk]
      OBVIOUS
    <2>4. y \in Addr
      <3>1. y # a => y \in Addr
        BY DEF HasHeader
      <3> QED
        BY <1>1, <3>1
    <2> HIDE DEF c
    <2>5. /\ h.chunk[a] = c /\ \A x \in Addr \ {a, y} : h.chunk[x] = h0.chunk[x]
          /\ y # a => h.chunk[y] = NoHeader
      BY <1>1, <2>3, <2>4
    <2>6. h \in HeapRec
      <3>1. h.head \in Place /\ h.chunk \in [Addr -> Header \cup {NoHeader}]
        BY <1>1, <2>2, <2>3 DEF HeapRec
      <3> QED
        BY <2>3, <3>1 DEF HeapRec
    <2> QED
      BY <1>1, <2>2, <2>3, <2>5, <2>6, HeapAssumption DEF HasHeader, Beyond, SizeOf
  <1>5. ASSUME NEW x \in F \cup U1
        PROVE  x \in Addr \ {a, y} /\ h.chunk[x] = h0.chunk[x]
    <2>1. x \in Addr /\ x # a /\ x # y
      BY <1>1
    <2> QED
      BY <1>4, <2>1
  <1>6. Linked(h, F) /\ (\A x \in F : HasHeader(h, x))
    <2>1. /\ \A x \in F \cup {NoChunk} : NextOf(h, x) = NextOf(h0, x)
          /\ \A x \in F : PrevOf(h, x) = PrevOf(h0, x)
      BY <1>4, <1>5 DEF NextOf, PrevOf
    <2> QED
      BY <1>1, <1>5, <2>1 DEF Linked, LinkedBack, HasHeader
  <1>7. h1 \in HeapRec /\ Keeps(h1, h) /\ Untouched(h1, h, F1) /\ Linked(h1, F1)
    <2>1. a \in Addr \ F
      BY <1>1
    <2> QED
      BY <1>1, <1>4, <1>6, <2>1, PutBackLinks DEF h1
  <1>8. /\ \A x \in F1 : HasHeader(h1, x) /\ h1.chunk[x].magic = "free"
        /\ \A x \in F1 \cup U1 : Beyond(h1, x) = Beyond(h0, x)
        /\ \A x \in U1 : h1.chunk[x] = h0.chunk[x]
    <2>1. \A x \in U1 : h1.chunk[x] = h0.chunk[x]
      <3>1. \A x \in U1 : x \in Addr \ F1
        BY <1>1
      <3> QED
        BY <1>5, <1>7, <3>1 DEF Untouched
    <2>2. ASSUME NEW x \in F1
          PROVE  /\ HasHeader(h1, x) /\ h1.chunk[x].magic = "free"
                 /\ Beyond(h1, x) = Beyond(h0, x)
      <3>1. HasHeader(h, x) /\ h.chunk[x].magic = "free" /\ SizeOf(h, x) = SizeOf(h0, x)
        <4>1. CASE x = a
          BY <1>4, <4>1
        <4>2. CASE x \in F
          BY <1>1, <1>5, <4>2 DEF HasHeader, SizeOf
        <4> QED
          BY <4>1, <4>2
      <3> QED
        BY <1>7, <3>1 DEF Keeps, HasHeader, Beyond
    <2> QED
      BY <2>1, <2>2 DEF Beyond, SizeOf
  <1>9. Tiled(h1, F1 \cup U1)
    <2>1. F1 \cup U1 = F \cup U
      BY <1>1
    <2> QED
      BY <1>1, <1>8, <2>1 DEF Tiled
  <1>10. F1 \cup U1 \subseteq Addr /\ F1 \cap U1 = {} /\ a \in F1 \cup {NoChunk}
    BY <1>1
  <1> HIDE DEF F1, U1
  <1>11. h2 \in HeapRec
    BY <1>7, <1>8, <1>9, <1>10, CoalesceJoins DEF h2
  <1>12. PICK N \in SUBSET F1 : JoinedWith(h2, h1, F1, U1, a, N)
    BY <1>7, <1>8, <1>9, <1>10, CoalesceJoins DEF h2
  <1> DEFINE F2 == F1 \ N
  <1>13. a \in F2 /\ (\A x \in N : x = Beyond(h0, a) /\ x \in F)
    <2>1. \A x \in N : x = Beyond(h1, a) /\ x \in F1
      BY <1>12 DEF JoinedWith
    <2> QED
      BY <1>2, <1>8, <2>1 DEF F1
  <1>14. F2 \cup U1 \subseteq Addr /\ F2 \cap U1 = {}
    BY <1>10
  <1>15. /\ Linked(h2, F2) /\ Tiled(h2, F2 \cup U1) /\ Untouched(h2, h1, F1)
         /\ \A x \in F2 : HasHeader(h2, x) /\ h2.chunk[x].magic = "free"
         /\ \A x \in F2 \ {a} : Beyond(h2, x) = Beyond(h0, x)
         /\ \A x \in N : h2.chunk[x] = NoHeader
    <2>1. (F1 \cup U1) \ N = F2 \cup U1
      BY <1>10
    <2> QED
      BY <1>8, <1>12, <2>1 DEF JoinedWith
  <1>16. Beyond(h2, a) \notin F2
    <2>1. CASE N = {}
      <3>1. Beyond(h2, a) = Beyond(h1, a) /\ Beyond(h1, a) \notin F1
        BY <1>2, <1>12, <2>1 DEF JoinedWith
      <3> QED
        BY <3>1
    <2>2. CASE N # {}
      <3>1. PICK x \in N : Beyond(h2, a) = Beyond(h1, x)
        BY <1>12, <2>2 DEF JoinedWith
      <3>2. x \in F /\ Beyond(h2, a) = Beyond(h0, x) /\ Beyond(h0, x) \notin F
        BY <1>1, <1>8, <1>13, <3>1 DEF F1
      <3>3. a < x /\ x < Beyond(h0, x)
        BY <1>1, <1>2, <1>13, <3>2 DEF Tiled
      <3>4. Beyond(h0, x) # a
        BY <1>1, <1>2, <3>2, <3>3, Addresses
      <3> QED
        BY <3>2, <3>4 DEF F1
    <2> QED
      BY <2>1, <2>2
  <1> HIDE DEF F2
  <1>17. IsPrev(F2, a, p) /\ p \in F2 \cup {NoChunk}
    <2>1. IsPrev(F2, a, p)
      BY <1>13, <1>15 DEF Linked, LinkedBack, p
    <2> QED
      BY <2>1 DEF IsPrev
  <1>18. k \in HeapRec
    BY <1>3, <1>11, <1>14, <1>15, <1>17, CoalesceJoins
  <1>19. PICK M \in SUBSET F2 : JoinedWith(k, h2, F2, U1, p, M)
    BY <1>3, <1>11, <1>14, <1>15, <1>17, CoalesceJoins
  <1> DEFINE F3 == F2 \ M
  <1>20. /\ Linked(k, F3) /\ Tiled(k, F3 \cup U1) /\ Untouched(k, h2, F2)
         /\ \A x \in F3 : HasHeader(k, x) /\ k.chunk[x].magic = "free"
         /\ \A x \in F3 \ {p} : Beyond(k, x) = Beyond(h2, x)
         /\ \A x \in M : k.chunk[x] = NoHeader
    <2>1. (F2 \cup U1) \ M = F3 \cup U1
      BY <1>14
    <2> QED
      BY <1>15, <1>19, <2>1 DEF JoinedWith
  <1>21. ASSUME NEW x \in Addr \ F1
         PROVE  k.chunk[x] = h.chunk[x]
    <2>1. x \notin F2
      BY DEF F2
    <2> QED
      BY <1>7, <1>15, <1>20, <2>1 DEF Untouched
  <1>22. FreeIn(k) = F3 /\ UsedIn(k) = U1
    <2>1. ASSUME NEW x \in Addr
          PROVE  (x \in FreeIn(k) <=> x \in F3) /\ (x \in UsedIn(k) <=> x \in U1)
      <3>1. CASE x \in F3
        BY <1>14, <1>20, <3>1 DEF FreeIn, UsedIn, HasHeader
      <3>2. CASE x \in M
        BY <1>14, <1>20, <3>2 DEF FreeIn, UsedIn
      <3>3. CASE x \in N
        <4>1. x \notin F2 /\ x \in F1
          BY <1>12, <3>3 DEF F2
        <4>2. k.chunk[x] = NoHeader
          BY <1>15, <1>20, <3>3, <4>1 DEF Untouched
        <4> QED
          BY <1>10, <4>1, <4>2 DEF FreeIn, UsedIn
      <3>4. CASE x \notin F1
        <4>1. k.chunk[x] = h.chunk[x]
          BY <1>21, <3>4
        <4>2. CASE x = y
          BY <1>4, <1>5, <3>4, <4>1, <4>2 DEF FreeIn, UsedIn, F1, F2
        <4>3. CASE x # y
          <5>1. k.chunk[x] = h0.chunk[x] /\ x # a
            BY <1>4, <3>4, <4>1, <4>3 DEF F1
          <5> QED
            BY <3>4, <5>1 DEF FreeIn, UsedIn, F, U, F1, F2, U1
        <4> QED
          BY <4>2, <4>3
      <3> QED
        BY <3>1, <3>2, <3>3, <3>4 DEF F2
    <2>2. FreeIn(k) \subseteq Addr /\ UsedIn(k) \subseteq Addr
      BY DEF FreeIn, UsedIn
    <2> QED
      BY <1>14, <2>1, <2>2
  <1>23. ASSUME NEW x \in F3 PROVE Beyond(k, x) \notin F3
    <2>1. x \in F2 /\ (x # p => Beyond(k, x) = Beyond(h2, x))
      BY <1>20
    <2>2. x # a => Beyond(h2, x) = Beyond(h0, x) /\ x \in F /\ Beyond(h0, x) \notin F
      BY <1>1, <1>15, <2>1 DEF F2, F1
    <2>3. M = IF p # NoChunk /\ Beyond(h2, p) \in F2 THEN {Beyond(h2, p)} ELSE {}
      BY <1>19 DEF JoinedWith
    <2>4. p # a
      BY <1>2, <1>17 DEF IsPrev
    <2>5. CASE x = p
      <3>1. x # NoChunk
        BY <1>14, <2>1, Addresses
      <3>2. CASE M = {}
        <4>1. Beyond(k, x) = Beyond(h2, x) /\ Beyond(h2, x) \notin F2
          BY <1>19, <2>3, <2>5, <3>1, <3>2 DEF JoinedWith
        <4> QED
          BY <4>1
      <3>3. CASE M # {}
        <4>1. Beyond(h2, p) \in F2 /\ M = {Beyond(h2, p)}
          BY <2>3, <3>3
        <4>2. Beyond(h2, p) = a
          BY <2>2, <2>4, <2>5, <4>1 DEF F2, F1
        <4>3. Beyond(k, x) = Beyond(h2, a)
          BY <1>19, <2>5, <4>1, <4>2 DEF JoinedWith
        <4> QED
          BY <1>16, <4>3
      <3> QED
        BY <3>2, <3>3
    <2>6. CASE x = a
      BY <1>16, <2>1, <2>4, <2>6
    <2>7. CASE x # a /\ x # p
      <3>1. SUFFICES ASSUME Beyond(k, x) \in F3 PROVE FALSE
        OBVIOUS
      <3>2. Beyond(k, x) = Beyond(h2, x) /\ Beyond(h2, x) = a
        BY <2>1, <2>2, <2>7, <3>1 DEF F2, F1
      <3>3. x < a
        BY <1>15, <2>1, <3>2 DEF Tiled
      <3>4. x <= p /\ p < a
        BY <1>17, <2>1, <3>3 DEF IsPrev
      <3>5. p \in F2 /\ x < p
        BY <1>14, <1>17, <2>1, <2>7, <3>4, Addresses DEF NoChunk
      <3>6. a <= p
        BY <1>15, <2>1, <3>2, <3>5 DEF Tiled
      <3> QED
        BY <1>2, <1>14, <3>4, <3>5, <3>6, Addresses
    <2> QED
      BY <2>5, <2>6, <2>7
  <1>24. \A x \in U1 : Beyond(k, x) = Beyond(h0, x)
    <2>1. \A x \in U1 : x \in Addr \ F1
      BY <1>10
    <2> QED
      BY <1>5, <1>21, <2>1 DEF Beyond, SizeOf
  <1>25. Untouched(k, h0, FreeIn(h0) \cup a..(Beyond(h0, a) - 1))
    <2>1. ASSUME NEW x \in Addr \ (F \cup a..(Beyond(h0, a) - 1))
          PROVE  x \in Addr \ F1 /\ x \notin {a, y}
      BY <1>1, <1>2 DEF F1
    <2> QED
      BY <1>4, <1>21, <2>1 DEF Untouched, F
  <1> HIDE DEF F3
  <1> QED
    BY <1>18, <1>20, <1>22, <1>23, <1>24, <1>25 DEF Taken, Shape, U1, U

-----------------------------------------------------------------------------
(* The invariant *)

\* A heap of the shape is an intact one.
LEMMA ShapeIsIntact == Shape(Heap) => HeapIntact
  <1> SUFFICES ASSUME Shape(Heap) PROVE HeapIntact
    OBVIOUS
  <1> DEFINE F == FreeIn(Heap)
             U == UsedIn(Heap)
  <1>1. /\ F = Of("free") /\ U = Of("used") /\ F \cup U = Chunks
        /\ \A a \in Addr : After(a) = Beyond(Heap, a)
        /\ F \subseteq Addr /\ U \subseteq Addr
    BY DEF FreeIn, UsedIn, Of, Chunks, After, Beyond, SizeOf, Heap
  <1>2. /\ Linked(Heap, F) /\ Tiled(Heap, F \cup U)
        /\ \A a \in F : Beyond(Heap, a) \notin F
    BY DEF Shape
  <1>3. /\ IsNext(F, NoChunk, head)
        /\ \A a \in F : IsNext(F, a, chunk[a].next) /\ IsPrev(F, a, chunk[a].prev)
    <2>1. NextOf(Heap, NoChunk) = head
      BY DEF NextOf, Heap
    <2>2. \A a \in F : NextOf(Heap, a) = chunk[a].next /\ PrevOf(Heap, a) = chunk[a].prev
      BY <1>1, Addresses DEF NextOf, PrevOf, Heap
    <2> QED
      BY <1>2, <2>1, <2>2 DEF Linked, LinkedBack
  <1>4. F \subseteq Nat \ {0}
    BY <1>1, Addresses DEF NoChunk
  <1> HIDE DEF F, U
  <1>5. ChunksTile
    <2>1. \A a \in F \cup U : After(a) = Beyond(Heap, a)
      BY <1>1
    <2>2. /\ HeapStart \in F \cup U
          /\ \A a \in F \cup U : After(a) \in (F \cup U) \cup {HeapEnd}
          /\ \A a, b \in F \cup U : a < b => After(a) <= b
      BY <1>2, <2>1 DEF Tiled
    <2> QED
      BY <1>1, <2>2 DEF ChunksTile
  <1>6. /\ head = NoChunk <=> F = {}
        /\ head # NoChunk => head \in F /\ chunk[head].prev = NoChunk
        /\ \A a \in F : head <= a
    <2>1. /\ head \in F \cup {0} /\ \A b \in F : head # 0 /\ head <= b
      BY <1>3, <1>4 DEF IsNext, NoChunk
    <2>2. ASSUME head # 0 PROVE chunk[head].prev = 0
      <3>1. head \in F /\ IsPrev(F, head, chunk[head].prev)
        BY <1>3, <2>1, <2>2
      <3>2. ASSUME NEW q, IsPrev(F, head, q) PROVE q = 0
        BY <1>4, <2>1, <3>1, <3>2 DEF IsPrev, NoChunk
      <3> QED
        BY <3>1, <3>2
    <2> QED
      BY <1>4, <2>1, <2>2 DEF NoChunk
  <1>7. ASSUME NEW a \in F, NEW next, next = {b \in F : b > a}
        PROVE  IF next = {} THEN chunk[a].next = NoChunk
               ELSE /\ chunk[a].next \in next /\ \A b \in next : chunk[a].next <= b
                    /\ chunk[chunk[a].next].prev = a
    <2> DEFINE n == chunk[a].next
    <2>1. IsNext(F, a, n)
      BY <1>3
    <2> HIDE DEF n
    <2>2. n \in F => IsPrev(F, n, chunk[n].prev)
      BY <1>3
    <2>3. CASE n = NoChunk
      <3>1. next = {}
        BY <1>4, <1>7, <2>1, <2>3 DEF IsNext, NoChunk
      <3> QED
        BY <2>3, <3>1 DEF n
    <2>4. CASE n # NoChunk
      <3>1. n \in F /\ n > a /\ \A b \in next : n <= b
        BY <1>4, <1>7, <2>1, <2>4 DEF IsNext, NoChunk
      <3>2. n \in next
        BY <1>7, <3>1
      <3>3. ASSUME NEW q, IsPrev(F, n, q) PROVE q = a
        BY <1>4, <2>1, <3>1, <3>3, NextPrev
      <3>4. chunk[n].prev = a
        BY <2>2, <3>1, <3>3
      <3> QED
        BY <3>1, <3>2, <3>4 DEF n
    <2> QED
      BY <2>3, <2>4
  <1>8. ListExact
    <2>1. \A a \in F : LET next == {b \in F : b > a} IN
             IF next = {} THEN chunk[a].next = NoChunk
             ELSE /\ chunk[a].next \in next /\ \A b \in next : chunk[a].next <= b
                  /\ chunk[chunk[a].next].prev = a
      BY <1>7
    <2> QED
      BY <1>1, <1>6, <2>1 DEF ListExact
  <1>9. Coalesced
    BY <1>1, <1>2 DEF Coalesced
  <1> QED
    BY <1>5, <1>8, <1>9 DEF HeapIntact

\* A new heap is one free chunk.
LEMMA NewHeapShaped == CreateHeap => HeapTypeOK /\ Shape(Heap) /\ BlocksApart
  <1> SUFFICES ASSUME CreateHeap PROVE HeapTypeOK /\ Shape(Heap) /\ BlocksApart
    OBVIOUS
  <1> DEFINE c == [magic |-> "free", size |-> HeapUnits - 1, prev |-> NoChunk, next |-> NoChunk]
  <1>1. c \in Header /\ c.magic = "free" /\ c.size = HeapUnits - 1 /\ c.prev = NoChunk /\ c.next = NoChunk
    BY HeapAssumption DEF Header
  <1>2. head = HeapStart /\ chunk = [a \in Addr |-> IF a = HeapStart THEN c ELSE NoHeader] /\ given = {}
    BY DEF CreateHeap
  <1> HIDE DEF c
  <1>3. Heap \in HeapRec /\ Heap.head = HeapStart /\ Heap.chunk[HeapStart] = c
    BY <1>1, <1>2, Addresses DEF HeapRec, Heap, Place
  <1>4. FreeIn(Heap) = {HeapStart} /\ UsedIn(Heap) = {}
    BY <1>1, <1>2, Addresses, HeapAssumption DEF FreeIn, UsedIn, Heap
  <1>5. Linked(Heap, {HeapStart})
    <2>1. /\ NextOf(Heap, NoChunk) = HeapStart /\ NextOf(Heap, HeapStart) = NoChunk
          /\ PrevOf(Heap, HeapStart) = NoChunk
      BY <1>1, <1>3, Addresses DEF NextOf, PrevOf
    <2> QED
      BY <2>1, HeapAssumption DEF Linked, LinkedBack, IsNext, IsPrev, NoChunk
  <1>6. Beyond(Heap, HeapStart) = HeapEnd /\ HeapStart < HeapEnd
    BY <1>1, <1>3, HeapAssumption DEF Beyond, SizeOf, HeapEnd
  <1>7. Tiled(Heap, {HeapStart})
    BY <1>6, Addresses DEF Tiled
  <1>8. HeapEnd # HeapStart
    BY <1>6, Addresses
  <1>9. Shape(Heap)
    BY <1>3, <1>4, <1>5, <1>6, <1>7, <1>8 DEF Shape
  <1>10. HeapTypeOK
    BY <1>1, <1>2, <1>3 DEF HeapTypeOK, HeapRec, Heap, Place
  <1> QED
    BY <1>2, <1>9, <1>10 DEF BlocksApart

-----------------------------------------------------------------------------
(* The blocks *)

\* The block g lies in the used chunk a, and leads back to it.
LiesIn(h, g, a) ==
  /\ a \in UsedIn(h) /\ a < g.block /\ g.block + g.size <= Beyond(h, a)
  /\ g.block # a + 1 => /\ HasHeader(h, g.block - 1)
                        /\ h.chunk[g.block - 1].magic = "forAlign"
                        /\ h.chunk[g.block - 1].prev = a

\* What BlocksApart says of the blocks G of a heap.
Apart(h, G) ==
  \A g \in G : \E a \in Addr :
    LiesIn(h, g, a) /\ \A o \in G \ {g} : o.block < a \/ o.block >= Beyond(h, a)

BlocksAligned == \A g \in given : g.block % g.align = 0

Blocks == [block : Addr, size : 1..HeapUnits, align : Aligns \cup {2}]

LEMMA BlockTyped ==
  ASSUME NEW g \in Blocks
  PROVE  g.block \in Addr /\ g.block \in Nat /\ g.size \in Nat \ {0}
  <1>1. g.block \in Addr /\ g.size \in 1..HeapUnits
    BY DEF Blocks
  <1>2. g.size \in Nat \ {0}
    BY <1>1, HeapAssumption
  <1> QED
    BY <1>1, <1>2, Addresses

LEMMA ApartSays == HeapTypeOK => (BlocksApart <=> Apart(Heap, given) /\ BlocksAligned)
  <1> SUFFICES ASSUME HeapTypeOK
               PROVE  BlocksApart <=> Apart(Heap, given) /\ BlocksAligned
    OBVIOUS
  <1>1. UsedIn(Heap) = Of("used") /\ UsedIn(Heap) \subseteq Addr
    BY DEF UsedIn, Of, Heap
  <1>2. \A a \in Addr : After(a) = Beyond(Heap, a)
    BY DEF After, Beyond, SizeOf, Heap
  <1>3. ASSUME NEW g \in given, NEW a \in Addr
        PROVE  LiesIn(Heap, g, a) <=>
                 /\ a \in Of("used") /\ a < g.block /\ g.block + g.size <= After(a)
                 /\ \/ g.block = a + 1
                    \/ /\ chunk[g.block - 1] # NoHeader
                       /\ chunk[g.block - 1].magic = "forAlign"
                       /\ chunk[g.block - 1].prev = a
    <2>1. a < g.block /\ g.block # a + 1 => g.block - 1 \in Addr
      <3>1. g.block \in Addr
        BY DEF HeapTypeOK
      <3> QED
        BY <3>1, HeapAssumption DEF Addr, HeapEnd
    <2> QED
      BY <1>1, <1>2, <2>1 DEF LiesIn, HasHeader, Heap
  <1>4. ASSUME NEW g \in given
        PROVE  (\E a \in Of("used") :
                  /\ a < g.block /\ g.block + g.size <= After(a)
                  /\ \/ g.block = a + 1
                     \/ chunk[g.block - 1] # NoHeader /\ chunk[g.block - 1].magic = "forAlign"
                        /\ chunk[g.block - 1].prev = a
                  /\ \A o \in given \ {g} : o.block < a \/ o.block >= After(a))
               <=> \E a \in Addr :
                     /\ LiesIn(Heap, g, a)
                     /\ \A o \in given \ {g} : o.block < a \/ o.block >= Beyond(Heap, a)
    BY <1>1, <1>2, <1>3
  <1> QED
    BY <1>4 DEF BlocksApart, Apart, BlocksAligned

\* Two chunks of a heap share no address.
LEMMA ChunksApart ==
  ASSUME NEW h, Shape(h), NEW a \in FreeIn(h) \cup UsedIn(h),
         NEW b \in FreeIn(h) \cup UsedIn(h), a # b,
         NEW x \in Nat, a <= x, x < Beyond(h, a)
  PROVE  ~(b <= x /\ x < Beyond(h, b))
  <1>1. a \in Nat /\ b \in Nat
    BY Addresses DEF FreeIn, UsedIn
  <1>2. /\ a < b => Beyond(h, a) <= b
        /\ b < a => Beyond(h, b) <= a
        /\ Beyond(h, a) \in Nat /\ Beyond(h, b) \in Nat
    <2>1. \A c \in FreeIn(h) \cup UsedIn(h) : Beyond(h, c) \in Nat
      <3>1. \A c \in FreeIn(h) \cup UsedIn(h) :
              Beyond(h, c) \in (FreeIn(h) \cup UsedIn(h)) \cup {HeapEnd}
        BY DEF Shape, Tiled
      <3>2. (FreeIn(h) \cup UsedIn(h)) \cup {HeapEnd} \subseteq Nat
        BY Addresses DEF FreeIn, UsedIn
      <3> QED
        BY <3>1, <3>2
    <2> QED
      BY <2>1 DEF Shape, Tiled
  <1> QED
    BY <1>1, <1>2

\* A block outside of the chunk a keeps its place when only the headers of free
\* chunks and those in a change.
LEMMA StaysIn ==
  ASSUME NEW h, Shape(h), NEW a \in FreeIn(h) \cup UsedIn(h),
         NEW k, Untouched(k, h, FreeIn(h) \cup a..(Beyond(h, a) - 1)),
         NEW g \in Blocks, NEW b, LiesIn(h, g, b), b # a,
         b \in UsedIn(k), Beyond(k, b) = Beyond(h, b)
  PROVE  LiesIn(k, g, b) /\ ~(a <= g.block /\ g.block < Beyond(h, a))
  <1>1. /\ g.block \in Nat /\ g.size \in Nat \ {0} /\ b \in Nat /\ a \in Nat /\ g.block \in Addr
        /\ b < g.block /\ g.block + g.size <= Beyond(h, b) /\ b \in UsedIn(h)
    <2>1. b \in Addr /\ a \in Addr
      BY DEF LiesIn, FreeIn, UsedIn
    <2> QED
      BY <2>1, Addresses, BlockTyped DEF LiesIn
  <1>2. Beyond(h, b) \in Nat /\ Beyond(h, a) \in Nat
    <2>1. \A c \in FreeIn(h) \cup UsedIn(h) :
            Beyond(h, c) \in (FreeIn(h) \cup UsedIn(h)) \cup {HeapEnd}
      BY DEF Shape, Tiled
    <2>2. (FreeIn(h) \cup UsedIn(h)) \cup {HeapEnd} \subseteq Nat
      BY Addresses DEF FreeIn, UsedIn
    <2> QED
      BY <1>1, <2>1, <2>2
  <1>3. b <= g.block /\ g.block < Beyond(h, b) /\ b <= g.block - 1 /\ g.block - 1 < Beyond(h, b)
        /\ g.block - 1 \in Nat
    BY <1>1, <1>2
  <1>4. /\ ~(a <= g.block /\ g.block < Beyond(h, a))
        /\ ~(a <= g.block - 1 /\ g.block - 1 < Beyond(h, a))
    BY <1>1, <1>3, ChunksApart
  <1>5. ASSUME g.block # b + 1
        PROVE  k.chunk[g.block - 1] = h.chunk[g.block - 1]
    <2>1. g.block - 1 \in Addr /\ h.chunk[g.block - 1].magic = "forAlign"
      BY <1>5 DEF LiesIn, HasHeader
    <2>2. g.block - 1 \notin FreeIn(h)
      BY <2>1 DEF FreeIn
    <2>3. g.block - 1 \notin a..(Beyond(h, a) - 1)
      BY <1>1, <1>2, <1>4
    <2> QED
      BY <2>1, <2>2, <2>3 DEF Untouched
  <1> QED
    BY <1>4, <1>5 DEF LiesIn, HasHeader

LEMMA AllocApart ==
  ASSUME NEW h, Shape(h), NEW G \in SUBSET Blocks, Apart(h, G), NEW a \in FreeIn(h),
         NEW size \in Nat, NEW g \in Blocks, NEW k, Given(k, h, a, size, g.block),
         a < g.block, g.block + g.size <= a + size + 1
  PROVE  Apart(k, G \cup {g})
  <1>1. /\ a \in UsedIn(k) /\ a \in Nat /\ a \in Addr /\ a \notin UsedIn(h)
        /\ Beyond(k, a) \in Nat /\ Beyond(h, a) \in Nat
        /\ a + size < Beyond(k, a) /\ Beyond(k, a) <= Beyond(h, a)
        /\ g.block \in Nat /\ g.size \in Nat \ {0}
    <2>1. /\ a \in UsedIn(k) /\ a + size < Beyond(k, a) /\ Beyond(k, a) <= Beyond(h, a)
          /\ Tiled(k, FreeIn(k) \cup UsedIn(k)) /\ Tiled(h, FreeIn(h) \cup UsedIn(h))
      BY DEF Given, Shape
    <2>2. /\ Beyond(k, a) \in (FreeIn(k) \cup UsedIn(k)) \cup {HeapEnd}
          /\ Beyond(h, a) \in (FreeIn(h) \cup UsedIn(h)) \cup {HeapEnd}
      BY <2>1 DEF Tiled
    <2> QED
      <3>1. a \in Addr /\ a \notin UsedIn(h)
        BY DEF FreeIn, UsedIn
      <3>2. (FreeIn(k) \cup UsedIn(k)) \cup {HeapEnd} \subseteq Nat
        BY Addresses DEF FreeIn, UsedIn
      <3>3. (FreeIn(h) \cup UsedIn(h)) \cup {HeapEnd} \subseteq Nat
        BY Addresses DEF FreeIn, UsedIn
      <3>4. Beyond(k, a) \in Nat /\ Beyond(h, a) \in Nat
        BY <2>2, <3>2, <3>3
      <3> QED
        BY <2>1, <3>1, <3>4, Addresses, BlockTyped
  <1>2. LiesIn(k, g, a)
    BY <1>1 DEF Given, LiesIn
  <1>3. a <= g.block /\ g.block < Beyond(h, a)
    BY <1>1
  <1>4. ASSUME NEW o \in G, NEW b \in Addr, LiesIn(h, o, b)
        PROVE  /\ LiesIn(k, o, b) /\ Beyond(k, b) = Beyond(h, b)
               /\ o.block < a \/ o.block >= Beyond(k, a)
               /\ g.block < b \/ g.block >= Beyond(k, b)
    <2>1. b \in UsedIn(h) /\ b # a /\ b \in UsedIn(k) /\ Beyond(k, b) = Beyond(h, b)
      BY <1>1, <1>4 DEF LiesIn, Given
    <2>2. LiesIn(k, o, b) /\ ~(a <= o.block /\ o.block < Beyond(h, a))
      BY <1>4, <2>1, StaysIn DEF Given
    <2>3. ~(b <= g.block /\ g.block < Beyond(h, b))
      BY <1>1, <1>3, <2>1, ChunksApart
    <2>4. o.block \in Nat /\ b \in Nat /\ Beyond(k, b) \in Nat
      <3>1. Beyond(h, b) \in (FreeIn(h) \cup UsedIn(h)) \cup {HeapEnd}
        BY <2>1 DEF Shape, Tiled
      <3> QED
        BY <2>1, <3>1, Addresses DEF Blocks, FreeIn, UsedIn
    <2> QED
      BY <1>1, <2>1, <2>2, <2>3, <2>4
  <1>5. ASSUME NEW o \in G \cup {g}
        PROVE  \E b \in Addr :
                 /\ LiesIn(k, o, b)
                 /\ \A q \in (G \cup {g}) \ {o} : q.block < b \/ q.block >= Beyond(k, b)
    <2>1. CASE o = g
      <3>1. ASSUME NEW q \in G PROVE q.block < a \/ q.block >= Beyond(k, a)
        <4>1. \E b \in Addr : LiesIn(h, q, b)
          BY DEF Apart
        <4> QED
          BY <1>4, <4>1
      <3> QED
        BY <1>1, <1>2, <2>1, <3>1
    <2>2. CASE o \in G
      <3>1. PICK b \in Addr :
              LiesIn(h, o, b) /\ \A q \in G \ {o} : q.block < b \/ q.block >= Beyond(h, b)
        BY <2>2 DEF Apart
      <3> QED
        BY <1>4, <2>2, <3>1
    <2> QED
      BY <2>1, <2>2
  <1> QED
    BY <1>5 DEF Apart

LEMMA FreeApart ==
  ASSUME NEW h, Shape(h), NEW G \in SUBSET Blocks, Apart(h, G), NEW g \in G,
         NEW a, LiesIn(h, g, a), \A o \in G \ {g} : o.block < a \/ o.block >= Beyond(h, a),
         NEW k, Taken(k, h, a)
  PROVE  Apart(k, G \ {g})
  <1>1. a \in UsedIn(h)
    BY DEF LiesIn
  <1>2. ASSUME NEW o \in G \ {g}
        PROVE  \E b \in Addr :
                 /\ LiesIn(k, o, b)
                 /\ \A q \in (G \ {g}) \ {o} : q.block < b \/ q.block >= Beyond(k, b)
    <2>1. PICK b \in Addr :
            LiesIn(h, o, b) /\ \A q \in G \ {o} : q.block < b \/ q.block >= Beyond(h, b)
      BY DEF Apart
    <2>2. b # a
      <3>1. /\ o.block \in Nat /\ o.size \in Nat \ {0} /\ a \in Nat /\ Beyond(h, a) \in Nat
        <4>1. Beyond(h, a) \in (FreeIn(h) \cup UsedIn(h)) \cup {HeapEnd}
          BY <1>1 DEF Shape, Tiled
        <4>2. (FreeIn(h) \cup UsedIn(h)) \cup {HeapEnd} \subseteq Nat /\ a \in Nat
          BY <1>1, Addresses DEF FreeIn, UsedIn
        <4> QED
          BY <4>1, <4>2, BlockTyped
      <3>2. o.block < a \/ o.block >= Beyond(h, a)
        OBVIOUS
      <3>3. b = a => a < o.block /\ o.block + o.size <= Beyond(h, a)
        BY <2>1 DEF LiesIn
      <3> QED
        BY <3>1, <3>2, <3>3
    <2>3. b \in UsedIn(k) /\ Beyond(k, b) = Beyond(h, b)
      BY <2>1, <2>2 DEF LiesIn, Taken
    <2>4. LiesIn(k, o, b)
      BY <1>1, <2>1, <2>2, <2>3, StaysIn DEF Taken
    <2> QED
      BY <2>1, <2>3, <2>4
  <1> QED
    BY <1>2 DEF Apart

-----------------------------------------------------------------------------
(* The steps *)

\* A size is rounded up, and what is left before an aligned address aligns it.
LEMMA Rounded ==
  ASSUME NEW n \in Nat \ {0}
  PROVE  RoundUp(n) \in Nat \ {0}
  BY DEF RoundUp

LEMMA Aligned ==
  ASSUME NEW a \in Nat, NEW align \in {2, 4, 8, 16}
  PROVE  Unaligned(a, align) \in Nat /\ (a + Unaligned(a, align) + 1) % align = 0
  <1>1. CASE align = 2  BY <1>1 DEF Unaligned
  <1>2. CASE align = 4  BY <1>2 DEF Unaligned
  <1>3. CASE align = 8  BY <1>3 DEF Unaligned
  <1>4. CASE align = 16 BY <1>4 DEF Unaligned
  <1> QED
    BY <1>1, <1>2, <1>3, <1>4

HeapInv == HeapTypeOK /\ Shape(Heap) /\ BlocksApart

LEMMA AllocKeeps ==
  ASSUME HeapInv, NEW n \in Sizes, NEW al \in Aligns, iosAlloc(n, al)
  PROVE  HeapTypeOK' /\ Shape(Heap)' /\ BlocksApart'
  <1> DEFINE size == RoundUp(n)
             align == IF al < 2 THEN 2 ELSE al
             best == Best(size, align)
             unalign == Unaligned(best, align)
             block == best + unalign + 1
             h == ForAlign(Unlink(Split(Heap, best, size + unalign), best), best, block)
             g == [block |-> block, size |-> size, align |-> align]
             k == [head |-> h.head, chunk |-> [h.chunk EXCEPT ![best].magic = "used"]]
  <1>1. /\ best # NoChunk /\ Heap' = k /\ given' = given \cup {g}
    BY DEF iosAlloc, Heap
  <1>2. size \in Nat \ {0}
    BY Rounded, HeapAssumption
  <1>3. align \in {2, 4, 8, 16} /\ align \in Aligns \cup {2}
    BY HeapAssumption
  <1>4. FreeIn(Heap) \subseteq Addr /\ \A a \in FreeIn(Heap) : chunk[a].size \in Nat
    BY HeapAssumption DEF FreeIn, Heap, HeapInv, HeapTypeOK, Header
  <1> HIDE DEF size, align
  <1>5. \A a \in FreeIn(Heap) : Unaligned(a, align) \in Nat
    BY <1>3, <1>4, Addresses, Aligned
  <1>6. best \in FreeIn(Heap) /\ size + unalign <= chunk[best].size
    <2>1. Linked(Heap, FreeIn(Heap))
      BY DEF HeapInv, Shape
    <2> QED
      BY <1>1, <1>2, <1>4, <1>5, <2>1, BestFits
  <1> HIDE DEF best
  <1>7. /\ best \in Nat /\ unalign \in Nat /\ block % align = 0
    BY <1>3, <1>4, <1>6, Addresses, Aligned
  <1> HIDE DEF unalign
  <1> DEFINE all == size + unalign
  <1>8. /\ all \in Nat \ {0} /\ all <= SizeOf(Heap, best)
        /\ best < block /\ block <= best + all /\ block + size <= best + all + 1
        /\ block \in Int
    BY <1>2, <1>6, <1>7 DEF SizeOf, Heap
  <1> HIDE DEF block, all, h, k
  <1>9. Given(k, Heap, best, all, block)
    BY <1>6, <1>8, AllocGives DEF HeapInv, h, k, all
  <1>10. /\ best \in UsedIn(k) /\ best + all < Beyond(k, best) /\ Beyond(k, best) <= HeapEnd
         /\ Beyond(k, best) \in Nat
    <2>1. /\ best \in UsedIn(k) /\ best + all < Beyond(k, best)
          /\ Tiled(k, FreeIn(k) \cup UsedIn(k))
      BY <1>9 DEF Given, Shape
    <2>2. Beyond(k, best) \in (FreeIn(k) \cup UsedIn(k)) \cup {HeapEnd}
      BY <2>1 DEF Tiled
    <2>3. Beyond(k, best) \in Addr \cup {HeapEnd}
      BY <2>2 DEF FreeIn, UsedIn
    <2> QED
      BY <2>1, <2>3, AtMostEnd
  <1>11. g \in Blocks
    <2>1. block \in Addr
      <3>1. HeapStart <= best
        BY <1>4, <1>6, Addresses
      <3> QED
        BY <1>7, <1>8, <1>10, <3>1, HeapAssumption DEF Addr, HeapEnd
    <2>2. chunk[best].size \in 0..HeapUnits
      BY <1>4, <1>6 DEF HeapInv, HeapTypeOK, Header, FreeIn, Heap
    <2>3. size \in 1..HeapUnits
      BY <1>2, <1>6, <1>7, <2>2, HeapAssumption
    <2> QED
      BY <1>3, <2>1, <2>3 DEF Blocks
  <1>12. HeapTypeOK'
    <2>1. k \in HeapRec
      BY <1>9 DEF Given, Shape
    <2> QED
      BY <1>1, <1>11, <2>1 DEF HeapInv, HeapTypeOK, HeapRec, Place, Heap, Blocks
  <1>13. Apart(k, given \cup {g})
    <2>1. Apart(Heap, given) /\ given \in SUBSET Blocks
      BY ApartSays DEF HeapInv, HeapTypeOK, Blocks
    <2>2. g.block = block /\ g.size = size
      OBVIOUS
    <2> HIDE DEF g
    <2> QED
      BY <1>6, <1>8, <1>9, <1>11, <2>1, <2>2, AllocApart DEF HeapInv
  <1>14. BlocksApart'
    <2>1. BlocksAligned'
      <3>1. g.block = block /\ g.align = align /\ block % align = 0
        BY <1>7 DEF block
      <3>2. BlocksAligned
        BY ApartSays DEF HeapInv
      <3> HIDE DEF g
      <3> QED
        BY <1>1, <3>1, <3>2 DEF BlocksAligned
    <2>2. (HeapTypeOK => (BlocksApart <=> Apart(Heap, given) /\ BlocksAligned))'
      BY ApartSays, PTL
    <2> QED
      BY <1>1, <1>12, <1>13, <2>1, <2>2
  <1> QED
    BY <1>1, <1>9, <1>12, <1>14 DEF Given

LEMMA FreeKeeps ==
  ASSUME HeapInv, NEW g \in given, iosFree(g)
  PROVE  HeapTypeOK' /\ Shape(Heap)' /\ BlocksApart'
  <1> DEFINE y == g.block - 1
             a == IF chunk[y].magic = "forAlign" THEN chunk[y].prev ELSE y
             freed == [head |-> head,
                       chunk |-> [b \in Addr |->
                          IF b = a THEN [chunk[a] EXCEPT !.magic = "free"]
                          ELSE IF b = y THEN NoHeader ELSE chunk[b]]]
             k == Merge(PutBack(freed, a), a)
  <1>1. head' = k.head /\ chunk' = k.chunk /\ given' = given \ {g}
    BY DEF iosFree
  <1>2. Apart(Heap, given) /\ BlocksAligned /\ given \in SUBSET Blocks /\ g \in Blocks
    BY ApartSays DEF HeapInv, HeapTypeOK, Blocks
  <1>3. PICK w \in Addr :
          LiesIn(Heap, g, w) /\ \A o \in given \ {g} : o.block < w \/ o.block >= Beyond(Heap, w)
    BY <1>2 DEF Apart
  <1>4. w \in UsedIn(Heap) /\ chunk[w].magic = "used"
    BY <1>3 DEF LiesIn, UsedIn, Heap
  <1>5. a = w /\ y \in w..(Beyond(Heap, w) - 1)
        /\ (y # w => HasHeader(Heap, y) /\ chunk[y].magic = "forAlign")
    <2>1. /\ w \in Nat /\ g.block \in Nat /\ g.size \in Nat \ {0} /\ Beyond(Heap, w) \in Nat
          /\ w < g.block /\ g.block + g.size <= Beyond(Heap, w)
      <3>1. Beyond(Heap, w) \in (FreeIn(Heap) \cup UsedIn(Heap)) \cup {HeapEnd}
        BY <1>4 DEF HeapInv, Shape, Tiled
      <3>2. (FreeIn(Heap) \cup UsedIn(Heap)) \cup {HeapEnd} \subseteq Nat
        BY Addresses DEF FreeIn, UsedIn
      <3> QED
        BY <1>2, <1>3, <3>1, <3>2, Addresses, BlockTyped DEF LiesIn
    <2>2. CASE g.block = w + 1
      BY <1>4, <2>1, <2>2
    <2>3. CASE g.block # w + 1
      <3>1. HasHeader(Heap, y) /\ chunk[y].magic = "forAlign" /\ chunk[y].prev = w
        BY <1>3, <2>3 DEF LiesIn, Heap
      <3> QED
        BY <2>1, <3>1
    <2> QED
      BY <2>2, <2>3
  <1> HIDE DEF y, a
  <1>6. freed = [head |-> Heap.head,
                 chunk |-> [b \in Addr |->
                    IF b = a THEN [Heap.chunk[a] EXCEPT !.magic = "free"]
                    ELSE IF b = y THEN NoHeader ELSE Heap.chunk[b]]]
    BY DEF Heap
  <1> HIDE DEF freed, k
  <1>7. Taken(k, Heap, a)
    <2>1. a \in UsedIn(Heap) /\ y \in a..(Beyond(Heap, a) - 1)
          /\ (y # a => HasHeader(Heap, y) /\ Heap.chunk[y].magic = "forAlign")
      BY <1>4, <1>5 DEF Heap
    <2> QED
      BY <1>6, <2>1, FreeTakes DEF HeapInv, k
  <1>8. k \in HeapRec /\ Heap' = k
    <2>1. k \in HeapRec
      BY <1>7 DEF Taken, Shape
    <2> QED
      BY <1>1, <2>1 DEF Heap, HeapRec
  <1>9. HeapTypeOK'
    BY <1>1, <1>8 DEF HeapInv, HeapTypeOK, HeapRec, Place
  <1>10. Apart(k, given \ {g})
    BY <1>2, <1>3, <1>5, <1>7, FreeApart DEF HeapInv
  <1>11. BlocksApart'
    <2>1. BlocksAligned'
      BY <1>1, <1>2 DEF BlocksAligned
    <2>2. (HeapTypeOK => (BlocksApart <=> Apart(Heap, given) /\ BlocksAligned))'
      BY ApartSays, PTL
    <2> QED
      BY <1>1, <1>8, <1>9, <1>10, <2>1, <2>2
  <1> QED
    BY <1>7, <1>8, <1>9, <1>11 DEF Taken

LEMMA HeapInvariant == HeapSpec => []HeapInv
  <1>1. CreateHeap => HeapInv
    BY NewHeapShaped DEF HeapInv
  <1>2. HeapInv /\ [HeapNext]_heapState => HeapInv'
    <2> SUFFICES ASSUME HeapInv, [HeapNext]_heapState PROVE HeapInv'
      OBVIOUS
    <2>1. ASSUME NEW n \in Sizes, NEW al \in Aligns, iosAlloc(n, al) PROVE HeapInv'
      BY <2>1, AllocKeeps DEF HeapInv
    <2>2. ASSUME NEW g \in given, iosFree(g) PROVE HeapInv'
      BY <2>2, FreeKeeps DEF HeapInv
    <2>3. CASE UNCHANGED heapState
      BY <2>3 DEF heapState, HeapInv, HeapTypeOK, Heap, BlocksApart, After, Of
    <2> QED
      BY <2>1, <2>2, <2>3 DEF HeapNext
  <1> QED
    BY <1>1, <1>2, PTL DEF HeapSpec

\* Through any sequence of allocations and releases every header, link and block
\* stays within the heap (iosAlloc and iosFree).
THEOREM HeapTypeCorrect == HeapSpec => []HeapTypeOK
  <1>1. HeapInv => HeapTypeOK
    BY DEF HeapInv
  <1> QED
    BY <1>1, HeapInvariant, PTL

\* For a heap of any size and requests of any size and alignment: the chunks
\* cover the heap and share nothing, the list holds the free ones by address
\* with links that agree, free chunks never lie side by side, and the blocks
\* given out are aligned, apart, and lead back to their chunks.
THEOREM HeapStaysSound == HeapSpec => []HeapSound
  <1>1. HeapInv => HeapSound
    BY ShapeIsIntact DEF HeapInv, HeapSound
  <1> QED
    BY <1>1, HeapInvariant, PTL
=============================================================================
