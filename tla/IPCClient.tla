------------------------------ MODULE IPCClient ------------------------------
(***************************************************************************)
(* The IPC client of ipcclt.c: threads and callbacks queue requests for    *)
(* IOS, __mailboxAck lets one at a time into the message register, and the *)
(* interrupt handler takes the acknowledgements and the replies.           *)
(*                                                                         *)
(* A section with interrupts disabled, the handler of a reply and that of  *)
(* an acknowledgement are one step each: IOS, which runs beside them, only *)
(* meets them at the registers.  What a request asks for, the addresses    *)
(* turned to physical and back, the caches and the profile are left out.   *)
(* A callback may make one more request, never one that sleeps.  IOS is    *)
(* external: it acknowledges a message before it answers it, answers in    *)
(* any order, and when it is launched anew the requests it had are lost    *)
(* and the new IOS acknowledges once, after the first acknowledgement was  *)
(* taken.  The counters sent and queued do not wrap (MaxRequests).         *)
(***************************************************************************)
EXTENDS Integers, Sequences, FiniteSets

CONSTANTS
  Thread,
  Req,          \* the blocks of the heap of requests
  Capacity,     \* IPC_QUEUE_CAPACITY, 16
  MaxRequests,  \* bound: the requests queued, below 2^32
  NoReq         \* NULL

ASSUME IPCAssumption ==
  /\ Capacity \in Nat \ {0}
  /\ MaxRequests \in Nat
  /\ NoReq \notin Req

VARIABLES
  ipc,        \* __responses, __mailboxAck, __relnchFl, __relnchRpc, IPC_PPCMSG
  allocated,  \* the requests allocated
  callback,   \* those with a callback
  reboot,     \* those that launch an IOS
  answered,   \* those whose ret IOS, or the launch, has filled in
  at,         \* where each thread is in its call
  req,        \* the request of its call
  stalled,    \* a launch failed and nothing was sent since
  ackSet,     \* IOS: the acknowledgement bit of IPC_PPCCTRL
  reply,      \* IOS: the request in IPC_ARMMSG, its bit set, or NoReq
  working,    \* IOS: the requests it is at
  lost        \* the requests an IOS had when it was replaced

heapVars == <<allocated, callback, reboot>>
iosVars == <<ackSet, reply, working, lost>>
vars == <<ipc, heapVars, answered, at, req, stalled, iosVars>>

Client ==
  [queue : [0..(Capacity - 1) -> Req \cup {NoReq}],
   front : 0..(Capacity - 1), back : 0..(Capacity - 1),
   sent : 0..MaxRequests, queued : 0..MaxRequests,
   mailboxAck : -1..1, relnchFl : BOOLEAN, relnchRpc : Req \cup {NoReq},
   message : Req \cup {NoReq}]

TypeOK ==
  /\ ipc \in Client
  /\ ipc.queued - ipc.sent \in 0..Capacity
  /\ reboot \subseteq allocated /\ callback \subseteq allocated /\ allocated \subseteq Req
  /\ answered \subseteq allocated
  /\ at \in [Thread -> {"out", "made", "asleep", "woken"}]
  /\ req \in [Thread -> Req \cup {NoReq}]
  /\ stalled \in BOOLEAN
  /\ ackSet \in BOOLEAN
  /\ reply \in Req \cup {NoReq}
  /\ working \subseteq Req /\ lost \subseteq Req

Init ==
  /\ ipc = [queue |-> [i \in 0..(Capacity - 1) |-> NoReq], front |-> 0, back |-> 0,
            sent |-> 0, queued |-> 0, mailboxAck |-> 1,
            relnchFl |-> FALSE, relnchRpc |-> NoReq, message |-> NoReq]
  /\ allocated = {} /\ callback = {} /\ reboot = {} /\ answered = {}
  /\ at = [t \in Thread |-> "out"]
  /\ req = [t \in Thread |-> NoReq]
  /\ stalled = FALSE
  /\ ackSet = FALSE /\ reply = NoReq /\ working = {} /\ lost = {}

-----------------------------------------------------------------------------
(* The queue and the register *)

\* The counters are unsigned: a difference with queued < sent is not zero.
Full(c) == IF c.queued < c.sent THEN TRUE ELSE c.queued - c.sent >= Capacity

NoneWaiting(c) == IF c.queued < c.sent THEN TRUE ELSE c.queued = c.sent

\* __ipcQueueRequest, of a queue that is not full.
QueueRequest(c, r) ==
  [c EXCEPT !.queue[c.back] = r,
            !.back = (@ + 1) % Capacity,
            !.queued = @ + 1]

\* __ipcSendRequest.  A launch takes two acknowledgements: that of the old
\* IOS and that of the new one.
SendRequest(c) ==
  IF NoneWaiting(c) THEN c
  ELSE LET r == c.queue[c.front] IN
       [c EXCEPT !.relnchFl = @ \/ r \in reboot,
                 !.relnchRpc = IF r \in reboot THEN r ELSE @,
                 !.message = r,
                 !.front = (@ + 1) % Capacity,
                 !.sent = @ + 1,
                 !.mailboxAck = @ - (IF r \in reboot THEN 2 ELSE 1)]

\* Mutant of QueueAndSend: the register is written whether it is free or not.
QueueAndSendAnyway(c, r) == SendRequest(QueueRequest(c, r))

\* What __ios_Ipc2 does with interrupts disabled.
QueueAndSend(c, r) ==
  IF c.mailboxAck > 0 THEN SendRequest(QueueRequest(c, r)) ELSE QueueRequest(c, r)

\* The bookkeeping of stalled: a request was sent.
Sends == stalled' = (stalled /\ ipc'.sent = ipc.sent)

-----------------------------------------------------------------------------
(* Threads *)

\* __ios_Ipc1 and what fills the request in; nothing when the heap is full.
MakeRequest(t) ==
  /\ at[t] = "out"
  /\ \E r \in Req \ allocated, withCallback, launch \in BOOLEAN :
       /\ ~(withCallback /\ launch)
       /\ allocated' = allocated \cup {r}
       /\ callback' = IF withCallback THEN callback \cup {r} ELSE callback
       /\ reboot' = IF launch THEN reboot \cup {r} ELSE reboot
       /\ req' = [req EXCEPT ![t] = r]
  /\ at' = [at EXCEPT ![t] = "made"]
  /\ UNCHANGED <<ipc, answered, stalled, iosVars>>

\* ipcFree
Free(r) ==
  /\ allocated' = allocated \ {r}
  /\ callback' = callback \ {r}
  /\ reboot' = reboot \ {r}
  /\ answered' = answered \ {r}

Out(t) ==
  /\ at' = [at EXCEPT ![t] = "out"]
  /\ req' = [req EXCEPT ![t] = NoReq]

\* IPC_RESULT_BUSY_INTERNAL
Refused(t) ==
  /\ at[t] = "made"
  /\ Full(ipc)
  /\ Free(req[t])
  /\ Out(t)
  /\ UNCHANGED <<ipc, stalled, iosVars>>

Submit(t) ==
  /\ at[t] = "made"
  /\ ~Full(ipc) /\ ipc.queued < MaxRequests
  /\ ipc' = QueueAndSend(ipc, req[t])
  /\ Sends
  /\ IF req[t] \in callback
     THEN Out(t)
     ELSE at' = [at EXCEPT ![t] = "asleep"] /\ UNCHANGED req
  /\ UNCHANGED <<heapVars, answered, iosVars>>

\* The thread reads the result and frees the request.
Return(t) ==
  /\ at[t] = "woken"
  /\ Free(req[t])
  /\ Out(t)
  /\ UNCHANGED <<ipc, stalled, iosVars>>

-----------------------------------------------------------------------------
(* The interrupt handler *)

\* OSWakeupThread of the queue in the request.
Wakeup(r) ==
  at' = [t \in Thread |-> IF at[t] = "asleep" /\ req[t] = r THEN "woken" ELSE at[t]]

\* Mutant of LaunchFailed: the second acknowledgement is still waited for.
LaunchFailedWaits(c, r) == [c EXCEPT !.relnchFl = @ /\ c.relnchRpc # r]

\* A reply to the request to launch: there is no new IOS.
LaunchFailed(c, r) ==
  IF c.relnchFl /\ c.relnchRpc = r
  THEN [c EXCEPT !.relnchFl = FALSE,
                 !.mailboxAck = IF @ < 1 THEN @ + 1 ELSE @]
  ELSE c

\* Whether a failed launch leaves the register free.
StalledBy(c) ==
  stalled \/ (c.relnchFl /\ c.relnchRpc = reply /\ LaunchFailed(c, reply).mailboxAck > 0)

ReplyToThread ==
  /\ reply # NoReq /\ reply \notin callback
  /\ ipc' = LaunchFailed(ipc, reply)
  /\ stalled' = StalledBy(ipc)
  /\ Wakeup(reply)
  /\ reply' = NoReq
  /\ UNCHANGED <<heapVars, answered, req, ackSet, working, lost>>

\* A launch has no callback.  The callback makes no request, or is refused.
ReplyToCallback ==
  /\ reply # NoReq /\ reply \in callback
  /\ Free(reply)
  /\ reply' = NoReq
  /\ UNCHANGED <<ipc, at, req, stalled, ackSet, working, lost>>

\* The callback makes another request; its own is freed when it returned.
ReplyAndRequest ==
  /\ reply # NoReq /\ reply \in callback
  /\ ~Full(ipc) /\ ipc.queued < MaxRequests
  /\ \E r \in Req \ allocated :
       /\ ipc' = QueueAndSend(ipc, r)
       /\ allocated' = (allocated \cup {r}) \ {reply}
       /\ callback' = (callback \cup {r}) \ {reply}
       /\ answered' = answered \ {reply}
  /\ Sends
  /\ reply' = NoReq
  /\ UNCHANGED <<reboot, at, req, ackSet, working, lost>>

Acked(c) == [c EXCEPT !.mailboxAck = IF @ < 1 THEN @ + 1 ELSE @]

\* Mutant of AckHandler: the next request is left for the next call.
AckHandlerQuiet ==
  /\ ackSet
  /\ ackSet' = FALSE
  /\ LET c == Acked(ipc)
         launched == c.mailboxAck > 0 /\ c.relnchFl IN
     /\ ipc' = IF launched THEN [c EXCEPT !.relnchFl = FALSE] ELSE c
     /\ IF launched
        THEN answered' = answered \cup {c.relnchRpc} /\ Wakeup(c.relnchRpc)
        ELSE UNCHANGED <<answered, at>>
  /\ Sends
  /\ UNCHANGED <<heapVars, req, reply, working, lost>>

\* The register is free again: the next request is sent.  If the last one
\* launched an IOS, it has succeeded.
AckHandler ==
  /\ ackSet
  /\ ackSet' = FALSE
  /\ LET c == Acked(ipc)
         launched == c.mailboxAck > 0 /\ c.relnchFl IN
     /\ ipc' = IF c.mailboxAck > 0 THEN SendRequest([c EXCEPT !.relnchFl = FALSE]) ELSE c
     /\ IF launched
        THEN answered' = answered \cup {c.relnchRpc} /\ Wakeup(c.relnchRpc)
        ELSE UNCHANGED <<answered, at>>
  /\ Sends
  /\ UNCHANGED <<heapVars, req, reply, working, lost>>

-----------------------------------------------------------------------------
(* IOS *)

Accept ==
  /\ ipc.message # NoReq
  /\ ipc' = [ipc EXCEPT !.message = NoReq]
  /\ working' = working \cup {ipc.message}
  /\ ackSet' = TRUE
  /\ UNCHANGED <<heapVars, answered, at, req, stalled, reply, lost>>

Answer(r) ==
  /\ reply = NoReq /\ r \in working
  /\ reply' = r
  /\ working' = working \ {r}
  /\ answered' = answered \cup {r}
  /\ UNCHANGED <<ipc, heapVars, at, req, stalled, ackSet, lost>>

\* The new IOS knows nothing of the requests of the old one.
Launch ==
  /\ ~ackSet
  /\ \E r \in working \cap reboot : lost' = lost \cup (working \ {r})
  /\ working' = {}
  /\ ackSet' = TRUE
  /\ UNCHANGED <<ipc, heapVars, answered, at, req, stalled, reply>>

-----------------------------------------------------------------------------
IOS == Accept \/ (\E r \in Req : Answer(r)) \/ Launch
Handler == ReplyToThread \/ ReplyToCallback \/ ReplyAndRequest \/ AckHandler
Step(t) == MakeRequest(t) \/ Refused(t) \/ Submit(t) \/ Return(t)

Next == (\E t \in Thread : Step(t)) \/ Handler \/ IOS

Spec == Init /\ [][Next]_vars

\* Interrupts are taken, IOS takes and answers every request, and a thread
\* goes on with its call.
FairSpec ==
  /\ Spec
  /\ WF_vars(AckHandler)
  /\ WF_vars(ReplyToThread)
  /\ WF_vars(ReplyToCallback \/ ReplyAndRequest)
  /\ WF_vars(Accept)
  /\ \A r \in Req : SF_vars(Answer(r))
  /\ \A t \in Thread : WF_vars(Submit(t) \/ Refused(t)) /\ WF_vars(Return(t))

-----------------------------------------------------------------------------
(* Properties *)

\* The requests from front to back.
Waiting ==
  [i \in 1..(ipc.queued - ipc.sent) |-> ipc.queue[(ipc.front + i - 1) % Capacity]]
Queued == {Waiting[i] : i \in DOMAIN Waiting}

Mailbox == INSTANCE IPCMailbox WITH waiting <- Waiting, message <- ipc.message

\* The ring, the counters and __mailboxAck pass the requests on in order, one
\* at a time, the register never written over one that IOS has not taken.
ImplementsMailbox == Mailbox!Spec

\* Where a request can be: with the thread that made it or was woken, in the
\* queue, in a register, with IOS, or launching an IOS that has not answered.
Places(r) ==
  {p \in {"thread", "queue", "message", "working", "reply", "lost", "launch"} :
     CASE p = "thread" -> \E t \in Thread : req[t] = r /\ at[t] \in {"made", "woken"}
       [] p = "queue" -> r \in Queued
       [] p = "message" -> ipc.message = r
       [] p = "working" -> r \in working
       [] p = "reply" -> reply = r
       [] p = "lost" -> r \in lost
       [] p = "launch" -> /\ ipc.relnchFl /\ ipc.relnchRpc = r
                          /\ ipc.message # r /\ r \notin working /\ reply # r}

\* A request allocated is at one place and a freed one at none: none leaks and
\* none is freed, or handed out again, while the queue or IOS has it.
OnePlace ==
  /\ \A r \in Req : Cardinality(Places(r)) = (IF r \in allocated THEN 1 ELSE 0)
  /\ \A i, j \in DOMAIN Waiting : Waiting[i] = Waiting[j] => i = j
  /\ \A t, u \in Thread : req[t] = req[u] /\ req[t] # NoReq => t = u

\* Requests wait only for an acknowledgement or a launch that will come, or
\* after a failed launch, when the next call sends the oldest.
NothingStuck ==
  Waiting # <<>> => ipc.message # NoReq \/ ackSet \/ ipc.relnchFl \/ stalled

\* Requests are neither lost, nor doubled, nor left waiting for nothing.
RequestsKept == OnePlace /\ NothingStuck

\* A call returns, unless its IOS was replaced or a failed launch left the
\* queue waiting for another call.
CallReturns ==
  \A t \in Thread : at[t] = "asleep" ~> (at[t] = "out" \/ req[t] \in lost \/ stalled)
=============================================================================
