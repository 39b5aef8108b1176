------------------------------ MODULE DVDService ------------------------------
(***************************************************************************)
(* What the disc driver promises its callers: commands are served one at a *)
(* time, the best priority first and in the order of their arrival within  *)
(* a priority; the callback of a command is called once, when it was       *)
(* served or withdrawn, and may issue the command again.  Once the driver  *)
(* prepares for a reset it promises nothing more.                          *)
(***************************************************************************)
EXTENDS Naturals, Sequences, SequencesExt

CONSTANTS Block, PrioMax, NULL

VARIABLES
  queue,    \* the commands waiting at each priority
  current,  \* the command being served, or NULL
  owed,     \* per command, the callbacks it is still to get
  live      \* no reset has been prepared

vars == <<queue, current, owed, live>>

Prio == 0 .. PrioMax - 1
Queued == UNION {Range(queue[p]) : p \in Prio}

Init ==
  /\ queue = [p \in Prio |-> <<>>]
  /\ current \in Block
  /\ owed = [b \in Block |-> IF b = current THEN 1 ELSE 0]
  /\ live = TRUE

\* The server is free and takes the next command of the queues Q.
TakeNext(Q) ==
  IF \A p \in Prio : Q[p] = <<>>
    THEN queue' = Q /\ current' = NULL
    ELSE LET p == CHOOSE p \in Prio :
                    Q[p] # <<>> /\ \A r \in 0 .. p - 1 : Q[r] = <<>>
         IN  /\ queue' = [r \in Prio |-> IF r = p THEN Tail(Q[r]) ELSE Q[r]]
             /\ current' = Head(Q[p])

Issue(b, p) ==
  /\ owed[b] = 0
  /\ owed' = [owed EXCEPT ![b] = 1]
  /\ LET Q == [queue EXCEPT ![p] = Append(@, b)]
     IN  IF current = NULL THEN TakeNext(Q)
         ELSE queue' = Q /\ UNCHANGED current

\* The command being served is over: its callback is called.
Finish ==
  /\ current # NULL
  /\ owed' = [owed EXCEPT ![current] = 0]
  /\ TakeNext(queue)

\* ... and the callback issues the command again before the next one starts.
FinishAgain(p) ==
  /\ current # NULL
  /\ TakeNext([queue EXCEPT ![p] = Append(@, current)])
  /\ UNCHANGED owed

Withdrawn(b) == [p \in Prio |-> Remove(queue[p], b)]

Withdraw(b) ==
  /\ b \in Queued
  /\ queue' = Withdrawn(b) /\ owed' = [owed EXCEPT ![b] = 0]
  /\ UNCHANGED current

WithdrawAgain(b, p) ==
  /\ b \in Queued
  /\ queue' = [Withdrawn(b) EXCEPT ![p] = Append(@, b)]
  /\ UNCHANGED <<current, owed>>

Serve ==
  \/ \E b \in Block, p \in Prio : Issue(b, p) \/ WithdrawAgain(b, p)
  \/ \E b \in Block : Withdraw(b)
  \/ Finish
  \/ \E p \in Prio : FinishAgain(p)

Next == \/ ~live'
        \/ Serve /\ UNCHANGED live

Spec == Init /\ [][Next]_vars
=============================================================================
