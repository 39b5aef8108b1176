------------------------------- MODULE DVDQueue -------------------------------
(***************************************************************************)
(* The waiting queues of the disc driver (dvdqueue.c): one circular,       *)
(* doubly linked list per priority, threaded through the command blocks.   *)
(* Every function runs with interrupts disabled, so each is an operator    *)
(* that takes the links q to the links after the call.  The head of a      *)
(* queue is its priority; priority 0 is served first.                      *)
(***************************************************************************)
EXTENDS Naturals, FiniteSets

CONSTANTS
  Block,    \* the command blocks
  PrioMax,  \* DVD_PRIO_MAX, the number of queues
  NULL

ASSUME QueueAssumption ==
  /\ PrioMax \in Nat \ {0}
  /\ IsFiniteSet(Block) /\ NULL \notin Block
  /\ (0 .. PrioMax - 1) \cap (Block \cup {NULL}) = {}

Prio == 0 .. PrioMax - 1
Cell == Block \cup Prio

Links == [next : [Cell -> Cell \cup {NULL}], prev : [Cell -> Cell \cup {NULL}]]

\* __DVDClearWaitingQueue: only the heads are written.
ClearWaitingQueue(q) ==
  [next |-> [c \in Cell |-> IF c \in Prio THEN c ELSE q.next[c]],
   prev |-> [c \in Cell |-> IF c \in Prio THEN c ELSE q.prev[c]]]

\* Mutant of PushWaitingQueue: the block is put in front.
PushWaitingQueueFront(q, prio, b) ==
  LET first == q.next[prio]
  IN  [next |-> [q.next EXCEPT ![prio] = b, ![b] = first],
       prev |-> [q.prev EXCEPT ![first] = b, ![b] = prio]]

\* Mutant of PushWaitingQueue: the head does not learn its new last block.
PushWaitingQueueNoTail(q, prio, b) ==
  LET last == q.prev[prio]
  IN  [next |-> [q.next EXCEPT ![last] = b, ![b] = prio],
       prev |-> [q.prev EXCEPT ![b] = last]]

\* __DVDPushWaitingQueue
PushWaitingQueue(q, prio, b) ==
  LET last == q.prev[prio]
  IN  [next |-> [q.next EXCEPT ![last] = b, ![b] = prio],
       prev |-> [q.prev EXCEPT ![b] = last, ![prio] = b]]

\* __DVDCheckWaitingQueue
CheckWaitingQueue(q) == \E p \in Prio : q.next[p] # p

\* The head __DVDPopWaitingQueue stops at, and the block it returns.
TopPrio(q) == CHOOSE p \in Prio :
                q.next[p] # p /\ \A r \in 0 .. p - 1 : q.next[r] = r
TopBlock(q) == q.next[TopPrio(q)]

\* PopWaitingQueuePrio: the first block of a queue loses its links.
PopWaitingQueuePrio(q, p) ==
  LET b == q.next[p]
      after == q.next[b]
  IN  [next |-> [q.next EXCEPT ![p] = after, ![b] = NULL],
       prev |-> [q.prev EXCEPT ![after] = p, ![b] = NULL]]

\* __DVDPopWaitingQueue
PopWaitingQueue(q) == PopWaitingQueuePrio(q, TopPrio(q))

\* __DVDDequeueWaitingQueue: the block keeps its links, and one that has none
\* is left alone.
DequeueWaitingQueue(q, b) ==
  IF q.prev[b] = NULL \/ q.next[b] = NULL THEN q
  ELSE [next |-> [q.next EXCEPT ![q.prev[b]] = q.next[b]],
        prev |-> [q.prev EXCEPT ![q.next[b]] = q.prev[b]]]

-----------------------------------------------------------------------------
\* The blocks queued at a priority, in the order of the next links.
Chain(q, prio) ==
  LET at[i \in 1 .. Cardinality(Block) + 1] ==
        IF i = 1 THEN q.next[prio]
        ELSE IF at[i - 1] \in Block THEN q.next[at[i - 1]] ELSE prio
      n == Cardinality({i \in 1 .. Cardinality(Block) : at[i] \in Block})
  IN  [i \in 1 .. n |-> at[i]]

\* home tells the queue of each waiting block: every link stays within a queue
\* and is answered by one back.
Home(home, c) == IF c \in Prio THEN c ELSE home[c]

Paired(q, home) ==
  LET linked == Prio \cup DOMAIN home
  IN  \A c \in linked :
        /\ q.next[c] \in linked /\ q.prev[c] \in linked
        /\ q.prev[q.next[c]] = c /\ q.next[q.prev[c]] = c
        /\ Home(home, q.next[c]) = Home(home, c)

\* The links describe the set of waiting blocks given: they are paired, and
\* each block is on the chain of a queue.
LinksAgree(q, waiting) ==
  /\ \E home \in [waiting -> Prio] : Paired(q, home)
  /\ \A b \in waiting :
       \E p \in Prio : \E i \in DOMAIN Chain(q, p) : Chain(q, p)[i] = b
=============================================================================
