------------------------------- MODULE DVDProofs -------------------------------
(***************************************************************************)
(* Proofs about DVDQueue and DVDDriver.  The waiting queues: every link    *)
(* stays within its queue and is answered by one back, wherever the block  *)
(* stands, and every block is reached.  The driver: whatever the drive     *)
(* answers and whoever calls, exactly one thing will call it back for the  *)
(* command in hand, which reads only from a disc that is known, and the    *)
(* queues hold exactly the commands that wait.                             *)
(***************************************************************************)
EXTENDS DVDDriver, FiniteSetTheorems, WellFoundedInduction, TLAPS

-----------------------------------------------------------------------------
(* The waiting queues of the disc driver *)

LEMMA CellsApart == Prio \cap Block = {} /\ NULL \notin Prio \cup Block
  BY QueueAssumption DEF Prio

\* home is the queue of each waiting block: when b joins queue p, and when b leaves.
Joined(home, b, p) ==
  [c \in DOMAIN home \cup {b} |-> IF c = b THEN p ELSE home[c]]
Left(home, b) == [c \in DOMAIN home \ {b} |-> home[c]]

\* __DVDClearWaitingQueue leaves sound lists with nothing waiting, whatever the
\* blocks still hold.
THEOREM ClearPairs ==
  ASSUME NEW q \in Links, NEW home \in [{} -> Prio]
  PROVE  /\ ClearWaitingQueue(q) \in Links
         /\ Paired(ClearWaitingQueue(q), home)
  BY CellsApart DEF ClearWaitingQueue, Paired, Links, Cell

\* __DVDPushWaitingQueue adds the block to its queue and disturbs no other,
\* whatever links the block had kept from an earlier stay.
THEOREM PushPairs ==
  ASSUME NEW q \in Links, NEW waiting \in SUBSET Block,
         NEW home \in [waiting -> Prio], Paired(q, home),
         NEW p \in Prio, NEW b \in Block \ waiting
  PROVE  /\ PushWaitingQueue(q, p, b) \in Links
         /\ Paired(PushWaitingQueue(q, p, b), Joined(home, b, p))
  <1> DEFINE last == q.prev[p]
             linked == Prio \cup waiting
             next == [q.next EXCEPT ![last] = b, ![b] = p]
             prev == [q.prev EXCEPT ![b] = last, ![p] = b]
             new == Joined(home, b, p)
  <1>1. /\ last \in linked /\ q.next[last] = p /\ p # b /\ last # b
        /\ b \notin Prio /\ Home(home, last) = p
    BY CellsApart DEF Paired, Home
  <1>2. /\ PushWaitingQueue(q, p, b) = [next |-> next, prev |-> prev]
        /\ next \in [Cell -> Cell \cup {NULL}]
        /\ prev \in [Cell -> Cell \cup {NULL}]
    BY <1>1 DEF PushWaitingQueue, Links, Cell
  <1>3. /\ next[last] = b /\ next[b] = p /\ prev[b] = last /\ prev[p] = b
        /\ \A c \in linked : c # last => next[c] = q.next[c]
        /\ \A c \in linked : c # p => prev[c] = q.prev[c]
    BY <1>1, CellsApart DEF Links, Cell
  <1>4. /\ DOMAIN new = waiting \cup {b} /\ Home(new, b) = p
        /\ \A c \in linked : Home(new, c) = Home(home, c)
    BY <1>1 DEF Joined, Home
  <1> HIDE DEF next, prev, new
  <1>5. ASSUME NEW c \in linked \cup {b}
        PROVE  /\ next[c] \in linked \cup {b} /\ prev[c] \in linked \cup {b}
               /\ prev[next[c]] = c /\ next[prev[c]] = c
               /\ Home(new, next[c]) = Home(new, c)
    <2>1. CASE c = b
      BY <1>1, <1>3, <1>4, <2>1 DEF Home
    <2>2. CASE c = last
      BY <1>1, <1>3, <1>4, <2>2 DEF Paired
    <2>3. CASE c \notin {b, last}
      BY <1>1, <1>3, <1>4, <2>3 DEF Paired
    <2> QED
      BY <2>1, <2>2, <2>3
  <1> QED
    BY <1>2, <1>4, <1>5 DEF Paired, Links, new

\* A block taken off, by __DVDPopWaitingQueue from the front or by
\* __DVDDequeueWaitingQueue from anywhere, leaves the others linked.
LEMMA UnlinkPairs ==
  ASSUME NEW q \in Links, NEW waiting \in SUBSET Block,
         NEW home \in [waiting -> Prio], Paired(q, home),
         NEW b \in waiting, NEW r \in Links,
         \A c \in Prio \cup (waiting \ {b}) :
           /\ r.next[c] = IF c = q.prev[b] THEN q.next[b] ELSE q.next[c]
           /\ r.prev[c] = IF c = q.next[b] THEN q.prev[b] ELSE q.prev[c]
  PROVE  Paired(r, Left(home, b))
  <1> DEFINE others == Prio \cup (waiting \ {b})
             new == Left(home, b)
  <1>1. b \notin Prio
    BY CellsApart
  <1>2. /\ DOMAIN new = waiting \ {b}
        /\ \A c \in others : Home(new, c) = Home(home, c)
    BY <1>1 DEF Left, Home
  <1> HIDE DEF new
  <1>3. ASSUME NEW c \in others
        PROVE  r.next[c] \in others /\ r.prev[c] \in others
    BY <1>1 DEF Paired
  <1>4. ASSUME NEW c \in others
        PROVE  r.prev[r.next[c]] = c /\ r.next[r.prev[c]] = c
    BY <1>1, <1>3 DEF Paired
  <1>5. ASSUME NEW c \in others
        PROVE  Home(new, r.next[c]) = Home(new, c)
    <2>1. Home(home, r.next[c]) = Home(home, c)
      BY <1>1 DEF Paired
    <2> QED
      BY <1>2, <1>3, <2>1
  <1> QED
    BY <1>2, <1>3, <1>4, <1>5 DEF Paired, new

\* PopWaitingQueuePrio takes a waiting block off.
THEOREM PopPairs ==
  ASSUME NEW q \in Links, NEW waiting \in SUBSET Block,
         NEW home \in [waiting -> Prio], Paired(q, home),
         NEW p \in Prio, q.next[p] # p
  PROVE  /\ q.next[p] \in waiting /\ home[q.next[p]] = p
         /\ PopWaitingQueuePrio(q, p) \in Links
         /\ Paired(PopWaitingQueuePrio(q, p), Left(home, q.next[p]))
  <1> DEFINE b == q.next[p]
             r == PopWaitingQueuePrio(q, p)
  <1>1. b \in waiting /\ home[b] = p
    BY DEF Paired, Home
  <1>2. b \in Block /\ b # p /\ q.prev[b] = p /\ q.next[b] \in Prio \cup waiting
    BY <1>1, CellsApart DEF Paired
  <1>3. r \in Links
    BY <1>2 DEF PopWaitingQueuePrio, Links, Cell
  <1>4. ASSUME NEW c \in Prio \cup (waiting \ {b})
        PROVE  /\ r.next[c] = IF c = q.prev[b] THEN q.next[b] ELSE q.next[c]
               /\ r.prev[c] = IF c = q.next[b] THEN q.prev[b] ELSE q.prev[c]
    BY <1>2, CellsApart DEF PopWaitingQueuePrio, Links, Cell
  <1> HIDE DEF r
  <1>5. Paired(r, Left(home, b))
    BY <1>1, <1>3, <1>4, UnlinkPairs
  <1> QED
    BY <1>1, <1>3, <1>5 DEF r

\* Some queue is the first that is not empty.
LEMMA TopPrioFound ==
  ASSUME NEW q, CheckWaitingQueue(q)
  PROVE  /\ TopPrio(q) \in Prio /\ q.next[TopPrio(q)] # TopPrio(q)
         /\ \A r \in 0 .. TopPrio(q) - 1 : q.next[r] = r
  <1> DEFINE T == {p \in Prio : q.next[p] # p}
             R == OpToRel(<, Nat)
  <1>1. T \subseteq Nat /\ T # {}
    BY QueueAssumption DEF CheckWaitingQueue, Prio
  <1>2. PICK p \in T : \A r \in T : <<r, p>> \notin R
    <2> HIDE DEF T, R
    <2>1. IsWellFoundedOn(R, Nat)
      BY NatLessThanWellFounded DEF R
    <2> QED
      BY <1>1, <2>1, WFMin
  <1>3. \A r, n \in Nat : r < n => <<r, n>> \in R
    BY DEF OpToRel
  <1>4. \A r \in 0 .. p - 1 : q.next[r] = r
    <2> SUFFICES ASSUME NEW r \in 0 .. p - 1, q.next[r] # r PROVE FALSE
      OBVIOUS
    <2>1. r \in Nat /\ p \in Nat /\ r < p /\ r \in T
      BY QueueAssumption DEF Prio
    <2> QED
      BY <1>2, <1>3, <2>1
  <1> QED
    BY <1>4 DEF TopPrio

\* __DVDPopWaitingQueue, called when something waits, takes a block of the first
\* queue that is not empty.
THEOREM TopPairs ==
  ASSUME NEW q \in Links, NEW waiting \in SUBSET Block,
         NEW home \in [waiting -> Prio], Paired(q, home), CheckWaitingQueue(q)
  PROVE  /\ TopBlock(q) \in waiting
         /\ \A p \in 0 .. home[TopBlock(q)] - 1 : q.next[p] = p
         /\ PopWaitingQueue(q) \in Links
         /\ Paired(PopWaitingQueue(q), Left(home, TopBlock(q)))
  <1>1. PICK p \in Prio : p = TopPrio(q)
    BY TopPrioFound
  <1>2. q.next[p] # p /\ \A r \in 0 .. p - 1 : q.next[r] = r
    BY <1>1, TopPrioFound
  <1> QED
    BY <1>1, <1>2, PopPairs DEF PopWaitingQueue, TopBlock

\* __DVDDequeueWaitingQueue takes a waiting block out of any place.
THEOREM DequeuePairs ==
  ASSUME NEW q \in Links, NEW waiting \in SUBSET Block,
         NEW home \in [waiting -> Prio], Paired(q, home), NEW b \in waiting
  PROVE  /\ DequeueWaitingQueue(q, b) \in Links
         /\ Paired(DequeueWaitingQueue(q, b), Left(home, b))
  <1> DEFINE r == DequeueWaitingQueue(q, b)
  <1>1. /\ q.next[b] \in Prio \cup waiting /\ q.prev[b] \in Prio \cup waiting
        /\ q.next[b] # NULL /\ q.prev[b] # NULL
    BY CellsApart DEF Paired
  <1>2. r = [next |-> [q.next EXCEPT ![q.prev[b]] = q.next[b]],
             prev |-> [q.prev EXCEPT ![q.next[b]] = q.prev[b]]]
    BY <1>1 DEF DequeueWaitingQueue
  <1>3. r \in Links
    BY <1>1, <1>2 DEF Links, Cell
  <1>4. ASSUME NEW c \in Prio \cup (waiting \ {b})
        PROVE  /\ r.next[c] = IF c = q.prev[b] THEN q.next[b] ELSE q.next[c]
               /\ r.prev[c] = IF c = q.next[b] THEN q.prev[b] ELSE q.prev[c]
    BY <1>2 DEF Links, Cell
  <1> HIDE DEF r
  <1>5. Paired(r, Left(home, b))
    BY <1>3, <1>4, UnlinkPairs
  <1> QED
    BY <1>3, <1>5 DEF r

\* The rank of a block is above that of the block before it, so its queue leads
\* to it.
Ranked(q, W, rank) == \A b \in W : q.prev[b] \in W => rank[q.prev[b]] < rank[b]

\* The links of q hold the blocks W.
Linked(q, W) ==
  \E home \in [W -> Prio], rank \in [W -> Nat] : Paired(q, home) /\ Ranked(q, W, rank)

LEMMA ClearLinks ==
  ASSUME NEW q \in Links
  PROVE  ClearWaitingQueue(q) \in Links /\ Linked(ClearWaitingQueue(q), {})
<1> DEFINE none == [b \in {} |-> 0]
<1>1. none \in [{} -> Prio] /\ none \in [{} -> Nat]
  OBVIOUS
<1>2. ClearWaitingQueue(q) \in Links /\ Paired(ClearWaitingQueue(q), none)
  BY <1>1, ClearPairs
<1> QED
  BY <1>1, <1>2 DEF Linked, Ranked

LEMMA PushLinks ==
  ASSUME NEW q \in Links, NEW W \in SUBSET Block, Linked(q, W), NEW p \in Prio,
         NEW b \in Block \ W
  PROVE  /\ PushWaitingQueue(q, p, b) \in Links
         /\ Linked(PushWaitingQueue(q, p, b), W \cup {b})
<1> DEFINE n == PushWaitingQueue(q, p, b)
           V == W \cup {b}
<1>1. PICK home \in [W -> Prio], rank \in [W -> Nat] : Paired(q, home) /\ Ranked(q, W, rank)
  BY DEF Linked
<1>2. n \in Links /\ Paired(n, Joined(home, b, p)) /\ Joined(home, b, p) \in [V -> Prio]
  BY <1>1, PushPairs DEF Joined
<1> DEFINE last == q.prev[p]
           new == [c \in V |-> IF c \in W THEN rank[c]
                               ELSE IF last \in W THEN rank[last] + 1 ELSE 0]
<1>3. /\ new \in [V -> Nat] /\ \A c \in W : new[c] = rank[c]
      /\ last \in W => new[b] = rank[last] + 1
  BY <1>1
<1>4. b \notin Prio /\ W \cap Prio = {} /\ last \in Prio \cup W
  BY <1>1, CellsApart DEF Paired
<1>5. n.prev[b] = last /\ \A c \in W : n.prev[c] = q.prev[c]
  BY <1>4 DEF PushWaitingQueue, Links, Cell
<1>6. \A c \in W : q.prev[c] \in Prio \cup W
  BY <1>1 DEF Paired
<1> HIDE DEF new, last, n, V
<1>7. ASSUME NEW c \in V, n.prev[c] \in V  PROVE new[n.prev[c]] < new[c]
  <2>1. CASE c = b
    <3>1. last \in W
      BY <1>4, <1>5, <1>7, <2>1, CellsApart DEF V
    <3>2. rank[last] \in Nat /\ new[last] = rank[last] /\ new[b] = rank[last] + 1
      BY <1>1, <1>3, <3>1
    <3> QED
      BY <1>5, <2>1, <3>2
  <2>2. CASE c # b
    <3>1. c \in W
      BY <2>2 DEF V
    <3>2. n.prev[c] = q.prev[c] /\ q.prev[c] \in W
      BY <1>4, <1>5, <1>6, <1>7, <3>1 DEF V
    <3> QED
      BY <1>1, <1>3, <3>1, <3>2 DEF Ranked
  <2> QED
    BY <2>1, <2>2
<1>8. Ranked(n, V, new)
  BY <1>7 DEF Ranked
<1>9. Linked(n, V)
  BY <1>2, <1>3, <1>8 DEF Linked
<1> QED
  BY <1>2, <1>9 DEF n, V

\* r is q with b's place handed to the block behind it.
Skips(q, r, W, b) ==
  \A c \in W \ {b} : r.prev[c] = IF c = q.next[b] THEN q.prev[b] ELSE q.prev[c]

\* A block that leaves disturbs no other's rank.
LEMMA UnlinkRanks ==
  ASSUME NEW q \in Links, NEW W \in SUBSET Block,
         NEW home \in [W -> Prio], Paired(q, home),
         NEW rank \in [W -> Nat], Ranked(q, W, rank),
         NEW b \in W, NEW r, Skips(q, r, W, b)
  PROVE  /\ Left(rank, b) \in [W \ {b} -> Nat]
         /\ Ranked(r, W \ {b}, Left(rank, b))
<1>1. /\ Left(rank, b) \in [W \ {b} -> Nat]
      /\ \A c \in W \ {b} : Left(rank, b)[c] = rank[c]
  BY DEF Left
<1>2. ASSUME NEW c \in W \ {b}, r.prev[c] \in W \ {b}  PROVE rank[r.prev[c]] < rank[c]
  <2>1. CASE c = q.next[b]
    <3>1. r.prev[c] = q.prev[b] /\ q.prev[c] = b
      BY <2>1 DEF Paired, Skips
    <3>2. rank[q.prev[b]] < rank[b] /\ rank[b] < rank[c]
      BY <1>2, <3>1 DEF Ranked
    <3>3. rank[q.prev[b]] \in Nat /\ rank[b] \in Nat /\ rank[c] \in Nat
      BY <1>2, <3>1
    <3> QED
      BY <3>1, <3>2, <3>3
  <2>2. CASE c # q.next[b]
    BY <1>2, <2>2 DEF Ranked, Skips
  <2> QED
    BY <2>1, <2>2
<1>3. \A c \in W \ {b} : r.prev[c] \in W \ {b} => Left(rank, b)[r.prev[c]] < Left(rank, b)[c]
  BY <1>1, <1>2
<1> QED
  BY <1>1, <1>3 DEF Ranked

LEMMA TopLinks ==
  ASSUME NEW q \in Links, NEW W \in SUBSET Block, Linked(q, W), CheckWaitingQueue(q)
  PROVE  /\ TopBlock(q) \in W /\ q.next[TopBlock(q)] # NULL
         /\ PopWaitingQueue(q) \in Links
         /\ Linked(PopWaitingQueue(q), W \ {TopBlock(q)})
<1>1. PICK home \in [W -> Prio], rank \in [W -> Nat] : Paired(q, home) /\ Ranked(q, W, rank)
  BY DEF Linked
<1> DEFINE b == TopBlock(q)
           r == PopWaitingQueue(q)
           p == TopPrio(q)
<1>2. /\ b \in W /\ r \in Links /\ Paired(r, Left(home, b))
      /\ Left(home, b) \in [W \ {b} -> Prio]
  BY <1>1, TopPairs DEF Left
<1>3. p \in Prio /\ b = q.next[p] /\ r = PopWaitingQueuePrio(q, p)
  BY TopPrioFound DEF TopBlock, PopWaitingQueue
<1> HIDE DEF b, r, p
<1>4. q.prev[b] = p /\ q.next[b] \in Prio \cup W /\ b \notin Prio
  BY <1>1, <1>2, <1>3, CellsApart DEF Paired
<1>5. q.next[b] # NULL
  BY <1>4, CellsApart
<1>6. Skips(q, r, W, b)
  BY <1>2, <1>3, <1>4, CellsApart DEF PopWaitingQueuePrio, Links, Cell, Skips
<1>7. Left(rank, b) \in [W \ {b} -> Nat] /\ Ranked(r, W \ {b}, Left(rank, b))
  BY <1>1, <1>2, <1>6, UnlinkRanks
<1>8. Linked(r, W \ {b})
  BY <1>2, <1>7 DEF Linked
<1> QED
  BY <1>2, <1>5, <1>8 DEF b, r

LEMMA DequeueLinks ==
  ASSUME NEW q \in Links, NEW W \in SUBSET Block, Linked(q, W), NEW b \in W
  PROVE  /\ DequeueWaitingQueue(q, b) \in Links
         /\ Linked(DequeueWaitingQueue(q, b), W \ {b})
<1>1. PICK home \in [W -> Prio], rank \in [W -> Nat] : Paired(q, home) /\ Ranked(q, W, rank)
  BY DEF Linked
<1> DEFINE r == DequeueWaitingQueue(q, b)
<1>2. /\ r \in Links /\ Paired(r, Left(home, b))
      /\ Left(home, b) \in [W \ {b} -> Prio]
  BY <1>1, DequeuePairs DEF Left
<1>3. /\ q.next[b] \in Prio \cup W /\ q.prev[b] \in Prio \cup W
      /\ q.next[b] # NULL /\ q.prev[b] # NULL
  BY <1>1, CellsApart DEF Paired
<1>4. r = [next |-> [q.next EXCEPT ![q.prev[b]] = q.next[b]],
           prev |-> [q.prev EXCEPT ![q.next[b]] = q.prev[b]]]
  BY <1>3 DEF DequeueWaitingQueue
<1>5. Skips(q, r, W, b)
  BY <1>4 DEF Links, Cell, Skips
<1> HIDE DEF r
<1>6. Left(rank, b) \in [W \ {b} -> Nat] /\ Ranked(r, W \ {b}, Left(rank, b))
  BY <1>1, <1>2, <1>5, UnlinkRanks
<1>7. Linked(r, W \ {b})
  BY <1>2, <1>6 DEF Linked
<1> QED
  BY <1>2, <1>7 DEF r

-----------------------------------------------------------------------------
(* The driver's record with a name for the type of each field, so that a     *)
(* step which is about some fields need not look into the others.            *)

States == [Block -> State]
Lefts == [Block -> Nat]
Owing == [Block -> {0, 1}]
Muted == SUBSET Block
Executing == Block \cup {NULL}
CancelCallbacks == {NULL, "sync", "prepared"}
MotorStates == {"working", "pendingStop"}
LastStates == {"busy", "downRotation", "coverClosedCmd"}
Counts == 0 .. 2
Errors == ErrorCode \cup {"none"}
Fifos == Seq(Callback)
Stores == (Stage \X {1, 2, 3}) \cup {NULL}
Closings == [Thread -> Block \cup {NULL}]
Sleeping == SUBSET Thread
Flags == BOOLEAN
Looks == {"no", "asked", "refused"}
Deaths == {"no", "fatal", "spinning", "nullWrite", "astray"}

Fields ==
  [q : Links, state : States, left : Lefts, owed : Owing, muted : Muted,
   executing : Executing, canceling : Flags, cancelCallback : CancelCallbacks,
   breaking : Flags, resume : Resume, motorState : MotorStates,
   waitOpen : Flags, waitClose : Flags, preparing : Looks,
   coverAlarm : Flags, resetAlarm : Flags, fatalAlarm : Flags,
   lastState : LastStates, retries : Counts, lastError : Errors,
   fifo : Fifos, store : Stores, closing : Closings, asleep : Sleeping,
   prepared : Flags, known : Flags, dead : Deaths]

LEMMA DriverFields == Driver = Fields
BY DEF Driver, Fields, States, Lefts, Owing, Muted, Executing, CancelCallbacks,
       MotorStates, LastStates, Counts, Errors, Fifos, Stores, Closings, Sleeping,
       Flags, Looks, Deaths

-----------------------------------------------------------------------------
(* The invariant of the driver.  It is stated of a record e of its variables *)
(* and of the requests x that are under way once the step is over: while a   *)
(* request is answered, e.fifo still has it at its head.                     *)

\* The requests of a command, which nothing but its answer follows.
Request == Callback \ Aside

\* The request r of a command is the last: before it there may be those that
\* clear the interrupt of the cover and a look at the cover.
EndsWith(x, r) ==
  \/ x = <<r>> \/ x = <<"none", r>> \/ x = <<"none", "none", r>>
  \/ x = <<"PrepareCover", r>> \/ x = <<"PrepareCover", "none", r>>

\* No request, or only a look at the cover.
Still(x) == x = <<>> \/ x = <<"PrepareCover">>

\* A look at the cover is under way when the driver thinks so.
Looking(e, x) == e.preparing = "asked" <=> x # <<>> /\ Head(x) = "PrepareCover"

\* W is queued: its blocks have work left and callbacks to get, and the others
\* that do not execute have ended.  Until a reset is prepared (all), W has every
\* waiting block.
Listed(e, W, all) ==
  /\ W \subseteq Block \ {Inquiry} /\ Linked(e.q, W)
  /\ \A b \in W : e.state[b] = "waiting" /\ e.left[b] # 0 /\ e.owed[b] = 1
  /\ \A b \in Block \ {e.executing} :
       /\ e.state[b] \in {"ended", "waiting"}
       /\ all => (e.state[b] = "waiting" => b \in W)

NoAlarm(e) == ~e.resetAlarm /\ ~e.fatalAlarm /\ e.store = NULL
NoWatch(e) == ~e.coverAlarm /\ ~e.waitOpen /\ ~e.waitClose

\* Between two commands: nothing will call the driver back for one.  A watch of
\* the cover may have been left behind, and then the next command waits for it
\* too; and so may a request that clears the interrupt, and then the next one
\* starts with a reset.
Between(e, x) ==
  /\ NoAlarm(e) /\ ~e.canceling
  /\ ~e.waitOpen /\ (e.coverAlarm <=> e.waitClose)
  /\ e.waitClose => e.resume = "coverOpened"
  /\ e.resume \in {"none", "ok"} => e.motorState = "working"
  /\ Still(x) \/ x = <<"none">>
  /\ x = <<"none">> => e.resume = "motorOff"

Idle(e, x) == e.executing = NULL /\ Between(e, x)

\* The command in hand is neither queued nor waiting for the cover.
InHand(e) ==
  e.state[e.executing] \in {"busy", "coverClosed"} /\ e.motorState = "working"

Asking(e, x) ==
  /\ NoAlarm(e) /\ NoWatch(e)
  /\ \E r \in Request :
       /\ EndsWith(x, r)
       /\ r # "Error" => InHand(e)
       /\ r = "Busy" => e.known

Resetting(e, x) ==
  /\ e.resetAlarm /\ ~e.fatalAlarm /\ e.store = NULL /\ NoWatch(e)
  /\ InHand(e) /\ Still(x)

Logging(e, x) ==
  /\ ~e.resetAlarm /\ ~e.fatalAlarm /\ e.store # NULL /\ NoWatch(e)
  /\ e.store[2] = 3 => InHand(e)
  /\ Still(x)

Showing(e, x) ==
  ~e.resetAlarm /\ e.fatalAlarm /\ e.store = NULL /\ NoWatch(e) /\ Still(x)

Watching(e, x) ==
  /\ NoAlarm(e) /\ e.coverAlarm /\ (e.waitOpen <=> ~e.waitClose) /\ ~e.canceling
  /\ e.state[e.executing] \in Waits
  /\ e.waitClose => e.state[e.executing] = "coverOpened"
  /\ Still(x)

\* The command that executes.
InWork(e, W) ==
  /\ e.executing \in Block \ W
  /\ e.left[e.executing] # 0 /\ e.owed[e.executing] = 1
  /\ e.resume = "none"

\* A command that may be repeated as a read goes to a disc that is known.
Knows(e) == e.known \/ e.resetAlarm \/ e.lastState # "busy"

Driven(e, x, W) ==
  /\ InWork(e, W) /\ Knows(e)
  /\ \/ Asking(e, x) \/ Resetting(e, x) \/ Logging(e, x) \/ Showing(e, x)
     \/ Watching(e, x)

Phase(e, x, W, all) ==
  /\ e \in Fields /\ e.dead = "no"
  /\ Listed(e, W, all) /\ Looking(e, x)
  /\ Idle(e, x) \/ Driven(e, x, W)

Inv(e, all) == \E W \in SUBSET Block : Phase(e, e.fifo, W, all)

\* A dead driver takes no step, but has not read from an unknown disc either.
ReadKnown(e) == (\E i \in DOMAIN e.fifo : e.fifo[i] = "Busy") => e.known

\* The request that IOS refused is the last.
LeftAlone ==
  refused /\ d.dead = "no" => \E r \in Request : EndsWith(d.fifo, r)

IInv ==
  /\ TypeOK /\ d.dead # "spinning" /\ ReadKnown(d)
  /\ d.dead = "no" => Inv(d, reset = "no")
  /\ LeftAlone

-----------------------------------------------------------------------------
(* What a step leaves alone *)

SameJobs(e, n) ==
  /\ n.q = e.q /\ n.state = e.state /\ n.left = e.left /\ n.owed = e.owed
  /\ n.executing = e.executing

SameWatch(e, n) ==
  /\ n.waitOpen = e.waitOpen /\ n.waitClose = e.waitClose
  /\ n.preparing = e.preparing /\ n.coverAlarm = e.coverAlarm

SameAlarms(e, n) ==
  /\ n.resetAlarm = e.resetAlarm /\ n.fatalAlarm = e.fatalAlarm
  /\ n.store = e.store /\ n.dead = e.dead

SameDrive(e, n) ==
  /\ n.motorState = e.motorState /\ n.lastState = e.lastState /\ n.known = e.known

\* All but the jobs, or all but the requests.
SameRest(e, n) ==
  /\ SameWatch(e, n) /\ SameAlarms(e, n) /\ SameDrive(e, n)
  /\ n.canceling = e.canceling /\ n.resume = e.resume

SameButFifo(e, n) == SameJobs(e, n) /\ SameRest(e, n)

Same(e, n) == SameButFifo(e, n) /\ n.fifo = e.fifo

\* The driver has room for the requests a command can have under way, and a
\* caller knows when it no longer serves.
Scope == MaxContexts >= 4 /\ ~LateCalls

\* The requests under way when the step is over, and answers says that it
\* answers the first.
Rest(e, answers) == IF answers THEN Tail(e.fifo) ELSE e.fifo

\* Not more than the request that is answered, or one that is no command's.
Brief(e, answers) ==
  /\ Len(e.fifo) <= 1 /\ (answers => Len(e.fifo) = 1)
  /\ Still(Rest(e, answers)) \/ Rest(e, answers) = <<"none">>
  /\ Looking(e, Rest(e, answers))

-----------------------------------------------------------------------------
(* Requests *)

LEMMA AppendOne ==
  ASSUME NEW a, NEW r
  PROVE  Append(<<a>>, r) = <<a, r>> /\ Len(Append(<<a>>, r)) = 2
<1> DEFINE t == Append(<<a>>, r)
<1>1. DOMAIN t = 1..2 /\ t[1] = a /\ t[2] = r /\ t \in Seq({a, r})
  OBVIOUS
<1> HIDE DEF t
<1>2. t = <<a, r>> /\ Len(t) = 2
  BY <1>1
<1> QED
  BY <1>2 DEF t

LEMMA SendDoes ==
  ASSUME Scope, NEW e \in Fields, Len(e.fifo) < 3, NEW r \in Callback,
         NEW n, n = Send(e, r)
  PROVE  /\ n \in Fields /\ SameButFifo(e, n) /\ n = [e EXCEPT !.fifo = Append(e.fifo, r)]
         /\ n.fifo = Append(e.fifo, r) /\ Len(n.fifo) = Len(e.fifo) + 1
<1>1. e.fifo \in Fifos
  BY DEF Fields
<1> DEFINE x == Append(e.fifo, r)
<1>2. Len(e.fifo) \in Nat /\ x \in Fifos /\ Len(x) = Len(e.fifo) + 1
  BY <1>1 DEF Fifos
<1>3. n = [e EXCEPT !.fifo = x]
  <2>1. CASE e.preparing = "refused"
    <3>1. InUse(e) = Len(e.fifo) + 1
      BY <2>1 DEF InUse
    <3> QED
      BY <1>2, <3>1, DriverAssumption DEF Scope, Send
  <2>2. CASE e.preparing # "refused"
    <3>1. InUse(e) = Len(e.fifo) + 0
      BY <2>2 DEF InUse
    <3> QED
      BY <1>2, <3>1, DriverAssumption DEF Scope, Send
  <2> QED
    BY <2>1, <2>2
<1>4. x = Append(e.fifo, r)
  OBVIOUS
<1> HIDE DEF x
<1>5. n \in Fields /\ n.fifo = x
  BY <1>2, <1>3 DEF Fields
<1>6. SameButFifo(e, n)
  BY <1>3 DEF Fields, SameButFifo, SameJobs, SameRest, SameWatch, SameAlarms, SameDrive
<1> QED
  BY <1>2, <1>3, <1>4, <1>5, <1>6

LEMMA SameTwice ==
  ASSUME NEW e, NEW s, NEW n, SameButFifo(e, s), SameButFifo(s, n)
  PROVE  SameButFifo(e, n)
BY DEF SameButFifo, SameJobs, SameRest, SameWatch, SameAlarms, SameDrive

LEMMA SendClearedDoes ==
  ASSUME Scope, NEW e \in Fields, Len(e.fifo) < 2, NEW r \in Callback,
         NEW n, n = SendCleared(e, r)
  PROVE  /\ n \in Fields /\ SameButFifo(e, n)
         /\ n.fifo = Append(Append(e.fifo, "none"), r)
<1> DEFINE s == Send(e, "none")
<1>1. Len(e.fifo) \in Nat /\ "none" \in Callback /\ n = Send(s, r)
  BY DEF Fields, Fifos, Callback, SendCleared
<1>2. s = Send(e, "none")
  OBVIOUS
<1> HIDE DEF s
<1>3. /\ s \in Fields /\ SameButFifo(e, s) /\ s.fifo = Append(e.fifo, "none")
      /\ Len(s.fifo) = Len(e.fifo) + 1
  BY <1>1, <1>2, SendDoes
<1>4. Len(s.fifo) < 3
  BY <1>1, <1>3
<1>5. n \in Fields /\ SameButFifo(s, n) /\ n.fifo = Append(s.fifo, r)
  BY <1>1, <1>3, <1>4, SendDoes
<1> QED
  BY <1>3, <1>5, SameTwice

\* What is under way after a brief moment and a request more.
LEMMA RestAsked ==
  ASSUME NEW e \in Fields, NEW answers \in BOOLEAN, Brief(e, answers), NEW r, NEW n,
         n.preparing = e.preparing, r # "PrepareCover",
         \/ n.fifo = Append(e.fifo, r)
         \/ n.fifo = Append(Append(e.fifo, "none"), r)
  PROVE  EndsWith(Rest(n, answers), r) /\ Looking(n, Rest(n, answers))
<1>1. e.fifo \in Seq(Callback)
  BY DEF Fields, Fifos
<1>2. CASE answers
  <2>1. PICK c : e.fifo = <<c>>
    BY <1>1, <1>2 DEF Brief
  <2>2. Rest(e, answers) = <<>>
    BY <1>2, <2>1 DEF Rest
  <2>3. e.preparing # "asked"
    BY <2>2 DEF Brief, Looking
  <2>4. n.fifo = <<c, r>> \/ n.fifo = <<c, "none", r>>
    BY <2>1
  <2>5. Rest(n, answers) = <<r>> \/ Rest(n, answers) = <<"none", r>>
    <3>1. Tail(<<c, r>>) = <<r>> /\ Tail(<<c, "none", r>>) = <<"none", r>>
      OBVIOUS
    <3>2. Rest(n, answers) = Tail(n.fifo)
      BY <1>2 DEF Rest
    <3> QED
      BY <2>4, <3>1, <3>2
  <2>6. Head(<<r>>) = r /\ Head(<<"none", r>>) = "none"
    OBVIOUS
  <2> QED
    BY <2>3, <2>5, <2>6 DEF EndsWith, Looking
<1>3. CASE ~answers
  <2>1. Rest(e, answers) = e.fifo /\ Rest(n, answers) = n.fifo
    BY <1>3 DEF Rest
  <2>2. e.preparing = "asked" <=> e.fifo # <<>> /\ Head(e.fifo) = "PrepareCover"
    BY <2>1 DEF Brief, Looking
  <2>3. CASE e.fifo = <<>>
    <3>1. n.fifo = <<r>> \/ n.fifo = <<"none", r>>
      BY <2>3
    <3>2. /\ Head(<<r>>) = r /\ <<r>> # <<>>
          /\ Head(<<"none", r>>) = "none" /\ <<"none", r>> # <<>>
      OBVIOUS
    <3>3. e.preparing = "asked" <=> FALSE
      BY <2>2, <2>3
    <3>4. Looking(n, n.fifo)
      BY <3>1, <3>2, <3>3 DEF Looking
    <3>5. EndsWith(n.fifo, r)
      BY <3>1 DEF EndsWith
    <3> QED
      BY <2>1, <3>4, <3>5
  <2>4. CASE e.fifo = <<"PrepareCover">>
    <3>1. n.fifo = <<"PrepareCover", r>> \/ n.fifo = <<"PrepareCover", "none", r>>
      BY <2>4
    <3>2. /\ Head(<<"PrepareCover", r>>) = "PrepareCover" /\ <<"PrepareCover", r>> # <<>>
          /\ Head(<<"PrepareCover", "none", r>>) = "PrepareCover" /\ <<"PrepareCover", "none", r>> # <<>>
      OBVIOUS
    <3>3. e.preparing = "asked" <=> TRUE
      BY <2>2, <2>4
    <3>4. Looking(n, n.fifo)
      BY <3>1, <3>2, <3>3 DEF Looking
    <3>5. EndsWith(n.fifo, r)
      BY <3>1 DEF EndsWith
    <3> QED
      BY <2>1, <3>4, <3>5
  <2>5. CASE e.fifo = <<"none">>
    <3>1. n.fifo = <<"none", r>> \/ n.fifo = <<"none", "none", r>>
      BY <2>5
    <3>2. /\ Head(<<"none", r>>) = "none" /\ <<"none", r>> # <<>>
          /\ Head(<<"none", "none", r>>) = "none" /\ <<"none", "none", r>> # <<>>
      OBVIOUS
    <3>3. e.preparing = "asked" <=> FALSE
      BY <2>2, <2>5
    <3>4. Looking(n, n.fifo)
      BY <3>1, <3>2, <3>3 DEF Looking
    <3>5. EndsWith(n.fifo, r)
      BY <3>1 DEF EndsWith
    <3> QED
      BY <2>1, <3>4, <3>5
  <2> QED
    BY <2>1, <2>3, <2>4, <2>5 DEF Brief, Still
<1> QED
  BY <1>2, <1>3

-----------------------------------------------------------------------------
(* The states of the driver *)

\* A command in work for which nothing will call the driver back yet.
Taken(e, answers, W, all) ==
  /\ e \in Fields /\ e.dead = "no" /\ Listed(e, W, all) /\ InWork(e, W)
  /\ NoAlarm(e) /\ Brief(e, answers)

Held(e, answers, W, all) == Taken(e, answers, W, all) /\ NoWatch(e)

LEMMA JobsSame ==
  ASSUME NEW e, NEW n, SameJobs(e, n), NEW W, NEW all
  PROVE  /\ Listed(e, W, all) => Listed(n, W, all)
         /\ InWork(e, W) /\ n.resume = e.resume => InWork(n, W)
<1>1. Listed(e, W, all) => Listed(n, W, all)
  BY Zenon DEF Listed, SameJobs
<1>2. InWork(e, W) /\ n.resume = e.resume => InWork(n, W)
  BY DEF InWork, SameJobs
<1> QED
  BY <1>1, <1>2

LEMMA RestSame ==
  ASSUME NEW e, NEW n, n.fifo = e.fifo, n.preparing = e.preparing, NEW answers
  PROVE  Rest(n, answers) = Rest(e, answers) /\ (Brief(e, answers) => Brief(n, answers))
<1>1. Rest(n, answers) = Rest(e, answers)
  BY DEF Rest
<1> QED
  BY <1>1 DEF Brief, Looking

LEMMA TakenSame ==
  ASSUME NEW e, NEW n \in Fields, NEW answers, NEW W, NEW all, Taken(e, answers, W, all),
         SameJobs(e, n), SameAlarms(e, n), n.preparing = e.preparing,
         n.resume = e.resume, n.fifo = e.fifo
  PROVE  Taken(n, answers, W, all) /\ Rest(n, answers) = Rest(e, answers)
<1>1. Listed(n, W, all) /\ InWork(n, W)
  BY JobsSame DEF Taken
<1>2. Brief(n, answers) /\ Rest(n, answers) = Rest(e, answers)
  BY RestSame DEF Taken
<1>3. NoAlarm(n) /\ n.dead = "no"
  BY DEF Taken, NoAlarm, SameAlarms
<1> QED
  BY <1>1, <1>2, <1>3 DEF Taken

LEMMA HeldSame ==
  ASSUME NEW e, NEW n \in Fields, NEW answers, NEW W, NEW all, Held(e, answers, W, all),
         SameJobs(e, n), SameAlarms(e, n), SameWatch(e, n),
         n.resume = e.resume, n.fifo = e.fifo
  PROVE  Held(n, answers, W, all) /\ Rest(n, answers) = Rest(e, answers)
<1>1. n.preparing = e.preparing /\ NoWatch(n)
  BY DEF Held, NoWatch, SameWatch
<1> QED
  BY <1>1, TakenSame DEF Held

\* A request of the command goes out, with or without one that clears the
\* interrupt.
LEMMA Asks ==
  ASSUME Scope, NEW e, NEW answers \in BOOLEAN, NEW W, NEW all, Held(e, answers, W, all),
         Knows(e), NEW r \in Request, r # "Error" => InHand(e), r = "Busy" => e.known,
         NEW n, n = Send(e, r) \/ n = SendCleared(e, r)
  PROVE  Phase(n, Rest(n, answers), W, all)
<1>1. e \in Fields /\ Len(e.fifo) <= 1 /\ Len(e.fifo) \in Nat /\ Brief(e, answers)
  BY DEF Held, Taken, Brief, Fields, Fifos
<1>2. Len(e.fifo) < 3 /\ Len(e.fifo) < 2
  BY <1>1
<1>3. r \in Callback /\ r # "PrepareCover"
  BY DEF Request, Aside
<1>4. /\ n \in Fields /\ SameButFifo(e, n)
      /\ n.fifo = Append(e.fifo, r) \/ n.fifo = Append(Append(e.fifo, "none"), r)
  BY <1>1, <1>2, <1>3, SendDoes, SendClearedDoes
<1>5. SameJobs(e, n) /\ n.resume = e.resume /\ n.preparing = e.preparing
  BY <1>4 DEF SameButFifo, SameRest, SameWatch
<1>6. EndsWith(Rest(n, answers), r) /\ Looking(n, Rest(n, answers))
  BY <1>1, <1>3, <1>4, <1>5, RestAsked
<1>7. Listed(n, W, all) /\ InWork(n, W)
  BY <1>5, JobsSame DEF Held, Taken
<1>8. NoAlarm(n) /\ NoWatch(n) /\ Knows(n) /\ n.dead = "no"
  BY <1>4 DEF Held, Taken, NoAlarm, NoWatch, Knows, SameButFifo, SameRest, SameAlarms,
              SameWatch, SameDrive
<1>9. (r # "Error" => InHand(n)) /\ (r = "Busy" => n.known)
  BY <1>4 DEF InHand, SameButFifo, SameJobs, SameRest, SameDrive
<1>10. Asking(n, Rest(n, answers))
  BY <1>6, <1>8, <1>9 DEF Asking
<1> QED
  BY <1>4, <1>6, <1>7, <1>8, <1>10 DEF Phase, Driven

\* The requests that ask only, from the checks after a reset to the end of an
\* error.
LEMMA PlainGood ==
  ASSUME Scope, NEW e, NEW answers \in BOOLEAN, NEW W, NEW all, Held(e, answers, W, all),
         Knows(e), InHand(e),
         NEW r \in {"GettingError", "GoToRetry", "CheckID1", "ReadingTOC",
                    "ReadingPartitionInfo", "OpenPartition2"},
         NEW n, n = Send(e, r) \/ n = SendCleared(e, r)
  PROVE  Phase(n, Rest(n, answers), W, all)
<1>1. r \in Request /\ r # "Busy"
  BY DEF Request, Callback, Aside
<1> QED
  BY <1>1, Asks

LEMMA ErrorGood ==
  ASSUME Scope, NEW e, NEW answers \in BOOLEAN, NEW W, NEW all, Held(e, answers, W, all),
         Knows(e), NEW n, n = Send(e, "Error")
  PROVE  Phase(n, Rest(n, answers), W, all)
<1>1. "Error" \in Request /\ "Error" # "Busy"
  BY DEF Request, Callback, Aside
<1> QED
  BY <1>1, Asks

\* stateBusy, of a command whose disc is known.
LEMMA BusyGood ==
  ASSUME Scope, NEW e, NEW answers \in BOOLEAN, NEW W, NEW all, Held(e, answers, W, all),
         e.known, InHand(e), NEW n, n = StateBusy(e)
  PROVE  Phase(n, Rest(n, answers), W, all)
<1> DEFINE f == [e EXCEPT !.lastState = "busy"]
<1>1. n = SendCleared(f, "Busy")
  BY DEF StateBusy
<1>2. e \in Fields /\ "busy" \in LastStates
  BY DEF Held, Taken, LastStates
<1>3. /\ f \in Fields /\ SameJobs(e, f) /\ SameAlarms(e, f) /\ SameWatch(e, f)
      /\ f.resume = e.resume /\ f.fifo = e.fifo /\ f.motorState = e.motorState
      /\ f.known = e.known
  BY <1>2 DEF Fields, SameJobs, SameAlarms, SameWatch
<1> HIDE DEF f
<1>4. Held(f, answers, W, all)
  BY <1>3, HeldSame
<1>5. Knows(f) /\ InHand(f) /\ f.known
  BY <1>3 DEF Knows, InHand, SameJobs
<1>6. "Busy" \in Request
  BY DEF Request, Callback, Aside
<1> QED
  BY <1>1, <1>4, <1>5, <1>6, Asks

\* stateDownRotation and stateCoverClosed_CMD: the checks after a reset.
LEMMA CheckGood ==
  ASSUME Scope, NEW e, NEW answers \in BOOLEAN, NEW W, NEW all, Held(e, answers, W, all),
         InHand(e), NEW n, n = StateDownRotation(e) \/ n = StateCoverClosedCmd(e)
  PROVE  Phase(n, Rest(n, answers), W, all)
<1>1. ASSUME NEW v \in {"downRotation", "coverClosedCmd"},
             NEW r \in {"DownRotation", "CoverClosed"},
             n = SendCleared([e EXCEPT !.lastState = v], r)
      PROVE  Phase(n, Rest(n, answers), W, all)
  <2> DEFINE f == [e EXCEPT !.lastState = v]
  <2>1. n = SendCleared(f, r)
    BY <1>1
  <2>2. e \in Fields /\ v \in LastStates
    BY DEF Held, Taken, LastStates
  <2>3. /\ f \in Fields /\ SameJobs(e, f) /\ SameAlarms(e, f) /\ SameWatch(e, f)
        /\ f.resume = e.resume /\ f.fifo = e.fifo /\ f.motorState = e.motorState
        /\ f.lastState = v
    BY <2>2 DEF Fields, SameJobs, SameAlarms, SameWatch
  <2> HIDE DEF f
  <2>4. Held(f, answers, W, all)
    BY <2>3, HeldSame
  <2>5. Knows(f) /\ InHand(f)
    BY <2>3 DEF Knows, InHand, SameJobs
  <2>6. r \in Request /\ r # "Busy"
    BY DEF Request, Callback, Aside
  <2> QED
    BY <2>1, <2>4, <2>5, <2>6, Asks
<1>2. CASE n = StateDownRotation(e)
  BY <1>1, <1>2 DEF StateDownRotation
<1>3. CASE n = StateCoverClosedCmd(e)
  BY <1>1, <1>3 DEF StateCoverClosedCmd
<1> QED
  BY <1>2, <1>3

\* stateCoverClosed: the drive is reset.
LEMMA ResetGood ==
  ASSUME Scope, NEW e, NEW answers \in BOOLEAN, NEW W, NEW all, Held(e, answers, W, all),
         Knows(e), e.state[e.executing] \in {"busy", "coverClosed"},
         NEW n, n = StateCoverClosed(e)
  PROVE  Phase(n, Rest(n, answers), W, all)
<1> DEFINE f == [e EXCEPT !.motorState = "working"]
<1>1. n = Send(f, "Reset")
  BY DEF StateCoverClosed
<1>2. e \in Fields /\ "working" \in MotorStates
  BY DEF Held, Taken, MotorStates
<1>3. /\ f \in Fields /\ SameJobs(e, f) /\ SameAlarms(e, f) /\ SameWatch(e, f)
      /\ f.resume = e.resume /\ f.fifo = e.fifo /\ f.motorState = "working"
      /\ f.known = e.known /\ f.lastState = e.lastState
  BY <1>2 DEF Fields, SameJobs, SameAlarms, SameWatch
<1> HIDE DEF f
<1>4. Held(f, answers, W, all)
  BY <1>3, HeldSame
<1>5. Knows(f) /\ InHand(f)
  BY <1>3 DEF Knows, InHand, SameJobs, SameAlarms
<1>6. "Reset" \in Request
  BY DEF Request, Callback, Aside
<1> QED
  BY <1>1, <1>4, <1>5, <1>6, Asks

\* __DVDStoreErrorCode begins: the log takes over.
LEMMA StoreGood ==
  ASSUME NEW e, NEW answers \in BOOLEAN, NEW W, NEW all, Held(e, answers, W, all),
         Knows(e), Still(Rest(e, answers)), NEW v \in {1, 2, 3}, v = 3 => InHand(e),
         NEW n, n = StoreErrorCode(e, v)
  PROVE  Phase(n, Rest(n, answers), W, all)
<1> DEFINE s == <<"createDir", v>>
<1>1. n = [e EXCEPT !.store = s] /\ s[2] = v
  BY DEF StoreErrorCode
<1>2. e \in Fields /\ s \in Stores
  BY DEF Held, Taken, Stores, Stage
<1>3. s # NULL
  <2>1. s \in Stage \X {1, 2, 3}
    BY DEF Stage
  <2> QED
    BY <2>1, StageAssumption
<1> HIDE DEF s
<1>4. /\ n \in Fields /\ SameJobs(e, n) /\ SameWatch(e, n) /\ SameDrive(e, n)
      /\ n.resume = e.resume /\ n.fifo = e.fifo
      /\ n.store = s /\ n.resetAlarm = e.resetAlarm /\ n.fatalAlarm = e.fatalAlarm
      /\ n.dead = e.dead
  BY <1>1, <1>2 DEF Fields, SameJobs, SameDrive, SameWatch
<1>5. Listed(n, W, all) /\ InWork(n, W)
  BY <1>4, JobsSame DEF Held, Taken
<1>6. Rest(n, answers) = Rest(e, answers) /\ Brief(n, answers)
  BY <1>4, RestSame DEF Held, Taken, SameWatch
<1>7. NoWatch(n) /\ Knows(n) /\ (v = 3 => InHand(n))
  BY <1>4 DEF Held, NoWatch, Knows, InHand, SameWatch, SameDrive, SameJobs
<1>8. Logging(n, Rest(n, answers))
  BY <1>1, <1>3, <1>4, <1>6, <1>7 DEF Logging, Held, Taken, NoAlarm
<1> QED
  BY <1>4, <1>5, <1>6, <1>7, <1>8 DEF Phase, Driven, Brief, Held, Taken

\* stateMotorStopped: the cover is watched, from now on or still.
LEMMA MotorStoppedGood ==
  ASSUME NEW e, NEW answers \in BOOLEAN, NEW W, NEW all, Taken(e, answers, W, all),
         Knows(e), ~e.canceling, Still(Rest(e, answers)), ~e.waitOpen,
         e.coverAlarm <=> e.waitClose, e.state[e.executing] \in Waits,
         e.waitClose => e.state[e.executing] = "coverOpened",
         NEW n, n = StateMotorStopped(e)
  PROVE  Phase(n, Rest(n, answers), W, all)
<1>1. e \in Fields /\ "pendingStop" \in MotorStates
  BY DEF Taken, MotorStates
<1>2. /\ n \in Fields /\ SameJobs(e, n) /\ SameAlarms(e, n)
      /\ n.resume = e.resume /\ n.fifo = e.fifo /\ n.canceling = e.canceling
      /\ n.known = e.known /\ n.lastState = e.lastState /\ n.preparing = e.preparing
      /\ n.waitClose = e.waitClose /\ n.waitOpen = ~e.waitClose /\ n.coverAlarm = TRUE
  <2>1. CASE e.waitOpen \/ e.waitClose
    <3>1. n = [e EXCEPT !.motorState = "pendingStop"]
      BY <2>1 DEF StateMotorStopped
    <3>2. n \in Fields /\ n.waitOpen = e.waitOpen /\ n.coverAlarm = e.coverAlarm
      BY <1>1, <3>1 DEF Fields
    <3>3. /\ SameJobs(e, n) /\ SameAlarms(e, n)
          /\ n.resume = e.resume /\ n.fifo = e.fifo /\ n.canceling = e.canceling
          /\ n.known = e.known /\ n.lastState = e.lastState
          /\ n.preparing = e.preparing /\ n.waitClose = e.waitClose
      BY <1>1, <3>1 DEF Fields, SameJobs, SameAlarms
    <3>4. e.waitClose = TRUE /\ e.waitOpen = FALSE /\ e.coverAlarm = TRUE
      <4>1. e.waitClose \in BOOLEAN /\ e.waitOpen \in BOOLEAN /\ e.coverAlarm \in BOOLEAN
        BY <1>1 DEF Fields, Flags
      <4> QED
        BY <2>1, <4>1
    <3>5. n.waitOpen = ~e.waitClose /\ n.coverAlarm = TRUE
      BY <3>2, <3>4
    <3> QED
      BY <3>2, <3>3, <3>5
  <2>2. CASE ~(e.waitOpen \/ e.waitClose)
    <3>1. n = [e EXCEPT !.motorState = "pendingStop", !.waitOpen = TRUE,
                        !.coverAlarm = TRUE]
      BY <2>2 DEF StateMotorStopped
    <3>2. n \in Fields /\ n.waitOpen = TRUE /\ n.coverAlarm = TRUE
      <4> DEFINE p == "pendingStop"
      <4>1. n = [e EXCEPT !.motorState = p, !.waitOpen = TRUE, !.coverAlarm = TRUE]
        BY <3>1
      <4>2. p \in MotorStates /\ TRUE \in Flags
        BY <1>1 DEF Flags
      <4> HIDE DEF p
      <4>3. ASSUME NEW t \in Flags
            PROVE  [e EXCEPT !.motorState = p, !.waitOpen = t, !.coverAlarm = t] \in Fields
        BY <1>1, <4>2 DEF Fields
      <4>4. n.waitOpen = TRUE /\ n.coverAlarm = TRUE
        BY <1>1, <4>1 DEF Fields
      <4> QED
        BY <4>1, <4>2, <4>3, <4>4
    <3>3. /\ SameJobs(e, n) /\ SameAlarms(e, n)
          /\ n.resume = e.resume /\ n.fifo = e.fifo /\ n.canceling = e.canceling
          /\ n.known = e.known /\ n.lastState = e.lastState
          /\ n.preparing = e.preparing /\ n.waitClose = e.waitClose
      BY <1>1, <3>1 DEF Fields, SameJobs, SameAlarms
    <3>4. e.waitClose = FALSE
      BY <1>1, <2>2 DEF Fields
    <3> QED
      BY <3>2, <3>3, <3>4
  <2> QED
    BY <2>1, <2>2
<1>3. Taken(n, answers, W, all) /\ Rest(n, answers) = Rest(e, answers)
  BY <1>2, TakenSame
<1>4. Watching(n, Rest(n, answers))
  BY <1>2, <1>3 DEF Watching, Taken, SameJobs
<1>5. Knows(n)
  BY <1>2 DEF Knows, SameAlarms
<1> QED
  BY <1>3, <1>4, <1>5 DEF Phase, Driven, Taken, Brief

\* The state of the command in work is set.
Marked(e, v) == [e EXCEPT !.state[e.executing] = v]

LEMMA MarkGood ==
  ASSUME NEW e, NEW answers \in BOOLEAN, NEW W, NEW all, Taken(e, answers, W, all), NEW v \in State,
         NEW n, n = Marked(e, v)
  PROVE  /\ Taken(n, answers, W, all) /\ Rest(n, answers) = Rest(e, answers)
         /\ n.state[n.executing] = v /\ SameRest(e, n) /\ n.fifo = e.fifo
         /\ n.executing = e.executing
<1> DEFINE b == e.executing
<1>1. /\ e \in Fields /\ e.state \in [Block -> State] /\ b \in Block \ W
      /\ Listed(e, W, all) /\ InWork(e, W)
  BY DEF Taken, Fields, States, InWork
<1> DEFINE s == [e.state EXCEPT ![b] = v]
<1>2. /\ n = [e EXCEPT !.state = s] /\ s \in States /\ s[b] = v
      /\ \A c \in Block \ {b} : s[c] = e.state[c]
  BY <1>1 DEF States, Marked
<1> HIDE DEF s
<1>3. /\ n \in Fields /\ n.state = s /\ SameRest(e, n) /\ n.fifo = e.fifo
      /\ n.q = e.q /\ n.left = e.left /\ n.owed = e.owed /\ n.executing = e.executing
  BY <1>1, <1>2 DEF Fields, SameRest, SameWatch, SameAlarms, SameDrive
<1>4. Listed(n, W, all)
  BY <1>1, <1>2, <1>3 DEF Listed
<1>5. InWork(n, W) /\ n.preparing = e.preparing /\ NoAlarm(n) /\ n.dead = "no"
  BY <1>1, <1>3 DEF InWork, SameRest, SameWatch, SameAlarms, Taken, NoAlarm
<1>6. Brief(n, answers) /\ Rest(n, answers) = Rest(e, answers)
  BY <1>3, <1>5, RestSame DEF Taken
<1> QED
  BY <1>2, <1>3, <1>4, <1>5, <1>6 DEF Taken

-----------------------------------------------------------------------------
(* From one command to the next *)

\* No command is in hand: all that wait are queued.
Settled(e, W, all) ==
  /\ e \in Fields /\ e.dead = "no"
  /\ W \subseteq Block \ {Inquiry} /\ Linked(e.q, W)
  /\ \A b \in W : e.state[b] = "waiting" /\ e.left[b] # 0 /\ e.owed[b] = 1
  /\ \A b \in Block :
       /\ e.state[b] \in {"ended", "waiting"}
       /\ all => (e.state[b] = "waiting" => b \in W)

\* The first of the queued blocks is taken off.
Taking(e, b) == [e EXCEPT !.q = PopWaitingQueue(@), !.executing = b,
                          !.known = TRUE, !.resume = "none"]

LEMMA TakingDoes ==
  ASSUME NEW e \in Fields, PopWaitingQueue(e.q) \in Links, NEW b \in Block,
         NEW n, n = Taking(e, b)
  PROVE  /\ n \in Fields /\ n.q = PopWaitingQueue(e.q) /\ n.executing = b /\ n.known
         /\ n.resume = "none" /\ n.state = e.state /\ n.left = e.left /\ n.owed = e.owed
         /\ n.fifo = e.fifo /\ n.motorState = e.motorState /\ n.canceling = e.canceling
         /\ SameWatch(e, n) /\ SameAlarms(e, n)
<1> DEFINE r == PopWaitingQueue(e.q)
<1>1. r \in Links
  OBVIOUS
<1>2. n = [e EXCEPT !.q = r, !.executing = b, !.known = TRUE, !.resume = "none"]
  BY DEF Taking
<1>3. b \in Executing
  BY DEF Executing
<1> HIDE DEF r
<1> DEFINE m == [e EXCEPT !.q = r, !.executing = b]
<1>4. /\ m \in Fields /\ m.q = r /\ m.executing = b
      /\ m.state = e.state /\ m.left = e.left /\ m.owed = e.owed
      /\ m.fifo = e.fifo /\ SameRest(e, m)
  BY <1>1, <1>2, <1>3 DEF Fields, SameRest, SameWatch, SameAlarms, SameDrive
<1>5. /\ n \in Fields /\ n.q = r /\ n.executing = b /\ n.known /\ n.resume = "none"
      /\ n.state = e.state /\ n.left = e.left /\ n.owed = e.owed
      /\ n.fifo = e.fifo /\ n.motorState = e.motorState /\ n.canceling = e.canceling
      /\ SameWatch(e, n) /\ SameAlarms(e, n)
  <2> DEFINE v == "none"
  <2>1. v \in Resume /\ TRUE \in BOOLEAN /\ v = "none"
    BY DEF Resume
  <2>2. n = [m EXCEPT !.known = TRUE, !.resume = v]
    BY <1>1, <1>2 DEF Fields
  <2> HIDE DEF v, m
  <2>3. ASSUME NEW t \in Flags  PROVE [m EXCEPT !.known = t, !.resume = v] \in Fields
    BY <1>4, <2>1 DEF Fields
  <2>4. n \in Fields
    BY <2>2, <2>3 DEF Flags
  <2>5. /\ n.q = m.q /\ n.executing = m.executing /\ n.known = TRUE /\ n.resume = v
        /\ n.state = m.state /\ n.left = m.left /\ n.owed = m.owed
        /\ n.fifo = m.fifo /\ n.motorState = m.motorState /\ n.canceling = m.canceling
        /\ SameWatch(m, n) /\ SameAlarms(m, n)
    BY <1>4, <2>2 DEF Fields, SameWatch, SameAlarms
  <2>6. SameWatch(e, n) /\ SameAlarms(e, n)
    BY <1>4, <2>5 DEF SameRest, SameWatch, SameAlarms
  <2> QED
    BY <1>4, <2>1, <2>4, <2>5, <2>6 DEF SameRest, SameDrive
<1> QED
  BY <1>5 DEF r

LEMMA TakeFirst ==
  ASSUME NEW e, NEW answers \in BOOLEAN, NEW W, NEW all, Settled(e, W, all),
         Between(e, Rest(e, answers)), Brief(e, answers), CheckWaitingQueue(e.q),
         NEW b, b = TopBlock(e.q),
         NEW n, n = Taking(e, b)
  PROVE  /\ Taken(n, answers, W \ {b}, all) /\ b \in Block \ {Inquiry}
         /\ e.q.next[b] # NULL
         /\ Rest(n, answers) = Rest(e, answers) /\ SameWatch(e, n) /\ n.fifo = e.fifo
         /\ n.executing = b /\ n.known /\ n.motorState = e.motorState
         /\ n.canceling = e.canceling
<1> DEFINE r == PopWaitingQueue(e.q)
<1>1. e \in Fields /\ e.q \in Links /\ W \in SUBSET Block /\ Linked(e.q, W)
  BY DEF Settled, Fields
<1>2. /\ b \in W /\ e.q.next[b] # NULL /\ r \in Links /\ Linked(r, W \ {b})
  BY <1>1, TopLinks
<1>3. b \in Block \ {Inquiry}
  BY <1>1, <1>2 DEF Settled
<1>4. /\ n \in Fields /\ n.q = r /\ n.executing = b /\ n.known /\ n.resume = "none"
      /\ n.state = e.state /\ n.left = e.left /\ n.owed = e.owed
      /\ n.fifo = e.fifo /\ n.motorState = e.motorState /\ n.canceling = e.canceling
      /\ SameWatch(e, n) /\ SameAlarms(e, n)
  BY <1>1, <1>2, <1>3, TakingDoes
<1> HIDE DEF r
<1>5. Listed(n, W \ {b}, all)
  BY <1>1, <1>2, <1>4 DEF Listed, Settled
<1>6. InWork(n, W \ {b})
  BY <1>1, <1>2, <1>3, <1>4 DEF InWork, Settled
<1>7. NoAlarm(n) /\ n.dead = "no"
  BY <1>4 DEF Settled, Between, NoAlarm, SameAlarms
<1>8. Rest(n, answers) = Rest(e, answers) /\ Brief(n, answers)
  <2>1. n.fifo = e.fifo /\ n.preparing = e.preparing
    BY <1>4 DEF SameWatch
  <2> QED
    BY <2>1, RestSame
<1> QED
  BY <1>2, <1>3, <1>4, <1>5, <1>6, <1>7, <1>8 DEF Taken

\* stateReady: the driver goes on with the next command, or rests.
LEMMA ReadyGood ==
  ASSUME Scope, NEW e, NEW answers \in BOOLEAN, NEW W, NEW all, Settled(e, W, all),
         Between(e, Rest(e, answers)), Brief(e, answers), NEW n, n = StateReady(e)
  PROVE  \E V \in SUBSET Block : Phase(n, Rest(n, answers), V, all)
<1>1. CASE ~CheckWaitingQueue(e.q)
  <2>1. n = [e EXCEPT !.executing = NULL] /\ e \in Fields /\ NULL \in Executing
    BY <1>1 DEF StateReady, Settled, Executing
  <2>2. /\ n \in Fields /\ n.executing = NULL /\ n.dead = e.dead
        /\ n.q = e.q /\ n.state = e.state /\ n.left = e.left /\ n.owed = e.owed
        /\ SameRest(e, n) /\ n.fifo = e.fifo /\ n.preparing = e.preparing
    BY <2>1 DEF Fields, SameRest, SameWatch, SameAlarms, SameDrive
  <2>3. Listed(n, W, all)
    BY <2>2 DEF Listed, Settled
  <2>4. Rest(n, answers) = Rest(e, answers) /\ Brief(n, answers)
    BY <2>2, RestSame
  <2>5. Between(n, Rest(n, answers))
    BY <2>2, <2>4 DEF Between, NoAlarm, SameRest, SameWatch, SameAlarms, SameDrive
  <2>6. Phase(n, Rest(n, answers), W, all)
    BY <2>2, <2>3, <2>4, <2>5 DEF Phase, Idle, Brief, Settled
  <2> QED
    BY <2>6 DEF Settled
<1>2. CASE CheckWaitingQueue(e.q)
  <2> DEFINE b == TopBlock(e.q)
             f == Taking(e, b)
             V == W \ {b}
  <2>1. /\ Taken(f, answers, W \ {b}, all) /\ b \in Block \ {Inquiry}
        /\ e.q.next[b] # NULL
        /\ Rest(f, answers) = Rest(e, answers) /\ SameWatch(e, f) /\ f.fifo = e.fifo
        /\ f.executing = b /\ f.known /\ f.motorState = e.motorState
        /\ f.canceling = e.canceling
    <3>1. b = TopBlock(e.q) /\ f = Taking(e, b)
      OBVIOUS
    <3> HIDE DEF f, b
    <3> QED
      BY <1>2, <3>1, TakeFirst
  <2>2. V \in SUBSET Block
    BY DEF Settled
  <2>3. n = CASE e.resume \in Waits \ {"wrongDiskID"} ->
                   StateMotorStopped([f EXCEPT !.state[b] = e.resume])
              [] e.resume \in {"wrongDiskID", "diskChanged", "motorOff"} ->
                   StateCoverClosed([f EXCEPT !.state[b] = "coverClosed"])
              [] e.resume = "ok" -> StateError(f)
              [] e.resume = "none" /\ e.motorState = "working" ->
                   StateBusy([f EXCEPT !.state[b] = "busy"])
              [] OTHER -> StateCoverClosed(f)
    <3>1. f = [[e EXCEPT !.q = PopWaitingQueue(@), !.executing = b,
                         !.known = TRUE] EXCEPT !.resume = "none"]
      BY DEF Settled, Fields, Taking
    <3> HIDE DEF f
    <3> QED
      BY <1>2, <2>1, <3>1 DEF StateReady
  <2>4. e.resume \in Resume
    BY DEF Settled, Fields
  <2>5. Knows(f) /\ Taken(f, answers, V, all)
    BY <2>1 DEF Knows
  <2> HIDE DEF f, b, V
  <2>6. CASE e.resume \in Waits \ {"wrongDiskID"}
    <3> DEFINE m == Marked(f, e.resume)
    <3>1. m = Marked(f, e.resume) /\ e.resume \in State
      BY <2>6 DEF State
    <3>2. n = StateMotorStopped(m)
      BY <2>1, <2>3, <2>6 DEF Marked, Waits
    <3> HIDE DEF m
    <3>3. /\ Taken(m, answers, V, all) /\ Rest(m, answers) = Rest(f, answers)
          /\ m.state[m.executing] = e.resume /\ SameRest(f, m)
      BY <2>1, <2>5, <3>1, MarkGood
    <3>4. Knows(m) /\ ~m.canceling /\ ~m.waitOpen /\ (m.coverAlarm <=> m.waitClose)
      BY <2>1, <2>5, <3>3 DEF Between, Knows, SameRest, SameWatch, SameDrive, SameAlarms
    <3>5. m.waitClose => m.state[m.executing] = "coverOpened"
      BY <2>1, <3>3 DEF Between, SameRest, SameWatch
    <3>6. Still(Rest(m, answers))
      BY <2>1, <2>6, <3>3 DEF Between, Waits
    <3>7. Phase(n, Rest(n, answers), V, all)
      BY <2>6, <3>2, <3>3, <3>4, <3>5, <3>6, MotorStoppedGood
    <3> QED
      BY <2>2, <3>7
  <2>7. CASE e.resume \notin Waits \ {"wrongDiskID"}
    <3>1. NoWatch(f) /\ Held(f, answers, V, all)
      BY <2>1, <2>5, <2>7 DEF Between, NoWatch, SameWatch, Waits, Held
    <3>2. ASSUME NEW v \in {"busy", "coverClosed"},
                 NEW m, m = Marked(f, v)
          PROVE  /\ Held(m, answers, V, all) /\ Knows(m) /\ m.known
                 /\ m.state[m.executing] = v /\ m.motorState = e.motorState
      <4>1. v \in State
        BY DEF State
      <4>2. /\ Taken(m, answers, V, all) /\ m.state[m.executing] = v /\ SameRest(f, m)
        BY <2>1, <2>5, <3>2, <4>1, MarkGood
      <4>3. NoWatch(m) /\ m.known /\ m.motorState = e.motorState
        BY <2>1, <3>1, <4>2 DEF NoWatch, SameRest, SameWatch, SameDrive
      <4> QED
        BY <4>2, <4>3 DEF Held, Knows
    <3>3. CASE e.resume \in {"wrongDiskID", "diskChanged", "motorOff"}
      <4> DEFINE m == Marked(f, "coverClosed")
      <4>1. n = StateCoverClosed(m)
        BY <2>1, <2>3, <2>7, <3>3 DEF Marked, Waits
      <4>2. Held(m, answers, V, all) /\ Knows(m) /\ m.state[m.executing] = "coverClosed"
        BY <3>2
      <4> HIDE DEF m
      <4>3. Phase(n, Rest(n, answers), V, all)
        BY <4>1, <4>2, ResetGood
      <4> QED
        BY <2>2, <4>3
    <3>4. CASE e.resume = "ok"
      <4>1. n = StoreErrorCode(f, 1)
        BY <2>3, <3>4 DEF StateError, Waits
      <4>2. Still(Rest(f, answers))
        BY <2>1, <3>4 DEF Between
      <4>3. Phase(n, Rest(n, answers), V, all)
        BY <2>5, <3>1, <4>1, <4>2, StoreGood
      <4> QED
        BY <2>2, <4>3
    <3>5. CASE e.resume = "none"
      <4> DEFINE m == Marked(f, "busy")
      <4>1. e.motorState = "working"
        BY <3>5 DEF Between
      <4>2. n = StateBusy(m)
        BY <2>1, <2>3, <3>5, <4>1 DEF Marked, Waits
      <4>3. /\ Held(m, answers, V, all) /\ m.known /\ m.state[m.executing] = "busy"
            /\ m.motorState = "working"
        BY <3>2, <4>1
      <4> HIDE DEF m
      <4>4. InHand(m)
        BY <4>3 DEF InHand
      <4>5. Phase(n, Rest(n, answers), V, all)
        BY <4>2, <4>3, <4>4, BusyGood
      <4> QED
        BY <2>2, <4>5
    <3> QED
      BY <2>4, <2>7, <3>3, <3>4, <3>5 DEF Resume, Waits
  <2> QED
    BY <2>6, <2>7
<1> QED
  BY <1>1, <1>2

-----------------------------------------------------------------------------
(* Issuing and ending a command *)

\* What issueCommand does before it looks whether the driver is free.
Queued(e, b, p) ==
  [e EXCEPT !.state[b] = "waiting", !.left[b] = Chunks[b], !.owed[b] = @ + 1,
            !.muted = @ \ {b}, !.q = PushWaitingQueue(@, p, b)]

\* n differs from e in the jobs, and there in nothing but block b.
OnlyBlock(e, n, b) ==
  /\ SameRest(e, n) /\ n.fifo = e.fifo /\ n.executing = e.executing
  /\ \A c \in Block \ {b} :
       n.state[c] = e.state[c] /\ n.left[c] = e.left[c] /\ n.owed[c] = e.owed[c]

LEMMA QueuedDoes ==
  ASSUME NEW e \in Fields, NEW b \in Block, e.owed[b] = 0, NEW p \in Prio,
         PushWaitingQueue(e.q, p, b) \in Links, NEW n, n = Queued(e, b, p)
  PROVE  /\ n \in Fields /\ OnlyBlock(e, n, b) /\ n.q = PushWaitingQueue(e.q, p, b)
         /\ n.state[b] = "waiting" /\ n.left[b] # 0 /\ n.owed[b] = 1
<1> DEFINE s == [e.state EXCEPT ![b] = "waiting"]
           l == [e.left EXCEPT ![b] = Chunks[b]]
           o == [e.owed EXCEPT ![b] = 1]
           m == e.muted \ {b}
           r == PushWaitingQueue(e.q, p, b)
<1>1. /\ e.state \in [Block -> State] /\ e.left \in [Block -> Nat]
      /\ e.owed \in [Block -> {0, 1}] /\ e.muted \in SUBSET Block
  BY DEF Fields, States, Lefts, Owing, Muted
<1>2. s \in States /\ s[b] = "waiting" /\ \A c \in Block \ {b} : s[c] = e.state[c]
  BY <1>1 DEF States, State
<1>3. l \in Lefts /\ l[b] # 0 /\ \A c \in Block \ {b} : l[c] = e.left[c]
  BY <1>1, DriverAssumption DEF Lefts
<1>4. o \in Owing /\ o[b] = 1 /\ \A c \in Block \ {b} : o[c] = e.owed[c]
  BY <1>1 DEF Owing
<1>5. m \in Muted /\ r \in Links
  BY <1>1 DEF Muted
<1>6. n = [e EXCEPT !.state = s, !.left = l, !.owed = o, !.muted = m, !.q = r]
  BY <1>1 DEF Queued, Fields
<1> HIDE DEF s, l, o, m, r
<1> DEFINE f == [e EXCEPT !.state = s, !.left = l, !.owed = o]
<1>7. /\ f \in Fields /\ f.state = s /\ f.left = l /\ f.owed = o /\ f.fifo = e.fifo
      /\ f.executing = e.executing
  BY <1>2, <1>3, <1>4 DEF Fields
<1>8. SameRest(e, f)
  BY DEF Fields, SameRest, SameWatch, SameAlarms, SameDrive
<1>9. n = [f EXCEPT !.muted = m, !.q = r]
  BY <1>6 DEF Fields
<1> HIDE DEF f
<1>10. /\ n \in Fields /\ n.q = r /\ n.state = s /\ n.left = l /\ n.owed = o
       /\ n.fifo = e.fifo /\ n.executing = e.executing
  <2>1. n \in Fields
    <3> DEFINE g == [f EXCEPT !.muted = m]
    <3>1. g \in Fields
      BY <1>5, <1>7 DEF Fields
    <3>2. n = [g EXCEPT !.q = r]
      BY <1>7, <1>9 DEF Fields
    <3> HIDE DEF g
    <3> QED
      BY <1>5, <3>1, <3>2 DEF Fields
  <2>2. /\ n.q = r /\ n.state = f.state /\ n.left = f.left /\ n.owed = f.owed
        /\ n.fifo = f.fifo /\ n.executing = f.executing
    BY <1>7, <1>9 DEF Fields
  <2> QED
    BY <1>7, <2>1, <2>2
<1>11. SameRest(f, n)
  BY <1>7, <1>9 DEF Fields, SameRest, SameWatch, SameAlarms, SameDrive
<1>12. SameRest(e, n)
  BY <1>8, <1>11 DEF SameRest, SameWatch, SameAlarms, SameDrive
<1>13. OnlyBlock(e, n, b)
  BY <1>2, <1>3, <1>4, <1>10, <1>12 DEF OnlyBlock
<1> QED
  BY <1>2, <1>3, <1>4, <1>10, <1>13 DEF r

\* The command is issued: it is queued with the others.
LEMMA QueuedGood ==
  ASSUME NEW e \in Fields, NEW W \in SUBSET Block, NEW all, Listed(e, W, all),
         NEW b \in Block \ W, b # Inquiry, e.owed[b] = 0, NEW p \in Prio,
         NEW n, n = Queued(e, b, p)
  PROVE  /\ n \in Fields /\ OnlyBlock(e, n, b) /\ Listed(n, W \cup {b}, all)
         /\ n.state[b] = "waiting"
<1> DEFINE r == PushWaitingQueue(e.q, p, b)
<1>1. e.q \in Links /\ Linked(e.q, W)
  BY DEF Fields, Listed
<1>2. r \in Links /\ Linked(r, W \cup {b})
  BY <1>1, PushLinks
<1>3. /\ n \in Fields /\ OnlyBlock(e, n, b) /\ n.q = r
      /\ n.state[b] = "waiting" /\ n.left[b] # 0 /\ n.owed[b] = 1
  BY <1>2, QueuedDoes
<1> HIDE DEF r
<1>4. Listed(n, W \cup {b}, all)
  BY <1>2, <1>3 DEF Listed, OnlyBlock
<1> QED
  BY <1>3, <1>4

\* The callback of block b: it is owed no more, unless it issues b again.
LEMMA TellDoes ==
  ASSUME NEW e \in Fields, NEW W \in SUBSET Block, NEW all, Listed(e, W, all),
         NEW b \in Block \ W, e.owed[b] = 1, e.executing # NULL \/ BeingClosed(e, b),
         NEW again \in Reissue, NEW n, n = Tell(e, b, again)
  PROVE  /\ n \in Fields /\ OnlyBlock(e, n, b)
         /\ \/ Listed(n, W, all) /\ n.state = e.state
            \/ Listed(n, W \cup {b}, all) /\ n.state[b] = "waiting"
<1> DEFINE o == [e.owed EXCEPT ![b] = 0]
           f == [e EXCEPT !.owed = o]
<1>1. e.owed \in [Block -> {0, 1}]
  BY DEF Fields, Owing
<1>2. o \in Owing /\ o[b] = 0 /\ \A c \in Block \ {b} : o[c] = e.owed[c]
  BY <1>1 DEF Owing
<1>3. [e EXCEPT !.owed[b] = @ - 1] = f
  BY <1>1 DEF Fields
<1> HIDE DEF o
<1>4. /\ f \in Fields /\ f.owed = o /\ f.state = e.state /\ f.left = e.left /\ f.q = e.q
      /\ f.fifo = e.fifo /\ f.executing = e.executing /\ f.closing = e.closing
      /\ f.muted = e.muted
  BY <1>2 DEF Fields
<1>5. SameRest(e, f)
  BY DEF Fields, SameRest, SameWatch, SameAlarms, SameDrive
<1>6. f = [e EXCEPT !.owed[b] = @ - 1]
  BY <1>3
<1> HIDE DEF f
<1>7. OnlyBlock(e, f, b) /\ Listed(f, W, all)
  BY <1>2, <1>4, <1>5 DEF OnlyBlock, Listed
<1>8. CASE b \in e.muted
  <2>1. n = e
    BY <1>8 DEF Tell
  <2> QED
    BY <2>1 DEF OnlyBlock, SameRest, SameWatch, SameAlarms, SameDrive
<1>9. CASE b \notin e.muted /\ b \in Sync
  <2> DEFINE a == {}
  <2>1. n = [f EXCEPT !.asleep = a] /\ a \in Sleeping
    BY <1>6, <1>9 DEF Tell, Sleeping
  <2> HIDE DEF a
  <2>2. /\ n \in Fields /\ n.owed = f.owed /\ n.state = f.state /\ n.left = f.left
        /\ n.q = f.q /\ n.fifo = f.fifo /\ n.executing = f.executing
    BY <1>4, <2>1 DEF Fields
  <2>3. SameRest(f, n)
    BY <1>4, <2>1 DEF Fields, SameRest, SameWatch, SameAlarms, SameDrive
  <2>4. SameRest(e, n)
    BY <1>5, <2>3 DEF SameRest, SameWatch, SameAlarms, SameDrive
  <2>5. OnlyBlock(e, n, b)
    BY <1>2, <1>4, <2>2, <2>4 DEF OnlyBlock
  <2>6. Listed(n, W, all)
    BY <1>7, <2>2 DEF Listed
  <2> QED
    BY <1>4, <2>2, <2>5, <2>6
<1>10. CASE b \notin e.muted /\ b \notin Sync
  <2>1. CASE n = f
    BY <1>4, <1>7, <2>1
  <2>2. CASE n # f
    <3>1. /\ n = IssueCommand(f, b, again) /\ again # NULL /\ b # Inquiry
          /\ ~BeingClosed(e, b)
      BY <1>6, <1>10, <2>2 DEF Tell
    <3>2. again \in Prio /\ f.executing # NULL
      BY <1>4, <3>1 DEF Reissue
    <3>3. n = Queued(f, b, again)
      BY <3>1, <3>2 DEF IssueCommand, Queued
    <3>4. f.owed[b] = 0
      BY <1>2, <1>4
    <3>5. /\ n \in Fields /\ OnlyBlock(f, n, b) /\ Listed(n, W \cup {b}, all)
          /\ n.state[b] = "waiting"
      BY <1>4, <1>7, <3>1, <3>2, <3>3, <3>4, QueuedGood
    <3>6. OnlyBlock(e, n, b)
      BY <1>7, <3>5 DEF OnlyBlock, SameRest, SameWatch, SameAlarms, SameDrive
    <3> QED
      BY <3>5, <3>6
  <2> QED
    BY <2>1, <2>2
<1> QED
  BY <1>8, <1>9, <1>10

\* The command in hand ends, and its callback may issue it again.
LEMMA FinishGood ==
  ASSUME NEW e \in Fields, e.dead = "no", NEW W \in SUBSET Block, NEW all,
         Listed(e, W, all), NEW b, b = e.executing, b \in Block \ W, e.owed[b] = 1,
         NEW again \in Reissue, NEW n, n = Finish(e, b, again)
  PROVE  \E V \in SUBSET Block :
           Settled(n, V, all) /\ SameRest(e, n) /\ n.fifo = e.fifo
<1> DEFINE s == [e.state EXCEPT ![b] = "ended"]
           l == [e.left EXCEPT ![b] = 0]
           f == [e EXCEPT !.state = s, !.left = l]
<1>1. e.state \in [Block -> State] /\ e.left \in [Block -> Nat] /\ e.executing = b
  BY DEF Fields, States, Lefts
<1>2. s \in States /\ s[b] = "ended" /\ \A c \in Block \ {b} : s[c] = e.state[c]
  BY <1>1 DEF States, State
<1>3. l \in Lefts /\ \A c \in Block \ {b} : l[c] = e.left[c]
  BY <1>1 DEF Lefts
<1>4. [Over(e, b) EXCEPT !.executing = b] = f
  BY <1>1 DEF Over, Fields
<1>5. n = Tell(f, b, again)
  BY <1>4 DEF Finish
<1> HIDE DEF s, l
<1>6. /\ f \in Fields /\ f.owed = e.owed /\ f.state = s /\ f.left = l /\ f.q = e.q
      /\ f.fifo = e.fifo /\ f.executing = b /\ f.dead = "no"
  BY <1>1, <1>2, <1>3 DEF Fields
<1>7. SameRest(e, f)
  BY DEF Fields, SameRest, SameWatch, SameAlarms, SameDrive
<1> HIDE DEF f
<1>8. Listed(f, W, all)
  BY <1>1, <1>2, <1>3, <1>6 DEF Listed
<1>9. f.owed[b] = 1 /\ f.executing # NULL
  BY <1>6, QueueAssumption
<1>10. /\ n \in Fields /\ OnlyBlock(f, n, b)
       /\ \/ Listed(n, W, all) /\ n.state = f.state
          \/ Listed(n, W \cup {b}, all) /\ n.state[b] = "waiting"
  BY <1>5, <1>6, <1>8, <1>9, TellDoes
<1>11. n.dead = "no" /\ SameRest(e, n) /\ n.fifo = e.fifo /\ n.executing = b
  BY <1>6, <1>7, <1>10 DEF OnlyBlock, SameRest, SameWatch, SameAlarms, SameDrive
<1>12. CASE Listed(n, W, all) /\ n.state = f.state
  <2>1. Settled(n, W, all)
    BY <1>2, <1>6, <1>10, <1>11, <1>12 DEF Settled, Listed
  <2> QED
    BY <1>11, <2>1
<1>13. CASE Listed(n, W \cup {b}, all) /\ n.state[b] = "waiting"
  <2>1. Settled(n, W \cup {b}, all)
    BY <1>10, <1>11, <1>13 DEF Settled, Listed
  <2> QED
    BY <1>11, <2>1
<1> QED
  BY <1>10, <1>12, <1>13

\* The callback of a cancellation touches no job.
LEMMA CallCancelSame ==
  ASSUME NEW e \in Fields, NEW callback, NEW n, n = CallCancel(e, callback)
  PROVE  n \in Fields /\ Same(e, n)
<1> DEFINE a == {}
<1>1. a \in Sleeping /\ TRUE \in Flags
  BY DEF Sleeping, Flags
<1>2. n = e \/ n = [e EXCEPT !.asleep = a] \/ n = [e EXCEPT !.prepared = TRUE]
  BY DEF CallCancel
<1> HIDE DEF a
<1>3. ASSUME NEW t \in Flags, n = [e EXCEPT !.prepared = t]
      PROVE  n \in Fields /\ Same(e, n)
  BY <1>3 DEF Fields, Same, SameButFifo, SameJobs, SameRest, SameWatch, SameAlarms, SameDrive
<1>4. CASE n = [e EXCEPT !.asleep = a]
  BY <1>1, <1>4 DEF Fields, Same, SameButFifo, SameJobs, SameRest, SameWatch, SameAlarms, SameDrive
<1>5. CASE n = e
  BY <1>5 DEF Same, SameButFifo, SameJobs, SameRest, SameWatch, SameAlarms, SameDrive
<1> QED
  BY <1>1, <1>2, <1>3, <1>4, <1>5

\* The command in hand ends, and the next is taken.
LEMMA NextGood ==
  ASSUME Scope, NEW e \in Fields, e.dead = "no", NEW answers \in BOOLEAN,
         NEW W \in SUBSET Block, NEW all, Listed(e, W, all),
         NEW b, b = e.executing, b \in Block \ W, e.owed[b] = 1,
         Between(e, Rest(e, answers)), Brief(e, answers),
         NEW again \in Reissue, NEW callback,
         NEW n, \/ n = StateReady(Finish(e, b, again))
                \/ n = StateReady(CancelBlock(e, b, callback, again))
  PROVE  \E V \in SUBSET Block : Phase(n, Rest(n, answers), V, all)
<1> DEFINE f == Finish(e, b, again)
           g == CallCancel(f, callback)
<1>1. PICK V \in SUBSET Block : Settled(f, V, all) /\ SameRest(e, f) /\ f.fifo = e.fifo
  BY FinishGood
<1>2. f = Finish(e, b, again) /\ g = CallCancel(f, callback)
  OBVIOUS
<1>3. n = StateReady(f) \/ n = StateReady(g)
  BY DEF CancelBlock
<1> HIDE DEF f, g
<1>4. f \in Fields
  BY <1>1 DEF Settled
<1>5. g \in Fields /\ Same(f, g)
  BY <1>2, <1>4, CallCancelSame
<1>6. Settled(g, V, all) /\ SameRest(e, g) /\ g.fifo = e.fifo
  <2>1. Settled(g, V, all)
    BY <1>1, <1>5 DEF Settled, Same, SameButFifo, SameJobs, SameRest, SameAlarms
  <2> QED
    BY <1>1, <1>5, <2>1 DEF Same, SameButFifo, SameRest, SameWatch, SameAlarms, SameDrive
<1>7. ASSUME NEW h, Settled(h, V, all), SameRest(e, h), h.fifo = e.fifo, n = StateReady(h)
      PROVE  \E U \in SUBSET Block : Phase(n, Rest(n, answers), U, all)
  <2>1. h.preparing = e.preparing
    BY <1>7 DEF SameRest, SameWatch
  <2>2. Rest(h, answers) = Rest(e, answers) /\ Brief(h, answers)
    BY <1>7, <2>1, RestSame
  <2>3. Between(h, Rest(h, answers))
    BY <1>7, <2>2 DEF Between, NoAlarm, SameRest, SameWatch, SameAlarms, SameDrive
  <2> QED
    BY <1>7, <2>2, <2>3, ReadyGood
<1> QED
  BY <1>1, <1>3, <1>6, <1>7

-----------------------------------------------------------------------------
(* The answers of requests *)

\* What the callback of a request finds: nothing else is under way.
Ending(e, W, all) ==
  /\ e \in Fields /\ e.dead = "no" /\ Listed(e, W, all)
  /\ e.executing \in Block \ W /\ e.owed[e.executing] = 1 /\ e.resume = "none"
  /\ NoAlarm(e) /\ NoWatch(e) /\ e.motorState = "working"
  /\ Brief(e, TRUE) /\ Rest(e, TRUE) = <<>>

Answered(e, W, all) ==
  Held(e, TRUE, W, all) /\ Rest(e, TRUE) = <<>> /\ Knows(e) /\ InHand(e)

\* What it must leave.
Good(n, all) == \E V \in SUBSET Block : Phase(n, Rest(n, TRUE), V, all)

LEMMA AnsweredEnds ==
  ASSUME NEW e, NEW W, NEW all, Answered(e, W, all)
  PROVE  Ending(e, W, all) /\ W \in SUBSET Block /\ Still(Rest(e, TRUE))
<1>1. Taken(e, TRUE, W, all) /\ NoWatch(e) /\ InHand(e) /\ Rest(e, TRUE) = <<>>
  BY DEF Answered, Held
<1>2. InWork(e, W) /\ Listed(e, W, all) /\ NoAlarm(e) /\ Brief(e, TRUE) /\ e \in Fields
  BY <1>1 DEF Taken
<1>3. W \in SUBSET Block
  BY <1>2 DEF Listed
<1> QED
  BY <1>1, <1>2, <1>3 DEF Ending, InWork, InHand, Still, Taken

\* The command in hand ends, with the point where the next resumes.
LEMMA EndGood ==
  ASSUME Scope, NEW e, NEW W \in SUBSET Block, NEW all, Ending(e, W, all),
         NEW f \in Fields, SameJobs(e, f), SameWatch(e, f), SameAlarms(e, f),
         f.motorState = e.motorState, f.fifo = e.fifo, ~f.canceling,
         NEW again \in Reissue, NEW callback,
         NEW n, \/ n = StateReady(Finish(f, f.executing, again))
                \/ n = StateReady(CancelBlock(f, f.executing, callback, again))
  PROVE  Good(n, all)
<1> DEFINE b == f.executing
<1>1. f.preparing = e.preparing
  BY DEF SameWatch
<1>2. Rest(f, TRUE) = Rest(e, TRUE) /\ Brief(f, TRUE)
  BY <1>1, RestSame DEF Ending
<1>3. f.dead = "no" /\ b = f.executing /\ b \in Block \ W /\ f.owed[b] = 1
  BY DEF Ending, SameJobs, SameAlarms
<1>4. Listed(f, W, all)
  BY JobsSame DEF Ending
<1>5. Between(f, Rest(f, TRUE))
  <2>1. Rest(f, TRUE) = <<>> /\ <<>> # <<"none">>
    BY <1>2 DEF Ending
  <2>2. Still(Rest(f, TRUE)) /\ Rest(f, TRUE) # <<"none">>
    BY <2>1 DEF Still
  <2>3. NoAlarm(f) /\ NoWatch(f)
    BY DEF Ending, NoAlarm, NoWatch, SameWatch, SameAlarms
  <2>4. f.motorState = "working"
    BY DEF Ending
  <2> QED
    BY <2>2, <2>3, <2>4 DEF Between, NoWatch
<1> HIDE DEF b
<1>6. n = StateReady(Finish(f, b, again)) \/ n = StateReady(CancelBlock(f, b, callback, again))
  BY <1>3
<1>7. TRUE \in BOOLEAN
  OBVIOUS
<1>8. \E V \in SUBSET Block : Phase(n, Rest(n, TRUE), V, all)
  BY <1>2, <1>3, <1>4, <1>5, <1>6, <1>7, NextGood
<1> QED
  BY <1>8 DEF Good

LEMMA CompleteGood ==
  ASSUME Scope, NEW e, NEW W \in SUBSET Block, NEW all, Ending(e, W, all), ~e.canceling,
         NEW again \in Reissue, NEW n, n = Complete(e, again)
  PROVE  Good(n, all)
<1>1. n = StateReady(Finish(e, e.executing, again)) /\ e \in Fields
  BY DEF Complete, Ending
<1>2. SameJobs(e, e) /\ SameWatch(e, e) /\ SameAlarms(e, e)
  BY DEF SameJobs, SameWatch, SameAlarms
<1> QED
  BY <1>1, <1>2, EndGood

LEMMA CanceledGood ==
  ASSUME Scope, NEW e, NEW W \in SUBSET Block, NEW all, Ending(e, W, all),
         NEW r \in Resume, NEW again \in Reissue, NEW n, n = Canceled(e, r, again)
  PROVE  Good(n, all)
<1> DEFINE f == [e EXCEPT !.resume = r, !.canceling = FALSE, !.cancelCallback = NULL]
<1>1. e \in Fields /\ FALSE \in Flags /\ NULL \in CancelCallbacks
  BY DEF Ending, Flags, CancelCallbacks
<1>2. f \in Fields
  <2>1. ASSUME NEW t \in Flags
        PROVE  [e EXCEPT !.resume = r, !.canceling = t, !.cancelCallback = NULL] \in Fields
    BY <1>1 DEF Fields
  <2> QED
    BY <1>1, <2>1
<1>3. /\ f.motorState = e.motorState /\ f.fifo = e.fifo /\ ~f.canceling
      /\ f.executing = e.executing
  BY <1>1 DEF Fields
<1>4. SameJobs(e, f) /\ SameWatch(e, f) /\ SameAlarms(e, f)
  BY <1>1 DEF Fields, SameJobs, SameWatch, SameAlarms
<1>5. n = StateReady(CancelBlock(f, e.executing, e.cancelCallback, again))
  BY DEF Canceled
<1> HIDE DEF f
<1>6. n = StateReady(CancelBlock(f, f.executing, e.cancelCallback, again))
  BY <1>3, <1>5
<1> QED
  BY <1>2, <1>3, <1>4, <1>6, EndGood

\* A read that is broken off.
Unbroken(e) == [e EXCEPT !.breaking = FALSE, !.canceling = FALSE, !.cancelCallback = NULL]

LEMMA BrokenGood ==
  ASSUME Scope, NEW e, NEW W \in SUBSET Block, NEW all, Ending(e, W, all),
         NEW again \in Reissue,
         NEW n, n = StateReady(CancelBlock(Unbroken(e), e.executing, e.cancelCallback, again))
  PROVE  Good(n, all)
<1> DEFINE f == Unbroken(e)
<1>1. e \in Fields /\ FALSE \in Flags /\ NULL \in CancelCallbacks
  BY DEF Ending, Flags, CancelCallbacks
<1>2. f \in Fields
  <2>1. ASSUME NEW t \in Flags
        PROVE  [e EXCEPT !.breaking = t, !.canceling = t, !.cancelCallback = NULL] \in Fields
    BY <1>1 DEF Fields
  <2> QED
    BY <1>1, <2>1 DEF Unbroken
<1>3. /\ f.motorState = e.motorState /\ f.fifo = e.fifo /\ ~f.canceling
      /\ f.executing = e.executing
  BY <1>1 DEF Fields, Unbroken
<1>4. SameJobs(e, f) /\ SameWatch(e, f) /\ SameAlarms(e, f)
  BY <1>1 DEF Fields, SameJobs, SameWatch, SameAlarms, Unbroken
<1>5. n = StateReady(CancelBlock(f, e.executing, e.cancelCallback, again))
  OBVIOUS
<1> HIDE DEF f
<1>6. n = StateReady(CancelBlock(f, f.executing, e.cancelCallback, again))
  BY <1>3, <1>5
<1> QED
  BY <1>2, <1>3, <1>4, <1>6, EndGood

LEMMA CheckCancelGood ==
  ASSUME Scope, NEW e, NEW W \in SUBSET Block, NEW all, Ending(e, W, all),
         NEW r \in Resume, NEW again \in Reissue,
         NEW f, ~e.canceling => Good(f, all), NEW n, n = CheckCancel(e, r, again, f)
  PROVE  Good(n, all)
<1>1. CASE e.canceling
  <2>1. n = Canceled(e, r, again)
    BY <1>1 DEF CheckCancel
  <2> QED
    BY <2>1, CanceledGood
<1>2. CASE ~e.canceling
  BY <1>2 DEF CheckCancel
<1> QED
  BY <1>1, <1>2

\* An answer goes to the log or to a further request.
LEMMA StateErrorGood ==
  ASSUME NEW e, NEW W, NEW all, Answered(e, W, all), NEW v \in {1, 2, 3},
         NEW n, n = StoreErrorCode(e, v)
  PROVE  Good(n, all)
<1>1. W \in SUBSET Block /\ Still(Rest(e, TRUE))
  BY AnsweredEnds
<1>2. Phase(n, Rest(n, TRUE), W, all)
  BY <1>1, StoreGood DEF Answered
<1> QED
  BY <1>1, <1>2 DEF Good

LEMMA RequestGood ==
  ASSUME Scope, NEW e, NEW W, NEW all, Answered(e, W, all),
         NEW r \in {"GettingError", "GoToRetry", "CheckID1", "ReadingTOC",
                    "ReadingPartitionInfo", "OpenPartition2"},
         NEW n, n = Send(e, r) \/ n = SendCleared(e, r)
  PROVE  Good(n, all)
<1>1. W \in SUBSET Block
  BY AnsweredEnds
<1>2. Phase(n, Rest(n, TRUE), W, all)
  BY PlainGood DEF Answered
<1> QED
  BY <1>1, <1>2 DEF Good

LEMMA CheckedGood ==
  ASSUME Scope, NEW e, NEW W, NEW all, Answered(e, W, all), NEW int \in IntType,
         NEW f, int = "TC" => Good(f, all), NEW n, n = Checked(e, int, f)
  PROVE  Good(n, all)
<1>1. CASE int = "TIME"
  <2>1. n = StoreErrorCode(e, 2)
    BY <1>1 DEF Checked, StateTimeout
  <2> QED
    BY <2>1, StateErrorGood
<1>2. CASE int = "TC"
  BY <1>2 DEF Checked
<1>3. CASE int = "DE"
  <2>1. n = Send(e, "GettingError")
    BY <1>3 DEF Checked, StateGettingError
  <2> QED
    BY <2>1, RequestGood
<1> QED
  BY <1>1, <1>2, <1>3 DEF IntType

\* What a callback may change in the driver before it goes on.
LEMMA AnsweredSame ==
  ASSUME NEW e, NEW W, NEW all, Answered(e, W, all), NEW n \in Fields,
         SameJobs(e, n), SameAlarms(e, n), SameWatch(e, n), n.motorState = e.motorState,
         n.resume = e.resume, n.fifo = e.fifo, Knows(n)
  PROVE  Answered(n, W, all)
<1>1. Held(n, TRUE, W, all) /\ Rest(n, TRUE) = Rest(e, TRUE)
  BY HeldSame DEF Answered
<1>2. InHand(n)
  BY DEF Answered, InHand, SameJobs
<1> QED
  BY <1>1, <1>2 DEF Answered

LEMMA ForgivenGood ==
  ASSUME NEW e \in Fields, NEW n, n = Forgiven(e)
  PROVE  /\ n \in Fields /\ SameButFifo(e, n) /\ n.fifo = e.fifo
         /\ n.cancelCallback = e.cancelCallback
<1> DEFINE z == 0
           v == "none"
<1>1. z \in Counts /\ v \in Errors /\ n = [e EXCEPT !.retries = z, !.lastError = v]
  BY DEF Counts, Errors, Forgiven
<1> HIDE DEF z, v
<1>2. n \in Fields
  <2> DEFINE g == [e EXCEPT !.retries = z]
  <2>1. g \in Fields
    BY <1>1 DEF Fields
  <2>2. n = [g EXCEPT !.lastError = v]
    BY <1>1 DEF Fields
  <2> HIDE DEF g
  <2> QED
    BY <1>1, <2>1, <2>2 DEF Fields
<1>3. n.fifo = e.fifo /\ n.cancelCallback = e.cancelCallback
  BY <1>1 DEF Fields
<1>4. SameButFifo(e, n)
  BY <1>1 DEF Fields, SameButFifo, SameJobs, SameRest, SameWatch, SameAlarms, SameDrive
<1> QED
  BY <1>2, <1>3, <1>4

LEMMA ForgivenAnswered ==
  ASSUME NEW e, NEW W, NEW all, Answered(e, W, all), NEW n, n = Forgiven(e)
  PROVE  Answered(n, W, all) /\ SameButFifo(e, n)
<1>1. e \in Fields /\ Knows(e)
  BY DEF Answered, Held, Taken
<1>2. n \in Fields /\ SameButFifo(e, n) /\ n.fifo = e.fifo
  BY <1>1, ForgivenGood
<1>3. /\ SameJobs(e, n) /\ SameAlarms(e, n) /\ SameWatch(e, n)
      /\ n.motorState = e.motorState /\ n.resume = e.resume
  BY <1>2 DEF SameButFifo, SameRest, SameDrive
<1>4. Knows(n)
  BY <1>1, <1>2 DEF Knows, SameButFifo, SameRest, SameDrive, SameAlarms
<1> QED
  BY <1>2, <1>3, <1>4, AnsweredSame

\* The command in hand changes its state.
Stands(e) == e.state[e.executing]

LEMMA MarkAnswered ==
  ASSUME NEW e, NEW W, NEW all, Answered(e, W, all), NEW v \in State,
         NEW n, n = Marked(e, v)
  PROVE  /\ Taken(n, TRUE, W, all) /\ Held(n, TRUE, W, all) /\ Rest(n, TRUE) = <<>>
         /\ Stands(n) = v /\ SameRest(e, n) /\ Knows(n)
         /\ Still(Rest(n, TRUE)) /\ NoWatch(n) /\ n.known = e.known
         /\ n.motorState = "working" /\ n.canceling = e.canceling
<1>1. Taken(e, TRUE, W, all) /\ Rest(e, TRUE) = <<>> /\ NoWatch(e) /\ Knows(e)
  BY DEF Answered, Held
<1>2. /\ Taken(n, TRUE, W, all) /\ Rest(n, TRUE) = Rest(e, TRUE)
      /\ Stands(n) = v /\ SameRest(e, n)
  <2>1. PICK a \in BOOLEAN : a = TRUE
    OBVIOUS
  <2>2. Taken(e, a, W, all)
    BY <1>1, <2>1
  <2>3. /\ Taken(n, a, W, all) /\ Rest(n, a) = Rest(e, a)
        /\ n.state[n.executing] = v /\ SameRest(e, n)
    BY <2>2, MarkGood
  <2> QED
    BY <2>1, <2>3 DEF Stands
<1>3. NoWatch(n) /\ Knows(n) /\ n.known = e.known /\ n.canceling = e.canceling
  BY <1>1, <1>2 DEF NoWatch, Knows, SameRest, SameWatch, SameDrive, SameAlarms
<1>4. Still(Rest(n, TRUE)) /\ Rest(n, TRUE) = <<>>
  BY <1>1, <1>2 DEF Still
<1>5. n.motorState = "working"
  BY <1>2 DEF Answered, InHand, SameRest, SameDrive
<1> QED
  BY <1>2, <1>3, <1>4, <1>5 DEF Held

\* The command goes on to wait for the disc or the cover.
LEMMA WaitGood ==
  ASSUME NEW e, NEW W, NEW all, Answered(e, W, all), NEW v \in Waits, ~e.canceling,
         NEW n, n = StateMotorStopped(Marked(e, v))
  PROVE  Good(n, all)
<1> DEFINE m == Marked(e, v)
<1>1. v \in State /\ W \in SUBSET Block
  BY AnsweredEnds DEF State
<1>2. n = StateMotorStopped(m) /\ m = Marked(e, v)
  OBVIOUS
<1> HIDE DEF m
<1>3. /\ Taken(m, TRUE, W, all) /\ Still(Rest(m, TRUE)) /\ NoWatch(m)
      /\ m.state[m.executing] = v /\ Knows(m) /\ ~m.canceling
  <2>1. /\ Taken(m, TRUE, W, all) /\ Still(Rest(m, TRUE)) /\ NoWatch(m)
        /\ Stands(m) = v /\ Knows(m) /\ SameRest(e, m)
    BY <1>1, <1>2, MarkAnswered
  <2> QED
    BY <2>1 DEF SameRest, Stands
<1>4. /\ ~m.waitOpen /\ (m.coverAlarm <=> m.waitClose) /\ TRUE \in BOOLEAN
      /\ m.waitClose => m.state[m.executing] = "coverOpened"
      /\ m.state[m.executing] \in Waits
  BY <1>3 DEF NoWatch
<1>5. Phase(n, Rest(n, TRUE), W, all)
  BY <1>2, <1>3, <1>4, MotorStoppedGood
<1> QED
  BY <1>1, <1>5 DEF Good

\* Unless it was cancelled.
LEMMA WaitForDiscGood ==
  ASSUME Scope, NEW e, NEW W, NEW all, Answered(e, W, all),
         NEW v \in {"wrongDiskID", "diskError"},
         NEW again \in Reissue, NEW n, n = WaitForDisc(e, v, again)
  PROVE  Good(n, all)
<1> DEFINE f == StateMotorStopped(Marked(e, v))
<1>1. n = CheckCancel(e, v, again, f) /\ f = StateMotorStopped(Marked(e, v))
  BY DEF WaitForDisc, Marked
<1>2. v \in Resume /\ v \in Waits
  BY DEF Resume, Waits
<1> HIDE DEF f
<1>3. ~e.canceling => Good(f, all)
  BY <1>1, <1>2, WaitGood
<1> QED
  BY <1>1, <1>2, <1>3, AnsweredEnds, CheckCancelGood


LEMMA EndingSame ==
  ASSUME NEW e, NEW W, NEW all, Ending(e, W, all), NEW n \in Fields,
         SameButFifo(e, n), n.fifo = e.fifo
  PROVE  Ending(n, W, all)
<1>1. SameJobs(e, n) /\ n.preparing = e.preparing
  BY DEF SameButFifo, SameRest, SameWatch
<1>2. Listed(n, W, all)
  BY <1>1, JobsSame DEF Ending
<1>3. Rest(n, TRUE) = Rest(e, TRUE) /\ Brief(n, TRUE)
  BY <1>1, RestSame DEF Ending
<1>4. NoAlarm(n) /\ NoWatch(n) /\ n.dead = "no"
  BY DEF Ending, NoAlarm, NoWatch, SameButFifo, SameRest, SameWatch, SameAlarms
<1>5. n.resume = "none" /\ n.motorState = "working"
  BY DEF Ending, SameButFifo, SameRest, SameDrive
<1>6. n.executing \in Block \ W /\ n.owed[n.executing] = 1
  BY <1>1 DEF Ending, SameJobs
<1> QED
  BY <1>2, <1>3, <1>4, <1>5, <1>6 DEF Ending

\* A chunk has arrived: the command is through, or has something left.
LEMMA ChunkGood ==
  ASSUME NEW e, NEW W, NEW all, Answered(e, W, all),
         NEW n, n = [e EXCEPT !.left[e.executing] = @ - 1]
  PROVE  /\ n \in Fields /\ Ending(n, W, all) /\ SameRest(e, n)
         /\ n.executing = e.executing /\ n.breaking = e.breaking
         /\ n.cancelCallback = e.cancelCallback
         /\ n.left[n.executing] # 0 => Answered(n, W, all)
<1> DEFINE b == e.executing
           l == [e.left EXCEPT ![b] = @ - 1]
<1>1. Ending(e, W, all) /\ W \in SUBSET Block
  BY AnsweredEnds
<1>2. e \in Fields /\ b \in Block \ W /\ e.left \in [Block -> Nat] /\ e.left[b] # 0
  BY <1>1 DEF Ending, Fields, Lefts, Answered, Held, Taken, InWork
<1>3. l \in Lefts /\ \A c \in Block \ {b} : l[c] = e.left[c]
  BY <1>2 DEF Lefts
<1>4. n = [e EXCEPT !.left = l]
  BY <1>2 DEF Fields
<1> HIDE DEF l
<1>5. /\ n \in Fields /\ n.left = l /\ n.q = e.q /\ n.state = e.state /\ n.owed = e.owed
      /\ n.executing = b /\ n.fifo = e.fifo /\ n.breaking = e.breaking
      /\ n.cancelCallback = e.cancelCallback
  BY <1>2, <1>3, <1>4 DEF Fields
<1>6. SameRest(e, n)
  BY <1>2, <1>4 DEF Fields, SameRest, SameWatch, SameAlarms, SameDrive
<1>7. Listed(n, W, all)
  BY <1>1, <1>3, <1>5 DEF Listed, Ending
<1>8. n.preparing = e.preparing
  BY <1>6 DEF SameRest, SameWatch
<1>9. Rest(n, TRUE) = Rest(e, TRUE) /\ Brief(n, TRUE)
  BY <1>1, <1>5, <1>8, RestSame DEF Ending
<1>10. NoAlarm(n) /\ NoWatch(n) /\ n.dead = "no"
  BY <1>1, <1>6 DEF Ending, NoAlarm, NoWatch, SameRest, SameWatch, SameAlarms
<1>11. n.resume = "none" /\ n.motorState = "working"
  BY <1>1, <1>6 DEF Ending, SameRest, SameDrive
<1>12. n.owed[n.executing] = 1
  BY <1>1, <1>5 DEF Ending
<1>13. Ending(n, W, all)
  BY <1>1, <1>2, <1>5, <1>7, <1>9, <1>10, <1>11, <1>12 DEF Ending
<1>14. ASSUME n.left[n.executing] # 0  PROVE Answered(n, W, all)
  <2>1. InWork(n, W)
    BY <1>2, <1>5, <1>11, <1>12, <1>14 DEF InWork
  <2>2. Held(n, TRUE, W, all)
    BY <1>5, <1>7, <1>9, <1>10, <2>1 DEF Held, Taken
  <2>3. Knows(n)
    BY <1>6 DEF Answered, Knows, SameRest, SameDrive, SameAlarms
  <2>4. InHand(n)
    BY <1>5, <1>11 DEF Answered, InHand
  <2> QED
    BY <1>9, <2>2, <2>3, <2>4 DEF Answered
<1> QED
  BY <1>5, <1>6, <1>13, <1>14

LEMMA StateBusyGood ==
  ASSUME Scope, NEW e, NEW W, NEW all, Answered(e, W, all), e.known,
         NEW n, n = StateBusy(e)
  PROVE  Good(n, all)
<1>1. W \in SUBSET Block
  BY AnsweredEnds
<1>2. Phase(n, Rest(n, TRUE), W, all)
  BY BusyGood DEF Answered
<1> QED
  BY <1>1, <1>2 DEF Good

\* cbForStateBusy
LEMMA AnswerBusyGood ==
  ASSUME Scope, NEW e, NEW W, NEW all, Answered(e, W, all), e.known,
         NEW int \in IntType, NEW again \in Reissue,
         NEW n, n = CbForStateBusy(e, int, again)
  PROVE  Good(n, all)
<1>1. Ending(e, W, all) /\ W \in SUBSET Block
  BY AnsweredEnds
<1>2. CASE int = "TIME"
  <2>1. n = StoreErrorCode(e, 2)
    BY <1>2 DEF CbForStateBusy, StateTimeout
  <2> QED
    BY <2>1, StateErrorGood
<1>3. CASE int = "DE"
  <2>1. CASE e.breaking
    <3>1. n = StateReady(CancelBlock(Unbroken(e), e.executing, e.cancelCallback, again))
      BY <1>3, <2>1 DEF CbForStateBusy, Unbroken
    <3> QED
      BY <1>1, <3>1, BrokenGood
  <2>2. CASE ~e.breaking
    <3>1. n = StoreErrorCode(e, 1) \/ n = Send(e, "GettingError")
      BY <1>3, <2>2 DEF CbForStateBusy, StateError, StateGettingError
    <3> QED
      BY <3>1, StateErrorGood, RequestGood
  <2> QED
    BY <2>1, <2>2
<1>4. CASE int = "TC"
  <2> DEFINE f == [e EXCEPT !.left[e.executing] = @ - 1]
             g == Forgiven(f)
             h == IF f.left[f.executing] = 0 THEN Complete(g, again) ELSE StateBusy(g)
  <2>1. f = [e EXCEPT !.left[e.executing] = @ - 1] /\ g = Forgiven(f)
        /\ h = IF f.left[f.executing] = 0 THEN Complete(g, again) ELSE StateBusy(g)
    OBVIOUS
  <2>2. n = IF f.breaking
              THEN StateReady(CancelBlock(Unbroken(f), f.executing, f.cancelCallback, again))
              ELSE CheckCancel(g, "none", again, h)
    BY <1>4 DEF CbForStateBusy, Unbroken
  <2> HIDE DEF f, g, h
  <2>3. /\ f \in Fields /\ Ending(f, W, all) /\ SameRest(e, f)
        /\ f.left[f.executing] # 0 => Answered(f, W, all)
    BY <2>1, ChunkGood
  <2>4. CASE f.breaking
    BY <1>1, <2>2, <2>3, <2>4, BrokenGood
  <2>5. CASE ~f.breaking
    <3>1. g \in Fields /\ SameButFifo(f, g) /\ g.fifo = f.fifo
      BY <2>1, <2>3, ForgivenGood
    <3>2. Ending(g, W, all)
      BY <2>3, <3>1, EndingSame
    <3>3. g.known
      BY <2>3, <3>1 DEF SameButFifo, SameRest, SameDrive
    <3>4. ~g.canceling => Good(h, all)
      <4>1. CASE f.left[f.executing] = 0
        BY <1>1, <2>1, <3>2, <4>1, CompleteGood
      <4>2. CASE f.left[f.executing] # 0
        <5>1. Answered(g, W, all)
          BY <2>1, <2>3, <4>2, ForgivenAnswered
        <5>2. h = StateBusy(g)
          BY <2>1, <4>2
        <5> QED
          BY <3>3, <5>1, <5>2, StateBusyGood
      <4> QED
        BY <4>1, <4>2
    <3>5. n = CheckCancel(g, "none", again, h) /\ "none" \in Resume
      BY <2>2, <2>5 DEF Resume
    <3> QED
      BY <1>1, <3>2, <3>4, <3>5, CheckCancelGood
  <2> QED
    BY <2>4, <2>5
<1> QED
  BY <1>2, <1>3, <1>4 DEF IntType

\* CategorizeError counts errors, and nothing else.
LEMMA CategorizeDoes ==
  ASSUME NEW e \in Fields, NEW state, NEW code \in ErrorCode,
         NEW x, x = CategorizeError(e, state, code)
  PROVE  /\ x[2] \in Fields /\ SameButFifo(e, x[2]) /\ x[2].fifo = e.fifo
         /\ x[1] \in {"error", "ok", "fatal", "unknown"}
<1> DEFINE noted == IF e.retries = 0 THEN [e EXCEPT !.retries = 1, !.lastError = code]
                    ELSE [e EXCEPT !.retries = 2, !.lastError = "none"]
<1>1. ASSUME NEW m, NEW k \in Counts, NEW c \in Errors,
             m = [e EXCEPT !.retries = k, !.lastError = c]
      PROVE  m \in Fields /\ SameButFifo(e, m) /\ m.fifo = e.fifo
  <2> DEFINE g == [e EXCEPT !.retries = k]
  <2>1. g \in Fields
    BY DEF Fields
  <2>2. m = [g EXCEPT !.lastError = c]
    BY <1>1 DEF Fields
  <2> HIDE DEF g
  <2>3. m \in Fields
    BY <2>1, <2>2 DEF Fields
  <2>4. SameButFifo(e, m) /\ m.fifo = e.fifo
    BY <1>1 DEF Fields, SameButFifo, SameJobs, SameRest, SameWatch, SameAlarms, SameDrive
  <2> QED
    BY <2>3, <2>4
<1>2. 1 \in Counts /\ 2 \in Counts /\ code \in Errors /\ "none" \in Errors
  BY DEF Counts, Errors
<1>3. noted \in Fields /\ SameButFifo(e, noted) /\ noted.fifo = e.fifo
  <2>1. CASE e.retries = 0
    <3>1. noted = [e EXCEPT !.retries = 1, !.lastError = code]
      BY <2>1
    <3> HIDE DEF noted
    <3> QED
      BY <1>1, <1>2, <3>1
  <2>2. CASE e.retries # 0
    <3>1. noted = [e EXCEPT !.retries = 2, !.lastError = "none"]
      BY <2>2
    <3> HIDE DEF noted
    <3> QED
      BY <1>1, <1>2, <3>1
  <2> QED
    BY <2>1, <2>2
<1>4. \/ x = <<"error", e>> \/ x = <<"ok", e>>
      \/ \E c \in {"error", "fatal", "unknown"} : x = <<c, noted>>
  BY DEF CategorizeError
<1> HIDE DEF noted
<1>5. SameButFifo(e, e)
  BY DEF SameButFifo, SameJobs, SameRest, SameWatch, SameAlarms, SameDrive
<1> QED
  BY <1>3, <1>4, <1>5

LEMMA SameAnswered ==
  ASSUME NEW e, NEW W, NEW all, Answered(e, W, all), NEW n \in Fields,
         SameButFifo(e, n), n.fifo = e.fifo
  PROVE  Answered(n, W, all)
<1>1. /\ SameJobs(e, n) /\ SameAlarms(e, n) /\ SameWatch(e, n)
      /\ n.motorState = e.motorState /\ n.resume = e.resume
  BY DEF SameButFifo, SameRest, SameDrive
<1>2. Knows(n)
  BY DEF Answered, Knows, SameButFifo, SameRest, SameDrive, SameAlarms
<1> QED
  BY <1>1, <1>2, AnsweredSame

\* stateCoverClosed of a command marked so.
LEMMA StateCoverClosedGood ==
  ASSUME Scope, NEW e, NEW W, NEW all, Answered(e, W, all),
         NEW n, n = StateCoverClosed(Marked(e, "coverClosed"))
  PROVE  Good(n, all)
<1> DEFINE m == Marked(e, "coverClosed")
<1>1. W \in SUBSET Block /\ "coverClosed" \in State
  BY AnsweredEnds DEF State
<1>2. n = StateCoverClosed(m) /\ m = Marked(e, "coverClosed")
  OBVIOUS
<1> HIDE DEF m
<1>3. Held(m, TRUE, W, all) /\ Knows(m) /\ Stands(m) = "coverClosed"
  BY <1>1, <1>2, MarkAnswered
<1>4. m.state[m.executing] \in {"busy", "coverClosed"} /\ TRUE \in BOOLEAN
  BY <1>3 DEF Stands
<1>5. Phase(n, Rest(n, TRUE), W, all)
  BY <1>2, <1>3, <1>4, ResetGood
<1> QED
  BY <1>1, <1>5 DEF Good

LEMMA StateCheckGood ==
  ASSUME Scope, NEW e, NEW W, NEW all, Answered(e, W, all),
         NEW n, n = StateDownRotation(e) \/ n = StateCoverClosedCmd(e)
  PROVE  Good(n, all)
<1>1. W \in SUBSET Block
  BY AnsweredEnds
<1>2. Phase(n, Rest(n, TRUE), W, all)
  BY CheckGood DEF Answered
<1> QED
  BY <1>1, <1>2 DEF Good

\* What follows an error.
LEMMA ReactGood ==
  ASSUME Scope, NEW e, NEW W, NEW all, Answered(e, W, all), ~e.canceling,
         NEW category \in {"error", "ok", "fatal", "unknown"},
         NEW state \in ErrorState, NEW code \in ErrorCode,
         NEW n, n = React(e, category, state, code)
  PROVE  Good(n, all)
<1>1. CASE category = "fatal"
  <2>1. n = StoreErrorCode(e, 3)
    BY <1>1 DEF React
  <2> QED
    BY <2>1, StateErrorGood
<1>2. CASE category = "unknown"
  <2>1. n = LastState(e) /\ e.lastState \in LastStates /\ ~e.resetAlarm /\ Knows(e)
    BY <1>2 DEF React, Answered, Held, Taken, Fields, NoAlarm
  <2>2. CASE e.lastState = "busy"
    <3>1. n = StateBusy(e) /\ e.known
      BY <2>1, <2>2 DEF LastState, Knows
    <3> QED
      BY <3>1, StateBusyGood
  <2>3. CASE e.lastState # "busy"
    <3>1. n = StateDownRotation(e) \/ n = StateCoverClosedCmd(e)
      BY <2>1, <2>3 DEF LastState, LastStates
    <3> QED
      BY <3>1, StateCheckGood
  <2> QED
    BY <2>2, <2>3
<1>3. CASE category \in {"error", "ok"}
  <2>1. n = ReactToState(e, state, code)
    BY <1>3 DEF React
  <2>2. CASE state \in {"coverOpened", "noDisk"}
    <3>1. n = StateMotorStopped(Marked(e, state)) /\ state \in Waits
      BY <2>1, <2>2 DEF ReactToState, Marked, Waits
    <3> QED
      BY <3>1, WaitGood
  <2>3. CASE state = "diskChanged"
    <3>1. n = StateCoverClosed(Marked(e, "coverClosed"))
      BY <2>1, <2>3 DEF ReactToState, Marked
    <3> QED
      BY <3>1, StateCoverClosedGood
  <2>4. CASE state \in {"ok", "other"}
    <3>1. n = Send(e, "CheckID1") \/ n = StoreErrorCode(e, 1)
      BY <2>1, <2>4 DEF ReactToState, StateError
    <3> QED
      BY <3>1, RequestGood, StateErrorGood
  <2> QED
    BY <2>2, <2>3, <2>4 DEF ErrorState
<1> QED
  BY <1>1, <1>2, <1>3

\* cbForStateGettingError
LEMMA AnswerGettingErrorGood ==
  ASSUME Scope, NEW e, NEW W, NEW all, Answered(e, W, all), NEW int \in IntType,
         NEW state, NEW code,
         int = "TC" => state \in ErrorState /\ code \in ErrorCode,
         NEW again \in Reissue, NEW n, n = CbForStateGettingError(e, int, state, code, again)
  PROVE  Good(n, all)
<1>1. CASE int # "TC"
  <2>1. n = StoreErrorCode(e, 2) \/ n = StoreErrorCode(e, 1)
    BY <1>1 DEF CbForStateGettingError, StateTimeout, StateError, IntType
  <2> QED
    BY <2>1, StateErrorGood
<1>2. CASE int = "TC"
  <2> DEFINE x == CategorizeError(e, state, code)
             c == x[1]
             f == x[2]
             h == React(f, c, state, code)
             r == ResumePoint(c, state, code)
  <2>1. x = CategorizeError(e, state, code) /\ e \in Fields /\ code \in ErrorCode
    BY <1>2 DEF Answered, Held, Taken
  <2>2. /\ f \in Fields /\ SameButFifo(e, f) /\ f.fifo = e.fifo
        /\ c \in {"error", "ok", "fatal", "unknown"}
    <3> HIDE DEF x
    <3> QED
      BY <2>1, CategorizeDoes
  <2>3. n = IF c = "error" THEN StateError(f) ELSE CheckCancel(f, r, again, h)
    BY <1>2 DEF CbForStateGettingError
  <2>4. h = React(f, c, state, code) /\ r = ResumePoint(c, state, code)
    OBVIOUS
  <2> HIDE DEF x, c, f, h, r
  <2>5. Answered(f, W, all)
    BY <2>2, SameAnswered
  <2>6. CASE c = "error"
    <3>1. n = StoreErrorCode(f, 1)
      BY <2>3, <2>6 DEF StateError
    <3> QED
      BY <2>5, <3>1, StateErrorGood
  <2>7. CASE c # "error"
    <3>1. n = CheckCancel(f, r, again, h)
      BY <2>3, <2>7
    <3>2. r \in Resume
      BY <1>2, <2>4 DEF ResumePoint, Resume, Waits
    <3>3. ~f.canceling => Good(h, all)
      BY <1>2, <2>2, <2>4, <2>5, ReactGood
    <3>4. Ending(f, W, all) /\ W \in SUBSET Block
      BY <2>5, AnsweredEnds
    <3> QED
      BY <3>1, <3>2, <3>3, <3>4, CheckCancelGood
  <2> QED
    BY <2>6, <2>7
<1> QED
  BY <1>1, <1>2

\* cbForStateGoToRetry and cbForStateCheckID1
LEMMA AnswerMotorStopGood ==
  ASSUME Scope, NEW e, NEW W, NEW all, Answered(e, W, all), NEW int \in IntType,
         NEW v \in {"wrongDiskID", "diskError"},
         NEW again \in Reissue, NEW n, n = CbForMotorStop(e, int, v, again)
  PROVE  Good(n, all)
<1>1. CASE int # "TC"
  <2>1. n = StoreErrorCode(e, 2) \/ n = StoreErrorCode(e, 1)
    BY <1>1 DEF CbForMotorStop, StateTimeout, StateError, IntType
  <2> QED
    BY <2>1, StateErrorGood
<1>2. CASE int = "TC"
  <2> DEFINE f == Forgiven(e)
  <2>1. n = WaitForDisc(f, v, again) /\ f = Forgiven(e)
    BY <1>2 DEF CbForMotorStop
  <2> HIDE DEF f
  <2>2. Answered(f, W, all)
    BY <2>1, ForgivenAnswered
  <2> QED
    BY <2>1, <2>2, WaitForDiscGood
<1> QED
  BY <1>1, <1>2

\* cbForStateReset
LEMMA AnswerResetGood ==
  ASSUME Scope, NEW e, NEW W, NEW all, Answered(e, W, all), NEW int \in IntType,
         NEW n, n = CbForStateReset(e, int)
  PROVE  Good(n, all)
<1> DEFINE f == [e EXCEPT !.resume = "none", !.resetAlarm = TRUE, !.known = FALSE]
<1>1. n = Checked(e, int, f)
  BY DEF CbForStateReset
<1>2. /\ e \in Fields /\ Listed(e, W, all) /\ InWork(e, W) /\ Brief(e, TRUE)
      /\ Rest(e, TRUE) = <<>> /\ e.resume = "none" /\ W \in SUBSET Block
      /\ NoAlarm(e) /\ NoWatch(e) /\ InHand(e) /\ e.dead = "no"
  BY AnsweredEnds DEF Answered, Held, Taken, InWork
<1>3. f \in Fields
  <2> DEFINE g == [e EXCEPT !.resetAlarm = TRUE]
  <2>1. TRUE \in Flags /\ FALSE \in Flags
    BY DEF Flags
  <2>2. ASSUME NEW t \in Flags  PROVE [e EXCEPT !.resetAlarm = t] \in Fields
    BY <1>2 DEF Fields
  <2>3. g \in Fields
    BY <2>1, <2>2
  <2>4. f = [g EXCEPT !.known = FALSE]
    BY <1>2 DEF Fields
  <2> HIDE DEF g, f
  <2>5. ASSUME NEW t \in Flags  PROVE [g EXCEPT !.known = t] \in Fields
    BY <2>3 DEF Fields
  <2> QED
    BY <2>1, <2>4, <2>5
<1>4. /\ SameJobs(e, f) /\ SameWatch(e, f) /\ f.fifo = e.fifo /\ f.resume = e.resume
      /\ f.motorState = e.motorState /\ f.resetAlarm /\ f.fatalAlarm = e.fatalAlarm
      /\ f.store = e.store /\ f.dead = e.dead
  BY <1>2 DEF Fields, SameJobs, SameWatch
<1> HIDE DEF f
<1>5. Listed(f, W, all) /\ InWork(f, W)
  BY <1>2, <1>4, JobsSame
<1>6. f.preparing = e.preparing
  BY <1>4 DEF SameWatch
<1>7. Rest(f, TRUE) = <<>> /\ Brief(f, TRUE)
  BY <1>2, <1>4, <1>6, RestSame
<1>8. NoWatch(f) /\ InHand(f) /\ Knows(f)
  BY <1>2, <1>4 DEF NoWatch, InHand, Knows, SameWatch, SameJobs
<1>9. Resetting(f, Rest(f, TRUE))
  BY <1>2, <1>4, <1>7, <1>8 DEF Resetting, NoAlarm, Still
<1>10. Phase(f, Rest(f, TRUE), W, all)
  BY <1>2, <1>3, <1>4, <1>5, <1>7, <1>8, <1>9 DEF Phase, Driven, Brief
<1>11. Good(f, all)
  BY <1>2, <1>10 DEF Good
<1> QED
  BY <1>1, <1>11, CheckedGood

\* The answers of the checks after a reset.
LEMMA AnswerCheckGood ==
  ASSUME Scope, NEW e, NEW W, NEW all, Answered(e, W, all), NEW int \in IntType,
         NEW right \in BOOLEAN, NEW again \in Reissue,
         NEW n, \/ n = CbForStateDownRotation(e, int)
                \/ n = CbForStateCoverClosed(e, int, right)
                \/ n = CbForStateReadingTOC(e, int)
                \/ n = CbForStateReadingPartitionInfo(e, int, right, again)
  PROVE  Good(n, all)
<1> DEFINE g == Forgiven(e)
<1>1. g = Forgiven(e)
  OBVIOUS
<1> HIDE DEF g
<1>2. Answered(g, W, all)
  BY <1>1, ForgivenAnswered
<1>3. CASE n = CbForStateDownRotation(e, int)
  <2> DEFINE f == StateCoverClosedCmd(e)
  <2>1. n = Checked(e, int, f) /\ f = StateCoverClosedCmd(e)
    BY <1>3 DEF CbForStateDownRotation
  <2> HIDE DEF f
  <2> QED
    BY <2>1, StateCheckGood, CheckedGood
<1>4. CASE n = CbForStateCoverClosed(e, int, right)
  <2> DEFINE f == IF right THEN SendCleared(g, "ReadingTOC") ELSE Send(g, "CheckID1")
  <2>1. n = Checked(e, int, f)
    BY <1>1, <1>4 DEF CbForStateCoverClosed
  <2>2. f = SendCleared(g, "ReadingTOC") \/ f = Send(g, "CheckID1")
    OBVIOUS
  <2> HIDE DEF f
  <2>3. Good(f, all)
    BY <1>2, <2>2, RequestGood
  <2> QED
    BY <2>1, <2>3, CheckedGood
<1>5. CASE n = CbForStateReadingTOC(e, int)
  <2> DEFINE f == SendCleared(g, "ReadingPartitionInfo")
  <2>1. n = Checked(e, int, f) /\ f = SendCleared(g, "ReadingPartitionInfo")
    BY <1>1, <1>5 DEF CbForStateReadingTOC
  <2> HIDE DEF f
  <2>2. Good(f, all)
    BY <1>2, <2>1, RequestGood
  <2> QED
    BY <2>1, <2>2, CheckedGood
<1>6. CASE n = CbForStateReadingPartitionInfo(e, int, right, again)
  <2> DEFINE f == IF right THEN SendCleared(g, "OpenPartition2")
                  ELSE WaitForDisc(g, "wrongDiskID", again)
  <2>1. n = Checked(e, int, f)
    BY <1>1, <1>6 DEF CbForStateReadingPartitionInfo
  <2>2. f = SendCleared(g, "OpenPartition2") \/ f = WaitForDisc(g, "wrongDiskID", again)
    OBVIOUS
  <2> HIDE DEF f
  <2>3. Good(f, all)
    BY <1>2, <2>2, RequestGood, WaitForDiscGood
  <2> QED
    BY <2>1, <2>3, CheckedGood
<1> QED
  BY <1>3, <1>4, <1>5, <1>6

\* cbForStateOpenPartition2
LEMMA AnswerOpenPartition2Good ==
  ASSUME Scope, NEW e, NEW W, NEW all, Answered(e, W, all), NEW int \in IntType,
         NEW again \in Reissue, NEW n, n = CbForStateOpenPartition2(e, int, again)
  PROVE  Good(n, all)
<1> DEFINE g == Forgiven(e)
           f == [g EXCEPT !.known = TRUE]
           m == Marked(f, "busy")
           s == StateBusy(m)
           h == CheckCancel(f, "none", again, s)
<1>1. n = Checked(e, int, h)
  BY DEF CbForStateOpenPartition2, Marked
<1>2. /\ g = Forgiven(e) /\ f = [g EXCEPT !.known = TRUE] /\ m = Marked(f, "busy")
      /\ s = StateBusy(m) /\ h = CheckCancel(f, "none", again, s)
  OBVIOUS
<1> HIDE DEF g, f, m, s, h
<1>3. Answered(g, W, all) /\ g \in Fields
  BY <1>2, ForgivenAnswered DEF Answered, Held, Taken
<1>4. f \in Fields
  <2>1. ASSUME NEW t \in Flags  PROVE [g EXCEPT !.known = t] \in Fields
    BY <1>3 DEF Fields
  <2> QED
    BY <1>2, <2>1 DEF Flags
<1>5. /\ SameJobs(g, f) /\ SameAlarms(g, f) /\ SameWatch(g, f) /\ f.known
      /\ f.motorState = g.motorState /\ f.resume = g.resume /\ f.fifo = g.fifo
  BY <1>2, <1>3 DEF Fields, SameJobs, SameAlarms, SameWatch
<1>6. Answered(f, W, all)
  BY <1>3, <1>4, <1>5, AnsweredSame DEF Knows
<1>7. W \in SUBSET Block /\ Ending(f, W, all) /\ "busy" \in State /\ "none" \in Resume
  BY <1>6, AnsweredEnds DEF State, Resume
<1>8. /\ Held(m, TRUE, W, all) /\ Stands(m) = "busy" /\ m.known = f.known
      /\ m.motorState = "working"
  <2>1. Held(m, TRUE, W, all) /\ Stands(m) = "busy" /\ SameRest(f, m)
    BY <1>2, <1>6, <1>7, MarkAnswered
  <2>2. f.motorState = "working"
    BY <1>7 DEF Ending
  <2> QED
    BY <2>1, <2>2 DEF SameRest, SameDrive
<1>9. InHand(m) /\ TRUE \in BOOLEAN /\ m.known
  BY <1>5, <1>8 DEF InHand, Stands
<1>10. Phase(s, Rest(s, TRUE), W, all)
  BY <1>2, <1>8, <1>9, BusyGood
<1>11. Good(s, all)
  BY <1>7, <1>10 DEF Good
<1>12. Good(h, all)
  BY <1>2, <1>7, <1>11, CheckCancelGood
<1> QED
  BY <1>1, <1>12, CheckedGood

\* cbForStateError: the message is about to be shown.
LEMMA AnswerErrorGood ==
  ASSUME NEW e, NEW W, NEW all, Held(e, TRUE, W, all), Rest(e, TRUE) = <<>>, Knows(e),
         NEW n, n = CbForStateError(e)
  PROVE  Good(n, all)
<1>1. /\ e \in Fields /\ Listed(e, W, all) /\ InWork(e, W) /\ Brief(e, TRUE)
      /\ W \in SUBSET Block /\ NoAlarm(e) /\ NoWatch(e) /\ e.dead = "no"
  BY DEF Held, Taken, Listed
<1>2. n \in Fields
  <2>1. ASSUME NEW t \in Flags  PROVE [e EXCEPT !.fatalAlarm = t] \in Fields
    BY <1>1 DEF Fields
  <2> QED
    BY <2>1 DEF Flags, CbForStateError
<1>3. /\ SameJobs(e, n) /\ SameWatch(e, n) /\ n.fifo = e.fifo /\ n.resume = e.resume
      /\ n.fatalAlarm /\ n.resetAlarm = e.resetAlarm /\ n.store = e.store
      /\ n.dead = e.dead /\ SameDrive(e, n)
  BY <1>1 DEF Fields, SameJobs, SameWatch, SameDrive, CbForStateError
<1>4. Listed(n, W, all) /\ InWork(n, W)
  BY <1>1, <1>3, JobsSame
<1>5. n.preparing = e.preparing
  BY <1>3 DEF SameWatch
<1>6. Rest(n, TRUE) = <<>> /\ Brief(n, TRUE)
  BY <1>1, <1>3, <1>5, RestSame
<1>7. NoWatch(n) /\ Knows(n)
  BY <1>1, <1>3 DEF NoWatch, Knows, SameWatch, SameDrive
<1>8. Showing(n, Rest(n, TRUE))
  BY <1>1, <1>3, <1>6, <1>7 DEF Showing, NoAlarm, Still
<1>9. Phase(n, Rest(n, TRUE), W, all)
  BY <1>1, <1>2, <1>3, <1>4, <1>6, <1>7, <1>8 DEF Phase, Driven, Brief
<1> QED
  BY <1>1, <1>9 DEF Good

-----------------------------------------------------------------------------
(* What is under way *)

\* A request of a command at the head is the only one, and the command waits
\* for it.
LEMMA AskedFinds ==
  ASSUME NEW e, NEW W, NEW all, Phase(e, e.fifo, W, all), e.fifo # <<>>,
         NEW r \in Request, Head(e.fifo) = r
  PROVE  /\ Held(e, TRUE, W, all) /\ Rest(e, TRUE) = <<>> /\ Knows(e)
         /\ r # "Error" => Answered(e, W, all)
         /\ r = "Busy" => e.known
<1>1. r # "none" /\ r # "PrepareCover"
  BY DEF Request, Aside
<1>2. /\ Head(<<"PrepareCover">>) = "PrepareCover" /\ Head(<<"none">>) = "none"
  OBVIOUS
<1>3. ~Still(e.fifo) /\ e.fifo # <<"none">>
  BY <1>1, <1>2 DEF Still
<1>4. Driven(e, e.fifo, W) /\ Asking(e, e.fifo)
  BY <1>3 DEF Phase, Idle, Between, Driven, Resetting, Logging, Showing, Watching
<1>5. PICK s \in Request : /\ EndsWith(e.fifo, s) /\ (s # "Error" => InHand(e))
                           /\ (s = "Busy" => e.known)
  BY <1>4 DEF Asking
<1>6. e.fifo = <<r>> /\ s = r
  <2>1. Head(<<s>>) = s /\ Head(<<"none", s>>) = "none"
        /\ Head(<<"none", "none", s>>) = "none"
    OBVIOUS
  <2>2. Head(<<"PrepareCover", s>>) = "PrepareCover"
        /\ Head(<<"PrepareCover", "none", s>>) = "PrepareCover"
    OBVIOUS
  <2>3. e.fifo = <<s>>
    BY <1>1, <1>5, <2>1, <2>2 DEF EndsWith
  <2> QED
    BY <2>1, <2>3
<1>7. /\ Len(<<r>>) = 1 /\ Tail(<<r>>) = <<>> /\ Head(<<r>>) = r /\ <<r>> # <<>>
  OBVIOUS
<1>8. Len(e.fifo) = 1 /\ Rest(e, TRUE) = <<>>
  BY <1>6, <1>7 DEF Rest
<1>9. Looking(e, e.fifo)
  BY DEF Phase
<1>10. Looking(e, <<>>)
  <2>1. e.preparing # "asked"
    <3>1. e.preparing = "asked" <=> e.fifo # <<>> /\ Head(e.fifo) = "PrepareCover"
      BY <1>9 DEF Looking
    <3> QED
      BY <1>1, <3>1
  <2> QED
    BY <2>1 DEF Looking
<1>11. Brief(e, TRUE)
  <2>1. Still(Rest(e, TRUE))
    BY <1>8 DEF Still
  <2>2. Looking(e, Rest(e, TRUE))
    BY <1>8, <1>10
  <2>3. Len(e.fifo) <= 1
    BY <1>8
  <2> QED
    BY <1>8, <2>1, <2>2, <2>3 DEF Brief
<1>12. Held(e, TRUE, W, all) /\ Knows(e)
  BY <1>4, <1>11 DEF Held, Taken, Phase, Driven, Asking
<1> QED
  BY <1>5, <1>6, <1>8, <1>12 DEF Answered

LEMMA EndsTail ==
  ASSUME NEW x, NEW r \in Request, EndsWith(x, r), Head(x) \in {"none", "PrepareCover"}
  PROVE  EndsWith(Tail(x), r) /\ Head(Tail(x)) # "PrepareCover"
<1>1. r # "none" /\ r # "PrepareCover"
  BY DEF Request, Aside
<1>2. Head(<<r>>) = r
  OBVIOUS
<1>3. /\ Tail(<<"none", r>>) = <<r>> /\ Tail(<<"PrepareCover", r>>) = <<r>>
      /\ Tail(<<"none", "none", r>>) = <<"none", r>>
      /\ Tail(<<"PrepareCover", "none", r>>) = <<"none", r>>
  OBVIOUS
<1>4. Head(<<"none", r>>) = "none"
  OBVIOUS
<1>5. Tail(x) = <<r>> \/ Tail(x) = <<"none", r>>
  BY <1>1, <1>2, <1>3 DEF EndsWith
<1> QED
  BY <1>1, <1>2, <1>4, <1>5 DEF EndsWith

\* A look at the cover, or a request that clears the interrupt, is answered:
\* whatever the command waits for stays.
LEMMA HeadOver ==
  ASSUME NEW e, NEW W, NEW all, Phase(e, e.fifo, W, all), e.fifo # <<>>,
         Head(e.fifo) \in {"none", "PrepareCover"}, NEW v \in Looks, v # "asked",
         NEW n, n = [e EXCEPT !.preparing = v]
  PROVE  /\ Phase(n, Rest(n, TRUE), W, all) /\ n.fifo = e.fifo
         /\ Idle(e, e.fifo) => Idle(n, Rest(n, TRUE))
         /\ Watching(e, e.fifo) => Watching(n, Rest(n, TRUE))
<1> DEFINE x == Tail(e.fifo)
<1>1. e \in Fields /\ e.fifo \in Seq(Callback) /\ Listed(e, W, all) /\ e.dead = "no"
  BY DEF Phase, Fields, Fifos
<1>2. n \in Fields
  BY <1>1 DEF Fields
<1>3. /\ SameJobs(e, n) /\ SameAlarms(e, n) /\ SameDrive(e, n) /\ n.preparing # "asked"
      /\ n.canceling = e.canceling /\ n.resume = e.resume /\ n.fifo = e.fifo
      /\ n.waitOpen = e.waitOpen /\ n.waitClose = e.waitClose
      /\ n.coverAlarm = e.coverAlarm
  BY <1>1 DEF Fields, SameJobs, SameAlarms, SameDrive
<1>4. Rest(n, TRUE) = x
  BY <1>3 DEF Rest
<1> HIDE DEF x
<1>5. Listed(n, W, all)
  BY <1>1, <1>3, JobsSame
<1>6. InWork(e, W) => InWork(n, W)
  BY <1>3, JobsSame
<1>7. Knows(e) => Knows(n)
  BY <1>3 DEF Knows, SameDrive, SameAlarms
<1>8. ASSUME Still(e.fifo) \/ e.fifo = <<"none">>  PROVE x = <<>>
  <2>1. Tail(<<"PrepareCover">>) = <<>> /\ Tail(<<"none">>) = <<>>
    OBVIOUS
  <2> QED
    BY <1>8, <2>1 DEF x, Still
<1>9. Still(<<>>) /\ <<>> # <<"none">>
  BY DEF Still
<1>10. Idle(e, e.fifo) => Idle(n, x) /\ x = <<>>
  BY <1>3, <1>8, <1>9 DEF Idle, Between, NoAlarm, SameJobs, SameAlarms, SameDrive
<1>11. Watching(e, e.fifo) => Watching(n, x) /\ x = <<>>
  BY <1>3, <1>8, <1>9 DEF Watching, NoAlarm, SameJobs, SameAlarms
<1>12. NoWatch(e) => NoWatch(n)
  BY <1>3 DEF NoWatch
<1>13. InHand(e) => InHand(n)
  BY <1>3 DEF InHand, SameJobs, SameDrive
<1>14. Resetting(e, e.fifo) => Resetting(n, x) /\ x = <<>>
  BY <1>3, <1>8, <1>9, <1>12, <1>13 DEF Resetting, SameAlarms
<1>15. Logging(e, e.fifo) => Logging(n, x) /\ x = <<>>
  BY <1>3, <1>8, <1>9, <1>12, <1>13 DEF Logging, SameAlarms
<1>16. Showing(e, e.fifo) => Showing(n, x) /\ x = <<>>
  BY <1>3, <1>8, <1>9, <1>12 DEF Showing, SameAlarms
<1>17. Asking(e, e.fifo) => Asking(n, x) /\ Head(x) # "PrepareCover"
  <2> SUFFICES ASSUME Asking(e, e.fifo)  PROVE Asking(n, x) /\ Head(x) # "PrepareCover"
    OBVIOUS
  <2>1. PICK r \in Request : /\ EndsWith(e.fifo, r) /\ (r # "Error" => InHand(e))
                             /\ (r = "Busy" => e.known)
    BY DEF Asking
  <2>2. EndsWith(x, r) /\ Head(x) # "PrepareCover"
    BY <2>1, EndsTail DEF x
  <2>3. NoAlarm(n) /\ NoWatch(n) /\ (r = "Busy" => n.known)
    BY <1>3, <1>12, <2>1 DEF Asking, NoAlarm, SameAlarms, SameDrive
  <2> QED
    BY <1>13, <2>1, <2>2, <2>3 DEF Asking
<1>18. Idle(n, x) \/ Driven(n, x, W)
  BY <1>6, <1>7, <1>10, <1>11, <1>14, <1>15, <1>16, <1>17 DEF Phase, Driven
<1>19. Looking(n, x)
  <2>1. x = <<>> \/ Head(x) # "PrepareCover"
    BY <1>10, <1>11, <1>14, <1>15, <1>16, <1>17 DEF Phase, Driven
  <2> QED
    BY <1>3, <2>1 DEF Looking
<1>20. Phase(n, x, W, all)
  BY <1>1, <1>2, <1>3, <1>5, <1>18, <1>19 DEF Phase, SameAlarms
<1> QED
  BY <1>3, <1>4, <1>10, <1>11, <1>20

LEMMA AnswerNoneGood ==
  ASSUME NEW e, NEW W, NEW all, Phase(e, e.fifo, W, all), e.fifo # <<>>,
         Head(e.fifo) = "none"
  PROVE  Good(e, all)
<1>1. e \in Fields /\ Looking(e, e.fifo) /\ W \in SUBSET Block
  BY DEF Phase, Listed
<1>2. e.preparing # "asked" /\ e.preparing \in Looks
  BY <1>1 DEF Looking, Fields
<1>3. e = [e EXCEPT !.preparing = e.preparing]
  BY <1>1 DEF Fields
<1>4. Phase(e, Rest(e, TRUE), W, all)
  BY <1>2, <1>3, HeadOver
<1> QED
  BY <1>1, <1>4 DEF Good

-----------------------------------------------------------------------------
(* The watch of the cover *)

\* The watch ends.
Unwatched(e) == [e EXCEPT !.coverAlarm = FALSE, !.waitOpen = FALSE, !.waitClose = FALSE]

LEMMA UnwatchedDoes ==
  ASSUME NEW e \in Fields, NEW n, n = Unwatched(e)
  PROVE  /\ n \in Fields /\ SameJobs(e, n) /\ SameAlarms(e, n) /\ SameDrive(e, n)
         /\ NoWatch(n) /\ n.preparing = e.preparing /\ n.canceling = e.canceling
         /\ n.resume = e.resume /\ n.fifo = e.fifo
<1>1. FALSE \in Flags
  BY DEF Flags
<1>2. n \in Fields
  <2>1. ASSUME NEW g \in Fields, NEW t \in Flags
        PROVE  /\ [g EXCEPT !.coverAlarm = t] \in Fields
               /\ [g EXCEPT !.waitOpen = t] \in Fields
               /\ [g EXCEPT !.waitClose = t] \in Fields
    BY DEF Fields
  <2> DEFINE g == [e EXCEPT !.coverAlarm = FALSE]
             h == [g EXCEPT !.waitOpen = FALSE]
  <2>2. g \in Fields
    BY <1>1, <2>1
  <2>3. h \in Fields
    <3> HIDE DEF g
    <3> QED
      BY <1>1, <2>1, <2>2
  <2>4. n = [h EXCEPT !.waitClose = FALSE]
    BY DEF Unwatched
  <2> HIDE DEF g, h
  <2> QED
    BY <1>1, <2>1, <2>3, <2>4
<1>3. /\ n.coverAlarm = FALSE /\ n.waitOpen = FALSE /\ n.waitClose = FALSE
      /\ n.preparing = e.preparing /\ n.canceling = e.canceling
      /\ n.resume = e.resume /\ n.fifo = e.fifo
  BY DEF Fields, Unwatched
<1>4. SameJobs(e, n) /\ SameAlarms(e, n) /\ SameDrive(e, n)
  BY DEF Fields, Unwatched, SameJobs, SameAlarms, SameDrive
<1> QED
  BY <1>2, <1>3, <1>4 DEF NoWatch

LEMMA MarkTaken ==
  ASSUME NEW e, NEW W, NEW all, Taken(e, TRUE, W, all), NEW v \in State,
         NEW n, n = Marked(e, v)
  PROVE  Taken(n, TRUE, W, all) /\ Stands(n) = v /\ SameRest(e, n) /\ n.fifo = e.fifo
<1>1. PICK a \in BOOLEAN : a = TRUE
  OBVIOUS
<1>2. Taken(e, a, W, all)
  BY <1>1
<1>3. /\ Taken(n, a, W, all) /\ n.state[n.executing] = v
      /\ SameRest(e, n) /\ n.fifo = e.fifo
  BY <1>2, MarkGood
<1> QED
  BY <1>1, <1>3 DEF Stands

\* cbForStateMotorStopped with a command, after one more request or not: the
\* drive is reset.
LEMMA ClosedGood ==
  ASSUME Scope, NEW e, NEW W, NEW all, Held(e, TRUE, W, all), Knows(e),
         NEW n, \/ n = StateCoverClosed(Marked(e, "coverClosed"))
                \/ n = StateCoverClosed(Marked(Send(e, "none"), "coverClosed"))
  PROVE  Good(n, all)
<1> DEFINE m == Marked(e, "coverClosed")
           h == [m EXCEPT !.motorState = "working"]
<1>1. /\ Taken(e, TRUE, W, all) /\ e \in Fields /\ NoWatch(e) /\ W \in SUBSET Block
      /\ Len(e.fifo) = 1 /\ e.fifo \in Seq(Callback) /\ e.executing \in Block
  BY DEF Held, Taken, Listed, Brief, Fields, Fifos, InWork
<1>2. /\ Taken(m, TRUE, W, all) /\ Stands(m) = "coverClosed" /\ SameRest(e, m)
      /\ m.fifo = e.fifo
  <2>1. m = Marked(e, "coverClosed") /\ "coverClosed" \in State
    BY DEF State
  <2> HIDE DEF m, h
  <2> QED
    BY <1>1, <2>1, MarkTaken
<1>3. n = Send(h, "Reset") \/ n = SendCleared(h, "Reset")
  <2>1. CASE n = StateCoverClosed(Marked(e, "coverClosed"))
    BY <2>1 DEF StateCoverClosed
  <2>2. CASE n = StateCoverClosed(Marked(Send(e, "none"), "coverClosed"))
    <3> DEFINE x == Append(e.fifo, "none")
               y == Append(x, "Reset")
               s == [e.state EXCEPT ![e.executing] = "coverClosed"]
               v == "working"
    <3>1. /\ Len(e.fifo) < 3 /\ Len(x) < 3 /\ "none" \in Callback /\ "Reset" \in Callback
          /\ x \in Fifos /\ s \in States /\ v \in MotorStates
      <4>1. Len(x) = 2
        <5>1. PICK c : e.fifo = <<c>>
          BY <1>1
        <5> QED
          BY <5>1, AppendOne
      <4>2. "none" \in Callback /\ "Reset" \in Callback
        BY DEF Callback
      <4>3. e.state \in States /\ "coverClosed" \in State
        BY <1>1 DEF Fields, State
      <4> QED
        BY <1>1, <4>1, <4>2, <4>3 DEF Fifos, States, MotorStates
    <3>2. Send(e, "none") = [e EXCEPT !.fifo = x]
      BY <1>1, <3>1, SendDoes
    <3>3. Marked([e EXCEPT !.fifo = x], "coverClosed") = [e EXCEPT !.fifo = x, !.state = s]
      <4> HIDE DEF x
      <4> QED
        BY <1>1 DEF Marked, Fields, s
    <3> HIDE DEF x, y, s, v
    <3> DEFINE g == [e EXCEPT !.fifo = x, !.state = s, !.motorState = v]
    <3>4. n = Send(g, "Reset")
      BY <2>2, <3>2, <3>3 DEF StateCoverClosed, v
    <3>5. g \in Fields /\ g.fifo = x
      BY <1>1, <3>1 DEF Fields
    <3>6. h = [e EXCEPT !.state = s, !.motorState = v]
      BY <1>1 DEF Marked, Fields, s, v
    <3>7. h \in Fields /\ h.fifo = e.fifo /\ [h EXCEPT !.fifo = x] = g
      <4> HIDE DEF h
      <4> QED
        BY <1>1, <3>1, <3>6 DEF Fields
    <3> HIDE DEF g, h
    <3>8. Send(h, "none") = [h EXCEPT !.fifo = Append(h.fifo, "none")]
      BY <3>1, <3>7, SendDoes
    <3>9. Send(h, "none") = g
      BY <3>7, <3>8 DEF x
    <3> QED
      BY <3>4, <3>9 DEF SendCleared
  <2> QED
    BY <2>1, <2>2
<1>4. h = [m EXCEPT !.motorState = "working"] /\ m \in Fields
  BY <1>2 DEF Taken
<1> HIDE DEF m
<1>5. "working" \in MotorStates
  BY DEF MotorStates
<1>6. h \in Fields
  BY <1>4, <1>5 DEF Fields
<1>7. /\ SameJobs(m, h) /\ SameAlarms(m, h) /\ SameWatch(m, h)
      /\ h.resume = m.resume /\ h.fifo = m.fifo /\ h.motorState = "working"
      /\ h.known = m.known /\ h.lastState = m.lastState
  BY <1>4 DEF Fields, SameJobs, SameAlarms, SameWatch
<1> HIDE DEF h
<1>8. NoWatch(m) /\ Knows(m)
  BY <1>1, <1>2 DEF NoWatch, Knows, SameRest, SameWatch, SameDrive, SameAlarms
<1>9. Held(m, TRUE, W, all)
  BY <1>2, <1>8 DEF Held
<1>10. Held(h, TRUE, W, all)
  <2>1. PICK a \in BOOLEAN : a = TRUE
    OBVIOUS
  <2>2. Held(m, a, W, all)
    BY <1>9, <2>1
  <2>3. Held(h, a, W, all)
    BY <1>6, <1>7, <2>2, HeldSame
  <2> QED
    BY <2>1, <2>3
<1>11. Knows(h) /\ InHand(h)
  BY <1>2, <1>7, <1>8 DEF Knows, InHand, Stands, SameJobs, SameAlarms
<1>12. "Reset" \in Request /\ TRUE \in BOOLEAN
  BY DEF Request, Callback, Aside
<1>13. Phase(n, Rest(n, TRUE), W, all)
  BY <1>3, <1>10, <1>11, <1>12, Asks
<1> QED
  BY <1>1, <1>13 DEF Good

\* ... and without a command: the next one resumes with a reset.
LEMMA OffGood ==
  ASSUME Scope, NEW e \in Fields, e.dead = "no", NEW W, NEW all, Listed(e, W, all),
         e.executing = NULL, NoAlarm(e), ~e.canceling, NoWatch(e), e.preparing # "asked",
         e.fifo = <<"PrepareCover">>,
         NEW f, f = e \/ f = Send(e, "none"),
         NEW n, n = [f EXCEPT !.resume = "motorOff"]
  PROVE  Good(n, all)
<1>1. Len(<<"PrepareCover">>) = 1 /\ "none" \in Callback /\ "motorOff" \in Resume
  BY DEF Callback, Resume
<1>2. Len(e.fifo) < 3
  BY <1>1
<1>3. /\ f \in Fields /\ SameButFifo(e, f)
      /\ f.fifo = <<"PrepareCover">> \/ f.fifo = <<"PrepareCover", "none">>
  <2>1. CASE f = e
    BY <2>1 DEF SameButFifo, SameJobs, SameRest, SameWatch, SameAlarms, SameDrive
  <2>2. CASE f = Send(e, "none")
    <3>1. f \in Fields /\ SameButFifo(e, f) /\ f.fifo = Append(e.fifo, "none")
      BY <1>1, <1>2, <2>2, SendDoes
    <3>2. Append(<<"PrepareCover">>, "none") = <<"PrepareCover", "none">>
      BY AppendOne
    <3> QED
      BY <3>1, <3>2
  <2> QED
    BY <2>1, <2>2
<1>4. /\ n \in Fields /\ SameJobs(f, n) /\ SameAlarms(f, n) /\ SameWatch(f, n)
      /\ n.resume = "motorOff" /\ n.fifo = f.fifo /\ n.canceling = f.canceling
  <2> DEFINE v == "motorOff"
  <2>1. n = [f EXCEPT !.resume = v] /\ v \in Resume /\ v = "motorOff"
    BY <1>1
  <2> HIDE DEF v
  <2>2. n \in Fields
    BY <1>3, <2>1 DEF Fields
  <2>3. /\ SameJobs(f, n) /\ SameAlarms(f, n) /\ SameWatch(f, n)
        /\ n.resume = v /\ n.fifo = f.fifo /\ n.canceling = f.canceling
    BY <1>3, <2>1 DEF Fields, SameJobs, SameAlarms, SameWatch
  <2> QED
    BY <2>1, <2>2, <2>3
<1>5. SameJobs(e, n)
  BY <1>3, <1>4 DEF SameButFifo, SameJobs
<1>6. Listed(n, W, all) /\ n.executing = NULL
  BY <1>5, JobsSame DEF SameJobs
<1>7. /\ NoAlarm(n) /\ NoWatch(n) /\ n.preparing # "asked" /\ ~n.canceling /\ n.dead = "no"
  BY <1>3, <1>4 DEF NoAlarm, NoWatch, SameButFifo, SameRest, SameWatch, SameAlarms
<1>8. Rest(n, TRUE) = <<>> \/ Rest(n, TRUE) = <<"none">>
  <2>1. /\ Tail(<<"PrepareCover">>) = <<>> /\ Tail(<<"PrepareCover", "none">>) = <<"none">>
    OBVIOUS
  <2> QED
    BY <1>3, <1>4, <2>1 DEF Rest
<1>9. Looking(n, Rest(n, TRUE))
  <2>1. Head(<<"none">>) = "none"
    OBVIOUS
  <2> QED
    BY <1>7, <1>8, <2>1 DEF Looking
<1>10. Between(n, Rest(n, TRUE))
  BY <1>4, <1>7, <1>8 DEF Between, NoWatch, Still
<1>11. Phase(n, Rest(n, TRUE), W, all)
  BY <1>4, <1>6, <1>7, <1>9, <1>10 DEF Phase, Idle
<1> QED
  BY <1>6, <1>11 DEF Good, Listed

\* The watch is running.
LEMMA WatchFinds ==
  ASSUME NEW e, NEW W, NEW all, Phase(e, e.fifo, W, all), Head(e.fifo) = "PrepareCover",
         e.fifo # <<>>
  PROVE  /\ e.executing = NULL => Idle(e, e.fifo) /\ (e.coverAlarm <=> e.waitClose)
         /\ e.executing # NULL /\ e.coverAlarm =>
              Watching(e, e.fifo) /\ InWork(e, W) /\ Knows(e)
<1>1. Idle(e, e.fifo) \/ Driven(e, e.fifo, W)
  BY DEF Phase
<1>2. ASSUME e.executing = NULL  PROVE Idle(e, e.fifo) /\ (e.coverAlarm <=> e.waitClose)
  BY <1>1, <1>2, QueueAssumption DEF Driven, InWork, Idle, Between
<1>3. ASSUME e.executing # NULL, e.coverAlarm
      PROVE  Watching(e, e.fifo) /\ InWork(e, W) /\ Knows(e)
  BY <1>1, <1>3 DEF Idle, Driven, Asking, Resetting, Logging, Showing, NoWatch
<1> QED
  BY <1>2, <1>3

\* A command waits for the cover, and the answer of a look at it is all there is.
LEMMA WatchTaken ==
  ASSUME NEW e, NEW W, NEW all, Phase(e, e.fifo, W, all), e.fifo # <<>>,
         Head(e.fifo) = "PrepareCover", e.executing # NULL, e.coverAlarm,
         NEW f, f = [e EXCEPT !.preparing = "no"]
  PROVE  /\ Taken(f, TRUE, W, all) /\ Watching(f, Rest(f, TRUE)) /\ Knows(f)
         /\ f.executing = e.executing /\ Len(f.fifo) = 1
<1>1. /\ Watching(e, e.fifo) /\ InWork(e, W) /\ Knows(e) /\ e \in Fields /\ e.dead = "no"
      /\ W \in SUBSET Block /\ e.fifo \in Seq(Callback)
  BY WatchFinds DEF Phase, Listed, Fields, Fifos
<1>2. Phase(f, Rest(f, TRUE), W, all) /\ f.fifo = e.fifo /\ Watching(f, Rest(f, TRUE))
  <2>1. "no" \in Looks
    BY DEF Looks
  <2> QED
    BY <1>1, <2>1, HeadOver
<1>3. f \in Fields /\ Listed(f, W, all) /\ f.dead = "no" /\ Looking(f, Rest(f, TRUE))
  BY <1>2 DEF Phase
<1>4. f.executing = e.executing /\ InWork(f, W) /\ Knows(f)
  BY <1>1 DEF Fields, InWork, Knows
<1>5. e.fifo = <<"PrepareCover">>
  BY <1>1 DEF Watching, Still
<1>6. Len(<<"PrepareCover">>) = 1 /\ Tail(<<"PrepareCover">>) = <<>>
  OBVIOUS
<1>7. Len(f.fifo) = 1 /\ Rest(f, TRUE) = <<>>
  BY <1>2, <1>5, <1>6 DEF Rest
<1>8. Brief(f, TRUE)
  <2>1. Still(Rest(f, TRUE))
    BY <1>7 DEF Still
  <2>2. Len(f.fifo) <= 1
    <3> DEFINE k == Len(f.fifo)
    <3>1. k = 1
      BY <1>7
    <3> HIDE DEF k
    <3>2. k <= 1
      BY <3>1
    <3> QED
      BY <3>2 DEF k
  <2> QED
    BY <1>3, <1>7, <2>1, <2>2 DEF Brief
<1>9. Taken(f, TRUE, W, all)
  BY <1>2, <1>3, <1>4, <1>8 DEF Taken, Watching
<1> QED
  BY <1>2, <1>4, <1>7, <1>9

\* The cover was closed while a command waited for it.
LEMMA ClosedAnswer ==
  ASSUME Scope, NEW e, NEW W, NEW all, Phase(e, e.fifo, W, all), e.fifo # <<>>,
         Head(e.fifo) = "PrepareCover", e.executing # NULL, e.coverAlarm,
         NEW f, f = [e EXCEPT !.preparing = "no"],
         NEW q, q = Unwatched(f),
         NEW n, n = CbForStateMotorStopped(q) \/ n = CbForStateMotorStopped(Send(q, "none"))
  PROVE  Good(n, all)
<1>1. /\ Taken(f, TRUE, W, all) /\ Knows(f) /\ f.executing = e.executing
      /\ Len(f.fifo) = 1
  BY WatchTaken
<1>2. f \in Fields
  BY <1>1 DEF Taken
<1>3. /\ q \in Fields /\ SameJobs(f, q) /\ SameAlarms(f, q) /\ SameDrive(f, q)
      /\ NoWatch(q) /\ q.preparing = f.preparing /\ q.canceling = f.canceling
      /\ q.resume = f.resume /\ q.fifo = f.fifo
  BY <1>2, UnwatchedDoes
<1>4. Held(q, TRUE, W, all)
  <2>1. PICK a \in BOOLEAN : a = TRUE
    OBVIOUS
  <2>2. Taken(f, a, W, all)
    BY <1>1, <2>1
  <2>3. Taken(q, a, W, all)
    BY <1>3, <2>2, TakenSame
  <2> QED
    BY <1>3, <2>1, <2>3 DEF Held
<1>5. Knows(q) /\ q.executing # NULL /\ q.executing = e.executing
  BY <1>1, <1>3 DEF Knows, SameDrive, SameAlarms, SameJobs
<1>6. \A g \in Fields : g.waitClose = FALSE => [g EXCEPT !.waitClose = FALSE] = g
  BY DEF Fields
<1>7. q.waitClose = FALSE
  BY <1>3 DEF NoWatch, Fields, Flags
<1>8. CASE n = CbForStateMotorStopped(q)
  <2>1. [q EXCEPT !.waitClose = FALSE] = q
    BY <1>3, <1>6, <1>7
  <2>2. n = StateCoverClosed(Marked(q, "coverClosed"))
    BY <1>5, <1>8, <2>1 DEF CbForStateMotorStopped, Marked
  <2> QED
    BY <1>4, <1>5, <2>2, ClosedGood
<1>9. CASE n = CbForStateMotorStopped(Send(q, "none"))
  <2> DEFINE s == Send(q, "none")
  <2>1. n = CbForStateMotorStopped(s) /\ s = Send(q, "none")
    BY <1>9
  <2> HIDE DEF s
  <2>2. Len(q.fifo) < 3 /\ "none" \in Callback
    <3> DEFINE k == Len(q.fifo)
    <3>1. k = 1
      BY <1>3, <1>1
    <3> HIDE DEF k
    <3>2. k < 3
      BY <3>1
    <3>3. "none" \in Callback
      BY DEF Callback
    <3> QED
      BY <3>2, <3>3 DEF k
  <2>3. s \in Fields /\ SameButFifo(q, s)
    BY <1>3, <2>1, <2>2, SendDoes
  <2>4. s.waitClose = FALSE /\ s.executing # NULL
    BY <1>5, <1>7, <2>3 DEF SameButFifo, SameRest, SameWatch, SameJobs
  <2>5. [s EXCEPT !.waitClose = FALSE] = s
    BY <1>6, <2>3, <2>4
  <2>6. n = StateCoverClosed(Marked(s, "coverClosed"))
    BY <2>1, <2>4, <2>5 DEF CbForStateMotorStopped, Marked
  <2> QED
    BY <1>4, <1>5, <2>1, <2>6, ClosedGood
<1> QED
  BY <1>8, <1>9

\* ... or while none did.
LEMMA IdleAnswer ==
  ASSUME Scope, NEW e, NEW W, NEW all, Phase(e, e.fifo, W, all), e.fifo # <<>>,
         Head(e.fifo) = "PrepareCover", e.executing = NULL,
         NEW f, f = [e EXCEPT !.preparing = "no"],
         NEW q, q = Unwatched(f),
         NEW n, n = CbForStateMotorStopped(q) \/ n = CbForStateMotorStopped(Send(q, "none"))
  PROVE  Good(n, all)
<1>1. Idle(e, e.fifo) /\ e \in Fields
  BY WatchFinds DEF Phase
<1>2. Phase(f, Rest(f, TRUE), W, all) /\ f.fifo = e.fifo /\ Idle(f, Rest(f, TRUE))
  <2>1. "no" \in Looks
    BY DEF Looks
  <2> QED
    BY <1>1, <2>1, HeadOver
<1>3. f \in Fields /\ Listed(f, W, all) /\ f.dead = "no" /\ f.preparing # "asked"
  BY <1>1, <1>2 DEF Phase, Fields
<1>4. /\ q \in Fields /\ SameJobs(f, q) /\ SameAlarms(f, q)
      /\ NoWatch(q) /\ q.preparing = f.preparing /\ q.canceling = f.canceling
      /\ q.fifo = f.fifo
  BY <1>3, UnwatchedDoes
<1>5. e.fifo = <<"PrepareCover">>
  <2>1. Head(<<"none">>) = "none"
    OBVIOUS
  <2> QED
    BY <1>1, <2>1 DEF Idle, Between, Still
<1>6. Listed(q, W, all)
  BY <1>3, <1>4, JobsSame
<1>7. q.executing = NULL /\ NoAlarm(q) /\ ~q.canceling /\ q.preparing # "asked" /\ q.dead = "no"
  BY <1>2, <1>3, <1>4 DEF Idle, Between, NoAlarm, SameJobs, SameAlarms
<1>8. q.fifo = <<"PrepareCover">> /\ q.waitClose = FALSE
  BY <1>2, <1>4, <1>5 DEF NoWatch, Fields, Flags
<1>9. \A g \in Fields : g.waitClose = FALSE => [g EXCEPT !.waitClose = FALSE] = g
  BY DEF Fields
<1>10. ASSUME NEW s \in Fields, s.waitClose = FALSE, s.executing = NULL,
              s = q \/ s = Send(q, "none"), n = CbForStateMotorStopped(s)
       PROVE  Good(n, all)
  <2>1. [s EXCEPT !.waitClose = FALSE] = s
    BY <1>9, <1>10
  <2>2. n = [s EXCEPT !.resume = "motorOff"]
    BY <1>10, <2>1 DEF CbForStateMotorStopped
  <2> QED
    BY <1>4, <1>6, <1>7, <1>8, <1>10, <2>2, OffGood
<1>11. CASE n = CbForStateMotorStopped(q)
  BY <1>4, <1>7, <1>8, <1>10, <1>11
<1>12. CASE n = CbForStateMotorStopped(Send(q, "none"))
  <2> DEFINE s == Send(q, "none")
  <2>1. n = CbForStateMotorStopped(s) /\ s = Send(q, "none")
    BY <1>12
  <2> HIDE DEF s
  <2>2. Len(q.fifo) < 3 /\ "none" \in Callback
    <3> DEFINE k == Len(q.fifo)
    <3>1. Len(<<"PrepareCover">>) = 1
      OBVIOUS
    <3>2. k = 1
      BY <1>8, <3>1
    <3> HIDE DEF k
    <3>3. k < 3
      BY <3>2
    <3>4. "none" \in Callback
      BY DEF Callback
    <3> QED
      BY <3>3, <3>4 DEF k
  <2>3. s \in Fields /\ SameButFifo(q, s)
    BY <1>4, <2>1, <2>2, SendDoes
  <2>4. s.waitClose = FALSE /\ s.executing = NULL
    BY <1>7, <1>8, <2>3 DEF SameButFifo, SameRest, SameWatch, SameJobs
  <2> QED
    BY <1>10, <2>1, <2>3, <2>4
<1> QED
  BY <1>11, <1>12

\* The cover was opened: now it is its closing that the command waits for.
Opened(e) == [e EXCEPT !.waitOpen = FALSE, !.waitClose = TRUE,
                       !.state[e.executing] = "coverOpened"]

LEMMA OpenedGood ==
  ASSUME NEW f, NEW W, NEW all, Taken(f, TRUE, W, all), Watching(f, Rest(f, TRUE)),
         Knows(f), NEW n, n = Opened(f)
  PROVE  Good(n, all)
<1> DEFINE m == Marked(f, "coverOpened")
<1>1. /\ Taken(m, TRUE, W, all) /\ Rest(m, TRUE) = Rest(f, TRUE)
      /\ Stands(m) = "coverOpened" /\ SameRest(f, m) /\ m.fifo = f.fifo
  <2>1. m = Marked(f, "coverOpened") /\ "coverOpened" \in State
    BY DEF State, Waits
  <2> HIDE DEF m
  <2>2. /\ Taken(m, TRUE, W, all) /\ Stands(m) = "coverOpened"
        /\ SameRest(f, m) /\ m.fifo = f.fifo
    BY <2>1, MarkTaken
  <2> QED
    BY <2>2 DEF Rest
<1>2. m \in Fields /\ f \in Fields
  BY <1>1 DEF Taken
<1>3. n = [m EXCEPT !.waitOpen = FALSE, !.waitClose = TRUE]
  BY <1>2 DEF Opened, Marked, Fields
<1> HIDE DEF m
<1>4. /\ n \in Fields /\ n.waitOpen = FALSE /\ n.waitClose = TRUE
  <2>1. TRUE \in Flags /\ FALSE \in Flags
    BY DEF Flags
  <2>2. ASSUME NEW s \in Flags, NEW t \in Flags
        PROVE  [m EXCEPT !.waitOpen = s, !.waitClose = t] \in Fields
    <3> DEFINE g == [m EXCEPT !.waitOpen = s]
    <3>1. g \in Fields
      BY <1>2 DEF Fields
    <3>2. [m EXCEPT !.waitOpen = s, !.waitClose = t] = [g EXCEPT !.waitClose = t]
      BY <1>2 DEF Fields
    <3> HIDE DEF g
    <3>3. [g EXCEPT !.waitClose = t] \in Fields
      BY <3>1 DEF Fields
    <3> QED
      BY <3>2, <3>3
  <2>3. n.waitOpen = FALSE /\ n.waitClose = TRUE
    BY <1>2, <1>3 DEF Fields
  <2> QED
    BY <1>3, <2>1, <2>2, <2>3
<1>5. /\ SameJobs(m, n) /\ SameAlarms(m, n) /\ SameDrive(m, n)
      /\ n.coverAlarm = m.coverAlarm /\ n.preparing = m.preparing
      /\ n.resume = m.resume /\ n.canceling = m.canceling /\ n.fifo = m.fifo
  <2>1. SameJobs(m, n)
    BY <1>2, <1>3 DEF Fields, SameJobs
  <2>2. SameAlarms(m, n)
    BY <1>2, <1>3 DEF Fields, SameAlarms
  <2>3. SameDrive(m, n)
    BY <1>2, <1>3 DEF Fields, SameDrive
  <2>4. /\ n.coverAlarm = m.coverAlarm /\ n.preparing = m.preparing
        /\ n.resume = m.resume /\ n.canceling = m.canceling /\ n.fifo = m.fifo
    BY <1>2, <1>3 DEF Fields
  <2> QED
    BY <2>1, <2>2, <2>3, <2>4
<1>6. Taken(n, TRUE, W, all) /\ Rest(n, TRUE) = Rest(m, TRUE)
  <2>1. PICK a \in BOOLEAN : a = TRUE
    OBVIOUS
  <2>2. Taken(m, a, W, all)
    BY <1>1, <2>1
  <2>3. Taken(n, a, W, all) /\ Rest(n, a) = Rest(m, a)
    BY <1>4, <1>5, <2>2, TakenSame
  <2> QED
    BY <2>1, <2>3
<1>7. Stands(n) = "coverOpened" /\ n.coverAlarm /\ ~n.canceling /\ Still(Rest(n, TRUE))
  BY <1>1, <1>5, <1>6 DEF Stands, SameJobs, SameRest, SameWatch, Watching
<1>8. Watching(n, Rest(n, TRUE))
  BY <1>4, <1>6, <1>7 DEF Watching, Taken, Stands, Waits
<1>9. Knows(n)
  BY <1>1, <1>5 DEF Knows, SameRest, SameDrive, SameAlarms
<1>10. Phase(n, Rest(n, TRUE), W, all)
  BY <1>6, <1>8, <1>9 DEF Phase, Driven, Taken, Brief
<1>11. W \in SUBSET Block
  BY DEF Taken, Listed
<1> QED
  BY <1>10, <1>11 DEF Good

\* cbForPrepareCoverRegister.  Late, it finds the driver dead.
Lost(e, n) ==
  /\ n \in Fields /\ n.dead \in {"nullWrite", "astray"} /\ n.fifo = e.fifo
  /\ n.known = e.known

LEMMA AnswerPrepareCoverGood ==
  ASSUME Scope, NEW e, NEW W, NEW all, Phase(e, e.fifo, W, all), e.fifo # <<>>,
         Head(e.fifo) = "PrepareCover", NEW cvr \in BOOLEAN, NEW cvrint \in BOOLEAN,
         NEW n, n = CbForPrepareCoverRegister(e, cvr, cvrint)
  PROVE  Good(n, all) \/ Lost(e, n)
<1> DEFINE f == [e EXCEPT !.preparing = "no"]
           c == [f EXCEPT !.coverAlarm = FALSE]
           q == Unwatched(f)
<1>1. e \in Fields /\ f = [e EXCEPT !.preparing = "no"]
  BY DEF Phase
<1>2. /\ Phase(f, Rest(f, TRUE), W, all) /\ f.fifo = e.fifo /\ f \in Fields
      /\ W \in SUBSET Block
  <2>1. Phase(f, Rest(f, TRUE), W, all) /\ f.fifo = e.fifo
    <3> HIDE DEF f
    <3>1. "no" \in Looks
      BY DEF Looks
    <3> QED
      BY <1>1, <3>1, HeadOver
  <2> QED
    BY <2>1 DEF Phase, Listed
<1>3. n = f => Good(n, all)
  BY <1>2 DEF Good
<1>4. ASSUME NEW v \in {"nullWrite", "astray"}, n = [f EXCEPT !.dead = v]
      PROVE  Lost(e, n)
  <2>1. v \in Deaths
    BY DEF Deaths
  <2>2. f.known = e.known
    BY <1>1 DEF Fields
  <2> HIDE DEF f
  <2>3. n \in Fields /\ n.dead = v /\ n.fifo = f.fifo /\ n.known = f.known
    BY <1>2, <1>4, <2>1 DEF Fields
  <2> QED
    BY <1>2, <2>2, <2>3 DEF Lost
<1>5. e.executing = NULL => ~e.waitOpen /\ (e.coverAlarm <=> e.waitClose)
  BY WatchFinds DEF Idle, Between
<1>6. e.executing # NULL /\ e.coverAlarm => (e.waitOpen <=> ~e.waitClose)
  BY WatchFinds DEF Watching
<1>7. e.waitOpen = FALSE => [c EXCEPT !.waitClose = FALSE] = q
  BY <1>1 DEF Unwatched, Fields
<1>8. e.waitClose = FALSE => [c EXCEPT !.waitOpen = FALSE] = q
  BY <1>1 DEF Unwatched, Fields
<1>9. /\ e.waitOpen \in BOOLEAN /\ e.waitClose \in BOOLEAN /\ e.coverAlarm \in BOOLEAN
  BY <1>1 DEF Fields, Flags
<1>10. (n = CbForStateMotorStopped(q) \/ n = CbForStateMotorStopped(Send(q, "none")))
         /\ (e.executing = NULL \/ e.coverAlarm) => Good(n, all)
  <2>1. q = Unwatched(f)
    OBVIOUS
  <2> HIDE DEF q, f
  <2> QED
    BY <1>1, <2>1, ClosedAnswer, IdleAnswer
<1>11. e.executing # NULL /\ e.coverAlarm /\ n = Opened(f) => Good(n, all)
  <2> HIDE DEF f
  <2> QED
    BY <1>1, WatchTaken, OpenedGood
<1>12. f.executing = e.executing
  BY <1>1 DEF Fields
<1>13. Opened(f) = [f EXCEPT !.waitOpen = FALSE, !.waitClose = TRUE,
                             !.state[e.executing] = "coverOpened"]
  BY <1>12 DEF Opened
<1> HIDE DEF q
<1>14. CASE ~e.coverAlarm
  <2>1. \/ n = [f EXCEPT !.dead = "nullWrite"] \/ n = [f EXCEPT !.dead = "astray"]
        \/ /\ n = CbForStateMotorStopped(Send([c EXCEPT !.waitOpen = FALSE], "none"))
           /\ ~e.waitClose /\ e.executing = NULL
        \/ n = f
    <3> HIDE DEF f
    <3> QED
      BY <1>14 DEF CbForPrepareCoverRegister, f
  <2> HIDE DEF f, c
  <2>2. ~e.waitClose => e.waitClose = FALSE
    BY <1>9
  <2> QED
    BY <1>3, <1>4, <1>8, <1>10, <2>1, <2>2
<1>15. CASE e.coverAlarm /\ e.waitClose
  <2>1. \/ n = f
        \/ n = CbForStateMotorStopped([c EXCEPT !.waitClose = FALSE])
    BY <1>15 DEF CbForPrepareCoverRegister
  <2>2. e.waitOpen = FALSE
    BY <1>5, <1>6, <1>9, <1>15
  <2> HIDE DEF f, c
  <2> QED
    BY <1>3, <1>7, <1>10, <1>15, <2>1, <2>2
<1>16. CASE e.coverAlarm /\ ~e.waitClose
  <2>1. e.executing # NULL /\ e.waitClose = FALSE
    BY <1>5, <1>9, <1>16
  <2>2. \/ n = Opened(f) \/ n = f
        \/ n = CbForStateMotorStopped(Send([c EXCEPT !.waitOpen = FALSE], "none"))
    BY <1>13, <1>16 DEF CbForPrepareCoverRegister
  <2> HIDE DEF f, c
  <2> QED
    BY <1>3, <1>8, <1>10, <1>11, <1>16, <2>1, <2>2
<1> QED
  BY <1>9, <1>14, <1>15, <1>16

-----------------------------------------------------------------------------
(* The log and the alarms *)

\* What they find: nothing else is under way but a look at the cover.
Alone(e, W, all) ==
  Held(e, FALSE, W, all) /\ Still(e.fifo) /\ W \in SUBSET Block

LEMMA AloneHolds ==
  ASSUME NEW e \in Fields, e.dead = "no", NEW W, NEW all, Listed(e, W, all), InWork(e, W),
         NoAlarm(e), NoWatch(e), Still(e.fifo), Looking(e, e.fifo)
  PROVE  Alone(e, W, all)
<1>1. Rest(e, FALSE) = e.fifo
  BY DEF Rest
<1>2. Len(e.fifo) = 0 \/ Len(e.fifo) = 1
  <2>1. Len(<<"PrepareCover">>) = 1 /\ Len(<<>>) = 0
    OBVIOUS
  <2> QED
    BY <2>1 DEF Still
<1>3. Len(e.fifo) <= 1
  <2> DEFINE k == Len(e.fifo)
  <2>1. k = 0 \/ k = 1
    BY <1>2
  <2> HIDE DEF k
  <2>2. k <= 1
    BY <2>1
  <2> QED
    BY <2>2 DEF k
<1>4. Brief(e, FALSE)
  BY <1>1, <1>3 DEF Brief
<1>5. W \in SUBSET Block
  BY DEF Listed
<1> QED
  BY <1>4, <1>5 DEF Alone, Held, Taken

\* It leaves a request, or checks.
LEMMA AloneGood ==
  ASSUME Scope, NEW e, NEW W, NEW all, Alone(e, W, all),
         NEW n, \/ Knows(e) /\ n = Send(e, "Error")
                \/ Knows(e) /\ InHand(e) /\ n = Send(e, "GoToRetry")
                \/ InHand(e) /\ (n = StateDownRotation(e) \/ n = StateCoverClosedCmd(e))
  PROVE  Inv(n, all)
<1>1. PICK a \in BOOLEAN : a = FALSE
  OBVIOUS
<1>2. Held(e, a, W, all) /\ W \in SUBSET Block
  BY <1>1 DEF Alone
<1>3. Rest(n, a) = n.fifo
  BY <1>1 DEF Rest
<1>4. Phase(n, Rest(n, a), W, all)
  <2>1. CASE Knows(e) /\ n = Send(e, "Error")
    BY <1>2, <2>1, ErrorGood
  <2>2. CASE Knows(e) /\ InHand(e) /\ n = Send(e, "GoToRetry")
    BY <1>2, <2>2, PlainGood
  <2>3. CASE InHand(e) /\ (n = StateDownRotation(e) \/ n = StateCoverClosedCmd(e))
    BY <1>2, <2>3, CheckGood
  <2> QED
    BY <2>1, <2>2, <2>3
<1> QED
  BY <1>2, <1>3, <1>4 DEF Inv

\* The log that is written.
LEMMA LogFinds ==
  ASSUME NEW e, NEW x, NEW W, NEW all, Phase(e, x, W, all), e.store # NULL
  PROVE  Logging(e, x) /\ InWork(e, W) /\ Knows(e)
BY DEF Phase, Idle, Between, NoAlarm, Driven, Asking, Resetting, Showing, Watching

LEMMA LogGoesOn ==
  ASSUME NEW e, NEW x, NEW W, NEW all, Phase(e, x, W, all), e.store # NULL,
         NEW v \in Stage, NEW n, n = [e EXCEPT !.store = <<v, e.store[2]>>]
  PROVE  Phase(n, x, W, all)
<1> DEFINE s == <<v, e.store[2]>>
<1>1. e \in Fields /\ e.store \in Stage \X {1, 2, 3}
  BY DEF Phase, Fields, Stores
<1>2. /\ s \in Stage \X {1, 2, 3} /\ s[2] = e.store[2]
      /\ n = [e EXCEPT !.store = s]
  BY <1>1
<1> HIDE DEF s
<1>3. s \in Stores /\ s # NULL
  BY <1>2, StageAssumption DEF Stores
<1>4. n \in Fields
  BY <1>1, <1>2, <1>3 DEF Fields
<1>5. /\ SameJobs(e, n) /\ SameWatch(e, n) /\ SameDrive(e, n) /\ n.dead = e.dead
      /\ n.resume = e.resume /\ n.store = s
      /\ n.resetAlarm = e.resetAlarm /\ n.fatalAlarm = e.fatalAlarm
  BY <1>1, <1>2 DEF Fields, SameJobs, SameWatch, SameDrive
<1>6. Logging(e, x) /\ InWork(e, W) /\ Knows(e)
  BY LogFinds
<1>7. Listed(n, W, all) /\ InWork(n, W)
  BY <1>5, <1>6, JobsSame DEF Phase
<1>8. NoWatch(n) /\ (InHand(e) => InHand(n)) /\ Knows(n)
  BY <1>5, <1>6 DEF NoWatch, Logging, SameWatch, InHand, SameJobs, SameDrive, Knows
<1>9. Logging(n, x)
  BY <1>2, <1>3, <1>5, <1>6, <1>8 DEF Logging
<1>10. Looking(n, x)
  BY <1>5 DEF Phase, Looking, SameWatch
<1> QED
  BY <1>4, <1>5, <1>7, <1>8, <1>9, <1>10 DEF Phase, Driven

\* The log is closed, or was given up.
LEMMA LogOver ==
  ASSUME Scope, NEW e, NEW W, NEW all, Phase(e, e.fifo, W, all), e.store # NULL,
         NEW f, f = [e EXCEPT !.store = NULL],
         NEW n, n = CbForStoreErrorCode(f, e.store[2])
  PROVE  Inv(n, all)
<1>1. e \in Fields /\ e.store \in Stage \X {1, 2, 3} /\ NULL \in Stores
  BY DEF Phase, Fields, Stores
<1>2. f \in Fields
  BY <1>1 DEF Fields
<1>3. /\ SameJobs(e, f) /\ SameWatch(e, f) /\ SameDrive(e, f) /\ f.dead = e.dead
      /\ f.resume = e.resume /\ f.store = NULL /\ f.fifo = e.fifo
      /\ f.resetAlarm = e.resetAlarm /\ f.fatalAlarm = e.fatalAlarm
  BY <1>1 DEF Fields, SameJobs, SameWatch, SameDrive
<1>4. Logging(e, e.fifo) /\ InWork(e, W) /\ Knows(e) /\ Looking(e, e.fifo)
  BY LogFinds DEF Phase
<1>5. Listed(f, W, all) /\ InWork(f, W)
  BY <1>3, <1>4, JobsSame DEF Phase
<1>6. /\ NoWatch(f) /\ Knows(f) /\ NoAlarm(f) /\ Still(f.fifo) /\ f.dead = "no"
      /\ Looking(f, f.fifo)
  BY <1>3, <1>4 DEF NoWatch, Logging, SameWatch, SameDrive, Knows, NoAlarm, Looking, Phase
<1>7. InHand(e) => InHand(f)
  BY <1>3 DEF InHand, SameJobs, SameDrive
<1>8. Alone(f, W, all)
  BY <1>2, <1>5, <1>6, AloneHolds
<1>9. e.store[2] \in {1, 2, 3}
  BY <1>1
<1>10. CASE e.store[2] = 1
  <2>1. n = Send(f, "Error")
    BY <1>10 DEF CbForStoreErrorCode
  <2> QED
    BY <1>6, <1>8, <2>1, AloneGood
<1>11. CASE e.store[2] = 2
  <2>1. f.resume = "none"
    BY <1>5 DEF InWork
  <2>2. [f EXCEPT !.resume = "none"] = f
    BY <1>2, <2>1 DEF Fields
  <2>3. n = Send(f, "Error")
    BY <1>11, <2>2 DEF CbForStoreErrorCode
  <2> QED
    BY <1>6, <1>8, <2>3, AloneGood
<1>12. CASE e.store[2] = 3
  <2>1. n = Send(f, "GoToRetry") /\ InHand(f)
    BY <1>4, <1>7, <1>12 DEF CbForStoreErrorCode, StateGoToRetry, Logging
  <2> QED
    BY <1>6, <1>8, <2>1, AloneGood
<1> QED
  BY <1>9, <1>10, <1>11, <1>12

\* ResetAlarmHandler
LEMMA ResetAlarmGood ==
  ASSUME Scope, NEW e, NEW W, NEW all, Phase(e, e.fifo, W, all), e.resetAlarm,
         NEW f, f = [e EXCEPT !.resetAlarm = FALSE],
         NEW n, n = StateDownRotation(f) \/ n = StateCoverClosedCmd(f)
  PROVE  Inv(n, all)
<1>1. e \in Fields /\ Looking(e, e.fifo)
  BY DEF Phase
<1>2. Resetting(e, e.fifo) /\ InWork(e, W)
  BY DEF Phase, Idle, Between, NoAlarm, Driven, Asking, Logging, Showing, Watching
<1>3. f \in Fields
  <2>1. ASSUME NEW t \in Flags  PROVE [e EXCEPT !.resetAlarm = t] \in Fields
    BY <1>1 DEF Fields
  <2> QED
    BY <2>1 DEF Flags
<1>4. /\ SameJobs(e, f) /\ SameWatch(e, f) /\ SameDrive(e, f) /\ f.dead = e.dead
      /\ f.resume = e.resume /\ f.store = e.store /\ f.fifo = e.fifo
      /\ ~f.resetAlarm /\ f.fatalAlarm = e.fatalAlarm
  BY <1>1 DEF Fields, SameJobs, SameWatch, SameDrive
<1>5. Listed(f, W, all) /\ InWork(f, W)
  BY <1>2, <1>4, JobsSame DEF Phase
<1>6. /\ NoWatch(f) /\ NoAlarm(f) /\ Still(f.fifo) /\ f.dead = "no"
      /\ Looking(f, f.fifo) /\ InHand(f)
  BY <1>1, <1>2, <1>4 DEF NoWatch, Resetting, SameWatch, SameDrive, SameJobs, NoAlarm,
                          Looking, Phase, InHand
<1>7. Alone(f, W, all)
  BY <1>3, <1>5, <1>6, AloneHolds
<1> QED
  BY <1>6, <1>7, AloneGood

\* CoverAlarmHandler
LEMMA CoverAlarmGood ==
  ASSUME Scope, NEW e, NEW W, NEW all, Phase(e, e.fifo, W, all), e.coverAlarm, e.preparing = "no",
         NEW n, n = Send([e EXCEPT !.preparing = "asked"], "PrepareCover")
  PROVE  Inv(n, all)
<1> DEFINE f == [e EXCEPT !.preparing = "asked"]
<1>1. e \in Fields /\ Listed(e, W, all) /\ Looking(e, e.fifo) /\ W \in SUBSET Block
  BY DEF Phase, Listed
<1>2. f \in Fields
  <2>1. ASSUME NEW t \in Looks  PROVE [e EXCEPT !.preparing = t] \in Fields
    BY <1>1 DEF Fields
  <2> QED
    BY <2>1 DEF Looks
<1>3. /\ SameJobs(e, f) /\ SameAlarms(e, f) /\ SameDrive(e, f) /\ f.preparing = "asked"
      /\ f.resume = e.resume /\ f.fifo = e.fifo /\ f.canceling = e.canceling
      /\ f.waitOpen = e.waitOpen /\ f.waitClose = e.waitClose
      /\ f.coverAlarm = e.coverAlarm
  BY <1>1 DEF Fields, SameJobs, SameAlarms, SameDrive
<1>4. Idle(e, e.fifo) \/ (Watching(e, e.fifo) /\ InWork(e, W) /\ Knows(e))
  <2>1. Idle(e, e.fifo) \/ Driven(e, e.fifo, W)
    BY DEF Phase
  <2>2. ~NoWatch(e)
    BY DEF NoWatch
  <2> QED
    BY <2>1, <2>2 DEF Driven, Asking, Resetting, Logging, Showing
<1>5. Still(e.fifo)
  BY <1>4 DEF Idle, Between, Watching
<1>6. e.fifo = <<>>
  <2>1. Head(<<"PrepareCover">>) = "PrepareCover" /\ <<"PrepareCover">> # <<>>
    OBVIOUS
  <2> QED
    BY <1>1, <1>5, <2>1 DEF Still, Looking
<1>7. n = Send(f, "PrepareCover")
  OBVIOUS
<1> HIDE DEF f
<1>8. "PrepareCover" \in Callback /\ Len(f.fifo) < 3
  <2>1. Len(<<>>) = 0
    OBVIOUS
  <2>2. Len(f.fifo) = 0
    BY <1>3, <1>6, <2>1
  <2> DEFINE k == Len(f.fifo)
  <2>3. k = 0
    BY <2>2
  <2> HIDE DEF k
  <2>4. k < 3
    BY <2>3
  <2>5. "PrepareCover" \in Callback
    BY DEF Callback
  <2> QED
    BY <2>4, <2>5 DEF k
<1>9. n \in Fields /\ SameButFifo(f, n) /\ n.fifo = Append(f.fifo, "PrepareCover")
  BY <1>2, <1>7, <1>8, SendDoes
<1>10. n.fifo = <<"PrepareCover">>
  <2>1. Append(<<>>, "PrepareCover") = <<"PrepareCover">>
    OBVIOUS
  <2> QED
    BY <1>3, <1>6, <1>9, <2>1
<1>11. SameJobs(e, n) /\ n.resume = e.resume
  BY <1>3, <1>9 DEF SameButFifo, SameJobs, SameRest
<1>12. Listed(n, W, all) /\ (InWork(e, W) => InWork(n, W))
  BY <1>1, <1>11, JobsSame
<1>13. Still(n.fifo) /\ Looking(n, n.fifo) /\ n.fifo # <<"none">>
  <2>1. /\ Head(<<"PrepareCover">>) = "PrepareCover" /\ <<"PrepareCover">> # <<>>
        /\ Head(<<"none">>) = "none"
    OBVIOUS
  <2>2. n.preparing = "asked"
    BY <1>3, <1>9 DEF SameButFifo, SameRest, SameWatch
  <2> QED
    BY <1>10, <2>1, <2>2 DEF Still, Looking
<1>14. /\ SameAlarms(e, n) /\ SameDrive(e, n) /\ n.canceling = e.canceling
       /\ n.waitOpen = e.waitOpen /\ n.waitClose = e.waitClose
       /\ n.coverAlarm = e.coverAlarm
  BY <1>3, <1>9 DEF SameAlarms, SameDrive, SameButFifo, SameRest, SameWatch
<1>15. Idle(e, e.fifo) => Idle(n, n.fifo)
  BY <1>11, <1>13, <1>14 DEF Idle, Between, NoAlarm, SameJobs, SameAlarms, SameDrive
<1>16. Watching(e, e.fifo) => Watching(n, n.fifo)
  BY <1>11, <1>13, <1>14 DEF Watching, NoAlarm, SameJobs, SameAlarms
<1>17. Knows(e) => Knows(n)
  BY <1>14 DEF Knows, SameDrive, SameAlarms
<1>18. n.dead = "no"
  BY <1>14 DEF Phase, SameAlarms
<1>19. Phase(n, n.fifo, W, all)
  BY <1>4, <1>9, <1>12, <1>13, <1>15, <1>16, <1>17, <1>18 DEF Phase, Driven
<1> QED
  BY <1>1, <1>19 DEF Inv

-----------------------------------------------------------------------------
(* What threads call *)

LEMMA PhaseSame ==
  ASSUME NEW e, NEW x, NEW W, NEW all, Phase(e, x, W, all), NEW n \in Fields,
         SameButFifo(e, n)
  PROVE  Phase(n, x, W, all)
<1>1. SameJobs(e, n) /\ n.resume = e.resume /\ Listed(e, W, all)
  BY DEF Phase, SameButFifo, SameRest
<1>2. Listed(n, W, all) /\ (InWork(e, W) => InWork(n, W))
  BY <1>1, JobsSame
<1>3. Looking(n, x) /\ n.dead = "no"
  BY DEF Phase, Looking, SameButFifo, SameRest, SameWatch, SameAlarms
<1>4. /\ (NoAlarm(e) => NoAlarm(n)) /\ (NoWatch(e) => NoWatch(n))
      /\ (InHand(e) => InHand(n)) /\ (Knows(e) => Knows(n))
  BY DEF NoAlarm, NoWatch, InHand, Knows, SameButFifo, SameJobs, SameRest, SameWatch,
         SameAlarms, SameDrive
<1>5. Idle(e, x) => Idle(n, x)
  BY <1>4 DEF Idle, Between, SameButFifo, SameJobs, SameRest, SameWatch, SameDrive
<1>6. Asking(e, x) => Asking(n, x)
  BY <1>4 DEF Asking, SameButFifo, SameRest, SameDrive
<1>7. Resetting(e, x) => Resetting(n, x)
  BY <1>4 DEF Resetting, SameButFifo, SameRest, SameAlarms
<1>8. Logging(e, x) => Logging(n, x)
  BY <1>4 DEF Logging, SameButFifo, SameRest, SameAlarms
<1>9. Showing(e, x) => Showing(n, x)
  BY <1>4 DEF Showing, SameButFifo, SameRest, SameAlarms
<1>10. Watching(e, x) => Watching(n, x)
  BY <1>4 DEF Watching, SameButFifo, SameJobs, SameRest, SameWatch
<1> QED
  BY <1>2, <1>3, <1>4, <1>5, <1>6, <1>7, <1>8, <1>9, <1>10 DEF Phase, Driven

\* A block that does not execute is queued or taken out of the queue.
LEMMA PhaseBlock ==
  ASSUME NEW e, NEW x, NEW W, NEW all, Phase(e, x, W, all), NEW n \in Fields,
         NEW b, b # e.executing, OnlyBlock(e, n, b),
         NEW V, V \subseteq W \cup {b}, Listed(n, V, all)
  PROVE  Phase(n, x, V, all)
<1>1. SameRest(e, n) /\ n.executing = e.executing
  BY DEF OnlyBlock
<1>2. Looking(n, x) /\ n.dead = "no"
  BY <1>1 DEF Phase, Looking, SameRest, SameWatch, SameAlarms
<1>3. /\ (NoAlarm(e) => NoAlarm(n)) /\ (NoWatch(e) => NoWatch(n))
      /\ (Knows(e) => Knows(n))
  BY <1>1 DEF NoAlarm, NoWatch, Knows, SameRest, SameWatch, SameAlarms, SameDrive
<1>4. Idle(e, x) => Idle(n, x)
  BY <1>1, <1>3 DEF Idle, Between, SameRest, SameWatch, SameDrive
<1>5. ASSUME Driven(e, x, W)  PROVE Driven(n, x, V)
  <2>1. /\ n.state[n.executing] = e.state[e.executing]
        /\ n.left[n.executing] = e.left[e.executing]
        /\ n.owed[n.executing] = e.owed[e.executing]
        /\ n.executing \in Block \ V
    BY <1>1, <1>5 DEF Driven, InWork, OnlyBlock
  <2>2. InWork(n, V) /\ Knows(n)
    BY <1>1, <1>3, <1>5, <2>1 DEF Driven, InWork, SameRest
  <2>3. InHand(e) => InHand(n)
    BY <1>1, <2>1 DEF InHand, SameRest, SameDrive
  <2>4. Asking(e, x) => Asking(n, x)
    BY <1>1, <1>3, <2>3 DEF Asking, SameRest, SameDrive
  <2>5. Resetting(e, x) => Resetting(n, x)
    BY <1>1, <1>3, <2>3 DEF Resetting, SameRest, SameAlarms
  <2>6. Logging(e, x) => Logging(n, x)
    BY <1>1, <1>3, <2>3 DEF Logging, SameRest, SameAlarms
  <2>7. Showing(e, x) => Showing(n, x)
    BY <1>1, <1>3 DEF Showing, SameRest, SameAlarms
  <2>8. Watching(e, x) => Watching(n, x)
    BY <1>1, <1>3, <2>1 DEF Watching, SameRest, SameWatch
  <2> QED
    BY <1>5, <2>2, <2>4, <2>5, <2>6, <2>7, <2>8 DEF Driven
<1> QED
  BY <1>2, <1>4, <1>5 DEF Phase

\* Between two commands there is not more than one request under way.
LEMMA IdleBrief ==
  ASSUME NEW e, NEW x, x = e.fifo, Between(e, x), Looking(e, x)
  PROVE  Brief(e, FALSE) /\ Rest(e, FALSE) = x
<1>1. Rest(e, FALSE) = x
  BY DEF Rest
<1>2. /\ Len(<<"PrepareCover">>) = 1 /\ Len(<<"none">>) = 1 /\ Len(<<>>) = 0
  OBVIOUS
<1>3. Len(x) = 0 \/ Len(x) = 1
  BY <1>2 DEF Between, Still
<1>4. Len(x) <= 1
  <2> DEFINE k == Len(x)
  <2>1. k = 0 \/ k = 1
    BY <1>3
  <2> HIDE DEF k
  <2>2. k <= 1
    BY <2>1
  <2> QED
    BY <2>2 DEF k
<1> QED
  BY <1>1, <1>4 DEF Brief, Between

\* issueCommand
LEMMA IssueGood ==
  ASSUME Scope, NEW e, NEW W, NEW all, Phase(e, e.fifo, W, all), NEW b \in Block,
         b # Inquiry, e.owed[b] = 0, NEW p \in Prio, NEW n, n = IssueCommand(e, b, p)
  PROVE  Inv(n, all)
<1> DEFINE f == Queued(e, b, p)
           V == W \cup {b}
<1>1. e \in Fields /\ e.dead = "no" /\ Listed(e, W, all) /\ W \in SUBSET Block
  BY DEF Phase, Listed
<1>2. b \notin W /\ V \in SUBSET Block
  BY <1>1 DEF Listed
<1>3. f = Queued(e, b, p)
  OBVIOUS
<1>4. n = IF e.executing = NULL THEN StateReady(f) ELSE f
  BY DEF IssueCommand, Queued
<1> HIDE DEF f
<1>5. f \in Fields /\ OnlyBlock(e, f, b) /\ Listed(f, V, all) /\ f.state[b] = "waiting"
  BY <1>1, <1>2, <1>3, QueuedGood
<1>6. f.fifo = e.fifo /\ f.executing = e.executing
  BY <1>5 DEF OnlyBlock
<1> HIDE DEF V
<1>7. CASE e.executing = NULL
  <2>1. b # e.executing /\ V \subseteq W \cup {b}
    BY <1>7, QueueAssumption DEF V
  <2>2. Phase(f, e.fifo, V, all)
    BY <1>5, <2>1, PhaseBlock
  <2>3. Idle(f, f.fifo) /\ Looking(f, f.fifo) /\ f.dead = "no"
    BY <1>6, <1>7, <2>2, QueueAssumption DEF Phase, Driven, InWork
  <2>4. Brief(f, FALSE) /\ Rest(f, FALSE) = f.fifo
    BY <2>3, IdleBrief DEF Idle
  <2>5. Settled(f, V, all)
    BY <1>5, <1>6, <1>7, <2>3, QueueAssumption DEF Settled, Listed
  <2>6. PICK a \in BOOLEAN : a = FALSE
    OBVIOUS
  <2>7. Brief(f, a) /\ Between(f, Rest(f, a))
    BY <2>3, <2>4, <2>6 DEF Idle
  <2>8. n = StateReady(f)
    BY <1>4, <1>7
  <2>9. PICK U \in SUBSET Block : Phase(n, Rest(n, a), U, all)
    BY <2>5, <2>7, <2>8, ReadyGood
  <2>10. Rest(n, a) = n.fifo
    BY <2>6 DEF Rest
  <2> QED
    BY <2>9, <2>10 DEF Inv
<1>8. CASE e.executing # NULL
  <2>1. b # e.executing
    BY <1>8 DEF Phase, Idle, Driven, InWork
  <2>2. Phase(f, e.fifo, V, all)
    BY <1>5, <2>1, PhaseBlock DEF V
  <2> QED
    BY <1>2, <1>4, <1>6, <1>8, <2>2 DEF Inv, V
<1> QED
  BY <1>7, <1>8

\* A command in hand is asked to end: its next answer sees to it.
LEMMA AskedToEnd ==
  ASSUME NEW e, NEW x, NEW W, NEW all, Phase(e, x, W, all), e.executing # NULL,
         e.state[e.executing] \in {"busy", "coverClosed"},
         NEW n \in Fields, SameJobs(e, n), SameWatch(e, n), SameAlarms(e, n),
         SameDrive(e, n), n.resume = e.resume
  PROVE  Phase(n, x, W, all)
<1>1. Driven(e, x, W) /\ ~Watching(e, x)
  BY DEF Phase, Idle, Watching, Waits
<1>2. Listed(n, W, all) /\ InWork(n, W)
  BY <1>1, JobsSame DEF Phase, Driven
<1>3. Looking(n, x) /\ n.dead = "no"
  BY DEF Phase, Looking, SameWatch, SameAlarms
<1>4. /\ (NoAlarm(e) => NoAlarm(n)) /\ (NoWatch(e) => NoWatch(n))
      /\ (InHand(e) => InHand(n)) /\ (Knows(e) => Knows(n))
  BY DEF NoAlarm, NoWatch, InHand, Knows, SameJobs, SameWatch, SameAlarms, SameDrive
<1>5. Asking(e, x) => Asking(n, x)
  BY <1>4 DEF Asking, SameDrive
<1>6. Resetting(e, x) => Resetting(n, x)
  BY <1>4 DEF Resetting, SameAlarms
<1>7. Logging(e, x) => Logging(n, x)
  BY <1>4 DEF Logging, SameAlarms
<1>8. Showing(e, x) => Showing(n, x)
  BY <1>4 DEF Showing, SameAlarms
<1> QED
  BY <1>1, <1>2, <1>3, <1>4, <1>5, <1>6, <1>7, <1>8 DEF Phase, Driven

\* A block is taken out of the queue, and its callback called.
Dequeued(e, b) == [Over(e, b) EXCEPT !.q = DequeueWaitingQueue(@, b)]

LEMMA DequeuedGood ==
  ASSUME NEW e, NEW x, NEW W, NEW all, Phase(e, x, W, all), NEW b \in W,
         BeingClosed(e, b), NEW again \in Reissue,
         NEW n, n = Tell(Dequeued(e, b), b, again)
  PROVE  /\ n \in Fields /\ n.fifo = e.fifo
         /\ \E V \in SUBSET Block : Phase(n, x, V, all)
<1> DEFINE s == [e.state EXCEPT ![b] = "ended"]
           l == [e.left EXCEPT ![b] = 0]
           r == DequeueWaitingQueue(e.q, b)
           U == W \ {b}
           f == Dequeued(e, b)
<1>1. /\ e \in Fields /\ Listed(e, W, all) /\ W \in SUBSET Block /\ b \in Block
      /\ e.state \in [Block -> State] /\ e.left \in [Block -> Nat] /\ e.q \in Links
      /\ Linked(e.q, W) /\ e.owed[b] = 1
  BY DEF Phase, Listed, Fields, States, Lefts
<1>2. s \in States /\ s[b] = "ended" /\ \A c \in Block \ {b} : s[c] = e.state[c]
  BY <1>1 DEF States, State
<1>3. l \in Lefts /\ \A c \in Block \ {b} : l[c] = e.left[c]
  BY <1>1 DEF Lefts
<1>4. r \in Links /\ Linked(r, U)
  BY <1>1, DequeueLinks
<1>5. f = [e EXCEPT !.state = s, !.left = l, !.q = r]
  BY <1>1 DEF Dequeued, Over, Fields
<1>6. f = Dequeued(e, b)
  OBVIOUS
<1> HIDE DEF s, l, r, f
<1>7. /\ f \in Fields /\ f.owed = e.owed /\ f.state = s /\ f.left = l /\ f.q = r
      /\ f.fifo = e.fifo /\ f.executing = e.executing /\ f.closing = e.closing
  BY <1>1, <1>2, <1>3, <1>4, <1>5 DEF Fields
<1>8. SameRest(e, f)
  BY <1>1, <1>5 DEF Fields, SameRest, SameWatch, SameAlarms, SameDrive
<1>9. OnlyBlock(e, f, b)
  BY <1>2, <1>3, <1>7, <1>8 DEF OnlyBlock
<1>10. b # e.executing
  BY <1>1, QueueAssumption DEF Phase, Idle, Driven, InWork
<1>11. Listed(f, U, all)
  BY <1>1, <1>2, <1>3, <1>4, <1>7 DEF Listed
<1>12. f.owed[b] = 1 /\ BeingClosed(f, b) /\ n = Tell(f, b, again) /\ U \in SUBSET Block
       /\ b \in Block \ U
  BY <1>1, <1>6, <1>7 DEF BeingClosed
<1> HIDE DEF U
<1>13. /\ n \in Fields /\ OnlyBlock(f, n, b)
       /\ Listed(n, U, all) \/ Listed(n, U \cup {b}, all)
  BY <1>7, <1>11, <1>12, TellDoes
<1>14. OnlyBlock(e, n, b)
  BY <1>9, <1>13 DEF OnlyBlock, SameRest, SameWatch, SameAlarms, SameDrive
<1>15. PICK V \in SUBSET Block : Listed(n, V, all) /\ V \subseteq W \cup {b}
  <2>1. U \subseteq W \cup {b} /\ U \cup {b} \subseteq W \cup {b}
    BY DEF U
  <2>2. U \in SUBSET Block /\ U \cup {b} \in SUBSET Block
    BY <1>1, <1>12
  <2> QED
    BY <1>13, <2>1, <2>2
<1>16. Phase(n, x, V, all)
  BY <1>10, <1>13, <1>14, <1>15, PhaseBlock
<1> QED
  BY <1>13, <1>14, <1>15, <1>16 DEF OnlyBlock

\* The command that waits for the cover ends, and the next resumes where it was.
\* A watch for the closing of the cover is left behind.
LEMMA UnwaitGood ==
  ASSUME Scope, NEW e, NEW W, NEW all, Phase(e, e.fifo, W, all),
         Watching(e, e.fifo), InWork(e, W), NEW b, b = e.executing,
         NEW f \in Fields, SameJobs(e, f), SameAlarms(e, f), f.fifo = e.fifo,
         f.preparing = e.preparing, f.canceling = e.canceling,
         f.resume = e.state[b], ~f.waitOpen, f.coverAlarm <=> f.waitClose,
         f.waitClose => e.waitClose,
         NEW callback, NEW again \in Reissue,
         NEW n, n = StateReady(CancelBlock(f, b, callback, again))
  PROVE  Inv(n, all)
<1>1. f.dead = "no" /\ Listed(f, W, all) /\ W \in SUBSET Block
  <2>1. Listed(e, W, all) /\ e.dead = "no"
    BY DEF Phase
  <2>2. Listed(f, W, all)
    BY <2>1, JobsSame
  <2> QED
    BY <2>1, <2>2 DEF SameAlarms, Listed
<1>2. b = f.executing /\ b \in Block \ W /\ f.owed[b] = 1
  BY DEF InWork, SameJobs
<1>3. Looking(f, f.fifo)
  BY DEF Phase, Looking
<1>4. Between(f, f.fifo)
  <2>1. NoAlarm(f) /\ ~f.canceling /\ Still(f.fifo)
    BY DEF Watching, NoAlarm, SameAlarms
  <2>2. f.waitClose => f.resume = "coverOpened"
    BY DEF Watching
  <2>3. f.resume \notin {"none", "ok"}
    BY DEF Watching, Waits
  <2>4. f.fifo # <<"none">>
    <3>1. Head(<<"none">>) = "none" /\ Head(<<"PrepareCover">>) = "PrepareCover"
          /\ <<"none">> # <<>>
      OBVIOUS
    <3> QED
      BY <2>1, <3>1 DEF Still
  <2> QED
    BY <2>1, <2>2, <2>3, <2>4 DEF Between
<1>5. PICK a \in BOOLEAN : a = FALSE
  OBVIOUS
<1>6. Brief(f, a) /\ Between(f, Rest(f, a))
  BY <1>3, <1>4, <1>5, IdleBrief
<1>7. PICK V \in SUBSET Block : Phase(n, Rest(n, a), V, all)
  BY <1>1, <1>2, <1>6, NextGood
<1>8. Rest(n, a) = n.fifo
  BY <1>5 DEF Rest
<1> QED
  BY <1>7, <1>8 DEF Inv

\* DVDCancelAsync
LEMMA CancelAsyncGood ==
  ASSUME Scope, NEW e, NEW W, NEW all, Phase(e, e.fifo, W, all), NEW b \in Block,
         e.state[b] = "waiting" => b \in W /\ BeingClosed(e, b),
         NEW callback \in {"sync", "prepared"}, NEW again \in Reissue,
         NEW n, n = CancelAsync(e, b, callback, again)
  PROVE  Inv(n[2], all)
<1>1. e \in Fields /\ Listed(e, W, all) /\ W \in SUBSET Block /\ e.state[b] \in State
  BY DEF Phase, Listed, Fields, States
<1>2. Inv(e, all)
  BY <1>1 DEF Inv
<1>3. ASSUME NEW f \in Fields, Phase(f, e.fifo, W, all) \/ \E V \in SUBSET Block : Phase(f, e.fifo, V, all),
             f.fifo = e.fifo, NEW g, g = CallCancel(f, callback)
      PROVE  Inv(g, all)
  <2>1. PICK V \in SUBSET Block : Phase(f, f.fifo, V, all)
    BY <1>1, <1>3
  <2>2. g \in Fields /\ SameButFifo(f, g) /\ g.fifo = f.fifo
    BY <1>3, CallCancelSame DEF Same
  <2>3. Phase(g, g.fifo, V, all)
    BY <2>1, <2>2, PhaseSame
  <2> QED
    BY <2>3 DEF Inv
<1>4. CASE e.state[b] = "ended"
  <2>1. n[2] = CallCancel(e, callback)
    BY <1>4 DEF CancelAsync, Waits
  <2> QED
    BY <1>1, <1>3, <2>1
<1>5. CASE e.state[b] \in {"busy", "coverClosed"}
  <2>1. b = e.executing /\ e.executing # NULL
    BY <1>1, <1>5, QueueAssumption DEF Listed
  <2>2. CASE e.canceling
    <3>1. n[2] = e
      BY <1>5, <2>2 DEF CancelAsync, Waits
    <3> QED
      BY <1>2, <3>1
  <2>3. CASE ~e.canceling
    <3> DEFINE f == [e EXCEPT !.canceling = TRUE, !.cancelCallback = callback]
               t == f.breaking \/ b # Inquiry
    <3>1. n[2] = f \/ n[2] = [f EXCEPT !.breaking = t]
      <4>1. CASE e.state[b] = "busy"
        BY <2>3, <4>1 DEF CancelAsync, Waits
      <4>2. CASE e.state[b] = "coverClosed"
        BY <2>3, <4>2 DEF CancelAsync, Waits
      <4> QED
        BY <1>5, <4>1, <4>2
    <3>2. f \in Fields
      <4>1. callback \in CancelCallbacks
        BY DEF CancelCallbacks
      <4>2. ASSUME NEW u \in Flags
            PROVE  [e EXCEPT !.canceling = u, !.cancelCallback = callback] \in Fields
        BY <1>1, <4>1 DEF Fields
      <4> QED
        BY <4>2 DEF Flags
    <3>3. /\ SameJobs(e, f) /\ SameWatch(e, f) /\ SameAlarms(e, f)
          /\ SameDrive(e, f) /\ f.resume = e.resume /\ f.fifo = e.fifo
      BY <1>1 DEF Fields, SameJobs, SameWatch, SameAlarms, SameDrive
    <3>4. t \in Flags
      BY <3>2 DEF Fields, Flags
    <3> HIDE DEF f, t
    <3>5. ASSUME NEW g, g = f \/ g = [f EXCEPT !.breaking = t]
          PROVE  /\ g \in Fields /\ SameButFifo(f, g) /\ g.fifo = f.fifo
      <4>1. CASE g = f
        BY <3>2, <4>1 DEF SameButFifo, SameJobs, SameRest, SameWatch, SameAlarms, SameDrive
      <4>2. CASE g = [f EXCEPT !.breaking = t]
        <5>1. g \in Fields /\ g.fifo = f.fifo
          BY <3>2, <3>4, <4>2 DEF Fields
        <5>2. SameButFifo(f, g)
          BY <3>2, <4>2 DEF Fields, SameButFifo, SameJobs, SameRest, SameWatch, SameAlarms, SameDrive
        <5> QED
          BY <5>1, <5>2
      <4> QED
        BY <3>5, <4>1, <4>2
    <3> DEFINE g == n[2]
    <3>6. /\ g \in Fields /\ SameButFifo(f, g) /\ g.fifo = f.fifo
      BY <3>1, <3>5
    <3>7. e.state[e.executing] \in {"busy", "coverClosed"}
      BY <1>5, <2>1
    <3> HIDE DEF g
    <3>8. Phase(f, e.fifo, W, all)
      BY <2>1, <3>2, <3>3, <3>7, AskedToEnd
    <3>9. Phase(g, g.fifo, W, all)
      BY <3>3, <3>6, <3>8, PhaseSame
    <3> QED
      BY <1>1, <3>9 DEF Inv, g
  <2> QED
    BY <2>2, <2>3
<1>6. CASE e.state[b] = "waiting"
  <2> DEFINE f == Tell(Dequeued(e, b), b, again)
  <2>1. n[2] = CallCancel(f, callback)
    BY <1>6 DEF CancelAsync, Dequeued, Waits
  <2>2. f = Tell(Dequeued(e, b), b, again)
    OBVIOUS
  <2> HIDE DEF f
  <2>3. f \in Fields /\ f.fifo = e.fifo /\ \E V \in SUBSET Block : Phase(f, e.fifo, V, all)
    BY <1>6, <2>2, DequeuedGood
  <2> QED
    BY <1>3, <2>1, <2>3
<1>7. CASE e.state[b] \in Waits
  <2>1. b = e.executing /\ e.executing # NULL
    BY <1>1, <1>7, QueueAssumption DEF Listed, Waits
  <2>2. CASE ~e.waitOpen /\ ~e.waitClose
    <3>1. n[2] = e
      BY <1>7, <2>2 DEF CancelAsync, Waits
    <3> QED
      BY <1>2, <3>1
  <2>3. CASE e.waitOpen \/ e.waitClose
    <3> DEFINE quiet == IF e.waitOpen
                          THEN [e EXCEPT !.coverAlarm = FALSE, !.waitOpen = FALSE]
                          ELSE e
               v == e.state[b]
               f == [quiet EXCEPT !.resume = v]
    <3>1. n[2] = StateReady(CancelBlock(f, b, callback, again))
      BY <1>7, <2>3 DEF CancelAsync, Waits
    <3>2. Watching(e, e.fifo) /\ InWork(e, W)
      <4>1. Driven(e, e.fifo, W)
        BY <2>1 DEF Phase, Idle
      <4>2. ~NoWatch(e)
        BY <2>3 DEF NoWatch
      <4> QED
        BY <4>1, <4>2 DEF Driven, Asking, Resetting, Logging, Showing
    <3>3. /\ quiet \in Fields /\ SameJobs(e, quiet) /\ SameAlarms(e, quiet)
          /\ quiet.fifo = e.fifo /\ quiet.preparing = e.preparing
          /\ quiet.canceling = e.canceling /\ ~quiet.waitOpen
          /\ (quiet.coverAlarm <=> quiet.waitClose) /\ (quiet.waitClose => e.waitClose)
      <4>1. CASE e.waitOpen
        <5>1. quiet = [e EXCEPT !.coverAlarm = FALSE, !.waitOpen = FALSE]
          BY <4>1
        <5>2. ~e.waitClose
          BY <3>2, <4>1 DEF Watching
        <5> HIDE DEF quiet
        <5>3. quiet \in Fields
          <6>1. ASSUME NEW t \in Flags
                PROVE  [e EXCEPT !.coverAlarm = t, !.waitOpen = t] \in Fields
            BY <1>1 DEF Fields
          <6> QED
            BY <5>1, <6>1 DEF Flags
        <5>4. SameJobs(e, quiet) /\ SameAlarms(e, quiet)
          BY <1>1, <5>1 DEF Fields, SameJobs, SameAlarms
        <5>5. /\ quiet.fifo = e.fifo /\ quiet.preparing = e.preparing
              /\ quiet.canceling = e.canceling /\ ~quiet.waitOpen
              /\ ~quiet.coverAlarm /\ quiet.waitClose = e.waitClose
          BY <1>1, <5>1 DEF Fields
        <5> QED
          BY <5>2, <5>3, <5>4, <5>5
      <4>2. CASE ~e.waitOpen
        <5>1. quiet = e
          BY <4>2
        <5>2. e.coverAlarm /\ e.waitClose
          BY <3>2, <4>2 DEF Watching
        <5> HIDE DEF quiet
        <5> QED
          BY <1>1, <4>2, <5>1, <5>2 DEF SameJobs, SameAlarms
      <4> QED
        BY <4>1, <4>2
    <3>4. v \in Resume /\ v = e.state[b]
      BY <1>7 DEF Resume
    <3> HIDE DEF quiet, v
    <3>5. /\ f \in Fields /\ f.resume = v /\ f.fifo = quiet.fifo
          /\ f.preparing = quiet.preparing /\ f.canceling = quiet.canceling
          /\ f.waitOpen = quiet.waitOpen /\ f.waitClose = quiet.waitClose
          /\ f.coverAlarm = quiet.coverAlarm
      BY <3>3, <3>4 DEF Fields
    <3>6. SameJobs(quiet, f) /\ SameAlarms(quiet, f)
      BY <3>3 DEF Fields, SameJobs, SameAlarms
    <3> HIDE DEF f
    <3>7. SameJobs(e, f) /\ SameAlarms(e, f)
      BY <3>3, <3>6 DEF SameJobs, SameAlarms
    <3> DEFINE g == n[2]
    <3>8. g = StateReady(CancelBlock(f, b, callback, again))
      BY <3>1
    <3> HIDE DEF g
    <3>9. Inv(g, all)
      BY <2>1, <3>2, <3>3, <3>4, <3>5, <3>7, <3>8, UnwaitGood
    <3> QED
      BY <3>9 DEF g
  <2> QED
    BY <2>2, <2>3
<1> QED
  BY <1>1, <1>4, <1>5, <1>6, <1>7 DEF State

-----------------------------------------------------------------------------
(* The steps *)

\* What is under way is short, and a read goes to a disc that is known.
LEMMA PhaseFifo ==
  ASSUME NEW e, NEW x, NEW W, NEW all, Phase(e, x, W, all)
  PROVE  x \in Fifos /\ ((\E i \in DOMAIN x : x[i] = "Busy") => e.known)
<1> DEFINE c == "PrepareCover"
           o == "none"
<1>1. c \in Callback /\ o \in Callback /\ c # "Busy" /\ o # "Busy"
  BY DEF Callback
<1>2. Still(x) => x = <<>> \/ x = <<c>>
  BY DEF Still
<1>3. ASSUME NEW r, EndsWith(x, r)
      PROVE  x \in {<<r>>, <<o, r>>, <<o, o, r>>, <<c, r>>, <<c, o, r>>}
  BY <1>3 DEF EndsWith
<1>4. x = <<"none">> => x = <<o>>
  OBVIOUS
<1> HIDE DEF c, o
<1>5. /\ x = <<>> \/ x = <<c>> \/ x = <<o>> =>
           x \in Fifos /\ ~\E i \in DOMAIN x : x[i] = "Busy"
  <2>1. x = <<>> => x \in Fifos /\ ~\E i \in DOMAIN x : x[i] = "Busy"
    BY DEF Fifos
  <2>2. x = <<c>> => x \in Fifos /\ ~\E i \in DOMAIN x : x[i] = "Busy"
    BY <1>1 DEF Fifos
  <2>3. x = <<o>> => x \in Fifos /\ ~\E i \in DOMAIN x : x[i] = "Busy"
    BY <1>1 DEF Fifos
  <2> QED
    BY <2>1, <2>2, <2>3
<1>6. ASSUME NEW r \in Callback, EndsWith(x, r)
      PROVE  x \in Fifos /\ ((\E i \in DOMAIN x : x[i] = "Busy") => r = "Busy")
  <2>1. CASE x = <<r>>
    BY <2>1 DEF Fifos
  <2>2. CASE x = <<o, r>>
    BY <1>1, <2>2 DEF Fifos
  <2>3. CASE x = <<o, o, r>>
    BY <1>1, <2>3 DEF Fifos
  <2>4. CASE x = <<c, r>>
    BY <1>1, <2>4 DEF Fifos
  <2>5. CASE x = <<c, o, r>>
    BY <1>1, <2>5 DEF Fifos
  <2> QED
    BY <1>3, <1>6, <2>1, <2>2, <2>3, <2>4, <2>5
<1>7. CASE Still(x) \/ x = <<"none">>
  BY <1>2, <1>4, <1>5, <1>7
<1>8. CASE Asking(e, x)
  <2>1. PICK r \in Request : EndsWith(x, r) /\ (r = "Busy" => e.known)
    BY <1>8 DEF Asking
  <2>2. r \in Callback
    BY DEF Request, Aside
  <2> QED
    BY <1>6, <2>1, <2>2
<1> QED
  BY <1>7, <1>8 DEF Phase, Idle, Between, Driven, Resetting, Logging, Showing, Watching

LEMMA InvTyped ==
  ASSUME NEW e, NEW all, Inv(e, all)
  PROVE  e \in Driver /\ e.dead = "no" /\ ReadKnown(e)
<1>1. PICK W \in SUBSET Block : Phase(e, e.fifo, W, all)
  BY DEF Inv
<1>2. e \in Fields /\ e.dead = "no"
  BY <1>1 DEF Phase
<1>3. ReadKnown(e)
  BY <1>1, PhaseFifo DEF ReadKnown
<1> QED
  BY <1>2, <1>3, DriverFields

LEMMA FifoSet ==
  ASSUME NEW n \in Fields, NEW x \in Fifos, NEW m, m = [n EXCEPT !.fifo = x]
  PROVE  m \in Fields /\ m.fifo = x /\ SameButFifo(n, m)
<1>1. m \in Fields /\ m.fifo = x
  BY DEF Fields
<1>2. SameButFifo(n, m)
  BY DEF Fields, SameButFifo, SameJobs, SameRest, SameWatch, SameAlarms, SameDrive
<1> QED
  BY <1>1, <1>2

\* The request that was answered leaves.
LEMMA Answers ==
  ASSUME NEW n, NEW all, Good(n, all), NEW m, m = [n EXCEPT !.fifo = Tail(@)]
  PROVE  Inv(m, all)
<1>1. PICK W \in SUBSET Block : Phase(n, Rest(n, TRUE), W, all)
  BY DEF Good
<1> DEFINE x == Tail(n.fifo)
<1>2. x = Rest(n, TRUE) /\ n \in Fields
  BY <1>1 DEF Rest, Phase
<1> HIDE DEF x
<1>3. x \in Fifos /\ Phase(n, x, W, all)
  BY <1>1, <1>2, PhaseFifo
<1>4. m = [n EXCEPT !.fifo = x]
  BY <1>2 DEF x
<1>5. m \in Fields /\ m.fifo = x /\ SameButFifo(n, m)
  BY <1>2, <1>3, <1>4, FifoSet
<1>6. Phase(m, x, W, all)
  BY <1>3, <1>5, PhaseSame
<1> QED
  BY <1>5, <1>6 DEF Inv

\* ... also from a driver that is lost.
LEMMA AnswersLost ==
  ASSUME NEW e, NEW W, NEW all, Phase(e, e.fifo, W, all), e.fifo # <<>>,
         NEW n, Lost(e, n), NEW m, m = [n EXCEPT !.fifo = Tail(@)]
  PROVE  m \in Driver /\ m.dead \notin {"no", "spinning"} /\ ReadKnown(m)
<1> DEFINE x == Tail(e.fifo)
<1>1. /\ n \in Fields /\ n.dead \in {"nullWrite", "astray"} /\ n.fifo = e.fifo
      /\ n.known = e.known
  BY DEF Lost
<1>2. e.fifo \in Seq(Callback) /\ ((\E i \in DOMAIN e.fifo : e.fifo[i] = "Busy") => e.known)
  BY PhaseFifo DEF Fifos
<1>3. x \in Seq(Callback)
  BY <1>2
<1>4. (\E i \in DOMAIN x : x[i] = "Busy") => \E i \in DOMAIN e.fifo : e.fifo[i] = "Busy"
  <2> SUFFICES ASSUME NEW i \in DOMAIN x, x[i] = "Busy"
               PROVE  \E k \in DOMAIN e.fifo : e.fifo[k] = "Busy"
    OBVIOUS
  <2>1. Len(x) = Len(e.fifo) - 1 /\ i \in 1 .. Len(x) /\ Len(e.fifo) \in Nat
    BY <1>2, <1>3
  <2>2. i + 1 \in 1 .. Len(e.fifo) /\ x[i] = e.fifo[i + 1]
    BY <1>2, <2>1
  <2> QED
    BY <1>2, <2>2
<1>5. m = [n EXCEPT !.fifo = x]
  BY <1>1
<1> HIDE DEF x
<1>6. m \in Fields /\ m.fifo = x /\ m.known = n.known /\ m.dead = n.dead
  <2>1. x \in Fifos
    BY <1>3 DEF Fifos
  <2>2. m \in Fields /\ m.fifo = x /\ SameButFifo(n, m)
    BY <1>1, <1>5, <2>1, FifoSet
  <2> QED
    BY <2>2 DEF SameButFifo, SameRest, SameDrive, SameAlarms
<1>7. ReadKnown(m)
  BY <1>1, <1>2, <1>4, <1>6 DEF ReadKnown
<1> QED
  BY <1>1, <1>6, <1>7, DriverFields

\* One block is queued: something waits.
LEMMA OneWaits ==
  ASSUME NEW q \in Links, NEW b \in Block, Linked(q, {b})
  PROVE  CheckWaitingQueue(q)
<1>1. PICK home \in [{b} -> Prio], rank \in [{b} -> Nat] :
         Paired(q, home) /\ Ranked(q, {b}, rank)
  BY DEF Linked
<1>2. rank[b] \in Nat /\ DOMAIN home = {b}
  OBVIOUS
<1>3. q.prev[b] # b
  BY <1>1, <1>2 DEF Ranked
<1>4. q.prev[b] \in Prio \cup {b} /\ q.next[q.prev[b]] = b
  BY <1>1, <1>2 DEF Paired
<1>5. b \notin Prio
  BY CellsApart
<1> QED
  BY <1>3, <1>4, <1>5 DEF CheckWaitingQueue

\* A command in hand is marked busy and read.
LEMMA BusyFirst ==
  ASSUME Scope, NEW e, NEW answers \in BOOLEAN, NEW W, NEW all, Taken(e, answers, W, all),
         NoWatch(e), e.known, e.motorState = "working",
         NEW n, n = StateBusy(Marked(e, "busy"))
  PROVE  Phase(n, Rest(n, answers), W, all)
<1> DEFINE m == Marked(e, "busy")
<1>1. m = Marked(e, "busy") /\ "busy" \in State /\ n = StateBusy(m)
  BY DEF State
<1> HIDE DEF m
<1>2. Taken(m, answers, W, all) /\ Stands(m) = "busy" /\ SameRest(e, m)
  BY <1>1, MarkGood DEF Stands
<1>3. Held(m, answers, W, all) /\ m.known /\ InHand(m)
  BY <1>2 DEF Held, NoWatch, InHand, Stands, SameRest, SameWatch, SameDrive
<1> QED
  BY <1>1, <1>3, BusyGood

\* The inquiry starts.
LEMMA FirstGood ==
  ASSUME Scope, NEW e \in Fields, e.dead = "no", Linked(e.q, {Inquiry}),
         e.executing = NULL, NoAlarm(e), NoWatch(e), e.preparing # "asked", e.fifo = <<>>,
         e.resume = "none", e.motorState = "working",
         e.left[Inquiry] # 0, e.owed[Inquiry] = 1,
         \A b \in Block \ {Inquiry} : e.state[b] = "ended",
         NEW all, NEW n, n = StateReady(e)
  PROVE  Inv(n, all) /\ \E r \in Request : EndsWith(n.fifo, r)
<1> DEFINE b == Inquiry
           f == Taking(e, b)
           m == Marked(f, "busy")
<1>1. b \in Block /\ {b} \in SUBSET Block /\ {b} \ {b} = {} /\ e.q \in Links
  BY DriverAssumption DEF Fields
<1>2. CheckWaitingQueue(e.q)
  BY <1>1, OneWaits
<1>3. /\ TopBlock(e.q) = b /\ e.q.next[b] # NULL
      /\ PopWaitingQueue(e.q) \in Links /\ Linked(PopWaitingQueue(e.q), {})
  <2>1. /\ TopBlock(e.q) \in {b} /\ e.q.next[TopBlock(e.q)] # NULL
        /\ PopWaitingQueue(e.q) \in Links
        /\ Linked(PopWaitingQueue(e.q), {b} \ {TopBlock(e.q)})
    BY <1>1, <1>2, TopLinks
  <2> QED
    BY <1>1, <2>1
<1>4. n = StateBusy(m)
  <2>1. f = [[e EXCEPT !.q = PopWaitingQueue(@), !.executing = b,
                       !.known = TRUE] EXCEPT !.resume = "none"]
    BY DEF Fields, Taking
  <2>2. f.executing = b
    BY DEF Fields, Taking
  <2>3. n = StateBusy([f EXCEPT !.state[b] = "busy"])
    <3> HIDE DEF f
    <3> QED
      BY <1>2, <1>3, <2>1 DEF StateReady, Waits
  <2> QED
    BY <2>2, <2>3 DEF Marked
<1>5. f = Taking(e, b) /\ m = Marked(f, "busy")
  OBVIOUS
<1> HIDE DEF f, m
<1>6. /\ f \in Fields /\ f.q = PopWaitingQueue(e.q) /\ f.executing = b /\ f.known
      /\ f.resume = "none" /\ f.state = e.state /\ f.left = e.left /\ f.owed = e.owed
      /\ f.fifo = e.fifo /\ f.motorState = e.motorState
      /\ SameWatch(e, f) /\ SameAlarms(e, f)
  BY <1>1, <1>3, <1>5, TakingDoes
<1>7. Listed(f, {}, all) /\ InWork(f, {})
  BY <1>1, <1>3, <1>6 DEF Listed, InWork
<1>8. NoAlarm(f) /\ NoWatch(f) /\ f.preparing # "asked" /\ f.dead = "no" /\ f.fifo = <<>>
  BY <1>6 DEF NoAlarm, NoWatch, SameWatch, SameAlarms
<1>9. Still(f.fifo) /\ Looking(f, f.fifo)
  BY <1>8 DEF Still, Looking
<1>10. Alone(f, {}, all)
  BY <1>6, <1>7, <1>8, <1>9, AloneHolds
<1>11. PICK a \in BOOLEAN : a = FALSE
  OBVIOUS
<1>12. Taken(f, a, {}, all) /\ NoWatch(f) /\ f.known /\ f.motorState = "working"
  BY <1>6, <1>8, <1>10, <1>11 DEF Alone, Held
<1>13. Phase(n, Rest(n, a), {}, all)
  BY <1>4, <1>5, <1>12, BusyFirst
<1>14. Rest(n, a) = n.fifo /\ {} \in SUBSET Block
  BY <1>11 DEF Rest
<1>15. \E r \in Request : EndsWith(n.fifo, r)
  <2>1. /\ m \in Fields /\ m.fifo = <<>>
    <3> DEFINE s == [f.state EXCEPT ![b] = "busy"]
    <3>1. "busy" \in State /\ f.state \in [Block -> State]
      BY <1>6 DEF State, Fields, States
    <3>2. s \in States
      BY <3>1 DEF States
    <3>3. m = [f EXCEPT !.state = s]
      BY <1>5, <1>6 DEF Marked, Fields
    <3> HIDE DEF s
    <3> QED
      BY <1>6, <1>8, <3>2, <3>3 DEF Fields
  <2> DEFINE g == [m EXCEPT !.lastState = "busy"]
  <2>2. n = SendCleared(g, "Busy")
    BY <1>4 DEF StateBusy
  <2>3. "busy" \in LastStates
    BY DEF LastStates
  <2>4. g \in Fields /\ g.fifo = <<>>
    BY <2>1, <2>3 DEF Fields
  <2> HIDE DEF g
  <2>5. Len(g.fifo) < 2
    <3>1. Len(<<>>) = 0
      OBVIOUS
    <3>2. Len(g.fifo) = 0
      BY <2>4, <3>1
    <3> QED
      BY <3>2
  <2>6. "Busy" \in Callback /\ "Busy" \in Request
    BY DEF Request, Callback, Aside
  <2>7. n.fifo = Append(Append(<<>>, "none"), "Busy")
    BY <2>2, <2>4, <2>5, <2>6, SendClearedDoes
  <2>8. Append(<<>>, "none") = <<"none">> /\ Append(<<"none">>, "Busy") = <<"none", "Busy">>
    BY AppendOne
  <2> QED
    BY <2>6, <2>7, <2>8 DEF EndsWith
<1> QED
  BY <1>13, <1>14, <1>15 DEF Inv

LEMMA InitGood ==
  ASSUME Scope, Init
  PROVE  IInv
<1> DEFINE c == [next |-> [k \in Cell |-> NULL], prev |-> [k \in Cell |-> NULL]]
           p == PrioMax \div 2
           q == PushWaitingQueue(ClearWaitingQueue(c), p, Inquiry)
           s == [b \in Block |-> IF b = Inquiry THEN "waiting" ELSE "ended"]
           l == [b \in Block |-> IF b = Inquiry THEN Chunks[b] ELSE 0]
           o == [b \in Block |-> IF b = Inquiry THEN 1 ELSE 0]
           u == {}
           z == <<>>
           k == [t \in Thread |-> NULL]
           e == [q |-> q, state |-> s, left |-> l, owed |-> o, muted |-> u,
                 executing |-> NULL, canceling |-> FALSE, cancelCallback |-> NULL,
                 breaking |-> FALSE, resume |-> "none", motorState |-> "working",
                 waitOpen |-> FALSE, waitClose |-> FALSE, preparing |-> "no",
                 coverAlarm |-> FALSE, resetAlarm |-> FALSE, fatalAlarm |-> FALSE,
                 lastState |-> "busy", retries |-> 0, lastError |-> "none",
                 fifo |-> z, store |-> NULL, closing |-> k, asleep |-> u,
                 prepared |-> FALSE, known |-> TRUE, dead |-> "no"]
<1>1. d = StateReady(e) /\ reset = "no" /\ refused \in BOOLEAN
  BY DEF Init
<1>2. c \in Links
  BY DEF Links
<1>3. p \in Prio
  BY QueueAssumption DEF Prio
<1>4. q \in Links /\ Linked(q, {Inquiry})
  <2> HIDE DEF c, p
  <2>1. ClearWaitingQueue(c) \in Links /\ Linked(ClearWaitingQueue(c), {})
    BY <1>2, ClearLinks
  <2>2. {} \in SUBSET Block /\ Inquiry \in Block \ {} /\ {} \cup {Inquiry} = {Inquiry}
    BY DriverAssumption
  <2> QED
    BY <1>3, <2>1, <2>2, PushLinks
<1>5. s \in States /\ \A b \in Block \ {Inquiry} : s[b] = "ended"
  BY DEF States, State
<1>6. l \in Lefts /\ l[Inquiry] # 0 /\ o \in Owing /\ o[Inquiry] = 1
  BY DriverAssumption DEF Lefts, Owing
<1>7. u \in Muted /\ u \in Sleeping /\ z \in Fifos /\ k \in Closings
  BY DEF Muted, Sleeping, Fifos, Closings
<1>8. z = <<>>
  OBVIOUS
<1> HIDE DEF c, p, q, s, l, o, u, z, k
<1>9. e \in Fields
  <2>1. NULL \in Executing /\ NULL \in CancelCallbacks /\ NULL \in Stores /\ 0 \in Counts
    BY DEF Executing, CancelCallbacks, Stores, Counts
  <2>2. "none" \in Resume /\ "working" \in MotorStates /\ "busy" \in LastStates
        /\ "none" \in Errors /\ "no" \in Deaths
    BY DEF Resume, MotorStates, LastStates, Errors, Deaths
  <2>3. TRUE \in Flags /\ FALSE \in Flags
    BY DEF Flags
  <2> QED
    BY <1>4, <1>5, <1>6, <1>7, <2>1, <2>2, <2>3 DEF Fields, Looks
<1>10. /\ e.dead = "no" /\ e.q = q /\ e.executing = NULL /\ NoAlarm(e) /\ NoWatch(e)
       /\ e.preparing # "asked" /\ e.fifo = <<>> /\ e.resume = "none" /\ e.motorState = "working"
       /\ e.left = l /\ e.owed = o /\ e.state = s
  BY <1>8 DEF NoAlarm, NoWatch
<1> HIDE DEF e
<1>11. ASSUME NEW all  PROVE Inv(d, all) /\ \E r \in Request : EndsWith(d.fifo, r)
  BY <1>1, <1>4, <1>5, <1>6, <1>9, <1>10, FirstGood
<1>12. Inv(d, reset = "no")
  BY <1>11
<1>13. d \in Driver /\ d.dead = "no" /\ ReadKnown(d)
  BY <1>12, InvTyped
<1>14. LeftAlone
  BY <1>11 DEF LeftAlone
<1> QED
  BY <1>1, <1>12, <1>13, <1>14 DEF IInv, TypeOK

\* Before a step, and after one.
LEMMA Ground ==
  ASSUME IInv, Running
  PROVE  \E W \in SUBSET Block, all \in BOOLEAN :
           all = (reset = "no") /\ Phase(d, d.fifo, W, all)
<1>1. PICK all \in BOOLEAN : all = (reset = "no")
  OBVIOUS
<1>2. Inv(d, reset = "no")
  BY DEF IInv, Running
<1>3. Inv(d, all)
  BY <1>1, <1>2
<1> QED
  BY <1>1, <1>3 DEF Inv

\* A request of a command is under way, so the command waits for it alone.
LEMMA EndsAsks ==
  ASSUME NEW e, NEW x, NEW W, NEW all, Phase(e, x, W, all),
         NEW r \in Request, EndsWith(x, r)
  PROVE  Asking(e, x) /\ NoWatch(e) /\ InWork(e, W)
<1>1. r # "none" /\ r # "PrepareCover"
  BY DEF Request, Aside
<1>2. ~Still(x) /\ x # <<"none">>
  <2> DEFINE c == "PrepareCover"
             o == "none"
  <2>1. r # c /\ r # o
    BY <1>1
  <2>2. x \in {<<r>>, <<o, r>>, <<o, o, r>>, <<c, r>>, <<c, o, r>>}
    BY DEF EndsWith
  <2> HIDE DEF c, o
  <2>3. x # <<>> /\ x # <<c>> /\ x # <<o>>
    BY <2>1, <2>2
  <2> QED
    BY <2>3 DEF Still, c, o
<1>3. Driven(e, x, W) /\ Asking(e, x)
  BY <1>2 DEF Phase, Idle, Between, Driven, Resetting, Logging, Showing, Watching
<1> QED
  BY <1>3 DEF Driven, Asking

\* A command whose request was refused waits for it.
LEMMA RefusedAsks ==
  ASSUME IInv, refused, NEW W, NEW all, Phase(d, d.fifo, W, all)
  PROVE  /\ NoAlarm(d) /\ NoWatch(d) /\ InWork(d, W) /\ d.executing # NULL
         /\ \E r \in Request : EndsWith(d.fifo, r)
<1>1. PICK r \in Request : EndsWith(d.fifo, r)
  BY DEF IInv, LeftAlone, Phase
<1>2. Asking(d, d.fifo) /\ NoWatch(d) /\ InWork(d, W)
  BY <1>1, EndsAsks
<1> QED
  BY <1>1, <1>2, QueueAssumption DEF Asking, InWork

\* One was refused before the step, or is the last that the step made.
LEMMA Refusals ==
  ASSUME IInv, NEW e, MayRefuse(e)
  PROVE  /\ refused' \in BOOLEAN
         /\ refused' => refused \/ (Len(e.fifo) > Len(d.fifo) /\ Last(e.fifo) \notin Aside)
<1>1. refused \in BOOLEAN
  BY DEF IInv, TypeOK
<1>2. CASE UNCHANGED refused
  BY <1>1, <1>2
<1>3. CASE /\ Len(e.fifo) > Len(d.fifo) /\ Last(e.fifo) \notin Aside
           /\ refused' = TRUE
  BY <1>3
<1> QED
  BY <1>2, <1>3 DEF MayRefuse

\* What ends with no request of a command.
LEMMA LastAside ==
  ASSUME NEW e, NEW x \in Seq(Callback), NEW W, NEW all, Phase(e, x, W, all),
         x # <<>>, x[Len(x)] \notin Aside
  PROVE  \E r \in Request : EndsWith(x, r)
<1>1. ~Still(x) /\ x # <<"none">>
  <2> DEFINE c == "PrepareCover"
             o == "none"
  <2>1. c \in Aside /\ o \in Aside
    BY DEF Aside
  <2> HIDE DEF c, o
  <2>2. x # <<c>> /\ x # <<o>>
    BY <2>1
  <2> QED
    BY <2>2 DEF Still, c, o
<1> QED
  BY <1>1 DEF Phase, Idle, Between, Driven, Asking, Resetting, Logging, Showing, Watching

\* A step that leaves the driver at e.
LEMMA LeaveKeeps ==
  ASSUME IInv, d.dead = "no", NEW e, NEW all, Inv(e, all), Leave(e),
         refused => e.fifo = d.fifo
  PROVE  refused' \in BOOLEAN /\ LeftAlone'
<1>1. d' = e /\ MayRefuse(e)
  BY DEF Leave
<1>2. refused' \in BOOLEAN
  BY <1>1, Refusals
<1>3. ASSUME refused', ~refused  PROVE \E r \in Request : EndsWith(e.fifo, r)
  <2>1. Len(e.fifo) > Len(d.fifo) /\ Last(e.fifo) \notin Aside
    BY <1>1, <1>3, Refusals
  <2>2. PICK W \in SUBSET Block : Phase(e, e.fifo, W, all)
    BY DEF Inv
  <2>3. e.fifo \in Seq(Callback) /\ d.fifo \in Seq(Callback)
    BY <2>2, DriverFields DEF Phase, Fields, Fifos, IInv, TypeOK
  <2>4. e.fifo # <<>> /\ e.fifo[Len(e.fifo)] \notin Aside
    BY <2>1, <2>3 DEF Last
  <2> QED
    BY <2>2, <2>3, <2>4, LastAside
<1>4. ASSUME refused  PROVE \E r \in Request : EndsWith(e.fifo, r)
  BY <1>4 DEF IInv, LeftAlone
<1> QED
  BY <1>1, <1>2, <1>3, <1>4 DEF LeftAlone

LEMMA StepDone ==
  ASSUME IInv, Running, NEW all, all = (reset = "no"), reset' = reset,
         NEW e, Leave(e), Inv(e, all), refused => e.fifo = d.fifo
  PROVE  IInv'
<1>1. d' = e /\ MayRefuse(e)
  BY DEF Leave
<1>2. d' \in Driver /\ d'.dead = "no" /\ ReadKnown(d')
  BY <1>1, InvTyped
<1>3. Inv(d', reset' = "no")
  BY <1>1
<1>4. refused' \in BOOLEAN /\ LeftAlone'
  BY LeaveKeeps DEF Running
<1> QED
  BY <1>2, <1>3, <1>4 DEF IInv, TypeOK

\* The answer e to the oldest request.
LEMMA AnswerKeeps ==
  ASSUME IInv, d.dead = "no", d.fifo # <<>>, NEW e, NEW all,
         Good(e, all) \/ (e.dead # "no" /\ e \in Fields),
         Answer(e), refused => Head(d.fifo) \in Aside /\ e.fifo = d.fifo
  PROVE  refused' \in BOOLEAN /\ LeftAlone'
<1> DEFINE x == Tail(e.fifo)
<1>1. d' = [e EXCEPT !.fifo = x] /\ MayRefuse(e)
  BY DEF Answer
<1>2. refused' \in BOOLEAN
  BY <1>1, Refusals
<1>3. e \in Fields /\ d \in Fields
  BY DriverFields DEF Good, Phase, IInv, TypeOK
<1>4. e.fifo \in Seq(Callback) /\ d.fifo \in Seq(Callback)
  BY <1>3 DEF Fields, Fifos
<1>5. x = Tail(e.fifo)
  OBVIOUS
<1> HIDE DEF x
<1>6. d'.fifo = x /\ d'.dead = e.dead
  BY <1>1, <1>3 DEF Fields
<1>7. ASSUME refused'  PROVE LeftAlone'
  <2>1. CASE refused
    <3>1. PICK r \in Request : EndsWith(d.fifo, r)
      BY <2>1 DEF IInv, LeftAlone
    <3>2. EndsWith(Tail(d.fifo), r)
      BY <2>1, <3>1, EndsTail DEF Aside
    <3> QED
      BY <1>5, <1>6, <2>1, <3>2 DEF LeftAlone
  <2>2. CASE ~refused
    <3>1. Len(e.fifo) > Len(d.fifo) /\ Last(e.fifo) \notin Aside
      BY <1>1, <1>7, <2>2, Refusals
    <3>2. e.fifo[Len(e.fifo)] \notin Aside
      BY <3>1 DEF Last
    <3>3. Len(d.fifo) \in Nat \ {0} /\ Len(e.fifo) \in Nat
      BY <1>4
    <3>4. x \in Seq(Callback) /\ x # <<>> /\ x[Len(x)] = e.fifo[Len(e.fifo)]
      BY <1>4, <1>5, <3>1, <3>3
    <3>5. ASSUME Good(e, all)  PROVE \E r \in Request : EndsWith(x, r)
      <4>1. PICK V \in SUBSET Block : Phase(e, Rest(e, TRUE), V, all)
        BY <3>5 DEF Good
      <4>2. Rest(e, TRUE) = x
        BY <1>5 DEF Rest
      <4> QED
        BY <3>2, <3>4, <4>1, <4>2, LastAside
    <3> QED
      BY <1>6, <3>5 DEF LeftAlone
  <2> QED
    BY <2>1, <2>2
<1> QED
  BY <1>2, <1>7 DEF LeftAlone

LEMMA AnswerDone ==
  ASSUME IInv, Running, d.fifo # <<>>, NEW all, all = (reset = "no"),
         NEW n, Good(n, all), Answer(n),
         refused => Head(d.fifo) \in Aside /\ n.fifo = d.fifo
  PROVE  IInv'
<1>1. d' = [n EXCEPT !.fifo = Tail(@)] /\ reset' = reset /\ d.dead = "no"
  BY DEF Answer, Running
<1>2. Inv(d', all)
  BY <1>1, Answers
<1>3. d' \in Driver /\ d'.dead = "no" /\ ReadKnown(d')
  BY <1>2, InvTyped
<1>4. Inv(d', reset' = "no")
  BY <1>1, <1>2
<1>5. refused' \in BOOLEAN /\ LeftAlone'
  BY <1>1, AnswerKeeps
<1> QED
  BY <1>1, <1>3, <1>4, <1>5 DEF IInv, TypeOK

\* The answer of a request of the command in hand.
LEMMA AskedGround ==
  ASSUME IInv, NEW r \in Request, Asked(r)
  PROVE  \E W \in SUBSET Block, all \in BOOLEAN :
           /\ all = (reset = "no")
           /\ Held(d, TRUE, W, all) /\ Rest(d, TRUE) = <<>> /\ Knows(d)
           /\ r # "Error" => Answered(d, W, all)
           /\ r = "Busy" => d.known
           /\ ~refused /\ Running /\ d.fifo # <<>>
<1>1. PICK W \in SUBSET Block, all \in BOOLEAN :
        all = (reset = "no") /\ Phase(d, d.fifo, W, all)
  BY Ground DEF Asked
<1>2. d.fifo # <<>> /\ Head(d.fifo) = r
  BY DEF Asked
<1>3. /\ Held(d, TRUE, W, all) /\ Rest(d, TRUE) = <<>> /\ Knows(d)
      /\ r # "Error" => Answered(d, W, all)
      /\ r = "Busy" => d.known
  BY <1>1, <1>2, AskedFinds
<1>4. ~refused /\ Running
  BY DEF Asked, Request
<1> QED
  BY <1>1, <1>2, <1>3, <1>4

LEMMA AnswerNoneStep == ASSUME IInv, AnswerNone  PROVE IInv'
<1>1. PICK W \in SUBSET Block, all \in BOOLEAN :
        all = (reset = "no") /\ Phase(d, d.fifo, W, all)
  BY Ground DEF AnswerNone, Asked
<1>2. Running /\ d.fifo # <<>> /\ Head(d.fifo) = "none" /\ "none" \in Aside
  BY DEF AnswerNone, Asked, Aside
<1>3. Good(d, all)
  BY <1>1, <1>2, AnswerNoneGood
<1> QED
  BY <1>1, <1>2, <1>3, AnswerDone DEF AnswerNone

LEMMA AnswerErrorStep == ASSUME IInv, AnswerError  PROVE IInv'
<1>1. "Error" \in Request
  BY DEF Request, Callback, Aside
<1>2. PICK W \in SUBSET Block, all \in BOOLEAN :
        /\ all = (reset = "no")
        /\ Held(d, TRUE, W, all) /\ Rest(d, TRUE) = <<>> /\ Knows(d)
        /\ ~refused /\ Running /\ d.fifo # <<>>
  BY <1>1, AskedGround DEF AnswerError
<1>3. Good(CbForStateError(d), all)
  BY <1>2, AnswerErrorGood
<1> QED
  BY <1>2, <1>3, AnswerDone DEF AnswerError

LEMMA AnswerBusyStep == ASSUME Scope, IInv, AnswerBusy  PROVE IInv'
<1>1. "Busy" \in Request
  BY DEF Request, Callback, Aside
<1>2. PICK W \in SUBSET Block, all \in BOOLEAN :
        /\ all = (reset = "no") /\ Answered(d, W, all) /\ d.known
        /\ ~refused /\ Running /\ d.fifo # <<>>
  BY <1>1, AskedGround DEF AnswerBusy
<1>3. PICK int \in IntType, again \in Reissue : Answer(CbForStateBusy(d, int, again))
  BY DEF AnswerBusy
<1>4. Good(CbForStateBusy(d, int, again), all)
  BY <1>2, AnswerBusyGood
<1> QED
  BY <1>2, <1>3, <1>4, AnswerDone

LEMMA Reissues == NULL \in Reissue /\ CancelReissue \subseteq Reissue
BY DEF Reissue, CancelReissue

LEMMA AnswerGettingErrorStep == ASSUME Scope, IInv, AnswerGettingError  PROVE IInv'
<1>1. "GettingError" \in Request /\ "GettingError" # "Error"
  BY DEF Request, Callback, Aside
<1>2. PICK W \in SUBSET Block, all \in BOOLEAN :
        /\ all = (reset = "no") /\ Answered(d, W, all)
        /\ ~refused /\ Running /\ d.fifo # <<>>
  BY <1>1, AskedGround DEF AnswerGettingError
<1>3. CASE \E int \in IntType \ {"TC"} :
             Answer(CbForStateGettingError(d, int, NULL, NULL, NULL))
  <2>1. PICK int \in IntType \ {"TC"} :
          Answer(CbForStateGettingError(d, int, NULL, NULL, NULL))
    BY <1>3
  <2>2. Good(CbForStateGettingError(d, int, NULL, NULL, NULL), all)
    BY <1>2, Reissues, AnswerGettingErrorGood
  <2> QED
    BY <1>2, <2>1, <2>2, AnswerDone
<1>4. CASE \E state \in ErrorState, code \in ErrorCode, again \in CancelReissue :
             Answer(CbForStateGettingError(d, "TC", state, code, again))
  <2>1. PICK state \in ErrorState, code \in ErrorCode, again \in CancelReissue :
          Answer(CbForStateGettingError(d, "TC", state, code, again))
    BY <1>4
  <2>2. again \in Reissue /\ "TC" \in IntType
    BY Reissues DEF IntType
  <2>3. Good(CbForStateGettingError(d, "TC", state, code, again), all)
    BY <1>2, <2>2, AnswerGettingErrorGood
  <2> QED
    BY <1>2, <2>1, <2>3, AnswerDone
<1> QED
  BY <1>3, <1>4 DEF AnswerGettingError

LEMMA AnswerMotorStopStep == ASSUME Scope, IInv, AnswerMotorStop  PROVE IInv'
<1>1. PICK int \in IntType, again \in Reissue, r \in {"GoToRetry", "CheckID1"},
           v \in {"wrongDiskID", "diskError"} :
        Asked(r) /\ Answer(CbForMotorStop(d, int, v, again))
  BY Reissues DEF AnswerMotorStop
<1>2. r \in Request /\ r # "Error"
  BY DEF Request, Callback, Aside
<1>3. PICK W \in SUBSET Block, all \in BOOLEAN :
        /\ all = (reset = "no") /\ Answered(d, W, all)
        /\ ~refused /\ Running /\ d.fifo # <<>>
  BY <1>1, <1>2, AskedGround
<1>4. Good(CbForMotorStop(d, int, v, again), all)
  BY <1>3, AnswerMotorStopGood
<1> QED
  BY <1>1, <1>3, <1>4, AnswerDone

LEMMA AnswerCheckStep == ASSUME Scope, IInv, AnswerCheck  PROVE IInv'
<1> DEFINE Checks(int, right, again) ==
      {CbForStateReset(d, int), CbForStateDownRotation(d, int),
       CbForStateCoverClosed(d, int, right), CbForStateReadingTOC(d, int),
       CbForStateReadingPartitionInfo(d, int, right, again),
       CbForStateOpenPartition2(d, int, again)}
<1>1. PICK int \in IntType, again \in Reissue, right \in BOOLEAN,
           r \in {"Reset", "DownRotation", "ReadingTOC", "CoverClosed",
                  "ReadingPartitionInfo", "OpenPartition2"} :
        Asked(r) /\ \E n : n \in Checks(int, right, again) /\ Answer(n)
  <2>1. PICK int \in IntType :
          \/ Asked("Reset") /\ Answer(CbForStateReset(d, int))
          \/ Asked("DownRotation") /\ Answer(CbForStateDownRotation(d, int))
          \/ Asked("ReadingTOC") /\ Answer(CbForStateReadingTOC(d, int))
          \/ /\ Asked("CoverClosed")
             /\ \E right \in BOOLEAN : Answer(CbForStateCoverClosed(d, int, right))
          \/ /\ Asked("ReadingPartitionInfo")
             /\ \E right \in BOOLEAN, again \in CancelReissue :
                  Answer(CbForStateReadingPartitionInfo(d, int, right, again))
          \/ /\ Asked("OpenPartition2")
             /\ \E again \in CancelReissue : Answer(CbForStateOpenPartition2(d, int, again))
    BY Zenon DEF AnswerCheck
  <2> QED
    BY <2>1, Reissues
<1>2. r \in Request /\ r # "Error"
  BY DEF Request, Callback, Aside
<1>3. PICK W \in SUBSET Block, all \in BOOLEAN :
        /\ all = (reset = "no") /\ Answered(d, W, all)
        /\ ~refused /\ Running /\ d.fifo # <<>>
  BY <1>1, <1>2, AskedGround
<1>4. PICK n \in Checks(int, right, again) : Answer(n)
  BY <1>1
<1>5. Good(n, all)
  BY <1>1, <1>3, <1>4, AnswerResetGood, AnswerCheckGood, AnswerOpenPartition2Good
<1> QED
  BY <1>3, <1>4, <1>5, AnswerDone

\* A look at the cover, while a refused request waits, changes no request.
LEMMA RefusedLook ==
  ASSUME NEW e \in Fields, NoWatch(e), e.executing # NULL,
         NEW cvr \in BOOLEAN, NEW cvrint \in BOOLEAN,
         NEW n, n = CbForPrepareCoverRegister(e, cvr, cvrint)
  PROVE  n.fifo = e.fifo
<1> DEFINE f == [e EXCEPT !.preparing = "no"]
<1>1. \/ n = [f EXCEPT !.dead = "nullWrite"] \/ n = [f EXCEPT !.dead = "astray"]
      \/ n = f
  BY DEF CbForPrepareCoverRegister, NoWatch
<1>2. f.fifo = e.fifo /\ \A v : [f EXCEPT !.dead = v].fifo = f.fifo
  BY DEF Fields
<1> HIDE DEF f
<1> QED
  BY <1>1, <1>2

LEMMA AnswerPrepareCoverStep == ASSUME Scope, IInv, AnswerPrepareCover  PROVE IInv'
<1>1. PICK W \in SUBSET Block, all \in BOOLEAN :
        all = (reset = "no") /\ Phase(d, d.fifo, W, all)
  BY Ground DEF AnswerPrepareCover, Asked
<1>2. PICK cvr \in BOOLEAN, cvrint \in BOOLEAN :
        Answer(CbForPrepareCoverRegister(d, cvr, cvrint))
  BY DEF AnswerPrepareCover
<1>3. /\ Running /\ d.fifo # <<>> /\ Head(d.fifo) = "PrepareCover"
      /\ "PrepareCover" \in Aside
  BY DEF AnswerPrepareCover, Asked, Aside
<1> DEFINE n == CbForPrepareCoverRegister(d, cvr, cvrint)
<1>4. n = CbForPrepareCoverRegister(d, cvr, cvrint) /\ Answer(n)
  BY <1>2
<1> HIDE DEF n
<1>5. Good(n, all) \/ Lost(d, n)
  BY <1>1, <1>3, <1>4, AnswerPrepareCoverGood
<1>6. refused => n.fifo = d.fifo
  <2> SUFFICES ASSUME refused  PROVE n.fifo = d.fifo
    OBVIOUS
  <2>1. NoWatch(d) /\ d.executing # NULL /\ d \in Fields
    BY <1>1, RefusedAsks DEF Phase
  <2> QED
    BY <1>4, <2>1, RefusedLook
<1>7. CASE Good(n, all)
  BY <1>1, <1>3, <1>4, <1>6, <1>7, AnswerDone
<1>8. CASE Lost(d, n)
  <2>1. d' = [n EXCEPT !.fifo = Tail(@)] /\ reset' = reset
    BY <1>4 DEF Answer
  <2>2. d' \in Driver /\ d'.dead \notin {"no", "spinning"} /\ ReadKnown(d')
    BY <1>1, <1>3, <1>8, <2>1, AnswersLost
  <2>3. n \in Fields /\ n.dead # "no"
    BY <1>8 DEF Lost
  <2>4. refused' \in BOOLEAN /\ LeftAlone'
    BY <1>3, <1>4, <1>6, <2>3, AnswerKeeps DEF Running
  <2> QED
    BY <2>1, <2>2, <2>4 DEF IInv, TypeOK
<1> QED
  BY <1>5, <1>7, <1>8

LEMMA NandAnswerStep == ASSUME Scope, IInv, NEW ok \in BOOLEAN, NandAnswer(ok)  PROVE IInv'
<1>1. PICK W \in SUBSET Block, all \in BOOLEAN :
        all = (reset = "no") /\ Phase(d, d.fifo, W, all)
  BY Ground DEF NandAnswer
<1>2. d.store # NULL /\ reset' = reset /\ Running
  BY DEF NandAnswer
<1> DEFINE f == [d EXCEPT !.store = NULL]
<1>3. PICK e : /\ Leave(e)
               /\ \/ \E v \in Stage : e = [d EXCEPT !.store = <<v, d.store[2]>>]
                  \/ e = CbForStoreErrorCode(f, d.store[2])
  BY DEF NandAnswer, Stage
<1>4. ~refused
  BY <1>1, <1>2, RefusedAsks DEF NoAlarm
<1>5. CASE \E v \in Stage : e = [d EXCEPT !.store = <<v, d.store[2]>>]
  <2>1. Phase(e, d.fifo, W, all)
    BY <1>1, <1>2, <1>5, LogGoesOn
  <2>2. e.fifo = d.fifo
    BY <1>1, <1>5 DEF Phase, Fields
  <2>3. Inv(e, all)
    BY <2>1, <2>2 DEF Inv
  <2> QED
    BY <1>1, <1>2, <1>3, <1>4, <2>3, StepDone
<1>6. CASE e = CbForStoreErrorCode(f, d.store[2])
  <2>1. f = [d EXCEPT !.store = NULL]
    OBVIOUS
  <2> HIDE DEF f
  <2>2. Inv(e, all)
    BY <1>1, <1>2, <1>6, <2>1, LogOver
  <2> QED
    BY <1>1, <1>2, <1>3, <1>4, <2>2, StepDone
<1> QED
  BY <1>3, <1>5, <1>6

LEMMA ResetAlarmStep == ASSUME Scope, IInv, ResetAlarmHandler  PROVE IInv'
<1>1. PICK W \in SUBSET Block, all \in BOOLEAN :
        all = (reset = "no") /\ Phase(d, d.fifo, W, all)
  BY Ground DEF ResetAlarmHandler
<1> DEFINE f == [d EXCEPT !.resetAlarm = FALSE]
<1>2. d.resetAlarm /\ reset' = reset /\ Running
  BY DEF ResetAlarmHandler
<1>3. PICK e : Leave(e) /\ (e = StateDownRotation(f) \/ e = StateCoverClosedCmd(f))
  BY DEF ResetAlarmHandler
<1>4. f = [d EXCEPT !.resetAlarm = FALSE]
  OBVIOUS
<1> HIDE DEF f
<1>5. Inv(e, all)
  BY <1>1, <1>2, <1>3, <1>4, ResetAlarmGood
<1>6. ~refused
  BY <1>1, <1>2, RefusedAsks DEF NoAlarm
<1> QED
  BY <1>1, <1>2, <1>3, <1>5, <1>6, StepDone

\* IOS refuses a look at the cover: there will be none.
LEMMA LookRefused ==
  ASSUME NEW e, NEW x, NEW W, NEW all, Phase(e, x, W, all), e.preparing # "asked",
         NEW n, n = [e EXCEPT !.preparing = "refused"]
  PROVE  Phase(n, x, W, all) /\ n.fifo = e.fifo
<1> DEFINE v == "refused"
<1>1. n = [e EXCEPT !.preparing = v] /\ v # "asked" /\ v \in Looks /\ e \in Fields
  BY DEF Looks, Phase
<1> HIDE DEF v
<1>2. n \in Fields
  BY <1>1 DEF Fields
<1>3. /\ SameJobs(e, n) /\ SameAlarms(e, n) /\ SameDrive(e, n) /\ n.preparing # "asked"
      /\ n.canceling = e.canceling /\ n.resume = e.resume /\ n.fifo = e.fifo
      /\ n.waitOpen = e.waitOpen /\ n.waitClose = e.waitClose
      /\ n.coverAlarm = e.coverAlarm
  BY <1>1 DEF Fields, SameJobs, SameAlarms, SameDrive
<1>4. Listed(n, W, all) /\ (InWork(e, W) => InWork(n, W))
  BY <1>3, JobsSame DEF Phase
<1>5. /\ (NoAlarm(e) => NoAlarm(n)) /\ (NoWatch(e) => NoWatch(n))
      /\ (InHand(e) => InHand(n)) /\ (Knows(e) => Knows(n)) /\ n.dead = e.dead
  BY <1>3 DEF NoAlarm, NoWatch, InHand, Knows, SameJobs, SameAlarms, SameDrive
<1>6. Looking(n, x)
  BY <1>3 DEF Phase, Looking
<1>7. Idle(e, x) => Idle(n, x)
  BY <1>3, <1>5 DEF Idle, Between, SameJobs, SameDrive
<1>8. Asking(e, x) => Asking(n, x)
  BY <1>3, <1>5 DEF Asking, SameDrive
<1>9. /\ (Resetting(e, x) => Resetting(n, x)) /\ (Logging(e, x) => Logging(n, x))
      /\ (Showing(e, x) => Showing(n, x))
  BY <1>3, <1>5 DEF Resetting, Logging, Showing, SameAlarms
<1>10. Watching(e, x) => Watching(n, x)
  BY <1>3, <1>5 DEF Watching, SameJobs
<1> QED
  BY <1>2, <1>3, <1>4, <1>5, <1>6, <1>7, <1>8, <1>9, <1>10 DEF Phase, Driven

LEMMA CoverAlarmStep == ASSUME Scope, IInv, CoverAlarmHandler  PROVE IInv'
<1>1. PICK W \in SUBSET Block, all \in BOOLEAN :
        all = (reset = "no") /\ Phase(d, d.fifo, W, all)
  BY Ground DEF CoverAlarmHandler
<1>2. /\ Running /\ d.coverAlarm /\ d.preparing = "no"
      /\ reset' = reset /\ refused' = refused
      /\ \/ d' = Send([d EXCEPT !.preparing = "asked"], "PrepareCover")
         \/ d' = [d EXCEPT !.preparing = "refused"]
  BY DEF CoverAlarmHandler
<1>3. Inv(d', all)
  <2>1. CASE d' = Send([d EXCEPT !.preparing = "asked"], "PrepareCover")
    BY <1>1, <1>2, <2>1, CoverAlarmGood
  <2>2. CASE d' = [d EXCEPT !.preparing = "refused"]
    <3>1. Phase(d', d.fifo, W, all) /\ d'.fifo = d.fifo
      BY <1>1, <1>2, <2>2, LookRefused
    <3> QED
      BY <3>1 DEF Inv
  <2> QED
    BY <1>2, <2>1, <2>2
<1>4. Leave(d')
  BY <1>2 DEF Leave, MayRefuse
<1>5. ~refused
  BY <1>1, <1>2, RefusedAsks DEF NoWatch
<1> QED
  BY <1>1, <1>2, <1>3, <1>4, <1>5, StepDone

LEMMA FatalAlarmStep == ASSUME IInv, FatalAlarmHandler  PROVE IInv'
<1>1. d \in Fields /\ reset \in {"no", "waiting", "done"} /\ ReadKnown(d)
  BY DriverFields DEF IInv, TypeOK
<1> DEFINE v == "fatal"
<1>2. d' = [d EXCEPT !.dead = v] /\ reset' = reset /\ refused' = refused /\ v \in Deaths
  BY DEF FatalAlarmHandler, Deaths
<1>3. v \notin {"no", "spinning"}
  OBVIOUS
<1> HIDE DEF v
<1>4. d' \in Fields /\ d'.dead = v /\ d'.fifo = d.fifo /\ d'.known = d.known
  BY <1>1, <1>2 DEF Fields
<1>5. ReadKnown(d')
  BY <1>1, <1>4 DEF ReadKnown
<1>6. refused' \in BOOLEAN /\ LeftAlone'
  BY <1>2, <1>3, <1>4 DEF IInv, TypeOK, LeftAlone
<1> QED
  BY <1>1, <1>2, <1>3, <1>4, <1>5, <1>6, DriverFields DEF IInv, TypeOK

\* While a command executes, another that is issued is only queued.
LEMMA IssueWaits ==
  ASSUME NEW e, NEW x, NEW W, NEW all, Phase(e, x, W, all), e.executing # NULL,
         NEW b \in Block, b # Inquiry, e.owed[b] = 0, NEW p \in Prio
  PROVE  IssueCommand(e, b, p).fifo = e.fifo
<1> DEFINE f == Queued(e, b, p)
<1>1. IssueCommand(e, b, p) = f
  BY DEF IssueCommand, Queued
<1>2. f = Queued(e, b, p)
  OBVIOUS
<1> HIDE DEF f
<1>3. e \in Fields /\ Listed(e, W, all) /\ W \in SUBSET Block /\ b \in Block \ W
  BY DEF Phase, Listed
<1>4. OnlyBlock(e, f, b)
  BY <1>2, <1>3, QueuedGood
<1> QED
  BY <1>1, <1>4 DEF OnlyBlock

LEMMA ReadStep ==
  ASSUME Scope, IInv, NEW b \in Block, NEW p \in Prio, Read(b, p)  PROVE IInv'
<1>1. PICK W \in SUBSET Block, all \in BOOLEAN :
        all = (reset = "no") /\ Phase(d, d.fifo, W, all)
  BY Ground DEF Read
<1> DEFINE e == IssueCommand(d, b, p)
<1>2. /\ Running /\ b # Inquiry /\ d.owed[b] = 0 /\ reset' = reset
      /\ Leave(e)
  BY DEF Read
<1>3. e = IssueCommand(d, b, p)
  OBVIOUS
<1> HIDE DEF e
<1>4. Inv(e, all)
  BY <1>1, <1>2, <1>3, IssueGood
<1>5. refused => e.fifo = d.fifo
  BY <1>1, <1>2, <1>3, RefusedAsks, IssueWaits
<1> QED
  BY <1>1, <1>2, <1>4, <1>5, StepDone

\* While the driver serves, the command in hand is not among those that wait, and
\* all of these are queued.
LEMMA ServingWaits ==
  ASSUME NEW W, NEW all, Phase(d, d.fifo, W, all), all = (reset = "no"), Serving,
         NEW b \in Block, d.state[b] = "waiting"
  PROVE  b \in W
<1>1. all = TRUE
  BY DEF Serving
<1>2. b # d.executing => b \in W
  BY <1>1 DEF Phase, Listed
<1>3. ASSUME b = d.executing  PROVE FALSE
  <2>1. Driven(d, d.fifo, W)
    BY <1>3, QueueAssumption DEF Phase, Idle
  <2>2. d.state[d.executing] = "waiting"
    BY <1>3
  <2>3. ~InHand(d) /\ ~Watching(d, d.fifo)
    BY <2>2 DEF InHand, Watching, Waits
  <2>4. ~Failing /\ d \in Fields
    BY DEF Serving, Phase
  <2>5. ~Showing(d, d.fifo)
    BY <2>4 DEF Failing, Showing
  <2>6. ~Logging(d, d.fifo)
    <3> SUFFICES ASSUME Logging(d, d.fifo)  PROVE FALSE
      OBVIOUS
    <3>1. d.store # NULL /\ d.store[2] # 3
      BY <2>3 DEF Logging
    <3>2. d.store \in Stage \X {1, 2, 3}
      BY <2>4, <3>1 DEF Fields, Stores
    <3>3. d.store[2] \in {1, 2}
      BY <3>1, <3>2
    <3> QED
      BY <2>4, <3>1, <3>3 DEF Failing
  <2>7. ~Asking(d, d.fifo)
    <3> SUFFICES ASSUME Asking(d, d.fifo)  PROVE FALSE
      OBVIOUS
    <3>1. EndsWith(d.fifo, "Error")
      BY <2>3 DEF Asking
    <3>2. \E k \in DOMAIN d.fifo : d.fifo[k] = "Error"
      <4> DEFINE r == "Error"
                 c == "PrepareCover"
                 o == "none"
      <4>1. /\ \/ d.fifo = <<r>> \/ d.fifo = <<o, r>> \/ d.fifo = <<o, o, r>>
               \/ d.fifo = <<c, r>> \/ d.fifo = <<c, o, r>>
        BY <3>1 DEF EndsWith
      <4> HIDE DEF r, c, o
      <4>2. \E k \in DOMAIN d.fifo : d.fifo[k] = r
        <5>1. CASE d.fifo = <<r>>
          BY <5>1
        <5>2. CASE d.fifo = <<o, r>> \/ d.fifo = <<c, r>>
          <6>1. 2 \in DOMAIN d.fifo /\ d.fifo[2] = r
            BY <5>2
          <6> QED
            BY <6>1
        <5>3. CASE d.fifo = <<o, o, r>> \/ d.fifo = <<c, o, r>>
          <6>1. 3 \in DOMAIN d.fifo /\ d.fifo[3] = r
            BY <5>3
          <6> QED
            BY <6>1
        <5> QED
          BY <4>1, <5>1, <5>2, <5>3
      <4> QED
        BY <4>2 DEF r
    <3> QED
      BY <2>4, <3>2 DEF Failing
  <2>8. ~Resetting(d, d.fifo)
    BY <2>3 DEF Resetting
  <2> QED
    BY <2>1, <2>3, <2>5, <2>6, <2>7, <2>8 DEF Driven
<1> QED
  BY <1>2, <1>3

\* A command that waits for no cover is asked to end, or another is taken out of
\* its queue: nothing is requested.
LEMMA CancelAsks ==
  ASSUME NEW e, NEW x, NEW W, NEW all, Phase(e, x, W, all), NoWatch(e), NEW b \in Block,
         e.state[b] = "waiting" => b \in W /\ BeingClosed(e, b),
         NEW callback \in {"sync", "prepared"}, NEW again \in Reissue,
         NEW n, n = CancelAsync(e, b, callback, again)
  PROVE  n[2].fifo = e.fifo
<1>1. e \in Fields /\ e.state[b] \in State
  BY DEF Phase, Fields, States
<1>2. ASSUME NEW f \in Fields  PROVE CallCancel(f, callback).fifo = f.fifo
  BY CallCancelSame DEF Same
<1>3. CASE e.state[b] = "ended"
  <2>1. n[2] = CallCancel(e, callback)
    BY <1>3 DEF CancelAsync, Waits
  <2> QED
    BY <1>1, <1>2, <2>1
<1>4. CASE e.state[b] \in {"busy", "coverClosed"}
  <2> DEFINE f == [e EXCEPT !.canceling = TRUE, !.cancelCallback = callback]
             t == f.breaking \/ b # Inquiry
  <2>1. n[2] = e \/ n[2] = f \/ n[2] = [f EXCEPT !.breaking = t]
    BY <1>4 DEF CancelAsync, Waits
  <2>2. f.fifo = e.fifo /\ \A u : [f EXCEPT !.breaking = u].fifo = f.fifo
    BY <1>1 DEF Fields
  <2> HIDE DEF f, t
  <2> QED
    BY <2>1, <2>2
<1>5. CASE e.state[b] = "waiting"
  <2> DEFINE f == Tell(Dequeued(e, b), b, again)
  <2>1. n[2] = CallCancel(f, callback)
    BY <1>5 DEF CancelAsync, Dequeued, Waits
  <2>2. f = Tell(Dequeued(e, b), b, again)
    OBVIOUS
  <2> HIDE DEF f
  <2>3. f \in Fields /\ f.fifo = e.fifo
    BY <1>5, <2>2, DequeuedGood
  <2> QED
    BY <1>2, <2>1, <2>3
<1>6. CASE e.state[b] \in Waits
  <2>1. n[2] = e
    BY <1>6 DEF CancelAsync, Waits, NoWatch
  <2> QED
    BY <2>1
<1> QED
  BY <1>1, <1>3, <1>4, <1>5, <1>6 DEF State

LEMMA CloseStep ==
  ASSUME Scope, IInv, NEW t \in Thread, NEW b \in Block, NEW again \in Reissue,
         Close(t, b, again)
  PROVE  IInv'
<1>1. PICK W \in SUBSET Block, all \in BOOLEAN :
        all = (reset = "no") /\ Phase(d, d.fifo, W, all)
  BY Ground DEF Close
<1> DEFINE k == [d.closing EXCEPT ![t] = b]
           e == [d EXCEPT !.closing = k]
<1>2. d \in Fields
  BY <1>1 DEF Phase
<1>3. k \in Closings /\ k[t] = b
  BY <1>2 DEF Fields, Closings
<1>4. e = [d EXCEPT !.closing[t] = b]
  BY <1>2 DEF Fields
<1> DEFINE n == CancelAsync(e, b, "sync", again)
<1>5. /\ reset' = reset /\ Serving /\ Running
      /\ \E f \in {n[2], d} : Leave(f)
  BY <1>4 DEF Close, Scope, Calls
<1>6. n = CancelAsync(e, b, "sync", again)
  OBVIOUS
<1> HIDE DEF n, k
<1>7. e \in Fields /\ e.closing = k /\ e.fifo = d.fifo /\ e.state = d.state
  BY <1>2, <1>3 DEF Fields
<1>8. SameButFifo(d, e)
  BY <1>2 DEF Fields, SameButFifo, SameJobs, SameRest, SameWatch, SameAlarms, SameDrive
<1> HIDE DEF e
<1>9. Phase(e, e.fifo, W, all)
  BY <1>1, <1>7, <1>8, PhaseSame
<1>10. e.state[b] = "waiting" => b \in W /\ BeingClosed(e, b)
  BY <1>1, <1>3, <1>5, <1>7, ServingWaits DEF BeingClosed
<1>11. Inv(n[2], all)
  BY <1>6, <1>9, <1>10, CancelAsyncGood
<1>12. Inv(d, all)
  BY <1>1 DEF Inv
<1>13. refused => n[2].fifo = d.fifo
  <2> SUFFICES ASSUME refused  PROVE n[2].fifo = d.fifo
    OBVIOUS
  <2>1. NoWatch(d)
    BY <1>1, RefusedAsks
  <2>2. NoWatch(e)
    BY <1>8, <2>1 DEF NoWatch, SameButFifo, SameRest, SameWatch
  <2> QED
    BY <1>6, <1>7, <1>9, <1>10, <2>2, CancelAsks
<1>14. PICK f \in {n[2], d} : Leave(f)
  BY <1>5
<1>15. Inv(f, all) /\ (refused => f.fifo = d.fifo)
  BY <1>11, <1>12, <1>13, <1>14
<1> QED
  BY <1>1, <1>5, <1>14, <1>15, StepDone

LEMMA CloseLoopStep ==
  ASSUME IInv, NEW t \in Thread, CloseLoop(t)  PROVE IInv'
<1>1. PICK W \in SUBSET Block, all \in BOOLEAN :
        all = (reset = "no") /\ Phase(d, d.fifo, W, all)
  BY Ground DEF CloseLoop
<1> DEFINE k == [d.closing EXCEPT ![t] = NULL]
           a == d.asleep \cup {t}
<1>2. d \in Fields
  BY <1>1 DEF Phase
<1>3. k \in Closings /\ a \in Sleeping
  BY <1>2 DEF Fields, Closings, Sleeping
<1>4. /\ Running /\ reset' = reset /\ refused' = refused
      /\ d' = [d EXCEPT !.closing = k] \/ d' = [d EXCEPT !.asleep = a]
  <2>1. [d EXCEPT !.closing[t] = NULL] = [d EXCEPT !.closing = k]
    BY <1>2 DEF Fields
  <2>2. [d EXCEPT !.asleep = @ \cup {t}] = [d EXCEPT !.asleep = a]
    BY <1>2 DEF Fields
  <2> QED
    BY <2>1, <2>2 DEF CloseLoop
<1> HIDE DEF k, a
<1>5. CASE d' = [d EXCEPT !.closing = k]
  <2>1. d' \in Fields /\ d'.fifo = d.fifo
    BY <1>2, <1>3, <1>5 DEF Fields
  <2>2. SameButFifo(d, d')
    BY <1>2, <1>5 DEF Fields, SameButFifo, SameJobs, SameRest, SameWatch, SameAlarms, SameDrive
  <2>3. Inv(d', all)
    BY <1>1, <2>1, <2>2, PhaseSame DEF Inv
  <2>4. Leave(d')
    BY <1>4 DEF Leave, MayRefuse
  <2> QED
    BY <1>1, <1>4, <2>1, <2>3, <2>4, StepDone
<1>6. CASE d' = [d EXCEPT !.asleep = a]
  <2>1. d' \in Fields /\ d'.fifo = d.fifo
    BY <1>2, <1>3, <1>6 DEF Fields
  <2>2. SameButFifo(d, d')
    BY <1>2, <1>6 DEF Fields, SameButFifo, SameJobs, SameRest, SameWatch, SameAlarms, SameDrive
  <2>3. Inv(d', all)
    BY <1>1, <2>1, <2>2, PhaseSame DEF Inv
  <2>4. Leave(d')
    BY <1>4 DEF Leave, MayRefuse
  <2> QED
    BY <1>1, <1>4, <2>1, <2>3, <2>4, StepDone
<1> QED
  BY <1>4, <1>5, <1>6

\* The queues are emptied.
Cleared(e, v) == [e EXCEPT !.q = ClearWaitingQueue(@), !.prepared = v]

LEMMA ClearedGood ==
  ASSUME NEW e, NEW x, NEW W, NEW all, Phase(e, x, W, all),
         NEW f \in BOOLEAN, ~f, NEW v \in Flags,
         NEW n, n = Cleared(e, v)
  PROVE  /\ Phase(n, x, {}, f) /\ n.executing = e.executing /\ n.fifo = e.fifo
         /\ n.state = e.state
<1> DEFINE q == ClearWaitingQueue(e.q)
<1>1. e \in Fields /\ e.q \in Links
  BY DEF Phase, Fields
<1>2. q \in Links /\ Linked(q, {})
  BY <1>1, ClearLinks
<1> DEFINE o == [e EXCEPT !.q = q]
<1>3. n = [e EXCEPT !.q = q, !.prepared = v] /\ n = [o EXCEPT !.prepared = v]
  BY <1>1 DEF Cleared, Fields
<1> HIDE DEF q
<1>4. n \in Fields
  <2>1. o \in Fields
    BY <1>1, <1>2 DEF Fields
  <2> HIDE DEF o
  <2> QED
    BY <1>3, <2>1 DEF Fields
<1> HIDE DEF o
<1>5. /\ n.q = q /\ n.state = e.state /\ n.left = e.left /\ n.owed = e.owed
      /\ n.executing = e.executing /\ n.fifo = e.fifo
  BY <1>1, <1>3 DEF Fields
<1>6. SameRest(e, n)
  BY <1>1, <1>3 DEF Fields, SameRest, SameWatch, SameAlarms, SameDrive
<1>7. Listed(n, {}, f)
  <2>1. \A b \in Block \ {e.executing} : e.state[b] \in {"ended", "waiting"}
    BY DEF Phase, Listed
  <2> QED
    BY <1>2, <1>5, <2>1 DEF Listed
<1>8. Looking(n, x) /\ n.dead = "no"
  BY <1>6 DEF Phase, Looking, SameRest, SameWatch, SameAlarms
<1>9. /\ (NoAlarm(e) => NoAlarm(n)) /\ (NoWatch(e) => NoWatch(n))
      /\ (Knows(e) => Knows(n)) /\ (InHand(e) => InHand(n))
  BY <1>5, <1>6 DEF NoAlarm, NoWatch, Knows, InHand, SameRest, SameWatch, SameAlarms, SameDrive
<1>10. Idle(e, x) => Idle(n, x)
  BY <1>5, <1>6, <1>9 DEF Idle, Between, SameRest, SameWatch, SameDrive
<1>11. InWork(e, W) => InWork(n, {})
  BY <1>5, <1>6 DEF InWork, SameRest
<1>12. Asking(e, x) => Asking(n, x)
  BY <1>6, <1>9 DEF Asking, SameRest, SameDrive
<1>13. Resetting(e, x) => Resetting(n, x)
  BY <1>6, <1>9 DEF Resetting, SameRest, SameAlarms
<1>14. Logging(e, x) => Logging(n, x)
  BY <1>6, <1>9 DEF Logging, SameRest, SameAlarms
<1>15. Showing(e, x) => Showing(n, x)
  BY <1>6, <1>9 DEF Showing, SameRest, SameAlarms
<1>16. Watching(e, x) => Watching(n, x)
  BY <1>5, <1>6, <1>9 DEF Watching, SameRest, SameWatch
<1>17. Driven(e, x, W) => Driven(n, x, {})
  BY <1>9, <1>11, <1>12, <1>13, <1>14, <1>15, <1>16 DEF Driven
<1> QED
  BY <1>4, <1>5, <1>7, <1>8, <1>10, <1>17 DEF Phase

LEMMA PrepareResetStep ==
  ASSUME Scope, IInv, NEW again \in Reissue, PrepareReset(again)  PROVE IInv'
<1>1. PICK W \in SUBSET Block, all \in BOOLEAN :
        all = (reset = "no") /\ Phase(d, d.fifo, W, all)
  BY Ground DEF PrepareReset
<1> DEFINE v == FALSE
           e == [d EXCEPT !.q = ClearWaitingQueue(@), !.prepared = v]
           m == e.muted \cup {e.executing}
           g == [e EXCEPT !.muted = m]
           c == "prepared"
           n == CancelAsync(g, e.executing, c, again)
<1>2. Serving /\ reset' = "waiting" /\ Running
  BY DEF PrepareReset, Scope, Calls
<1>3. PICK l : /\ Leave(l)
               /\ \/ l = [e EXCEPT !.cancelCallback = c]
                  \/ e.executing # NULL /\ l = n[2]
                  \/ l = CallCancel(e, c)
  BY DEF PrepareReset
<1>4. PICK f \in BOOLEAN : f = FALSE
  OBVIOUS
<1>5. v \in Flags /\ c \in CancelCallbacks /\ c \in {"sync", "prepared"}
  BY DEF Flags, CancelCallbacks
<1>6. e = Cleared(d, v)
  BY DEF Cleared
<1>7. g = [e EXCEPT !.muted = m] /\ m = e.muted \cup {e.executing}
  OBVIOUS
<1>8. n = CancelAsync(g, e.executing, c, again)
  OBVIOUS
<1> HIDE DEF v, e, m, g, c, n
<1>9. /\ Phase(e, d.fifo, {}, f) /\ e.executing = d.executing /\ e.fifo = d.fifo
      /\ e.state = d.state
  BY <1>1, <1>4, <1>5, <1>6, ClearedGood
<1>10. e \in Fields
  BY <1>9 DEF Phase
<1>11. Inv(l, f) /\ (refused => l.fifo = d.fifo)
  <2>1. ASSUME NEW o, o \in Fields, SameButFifo(e, o), o.fifo = e.fifo  
        PROVE  Inv(o, f) /\ (refused => o.fifo = d.fifo)
    BY <1>9, <2>1, PhaseSame DEF Inv
  <2>2. CASE l = [e EXCEPT !.cancelCallback = c]
    <3>1. l \in Fields /\ l.fifo = e.fifo
      BY <1>5, <1>10, <2>2 DEF Fields
    <3>2. SameButFifo(e, l)
      BY <1>10, <2>2 DEF Fields, SameButFifo, SameJobs, SameRest, SameWatch, SameAlarms, SameDrive
    <3> QED
      BY <2>1, <3>1, <3>2
  <2>3. CASE l = CallCancel(e, c)
    <3>1. l \in Fields /\ Same(e, l)
      BY <1>10, <2>3, CallCancelSame
    <3> QED
      BY <2>1, <3>1 DEF Same
  <2>4. CASE e.executing # NULL /\ l = n[2]
    <3>1. e.executing \in Block
      BY <1>10, <2>4 DEF Fields, Executing
    <3>2. m \in Muted
      BY <1>7, <1>10, <3>1 DEF Fields, Muted
    <3>3. /\ g \in Fields /\ g.fifo = e.fifo /\ g.state = e.state
      BY <1>7, <1>10, <3>2 DEF Fields
    <3>4. SameButFifo(e, g)
      BY <1>7, <1>10 DEF Fields, SameButFifo, SameJobs, SameRest, SameWatch, SameAlarms, SameDrive
    <3>5. Phase(g, g.fifo, {}, f)
      BY <1>9, <3>3, <3>4, PhaseSame
    <3>6. g.state[e.executing] # "waiting"
      <4>1. Driven(d, d.fifo, W)
        BY <1>1, <1>9, <2>4 DEF Phase, Idle
      <4>2. d.executing \notin W
        BY <4>1 DEF Driven, InWork
      <4> QED
        BY <1>1, <1>2, <1>9, <3>1, <3>3, <4>2, ServingWaits
    <3>7. Inv(n[2], f)
      BY <1>5, <1>8, <3>1, <3>5, <3>6, CancelAsyncGood
    <3>8. refused => n[2].fifo = d.fifo
      <4> SUFFICES ASSUME refused  PROVE n[2].fifo = d.fifo
        OBVIOUS
      <4>1. NoWatch(d)
        BY <1>1, RefusedAsks
      <4>2. NoWatch(e)
        BY <1>6, <1>1, <4>1 DEF Cleared, Phase, Fields, NoWatch
      <4>3. NoWatch(g)
        BY <3>4, <4>2 DEF NoWatch, SameButFifo, SameRest, SameWatch
      <4> QED
        BY <1>5, <1>8, <1>9, <3>1, <3>3, <3>5, <3>6, <4>3, CancelAsks
    <3> QED
      BY <2>4, <3>7, <3>8
  <2> QED
    BY <1>3, <2>2, <2>3, <2>4
<1>12. d' = l
  BY <1>3 DEF Leave
<1>13. d' \in Driver /\ d'.dead = "no" /\ ReadKnown(d')
  BY <1>11, <1>12, InvTyped
<1>14. f = (reset' = "no")
  BY <1>2, <1>4
<1>15. Inv(d', reset' = "no")
  BY <1>11, <1>12, <1>14
<1>16. refused' \in BOOLEAN /\ LeftAlone'
  BY <1>2, <1>3, <1>11, LeaveKeeps DEF Running
<1> QED
  BY <1>2, <1>13, <1>15, <1>16 DEF IInv, TypeOK

LEMMA ResetPreparedStep ==
  ASSUME IInv, ResetPrepared  PROVE IInv'
<1>1. PICK W \in SUBSET Block, all \in BOOLEAN :
        all = (reset = "no") /\ Phase(d, d.fifo, W, all)
  BY Ground DEF ResetPrepared
<1>2. d' = d /\ refused' = refused /\ reset = "waiting" /\ reset' = "done"
  BY DEF ResetPrepared
<1>3. Inv(d', all) /\ all = (reset' = "no")
  BY <1>1, <1>2 DEF Inv
<1>4. Inv(d', reset' = "no")
  BY <1>3
<1>5. d' \in Driver /\ d'.dead = "no" /\ ReadKnown(d')
  BY <1>3, InvTyped
<1>6. refused' \in BOOLEAN /\ LeftAlone'
  BY <1>2 DEF IInv, TypeOK, LeftAlone
<1> QED
  BY <1>2, <1>4, <1>5, <1>6 DEF IInv, TypeOK

LEMMA StutterGood ==
  ASSUME IInv, UNCHANGED vars  PROVE IInv'
<1>1. d' = d /\ reset' = reset /\ refused' = refused
  BY DEF vars
<1> QED
  BY <1>1 DEF IInv, TypeOK, ReadKnown, LeftAlone

LEMMA StepGood ==
  ASSUME Scope, IInv, [Next]_vars  PROVE IInv'
<1>1. CASE IOSAnswer
  BY <1>1, AnswerNoneStep, AnswerErrorStep, AnswerBusyStep, AnswerGettingErrorStep,
     AnswerMotorStopStep, AnswerCheckStep, AnswerPrepareCoverStep DEF IOSAnswer
<1>2. CASE NandAnswers
  BY <1>2, NandAnswerStep DEF NandAnswers
<1>3. CASE CoverAlarmHandler \/ ResetAlarmHandler \/ FatalAlarmHandler
  BY <1>3, CoverAlarmStep, ResetAlarmStep, FatalAlarmStep
<1>4. CASE Threads
  BY <1>4, ReadStep, CloseStep, CloseLoopStep, PrepareResetStep DEF Threads
<1>5. CASE ResetPrepared
  BY <1>5, ResetPreparedStep
<1>6. CASE UNCHANGED vars
  BY <1>6, StutterGood
<1> QED
  BY <1>1, <1>2, <1>3, <1>4, <1>5, <1>6 DEF Next

LEMMA Invariance ==
  ASSUME Scope  PROVE Spec => []IInv
<1>1. Init => IInv
  BY InitGood
<1>2. IInv /\ [Next]_vars => IInv'
  BY StepGood
<1> QED
  BY <1>1, <1>2, PTL DEF Spec

-----------------------------------------------------------------------------
(* What the invariant says *)

\* The requests of a command in x.
CommandsIn(x) == {k \in DOMAIN x : x[k] \notin Aside}

LEMMA NothingAsked ==
  ASSUME NEW x, Still(x) \/ x = <<"none">>
  PROVE  Cardinality(CommandsIn(x)) = 0
<1> DEFINE c == "PrepareCover"
           o == "none"
<1>1. x = <<>> \/ x = <<c>> \/ x = <<o>>
  BY DEF Still
<1>2. CommandsIn(x) = {k \in DOMAIN x : x[k] \notin {o, c}}
  BY DEF CommandsIn, Aside
<1> HIDE DEF c, o
<1>3. CommandsIn(x) = {}
  BY <1>1, <1>2
<1> QED
  BY <1>3, FS_EmptySet

LEMMA OneAsked ==
  ASSUME NEW x, NEW r \in Request, EndsWith(x, r)
  PROVE  CommandsIn(x) = {Len(x)} /\ Cardinality(CommandsIn(x)) = 1
<1> DEFINE c == "PrepareCover"
           o == "none"
<1>1. x \in {<<r>>, <<o, r>>, <<o, o, r>>, <<c, r>>, <<c, o, r>>}
  BY DEF EndsWith
<1>2. r \notin {o, c}
  BY DEF Request, Aside
<1>3. CommandsIn(x) = {k \in DOMAIN x : x[k] \notin {o, c}}
  BY DEF CommandsIn, Aside
<1> HIDE DEF c, o
<1>4. CASE x = <<r>>
  <2>1. CommandsIn(x) = {1} /\ Len(x) = 1
    BY <1>2, <1>3, <1>4
  <2> QED
    BY <2>1, FS_Singleton
<1>5. CASE x = <<o, r>> \/ x = <<c, r>>
  <2>1. CommandsIn(x) = {2} /\ Len(x) = 2
    BY <1>2, <1>3, <1>5
  <2> QED
    BY <2>1, FS_Singleton
<1>6. CASE x = <<o, o, r>> \/ x = <<c, o, r>>
  <2>1. CommandsIn(x) = {3} /\ Len(x) = 3
    BY <1>2, <1>3, <1>6
  <2> QED
    BY <2>1, FS_Singleton
<1> QED
  BY <1>1, <1>4, <1>5, <1>6

LEMMA OnceHolds == IInv => DrivenOnce
<1> SUFFICES ASSUME IInv, d.dead = "no"
             PROVE  /\ Cardinality(Pending) + Alarms + (IF d.store # NULL THEN 1 ELSE 0)
                        + (IF d.executing # NULL /\ d.coverAlarm THEN 1 ELSE 0)
                       = IF d.executing = NULL \/ refused THEN 0 ELSE 1
                    /\ d.coverAlarm <=> d.waitOpen \/ d.waitClose
                    /\ refused => d.executing # NULL
  BY DEF IInv, DrivenOnce
<1>1. PICK W \in SUBSET Block, all \in BOOLEAN : Phase(d, d.fifo, W, all)
  <2>1. PICK all \in BOOLEAN : all = (reset = "no")
    OBVIOUS
  <2>2. Inv(d, reset = "no")
    BY DEF IInv
  <2>3. Inv(d, all)
    BY <2>1, <2>2
  <2> QED
    BY <2>3 DEF Inv
<1> DEFINE n == Cardinality(Pending)
<1>2. ~refused => n = Cardinality(CommandsIn(d.fifo))
  <2>1. ~refused => Pending = CommandsIn(d.fifo)
    BY DEF Pending, CommandsIn
  <2> QED
    BY <2>1
<1> HIDE DEF n
<1>3. ~refused /\ (Still(d.fifo) \/ d.fifo = <<"none">>) => n = 0
  BY <1>2, NothingAsked
<1>4. ~refused /\ (\E r \in Request : EndsWith(d.fifo, r)) => n = 1
  BY <1>2, OneAsked
<1>5. NoAlarm(d) => Alarms = 0 /\ d.store = NULL
  BY DEF NoAlarm, Alarms
<1>6. NoWatch(d) => ~d.coverAlarm /\ ~d.waitOpen /\ ~d.waitClose
  BY DEF NoWatch
<1>7. CASE ~refused /\ Idle(d, d.fifo)
  <2>1. d.executing = NULL /\ NoAlarm(d) /\ n = 0 /\ ~d.waitOpen /\ (d.coverAlarm <=> d.waitClose)
    BY <1>3, <1>7 DEF Idle, Between
  <2>2. Alarms = 0 /\ d.store = NULL
    BY <1>5, <2>1
  <2> QED
    BY <1>7, <2>1, <2>2 DEF n
<1>8. CASE ~refused /\ Driven(d, d.fifo, W)
  <2>1. d.executing # NULL
    BY <1>8, QueueAssumption DEF Driven, InWork
  <2>2. CASE Asking(d, d.fifo)
    <3>1. n = 1 /\ Alarms = 0 /\ d.store = NULL
      BY <1>4, <1>5, <1>8, <2>2 DEF Asking
    <3> QED
      BY <1>6, <1>8, <2>1, <2>2, <3>1 DEF n, Asking
  <2>3. CASE Resetting(d, d.fifo)
    <3>1. n = 0 /\ Alarms = 1 /\ d.store = NULL
      BY <1>3, <1>8, <2>3 DEF Resetting, Alarms
    <3> QED
      BY <1>6, <1>8, <2>1, <2>3, <3>1 DEF n, Resetting
  <2>4. CASE Logging(d, d.fifo)
    <3>1. n = 0 /\ Alarms = 0 /\ d.store # NULL
      BY <1>3, <1>8, <2>4 DEF Logging, Alarms
    <3> QED
      BY <1>6, <1>8, <2>1, <2>4, <3>1 DEF n, Logging
  <2>5. CASE Showing(d, d.fifo)
    <3>1. n = 0 /\ Alarms = 1 /\ d.store = NULL
      BY <1>3, <1>8, <2>5 DEF Showing, Alarms
    <3> QED
      BY <1>6, <1>8, <2>1, <2>5, <3>1 DEF n, Showing
  <2>6. CASE Watching(d, d.fifo)
    <3>1. n = 0 /\ Alarms = 0 /\ d.store = NULL
      BY <1>3, <1>5, <1>8, <2>6 DEF Watching
    <3> QED
      BY <1>8, <2>1, <2>6, <3>1 DEF n, Watching
  <2> QED
    BY <1>8, <2>2, <2>3, <2>4, <2>5, <2>6 DEF Driven
<1>9. CASE refused
  <2>1. /\ NoAlarm(d) /\ NoWatch(d) /\ d.executing # NULL
        /\ \E r \in Request : EndsWith(d.fifo, r)
    BY <1>1, <1>9, RefusedAsks
  <2>2. CommandsIn(d.fifo) = {Len(d.fifo)}
    BY <2>1, OneAsked
  <2>3. Pending = {}
    BY <1>9, <2>2 DEF Pending, CommandsIn
  <2>4. n = 0
    BY <2>3, FS_EmptySet DEF n
  <2>5. Alarms = 0 /\ d.store = NULL /\ ~d.coverAlarm /\ ~d.waitOpen /\ ~d.waitClose
    BY <1>5, <1>6, <2>1
  <2> QED
    BY <1>9, <2>1, <2>4, <2>5 DEF n
<1> QED
  BY <1>1, <1>7, <1>8, <1>9 DEF Phase

\* The variables keep their types, and every field of the driver's record its
\* range: at most one cancellation is remembered, a retry is counted to two.
THEOREM TypeCorrect ==
  ASSUME Scope  PROVE Spec => []TypeOK
<1>1. IInv => TypeOK
  BY DEF IInv
<1> QED
  BY <1>1, Invariance, PTL

\* While a command executes exactly one thing will call the driver back for it,
\* unless IOS refused a request of the command: then nothing will.  And newContext
\* always finds a free context.
THEOREM DrivenByOne ==
  ASSUME Scope  PROVE Spec => []DrivenOnce
BY OnceHolds, Invariance, PTL

\* After a reset of the drive nothing is read before the disc was found to be
\* the right one.
THEOREM NoBlindRead ==
  ASSUME Scope  PROVE Spec => []ReadOnKnownDisc
<1>1. IInv => ReadOnKnownDisc
  BY DEF IInv, ReadKnown, ReadOnKnownDisc
<1> QED
  BY <1>1, Invariance, PTL

-----------------------------------------------------------------------------
(* The chains of the queues *)

\* A set of natural numbers that is not empty has a least element.
LEMMA Least ==
  ASSUME NEW T, T \subseteq Nat, T # {}
  PROVE  \E m \in T : \A j \in T : m <= j
<1> DEFINE R == OpToRel(<, Nat)
<1>1. IsWellFoundedOn(R, Nat)
  BY NatLessThanWellFounded
<1>2. PICK m \in T : \A j \in T : <<j, m>> \notin R
  <2> HIDE DEF R
  <2> QED
    BY <1>1, WFMin
<1>3. \A j, k \in Nat : j < k => <<j, k>> \in R
  BY DEF OpToRel
<1>4. \A j \in T : ~(j < m)
  BY <1>2, <1>3
<1> QED
  BY <1>4

\* The cell after one on the chain of p.
Following(q, p, a) == IF a \in Block THEN q.next[a] ELSE p

IsWalk(q, p, n, f) ==
  /\ f[1] = q.next[p]
  /\ \A i \in 2 .. n : f[i] = Following(q, p, f[i - 1])

LEMMA WalkExists ==
  ASSUME NEW q, NEW p, NEW X, q.next[p] \in X,
         \A a \in X : Following(q, p, a) \in X, NEW n \in Nat \ {0}
  PROVE  \E f \in [1 .. n -> X] : IsWalk(q, p, n, f)
<1> DEFINE T == {k \in Nat \ {0} : ~ \E f \in [1 .. k -> X] : IsWalk(q, p, k, f)}
<1>1. SUFFICES ASSUME T # {} PROVE FALSE
  OBVIOUS
<1>2. PICK k \in T : \A j \in T : k <= j
  <2>1. T \subseteq Nat
    OBVIOUS
  <2> HIDE DEF T
  <2> QED
    BY <1>1, <2>1, Least
<1>3. k \in Nat \ {0} /\ ~ \E f \in [1 .. k -> X] : IsWalk(q, p, k, f)
  OBVIOUS
<1>4. CASE k = 1
  <2> DEFINE f == [i \in 1 .. 1 |-> q.next[p]]
  <2>1. f \in [1 .. 1 -> X] /\ IsWalk(q, p, 1, f)
    BY DEF IsWalk
  <2> QED
    BY <1>3, <1>4, <2>1
<1>5. CASE k # 1
  <2>1. k - 1 \in Nat \ {0} /\ k - 1 \notin T
    BY <1>2, <1>3, <1>5
  <2>2. PICK f \in [1 .. (k - 1) -> X] : IsWalk(q, p, k - 1, f)
    BY <2>1
  <2> DEFINE g == [i \in 1 .. k |-> IF i = k THEN Following(q, p, f[k - 1]) ELSE f[i]]
  <2>3. f[k - 1] \in X
    BY <2>1, <2>2
  <2>4. Following(q, p, f[k - 1]) \in X
    BY <2>3
  <2>5. g \in [1 .. k -> X]
    BY <1>3, <2>2, <2>4
  <2>6. IsWalk(q, p, k, g)
    <3>1. g[1] = q.next[p]
      BY <1>3, <1>5, <2>2 DEF IsWalk
    <3>2. ASSUME NEW i \in 2 .. k PROVE g[i] = Following(q, p, g[i - 1])
      <4>1. i - 1 \in 1 .. (k - 1) /\ g[i - 1] = f[i - 1]
        BY <1>3
      <4>2. CASE i = k
        BY <4>1, <4>2
      <4>3. CASE i # k
        <5>1. i \in 2 .. (k - 1) /\ g[i] = f[i]
          BY <1>3, <4>3
        <5>2. f[i] = Following(q, p, f[i - 1])
          BY <2>2, <5>1 DEF IsWalk
        <5> QED
          BY <4>1, <5>1, <5>2
      <4> QED
        BY <4>2, <4>3
    <3> HIDE DEF g
    <3> QED
      BY <3>1, <3>2 DEF IsWalk
  <2> QED
    BY <1>3, <2>5, <2>6
<1> QED
  BY <1>4, <1>5

\* The function at of Chain, and one step of its definition.
AtStep(q, p, f) == [i \in 1 .. Cardinality(Block) + 1 |->
  IF i = 1 THEN q.next[p]
  ELSE IF f[i - 1] \in Block THEN q.next[f[i - 1]] ELSE p]

At(q, p) == CHOOSE at : at = AtStep(q, p, at)

Length(f) == Cardinality({i \in 1 .. Cardinality(Block) : f[i] \in Block})

LEMMA ChainIs ==
  ASSUME NEW q, NEW p
  PROVE  Chain(q, p) = [i \in 1 .. Length(At(q, p)) |-> At(q, p)[i]]
BY Zenon DEF Chain, At, AtStep, Length

LEMMA AtWalks ==
  ASSUME NEW q \in Links, NEW p \in Prio
  PROVE  IsWalk(q, p, Cardinality(Block) + 1, At(q, p))
<1> DEFINE n == Cardinality(Block) + 1
           X == Cell \cup {NULL}
<1>1. n \in Nat \ {0}
  BY QueueAssumption, FS_CardinalityType
<1>2. q.next[p] \in X /\ \A a \in X : Following(q, p, a) \in X
  BY DEF Links, Cell, Following
<1>3. PICK f \in [1 .. n -> X] : IsWalk(q, p, n, f)
  <2> HIDE DEF n, X
  <2> QED
    BY <1>1, <1>2, WalkExists
<1>4. f = AtStep(q, p, f)
  <2>1. ASSUME NEW i \in 1 .. n PROVE f[i] = AtStep(q, p, f)[i]
    <3>1. i = 1 \/ i \in 2 .. n
      BY <1>1
    <3>2. AtStep(q, p, f)[i] = IF i = 1 THEN q.next[p] ELSE Following(q, p, f[i - 1])
      BY DEF AtStep, Following
    <3> HIDE DEF n, X
    <3> QED
      BY <1>1, <1>3, <3>1, <3>2 DEF IsWalk
  <2>2. /\ f = [i \in 1 .. n |-> f[i]]
        /\ AtStep(q, p, f) = [i \in 1 .. n |-> AtStep(q, p, f)[i]]
    BY DEF AtStep
  <2> HIDE DEF n, X
  <2> QED
    BY <2>1, <2>2
<1> DEFINE l == At(q, p)
<1>5. l = AtStep(q, p, l)
  BY <1>4 DEF At
<1>6. ASSUME NEW i \in 1 .. n
      PROVE  l[i] = IF i = 1 THEN q.next[p] ELSE Following(q, p, l[i - 1])
  <2> HIDE DEF l
  <2> QED
    BY Zenon, <1>5 DEF AtStep, Following
<1> HIDE DEF l
<1>7. 1 \in 1 .. n /\ \A i \in 2 .. n : i \in 1 .. n /\ i # 1
  BY <1>1
<1> QED
  BY <1>6, <1>7 DEF IsWalk, l

\* A chain does not come back to the queue: what is before a block is a block.
LEMMA ChainHas ==
  ASSUME NEW q \in Links, NEW p \in Prio, NEW i \in 1 .. Cardinality(Block),
         At(q, p)[i] \in Block
  PROVE  i \in DOMAIN Chain(q, p) /\ Chain(q, p)[i] = At(q, p)[i]
<1> DEFINE f == At(q, p)
           n == Cardinality(Block)
           D == {j \in 1 .. n : f[j] \in Block}
<1>1. n \in Nat /\ IsWalk(q, p, n + 1, f)
  BY AtWalks, QueueAssumption, FS_CardinalityType
<1>2. \A j \in 2 .. n : f[j] = Following(q, p, f[j - 1])
  BY <1>1 DEF IsWalk
<1>3. Length(f) = Cardinality(D) /\ Chain(q, p) = [j \in 1 .. Length(f) |-> f[j]]
  BY ChainIs DEF Length
<1>4. i \in 1 .. n /\ f[i] \in Block
  OBVIOUS
<1> HIDE DEF f, n
<1>5. 1 .. i \subseteq D
  <2> SUFFICES ASSUME NEW j \in 1 .. i, f[j] \notin Block  PROVE FALSE
    BY <1>1, <1>4
  <2> DEFINE T == {k \in 0 .. n : k <= i - 1 /\ f[i - k] \notin Block}
  <2>1. i - j \in T
    BY <1>1, <1>4
  <2>2. T \subseteq Nat /\ T # {}
    BY <2>1
  <2> HIDE DEF T
  <2>3. PICK k \in T : \A m \in T : k <= m
    BY <2>2, Least
  <2>4. k \in 0 .. n /\ k <= i - 1 /\ f[i - k] \notin Block
    BY <2>3 DEF T
  <2>5. k # 0
    BY <1>1, <1>4, <2>4
  <2>6. k - 1 \in 0 .. n /\ k - 1 <= i - 1 /\ i - (k - 1) \in 2 .. n /\ ~(k <= k - 1)
        /\ (i - (k - 1)) - 1 = i - k
    BY <1>1, <1>4, <2>4, <2>5
  <2>7. f[i - (k - 1)] \in Block
    BY <2>3, <2>6 DEF T
  <2>8. f[i - (k - 1)] = p
    BY <1>2, <2>4, <2>6 DEF Following
  <2> QED
    BY <2>7, <2>8, CellsApart
<1>6. IsFiniteSet(1 .. n) /\ IsFiniteSet(D) /\ Cardinality(D) \in Nat
  <2>1. IsFiniteSet(1 .. n)
    BY <1>1, FS_Interval
  <2>2. IsFiniteSet(D)
    BY <2>1, FS_Subset
  <2> QED
    BY <2>1, <2>2, FS_CardinalityType
<1>7. Cardinality(1 .. i) <= Cardinality(D)
  <2> HIDE DEF D
  <2> QED
    BY <1>5, <1>6, FS_Subset
<1>8. Cardinality(1 .. i) = i
  BY <1>4, FS_Interval
<1>9. i \in 1 .. Length(f)
  <2> HIDE DEF D
  <2> QED
    BY <1>3, <1>4, <1>6, <1>7, <1>8
<1>10. i \in DOMAIN Chain(q, p) /\ Chain(q, p)[i] = f[i]
  BY <1>3, <1>9
<1> QED
  BY <1>10 DEF f

\* The links that hold the blocks W lead to each of them.
LEMMA LinkedAgrees ==
  ASSUME NEW q \in Links, NEW W \in SUBSET Block, Linked(q, W)
  PROVE  LinksAgree(q, W)
<1>1. PICK home \in [W -> Prio], rank \in [W -> Nat] :
        Paired(q, home) /\ Ranked(q, W, rank)
  BY DEF Linked
<1> DEFINE n == Cardinality(Block)
           Upto(b) == {c \in W : rank[c] <= rank[b]}
           Reached(b) == \E i \in 1 .. n : i <= Cardinality(Upto(b)) /\ At(q, home[b])[i] = b
<1>2. n \in Nat /\ IsFiniteSet(Block)
  BY QueueAssumption, FS_CardinalityType
<1>3. ASSUME NEW b \in W
      PROVE  IsFiniteSet(Upto(b)) /\ Cardinality(Upto(b)) \in 1 .. n
  <2>1. Upto(b) \subseteq Block /\ b \in Upto(b)
    BY <1>1
  <2> DEFINE S == Upto(b)
  <2>2. S \subseteq Block /\ {b} \subseteq S
    BY <2>1
  <2> HIDE DEF S, n
  <2>3. IsFiniteSet(S) /\ Cardinality(S) <= n
    BY <1>2, <2>2, FS_Subset DEF n
  <2>4. Cardinality(S) \in Nat /\ Cardinality({b}) <= Cardinality(S)
    BY <2>2, <2>3, FS_Subset, FS_CardinalityType
  <2>5. Cardinality({b}) = 1
    BY FS_Singleton
  <2>6. Cardinality(S) \in 1 .. n
    BY <1>2, <2>3, <2>4, <2>5
  <2> QED
    BY <2>3, <2>6 DEF S
<1>4. ASSUME NEW b \in W, \A c \in W : rank[c] < rank[b] => Reached(c)
      PROVE  Reached(b)
  <2> DEFINE p == home[b]
             c == q.prev[b]
             f == At(q, p)
  <2>1. p \in Prio /\ IsWalk(q, p, n + 1, f)
    BY <1>1, AtWalks
  <2>2. c \in Prio \cup W /\ q.next[c] = b /\ Home(home, c) = p
    <3>1. DOMAIN home = W
      BY <1>1
    <3>2. c \in Prio \cup W /\ q.next[c] = b
      BY <1>1, <3>1 DEF Paired
    <3>3. Home(home, q.next[c]) = Home(home, c)
      BY <1>1, <3>1, <3>2 DEF Paired
    <3>4. b \notin Prio
      BY CellsApart
    <3> QED
      BY <3>2, <3>3, <3>4 DEF Home
  <2>3. CASE c \in Prio
    <3>1. c = p
      BY <2>2, <2>3 DEF Home
    <3>2. f[1] = b
      BY <2>1, <2>2, <3>1 DEF IsWalk
    <3>3. 1 \in 1 .. n /\ 1 <= Cardinality(Upto(b))
      BY <1>2, <1>3
    <3> QED
      BY <3>2, <3>3
  <2>4. CASE c \notin Prio
    <3>1. c \in W /\ home[c] = p /\ rank[c] < rank[b]
      BY <1>1, <2>2, <2>4 DEF Home, Ranked
    <3>2. PICK i \in 1 .. n : i <= Cardinality(Upto(c)) /\ f[i] = c
      BY <1>4, <3>1
    <3>3. Cardinality(Upto(c)) + 1 <= Cardinality(Upto(b))
      <4> DEFINE S == Upto(c)
      <4>1. S \cup {b} \subseteq Upto(b) /\ b \notin S
        BY <1>1, <3>1
      <4>2. IsFiniteSet(S) /\ IsFiniteSet(Upto(b))
        BY <1>3, <3>1
      <4> DEFINE V == Upto(b)
      <4>3. S \cup {b} \subseteq V /\ b \notin S /\ IsFiniteSet(S) /\ IsFiniteSet(V)
        BY <4>1, <4>2
      <4> HIDE DEF S, V
      <4>4. Cardinality(S \cup {b}) = Cardinality(S) + 1
        BY <4>3, FS_AddElement
      <4>5. Cardinality(S \cup {b}) <= Cardinality(V)
        BY <4>3, FS_Subset
      <4>6. Cardinality(S) + 1 <= Cardinality(V)
        BY <4>4, <4>5
      <4> QED
        BY <4>6 DEF S, V
    <3>4. Cardinality(Upto(b)) \in 1 .. n /\ Cardinality(Upto(c)) \in 1 .. n
      BY <1>3, <3>1
    <3>5. i + 1 \in 1 .. n /\ i + 1 <= Cardinality(Upto(b)) /\ i + 1 \in 2 .. n + 1
          /\ (i + 1) - 1 = i
      <4> DEFINE s == Cardinality(Upto(c))
                 v == Cardinality(Upto(b))
      <4>1. s + 1 <= v /\ v \in 1 .. n /\ s \in 1 .. n /\ i <= s /\ i \in 1 .. n
        BY <3>2, <3>3, <3>4
      <4> HIDE DEF s, v, n
      <4>2. i + 1 \in 1 .. n /\ i + 1 <= v /\ i + 1 \in 2 .. n + 1 /\ (i + 1) - 1 = i
        BY <1>2, <4>1
      <4> QED
        BY <4>2 DEF v
    <3>6. f[i + 1] = Following(q, p, f[i])
      BY <2>1, <3>5 DEF IsWalk
    <3>7. c \in Block
      BY <3>1
    <3>8. f[i + 1] = b
      BY <2>2, <3>2, <3>6, <3>7 DEF Following
    <3> QED
      BY <3>5, <3>8
  <2> QED
    BY <2>3, <2>4
<1>5. ASSUME NEW b \in W  PROVE Reached(b)
  <2> HIDE DEF Reached
  <2> DEFINE T == {rank[c] : c \in {c \in W : ~Reached(c)}}
  <2> SUFFICES ASSUME ~Reached(b)  PROVE FALSE
    OBVIOUS
  <2>1. T \subseteq Nat /\ T # {}
    BY <1>1
  <2>2. PICK m \in T : \A k \in T : m <= k
    <3> HIDE DEF T
    <3> QED
      BY <2>1, Least
  <2>3. PICK c \in W : ~Reached(c) /\ rank[c] = m
    BY <2>2
  <2>4. ASSUME NEW a \in W, rank[a] < rank[c]  PROVE Reached(a)
    <3> SUFFICES ASSUME ~Reached(a)  PROVE FALSE
      OBVIOUS
    <3>1. rank[a] \in T /\ rank[a] \in Nat /\ m \in Nat
      BY <1>1, <2>1, <2>2
    <3>2. m <= rank[a]
      BY <2>2, <3>1
    <3> HIDE DEF T
    <3> QED
      BY <2>3, <2>4, <3>1, <3>2
  <2> QED
    BY <1>4, <2>3, <2>4
<1>6. ASSUME NEW b \in W
      PROVE  \E p \in Prio : \E i \in DOMAIN Chain(q, p) : Chain(q, p)[i] = b
  <2>1. PICK i \in 1 .. n : At(q, home[b])[i] = b
    BY <1>5
  <2>2. home[b] \in Prio /\ At(q, home[b])[i] \in Block
    BY <1>1, <2>1
  <2>3. i \in DOMAIN Chain(q, home[b]) /\ Chain(q, home[b])[i] = b
    BY <2>1, <2>2, ChainHas
  <2> QED
    BY <2>2, <2>3
<1> QED
  BY <1>1, <1>6 DEF LinksAgree

LEMMA QueueHolds == IInv => QueueIntact
<1> SUFFICES ASSUME IInv, Serving
             PROVE  LinksAgree(d.q, {b \in Block : d.state[b] = "waiting"})
  BY DEF QueueIntact
<1>1. d.dead = "no" /\ reset = "no"
  BY DEF Serving, Failing
<1>2. PICK all \in BOOLEAN : all = (reset = "no")
  OBVIOUS
<1>3. Inv(d, reset = "no")
  BY <1>1 DEF IInv
<1>4. Inv(d, all)
  BY <1>2, <1>3
<1>5. PICK W \in SUBSET Block : Phase(d, d.fifo, W, all)
  BY <1>4 DEF Inv
<1>6. d.q \in Links /\ Linked(d.q, W)
  BY <1>5 DEF Phase, Fields, Listed
<1>7. W = {b \in Block : d.state[b] = "waiting"}
  <2>1. \A b \in W : d.state[b] = "waiting"
    BY <1>5 DEF Phase, Listed
  <2>2. \A b \in Block : d.state[b] = "waiting" => b \in W
    BY <1>2, <1>5, ServingWaits
  <2> QED
    BY <2>1, <2>2
<1>8. LinksAgree(d.q, W)
  BY <1>6, LinkedAgrees
<1> QED
  BY <1>7, <1>8

\* Until a reset is prepared the queues hold exactly the commands that wait,
\* each once.
THEOREM QueuesStayIntact ==
  ASSUME Scope  PROVE Spec => []QueueIntact
BY QueueHolds, Invariance, PTL
=============================================================================
