----------------------------- MODULE MemoryPools -----------------------------
(***************************************************************************)
(* Memory::PoolManager and its FixedAllocators: a request goes to the      *)
(* pools of blocks that are large enough, smallest first, each under its   *)
(* own lock; a block freed goes back to the pool it lies in.               *)
(*                                                                         *)
(* The CriticalSections are mutexes and the buffers are disjoint; neither  *)
(* Enter nor the allocation of the buffers is among the sources.  Clients  *)
(* free only what they hold.  A request for zero bytes, or for more than   *)
(* the largest block, returns 0 and changes nothing: it is left out.       *)
(***************************************************************************)
EXTENDS Integers, Sequences

CONSTANTS
  Thread,
  Pools,      \* the number of allocators, 4
  BlockSize,  \* the block size of each
  Buffer,     \* the blocks of each, in the order of their addresses
  Size,       \* bound: the sizes clients ask for
  NULL

Pool == 1..Pools
Elements(s) == {s[i] : i \in DOMAIN s}
Distinct(s) == \A i, j \in DOMAIN s : s[i] = s[j] => i = j
Block == UNION {Elements(Buffer[k]) : k \in Pool}

ASSUME PoolAssumption ==
  /\ Pools \in Nat \ {0}
  /\ BlockSize \in [Pool -> Nat]
  /\ \A k, l \in Pool : k < l => BlockSize[k] < BlockSize[l]
  /\ Buffer \in [Pool -> Seq(Block)]
  /\ \A k \in Pool : Distinct(Buffer[k])
  /\ \A k, l \in Pool : Elements(Buffer[k]) \cap Elements(Buffer[l]) # {} => k = l
  /\ NULL \notin Block
  /\ Size \subseteq Int \ {0}
  /\ \A n \in Size : n <= BlockSize[Pools]

VARIABLES
  freeList,  \* of each pool, in the order of the links
  memMutex,  \* of each pool, {} or the set of its owner
  at,        \* where each thread is
  op,        \* in which call
  pool,      \* at which pool
  size,      \* the size asked for
  mem,       \* the block read or to free
  rest,      \* the list that the block's next field heads
  held,      \* the blocks the clients hold
  given      \* the size each block held was asked for

callVars == <<op, pool, size, mem, rest>>
vars == <<freeList, memMutex, at, callVars, held, given>>

TypeOK ==
  /\ freeList \in [Pool -> Seq(Block)]
  /\ memMutex \in [Pool -> SUBSET Thread]
  /\ at \in [Thread -> {"out", "enter", "read", "write", "exit"}]
  /\ op \in [Thread -> {"Alloc", "Free"}]
  /\ pool \in [Thread -> Pool]
  /\ size \in [Thread -> Int]
  /\ mem \in [Thread -> Block \cup {NULL}]
  /\ rest \in [Thread -> Seq(Block)]
  /\ held \subseteq Block
  /\ given \in [Block -> Int]

\* Create threads each buffer from its first block to its last.
Init ==
  /\ freeList = Buffer
  /\ memMutex = [k \in Pool |-> {}]
  /\ at = [t \in Thread |-> "out"]
  /\ op = [t \in Thread |-> "Alloc"]
  /\ pool = [t \in Thread |-> 1]
  /\ size = [t \in Thread |-> 0]
  /\ mem = [t \in Thread |-> NULL]
  /\ rest = [t \in Thread |-> <<>>]
  /\ held = {}
  /\ given = [b \in Block |-> 0]

Go(t, from, to) == at[t] = from /\ at' = [at EXCEPT ![t] = to]

IsInRange(k, b) == b \in Elements(Buffer[k])

\* The pool whose range holds the block.
PoolOf(b) == CHOOSE k \in Pool : IsInRange(k, b)
GetMemorySize(b) == BlockSize[PoolOf(b)]

\* The first pool tried.
SmallestFit(n, k) == n <= BlockSize[k] /\ \A l \in 1..(k - 1) : BlockSize[l] < n

-----------------------------------------------------------------------------
Alloc(t, n) ==
  /\ Go(t, "out", "enter")
  /\ op' = [op EXCEPT ![t] = "Alloc"]
  /\ size' = [size EXCEPT ![t] = n]
  /\ \E k \in Pool : SmallestFit(n, k) /\ pool' = [pool EXCEPT ![t] = k]
  /\ UNCHANGED <<freeList, memMutex, mem, rest, held, given>>

Free(t, b) ==
  /\ b \in held
  /\ Go(t, "out", "enter")
  /\ op' = [op EXCEPT ![t] = "Free"]
  /\ mem' = [mem EXCEPT ![t] = b]
  /\ pool' = [pool EXCEPT ![t] = PoolOf(b)]
  /\ held' = held \ {b}
  /\ given' = [given EXCEPT ![b] = 0]
  /\ UNCHANGED <<freeList, memMutex, size, rest>>

\* Mutant of Enter: the allocator was not made thread safe.
EnterAnyway(t) ==
  /\ memMutex' = [memMutex EXCEPT ![pool[t]] = {t}]
  /\ Go(t, "enter", "read")
  /\ UNCHANGED <<freeList, callVars, held, given>>

Enter(t) ==
  /\ memMutex[pool[t]] = {}
  /\ memMutex' = [memMutex EXCEPT ![pool[t]] = {t}]
  /\ Go(t, "enter", "read")
  /\ UNCHANGED <<freeList, callVars, held, given>>

\* FixedAllocator::Alloc reads the first block and its next field.
ReadFirst(t) ==
  /\ op[t] = "Alloc"
  /\ LET list == freeList[pool[t]] IN
     IF list = <<>>
     THEN /\ Go(t, "read", "exit")
          /\ mem' = [mem EXCEPT ![t] = NULL]
          /\ UNCHANGED rest
     ELSE /\ Go(t, "read", "write")
          /\ mem' = [mem EXCEPT ![t] = Head(list)]
          /\ rest' = [rest EXCEPT ![t] = Tail(list)]
  /\ UNCHANGED <<freeList, memMutex, op, pool, size, held, given>>

\* FixedAllocator::Free stores the list in the next field of the block.
LinkFirst(t) ==
  /\ op[t] = "Free"
  /\ Go(t, "read", "write")
  /\ rest' = [rest EXCEPT ![t] = freeList[pool[t]]]
  /\ UNCHANGED <<freeList, memMutex, op, pool, size, mem, held, given>>

Write(t) ==
  /\ Go(t, "write", "exit")
  /\ freeList' = [freeList EXCEPT ![pool[t]] =
                    IF op[t] = "Alloc" THEN rest[t] ELSE <<mem[t]>> \o rest[t]]
  /\ rest' = [rest EXCEPT ![t] = <<>>]
  /\ UNCHANGED <<memMutex, op, pool, size, mem, held, given>>

Exit(t) == memMutex' = [memMutex EXCEPT ![pool[t]] = {}]

\* The call is over; its variables are nobody's any more.
Return(t) ==
  /\ Go(t, "exit", "out")
  /\ op' = [op EXCEPT ![t] = "Alloc"]
  /\ pool' = [pool EXCEPT ![t] = 1]
  /\ size' = [size EXCEPT ![t] = 0]
  /\ mem' = [mem EXCEPT ![t] = NULL]

\* The pool had no block: the next larger one is tried, if there is one.
TryNext(t) ==
  /\ op[t] = "Alloc" /\ mem[t] = NULL
  /\ Exit(t)
  /\ IF pool[t] < Pools
     THEN /\ Go(t, "exit", "enter")
          /\ pool' = [pool EXCEPT ![t] = @ + 1]
          /\ UNCHANGED <<op, size, mem>>
     ELSE Return(t)
  /\ UNCHANGED <<freeList, rest, held, given>>

Allocated(t) ==
  /\ op[t] = "Alloc" /\ mem[t] # NULL
  /\ Exit(t)
  /\ Return(t)
  /\ held' = held \cup {mem[t]}
  /\ given' = [given EXCEPT ![mem[t]] = size[t]]
  /\ UNCHANGED <<freeList, rest>>

Freed(t) ==
  /\ op[t] = "Free"
  /\ Exit(t)
  /\ Return(t)
  /\ UNCHANGED <<freeList, rest, held, given>>

-----------------------------------------------------------------------------
Step(t) ==
  \/ \E n \in Size : Alloc(t, n)
  \/ \E b \in Block : Free(t, b)
  \/ Enter(t)
  \/ ReadFirst(t) \/ LinkFirst(t) \/ Write(t)
  \/ TryNext(t) \/ Allocated(t) \/ Freed(t)

Next == \E t \in Thread : Step(t)

Spec == Init /\ [][Next]_vars

-----------------------------------------------------------------------------
(* Properties *)

FreeBlocks == UNION {Elements(freeList[k]) : k \in Pool}

\* A thread carries the block it frees until it is on the list, and the one
\* it took off the list until it returns it.
Carries(t) ==
  IF op[t] = "Free" THEN at[t] \in {"enter", "read", "write"}
  ELSE at[t] = "exit" /\ mem[t] # NULL

Carried == {mem[t] : t \in {u \in Thread : Carries(u)}}

\* No block is handed out twice, none is on the list twice, and none is on
\* the list while a client or a call has it.
OneOwner ==
  /\ \A k \in Pool : Distinct(freeList[k])
  /\ held \cap FreeBlocks = {}
  /\ \A t \in Thread : Carries(t) => mem[t] \notin FreeBlocks \cup held
  /\ \A t, u \in Thread : Carries(t) /\ Carries(u) /\ mem[t] = mem[u] => t = u

\* No block is lost, whoever tries which pool meanwhile.
NoneLost == Block = FreeBlocks \cup held \cup Carried

\* Every block is in exactly one place: on the list of a pool, with a client,
\* or with a call that frees it or is about to return it, although the lists
\* are read and written in separate steps (FixedAllocator.cpp).
BlocksAccounted == OneOwner /\ NoneLost

\* Every list holds only blocks of its own buffer, through requests that fall
\* through to a larger pool, so that a block held has room for what was asked.
BigEnough ==
  /\ \A k \in Pool : \A b \in Elements(freeList[k]) : IsInRange(k, b)
  /\ \A b \in held : given[b] <= GetMemorySize(b)

\* Every block has one owner and fits him.
BlocksSound == BlocksAccounted /\ BigEnough
=============================================================================
