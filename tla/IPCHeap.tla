------------------------------- MODULE IPCHeap -------------------------------
(***************************************************************************)
(* The heap of ipc/memory.c, of which the IPC client takes its requests: a *)
(* list of free chunks, best fit, each chunk and each block that had to be *)
(* aligned behind a header of its own.                                     *)
(*                                                                         *)
(* Every call disables interrupts and is one step.  Addresses and sizes    *)
(* are in units of a header, 16 bytes; address 0, NoChunk, is NULL.  The   *)
(* memory that holds no header is not modelled: a header is dead           *)
(* (NoHeader) as soon as it lies inside a free chunk or its block is given *)
(* back.  Callers give back only what they were given.                     *)
(***************************************************************************)
EXTENDS Integers, FiniteSets

CONSTANTS
  HeapStart, \* the address of the heap
  HeapUnits, \* its size
  Sizes,     \* bound: the sizes asked for
  Aligns,    \* bound: the alignments asked for
  NoHeader

NoChunk == 0
HeapEnd == HeapStart + HeapUnits
Addr == HeapStart..(HeapEnd - 1)

Header == [magic : {"free", "used", "forAlign"}, size : 0..HeapUnits,
           prev : Addr \cup {NoChunk}, next : Addr \cup {NoChunk}]

ASSUME HeapAssumption ==
  /\ NoHeader \notin Header
  /\ HeapStart \in Nat \ {0} /\ HeapStart % 2 = 0
  /\ HeapUnits \in Nat /\ HeapUnits > 1
  /\ Sizes \subseteq Nat \ {0} /\ Aligns \subseteq {1, 2, 4, 8, 16}

VARIABLES
  head,   \* the first free chunk
  chunk,  \* the header at each address
  given   \* the blocks given out, each with its size and alignment

heapState == <<head, chunk, given>>

HeapTypeOK ==
  /\ head \in Addr \cup {NoChunk}
  /\ chunk \in [Addr -> Header \cup {NoHeader}]
  /\ given \subseteq [block : Addr, size : 1..HeapUnits, align : Aligns \cup {2}]

\* iosCreateHeap
CreateHeap ==
  /\ head = HeapStart
  /\ chunk = [a \in Addr |-> IF a = HeapStart
                THEN [magic |-> "free", size |-> HeapUnits - 1, prev |-> NoChunk, next |-> NoChunk]
                ELSE NoHeader]
  /\ given = {}

-----------------------------------------------------------------------------
(* The list.  A heap h is a record of head and chunk.                      *)

Heap == [head |-> head, chunk |-> chunk]

\* The chunk that many links after the head.
Link(h) ==
  LET after[n \in 0..HeapUnits] ==
        IF n = 0 THEN h.head
        ELSE IF after[n - 1] = NoChunk THEN NoChunk ELSE h.chunk[after[n - 1]].next
  IN after

SetPrev(h, a, p) == IF a = NoChunk THEN h ELSE [h EXCEPT !.chunk[a].prev = p]
SetNext(h, a, n) == IF a = NoChunk THEN [h EXCEPT !.head = n] ELSE [h EXCEPT !.chunk[a].next = n]

\* Mutant of Unlink: the chunk behind keeps its link.
UnlinkOneWay(h, a) ==
  LET c == h.chunk[a] IN
  [SetNext(h, c.prev, c.next) EXCEPT !.chunk[a] = [c EXCEPT !.prev = NoChunk, !.next = NoChunk]]

Unlink(h, a) ==
  LET c == h.chunk[a] IN
  [SetPrev(SetNext(h, c.prev, c.next), c.next, c.prev) EXCEPT
     !.chunk[a] = [c EXCEPT !.prev = NoChunk, !.next = NoChunk]]

-----------------------------------------------------------------------------
(* Allocation *)

RoundUp(n) == 2 * ((n + 1) \div 2)

\* What lies between the header and the first aligned address.
Unaligned(a, align) == (align - ((a + 1) % align)) % align

\* The chunk that fits best: one of exactly the size, or the smallest that is
\* large enough, the first of them in the list.
Best(size, align) ==
  LET link == Link(Heap)
      listed == {n \in 0..HeapUnits : link[n] # NoChunk}
      sizeOf(n) == chunk[link[n]].size
      exact == {n \in listed : sizeOf(n) = size /\ Unaligned(link[n], align) = 0}
      enough == {n \in listed : sizeOf(n) >= size + Unaligned(link[n], align)}
      better(n, m) == sizeOf(n) < sizeOf(m) \/ (sizeOf(n) = sizeOf(m) /\ n <= m)
  IN IF exact # {} THEN link[CHOOSE n \in exact : \A m \in exact : n <= m]
     ELSE IF enough # {} THEN link[CHOOSE n \in enough : \A m \in enough : better(n, m)]
     ELSE NoChunk

\* What the block does not need becomes a chunk, if it holds more than a header.
Split(h, a, size) ==
  LET c == h.chunk[a]
      rest == a + size + 1
  IN IF c.size <= size + 1 THEN h
     ELSE SetPrev([h EXCEPT
            !.chunk[rest] = [magic |-> "free", size |-> c.size - size - 1,
                             prev |-> NoChunk, next |-> c.next],
            !.chunk[a].next = rest, !.chunk[a].size = size], c.next, rest)

\* A block that is not right behind its chunk's header gets one that leads there.
ForAlign(h, a, block) ==
  IF block = a + 1 THEN h
  ELSE [h EXCEPT !.chunk[block - 1] =
          [magic |-> "forAlign", size |-> 0, prev |-> a, next |-> NoChunk]]

iosAlloc(n, al) ==
  LET size == RoundUp(n)
      align == IF al < 2 THEN 2 ELSE al
      best == Best(size, align)
      unalign == Unaligned(best, align)
      block == best + unalign + 1
      h == ForAlign(Unlink(Split(Heap, best, size + unalign), best), best, block)
  IN /\ best # NoChunk
     /\ head' = h.head
     /\ chunk' = [h.chunk EXCEPT ![best].magic = "used"]
     /\ given' = given \cup {[block |-> block, size |-> size, align |-> align]}

-----------------------------------------------------------------------------
(* Release *)

\* A chunk takes in the next one in the list if that one follows in memory.
Coalesce(h, a) ==
  IF a = NoChunk \/ h.chunk[a].next # a + h.chunk[a].size + 1 THEN h
  ELSE LET n == h.chunk[a].next IN
       SetPrev([h EXCEPT !.chunk[a].next = h.chunk[n].next,
                         !.chunk[a].size = @ + h.chunk[n].size + 1,
                         !.chunk[n] = NoHeader],
               h.chunk[n].next, a)

\* The last free chunk before the address, or the first one after it.
Before(h, a) ==
  LET link == Link(h)
      stops(n) == /\ link[n] # NoChunk
                  /\ \/ h.chunk[link[n]].next = NoChunk \/ h.chunk[link[n]].next > a
      first == {n \in 0..HeapUnits : stops(n) /\ \A m \in 0..(n - 1) : ~stops(m)}
  IN IF h.head = NoChunk THEN NoChunk ELSE link[CHOOSE n \in first : TRUE]

PutBack(h, a) ==
  LET it == Before(h, a)
      prev == IF it # NoChunk /\ a > it THEN it ELSE NoChunk
      next == IF prev = NoChunk THEN h.head ELSE h.chunk[prev].next
  IN SetPrev(SetNext([h EXCEPT !.chunk[a].prev = prev, !.chunk[a].next = next], prev, a), next, a)

Merge(h, a) ==
  LET once == Coalesce(h, a) IN Coalesce(once, once.chunk[a].prev)

iosFree(g) ==
  /\ g \in given
  /\ LET at == g.block - 1
         a == IF chunk[at].magic = "forAlign" THEN chunk[at].prev ELSE at
         freed == [head |-> head,
                   chunk |-> [b \in Addr |->
                      IF b = a THEN [chunk[a] EXCEPT !.magic = "free"]
                      ELSE IF b = at THEN NoHeader ELSE chunk[b]]]
         h == Merge(PutBack(freed, a), a)
     IN /\ chunk[a].magic = "used"
        /\ head' = h.head
        /\ chunk' = h.chunk
  /\ given' = given \ {g}

-----------------------------------------------------------------------------
HeapNext ==
  \/ \E n \in Sizes, al \in Aligns : iosAlloc(n, al)
  \/ \E g \in given : iosFree(g)

HeapSpec == CreateHeap /\ [][HeapNext]_heapState

-----------------------------------------------------------------------------
(* Properties *)

Of(magic) == {a \in Addr : chunk[a] # NoHeader /\ chunk[a].magic = magic}
Chunks == Of("free") \cup Of("used")
After(a) == a + chunk[a].size + 1

\* The chunks, free and used, lie one behind the other over the whole heap: no
\* unit is in two of them and none is lost, however the heap was cut.
ChunksTile ==
  /\ HeapStart \in Chunks
  /\ \A a \in Chunks : After(a) \in Chunks \cup {HeapEnd}
  /\ \A a, b \in Chunks : a < b => After(a) <= b

\* The list holds the free chunks by address, and its links agree.
ListExact ==
  /\ head = NoChunk <=> Of("free") = {}
  /\ head # NoChunk => head \in Of("free") /\ chunk[head].prev = NoChunk
  /\ \A a \in Of("free") :
       LET next == {b \in Of("free") : b > a} IN
       IF next = {} THEN chunk[a].next = NoChunk
       ELSE /\ chunk[a].next \in next /\ \A b \in next : chunk[a].next <= b
            /\ chunk[chunk[a].next].prev = a
  /\ \A a \in Of("free") : head <= a

\* Free chunks never lie side by side: when all is given back the heap is one
\* chunk again.
Coalesced == \A a \in Of("free") : After(a) \notin Of("free")

\* Through any sequence of allocations, aligned ones among them, and releases
\* the hand-linked headers describe the heap exactly (iosAlloc and iosFree).
HeapIntact == ChunksTile /\ ListExact /\ Coalesced

\* A block is aligned, lies in a chunk of its own, and finds its way back to it.
BlocksApart ==
  \A g \in given :
    /\ g.block % g.align = 0
    /\ \E a \in Of("used") :
         /\ a < g.block /\ g.block + g.size <= After(a)
         /\ \/ g.block = a + 1
            \/ chunk[g.block - 1] # NoHeader /\ chunk[g.block - 1].magic = "forAlign"
               /\ chunk[g.block - 1].prev = a
         /\ \A o \in given \ {g} : o.block < a \/ o.block >= After(a)

\* The headers and the blocks handed out agree.
HeapSound == HeapIntact /\ BlocksApart
=============================================================================
