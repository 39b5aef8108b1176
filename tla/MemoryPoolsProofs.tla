-------------------------- MODULE MemoryPoolsProofs --------------------------
(***************************************************************************)
(* Proofs about MemoryPools: its typing, that every block has one owner,   *)
(* that none is lost and that each is big enough, for any threads, any     *)
(* number of pools and any buffers.                                        *)
(***************************************************************************)
EXTENDS MemoryPools, SequenceTheorems, TLAPS

LEMMA ConsFacts ==
  ASSUME NEW S, NEW s \in Seq(S), NEW b \in S
  PROVE  /\ <<b>> \o s \in Seq(S)
         /\ Elements(<<b>> \o s) = {b} \cup Elements(s)
         /\ Distinct(<<b>> \o s) <=> Distinct(s) /\ b \notin Elements(s)
<1> DEFINE c == <<b>> \o s
<1>1. c \in Seq(S) /\ Len(c) = Len(s) + 1
  OBVIOUS
<1>2. c[1] = b /\ \A i \in 1..Len(s) : c[i + 1] = s[i]
  OBVIOUS
<1>3. DOMAIN c = 1..(Len(s) + 1) /\ DOMAIN s = 1..Len(s) /\ Len(s) \in Nat
  BY <1>1
<1> HIDE DEF c
<1>4. Elements(c) = {b} \cup Elements(s)
  <2>1. ASSUME NEW x \in Elements(c) PROVE x \in {b} \cup Elements(s)
    <3>1. PICK i \in 1..(Len(s) + 1) : x = c[i]
      BY <2>1, <1>3 DEF Elements
    <3>2. CASE i = 1
      BY <3>1, <3>2, <1>2
    <3>3. CASE i # 1
      <4>1. i - 1 \in 1..Len(s) /\ c[(i - 1) + 1] = s[i - 1] /\ (i - 1) + 1 = i
        BY <3>3, <1>2, <1>3
      <4>2. QED
        BY <4>1, <3>1, <1>3 DEF Elements
    <3>4. QED
      BY <3>2, <3>3
  <2>2. ASSUME NEW x \in Elements(s) PROVE x \in Elements(c)
    <3>1. PICK i \in 1..Len(s) : x = s[i]
      BY <2>2, <1>3 DEF Elements
    <3>2. i + 1 \in DOMAIN c /\ c[i + 1] = x
      BY <3>1, <1>2, <1>3
    <3>3. QED
      BY <3>2 DEF Elements
  <2>3. b \in Elements(c)
    BY <1>2, <1>3 DEF Elements
  <2>4. QED
    BY <2>1, <2>2, <2>3
<1>5. ASSUME Distinct(c) PROVE Distinct(s) /\ b \notin Elements(s)
  <2>1. \A i, j \in 1..Len(s) : i + 1 \in DOMAIN c /\ j + 1 \in DOMAIN c /\ 1 \in DOMAIN c
    BY <1>3
  <2>2. Distinct(s)
    <3>1. SUFFICES ASSUME NEW i \in 1..Len(s), NEW j \in 1..Len(s), s[i] = s[j]
                   PROVE  i = j
      BY <1>3 DEF Distinct
    <3>2. c[i + 1] = c[j + 1]
      BY <1>2, <3>1
    <3>3. i + 1 = j + 1
      BY <1>5, <2>1, <3>2 DEF Distinct
    <3>4. QED
      BY <3>3
  <2>3. ASSUME NEW i \in 1..Len(s), s[i] = b PROVE FALSE
    <3>1. i + 1 = 1
      BY <1>5, <2>1, <1>2, <2>3 DEF Distinct
    <3>2. QED
      BY <3>1
  <2>4. QED
    BY <2>2, <2>3, <1>3 DEF Elements
<1>6. ASSUME Distinct(s), b \notin Elements(s) PROVE Distinct(c)
  <2>1. \A i \in 1..(Len(s) + 1) :
          i = 1 \/ (i - 1 \in 1..Len(s) /\ c[i] = s[i - 1] /\ c[i] \in Elements(s))
    <3>1. TAKE i \in 1..(Len(s) + 1)
    <3>2. SUFFICES ASSUME i # 1 PROVE i - 1 \in 1..Len(s) /\ c[i] = s[i - 1] /\ c[i] \in Elements(s)
      OBVIOUS
    <3>3. i - 1 \in 1..Len(s) /\ c[(i - 1) + 1] = s[i - 1] /\ (i - 1) + 1 = i
      BY <3>2, <1>2, <1>3
    <3>4. QED
      BY <3>3, <1>3 DEF Elements
  <2>2. SUFFICES ASSUME NEW i \in 1..(Len(s) + 1), NEW j \in 1..(Len(s) + 1),
                        c[i] = c[j]
                 PROVE  i = j
    BY <1>3 DEF Distinct
  <2>3. CASE i = 1 \/ j = 1
    BY <2>1, <2>2, <2>3, <1>2, <1>6
  <2>4. CASE i # 1 /\ j # 1
    <3>1. i - 1 \in DOMAIN s /\ j - 1 \in DOMAIN s /\ s[i - 1] = s[j - 1]
      BY <2>1, <2>2, <2>4, <1>3
    <3>2. i - 1 = j - 1
      BY <3>1, <1>6 DEF Distinct
    <3>3. QED
      BY <3>2
  <2>5. QED
    BY <2>3, <2>4
<1>7. QED
  BY <1>1, <1>4, <1>5, <1>6 DEF c

LEMMA HeadAndTail ==
  ASSUME NEW S, NEW s \in Seq(S), s # <<>>
  PROVE  Head(s) \in S /\ Tail(s) \in Seq(S) /\ s = <<Head(s)>> \o Tail(s)
OBVIOUS

\* The buffers are disjoint, so a block lies in exactly one.
LEMMA OnePool ==
  ASSUME NEW b \in Block
  PROVE  /\ PoolOf(b) \in Pool /\ IsInRange(PoolOf(b), b)
         /\ \A k \in Pool : IsInRange(k, b) => k = PoolOf(b)
<1>1. \E k \in Pool : IsInRange(k, b)
  BY DEF Block, IsInRange
<1>2. PoolOf(b) \in Pool /\ IsInRange(PoolOf(b), b)
  BY <1>1 DEF PoolOf
<1>3. ASSUME NEW k \in Pool, IsInRange(k, b) PROVE k = PoolOf(b)
  BY <1>2, <1>3, PoolAssumption DEF IsInRange
<1>4. QED
  BY <1>2, <1>3

-----------------------------------------------------------------------------
(* The invariant *)

Inside(t) == at[t] \in {"read", "write", "exit"}

Mutexes == \A t \in Thread : Inside(t) => memMutex[pool[t]] = {t}

Lists == \A k \in Pool :
  Distinct(freeList[k]) /\ \A b \in Elements(freeList[k]) : b \in Block /\ IsInRange(k, b)

\* What a thread has read stays true while it is inside.
Call(t) ==
  /\ op[t] = "Alloc" /\ at[t] # "out" => size[t] <= BlockSize[pool[t]]
  /\ op[t] = "Alloc" /\ at[t] = "write" =>
       mem[t] \in Block /\ freeList[pool[t]] = <<mem[t]>> \o rest[t]
  /\ op[t] = "Free" /\ at[t] = "write" => rest[t] = freeList[pool[t]]
  /\ Carries(t) => mem[t] \in Block /\ IsInRange(pool[t], mem[t])

Calls == \A t \in Thread : Call(t)

Enough == \A b \in held : given[b] <= GetMemorySize(b)

IInv == TypeOK /\ Mutexes /\ Lists /\ Calls /\ OneOwner /\ NoneLost /\ Enough

LEMMA Alone ==
  ASSUME Mutexes, NEW t \in Thread, NEW u \in Thread,
         Inside(t), Inside(u), pool[t] = pool[u]
  PROVE  t = u
<1>1. memMutex[pool[t]] = {t} /\ memMutex[pool[t]] = {u}
  BY DEF Mutexes
<1>2. QED
  BY <1>1

LEMMA InitIInv == Init => IInv
<1> SUFFICES ASSUME Init PROVE IInv
  OBVIOUS
<1>1. \A k \in Pool : /\ Buffer[k] \in Seq(Block) /\ Distinct(Buffer[k])
                      /\ Elements(Buffer[k]) \subseteq Block
  <2>1. TAKE k \in Pool
  <2>2. Buffer[k] \in Seq(Block) /\ Distinct(Buffer[k])
    BY PoolAssumption
  <2>3. Elements(Buffer[k]) \subseteq Block
    BY DEF Block
  <2>4. QED
    BY <2>2, <2>3
<1>2. 1 \in Pool
  BY PoolAssumption DEF Pool
<1>3. freeList \in [Pool -> Seq(Block)]
  BY PoolAssumption DEF Init
<1>4. TypeOK
  BY <1>2, <1>3 DEF Init, TypeOK
<1>5. \A t \in Thread : ~Carries(t) /\ ~Inside(t) /\ at[t] = "out"
  BY DEF Init, Carries, Inside
<1>6. Lists
  BY <1>1 DEF Init, Lists, IsInRange
<1>7. OneOwner
  BY <1>1, <1>5 DEF Init, OneOwner
<1>8. NoneLost
  <2>1. FreeBlocks = Block
    BY DEF Init, FreeBlocks, Block
  <2>2. Carried = {}
    BY <1>5 DEF Carried
  <2>3. QED
    BY <2>1, <2>2 DEF NoneLost, Init
<1>9. QED
  BY <1>4, <1>5, <1>6, <1>7, <1>8 DEF IInv, Mutexes, Calls, Call, Enough, Init

-----------------------------------------------------------------------------
(* Steps that move no block *)

\* Who holds, carries or lists which block does not change.
LEMMA SameOwners ==
  ASSUME OneOwner, NoneLost, UNCHANGED <<freeList, held>>,
         \A u \in Thread : (Carries(u)' <=> Carries(u)) /\ (Carries(u) => mem'[u] = mem[u])
  PROVE  OneOwner' /\ NoneLost'
<1>1. FreeBlocks' = FreeBlocks
  BY DEF FreeBlocks
<1>2. Carried' = Carried
  BY DEF Carried
<1>3. OneOwner'
  BY <1>1 DEF OneOwner
<1>4. QED
  BY <1>1, <1>2, <1>3 DEF NoneLost

LEMMA AllocIInv ==
  ASSUME IInv, NEW t \in Thread, NEW n \in Size, Alloc(t, n)
  PROVE  IInv'
<1>0. PICK k \in Pool : SmallestFit(n, k) /\ pool' = [pool EXCEPT ![t] = k]
  BY DEF Alloc
<1>1. at[t] = "out" /\ at' = [at EXCEPT ![t] = "enter"]
  BY DEF Alloc, Go
<1>2. n \in Int
  BY PoolAssumption
<1>3. TypeOK'
  BY <1>0, <1>1, <1>2 DEF Alloc, IInv, TypeOK
<1>4. /\ op'[t] = "Alloc" /\ at'[t] = "enter" /\ size'[t] = n /\ pool'[t] = k
      /\ \A u \in Thread : u # t => /\ op'[u] = op[u] /\ at'[u] = at[u]
                                    /\ size'[u] = size[u] /\ pool'[u] = pool[u]
      /\ UNCHANGED <<freeList, memMutex, mem, rest, held, given>>
  BY <1>0, <1>1 DEF Alloc, IInv, TypeOK
<1>5. \A u \in Thread : u # t => (Carries(u)' <=> Carries(u))
  BY <1>4 DEF Carries
<1>6. ~Carries(t)' /\ ~Carries(t)
  BY <1>1, <1>4, PoolAssumption DEF Carries
<1>7. Mutexes'
  BY <1>4 DEF IInv, Mutexes, Inside
<1>8. Calls'
  <2>1. Call(t)'
    BY <1>0, <1>4, <1>6 DEF Call, SmallestFit
  <2>2. ASSUME NEW u \in Thread, u # t PROVE Call(u)'
    BY <1>4, <1>5, <2>2 DEF IInv, Calls, Call
  <2>3. QED
    BY <2>1, <2>2 DEF Calls
<1>9. OneOwner' /\ NoneLost'
  BY <1>4, <1>5, <1>6, SameOwners DEF IInv
<1>10. QED
  BY <1>3, <1>4, <1>7, <1>8, <1>9 DEF IInv, Lists, Enough

LEMMA EnterIInv ==
  ASSUME IInv, NEW t \in Thread, Enter(t)
  PROVE  IInv'
<1>1. /\ at[t] = "enter" /\ at' = [at EXCEPT ![t] = "read"]
      /\ memMutex[pool[t]] = {} /\ memMutex' = [memMutex EXCEPT ![pool[t]] = {t}]
      /\ UNCHANGED <<freeList, op, pool, size, mem, rest, held, given>>
  BY DEF Enter, Go, callVars
<1>2. TypeOK'
  BY <1>1 DEF IInv, TypeOK
<1>3. at'[t] = "read" /\ \A u \in Thread : u # t => at'[u] = at[u]
  BY <1>1 DEF IInv, TypeOK
<1>4. \A u \in Thread : Carries(u)' <=> Carries(u)
  BY <1>1, <1>3 DEF Carries
<1>5. Mutexes'
  <2>1. SUFFICES ASSUME NEW u \in Thread, Inside(u)' PROVE memMutex'[pool[u]] = {u}
    BY <1>1 DEF Mutexes
  <2>2. CASE u = t
    BY <1>1, <2>2 DEF IInv, TypeOK
  <2>3. CASE u # t
    <3>1. memMutex[pool[u]] = {u}
      BY <1>3, <2>1, <2>3 DEF IInv, Mutexes, Inside
    <3>2. pool[u] # pool[t]
      BY <1>1, <3>1
    <3>3. QED
      BY <1>1, <3>1, <3>2 DEF IInv, TypeOK
  <2>4. QED
    BY <2>2, <2>3
<1>6. Calls'
  BY <1>1, <1>3, <1>4 DEF IInv, Calls, Call
<1>7. OneOwner' /\ NoneLost'
  BY <1>1, <1>4, SameOwners DEF IInv
<1>8. QED
  BY <1>1, <1>2, <1>5, <1>6, <1>7 DEF IInv, Lists, Enough

LEMMA ReadFirstIInv ==
  ASSUME IInv, NEW t \in Thread, ReadFirst(t)
  PROVE  IInv'
<1> DEFINE list == freeList[pool[t]]
<1>1. /\ op[t] = "Alloc" /\ at[t] = "read"
      /\ UNCHANGED <<freeList, memMutex, op, pool, size, held, given>>
  BY DEF ReadFirst, Go
<1>2. list \in Seq(Block)
  BY DEF IInv, TypeOK
<1>3. \/ /\ list = <<>> /\ at' = [at EXCEPT ![t] = "exit"]
         /\ mem' = [mem EXCEPT ![t] = NULL] /\ rest' = rest
      \/ /\ list # <<>> /\ at' = [at EXCEPT ![t] = "write"]
         /\ mem' = [mem EXCEPT ![t] = Head(list)] /\ rest' = [rest EXCEPT ![t] = Tail(list)]
         /\ Head(list) \in Block /\ Tail(list) \in Seq(Block)
         /\ list = <<Head(list)>> \o Tail(list)
  <2>1. CASE list = <<>>
    BY <2>1 DEF ReadFirst, Go
  <2>2. CASE list # <<>>
    <3>1. /\ at' = [at EXCEPT ![t] = "write"]
          /\ mem' = [mem EXCEPT ![t] = Head(list)] /\ rest' = [rest EXCEPT ![t] = Tail(list)]
      BY <2>2 DEF ReadFirst, Go
    <3> HIDE DEF list
    <3> QED  BY <1>2, <2>2, <3>1, HeadAndTail
  <2> QED  BY <2>1, <2>2
<1> HIDE DEF list
<1>4. TypeOK'
  <2>1. /\ at' \in [Thread -> {"out", "enter", "read", "write", "exit"}]
        /\ mem' \in [Thread -> Block \cup {NULL}]
        /\ rest' \in [Thread -> Seq(Block)]
    <3>1. /\ at \in [Thread -> {"out", "enter", "read", "write", "exit"}]
          /\ mem \in [Thread -> Block \cup {NULL}]
          /\ rest \in [Thread -> Seq(Block)]
      BY DEF IInv, TypeOK
    <3>2. CASE /\ at' = [at EXCEPT ![t] = "exit"]
               /\ mem' = [mem EXCEPT ![t] = NULL] /\ rest' = rest
      BY <3>1, <3>2
    <3>3. ASSUME NEW b \in Block, NEW l \in Seq(Block),
                 at' = [at EXCEPT ![t] = "write"],
                 mem' = [mem EXCEPT ![t] = b], rest' = [rest EXCEPT ![t] = l]
          PROVE  /\ at' \in [Thread -> {"out", "enter", "read", "write", "exit"}]
                 /\ mem' \in [Thread -> Block \cup {NULL}]
                 /\ rest' \in [Thread -> Seq(Block)]
      BY <3>1, <3>3
    <3> QED  BY <1>3, <3>2, <3>3
  <2> QED  BY <1>1, <2>1 DEF IInv, TypeOK
<1>5. /\ \/ at'[t] = "exit" /\ mem'[t] = NULL
         \/ at'[t] = "write" /\ mem'[t] \in Block /\ list = <<mem'[t]>> \o rest'[t]
      /\ \A u \in Thread : u # t => at'[u] = at[u] /\ mem'[u] = mem[u] /\ rest'[u] = rest[u]
  BY <1>3 DEF IInv, TypeOK
<1>6. ~Carries(t) /\ ~Carries(t)'
  BY <1>1, <1>5 DEF Carries
<1>7. \A u \in Thread : u # t => (Carries(u)' <=> Carries(u))
  BY <1>1, <1>5 DEF Carries
<1>8. Mutexes'
  <2>1. \A u \in Thread : Inside(u)' => Inside(u)
    BY <1>1, <1>5 DEF Inside
  <2>2. QED
    BY <1>1, <2>1 DEF IInv, Mutexes
<1>9. Calls'
  <2>1. Call(t)'
    BY <1>1, <1>5, <1>6 DEF IInv, Calls, Call, list
  <2>2. ASSUME NEW u \in Thread, u # t PROVE Call(u)'
    BY <1>1, <1>5, <1>7, <2>2 DEF IInv, Calls, Call
  <2>3. QED
    BY <2>1, <2>2 DEF Calls
<1>10. OneOwner' /\ NoneLost'
  BY <1>1, <1>5, <1>6, <1>7, SameOwners DEF IInv
<1>11. QED
  BY <1>1, <1>4, <1>8, <1>9, <1>10 DEF IInv, Lists, Enough

LEMMA LinkFirstIInv ==
  ASSUME IInv, NEW t \in Thread, LinkFirst(t)
  PROVE  IInv'
<1>1. /\ op[t] = "Free" /\ at[t] = "read" /\ at' = [at EXCEPT ![t] = "write"]
      /\ rest' = [rest EXCEPT ![t] = freeList[pool[t]]]
      /\ UNCHANGED <<freeList, memMutex, op, pool, size, mem, held, given>>
  BY DEF LinkFirst, Go
<1>2. TypeOK'
  BY <1>1 DEF IInv, TypeOK
<1>3. /\ at'[t] = "write" /\ rest'[t] = freeList[pool[t]]
      /\ \A u \in Thread : u # t => at'[u] = at[u] /\ rest'[u] = rest[u]
  BY <1>1 DEF IInv, TypeOK
<1>4. \A u \in Thread : (Carries(u)' <=> Carries(u)) /\ (Inside(u)' => Inside(u))
  BY <1>1, <1>3 DEF Carries, Inside
<1>5. Mutexes'
  BY <1>1, <1>4 DEF IInv, Mutexes
<1>6. Calls'
  <2>1. Call(t)'
    BY <1>1, <1>3, <1>4 DEF IInv, Calls, Call
  <2>2. ASSUME NEW u \in Thread, u # t PROVE Call(u)'
    BY <1>1, <1>3, <1>4, <2>2 DEF IInv, Calls, Call
  <2>3. QED
    BY <2>1, <2>2 DEF Calls
<1>7. OneOwner' /\ NoneLost'
  BY <1>1, <1>4, SameOwners DEF IInv
<1>8. QED
  BY <1>1, <1>2, <1>5, <1>6, <1>7 DEF IInv, Lists, Enough

LEMMA TryNextIInv ==
  ASSUME IInv, NEW t \in Thread, TryNext(t)
  PROVE  IInv'
<1>1. /\ op[t] = "Alloc" /\ mem[t] = NULL /\ at[t] = "exit"
      /\ memMutex' = [memMutex EXCEPT ![pool[t]] = {}]
      /\ UNCHANGED <<freeList, rest, held, given>>
  BY DEF TryNext, Exit, Go, Return
<1>2. \/ /\ pool[t] < Pools /\ at' = [at EXCEPT ![t] = "enter"]
         /\ pool' = [pool EXCEPT ![t] = pool[t] + 1] /\ UNCHANGED <<op, size, mem>>
      \/ /\ at' = [at EXCEPT ![t] = "out"] /\ op' = [op EXCEPT ![t] = "Alloc"]
         /\ pool' = [pool EXCEPT ![t] = 1] /\ size' = [size EXCEPT ![t] = 0]
         /\ mem' = [mem EXCEPT ![t] = NULL]
  BY DEF TryNext, Go, Return
<1>3. pool[t] \in Pool /\ 1 \in Pool /\ (pool[t] < Pools => pool[t] + 1 \in Pool)
  <2>1. pool[t] \in Pool
    BY DEF IInv, TypeOK
  <2>2. Pools \in Nat \ {0}
    BY PoolAssumption
  <2> QED  BY <2>1, <2>2 DEF Pool
<1>4. TypeOK'
  <2>1. at' \in [Thread -> {"out", "enter", "read", "write", "exit"}]
    BY <1>2 DEF IInv, TypeOK
  <2>2. pool' \in [Thread -> Pool]
    <3>1. PICK k \in Pool : pool' \in {pool, [pool EXCEPT ![t] = k]}
      BY <1>2, <1>3
    <3>2. QED
      BY <3>1 DEF IInv, TypeOK
  <2>3. /\ op' \in [Thread -> {"Alloc", "Free"}] /\ size' \in [Thread -> Int]
        /\ mem' \in [Thread -> Block \cup {NULL}]
    <3>1. CASE UNCHANGED <<op, size, mem>>
      BY <3>1 DEF IInv, TypeOK
    <3>2. CASE /\ op' = [op EXCEPT ![t] = "Alloc"] /\ size' = [size EXCEPT ![t] = 0]
               /\ mem' = [mem EXCEPT ![t] = NULL]
      BY <3>2 DEF IInv, TypeOK
    <3>3. QED
      BY <1>2, <3>1, <3>2
  <2>4. QED
    BY <1>1, <2>1, <2>2, <2>3 DEF IInv, TypeOK
<1>5. /\ \A u \in Thread : u # t => /\ at'[u] = at[u] /\ pool'[u] = pool[u] /\ op'[u] = op[u]
                                    /\ size'[u] = size[u] /\ mem'[u] = mem[u]
      /\ op'[t] = "Alloc" /\ at'[t] \in {"enter", "out"}
      /\ at'[t] = "enter" => pool[t] < Pools /\ size'[t] = size[t] /\ pool'[t] = pool[t] + 1
  BY <1>1, <1>2 DEF IInv, TypeOK
<1>6. ~Carries(t) /\ ~Carries(t)'
  BY <1>1, <1>5 DEF Carries
<1>7. \A u \in Thread : u # t => (Carries(u)' <=> Carries(u))
  BY <1>5 DEF Carries
<1>8. Mutexes'
  <2>1. SUFFICES ASSUME NEW u \in Thread, Inside(u)' PROVE memMutex'[pool'[u]] = {u}
    BY DEF Mutexes
  <2>2. u # t /\ Inside(u) /\ Inside(t)
    BY <1>1, <1>5, <2>1 DEF Inside
  <2>3. pool[u] # pool[t]
    BY <2>2, Alone DEF IInv
  <2>4. QED
    BY <1>1, <1>5, <2>2, <2>3 DEF IInv, Mutexes, TypeOK
<1>9. Calls'
  <2>1. Call(t)'
    <3>1. at'[t] = "enter" => size[t] <= BlockSize[pool[t] + 1]
      <4>1. SUFFICES ASSUME at'[t] = "enter" PROVE size[t] <= BlockSize[pool[t] + 1]
        OBVIOUS
      <4>2. size[t] <= BlockSize[pool[t]]
        BY <1>1 DEF IInv, Calls, Call
      <4>3. pool[t] + 1 \in Pool /\ pool[t] < pool[t] + 1
        BY <1>3, <1>5, <4>1 DEF Pool
      <4>4. BlockSize[pool[t]] < BlockSize[pool[t] + 1]
        BY <1>3, <4>3, PoolAssumption
      <4>5. size[t] \in Int /\ BlockSize[pool[t]] \in Nat /\ BlockSize[pool[t] + 1] \in Nat
        BY <1>3, <4>3, PoolAssumption DEF IInv, TypeOK
      <4>6. QED
        BY <4>2, <4>4, <4>5
    <3>2. QED
      BY <1>5, <1>6, <3>1 DEF Call
  <2>2. ASSUME NEW u \in Thread, u # t PROVE Call(u)'
    BY <1>1, <1>5, <1>7, <2>2 DEF IInv, Calls, Call
  <2>3. QED
    BY <2>1, <2>2 DEF Calls
<1>10. OneOwner' /\ NoneLost'
  BY <1>1, <1>5, <1>6, <1>7, SameOwners DEF IInv
<1>11. QED
  BY <1>1, <1>4, <1>8, <1>9, <1>10 DEF IInv, Lists, Enough

-----------------------------------------------------------------------------
(* Steps that move a block *)

\* Taking a block off its list hands it to the thread that carries it.
LEMMA WriteAllocIInv ==
  ASSUME IInv, NEW t \in Thread, Write(t), op[t] = "Alloc"
  PROVE  IInv'
<1> DEFINE m == mem[t]
           k == pool[t]
<1>1. /\ at[t] = "write" /\ at' = [at EXCEPT ![t] = "exit"]
      /\ freeList' = [freeList EXCEPT ![k] = rest[t]]
      /\ rest' = [rest EXCEPT ![t] = <<>>]
      /\ UNCHANGED <<memMutex, op, pool, size, mem, held, given>>
  BY DEF Write, Go
<1>2. /\ k \in Pool /\ rest[t] \in Seq(Block) /\ m \in Block
      /\ freeList[k] = <<m>> \o rest[t]
  BY <1>1 DEF IInv, TypeOK, Calls, Call
<1>3. TypeOK'
  <2>1. <<>> \in Seq(Block)
    OBVIOUS
  <2>2. QED
    BY <1>1, <1>2, <2>1 DEF IInv, TypeOK
<1>4. /\ Elements(freeList[k]) = {m} \cup Elements(rest[t])
      /\ Distinct(rest[t]) /\ m \notin Elements(rest[t])
  <2>1. Distinct(<<m>> \o rest[t])
    BY <1>2 DEF IInv, Lists
  <2>2. QED
    BY <1>2, <2>1, ConsFacts
<1>5. /\ freeList'[k] = rest[t]
      /\ \A l \in Pool : l # k => freeList'[l] = freeList[l]
  BY <1>1, <1>2 DEF IInv, TypeOK
<1>6. Lists'
  BY <1>4, <1>5 DEF IInv, Lists, IsInRange
<1>7. \A l \in Pool : m \in Elements(freeList[l]) => l = k
  BY <1>2, <1>4, OnePool DEF IInv, Lists
<1>8. m \in FreeBlocks /\ FreeBlocks' = FreeBlocks \ {m}
  <2>1. \A b : /\ b \in FreeBlocks <=> \E l \in Pool : b \in Elements(freeList[l])
               /\ b \in FreeBlocks' <=> \E l \in Pool : b \in Elements(freeList'[l])
    BY DEF FreeBlocks, Elements
  <2>2. Elements(freeList'[k]) = Elements(freeList[k]) \ {m}
    BY <1>4, <1>5
  <2>3. \A l \in Pool : l # k => Elements(freeList'[l]) = Elements(freeList[l])
    BY <1>5
  <2>4. QED
    BY <1>2, <1>4, <1>7, <2>1, <2>2, <2>3
<1>9. /\ at'[t] = "exit" /\ op'[t] = "Alloc" /\ mem'[t] = m
      /\ \A u \in Thread : u # t => at'[u] = at[u] /\ rest'[u] = rest[u]
      /\ \A u \in Thread : op'[u] = op[u] /\ mem'[u] = mem[u] /\ pool'[u] = pool[u]
  BY <1>1 DEF IInv, TypeOK
<1>10. Carries(t)' /\ ~Carries(t)
  BY <1>1, <1>2, <1>9, PoolAssumption DEF Carries
<1>11. \A u \in Thread : u # t => (Carries(u)' <=> Carries(u))
  BY <1>9 DEF Carries
<1>12. Mutexes'
  BY <1>1, <1>9 DEF IInv, Mutexes, Inside
<1>13. Calls'
  <2>1. Call(t)'
    <3>1. IsInRange(k, m) /\ size[t] <= BlockSize[k]
      BY <1>1, <1>2, <1>4 DEF IInv, Lists, Calls, Call
    <3>2. QED
      BY <1>1, <1>2, <1>9, <3>1 DEF Call, IsInRange
  <2>2. ASSUME NEW u \in Thread, u # t PROVE Call(u)'
    <3>1. at[u] = "write" => pool[u] # k
      BY <1>1, <2>2, Alone DEF IInv, Inside
    <3>2. at[u] = "write" => freeList'[pool[u]] = freeList[pool[u]]
      BY <1>5, <3>1 DEF IInv, TypeOK
    <3>3. QED
      BY <1>1, <1>9, <1>11, <2>2, <3>2 DEF IInv, Calls, Call, IsInRange
  <2>3. QED
    BY <2>1, <2>2 DEF Calls
<1> HIDE DEF m, k
<1>14. OneOwner'
  <2>1. \A u \in Thread : Carries(u) => mem[u] # m
    BY <1>8 DEF IInv, OneOwner
  <2>2. m \notin held
    BY <1>8 DEF IInv, OneOwner
  <2>3. \A l \in Pool : Distinct(freeList[l])'
    BY <1>6 DEF Lists
  <2>4. (held \cap FreeBlocks = {})'
    BY <1>1, <1>8 DEF IInv, OneOwner
  <2>5. \A u \in Thread : (Carries(u) => mem[u] \notin FreeBlocks \cup held)'
    <3>1. SUFFICES ASSUME NEW u \in Thread, Carries(u)'
                   PROVE  mem[u] \notin FreeBlocks' \cup held
      BY <1>1
    <3>2. CASE u = t
      BY <1>8, <2>2, <3>2 DEF m
    <3>3. CASE u # t
      BY <1>8, <1>11, <3>1, <3>3 DEF IInv, OneOwner
    <3>4. QED
      BY <3>2, <3>3
  <2>6. \A u, v \in Thread : (Carries(u) /\ Carries(v) /\ mem[u] = mem[v] => u = v)'
    <3>1. SUFFICES ASSUME NEW u \in Thread, NEW v \in Thread, Carries(u)', Carries(v)',
                          mem[u] = mem[v]
                   PROVE  u = v
      BY <1>1
    <3>2. CASE u # t /\ v # t
      BY <1>11, <3>1, <3>2 DEF IInv, OneOwner
    <3>3. CASE u = t \/ v = t
      BY <1>11, <2>1, <3>1, <3>3 DEF m
    <3>4. QED
      BY <3>2, <3>3
  <2>7. QED
    BY <2>3, <2>4, <2>5, <2>6 DEF OneOwner
<1>15. NoneLost'
  <2>1. Carried' = Carried \cup {m}
    <3>1. \A b : b \in Carried' <=> b \in Carried \cup {m}
      BY <1>1, <1>10, <1>11 DEF Carried, m
    <3>2. QED
      BY <3>1
  <2>2. QED
    BY <1>1, <1>8, <2>1 DEF IInv, NoneLost
<1>16. QED
  BY <1>1, <1>3, <1>6, <1>12, <1>13, <1>14, <1>15 DEF IInv, Enough

\* A block freed is on the list from the write on.
LEMMA WriteFreeIInv ==
  ASSUME IInv, NEW t \in Thread, Write(t), op[t] = "Free"
  PROVE  IInv'
<1> DEFINE m == mem[t]
           k == pool[t]
<1>1. /\ at[t] = "write" /\ at' = [at EXCEPT ![t] = "exit"]
      /\ freeList' = [freeList EXCEPT ![k] = <<m>> \o rest[t]]
      /\ rest' = [rest EXCEPT ![t] = <<>>]
      /\ UNCHANGED <<memMutex, op, pool, size, mem, held, given>>
  BY DEF Write, Go
<1>2. Carries(t)
  BY <1>1 DEF Carries
<1>3. /\ k \in Pool /\ m \in Block /\ IsInRange(k, m)
      /\ rest[t] = freeList[k] /\ freeList[k] \in Seq(Block)
  BY <1>1, <1>2 DEF IInv, TypeOK, Calls, Call
<1>4. m \notin FreeBlocks /\ m \notin held
  BY <1>2 DEF IInv, OneOwner
<1>5. m \notin Elements(freeList[k]) /\ Distinct(freeList[k])
  BY <1>3, <1>4 DEF FreeBlocks, IInv, Lists
<1>6. /\ <<m>> \o freeList[k] \in Seq(Block)
      /\ Elements(<<m>> \o freeList[k]) = {m} \cup Elements(freeList[k])
      /\ Distinct(<<m>> \o freeList[k])
  BY <1>3, <1>5, ConsFacts
<1>7. TypeOK'
  <2>1. <<>> \in Seq(Block)
    OBVIOUS
  <2>2. QED
    BY <1>1, <1>3, <1>6, <2>1 DEF IInv, TypeOK
<1>8. /\ freeList'[k] = <<m>> \o freeList[k]
      /\ \A l \in Pool : l # k => freeList'[l] = freeList[l]
  BY <1>1, <1>3 DEF IInv, TypeOK
<1>9. Lists'
  BY <1>3, <1>6, <1>8 DEF IInv, Lists, IsInRange
<1>10. FreeBlocks' = FreeBlocks \cup {m}
  <2>1. \A b : /\ b \in FreeBlocks <=> \E l \in Pool : b \in Elements(freeList[l])
               /\ b \in FreeBlocks' <=> \E l \in Pool : b \in Elements(freeList'[l])
    BY DEF FreeBlocks, Elements
  <2>2. Elements(freeList'[k]) = {m} \cup Elements(freeList[k])
    BY <1>6, <1>8
  <2>3. \A l \in Pool : l # k => Elements(freeList'[l]) = Elements(freeList[l])
    BY <1>8
  <2>4. QED
    BY <1>3, <2>1, <2>2, <2>3
<1>11. /\ at'[t] = "exit" /\ op'[t] = "Free"
       /\ \A u \in Thread : u # t => at'[u] = at[u] /\ rest'[u] = rest[u]
  BY <1>1 DEF IInv, TypeOK
<1>12. ~Carries(t)'
  BY <1>11 DEF Carries
<1>13. \A u \in Thread : u # t => (Carries(u)' <=> Carries(u)) /\ (Carries(u) => mem[u] # m)
  BY <1>1, <1>2, <1>11 DEF Carries, IInv, OneOwner
<1>14. Mutexes'
  BY <1>1, <1>11 DEF IInv, Mutexes, Inside
<1>15. Calls'
  <2>1. Call(t)'
    BY <1>11, <1>12 DEF Call
  <2>2. ASSUME NEW u \in Thread, u # t PROVE Call(u)'
    <3>1. at[u] = "write" => pool[u] # k
      BY <1>1, <2>2, Alone DEF IInv, Inside
    <3>2. at[u] = "write" => freeList'[pool[u]] = freeList[pool[u]]
      BY <1>8, <3>1 DEF IInv, TypeOK
    <3>3. QED
      BY <1>1, <1>11, <1>13, <2>2, <3>2 DEF IInv, Calls, Call, IsInRange
  <2>3. QED
    BY <2>1, <2>2 DEF Calls
<1> HIDE DEF m, k
<1>16. OneOwner'
  <2>1. \A l \in Pool : Distinct(freeList[l])'
    BY <1>9 DEF Lists
  <2>2. (held \cap FreeBlocks = {})'
    BY <1>1, <1>4, <1>10 DEF IInv, OneOwner
  <2>3. \A u \in Thread : (Carries(u) => mem[u] \notin FreeBlocks \cup held)'
    BY <1>1, <1>10, <1>12, <1>13 DEF IInv, OneOwner
  <2>4. \A u, v \in Thread : (Carries(u) /\ Carries(v) /\ mem[u] = mem[v] => u = v)'
    BY <1>1, <1>12, <1>13 DEF IInv, OneOwner
  <2>5. QED
    BY <2>1, <2>2, <2>3, <2>4 DEF OneOwner
<1>17. NoneLost'
  <2>1. Carried = Carried' \cup {m}
    <3>1. \A b : b \in Carried <=> b \in Carried' \cup {m}
      BY <1>1, <1>2, <1>12, <1>13 DEF Carried, m
    <3>2. QED
      BY <3>1
  <2>2. QED
    BY <1>1, <1>10, <2>1 DEF IInv, NoneLost
<1>18. QED
  BY <1>1, <1>7, <1>9, <1>14, <1>15, <1>16, <1>17 DEF IInv, Enough

LEMMA FreeIInv ==
  ASSUME IInv, NEW t \in Thread, NEW b \in Block, Free(t, b)
  PROVE  IInv'
<1>1. PoolOf(b) \in Pool /\ IsInRange(PoolOf(b), b)
  BY OnePool
<1>2. PICK k \in Pool : k = PoolOf(b) /\ IsInRange(k, b)
  BY <1>1
<1>3. /\ b \in held /\ at[t] = "out" /\ at' = [at EXCEPT ![t] = "enter"]
      /\ op' = [op EXCEPT ![t] = "Free"] /\ mem' = [mem EXCEPT ![t] = b]
      /\ pool' = [pool EXCEPT ![t] = k] /\ held' = held \ {b}
      /\ given' = [given EXCEPT ![b] = 0]
      /\ UNCHANGED <<freeList, memMutex, size, rest>>
  BY <1>2 DEF Free, Go
<1>4. TypeOK'
  <2>1. /\ at' \in [Thread -> {"out", "enter", "read", "write", "exit"}]
        /\ op' \in [Thread -> {"Alloc", "Free"}]
        /\ mem' \in [Thread -> Block \cup {NULL}] /\ pool' \in [Thread -> Pool]
    BY <1>3 DEF IInv, TypeOK
  <2>2. held' \subseteq Block /\ given' \in [Block -> Int]
    BY <1>3 DEF IInv, TypeOK
  <2>3. QED
    BY <1>3, <2>1, <2>2 DEF IInv, TypeOK
<1>5. /\ at'[t] = "enter" /\ op'[t] = "Free" /\ mem'[t] = b /\ pool'[t] = k
      /\ \A u \in Thread : u # t => /\ at'[u] = at[u] /\ op'[u] = op[u]
                                    /\ mem'[u] = mem[u] /\ pool'[u] = pool[u]
  BY <1>3 DEF IInv, TypeOK
<1>6. Carries(t)' /\ ~Carries(t)
  BY <1>3, <1>5 DEF Carries
<1>7. \A u \in Thread : u # t => (Carries(u)' <=> Carries(u))
  BY <1>5 DEF Carries
<1>8. Mutexes'
  BY <1>3, <1>5 DEF IInv, Mutexes, Inside
<1>9. Calls'
  <2>1. Call(t)'
    BY <1>2, <1>5 DEF Call, IsInRange
  <2>2. ASSUME NEW u \in Thread, u # t PROVE Call(u)'
    BY <1>3, <1>5, <1>7, <2>2 DEF IInv, Calls, Call, IsInRange
  <2>3. QED
    BY <2>1, <2>2 DEF Calls
<1>10. FreeBlocks' = FreeBlocks /\ b \notin FreeBlocks
  BY <1>3 DEF FreeBlocks, IInv, OneOwner
<1>11. \A u \in Thread : Carries(u) => mem[u] # b
  BY <1>3 DEF IInv, OneOwner
<1>12. OneOwner'
  <2>1. \A u \in Thread : (Carries(u) => mem[u] \notin FreeBlocks \cup held)'
    BY <1>3, <1>5, <1>7, <1>10 DEF IInv, OneOwner
  <2>2. \A u, v \in Thread : (Carries(u) /\ Carries(v) /\ mem[u] = mem[v] => u = v)'
    BY <1>5, <1>7, <1>11 DEF IInv, OneOwner
  <2>3. QED
    BY <1>3, <1>10, <2>1, <2>2 DEF IInv, OneOwner
<1>13. NoneLost'
  <2>1. Carried' = Carried \cup {b}
    <3>1. \A c : c \in Carried' <=> c \in Carried \cup {b}
      BY <1>5, <1>6, <1>7 DEF Carried
    <3>2. QED
      BY <3>1
  <2>2. QED
    BY <1>3, <1>10, <2>1 DEF IInv, NoneLost
<1>14. Enough'
  <2>1. \A c \in held' : c \in held /\ given'[c] = given[c]
    BY <1>3 DEF IInv, TypeOK
  <2>2. QED
    BY <2>1 DEF IInv, Enough, GetMemorySize, PoolOf, IsInRange
<1>15. QED
  BY <1>3, <1>4, <1>8, <1>9, <1>12, <1>13, <1>14 DEF IInv, Lists

LEMMA AllocatedIInv ==
  ASSUME IInv, NEW t \in Thread, Allocated(t)
  PROVE  IInv'
<1> DEFINE m == mem[t]
           k == pool[t]
<1>1. /\ at[t] = "exit" /\ op[t] = "Alloc" /\ m # NULL
      /\ at' = [at EXCEPT ![t] = "out"] /\ op' = [op EXCEPT ![t] = "Alloc"]
      /\ pool' = [pool EXCEPT ![t] = 1] /\ size' = [size EXCEPT ![t] = 0]
      /\ mem' = [mem EXCEPT ![t] = NULL]
      /\ memMutex' = [memMutex EXCEPT ![k] = {}]
      /\ held' = held \cup {m} /\ given' = [given EXCEPT ![m] = size[t]]
      /\ UNCHANGED <<freeList, rest>>
  BY DEF Allocated, Exit, Return, Go
<1>2. Carries(t) /\ Inside(t)
  BY <1>1 DEF Carries, Inside
<1>3. /\ m \in Block /\ k \in Pool /\ IsInRange(k, m) /\ 1 \in Pool
      /\ size[t] <= BlockSize[k]
  <2>1. k \in Pool /\ 1 \in Pool
    BY PoolAssumption DEF IInv, TypeOK, Pool
  <2>2. Call(t)
    BY DEF IInv, Calls
  <2>3. m \in Block /\ IsInRange(k, m)
    BY <1>2, <2>2 DEF Call
  <2>4. size[t] <= BlockSize[k]
    BY <1>1, <2>2 DEF Call
  <2>5. QED
    BY <2>1, <2>3, <2>4
<1>4. TypeOK'
  <2>1. /\ at' \in [Thread -> {"out", "enter", "read", "write", "exit"}]
        /\ op' \in [Thread -> {"Alloc", "Free"}] /\ pool' \in [Thread -> Pool]
        /\ size' \in [Thread -> Int] /\ mem' \in [Thread -> Block \cup {NULL}]
    BY <1>1, <1>3 DEF IInv, TypeOK
  <2>2. memMutex' \in [Pool -> SUBSET Thread]
    BY <1>1 DEF IInv, TypeOK
  <2>3. held' \subseteq Block /\ given' \in [Block -> Int]
    BY <1>1, <1>3 DEF IInv, TypeOK
  <2>4. QED
    BY <1>1, <2>1, <2>2, <2>3 DEF IInv, TypeOK
<1>5. /\ at'[t] = "out" /\ op'[t] = "Alloc"
      /\ \A u \in Thread : u # t => /\ at'[u] = at[u] /\ op'[u] = op[u] /\ mem'[u] = mem[u]
                                    /\ pool'[u] = pool[u] /\ size'[u] = size[u]
  BY <1>1 DEF IInv, TypeOK
<1>6. ~Carries(t)'
  BY <1>5 DEF Carries
<1>7. \A u \in Thread : u # t => (Carries(u)' <=> Carries(u)) /\ (Carries(u) => mem[u] # m)
  BY <1>2, <1>5 DEF Carries, IInv, OneOwner
<1>8. Mutexes'
  <2>1. SUFFICES ASSUME NEW u \in Thread, Inside(u)' PROVE memMutex'[pool'[u]] = {u}
    BY DEF Mutexes
  <2>2. u # t /\ Inside(u)
    BY <1>5, <2>1 DEF Inside
  <2>3. pool[u] # k
    BY <1>2, <2>2, Alone DEF IInv
  <2>4. QED
    BY <1>1, <1>5, <2>2, <2>3 DEF IInv, Mutexes, TypeOK
<1>9. Calls'
  <2>1. Call(t)'
    BY <1>5, <1>6 DEF Call
  <2>2. ASSUME NEW u \in Thread, u # t PROVE Call(u)'
    BY <1>1, <1>5, <1>7, <2>2 DEF IInv, Calls, Call, IsInRange
  <2>3. QED
    BY <2>1, <2>2 DEF Calls
<1>10. FreeBlocks' = FreeBlocks /\ m \notin FreeBlocks /\ m \notin held
  BY <1>1, <1>2 DEF FreeBlocks, IInv, OneOwner
<1> HIDE DEF m, k
<1>11. OneOwner'
  <2>1. \A u \in Thread : (Carries(u) => mem[u] \notin FreeBlocks \cup held)'
    BY <1>1, <1>5, <1>6, <1>7, <1>10 DEF IInv, OneOwner
  <2>2. \A u, v \in Thread : (Carries(u) /\ Carries(v) /\ mem[u] = mem[v] => u = v)'
    BY <1>5, <1>6, <1>7 DEF IInv, OneOwner
  <2>3. QED
    BY <1>1, <1>10, <2>1, <2>2 DEF IInv, OneOwner
<1>12. NoneLost'
  <2>1. Carried = Carried' \cup {m}
    <3>1. \A b : b \in Carried <=> b \in Carried' \cup {m}
      BY <1>2, <1>5, <1>6, <1>7 DEF Carried, m
    <3>2. QED
      BY <3>1
  <2>2. QED
    BY <1>1, <1>10, <2>1 DEF IInv, NoneLost
<1>13. Enough'
  <2>1. \A b \in held' : GetMemorySize(b)' = GetMemorySize(b)
    BY DEF GetMemorySize, PoolOf, IsInRange
  <2>2. given'[m] = size[t] /\ \A b \in held : b # m => given'[b] = given[b]
    BY <1>1, <1>3 DEF IInv, TypeOK
  <2>3. size[t] <= GetMemorySize(m)
    BY <1>3, OnePool DEF GetMemorySize
  <2>4. QED
    BY <1>1, <2>1, <2>2, <2>3 DEF IInv, Enough
<1>14. QED
  BY <1>1, <1>4, <1>8, <1>9, <1>11, <1>12, <1>13 DEF IInv, Lists

LEMMA FreedIInv ==
  ASSUME IInv, NEW t \in Thread, Freed(t)
  PROVE  IInv'
<1> DEFINE k == pool[t]
<1>1. /\ at[t] = "exit" /\ op[t] = "Free"
      /\ at' = [at EXCEPT ![t] = "out"] /\ op' = [op EXCEPT ![t] = "Alloc"]
      /\ pool' = [pool EXCEPT ![t] = 1] /\ size' = [size EXCEPT ![t] = 0]
      /\ mem' = [mem EXCEPT ![t] = NULL]
      /\ memMutex' = [memMutex EXCEPT ![k] = {}]
      /\ UNCHANGED <<freeList, rest, held, given>>
  BY DEF Freed, Exit, Return, Go
<1>2. ~Carries(t) /\ Inside(t) /\ 1 \in Pool
  BY <1>1, PoolAssumption DEF Carries, Inside, Pool
<1>3. TypeOK'
  <2>1. /\ at' \in [Thread -> {"out", "enter", "read", "write", "exit"}]
        /\ op' \in [Thread -> {"Alloc", "Free"}] /\ pool' \in [Thread -> Pool]
        /\ size' \in [Thread -> Int] /\ mem' \in [Thread -> Block \cup {NULL}]
    BY <1>1, <1>2 DEF IInv, TypeOK
  <2>2. memMutex' \in [Pool -> SUBSET Thread]
    BY <1>1 DEF IInv, TypeOK
  <2>3. QED
    BY <1>1, <2>1, <2>2 DEF IInv, TypeOK
<1>4. /\ at'[t] = "out" /\ op'[t] = "Alloc"
      /\ \A u \in Thread : u # t => /\ at'[u] = at[u] /\ op'[u] = op[u] /\ mem'[u] = mem[u]
                                    /\ pool'[u] = pool[u] /\ size'[u] = size[u]
  BY <1>1 DEF IInv, TypeOK
<1>5. \A u \in Thread : (Carries(u)' <=> Carries(u)) /\ (Carries(u) => mem'[u] = mem[u])
  BY <1>2, <1>4 DEF Carries
<1>6. Mutexes'
  <2>1. SUFFICES ASSUME NEW u \in Thread, Inside(u)' PROVE memMutex'[pool'[u]] = {u}
    BY DEF Mutexes
  <2>2. u # t /\ Inside(u)
    BY <1>4, <2>1 DEF Inside
  <2>3. pool[u] # k
    BY <1>2, <2>2, Alone DEF IInv
  <2>4. QED
    BY <1>1, <1>4, <2>2, <2>3 DEF IInv, Mutexes, TypeOK
<1>7. Calls'
  <2>1. Call(t)'
    BY <1>2, <1>4, <1>5 DEF Call
  <2>2. ASSUME NEW u \in Thread, u # t PROVE Call(u)'
    BY <1>1, <1>4, <1>5, <2>2 DEF IInv, Calls, Call, IsInRange
  <2>3. QED
    BY <2>1, <2>2 DEF Calls
<1>8. OneOwner' /\ NoneLost'
  BY <1>1, <1>5, SameOwners DEF IInv
<1>9. QED
  BY <1>1, <1>3, <1>6, <1>7, <1>8 DEF IInv, Lists, Enough

-----------------------------------------------------------------------------
(* Theorems *)

LEMMA StutterIInv ==
  ASSUME IInv, UNCHANGED vars
  PROVE  IInv'
<1>1. UNCHANGED <<freeList, memMutex, at, op, pool, size, mem, rest, held, given>>
  BY DEF vars, callVars
<1>2. TypeOK' /\ Mutexes' /\ Lists' /\ Enough'
  BY <1>1 DEF IInv, TypeOK, Mutexes, Inside, Lists, Enough
<1>3. \A u \in Thread : Carries(u)' <=> Carries(u)
  BY <1>1 DEF Carries
<1>4. Calls'
  BY <1>1, <1>3 DEF IInv, Calls, Call
<1>5. OneOwner' /\ NoneLost'
  BY <1>1, <1>3, SameOwners DEF IInv
<1>6. QED
  BY <1>2, <1>4, <1>5 DEF IInv

LEMMA StepIInv == IInv /\ [Next]_vars => IInv'
<1> SUFFICES ASSUME IInv, [Next]_vars PROVE IInv'
  OBVIOUS
<1>1. CASE UNCHANGED vars
  BY <1>1, StutterIInv
<1>2. CASE Next
  <2>1. PICK t \in Thread : Step(t)
    BY <1>2 DEF Next
  <2>2. CASE \E n \in Size : Alloc(t, n)
    BY <2>2, AllocIInv
  <2>3. CASE \E b \in Block : Free(t, b)
    BY <2>3, FreeIInv
  <2>4. CASE Enter(t)
    BY <2>4, EnterIInv
  <2>5. CASE ReadFirst(t)
    BY <2>5, ReadFirstIInv
  <2>6. CASE LinkFirst(t)
    BY <2>6, LinkFirstIInv
  <2>7. CASE Write(t)
    <3>1. op[t] = "Alloc" \/ op[t] = "Free"
      BY DEF IInv, TypeOK
    <3>2. QED
      BY <2>7, <3>1, WriteAllocIInv, WriteFreeIInv
  <2>8. CASE TryNext(t)
    BY <2>8, TryNextIInv
  <2>9. CASE Allocated(t)
    BY <2>9, AllocatedIInv
  <2>10. CASE Freed(t)
    BY <2>10, FreedIInv
  <2>11. QED
    BY <2>1, <2>2, <2>3, <2>4, <2>5, <2>6, <2>7, <2>8, <2>9, <2>10 DEF Step
<1>3. QED
  BY <1>1, <1>2

LEMMA Invariant == Spec => []IInv
BY InitIInv, StepIInv, PTL DEF Spec

\* The lists, the mutexes and the calls keep their types.
THEOREM TypeCorrect == Spec => []TypeOK
<1>1. IInv => TypeOK
  BY DEF IInv
<1>2. QED
  BY <1>1, Invariant, PTL

\* No block is lost, none has two owners and each has room for what was asked,
\* whichever threads allocate and free at whichever pools (PoolManager::Alloc
\* and Free over FixedAllocator's locked lists).
THEOREM BlocksCorrect == Spec => []BlocksSound
<1>1. IInv => BlocksAccounted
  BY DEF IInv, BlocksAccounted
<1>2. IInv => BigEnough
  BY DEF IInv, Lists, Enough, BigEnough
<1>3. IInv => BlocksSound
  BY <1>1, <1>2 DEF BlocksSound
<1>4. QED
  BY <1>3, Invariant, PTL
=============================================================================
