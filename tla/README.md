# Verification of the Truth or Square decompilation

The repository decompiles a Wii game: its engine (`src/src/SB/NG`), its game
code (`src/src/SB/GM`) and the parts of the Revolution SDK linked into the image
(`src/src/Revolution`). This directory holds TLA+ models of the concurrent and
protocol-bearing parts of that program, the TLC configurations that check them
on small instances, and TLAPS proofs of what matters most for every instance.

- Parse a module with `tlasany M.tla`, check a run with
  `tlc -config X.cfg M`, and check the proofs of a module with `tlapm M.tla`.
- `PROJECT.json` lists the components, the runs, for each property a mutation
  of the model that breaks it, the lines of code each definition stands for,
  the hazards, and the theorems.

Contents: 1 Inventory; 2 Modules and how they correspond to the code; 3 Runs,
bounds and what they show; 4 Fairness; 5 Proofs; 6 Disagreement between code and
comment; 7 What the code does that a caller should know; 8 Not modelled;
9 Plan.

Paths below are relative to `src/src/`.

## 1 Inventory

The machine has one processor. Threads are preemptive, by priority; interrupt
handlers (the decrementer, the message unit that talks to the I/O processor
"IOS", the drives) run between any two instructions with interrupts enabled.
Above the SDK, the engine runs a main thread, worker threads and loaders. Most
hard behaviour of the program comes from that: what may happen between two
instructions of a thread, and list surgery done by hand under disabled
interrupts.

### Thread kernel: `Revolution/src/os/OSThread.c`, `OSMutex.c`

- State: a run queue per priority and the bit mask of those not empty; the
  current thread; `RunQueueHint`; per thread its state, suspend count, base and
  effective priority, the queue it is on, the mutex it waits for, the mutexes it
  holds and its join queue; per mutex its owner, count and wait queue.
- Operations: create, resume, suspend, set priority, yield, sleep, wake up,
  sleep for ticks, exit, cancel, join, detach; lock, try, unlock, and the
  unlocking of everything a dead thread holds.
- Interactions: every blocking call of the program ends here. OSMessage, the
  condition variables, OSAlarm (`OSSleepTicks`) and the IPC client sleep and wake
  through it.
- Hard: priority inheritance through chains of owners while owners and waiters
  are suspended, cancelled or change priority; calls that are switched away in
  the middle and go on later; threads that die holding mutexes.
- Correct: each thread is on the queue its state says, wait queues stay in
  order, the best ready thread runs, priorities are neither lost nor kept, no
  one waits for a free mutex or a dead thread, the dead stay dead.

### Message queues: `Revolution/src/os/OSMessage.c`

- State: a ring (array, first index, used count) and two wait queues.
- Operations: send, jam, receive, each blocking or not.
- Hard: a woken thread may find the queue full or empty again; jam steps the
  first index back through zero.
- Correct: it is a bounded double-ended queue, and nobody sleeps while its call
  could complete.

### Sync event: `SB/NG/Engine/WAD02_15_1.cpp`, `System::SyncEvent`

- State: a flag, a mutex and a condition variable.
- Operations: `Wait`, `Signal`.
- Hard: a thread that enters `Wait` takes the signal between the wake-up of a
  sleeper and its return.
- Correct: an auto-reset event: a signal lets one waiter through and is not
  slept through.

### Core job processor: `SB/NG/Engine/WAD02_15_1.cpp`, `System::CoreJobProcessor`

- State: worker slots; levels of job queue refs with frequency and turns left;
  per ref the queue, the pending jobs with their numbers, the complete number
  and the list of fences; `done`; `addJobEvent`, a stop event per slot.
- Operations: `Start`, `Stop`, `Run`, `ProcessNextJob`, `SignalExeComplete`,
  the callbacks of jobs that are not executed (fences, barriers).
- Interactions: clients push jobs and signal; workers sleep on the sync event;
  `Stop` waits for all workers.
- Hard: signals merge, so a worker must pass them on; jobs of a queue finish out
  of order; fences wait for numbers; `Stop` races with everything.
- Correct: fences pass after the jobs before them and do pass, reported numbers
  are complete, no job and no stop is lost, after `Stop` nothing runs.

### Alarms: `Revolution/src/os/OSAlarm.c`

- State: a doubly linked queue sorted by end time; per alarm its handler, end,
  start and period; the decrementer.
- Operations: set, set periodic, cancel, the decrementer exception, the pass of
  the final `OnReset` over the queue.
- Hard: the exception may be taken after its alarm was cancelled; the delay may
  be longer than the decrementer reaches; handlers set and cancel alarms.
- Correct: the links agree, the timer never oversleeps, alarms fire in order,
  never early and never after they were cancelled.

### Memory pools: `SB/NG/Source/Engine/Memory/PoolManager.cpp`, `FixedAllocator.cpp`

- State: pools sorted by block size, each a buffer, a free list and a mutex.
- Operations: `Create`, `Alloc`, `Free`, `GetMemorySize`.
- Hard: the free list is read and written in two steps; a small request served
  by a larger pool must go back to that pool, and only the address tells.
- Correct: every block has one owner, none is lost, each is large enough.

### IPC client: `Revolution/src/ipc/ipcclt.c`

- State: the ring of waiting requests, the message register, the counter
  `__mailboxAck`, the relaunch flag and request, the request heap.
- Operations: the seven calls, blocking or with a callback; the interrupt
  handler for replies and acknowledgements; relaunching IOS.
- Hard: acknowledgement and reply come in any order; a launch is acknowledged
  twice or fails; a call sends the oldest request, not its own; requests are
  freed by whoever ends them.
- Correct: a message is never overwritten, requests go out in order, nobody is
  left waiting with the register free, each request has one place, calls return.

### IPC heap: `Revolution/src/ipc/memory.c`

- State: headers in the memory itself; a list of free chunks.
- Operations: create, allocate with alignment (best fit), free with coalescing.
- Hard: chunks are cut at both ends and joined at both ends by hand; aligned
  blocks have a second header that leads back to the first.
- Correct: chunks tile the heap, the list is exactly the free ones, no two free
  ones touch, blocks are apart and find their way back.

### Shutdown control: `SB/NG/Source/Engine/TRC/PowerControl.cpp`, `Revolution/src/os/OSStateTM.c`

- State: four volatile flags, shutdown and three destinations; the reset and
  power callbacks; the request IOS answers when a button is pressed; the game's
  veto.
- Operations: the reset and power callbacks (in the interrupt), the callbacks
  for the Wii menu and the data manager (main thread, from the error box), and
  `ProcessShutdown`, polled once a frame.
- Hard: the main thread tests and stores the flags one by one while the
  interrupts test and store the same flags.
- Correct: one destination at a time, none nobody asked for, the hook renewed,
  the destination frozen from the first question to the veto on, the shutdown
  carried out when no veto holds.

### Disc driver: `Revolution/src/dvd`

- State: four circular waiting queues, one per priority; the executing command;
  the cancellation under way and its callback; where the next command resumes;
  the motor, the watch of the cover, three alarms; the retry count and the last
  error; a ring of contexts for requests to IOS.
- Operations: issue a read, cancel one, close a file (`DVDCancel`), prepare a
  reset; the answers of IOS to each request, the cover, reset and fatal alarms,
  the steps of the error log in the NAND.
- Interactions: OSInit issues the inquiry, file systems read, `OSReset.c`
  prepares the reset; callbacks issue further commands; IOS, the NAND and the
  alarms call back.
- Hard: every stage of a command may end in an error, a time out, a moved cover
  or a cancellation, and each leaves the driver to resume elsewhere; cancelling
  races with the answer that is on its way.
  `dvd.c` does not look at the result of a request, and IOS may refuse one.
- Correct: a command is in one place, one thing drives it, it is served in
  order and called back once, and the command under way when the drive was reset
  reads nothing before the disc was checked. (The one after a cancellation may,
  section 7.)

### Play record and exit: `OSPlayRecord.c`, `OSReset.c`

- State: the stage of the record, flags for retry, error and termination, one
  command block, one alarm, one file.
- Operations: start, the callback of every request and alarm, and the stop by
  the thread that leaves for the menu or to sleep.
- Hard: the stop meets the chain anywhere, waits at most 500 ms for it, and
  must decide from the flags whether the file is open.
- Correct: one request or alarm at a time, the thread uses the file only when
  nothing is pending, and the exit is reached even if a request of the chain it
  stops is never answered. The calls with which the thread itself writes and
  closes the file do wait for the NAND.

### Left aside

Pad manager, containers, blobloids and entity handles, physical heaps,
domains, behaviour trees, game code, user interface and files, remote
controllers, and vendored or generated code; section 8 says why.

## 2 Modules and how they correspond to the code

A module names its variables and actions as the code names its state and
functions where TLA+ allows it; `map` in `PROJECT.json` gives the lines of each
definition. A definition whose comment says "Mutant of" belongs to no
specification: it is a plausible bug, kept to show that a property catches it.

| Module | Role |
| --- | --- |
| `OSThreadOps`, `OSThread` | the thread kernel |
| `OSMessage` implements `MessageDeque` | message queues |
| `SyncEvent` implements `AutoResetEvent` | the sync event |
| `JobProcessor` | the job processor |
| `JobTurns` adds a history to `JobProcessor` | how the refs of a level take turns |
| `OSAlarm` implements `AlarmClock` | alarms |
| `MemoryPools` | pools and fixed allocators |
| `IPCClient` implements `IPCMailbox` | the IPC client |
| `IPCHeap` | the heap of the IPC client |
| `DVDDriver` uses `DVDQueue`, implements `DVDService` | the disc driver |
| `ShutdownControl` | the shutdown control |
| `PlayRecord` | the play record |
| `ConsoleExit` composes `ShutdownControl` and `PlayRecord` | the way out |
| `MC...` | instances for TLC |
| `...Proofs` | theorems |

The modules stack up. `JobProcessor` does not repeat the mutex and condition of
its event: its `addJobEvent` is a flag that is raised, waited for and lowered as in
`AutoResetEvent`, which `ImplementsEvent` shows `SyncEvent` to be. `OSMessage`
leaves open in which order woken threads run, which `OSThread` decides.
`IPCClient` draws requests from a set of blocks, which `IPCHeap` hands out.

### OSThreadOps, OSThread

`OSThreadOps` writes the functions that run with interrupts disabled as
operators on one record `k`, the kernel state: `k.list` has the queues as
sequences, `k.queue` each thread's pointer to its queue, `k.bits` the mask of
non-empty run queues, `k.hint` the `RunQueueHint`. `SetRun`, `UnsetRun`,
`UpdatePriority` (the walk along the chain of owners), `Suspend`, `Wakeup`,
`SelectThread` and the mutex functions are one operator each.

In `OSThread` each kernel call is a step up to the point where `SelectThread`
switches to another thread. The rest of the call is kept in `cont` and runs when
its caller is selected again: `<<"lock", m>>` is the loop of `OSLockMutex`,
`<<"join", t>>` and `<<"unlockAll", t>>` those of `OSJoinThread` and
`__OSUnlockAllMutex`, `<<"alarm">>` the end of `OSSleepTicks`. Interrupts hit a
thread in its own code or the idle loop: an alarm resumes its sleeper, a device
wakes a queue. Contexts, stacks, thread-specific slots and the switch callback
are left out; the scheduler's disable count appears as the bracket of an
interrupt handler.

The walk of `UpdatePriority` and `__OSPromoteThread` is a recursive function with
more turns than there are threads and priorities together: the priorities given
on the way only go down, so no thread is given the same one twice, and the
walk has ended by then even when threads wait in a circle. Two calls the model
does not make, as the code goes wrong on them (section 7): `CancelThread` of a
thread that waits in a circle (`WaitsInNoCircle`), and `CreateThread` over an
object that a canceller still has to finish with.

### OSMessage, MessageDeque

A turn of a call's loop is a step. `Contents` reads the ring from the first
index; it is the refinement mapping to the deque of `MessageDeque`, where a call
completes, is refused or is left pending in one step.

### SyncEvent, AutoResetEvent

Each thread steps through `Wait` or `Signal` at the grain of the mutex and the
condition. `OSCond` is not among the sources; it is modelled by what the code
relies on: `OSWaitCond` gives up the mutex and sleeps in one step and takes the
mutex again before it returns, `OSSignalCond` wakes at least one sleeper.

### JobProcessor

What runs between `jobAccessCS.Enter` and `Exit` is one step: the search for the
next ref (`NextQueue`, with the turns left, the index and the passing over of
refs of negative frequency), taking its job, the numbers, and the completion
with the fences that pass. `Start` and `Stop` go slot by slot, one store or wait
at a time, without the lock, as the code does. External, from how the processor
uses them: the client that pushes a job and then signals, the `processCB` of
fences and barriers, and the start of a thread, which signals its stop event when
`Run` returns. Assumptions: a ref starts with its frequency as turns left; a
client adds only jobs that are in no queue; job numbers do not wrap
(`MaxNumber`, per ref). The static count `waiters`, which nothing reads, is left out.

`JobTurns` adds to each step how often the other refs of its level were taken
while a ref had a job ready. `overtaken` is not in the code; it is what
`NoneStarved` bounds.

### OSAlarm, AlarmClock

The queue keeps its `next` and `prev` links, as the surgery on them is what may
go wrong. Every call and the exception run with interrupts off, at one reading of
the time base, so each is one step; the handler runs between the exception and
`HandlerReturns`, and any of the calls may come from it. The decrementer is
hardware: an exception once raised stays pending until it is taken, whatever is
written meanwhile. The final `OnReset` runs with interrupts disabled
(`OSReset.c:108`), and cancels all alarms but the DVD driver's in one step. An
alarm is set only when it is not in the queue, which is the precondition of the
call.

### MemoryPools

A thread enters a pool's mutex, reads the head of the free list and its link,
writes the head, and leaves, each a step, in `Alloc` and in `Free`; a request
that finds a pool empty goes on to the next. The mutex and the placing of the
buffers are external. Clients free only what they hold. `Destroy`, which runs when
nothing uses the pools, and requests of no size or of more than the largest block,
which return 0, are left out.

### IPCClient, IPCMailbox

A section with interrupts disabled, the handler of a reply and that of an
acknowledgement are one step each; a call has two, `MakeRequest` (allocate and
fill) and `Submit` (queue, send, sleep). IOS is external: it acknowledges a
message before it answers it and answers in any order; when it is launched
anew the requests it had are lost, and the new IOS acknowledges once after the
first acknowledgement was taken. A callback makes at most one more request, never
one that sleeps. The arguments of the seven calls, address translation, caches
and the write-only profile are left out; the counters do not wrap
(`MaxRequests`).

### IPCHeap

Units of a header, 16 bytes. `chunk` holds the headers at their addresses; a
header is dropped as soon as it lies inside a free chunk or its block is given
back, so that a dangling link would show. One heap, positive sizes,
power-of-two alignments, and callers that give back only what they were given.

### ShutdownControl

The flags are volatile, so the main thread's stores (`CallbackStore`) are a step
each, and so are the check before them, the poll, the question to the veto
and the dispatch. The reset and power callbacks run from the IPC interrupt with
interrupts disabled and are one step, with the renewal of the event hook, which
IOS may refuse. Video reconfiguration and the NAND07 handler are left out.

### DVDQueue, DVDService, DVDDriver

`DVDQueue` writes the functions of `dvdqueue.c` on the links themselves:
`next` and `prev` of the blocks and of the four heads. What a function leaves in
the links of a block it took out is kept, as a second removal would follow it.

Everything in `dvd.c` runs with interrupts disabled, in chains of functions that
call one another. `DVDDriver` has an operator for each function, on a record `d`
of the driver's variables, and a step for each entry: a call of a thread, an
answer of IOS, an alarm, an answer of the NAND. `StateReady`, `StateBusy`,
`CheckCancel`, `CategorizeError` and so on are the functions of these names;
`fifo` is the list of requests under way with their callbacks, which IOS answers
in order. The callback of a command may issue it again (`again`); that of a
synchronous read wakes the threads asleep in the driver.

Abstractions, each of states the driver cannot tell apart: `"ended"` is IDLE and
CANCELED; `"TIME"` stands for a security error as well, as both lead to the
fatal error; the retry count goes on but only its first two values are compared,
so it stays at 2, and the code of an error is kept after the first only; what is
left of a transfer is reset when the command is over. Buffers are aligned as the
`DVDLow...` calls want them. The commands are those
this program issues: the inquiry and reads of at least one byte. A callback of an
answer that calls none is not given the choice to issue (`CancelReissue`).
Callers do not issue a block they wait for nor read from a file that is being
closed. IOS, the NAND and the drive are external: any answer the driver can tell
apart.

IOS refuses a request when the queue or the heap of the IPC client is full. Each
`DVDLow...` call then frees its context and returns FALSE, which `dvd.c` ignores.
`MayRefuse` says so of every step that makes a request for its command: `refused`
goes up and stays, and the request, kept as the last of `fifo`, is never answered. A
look at the cover that is refused leaves `preparing` at `"refused"`, as the code
leaves its flag up, and the alarm looks no more.

`DVDService` is the promise: commands in queues, the best served first, in order
of arrival, each called back once, possibly issued again by its callback before
the next one starts. The refinement maps `Chain` of the links to the queues; it
ends when a reset is prepared or a fatal error is being logged.

### PlayRecord, ConsoleExit

`PlayRecordCallback` is one step, run by an answer of the NAND or by the alarm.
Its first half (`Advance`) finds the next state, its second (`Ask`) makes the
request, which may be accepted, refused, or not be taken as the NAND is busy.
`__OSStopPlayRecord` disables interrupts in its first part only, so the rest is
stepped: the test of `PlayRecordTerminated`, the test of the time, the decision,
the write and the close. `open`, `closeFailed` and `overlap` are not in the code;
they record what happens to the file so that properties can speak of it.

`ConsoleExit` adds the one thing that connects the two: `OSReturnToMenu` and
`OSShutdownSystem`, which `ShutdownControl` ends in, stop the record; the latter
waits before that while the system configuration is busy (`scBusy`), which begins
and ends its jobs at any time. The order to leave can come at any point of the
record's chain. `NANDWrite` and `NANDClose` return when the NAND answers
(`Record!Returns`).

## 3 Runs, bounds and what they show

Every property of a passing run has a mutant in `PROJECT.json` that breaks it
under the same configuration.

| Run | Distinct states | Checks |
| --- | --- | --- |
| `shutdown` | 150 792 | `AtMostOneDestination`, `OutcomeWasAsked`, `PowerButtonArmed`, `OneAtATime`, `StopsCleanly`, `DestinationFrozen`, `ShutdownCarriedOut`, `ExitIsReached` |
| `shutdown_refuse` | 288 | violation of `RefusesWhenInProgress` |
| `thread_mutex` | 243 564 | `QueuesSound`, `BestThreadRuns`, `PriorityIsInherited` |
| `thread_life` | 1 313 549 | `NoWaiterOnFreeMutex`, `NoJoinerLeftBehind`, `DeadStaysDead` |
| `message_queue` | 1 235 584 | `NoMissedWakeup`, `ImplementsDeque` |
| `sync_event` | 4 751 | `NoMissedSignal`, `ImplementsEvent` |
| `jobs` | 764 075 | `FenceAfterJobs`, `NumbersSound`, `NothingLost`, `StopMeansQuiet`, `NoneStarved`, `TopJobTaken`, `StopReturns`, `FencePasses` |
| `alarms` | 131 040 | `QueueIntact`, `TimerArmed`, `ImplementsClock`, `AlarmFires` |
| `memory_pools` | 980 770 | `BlocksSound` |
| `ipc_client` | 213 007 | `RequestsKept`, `ImplementsMailbox`, `CallReturns` |
| `ipc_heap` | 2 305 | `HeapSound` |
| `dvd` | 781 086 | `QueueIntact`, `DrivenOnce`, `ReadOnKnownDisc`, `ImplementsService`, `CancelsEnd` |

Some of these are conjunctions of named parts: `QueuesSound` of
`QueuesMatchStates` and `SleepersInOrder`, `NumbersSound` of `PendingExact` and
`CompleteNumberSound`, `NothingLost` of `NoLostJob` and `NoLostStop`,
`BlocksSound` of `BlocksAccounted` and `BigEnough`, `RequestsKept` of `OnePlace`
and `NothingStuck`, `HeapSound` of `HeapIntact` and `BlocksApart`.

The type invariants are proved of every module, and listed in no run.

**thread_mutex.** Three threads with bases 0, 1 and 2, and two mutexes: the least
with which a chain thread → mutex → owner → mutex → owner exists, so a change at
its end has to be carried over two links, and the middle of the chain can be
suspended or change its own base. `MaxSuspend` and `MaxLock` are 1: a second
suspension or lock only counts, without further effect on queues. Exits are left
to the next run. Deadlock is off, since threads that take two mutexes in opposite
orders do stop; the kernel does not promise otherwise.

**thread_life.** Creation, exit, cancellation, join, detach, sleeping and alarms
with one mutex that may be held at death. Priority inheritance needs two mutexes
to be interesting and is left to `thread_mutex`.

**message_queue.** Capacity 3 so that an interior position exists; three threads
so that a third comes between a wake-up and the turn of the woken; two
messages to tell order. Deadlock is off: all threads may wait for a message.

**sync_event.** Four threads: two sleepers, one that overtakes, one that signals.

**jobs.** Two workers are the least with which jobs finish out of order and a
signal has to be passed on. Two refs share a level: the first has two turns in a
row and three jobs, so that its turns are used up while the other, which has one
turn and one job, waits or not; the index goes around, and a ref is passed over
empty and filled again. The three numbers of the first ref are also two jobs around
a fence, in every order, so that a job can overtake the fence and the one that
finishes first is not the one it waits for. `MaxNumber` bounds only how many jobs
are added. That a higher level comes first is in `NextQueue` and needs no
interleaving; it has no instance.

**alarms.** Three alarms make a middle of the list. Delays of 0 and 3 against a
decrementer that reaches 2 (`DecMax`) give alarms that are due at once and alarms
for which the timer has to be set twice; time is bounded by `MaxTime` and the
period is 1. The VIEW `Live` ignores the
fields of alarms that are not in the queue: they are written before they are
read, by both setting calls. Deadlock is off: time is bounded, and the
final shutdown stops all.

**memory_pools.** Pools of two, two and one block of 4, 16 and 32 bytes;
requests of 5 and of 16 bytes start at the second pool and fall through to the
third, those of -1 bytes, which the code lets pass, start at the smallest. Three
threads are interchangeable (symmetry).

**ipc_client.** A ring of 2 that fills, three requests, two threads and callbacks
that ask again; four requests in all, so the ring wraps twice. Deadlock is off:
requests are bounded, and those an IOS had when it was replaced sleep for ever.

**ipc_heap.** 22 headers hold several blocks side by side, aligned and not, with
free chunks before, between and behind them. What a call does depends on a chunk
and its two neighbours only, so a larger heap adds no new case.

**shutdown.** The whole of `ConsoleExit`. `MaxFailures` bounds refused
registrations; one shows both outcomes of every registration. The play record
needs no bound. `DestinationFrozen` compares the flags of all later frames with
those of the first question to the veto, for each value they can have.
`ExitIsReached` is claimed when `WaitsEnd` holds: SC is idle in the end, and the
`NANDWrite` and `NANDClose` of the stop return. A request of the chain that is
stopped may never be answered. Deadlock is off: the console ends off.

**dvd.** One thread that closes files, the inquiry and two reads: `b1` is
synchronous and takes two transfers, so it can be cancelled between them; `a1` has
a callback that may issue it again. Two priorities show that one is served before
the other; four contexts are the code's (`DVD_LOW_CTX_MAX`),
and `DrivenOnce` says that the driver never spins for one. It says further that
exactly one thing will call the driver back for the command under way, and none
only after IOS refused a request of that command: then the driver hangs, which
`CancelsEnd` excepts. IOS may refuse any request of the run. `SlowsDown` takes the
longer chain of checks after a reset. `LateCalls` is FALSE: no thread calls a driver that shows
the fatal error or has been reset. Deadlock is off: a driver may be idle for ever, and it stops
for good at a fatal error.

## 4 Fairness

Safety runs use `Spec`, liveness runs `FairSpec` or `ExitSpec`:

- `shutdown`: weak fairness of the main thread, which runs its frame loop for
  ever and then the stop of the play record; strong fairness of the time out in
  that stop, as its loop reads a clock that goes past 500 ms. The buttons, SC, the
  NAND, its answers to the calls the thread waits for among them, and the alarms
  promise nothing.
- `jobs`: weak fairness of each worker's steps (a job that runs ends, and a
  thread that may go on is scheduled), of a client's signal after its push (the
  two are consecutive statements), and of the loops of `Start` and `Stop`. No
  fairness of `AddJob`, of the call of `Start` or of `Stop`.
- `alarms`: weak fairness of the clock, of the exception once it is pending, and
  of the handler's return.
- `ipc_client`: weak fairness of both handlers (an interrupt is taken once its
  bit is set), of IOS taking a message, and of each thread's own steps; strong
  fairness of the answer to each request, since IOS works on several and has one
  reply register. A launch need not happen.

- `dvd`: weak fairness of IOS answering its oldest request, if it took it, of the
  NAND and the alarms of the reset and the fatal error, and of the loop of
  `__DVDPrepareReset`. Callers, the cover, the alarm that looks at it, the kind of
  each answer and whether a request is taken promise nothing; `CancelsEnd`
  therefore ends at the fatal error and at a refused request too.

## 5 Proofs

Each theorem holds for every value of the constants that satisfies the module's
named assumption; the assumptions say only what the code's configuration
guarantees (a capacity is not 0, pools are sorted and their buffers disjoint,
refs have distinct places in their level).

| Module | Theorems |
| --- | --- |
| `OSThreadProofs` | `TypeCorrect`, `QueuesStaySound`, `BestThreadAlwaysRuns`, `PriorityStaysInherited`, `FreeMutexHasNoWaiter`, `NoJoinerStaysBehind`, `TheDeadStayDead` |
| `SyncProofs` | of the message queues `TypeCorrect`, `WakeupsReach`, `Refinement`; of the sync event `NoSignalIsMissed`, `EventRefinement` |
| `JobProcessorProofs` | `TypeCorrect`, `FencesInOrder`, `NumbersCorrect`, `CompleteNumberMonotone`, `NothingIsLost`, `QuietAfterStop` |
| `OSAlarmProofs` | `TypeCorrect`, `QueueStaysIntact`, `NoneOverslept`, `IsAlarmClock` |
| `MemoryPoolsProofs` | `TypeCorrect`, `BlocksCorrect` |
| `ConsoleExitProofs` | `TypeCorrect`, `OneDestination`, `AskedFor`, `PowerButtonWorks`, `Frozen`, `RecordSound`, `DoesOneThing`, `IsStopped` |
| `IPCProofs` | of the IPC client `TypeCorrect`, `Kept`, `Refinement`; of its heap `HeapTypeCorrect`, `HeapStaysSound` |
| `DVDProofs` | of the disc driver's queues `ClearPairs`, `PushPairs`, `PopPairs`, `TopPairs`, `DequeuePairs`; of the driver `TypeCorrect`, `DrivenByOne`, `NoBlindRead`, `QueuesStayIntact` |

**Shutdown.** `AtMostOneDestination` is not inductive: an interrupt may raise a
destination between the check and the stores of the main thread, and those clear
it one by one. `StoresInv` says what the stores have done at each point (the
first raises shutdown, which locks the interrupts out), `AskedInv` that every
flag up was asked for, `FlagsInv` how the flags relate. `Frozen` follows from these
for every later state and not for one step only: from the first question to the
veto on the shutdown flag is up and the main thread between no check and its
stores, so every callback returns at its test. The theorems are stated
of `ExitSpec`, the shutdown control with the play record below it, so they hold
while the exit waits for the file to be closed.

**Thread kernel.** None of the four invariants is inductive. `Inv` holds between
two calls: `Good` of the kernel state, the best thread running (`Settled`), and
what the threads inside a call rely on (`InCalls`: one that has a mutex in mind
waits to lock it and does not own it; the thread whose end a canceller still runs
is dead). `Good` is made of

- `Sound`, the two halves of `QueuesSound` with what the fields of a thread say of
  each other (a ready thread's queue pointer is the queue of its priority, which
  `UnsetRun` trusts when it clears the bit);
- `Chained`: who sleeps with a mutex in mind is on the queue of that mutex and does
  not own it, an owner has the mutex on its list, a suspended sleeper is behind all
  others;
- `Heirs`: `PriorityIsInherited`, written with the set of pairs (waiter, owner)
  instead of the heads of queues;
- `Claimed` and `Locks`: the mutex of a sleeper has an owner, and a mutex has an
  owner exactly when it is locked.

In the middle of a call some thread is on no queue; the parts are therefore
stated for all threads but those of a set `off`. The heart is the walk along the
owners. `OnWay` is its invariant: every thread has its due but the one the walk is
at, and the priorities given so far have all been different (`Trail`), so the
walk comes to an end before its turns are used up and leaves `Heirs` for everyone
(`Arrived`); this covers owners that wait for each other in a circle. Each call
is then a composition of lemmas about the operators of the model, and each action
has a lemma of its own (`YieldStep` to `DeviceStep`). `Births` says that a step
brings a thread to life only in `CreateThread`, and `JoinsEnd`, beside it in the
lemma of each action, what `NoJoinerLeftBehind` says of the sleepers instead of the
queue: a thread begins to wait for another only in `JoinThread`, and not for one that
is `MORIBUND` (`NoneJoins` for all other calls), and a death wakes all that wait (`Deserted`) unless
unlocking the mutexes came first. `JoinersQueued` carries that back to the queue.

**Message queue.** `NoMissedWakeup` with the typing and the fact that a sleeper
has a call pending is inductive. The refinement rests on lemmas about the ring:
slots less than a capacity apart differ, the first index steps forward and
back modulo the capacity, and therefore a deposit is `Append` or a cons, and a
withdrawal is `Tail`, on `Contents`.

**Sync event.** `LockInv`: who is inside holds the mutex, and who saw the flag up
is the only one that lowers it. With it `NoMissedSignal` is inductive, and each
step is a step of the auto-reset event (`Set` raises, `Clear` is the return
of a wait) or a stutter.

**Job processor, jobs.** `Inv` adds to the typing: the pending list of a ref is
what runs (`PendingInv`), a job is in one place (`JobsInv`), all open numbers
lie above the complete number (`NumberInv`), and the fences of a ref are in
order, each waiting for a running job with a number it covers (`FenceInv`). A
list that loses an entry by moving the last one into its place keeps its
elements otherwise, which is `UnpendElements`.

**Job processor, threads.** `ThreadInv` follows the loops of `Start` and `Stop`
(`SlotsInv`: which workers are gone) and adds `NoLostStop` and `NoLostJob`
themselves. They are inductive because a worker passes the signal on before it
leaves or starts its job.

**Alarms.** `QueueIntact` compares the links with what walks along them meet, and
is not written so that a step can be shown to keep it. `InOrder` is: some sequence
holds the set alarms, each once, sorted by their ends, and every link leads to the
next place of it or back to the one before. An insertion puts an alarm at a place
of that sequence, a cancellation or the pop of the exception takes one out, and
the last pass of the shutdown takes out some. That the walk of `InsertAlarm` stops
at the right place is shown by the least place at which it would go wrong. With
`InOrder` the first alarm has the first end, which is what `TimerArmed` and the
refinement of `AlarmClock` need.

**Memory pools.** The two-step accesses make `OneOwner` far from inductive: a
thread that is inside carries a block that is in no list. `Mutexes` says who is
inside holds the mutex, `Lists` that a free list has only blocks of its pool,
and `Calls` what a thread carries at each place and that the list has not changed
since it read it.

**Play record.** `OneAtATime` alone is not inductive: it has to be known which
states have a request pending, which an alarm, and which neither. `Sound` says
so for each combination of state and retry, that the file is open when the state
says so and not otherwise unless a close failed, and what a chain that met the
order to terminate has left. `Stopped` says the same for each place of the thread
that stops it. It holds for any answers of the NAND and any time of the stop.

**IPC client.** `OnePlace` says where a request is, not why the next step finds
it there. `AckInv` ties `mailboxAck` to what is owed: it is 1, less a message in the
register or an acknowledgement not taken, less the second acknowledgement of a
launch whose request the old IOS still has. So the register is written only when it
is empty, the acknowledgement bit is down and no launch is open. `PlacesInv` counts
the places of a request, so that each step has only to move it from one to another;
`RingInv` says the last index is the first plus the number that waits, modulo the
capacity, from which queueing is `Append` and sending `Tail` on `WaitingOf`.
`StallInv` says a queue is left waiting with the register free only after a
failed launch, and with `AckInv` gives `NothingStuck`.

**IPC heap.** `HeapIntact` speaks of the least free chunk above an address; the
proof uses `Linked` (each link leads to the next chunk of a set by address, each
link back to the one before) and `Tiled` (each chunk ends where another begins).
The surgery is taken apart into the operators of the model: a chunk is cut
(`SplitLinks`), taken out of the list (`UnlinkLinks`), put back between its
neighbours (`PutBackLinks`), and joined with the one behind it (`CoalesceJoins`);
between two of them a header may be in the tiles and not in the list, so the two
halves are stated for sets of their own. `BestFits` and `BeforeFinds` show
where the two walks of the list end, `WalkExists` that such a walk exists at all.
A block that had to be aligned finds its chunk through a header inside the block's
own chunk, which no other call touches (`Untouched`).

**Queues of the disc driver.** A waiting block has a home, the queue it was pushed
to; `Paired` says that every link stays in its queue and is answered by one back.
`ClearWaitingQueue` makes it true with no block; a push adds a block with the
home given; a pop takes a block of the first queue that is not empty, and a removal
takes any waiting block, and both keep it for the others. A paired block need not
be reached from its head: blocks could form a ring of their own. So the waiting
blocks have a rank too, which grows along the links (`Ranked`), and the block of
least rank that a chain does not reach leads to a contradiction (`LinkedAgrees`,
with `AtWalks` for the recursion of `Chain`).

**Disc driver.** `DrivenOnce` counts; what makes it inductive is the phase the
driver is in. `Phase` says of a record of the driver and of the requests under way
that it is between two commands (`Idle`) or has one (`Driven`), and then exactly
one of: a request of the command is the last one under way (`Asking`), the reset of
the drive is given its 100 ms (`Resetting`), an error is logged (`Logging`), shown
(`Showing`), or the cover is watched (`Watching`). For each it says which
state the command, the motor and the flags are in, what may be under way besides
(requests that clear the interrupt of the cover, and a look at the cover that
nobody waits for any more), and that a command which may be repeated as a read goes
to a disc that is known (`Knows`), from which `ReadOnKnownDisc` follows. `Listed`
ties the states of the blocks to the queues. A refused request stays where `Asking`
has it, the last one under way, with nobody to answer it (`LeftAlone`), so the phase
is the same but nothing comes of it any more: no alarm is set and no log written
that could drive the command. Each function of the driver has a
lemma from its caller's half of the phase to the next one's, so that a callback is
the composition the code is, and each action one lemma more (`AnswerNoneStep` to
`ResetPreparedStep`). The four theorems assume `Scope`: at least the four contexts
of `DVD_LOW_CTX_MAX`, and callers that leave alone a driver that does not serve
any more, as in the run.

**Only model-checked.** Liveness under fairness is beyond the prover:
`ShutdownCarriedOut`, `ExitIsReached`, `TopJobTaken`, `StopReturns`, `FencePasses`,
`AlarmFires`, `CallReturns`, `CancelsEnd`. So are the induction theorems of the
library, which take an operator; the walks along the lists of the alarms and the
heap, the queues of the disc driver and the loops of the thread kernel, are proved
by the least place at which they would be wrong instead. That the disc driver
implements `DVDService` has no proof, nor has `NoneStarved`.

## 6 Disagreement between code and comment

`PowerControl.cpp:3` says of the callbacks that they "each refuse when a shutdown
is already in progress". The callbacks of the main thread test the flag and then
store the four flags one by one with interrupts enabled
(`PowerControl.cpp:103-111`); a reset raised between the test and the stores is
overwritten. `shutdown_refuse` finds it: the restart flag that an interrupt
raised goes down again. The destination that results is one somebody asked for
(`OutcomeWasAsked`), and there is only one (`AtMostOneDestination`).

## 7 What the code does that a caller should know

These follow from the code, nothing in the repository promises otherwise, and
the properties are stated so as to except them:

- A thread that exits while it holds several mutexes may be switched away for
  good when it wakes the waiters of the first: it is not `RUNNING`, so it is not put
  back. Later mutexes stay owned by the dead thread, and its joiners sleep
  (`OSMutex.c:92`). `NoJoinerLeftBehind` excepts threads that die holding one.
- A second `OSJoinThread` of a thread that is `EXITED` sleeps for ever
  (`OSThread.c:620`).
- `OSCancelThread` of a thread that waits, with others, in a circle of mutexes:
  the thread has left its queue and its queue pointer is NULL (`OSThread.c:573`)
  when `UpdatePriority` follows the owners, and with the right priorities the walk
  comes back to it and goes through that pointer (`OSThread.c:247`). The attempt to
  prove `QueuesSound` without the guard `WaitsInNoCircle` found it.
- A thread that cancels another and is switched away while it wakes the waiters
  of its mutexes goes on with the cancelled thread's object when it is selected
  again, even if that object is a new thread by then (`OSThread.c:606`).
- A ref of negative frequency is passed over although it has a job; when all are,
  the workers sleep until the next signal (`WAD02_15_1.cpp:1516`). `NoLostJob` is
  stated for frequencies that are not negative.
- A launch of IOS that fails after its acknowledgement was taken sends nothing:
  requests queued meanwhile wait for the next call (`ipcclt.c:163`).
  `NothingStuck` and `CallReturns` except the time until then (`stalled`).
- The pools are tried one after the other under separate locks, so a request can
  fail although at every moment some pool had a block (`PoolManager.cpp:247`).
- A periodic alarm taken at exactly its start time is inserted again for that time
  and fires twice (`OSAlarm.c:47`).
- The job loop reads `fence->next` after the signal that lets the owner of the
  fence free it (`WAD02_15_1.cpp:1562`).
- The play record: when a request is refused and `NANDCloseAsync` is refused too,
  the state is CLOSE with nothing pending, so the stop waits its 500 ms in vain and
  gives up with the file open (`OSPlayRecord.c:199`). A call that arrives between
  the test of `PlayRecordTerminated` and that of the time still gives TIMEOUT.
- The disc driver: `DVDCancelAsync` stops the watch of the cover but not a look
  already asked for. Its answer writes through NULL when nothing executes, or
  drives a command that does not wait for the cover (`dvd.c:1024`). The model marks
  these (`dead`) and follows them no further.
- When the cancellation of a read completes in the answer to an error, the flag
  that breaks off reads stays up, and the next read is broken off unasked
  (`dvd.c:1366`).
- After a cancellation that met a moved cover it has no name for, the next
  command goes to the fatal error (`dvd.c:549`). After one that met an unknown
  error during the checks of a disc, the next command reads without them;
  `ReadOnKnownDisc` speaks of the command under way.
- `__DVDPrepareReset` takes over the callback of a cancellation under way, so the
  thread that asked for it is not woken (`dvd.c:1966`); commands it drops from the
  queues keep their links (`dvdqueue.c:112`), and the reader of the executing one
  is not told.
- `DVDClose` ignores the FALSE of `DVDCancel` (`dvd.c:1865`).
- When IOS refuses a request of the command under way, no callback comes and
  `dvd.c` does not know: the command, every one behind it, a cancellation, a close and
  a prepared reset wait for ever (`dvd_broadway.c:267`, and so in every `DVDLow...`
  call). A refused look at the cover ends the watch of it (`dvd_broadway.c:731`).
- On the way out the thread waits for the NAND without a limit in `NANDWrite` and
  `NANDClose` (`OSPlayRecord.c:252`), and to sleep for SC before that
  (`OSReset.c:163`).

Hazards of numbers the models bound instead: job numbers and the counters of the
IPC client are 32 bits wide and wrap in the code (`WAD02_15_1.cpp:1618`,
`ipcclt.c:46`); the runs stay below. Preconditions the models take from the
callers: `OSSetAlarm` on an alarm that is not in the queue (`OSAlarm.c:91`), blocks
freed once by those who hold them, jobs added once.

## 8 Not modelled

- **Pad manager** (`zPlayerInputPadMgr.cpp`): the functions that join, drop and
  swap pads are called by code that is not among the sources; which pad joins
  when, and with which ports, would have to be invented.
- **Containers**: pooled lists of one thread each; the pool allocator beneath
  them repeats the questions of the memory pools.
- **Blobloids and entity handles**: reference masks and a tree of handles; the
  manager that loads and frees blobs is only partly among the sources.
- **Physical heaps**: the questions of the IPC heap over more code; the wrapper
  that falls back from one heap on the other is among the sources, the two heaps
  it uses are created outside them.
- **What `OSReset.c` does after the play record**: the queue of shutdown
  functions, whose order is fixed at the start, and the restart of another
  program.
- **Domains** (`WAD00_1.cpp`): the activities that load and unload, and the
  module that moves them, are not among the sources.
- **Behaviour trees**: the scheduler and the interpreter that order the nodes are
  not among the sources.
- **Game code**: entities, cameras, combat and menus are single-threaded code
  called once a frame, and their rules are in assets that are not here.
- **User interface and files**: drawing and formats over middleware that is not
  here.
- **NAND, remote controllers, other devices**: drivers over the Bluetooth stack;
  the order of its callbacks is not in the repository.
- **Vendored and generated code**: the home menu, the C library, the debugger
  stub, the Bluetooth stack, the Havok stubs, and the tools that build the image.
- Within the modelled parts: contexts and stacks, caches, address translation,
  profiles, tags and user data, video; section 2 names them.

## 9 Plan

Done, in this order, the most important first: shutdown control, thread kernel,
message queues, sync event, job processor, memory pools, alarms, IPC client, IPC
heap, disc driver, play record and exit; proofs of the shutdown control, the
message queues, the sync event, the job processor, the memory pools, the play
record, the IPC client, the alarms, the IPC heap, the thread kernel, and the disc
driver with its queues.

What could follow:

1. `DVDDriver`: the refinement of `DVDService` from `Phase`, with the order of each
   chain.
2. `JobProcessor` on several levels with several refs each, and a proof of
   `NoneStarved`.
3. The queue of shutdown functions of `OSReset.c`, composed with the alarms'
   last pass and the play record.
4. Composition: `JobProcessor` over `SyncEvent` in place of its flag, and
   `DVDDriver` over `IPCClient`, each in one run.
