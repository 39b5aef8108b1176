------------------------------ MODULE DVDDriver -------------------------------
(***************************************************************************)
(* The disc driver (dvd.c) over the drive's low level calls                *)
(* (dvd_broadway.c) and its error log (dvderror.c).                        *)
(*                                                                         *)
(* Threads issue and cancel commands; everything after that happens in     *)
(* callbacks: answers of the I/O processor IOS, alarms, and answers of the *)
(* NAND.  All of it runs with interrupts disabled, so a call, an answer    *)
(* and an alarm are one step each.  What such a step does is a chain of    *)
(* functions that call one another, and each is an operator here, on the   *)
(* record d of the driver's variables.                                     *)
(*                                                                         *)
(* The commands of this program are the inquiry of OSInit and reads of at  *)
(* least one byte; the branches of other commands are not modelled.  The   *)
(* answers of IOS, NAND and the drive are any the driver can tell apart,   *)
(* in the order of the requests.  IOS may refuse any request, when the     *)
(* queue or the heap of the IPC client is full; dvd.c does not look at the *)
(* result of a DVDLow... call, so that nothing follows such a request.     *)
(* The buffers are aligned as the calls want them.                         *)
(***************************************************************************)
EXTENDS DVDQueue, Sequences, SequencesExt

CONSTANTS
  Thread,        \* threads that close files
  Inquiry,       \* the block of OSInit's inquiry
  Sync,          \* blocks read by DVDReadPrio, whose callback wakes its thread
  Chunks,        \* transfers of at most MAX_TRANSFER_SIZE of each block's command
  MaxContexts,   \* DVD_LOW_CTX_MAX, the contexts of requests under way
  LateCalls,     \* bound: threads still call the driver when it no longer serves
  SlowsDown      \* OS_DVD_DEVICE_CODE asks for a lower speed after a reset

ASSUME DriverAssumption ==
  /\ Inquiry \in Block /\ Sync \subseteq Block \ {Inquiry}
  /\ Chunks \in [Block -> Nat \ {0}] /\ MaxContexts \in Nat \ {0}
  /\ LateCalls \in BOOLEAN /\ SlowsDown \in BOOLEAN

VARIABLES
  d,      \* the driver, a record of the variables of dvd.c
  reset,  \* __DVDPrepareReset: "no", "waiting" for Prepared, or "done"
  refused \* IOS refused a request of the executing command

vars == <<d, reset, refused>>

Waits == {"noDisk", "coverOpened", "wrongDiskID", "diskError"}

\* "ended" is IDLE and CANCELED, which the driver does not tell apart.
State == Waits \cup {"ended", "waiting", "busy", "coverClosed"}

\* Where the next command resumes; "motorOff" is RESUME_POINT_7.
Resume == Waits \cup {"none", "ok", "diskChanged", "motorOff"}

\* The callbacks of requests to the drive, named as in cbForState...; "none"
\* is that of DVDLowClearCoverInterrupt.
Callback == {"none", "Busy", "GettingError", "Error", "GoToRetry", "CheckID1",
             "Reset", "DownRotation", "CoverClosed", "ReadingTOC",
             "ReadingPartitionInfo", "OpenPartition2", "PrepareCover"}

\* What IOS says of a request: transfer complete, device error, or a time out,
\* which the driver treats as it does a security error.
IntType == {"TC", "DE", "TIME"}

\* The error register: state and code.  "wrongDisk" is 053000h, "cover" the
\* other codes of a moved cover, "other" those the driver does not know.  It
\* compares "motorStopped" with the whole register, of state "ok".
ErrorState == {"ok", "coverOpened", "diskChanged", "noDisk", "other"}
ErrorCode == {"motorStopped", "wrongDisk", "cover", "badOpcode", "readFail",
              "other"}

\* The stages of __DVDStoreErrorCode, each an answer of the NAND.
Stage == {"createDir", "create", "open", "write", "close"}

ASSUME StageAssumption == NULL \notin Stage \X {1, 2, 3}

\* The priority at which a callback issues its block again, or NULL.
Reissue == Prio \cup {NULL}

Driver ==
  [q : Links,
   state : [Block -> State],
   left : [Block -> Nat],
   owed : [Block -> {0, 1}],
   muted : SUBSET Block,
   executing : Block \cup {NULL},
   canceling : BOOLEAN,
   cancelCallback : {NULL, "sync", "prepared"},
   breaking : BOOLEAN,
   resume : Resume,
   motorState : {"working", "pendingStop"},
   waitOpen : BOOLEAN, waitClose : BOOLEAN,
   preparing : {"no", "asked", "refused"},
   coverAlarm : BOOLEAN, resetAlarm : BOOLEAN, fatalAlarm : BOOLEAN,
   lastState : {"busy", "downRotation", "coverClosedCmd"},
   retries : 0 .. 2,
   lastError : ErrorCode \cup {"none"},
   fifo : Seq(Callback),
   store : (Stage \X {1, 2, 3}) \cup {NULL},
   closing : [Thread -> Block \cup {NULL}],
   asleep : SUBSET Thread,
   prepared : BOOLEAN,
   known : BOOLEAN,
   dead : {"no", "fatal", "spinning", "nullWrite", "astray"}]

TypeOK ==
  d \in Driver /\ reset \in {"no", "waiting", "done"} /\ refused \in BOOLEAN

-----------------------------------------------------------------------------
(* Requests: dvd_broadway.c *)

\* The contexts in use, or passed over by newContext for a refused look at the
\* cover.  Answers come in order, so the next of the ring is free until all are.
InUse(e) == Len(e.fifo) + IF e.preparing = "refused" THEN 1 ELSE 0

\* A DVDLow... call: newContext takes the next context of a ring and spins for
\* ever when it is in use.
Send(e, callback) ==
  IF InUse(e) >= MaxContexts THEN [e EXCEPT !.dead = "spinning"]
  ELSE [e EXCEPT !.fifo = Append(@, callback)]

\* Requests that belong to no command.
Aside == {"none", "PrepareCover"}

\* What becomes of the request that a step made for its command, if it made
\* one, to leave the driver at e: IOS_Ioctl(v)Async takes it or refuses it.
\* Then the call returns FALSE and nobody looks at that; the request stays the
\* last of fifo, as one that is never answered.  (That a refused "none" has no
\* callback changes nothing.)
MayRefuse(e) ==
  \/ UNCHANGED refused
  \/ /\ Len(e.fifo) > Len(d.fifo) /\ Last(e.fifo) \notin Aside
     /\ refused' = TRUE

Leave(e) == d' = e /\ MayRefuse(e)

\* DVDLowClearCoverInterrupt and a request.
SendCleared(e, callback) == Send(Send(e, "none"), callback)

\* __DVDStoreErrorCode with the callback cbForStoreErrorCode<n>.
StoreErrorCode(e, n) == [e EXCEPT !.store = <<"createDir", n>>]

StateError(e) == StoreErrorCode(e, 1)

\* stateTimeout and stateSecurityError
StateTimeout(e) == StoreErrorCode(e, 2)

-----------------------------------------------------------------------------
(* The states of the driver *)

StateGettingError(e) == Send(e, "GettingError")

StateGoToRetry(e) == Send(e, "GoToRetry")

StateBusy(e) == SendCleared([e EXCEPT !.lastState = "busy"], "Busy")

\* stateDownRotation, with the assignment of LastState before its call.
StateDownRotation(e) ==
  SendCleared([e EXCEPT !.lastState = "downRotation"], "DownRotation")

\* stateCoverClosed_CMD, with the assignment of LastState before its calls.
StateCoverClosedCmd(e) ==
  SendCleared([e EXCEPT !.lastState = "coverClosedCmd"], "CoverClosed")

\* The command is put through a reset of the drive and the checks of the disc.
StateCoverClosed(e) == Send([e EXCEPT !.motorState = "working"], "Reset")

\* Wait for the cover, which CoverAlarm looks at every 100 ms.
StateMotorStopped(e) ==
  IF e.waitOpen \/ e.waitClose THEN [e EXCEPT !.motorState = "pendingStop"]
  ELSE [e EXCEPT !.motorState = "pendingStop", !.waitOpen = TRUE,
                 !.coverAlarm = TRUE]

\* stateReady: take the next command and go on where the last one left off.
StateReady(e) ==
  IF ~CheckWaitingQueue(e.q) THEN [e EXCEPT !.executing = NULL]
  ELSE
    LET b == TopBlock(e.q)
        e1 == [e EXCEPT !.q = PopWaitingQueue(@), !.executing = b,
                        !.known = TRUE]
        resume == IF b = Inquiry THEN "none" ELSE e.resume
        e2 == [e1 EXCEPT !.resume = "none"]
    IN  IF e.q.next[b] = NULL THEN [e EXCEPT !.dead = "nullWrite"]
        ELSE CASE resume \in Waits \ {"wrongDiskID"} ->
                    StateMotorStopped([e2 EXCEPT !.state[b] = resume])
               [] resume \in {"wrongDiskID", "diskChanged", "motorOff"} ->
                    StateCoverClosed([e2 EXCEPT !.state[b] = "coverClosed"])
               [] resume = "ok" -> StateError(e2)
               [] resume = "none" /\ e.motorState = "working" ->
                    StateBusy([e2 EXCEPT !.state[b] = "busy"])
               [] OTHER -> StateCoverClosed(e2)

\* issueCommand: queue the block and start it if the driver has nothing to do.
IssueCommand(e, b, prio) ==
  LET e1 == [e EXCEPT !.state[b] = "waiting", !.left[b] = Chunks[b],
                      !.owed[b] = @ + 1, !.muted = @ \ {b},
                      !.q = PushWaitingQueue(@, prio, b)]
  IN  IF e.executing = NULL THEN StateReady(e1) ELSE e1

-----------------------------------------------------------------------------
(* Ending a command *)

\* A file is not read from while it is being closed.
BeingClosed(e, b) == \E t \in Thread : e.closing[t] = b

\* The callback of block b, unless __DVDPrepareReset removed it: cbForReadSync
\* wakes all threads asleep in the driver, an asynchronous one may issue the
\* block again.
Tell(e, b, again) ==
  LET e1 == [e EXCEPT !.owed[b] = @ - 1]
      mayIssue == b \notin Sync \cup {Inquiry} /\ ~BeingClosed(e, b)
  IN  CASE b \in e.muted -> e
        [] b \in Sync \ e.muted -> [e1 EXCEPT !.asleep = {}]
        [] b \notin e.muted /\ again # NULL /\ mayIssue ->
             IssueCommand(e1, b, again)
        [] OTHER -> e1

\* The callback given to DVDCancelAsync: cbForCancelSync or Callback.
CallCancel(e, callback) ==
  CASE callback = "sync" -> [e EXCEPT !.asleep = {}]
    [] callback = "prepared" -> [e EXCEPT !.prepared = TRUE]
    [] OTHER -> e

\* The block's command ended; what was left of it is of no more use.
Over(e, b) == [e EXCEPT !.state[b] = "ended", !.left[b] = 0]

\* While the callback runs the driver executes its dummy block: any block but
\* NULL keeps a command issued in it from being started.
Finish(e, b, again) == Tell([Over(e, b) EXCEPT !.executing = b], b, again)

Complete(e, again) == StateReady(Finish(e, e.executing, again))

CancelBlock(e, b, callback, again) ==
  CallCancel(Finish(e, b, again), callback)

\* CheckCancel when a cancellation waits: the command ends, the next one
\* resumes at the point given.  (CancelCallback is not read again before it is
\* set, so the model forgets it.)
Canceled(e, resume, again) ==
  StateReady(CancelBlock([e EXCEPT !.resume = resume, !.canceling = FALSE,
                                   !.cancelCallback = NULL],
                         e.executing, e.cancelCallback, again))

\* CheckCancel: otherwise the command goes on with e2.
CheckCancel(e, resume, again, e2) ==
  IF e.canceling THEN Canceled(e, resume, again) ELSE e2

-----------------------------------------------------------------------------
(* The callbacks of the requests.  A time out or a security error leads to   *)
(* the fatal error whatever was asked for.                                   *)

\* What a step of the checks after a reset does with an answer.
Checked(e, int, next) ==
  CASE int = "TIME" -> StateTimeout(e)
    [] int = "TC" -> next
    [] OTHER -> StateGettingError(e)

Forgiven(e) == [e EXCEPT !.retries = 0, !.lastError = "none"]

\* cbForStateBusy, the answer to a read or the inquiry: a cancelled read ends
\* here, one that is not through sends for its next chunk.
CbForStateBusy(e, int, again) ==
  LET e1 == IF int = "TC" THEN [e EXCEPT !.left[e.executing] = @ - 1] ELSE e
      over == e1.left[e1.executing] = 0
  IN  CASE int = "TIME" -> StateTimeout(e)
        [] int # "TIME" /\ e1.breaking ->
             StateReady(CancelBlock([e1 EXCEPT !.breaking = FALSE,
                                               !.canceling = FALSE,
                                               !.cancelCallback = NULL],
                                    e1.executing, e1.cancelCallback, again))
        [] int = "TC" /\ ~e1.breaking ->
             CheckCancel(Forgiven(e1), "none", again,
                         IF over THEN Complete(Forgiven(e1), again)
                                 ELSE StateBusy(Forgiven(e1)))
        [] int = "DE" /\ ~e1.breaking /\ e1.executing = Inquiry ->
             StateError(e1)
        [] OTHER -> StateGettingError(e1)

\* CategorizeError: the category of an error, and the counts it leaves.  Only
\* the second of a row of errors is compared with the one before it, so more
\* than two count as two and the code is kept after the first only.
CategorizeError(e, state, code) ==
  LET second == e.retries = 1
      noted == IF e.retries = 0 THEN [e EXCEPT !.retries = 1, !.lastError = code]
               ELSE [e EXCEPT !.retries = 2, !.lastError = "none"]
      ofDisc == \/ code \in {"cover", "wrongDisk"}
                \/ code = "badOpcode" /\ e.lastState = "downRotation"
      counted == CASE second /\ code = e.lastError -> "error"
                   [] second /\ code # e.lastError -> "fatal"
                   [] ~second /\ code = "readFail" -> "fatal"
                   [] OTHER -> "unknown"
  IN  CASE code = "motorStopped" -> <<"error", e>>
        [] ofDisc -> <<"ok", e>>
        [] OTHER -> <<counted, noted>>

\* The point at which the next command resumes when this error meets a
\* cancellation.
ResumePoint(category, state, code) ==
  IF category \in {"fatal", "unknown"} THEN "none"
  ELSE CASE state \in {"coverOpened", "diskChanged", "noDisk"} -> state
         [] state = "ok" /\ code = "wrongDisk" -> "wrongDiskID"
         [] OTHER -> "ok"

LastState(e) ==
  CASE e.lastState = "busy" -> StateBusy(e)
    [] e.lastState = "downRotation" -> StateDownRotation(e)
    [] e.lastState = "coverClosedCmd" -> StateCoverClosedCmd(e)

\* What follows an error that met no cancellation.
ReactToState(e, state, code) ==
  LET b == e.executing
  IN  CASE state \in {"coverOpened", "noDisk"} ->
             StateMotorStopped([e EXCEPT !.state[b] = state])
        [] state = "diskChanged" ->
             StateCoverClosed([e EXCEPT !.state[b] = "coverClosed"])
        [] state = "ok" /\ code = "wrongDisk" -> Send(e, "CheckID1")
        [] OTHER -> StateError(e)

React(e, category, state, code) ==
  CASE category = "fatal" -> StoreErrorCode(e, 3)
    [] category = "unknown" -> LastState(e)
    [] OTHER -> ReactToState(e, state, code)

CbForStateGettingError(e, int, state, code, again) ==
  LET found == CategorizeError(e, state, code)
      category == found[1]
      e1 == found[2]
  IN  CASE int = "TIME" -> StateTimeout(e)
        [] int = "DE" -> StateError(e)
        [] int = "TC" /\ category = "error" -> StateError(e1)
        [] OTHER -> CheckCancel(e1, ResumePoint(category, state, code), again,
                                React(e1, category, state, code))

\* The command waits for another disc, or ends if it was to be cancelled.
WaitForDisc(e, state, again) ==
  CheckCancel(e, state, again,
              StateMotorStopped([e EXCEPT !.state[e.executing] = state]))

\* cbForStateGoToRetry and cbForStateCheckID1, the answers to a stopped motor.
CbForMotorStop(e, int, state, again) ==
  CASE int = "TIME" -> StateTimeout(e)
    [] int = "DE" -> StateError(e)
    [] OTHER -> WaitForDisc(Forgiven(e), state, again)

\* cbForStateReset: the drive is given 100 ms.
CbForStateReset(e, int) ==
  Checked(e, int, [e EXCEPT !.resume = "none", !.resetAlarm = TRUE,
                            !.known = FALSE])

CbForStateDownRotation(e, int) == Checked(e, int, StateCoverClosedCmd(e))

\* cbForStateCoverClosed and stateCheckID: is the disc the one it should be?
CbForStateCoverClosed(e, int, right) ==
  LET e1 == Forgiven(e)
  IN  Checked(e, int, IF right THEN SendCleared(e1, "ReadingTOC")
                               ELSE Send(e1, "CheckID1"))

CbForStateReadingTOC(e, int) ==
  Checked(e, int, SendCleared(Forgiven(e), "ReadingPartitionInfo"))

\* right: the disc has a data partition.
CbForStateReadingPartitionInfo(e, int, right, again) ==
  LET e1 == Forgiven(e)
  IN  Checked(e, int, IF right THEN SendCleared(e1, "OpenPartition2")
                               ELSE WaitForDisc(e1, "wrongDiskID", again))

\* The disc is checked and the command is started, or started again.
CbForStateOpenPartition2(e, int, again) ==
  LET e1 == [Forgiven(e) EXCEPT !.known = TRUE]
  IN  Checked(e, int,
              CheckCancel(e1, "none", again,
                          StateBusy([e1 EXCEPT !.state[e1.executing] = "busy"])))

\* cbForStateMotorStopped: the cover was closed.
CbForStateMotorStopped(e) ==
  LET e1 == [e EXCEPT !.waitClose = FALSE]
  IN  IF e1.executing # NULL
        THEN StateCoverClosed([e1 EXCEPT !.state[e1.executing] = "coverClosed"])
        ELSE [e1 EXCEPT !.resume = "motorOff"]

\* cbForPrepareCoverRegister: the cover is open now (cvr), or was moved since
\* the interrupt was cleared (cvrint).  DVDCancelAsync stops the watch but not
\* a look under way.  Answered afterwards, it may find no command and write
\* through NULL, or meddle with a command that is not waiting for the cover;
\* the model follows neither any further.
CbForPrepareCoverRegister(e, cvr, cvrint) ==
  LET e1 == [e EXCEPT !.preparing = "no"]
      quiet == [e1 EXCEPT !.coverAlarm = FALSE]
  IN  CASE ~e.coverAlarm /\ e.executing = NULL /\ cvr ->
             [e1 EXCEPT !.dead = "nullWrite"]
        [] ~e.coverAlarm /\ e.executing # NULL /\ (cvr \/ cvrint) ->
             [e1 EXCEPT !.dead = "astray"]
        [] e.coverAlarm /\ e.waitClose ->
             IF cvr THEN e1
             ELSE CbForStateMotorStopped([quiet EXCEPT !.waitClose = FALSE])
        [] e.coverAlarm /\ ~e.waitClose /\ cvr ->
             [e1 EXCEPT !.waitOpen = FALSE, !.waitClose = TRUE,
                        !.state[e.executing] = "coverOpened"]
        [] ~e.waitClose /\ ~cvr /\ cvrint /\ (e.coverAlarm \/ e.executing = NULL) ->
             CbForStateMotorStopped(
               Send([quiet EXCEPT !.waitOpen = FALSE], "none"))
        [] OTHER -> e1

\* cbForStateError: DVDInit asks for fatal messages, so the alarm is set.
CbForStateError(e) == [e EXCEPT !.fatalAlarm = TRUE]

\* cbForStoreErrorCode1, 2 and 3
CbForStoreErrorCode(e, n) ==
  CASE n = 1 -> Send(e, "Error")
    [] n = 2 -> Send([e EXCEPT !.resume = "none"], "Error")
    [] n = 3 -> StateGoToRetry(e)

-----------------------------------------------------------------------------
(* What threads call *)

\* DVDCancelAsync: <<its result, the driver after it>>.
CancelAsync(e, b, callback, again) ==
  LET state == e.state[b]
      asked == [e EXCEPT !.canceling = TRUE, !.cancelCallback = callback]
      quiet == IF e.waitOpen
                 THEN [e EXCEPT !.coverAlarm = FALSE, !.waitOpen = FALSE]
                 ELSE e
  IN  CASE state = "ended" -> <<TRUE, CallCancel(e, callback)>>
        [] state \in {"busy", "coverClosed"} /\ e.canceling -> <<FALSE, e>>
        [] state = "busy" /\ ~e.canceling ->
             <<TRUE, [asked EXCEPT !.breaking = @ \/ b # Inquiry]>>
        [] state = "coverClosed" /\ ~e.canceling -> <<TRUE, asked>>
        [] state = "waiting" ->
             <<TRUE, CallCancel(
                Tell([Over(e, b) EXCEPT !.q = DequeueWaitingQueue(@, b)],
                     b, again), callback)>>
        [] state \in Waits /\ ~e.waitOpen /\ ~e.waitClose -> <<FALSE, e>>
        [] state \in Waits /\ (e.waitOpen \/ e.waitClose) ->
             <<TRUE, StateReady(CancelBlock([quiet EXCEPT !.resume = state],
                                            b, callback, again))>>

\* A fatal error is being logged and shown: no command will be served again.
Failing ==
  \/ d.store # NULL /\ d.store[2] \in {1, 2}
  \/ \E k \in DOMAIN d.fifo : d.fifo[k] = "Error"
  \/ d.fatalAlarm \/ d.dead # "no"

Serving == reset = "no" /\ ~Failing

Running == d.dead = "no" /\ reset # "done"

Calls == LateCalls \/ Serving

\* DVDReadAbsAsyncPrio: a caller does not issue a block it still waits for.
Read(b, prio) ==
  /\ Running /\ Calls /\ b # Inquiry
  /\ d.owed[b] = 0 /\ d.state[b] = "ended"
  /\ ~BeingClosed(d, b)
  /\ Leave(IssueCommand(d, b, prio))
  /\ UNCHANGED reset

\* DVDClose: DVDCancel up to its loop.
Close(t, b, again) ==
  /\ Running /\ Calls /\ b # Inquiry /\ d.closing[t] = NULL
  /\ LET called == CancelAsync([d EXCEPT !.closing[t] = b], b, "sync", again)
     IN  Leave(IF called[1] THEN called[2] ELSE d)
  /\ UNCHANGED reset

\* The loop of DVDCancel: the thread sleeps until the block's command ended.
CloseLoop(t) ==
  /\ Running /\ d.closing[t] # NULL /\ t \notin d.asleep
  /\ d' = IF d.state[d.closing[t]] = "ended"
            THEN [d EXCEPT !.closing[t] = NULL]
            ELSE [d EXCEPT !.asleep = @ \cup {t}]
  /\ UNCHANGED <<reset, refused>>

\* Mutant of PrepareReset: a cancellation under way keeps its callback.
PrepareResetKeep(again) ==
  /\ Running /\ Calls /\ reset = "no" /\ reset' = "waiting"
  /\ LET e == [d EXCEPT !.q = ClearWaitingQueue(@), !.prepared = FALSE]
     IN  Leave(
           CASE e.canceling -> e
             [] ~e.canceling /\ e.executing # NULL ->
                  CancelAsync([e EXCEPT !.muted = @ \cup {e.executing}],
                              e.executing, "prepared", again)[2]
             [] OTHER -> CallCancel(e, "prepared"))

\* __DVDPrepareReset up to its loop.  The queues are empty when
\* DVDCancelAllAsync looks at them, so its pause ends as it began.
PrepareReset(again) ==
  /\ Running /\ Calls /\ reset = "no" /\ reset' = "waiting"
  /\ LET e == [d EXCEPT !.q = ClearWaitingQueue(@), !.prepared = FALSE]
     IN  Leave(
           CASE e.canceling -> [e EXCEPT !.cancelCallback = "prepared"]
             [] ~e.canceling /\ e.executing # NULL ->
                  CancelAsync([e EXCEPT !.muted = @ \cup {e.executing}],
                              e.executing, "prepared", again)[2]
             [] OTHER -> CallCancel(e, "prepared"))

\* ... its loop ends.
ResetPrepared ==
  /\ Running /\ reset = "waiting" /\ d.prepared
  /\ reset' = "done" /\ UNCHANGED <<d, refused>>

-----------------------------------------------------------------------------
(* What interrupts bring *)

\* doTransactionCallback: the oldest request is answered, if IOS has it.
Asked(callback) ==
  /\ Running /\ d.fifo # <<>> /\ Head(d.fifo) = callback
  /\ refused => callback \in Aside

\* Its context is in use until the callback has returned.
Answer(e) ==
  /\ d' = [e EXCEPT !.fifo = Tail(@)] /\ MayRefuse(e)
  /\ UNCHANGED reset

AnswerNone == Asked("none") /\ Answer(d)

AnswerError == Asked("Error") /\ Answer(CbForStateError(d))

AnswerBusy ==
  /\ Asked("Busy")
  /\ \E int \in IntType, again \in Reissue : Answer(CbForStateBusy(d, int, again))

\* In the answers below a callback is called for a cancelled command only.
CancelReissue == IF d.canceling THEN Reissue ELSE {NULL}

AnswerGettingError ==
  /\ Asked("GettingError")
  /\ \/ \E int \in IntType \ {"TC"} :
            Answer(CbForStateGettingError(d, int, NULL, NULL, NULL))
     \/ \E state \in ErrorState, code \in ErrorCode, again \in CancelReissue :
            /\ code = "motorStopped" => state = "ok"
            /\ Answer(CbForStateGettingError(d, "TC", state, code, again))

AnswerMotorStop ==
  \E int \in IntType, again \in CancelReissue :
    \/ Asked("GoToRetry") /\ Answer(CbForMotorStop(d, int, "diskError", again))
    \/ Asked("CheckID1") /\ Answer(CbForMotorStop(d, int, "wrongDiskID", again))

\* The answers of the chain that checks the disc after a reset.
AnswerCheck ==
  \E int \in IntType :
    \/ Asked("Reset") /\ Answer(CbForStateReset(d, int))
    \/ Asked("DownRotation") /\ Answer(CbForStateDownRotation(d, int))
    \/ Asked("ReadingTOC") /\ Answer(CbForStateReadingTOC(d, int))
    \/ /\ Asked("CoverClosed")
       /\ \E right \in BOOLEAN : Answer(CbForStateCoverClosed(d, int, right))
    \/ /\ Asked("ReadingPartitionInfo")
       /\ \E right \in BOOLEAN, again \in CancelReissue :
            Answer(CbForStateReadingPartitionInfo(d, int, right, again))
    \/ /\ Asked("OpenPartition2")
       /\ \E again \in CancelReissue : Answer(CbForStateOpenPartition2(d, int, again))

\* doPrepareCoverRegisterCallback
AnswerPrepareCover ==
  /\ Asked("PrepareCover")
  /\ \E cvr, cvrint \in BOOLEAN :
       Answer(CbForPrepareCoverRegister(d, cvr, cvrint))

\* CoverAlarm is periodic; while a look is under way it does nothing, and so it
\* does for ever after IOS refused one.
CoverAlarmHandler ==
  /\ Running /\ d.coverAlarm /\ d.preparing = "no"
  /\ \/ d' = Send([d EXCEPT !.preparing = "asked"], "PrepareCover")
     \/ /\ InUse(d) < MaxContexts
        /\ d' = [d EXCEPT !.preparing = "refused"]
  /\ UNCHANGED <<reset, refused>>

\* Mutant of ResetAlarmHandler: the state to go back to on an error is left.
ResetAlarmHandlerKeep ==
  /\ Running /\ d.resetAlarm
  /\ Leave(SendCleared([d EXCEPT !.resetAlarm = FALSE], "CoverClosed"))
  /\ UNCHANGED reset

ResetAlarmHandler ==
  /\ Running /\ d.resetAlarm
  /\ LET e == [d EXCEPT !.resetAlarm = FALSE]
     IN  Leave(IF SlowsDown THEN StateDownRotation(e)
                                      ELSE StateCoverClosedCmd(e))
  /\ UNCHANGED reset

\* FatalAlarmHandler: the message stays on the screen, the program stops.
FatalAlarmHandler ==
  /\ Running /\ d.fatalAlarm
  /\ d' = [d EXCEPT !.dead = "fatal"] /\ UNCHANGED <<reset, refused>>

\* Mutant of NandAnswer: a failed step of the log calls nobody.
NandAnswerDropped(ok) ==
  /\ Running /\ d.store # NULL
  /\ LET stage == d.store[1]
         n == d.store[2]
         NextStage(next) == [d EXCEPT !.store = <<next, n>>]
         done == CbForStoreErrorCode([d EXCEPT !.store = NULL], n)
     IN  Leave(
           CASE stage = "createDir" /\ ok -> NextStage("create")
             [] stage = "create" /\ ok -> NextStage("open")
             [] stage = "open" /\ ok -> NextStage("write")
             [] stage = "write" -> NextStage("close")
             [] stage = "close" -> done
             [] OTHER -> [d EXCEPT !.store = NULL])
  /\ UNCHANGED reset

\* A step of __DVDStoreErrorCode is answered; a failed one, or one that could
\* not be asked for, goes to the callback, but the file is closed after a
\* failed write.
NandAnswer(ok) ==
  /\ Running /\ d.store # NULL
  /\ LET stage == d.store[1]
         n == d.store[2]
         NextStage(next) == [d EXCEPT !.store = <<next, n>>]
         done == CbForStoreErrorCode([d EXCEPT !.store = NULL], n)
     IN  Leave(
           CASE stage = "createDir" /\ ok -> NextStage("create")
             [] stage = "create" /\ ok -> NextStage("open")
             [] stage = "open" /\ ok -> NextStage("write")
             [] stage = "write" -> NextStage("close")
             [] OTHER -> done)
  /\ UNCHANGED reset

-----------------------------------------------------------------------------
\* OSInit has called DVDInit and issued the inquiry, which IOS may refuse.
Init ==
  /\ d = StateReady(
          [q |-> PushWaitingQueue(
                   ClearWaitingQueue([next |-> [c \in Cell |-> NULL],
                                      prev |-> [c \in Cell |-> NULL]]),
                   PrioMax \div 2, Inquiry),
           state |-> [b \in Block |-> IF b = Inquiry THEN "waiting" ELSE "ended"],
           left |-> [b \in Block |-> IF b = Inquiry THEN Chunks[b] ELSE 0],
           owed |-> [b \in Block |-> IF b = Inquiry THEN 1 ELSE 0],
           muted |-> {}, executing |-> NULL,
           canceling |-> FALSE, cancelCallback |-> NULL, breaking |-> FALSE,
           resume |-> "none", motorState |-> "working",
           waitOpen |-> FALSE, waitClose |-> FALSE, preparing |-> "no",
           coverAlarm |-> FALSE, resetAlarm |-> FALSE, fatalAlarm |-> FALSE,
           lastState |-> "busy", retries |-> 0, lastError |-> "none",
           fifo |-> <<>>, store |-> NULL,
           closing |-> [t \in Thread |-> NULL], asleep |-> {},
           prepared |-> FALSE, known |-> TRUE, dead |-> "no"])
  /\ reset = "no" /\ refused \in BOOLEAN

\* IOS answers the oldest request.
IOSAnswer ==
  \/ AnswerNone \/ AnswerError \/ AnswerBusy \/ AnswerGettingError
  \/ AnswerMotorStop \/ AnswerCheck \/ AnswerPrepareCover

NandAnswers == \E ok \in BOOLEAN : NandAnswer(ok)

Threads ==
  \/ \E b \in Block, p \in Prio : Read(b, p)
  \/ \E t \in Thread, b \in Block, again \in Reissue : Close(t, b, again)
  \/ \E t \in Thread : CloseLoop(t)
  \/ \E again \in Reissue : PrepareReset(again)

Next ==
  \/ IOSAnswer \/ NandAnswers
  \/ CoverAlarmHandler \/ ResetAlarmHandler \/ FatalAlarmHandler
  \/ Threads \/ ResetPrepared

Spec == Init /\ [][Next]_vars

\* Every answer changes the requests under way.
requests == d.fifo

\* Requests that IOS took are answered, and those to the NAND; an alarm that is
\* set goes off, and the loop of __DVDPrepareReset runs; the other threads and
\* the cover promise nothing.
FairSpec ==
  /\ Spec
  /\ WF_requests(IOSAnswer) /\ WF_vars(ResetPrepared)
  /\ WF_vars(NandAnswers \/ ResetAlarmHandler \/ FatalAlarmHandler)

-----------------------------------------------------------------------------
(* Properties *)

\* Until a reset is prepared the links of the queues hold exactly the commands
\* in state WAITING, each once, and every link is answered by one back: a
\* block pushed, popped or taken out of the middle by dvd.c never drops, doubles
\* or revives another.
QueueIntact ==
  Serving => LinksAgree(d.q, {b \in Block : d.state[b] = "waiting"})

\* The requests of the executing command that IOS took.
Pending ==
  {k \in DOMAIN d.fifo : d.fifo[k] \notin Aside /\ ~(refused /\ k = Len(d.fifo))}

Alarms == (IF d.resetAlarm THEN 1 ELSE 0) + (IF d.fatalAlarm THEN 1 ELSE 0)

\* While a command executes exactly one thing is to call the driver back for
\* it: a request, the log of an error, an alarm, or the watch of the cover.
\* With two the command would be driven twice, with none the driver hangs, and
\* that it does for one reason only: IOS refused a request of the command.
\* The watch runs as long as the driver waits for the cover, and newContext
\* always finds a free context.
DrivenOnce ==
  /\ d.dead # "spinning"
  /\ d.dead = "no" =>
       /\ Cardinality(Pending) + Alarms + (IF d.store # NULL THEN 1 ELSE 0)
            + (IF d.executing # NULL /\ d.coverAlarm THEN 1 ELSE 0)
          = IF d.executing = NULL \/ refused THEN 0 ELSE 1
       /\ d.coverAlarm <=> d.waitOpen \/ d.waitClose
       /\ refused => d.executing # NULL

\* After a reset of the drive the command under way reads nothing before the
\* disc was found to be the right one and its partition was opened again.
ReadOnKnownDisc ==
  (\E k \in DOMAIN d.fifo : d.fifo[k] = "Busy") /\ d.executing # Inquiry
    => d.known

Service ==
  INSTANCE DVDService WITH
    queue <- [p \in Prio |-> Chain(d.q, p)],
    current <- d.executing, owed <- d.owed, live <- Serving

\* The driver serves its commands one at a time, by priority and in order of
\* arrival, and calls each callback once, through retries, resets of the drive
\* and cancellations.
ImplementsService == Service!Spec

\* The driver died of a fatal error or of a late look at the cover, or waits for
\* a request that IOS refused.
Hangs == d.dead # "no" \/ refused

\* What was asked to end does, unless the driver hangs: the sleep of a thread in
\* DVDClose until its command was cancelled, and the wait of __DVDPrepareReset.
CancelsEnd ==
  /\ \A t \in Thread : t \in d.asleep ~> t \notin d.asleep \/ ~Serving \/ Hangs
  /\ reset = "waiting" ~> reset = "done" \/ Hangs
=============================================================================
