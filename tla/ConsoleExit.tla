----------------------------- MODULE ConsoleExit -----------------------------
(***************************************************************************)
(* The way out of the program: the buttons and the game choose where to go *)
(* (ShutdownControl) while the play record is kept (PlayRecord), and the   *)
(* thread that leaves stops the record first.  OSReturnToMenu and          *)
(* OSShutdownSystem do (OSReset.c), the latter once the job of the system  *)
(* configuration (SC) is over; the other two ways out are not in this      *)
(* repository.                                                             *)
(***************************************************************************)
EXTENDS ShutdownControl

VARIABLES
  rec, stopper,
  scBusy   \* SCCheckStatus says SC_STATUS_BUSY: a file is read or written

Record == INSTANCE PlayRecord

recordVars == <<rec, stopper>>
exitVars == <<vars, recordVars, scBusy>>

\* OSInit has waited for SC.
ExitInit == Init /\ Record!Init /\ scBusy = FALSE

\* SC begins a job in the background, or the NAND has answered the last
\* request of one.
ScJob == scBusy' = ~scBusy /\ UNCHANGED <<vars, recordVars>>

\* OSReturnToMenu calls __OSStopPlayRecord, OSShutdownSystem waits for SC
\* before it does.
EnterStop ==
  /\ \/ outcome = "wiiMenu"
     \/ outcome = "off" /\ ~scBusy
  /\ Record!Stop /\ UNCHANGED <<vars, scBusy>>

RunStop == Record!Stopping /\ UNCHANGED <<vars, scBusy>>
RunControl == MainThread /\ UNCHANGED <<recordVars, scBusy>>

ExitNext ==
  \/ RunControl \/ EnterStop \/ RunStop \/ ScJob
  \/ (ResetEvent \/ PowerEvent) /\ UNCHANGED <<recordVars, scBusy>>
  \/ (Record!Calls \/ Record!Returns) /\ UNCHANGED <<vars, scBusy>>

\* The main thread runs, and 500 ms pass; the NAND, the alarms, SC and the
\* buttons promise nothing.
ExitSpec ==
  /\ ExitInit /\ [][ExitNext]_exitVars
  /\ WF_vars(RunControl) /\ WF_recordVars(EnterStop \/ RunStop)
  /\ SF_recordVars(Record!TimeOut /\ UNCHANGED <<vars, scBusy>>)

-----------------------------------------------------------------------------
(* Properties *)

\* One thing at a time: no request is made and no alarm set while another
\* request or alarm is pending, by the callbacks of OSPlayRecord.c (which share
\* one command block, file and alarm) or by the thread that stops them.
OneAtATime == Record!OneAtATime

\* After __OSStopPlayRecord, unless it gave up waiting, nothing calls back any
\* more and the file is closed or could not be, whatever the chain of requests,
\* retries and errors was doing when the console was told to leave.
StopsCleanly == Record!StopsCleanly

\* What the way out waits for without a limit comes: SC is idle in the end, and
\* the NANDWrite and NANDClose of __OSStopPlayRecord return.
WaitsEnd == <>[]~scBusy /\ []<>(stopper \notin {"write", "close"})

\* A console on its way to the menu or to sleep gets past the play record, even
\* when a request or an alarm of the chain it stops is never answered: only SC
\* and the two calls that wait for the NAND can hold it up.
ExitIsReached ==
  WaitsEnd => (outcome \in {"wiiMenu", "off"} ~> stopper = "done")
=============================================================================
