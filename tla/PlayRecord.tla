------------------------------ MODULE PlayRecord ------------------------------
(***************************************************************************)
(* The play record (OSPlayRecord.c): from OSInit on, a chain of NAND       *)
(* requests and alarms keeps the time of play in a file, once a minute,    *)
(* until the thread that leaves the program stops it.                      *)
(*                                                                         *)
(* Every link of the chain is one call of PlayRecordCallback, by the NAND  *)
(* or by the alarm, from an interrupt: one step.  __OSStopPlayRecord runs  *)
(* in a thread with interrupts enabled but for its first part, so calls    *)
(* may land between any two of its steps.                                  *)
(***************************************************************************)
VARIABLES
  rec,     \* the variables of OSPlayRecord.c and what NAND and alarm hold
  stopper  \* where the thread in __OSStopPlayRecord is

vars == <<rec, stopper>>

\* The states with a request of the NAND, and the other states.
Request == {"open", "read", "seek", "write", "close"}
State == Request \cup {"setAlarm", "closed", "timeout", "stopped"}

\* How a request is answered; "maxfd": no file descriptor is left.
Result == {"ok", "maxfd", "bad"}

\* What the call that makes a request returns.
Reply == {"accepted", "busy", "refused"}

TypeOK ==
  /\ rec \in
      [state : State,
       get : BOOLEAN,          \* PlayRecordGet: the record has been read
       error : BOOLEAN, retry : BOOLEAN,
       terminate : BOOLEAN, terminated : BOOLEAN,
       lastError : Result,
       request : Request \cup {"none"},  \* the request the NAND works on
       alarm : BOOLEAN,        \* PlayRecordAlarm is set
       open : BOOLEAN,         \* the file is open
       closeFailed : BOOLEAN,  \* a request to close it was refused or failed
       overlap : BOOLEAN]      \* a request or an alarm was made too many
  /\ stopper \in {"no", "wait", "time", "switch", "write", "close", "finish",
                  "done"}

-----------------------------------------------------------------------------
(* PlayRecordCallback *)

Pending(r) == r.alarm \/ r.request # "none"

SetAlarm(r) == [r EXCEPT !.alarm = TRUE, !.overlap = @ \/ Pending(r)]

Send(r, request) ==
  [r EXCEPT !.request = request, !.overlap = @ \/ Pending(r)]

\* A request the NAND is too busy for is tried again after a second.
TryAgain(r) == SetAlarm([r EXCEPT !.retry = TRUE, !.lastError = "bad"])

\* NANDCloseAsync after a request was refused.  If it is refused as well
\* nothing will call back.
CloseAfterError(r, reply) ==
  LET r1 == [r EXCEPT !.state = "close"]
  IN  CASE reply = "accepted" -> Send([r1 EXCEPT !.lastError = "ok"], "close")
        [] reply = "busy" -> TryAgain(r1)
        [] reply = "refused" ->
             [r1 EXCEPT !.lastError = "bad", !.closeFailed = TRUE]

\* The second half: make the request of the state, or set the alarm of a
\* minute.
Ask(r, reply, closeReply) ==
  LET failed == [r EXCEPT !.error = TRUE]
  IN  CASE r.state = "setAlarm" -> SetAlarm([r EXCEPT !.lastError = "ok"])
        [] r.state # "setAlarm" /\ reply = "accepted" ->
             Send([r EXCEPT !.lastError = "ok"], r.state)
        [] r.state # "setAlarm" /\ reply = "busy" -> TryAgain(r)
        [] reply = "refused" /\ r.state \in {"read", "seek", "write"} ->
             CloseAfterError(failed, closeReply)
        [] OTHER ->
             [failed EXCEPT !.state = "closed", !.lastError = "bad",
                            !.closeFailed = @ \/ r.state = "close"]

\* The first half: the state after a request was answered, or the alarm of a
\* minute went off; "closed" ends the chain.  late: five minutes have passed
\* since the file was closed.
Advance(r, result, late) ==
  LET Goto(state) == [r EXCEPT !.state = state]
      Fail(state) == [r EXCEPT !.state = state, !.error = TRUE]
  IN  CASE r.state = "open" /\ result = "ok" ->
             Goto(IF r.get THEN "setAlarm" ELSE "read")
        [] r.state = "open" /\ result = "bad" -> Fail("closed")
        [] r.state = "read" /\ result = "ok" ->
             [r EXCEPT !.state = "seek", !.get = TRUE]
        [] r.state = "seek" /\ result = "ok" -> Goto("setAlarm")
        [] r.state = "setAlarm" -> Goto("write")
        [] r.state = "write" /\ result = "ok" ->
             Goto(IF late THEN "close" ELSE "seek")
        [] r.state = "close" /\ r.error -> Goto("closed")
        [] r.state = "close" /\ ~r.error /\ result = "ok" -> Goto("open")
        [] r.state = "close" /\ ~r.error /\ result # "ok" -> Fail("closed")
        [] r.state \in {"read", "seek", "write"} /\ result # "ok" -> Fail("close")
        [] OTHER -> Fail("closed")

GoOn(r, result, late, reply, closeReply) ==
  LET r1 == Advance([r EXCEPT !.lastError = result], result, late)
  IN  CASE r.retry -> Ask([r EXCEPT !.retry = FALSE], reply, closeReply)
        [] ~r.retry /\ r.state = "open" /\ result = "maxfd" ->
             SetAlarm([r EXCEPT !.retry = TRUE, !.lastError = result])
        [] OTHER -> IF r1.state = "closed" THEN r1 ELSE Ask(r1, reply, closeReply)

\* Mutant of Callback: the order to terminate is noted but not obeyed.
CallbackGoesOn(r, result, late, reply, closeReply) ==
  GoOn([r EXCEPT !.terminated = r.terminate], result, late, reply, closeReply)

Callback(r, result, late, reply, closeReply) ==
  IF r.terminate THEN [r EXCEPT !.lastError = result, !.terminated = TRUE]
  ELSE GoOn(r, result, late, reply, closeReply)

\* The NAND answers; the file is open or closed by then.
Answer(result, late, reply, closeReply) ==
  /\ rec.request # "none"
  /\ result = "maxfd" => rec.request = "open"
  /\ LET close == rec.request = "close"
         answered ==
           [rec EXCEPT !.request = "none",
                       !.open = (@ /\ ~(close /\ result = "ok"))
                                  \/ (rec.request = "open" /\ result = "ok"),
                       !.closeFailed = @ \/ (close /\ result # "ok")]
     IN  rec' = Callback(answered, result, late, reply, closeReply)
  /\ UNCHANGED stopper

\* PlayRecordAlarmCallback
AlarmCallback(late, reply, closeReply) ==
  /\ rec.alarm
  /\ rec' = Callback([rec EXCEPT !.alarm = FALSE], "ok", late, reply, closeReply)
  /\ UNCHANGED stopper

-----------------------------------------------------------------------------
(* __OSStopPlayRecord *)

\* Mutant of Stop: the alarm of a retry stays set.
StopKeepAlarm ==
  /\ stopper = "no"
  /\ LET r == [rec EXCEPT !.terminate = TRUE]
     IN  CASE rec.state \in {"closed", "stopped", "timeout"} ->
                rec' = r /\ stopper' = "finish"
           [] rec.state = "setAlarm" ->
                rec' = [r EXCEPT !.alarm = FALSE] /\ stopper' = "write"
           [] rec.state \in Request ->
                rec' = r /\ stopper' = IF rec.retry THEN "switch" ELSE "wait"

\* Its first part, with interrupts disabled.
Stop ==
  /\ stopper = "no"
  /\ LET r == [rec EXCEPT !.terminate = TRUE]
         quiet == [r EXCEPT !.alarm = FALSE]
     IN  CASE rec.state \in {"closed", "stopped", "timeout"} ->
                rec' = r /\ stopper' = "finish"
           [] rec.state = "setAlarm" -> rec' = quiet /\ stopper' = "write"
           [] rec.state \in Request /\ rec.retry ->
                rec' = quiet /\ stopper' = "switch"
           [] rec.state \in Request /\ ~rec.retry ->
                rec' = r /\ stopper' = "wait"

\* The wait for the call that says TRUE in PlayRecordTerminated.
LookForCall ==
  /\ stopper = "wait"
  /\ stopper' = IF rec.terminated THEN "switch" ELSE "time"
  /\ UNCHANGED rec

TimeLeft == stopper = "time" /\ stopper' = "wait" /\ UNCHANGED rec

\* Mutant of TimeOut: the loop is not left.
TimeOutStays ==
  /\ stopper = "time" /\ stopper' = "wait"
  /\ rec' = [rec EXCEPT !.state = "timeout"]

\* 500 ms are over.
TimeOut ==
  /\ stopper = "time" /\ stopper' = "done"
  /\ rec' = [rec EXCEPT !.state = "timeout"]

\* Is the file open?  A file being opened is when the request succeeded; one
\* being closed is when the request was still to be made again.
LeftOpen ==
  \/ rec.state \in {"read", "seek", "write"}
  \/ rec.state = "open" /\ rec.lastError = "ok" /\ ~rec.retry
  \/ rec.state = "close" /\ rec.retry

DecideClose ==
  /\ stopper = "switch"
  /\ stopper' = IF LeftOpen THEN "close" ELSE "finish"
  /\ UNCHANGED rec

\* NANDWrite of the last record, which the thread waits for, returns; its result
\* is of no matter.
WriteLast == stopper = "write" /\ stopper' = "close" /\ UNCHANGED rec

\* NANDClose, which the thread waits for, returns.
CloseFile(ok) ==
  /\ stopper = "close" /\ stopper' = "finish"
  /\ rec' = IF ok THEN [rec EXCEPT !.open = FALSE]
                  ELSE [rec EXCEPT !.closeFailed = TRUE]

Finish ==
  /\ stopper = "finish" /\ stopper' = "done"
  /\ rec' = [rec EXCEPT !.state = "stopped"]

-----------------------------------------------------------------------------
JustStarted ==
  [state |-> "open", get |-> FALSE, error |-> FALSE, retry |-> FALSE,
   terminate |-> FALSE, terminated |-> FALSE, lastError |-> "ok",
   request |-> "none", alarm |-> FALSE, open |-> FALSE, closeFailed |-> FALSE,
   overlap |-> FALSE]

\* OSInit has called __OSStartPlayRecord, whose NANDInit may have failed.
Init ==
  /\ \/ \E reply \in Reply : rec = Ask(JustStarted, reply, "accepted")
     \/ rec = [JustStarted EXCEPT !.state = "stopped"]
  /\ stopper = "no"

Calls ==
  \E late \in BOOLEAN, reply, closeReply \in Reply :
    \/ AlarmCallback(late, reply, closeReply)
    \/ \E result \in Result : Answer(result, late, reply, closeReply)

\* What the thread does by itself once it is in __OSStopPlayRecord.
Stopping == LookForCall \/ TimeLeft \/ TimeOut \/ DecideClose \/ Finish

\* The NAND answers a call the thread waits for.
Returns == WriteLast \/ \E ok \in BOOLEAN : CloseFile(ok)

Next == Calls \/ Stop \/ Stopping \/ Returns

Spec == Init /\ [][Next]_vars

-----------------------------------------------------------------------------
(* Properties *)

\* One thing at a time: no request is made and no alarm set while another
\* request or alarm is pending, by the callbacks (which share one command
\* block, file and alarm) or by the thread that stops them (which uses the
\* file while it writes and closes it).
OneAtATime ==
  /\ ~rec.overlap /\ ~(rec.alarm /\ rec.request # "none")
  /\ stopper \in {"write", "close"} => ~Pending(rec)

\* After __OSStopPlayRecord, unless it gave up waiting, nothing will call back
\* any more and the file is closed or could not be.
StopsCleanly ==
  stopper = "done" /\ rec.state # "timeout" =>
    ~Pending(rec) /\ (rec.open => rec.closeFailed)
=============================================================================
