--------------------------- MODULE ConsoleExitProofs ---------------------------
(***************************************************************************)
(* Proofs about the way out of the program.                                *)
(*                                                                         *)
(* The shutdown control: the flags never show two destinations, the        *)
(* destination taken was asked for, it is frozen once ProcessShutdown has  *)
(* seen the flag, and the hook of the buttons is renewed.                  *)
(*                                                                         *)
(* The play record does one thing at a time and is stopped cleanly.  The   *)
(* chain of callbacks is sound when what is pending belongs to the state   *)
(* it is in (Sound) and the file is open only where the stop looks for it  *)
(* (Sound's last conjunct).  A callback runs when nothing is pending,      *)
(* leaves at most one thing pending, and after the order to terminate      *)
(* leaves nothing: Called and Asked say what it starts from.               *)
(***************************************************************************)
EXTENDS ConsoleExit, TLAPS

-----------------------------------------------------------------------------
(* The shutdown control *)

\* What the stores of the main thread have done so far.  Before the second
\* store the flags may still carry what an interrupt raised after the check.
StoresInv ==
  pc = "store" =>
    /\ step \in {2, 3, 4} => flags["shutdown"]
    /\ step \in {3, 4} => ~flags["restart"]
    /\ step \in {1, 2, 3} => ~flags["wiiMenu"]
    /\ step = 4 => (flags["wiiMenu"] <=> dest = "wiiMenu")
    /\ ~flags["dataMgr"]

\* Outside the stores, a raised shutdown with no destination flag is a power
\* press; every flag that is up was asked for.
AskedInv ==
  /\ \A d \in Destination : flags[d] => d \in asked
  /\ pc \in {"check", "store"} => dest \in asked
  /\ (pc # "store" /\ flags["shutdown"] /\ \A d \in Destination : ~flags[d])
       => "off" \in asked
  /\ OutcomeWasAsked

FlagsInv ==
  /\ ~flags["shutdown"] => \A d \in Destination : ~flags[d]
  /\ pc \in {"veto", "dispatch"} => flags["shutdown"]
  /\ AtMostOneDestination

ControlInv == TypeOK /\ FlagsInv /\ StoresInv /\ AskedInv

LEMMA InitControl == Init => ControlInv
<1> SUFFICES ASSUME Init
             PROVE  ControlInv
  OBVIOUS
<1>1. flags \in [Flag -> BOOLEAN] /\ \A f \in Flag : ~flags[f]
  BY DEF Init
<1>2. registered \in BOOLEAN
  BY DEF Init
<1>3. failures \in 0..MaxFailures
  <2>1. CASE registered
    BY <2>1, MaxFailuresAssumption DEF Init
  <2>2. CASE ~registered
    BY <2>2, MaxFailuresAssumption DEF Init
  <2>3. QED
    BY <2>1, <2>2
<1>4. TypeOK
  <2>1. /\ resetCb = "default" /\ powerCb = "default" /\ powerSeen = FALSE
        /\ shutdownCallback = "none" /\ pc = "setReset" /\ dest = "wiiMenu"
        /\ step = 1 /\ asked = {} /\ outcome = "none"
    BY Zenon DEF Init
  <2>2. step \in 1..4 /\ asked \subseteq Request /\ outcome \in Request \cup {"none"}
    BY <2>1
  <2>3. QED
    BY <1>1, <1>2, <1>3, <2>1, <2>2, Zenon DEF TypeOK
<1>5. FlagsInv /\ StoresInv /\ AskedInv
  BY <1>1 DEF Init, FlagsInv, StoresInv, AskedInv, OutcomeWasAsked,
              AtMostOneDestination, Flag, Destination
<1>6. QED
  BY <1>4, <1>5 DEF ControlInv

\* What one interrupt callback does to the flags.
LEMMA RaiseKeeps ==
  ASSUME TypeOK, FlagsInv, NEW d \in {"restart", "off"}
  PROVE  /\ Raise(d) \in [Flag -> BOOLEAN]
         /\ Raise(d)["shutdown"]
         /\ flags["shutdown"] => Raise(d) = flags
         /\ ~flags["shutdown"] =>
              \A e \in Destination : Raise(d)[e] <=> e = d
<1>1. CASE flags["shutdown"]
  <2>1. Raise(d) = flags
    BY <1>1 DEF Raise
  <2>2. Raise(d) \in [Flag -> BOOLEAN]
    BY <2>1 DEF TypeOK
  <2>3. Raise(d)["shutdown"]
    BY <1>1, <2>1, Zenon
  <2>4. QED
    BY <1>1, <2>1, <2>2, <2>3, Zenon
<1>2. CASE ~flags["shutdown"]
  <2>1. Raise(d) = [f \in Flag |-> f \in {"shutdown", d}]
    BY <1>2 DEF Raise
  <2>2. \A f \in Flag : Raise(d)[f] = (f \in {"shutdown", d})
    BY <2>1, Zenon
  <2>3. Raise(d) \in [Flag -> BOOLEAN]
    BY <2>1
  <2>4. Raise(d)["shutdown"]
    BY <2>2 DEF Flag
  <2>5. \A e \in Destination : Raise(d)[e] <=> e = d
    BY <2>2 DEF Flag, Destination
  <2>6. QED
    BY <1>2, <2>3, <2>4, <2>5
<1>3. QED
  BY <1>1, <1>2

\* Registering the event hook keeps the types of its two variables.
LEMMA RegisterKeeps ==
  ASSUME TypeOK, RegisterStateEvent
  PROVE  registered' \in BOOLEAN /\ failures' \in 0..MaxFailures
<1>1. registered' \in BOOLEAN
  BY Zenon DEF RegisterStateEvent
<1>2. failures' = failures \/ (failures < MaxFailures /\ failures' = failures + 1)
  BY Zenon DEF RegisterStateEvent
<1>3. failures \in 0..MaxFailures
  BY Zenon DEF TypeOK
<1>4. failures' \in 0..MaxFailures
  BY <1>2, <1>3, MaxFailuresAssumption
<1>5. QED
  BY <1>1, <1>4

LEMMA InterruptControl == ControlInv /\ (ResetEvent \/ PowerEvent) => ControlInv'
<1> SUFFICES ASSUME ControlInv, ResetEvent \/ PowerEvent
             PROVE  ControlInv'
  OBVIOUS
<1> USE DEF ControlInv
<1>1. TypeOK'
  <2>1. flags' \in [Flag -> BOOLEAN] /\ asked' \subseteq Request
    BY RaiseKeeps DEF TypeOK, ResetEvent, PowerEvent, Request, Destination
  <2>2. registered' \in BOOLEAN /\ failures' \in 0..MaxFailures
    <3>1. CASE ResetEvent
      BY <3>1, RegisterKeeps DEF ResetEvent
    <3>2. CASE PowerEvent
      BY <3>2, Zenon DEF PowerEvent, TypeOK
    <3>3. QED
      BY <3>1, <3>2
  <2>3. /\ resetCb' \in {"default", "trc"} /\ powerCb' \in {"default", "trc"}
        /\ powerSeen' \in BOOLEAN
        /\ UNCHANGED <<shutdownCallback, pc, dest, step, outcome>>
    BY DEF TypeOK, ResetEvent, PowerEvent
  <2>4. QED
    BY <2>1, <2>2, <2>3 DEF TypeOK
<1>2. \/ UNCHANGED <<flags, asked>>
      \/ \E d \in {"restart", "off"} :
            flags' = Raise(d) /\ asked' = asked \cup {d}
  BY DEF ResetEvent, PowerEvent
<1>3. UNCHANGED <<pc, dest, step, outcome>>
  BY DEF ResetEvent, PowerEvent
<1>4. CASE UNCHANGED <<flags, asked>>
  <2>1. FlagsInv'
    BY <1>3, <1>4 DEF FlagsInv, AtMostOneDestination
  <2>2. StoresInv'
    BY <1>3, <1>4 DEF StoresInv
  <2>3. AskedInv'
    BY <1>3, <1>4 DEF AskedInv, OutcomeWasAsked
  <2>4. QED
    BY <1>1, <2>1, <2>2, <2>3
<1>5. ASSUME NEW d \in {"restart", "off"},
             flags' = Raise(d), asked' = asked \cup {d}
      PROVE  ControlInv'
  <2>1. CASE flags["shutdown"]
    <3>1. flags' = flags
      BY <2>1, <1>5, RaiseKeeps
    <3>2. QED
      BY <3>1, <1>1, <1>3, <1>5
         DEF FlagsInv, StoresInv, AskedInv, OutcomeWasAsked, AtMostOneDestination
  <2>2. CASE ~flags["shutdown"]
    <3>1. \A e \in Destination : ~flags[e] /\ (flags'[e] <=> e = d)
      BY <2>2, <1>5, RaiseKeeps DEF FlagsInv
    <3>2. flags'["shutdown"]
      BY <1>5, RaiseKeeps
    <3>3. FlagsInv'
      BY <3>1, <3>2, <1>3 DEF FlagsInv, AtMostOneDestination
    <3>4. StoresInv'
      BY <3>1, <3>2, <2>2, <1>3 DEF StoresInv, TypeOK, Destination
    <3>5. AskedInv'
      BY <3>1, <3>2, <1>3, <1>5 DEF AskedInv, OutcomeWasAsked, Destination
    <3>6. QED
      BY <1>1, <3>3, <3>4, <3>5
  <2>3. QED
    BY <2>1, <2>2
<1>6. QED
  BY <1>2, <1>4, <1>5

LEMMA StoreControl == ControlInv /\ CallbackStore => ControlInv'
<1> SUFFICES ASSUME ControlInv, CallbackStore
             PROVE  ControlInv'
  OBVIOUS
<1> USE DEF ControlInv
<1>1. /\ pc = "store" /\ step \in 1..4 /\ dest \in {"wiiMenu", "dataMgr"}
      /\ flags' = [flags EXCEPT ![FlagOrder[step]] = StoredValue(step)]
      /\ UNCHANGED <<dest, asked, outcome, failures, registered, powerSeen,
                     shutdownCallback, resetCb, powerCb>>
      /\ step = 4 => pc' = "poll" /\ step' = 1
      /\ step # 4 => pc' = "store" /\ step' = step + 1
  BY DEF CallbackStore, TypeOK, hookVars
<1>2. CASE step = 1
  <2>1. pc' = "store" /\ step' = 2
    BY <1>1, <1>2
  <2>2. flags' = [flags EXCEPT !["shutdown"] = TRUE]
    <3>1. FlagOrder[1] = "shutdown"
      BY DEF FlagOrder
    <3>2. StoredValue(1) = TRUE
      BY <3>1, <1>1 DEF StoredValue
    <3>3. QED
      BY <1>1, <1>2, <3>1, <3>2, Zenon
  <2>3. /\ flags' \in [Flag -> BOOLEAN]
        /\ flags'["shutdown"] = TRUE
        /\ \A f \in Flag \ {"shutdown"} : flags'[f] = flags[f]
    BY <2>2 DEF TypeOK, Flag
  <2>4. TypeOK'
    BY <1>1, <2>1, <2>3 DEF TypeOK
  <2>5. FlagsInv'
    BY <1>1, <1>2, <2>1, <2>3
       DEF FlagsInv, StoresInv, AtMostOneDestination, Flag, Destination
  <2>6. StoresInv'
    BY <1>1, <1>2, <2>1, <2>3 DEF StoresInv, FlagsInv, Flag, Destination
  <2>7. AskedInv'
    BY <1>1, <1>2, <2>1, <2>3
       DEF AskedInv, StoresInv, OutcomeWasAsked, Flag, Destination
  <2>8. QED
    BY <2>4, <2>5, <2>6, <2>7
<1>3. CASE step = 2
  <2>1. pc' = "store" /\ step' = 3
    BY <1>1, <1>3
  <2>2. flags' = [flags EXCEPT !["restart"] = FALSE]
    <3>1. FlagOrder[2] = "restart"
      BY DEF FlagOrder
    <3>2. StoredValue(2) = FALSE
      BY <3>1, <1>1 DEF StoredValue
    <3>3. QED
      BY <1>1, <1>3, <3>1, <3>2, Zenon
  <2>3. /\ flags' \in [Flag -> BOOLEAN]
        /\ flags'["restart"] = FALSE
        /\ \A f \in Flag \ {"restart"} : flags'[f] = flags[f]
    BY <2>2 DEF TypeOK, Flag
  <2>4. TypeOK'
    BY <1>1, <2>1, <2>3 DEF TypeOK
  <2>5. FlagsInv'
    BY <1>1, <1>3, <2>1, <2>3
       DEF FlagsInv, StoresInv, AtMostOneDestination, Flag, Destination
  <2>6. StoresInv'
    BY <1>1, <1>3, <2>1, <2>3 DEF StoresInv, FlagsInv, Flag, Destination
  <2>7. AskedInv'
    BY <1>1, <1>3, <2>1, <2>3
       DEF AskedInv, StoresInv, OutcomeWasAsked, Flag, Destination
  <2>8. QED
    BY <2>4, <2>5, <2>6, <2>7
<1>4. CASE step = 3
  <2>1. pc' = "store" /\ step' = 4
    BY <1>1, <1>4
  <2>2. flags' = [flags EXCEPT !["wiiMenu"] = (dest = "wiiMenu")]
    <3>1. FlagOrder[3] = "wiiMenu"
      BY DEF FlagOrder
    <3>2. StoredValue(3) = (dest = "wiiMenu")
      BY <3>1, <1>1 DEF StoredValue
    <3>3. QED
      BY <1>1, <1>4, <3>1, <3>2, Zenon
  <2>3. /\ flags' \in [Flag -> BOOLEAN]
        /\ flags'["wiiMenu"] = (dest = "wiiMenu")
        /\ \A f \in Flag \ {"wiiMenu"} : flags'[f] = flags[f]
    BY <2>2 DEF TypeOK, Flag
  <2>4. TypeOK'
    BY <1>1, <2>1, <2>3 DEF TypeOK
  <2>5. FlagsInv'
    BY <1>1, <1>4, <2>1, <2>3
       DEF FlagsInv, StoresInv, AtMostOneDestination, Flag, Destination
  <2>6. StoresInv'
    BY <1>1, <1>4, <2>1, <2>3 DEF StoresInv, FlagsInv, Flag, Destination
  <2>7. AskedInv'
    BY <1>1, <1>4, <2>1, <2>3
       DEF AskedInv, StoresInv, OutcomeWasAsked, Flag, Destination
  <2>8. QED
    BY <2>4, <2>5, <2>6, <2>7
<1>5. CASE step = 4
  <2>1. pc' = "poll" /\ step' = 1
    BY <1>1, <1>5
  <2>2. flags' = [flags EXCEPT !["dataMgr"] = (dest = "dataMgr")]
    <3>1. FlagOrder[4] = "dataMgr"
      BY DEF FlagOrder
    <3>2. StoredValue(4) = (dest = "dataMgr")
      BY <3>1, <1>1 DEF StoredValue
    <3>3. QED
      BY <1>1, <1>5, <3>1, <3>2, Zenon
  <2>3. /\ flags' \in [Flag -> BOOLEAN]
        /\ flags'["dataMgr"] = (dest = "dataMgr")
        /\ \A f \in Flag \ {"dataMgr"} : flags'[f] = flags[f]
    BY <2>2 DEF TypeOK, Flag
  <2>4. TypeOK'
    BY <1>1, <2>1, <2>3 DEF TypeOK
  <2>5. FlagsInv'
    BY <1>1, <1>5, <2>1, <2>3
       DEF FlagsInv, StoresInv, AtMostOneDestination, Flag, Destination
  <2>6. StoresInv'
    BY <1>1, <1>5, <2>1, <2>3 DEF StoresInv, FlagsInv, Flag, Destination
  <2>7. AskedInv'
    BY <1>1, <1>5, <2>1, <2>3
       DEF AskedInv, StoresInv, OutcomeWasAsked, Flag, Destination
  <2>8. QED
    BY <2>4, <2>5, <2>6, <2>7
<1>6. QED
  BY <1>1, <1>2, <1>3, <1>4, <1>5

\* The actions of the main thread that leave the flags alone.
LEMMA QuietControl ==
  ASSUME ControlInv, MainThread, ~CallbackStore
  PROVE  ControlInv'
<1> USE DEF ControlInv
<1>1. CASE SetResetCallback \/ SetPowerCallback
  <2>1. /\ pc' \in {"setPower", "update"}
        /\ UNCHANGED <<flags, dest, step, asked, outcome>>
    BY <1>1 DEF SetResetCallback, SetPowerCallback
  <2>2. registered' \in BOOLEAN /\ failures' \in 0..MaxFailures
    <3>1. RegisterIfNeeded
      BY <1>1 DEF SetResetCallback, SetPowerCallback
    <3>2. CASE registered
      BY <3>1, <3>2 DEF RegisterIfNeeded, TypeOK
    <3>3. CASE ~registered
      BY <3>1, <3>3, RegisterKeeps DEF RegisterIfNeeded
    <3>4. QED
      BY <3>2, <3>3
  <2>3. TypeOK'
    BY <1>1, <2>1, <2>2 DEF SetResetCallback, SetPowerCallback, TypeOK
  <2>4. FlagsInv' /\ StoresInv'
    BY <2>1 DEF FlagsInv, StoresInv, AtMostOneDestination
  <2>5. pc # "store"
    BY <1>1 DEF SetResetCallback, SetPowerCallback
  <2>6. AskedInv'
    BY <2>1, <2>5 DEF AskedInv, OutcomeWasAsked
  <2>7. QED
    BY <2>3, <2>4, <2>6
<1>2. CASE IdleUpdate \/ \E c \in {"none", "game"} : SetShutdownCallback(c)
  BY <1>2 DEF IdleUpdate, SetShutdownCallback, hookVars, TypeOK, FlagsInv,
              StoresInv, AskedInv, OutcomeWasAsked, AtMostOneDestination
<1>3. CASE \E t \in BoxType, r \in Response : CloseBox(t, r)
  <2>1. /\ pc = "update"
        /\ UNCHANGED <<flags, hookVars, shutdownCallback, step, outcome>>
        /\ \/ pc' = "poll" /\ UNCHANGED <<dest, asked>>
           \/ /\ pc' = "check" /\ dest' \in {"wiiMenu", "dataMgr"}
              /\ asked' = asked \cup {dest'}
    BY <1>3 DEF CloseBox, CloseCalls
  <2>2. TypeOK'
    BY ZenonT(40), <2>1 DEF hookVars, TypeOK, Request, Destination
  <2>3. FlagsInv' /\ StoresInv'
    BY <2>1 DEF FlagsInv, StoresInv, AtMostOneDestination
  <2>4. asked \subseteq asked' /\ (pc' = "check" => dest' \in asked')
    BY <2>1
  <2>5. AskedInv'
    BY <2>1, <2>4 DEF AskedInv, OutcomeWasAsked
  <2>6. QED
    BY <2>2, <2>3, <2>5
<1>4. CASE CallbackCheck
  BY <1>4 DEF CallbackCheck, hookVars, TypeOK, FlagsInv, StoresInv, AskedInv,
              OutcomeWasAsked, AtMostOneDestination, Destination
<1>5. CASE PollShutdown \/ AskVeto
  BY <1>5 DEF PollShutdown, AskVeto, hookVars, TypeOK, FlagsInv, StoresInv,
              AskedInv, OutcomeWasAsked, AtMostOneDestination
<1>6. CASE Dispatch
  <2>1. Chosen \in asked /\ Chosen \in Request
    BY <1>6 DEF Dispatch, Chosen, FlagsInv, AskedInv, Destination, Request
  <2>2. QED
    BY <1>6, <2>1
       DEF Dispatch, hookVars, TypeOK, FlagsInv, StoresInv, AskedInv,
           OutcomeWasAsked, AtMostOneDestination
<1>7. QED
  BY <1>1, <1>2, <1>3, <1>4, <1>5, <1>6 DEF MainThread

LEMMA NextControl == ControlInv /\ [Next]_vars => ControlInv'
<1> SUFFICES ASSUME ControlInv, [Next]_vars
             PROVE  ControlInv'
  OBVIOUS
<1>1. CASE UNCHANGED vars
  BY <1>1 DEF vars, ControlInv, TypeOK, FlagsInv, StoresInv, AskedInv,
              OutcomeWasAsked, AtMostOneDestination
<1>2. QED
  BY <1>1, InterruptControl, StoreControl, QuietControl DEF Next

\* Each step of the whole is one of the shutdown control, or none for it.
LEMMA ExitControls == ExitSpec => Spec
<1>1. ExitInit => Init
  BY DEF ExitInit
<1>2. [ExitNext]_exitVars => [Next]_vars
  BY DEF ExitNext, RunControl, EnterStop, RunStop, ScJob, Next, exitVars, vars
<1>3. QED
  BY <1>1, <1>2, PTL DEF ExitSpec, Spec

\* The inductive invariant holds in every behaviour.
THEOREM ControlInvariance == ExitSpec => []ControlInv
BY InitControl, NextControl, ExitControls, PTL DEF Spec

\* Every variable keeps its type (the state of PowerControl.cpp and
\* OSStateTM.c).
THEOREM TypeCorrect == ExitSpec => []TypeOK
BY ControlInvariance, PTL DEF ControlInv

\* No interleaving of the callbacks shows two destinations at once
\* (PowerControl.cpp, the four callbacks).
THEOREM OneDestination == ExitSpec => []AtMostOneDestination
<1>1. ControlInv => AtMostOneDestination
  BY DEF ControlInv, FlagsInv
<1>2. QED
  BY ControlInvariance, <1>1, PTL

\* ProcessShutdown goes only where a callback asked to go.
THEOREM AskedFor == ExitSpec => []OutcomeWasAsked
<1>1. ControlInv => OutcomeWasAsked
  BY DEF ControlInv, AskedInv
<1>2. QED
  BY ControlInvariance, <1>1, PTL

\* The hook is renewed after any number of reset presses, so the power button
\* works while no registration failed (OSStateTM.c, __OSStateEventHandler).
THEOREM PowerButtonWorks == ExitSpec => []PowerButtonArmed
<1>1. Init => PowerButtonArmed
  BY DEF Init, PowerButtonArmed
<1>2. ControlInv /\ PowerButtonArmed /\ [Next]_vars => PowerButtonArmed'
  <2> SUFFICES ASSUME ControlInv, PowerButtonArmed, [Next]_vars
               PROVE  PowerButtonArmed'
    OBVIOUS
  <2>1. CASE UNCHANGED vars
    BY <2>1 DEF vars, PowerButtonArmed
  <2>2. CASE ResetEvent \/ SetResetCallback \/ SetPowerCallback
    <3>1. failures \in Nat
      BY MaxFailuresAssumption DEF ControlInv, TypeOK
    <3>2. powerSeen' = powerSeen
      BY <2>2 DEF ResetEvent, SetResetCallback, SetPowerCallback
    <3>3. \/ registered' \/ failures' = failures + 1
          \/ UNCHANGED <<registered, failures>>
      BY <2>2 DEF ResetEvent, SetResetCallback, SetPowerCallback,
                  RegisterIfNeeded, RegisterStateEvent
    <3>4. QED
      BY <3>1, <3>2, <3>3 DEF PowerButtonArmed
  <2>3. CASE PowerEvent
    BY <2>3 DEF PowerEvent, PowerButtonArmed
  <2>4. CASE UNCHANGED hookVars
    BY <2>4 DEF hookVars, PowerButtonArmed
  <2>5. MainThread => SetResetCallback \/ SetPowerCallback \/ UNCHANGED hookVars
    BY DEF MainThread, IdleUpdate, SetShutdownCallback, CloseBox, CallbackCheck,
           CallbackStore, PollShutdown, AskVeto, Dispatch
  <2>6. QED
    BY <2>1, <2>2, <2>3, <2>4, <2>5 DEF Next
<1>3. QED
  BY <1>1, <1>2, ControlInvariance, ExitControls, PTL DEF Spec

\* A destination ProcessShutdown has seen once stays for ever, through every
\* later press, message box and frame: outside the stores of its callbacks the
\* main thread finds the flag up and writes nothing.
THEOREM Frozen == ExitSpec => DestinationFrozen
<1> SUFFICES ASSUME NEW CONSTANT f \in [Flag -> BOOLEAN]
             PROVE  ExitSpec => [](pc = "veto" /\ flags = f => [](flags = f))
  BY DEF DestinationFrozen
<1> DEFINE Fixed == flags = f /\ flags["shutdown"] /\ pc # "store"
<1>1. ControlInv /\ pc = "veto" /\ flags = f => Fixed
  BY DEF ControlInv, FlagsInv
<1>2. Fixed /\ [Next]_vars => Fixed'
  <2> SUFFICES ASSUME Fixed, [Next]_vars  PROVE Fixed'
    OBVIOUS
  <2>1. \A e \in {"restart", "off"} : Raise(e) = flags
    BY DEF Raise
  <2> QED
    BY <2>1 DEF Next, vars, MainThread, ResetEvent, PowerEvent,
       SetResetCallback, SetPowerCallback, IdleUpdate, SetShutdownCallback,
       CloseBox, CallbackCheck, CallbackStore, PollShutdown, AskVeto, Dispatch
<1>3. Fixed => flags = f
  OBVIOUS
<1> HIDE DEF Fixed
<1> QED
  BY <1>1, <1>2, <1>3, ControlInvariance, ExitControls, PTL DEF Spec

-----------------------------------------------------------------------------
(* The play record *)

Rec ==
  [state : Record!State, get : BOOLEAN, error : BOOLEAN, retry : BOOLEAN,
   terminate : BOOLEAN, terminated : BOOLEAN, lastError : Record!Result,
   request : Record!Request \cup {"none"}, alarm : BOOLEAN, open : BOOLEAN,
   closeFailed : BOOLEAN, overlap : BOOLEAN]

\* What is true of the record between any two steps.
Sound(r) ==
  /\ r \in Rec
  /\ ~r.overlap /\ ~(r.alarm /\ r.request # "none")
  /\ r.request # "none" => ~r.retry /\ r.state \in {r.request, "timeout"}
  /\ r.alarm => r.state = "setAlarm" \/ (r.state \in Record!Request /\ r.retry)
  /\ r.retry => r.state \in Record!Request \cup {"stopped", "timeout"}
  /\ r.terminated => r.terminate /\ ~Record!Pending(r)
  /\ r.open /\ ~r.closeFailed =>
       \/ r.state \in {"read", "seek", "write", "setAlarm", "timeout"}
       \/ r.state = "open" /\ r.lastError = "ok" /\ ~r.retry /\ r.terminated
       \/ r.state = "close" /\ (r.retry \/ r.request = "close")

\* ... and where the thread that stops it is.
Stopped ==
  /\ stopper \in {"no", "wait", "time", "switch", "write", "close", "finish",
                  "done"}
  /\ stopper = "no" <=> ~rec.terminate
  /\ rec.state = "timeout" => stopper = "done"
  /\ stopper \in {"wait", "time"} => rec.state \in Record!Request /\ ~rec.retry
  /\ stopper = "switch" =>
       /\ rec.state \in Record!Request
       /\ ~Record!Pending(rec) /\ (rec.retry \/ rec.terminated)
  /\ stopper \in {"write", "close"} => ~Record!Pending(rec)
  /\ stopper = "finish" \/ (stopper = "done" /\ rec.state # "timeout") =>
       ~Record!Pending(rec) /\ (rec.open => rec.closeFailed)

RecordInv == Sound(rec) /\ Stopped

\* A record whose state asks for a request or an alarm.
Asked(r) ==
  /\ r \in Rec /\ ~r.overlap /\ ~Record!Pending(r)
  /\ r.state \in Record!Request \cup {"setAlarm"}
  /\ ~r.retry /\ ~r.terminate /\ ~r.terminated
  /\ r.open /\ ~r.closeFailed => r.state # "open"

\* A record at the moment a callback is called, before the order to terminate.
Called(r, result) ==
  /\ r \in Rec /\ result \in Record!Result /\ ~r.overlap /\ ~Record!Pending(r)
  /\ r.state \in Record!Request \cup {"setAlarm"}
  /\ r.retry => r.state # "setAlarm"
  /\ ~r.terminate /\ ~r.terminated
  /\ result = "maxfd" => r.state = "open"
  /\ r.open /\ ~r.closeFailed =>
       /\ r.state = "open" => result = "ok" /\ ~r.retry
       /\ r.state = "close" => r.retry

-----------------------------------------------------------------------------
\* Whatever the NAND says to the request, the record is sound afterwards.
LEMMA AskSound ==
  ASSUME NEW r, Asked(r), NEW reply \in Record!Reply,
         NEW closeReply \in Record!Reply
  PROVE  /\ Sound(Record!Ask(r, reply, closeReply))
         /\ ~Record!Ask(r, reply, closeReply).terminate
         /\ Record!Ask(r, reply, closeReply).state # "timeout"
  <1> DEFINE s == Record!Ask(r, reply, closeReply)
  <1> SUFFICES Sound(s) /\ ~s.terminate /\ s.state # "timeout"
    OBVIOUS
  <1> USE DEF Asked, Sound, Rec, Record!State, Record!Request, Record!Result,
              Record!Reply, Record!Pending, Record!Ask, Record!SetAlarm,
              Record!Send, Record!TryAgain, Record!CloseAfterError
  <1>1. CASE r.state = "setAlarm"
    BY <1>1
  <1>2. CASE r.state # "setAlarm" /\ reply = "accepted"
    <2>1. s = [r EXCEPT !.lastError = "ok", !.request = r.state,
                        !.overlap = FALSE]
      BY <1>2
    <2> HIDE DEF s, Record!Ask
    <2>2. /\ s \in Rec /\ s.request = r.state /\ s.state = r.state
          /\ s.lastError = "ok" /\ ~s.overlap
          /\ s.retry = r.retry /\ s.alarm = r.alarm /\ s.open = r.open
          /\ s.closeFailed = r.closeFailed
          /\ s.terminate = r.terminate /\ s.terminated = r.terminated
      BY <1>2, <2>1
    <2>3. Sound(s)
      BY <1>2, <2>2
    <2> QED
      BY <1>2, <2>2, <2>3
  <1>3. CASE r.state # "setAlarm" /\ reply = "busy"
    <2>1. s = [r EXCEPT !.retry = TRUE, !.lastError = "bad", !.alarm = TRUE,
                        !.overlap = FALSE]
      BY <1>3
    <2> HIDE DEF s, Record!Ask
    <2>2. /\ s \in Rec /\ s.state = r.state /\ s.request = "none" /\ ~s.overlap
          /\ s.alarm /\ s.retry /\ ~s.terminate /\ ~s.terminated
          /\ s.open = r.open /\ s.closeFailed = r.closeFailed
      BY <1>3, <2>1
    <2> QED  BY <1>3, <2>2
  <1>4. CASE reply = "refused" /\ r.state \in {"read", "seek", "write"}
    <2> DEFINE r1 == [r EXCEPT !.error = TRUE, !.state = "close"]
    <2>1. /\ r1 \in Rec /\ r1.state = "close" /\ ~r1.overlap /\ ~r1.alarm
          /\ r1.request = "none" /\ r1.open = r.open /\ ~r1.retry
          /\ r1.closeFailed = r.closeFailed /\ ~r1.terminate /\ ~r1.terminated
      BY <1>4
    <2>2. s = Record!CloseAfterError(r1, closeReply)
      BY <1>4
    <2> HIDE DEF r1, s
    <2>3. CASE closeReply = "accepted"
      <3>1. s = [r1 EXCEPT !.lastError = "ok", !.request = "close", !.overlap = FALSE]
        BY <2>1, <2>2, <2>3
      <3>2. /\ s \in Rec /\ s.state = "close" /\ s.request = "close" /\ ~s.overlap
            /\ ~s.alarm /\ ~s.retry /\ ~s.terminate /\ ~s.terminated
        BY <2>1, <3>1
      <3> QED  BY <3>2
    <2>4. CASE closeReply = "busy"
      <3>1. s = [r1 EXCEPT !.lastError = "bad", !.retry = TRUE, !.alarm = TRUE,
                           !.overlap = FALSE]
        BY <2>1, <2>2, <2>4
      <3>2. /\ s \in Rec /\ s.state = "close" /\ s.request = "none" /\ ~s.overlap
            /\ s.alarm /\ s.retry /\ ~s.terminate /\ ~s.terminated
        BY <2>1, <3>1
      <3> QED  BY <3>2
    <2>5. CASE closeReply = "refused"
      <3>1. s = [r1 EXCEPT !.lastError = "bad", !.closeFailed = TRUE]
        BY <2>1, <2>2, <2>5
      <3>2. /\ s \in Rec /\ s.state = "close" /\ s.request = "none" /\ ~s.overlap
            /\ ~s.alarm /\ ~s.retry /\ ~s.terminate /\ ~s.terminated
            /\ s.closeFailed
        BY <2>1, <3>1
      <3> QED  BY <3>2
    <2> QED
      BY <2>3, <2>4, <2>5
  <1>5. CASE reply = "refused" /\ r.state \in {"open", "close"}
    <2>1. s = [r EXCEPT !.error = TRUE, !.state = "closed", !.lastError = "bad",
                        !.closeFailed = @ \/ r.state = "close"]
      BY SMTT(30), <1>5
    <2> HIDE DEF s, Record!Ask
    <2>2. /\ s \in Rec /\ s.state = "closed" /\ s.request = "none" /\ ~s.overlap
          /\ ~s.alarm /\ ~s.retry /\ ~s.terminate /\ ~s.terminated
          /\ s.open = r.open /\ s.closeFailed = (r.closeFailed \/ r.state = "close")
      BY ZenonT(40), <1>5, <2>1
    <2> QED  BY <1>5, <2>2
  <1> QED
    BY <1>1, <1>2, <1>3, <1>4, <1>5

\* The state after an answer is "closed" or asks for something.
LEMMA AdvanceAsks ==
  ASSUME NEW r, NEW result, Called(r, result), ~r.retry,
         ~(r.state = "open" /\ result = "maxfd"), NEW late \in BOOLEAN
  PROVE  LET s == Record!Advance([r EXCEPT !.lastError = result], result, late)
         IN  IF s.state = "closed"
               THEN Sound(s) /\ ~s.terminate
               ELSE Asked(s)
  <1> USE DEF Called, Asked, Sound, Rec, Record!State, Record!Request,
              Record!Result, Record!Pending, Record!Advance
  <1>1. CASE r.state = "open"
    BY ZenonT(40), <1>1
  <1>2. CASE r.state = "setAlarm"
    BY ZenonT(40), <1>2
  <1>3. CASE r.state \in {"read", "seek", "write"}
    <2>1. CASE result # "ok"
      BY ZenonT(40), <1>3, <2>1
    <2>2. CASE result = "ok" /\ r.state = "read"
      BY <2>2
    <2>3. CASE result = "ok" /\ r.state = "seek"
      BY ZenonT(40), <2>3
    <2>4. CASE result = "ok" /\ r.state = "write"
      BY ZenonT(40), <2>4
    <2> QED  BY ZenonT(40), <1>3, <2>1, <2>2, <2>3, <2>4
  <1>4. CASE r.state = "close"
    <2>1. CASE r.error
      BY <1>4, <2>1
    <2>2. CASE ~r.error /\ result = "ok"
      BY <1>4, <2>2
    <2>3. CASE ~r.error /\ result # "ok"
      BY <1>4, <2>3
    <2> QED  BY ZenonT(40), <2>1, <2>2, <2>3
  <1> QED
    BY ZenonT(40), <1>1, <1>2, <1>3, <1>4

LEMMA GoOnSound ==
  ASSUME NEW r, NEW result, Called(r, result), NEW late \in BOOLEAN,
         NEW reply \in Record!Reply, NEW closeReply \in Record!Reply
  PROVE  LET s == Record!GoOn(r, result, late, reply, closeReply)
         IN  Sound(s) /\ ~s.terminate /\ s.state # "timeout"
  <1> DEFINE r1 == Record!Advance([r EXCEPT !.lastError = result], result, late)
  <1>1. CASE r.retry
    <2>1. Asked([r EXCEPT !.retry = FALSE])
      BY <1>1 DEF Called, Asked, Rec, Record!Pending, Record!Request
    <2> QED
      BY <1>1, <2>1, AskSound DEF Record!GoOn
  <1>2. CASE ~r.retry /\ r.state = "open" /\ result = "maxfd"
    BY <1>2 DEF Record!GoOn, Record!SetAlarm, Called, Sound, Rec, Record!Pending,
                Record!Request, Record!State
  <1>3. CASE ~r.retry /\ ~(r.state = "open" /\ result = "maxfd")
    <2>1. IF r1.state = "closed" THEN Sound(r1) /\ ~r1.terminate ELSE Asked(r1)
      BY <1>3, AdvanceAsks
    <2>2. CASE r1.state = "closed"
      BY <1>3, <2>1, <2>2 DEF Record!GoOn
    <2>3. CASE r1.state # "closed"
      BY <1>3, <2>1, <2>3, AskSound DEF Record!GoOn
    <2> QED
      BY <2>2, <2>3
  <1> QED
    BY <1>1, <1>2, <1>3

LEMMA InitSound == ExitInit => RecordInv
  <1> SUFFICES ASSUME ExitInit PROVE RecordInv
    OBVIOUS
  <1>1. CASE \E reply \in Record!Reply :
               rec = Record!Ask(Record!JustStarted, reply, "accepted")
    <2>1. Asked(Record!JustStarted)
      BY DEF Asked, Rec, Record!JustStarted, Record!State, Record!Request,
             Record!Result, Record!Pending
    <2>2. Sound(rec) /\ ~rec.terminate /\ rec.state # "timeout"
      BY <1>1, <2>1, AskSound DEF Record!Reply
    <2> QED
      BY <2>2 DEF ExitInit, Record!Init, RecordInv, Stopped
  <1>2. CASE rec = [Record!JustStarted EXCEPT !.state = "stopped"]
    BY <1>2 DEF ExitInit, Record!Init, RecordInv, Stopped, Sound, Rec,
                Record!JustStarted, Record!State, Record!Request,
                Record!Result, Record!Pending
  <1> QED
    BY <1>1, <1>2 DEF ExitInit, Record!Init

\* The NAND answers: the request is over before the callback looks.
LEMMA AnswerSound ==
  ASSUME RecordInv, NEW result \in Record!Result, NEW late \in BOOLEAN,
         NEW reply \in Record!Reply, NEW closeReply \in Record!Reply,
         Record!Answer(result, late, reply, closeReply)
  PROVE  RecordInv'
  <1> DEFINE close == rec.request = "close"
             answered ==
               [rec EXCEPT !.request = "none",
                           !.open = (@ /\ ~(close /\ result = "ok"))
                                      \/ (rec.request = "open" /\ result = "ok"),
                           !.closeFailed = @ \/ (close /\ result # "ok")]
  <1>1. /\ rec' = Record!Callback(answered, result, late, reply, closeReply)
        /\ rec.request # "none" /\ (result = "maxfd" => rec.request = "open")
        /\ stopper' = stopper
    BY DEF Record!Answer
  <1>2. /\ answered \in Rec /\ answered.terminate = rec.terminate
        /\ answered.request = "none" /\ answered.alarm = rec.alarm
        /\ answered.state = rec.state /\ answered.retry = rec.retry
        /\ answered.terminated = rec.terminated /\ ~answered.overlap
    <2>1. rec \in Rec /\ ~rec.overlap
      BY DEF RecordInv, Sound
    <2> DEFINE o == (rec.open /\ ~(close /\ result = "ok"))
                      \/ (rec.request = "open" /\ result = "ok")
               f == rec.closeFailed \/ (close /\ result # "ok")
    <2>2. o \in BOOLEAN /\ f \in BOOLEAN
      OBVIOUS
    <2>3. answered = [rec EXCEPT !.request = "none", !.open = o, !.closeFailed = f]
      BY <2>1 DEF Rec
    <2> HIDE DEF o, f, answered
    <2> QED  BY <2>1, <2>2, <2>3 DEF Rec
  <1>7. answered.open => \/ rec.open /\ ~(close /\ result = "ok")
                         \/ rec.request = "open" /\ result = "ok"
    BY DEF RecordInv, Sound, Rec
  <1>8. ~answered.closeFailed => ~rec.closeFailed /\ ~(close /\ result # "ok")
    BY DEF RecordInv, Sound, Rec
  <1> HIDE DEF answered
  <1>3. ~rec.terminate => Called(answered, result)
    BY <1>1, <1>2, <1>7, <1>8 DEF RecordInv, Sound, Stopped, Called, Rec, Record!Pending,
                      Record!Request, Record!State
  <1>4. CASE rec.terminate
    <2>1. rec' = [answered EXCEPT !.lastError = result, !.terminated = TRUE]
      BY <1>1, <1>2, <1>4 DEF Record!Callback
    <2>4. /\ rec' \in Rec /\ rec'.state = answered.state /\ rec'.request = "none"
          /\ rec'.alarm = answered.alarm /\ ~rec'.overlap /\ rec'.retry = answered.retry
          /\ rec'.terminate /\ rec'.terminated /\ rec'.open = answered.open
          /\ rec'.closeFailed = answered.closeFailed /\ rec'.lastError = result
      BY <1>2, <1>4, <2>1 DEF Rec
    <2>5. ~answered.alarm /\ ~answered.retry
      BY <1>1, <1>2 DEF RecordInv, Sound
    <2>2. Sound(rec)'
      BY <1>1, <1>2, <1>7, <1>8, <1>4, <2>4, <2>5
         DEF RecordInv, Sound, Record!Pending, Record!Request
    <2>3. Stopped'
      BY <1>1, <1>2, <1>7, <1>8, <1>4, <2>1 DEF RecordInv, Sound, Stopped, Rec, Record!Pending,
                      Record!Request, Record!State
    <2> QED
      BY <2>2, <2>3 DEF RecordInv
  <1>5. CASE ~rec.terminate
    <2>1. rec' = Record!GoOn(answered, result, late, reply, closeReply)
      BY <1>1, <1>2, <1>5 DEF Record!Callback
    <2>2. Called(answered, result)
      BY <1>3, <1>5
    <2>3. Sound(rec') /\ ~rec'.terminate /\ rec'.state # "timeout"
      BY <2>1, <2>2, GoOnSound
    <2> QED
      BY <1>1, <1>5, <2>3 DEF RecordInv, Stopped
  <1> QED
    BY <1>4, <1>5

\* The alarm goes off.
LEMMA AlarmSound ==
  ASSUME RecordInv, NEW late \in BOOLEAN, NEW reply \in Record!Reply,
         NEW closeReply \in Record!Reply,
         Record!AlarmCallback(late, reply, closeReply)
  PROVE  RecordInv'
  <1> DEFINE called == [rec EXCEPT !.alarm = FALSE]
  <1>1. /\ rec' = Record!Callback(called, "ok", late, reply, closeReply)
        /\ rec.alarm /\ stopper' = stopper
    BY DEF Record!AlarmCallback
  <1>2. /\ called \in Rec /\ called.terminate = rec.terminate
        /\ called.request = rec.request /\ ~called.alarm
        /\ called.state = rec.state /\ called.retry = rec.retry
        /\ called.terminated = rec.terminated /\ ~called.overlap
        /\ called.open = rec.open /\ called.closeFailed = rec.closeFailed
    BY DEF RecordInv, Sound, Rec
  <1> HIDE DEF called
  <1>3. ~rec.terminate => Called(called, "ok")
    BY <1>1, <1>2 DEF RecordInv, Sound, Stopped, Called, Rec, Record!Pending,
                      Record!Request, Record!State, Record!Result
  <1>4. CASE rec.terminate
    <2>1. rec' = [called EXCEPT !.lastError = "ok", !.terminated = TRUE]
      BY <1>1, <1>2, <1>4 DEF Record!Callback
    <2>4. /\ rec' \in Rec /\ rec'.state = called.state /\ rec'.request = called.request
          /\ ~rec'.alarm /\ ~rec'.overlap /\ rec'.retry = called.retry
          /\ rec'.terminate /\ rec'.terminated /\ rec'.open = called.open
          /\ rec'.closeFailed = called.closeFailed /\ rec'.lastError = "ok"
      BY <1>2, <1>4, <2>1 DEF Rec, Record!Result
    <2>5. called.request = "none"
      BY <1>1, <1>2 DEF RecordInv, Sound
    <2>2. Sound(rec)'
      BY <1>1, <1>2, <1>4, <2>4, <2>5
         DEF RecordInv, Sound, Record!Pending, Record!Request
    <2>3. Stopped'
      BY <1>1, <1>2, <1>4, <2>1 DEF RecordInv, Sound, Stopped, Rec, Record!Pending,
                      Record!Request, Record!State
    <2> QED
      BY <2>2, <2>3 DEF RecordInv
  <1>5. CASE ~rec.terminate
    <2>1. rec' = Record!GoOn(called, "ok", late, reply, closeReply)
      BY <1>1, <1>2, <1>5 DEF Record!Callback
    <2>2. Called(called, "ok")
      BY <1>3, <1>5
    <2>3. Sound(rec') /\ ~rec'.terminate /\ rec'.state # "timeout"
      BY <2>1, <2>2, GoOnSound
    <2> QED
      BY <1>1, <1>5, <2>3 DEF RecordInv, Stopped
  <1> QED
    BY <1>4, <1>5

\* The steps of the thread that stops the record.
LEMMA StopSound ==
  ASSUME RecordInv, Record!Stop \/ Record!Stopping \/ Record!Returns
  PROVE  RecordInv'
  <1> USE DEF RecordInv, Sound, Stopped, Rec, Record!Pending, Record!Request,
              Record!State, Record!Result
  <1>1. CASE Record!Stop /\ rec.state \in {"closed", "stopped", "timeout"}
    <2>1. /\ rec' = [rec EXCEPT !.terminate = TRUE]
          /\ stopper = "no" /\ stopper' = "finish"
      BY <1>1 DEF Record!Stop
    <2> QED
      BY <1>1, <2>1
  <1>2. CASE Record!Stop /\ rec.state = "setAlarm"
    <2>1. /\ rec' = [rec EXCEPT !.terminate = TRUE, !.alarm = FALSE]
          /\ stopper = "no" /\ stopper' = "write"
      BY <1>2 DEF Record!Stop
    <2> QED
      BY <1>2, <2>1
  <1>3. CASE Record!Stop /\ rec.state \in Record!Request
    <2>1. CASE rec.retry
      <3>1. /\ rec' = [rec EXCEPT !.terminate = TRUE, !.alarm = FALSE]
            /\ stopper = "no" /\ stopper' = "switch"
        BY <1>3, <2>1 DEF Record!Stop
      <3> QED
        BY <1>3, <2>1, <3>1
    <2>2. CASE ~rec.retry
      <3>1. /\ rec' = [rec EXCEPT !.terminate = TRUE]
            /\ stopper = "no" /\ stopper' = "wait"
        BY <1>3, <2>2 DEF Record!Stop
      <3> QED
        BY <1>3, <2>2, <3>1
    <2> QED  BY <2>1, <2>2 DEF Rec
  <1>4. CASE Record!LookForCall
    BY <1>4 DEF Record!LookForCall
  <1>5. CASE Record!TimeLeft
    BY <1>5 DEF Record!TimeLeft
  <1>6. CASE Record!TimeOut
    BY <1>6 DEF Record!TimeOut
  <1>7. CASE Record!DecideClose
    BY <1>7 DEF Record!DecideClose, Record!LeftOpen
  <1>8. CASE Record!WriteLast
    BY <1>8 DEF Record!WriteLast
  <1>9. CASE \E ok \in BOOLEAN : Record!CloseFile(ok)
    <2>1. PICK ok \in BOOLEAN : Record!CloseFile(ok)
      BY <1>9
    <2>2. CASE ok
      BY <2>1, <2>2 DEF Record!CloseFile
    <2>3. CASE ~ok
      BY <2>1, <2>3 DEF Record!CloseFile
    <2> QED  BY <2>2, <2>3
  <1>10. CASE Record!Finish
    BY <1>10 DEF Record!Finish
  <1> QED
    BY <1>1, <1>2, <1>3, <1>4, <1>5, <1>6, <1>7, <1>8, <1>9, <1>10
       DEF Record!Stop, Record!Stopping, Record!Returns

LEMMA StepSound == RecordInv /\ [ExitNext]_exitVars => RecordInv'
  <1> SUFFICES ASSUME RecordInv, [ExitNext]_exitVars PROVE RecordInv'
    OBVIOUS
  <1>1. CASE UNCHANGED recordVars
    BY <1>1 DEF recordVars, RecordInv, Stopped, Sound, Record!Pending
  <1>2. CASE Record!Calls
    BY <1>2, AnswerSound, AlarmSound DEF Record!Calls
  <1>3. CASE EnterStop \/ RunStop
    BY <1>3, StopSound DEF EnterStop, RunStop
  <1>4. CASE Record!Returns
    BY <1>4, StopSound
  <1> QED
    BY <1>1, <1>2, <1>3, <1>4 DEF ExitNext, RunControl, ScJob, exitVars, recordVars

\* The chain of callbacks is sound in every state, for any answers.
THEOREM RecordSound == ExitSpec => []RecordInv
  BY InitSound, StepSound, PTL DEF ExitSpec

\* Nothing is requested and no alarm is set while another is pending, and the
\* stop touches the file only when nothing is.
THEOREM DoesOneThing == ExitSpec => []OneAtATime
  <1>1. RecordInv => OneAtATime
    BY DEF RecordInv, Sound, Stopped, OneAtATime, Record!OneAtATime
  <1> QED
    BY <1>1, RecordSound, PTL

\* A stop that did not give up leaves nothing pending and the file closed,
\* unless closing it failed.
THEOREM IsStopped == ExitSpec => []StopsCleanly
  <1>1. RecordInv => StopsCleanly
    BY DEF RecordInv, Stopped, StopsCleanly, Record!StopsCleanly
  <1> QED
    BY <1>1, RecordSound, PTL
=============================================================================
