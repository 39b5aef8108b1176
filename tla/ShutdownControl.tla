--------------------------- MODULE ShutdownControl ---------------------------
(***************************************************************************)
(* How the console's reset and power buttons, and the game's own request   *)
(* to leave for the Wii menu or the data manager, end in one destination.  *)
(*                                                                         *)
(* Two contexts touch the flags of TRC/PowerControl.cpp.  The STM event    *)
(* hook of OSStateTM.c runs the reset and power callbacks from the IPC     *)
(* interrupt, interrupts disabled, so each runs as one step and may land   *)
(* between any two instructions of the main thread.  The main thread runs  *)
(* the menu and data manager callbacks (from SaveErrorMsgBox::Close), one  *)
(* store at a time because the flags are volatile, and polls               *)
(* ProcessShutdown once a frame.                                           *)
(***************************************************************************)
EXTENDS Naturals

CONSTANT MaxFailures  \* bound: how often registering the event hook may fail

ASSUME MaxFailuresAssumption == MaxFailures \in Nat

VARIABLES
  flags,             \* shutdown and the three destination flags
  resetCb,           \* OSStateTM.c ResetCallback
  powerCb,           \* OSStateTM.c PowerCallback
  registered,        \* StmEhRegistered: an event hook request is with the IOS
  failures,          \* registrations that failed so far
  powerSeen,         \* the power event has been delivered
  shutdownCallback,  \* "game" when the game has installed its veto callback
  pc,                \* where the main thread is
  dest,              \* the destination of the callback the main thread is in
  step,              \* the next store of that callback, 1..4
  asked,             \* the callbacks that were called
  outcome            \* where ProcessShutdown went, "none" until it went

vars == <<flags, resetCb, powerCb, registered, failures, powerSeen,
          shutdownCallback, pc, dest, step, asked, outcome>>

hookVars == <<resetCb, powerCb, registered, failures, powerSeen>>

\* Mutant of FlagOrder: the destination is raised before the others are cleared.
FlagOrderEager == <<"shutdown", "wiiMenu", "restart", "dataMgr">>

\* The order in which every callback writes the four flags.
FlagOrder == <<"shutdown", "restart", "wiiMenu", "dataMgr">>

Flag == {"shutdown", "restart", "wiiMenu", "dataMgr"}
Destination == {"restart", "wiiMenu", "dataMgr"}
Request == Destination \cup {"off"}

TypeOK ==
  /\ flags \in [Flag -> BOOLEAN]
  /\ resetCb \in {"default", "trc"} /\ powerCb \in {"default", "trc"}
  /\ registered \in BOOLEAN /\ powerSeen \in BOOLEAN
  /\ failures \in 0..MaxFailures
  /\ shutdownCallback \in {"none", "game"}
  /\ pc \in {"setReset", "setPower", "update", "check", "store", "poll",
             "veto", "dispatch", "gone"}
  /\ dest \in {"wiiMenu", "dataMgr"}
  /\ step \in 1..4
  /\ asked \subseteq Request
  /\ outcome \in Request \cup {"none"}

\* The state OSInit leaves: __OSInitSTM has put the default callbacks in
\* place and tried to register the hook.
Init ==
  /\ flags = [f \in Flag |-> FALSE]
  /\ resetCb = "default" /\ powerCb = "default"
  /\ registered \in {r \in BOOLEAN : r \/ MaxFailures > 0}
  /\ failures = IF registered THEN 0 ELSE 1
  /\ powerSeen = FALSE
  /\ shutdownCallback = "none"
  /\ pc = "setReset" /\ dest = "wiiMenu" /\ step = 1
  /\ asked = {} /\ outcome = "none"

-----------------------------------------------------------------------------
(* The event hook: OSStateTM.c *)

\* __OSRegisterStateEvent: the asynchronous ioctl is accepted or refused.
RegisterStateEvent ==
  \/ registered' = TRUE /\ failures' = failures
  \/ registered' = FALSE /\ failures < MaxFailures /\ failures' = failures + 1

RegisterIfNeeded ==
  IF registered THEN UNCHANGED <<registered, failures>> ELSE RegisterStateEvent

\* What a callback that runs to its end in one step does to the flags.
Raise(d) ==
  IF flags["shutdown"] THEN flags
  ELSE [f \in Flag |-> f \in {"shutdown", d}]

\* Mutant of ResetEvent: the hook is not renewed.
ResetEventOnce ==
  /\ registered /\ outcome = "none"
  /\ registered' = FALSE
  /\ UNCHANGED <<flags, asked, resetCb, powerCb, failures, powerSeen,
                 shutdownCallback, pc, dest, step, outcome>>

\* The reply of the hook when the reset button was pressed.  The callback is
\* used once, and only while the button is still down; the hook is renewed.
ResetEvent ==
  /\ registered /\ outcome = "none"
  /\ \/ /\ resetCb = "trc"
        /\ flags' = Raise("restart")
        /\ asked' = asked \cup {"restart"}
        /\ resetCb' = "default"
     \/ /\ resetCb = "default"   \* or the button was released again
        /\ UNCHANGED <<flags, asked, resetCb>>
     \/ UNCHANGED <<flags, asked, resetCb>>
  /\ RegisterStateEvent
  /\ UNCHANGED <<powerCb, powerSeen, shutdownCallback, pc, dest, step, outcome>>

\* The reply of the hook when the power button was pressed.  The hook is not
\* renewed.
PowerEvent ==
  /\ registered /\ outcome = "none"
  /\ registered' = FALSE /\ powerSeen' = TRUE
  /\ powerCb' = "default"
  /\ IF powerCb = "trc"
       THEN flags' = Raise("off") /\ asked' = asked \cup {"off"}
       ELSE UNCHANGED <<flags, asked>>
  /\ UNCHANGED <<resetCb, failures, shutdownCallback, pc, dest, step, outcome>>

-----------------------------------------------------------------------------
(* The main thread *)

\* main installs the two callbacks; each setter registers the hook again if
\* it is not registered.
SetResetCallback ==
  /\ pc = "setReset" /\ pc' = "setPower"
  /\ resetCb' = "trc"
  /\ RegisterIfNeeded
  /\ UNCHANGED <<flags, powerCb, powerSeen, shutdownCallback, dest, step, asked,
                 outcome>>

SetPowerCallback ==
  /\ pc = "setPower" /\ pc' = "update"
  /\ powerCb' = "trc"
  /\ RegisterIfNeeded
  /\ UNCHANGED <<flags, resetCb, powerSeen, shutdownCallback, dest, step, asked,
                 outcome>>

\* A frame in which no message box closes and the veto is left alone.
IdleUpdate ==
  /\ pc = "update" /\ pc' = "poll"
  /\ UNCHANGED <<flags, hookVars, shutdownCallback, dest, step, asked, outcome>>

\* SetShutdownCallback: the game installs or removes its veto.
SetShutdownCallback(c) ==
  /\ pc = "update" /\ pc' = "poll"
  /\ shutdownCallback' = c
  /\ UNCHANGED <<flags, hookVars, dest, step, asked, outcome>>

\* The callback SaveErrorMsgBox::Close makes for a box type and a response,
\* "none" when it makes no callback of this module.
CloseCalls(type, response) ==
  IF response = "none" THEN "none"
  ELSE IF type \in {"NAND02", "NAND03"} /\ response = "second" THEN "dataMgr"
  ELSE IF type \in {"NAND05", "NAND06"} THEN "wiiMenu"
  ELSE "none"

CloseBox(type, response) ==
  /\ pc = "update"
  /\ IF CloseCalls(type, response) = "none"
       THEN pc' = "poll" /\ UNCHANGED <<dest, asked>>
       ELSE /\ pc' = "check"
            /\ dest' = CloseCalls(type, response)
            /\ asked' = asked \cup {dest'}
  /\ UNCHANGED <<flags, hookVars, shutdownCallback, step, outcome>>

\* Mutant of CallbackCheck: the test of the shutdown flag is gone.
CallbackCheckNot ==
  /\ pc = "check" /\ pc' = "store"
  /\ step' = 1
  /\ UNCHANGED <<flags, hookVars, shutdownCallback, dest, asked, outcome>>

\* The first line of WiiMenuCallback and WiiDataMgrCallback.
CallbackCheck ==
  /\ pc = "check"
  /\ pc' = IF flags["shutdown"] THEN "poll" ELSE "store"
  /\ step' = 1
  /\ UNCHANGED <<flags, hookVars, shutdownCallback, dest, asked, outcome>>

\* Mutant of StoredValue: the destination is never raised.
StoredValueLost(k) == FlagOrder[k] = "shutdown"

\* The value the callback for dest stores in the flag of the given step.
StoredValue(k) == FlagOrder[k] \in {"shutdown", dest}

\* One store of WiiMenuCallback or WiiDataMgrCallback, run by the main thread.
CallbackStore ==
  /\ pc = "store"
  /\ flags' = [flags EXCEPT ![FlagOrder[step]] = StoredValue(step)]
  /\ IF step = 4 THEN pc' = "poll" /\ step' = 1
                 ELSE pc' = pc /\ step' = step + 1
  /\ UNCHANGED <<hookVars, shutdownCallback, dest, asked, outcome>>

\* ProcessShutdown up to its veto: nothing to do unless the flag is up.
PollShutdown ==
  /\ pc = "poll"
  /\ pc' = IF flags["shutdown"] THEN "veto" ELSE "update"
  /\ UNCHANGED <<flags, hookVars, shutdownCallback, dest, step, asked, outcome>>

\* Mutant of AskVeto: no callback is read as a veto.
AskVetoDefaultNo ==
  /\ pc = "veto"
  /\ \/ pc' = "update"
     \/ shutdownCallback = "game" /\ pc' = "dispatch"
  /\ UNCHANGED <<flags, hookVars, shutdownCallback, dest, step, asked, outcome>>

\* The veto: without a callback the shutdown proceeds, with one it may not.
AskVeto ==
  /\ pc = "veto"
  /\ \/ pc' = "dispatch"
     \/ shutdownCallback = "game" /\ pc' = "update"
  /\ UNCHANGED <<flags, hookVars, shutdownCallback, dest, step, asked, outcome>>

\* The destination ProcessShutdown reads from the flags, in its order.
Chosen ==
  IF flags["restart"] THEN "restart"
  ELSE IF flags["wiiMenu"] THEN "wiiMenu"
  ELSE IF flags["dataMgr"] THEN "dataMgr"
  ELSE "off"

\* OSRestart, OSReturnToMenu, OSReturnToDataManager and OSShutdownSystem do
\* not return.
Dispatch ==
  /\ pc = "dispatch" /\ pc' = "gone"
  /\ outcome' = Chosen
  /\ UNCHANGED <<flags, hookVars, shutdownCallback, dest, step, asked>>

-----------------------------------------------------------------------------
BoxType == {"NAND02", "NAND03", "NAND05", "NAND06", "Corrupt", "NAND08", "NAND11"}
Response == {"none", "first", "second"}

MainThread ==
  \/ SetResetCallback \/ SetPowerCallback
  \/ IdleUpdate
  \/ \E c \in {"none", "game"} : SetShutdownCallback(c)
  \/ \E t \in BoxType, r \in Response : CloseBox(t, r)
  \/ CallbackCheck \/ CallbackStore
  \/ PollShutdown \/ AskVeto \/ Dispatch

Next == MainThread \/ ResetEvent \/ PowerEvent

Spec == Init /\ [][Next]_vars

\* The main thread keeps running its frames; the buttons promise nothing.
FairSpec == Spec /\ WF_vars(MainThread)

-----------------------------------------------------------------------------
(* Properties *)

\* The four callbacks raise their flags one store at a time and may interrupt
\* each other, yet no interleaving ever shows two destinations at once
\* (PowerControl.cpp, the order of the stores of each callback).
AtMostOneDestination ==
  \A d, e \in Destination : flags[d] /\ flags[e] => d = e

\* A destination nobody asked for is never taken: in particular the console
\* is not switched off because ProcessShutdown read the flags while a
\* callback had written only some of them.
OutcomeWasAsked == outcome # "none" => outcome \in asked

\* As long as no registration failed and no power press was delivered, the
\* hook is with the IOS, so the power button still works after any number
\* of reset presses (OSStateTM.c, the renewal in __OSStateEventHandler).
PowerButtonArmed == registered \/ powerSeen \/ failures > 0

\* Once ProcessShutdown has asked the veto, the flags stay for ever as they were
\* then: no later press and no message box of a later frame changes where the
\* console is going, however often the veto holds it back.
DestinationFrozen ==
  \A f \in [Flag -> BOOLEAN] : [](pc = "veto" /\ flags = f => [](flags = f))

\* If from some time on no veto is installed, a shutdown that was raised is
\* carried out.
ShutdownCarriedOut ==
  <>[](shutdownCallback = "none") => (flags["shutdown"] ~> outcome # "none")

\* PowerControl.cpp:2-4: each callback refuses when a shutdown is already in
\* progress, so a destination that was raised is never taken back.
RefusesWhenInProgress ==
  [][\A d \in Destination : flags["shutdown"] /\ flags[d] => flags'[d]]_vars
=============================================================================
