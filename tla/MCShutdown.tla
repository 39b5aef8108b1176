------------------------------ MODULE MCShutdown ------------------------------
(* Bounds for ConsoleExit and ShutdownControl.                               *)
EXTENDS ConsoleExit
=============================================================================
