------------------------------ MODULE MCSyncEvent -----------------------------
(***************************************************************************)
(* Four threads: two can sleep in Wait while a third signals and a fourth  *)
(* comes in between and takes the signal.                                  *)
(***************************************************************************)
EXTENDS SyncEvent

CONSTANTS t1, t2, t3, t4
=============================================================================
