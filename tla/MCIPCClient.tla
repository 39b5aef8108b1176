----------------------------- MODULE MCIPCClient -----------------------------
(***************************************************************************)
(* Two threads, three requests, a queue of two.                            *)
(***************************************************************************)
EXTENDS IPCClient

CONSTANTS t1, t2, r1, r2, r3
=============================================================================
