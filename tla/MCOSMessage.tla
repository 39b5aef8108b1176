----------------------------- MODULE MCOSMessage ------------------------------
(***************************************************************************)
(* Three threads on a queue of three slots: both indices wrap, two threads *)
(* can sleep on one wait queue while the third wakes them and comes first. *)
(***************************************************************************)
EXTENDS OSMessage

CONSTANTS t1, t2, t3, a, b
=============================================================================
