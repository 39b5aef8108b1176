------------------------------ MODULE MCOSThread ------------------------------
(* Small instances of the thread kernel. *)
EXTENDS OSThread

CONSTANTS t1, t2, t3, m1, m2, w1

\* The threads the program creates are alike, and so are the mutexes.
SymmThread == Permutations({t2, t3})
SymmMutex == Permutations({t2, t3}) \cup Permutations({m1, m2})
=============================================================================
