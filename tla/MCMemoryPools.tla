---------------------------- MODULE MCMemoryPools ----------------------------
(***************************************************************************)
(* Three pools, the first two of two blocks, and three threads.            *)
(***************************************************************************)
EXTENDS MemoryPools, TLC

CONSTANTS t1, t2, t3, b1, b2, b3, b4, b5

BlockSizes == <<4, 16, 32>>
Buffers == <<<<b1, b2>>, <<b3, b4>>, <<b5>>>>
Sizes == {-1, 5, 16}
ThreadSymmetry == Permutations(Thread)
=============================================================================
