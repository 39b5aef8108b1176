------------------------------ MODULE MCIPCHeap ------------------------------
(***************************************************************************)
(* A heap of twenty-two headers, 352 bytes, blocks of 32 and 64 bytes, and *)
(* alignments of 16 (made 32) and 64 bytes.                                *)
(***************************************************************************)
EXTENDS IPCHeap

SomeSizes == {1, 4}
SomeAligns == {1, 4}
=============================================================================
