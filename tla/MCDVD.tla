-------------------------------- MODULE MCDVD --------------------------------
EXTENDS DVDDriver

CONSTANTS t1, i1, a1, b1

\* A read of b1 takes two transfers, one of a1 a single one.
MCChunks == [x \in Block |-> IF x = b1 THEN 2 ELSE 1]
=============================================================================
