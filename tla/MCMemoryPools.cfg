SPECIFICATION Spec
CONSTANTS
  t1 = t1  t2 = t2  t3 = t3  b1 = b1  b2 = b2  b3 = b3  b4 = b4  b5 = b5  NULL = NULL
  Thread = {t1, t2, t3}
  Pools = 3
  BlockSize <- BlockSizes
  Buffer <- Buffers
  Size <- Sizes
SYMMETRY ThreadSymmetry
INVARIANTS
  BlocksSound
