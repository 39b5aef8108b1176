SPECIFICATION HeapSpec
CONSTANTS
  NoHeader = NoHeader
  HeapStart = 6
  HeapUnits = 22
  Sizes <- SomeSizes
  Aligns <- SomeAligns
INVARIANTS
  HeapSound
