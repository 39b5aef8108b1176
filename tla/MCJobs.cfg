SPECIFICATION TurnsSpec
CONSTANTS
  c1 = c1  q1 = q1  q2 = q2  j1 = j1  j2 = j2  f1 = f1  b1 = b1
  Slots = 2
  Client = {c1}
  Ref = {q1, q2}
  Level <- LevelsLevel
  Index <- LevelsIndex
  Frequency <- LevelsFrequency
  Job = {j1, j2, f1, b1}
  Kind <- KindOf
  MaxNumber <- LevelsBound
INVARIANTS
  FenceAfterJobs
  NumbersSound
  NothingLost
  StopMeansQuiet
  NoneStarved
PROPERTIES
  TopJobTaken
  StopReturns
  FencePasses
