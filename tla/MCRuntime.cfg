SPECIFICATION Spec
CONSTANTS
  MaxHeld = 2
  Resources <- MCResources
  Listed <- MCListed
  Archived <- MCArchived
  Size = 2
  Slots = {s1, s2, s3}
  Waiters = {w1, w2}
  Threads = {t1, t2}
  MaxPosts = 3
  MaxStarts = 3
  Buffers = {1, 2}
  MaxFrames = 3
  Callers = {k1, k2, k3}
  PoolSize = 2
  Formats <- MCFormats
  MaxOutput = 4
  Workers = {w3, w4}
  Translation <- MCTranslation
  UnknownErrors = {79}
INVARIANTS  AssetReadsInOrder TokensConserved StacksAreReclaimed ShaderKept FramesInOrder NumbersStay TextFits 
SYMMETRY MCSymmetry
CHECK_DEADLOCK FALSE
