SPECIFICATION Spec
CONSTANTS
  NMics = 2
  BufferChunks = 1
  MaxChunks = 3
  MaxFull = 2
  MaxCrashes = 1
INVARIANTS
  TypeOK
  AckedIsDurable
  Aligned
  AudioIsFindable
PROPERTIES
  AppendOnly
CHECK_DEADLOCK FALSE
