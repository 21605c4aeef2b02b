SPECIFICATION Spec
CONSTANTS
  NMics = 1
  BufferChunks = 1
  MaxChunks = 5
  MaxFull = 2
  MaxCrashes = 0
INVARIANTS
  KeystreamNeverReused
CHECK_DEADLOCK FALSE
