SPECIFICATION Spec
CONSTANTS
  NMics = 2
  BufferChunks = 1
  MaxChunks = 1
  MaxFull = 0
  MaxCrashes = 0
INVARIANTS
  RecordingsKeepTheirRow
CHECK_DEADLOCK FALSE
