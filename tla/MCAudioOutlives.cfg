SPECIFICATION Spec
CONSTANTS
  Subjects = {m1, m2}
  NoMeeting = NoMeeting
  Mics = {k1}
  NoMic = NoMic
  MaxLive = 1
  MaxAudio = 1
  MaxRemovals = 1
  MaxDeletes = 1
  MaxStopFailures = 0
  MaxCrashes = 1
  MaxJobs <- MCMaxJobs
INVARIANTS
  DeletedLeavesNoRecording
CHECK_DEADLOCK FALSE
