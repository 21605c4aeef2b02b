SPECIFICATION FairSpec
CONSTANTS
  Subjects = {m1}
  NoMeeting = NoMeeting
  Mics = {k1,k2}
  NoMic = NoMic
  MaxLive = 1
  MaxAudio = 1
  MaxRemovals = 1
  MaxDeletes = 1
  MaxStopFailures = 1
  MaxCrashes = 2
  MaxJobs <- MCMaxJobs
INVARIANTS
  TypeOK
  SingleQualityPass
  LiveRowHasSession
  FailedMeansNothingRecorded
  DoneMeansTranscribed
  NoOrphanTranscript
  StuckOnlyByCrash
  ConfidentialNotIndexed
PROPERTIES
  StatusMachine
  LedgerSpec
  StoppedMeetingSettles
CHECK_DEADLOCK FALSE
