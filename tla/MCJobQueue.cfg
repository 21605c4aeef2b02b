SPECIFICATION FairSpec
CONSTANTS
  Subjects = {s1}
  MaxJobs = 3
  MaxCrashes = 1
  MaxMeetings = 2
  Registered <- MCRegistered
INVARIANTS
  TypeOK
  RunningIsCurrent
PROPERTIES
  HeavyYieldsToLive
  EveryJobSettles
  LedgerSpec
