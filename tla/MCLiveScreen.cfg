SPECIFICATION Spec
CONSTANTS
    Meetings = {1, 2}
    NoMeeting = 0
    MaxReloads = 1
    MaxTicks = 1
    MaxClicks = 2
    MaxFaults = 1
INVARIANTS
    TypeOK
    PhaseIsTruthful
    UnseenStreamWasLeftStarting
    EndsOnRequest
PROPERTIES
    FinishIsSeen
    FollowsAlong
CHECK_DEADLOCK FALSE
