SPECIFICATION Spec
CONSTANTS
    Keys = {"asr", "supabase"}
    FirstKeys = {"asr"}
    MaxOthers = 3
    MaxBeside = 0
    Mics = 2
    MaxClicks = 2
    Meetings = {m1, m2}
    Nowhere = Nowhere
    MaxLoads = 2
    MaxEdits = 1
    MaxMoves = 1
    MaxLost = 1
    Browsers = {b1, b2}
    Accounts = {a1, a2}
    NoAccount = NoAccount
    MaxTokens = 2
    MaxPasswords = 2
    MaxBroken = 1
    MaxDocs = 2
    Blank = {2}
    MaxCalls = 1
    MaxBesides = 1
    MaxHarm = 2
    Phrases = {p1, p2}
    NoPhrase = NoPhrase
    MaxDesk = 3
    MaxDeskLost = 1
    Queries = {q1, q2}
    NoQuery = NoQuery
    MaxSearches = 3
    Tasks = {t1, t2}
    MaxCycles = 2
    MaxDevices = 1
INVARIANTS
    TypeOK
    CloudIsCovered
    PagesAreTruthful
    SignInIsSound
    DocumentsAreSound
PROPERTIES
    TranscriptArrives
    UploadSettles
CHECK_DEADLOCK FALSE
