SPECIFICATION Spec
CONSTANTS
    Keys = {"asr", "supabase"}
    FirstKeys = {"asr"}
    MaxOthers = 1
    MaxBeside = 1
    Mics = 2
    MaxClicks = 0
    Meetings = {m1, m2}
    Nowhere = Nowhere
    MaxLoads = 2
    MaxEdits = 0
    MaxMoves = 0
    MaxLost = 1
    Browsers = {b1, b2}
    Accounts = {a1, a2}
    NoAccount = NoAccount
    MaxTokens = 0
    MaxPasswords = 1
    MaxBroken = 0
    MaxDocs = 2
    Blank = {2}
    MaxCalls = 0
    MaxBesides = 0
    MaxHarm = 1
    Phrases = {p1, p2}
    NoPhrase = NoPhrase
    MaxDesk = 0
    MaxDeskLost = 1
    Queries = {q1, q2}
    NoQuery = NoQuery
    MaxSearches = 1
    Tasks = {t1, t2}
    MaxCycles = 0
    MaxDevices = 1
INVARIANT
    ConsentWasShown
CHECK_DEADLOCK FALSE
