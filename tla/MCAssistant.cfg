SPECIFICATION Spec
CONSTANTS
    Users = {u1, u2}
    NoUser = NoUser
    Chats = {1, 2}
    NoChat = 0
    Sends = {1, 2}
    NoSend = 0
    MaxLogins = 2
    MaxFaults = 1
INVARIANTS
    TypeOK
    OwnChatsOnly
    RepliesFindTheirChat
    OncePerSend
PROPERTY
    StopEnds
CHECK_DEADLOCK FALSE
