CONSTANTS
    Handles = {u, t}
    NoHandle = NoHandle
    Tcp = {t}
    MaxSockets = 2
SPECIFICATION FairSpec
INVARIANTS
    TypeOK
    OnlyItsOwn
    SentToNamed
PROPERTIES
    CopiesTheRemote
    CloseReturns
    RetryFindsConnection
    DataEventuallyRead
CHECK_DEADLOCK FALSE
