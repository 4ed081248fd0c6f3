SPECIFICATION FairSpec
CONSTANTS
    Peers = {p1, p2}
    NoPeer = NoPeer
    Listening = Listening
    MaxClients = 3
    AppDisconnects = TRUE
INVARIANTS RightClientAnswered
PROPERTIES OnlyAskedCutOff DataEventuallyRead EventuallyLetIn CloseReturns
CHECK_DEADLOCK FALSE
