SPECIFICATION Spec
CONSTANTS
    Peers = {p1, p2, p3}
    NoPeer = NoPeer
    Listening = Listening
    MaxClients = 3
    AppDisconnects = TRUE
INVARIANTS TableTellsTruth NoSocketLost
 
SYMMETRY Symmetry
CHECK_DEADLOCK FALSE
