SPECIFICATION FairSpec
CONSTANTS
    Conns = {c1, c2, c3}
    Readers = {c1}
    Talkers = {c1}
    c1 = c1
    c2 = c2
    c3 = c3
    MAX_CLIENTS = 2
    BROADCAST_SIZE = 1
    SOCKET_SIZE = 1
    MaxFrames = 2
INVARIANTS PlacesAreServed InOrder
PROPERTIES NewestArrives ReaderIsHeard PlaceIsGivenBack
CHECK_DEADLOCK FALSE
