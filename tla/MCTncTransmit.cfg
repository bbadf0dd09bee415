SPECIFICATION FairSpec
CONSTANTS
    TX_QUEUE_SIZE = 2
    Blank = Blank
    Ids = {1, 2, 3}
    Sizes = {5}
    MAX_FRAME_LEN = 4
    FrameBits = {2}
    FlagLen = 2
    BaudRate = 1200
    SlotUnit = 1
    ClockMod = 4
    PollGap = 1
    ClockStart = {0}
    ClockRuns = TRUE
    Rooms = {3}
    Draws = {0, 255}
    Bytes <- TransmitBytes
    Settable <- TransmitSettable
    InitConfig <- TransmitConfig
INVARIANTS TypeOK PttMatchesState WaitingHasFrame LineWellFormed NoEarlyRedraw
PROPERTIES ImplementsFifo ImplementsService TransmissionEnds
CHECK_DEADLOCK TRUE
