SPECIFICATION FairSpec
CONSTANTS
    TX_QUEUE_SIZE = 4
    Blank = Blank
    Ids = {1, 2}
    Sizes = {3}
    MAX_FRAME_LEN = 4
    FrameBits = {1}
    FlagLen = 1
    BaudRate = 1200
    SlotUnit = 10
    ClockMod = 256
    PollGap = 1
    ClockStart = {0}
    ClockRuns = FALSE
    Rooms = {4}
    Draws = {0, 63, 64, 255}
    Bytes <- TransmitBytes
    Settable = {}
    InitConfig <- TxOnlyConfig
PROPERTY QueuedIsSent
CHECK_DEADLOCK TRUE
