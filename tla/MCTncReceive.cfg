SPECIFICATION FairSpec
CONSTANTS
    KISS_OUTBOX_SIZE = 12
    BUF_SIZE = 5
    Frames <- ReceivedFrames
    Encoding <- EncodedFrames
    TMP_SIZE = 9
    ReadSizes = {1, 3, 8}
    MaxReceived = 4
INVARIANTS OutboxIsStream HostSeesAccepted
PROPERTY AcceptedArrives
CHECK_DEADLOCK TRUE
