SPECIFICATION UplinkSpec
CONSTANTS
    Clients = {1}
    Frames <- OneStream
    BUF_SIZE = 3
    READ_SIZE = 3
    CHANNEL_SIZE = 1
    Noise = {1, 192}
    MaxUpsets = 2
INVARIANTS LosslessIsExact OneFramePerUpset TooLongVanishes
CHECK_DEADLOCK FALSE
