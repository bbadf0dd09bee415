SPECIFICATION AirSpec
CONSTANTS
    BUF_SIZE = 6
    Payloads <- MixedPayloads
    MaxFrames = 3
    TX_QUEUE_SIZE = 1
    MIN_FRAME_LEN = 3
    MAX_FRAME_LEN = 4
    Flags = 2
    Frames <- MixedFrames
    Tap = 2
    Reg = 3
    MaxSent = 3
    MaxNoise = 2
    MaxFlips = 1
INVARIANTS Lockstep DecodedIsSent InStepOnceClean HostIsHeard
PROPERTY HeardExactly
CONSTRAINT FewWhenDisturbed
CHECK_DEADLOCK FALSE
