SPECIFICATION Spec
CONSTANTS
    N = 4
    MAX_OUTPUT_FRAMES = 2
    overlap_window = 2
    EXPIRY_SAMPLES = 3
    Decoders = {1, 2}
    Air <- FourFrames
    Jitter = 1
    Costs = {0, 1, 2}
    BufferLen = 6
    SampleMod = 13
INVARIANTS ReportedOnce BestIsKept
CHECK_DEADLOCK FALSE
