SPECIFICATION FairTuiSpec
CONSTANTS
    MaxStarts = 2
    Live = {1}
    MaxHeard = 1
    ChannelSize = 1
    MaxKeys = 4
INVARIANT NoOrphan
PROPERTIES QuitIsHeeded StopIsHeeded
CHECK_DEADLOCK FALSE
