SPECIFICATION FairTuiSpec
CONSTANTS
    MaxStarts = 2
    Live = {1, 2}
    MaxHeard = 0
    ChannelSize = 1
    MaxKeys = 3
PROPERTY UiKeepsRunning
CHECK_DEADLOCK FALSE
