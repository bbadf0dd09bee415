SPECIFICATION FairSpec
CONSTANTS
    MaxPackets = 2
    MaxEvents = 2
    Pages = {"p1"}
    MaxSockets = 2
    MAX_WS_CONNECTIONS = 1
    BROADCAST_SIZE = 1
    RecentLimit = 1
    MaxShown = 2
INVARIANTS SlotsAccounted ShowsSnapshotThenFeed SilenceOnlyByLag
PROPERTIES NewestIsShown SlotIsGivenBack
CHECK_DEADLOCK FALSE
