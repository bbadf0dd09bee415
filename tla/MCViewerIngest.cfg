SPECIFICATION IngestSpec
CONSTANTS
    Feeds = {"tnc", "aprsis"}
    Kinds <- ThreeKinds
    MaxPackets = 3
    MaxCleaned = 1
INVARIANTS PublishedIsStored PublishedOnceInOrder
PROPERTY ImplementsLog
CHECK_DEADLOCK FALSE
