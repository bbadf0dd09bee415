SPECIFICATION FairSpec
CONSTANTS
    Feeds = {"tnc", "aprsis"}
    KeepaliveFeeds = {"aprsis"}
    Kinds <- PlainKinds
    Configs <- TwoConfigs
    MaxPackets = 1
    MaxCleaned = 0
    MaxBackoff = 2
    Puts = {1, 2}
    MaxFaults = 1
INVARIANTS OrphansAreFew FileIsMemory
PROPERTY ConfigTakesEffect
CHECK_DEADLOCK FALSE
