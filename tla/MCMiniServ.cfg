CONSTANTS
    MaxFd = 2
    MaxId = 3
    MaxTyped = 2
    Moods = {"lazy", "closed"}
SPECIFICATION FairSpec
INVARIANTS
    FlushHasData
PROPERTIES
    ChatSpec
    ReadersAreServed
    HangUpsAreNoticed
CHECK_DEADLOCK FALSE
