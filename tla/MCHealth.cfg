CONSTANTS
    Fds = {f1, f2}
    TimeoutSeconds = 1
    MaxTime = 3
    MaxLog = 2
SPECIFICATION FairSpec
INVARIANTS
    TimeoutsExact
PROPERTY SilentPeersDropped
