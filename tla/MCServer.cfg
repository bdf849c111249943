CONSTANTS
    Fd = {f1, f2}
    Line = {"cmd", "quit", "long"}
    RecvMax = 1
    MaxIn = 1
    MaxOut = 1
    MaxBacklog = 1
SPECIFICATION FairSpec
INVARIANTS
    TypeOK
    TablesAgree
    PolloutArmed
    EachReadyFdServed
PROPERTIES
    NoSpuriousDisconnect
    ShutdownTerminates
    HangUpsAreReaped
