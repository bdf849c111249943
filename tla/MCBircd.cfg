CONSTANTS
    MaxFd = 3
    MAX_CLIENTS = 2
    BUF_SIZE = 3
    Letters = {"x"}
    MaxTyped = 4
    MaxConns = 3
SPECIFICATION Spec
INVARIANTS
    BuffersInBounds
    MessagesIntact
PROPERTY DropsOnlyBehindOthers
CHECK_DEADLOCK FALSE
