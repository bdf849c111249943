CONSTANTS
    Bots = {"b1", "b2"}
    WithPassword = {"b1"}
    Says <- Texts
    MaxSays = 2
    LineLen = 2
    Room = 2
SPECIFICATION FairSpec
INVARIANTS
    AnswersInOrder
    ReturnsWithAllSent
PROPERTY ChatterEnds
CHECK_DEADLOCK FALSE
