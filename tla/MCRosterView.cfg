CONSTANTS
    Fd = {f1, f2, f3}
    Nick = {a, b, c}
    NickKey = {a, b, c}
    Fold <- MCFold
    ChannelName = {c1}
    Key = {}
    Topic = {}
    IntMax = 0
    LimitArg = {}
    Token = {"+i", "+o", "-o"}
    None = None
    Missing = Missing
    Invalid = Invalid
    BadChannel = BadChannel
SPECIFICATION ViewSpec
SYMMETRY Symmetry
INVARIANTS
    RostersAgree
    NoDanglingClient
    ChannelRoles
    RepliesReachLiveClients
PROPERTIES
    TicketsLast
