CONSTANTS
    Fd = {f1, f2}
    Nick = {a, b}
    NickKey = {a, b}
    Fold <- MCFold
    ChannelName = {c1, c2}
    Key = {}
    Topic = {}
    IntMax = 0
    LimitArg = {}
    Token = {"+o", "-o"}
    None = None
    Missing = Missing
    Invalid = Invalid
    BadChannel = BadChannel
SPECIFICATION ViewSpec
SYMMETRY Symmetry
INVARIANTS
    RostersAgree
    MembershipSync
