CONSTANTS
    Fd = {f1, f2}
    a = a
    A = A
    b = b
    Nick = {a, A, b}
    NickKey <- MCNickKey
    Fold <- MCFold
    ChannelName = {c1}
    Key = {k1}
    Topic = {t1}
    IntMax = 2
    LimitArg = {0, 1, 3}
    Token = {"+i", "-i", "+t", "-t", "+k", "-k", "+l", "-l", "+o", "-o", Missing, Invalid}
    None = None
    Missing = Missing
    Invalid = Invalid
    BadChannel = BadChannel
SPECIFICATION Spec
SYMMETRY FdSymmetry
INVARIANTS
    TypeOK
    NicknameIndexSync
    OnlyRegisteredMembers
    ChannelsAreInhabited
PROPERTIES
    OnlyOperatorsGovern
    LimitBoundsGrowth
