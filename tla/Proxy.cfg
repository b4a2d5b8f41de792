CONSTANTS
    Conns = {k1, k2}
    MaxFd = 5
    MaxPoll = 5
    MaxLines = 1
    NoFd = nofd
SPECIFICATION Spec
INVARIANTS
    TypeOK
    NotBothBlocked
    DescriptorsApart
PROPERTIES
    RelayedToServer
    CutIsSeen
CHECK_DEADLOCK FALSE
