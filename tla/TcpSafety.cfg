CONSTANTS
    MaxPoll = 6
    Socks = {s1, s2, s3}
    Listener = listener
    StdinFd = stdin0
    NoFd = nofd
    MaxBacklog = 1
    MaxInbox = 1
    MaxLines = 1
SPECIFICATION Spec
SYMMETRY Symmetry
INVARIANTS
    TypeOK
    FixedSlots
    OneSlotPerSocket
    SlotsAreOpen
    NoHoles
    CompressInBounds
PROPERTIES
    StillPolled
    CompressIsCompacted
CHECK_DEADLOCK FALSE
