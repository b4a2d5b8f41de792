CONSTANTS
    Blank = blank
    Clients = {c1, c2}
    Dir <- OwnDir
    Names = {p1, p2}
    ShortNames = {}
    InitSlots = 3
    RetrLimit = 1
    MaxTries = 1
    MaxSent = 3
    NoCode = nocode
    Null = null
    MaxClients = 2
    Timeout = 1
    Verdicts = {"corrected"}
    MaxTime = 0
    MaxPoll = 5
    NoFd = nofd
    Listener = listener
    StdinFd = stdin0
    Leavers = {c1}
    Talkers = {c1}
    Guests = {}
SPECIFICATION Spec
SYMMETRY Symmetry
PROPERTY
    SocketIsGood
CHECK_DEADLOCK FALSE
