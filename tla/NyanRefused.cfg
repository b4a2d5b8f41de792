CONSTANTS
    Blank = blank
    Clients = {c1, c2}
    Dir <- OwnDir
    Names = {p1}
    ShortNames = {}
    InitSlots = 3
    RetrLimit = 1
    MaxTries = 1
    MaxSent = 1
    NoCode = nocode
    Null = null
    MaxClients = 2
    Timeout = 1
    Verdicts = {"corrected"}
    MaxTime = 0
    MaxPoll = 5
    NoFd = nofd
    Listener = listener
    StdinFd = stdin0
    Leavers = {}
    Talkers = {}
    Guests = {}
SPECIFICATION Spec
PROPERTY
    RefusedIsTold
CHECK_DEADLOCK FALSE
