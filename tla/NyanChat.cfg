CONSTANTS
    Blank = blank
    Clients = {c1, c2, c3}
    Dir <- OwnDir
    Names = {p1, p2}
    ShortNames = {}
    InitSlots = 1
    RetrLimit = 0
    MaxTries = 1
    MaxSent = 2
    NoCode = nocode
    Null = null
    MaxClients = 2
    Timeout = 1
    Verdicts = {"corrected"}
    MaxTime = 1
    MaxPoll = 6
    NoFd = nofd
    Listener = listener
    StdinFd = stdin0
    Leavers = {c1, c2}
    Talkers = {c3}
    Guests = {c1}
SPECIFICATION Spec
SYMMETRY NameSymmetry
INVARIANTS
    TextsOnTheirWay
    WelcomeIsTrue
    OpenWhileAllStay
PROPERTIES
    OneConversation
CHECK_DEADLOCK FALSE
