CONSTANTS
    MaxPoll = 4
    Socks = {s1, s2}
    Listener = listener
    StdinFd = stdin0
    NoFd = nofd
    MaxBacklog = 1
    MaxInbox = 1
    MaxLines = 1
SPECIFICATION Spec
PROPERTIES
    PendingAccepted
    EndIsSeen
CHECK_DEADLOCK FALSE
