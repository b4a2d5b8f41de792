CONSTANTS
    MaxPoll = 6
    Socks = {s1, s2, s3}
    Listener = listener
    StdinFd = stdin0
    NoFd = nofd
    MaxBacklog = 1
    MaxInbox = 0
    MaxLines = 0
SPECIFICATION Spec
INVARIANT
    AllSocketsPolled
CHECK_DEADLOCK FALSE
