CONSTANTS
    Conns = {k1}
    MaxFd = 5
    MaxPoll = 5
    MaxLines = 1
    NoFd = nofd
SPECIFICATION Spec
PROPERTIES
    ClientsAreCut
CHECK_DEADLOCK FALSE
