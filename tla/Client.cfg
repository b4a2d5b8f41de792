CONSTANTS
    Blank = blank
    Clients = {c1}
    Dir <- Home
    Names = {p1}
    NoCode = nocode
    Texts = {t1, t2}
    InitSlots = 1
    RetrLimit = 1
    MaxTries = 2
    MaxSent = 4
SPECIFICATION ClientSpec
INVARIANTS
    ClientTypeOK
    TextsOnTheirWay
    RoomForTexts
PROPERTIES
    TextsAcknowledged
CHECK_DEADLOCK FALSE
