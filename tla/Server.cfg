CONSTANTS
    Blank = blank
    Pseudos = {p1, p2, p3, short}
    ShortPseudos = {short}
    Codes = {k1, k2}
    NoCode = nocode
    Null = null
    MaxClients = 2
    Timeout = 2
    RetrLimit = 1
    Verdicts = {"corrected", "uncorrected"}
    Texts = {t1}
    ProxySlots = {2, 3}
    MaxTime = 3
SPECIFICATION Spec
INVARIANTS
    TypeOK
    IndexMatches
    SessionHasCode
PROPERTIES
    CodeIsForever
    SessionKeptUntilTimeout
CHECK_DEADLOCK FALSE
