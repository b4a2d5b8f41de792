CONSTANTS
    ann = ann
    bob = bob
    cid = cid
    dan = dan
    Keys = {ann, bob, cid, dan}
    Hashes <- MCHashes
    AskedSize = 3
    MaxSize = 8
    MaxValue = 2
    NULL = NULL
    TOMBSTONE = TOMBSTONE
    Texts <- MCTexts
    Length = 2
    MaxFlips = 3
    KeyBytes <- MCKeyBytes
    Chars = {"a", "b"}
    AheadKeys = {"a"}
    MaxMsg = 4
    MaxMsgs = 5
    Lengths = {1, 150, 450}
    Panels <- MCPanels
    MaxHeard = 1
    HeardLengths = {1}
    MaxDown = 2
    SizeT = 100
    Widths = {1, 2}
SPECIFICATION Spec
INVARIANTS
    IsTheMap
    HangsOnTombstones
    OneCode
    Detects
    CorrectedOrTold
    InformationRestored
    InputTypeOK
    CursorInPanel
    CursorIsShown
PROPERTIES
    GrowthLosesOne
    KeysDoWhatTheySay
    CursorStaysOnMessages
CHECK_DEADLOCK FALSE
