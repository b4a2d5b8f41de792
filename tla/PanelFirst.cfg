CONSTANTS
    Lengths = {1, 150, 450}
    MaxMsgs = 5
    MaxDown = 2
    SizeT = 100
    Panels <- MCPanels
SPECIFICATION HistorySpec
INVARIANTS
    FirstIsSet
CHECK_DEADLOCK FALSE
