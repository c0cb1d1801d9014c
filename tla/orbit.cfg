SPECIFICATION FairSpec
CONSTANTS
    InitialHalf = 3
    Halves = {4}
    Period = 2
    Gaps = {1, 3}
    MaxInbox = 1
    MaxCalls = 1
    Modcods = {1, 2}
    Early = 3
    Late = 5
    Scale = 8
    MaxTrail = 2
    MaxLog = 1
    MaxModcods = 2
INVARIANTS
    ClockInPass
    BarMatchesHistory
PROPERTIES
    StatesKeepComing
CHECK_DEADLOCK FALSE
