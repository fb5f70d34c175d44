SPECIFICATION FryVpnTasks
CONSTANTS
    Parts = {"fryvpn"}
    MaxRestarts = 3
    StartingTimeout = 6
    RearmTicks = 10
    MaxSkip = 2
    MaxChanges = 1
    None = None
    SlotsPerDay = 3
    Cap = 3
    BatchMax = 2
    LastTime = 3
    MaxVer = 4
    NoDoc = NoDoc
INVARIANTS FundedIsSeen
PROPERTIES NodeComesUp
CHECK_DEADLOCK FALSE
