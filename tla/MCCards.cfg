SPECIFICATION Cards
CONSTANTS
    Id = {"storj", "space_acres", "diiisco", "aem"}
    Call = {c1, c2}
    MaxPresses = 3
    MaxSaveFaults = 1
    MaxRestarts = 1
    Caller = {a1, a2}
    Purpose = {aem, titan}
    Key = {k1, k2}
    MaxRearms = 1
    Nobody = Nobody
    None = None
INVARIANTS NoCardIsPinned LaunchAgrees PromptsAreAsked
PROPERTIES ExitKeepsTheIntent
CHECK_DEADLOCK FALSE
SYMMETRY Symmetry
