SPECIFICATION Pages
CONSTANTS
    Attempts = 2
    MaxClicks = 2
    MaxLost = 1
    MaxHealth = 1
    PollCap = 2
    MaxChanges = 2
    MaxAnswers = 1
    MaxTaken = 2
    MaxLeaseCalls = 1
    MaxTicks = 1
    MaxRuns = 1
    MaxFetches = 2
    None = None
PROPERTIES CardIsTruthful EstimateKeepsUp PageIsTruthful
CHECK_DEADLOCK FALSE
