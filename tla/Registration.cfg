SPECIFICATION FairSpec
CONSTANTS
    Key = {k1, k2}
    Attempt = {a1, a2}
    None = None
    MaxPresses = 2
    MaxFaults = 1
    MaxCrashes = 1
    MaxDeregisters = 1
INVARIANTS SuccessSticks
PROPERTIES NeverAnOlderToken FreshTokenNotRotated CompletesUndisturbed
CHECK_DEADLOCK FALSE
