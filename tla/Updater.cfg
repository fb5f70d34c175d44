SPECIFICATION Spec
CONSTANTS
    Background = Background
    Manual = {m1}
    MaxVersion = 2
    MaxLaunches = 3
    MaxFaults = 1
    None = None
    Torn = Torn
INVARIANTS NeverStuckSuspended SuspendedWhileReplacing
PROPERTIES FallbackReady
CHECK_DEADLOCK FALSE
