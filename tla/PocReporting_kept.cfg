SPECIFICATION Spec
CONSTANTS
    SlotsPerDay = 3
    Cap = 3
    BatchMax = 2
    LastTime = 4
    MaxVer = 4
    NoDoc = NoDoc
PROPERTIES KeptBehindFailedDrain
