SPECIFICATION Spec
CONSTANTS
    MaxUpdates = 4
    MaxLosses = 2
    MaxReadErrs = 1
    MaxWriteErrs = 1
    Absent = Absent
    Corrupt = Corrupt
INVARIANTS KeySurvivesLoss AckedSurvives
PROPERTY NeverSilentlyOlder
