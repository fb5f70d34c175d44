SPECIFICATION Spec
CONSTANTS
    Partners = {"diiisco", "space_acres", "aem", "titan", "mysterium"}
    Callers = {c1}
    Pair = {p1, p2}
    Trio = {t1, t2, t3}
    Keys = {k1, k2}
    Pins = {1}
    MaxImages = 2
    MaxAttempts = 1
    Cap = 1
    Unreadable = Unreadable
    MaxNow = 1
    MaxEntries = 3
    MaxTorn = 1
    Retention = 0
    Files = {exe, dll}
    Exe = exe
    MaxEngineChanges = 1
    MaxSpawns = 2
    MaxChanges = 1
    None = None
 
PROPERTIES LatestIsProvedAndKept OnlyCheckedFilesRun
CHECK_DEADLOCK FALSE
SYMMETRY Symmetry
