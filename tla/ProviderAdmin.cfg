SPECIFICATION Spec
CONSTANTS
    Servers = {s1, s2}
    Keys = {k1, k2}
    Absent = Absent
    Short = Short
    NoKey = NoKey
    FileFaults = TRUE
    Crashes = TRUE
    Procs = {p1, p2}
    Secrets = {x1, x2}
    Blank = Blank
    NoRow = NoRow
    Nowhere = Nowhere
    DBFaults = TRUE
INVARIANTS
    TypeOK
    RunningKeyIsOnDisk
    SecretsStayReadable
    RotationSticks
PROPERTY KeyIsForGood
