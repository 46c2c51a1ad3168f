\* Two processes, two server sessions, two failures.
SPECIFICATION GcFairSpec
CONSTANTS
    Collectors = {p1, p2}
    Sessions = {s1, s2}
    None = None
    DeleteBatch = 2
    MaxRows = 3
    MaxFaults = 2
INVARIANTS OneDelete
PROPERTIES LockAlwaysFreed TableEmptied ShutdownReturns
