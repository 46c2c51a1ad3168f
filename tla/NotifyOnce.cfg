\* Three requests for two likes and a visit, two attempts, one failure.
SPECIFICATION MCSpec
CONSTANTS
    NumKeys = 3
    VisitKeys = {1}
    PostKeys = {2, 3}
    Requests = {1, 2, 3}
    Attempts = 2
    MaxFaults = 1
    None = None
INVARIANTS OneNote ToldOnce ConflictsCostNothing ToldIsStored
PROPERTIES Answered
