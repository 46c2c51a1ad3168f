\* Failing polls, crashes and restarts; three events, one process; pollLag's
\* timing assumption holds, and a live poller reads a row before it expires
\* (PollBound = Retention; the proofs need no such bound).
SPECIFICATION FairSpec
CONSTANTS
    Procs = {p1}
    Events = {e1, e2, e3}
    BatchSize = 2
    GcBatchSize = 2
    PollLag = 1
    Retention = 2
    InsertSpan = 1
    PollBound = 2
    OrderedStamps = TRUE
INVARIANTS CursorPassesSettled AtMostOnce
PROPERTIES ImplementsFanOut EventuallyDelivered
