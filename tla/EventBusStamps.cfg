\* created_at and id are drawn in different orders.
SPECIFICATION Spec
CONSTANTS
    Procs = {p1}
    Events = {e1, e2}
    BatchSize = 2
    GcBatchSize = 2
    PollLag = 1
    Retention = 2
    InsertSpan = 1
    PollBound = 4
    OrderedStamps = FALSE
SYMMETRY Symmetry
INVARIANTS CursorPassesSettled
