\* Two notifications from one process, a page that may open its stream at
\* either; one thing goes wrong: a restart, a broken stream, a failed count.
SPECIFICATION FairSpec
CONSTANTS
    Notes = {n1, n2}
    Procs = {p1, p2}
    Clients = {c1}
    WriterAt <- MCWriterAt
    SubBuffer = 1
    Nobody = nobody
    MaxTroubles = 1
INVARIANT StaleIsNotSilent
PROPERTY BadgeCatchesUp
CHECK_DEADLOCK FALSE
