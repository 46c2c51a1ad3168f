\* Every forest of two posts, two replies, a viewer, two failures.
\* All requests end, all posts may go.
SPECIFICATION Spec
CONSTANTS
    NumPosts = 2
    Requests = {r1, r2}
    Viewers = {v1}
    MaxFaults = 2
SYMMETRY Symmetry
INVARIANTS AllHearWhileIntact NoCrossTalk AuthorTold
CHECK_DEADLOCK FALSE
