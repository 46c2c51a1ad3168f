\* Every forest of two posts, two replies, a viewer, no failure, any deletion.
\* All requests end, all posts may go.
SPECIFICATION Spec
CONSTANTS
    NumPosts = 2
    Requests = {r1, r2}
    Viewers = {v1}
    MaxFaults = 0
SYMMETRY Symmetry
INVARIANTS AllHear
CHECK_DEADLOCK FALSE
