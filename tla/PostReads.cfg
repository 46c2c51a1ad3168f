\* Every table of up to four posts, threads cut at two levels, originals at
\* one, two writes by others.
SPECIFICATION ReadSpec
CONSTANTS
    NumIds = 4
    MaxThreadDepth = 2
    MaxRepostDepth = 1
    MaxRequests = 2
INVARIANTS ReadTypeOK ThreadComplete SameAsSingle
CHECK_DEADLOCK FALSE
