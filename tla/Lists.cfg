\* Lists of up to four entries in pages of two, and any three writes while
\* they are read.
SPECIFICATION Spec
CONSTANTS
    NumKeys = 4
    TypeOf <- MCTypeOf
    PerPage = 2
    MaxWrites = 3
INVARIANTS TypeOK MissedAtMostLeft RepeatedAtMostCame BadgeWasShown
CHECK_DEADLOCK FALSE
