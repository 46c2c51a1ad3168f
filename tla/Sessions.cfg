\* Two browsers and three requests of any kind, in any order; one statement
\* fails, and any answer may be lost.
SPECIFICATION Spec
CONSTANTS
    Requests = {r1, r2, r3}
    Browsers = {b1, b2}
    Forms <- MCForms
    Nobody = nobody
    MaxFaults = 1
INVARIANTS ActsAsProven NoActAfterLogout RefusedForCause
SYMMETRY Symmetry
CHECK_DEADLOCK FALSE
