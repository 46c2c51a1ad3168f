\* A post that two others may repost, three requests, either protection of
\* the copies, one failure.
CONSTANTS
    alice = alice
    bob = bob
    carol = carol
    p1 = p1
    Users = {alice, bob, carol}
    Posts = {p1}
    Author <- AuthorOf
    Requests = {r1, r2, r3}
    Ops <- BobDoesItAll
    Split <- OneOfBob
    Servers <- GapLocksOrUniqueKey
    MaxFaults = 1
    None = None
SPECIFICATION Spec
INVARIANTS NoStrandedCopy RepostShown OneOfEach NoOrphans LosersSucceed
PROPERTIES CommittedTogether OnlyForward
SYMMETRY Symmetry
