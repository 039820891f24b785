\* A client writes up to five lines with two ids; no symmetry, as liveness is
\* checked too.
CONSTANTS
    i1 = i1
    i2 = i2
    Id = {i1, i2}
    NoId = NoId
    MaxLines = 5
SPECIFICATION FairSpec
INVARIANTS
    OneReplyEach
    OutstandingIsPending
PROPERTIES
    EveryRequestSettles
CHECK_DEADLOCK FALSE
