\* Two process ids, three processes, two conversations; no symmetry, as liveness is
\* checked too.
CONSTANTS
    p1 = p1
    p2 = p2
    chosen = chosen
    other = other
    Pid = {p1, p2}
    Session = {chosen, other}
    Chosen = chosen
    Parent = p1
    MaxLives = 3
SPECIFICATION FairSpec
INVARIANTS
    OnlyTheRightSession
PROPERTIES
    ImplementsOneDelivery
    EverySendEnds
CHECK_DEADLOCK FALSE
