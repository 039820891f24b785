\* Two sends to a thread that has up to three turns; no symmetry, as liveness is
\* checked too.
CONSTANTS
    a = a
    b = b
    Send = {a, b}
    MaxTurns = 3
SPECIFICATION FairSpec
INVARIANTS
    AttemptsAreUntaken
PROPERTIES
    ImplementsOneDelivery
    EverySendEnds
CHECK_DEADLOCK FALSE
