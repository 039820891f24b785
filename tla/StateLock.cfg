\* Two running processes, of one and of two calls, and one that left files behind;
\* no symmetry, as liveness is checked too.
CONSTANTS
    p1 = p1
    p2 = p2
    p3 = p3
    Proc = {p1, p2, p3}
    MaxCalls = 2
    NoFile = NoFile
    Legacy = Legacy
    ExitsDuringProbe = FALSE
SPECIFICATION DepartedSpec
INVARIANTS
    MutualExclusion
    AcknowledgedIsSaved
PROPERTIES
    LockRemovedRightly
    InterruptedRecoveryStays
    ImplementsAtomicUpdates
    EveryCallReturns
CHECK_DEADLOCK FALSE
