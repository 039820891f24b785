\* Three live processes and the lock of a dead one; an owner may exit between the
\* second reading of its lock and the probe.
CONSTANTS
    p1 = p1
    p2 = p2
    p3 = p3
    p4 = p4
    Proc = {p1, p2, p3, p4}
    MaxCalls = 1
    NoFile = NoFile
    Legacy = Legacy
    ExitsDuringProbe = TRUE
SYMMETRY ProcSymmetry
SPECIFICATION RaceSpec
PROPERTIES
    LockRemovedRightly
CHECK_DEADLOCK FALSE
