\* An automatic send of the id comes between a manual call's check and its send.
CONSTANTS
    s1 = s1
    s2 = s2
    s3 = s3
    m1 = m1
    a1 = a1
    k1 = k1
    Server = {s1, s2, s3}
    Key = {k1}
    Text = {m1, a1}
    ManualText = {m1}
    MaxAsks = 1
    NoMessage = NoMessage
    NoText = NoText
SYMMETRY ServerSymmetry
SPECIFICATION ManualSpec
INVARIANTS
    ManualSuccessIsTrue
CHECK_DEADLOCK FALSE
