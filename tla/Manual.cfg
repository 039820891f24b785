\* Three servers get two calls each about one id, manual and automatic in any order.
CONSTANTS
    s1 = s1
    s2 = s2
    s3 = s3
    m1 = m1
    a1 = a1
    k1 = k1
    Server = {s1, s2, s3}
    Key = {k1}
    Text = {m1, a1}
    ManualText = {m1}
    MaxAsks = 2
    NoMessage = NoMessage
    NoText = NoText
SYMMETRY ServerSymmetry
SPECIFICATION ManualSpec
INVARIANTS
    ManualTypeOK
    AtMostOneEach
    NoticeIsTrue
    ManualRecordIsTrue
PROPERTIES
    ManualOutcomeIsFinal
CHECK_DEADLOCK FALSE
