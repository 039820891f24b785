\* Three servers get two calls each about one message id.
CONSTANTS
    s1 = s1
    s2 = s2
    s3 = s3
    t1 = t1
    t2 = t2
    k1 = k1
    Server = {s1, s2, s3}
    Key = {k1}
    Text = {t1, t2}
    MaxAsks = 2
    NoMessage = NoMessage
    NoText = NoText
SYMMETRY AllSymmetry
SPECIFICATION Spec
INVARIANTS
    AtMostOneWrite
    RecordedBeforeWritten
    FailedNeverArrives
    SuccessIsTrue
PROPERTIES
    OutcomeIsFinal
    ImplementsOneDelivery
CHECK_DEADLOCK FALSE
