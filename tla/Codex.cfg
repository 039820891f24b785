\* Two servers publish two tasks of two launches into a registry of two records
\* while a message is sent; no symmetry, as liveness is checked too.
CONSTANTS
    p1 = p1
    p2 = p2
    Publisher = {p1, p2}
    t1 = t1
    t2 = t2
    Task = {t1, t2}
    MaxHosts = 2
    MaxLaunches = 2
    MaxPublished = 3
    NoDraft = NoDraft
SPECIFICATION FewSpec
INVARIANTS
    RegistryIsRecent
PROPERTIES
    ImplementsOneDelivery
    EverySendEnds
CHECK_DEADLOCK FALSE
