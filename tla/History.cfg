SPECIFICATION ReadersSpec
\* Pages and catalogs.
CONSTANTS
    Sessions = {"a", "b"}
    Selected = "a"
    Projects = {"p"}
    Limit = 2
    MaxLedgers = 2
    Ids = {1, 2}
    Times = {1, 2}
    Routes <- MCRoutes
    Live = {"b"}
    Holds <- MCHolds
    MaxMessages <- MCMaxMessages
    MaxReplaced = 1
\* Two servers of one sender, and lists that may be full.
    s1 = s1
    s2 = s2
    Server = {s1, s2}
    MaxAsks = 2
    MaxListed = 2
    NoLedger = NoLedger
\* A lock or a reading is young for two units of time.
    Platforms <- MCPlatforms
    Young = 2
    Slack = 1
    Startup = 1
    Second = 2
    Unknown = Unknown
    MaxTime = 4
    MaxLives = 2
SYMMETRY Servers
INVARIANTS
    WalkIsExact
    OneRoot
    CatalogIsTrue
    ListsAreComplete
    NothingIsSentByTheDead
    LiveOwnersAreSpared
    DeadOwnersAreFound
CHECK_DEADLOCK FALSE
