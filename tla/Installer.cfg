SPECIFICATION Spec
CONSTANTS
    Installers = {"i", "j"}
    Wants <- MCWants
    Contents <- MCContents
    MaxWrites = 1
INVARIANTS
    PluginIsKept
PROPERTIES
    EditsAreCareful
CHECK_DEADLOCK FALSE
