\* Two loggers starting together against a fresh database, four plugin
\* files (three of them colliding with "chat" on a flag, an event type and
\* the service name), and one fault: a failing
\* statement or a logger death.
CONSTANTS
    p1 = p1  p2 = p2
    Procs <- TwoProcs
    PluginOrder <- FourOrder
    ServiceOf <- ServiceOfFour
    EventTypesOf <- EventTypesOfFour
    FlagsOf <- FlagsOfFour
    Unbindable <- NoBroken
    MaxFaults = 1
SPECIFICATION Spec
INVARIANTS TypeOK CacheSound VocabularyHasService
