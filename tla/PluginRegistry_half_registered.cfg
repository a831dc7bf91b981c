\* Two loggers starting together against a fresh database with one plugin
\* file, on a healthy disk and without crashes.
CONSTANTS
    p1 = p1  p2 = p2
    Procs <- TwoProcs
    PluginOrder <- OneOrder
    ServiceOf <- ServiceOfOne
    EventTypesOf <- EventTypesOfOne
    FlagsOf <- FlagsOfOne
    Unbindable <- NoBroken
    MaxFaults = 0
SPECIFICATION Spec
INVARIANT LoadedPluginUsable
