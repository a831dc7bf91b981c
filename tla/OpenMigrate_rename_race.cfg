\* Two loggers migrating a legacy el.db concurrently on a healthy disk,
\* without crashes.
CONSTANTS
    p1 = p1  p2 = p2  p3 = p3
    Procs <- TwoProcs
    Legacy = TRUE
    MaxInodes = 3
    MaxEvents = 1
    MaxCrashes = 0
    MaxAttach = 0
    DiskMayFail = FALSE
SPECIFICATION Spec
INVARIANT AckedEventsReachable
