\* One logger that crashes and restarts, on a disk whose SQLite calls may
\* fail, migrating a legacy el.db.
CONSTANTS
    p1 = p1  p2 = p2  p3 = p3
    Procs <- OneProc
    Legacy = TRUE
    MaxInodes = 5
    MaxEvents = 2
    MaxCrashes = 3
    MaxAttach = 1
    DiskMayFail = TRUE
SPECIFICATION Spec
\* TypeOK is checked by mig_open; this run asks only whether calls return.
PROPERTY EnsureDbReturns
