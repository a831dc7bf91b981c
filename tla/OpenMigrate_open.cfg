\* Three loggers starting against a legacy el.db with no el-v1.db, on a
\* healthy disk and without crashes: every interleaving of their
\* migrations, opens and schema bootstraps.
CONSTANTS
    p1 = p1  p2 = p2  p3 = p3
    Procs <- ThreeProcs
    Legacy = TRUE
    MaxInodes = 5
    MaxEvents = 0
    MaxCrashes = 0
    MaxAttach = 2
    DiskMayFail = FALSE
SPECIFICATION Spec
INVARIANT TypeOK
INVARIANT AttachmentDirsOwned
PROPERTY HandlesGetSchema
