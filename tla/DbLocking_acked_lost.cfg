\* A write acknowledged inside an atomic cursor is rolled back by a later delete.
CONSTANTS
    p1 = p1
    p2 = p2
    p3 = p3
    Procs <- OneProc
    MaxWrites = 2
SPECIFICATION Spec
INVARIANT AckedWritesSurvive
