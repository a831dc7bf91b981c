\* A cursor whose statement failed is finalized twice.
CONSTANTS
    p1 = p1
    p2 = p2
    p3 = p3
    Procs <- OneProc
    MaxWrites = 2
SPECIFICATION Spec
PROPERTY CursorFinalizedOnce
