\* Two loggers on one file: serializability and termination of every call.
CONSTANTS
    p1 = p1
    p2 = p2
    p3 = p3
    Procs <- TwoProcs
    MaxWrites = 2
SPECIFICATION Spec
INVARIANT TypeOK
PROPERTIES Serializable CallsReturn
VIEW DbView
