\* A cursor teardown whose COMMIT times out leaves the transaction open.
CONSTANTS
    p1 = p1
    p2 = p2
    p3 = p3
    Procs <- TwoProcs
    MaxWrites = 1
SPECIFICATION Spec
INVARIANT NoLeakedTransaction
