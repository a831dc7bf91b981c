---------------------------- MODULE MC_OpenMigrate ----------------------------
(* Instantiates OpenMigrate for TLC with one or two logger processes.      *)
EXTENDS OpenMigrate, TLC

CONSTANTS p1, p2, p3

OneProc == {p1}
TwoProcs == {p1, p2}
ThreeProcs == {p1, p2, p3}

=============================================================================
