---------------------------- MODULE MC_DbLocking ----------------------------
(* Model values for checking DbLocking with TLC. *)
EXTENDS DbLocking, TLC

CONSTANTS p1, p2, p3

OneProc == {p1}
TwoProcs == {p1, p2}

ProcSymmetry == Permutations(TwoProcs)

\* States that differ only in what the last calls returned are one state:
\* no action and no property reads `ret'.
DbView == <<pc, lock, txn, pending, readAt, cur, stmt, att, tok, disk,
            version, acked, nextW>>
=============================================================================
