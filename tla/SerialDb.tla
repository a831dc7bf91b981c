------------------------------ MODULE SerialDb ------------------------------
(***************************************************************************)
(* What the database file promises the loggers that share it: every        *)
(* transaction takes effect in one indivisible step, and whatever it       *)
(* wrote was computed from the database as it stood just before that step. *)
(*                                                                         *)
(* `log' holds the committed writes. Each write is tagged with the version *)
(* of the database its transaction read (`base'); `version' counts the     *)
(* commits. In a serial execution every write of a commit is based on the *)
(* version just before the commit.                                         *)
(***************************************************************************)
EXTENDS Naturals

CONSTANT Tokens      \* identities of the writes callers make

VARIABLES log, version

serialVars == <<log, version>>

LoggedTokens == {r.w : r \in log}

Init ==
    /\ log = {}
    /\ version = 0

\* One transaction commits the non-empty set W of new writes.
Commit(W) ==
    /\ W # {}
    /\ W \cap LoggedTokens = {}
    /\ log' = log \cup {[w |-> t, base |-> version] : t \in W}
    /\ version' = version + 1

Next == \E W \in SUBSET Tokens : Commit(W)

Spec == Init /\ [][Next]_serialVars

=============================================================================
