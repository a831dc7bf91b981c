---------------------------- MODULE MC_EventStore ----------------------------
(***************************************************************************)
(* Instantiates EventStore for TLC.  Services, groups and header names are *)
(* model values; each configuration picks the sets it needs.               *)
(***************************************************************************)
EXTENDS EventStore, TLC

CONSTANTS s1, s2, g1, g2, tok, c1, v1

OneService == {s1}
TwoServices == {s1, s2}
OneGroup == {g1}
TwoGroups == {g1, g2}
TokenHeader == {tok}
OneContact == {c1}
OneValue == {v1}

\* The tables and the logger's state.  No action reads ret, the return
\* value of the last call, so states that differ only in it have the same
\* futures.  The replies of reading calls are checked by action properties
\* on the step that makes them, which TLC evaluates on every transition.
StoreView == <<events, groupCache, headers, lastGroupUid, remotes>>

\* Services and groups are opaque ids: renaming them changes nothing.
Symmetry == Permutations(TwoServices) \cup Permutations(TwoGroups)
=============================================================================
