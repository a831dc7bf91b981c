--------------------------- MODULE MC_QueryCompiler ---------------------------
(***************************************************************************)
(* Instantiates QueryCompiler for TLC: four events of two local accounts,  *)
(* two groups, one address-book contact and one event without a remote,    *)
(* and triples that reach every branch of _build_where_clause.             *)
(***************************************************************************)
EXTENDS QueryCompiler, TLC

CONSTANTS NULL

Ev(id, read, local, remote, abook, name, group) ==
    "id" :> id @@ "is-read" :> read @@ "local-uid" :> local
    @@ "remote-uid" :> remote @@ "remote-ebook-uid" :> abook
    @@ "remote-name" :> name @@ "group-uid" :> group

\* e4 and e1 share a local/remote pair; e3 is in the address book; e2 has
\* no remote; e1 and e3 share group "a".
LowerCaseEvents ==
    {Ev(1, 1, <<"a">>, <<"b">>, NULL, <<"v", "e">>, <<"a">>),
     Ev(2, 0, <<"a">>, NULL, NULL, NULL, NULL),
     Ev(3, 0, <<"b">>, <<"b">>, <<"a">>, <<"e">>, <<"a">>),
     Ev(4, 1, <<"a">>, <<"b">>, NULL, <<"v", "e">>, <<"b">>)}

\* The same events, the contact of e3 spelled with capitals.
MixedCaseEvents ==
    {Ev(1, 1, <<"a">>, <<"b">>, NULL, <<"v", "e">>, <<"a">>),
     Ev(2, 0, <<"a">>, NULL, NULL, NULL, NULL),
     Ev(3, 0, <<"b">>, <<"b">>, <<"a">>, <<"V", "E">>, <<"a">>),
     Ev(4, 1, <<"a">>, <<"b">>, NULL, <<"v", "e">>, <<"b">>)}

\* The value argument as the three types it may be read as.
I(n) == [int |-> n, str |-> <<>>, strv |-> <<>>]
S(x) == [int |-> 0, str |-> x, strv |-> <<>>]
V(x) == [int |-> 0, str |-> <<>>, strv |-> x]
T(key, val, op) == [key |-> key, val |-> val, op |-> op]

\* One triple per branch of _build_where_clause: an integer and a boolean
\* comparison, a string order, IN lists with two and with no strings, a
\* suffix, and two refused ones (IN_STRV on an integer field, an unknown
\* key), which the grammar does not admit either.
QueryTriples ==
    {T("id", I(2), "GREATER"), T("is-read", I(0), "EQUAL"),
     T("group-uid", S(<<"a">>), "LESS_EQUAL"),
     T("remote-uid", V(<<<<"b">>, <<"a">>>>), "IN_STRV"),
     T("remote-uid", V(<<>>), "IN_STRV"),
     T("remote-name", S(<<"e">>), "STR_ENDS_WITH"),
     T("id", V(<<<<"a">>>>), "IN_STRV"), T("body", S(<<"a">>), "EQUAL")}

\* The triples with a substring match added.
LikeTriples == QueryTriples \cup {T("remote-name", S(<<"e">>), "STR_LIKE")}

\* Each set holds a value GParamSpec refuses (-2, -1) besides the defaults.
LimitValues == {-2, -1, 0, 1}
OffsetValues == {-1, 0, 1}

=============================================================================
