---------------------------- MODULE QueryCompiler ----------------------------
(***************************************************************************)
(* The Query Compiler (src/src/eventlogger-query.c): one RTComElQuery      *)
(* object with its limit, offset and grouping properties, the WHERE clause *)
(* rtcom_el_query_prepare builds from (key, value, operator) triples, the  *)
(* statement rtcom_el_query_refresh emits, and rtcom_el_get_events running *)
(* that statement over a fixed set of events (_get_events_core).           *)
(*                                                                         *)
(* A string is a sequence of one-character strings, so that LIKE patterns  *)
(* and the byte order of SQLite's BINARY collation can be evaluated.  The  *)
(* statement text is abstracted to its parts (WHERE predicates, grouping,  *)
(* LIMIT, OFFSET): its fixed projection and joins are the same for every   *)
(* query.  What the statement selects is evaluated with SQLite's rules     *)
(* (three-valued NULL, LIKE, GROUP BY with bare columns); the spec's       *)
(* section 4.5 is written out separately as SpecAnswers, and the property  *)
(* compares the two.                                                       *)
(***************************************************************************)
EXTENDS Integers, Sequences, SequencesExt, FiniteSets

CONSTANTS
    Events,     \* rows of Events LEFT JOIN Remotes: field name -> value
    Null,       \* SQL NULL (a Remotes column of an event without remote)
    Requests,   \* (key, val, op) triples a caller may pass to prepare
    MaxPreds,   \* bound on the triples of one prepare call
    Limits,     \* values a caller may pass to set_limit
    Offsets     \* values a caller may pass to set_offset

ASSUME MaxPreds \in Nat /\ Limits \subseteq Int /\ Offsets \subseteq Int

VARIABLES
    limit,     \* priv->limit
    offset,    \* priv->offset
    groupBy,   \* priv->group_by
    where,     \* priv->where_clause: <<>> for NULL, else compiled predicates
    sql,       \* priv->sql: <<>> for NULL, else <<statement>>
    ret,       \* the call last made and, for get_events, the rows of the
               \* iterator it returned (<<>> for a NULL iterator)
    asked      \* history: the triples of the last prepare call

vars == <<limit, offset, groupBy, where, sql, ret, asked>>

GroupModes == {"NONE", "CONTACT", "UIDS", "GROUP"}
G_MAXINT == 2147483647

(* fields[] of db.c: the API field names and their expected GType.  A key
   outside this table is a miss of g_hash_table_lookup (type 0).          *)
FieldType ==
    ("service" :> "string" @@ "event-type" :> "string" @@ "id" :> "int" @@ "service-id" :> "int"
     @@ "event-type-id" :> "int" @@ "storage-time" :> "int"
     @@ "start-time" :> "int" @@ "end-time" :> "int" @@ "flags" :> "int"
     @@ "is-read" :> "bool" @@ "bytes-sent" :> "int"
     @@ "bytes-received" :> "int" @@ "local-uid" :> "string"
     @@ "local-name" :> "string" @@ "group-uid" :> "string"
     @@ "remote-ebook-uid" :> "string" @@ "remote-uid" :> "string"
     @@ "remote-name" :> "string" @@ "message-token" :> "string"
     @@ "channel" :> "string" @@ "outgoing" :> "bool"
     @@ "free-text" :> "string")

TypeOf(key) == IF key \in DOMAIN FieldType THEN FieldType[key] ELSE "none"

-----------------------------------------------------------------------------
(* Compilation: _build_operator and _build_where_clause.                   *)

(* The SQL text of the relational operators; every other operator, the two
   string-only ones and STR_LIKE included, reaches g_return_val_if_reached
   and yields NULL.                                                        *)
OperatorSql ==
    [EQUAL |-> "=", NOT_EQUAL |-> "<>", GREATER |-> ">",
     GREATER_EQUAL |-> ">=", LESS |-> "<", LESS_EQUAL |-> "<="]
NoOp == "NULL"
BuildOperator(op) == IF op \in DOMAIN OperatorSql THEN OperatorSql[op] ELSE NoOp

(* A literal of an IN list, and the separator sqlite3_mprintf("%Q%c")
   writes after it: a comma when another string follows, a blank after the
   last one.                                                               *)
Lit(v) == [kind |-> "lit", v |-> v]
Sep(c) == [kind |-> c, v |-> <<>>]

InListText(strv) ==
    [i \in 1..(2 * Len(strv)) |->
        IF i % 2 = 1 THEN Lit(strv[(i + 1) \div 2])
        ELSE Sep(IF i \div 2 < Len(strv) THEN "comma" ELSE "blank")]

(* The predicate appended for one triple, or Invalid when the function
   returns FALSE.  The value is one gpointer, read as the field's type
   expects: an integer (GPOINTER_TO_UINT), a string or a string array.
   Integer and boolean values are printed with %d, the
   ending is a LIKE pattern '%<value>' (%q doubles quotes only), the other
   strings are quoted with %Q, which SQLite reads back unchanged.          *)
Invalid == [col |-> "", sqlop |-> NoOp, lit |-> <<>>]
BuildWhereClause(r) ==
    LET t == TypeOf(r.key)
        pred(sqlop, lit) == [col |-> r.key, sqlop |-> sqlop, lit |-> lit]
    IN CASE t \in {"int", "bool"} /\ BuildOperator(r.op) # NoOp ->
                pred(BuildOperator(r.op), r.val.int)
         [] t = "string" /\ r.op = "IN_STRV" -> pred("IN", InListText(r.val.strv))
         [] t = "string" /\ r.op = "STR_ENDS_WITH" -> pred("LIKE", <<"%">> \o r.val.str)
         [] t = "string" /\ BuildOperator(r.op) # NoOp ->
                pred(BuildOperator(r.op), r.val.str)
         [] OTHER -> Invalid

(* The statement rtcom_el_query_refresh prints, by its parts.             *)
Statement(w, l, o, g) == [where |-> w, limit |-> l, offset |-> o, group |-> g]

-----------------------------------------------------------------------------
(* What SQLite makes of the statement.                                     *)

(* Character codes of the characters the strings are made of, for the
   BINARY collation, and the ASCII case folding of LIKE.                   *)
Code == "%" :> 37 @@ "A" :> 65 @@ "B" :> 66 @@ "E" :> 69 @@ "V" :> 86
        @@ "_" :> 95 @@ "a" :> 97 @@ "b" :> 98 @@ "e" :> 101 @@ "v" :> 118
Fold(c) == IF c \in {"A", "B", "E", "V"}
           THEN CHOOSE l \in DOMAIN Code : Code[l] = Code[c] + 32 ELSE c

(* memcmp order of two strings, a proper prefix first.                    *)
RECURSIVE StrLess(_, _)
StrLess(a, b) ==
    IF b = <<>> THEN FALSE
    ELSE IF a = <<>> THEN TRUE
    ELSE IF Head(a) = Head(b) THEN StrLess(Tail(a), Tail(b))
    ELSE Code[Head(a)] < Code[Head(b)]

(* The order of a column: integers by value, strings by BINARY collation. *)
Less(t, x, y) == IF t = "string" THEN StrLess(x, y) ELSE x < y

SqlCompare(t, x, sqlop, y) ==
    CASE sqlop = "="  -> x = y
      [] sqlop = "<>" -> x # y
      [] sqlop = ">"  -> Less(t, y, x)
      [] sqlop = ">=" -> ~Less(t, x, y)
      [] sqlop = "<"  -> Less(t, x, y)
      [] sqlop = "<=" -> ~Less(t, y, x)

(* x LIKE p: % matches any run of characters, _ any one character, and the
   other characters match up to ASCII case.                                *)
RECURSIVE Like(_, _)
Like(x, p) ==
    IF p = <<>> THEN x = <<>>
    ELSE IF Head(p) = "%"
         THEN Like(x, Tail(p)) \/ (x # <<>> /\ Like(Tail(x), p))
    ELSE /\ x # <<>>
         /\ Head(p) = "_" \/ Fold(Head(p)) = Fold(Head(x))
         /\ Like(Tail(x), Tail(p))

(* The IN list parses when, blanks aside, literals and commas alternate,
   starting and ending with a literal; "IN ( )" is an empty list.          *)
InListParses(text) ==
    LET t == SelectSeq(text, LAMBDA x : x.kind # "blank")
    IN /\ t = <<>> \/ Len(t) % 2 = 1
       /\ \A i \in 1..Len(t) : (t[i].kind = "lit") <=> (i % 2 = 1)
InListValues(text) == {text[i].v : i \in {i \in DOMAIN text : text[i].kind = "lit"}}

StatementParses(s) ==
    \A i \in DOMAIN s.where : s.where[i].sqlop = "IN" => InListParses(s.where[i].lit)

(* A WHERE predicate over one row: NULL satisfies nothing.               *)
SqlHolds(e, p) ==
    LET x == e[p.col]
    IN /\ x # Null
       /\ CASE p.sqlop = "IN"   -> x \in InListValues(p.lit)
            [] p.sqlop = "LIKE" -> Like(x, p.lit)
            [] OTHER            -> SqlCompare(TypeOf(p.col), x, p.sqlop, p.lit)

(* GroupCache holds, for each group, the newest of its events (the
   invariant the GroupCache triggers of EventStore maintain).             *)
GroupNewest ==
    {e \in Events : e["group-uid"] # Null /\
        \A f \in Events : f["group-uid"] = e["group-uid"] => f["id"] <= e["id"]}

(* The unique_remote expression of db.c: 'ab:' || abook_uid, else
   'lr:' || local_uid || ';' || remote_uid, NULL when remote_uid is NULL. *)
UniqueRemote(e) ==
    IF e["remote-ebook-uid"] # Null THEN <<"ab:", e["remote-ebook-uid"]>>
    ELSE IF e["remote-uid"] = Null THEN Null
    ELSE <<"lr:", e["local-uid"], e["remote-uid"]>>

(* GROUP BY Remotes.local_uid, Remotes.remote_uid: both NULL without a
   Remotes row.                                                            *)
RemotesUids(e) ==
    IF e["remote-uid"] = Null THEN <<Null, Null>>
    ELSE <<e["local-uid"], e["remote-uid"]>>

(* The rows a grouped SELECT with bare columns may return: one row of each
   group, which one being SQLite's choice.                                 *)
OnePerKey(S, key) ==
    {R \in SUBSET S : /\ {key[r] : r \in R} = {key[e] : e \in S}
                      /\ Cardinality(R) = Cardinality({key[e] : e \in S})}

IdsDesc(R) == SetToSortSeq({e["id"] : e \in R}, >)

(* LIMIT l OFFSET o; a negative limit is no limit.                        *)
Window(seq, l, o) ==
    SubSeq(seq, o + 1, IF l < 0 \/ o + l > Len(seq) THEN Len(seq) ELSE o + l)

SqlRows(s) ==
    LET src == IF s.group = "GROUP" THEN GroupNewest ELSE Events
        sel == {e \in src : \A i \in DOMAIN s.where : SqlHolds(e, s.where[i])}
        picks == CASE s.group = "CONTACT" -> OnePerKey(sel, [e \in sel |-> UniqueRemote(e)])
                   [] s.group = "UIDS"    -> OnePerKey(sel, [e \in sel |-> RemotesUids(e)])
                   [] OTHER               -> {sel}
    IN {Window(IdsDesc(R), s.limit, s.offset) : R \in picks}

-----------------------------------------------------------------------------
(* What section 4.5 of the spec says a query selects.  A predicate on a    *)
(* field the event does not have (no remote contact) selects nothing.     *)

Relational == DOMAIN OperatorSql
FoldAll(x) == [i \in DOMAIN x |-> Fold(x[i])]

SpecHolds(e, r) ==
    LET x == e[r.key]
        t == FieldType[r.key]
        v == IF t = "string" THEN r.val.str ELSE r.val.int
    IN /\ x # Null
       /\ CASE r.op = "EQUAL"         -> x = v
            [] r.op = "NOT_EQUAL"     -> x # v
            [] r.op = "GREATER"       -> Less(t, v, x)
            [] r.op = "GREATER_EQUAL" -> ~Less(t, x, v)
            [] r.op = "LESS"          -> Less(t, x, v)
            [] r.op = "LESS_EQUAL"    -> ~Less(t, v, x)
            [] r.op = "IN_STRV"       -> x \in ToSet(r.val.strv)
            [] r.op = "STR_ENDS_WITH" -> IsSuffix(v, x)
            [] r.op = "STR_LIKE"      ->
                  \E i, j \in 0..Len(x) : FoldAll(SubSeq(x, i + 1, j)) = FoldAll(v)

(* The triples the grammar admits: a known field, relational operators on
   any field, the string operators on string fields only, and the two
   pattern operators not on the service and event-type names.             *)
InGrammar(r) ==
    /\ r.key \in DOMAIN FieldType
    /\ r.op \in Relational \/ FieldType[r.key] = "string"
    /\ r.op \in {"STR_ENDS_WITH", "STR_LIKE"} => r.key \notin {"service", "event-type"}

(* The grouping key of "by contact": address-book:<abook-id> when the
   remote is in the address book, else local-remote:<local>;<remote>; the
   events without a remote contact make one group.                        *)
ContactKey(e) ==
    CASE e["remote-ebook-uid"] # Null -> <<"address-book", e["remote-ebook-uid"]>>
      [] e["remote-uid"] # Null       -> <<"local-remote", e["local-uid"], e["remote-uid"]>>
      [] OTHER                        -> <<"no-contact">>

UidsKey(e) == IF e["remote-uid"] = Null THEN <<"no-contact">>
              ELSE <<e["local-uid"], e["remote-uid"]>>

Done(call) == [call |-> call, rows |-> <<>>]

Request(ts, l, o, g) == [preds |-> ts, limit |-> l, offset |-> o, group |-> g]

(* The row sequences the spec allows for a request: the matching events
   (by group: the newest event of each group), one per contact or uid pair
   when grouping by them, newest first, after offset rows, at most limit
   rows (-1 is unlimited).                                                 *)
SpecAnswers(a) ==
    LET src == IF a.group = "GROUP" THEN GroupNewest ELSE Events
        sel == {e \in src : \A i \in DOMAIN a.preds : SpecHolds(e, a.preds[i])}
        picks == CASE a.group = "CONTACT" -> OnePerKey(sel, [e \in sel |-> ContactKey(e)])
                   [] a.group = "UIDS"    -> OnePerKey(sel, [e \in sel |-> UidsKey(e)])
                   [] OTHER               -> {sel}
    IN {Window(IdsDesc(R), a.limit, a.offset) : R \in picks}

-----------------------------------------------------------------------------
(* rtcom_el_query_new: the property defaults of rtcom_el_query_init.      *)
Init ==
    /\ limit = -1
    /\ offset = 0
    /\ groupBy = "NONE"
    /\ where = <<>>
    /\ sql = <<>>
    /\ ret = Done("new")
    /\ asked = <<>>

(* g_object_set of an int property: a value outside the range of its
   GParamSpec is refused with a warning and the property keeps its value. *)
SetLimit(l) ==
    /\ limit' = IF l \in -1..G_MAXINT THEN l ELSE limit
    /\ ret' = Done("set_limit")
    /\ UNCHANGED <<offset, groupBy, where, sql, asked>>

SetOffset(o) ==
    /\ offset' = IF o \in 0..G_MAXINT THEN o ELSE offset
    /\ ret' = Done("set_offset")
    /\ UNCHANGED <<limit, groupBy, where, sql, asked>>

SetGroupBy(g) ==
    /\ groupBy' = g
    /\ ret' = Done("set_group_by")
    /\ UNCHANGED <<limit, offset, where, sql, asked>>

(* rtcom_el_query_refresh: the statement from the cached WHERE clause and
   the current properties.                                                 *)
Refresh ==
    /\ sql' = <<Statement(where, limit, offset, groupBy)>>
    /\ ret' = Done("refresh")
    /\ UNCHANGED <<limit, offset, groupBy, where, asked>>

(* rtcom_el_query_prepare: the old WHERE clause is freed first; the first
   triple that fails frees the statement too and returns FALSE; otherwise
   the clause is the conjunction of the predicates (NULL for none) and the
   call ends in rtcom_el_query_refresh.                                    *)
Prepare(ts) ==
    LET preds == [i \in DOMAIN ts |-> BuildWhereClause(ts[i])]
        ok == \A i \in DOMAIN preds : preds[i].sqlop # NoOp
    IN /\ where' = IF ok THEN preds ELSE <<>>
       /\ sql' = IF ok THEN <<Statement(preds, limit, offset, groupBy)>> ELSE <<>>
       /\ asked' = ts
       /\ ret' = Done("prepare")
       /\ UNCHANGED <<limit, offset, groupBy>>

(* _get_events_core: a NULL statement or one SQLite cannot compile gives a
   NULL iterator, and so does a first step that finds no row.             *)
GetEvents ==
    /\ \E rows \in IF sql = <<>> \/ ~StatementParses(sql[1]) THEN {<<>>}
                   ELSE SqlRows(sql[1]) :
          ret' = [call |-> "get_events", rows |-> rows]
    /\ UNCHANGED <<limit, offset, groupBy, where, sql, asked>>

Next ==
    \/ \E l \in Limits : SetLimit(l)
    \/ \E o \in Offsets : SetOffset(o)
    \/ \E g \in GroupModes : SetGroupBy(g)
    \/ \E ts \in SeqOf(Requests, MaxPreds) : Prepare(ts)
    \/ Refresh
    \/ GetEvents

Spec == Init /\ [][Next]_vars

-----------------------------------------------------------------------------
TypeOK ==
    /\ limit \in -1..G_MAXINT /\ offset \in 0..G_MAXINT
    /\ groupBy \in GroupModes
    /\ Len(where) <= MaxPreds /\ Len(sql) <= 1
    /\ ret.rows \in Seq({e["id"] : e \in Events})
    /\ asked \in SeqOf(Requests, MaxPreds)

(* Sections 4.5 and 9: when the last prepare was given triples the
   grammar admits, the iterator rtcom_el_get_events returns for the
   statement that prepare or a later refresh emitted holds the rows the
   spec's operator semantics, grouping, newest-first order, offset and
   limit give for those triples and the properties the statement was
   emitted with, and is NULL only when they give no row.                   *)
CursorAnswersRequest ==
    /\ ret.call = "get_events"
    /\ sql # <<>>
    /\ \A i \in DOMAIN asked : InGrammar(asked[i])
    => ret.rows \in SpecAnswers(Request(asked, sql[1].limit, sql[1].offset,
                                        sql[1].group))

=============================================================================
