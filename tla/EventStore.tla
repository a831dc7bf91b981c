----------------------------- MODULE EventStore -----------------------------
(***************************************************************************)
(* The Event Store (src/src/eventlogger.c) of one logger instance, together *)
(* with the GroupCache triggers of the schema (src/src/db.c) that every     *)
(* INSERT and UPDATE on Events fires, and the explicit repair procedure     *)
(* update_group_cache that the deleting calls run.                          *)
(*                                                                         *)
(* Data is abstracted to what the group cache and the header table tell    *)
(* apart: an event is its service, its group (or NULL), its read bit and   *)
(* its flag mask.  Remote contacts, times, texts and attachments are left  *)
(* out.  Every API call is one action, because each one runs inside one    *)
(* transaction (or one autocommit statement) of the only connection; the   *)
(* cross-process view of those transactions is the subject of DbLocking.   *)
(*                                                                         *)
(* Disk-full and I/O failures of single statements are environment        *)
(* choices enabled by DiskMayFail.  The deleting calls switch the journal  *)
(* off, so the ROLLBACK they issue after a failure is undefined in SQLite: *)
(* it may restore the rows or leave the statements already run in place.   *)
(***************************************************************************)
EXTENDS Integers, FiniteSets, SequencesExt, Bitwise

CONSTANTS
    Services,     \* service ids registered by plugins
    Groups,       \* group_uid strings
    NoGroup,      \* SQL NULL in Events.group_uid
    Unset,        \* the group_uid field of the caller's event is not set
    FlagValues,   \* values of the rows of the Flags table (single bits)
    HeaderNames,  \* header names a caller may add
    Contacts,     \* remote_uid strings of the one local account
    ContactValues,\* abook_uid and remote_name strings
    NoValue,      \* SQL NULL in Events.remote_uid and the Remotes columns
    MaxRowid,     \* bound on the rowids SQLite hands out
    MaxCount,     \* bound on the total_events counter of a GroupCache row
    DiskMayFail   \* whether single statements may fail (SQLITE_FULL/IOERR)

ASSUME NoValue \notin Contacts \cup ContactValues
ASSUME NoGroup \notin Groups /\ Unset \notin Groups \cup {NoGroup}
ASSUME MaxRowid \in Nat \ {0} /\ MaxCount \in Nat /\ DiskMayFail \in BOOLEAN

VARIABLES
    events,        \* Events: rowid -> row
    groupCache,    \* GroupCache: set of rows
    headers,       \* Headers: set of (event_id, name) rows
    lastGroupUid,  \* priv->last_group_uid of this logger
    remotes,       \* Remotes: remote_uid -> [abook, name], one local_uid
    ret            \* the API call last made, whether it reported success,
                   \* and what a reading call returned (<<>> for none)

vars == <<events, groupCache, headers, lastGroupUid, remotes, ret>>

Rowids == 1..MaxRowid
FlagMasks == {FoldSet(LAMBDA a, b : a | b, 0, S) : S \in SUBSET FlagValues}
EventRow == [service : Services, group : Groups \cup {NoGroup},
             is_read : {0, 1}, flags : FlagMasks, remote : Contacts \cup {NoValue}]
RemoteRow == [abook : ContactValues \cup {NoValue}, name : ContactValues \cup {NoValue}]
(* The remote fields of the caller's event: none, or a remote_uid with its
   remote_ebook_uid and remote_name, each possibly unset.                  *)
RemoteArgs == {[uid |-> NoValue, abook |-> NoValue, name |-> NoValue]}
              \cup [uid : Contacts, abook : ContactValues \cup {NoValue},
                    name : ContactValues \cup {NoValue}]
CacheRow == [event_id : Nat, service : Services, group : Groups,
             total : Nat, read : Nat, flags : Nat]
HeaderRow == [event_id : Rowids, name : HeaderNames]
Ops == {"none", "add_event", "add_header", "set_read_event", "set_event_flag",
        "unset_event_flag", "set_end_time", "delete_event", "delete_events",
        "delete_by_service", "delete_by_group_uids", "delete_all",
        "set_read_events", "update_remote_contacts", "remove_abook_uids",
        "get_group_info"}

LiveIds == DOMAIN events
RowsOf(g) == {r \in groupCache : r.group = g}
GroupIds(evs, g) == {i \in DOMAIN evs : evs[i].group = g}
SumOf(S, f) == MapThenFoldSet(+, 0, LAMBDA x : f[x], LAMBDA s : CHOOSE x \in s : TRUE, S)
\* x & ~m in SQL, for non-negative x and m
ClearBits(x, m) == x - (x & m)

(* Fault variant of the rowid allocation that starts a table at 0.        *)
NewRowidFromZero == IF LiveIds = {} THEN 0 ELSE Max(LiveIds) + 1

(* SQLite rowid allocation for an INTEGER PRIMARY KEY without AUTOINCREMENT:
   one more than the largest rowid in the table, 1 when it is empty.       *)
NewRowid == IF LiveIds = {} THEN 1 ELSE Max(LiveIds) + 1

(* The UNIQUE(event_id) constraint of GroupCache.                          *)
EventIdsUnique(c) == \A r1, r2 \in c : r1.event_id = r2.event_id => r1 = r2

(* Trigger gc_update_ev_add1: BEFORE INSERT, INSERT OR IGNORE a zero row.  *)
BeforeInsertTrigger(c, svc, g) ==
    IF g = NoGroup \/ \E r \in c : r.event_id = 0 \/ (r.service = svc /\ r.group = g)
    THEN c
    ELSE c \cup {[event_id |-> 0, service |-> svc, group |-> g,
                  total |-> 0, read |-> 0, flags |-> 0]}

(* Fault variant of gc_update_ev_add4 whose WHERE also names the service. *)
AfterInsertTriggerPerService(c, id, e) ==
    IF e.group = NoGroup THEN c
    ELSE {IF r.group = e.group /\ r.service = e.service
          THEN [r EXCEPT !.event_id = id, !.total = @ + 1,
                         !.read = @ + e.is_read, !.flags = @ | e.flags]
          ELSE r : r \in c}

(* Trigger gc_update_ev_add4: AFTER INSERT, every row WHERE group_uid
   matches (whatever its service) takes the new id and the new counters.   *)
AfterInsertTrigger(c, id, e) ==
    IF e.group = NoGroup THEN c
    ELSE {IF r.group = e.group
          THEN [r EXCEPT !.event_id = id, !.total = @ + 1,
                         !.read = @ + e.is_read, !.flags = @ | e.flags]
          ELSE r : r \in c}

(* Fault variant of gc_update_ev_update that forgets to subtract OLD.is_read. *)
UpdateTriggerNoOldRead(c, old, new) ==
    IF new.group = NoGroup THEN c
    ELSE {IF r.group = new.group
          THEN [r EXCEPT !.read = @ + new.is_read,
                         !.flags = ClearBits(@, old.flags) | new.flags]
          ELSE r : r \in c}

(* Trigger gc_update_ev_update: AFTER UPDATE on Events.                    *)
UpdateTrigger(c, old, new) ==
    IF new.group = NoGroup THEN c
    ELSE {IF r.group = new.group
          THEN [r EXCEPT !.read = @ - old.is_read + new.is_read,
                         !.flags = ClearBits(@, old.flags) | new.flags]
          ELSE r : r \in c}

(* The text update_group_cache builds for "group_uid IN (...)", as a token
   sequence: a quoted uid for each non-NULL entry of li, and a comma after
   it whenever another list node follows, whatever that node holds.       *)
RECURSIVE InListTokens(_)
InListTokens(li) ==
    IF li = <<>> THEN <<>>
    ELSE IF Head(li) = NoGroup THEN InListTokens(Tail(li))
    ELSE <<Head(li)>> \o (IF Tail(li) # <<>> THEN <<",">> ELSE <<>>)
                      \o InListTokens(Tail(li))

(* SQLite accepts an empty list and a list of comma-separated literals; a
   trailing comma is a syntax error.                                        *)
InListParses(li) ==
    LET t == InListTokens(li) IN t = <<>> \/ Last(t) # ","

(* The row INSERT OR REPLACE ... SELECT MAX(id), service_id, group_uid,
   COUNT, SUM(is_read), SUM(flags) ... GROUP BY group_uid yields for g.  *)
RepairRow(evs, g) ==
    LET ids == GroupIds(evs, g)
        newest == Max(ids)
    IN [event_id |-> newest, service |-> evs[newest].service, group |-> g,
        total |-> Cardinality(ids),
        read |-> SumOf(ids, [i \in ids |-> evs[i].is_read]),
        flags |-> SumOf(ids, [i \in ids |-> evs[i].flags])]

(* The INSERT OR REPLACE statement of update_group_cache: a new row
   replaces every row it conflicts with on UNIQUE(event_id) or on
   UNIQUE(service_id, group_uid).                                           *)
RepairStatement(c, li, evs) ==
    LET new == {RepairRow(evs, g) :
                  g \in {li[k] : k \in {k \in DOMAIN li : li[k] # NoGroup
                                           /\ GroupIds(evs, li[k]) # {}}}}
        clash(r) == \E n \in new : n.event_id = r.event_id
                                   \/ (n.service = r.service /\ n.group = r.group)
    IN {r \in c : ~clash(r)} \cup new

(* DELETE FROM GroupCache WHERE NOT EXISTS an event of its group.          *)
CleanupStatement(c, evs) == {r \in c : GroupIds(evs, r.group) # {}}

(* The Events rows left after deleting ids, and the Headers rows left by
   the fkd_headers_atts_event_id trigger, which fires once per deleted row. *)
EventsWithout(ids) == [i \in LiveIds \ ids |-> events[i]]
HeadersWithout(ids) == {h \in headers : h.event_id \notin ids}

-----------------------------------------------------------------------------
(* A call's effect on the database: the tables after it and what it returns. *)
Outcome(ev, hd, gc, ok) == [ev |-> ev, hd |-> hd, gc |-> gc, ok |-> ok]
Restored == Outcome(events, headers, groupCache, FALSE)

Return(o, op) ==
    /\ events' = o.ev
    /\ headers' = o.hd
    /\ groupCache' = o.gc
    /\ ret' = [op |-> op, ok |-> o.ok, reply |-> <<>>]

(* The UPDATE Events statement of the set_* calls, in autocommit, with the
   AFTER UPDATE trigger; a failed statement changes nothing.               *)
UpdateEvent(id, new, op) ==
    /\ id \in LiveIds
    /\ \E o \in {Outcome([events EXCEPT ![id] = new], headers,
                         UpdateTrigger(groupCache, events[id], new), TRUE)}
                \cup (IF DiskMayFail THEN {Restored} ELSE {}) :
          Return(o, op)
    /\ UNCHANGED <<lastGroupUid, remotes>>

(* Fault variant in which a failing Remotes statement does not jump to
   db_error, so the event commits without its Remotes row.               *)
UpsertRemoteUnchecked(rc) ==
    IF rc.uid = NoValue THEN {remotes}
    ELSE {[u \in DOMAIN remotes \cup {rc.uid} |->
             IF u = rc.uid THEN [abook |-> rc.abook, name |-> rc.name]
             ELSE remotes[u]]} \cup (IF DiskMayFail THEN {remotes} ELSE {})

(* The Remotes table after a committed add_event for the remote fields rc:
   _add_event_core SELECTs the row of (local_uid, remote_uid), INSERTs it
   when missing, and otherwise UPDATEs abook_uid and remote_name each when
   g_strcmp0 finds the new value different, an unset field being NULL; any
   of these statements failing goes to db_error.  Either way the row ends
   with the event's values.                                                *)
UpsertRemote(rc) ==
    IF rc.uid = NoValue THEN {remotes}
    ELSE {[u \in DOMAIN remotes \cup {rc.uid} |->
             IF u = rc.uid THEN [abook |-> rc.abook, name |-> rc.name]
             ELSE remotes[u]]}

(* _add_event_precheck refuses the call before any statement runs: an    *)
(* unset service, event type or local uid, a name the lookup caches do   *)
(* not resolve, or _ensure_db failing. Unlike a failure inside           *)
(* _add_event_core, it leaves last_group_uid as it was.                  *)
AddEventRefused ==
    /\ Return(Restored, "add_event")
    /\ UNCHANGED <<lastGroupUid, remotes>>

(* rtcom_el_add_event_full's loop over its headers table, after the       *)
(* event's INSERT in the same transaction: one INSERT INTO Headers per    *)
(* entry, refused by UNIQUE(event_id, name) when a row of that id and     *)
(* name is left over; a refused one rolls the whole call back.            *)
FullHeaders(id, hnames) == {[event_id |-> id, name |-> n] : n \in hnames}

(* rtcom_el_add_event and rtcom_el_add_event_full: last_group_uid is set
   before the INSERT; the Remotes SELECT runs before it and the Remotes
   INSERT or UPDATEs after it; the INSERT fires both insert triggers and
   is aborted when the AFTER trigger breaks UNIQUE(event_id); each header
   is one more INSERT; any failure rolls the exclusive transaction back.   *)
AddEvent(svc, garg, isRead, fl, hnames, rc) ==
    LET id == NewRowid
        g == IF garg = Unset THEN lastGroupUid ELSE garg
        e == [service |-> svc, group |-> g, is_read |-> isRead, flags |-> fl,
              remote |-> rc.uid]
        gc == AfterInsertTrigger(BeforeInsertTrigger(groupCache, svc, g), id, e)
        newHeaders == FullHeaders(id, hnames)
        ok == EventIdsUnique(gc) /\ newHeaders \cap headers = {}
        done == Outcome(events @@ (id :> e), headers \cup newHeaders, gc, TRUE)
    IN /\ id <= MaxRowid
       /\ \A r \in groupCache : r.group = g => r.total < MaxCount
       /\ lastGroupUid' = IF garg = Unset THEN lastGroupUid ELSE garg
       /\ \E o \in IF ok THEN {done} \cup (IF DiskMayFail THEN {Restored} ELSE {})
                         ELSE {Restored},
             rm \in UpsertRemote(rc) :
             /\ Return(o, "add_event")
             /\ remotes' = IF o.ok THEN rm ELSE remotes

(* rtcom_el_add_header: one autocommit INSERT, with no check that the
   event exists; UNIQUE(event_id, name) refuses a second header.           *)
AddHeader(id, n) ==
    LET h == [event_id |-> id, name |-> n]
    IN /\ \E o \in IF h \notin headers
                   THEN {Outcome(events, headers \cup {h}, groupCache, TRUE)}
                        \cup (IF DiskMayFail THEN {Restored} ELSE {})
                   ELSE {Restored} :
             Return(o, "add_header")
       /\ UNCHANGED <<lastGroupUid, remotes>>

SetReadEvent(id, read) ==
    UpdateEvent(id, [events[id] EXCEPT !.is_read = IF read THEN 1 ELSE 0],
                "set_read_event")

SetEventFlag(id, v) ==
    UpdateEvent(id, [events[id] EXCEPT !.flags = @ | v], "set_event_flag")

UnsetEventFlag(id, v) ==
    UpdateEvent(id, [events[id] EXCEPT !.flags = ClearBits(@, v)],
                "unset_event_flag")

(* rtcom_el_set_end_time with a non-zero end time: the row's abstracted
   columns stay as they are, but the AFTER UPDATE trigger still fires.     *)
SetEndTime(id) == UpdateEvent(id, events[id], "set_end_time")

(* One autocommit UPDATE Events SET is_read of rtcom_el_set_read_event on
   the tables st, with its AFTER UPDATE trigger; an id without a row
   matches nothing.                                                        *)
MarkRead(st, id, r) ==
    IF id \notin DOMAIN st.ev THEN st
    ELSE LET new == [st.ev[id] EXCEPT !.is_read = r]
         IN [ev |-> [st.ev EXCEPT ![id] = new],
             gc |-> UpdateTrigger(st.gc, st.ev[id], new)]

(* rtcom_el_set_read_events: rtcom_el_set_read_event for each id of the
   zero-terminated array, each in its own statement, stopping at the first
   that fails; the ones before it stay applied.                            *)
SetReadEvents(list, read) ==
    LET r == IF read THEN 1 ELSE 0
        after(k) == FoldLeft(LAMBDA st, id : MarkRead(st, id, r),
                             [ev |-> events, gc |-> groupCache],
                             SubSeq(list, 1, k))
    IN /\ list # <<>>
       /\ \E k \in IF DiskMayFail THEN 0..Len(list) ELSE {Len(list)} :
             Return(Outcome(after(k).ev, headers, after(k).gc, k = Len(list)),
                    "set_read_events")
       /\ UNCHANGED <<lastGroupUid, remotes>>

(* rtcom_el_update_remote_contact(s): in one transaction, UPDATE Remotes
   SET abook_uid, remote_name of the contact's row, if there is one; a
   failure rolls back.                                                     *)
UpdateRemoteContact(uid, abook, name) ==
    LET rm == IF uid \in DOMAIN remotes
              THEN [remotes EXCEPT ![uid] = [abook |-> abook, name |-> name]]
              ELSE remotes
    IN /\ \E ok \in IF DiskMayFail THEN BOOLEAN ELSE {TRUE} :
             /\ remotes' = IF ok THEN rm ELSE remotes
             /\ ret' = [op |-> "update_remote_contacts", ok |-> ok, reply |-> <<>>]
       /\ UNCHANGED <<events, groupCache, headers, lastGroupUid>>

(* rtcom_el_remove_abook_uid(s): in one transaction, UPDATE Remotes SET
   abook_uid = NULL WHERE abook_uid matches; a failure rolls back.         *)
RemoveAbookUid(abook) ==
    LET rm == [u \in DOMAIN remotes |->
                 IF remotes[u].abook = abook
                 THEN [remotes[u] EXCEPT !.abook = NoValue] ELSE remotes[u]]
    IN /\ \E ok \in IF DiskMayFail THEN BOOLEAN ELSE {TRUE} :
             /\ remotes' = IF ok THEN rm ELSE remotes
             /\ ret' = [op |-> "remove_abook_uids", ok |-> ok, reply |-> <<>>]
       /\ UNCHANGED <<events, groupCache, headers, lastGroupUid>>

(* DELETE, then update_group_cache(li), then COMMIT, with the journal off.
   A failed group lookup leaves li NULL, which update_group_cache treats
   as nothing to repair; a failed cleanup DELETE is ignored; any other
   failure ends in a ROLLBACK whose effect is undefined.                  *)
DeleteThenRepair(ids, li) ==
    LET evs == EventsWithout(ids)
        hd == HeadersWithout(ids)
        repaired == RepairStatement(groupCache, li, evs)
        full == Outcome(evs, hd, IF li = <<>> THEN groupCache
                                 ELSE CleanupStatement(repaired, evs), TRUE)
        kept == Outcome(evs, hd, groupCache, FALSE)
    IN IF li # <<>> /\ ~InListParses(li) THEN {Restored, kept}
       ELSE {full} \cup
            IF DiskMayFail
            THEN {Restored, kept, [kept EXCEPT !.ok = TRUE],
                  [full EXCEPT !.gc = repaired], [full EXCEPT !.ok = FALSE],
                  [full EXCEPT !.gc = repaired, !.ok = FALSE]}
            ELSE {}

(* rtcom_el_delete_event; li is the prepended result of
   SELECT DISTINCT(group_uid) FROM Events WHERE id = event_id.             *)
DeleteEvent(id) ==
    LET li == IF id \in LiveIds THEN <<events[id].group>> ELSE <<>>
    IN /\ \E o \in DeleteThenRepair({id} \cap LiveIds, li) :
             Return(o, "delete_event")
       /\ UNCHANGED <<lastGroupUid, remotes>>

(* rtcom_el_delete_events for a query matching the ids S; SQLite returns
   the distinct group_uids in an order of its choosing.                    *)
DeleteEvents(S) ==
    /\ S # {}
    /\ \E li \in SetToSeqs({events[i].group : i \in S}) :
          \E o \in DeleteThenRepair(S, li) : Return(o, "delete_events")
    /\ UNCHANGED <<lastGroupUid, remotes>>

(* rtcom_el_delete_by_service: two DELETEs, the second on GroupCache.      *)
DeleteByService(s) ==
    LET ids == {i \in LiveIds : events[i].service = s}
        full == Outcome(EventsWithout(ids), HeadersWithout(ids),
                        {r \in groupCache : r.service # s}, TRUE)
    IN /\ \E o \in {full} \cup
                   IF DiskMayFail
                   THEN {Restored, [full EXCEPT !.gc = groupCache, !.ok = FALSE],
                         [full EXCEPT !.ok = FALSE]}
                   ELSE {} :
             Return(o, "delete_by_service")
       /\ UNCHANGED <<lastGroupUid, remotes>>

(* rtcom_el_delete_by_group_uids: for each uid, DELETE its events and then
   its GroupCache rows.  StatementsRun(list, k) is the database after the
   first k of these statements.                                            *)
StatementsRun(list, k) ==
    LET eg == {list[x] : x \in 1..((k + 1) \div 2)}
        cg == {list[x] : x \in 1..(k \div 2)}
        ids == {i \in LiveIds : events[i].group \in eg}
    IN Outcome(EventsWithout(ids), HeadersWithout(ids),
               {r \in groupCache : r.group \notin cg}, FALSE)

DeleteByGroupUids(list) ==
    /\ \E o \in {[StatementsRun(list, 2 * Len(list)) EXCEPT !.ok = TRUE]} \cup
                IF DiskMayFail
                THEN {StatementsRun(list, k) : k \in 0..(2 * Len(list))}
                ELSE {} :
          Return(o, "delete_by_group_uids")
    /\ UNCHANGED <<lastGroupUid, remotes>>

(* rtcom_el_delete_all: DELETE FROM Events only; GroupCache is untouched. *)
DeleteAll ==
    LET full == Outcome(EventsWithout(LiveIds), HeadersWithout(LiveIds),
                        groupCache, TRUE)
    IN /\ \E o \in {full} \cup (IF DiskMayFail
                                THEN {Restored, [full EXCEPT !.ok = FALSE]}
                                ELSE {}) :
             Return(o, "delete_all")
       /\ UNCHANGED <<lastGroupUid, remotes>>

(* Fault variant of _get_group_info_slave that reports read_events as the
   unread count.                                                           *)
GroupInfoSlaveSwapped(r) == <<r.total, r.read, r.flags>>

(* _get_group_info_slave: total_events, total_events - read_events, flags. *)
GroupInfoSlave(r) == <<r.total, r.total - r.read, r.flags>>

(* rtcom_el_get_group_info: SELECT ... FROM GroupCache WHERE group_uid; the
   slave runs once per row, so with several rows the last one SQLite steps
   to wins, and with none the outputs keep their zero initial values.  A
   failing _ensure_db or SELECT returns FALSE.  Nothing is written.        *)
GetGroupInfo(g) ==
    /\ \E res \in IF RowsOf(g) = {} THEN {<<0, 0, 0>>}
                  ELSE {GroupInfoSlave(r) : r \in RowsOf(g)},
          ok \in IF DiskMayFail THEN BOOLEAN ELSE {TRUE} :
          ret' = [op |-> "get_group_info", ok |-> ok,
                  reply |-> IF ok THEN <<g>> \o res ELSE <<>>]
    /\ UNCHANGED <<events, groupCache, headers, lastGroupUid, remotes>>

-----------------------------------------------------------------------------
Init ==
    /\ events = [i \in {} |-> Restored]
    /\ groupCache = {}
    /\ headers = {}
    /\ lastGroupUid = NoGroup
    /\ remotes = [u \in {} |-> [abook |-> NoValue, name |-> NoValue]]
    /\ ret = [op |-> "none", ok |-> TRUE, reply |-> <<>>]

Next ==
    \/ \E svc \in Services, garg \in Groups \cup {NoGroup, Unset},
          isRead \in {0, 1}, fl \in FlagMasks, hn \in SUBSET HeaderNames,
          rc \in RemoteArgs :
          AddEvent(svc, garg, isRead, fl, hn, rc)
    \/ AddEventRefused
    \/ \E id \in Rowids, n \in HeaderNames : AddHeader(id, n)
    \/ \E id \in LiveIds, read \in BOOLEAN : SetReadEvent(id, read)
    \/ \E id \in LiveIds, v \in FlagValues : SetEventFlag(id, v)
    \/ \E id \in LiveIds, v \in FlagValues : UnsetEventFlag(id, v)
    \/ \E id \in LiveIds : SetEndTime(id)
    \/ \E list \in [1..2 -> Rowids], read \in BOOLEAN : SetReadEvents(list, read)
    \/ \E uid \in Contacts, abook, name \in ContactValues \cup {NoValue} :
          UpdateRemoteContact(uid, abook, name)
    \/ \E abook \in ContactValues : RemoveAbookUid(abook)
    \/ \E id \in Rowids : DeleteEvent(id)
    \/ \E S \in SUBSET LiveIds : DeleteEvents(S)
    \/ \E s \in Services : DeleteByService(s)
    \/ \E G \in SUBSET Groups \ {{}} : \E list \in SetToSeqs(G) :
          DeleteByGroupUids(list)
    \/ DeleteAll
    \/ \E g \in Groups : GetGroupInfo(g)

Spec == Init /\ [][Next]_vars

-----------------------------------------------------------------------------
TypeOK ==
    /\ events \in [LiveIds -> EventRow] /\ LiveIds \subseteq Rowids
    /\ groupCache \subseteq CacheRow
    /\ headers \subseteq HeaderRow
    /\ lastGroupUid \in Groups \cup {NoGroup}
    /\ remotes \in [DOMAIN remotes -> RemoteRow] /\ DOMAIN remotes \subseteq Contacts
    /\ ret \in [op : Ops, ok : BOOLEAN,
                reply : {<<>>} \cup (Groups \X Nat \X Int \X Nat)]

(* rtcom_el_get_group_info reads the one GroupCache row of a group: every
   group that still has events has exactly one row, and it carries the
   service of those events.  This rests on the AFTER INSERT trigger
   aborting an insert that would give two rows of a group the same id.    *)
GroupCacheRowUnique ==
    \A g \in Groups :
        GroupIds(events, g) # {} =>
            \E r \in groupCache :
                /\ RowsOf(g) = {r}
                /\ \A i \in GroupIds(events, g) : events[i].service = r.service

(* What rtcom_el_get_group_info reports for a group may be stale (after
   delete_all, a partly failed delete or a repair whose cleanup failed) but
   never undercounts: the total is at least the group's live events, the
   unread count at least its live unread events, and total - unread at
   least its live read events.  So a client never shows fewer unread
   messages than the group holds, nor a negative count.                   *)
GroupInfoNeverUndercounts ==
    [][ret'.op = "get_group_info" /\ ret'.ok =>
         LET g == ret'.reply[1]
             ids == GroupIds(events, g)
             liveRead == SumOf(ids, [i \in ids |-> events[i].is_read])
         IN /\ ret'.reply[2] >= Cardinality(ids)
            /\ ret'.reply[3] >= Cardinality(ids) - liveRead
            /\ ret'.reply[2] - ret'.reply[3] >= liveRead]_vars

(* Spec 8 (database invariants): the GroupCache row of every group that has
   events holds its newest event id, its event and read-event counts and
   the bitwise OR of its events' flags.  The row is kept by the insert and
   update triggers, and repaired by update_group_cache after the deletes
   by id and by query; delete_all, the SUM(flags) of the repair and a
   repair statement that fails to compile each leave it wrong.            *)
CacheMatchesEvents ==
    \A g \in Groups :
        LET ids == GroupIds(events, g)
        IN ids # {} =>
             \A r \in RowsOf(g) :
                /\ r.event_id = Max(ids)
                /\ r.total = Cardinality(ids)
                /\ r.read = SumOf(ids, [i \in ids |-> events[i].is_read])
                /\ r.flags = FoldSet(LAMBDA i, acc : events[i].flags | acc, 0, ids)

(* Spec 3 invariant 2: every event with a remote_uid has its Remotes row.
   add_event inserts the row in the event's transaction and no call deletes
   Remotes rows, so this rests on every failing Remotes statement rolling
   the event back, also when the disk fails between the two INSERTs.      *)
RemoteRowPerPair ==
    \A i \in LiveIds : events[i].remote # NoValue => events[i].remote \in DOMAIN remotes

=============================================================================
