# TLA+ models of rtcom-eventlogger

This directory holds TLA+ models of the event-log library in `src/`. The
library is an SQLite-backed store of communication events, with a
per-group aggregate cache. The models are checked with TLC.

## The system

| Part | Source | State it keeps | Operations |
|---|---|---|---|
| DB Gateway (C1) | `src/src/db.c` 231–243, 802–1013 | one SQLite connection and its transaction; SQLite's file locks across processes | `rtcom_el_db_exec(_printf)`, `_iterate` (2 s busy loop), `_transaction` (refuses nesting), `_commit`, `_rollback` |
| Schema and migration (C2) | `db.c` 88–226, 312–777, 494–631 | the schema: tables, UNIQUE constraints, triggers; `user_version`; the `.temp` file of a migration | `_internal_open` (quick_check, corruption → delete and reopen once, bootstrap in an exclusive transaction), `rtcom_el_db_convert_from_db0` |
| Lookup cache (C3) | `eventlogger.c` 2338–2430, `db.c` 1023–1042 | name → id maps of Services, EventTypes, Flags | build, lookups |
| Event Store (C4) | `eventlogger.c` 490–2336 | the Events, Headers, Attachments and Remotes tables; `priv->last_group_uid` | add_event(_full), add_header, add_attachment, set_read_event(s), set/unset_event_flag, set_end_time, the five deletes, remote-contact updates |
| Query compiler (C5) | `eventlogger-query.c` | the SQL text of a query | `rtcom_el_query_prepare`, `_build_where_clause`, `rtcom_el_query_refresh` |
| Row cursor (C6) | `eventlogger-iter.c`, `eventlogger-attach-iter.c` | a prepared statement; an atomic cursor also holds a deferred transaction | first, next, get values, get attachments, attachment first/next, finalize |
| Group-cache maintainer (C7) | `db.c` 201–225, `eventlogger.c` 1944–2022 | the GroupCache table | three triggers on Events; `update_group_cache` after the deletes by id and by query |
| Plugins | `eventlogger.c` 2458–2895 | Plugins/Services/EventTypes/Flags rows | `_init_plugin` registers a plugin's vocabulary |
| DBus | `eventlogger.c` 2962–3223 | none | signals after commits; a DbReopen signal makes other loggers reopen |

How the parts interact:
- Every mutating call of the Event Store runs its statements through the
  Gateway.
- Add-event and the remote updates run in one transaction; add-event's
  transaction is EXCLUSIVE, the remote updates' is DEFERRED.
- The deletes also run in a DEFERRED transaction, after switching the
  journal off ("if disk is full we might not be in position to create
  journal").
- The set_* calls run one autocommit UPDATE each.
- Every INSERT and UPDATE on Events fires the GroupCache triggers.
- The deletes by id and by query repair the cache explicitly. The deletes
  by service and by group delete the matching cache rows. `delete_all`
  does not touch the cache.
- Several processes may open the same database file. They coordinate only
  through SQLite's file locks and the 2 s busy loop.

What is hard to test here (the full list, with source lines, is
`hazards` in PROJECT.json):
- the cache kept by triggers across long sequences of legal calls;
- statements failing halfway through a delete whose ROLLBACK is undefined
  because the journal is off;
- rowids that SQLite hands out again after deletes;
- interleavings of several processes on one file;
- crashes during plugin registration and migration.

## Modules

### `EventStore.tla`: Event Store and group-cache maintainer (C4, C7)

It models one logger and its connection. Each API call is one action,
because each one runs in one transaction or one autocommit statement.

State:

| Variable | Models |
|---|---|
| `events` | the Events table, rowid → (service, group or NULL, is_read, flags, remote_uid or NULL) |
| `groupCache` | the GroupCache table, as a set of rows |
| `headers` | the Headers table, as (event_id, name) pairs |
| `lastGroupUid` | `priv->last_group_uid` |
| `remotes` | the Remotes table of one local account, remote_uid → (abook_uid, remote_name), each possibly NULL |
| `ret` | the call last made and whether it returned success |

The schema's triggers are operators that the actions apply inside their
statement:
- `BeforeInsertTrigger` is `gc_update_ev_add1`.
- `AfterInsertTrigger` is `gc_update_ev_add4`.
- `UpdateTrigger` is `gc_update_ev_update`.
- `HeadersWithout` is the header cascade of `fkd_headers_atts_event_id`.

The repair procedure is split the same way:
- `RepairStatement`, `RepairRow` and `CleanupStatement` are the two
  statements of `update_group_cache`.
- `InListTokens` and `InListParses` model how it builds the
  `group_uid IN (...)` text, including the comma rule.

SQLite behaviour the model keeps:
- UNIQUE(event_id) of GroupCache aborts an INSERT (`EventIdsUnique`).
- New rowids are max+1 (`NewRowid`).

Actions:
- `AddEvent` covers `rtcom_el_add_event` and `_add_event_full`, with a
  set of headers and the event's remote fields (`RemoteArgs`).
  `UpsertRemote` is the Remotes SELECT, then the INSERT or UPDATEs. These
  run in the same exclusive transaction, so any failure also rolls back
  the event. `FullHeaders` is the header loop of `_add_event_full`: a
  header row already present fails its INSERT and rolls the call back.
- `AddEventRefused` is `_add_event_precheck` returning FALSE. This
  happens on an unset mandatory field, an unknown service or event type,
  or a failing `_ensure_db`. Nothing is written, and unlike a failure
  inside `_add_event_core` it leaves `last_group_uid` alone. The
  deprecated event-type rewriting is left out: event types are not in
  the model.
- `GetGroupInfo` is `rtcom_el_get_group_info`, the one reading call
  modelled. `_get_group_info_slave` runs once per GroupCache row of the
  group, so with several rows the last one stepped wins; with none the
  call reports zeros and success. The reply is kept in `ret`, and
  `GroupInfoNeverUndercounts` checks it on the step that makes it. TLC
  evaluates action properties on every transition, so `VIEW StoreView`,
  which leaves `ret` out, does not hide a reply.
- `AddHeader`, `SetReadEvent`, `SetEventFlag`, `UnsetEventFlag` and
  `SetEndTime`.
- `SetReadEvents` is `rtcom_el_set_read_events` on an array of two ids.
  It applies `MarkRead` (one autocommit UPDATE and its trigger) to each
  id in turn and stops at the first failure. The earlier updates stay.
- `UpdateRemoteContact` and `RemoveAbookUid` are the one-element forms of
  `rtcom_el_update_remote_contacts` and `rtcom_el_remove_abook_uids`.
  Each is one transaction of UPDATEs.
- `DeleteEvent`, `DeleteEvents` (a query is any set of live ids, and
  SQLite picks the order of the distinct group uids), `DeleteByService`,
  `DeleteByGroupUids` and `DeleteAll`.

Each deleting action computes the set of its possible outcomes
(`DeleteThenRepair`, `StatementsRun`). With `DiskMayFail`, any statement
may fail (SQLITE_FULL or IOERR). A failed statement inside a
journal-less transaction leaves an undefined ROLLBACK, so both "restored"
and "statements so far kept" are possible. Two errors the code ignores
are also modelled:
- a failed group lookup makes `update_group_cache` see an empty list;
- a failed cleanup DELETE is ignored.

Left out of this module:
- Local accounts. There is one local_uid, so a Remotes row is keyed by
  its remote_uid.
- Attachments, which are file copies plus a row like a header.
- Times and texts.
- Lock waits. A BEGIN refused for SQLITE_BUSY changes nothing and is a
  stuttering step.

A spec divergence no run checks: `UpsertRemote` always leaves the row
with the event's values. An event for a known contact that does not set
`remote_name` therefore makes `g_strcmp0(NULL, old)` non-zero, and
`_add_event_core` (eventlogger.c:888) sets the cached name to NULL. The
same happens for `remote_ebook_uid` at line 880, which unlinks the
contact from the address book. Spec 4.4 step 4 updates a column only
when the new value is non-null. Two `add_event` calls reach this, so a
unit test can show it too; it is listed as a hazard.

### `MC_EventStore.tla`

`MC_EventStore` gives the model values and sets for TLC, with symmetry over
services and groups. `StoreView` is the state without `ret`.
`es_cache_headers` uses it as its VIEW. No action reads `ret`, so two
states that differ only in it have the same successors, and the
invariants do not mention it either.

### `SerialDb.tla`: what the shared database file promises

The abstract specification. `log` is the set of committed writes and
`version` counts commits. Each transaction commits in one step, and each of
its writes is tagged with `base`, the version it was computed from. In
`SerialDb`, `base` is always the version just before the commit.

### `DbLocking.tla`: the Gateway's transactions across processes (C1, C6, C4)

Several loggers, each with its own connection, share one file. Data is
abstracted to write tokens: each writing call gets a fresh one. The model
keeps the control of each call: its statements, the transaction they run
in, the SQLite lock each statement needs, the busy loop, and every error
path.

| Variable | Models |
|---|---|
| `pc` | the statement a logger's current call is at (`idle` between calls) |
| `lock` | the connection's SQLite lock: NONE, SHARED, RESERVED, PENDING, EXCLUSIVE |
| `txn` | `!sqlite3_get_autocommit(db)` |
| `pending`, `readAt` | the open transaction's writes, and the version it read |
| `cur`, `stmt` | the logger's cursor (none, plain or atomic) and `priv->stmt` (NULL, live, aborted by a ROLLBACK, or finalized but still pointed to) |
| `att` | the statement of the logger's `RTComElAttachIter` (NULL or live) |
| `disk`, `version` | committed writes, each with the version its transaction read |
| `acked` | tokens whose call returned success |

How the steps map to the code:
- `CanShare`, `CanReserve` and `CanExclude` are SQLite's lock rules
  (its pager and os_unix locking), not code of this repository. They are
  the environment the calls run in, so PROJECT.json does not map them.
- `Granted` is "this `sqlite3_step` does not return SQLITE_BUSY".
- Each waiting label has a timeout action for the end of
  `rtcom_el_db_iterate`'s 2 s budget. It takes the calling function's error
  path:
  - add_event returns -1;
  - the group lookup's NULL is swallowed;
  - the deletes and remote updates ROLLBACK;
  - the set_* calls return -1;
  - the cursor teardown ignores the failed COMMIT;
  - `iter_first` (`IterFirst`) fails the same way `iter_next` does and
    leaves `priv->stmt` dangling.
- `IterFirst` is `sqlite3_reset` plus `iter_next`. Outside a transaction
  the reset drops the cursor's SHARED lock (`CanShareAfterReset`), so the
  new read must win it back against a writer holding PENDING.
- The attachment iterator (`GetAttachments`, `AttNext`, `AttFirst`,
  `AttDispose`) runs a second statement on the same connection.
  - `StmtLevel(stmt, att)` is the lock kept outside a transaction: SHARED
    while either statement is live.
  - So a cursor that reaches its end, or is reset, keeps SHARED while the
    attachment iterator lives.
  - The iterator may outlive its cursor, and one is held at a time.
  - `Call` and `Progress` wrap the other actions with `UNCHANGED att`.
  - At a ROLLBACK the model lets the attachment statement keep running.
    SQLite may abort it instead; its next step then finalizes it and NULLs
    the pointer, as the end of the statement does.
- `MC_DbLocking` checks `db_serial` under `VIEW DbView`, which leaves out
  `ret`: no action or property reads it. The run takes 89 k distinct
  states and about 20 seconds. With `MaxWrites = 3` it takes 711 k
  states and about 5 minutes, too close to the time limit to keep.
- `DeleteBegin`, `UpdateRemotes`, `AddEvent` and `GetEvents` each handle a
  BEGIN refused for nesting the way their function does. Only the deletes
  roll back.
- `RollbackTxn` lets a pending read statement either continue or be aborted
  when the rolled-back transaction had written. Which one happens depends
  on the SQLite the library is built against. From 3.7.11 to 3.8.7.1 a
  ROLLBACK aborts pending reads (SQLITE_ABORT_ROLLBACK). From 3.8.7.2 on
  they continue when the schema is unchanged. The repository pins no
  version, so the model keeps both. `db_double_finalize` needs the abort.
- `CommitTxn` tags writes with `readAt`. A delete reads the group uids under
  SHARED before it writes.
- `DbLocking` instantiates `SerialDb` with `log <- disk`, and
  `Serializable == Serial!Spec` is checked as a property.

### `OpenMigrate.tla`: getting a handle (C2, with `_ensure_db`)

Each API call starts with `_ensure_db` (`eventlogger.c` 197–262). When
the logger has no handle yet, that call migrates `el.db` to `el-v1.db`
if needed (`rtcom_el_db_convert_from_db0`) and then opens the database
(`_internal_open`). The model follows POSIX: a name is bound to an inode,
and a handle holds the inode. A rename or unlink therefore leaves
processes that already opened the file on the old inode.

| Variable | Code |
|---|---|
| `pc[p]` | the step of `_ensure_db` (`conv_*`, `open`, `quick_check`, `user_version`, `boot_*`) or the API call behind it (`call`) |
| `h[p]` | `priv->db` |
| `tmp[p]` | the temp-file connection `db` in `convert_from_db0` |
| `repairing[p]` | `try_repairing` |
| `target`, `temp` | the inodes `el-v1.db` and `el-v1.db.temp` name |
| `content[i]`, `rows[i]` | the tables/`user_version` class of a file and its event rows |
| `lock[i]` | the connection holding the file EXCLUSIVE (BEGIN EXCLUSIVE) |
| `acked` | events whose `rtcom_el_add_event` returned an id |
| `attParent`, `made` | whether `attachments/` exists; each `<YYYYMMDDHHMM>[-N]` directory made (by N) and the process whose `g_mkdir` made it |
| `probe[p]`, `attRows[i]`, `nAtt` | the suffix `_build_unique_dirname` is at; the Attachments rows in each file; calls so far |

Actions:
- `ConvCheck`, `OpenTemp`, `ConvBegin`/`ConvBeginTimeout`, `Backup`,
  `Convert` and `RenameTemp` are the migration's steps. The separate
  `g_access`, `sqlite3_open` and `g_rename` calls are separate steps,
  because another process can act between them.
- `OpenDb`, `QuickCheck`/`QuickCheckTimeout`, `ReadVersion`,
  `BootBegin`/`BootBeginTimeout` and `BootDdl` are `_internal_open`.
  `HandleCorrupted` is `_handle_corrupted`, which unlinks whatever
  `el-v1.db` names at that moment.
- `Call` is the call that needed the handle. It stores a row only in a v1
  file that no other process has locked.
- `AddAttachment` to `AttInsert` is `rtcom_el_add_attachment` (1103–1280),
  the API call behind `_ensure_db` that touches the file system as well.
  - `AttParentTest`/`AttMkParent` are the test for `attachments/` and its
    `g_mkdir`.
  - `AttProbe` is one round of `_build_unique_dirname`'s loop (2922–2958).
  - `AttMkdir` is the `g_mkdir` of the chosen name, which fails when
    another logger made it since.
  - `AttCopy` is the fopen/copy/fclose sequence, any step of which may
    fail. `AttInsert` is the autocommit INSERT.
  - Every failure returns -1 and leaves what it made.
  - All calls fall in one minute: a later minute only gives fresh names,
    so one minute is where the names collide.
- `Crash` kills a logger. A file it held EXCLUSIVE may be left corrupted,
  since it was written with the journal OFF (temp file) or in MEMORY
  (bootstrap).
- A 2 s busy wait becomes a `*Timeout` step, enabled while another process
  holds the lock. The `user_version` read ignores its failure.

`MC_OpenMigrate.tla` declares the loggers `p1`–`p3`.

### `PluginRegistry.tla`: plugin registration and the lookup cache (C3, plugins)

After `_ensure_db` has a handle (`eventlogger.c` 248–255), it reads the
Services, EventTypes and Flags tables into three hash tables
(`_build_db_representation`), then loads the plugin files in directory
order. `_init_plugin` registers each plugin. It first runs
`SELECT id FROM Plugins`. If the row exists, it trusts that the plugin is
fully registered and only reads the service id. Otherwise it inserts the
Plugins row, the Services row, then each EventTypes and Flags row. Each
name is looked up in the cache first, and goes into the cache after its
INSERT. Every statement is autocommit, so the `rtcom_el_db_rollback` on
`db_error` finds no transaction.

| Variable | Code |
|---|---|
| `pc[p]`, `cur[p]`, `k[p]` | the step of start-up, the plugin being registered, the position in its event type or flag list |
| `loaded[p][pl]` | what `_init_plugin` returned: a service id, `ZeroId` (`service->id` left at 0), or `Failed` (-1) |
| `cache[p][t]` | the names in `priv->services`, `event_types`, `flags`; `NullTable` when the SELECT failed |
| `plugRows`, `svcRows`, `etRows`, `flagRows` | the four tables. Ids are abstracted to the unique names, so a Services row maps its name to its plugin |
| `faults` | failing statements and logger deaths so far |

Actions: `BuildCache`, `Scan` (`_scan_plugins_dir` with `NextPlugin`
and `Bindable`), `SelectPlugin`, `SelectService` (the found branch),
`InsertPlugin`, `InsertService`, `InsertEventType`/`EventTypesDone`,
`InsertFlag`/`FlagsDone`, and `Crash`. An INSERT fails on a UNIQUE name
or a disk fault, and a SELECT fails on a disk fault. `MC_PluginRegistry.tla`
gives the plugin tables.

### `QueryCompiler.tla`: a query object and the rows it selects (C5, C6)

One `RTComElQuery` from `rtcom_el_query_new` to `rtcom_el_get_events`.
The statement is kept as the record of what its text says (WHERE
predicates, grouping, LIMIT, OFFSET), not as a string. Each piece of text
that can go wrong is modelled by what it does: the IN list's separators,
the `LIKE '%value'` pattern, and the `%d`/`%Q` literals.

| Variable | Code |
|---|---|
| `limit`, `offset`, `groupBy` | `priv->limit`, `priv->offset`, `priv->group_by` |
| `where` | `priv->where_clause` (`<<>>` is NULL), one entry per triple |
| `sql` | `priv->sql` (`<<>>` is NULL) |
| `ret` | the last call and, for `get_events`, the iterator's rows |
| `asked` | the triples of the last `prepare` (the caller's request) |

Actions:
- `SetLimit`, `SetOffset` and `SetGroupBy` are the setters through
  `g_object_set`. GParamSpec refuses a limit below -1 or a negative offset
  and keeps the old value.
- `Refresh` is `rtcom_el_query_refresh`.
- `Prepare(ts)` is `rtcom_el_query_prepare` with up to `MaxPreds` triples.
  It frees the clause first. A triple refused by `_build_where_clause`
  (an unknown key, IN_STRV on an integer, or an operator `_build_operator`
  returns NULL for) frees `sql` and fails.
- `GetEvents` is `_get_events_core`. It returns NULL for a NULL `sql` or
  a statement SQLite cannot compile (an IN list ending in a comma) and for
  no rows. Otherwise it returns the rows SQLite may give (`SqlRows`):
  `SqlCompare` and `Like` give the comparison and LIKE semantics (NULL
  compares false; LIKE folds ASCII case, and `%` and `_` are wildcards).
  For a grouped SELECT, SQLite may return any row of each group.

The spec side (`SpecHolds`, `InGrammar`, `SpecAnswers`) is section 4.5 of
the spec: what each operator selects, and what the result of a grouped,
windowed query is. `CursorAnswersRequest` says an iterator returned for a
request the grammar admits holds one of the answers the spec allows, for
the triples of the last `prepare` and the properties the statement was
emitted with. `MC_QueryCompiler.tla` gives four events (two share a
local/remote pair, one has no remote, one is in the address book) and
triples that reach every branch of `_build_where_clause`.

The run `qc_str_like` (`QueryCompiler_str_like.cfg`, `Requests <-
LikeTriples`) shows a divergence. `prepare` with a `STR_LIKE` triple
fails, because `_build_operator` has no case for STR_LIKE
(eventlogger-query.c:517). The public header declares STR_LIKE as a
substring match (eventlogger-types.h:81), and `test_like` in
`tests/check_el.c` expects one event back. The clause was already freed,
so the next `refresh` emits a statement without WHERE, and `get_events`
returns every event. No pass run of QueryCompiler is kept: with STR_LIKE
in the grammar, every configuration that reaches it breaks
`CursorAnswersRequest`. Leaving STR_LIKE out would hide the divergence.

A second divergence has no run, because of the run budget. Setting
`Events <- MixedCaseEvents` in that cfg shows it. `prepare` with
`remote-name STR_ENDS_WITH "e"`, then `get_events`, returns the event
named "VE". `STR_ENDS_WITH` is compiled to `LIKE '%e'`
(eventlogger-query.c:478), which ignores case, while the spec promises a
case-sensitive suffix match. The value's `%` and `_` are not escaped
either.

## Runs

| Run | Expect | Checks | Shows |
|---|---|---|---|
| `es_cache_headers` | pass | TypeOK, GroupCacheRowUnique, RemoteRowPerPair, GroupInfoNeverUndercounts | two services sharing one group, a header name, a flag bit, one remote contact with one name/abook value, and disk failures: each group with events has exactly one cache row carrying its service; the total, unread and read counts `rtcom_el_get_group_info` reports may be stale but never undercount, so unread is never negative; every event with a remote keeps its Remotes row (136,808 states, about 2 min) |
| `es_cache_exact` | violation | CacheMatchesEvents | spec 8's GroupCache invariant: `add_event`, `delete_all`, `add_event` leaves the group row counting the deleted event, because `delete_all` never touches GroupCache and the new event reuses the rowid |
| `db_serial` | pass | TypeOK, Serializable, CallsReturn | two loggers: the interleaved calls commit as SerialDb's atomic transactions, and every call returns (deferred-upgrade deadlocks included; deadlock is checked too) |
| `db_acked_lost` | violation | AckedWritesSurvive | atomic cursor open; `set_read_event` returns 0 inside its transaction; a delete's refused BEGIN goes to the error label and its ROLLBACK discards the update |
| `db_leaked_txn` | violation | NoLeakedTransaction | the teardown COMMIT of an atomic cursor with a write times out against another logger's reader; the transaction stays open with PENDING |
| `db_double_finalize` | violation | CursorFinalizedOnce | after that ROLLBACK aborts the cursor's statement, `iter_next` finalizes it without NULLing the pointer, and the cursor's finalize frees it again |
| `mig_open` | pass | TypeOK, AttachmentDirsOwned, HandlesGetSchema | three loggers migrate, open and bootstrap concurrently on a healthy disk; every handle, also one returned on the `db_schema_ready` shortcut, ends on a file with the v1 schema; two attachments stored by racing loggers never share a directory |
| `mig_restart` | pass | EnsureDbReturns | one logger crashing at any step of the migration, repair and bootstrap (at most 3 times) on a failing disk: every call returns, also after a crash left a corrupted `.temp` file (419,949 states, about 20 s) |
| `mig_rename_race` | violation | AckedEventsReachable | two loggers migrate at once: the second, blocked in BEGIN EXCLUSIVE on `el-v1.db.temp`, gets the lock after the first renamed that file to `el-v1.db` and added an event, and backs `el.db` up over it |
| `reg_load` | pass | TypeOK, CacheSound, VocabularyHasService | two loggers register four plugins (three collide with the first on a flag, an event type or the service name) with one failing statement or crash: no cache names a missing row, and no event type or flag row lacks its plugin's service |
| `reg_half_registered` | violation | LoadedPluginUsable | a logger finds the Plugins row that another logger has committed but not yet followed with the Services row; it loads the plugin with service id 0, and its lookup cache does not know the service |
| `qc_str_like` | violation | CursorAnswersRequest | `prepare` with a STR_LIKE triple is refused by `_build_operator`; the following `refresh` emits a SELECT without WHERE, and `get_events` returns all four events for a filter the spec says two match |

Each violation run checks one property on a small configuration. TLC's
breadth-first search returns the shortest trace, and the finding in
PROJECT.json describes that trace.

Bounds:
- `MaxRowid = 2` in `es_cache_headers`: two events share a group.
  `es_cache_exact` has 3, so that a repair runs over two remaining
  events.
- `MaxCount` caps `total_events` (2 in `es_cache_headers`, 3 in
  `es_cache_exact`, to allow three events in one group). The stale rows left by `delete_all`
  and by failed deletes would otherwise grow without bound. AddEvent is
  disabled on a group whose row is at the cap.
- One flag bit suffices for the flag conflicts of `es_cache_exact`. TLC
  reports the shortest trace (`delete_all`). The same configuration
  breaks CacheMatchesEvents in three more ways, each the shortest once
  the actions reaching the earlier ones are left out of `Next`:
  - without `DeleteAll`: a group event and a NULL-group event deleted
    together build an IN list ending in a comma. The repair fails and
    the row keeps the old count (eventlogger.c:1996).
  - without `DeleteEvents` as well: unsetting a flag on one of two
    events clears it from the row (db.c:223).
  - without `UnsetEventFlag` as well: deleting one of three events that
    share a flag repairs the row with SUM(flags) = 2 (eventlogger.c:1983).
- One contact and one value for `remote_name` and `remote_ebook_uid`
  give every Remotes row state: missing, a value, or NULL after
  `remove_abook_uid` or an event that left it unset. `es_cache_exact` has
  no contact.
- One group suffices for the cross-service conflicts. With a NULL group it also
  reaches the IN-list comma rule; CacheMatchesEvents catches the failure
  it causes.
- A group id shared by two services makes AddEvent abort on
  GroupCache's UNIQUE(event_id). This was a violation run (`es_cross_service`)
  and was retired for the run budget. The hazard stays, covered by
  GroupCacheRowUnique.
- The two-group configuration was checked once (1.7 M states, at the
  5-minute limit). It is not kept as a run.

DbLocking bounds: two loggers with `MaxWrites = 2` writing calls are
enough for the two-writer deadlock (one write each), for a reader that
blocks a commit, and for a delete racing an add. Every mutant of
`db_serial` is caught at this bound. The violation runs use one logger (acked_lost,
double_finalize) or two loggers with one write (leaked_txn). Each logger
has at most one cursor and one attachment iterator at a time.

OpenMigrate bounds: `mig_open` has three loggers, which is enough for a
converter, a second converter that raced it, and an opener bootstrapping
or waiting on either. `MaxInodes = 5` gives every file those loggers can
create (two temp files, the target, and a recreated target); it is never
reached on a healthy disk. `mig_restart` has one logger with 3 crashes, which
can hit the conversion, then the repair, then the bootstrap in one
behaviour. `MaxEvents = 2` lets `add_event` calls run between the crashes.
`mig_open` adds no events (nothing it checks reads the rows) and
`MaxAttach = 2` attachment calls: two loggers probing the same names, or
both creating `attachments/`. With `MaxEvents = 2` as well, the run grows to
1.8 M states. `mig_restart` has one attachment call, on the failing disk.
A file system that has run out of inodes makes `sqlite3_open` fail, which
is the code's own open-failure path.

QueryCompiler bounds: four events give a group of two (CONTACT and UIDS
then have a choice of row), an event without a remote (NULL comparisons
and the NULL group key), and newest-first order that LIMIT and OFFSET can
cut. `MaxPreds = 2` joins two predicates with AND, in either order. The
limits -2..1 and offsets -1..1 include one value GParamSpec refuses
and one that cuts the window.

PluginRegistry bounds: two loggers are enough for one to observe the
other half-way. The four plugins of `reg_load` are in a fixed order,
since `g_dir_read_name` returns one directory's files in the same order to
every process. They are enough for each of the three name conflicts
(service, event type, flag) to happen after earlier rows of the same
plugin were committed. `MaxFaults = 1` places one failing statement or
one crash anywhere in either logger's start-up. The violation run needs
no fault at all.

Fairness:
- EventStore: none. It makes no liveness promise, and clients call whenever
  they like.
- DbLocking: weak fairness on each logger's in-call steps (`Progress`).
  A call runs on its own process and waits only inside
  `rtcom_el_db_iterate`, whose timer ends every wait. Client actions (new
  calls, cursor steps, cursor disposal) have no fairness, so a client may
  hold a cursor for ever. Symmetry is not used with the liveness property.
- OpenMigrate: weak fairness on each logger's steps inside a call
  (`Progress`), for the same reason: each busy wait ends on the 2 s
  budget (`*Timeout` steps). Starting a call and crashing have no
  fairness.
- QueryCompiler: none. Its one run checks safety, and the caller
  decides every call.
- PluginRegistry: the same weak fairness on start-up steps is part of
  `Spec`. No run checks a liveness property: start-up is a finite loop
  over the plugin files, and checking termination would multiply the run
  time.

Mutants (PROJECT.json `mutants`) show what each passing property catches:
- the rowid allocation starting at 0 (TypeOK);
- an AFTER INSERT trigger scoped by service (GroupCacheRowUnique);
- an UPDATE trigger that forgets `- OLD.is_read` (GroupInfoNeverUndercounts);
- a failing Remotes statement in `_add_event_core` that does not jump to
  `db_error` (RemoteRowPerPair);
- a token read before its counter is incremented (DbLocking TypeOK);
- the group lookup done without the transaction's SHARED lock
  (Serializable);
- a busy loop with no time budget at the cursor's teardown commit
  (CallsReturn);
- a `g_mkdir` that succeeds on an existing directory, as
  `g_mkdir_with_parents` does (AttachmentDirsOwned);
- inode allocation that skips one (OpenMigrate TypeOK);
- a bootstrap that closes without its COMMIT (HandlesGetSchema);
- a retry on a corrupted temp file that does not unlink it first
  (EnsureDbReturns);
- a Plugins row that is not kept while registration continues
  (PluginRegistry TypeOK);
- a service name cached before its INSERT succeeds (CacheSound);
- a failing INSERT INTO Services that does not jump to `db_error`
  (VocabularyHasService);
- QueryCompiler has no passing run and so no mutant.

The EventStore violations of earlier versions (`delete_all` leaving
GroupCache rows, the SUM(flags) of `update_group_cache`'s repair, and the
IN-list comma) now break the single spec invariant CacheMatchesEvents of
`es_cache_exact` (see Bounds).

## Plan

Modules are listed in order of importance. Items 1, 2, 4, 5 and 6 are done;
the others are planned.
1. **EventStore** (done): C4 and C7 on one connection.
2. **DbLocking** and **SerialDb** (done): the Gateway's transactions,
   SQLite's locks and the busy loop across loggers, with atomic and plain
   cursors. DbLocking refines SerialDb.
3. DbLocking's cursor (done): `iter_first`'s reset and the attachment iterator.
4. **OpenMigrate** (done): `_ensure_db`, the migration, `_internal_open`,
   `_handle_corrupted`, with crashes and racing loggers.
5. **PluginRegistry** (done): `_init_plugin`'s autocommit inserts with
   failures, crashes and a second logger between them, and the lookup
   cache built from the tables.
6. **QueryCompiler** (done): prepare, refresh, the setters and
   `get_events`, checked against the spec's operator semantics. Not
   modelled: `set_is_caching`, the getters, and the row readers.
7. Remote contacts in EventStore (done); `add_attachment` with its
   directories in OpenMigrate (done).

Not modelled, and why:
- the journal-off deletes. `rtcom_el_delete_event`, `delete_events`,
  `delete_by_service`, `delete_by_group_uids` and `delete_all` set
  `PRAGMA journal_mode = OFF` on `el-v1.db` itself before their
  transaction (eventlogger.c:2050, 2109, 2177, 2225, 2272). A crash in
  the middle of one can corrupt `el-v1.db`, and the next `_ensure_db`
  unlinks it with every acknowledged event. OpenMigrate's crashes corrupt
  only the files the migration and the bootstrap write, so `mig_restart`
  does not claim that acknowledged events survive a crash. That is why
  it checks only `EnsureDbReturns`;
- the CLI client (a thin wrapper);
- the event value type (in-memory struct helpers) and
  `rtcom_el_iter_get_full`. They matter only to spec section 8's round
  trip: "insert(e) then get yields an event equal to e on all fields set
  on e". The code breaks that round trip in three ways, and a run would
  need a slot of its own:
  - `_add_event_core` stores `time(NULL)` whatever `storage_time` the
    caller set (`eventlogger.c:830`);
  - the precheck rewrites the deprecated `*_INBOUND`/`*_OUTBOUND` event
    types (`eventlogger.c:721`);
  - `get_full` marks NULL string columns as set, which
    `rtcom_el_event_equals` passes to `strcmp`.

  `rtcom_el_event_equals`, the oracle of the round-trip test
  (`check_el.c:854`), compares only fields set in both events. It never
  compares `is_read`, `outgoing`, `service` or `event_type`, and it
  compares `remote_ebook_uid` twice (`event.c:140-160`);
- the Attachments rows that `add_event_full` inserts inside its
  transaction. Their cascade delete is the same trigger as the headers'.
  Tracking them in EventStore multiplies `es_cache_headers` by four
  (507 k states, over 7 minutes). `rtcom_el_add_attachment` itself is
  modelled in OpenMigrate;
- the other reading calls (`count_by_service`, `get_events_by_header`,
  `fetch_event_headers`, `get_group_most_recent_event_id`, the
  `get_unique_*` lists). Each is one SELECT with no state change.
  `GetGroupInfo` reaches one divergence no run shows: for a group whose
  events were all deleted, the call returns TRUE with zeros, where spec
  section 8 expects it "to fail to find G";
- DBus message formatting;
- dynamic loading of plugin libraries (I/O);
- the bytes of an attachment copy: the copy is one step that succeeds or
  fails. The directory naming and its race are modelled (OpenMigrate).
  A logger that loses the race for `attachments/` returns -1 while the
  directory exists (`eventlogger.c:1158`). The model reaches this, but no
  run is spent on it.
