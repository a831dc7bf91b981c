--------------------------- MODULE PluginRegistry ---------------------------
(***************************************************************************)
(* Plugin registration at logger start-up (src/eventlogger.c).  Once       *)
(* rtcom_el_ensure_db has opened el-v1.db it reads the Services,           *)
(* EventTypes and Flags tables into three name->id lookup caches           *)
(* (_build_db_representation), then _load_plugins loads every plugin file  *)
(* and _init_plugin registers the plugin's Plugins, Services, EventTypes   *)
(* and Flags rows.  Each SELECT and INSERT of _init_plugin is a statement  *)
(* of its own in autocommit mode: no transaction spans them, so the        *)
(* rtcom_el_db_rollback on its error path finds no transaction and undoes  *)
(* nothing.  Several loggers may start at once against the same file, and *)
(* a logger may die between two statements.                                *)
(*                                                                         *)
(* Row ids are abstracted to the unique names they are looked up by: a     *)
(* plugin is its name, a service row's plugin_id is the plugin, a flag     *)
(* row's service_id is the service name.  rtcom_el_service_new allocates   *)
(* the service with g_new0, so a service id nothing overwrites is 0        *)
(* (ZeroId).                                                               *)
(***************************************************************************)
EXTENDS Naturals, Sequences, Functions, TLC

CONSTANTS
    Procs,          \* logger processes starting against the same database
    PluginOrder,    \* the plugin files in the order g_dir_read_name returns them
    Unbindable,     \* plugins g_module_open or a mandatory g_module_symbol rejects
    ServiceOf,      \* ServiceOf[pl]: the service name pl's get_service returns
    EventTypesOf,   \* EventTypesOf[pl]: the event type names of get_event_types
    FlagsOf,        \* FlagsOf[pl]: the flag names of get_flags
    MaxFaults       \* bound on logger deaths and failing statements together

VARIABLES
    pc,         \* pc[p]: where logger p is in start-up
    cur,        \* cur[p]: the plugin _init_plugin is registering
    k,          \* k[p]: position in the event type or flag list
    loaded,     \* loaded[p][pl]: what _init_plugin returned for pl
    cache,      \* cache[p][t]: names in priv->services, event_types, flags
    faults,     \* logger deaths and failing statements so far
    plugRows,   \* names in table Plugins
    svcRows,    \* Services: service name -> plugin_id
    etRows,     \* EventTypes: event type name -> plugin_id
    flagRows    \* Flags: flag name -> service_id

procVars == <<pc, cur, k, loaded, cache>>
dbVars == <<plugRows, svcRows, etRows, flagRows>>
vars == <<procVars, faults, dbVars>>

Tables == {"svc", "et", "fl"}
\* A NULL hash table (rtcom_el_db_cache_lookup_table failed), written as the
\* set holding only the marker "NULL" so that it compares with name sets.
NullTable == {"NULL"}
NoPlugin == "NoPlugin"
NotTried == "not_tried"
Failed == "failed"          \* _init_plugin returned -1
ZeroId == "id0"             \* service->id left at its g_new0 value
NotFound == "not_found"     \* rtcom_el_get_*_id returned -1

Plugins == Range(PluginOrder)

\* The first plugin file, in directory order, logger p has not been through.
NextPlugin(p) ==
    LET untried == {i \in DOMAIN PluginOrder : loaded[p][PluginOrder[i]] = NotTried}
    IN PluginOrder[CHOOSE i \in untried : \A j \in untried : i <= j]

ServiceNames == {ServiceOf[pl] : pl \in Plugins}
EventTypeNames == UNION {Range(EventTypesOf[pl]) : pl \in Plugins}
FlagNames == UNION {Range(FlagsOf[pl]) : pl \in Plugins}
TableNames(t) == CASE t = "svc" -> ServiceNames
                   [] t = "et"  -> EventTypeNames
                   [] t = "fl"  -> FlagNames

\* The names a SELECT id, name FROM <table> returns now.
DbNames(t) == CASE t = "svc" -> DOMAIN svcRows
                [] t = "et"  -> DOMAIN etRows
                [] t = "fl"  -> DOMAIN flagRows

\* g_hash_table_lookup on the cache; a NULL table finds nothing.
InCache(p, t, n) == cache[p][t] # NullTable /\ n \in cache[p][t]

\* g_hash_table_insert on the cache; on a NULL table it does nothing.
CacheInsert(c, t, n) ==
    IF c[t] = NullTable THEN c ELSE [c EXCEPT ![t] = @ \cup {n}]

\* rtcom_el_get_service_id, _get_eventtype_id, _get_flag_id.
LookupId(p, t, n) == IF InCache(p, t, n) THEN n ELSE NotFound

AddRow(rows, n, v) == (n :> v) @@ rows

\* A statement returns an I/O error, or SQLITE_BUSY after the 2 s busy loop.
DiskFault == faults < MaxFaults /\ faults' = faults + 1

\* An INSERT returns an error: its UNIQUE(name) is violated or the disk fails.
InsertError(present) == IF present THEN UNCHANGED faults ELSE DiskFault

\* _load_plugin: the module opens and binds its four mandatory symbols.
Bindable(pl) == pl \notin Unbindable

\* The id SELECT id from Services WHERE plugin_id = pl leaves in service->id.
ServiceIdOf(pl) ==
    IF \E s \in DOMAIN svcRows : svcRows[s] = pl
    THEN CHOOSE s \in DOMAIN svcRows : svcRows[s] = pl
    ELSE ZeroId

\* The db_error path: the rollback finds no transaction; return -1.
Fail(p) ==
    /\ loaded' = [loaded EXCEPT ![p][cur[p]] = Failed]
    /\ pc' = [pc EXCEPT ![p] = "scan"]

Init ==
    /\ pc = [p \in Procs |-> "build"]
    /\ cur = [p \in Procs |-> NoPlugin]
    /\ k = [p \in Procs |-> 1]
    /\ loaded = [p \in Procs |-> [pl \in Plugins |-> NotTried]]
    /\ cache = [p \in Procs |-> [t \in Tables |-> NullTable]]
    /\ faults = 0
    /\ plugRows = {}
    /\ svcRows = [n \in {} |-> NoPlugin]
    /\ etRows = [n \in {} |-> NoPlugin]
    /\ flagRows = [n \in {} |-> NoPlugin]

-----------------------------------------------------------------------------
(* _build_db_representation: each of the three tables is read into a new   *)
(* hash table; a failed read leaves that cache NULL for the logger's life. *)
BuildCache(p) ==
    /\ pc[p] = "build"
    /\ \E lost \in SUBSET Tables :
          /\ IF lost = {} THEN UNCHANGED faults ELSE DiskFault
          /\ cache' = [cache EXCEPT ![p] =
                         [t \in Tables |-> IF t \in lost THEN NullTable
                                                        ELSE DbNames(t)]]
    /\ pc' = [pc EXCEPT ![p] = "scan"]
    /\ UNCHANGED <<cur, k, loaded, dbVars>>

(* _scan_plugins_dir: the next plugin file; one that does not bind is      *)
(* skipped, the others go to _init_plugin.  After the last file the logger *)
(* is ready.                                                               *)
Scan(p) ==
    /\ pc[p] = "scan"
    /\ \/ /\ \E pl \in Plugins : loaded[p][pl] = NotTried
          /\ LET pl == NextPlugin(p) IN
               /\ cur' = [cur EXCEPT ![p] = pl]
               /\ IF Bindable(pl)
                    THEN pc' = [pc EXCEPT ![p] = "sel_plugin"] /\ UNCHANGED loaded
                    ELSE loaded' = [loaded EXCEPT ![p][pl] = Failed] /\ UNCHANGED pc
       \/ /\ \A pl \in Plugins : loaded[p][pl] # NotTried
          /\ pc' = [pc EXCEPT ![p] = "done"]
          /\ UNCHANGED <<cur, loaded>>
    /\ UNCHANGED <<k, cache, faults, dbVars>>

(* SELECT id FROM Plugins WHERE name = %Q. *)
SelectPlugin(p) ==
    /\ pc[p] = "sel_plugin"
    /\ \/ /\ pc' = [pc EXCEPT ![p] = IF cur[p] \in plugRows THEN "sel_service"
                                                            ELSE "ins_plugin"]
          /\ UNCHANGED <<loaded, faults>>
       \/ DiskFault /\ Fail(p)
    /\ UNCHANGED <<cur, k, cache, dbVars>>

(* The plugin row exists: "assume everything is initialized", read the     *)
(* service id by plugin_id and return it.  The cache is not touched.       *)
SelectService(p) ==
    /\ pc[p] = "sel_service"
    /\ \/ /\ loaded' = [loaded EXCEPT ![p][cur[p]] = ServiceIdOf(cur[p])]
          /\ pc' = [pc EXCEPT ![p] = "scan"]
          /\ UNCHANGED faults
       \/ DiskFault /\ Fail(p)
    /\ UNCHANGED <<cur, k, cache, dbVars>>

\* Mutant: the Plugins row is not kept (written in a transaction that is
\* rolled back later), yet registration goes on.
InsertPluginLost(p) ==
    /\ pc[p] = "ins_plugin"
    /\ \/ /\ cur[p] \notin plugRows
          /\ pc' = [pc EXCEPT ![p] = "ins_service"]
          /\ UNCHANGED <<loaded, faults>>
       \/ InsertError(cur[p] \in plugRows) /\ Fail(p)
    /\ UNCHANGED <<cur, k, cache, dbVars>>

(* INSERT INTO Plugins, committed at once. *)
InsertPlugin(p) ==
    /\ pc[p] = "ins_plugin"
    /\ \/ /\ cur[p] \notin plugRows
          /\ plugRows' = plugRows \cup {cur[p]}
          /\ pc' = [pc EXCEPT ![p] = "ins_service"]
          /\ UNCHANGED <<loaded, faults>>
       \/ InsertError(cur[p] \in plugRows) /\ Fail(p) /\ UNCHANGED plugRows
    /\ UNCHANGED <<cur, k, cache, svcRows, etRows, flagRows>>

\* Mutant: the name goes into the cache before the INSERT's result is
\* known, so a failed INSERT leaves it cached.
InsertServiceCachingFirst(p) ==
    LET pl == cur[p]
        s  == ServiceOf[pl]
    IN /\ pc[p] = "ins_service"
       /\ \/ /\ ~InCache(p, "svc", s)
             /\ s \notin DOMAIN svcRows
             /\ svcRows' = AddRow(svcRows, s, pl)
             /\ cache' = [cache EXCEPT ![p] = CacheInsert(@, "svc", s)]
             /\ pc' = [pc EXCEPT ![p] = "ins_et"]
             /\ k' = [k EXCEPT ![p] = 1]
             /\ UNCHANGED <<loaded, faults>>
          \/ /\ InCache(p, "svc", s)
             /\ Fail(p)
             /\ UNCHANGED <<svcRows, cache, k, faults>>
          \/ /\ ~InCache(p, "svc", s)
             /\ InsertError(s \in DOMAIN svcRows)
             /\ cache' = [cache EXCEPT ![p] = CacheInsert(@, "svc", s)]
             /\ Fail(p)
             /\ UNCHANGED <<svcRows, k>>
       /\ UNCHANGED <<cur, plugRows, etRows, flagRows>>

\* Mutant: a failing INSERT INTO Services does not jump to db_error.
InsertServiceIgnoringError(p) ==
    LET pl == cur[p]
        s  == ServiceOf[pl]
    IN /\ pc[p] = "ins_service"
       /\ \/ /\ ~InCache(p, "svc", s)
             /\ s \notin DOMAIN svcRows
             /\ svcRows' = AddRow(svcRows, s, pl)
             /\ cache' = [cache EXCEPT ![p] = CacheInsert(@, "svc", s)]
             /\ pc' = [pc EXCEPT ![p] = "ins_et"]
             /\ k' = [k EXCEPT ![p] = 1]
             /\ UNCHANGED <<loaded, faults>>
          \/ /\ InCache(p, "svc", s)
             /\ Fail(p)
             /\ UNCHANGED <<svcRows, cache, k, faults>>
          \/ /\ ~InCache(p, "svc", s)
             /\ InsertError(s \in DOMAIN svcRows)
             /\ pc' = [pc EXCEPT ![p] = "ins_et"]
             /\ k' = [k EXCEPT ![p] = 1]
             /\ UNCHANGED <<svcRows, cache, loaded>>
       /\ UNCHANGED <<cur, plugRows, etRows, flagRows>>

(* The service name is looked up in the cache, then INSERT INTO Services;  *)
(* on success the name goes into the cache.                                *)
InsertService(p) ==
    LET pl == cur[p]
        s  == ServiceOf[pl]
    IN /\ pc[p] = "ins_service"
       /\ \/ /\ ~InCache(p, "svc", s)
             /\ s \notin DOMAIN svcRows
             /\ svcRows' = AddRow(svcRows, s, pl)
             /\ cache' = [cache EXCEPT ![p] = CacheInsert(@, "svc", s)]
             /\ pc' = [pc EXCEPT ![p] = "ins_et"]
             /\ k' = [k EXCEPT ![p] = 1]
             /\ UNCHANGED <<loaded, faults>>
          \/ /\ InCache(p, "svc", s)
             /\ Fail(p)
             /\ UNCHANGED <<svcRows, cache, k, faults>>
          \/ /\ ~InCache(p, "svc", s)
             /\ InsertError(s \in DOMAIN svcRows)
             /\ Fail(p)
             /\ UNCHANGED <<svcRows, cache, k>>
       /\ UNCHANGED <<cur, plugRows, etRows, flagRows>>

(* One iteration of the event type loop: cache lookup, INSERT INTO         *)
(* EventTypes, cache insert.                                               *)
InsertEventType(p) ==
    LET pl == cur[p]
        e  == EventTypesOf[pl][k[p]]
    IN /\ pc[p] = "ins_et"
       /\ k[p] <= Len(EventTypesOf[pl])
       /\ \/ /\ ~InCache(p, "et", e)
             /\ e \notin DOMAIN etRows
             /\ etRows' = AddRow(etRows, e, pl)
             /\ cache' = [cache EXCEPT ![p] = CacheInsert(@, "et", e)]
             /\ k' = [k EXCEPT ![p] = @ + 1]
             /\ UNCHANGED <<pc, loaded, faults>>
          \/ /\ InCache(p, "et", e)
             /\ Fail(p)
             /\ UNCHANGED <<etRows, cache, k, faults>>
          \/ /\ ~InCache(p, "et", e)
             /\ InsertError(e \in DOMAIN etRows)
             /\ Fail(p)
             /\ UNCHANGED <<etRows, cache, k>>
       /\ UNCHANGED <<cur, plugRows, svcRows, flagRows>>

EventTypesDone(p) ==
    /\ pc[p] = "ins_et"
    /\ k[p] > Len(EventTypesOf[cur[p]])
    /\ pc' = [pc EXCEPT ![p] = "ins_flag"]
    /\ k' = [k EXCEPT ![p] = 1]
    /\ UNCHANGED <<cur, loaded, cache, faults, dbVars>>

(* One iteration of the flag loop: INSERT INTO Flags with the service id.  *)
InsertFlag(p) ==
    LET pl == cur[p]
        f  == FlagsOf[pl][k[p]]
    IN /\ pc[p] = "ins_flag"
       /\ k[p] <= Len(FlagsOf[pl])
       /\ \/ /\ ~InCache(p, "fl", f)
             /\ f \notin DOMAIN flagRows
             /\ flagRows' = AddRow(flagRows, f, ServiceOf[pl])
             /\ cache' = [cache EXCEPT ![p] = CacheInsert(@, "fl", f)]
             /\ k' = [k EXCEPT ![p] = @ + 1]
             /\ UNCHANGED <<pc, loaded, faults>>
          \/ /\ InCache(p, "fl", f)
             /\ Fail(p)
             /\ UNCHANGED <<flagRows, cache, k, faults>>
          \/ /\ ~InCache(p, "fl", f)
             /\ InsertError(f \in DOMAIN flagRows)
             /\ Fail(p)
             /\ UNCHANGED <<flagRows, cache, k>>
       /\ UNCHANGED <<cur, plugRows, svcRows, etRows>>

(* _init_plugin returns the new service id; _load_plugin stores the plugin. *)
FlagsDone(p) ==
    /\ pc[p] = "ins_flag"
    /\ k[p] > Len(FlagsOf[cur[p]])
    /\ loaded' = [loaded EXCEPT ![p][cur[p]] = ServiceOf[cur[p]]]
    /\ pc' = [pc EXCEPT ![p] = "scan"]
    /\ UNCHANGED <<cur, k, cache, faults, dbVars>>

(* The logger process dies (or exits) and is started again: its memory is  *)
(* gone, every row it committed stays.                                     *)
Crash(p) ==
    /\ pc[p] # "build"
    /\ faults < MaxFaults
    /\ faults' = faults + 1
    /\ pc' = [pc EXCEPT ![p] = "build"]
    /\ cur' = [cur EXCEPT ![p] = NoPlugin]
    /\ k' = [k EXCEPT ![p] = 1]
    /\ loaded' = [loaded EXCEPT ![p] = [pl \in Plugins |-> NotTried]]
    /\ cache' = [cache EXCEPT ![p] = [t \in Tables |-> NullTable]]
    /\ UNCHANGED dbVars

Progress(p) ==
    \/ BuildCache(p) \/ Scan(p) \/ SelectPlugin(p) \/ SelectService(p)
    \/ InsertPlugin(p) \/ InsertService(p) \/ InsertEventType(p)
    \/ EventTypesDone(p) \/ InsertFlag(p) \/ FlagsDone(p)

\* Every logger has finished start-up: nothing is left to do.
Finished == (\A p \in Procs : pc[p] = "done") /\ UNCHANGED vars

Next == (\E p \in Procs : Progress(p) \/ Crash(p)) \/ Finished

(* Each start-up step is a straight-line call that returns (the busy loop  *)
(* gives up after 2 s), so a logger that is not killed keeps going.        *)
Fairness == \A p \in Procs : WF_vars(Progress(p))

Spec == Init /\ [][Next]_vars /\ Fairness

-----------------------------------------------------------------------------
ServiceIds == ServiceNames \cup {ZeroId}

TypeOK ==
    /\ pc \in [Procs -> {"build", "scan", "sel_plugin", "sel_service",
                         "ins_plugin", "ins_service", "ins_et", "ins_flag",
                         "done"}]
    /\ cur \in [Procs -> Plugins \cup {NoPlugin}]
    /\ k \in [Procs -> Nat]
    /\ loaded \in [Procs -> [Plugins -> ServiceIds \cup {NotTried, Failed}]]
    /\ \A p \in Procs, t \in Tables :
          cache[p][t] = NullTable \/ cache[p][t] \subseteq TableNames(t)
    /\ faults \in 0..MaxFaults
    /\ plugRows \subseteq Plugins
    /\ svcRows \in [DOMAIN svcRows -> plugRows]
    /\ DOMAIN svcRows \subseteq ServiceNames
    /\ etRows \in [DOMAIN etRows -> plugRows]
    /\ DOMAIN etRows \subseteq EventTypeNames
    /\ flagRows \in [DOMAIN flagRows -> ServiceNames]
    /\ DOMAIN flagRows \subseteq FlagNames

(* Lookup cache soundness: every name a logger's lookup cache holds (so    *)
(* that rtcom_el_get_service_id and friends resolve it, and _init_plugin   *)
(* treats it as taken) has its row in the database.  The cache is filled   *)
(* by _build_db_representation and by _init_plugin after each INSERT, with *)
(* other loggers and crashes in between.                                   *)
CacheSound ==
    \A p \in Procs, t \in Tables :
        cache[p][t] # NullTable => cache[p][t] \subseteq DbNames(t)

(* No orphan vocabulary: every EventTypes row belongs to a plugin and      *)
(* every Flags row to a service whose Services row is in the database.     *)
(* _init_plugin inserts the Services row before the event type and flag    *)
(* loops, in separate autocommit statements that a crash or a failing      *)
(* statement may cut short.                                                *)
VocabularyHasService ==
    /\ \A e \in DOMAIN etRows : \E s \in DOMAIN svcRows : svcRows[s] = etRows[e]
    /\ \A f \in DOMAIN flagRows : flagRows[f] \in DOMAIN svcRows

(* The promise of a successful plugin load (spec section 6: a plugin that  *)
(* loads registers exactly one Service and its EventTypes and Flags;       *)
(* section 4.3: the lookup cache reflects the registration): when          *)
(* _init_plugin returns a service id rather than -1, that id is the        *)
(* plugin's own Services row, all its event types and flags have rows      *)
(* owned by it, and the logger's cache resolves its service name to that   *)
(* id.                                                                     *)
Registered(pl) ==
    /\ ServiceOf[pl] \in DOMAIN svcRows /\ svcRows[ServiceOf[pl]] = pl
    /\ \A e \in Range(EventTypesOf[pl]) : e \in DOMAIN etRows /\ etRows[e] = pl
    /\ \A f \in Range(FlagsOf[pl]) :
          f \in DOMAIN flagRows /\ flagRows[f] = ServiceOf[pl]

LoadedPluginUsable ==
    \A p \in Procs, pl \in Plugins :
        loaded[p][pl] \notin {NotTried, Failed} =>
            /\ Registered(pl)
            /\ loaded[p][pl] = ServiceOf[pl]
            /\ LookupId(p, "svc", ServiceOf[pl]) = loaded[p][pl]
=============================================================================
