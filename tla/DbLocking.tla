----------------------------- MODULE DbLocking -----------------------------
(***************************************************************************)
(* Several loggers (processes) share one database file. Each has one      *)
(* connection, driven by the DB Gateway (src/src/db.c), and the calls of  *)
(* the Event Store and of the row cursor (src/src/eventlogger.c,          *)
(* src/src/eventlogger-iter.c) run their statements through it.           *)
(*                                                                         *)
(* The data is abstracted to write tokens: a call that writes gets a      *)
(* fresh token, and a commit puts the tokens of its transaction in        *)
(* `disk', tagged with the version of the database the transaction read. *)
(* What is modelled is the control: which statements each call runs, in  *)
(* which transaction, which SQLite file lock each one needs, the 2 s busy *)
(* loop that gives up, and every error path with its ROLLBACK.            *)
(***************************************************************************)
EXTENDS Naturals, FiniteSets

CONSTANTS Procs,       \* the loggers sharing the database file
          MaxWrites    \* bound on the number of writing calls

Tokens == 1..MaxWrites
NoRead == 0            \* readAt of a transaction that has read nothing yet
NoToken == 0

VARIABLES
    pc,        \* where each logger is inside its current call
    lock,      \* the SQLite file lock each connection holds
    txn,       \* TRUE when the connection is not in autocommit mode
    pending,   \* tokens written in the open transaction, not committed
    readAt,    \* 1 + the version the open transaction read, or NoRead
    cur,       \* the logger's row cursor: "none", "plain" or "atomic"
    stmt,      \* the cursor's statement: "none" (NULL), "live",
               \* "aborted" by a ROLLBACK, or "freed" (finalized, dangling)
    att,       \* the statement of the logger's attachment iterator:
               \* "none" (NULL) or "live"
    tok,       \* the token of the current writing call
    ret,       \* what the last call returned
    disk,      \* committed writes, [w |-> token, base |-> version read]
    version,   \* number of commits that wrote
    acked,     \* tokens whose call returned success
    nextW      \* tokens handed out so far

vars == <<pc, lock, txn, pending, readAt, cur, stmt, att, tok, ret, disk,
          version, acked, nextW>>

Labels == {"idle", "add_begin", "del_select", "del_delete", "del_commit",
           "set_update", "rem_update", "rem_commit", "fin_commit"}
Levels == {"NONE", "SHARED", "RESERVED", "PENDING", "EXCLUSIVE"}
Writer == {"RESERVED", "PENDING", "EXCLUSIVE"}

Others(p) == Procs \ {p}

(***************************************************************************)
(* SQLite's file locks. rtcom_el_db_iterate steps a statement and loops    *)
(* while it returns SQLITE_BUSY; a step succeeds exactly when the lock     *)
(* the statement needs can be granted against the other connections.      *)
(* The three rules below are SQLite's (its pager and os_unix locking), not *)
(* code of this repository: they are the environment rtcom's calls run in. *)
(***************************************************************************)
CanShare(p) ==
    lock[p] # "NONE" \/ \A q \in Others(p) : lock[q] \notin {"PENDING", "EXCLUSIVE"}

CanReserve(p) ==
    /\ CanShare(p)
    /\ lock[p] \in Writer \/ \A q \in Others(p) : lock[q] \in {"NONE", "SHARED"}

CanExclude(p) ==
    /\ CanReserve(p)
    /\ \A q \in Others(p) : lock[q] = "NONE"

\* The lock a connection keeps outside a transaction: a live statement,
\* of the row cursor (s) or of the attachment iterator (a), holds SHARED
\* until it is finalized or runs to its end.
StmtLevel(s, a) == IF "live" \in {s, a} THEN "SHARED" ELSE "NONE"

AtLeastShared(l) == IF l = "NONE" THEN "SHARED" ELSE l
AtLeastReserved(l) == IF l \in Writer THEN l ELSE "RESERVED"

\* Mutant: the token read before the counter is incremented.
NewTokenStale == nextW

NewToken == nextW + 1

\* The writes of p's transaction as COMMIT puts them on disk.
Committed(p) ==
    {[w |-> t, base |-> IF readAt[p] = NoRead THEN version ELSE readAt[p] - 1]
        : t \in pending[p]}

\* COMMIT succeeded: the writes reach the file and the locks drop to what
\* the cursor's statement holds.
CommitTxn(p) ==
    /\ disk' = disk \cup Committed(p)
    /\ version' = IF pending[p] = {} THEN version ELSE version + 1
    /\ txn' = [txn EXCEPT ![p] = FALSE]
    /\ pending' = [pending EXCEPT ![p] = {}]
    /\ readAt' = [readAt EXCEPT ![p] = NoRead]
    /\ lock' = [lock EXCEPT ![p] = StmtLevel(stmt[p], att[p])]

(***************************************************************************)
(* ROLLBACK (rtcom_el_db_rollback). The transaction's writes are undone.   *)
(* A read statement still pending on the connection either keeps running  *)
(* or, when the transaction had written, is aborted and fails at its next *)
(* step (SQLITE_ABORT_ROLLBACK): SQLite 3.7.11-3.8.7.1 abort, later ones   *)
(* continue, and the library pins no version. The attachment              *)
(* statement is given the first outcome only: an aborted one fails its    *)
(* next step, which finalizes it and NULLs the pointer, as running to its *)
(* end does.                                                               *)
(***************************************************************************)
RollbackTxn(p) ==
    /\ txn' = [txn EXCEPT ![p] = FALSE]
    /\ pending' = [pending EXCEPT ![p] = {}]
    /\ readAt' = [readAt EXCEPT ![p] = NoRead]
    /\ \E s \in IF stmt[p] = "live" /\ lock[p] \in Writer
                  THEN {"live", "aborted"} ELSE {stmt[p]} :
          /\ stmt' = [stmt EXCEPT ![p] = s]
          /\ lock' = [lock EXCEPT ![p] = StmtLevel(s, att[p])]
    /\ UNCHANGED <<disk, version>>

Return(p, r) ==
    /\ pc' = [pc EXCEPT ![p] = "idle"]
    /\ ret' = [ret EXCEPT ![p] = r]

\* A writing call starts: it takes a fresh token and goes to label l.
StartWrite(p, l) ==
    /\ nextW < MaxWrites
    /\ pc' = [pc EXCEPT ![p] = l]
    /\ tok' = [tok EXCEPT ![p] = NewToken]
    /\ nextW' = NewToken

\* The lock the statement at pc[p] needs has been granted.
Granted(p) ==
    \/ pc[p] = "del_select" /\ CanShare(p)
    \/ pc[p] \in {"del_delete", "rem_update"} /\ CanReserve(p)
    \/ pc[p] \in {"add_begin", "del_commit", "rem_commit", "fin_commit"} /\ CanExclude(p)
    \/ pc[p] = "set_update" /\ IF txn[p] THEN CanReserve(p) ELSE CanExclude(p)

(***************************************************************************)
(* rtcom_el_add_event and _add_event_full. rtcom_el_db_transaction refuses *)
(* BEGIN when the connection is already in a transaction, and the call     *)
(* returns -1 without a ROLLBACK.                                          *)
(***************************************************************************)
AddEvent(p) ==
    /\ pc[p] = "idle"
    /\ \/ /\ txn[p]
          /\ Return(p, "fail")
          /\ UNCHANGED <<lock, txn, pending, readAt, cur, stmt, tok, disk,
                         version, acked, nextW>>
       \/ /\ ~txn[p]
          /\ StartWrite(p, "add_begin")
          /\ UNCHANGED <<lock, txn, pending, readAt, cur, stmt, ret, disk,
                         version, acked>>

\* BEGIN EXCLUSIVE is granted; _add_event_core (the Remotes lookup, the
\* INSERT, the Remotes upsert) and COMMIT then run under the EXCLUSIVE lock.
AddEventCommit(p) ==
    /\ pc[p] = "add_begin"
    /\ Granted(p)
    /\ disk' = disk \cup {[w |-> tok[p], base |-> version]}
    /\ version' = version + 1
    /\ acked' = acked \cup {tok[p]}
    /\ Return(p, "ok")
    /\ UNCHANGED <<lock, txn, pending, readAt, cur, stmt, tok, nextW>>

(***************************************************************************)
(* The five deletes switch the journal off and BEGIN DEFERRED. A refused   *)
(* BEGIN jumps to their error label, whose ROLLBACK ends the transaction   *)
(* that was open on the connection before the call. The deletes by id and *)
(* by query then look up the group uids; the deletes by service, by group  *)
(* and of everything go straight to their DELETE statements.               *)
(***************************************************************************)
DeleteBegin(p) ==
    /\ pc[p] = "idle"
    /\ \/ /\ txn[p]
          /\ RollbackTxn(p)
          /\ Return(p, "fail")
          /\ UNCHANGED <<cur, tok, acked, nextW>>
       \/ /\ ~txn[p]
          /\ \E l \in {"del_select", "del_delete"} : StartWrite(p, l)
          /\ txn' = [txn EXCEPT ![p] = TRUE]
          /\ UNCHANGED <<lock, pending, readAt, cur, stmt, ret, disk,
                         version, acked>>

\* Mutant: the group uids looked up before the transaction holds a lock,
\* as if get_event_group_uids ran ahead of BEGIN.
DelSelectUnlocked(p) ==
    /\ pc[p] = "del_select"
    /\ readAt' = [readAt EXCEPT ![p] = version + 1]
    /\ pc' = [pc EXCEPT ![p] = "del_delete"]
    /\ UNCHANGED <<lock, txn, pending, cur, stmt, tok, ret, disk, version, acked, nextW>>

\* get_event_group_uids: SELECT DISTINCT(group_uid) under a SHARED lock.
DelSelect(p) ==
    /\ pc[p] = "del_select"
    /\ Granted(p)
    /\ lock' = [lock EXCEPT ![p] = AtLeastShared(lock[p])]
    /\ readAt' = [readAt EXCEPT ![p] = version + 1]
    /\ pc' = [pc EXCEPT ![p] = "del_delete"]
    /\ UNCHANGED <<txn, pending, cur, stmt, tok, ret, disk, version, acked, nextW>>

\* The DELETE statements and update_group_cache's repair: RESERVED lock.
DelDelete(p) ==
    /\ pc[p] = "del_delete"
    /\ Granted(p)
    /\ lock' = [lock EXCEPT ![p] = AtLeastReserved(lock[p])]
    /\ pending' = [pending EXCEPT ![p] = {tok[p]}]
    /\ readAt' = [readAt EXCEPT ![p] = IF @ = NoRead THEN version + 1 ELSE @]
    /\ pc' = [pc EXCEPT ![p] = "del_commit"]
    /\ UNCHANGED <<txn, cur, stmt, tok, ret, disk, version, acked, nextW>>

DelCommit(p) ==
    /\ pc[p] = "del_commit"
    /\ Granted(p)
    /\ CommitTxn(p)
    /\ acked' = acked \cup {tok[p]}
    /\ Return(p, "ok")
    /\ UNCHANGED <<cur, stmt, tok, nextW>>

(***************************************************************************)
(* rtcom_el_set_read_event, _set_event_flag, _unset_event_flag and        *)
(* _set_end_time run one UPDATE through rtcom_el_db_exec, with no          *)
(* transaction of their own. In autocommit mode the UPDATE commits by      *)
(* itself; inside a transaction left open on the connection it becomes     *)
(* part of that transaction, and the call returns 0 all the same.          *)
(***************************************************************************)
SetRead(p) ==
    /\ pc[p] = "idle"
    /\ StartWrite(p, "set_update")
    /\ UNCHANGED <<lock, txn, pending, readAt, cur, stmt, ret, disk, version, acked>>

SetReadUpdate(p) ==
    /\ pc[p] = "set_update"
    /\ Granted(p)
    /\ acked' = acked \cup {tok[p]}
    /\ Return(p, "ok")
    /\ \/ /\ txn[p]
          /\ lock' = [lock EXCEPT ![p] = AtLeastReserved(lock[p])]
          /\ pending' = [pending EXCEPT ![p] = @ \cup {tok[p]}]
          /\ UNCHANGED <<disk, version>>
       \/ /\ ~txn[p]
          /\ disk' = disk \cup {[w |-> tok[p], base |-> version]}
          /\ version' = version + 1
          /\ UNCHANGED <<lock, pending>>
    /\ UNCHANGED <<txn, readAt, cur, stmt, tok, nextW>>

(***************************************************************************)
(* rtcom_el_update_remote_contacts and rtcom_el_remove_abook_uids: BEGIN   *)
(* DEFERRED, UPDATEs of Remotes, COMMIT. A refused BEGIN returns FALSE     *)
(* without a ROLLBACK; a failed UPDATE or COMMIT rolls back.               *)
(***************************************************************************)
UpdateRemotes(p) ==
    /\ pc[p] = "idle"
    /\ \/ /\ txn[p]
          /\ Return(p, "fail")
          /\ UNCHANGED <<lock, txn, pending, readAt, cur, stmt, tok, disk,
                         version, acked, nextW>>
       \/ /\ ~txn[p]
          /\ StartWrite(p, "rem_update")
          /\ txn' = [txn EXCEPT ![p] = TRUE]
          /\ UNCHANGED <<lock, pending, readAt, cur, stmt, ret, disk,
                         version, acked>>

RemUpdate(p) ==
    /\ pc[p] = "rem_update"
    /\ Granted(p)
    /\ lock' = [lock EXCEPT ![p] = AtLeastReserved(lock[p])]
    /\ pending' = [pending EXCEPT ![p] = {tok[p]}]
    /\ pc' = [pc EXCEPT ![p] = "rem_commit"]
    /\ UNCHANGED <<txn, readAt, cur, stmt, tok, ret, disk, version, acked, nextW>>

RemCommit(p) ==
    /\ pc[p] = "rem_commit"
    /\ Granted(p)
    /\ CommitTxn(p)
    /\ acked' = acked \cup {tok[p]}
    /\ Return(p, "ok")
    /\ UNCHANGED <<cur, stmt, tok, nextW>>

(***************************************************************************)
(* COMMIT first takes PENDING, which keeps new readers out, and then waits *)
(* for the other connections' SHARED locks to go.                         *)
(***************************************************************************)
TakePending(p) ==
    /\ pc[p] \in {"del_commit", "rem_commit", "fin_commit"}
    /\ lock[p] = "RESERVED"
    /\ ~Granted(p)
    /\ lock' = [lock EXCEPT ![p] = "PENDING"]
    /\ UNCHANGED <<pc, txn, pending, readAt, cur, stmt, tok, ret, disk,
                   version, acked, nextW>>

(***************************************************************************)
(* rtcom_el_db_iterate gives up after RTCOM_EL_DB_MAX_BUSYLOOP_TIME and    *)
(* returns SQLITE_BUSY. What the caller does next differs by call:         *)
(***************************************************************************)
\* add_event: BEGIN EXCLUSIVE failed, return -1.
BeginTimeout(p) ==
    /\ pc[p] = "add_begin"
    /\ ~Granted(p)
    /\ Return(p, "fail")
    /\ UNCHANGED <<lock, txn, pending, readAt, cur, stmt, tok, disk,
                   version, acked, nextW>>

\* get_event_group_uids returns NULL on error; the delete carries on with
\* an empty group list.
SelectTimeout(p) ==
    /\ pc[p] = "del_select"
    /\ ~Granted(p)
    /\ pc' = [pc EXCEPT ![p] = "del_delete"]
    /\ UNCHANGED <<lock, txn, pending, readAt, cur, stmt, tok, ret, disk,
                   version, acked, nextW>>

\* A DELETE, an UPDATE of Remotes or a COMMIT failed: ROLLBACK, fail.
StatementTimeout(p) ==
    /\ pc[p] \in {"del_delete", "del_commit", "rem_update", "rem_commit"}
    /\ ~Granted(p)
    /\ RollbackTxn(p)
    /\ Return(p, "fail")
    /\ UNCHANGED <<cur, tok, acked, nextW>>

\* set_* : the UPDATE failed, return -1; an enclosing transaction stays.
UpdateTimeout(p) ==
    /\ pc[p] = "set_update"
    /\ ~Granted(p)
    /\ Return(p, "fail")
    /\ UNCHANGED <<lock, txn, pending, readAt, cur, stmt, tok, disk,
                   version, acked, nextW>>

(***************************************************************************)
(* _get_events_core (rtcom_el_get_events and _get_events_atomic). An      *)
(* atomic cursor first BEGINs DEFERRED, which is refused inside a          *)
(* transaction. The first row is fetched with sqlite3_step itself, not    *)
(* through the busy loop: if SHARED cannot be had the call fails at once. *)
(* No row (SQLITE_DONE) or an error: the statement is finalized, the       *)
(* transaction rolled back, and NULL returned. Otherwise the cursor keeps *)
(* the live statement and, when atomic, the open transaction.             *)
(***************************************************************************)
GetEvents(p) ==
    /\ pc[p] = "idle"
    /\ cur[p] = "none"
    /\ \E atomic \in BOOLEAN :
         \/ /\ atomic /\ txn[p]
            /\ Return(p, "fail")
            /\ UNCHANGED <<lock, txn, cur, stmt>>
         \/ /\ ~(atomic /\ txn[p])
            /\ ~CanShare(p)
            /\ Return(p, "fail")
            /\ UNCHANGED <<lock, txn, cur, stmt>>
         \/ /\ ~(atomic /\ txn[p])
            /\ CanShare(p)
            /\ \E rows \in BOOLEAN :
                 IF rows
                 THEN /\ cur' = [cur EXCEPT ![p] = IF atomic THEN "atomic" ELSE "plain"]
                      /\ stmt' = [stmt EXCEPT ![p] = "live"]
                      /\ lock' = [lock EXCEPT ![p] = AtLeastShared(lock[p])]
                      /\ txn' = [txn EXCEPT ![p] = @ \/ atomic]
                      /\ Return(p, "ok")
                 ELSE /\ Return(p, "fail")
                      /\ UNCHANGED <<lock, txn, cur, stmt>>
    /\ UNCHANGED <<pending, readAt, tok, disk, version, acked, nextW>>

(***************************************************************************)
(* rtcom_el_iter_next steps the statement through rtcom_el_db_iterate. At *)
(* SQLITE_DONE it finalizes the statement and sets priv->stmt to NULL; on *)
(* an error it finalizes the statement but leaves priv->stmt pointing at  *)
(* it.                                                                     *)
(***************************************************************************)
IterNext(p) ==
    /\ pc[p] = "idle"
    /\ cur[p] # "none"
    /\ \/ /\ stmt[p] = "live"
          /\ Return(p, "ok")
          /\ UNCHANGED <<lock, stmt>>
       \/ /\ stmt[p] = "live"
          /\ stmt' = [stmt EXCEPT ![p] = "none"]
          /\ lock' = [lock EXCEPT ![p] = IF txn[p] THEN @
                                         ELSE StmtLevel("none", att[p])]
          /\ Return(p, "fail")
       \/ /\ stmt[p] = "aborted"
          /\ stmt' = [stmt EXCEPT ![p] = "freed"]
          /\ Return(p, "fail")
          /\ UNCHANGED lock
    /\ UNCHANGED <<txn, pending, readAt, cur, tok, disk, version, acked, nextW>>

(***************************************************************************)
(* rtcom_el_iter_first: NULL priv->stmt returns FALSE; otherwise           *)
(* sqlite3_reset and then rtcom_el_iter_next. The reset ends the statement *)
(* read, so outside a transaction the connection drops its SHARED lock,    *)
(* and the step must take it again through the busy loop. If that loop     *)
(* gives up, iter_next finalizes the statement and leaves priv->stmt       *)
(* pointing at it. A reset clears an aborted statement, which then runs    *)
(* afresh. A dangling priv->stmt is undefined behaviour and not stepped.   *)
(***************************************************************************)
\* SHARED can be had once the reset has dropped what the statement held;
\* a transaction or a live attachment statement keeps the lock.
CanShareAfterReset(p) ==
    \/ (txn[p] \/ att[p] = "live") /\ lock[p] # "NONE"
    \/ \A q \in Others(p) : lock[q] \notin {"PENDING", "EXCLUSIVE"}

IterFirst(p) ==
    /\ pc[p] = "idle"
    /\ cur[p] # "none"
    /\ stmt[p] # "freed"
    /\ \/ /\ stmt[p] = "none"
          /\ Return(p, "fail")
          /\ UNCHANGED <<lock, stmt>>
       \/ /\ stmt[p] \in {"live", "aborted"}
          /\ CanShareAfterReset(p)
          /\ \E rows \in BOOLEAN :
               /\ stmt' = [stmt EXCEPT ![p] = IF rows THEN "live" ELSE "none"]
               /\ lock' = [lock EXCEPT ![p] = IF txn[p] THEN @
                                              ELSE StmtLevel(stmt'[p], att[p])]
               /\ Return(p, IF rows THEN "ok" ELSE "fail")
       \/ /\ stmt[p] \in {"live", "aborted"}
          /\ ~CanShareAfterReset(p)
          /\ stmt' = [stmt EXCEPT ![p] = "freed"]
          /\ lock' = [lock EXCEPT ![p] = IF txn[p] THEN @
                                         ELSE StmtLevel("none", att[p])]
          /\ Return(p, "fail")
    /\ UNCHANGED <<txn, pending, readAt, cur, tok, disk, version, acked, nextW>>

\* The cursor object goes: sqlite3_finalize(priv->stmt) when it is not
\* NULL. Without a transaction nothing is left locked.
CloseCursor(p) ==
    /\ cur' = [cur EXCEPT ![p] = "none"]
    /\ stmt' = [stmt EXCEPT ![p] = "none"]

(***************************************************************************)
(* rtcom_el_iter_finalize: an atomic cursor calls rtcom_el_db_commit and   *)
(* ignores what it returns; then the statement is finalized. The commit    *)
(* is refused when the transaction is gone, and a read-only transaction   *)
(* commits at once. One that the logger wrote into has to wait for         *)
(* EXCLUSIVE (fin_commit).                                                 *)
(***************************************************************************)
IterFinalize(p) ==
    /\ pc[p] = "idle"
    /\ cur[p] # "none"
    /\ \/ /\ cur[p] = "atomic" /\ txn[p] /\ pending[p] # {}
          /\ pc' = [pc EXCEPT ![p] = "fin_commit"]
          /\ UNCHANGED <<lock, txn, readAt, cur, stmt>>
       \/ /\ cur[p] = "atomic" /\ txn[p] /\ pending[p] = {}
          /\ txn' = [txn EXCEPT ![p] = FALSE]
          /\ readAt' = [readAt EXCEPT ![p] = NoRead]
          /\ lock' = [lock EXCEPT ![p] = StmtLevel("none", att[p])]
          /\ CloseCursor(p)
          /\ UNCHANGED pc
       \/ /\ cur[p] = "plain" \/ ~txn[p]
          /\ lock' = [lock EXCEPT ![p] = IF txn[p] THEN @
                                         ELSE StmtLevel("none", att[p])]
          /\ CloseCursor(p)
          /\ UNCHANGED <<pc, txn, readAt>>
    /\ UNCHANGED <<pending, tok, ret, disk, version, acked, nextW>>

FinCommit(p) ==
    /\ pc[p] = "fin_commit"
    /\ Granted(p)
    /\ disk' = disk \cup Committed(p)
    /\ version' = version + 1
    /\ txn' = [txn EXCEPT ![p] = FALSE]
    /\ pending' = [pending EXCEPT ![p] = {}]
    /\ readAt' = [readAt EXCEPT ![p] = NoRead]
    /\ lock' = [lock EXCEPT ![p] = StmtLevel("none", att[p])]
    /\ CloseCursor(p)
    /\ pc' = [pc EXCEPT ![p] = "idle"]
    /\ UNCHANGED <<tok, ret, acked, nextW>>

\* Mutant: a busy loop without its time budget.
TeardownTimeoutNever(p) == FALSE

\* The COMMIT gave up with SQLITE_BUSY: the transaction stays open and the
\* connection keeps its PENDING lock; the cursor is finalized regardless.
TeardownTimeout(p) ==
    /\ pc[p] = "fin_commit"
    /\ ~Granted(p)
    /\ lock' = [lock EXCEPT ![p] = "PENDING"]
    /\ CloseCursor(p)
    /\ pc' = [pc EXCEPT ![p] = "idle"]
    /\ UNCHANGED <<txn, pending, readAt, tok, ret, disk, version, acked, nextW>>

(***************************************************************************)
(* rtcom_el_iter_get_attachments prepares SELECT ... FROM Attachments for  *)
(* the cursor's current event id and steps it through the busy loop; it  *)
(* checks only that priv->stmt is not NULL. No row, or the loop giving    *)
(* up: the statement is finalized and NULL returned. A row: the new       *)
(* RTComElAttachIter owns the statement, which holds SHARED like the      *)
(* cursor's. The iterator is an object of its own and may outlive the     *)
(* cursor; a client holds one at a time.                                  *)
(***************************************************************************)
GetAttachments(p) ==
    /\ pc[p] = "idle"
    /\ cur[p] # "none"
    /\ stmt[p] # "none"
    /\ att[p] = "none"
    /\ \/ /\ CanShare(p)
          /\ \E rows \in BOOLEAN :
               /\ att' = [att EXCEPT ![p] = IF rows THEN "live" ELSE "none"]
               /\ lock' = [lock EXCEPT ![p] = IF rows THEN AtLeastShared(@) ELSE @]
               /\ Return(p, IF rows THEN "ok" ELSE "fail")
       \/ /\ ~CanShare(p)
          /\ Return(p, "fail")
          /\ UNCHANGED <<att, lock>>
    /\ UNCHANGED <<txn, pending, readAt, cur, stmt, tok, disk, version, acked, nextW>>

\* The statement ends (SQLITE_DONE or an error): finalize, NULL, FALSE.
AttEnd(p) ==
    /\ att' = [att EXCEPT ![p] = "none"]
    /\ lock' = [lock EXCEPT ![p] = IF txn[p] THEN @ ELSE StmtLevel(stmt[p], "none")]

\* rtcom_el_attach_iter_next: a live statement already holds SHARED.
AttNext(p) ==
    /\ pc[p] = "idle"
    /\ att[p] = "live"
    /\ \/ /\ Return(p, "ok")
          /\ UNCHANGED <<att, lock>>
       \/ /\ AttEnd(p)
          /\ Return(p, "fail")
    /\ UNCHANGED <<txn, pending, readAt, cur, stmt, tok, disk, version, acked, nextW>>

\* rtcom_el_attach_iter_first: NULL priv->stmt returns FALSE; otherwise
\* sqlite3_reset, which drops SHARED when nothing else holds it, then
\* attach_iter_next, whose busy loop may give up.
AttFirst(p) ==
    /\ pc[p] = "idle"
    /\ \/ /\ att[p] = "none"
          /\ Return(p, "fail")
          /\ UNCHANGED <<att, lock>>
       \/ /\ att[p] = "live"
          /\ \/ txn[p] \/ stmt[p] = "live"
             \/ \A q \in Others(p) : lock[q] \notin {"PENDING", "EXCLUSIVE"}
          /\ \E rows \in BOOLEAN :
               \/ /\ rows
                  /\ Return(p, "ok")
                  /\ UNCHANGED <<att, lock>>
               \/ /\ ~rows
                  /\ AttEnd(p)
                  /\ Return(p, "fail")
       \/ /\ att[p] = "live"
          /\ ~txn[p] /\ stmt[p] # "live"
          /\ \E q \in Others(p) : lock[q] \in {"PENDING", "EXCLUSIVE"}
          /\ AttEnd(p)
          /\ Return(p, "fail")
    /\ UNCHANGED <<txn, pending, readAt, cur, stmt, tok, disk, version, acked, nextW>>

\* The iterator object goes: rtcom_el_attach_iter_finalize finalizes a
\* statement that is not NULL.
AttDispose(p) ==
    /\ pc[p] = "idle"
    /\ att[p] = "live"
    /\ AttEnd(p)
    /\ UNCHANGED <<pc, ret, txn, pending, readAt, cur, stmt, tok, disk, version, acked, nextW>>

Init ==
    /\ pc = [p \in Procs |-> "idle"]
    /\ lock = [p \in Procs |-> "NONE"]
    /\ txn = [p \in Procs |-> FALSE]
    /\ pending = [p \in Procs |-> {}]
    /\ readAt = [p \in Procs |-> NoRead]
    /\ cur = [p \in Procs |-> "none"]
    /\ stmt = [p \in Procs |-> "none"]
    /\ att = [p \in Procs |-> "none"]
    /\ tok = [p \in Procs |-> NoToken]
    /\ ret = [p \in Procs |-> "none"]
    /\ disk = {}
    /\ version = 0
    /\ acked = {}
    /\ nextW = 0

\* The calls a client makes whenever it likes.
Call(p) ==
    \/ /\ \/ AddEvent(p)
          \/ DeleteBegin(p)
          \/ SetRead(p)
          \/ UpdateRemotes(p)
          \/ GetEvents(p)
          \/ IterNext(p)
          \/ IterFirst(p)
          \/ IterFinalize(p)
       /\ UNCHANGED att
    \/ GetAttachments(p)
    \/ AttNext(p)
    \/ AttFirst(p)
    \/ AttDispose(p)

\* The steps of a call already under way, busy-loop timeouts included.
\* Only the attachment iterator's own calls touch its statement.
Progress(p) ==
    /\ \/ AddEventCommit(p)
       \/ DelSelect(p)
       \/ DelDelete(p)
       \/ DelCommit(p)
       \/ SetReadUpdate(p)
       \/ RemUpdate(p)
       \/ RemCommit(p)
       \/ FinCommit(p)
       \/ TakePending(p)
       \/ BeginTimeout(p)
       \/ SelectTimeout(p)
       \/ StatementTimeout(p)
       \/ UpdateTimeout(p)
       \/ TeardownTimeout(p)
    /\ UNCHANGED att

Next == \E p \in Procs : Call(p) \/ Progress(p)

(***************************************************************************)
(* A call under way runs on its own process and blocks only inside        *)
(* rtcom_el_db_iterate, whose timer ends every wait after two seconds: the *)
(* steps of a call are weakly fair. Clients are not: they may hold a       *)
(* cursor open, or stop calling, for ever.                                 *)
(***************************************************************************)
Fairness == \A p \in Procs : WF_vars(Progress(p))

Spec == Init /\ [][Next]_vars /\ Fairness

-----------------------------------------------------------------------------
TypeOK ==
    /\ pc \in [Procs -> Labels]
    /\ lock \in [Procs -> Levels]
    /\ txn \in [Procs -> BOOLEAN]
    /\ pending \in [Procs -> SUBSET Tokens]
    /\ readAt \in [Procs -> 0..MaxWrites + 1]
    /\ cur \in [Procs -> {"none", "plain", "atomic"}]
    /\ stmt \in [Procs -> {"none", "live", "aborted", "freed"}]
    /\ att \in [Procs -> {"none", "live"}]
    /\ tok \in [Procs -> Tokens \cup {NoToken}]
    /\ ret \in [Procs -> {"none", "ok", "fail"}]
    /\ disk \subseteq [w : Tokens, base : 0..MaxWrites]
    /\ version \in 0..MaxWrites
    /\ acked \subseteq Tokens
    /\ nextW \in 0..MaxWrites

(***************************************************************************)
(* Serializability. The loggers' transactions, interleaved statement by    *)
(* statement and waiting on each other's locks, commit as SerialDb's       *)
(* atomic transactions would: no commit lands between a delete's lookup of *)
(* the group uids and its own COMMIT.                                      *)
(***************************************************************************)
Serial == INSTANCE SerialDb WITH log <- disk, version <- version

Serializable == Serial!Spec

(***************************************************************************)
(* Every call returns: rtcom_el_db_iterate's two-second budget breaks each *)
(* wait, including two deferred deletes waiting on each other's locks,    *)
(* whatever the clients do with their cursors.                             *)
(***************************************************************************)
CallsReturn == \A p \in Procs : pc[p] # "idle" ~> pc[p] = "idle"

(***************************************************************************)
(* A write whose call returned success is on disk, or still in the open   *)
(* transaction that will commit it: the set_* calls return 0, and a later  *)
(* call never takes the write back.                                        *)
(***************************************************************************)
AckedWritesSurvive ==
    \A t \in acked : t \in {r.w : r \in disk} \/ \E p \in Procs : t \in pending[p]

(***************************************************************************)
(* A connection is inside a transaction only while a call runs on it or   *)
(* while an atomic cursor, whose teardown commits, is open: no call leaves *)
(* a transaction open behind it.                                           *)
(***************************************************************************)
NoLeakedTransaction ==
    \A p \in Procs : txn[p] => pc[p] # "idle" \/ cur[p] = "atomic"

(***************************************************************************)
(* Disposing of a cursor never finalizes a statement that                  *)
(* rtcom_el_iter_next has already finalized.                              *)
(***************************************************************************)
CursorFinalizedOnce ==
    [][\A p \in Procs : cur[p] # "none" /\ cur'[p] = "none" => stmt[p] # "freed"]_vars


=============================================================================
