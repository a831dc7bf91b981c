----------------------------- MODULE OpenMigrate -----------------------------
(***************************************************************************)
(* How logger processes get a database handle: _ensure_db (eventlogger.c)  *)
(* first runs the v0 -> v1 migration rtcom_el_db_convert_from_db0 and then *)
(* _internal_open (db.c), which quick-checks the file, repairs a corrupted *)
(* one by deleting it, and installs the schema when user_version is below  *)
(* 1.                                                                      *)
(*                                                                         *)
(* The file system is modelled as two names, the target el-v1.db and its  *)
(* temporary el-v1.db.temp, each bound to an inode or to NoFile.  An inode *)
(* has a content class (what its tables and user_version are), the event  *)
(* rows it holds and the process holding SQLite's EXCLUSIVE lock on it.   *)
(* A handle names an inode, not a path: a rename or unlink of the name     *)
(* leaves the processes that opened it on the old inode, as POSIX does.    *)
(* The legacy file el.db is never written; its rows are LegacyRows.        *)
(***************************************************************************)
EXTENDS Naturals, FiniteSets, TLC

CONSTANTS
    Procs,        \* logger processes sharing the database file
    Legacy,       \* TRUE when the v0 file el.db exists
    MaxInodes,    \* files the file system can create over a behaviour
    MaxEvents,    \* events the callers add over a behaviour
    MaxCrashes,   \* process crashes over a behaviour
    MaxAttach,    \* rtcom_el_add_attachment calls over a behaviour
    DiskMayFail   \* whether SQLite calls may fail with FULL / IOERR

ASSUME /\ Legacy \in BOOLEAN /\ DiskMayFail \in BOOLEAN
       /\ MaxInodes \in Nat \ {0} /\ MaxEvents \in Nat /\ MaxCrashes \in Nat
       /\ MaxAttach \in Nat

NoFile == 0
Inodes == 1..MaxInodes
NoProc == "NoProc"
Events == 1..MaxEvents
LegacyRows == {0}       \* the rows the backup copies out of el.db
\* The attachment directories <YYYYMMDDHHMM>[-N] of one minute, by N
\* (0 for no suffix): with at most MaxAttach made, a probe ends by then.
DirNames == 0..MaxAttach

(* Content classes: "none" for an inode not created yet; "empty" is a new  *)
(* file; "old" has the v0 tables (a finished or partial backup, or a       *)
(* partial conversion); "v1" the current schema with user_version 1;       *)
(* "stale" the v0 tables stamped user_version 1 by the bootstrap DDL       *)
(* (CREATE TABLE IF NOT EXISTS leaves the old columns); "corrupt" is what  *)
(* quick_check and BEGIN report as SQLITE_CORRUPT / NOTADB.                *)
Contents == {"none", "empty", "old", "v1", "stale", "corrupt"}

VARIABLES
    pc,         \* where each process is in _ensure_db, or "idle"
    h,          \* priv->db: the inode of the process's handle
    tmp,        \* the temp database handle inside convert_from_db0
    repairing,  \* the try_repairing argument of _internal_open
    target,     \* the inode el-v1.db names
    temp,       \* the inode el-v1.db.temp names
    content,    \* content class of each inode
    rows,       \* event rows stored in each inode
    lock,       \* holder of the EXCLUSIVE lock on each inode
    nextInode,  \* inodes created so far
    nextE,      \* events added so far
    acked,      \* events whose add returned an id to the caller
    crashes,    \* crashes so far
    attParent,  \* the directory <home>/.rtcom-eventlogger/attachments exists
    made,       \* each attachment directory made, and who made it
    probe,      \* the name _build_unique_dirname is at, per process
    attRows,    \* Attachments rows [dir, by] stored in each inode
    nAtt        \* add_attachment calls so far

attVars == <<attParent, made, probe, attRows, nAtt>>
vars == <<pc, h, tmp, repairing, target, temp, content, rows, lock,
          nextInode, nextE, acked, crashes, attVars>>
fsVars == <<target, temp, content, rows, lock, nextInode>>

Labels == {"idle", "conv_target", "conv_temp", "conv_begin", "conv_backup",
           "conv_convert", "conv_rename", "open", "quick_check",
           "user_version", "boot_begin", "boot_ddl", "call",
           "att_parent", "att_mkparent", "att_probe", "att_mkdir", "att_copy",
           "att_insert"}

-----------------------------------------------------------------------------
(* Helpers                                                                 *)

\* A lock is free for p, or held by another process (the 2 s busy loop of
\* rtcom_el_db_iterate then runs out with RTCOM_EL_TEMPORARY_ERROR).
Free(i) == lock[i] = NoProc
BusyFor(p, i) == lock[i] \notin {NoProc, p}

\* sqlite3_open of a name: the inode it names, or a new empty file.
NewInodeSkipping == nextInode + 2
NewInode == nextInode + 1

CanCreate == NewInode <= MaxInodes

Create(i) ==
    /\ content' = [content EXCEPT ![i] = "empty"]
    /\ nextInode' = i

\* Whether PRAGMA user_version reads 1 (a failed read leaves it at 0).
UserVersionOne(i) == content[i] \in {"v1", "stale"}

\* sqlite3_close of the handle: its lock, if any, is released.
Unlock(p, i) == lock' = [lock EXCEPT ![i] = IF @ = p THEN NoProc ELSE @]

Fail(p) == pc' = [pc EXCEPT ![p] = "idle"]

-----------------------------------------------------------------------------
(* rtcom_el_db_convert_from_db0                                            *)

\* g_access (fname) and g_access (old_fname), then sqlite3_open (old_fname):
\* an existing target, a missing or unopenable el.db all return TRUE.
ConvCheck(p) ==
    /\ pc[p] = "conv_target"
    /\ \/ /\ target # NoFile \/ ~Legacy
          /\ pc' = [pc EXCEPT ![p] = "open"]
       \/ /\ target = NoFile /\ Legacy
          /\ pc' = [pc EXCEPT ![p] = "conv_temp"]
       \/ /\ target = NoFile /\ Legacy /\ DiskMayFail
          /\ pc' = [pc EXCEPT ![p] = "open"]
    /\ UNCHANGED <<h, tmp, repairing, fsVars, nextE, acked, crashes>>

\* sqlite3_open (temp_fname) and PRAGMA journal_mode = OFF; a failed open
\* returns FALSE.
OpenTemp(p) ==
    /\ pc[p] = "conv_temp"
    /\ \/ /\ temp # NoFile
          /\ tmp' = [tmp EXCEPT ![p] = temp]
          /\ pc' = [pc EXCEPT ![p] = "conv_begin"]
          /\ UNCHANGED fsVars
       \/ /\ temp = NoFile /\ CanCreate
          /\ Create(NewInode)
          /\ temp' = NewInode
          /\ tmp' = [tmp EXCEPT ![p] = NewInode]
          /\ pc' = [pc EXCEPT ![p] = "conv_begin"]
          /\ UNCHANGED <<target, rows, lock>>
       \/ /\ temp = NoFile /\ (~CanCreate \/ DiskMayFail)
          /\ Fail(p)
          /\ UNCHANGED <<tmp, fsVars>>
    /\ UNCHANGED <<h, repairing, nextE, acked, crashes>>

\* A conversion that retries on a corrupted temp file without unlinking it.
ConvBeginKeepingTemp(p) ==
    LET i == tmp[p] IN
    /\ pc[p] = "conv_begin"
    /\ Free(i)
    /\ \/ /\ content[i] = "corrupt"
          /\ pc' = [pc EXCEPT ![p] = "conv_target"]
          /\ UNCHANGED lock
       \/ /\ content[i] # "corrupt"
          /\ lock' = [lock EXCEPT ![i] = p]
          /\ pc' = [pc EXCEPT ![p] = "conv_backup"]
       \/ /\ DiskMayFail
          /\ Fail(p)
          /\ UNCHANGED lock
    /\ tmp' = [tmp EXCEPT ![p] = IF pc'[p] = "conv_backup" THEN i ELSE NoFile]
    /\ UNCHANGED <<h, repairing, target, temp, content, rows, nextInode, nextE,
                   acked, crashes>>

\* BEGIN EXCLUSIVE on the temp file. A corrupted file is unlinked by name
\* and the whole conversion is retried; any other error returns FALSE.
ConvBegin(p) ==
    LET i == tmp[p] IN
    /\ pc[p] = "conv_begin"
    /\ Free(i)
    /\ \/ /\ content[i] = "corrupt"
          /\ temp' = NoFile
          /\ pc' = [pc EXCEPT ![p] = "conv_target"]
          /\ UNCHANGED lock
       \/ /\ content[i] # "corrupt"
          /\ lock' = [lock EXCEPT ![i] = p]
          /\ pc' = [pc EXCEPT ![p] = "conv_backup"]
          /\ UNCHANGED temp
       \/ /\ DiskMayFail
          /\ Fail(p)
          /\ UNCHANGED <<temp, lock>>
    /\ tmp' = [tmp EXCEPT ![p] = IF pc'[p] = "conv_backup" THEN i ELSE NoFile]
    /\ UNCHANGED <<h, repairing, target, content, rows, nextInode, nextE,
                   acked, crashes>>

ConvBeginTimeout(p) ==
    /\ pc[p] = "conv_begin"
    /\ BusyFor(p, tmp[p])
    /\ Fail(p)
    /\ tmp' = [tmp EXCEPT ![p] = NoFile]
    /\ UNCHANGED <<h, repairing, fsVars, nextE, acked, crashes>>

\* Closing the temp database and unlinking whatever el-v1.db.temp names.
AbandonTemp(p) ==
    /\ Unlock(p, tmp[p])
    /\ temp' = NoFile
    /\ tmp' = [tmp EXCEPT ![p] = NoFile]
    /\ Fail(p)

\* sqlite3_backup_init/step/finish of el.db into the temp file.
Backup(p) ==
    LET i == tmp[p] IN
    /\ pc[p] = "conv_backup"
    /\ \/ /\ content' = [content EXCEPT ![i] = "old"]
          /\ rows' = [rows EXCEPT ![i] = LegacyRows]
          /\ pc' = [pc EXCEPT ![p] = "conv_convert"]
          /\ UNCHANGED <<tmp, temp, lock>>
       \/ /\ DiskMayFail
          /\ AbandonTemp(p)
          /\ UNCHANGED <<content, rows>>
    /\ UNCHANGED <<h, repairing, target, nextInode, nextE, acked, crashes>>

\* _internal_convert_v0 (ALTERs, UPDATEs, INSERTs, user_version = 1,
\* COMMIT, or ROLLBACK on error), then sqlite3_close; a failed
\* conversion unlinks the temp file and returns FALSE.
Convert(p) ==
    LET i == tmp[p] IN
    /\ pc[p] = "conv_convert"
    /\ \/ /\ content' = [content EXCEPT ![i] = "v1"]
          /\ Unlock(p, i)
          /\ pc' = [pc EXCEPT ![p] = "conv_rename"]
          /\ UNCHANGED <<tmp, temp>>
       \/ /\ DiskMayFail
          /\ AbandonTemp(p)
          /\ UNCHANGED content
    /\ UNCHANGED <<h, repairing, target, rows, nextInode, nextE, acked,
                   crashes>>

\* g_rename (temp_fname, fname): whatever the temp name binds now replaces
\* the target; with no temp file the rename fails unnoticed.
RenameTemp(p) ==
    /\ pc[p] = "conv_rename"
    /\ IF temp # NoFile
         THEN /\ target' = temp
              /\ temp' = NoFile
         ELSE UNCHANGED <<target, temp>>
    /\ tmp' = [tmp EXCEPT ![p] = NoFile]
    /\ pc' = [pc EXCEPT ![p] = "open"]
    /\ UNCHANGED <<h, repairing, content, rows, lock, nextInode, nextE,
                   acked, crashes>>

-----------------------------------------------------------------------------
(* _internal_open and _handle_corrupted                                    *)

\* _handle_corrupted: close, then g_unlink (fname). With try_repairing and
\* a successful unlink it reopens once with try_repairing FALSE; otherwise
\* it returns NULL.
HandleCorrupted(p) ==
    /\ h' = [h EXCEPT ![p] = NoFile]
    /\ target' = NoFile
    /\ IF repairing[p] /\ target # NoFile
         THEN /\ pc' = [pc EXCEPT ![p] = "open"]
              /\ repairing' = [repairing EXCEPT ![p] = FALSE]
         ELSE /\ Fail(p)
              /\ UNCHANGED repairing

\* sqlite3_open (fname) creates the file when the name is unbound.
OpenDb(p) ==
    /\ pc[p] = "open"
    /\ \/ /\ target # NoFile
          /\ h' = [h EXCEPT ![p] = target]
          /\ pc' = [pc EXCEPT ![p] = "quick_check"]
          /\ UNCHANGED fsVars
       \/ /\ target = NoFile /\ CanCreate
          /\ Create(NewInode)
          /\ target' = NewInode
          /\ h' = [h EXCEPT ![p] = NewInode]
          /\ pc' = [pc EXCEPT ![p] = "quick_check"]
          /\ UNCHANGED <<temp, rows, lock>>
       \/ /\ (target = NoFile /\ ~CanCreate) \/ DiskMayFail
          /\ Fail(p)
          /\ UNCHANGED <<h, fsVars>>
    /\ UNCHANGED <<tmp, repairing, nextE, acked, crashes>>

\* PRAGMA quick_check: corruption goes to _handle_corrupted, any other
\* error closes the handle and returns NULL.
QuickCheck(p) ==
    /\ pc[p] = "quick_check"
    /\ Free(h[p])
    /\ \/ /\ content[h[p]] = "corrupt"
          /\ HandleCorrupted(p)
          /\ UNCHANGED <<temp, content, rows, lock, nextInode>>
       \/ /\ content[h[p]] # "corrupt"
          /\ pc' = [pc EXCEPT ![p] = "user_version"]
          /\ UNCHANGED <<h, repairing, fsVars>>
       \/ /\ DiskMayFail
          /\ h' = [h EXCEPT ![p] = NoFile]
          /\ Fail(p)
          /\ UNCHANGED <<repairing, fsVars>>
    /\ UNCHANGED <<tmp, nextE, acked, crashes>>

QuickCheckTimeout(p) ==
    /\ pc[p] = "quick_check"
    /\ BusyFor(p, h[p])
    /\ h' = [h EXCEPT ![p] = NoFile]
    /\ Fail(p)
    /\ UNCHANGED <<tmp, repairing, fsVars, nextE, acked, crashes>>

\* PRAGMA user_version, whose failure (a busy or corrupted file) is
\* ignored and leaves user_version at 0.
ReadVersion(p) ==
    /\ pc[p] = "user_version"
    /\ pc' = [pc EXCEPT ![p] = IF Free(h[p]) /\ UserVersionOne(h[p])
                                 THEN "call" ELSE "boot_begin"]
    /\ UNCHANGED <<h, tmp, repairing, fsVars, nextE, acked, crashes>>

\* BEGIN EXCLUSIVE for the bootstrap (after g_chmod and journal_mode =
\* MEMORY). TEMPORARY jumps to db_schema_ready: the peer holding the
\* file is trusted to install the schema.
BootBegin(p) ==
    /\ pc[p] = "boot_begin"
    /\ Free(h[p])
    /\ \/ /\ content[h[p]] = "corrupt"
          /\ HandleCorrupted(p)
          /\ UNCHANGED lock
       \/ /\ content[h[p]] # "corrupt"
          /\ lock' = [lock EXCEPT ![h[p]] = p]
          /\ pc' = [pc EXCEPT ![p] = "boot_ddl"]
          /\ UNCHANGED <<h, repairing, target>>
       \/ /\ DiskMayFail
          /\ h' = [h EXCEPT ![p] = NoFile]
          /\ Fail(p)
          /\ UNCHANGED <<repairing, target, lock>>
    /\ UNCHANGED <<tmp, temp, content, rows, nextInode, nextE, acked,
                   crashes>>

BootBeginTimeout(p) ==
    /\ pc[p] = "boot_begin"
    /\ BusyFor(p, h[p])
    /\ pc' = [pc EXCEPT ![p] = "call"]
    /\ UNCHANGED <<h, tmp, repairing, fsVars, nextE, acked, crashes>>

\* What the db_schema_sql sequence makes of a file: every CREATE is
\* IF NOT EXISTS, and the first statement stamps user_version = 1.
Bootstrapped(c) == CASE c = "empty" -> "v1"
                     [] c = "old"   -> "stale"
                     [] OTHER       -> c

\* A bootstrap that closes the handle without its COMMIT.
BootDdlUncommitted(p) ==
    LET i == h[p] IN
    /\ pc[p] = "boot_ddl"
    /\ pc' = [pc EXCEPT ![p] = "call"]
    /\ Unlock(p, i)
    /\ UNCHANGED <<h, tmp, repairing, target, temp, content, rows, nextInode,
                   nextE, acked, crashes>>

\* The DDL statements and COMMIT under the exclusive lock. A failure
\* closes the handle (SQLite rolls the transaction back) and returns NULL.
BootDdl(p) ==
    LET i == h[p] IN
    /\ pc[p] = "boot_ddl"
    /\ \/ /\ content' = [content EXCEPT ![i] = Bootstrapped(@)]
          /\ pc' = [pc EXCEPT ![p] = "call"]
          /\ UNCHANGED h
       \/ /\ DiskMayFail
          /\ h' = [h EXCEPT ![p] = NoFile]
          /\ Fail(p)
          /\ UNCHANGED content
    /\ Unlock(p, i)
    /\ UNCHANGED <<tmp, repairing, target, temp, rows, nextInode, nextE,
                   acked, crashes>>

-----------------------------------------------------------------------------
(* The API call that needed the handle, and the process's life            *)

\* The operation after _ensure_db returned TRUE: rtcom_el_add_event stores
\* a row when its handle's file has the v1 tables and is not locked;
\* otherwise (a query, or an add that fails with no such table, BUSY or
\* CORRUPT) nothing is stored.
Call(p) ==
    LET i == h[p] IN
    /\ pc[p] = "call"
    /\ \/ /\ Free(i) /\ content[i] = "v1" /\ nextE < MaxEvents
          /\ nextE' = nextE + 1
          /\ rows' = [rows EXCEPT ![i] = @ \cup {nextE + 1}]
          /\ acked' = acked \cup {nextE + 1}
       \/ UNCHANGED <<rows, nextE, acked>>
    /\ Fail(p)
    /\ UNCHANGED <<h, tmp, repairing, target, temp, content, lock,
                   nextInode, crashes>>

\* An API call: _ensure_db returns at once when priv->db is set, and
\* otherwise migrates and opens (rtcom_el_db_open passes try_repairing).
StartCall(p) ==
    /\ pc[p] = "idle"
    /\ pc' = [pc EXCEPT ![p] = IF h[p] # NoFile THEN "call" ELSE "conv_target"]
    /\ repairing' = [repairing EXCEPT ![p] = TRUE]
    /\ UNCHANGED <<h, tmp, fsVars, nextE, acked, crashes, attVars>>

\* The process dies and is restarted. Its locks go with it; a file it held
\* EXCLUSIVE while writing without a journal on disk (journal_mode OFF for
\* the temp file, MEMORY for the bootstrap) may be left corrupted.
Crash(p) ==
    /\ crashes < MaxCrashes
    /\ \E damaged \in BOOLEAN :
         content' = [i \in Inodes |-> IF lock[i] = p /\ damaged
                                        THEN "corrupt" ELSE content[i]]
    /\ lock' = [i \in Inodes |-> IF lock[i] = p THEN NoProc ELSE lock[i]]
    /\ pc' = [pc EXCEPT ![p] = "idle"]
    /\ h' = [h EXCEPT ![p] = NoFile]
    /\ tmp' = [tmp EXCEPT ![p] = NoFile]
    /\ crashes' = crashes + 1
    /\ UNCHANGED <<repairing, target, temp, rows, nextInode, nextE, acked,
                   attVars>>

-----------------------------------------------------------------------------
(* rtcom_el_add_attachment, the API call once _ensure_db returned TRUE.   *)
(* The directories are shared by every logger of the user and no lock     *)
(* covers them: _build_unique_dirname probes for a free name and the      *)
(* caller creates it later ("racy if you don't create the directory in    *)
(* the act"). g_mkdir fails on a name that exists, so a process that lost *)
(* either race returns -1. A failed call leaves what it made behind. All *)
(* the calls fall in one minute: a later minute only gives fresh names.  *)
(***************************************************************************)
AttFail(p) ==
    /\ Fail(p)
    /\ UNCHANGED <<made, attRows, attParent>>

AddAttachment(p) ==
    /\ pc[p] = "call"
    /\ nAtt < MaxAttach
    /\ nAtt' = nAtt + 1
    /\ pc' = [pc EXCEPT ![p] = "att_parent"]
    /\ UNCHANGED <<attParent, made, probe, attRows>>

\* g_file_test on the attachments directory, and g_mkdir when it is absent.
AttParentTest(p) ==
    /\ pc[p] = "att_parent"
    /\ pc' = [pc EXCEPT ![p] = IF attParent THEN "att_probe" ELSE "att_mkparent"]
    /\ probe' = [probe EXCEPT ![p] = 0]
    /\ UNCHANGED <<attParent, made, attRows, nAtt>>

AttMkParent(p) ==
    /\ pc[p] = "att_mkparent"
    /\ \/ /\ attParent
          /\ AttFail(p)
       \/ /\ ~attParent
          /\ attParent' = TRUE
          /\ pc' = [pc EXCEPT ![p] = "att_probe"]
          /\ UNCHANGED <<made, attRows>>
    /\ UNCHANGED <<probe, nAtt>>

\* One round of the do-while loop: the name with suffix probe[p] exists?
AttProbe(p) ==
    /\ pc[p] = "att_probe"
    /\ IF probe[p] \in DOMAIN made
       THEN /\ probe' = [probe EXCEPT ![p] = @ + 1]
            /\ UNCHANGED pc
       ELSE /\ pc' = [pc EXCEPT ![p] = "att_mkdir"]
            /\ UNCHANGED probe
    /\ UNCHANGED <<attParent, made, attRows, nAtt>>

\* Mutant: a mkdir that succeeds on an existing directory, as
\* g_mkdir_with_parents does.
AttMkdirExisting(p) ==
    /\ pc[p] = "att_mkdir"
    /\ made' = IF probe[p] \in DOMAIN made THEN made
               ELSE made @@ (probe[p] :> p)
    /\ pc' = [pc EXCEPT ![p] = "att_copy"]
    /\ UNCHANGED <<attParent, probe, attRows, nAtt>>

\* g_mkdir(unique_dir): it fails when another process made the name since.
AttMkdir(p) ==
    /\ pc[p] = "att_mkdir"
    /\ \/ /\ probe[p] \in DOMAIN made
          /\ AttFail(p)
       \/ /\ probe[p] \notin DOMAIN made
          /\ made' = made @@ (probe[p] :> p)
          /\ pc' = [pc EXCEPT ![p] = "att_copy"]
          /\ UNCHANGED <<attParent, attRows>>
    /\ UNCHANGED <<probe, nAtt>>

\* fopen of the source (it may not exist) and of the destination, the
\* copy loop and both fcloses: each failure returns -1.
AttCopy(p) ==
    /\ pc[p] = "att_copy"
    /\ \/ AttFail(p)
       \/ /\ pc' = [pc EXCEPT ![p] = "att_insert"]
          /\ UNCHANGED <<attParent, made, attRows>>
    /\ UNCHANGED <<probe, nAtt>>

\* The INSERT INTO Attachments through rtcom_el_db_exec_printf, in
\* autocommit mode: stored when the handle's file has the v1 tables and
\* is not locked (a disk fault fails it too).
AttInsert(p) ==
    LET i == h[p] IN
    /\ pc[p] = "att_insert"
    /\ \/ /\ Free(i) /\ content[i] = "v1"
          /\ attRows' = [attRows EXCEPT ![i] = @ \cup {[dir |-> probe[p], by |-> p]}]
          /\ Fail(p)
          /\ UNCHANGED <<attParent, made>>
       \/ /\ ~(Free(i) /\ content[i] = "v1") \/ DiskMayFail
          /\ AttFail(p)
    /\ UNCHANGED <<probe, nAtt>>

-----------------------------------------------------------------------------
(* Specification                                                           *)

Init ==
    /\ pc = [p \in Procs |-> "idle"]
    /\ h = [p \in Procs |-> NoFile]
    /\ tmp = [p \in Procs |-> NoFile]
    /\ repairing = [p \in Procs |-> TRUE]
    /\ target = NoFile
    /\ temp = NoFile
    /\ content = [i \in Inodes |-> "none"]
    /\ rows = [i \in Inodes |-> {}]
    /\ lock = [i \in Inodes |-> NoProc]
    /\ nextInode = 0
    /\ nextE = 0
    /\ acked = {}
    /\ crashes = 0
    /\ attParent = FALSE
    /\ made = [n \in {} |-> NoProc]
    /\ probe = [p \in Procs |-> 0]
    /\ attRows = [i \in Inodes |-> {}]
    /\ nAtt = 0

\* The steps a process takes inside one _ensure_db call and its API call.
\* Only the attachment steps touch the attachment directories.
Progress(p) ==
    \/ /\ \/ ConvCheck(p) \/ OpenTemp(p) \/ ConvBegin(p) \/ ConvBeginTimeout(p)
          \/ Backup(p) \/ Convert(p) \/ RenameTemp(p)
          \/ OpenDb(p) \/ QuickCheck(p) \/ QuickCheckTimeout(p) \/ ReadVersion(p)
          \/ BootBegin(p) \/ BootBeginTimeout(p) \/ BootDdl(p) \/ Call(p)
       /\ UNCHANGED attVars
    \/ /\ \/ AddAttachment(p) \/ AttParentTest(p) \/ AttMkParent(p)
          \/ AttProbe(p) \/ AttMkdir(p) \/ AttCopy(p) \/ AttInsert(p)
       /\ UNCHANGED <<h, tmp, repairing, fsVars, nextE, acked, crashes>>

Next == \E p \in Procs : StartCall(p) \/ Crash(p) \/ Progress(p)

\* Only the steps inside a call are fair: a started call keeps running
\* (the busy loop's 2 s budget bounds every wait), but nothing forces a
\* process to make a call or to crash.
Fairness == \A p \in Procs : WF_vars(Progress(p))

Spec == Init /\ [][Next]_vars /\ Fairness

-----------------------------------------------------------------------------
(* Properties                                                              *)

\* Every variable has its type, and exactly the first nextInode inodes
\* have been created.
TypeOK ==
    /\ pc \in [Procs -> Labels]
    /\ h \in [Procs -> {NoFile} \cup Inodes]
    /\ tmp \in [Procs -> {NoFile} \cup Inodes]
    /\ repairing \in [Procs -> BOOLEAN]
    /\ target \in {NoFile} \cup Inodes /\ temp \in {NoFile} \cup Inodes
    /\ content \in [Inodes -> Contents]
    /\ rows \in [Inodes -> SUBSET (LegacyRows \cup Events)]
    /\ lock \in [Inodes -> Procs \cup {NoProc}]
    /\ nextInode \in 0..MaxInodes /\ nextE \in 0..MaxEvents
    /\ acked \subseteq Events /\ crashes \in 0..MaxCrashes
    /\ \A i \in Inodes : content[i] = "none" <=> i > nextInode
    /\ attParent \in BOOLEAN /\ DOMAIN made \subseteq DirNames
    /\ made \in [DOMAIN made -> Procs] /\ probe \in [Procs -> DirNames]
    /\ attRows \in [Inodes -> SUBSET [dir : DirNames, by : Procs]]
    /\ nAtt \in 0..MaxAttach

\* Rows of the file el-v1.db names now: what a logger that opens the
\* database from here on can read.
Reachable == IF target = NoFile THEN {} ELSE rows[target]

\* An event whose rtcom_el_add_event returned its id stays in the database
\* under el-v1.db: the migration's rename of el-v1.db.temp never replaces a
\* file that holds an acknowledged event.
AckedEventsReachable == acked \subseteq Reachable

\* Every _ensure_db call, with the API call behind it, returns: no busy
\* wait, retried conversion or repair goes on forever.
EnsureDbReturns == \A p \in Procs : pc[p] # "idle" ~> pc[p] = "idle"

\* A handle that _internal_open returned, also one returned on the
\* db_schema_ready shortcut when BEGIN EXCLUSIVE was busy, eventually
\* reaches a file with the v1 schema: the peer that held the file installs
\* it.
HandlesGetSchema ==
    \A p \in Procs : h[p] # NoFile ~> (h[p] = NoFile \/ content[h[p]] = "v1")

\* Two add_attachment calls that both returned an id copied into different
\* directories, each made by the call that stored it: neither the probe
\* that runs ahead of g_mkdir nor a second logger probing the same minute
\* lets two attachments share a directory, where files of the same base
\* name would overwrite each other.
AttachmentDirsOwned ==
    \A i, j \in Inodes : \A r \in attRows[i], s \in attRows[j] :
        /\ made[r.dir] = r.by
        /\ r.dir = s.dir => r = s

=============================================================================
