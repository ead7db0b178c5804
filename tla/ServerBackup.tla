---------------------------- MODULE ServerBackup ----------------------------
(***************************************************************************)
(* Backups of the server's database: export and restore test                 *)
(* (handlers/backup.rs), their bookkeeping (repository/backup.rs) and the      *)
(* archive format (vautr-backup).  An administrator's requests run statement   *)
(* by statement beside everything else the server does; the process may end    *)
(* between any two.  An archive is sealed under the key of the backup_key row, *)
(* made at the first use (no key is given by the environment).                 *)
(***************************************************************************)
EXTENDS Integers, FiniteSets, FiniteSetsExt

CONSTANTS Jobs,       \* bound: backup requests at a time
          Keys,       \* keys the random generator may come up with
          MaxRuns,    \* bound: exports and restore tests started
          NoKey

VARIABLES live,     \* the database: [items |-> the number of items, files |-> ...]
          key,      \* the backup_key row
          state,    \* the backup_state row: last backup, last restore test
          runs,     \* backup_runs
          disk,     \* archive files by backup id
          scratch,  \* plain database files left in temporary directories
          jobs,     \* requests in progress
          count     \* requests started, which number the backups and the clock

backupVars == <<key, state, runs, disk, scratch, jobs, count>>

Idle == [op |-> "none", pc |-> "end"]
At(j, op, pc) == jobs[j].op = op /\ jobs[j].pc = pc
Goto(j, pc) == jobs' = [jobs EXCEPT ![j].pc = pc]
End(j) == jobs' = [jobs EXCEPT ![j] = Idle]

Start(j, op, archive) ==
    /\ jobs[j] = Idle /\ count < MaxRuns /\ count' = count + 1
    /\ jobs' = [jobs EXCEPT ![j] = [op |-> op, pc |-> "key", id |-> count + 1, key |-> NoKey, archive |-> archive,
                                    snap |-> live, entries |-> 0, at |-> 0]]
    /\ UNCHANGED <<key, state, runs, disk, scratch>>

-----------------------------------------------------------------------------
(* get_or_create_backup_key: read, and insert a new key if there is none.     *)

After(j) == IF jobs[j].op = "export" THEN "snapshot" ELSE "decrypt"

GetKey(j) ==
    /\ jobs[j].op # "none" /\ jobs[j].pc = "key"
    /\ \/ key # NoKey /\ jobs' = [jobs EXCEPT ![j].key = key, ![j].pc = After(j)]
       \/ key = NoKey /\ \E k \in Keys : jobs' = [jobs EXCEPT ![j].key = k, ![j].pc = "insert"]
    /\ UNCHANGED <<key, state, runs, disk, scratch, count>>

\* Mutant: the second insert replaces the first key.
InsertKey_Replace(j) ==
    /\ jobs[j].op # "none" /\ jobs[j].pc = "insert"
    /\ key' = jobs[j].key /\ Goto(j, After(j))
    /\ UNCHANGED <<state, runs, disk, scratch, count>>

\* A second insert fails: the row is there, and so the request.
InsertKey(j) ==
    /\ jobs[j].op # "none" /\ jobs[j].pc = "insert"
    /\ IF key = NoKey THEN key' = jobs[j].key /\ Goto(j, After(j)) ELSE UNCHANGED key /\ End(j)
    /\ UNCHANGED <<state, runs, disk, scratch, count>>

-----------------------------------------------------------------------------
(* POST /backup/export.                                                     *)

\* Mutant: the bytes of the files are copied before the rest.
Vacuum_Torn(j) ==
    /\ At(j, "export", "snapshot")
    /\ scratch' = scratch \cup {jobs[j].id}
    /\ jobs' = [jobs EXCEPT ![j].pc = "read", ![j].snap =
                  [live EXCEPT !.files = [f \in DOMAIN @ |-> [@[f] EXCEPT !.bytes = jobs[j].snap.files[f].bytes]]]]
    /\ UNCHANGED <<key, state, runs, disk, count>>

\* create_snapshot: VACUUM INTO a file of its own, which is read and removed.
Vacuum(j) ==
    /\ At(j, "export", "snapshot")
    /\ scratch' = scratch \cup {jobs[j].id}
    /\ jobs' = [jobs EXCEPT ![j].snap = live, ![j].pc = "read"]
    /\ UNCHANGED <<key, state, runs, disk, count>>

ReadSnapshot(j) ==
    /\ At(j, "export", "read") /\ scratch' = scratch \ {jobs[j].id} /\ Goto(j, "count")
    /\ UNCHANGED <<key, state, runs, disk, count>>

\* SELECT COUNT(*) FROM items, of the live store.
CountEntries(j) ==
    /\ At(j, "export", "count")
    /\ jobs' = [jobs EXCEPT ![j].entries = live.items, ![j].pc = "write", ![j].at = count]
    /\ UNCHANGED <<key, state, runs, disk, scratch, count>>

\* create_archive and seal.
Archive(j) == [key |-> jobs[j].key, snap |-> jobs[j].snap, entries |-> jobs[j].entries, intact |-> TRUE]

WriteArchive(j) ==
    /\ At(j, "export", "write") /\ disk' = disk \cup {[id |-> jobs[j].id, body |-> Archive(j)]}
    /\ Goto(j, "record") /\ UNCHANGED <<key, state, runs, scratch, count>>

\* record_backup_run: the row, then the state.
RecordRun(j) ==
    /\ At(j, "export", "record") /\ runs' = runs \cup {[id |-> jobs[j].id, at |-> jobs[j].at]}
    /\ Goto(j, "state") /\ UNCHANGED <<key, state, disk, scratch, count>>

RecordState(j) ==
    /\ At(j, "export", "state") /\ state' = [state EXCEPT !.last = jobs[j].at]
    /\ End(j) /\ UNCHANGED <<key, runs, disk, scratch, count>>

-----------------------------------------------------------------------------
(* POST /backup/restore: the archive of a run, or one the caller sends.       *)

\* An archive that was cut or came from another server.
Foreign == {[key |-> NoKey, snap |-> live, entries |-> 0, intact |-> TRUE]}
Damaged == {[d.body EXCEPT !.intact = FALSE] : d \in disk}
Sent == Foreign \cup Damaged \cup {d.body : d \in disk}

\* decrypt_archive: a seal that was broken, or of another key, does not open.
Opens(a, k) == a.intact /\ a.key = k

Decrypt(j) ==
    /\ At(j, "restore", "decrypt")
    /\ IF Opens(jobs[j].archive, jobs[j].key) THEN Goto(j, "scratch")
       ELSE jobs' = [jobs EXCEPT ![j].pc = "result", ![j].entries = -1]
    /\ UNCHANGED <<key, state, runs, disk, scratch, count>>

\* write_snapshot to a scratch file.
WriteScratch(j) ==
    /\ At(j, "restore", "scratch") /\ scratch' = scratch \cup {jobs[j].id} /\ Goto(j, "validate")
    /\ UNCHANGED <<key, state, runs, disk, count>>

\* integrity_check, the count, and the scratch file is removed.  An error on
\* the way (JobFails) ends the request before the removal.
Validate(j) ==
    /\ At(j, "restore", "validate") /\ scratch' = scratch \ {jobs[j].id}
    /\ jobs' = [jobs EXCEPT ![j].pc = "result", ![j].entries = jobs[j].archive.snap.items]
    /\ UNCHANGED <<key, state, runs, disk, count>>

RecordTest(j) ==
    /\ At(j, "restore", "result")
    /\ state' = [state EXCEPT !.test = IF jobs[j].entries >= 0 THEN "success" ELSE "failed", !.of = jobs[j].archive]
    /\ End(j) /\ UNCHANGED <<key, runs, disk, scratch, count>>

-----------------------------------------------------------------------------
\* Any statement or file operation may fail: the request ends there.
JobFails(j) == jobs[j].op # "none" /\ End(j) /\ UNCHANGED <<key, state, runs, disk, scratch, count>>

\* The server process ends and starts again.
Restart ==
    /\ \E j \in Jobs : jobs[j] # Idle
    /\ jobs' = [j \in Jobs |-> Idle] /\ UNCHANGED <<key, state, runs, disk, scratch, count>>

BackupStep(j) ==
    \/ GetKey(j) \/ InsertKey(j) \/ Vacuum(j) \/ ReadSnapshot(j) \/ CountEntries(j) \/ WriteArchive(j)
    \/ RecordRun(j) \/ RecordState(j) \/ Decrypt(j) \/ WriteScratch(j) \/ Validate(j) \/ RecordTest(j)

BackupInit ==
    /\ key = NoKey /\ runs = {} /\ disk = {} /\ scratch = {}
    /\ state = [last |-> 0, test |-> "none", of |-> NoKey]
    /\ jobs = [j \in Jobs |-> Idle]

BackupNext ==
    \/ \E j \in Jobs : BackupStep(j) \/ JobFails(j) \/ Start(j, "export", NoKey)
    \/ \E j \in Jobs, a \in Sent : Start(j, "restore", a)
    \/ Restart

-----------------------------------------------------------------------------
(* Properties.                                                              *)

\* Every run recorded can be restored: its archive is on disk and opens
\* under the server's key, however two first exports overlap.
ArchivesOpen == \A r \in runs : \E d \in disk : d.id = r.id /\ Opens(d.body, key)

\* "success when the archive decrypts and the restored DB passes integrity +
\* entry checks": the entries are counted and compared with nothing.
EntriesChecked == state.test = "success" => state.of.entries = state.of.snap.items

\* "discards it": no plain copy of the database is left once nothing runs.
ScratchDiscarded == (\A j \in Jobs : jobs[j] = Idle) => scratch = {}

\* The status shows the newest backup there is.
NewestShown == (\A j \in Jobs : jobs[j] = Idle) => \A r \in runs : r.at <= state.last
=============================================================================
