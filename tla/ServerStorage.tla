--------------------------- MODULE ServerStorage ----------------------------
(* The server's database with both its attachments and its backups: an        *)
(* export takes its snapshot between two statements of uploads and while      *)
(* items are written, and a later restore brings that snapshot back.          *)
EXTENDS FileTransfer

CONSTANTS Jobs, Keys, MaxRuns, MaxItems,
          Mixes   \* bound: requests of other clients, backups, running workers

ASSUME KeysAssumption == None \notin Keys

VARIABLES items, key, state, runs, disk, scratch, jobs, count

db == [items |-> items, files |-> [f \in Files |-> [man |-> manifests[f], row |-> rows[f], bytes |-> chunks[f], inits |-> inits[f]]]]

B == INSTANCE ServerBackup WITH live <- db, NoKey <- None

backups == <<key, state, runs, disk, scratch, jobs, count>>
vars == <<fileVars, items, backups>>

\* Devices write items while a backup runs (ItemStore models how).
WriteItem == items < MaxItems /\ items' = items + 1 /\ UNCHANGED <<fileVars, backups>>

\* The process ends: requests of both kinds end where they are.
Crash ==
    /\ B!Restart
    /\ reqs' = [s \in Slots |-> None]
    /\ workers' = [w \in Workers |-> IF workers[w].waits THEN After(workers[w], FALSE, None) ELSE workers[w]]
    /\ UNCHANGED <<manifests, rows, chunks, svk, budget, inits, items>>

Init ==
    \E m \in Mixes :
        /\ FileInit(m.clients, m.active) /\ B!BackupInit /\ items = 0
        /\ count = MaxRuns - m.backups

Upload == FileNext /\ UNCHANGED <<items, backups>>
Backup ==
    /\ \/ \E j \in Jobs : B!BackupStep(j)
       \/ \E j \in Jobs : B!JobFails(j)
       \/ \E j \in Jobs : B!Start(j, "export", None)
       \/ \E j \in Jobs, a \in B!Sent : B!Start(j, "restore", a)
    /\ UNCHANGED <<fileVars, items>>

Next == Upload \/ Backup \/ WriteItem \/ Crash

Spec == Init /\ [][Next]_vars

\* The server runs its requests to the end and a worker goes on; the clients'
\* wishes (uploads, rotations, backups, other requests) need not come.
Fairness ==
    /\ \A s \in Slots : WF_vars(Serve(s) /\ UNCHANGED <<items, backups>>)
    /\ \A w \in Workers : WF_vars(WorkerSend(w) /\ UNCHANGED <<items, backups>>)
FairSpec == Spec /\ Fairness

-----------------------------------------------------------------------------
(* Properties.                                                              *)

\* Every backup recorded opens under the server's key (ServerBackup,
\* get_or_create_backup_key and export).
ArchivesOpen == B!ArchivesOpen

\* What ServerBackup states and the code does not keep: the entries of an
\* archive are compared, scratch copies removed, the newest backup shown.
EntriesChecked == B!EntriesChecked
ScratchDiscarded == B!ScratchDiscarded
NewestShown == B!NewestShown

\* What a recorded backup brings back is a database in which every file that
\* says it is available is whole, whatever uploads the snapshot fell into.
BackupsWhole ==
    \A d \in disk : \A f \in Files :
        LET x == d.body.snap.files[f] IN x.inits <= 1 => Complete(f, x.man, x.row, x.bytes)
=============================================================================
