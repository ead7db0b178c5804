----------------------------- MODULE DeviceSync -----------------------------
(***************************************************************************)
(* One device against the item store: the sync session that pages through  *)
(* the change feed, the local database and its transactions, local saves   *)
(* and deletes, the push of local changes, the resolution of conflicts,    *)
(* and crash and unlock. The other devices of the account appear as writes *)
(* to the store. A server call is one action (ItemStore has the statements *)
(* of which the server's side consists).                                   *)
(*                                                                         *)
(* sync, save, delete, push and resolve run on different tasks, so between *)
(* two awaits of one of them all the others may run.                       *)
(***************************************************************************)
EXTENDS Integers, FiniteSets, FiniteSetsExt

CONSTANTS Items,        \* item uuids
          Own,          \* those of items that are first made on this device
          PageLimit,    \* the page size of /sync/pull
          Ops,          \* local operations in use
          MaxSeq,       \* bound: writes of the store
          MaxEdits,     \* bound: local saves and deletes
          MaxFailures,  \* bound: failed calls and failed local transactions
          MaxRestarts,  \* bound: crashes of the process
          NoRow,        \* no row for the item
          Idle          \* the task is not running

ASSUME DeviceAssumption ==
    /\ IsFiniteSet(Items)
    /\ PageLimit \in Nat \ {0}
    /\ MaxSeq \in Nat \ {0}
    /\ {MaxEdits, MaxFailures, MaxRestarts} \subseteq Nat
    /\ Own \subseteq Items
    /\ Ops \subseteq {"save", "delete", "push", "resolve"}

VARIABLES srv,       \* the server's items rows
          loc,       \* item_overviews joined with item_payloads
          tombs,     \* pending_deletes: the recorded version, 0 for none
          dbCursor,  \* sync_meta.sync_cursor
          memCursor, \* VautrClient.cursor
          locked,    \* VautrClient.locked
          taken,     \* the server version last written to loc for each item
          seen,      \* the versions of each item that were ever written to loc
          sync,      \* the sync session
          edit,      \* the open editor and its commit_save
          push,      \* push_local_changes
          conflicts, \* ConflictDetected events the user has not answered
          resolve,   \* resolve_conflict, keeping the server's version
          used       \* edits, failures and restarts so far

local == <<loc, tombs, dbCursor, taken, seen>>
client == <<memCursor, locked>>
tasks == <<sync, edit, push, resolve, conflicts>>
vars == <<srv, local, client, tasks, used>>

HasRow(u) == srv[u] # NoRow
HasLocal(u) == loc[u] # NoRow

(* A local row: the OCC version, the version its content was made from, and *)
(* whether the content is a local edit.                                     *)
LocalRow == [version : 0..MaxSeq, base : 0..MaxSeq, mine : BOOLEAN]
(* A server row; own: the last write was this device's.                     *)
ServerRow == [version : 1..MaxSeq, deleted : BOOLEAN, seq : 1..MaxSeq, own : BOOLEAN]
Overview == [u : Items, version : 1..MaxSeq, deleted : BOOLEAN]
Outgoing == [u : Items, version : 0..MaxSeq, base : 0..MaxSeq]

(* The value that stands for the absence of a row is not a row.             *)
ASSUME AbsentAssumption == NoRow \notin ServerRow /\ NoRow \notin LocalRow

TypeOK ==
    /\ srv \in [Items -> ServerRow \cup {NoRow}]
    /\ loc \in [Items -> LocalRow \cup {NoRow}]
    /\ tombs \in [Items -> 0..MaxSeq]
    /\ dbCursor \in 0..MaxSeq /\ memCursor \in 0..MaxSeq
    /\ locked \in BOOLEAN
    /\ taken \in [Items -> 0..MaxSeq]
    /\ seen \in [Items -> SUBSET (1..MaxSeq)]
    /\ sync = Idle \/ sync \in [cursor : 0..MaxSeq, todo : SUBSET Overview,
                                upserts : SUBSET Overview, deletes : SUBSET Overview,
                                failed : BOOLEAN, more : BOOLEAN, pulled : BOOLEAN]
    /\ edit = Idle \/ edit \in [u : Items, base : 0..MaxSeq, version : -1..MaxSeq]
    /\ push = Idle \/ push \in [phase : {"tombs", "rows"}, todo : SUBSET Outgoing,
                                sent : SUBSET Items, applied : BOOLEAN]
    /\ conflicts \subseteq [u : Items, version : 0..MaxSeq]
    /\ resolve = Idle \/ resolve \in [u : Items, version : 1..MaxSeq]
    /\ used \in [edits : 0..MaxEdits, failures : 0..MaxFailures, restarts : 0..MaxRestarts]

(* A device that has just unlocked a fresh local database.                 *)
Init ==
    /\ srv = [u \in Items |-> NoRow]
    /\ loc = [u \in Items |-> NoRow]
    /\ tombs = [u \in Items |-> 0]
    /\ dbCursor = 0
    /\ memCursor = 0
    /\ locked = FALSE
    /\ taken = [u \in Items |-> 0]
    /\ seen = [u \in Items |-> {}]
    /\ sync = Idle
    /\ edit = Idle
    /\ push = Idle
    /\ conflicts = {}
    /\ resolve = Idle
    /\ used = [edits |-> 0, failures |-> 0, restarts |-> 0]

May(what, bound) == used[what] < bound
Use(what) == used' = [used EXCEPT ![what] = @ + 1]

-----------------------------------------------------------------------------
(* The store                                                               *)

LastSeq == Max({0} \cup {srv[u].seq : u \in {w \in Items : HasRow(w)}})

(* Mutant: any version the server has had is accepted.                     *)
Accepts_Past(u, target) == IF HasRow(u) THEN target <= srv[u].version ELSE target = 0

(* The OCC upsert of one item: applied iff the target is the row's version *)
(* or the target is 0 and there is no row.                                 *)
Accepts(u, target) == IF HasRow(u) THEN srv[u].version = target ELSE target = 0

Written(u, deleted, own) ==
    [srv EXCEPT ![u] = [version |-> IF HasRow(u) THEN @.version + 1 ELSE 1,
                        deleted |-> deleted, seq |-> LastSeq + 1, own |-> own]]

ServerVersion(u) == IF HasRow(u) THEN srv[u].version ELSE 0

(* Another device creates, edits, deletes or restores an item.             *)
RemoteWrite(u, deleted) ==
    /\ LastSeq < MaxSeq
    /\ ~HasRow(u) => u \notin Own /\ ~deleted
    /\ srv' = Written(u, deleted, FALSE)
    /\ UNCHANGED <<local, client, tasks, used>>

Expired(c) ==
    /\ \E u \in Items : HasRow(u)
    /\ \A u \in Items : HasRow(u) => c < srv[u].seq - 1

After(c) == {u \in Items : HasRow(u) /\ srv[u].seq > c}

(* The items of the first page beyond c.                                   *)
Page(c) ==
    {u \in After(c) :
       Cardinality({w \in After(c) : srv[w].seq < srv[u].seq}) < PageLimit}

-----------------------------------------------------------------------------
(* The sync session                                                        *)

(* VautrClient::sync takes the single-flight guard and seeds the engine    *)
(* with the cursor in memory.                                              *)
SyncStart ==
    /\ sync = Idle
    /\ sync' = [cursor |-> memCursor, todo |-> {}, upserts |-> {}, deletes |-> {},
                failed |-> FALSE, more |-> TRUE, pulled |-> FALSE]
    /\ UNCHANGED <<srv, local, client, edit, push, resolve, conflicts, used>>

(* pull_and_advance: the engine's cursor moves to the end of the page.     *)
SyncPull ==
    /\ sync # Idle /\ ~sync.pulled /\ sync.more
    /\ ~Expired(sync.cursor)
    /\ LET page == Page(sync.cursor)
       IN  sync' = [sync EXCEPT
                      !.cursor = Max({sync.cursor} \cup {srv[u].seq : u \in page}),
                      !.todo = {[u |-> u, version |-> srv[u].version,
                                 deleted |-> srv[u].deleted] : u \in page},
                      !.more = After(sync.cursor) # page,
                      !.pulled = TRUE]
    /\ UNCHANGED <<srv, local, client, edit, push, resolve, conflicts, used>>

(* A failed pull, or 410: sync returns the error and keeps no state.       *)
SyncAbort ==
    /\ sync # Idle /\ ~sync.pulled /\ sync.more
    /\ \/ Expired(sync.cursor) /\ UNCHANGED used
       \/ May("failures", MaxFailures) /\ Use("failures")
    /\ sync' = Idle
    /\ UNCHANGED <<srv, local, client, edit, push, resolve, conflicts>>

(* One overview of the page: a tombstone is noted, a payload is fetched at *)
(* exactly the version of the overview; a mismatch or a failed call is     *)
(* remembered in first_failure.                                            *)
SyncItem(ov) ==
    /\ sync # Idle /\ ov \in sync.todo
    /\ \/ /\ ov.deleted
          /\ sync' = [sync EXCEPT !.todo = @ \ {ov}, !.deletes = @ \cup {ov}]
          /\ UNCHANGED used
       \/ /\ ~ov.deleted
          /\ srv[ov.u].version = ov.version
          /\ sync' = [sync EXCEPT !.todo = @ \ {ov}, !.upserts = @ \cup {ov}]
          /\ UNCHANGED used
       \/ /\ ~ov.deleted
          /\ IF srv[ov.u].version # ov.version
             THEN UNCHANGED used
             ELSE May("failures", MaxFailures) /\ Use("failures")
          /\ sync' = [sync EXCEPT !.todo = @ \ {ov}, !.failed = TRUE]
    /\ UNCHANGED <<srv, local, client, edit, push, resolve, conflicts>>

(* The server versions that are written to the local database.             *)
Take(versions) ==
    /\ taken' = [u \in Items |-> IF versions[u] = {} THEN taken[u] ELSE Max(versions[u])]
    /\ seen' = [u \in Items |-> seen[u] \cup versions[u]]

NextPage(failed) ==
    sync' = [sync EXCEPT !.upserts = {}, !.deletes = {}, !.pulled = FALSE, !.failed = failed]

(* persist_synced_page: rows, tombstones and the page-end cursor in one    *)
(* transaction.                                                            *)
SyncPersist ==
    /\ sync # Idle /\ sync.pulled /\ sync.todo = {}
    /\ sync.upserts \cup sync.deletes # {}
    /\ loc' = [u \in Items |->
                 IF \E ov \in sync.deletes : ov.u = u THEN NoRow
                 ELSE IF \E ov \in sync.upserts : ov.u = u
                 THEN LET v == (CHOOSE ov \in sync.upserts : ov.u = u).version
                      IN  [version |-> v, base |-> v, mine |-> FALSE]
                 ELSE loc[u]]
    /\ Take([u \in Items |-> {ov.version : ov \in {o \in sync.upserts \cup sync.deletes : o.u = u}}])
    /\ dbCursor' = sync.cursor
    /\ NextPage(sync.failed)
    /\ UNCHANGED <<srv, tombs, client, edit, push, resolve, conflicts, used>>

(* An empty page is not persisted; a failed transaction is only noted.     *)
SyncPersistNot ==
    /\ sync # Idle /\ sync.pulled /\ sync.todo = {}
    /\ \/ /\ sync.upserts \cup sync.deletes = {}
          /\ NextPage(sync.failed)
          /\ UNCHANGED used
       \/ /\ sync.upserts \cup sync.deletes # {}
          /\ May("failures", MaxFailures) /\ Use("failures")
          /\ NextPage(TRUE)
    /\ UNCHANGED <<srv, local, client, edit, push, resolve, conflicts>>

(* Mutant: the cursor in memory advances whatever failed.                  *)
SyncEnd_Always ==
    /\ sync # Idle /\ ~sync.pulled /\ ~sync.more
    /\ memCursor' = sync.cursor
    /\ sync' = Idle
    /\ UNCHANGED <<srv, local, locked, edit, push, resolve, conflicts, used>>

(* The end of the session: the cursor in memory advances unless something  *)
(* failed.                                                                 *)
SyncEnd ==
    /\ sync # Idle /\ ~sync.pulled /\ ~sync.more
    /\ memCursor' = IF sync.failed THEN memCursor ELSE sync.cursor
    /\ sync' = Idle
    /\ UNCHANGED <<srv, local, locked, edit, push, resolve, conflicts, used>>

-----------------------------------------------------------------------------
(* Saving and deleting                                                     *)

(* The user opens an item (or a blank one): what is typed next is made     *)
(* from the content the row holds now.                                     *)
OpenEditor(u) ==
    /\ "save" \in Ops /\ ~locked
    /\ edit = Idle
    /\ HasLocal(u) \/ u \in Own
    /\ May("edits", MaxEdits) /\ Use("edits")
    /\ edit' = [u |-> u, base |-> IF HasLocal(u) THEN loc[u].base ELSE 0, version |-> -1]
    /\ UNCHANGED <<srv, local, client, sync, push, resolve, conflicts>>

(* Mutant: a save counts as a version of its own.                          *)
SaveRead_Bumps ==
    /\ edit # Idle /\ edit.version = -1
    /\ edit' = IF locked THEN Idle
               ELSE [edit EXCEPT !.version = IF HasLocal(edit.u) THEN loc[edit.u].version + 1
                                                                ELSE 1]
    /\ UNCHANGED <<srv, local, client, sync, push, resolve, conflicts, used>>

(* save_item, commit_save: refused when locked; reads the version of the   *)
(* row, or takes 1 for a new one.                                          *)
SaveRead ==
    /\ edit # Idle /\ edit.version = -1
    /\ edit' = IF locked THEN Idle
               ELSE [edit EXCEPT !.version = IF HasLocal(edit.u) THEN loc[edit.u].version ELSE 1]
    /\ UNCHANGED <<srv, local, client, sync, push, resolve, conflicts, used>>

(* save_item_txn                                                           *)
SaveCommit ==
    /\ edit # Idle /\ edit.version # -1
    /\ loc' = [loc EXCEPT ![edit.u] = [version |-> edit.version, base |-> edit.base,
                                       mine |-> TRUE]]
    /\ edit' = Idle
    /\ UNCHANGED <<srv, tombs, dbCursor, taken, seen, client, sync, push, resolve, conflicts, used>>

(* commit_delete: the tombstone intent and the removal, one transaction.   *)
Delete(u) ==
    /\ "delete" \in Ops /\ ~locked
    /\ HasLocal(u)
    /\ May("edits", MaxEdits) /\ Use("edits")
    /\ tombs' = [tombs EXCEPT ![u] = loc[u].version]
    /\ loc' = [loc EXCEPT ![u] = NoRow]
    /\ UNCHANGED <<srv, dbCursor, taken, seen, client, tasks>>

-----------------------------------------------------------------------------
(* push_local_changes                                                      *)

Pending == {u \in Items : tombs[u] # 0}

PushStart ==
    /\ "push" \in Ops /\ ~locked
    /\ push = Idle
    /\ push' = [phase |-> "tombs", sent |-> Pending, applied |-> TRUE,
                todo |-> {[u |-> u, version |-> tombs[u], base |-> tombs[u]] : u \in Pending}]
    /\ UNCHANGED <<srv, local, client, sync, edit, resolve, conflicts, used>>

(* One item of a batch, accepted or refused by the store. A refused        *)
(* tombstone only keeps the batch from being cleared; a refused row is     *)
(* published as ConflictDetected.                                          *)
PushItem(o) ==
    /\ push # Idle /\ o \in push.todo
    /\ IF Accepts(o.u, o.version)
       THEN /\ LastSeq < MaxSeq
            /\ srv' = Written(o.u, push.phase = "tombs", TRUE)
            /\ push' = [push EXCEPT !.todo = @ \ {o}]
            /\ UNCHANGED conflicts
       ELSE /\ push' = [push EXCEPT !.todo = @ \ {o}, !.applied = FALSE]
            /\ conflicts' = IF push.phase = "tombs" THEN conflicts
                            ELSE conflicts \cup {[u |-> o.u, version |-> ServerVersion(o.u)]}
            /\ UNCHANGED srv
    /\ UNCHANGED <<local, client, sync, edit, resolve, used>>

(* list_local_items, the second half of the push.                          *)
StartRows ==
    push' = [phase |-> "rows", sent |-> {}, applied |-> TRUE,
             todo |-> {[u |-> u, version |-> loc[u].version, base |-> loc[u].base] :
                         u \in {w \in Items : HasLocal(w)}}]

(* The pending deletes are cleared iff every one of them was applied.      *)
PushTombsDone ==
    /\ push # Idle /\ push.phase = "tombs" /\ push.todo = {}
    /\ tombs' = IF push.applied THEN [u \in Items |-> IF u \in push.sent THEN 0 ELSE tombs[u]]
                ELSE tombs
    /\ StartRows
    /\ UNCHANGED <<srv, loc, dbCursor, taken, seen, client, sync, edit, resolve, conflicts, used>>

(* A failed call, possibly after the store applied part of the batch: the  *)
(* tombstones are kept and the rows follow, or the push returns the error. *)
PushFail ==
    /\ push # Idle
    /\ May("failures", MaxFailures) /\ Use("failures")
    /\ IF push.phase = "tombs" THEN StartRows ELSE push' = Idle
    /\ UNCHANGED <<srv, local, client, sync, edit, resolve, conflicts>>

PushEnd ==
    /\ push # Idle /\ push.phase = "rows" /\ push.todo = {}
    /\ push' = Idle
    /\ UNCHANGED <<srv, local, client, sync, edit, resolve, conflicts, used>>

-----------------------------------------------------------------------------
(* resolve_conflict, for a conflict the user was shown                     *)

(* Push the local row at the version of the conflict; whatever the outcome *)
(* the user is done with this event.                                       *)
ResolveForce(c) ==
    /\ "resolve" \in Ops /\ ~locked
    /\ c \in conflicts
    /\ conflicts' = conflicts \ {c}
    /\ IF HasLocal(c.u) /\ Accepts(c.u, c.version)
       THEN LastSeq < MaxSeq /\ srv' = Written(c.u, FALSE, TRUE)
       ELSE UNCHANGED srv
    /\ UNCHANGED <<local, client, sync, edit, push, resolve, used>>

(* Keep the server's version: the fetch at exactly that version.           *)
ResolveFetch(c) ==
    /\ "resolve" \in Ops /\ ~locked
    /\ resolve = Idle
    /\ c \in conflicts
    /\ conflicts' = conflicts \ {c}
    /\ resolve' = IF HasRow(c.u) /\ srv[c.u].version = c.version /\ ~srv[c.u].deleted
                  THEN c ELSE Idle
    /\ UNCHANGED <<srv, local, client, sync, edit, push, used>>

(* Keep the server's version: the row is written with the fetched payload, *)
(* and the persisted cursor with the cursor in memory.                     *)
ResolvePersist ==
    /\ resolve # Idle
    /\ loc' = [loc EXCEPT ![resolve.u] = [version |-> resolve.version,
                                          base |-> resolve.version, mine |-> FALSE]]
    /\ Take([u \in Items |-> IF u = resolve.u THEN {resolve.version} ELSE {}])
    /\ dbCursor' = memCursor
    /\ resolve' = Idle
    /\ UNCHANGED <<srv, tombs, client, sync, edit, push, conflicts, used>>

-----------------------------------------------------------------------------
(* Lock, crash, unlock                                                     *)

(* lock: the keys go, running tasks do not stop.                           *)
Lock ==
    /\ ~locked
    /\ May("restarts", MaxRestarts) /\ Use("restarts")
    /\ locked' = TRUE
    /\ UNCHANGED <<srv, local, memCursor, tasks>>

(* The process ends; what is in the local database survives.               *)
Crash ==
    /\ May("restarts", MaxRestarts) /\ Use("restarts")
    /\ locked' = TRUE
    /\ memCursor' = 0
    /\ sync' = Idle /\ edit' = Idle /\ push' = Idle /\ resolve' = Idle
    /\ conflicts' = {}
    /\ UNCHANGED <<srv, local>>

(* unlock: load_persisted_cursor.                                          *)
Unlock ==
    /\ locked
    /\ locked' = FALSE
    /\ memCursor' = dbCursor
    /\ UNCHANGED <<srv, local, tasks, used>>

-----------------------------------------------------------------------------
SyncStep ==
    \/ SyncStart \/ SyncPull \/ SyncAbort
    \/ \E ov \in Overview : SyncItem(ov)
    \/ SyncPersist \/ SyncPersistNot \/ SyncEnd

SaveStep == (\E u \in Items : OpenEditor(u)) \/ SaveRead \/ SaveCommit

PushStep ==
    \/ PushStart \/ PushTombsDone \/ PushFail \/ PushEnd
    \/ \E o \in Outgoing : PushItem(o)

ResolveStep ==
    \/ \E c \in conflicts : ResolveForce(c) \/ ResolveFetch(c)
    \/ ResolvePersist

Next ==
    \/ \E u \in Items, deleted \in BOOLEAN : RemoteWrite(u, deleted)
    \/ SyncStep
    \/ SaveStep
    \/ \E u \in Items : Delete(u)
    \/ PushStep
    \/ ResolveStep
    \/ Lock \/ Crash \/ Unlock

Spec == Init /\ [][Next]_vars

(* The user, or the front end for the user, keeps asking for sync and push *)
(* (do_sync, the FFI's sync, seed and flush_offline_queue, a recovery      *)
(* event), and each of their steps is an await that returns.               *)
FairSpec == Spec /\ WF_vars(SyncStep) /\ WF_vars(PushStep) /\ WF_vars(SaveRead \/ SaveCommit)

-----------------------------------------------------------------------------
(* The device holds the current version of every row its cursor is past:   *)
(* what a page failed to deliver is still ahead of the cursor.             *)
CursorSound ==
    ~locked => \A u \in Items :
                 HasRow(u) /\ srv[u].seq <= memCursor => taken[u] = srv[u].version

(* o, one item of a running push, is accepted over another device's write. *)
AcceptedOver(o) ==
    /\ push # Idle /\ o \in push.todo /\ push' # Idle /\ o \notin push'.todo
    /\ HasRow(o.u) /\ ~srv[o.u].own /\ srv'[o.u] # srv[o.u]

(* A push or a tombstone is accepted over another device's write only if   *)
(* this device had downloaded that write: an unseen change is a conflict.  *)
NoUnseenOverwrite ==
    [][\A o \in Outgoing : AcceptedOver(o) => srv[o.u].version \in seen[o.u]]_<<srv, push>>

(* ADR-004: the content pushed over another device's write was made from   *)
(* that write.                                                             *)
NoLostUpdate ==
    [][\A o \in Outgoing :
         AcceptedOver(o) /\ push.phase = "rows" => o.base = srv[o.u].version]_<<srv, push>>

(* With a bounded number of failures every change of the store reaches the *)
(* local database, unless the server refuses the cursor.                   *)
Converges ==
    <>[]((\A u \in Items : HasRow(u) => taken[u] = srv[u].version) \/ Expired(memCursor))

(* An item saved on the device eventually exists on the server.            *)
SavedReachesServer ==
    \A u \in Items : (HasLocal(u) /\ loc[u].mine) ~> HasRow(u)

(* A delete is pushed even if the process crashes before: its recorded     *)
(* intent goes away only when the server is past the version that was      *)
(* deleted.                                                                *)
DeleteKept ==
    [][\A u \in Items : tombs[u] # 0 /\ tombs'[u] = 0 => ServerVersion(u) > tombs[u]]_tombs

(* A pending delete of an item that is already tombstoned on the server    *)
(* is eventually cleared.                                                  *)
FlushedTombstonesCleared ==
    \A u \in Items : (tombs[u] # 0 /\ HasRow(u) /\ srv[u].deleted)
                        ~> (tombs[u] = 0 \/ (HasRow(u) /\ ~srv[u].deleted))
=============================================================================
