----------------------------- MODULE ItemStore -----------------------------
(***************************************************************************)
(* The server's item store for one user (every statement is scoped by      *)
(* user_id, so users do not interact): the optimistic-concurrency upsert,  *)
(* the epoch gate, key rotation's two writes to the users row, and the     *)
(* change feed that devices page through.                                  *)
(*                                                                         *)
(* SQLite executes one statement at a time, and the handlers run on many   *)
(* tasks, so every statement is one action and everything a handler read   *)
(* before an await is kept in its request record until it is used.         *)
(* A payload is determined by the item and the version, because every      *)
(* write of a row increments its version and rows are never removed, so    *)
(* payloads are not kept separately.                                       *)
(***************************************************************************)
EXTENDS Integers, FiniteSets

CONSTANTS Items,      \* item uuids
          Requests,   \* tasks serving item writes
          Rotators,   \* tasks serving POST /account/rotate-key
          Devices,    \* clients that page through GET /sync/pull
          Routes,     \* the write routes in use: "push", "put", "delete"
          PageLimit,  \* the page size, `limit` of /sync/pull
          MayRestart, \* whether the server process may end at any moment
          MaxSeq,     \* bound: number of writes that are explored
          MaxGen,     \* bound: highest key generation that is explored
          NoRow,      \* the item has no row in the items table
          Idle        \* the task serves no request

ASSUME StoreAssumption ==
    /\ PageLimit \in Nat \ {0}
    /\ MaxSeq \in Nat
    /\ MaxGen \in Nat \ {0}
    /\ Routes \subseteq {"push", "put", "delete"}
    /\ MayRestart \in BOOLEAN

VARIABLES rows,      \* the items table
          minGen,    \* users.min_enc_key_gen
          blobGen,   \* the generation whose SVK users.svk_ciphertext_blob wraps
          req,       \* the item write each task is serving
          rot,       \* the rotation each task is serving
          recovered, \* number of ItemRecovered events published per item
          cursor,    \* the cursor each device pulls from
          pull,      \* how far each device's pull request has got
          feed       \* the version of each item last delivered to a device

store == <<rows, recovered>>
account == <<minGen, blobGen, rot>>
pulling == <<cursor, pull, feed>>
vars == <<store, account, req, pulling>>

Seqs == 1..MaxSeq
Gens == 1..MaxGen

Row == [version : Nat \ {0}, gen : Gens, deleted : BOOLEAN, seq : Seqs]

Request == [pc : {"gate", "prior", "update", "insert"},
            op : {"push", "put", "delete"}, u : Items, target : Nat,
            gen : Gens, del : BOOLEAN, prior : BOOLEAN]

Rotation == [pc : {"bump", "blob"}, gen : Gens]

(* The values that stand for the absence of a record are not records.      *)
ASSUME AbsentAssumption ==
    NoRow \notin Row /\ Idle \notin Request /\ Idle \notin Rotation

TypeOK ==
    /\ rows \in [Items -> Row \cup {NoRow}]
    /\ minGen \in Gens
    /\ blobGen \in Gens
    /\ req \in [Requests -> Request \cup {Idle}]
    /\ rot \in [Rotators -> Rotation \cup {Idle}]
    /\ recovered \in [Items -> Nat]
    /\ cursor \in [Devices -> 0..MaxSeq]
    /\ pull \in [Devices -> {"idle", "checked"}]
    /\ feed \in [Devices -> [Items -> Nat]]

(* A registered account: generation 1, no items.                           *)
Init ==
    /\ rows = [u \in Items |-> NoRow]
    /\ minGen = 1
    /\ blobGen = 1
    /\ req = [r \in Requests |-> Idle]
    /\ rot = [r \in Rotators |-> Idle]
    /\ recovered = [u \in Items |-> 0]
    /\ cursor = [d \in Devices |-> 0]
    /\ pull = [d \in Devices |-> "idle"]
    /\ feed = [d \in Devices |-> [u \in Items |-> 0]]

-----------------------------------------------------------------------------
(* Item writes                                                             *)

HasRow(u) == rows[u] # NoRow

(* What a client may name as target_version: 0 to create, 1 for an item it *)
(* has saved locally and never synced, or a version the server has had.    *)
(* Uuids are random, so only the device that made an item creates it, and  *)
(* it creates it live.                                                     *)
Known(u, target, del) ==
    \/ target = 0 /\ ~del
    \/ target = 1
    \/ HasRow(u) /\ target \in 1..rows[u].version

Serve(r, op, u, target, gen, del) ==
    req' = [req EXCEPT ![r] = [pc |-> "gate", op |-> op, u |-> u,
                               target |-> target, gen |-> gen, del |-> del,
                               prior |-> FALSE]]

Finish(r) == req' = [req EXCEPT ![r] = Idle]

(* sync_push_batch, one item of the batch: the handler's own reading of    *)
(* the gate. An item below it is answered epoch_too_old.                   *)
PushItem(r, u, target, gen, del) ==
    /\ "push" \in Routes
    /\ req[r] = Idle
    /\ Known(u, target, del)
    /\ IF gen < minGen
       THEN UNCHANGED req
       ELSE Serve(r, "push", u, target, gen, del)
    /\ UNCHANGED <<store, account, pulling>>

(* item_put: reads the row; the target is the version it read plus one.    *)
PutItem(r, u, gen) ==
    /\ "put" \in Routes
    /\ req[r] = Idle
    /\ HasRow(u)
    /\ Serve(r, "put", u, rows[u].version + 1, gen, FALSE)
    /\ UNCHANGED <<store, account, pulling>>

(* item_delete: likewise, with the generation of the row it read.          *)
DeleteItem(r, u) ==
    /\ "delete" \in Routes
    /\ req[r] = Idle
    /\ HasRow(u)
    /\ Serve(r, "delete", u, rows[u].version + 1, rows[u].gen, TRUE)
    /\ UNCHANGED <<store, account, pulling>>

(* upsert_item_occ: its own reading of the gate.                           *)
UpsertGate(r) ==
    /\ req[r] # Idle
    /\ req[r].pc = "gate"
    /\ IF req[r].gen < minGen
       THEN Finish(r)
       ELSE req' = [req EXCEPT ![r].pc = "prior"]
    /\ UNCHANGED <<store, account, pulling>>

(* Mutant: the tombstone is looked for in the request, after the fact.     *)
UpsertPrior_Request(r) ==
    /\ req[r] # Idle
    /\ req[r].pc = "prior"
    /\ req' = [req EXCEPT ![r].pc = "update", ![r].prior = req[r].del]
    /\ UNCHANGED <<store, account, pulling>>

(* upsert_item_occ: was the row tombstoned before the UPDATE?              *)
UpsertPrior(r) ==
    /\ req[r] # Idle
    /\ req[r].pc = "prior"
    /\ LET u == req[r].u
       IN  req' = [req EXCEPT ![r].pc = "update",
                              ![r].prior = HasRow(u) /\ rows[u].deleted]
    /\ UNCHANGED <<store, account, pulling>>

(* COALESCE(MAX(seq), 0) + 1 over the user's rows is s.                    *)
IsNextSeq(s) ==
    /\ \A u \in Items : HasRow(u) => rows[u].seq < s
    /\ s = 1 \/ \E u \in Items : HasRow(u) /\ rows[u].seq = s - 1

Matches(q) == HasRow(q.u) /\ rows[q.u].version = q.target

(* Mutant: seq is assigned at insert and kept by the UPDATE.               *)
UpsertUpdate_KeepsSeq(r) ==
    /\ req[r] # Idle
    /\ req[r].pc = "update"
    /\ Matches(req[r])
    /\ rows' = [rows EXCEPT ![req[r].u] =
                  [version |-> req[r].target + 1, gen |-> req[r].gen,
                   deleted |-> req[r].del, seq |-> @.seq]]
    /\ recovered' = IF req[r].prior /\ ~req[r].del
                    THEN [recovered EXCEPT ![req[r].u] = @ + 1]
                    ELSE recovered
    /\ Finish(r)
    /\ UNCHANGED <<account, pulling>>

(* The UPDATE ... WHERE version = target_version, and the publication of   *)
(* ItemRecovered when it cleared a tombstone seen by UpsertPrior.          *)
UpsertUpdate(r) ==
    /\ req[r] # Idle
    /\ req[r].pc = "update"
    /\ Matches(req[r])
    /\ \E s \in Seqs :
         /\ IsNextSeq(s)
         /\ rows' = [rows EXCEPT ![req[r].u] =
                       [version |-> req[r].target + 1, gen |-> req[r].gen,
                        deleted |-> req[r].del, seq |-> s]]
    /\ recovered' = IF req[r].prior /\ ~req[r].del
                    THEN [recovered EXCEPT ![req[r].u] = @ + 1]
                    ELSE recovered
    /\ Finish(r)
    /\ UNCHANGED <<account, pulling>>

(* The UPDATE matched no row: create when the target is 0, else Conflict.  *)
UpsertMiss(r) ==
    /\ req[r] # Idle
    /\ req[r].pc = "update"
    /\ ~Matches(req[r])
    /\ IF req[r].target = 0
       THEN req' = [req EXCEPT ![r].pc = "insert"]
       ELSE Finish(r)
    /\ UNCHANGED <<store, account, pulling>>

(* Mutant: the INSERT leaves seq unassigned.                               *)
UpsertInsert_NoSeq(r) ==
    /\ req[r] # Idle
    /\ req[r].pc = "insert"
    /\ rows' = IF HasRow(req[r].u) THEN rows
               ELSE [rows EXCEPT ![req[r].u] =
                       [version |-> 1, gen |-> req[r].gen,
                        deleted |-> req[r].del, seq |-> 0]]
    /\ Finish(r)
    /\ UNCHANGED <<recovered, account, pulling>>

(* The INSERT at version 1; a UNIQUE violation is answered Conflict.       *)
UpsertInsert(r) ==
    /\ req[r] # Idle
    /\ req[r].pc = "insert"
    /\ IF HasRow(req[r].u)
       THEN UNCHANGED rows
       ELSE \E s \in Seqs :
              /\ IsNextSeq(s)
              /\ rows' = [rows EXCEPT ![req[r].u] =
                            [version |-> 1, gen |-> req[r].gen,
                             deleted |-> req[r].del, seq |-> s]]
    /\ Finish(r)
    /\ UNCHANGED <<recovered, account, pulling>>

-----------------------------------------------------------------------------
(* Key rotation, account_rotate_key                                        *)

(* Reads the users row; a generation that is not ahead is answered with    *)
(* the current one and changes nothing.                                    *)
RotateStart(r, gen) ==
    /\ rot[r] = Idle
    /\ IF gen <= minGen
       THEN UNCHANGED rot
       ELSE rot' = [rot EXCEPT ![r] = [pc |-> "bump", gen |-> gen]]
    /\ UNCHANGED <<minGen, blobGen, store, req, pulling>>

(* update_min_enc_key_gen                                                  *)
RotateBump(r) ==
    /\ rot[r] # Idle
    /\ rot[r].pc = "bump"
    /\ minGen' = rot[r].gen
    /\ rot' = [rot EXCEPT ![r].pc = "blob"]
    /\ UNCHANGED <<blobGen, store, req, pulling>>

(* update_svk, the master-password blob                                    *)
RotateBlob(r) ==
    /\ rot[r] # Idle
    /\ rot[r].pc = "blob"
    /\ blobGen' = rot[r].gen
    /\ rot' = [rot EXCEPT ![r] = Idle]
    /\ UNCHANGED <<minGen, store, req, pulling>>

-----------------------------------------------------------------------------
(* The change feed, sync_pull                                              *)

(* cursor < MIN(seq) - 1; MIN over no rows reads as 0.                     *)
Expired(c) ==
    /\ \E u \in Items : HasRow(u)
    /\ \A u \in Items : HasRow(u) => c < rows[u].seq - 1

(* 410 cursor_expired; the device keeps its cursor.                        *)
PullExpired(d) ==
    /\ pull[d] = "idle"
    /\ Expired(cursor[d])
    /\ UNCHANGED vars

PullCheck(d) ==
    /\ pull[d] = "idle"
    /\ ~Expired(cursor[d])
    /\ pull' = [pull EXCEPT ![d] = "checked"]
    /\ UNCHANGED <<cursor, feed, store, account, req>>

After(c) == {u \in Items : HasRow(u) /\ rows[u].seq > c}

(* Mutant: the page is not ordered by seq.                                 *)
IsPage_AnyOrder(page, c) ==
    \/ Cardinality(page) = PageLimit
    \/ page = After(c) /\ Cardinality(page) < PageLimit

(* The rows ORDER BY seq LIMIT PageLimit beyond cursor c.                  *)
IsPage(page, c) ==
    /\ \A u \in page, w \in After(c) \ page : rows[u].seq < rows[w].seq
    /\ \/ Cardinality(page) = PageLimit
       \/ page = After(c) /\ Cardinality(page) < PageLimit

(* Mutant: the new cursor is the latest seq, past the end of the page.     *)
IsNewCursor_Latest(c, page, old) ==
    /\ page = {} => c = old
    /\ page # {} => \E u \in After(old) : c = rows[u].seq
    /\ \A u \in After(old) : rows[u].seq <= c

(* new_cursor: the seq of the last row of the page, or the old cursor.     *)
IsNewCursor(c, page, old) ==
    /\ page = {} => c = old
    /\ page # {} => \E u \in page : c = rows[u].seq
    /\ \A u \in page : rows[u].seq <= c

(* The SELECT, and the device taking in the page it returns.               *)
PullPage(d) ==
    /\ pull[d] = "checked"
    /\ \E page \in SUBSET After(cursor[d]), c \in 0..MaxSeq :
         /\ IsPage(page, cursor[d])
         /\ IsNewCursor(c, page, cursor[d])
         /\ cursor' = [cursor EXCEPT ![d] = c]
         /\ feed' = [feed EXCEPT ![d] =
                       [u \in Items |-> IF u \in page THEN rows[u].version
                                                      ELSE @[u]]]
    /\ pull' = [pull EXCEPT ![d] = "idle"]
    /\ UNCHANGED <<store, account, req>>

-----------------------------------------------------------------------------
(* The server process ends and is started again: every statement that was  *)
(* executed is in the database, every request is gone.                     *)
Restart ==
    /\ MayRestart
    /\ req' = [r \in Requests |-> Idle]
    /\ rot' = [r \in Rotators |-> Idle]
    /\ pull' = [d \in Devices |-> "idle"]
    /\ UNCHANGED <<store, minGen, blobGen, cursor, feed>>

-----------------------------------------------------------------------------
Write(r) ==
    \/ \E u \in Items, target \in 0..MaxSeq, gen \in Gens, del \in BOOLEAN :
         PushItem(r, u, target, gen, del)
    \/ \E u \in Items, gen \in Gens : PutItem(r, u, gen)
    \/ \E u \in Items : DeleteItem(r, u)
    \/ UpsertGate(r)
    \/ UpsertPrior(r)
    \/ UpsertUpdate(r)
    \/ UpsertMiss(r)
    \/ UpsertInsert(r)

Rotate(r) ==
    \/ \E gen \in Gens : RotateStart(r, gen)
    \/ RotateBump(r)
    \/ RotateBlob(r)

Pull(d) == PullExpired(d) \/ PullCheck(d) \/ PullPage(d)

Next ==
    \/ \E r \in Requests : Write(r)
    \/ \E r \in Rotators : Rotate(r)
    \/ \E d \in Devices : Pull(d)
    \/ Restart

Spec == Init /\ [][Next]_vars

(* A client that keeps syncing: a pull that the server would answer is     *)
(* eventually made and answered.                                           *)
FairSpec == Spec /\ \A d \in Devices : WF_vars(PullCheck(d)) /\ WF_vars(PullPage(d))

-----------------------------------------------------------------------------
(* No device's cursor has passed a change the device was not given: every  *)
(* row at or below the cursor was delivered at its current version. A      *)
(* write that reused a seq, or a page out of seq order, loses an edit for  *)
(* good, because sync_pull never looks behind the cursor.                  *)
FeedComplete ==
    \A d \in Devices, u \in Items :
      HasRow(u) /\ rows[u].seq <= cursor[d] => feed[d][u] = rows[u].version

(* What makes FeedComplete inductive: the next seq is beyond every cursor, *)
(* because a cursor is the seq of some row at the time it was pulled and   *)
(* the largest seq never shrinks.                                          *)
CursorReached ==
    \A d \in Devices :
      cursor[d] = 0 \/ \E u \in Items : HasRow(u) /\ rows[u].seq >= cursor[d]

(* The seq numbers, cursors and pages implement ChangeFeed: upsert_item_occ *)
(* and sync_pull behave as one queue per device, where an item that is     *)
(* written again goes to the back and a pull takes from the front.         *)
Latest(u) == IF HasRow(u) THEN rows[u].version ELSE 0
WrittenBefore(u) == {w \in Items : HasRow(w) /\ HasRow(u) /\ rows[w].seq < rows[u].seq}
Feed == INSTANCE ChangeFeed WITH
          latest <- [u \in Items |-> Latest(u)],
          older <- [u \in Items |-> WrittenBefore(u)],
          pending <- [d \in Devices |-> After(cursor[d])],
          holds <- feed
QueuePerDevice == Feed!Spec

(* Every cleared tombstone publishes ItemRecovered and nothing else does,  *)
(* although upsert_item_occ reads deleted_date one statement before the    *)
(* UPDATE that clears it.                                                  *)
RecoveryStep ==
    \A u \in Items :
      (recovered'[u] # recovered[u])
        <=> (/\ HasRow(u) /\ rows[u].deleted
             /\ rows'[u] # rows[u] /\ ~rows'[u].deleted)
RecoveryAnnounced == [][RecoveryStep]_<<rows, recovered>>

(* Every device eventually holds the current version of every item, or is  *)
(* refused by sync_pull's expiry check for ever.                           *)
CaughtUp(d) == \A u \in Items : HasRow(u) => feed[d][u] = rows[u].version
CatchUpUnlessExpired ==
    \A d \in Devices : <>[](CaughtUp(d) \/ Expired(cursor[d]))

(* Every device eventually holds the current version of every item.        *)
CatchUp == \A d \in Devices : <>[]CaughtUp(d)

(* REQ-API-01: no write below the epoch gate changes a row.                *)
EpochGated ==
    [][\A u \in Items : rows'[u] # rows[u] => rows'[u].gen >= minGen]_rows

(* ADR-004: a write that changes an existing row replaces the version its  *)
(* caller or its handler had read: nobody's change is overwritten unseen.  *)
Basis(q) == IF q.op = "push" THEN q.target ELSE q.target - 1
NoBlindOverwrite ==
    [][\A r \in Requests :
         (/\ req[r] # Idle /\ req'[r] = Idle
          /\ HasRow(req[r].u) /\ rows'[req[r].u] # rows[req[r].u])
           => rows[req[r].u].version = Basis(req[r])]_rows

(* account_rotate_key only moves the epoch forward.                        *)
EpochForward == [][minGen' >= minGen]_minGen

(* "Crash-Safe & Idempotent": with no rotation being served, the stored    *)
(* SVK blob is of the generation the gate demands. Where it is not, every  *)
(* retry is answered with success and leaves the old blob in place.        *)
BlobMatchesGate == (\A r \in Rotators : rot[r] = Idle) => blobGen = minGen
=============================================================================
