----------------------------- MODULE KeyRotation -----------------------------
(***************************************************************************)
(* VautrClient::rotate_key: a device replaces the vault key (SVK), moves   *)
(* the server's epoch gate, re-encrypts its local rows and pushes them,    *)
(* while other devices edit, sync and rotate, calls fail and devices       *)
(* crash. A key is a number, 0 for the key the account was made with; a    *)
(* ciphertext is the key and generation it was made with. A server call is *)
(* one action; ItemStore has the statements the server's side consists of. *)
(***************************************************************************)
EXTENDS Integers, FiniteSets

CONSTANTS Items,       \* item uuids, all of them on the server
          Unsynced,    \* those that no device has downloaded yet
          Devices,     \* devices of the account
          Rotators,    \* those whose user rotates the key
          BatchSize,   \* items per push_batch, 100 in the code
          Ops,         \* what else happens: "edit", "delete", "save", "sync"
          MaxKeys,     \* bound: calls of rotate_key
          MaxEdits,    \* bound: edits
          MaxFailures, \* bound: failed calls
          MaxCrashes,  \* bound: crashes
          NoRow,       \* no local row
          Idle         \* no task, or a locked device

(* What the sizes and the absent values have to be.                        *)
RotationAssumption ==
    /\ BatchSize \in Nat \ {0}
    /\ {MaxKeys, MaxEdits, MaxFailures, MaxCrashes} \subseteq Nat
    /\ IsFiniteSet(Devices)
    /\ Unsynced \subseteq Items
    /\ Rotators \subseteq Devices
    /\ Ops \subseteq {"edit", "delete", "save", "sync"}

VARIABLES srv,    \* the server's rows
          minGen, \* users.min_enc_key_gen
          blob,   \* the SVK that users.svk_ciphertext_blob wraps
          loc,    \* each device's local rows
          had,    \* the version of each item its cursor is past, 0 for none
          mem,    \* each device's svk, local_gen and epoch.min_enc_key_gen
          sess,   \* each device's saved session: blob and generation at login
          rot,    \* each device's running rotate_key
          save,   \* each device's save between the epoch check and the commit
          keys,   \* number of keys made so far
          used    \* edits, failures and crashes so far

server == <<srv, minGen, blob>>
local == <<loc, had, sess>>
vars == <<server, local, mem, rot, save, keys, used>>

Keys == 0..MaxKeys
Gens == 1..(MaxKeys + 1)
Versions == 1..(1 + MaxEdits + MaxKeys)

(* base: the server version that the content was made from.                *)
Row == [version : Versions, base : Versions, key : Keys, gen : Gens, live : BOOLEAN]

Entry == [u : Items, row : Row]
Clash == [u : Items, row : Row, version : Versions, fetched : BOOLEAN]

(* What an unlocked device holds in memory, a rotate_key that runs, and a  *)
(* commit_save past its epoch check.                                       *)
Session == [svk : Keys, gen : Gens, min : Gens]
Rotation == [pc : {"list", "items", "push", "clashes"}, old : Keys, new : Keys, gen : Gens,
             todo : SUBSET Entry, batch : SUBSET Entry, clashes : SUBSET Clash]
Saving == [u : Items, base : Versions, key : Keys, gen : Gens]

AbsentAssumption ==
    NoRow \notin Row /\ Idle \notin Session /\ Idle \notin Rotation /\ Idle \notin Saving

TypeOK ==
    /\ srv \in [Items -> Row]
    /\ minGen \in Gens /\ blob \in Keys
    /\ loc \in [Devices -> [Items -> Row \cup {NoRow}]]
    /\ had \in [Devices -> [Items -> Versions \cup {0}]]
    /\ sess \in [Devices -> [svk : Keys, gen : Gens]]
    /\ mem \in [Devices -> Session \cup {Idle}]
    /\ rot \in [Devices -> Rotation \cup {Idle}]
    /\ save \in [Devices -> Saving \cup {Idle}]
    /\ keys \in Keys
    /\ used \in [edits : 0..MaxEdits, failures : 0..MaxFailures, crashes : 0..MaxCrashes]

FirstRow == [version |-> 1, base |-> 1, key |-> 0, gen |-> 1, live |-> TRUE]

(* Every device is unlocked and has downloaded all but the unsynced items; *)
(* the deleted ones are tombstones on the server and nowhere else.         *)
InitOf(unsynced, deleted) ==
    /\ srv = [u \in Items |-> [FirstRow EXCEPT !.live = u \notin deleted]]
    /\ minGen = 1
    /\ blob = 0
    /\ loc = [d \in Devices |-> [u \in Items |-> IF u \in unsynced \cup deleted THEN NoRow ELSE FirstRow]]
    /\ had = [d \in Devices |-> [u \in Items |-> IF u \in unsynced THEN 0 ELSE 1]]
    /\ mem = [d \in Devices |-> [svk |-> 0, gen |-> 1, min |-> 1]]
    /\ sess = [d \in Devices |-> [svk |-> 0, gen |-> 1]]
    /\ rot = [d \in Devices |-> Idle]
    /\ save = [d \in Devices |-> Idle]
    /\ keys = 0
    /\ used = [edits |-> 0, failures |-> 0, crashes |-> 0]

Init == InitOf(Unsynced, {})

May(what, bound) == used[what] < bound
Use(what) == used' = [used EXCEPT ![what] = @ + 1]
Unlocked(d) == mem[d] # Idle
HasLocal(d, u) == loc[d][u] # NoRow

-----------------------------------------------------------------------------
(* The server                                                              *)

(* Mutant: any version the row has had is accepted.                        *)
Accepts_Past(u, target, gen) == gen >= minGen /\ target <= srv[u].version

(* upsert_item_occ on an existing row: the gate and the version.           *)
Accepts(u, target, gen) == gen >= minGen /\ srv[u].version = target

(* Mutant: client and server both increment the version.                   *)
Write_Twice(u, base, key, gen, live) ==
    srv' = [srv EXCEPT ![u] = [version |-> @.version + 2, base |-> base, key |-> key,
                               gen |-> gen, live |-> live]]

(* The UPDATE of upsert_item_occ.                                          *)
Write(u, base, key, gen, live) ==
    srv' = [srv EXCEPT ![u] = [version |-> @.version + 1, base |-> base, key |-> key,
                               gen |-> gen, live |-> live]]

(* An edit or a deletion on device d, which has the item's current version *)
(* and can read it: saved, pushed and synced.                              *)
Edit(d, u, live) ==
    /\ (IF live THEN "edit" ELSE "delete") \in Ops
    /\ May("edits", MaxEdits)
    /\ Unlocked(d) /\ rot[d] = Idle /\ save[d] = Idle
    /\ mem[d].gen >= mem[d].min
    /\ Accepts(u, srv[u].version, mem[d].gen)
    /\ srv[u].live /\ srv[u].key = mem[d].svk
    /\ Use("edits")
    /\ Write(u, srv[u].version + 1, mem[d].svk, mem[d].gen, live)
    /\ loc' = [loc EXCEPT ![d] = [loc[d] EXCEPT ![u] = IF live THEN srv'[u] ELSE NoRow]]
    /\ had' = [had EXCEPT ![d] = [had[d] EXCEPT ![u] = srv'[u].version]]
    /\ UNCHANGED <<minGen, blob, sess, mem, rot, save, keys>>

-----------------------------------------------------------------------------
(* The device outside of rotate_key                                        *)

(* A sync session that succeeds: the rows that changed since the last one, *)
(* then the gate from account_status.                                      *)
Sync(d) ==
    /\ "sync" \in Ops
    /\ Unlocked(d)
    /\ loc' = [loc EXCEPT ![d] = [u \in Items |->
                  IF had[d][u] = srv[u].version THEN loc[d][u]
                  ELSE IF srv[u].live THEN srv[u] ELSE NoRow]]
    /\ had' = [had EXCEPT ![d] = [u \in Items |-> srv[u].version]]
    /\ mem' = [mem EXCEPT ![d] = [mem[d] EXCEPT !.min = minGen]]
    /\ UNCHANGED <<server, sess, rot, save, keys, used>>

(* commit_save: verify_epoch, against the generation the payload was       *)
(* encrypted at.                                                           *)
SaveCheck(d, u) ==
    /\ "save" \in Ops
    /\ Unlocked(d) /\ save[d] = Idle
    /\ HasLocal(d, u) /\ loc[d][u].key = mem[d].svk
    /\ May("edits", MaxEdits) /\ Use("edits")
    /\ mem[d].gen >= mem[d].min
    /\ save' = [save EXCEPT ![d] = [u |-> u, base |-> loc[d][u].base,
                                    key |-> mem[d].svk, gen |-> mem[d].gen]]
    /\ UNCHANGED <<server, local, mem, rot, keys>>

(* commit_save: the version of the row is read and save_item_txn writes it *)
(* back with the new payload.                                              *)
SaveCommit(d) ==
    /\ save[d] # Idle
    /\ LET s == save[d]
       IN  loc' = [loc EXCEPT ![d] = [loc[d] EXCEPT ![s.u] =
                     [version |-> IF HasLocal(d, s.u) THEN loc[d][s.u].version ELSE 1,
                      base |-> s.base, key |-> s.key, gen |-> s.gen, live |-> TRUE]]]
    /\ save' = [save EXCEPT ![d] = Idle]
    /\ UNCHANGED <<server, had, sess, mem, rot, keys, used>>

(* The process ends: keys and tasks are gone, local rows stay.             *)
Crash(d) ==
    /\ May("crashes", MaxCrashes) /\ Use("crashes")
    /\ mem' = [mem EXCEPT ![d] = Idle]
    /\ rot' = [rot EXCEPT ![d] = Idle]
    /\ save' = [save EXCEPT ![d] = Idle]
    /\ UNCHANGED <<server, local, keys>>

(* A login: unlock_with_password with the server's blob and generation.    *)
Unlock(d) ==
    /\ ~Unlocked(d)
    /\ mem' = [mem EXCEPT ![d] = [svk |-> blob, gen |-> minGen, min |-> minGen]]
    /\ sess' = [sess EXCEPT ![d] = [svk |-> blob, gen |-> minGen]]
    /\ UNCHANGED <<server, loc, had, rot, save, keys, used>>

(* Restoring the saved session: unlock_with_password with the blob and     *)
(* generation of the last login.                                           *)
Restore(d) ==
    /\ ~Unlocked(d)
    /\ mem' = [mem EXCEPT ![d] = [svk |-> sess[d].svk, gen |-> sess[d].gen, min |-> sess[d].gen]]
    /\ UNCHANGED <<server, local, rot, save, keys, used>>

-----------------------------------------------------------------------------
(* rotate_key                                                              *)

Fail(d) == rot' = [rot EXCEPT ![d] = Idle]

(* account_rotate_key: a generation that is not ahead changes nothing.     *)
RotateServer(new, gen) ==
    IF gen > minGen THEN minGen' = gen /\ blob' = new /\ UNCHANGED srv
                    ELSE UNCHANGED server

(* A fresh SVK, wrapped and sent with the next generation; the generation  *)
(* the server confirms becomes the local gate.                             *)
RotateCall(d) ==
    /\ d \in Rotators
    /\ Unlocked(d) /\ rot[d] = Idle
    /\ keys < MaxKeys
    /\ keys' = keys + 1
    /\ RotateServer(keys', mem[d].gen + 1)
    /\ mem' = [mem EXCEPT ![d] = [mem[d] EXCEPT !.min = minGen']]
    /\ rot' = [rot EXCEPT ![d] = [pc |-> "list", old |-> mem[d].svk, new |-> keys',
                                  gen |-> minGen', todo |-> {}, batch |-> {}, clashes |-> {}]]
    /\ UNCHANGED <<local, save, used>>

(* The call fails after the server has served it: rotate_key returns.      *)
RotateReplyLost(d) ==
    /\ d \in Rotators
    /\ Unlocked(d) /\ rot[d] = Idle
    /\ keys < MaxKeys
    /\ May("failures", MaxFailures) /\ Use("failures")
    /\ keys' = keys + 1
    /\ RotateServer(keys', mem[d].gen + 1)
    /\ UNCHANGED <<local, mem, rot, save>>

At(d, pc) == rot[d] # Idle /\ rot[d].pc = pc

(* list_rotation_items                                                     *)
RotateList(d) ==
    /\ At(d, "list")
    /\ rot' = [rot EXCEPT ![d] = [rot[d] EXCEPT !.pc = "items",
                    !.todo = {[u |-> u, row |-> loc[d][u]] :
                       u \in {w \in Items : HasLocal(d, w) /\ loc[d][w].gen < rot[d].gen}}]]
    /\ UNCHANGED <<server, local, mem, save, keys, used>>

InBatch(d) == Cardinality(rot[d].batch)

(* One row of a batch: decrypted with the old key, encrypted with the new  *)
(* one, and payload and generation written to the local row (if there      *)
(* still is one). A row under another key ends the rotation.               *)
RotateItem(d, e) ==
    /\ At(d, "items") /\ e \in rot[d].todo
    /\ InBatch(d) < BatchSize
    /\ IF e.row.key # rot[d].old
       THEN Fail(d) /\ UNCHANGED loc
       ELSE /\ loc' = IF HasLocal(d, e.u)
                      THEN [loc EXCEPT ![d] = [loc[d] EXCEPT ![e.u] =
                              [loc[d][e.u] EXCEPT !.key = rot[d].new, !.gen = rot[d].gen,
                                                  !.base = e.row.base]]]
                      ELSE loc
            /\ rot' = [rot EXCEPT ![d] = [rot[d] EXCEPT !.todo = @ \ {e}, !.batch = @ \cup {e}]]
    /\ UNCHANGED <<server, had, sess, mem, save, keys, used>>

(* The batch is full, or the rows are used up.                             *)
RotateBatch(d) ==
    /\ At(d, "items")
    /\ rot[d].batch # {}
    /\ InBatch(d) = BatchSize \/ rot[d].todo = {}
    /\ rot' = [rot EXCEPT ![d] = [rot[d] EXCEPT !.pc = "push"]]
    /\ UNCHANGED <<server, local, mem, save, keys, used>>

(* The server's answer to one item of push_batch. EpochTooOld ends the     *)
(* rotation; a Conflict is kept for later.                                 *)
RotatePush(d, e) ==
    /\ At(d, "push") /\ e \in rot[d].batch
    /\ IF rot[d].gen < minGen
       THEN Fail(d) /\ UNCHANGED srv
       ELSE IF Accepts(e.u, e.row.version, rot[d].gen)
       THEN /\ Write(e.u, e.row.base, rot[d].new, rot[d].gen, TRUE)
            /\ rot' = [rot EXCEPT ![d] = [rot[d] EXCEPT !.batch = @ \ {e}]]
       ELSE /\ rot' = [rot EXCEPT ![d] = [rot[d] EXCEPT !.batch = @ \ {e},
                          !.clashes = @ \cup {[u |-> e.u, row |-> e.row, fetched |-> FALSE,
                                               version |-> srv[e.u].version]}]]
            /\ UNCHANGED srv
    /\ UNCHANGED <<minGen, blob, local, mem, save, keys, used>>

(* Mutant: the outcomes of push_batch are discarded.                       *)
RotateOutcomes_Discard(d) ==
    /\ At(d, "push") /\ rot[d].batch = {}
    /\ rot' = [rot EXCEPT ![d] = [rot[d] EXCEPT !.pc = "items", !.clashes = {}]]
    /\ UNCHANGED <<server, local, mem, save, keys, used>>

(* All outcomes are in.                                                    *)
RotateOutcomes(d) ==
    /\ At(d, "push") /\ rot[d].batch = {}
    /\ rot' = [rot EXCEPT ![d] = [rot[d] EXCEPT !.pc = IF rot[d].clashes = {} THEN "items" ELSE "clashes"]]
    /\ UNCHANGED <<server, local, mem, save, keys, used>>

(* A Conflict: the payload at the server's version is fetched and          *)
(* decrypted with the old key at the row's old generation.                 *)
ClashFetch(d, c) ==
    /\ At(d, "clashes") /\ c \in rot[d].clashes /\ ~c.fetched
    /\ LET now == srv[c.u]
       IN  IF now.version = c.version /\ now.live /\ now.key = rot[d].old /\ now.gen = c.row.gen
           THEN rot' = [rot EXCEPT ![d] = [rot[d] EXCEPT !.clashes = (@ \ {c}) \cup
                          {[c EXCEPT !.fetched = TRUE, !.row = now]}]]
           ELSE Fail(d)
    /\ UNCHANGED <<server, local, mem, save, keys, used>>

(* ... and pushed under the new key; anything but Applied is an error.     *)
ClashPush(d, c) ==
    /\ At(d, "clashes") /\ c \in rot[d].clashes /\ c.fetched
    /\ IF Accepts(c.u, c.version, rot[d].gen)
       THEN /\ Write(c.u, c.row.base, rot[d].new, rot[d].gen, TRUE)
            /\ rot' = [rot EXCEPT ![d] = [rot[d] EXCEPT !.clashes = @ \ {c},
                          !.pc = IF rot[d].clashes = {c} THEN "items" ELSE @]]
       ELSE Fail(d) /\ UNCHANGED srv
    /\ UNCHANGED <<minGen, blob, local, mem, save, keys, used>>

(* A call of the rotation or a local transaction fails.                    *)
RotateFail(d) ==
    /\ rot[d] # Idle
    /\ May("failures", MaxFailures) /\ Use("failures")
    /\ Fail(d)
    /\ UNCHANGED <<server, local, mem, save, keys>>

(* store_svk_blob, then the new key and generation are promoted.           *)
RotatePromote(d) ==
    /\ At(d, "items") /\ rot[d].todo = {} /\ rot[d].batch = {}
    /\ mem' = [mem EXCEPT ![d] = [svk |-> rot[d].new, gen |-> rot[d].gen, min |-> rot[d].gen]]
    /\ rot' = [rot EXCEPT ![d] = Idle]
    /\ UNCHANGED <<server, local, save, keys, used>>

-----------------------------------------------------------------------------
Rotate(d) ==
    \/ RotateCall(d) \/ RotateReplyLost(d) \/ RotateList(d)
    \/ rot[d] # Idle /\ \E e \in rot[d].todo : RotateItem(d, e)
    \/ RotateBatch(d)
    \/ rot[d] # Idle /\ \E e \in rot[d].batch : RotatePush(d, e)
    \/ RotateOutcomes(d)
    \/ rot[d] # Idle /\ \E c \in rot[d].clashes : ClashFetch(d, c) \/ ClashPush(d, c)
    \/ RotateFail(d) \/ RotatePromote(d)

Next ==
    \E d \in Devices :
      \/ Rotate(d)
      \/ \E u \in Items, live \in BOOLEAN : Edit(d, u, live)
      \/ Sync(d)
      \/ \E u \in Items : SaveCheck(d, u)
      \/ SaveCommit(d)
      \/ Crash(d)
      \/ Unlock(d)
      \/ Restore(d)

Spec == Init /\ [][Next]_vars

-----------------------------------------------------------------------------
(* With no rotation running, whoever logs in can read every live item: it  *)
(* is encrypted under the key in the blob, at the generation of the gate.  *)
Readable ==
    (\A d \in Devices : rot[d] = Idle)
      => \A u \in Items : srv[u].live => srv[u].key = blob /\ srv[u].gen = minGen

(* A rotation that ends with the promotion of its key, be it the first     *)
(* attempt, a retry or the resumption after a crash, leaves every item     *)
(* readable to whoever logs in.                                            *)
RotationCompletes ==
    [][\A d \in Devices :
         (/\ rot[d] # Idle /\ rot'[d] = Idle
          /\ mem'[d] # Idle /\ mem'[d] # mem[d])
           => \A u \in Items : srv[u].live => srv[u].key = blob]_rot

(* With no rotation and no save running, an unlocked device that is not    *)
(* behind the gate can read every row it holds at its own generation.      *)
LocalReadable ==
    \A d \in Devices :
      Unlocked(d) /\ rot[d] = Idle /\ save[d] = Idle /\ mem[d].gen >= mem[d].min
        => \A u \in Items : HasLocal(d, u) => loc[d][u].key = mem[d].svk

(* A re-encrypted item replaces the content it was made from: whatever     *)
(* fails, crashes or rotates at the same time, no push of a rotation puts  *)
(* older content over another device's edit.                               *)
KeepsEdits ==
    \A u \in Items :
      srv'[u] # srv[u] /\ (\E d \in Devices : rot[d] # Idle /\ rot'[d] # rot[d])
        => srv'[u].base >= srv[u].base
=============================================================================
