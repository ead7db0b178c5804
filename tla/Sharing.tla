------------------------------ MODULE Sharing -------------------------------
(***************************************************************************)
(* Sharing through the server: the directory of public keys, shares of one *)
(* item with one user, groups with their wrapped keys and items, and the   *)
(* web client that makes and opens the envelopes. A call is a client's     *)
(* function with the requests it sends, each of them one statement on the  *)
(* database at a time; calls interleave and may fail after any statement.  *)
(*                                                                         *)
(* Keys live in the client's memory only. Which user owns an item is       *)
(* decided by rows of other parts of the server and changes at any moment. *)
(***************************************************************************)
EXTENDS ShareCrypto, Sequences, FiniteSets

CONSTANTS Users, Items, Groups,
          Slots,     \* calls in flight at once
          MaxKeys,   \* bound: key pairs generated
          MaxSiks,   \* bound: SIKs generated
          None       \* absent

ASSUME SharingAssumption ==
    /\ MaxKeys \in Nat /\ MaxSiks \in Nat
    /\ None \notin Users \cup Items \cup Groups \cup Nat

VARIABLES owners,     \* rows that decide who owns an item
          directory,  \* sharing_public_keys
          shares,     \* shares, by item and recipient
          payloads,   \* share_payloads, by item
          groups,     \* groups: the admin
          members,    \* group_members
          wraps,      \* group_wrapped_sik, by group and user
          gitems,     \* group_items, by group and item
          keypair,    \* sharingSecretKey of each user's client
          groupKeys,  \* groupKeys of each user's client
          calls,      \* what each call is doing
          keys, siks, \* key pairs and SIKs generated so far
          left,       \* calls that may still be made, by kind
          everOwned,  \* history: who has owned an item
          revoked     \* history: SIKs of shares whose revocation was answered

server == <<owners, directory, shares, payloads, groups, members, wraps, gitems>>
client == <<keypair, groupKeys>>
history == <<everOwned, revoked>>
shareVars == <<server, client, calls, keys, siks, left, history>>

\* The statements of each call, in order.
Steps(op) ==
    CASE op = "ensure"  -> <<"publish", "keep">>
      [] op = "share"   -> <<"lookup", "own", "insert", "check", "store">>
      [] op = "upload"  -> <<"check", "store">>
      [] op = "inbox"   -> <<"list", "payload">>
      [] op = "revoke"  -> <<"check", "rows", "blob">>
      [] op = "create"  -> <<"group", "first", "hold">>
      [] op = "add"     -> <<"lookup", "admin", "member", "wrap">>
      [] op = "remove"  -> <<"admin", "leave", "unwrap">>
      [] op = "rotate"  -> <<"admin", "replace">>
      [] op = "groups"  -> <<"list", "open">>
      [] op = "post"    -> <<"admin", "put">>
      [] op = "items"   -> <<"member", "read">>
      [] op = "drop"    -> <<"admin", "delete">>

OneToOne == {"share", "upload", "inbox", "revoke"}
GroupOps == {"create", "add", "remove", "rotate", "groups", "post", "items", "drop"}
Kind(op) == IF op \in OneToOne THEN "shares" ELSE IF op \in GroupOps THEN "groups" ELSE "keys"

\* A call: `at` counts its statements, `box` is what it carries between them.
Call(op, u, id, to, box) == [op |-> op, at |-> 1, by |-> u, id |-> id, to |-> to, box |-> box]
At(s, op, step) == calls[s] # None /\ calls[s].op = op /\ Steps(op)[calls[s].at] = step

\* The call goes on with the next statement, or has returned.
Onward(s, box) ==
    LET c == calls[s] IN
    calls' = [calls EXCEPT ![s] = IF c.at = Len(Steps(c.op)) THEN None
                                  ELSE [c EXCEPT !.at = c.at + 1, !.box = box]]
Ends(s) == calls' = [calls EXCEPT ![s] = None]
\* The call goes on when the check passes, and returns an error otherwise.
Checked(s, pass) == IF pass THEN Onward(s, calls[s].box) ELSE Ends(s)

-----------------------------------------------------------------------------
(* Statements                                                              *)

(* item_owner: the creator of the secret, else who put it in a project,    *)
(* else the only user who holds it; with rows in several projects, any     *)
item_owner(i) ==
    LET o == owners[i] IN
    IF o.secret # None THEN {o.secret}
    ELSE IF o.project # {} THEN o.project
    ELSE IF Cardinality(o.holders) = 1 THEN o.holders ELSE {}

(* get_sharing_public_key; 0 is no row                                     *)
get_sharing_public_key(u) == directory[u]

(* upsert_sharing_public_key                                               *)
upsert_sharing_public_key(u, pk) == directory' = [directory EXCEPT ![u] = pk]

(* store_share_payload: one payload of an item, whoever it is for          *)
store_share_payload(i, dem, u) == payloads' = [payloads EXCEPT ![i] = [dem |-> dem, by |-> u]]

(* delete_share_payload                                                    *)
delete_share_payload(i) == payloads' = [payloads EXCEPT ![i] = None]

(* create_group, in the repository                                         *)
create_group(g, u) == groups' = [groups EXCEPT ![g] = u]

(* add_group_member, in the repository: nothing where there is a row       *)
add_group_member(g, u) == members' = [members EXCEPT ![g] = @ \cup {u}]

(* remove_group_member, in the repository                                  *)
remove_group_member(g, u) == members' = [members EXCEPT ![g] = @ \ {u}]

(* is_group_member                                                         *)
is_group_member(g, u) == u \in members[g]

(* list_groups_for_member                                                  *)
list_groups_for_member(u) == {g \in Groups : groups[g] # None /\ u \in members[g]}

(* store_group_wrapped_sik                                                 *)
store_group_wrapped_sik(g, u, env) == wraps' = [wraps EXCEPT ![<<g, u>>] = env]

(* delete_group_wrapped_sik                                                *)
delete_group_wrapped_sik(g, u) == wraps' = [wraps EXCEPT ![<<g, u>>] = None]

(* add_group_item, in the repository                                       *)
add_group_item(g, i, dem) == gitems' = [gitems EXCEPT ![<<g, i>>] = dem]

(* delete_group_item, in the repository                                    *)
delete_group_item(g, i) == gitems' = [gitems EXCEPT ![<<g, i>>] = None]

(* is_share_owner                                                          *)
is_share_owner(i, u) == \E r \in Users : shares[<<i, r>>] # None /\ shares[<<i, r>>].owner = u

(* create_share, in the repository: on conflict the owner stays            *)
create_share(i, u, r, env) ==
    shares' = [shares EXCEPT ![<<i, r>>] = IF shares[<<i, r>>] = None THEN [owner |-> u, env |-> env]
                                       ELSE [shares[<<i, r>>] EXCEPT !.env = env]]

(* get_inbox                                                               *)
get_inbox(u) == {i \in Items : shares[<<i, u>>] # None}

(* Mutant: one row is deleted.                                             *)
delete_shares_One(i, u) ==
    \E r \in Users : /\ shares[<<i, r>>] # None /\ shares[<<i, r>>].owner = u
                     /\ shares' = [shares EXCEPT ![<<i, r>>] = None]

(* delete_shares_by_owner_item                                             *)
delete_shares(i, u) ==
    shares' = [x \in Items \X Users |->
                 IF x[1] = i /\ shares[x] # None /\ shares[x].owner = u THEN None ELSE shares[x]]

(* require_admin                                                           *)
require_admin(g, u) == groups[g] = u

(* replace_group_wrapped_siks: in one transaction                          *)
replace_group_wrapped_siks(g, new) ==
    wraps' = [x \in Groups \X Users |->
                IF x[1] # g THEN wraps[x] ELSE IF x[2] \in DOMAIN new THEN new[x[2]] ELSE None]

-----------------------------------------------------------------------------
(* Calls begin                                                             *)

Begin(s, c) ==
    /\ calls[s] = None
    /\ left[Kind(c.op)] > 0
    /\ left' = [left EXCEPT ![Kind(c.op)] = @ - 1]
    /\ calls' = [calls EXCEPT ![s] = c]
    /\ UNCHANGED <<server, client, history>>
Idle == UNCHANGED <<keys, siks>>

(* ensureSharingKey: nothing to do where there is a key                    *)
EnsureSharingKey(s, u) ==
    /\ keypair[u] = 0 /\ keys < MaxKeys
    /\ keys' = keys + 1 /\ UNCHANGED siks
    /\ Begin(s, Call("ensure", u, None, None, keys + 1))

(* shareItem of an unlocked client                                         *)
WebShareItem(s, u, i, r) == u # r /\ keypair[u] # 0 /\ Idle /\ Begin(s, Call("share", u, i, r, None))

(* uploadSharePayload alone, of a payload sealed with a key of one's own   *)
WebUpload(s, u, i) ==
    /\ siks < MaxSiks /\ siks' = siks + 1 /\ UNCHANGED keys
    /\ Begin(s, Call("upload", u, i, None, ShareItem(siks + 1, i, 0)))

(* getShareInbox, and acceptShare of its entries                           *)
WebInbox(s, u) == Idle /\ Begin(s, Call("inbox", u, None, None, None))

(* revokeShare                                                             *)
WebRevoke(s, u, i) == Idle /\ Begin(s, Call("revoke", u, i, None, {}))

(* createGroup: the Group SIK is made before the group                     *)
WebCreateGroup(s, u, g) ==
    /\ groups[g] = None /\ \A t \in Slots : calls[t] # None => calls[t].id # g
    /\ siks < MaxSiks /\ siks' = siks + 1 /\ UNCHANGED keys
    /\ Begin(s, Call("create", u, g, None, siks + 1))

(* addGroupMember, with the key of getGroupKey                             *)
WebAddMember(s, u, g, m) ==
    groupKeys[u][g] # 0 /\ Idle /\ Begin(s, Call("add", u, g, m, groupKeys[u][g]))

(* removeGroupMember: the member only, no key is changed                   *)
WebRemoveMember(s, u, g, m) == Idle /\ Begin(s, Call("remove", u, g, m, None))

(* Mutant: a fresh SIK is made for the members.                            *)
RotatedKey_Fresh(u, g) == siks + 1

(* rotateGroup: what is wrapped for the members is the key of the group    *)
RotatedKey(u, g) == groupKeys[u][g]

(* rotateGroup, for members whose public keys the caller has looked up     *)
WebRotateGroup(s, u, g, M) ==
    /\ groupKeys[u][g] # 0 /\ \A m \in M : directory[m] # 0
    /\ Idle
    /\ Begin(s, Call("rotate", u, g, None,
                     [m \in M |-> WrapGroupKey(RotatedKey(u, g), g, directory[m])]))

(* getGroupInbox, and unwrapGroupKey of its entries                        *)
WebGroupInbox(s, u) == Idle /\ Begin(s, Call("groups", u, None, None, {}))

(* shareItemToGroup                                                        *)
WebShareToGroup(s, u, g, i) ==
    groupKeys[u][g] # 0 /\ Idle /\ Begin(s, Call("post", u, g, i, Seal(groupKeys[u][g], i)))

(* getGroupItems                                                           *)
WebGroupItems(s, u, g) == Idle /\ Begin(s, Call("items", u, g, None, None))

(* revokeGroupItem                                                         *)
WebDropItem(s, u, g, i) == Idle /\ Begin(s, Call("drop", u, g, i, None))

-----------------------------------------------------------------------------
(* Statements of calls                                                     *)

Rest(changed) ==
    /\ changed # "keys" => UNCHANGED directory
    /\ changed # "shares" => UNCHANGED <<shares, revoked>>
    /\ changed # "payloads" => UNCHANGED payloads
    /\ changed # "groups" => UNCHANGED groups
    /\ changed # "members" => UNCHANGED members
    /\ changed # "wraps" => UNCHANGED wraps
    /\ changed # "items" => UNCHANGED gitems
    /\ changed # "client" => UNCHANGED client
    /\ changed # "siks" => UNCHANGED siks
    /\ UNCHANGED <<owners, keys, left, everOwned>>

(* PUT public-key: put_public_key                                          *)
Publish(s) ==
    /\ At(s, "ensure", "publish")
    /\ upsert_sharing_public_key(calls[s].by, calls[s].box)
    /\ Onward(s, calls[s].box) /\ Rest("keys")

(* ensureSharingKey, once the key is published                             *)
KeepKey(s) ==
    /\ At(s, "ensure", "keep")
    /\ keypair' = [keypair EXCEPT ![calls[s].by] = calls[s].box]
    /\ Onward(s, None) /\ UNCHANGED groupKeys /\ Rest("client")

(* GET public-key of the recipient, and share_item with a fresh SIK        *)
Lookup(s) ==
    /\ At(s, "share", "lookup")
    /\ IF get_sharing_public_key(calls[s].to) = 0 THEN Ends(s) /\ UNCHANGED siks
       ELSE /\ siks < MaxSiks /\ siks' = siks + 1
            /\ Onward(s, ShareItem(siks + 1, calls[s].id, get_sharing_public_key(calls[s].to)))
    /\ Rest("siks")

(* POST /shares: is the caller the owner; either answer where both can be  *)
MayShare(i, u) == {o = u : o \in item_owner(i)} \cup (IF item_owner(i) = {} THEN {FALSE} ELSE {})

(* create_share: the check                                                 *)
OwnCheck(s) ==
    /\ At(s, "share", "own")
    /\ \E ok \in MayShare(calls[s].id, calls[s].by) : Checked(s, ok)
    /\ Rest("nothing")

(* create_share: the row                                                   *)
InsertShare(s) ==
    /\ At(s, "share", "insert")
    /\ create_share(calls[s].id, calls[s].by, calls[s].to, calls[s].box.env)
    /\ Onward(s, calls[s].box) /\ UNCHANGED revoked /\ Rest("shares")

(* upload_payload and revoke_share: does the caller own a share of it      *)
ShareOwnerCheck(s) ==
    /\ \E op \in {"share", "upload", "revoke"} : At(s, op, "check")
    /\ Checked(s, is_share_owner(calls[s].id, calls[s].by))
    /\ Rest("nothing")

(* upload_payload: the payload                                             *)
StorePayload(s) ==
    /\ \E op \in {"share", "upload"} : At(s, op, "store")
    /\ store_share_payload(calls[s].id, calls[s].box.payload, calls[s].by)
    /\ Onward(s, None) /\ Rest("payloads")

(* inbox: the rows of the caller                                           *)
ListInbox(s) ==
    /\ At(s, "inbox", "list")
    /\ Onward(s, [i \in get_inbox(calls[s].by) |-> shares[<<i, calls[s].by>>].env])
    /\ Rest("nothing")

(* accept_share of vautr-wasm: nothing without a key or a payload          *)
wasm_accept_share(kp, i, env, row) == IF kp = 0 \/ row = None THEN 0 ELSE AcceptShare(kp, i, env, row.dem)

(* inbox: the payloads; the client then opens what it can                  *)
ListPayloads(s) == At(s, "inbox", "payload") /\ Onward(s, None) /\ Rest("nothing")

(* revoke_share: the rows                                                  *)
RevokeRows(s) ==
    /\ At(s, "revoke", "rows")
    /\ delete_shares(calls[s].id, calls[s].by)
    /\ LET mine == {r \in Users : shares[<<calls[s].id, r>>] # None /\ shares[<<calls[s].id, r>>].owner = calls[s].by}
       IN Onward(s, {shares[<<calls[s].id, r>>].env.sik : r \in mine})
    /\ UNCHANGED revoked /\ Rest("shares")

(* revoke_share: the payload, and the answer                               *)
RevokePayload(s) ==
    /\ At(s, "revoke", "blob")
    /\ delete_share_payload(calls[s].id)
    /\ revoked' = revoked \cup calls[s].box
    /\ Onward(s, None)
    /\ UNCHANGED <<owners, directory, shares, groups, members, wraps, gitems, client, siks, keys, left, everOwned>>

(* create_group: the group                                                 *)
InsertGroup(s) ==
    /\ At(s, "create", "group")
    /\ create_group(calls[s].id, calls[s].by)
    /\ Onward(s, calls[s].box) /\ Rest("groups")

(* create_group: the admin is its first member                             *)
InsertAdmin(s) ==
    /\ At(s, "create", "first")
    /\ add_group_member(calls[s].id, calls[s].by)
    /\ Onward(s, calls[s].box) /\ Rest("members")

(* add_group_member: the member                                            *)
InsertMember(s) ==
    /\ At(s, "add", "member")
    /\ add_group_member(calls[s].id, calls[s].to)
    /\ Onward(s, calls[s].box) /\ Rest("members")

(* createGroup, once the group has its identifier: the key in memory       *)
HoldGroupKey(s) ==
    /\ At(s, "create", "hold")
    /\ groupKeys' = [groupKeys EXCEPT ![calls[s].by] = [groupKeys[calls[s].by] EXCEPT ![calls[s].id] = calls[s].box]]
    /\ Onward(s, None) /\ UNCHANGED keypair /\ Rest("client")

(* addGroupMember: the key of the new member, and the wrap for it          *)
LookupMember(s) ==
    /\ At(s, "add", "lookup")
    /\ IF get_sharing_public_key(calls[s].to) = 0 THEN Ends(s)
       ELSE Onward(s, WrapGroupKey(calls[s].box, calls[s].id, get_sharing_public_key(calls[s].to)))
    /\ Rest("nothing")

(* require_admin of the five routes that change a group                    *)
AdminCheck(s) ==
    /\ \E op \in {"add", "remove", "rotate", "post", "drop"} : At(s, op, "admin")
    /\ Checked(s, require_admin(calls[s].id, calls[s].by))
    /\ Rest("nothing")

(* add_group_member: the wrap                                              *)
StoreWrap(s) ==
    /\ At(s, "add", "wrap")
    /\ store_group_wrapped_sik(calls[s].id, calls[s].to, calls[s].box)
    /\ Onward(s, None) /\ Rest("wraps")

(* remove_group_member: the member                                         *)
DeleteMember(s) ==
    /\ At(s, "remove", "leave")
    /\ remove_group_member(calls[s].id, calls[s].to)
    /\ Onward(s, calls[s].box) /\ Rest("members")

(* remove_group_member: the wrap                                           *)
DeleteWrap(s) ==
    /\ At(s, "remove", "unwrap")
    /\ delete_group_wrapped_sik(calls[s].id, calls[s].to)
    /\ Onward(s, None) /\ Rest("wraps")

(* rotate_group                                                            *)
ReplaceWraps(s) ==
    /\ At(s, "rotate", "replace")
    /\ replace_group_wrapped_siks(calls[s].id, calls[s].box)
    /\ Onward(s, None) /\ Rest("wraps")

(* group_inbox: the groups of the caller                                   *)
ListGroups(s) ==
    /\ At(s, "groups", "list")
    /\ Onward(s, list_groups_for_member(calls[s].by))
    /\ Rest("nothing")

(* unwrap_group_key of vautr-wasm: an entry without a wrap does not parse  *)
wasm_unwrap_group_key(env, kp, g) == IF env = None \/ kp = 0 THEN 0 ELSE UnwrapGroupKey(env, kp, g)

(* group_inbox: the wraps; the client unwraps what it can                  *)
OpenGroups(s) ==
    LET u == calls[s].by
        sik(g) == wasm_unwrap_group_key(wraps[<<g, u>>], keypair[u], g)
    IN /\ At(s, "groups", "open")
       /\ groupKeys' = [groupKeys EXCEPT ![u] = [g \in Groups |->
                          IF g \in calls[s].box /\ sik(g) # 0 THEN sik(g) ELSE groupKeys[u][g]]]
       /\ Onward(s, None) /\ UNCHANGED keypair /\ Rest("client")

(* add_group_item                                                          *)
PutItem(s) ==
    /\ At(s, "post", "put")
    /\ add_group_item(calls[s].id, calls[s].to, calls[s].box)
    /\ Onward(s, None) /\ Rest("items")

(* delete_group_item                                                       *)
DeleteItem(s) ==
    /\ At(s, "drop", "delete")
    /\ delete_group_item(calls[s].id, calls[s].to)
    /\ Onward(s, None) /\ Rest("items")

(* list_group_items: the check                                             *)
MemberCheck(s) ==
    /\ At(s, "items", "member")
    /\ Checked(s, is_group_member(calls[s].id, calls[s].by))
    /\ Rest("nothing")

(* list_group_items: the rows                                              *)
ReadItems(s) == At(s, "items", "read") /\ Onward(s, None) /\ Rest("nothing")

Serve(s) ==
    \/ Publish(s) \/ KeepKey(s) \/ Lookup(s) \/ OwnCheck(s) \/ InsertShare(s) \/ ShareOwnerCheck(s)
    \/ StorePayload(s) \/ ListInbox(s) \/ ListPayloads(s) \/ RevokeRows(s) \/ RevokePayload(s)
    \/ InsertGroup(s) \/ InsertAdmin(s) \/ HoldGroupKey(s) \/ LookupMember(s) \/ AdminCheck(s)
    \/ InsertMember(s) \/ StoreWrap(s) \/ DeleteMember(s) \/ DeleteWrap(s) \/ ReplaceWraps(s)
    \/ ListGroups(s) \/ OpenGroups(s) \/ PutItem(s) \/ DeleteItem(s) \/ MemberCheck(s) \/ ReadItems(s)

-----------------------------------------------------------------------------
(* Outside the calls                                                       *)

(* Another part of the server writes a row that decides ownership: an item *)
(* is put in a project or taken out, or stored by one more user            *)
ChangeOwner(i, u) ==
    /\ left.owners > 0 /\ left' = [left EXCEPT !.owners = @ - 1]
    /\ \/ owners' = [owners EXCEPT ![i].project = @ \cup {u}]
       \/ owners' = [owners EXCEPT ![i].project = @ \ {u}]
       \/ owners' = [owners EXCEPT ![i].holders = @ \cup {u}]
    /\ owners' # owners
    /\ everOwned' = [everOwned EXCEPT ![i] = @ \cup item_owner(i)']
    /\ UNCHANGED <<directory, shares, payloads, groups, members, wraps, gitems, client, calls, keys, siks, revoked>>

(* forget: the client signs out, or is loaded anew; calls it has made go on *)
Forget(u) ==
    /\ keypair[u] # 0 \/ \E g \in Groups : groupKeys[u][g] # 0
    /\ left.forgets > 0 /\ left' = [left EXCEPT !.forgets = @ - 1]
    /\ keypair' = [keypair EXCEPT ![u] = 0]
    /\ groupKeys' = [groupKeys EXCEPT ![u] = [g \in Groups |-> 0]]
    /\ UNCHANGED <<server, calls, keys, siks, history>>

(* A statement, a request or its answer fails: the call ends there         *)
Fails(s) ==
    /\ calls[s] # None /\ Ends(s)
    /\ UNCHANGED <<server, client, keys, siks, left, history>>

\* A user's first key, where all of them have signed in before.
FirstKeys == CHOOSE f \in [Users -> 1..Cardinality(Users)] : \A u, v \in Users : f[u] = f[v] => u = v

ShareInit(mix) ==
    /\ owners \in mix.rows
    /\ keypair = IF mix.ready THEN FirstKeys ELSE [u \in Users |-> 0]
    /\ directory = keypair
    /\ keys = IF mix.ready THEN Cardinality(Users) ELSE 0
    /\ shares = [x \in Items \X Users |-> None]
    /\ payloads = [i \in Items |-> None]
    /\ groups = [g \in Groups |-> None]
    /\ members = [g \in Groups |-> {}]
    /\ wraps = [x \in Groups \X Users |-> None]
    /\ gitems = [x \in Groups \X Items |-> None]
    /\ groupKeys = [u \in Users |-> [g \in Groups |-> 0]]
    /\ calls = [s \in Slots |-> None]
    /\ siks = 0 /\ left = mix.left
    /\ everOwned = [i \in Items |-> item_owner(i)]
    /\ revoked = {}

ShareNext ==
    \/ \E s \in Slots : Serve(s) \/ Fails(s)
    \/ \E s \in Slots, u \in Users : EnsureSharingKey(s, u) \/ WebInbox(s, u) \/ WebGroupInbox(s, u)
    \/ \E s \in Slots, u \in Users, i \in Items : WebUpload(s, u, i) \/ WebRevoke(s, u, i)
    \/ \E s \in Slots, u, r \in Users, i \in Items : WebShareItem(s, u, i, r)
    \/ \E s \in Slots, u \in Users, g \in Groups : WebCreateGroup(s, u, g) \/ WebGroupItems(s, u, g)
    \/ \E s \in Slots, u, m \in Users, g \in Groups : WebAddMember(s, u, g, m) \/ WebRemoveMember(s, u, g, m)
    \/ \E s \in Slots, u \in Users, g \in Groups, M \in SUBSET Users : WebRotateGroup(s, u, g, M)
    \/ \E s \in Slots, u \in Users, g \in Groups, i \in Items : WebShareToGroup(s, u, g, i) \/ WebDropItem(s, u, g, i)
    \/ \E u \in Users, i \in Items : ChangeOwner(i, u)
    \/ \E u \in Users : Forget(u)

(* The rows item_owner reads of one item                                   *)
OwnerRow == [secret : Users \cup {None}, project : SUBSET Users, holders : SUBSET Users]

ShareSpec(mix) == ShareInit(mix) /\ [][ShareNext]_shareVars

-----------------------------------------------------------------------------
(* Properties. Those marked "refuted" do not hold of the code.             *)

Env(ids) == [sik : 1..MaxSiks, pk : 0..MaxKeys, id : ids]
Dem == [sik : 1..MaxSiks, ad : Items]

\* Every row refers to keys that were generated, envelopes of an item and of
\* a group are never exchanged, and calls are at a statement they have.
ShareTypeOK ==
    /\ directory \in [Users -> 0..keys] /\ keypair \in [Users -> 0..keys] /\ siks \in 0..MaxSiks
    /\ \A x \in Items \X Users : shares[x] # None => shares[x] \in [owner : Users, env : Env({x[1]})]
    /\ \A i \in Items : payloads[i] # None => payloads[i] \in [dem : Dem, by : Users] /\ payloads[i].dem.ad = i
    /\ groups \in [Groups -> Users \cup {None}]
    /\ members \in [Groups -> SUBSET Users]
    /\ \A x \in Groups \X Users : wraps[x] # None => wraps[x] \in Env({x[1]}) /\ wraps[x].pk > 0
    /\ \A x \in Groups \X Items : gitems[x] # None => gitems[x] \in Dem /\ gitems[x].ad = x[2]
    /\ groupKeys \in [Users -> [Groups -> 0..MaxSiks]]
    /\ \A s \in Slots : calls[s] # None => calls[s].at \in 1..Len(Steps(calls[s].op))

\* Whoever shared an item or uploaded the payload of its shares has owned the
\* item: a check and the write after it are two statements, and ownership
\* moves in between, but never to someone who has not had it.
SharedByOwner ==
    \A i \in Items :
        /\ \A r \in Users : shares[<<i, r>>] # None => shares[<<i, r>>].owner \in everOwned[i]
        /\ payloads[i] # None => payloads[i].by \in everOwned[i]

\* When a revocation has been answered, no recipient has a row with a SIK the
\* owner had shared before it, and none comes back, whatever shares of the
\* same item are made meanwhile (revoke_share).
RevokedGone == \A x \in Items \X Users : shares[x] # None => shares[x].env.sik \notin revoked

\* A share is there by the will of an owner, however shares, revocations and
\* changes of owner overlap (create_share, upload_share_payload, revoke_share).
SharesOfOwner == SharedByOwner /\ RevokedGone

\* Every wrap of a group's key opens every item of the group: members added,
\* removed and added again, keys wrapped anew and items posted in any order
\* by several calls of the admin never leave two keys in use.
OneGroupKey ==
    \A g \in Groups, u \in Users, i \in Items :
        wraps[<<g, u>>] # None /\ gitems[<<g, i>>] # None => Opens(wraps[<<g, u>>].sik, i, gitems[<<g, i>>])

\* Refuted. What the inbox lists opens with the key pair of the recipient:
\* an item has one payload, sealed for the last user it was shared with, and
\* a client that signs in again has another key pair.
InboxOpens ==
    \A s \in Slots : At(s, "inbox", "payload") =>
        \A i \in DOMAIN calls[s].box :
            payloads[i] # None /\ keypair[calls[s].by] # 0 =>
                wasm_accept_share(keypair[calls[s].by], i, calls[s].box[i], payloads[i]) # 0

\* Refuted. After a revocation has been answered the payload is gone too: a
\* share that passed its check before stores it afterwards.
RevokedPayloadGone == \A i \in Items : payloads[i] # None => payloads[i].dem.sik \notin revoked

\* Refuted. The key a user's client unwraps with is the one in the directory:
\* two calls of the client, or one whose answer is lost, leave them different.
DirectoryHeld == \A u \in Users : keypair[u] # 0 => directory[u] = keypair[u]

\* Refuted. A member of a group has a wrap of its key once the calls that
\* change the group are over: a rotation drops a member added meanwhile, and
\* the admin never has one.
MemberHasWrap ==
    (\A s \in Slots : calls[s] = None) =>
        \A g \in Groups : \A u \in members[g] : wraps[<<g, u>>] # None

\* Refuted. Someone who is not a member has no wrap of the group's key.
OnlyMembersWrapped ==
    (\A s \in Slots : calls[s] = None) =>
        \A g \in Groups, u \in Users : wraps[<<g, u>>] # None => u \in members[g]
=============================================================================
