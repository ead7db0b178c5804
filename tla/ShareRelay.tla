----------------------------- MODULE ShareRelay -----------------------------
(***************************************************************************)
(* Sharing as the core client does it, through a relay that stores what it *)
(* is given: shares and revocations, and groups whose Group SIK the admin  *)
(* holds and rotates. A method of the client is a sequence of calls of the *)
(* relay; methods of the same client interleave between them, and each     *)
(* call may fail and end the method.                                       *)
(***************************************************************************)
EXTENDS ShareCrypto

CONSTANTS Users, Items, Groups, Slots, MaxSiks, None

VARIABLES relay,    \* RelayState: payloads and wrapped keys, and the inboxes
          pairs,    \* sharing_keypair of each client (published), its own
          held,     \* ShareGroupStore of each group's admin: the Group SIK
          admin,    \* admin_uuid of each group
          methods,  \* what each method in flight is doing
          made,     \* SIKs generated so far
          count,    \* methods that may still be called, by kind
          opened,   \* history: who opened what, and whom it was for
          barred,   \* history: members removed and not added again
          known     \* history: SIKs wrapped for each user

relayVars == <<relay, pairs, held, admin, methods, made, count, opened, barred, known>>

Method(op, u, id, to, key, new) ==
    [op |-> op, at |-> "lookup", by |-> u, id |-> id, to |-> to, key |-> key, new |-> new]
On(t, op, at) == methods[t] # None /\ methods[t].op = op /\ methods[t].at = at
Goes(t, at, new) == methods' = [methods EXCEPT ![t] = [methods[t] EXCEPT !.at = at, !.new = new]]
Done(t) == methods' = [methods EXCEPT ![t] = None]

Spend(k) == count[k] > 0 /\ count' = [count EXCEPT ![k] = @ - 1]
Call(t, m) ==
    /\ methods[t] = None /\ Spend(IF m.op = "share" THEN "shares" ELSE "groups")
    /\ methods' = [methods EXCEPT ![t] = m]
    /\ UNCHANGED <<relay, pairs, held, admin, made, opened, known>>

(* share_item                                                              *)
CoreShareItem(t, u, i, r) == u # r /\ Call(t, Method("share", u, i, r, 0, None)) /\ UNCHANGED barred

(* create_group: on the client alone                                       *)
CoreCreateGroup(u, g) ==
    /\ admin[g] = None /\ made < MaxSiks /\ Spend("groups")
    /\ made' = made + 1 /\ admin' = [admin EXCEPT ![g] = u] /\ held' = [held EXCEPT ![g] = made + 1]
    /\ UNCHANGED <<relay, pairs, methods, opened, barred, known>>

(* add_group_member: the key is read first                                 *)
CoreAddMember(t, g, m) ==
    /\ admin[g] # None /\ m # admin[g]
    /\ Call(t, Method("add", admin[g], g, m, held[g], None))
    /\ barred' = [barred EXCEPT ![g] = @ \ {m}]

(* remove_group_member (m) and rotate_group_sik (None): the key is read,   *)
(* for its group; the wraps are for the admin alone                        *)
CoreRotate(t, g, m) ==
    admin[g] \notin {None, m} /\ Call(t, Method("rotate", admin[g], g, m, held[g], None)) /\ UNCHANGED barred

(* fetch_public_key, then what is made with it on the client               *)
FetchKey(t) ==
    LET x == methods[t] IN
    /\ x # None /\ x.at = "lookup"
    /\ IF x.op = "add" THEN UNCHANGED made ELSE made < MaxSiks /\ made' = made + 1
    /\ \/ /\ x.op = "share"
          /\ Goes(t, "post", ShareItem(made + 1, x.id, pairs[x.to]))
       \/ /\ x.op = "add"
          /\ Goes(t, "post", WrapGroupKey(x.key, x.id, pairs[x.to]))
       \/ /\ x.op = "rotate"
          /\ LET r == RemoveGroupMember(x.key, made + 1, x.id, x.to, [u \in {x.by} |-> pairs[u]])
             IN IF r.ok THEN Goes(t, "post", r) ELSE Done(t)
    /\ UNCHANGED <<relay, pairs, held, admin, count, opened, barred, known>>

(* post_share: one more entry of the recipient's inbox                     *)
PostShare(t) ==
    /\ On(t, "share", "post")
    /\ relay' = [relay EXCEPT !.inbox = @ \cup {[item |-> methods[t].id, to |-> methods[t].to,
                                                env |-> methods[t].new.env, payload |-> methods[t].new.payload]}]
    /\ Goes(t, "payload", methods[t].new)
    /\ UNCHANGED <<pairs, held, admin, made, count, opened, barred, known>>

(* post_share_payload: by the name of the share, which is the item's       *)
PostPayload(t) ==
    /\ On(t, "share", "payload")
    /\ relay' = [relay EXCEPT !.payloads[methods[t].id] = methods[t].new.payload]
    /\ Done(t)
    /\ UNCHANGED <<pairs, held, admin, made, count, opened, barred, known>>

(* fetch_inbox: every entry of every inbox, with the payload stored last   *)
fetch_inbox ==
    {[e EXCEPT !.payload = IF relay.payloads[e.item] = None THEN @ ELSE relay.payloads[e.item]] :
        e \in relay.inbox}

(* fetch_shares and accept_share                                           *)
CoreAccept(u) ==
    /\ \E e \in fetch_inbox :
        /\ AcceptShare(pairs[u], e.item, e.env, e.payload) # 0
        /\ opened' = opened \cup {<<u, e.to>>}
    /\ UNCHANGED <<relay, pairs, held, admin, methods, made, count, barred, known>>

(* revoke_share                                                            *)
CoreRevoke(i) ==
    /\ Spend("shares")
    /\ relay' = [relay EXCEPT !.payloads[i] = None, !.inbox = {e \in @ : e.item # i}]
    /\ UNCHANGED <<pairs, held, admin, methods, made, opened, barred, known>>

(* store_group_wrapped_key                                                 *)
StoreWrapped(t) ==
    /\ On(t, "add", "post")
    /\ relay' = [relay EXCEPT !.wrapped[<<methods[t].id, methods[t].to>>] = methods[t].new]
    /\ known' = [known EXCEPT ![methods[t].to] = @ \cup {methods[t].new.sik}]
    /\ Done(t)
    /\ UNCHANGED <<pairs, held, admin, made, count, opened, barred>>

(* replace_group_wrapped_keys: all wraps of the group                      *)
ReplaceWrapped(t) ==
    LET new == methods[t].new.wraps IN
    /\ On(t, "rotate", "post")
    /\ relay' = [relay EXCEPT !.wrapped = [x \in Groups \X Users |->
                   IF x[1] # methods[t].id THEN relay.wrapped[x] ELSE IF x[2] \in DOMAIN new THEN new[x[2]] ELSE None]]
    /\ known' = [u \in Users |-> IF u \in DOMAIN new THEN known[u] \cup {new[u].sik} ELSE known[u]]
    /\ Goes(t, "keep", methods[t].new)
    /\ UNCHANGED <<pairs, held, admin, made, count, opened, barred>>

(* ShareGroupStore::replace, the last statement of the method              *)
KeepNewKey(t) ==
    /\ On(t, "rotate", "keep")
    /\ held' = [held EXCEPT ![methods[t].id] = methods[t].new.sik]
    /\ barred' = [barred EXCEPT ![methods[t].id] = @ \cup ({methods[t].to} \ {None})]
    /\ Done(t)
    /\ UNCHANGED <<relay, pairs, admin, made, count, opened, known>>

(* A call of the relay fails, or its answer is lost                        *)
RelayFails(t) ==
    /\ methods[t] # None /\ Done(t)
    /\ UNCHANGED <<relay, pairs, held, admin, made, count, opened, barred, known>>

RelayInit(n) ==
    /\ relay = [inbox |-> {}, payloads |-> [i \in Items |-> None], wrapped |-> [x \in Groups \X Users |-> None]]
    /\ pairs = [u \in Users |-> u]
    /\ held = [g \in Groups |-> 0] /\ admin = [g \in Groups |-> None]
    /\ methods = [t \in Slots |-> None]
    /\ made = 0 /\ count = n /\ opened = {}
    /\ barred = [g \in Groups |-> {}] /\ known = [u \in Users |-> {}]

RelayNext ==
    \/ \E t \in Slots : \/ FetchKey(t) \/ PostShare(t) \/ PostPayload(t) \/ StoreWrapped(t)
                        \/ ReplaceWrapped(t) \/ KeepNewKey(t) \/ RelayFails(t)
    \/ \E t \in Slots, u, r \in Users, i \in Items : CoreShareItem(t, u, i, r)
    \/ \E u \in Users, g \in Groups : CoreCreateGroup(u, g)
    \/ \E t \in Slots, g \in Groups, m \in Users : CoreAddMember(t, g, m)
    \/ \E t \in Slots, g \in Groups, m \in Users \cup {None} : CoreRotate(t, g, m)
    \/ \E u \in Users : CoreAccept(u)
    \/ \E i \in Items : CoreRevoke(i)

-----------------------------------------------------------------------------
(* Properties.                                                             *)

\* The relay hands every entry to everyone; a share is opened by the user it
\* was made for and by nobody else (fetch_inbox, accept_share).
OnlyAddressee == \A x \in opened : x[1] = x[2]

\* Once a removal has returned, the Group SIK with which the admin seals items
\* was never wrapped for the member who left, until that member is added
\* again, whatever additions and rotations were in flight meanwhile
\* (remove_group_member, "forward secrecy").
RemovedLockedOut == \A g \in Groups : \A m \in barred[g] : held[g] \notin known[m]

\* The relay hands what it stores to everyone: shares open for their addressee
\* only and the key of a group for nobody who was removed from it.
OnlyMeantReaders == OnlyAddressee /\ RemovedLockedOut

\* Refuted. A rotation wraps the new key for the members who are left: it is
\* wrapped for the admin alone, and the others lose their wraps.
RemainingWrapped ==
    [][\A g \in Groups, u \in Users :
          relay.wrapped[<<g, u>>] # None /\ relay'.wrapped[<<g, u>>] = None =>
              \E t \in Slots : methods[t] # None /\ methods[t].to = u]_relayVars

\* Refuted. Between methods, the key the admin holds is the one the relay has
\* for the members: two rotations store it in the two places in either order.
HeldIsWrapped ==
    (\A t \in Slots : methods[t] = None) =>
        \A g \in Groups, u \in Users : relay.wrapped[<<g, u>>] # None => relay.wrapped[<<g, u>>].sik = held[g]
=============================================================================
