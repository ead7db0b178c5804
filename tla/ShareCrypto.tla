---------------------------- MODULE ShareCrypto -----------------------------
(***************************************************************************)
(* The envelopes of sharing: an item key (SIK) wrapped for the public half *)
(* of a recipient's key pair and bound to an item or a group, and payloads *)
(* sealed under a SIK. Keys are numbers, 0 is no key; an envelope opens    *)
(* with the pair it was made for and under the identifier it was bound to, *)
(* and with nothing else.                                                  *)
(***************************************************************************)
EXTENDS Naturals

(* share_item of vautr-crypto: the envelope, bound to recipient and id     *)
KemWrap(sik, pk, id) == [sik |-> sik, pk |-> pk, id |-> id]

(* unwrap_shared_item: 0 where it returns TagMismatch                      *)
KemUnwrap(env, kp, id) == IF env.pk = kp /\ env.id = id THEN env.sik ELSE 0

(* encrypt_with_nonce under the associated data of the share or item       *)
Seal(sik, id) == [sik |-> sik, ad |-> id]

(* decrypt_with_ad                                                         *)
Opens(sik, id, payload) == sik # 0 /\ payload.sik = sik /\ payload.ad = id

(* share_item: the share is named after the item, so that the payload's    *)
(* associated data is what the recipient will be told                      *)
ShareItem(sik, item, pk) == [env |-> KemWrap(sik, pk, item), payload |-> Seal(sik, item)]

(* accept_share: the SIK it opens the payload with, or 0                   *)
AcceptShare(kp, item, env, payload) ==
    LET sik == KemUnwrap(env, kp, item) IN IF Opens(sik, item, payload) THEN sik ELSE 0

(* add_group_member: the Group SIK for one more member                     *)
WrapGroupKey(sik, group, pk) == KemWrap(sik, pk, group)

(* unwrap_group_key                                                        *)
UnwrapGroupKey(env, kp, group) == KemUnwrap(env, kp, group)

(* rotate_group_sik: a fresh SIK wrapped for the members given             *)
RotateGroupSik(fresh, group, keys) == [m \in DOMAIN keys |-> WrapGroupKey(fresh, group, keys[m])]

(* Mutant: the key of the group is kept.                                   *)
RemoveGroupMember_Keep(old, fresh, group, gone, keys) ==
    [ok |-> TRUE, sik |-> old, wraps |-> RotateGroupSik(old, group, keys)]

(* remove_group_member: refused when the one removed is among those left   *)
RemoveGroupMember(old, fresh, group, gone, keys) ==
    IF gone \in DOMAIN keys THEN [ok |-> FALSE, sik |-> old, wraps |-> << >>]
    ELSE [ok |-> TRUE, sik |-> fresh, wraps |-> RotateGroupSik(fresh, group, keys)]
=============================================================================
