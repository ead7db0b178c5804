------------------------------ MODULE MCSharing -----------------------------
(* Small instances of Sharing and ShareRelay for TLC: each behaviour makes  *)
(* the calls of one mix.                                                    *)
EXTENDS Sharing

CONSTANTS Mixes, u1

VARIABLES relay, pairs, held, admin, methods, made, count, opened, barred, known
R == INSTANCE ShareRelay

core == <<relay, pairs, held, admin, methods, made, count, opened, barred, known>>
vars == <<shareVars, core>>

\* An item of u1's vault, or a secret u1 has created; users are alike.
Row(secret) == [i \in Items |-> [secret |-> secret, project |-> {}, holders |-> {u1}]]
Mix(ready, k, s, g, o, f) ==
    [ready |-> ready, rows |-> IF s = 0 THEN {Row(None)} ELSE {Row(None), Row(u1)},
     left |-> [keys |-> k, shares |-> s, groups |-> g, owners |-> o, forgets |-> f],
     methods |-> [shares |-> 0, groups |-> 0]]
CoreMix(s, g) == [Mix(TRUE, 0, 0, 0, 0, 0) EXCEPT !.methods = [shares |-> s, groups |-> g]]

\* Shares of items that change hands, groups, keys and shares, the core client.
MCMixes == {Mix(TRUE, 0, 3, 0, 1, 0), Mix(TRUE, 0, 0, 4, 0, 0), Mix(TRUE, 1, 0, 2, 0, 1),
            Mix(FALSE, 2, 1, 0, 0, 1), CoreMix(2, 0), CoreMix(0, 4)}
Shares == {Mix(TRUE, 0, 3, 0, 0, 0)}
KeyCalls == {Mix(FALSE, 2, 0, 0, 0, 0)}
GroupCalls == {Mix(TRUE, 0, 0, 3, 0, 0)}
Core == {CoreMix(0, 4)}

Init == \E m \in Mixes : ShareInit(m) /\ R!RelayInit(m.methods)
Next ==
    \/ ShareNext /\ UNCHANGED core
    \/ R!RelayNext /\ UNCHANGED shareVars
Spec == Init /\ [][Next]_vars

\* What the relay stores opens for those it was meant for (accept_share,
\* remove_group_member).
OnlyMeantReaders == R!OnlyMeantReaders
\* Refuted. A rotation keeps the other members' wraps; the key held is the
\* one on the relay (rotate_group_key).
RemainingWrapped == R!RemainingWrapped
HeldIsWrapped == R!HeldIsWrapped
=============================================================================
