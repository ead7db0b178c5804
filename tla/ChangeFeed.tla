----------------------------- MODULE ChangeFeed -----------------------------
(***************************************************************************)
(* What the server's change feed promises a device, without the seq        *)
(* numbers, cursors and pages that implement it: every device has a queue  *)
(* of its own of the items it has yet to be told about. A write moves the  *)
(* item to the back of every queue; a read takes some items off the front  *)
(* of one queue, at the versions they have then.                           *)
(***************************************************************************)
EXTENDS Naturals

CONSTANTS Items, Devices

VARIABLES latest,   \* the version of each item, 0 before it is created
          older,    \* the items whose last write came before that of an item
          pending,  \* the items each device has yet to be told about
          holds     \* the version of each item a device was last given

vars == <<latest, older, pending, holds>>

Init ==
    /\ latest = [u \in Items |-> 0]
    /\ older = [u \in Items |-> {}]
    /\ pending = [d \in Devices |-> {}]
    /\ holds = [d \in Devices |-> [u \in Items |-> 0]]

Write(u) ==
    /\ latest' = [latest EXCEPT ![u] = @ + 1]
    /\ older' = [w \in Items |-> IF w = u THEN {x \in Items : x # u /\ latest[x] > 0}
                                          ELSE older[w] \ {u}]
    /\ pending' = [d \in Devices |-> pending[d] \cup {u}]
    /\ UNCHANGED holds

Read(d) ==
    \E front \in SUBSET pending[d] :
      /\ \A u \in front : older[u] \cap pending[d] \subseteq front
      /\ pending' = [pending EXCEPT ![d] = @ \ front]
      /\ holds' = [holds EXCEPT ![d] =
                     [u \in Items |-> IF u \in front THEN latest[u] ELSE @[u]]]
      /\ UNCHANGED <<latest, older>>

Next == (\E u \in Items : Write(u)) \/ (\E d \in Devices : Read(d))

Spec == Init /\ [][Next]_vars
=============================================================================
