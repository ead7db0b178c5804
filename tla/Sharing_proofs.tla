--------------------------- MODULE Sharing_proofs ---------------------------
(***************************************************************************)
(* Proofs about Sharing, for any number of users, items, groups, calls in  *)
(* flight, keys, changes of owner and failures.                            *)
(***************************************************************************)
EXTENDS MCSharing, TLAPS

CallNames ==
    {"ensure", "share", "upload", "inbox", "revoke", "create", "add", "remove", "rotate",
     "groups", "post", "items", "drop"}

(* A call without what it carries.                                         *)
Shape(c) ==
    /\ c \in [op : CallNames, at : Nat, by : Users, id : Items \cup Groups \cup {None},
              to : Users \cup Items \cup {None}, box : {c.box}]
    /\ c.at \in 1 .. Len(Steps(c.op))
    /\ c.op \in {"share", "upload", "revoke"} => c.id \in Items
    /\ c.op \in {"create", "add", "remove", "rotate", "post", "drop", "items"} => c.id \in Groups
    /\ c.op \in {"share", "add", "remove"} => c.to \in Users
    /\ c.op \in {"post", "drop"} => c.to \in Items

(* Rows are rows, and calls are at a statement they have.                  *)
Shaped ==
    /\ calls = [s \in Slots |-> calls[s]]
    /\ \A s \in Slots : calls[s] # None => Shape(calls[s])
    /\ shares = [x \in Items \X Users |-> shares[x]]
    /\ \A x \in Items \X Users :
         shares[x] # None => shares[x] = [owner |-> shares[x].owner, env |-> shares[x].env]
    /\ payloads = [i \in Items |-> payloads[i]]
    /\ wraps = [x \in Groups \X Users |-> wraps[x]]
    /\ gitems = [x \in Groups \X Items |-> gitems[x]]
    /\ groups = [g \in Groups |-> groups[g]]
    /\ groupKeys \in [Users -> [Groups -> Nat]]
    /\ siks \in Nat

-----------------------------------------------------------------------------
(* Ownership                                                               *)

(* A call that has passed the check of its share or its payload.           *)
Entitled(c, ever) ==
    (c.op = "share" /\ c.at >= 3) \/ (c.op = "upload" /\ c.at = 2) => c.by \in ever[c.id]

(* Who owns an item has owned it, and who has passed a check has.          *)
OwnInv ==
    /\ owners \in [Items -> OwnerRow] /\ everOwned = [i \in Items |-> everOwned[i]]
    /\ \A i \in Items : item_owner(i) \subseteq everOwned[i]
    /\ SharedByOwner
    /\ \A s \in Slots : calls[s] # None => Entitled(calls[s], everOwned)

-----------------------------------------------------------------------------
(* The SIKs of shares                                                      *)

(* A share whose row is not written, and a revocation not yet answered     *)
Unsent(c) == c.op = "share" /\ c.at \in {2, 3}
Revoking(c) == c.op = "revoke" /\ c.at = 3

(* A SIK is of one row or of one share to come, never of both, and one of  *)
(* a revocation is of neither.                                             *)
SikInv ==
    /\ \A k \in revoked : k \in 1 .. siks
    /\ \A x \in Items \X Users : shares[x] # None =>
         shares[x].env.sik \in 1 .. siks /\ shares[x].env.sik \notin revoked
    /\ \A x, y \in Items \X Users :
         shares[x] # None /\ shares[y] # None /\ shares[x].env.sik = shares[y].env.sik => x = y
    /\ \A s \in Slots : calls[s] # None /\ Unsent(calls[s]) =>
         /\ calls[s].box.env.sik \in 1 .. siks /\ calls[s].box.env.sik \notin revoked
         /\ \A x \in Items \X Users :
              shares[x] # None => shares[x].env.sik # calls[s].box.env.sik
         /\ \A t \in Slots : calls[t] # None /\ Unsent(calls[t]) /\ t # s =>
              calls[t].box.env.sik # calls[s].box.env.sik
    /\ \A s \in Slots : calls[s] # None /\ Revoking(calls[s]) => \A k \in calls[s].box :
         /\ k \in 1 .. siks
         /\ \A x \in Items \X Users : shares[x] # None => shares[x].env.sik # k
         /\ \A t \in Slots : calls[t] # None /\ Unsent(calls[t]) => calls[t].box.env.sik # k

-----------------------------------------------------------------------------
(* The keys of groups                                                      *)

(* A call carries key k of group g.                                        *)
Carries(c, g, k) ==
    /\ c.id = g
    /\ \/ c.op = "create" /\ c.at >= 2 /\ c.box = k
       \/ c.op = "add" /\ c.at = 1 /\ c.box = k
       \/ c.op = "add" /\ c.at >= 2 /\ c.box.sik = k
       \/ c.op = "rotate" /\ \E m \in DOMAIN c.box : c.box[m].sik = k
       \/ c.op = "post" /\ c.box.sik = k

(* Key k of group g is held by a client, wrapped, in use or under way.     *)
Held(g, k, gk, w, gi, cs) ==
    \/ k # 0 /\ \E u \in Users : gk[u][g] = k
    \/ \E u \in Users : w[<<g, u>>] # None /\ w[<<g, u>>].sik = k
    \/ \E i \in Items : gi[<<g, i>>] # None /\ gi[<<g, i>>].sik = k
    \/ \E s \in Slots : cs[s] # None /\ Carries(cs[s], g, k)

(* A group has one key, from the call that creates it; a group that does   *)
(* not exist has none.                                                     *)
GroupInv ==
    /\ \A g \in Groups : \A k, l :
         Held(g, k, groupKeys, wraps, gitems, calls) /\ Held(g, l, groupKeys, wraps, gitems, calls)
           => k = l /\ k \in Nat \ {0}
    /\ \A g \in Groups : groups[g] = None =>
         \A k : ~Held(g, k, groupKeys, wraps, gitems, calls)
    /\ \A s \in Slots : calls[s] # None /\ calls[s].op = "create" =>
         /\ calls[s].box \in Nat \ {0}
         /\ calls[s].at = 1 => groups[calls[s].id] = None
    /\ \A s, t \in Slots : calls[s] # None /\ calls[t] # None /\ calls[s].op = "create"
         /\ calls[t].op = "create" /\ calls[s].id = calls[t].id => s = t
    /\ \A s \in Slots : calls[s] # None /\ calls[s].op = "post" => calls[s].box.ad = calls[s].to
    /\ \A g \in Groups, i \in Items : gitems[<<g, i>>] # None => gitems[<<g, i>>].ad = i

ShareInv == Shaped /\ OwnInv /\ SikInv /\ GroupInv

-----------------------------------------------------------------------------
(* The statements of each call.                                            *)
LEMMA Lengths ==
    /\ Steps("ensure") = <<"publish", "keep">>
    /\ Steps("share") = <<"lookup", "own", "insert", "check", "store">>
    /\ Steps("upload") = <<"check", "store">>
    /\ Steps("inbox") = <<"list", "payload">>
    /\ Steps("revoke") = <<"check", "rows", "blob">>
    /\ Steps("create") = <<"group", "first", "hold">>
    /\ Steps("add") = <<"lookup", "admin", "member", "wrap">>
    /\ Steps("remove") = <<"admin", "leave", "unwrap">>
    /\ Steps("rotate") = <<"admin", "replace">>
    /\ Steps("groups") = <<"list", "open">>
    /\ Steps("post") = <<"admin", "put">>
    /\ Steps("items") = <<"member", "read">>
    /\ Steps("drop") = <<"admin", "delete">>
  BY DEF Steps

(* Every call has a first statement.                                       *)
LEMMA FirstStep == \A op \in CallNames : Len(Steps(op)) \in Nat /\ 1 \in 1 .. Len(Steps(op))
  BY Lengths DEF CallNames

(* Where a call is, by the name of its statement.                          *)
LEMMA ShareAt ==
    ASSUME NEW s, calls[s] # None, Shape(calls[s]), NEW name, At(s, "share", name)
    PROVE  /\ calls[s].at \in 1 .. 5
           /\ name = "lookup" => calls[s].at = 1
           /\ name = "own" => calls[s].at = 2
           /\ name = "insert" => calls[s].at = 3
           /\ name = "check" => calls[s].at = 4
           /\ name = "store" => calls[s].at = 5
<1>1. calls[s].op = "share" /\ Steps("share")[calls[s].at] = name
      /\ calls[s].at \in 1 .. Len(Steps("share"))
  BY DEF At, Shape
<1>2. calls[s].at \in 1 .. 5
  BY <1>1, Lengths
<1> QED BY <1>1, <1>2, Lengths

(* The same for the other calls the invariant speaks of.                   *)
LEMMA OthersAt ==
    ASSUME NEW s, calls[s] # None, Shape(calls[s]), NEW name
    PROVE  /\ At(s, "upload", name) => /\ name = "check" => calls[s].at = 1
                                       /\ name = "store" => calls[s].at = 2
           /\ At(s, "revoke", name) => /\ name = "check" => calls[s].at = 1
                                       /\ name = "rows" => calls[s].at = 2
                                       /\ name = "blob" => calls[s].at = 3
           /\ At(s, "create", name) => /\ name = "group" => calls[s].at = 1
                                       /\ name = "first" => calls[s].at = 2
                                       /\ name = "hold" => calls[s].at = 3
           /\ At(s, "add", name) => /\ name = "lookup" => calls[s].at = 1
                                    /\ name = "admin" => calls[s].at = 2
                                    /\ name = "member" => calls[s].at = 3
                                    /\ name = "wrap" => calls[s].at = 4
<1> DEFINE n == calls[s].at
<1>1. n \in 1 .. Len(Steps(calls[s].op))
  BY DEF Shape
<1>2. ASSUME At(s, "upload", name)
      PROVE  (name = "check" => n = 1) /\ (name = "store" => n = 2)
  <2>1. n \in 1 .. 2 /\ Steps("upload")[n] = name
    BY <1>1, <1>2, Lengths DEF At
  <2> QED BY <2>1, Lengths
<1>3. ASSUME At(s, "revoke", name)
      PROVE  (name = "check" => n = 1) /\ (name = "rows" => n = 2) /\ (name = "blob" => n = 3)
  <2>1. n \in 1 .. 3 /\ Steps("revoke")[n] = name
    BY <1>1, <1>3, Lengths DEF At
  <2> QED BY <2>1, Lengths
<1>4. ASSUME At(s, "create", name)
      PROVE  (name = "group" => n = 1) /\ (name = "first" => n = 2) /\ (name = "hold" => n = 3)
  <2>1. n \in 1 .. 3 /\ Steps("create")[n] = name
    BY <1>1, <1>4, Lengths DEF At
  <2> QED BY <2>1, Lengths
<1>5. ASSUME At(s, "add", name)
      PROVE  (name = "lookup" => n = 1) /\ (name = "admin" => n = 2) /\ (name = "member" => n = 3)
               /\ (name = "wrap" => n = 4)
  <2>1. n \in 1 .. 4 /\ Steps("add")[n] = name
    BY <1>1, <1>5, Lengths DEF At
  <2> QED BY <2>1, Lengths
<1> QED BY <1>2, <1>3, <1>4, <1>5

(* r is the call c at its next statement, carrying box.                    *)
Onto(c, r, box) ==
    /\ Shape(r) /\ r.op = c.op /\ r.at = c.at + 1 /\ r.by = c.by /\ r.id = c.id /\ r.to = c.to
    /\ r.box = box

(* Two fields of a call change.                                            *)
LEMMA NextRecord ==
    ASSUME NEW A, NEW B, NEW I, NEW T, NEW E, NEW c, NEW n \in Nat, NEW x,
           c \in [op : A, at : Nat, by : B, id : I, to : T, box : E]
    PROVE  LET r == [c EXCEPT !.at = n, !.box = x]
           IN /\ r \in [op : A, at : Nat, by : B, id : I, to : T, box : {x}]
              /\ r.op = c.op /\ r.at = n /\ r.by = c.by /\ r.id = c.id /\ r.to = c.to /\ r.box = x
  OBVIOUS

(* A call that goes on is at its next statement, or has returned.          *)
LEMMA OnwardIs ==
    ASSUME NEW s \in Slots, NEW box, calls[s] # None, Shape(calls[s]), Onward(s, box)
    PROVE  \E r : calls' = [calls EXCEPT ![s] = r] /\ (r = None \/ Onto(calls[s], r, box))
<1> DEFINE c == calls[s]
           r == [c EXCEPT !.at = c.at + 1, !.box = box]
<1>1. CASE c.at = Len(Steps(c.op))
  BY <1>1 DEF Onward
<1>2. CASE c.at # Len(Steps(c.op))
  <2>1. calls' = [calls EXCEPT ![s] = r]
    BY <1>2 DEF Onward
  <2>2. Shape(c)
    OBVIOUS
  <2>3. c.op \in CallNames /\ Len(Steps(c.op)) \in Nat
    BY <2>2, FirstStep DEF Shape
  <2>4. c.at + 1 \in 1 .. Len(Steps(c.op))
    BY <1>2, <2>2, <2>3 DEF Shape
  <2> HIDE DEF c
  <2>5. /\ r \in [op : CallNames, at : Nat, by : Users, id : Items \cup Groups \cup {None},
                 to : Users \cup Items \cup {None}, box : {box}]
        /\ r.op = c.op /\ r.at = c.at + 1 /\ r.by = c.by /\ r.id = c.id /\ r.to = c.to
        /\ r.box = box
    <3>1. /\ c \in [op : CallNames, at : Nat, by : Users, id : Items \cup Groups \cup {None},
                    to : Users \cup Items \cup {None}, box : {c.box}]
          /\ c.at + 1 \in Nat
      BY <2>2, <2>4 DEF Shape
    <3> QED BY <3>1, NextRecord
  <2> HIDE DEF r
  <2>8. Shape(r)
    BY <2>2, <2>4, <2>5 DEF Shape
  <2>9. Onto(c, r, box)
    BY <2>5, <2>8 DEF Onto
  <2> QED BY <2>1, <2>9 DEF c
<1> QED BY <1>1, <1>2

(* One that is checked goes on only if the check passes.                   *)
LEMMA CheckedIs ==
    ASSUME NEW s \in Slots, NEW pass, calls[s] # None, Shape(calls[s]), Checked(s, pass)
    PROVE  \E r : /\ calls' = [calls EXCEPT ![s] = r]
                  /\ r = None \/ (pass /\ Onto(calls[s], r, calls[s].box))
<1>1. CASE pass
  <2>1. Onward(s, calls[s].box)
    BY <1>1 DEF Checked
  <2> QED BY <1>1, <2>1, OnwardIs
<1>2. CASE ~pass
  BY <1>2 DEF Checked, Ends
<1> QED BY <1>1, <1>2

(* One call moves to r and the others stay.                                *)
LEMMA OneMoves ==
    ASSUME Shaped, NEW s \in Slots, NEW r, calls' = [calls EXCEPT ![s] = r]
    PROVE  /\ calls' = [t \in Slots |-> calls'[t]] /\ calls'[s] = r
           /\ \A t \in Slots \ {s} : calls'[t] = calls[t]
  BY DEF Shaped

-----------------------------------------------------------------------------
(* Steps that leave a part of the invariant alone                          *)

(* Only the calls move, and r is in shape.                                 *)
LEMMA ShapedCalm ==
    ASSUME Shaped, NEW s \in Slots, NEW r, calls' = [calls EXCEPT ![s] = r],
           r # None => Shape(r), siks' \in Nat,
           UNCHANGED <<shares, payloads, wraps, gitems, groups, groupKeys>>
    PROVE  Shaped'
<1>1. /\ calls' = [t \in Slots |-> calls'[t]] /\ calls'[s] = r
      /\ \A t \in Slots \ {s} : calls'[t] = calls[t]
  BY OneMoves
<1>2. \A t \in Slots : calls'[t] # None => Shape(calls'[t])
  BY <1>1 DEF Shaped
<1> QED BY <1>1, <1>2 DEF Shaped

(* Owners, rows and payloads stay, and no check is passed.                 *)
LEMMA OwnCalm ==
    ASSUME Shaped, OwnInv, NEW s \in Slots, NEW r, calls' = [calls EXCEPT ![s] = r],
           r # None => Entitled(r, everOwned), UNCHANGED <<owners, everOwned, shares, payloads>>
    PROVE  OwnInv'
<1>1. calls'[s] = r /\ \A t \in Slots \ {s} : calls'[t] = calls[t]
  BY OneMoves
<1>2. \A t \in Slots : calls'[t] # None => Entitled(calls'[t], everOwned)
  BY <1>1 DEF OwnInv
<1>3. \A i \in Items : item_owner(i)' = item_owner(i)
  BY DEF item_owner
<1>4. SharedByOwner'
  BY DEF OwnInv, SharedByOwner
<1> QED BY <1>2, <1>3, <1>4 DEF OwnInv

(* A call that is not after a check, or already was.                       *)
LEMMA EntitledStays ==
    ASSUME NEW c, NEW r, NEW box, Onto(c, r, box), Shape(c), NEW ever, Entitled(c, ever),
           c.op = "share" => c.at # 2, c.op # "upload"
    PROVE  Entitled(r, ever)
<1>1. c.at \in Nat
  <2>1. Len(Steps(c.op)) \in Nat
    BY FirstStep DEF Shape
  <2> QED BY <2>1 DEF Shape
<1> QED BY <1>1 DEF Onto, Entitled

(* No SIK of a share is made, sent or revoked.                             *)
LEMMA SikCalm ==
    ASSUME Shaped, SikInv, NEW s \in Slots, NEW r, calls' = [calls EXCEPT ![s] = r],
           siks' \in Nat, siks <= siks', UNCHANGED <<shares, revoked>>,
           r # None => (Unsent(r) => Unsent(calls[s]) /\ calls[s] # None /\ r.box = calls[s].box)
                       /\ ~Revoking(r)
    PROVE  SikInv'
<1>1. calls'[s] = r /\ \A t \in Slots \ {s} : calls'[t] = calls[t]
  BY OneMoves
<1>2. \A k : k \in 1 .. siks => k \in 1 .. siks'
  BY DEF Shaped
<1>3. \A t \in Slots : calls'[t] # None /\ Unsent(calls'[t]) =>
        calls[t] # None /\ Unsent(calls[t]) /\ calls'[t].box = calls[t].box
  BY <1>1
<1>4. \A t \in Slots : calls'[t] # None /\ Revoking(calls'[t]) => calls'[t] = calls[t]
  BY <1>1
<1> QED BY <1>2, <1>3, <1>4 DEF SikInv

(* No new key of a group comes up, and no group.                           *)
LEMMA GroupCalm ==
    ASSUME Shaped, GroupInv, NEW s \in Slots, NEW r, calls' = [calls EXCEPT ![s] = r],
           UNCHANGED groups,
           \A g \in Groups : \A k : Held(g, k, groupKeys', wraps', gitems', calls')
                                      => Held(g, k, groupKeys, wraps, gitems, calls),
           r # None /\ r.op = "create" =>
             calls[s] # None /\ calls[s].op = "create" /\ r.id = calls[s].id
               /\ r.box = calls[s].box /\ (r.at = 1 => calls[s].at = 1),
           r # None /\ r.op = "post" => r.box.ad = r.to,
           \A g \in Groups, i \in Items : gitems'[<<g, i>>] # None => gitems'[<<g, i>>].ad = i
    PROVE  GroupInv'
<1>1. calls'[s] = r /\ \A t \in Slots \ {s} : calls'[t] = calls[t]
  BY OneMoves
<1>2. \A t \in Slots : calls'[t] # None /\ calls'[t].op = "create" =>
        calls[t] # None /\ calls[t].op = "create" /\ calls'[t].id = calls[t].id
          /\ calls'[t].box = calls[t].box /\ (calls'[t].at = 1 => calls[t].at = 1)
  BY <1>1
<1>3. \A t \in Slots : calls'[t] # None /\ calls'[t].op = "create" =>
        /\ calls'[t].box \in Nat \ {0}
        /\ calls'[t].at = 1 => groups'[calls'[t].id] = None
  BY <1>2 DEF GroupInv
<1>4. \A t, v \in Slots : calls'[t] # None /\ calls'[v] # None /\ calls'[t].op = "create"
         /\ calls'[v].op = "create" /\ calls'[t].id = calls'[v].id => t = v
  BY <1>2 DEF GroupInv
<1>5. \A t \in Slots : calls'[t] # None /\ calls'[t].op = "post" => calls'[t].box.ad = calls'[t].to
  BY <1>1 DEF GroupInv
<1>6. \A g \in Groups : \A k, l :
         Held(g, k, groupKeys', wraps', gitems', calls')
           /\ Held(g, l, groupKeys', wraps', gitems', calls') => k = l /\ k \in Nat \ {0}
  BY DEF GroupInv
<1>7. \A g \in Groups : groups'[g] = None =>
         \A k : ~Held(g, k, groupKeys', wraps', gitems', calls')
  BY DEF GroupInv
<1> QED BY <1>3, <1>4, <1>5, <1>6, <1>7 DEF GroupInv

(* A key that is held after a call moved to r was held before, or r        *)
(* carries it.                                                             *)
LEMMA HeldMoves ==
    ASSUME Shaped, NEW s \in Slots, NEW r, calls' = [calls EXCEPT ![s] = r],
           NEW g \in Groups, NEW k, NEW gk, NEW w, NEW gi, Held(g, k, gk, w, gi, calls')
    PROVE  Held(g, k, gk, w, gi, calls) \/ (r # None /\ Carries(r, g, k))
<1>1. calls'[s] = r /\ \A t \in Slots \ {s} : calls'[t] = calls[t]
  BY OneMoves
<1> QED BY <1>1 DEF Held

(* The tables the invariant speaks of.                                     *)
Tables == <<owners, everOwned, shares, payloads, groups, wraps, gitems, groupKeys, revoked>>

(* A step in which one call moves, and needs no more than was there.       *)
LEMMA Quiet ==
    ASSUME ShareInv, NEW s \in Slots, NEW r, calls' = [calls EXCEPT ![s] = r],
           UNCHANGED Tables, siks' \in Nat, siks <= siks',
           r # None => /\ Shape(r) /\ Entitled(r, everOwned) /\ ~Revoking(r)
                       /\ Unsent(r) => /\ calls[s] # None /\ Unsent(calls[s])
                                       /\ r.box = calls[s].box,
           r # None /\ r.op = "create" =>
             calls[s] # None /\ calls[s].op = "create" /\ r.id = calls[s].id
               /\ r.box = calls[s].box /\ (r.at = 1 => calls[s].at = 1),
           r # None /\ r.op = "post" => r.box.ad = r.to,
           \A g \in Groups : \A k :
             r # None /\ Carries(r, g, k) => Held(g, k, groupKeys, wraps, gitems, calls)
    PROVE  ShareInv'
<1>1. Shaped'
  BY ShapedCalm DEF ShareInv, Tables
<1>2. OwnInv'
  BY OwnCalm DEF ShareInv, Tables
<1>3. SikInv'
  BY SikCalm DEF ShareInv, Tables
<1>4. GroupInv'
  <2>1. ASSUME NEW g \in Groups, NEW k, Held(g, k, groupKeys', wraps', gitems', calls')
        PROVE  Held(g, k, groupKeys, wraps, gitems, calls)
    <3>1. Held(g, k, groupKeys, wraps, gitems, calls')
      BY <2>1 DEF Tables
    <3> QED BY <3>1, HeldMoves DEF ShareInv
  <2>2. \A g \in Groups, i \in Items : gitems'[<<g, i>>] # None => gitems'[<<g, i>>].ad = i
    BY DEF ShareInv, GroupInv, Tables
  <2> QED BY <2>1, <2>2, GroupCalm DEF ShareInv, Tables
<1> QED BY <1>1, <1>2, <1>3, <1>4 DEF ShareInv

(* A call that goes on with what it carries.                               *)
LEMMA SameBox ==
    ASSUME ShareInv, NEW s \in Slots, NEW r, calls' = [calls EXCEPT ![s] = r],
           calls[s] # None, r = None \/ Onto(calls[s], r, calls[s].box),
           calls[s].op \in {"create", "add", "share"} => calls[s].at # 1,
           calls[s].op = "revoke" => calls[s].at # 2,
           r # None => Entitled(r, everOwned),
           UNCHANGED <<Tables, siks>>
    PROVE  ShareInv'
<1> DEFINE c == calls[s]
<1>1. Shape(c) /\ c.at \in Nat \ {0} /\ siks \in Nat
  <2>1. Shape(c) /\ siks \in Nat
    BY DEF ShareInv, Shaped
  <2>2. Len(Steps(c.op)) \in Nat
    BY <2>1, FirstStep DEF Shape
  <2> QED BY <2>1, <2>2 DEF Shape
<1>2. CASE r = None
  <2>1. siks' \in Nat /\ siks <= siks'
    BY <1>1
  <2> QED BY <1>2, <2>1, Quiet
<1>3. CASE r # None
  <2>1. Onto(c, r, c.box)
    BY <1>3
  <2>2. /\ Shape(r) /\ r.op = c.op /\ r.at = c.at + 1 /\ r.by = c.by /\ r.id = c.id
        /\ r.to = c.to /\ r.box = c.box
    BY <2>1 DEF Onto
  <2>3. c.op \in {"create", "add", "share"} => c.at >= 2
    BY <1>1
  <2>4. ~Revoking(r) /\ (Unsent(r) => Unsent(c))
    BY <1>1, <2>2, <2>3 DEF Revoking, Unsent
  <2>5. ASSUME NEW g \in Groups, NEW k, Carries(r, g, k) PROVE Held(g, k, groupKeys, wraps, gitems, calls)
    <3>1. Carries(c, g, k)
      BY <1>1, <2>2, <2>3, <2>5 DEF Carries
    <3> QED BY <3>1 DEF Held
  <2>6. r.op = "post" => r.box.ad = r.to
    BY <2>2 DEF ShareInv, GroupInv
  <2>7. r.at # 1
    BY <1>1, <2>2
  <2>8. siks' \in Nat /\ siks <= siks'
    BY <1>1
  <2> QED BY <2>2, <2>4, <2>5, <2>6, <2>7, <2>8, Quiet
<1> QED BY <1>2, <1>3

(* A call the invariant does not speak of, and one that ends.              *)
LEMMA OtherCall ==
    ASSUME ShareInv, NEW s \in Slots, NEW r, calls' = [calls EXCEPT ![s] = r],
           r # None => /\ Shape(r)
                       /\ r.op \notin {"share", "upload", "revoke", "create", "add", "rotate", "post"},
           UNCHANGED <<Tables, siks>>
    PROVE  ShareInv'
<1>1. siks' \in Nat /\ siks <= siks'
  BY DEF ShareInv, Shaped
<1>2. r # None => /\ Entitled(r, everOwned) /\ ~Revoking(r) /\ ~Unsent(r)
                  /\ \A g \in Groups : \A k : ~Carries(r, g, k)
  BY DEF Entitled, Revoking, Unsent, Carries
<1> QED BY <1>1, <1>2, Quiet

(* A call at its last statement returns.                                   *)
LEMMA LastIs ==
    ASSUME ShareInv, NEW s \in Slots, NEW box, calls[s] # None, Onward(s, box),
           \/ calls[s].op \in {"upload", "rotate", "groups", "post", "drop"} /\ calls[s].at = 2
           \/ calls[s].op \in {"create", "revoke", "remove"} /\ calls[s].at = 3
           \/ calls[s].op = "add" /\ calls[s].at = 4
           \/ calls[s].op = "share" /\ calls[s].at = 5
    PROVE  calls' = [calls EXCEPT ![s] = None]
<1>1. \A op \in {"upload", "rotate", "groups", "post", "drop"} : Len(Steps(op)) = 2
  BY Lengths
<1>2. \A op \in {"create", "revoke", "remove"} : Len(Steps(op)) = 3
  BY Lengths
<1>3. Len(Steps("add")) = 4 /\ Len(Steps("share")) = 5
  BY Lengths
<1>4. calls[s].at = Len(Steps(calls[s].op))
  BY <1>1, <1>2, <1>3
<1> QED BY <1>4 DEF Onward

-----------------------------------------------------------------------------
(* Calls begin                                                             *)

(* A call is at its first statement.                                       *)
LEMMA CallIs ==
    ASSUME NEW op \in CallNames, NEW u \in Users, NEW id \in Items \cup Groups \cup {None},
           NEW to \in Users \cup Items \cup {None}, NEW box,
           op \in {"share", "upload", "revoke"} => id \in Items,
           op \in {"create", "add", "remove", "rotate", "post", "drop", "items"} => id \in Groups,
           op \in {"share", "add", "remove"} => to \in Users,
           op \in {"post", "drop"} => to \in Items
    PROVE  LET r == Call(op, u, id, to, box)
           IN /\ Shape(r) /\ r.op = op /\ r.at = 1 /\ r.id = id /\ r.to = to /\ r.box = box
              /\ ~Unsent(r) /\ ~Revoking(r) /\ \A ever : Entitled(r, ever)
<1> DEFINE r == Call(op, u, id, to, box)
<1>1. r.op = op /\ r.at = 1 /\ r.by = u /\ r.id = id /\ r.to = to /\ r.box = box
  BY DEF Call
<1>2. r \in [op : CallNames, at : Nat, by : Users, id : Items \cup Groups \cup {None},
             to : Users \cup Items \cup {None}, box : {box}]
  BY DEF Call
<1> HIDE DEF r
<1>3. Shape(r)
  BY <1>1, <1>2, FirstStep DEF Shape
<1>4. ~Unsent(r) /\ ~Revoking(r)
  BY <1>1 DEF Unsent, Revoking
<1>5. \A ever : Entitled(r, ever)
  BY <1>1 DEF Entitled
<1> QED BY <1>1, <1>3, <1>4, <1>5 DEF r

(* A call that begins with a key of a group that is held, or with none.    *)
LEMMA Begins ==
    ASSUME ShareInv, NEW s \in Slots, NEW op \in CallNames, NEW u \in Users,
           NEW id \in Items \cup Groups \cup {None}, NEW to \in Users \cup Items \cup {None}, NEW box,
           op \in {"share", "upload", "revoke"} => id \in Items,
           op \in {"create", "add", "remove", "rotate", "post", "drop", "items"} => id \in Groups,
           op \in {"share", "add", "remove"} => to \in Users,
           op \in {"post", "drop"} => to \in Items,
           op # "create", op = "post" => box.ad = to,
           op \in {"add", "rotate", "post"} => \A k :
             (\/ op = "add" /\ box = k
              \/ op = "rotate" /\ \E m \in DOMAIN box : box[m].sik = k
              \/ op = "post" /\ box.sik = k) => Held(id, k, groupKeys, wraps, gitems, calls),
           Begin(s, Call(op, u, id, to, box)), siks' \in Nat, siks <= siks'
    PROVE  ShareInv'
<1> DEFINE r == Call(op, u, id, to, box)
<1>1. /\ Shape(r) /\ r.op = op /\ r.at = 1 /\ r.id = id /\ r.to = to /\ r.box = box
      /\ ~Unsent(r) /\ ~Revoking(r) /\ \A ever : Entitled(r, ever)
  BY CallIs
<1>2. calls' = [calls EXCEPT ![s] = r] /\ UNCHANGED Tables
  BY DEF Begin, server, client, history, Tables
<1> HIDE DEF r
<1>3. ASSUME NEW g \in Groups, NEW k, Carries(r, g, k)
      PROVE  Held(g, k, groupKeys, wraps, gitems, calls)
  BY <1>1, <1>3 DEF Carries
<1>4. Entitled(r, everOwned)
  BY <1>1
<1> QED BY <1>1, <1>2, <1>3, <1>4, Quiet

(* A client's key of a group is held.                                      *)
LEMMA KeyHeld ==
    ASSUME NEW u \in Users, NEW g \in Groups, groupKeys[u][g] # 0
    PROVE  Held(g, groupKeys[u][g], groupKeys, wraps, gitems, calls)
  BY DEF Held

(* The calls that carry no key of a group.                                 *)
LEMMA PlainCallsBegin ==
    ASSUME ShareInv, NEW s \in Slots, NEW u \in Users
    PROVE  /\ EnsureSharingKey(s, u) => ShareInv'
           /\ \A i \in Items, m \in Users : WebShareItem(s, u, i, m) => ShareInv'
           /\ \A i \in Items : WebUpload(s, u, i) => ShareInv'
           /\ WebInbox(s, u) => ShareInv'
           /\ \A i \in Items : WebRevoke(s, u, i) => ShareInv'
           /\ \A g \in Groups, m \in Users : WebRemoveMember(s, u, g, m) => ShareInv'
           /\ WebGroupInbox(s, u) => ShareInv'
           /\ \A g \in Groups : WebGroupItems(s, u, g) => ShareInv'
           /\ \A g \in Groups, i \in Items : WebDropItem(s, u, g, i) => ShareInv'
<1>1. siks \in Nat
  BY DEF ShareInv, Shaped
<1>2. /\ UNCHANGED siks => siks' \in Nat /\ siks <= siks'
      /\ siks' = siks + 1 => siks' \in Nat /\ siks <= siks'
  BY <1>1
<1>3. ASSUME EnsureSharingKey(s, u) PROVE ShareInv'
  <2>1. siks' \in Nat /\ siks <= siks' /\ Begin(s, Call("ensure", u, None, None, keys + 1))
    BY <1>2, <1>3 DEF EnsureSharingKey
  <2> QED BY <2>1, Begins DEF CallNames
<1>4. ASSUME NEW i \in Items, NEW m \in Users, WebShareItem(s, u, i, m) PROVE ShareInv'
  <2>1. siks' \in Nat /\ siks <= siks' /\ Begin(s, Call("share", u, i, m, None))
    BY <1>2, <1>4 DEF WebShareItem, Idle
  <2> QED BY <2>1, Begins DEF CallNames
<1>5. ASSUME NEW i \in Items, WebUpload(s, u, i) PROVE ShareInv'
  <2>1. siks' \in Nat /\ siks <= siks' /\ Begin(s, Call("upload", u, i, None, ShareItem(siks + 1, i, 0)))
    BY <1>2, <1>5 DEF WebUpload
  <2> QED BY <2>1, Begins DEF CallNames
<1>6. ASSUME WebInbox(s, u) PROVE ShareInv'
  <2>1. siks' \in Nat /\ siks <= siks' /\ Begin(s, Call("inbox", u, None, None, None))
    BY <1>2, <1>6 DEF WebInbox, Idle
  <2> QED BY <2>1, Begins DEF CallNames
<1>7. ASSUME NEW i \in Items, WebRevoke(s, u, i) PROVE ShareInv'
  <2>1. siks' \in Nat /\ siks <= siks' /\ Begin(s, Call("revoke", u, i, None, {}))
    BY <1>2, <1>7 DEF WebRevoke, Idle
  <2> QED BY <2>1, Begins DEF CallNames
<1>8. ASSUME NEW g \in Groups, NEW m \in Users, WebRemoveMember(s, u, g, m) PROVE ShareInv'
  <2>1. siks' \in Nat /\ siks <= siks' /\ Begin(s, Call("remove", u, g, m, None))
    BY <1>2, <1>8 DEF WebRemoveMember, Idle
  <2> QED BY <2>1, Begins DEF CallNames
<1>9. ASSUME WebGroupInbox(s, u) PROVE ShareInv'
  <2>1. siks' \in Nat /\ siks <= siks' /\ Begin(s, Call("groups", u, None, None, {}))
    BY <1>2, <1>9 DEF WebGroupInbox, Idle
  <2> QED BY <2>1, Begins DEF CallNames
<1>10. ASSUME NEW g \in Groups, WebGroupItems(s, u, g) PROVE ShareInv'
  <2>1. siks' \in Nat /\ siks <= siks' /\ Begin(s, Call("items", u, g, None, None))
    BY <1>2, <1>10 DEF WebGroupItems, Idle
  <2> QED BY <2>1, Begins DEF CallNames
<1>11. ASSUME NEW g \in Groups, NEW i \in Items, WebDropItem(s, u, g, i) PROVE ShareInv'
  <2>1. siks' \in Nat /\ siks <= siks' /\ Begin(s, Call("drop", u, g, i, None))
    BY <1>2, <1>11 DEF WebDropItem, Idle
  <2> QED BY <2>1, Begins DEF CallNames
<1> QED BY <1>3, <1>4, <1>5, <1>6, <1>7, <1>8, <1>9, <1>10, <1>11

(* The calls that carry the key the client holds.                          *)
LEMMA KeyedCallsBegin ==
    ASSUME ShareInv, NEW s \in Slots, NEW u \in Users, NEW g \in Groups
    PROVE  /\ \A m \in Users : WebAddMember(s, u, g, m) => ShareInv'
           /\ \A M \in SUBSET Users : WebRotateGroup(s, u, g, M) => ShareInv'
           /\ \A i \in Items : WebShareToGroup(s, u, g, i) => ShareInv'
<1>1. siks \in Nat
  BY DEF ShareInv, Shaped
<1>2. UNCHANGED siks => siks' \in Nat /\ siks <= siks'
  BY <1>1
<1>3. ASSUME NEW m \in Users, WebAddMember(s, u, g, m) PROVE ShareInv'
  <2>1. siks' \in Nat /\ siks <= siks' /\ Begin(s, Call("add", u, g, m, groupKeys[u][g]))
    BY <1>2, <1>3 DEF WebAddMember, Idle
  <2>2. Held(g, groupKeys[u][g], groupKeys, wraps, gitems, calls)
    BY <1>3, KeyHeld DEF WebAddMember
  <2> QED BY <2>1, <2>2, Begins DEF CallNames
<1>4. ASSUME NEW M \in SUBSET Users, WebRotateGroup(s, u, g, M) PROVE ShareInv'
  <2> DEFINE box == [n \in M |-> WrapGroupKey(RotatedKey(u, g), g, directory[n])]
  <2>1. siks' \in Nat /\ siks <= siks' /\ Begin(s, Call("rotate", u, g, None, box))
    BY <1>2, <1>4 DEF WebRotateGroup, Idle
  <2>2. Held(g, groupKeys[u][g], groupKeys, wraps, gitems, calls)
    BY <1>4, KeyHeld DEF WebRotateGroup
  <2>3. \A n \in DOMAIN box : box[n].sik = groupKeys[u][g]
    BY DEF WrapGroupKey, KemWrap, RotatedKey
  <2> HIDE DEF box
  <2> QED BY <2>1, <2>2, <2>3, Begins DEF CallNames
<1>5. ASSUME NEW i \in Items, WebShareToGroup(s, u, g, i) PROVE ShareInv'
  <2> DEFINE box == Seal(groupKeys[u][g], i)
  <2>1. siks' \in Nat /\ siks <= siks' /\ Begin(s, Call("post", u, g, i, box))
    BY <1>2, <1>5 DEF WebShareToGroup, Idle
  <2>2. Held(g, groupKeys[u][g], groupKeys, wraps, gitems, calls)
    BY <1>5, KeyHeld DEF WebShareToGroup
  <2>3. box.ad = i /\ box.sik = groupKeys[u][g]
    BY DEF Seal
  <2> HIDE DEF box
  <2> QED BY <2>1, <2>2, <2>3, Begins DEF CallNames
<1> QED BY <1>3, <1>4, <1>5

(* A group to come has a fresh identifier, and no other call is about it.  *)
LEMMA CreateBegins ==
    ASSUME ShareInv, NEW s \in Slots, NEW u \in Users, NEW g \in Groups, WebCreateGroup(s, u, g)
    PROVE  ShareInv'
<1> DEFINE r == Call("create", u, g, None, siks + 1)
<1>1. /\ Shape(r) /\ r.op = "create" /\ r.at = 1 /\ r.id = g /\ r.box = siks + 1
      /\ ~Unsent(r) /\ ~Revoking(r) /\ Entitled(r, everOwned)
  BY CallIs DEF CallNames
<1>2. calls' = [calls EXCEPT ![s] = r] /\ UNCHANGED Tables
  BY DEF WebCreateGroup, Begin, server, client, history, Tables
<1>3. siks \in Nat /\ siks' = siks + 1 /\ siks' \in Nat /\ siks <= siks' /\ siks + 1 \in Nat \ {0}
  BY DEF ShareInv, Shaped, WebCreateGroup
<1> HIDE DEF r
<1>4. Shaped'
  BY <1>1, <1>2, <1>3, ShapedCalm DEF ShareInv, Tables
<1>5. OwnInv'
  BY <1>1, <1>2, OwnCalm DEF ShareInv, Tables
<1>6. SikInv'
  BY <1>1, <1>2, <1>3, SikCalm DEF ShareInv, Tables
<1>7. calls'[s] = r /\ \A t \in Slots \ {s} : calls'[t] = calls[t]
  BY <1>2, OneMoves DEF ShareInv
<1>8. \A h \in Groups : \A k : Held(h, k, groupKeys', wraps', gitems', calls')
                                 => Held(h, k, groupKeys, wraps, gitems, calls)
  <2>1. ASSUME NEW h \in Groups, NEW k, Held(h, k, groupKeys', wraps', gitems', calls')
        PROVE  Held(h, k, groupKeys, wraps, gitems, calls)
    <3>1. Held(h, k, groupKeys, wraps, gitems, calls')
      BY <1>2, <2>1 DEF Tables
    <3>2. ~Carries(r, h, k)
      BY <1>1 DEF Carries
    <3> QED BY <1>2, <3>1, <3>2, HeldMoves DEF ShareInv
  <2> QED BY <2>1
<1>9. groups[g] = None /\ calls[s] = None /\ \A t \in Slots : calls[t] # None => calls[t].id # g
  BY DEF WebCreateGroup, Begin
<1>10. GroupInv'
  <2>1. groups' = groups /\ gitems' = gitems
    BY <1>2 DEF Tables
  <2>2. \A t \in Slots : calls'[t] # None /\ calls'[t].op = "create" =>
         /\ calls'[t].box \in Nat \ {0}
         /\ calls'[t].at = 1 => groups'[calls'[t].id] = None
    BY <1>1, <1>3, <1>7, <1>9, <2>1 DEF ShareInv, GroupInv
  <2>3. \A t, v \in Slots : calls'[t] # None /\ calls'[v] # None /\ calls'[t].op = "create"
         /\ calls'[v].op = "create" /\ calls'[t].id = calls'[v].id => t = v
    BY <1>1, <1>7, <1>9 DEF ShareInv, GroupInv
  <2>4. \A t \in Slots : calls'[t] # None /\ calls'[t].op = "post" => calls'[t].box.ad = calls'[t].to
    BY <1>1, <1>7 DEF ShareInv, GroupInv
  <2>5. \A h \in Groups : \A k, l :
         Held(h, k, groupKeys', wraps', gitems', calls')
           /\ Held(h, l, groupKeys', wraps', gitems', calls') => k = l /\ k \in Nat \ {0}
    BY <1>8 DEF ShareInv, GroupInv
  <2>6. \A h \in Groups : groups'[h] = None =>
         \A k : ~Held(h, k, groupKeys', wraps', gitems', calls')
    BY <1>8, <2>1 DEF ShareInv, GroupInv
  <2>7. \A h \in Groups, i \in Items : gitems'[<<h, i>>] # None => gitems'[<<h, i>>].ad = i
    BY <2>1 DEF ShareInv, GroupInv
  <2> QED BY <2>2, <2>3, <2>4, <2>5, <2>6, <2>7 DEF GroupInv
<1> QED BY <1>4, <1>5, <1>6, <1>10 DEF ShareInv

-----------------------------------------------------------------------------
(* Statements that change nothing the invariant speaks of                  *)

(* A call at a statement has the form of a call.                           *)
LEMMA AtShape ==
    ASSUME ShareInv, NEW s \in Slots, NEW op, NEW name, At(s, op, name)
    PROVE  calls[s] # None /\ Shape(calls[s]) /\ calls[s].op = op
  BY DEF At, ShareInv, Shaped

(* A call that carries neither a SIK nor a key of a group goes on.         *)
LEMMA ElsewhereOnward ==
    ASSUME ShareInv, NEW s \in Slots, calls[s] # None, NEW box, Onward(s, box),
           calls[s].op \in {"ensure", "inbox", "groups", "items", "remove", "drop"},
           UNCHANGED <<Tables, siks>>
    PROVE  ShareInv'
<1>1. Shape(calls[s])
  BY DEF ShareInv, Shaped
<1>2. PICK r : calls' = [calls EXCEPT ![s] = r] /\ (r = None \/ Onto(calls[s], r, box))
  BY <1>1, OnwardIs
<1>3. r # None => Shape(r) /\ r.op = calls[s].op
  BY <1>2 DEF Onto
<1> QED BY <1>2, <1>3, OtherCall

(* The statements of such calls.                                           *)
LEMMA ElsewhereSteps ==
    ASSUME ShareInv, NEW s \in Slots
    PROVE  /\ Publish(s) => ShareInv'
           /\ KeepKey(s) => ShareInv'
           /\ ListInbox(s) => ShareInv'
           /\ ListPayloads(s) => ShareInv'
           /\ ListGroups(s) => ShareInv'
           /\ DeleteMember(s) => ShareInv'
           /\ ReadItems(s) => ShareInv'
           /\ MemberCheck(s) => ShareInv'
<1>1. ASSUME Publish(s) PROVE ShareInv'
  <2>1. At(s, "ensure", "publish") /\ Onward(s, calls[s].box) /\ UNCHANGED <<Tables, siks>>
    BY <1>1 DEF Publish, Rest, Tables, client
  <2> QED BY <2>1, AtShape, ElsewhereOnward
<1>2. ASSUME KeepKey(s) PROVE ShareInv'
  <2>1. At(s, "ensure", "keep") /\ Onward(s, None) /\ UNCHANGED <<Tables, siks>>
    BY <1>2 DEF KeepKey, Rest, Tables
  <2> QED BY <2>1, AtShape, ElsewhereOnward
<1>3. ASSUME ListInbox(s) PROVE ShareInv'
  <2>1. /\ At(s, "inbox", "list") /\ UNCHANGED <<Tables, siks>>
        /\ Onward(s, [i \in get_inbox(calls[s].by) |-> shares[<<i, calls[s].by>>].env])
    BY <1>3 DEF ListInbox, Rest, Tables, client
  <2> QED BY <2>1, AtShape, ElsewhereOnward
<1>4. ASSUME ListPayloads(s) PROVE ShareInv'
  <2>1. At(s, "inbox", "payload") /\ Onward(s, None) /\ UNCHANGED <<Tables, siks>>
    BY <1>4 DEF ListPayloads, Rest, Tables, client
  <2> QED BY <2>1, AtShape, ElsewhereOnward
<1>5. ASSUME ListGroups(s) PROVE ShareInv'
  <2>1. /\ At(s, "groups", "list") /\ Onward(s, list_groups_for_member(calls[s].by))
        /\ UNCHANGED <<Tables, siks>>
    BY <1>5 DEF ListGroups, Rest, Tables, client
  <2> QED BY <2>1, AtShape, ElsewhereOnward
<1>6. ASSUME DeleteMember(s) PROVE ShareInv'
  <2>1. At(s, "remove", "leave") /\ Onward(s, calls[s].box) /\ UNCHANGED <<Tables, siks>>
    BY <1>6 DEF DeleteMember, Rest, Tables, client
  <2> QED BY <2>1, AtShape, ElsewhereOnward
<1>7. ASSUME ReadItems(s) PROVE ShareInv'
  <2>1. At(s, "items", "read") /\ Onward(s, None) /\ UNCHANGED <<Tables, siks>>
    BY <1>7 DEF ReadItems, Rest, Tables, client
  <2> QED BY <2>1, AtShape, ElsewhereOnward
<1>8. ASSUME MemberCheck(s) PROVE ShareInv'
  <2>1. /\ At(s, "items", "member") /\ Checked(s, is_group_member(calls[s].id, calls[s].by))
        /\ UNCHANGED <<Tables, siks>>
    BY <1>8 DEF MemberCheck, Rest, Tables, client
  <2>2. calls[s] # None /\ Shape(calls[s]) /\ calls[s].op = "items"
    BY <2>1, AtShape
  <2>3. PICK r : /\ calls' = [calls EXCEPT ![s] = r]
                 /\ r = None \/ Onto(calls[s], r, calls[s].box)
    BY <2>1, <2>2, CheckedIs
  <2>4. r # None => Shape(r) /\ r.op = "items"
    BY <2>2, <2>3 DEF Onto
  <2> QED BY <2>1, <2>3, <2>4, OtherCall
<1> QED BY <1>1, <1>2, <1>3, <1>4, <1>5, <1>6, <1>7, <1>8

(* A call fails.                                                           *)
LEMMA FailsKeeps ==
    ASSUME ShareInv, NEW s \in Slots, Fails(s)
    PROVE  ShareInv'
<1>1. calls' = [calls EXCEPT ![s] = None] /\ UNCHANGED <<Tables, siks>>
  BY DEF Fails, Ends, server, client, history, Tables
<1> QED BY <1>1, OtherCall

(* The checks, and the rows of members.                                    *)
LEMMA ChecksKeep ==
    ASSUME ShareInv, NEW s \in Slots
    PROVE  /\ AdminCheck(s) => ShareInv'
           /\ InsertAdmin(s) => ShareInv'
           /\ InsertMember(s) => ShareInv'
           /\ OwnCheck(s) => ShareInv'
           /\ ShareOwnerCheck(s) => ShareInv'
<1>1. ASSUME AdminCheck(s) PROVE ShareInv'
  <2>1. PICK op \in {"add", "remove", "rotate", "post", "drop"} : At(s, op, "admin")
    BY <1>1 DEF AdminCheck
  <2>2. Checked(s, require_admin(calls[s].id, calls[s].by)) /\ UNCHANGED <<Tables, siks>>
    BY <1>1 DEF AdminCheck, Rest, Tables, client
  <2>3. calls[s] # None /\ Shape(calls[s]) /\ calls[s].op = op
    BY <2>1, AtShape
  <2>4. PICK r : /\ calls' = [calls EXCEPT ![s] = r]
                 /\ r = None \/ Onto(calls[s], r, calls[s].box)
    BY <2>2, <2>3, CheckedIs
  <2>5. calls[s].op = "add" => calls[s].at # 1
    <3>1. ASSUME calls[s].op = "add" PROVE calls[s].at = 2
      <4>1. At(s, "add", "admin")
        BY <2>1, <2>3, <3>1
      <4> QED BY <2>3, <4>1, OthersAt
    <3> QED BY <3>1
  <2>6. r # None => Entitled(r, everOwned)
    BY <2>1, <2>3, <2>4 DEF Entitled, Onto
  <2> QED BY <2>1, <2>2, <2>3, <2>4, <2>5, <2>6, SameBox
<1>2. ASSUME InsertAdmin(s) PROVE ShareInv'
  <2>1. At(s, "create", "first") /\ Onward(s, calls[s].box) /\ UNCHANGED <<Tables, siks>>
    BY <1>2 DEF InsertAdmin, Rest, Tables, client
  <2>2. calls[s] # None /\ Shape(calls[s]) /\ calls[s].op = "create"
    BY <2>1, AtShape
  <2>3. calls[s].at = 2
    BY <2>1, <2>2, OthersAt
  <2>4. PICK r : /\ calls' = [calls EXCEPT ![s] = r]
                 /\ r = None \/ Onto(calls[s], r, calls[s].box)
    BY <2>1, <2>2, OnwardIs
  <2>5. r # None => Entitled(r, everOwned)
    BY <2>2, <2>4 DEF Entitled, Onto
  <2>6. calls[s].op # "revoke" /\ calls[s].at # 1
    BY <2>2, <2>3
  <2> QED BY <2>1, <2>2, <2>4, <2>5, <2>6, SameBox
<1>3. ASSUME InsertMember(s) PROVE ShareInv'
  <2>1. At(s, "add", "member") /\ Onward(s, calls[s].box) /\ UNCHANGED <<Tables, siks>>
    BY <1>3 DEF InsertMember, Rest, Tables, client
  <2>2. calls[s] # None /\ Shape(calls[s]) /\ calls[s].op = "add"
    BY <2>1, AtShape
  <2>3. calls[s].at = 3
    BY <2>1, <2>2, OthersAt
  <2>4. PICK r : /\ calls' = [calls EXCEPT ![s] = r]
                 /\ r = None \/ Onto(calls[s], r, calls[s].box)
    BY <2>1, <2>2, OnwardIs
  <2>5. r # None => Entitled(r, everOwned)
    BY <2>2, <2>4 DEF Entitled, Onto
  <2>6. calls[s].op # "revoke" /\ calls[s].at # 1
    BY <2>2, <2>3
  <2> QED BY <2>1, <2>2, <2>4, <2>5, <2>6, SameBox
<1>4. ASSUME OwnCheck(s) PROVE ShareInv'
  <2>1. At(s, "share", "own") /\ UNCHANGED <<Tables, siks>>
    BY <1>4 DEF OwnCheck, Rest, Tables, client
  <2>2. PICK ok \in MayShare(calls[s].id, calls[s].by) : Checked(s, ok)
    BY <1>4 DEF OwnCheck
  <2>3. calls[s] # None /\ Shape(calls[s]) /\ calls[s].op = "share" /\ calls[s].id \in Items
    BY <2>1, AtShape DEF Shape
  <2>4. calls[s].at = 2
    BY <2>1, <2>3, ShareAt
  <2>5. PICK r : /\ calls' = [calls EXCEPT ![s] = r]
                 /\ r = None \/ (ok /\ Onto(calls[s], r, calls[s].box))
    BY <2>2, <2>3, CheckedIs
  <2>6. ok => calls[s].by \in everOwned[calls[s].id]
    <3>1. ASSUME ok PROVE calls[s].by \in item_owner(calls[s].id)
      BY <2>2, <3>1 DEF MayShare
    <3> QED BY <2>3, <3>1 DEF ShareInv, OwnInv
  <2>7. r # None => Entitled(r, everOwned)
    BY <2>5, <2>6 DEF Entitled, Onto
  <2>8. calls[s].op # "revoke" /\ calls[s].at # 1
    BY <2>3, <2>4
  <2> QED BY <2>1, <2>3, <2>5, <2>7, <2>8, SameBox
<1>5. ASSUME ShareOwnerCheck(s) PROVE ShareInv'
  <2>1. PICK op \in {"share", "upload", "revoke"} : At(s, op, "check")
    BY <1>5 DEF ShareOwnerCheck
  <2>2. Checked(s, is_share_owner(calls[s].id, calls[s].by)) /\ UNCHANGED <<Tables, siks>>
    BY <1>5 DEF ShareOwnerCheck, Rest, Tables, client
  <2>3. calls[s] # None /\ Shape(calls[s]) /\ calls[s].op = op /\ calls[s].id \in Items
    BY <2>1, AtShape DEF Shape
  <2>4. PICK r : /\ calls' = [calls EXCEPT ![s] = r]
                 /\ r = None \/ (is_share_owner(calls[s].id, calls[s].by) /\ Onto(calls[s], r, calls[s].box))
    BY <2>2, <2>3, CheckedIs
  <2>5. is_share_owner(calls[s].id, calls[s].by) => calls[s].by \in everOwned[calls[s].id]
    BY <2>3 DEF is_share_owner, ShareInv, OwnInv, SharedByOwner
  <2>6. r # None => Entitled(r, everOwned)
    BY <2>4, <2>5 DEF Entitled, Onto
  <2>7. calls[s].op = "share" => calls[s].at = 4
    <3>1. ASSUME calls[s].op = "share" PROVE At(s, "share", "check")
      BY <2>1, <2>3, <3>1
    <3> QED BY <2>3, <3>1, ShareAt
  <2>8. calls[s].op = "revoke" => calls[s].at = 1
    <3>1. ASSUME calls[s].op = "revoke" PROVE At(s, "revoke", "check")
      BY <2>1, <2>3, <3>1
    <3> QED BY <2>3, <3>1, OthersAt
  <2>9. /\ calls[s].op \in {"create", "add", "share"} => calls[s].at # 1
        /\ calls[s].op = "revoke" => calls[s].at # 2
    BY <2>1, <2>3, <2>7, <2>8
  <2> QED BY <2>2, <2>3, <2>4, <2>6, <2>9, SameBox
<1> QED BY <1>1, <1>2, <1>3, <1>4, <1>5

-----------------------------------------------------------------------------
(* Payloads                                                                *)

(* The tables change and keep their form.                                  *)
LEMMA ShapedTables ==
    ASSUME Shaped, NEW s \in Slots, NEW r, calls' = [calls EXCEPT ![s] = r],
           r # None => Shape(r), siks' \in Nat, UNCHANGED <<shares, groups>>,
           payloads' = [i \in Items |-> payloads'[i]],
           wraps' = [x \in Groups \X Users |-> wraps'[x]],
           gitems' = [x \in Groups \X Items |-> gitems'[x]],
           groupKeys' \in [Users -> [Groups -> Nat]]
    PROVE  Shaped'
<1>1. /\ calls' = [t \in Slots |-> calls'[t]] /\ calls'[s] = r
      /\ \A t \in Slots \ {s} : calls'[t] = calls[t]
  BY OneMoves
<1>2. \A t \in Slots : calls'[t] # None => Shape(calls'[t])
  BY <1>1 DEF Shaped
<1> QED BY <1>1, <1>2 DEF Shaped

(* A call that ends leaves no key of a group behind.                       *)
LEMMA GroupEnds ==
    ASSUME ShareInv, NEW s \in Slots, calls' = [calls EXCEPT ![s] = None],
           UNCHANGED <<groups, wraps, gitems, groupKeys>>
    PROVE  GroupInv'
<1>1. ASSUME NEW g \in Groups, NEW k, Held(g, k, groupKeys', wraps', gitems', calls')
      PROVE  Held(g, k, groupKeys, wraps, gitems, calls)
  <2>1. Held(g, k, groupKeys, wraps, gitems, calls')
    BY <1>1
  <2> QED BY <2>1, HeldMoves DEF ShareInv
<1>2. \A g \in Groups, i \in Items : gitems'[<<g, i>>] # None => gitems'[<<g, i>>].ad = i
  BY DEF ShareInv, GroupInv
<1> QED BY <1>1, <1>2, GroupCalm DEF ShareInv

(* upload_payload: who stores one has passed a check.                      *)
LEMMA StoreKeeps ==
    ASSUME ShareInv, NEW s \in Slots, StorePayload(s)
    PROVE  ShareInv'
<1> DEFINE c == calls[s]
<1>1. PICK op \in {"share", "upload"} : At(s, op, "store")
  BY DEF StorePayload
<1>2. c # None /\ Shape(c) /\ c.op = op /\ c.id \in Items
  BY <1>1, AtShape DEF Shape
<1>3. (c.op = "share" /\ c.at = 5) \/ (c.op = "upload" /\ c.at = 2)
  <2>1. CASE op = "share"
    <3>1. At(s, "share", "store")
      BY <1>1, <2>1
    <3> QED BY <1>2, <2>1, <3>1, ShareAt
  <2>2. CASE op = "upload"
    <3>1. At(s, "upload", "store")
      BY <1>1, <2>2
    <3> QED BY <1>2, <2>2, <3>1, OthersAt
  <2> QED BY <2>1, <2>2
<1>4. Onward(s, None)
  BY DEF StorePayload
<1>5. calls' = [calls EXCEPT ![s] = None]
  BY <1>2, <1>3, <1>4, LastIs
<1>6. /\ payloads' = [payloads EXCEPT ![c.id] = [dem |-> c.box.payload, by |-> c.by]]
      /\ UNCHANGED <<owners, everOwned, shares, groups, wraps, gitems, groupKeys, revoked, siks>>
  BY DEF StorePayload, store_share_payload, Rest, client
<1>7. c.by \in everOwned[c.id]
  <2>1. Entitled(c, everOwned)
    BY <1>2 DEF ShareInv, OwnInv
  <2> QED BY <1>3, <2>1 DEF Entitled
<1>8. siks' \in Nat /\ siks <= siks'
  BY <1>6 DEF ShareInv, Shaped
<1> HIDE DEF c
<1>9. Shaped'
  <2>1. payloads' = [i \in Items |-> payloads'[i]]
    BY <1>6 DEF ShareInv, Shaped
  <2>2. /\ wraps' = [x \in Groups \X Users |-> wraps'[x]]
        /\ gitems' = [x \in Groups \X Items |-> gitems'[x]]
        /\ groupKeys' \in [Users -> [Groups -> Nat]]
    BY <1>6 DEF ShareInv, Shaped
  <2> QED BY <1>5, <1>6, <1>8, <2>1, <2>2, ShapedTables DEF ShareInv
<1>10. OwnInv'
  <2>1. calls'[s] = None /\ \A t \in Slots \ {s} : calls'[t] = calls[t]
    BY <1>5, OneMoves DEF ShareInv
  <2>2. \A t \in Slots : calls'[t] # None => Entitled(calls'[t], everOwned)
    BY <2>1 DEF ShareInv, OwnInv
  <2>3. \A i \in Items : item_owner(i)' = item_owner(i)
    BY <1>6 DEF item_owner
  <2>4. \A i \in Items : payloads'[i] # None => payloads'[i].by \in everOwned[i]
    BY <1>6, <1>7 DEF ShareInv, Shaped, OwnInv, SharedByOwner
  <2>5. SharedByOwner'
    BY <1>6, <2>4 DEF ShareInv, OwnInv, SharedByOwner
  <2> QED BY <1>6, <2>2, <2>3, <2>5 DEF ShareInv, OwnInv
<1>11. SikInv'
  BY <1>5, <1>6, <1>8, SikCalm DEF ShareInv
<1>12. GroupInv'
  BY <1>5, <1>6, GroupEnds
<1> QED BY <1>9, <1>10, <1>11, <1>12 DEF ShareInv

(* revoke_share: the SIKs it answers for are of no row and of no share to  *)
(* come.                                                                   *)
LEMMA RevokeKeeps ==
    ASSUME ShareInv, NEW s \in Slots, RevokePayload(s)
    PROVE  ShareInv'
<1> DEFINE c == calls[s]
<1>1. At(s, "revoke", "blob") /\ Onward(s, None)
  BY DEF RevokePayload
<1>2. c # None /\ Shape(c) /\ c.op = "revoke" /\ c.id \in Items
  BY <1>1, AtShape DEF Shape
<1>3. c.at = 3
  BY <1>1, <1>2, OthersAt
<1>4. calls' = [calls EXCEPT ![s] = None]
  BY <1>1, <1>2, <1>3, LastIs
<1>5. /\ payloads' = [payloads EXCEPT ![c.id] = None] /\ revoked' = revoked \cup c.box
      /\ UNCHANGED <<owners, everOwned, shares, groups, wraps, gitems, groupKeys, siks>>
  BY DEF RevokePayload, delete_share_payload, client
<1>6. siks' \in Nat /\ siks <= siks'
  BY <1>5 DEF ShareInv, Shaped
<1>7. \A k \in c.box :
         /\ k \in 1 .. siks
         /\ \A x \in Items \X Users : shares[x] # None => shares[x].env.sik # k
         /\ \A t \in Slots : calls[t] # None /\ Unsent(calls[t]) => calls[t].box.env.sik # k
  BY <1>2, <1>3 DEF ShareInv, SikInv, Revoking
<1> HIDE DEF c
<1>8. calls'[s] = None /\ \A t \in Slots \ {s} : calls'[t] = calls[t]
  BY <1>4, OneMoves DEF ShareInv
<1>9. Shaped'
  <2>1. payloads' = [i \in Items |-> payloads'[i]]
    BY <1>5 DEF ShareInv, Shaped
  <2>2. /\ wraps' = [x \in Groups \X Users |-> wraps'[x]]
        /\ gitems' = [x \in Groups \X Items |-> gitems'[x]]
        /\ groupKeys' \in [Users -> [Groups -> Nat]]
    BY <1>5 DEF ShareInv, Shaped
  <2> QED BY <1>4, <1>5, <1>6, <2>1, <2>2, ShapedTables DEF ShareInv
<1>10. OwnInv'
  <2>2. \A t \in Slots : calls'[t] # None => Entitled(calls'[t], everOwned)
    BY <1>8 DEF ShareInv, OwnInv
  <2>3. \A i \in Items : item_owner(i)' = item_owner(i)
    BY <1>5 DEF item_owner
  <2>4. \A i \in Items : payloads'[i] # None => payloads'[i].by \in everOwned[i]
    BY <1>5 DEF ShareInv, Shaped, OwnInv, SharedByOwner
  <2>5. SharedByOwner'
    BY <1>5, <2>4 DEF ShareInv, OwnInv, SharedByOwner
  <2> QED BY <1>5, <2>2, <2>3, <2>5 DEF ShareInv, OwnInv
<1>11. SikInv'
  <2>1. \A t \in Slots : calls'[t] # None => calls[t] # None /\ calls'[t] = calls[t]
    BY <1>8
  <2>2. shares' = shares /\ siks' = siks /\ revoked' = revoked \cup c.box
    BY <1>5
  <2>3. \A k \in revoked' : k \in 1 .. siks
    BY <1>7, <2>2 DEF ShareInv, SikInv
  <2>4. \A x \in Items \X Users : shares[x] # None =>
          shares[x].env.sik \in 1 .. siks /\ shares[x].env.sik \notin revoked'
    BY <1>7, <2>2 DEF ShareInv, SikInv
  <2>5. \A t \in Slots : calls[t] # None /\ Unsent(calls[t]) => calls[t].box.env.sik \notin revoked'
    BY <1>7, <2>2 DEF ShareInv, SikInv
  <2> QED BY <2>1, <2>2, <2>3, <2>4, <2>5 DEF ShareInv, SikInv
<1>12. GroupInv'
  BY <1>4, <1>5, GroupEnds
<1> QED BY <1>9, <1>10, <1>11, <1>12 DEF ShareInv

-----------------------------------------------------------------------------
(* The tables of groups                                                    *)

(* A call writes a key that is held already, or none, and ends.            *)
LEMMA GroupTables ==
    ASSUME ShareInv, NEW s \in Slots, calls' = [calls EXCEPT ![s] = None],
           UNCHANGED <<owners, everOwned, shares, payloads, groups, revoked, siks>>,
           wraps' = [x \in Groups \X Users |-> wraps'[x]],
           gitems' = [x \in Groups \X Items |-> gitems'[x]],
           groupKeys' \in [Users -> [Groups -> Nat]],
           \A g \in Groups : \A k : Held(g, k, groupKeys', wraps', gitems', calls)
                                      => Held(g, k, groupKeys, wraps, gitems, calls),
           \A g \in Groups, i \in Items : gitems'[<<g, i>>] # None => gitems'[<<g, i>>].ad = i
    PROVE  ShareInv'
<1>1. siks' \in Nat /\ siks <= siks'
  BY DEF ShareInv, Shaped
<1>2. payloads' = [i \in Items |-> payloads'[i]]
  BY DEF ShareInv, Shaped
<1>3. Shaped'
  BY <1>1, <1>2, ShapedTables DEF ShareInv
<1>4. OwnInv'
  BY OwnCalm DEF ShareInv
<1>5. SikInv'
  BY <1>1, SikCalm DEF ShareInv
<1>6. \A g \in Groups : \A k : Held(g, k, groupKeys', wraps', gitems', calls')
                                  => Held(g, k, groupKeys, wraps, gitems, calls)
  <2>1. ASSUME NEW g \in Groups, NEW k, Held(g, k, groupKeys', wraps', gitems', calls')
        PROVE  Held(g, k, groupKeys', wraps', gitems', calls)
    BY <2>1, HeldMoves DEF ShareInv
  <2> QED BY <2>1
<1>7. GroupInv'
  BY <1>6, GroupCalm DEF ShareInv
<1> QED BY <1>3, <1>4, <1>5, <1>7 DEF ShareInv

(* createGroup: the key of the group it made.                              *)
LEMMA HoldKeeps ==
    ASSUME ShareInv, NEW s \in Slots, HoldGroupKey(s)
    PROVE  ShareInv'
<1> DEFINE c == calls[s]
<1>1. At(s, "create", "hold") /\ Onward(s, None)
  BY DEF HoldGroupKey
<1>2. c # None /\ Shape(c) /\ c.op = "create" /\ c.id \in Groups /\ c.by \in Users
  BY <1>1, AtShape DEF Shape
<1>3. c.at = 3
  BY <1>1, <1>2, OthersAt
<1>4. calls' = [calls EXCEPT ![s] = None]
  BY <1>1, <1>2, <1>3, LastIs
<1>5. /\ groupKeys' = [groupKeys EXCEPT ![c.by] = [groupKeys[c.by] EXCEPT ![c.id] = c.box]]
      /\ UNCHANGED <<owners, everOwned, shares, payloads, groups, revoked, siks, wraps, gitems>>
  BY DEF HoldGroupKey, Rest
<1>6. c.box \in Nat \ {0}
  BY <1>2 DEF ShareInv, GroupInv
<1>7. Held(c.id, c.box, groupKeys, wraps, gitems, calls)
  BY <1>2, <1>3 DEF Held, Carries
<1> HIDE DEF c
<1>8. /\ groupKeys \in [Users -> [Groups -> Nat]]
      /\ wraps' = [x \in Groups \X Users |-> wraps'[x]]
      /\ gitems' = [x \in Groups \X Items |-> gitems'[x]]
  BY <1>5 DEF ShareInv, Shaped
<1>9. groupKeys' \in [Users -> [Groups -> Nat]]
  BY <1>2, <1>5, <1>6, <1>8
<1>10. \A u \in Users, g \in Groups : groupKeys'[u][g] # groupKeys[u][g] => g = c.id /\ groupKeys'[u][g] = c.box
  BY <1>2, <1>5, <1>8
<1>11. \A g \in Groups : \A k : Held(g, k, groupKeys', wraps', gitems', calls)
                                  => Held(g, k, groupKeys, wraps, gitems, calls)
  BY <1>5, <1>7, <1>10 DEF Held
<1>12. \A g \in Groups, i \in Items : gitems'[<<g, i>>] # None => gitems'[<<g, i>>].ad = i
  BY <1>5 DEF ShareInv, GroupInv
<1> QED BY <1>4, <1>5, <1>8, <1>9, <1>11, <1>12, GroupTables

(* A wrap is written: of a key that is held, or none.                      *)
LEMMA WrapsKeep ==
    ASSUME ShareInv, NEW s \in Slots, calls' = [calls EXCEPT ![s] = None],
           UNCHANGED <<owners, everOwned, shares, payloads, groups, revoked, siks, gitems, groupKeys>>,
           wraps' = [x \in Groups \X Users |-> wraps'[x]],
           \A g \in Groups, u \in Users : wraps'[<<g, u>>] # None =>
             \/ wraps'[<<g, u>>] = wraps[<<g, u>>]
             \/ Held(g, wraps'[<<g, u>>].sik, groupKeys, wraps, gitems, calls)
    PROVE  ShareInv'
<1>1. /\ groupKeys' \in [Users -> [Groups -> Nat]]
      /\ gitems' = [x \in Groups \X Items |-> gitems'[x]]
  BY DEF ShareInv, Shaped
<1>2. \A g \in Groups, i \in Items : gitems'[<<g, i>>] # None => gitems'[<<g, i>>].ad = i
  BY DEF ShareInv, GroupInv
<1>3. ASSUME NEW g \in Groups, NEW k, Held(g, k, groupKeys', wraps', gitems', calls)
      PROVE  Held(g, k, groupKeys, wraps, gitems, calls)
  <2>1. CASE \E u \in Users : wraps'[<<g, u>>] # None /\ wraps'[<<g, u>>].sik = k
    <3>1. PICK u \in Users : wraps'[<<g, u>>] # None /\ wraps'[<<g, u>>].sik = k
      BY <2>1
    <3>2. CASE wraps'[<<g, u>>] = wraps[<<g, u>>]
      BY <3>1, <3>2 DEF Held
    <3>3. CASE Held(g, wraps'[<<g, u>>].sik, groupKeys, wraps, gitems, calls)
      BY <3>1, <3>3
    <3> QED BY <3>1, <3>2, <3>3
  <2>2. CASE ~\E u \in Users : wraps'[<<g, u>>] # None /\ wraps'[<<g, u>>].sik = k
    BY <1>3, <2>2 DEF Held
  <2> QED BY <2>1, <2>2
<1> QED BY <1>1, <1>2, <1>3, GroupTables

(* add_group_member, remove_group_member and rotate_group: the wraps.      *)
LEMMA WrapStatements ==
    ASSUME ShareInv, NEW s \in Slots
    PROVE  /\ StoreWrap(s) => ShareInv'
           /\ DeleteWrap(s) => ShareInv'
           /\ ReplaceWraps(s) => ShareInv'
<1> DEFINE c == calls[s]
<1>1. ASSUME StoreWrap(s) PROVE ShareInv'
  <2>1. At(s, "add", "wrap") /\ Onward(s, None)
    BY <1>1 DEF StoreWrap
  <2>2. c # None /\ Shape(c) /\ c.op = "add" /\ c.id \in Groups /\ c.to \in Users
    BY <2>1, AtShape DEF Shape
  <2>3. c.at = 4
    BY <2>1, <2>2, OthersAt
  <2>4. calls' = [calls EXCEPT ![s] = None]
    BY <2>1, <2>2, <2>3, LastIs
  <2>5. /\ wraps' = [wraps EXCEPT ![<<c.id, c.to>>] = c.box]
        /\ UNCHANGED <<owners, everOwned, shares, payloads, groups, revoked, siks, gitems, groupKeys>>
    BY <1>1 DEF StoreWrap, store_group_wrapped_sik, Rest, client
  <2>6. Held(c.id, c.box.sik, groupKeys, wraps, gitems, calls)
    BY <2>2, <2>3 DEF Held, Carries
  <2> HIDE DEF c
  <2>7. wraps = [x \in Groups \X Users |-> wraps[x]]
    BY DEF ShareInv, Shaped
  <2>8. wraps' = [x \in Groups \X Users |-> wraps'[x]]
    BY <2>5, <2>7
  <2>9. \A g \in Groups, u \in Users :
          wraps'[<<g, u>>] = wraps[<<g, u>>] \/ (g = c.id /\ wraps'[<<g, u>>] = c.box)
    BY <2>2, <2>5, <2>7
  <2> QED BY <2>4, <2>5, <2>6, <2>8, <2>9, WrapsKeep
<1>2. ASSUME DeleteWrap(s) PROVE ShareInv'
  <2>1. At(s, "remove", "unwrap") /\ Onward(s, None)
    BY <1>2 DEF DeleteWrap
  <2>2. c # None /\ Shape(c) /\ c.op = "remove" /\ c.id \in Groups /\ c.to \in Users
    BY <2>1, AtShape DEF Shape
  <2>3. c.at = 3
    <3>1. c.at \in 1 .. 3 /\ Steps("remove")[c.at] = "unwrap"
      BY <2>1, <2>2, Lengths DEF Shape, At
    <3> QED BY <3>1, Lengths
  <2>4. calls' = [calls EXCEPT ![s] = None]
    BY <2>1, <2>2, <2>3, LastIs
  <2>5. /\ wraps' = [wraps EXCEPT ![<<c.id, c.to>>] = None]
        /\ UNCHANGED <<owners, everOwned, shares, payloads, groups, revoked, siks, gitems, groupKeys>>
    BY <1>2 DEF DeleteWrap, delete_group_wrapped_sik, Rest, client
  <2> HIDE DEF c
  <2>7. wraps = [x \in Groups \X Users |-> wraps[x]]
    BY DEF ShareInv, Shaped
  <2>8. wraps' = [x \in Groups \X Users |-> wraps'[x]]
    BY <2>5, <2>7
  <2>9. \A g \in Groups, u \in Users :
          wraps'[<<g, u>>] = wraps[<<g, u>>] \/ wraps'[<<g, u>>] = None
    BY <2>2, <2>5, <2>7
  <2> QED BY <2>4, <2>5, <2>8, <2>9, WrapsKeep
<1>3. ASSUME ReplaceWraps(s) PROVE ShareInv'
  <2>1. At(s, "rotate", "replace") /\ Onward(s, None)
    BY <1>3 DEF ReplaceWraps
  <2>2. c # None /\ Shape(c) /\ c.op = "rotate" /\ c.id \in Groups
    BY <2>1, AtShape DEF Shape
  <2>3. c.at = 2
    <3>1. c.at \in 1 .. 2 /\ Steps("rotate")[c.at] = "replace"
      BY <2>1, <2>2, Lengths DEF Shape, At
    <3> QED BY <3>1, Lengths
  <2>4. calls' = [calls EXCEPT ![s] = None]
    BY <2>1, <2>2, <2>3, LastIs
  <2>5. /\ wraps' = [x \in Groups \X Users |->
                       IF x[1] # c.id THEN wraps[x]
                       ELSE IF x[2] \in DOMAIN c.box THEN c.box[x[2]] ELSE None]
        /\ UNCHANGED <<owners, everOwned, shares, payloads, groups, revoked, siks, gitems, groupKeys>>
    BY <1>3 DEF ReplaceWraps, replace_group_wrapped_siks, Rest, client
  <2>6. \A m \in DOMAIN c.box : Held(c.id, c.box[m].sik, groupKeys, wraps, gitems, calls)
    BY <2>2, <2>3 DEF Held, Carries
  <2> HIDE DEF c
  <2>8. wraps' = [x \in Groups \X Users |-> wraps'[x]]
    BY <2>5
  <2>9. \A g \in Groups, u \in Users :
          \/ wraps'[<<g, u>>] = wraps[<<g, u>>] \/ wraps'[<<g, u>>] = None
          \/ g = c.id /\ u \in DOMAIN c.box /\ wraps'[<<g, u>>] = c.box[u]
    BY <2>5
  <2>10. \A g \in Groups, u \in Users : wraps'[<<g, u>>] # None =>
           \/ wraps'[<<g, u>>] = wraps[<<g, u>>]
           \/ Held(g, wraps'[<<g, u>>].sik, groupKeys, wraps, gitems, calls)
    BY <2>6, <2>9
  <2>11. UNCHANGED <<owners, everOwned, shares, payloads, groups, revoked, siks, gitems, groupKeys>>
    BY <2>5
  <2> QED BY <2>4, <2>8, <2>10, <2>11, WrapsKeep
<1> QED BY <1>1, <1>2, <1>3

(* add_group_item and delete_group_item.                                   *)
LEMMA ItemStatements ==
    ASSUME ShareInv, NEW s \in Slots
    PROVE  /\ PutItem(s) => ShareInv'
           /\ DeleteItem(s) => ShareInv'
<1> DEFINE c == calls[s]
<1>1. /\ gitems = [x \in Groups \X Items |-> gitems[x]]
      /\ \A g \in Groups, i \in Items : gitems[<<g, i>>] # None => gitems[<<g, i>>].ad = i
  BY DEF ShareInv, Shaped, GroupInv
<1>2. ASSUME PutItem(s) PROVE ShareInv'
  <2>1. At(s, "post", "put") /\ Onward(s, None)
    BY <1>2 DEF PutItem
  <2>2. c # None /\ Shape(c) /\ c.op = "post" /\ c.id \in Groups /\ c.to \in Items
    BY <2>1, AtShape DEF Shape
  <2>3. c.at = 2
    <3>1. c.at \in 1 .. 2 /\ Steps("post")[c.at] = "put"
      BY <2>1, <2>2, Lengths DEF Shape, At
    <3> QED BY <3>1, Lengths
  <2>4. calls' = [calls EXCEPT ![s] = None]
    BY <2>1, <2>2, <2>3, LastIs
  <2>5. /\ gitems' = [gitems EXCEPT ![<<c.id, c.to>>] = c.box]
        /\ UNCHANGED <<owners, everOwned, shares, payloads, groups, revoked, siks, wraps, groupKeys>>
    BY <1>2 DEF PutItem, add_group_item, Rest, client
  <2>6. Held(c.id, c.box.sik, groupKeys, wraps, gitems, calls) /\ c.box.ad = c.to
    BY <2>2, <2>3 DEF Held, Carries, ShareInv, GroupInv
  <2> HIDE DEF c
  <2>7. gitems' = [x \in Groups \X Items |-> gitems'[x]]
    BY <1>1, <2>5
  <2>8. \A g \in Groups, i \in Items :
          gitems'[<<g, i>>] = gitems[<<g, i>>] \/ (g = c.id /\ i = c.to /\ gitems'[<<g, i>>] = c.box)
    BY <1>1, <2>2, <2>5
  <2>9. \A g \in Groups, i \in Items : gitems'[<<g, i>>] # None => gitems'[<<g, i>>].ad = i
    BY <1>1, <2>6, <2>8
  <2>10. ASSUME NEW g \in Groups, NEW k, Held(g, k, groupKeys', wraps', gitems', calls)
         PROVE  Held(g, k, groupKeys, wraps, gitems, calls)
    <3>1. CASE g = c.id /\ k = c.box.sik
      BY <2>6, <3>1
    <3>2. CASE ~(g = c.id /\ k = c.box.sik)
      BY <2>5, <2>8, <2>10, <3>2 DEF Held
    <3> QED BY <3>1, <3>2
  <2>11. /\ groupKeys' \in [Users -> [Groups -> Nat]]
         /\ wraps' = [x \in Groups \X Users |-> wraps'[x]]
    BY <2>5 DEF ShareInv, Shaped
  <2> QED BY <2>4, <2>5, <2>7, <2>9, <2>10, <2>11, GroupTables
<1>3. ASSUME DeleteItem(s) PROVE ShareInv'
  <2>1. At(s, "drop", "delete") /\ Onward(s, None)
    BY <1>3 DEF DeleteItem
  <2>2. c # None /\ Shape(c) /\ c.op = "drop" /\ c.id \in Groups /\ c.to \in Items
    BY <2>1, AtShape DEF Shape
  <2>3. c.at = 2
    <3>1. c.at \in 1 .. 2 /\ Steps("drop")[c.at] = "delete"
      BY <2>1, <2>2, Lengths DEF Shape, At
    <3> QED BY <3>1, Lengths
  <2>4. calls' = [calls EXCEPT ![s] = None]
    BY <2>1, <2>2, <2>3, LastIs
  <2>5. /\ gitems' = [gitems EXCEPT ![<<c.id, c.to>>] = None]
        /\ UNCHANGED <<owners, everOwned, shares, payloads, groups, revoked, siks, wraps, groupKeys>>
    BY <1>3 DEF DeleteItem, delete_group_item, Rest, client
  <2> HIDE DEF c
  <2>7. gitems' = [x \in Groups \X Items |-> gitems'[x]]
    BY <1>1, <2>5
  <2>8. \A g \in Groups, i \in Items :
          gitems'[<<g, i>>] = gitems[<<g, i>>] \/ gitems'[<<g, i>>] = None
    BY <1>1, <2>2, <2>5
  <2>9. \A g \in Groups, i \in Items : gitems'[<<g, i>>] # None => gitems'[<<g, i>>].ad = i
    BY <1>1, <2>8
  <2>10. \A g \in Groups : \A k : Held(g, k, groupKeys', wraps', gitems', calls)
                                    => Held(g, k, groupKeys, wraps, gitems, calls)
    BY <2>5, <2>8 DEF Held
  <2>11. /\ groupKeys' \in [Users -> [Groups -> Nat]]
         /\ wraps' = [x \in Groups \X Users |-> wraps'[x]]
    BY <2>5 DEF ShareInv, Shaped
  <2> QED BY <2>4, <2>5, <2>7, <2>9, <2>10, <2>11, GroupTables
<1> QED BY <1>2, <1>3

(* group_inbox: a key the client unwraps is one that was wrapped.          *)
LEMMA OpenKeeps ==
    ASSUME ShareInv, NEW s \in Slots, OpenGroups(s)
    PROVE  ShareInv'
<1> DEFINE c == calls[s]
           u == c.by
           sik(g) == wasm_unwrap_group_key(wraps[<<g, u>>], keypair[u], g)
<1>1. At(s, "groups", "open") /\ Onward(s, None)
  BY DEF OpenGroups
<1>2. c # None /\ Shape(c) /\ c.op = "groups" /\ u \in Users
  BY <1>1, AtShape DEF Shape
<1>3. c.at = 2
  <2>1. c.at \in 1 .. 2 /\ Steps("groups")[c.at] = "open"
    BY <1>1, <1>2, Lengths DEF Shape, At
  <2> QED BY <2>1, Lengths
<1>4. calls' = [calls EXCEPT ![s] = None]
  BY <1>1, <1>2, <1>3, LastIs
<1>5. /\ groupKeys' = [groupKeys EXCEPT ![u] = [g \in Groups |->
                         IF g \in c.box /\ sik(g) # 0 THEN sik(g) ELSE groupKeys[u][g]]]
      /\ UNCHANGED <<owners, everOwned, shares, payloads, groups, revoked, siks, wraps, gitems>>
  BY DEF OpenGroups, Rest
<1>6. \A g \in Groups : sik(g) # 0 => Held(g, sik(g), groupKeys, wraps, gitems, calls)
  BY <1>2 DEF wasm_unwrap_group_key, UnwrapGroupKey, KemUnwrap, Held
<1>7. \A g \in Groups : sik(g) # 0 => sik(g) \in Nat
  BY <1>6 DEF ShareInv, GroupInv
<1> HIDE DEF u, c, sik
<1>8. /\ groupKeys \in [Users -> [Groups -> Nat]]
      /\ wraps' = [x \in Groups \X Users |-> wraps'[x]]
      /\ gitems' = [x \in Groups \X Items |-> gitems'[x]]
  BY <1>5 DEF ShareInv, Shaped
<1>9. groupKeys' \in [Users -> [Groups -> Nat]]
  BY <1>2, <1>5, <1>7, <1>8
<1>10. \A v \in Users, g \in Groups :
         \/ groupKeys'[v][g] = groupKeys[v][g]
         \/ sik(g) # 0 /\ groupKeys'[v][g] = sik(g)
  BY <1>2, <1>5, <1>8
<1>11. ASSUME NEW g \in Groups, NEW k, Held(g, k, groupKeys', wraps', gitems', calls)
       PROVE  Held(g, k, groupKeys, wraps, gitems, calls)
  <2>1. CASE sik(g) # 0 /\ k = sik(g)
    BY <1>6, <2>1
  <2>2. CASE ~(sik(g) # 0 /\ k = sik(g))
    BY <1>5, <1>10, <1>11, <2>2 DEF Held
  <2> QED BY <2>1, <2>2
<1>12. \A g \in Groups, i \in Items : gitems'[<<g, i>>] # None => gitems'[<<g, i>>].ad = i
  BY <1>5 DEF ShareInv, GroupInv
<1>13. UNCHANGED <<owners, everOwned, shares, payloads, groups, revoked, siks>>
  BY <1>5
<1> QED BY <1>4, <1>8, <1>9, <1>11, <1>12, <1>13, GroupTables

(* addGroupMember: the wrap is of the key the call began with.             *)
LEMMA LookupMemberKeeps ==
    ASSUME ShareInv, NEW s \in Slots, LookupMember(s)
    PROVE  ShareInv'
<1> DEFINE c == calls[s]
           env == WrapGroupKey(c.box, c.id, get_sharing_public_key(c.to))
<1>1. At(s, "add", "lookup") /\ UNCHANGED <<Tables, siks>>
  BY DEF LookupMember, Rest, Tables, client
<1>2. c # None /\ Shape(c) /\ c.op = "add" /\ c.id \in Groups
  BY <1>1, AtShape DEF Shape
<1>3. c.at = 1
  BY <1>1, <1>2, OthersAt
<1>4. CASE Ends(s)
  <2>1. calls' = [calls EXCEPT ![s] = None]
    BY <1>4 DEF Ends
  <2> QED BY <1>1, <2>1, OtherCall
<1>5. CASE Onward(s, env)
  <2>1. PICK r : calls' = [calls EXCEPT ![s] = r] /\ (r = None \/ Onto(c, r, env))
    BY <1>2, <1>5, OnwardIs
  <2>2. CASE r = None
    BY <1>1, <2>1, <2>2, OtherCall
  <2>3. CASE r # None
    <3>1. Shape(r) /\ r.op = "add" /\ r.at = 2 /\ r.id = c.id /\ r.box.sik = c.box
      <4>1. env.sik = c.box
        BY DEF WrapGroupKey, KemWrap
      <4> HIDE DEF env
      <4> QED BY <1>2, <1>3, <2>1, <2>3, <4>1 DEF Onto
    <3>2. ASSUME NEW g \in Groups, NEW k, Carries(r, g, k)
          PROVE  Held(g, k, groupKeys, wraps, gitems, calls)
      <4>1. g = c.id /\ k = c.box
        BY <3>1, <3>2 DEF Carries
      <4>2. Carries(c, g, k)
        BY <1>2, <1>3, <4>1 DEF Carries
      <4> QED BY <1>2, <4>2 DEF Held
    <3>3. Entitled(r, everOwned) /\ ~Revoking(r) /\ ~Unsent(r)
      BY <3>1 DEF Entitled, Revoking, Unsent
    <3>4. siks' \in Nat /\ siks <= siks'
      BY <1>1 DEF ShareInv, Shaped
    <3> QED BY <1>1, <2>1, <3>1, <3>2, <3>3, <3>4, Quiet
  <2> QED BY <2>2, <2>3
<1>6. Ends(s) \/ Onward(s, env)
  BY DEF LookupMember
<1> QED BY <1>4, <1>5, <1>6

-----------------------------------------------------------------------------
(* Shares and groups come up, and shares are revoked                       *)

(* A call of a share or a revocation says nothing of a group.              *)
LEMMA GroupsApart ==
    ASSUME ShareInv, NEW s \in Slots, NEW r, calls' = [calls EXCEPT ![s] = r],
           UNCHANGED <<groups, wraps, gitems, groupKeys>>,
           r # None => r.op \in {"share", "revoke"}
    PROVE  GroupInv'
<1>1. ASSUME NEW g \in Groups, NEW k, Held(g, k, groupKeys', wraps', gitems', calls')
      PROVE  Held(g, k, groupKeys, wraps, gitems, calls)
  <2>1. Held(g, k, groupKeys, wraps, gitems, calls')
    BY <1>1
  <2>2. r # None => ~Carries(r, g, k)
    BY DEF Carries
  <2> QED BY <2>1, <2>2, HeldMoves DEF ShareInv
<1>2. \A g \in Groups, i \in Items : gitems'[<<g, i>>] # None => gitems'[<<g, i>>].ad = i
  BY DEF ShareInv, GroupInv
<1> QED BY <1>1, <1>2, GroupCalm DEF ShareInv

(* share_item: a fresh SIK.                                                *)
LEMMA LookupKeeps ==
    ASSUME ShareInv, NEW s \in Slots, Lookup(s)
    PROVE  ShareInv'
<1> DEFINE c == calls[s]
           box == ShareItem(siks + 1, c.id, get_sharing_public_key(c.to))
<1>1. At(s, "share", "lookup") /\ UNCHANGED Tables
  BY DEF Lookup, Rest, Tables, client
<1>2. c # None /\ Shape(c) /\ c.op = "share"
  BY <1>1, AtShape
<1>3. c.at = 1
  BY <1>1, <1>2, ShareAt
<1>4. ASSUME calls' = [calls EXCEPT ![s] = None], UNCHANGED siks PROVE ShareInv'
  BY <1>1, <1>4, OtherCall
<1>5. ASSUME Onward(s, box), siks' = siks + 1 PROVE ShareInv'
  <2>1. PICK r : calls' = [calls EXCEPT ![s] = r] /\ (r = None \/ Onto(c, r, box))
    BY <1>2, <1>5, OnwardIs
  <2>2. siks \in Nat /\ siks' \in Nat /\ siks <= siks' /\ siks + 1 \in 1 .. siks' /\ siks + 1 \notin 1 .. siks
    BY <1>5 DEF ShareInv, Shaped
  <2>3. r # None => Shape(r) /\ r.op = "share" /\ r.at = 2 /\ r.box.env.sik = siks + 1
    <3>1. box.env.sik = siks + 1
      BY DEF ShareItem, KemWrap
    <3> HIDE DEF box
    <3> QED BY <1>2, <1>3, <2>1, <3>1 DEF Onto
  <2>4. Shaped'
    BY <1>1, <2>1, <2>2, <2>3, ShapedCalm DEF ShareInv, Tables
  <2>5. r # None => Entitled(r, everOwned)
    BY <2>3 DEF Entitled
  <2>6. OwnInv'
    BY <1>1, <2>1, <2>5, OwnCalm DEF ShareInv, Tables
  <2>7. GroupInv'
    BY <1>1, <2>1, <2>3, GroupsApart DEF Tables
  <2>8. calls'[s] = r /\ \A t \in Slots \ {s} : calls'[t] = calls[t]
    BY <2>1, OneMoves DEF ShareInv
  <2>9. SikInv'
    <3>1. shares' = shares /\ revoked' = revoked
      BY <1>1 DEF Tables
    <3>2. \A k : k \in 1 .. siks => k \in 1 .. siks' /\ k # siks + 1
      BY <2>2
    <3>3. \A t \in Slots : calls'[t] # None /\ Unsent(calls'[t]) =>
            \/ calls[t] # None /\ Unsent(calls[t]) /\ calls'[t] = calls[t] /\ t # s
            \/ t = s /\ calls'[t].box.env.sik = siks + 1
      BY <2>3, <2>8
    <3>4. \A t \in Slots : calls'[t] # None /\ Revoking(calls'[t]) =>
            calls'[t] = calls[t] /\ t # s
      BY <2>3, <2>8 DEF Revoking
    <3>5. \A k \in revoked : k \in 1 .. siks /\ k # siks + 1
      BY <3>2 DEF ShareInv, SikInv
    <3>6. \A t \in Slots : calls'[t] # None /\ Unsent(calls'[t]) =>
            /\ calls'[t].box.env.sik \in 1 .. siks' /\ calls'[t].box.env.sik \notin revoked
            /\ \A x \in Items \X Users : shares[x] # None => shares[x].env.sik # calls'[t].box.env.sik
      BY <2>2, <3>2, <3>3, <3>5 DEF ShareInv, SikInv
    <3>7. \A t, v \in Slots :
            calls'[t] # None /\ Unsent(calls'[t]) /\ calls'[v] # None /\ Unsent(calls'[v]) /\ v # t
              => calls'[v].box.env.sik # calls'[t].box.env.sik
      BY <3>2, <3>3 DEF ShareInv, SikInv
    <3>8. \A t \in Slots : calls'[t] # None /\ Revoking(calls'[t]) => \A k \in calls'[t].box :
            /\ k \in 1 .. siks'
            /\ \A x \in Items \X Users : shares[x] # None => shares[x].env.sik # k
            /\ \A v \in Slots : calls'[v] # None /\ Unsent(calls'[v]) => calls'[v].box.env.sik # k
      BY <3>2, <3>3, <3>4 DEF ShareInv, SikInv
    <3>9. \A x \in Items \X Users : shares[x] # None =>
            shares[x].env.sik \in 1 .. siks' /\ shares[x].env.sik \notin revoked
      BY <3>2 DEF ShareInv, SikInv
    <3>10. \A x, y \in Items \X Users :
             shares[x] # None /\ shares[y] # None /\ shares[x].env.sik = shares[y].env.sik => x = y
      BY DEF ShareInv, SikInv
    <3>11. \A k \in revoked : k \in 1 .. siks'
      BY <3>2, <3>5
    <3> QED BY <3>1, <3>6, <3>7, <3>8, <3>9, <3>10, <3>11 DEF SikInv
  <2> QED BY <2>4, <2>6, <2>7, <2>9 DEF ShareInv
<1>6. \/ calls' = [calls EXCEPT ![s] = None] /\ UNCHANGED siks
      \/ Onward(s, box) /\ siks' = siks + 1
  BY DEF Lookup, Ends
<1> QED BY <1>4, <1>5, <1>6

(* create_share: the SIK of a share to come becomes that of its row.       *)
LEMMA InsertKeeps ==
    ASSUME ShareInv, NEW s \in Slots, InsertShare(s)
    PROVE  ShareInv'
<1> DEFINE c == calls[s]
           z == <<c.id, c.to>>
           row == IF shares[z] = None THEN [owner |-> c.by, env |-> c.box.env]
                  ELSE [shares[z] EXCEPT !.env = c.box.env]
<1>1. At(s, "share", "insert") /\ Onward(s, c.box) /\ shares' = [shares EXCEPT ![z] = row]
      /\ UNCHANGED <<owners, everOwned, payloads, groups, wraps, gitems, groupKeys, revoked, siks>>
  BY DEF InsertShare, create_share, Rest, client
<1>2. c # None /\ Shape(c) /\ c.op = "share" /\ c.id \in Items /\ c.to \in Users
  BY <1>1, AtShape DEF Shape
<1>3. c.at = 3
  BY <1>1, <1>2, ShareAt
<1>4. PICK r : calls' = [calls EXCEPT ![s] = r] /\ (r = None \/ Onto(c, r, c.box))
  BY <1>1, <1>2, OnwardIs
<1>5. r # None => Shape(r) /\ r.op = "share" /\ r.at = 4 /\ r.by = c.by /\ r.id = c.id
  BY <1>2, <1>3, <1>4 DEF Onto
<1>6. calls'[s] = r /\ \A t \in Slots \ {s} : calls'[t] = calls[t]
  BY <1>4, OneMoves DEF ShareInv
<1>7. c.by \in everOwned[c.id]
  <2>1. Entitled(c, everOwned)
    BY <1>2 DEF ShareInv, OwnInv
  <2> QED BY <1>2, <1>3, <2>1 DEF Entitled
<1>8. z \in Items \X Users
  BY <1>2
<1>9. row = [owner |-> row.owner, env |-> row.env] /\ row.env = c.box.env /\ row.owner \in everOwned[c.id]
  <2>1. CASE shares[z] = None
    BY <1>7, <2>1
  <2>2. CASE shares[z] # None
    <3>1. shares[z] = [owner |-> shares[z].owner, env |-> shares[z].env]
      BY <1>8, <2>2 DEF ShareInv, Shaped
    <3>2. shares[z].owner \in everOwned[c.id]
      BY <1>2, <2>2 DEF ShareInv, OwnInv, SharedByOwner
    <3> HIDE DEF c, z
    <3>3. row = [owner |-> shares[z].owner, env |-> c.box.env]
      BY <2>2, <3>1
    <3> QED BY <3>2, <3>3
  <2> QED BY <2>1, <2>2
<1>10. shares = [x \in Items \X Users |-> shares[x]]
  BY DEF ShareInv, Shaped
<1> HIDE DEF row, z
<1>11. /\ shares' = [x \in Items \X Users |-> shares'[x]] /\ shares'[z] = row
       /\ \A x \in Items \X Users : x # z => shares'[x] = shares[x]
  BY <1>1, <1>8, <1>10
<1>12. Shaped'
  <2>1. \A x \in Items \X Users :
          shares'[x] # None => shares'[x] = [owner |-> shares'[x].owner, env |-> shares'[x].env]
    BY <1>9, <1>11 DEF ShareInv, Shaped
  <2>2. calls' = [t \in Slots |-> calls'[t]] /\ \A t \in Slots : calls'[t] # None => Shape(calls'[t])
    BY <1>4, <1>5, <1>6, OneMoves DEF ShareInv, Shaped
  <2> QED BY <1>1, <1>11, <2>1, <2>2 DEF ShareInv, Shaped
<1>13. OwnInv'
  <2>1. \A t \in Slots : calls'[t] # None => Entitled(calls'[t], everOwned)
    BY <1>5, <1>6, <1>7 DEF ShareInv, OwnInv, Entitled
  <2>2. \A i \in Items : item_owner(i)' = item_owner(i)
    BY <1>1 DEF item_owner
  <2>3. \A i \in Items, v \in Users : shares'[<<i, v>>] # None => shares'[<<i, v>>].owner \in everOwned[i]
    <3>1. ASSUME NEW i \in Items, NEW v \in Users, shares'[<<i, v>>] # None
          PROVE  shares'[<<i, v>>].owner \in everOwned[i]
      <4>1. CASE <<i, v>> = z
        BY <1>9, <1>11, <4>1 DEF z
      <4>2. CASE <<i, v>> # z
        BY <1>11, <3>1, <4>2 DEF ShareInv, OwnInv, SharedByOwner
      <4> QED BY <4>1, <4>2
    <3> QED BY <3>1
  <2>4. SharedByOwner'
    BY <1>1, <2>3 DEF ShareInv, OwnInv, SharedByOwner
  <2> QED BY <1>1, <2>1, <2>2, <2>4 DEF ShareInv, OwnInv
<1>14. SikInv'
  <2> DEFINE k0 == c.box.env.sik
  <2>1. /\ k0 \in 1 .. siks /\ k0 \notin revoked
        /\ \A x \in Items \X Users : shares[x] # None => shares[x].env.sik # k0
        /\ \A t \in Slots : calls[t] # None /\ Unsent(calls[t]) /\ t # s => calls[t].box.env.sik # k0
        /\ \A t \in Slots : calls[t] # None /\ Revoking(calls[t]) => k0 \notin calls[t].box
    BY <1>2, <1>3 DEF ShareInv, SikInv, Unsent
  <2>2. shares'[z].env.sik = k0
    BY <1>9, <1>11
  <2> HIDE DEF k0
  <2>3. \A t \in Slots : calls'[t] # None /\ (Unsent(calls'[t]) \/ Revoking(calls'[t])) =>
          calls[t] # None /\ calls'[t] = calls[t] /\ t # s
    BY <1>5, <1>6 DEF Unsent, Revoking
  <2>4. siks' = siks /\ revoked' = revoked
    BY <1>1
  <2>5. \A x \in Items \X Users : shares'[x] # None =>
          shares'[x].env.sik \in 1 .. siks /\ shares'[x].env.sik \notin revoked
    BY <1>11, <2>1, <2>2 DEF ShareInv, SikInv
  <2>6. \A x, y \in Items \X Users :
          shares'[x] # None /\ shares'[y] # None /\ shares'[x].env.sik = shares'[y].env.sik => x = y
    BY <1>11, <2>1, <2>2 DEF ShareInv, SikInv
  <2>7. \A t \in Slots : calls[t] # None /\ Unsent(calls[t]) /\ t # s =>
          \A x \in Items \X Users : shares'[x] # None => shares'[x].env.sik # calls[t].box.env.sik
    BY <1>11, <2>1, <2>2 DEF ShareInv, SikInv
  <2>8. \A t \in Slots : calls[t] # None /\ Revoking(calls[t]) => \A k \in calls[t].box :
          \A x \in Items \X Users : shares'[x] # None => shares'[x].env.sik # k
    BY <1>11, <2>1, <2>2 DEF ShareInv, SikInv
  <2> QED BY <2>3, <2>4, <2>5, <2>6, <2>7, <2>8 DEF ShareInv, SikInv
<1>15. GroupInv'
  BY <1>1, <1>4, <1>5, GroupsApart
<1> QED BY <1>12, <1>13, <1>14, <1>15 DEF ShareInv

(* revoke_share: the SIKs of the rows it deletes are of no other row.      *)
LEMMA RevokeRowsKeeps ==
    ASSUME ShareInv, NEW s \in Slots, RevokeRows(s)
    PROVE  ShareInv'
<1> DEFINE c == calls[s]
           gone(x) == x[1] = c.id /\ shares[x] # None /\ shares[x].owner = c.by
           mine == {v \in Users : shares[<<c.id, v>>] # None /\ shares[<<c.id, v>>].owner = c.by}
           box == {shares[<<c.id, v>>].env.sik : v \in mine}
<1>1. /\ At(s, "revoke", "rows") /\ Onward(s, box)
      /\ shares' = [x \in Items \X Users |-> IF gone(x) THEN None ELSE shares[x]]
      /\ UNCHANGED <<owners, everOwned, payloads, groups, wraps, gitems, groupKeys, revoked, siks>>
  BY DEF RevokeRows, delete_shares, Rest, client
<1>2. c # None /\ Shape(c) /\ c.op = "revoke" /\ c.id \in Items
  BY <1>1, AtShape DEF Shape
<1>3. c.at = 2
  BY <1>1, <1>2, OthersAt
<1>4. PICK r : calls' = [calls EXCEPT ![s] = r] /\ (r = None \/ Onto(c, r, box))
  BY <1>1, <1>2, OnwardIs
<1>5. r # None => Shape(r) /\ r.op = "revoke" /\ r.at = 3 /\ r.box = box
  BY <1>2, <1>3, <1>4 DEF Onto
<1>6. calls'[s] = r /\ \A t \in Slots \ {s} : calls'[t] = calls[t]
  BY <1>4, OneMoves DEF ShareInv
<1>7. \A k \in box : \E x \in Items \X Users : gone(x) /\ shares[x] # None /\ shares[x].env.sik = k
  BY <1>2
<1> HIDE DEF box, mine
<1>8. \A x \in Items \X Users : shares'[x] # None => shares'[x] = shares[x] /\ ~gone(x)
  BY <1>1
<1> HIDE DEF gone
<1>9. Shaped'
  <2>1. shares' = [x \in Items \X Users |-> shares'[x]]
    BY <1>1
  <2>2. \A x \in Items \X Users :
          shares'[x] # None => shares'[x] = [owner |-> shares'[x].owner, env |-> shares'[x].env]
    BY <1>8 DEF ShareInv, Shaped
  <2>3. calls' = [t \in Slots |-> calls'[t]] /\ \A t \in Slots : calls'[t] # None => Shape(calls'[t])
    BY <1>4, <1>5, <1>6, OneMoves DEF ShareInv, Shaped
  <2>4. UNCHANGED <<payloads, groups, wraps, gitems, groupKeys, siks>>
    BY <1>1
  <2> QED BY <2>1, <2>2, <2>3, <2>4 DEF ShareInv, Shaped
<1>10. OwnInv'
  <2>1. \A t \in Slots : calls'[t] # None => Entitled(calls'[t], everOwned)
    BY <1>5, <1>6 DEF ShareInv, OwnInv, Entitled
  <2>2. UNCHANGED <<owners, everOwned, payloads>>
    BY <1>1
  <2>3. \A i \in Items : item_owner(i)' = item_owner(i)
    BY <2>2 DEF item_owner
  <2>4. SharedByOwner'
    BY <1>8, <2>2 DEF ShareInv, OwnInv, SharedByOwner
  <2> QED BY <2>1, <2>2, <2>3, <2>4 DEF ShareInv, OwnInv
<1>11. SikInv'
  <2>1. siks' = siks /\ revoked' = revoked
    BY <1>1
  <2>2. \A t \in Slots : calls'[t] # None /\ Unsent(calls'[t]) =>
          calls[t] # None /\ calls'[t] = calls[t] /\ t # s
    BY <1>5, <1>6 DEF Unsent
  <2>3. \A t \in Slots : calls'[t] # None /\ Revoking(calls'[t]) =>
          (calls[t] # None /\ calls'[t] = calls[t]) \/ calls'[t].box = box
    BY <1>5, <1>6
  <2>4. \A k \in box :
          /\ k \in 1 .. siks
          /\ \A x \in Items \X Users : shares'[x] # None => shares'[x].env.sik # k
          /\ \A t \in Slots : calls[t] # None /\ Unsent(calls[t]) => calls[t].box.env.sik # k
    BY <1>7, <1>8 DEF ShareInv, SikInv
  <2>5. \A t \in Slots : calls'[t] # None /\ Revoking(calls'[t]) => \A k \in calls'[t].box :
          /\ k \in 1 .. siks
          /\ \A x \in Items \X Users : shares'[x] # None => shares'[x].env.sik # k
          /\ \A v \in Slots : calls'[v] # None /\ Unsent(calls'[v]) => calls'[v].box.env.sik # k
    <3>1. ASSUME NEW t \in Slots, calls'[t] # None, Revoking(calls'[t]), NEW k \in calls'[t].box
          PROVE  /\ k \in 1 .. siks
                 /\ \A x \in Items \X Users : shares'[x] # None => shares'[x].env.sik # k
                 /\ \A v \in Slots : calls[v] # None /\ Unsent(calls[v]) => calls[v].box.env.sik # k
      <4>1. CASE calls'[t].box = box
        BY <2>4, <3>1, <4>1
      <4>2. CASE calls[t] # None /\ calls'[t] = calls[t]
        BY <1>8, <3>1, <4>2 DEF ShareInv, SikInv
      <4> QED BY <2>3, <3>1, <4>1, <4>2
    <3> QED BY <2>2, <3>1
  <2>6. \A x \in Items \X Users : shares'[x] # None =>
          shares'[x].env.sik \in 1 .. siks /\ shares'[x].env.sik \notin revoked
    BY <1>8 DEF ShareInv, SikInv
  <2>7. \A x, y \in Items \X Users :
          shares'[x] # None /\ shares'[y] # None /\ shares'[x].env.sik = shares'[y].env.sik => x = y
    BY <1>8 DEF ShareInv, SikInv
  <2>8. \A t \in Slots : calls'[t] # None /\ Unsent(calls'[t]) =>
          /\ calls'[t].box.env.sik \in 1 .. siks /\ calls'[t].box.env.sik \notin revoked
          /\ \A x \in Items \X Users : shares'[x] # None => shares'[x].env.sik # calls'[t].box.env.sik
          /\ \A v \in Slots : calls'[v] # None /\ Unsent(calls'[v]) /\ v # t =>
               calls'[v].box.env.sik # calls'[t].box.env.sik
    BY <1>8, <2>2 DEF ShareInv, SikInv
  <2>9. \A k \in revoked : k \in 1 .. siks
    BY DEF ShareInv, SikInv
  <2> QED BY <2>1, <2>5, <2>6, <2>7, <2>8, <2>9 DEF SikInv
<1>12. GroupInv'
  BY <1>1, <1>4, <1>5, GroupsApart
<1> QED BY <1>9, <1>10, <1>11, <1>12 DEF ShareInv

(* create_group: the group has no key but the one of the call.             *)
LEMMA InsertGroupKeeps ==
    ASSUME ShareInv, NEW s \in Slots, InsertGroup(s)
    PROVE  ShareInv'
<1> DEFINE c == calls[s]
<1>1. /\ At(s, "create", "group") /\ Onward(s, c.box) /\ groups' = [groups EXCEPT ![c.id] = c.by]
      /\ UNCHANGED <<owners, everOwned, shares, payloads, wraps, gitems, groupKeys, revoked, siks>>
  BY DEF InsertGroup, create_group, Rest, client
<1>2. c # None /\ Shape(c) /\ c.op = "create" /\ c.id \in Groups /\ c.by \in Users
  BY <1>1, AtShape DEF Shape
<1>3. c.at = 1
  BY <1>1, <1>2, OthersAt
<1>4. PICK r : calls' = [calls EXCEPT ![s] = r] /\ (r = None \/ Onto(c, r, c.box))
  BY <1>1, <1>2, OnwardIs
<1>5. r # None => Shape(r) /\ r.op = "create" /\ r.at = 2 /\ r.id = c.id /\ r.box = c.box
  BY <1>2, <1>3, <1>4 DEF Onto
<1>6. calls'[s] = r /\ \A t \in Slots \ {s} : calls'[t] = calls[t]
  BY <1>4, OneMoves DEF ShareInv
<1>7. /\ c.box \in Nat \ {0} /\ groups[c.id] = None
      /\ \A k : ~Held(c.id, k, groupKeys, wraps, gitems, calls)
  BY <1>2, <1>3 DEF ShareInv, GroupInv
<1>8. c.by # None
  BY <1>2, SharingAssumption
<1> HIDE DEF c
<1>9. /\ groups' = [g \in Groups |-> groups'[g]] /\ groups'[c.id] = c.by
      /\ \A g \in Groups : g # c.id => groups'[g] = groups[g]
  BY <1>1, <1>2 DEF ShareInv, Shaped
<1>10. Shaped'
  <2>1. calls' = [t \in Slots |-> calls'[t]] /\ \A t \in Slots : calls'[t] # None => Shape(calls'[t])
    BY <1>4, <1>5, <1>6, OneMoves DEF ShareInv, Shaped
  <2>2. UNCHANGED <<shares, payloads, wraps, gitems, groupKeys, siks>>
    BY <1>1
  <2> QED BY <1>9, <2>1, <2>2 DEF ShareInv, Shaped
<1>11. OwnInv'
  <2>1. r # None => Entitled(r, everOwned)
    BY <1>5 DEF Entitled
  <2> QED BY <1>1, <1>4, <2>1, OwnCalm DEF ShareInv
<1>12. SikInv'
  <2>1. siks' \in Nat /\ siks <= siks'
    BY <1>1 DEF ShareInv, Shaped
  <2>2. r # None => ~Unsent(r) /\ ~Revoking(r)
    BY <1>5 DEF Unsent, Revoking
  <2> QED BY <1>1, <1>4, <2>1, <2>2, SikCalm DEF ShareInv
<1>13. \A g \in Groups : \A k : Held(g, k, groupKeys', wraps', gitems', calls') =>
         \/ g # c.id /\ Held(g, k, groupKeys, wraps, gitems, calls)
         \/ g = c.id /\ k = c.box
  <2>1. ASSUME NEW g \in Groups, NEW k, Held(g, k, groupKeys', wraps', gitems', calls')
        PROVE  \/ g # c.id /\ Held(g, k, groupKeys, wraps, gitems, calls)
               \/ g = c.id /\ k = c.box
    <3>1. Held(g, k, groupKeys, wraps, gitems, calls')
      BY <1>1, <2>1
    <3>2. Held(g, k, groupKeys, wraps, gitems, calls) \/ (r # None /\ Carries(r, g, k))
      BY <1>4, <3>1, HeldMoves DEF ShareInv
    <3>3. r # None /\ Carries(r, g, k) => g = c.id /\ k = c.box
      BY <1>5 DEF Carries
    <3> QED BY <1>7, <3>2, <3>3
  <2> QED BY <2>1
<1>14. GroupInv'
  <2>1. \A g \in Groups : \A k, l :
          Held(g, k, groupKeys', wraps', gitems', calls')
            /\ Held(g, l, groupKeys', wraps', gitems', calls') => k = l /\ k \in Nat \ {0}
    BY <1>7, <1>13 DEF ShareInv, GroupInv
  <2>2. \A g \in Groups : groups'[g] = None =>
          \A k : ~Held(g, k, groupKeys', wraps', gitems', calls')
    BY <1>8, <1>9, <1>13 DEF ShareInv, GroupInv
  <2>3. \A t \in Slots : calls'[t] # None /\ calls'[t].op = "create" =>
          calls[t] # None /\ calls[t].op = "create" /\ calls'[t].id = calls[t].id
            /\ calls'[t].box = calls[t].box /\ (t = s => calls'[t].at # 1)
            /\ (t # s => calls'[t] = calls[t])
    BY <1>2, <1>5, <1>6 DEF c
  <2>4. \A t, v \in Slots : calls'[t] # None /\ calls'[v] # None /\ calls'[t].op = "create"
          /\ calls'[v].op = "create" /\ calls'[t].id = calls'[v].id => t = v
    BY <2>3 DEF ShareInv, GroupInv
  <2>5. \A t \in Slots : calls[t] # None /\ calls[t].op = "create" /\ t # s =>
          calls[t].id \in Groups /\ calls[t].id # c.id
    BY <1>2 DEF ShareInv, Shaped, Shape, GroupInv, c
  <2>6. \A t \in Slots : calls'[t] # None /\ calls'[t].op = "create" =>
          /\ calls'[t].box \in Nat \ {0}
          /\ calls'[t].at = 1 => groups'[calls'[t].id] = None
    BY <1>9, <2>3, <2>5 DEF ShareInv, GroupInv
  <2>7. \A t \in Slots : calls'[t] # None /\ calls'[t].op = "post" => calls'[t].box.ad = calls'[t].to
    BY <1>5, <1>6 DEF ShareInv, GroupInv
  <2>8. \A g \in Groups, i \in Items : gitems'[<<g, i>>] # None => gitems'[<<g, i>>].ad = i
    BY <1>1 DEF ShareInv, GroupInv
  <2> QED BY <2>1, <2>2, <2>4, <2>6, <2>7, <2>8 DEF GroupInv
<1> QED BY <1>10, <1>11, <1>12, <1>14 DEF ShareInv

-----------------------------------------------------------------------------
(* Outside the calls                                                       *)

(* Another part of the server changes the owner of an item.                *)
LEMMA ChangeOwnerKeeps ==
    ASSUME ShareInv, NEW i \in Items, NEW u \in Users, ChangeOwner(i, u)
    PROVE  ShareInv'
<1>1. /\ UNCHANGED <<shares, payloads, groups, wraps, gitems, groupKeys, calls, siks, revoked>>
      /\ everOwned' = [everOwned EXCEPT ![i] = everOwned[i] \cup item_owner(i)']
  BY DEF ChangeOwner, client
<1>2. owners \in [Items -> OwnerRow] /\ everOwned = [j \in Items |-> everOwned[j]]
  BY DEF ShareInv, OwnInv
<1>3. owners' \in [Items -> OwnerRow] /\ \A j \in Items : j # i => owners'[j] = owners[j]
  <2>1. \/ owners' = [owners EXCEPT ![i].project = @ \cup {u}]
        \/ owners' = [owners EXCEPT ![i].project = @ \ {u}]
        \/ owners' = [owners EXCEPT ![i].holders = @ \cup {u}]
    BY DEF ChangeOwner
  <2>2. CASE owners' = [owners EXCEPT ![i].project = @ \cup {u}]
    BY <1>2, <2>2 DEF OwnerRow
  <2>3. CASE owners' = [owners EXCEPT ![i].project = @ \ {u}]
    BY <1>2, <2>3 DEF OwnerRow
  <2>4. CASE owners' = [owners EXCEPT ![i].holders = @ \cup {u}]
    BY <1>2, <2>4 DEF OwnerRow
  <2> QED BY <2>1, <2>2, <2>3, <2>4
<1>4. \A j \in Items : j # i => item_owner(j)' = item_owner(j)
  BY <1>3 DEF item_owner
<1>5. /\ everOwned' = [j \in Items |-> everOwned'[j]]
      /\ \A j \in Items : everOwned[j] \subseteq everOwned'[j]
      /\ item_owner(i)' \subseteq everOwned'[i]
  BY <1>1, <1>2
<1>6. OwnInv'
  <2>1. \A j \in Items : item_owner(j)' \subseteq everOwned'[j]
    BY <1>4, <1>5 DEF ShareInv, OwnInv
  <2>2. SharedByOwner'
    BY <1>1, <1>5 DEF ShareInv, OwnInv, SharedByOwner
  <2>3. \A t \in Slots : calls[t] # None => Entitled(calls[t], everOwned')
    <3>1. ASSUME NEW t \in Slots, calls[t] # None PROVE Entitled(calls[t], everOwned')
      <4>1. Entitled(calls[t], everOwned) /\ Shape(calls[t])
        BY <3>1 DEF ShareInv, OwnInv, Shaped
      <4> QED BY <1>5, <4>1 DEF Entitled, Shape
    <3> QED BY <3>1
  <2> QED BY <1>1, <1>3, <1>5, <2>1, <2>2, <2>3 DEF OwnInv
<1>7. Shaped' /\ SikInv'
  BY <1>1 DEF ShareInv, Shaped, SikInv
<1>8. GroupInv'
  <2>1. \A g \in Groups : \A k : Held(g, k, groupKeys', wraps', gitems', calls')
                                   => Held(g, k, groupKeys, wraps, gitems, calls)
    BY <1>1
  <2> QED BY <1>1, <2>1 DEF ShareInv, GroupInv
<1> QED BY <1>6, <1>7, <1>8 DEF ShareInv

(* forget: a client has no key left.                                       *)
LEMMA ForgetKeeps ==
    ASSUME ShareInv, NEW u \in Users, Forget(u)
    PROVE  ShareInv'
<1>1. /\ groupKeys' = [groupKeys EXCEPT ![u] = [g \in Groups |-> 0]]
      /\ UNCHANGED <<owners, everOwned, shares, payloads, groups, wraps, gitems, calls, siks, revoked>>
  BY DEF Forget, server, history
<1>2. groupKeys \in [Users -> [Groups -> Nat]]
  BY DEF ShareInv, Shaped
<1>3. /\ groupKeys' \in [Users -> [Groups -> Nat]]
      /\ \A v \in Users, g \in Groups : groupKeys'[v][g] = groupKeys[v][g] \/ groupKeys'[v][g] = 0
  BY <1>1, <1>2
<1>4. UNCHANGED <<owners, everOwned, shares, payloads, groups, wraps, gitems, calls, siks, revoked>>
  BY <1>1
<1>5. Shaped' /\ SikInv'
  BY <1>3, <1>4 DEF ShareInv, Shaped, SikInv
<1>6. OwnInv'
  <2>1. \A j \in Items : item_owner(j)' = item_owner(j)
    BY <1>4 DEF item_owner
  <2> QED BY <1>4, <2>1 DEF ShareInv, OwnInv, SharedByOwner
<1>7. \A g \in Groups : \A k : Held(g, k, groupKeys', wraps', gitems', calls')
                                 => Held(g, k, groupKeys, wraps, gitems, calls)
  BY <1>3, <1>4 DEF Held
<1>8. GroupInv'
  BY <1>4, <1>7 DEF ShareInv, GroupInv
<1> QED BY <1>5, <1>6, <1>8 DEF ShareInv

(* Nothing happens.                                                        *)
LEMMA StutterKeeps ==
    ASSUME ShareInv, UNCHANGED shareVars
    PROVE  ShareInv'
<1>1. UNCHANGED <<Tables, calls, siks>>
  BY DEF shareVars, server, client, history, Tables
<1>2. \A j \in Items : item_owner(j)' = item_owner(j)
  BY <1>1 DEF item_owner, Tables
<1>3. Shaped' /\ SikInv'
  BY <1>1 DEF ShareInv, Shaped, SikInv, Tables
<1>4. OwnInv'
  BY <1>1, <1>2 DEF ShareInv, OwnInv, SharedByOwner, Tables
<1>5. GroupInv'
  <2>1. \A g \in Groups : \A k : Held(g, k, groupKeys', wraps', gitems', calls')
                                   => Held(g, k, groupKeys, wraps, gitems, calls)
    BY <1>1 DEF Tables
  <2> QED BY <1>1, <2>1 DEF ShareInv, GroupInv, Tables
<1> QED BY <1>3, <1>4, <1>5 DEF ShareInv

(* The rows of an item that decide its owner are what the server starts    *)
(* with.                                                                   *)
LEMMA ShareStarts ==
    ASSUME NEW mix, mix.rows \subseteq [Items -> OwnerRow], ShareInit(mix)
    PROVE  ShareInv
<1>1. Shaped
  BY DEF ShareInit, Shaped
<1>2. OwnInv
  BY DEF ShareInit, OwnInv, SharedByOwner
<1>3. SikInv
  BY DEF ShareInit, SikInv
<1>4. GroupInv
  <2>1. \A g \in Groups : \A k : ~Held(g, k, groupKeys, wraps, gitems, calls)
    BY DEF ShareInit, Held
  <2>2. /\ \A s \in Slots : calls[s] = None
        /\ \A g \in Groups, i \in Items : gitems[<<g, i>>] = None
    BY DEF ShareInit
  <2> QED BY <2>1, <2>2 DEF GroupInv
<1> QED BY <1>1, <1>2, <1>3, <1>4 DEF ShareInv

(* Every step keeps the invariant.                                         *)
LEMMA ShareSteps ==
    ASSUME ShareInv, [ShareNext]_shareVars
    PROVE  ShareInv'
<1>1. ASSUME NEW s \in Slots, Serve(s) PROVE ShareInv'
  BY <1>1, ElsewhereSteps, ChecksKeep, StoreKeeps, RevokeKeeps, HoldKeeps, WrapStatements,
     ItemStatements, OpenKeeps, LookupMemberKeeps, LookupKeeps, InsertKeeps, RevokeRowsKeeps,
     InsertGroupKeeps
     DEF Serve
<1>2. ASSUME NEW s \in Slots, Fails(s) PROVE ShareInv'
  BY <1>2, FailsKeeps
<1>3. ASSUME NEW s \in Slots, NEW u \in Users,
             EnsureSharingKey(s, u) \/ WebInbox(s, u) \/ WebGroupInbox(s, u)
      PROVE  ShareInv'
  BY <1>3, PlainCallsBegin
<1>4. ASSUME NEW s \in Slots, NEW u \in Users, NEW i \in Items, WebUpload(s, u, i) \/ WebRevoke(s, u, i)
      PROVE  ShareInv'
  BY <1>4, PlainCallsBegin
<1>5. ASSUME NEW s \in Slots, NEW u \in Users, NEW m \in Users, NEW i \in Items, WebShareItem(s, u, i, m)
      PROVE  ShareInv'
  BY <1>5, PlainCallsBegin
<1>6. ASSUME NEW s \in Slots, NEW u \in Users, NEW g \in Groups,
             WebCreateGroup(s, u, g) \/ WebGroupItems(s, u, g)
      PROVE  ShareInv'
  BY <1>6, CreateBegins, PlainCallsBegin
<1>7. ASSUME NEW s \in Slots, NEW u \in Users, NEW m \in Users, NEW g \in Groups,
             WebAddMember(s, u, g, m) \/ WebRemoveMember(s, u, g, m)
      PROVE  ShareInv'
  BY <1>7, PlainCallsBegin, KeyedCallsBegin
<1>8. ASSUME NEW s \in Slots, NEW u \in Users, NEW g \in Groups, NEW M \in SUBSET Users,
             WebRotateGroup(s, u, g, M)
      PROVE  ShareInv'
  BY <1>8, KeyedCallsBegin
<1>9. ASSUME NEW s \in Slots, NEW u \in Users, NEW g \in Groups, NEW i \in Items,
             WebShareToGroup(s, u, g, i) \/ WebDropItem(s, u, g, i)
      PROVE  ShareInv'
  BY <1>9, KeyedCallsBegin, PlainCallsBegin
<1>10. ASSUME NEW u \in Users, NEW i \in Items, ChangeOwner(i, u) PROVE ShareInv'
  BY <1>10, ChangeOwnerKeeps
<1>11. ASSUME NEW u \in Users, Forget(u) PROVE ShareInv'
  BY <1>11, ForgetKeeps
<1>12. CASE UNCHANGED shareVars
  BY <1>12, StutterKeeps
<1>13. CASE ShareNext
  BY <1>1, <1>2, <1>3, <1>4, <1>5, <1>6, <1>7, <1>8, <1>9, <1>10, <1>11, <1>13 DEF ShareNext
<1> QED BY <1>12, <1>13

(* The invariant of the server and its clients.                            *)
LEMMA ShareInvariant ==
    ASSUME NEW CONSTANT mix, mix.rows \subseteq [Items -> OwnerRow]
    PROVE  ShareSpec(mix) => []ShareInv
<1>1. ShareInit(mix) => ShareInv
  BY ShareStarts
<1>2. ShareInv /\ [ShareNext]_shareVars => ShareInv'
  BY ShareSteps
<1> QED BY <1>1, <1>2, PTL DEF ShareSpec

(* Whoever shared an item or uploaded the payload of its shares has owned  *)
(* it, and a SIK whose revocation was answered is in no row again, however *)
(* create_share, upload_share_payload, revoke_share and changes of owner   *)
(* interleave and fail, for any users, items and calls in flight.          *)
THEOREM SharesAlwaysOfOwner ==
    ASSUME NEW CONSTANT mix, mix.rows \subseteq [Items -> OwnerRow]
    PROVE  ShareSpec(mix) => []SharesOfOwner
<1>1. ShareInv => SharesOfOwner
  <2>1. ShareInv => SharedByOwner
    BY DEF ShareInv, OwnInv
  <2>2. ShareInv => RevokedGone
    BY DEF ShareInv, SikInv, RevokedGone
  <2> QED BY <2>1, <2>2 DEF SharesOfOwner
<1>2. ShareSpec(mix) => []ShareInv
  BY ShareInvariant
<1> QED BY <1>1, <1>2, PTL

(* Every wrap of a group's key opens every item of the group, however      *)
(* add_group_member, remove_group_member, rotate_group and add_group_item  *)
(* of several admins' calls interleave and fail: one key is ever in use.   *)
THEOREM GroupKeyIsOne ==
    ASSUME NEW CONSTANT mix, mix.rows \subseteq [Items -> OwnerRow]
    PROVE  ShareSpec(mix) => []OneGroupKey
<1>1. ShareInv => OneGroupKey
  <2> SUFFICES ASSUME ShareInv, NEW g \in Groups, NEW u \in Users, NEW i \in Items,
                      wraps[<<g, u>>] # None, gitems[<<g, i>>] # None
               PROVE  Opens(wraps[<<g, u>>].sik, i, gitems[<<g, i>>])
    BY DEF OneGroupKey
  <2>1. /\ Held(g, wraps[<<g, u>>].sik, groupKeys, wraps, gitems, calls)
        /\ Held(g, gitems[<<g, i>>].sik, groupKeys, wraps, gitems, calls)
    BY DEF Held
  <2>2. wraps[<<g, u>>].sik = gitems[<<g, i>>].sik /\ wraps[<<g, u>>].sik # 0
    BY <2>1 DEF ShareInv, GroupInv
  <2>3. gitems[<<g, i>>].ad = i
    BY DEF ShareInv, GroupInv
  <2> QED BY <2>2, <2>3 DEF Opens
<1>2. ShareSpec(mix) => []ShareInv
  BY ShareInvariant
<1> QED BY <1>1, <1>2, PTL

-----------------------------------------------------------------------------
(* The core client and its relay                                           *)

(* A method of the core client and the fields it has.                      *)
IsMethod(x) ==
    x \in [op : {x.op}, at : {x.at}, by : {x.by}, id : {x.id}, to : {x.to}, key : {x.key},
           new : {x.new}]

(* A rotation that has generated its Group SIK.                            *)
Rotates(x) == x.op = "rotate" /\ x.at # "lookup"

(* An addition carries a key that was the group's; it carries the one in   *)
(* use only for a member who is not barred.                                *)
AddFits(x, hld, adm, mde, bar) ==
    /\ x.key \in 0 .. mde /\ x.to \in Users
    /\ x.at # "lookup" => x.new.sik = x.key
    /\ \A g \in Groups : adm[g] # None /\ x.key = hld[g] => x.id = g
    /\ x.key = hld[x.id] => x.to \notin bar[x.id]

(* A rotation's Group SIK is nobody's but the admin's until it is kept.    *)
RotateFits(x, hld, mde, kno) ==
    /\ x.new.sik \in 1 .. mde
    /\ DOMAIN x.new.wraps = {x.by} /\ x.new.wraps[x.by].sik = x.new.sik
    /\ \A g \in Groups : hld[g] # x.new.sik
    /\ \A u \in Users : x.new.sik \in kno[u] => u = x.by

(* What a method carries.                                                  *)
Fits(x, prs, hld, adm, mde, kno, bar) ==
    /\ x.op = "share" => x.to \in Users
    /\ x.op = "share" /\ x.at = "post" => x.new.env.pk = prs[x.to]
    /\ x.op # "share" =>
         /\ x.id \in Groups /\ adm[x.id] # None /\ x.by = adm[x.id] /\ x.by \in Users
         /\ x.to # x.by /\ x.to \in Users \cup {None}
    /\ x.op = "add" => AddFits(x, hld, adm, mde, bar)
    /\ Rotates(x) => RotateFits(x, hld, mde, kno)

(* No other method carries the key a rotation has generated.               *)
Apart(x, y) ==
    Rotates(x) =>
        /\ y.op = "add" => y.key # x.new.sik
        /\ Rotates(y) => y.new.sik # x.new.sik

MethodsFit(mts, prs, hld, adm, mde, kno, bar) ==
    /\ mts = [t \in Slots |-> mts[t]]
    /\ \A t \in Slots : mts[t] # None => IsMethod(mts[t]) /\ Fits(mts[t], prs, hld, adm, mde, kno, bar)
    /\ \A t, r \in Slots : t # r /\ mts[t] # None /\ mts[r] # None => Apart(mts[t], mts[r])

(* Keys are numbered as they are made, a group's is no other group's, and  *)
(* the barred hold none in use.                                            *)
KeysFit(hld, adm, mde, kno, bar) ==
    /\ mde \in Nat
    /\ hld = [g \in Groups |-> hld[g]] /\ adm = [g \in Groups |-> adm[g]]
    /\ bar = [g \in Groups |-> bar[g]] /\ kno = [u \in Users |-> kno[u]]
    /\ \A g \in Groups : hld[g] \in 0 .. mde
    /\ \A u \in Users : kno[u] \subseteq 0 .. mde
    /\ \A g, h \in Groups : adm[g] # None /\ adm[h] # None /\ hld[g] = hld[h] => g = h
    /\ \A g \in Groups : /\ bar[g] \subseteq Users /\ adm[g] \notin bar[g]
                         /\ adm[g] \in Users \cup {None}
                         /\ adm[g] = None => bar[g] = {}
                         /\ \A m \in bar[g] : hld[g] \notin kno[m]

(* Every entry of the inboxes is sealed for its addressee.                 *)
Sealed(rel, prs) ==
    /\ DOMAIN rel = {"inbox", "payloads", "wrapped"} /\ rel = [f \in DOMAIN rel |-> rel[f]]
    /\ \A e \in rel.inbox :
         /\ e = [item |-> e.item, to |-> e.to, env |-> e.env, payload |-> e.payload]
         /\ e.to \in Users /\ e.env.pk = prs[e.to]

OwnPair(prs) == \A u, v \in Users : prs[u] = prs[v] => u = v

RelayInv ==
    /\ MethodsFit(methods, pairs, held, admin, made, known, barred)
    /\ KeysFit(held, admin, made, known, barred)
    /\ Sealed(relay, pairs) /\ OwnPair(pairs) /\ R!OnlyAddressee

(* Method t becomes x, and what it finds suits the others.                 *)
LEMMA OneMethod ==
    ASSUME NEW mts, NEW prs, NEW hld, NEW adm, NEW mde, NEW kno, NEW bar,
           NEW hld2, NEW adm2, NEW mde2, NEW kno2, NEW bar2,
           MethodsFit(mts, prs, hld, adm, mde, kno, bar),
           NEW t \in Slots, NEW x,
           x # None => /\ IsMethod(x) /\ Fits(x, prs, hld2, adm2, mde2, kno2, bar2)
                       /\ \A r \in Slots \ {t} : mts[r] # None => Apart(x, mts[r]) /\ Apart(mts[r], x),
           \A r \in Slots \ {t} : mts[r] # None /\ Fits(mts[r], prs, hld, adm, mde, kno, bar) =>
               Fits(mts[r], prs, hld2, adm2, mde2, kno2, bar2)
    PROVE  MethodsFit([mts EXCEPT ![t] = x], prs, hld2, adm2, mde2, kno2, bar2)
<1> DEFINE new == [mts EXCEPT ![t] = x]
<1>1. new = [r \in Slots |-> new[r]] /\ new[t] = x /\ \A r \in Slots \ {t} : new[r] = mts[r]
  BY DEF MethodsFit
<1> HIDE DEF new
<1>2. \A r \in Slots : new[r] # None => IsMethod(new[r]) /\ Fits(new[r], prs, hld2, adm2, mde2, kno2, bar2)
  <2> SUFFICES ASSUME NEW r \in Slots, new[r] # None
               PROVE  IsMethod(new[r]) /\ Fits(new[r], prs, hld2, adm2, mde2, kno2, bar2)
    OBVIOUS
  <2>1. CASE r = t
    BY <1>1, <2>1
  <2>2. CASE r # t
    <3>1. r \in Slots \ {t} /\ new[r] = mts[r]
      BY <1>1, <2>2
    <3>2. IsMethod(mts[r]) /\ Fits(mts[r], prs, hld, adm, mde, kno, bar)
      BY <3>1 DEF MethodsFit
    <3> QED BY <3>1, <3>2
  <2> QED BY <2>1, <2>2
<1>3. \A r, q \in Slots : r # q /\ new[r] # None /\ new[q] # None => Apart(new[r], new[q])
  <2> SUFFICES ASSUME NEW r \in Slots, NEW q \in Slots, r # q, new[r] # None, new[q] # None
               PROVE  Apart(new[r], new[q])
    OBVIOUS
  <2>1. CASE r = t
    BY <1>1, <2>1
  <2>2. CASE q = t
    BY <1>1, <2>2
  <2>3. CASE r # t /\ q # t
    BY <1>1, <2>3 DEF MethodsFit
  <2> QED BY <2>1, <2>2, <2>3
<1>4. MethodsFit(new, prs, hld2, adm2, mde2, kno2, bar2)
  BY <1>1, <1>2, <1>3 DEF MethodsFit
<1> QED BY <1>4 DEF new

(* No method moves.                                                        *)
LEMMA NoMethod ==
    ASSUME NEW mts, NEW prs, NEW hld, NEW adm, NEW mde, NEW kno, NEW bar,
           NEW hld2, NEW adm2, NEW mde2, NEW kno2, NEW bar2,
           MethodsFit(mts, prs, hld, adm, mde, kno, bar),
           \A r \in Slots : mts[r] # None /\ Fits(mts[r], prs, hld, adm, mde, kno, bar) =>
               Fits(mts[r], prs, hld2, adm2, mde2, kno2, bar2)
    PROVE  MethodsFit(mts, prs, hld2, adm2, mde2, kno2, bar2)
  BY DEF MethodsFit

(* More keys are made.                                                     *)
LEMMA FitsGrow ==
    ASSUME NEW x, NEW prs, NEW hld, NEW adm, NEW mde \in Nat, NEW kno, NEW bar,
           Fits(x, prs, hld, adm, mde, kno, bar)
    PROVE  Fits(x, prs, hld, adm, mde + 1, kno, bar)
<1>1. 0 .. mde \subseteq 0 .. mde + 1 /\ 1 .. mde \subseteq 1 .. mde + 1
  OBVIOUS
<1> QED BY <1>1 DEF Fits, AddFits, RotateFits

(* y is the method x at another of its statements, carrying new.           *)
GoesTo(x, y, at, new) ==
    /\ IsMethod(y) /\ y.op = x.op /\ y.at = at /\ y.by = x.by /\ y.id = x.id /\ y.to = x.to
    /\ y.key = x.key /\ y.new = new

LEMMA MethodRecord ==
    ASSUME NEW x, IsMethod(x), NEW at, NEW new
    PROVE  GoesTo(x, [x EXCEPT !.at = at, !.new = new], at, new)
  BY DEF GoesTo, IsMethod

(* Method t goes on.                                                       *)
LEMMA GoesIs ==
    ASSUME NEW t \in Slots, NEW at, NEW new, IsMethod(methods[t]), R!Goes(t, at, new)
    PROVE  \E y : methods' = [methods EXCEPT ![t] = y] /\ GoesTo(methods[t], y, at, new)
  BY MethodRecord DEF R!Goes

(* Fewer members are barred.                                               *)
LEMMA FitsUnbarred ==
    ASSUME NEW x, NEW prs, NEW hld, NEW adm, NEW mde, NEW kno, NEW bar, NEW bar2,
           Fits(x, prs, hld, adm, mde, kno, bar), \A g \in Groups : bar2[g] \subseteq bar[g]
    PROVE  Fits(x, prs, hld, adm, mde, kno, bar2)
  BY DEF Fits, AddFits

(* A method is called.                                                     *)
LEMMA CallKeeps ==
    ASSUME RelayInv, NEW t \in Slots, NEW x, R!Call(t, x), IsMethod(x), x.at = "lookup",
           Fits(x, pairs, held, admin, made, known, barred'),
           x.op = "add" => x.id \in Groups /\ x.key = held[x.id],
           barred' = [g \in Groups |-> barred'[g]], \A g \in Groups : barred'[g] \subseteq barred[g]
    PROVE  RelayInv'
<1>0. /\ UNCHANGED <<relay, pairs, held, admin, made, opened, known>>
      /\ methods' = [methods EXCEPT ![t] = x]
  BY DEF R!Call
<1>1. \A r \in Slots \ {t} : methods[r] # None => Apart(x, methods[r]) /\ Apart(methods[r], x)
  <2> SUFFICES ASSUME NEW r \in Slots, methods[r] # None
               PROVE  Apart(x, methods[r]) /\ Apart(methods[r], x)
    OBVIOUS
  <2>1. Fits(methods[r], pairs, held, admin, made, known, barred)
    BY DEF RelayInv, MethodsFit
  <2>2. ~Rotates(x)
    BY DEF Rotates
  <2>3. Rotates(methods[r]) => \A g \in Groups : held[g] # methods[r].new.sik
    BY <2>1 DEF Fits, RotateFits
  <2> QED BY <2>2, <2>3 DEF Apart
<1>2. MethodsFit([methods EXCEPT ![t] = x], pairs, held, admin, made, known, barred')
  <2>1. MethodsFit(methods, pairs, held, admin, made, known, barred)
    BY DEF RelayInv
  <2>2. \A r \in Slots \ {t} : methods[r] # None /\ Fits(methods[r], pairs, held, admin, made, known, barred) =>
            Fits(methods[r], pairs, held, admin, made, known, barred')
    BY FitsUnbarred
  <2> QED BY <1>1, <2>1, <2>2, OneMethod
<1>3. MethodsFit(methods, pairs, held, admin, made, known, barred)'
  BY <1>0, <1>2
<1>4. KeysFit(held, admin, made, known, barred)'
  BY <1>0 DEF RelayInv, KeysFit
<1>5. (Sealed(relay, pairs) /\ OwnPair(pairs) /\ R!OnlyAddressee)'
  BY <1>0 DEF RelayInv, R!OnlyAddressee, Sealed, OwnPair
<1> QED BY <1>3, <1>4, <1>5 DEF RelayInv

LEMMA MethodIs ==
    ASSUME NEW op, NEW u, NEW id, NEW to, NEW key, NEW new
    PROVE  LET x == R!Method(op, u, id, to, key, new)
           IN /\ IsMethod(x) /\ x.op = op /\ x.at = "lookup" /\ x.by = u /\ x.id = id /\ x.to = to
              /\ x.key = key /\ x.new = new
  BY DEF R!Method, IsMethod

LEMMA ShareItemKeeps ==
    ASSUME RelayInv, NEW t \in Slots, NEW u \in Users, NEW r \in Users, NEW i \in Items,
           R!CoreShareItem(t, u, i, r)
    PROVE  RelayInv'
<1> DEFINE x == R!Method("share", u, i, r, 0, None)
<1>1. R!Call(t, x) /\ barred' = barred
  BY DEF R!CoreShareItem
<1>2. /\ IsMethod(x) /\ x.op = "share" /\ x.at = "lookup" /\ x.to = r
  BY MethodIs
<1>3. barred' = [g \in Groups |-> barred'[g]] /\ \A g \in Groups : barred'[g] \subseteq barred[g]
  BY <1>1 DEF RelayInv, KeysFit
<1> HIDE DEF x
<1>4. Fits(x, pairs, held, admin, made, known, barred')
  BY <1>2 DEF Fits, Rotates
<1> QED BY <1>1, <1>2, <1>3, <1>4, CallKeeps

LEMMA AddMemberKeeps ==
    ASSUME RelayInv, NEW t \in Slots, NEW g \in Groups, NEW m \in Users, R!CoreAddMember(t, g, m)
    PROVE  RelayInv'
<1> DEFINE x == R!Method("add", admin[g], g, m, held[g], None)
<1>1. /\ R!Call(t, x) /\ admin[g] # None /\ m # admin[g]
      /\ barred' = [barred EXCEPT ![g] = barred[g] \ {m}]
  BY DEF R!CoreAddMember
<1>2. /\ IsMethod(x) /\ x.op = "add" /\ x.at = "lookup" /\ x.by = admin[g] /\ x.id = g /\ x.to = m
      /\ x.key = held[g]
  BY MethodIs
<1>3. /\ barred' = [h \in Groups |-> barred'[h]] /\ \A h \in Groups : barred'[h] \subseteq barred[h]
      /\ m \notin barred'[g]
  BY <1>1 DEF RelayInv, KeysFit
<1> HIDE DEF x
<1>4. Fits(x, pairs, held, admin, made, known, barred')
  <2>1. AddFits(x, held, admin, made, barred')
    BY <1>1, <1>2, <1>3 DEF AddFits, RelayInv, KeysFit
  <2>2. admin[g] \in Users
    BY <1>1 DEF RelayInv, KeysFit
  <2> QED BY <1>1, <1>2, <2>1, <2>2 DEF Fits, Rotates
<1> QED BY <1>1, <1>2, <1>3, <1>4, CallKeeps

LEMMA RotateKeeps ==
    ASSUME RelayInv, NEW t \in Slots, NEW g \in Groups, NEW m \in Users \cup {None},
           R!CoreRotate(t, g, m)
    PROVE  RelayInv'
<1> DEFINE x == R!Method("rotate", admin[g], g, m, held[g], None)
<1>1. R!Call(t, x) /\ admin[g] # None /\ m # admin[g] /\ barred' = barred
  BY DEF R!CoreRotate
<1>2. /\ IsMethod(x) /\ x.op = "rotate" /\ x.at = "lookup" /\ x.by = admin[g] /\ x.id = g /\ x.to = m
  BY MethodIs
<1>3. barred' = [h \in Groups |-> barred'[h]] /\ \A h \in Groups : barred'[h] \subseteq barred[h]
  BY <1>1 DEF RelayInv, KeysFit
<1> HIDE DEF x
<1>4. Fits(x, pairs, held, admin, made, known, barred')
  <2>2. admin[g] \in Users
    BY <1>1 DEF RelayInv, KeysFit
  <2> QED BY <1>1, <1>2, <2>2 DEF Fits, Rotates
<1> QED BY <1>1, <1>2, <1>3, <1>4, CallKeeps

(* A group is created.                                                     *)
LEMMA CreateGroupKeeps ==
    ASSUME RelayInv, NEW u \in Users, NEW g \in Groups, R!CoreCreateGroup(u, g)
    PROVE  RelayInv'
<1>0. /\ UNCHANGED <<relay, pairs, methods, opened, barred, known>>
      /\ admin[g] = None /\ made' = made + 1
      /\ admin' = [admin EXCEPT ![g] = u] /\ held' = [held EXCEPT ![g] = made + 1]
  BY DEF R!CoreCreateGroup
<1>1. KeysFit(held, admin, made, known, barred)
  BY DEF RelayInv
<1>2. /\ made \in Nat /\ 0 .. made \subseteq 0 .. made + 1 /\ 1 .. made \subseteq 1 .. made + 1
      /\ made + 1 \notin 0 .. made /\ made + 1 \notin 1 .. made /\ made + 1 \in 0 .. made + 1
  BY <1>1 DEF KeysFit
<1>3. /\ held' = [h \in Groups |-> held'[h]] /\ held'[g] = made + 1
      /\ admin' = [h \in Groups |-> admin'[h]] /\ admin'[g] = u
      /\ \A h \in Groups \ {g} : held'[h] = held[h] /\ admin'[h] = admin[h]
  BY <1>0, <1>1 DEF KeysFit
<1>4. \A x : Fits(x, pairs, held, admin, made, known, barred) => Fits(x, pairs, held', admin', made', known, barred)
  <2> SUFFICES ASSUME NEW x, Fits(x, pairs, held, admin, made, known, barred)
               PROVE  Fits(x, pairs, held', admin', made', known, barred)
    OBVIOUS
  <2>1. x.op # "share" => x.id \in Groups \ {g}
    BY <1>0 DEF Fits
  <2>2. x.op = "add" => AddFits(x, held', admin', made', barred)
    BY <1>0, <1>2, <1>3, <2>1 DEF Fits, AddFits
  <2>3. Rotates(x) => RotateFits(x, held', made', known)
    BY <1>0, <1>2, <1>3 DEF Fits, RotateFits
  <2> QED BY <1>3, <2>1, <2>2, <2>3 DEF Fits
<1>5. MethodsFit(methods, pairs, held, admin, made, known, barred)'
  <2>1. MethodsFit(methods, pairs, held', admin', made', known, barred)
    BY <1>4, NoMethod DEF RelayInv
  <2> QED BY <1>0, <2>1
<1>6. KeysFit(held, admin, made, known, barred)'
  <2>1. \A h \in Groups : held'[h] \in 0 .. made'
    BY <1>0, <1>1, <1>2, <1>3 DEF KeysFit
  <2>2. \A v \in Users : known[v] \subseteq 0 .. made'
    BY <1>0, <1>1, <1>2 DEF KeysFit
  <2>3. \A h, k \in Groups : admin'[h] # None /\ admin'[k] # None /\ held'[h] = held'[k] => h = k
    BY <1>1, <1>2, <1>3 DEF KeysFit
  <2>4. \A h \in Groups : /\ barred[h] \subseteq Users /\ admin'[h] \notin barred[h]
                          /\ admin'[h] \in Users \cup {None} /\ (admin'[h] = None => barred[h] = {})
                          /\ \A m \in barred[h] : held'[h] \notin known[m]
    BY <1>0, <1>1, <1>3 DEF KeysFit
  <2>5. /\ made' \in Nat /\ known = [v \in Users |-> known[v]] /\ barred = [h \in Groups |-> barred[h]]
        /\ known' = known /\ barred' = barred
    BY <1>0, <1>1, <1>2 DEF KeysFit
  <2>6. KeysFit(held', admin', made', known, barred)
    BY <1>3, <2>1, <2>2, <2>3, <2>4, <2>5 DEF KeysFit
  <2> QED BY <2>5, <2>6
<1>7. (Sealed(relay, pairs) /\ OwnPair(pairs) /\ R!OnlyAddressee)'
  BY <1>0 DEF RelayInv, R!OnlyAddressee, Sealed, OwnPair
<1> QED BY <1>5, <1>6, <1>7 DEF RelayInv

(* One method moves, and keys and groups stay as they are.                 *)
LEMMA MethodMoves ==
    ASSUME RelayInv, NEW t \in Slots, NEW y, methods' = [methods EXCEPT ![t] = y],
           UNCHANGED <<pairs, held, admin, made, known, barred>>,
           y # None => /\ IsMethod(y) /\ Fits(y, pairs, held, admin, made, known, barred)
                       /\ \A r \in Slots \ {t} : methods[r] # None => Apart(y, methods[r]) /\ Apart(methods[r], y)
    PROVE  /\ MethodsFit(methods, pairs, held, admin, made, known, barred)'
           /\ KeysFit(held, admin, made, known, barred)' /\ OwnPair(pairs)'
<1>1. MethodsFit(methods', pairs, held, admin, made, known, barred)
  BY OneMethod DEF RelayInv
<1> QED BY <1>1 DEF RelayInv, KeysFit, OwnPair

(* A method that did not rotate and does not rotate is apart as it was.    *)
LEMMA StillApart ==
    ASSUME NEW x, NEW y, NEW z, Apart(x, z), Apart(z, x), y.op = x.op, y.key = x.key,
           Rotates(y) => Rotates(x) /\ y.new = x.new
    PROVE  Apart(y, z) /\ Apart(z, y)
  BY DEF Apart, Rotates

LEMMA AllApart ==
    ASSUME RelayInv, NEW t \in Slots, methods[t] # None, NEW y, y.op = methods[t].op, y.key = methods[t].key,
           Rotates(y) => Rotates(methods[t]) /\ y.new = methods[t].new
    PROVE  \A r \in Slots \ {t} : methods[r] # None => Apart(y, methods[r]) /\ Apart(methods[r], y)
  BY StillApart DEF RelayInv, MethodsFit

(* A method ends, or a call of the relay fails.                            *)
LEMMA DoneKeeps ==
    ASSUME RelayInv, NEW t \in Slots, R!Done(t), UNCHANGED <<pairs, held, admin, made, opened, known, barred>>,
           Sealed(relay', pairs)
    PROVE  RelayInv'
<1>1. methods' = [methods EXCEPT ![t] = None]
  BY DEF R!Done
<1>2. /\ MethodsFit(methods, pairs, held, admin, made, known, barred)'
      /\ KeysFit(held, admin, made, known, barred)' /\ OwnPair(pairs)'
  BY <1>1, MethodMoves
<1>3. Sealed(relay, pairs)' /\ R!OnlyAddressee'
  BY DEF RelayInv, R!OnlyAddressee
<1> QED BY <1>2, <1>3 DEF RelayInv

LEMMA FailsRelayKeeps ==
    ASSUME RelayInv, NEW t \in Slots, R!RelayFails(t)
    PROVE  RelayInv'
<1>1. Sealed(relay', pairs)
  BY DEF R!RelayFails, RelayInv
<1> QED BY <1>1, DoneKeeps DEF R!RelayFails

LEMMA PostShareKeeps ==
    ASSUME RelayInv, NEW t \in Slots, R!PostShare(t)
    PROVE  RelayInv'
<1> DEFINE x == methods[t]
           e == [item |-> x.id, to |-> x.to, env |-> x.new.env, payload |-> x.new.payload]
<1>1. /\ x # None /\ x.op = "share" /\ x.at = "post" /\ R!Goes(t, "payload", x.new)
      /\ relay' = [relay EXCEPT !.inbox = relay.inbox \cup {e}]
      /\ UNCHANGED <<pairs, held, admin, made, count, opened, barred, known>>
  BY DEF R!PostShare, R!On
<1>2. IsMethod(x) /\ Fits(x, pairs, held, admin, made, known, barred)
  BY <1>1 DEF RelayInv, MethodsFit
<1>3. PICK y : methods' = [methods EXCEPT ![t] = y] /\ GoesTo(x, y, "payload", x.new)
  BY <1>1, <1>2, GoesIs
<1>4. \A r \in Slots \ {t} : methods[r] # None => Apart(y, methods[r]) /\ Apart(methods[r], y)
  <2>1. y.op = methods[t].op /\ y.key = methods[t].key /\ ~Rotates(y) /\ methods[t] # None
    BY <1>1, <1>3 DEF GoesTo, Rotates
  <2> QED BY <2>1, AllApart
<1>5. Fits(y, pairs, held, admin, made, known, barred)
  BY <1>1, <1>2, <1>3 DEF Fits, GoesTo, Rotates
<1>6. /\ MethodsFit(methods, pairs, held, admin, made, known, barred)'
      /\ KeysFit(held, admin, made, known, barred)' /\ OwnPair(pairs)'
  BY <1>1, <1>3, <1>4, <1>5, MethodMoves DEF GoesTo
<1>7. Sealed(relay, pairs)'
  <2>1. /\ e = [item |-> e.item, to |-> e.to, env |-> e.env, payload |-> e.payload]
        /\ e.to = x.to /\ e.env = x.new.env
    OBVIOUS
  <2>2. e.to \in Users /\ e.env.pk = pairs[e.to]
    BY <1>1, <1>2, <2>1 DEF Fits
  <2> HIDE DEF x, e
  <2>3. relay'.inbox = relay.inbox \cup {e} /\ DOMAIN relay' = DOMAIN relay /\ relay' = [f \in DOMAIN relay' |-> relay'[f]]
    BY <1>1 DEF RelayInv, Sealed
  <2> QED BY <1>1, <2>1, <2>2, <2>3 DEF RelayInv, Sealed
<1> QED BY <1>1, <1>6, <1>7 DEF RelayInv, R!OnlyAddressee

(* The payload of a share, and the wraps of a group, are not in an inbox.  *)
LEMMA SealedElsewhere ==
    ASSUME NEW rel, NEW rel2, NEW prs, Sealed(rel, prs), DOMAIN rel2 = DOMAIN rel,
           rel2 = [f \in DOMAIN rel2 |-> rel2[f]], rel2.inbox \subseteq rel.inbox
    PROVE  Sealed(rel2, prs)
  BY DEF Sealed

LEMMA PostPayloadKeeps ==
    ASSUME RelayInv, NEW t \in Slots, R!PostPayload(t)
    PROVE  RelayInv'
<1>1. /\ R!Done(t) /\ UNCHANGED <<pairs, held, admin, made, count, opened, barred, known>>
      /\ relay' = [relay EXCEPT !.payloads = [relay.payloads EXCEPT ![methods[t].id] = methods[t].new.payload]]
  BY DEF R!PostPayload
<1>2. relay'.inbox = relay.inbox /\ DOMAIN relay' = DOMAIN relay /\ relay' = [f \in DOMAIN relay' |-> relay'[f]]
  BY <1>1 DEF RelayInv, Sealed
<1>3. Sealed(relay', pairs)
  BY <1>2, SealedElsewhere DEF RelayInv
<1> QED BY <1>1, <1>3, DoneKeeps

LEMMA CoreRevokeKeeps ==
    ASSUME RelayInv, NEW i \in Items, R!CoreRevoke(i)
    PROVE  RelayInv'
<1>1. /\ UNCHANGED <<pairs, held, admin, methods, made, opened, barred, known>>
      /\ relay' = [relay EXCEPT !.payloads = [relay.payloads EXCEPT ![i] = None],
                                !.inbox = {e \in relay.inbox : e.item # i}]
  BY DEF R!CoreRevoke
<1>2. /\ relay'.inbox = {e \in relay.inbox : e.item # i}
      /\ DOMAIN relay' = DOMAIN relay /\ relay' = [f \in DOMAIN relay' |-> relay'[f]]
  BY <1>1 DEF RelayInv, Sealed
<1>3. Sealed(relay', pairs)
  BY <1>2, SealedElsewhere DEF RelayInv
<1> QED BY <1>1, <1>3 DEF RelayInv, R!OnlyAddressee, MethodsFit, KeysFit, OwnPair

(* Only the addressee has the key pair an entry is sealed for.             *)
LEMMA AcceptKeeps ==
    ASSUME RelayInv, NEW u \in Users, R!CoreAccept(u)
    PROVE  RelayInv'
<1>0. UNCHANGED <<relay, pairs, held, admin, methods, made, count, barred, known>>
  BY DEF R!CoreAccept
<1>1. PICK f \in R!fetch_inbox : /\ R!AcceptShare(pairs[u], f.item, f.env, f.payload) # 0
                                 /\ opened' = opened \cup {<<u, f.to>>}
  BY DEF R!CoreAccept
<1>2. PICK e \in relay.inbox :
        f = [e EXCEPT !.payload = IF relay.payloads[e.item] = None THEN e.payload ELSE relay.payloads[e.item]]
  BY DEF R!fetch_inbox
<1>3. /\ e = [item |-> e.item, to |-> e.to, env |-> e.env, payload |-> e.payload]
      /\ e.to \in Users /\ e.env.pk = pairs[e.to]
  BY DEF RelayInv, Sealed
<1>4. f.to = e.to /\ f.env = e.env
  BY <1>2, <1>3
<1>5. f.env.pk = pairs[u]
  BY <1>1 DEF R!AcceptShare, R!Opens, R!KemUnwrap
<1>6. u = f.to
  BY <1>3, <1>4, <1>5 DEF RelayInv, OwnPair
<1>7. R!OnlyAddressee'
  BY <1>1, <1>6 DEF RelayInv, R!OnlyAddressee
<1> QED BY <1>0, <1>7 DEF RelayInv

(* A method moves and has generated a key.                                 *)
LEMMA MakesKey ==
    ASSUME RelayInv, NEW t \in Slots, NEW y, methods' = [methods EXCEPT ![t] = y], made' = made + 1,
           UNCHANGED <<relay, pairs, held, admin, opened, known, barred>>,
           y # None => /\ IsMethod(y) /\ Fits(y, pairs, held, admin, made + 1, known, barred)
                       /\ \A r \in Slots \ {t} : methods[r] # None => Apart(y, methods[r]) /\ Apart(methods[r], y)
    PROVE  RelayInv'
<1>1. KeysFit(held, admin, made, known, barred) /\ MethodsFit(methods, pairs, held, admin, made, known, barred)
  BY DEF RelayInv
<1>2. made \in Nat /\ made + 1 \in Nat /\ 0 .. made \subseteq 0 .. made + 1
  BY <1>1 DEF KeysFit
<1>3. MethodsFit([methods EXCEPT ![t] = y], pairs, held, admin, made + 1, known, barred)
  <2>1. \A r \in Slots \ {t} : methods[r] # None /\ Fits(methods[r], pairs, held, admin, made, known, barred) =>
            Fits(methods[r], pairs, held, admin, made + 1, known, barred)
    BY <1>2, FitsGrow
  <2> QED BY <1>1, <2>1, OneMethod
<1>4. KeysFit(held, admin, made + 1, known, barred)
  BY <1>1, <1>2 DEF KeysFit
<1> QED BY <1>3, <1>4 DEF RelayInv, R!OnlyAddressee, Sealed, OwnPair

LEMMA FetchShareKeeps ==
    ASSUME RelayInv, NEW t \in Slots, R!FetchKey(t), methods[t].op = "share"
    PROVE  RelayInv'
<1> DEFINE x == methods[t]
           n == R!ShareItem(made + 1, x.id, pairs[x.to])
<1>1. /\ x # None /\ x.at = "lookup" /\ made' = made + 1 /\ R!Goes(t, "post", n)
      /\ UNCHANGED <<relay, pairs, held, admin, count, opened, barred, known>>
  BY DEF R!FetchKey
<1>2. IsMethod(x) /\ Fits(x, pairs, held, admin, made, known, barred)
  BY <1>1 DEF RelayInv, MethodsFit
<1>3. PICK y : methods' = [methods EXCEPT ![t] = y] /\ GoesTo(x, y, "post", n)
  BY <1>1, <1>2, GoesIs
<1>4. \A r \in Slots \ {t} : methods[r] # None => Apart(y, methods[r]) /\ Apart(methods[r], y)
  <2>1. y.op = methods[t].op /\ y.key = methods[t].key /\ ~Rotates(y) /\ methods[t] # None
    BY <1>1, <1>3 DEF GoesTo, Rotates
  <2> QED BY <2>1, AllApart
<1>5. Fits(y, pairs, held, admin, made + 1, known, barred)
  <2>1. n.env.pk = pairs[x.to]
    BY DEF R!ShareItem, R!KemWrap
  <2>2. y.op = "share" /\ y.to = x.to /\ y.to \in Users /\ y.new = n
    BY <1>2, <1>3 DEF GoesTo, Fits
  <2> QED BY <2>1, <2>2 DEF Fits, Rotates
<1> QED BY <1>1, <1>3, <1>4, <1>5, MakesKey DEF GoesTo

LEMMA FetchAddKeeps ==
    ASSUME RelayInv, NEW t \in Slots, R!FetchKey(t), methods[t].op = "add"
    PROVE  RelayInv'
<1> DEFINE x == methods[t]
           n == R!WrapGroupKey(x.key, x.id, pairs[x.to])
<1>1. /\ x # None /\ x.at = "lookup" /\ made' = made /\ R!Goes(t, "post", n)
      /\ UNCHANGED <<relay, pairs, held, admin, count, opened, barred, known>>
  BY DEF R!FetchKey
<1>2. IsMethod(x) /\ Fits(x, pairs, held, admin, made, known, barred)
  BY <1>1 DEF RelayInv, MethodsFit
<1>3. PICK y : methods' = [methods EXCEPT ![t] = y] /\ GoesTo(x, y, "post", n)
  BY <1>1, <1>2, GoesIs
<1>4. \A r \in Slots \ {t} : methods[r] # None => Apart(y, methods[r]) /\ Apart(methods[r], y)
  <2>1. y.op = methods[t].op /\ y.key = methods[t].key /\ ~Rotates(y) /\ methods[t] # None
    BY <1>1, <1>3 DEF GoesTo, Rotates
  <2> QED BY <2>1, AllApart
<1>5. Fits(y, pairs, held, admin, made, known, barred)
  <2>1. n.sik = x.key
    BY DEF R!WrapGroupKey, R!KemWrap
  <2>2. /\ y.op = "add" /\ y.to = x.to /\ y.id = x.id /\ y.by = x.by /\ y.key = x.key /\ y.new = n
        /\ x.op = "add"
    BY <1>2, <1>3 DEF GoesTo
  <2>3. AddFits(y, held, admin, made, barred)
    BY <1>2, <2>1, <2>2 DEF Fits, AddFits
  <2> QED BY <1>2, <2>2, <2>3 DEF Fits, Rotates
<1>6. /\ MethodsFit(methods, pairs, held, admin, made, known, barred)'
      /\ KeysFit(held, admin, made, known, barred)' /\ OwnPair(pairs)'
  BY <1>1, <1>3, <1>4, <1>5, MethodMoves DEF GoesTo
<1> QED BY <1>1, <1>6 DEF RelayInv, R!OnlyAddressee, Sealed

LEMMA FetchRotateKeeps ==
    ASSUME RelayInv, NEW t \in Slots, R!FetchKey(t), methods[t].op = "rotate"
    PROVE  RelayInv'
<1> DEFINE x == methods[t]
           n == R!RemoveGroupMember(x.key, made + 1, x.id, x.to, [u \in {x.by} |-> pairs[u]])
<1>1. /\ x # None /\ x.at = "lookup" /\ made' = made + 1
      /\ IF n.ok THEN R!Goes(t, "post", n) ELSE R!Done(t)
      /\ UNCHANGED <<relay, pairs, held, admin, count, opened, barred, known>>
  BY DEF R!FetchKey
<1>2. IsMethod(x) /\ Fits(x, pairs, held, admin, made, known, barred) /\ x.op = "rotate"
  BY <1>1 DEF RelayInv, MethodsFit
<1>3. n.ok /\ n.sik = made + 1 /\ DOMAIN n.wraps = {x.by} /\ n.wraps[x.by].sik = made + 1
  <2> DEFINE pks == [u \in {x.by} |-> pairs[u]]
  <2>1. x.to # x.by /\ DOMAIN pks = {x.by} /\ n = R!RemoveGroupMember(x.key, made + 1, x.id, x.to, pks)
    BY <1>2 DEF Fits
  <2> DEFINE k == made + 1
             r == R!RemoveGroupMember(x.key, k, x.id, x.to, pks)
  <2>2. n = r
    BY <2>1
  <2> HIDE DEF pks, n, x, k
  <2>3. r.ok /\ r.sik = k /\ DOMAIN r.wraps = {x.by} /\ r.wraps[x.by].sik = k
    BY <2>1 DEF R!RemoveGroupMember, R!RotateGroupSik, R!WrapGroupKey, R!KemWrap
  <2> HIDE DEF r
  <2> QED BY <2>2, <2>3 DEF k
<1> HIDE DEF n
<1>4. PICK y : methods' = [methods EXCEPT ![t] = y] /\ GoesTo(x, y, "post", n)
  BY <1>1, <1>2, <1>3, GoesIs
<1>5. /\ y.op = "rotate" /\ y.to = x.to /\ y.id = x.id /\ y.by = x.by /\ y.new = n /\ y.at = "post"
      /\ IsMethod(y)
  BY <1>2, <1>4 DEF GoesTo
<1>6. KeysFit(held, admin, made, known, barred)
  BY DEF RelayInv
<1>7. made + 1 \in 1 .. made + 1 /\ made + 1 \notin 0 .. made /\ made + 1 \notin 1 .. made
  BY <1>6 DEF KeysFit
<1>8. \A r \in Slots \ {t} : methods[r] # None => Apart(y, methods[r]) /\ Apart(methods[r], y)
  <2> SUFFICES ASSUME NEW r \in Slots, methods[r] # None
               PROVE  Apart(y, methods[r]) /\ Apart(methods[r], y)
    OBVIOUS
  <2>1. Fits(methods[r], pairs, held, admin, made, known, barred)
    BY DEF RelayInv, MethodsFit
  <2>2. methods[r].op = "add" => methods[r].key \in 0 .. made
    BY <2>1 DEF Fits, AddFits
  <2>3. Rotates(methods[r]) => methods[r].new.sik \in 1 .. made
    BY <2>1 DEF Fits, RotateFits
  <2>4. y.op # "add" /\ y.new.sik = made + 1
    BY <1>3, <1>5
  <2> QED BY <1>7, <2>2, <2>3, <2>4 DEF Apart
<1>9. Fits(y, pairs, held, admin, made + 1, known, barred)
  <2>1. RotateFits(y, held, made + 1, known)
    BY <1>3, <1>5, <1>6, <1>7 DEF RotateFits, KeysFit
  <2> QED BY <1>2, <1>5, <2>1 DEF Fits
<1> QED BY <1>1, <1>4, <1>5, <1>8, <1>9, MakesKey

LEMMA FetchKeyKeeps ==
    ASSUME RelayInv, NEW t \in Slots, R!FetchKey(t)
    PROVE  RelayInv'
<1>1. methods[t].op \in {"share", "add", "rotate"}
  BY DEF R!FetchKey
<1> QED BY <1>1, FetchShareKeeps, FetchAddKeeps, FetchRotateKeeps

LEMMA StoreWrappedKeeps ==
    ASSUME RelayInv, NEW t \in Slots, R!StoreWrapped(t)
    PROVE  RelayInv'
<1> DEFINE x == methods[t]
<1>1. /\ x # None /\ x.op = "add" /\ x.at = "post" /\ methods' = [methods EXCEPT ![t] = None]
      /\ relay' = [relay EXCEPT !.wrapped = [relay.wrapped EXCEPT ![<<x.id, x.to>>] = x.new]]
      /\ known' = [known EXCEPT ![x.to] = known[x.to] \cup {x.new.sik}]
      /\ UNCHANGED <<pairs, held, admin, made, count, opened, barred>>
  BY DEF R!StoreWrapped, R!On, R!Done
<1>2. Fits(x, pairs, held, admin, made, known, barred)
  BY <1>1 DEF RelayInv, MethodsFit
<1>3. AddFits(x, held, admin, made, barred) /\ x.new.sik = x.key /\ x.to \in Users /\ x.key \in 0 .. made
  BY <1>1, <1>2 DEF Fits, AddFits
<1>4. KeysFit(held, admin, made, known, barred) /\ MethodsFit(methods, pairs, held, admin, made, known, barred)
  BY DEF RelayInv
<1>5. /\ known' = [u \in Users |-> known'[u]]
      /\ \A v \in Users : known'[v] = IF v = x.to THEN known[v] \cup {x.key} ELSE known[v]
  BY <1>1, <1>3, <1>4 DEF KeysFit
<1>6. MethodsFit(methods', pairs, held, admin, made, known', barred)
  <2>1. ASSUME NEW r \in Slots \ {t}, methods[r] # None, Fits(methods[r], pairs, held, admin, made, known, barred)
        PROVE  Fits(methods[r], pairs, held, admin, made, known', barred)
    <3>1. Apart(methods[r], x)
      BY <1>1, <1>4, <2>1 DEF MethodsFit
    <3>2. Rotates(methods[r]) /\ methods[r].new.sik = x.key => x.to = methods[r].by
      BY <1>1, <3>1 DEF Apart
    <3> DEFINE z == methods[r]
    <3>3. Fits(z, pairs, held, admin, made, known, barred)
      BY <2>1
    <3>4. Rotates(z) /\ z.new.sik = x.key => x.to = z.by
      BY <3>2
    <3> HIDE DEF x, z
    <3>5. Rotates(z) => RotateFits(z, held, made, known')
      BY <1>5, <3>3, <3>4 DEF Fits, RotateFits
    <3>6. Fits(z, pairs, held, admin, made, known', barred)
      BY <3>3, <3>5 DEF Fits
    <3> QED BY <3>6 DEF z
  <2> QED BY <1>1, <1>4, <2>1, OneMethod
<1>7. KeysFit(held, admin, made, known', barred)
  <2>1. \A g \in Groups : \A m \in barred[g] : held[g] \notin known'[m]
    <3> SUFFICES ASSUME NEW g \in Groups, NEW m \in barred[g], held[g] \in known'[m]
                 PROVE  FALSE
      OBVIOUS
    <3>1. admin[g] # None /\ m \in Users /\ held[g] \notin known[m]
      BY <1>4 DEF KeysFit
    <3>2. m = x.to /\ held[g] = x.key
      BY <1>5, <3>1
    <3>3. x.id = g /\ x.to \notin barred[x.id]
      BY <1>3, <3>1, <3>2 DEF AddFits
    <3> QED BY <3>2, <3>3
  <2>2. \A u \in Users : known'[u] \subseteq 0 .. made
    BY <1>3, <1>4, <1>5 DEF KeysFit
  <2> QED BY <1>4, <1>5, <2>1, <2>2 DEF KeysFit
<1>8. Sealed(relay', pairs)
  <2>1. relay'.inbox = relay.inbox /\ DOMAIN relay' = DOMAIN relay /\ relay' = [f \in DOMAIN relay' |-> relay'[f]]
    BY <1>1 DEF RelayInv, Sealed
  <2> QED BY <2>1, SealedElsewhere DEF RelayInv
<1> QED BY <1>1, <1>6, <1>7, <1>8 DEF RelayInv, R!OnlyAddressee, OwnPair

LEMMA ReplaceWrappedKeeps ==
    ASSUME RelayInv, NEW t \in Slots, R!ReplaceWrapped(t)
    PROVE  RelayInv'
<1> DEFINE x == methods[t]
           n == x.new.wraps
           s == x.new.sik
<1>1. /\ x # None /\ x.op = "rotate" /\ x.at = "post" /\ R!Goes(t, "keep", x.new)
      /\ known' = [u \in Users |-> IF u \in DOMAIN n THEN known[u] \cup {n[u].sik} ELSE known[u]]
      /\ UNCHANGED <<pairs, held, admin, made, count, opened, barred>>
  BY DEF R!ReplaceWrapped, R!On
<1>2. IsMethod(x) /\ Fits(x, pairs, held, admin, made, known, barred) /\ Rotates(x)
  BY <1>1 DEF RelayInv, MethodsFit, Rotates
<1>3. /\ RotateFits(x, held, made, known) /\ x.by \in Users /\ DOMAIN n = {x.by} /\ n[x.by].sik = s
      /\ s \in 1 .. made
  BY <1>1, <1>2 DEF Fits, RotateFits
<1>4. KeysFit(held, admin, made, known, barred) /\ MethodsFit(methods, pairs, held, admin, made, known, barred)
  BY DEF RelayInv
<1>5. /\ known' = [u \in Users |-> known'[u]]
      /\ \A v \in Users : known'[v] = IF v = x.by THEN known[v] \cup {s} ELSE known[v]
  BY <1>1, <1>3
<1>6. PICK y : methods' = [methods EXCEPT ![t] = y] /\ GoesTo(x, y, "keep", x.new)
  BY <1>1, <1>2, GoesIs
<1>7. /\ y.op = "rotate" /\ y.to = x.to /\ y.id = x.id /\ y.by = x.by /\ y.new = x.new /\ y.at = "keep"
      /\ y.key = x.key /\ IsMethod(y)
  BY <1>1, <1>6 DEF GoesTo
<1>8. \A r \in Slots \ {t} : methods[r] # None => Apart(y, methods[r]) /\ Apart(methods[r], y)
  <2>1. y.op = methods[t].op /\ y.key = methods[t].key /\ Rotates(methods[t]) /\ methods[t] # None
        /\ y.new = methods[t].new
    BY <1>1, <1>2, <1>7
  <2> QED BY <2>1, AllApart
<1>9. Fits(y, pairs, held, admin, made, known', barred)
  <2>1. RotateFits(y, held, made, known')
    BY <1>3, <1>5, <1>7 DEF RotateFits
  <2> QED BY <1>1, <1>2, <1>7, <2>1 DEF Fits
<1>10. MethodsFit(methods', pairs, held, admin, made, known', barred)
  <2>1. ASSUME NEW r \in Slots \ {t}, methods[r] # None, Fits(methods[r], pairs, held, admin, made, known, barred)
        PROVE  Fits(methods[r], pairs, held, admin, made, known', barred)
    <3>1. Apart(x, methods[r])
      BY <1>1, <1>4, <2>1 DEF MethodsFit
    <3>2. Rotates(methods[r]) /\ methods[r].new.sik = s => x.by = methods[r].by
      BY <1>2, <3>1 DEF Apart
    <3> DEFINE z == methods[r]
    <3>3. Fits(z, pairs, held, admin, made, known, barred)
      BY <2>1
    <3>4. Rotates(z) /\ z.new.sik = s => x.by = z.by
      BY <3>2
    <3> HIDE DEF x, z, s
    <3>5. Rotates(z) => RotateFits(z, held, made, known')
      BY <1>5, <3>3, <3>4 DEF Fits, RotateFits
    <3>6. Fits(z, pairs, held, admin, made, known', barred)
      BY <3>3, <3>5 DEF Fits
    <3> QED BY <3>6 DEF z
  <2> QED BY <1>4, <1>6, <1>7, <1>8, <1>9, <2>1, OneMethod
<1>11. KeysFit(held, admin, made, known', barred)
  <2>1. \A g \in Groups : \A m \in barred[g] : held[g] \notin known'[m]
    BY <1>3, <1>4, <1>5 DEF KeysFit, RotateFits
  <2>2. \A u \in Users : known'[u] \subseteq 0 .. made
    BY <1>3, <1>4, <1>5 DEF KeysFit
  <2> QED BY <1>4, <1>5, <2>1, <2>2 DEF KeysFit
<1>12. Sealed(relay', pairs)
  <2>1. PICK w : relay' = [relay EXCEPT !.wrapped = w]
    BY DEF R!ReplaceWrapped
  <2>2. relay'.inbox = relay.inbox /\ DOMAIN relay' = DOMAIN relay /\ relay' = [f \in DOMAIN relay' |-> relay'[f]]
    BY <2>1 DEF RelayInv, Sealed
  <2> QED BY <2>2, SealedElsewhere DEF RelayInv
<1> QED BY <1>1, <1>10, <1>11, <1>12 DEF RelayInv, R!OnlyAddressee, OwnPair

LEMMA KeepNewKeyKeeps ==
    ASSUME RelayInv, NEW t \in Slots, R!KeepNewKey(t)
    PROVE  RelayInv'
<1> DEFINE x == methods[t]
           g == x.id
           s == x.new.sik
<1>1. /\ x # None /\ x.op = "rotate" /\ x.at = "keep" /\ methods' = [methods EXCEPT ![t] = None]
      /\ held' = [held EXCEPT ![g] = s]
      /\ barred' = [barred EXCEPT ![g] = barred[g] \cup ({x.to} \ {None})]
      /\ UNCHANGED <<relay, pairs, admin, made, count, opened, known>>
  BY DEF R!KeepNewKey, R!On, R!Done
<1>2. Fits(x, pairs, held, admin, made, known, barred) /\ Rotates(x)
  BY <1>1 DEF RelayInv, MethodsFit, Rotates
<1>3. /\ RotateFits(x, held, made, known) /\ g \in Groups /\ s \in 1 .. made
      /\ admin[g] # None /\ x.by = admin[g] /\ x.to # admin[g] /\ x.to \in Users \cup {None}
  BY <1>1, <1>2 DEF Fits, RotateFits
<1>4. KeysFit(held, admin, made, known, barred) /\ MethodsFit(methods, pairs, held, admin, made, known, barred)
  BY DEF RelayInv
<1>5. /\ held' = [h \in Groups |-> held'[h]] /\ barred' = [h \in Groups |-> barred'[h]]
      /\ held'[g] = s /\ barred'[g] = barred[g] \cup ({x.to} \ {None})
      /\ \A h \in Groups \ {g} : held'[h] = held[h] /\ barred'[h] = barred[h]
  BY <1>1, <1>3, <1>4 DEF KeysFit
<1>6. MethodsFit(methods', pairs, held', admin, made, known, barred')
  <2>1. ASSUME NEW r \in Slots \ {t}, methods[r] # None, Fits(methods[r], pairs, held, admin, made, known, barred)
        PROVE  Fits(methods[r], pairs, held', admin, made, known, barred')
    <3>1. Apart(x, methods[r])
      BY <1>1, <1>4, <2>1 DEF MethodsFit
    <3>2. /\ methods[r].op = "add" => methods[r].key # s
          /\ Rotates(methods[r]) => methods[r].new.sik # s
      BY <1>2, <3>1 DEF Apart
    <3> DEFINE z == methods[r]
    <3>3. Fits(z, pairs, held, admin, made, known, barred)
      BY <2>1
    <3>4. (z.op = "add" => z.key # s) /\ (Rotates(z) => z.new.sik # s)
      BY <3>2
    <3> HIDE DEF x, g, s, z
    <3>5. z.op = "add" => AddFits(z, held', admin, made, barred')
      BY <1>3, <1>5, <3>3, <3>4 DEF Fits, AddFits
    <3>6. Rotates(z) => RotateFits(z, held', made, known)
      BY <1>3, <1>5, <3>3, <3>4 DEF Fits, RotateFits
    <3>7. Fits(z, pairs, held', admin, made, known, barred')
      BY <3>3, <3>5, <3>6 DEF Fits
    <3> QED BY <3>7 DEF z
  <2> QED BY <1>1, <1>4, <2>1, OneMethod
<1>7. KeysFit(held', admin, made, known, barred')
  <2> HIDE DEF x, g
  <2>1. (\A h \in Groups : held[h] # s) /\ (\A u \in Users : s \in known[u] => u = admin[g])
    BY <1>3 DEF RotateFits
  <2>2. s \in 0 .. made
    BY <1>3, <1>4 DEF KeysFit
  <2> HIDE DEF s
  <2>3. \A h \in Groups : held'[h] \in 0 .. made
    BY <1>4, <1>5, <2>2 DEF KeysFit
  <2>4. \A h, k \in Groups : admin[h] # None /\ admin[k] # None /\ held'[h] = held'[k] => h = k
    BY <1>4, <1>5, <2>1 DEF KeysFit
  <2>5. ASSUME NEW h \in Groups
        PROVE  /\ barred'[h] \subseteq Users /\ admin[h] \notin barred'[h]
               /\ admin[h] = None => barred'[h] = {}
               /\ \A m \in barred'[h] : held'[h] \notin known[m]
    BY <1>3, <1>4, <1>5, <2>1 DEF KeysFit
  <2> QED BY <1>4, <1>5, <2>3, <2>4, <2>5 DEF KeysFit
<1> QED BY <1>1, <1>6, <1>7 DEF RelayInv, R!OnlyAddressee, OwnPair, Sealed

LEMMA RelaySteps == RelayInv /\ [Next]_vars => RelayInv'
<1> SUFFICES ASSUME RelayInv, [Next]_vars
             PROVE  RelayInv'
  OBVIOUS
<1>1. CASE UNCHANGED core
  BY <1>1 DEF core, RelayInv, MethodsFit, KeysFit, Sealed, OwnPair, R!OnlyAddressee
<1>2. CASE R!RelayNext
  <2>1. ASSUME NEW t \in Slots,
               R!FetchKey(t) \/ R!PostShare(t) \/ R!PostPayload(t) \/ R!StoreWrapped(t)
                 \/ R!ReplaceWrapped(t) \/ R!KeepNewKey(t) \/ R!RelayFails(t)
        PROVE  RelayInv'
    BY <2>1, FetchKeyKeeps, PostShareKeeps, PostPayloadKeeps, StoreWrappedKeeps, ReplaceWrappedKeeps,
       KeepNewKeyKeeps, FailsRelayKeeps
  <2> QED BY <1>2, <2>1, ShareItemKeeps, CreateGroupKeeps, AddMemberKeeps, RotateKeeps, AcceptKeeps,
             CoreRevokeKeeps DEF R!RelayNext
<1> QED BY <1>1, <1>2 DEF Next, vars

LEMMA RelayStarts == Init => RelayInv
<1> SUFFICES ASSUME NEW m \in Mixes, R!RelayInit(m.methods)
             PROVE  RelayInv
  BY DEF Init
<1>1. OwnPair(pairs)
  BY DEF R!RelayInit, OwnPair
<1>2. MethodsFit(methods, pairs, held, admin, made, known, barred)
  BY DEF R!RelayInit, MethodsFit
<1>3. KeysFit(held, admin, made, known, barred)
  BY DEF R!RelayInit, KeysFit
<1>4. Sealed(relay, pairs) /\ R!OnlyAddressee
  BY DEF R!RelayInit, Sealed, R!OnlyAddressee
<1> QED BY <1>1, <1>2, <1>3, <1>4 DEF RelayInv

(* The relay hands what it stores to everyone: a share opens for the user  *)
(* it was made for only, and the Group SIK the admin seals with is never   *)
(* one that a member removed and not added again was given, however        *)
(* share_item, add_group_member, remove_group_member and rotate_group_sik  *)
(* interleave between their calls of the relay and fail, for any users,    *)
(* groups, items and methods in flight.                                    *)
THEOREM ReadersAreMeant == Spec => []OnlyMeantReaders
<1>1. RelayInv => OnlyMeantReaders
  BY DEF RelayInv, KeysFit, OnlyMeantReaders, R!OnlyMeantReaders, R!RemovedLockedOut
<1> QED BY <1>1, RelayStarts, RelaySteps, PTL DEF Spec
=============================================================================
