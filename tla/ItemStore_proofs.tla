-------------------------- MODULE ItemStore_proofs --------------------------
(***************************************************************************)
(* Proofs about ItemStore, for any number of items, tasks, devices, writes *)
(* and generations and for any page size.                                  *)
(***************************************************************************)
EXTENDS MCItemStore, TLAPS

(* Type correctness of the store under every interleaving of statements.   *)
THEOREM TypeCorrect == Spec => []TypeOK
<1>1. Init => TypeOK
  BY StoreAssumption DEF Init, TypeOK, Gens, Seqs
<1>2. TypeOK /\ [Next]_vars => TypeOK'
  <2> SUFFICES ASSUME TypeOK, [Next]_vars PROVE TypeOK'
    OBVIOUS
  <2> USE StoreAssumption, AbsentAssumption DEF StoreAssumption, AbsentAssumption
  <2>1. ASSUME NEW r \in Requests, NEW u \in Items, NEW target \in 0..MaxSeq,
               NEW gen \in Gens, NEW del \in BOOLEAN,
               PushItem(r, u, target, gen, del)
        PROVE TypeOK'
    <3>1. req' \in [Requests -> Request \cup {Idle}]
      <4>1. CASE gen < minGen
        BY <2>1, <4>1 DEF TypeOK, PushItem
      <4>2. CASE ~(gen < minGen)
        <5> DEFINE q == [pc |-> "gate", op |-> "push", u |-> u, target |-> target,
                         gen |-> gen, del |-> del, prior |-> FALSE]
        <5>1. q \in Request
          BY DEF Request
        <5>2. req' = [req EXCEPT ![r] = q]
          BY <2>1, <4>2 DEF PushItem, Serve
        <5> HIDE DEF q
        <5> QED BY <5>1, <5>2 DEF TypeOK
      <4> QED BY <4>1, <4>2
    <3> QED BY <2>1, <3>1 DEF TypeOK, PushItem, store, account, pulling
  <2>2. ASSUME NEW r \in Requests, NEW u \in Items, NEW gen \in Gens, PutItem(r, u, gen)
        PROVE TypeOK'
    BY <2>2 DEF TypeOK, PutItem, Serve, HasRow, Request, Row, store, account, pulling
  <2>3. ASSUME NEW r \in Requests, NEW u \in Items, DeleteItem(r, u)
        PROVE TypeOK'
    BY <2>3 DEF TypeOK, DeleteItem, Serve, HasRow, Request, Row, store, account, pulling
  <2>4. ASSUME NEW r \in Requests, UpsertGate(r) PROVE TypeOK'
    <3>1. [req[r] EXCEPT !.pc = "prior"] \in Request
      BY <2>4 DEF TypeOK, UpsertGate, Request
    <3>2. req' \in [Requests -> Request \cup {Idle}]
      BY <2>4, <3>1 DEF TypeOK, UpsertGate, Finish
    <3> QED BY <2>4, <3>2 DEF TypeOK, UpsertGate, store, account, pulling
  <2>5. ASSUME NEW r \in Requests, UpsertPrior(r) PROVE TypeOK'
    <3> DEFINE prior == HasRow(req[r].u) /\ rows[req[r].u].deleted
    <3>1. prior \in BOOLEAN
      BY <2>5 DEF TypeOK, UpsertPrior, HasRow, Request, Row
    <3> HIDE DEF prior
    <3>2. [req[r] EXCEPT !.pc = "update", !.prior = prior] \in Request
      BY <2>5, <3>1 DEF TypeOK, UpsertPrior, Request
    <3>3. req' = [req EXCEPT ![r] = [req[r] EXCEPT !.pc = "update", !.prior = prior]]
      BY <2>5 DEF UpsertPrior, prior, TypeOK, Request
    <3>4. req' \in [Requests -> Request \cup {Idle}]
      BY <3>2, <3>3 DEF TypeOK
    <3> QED BY <2>5, <3>4 DEF TypeOK, UpsertPrior, store, account, pulling
  <2>6. ASSUME NEW r \in Requests, UpsertUpdate(r) PROVE TypeOK'
    BY <2>6 DEF TypeOK, UpsertUpdate, Finish, Request, Row, account, pulling
  <2>7. ASSUME NEW r \in Requests, UpsertMiss(r) PROVE TypeOK'
    <3>1. [req[r] EXCEPT !.pc = "insert"] \in Request
      BY <2>7 DEF TypeOK, UpsertMiss, Request
    <3>2. req' \in [Requests -> Request \cup {Idle}]
      BY <2>7, <3>1 DEF TypeOK, UpsertMiss, Finish
    <3> QED BY <2>7, <3>2 DEF TypeOK, UpsertMiss, store, account, pulling
  <2>8. ASSUME NEW r \in Requests, UpsertInsert(r) PROVE TypeOK'
    <3>1. rows' \in [Items -> Row \cup {NoRow}]
      <4>1. req[r] \in Request
        BY <2>8 DEF TypeOK, UpsertInsert
      <4>2. CASE HasRow(req[r].u)
        BY <2>8, <4>2 DEF TypeOK, UpsertInsert
      <4>3. CASE ~HasRow(req[r].u)
        BY <2>8, <4>1, <4>3 DEF TypeOK, UpsertInsert, Request, Row
      <4> QED BY <4>2, <4>3
    <3> QED BY <2>8, <3>1 DEF TypeOK, UpsertInsert, Finish, account, pulling
  <2>9. ASSUME NEW r \in Rotators, Rotate(r) PROVE TypeOK'
    BY <2>9 DEF TypeOK, Rotate, RotateStart, RotateBump, RotateBlob, Rotation, store, pulling
  <2>10. ASSUME NEW d \in Devices, Pull(d) PROVE TypeOK'
    <3>1. CASE PullExpired(d) \/ PullCheck(d)
      BY <3>1 DEF TypeOK, PullExpired, PullCheck, store, account, pulling, vars
    <3>2. CASE PullPage(d)
      BY <3>2 DEF TypeOK, PullPage, After, HasRow, Row, store, account
    <3> QED BY <2>10, <3>1, <3>2 DEF Pull
  <2>11. CASE UNCHANGED vars
    BY <2>11 DEF TypeOK, vars, store, account, pulling
  <2>12. CASE Restart
    BY <2>12 DEF TypeOK, Restart, store
  <2> QED
    BY <2>1, <2>2, <2>3, <2>4, <2>5, <2>6, <2>7, <2>8, <2>9, <2>10, <2>11, <2>12
       DEF Next, Write
<1> QED BY <1>1, <1>2, PTL DEF Spec

-----------------------------------------------------------------------------
FeedInv == TypeOK /\ CursorReached /\ FeedComplete

(* Writing a row at the next seq keeps the feed complete: the new seq is   *)
(* beyond every cursor, and the largest seq only grows.                    *)
LEMMA WriteKeepsFeed ==
    ASSUME FeedInv, TypeOK', NEW w \in Items, NEW s \in Seqs, NEW row \in Row,
           IsNextSeq(s), row.seq = s, rows' = [rows EXCEPT ![w] = row],
           UNCHANGED pulling
    PROVE  CursorReached' /\ FeedComplete'
<1> USE StoreAssumption, AbsentAssumption DEF StoreAssumption, AbsentAssumption
<1>1. \A u \in Items : HasRow(u) => rows[u].seq \in Nat
  BY DEF FeedInv, TypeOK, HasRow, Row, Seqs
<1>2. /\ rows'[w] = row /\ HasRow(w)'
      /\ \A u \in Items : u # w => rows'[u] = rows[u] /\ (HasRow(u)' <=> HasRow(u))
  BY DEF FeedInv, TypeOK, HasRow
<1>3. s \in Nat /\ s >= 1 /\ cursor' = cursor /\ feed' = feed
  BY DEF Seqs, pulling
<1>4. \A d \in Devices : cursor[d] \in Nat /\ cursor[d] < s
  BY <1>1, <1>3 DEF FeedInv, TypeOK, CursorReached, IsNextSeq
<1>5. CursorReached'
  BY <1>2, <1>3, <1>4 DEF CursorReached
<1>6. FeedComplete'
  BY <1>2, <1>3, <1>4 DEF FeedInv, FeedComplete
<1> QED BY <1>5, <1>6

(* A page of the feed moves the cursor only over rows it delivers.         *)
LEMMA PageKeepsFeed ==
    ASSUME FeedInv, NEW d \in Devices, PullPage(d)
    PROVE  CursorReached' /\ FeedComplete'
<1> USE StoreAssumption, AbsentAssumption DEF StoreAssumption, AbsentAssumption
<1>1. PICK page \in SUBSET After(cursor[d]), c \in 0..MaxSeq :
        /\ IsPage(page, cursor[d])
        /\ IsNewCursor(c, page, cursor[d])
        /\ cursor' = [cursor EXCEPT ![d] = c]
        /\ feed' = [feed EXCEPT ![d] =
                      [u \in Items |-> IF u \in page THEN rows[u].version ELSE @[u]]]
  BY DEF PullPage
<1>2. rows' = rows /\ \A u \in Items : HasRow(u)' <=> HasRow(u)
  BY DEF PullPage, store, HasRow
<1>3. \A u \in Items : HasRow(u) => rows[u].seq \in Nat
  BY DEF FeedInv, TypeOK, HasRow, Row, Seqs
<1>4. \A e \in Devices : cursor[e] \in Nat /\ cursor'[e] = IF e = d THEN c ELSE cursor[e]
  BY <1>1 DEF FeedInv, TypeOK
<1>5. CursorReached'
  <2> SUFFICES ASSUME NEW e \in Devices
               PROVE  cursor'[e] = 0 \/ \E u \in Items : HasRow(u) /\ rows[u].seq >= cursor'[e]
    BY <1>2 DEF CursorReached
  <2>1. CASE e # d \/ page = {}
    BY <2>1, <1>1, <1>4 DEF IsNewCursor, FeedInv, CursorReached
  <2>2. CASE e = d /\ page # {}
    BY <2>2, <1>1, <1>3, <1>4 DEF IsNewCursor, After
  <2> QED BY <2>1, <2>2
<1>6. FeedComplete'
  <2> SUFFICES ASSUME NEW e \in Devices, NEW u \in Items, HasRow(u),
                      rows[u].seq <= cursor'[e]
               PROVE  feed'[e][u] = rows[u].version
    BY <1>2 DEF FeedComplete
  <2>1. CASE e # d
    BY <2>1, <1>1, <1>4 DEF FeedInv, TypeOK, FeedComplete
  <2>2. CASE e = d /\ u \in page
    BY <2>2, <1>1 DEF FeedInv, TypeOK
  <2>3. CASE e = d /\ u \notin page
    <3>1. feed'[e][u] = feed[e][u]
      BY <2>3, <1>1 DEF FeedInv, TypeOK
    <3>2. rows[u].seq <= cursor[d]
      <4> SUFFICES ASSUME rows[u].seq > cursor[d] PROVE FALSE
        BY <1>3, <1>4
      <4>1. u \in After(cursor[d]) \ page
        BY <2>3 DEF After
      <4>2. page # {}
        BY <2>3, <1>1, <1>3, <1>4 DEF IsNewCursor
      <4>3. PICK w \in page : c = rows[w].seq
        BY <4>2, <1>1 DEF IsNewCursor
      <4>4. rows[w].seq < rows[u].seq
        BY <4>1, <1>1 DEF IsPage
      <4>5. w \in Items /\ HasRow(w)
        BY <1>1 DEF After
      <4> QED BY <2>3, <1>3, <1>4, <4>3, <4>4, <4>5
    <3> QED BY <2>3, <3>1, <3>2 DEF FeedInv, FeedComplete
  <2> QED BY <2>1, <2>2, <2>3
<1> QED BY <1>5, <1>6

(* The inductive invariant of the change feed.                             *)
LEMMA FeedInvariant == Spec => []FeedInv
<1> USE StoreAssumption, AbsentAssumption DEF StoreAssumption, AbsentAssumption
<1>1. Init => CursorReached /\ FeedComplete
  BY DEF Init, CursorReached, FeedComplete, HasRow
<1>2. FeedInv /\ TypeOK' /\ [Next]_vars => CursorReached' /\ FeedComplete'
  <2> SUFFICES ASSUME FeedInv, TypeOK', [Next]_vars
               PROVE  CursorReached' /\ FeedComplete'
    OBVIOUS
  <2>1. ASSUME NEW r \in Requests, UpsertUpdate(r) PROVE CursorReached' /\ FeedComplete'
    <3>1. PICK s \in Seqs :
            /\ IsNextSeq(s)
            /\ rows' = [rows EXCEPT ![req[r].u] =
                          [version |-> req[r].target + 1, gen |-> req[r].gen,
                           deleted |-> req[r].del, seq |-> s]]
      BY <2>1 DEF UpsertUpdate
    <3>2. req[r] \in Request
      BY <2>1 DEF UpsertUpdate, FeedInv, TypeOK
    <3> DEFINE row == [version |-> req[r].target + 1, gen |-> req[r].gen,
                       deleted |-> req[r].del, seq |-> s]
    <3>3. row \in Row /\ row.seq = s /\ req[r].u \in Items
      BY <3>2 DEF Row, Request
    <3>4. rows' = [rows EXCEPT ![req[r].u] = row] /\ UNCHANGED pulling
      BY <2>1, <3>1 DEF UpsertUpdate
    <3> HIDE DEF row
    <3> QED BY <3>1, <3>3, <3>4, WriteKeepsFeed
  <2>2. ASSUME NEW r \in Requests, UpsertInsert(r), ~HasRow(req[r].u)
        PROVE CursorReached' /\ FeedComplete'
    <3>1. PICK s \in Seqs :
            /\ IsNextSeq(s)
            /\ rows' = [rows EXCEPT ![req[r].u] =
                          [version |-> 1, gen |-> req[r].gen,
                           deleted |-> req[r].del, seq |-> s]]
      BY <2>2 DEF UpsertInsert
    <3>2. req[r] \in Request
      BY <2>2 DEF UpsertInsert, FeedInv, TypeOK
    <3> DEFINE row == [version |-> 1, gen |-> req[r].gen,
                       deleted |-> req[r].del, seq |-> s]
    <3>3. row \in Row /\ row.seq = s /\ req[r].u \in Items
      BY <3>2 DEF Row, Request
    <3>4. rows' = [rows EXCEPT ![req[r].u] = row] /\ UNCHANGED pulling
      BY <2>2, <3>1 DEF UpsertInsert
    <3> HIDE DEF row
    <3> QED BY <3>1, <3>3, <3>4, WriteKeepsFeed
  <2>3. ASSUME NEW d \in Devices, PullPage(d) PROVE CursorReached' /\ FeedComplete'
    BY <2>3, PageKeepsFeed
  <2>4. CASE UNCHANGED <<rows, cursor, feed>>
    BY <2>4 DEF FeedInv, CursorReached, FeedComplete, HasRow
  <2>5. ASSUME NEW r \in Requests, UpsertInsert(r), HasRow(req[r].u)
        PROVE CursorReached' /\ FeedComplete'
    BY <2>4, <2>5 DEF UpsertInsert, pulling
  <2>6. ASSUME NEW r \in Requests, Write(r) PROVE CursorReached' /\ FeedComplete'
    BY <2>1, <2>2, <2>4, <2>5, <2>6
       DEF Write, PushItem, PutItem, DeleteItem, UpsertGate, UpsertPrior, UpsertMiss,
           store, pulling
  <2>7. ASSUME NEW r \in Rotators, Rotate(r) PROVE CursorReached' /\ FeedComplete'
    BY <2>4, <2>7 DEF Rotate, RotateStart, RotateBump, RotateBlob, store, pulling
  <2>8. ASSUME NEW d \in Devices, Pull(d) PROVE CursorReached' /\ FeedComplete'
    BY <2>3, <2>4, <2>8 DEF Pull, PullExpired, PullCheck, store, pulling, vars
  <2>9. CASE Restart
    BY <2>4, <2>9 DEF Restart, store
  <2> QED BY <2>4, <2>6, <2>7, <2>8, <2>9 DEF Next, vars, store, pulling
<1> QED BY <1>1, <1>2, TypeCorrect, PTL DEF Spec, FeedInv

(* The change feed never skips a change, whatever writers, rotations and   *)
(* other devices do between the statements of a pull, and wherever the     *)
(* server process ends.                                                    *)
THEOREM FeedNeverSkips == Spec => []FeedComplete
BY FeedInvariant, PTL DEF FeedInv

-----------------------------------------------------------------------------
(* Writing a row at the next seq is ChangeFeed's Write: the item goes to   *)
(* the back of every device's queue.                                       *)
LEMMA WriteIsFeedWrite ==
    ASSUME FeedInv, NEW w \in Items, NEW s \in Seqs, NEW row \in Row,
           IsNextSeq(s), row.seq = s, rows' = [rows EXCEPT ![w] = row],
           row.version = (IF HasRow(w) THEN rows[w].version ELSE 0) + 1,
           UNCHANGED pulling
    PROVE  Feed!Write(w)
<1> USE StoreAssumption, AbsentAssumption DEF StoreAssumption, AbsentAssumption
<1>1. \A u \in Items : HasRow(u) => rows[u].seq \in Nat /\ rows[u].version \in Nat
  BY DEF FeedInv, TypeOK, HasRow, Row, Seqs
<1>2. /\ rows'[w] = row /\ HasRow(w)'
      /\ \A u \in Items : u # w => rows'[u] = rows[u] /\ (HasRow(u)' <=> HasRow(u))
  BY DEF FeedInv, TypeOK, HasRow
<1>3. s \in Nat /\ s >= 1 /\ cursor' = cursor /\ feed' = feed
  BY DEF Seqs, pulling
<1>4. \A d \in Devices : cursor[d] \in Nat /\ cursor[d] < s
  BY <1>1, <1>3 DEF FeedInv, TypeOK, CursorReached, IsNextSeq
<1>5. ASSUME NEW u \in Items
      PROVE  Latest(u)' = IF u = w THEN Latest(u) + 1 ELSE Latest(u)
  BY <1>1, <1>2 DEF Latest
<1>6. \A u \in Items : Latest(u) > 0 <=> HasRow(u)
  BY DEF FeedInv, TypeOK, Row, HasRow, Latest
<1>7. ASSUME NEW u \in Items
      PROVE  WrittenBefore(u)' = IF u = w THEN {x \in Items : x # w /\ Latest(x) > 0}
                                          ELSE WrittenBefore(u) \ {w}
  BY <1>1, <1>2, <1>3, <1>6 DEF WrittenBefore, IsNextSeq
<1>8. ASSUME NEW d \in Devices
      PROVE  After(cursor[d])' = After(cursor[d]) \cup {w}
  BY <1>2, <1>3, <1>4 DEF After
<1> QED BY <1>3, <1>5, <1>7, <1>8 DEF Feed!Write

(* A page is ChangeFeed's Read: the page is the front of the queue and the *)
(* new cursor leaves exactly the rest.                                     *)
LEMMA PageIsFeedRead ==
    ASSUME FeedInv, NEW d \in Devices, PullPage(d)
    PROVE  Feed!Read(d)
<1> USE StoreAssumption, AbsentAssumption DEF StoreAssumption, AbsentAssumption
<1>1. PICK page \in SUBSET After(cursor[d]), c \in 0..MaxSeq :
        /\ IsPage(page, cursor[d])
        /\ IsNewCursor(c, page, cursor[d])
        /\ cursor' = [cursor EXCEPT ![d] = c]
        /\ feed' = [feed EXCEPT ![d] =
                      [u \in Items |-> IF u \in page THEN rows[u].version ELSE @[u]]]
  BY DEF PullPage
<1>2. rows' = rows /\ \A u \in Items : HasRow(u)' <=> HasRow(u)
  BY DEF PullPage, store, HasRow
<1>3. \A u \in Items : HasRow(u) => rows[u].seq \in Nat
  BY DEF FeedInv, TypeOK, HasRow, Row, Seqs
<1>4. c \in Nat /\ \A e \in Devices :
        cursor[e] \in Nat /\ cursor'[e] = IF e = d THEN c ELSE cursor[e]
  BY <1>1 DEF FeedInv, TypeOK
<1>5. \A u \in Items : Latest(u)' = Latest(u) /\ WrittenBefore(u)' = WrittenBefore(u)
  BY <1>2 DEF Latest, WrittenBefore
<1>6. \A u \in page : u \in Items /\ HasRow(u) /\ rows[u].seq > cursor[d]
                      /\ Latest(u) = rows[u].version
  BY <1>1 DEF After, Latest
<1>7. ASSUME NEW u \in page
      PROVE  WrittenBefore(u) \cap After(cursor[d]) \subseteq page
  BY <1>1, <1>3, <1>6 DEF WrittenBefore, IsPage, After
<1>8. After(c) = After(cursor[d]) \ page
  <2>1. CASE page = {}
    BY <2>1, <1>1 DEF IsNewCursor
  <2>2. CASE page # {}
    <3>1. PICK w \in page : c = rows[w].seq
      BY <2>2, <1>1 DEF IsNewCursor
    <3>2. ASSUME NEW u \in Items, HasRow(u)
          PROVE  rows[u].seq > c <=> rows[u].seq > cursor[d] /\ u \notin page
      <4>1. CASE u \in page
        BY <3>2, <4>1, <1>1, <1>3, <1>4 DEF IsNewCursor
      <4>2. CASE u \notin page /\ rows[u].seq > cursor[d]
        <5>1. u \in After(cursor[d]) \ page
          BY <3>2, <4>2 DEF After
        <5> QED BY <5>1, <3>1, <3>2, <4>2, <1>1, <1>3, <1>4, <1>6 DEF IsPage
      <4>3. CASE ~(rows[u].seq > cursor[d])
        BY <3>1, <3>2, <4>3, <1>3, <1>4, <1>6
      <4> QED BY <4>1, <4>2, <4>3
    <3> QED BY <3>2 DEF After
  <2> QED BY <2>1, <2>2
<1>9. ASSUME NEW e \in Devices
      PROVE  After(cursor[e])' = IF e = d THEN After(cursor[d]) \ page ELSE After(cursor[e])
  <2>1. After(cursor[e])' = After(cursor'[e])
    BY <1>2 DEF After, HasRow
  <2> QED BY <2>1, <1>4, <1>8
<1>10. feed' = [feed EXCEPT ![d] =
                  [u \in Items |-> IF u \in page THEN Latest(u) ELSE @[u]]]
  BY <1>1, <1>6 DEF FeedInv, TypeOK
<1> DEFINE latest == [u \in Items |-> Latest(u)]
           older == [u \in Items |-> WrittenBefore(u)]
           pending == [e \in Devices |-> After(cursor[e])]
<1>11. latest' = latest /\ older' = older
  BY <1>5
<1>12. pending' = [pending EXCEPT ![d] = @ \ page]
  BY <1>9
<1>13. feed' = [feed EXCEPT ![d] =
                  [u \in Items |-> IF u \in page THEN latest[u] ELSE @[u]]]
  BY <1>10
<1>14. page \in SUBSET pending[d] /\ \A u \in page : older[u] \cap pending[d] \subseteq page
  BY <1>1, <1>6, <1>7
<1> HIDE DEF latest, older, pending
<1> QED BY <1>11, <1>12, <1>13, <1>14 DEF Feed!Read, latest, older, pending

(* The store implements the abstract change feed: for any number of items, *)
(* devices and tasks, with key rotations and process ends between any two  *)
(* statements, seq numbers and cursors behave as one queue per device.     *)
THEOREM StoreImplementsFeed == Spec => QueuePerDevice
<1> USE StoreAssumption, AbsentAssumption DEF StoreAssumption, AbsentAssumption
<1>1. Init => Feed!Init
  BY DEF Init, Feed!Init, HasRow, Latest, WrittenBefore, After
<1>2. FeedInv /\ [Next]_vars => [Feed!Next]_(Feed!vars)
  <2> SUFFICES ASSUME FeedInv, [Next]_vars
               PROVE  Feed!Next \/ UNCHANGED Feed!vars
    OBVIOUS
  <2>1. ASSUME NEW r \in Requests, UpsertUpdate(r) PROVE Feed!Next
    <3>1. PICK s \in Seqs :
            /\ IsNextSeq(s)
            /\ rows' = [rows EXCEPT ![req[r].u] =
                          [version |-> req[r].target + 1, gen |-> req[r].gen,
                           deleted |-> req[r].del, seq |-> s]]
      BY <2>1 DEF UpsertUpdate
    <3>2. req[r] \in Request
      BY <2>1 DEF UpsertUpdate, FeedInv, TypeOK
    <3> DEFINE row == [version |-> req[r].target + 1, gen |-> req[r].gen,
                       deleted |-> req[r].del, seq |-> s]
    <3>3. row \in Row /\ row.seq = s /\ req[r].u \in Items
      BY <3>2 DEF Row, Request
    <3>4. rows' = [rows EXCEPT ![req[r].u] = row] /\ UNCHANGED pulling
      BY <2>1, <3>1 DEF UpsertUpdate
    <3>5. row.version = (IF HasRow(req[r].u) THEN rows[req[r].u].version ELSE 0) + 1
      BY <2>1 DEF UpsertUpdate, Matches
    <3> HIDE DEF row
    <3>6. Feed!Write(req[r].u)
      BY <3>1, <3>3, <3>4, <3>5, WriteIsFeedWrite
    <3> QED BY <3>3, <3>6 DEF Feed!Next
  <2>2. ASSUME NEW r \in Requests, UpsertInsert(r), ~HasRow(req[r].u) PROVE Feed!Next
    <3>1. PICK s \in Seqs :
            /\ IsNextSeq(s)
            /\ rows' = [rows EXCEPT ![req[r].u] =
                          [version |-> 1, gen |-> req[r].gen,
                           deleted |-> req[r].del, seq |-> s]]
      BY <2>2 DEF UpsertInsert
    <3>2. req[r] \in Request
      BY <2>2 DEF UpsertInsert, FeedInv, TypeOK
    <3> DEFINE row == [version |-> 1, gen |-> req[r].gen,
                       deleted |-> req[r].del, seq |-> s]
    <3>3. row \in Row /\ row.seq = s /\ req[r].u \in Items
      BY <3>2 DEF Row, Request
    <3>4. rows' = [rows EXCEPT ![req[r].u] = row] /\ UNCHANGED pulling
      BY <2>2, <3>1 DEF UpsertInsert
    <3>5. row.version = (IF HasRow(req[r].u) THEN rows[req[r].u].version ELSE 0) + 1
      BY <2>2
    <3> HIDE DEF row
    <3>6. Feed!Write(req[r].u)
      BY <3>1, <3>3, <3>4, <3>5, WriteIsFeedWrite
    <3> QED BY <3>3, <3>6 DEF Feed!Next
  <2>3. ASSUME NEW d \in Devices, PullPage(d) PROVE Feed!Next
    BY <2>3, PageIsFeedRead DEF Feed!Next
  <2>4. ASSUME UNCHANGED <<rows, cursor, feed>> PROVE UNCHANGED Feed!vars
    <3>1. \A u \in Items : Latest(u)' = Latest(u) /\ WrittenBefore(u)' = WrittenBefore(u)
      BY <2>4 DEF Latest, WrittenBefore, HasRow
    <3>2. \A d \in Devices : After(cursor[d])' = After(cursor[d])
      BY <2>4 DEF After, HasRow
    <3> QED BY <2>4, <3>1, <3>2 DEF Feed!vars
  <2>5. ASSUME NEW r \in Requests, Write(r) PROVE Feed!Next \/ UNCHANGED <<rows, cursor, feed>>
    BY <2>1, <2>2, <2>5
       DEF Write, PushItem, PutItem, DeleteItem, UpsertGate, UpsertPrior, UpsertMiss,
           UpsertInsert, store, pulling
  <2>6. ASSUME NEW r \in Rotators, Rotate(r) PROVE UNCHANGED <<rows, cursor, feed>>
    BY <2>6 DEF Rotate, RotateStart, RotateBump, RotateBlob, store, pulling
  <2>7. ASSUME NEW d \in Devices, Pull(d) PROVE Feed!Next \/ UNCHANGED <<rows, cursor, feed>>
    BY <2>3, <2>7 DEF Pull, PullExpired, PullCheck, store, pulling, vars
  <2>8. CASE Restart
    BY <2>4, <2>8 DEF Restart, store
  <2> QED BY <2>4, <2>5, <2>6, <2>7, <2>8 DEF Next, vars, store, pulling
<1> QED BY <1>1, <1>2, FeedInvariant, PTL DEF Spec, QueuePerDevice, Feed!Spec

-----------------------------------------------------------------------------
(* What a push knows of the row it is for: its target is none the row has  *)
(* yet to reach, and once it has looked for a tombstone, what it saw is    *)
(* what is there as long as the row is at the target.                      *)
PushKnows(q, row) ==
    /\ q.op = "push" /\ (q.target = 0 => ~q.del) /\ (q.pc = "insert" => q.target = 0)
    /\ q.target > 1 => row # NoRow /\ q.target <= row.version
    /\ q.pc = "update" /\ row = NoRow => ~q.prior
    /\ q.pc = "update" /\ row # NoRow /\ row.version = q.target => q.prior = row.deleted

PushesKnow == \A r \in Requests : req[r] # Idle => PushKnows(req[r], rows[req[r].u])
AnnounceInv == mix = "feed" => PushesKnow

(* A row that is written moves beyond the target of every push that has    *)
(* seen it, or is made live by the first of them.                          *)
LEMMA WriteKeepsPush ==
    ASSUME NEW q \in Request, NEW old \in Row \cup {NoRow}, NEW row \in Row, PushKnows(q, old),
           old # NoRow => row.version = old.version + 1,
           old = NoRow => row.version = 1 /\ ~row.deleted
    PROVE  PushKnows(q, row)
<1> USE StoreAssumption, AbsentAssumption DEF StoreAssumption, AbsentAssumption
<1>1. row # NoRow /\ row.version \in Nat /\ row.deleted \in BOOLEAN
  BY DEF Row
<1>2. old # NoRow => old.version \in Nat /\ old.version >= 1
  BY DEF Row
<1>3. q.target \in Nat /\ q.prior \in BOOLEAN
  BY DEF Request
<1>4. q.target > 1 => q.target <= row.version
  BY <1>2, <1>3 DEF PushKnows
<1>5. ASSUME q.pc = "update", row.version = q.target PROVE q.prior = row.deleted
  <2>1. old = NoRow
    BY <1>2, <1>3, <1>5 DEF PushKnows
  <2> QED BY <1>1, <1>3, <1>5, <2>1 DEF PushKnows
<1> QED BY <1>1, <1>4, <1>5 DEF PushKnows

(* No push but r, which ends, is disturbed by what r writes.               *)
LEMMA PushEnds ==
    ASSUME TypeOK, PushesKnow, NEW r \in Requests, Finish(r), NEW w \in Items, NEW row \in Row,
           rows' = [rows EXCEPT ![w] = row],
           rows[w] # NoRow => row.version = rows[w].version + 1,
           rows[w] = NoRow => row.version = 1 /\ ~row.deleted
    PROVE  PushesKnow'
<1> SUFFICES ASSUME NEW t \in Requests, req'[t] # Idle
             PROVE  PushKnows(req'[t], rows'[req'[t].u])
  BY DEF PushesKnow
<1>1. t # r /\ req'[t] = req[t] /\ req[t] \in Request /\ req[t].u \in Items
  BY DEF Finish, TypeOK, Request
<1>2. PushKnows(req[t], rows[req[t].u]) /\ rows[w] \in Row \cup {NoRow}
  BY <1>1 DEF PushesKnow, TypeOK
<1>3. CASE req[t].u = w
  <2>1. rows'[w] = row
    BY DEF TypeOK
  <2>2. PushKnows(req[t], row)
    BY <1>1, <1>2, <1>3, WriteKeepsPush
  <2> QED BY <1>1, <1>3, <2>1, <2>2
<1>4. CASE req[t].u # w
  <2>1. rows'[req[t].u] = rows[req[t].u]
    BY <1>1, <1>4 DEF TypeOK
  <2> QED BY <1>1, <1>2, <2>1
<1> QED BY <1>3, <1>4

(* No push but r, which goes on, is disturbed by a statement that reads.   *)
LEMMA PushGoesOn ==
    ASSUME TypeOK, PushesKnow, NEW r \in Requests, NEW x, UNCHANGED store,
           req' = [req EXCEPT ![r] = x], x # Idle => PushKnows(x, rows[x.u])
    PROVE  PushesKnow' /\ RecoveryStep
<1>1. rows' = rows /\ recovered' = recovered
  BY DEF store
<1>2. req'[r] = x /\ \A t \in Requests \ {r} : req'[t] = req[t]
  BY DEF TypeOK
<1> QED BY <1>1, <1>2 DEF PushesKnow, RecoveryStep

(* The statements of upsert_item_occ that read.                            *)
LEMMA PushReads ==
    ASSUME TypeOK, PushesKnow, NEW r \in Requests, UpsertGate(r) \/ UpsertPrior(r) \/ UpsertMiss(r)
    PROVE  PushesKnow' /\ RecoveryStep
<1> DEFINE q == req[r]
<1>1. q \in Request /\ PushKnows(q, rows[q.u]) /\ rows[q.u] \in Row \cup {NoRow} /\ UNCHANGED store
  BY DEF UpsertGate, UpsertPrior, UpsertMiss, PushesKnow, TypeOK, Request
<1>2. CASE req' = [req EXCEPT ![r] = Idle]
  BY <1>1, <1>2, PushGoesOn
<1>3. ASSUME UpsertGate(r), req' = [req EXCEPT ![r] = [q EXCEPT !.pc = "prior"]]
      PROVE  PushesKnow' /\ RecoveryStep
  <2> DEFINE x == [q EXCEPT !.pc = "prior"]
  <2> HIDE DEF q
  <2>1. /\ x.op = q.op /\ x.target = q.target /\ x.del = q.del /\ x.u = q.u /\ x.pc = "prior"
    BY <1>1 DEF Request
  <2>2. PushKnows(x, rows[x.u])
    BY <1>1, <2>1 DEF PushKnows
  <2>3. req' = [req EXCEPT ![r] = x]
    BY <1>3
  <2> HIDE DEF x
  <2> QED BY <1>1, <2>2, <2>3, PushGoesOn
<1>4. CASE UpsertPrior(r)
  <2> DEFINE seen == HasRow(q.u) /\ rows[q.u].deleted
             x == [q EXCEPT !.pc = "update", !.prior = seen]
  <2>1. req' = [req EXCEPT ![r] = x]
    BY <1>4 DEF UpsertPrior
  <2>2. rows[q.u] # NoRow => seen = rows[q.u].deleted
    BY <1>1 DEF HasRow, Row
  <2>3. rows[q.u] = NoRow => ~seen
    BY DEF HasRow
  <2> HIDE DEF q, seen
  <2>4. /\ x.op = q.op /\ x.target = q.target /\ x.del = q.del /\ x.u = q.u
        /\ x.pc = "update" /\ x.prior = seen
    BY <1>1 DEF Request
  <2> HIDE DEF x
  <2>5. PushKnows(x, rows[x.u])
    BY <1>1, <2>2, <2>3, <2>4 DEF PushKnows
  <2> QED BY <1>1, <2>1, <2>5, PushGoesOn
<1>5. ASSUME q.target = 0, req' = [req EXCEPT ![r] = [q EXCEPT !.pc = "insert"]]
      PROVE  PushesKnow' /\ RecoveryStep
  <2> DEFINE x == [q EXCEPT !.pc = "insert"]
  <2>1. req' = [req EXCEPT ![r] = x]
    BY <1>5
  <2> HIDE DEF q
  <2>2. /\ x.op = q.op /\ x.target = q.target /\ x.del = q.del /\ x.u = q.u /\ x.pc = "insert"
    BY <1>1 DEF Request
  <2> HIDE DEF x
  <2>3. PushKnows(x, rows[x.u])
    BY <1>1, <1>5, <2>2 DEF PushKnows
  <2> QED BY <1>1, <2>1, <2>3, PushGoesOn
<1>6. CASE UpsertGate(r)
  BY <1>2, <1>3, <1>6 DEF UpsertGate, Finish
<1>7. CASE UpsertMiss(r)
  BY <1>2, <1>5, <1>7 DEF UpsertMiss, Finish
<1> QED BY <1>4, <1>6, <1>7

(* The UPDATE clears a tombstone iff the statement before it saw one.      *)
LEMMA PushUpdates ==
    ASSUME TypeOK, PushesKnow, NEW r \in Requests, UpsertUpdate(r)
    PROVE  PushesKnow' /\ RecoveryStep
<1> USE StoreAssumption, AbsentAssumption DEF StoreAssumption, AbsentAssumption
<1> DEFINE q == req[r]
           w == q.u
<1>1. /\ q \in Request /\ PushKnows(q, rows[w]) /\ w \in Items /\ q.pc = "update"
      /\ rows[w] # NoRow /\ rows[w].version = q.target /\ rows[w] \in Row /\ Finish(r)
  BY DEF UpsertUpdate, PushesKnow, TypeOK, Request, Matches, HasRow
<1>2. PICK s \in Seqs : rows' = [rows EXCEPT ![w] =
            [version |-> q.target + 1, gen |-> q.gen, deleted |-> q.del, seq |-> s]]
  BY DEF UpsertUpdate
<1>3. recovered' = IF q.prior /\ ~q.del THEN [recovered EXCEPT ![w] = @ + 1] ELSE recovered
  BY DEF UpsertUpdate
<1> DEFINE row == [version |-> q.target + 1, gen |-> q.gen, deleted |-> q.del, seq |-> s]
<1> HIDE DEF q, w
<1>4. row \in Row /\ row.version = rows[w].version + 1 /\ row.deleted = q.del
  BY <1>1 DEF Row, Request
<1>5. rows' = [rows EXCEPT ![w] = row]
  BY <1>2
<1> HIDE DEF row
<1>6. PushesKnow'
  BY <1>1, <1>4, <1>5, PushEnds
<1>7. rows'[w] = row /\ row # rows[w] /\ \A u \in Items \ {w} : rows'[u] = rows[u]
  <2>1. row # rows[w]
    BY <1>1, <1>4 DEF Row
  <2> QED BY <1>1, <1>5, <2>1 DEF TypeOK
<1>8. recovered[w] \in Nat /\ DOMAIN recovered = Items
  BY <1>1 DEF TypeOK
<1>9. q.prior = rows[w].deleted
  BY <1>1 DEF PushKnows
<1>10. \A u \in Items \ {w} : recovered'[u] = recovered[u]
  BY <1>3, <1>8
<1>11. recovered'[w] = IF q.prior /\ ~q.del THEN recovered[w] + 1 ELSE recovered[w]
  BY <1>1, <1>3, <1>8
<1>12. (recovered'[w] # recovered[w]) <=> (q.prior /\ ~q.del)
  BY <1>8, <1>11
<1>13. RecoveryStep
  BY <1>1, <1>4, <1>7, <1>9, <1>10, <1>12 DEF RecoveryStep, HasRow
<1> QED BY <1>6, <1>13

(* The INSERT makes a live row and clears nothing.                         *)
LEMMA PushInserts ==
    ASSUME TypeOK, PushesKnow, NEW r \in Requests, UpsertInsert(r)
    PROVE  PushesKnow' /\ RecoveryStep
<1> USE StoreAssumption, AbsentAssumption DEF StoreAssumption, AbsentAssumption
<1> DEFINE q == req[r]
           w == q.u
<1>1. /\ q \in Request /\ PushKnows(q, rows[w]) /\ w \in Items /\ q.pc = "insert"
      /\ Finish(r) /\ recovered' = recovered
  BY DEF UpsertInsert, PushesKnow, TypeOK, Request
<1>2. CASE HasRow(w)
  <2>1. rows' = rows /\ req' = [req EXCEPT ![r] = Idle]
    BY <1>2 DEF UpsertInsert, Finish
  <2> QED BY <1>1, <2>1, PushGoesOn DEF store
<1>3. CASE ~HasRow(w)
  <2>1. PICK s \in Seqs : rows' = [rows EXCEPT ![w] =
            [version |-> 1, gen |-> q.gen, deleted |-> q.del, seq |-> s]]
    BY <1>3 DEF UpsertInsert
  <2> DEFINE row == [version |-> 1, gen |-> q.gen, deleted |-> q.del, seq |-> s]
  <2> HIDE DEF q, w
  <2>2. row \in Row /\ row.version = 1 /\ row.deleted = q.del
    BY <1>1 DEF Row, Request
  <2>3. ~q.del /\ rows[w] = NoRow
    BY <1>1, <1>3 DEF PushKnows, HasRow
  <2>4. rows' = [rows EXCEPT ![w] = row]
    BY <2>1
  <2> HIDE DEF row
  <2>5. PushesKnow'
    BY <1>1, <2>2, <2>3, <2>4, PushEnds
  <2>6. \A u \in Items \ {w} : rows'[u] = rows[u]
    BY <2>4 DEF TypeOK
  <2>7. RecoveryStep
    BY <1>1, <1>3, <2>6 DEF RecoveryStep
  <2> QED BY <2>5, <2>7
<1> QED BY <1>2, <1>3

(* A push that begins names a target the row has had, or a first version.  *)
LEMMA PushBegins ==
    ASSUME TypeOK, PushesKnow, NEW r \in Requests, NEW u \in Items, NEW target \in 0..MaxSeq,
           NEW gen \in Gens, NEW del \in BOOLEAN, PushItem(r, u, target, gen, del)
    PROVE  PushesKnow' /\ RecoveryStep
<1> DEFINE x == [pc |-> "gate", op |-> "push", u |-> u, target |-> target, gen |-> gen,
                 del |-> del, prior |-> FALSE]
<1>1. UNCHANGED store /\ (req' = req \/ req' = [req EXCEPT ![r] = x])
  BY DEF PushItem, Serve
<1>2. CASE req' = req
  BY <1>1, <1>2 DEF PushesKnow, RecoveryStep, store
<1>3. CASE req' = [req EXCEPT ![r] = x]
  <2>1. PushKnows(x, rows[x.u])
    BY StoreAssumption DEF StoreAssumption, PushItem, Known, HasRow, PushKnows
  <2> HIDE DEF x
  <2> QED BY <1>1, <1>3, <2>1, PushGoesOn
<1> QED BY <1>1, <1>2, <1>3

(* Where only pushes are served no other request is.                       *)
LEMMA OnlyPushes ==
    ASSUME TypeOK, NEW r \in Requests, InMix', mix' = "feed",
           \/ \E u \in Items, gen \in Gens : PutItem(r, u, gen)
           \/ \E u \in Items : DeleteItem(r, u)
    PROVE  FALSE
<1> USE StoreAssumption, AbsentAssumption DEF StoreAssumption, AbsentAssumption
<1>1. ASSUME NEW u \in Items, NEW gen \in Gens, NEW op \in {"put", "delete"}, NEW n \in Nat,
             NEW del \in BOOLEAN, Serve(r, op, u, n, gen, del)
      PROVE  FALSE
  <2> DEFINE x == [pc |-> "gate", op |-> op, u |-> u, target |-> n, gen |-> gen,
                   del |-> del, prior |-> FALSE]
  <2>1. req'[r] = x /\ x.op = op
    BY <1>1 DEF TypeOK, Serve
  <2>2. x \in Request
    BY DEF Request
  <2> QED BY <2>1, <2>2 DEF InMix
<1>2. ASSUME NEW u \in Items, NEW gen \in Gens, PutItem(r, u, gen) PROVE FALSE
  <2>1. Serve(r, "put", u, rows[u].version + 1, gen, FALSE) /\ rows[u] # NoRow
    BY <1>2 DEF PutItem, HasRow
  <2>2. rows[u] \in Row
    BY <2>1 DEF TypeOK
  <2> DEFINE v == rows[u].version
  <2>3. v \in Nat
    BY <2>2 DEF Row
  <2> HIDE DEF v
  <2>4. v + 1 \in Nat
    BY <2>3
  <2>5. Serve(r, "put", u, v + 1, gen, FALSE)
    BY <2>1 DEF v
  <2> QED BY <1>1, <2>4, <2>5
<1>3. ASSUME NEW u \in Items, DeleteItem(r, u) PROVE FALSE
  <2>1. Serve(r, "delete", u, rows[u].version + 1, rows[u].gen, TRUE) /\ rows[u] # NoRow
    BY <1>3 DEF DeleteItem, HasRow
  <2>2. rows[u] \in Row
    BY <2>1 DEF TypeOK
  <2> DEFINE v == rows[u].version
             g == rows[u].gen
  <2>3. v \in Nat /\ g \in Gens
    BY <2>2 DEF Row
  <2> HIDE DEF v, g
  <2>4. v + 1 \in Nat
    BY <2>3
  <2>5. Serve(r, "delete", u, v + 1, g, TRUE)
    BY <2>1 DEF v, g
  <2> QED BY <1>1, <2>3, <2>4, <2>5
<1> QED BY <1>2, <1>3

(* Where items are pushed, ItemRecovered is published for exactly the      *)
(* pushes that clear a tombstone, although upsert_item_occ reads           *)
(* deleted_date one statement before the UPDATE: no other write can fall   *)
(* between the two without moving the row off the target. Holds for any    *)
(* number of items and concurrent pushes.                                  *)
THEOREM RecoveriesAnnounced == MCSpec => FeedAnnounces
<1>1. MCInit => Init /\ AnnounceInv
  BY DEF MCInit, Init, AnnounceInv, PushesKnow
<1>2. [MCNext]_<<vars, mix>> => [Next]_vars
  BY DEF MCNext, Next, vars
<1>3. ASSUME TypeOK, AnnounceInv, [MCNext]_<<vars, mix>>
      PROVE  AnnounceInv' /\ [mix = "feed" => RecoveryStep]_<<rows, recovered>>
  <2> SUFFICES ASSUME mix = "feed" \/ mix' = "feed"
               PROVE  AnnounceInv' /\ [mix = "feed" => RecoveryStep]_<<rows, recovered>>
    BY DEF AnnounceInv
  <2>1. mix' = mix /\ mix = "feed" /\ PushesKnow
    BY <1>3 DEF MCNext, AnnounceInv
  <2>2. CASE UNCHANGED <<rows, recovered>> /\ (UNCHANGED req \/ req' = [r \in Requests |-> Idle])
    BY <2>1, <2>2 DEF AnnounceInv, PushesKnow
  <2>3. ASSUME NEW r \in Requests, Write(r), InMix' PROVE PushesKnow' /\ RecoveryStep
    BY <1>3, <2>1, <2>3, PushBegins, OnlyPushes, PushReads, PushUpdates, PushInserts DEF Write
  <2>4. ASSUME NEW d \in Devices, Pull(d) PROVE UNCHANGED <<rows, recovered, req>>
    BY <2>4 DEF Pull, PullExpired, PullCheck, PullPage, store, vars
  <2>5. CASE UNCHANGED <<vars, mix>>
    BY <2>2, <2>5 DEF vars, store
  <2> QED BY <1>3, <2>1, <2>2, <2>3, <2>4, <2>5 DEF MCNext, AnnounceInv
<1>4. MCSpec => Spec
  BY <1>1, <1>2, PTL DEF MCSpec, Spec
<1> QED BY <1>1, <1>3, <1>4, TypeCorrect, PTL DEF MCSpec, FeedAnnounces
=============================================================================
