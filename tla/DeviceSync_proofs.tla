------------------------- MODULE DeviceSync_proofs -------------------------
(***************************************************************************)
(* Proofs about DeviceSync: type correctness, that a push is accepted only *)
(* over writes the device has downloaded, and that a cursor in memory      *)
(* never passes a change within one life of the process.                   *)
(***************************************************************************)
EXTENDS DeviceSync, FiniteSetTheorems, WellFoundedInduction, TLAPS

-----------------------------------------------------------------------------
(* The inductive invariants                                                *)

(* A seq counts the writes of the store, a version those of one row.       *)
VersionsLag == \A u \in Items : HasRow(u) => srv[u].version <= srv[u].seq

(* Version v of u, as this device has it: it was downloaded, or it is the  *)
(* 1 that save_item takes for an item without a row, made here or opened   *)
(* from a row that was downloaded.                                         *)
Vouched(u, v) == v \in seen[u] \/ (v = 1 /\ (u \in Own \/ seen[u] # {}))

(* The overviews of the page that a sync session has not persisted yet.    *)
InHand(s) == s.todo \cup s.upserts \cup s.deletes

(* The server has had every version that is on its way to the device.      *)
VersionsExist ==
    /\ \A u \in Items : \A v \in seen[u] : v <= ServerVersion(u)
    /\ sync # Idle => \A ov \in InHand(sync) : ov.version <= ServerVersion(ov.u)
    /\ resolve # Idle => resolve.version <= ServerVersion(resolve.u)

(* Every version the device can push is vouched for.                       *)
VersionsVouched ==
    /\ \A u \in Items : HasLocal(u) => Vouched(u, loc[u].version)
    /\ \A u \in Items : tombs[u] # 0 => Vouched(u, tombs[u])
    /\ edit # Idle => IF edit.version = -1 THEN edit.u \in Own \/ seen[edit.u] # {}
                                           ELSE Vouched(edit.u, edit.version)
    /\ push # Idle => \A o \in push.todo : Vouched(o.u, o.version)

(* Only this device makes the first version of its own items.              *)
OwnFirst == \A u \in Own : HasRow(u) /\ srv[u].version = 1 => srv[u].own

(* c is not beyond the last seq.                                           *)
Reached(c) == c = 0 \/ \E u \in Items : HasRow(u) /\ srv[u].seq >= c

(* What is true of a running session s.                                    *)
SessionSound(s) ==
    /\ memCursor <= s.cursor /\ Reached(s.cursor)
    /\ ~s.pulled => InHand(s) = {}
    /\ \A ov \in InHand(s) :
         HasRow(ov.u) /\ (srv[ov.u].version = ov.version \/ srv[ov.u].seq > s.cursor)
    /\ \A a, b \in InHand(s) : a.u = b.u => a = b
    /\ ~s.failed => \A u \in Items :
         HasRow(u) /\ srv[u].seq <= s.cursor =>
           \/ taken[u] = srv[u].version
           \/ \E ov \in InHand(s) : ov.u = u /\ ov.version = srv[u].version

SyncSound ==
    /\ ~locked /\ resolve = Idle
    /\ Reached(memCursor)
    /\ CursorSound
    /\ sync # Idle => SessionSound(sync)

-----------------------------------------------------------------------------
(* The store                                                               *)

(* A bounded set of numbers that is not empty has a largest element, so    *)
(* Max of it is one.                                                       *)
LEMMA MaxIsMax ==
    ASSUME NEW n \in Nat, NEW S, S \subseteq 0..n, S # {}
    PROVE  Max(S) \in S /\ \A y \in S : Max(S) >= y
<1> DEFINE T == {n - s : s \in S}
           R == OpToRel(<, Nat)
<1>1. T \subseteq Nat /\ T # {}
  <2>1. \A s \in S : n - s \in Nat
    OBVIOUS
  <2>2. PICK s \in S : TRUE
    OBVIOUS
  <2>3. n - s \in T
    OBVIOUS
  <2> QED BY <2>1, <2>3
<1>2. IsWellFoundedOn(R, Nat)
  BY NatLessThanWellFounded
<1> HIDE DEF T, R
<1>3. PICK t \in T : \A y \in T : ~(<<y, t>> \in R)
  BY <1>1, <1>2, WFMin
<1>4. \A y \in T : ~(y < t)
  BY <1>1, <1>3 DEF R, OpToRel
<1>5. PICK m \in S : t = n - m
  BY DEF T
<1>6. \A y \in S : m >= y
  <2> SUFFICES ASSUME NEW y \in S PROVE m >= y
    OBVIOUS
  <2>1. n - y \in T
    BY DEF T
  <2>2. ~(n - y < n - m)
    BY <1>4, <1>5, <2>1
  <2>3. m \in Nat /\ y \in Nat
    OBVIOUS
  <2> QED BY <2>2, <2>3
<1>7. \E x \in S : \A y \in S : x >= y
  BY <1>6
<1> QED BY <1>7 DEF Max

(* MAX(seq): no row is beyond it.                                          *)
LEMMA LastSeqIsLast ==
    ASSUME TypeOK
    PROVE  LastSeq \in 0..MaxSeq /\ \A u \in Items : HasRow(u) => srv[u].seq <= LastSeq
<1> DEFINE S == {0} \cup {srv[u].seq : u \in {w \in Items : HasRow(w)}}
<1>1. \A u \in Items : HasRow(u) => srv[u] \in ServerRow
  BY DEF TypeOK, HasRow
<1>2. \A u \in Items : HasRow(u) => srv[u].seq \in 1..MaxSeq
  BY <1>1 DEF ServerRow
<1>3. MaxSeq \in Nat
  BY DeviceAssumption DEF DeviceAssumption
<1>4. S \subseteq 0..MaxSeq /\ S # {}
  BY <1>2, <1>3
<1>5. \A u \in Items : HasRow(u) => srv[u].seq \in S
  OBVIOUS
<1>6. LastSeq = Max(S)
  BY DEF LastSeq
<1> HIDE DEF S
<1>7. Max(S) \in S /\ \A y \in S : Max(S) >= y
  BY <1>3, <1>4, MaxIsMax
<1> QED BY <1>2, <1>3, <1>4, <1>5, <1>6, <1>7

(* u is written with the next version and a seq beyond every other's.      *)
Rewritten(u, own) ==
    /\ \A w \in Items \ {u} : srv'[w] = srv[w]
    /\ srv'[u] \in ServerRow
    /\ srv'[u].version = ServerVersion(u) + 1
    /\ srv'[u].version <= srv'[u].seq
    /\ srv'[u].own = own
    /\ \A w \in Items : HasRow(w) => srv[w].seq < srv'[u].seq

LEMMA WriteRewrites ==
    ASSUME TypeOK, VersionsLag, NEW u \in Items, NEW deleted \in BOOLEAN, NEW own \in BOOLEAN,
           LastSeq < MaxSeq, srv' = Written(u, deleted, own)
    PROVE  /\ srv' \in [Items -> ServerRow \cup {NoRow}]
           /\ Rewritten(u, own)
           /\ VersionsLag'
<1> DEFINE s == LastSeq + 1
           v == ServerVersion(u) + 1
           row == [version |-> v, deleted |-> deleted, seq |-> s, own |-> own]
<1>1. LastSeq \in 0..MaxSeq /\ \A w \in Items : HasRow(w) => srv[w].seq <= LastSeq
  BY LastSeqIsLast
<1>2. \A w \in Items : HasRow(w) => srv[w] \in ServerRow
  BY DEF TypeOK, HasRow
<1>3. MaxSeq \in Nat
  BY DeviceAssumption DEF DeviceAssumption
<1>4. s \in 1..MaxSeq /\ \A w \in Items : HasRow(w) => srv[w].seq < s
  BY <1>1, <1>2, <1>3 DEF ServerRow
<1>5. ServerVersion(u) \in 0..LastSeq
  <2>1. CASE HasRow(u)
    <3>1. srv[u].version \in 1..MaxSeq /\ srv[u].seq \in 1..MaxSeq
      BY <1>2, <2>1 DEF ServerRow
    <3>2. srv[u].version <= srv[u].seq /\ srv[u].seq <= LastSeq
      BY <1>1, <2>1 DEF VersionsLag
    <3> QED BY <1>1, <1>3, <2>1, <3>1, <3>2 DEF ServerVersion
  <2>2. CASE ~HasRow(u)
    BY <1>1, <1>3, <2>2 DEF ServerVersion
  <2> QED BY <2>1, <2>2
<1>6. v \in 1..MaxSeq /\ v <= s
  BY <1>1, <1>3, <1>5
<1>7. srv' = [srv EXCEPT ![u] = row]
  BY DEF Written, ServerVersion, TypeOK
<1> HIDE DEF s, v
<1>8. row \in ServerRow
  BY <1>4, <1>6 DEF ServerRow
<1>9. srv' \in [Items -> ServerRow \cup {NoRow}]
  BY <1>7, <1>8 DEF TypeOK
<1>10. srv'[u] = row /\ \A w \in Items \ {u} : srv'[w] = srv[w]
  BY <1>7 DEF TypeOK
<1>11. Rewritten(u, own)
  BY <1>4, <1>6, <1>8, <1>10 DEF Rewritten, v
<1>12. VersionsLag'
  BY <1>6, <1>10 DEF VersionsLag, HasRow
<1> QED BY <1>9, <1>11, <1>12

(* Versions do not go back, and the rows stay.                             *)
LEMMA RewrittenGrows ==
    ASSUME TypeOK, NEW u \in Items, NEW own, Rewritten(u, own)
    PROVE  \A w \in Items : /\ HasRow(w) => HasRow(w)'
                            /\ ServerVersion(w) \in Nat /\ ServerVersion(w)' \in Nat
                            /\ ServerVersion(w) <= ServerVersion(w)'
<1> USE AbsentAssumption, DeviceAssumption DEF AbsentAssumption, DeviceAssumption
<1> SUFFICES ASSUME NEW w \in Items
             PROVE  /\ HasRow(w) => HasRow(w)'
                    /\ ServerVersion(w) \in Nat /\ ServerVersion(w)' \in Nat
                    /\ ServerVersion(w) <= ServerVersion(w)'
  OBVIOUS
<1>1. ServerVersion(w) \in Nat
  BY DEF ServerVersion, HasRow, TypeOK, ServerRow
<1>2. CASE w # u
  BY <1>1, <1>2 DEF Rewritten, ServerVersion, HasRow
<1>3. CASE w = u
  <2>1. HasRow(u)'
    BY DEF Rewritten, HasRow
  <2>2. ServerVersion(u)' = ServerVersion(u) + 1
    BY <2>1 DEF Rewritten, ServerVersion
  <2> QED BY <1>1, <1>3, <2>1, <2>2
<1> QED BY <1>2, <1>3

-----------------------------------------------------------------------------
(* Type correctness                                                        *)

Session == [cursor : 0..MaxSeq, todo : SUBSET Overview,
            upserts : SUBSET Overview, deletes : SUBSET Overview,
            failed : BOOLEAN, more : BOOLEAN, pulled : BOOLEAN]
Editing == [u : Items, base : 0..MaxSeq, version : -1..MaxSeq]
Pushing == [phase : {"tombs", "rows"}, todo : SUBSET Outgoing,
            sent : SUBSET Items, applied : BOOLEAN]
Counters == [edits : 0..MaxEdits, failures : 0..MaxFailures, restarts : 0..MaxRestarts]

LocalOK ==
    /\ loc \in [Items -> LocalRow \cup {NoRow}]
    /\ tombs \in [Items -> 0..MaxSeq]
    /\ dbCursor \in 0..MaxSeq
    /\ taken \in [Items -> 0..MaxSeq]
    /\ seen \in [Items -> SUBSET (1..MaxSeq)]

ClientOK == memCursor \in 0..MaxSeq /\ locked \in BOOLEAN

TasksOK ==
    /\ sync = Idle \/ sync \in Session
    /\ edit = Idle \/ edit \in Editing
    /\ push = Idle \/ push \in Pushing
    /\ conflicts \subseteq [u : Items, version : 0..MaxSeq]
    /\ resolve = Idle \/ resolve \in [u : Items, version : 1..MaxSeq]

(* TypeOK in parts.                                                        *)
LEMMA TypeParts ==
    TypeOK <=> /\ srv \in [Items -> ServerRow \cup {NoRow}]
               /\ LocalOK /\ ClientOK /\ TasksOK
               /\ used \in Counters
  BY DEF TypeOK, LocalOK, ClientOK, TasksOK, Session, Editing, Pushing, Counters

LEMMA UseCounts ==
    ASSUME used \in Counters,
           \/ May("edits", MaxEdits) /\ Use("edits")
           \/ May("failures", MaxFailures) /\ Use("failures")
           \/ May("restarts", MaxRestarts) /\ Use("restarts")
    PROVE  used' \in Counters
<1> USE DeviceAssumption DEF DeviceAssumption
<1>1. used.edits \in 0..MaxEdits /\ used.failures \in 0..MaxFailures
      /\ used.restarts \in 0..MaxRestarts
  BY DEF Counters
<1>2. CASE May("edits", MaxEdits) /\ Use("edits")
  <2>1. used.edits + 1 \in 0..MaxEdits
    BY <1>1, <1>2 DEF May
  <2> QED BY <1>2, <2>1 DEF Use, Counters
<1>3. CASE May("failures", MaxFailures) /\ Use("failures")
  <2>1. used.failures + 1 \in 0..MaxFailures
    BY <1>1, <1>3 DEF May
  <2> QED BY <1>3, <2>1 DEF Use, Counters
<1>4. CASE May("restarts", MaxRestarts) /\ Use("restarts")
  <2>1. used.restarts + 1 \in 0..MaxRestarts
    BY <1>1, <1>4 DEF May
  <2> QED BY <1>4, <2>1 DEF Use, Counters
<1> QED BY <1>2, <1>3, <1>4

(* What a pull puts into the session.                                      *)
LEMMA PullTypes ==
    ASSUME TypeOK, SyncPull
    PROVE  sync' \in Session
<1> DEFINE page == Page(sync.cursor)
           S == {sync.cursor} \cup {srv[u].seq : u \in page}
           T == {[u |-> u, version |-> srv[u].version, deleted |-> srv[u].deleted] : u \in page}
           m == After(sync.cursor) # page
<1>1. sync \in Session /\ sync.cursor \in 0..MaxSeq /\ MaxSeq \in Nat
  BY DeviceAssumption DEF SyncPull, TypeOK, Session, DeviceAssumption
<1>2. \A u \in page : u \in Items /\ srv[u] \in ServerRow
  BY DEF Page, After, HasRow, TypeOK
<1>3. \A u \in page : /\ srv[u].seq \in 1..MaxSeq /\ srv[u].version \in 1..MaxSeq
                      /\ srv[u].deleted \in BOOLEAN
  BY <1>2 DEF ServerRow
<1>4. S \subseteq 0..MaxSeq /\ S # {}
  BY <1>1, <1>3
<1>5. T \subseteq Overview
  BY <1>2, <1>3 DEF Overview
<1>6. sync' = [sync EXCEPT !.cursor = Max(S), !.todo = T, !.more = m, !.pulled = TRUE]
  BY DEF SyncPull
<1>7. m \in BOOLEAN
  OBVIOUS
<1> HIDE DEF S, T, m
<1>8. Max(S) \in 0..MaxSeq
  BY <1>1, <1>4, MaxIsMax
<1> QED BY <1>1, <1>5, <1>6, <1>7, <1>8 DEF Session

(* A move between the sets of a session, and the start of the next page.   *)
LEMMA SessionTypes ==
    ASSUME TypeOK,
           \/ SyncStart \/ SyncAbort \/ SyncEnd \/ SyncPersistNot \/ SyncPersist
           \/ \E ov \in Overview : SyncItem(ov)
    PROVE  sync' = Idle \/ sync' \in Session
<1>1. sync = Idle \/ sync \in Session
  BY TypeParts DEF TasksOK
<1>2. CASE SyncStart
  BY <1>2, TypeParts DEF SyncStart, Session, ClientOK
<1>3. CASE SyncAbort \/ SyncEnd
  BY <1>3 DEF SyncAbort, SyncEnd
<1>4. CASE SyncPersistNot \/ SyncPersist
  BY <1>1, <1>4 DEF SyncPersistNot, SyncPersist, NextPage, Session
<1>5. ASSUME NEW ov \in Overview, SyncItem(ov) PROVE sync' \in Session
  <2>1. \/ sync' = [sync EXCEPT !.todo = @ \ {ov}, !.deletes = @ \cup {ov}]
        \/ sync' = [sync EXCEPT !.todo = @ \ {ov}, !.upserts = @ \cup {ov}]
        \/ sync' = [sync EXCEPT !.todo = @ \ {ov}, !.failed = TRUE]
    BY <1>5 DEF SyncItem
  <2>2. sync \in Session
    BY <1>1, <1>5 DEF SyncItem
  <2>3. sync.deletes \cup {ov} \in SUBSET Overview /\ sync.upserts \cup {ov} \in SUBSET Overview
        /\ sync.todo \ {ov} \in SUBSET Overview
    BY <2>2 DEF Session
  <2> QED BY <2>1, <2>2, <2>3 DEF Session
<1> QED BY <1>2, <1>3, <1>4, <1>5

(* Versions that are downloaded keep the types of taken and seen.          *)
LEMMA TakeTypes ==
    ASSUME LocalOK, NEW V, \A u \in Items : V[u] \subseteq 1..MaxSeq, Take(V)
    PROVE  taken' \in [Items -> 0..MaxSeq] /\ seen' \in [Items -> SUBSET (1..MaxSeq)]
<1>1. MaxSeq \in Nat
  BY DeviceAssumption DEF DeviceAssumption
<1>2. ASSUME NEW u \in Items, V[u] # {} PROVE Max(V[u]) \in 0..MaxSeq
  <2>1. V[u] \subseteq 0..MaxSeq
    BY <1>1
  <2> QED BY <1>1, <1>2, <2>1, MaxIsMax
<1>3. taken' \in [Items -> 0..MaxSeq]
  BY <1>2 DEF LocalOK, Take
<1>4. seen' \in [Items -> SUBSET (1..MaxSeq)]
  BY DEF LocalOK, Take
<1> QED BY <1>3, <1>4

(* The versions of u that a page brings.                                   *)
PageVersions(s) ==
    [u \in Items |-> {ov.version : ov \in {o \in s.upserts \cup s.deletes : o.u = u}}]

LEMMA PersistTypes ==
    ASSUME TypeOK, SyncPersist
    PROVE  LocalOK'
<1>1. sync \in Session /\ LocalOK /\ tombs' = tombs /\ dbCursor' = sync.cursor
  BY TypeParts DEF SyncPersist, TasksOK
<1>2. \A ov \in sync.upserts \cup sync.deletes : ov.version \in 1..MaxSeq
  BY <1>1 DEF Session, Overview
<1>3. Take(PageVersions(sync))
  BY DEF SyncPersist, PageVersions
<1>4. \A u \in Items : PageVersions(sync)[u] \subseteq 1..MaxSeq
  BY <1>2 DEF PageVersions
<1>5. taken' \in [Items -> 0..MaxSeq] /\ seen' \in [Items -> SUBSET (1..MaxSeq)]
  BY <1>1, <1>3, <1>4, TakeTypes
<1>6. ASSUME NEW u \in Items, \E ov \in sync.upserts : ov.u = u
      PROVE  LET v == (CHOOSE ov \in sync.upserts : ov.u = u).version
             IN  [version |-> v, base |-> v, mine |-> FALSE] \in LocalRow
  <2> DEFINE v == (CHOOSE ov \in sync.upserts : ov.u = u).version
  <2>1. v \in 0..MaxSeq
    BY <1>2, <1>6, DeviceAssumption DEF DeviceAssumption
  <2> QED BY <2>1 DEF LocalRow
<1>7. loc' \in [Items -> LocalRow \cup {NoRow}]
  BY <1>1, <1>6 DEF SyncPersist, LocalOK
<1> QED BY <1>1, <1>5, <1>7 DEF LocalOK, Session

(* The rows and tombstones a push sends.                                   *)
LEMMA PushTypes ==
    ASSUME TypeOK, PushStart \/ PushTombsDone \/ PushFail \/ PushEnd
    PROVE  push' = Idle \/ push' \in Pushing
<1>1. LocalOK /\ (push = Idle \/ push \in Pushing)
  BY TypeParts DEF TasksOK
<1>2. CASE PushStart
  <2> DEFINE T == {[u |-> u, version |-> tombs[u], base |-> tombs[u]] : u \in Pending}
  <2>1. \A u \in Pending : u \in Items /\ tombs[u] \in 0..MaxSeq
    BY <1>1 DEF Pending, LocalOK
  <2>2. T \subseteq Outgoing /\ Pending \subseteq Items
    BY <2>1 DEF Outgoing
  <2>3. push' = [phase |-> "tombs", sent |-> Pending, applied |-> TRUE, todo |-> T]
    BY <1>2 DEF PushStart
  <2> HIDE DEF T
  <2> QED BY <2>2, <2>3 DEF Pushing
<1>3. CASE StartRows
  <2> DEFINE T == {[u |-> u, version |-> loc[u].version, base |-> loc[u].base] :
                     u \in {w \in Items : HasLocal(w)}}
  <2>1. \A u \in {w \in Items : HasLocal(w)} : u \in Items /\ loc[u] \in LocalRow
    BY <1>1 DEF HasLocal, LocalOK
  <2>2. T \subseteq Outgoing
    BY <2>1 DEF Outgoing, LocalRow
  <2>3. push' = [phase |-> "rows", sent |-> {}, applied |-> TRUE, todo |-> T]
    BY <1>3 DEF StartRows
  <2> HIDE DEF T
  <2> QED BY <2>2, <2>3 DEF Pushing
<1>4. CASE push' = Idle
  BY <1>4
<1> QED BY <1>2, <1>3, <1>4 DEF PushTombsDone, PushFail, PushEnd

LEMMA ServerVersionType ==
    ASSUME TypeOK, NEW u \in Items
    PROVE  ServerVersion(u) \in 0..MaxSeq
<1>1. HasRow(u) => srv[u] \in ServerRow
  BY DEF HasRow, TypeOK
<1> QED BY <1>1, DeviceAssumption DEF ServerVersion, ServerRow, DeviceAssumption

LEMMA PushItemTypes ==
    ASSUME TypeOK, NEW o \in Outgoing, PushItem(o)
    PROVE  push' \in Pushing /\ conflicts' \subseteq [u : Items, version : 0..MaxSeq]
<1>1. push \in Pushing /\ conflicts \subseteq [u : Items, version : 0..MaxSeq]
  BY TypeParts DEF PushItem, TasksOK
<1>2. push.todo \ {o} \in SUBSET Outgoing
  BY <1>1 DEF Pushing
<1>3. \/ push' = [push EXCEPT !.todo = @ \ {o}]
      \/ push' = [push EXCEPT !.todo = @ \ {o}, !.applied = FALSE]
  BY DEF PushItem
<1>4. push' \in Pushing
  BY <1>1, <1>2, <1>3 DEF Pushing
<1>5. o.u \in Items
  BY DEF Outgoing
<1>6. conflicts' = conflicts \/ conflicts' = conflicts \cup {[u |-> o.u, version |-> ServerVersion(o.u)]}
  BY DEF PushItem
<1> QED BY <1>1, <1>4, <1>5, <1>6, ServerVersionType

(* A step of the store, or none.                                           *)
StoreStep ==
    \/ UNCHANGED srv
    \/ \E u \in Items, own \in BOOLEAN :
         /\ \/ own
            \/ HasRow(u)
            \/ u \notin Own
         /\ LastSeq < MaxSeq
         /\ \E deleted \in BOOLEAN : srv' = Written(u, deleted, own)

(* Every step changes the store by at most one upsert; the first version   *)
(* of an own item is this device's.                                        *)
LEMMA NextStoreStep ==
    ASSUME TypeOK, Next
    PROVE  StoreStep
<1>1. ASSUME NEW u \in Items, NEW deleted \in BOOLEAN, RemoteWrite(u, deleted) PROVE StoreStep
  BY <1>1 DEF RemoteWrite, StoreStep
<1>2. ASSUME NEW o \in Outgoing, PushItem(o) PROVE StoreStep
  <2>1. o.u \in Items /\ (push.phase = "tombs") \in BOOLEAN
    BY DEF Outgoing
  <2> QED BY <1>2, <2>1 DEF PushItem, StoreStep
<1>3. ASSUME NEW c \in conflicts, ResolveForce(c) PROVE StoreStep
  <2>1. c.u \in Items
    BY DEF TypeOK
  <2> QED BY <1>3, <2>1 DEF ResolveForce, StoreStep
<1>4. CASE UNCHANGED srv
  BY <1>4 DEF StoreStep
<1> QED
  BY <1>1, <1>2, <1>3, <1>4 DEF Next, SyncStep, SaveStep, PushStep, ResolveStep, SyncStart,
     SyncPull, SyncAbort, SyncItem, SyncPersist, SyncPersistNot, SyncEnd, OpenEditor, SaveRead,
     SaveCommit, Delete, PushStart, PushTombsDone, PushFail, PushEnd, ResolveFetch,
     ResolvePersist, Lock, Crash, Unlock

LEMMA StoreTypes ==
    ASSUME TypeOK, VersionsLag, StoreStep
    PROVE  srv' \in [Items -> ServerRow \cup {NoRow}] /\ VersionsLag'
<1>1. CASE UNCHANGED srv
  BY <1>1 DEF TypeOK, VersionsLag, HasRow
<1> QED BY <1>1, WriteRewrites DEF StoreStep

LEMMA TypesKept ==
    ASSUME TypeOK, VersionsLag, Next
    PROVE  TypeOK' /\ VersionsLag'
<1> USE DEF local, client, tasks
<1>1. srv' \in [Items -> ServerRow \cup {NoRow}] /\ VersionsLag'
  BY NextStoreStep, StoreTypes
<1>2. LocalOK /\ ClientOK /\ TasksOK /\ used \in Counters
  BY TypeParts
<1>3. MaxSeq \in Nat \ {0}
  BY DeviceAssumption DEF DeviceAssumption
<1>4. SUFFICES LocalOK' /\ ClientOK' /\ TasksOK' /\ used' \in Counters
  BY <1>1 DEF TypeOK, LocalOK, ClientOK, TasksOK, Session, Editing, Pushing, Counters
<1>5. used' \in Counters
  BY <1>2, UseCounts DEF Next, SyncStep, SaveStep, PushStep, ResolveStep, RemoteWrite, SyncStart,
     SyncPull, SyncAbort, SyncItem, SyncPersist, SyncPersistNot, SyncEnd, OpenEditor, SaveRead,
     SaveCommit, Delete, PushStart, PushItem, PushTombsDone, PushFail, PushEnd, ResolveForce,
     ResolveFetch, ResolvePersist, Lock, Crash, Unlock
<1>6. CASE UNCHANGED <<local, client, tasks>>
  BY <1>2, <1>5, <1>6 DEF LocalOK, ClientOK, TasksOK
<1>7. CASE SyncStep
  <2>1. sync' = Idle \/ sync' \in Session
    BY <1>7, PullTypes, SessionTypes DEF SyncStep
  <2>2. UNCHANGED <<edit, push, conflicts, resolve>>
    BY <1>7 DEF SyncStep, SyncStart, SyncPull, SyncAbort, SyncItem, SyncPersist, SyncPersistNot, SyncEnd
  <2>3. TasksOK'
    BY <1>2, <2>1, <2>2 DEF TasksOK
  <2>4. LocalOK'
    <3>1. CASE SyncPersist
      BY <3>1, PersistTypes
    <3>2. CASE UNCHANGED local
      BY <1>2, <3>2 DEF LocalOK
    <3> QED BY <1>7, <3>1, <3>2 DEF SyncStep, SyncStart, SyncPull, SyncAbort, SyncItem,
               SyncPersistNot, SyncEnd
  <2>5. ClientOK'
    <3>1. CASE SyncEnd
      <4>1. sync.cursor \in 0..MaxSeq
        BY <1>2, <3>1 DEF SyncEnd, TasksOK, Session
      <4> QED BY <1>2, <3>1, <4>1 DEF SyncEnd, ClientOK
    <3>2. CASE UNCHANGED client
      BY <1>2, <3>2 DEF ClientOK
    <3> QED BY <1>7, <3>1, <3>2 DEF SyncStep, SyncStart, SyncPull, SyncAbort, SyncItem,
               SyncPersist, SyncPersistNot
  <2> QED BY <1>5, <2>3, <2>4, <2>5
<1>8. CASE SaveStep
  <2>1. \A u \in Items : HasLocal(u) => loc[u].version \in 0..MaxSeq /\ loc[u].base \in 0..MaxSeq
    BY <1>2 DEF LocalOK, HasLocal, LocalRow
  <2>2. UNCHANGED <<sync, push, conflicts, resolve, client, tombs, dbCursor, taken, seen>>
    BY <1>8 DEF SaveStep, OpenEditor, SaveRead, SaveCommit
  <2>3. ASSUME NEW u \in Items, OpenEditor(u) PROVE edit' \in Editing /\ loc' = loc
    <3> DEFINE b == IF HasLocal(u) THEN loc[u].base ELSE 0
    <3>1. b \in 0..MaxSeq /\ -1 \in -1..MaxSeq
      BY <1>3, <2>1
    <3>2. edit' = [u |-> u, base |-> b, version |-> -1] /\ loc' = loc
      BY <2>3 DEF OpenEditor
    <3> HIDE DEF b
    <3> QED BY <3>1, <3>2 DEF Editing
  <2>4. CASE SaveRead
    <3> DEFINE v == IF HasLocal(edit.u) THEN loc[edit.u].version ELSE 1
    <3>1. edit \in Editing /\ edit.u \in Items
      BY <1>2, <2>4 DEF SaveRead, TasksOK, Editing
    <3>2. v \in -1..MaxSeq
      BY <1>3, <2>1, <3>1
    <3>3. loc' = loc /\ edit' = IF locked THEN Idle ELSE [edit EXCEPT !.version = v]
      BY <2>4 DEF SaveRead
    <3> HIDE DEF v
    <3>4. edit' = Idle \/ edit' \in Editing
      BY <3>1, <3>2, <3>3 DEF Editing
    <3> QED BY <1>2, <1>5, <2>2, <3>3, <3>4 DEF LocalOK, ClientOK, TasksOK
  <2>5. CASE SaveCommit
    <3> DEFINE row == [version |-> edit.version, base |-> edit.base, mine |-> TRUE]
    <3>1. edit \in Editing /\ edit.version # -1
      BY <1>2, <2>5 DEF SaveCommit, TasksOK
    <3>2. edit.version \in -1..MaxSeq /\ edit.base \in 0..MaxSeq
      BY <3>1 DEF Editing
    <3>3. edit.version \in 0..MaxSeq
      BY <1>3, <3>1, <3>2
    <3>4. row \in LocalRow
      BY <3>2, <3>3 DEF LocalRow
    <3>5. loc' = [loc EXCEPT ![edit.u] = row] /\ edit' = Idle
      BY <2>5 DEF SaveCommit
    <3> HIDE DEF row
    <3>6. loc' \in [Items -> LocalRow \cup {NoRow}]
      BY <1>2, <3>4, <3>5 DEF LocalOK
    <3> QED BY <1>2, <1>5, <2>2, <3>5, <3>6 DEF LocalOK, ClientOK, TasksOK
  <2>6. ASSUME NEW u \in Items, OpenEditor(u) PROVE LocalOK' /\ ClientOK' /\ TasksOK'
    BY <1>2, <2>2, <2>3, <2>6 DEF LocalOK, ClientOK, TasksOK
  <2> QED BY <1>5, <1>8, <2>4, <2>5, <2>6 DEF SaveStep
<1>9. ASSUME NEW u \in Items, Delete(u) PROVE LocalOK' /\ ClientOK' /\ TasksOK'
  <2>1. loc[u].version \in 0..MaxSeq
    BY <1>2, <1>9 DEF LocalOK, Delete, HasLocal, LocalRow
  <2> QED BY <1>2, <1>9, <2>1 DEF Delete, LocalOK, ClientOK, TasksOK
<1>10. CASE PushStep
  <2>1. (push' = Idle \/ push' \in Pushing) /\ conflicts' \subseteq [u : Items, version : 0..MaxSeq]
    <3>1. CASE PushStart \/ PushTombsDone \/ PushFail \/ PushEnd
      BY <1>2, <3>1, PushTypes DEF TasksOK, PushStart, PushTombsDone, PushFail, PushEnd
    <3> QED BY <1>10, <3>1, PushItemTypes DEF PushStep
  <2>2. UNCHANGED <<sync, edit, resolve, client, loc, dbCursor, taken, seen>>
    BY <1>10 DEF PushStep, PushStart, PushItem, PushTombsDone, PushFail, PushEnd
  <2>3. tombs' \in [Items -> 0..MaxSeq]
    <3>1. CASE UNCHANGED tombs
      BY <1>2, <3>1 DEF LocalOK
    <3>2. CASE PushTombsDone
      BY <1>2, <1>3, <3>2 DEF PushTombsDone, LocalOK
    <3> QED BY <1>10, <3>1, <3>2 DEF PushStep, PushStart, PushItem, PushFail, PushEnd
  <2> QED BY <1>2, <1>5, <2>1, <2>2, <2>3 DEF LocalOK, ClientOK, TasksOK
<1>11. ASSUME NEW c \in conflicts, ResolveForce(c) \/ ResolveFetch(c)
       PROVE  LocalOK' /\ ClientOK' /\ TasksOK'
  <2>1. c \in [u : Items, version : 0..MaxSeq]
    BY <1>2 DEF TasksOK
  <2>2. HasRow(c.u) /\ srv[c.u].version = c.version => c \in [u : Items, version : 1..MaxSeq]
    <3>1. c.u \in Items /\ (HasRow(c.u) => srv[c.u] \in ServerRow)
      BY <2>1 DEF TypeOK, HasRow
    <3> QED BY <2>1, <3>1 DEF ServerRow
  <2> QED BY <1>2, <1>11, <2>2 DEF ResolveForce, ResolveFetch, LocalOK, ClientOK, TasksOK
<1>12. CASE ResolvePersist
  <2> DEFINE V == [u \in Items |-> IF u = resolve.u THEN {resolve.version} ELSE {}]
             row == [version |-> resolve.version, base |-> resolve.version, mine |-> FALSE]
  <2>1. resolve.version \in 1..MaxSeq
    BY <1>2, <1>12 DEF ResolvePersist, TasksOK
  <2>2. \A u \in Items : V[u] \subseteq 1..MaxSeq
    BY <2>1
  <2>3. Take(V) /\ loc' = [loc EXCEPT ![resolve.u] = row] /\ dbCursor' = memCursor /\ resolve' = Idle
        /\ UNCHANGED <<tombs, client, sync, edit, push, conflicts>>
    BY <1>12 DEF ResolvePersist
  <2>4. row \in LocalRow
    BY <1>3, <2>1 DEF LocalRow
  <2> HIDE DEF V, row
  <2>5. taken' \in [Items -> 0..MaxSeq] /\ seen' \in [Items -> SUBSET (1..MaxSeq)]
    BY <1>2, <2>2, <2>3, TakeTypes
  <2> QED BY <1>2, <1>5, <2>3, <2>4, <2>5 DEF LocalOK, ClientOK, TasksOK
<1>13. CASE Lock \/ Crash \/ Unlock
  <2>1. LocalOK'
    BY <1>2, <1>13 DEF Lock, Crash, Unlock, LocalOK
  <2>2. ClientOK'
    <3>1. memCursor' \in 0..MaxSeq
      BY <1>2, <1>3, <1>13 DEF Lock, Crash, Unlock, LocalOK, ClientOK
    <3>2. locked' \in BOOLEAN
      BY <1>13, Zenon DEF Lock, Crash, Unlock
    <3> QED BY <3>1, <3>2 DEF ClientOK
  <2>3. TasksOK'
    <3>1. CASE UNCHANGED tasks
      BY <1>2, <3>1 DEF TasksOK
    <3>2. CASE Crash
      BY <3>2 DEF Crash, TasksOK
    <3> QED BY <1>13, <3>1, <3>2 DEF Lock, Unlock
  <2> QED BY <1>5, <2>1, <2>2, <2>3
<1> QED BY <1>5, <1>6, <1>7, <1>8, <1>9, <1>10, <1>11, <1>12, <1>13 DEF Next, RemoteWrite, ResolveStep

LEMMA InitTypes == Init => TypeOK /\ VersionsLag
<1> SUFFICES ASSUME Init PROVE TypeOK /\ VersionsLag
  OBVIOUS
<1> USE DeviceAssumption DEF DeviceAssumption
<1>1. srv \in [Items -> ServerRow \cup {NoRow}] /\ VersionsLag
  BY DEF Init, VersionsLag, HasRow
<1>2. LocalOK
  BY DEF Init, LocalOK
<1>3. memCursor \in 0..MaxSeq
  BY DEF Init
<1>4. locked \in BOOLEAN
  BY Zenon DEF Init
<1>5. ClientOK /\ TasksOK
  BY <1>3, <1>4 DEF Init, ClientOK, TasksOK
<1>6. used \in Counters
  BY DEF Init, Counters
<1> QED BY <1>1, <1>2, <1>5, <1>6, TypeParts

(* Versions, seqs and cursors stay within the number of writes, because a  *)
(* row's version never runs ahead of its seq.                              *)
LEMMA TypesHold == Spec => [](TypeOK /\ VersionsLag)
<1>1. TypeOK /\ VersionsLag /\ [Next]_vars => (TypeOK /\ VersionsLag)'
  <2>1. ASSUME TypeOK, VersionsLag, UNCHANGED vars PROVE (TypeOK /\ VersionsLag)'
    BY <2>1 DEF TypeOK, VersionsLag, HasRow, vars, local, client, tasks
  <2> QED BY <2>1, TypesKept
<1> QED BY <1>1, InitTypes, PTL DEF Spec

(* Every variable of the device keeps its type.                            *)
THEOREM TypeCorrect == Spec => []TypeOK
  BY TypesHold, PTL

-----------------------------------------------------------------------------
(* Pushes over other devices' writes                                       *)

VouchInv == VersionsExist /\ VersionsVouched /\ OwnFirst

(* What a row of the local database, a tombstone, a running save and a     *)
(* running push hold.                                                      *)
LocalVouched == \A u \in Items : HasLocal(u) => Vouched(u, loc[u].version)
TombsVouched == \A u \in Items : tombs[u] # 0 => Vouched(u, tombs[u])
EditVouched ==
    edit # Idle => IF edit.version = -1 THEN edit.u \in Own \/ seen[edit.u] # {}
                                        ELSE Vouched(edit.u, edit.version)
PushVouched == push # Idle => \A o \in push.todo : Vouched(o.u, o.version)

LEMMA VouchedParts ==
    VersionsVouched <=> LocalVouched /\ TombsVouched /\ EditVouched /\ PushVouched
  BY DEF VersionsVouched, LocalVouched, TombsVouched, EditVouched, PushVouched

LEMMA StoreGrows ==
    ASSUME TypeOK, VersionsLag, StoreStep
    PROVE  \A w \in Items : /\ HasRow(w) => HasRow(w)'
                            /\ ServerVersion(w) \in Nat /\ ServerVersion(w)' \in Nat
                            /\ ServerVersion(w) <= ServerVersion(w)'
<1>1. CASE UNCHANGED srv
  <2>1. \A w \in Items : ServerVersion(w) \in Nat
    BY ServerVersionType, DeviceAssumption DEF DeviceAssumption
  <2> QED BY <1>1, <2>1 DEF HasRow, ServerVersion
<1>2. ASSUME NEW u \in Items, NEW own \in BOOLEAN, NEW deleted \in BOOLEAN,
             LastSeq < MaxSeq, srv' = Written(u, deleted, own)
      PROVE  Rewritten(u, own)
  BY <1>2, WriteRewrites
<1> QED BY <1>1, <1>2, RewrittenGrows DEF StoreStep

(* Nothing is forgotten of what was ever downloaded.                       *)
LEMMA SeenGrows ==
    ASSUME TypeOK, Next
    PROVE  \A u \in Items : seen[u] \subseteq seen'[u]
<1>1. CASE UNCHANGED seen
  BY <1>1
<1>2. ASSUME NEW V, Take(V) PROVE \A u \in Items : seen[u] \subseteq seen'[u]
  BY <1>2 DEF Take
<1> QED
  BY <1>1, <1>2 DEF Next, SyncStep, SaveStep, PushStep, ResolveStep, RemoteWrite, SyncStart,
     SyncPull, SyncAbort, SyncItem, SyncPersist, SyncPersistNot, SyncEnd, OpenEditor, SaveRead,
     SaveCommit, Delete, PushStart, PushItem, PushTombsDone, PushFail, PushEnd, ResolveForce,
     ResolveFetch, ResolvePersist, Lock, Crash, Unlock, local

LEMMA VouchedStays ==
    ASSUME NEW u \in Items, NEW v, seen[u] \subseteq seen'[u], Vouched(u, v)
    PROVE  Vouched(u, v)'
  BY DEF Vouched

(* The first version of an own item stays this device's.                   *)
LEMMA OwnFirstKept ==
    ASSUME TypeOK, VersionsLag, StoreStep, OwnFirst
    PROVE  OwnFirst'
<1>1. CASE UNCHANGED srv
  BY <1>1 DEF OwnFirst, HasRow
<1>2. ASSUME NEW u \in Items, NEW own \in BOOLEAN, NEW deleted \in BOOLEAN, LastSeq < MaxSeq,
             own \/ HasRow(u) \/ u \notin Own, srv' = Written(u, deleted, own)
      PROVE  OwnFirst'
  <2>1. Rewritten(u, own)
    BY <1>2, WriteRewrites
  <2>2. HasRow(u) => srv[u].version \in Nat \ {0} /\ ServerVersion(u) = srv[u].version
    BY DeviceAssumption DEF DeviceAssumption, TypeOK, HasRow, ServerRow, ServerVersion
  <2>3. u \in Own /\ srv'[u].version = 1 => srv'[u].own
    BY <1>2, <2>1, <2>2 DEF Rewritten
  <2> QED BY <2>1, <2>3, DeviceAssumption DEF DeviceAssumption, Rewritten, OwnFirst, HasRow
<1> QED BY <1>1, <1>2 DEF StoreStep

(* What leaves the page is not replaced within the page.                   *)
LEMMA HandShrinks ==
    ASSUME sync \in Session,
           \/ SyncPersist \/ SyncPersistNot
           \/ \E ov \in Overview : SyncItem(ov)
    PROVE  InHand(sync') \subseteq InHand(sync)
<1>1. CASE SyncPersist \/ SyncPersistNot
  <2>1. sync'.todo = sync.todo /\ sync'.upserts = {} /\ sync'.deletes = {}
    BY <1>1 DEF SyncPersist, SyncPersistNot, NextPage, Session
  <2> QED BY <2>1 DEF InHand
<1>2. ASSUME NEW ov \in Overview, SyncItem(ov) PROVE InHand(sync') \subseteq InHand(sync)
  <2>1. /\ ov \in sync.todo
        /\ \/ sync' = [sync EXCEPT !.todo = sync.todo \ {ov}, !.deletes = sync.deletes \cup {ov}]
           \/ sync' = [sync EXCEPT !.todo = sync.todo \ {ov}, !.upserts = sync.upserts \cup {ov}]
           \/ sync' = [sync EXCEPT !.todo = sync.todo \ {ov}, !.failed = TRUE]
    BY <1>2 DEF SyncItem
  <2>2. /\ sync'.todo = sync.todo \ {ov}
        /\ sync'.upserts \subseteq sync.upserts \cup {ov}
        /\ sync'.deletes \subseteq sync.deletes \cup {ov}
    BY <2>1 DEF Session
  <2> QED BY <2>1, <2>2 DEF InHand
<1> QED BY <1>1, <1>2

(* A version that exists and is downloaded still exists.                   *)
LEMMA ExistKept ==
    ASSUME TypeOK, VersionsLag, Next, VersionsExist
    PROVE  VersionsExist'
<1> USE DEF local, client, tasks
<1>1. \A w \in Items : /\ HasRow(w) => HasRow(w)'
                       /\ ServerVersion(w) \in Nat /\ ServerVersion(w)' \in Nat
                       /\ ServerVersion(w) <= ServerVersion(w)'
  BY NextStoreStep, StoreGrows
<1>2. LocalOK /\ TasksOK /\ MaxSeq \in Nat
  BY TypeParts, DeviceAssumption DEF DeviceAssumption
<1> DEFINE Had(u, v) == v \in Nat /\ v <= ServerVersion(u)
<1>3. ASSUME NEW u \in Items, NEW v, Had(u, v) PROVE v <= ServerVersion(u)'
  BY <1>1, <1>3
<1>4. /\ \A u \in Items : \A v \in seen[u] : Had(u, v)
      /\ sync # Idle => \A ov \in InHand(sync) : ov.u \in Items /\ Had(ov.u, ov.version)
      /\ resolve # Idle => resolve.u \in Items /\ Had(resolve.u, resolve.version)
  <2>1. \A u \in Items : \A v \in seen[u] : Had(u, v)
    BY <1>2 DEF LocalOK, VersionsExist
  <2>2. ASSUME sync # Idle, NEW ov \in InHand(sync) PROVE ov.u \in Items /\ Had(ov.u, ov.version)
    <3>1. ov \in Overview
      BY <1>2, <2>2 DEF TasksOK, InHand, Session
    <3> QED BY <1>2, <2>2, <3>1 DEF Overview, VersionsExist
  <2>3. ASSUME resolve # Idle PROVE resolve.u \in Items /\ Had(resolve.u, resolve.version)
    BY <1>2, <2>3 DEF TasksOK, VersionsExist
  <2> QED BY <2>1, <2>2, <2>3
<1> HIDE DEF Had
<1>5. \A u \in Items : \A v \in seen'[u] : v <= ServerVersion(u)'
  <2>1. CASE UNCHANGED seen
    BY <1>3, <1>4, <2>1
  <2>2. CASE SyncPersist
    <3>1. Take(PageVersions(sync)) /\ sync # Idle
      BY <2>2 DEF SyncPersist, PageVersions
    <3>2. \A u \in Items : \A v \in PageVersions(sync)[u] :
            \E ov \in InHand(sync) : ov.u = u /\ ov.version = v
      BY DEF PageVersions, InHand
    <3>3. \A u \in Items : \A v \in PageVersions(sync)[u] : Had(u, v)
      BY <1>4, <3>1, <3>2
    <3> QED BY <1>2, <1>3, <1>4, <3>1, <3>3 DEF Take, LocalOK
  <2>3. CASE ResolvePersist
    <3> DEFINE V == [u \in Items |-> IF u = resolve.u THEN {resolve.version} ELSE {}]
    <3>1. Take(V) /\ resolve # Idle
      BY <2>3 DEF ResolvePersist
    <3>2. \A u \in Items : \A v \in V[u] : Had(u, v)
      BY <1>4, <3>1
    <3> HIDE DEF V
    <3> QED BY <1>2, <1>3, <1>4, <3>1, <3>2 DEF Take, LocalOK
  <2> QED
    BY <2>1, <2>2, <2>3 DEF Next, SyncStep, SaveStep, PushStep, ResolveStep, RemoteWrite, SyncStart,
     SyncPull, SyncAbort, SyncItem, SyncPersistNot, SyncEnd, OpenEditor, SaveRead,
     SaveCommit, Delete, PushStart, PushItem, PushTombsDone, PushFail, PushEnd, ResolveForce,
     ResolveFetch, Lock, Crash, Unlock
<1>6. (sync # Idle => \A ov \in InHand(sync) : ov.version <= ServerVersion(ov.u))'
  <2> SUFFICES ASSUME sync' # Idle
               PROVE  \A ov \in InHand(sync') : ov.u \in Items /\ Had(ov.u, ov.version)
    BY <1>3 DEF ServerVersion, HasRow
  <2>1. CASE UNCHANGED sync
    BY <1>4, <2>1
  <2>2. CASE SyncStart
    BY <2>2 DEF SyncStart, InHand
  <2>3. CASE SyncPull
    <3> DEFINE page == Page(sync.cursor)
               T == {[u |-> u, version |-> srv[u].version, deleted |-> srv[u].deleted] : u \in page}
    <3>1. \A u \in page : u \in Items /\ HasRow(u)
      BY DEF Page, After
    <3>2. \A u \in page : Had(u, srv[u].version)
      <4>1. \A u \in page : ServerVersion(u) = srv[u].version
        BY <3>1 DEF ServerVersion
      <4> QED BY <1>1, <3>1, <4>1 DEF Had
    <3>3. \A ov \in T : ov.u \in Items /\ Had(ov.u, ov.version)
      BY <3>1, <3>2
    <3>4. sync # Idle /\ sync'.todo = T /\ sync'.upserts = sync.upserts /\ sync'.deletes = sync.deletes
      BY <1>2, <2>3 DEF SyncPull, TasksOK, Session
    <3> HIDE DEF T
    <3>5. InHand(sync') \subseteq T \cup InHand(sync)
      BY <3>4 DEF InHand
    <3> QED BY <1>4, <3>3, <3>4, <3>5
  <2>4. CASE SyncPersist \/ SyncPersistNot \/ (\E ov \in Overview : SyncItem(ov))
    <3>1. InHand(sync') \subseteq InHand(sync) /\ sync # Idle
      <4>1. sync # Idle
        BY <2>4 DEF SyncPersist, SyncPersistNot, SyncItem
      <4>2. sync \in Session
        BY <1>2, <4>1 DEF TasksOK
      <4> QED BY <2>4, <4>1, <4>2, HandShrinks
    <3> QED BY <1>4, <3>1
  <2> QED
    BY <2>1, <2>2, <2>3, <2>4 DEF Next, SyncStep, SaveStep, PushStep, ResolveStep, RemoteWrite,
     SyncAbort, SyncEnd, OpenEditor, SaveRead, SaveCommit, Delete, PushStart, PushItem,
     PushTombsDone, PushFail, PushEnd, ResolveForce, ResolveFetch, ResolvePersist,
     Lock, Crash, Unlock
<1>7. (resolve # Idle => resolve.version <= ServerVersion(resolve.u))'
  <2> SUFFICES ASSUME resolve' # Idle
               PROVE  resolve'.u \in Items /\ Had(resolve'.u, resolve'.version)
    BY <1>3 DEF ServerVersion, HasRow
  <2>1. CASE UNCHANGED resolve
    BY <1>4, <2>1
  <2>2. ASSUME NEW c \in conflicts, ResolveFetch(c)
        PROVE  resolve'.u \in Items /\ Had(resolve'.u, resolve'.version)
    <3>1. resolve' = c /\ HasRow(c.u) /\ srv[c.u].version = c.version
      BY <2>2 DEF ResolveFetch
    <3>2. c.u \in Items /\ ServerVersion(c.u) = c.version
      BY <1>2, <3>1 DEF TasksOK, ServerVersion
    <3> QED BY <1>1, <3>1, <3>2 DEF Had
  <2> QED
    BY <2>1, <2>2 DEF Next, SyncStep, SaveStep, PushStep, ResolveStep, RemoteWrite, SyncStart,
     SyncPull, SyncAbort, SyncItem, SyncPersist, SyncPersistNot, SyncEnd, OpenEditor, SaveRead,
     SaveCommit, Delete, PushStart, PushItem, PushTombsDone, PushFail, PushEnd, ResolveForce,
     ResolvePersist, Lock, Crash, Unlock
<1> QED BY <1>5, <1>6, <1>7 DEF VersionsExist

(* The local database: what a page or a resolution writes was downloaded,  *)
(* what a save writes was read by the save.                                *)
LEMMA LocalKept ==
    ASSUME TypeOK, Next, VersionsVouched
    PROVE  LocalVouched'
<1> USE DEF local, client, tasks
<1>1. \A u \in Items : seen[u] \subseteq seen'[u]
  BY SeenGrows
<1>2. LocalOK /\ TasksOK /\ LocalVouched /\ EditVouched
  BY TypeParts, VouchedParts
<1>3. ASSUME NEW u \in Items, loc'[u] = loc[u] PROVE (HasLocal(u) => Vouched(u, loc[u].version))'
  BY <1>1, <1>2, <1>3 DEF LocalVouched, HasLocal, Vouched
<1>4. CASE UNCHANGED loc
  BY <1>3, <1>4 DEF LocalVouched
<1>5. CASE SyncPersist
  <2> SUFFICES ASSUME NEW u \in Items, loc'[u] # NoRow, loc'[u] # loc[u]
               PROVE  loc'[u].version \in seen'[u]
    BY <1>3 DEF LocalVouched, HasLocal, Vouched
  <2> DEFINE ov == CHOOSE o \in sync.upserts : o.u = u
  <2>1. ov \in sync.upserts /\ ov.u = u /\ loc'[u].version = ov.version
    BY <1>5 DEF SyncPersist
  <2>2. seen'[u] = seen[u] \cup PageVersions(sync)[u]
    BY <1>5 DEF SyncPersist, Take, PageVersions
  <2> HIDE DEF ov
  <2>3. ov.version \in PageVersions(sync)[u]
    BY <2>1 DEF PageVersions
  <2> QED BY <2>1, <2>2, <2>3
<1>6. CASE SaveCommit
  <2>1. edit # Idle /\ edit.version # -1 /\ edit.u \in Items
        /\ loc' = [loc EXCEPT ![edit.u] = [version |-> edit.version, base |-> edit.base, mine |-> TRUE]]
    BY <1>2, <1>6 DEF SaveCommit, TasksOK, Editing
  <2>2. Vouched(edit.u, edit.version) /\ seen' = seen
    BY <1>2, <1>6, <2>1 DEF EditVouched, SaveCommit
  <2>3. loc'[edit.u].version = edit.version /\ \A u \in Items \ {edit.u} : loc'[u] = loc[u]
    BY <1>2, <2>1 DEF LocalOK
  <2> QED BY <1>3, <2>2, <2>3 DEF LocalVouched, Vouched
<1>7. ASSUME NEW u \in Items, Delete(u) PROVE LocalVouched'
  <2>1. loc'[u] = NoRow /\ \A w \in Items \ {u} : loc'[w] = loc[w]
    BY <1>2, <1>7 DEF Delete, LocalOK
  <2> QED BY <1>3, <2>1 DEF LocalVouched, HasLocal
<1>8. CASE ResolvePersist
  <2>1. resolve # Idle /\ resolve.u \in Items
        /\ loc' = [loc EXCEPT ![resolve.u] = [version |-> resolve.version, base |-> resolve.version,
                                              mine |-> FALSE]]
    BY <1>2, <1>8 DEF ResolvePersist, TasksOK
  <2>2. resolve.version \in seen'[resolve.u]
    BY <1>8, <2>1 DEF ResolvePersist, Take
  <2>3. loc'[resolve.u].version = resolve.version /\ \A u \in Items \ {resolve.u} : loc'[u] = loc[u]
    BY <1>2, <2>1 DEF LocalOK
  <2> QED BY <1>3, <2>2, <2>3 DEF LocalVouched, Vouched
<1> QED
  BY <1>4, <1>5, <1>6, <1>7, <1>8 DEF Next, SyncStep, SaveStep, PushStep, ResolveStep, RemoteWrite,
     SyncStart, SyncPull, SyncAbort, SyncItem, SyncPersistNot, SyncEnd, OpenEditor, SaveRead,
     PushStart, PushItem, PushTombsDone, PushFail, PushEnd, ResolveForce,
     ResolveFetch, Lock, Crash, Unlock

(* A tombstone records the version of the row it removes.                  *)
LEMMA TombsKept ==
    ASSUME TypeOK, Next, VersionsVouched
    PROVE  TombsVouched'
<1> USE DEF local, client, tasks
<1>1. \A u \in Items : seen[u] \subseteq seen'[u]
  BY SeenGrows
<1>2. LocalOK /\ LocalVouched /\ TombsVouched
  BY TypeParts, VouchedParts
<1>3. ASSUME NEW u \in Items, tombs'[u] = tombs[u] PROVE (tombs[u] # 0 => Vouched(u, tombs[u]))'
  BY <1>1, <1>2, <1>3 DEF TombsVouched, Vouched
<1>4. CASE UNCHANGED tombs
  BY <1>3, <1>4 DEF TombsVouched
<1>5. ASSUME NEW u \in Items, Delete(u) PROVE TombsVouched'
  <2>1. Vouched(u, loc[u].version) /\ seen' = seen
    BY <1>2, <1>5 DEF Delete, LocalVouched
  <2>2. tombs'[u] = loc[u].version /\ \A w \in Items \ {u} : tombs'[w] = tombs[w]
    BY <1>2, <1>5 DEF Delete, LocalOK
  <2> QED BY <1>3, <2>1, <2>2 DEF TombsVouched, Vouched
<1>6. CASE PushTombsDone
  <2>1. \A u \in Items : tombs'[u] = 0 \/ tombs'[u] = tombs[u]
    BY <1>6 DEF PushTombsDone
  <2> QED BY <1>3, <2>1 DEF TombsVouched
<1> QED
  BY <1>4, <1>5, <1>6 DEF Next, SyncStep, SaveStep, PushStep, ResolveStep, RemoteWrite,
     SyncStart, SyncPull, SyncAbort, SyncItem, SyncPersist, SyncPersistNot, SyncEnd, OpenEditor,
     SaveRead, SaveCommit, PushStart, PushItem, PushFail, PushEnd, ResolveForce,
     ResolveFetch, ResolvePersist, Lock, Crash, Unlock

(* A save reads the version of the row, or takes 1: then the row was       *)
(* removed since it was opened, or the item is new.                        *)
LEMMA EditKept ==
    ASSUME TypeOK, Next, VersionsVouched
    PROVE  EditVouched'
<1> USE DEF local, client, tasks
<1>1. \A u \in Items : seen[u] \subseteq seen'[u]
  BY SeenGrows
<1>2. LocalOK /\ TasksOK /\ LocalVouched /\ EditVouched
  BY TypeParts, VouchedParts
<1>3. CASE UNCHANGED edit
  <2>1. edit # Idle => edit.u \in Items
    BY <1>2 DEF TasksOK, Editing
  <2> QED BY <1>1, <1>2, <1>3, <2>1 DEF EditVouched, Vouched
<1>4. CASE edit' = Idle
  BY <1>4 DEF EditVouched
<1>5. ASSUME NEW u \in Items, OpenEditor(u) PROVE EditVouched'
  <2>1. edit'.u = u /\ edit'.version = -1 /\ seen' = seen /\ (HasLocal(u) \/ u \in Own)
    BY <1>5 DEF OpenEditor
  <2>2. u \in Own \/ seen[u] # {}
    BY <1>2, <2>1 DEF LocalVouched, Vouched
  <2> QED BY <2>1, <2>2 DEF EditVouched
<1>6. CASE SaveRead /\ edit' # Idle
  <2> DEFINE v == IF HasLocal(edit.u) THEN loc[edit.u].version ELSE 1
  <2>1. edit # Idle /\ edit.version = -1 /\ seen' = seen /\ edit' = [edit EXCEPT !.version = v]
    BY <1>6 DEF SaveRead
  <2>2. edit \in Editing /\ edit.u \in Items /\ (edit.u \in Own \/ seen[edit.u] # {})
    BY <1>2, <2>1 DEF EditVouched, TasksOK, Editing
  <2>3. Vouched(edit.u, v) /\ v # -1
    <3>1. CASE HasLocal(edit.u)
      <4>1. loc[edit.u].version \in 0..MaxSeq
        BY <1>2, <2>2, <3>1 DEF LocalOK, HasLocal, LocalRow
      <4> QED BY <1>2, <2>2, <3>1, <4>1, DeviceAssumption DEF DeviceAssumption, LocalVouched
    <3>2. CASE ~HasLocal(edit.u)
      BY <2>2, <3>2 DEF Vouched
    <3> QED BY <3>1, <3>2
  <2> HIDE DEF v
  <2>4. edit'.u = edit.u /\ edit'.version = v
    BY <2>1, <2>2 DEF Editing
  <2> QED BY <2>1, <2>3, <2>4 DEF EditVouched, Vouched
<1> QED
  BY <1>3, <1>4, <1>5, <1>6 DEF Next, SyncStep, SaveStep, PushStep, ResolveStep, RemoteWrite,
     SyncStart, SyncPull, SyncAbort, SyncItem, SyncPersist, SyncPersistNot, SyncEnd,
     SaveCommit, Delete, PushStart, PushItem, PushTombsDone, PushFail, PushEnd, ResolveForce,
     ResolveFetch, ResolvePersist, Lock, Crash, Unlock

(* A push sends the versions of rows and tombstones.                       *)
LEMMA PushKept ==
    ASSUME TypeOK, Next, VersionsVouched
    PROVE  PushVouched'
<1> USE DEF local, client, tasks
<1>1. \A u \in Items : seen[u] \subseteq seen'[u]
  BY SeenGrows
<1>2. LocalOK /\ TasksOK /\ LocalVouched /\ TombsVouched /\ PushVouched
  BY TypeParts, VouchedParts
<1>3. CASE push # Idle /\ push' # Idle /\ push'.todo \subseteq push.todo
  <2>1. \A o \in push.todo : o.u \in Items
    BY <1>2, <1>3 DEF TasksOK, Pushing, Outgoing
  <2> QED BY <1>1, <1>2, <1>3, <2>1 DEF PushVouched, Vouched
<1>4. CASE push' = Idle
  BY <1>4 DEF PushVouched
<1>5. CASE PushStart
  <2>1. /\ push'.todo = {[u |-> u, version |-> tombs[u], base |-> tombs[u]] : u \in Pending}
        /\ seen' = seen
    BY <1>5 DEF PushStart
  <2>2. \A u \in Pending : Vouched(u, tombs[u])
    BY <1>2 DEF Pending, TombsVouched
  <2> QED BY <2>1, <2>2 DEF PushVouched, Vouched
<1>6. CASE StartRows /\ seen' = seen
  <2>1. push'.todo = {[u |-> u, version |-> loc[u].version, base |-> loc[u].base] :
                        u \in {w \in Items : HasLocal(w)}}
    BY <1>6 DEF StartRows
  <2>2. \A u \in {w \in Items : HasLocal(w)} : Vouched(u, loc[u].version)
    BY <1>2 DEF LocalVouched
  <2> QED BY <1>6, <2>1, <2>2 DEF PushVouched, Vouched
<1>7. ASSUME NEW o \in Outgoing, PushItem(o) PROVE PushVouched'
  <2>1. push # Idle /\ push \in Pushing
    BY <1>2, <1>7 DEF TasksOK, PushItem
  <2>2. \/ push' = [push EXCEPT !.todo = push.todo \ {o}]
        \/ push' = [push EXCEPT !.todo = push.todo \ {o}, !.applied = FALSE]
    BY <1>7 DEF PushItem
  <2>3. push'.todo \subseteq push.todo
    BY <2>1, <2>2 DEF Pushing
  <2> QED BY <1>3, <1>4, <2>1, <2>3
<1>8. CASE UNCHANGED push
  BY <1>3, <1>4, <1>8
<1> QED
  BY <1>4, <1>5, <1>6, <1>7, <1>8 DEF Next, SyncStep, SaveStep, PushStep, ResolveStep, RemoteWrite,
     SyncStart, SyncPull, SyncAbort, SyncItem, SyncPersist, SyncPersistNot, SyncEnd, OpenEditor,
     SaveRead, SaveCommit, Delete, PushTombsDone, PushFail, PushEnd, ResolveForce,
     ResolveFetch, ResolvePersist, Lock, Crash, Unlock

(* The OCC check accepts an outgoing version only if it is the row's, and  *)
(* a vouched version that is another device's was downloaded.              *)
LEMMA AcceptedWasSeen ==
    ASSUME TypeOK, VersionsLag, VouchInv, Next, NEW o \in Outgoing, AcceptedOver(o)
    PROVE  srv[o.u].version \in seen[o.u]
<1> USE DEF local, client, tasks
<1>1. o.u \in Items /\ HasRow(o.u) /\ ~srv[o.u].own /\ push # Idle /\ push' # push /\ srv' # srv
      /\ o \in push.todo /\ o \notin push'.todo
  BY DEF AcceptedOver, Outgoing
<1>2. PICK p \in Outgoing : PushItem(p)
  BY <1>1 DEF Next, SyncStep, SaveStep, PushStep, ResolveStep, RemoteWrite,
     SyncStart, SyncPull, SyncAbort, SyncItem, SyncPersist, SyncPersistNot, SyncEnd, OpenEditor,
     SaveRead, SaveCommit, Delete, PushStart, PushTombsDone, PushFail, PushEnd, ResolveForce,
     ResolveFetch, ResolvePersist, Lock, Crash, Unlock
<1>3. push \in Pushing
  BY <1>1, TypeParts DEF TasksOK
<1>4. push' = [push EXCEPT !.todo = push.todo \ {p}] /\ Accepts(p.u, p.version)
  BY <1>1, <1>2 DEF PushItem
<1>5. push'.todo = push.todo \ {p}
  BY <1>3, <1>4 DEF Pushing
<1>6. o = p
  BY <1>1, <1>5
<1>7. srv[o.u].version = o.version
  BY <1>1, <1>4, <1>6 DEF Accepts
<1>8. Vouched(o.u, o.version)
  BY <1>1 DEF VouchInv, VersionsVouched
<1>9. CASE o.version = 1 /\ o.u \in Own
  BY <1>1, <1>7, <1>9 DEF VouchInv, OwnFirst
<1>10. CASE o.version = 1 /\ seen[o.u] # {}
  <2>1. PICK v \in seen[o.u] : TRUE
    BY <1>10
  <2>2. v \in 1..MaxSeq /\ v <= 1
    BY <1>1, <1>7, <1>10, TypeParts DEF LocalOK, VouchInv, VersionsExist, ServerVersion
  <2>3. v = 1
    BY <2>2, DeviceAssumption DEF DeviceAssumption
  <2> QED BY <1>7, <1>10, <2>1, <2>3
<1> QED BY <1>7, <1>8, <1>9, <1>10 DEF Vouched

(* A push or a tombstone never overwrites another device's change that     *)
(* this device has not downloaded, whatever sync, save, delete, push,      *)
(* conflict resolution, lock and crash do in between: push_local_changes   *)
(* names the version it has, and upsert_item_occ compares it.              *)
THEOREM NoBlindPush == Spec => NoUnseenOverwrite
<1>1. Init => VouchInv
  BY DeviceAssumption DEF DeviceAssumption, Init, VouchInv, VersionsExist, VersionsVouched,
     OwnFirst, HasRow, HasLocal, ServerVersion
<1>2. ASSUME TypeOK, VersionsLag, VouchInv, [Next]_vars
      PROVE  VouchInv' /\ [\A o \in Outgoing : AcceptedOver(o) => srv[o.u].version \in seen[o.u]]_<<srv, push>>
  <2>1. CASE Next
    <3>1. VersionsVouched'
      <4>1. LocalVouched' /\ TombsVouched' /\ EditVouched' /\ PushVouched'
        BY <1>2, <2>1, LocalKept, TombsKept, EditKept, PushKept DEF VouchInv
      <4> QED BY <4>1 DEF VersionsVouched, LocalVouched, TombsVouched, EditVouched, PushVouched
    <3>2. VersionsExist' /\ OwnFirst'
      BY <1>2, <2>1, ExistKept, OwnFirstKept, NextStoreStep DEF VouchInv
    <3> QED BY <1>2, <2>1, <3>1, <3>2, AcceptedWasSeen DEF VouchInv
  <2>2. CASE UNCHANGED vars
    BY <1>2, <2>2 DEF vars, local, tasks, VouchInv, VersionsExist, VersionsVouched, OwnFirst,
       HasRow, HasLocal, ServerVersion, Vouched
  <2> QED BY <1>2, <2>1, <2>2
<1> QED BY <1>1, <1>2, TypesHold, PTL DEF Spec, NoUnseenOverwrite

-----------------------------------------------------------------------------
(* The cursor in memory                                                    *)

(* A write is beyond every cursor that a pull has reached.                 *)
LEMMA StoreBeyond ==
    ASSUME TypeOK, VersionsLag, StoreStep
    PROVE  /\ \A u \in Items : \/ srv'[u] = srv[u]
                               \/ /\ HasRow(u)' /\ srv'[u].seq \in Nat
                                  /\ \A c \in 0..MaxSeq : Reached(c) => c < srv'[u].seq
           /\ \A c \in 0..MaxSeq : Reached(c) => Reached(c)'
<1> USE DeviceAssumption, AbsentAssumption DEF DeviceAssumption, AbsentAssumption
<1>1. CASE UNCHANGED srv
  BY <1>1 DEF Reached, HasRow
<1>2. ASSUME NEW u \in Items, NEW own \in BOOLEAN, NEW deleted \in BOOLEAN,
             LastSeq < MaxSeq, srv' = Written(u, deleted, own)
      PROVE  /\ \A w \in Items \ {u} : srv'[w] = srv[w]
             /\ HasRow(u)' /\ srv'[u].seq \in Nat
             /\ \A c \in 0..MaxSeq : Reached(c) => c < srv'[u].seq
             /\ \A c \in 0..MaxSeq : Reached(c) => Reached(c)'
  <2>1. Rewritten(u, own)
    BY <1>2, WriteRewrites
  <2>2. HasRow(u)'
    BY <2>1 DEF Rewritten, HasRow
  <2>3. srv'[u].seq \in 1..MaxSeq
    BY <2>1 DEF Rewritten, ServerRow
  <2>4. \A w \in Items : HasRow(w) => srv[w].seq \in 1..MaxSeq
    BY DEF TypeOK, HasRow, ServerRow
  <2>5. ASSUME NEW c \in 0..MaxSeq, Reached(c) PROVE c < srv'[u].seq
    <3>1. CASE c = 0
      BY <2>3, <3>1
    <3>2. ASSUME NEW w \in Items, HasRow(w), srv[w].seq >= c PROVE c < srv'[u].seq
      <4>1. srv[w].seq < srv'[u].seq /\ srv[w].seq \in 1..MaxSeq
        BY <2>1, <2>4, <3>2 DEF Rewritten
      <4> QED BY <2>3, <3>2, <4>1
    <3> QED BY <2>5, <3>1, <3>2 DEF Reached
  <2>6. ASSUME NEW c \in 0..MaxSeq, Reached(c) PROVE Reached(c)'
    <3>1. srv'[u].seq >= c
      BY <2>3, <2>5, <2>6
    <3> QED BY <2>2, <3>1 DEF Reached
  <2> QED BY <2>1, <2>2, <2>3, <2>5, <2>6 DEF Rewritten
<1> QED BY <1>1, <1>2 DEF StoreStep

(* The rows beyond a page come after the rows of the page.                 *)
LEMMA PageIsFirst ==
    ASSUME TypeOK, NEW c, NEW u \in Page(c), NEW w \in After(c) \ Page(c)
    PROVE  srv[u].seq < srv[w].seq
<1> DEFINE Before(x) == {y \in After(c) : srv[y].seq < srv[x].seq}
<1>1. u \in After(c) /\ Cardinality(Before(u)) < PageLimit /\ ~(Cardinality(Before(w)) < PageLimit)
  BY DEF Page
<1>2. u \in Items /\ w \in Items /\ \A x \in After(c) : x \in Items /\ srv[x].seq \in Nat
  BY <1>1, DeviceAssumption DEF After, HasRow, TypeOK, ServerRow, DeviceAssumption
<1> SUFFICES ASSUME srv[w].seq <= srv[u].seq PROVE FALSE
  BY <1>1, <1>2
<1>3. Before(w) \subseteq Before(u)
  BY <1>1, <1>2
<1>4. IsFiniteSet(Items) /\ Before(u) \subseteq Items /\ PageLimit \in Nat
  BY DeviceAssumption DEF DeviceAssumption, After
<1> HIDE DEF Before
<1>5. IsFiniteSet(Before(u))
  BY <1>4, FS_Subset
<1>6. IsFiniteSet(Before(w)) /\ Cardinality(Before(w)) <= Cardinality(Before(u))
  BY <1>3, <1>5, FS_Subset
<1>7. Cardinality(Before(w)) \in Nat /\ Cardinality(Before(u)) \in Nat
  BY <1>5, <1>6, FS_CardinalityType
<1> QED BY <1>1, <1>4, <1>6, <1>7

(* A session pulls from where it is: the rows up to the new cursor are     *)
(* delivered or in the page.                                               *)
LEMMA PullSound ==
    ASSUME TypeOK, SyncSound, SyncPull
    PROVE  SyncSound'
<1> USE DEF local, client
<1> DEFINE page == Page(sync.cursor)
           S == {sync.cursor} \cup {srv[u].seq : u \in page}
           T == {[u |-> u, version |-> srv[u].version, deleted |-> srv[u].deleted] : u \in page}
           m == After(sync.cursor) # page
<1>1. sync \in Session /\ SessionSound(sync) /\ ~sync.pulled /\ InHand(sync) = {}
  BY TypeParts DEF TasksOK, SyncPull, SyncSound, SessionSound
<1>2. sync.cursor \in 0..MaxSeq /\ MaxSeq \in Nat /\ memCursor \in 0..MaxSeq
  BY <1>1, TypeParts, DeviceAssumption DEF Session, DeviceAssumption, ClientOK
<1>3. \A u \in Items : HasRow(u) => srv[u].seq \in 1..MaxSeq
  BY DEF TypeOK, HasRow, ServerRow
<1>4. \A u \in page : u \in Items /\ HasRow(u) /\ u \in After(sync.cursor)
  BY DEF Page, After
<1>5. S \subseteq 0..MaxSeq /\ S # {} /\ sync.cursor \in S
  BY <1>2, <1>3, <1>4
<1>6. Max(S) \in S /\ \A y \in S : Max(S) >= y
  <2> HIDE DEF S
  <2> QED BY <1>2, <1>5, MaxIsMax
<1>7. sync' = [sync EXCEPT !.cursor = Max(S), !.todo = T, !.more = m, !.pulled = TRUE]
      /\ UNCHANGED <<srv, taken, memCursor, locked, resolve>>
  BY DEF SyncPull
<1>8. ASSUME NEW u \in Items, HasRow(u), srv[u].seq <= Max(S), ~(srv[u].seq <= sync.cursor)
      PROVE  u \in page
  <2>1. u \in After(sync.cursor)
    BY <1>2, <1>3, <1>8 DEF After
  <2>2. PICK w \in page : Max(S) = srv[w].seq
    BY <1>6, <1>8
  <2>3. u \notin page => srv[w].seq < srv[u].seq
    BY <2>1, <2>2, PageIsFirst
  <2> QED BY <1>3, <1>4, <1>8, <2>2, <2>3
<1>9. Reached(Max(S))
  <2>1. CASE Max(S) = sync.cursor
    BY <1>1, <2>1 DEF SessionSound
  <2>2. ASSUME NEW w \in page, Max(S) = srv[w].seq PROVE Reached(Max(S))
    <3>1. w \in Items /\ HasRow(w) /\ srv[w].seq >= srv[w].seq
      BY <1>3, <1>4
    <3>2. Reached(srv[w].seq)
      BY <3>1 DEF Reached
    <3> QED BY <2>2, <3>2
  <2> QED BY <1>6, <2>1, <2>2
<1>10. memCursor <= Max(S)
  <2>1. memCursor <= sync.cursor /\ Max(S) >= sync.cursor /\ Max(S) \in 0..MaxSeq
    BY <1>1, <1>5, <1>6 DEF SessionSound
  <2> QED BY <1>2, <2>1
<1>11. sync.todo = {} /\ sync.upserts = {} /\ sync.deletes = {}
  BY <1>1 DEF InHand
<1>12. \A ov \in T : HasRow(ov.u) /\ srv[ov.u].version = ov.version
  BY <1>4
<1>13. \A a, b \in T : a.u = b.u => a = b
  OBVIOUS
<1>14. \A u \in page : \E ov \in T : ov.u = u /\ ov.version = srv[u].version
  <2> SUFFICES ASSUME NEW u \in page
               PROVE  \E ov \in T : ov.u = u /\ ov.version = srv[u].version
    OBVIOUS
  <2> DEFINE ov == [u |-> u, version |-> srv[u].version, deleted |-> srv[u].deleted]
  <2>1. ov \in T /\ ov.u = u /\ ov.version = srv[u].version
    OBVIOUS
  <2> HIDE DEF ov, T
  <2> QED BY <2>1
<1>15. ~sync.failed => \A u \in Items : HasRow(u) /\ srv[u].seq <= sync.cursor => taken[u] = srv[u].version
  BY <1>1 DEF SessionSound
<1> DEFINE k == Max(S)
<1>16. /\ sync'.cursor = k /\ sync'.todo = T /\ sync'.upserts = {} /\ sync'.deletes = {}
       /\ sync'.failed = sync.failed /\ sync'.pulled = TRUE
  BY <1>1, <1>7, <1>11 DEF Session
<1> HIDE DEF k, T, S, page
<1>17. InHand(sync') = T
  BY <1>16 DEF InHand
<1>18. SessionSound(sync)'
  <2>1. memCursor' <= sync'.cursor /\ Reached(sync.cursor)' /\ sync'.pulled
    BY <1>7, <1>9, <1>10, <1>16 DEF k, Reached, HasRow
  <2>2. \A ov \in T : srv'[ov.u] # NoRow /\ srv'[ov.u].version = ov.version
    BY <1>7, <1>12 DEF HasRow
  <2>3. ASSUME ~sync'.failed, NEW u \in Items, srv'[u] # NoRow, srv'[u].seq <= sync'.cursor
        PROVE  taken'[u] = srv'[u].version \/ \E ov \in T : ov.u = u /\ ov.version = srv'[u].version
    BY <1>7, <1>8, <1>14, <1>15, <1>16, <2>3 DEF k, HasRow
  <2> QED BY <1>13, <1>17, <2>1, <2>2, <2>3 DEF SessionSound, HasRow
<1> QED BY <1>7, <1>18 DEF SyncSound, CursorSound, Reached, HasRow

(* A page that is persisted delivers what it holds.                        *)
LEMMA PersistSound ==
    ASSUME TypeOK, SyncSound, SyncPersist
    PROVE  SyncSound'
<1> USE DEF local, client
<1>1. sync \in Session /\ SessionSound(sync)
  BY TypeParts DEF TasksOK, SyncPersist, SyncSound
<1>2. sync.cursor \in 0..MaxSeq /\ MaxSeq \in Nat /\ memCursor \in 0..MaxSeq
  BY <1>1, TypeParts, DeviceAssumption DEF Session, DeviceAssumption, ClientOK
<1>3. \A u \in Items : HasRow(u) => srv[u].seq \in 1..MaxSeq
  BY DEF TypeOK, HasRow, ServerRow
<1>4. Take(PageVersions(sync)) /\ UNCHANGED <<srv, memCursor, locked, resolve>>
  BY DEF SyncPersist, PageVersions
<1>5. InHand(sync) = sync.upserts \cup sync.deletes /\ InHand(sync) \subseteq Overview
  BY <1>1 DEF SyncPersist, InHand, Session
<1>6. ASSUME NEW u \in Items, ~\E ov \in InHand(sync) : ov.u = u PROVE taken'[u] = taken[u]
  <2>1. PageVersions(sync)[u] = {}
    BY <1>5, <1>6 DEF PageVersions
  <2> QED BY <1>4, <2>1 DEF Take
<1>7. ASSUME NEW ov \in InHand(sync) PROVE taken'[ov.u] = ov.version
  <2>1. ov.u \in Items /\ ov.version \in 1..MaxSeq
    BY <1>5 DEF Overview
  <2>2. {o \in InHand(sync) : o.u = ov.u} = {ov}
    BY <1>1 DEF SessionSound
  <2>3. PageVersions(sync)[ov.u] = {ov.version}
    BY <1>5, <2>1, <2>2 DEF PageVersions
  <2>4. {ov.version} \subseteq 0..MaxSeq /\ {ov.version} # {}
    BY <1>2, <2>1
  <2>5. Max({ov.version}) \in {ov.version}
    BY <1>2, <2>4, MaxIsMax
  <2> QED BY <1>4, <2>1, <2>3, <2>5 DEF Take
<1>8. ASSUME NEW u \in Items, HasRow(u), srv[u].seq <= sync.cursor,
             NEW ov \in InHand(sync), ov.u = u
      PROVE  taken'[u] = srv[u].version
  <2>1. srv[u].version = ov.version \/ srv[u].seq > sync.cursor
    BY <1>1, <1>8 DEF SessionSound
  <2>2. srv[u].version = ov.version
    BY <1>2, <1>3, <1>8, <2>1
  <2> QED BY <1>7, <1>8, <2>2
<1>9. CursorSound'
  <2> SUFFICES ASSUME NEW u \in Items, HasRow(u), srv[u].seq <= memCursor
               PROVE  taken'[u] = srv[u].version
    BY <1>4 DEF CursorSound, HasRow
  <2>1. srv[u].seq <= sync.cursor /\ taken[u] = srv[u].version
    BY <1>1, <1>2, <1>3 DEF SessionSound, SyncSound, CursorSound
  <2> QED BY <1>6, <1>8, <2>1
<1>10. /\ sync'.cursor = sync.cursor /\ sync'.todo = {} /\ sync'.upserts = {} /\ sync'.deletes = {}
       /\ sync'.failed = sync.failed
  BY <1>1 DEF SyncPersist, NextPage, Session
<1>11. InHand(sync') = {}
  BY <1>10 DEF InHand
<1>12. ASSUME ~sync.failed, NEW u \in Items, HasRow(u), srv[u].seq <= sync.cursor
       PROVE  taken'[u] = srv[u].version
  BY <1>1, <1>6, <1>8, <1>12 DEF SessionSound
<1>13. SessionSound(sync)'
  <2>1. memCursor <= sync.cursor /\ Reached(sync.cursor)
    BY <1>1 DEF SessionSound
  <2> QED BY <1>4, <1>10, <1>11, <1>12, <2>1 DEF SessionSound, Reached, HasRow
<1> QED BY <1>4, <1>9, <1>13 DEF SyncSound, Reached, HasRow

(* An item of the page that is noted stays in hand; one that cannot be     *)
(* fetched marks the session as failed.                                    *)
LEMMA ItemSound ==
    ASSUME TypeOK, SyncSound, NEW ov \in Overview, SyncItem(ov)
    PROVE  SyncSound'
<1> USE DEF local, client
<1>1. sync \in Session /\ SessionSound(sync) /\ ov \in sync.todo
  BY TypeParts DEF TasksOK, SyncItem, SyncSound
<1>2. UNCHANGED <<srv, taken, memCursor, locked, resolve>>
  BY DEF SyncItem
<1>3. \/ sync' = [sync EXCEPT !.todo = sync.todo \ {ov}, !.deletes = sync.deletes \cup {ov}]
      \/ sync' = [sync EXCEPT !.todo = sync.todo \ {ov}, !.upserts = sync.upserts \cup {ov}]
      \/ sync' = [sync EXCEPT !.todo = sync.todo \ {ov}, !.failed = TRUE]
  BY DEF SyncItem
<1>4. sync'.cursor = sync.cursor /\ sync'.pulled = sync.pulled
  BY <1>1, <1>3 DEF Session
<1>5. InHand(sync') \subseteq InHand(sync)
  BY <1>1, HandShrinks
<1>6. sync'.failed \/ (InHand(sync') = InHand(sync) /\ sync'.failed = sync.failed)
  <2>1. CASE sync' = [sync EXCEPT !.todo = sync.todo \ {ov}, !.deletes = sync.deletes \cup {ov}]
    <3>1. /\ sync'.todo = sync.todo \ {ov} /\ sync'.deletes = sync.deletes \cup {ov}
          /\ sync'.upserts = sync.upserts /\ sync'.failed = sync.failed
      BY <1>1, <2>1 DEF Session
    <3> QED BY <1>1, <3>1 DEF InHand
  <2>2. CASE sync' = [sync EXCEPT !.todo = sync.todo \ {ov}, !.upserts = sync.upserts \cup {ov}]
    <3>1. /\ sync'.todo = sync.todo \ {ov} /\ sync'.upserts = sync.upserts \cup {ov}
          /\ sync'.deletes = sync.deletes /\ sync'.failed = sync.failed
      BY <1>1, <2>2 DEF Session
    <3> QED BY <1>1, <3>1 DEF InHand
  <2>3. CASE sync' = [sync EXCEPT !.todo = sync.todo \ {ov}, !.failed = TRUE]
    BY <1>1, <2>3 DEF Session
  <2> QED BY <1>3, <2>1, <2>2, <2>3
<1>7. SessionSound(sync)'
  BY <1>1, <1>2, <1>4, <1>5, <1>6 DEF SessionSound, Reached, HasRow
<1> QED BY <1>2, <1>7 DEF SyncSound, CursorSound, Reached, HasRow

(* A page that is not persisted is empty, or the session has failed.       *)
LEMMA PersistNotSound ==
    ASSUME TypeOK, SyncSound, SyncPersistNot
    PROVE  SyncSound'
<1> USE DEF local, client
<1>1. sync \in Session /\ SessionSound(sync) /\ sync.todo = {}
  BY TypeParts DEF TasksOK, SyncPersistNot, SyncSound
<1>2. UNCHANGED <<srv, taken, memCursor, locked, resolve>>
  BY DEF SyncPersistNot
<1>3. /\ sync'.cursor = sync.cursor /\ sync'.todo = {} /\ sync'.upserts = {} /\ sync'.deletes = {}
      /\ sync'.failed \/ (sync'.failed = sync.failed /\ sync.upserts \cup sync.deletes = {})
  BY <1>1 DEF SyncPersistNot, NextPage, Session
<1>4. InHand(sync') = {} /\ (sync'.failed \/ (sync'.failed = sync.failed /\ InHand(sync) = {}))
  BY <1>1, <1>3 DEF InHand
<1>5. SessionSound(sync)'
  BY <1>1, <1>2, <1>3, <1>4 DEF SessionSound, Reached, HasRow
<1> QED BY <1>2, <1>5 DEF SyncSound, CursorSound, Reached, HasRow

(* The start of a session and its end.                                     *)
LEMMA StartEndSound ==
    ASSUME TypeOK, SyncSound, SyncStart \/ SyncAbort \/ SyncEnd
    PROVE  SyncSound'
<1> USE DEF local, client
<1>1. UNCHANGED <<srv, taken, locked, resolve>>
  BY DEF SyncStart, SyncAbort, SyncEnd
<1>2. CASE SyncStart
  <2>1. /\ sync'.cursor = memCursor /\ sync'.todo = {} /\ sync'.upserts = {} /\ sync'.deletes = {}
        /\ memCursor' = memCursor
    BY <1>2 DEF SyncStart
  <2>2. InHand(sync') = {} /\ memCursor <= memCursor
    BY <2>1, TypeParts, DeviceAssumption DEF InHand, ClientOK, DeviceAssumption
  <2>3. SessionSound(sync)'
    BY <1>1, <2>1, <2>2 DEF SyncSound, SessionSound, CursorSound, Reached, HasRow
  <2> QED BY <1>1, <2>1, <2>3 DEF SyncSound, CursorSound, Reached, HasRow
<1>3. CASE SyncAbort
  BY <1>1, <1>3 DEF SyncAbort, SyncSound, CursorSound, Reached, HasRow
<1>4. CASE SyncEnd
  <2>1. SessionSound(sync) /\ ~sync.pulled /\ sync' = Idle
        /\ memCursor' = IF sync.failed THEN memCursor ELSE sync.cursor
    BY <1>4 DEF SyncEnd, SyncSound
  <2>2. ~sync.failed => \A u \in Items : HasRow(u) /\ srv[u].seq <= sync.cursor => taken[u] = srv[u].version
    BY <2>1 DEF SessionSound
  <2>3. Reached(sync.cursor)
    BY <2>1 DEF SessionSound
  <2> QED BY <1>1, <2>1, <2>2, <2>3 DEF SyncSound, CursorSound, Reached, HasRow
<1> QED BY <1>2, <1>3, <1>4

(* Whoever writes to the store meanwhile.                                  *)
LEMMA OthersSound ==
    ASSUME TypeOK, VersionsLag, SyncSound, StoreStep,
           UNCHANGED <<sync, memCursor, taken, locked, resolve>>
    PROVE  SyncSound'
<1>1. /\ \A u \in Items : \/ srv'[u] = srv[u]
                          \/ /\ HasRow(u)' /\ srv'[u].seq \in Nat
                             /\ \A c \in 0..MaxSeq : Reached(c) => c < srv'[u].seq
      /\ \A c \in 0..MaxSeq : Reached(c) => Reached(c)'
  BY StoreBeyond
<1>2. MaxSeq \in Nat /\ memCursor \in 0..MaxSeq /\ (sync # Idle => sync \in Session)
  BY TypeParts, DeviceAssumption DEF ClientOK, TasksOK, DeviceAssumption
<1>3. Reached(memCursor) /\ Reached(memCursor)'
  BY <1>1, <1>2 DEF SyncSound, Reached, HasRow
<1>4. CursorSound'
  <2> SUFFICES ASSUME NEW u \in Items, srv'[u] # NoRow, srv'[u].seq <= memCursor
               PROVE  taken[u] = srv'[u].version
    BY DEF CursorSound, HasRow
  <2>1. srv'[u] = srv[u]
    BY <1>1, <1>2, <1>3
  <2> QED BY <2>1 DEF SyncSound, CursorSound, HasRow
<1>5. ASSUME sync # Idle PROVE SessionSound(sync)'
  <2>1. SessionSound(sync) /\ sync.cursor \in 0..MaxSeq /\ InHand(sync) \subseteq Overview
    BY <1>2, <1>5 DEF SyncSound, Session, InHand
  <2>2. Reached(sync.cursor)
    BY <2>1 DEF SessionSound
  <2>3. Reached(sync.cursor)'
    BY <1>1, <2>1, <2>2 DEF Reached, HasRow
  <2>4. ASSUME NEW u \in Items, srv'[u] # srv[u]
        PROVE  srv'[u] # NoRow /\ srv'[u].seq \in Nat /\ sync.cursor < srv'[u].seq
    BY <1>1, <2>1, <2>2, <2>4 DEF HasRow
  <2>5. ASSUME NEW ov \in InHand(sync)
        PROVE  srv'[ov.u] # NoRow /\ (srv'[ov.u].version = ov.version \/ srv'[ov.u].seq > sync.cursor)
    <3>1. ov.u \in Items
      BY <2>1 DEF Overview
    <3>2. HasRow(ov.u) /\ (srv[ov.u].version = ov.version \/ srv[ov.u].seq > sync.cursor)
      BY <2>1 DEF SessionSound
    <3>3. CASE srv'[ov.u] = srv[ov.u]
      BY <3>2, <3>3 DEF HasRow
    <3>4. CASE srv'[ov.u] # srv[ov.u]
      BY <2>1, <2>4, <3>1, <3>4, <1>2
    <3> QED BY <3>3, <3>4
  <2>6. ASSUME ~sync.failed, NEW u \in Items, srv'[u] # NoRow, srv'[u].seq <= sync.cursor
        PROVE  taken[u] = srv'[u].version \/ \E ov \in InHand(sync) : ov.u = u /\ ov.version = srv'[u].version
    <3>1. srv'[u] = srv[u]
      BY <1>2, <2>1, <2>4, <2>6
    <3> QED BY <2>1, <2>6, <3>1 DEF SessionSound, HasRow
  <2>7. memCursor <= sync.cursor /\ (~sync.pulled => InHand(sync) = {})
        /\ \A x, y \in InHand(sync) : x.u = y.u => x = y
    BY <2>1 DEF SessionSound
  <2>8. InHand(sync') = InHand(sync)
    OBVIOUS
  <2> HIDE DEF InHand
  <2> QED BY <2>3, <2>5, <2>6, <2>7, <2>8 DEF SessionSound, HasRow
<1> QED BY <1>3, <1>4, <1>5 DEF SyncSound

(* Within one life of the process, and where no conflict is resolved in    *)
(* favour of the server, the cursor in memory never passes a change the    *)
(* device does not hold, whatever fails and whoever writes meanwhile: a    *)
(* session that could not fetch or persist an item ends with first_failure *)
(* set and leaves VautrClient.cursor where it was. (With a restart or a    *)
(* resolution it may pass one: see DeviceSyncRefuted.cfg.)                 *)
THEOREM CursorHolds ==
    ASSUME MaxRestarts = 0, "resolve" \notin Ops
    PROVE  Spec => []CursorSound
<1> USE DEF local, client, tasks
<1>1. Init => SyncSound
  BY Zenon DEF Init, SyncSound, CursorSound, Reached, HasRow
<1>2. ASSUME TypeOK, VersionsLag, SyncSound, [Next]_vars PROVE SyncSound'
  <2>1. CASE UNCHANGED vars
    BY <1>2, <2>1 DEF vars, SyncSound, CursorSound, SessionSound, InHand, Reached, HasRow
  <2>2. CASE Next
    <3>1. StoreStep
      BY <1>2, <2>2, NextStoreStep
    <3>2. CASE UNCHANGED <<sync, memCursor, taken, locked, resolve>>
      BY <1>2, <3>1, <3>2, OthersSound
    <3>3. CASE SyncStep
      BY <1>2, <3>3, PullSound, PersistSound, ItemSound, PersistNotSound, StartEndSound DEF SyncStep
    <3>4. ~ResolveStep /\ ~Lock /\ ~Crash /\ ~Unlock
      <4>1. ~(used.restarts < MaxRestarts)
        BY <1>2, TypeParts DEF Counters
      <4> QED BY <1>2, <4>1 DEF SyncSound, ResolveStep, ResolveForce, ResolveFetch, ResolvePersist,
                 Lock, Crash, Unlock, May
    <3> QED BY <2>2, <3>2, <3>3, <3>4 DEF Next, RemoteWrite, SaveStep, OpenEditor, SaveRead,
               SaveCommit, Delete, PushStep, PushStart, PushItem, PushTombsDone, PushFail, PushEnd
  <2> QED BY <1>2, <2>1, <2>2
<1>3. SyncSound => CursorSound
  BY DEF SyncSound
<1> QED BY <1>1, <1>2, <1>3, TypesHold, PTL DEF Spec
=============================================================================
