------------------------ MODULE ServerStorage_proofs ------------------------
(***************************************************************************)
(* Proofs about attachments and backups: a file that was initiated once is  *)
(* available only when whole, what a worker reads back is what it sent, and  *)
(* every recorded backup opens and holds whole files.                       *)
(***************************************************************************)
EXTENDS ServerStorage, FiniteSetTheorems, TLAPS

-----------------------------------------------------------------------------
(* The invariant                                                           *)

Manifest == [owner : Users, total : 1..MAX_CHUNKS, status : {"PendingUpload", "Available"}]
Sealed == [of : Files \cup {None}, part : Index]
Statements == {"start", "exists", "insert", "owner", "reset", "rearm", "rows",
               "put", "mark", "count", "flip", "reread", "read"}
RequestType ==
    [op : Ops, user : Users, file : Files, n : 0..MAX_CHUNKS + 1, for : Workers \cup {None},
     sealed : Files \cup {None}, pc : Statements, total : Nat, row : Nat]
Stages == {"idle", "initiate", "chunk", "complete", "Ok", "fetch", "Read", "Corrupt", "Locked", "Err"}
WorkerType ==
    [stage : Stages, size : 0..MAX_CHUNKS, i : Nat, wrap : Nat, waits : BOOLEAN,
     got : Seq(Sealed \cup {None}), file : Workers]

TablesTyped ==
    /\ manifests \in [Files -> Manifest \cup {None}]
    /\ rows \in [Files -> [Index -> {None, "pending", "uploaded"}]]
    /\ chunks \in [Files -> [Index -> Sealed \cup {None}]]
    /\ inits \in [Files -> Nat]
    /\ svk \in [Users -> {1, 2}]

Typed ==
    /\ TablesTyped
    /\ reqs \in [Slots -> RequestType \cup {None}]
    /\ workers \in [Workers -> WorkerType]

(* What the tables hold of a file: nothing before its manifest, the bytes  *)
(* of what is marked, and, as long as it was initiated once, only rows of  *)
(* its size, all of them marked once it is available.                      *)
FileOK(man, ini, row, bytes) ==
    /\ man = None => ini = 0 /\ \A i \in Index : row[i] = None /\ bytes[i] = None
    /\ man # None => ini >= 1
    /\ \A i \in Index : row[i] = "uploaded" => bytes[i] # None
    /\ man # None /\ ini <= 1 => \A i \in Index : row[i] # None => i < man.total
    /\ man # None /\ ini <= 1 /\ man.status = "Available" =>
         \A i \in 0 .. man.total - 1 : row[i] = "uploaded"

Preparing(r) == r.op = "initiate" /\ r.pc \in {"rearm", "rows"}
Holding(r) ==
    \/ r.op = "initiate" /\ r.pc \in {"reset", "rearm", "rows"}
    \/ r.op = "chunk" /\ r.pc \in {"put", "mark"}
    \/ r.op = "complete" /\ r.pc \in {"count", "flip", "reread"}

(* What a request knows, at each of its statements, of the file it is for. *)
ReqOK(r, man, ini, row, bytes) ==
    /\ r.op = "initiate" /\ r.pc # "start" => r.n \in 1 .. MAX_CHUNKS
    /\ r.op = "initiate" /\ r.pc = "owner" => man # None
    /\ Holding(r) => man # None /\ man.owner = r.user
    /\ r.op = "initiate" => IF r.pc = "rows" THEN r.row < r.n ELSE r.row = 0
    /\ r.op \in {"chunk", "fetch"} => r.n \in Index
    /\ r.op = "chunk" /\ r.pc = "mark" => bytes[r.n] # None
    /\ ini <= 1 =>
         /\ Preparing(r) => man.total = r.n
         /\ r.op = "initiate" /\ r.pc = "rearm" => \A i \in Index : row[i] = None
         /\ r.op = "complete" /\ r.pc \in {"count", "flip"} => r.total = man.total
         /\ r.op = "complete" /\ r.pc = "flip" =>
              \A i \in 0 .. man.total - 1 : row[i] = "uploaded"

TableInv == \A f \in Files : FileOK(manifests[f], inits[f], rows[f], chunks[f])
ReqInv == \A s \in Slots : reqs[s] # None =>
    LET f == reqs[s].file IN ReqOK(reqs[s], manifests[f], inits[f], rows[f], chunks[f])

(* A file initiated once has one request that makes its rows.              *)
SoleInv == \A s, t \in Slots :
    /\ reqs[s] # None /\ reqs[t] # None /\ reqs[s].file = reqs[t].file
    /\ Preparing(reqs[s]) /\ Preparing(reqs[t]) /\ inits[reqs[s].file] <= 1
    => s = t

-----------------------------------------------------------------------------
(* Workers                                                                 *)

Own(w, man) == man # None /\ man.owner = Account[w]
Mine(w, k, man) == Own(w, man) /\ man.total = k.size

(* What a worker that has met no error knows of its file: before its       *)
(* initiation it owns none, afterwards the one it declared, which holds    *)
(* nothing but what it sealed.                                             *)
WorkerOK(w, k, man, ini, bytes) ==
    /\ k.file = w /\ k.stage # "Corrupt"
    /\ k.stage # "Err" =>
         /\ k.stage \in {"chunk", "complete", "Ok", "fetch"} => Mine(w, k, man)
         /\ k.stage = "idle" \/ (k.stage = "initiate" /\ ~k.waits) => ~Own(w, man)
         /\ Own(w, man) =>
              ini = 1 /\ \A i \in Index : bytes[i] \in {None, encrypt_file_stream(w, i)}
         /\ k.stage # "idle" => k.size >= 1 /\ k.i < k.size
         /\ k.stage \notin {"chunk", "fetch"} => k.i = 0
         /\ k.stage \in {"idle", "initiate", "chunk", "complete", "Ok"} => k.got = <<>>
         /\ k.stage = "fetch" =>
              Len(k.got) = k.i /\ \A j \in 1 .. k.i : k.got[j] = encrypt_file_stream(w, j - 1)
         /\ k.stage = "Ok" => man.status = "Available"

WorkInv == \A w \in Workers : WorkerOK(w, workers[w], manifests[w], inits[w], chunks[w])

(* What a worker's request knows of the worker and of its file.            *)
CallOK(r, k, man) ==
    /\ r.file = r.for /\ r.user = Account[r.for] /\ r.sealed = r.for
    /\ k.waits /\ k.stage = r.op /\ r.n = Argument(k)
    /\ r.op = "initiate" =>
         /\ r.pc \in {"start", "exists", "insert", "owner"} => ~Own(r.for, man)
         /\ r.pc # "reset"
         /\ r.pc \in {"rearm", "rows"} => Mine(r.for, k, man)

CallInv == \A s \in Slots : reqs[s] # None /\ reqs[s].for # None =>
    LET w == reqs[s].for IN CallOK(reqs[s], workers[w], manifests[w])

(* Only the worker of a file, or what is left of its requests after an     *)
(* error, acts on the file for its user.                                   *)
KnownInv == \A s \in Slots :
    reqs[s] # None /\ reqs[s].file \in Workers /\ reqs[s].user = Account[reqs[s].file] =>
      /\ reqs[s].sealed = reqs[s].file
      /\ reqs[s].for = reqs[s].file \/ workers[reqs[s].file].stage = "Err"

OneCall == \A s, t \in Slots :
    reqs[s] # None /\ reqs[t] # None /\ reqs[s].for # None /\ reqs[s].for = reqs[t].for => s = t

FileInv ==
    /\ Typed /\ TableInv /\ ReqInv /\ SoleInv
    /\ WorkInv /\ CallInv /\ KnownInv /\ OneCall

-----------------------------------------------------------------------------
(* Backups                                                                 *)

Whole(snap) == \A f \in Files :
    LET x == snap.files[f] IN x.inits <= 1 => Complete(f, x.man, x.row, x.bytes)

JobFields == {"op", "pc", "id", "key", "archive", "snap", "entries", "at"}
IsJob(r) == DOMAIN r = JobFields

(* An export has the key of the row from the statement that read or made   *)
(* it, a whole snapshot once it is taken, and an archive before a record.  *)
JobOK(r, ky, archives) ==
    /\ r # B!Idle => IsJob(r)
    /\ r # B!Idle /\ r.pc = "insert" => r.key \in Keys
    /\ r.op = "export" =>
         /\ r.pc \notin {"key", "insert"} => ky # None /\ r.key = ky
         /\ r.pc \in {"read", "count", "write"} => Whole(r.snap)
         /\ r.pc = "record" => \E d \in archives : d.id = r.id /\ B!Opens(d.body, ky)

BackupInv ==
    /\ key \in Keys \cup {None} /\ (disk # {} => key # None)
    /\ jobs = [j \in Jobs |-> jobs[j]]
    /\ \A j \in Jobs : JobOK(jobs[j], key, disk)
    /\ ArchivesOpen /\ BackupsWhole

StorageInv == FileInv /\ BackupInv

-----------------------------------------------------------------------------
(* Rows, manifests and bytes are none of them absent.                      *)
LEMMA Absent ==
    /\ None \notin Manifest /\ None \notin Sealed /\ None # "uploaded" /\ None # "pending"
    /\ None \notin Users /\ None \notin Files /\ None \notin Workers
    /\ MAX_CHUNKS \in Nat /\ MAX_CHUNKS >= 1
    /\ \A w \in Workers : w \in Files /\ Account[w] \in Users
  BY AbsentAssumption, NamesAssumption, SizesAssumption
  DEF AbsentAssumption, NamesAssumption, SizesAssumption, Manifest, Sealed, Files

(* The tables are empty at first and no worker has begun.                  *)
LEMMA FileInvInit ==
    ASSUME NEW clients, NEW active, FileInit(clients, active)
    PROVE  FileInv
<1>1. Typed
  <2>1. \A w \in Workers : workers[w] \in WorkerType
    BY Absent DEF FileInit, WorkerType, Stages
  <2>2. DOMAIN workers = Workers /\ workers = [w \in Workers |-> workers[w]]
    BY DEF FileInit
  <2>3. workers \in [Workers -> WorkerType]
    BY <2>1, <2>2
  <2>4. manifests \in [Files -> Manifest \cup {None}] /\ inits \in [Files -> Nat]
    BY DEF FileInit
  <2>5. rows \in [Files -> [Index -> {None, "pending", "uploaded"}]]
    BY DEF FileInit
  <2>6. chunks \in [Files -> [Index -> Sealed \cup {None}]]
    BY DEF FileInit
  <2>7. reqs \in [Slots -> RequestType \cup {None}] /\ svk \in [Users -> {1, 2}]
    BY DEF FileInit
  <2> QED BY <2>3, <2>4, <2>5, <2>6, <2>7 DEF Typed, TablesTyped
<1>2. TableInv
  BY Absent DEF TableInv, FileOK, FileInit
<1>3. ReqInv /\ SoleInv /\ CallInv /\ KnownInv /\ OneCall
  BY DEF FileInit, ReqInv, SoleInv, CallInv, KnownInv, OneCall
<1>4. WorkInv
  <2> SUFFICES ASSUME NEW w \in Workers
               PROVE  WorkerOK(w, workers[w], manifests[w], inits[w], chunks[w])
    BY DEF WorkInv
  <2>1. manifests[w] = None
    BY Absent DEF FileInit
  <2>2. /\ workers[w].stage \in {"idle", "Err"} /\ workers[w].i = 0
        /\ workers[w].got = <<>> /\ workers[w].file = w
    BY DEF FileInit
  <2> QED BY <2>1, <2>2 DEF WorkerOK, Own
<1> QED BY <1>1, <1>2, <1>3, <1>4 DEF FileInv

-----------------------------------------------------------------------------
(* What any step leaves a request that it does not serve: the owner, the   *)
(* bytes, and of a file initiated once the size and the marks.             *)
Kept(man, ini, row, bytes, man2, ini2, row2, bytes2) ==
    /\ ini <= ini2
    /\ man # None => man2 # None /\ man2.owner = man.owner
    /\ \A i \in Index : bytes[i] # None => bytes2[i] # None
    /\ man # None /\ ini2 <= 1 =>
         /\ man2.total = man.total
         /\ \A i \in Index : row[i] = "uploaded" => row2[i] = "uploaded"

(* Such a request goes on knowing what it knew.                            *)
LEMMA KeptReq ==
    ASSUME NEW r \in RequestType, NEW man \in Manifest \cup {None}, NEW ini \in Nat, NEW row, NEW bytes,
           NEW man2 \in Manifest \cup {None}, NEW ini2 \in Nat, NEW row2, NEW bytes2,
           ReqOK(r, man, ini, row, bytes),
           Kept(man, ini, row, bytes, man2, ini2, row2, bytes2),
           r.op = "initiate" /\ r.pc = "rearm" /\ ini2 <= 1 => \A i \in Index : row2[i] = None
    PROVE  ReqOK(r, man2, ini2, row2, bytes2)
<1>1. /\ r.op = "initiate" /\ r.pc = "owner" => man2 # None
      /\ Holding(r) => man # None /\ man2 # None /\ man2.owner = r.user
  BY DEF ReqOK, Kept
<1>2. r.op = "chunk" /\ r.pc = "mark" => bytes2[r.n] # None
  BY DEF ReqOK, Kept
<1>3. ASSUME ini2 <= 1 PROVE ini <= 1
  BY <1>3 DEF Kept
<1>4. ASSUME ini2 <= 1, Holding(r) PROVE man # None /\ man2.total = man.total
  BY <1>1, <1>4 DEF Kept
<1>5. ASSUME ini2 <= 1, r.op = "complete", r.pc = "flip", NEW i \in 0 .. man2.total - 1
      PROVE  row2[i] = "uploaded"
  <2>1. Holding(r)
    BY <1>5 DEF Holding
  <2>2. man # None /\ man2.total = man.total /\ ini <= 1 /\ man.total \in 1 .. MAX_CHUNKS
    BY <2>1, <1>3, <1>4, <1>5 DEF Manifest
  <2>3. row[i] = "uploaded"
    BY <1>5, <2>2 DEF ReqOK
  <2>4. i \in Index
    BY <2>2, <1>5, Absent DEF Index
  <2> QED BY <2>2, <2>3, <2>4, <1>5 DEF Kept
<1>6. ASSUME ini2 <= 1
      PROVE  /\ Preparing(r) => man2.total = r.n
             /\ r.op = "complete" /\ r.pc \in {"count", "flip"} => r.total = man2.total
  <2>1. Preparing(r) => Holding(r)
    BY DEF Preparing, Holding
  <2>2. r.op = "complete" /\ r.pc \in {"count", "flip"} => Holding(r)
    BY DEF Holding
  <2> QED BY <2>1, <2>2, <1>3, <1>4, <1>6 DEF ReqOK
<1> QED BY <1>1, <1>2, <1>5, <1>6 DEF ReqOK

-----------------------------------------------------------------------------
(* A statement of request s changes the tables of its file only, and the   *)
(* request becomes x, or ends (None).                                      *)
Elsewhere(f) == \A g \in Files \ {f} :
    manifests'[g] = manifests[g] /\ inits'[g] = inits[g] /\ rows'[g] = rows[g] /\ chunks'[g] = chunks[g]

KeptAt(f) == Kept(manifests[f], inits[f], rows[f], chunks[f],
                  manifests'[f], inits'[f], rows'[f], chunks'[f])

(* No other request of the file is about to clear its rows, or they stay   *)
(* clear; none is making rows beside x.                                    *)
Undisturbed(s, f) == \A t \in Slots \ {s} :
    /\ reqs[t] # None /\ reqs[t].file = f /\ inits'[f] <= 1
    /\ reqs[t].op = "initiate" /\ reqs[t].pc = "rearm"
    => \A i \in Index : rows'[f][i] = None
SoleAt(s, f, x) == \A t \in Slots \ {s} :
    x # None /\ Preparing(x) /\ reqs[t] # None /\ reqs[t].file = f /\ inits'[f] <= 1
    => ~Preparing(reqs[t])

(* What the statement leaves of the tables and of the other requests.      *)
LEMMA TablesStep ==
    ASSUME Typed, Typed', TableInv, ReqInv, SoleInv,
           NEW s \in Slots, reqs[s] # None, NEW f, f = reqs[s].file, NEW x,
           reqs' = [reqs EXCEPT ![s] = x],
           Elsewhere(f), KeptAt(f),
           FileOK(manifests'[f], inits'[f], rows'[f], chunks'[f]),
           x # None => /\ x.file = f
                       /\ ReqOK(x, manifests'[f], inits'[f], rows'[f], chunks'[f]),
           Undisturbed(s, f), SoleAt(s, f, x)
    PROVE  TableInv' /\ ReqInv' /\ SoleInv'
<1> USE DEF Elsewhere, Undisturbed, SoleAt
<1>1. f \in Files
  BY DEF Typed, TablesTyped, RequestType
<1>2. TableInv'
  BY DEF TableInv
<1>3. ReqInv'
  <2> SUFFICES ASSUME NEW t \in Slots, reqs'[t] # None
               PROVE  ReqOK(reqs'[t], manifests'[reqs'[t].file], inits'[reqs'[t].file],
                            rows'[reqs'[t].file], chunks'[reqs'[t].file])
    BY DEF ReqInv
  <2>1. CASE t = s
    BY <2>1 DEF Typed, TablesTyped
  <2>2. CASE t # s
    <3>1. reqs'[t] = reqs[t]
      BY <2>2 DEF Typed, TablesTyped
    <3> DEFINE g == reqs[t].file
    <3>2. reqs[t] \in RequestType /\ g \in Files
      BY <3>1 DEF Typed, TablesTyped, RequestType
    <3>3. ReqOK(reqs[t], manifests[g], inits[g], rows[g], chunks[g])
      BY <3>1 DEF ReqInv
    <3>4. CASE g # f
      BY <3>1, <3>2, <3>3, <3>4
    <3>5. CASE g = f
      <4>1. manifests[g] \in Manifest \cup {None} /\ manifests'[g] \in Manifest \cup {None}
            /\ inits[g] \in Nat /\ inits'[g] \in Nat
        BY <3>2 DEF Typed, TablesTyped
      <4>2. reqs[t].op = "initiate" /\ reqs[t].pc = "rearm" /\ inits'[g] <= 1
              => \A i \in Index : rows'[g][i] = None
        BY <2>2, <3>1, <3>5
      <4>3. Kept(manifests[g], inits[g], rows[g], chunks[g],
                 manifests'[g], inits'[g], rows'[g], chunks'[g])
        BY <3>5 DEF KeptAt
      <4> HIDE DEF g
      <4>4. ReqOK(reqs[t], manifests'[g], inits'[g], rows'[g], chunks'[g])
        BY <3>2, <3>3, <4>1, <4>2, <4>3, KeptReq
      <4> QED BY <4>4, <3>1 DEF g
    <3> QED BY <3>4, <3>5
  <2> QED BY <2>1, <2>2
<1>4. SoleInv'
  <2> SUFFICES ASSUME NEW t \in Slots, NEW v \in Slots, reqs'[t] # None, reqs'[v] # None,
                      reqs'[t].file = reqs'[v].file, Preparing(reqs'[t]), Preparing(reqs'[v]),
                      inits'[reqs'[t].file] <= 1
               PROVE  t = v
    BY DEF SoleInv
  <2>1. CASE t # s /\ v # s
    <3>1. reqs'[t] = reqs[t] /\ reqs'[v] = reqs[v]
      BY <2>1 DEF Typed, TablesTyped
    <3>2. reqs[t].file \in Files
      BY <3>1 DEF Typed, TablesTyped, RequestType
    <3>3. inits[reqs[t].file] <= 1
      <4>1. CASE reqs[t].file = f
        <5>1. inits[f] <= inits'[f] /\ inits[f] \in Nat /\ inits'[f] \in Nat /\ inits'[f] <= 1
          BY <4>1, <3>1, <1>1 DEF KeptAt, Kept, Typed, TablesTyped
        <5> QED BY <5>1, <4>1
      <4>2. CASE reqs[t].file # f
        BY <4>2, <3>1, <3>2
      <4> QED BY <4>1, <4>2
    <3> QED BY <3>1, <3>3 DEF SoleInv
  <2>2. CASE t = s /\ v # s
    <3>1. reqs'[t] = x /\ reqs'[v] = reqs[v]
      BY <2>2 DEF Typed, TablesTyped
    <3> QED BY <3>1, <2>2
  <2>3. CASE t # s /\ v = s
    <3>1. reqs'[v] = x /\ reqs'[t] = reqs[t]
      BY <2>3 DEF Typed, TablesTyped
    <3> QED BY <3>1, <2>3
  <2> QED BY <2>1, <2>2, <2>3
<1> QED BY <1>2, <1>3, <1>4

(* The request stays the same request; its client may no longer wait.      *)
Same(x, r) ==
    x.file = r.file /\ x.user = r.user /\ x.sealed = r.sealed /\ x.for \in {r.for, None}

(* The statement leaves the file to whom it belongs: it changes nothing    *)
(* that a worker knows of it, or the file is and was the caller's.         *)
Rightful(f, u) ==
    \/ manifests'[f] = manifests[f] /\ inits'[f] = inits[f] /\ chunks'[f] = chunks[f]
    \/ /\ manifests[f] = None \/ manifests[f].owner = u
       /\ manifests'[f] # None /\ manifests'[f].owner = u

(* The same for a request no worker waits for: whose file it is not, the    *)
(* worker need not know.                                                   *)
LEMMA StrangerStep ==
    ASSUME Typed, Typed', ReqInv, WorkInv, CallInv, KnownInv, OneCall,
           NEW s \in Slots, reqs[s] # None, NEW f, f = reqs[s].file, NEW x,
           reqs' = [reqs EXCEPT ![s] = x], x # None => Same(x, reqs[s]),
           Elsewhere(f), Rightful(f, reqs[s].user),
           reqs[s].for = None, workers' = workers
    PROVE  WorkInv' /\ CallInv' /\ KnownInv' /\ OneCall'
<1> USE DEF Elsewhere
<1>1. f \in Files /\ \A w \in Workers : w \in Files
  BY Absent DEF Typed, TablesTyped, RequestType
<1>2. \A w \in Workers :
        \/ manifests'[w] = manifests[w] /\ inits'[w] = inits[w] /\ chunks'[w] = chunks[w]
        \/ workers[w].stage = "Err"
        \/ ~Own(w, manifests[w]) /\ ~Own(w, manifests'[w])
  <2> SUFFICES ASSUME NEW w \in Workers, w = f
               PROVE  \/ manifests'[w] = manifests[w] /\ inits'[w] = inits[w] /\ chunks'[w] = chunks[w]
                      \/ workers[w].stage = "Err"
                      \/ ~Own(w, manifests[w]) /\ ~Own(w, manifests'[w])
    BY <1>1
  <2>1. CASE reqs[s].user = Account[w]
    BY <2>1, Absent DEF KnownInv
  <2>2. CASE reqs[s].user # Account[w]
    BY <2>2 DEF Rightful, Own
  <2> QED BY <2>1, <2>2
<1>3. WorkInv'
  <2> SUFFICES ASSUME NEW w \in Workers
               PROVE  WorkerOK(w, workers[w], manifests'[w], inits'[w], chunks'[w])
    BY DEF WorkInv
  <2>1. WorkerOK(w, workers[w], manifests[w], inits[w], chunks[w])
    BY DEF WorkInv
  <2>2. CASE workers[w].stage = "Err"
    BY <2>1, <2>2 DEF WorkerOK
  <2>3. CASE ~Own(w, manifests[w]) /\ ~Own(w, manifests'[w])
    BY <2>1, <2>3 DEF WorkerOK, Mine
  <2> QED BY <2>1, <2>2, <2>3, <1>2
<1>4. \A t \in Slots : reqs'[t] # None /\ reqs'[t].for # None => t # s /\ reqs'[t] = reqs[t]
  BY DEF Same, Typed, TablesTyped
<1>5. CallInv'
  <2> SUFFICES ASSUME NEW t \in Slots, reqs'[t] # None, reqs'[t].for # None
               PROVE  CallOK(reqs'[t], workers[reqs'[t].for], manifests'[reqs'[t].for])
    BY DEF CallInv
  <2>1. reqs'[t] = reqs[t]
    BY <1>4
  <2> DEFINE w == reqs[t].for
  <2>2. w \in Workers /\ CallOK(reqs[t], workers[w], manifests[w])
    BY <2>1 DEF CallInv, Typed, TablesTyped, RequestType
  <2>3. workers[w].stage \in Ops /\ workers[w].stage # "Err"
    BY <2>1, <2>2 DEF CallOK, Typed, TablesTyped, RequestType, Ops
  <2>4. CASE manifests'[w] = manifests[w]
    BY <2>1, <2>2, <2>4
  <2>5. CASE ~Own(w, manifests[w]) /\ ~Own(w, manifests'[w])
    BY <2>1, <2>2, <2>5 DEF CallOK, Mine
  <2> QED BY <2>2, <2>3, <2>4, <2>5, <1>2
<1>6. KnownInv'
  BY DEF KnownInv, Same, Typed, TablesTyped
<1>7. OneCall'
  BY <1>4 DEF OneCall
<1> QED BY <1>3, <1>5, <1>6, <1>7

(* The same for a request that its worker waits for: no other request acts *)
(* on the file for its user, and the worker becomes workers'[w].           *)
LEMMA WaiterStep ==
    ASSUME Typed, Typed', WorkInv, CallInv, KnownInv, OneCall,
           NEW s \in Slots, reqs[s] # None, NEW f, f = reqs[s].file, NEW x,
           reqs' = [reqs EXCEPT ![s] = x], x # None => Same(x, reqs[s]),
           Elsewhere(f), NEW w, w = reqs[s].for, w # None,
           \A v \in Workers \ {w} : workers'[v] = workers[v],
           WorkerOK(w, workers'[w], manifests'[w], inits'[w], chunks'[w]),
           x # None /\ x.for # None => CallOK(x, workers'[w], manifests'[w]),
           x # None /\ x.for = None => workers'[w].stage = "Err"
    PROVE  WorkInv' /\ CallInv' /\ KnownInv' /\ OneCall'
<1> USE DEF Elsewhere
<1>1. w \in Workers /\ f \in Files /\ \A v \in Workers : v \in Files
  BY Absent DEF Typed, TablesTyped, RequestType
<1>2. CallOK(reqs[s], workers[w], manifests[w]) /\ w = f /\ reqs[s].user = Account[w]
  BY DEF CallInv, CallOK
<1>3. workers[w].stage # "Err"
  BY <1>2 DEF CallOK, Typed, TablesTyped, RequestType, Ops
<1>4. WorkInv'
  BY <1>1, <1>2 DEF WorkInv
<1>5. \A t \in Slots \ {s} : reqs'[t] = reqs[t] /\ (reqs[t] # None => reqs[t].for # w)
  BY <1>1, Absent DEF OneCall, Typed, TablesTyped
<1>6. \A t \in Slots \ {s} : reqs[t] # None /\ reqs[t].file = w => reqs[t].user # Account[w]
  BY <1>1, <1>3, <1>5 DEF KnownInv
<1>7. reqs'[s] = x
  BY DEF Typed, TablesTyped
<1>8. CallInv'
  <2> SUFFICES ASSUME NEW t \in Slots, reqs'[t] # None, reqs'[t].for # None
               PROVE  CallOK(reqs'[t], workers'[reqs'[t].for], manifests'[reqs'[t].for])
    BY DEF CallInv
  <2>1. CASE t = s
    BY <1>7, <2>1 DEF Same
  <2>2. CASE t # s
    <3>1. reqs'[t] = reqs[t] /\ reqs[t].for \in Workers /\ reqs[t].for # w
      BY <1>5, <2>2 DEF Typed, TablesTyped, RequestType
    <3>2. workers'[reqs[t].for] = workers[reqs[t].for]
          /\ manifests'[reqs[t].for] = manifests[reqs[t].for]
      BY <3>1, <1>1, <1>2
    <3>3. CallOK(reqs[t], workers[reqs[t].for], manifests[reqs[t].for])
      BY <3>1 DEF CallInv
    <3> QED BY <3>1, <3>2, <3>3
  <2> QED BY <2>1, <2>2
<1>9. KnownInv'
  <2> SUFFICES ASSUME NEW t \in Slots, reqs'[t] # None, reqs'[t].file \in Workers,
                      reqs'[t].user = Account[reqs'[t].file]
               PROVE  /\ reqs'[t].sealed = reqs'[t].file
                      /\ reqs'[t].for = reqs'[t].file \/ workers'[reqs'[t].file].stage = "Err"
    BY DEF KnownInv
  <2>1. CASE t = s
    <3>1. x.file = w /\ x.sealed = reqs[s].sealed /\ x.for \in {w, None}
      BY <1>2, <1>7, <2>1 DEF Same
    <3>2. reqs[s].sealed = w
      BY <1>2 DEF CallOK
    <3> QED BY <3>1, <3>2, <1>7, <2>1
  <2>2. CASE t # s
    <3>1. reqs'[t] = reqs[t] /\ reqs[t].file # w
      BY <1>5, <1>6, <2>2
    <3>2. workers'[reqs[t].file] = workers[reqs[t].file]
      BY <3>1
    <3> QED BY <3>1, <3>2 DEF KnownInv
  <2> QED BY <2>1, <2>2
<1>10. OneCall'
  <2> SUFFICES ASSUME NEW t \in Slots, NEW v \in Slots, reqs'[t] # None, reqs'[v] # None,
                      reqs'[t].for # None, reqs'[t].for = reqs'[v].for
               PROVE  t = v
    BY DEF OneCall
  <2>1. x # None => x.for \in {w, None}
    BY DEF Same
  <2> QED BY <1>5, <1>7, <2>1 DEF OneCall
<1> QED BY <1>4, <1>8, <1>9, <1>10

(* One statement of a request, for the whole invariant.                    *)
LEMMA RequestStep ==
    ASSUME FileInv, Typed', NEW s \in Slots, reqs[s] # None, NEW f, f = reqs[s].file, NEW x,
           reqs' = [reqs EXCEPT ![s] = x], x # None => Same(x, reqs[s]),
           Elsewhere(f), KeptAt(f), Rightful(f, reqs[s].user),
           FileOK(manifests'[f], inits'[f], rows'[f], chunks'[f]),
           x # None => ReqOK(x, manifests'[f], inits'[f], rows'[f], chunks'[f]),
           Undisturbed(s, f), SoleAt(s, f, x),
           reqs[s].for = None => workers' = workers,
           reqs[s].for # None =>
              /\ \A v \in Workers \ {f} : workers'[v] = workers[v]
              /\ WorkerOK(f, workers'[f], manifests'[f], inits'[f], chunks'[f])
              /\ x # None /\ x.for # None => CallOK(x, workers'[f], manifests'[f])
              /\ x # None /\ x.for = None => workers'[f].stage = "Err"
    PROVE  FileInv'
<1>1. TableInv' /\ ReqInv' /\ SoleInv'
  <2>1. Typed /\ TableInv /\ ReqInv /\ SoleInv
    BY DEF FileInv
  <2>2. x # None => x.file = f /\ ReqOK(x, manifests'[f], inits'[f], rows'[f], chunks'[f])
    BY DEF Same
  <2> QED BY <2>1, <2>2, TablesStep
<1>2. Typed /\ ReqInv /\ WorkInv /\ CallInv /\ KnownInv /\ OneCall
  BY DEF FileInv
<1>3. CASE reqs[s].for = None
  <2>1. WorkInv' /\ CallInv' /\ KnownInv' /\ OneCall'
    BY <1>2, <1>3, StrangerStep
  <2> QED BY <1>1, <2>1 DEF FileInv
<1>4. CASE reqs[s].for # None
  <2>1. reqs[s].for = f
    BY <1>2, <1>4 DEF CallInv, CallOK
  <2>2. WorkInv' /\ CallInv' /\ KnownInv' /\ OneCall'
    BY <1>2, <1>4, <2>1, WaiterStep
  <2> QED BY <1>1, <2>2 DEF FileInv
<1> QED BY <1>3, <1>4

-----------------------------------------------------------------------------
(* What becomes of a worker that is answered.                              *)
LEMMA OnwardIs ==
    ASSUME NEW k \in WorkerType, NEW bytes \in Sealed \cup {None}, k.stage \in Ops
    PROVE  /\ Onward(k, bytes) \in WorkerType
           /\ Onward(k, bytes).waits = FALSE
           /\ Onward(k, bytes).size = k.size /\ Onward(k, bytes).file = k.file
           /\ k.stage # "fetch" => Onward(k, bytes).got = k.got
           /\ k.stage = "fetch" => Onward(k, bytes).got = Append(k.got, bytes)
           /\ k.stage \in {"initiate", "complete"} => Onward(k, bytes).i = 0
           /\ k.stage \in {"chunk", "fetch"} =>
                Onward(k, bytes).i = IF k.i + 1 = k.size THEN 0 ELSE k.i + 1
           /\ k.stage = "initiate" => Onward(k, bytes).stage = "chunk"
           /\ k.stage = "chunk" =>
                Onward(k, bytes).stage = IF k.i + 1 = k.size THEN "complete" ELSE "chunk"
           /\ k.stage = "complete" => Onward(k, bytes).stage = "Ok"
           /\ k.stage = "fetch" =>
                Onward(k, bytes).stage =
                  IF k.i + 1 # k.size THEN "fetch"
                  ELSE IF decrypt_file_stream(k.file, k.size, Append(k.got, bytes))
                       THEN "Read" ELSE "Corrupt"
<1> DEFINE last == k.i + 1 = k.size
           got == IF k.stage = "fetch" THEN Append(k.got, bytes) ELSE k.got
           ii == IF k.stage \in {"chunk", "fetch"} /\ ~last THEN k.i + 1 ELSE 0
           st == CASE k.stage = "initiate" -> "chunk"
                   [] k.stage = "chunk" -> IF last THEN "complete" ELSE k.stage
                   [] k.stage = "complete" -> "Ok"
                   [] k.stage = "fetch" -> IF ~last THEN k.stage
                        ELSE IF decrypt_file_stream(k.file, k.size, got) THEN "Read" ELSE "Corrupt"
<1>1. Onward(k, bytes) = [k EXCEPT !.waits = FALSE, !.got = got, !.i = ii, !.stage = st]
  BY DEF Onward
<1>2. got \in Seq(Sealed \cup {None})
  BY DEF WorkerType
<1>3. ii \in Nat
  BY DEF WorkerType
<1>4. st \in Stages
  BY DEF Stages, Ops
<1>5. /\ k.stage = "initiate" => st = "chunk"
      /\ k.stage = "chunk" => st = IF k.i + 1 = k.size THEN "complete" ELSE "chunk"
      /\ k.stage = "complete" => st = "Ok"
      /\ k.stage = "fetch" => st = IF k.i + 1 # k.size THEN "fetch"
                  ELSE IF decrypt_file_stream(k.file, k.size, Append(k.got, bytes))
                       THEN "Read" ELSE "Corrupt"
  OBVIOUS
<1>6. /\ k.stage \in {"initiate", "complete"} => ii = 0
      /\ k.stage \in {"chunk", "fetch"} => ii = IF k.i + 1 = k.size THEN 0 ELSE k.i + 1
  OBVIOUS
<1>7. /\ k.stage # "fetch" => got = k.got
      /\ k.stage = "fetch" => got = Append(k.got, bytes)
  OBVIOUS
<1> HIDE DEF got, ii, st, last
<1>8. Onward(k, bytes) \in WorkerType
  BY <1>1, <1>2, <1>3, <1>4 DEF WorkerType
<1>9. /\ Onward(k, bytes).waits = FALSE /\ Onward(k, bytes).size = k.size
      /\ Onward(k, bytes).file = k.file /\ Onward(k, bytes).got = got
      /\ Onward(k, bytes).i = ii /\ Onward(k, bytes).stage = st
  BY <1>1 DEF WorkerType
<1> QED BY <1>5, <1>6, <1>7, <1>8, <1>9

(* The worker of an answered request, and nobody else, goes on.            *)
LEMMA AnswerIs ==
    ASSUME FileInv, TablesTyped', NEW s \in Slots, reqs[s] # None,
           NEW ok, NEW bytes \in Sealed \cup {None},
           AnswerWith(s, ok, bytes)
    PROVE  /\ Typed' /\ reqs' = [reqs EXCEPT ![s] = None]
           /\ reqs[s].for = None => workers' = workers
           /\ reqs[s].for # None =>
                /\ reqs[s].for = reqs[s].file /\ reqs[s].file \in Workers
                /\ \A v \in Workers \ {reqs[s].file} : workers'[v] = workers[v]
                /\ workers[reqs[s].file].stage \in Ops
                /\ ok => workers'[reqs[s].file] = Onward(workers[reqs[s].file], bytes)
                /\ ~ok => workers'[reqs[s].file] =
                            [workers[reqs[s].file] EXCEPT !.stage = "Err", !.waits = FALSE]
<1>1. reqs' = [reqs EXCEPT ![s] = None] /\ reqs' \in [Slots -> RequestType \cup {None}]
  BY DEF AnswerWith, FileInv, Typed
<1>2. CASE reqs[s].for = None
  <2>1. workers' = workers
    BY <1>2 DEF AnswerWith
  <2> QED BY <1>1, <1>2, <2>1 DEF FileInv, Typed
<1>3. CASE reqs[s].for # None
  <2> DEFINE w == reqs[s].for
             k == workers[w]
  <2>1. w \in Workers /\ w = reqs[s].file /\ k.stage \in Ops /\ k \in WorkerType
    BY <1>3 DEF FileInv, CallInv, CallOK, Typed, RequestType
  <2>2. workers' = [workers EXCEPT ![w] = After(k, ok, bytes)]
    BY <1>3 DEF AnswerWith
  <2> HIDE DEF k
  <2>3. /\ ok => After(k, ok, bytes) = Onward(k, bytes)
        /\ ~ok => After(k, ok, bytes) = [k EXCEPT !.stage = "Err", !.waits = FALSE]
    BY DEF After
  <2>4. [k EXCEPT !.stage = "Err", !.waits = FALSE] \in WorkerType
    BY <2>1 DEF WorkerType, Stages
  <2>5. Onward(k, bytes) \in WorkerType
    BY <2>1, OnwardIs
  <2>6. After(k, ok, bytes) \in WorkerType
    BY <2>3, <2>4, <2>5
  <2>7. workers \in [Workers -> WorkerType]
    BY DEF FileInv, Typed
  <2>8. workers' \in [Workers -> WorkerType] /\ workers'[w] = After(k, ok, bytes)
        /\ \A v \in Workers \ {w} : workers'[v] = workers[v]
    BY <2>1, <2>2, <2>6, <2>7
  <2>9. Typed'
    BY <1>1, <2>8 DEF Typed
  <2> QED BY <1>1, <1>3, <2>1, <2>3, <2>8, <2>9 DEF k
<1> QED BY <1>2, <1>3

-----------------------------------------------------------------------------
(* Statements that write nothing                                           *)

(* What a request and its worker know holds of tables that stay.           *)
LEMMA QuietStep ==
    ASSUME FileInv, Typed', NEW s \in Slots, reqs[s] # None, NEW f, f = reqs[s].file, NEW x,
           reqs' = [reqs EXCEPT ![s] = x], UNCHANGED <<manifests, rows, chunks, inits>>,
           x # None => /\ Same(x, reqs[s]) /\ (Preparing(x) => Preparing(reqs[s]))
                       /\ ReqOK(x, manifests[f], inits[f], rows[f], chunks[f]),
           reqs[s].for = None => workers' = workers,
           reqs[s].for # None =>
              /\ \A v \in Workers \ {f} : workers'[v] = workers[v]
              /\ WorkerOK(f, workers'[f], manifests[f], inits[f], chunks[f])
              /\ x # None /\ x.for # None => CallOK(x, workers'[f], manifests[f])
              /\ x # None /\ x.for = None => workers'[f].stage = "Err"
    PROVE  FileInv'
<1>1. f \in Files /\ inits[f] \in Nat
  BY DEF FileInv, Typed, TablesTyped, RequestType
<1>2. Elsewhere(f) /\ KeptAt(f) /\ Rightful(f, reqs[s].user)
  BY <1>1 DEF Elsewhere, KeptAt, Kept, Rightful
<1>3. FileOK(manifests'[f], inits'[f], rows'[f], chunks'[f])
  BY <1>1 DEF FileInv, TableInv
<1>4. Undisturbed(s, f)
  BY DEF Undisturbed, FileInv, ReqInv, ReqOK
<1>5. SoleAt(s, f, x)
  BY DEF SoleAt, FileInv, SoleInv
<1>6. /\ x # None => Same(x, reqs[s]) /\ ReqOK(x, manifests'[f], inits'[f], rows'[f], chunks'[f])
      /\ reqs[s].for # None =>
           /\ \A v \in Workers \ {f} : workers'[v] = workers[v]
           /\ WorkerOK(f, workers'[f], manifests'[f], inits'[f], chunks'[f])
           /\ x # None /\ x.for # None => CallOK(x, workers'[f], manifests'[f])
           /\ x # None /\ x.for = None => workers'[f].stage = "Err"
  OBVIOUS
<1> QED BY <1>2, <1>3, <1>4, <1>5, <1>6, RequestStep

(* What FileInv says of the request and the file it is for.                *)
LEMMA AtRequest ==
    ASSUME FileInv, NEW s \in Slots, reqs[s] # None
    PROVE  LET f == reqs[s].file IN
           /\ reqs[s] \in RequestType /\ f \in Files
           /\ manifests[f] \in Manifest \cup {None} /\ inits[f] \in Nat
           /\ rows[f] \in [Index -> {None, "pending", "uploaded"}]
           /\ chunks[f] \in [Index -> Sealed \cup {None}]
           /\ FileOK(manifests[f], inits[f], rows[f], chunks[f])
           /\ ReqOK(reqs[s], manifests[f], inits[f], rows[f], chunks[f])
           /\ reqs[s].for # None =>
                /\ f \in Workers /\ reqs[s].for = f
                /\ workers[f] \in WorkerType
                /\ CallOK(reqs[s], workers[f], manifests[f])
                /\ WorkerOK(f, workers[f], manifests[f], inits[f], chunks[f])
<1>1. /\ reqs[s] \in RequestType /\ reqs[s].file \in Files
      /\ reqs[s].for # None => reqs[s].for \in Workers
  BY DEF FileInv, Typed, RequestType
<1>2. reqs[s].for # None =>
        /\ CallOK(reqs[s], workers[reqs[s].for], manifests[reqs[s].for])
        /\ reqs[s].for = reqs[s].file
  BY DEF FileInv, CallInv, CallOK
<1>3. /\ manifests[reqs[s].file] \in Manifest \cup {None} /\ inits[reqs[s].file] \in Nat
      /\ rows[reqs[s].file] \in [Index -> {None, "pending", "uploaded"}]
      /\ chunks[reqs[s].file] \in [Index -> Sealed \cup {None}]
  BY <1>1 DEF FileInv, Typed, TablesTyped
<1>4. FileOK(manifests[reqs[s].file], inits[reqs[s].file], rows[reqs[s].file], chunks[reqs[s].file])
  BY <1>1 DEF FileInv, TableInv
<1>5. ReqOK(reqs[s], manifests[reqs[s].file], inits[reqs[s].file], rows[reqs[s].file],
            chunks[reqs[s].file])
  BY DEF FileInv, ReqInv
<1>6. reqs[s].for # None =>
        /\ workers[reqs[s].for] \in WorkerType
        /\ WorkerOK(reqs[s].for, workers[reqs[s].for], manifests[reqs[s].for], inits[reqs[s].for],
                    chunks[reqs[s].for])
  BY <1>1 DEF FileInv, Typed, WorkInv
<1> QED BY <1>1, <1>2, <1>3, <1>4, <1>5, <1>6

(* An error ends the request, and the transfer of the worker it was for.   *)
LEMMA ErrorStep ==
    ASSUME FileInv, NEW s \in Slots, reqs[s] # None, Answer(s, FALSE),
           UNCHANGED <<manifests, rows, chunks, svk, inits>>
    PROVE  FileInv'
<1> DEFINE f == reqs[s].file
<1>1. TablesTyped'
  BY DEF FileInv, Typed, TablesTyped
<1>2. AnswerWith(s, FALSE, None)
  BY DEF Answer
<1>3. /\ Typed' /\ reqs' = [reqs EXCEPT ![s] = None]
      /\ reqs[s].for = None => workers' = workers
      /\ reqs[s].for # None =>
           /\ \A v \in Workers \ {f} : workers'[v] = workers[v]
           /\ workers'[f] = [workers[f] EXCEPT !.stage = "Err", !.waits = FALSE]
  BY <1>1, <1>2, AnswerIs
<1>4. reqs[s].for # None => WorkerOK(f, workers'[f], manifests[f], inits[f], chunks[f])
  <2> SUFFICES ASSUME reqs[s].for # None
               PROVE  WorkerOK(f, workers'[f], manifests[f], inits[f], chunks[f])
    OBVIOUS
  <2>1. workers[f] \in WorkerType /\ workers[f].file = f
    BY AtRequest DEF WorkerOK
  <2>2. workers'[f].stage = "Err" /\ workers'[f].file = f
    BY <1>3, <2>1 DEF WorkerType
  <2> QED BY <2>2 DEF WorkerOK
<1> HIDE DEF f
<1> QED BY <1>3, <1>4, QuietStep DEF f

(* A request goes on to the statement pc.                                  *)
LEMMA GotoStep ==
    ASSUME FileInv, NEW s \in Slots, reqs[s] # None, NEW pc \in Statements, Goto(s, pc),
           UNCHANGED <<manifests, rows, chunks, workers, svk, inits>>,
           NEW x, x = [reqs[s] EXCEPT !.pc = pc],
           NEW f, f = reqs[s].file,
           Preparing(x) => Preparing(reqs[s]),
           ReqOK(x, manifests[f], inits[f], rows[f], chunks[f]),
           reqs[s].for # None => CallOK(x, workers[f], manifests[f])
    PROVE  FileInv'
<1>1. reqs[s] \in RequestType /\ x \in RequestType /\ Same(x, reqs[s])
  BY AtRequest DEF RequestType, Same
<1>2. reqs' = [reqs EXCEPT ![s] = x] /\ reqs' \in [Slots -> RequestType \cup {None}]
  BY <1>1 DEF Goto, FileInv, Typed
<1>3. TablesTyped' /\ workers' \in [Workers -> WorkerType]
  BY DEF FileInv, Typed, TablesTyped
<1>4. Typed'
  BY <1>2, <1>3 DEF Typed
<1>5. reqs[s].for # None =>
        /\ \A v \in Workers \ {f} : workers'[v] = workers[v]
        /\ WorkerOK(f, workers'[f], manifests[f], inits[f], chunks[f])
        /\ x # None /\ x.for # None => CallOK(x, workers'[f], manifests[f])
        /\ x # None /\ x.for = None => workers'[f].stage = "Err"
  BY <1>1, AtRequest DEF RequestType
<1>6. /\ Same(x, reqs[s]) /\ (Preparing(x) => Preparing(reqs[s]))
      /\ ReqOK(x, manifests[f], inits[f], rows[f], chunks[f])
  BY <1>1
<1> QED BY <1>2, <1>4, <1>5, <1>6, QuietStep

-----------------------------------------------------------------------------
(* Checks of an initiation: the size is within the cap, and a manifest     *)
(* whose owner is compared is there.                                       *)
LEMMA InitiateChecks ==
    ASSUME FileInv, NEW s \in Slots,
           InitiateQuota(s) \/ InitiateExists(s) \/ CheckOwner(s)
           \/ (InsertManifest(s) /\ manifests[reqs[s].file] # None)
    PROVE  FileInv'
<1> DEFINE r == reqs[s]
           f == r.file
<1>1. /\ r # None /\ r.op = "initiate" /\ r.pc \in {"start", "exists", "insert", "owner"}
      /\ UNCHANGED <<manifests, rows, chunks, svk, inits>>
  BY DEF InitiateQuota, InitiateExists, CheckOwner, InsertManifest, At
<1>2. \/ Answer(s, FALSE)
      \/ r.pc = "start" /\ r.n \in 1 .. MAX_CHUNKS /\ Goto(s, "exists") /\ UNCHANGED workers
      \/ r.pc = "exists" /\ Goto(s, "insert") /\ UNCHANGED workers
      \/ r.pc = "insert" /\ manifests[f] # None /\ Goto(s, "owner") /\ UNCHANGED workers
      \/ r.pc = "owner" /\ manifests[f].owner = r.user /\ Goto(s, "reset") /\ UNCHANGED workers
  BY DEF InitiateQuota, InitiateExists, CheckOwner, InsertManifest, At, On
<1>3. /\ r \in RequestType /\ ReqOK(r, manifests[f], inits[f], rows[f], chunks[f])
      /\ r.for # None => r.for = f /\ CallOK(r, workers[f], manifests[f])
  BY <1>1, AtRequest
<1> HIDE DEF f, r
<1>5. CASE Answer(s, FALSE)
  BY <1>1, <1>5, ErrorStep DEF r
<1>6. ASSUME NEW pc \in {"exists", "insert", "owner", "reset"}, Goto(s, pc), UNCHANGED workers,
             pc = "exists" => r.n \in 1 .. MAX_CHUNKS, pc # "exists" => r.pc # "start",
             pc = "owner" => manifests[f] # None,
             pc = "reset" => r.pc = "owner" /\ manifests[f].owner = r.user
      PROVE  FileInv'
  <2> DEFINE x == [r EXCEPT !.pc = pc]
  <2>4. /\ x.op = r.op /\ x.pc = pc /\ x.n = r.n /\ x.row = r.row /\ x.for = r.for
        /\ x.file = r.file /\ x.user = r.user /\ x.sealed = r.sealed
    BY <1>3 DEF RequestType
  <2> HIDE DEF x
  <2>1. r.n \in 1 .. MAX_CHUNKS /\ r.row = 0 /\ (pc = "reset" => manifests[f] # None)
    BY <1>1, <1>3, <1>6 DEF ReqOK
  <2>2. ~Preparing(x)
    BY <2>4, <1>6 DEF Preparing
  <2>3. ReqOK(x, manifests[f], inits[f], rows[f], chunks[f])
    BY <1>1, <2>4, <1>6, <2>1, <2>2 DEF ReqOK, Holding
  <2>5. r.for # None => CallOK(x, workers[f], manifests[f])
    <3> SUFFICES ASSUME r.for # None PROVE CallOK(x, workers[f], manifests[f])
      OBVIOUS
    <3>1. CallOK(r, workers[f], manifests[f]) /\ r.for = f
      BY <1>3
    <3>2. ~Own(f, manifests[f]) /\ r.user = Account[f]
      BY <3>1, <1>1 DEF CallOK
    <3>3. pc # "reset"
      BY <3>2, <2>1, <1>6 DEF Own
    <3> QED BY <1>1, <2>4, <1>6, <3>1, <3>2, <3>3 DEF CallOK
  <2>7. pc \in Statements
    BY <1>6 DEF Statements
  <2>6. x = [reqs[s] EXCEPT !.pc = pc]
    BY DEF x, r
  <2> QED BY <1>1, <1>6, <2>2, <2>3, <2>5, <2>6, <2>7, GotoStep DEF r, f
<1> QED BY <1>1, <1>2, <1>5, <1>6

(* Checks of a chunk, and of a download: the manifest is the caller's.     *)
LEMMA ChunkChecks ==
    ASSUME FileInv, NEW s \in Slots, ChunkOwner(s) \/ FetchStart(s)
    PROVE  FileInv'
<1> DEFINE r == reqs[s]
           f == r.file
<1>1. /\ r # None /\ r.op \in {"chunk", "fetch"} /\ r.pc = "start"
      /\ UNCHANGED <<manifests, rows, chunks, svk, inits>>
  BY DEF ChunkOwner, FetchStart, At
<1>2. \/ Answer(s, FALSE)
      \/ /\ r.op = "chunk" /\ manifests[f] # None /\ manifests[f].owner = r.user
         /\ Goto(s, "put") /\ UNCHANGED workers
      \/ r.op = "fetch" /\ Goto(s, "read") /\ UNCHANGED workers
  BY DEF ChunkOwner, FetchStart, At, On, get_file_manifest
<1>3. /\ r \in RequestType /\ ReqOK(r, manifests[f], inits[f], rows[f], chunks[f])
      /\ r.for # None => r.for = f /\ CallOK(r, workers[f], manifests[f])
  BY <1>1, AtRequest
<1> HIDE DEF f, r
<1>5. CASE Answer(s, FALSE)
  BY <1>1, <1>5, ErrorStep DEF r
<1>6. ASSUME NEW pc \in {"put", "read"}, Goto(s, pc), UNCHANGED workers,
             r.op = "chunk" => pc = "put" /\ manifests[f] # None /\ manifests[f].owner = r.user,
             r.op = "fetch" => pc = "read"
      PROVE  FileInv'
  <2> DEFINE x == [r EXCEPT !.pc = pc]
  <2>4. /\ x.op = r.op /\ x.pc = pc /\ x.n = r.n /\ x.row = r.row /\ x.for = r.for
        /\ x.file = r.file /\ x.user = r.user /\ x.sealed = r.sealed
    BY <1>3 DEF RequestType
  <2> HIDE DEF x
  <2>1. ~Preparing(x)
    BY <1>1, <2>4, <1>6 DEF Preparing
  <2>2. ReqOK(x, manifests[f], inits[f], rows[f], chunks[f])
    BY <1>1, <1>3, <2>4, <1>6, <2>1 DEF ReqOK, Holding
  <2>3. r.for # None => CallOK(x, workers[f], manifests[f])
    BY <1>1, <1>3, <2>4 DEF CallOK
  <2>7. pc \in Statements
    BY <1>6 DEF Statements
  <2>6. x = [reqs[s] EXCEPT !.pc = pc]
    BY DEF x, r
  <2> QED BY <1>1, <1>6, <2>1, <2>2, <2>3, <2>6, <2>7, GotoStep DEF r, f
<1> QED BY <1>1, <1>2, <1>5, <1>6

(* The gate: rows of the size declared, as many marked as it has, are all  *)
(* marked.                                                                 *)
LEMMA GateCounts ==
    ASSUME NEW row, NEW n \in 1 .. MAX_CHUNKS,
           \A i \in Index : row[i] # None => i < n,
           Cardinality({i \in Index : row[i] = "uploaded"}) = n
    PROVE  \A i \in 0 .. n - 1 : row[i] = "uploaded"
<1> DEFINE T == {i \in Index : row[i] = "uploaded"}
<1>1. T \in SUBSET (0 .. n - 1)
  BY Absent DEF Index
<1>2. IsFiniteSet(0 .. n - 1) /\ Cardinality(0 .. n - 1) = n
  <2>1. 0 \in Int /\ n - 1 \in Int /\ ~(0 > n - 1) /\ (n - 1) - 0 + 1 = n
    BY Absent
  <2> QED BY <2>1, FS_Interval
<1>3. T = 0 .. n - 1
  <2>1. Cardinality(0 .. n - 1) = Cardinality(T)
    BY <1>2
  <2> HIDE DEF T
  <2> QED BY <1>1, <1>2, <2>1, FS_Subset
<1> QED BY <1>3

(* A worker whose completion is answered has its file available.           *)
LEMMA OkWorker ==
    ASSUME NEW w \in Workers, NEW k \in WorkerType, NEW man, NEW ini, NEW bytes, NEW man2,
           WorkerOK(w, k, man, ini, bytes), k.stage = "complete",
           Mine(w, k, man2), man2.status = "Available"
    PROVE  WorkerOK(w, Onward(k, None), man2, ini, bytes)
<1> DEFINE o == Onward(k, None)
<1>1. /\ o.stage = "Ok" /\ o.i = 0 /\ o.got = k.got /\ o.size = k.size /\ o.file = k.file
  BY OnwardIs DEF Ops
<1>2. /\ k.file = w /\ Mine(w, k, man) /\ k.size >= 1 /\ k.got = <<>> /\ k.i = 0
      /\ Own(w, man) => ini = 1 /\ \A i \in Index : bytes[i] \in {None, encrypt_file_stream(w, i)}
  BY DEF WorkerOK
<1>3. Own(w, man) /\ Mine(w, o, man2) /\ o.i < o.size
  BY <1>1, <1>2 DEF Mine, WorkerType
<1> HIDE DEF o
<1> QED BY <1>1, <1>2, <1>3 DEF WorkerOK, o

(* An answer with success to a completion whose file is available.         *)
LEMMA OkStep ==
    ASSUME FileInv, NEW s \in Slots, reqs[s] # None, reqs[s].op = "complete", Answer(s, TRUE),
           UNCHANGED <<manifests, rows, chunks, svk, inits>>,
           manifests[reqs[s].file] # None, manifests[reqs[s].file].status = "Available"
    PROVE  FileInv'
<1> DEFINE f == reqs[s].file
<1>1. TablesTyped'
  BY DEF FileInv, Typed, TablesTyped
<1>2. AnswerWith(s, TRUE, None)
  BY DEF Answer
<1>3. /\ Typed' /\ reqs' = [reqs EXCEPT ![s] = None]
      /\ reqs[s].for = None => workers' = workers
      /\ reqs[s].for # None =>
           /\ \A v \in Workers \ {f} : workers'[v] = workers[v]
           /\ workers'[f] = Onward(workers[f], None)
  BY <1>1, <1>2, AnswerIs
<1>4. reqs[s].for # None => WorkerOK(f, workers'[f], manifests[f], inits[f], chunks[f])
  <2> SUFFICES ASSUME reqs[s].for # None
               PROVE  WorkerOK(f, workers'[f], manifests[f], inits[f], chunks[f])
    OBVIOUS
  <2>1. /\ f \in Workers /\ workers[f] \in WorkerType
        /\ WorkerOK(f, workers[f], manifests[f], inits[f], chunks[f])
        /\ workers[f].stage = "complete"
    BY AtRequest DEF CallOK
  <2>2. Mine(f, workers[f], manifests[f])
    BY <2>1 DEF WorkerOK
  <2>3. WorkerOK(f, Onward(workers[f], None), manifests[f], inits[f], chunks[f])
    BY <2>1, <2>2, OkWorker
  <2> QED BY <2>3, <1>3
<1> HIDE DEF f
<1> QED BY <1>3, <1>4, QuietStep DEF f

(* upload_complete before the flip: the size is read, then the marks are   *)
(* counted against it; and the second look after a flip that met none.     *)
LEMMA CompleteChecks ==
    ASSUME FileInv, NEW s \in Slots, CompleteStart(s) \/ CompleteGate(s) \/ CompleteReread(s)
    PROVE  FileInv'
<1> DEFINE r == reqs[s]
           f == r.file
<1>1. /\ r # None /\ r.op = "complete" /\ r.pc \in {"start", "count", "reread"}
      /\ UNCHANGED <<manifests, rows, chunks, svk, inits>>
  BY DEF CompleteStart, CompleteGate, CompleteReread, At
<1>2. \/ Answer(s, FALSE)
      \/ Answer(s, TRUE) /\ manifests[f] # None /\ manifests[f].status = "Available"
      \/ /\ CompleteStart(s) /\ manifests[f] # None /\ manifests[f].owner = r.user
         /\ reqs' = [reqs EXCEPT ![s].pc = "count", ![s].total = manifests[f].total]
         /\ UNCHANGED workers
      \/ /\ CompleteGate(s) /\ Goto(s, "flip") /\ UNCHANGED workers
         /\ count_chunks_uploaded(f, r.user) = r.total
  <2>1. CASE CompleteStart(s)
    BY <2>1 DEF CompleteStart, get_file_manifest
  <2>2. CASE CompleteGate(s)
    BY <2>2 DEF CompleteGate, On
  <2>3. CASE CompleteReread(s)
    <3>1. CASE manifests[f] # None /\ manifests[f].owner = r.user /\ manifests[f].status = "Available"
      BY <2>3, <3>1 DEF CompleteReread, get_file_manifest
    <3>2. CASE ~(manifests[f] # None /\ manifests[f].owner = r.user /\ manifests[f].status = "Available")
      BY <2>3, <3>2 DEF CompleteReread, get_file_manifest
    <3> QED BY <3>1, <3>2
  <2> QED BY <2>1, <2>2, <2>3
<1>3. /\ r \in RequestType /\ ReqOK(r, manifests[f], inits[f], rows[f], chunks[f])
      /\ FileOK(manifests[f], inits[f], rows[f], chunks[f])
      /\ manifests[f] \in Manifest \cup {None} /\ f \in Files
      /\ r.for # None => r.for = f /\ CallOK(r, workers[f], manifests[f])
                         /\ WorkerOK(f, workers[f], manifests[f], inits[f], chunks[f])
  BY <1>1, AtRequest
<1>4. CASE Answer(s, FALSE)
  BY <1>1, <1>4, ErrorStep
<1>5. CASE Answer(s, TRUE) /\ manifests[f] # None /\ manifests[f].status = "Available"
  BY <1>1, <1>5, OkStep
<1>6. ASSUME CompleteStart(s), manifests[f] # None, manifests[f].owner = r.user,
             reqs' = [reqs EXCEPT ![s].pc = "count", ![s].total = manifests[f].total],
             UNCHANGED workers
      PROVE  FileInv'
  <2> DEFINE x == [r EXCEPT !.pc = "count", !.total = manifests[f].total]
  <2>1. reqs' = [reqs EXCEPT ![s] = x]
    BY <1>6
  <2>2. manifests[f].total \in Nat
    BY <1>3, <1>6, Absent DEF Manifest
  <2>3. /\ x \in RequestType /\ x.op = r.op /\ x.pc = "count" /\ x.n = r.n /\ x.for = r.for
        /\ x.file = r.file /\ x.user = r.user /\ x.sealed = r.sealed
        /\ x.total = manifests[f].total
    BY <1>3, <2>2 DEF RequestType, Statements
  <2> HIDE DEF x, f, r
  <2>4. reqs' \in [Slots -> RequestType \cup {None}]
    BY <2>1, <2>3 DEF FileInv, Typed
  <2>5. TablesTyped' /\ workers' \in [Workers -> WorkerType]
    BY <1>1, <1>6 DEF FileInv, Typed, TablesTyped
  <2>6. Typed'
    BY <2>4, <2>5 DEF Typed
  <2>7. ~Preparing(x) /\ Same(x, r)
    BY <1>1, <2>3 DEF Preparing, Same
  <2>8. ReqOK(x, manifests[f], inits[f], rows[f], chunks[f])
    BY <1>1, <1>6, <2>3, <2>7 DEF ReqOK, Holding
  <2>9. r.for # None => CallOK(x, workers[f], manifests[f])
    BY <1>1, <1>3, <2>3 DEF CallOK
  <2> QED BY <1>1, <1>3, <1>6, <2>1, <2>3, <2>6, <2>7, <2>8, <2>9, QuietStep DEF r, f
<1>7. ASSUME CompleteGate(s), Goto(s, "flip"), UNCHANGED workers,
             count_chunks_uploaded(f, r.user) = r.total
      PROVE  FileInv'
  <2> DEFINE x == [r EXCEPT !.pc = "flip"]
  <2>1. r.pc = "count"
    BY <1>7 DEF CompleteGate, At
  <2>2. manifests[f] # None /\ manifests[f].owner = r.user
    BY <1>1, <1>3, <2>1 DEF ReqOK, Holding
  <2>3. /\ x.op = r.op /\ x.pc = "flip" /\ x.n = r.n /\ x.for = r.for /\ x.total = r.total
        /\ x.file = r.file /\ x.user = r.user /\ x.sealed = r.sealed
    BY <1>3 DEF RequestType
  <2>4. r.total = Cardinality({i \in Index : rows[f][i] = "uploaded"})
    BY <1>7, <2>2 DEF count_chunks_uploaded, get_file_manifest, Rows
  <2> HIDE DEF x, f, r
  <2>5. ASSUME inits[f] <= 1
        PROVE  /\ r.total = manifests[f].total
               /\ \A i \in 0 .. manifests[f].total - 1 : rows[f][i] = "uploaded"
    <3>1. r.total = manifests[f].total /\ manifests[f].total \in 1 .. MAX_CHUNKS
      BY <1>1, <1>3, <2>1, <2>2, <2>5 DEF ReqOK, Manifest
    <3>2. \A i \in Index : rows[f][i] # None => i < manifests[f].total
      BY <1>3, <2>2, <2>5 DEF FileOK
    <3> QED BY <2>4, <3>1, <3>2, GateCounts
  <2>6. ~Preparing(x)
    BY <1>1, <2>3 DEF Preparing
  <2>7. ReqOK(x, manifests[f], inits[f], rows[f], chunks[f])
    BY <1>1, <2>2, <2>3, <2>5, <2>6 DEF ReqOK, Holding
  <2>8. r.for # None => CallOK(x, workers[f], manifests[f])
    BY <1>1, <1>3, <2>3 DEF CallOK
  <2>9. "flip" \in Statements
    BY DEF Statements
  <2>10. x = [reqs[s] EXCEPT !.pc = "flip"]
    BY DEF x, r
  <2> QED BY <1>1, <1>7, <2>6, <2>7, <2>8, <2>9, <2>10, GotoStep DEF r, f
<1> QED BY <1>2, <1>4, <1>5, <1>6, <1>7

(* A worker that reads a chunk of its own file reads what it sealed: it    *)
(* goes on with the chunks so far in order, and the last completes them.   *)
LEMMA FetchWorker ==
    ASSUME NEW w \in Workers, NEW k \in WorkerType, NEW man, NEW ini,
           NEW bytes \in [Index -> Sealed \cup {None}],
           WorkerOK(w, k, man, ini, bytes), k.stage = "fetch", bytes[k.i] # None
    PROVE  WorkerOK(w, Onward(k, bytes[k.i]), man, ini, bytes)
<1> DEFINE b == bytes[k.i]
           o == Onward(k, b)
           got == Append(k.got, b)
<1>1. /\ k.file = w /\ Mine(w, k, man) /\ Own(w, man) /\ k.size >= 1 /\ k.i < k.size
      /\ ini = 1 /\ \A i \in Index : bytes[i] \in {None, encrypt_file_stream(w, i)}
      /\ Len(k.got) = k.i /\ \A j \in 1 .. k.i : k.got[j] = encrypt_file_stream(w, j - 1)
  BY DEF WorkerOK, Mine
<1>2. k.i \in Nat /\ k.size \in 0 .. MAX_CHUNKS /\ k.got \in Seq(Sealed \cup {None})
  BY DEF WorkerType
<1>3. k.i \in Index
  BY <1>1, <1>2, Absent DEF Index
<1>4. b = encrypt_file_stream(w, k.i) /\ b \in Sealed \cup {None}
  BY <1>1, <1>3
<1>5. Len(got) = k.i + 1 /\ \A j \in 1 .. k.i + 1 : got[j] = encrypt_file_stream(w, j - 1)
  <2>1. Len(got) = Len(k.got) + 1 /\ \A j \in 1 .. Len(got) : got[j] = IF j <= Len(k.got) THEN k.got[j] ELSE b
    BY <1>2, <1>4
  <2>2. ASSUME NEW j \in 1 .. k.i + 1 PROVE got[j] = encrypt_file_stream(w, j - 1)
    <3>1. CASE j <= k.i
      <4>1. j \in 1 .. k.i /\ j \in 1 .. Len(got)
        BY <3>1, <1>1, <1>2, <2>1
      <4> QED BY <4>1, <3>1, <1>1, <2>1
    <3>2. CASE ~(j <= k.i)
      <4>1. j = k.i + 1 /\ j - 1 = k.i /\ j \in 1 .. Len(got)
        BY <3>2, <1>1, <1>2, <2>1
      <4> QED BY <4>1, <3>2, <1>1, <1>4, <2>1
    <3> QED BY <3>1, <3>2
  <2> QED BY <1>1, <2>1, <2>2
<1>6. /\ o.size = k.size /\ o.file = k.file /\ o.got = got
      /\ o.i = IF k.i + 1 = k.size THEN 0 ELSE k.i + 1
      /\ o.stage = IF k.i + 1 # k.size THEN "fetch"
                   ELSE IF decrypt_file_stream(k.file, k.size, got) THEN "Read" ELSE "Corrupt"
  BY <1>4, OnwardIs DEF Ops
<1> HIDE DEF o, got, b
<1>7. Mine(w, o, man)
  BY <1>1, <1>6 DEF Mine
<1>8. CASE k.i + 1 = k.size
  <2>1. decrypt_file_stream(k.file, k.size, got)
    BY <1>1, <1>5, <1>8 DEF decrypt_file_stream
  <2>2. o.stage = "Read" /\ o.i = 0 /\ o.i < o.size
    BY <1>1, <1>2, <1>6, <1>8, <2>1
  <2> QED BY <1>1, <1>6, <2>2 DEF WorkerOK, o, b
<1>9. CASE k.i + 1 # k.size
  <2>1. o.stage = "fetch" /\ o.i = k.i + 1 /\ o.i < o.size
    BY <1>1, <1>2, <1>6, <1>9
  <2>2. Len(o.got) = o.i /\ \A j \in 1 .. o.i : o.got[j] = encrypt_file_stream(w, j - 1)
    BY <1>5, <1>6, <2>1
  <2> QED BY <1>1, <1>6, <1>7, <2>1, <2>2 DEF WorkerOK, o, b
<1> QED BY <1>8, <1>9

(* download_chunk answers with the bytes stored.                           *)
LEMMA FetchStep ==
    ASSUME FileInv, NEW s \in Slots, FetchChunk(s)
    PROVE  FileInv'
<1> DEFINE f == reqs[s].file
           b == chunks[f][reqs[s].n]
<1>1. /\ reqs[s] # None /\ reqs[s].op = "fetch" /\ AnswerWith(s, b # None, b)
      /\ UNCHANGED <<manifests, rows, chunks, svk, inits>>
  BY DEF FetchChunk, At, get_chunk
<1>2. /\ reqs[s].n \in Index /\ f \in Files /\ chunks[f] \in [Index -> Sealed \cup {None}]
      /\ reqs[s].for # None =>
           /\ f \in Workers /\ workers[f] \in WorkerType
           /\ CallOK(reqs[s], workers[f], manifests[f])
           /\ WorkerOK(f, workers[f], manifests[f], inits[f], chunks[f])
  BY <1>1, AtRequest DEF ReqOK
<1>3. b \in Sealed \cup {None}
  BY <1>2
<1>4. TablesTyped'
  BY <1>1 DEF FileInv, Typed, TablesTyped
<1> HIDE DEF b
<1>5. CASE b = None
  <2>1. AnswerWith(s, FALSE, None)
    BY <1>1, <1>5
  <2> QED BY <1>1, <2>1, ErrorStep DEF Answer
<1>6. CASE b # None
  <2>1. AnswerWith(s, TRUE, b)
    BY <1>1, <1>6
  <2>2. /\ Typed' /\ reqs' = [reqs EXCEPT ![s] = None]
        /\ reqs[s].for = None => workers' = workers
        /\ reqs[s].for # None =>
             /\ \A v \in Workers \ {f} : workers'[v] = workers[v]
             /\ workers'[f] = Onward(workers[f], b)
    BY <1>1, <1>3, <1>4, <2>1, AnswerIs
  <2>3. reqs[s].for # None => WorkerOK(f, workers'[f], manifests[f], inits[f], chunks[f])
    <3> SUFFICES ASSUME reqs[s].for # None
                 PROVE  WorkerOK(f, workers'[f], manifests[f], inits[f], chunks[f])
      OBVIOUS
    <3>1. workers[f].stage = "fetch" /\ reqs[s].n = workers[f].i
      BY <1>1, <1>2 DEF CallOK, Argument
    <3>2. b = chunks[f][workers[f].i]
      BY <3>1 DEF b
    <3>3. WorkerOK(f, Onward(workers[f], b), manifests[f], inits[f], chunks[f])
      BY <1>2, <1>6, <3>1, <3>2, FetchWorker
    <3> QED BY <2>2, <3>3
  <2> HIDE DEF f
  <2> QED BY <1>1, <2>2, <2>3, QuietStep DEF f
<1> QED BY <1>5, <1>6

(* A statement fails.                                                      *)
LEMMA FailStep ==
    ASSUME FileInv, NEW s \in Slots, Fail(s)
    PROVE  FileInv'
  BY ErrorStep DEF Fail

(* The answer is lost: the worker gives up and the request goes on for     *)
(* nobody.                                                                 *)
LEMMA LoseStep ==
    ASSUME FileInv, NEW s \in Slots, LoseAnswer(s)
    PROVE  FileInv'
<1> DEFINE r == reqs[s]
           f == r.file
           x == [r EXCEPT !.for = None]
           k == workers[f]
<1>1. /\ r # None /\ r.for # None /\ reqs' = [reqs EXCEPT ![s] = x]
      /\ workers' = [workers EXCEPT ![r.for] = After(workers[r.for], FALSE, None)]
      /\ UNCHANGED <<manifests, rows, chunks, svk, inits>>
  BY DEF LoseAnswer
<1>2. /\ r \in RequestType /\ ReqOK(r, manifests[f], inits[f], rows[f], chunks[f])
      /\ f \in Workers /\ r.for = f /\ k \in WorkerType /\ k.file = f
  BY <1>1, AtRequest DEF WorkerOK
<1>3. /\ x \in RequestType /\ x.op = r.op /\ x.pc = r.pc /\ x.n = r.n /\ x.for = None
      /\ x.file = r.file /\ x.user = r.user /\ x.sealed = r.sealed
      /\ x.total = r.total /\ x.row = r.row
  BY <1>2 DEF RequestType
<1> HIDE DEF x, f, r, k
<1>4. After(k, FALSE, None) = [k EXCEPT !.stage = "Err", !.waits = FALSE]
  BY DEF After
<1>5. /\ After(k, FALSE, None) \in WorkerType /\ After(k, FALSE, None).stage = "Err"
      /\ After(k, FALSE, None).file = f
  BY <1>2, <1>4 DEF WorkerType, Stages
<1>6. workers' = [workers EXCEPT ![f] = After(k, FALSE, None)]
  BY <1>1, <1>2 DEF k
<1>7. workers \in [Workers -> WorkerType] /\ reqs \in [Slots -> RequestType \cup {None}]
  BY DEF FileInv, Typed
<1>8. /\ workers' \in [Workers -> WorkerType] /\ workers'[f] = After(k, FALSE, None)
      /\ \A v \in Workers \ {f} : workers'[v] = workers[v]
  BY <1>2, <1>5, <1>6, <1>7
<1>9. Typed'
  <2>1. reqs' \in [Slots -> RequestType \cup {None}]
    BY <1>1, <1>3, <1>7
  <2>2. TablesTyped'
    BY <1>1 DEF FileInv, Typed, TablesTyped
  <2> QED BY <2>1, <2>2, <1>8 DEF Typed
<1>10. Same(x, r) /\ (Preparing(x) => Preparing(r))
       /\ ReqOK(x, manifests[f], inits[f], rows[f], chunks[f])
  <2>1. Preparing(x) <=> Preparing(r)
    BY <1>3 DEF Preparing
  <2>2. Holding(x) <=> Holding(r)
    BY <1>3 DEF Holding
  <2> QED BY <1>2, <1>3, <2>1, <2>2 DEF Same, ReqOK
<1>11. WorkerOK(f, workers'[f], manifests[f], inits[f], chunks[f])
  BY <1>5, <1>8 DEF WorkerOK
<1> QED BY <1>1, <1>3, <1>5, <1>8, <1>9, <1>10, <1>11, QuietStep DEF r, f

-----------------------------------------------------------------------------
(* Statements that write                                                   *)

(* The INSERT of a manifest makes the file the caller's.                   *)
LEMMA InsertManifestStep ==
    ASSUME FileInv, NEW s \in Slots, InsertManifest(s), manifests[reqs[s].file] = None
    PROVE  FileInv'
<1> DEFINE r == reqs[s]
           f == r.file
           x == [r EXCEPT !.pc = "rearm"]
           man == Pending(r.user, r.n)
<1>1. /\ r # None /\ r.op = "initiate" /\ r.pc = "insert" /\ manifests[f] = None
      /\ manifests' = [manifests EXCEPT ![f] = man]
      /\ inits' = [inits EXCEPT ![f] = inits[f] + 1]
      /\ reqs' = [reqs EXCEPT ![s] = x]
      /\ UNCHANGED <<rows, chunks, workers, svk>>
  BY DEF InsertManifest, At, Goto
<1>2. /\ r \in RequestType /\ f \in Files
      /\ FileOK(manifests[f], inits[f], rows[f], chunks[f])
      /\ ReqOK(r, manifests[f], inits[f], rows[f], chunks[f])
      /\ r.for # None =>
           /\ r.for = f /\ f \in Workers /\ CallOK(r, workers[f], manifests[f])
           /\ WorkerOK(f, workers[f], manifests[f], inits[f], chunks[f])
  BY <1>1, AtRequest
<1>3. /\ x \in RequestType /\ x.op = r.op /\ x.pc = "rearm" /\ x.n = r.n /\ x.for = r.for
      /\ x.file = r.file /\ x.user = r.user /\ x.sealed = r.sealed /\ x.row = r.row
  BY <1>2 DEF RequestType, Statements
<1>4. r.n \in 1 .. MAX_CHUNKS /\ r.row = 0 /\ r.user \in Users
  BY <1>1, <1>2 DEF ReqOK, RequestType
<1>5. man \in Manifest /\ man # None /\ man.owner = r.user /\ man.total = r.n
      /\ man.status = "PendingUpload"
  BY <1>4, Absent DEF Pending, Manifest
<1>6. inits[f] = 0 /\ \A i \in Index : rows[f][i] = None /\ chunks[f][i] = None
  BY <1>1, <1>2 DEF FileOK
<1> HIDE DEF x, r, man
<1>7. TablesTyped
  BY DEF FileInv, Typed
<1>8. /\ manifests'[f] = man /\ inits'[f] = 1 /\ rows'[f] = rows[f] /\ chunks'[f] = chunks[f]
      /\ Elsewhere(f) /\ TablesTyped'
  BY <1>1, <1>2, <1>5, <1>6, <1>7 DEF TablesTyped, Elsewhere
<1>9. Typed'
  BY <1>1, <1>3, <1>8 DEF FileInv, Typed
<1> HIDE DEF f
<1>10. KeptAt(f) /\ Rightful(f, r.user)
  BY <1>1, <1>5, <1>6, <1>8 DEF KeptAt, Kept, Rightful
<1>11. FileOK(manifests'[f], inits'[f], rows'[f], chunks'[f])
  BY <1>5, <1>6, <1>8, Absent DEF FileOK
<1>12. ReqOK(x, manifests'[f], inits'[f], rows'[f], chunks'[f]) /\ Same(x, r)
  BY <1>1, <1>3, <1>4, <1>5, <1>6, <1>8 DEF ReqOK, Same, Holding, Preparing
<1>13. Undisturbed(s, f)
  BY <1>6, <1>8 DEF Undisturbed
<1>14. SoleAt(s, f, x)
  BY <1>1 DEF SoleAt, FileInv, ReqInv, ReqOK, Preparing, Holding
<1>15. ASSUME r.for # None
       PROVE  /\ WorkerOK(f, workers'[f], manifests'[f], inits'[f], chunks'[f])
              /\ CallOK(x, workers'[f], manifests'[f])
  <2>1. /\ CallOK(r, workers[f], manifests[f]) /\ r.for = f
        /\ WorkerOK(f, workers[f], manifests[f], inits[f], chunks[f]) /\ workers'[f] = workers[f]
    BY <1>1, <1>2, <1>15
  <2>2. /\ workers[f].stage = "initiate" /\ workers[f].waits /\ r.n = workers[f].size
        /\ r.user = Account[f]
    BY <1>1, <2>1 DEF CallOK, Argument
  <2>3. Mine(f, workers[f], man)
    BY <1>5, <2>2 DEF Mine, Own
  <2>4. WorkerOK(f, workers[f], man, 1, chunks[f])
    BY <1>6, <2>1, <2>2 DEF WorkerOK
  <2>5. CallOK(x, workers[f], man)
    BY <1>1, <1>3, <2>1, <2>3 DEF CallOK
  <2> QED BY <1>8, <2>1, <2>4, <2>5
<1>16. /\ r.for = None => workers' = workers
       /\ r.for # None =>
           /\ \A v \in Workers \ {f} : workers'[v] = workers[v]
           /\ WorkerOK(f, workers'[f], manifests'[f], inits'[f], chunks'[f])
           /\ x # None /\ x.for # None => CallOK(x, workers'[f], manifests'[f])
           /\ x # None /\ x.for = None => workers'[f].stage = "Err"
  BY <1>1, <1>3, <1>15
<1> QED BY <1>1, <1>8, <1>9, <1>10, <1>11, <1>12, <1>13, <1>14, <1>16, RequestStep DEF r, f

(* A second initiation by the owner: the file counts as initiated twice,   *)
(* and it is none that a worker goes on with.                              *)
LEMMA ResetManifestStep ==
    ASSUME FileInv, NEW s \in Slots, ResetManifest(s)
    PROVE  FileInv'
<1> DEFINE r == reqs[s]
           f == r.file
           x == [r EXCEPT !.pc = "rearm"]
           man == Pending(manifests[f].owner, r.n)
<1>1. /\ r # None /\ r.op = "initiate" /\ r.pc = "reset"
      /\ manifests' = [manifests EXCEPT ![f] = man]
      /\ inits' = [inits EXCEPT ![f] = inits[f] + 1]
      /\ reqs' = [reqs EXCEPT ![s] = x]
      /\ UNCHANGED <<rows, chunks, workers, svk>>
  BY DEF ResetManifest, At, Goto
<1>2. /\ r \in RequestType /\ f \in Files /\ inits[f] \in Nat
      /\ manifests[f] \in Manifest \cup {None}
      /\ FileOK(manifests[f], inits[f], rows[f], chunks[f])
      /\ ReqOK(r, manifests[f], inits[f], rows[f], chunks[f])
      /\ r.for # None => CallOK(r, workers[f], manifests[f])
  BY <1>1, AtRequest
<1>3. /\ x \in RequestType /\ x.op = r.op /\ x.pc = "rearm" /\ x.n = r.n /\ x.for = r.for
      /\ x.file = r.file /\ x.user = r.user /\ x.sealed = r.sealed /\ x.row = r.row
  BY <1>2 DEF RequestType, Statements
<1>4. r.n \in 1 .. MAX_CHUNKS /\ r.row = 0 /\ manifests[f] # None /\ manifests[f].owner = r.user
      /\ r.user \in Users
  BY <1>1, <1>2 DEF ReqOK, RequestType, Holding
<1>5. man \in Manifest /\ man # None /\ man.owner = r.user /\ man.total = r.n
  BY <1>4, Absent DEF Pending, Manifest
<1>6. inits[f] + 1 \in Nat /\ inits[f] + 1 >= 2 /\ r.for = None
  BY <1>1, <1>2, <1>4 DEF FileOK, CallOK
<1>7. \A i \in Index : rows[f][i] = "uploaded" => chunks[f][i] # None
  BY <1>2 DEF FileOK
<1> HIDE DEF x, r, man
<1>8. TablesTyped
  BY DEF FileInv, Typed
<1>9. /\ manifests'[f] = man /\ inits'[f] = inits[f] + 1 /\ rows'[f] = rows[f] /\ chunks'[f] = chunks[f]
      /\ Elsewhere(f) /\ TablesTyped'
  BY <1>1, <1>2, <1>5, <1>6, <1>8 DEF TablesTyped, Elsewhere
<1>10. Typed'
  BY <1>1, <1>3, <1>9 DEF FileInv, Typed
<1> HIDE DEF f
<1>11. KeptAt(f) /\ Rightful(f, r.user)
  BY <1>2, <1>4, <1>5, <1>6, <1>9 DEF KeptAt, Kept, Rightful
<1>12. FileOK(manifests'[f], inits'[f], rows'[f], chunks'[f])
  BY <1>5, <1>6, <1>7, <1>9 DEF FileOK
<1>13. ReqOK(x, manifests'[f], inits'[f], rows'[f], chunks'[f]) /\ Same(x, r)
  BY <1>1, <1>3, <1>4, <1>5, <1>6, <1>9 DEF ReqOK, Same
<1>14. Undisturbed(s, f) /\ SoleAt(s, f, x)
  BY <1>6, <1>9 DEF Undisturbed, SoleAt
<1>15. r.for = None /\ workers' = workers
  BY <1>1, <1>6
<1> QED BY <1>1, <1>9, <1>10, <1>11, <1>12, <1>13, <1>14, <1>15, RequestStep DEF r, f

(* The DELETE of the rows: those of a file initiated once are none.        *)
LEMMA RearmStep ==
    ASSUME FileInv, NEW s \in Slots, RearmChunks(s)
    PROVE  FileInv'
<1> DEFINE r == reqs[s]
           f == r.file
           x == [r EXCEPT !.pc = "rows"]
<1>1. /\ r # None /\ r.op = "initiate" /\ r.pc = "rearm"
      /\ rows' = [rows EXCEPT ![f] = [i \in Index |-> None]]
      /\ reqs' = [reqs EXCEPT ![s] = x]
      /\ UNCHANGED <<manifests, chunks, workers, svk, inits>>
  BY DEF RearmChunks, At, Goto, ClearRows
<1>2. /\ r \in RequestType /\ f \in Files /\ inits[f] \in Nat
      /\ manifests[f] \in Manifest \cup {None}
      /\ rows[f] \in [Index -> {None, "pending", "uploaded"}]
      /\ FileOK(manifests[f], inits[f], rows[f], chunks[f])
      /\ ReqOK(r, manifests[f], inits[f], rows[f], chunks[f])
      /\ r.for # None =>
           /\ r.for = f /\ f \in Workers /\ CallOK(r, workers[f], manifests[f])
           /\ WorkerOK(f, workers[f], manifests[f], inits[f], chunks[f])
  BY <1>1, AtRequest
<1>3. /\ x \in RequestType /\ x.op = r.op /\ x.pc = "rows" /\ x.n = r.n /\ x.for = r.for
      /\ x.file = r.file /\ x.user = r.user /\ x.sealed = r.sealed /\ x.row = r.row
  BY <1>2 DEF RequestType, Statements
<1>4. /\ r.n \in 1 .. MAX_CHUNKS /\ r.row = 0 /\ manifests[f] # None /\ manifests[f].owner = r.user
      /\ inits[f] <= 1 => manifests[f].total = r.n /\ \A i \in Index : rows[f][i] = None
  BY <1>1, <1>2 DEF ReqOK, Holding, Preparing
<1> HIDE DEF x, r
<1>5. TablesTyped /\ rows \in [Files -> [Index -> {None, "pending", "uploaded"}]]
  BY DEF FileInv, Typed, TablesTyped
<1>6. /\ rows'[f] = [i \in Index |-> None] /\ \A i \in Index : rows'[f][i] = None
      /\ rows' \in [Files -> [Index -> {None, "pending", "uploaded"}]]
      /\ \A g \in Files \ {f} : rows'[g] = rows[g]
  BY <1>1, <1>2, <1>5
<1>7. manifests' = manifests /\ inits' = inits /\ chunks' = chunks /\ workers' = workers
  BY <1>1
<1>8. Elsewhere(f) /\ TablesTyped'
  BY <1>1, <1>5, <1>6 DEF Elsewhere, TablesTyped
<1>9. Typed'
  BY <1>1, <1>3, <1>8 DEF FileInv, Typed
<1> HIDE DEF f
<1>10. KeptAt(f) /\ Rightful(f, r.user)
  BY <1>2, <1>4, <1>7, Absent DEF KeptAt, Kept, Rightful
<1>11. FileOK(manifests[f], inits[f], rows'[f], chunks[f])
  <2>1. ASSUME inits[f] <= 1, manifests[f].status = "Available" PROVE FALSE
    <3>1. \A i \in 0 .. manifests[f].total - 1 : rows[f][i] = "uploaded"
      BY <1>2, <1>4, <2>1 DEF FileOK
    <3>2. 0 \in Index /\ 0 \in 0 .. manifests[f].total - 1
      BY <1>4, <2>1, Absent DEF Index
    <3> QED BY <1>4, <2>1, <3>1, <3>2, Absent
  <2>2. inits[f] >= 1
    BY <1>2, <1>4 DEF FileOK
  <2> QED BY <1>4, <1>6, <2>1, <2>2, Absent DEF FileOK
<1>12. ReqOK(x, manifests[f], inits[f], rows'[f], chunks[f]) /\ Same(x, r)
  BY <1>1, <1>3, <1>4 DEF ReqOK, Same, Holding, Preparing
<1>13. Undisturbed(s, f)
  BY <1>6 DEF Undisturbed
<1>14. SoleAt(s, f, x)
  <2>1. Preparing(r)
    BY <1>1 DEF Preparing
  <2> QED BY <1>1, <1>7, <2>1 DEF SoleAt, FileInv, SoleInv, f, r
<1>15. r.for # None =>
         /\ WorkerOK(f, workers[f], manifests[f], inits[f], chunks[f])
         /\ CallOK(x, workers[f], manifests[f])
  BY <1>1, <1>2, <1>3 DEF CallOK
<1>16. /\ FileOK(manifests'[f], inits'[f], rows'[f], chunks'[f])
       /\ ReqOK(x, manifests'[f], inits'[f], rows'[f], chunks'[f])
       /\ r.for # None =>
           /\ \A v \in Workers \ {f} : workers'[v] = workers[v]
           /\ WorkerOK(f, workers'[f], manifests'[f], inits'[f], chunks'[f])
           /\ x # None /\ x.for # None => CallOK(x, workers'[f], manifests'[f])
           /\ x # None /\ x.for = None => workers'[f].stage = "Err"
  BY <1>3, <1>7, <1>11, <1>12, <1>15
<1> QED BY <1>1, <1>7, <1>8, <1>9, <1>10, <1>12, <1>13, <1>14, <1>16, RequestStep DEF r, f

(* A worker whose initiation is answered begins with its first chunk.      *)
LEMMA InitiatedWorker ==
    ASSUME NEW w \in Workers, NEW k \in WorkerType, NEW man, NEW ini, NEW bytes,
           WorkerOK(w, k, man, ini, bytes), k.stage = "initiate", Mine(w, k, man)
    PROVE  WorkerOK(w, Onward(k, None), man, ini, bytes)
<1> DEFINE o == Onward(k, None)
<1>1. o.stage = "chunk" /\ o.i = 0 /\ o.got = k.got /\ o.size = k.size /\ o.file = k.file
  BY OnwardIs DEF Ops
<1>2. /\ k.file = w /\ k.size >= 1 /\ k.got = <<>> /\ Own(w, man)
      /\ ini = 1 /\ \A i \in Index : bytes[i] \in {None, encrypt_file_stream(w, i)}
  BY DEF WorkerOK, Mine
<1>3. Mine(w, o, man) /\ o.i < o.size
  BY <1>1, <1>2 DEF Mine, WorkerType
<1> HIDE DEF o
<1> QED BY <1>1, <1>2, <1>3 DEF WorkerOK, o

(* The tables with a row more.                                             *)
LEMMA RowAdded ==
    ASSUME NEW man \in Manifest, NEW ini \in Nat, NEW row, NEW bytes, NEW row2, NEW i \in Index,
           FileOK(man, ini, row, bytes), row[i] = None,
           \A j \in Index : row2[j] = IF j = i THEN "pending" ELSE row[j],
           ini <= 1 => i < man.total
    PROVE  /\ FileOK(man, ini, row2, bytes)
           /\ Kept(man, ini, row, bytes, man, ini, row2, bytes)
<1>1. man # None /\ man.total \in 1 .. MAX_CHUNKS
  BY Absent DEF Manifest
<1>2. ini >= 1 /\ \A j \in Index : row2[j] = "uploaded" => bytes[j] # None
  BY <1>1 DEF FileOK
<1>3. ASSUME ini <= 1, man.status = "Available", NEW j \in 0 .. man.total - 1
      PROVE  row2[j] = "uploaded"
  <2>1. row[j] = "uploaded" /\ j \in Index
    BY <1>1, <1>3, Absent DEF FileOK, Index
  <2> QED BY <2>1, Absent
<1>4. ini <= 1 => \A j \in Index : row2[j] # None => j < man.total
  BY <1>1 DEF FileOK
<1>5. \A j \in Index : row[j] = "uploaded" => row2[j] = "uploaded"
  BY Absent
<1> QED BY <1>1, <1>2, <1>3, <1>4, <1>5 DEF FileOK, Kept

(* The INSERT of a row for a chunk; the last one answers.                  *)
LEMMA InsertRowStep ==
    ASSUME FileInv, NEW s \in Slots, InsertRow(s)
    PROVE  FileInv'
<1> DEFINE r == reqs[s]
           f == r.file
           i == r.row
           x == [r EXCEPT !.row = i + 1]
<1>1. /\ r # None /\ r.op = "initiate" /\ r.pc = "rows"
      /\ UNCHANGED <<manifests, chunks, svk, inits>>
  BY DEF InsertRow, At
<1>2. \/ Answer(s, FALSE) /\ UNCHANGED rows
      \/ /\ rows[f][i] = None /\ rows' = [rows EXCEPT ![f][i] = "pending"]
         /\ \/ i + 1 = r.n /\ Answer(s, TRUE)
            \/ i + 1 # r.n /\ reqs' = [reqs EXCEPT ![s].row = i + 1] /\ UNCHANGED workers
  BY DEF InsertRow, MarkChunk
<1>3. /\ r \in RequestType /\ f \in Files /\ inits[f] \in Nat
      /\ manifests[f] \in Manifest \cup {None}
      /\ rows[f] \in [Index -> {None, "pending", "uploaded"}]
      /\ FileOK(manifests[f], inits[f], rows[f], chunks[f])
      /\ ReqOK(r, manifests[f], inits[f], rows[f], chunks[f])
      /\ r.for # None =>
           /\ r.for = f /\ f \in Workers /\ workers[f] \in WorkerType
           /\ CallOK(r, workers[f], manifests[f])
           /\ WorkerOK(f, workers[f], manifests[f], inits[f], chunks[f])
  BY <1>1, AtRequest
<1>4. /\ r.n \in 1 .. MAX_CHUNKS /\ i \in Nat /\ i < r.n /\ i \in Index
      /\ manifests[f] # None /\ manifests[f].owner = r.user
      /\ inits[f] <= 1 => manifests[f].total = r.n
  <2>1. r.n \in 1 .. MAX_CHUNKS /\ i \in Nat /\ i < r.n /\ manifests[f] # None
        /\ manifests[f].owner = r.user /\ (inits[f] <= 1 => manifests[f].total = r.n)
    BY <1>1, <1>3 DEF ReqOK, Holding, Preparing, RequestType
  <2> QED BY <2>1, Absent DEF Index
<1>5. CASE Answer(s, FALSE) /\ UNCHANGED rows
  BY <1>1, <1>5, ErrorStep
<1>6. ASSUME rows[f][i] = None, rows' = [rows EXCEPT ![f][i] = "pending"],
             \/ i + 1 = r.n /\ Answer(s, TRUE)
             \/ i + 1 # r.n /\ reqs' = [reqs EXCEPT ![s].row = i + 1] /\ UNCHANGED workers
      PROVE  FileInv'
  <2>1. TablesTyped /\ rows \in [Files -> [Index -> {None, "pending", "uploaded"}]]
    BY DEF FileInv, Typed, TablesTyped
  <2> HIDE DEF r, f, i, x
  <2>2. /\ rows' \in [Files -> [Index -> {None, "pending", "uploaded"}]]
        /\ \A j \in Index : rows'[f][j] = IF j = i THEN "pending" ELSE rows[f][j]
        /\ \A g \in Files \ {f} : rows'[g] = rows[g]
    BY <1>3, <1>4, <1>6, <2>1
  <2>3. TablesTyped' /\ Elsewhere(f)
    BY <1>1, <2>1, <2>2 DEF TablesTyped, Elsewhere
  <2>4. manifests' = manifests /\ inits' = inits /\ chunks' = chunks
    BY <1>1
  <2>5. /\ FileOK(manifests[f], inits[f], rows'[f], chunks[f])
        /\ Kept(manifests[f], inits[f], rows[f], chunks[f], manifests[f], inits[f], rows'[f], chunks[f])
    <3>1. manifests[f] \in Manifest /\ (inits[f] <= 1 => i < manifests[f].total)
      BY <1>3, <1>4
    <3> QED BY <1>3, <1>4, <1>6, <2>2, <3>1, RowAdded
  <2>6. /\ FileOK(manifests'[f], inits'[f], rows'[f], chunks'[f]) /\ KeptAt(f)
        /\ Rightful(f, r.user)
    BY <2>4, <2>5 DEF KeptAt, Rightful
  <2>7. \A t \in Slots \ {s} : reqs[t] # None /\ reqs[t].file = f /\ inits[f] <= 1
          => ~Preparing(reqs[t])
    <3>1. Preparing(r)
      BY <1>1 DEF Preparing
    <3> QED BY <1>1, <3>1 DEF FileInv, SoleInv, f, r
  <2>8. Undisturbed(s, f) /\ \A y : SoleAt(s, f, y)
    BY <2>4, <2>7 DEF Undisturbed, SoleAt, Preparing
  <2>9. CASE i + 1 = r.n /\ Answer(s, TRUE)
    <3>1. /\ Typed' /\ reqs' = [reqs EXCEPT ![s] = None]
          /\ r.for = None => workers' = workers
          /\ r.for # None =>
               /\ \A v \in Workers \ {f} : workers'[v] = workers[v]
               /\ workers'[f] = Onward(workers[f], None)
      BY <1>1, <2>3, <2>9, AnswerIs DEF Answer, r, f
    <3>2. r.for # None => WorkerOK(f, workers'[f], manifests'[f], inits'[f], chunks'[f])
      <4> SUFFICES ASSUME r.for # None
                   PROVE  WorkerOK(f, workers'[f], manifests[f], inits[f], chunks[f])
        BY <2>4
      <4>1. workers[f].stage = "initiate" /\ Mine(f, workers[f], manifests[f])
        BY <1>1, <1>3 DEF CallOK
      <4>2. WorkerOK(f, Onward(workers[f], None), manifests[f], inits[f], chunks[f])
        BY <1>3, <4>1, InitiatedWorker
      <4> QED BY <4>2, <3>1
    <3> QED BY <1>1, <2>3, <2>6, <2>8, <3>1, <3>2, RequestStep DEF r, f
  <2>10. CASE i + 1 # r.n /\ reqs' = [reqs EXCEPT ![s].row = i + 1] /\ UNCHANGED workers
    <3>1. reqs' = [reqs EXCEPT ![s] = x]
      BY <2>10 DEF x, r
    <3>2. i + 1 \in Nat /\ i + 1 < r.n
      BY <1>4, <2>10
    <3>3. /\ x \in RequestType /\ x.op = r.op /\ x.pc = r.pc /\ x.n = r.n /\ x.for = r.for
          /\ x.file = r.file /\ x.user = r.user /\ x.sealed = r.sealed /\ x.row = i + 1
      BY <1>3, <3>2 DEF RequestType, x
    <3>4. Typed'
      BY <2>3, <2>10, <3>1, <3>3 DEF FileInv, Typed
    <3>5. ReqOK(x, manifests[f], inits[f], rows'[f], chunks[f]) /\ Same(x, r)
      BY <1>1, <1>4, <3>2, <3>3 DEF ReqOK, Same, Holding, Preparing
    <3>6. r.for # None => CallOK(x, workers[f], manifests[f])
      BY <1>3, <3>3 DEF CallOK
    <3>7. /\ ReqOK(x, manifests'[f], inits'[f], rows'[f], chunks'[f])
          /\ r.for = None => workers' = workers
          /\ r.for # None =>
              /\ \A v \in Workers \ {f} : workers'[v] = workers[v]
              /\ WorkerOK(f, workers'[f], manifests'[f], inits'[f], chunks'[f])
              /\ x # None /\ x.for # None => CallOK(x, workers'[f], manifests'[f])
              /\ x # None /\ x.for = None => workers'[f].stage = "Err"
      BY <1>3, <2>4, <2>10, <3>3, <3>5, <3>6
    <3> QED BY <1>1, <2>3, <2>6, <2>8, <3>1, <3>4, <3>5, <3>7, RequestStep DEF r, f
  <2> QED BY <1>6, <2>9, <2>10
<1> QED BY <1>2, <1>5, <1>6

(* put_chunk: on a worker's own file only the worker's bytes are stored.   *)
LEMMA StoreStep ==
    ASSUME FileInv, NEW s \in Slots, StoreChunk(s)
    PROVE  FileInv'
<1> DEFINE r == reqs[s]
           f == r.file
           b == encrypt_file_stream(r.sealed, r.n)
           x == [r EXCEPT !.pc = "mark"]
<1>1. /\ r # None /\ r.op = "chunk" /\ r.pc = "put"
      /\ chunks' = [chunks EXCEPT ![f][r.n] = b]
      /\ reqs' = [reqs EXCEPT ![s] = x]
      /\ UNCHANGED <<manifests, rows, workers, svk, inits>>
  BY DEF StoreChunk, At, Goto, put_chunk
<1>2. /\ r \in RequestType /\ f \in Files /\ inits[f] \in Nat
      /\ chunks[f] \in [Index -> Sealed \cup {None}]
      /\ FileOK(manifests[f], inits[f], rows[f], chunks[f])
      /\ ReqOK(r, manifests[f], inits[f], rows[f], chunks[f])
      /\ r.for # None =>
           /\ r.for = f /\ f \in Workers /\ CallOK(r, workers[f], manifests[f])
           /\ WorkerOK(f, workers[f], manifests[f], inits[f], chunks[f])
  BY <1>1, AtRequest
<1>3. /\ x \in RequestType /\ x.op = r.op /\ x.pc = "mark" /\ x.n = r.n /\ x.for = r.for
      /\ x.file = r.file /\ x.user = r.user /\ x.sealed = r.sealed
  BY <1>2 DEF RequestType, Statements
<1>4. r.n \in Index /\ manifests[f] # None /\ manifests[f].owner = r.user
  BY <1>1, <1>2 DEF ReqOK, Holding
<1>5. b \in Sealed /\ b # None
  BY <1>2, <1>4, Absent DEF encrypt_file_stream, Sealed, RequestType
<1>6. TablesTyped /\ chunks \in [Files -> [Index -> Sealed \cup {None}]]
  BY DEF FileInv, Typed, TablesTyped
<1> HIDE DEF r, f, b, x
<1>7. /\ chunks' \in [Files -> [Index -> Sealed \cup {None}]]
      /\ \A j \in Index : chunks'[f][j] = IF j = r.n THEN b ELSE chunks[f][j]
      /\ \A g \in Files \ {f} : chunks'[g] = chunks[g]
  BY <1>1, <1>2, <1>4, <1>5, <1>6
<1>8. TablesTyped' /\ Elsewhere(f)
  BY <1>1, <1>6, <1>7 DEF TablesTyped, Elsewhere
<1>9. Typed'
  BY <1>1, <1>3, <1>8 DEF FileInv, Typed
<1>10. manifests' = manifests /\ inits' = inits /\ rows' = rows /\ workers' = workers
  BY <1>1
<1>11. KeptAt(f) /\ Rightful(f, r.user)
  BY <1>2, <1>4, <1>5, <1>7, <1>10 DEF KeptAt, Kept, Rightful
<1>12. FileOK(manifests[f], inits[f], rows[f], chunks'[f])
  BY <1>2, <1>4, <1>5, <1>7 DEF FileOK
<1>13. ReqOK(x, manifests[f], inits[f], rows[f], chunks'[f]) /\ Same(x, r)
  BY <1>1, <1>3, <1>4, <1>5, <1>7 DEF ReqOK, Same, Holding, Preparing
<1>14. Undisturbed(s, f)
  BY <1>10 DEF Undisturbed, FileInv, ReqInv, ReqOK
<1>15. SoleAt(s, f, x)
  BY <1>1, <1>3 DEF SoleAt, Preparing
<1>16. ASSUME r.for # None
       PROVE  /\ WorkerOK(f, workers[f], manifests[f], inits[f], chunks'[f])
              /\ CallOK(x, workers[f], manifests[f])
  <2>1. r.sealed = f /\ CallOK(x, workers[f], manifests[f])
    BY <1>1, <1>2, <1>3, <1>16 DEF CallOK
  <2>2. b = encrypt_file_stream(f, r.n)
    BY <2>1 DEF b
  <2>3. ASSUME workers[f].stage # "Err", Own(f, manifests[f]), NEW j \in Index
        PROVE  chunks'[f][j] \in {None, encrypt_file_stream(f, j)}
    BY <1>2, <1>7, <1>16, <2>2, <2>3 DEF WorkerOK
  <2> QED BY <1>2, <1>16, <2>1, <2>3 DEF WorkerOK
<1>17. /\ FileOK(manifests'[f], inits'[f], rows'[f], chunks'[f])
       /\ ReqOK(x, manifests'[f], inits'[f], rows'[f], chunks'[f])
       /\ r.for # None =>
           /\ \A v \in Workers \ {f} : workers'[v] = workers[v]
           /\ WorkerOK(f, workers'[f], manifests'[f], inits'[f], chunks'[f])
           /\ x # None /\ x.for # None => CallOK(x, workers'[f], manifests'[f])
           /\ x # None /\ x.for = None => workers'[f].stage = "Err"
  BY <1>3, <1>10, <1>12, <1>13, <1>16
<1> QED BY <1>1, <1>8, <1>9, <1>10, <1>11, <1>13, <1>14, <1>15, <1>17, RequestStep DEF r, f

(* A worker whose chunk is answered sends the next, or completes.          *)
LEMMA ChunkWorker ==
    ASSUME NEW w \in Workers, NEW k \in WorkerType, NEW man, NEW ini, NEW bytes,
           WorkerOK(w, k, man, ini, bytes), k.stage = "chunk"
    PROVE  WorkerOK(w, Onward(k, None), man, ini, bytes)
<1> DEFINE o == Onward(k, None)
<1>1. /\ o.stage = IF k.i + 1 = k.size THEN "complete" ELSE "chunk"
      /\ o.i = IF k.i + 1 = k.size THEN 0 ELSE k.i + 1
      /\ o.got = k.got /\ o.size = k.size /\ o.file = k.file
  BY OnwardIs DEF Ops
<1>2. /\ k.file = w /\ k.size >= 1 /\ k.i < k.size /\ k.got = <<>> /\ Mine(w, k, man) /\ Own(w, man)
      /\ ini = 1 /\ \A i \in Index : bytes[i] \in {None, encrypt_file_stream(w, i)}
  BY DEF WorkerOK, Mine
<1>3. Mine(w, o, man)
  BY <1>1, <1>2 DEF Mine
<1>4. k.i \in Nat /\ k.size \in Nat
  BY Absent DEF WorkerType
<1>5. o.i < o.size /\ (o.stage = "complete" => o.i = 0) /\ o.stage \in {"chunk", "complete"}
  BY <1>1, <1>2, <1>4
<1> HIDE DEF o
<1> QED BY <1>1, <1>2, <1>3, <1>5 DEF WorkerOK, o

(* set_chunk_uploaded marks a row whose bytes are stored.                  *)
LEMMA MarkStep ==
    ASSUME FileInv, NEW s \in Slots, MarkUploaded(s)
    PROVE  FileInv'
<1> DEFINE r == reqs[s]
           f == r.file
<1>1. /\ r # None /\ r.op = "chunk" /\ r.pc = "mark" /\ AnswerWith(s, TRUE, None)
      /\ set_chunk_uploaded(f, r.n, r.user)
      /\ UNCHANGED <<manifests, chunks, svk, inits>>
  BY DEF MarkUploaded, At, Answer
<1>2. /\ r \in RequestType /\ f \in Files /\ inits[f] \in Nat
      /\ manifests[f] \in Manifest \cup {None}
      /\ rows[f] \in [Index -> {None, "pending", "uploaded"}]
      /\ FileOK(manifests[f], inits[f], rows[f], chunks[f])
      /\ ReqOK(r, manifests[f], inits[f], rows[f], chunks[f])
      /\ r.for # None =>
           /\ r.for = f /\ f \in Workers /\ workers[f] \in WorkerType
           /\ CallOK(r, workers[f], manifests[f])
           /\ WorkerOK(f, workers[f], manifests[f], inits[f], chunks[f])
  BY <1>1, AtRequest
<1>3. r.n \in Index /\ manifests[f] # None /\ chunks[f][r.n] # None
  BY <1>1, <1>2 DEF ReqOK, Holding
<1>4. IF rows[f][r.n] # None THEN rows' = [rows EXCEPT ![f][r.n] = "uploaded"] ELSE rows' = rows
  BY <1>1, <1>2 DEF set_chunk_uploaded, get_file_manifest, MarkChunk, ReqOK, Holding
<1>5. TablesTyped /\ rows \in [Files -> [Index -> {None, "pending", "uploaded"}]]
  BY DEF FileInv, Typed, TablesTyped
<1> HIDE DEF r, f
<1>6. /\ rows' \in [Files -> [Index -> {None, "pending", "uploaded"}]]
      /\ \A j \in Index : rows'[f][j] = IF j = r.n /\ rows[f][j] # None THEN "uploaded" ELSE rows[f][j]
      /\ \A g \in Files \ {f} : rows'[g] = rows[g]
  <2>1. CASE rows[f][r.n] # None
    BY <1>2, <1>3, <1>4, <1>5, <2>1
  <2>2. CASE rows[f][r.n] = None
    BY <1>2, <1>3, <1>4, <1>5, <2>2
  <2> QED BY <2>1, <2>2
<1>7. manifests' = manifests /\ inits' = inits /\ chunks' = chunks
  BY <1>1
<1>8. TablesTyped' /\ Elsewhere(f)
  BY <1>1, <1>5, <1>6 DEF TablesTyped, Elsewhere
<1>9. /\ Typed' /\ reqs' = [reqs EXCEPT ![s] = None]
      /\ r.for = None => workers' = workers
      /\ r.for # None =>
           /\ \A v \in Workers \ {f} : workers'[v] = workers[v]
           /\ workers'[f] = Onward(workers[f], None)
  BY <1>1, <1>8, AnswerIs DEF r, f
<1>10. KeptAt(f) /\ Rightful(f, r.user)
  BY <1>2, <1>6, <1>7 DEF KeptAt, Kept, Rightful
<1>11. FileOK(manifests[f], inits[f], rows'[f], chunks[f])
  <2>1. \A j \in Index : rows'[f][j] # None <=> rows[f][j] # None
    BY <1>6, Absent
  <2>2. \A j \in Index : rows'[f][j] = "uploaded" => chunks[f][j] # None
    BY <1>2, <1>3, <1>6 DEF FileOK
  <2>3. ASSUME inits[f] <= 1, manifests[f].status = "Available", NEW j \in 0 .. manifests[f].total - 1
        PROVE  rows'[f][j] = "uploaded"
    <3>1. manifests[f].total \in 1 .. MAX_CHUNKS
      BY <1>2, <1>3 DEF Manifest
    <3>2. rows[f][j] = "uploaded" /\ j \in Index
      BY <1>2, <1>3, <2>3, <3>1, Absent DEF FileOK, Index
    <3> QED BY <3>2, <1>6
  <2> QED BY <1>2, <1>3, <2>1, <2>2, <2>3 DEF FileOK
<1>12. Undisturbed(s, f)
  <2> SUFFICES ASSUME NEW t \in Slots \ {s}, reqs[t] # None, reqs[t].file = f, inits[f] <= 1,
                      reqs[t].op = "initiate", reqs[t].pc = "rearm", NEW j \in Index
               PROVE  rows'[f][j] = None
    BY <1>7 DEF Undisturbed
  <2>1. rows[f][j] = None
    BY DEF FileInv, ReqInv, ReqOK
  <2> QED BY <2>1, <1>6
<1>13. SoleAt(s, f, None)
  BY DEF SoleAt
<1>14. r.for # None => WorkerOK(f, workers'[f], manifests'[f], inits'[f], chunks'[f])
  <2> SUFFICES ASSUME r.for # None
               PROVE  WorkerOK(f, workers'[f], manifests[f], inits[f], chunks[f])
    BY <1>7
  <2>1. workers[f].stage = "chunk"
    BY <1>1, <1>2 DEF CallOK
  <2>2. WorkerOK(f, Onward(workers[f], None), manifests[f], inits[f], chunks[f])
    BY <1>2, <2>1, ChunkWorker
  <2> QED BY <2>2, <1>9
<1>15. FileOK(manifests'[f], inits'[f], rows'[f], chunks'[f])
  BY <1>7, <1>11
<1> QED BY <1>1, <1>8, <1>9, <1>10, <1>12, <1>13, <1>14, <1>15, RequestStep DEF r, f

(* The flip makes a file available whose rows, if it was initiated once,   *)
(* are all marked.                                                         *)
LEMMA FlipStep ==
    ASSUME FileInv, NEW s \in Slots, CompleteFlip(s)
    PROVE  FileInv'
<1> DEFINE r == reqs[s]
           f == r.file
           x == [r EXCEPT !.pc = "reread"]
           man == [manifests[f] EXCEPT !.status = "Available"]
<1>1. /\ r # None /\ r.op = "complete" /\ r.pc = "flip" /\ set_file_status(f, r.user)
      /\ UNCHANGED <<rows, chunks, svk, inits>>
      /\ IF manifests[f].status = "PendingUpload" THEN Answer(s, TRUE)
         ELSE Goto(s, "reread") /\ UNCHANGED workers
  BY DEF CompleteFlip, At
<1>2. /\ r \in RequestType /\ f \in Files /\ inits[f] \in Nat
      /\ manifests[f] \in Manifest \cup {None}
      /\ FileOK(manifests[f], inits[f], rows[f], chunks[f])
      /\ ReqOK(r, manifests[f], inits[f], rows[f], chunks[f])
      /\ r.for # None =>
           /\ r.for = f /\ f \in Workers /\ workers[f] \in WorkerType
           /\ CallOK(r, workers[f], manifests[f])
           /\ WorkerOK(f, workers[f], manifests[f], inits[f], chunks[f])
  BY <1>1, AtRequest
<1>3. /\ manifests[f] # None /\ manifests[f].owner = r.user /\ manifests[f] \in Manifest
      /\ inits[f] <= 1 => \A i \in 0 .. manifests[f].total - 1 : rows[f][i] = "uploaded"
  BY <1>1, <1>2 DEF ReqOK, Holding
<1>4. /\ man \in Manifest /\ man # None /\ man.owner = r.user /\ man.status = "Available"
      /\ man.total = manifests[f].total
  BY <1>3, Absent DEF Manifest
<1>5. IF manifests[f].status = "PendingUpload" THEN manifests' = [manifests EXCEPT ![f] = man]
      ELSE manifests' = manifests
  BY <1>1, <1>3 DEF set_file_status, get_file_manifest
<1> HIDE DEF r, f, x, man
<1>6. CASE manifests[f].status # "PendingUpload"
  <2>1. Goto(s, "reread") /\ UNCHANGED <<manifests, rows, chunks, workers, svk, inits>>
    BY <1>1, <1>5, <1>6
  <2>2. /\ x.op = r.op /\ x.pc = "reread" /\ x.n = r.n /\ x.for = r.for
        /\ x.file = r.file /\ x.user = r.user /\ x.sealed = r.sealed
    BY <1>2 DEF RequestType, x
  <2>3. ~Preparing(x) /\ "reread" \in Statements /\ x = [reqs[s] EXCEPT !.pc = "reread"]
    BY <1>1, <2>2 DEF Preparing, Statements, x, r
  <2>4. ReqOK(x, manifests[f], inits[f], rows[f], chunks[f])
    BY <1>1, <1>3, <2>2, <2>3 DEF ReqOK, Holding
  <2>5. r.for # None => CallOK(x, workers[f], manifests[f])
    BY <1>1, <1>2, <2>2 DEF CallOK
  <2> QED BY <1>1, <2>1, <2>3, <2>4, <2>5, GotoStep DEF r, f
<1>7. CASE manifests[f].status = "PendingUpload"
  <2>1. AnswerWith(s, TRUE, None) /\ manifests' = [manifests EXCEPT ![f] = man]
    BY <1>1, <1>5, <1>7 DEF Answer
  <2>2. TablesTyped /\ manifests \in [Files -> Manifest \cup {None}]
    BY DEF FileInv, Typed, TablesTyped
  <2>3. /\ manifests' \in [Files -> Manifest \cup {None}] /\ manifests'[f] = man
        /\ \A g \in Files \ {f} : manifests'[g] = manifests[g]
    BY <1>2, <1>4, <2>1, <2>2
  <2>4. TablesTyped' /\ Elsewhere(f)
    BY <1>1, <2>2, <2>3 DEF TablesTyped, Elsewhere
  <2>5. rows' = rows /\ chunks' = chunks /\ inits' = inits
    BY <1>1
  <2>6. /\ Typed' /\ reqs' = [reqs EXCEPT ![s] = None]
        /\ r.for = None => workers' = workers
        /\ r.for # None =>
             /\ \A v \in Workers \ {f} : workers'[v] = workers[v]
             /\ workers'[f] = Onward(workers[f], None)
    BY <1>1, <2>1, <2>4, AnswerIs DEF r, f
  <2>7. KeptAt(f) /\ Rightful(f, r.user)
    BY <1>2, <1>3, <1>4, <2>3, <2>5 DEF KeptAt, Kept, Rightful
  <2>8. FileOK(man, inits[f], rows[f], chunks[f])
    BY <1>2, <1>3, <1>4 DEF FileOK
  <2>9. FileOK(manifests'[f], inits'[f], rows'[f], chunks'[f])
    BY <2>3, <2>5, <2>8
  <2>10. Undisturbed(s, f)
    BY <2>5 DEF Undisturbed, FileInv, ReqInv, ReqOK
  <2>11. SoleAt(s, f, None)
    BY DEF SoleAt
  <2>12. r.for # None => WorkerOK(f, workers'[f], manifests'[f], inits'[f], chunks'[f])
    <3> SUFFICES ASSUME r.for # None
                 PROVE  WorkerOK(f, workers'[f], man, inits[f], chunks[f])
      BY <2>3, <2>5
    <3>1. workers[f].stage = "complete"
      BY <1>1, <1>2 DEF CallOK
    <3>2. Mine(f, workers[f], man)
      <4>1. Mine(f, workers[f], manifests[f])
        BY <1>2, <3>1 DEF WorkerOK
      <4> QED BY <4>1, <1>3, <1>4 DEF Mine, Own
    <3>3. WorkerOK(f, Onward(workers[f], None), man, inits[f], chunks[f])
      BY <1>2, <1>4, <3>1, <3>2, OkWorker
    <3> QED BY <3>3, <2>6
  <2> QED BY <1>1, <2>4, <2>6, <2>7, <2>9, <2>10, <2>11, <2>12, RequestStep DEF r, f
<1> QED BY <1>6, <1>7

-----------------------------------------------------------------------------
(* Clients                                                                 *)

(* A request that arrives knows nothing yet.                               *)
LEMMA TablesArrive ==
    ASSUME FileInv, NEW s \in Slots, reqs[s] = None, NEW q \in RequestType,
           reqs' = [reqs EXCEPT ![s] = q], UNCHANGED <<manifests, rows, chunks, inits>>,
           q.pc = "start", q.row = 0, q.op \in {"chunk", "fetch"} => q.n \in Index
    PROVE  /\ TableInv' /\ ReqInv' /\ SoleInv'
           /\ reqs'[s] = q /\ \A t \in Slots \ {s} : reqs'[t] = reqs[t]
           /\ reqs' \in [Slots -> RequestType \cup {None}]
<1>1. reqs \in [Slots -> RequestType \cup {None}] /\ TableInv /\ ReqInv /\ SoleInv
  BY DEF FileInv, Typed
<1>2. /\ reqs'[s] = q /\ \A t \in Slots \ {s} : reqs'[t] = reqs[t]
      /\ reqs' \in [Slots -> RequestType \cup {None}]
  BY <1>1
<1>3. TableInv'
  BY <1>1 DEF TableInv
<1>4. ~Preparing(q) /\ ~Holding(q)
  BY DEF Preparing, Holding
<1>5. ReqOK(q, manifests[q.file], inits[q.file], rows[q.file], chunks[q.file])
  BY <1>4 DEF ReqOK
<1>6. ReqInv'
  BY <1>1, <1>2, <1>5 DEF ReqInv
<1>7. SoleInv'
  BY <1>1, <1>2, <1>4 DEF SoleInv
<1> QED BY <1>2, <1>3, <1>6, <1>7

(* The worker's next request.                                              *)
LEMMA SendStep ==
    ASSUME FileInv, NEW w \in Workers, WorkerSend(w)
    PROVE  FileInv'
<1> DEFINE k == workers[w]
           q == Request(k.stage, Account[w], w, Argument(k), w)
           k2 == [k EXCEPT !.waits = TRUE]
<1>1. /\ k.stage \in Ops /\ ~k.waits /\ workers' = [workers EXCEPT ![w] = k2]
      /\ UNCHANGED <<manifests, rows, chunks, svk, inits>>
  BY DEF WorkerSend
<1>2. PICK s \in Slots : reqs[s] = None /\ reqs' = [reqs EXCEPT ![s] = q]
  BY DEF WorkerSend, Arrive
<1>3. /\ k \in WorkerType /\ WorkerOK(w, k, manifests[w], inits[w], chunks[w])
      /\ workers \in [Workers -> WorkerType] /\ w \in Files /\ Account[w] \in Users
      /\ w # None
  BY Absent DEF FileInv, Typed, WorkInv
<1>4. k.size \in 1 .. MAX_CHUNKS /\ k.i \in Nat /\ k.i < k.size /\ k.stage # "Err"
  BY <1>1, <1>3, Absent DEF WorkerOK, WorkerType, Ops
<1>5. k.i \in Index /\ k.i \in 0 .. MAX_CHUNKS + 1 /\ k.size \in 0 .. MAX_CHUNKS + 1
  BY <1>4, Absent DEF Index
<1>6. Argument(k) \in 0 .. MAX_CHUNKS + 1 /\ (k.stage # "initiate" => Argument(k) = k.i)
  BY <1>5 DEF Argument
<1>7. /\ q \in RequestType /\ q.op = k.stage /\ q.user = Account[w] /\ q.file = w
      /\ q.n = Argument(k) /\ q.for = w /\ q.sealed = w /\ q.pc = "start" /\ q.row = 0
  BY <1>1, <1>3, <1>6 DEF Request, RequestType, Statements
<1>8. k2 \in WorkerType /\ k2.waits = TRUE /\ k2.stage = k.stage /\ k2.size = k.size
      /\ k2.i = k.i /\ k2.got = k.got /\ k2.file = k.file
  BY <1>3 DEF WorkerType
<1> HIDE DEF k, q, k2
<1>9. q.op \in {"chunk", "fetch"} => q.n \in Index
  BY <1>5, <1>6, <1>7
<1>10. /\ TableInv' /\ ReqInv' /\ SoleInv'
       /\ reqs'[s] = q /\ \A t \in Slots \ {s} : reqs'[t] = reqs[t]
       /\ reqs' \in [Slots -> RequestType \cup {None}]
  BY <1>1, <1>2, <1>7, <1>9, TablesArrive
<1>11. /\ workers' \in [Workers -> WorkerType] /\ workers'[w] = k2
       /\ \A v \in Workers \ {w} : workers'[v] = workers[v]
  BY <1>1, <1>3, <1>8
<1>12. Typed'
  BY <1>1, <1>10, <1>11 DEF FileInv, Typed, TablesTyped
<1>13. WorkInv'
  <2>1. Argument(k2) = Argument(k) /\ \A man : Mine(w, k2, man) <=> Mine(w, k, man)
    BY <1>8 DEF Argument, Mine
  <2>2. WorkerOK(w, k2, manifests[w], inits[w], chunks[w])
    BY <1>3, <1>8, <2>1 DEF WorkerOK
  <2> QED BY <1>1, <1>11, <2>2 DEF FileInv, WorkInv
<1>14. \A t \in Slots : reqs[t] # None => reqs[t].for # w
  BY <1>1, <1>3 DEF FileInv, CallInv, CallOK, k
<1>15. CallInv'
  <2>1. CallOK(q, k2, manifests[w])
    <3>1. Argument(k2) = Argument(k)
      BY <1>8 DEF Argument
    <3>2. k.stage = "initiate" => ~Own(w, manifests[w])
      BY <1>1, <1>3, <1>4 DEF WorkerOK
    <3> QED BY <1>7, <1>8, <3>1, <3>2 DEF CallOK
  <2> SUFFICES ASSUME NEW t \in Slots, reqs'[t] # None, reqs'[t].for # None
               PROVE  CallOK(reqs'[t], workers'[reqs'[t].for], manifests'[reqs'[t].for])
    BY DEF CallInv
  <2>2. CASE t = s
    BY <1>1, <1>7, <1>10, <1>11, <2>1, <2>2
  <2>3. CASE t # s
    <3>1. reqs'[t] = reqs[t] /\ reqs[t].for # w /\ reqs[t].for \in Workers
      BY <1>10, <1>14, <2>3 DEF FileInv, Typed, RequestType
    <3>2. CallOK(reqs[t], workers[reqs[t].for], manifests[reqs[t].for])
      BY <3>1 DEF FileInv, CallInv
    <3> QED BY <1>1, <1>11, <3>1, <3>2
  <2> QED BY <2>2, <2>3
<1>16. KnownInv'
  <2>1. \A v \in Workers : workers'[v].stage = workers[v].stage
    BY <1>8, <1>11 DEF k
  <2> QED BY <1>7, <1>10, <2>1 DEF FileInv, KnownInv
<1>17. OneCall'
  BY <1>7, <1>10, <1>14 DEF FileInv, OneCall
<1> QED BY <1>10, <1>12, <1>13, <1>15, <1>16, <1>17 DEF FileInv

(* Another client's request.                                               *)
LEMMA OtherStep ==
    ASSUME FileInv, OtherClient
    PROVE  FileInv'
<1>1. PICK u \in Users, f \in Files, op \in Ops, n \in 0 .. MAX_CHUNKS + 1 :
        /\ f \in Workers => u # Account[f]
        /\ op = "complete" => n = 0
        /\ op # "initiate" => n \in Index
        /\ Arrive(Request(op, u, f, n, None))
  BY DEF OtherClient
<1> DEFINE q == Request(op, u, f, n, None)
<1>2. PICK s \in Slots : reqs[s] = None /\ reqs' = [reqs EXCEPT ![s] = q]
  BY <1>1 DEF Arrive
<1>3. UNCHANGED <<manifests, rows, chunks, workers, svk, inits>>
  BY DEF OtherClient
<1>4. /\ q \in RequestType /\ q.op = op /\ q.user = u /\ q.file = f
      /\ q.n = n /\ q.for = None /\ q.pc = "start" /\ q.row = 0
  BY DEF Request, RequestType, Statements
<1>5. q.op \in {"chunk", "fetch"} => q.n \in Index
  BY <1>1, <1>4
<1> HIDE DEF q
<1>6. /\ TableInv' /\ ReqInv' /\ SoleInv'
      /\ reqs'[s] = q /\ \A t \in Slots \ {s} : reqs'[t] = reqs[t]
      /\ reqs' \in [Slots -> RequestType \cup {None}]
  BY <1>2, <1>3, <1>4, <1>5, TablesArrive
<1>7. Typed' /\ WorkInv'
  BY <1>3, <1>6 DEF FileInv, Typed, TablesTyped, WorkInv
<1>8. CallInv'
  BY <1>3, <1>4, <1>6 DEF FileInv, CallInv
<1>9. KnownInv'
  BY <1>1, <1>3, <1>4, <1>6 DEF FileInv, KnownInv
<1>10. OneCall'
  BY <1>4, <1>6 DEF FileInv, OneCall
<1> QED BY <1>6, <1>7, <1>8, <1>9, <1>10 DEF FileInv

(* The user's wishes: a worker without a request in flight starts an       *)
(* upload or a download.                                                   *)
LEMMA StartStep ==
    ASSUME FileInv, NEW w \in Workers, StartUpload(w) \/ StartDownload(w)
    PROVE  FileInv'
<1> DEFINE k == workers[w]
           k2 == workers'[w]
<1>1. /\ k \in WorkerType /\ WorkerOK(w, k, manifests[w], inits[w], chunks[w])
      /\ workers \in [Workers -> WorkerType] /\ k.stage \in {"idle", "Ok"}
  BY DEF FileInv, Typed, WorkInv, StartUpload, StartDownload
<1>0. svk[Account[w]] \in Nat
  <2>1. Account[w] \in Users /\ svk \in [Users -> {1, 2}]
    BY Absent DEF FileInv, Typed, TablesTyped
  <2> QED BY <2>1
<1>2. UNCHANGED <<manifests, rows, chunks, reqs, svk, inits>>
  BY DEF StartUpload, StartDownload
<1>3. /\ workers' \in [Workers -> WorkerType] /\ \A v \in Workers \ {w} : workers'[v] = workers[v]
      /\ WorkerOK(w, k2, manifests[w], inits[w], chunks[w])
      /\ k.stage # "Err"
  <2>1. CASE StartUpload(w)
    <3>1. PICK n \in 1 .. MAX_CHUNKS : workers' =
            [workers EXCEPT ![w] = [k EXCEPT !.stage = "initiate", !.size = n, !.wrap = svk[Account[w]]]]
      BY <2>1 DEF StartUpload
    <3>2. k2 = [k EXCEPT !.stage = "initiate", !.size = n, !.wrap = svk[Account[w]]]
      BY <1>1, <3>1
    <3>3. /\ k2 \in WorkerType /\ k2.stage = "initiate" /\ k2.size = n /\ k2.i = k.i
          /\ k2.got = k.got /\ k2.file = k.file /\ k.stage = "idle" /\ k2.waits = k.waits
      <4>1. n \in 0 .. MAX_CHUNKS
        BY Absent
      <4> HIDE DEF k2
      <4>2. k.stage = "idle"
        BY <2>1 DEF StartUpload
      <4> QED BY <1>0, <1>1, <3>2, <4>1, <4>2 DEF WorkerType, Stages
    <3> HIDE DEF k, k2
    <3>4. WorkerOK(w, k2, manifests[w], inits[w], chunks[w])
      BY <1>1, <3>3 DEF WorkerOK
    <3>5. workers' = [workers EXCEPT ![w] = k2]
      BY <3>1, <3>2
    <3> QED BY <1>1, <3>3, <3>4, <3>5
  <2>2. CASE StartDownload(w)
    <3> DEFINE st == IF resolve_fek(w) THEN "fetch" ELSE "Locked"
    <3>1. workers' = [workers EXCEPT ![w] = [k EXCEPT !.stage = st]] /\ st \in {"fetch", "Locked"}
      BY <2>2 DEF StartDownload
    <3> HIDE DEF st
    <3>2. k2 = [k EXCEPT !.stage = st]
      BY <1>1, <3>1
    <3>3. /\ k2 \in WorkerType /\ k2.stage = st /\ k2.size = k.size /\ k2.i = k.i
          /\ k2.got = k.got /\ k2.file = k.file /\ k.stage = "Ok"
      BY <1>1, <2>2, <3>1, <3>2 DEF WorkerType, Stages, StartDownload
    <3> HIDE DEF k, k2
    <3>4. k.i = 0 /\ Len(k2.got) = k2.i /\ Mine(w, k2, manifests[w])
      BY <1>1, <3>3 DEF WorkerOK, Mine
    <3>5. WorkerOK(w, k2, manifests[w], inits[w], chunks[w])
      BY <1>1, <3>1, <3>3, <3>4 DEF WorkerOK
    <3>6. workers' = [workers EXCEPT ![w] = k2]
      BY <3>1, <3>2
    <3> QED BY <1>1, <3>3, <3>5, <3>6
  <2> QED BY <2>1, <2>2
<1>4. Typed' /\ WorkInv'
  BY <1>2, <1>3 DEF FileInv, Typed, TablesTyped, WorkInv
<1>5. \A t \in Slots : reqs[t] # None => reqs[t].for # w
  <2> SUFFICES ASSUME NEW t \in Slots, reqs[t] # None, reqs[t].for = w PROVE FALSE
    OBVIOUS
  <2>1. workers[w].stage = reqs[t].op /\ reqs[t].op \in Ops
    BY Absent DEF FileInv, CallInv, CallOK, Typed, RequestType
  <2> QED BY <1>1, <2>1 DEF Ops
<1>6. CallInv'
  <2> SUFFICES ASSUME NEW t \in Slots, reqs[t] # None, reqs[t].for # None
               PROVE  CallOK(reqs[t], workers'[reqs[t].for], manifests[reqs[t].for])
    BY <1>2 DEF CallInv
  <2>1. reqs[t].for \in Workers \ {w}
    BY <1>5 DEF FileInv, Typed, RequestType
  <2> QED BY <1>3, <2>1 DEF FileInv, CallInv
<1>7. KnownInv'
  <2> SUFFICES ASSUME NEW t \in Slots, reqs[t] # None, reqs[t].file \in Workers,
                      reqs[t].user = Account[reqs[t].file]
               PROVE  /\ reqs[t].sealed = reqs[t].file
                      /\ reqs[t].for = reqs[t].file \/ workers'[reqs[t].file].stage = "Err"
    BY <1>2 DEF KnownInv
  <2>1. /\ reqs[t].sealed = reqs[t].file
        /\ reqs[t].for = reqs[t].file \/ workers[reqs[t].file].stage = "Err"
    BY DEF FileInv, KnownInv
  <2> QED BY <1>3, <2>1
<1>8. OneCall' /\ TableInv' /\ ReqInv' /\ SoleInv'
  BY <1>2 DEF FileInv, OneCall, TableInv, ReqInv, SoleInv
<1> QED BY <1>4, <1>6, <1>7, <1>8 DEF FileInv

(* A rotation of the vault key touches no file.                            *)
LEMMA RotateStep ==
    ASSUME FileInv, NEW w \in Workers, Rotate(w)
    PROVE  FileInv'
<1>1. UNCHANGED <<manifests, rows, chunks, reqs, workers, inits>>
  BY DEF Rotate
<1>2. svk' \in [Users -> {1, 2}]
  BY Absent DEF Rotate, FileInv, Typed, TablesTyped
<1>3. Typed'
  BY <1>1, <1>2 DEF FileInv, Typed, TablesTyped
<1>4. TableInv' /\ ReqInv' /\ SoleInv' /\ WorkInv' /\ CallInv' /\ KnownInv' /\ OneCall'
  BY <1>1 DEF FileInv, TableInv, ReqInv, SoleInv, WorkInv, CallInv, KnownInv, OneCall
<1> QED BY <1>3, <1>4 DEF FileInv

(* What other parts of the server do leaves files and transfers alone.     *)
LEMMA FilesAlone ==
    ASSUME FileInv, UNCHANGED fileVars
    PROVE  FileInv'
<1>1. UNCHANGED <<manifests, rows, chunks, reqs, workers, svk, inits>>
  BY DEF fileVars
<1>2. Typed'
  BY <1>1 DEF FileInv, Typed, TablesTyped
<1>3. TableInv' /\ ReqInv' /\ SoleInv' /\ WorkInv' /\ CallInv' /\ KnownInv' /\ OneCall'
  BY <1>1 DEF FileInv, TableInv, ReqInv, SoleInv, WorkInv, CallInv, KnownInv, OneCall
<1> QED BY <1>2, <1>3 DEF FileInv

(* The process ends: workers that wait get an error.                       *)
LEMMA CrashStep ==
    ASSUME FileInv, Crash
    PROVE  FileInv'
<1>1. /\ reqs' = [s \in Slots |-> None]
      /\ workers' = [w \in Workers |-> IF workers[w].waits THEN After(workers[w], FALSE, None)
                                       ELSE workers[w]]
      /\ UNCHANGED <<manifests, rows, chunks, svk, inits>>
  BY DEF Crash
<1>2. ASSUME NEW w \in Workers
      PROVE  /\ workers'[w] \in WorkerType
             /\ WorkerOK(w, workers'[w], manifests[w], inits[w], chunks[w])
  <2> DEFINE k == workers[w]
  <2>1. k \in WorkerType /\ WorkerOK(w, k, manifests[w], inits[w], chunks[w])
    BY DEF FileInv, Typed, WorkInv
  <2>2. CASE k.waits
    <3>1. workers'[w] = After(k, FALSE, None)
      BY <1>1, <2>2
    <3> HIDE DEF k
    <3>2. workers'[w] = [k EXCEPT !.stage = "Err", !.waits = FALSE]
      BY <3>1 DEF After
    <3>3. workers'[w] \in WorkerType /\ workers'[w].stage = "Err" /\ workers'[w].file = k.file
      BY <2>1, <3>2 DEF WorkerType, Stages
    <3> QED BY <2>1, <3>3 DEF WorkerOK
  <2>3. CASE ~k.waits
    BY <1>1, <2>1, <2>3
  <2> QED BY <2>2, <2>3
<1>3. DOMAIN workers' = Workers /\ workers' = [w \in Workers |-> workers'[w]]
  BY <1>1
<1>4. workers' \in [Workers -> WorkerType]
  BY <1>2, <1>3
<1>5. Typed'
  BY <1>1, <1>4 DEF FileInv, Typed, TablesTyped
<1>6. TableInv' /\ WorkInv'
  BY <1>1, <1>2 DEF FileInv, TableInv, WorkInv
<1>7. ReqInv' /\ SoleInv' /\ CallInv' /\ KnownInv' /\ OneCall'
  BY <1>1 DEF ReqInv, SoleInv, CallInv, KnownInv, OneCall
<1> QED BY <1>5, <1>6, <1>7 DEF FileInv

(* Every step keeps the invariant of files.                                *)
LEMMA FileStep ==
    ASSUME FileInv, [Next]_vars
    PROVE  FileInv'
<1>1. ASSUME NEW s \in Slots, Serve(s) PROVE FileInv'
  <2>1. CASE InitiateQuota(s) \/ InitiateExists(s) \/ CheckOwner(s)
    BY <2>1, InitiateChecks
  <2>2. CASE InsertManifest(s)
    BY <2>2, InitiateChecks, InsertManifestStep
  <2>3. CASE ResetManifest(s) \/ RearmChunks(s) \/ InsertRow(s)
    BY <2>3, ResetManifestStep, RearmStep, InsertRowStep
  <2>4. CASE ChunkOwner(s) \/ FetchStart(s)
    BY <2>4, ChunkChecks
  <2>5. CASE StoreChunk(s) \/ MarkUploaded(s)
    BY <2>5, StoreStep, MarkStep
  <2>6. CASE CompleteStart(s) \/ CompleteGate(s) \/ CompleteReread(s)
    BY <2>6, CompleteChecks
  <2>7. CASE CompleteFlip(s) \/ FetchChunk(s)
    BY <2>7, FlipStep, FetchStep
  <2> QED BY <1>1, <2>1, <2>2, <2>3, <2>4, <2>5, <2>6, <2>7 DEF Serve
<1>2. ASSUME NEW w \in Workers, StartUpload(w) \/ StartDownload(w) \/ WorkerSend(w) \/ Rotate(w)
      PROVE  FileInv'
  BY <1>2, StartStep, SendStep, RotateStep
<1>3. ASSUME FileNext PROVE FileInv'
  BY <1>1, <1>2, <1>3, FailStep, LoseStep, OtherStep DEF FileNext
<1>4. CASE Upload
  BY <1>3, <1>4 DEF Upload
<1>5. CASE Crash
  BY <1>5, CrashStep
<1>6. CASE Backup \/ WriteItem \/ UNCHANGED vars
  BY <1>6, FilesAlone DEF Backup, WriteItem, vars
<1> QED BY <1>4, <1>5, <1>6 DEF Next

(* A file initiated once is whole when it is available.                    *)
LEMMA FilesWhole ==
    ASSUME FileInv
    PROVE  OnceComplete
<1> SUFFICES ASSUME NEW f \in Files, inits[f] <= 1, manifests[f] # None,
                    manifests[f].status = "Available", NEW i \in 0 .. manifests[f].total - 1
             PROVE  rows[f][i] = "uploaded" /\ chunks[f][i] # None
  BY DEF OnceComplete, Complete
<1>1. /\ manifests[f] \in Manifest /\ FileOK(manifests[f], inits[f], rows[f], chunks[f])
  BY DEF FileInv, Typed, TablesTyped, TableInv
<1>2. manifests[f].total \in 1 .. MAX_CHUNKS
  BY <1>1 DEF Manifest
<1>3. i \in Index
  BY <1>2, Absent DEF Index
<1> QED BY <1>1, <1>3 DEF FileOK

-----------------------------------------------------------------------------
(* Backups                                                                 *)

(* A job knows what it knew when a key is made where there was none and    *)
(* archives are added.                                                     *)
LEMMA JobKept ==
    ASSUME NEW r, NEW ky, NEW ky2, NEW archives, NEW archives2, JobOK(r, ky, archives),
           ky # None => ky2 = ky, archives \subseteq archives2
    PROVE  JobOK(r, ky2, archives2)
  BY DEF JobOK

(* A step of job j, which becomes x.                                       *)
LEMMA JobStep ==
    ASSUME BackupInv, NEW j \in Jobs, NEW x, jobs' = [jobs EXCEPT ![j] = x],
           key # None => key' = key, key' \in Keys \cup {None},
           disk \subseteq disk', disk' # {} => key' # None,
           JobOK(x, key', disk'), ArchivesOpen', BackupsWhole'
    PROVE  BackupInv'
<1>1. jobs = [i \in Jobs |-> jobs[i]] /\ DOMAIN jobs = Jobs
  BY DEF BackupInv
<1>2. jobs'[j] = x /\ \A i \in Jobs \ {j} : jobs'[i] = jobs[i]
  BY <1>1
<1>3. jobs' = [i \in Jobs |-> jobs'[i]]
  BY <1>1
<1>4. \A i \in Jobs : JobOK(jobs'[i], key', disk')
  BY <1>2, JobKept DEF BackupInv
<1> QED BY <1>3, <1>4 DEF BackupInv

(* The same where neither the key nor archives nor runs change.            *)
LEMMA PlainStep ==
    ASSUME BackupInv, NEW j \in Jobs, NEW x, jobs' = [jobs EXCEPT ![j] = x],
           UNCHANGED <<key, disk, runs>>, JobOK(x, key, disk)
    PROVE  BackupInv'
<1>1. ArchivesOpen' /\ BackupsWhole'
  BY DEF BackupInv, ArchivesOpen, B!ArchivesOpen, B!Opens, BackupsWhole
<1>2. key' = key /\ disk' = disk /\ JobOK(x, key', disk') /\ key \in Keys \cup {None}
      /\ (disk # {} => key # None)
  BY DEF BackupInv
<1> QED BY <1>1, <1>2, JobStep

(* What is live is whole.                                                  *)
LEMMA LiveWhole ==
    ASSUME FileInv
    PROVE  Whole(db)
<1>1. \A f \in Files : /\ db.files[f].man = manifests[f] /\ db.files[f].row = rows[f]
                       /\ db.files[f].bytes = chunks[f] /\ db.files[f].inits = inits[f]
  BY DEF db
<1>2. OnceComplete
  BY FilesWhole
<1> QED BY <1>1, <1>2 DEF Whole, OnceComplete

(* A request that begins or ends.                                          *)
LEMMA EdgeStep ==
    ASSUME BackupInv, NEW j \in Jobs,
           \/ B!JobFails(j) \/ B!RecordState(j) \/ B!RecordTest(j)
           \/ \E op \in {"export", "restore"} : \E a : B!Start(j, op, a)
    PROVE  BackupInv'
<1>1. JobOK(B!Idle, key, disk)
  BY DEF JobOK, B!Idle
<1>2. CASE B!JobFails(j) \/ B!RecordState(j) \/ B!RecordTest(j)
  <2>1. jobs' = [jobs EXCEPT ![j] = B!Idle] /\ UNCHANGED <<key, disk, runs>>
    BY <1>2 DEF B!JobFails, B!RecordState, B!RecordTest, B!End
  <2> QED BY <1>1, <2>1, PlainStep
<1>3. ASSUME NEW op \in {"export", "restore"}, NEW a, B!Start(j, op, a) PROVE BackupInv'
  <2> DEFINE x == [op |-> op, pc |-> "key", id |-> count + 1, key |-> None, archive |-> a,
                   snap |-> db, entries |-> 0, at |-> 0]
  <2>1. jobs' = [jobs EXCEPT ![j] = x] /\ UNCHANGED <<key, disk, runs>>
    BY <1>3 DEF B!Start
  <2>2. JobOK(x, key, disk)
    BY DEF JobOK, IsJob, JobFields
  <2> HIDE DEF x
  <2> QED BY <2>1, <2>2, PlainStep
<1> QED BY <1>2, <1>3

(* get_or_create_backup_key: the row is written once, and whoever goes on  *)
(* has what is in it.                                                      *)
LEMMA KeyStep ==
    ASSUME BackupInv, NEW j \in Jobs, B!GetKey(j) \/ B!InsertKey(j)
    PROVE  BackupInv'
<1> DEFINE r == jobs[j]
           next == IF r.op = "export" THEN "snapshot" ELSE "decrypt"
<1>0. r.op # "none"
  BY DEF B!GetKey, B!InsertKey
<1>1. /\ r.op # "none" /\ r # B!Idle /\ JobOK(r, key, disk)
      /\ key \in Keys \cup {None} /\ None \notin Keys
  <2>1. r # B!Idle
    BY <1>0 DEF B!Idle
  <2>2. JobOK(r, key, disk) /\ key \in Keys \cup {None}
    BY DEF BackupInv
  <2> QED BY <1>0, <2>1, <2>2, KeysAssumption DEF KeysAssumption
<1>2. IsJob(r)
  BY <1>1 DEF JobOK
<1>3. \/ /\ key # None /\ jobs' = [jobs EXCEPT ![j] = [r EXCEPT !.key = key, !.pc = next]]
         /\ UNCHANGED <<key, disk, runs>>
      \/ \E k \in Keys : /\ jobs' = [jobs EXCEPT ![j] = [r EXCEPT !.key = k, !.pc = "insert"]]
                         /\ UNCHANGED <<key, disk, runs>>
      \/ /\ key = None /\ r.pc = "insert" /\ key' = r.key
         /\ jobs' = [jobs EXCEPT ![j] = [r EXCEPT !.pc = next]] /\ UNCHANGED <<disk, runs>>
      \/ jobs' = [jobs EXCEPT ![j] = B!Idle] /\ UNCHANGED <<key, disk, runs>>
  BY DEF B!GetKey, B!InsertKey, B!After, B!Goto, B!End
<1>4. next \in {"snapshot", "decrypt"} /\ (r.op = "export" => next = "snapshot")
  OBVIOUS
<1> HIDE DEF r, next
<1>5. ASSUME key # None, jobs' = [jobs EXCEPT ![j] = [r EXCEPT !.key = key, !.pc = next]],
             UNCHANGED <<key, disk, runs>>
      PROVE  BackupInv'
  <2> DEFINE x == [r EXCEPT !.key = key, !.pc = next]
  <2>1. IsJob(x) /\ x.op = r.op /\ x.pc = next /\ x.key = key
    BY <1>2 DEF IsJob, JobFields
  <2>2. JobOK(x, key, disk)
    BY <1>4, <1>5, <2>1 DEF JobOK
  <2> HIDE DEF x
  <2> QED BY <1>5, <2>2, PlainStep DEF x
<1>6. ASSUME NEW k \in Keys, jobs' = [jobs EXCEPT ![j] = [r EXCEPT !.key = k, !.pc = "insert"]],
             UNCHANGED <<key, disk, runs>>
      PROVE  BackupInv'
  <2> DEFINE x == [r EXCEPT !.key = k, !.pc = "insert"]
  <2>1. IsJob(x) /\ x.op = r.op /\ x.pc = "insert" /\ x.key = k
    BY <1>2 DEF IsJob, JobFields
  <2>2. JobOK(x, key, disk)
    BY <1>6, <2>1 DEF JobOK
  <2> HIDE DEF x
  <2> QED BY <1>6, <2>2, PlainStep DEF x
<1>7. ASSUME key = None, r.pc = "insert", key' = r.key,
             jobs' = [jobs EXCEPT ![j] = [r EXCEPT !.pc = next]], UNCHANGED <<disk, runs>>
      PROVE  BackupInv'
  <2> DEFINE x == [r EXCEPT !.pc = next]
  <2>1. IsJob(x) /\ x.op = r.op /\ x.pc = next /\ x.key = r.key
    BY <1>2 DEF IsJob, JobFields
  <2>2. r.key \in Keys /\ key' # None
    BY <1>1, <1>7 DEF JobOK
  <2>3. JobOK(x, key', disk')
    BY <1>4, <1>7, <2>1, <2>2 DEF JobOK
  <2>4. disk = {} /\ ArchivesOpen /\ BackupsWhole
    BY <1>7 DEF BackupInv
  <2>5. runs = {}
    BY <2>4 DEF ArchivesOpen, B!ArchivesOpen
  <2>6. ArchivesOpen' /\ BackupsWhole'
    BY <1>7, <2>4, <2>5 DEF ArchivesOpen, B!ArchivesOpen, BackupsWhole
  <2> HIDE DEF x
  <2> QED BY <1>7, <2>2, <2>3, <2>6, JobStep DEF x
<1>8. CASE jobs' = [jobs EXCEPT ![j] = B!Idle] /\ UNCHANGED <<key, disk, runs>>
  <2>1. JobOK(B!Idle, key, disk)
    BY DEF JobOK, B!Idle
  <2> QED BY <1>8, <2>1, PlainStep
<1> QED BY <1>3, <1>5, <1>6, <1>7, <1>8

(* The job of a statement that was reached is one, and an export past its  *)
(* first two statements has the key of the row.                            *)
LEMMA AtJob ==
    ASSUME BackupInv, NEW j \in Jobs, NEW op \in {"export", "restore"}, NEW pc, B!At(j, op, pc)
    PROVE  /\ jobs[j].op = op /\ jobs[j].pc = pc /\ IsJob(jobs[j])
           /\ JobOK(jobs[j], key, disk)
<1>1. jobs[j].op = op /\ jobs[j].pc = pc /\ JobOK(jobs[j], key, disk)
  BY DEF B!At, BackupInv
<1>2. jobs[j] # B!Idle
  BY <1>1 DEF B!Idle
<1> QED BY <1>1, <1>2 DEF JobOK

(* create_snapshot and the count: the snapshot is the database of a moment.*)
LEMMA SnapshotStep ==
    ASSUME BackupInv, FileInv, NEW j \in Jobs,
           B!Vacuum(j) \/ B!ReadSnapshot(j) \/ B!CountEntries(j)
    PROVE  BackupInv'
<1> DEFINE r == jobs[j]
<1>1. CASE B!Vacuum(j)
  <2> DEFINE x == [r EXCEPT !.snap = db, !.pc = "read"]
  <2>1. /\ r.op = "export" /\ r.pc = "snapshot" /\ IsJob(r) /\ JobOK(r, key, disk)
    BY <1>1, AtJob DEF B!Vacuum
  <2>2. jobs' = [jobs EXCEPT ![j] = x] /\ UNCHANGED <<key, disk, runs>>
    BY <1>1 DEF B!Vacuum
  <2> HIDE DEF r
  <2>3. IsJob(x) /\ x.op = r.op /\ x.pc = "read" /\ x.key = r.key /\ x.snap = db
    BY <2>1 DEF IsJob, JobFields
  <2>4. Whole(db)
    BY LiveWhole
  <2> HIDE DEF x
  <2>5. JobOK(x, key, disk)
    BY <2>1, <2>3, <2>4 DEF JobOK
  <2> QED BY <2>2, <2>5, PlainStep
<1>2. CASE B!ReadSnapshot(j)
  <2> DEFINE x == [r EXCEPT !.pc = "count"]
  <2>1. /\ r.op = "export" /\ r.pc = "read" /\ IsJob(r) /\ JobOK(r, key, disk)
    BY <1>2, AtJob DEF B!ReadSnapshot
  <2>2. jobs' = [jobs EXCEPT ![j] = x] /\ UNCHANGED <<key, disk, runs>>
    BY <1>2 DEF B!ReadSnapshot, B!Goto
  <2> HIDE DEF r
  <2>3. IsJob(x) /\ x.op = r.op /\ x.pc = "count" /\ x.key = r.key /\ x.snap = r.snap
    BY <2>1 DEF IsJob, JobFields
  <2> HIDE DEF x
  <2>4. JobOK(x, key, disk)
    BY <2>1, <2>3 DEF JobOK
  <2> QED BY <2>2, <2>4, PlainStep
<1>3. CASE B!CountEntries(j)
  <2> DEFINE x == [r EXCEPT !.entries = db.items, !.pc = "write", !.at = count]
  <2>1. /\ r.op = "export" /\ r.pc = "count" /\ IsJob(r) /\ JobOK(r, key, disk)
    BY <1>3, AtJob DEF B!CountEntries
  <2>2. jobs' = [jobs EXCEPT ![j] = x] /\ UNCHANGED <<key, disk, runs>>
    BY <1>3 DEF B!CountEntries
  <2> HIDE DEF r
  <2>3. IsJob(x) /\ x.op = r.op /\ x.pc = "write" /\ x.key = r.key /\ x.snap = r.snap
    BY <2>1 DEF IsJob, JobFields
  <2> HIDE DEF x
  <2>4. JobOK(x, key, disk)
    BY <2>1, <2>3 DEF JobOK
  <2> QED BY <2>2, <2>4, PlainStep
<1> QED BY <1>1, <1>2, <1>3

(* The archive is written, sealed under the key of the row.                *)
LEMMA ArchiveStep ==
    ASSUME BackupInv, NEW j \in Jobs, B!WriteArchive(j)
    PROVE  BackupInv'
<1> DEFINE r == jobs[j]
           x == [r EXCEPT !.pc = "record"]
           body == [key |-> r.key, snap |-> r.snap, entries |-> r.entries, intact |-> TRUE]
           d == [id |-> r.id, body |-> body]
<1>1. /\ r.op = "export" /\ r.pc = "write" /\ IsJob(r) /\ JobOK(r, key, disk)
  BY AtJob DEF B!WriteArchive
<1>2. /\ jobs' = [jobs EXCEPT ![j] = x] /\ UNCHANGED <<key, runs>>
      /\ disk' = disk \cup {d}
  BY DEF B!WriteArchive, B!Goto, B!Archive
<1> HIDE DEF r
<1>3. IsJob(x) /\ x.op = r.op /\ x.pc = "record" /\ x.key = r.key /\ x.id = r.id
  BY <1>1 DEF IsJob, JobFields
<1>4. key # None /\ r.key = key /\ Whole(r.snap)
  BY <1>1 DEF JobOK
<1>5. d.id = r.id /\ d.body.snap = r.snap /\ d.body.intact /\ d.body.key = key
  BY <1>4
<1> HIDE DEF x, d, body
<1>6. d \in disk' /\ B!Opens(d.body, key)
  BY <1>2, <1>5 DEF B!Opens
<1>7. JobOK(x, key, disk')
  BY <1>1, <1>3, <1>4, <1>5, <1>6 DEF JobOK
<1>8. ArchivesOpen'
  BY <1>2 DEF BackupInv, ArchivesOpen, B!ArchivesOpen, B!Opens
<1>9. BackupsWhole'
  <2> SUFFICES ASSUME NEW e \in disk' PROVE Whole(e.body.snap)
    BY DEF BackupsWhole, Whole
  <2>1. CASE e \in disk
    BY <2>1 DEF BackupInv, BackupsWhole, Whole
  <2>2. CASE e = d
    BY <1>4, <1>5, <2>2
  <2> QED BY <1>2, <2>1, <2>2
<1>10. key \in Keys \cup {None}
  BY DEF BackupInv
<1> QED BY <1>2, <1>4, <1>7, <1>8, <1>9, <1>10, JobStep

(* record_backup_run: the archive of the run is on disk.                   *)
LEMMA RecordStep ==
    ASSUME BackupInv, NEW j \in Jobs, B!RecordRun(j)
    PROVE  BackupInv'
<1> DEFINE r == jobs[j]
           x == [r EXCEPT !.pc = "state"]
           run == [id |-> r.id, at |-> r.at]
<1>1. /\ r.op = "export" /\ r.pc = "record" /\ IsJob(r) /\ JobOK(r, key, disk)
  BY AtJob DEF B!RecordRun
<1>2. /\ jobs' = [jobs EXCEPT ![j] = x] /\ UNCHANGED <<key, disk>>
      /\ runs' = runs \cup {run}
  BY DEF B!RecordRun, B!Goto
<1> HIDE DEF r
<1>3. IsJob(x) /\ x.op = r.op /\ x.pc = "state" /\ x.key = r.key /\ run.id = r.id
  BY <1>1 DEF IsJob, JobFields
<1> HIDE DEF x, run
<1>4. key # None /\ r.key = key /\ \E d \in disk : d.id = r.id /\ B!Opens(d.body, key)
  BY <1>1 DEF JobOK
<1>5. JobOK(x, key, disk)
  BY <1>1, <1>3, <1>4 DEF JobOK
<1>6. ArchivesOpen'
  BY <1>2, <1>3, <1>4 DEF BackupInv, ArchivesOpen, B!ArchivesOpen, B!Opens
<1>7. BackupsWhole' /\ key \in Keys \cup {None}
  BY <1>2 DEF BackupInv, BackupsWhole
<1> QED BY <1>2, <1>4, <1>5, <1>6, <1>7, JobStep

(* A restore test changes nothing but its own job and scratch files.       *)
LEMMA RestoreStep ==
    ASSUME BackupInv, NEW j \in Jobs, B!Decrypt(j) \/ B!WriteScratch(j) \/ B!Validate(j)
    PROVE  BackupInv'
<1> DEFINE r == jobs[j]
<1>1. r.op = "restore" /\ IsJob(r)
  BY AtJob DEF B!Decrypt, B!WriteScratch, B!Validate
<1>2. ASSUME NEW x, jobs' = [jobs EXCEPT ![j] = x], IsJob(x), x.op = "restore", x.pc # "insert"
      PROVE  BackupInv'
  <2>1. JobOK(x, key, disk)
    BY <1>2 DEF JobOK
  <2>2. UNCHANGED <<key, disk, runs>>
    BY DEF B!Decrypt, B!WriteScratch, B!Validate
  <2> QED BY <1>2, <2>1, <2>2, PlainStep
<1>3. ASSUME NEW p, p # "insert", jobs' = [jobs EXCEPT ![j] = [r EXCEPT !.pc = p]] PROVE BackupInv'
  <2> DEFINE x == [r EXCEPT !.pc = p]
  <2>1. jobs' = [jobs EXCEPT ![j] = x]
    BY <1>3
  <2> HIDE DEF r
  <2>2. IsJob(x) /\ x.op = "restore" /\ x.pc = p
    BY <1>1 DEF IsJob, JobFields
  <2> HIDE DEF x
  <2> QED BY <1>2, <1>3, <2>1, <2>2
<1>4. ASSUME NEW n, jobs' = [jobs EXCEPT ![j] = [r EXCEPT !.pc = "result", !.entries = n]]
      PROVE  BackupInv'
  <2> DEFINE x == [r EXCEPT !.pc = "result", !.entries = n]
  <2>1. jobs' = [jobs EXCEPT ![j] = x]
    BY <1>4
  <2> HIDE DEF r
  <2>2. IsJob(x) /\ x.op = "restore" /\ x.pc = "result"
    BY <1>1 DEF IsJob, JobFields
  <2> HIDE DEF x
  <2> QED BY <1>2, <2>1, <2>2
<1>5. \/ jobs' = [jobs EXCEPT ![j] = [r EXCEPT !.pc = "scratch"]]
      \/ jobs' = [jobs EXCEPT ![j] = [r EXCEPT !.pc = "validate"]]
      \/ jobs' = [jobs EXCEPT ![j] = [r EXCEPT !.pc = "result", !.entries = -1]]
      \/ jobs' = [jobs EXCEPT ![j] = [r EXCEPT !.pc = "result", !.entries = r.archive.snap.items]]
  BY DEF B!Decrypt, B!WriteScratch, B!Validate, B!Goto
<1> HIDE DEF r
<1> QED BY <1>3, <1>4, <1>5

(* Every step keeps the invariant of backups.                              *)
LEMMA BackupsStep ==
    ASSUME FileInv, BackupInv, [Next]_vars
    PROVE  BackupInv'
<1>1. CASE Backup
  <2>1. ASSUME NEW j \in Jobs, B!BackupStep(j) PROVE BackupInv'
    BY <2>1, KeyStep, SnapshotStep, ArchiveStep, RecordStep, RestoreStep, EdgeStep
    DEF B!BackupStep
  <2>2. ASSUME NEW j \in Jobs, B!JobFails(j) PROVE BackupInv'
    BY <2>2, EdgeStep
  <2>3. ASSUME NEW j \in Jobs, B!Start(j, "export", None) PROVE BackupInv'
    BY <2>3, EdgeStep
  <2>4. ASSUME NEW j \in Jobs, NEW a, B!Start(j, "restore", a) PROVE BackupInv'
    BY <2>4, EdgeStep
  <2> QED BY <1>1, <2>1, <2>2, <2>3, <2>4 DEF Backup
<1>2. CASE Crash
  <2>1. /\ jobs' = [j \in Jobs |-> B!Idle] /\ UNCHANGED <<key, disk, runs>>
    BY <1>2 DEF Crash, B!Restart
  <2>2. JobOK(B!Idle, key, disk)
    BY DEF JobOK, B!Idle
  <2> QED BY <2>1, <2>2 DEF BackupInv, ArchivesOpen, B!ArchivesOpen, B!Opens, BackupsWhole
<1>3. CASE Upload \/ WriteItem \/ UNCHANGED vars
  <2>1. UNCHANGED <<key, disk, runs, jobs>>
    BY <1>3 DEF Upload, WriteItem, vars, backups
  <2> QED BY <2>1 DEF BackupInv, ArchivesOpen, B!ArchivesOpen, B!Opens, BackupsWhole
<1> QED BY <1>1, <1>2, <1>3 DEF Next

(* What a worker that was told its upload is in can count on.              *)
LEMMA ReadBack ==
    ASSUME FileInv
    PROVE  RoundTrip
<1> SUFFICES ASSUME NEW w \in Workers
             PROVE  /\ workers[w].stage = "Ok" =>
                         /\ manifests[w] = [owner |-> Account[w], total |-> workers[w].size,
                                            status |-> "Available"]
                         /\ Complete(w, manifests[w], rows[w], chunks[w])
                    /\ workers[w].stage # "Corrupt"
  BY DEF RoundTrip
<1>1. WorkerOK(w, workers[w], manifests[w], inits[w], chunks[w]) /\ w \in Files
  BY Absent DEF FileInv, WorkInv
<1>2. manifests[w] \in Manifest \cup {None}
  BY <1>1 DEF FileInv, Typed, TablesTyped
<1>3. ASSUME workers[w].stage = "Ok"
      PROVE  /\ manifests[w] = [owner |-> Account[w], total |-> workers[w].size,
                                status |-> "Available"]
             /\ inits[w] = 1
  <2>1. /\ Mine(w, workers[w], manifests[w]) /\ inits[w] = 1
        /\ manifests[w].status = "Available"
    BY <1>1, <1>3 DEF WorkerOK, Mine
  <2>2. manifests[w] \in Manifest
    BY <1>2, <2>1 DEF Mine, Own
  <2> QED BY <2>1, <2>2 DEF Mine, Own, Manifest
<1>4. workers[w].stage = "Ok" => Complete(w, manifests[w], rows[w], chunks[w])
  BY <1>1, <1>3, FilesWhole DEF OnceComplete
<1>5. workers[w].stage # "Corrupt"
  BY <1>1 DEF WorkerOK
<1> QED BY <1>3, <1>4, <1>5

-----------------------------------------------------------------------------
(* Theorems                                                                *)

(* The inductive invariant of the database with its attachments and its    *)
(* backups: what the tables hold of a file, what each request knows at the *)
(* statement it has reached, what a worker knows of its file, and the key  *)
(* and the snapshot an export holds (handlers/files.rs, file_transfer.rs,  *)
(* handlers/backup.rs), kept by every statement, failure and crash.        *)
THEOREM StorageInvariant == Spec => []StorageInv
<1>1. Init => StorageInv
  <2> SUFFICES ASSUME Init PROVE StorageInv
    OBVIOUS
  <2>1. FileInv
    BY FileInvInit DEF Init
  <2>2. key = None /\ runs = {} /\ disk = {} /\ jobs = [j \in Jobs |-> B!Idle]
    BY DEF Init, B!BackupInit
  <2>3. JobOK(B!Idle, key, disk)
    BY DEF JobOK, B!Idle
  <2>4. BackupInv
    BY <2>2, <2>3 DEF BackupInv, ArchivesOpen, B!ArchivesOpen, BackupsWhole
  <2> QED BY <2>1, <2>4 DEF StorageInv
<1>2. StorageInv /\ [Next]_vars => StorageInv'
  BY FileStep, BackupsStep DEF StorageInv
<1> QED BY <1>1, <1>2, PTL DEF Spec

(* A file that was initiated once is available only when every chunk of it *)
(* is stored and marked (complete in handlers/files.rs counts before it    *)
(* flips the status), whatever statements of other requests fall between   *)
(* and whatever fails.                                                     *)
THEOREM WholeWhenAvailable == Spec => []OnceComplete
<1>1. StorageInv => OnceComplete
  BY FilesWhole DEF StorageInv
<1> QED BY <1>1, StorageInvariant, PTL

(* An upload that returned Ok (upload_bytes in file_transfer.rs) left the  *)
(* manifest it declared and every chunk, and no download of it ever fails  *)
(* to decrypt.                                                             *)
THEOREM RoundTripAlways == Spec => []RoundTrip
<1>1. StorageInv => RoundTrip
  BY ReadBack DEF StorageInv
<1> QED BY <1>1, StorageInvariant, PTL

(* Every run record_backup_run wrote has an archive on disk that opens     *)
(* under the key of the backup_key row, however two first exports race in  *)
(* get_or_create_backup_key.                                               *)
THEOREM BackupsAlwaysOpen == Spec => []ArchivesOpen
<1>1. StorageInv => ArchivesOpen
  BY DEF StorageInv, BackupInv
<1> QED BY <1>1, StorageInvariant, PTL

(* What an archive brings back holds no available file with a chunk        *)
(* missing: create_snapshot copies the database of one moment, which falls *)
(* between any two statements of an upload.                                *)
THEOREM BackupsAlwaysWhole == Spec => []BackupsWhole
<1>1. StorageInv => BackupsWhole
  BY DEF StorageInv, BackupInv
<1> QED BY <1>1, StorageInvariant, PTL
=============================================================================
