---------------------------- MODULE FileTransfer ----------------------------
(***************************************************************************)
(* Attachments: the client's FileTransferWorker (vautr-app-state), the       *)
(* server's multipart gateway (handlers/files.rs) and its three tables       *)
(* (repository/files.rs): manifests, per-chunk rows, chunk bytes.            *)
(*                                                                         *)
(* A handler is a list of SQL statements without a transaction: each is a     *)
(* step, and any of them may fail and leave what went before.  A worker       *)
(* uploads one file under a uuid of its own and then reads it back; besides   *)
(* the workers, any client of the API may send any request, but only the      *)
(* worker of a file knows its uuid, among the sessions of its user.           *)
(* Sizes are counted in chunks; bytes by the file and part they are.          *)
(***************************************************************************)
EXTENDS Integers, Sequences, FiniteSets, FiniteSetsExt

CONSTANTS Users, Workers, SharedFiles,
          Account,      \* [Workers -> Users]: whose vault the worker serves
          Slots,        \* bound: requests the server handles at a time
          MAX_CHUNKS, Quota,
          None

Files == Workers \cup SharedFiles   \* a worker's file is named after it

\* A file has at least one chunk; a size within the cap may exceed the quota.
ASSUME SizesAssumption == MAX_CHUNKS \in Nat \ {0} /\ Quota \in Nat
ASSUME NamesAssumption == Workers \cap SharedFiles = {} /\ Account \in [Workers -> Users] /\ None \notin Users \cup Files

VARIABLES manifests,  \* file_manifests
          rows,       \* file_chunks: the status of each chunk
          chunks,     \* chunks: the bytes stored
          reqs,       \* requests in progress
          workers,    \* the workers and what they wait for
          svk,        \* the generation of the vault key of each user
          budget,     \* requests other clients may still send
          inits       \* how often an initiation wrote to the file's manifest

fileVars == <<manifests, rows, chunks, reqs, workers, svk, budget, inits>>

Index == 0..MAX_CHUNKS - 1

\* The value for no row and no bytes is neither.
ASSUME AbsentAssumption ==
    /\ None \notin {"pending", "uploaded"}
    /\ None \notin [owner : Users, total : 1..MAX_CHUNKS, status : {"PendingUpload", "Available"}]
    /\ None \notin [of : Files \cup {None}, part : Index]

Rows(f, st) == {i \in Index : rows[f][i] = st}
MarkChunk(f, i, st) == rows' = [rows EXCEPT ![f][i] = st]
ClearRows(f) == [rows EXCEPT ![f] = [i \in Index |-> None]]

-----------------------------------------------------------------------------
(* repository/files.rs.                                                     *)

get_file_manifest(f, u) ==
    IF manifests[f] # None /\ manifests[f].owner = u THEN manifests[f] ELSE None

Owned(u) == {f \in Files : manifests[f] # None /\ manifests[f].owner = u}
sum_file_bytes_owned_by(u) == MapThenSumSet(LAMBDA f : manifests[f].total, Owned(u))
count_chunks_uploaded(f, u) ==
    IF get_file_manifest(f, u) = None THEN 0 ELSE Cardinality(Rows(f, "uploaded"))

Pending(u, n) == [owner |-> u, total |-> n, status |-> "PendingUpload"]

\* UPDATE ... WHERE owner and status match: did it?
set_file_status(f, u) ==
    IF get_file_manifest(f, u) # None /\ manifests[f].status = "PendingUpload"
    THEN manifests' = [manifests EXCEPT ![f].status = "Available"]
    ELSE UNCHANGED manifests

\* The mark falls on a row that is there, of a file the caller owns.
set_chunk_uploaded(f, i, u) ==
    IF get_file_manifest(f, u) # None /\ rows[f][i] # None THEN MarkChunk(f, i, "uploaded") ELSE UNCHANGED rows

put_chunk(f, i, bytes) == chunks' = [chunks EXCEPT ![f][i] = bytes]
get_chunk(f, i) == chunks[f][i]

-----------------------------------------------------------------------------
(* The stream cipher and the file's key (vautr-files, file_transfer.rs).      *)

\* Each chunk is sealed under the file's key, bound to its uuid and index.
encrypt_file_stream(f, i) == [of |-> f, part |-> i]

\* The chunks must open in order and make up the size the manifest declares.
decrypt_file_stream(f, n, got) ==
    Len(got) = n /\ \A i \in 1..n : got[i] = encrypt_file_stream(f, i - 1)

\* The wrapped key opens under the vault key it was wrapped under.
resolve_fek(w) == workers[w].wrap = svk[Account[w]]

-----------------------------------------------------------------------------
(* Requests and answers.                                                    *)

\* A worker sends chunks it sealed, another client sends other bytes.
Request(op, u, f, n, w) ==
    [op |-> op, user |-> u, file |-> f, n |-> n, for |-> w, sealed |-> IF w = None THEN None ELSE f, pc |-> "start", total |-> 0, row |-> 0]

Ops == {"initiate", "chunk", "complete", "fetch"}

Goto(s, pc) == reqs' = [reqs EXCEPT ![s].pc = pc]
At(s, op, pc) == reqs[s] # None /\ reqs[s].op = op /\ reqs[s].pc = pc

\* upload_bytes and download: what comes after a request that was answered.
Onward(k, bytes) ==
    LET last == k.i + 1 = k.size
        got == IF k.stage = "fetch" THEN Append(k.got, bytes) ELSE k.got
    IN [k EXCEPT !.waits = FALSE, !.got = got,
                 !.i = IF k.stage \in {"chunk", "fetch"} /\ ~last THEN @ + 1 ELSE 0,
                 !.stage = CASE @ = "initiate" -> "chunk"
                             [] @ = "chunk" -> IF last THEN "complete" ELSE @
                             [] @ = "complete" -> "Ok"
                             [] @ = "fetch" -> IF ~last THEN @
                                               ELSE IF decrypt_file_stream(k.file, k.size, got) THEN "Read" ELSE "Corrupt"]

\* Mutant: the worker goes on after a request that failed.
After_Ignore(k, ok, bytes) == Onward(k, bytes)

\* Mutant: a request that failed is sent again, without end.
After_Retry(k, ok, bytes) == IF ok THEN Onward(k, bytes) ELSE [k EXCEPT !.waits = FALSE]

\* Any error ends the call.
After(k, ok, bytes) == IF ok THEN Onward(k, bytes) ELSE [k EXCEPT !.stage = "Err", !.waits = FALSE]

AnswerWith(s, ok, bytes) ==
    /\ reqs' = [reqs EXCEPT ![s] = None]
    /\ workers' = IF reqs[s].for = None THEN workers
                  ELSE [workers EXCEPT ![reqs[s].for] = After(@, ok, bytes)]
Answer(s, ok) == AnswerWith(s, ok, None)
On(s, ok, next) == IF ok THEN Goto(s, next) /\ UNCHANGED workers ELSE Answer(s, FALSE)

\* The transport reports an error for a request the server goes on with.
LoseAnswer(s) ==
    /\ reqs[s] # None /\ reqs[s].for # None
    /\ workers' = [workers EXCEPT ![reqs[s].for] = After(@, FALSE, None)]
    /\ reqs' = [reqs EXCEPT ![s].for = None]
    /\ UNCHANGED <<manifests, rows, chunks, svk, budget, inits>>

\* A statement fails: 500, and what the request has written stays.
Fail(s) == reqs[s] # None /\ Answer(s, FALSE) /\ UNCHANGED <<manifests, rows, chunks, svk, budget, inits>>

-----------------------------------------------------------------------------
(* upload_initiate.                                                         *)

WithinQuota(u, n) == sum_file_bytes_owned_by(u) + n <= Quota

\* The caps, then the quota: what the account holds, this file's old size too.
InitiateQuota(s) ==
    /\ At(s, "initiate", "start")
    /\ On(s, reqs[s].n \in 1..MAX_CHUNKS /\ WithinQuota(reqs[s].user, reqs[s].n), "exists")
    /\ UNCHANGED <<manifests, rows, chunks, svk, budget, inits>>

InitiateExists(s) ==
    /\ At(s, "initiate", "exists")
    /\ LET old == get_file_manifest(reqs[s].file, reqs[s].user) IN
       On(s, old = None \/ old.status # "Available", "insert")
    /\ UNCHANGED <<manifests, rows, chunks, svk, budget, inits>>

\* INSERT ... ON CONFLICT DO NOTHING.
InsertManifest(s) ==
    LET f == reqs[s].file IN
    /\ At(s, "initiate", "insert")
    /\ \/ /\ manifests[f] = None
          /\ manifests' = [manifests EXCEPT ![f] = Pending(reqs[s].user, reqs[s].n)]
          /\ inits' = [inits EXCEPT ![f] = @ + 1] /\ Goto(s, "rearm")
       \/ manifests[f] # None /\ Goto(s, "owner") /\ UNCHANGED <<manifests, inits>>
    /\ UNCHANGED <<rows, chunks, workers, svk, budget>>

CheckOwner(s) ==
    /\ At(s, "initiate", "owner")
    /\ On(s, manifests[reqs[s].file].owner = reqs[s].user, "reset")
    /\ UNCHANGED <<manifests, rows, chunks, svk, budget, inits>>

\* The caller's own manifest: everything but the owner is set anew.
ResetManifest(s) ==
    LET f == reqs[s].file IN
    /\ At(s, "initiate", "reset")
    /\ manifests' = [manifests EXCEPT ![f] = Pending(@.owner, reqs[s].n)]
    /\ inits' = [inits EXCEPT ![f] = @ + 1]
    /\ Goto(s, "rearm") /\ UNCHANGED <<rows, chunks, workers, svk, budget>>

RearmChunks(s) ==
    /\ At(s, "initiate", "rearm")
    /\ rows' = ClearRows(reqs[s].file) /\ Goto(s, "rows")
    /\ UNCHANGED <<manifests, chunks, workers, svk, budget, inits>>

\* One INSERT per chunk; a row that is there already is an error.
InsertRow(s) ==
    LET f == reqs[s].file  i == reqs[s].row IN
    /\ At(s, "initiate", "rows")
    /\ IF rows[f][i] # None THEN Answer(s, FALSE) /\ UNCHANGED rows
       ELSE /\ MarkChunk(f, i, "pending")
            /\ IF i + 1 = reqs[s].n THEN Answer(s, TRUE)
               ELSE reqs' = [reqs EXCEPT ![s].row = i + 1] /\ UNCHANGED workers
    /\ UNCHANGED <<manifests, chunks, svk, budget, inits>>

-----------------------------------------------------------------------------
(* upload_chunk, upload_complete, download_chunk.                            *)

ChunkOwner(s) ==
    LET man == get_file_manifest(reqs[s].file, reqs[s].user) IN
    /\ At(s, "chunk", "start")
    /\ On(s, man # None /\ reqs[s].n < man.total, "put")
    /\ UNCHANGED <<manifests, rows, chunks, svk, budget, inits>>

StoreChunk(s) ==
    /\ At(s, "chunk", "put")
    /\ put_chunk(reqs[s].file, reqs[s].n, encrypt_file_stream(reqs[s].sealed, reqs[s].n))
    /\ Goto(s, "mark") /\ UNCHANGED <<manifests, rows, workers, svk, budget, inits>>

MarkUploaded(s) ==
    /\ At(s, "chunk", "mark")
    /\ set_chunk_uploaded(reqs[s].file, reqs[s].n, reqs[s].user)
    /\ Answer(s, TRUE) /\ UNCHANGED <<manifests, chunks, svk, budget, inits>>

CompleteStart(s) ==
    LET man == get_file_manifest(reqs[s].file, reqs[s].user) IN
    /\ At(s, "complete", "start")
    /\ IF man = None THEN Answer(s, FALSE)
       ELSE IF man.status = "Available" THEN Answer(s, TRUE)
       ELSE reqs' = [reqs EXCEPT ![s].pc = "count", ![s].total = man.total] /\ UNCHANGED workers
    /\ UNCHANGED <<manifests, rows, chunks, svk, budget, inits>>

\* Mutant: the gate is one chunk short.
CompleteGate_Short(s) ==
    /\ At(s, "complete", "count")
    /\ On(s, count_chunks_uploaded(reqs[s].file, reqs[s].user) + 1 >= reqs[s].total, "flip")
    /\ UNCHANGED <<manifests, rows, chunks, svk, budget, inits>>

\* The rows counted now are held against the total read before.
CompleteGate(s) ==
    /\ At(s, "complete", "count")
    /\ On(s, count_chunks_uploaded(reqs[s].file, reqs[s].user) = reqs[s].total, "flip")
    /\ UNCHANGED <<manifests, rows, chunks, svk, budget, inits>>

CompleteFlip(s) ==
    /\ At(s, "complete", "flip") /\ set_file_status(reqs[s].file, reqs[s].user)
    /\ IF manifests[reqs[s].file].status = "PendingUpload" THEN Answer(s, TRUE)
       ELSE Goto(s, "reread") /\ UNCHANGED workers
    /\ UNCHANGED <<rows, chunks, svk, budget, inits>>

\* Someone else flipped it: fine if it is Available now.
CompleteReread(s) ==
    LET man == get_file_manifest(reqs[s].file, reqs[s].user) IN
    /\ At(s, "complete", "reread")
    /\ Answer(s, man # None /\ man.status = "Available")
    /\ UNCHANGED <<manifests, rows, chunks, svk, budget, inits>>

FetchStart(s) ==
    LET man == get_file_manifest(reqs[s].file, reqs[s].user) IN
    /\ At(s, "fetch", "start")
    /\ On(s, man # None /\ man.status = "Available", "read")
    /\ UNCHANGED <<manifests, rows, chunks, svk, budget, inits>>

FetchChunk(s) ==
    LET bytes == get_chunk(reqs[s].file, reqs[s].n) IN
    /\ At(s, "fetch", "read") /\ AnswerWith(s, bytes # None, bytes)
    /\ UNCHANGED <<manifests, rows, chunks, svk, budget, inits>>

-----------------------------------------------------------------------------
(* The worker, and the other clients.                                       *)

Arrive(req) == \E s \in Slots : reqs[s] = None /\ reqs' = [reqs EXCEPT ![s] = req]

\* upload_bytes: the file's key is wrapped under the vault key of now.
StartUpload(w) ==
    /\ workers[w].stage = "idle"
    /\ \E n \in 1..MAX_CHUNKS :
          workers' = [workers EXCEPT ![w].stage = "initiate", ![w].size = n, ![w].wrap = svk[Account[w]]]
    /\ UNCHANGED <<manifests, rows, chunks, reqs, svk, budget, inits>>

\* download: the wrapped key must open under the vault key of now.
StartDownload(w) ==
    /\ workers[w].stage = "Ok"
    /\ workers' = [workers EXCEPT ![w].stage = IF resolve_fek(w) THEN "fetch" ELSE "Locked"]
    /\ UNCHANGED <<manifests, rows, chunks, reqs, svk, budget, inits>>

Argument(k) == IF k.stage = "initiate" THEN k.size ELSE k.i

WorkerSend(w) ==
    /\ workers[w].stage \in Ops /\ ~workers[w].waits
    /\ Arrive(Request(workers[w].stage, Account[w], w, Argument(workers[w]), w))
    /\ workers' = [workers EXCEPT ![w].waits = TRUE]
    /\ UNCHANGED <<manifests, rows, chunks, svk, budget, inits>>

\* The account's key is rotated; nothing rewraps the keys of its files.
Rotate(w) ==
    /\ workers[w].wrap # 0 /\ svk[Account[w]] = 1 /\ svk' = [svk EXCEPT ![Account[w]] = 2]
    /\ UNCHANGED <<manifests, rows, chunks, reqs, workers, budget, inits>>

OtherClient ==
    /\ budget > 0 /\ budget' = budget - 1
    /\ \E u \in Users, f \in Files, op \in Ops, n \in 0..MAX_CHUNKS + 1 :
          /\ f \in Workers => u # Account[f]
          /\ op = "complete" => n = 0
          /\ op # "initiate" => n \in Index
          /\ Arrive(Request(op, u, f, n, None))
    /\ UNCHANGED <<manifests, rows, chunks, workers, svk, inits>>

-----------------------------------------------------------------------------
Serve(s) ==
    \/ InitiateQuota(s) \/ InitiateExists(s) \/ InsertManifest(s) \/ CheckOwner(s)
    \/ ResetManifest(s) \/ RearmChunks(s) \/ InsertRow(s)
    \/ ChunkOwner(s) \/ StoreChunk(s) \/ MarkUploaded(s)
    \/ CompleteStart(s) \/ CompleteGate(s) \/ CompleteFlip(s) \/ CompleteReread(s)
    \/ FetchStart(s) \/ FetchChunk(s)

\* Other clients send that many requests; the workers in active run.
FileInit(clients, active) ==
    /\ manifests = [f \in Files |-> None]
    /\ rows = [f \in Files |-> [i \in Index |-> None]]
    /\ chunks = [f \in Files |-> [i \in Index |-> None]]
    /\ reqs = [s \in Slots |-> None]
    /\ workers = [w \in Workers |-> [stage |-> IF w \in active THEN "idle" ELSE "Err", size |-> 0, i |-> 0, wrap |-> 0, waits |-> FALSE, got |-> <<>>, file |-> w]]
    /\ svk = [u \in Users |-> 1] /\ budget = clients /\ inits = [f \in Files |-> 0]

FileNext ==
    \/ \E s \in Slots : Serve(s) \/ Fail(s) \/ LoseAnswer(s)
    \/ \E w \in Workers : StartUpload(w) \/ StartDownload(w) \/ WorkerSend(w) \/ Rotate(w)
    \/ OtherClient

-----------------------------------------------------------------------------
(* Properties.                                                              *)

Complete(f, man, row, bytes) ==
    man # None /\ man.status = "Available" => \A i \in 0..man.total - 1 : row[i] = "uploaded" /\ bytes[i] # None

\* A file that was initiated once is downloadable only when every chunk of it
\* is stored and marked, whatever failed or overlapped on the way.
OnceComplete == \A f \in Files : inits[f] <= 1 => Complete(f, manifests[f], rows[f], chunks[f])

\* An upload that returned Ok is stored as it was sent: what a worker reads
\* back opens under its key, chunk by chunk, and has the length it declared.
RoundTrip ==
    \A w \in Workers :
        /\ workers[w].stage = "Ok" =>
              /\ manifests[w] = [owner |-> Account[w], total |-> workers[w].size, status |-> "Available"]
              /\ Complete(w, manifests[w], rows[w], chunks[w])
        /\ workers[w].stage # "Corrupt"

\* Every upload and every download comes to an end, by success or by error.
TransfersEnd == \A w \in Workers : []<>(workers[w].stage \notin Ops)

-----------------------------------------------------------------------------
(* What comments of the code say and the code does not keep.                 *)

\* "manifests only become Available [...] after the underlying object is fully
\* realized": a re-initiation between the count and the flip breaks it.
AvailableComplete == \A f \in Files : Complete(f, manifests[f], rows[f], chunks[f])

\* "Re-initiation of an already-realized file is a protocol violation": the
\* reset does not look at the status, which was read two statements before.
AvailableStays ==
    [][\A f \in Files : manifests[f] # None /\ manifests[f].status = "Available" => manifests'[f] = manifests[f]]_fileVars

\* "attachments survive an SVK rotation": no code rewraps a file's key.
SurvivesRotation == \A w \in Workers : workers[w].stage # "Locked"

\* The quota of an account is never exceeded.
QuotaKept == \A u \in Users : sum_file_bytes_owned_by(u) <= Quota
=============================================================================
