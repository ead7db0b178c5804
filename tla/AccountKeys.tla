----------------------------- MODULE AccountKeys -----------------------------
(***************************************************************************)
(* The life of one account on the server: the keys the server makes for    *)
(* itself on first use, registration, the wrapped vault keys and the epoch *)
(* of the users row, recovery with a recovery key, reclaim, deletion, and  *)
(* the WebAuthn second factor that withholds the wrapped key.              *)
(*                                                                         *)
(* One e-mail address; deleted, it may be registered again under a new id. *)
(* Every handler is the sequence of its statements, and requests overlap   *)
(* between them. Passwords, recovery keys and nonces are numbers drawn     *)
(* from one counter: equal numbers are the same secret. Signing in is      *)
(* reduced to its two rounds (module ServerLogin has the factors).         *)
(***************************************************************************)
EXTENDS Naturals, FiniteSets

CONSTANTS Sessions,     \* bearer tokens
          RecTokens,    \* recovery tokens
          Creds,        \* WebAuthn credentials
          Rounds,       \* request ids of WebAuthn ceremonies
          Calls,        \* requests in flight at once
          Kinds,        \* handlers that are called
          MaxRequests,  \* bound: requests in a behaviour
          MaxFresh,     \* bound: secrets and nonces drawn
          MaxCounter,   \* bound: signature counter of an authenticator
          MaxRestarts,  \* bound: restarts of the server
          None,         \* absent
          Gone          \* a token that was used, revoked or deleted

Handlers ==
    {"register", "login", "status", "rotate", "rekey", "recover", "reclaim", "delete",
     "enrol", "assert"}
Settings == {"setup", "pk"}   \* SETUP_KEY and SERVER_PUBLIC_KEY

(* A wrapped vault key: under which secret, of which epoch; and users      *)
Wrap == [by : Nat, gen : Nat]
UserRow ==
    [id : Nat, record : [secret : Nat, setup : Nat \cup {None}], mp : Wrap, rk : Nat,
     rkpk : Nat \cup {None}, gen : Nat, reclaim : Nat \cup {None}, suspended : BOOLEAN]

ASSUME AccountAssumption ==
    /\ MaxRequests \in Nat /\ MaxFresh \in Nat \ {0} /\ MaxCounter \in Nat
    /\ MaxRestarts \in Nat /\ Kinds \subseteq Handlers
    /\ {None, Gone} \cap (Sessions \cup RecTokens \cup Creds \cup Rounds \cup Nat) = {}
    /\ None # Gone /\ None \notin UserRow

VARIABLES config,     \* server_config
          user,       \* the users row of the address
          session,    \* sessions
          challenge,  \* recovery_challenges
          rtoken,     \* recovery_sessions
          cred,       \* webauthn_credentials
          regs,       \* WebauthnService: registrations begun
          auths,      \* assertions begun
          verified,   \* sessions that passed the second factor
          call,       \* what each request is doing
          requests, restarts,
          fresh,      \* the last secret drawn
          offers,     \* history: answers of register_start that clients hold
          minted,     \* history: nonces that recovery tokens were given for
          completed,  \* history: recovery tokens by which an account was rewritten
          shown,      \* history: sessions that were given the wrapped key
          replayed    \* history: a consumed proof was accepted

tables == <<config, user, session, challenge, rtoken, cred>>
memory == <<regs, auths, verified>>
history == <<offers, minted, completed, shown, replayed>>
vars == <<tables, memory, call, requests, restarts, fresh, history>>

Idle == [pc |-> "idle", s |-> None, id |-> None, row |-> None, arg |-> None,
         got |-> [k \in Settings |-> None], need |-> None, next |-> None, late |-> FALSE]

Live(x) == x \notin {None, Gone}

At(c, pc) == call[c].pc = pc
Goto(c, pc) == call' = [call EXCEPT ![c].pc = pc]
Return(c) == call' = [call EXCEPT ![c] = Idle]
Begin(c, kind, r) ==
    /\ kind \in Kinds /\ At(c, "idle")
    /\ requests < MaxRequests /\ requests' = requests + 1
    /\ call' = [call EXCEPT ![c] = r]
Draw == fresh < MaxFresh /\ fresh' = fresh + 1

-----------------------------------------------------------------------------
(* Statements of the repository                                            *)

(* auth_user: a session of the account, which is not suspended             *)
AuthUser(s) == Live(session[s]) /\ user # None /\ session[s].id = user.id /\ ~user.suspended

(* set_config: the last writer wins                                        *)
SetConfig(k, v) == config' = [config EXCEPT ![k] = v]

(* create_user: the UNIQUE index on the address refuses a second row       *)
CreateUser(row) == user' = IF user = None THEN row ELSE user

(* A statement about the row of an id: no row, no change                   *)
OnUser(id, row) == user' = IF user # None /\ user.id = id THEN row ELSE user

(* update_min_enc_key_gen                                                  *)
UpdateGen(id, g) == OnUser(id, [user EXCEPT !.gen = g])

(* update_svk: both wraps                                                  *)
UpdateSvk(id, mp, rk) == OnUser(id, [user EXCEPT !.mp = mp, !.rk = rk])

(* update_svk_blob_only                                                    *)
UpdateSvkBlobOnly(id, mp) == OnUser(id, [user EXCEPT !.mp = mp])

(* complete_recovery: one UPDATE                                           *)
CompleteRecovery(id, k) ==
    OnUser(id, [user EXCEPT !.record = [secret |-> k, setup |-> config["setup"]],
                            !.mp = [by |-> k, gen |-> user.gen], !.rk = k, !.rkpk = k])

(* Mutant: nothing is deleted.                                             *)
RevokeUserSessions_None(id) == UNCHANGED session

(* revoke_user_sessions                                                    *)
RevokeUserSessions(id) ==
    session' = [s \in Sessions |-> IF Live(session[s]) /\ session[s].id = id
                                     THEN Gone ELSE session[s]]

(* delete_recovery_challenge: whatever nonce the row holds by now          *)
DeleteRecoveryChallenge == challenge' = None

(* Mutant: the token stays in the table.                                   *)
ConsumeRecoverySession_Kept(t) == UNCHANGED rtoken

(* consume_recovery_session: read and deleted in one transaction           *)
ConsumeRecoverySession(t) == rtoken' = [rtoken EXCEPT ![t] = Gone]

(* store_reclaim and clear_reclaim                                         *)
StoreReclaim(id, t) == OnUser(id, [user EXCEPT !.reclaim = t, !.suspended = TRUE])
ClearReclaim(id) == OnUser(id, [user EXCEPT !.reclaim = None, !.suspended = FALSE])

(* delete_account: the rows that refer to the user go with it              *)
DeleteUser(id) ==
    IF user # None /\ user.id = id
      THEN /\ user' = None /\ challenge' = None
           /\ session' = [s \in Sessions |-> IF session[s] = None THEN None ELSE Gone]
           /\ rtoken' = [t \in RecTokens |-> IF rtoken[t] = None THEN None ELSE Gone]
           /\ cred' = [k \in Creds |-> None]
      ELSE UNCHANGED <<user, session, challenge, rtoken, cred>>

(* add_webauthn_credential: one row for a credential, of a user that exists *)
AddCredential(id, k) ==
    cred' = IF user # None /\ user.id = id /\ cred[k] = None
              THEN [cred EXCEPT ![k] = 0] ELSE cred

(* update_webauthn_counter                                                 *)
UpdateCounter(id, k, n) ==
    cred' = IF user # None /\ user.id = id /\ cred[k] # None
              THEN [cred EXCEPT ![k] = n] ELSE cred

HasCredentials == \E k \in Creds : cred[k] # None

(* Mutant: any session of the account will do.                             *)
Satisfied_Any(s) == verified # {}

(* is_second_factor_satisfied                                              *)
Satisfied(s) == s \in verified

-----------------------------------------------------------------------------
NewUser(id, k, setup) ==
    [id |-> id, record |-> [secret |-> k, setup |-> setup], mp |-> [by |-> k, gen |-> 1],
     rk |-> k, rkpk |-> None, gen |-> 1, reclaim |-> None, suspended |-> FALSE]

(* A server that was never used, or one with an account, provisioned with  *)
(* its recovery key (set_rk_public_key, which no route calls), its second  *)
(* factor or not, and one session                                          *)
Init ==
    /\ \/ /\ user = None /\ fresh = 0
          /\ config = [k \in Settings |-> None]
          /\ session = [s \in Sessions |-> None]
          /\ cred = [k \in Creds |-> None]
       \/ /\ fresh = 1
          /\ config = [k \in Settings |-> 1]
          /\ user = [NewUser(1, 1, 1) EXCEPT !.rkpk = 1]
          /\ \E s0 \in Sessions :
               session = [s \in Sessions |->
                            IF s = s0 THEN [id |-> 1, secret |-> 1, escaped |-> FALSE] ELSE None]
          /\ \E K \in SUBSET Creds :
               cred = [k \in Creds |-> IF k \in K THEN 0 ELSE None]
    /\ challenge = None /\ rtoken = [t \in RecTokens |-> None]
    /\ regs = {} /\ auths = {} /\ verified = {}
    /\ call = [c \in Calls |-> Idle]
    /\ requests = 0 /\ restarts = 0
    /\ offers = {} /\ shown = {} /\ replayed = FALSE
    /\ minted = [n \in 1 .. MaxFresh |-> 0] /\ completed = [t \in RecTokens |-> 0]

-----------------------------------------------------------------------------
(* server_setup and server_public_key: read, and where there is none, made *)
(* up, written and read again; in production a missing set-up is an error  *)
Fetch(c, kind, r) ==
    Begin(c, kind, [r EXCEPT !.pc = "get", !.need = "setup"])

(* the next setting, or on with the handler                                *)
Got(c, v) ==
    LET r == [call[c] EXCEPT !.got = [call[c].got EXCEPT ![call[c].need] = v]]
    IN call' = [call EXCEPT ![c] =
         IF r.need = "setup" /\ r.next \in {"offer", "pinned"}
           THEN [r EXCEPT !.pc = "get", !.need = "pk"] ELSE [r EXCEPT !.pc = r.next]]

GetConfig(c) ==
    /\ At(c, "get")
    /\ LET v == config[call[c].need]
       IN IF v # None THEN Got(c, v)
          ELSE Goto(c, "set") \/ (call[c].need = "setup" /\ Return(c))
    /\ UNCHANGED <<tables, memory, requests, restarts, fresh, history>>

PutConfig(c) ==
    /\ At(c, "set")
    /\ Draw /\ SetConfig(call[c].need, fresh')
    /\ Goto(c, "reread")
    /\ UNCHANGED <<user, session, challenge, rtoken, cred, memory, requests, restarts, history>>

RereadConfig(c) ==
    /\ At(c, "reread")
    /\ Got(c, config[call[c].need])
    /\ UNCHANGED <<tables, memory, requests, restarts, fresh, history>>

-----------------------------------------------------------------------------
(* Registration                                                            *)

RegisterStart(c) ==
    /\ Fetch(c, "register", [Idle EXCEPT !.next = "offer"])
    /\ UNCHANGED <<tables, memory, restarts, fresh, history>>

AnswerOffer(c) ==
    /\ At(c, "offer")
    /\ offers' = offers \cup {call[c].got}
    /\ Return(c)
    /\ UNCHANGED <<tables, memory, requests, restarts, fresh, minted, completed, shown, replayed>>

(* a client that holds an answer finishes; it echoes the public key        *)
RegisterFinish(c, offer) ==
    /\ offer \in offers
    /\ Fetch(c, "register", [Idle EXCEPT !.next = "pinned", !.arg = offer])
    /\ UNCHANGED <<tables, memory, restarts, fresh, history>>

(* the pin, and an address that is free                                    *)
CheckPinned(c) ==
    /\ At(c, "pinned")
    /\ IF call[c].arg.pk = call[c].got.pk /\ user = None THEN Goto(c, "insert") ELSE Return(c)
    /\ UNCHANGED <<tables, memory, requests, restarts, fresh, history>>

InsertUser(c) ==
    /\ At(c, "insert")
    /\ Draw /\ CreateUser(NewUser(fresh', fresh', call[c].arg.setup))
    /\ Return(c)
    /\ UNCHANGED <<config, session, challenge, rtoken, cred, memory, requests, restarts, history>>

-----------------------------------------------------------------------------
(* Signing in: two rounds, the second by the address alone                 *)

Login(c, s) ==
    /\ session[s] = None /\ \A d \in Calls : call[d].s # s
    /\ Fetch(c, "login", [Idle EXCEPT !.next = "round1", !.s = s])
    /\ UNCHANGED <<tables, memory, restarts, fresh, history>>

LoginStart(c) ==
    /\ At(c, "round1")
    /\ IF user # None /\ user.record.setup = call[c].got.setup
         THEN call' = [call EXCEPT ![c].pc = "round2", ![c].arg = user.record.secret]
         ELSE Return(c)
    /\ UNCHANGED <<tables, memory, requests, restarts, fresh, history>>

LoginFinish(c) ==
    /\ At(c, "round2")
    /\ session' = IF user = None THEN session
                  ELSE [session EXCEPT ![call[c].s] =
                          [id |-> user.id, secret |-> call[c].arg, escaped |-> call[c].late]]
    /\ Return(c)
    /\ UNCHANGED <<config, user, challenge, rtoken, cred, memory, requests, restarts, fresh, history>>

(* Logins between their rounds are overtaken by a step that ends sessions  *)
Overtaken(f) == [c \in Calls |-> IF f[c].pc = "round2" THEN [f[c] EXCEPT !.late = TRUE] ELSE f[c]]

-----------------------------------------------------------------------------
(* The wrapped key                                                         *)

(* account_status reads the row, then looks for a second factor            *)
AccountStatus(c, s) ==
    /\ AuthUser(s)
    /\ Begin(c, "status", [Idle EXCEPT !.pc = "factor", !.s = s, !.row = user])
    /\ UNCHANGED <<tables, memory, restarts, fresh, history>>

AnswerStatus(c) ==
    /\ At(c, "factor")
    /\ LET s == call[c].s
       IN shown' = IF HasCredentials /\ ~Satisfied(s) THEN shown
                   ELSE shown \cup {[s |-> s, guarded |-> HasCredentials,
                                     passed |-> s \in verified]}
    /\ Return(c)
    /\ UNCHANGED <<tables, memory, requests, restarts, fresh, offers, minted, completed, replayed>>

(* account_rotate_key: the row, the epoch, then both wraps, of which the   *)
(* one for the recovery key is the one that was read                       *)
RotateKey(c, s) ==
    /\ AuthUser(s)
    /\ \E g \in 2 .. 3 :
         /\ g > user.gen
         /\ Begin(c, "rotate", [Idle EXCEPT !.pc = "gen", !.id = user.id, !.row = user,
                                !.arg = [by |-> session[s].secret, gen |-> g]])
    /\ UNCHANGED <<tables, memory, restarts, fresh, history>>

WriteGen(c) ==
    /\ At(c, "gen")
    /\ UpdateGen(call[c].id, call[c].arg.gen)
    /\ Goto(c, "svk")
    /\ UNCHANGED <<config, session, challenge, rtoken, cred, memory, requests, restarts, fresh, history>>

WriteSvk(c) ==
    /\ At(c, "svk")
    /\ UpdateSvk(call[c].id, call[c].arg, call[c].row.rk)
    /\ Return(c)
    /\ UNCHANGED <<config, session, challenge, rtoken, cred, memory, requests, restarts, fresh, history>>

(* account_rekey_svk                                                       *)
RekeySvk(c, s) ==
    /\ AuthUser(s)
    /\ Begin(c, "rekey", [Idle EXCEPT !.pc = "rekey", !.id = user.id,
                          !.arg = [by |-> session[s].secret, gen |-> user.mp.gen]])
    /\ UNCHANGED <<tables, memory, restarts, fresh, history>>

WriteRekey(c) ==
    /\ At(c, "rekey")
    /\ UpdateSvkBlobOnly(call[c].id, call[c].arg)
    /\ Return(c)
    /\ UNCHANGED <<config, session, challenge, rtoken, cred, memory, requests, restarts, fresh, history>>

-----------------------------------------------------------------------------
(* Recovery and reclaim                                                    *)

RecoverChallenge ==
    /\ "recover" \in Kinds \/ "reclaim" \in Kinds
    /\ requests < MaxRequests /\ requests' = requests + 1
    /\ user # None
    /\ Draw /\ challenge' = [nonce |-> fresh', expired |-> FALSE]
    /\ UNCHANGED <<config, user, session, rtoken, cred, memory, call, restarts, history>>

(* recover_verify, and the proof of reclaim: the recovery key of the row   *)
(* has signed nonce n, which must be the stored one; a challenge that has  *)
(* expired is deleted                                                      *)
ProofOK(n) == challenge # None /\ ~challenge.expired /\ challenge.nonce = n

Prove(c, kind, n, next) ==
    /\ user # None /\ user.rkpk # None
    /\ Begin(c, kind, IF ProofOK(n)
                        THEN [Idle EXCEPT !.pc = "consume", !.next = next, !.id = user.id,
                                          !.arg = n, !.late = minted[n] > 0]
                        ELSE Idle)
    /\ challenge' = IF challenge # None /\ challenge.expired THEN None ELSE challenge
    /\ UNCHANGED <<config, user, session, rtoken, cred, memory, restarts, fresh, history>>

ConsumeChallenge(c) ==
    /\ At(c, "consume")
    /\ DeleteRecoveryChallenge
    /\ Goto(c, call[c].next)
    /\ UNCHANGED <<config, user, session, rtoken, cred, memory, requests, restarts, fresh, history>>

(* create_recovery_session                                                 *)
MintRecoveryToken(c, t) ==
    /\ At(c, "mint")
    /\ rtoken[t] = None
    /\ IF user # None /\ user.id = call[c].id
         THEN /\ rtoken' = [rtoken EXCEPT ![t] = [id |-> user.id, expired |-> FALSE]]
              /\ minted' = [minted EXCEPT ![call[c].arg] = @ + 1]
              /\ replayed' = (replayed \/ call[c].late)
         ELSE UNCHANGED <<rtoken, minted, replayed>>
    /\ Return(c)
    /\ UNCHANGED <<config, user, session, challenge, cred, memory, requests, restarts, fresh,
                   offers, completed, shown>>

(* recover_complete takes the token, replaces the credentials, and ends    *)
(* the sessions                                                            *)
RecoverComplete(c, t) ==
    /\ Live(rtoken[t])
    /\ ConsumeRecoverySession(t)
    /\ Begin(c, "recover", IF rtoken[t].expired THEN Idle
                           ELSE [Idle EXCEPT !.pc = "rewrite", !.id = rtoken[t].id, !.arg = t])
    /\ UNCHANGED <<config, user, session, challenge, cred, memory, restarts, fresh, history>>

RewriteAccount(c) ==
    /\ At(c, "rewrite")
    /\ Draw /\ CompleteRecovery(call[c].id, fresh')
    /\ completed' = [completed EXCEPT ![call[c].arg] = @ + 1]
    /\ Goto(c, "signout")
    /\ UNCHANGED <<config, session, challenge, rtoken, cred, memory, requests, restarts,
                   offers, minted, shown, replayed>>

SignOut(c) ==
    /\ At(c, "signout")
    /\ RevokeUserSessions(call[c].id)
    /\ call' = Overtaken([call EXCEPT ![c] = Idle])
    /\ UNCHANGED <<config, user, challenge, rtoken, cred, memory, requests, restarts, fresh, history>>

(* reclaim, after its proof: a token for the confirmation, and suspension  *)
Suspend(c) ==
    /\ At(c, "suspend")
    /\ Draw /\ StoreReclaim(call[c].id, fresh')
    /\ Return(c)
    /\ UNCHANGED <<config, session, challenge, rtoken, cred, memory, requests, restarts, history>>

ReclaimConfirm(c) ==
    /\ user # None /\ user.reclaim # None
    /\ Begin(c, "reclaim", [Idle EXCEPT !.pc = "lift", !.id = user.id, !.arg = user.reclaim])
    /\ UNCHANGED <<tables, memory, restarts, fresh, history>>

Lift(c) ==
    /\ At(c, "lift")
    /\ ClearReclaim(call[c].id)
    /\ Return(c)
    /\ UNCHANGED <<config, session, challenge, rtoken, cred, memory, requests, restarts, fresh, history>>

DeleteAccount(c, s) ==
    /\ AuthUser(s)
    /\ Begin(c, "delete", [Idle EXCEPT !.pc = "purge", !.id = user.id])
    /\ UNCHANGED <<tables, memory, restarts, fresh, history>>

Purge(c) ==
    /\ At(c, "purge")
    /\ DeleteUser(call[c].id)
    /\ call' = Overtaken([call EXCEPT ![c] = Idle])
    /\ UNCHANGED <<config, memory, requests, restarts, fresh, history>>

-----------------------------------------------------------------------------
(* WebAuthn: ceremonies live in memory and are removed when they are used  *)

FreeRound(r) == \A x \in regs \cup auths : x.round # r
Registered == {k \in Creds : cred[k] # None}

EnrolStart(c, s, r) ==
    /\ AuthUser(s) /\ FreeRound(r)
    /\ Begin(c, "enrol", Idle)
    /\ regs' = regs \cup {[round |-> r, id |-> user.id, exclude |-> Registered]}
    /\ UNCHANGED <<tables, auths, verified, restarts, fresh, history>>

EnrolVerify(c, s, x, k) ==
    /\ AuthUser(s) /\ x \in regs
    /\ regs' = regs \ {x}
    /\ Begin(c, "enrol", IF x.id = user.id /\ k \notin x.exclude
                           THEN [Idle EXCEPT !.pc = "addcred", !.id = user.id, !.arg = k]
                           ELSE Idle)
    /\ UNCHANGED <<tables, auths, verified, restarts, fresh, history>>

WriteCredential(c) ==
    /\ At(c, "addcred")
    /\ AddCredential(call[c].id, call[c].arg)
    /\ Return(c)
    /\ UNCHANGED <<config, user, session, challenge, rtoken, memory, requests, restarts, fresh, history>>

RemoveCredential(c, s, k) ==
    /\ AuthUser(s) /\ cred[k] # None
    /\ Begin(c, "enrol", Idle)
    /\ cred' = [cred EXCEPT ![k] = None]
    /\ UNCHANGED <<config, user, session, challenge, rtoken, memory, restarts, fresh, history>>

AssertStart(c, s, r) ==
    /\ AuthUser(s) /\ FreeRound(r) /\ HasCredentials
    /\ Begin(c, "assert", Idle)
    /\ auths' = auths \cup {[round |-> r, id |-> user.id, keys |-> cred]}
    /\ UNCHANGED <<tables, regs, verified, restarts, fresh, history>>

(* finish_securitykey_authentication: a key of the ceremony, with a        *)
(* counter beyond the one the ceremony was started with                    *)
Accepted(x, k, n) == x.keys[k] # None /\ (n > x.keys[k] \/ n = 0)

(* the ceremony is taken, the signature checked and the session marked     *)
(* without an await between                                                *)
AssertVerify(c, s, x, k, n) ==
    /\ AuthUser(s) /\ x \in auths
    /\ auths' = auths \ {x}
    /\ IF x.id = user.id /\ Accepted(x, k, n)
         THEN /\ verified' = verified \cup {s}
              /\ Begin(c, "assert", [Idle EXCEPT !.pc = "counter", !.s = s, !.id = user.id,
                                     !.arg = [k |-> k, n |-> n], !.late = s \in verified])
         ELSE Begin(c, "assert", Idle) /\ UNCHANGED verified
    /\ UNCHANGED <<tables, regs, restarts, fresh, history>>

(* the counter of the table: a regression ends the request with an error   *)
Regressed(k, n) == cred[k] > 0 /\ n <= cred[k]

CheckCounter(c) ==
    /\ At(c, "counter")
    /\ LET k == call[c].arg.k
       IN IF cred[k] = None \/ Regressed(k, call[c].arg.n) THEN Return(c) ELSE Goto(c, "bump")
    /\ UNCHANGED <<tables, memory, requests, restarts, fresh, history>>

BumpCounter(c) ==
    /\ At(c, "bump")
    /\ UpdateCounter(call[c].id, call[c].arg.k, call[c].arg.n)
    /\ Return(c)
    /\ UNCHANGED <<config, user, session, challenge, rtoken, memory, requests, restarts, fresh, history>>

-----------------------------------------------------------------------------
(* Times pass: challenges live five minutes, recovery tokens ten, and a    *)
(* suspension thirty days                                                  *)
Expire ==
    /\ \/ /\ challenge # None /\ ~challenge.expired
          /\ challenge' = [challenge EXCEPT !.expired = TRUE] /\ UNCHANGED <<user, rtoken>>
       \/ /\ \E t \in RecTokens : /\ Live(rtoken[t]) /\ ~rtoken[t].expired
                                   /\ rtoken' = [rtoken EXCEPT ![t].expired = TRUE]
          /\ UNCHANGED <<user, challenge>>
       \/ /\ user # None /\ user.suspended
          /\ user' = [user EXCEPT !.suspended = FALSE] /\ UNCHANGED <<challenge, rtoken>>
    /\ UNCHANGED <<config, session, cred, memory, call, requests, restarts, fresh, history>>

(* The process ends: ceremonies, marks and requests are lost               *)
Restart ==
    /\ restarts < MaxRestarts /\ restarts' = restarts + 1
    /\ regs' = {} /\ auths' = {} /\ verified' = {}
    /\ call' = [c \in Calls |-> Idle]
    /\ session' = [s \in Sessions |->
                     IF Live(session[s]) /\ \E c \in Calls : At(c, "signout")
                       THEN [session[s] EXCEPT !.escaped = TRUE] ELSE session[s]]
    /\ UNCHANGED <<config, user, challenge, rtoken, cred, requests, fresh, history>>

Nonces == {n \in 1 .. MaxFresh : minted[n] > 0 \/ (challenge # None /\ challenge.nonce = n)}

Request(c) ==
    \/ RegisterStart(c) \/ ReclaimConfirm(c)
    \/ \E offer \in offers : RegisterFinish(c, offer)
    \/ \E n \in Nonces : Prove(c, "recover", n, "mint") \/ Prove(c, "reclaim", n, "suspend")
    \/ \E t \in RecTokens : RecoverComplete(c, t)
    \/ \E s \in Sessions :
         \/ Login(c, s) \/ AccountStatus(c, s) \/ RotateKey(c, s) \/ RekeySvk(c, s)
         \/ DeleteAccount(c, s)
         \/ \E r \in Rounds : EnrolStart(c, s, r) \/ AssertStart(c, s, r)
         \/ \E k \in Creds : RemoveCredential(c, s, k) \/ \E x \in regs : EnrolVerify(c, s, x, k)
         \/ \E k \in Creds, x \in auths, n \in 0 .. MaxCounter : AssertVerify(c, s, x, k, n)

Step(c) ==
    \/ GetConfig(c) \/ PutConfig(c) \/ RereadConfig(c)
    \/ AnswerOffer(c) \/ CheckPinned(c) \/ InsertUser(c) \/ LoginStart(c) \/ LoginFinish(c)
    \/ AnswerStatus(c) \/ WriteGen(c) \/ WriteSvk(c) \/ WriteRekey(c)
    \/ ConsumeChallenge(c) \/ \E t \in RecTokens : MintRecoveryToken(c, t)
    \/ RewriteAccount(c) \/ SignOut(c) \/ Suspend(c) \/ Lift(c) \/ Purge(c)
    \/ WriteCredential(c) \/ CheckCounter(c) \/ BumpCounter(c)

Next == RecoverChallenge \/ Expire \/ Restart \/ \E c \in Calls : Request(c) \/ Step(c)

Spec == Init /\ [][Next]_vars

-----------------------------------------------------------------------------
(* Every variable has its type, and sessions, recovery tokens, challenge   *)
(* and credentials are of the account that exists.                         *)
TypeOK ==
    /\ config \in [Settings -> Nat \cup {None}]
    /\ user = None \/ user \in UserRow
    /\ \A s \in Sessions : Live(session[s]) =>
         /\ session[s] \in [id : Nat, secret : Nat, escaped : BOOLEAN]
         /\ user # None /\ session[s].id = user.id
    /\ \A t \in RecTokens : Live(rtoken[t]) =>
         /\ rtoken[t] \in [id : Nat, expired : BOOLEAN]
         /\ user # None /\ rtoken[t].id = user.id
    /\ challenge # None => user # None
    /\ \A k \in Creds : cred[k] # None => cred[k] \in 0 .. MaxCounter /\ user # None
    /\ verified \subseteq Sessions
    /\ requests \in 0 .. MaxRequests /\ fresh \in 0 .. MaxFresh

(* A proof of possession sent after its nonce had been used is worth       *)
(* nothing (recover_verify).                                               *)
ReplayedProofRefused == ~replayed

(* One recovery token rewrites the account at most once, however many      *)
(* requests carry it (recover_complete).                                   *)
RecoveryTokenOnce == \A t \in RecTokens : completed[t] <= 1

(* What a recovery uses up stays used up, for requests that overlap and    *)
(* requests that come again: the nonce of its proof and its token.         *)
RecoverySingleUse == ReplayedProofRefused /\ RecoveryTokenOnce

(* Once a recovery has ended the sessions, none is left that was opened    *)
(* with an older password, but for logins it overtook between their rounds *)
(* and for a server that stopped before (recover_complete).                *)
RecoverySignsOut ==
    \A s \in Sessions :
      Live(session[s]) /\ ~session[s].escaped /\ (\A c \in Calls : ~At(c, "signout"))
        => session[s].secret = user.record.secret

(* The wrapped key of an account with a second factor goes to sessions     *)
(* that have passed it (account_status).                                   *)
SvkWithheld == \A x \in shown : x.guarded => x.passed

(* Accounts are registered under the set-up the server keeps.              *)
SetupKept == user # None => user.record.setup = config["setup"]

(* The wrap for the recovery key is for the recovery key of the account.   *)
RecoveryWrapMatches == user # None /\ user.rkpk # None => user.rk = user.rkpk

(* The password that opens the account opens the wrapped key.              *)
PasswordWrapMatches ==
    user # None /\ (\A c \in Calls : call[c].pc \notin {"rekey", "svk"})
      => user.mp.by = user.record.secret

(* The wrapped key is of the epoch of the row.                             *)
EpochOfWrap ==
    user # None /\ (\A c \in Calls : call[c].pc \notin {"rekey", "svk"})
      => user.mp.gen = user.gen

(* A nonce is good for one recovery token.                                 *)
NonceMintsOnce == \A n \in 1 .. MaxFresh : minted[n] <= 1

(* A recovery forces everyone to sign in again.                            *)
ReauthEverywhere ==
    \A s \in Sessions : Live(session[s]) /\ (\A c \in Calls : ~At(c, "signout"))
      => session[s].secret = user.record.secret

(* A signature counter never goes back.                                    *)
CountersGrow ==
    [][\A k \in Creds : cred[k] # None /\ cred'[k] # None => cred'[k] >= cred[k]]_vars

(* An assertion that is refused for its counter does not pass the factor.  *)
CloneRefused ==
    [][\A c \in Calls : At(c, "counter") /\ call'[c].pc = "idle" /\ restarts' = restarts
         /\ cred[call[c].arg.k] # None
         => call[c].late \/ call[c].s \notin verified']_vars

(* A confirmation lifts the suspension its token was sent for.             *)
ConfirmLiftsOwn ==
    [][\A c \in Calls : At(c, "lift") /\ call'[c].pc = "idle" /\ restarts' = restarts
         => user = None \/ user.reclaim \in {None, call[c].arg}]_vars
=============================================================================
