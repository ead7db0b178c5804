----------------------------- MODULE ServerLogin -----------------------------
(***************************************************************************)
(* How the server turns a password login into a session: the OPAQUE login  *)
(* state kept in memory between the two rounds, the pending token of an    *)
(* account with a second factor, one-time codes with their replay cache    *)
(* and lockout, backup codes, enrolment, the organization's policy and     *)
(* logout. Every query names its user, so one account stands for all.      *)
(*                                                                         *)
(* A request is a call that awaits the database between its statements;    *)
(* each step of a call is one statement (or statements that commute with   *)
(* every other step). Durations are abstract: whatever has a lifetime may  *)
(* expire at any moment, by an action of its own.                          *)
(***************************************************************************)
EXTENDS Naturals, FiniteSets

CONSTANTS Calls,        \* requests in flight at once
          Handles,      \* login handles, one per login_start
          Tokens,       \* pending-MFA tokens, one per paused login
          Secrets,      \* TOTP secrets, one per enrolment
          Codes,        \* backup codes of one batch
          Steps,        \* TOTP time steps
          MaxAttempts,  \* wrong answers a pending token survives (5)
          MaxFails,     \* wrong codes before the account is locked (5)
          MaxRestarts,  \* bound: restarts of the server
          SecurityKey,  \* the account has a WebAuthn credential
          None          \* absent

BackupCodes == (1 .. Cardinality(Calls)) \X Codes  \* by batch
TotpCodes == Secrets \X Steps
Bad == <<None, None>>  \* a code that matches nothing
Answers == TotpCodes \cup BackupCodes \cup {Bad}

ASSUME LoginAssumption ==
    /\ None \notin Calls \cup Handles \cup Tokens \cup Secrets \cup Codes \cup Steps
    /\ None \notin Answers
    /\ Handles \cap Tokens = {} /\ Secrets \cap (Nat \cup Handles \cup Tokens) = {}
    /\ IsFiniteSet(Calls)
    /\ MaxAttempts \in Nat \ {0} /\ MaxFails \in Nat \ {0}
    /\ MaxRestarts \in Nat /\ SecurityKey \in BOOLEAN

VARIABLES byHandle,  \* LOGIN_STATE entries under a handle
          byName,    \* the entry under the username, named by its handle
          pending,   \* pending_mfa
          totp,      \* the active TOTP secret
          enrolled,  \* pending enrolments
          steps,     \* totp_used_steps
          fails, locked,  \* users.totp_fail_count, totp_lock_until > now
          backup,    \* unused rows of mfa_recovery_codes
          batch,     \* batches of backup codes ever generated
          required,  \* mfa_policy.required
          sessions,  \* sessions
          call,      \* what each request is doing
          restarts,
          grants,    \* history: the sessions that logins were given
          spent,     \* history: handles, tokens and secrets ever issued
          wrong,     \* history: wrong codes since the last unlock or success
          guesses    \* history: wrong answers to each pending token

login == <<byHandle, byName>>
lockout == <<fails, locked, wrong>>
factor == <<totp, enrolled, steps, backup, batch>>
vars == <<login, pending, lockout, factor, required, sessions, call,
          restarts, grants, spent, guesses>>

(* A login without a second factor takes the OPAQUE session key of its     *)
(* round for a token, so a round finished twice yields the same session.   *)
Sessions == Handles \cup Tokens \X Nat

Idle == [pc |-> "idle", key |-> None, code |-> None, secret |-> None,
         began |-> {}, had |-> FALSE]

-----------------------------------------------------------------------------
(* Statements of the repository                                            *)

(* the pending token is expired or has too many wrong answers              *)
Refused(p) == pending[p].expired \/ pending[p].attempts >= MaxAttempts

(* store_pending_mfa and purge_expired_pending_mfa                         *)
StorePending(p) ==
    pending' = [q \in {r \in DOMAIN pending : ~pending[r].expired} \cup {p} |->
                  IF q = p THEN [attempts |-> 0, expired |-> FALSE]
                           ELSE pending[q]]

(* Mutant: the row stays.                                                  *)
DeletePending_Kept(p) == pending' = pending

(* delete_pending_mfa                                                      *)
DeletePending(p) == pending' = [q \in DOMAIN pending \ {p} |-> pending[q]]

(* bump_pending_mfa_attempts                                               *)
BumpAttempts(p) ==
    pending' = [q \in DOMAIN pending |->
                  IF q = p THEN [pending[q] EXCEPT !.attempts = @ + 1]
                           ELSE pending[q]]

(* Mutant: the account is locked one failure late.                         *)
RegisterFailure_Late ==
    /\ fails' = fails + 1
    /\ locked' = (locked \/ fails + 1 > MaxFails + 1)
    /\ UNCHANGED wrong

(* register_totp_failure                                                   *)
RegisterFailure ==
    /\ fails' = fails + 1
    /\ locked' = (locked \/ fails + 1 >= MaxFails)
    /\ UNCHANGED wrong

(* clear_totp_failures                                                     *)
ClearFailures == fails' = 0 /\ locked' = FALSE /\ wrong' = 0

(* Mutant: the code is looked up and not marked used.                      *)
Redeem_Unmarked(b) == b \in backup /\ backup' = backup

(* redeem_recovery_code found an unused row and marked it                  *)
Redeem(b) == b \in backup /\ backup' = backup \ {b}

(* mark_totp_step_used; the pruning spares steps a code can still match    *)
MarkStep(s) == steps' = steps \cup {s}

(* mfa_set_policy                                                          *)
SetPolicy(on) == required' = on

(* clear_totp_enrollments                                                  *)
ClearEnrolments == enrolled' = {}

(* delete_session                                                          *)
DeleteSession(t) == sessions' = sessions \ {t}

(* store_session                                                           *)
StoreSession(t) == sessions' = sessions \cup {t}

(* verify_totp_with_step: a code of the secret for a step in the window;   *)
(* outside its window a code is as good as Bad                             *)
Matches(secret, code) == code \in TotpCodes /\ code[1] = secret

-----------------------------------------------------------------------------
(* The server has started; the account may be enrolled already.            *)
Init ==
    /\ byHandle = {} /\ byName = None
    /\ pending = [p \in {} |-> None]
    /\ totp \in Secrets \cup {None} /\ enrolled = {} /\ steps = {}
    /\ IF totp = None THEN batch = 0 /\ backup = {} /\ spent = {}
                      ELSE batch = 1 /\ backup = {1} \X Codes /\ spent = {totp}
    /\ fails = 0 /\ locked = FALSE /\ wrong = 0
    /\ required = FALSE
    /\ sessions = {}
    /\ call = [c \in Calls |-> Idle]
    /\ restarts = 0
    /\ grants = {}
    /\ guesses = [p \in Tokens |-> 0]

At(c, pc) == call[c].pc = pc
Goto(c, pc) == call' = [call EXCEPT ![c].pc = pc]
Return(c) == call' = [call EXCEPT ![c] = Idle]
(* A request arrives; what it could know is remembered for the properties. *)
Begin(c, pc, key, code) ==
    /\ At(c, "idle")
    /\ call' = [call EXCEPT ![c] =
                  [pc |-> pc, key |-> key, code |-> code, secret |-> None,
                   began |-> {<<g.key, g.code>> : g \in grants},
                   had |-> totp # None]]
(* A session is given to the client for this key and this second factor.   *)
Grant(c, t) ==
    grants' = grants \cup {[key |-> call[c].key, code |-> call[c].code,
                            session |-> t, had |-> call[c].had]}

-----------------------------------------------------------------------------
(* Password login                                                          *)

(* login_start: sweep what is older than the lifetime, then store the      *)
(* state under the handle and under the username                           *)
LoginStart(h) ==
    /\ h \notin spent
    /\ spent' = spent \cup {h}
    /\ \E old \in SUBSET byHandle : byHandle' = (byHandle \ old) \cup {h}
    /\ byName' = h
    /\ UNCHANGED <<pending, lockout, factor, required, sessions, call,
                   restarts, grants, guesses>>

(* login_finish with the handle, or without it under the username; another *)
(* round's state does not finish this exchange                             *)
LoginFinish(c, h) ==
    /\ \/ h \in byHandle /\ byHandle' = byHandle \ {h} /\ UNCHANGED byName
       \/ byName = h /\ byName' = None /\ UNCHANGED byHandle
    /\ Begin(c, "policy", h, None)
    /\ UNCHANGED <<pending, lockout, factor, required, sessions,
                   restarts, grants, spent, guesses>>

(* enforce_mfa_required                                                    *)
EnforcePolicy(c) ==
    /\ At(c, "policy")
    /\ IF required /\ totp = None /\ ~SecurityKey
         THEN Return(c) ELSE Goto(c, "factor")

(* Mutant: the enrolments are counted, not the active secrets.             *)
HasTotp_Enrolments(c) == enrolled # {}

(* mfa_has_totp                                                            *)
HasTotp(c) == totp # None

(* login_finish goes on: a pending token when there is a secret            *)
PauseForFactor(c) ==
    /\ At(c, "factor")
    /\ HasTotp(c)
    /\ \E p \in Tokens \ spent : StorePending(p) /\ spent' = spent \cup {p}
    /\ Return(c)
    /\ UNCHANGED <<login, lockout, factor, required, sessions, restarts,
                   grants, guesses>>

(* or else a session                                                       *)
NoFactor(c) ==
    /\ At(c, "factor")
    /\ ~HasTotp(c)
    /\ Goto(c, "mint")
    /\ UNCHANGED <<login, pending, lockout, factor, required, sessions,
                   restarts, grants, spent, guesses>>

Policy(c) ==
    /\ EnforcePolicy(c)
    /\ UNCHANGED <<login, pending, lockout, factor, required, sessions,
                   restarts, grants, spent, guesses>>

(* The session row is written and the token is sent to the client.         *)
Mint(c) ==
    /\ At(c, "mint")
    /\ LET key == call[c].key
           t == IF call[c].code = None THEN key
                ELSE <<key, Cardinality({g \in grants : g.key = key})>>
       IN StoreSession(t) /\ Grant(c, t)
    /\ Return(c)
    /\ UNCHANGED <<login, pending, lockout, factor, required, restarts,
                   spent, guesses>>

-----------------------------------------------------------------------------
(* Second factor of a paused login                                         *)

(* verify_login_totp or verify_login_recovery looks the token up           *)
ReadPending(c, p, code) ==
    /\ p \in DOMAIN pending
    /\ IF Refused(p)
         THEN DeletePending(p) /\ UNCHANGED call
         ELSE /\ Begin(c, IF code \in BackupCodes THEN "redeem" ELSE "secret",
                       p, code)
              /\ UNCHANGED pending
    /\ UNCHANGED <<login, lockout, factor, required, sessions, restarts,
                   grants, spent, guesses>>

(* get_totp_secret; the account had one when its login was paused          *)
ReadSecret(c) ==
    /\ At(c, "secret")
    /\ call' = [call EXCEPT ![c].pc = "lock", ![c].secret = totp]
    /\ UNCHANGED <<login, pending, lockout, factor, required, sessions,
                   restarts, grants, spent, guesses>>

(* totp_lock_state, then the code is compared                              *)
CheckCode(c) ==
    /\ At(c, "lock")
    /\ IF locked
         THEN Return(c) /\ UNCHANGED <<wrong, guesses>>
         ELSE IF Matches(call[c].secret, call[c].code)
         THEN Goto(c, "used") /\ UNCHANGED <<wrong, guesses>>
         ELSE /\ Goto(c, "bump")
              /\ wrong' = wrong + 1
              /\ guesses' = [guesses EXCEPT ![call[c].key] = @ + 1]
    /\ UNCHANGED <<login, pending, fails, locked, factor, required, sessions,
                   restarts, grants, spent>>

(* the wrong answer is counted against the token, then the account         *)
CountAttempt(c) ==
    /\ At(c, "bump")
    /\ BumpAttempts(call[c].key)
    /\ IF call[c].code \in BackupCodes THEN Return(c) ELSE Goto(c, "fail")
    /\ UNCHANGED <<login, lockout, factor, required, sessions, restarts,
                   grants, spent, guesses>>

CountFailure(c) ==
    /\ At(c, "fail")
    /\ RegisterFailure
    /\ Return(c)
    /\ UNCHANGED <<login, pending, factor, required, sessions, restarts,
                   grants, spent, guesses>>

(* totp_step_used                                                          *)
CheckReplay(c) ==
    /\ At(c, "used")
    /\ IF call[c].code[2] \in steps THEN Return(c) ELSE Goto(c, "mark")
    /\ UNCHANGED <<login, pending, lockout, factor, required, sessions,
                   restarts, grants, spent, guesses>>

MarkUsed(c) ==
    /\ At(c, "mark")
    /\ MarkStep(call[c].code[2])
    /\ Goto(c, "clear")
    /\ UNCHANGED <<login, pending, lockout, totp, enrolled, backup, batch, required,
                   sessions, restarts, grants, spent, guesses>>

ResetFailures(c) ==
    /\ At(c, "clear")
    /\ ClearFailures
    /\ Goto(c, "delete")
    /\ UNCHANGED <<login, pending, factor, required, sessions, restarts,
                   grants, spent, guesses>>

(* the pending row is deleted before the session is written                *)
ConsumePending(c) ==
    /\ At(c, "delete")
    /\ DeletePending(call[c].key)
    /\ Goto(c, "mint")
    /\ UNCHANGED <<login, lockout, factor, required, sessions, restarts,
                   grants, spent, guesses>>

RedeemBackup(c) ==
    /\ At(c, "redeem")
    /\ \/ /\ Redeem(call[c].code)
          /\ Goto(c, "delete")
          /\ UNCHANGED guesses
       \/ /\ call[c].code \notin backup
          /\ Goto(c, "bump")
          /\ guesses' = [guesses EXCEPT ![call[c].key] = @ + 1]
          /\ UNCHANGED backup
    /\ UNCHANGED <<login, pending, lockout, totp, enrolled, steps, batch, required,
                   sessions, restarts, grants, spent>>

-----------------------------------------------------------------------------
(* Enrolment, by the holder of a session                                   *)

(* issue_totp: older enrolments go, then a fresh secret is offered         *)
IssueTotp(c, s) ==
    /\ sessions # {}
    /\ s \notin spent
    /\ spent' = spent \cup {s}
    /\ ClearEnrolments
    /\ Begin(c, "enrol", s, None)
    /\ UNCHANGED <<login, pending, lockout, totp, steps, backup, batch, required,
                   sessions, restarts, grants, guesses>>

(* create_totp_enrollment                                                  *)
CreateEnrolment(c) ==
    /\ At(c, "enrol")
    /\ enrolled' = enrolled \cup {call[c].key}
    /\ Return(c)
    /\ UNCHANGED <<login, pending, lockout, totp, steps, backup, batch, required,
                   sessions, restarts, grants, spent, guesses>>

(* verify_totp reads the enrolment and checks a code of its secret; an     *)
(* expired one is deleted instead                                          *)
VerifyEnrolment(c, s) ==
    /\ sessions # {}
    /\ s \in enrolled
    /\ \/ Begin(c, "had", s, None) /\ UNCHANGED enrolled
       \/ enrolled' = enrolled \ {s} /\ UNCHANGED call
    /\ UNCHANGED <<login, pending, lockout, totp, steps, backup, batch, required,
                   sessions, restarts, grants, spent, guesses>>

HadTotp(c) ==
    /\ At(c, "had")
    /\ Goto(c, IF HasTotp(c) THEN "replace" ELSE "activate")
    /\ UNCHANGED <<login, pending, lockout, factor, required, sessions,
                   restarts, grants, spent, guesses>>

(* activate_totp_secret; the first enrolment gets backup codes             *)
ActivateTotp(c) ==
    /\ At(c, "replace") \/ At(c, "activate")
    /\ totp' = call[c].key
    /\ enrolled' = {}
    /\ IF At(c, "replace") THEN Return(c) ELSE Goto(c, "codes")
    /\ UNCHANGED <<login, pending, lockout, steps, backup, batch, required, sessions,
                   restarts, grants, spent, guesses>>

(* insert_recovery_codes: unused codes are replaced                        *)
InsertCodes(c) ==
    /\ At(c, "codes")
    /\ batch' = batch + 1
    /\ backup' = {batch + 1} \X Codes
    /\ Return(c)
    /\ UNCHANGED <<login, pending, lockout, totp, enrolled, steps, required,
                   sessions, restarts, grants, spent, guesses>>

-----------------------------------------------------------------------------
(* policy_put by an administrator                                          *)
PutPolicy(on) ==
    /\ required # on
    /\ SetPolicy(on)
    /\ UNCHANGED <<login, pending, lockout, factor, sessions, call,
                   restarts, grants, spent, guesses>>

(* logout, the expiry of a session, or its purge                           *)
EndSession(t) ==
    /\ t \in sessions
    /\ DeleteSession(t)
    /\ UNCHANGED <<login, pending, lockout, factor, required, call,
                   restarts, grants, spent, guesses>>

ExpirePending(p) ==
    /\ p \in DOMAIN pending
    /\ ~pending[p].expired
    /\ pending' = [q \in DOMAIN pending |->
                     IF q = p THEN [pending[q] EXCEPT !.expired = TRUE]
                              ELSE pending[q]]
    /\ UNCHANGED <<login, lockout, factor, required, sessions, call,
                   restarts, grants, spent, guesses>>

(* totp_lock_until passes; the count of failures stays                     *)
LockEnds ==
    /\ locked
    /\ locked' = FALSE
    /\ wrong' = 0
    /\ UNCHANGED <<login, pending, fails, factor, required, sessions,
                   call, restarts, grants, spent, guesses>>

(* The process ends: the login states and the requests are lost.           *)
Restart ==
    /\ restarts < MaxRestarts
    /\ restarts' = restarts + 1
    /\ byHandle' = {} /\ byName' = None
    /\ call' = [c \in Calls |-> Idle]
    /\ UNCHANGED <<pending, lockout, factor, required, sessions, grants,
                   spent, guesses>>

Step(c) ==
    \/ Policy(c) \/ PauseForFactor(c) \/ NoFactor(c) \/ Mint(c)
    \/ ReadSecret(c) \/ CheckCode(c) \/ CountAttempt(c) \/ CountFailure(c)
    \/ CheckReplay(c) \/ MarkUsed(c) \/ ResetFailures(c) \/ ConsumePending(c)
    \/ RedeemBackup(c) \/ CreateEnrolment(c) \/ HadTotp(c)
    \/ ActivateTotp(c) \/ InsertCodes(c)

Next ==
    \/ \E h \in Handles : LoginStart(h)
    \/ \E c \in Calls, h \in Handles : LoginFinish(c, h)
    \/ \E c \in Calls, p \in Tokens, code \in Answers :
         ReadPending(c, p, code)
    \/ \E c \in Calls, s \in Secrets : IssueTotp(c, s) \/ VerifyEnrolment(c, s)
    \/ \E c \in Calls : Step(c)
    \/ \E on \in BOOLEAN : PutPolicy(on)
    \/ \E t \in sessions : EndSession(t)
    \/ \E p \in Tokens : ExpirePending(p)
    \/ LockEnds \/ Restart

Spec == Init /\ [][Next]_vars

-----------------------------------------------------------------------------
Stages ==
    {"idle", "policy", "factor", "mint", "secret", "lock", "bump", "fail", "used", "mark",
     "clear", "delete", "redeem", "enrol", "had", "replace", "activate", "codes"}
CallType ==
    [pc : Stages,
     key : Handles \cup Tokens \cup Secrets \cup {None},
     code : Answers \cup {None},
     secret : Secrets \cup {None},
     began : SUBSET ((Handles \cup Tokens) \X (Answers \cup {None})),
     had : BOOLEAN]

(* Every variable has its type: a request in the middle of a handler holds *)
(* what that handler read.                                                 *)
TypeOK ==
    /\ byHandle \subseteq Handles /\ byName \in Handles \cup {None}
    /\ DOMAIN pending \subseteq Tokens
    /\ \A p \in DOMAIN pending :
         pending[p] \in [attempts : Nat, expired : BOOLEAN]
    /\ totp \in Secrets \cup {None} /\ enrolled \subseteq Secrets
    /\ steps \subseteq Steps /\ backup \subseteq BackupCodes /\ batch \in Nat
    /\ fails \in Nat /\ locked \in BOOLEAN /\ wrong \in Nat
    /\ required \in BOOLEAN /\ sessions \subseteq Sessions
    /\ call \in [Calls -> CallType]
    /\ restarts \in 0 .. MaxRestarts
    /\ \A g \in grants : /\ g.key \in Handles \cup Tokens
                          /\ g.code \in Answers \cup {None}
                          /\ g.session \in Sessions /\ g.had \in BOOLEAN
    /\ spent \subseteq Handles \cup Tokens \cup Secrets
    /\ guesses \in [Tokens -> Nat]

(* A request that begins after a pending token or a one-time code has      *)
(* given a session gets none for it: only requests that overlap can share  *)
(* one (verify_login_totp, verify_login_recovery).                         *)
SingleUse ==
    [][\A c \in Calls, g \in grants' \ grants :
         (call'[c] # call[c] /\ g.code # None) =>
           \A old \in call[c].began :
             /\ old[1] # g.key
             /\ (old[2] \in TotpCodes /\ g.code \in TotpCodes)
                  => old[2][2] # g.code[2]]_vars

(* However requests overlap, a backup code gives at most one session       *)
(* (redeem_recovery_code).                                                 *)
BackupCodeOnce ==
    \A g, h \in grants : g.code \in BackupCodes /\ g.code = h.code => g = h

(* An account that had a second factor when the login was finished gives   *)
(* no session without it (login_finish).                                   *)
FactorHonoured == \A g \in grants : g.code = None => ~g.had

(* Wrong answers are bounded: a token takes at most MaxAttempts, and an    *)
(* account at most MaxFails in a row, one for each other request in flight *)
(* and those a restart cut short apart (the checks of verify_login_totp    *)
(* and verify_login_recovery precede the counting).                        *)
GuessesBounded ==
    LET overlap == Cardinality(Calls) - 1 + restarts * Cardinality(Calls)
    IN /\ \A p \in Tokens : guesses[p] <= MaxAttempts + overlap
       /\ wrong <= MaxFails + overlap

(* The pending token is single-use: one session for each token.            *)
PendingOnce ==
    \A g, h \in grants : g.code # None /\ g.key = h.key => g = h

(* Enrolment issues backup codes: an account whose secret is active and    *)
(* that has no enrolment under way has had codes (verify_totp).            *)
EnrolledHasCodes ==
    (totp # None /\ \A c \in Calls : ~At(c, "codes")) => batch > 0

(* A session that was ended stays ended (logout).                          *)
LogoutFinal ==
    [][\A t \in sessions' \ sessions : \A g \in grants : g.session # t]_vars
=============================================================================
