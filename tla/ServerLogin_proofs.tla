------------------------- MODULE ServerLogin_proofs -------------------------
(***************************************************************************)
(* Proofs about ServerLogin, for any number of overlapping requests,       *)
(* logins, pending tokens, enrolments, restarts, and any limits.           *)
(*                                                                         *)
(* What holds of a request is stated by operators of the request and of    *)
(* the tables it depends on, so that a step that changes the tables and a  *)
(* step that changes the request are reasoned about apart.                 *)
(***************************************************************************)
EXTENDS ServerLogin, FiniteSetTheorems, TLAPS

(* Stages of a request that answers for a paused login.                    *)
Answering == {"secret", "lock", "bump", "fail", "used", "mark", "clear", "delete", "redeem"}

(* A request answers for a paused login, or writes the session for it.     *)
ForToken(r) == r.pc \in Answering \/ (r.pc = "mint" /\ r.code # None)

(* A request holds what its handler has read by its stage.                 *)
Formed(r) ==
    /\ r \in CallType
    /\ r.pc \in {"policy", "factor"} => r.code = None /\ r.key \in Handles
    /\ r.pc \in Answering => r.code \in Answers /\ r.key \in Tokens
    /\ r.pc \in {"secret", "lock", "fail", "used", "mark", "clear"} => r.code \notin BackupCodes
    /\ r.pc \in {"used", "mark", "clear"} => r.code \in TotpCodes
    /\ r.pc = "redeem" => r.code \in BackupCodes
    /\ r.pc = "mint" => (IF r.code = None THEN r.key \in Handles
                                          ELSE r.code \in Answers /\ r.key \in Tokens)
    /\ r.pc \in {"enrol", "had", "replace", "activate"} => r.key \in Secrets

(* A login that goes on without a second factor began when there was none. *)
Unfactored(r, active) ==
    /\ r.pc \in {"policy", "factor"} /\ r.had => active # None
    /\ r.pc = "mint" /\ r.code = None => ~r.had

(* The token of a request was issued, had given no session when the        *)
(* request began, and is gone before the session is written.               *)
TokenHeld(r, issued, rows) ==
    /\ ForToken(r) => r.key \in issued /\ \A old \in r.began : old[1] # r.key
    /\ ForToken(r) /\ r.pc = "mint" => r.key \notin rows

(* The step of a code is new to the request that goes on with it.          *)
StepFresh(r, used) ==
    /\ \A old \in r.began : old[2] \in TotpCodes => old[2][2] \in used
    /\ r.pc \in {"mark", "clear", "delete", "mint"} /\ r.code \in TotpCodes =>
         \A old \in r.began : old[2] \in TotpCodes => old[2][2] # r.code[2]
    /\ r.pc \in {"clear", "delete", "mint"} /\ r.code \in TotpCodes => r.code[2] \in used

(* Sessions were given for logins of their kind, for tokens that are gone  *)
(* and for steps that are marked.                                          *)
GrantOK(g, issued, rows, used) ==
    /\ g.code \in Answers \cup {None}
    /\ g.code = None => g.key \in Handles /\ ~g.had
    /\ g.code # None => g.key \in Tokens /\ g.key \in issued /\ g.key \notin rows
    /\ g.code \in TotpCodes => g.code[2] \in used

(* A request that redeemed the backup code b.                              *)
Redeemed(r, b) == r.pc \in {"delete", "mint"} /\ r.code = b

(* A backup code is unused, or redeemed by one request that has not got    *)
(* its session, or has given one session; codes of batches to come are     *)
(* unused.                                                                 *)
BackupInv ==
    \A b \in BackupCodes :
      /\ b \in backup => b[1] = batch
      /\ b \in backup \/ b[1] > batch =>
           /\ \A c \in Calls : ~Redeemed(call[c], b)
           /\ \A g \in grants : g.code # b
      /\ \A c, d \in Calls : Redeemed(call[c], b) /\ Redeemed(call[d], b) => c = d
      /\ \A c \in Calls, g \in grants : Redeemed(call[c], b) => g.code # b
      /\ \A g, h \in grants : g.code = b /\ h.code = b => g = h

(* Requests that may still answer wrongly for a token, requests whose      *)
(* wrong answer the token has not been charged with, and requests whose    *)
(* wrong code the account has not been charged with.                       *)
Asking(f, p) == {c \in Calls : f[c].key = p /\ f[c].pc \in {"secret", "lock", "redeem"}}
Uncharged(f, p) == {c \in Calls : f[c].key = p /\ f[c].pc = "bump"}
Failing(f) ==
    {c \in Calls : f[c].pc = "fail" \/ (f[c].pc = "bump" /\ f[c].code \notin BackupCodes)}

Lost == restarts * Cardinality(Calls)
Slack == Cardinality(Calls) - 1 + Lost

(* Wrong answers for a token are charged to it, but for those of requests  *)
(* under way and those a restart lost.                                     *)
TokenGuesses ==
    \A p \in Tokens :
      /\ p \notin spent => guesses[p] = 0
      /\ guesses[p] + Cardinality(Asking(call, p)) <= MaxAttempts + Slack
      /\ p \in DOMAIN pending =>
           guesses[p] <= pending[p].attempts + Cardinality(Uncharged(call, p)) + Lost

(* Wrong codes are charged to the account likewise; after a lock has ended *)
(* the next one locks it again.                                            *)
AccountGuesses ==
    /\ wrong <= MaxFails + Slack
    /\ ~locked => wrong <= (IF fails < MaxFails THEN fails ELSE 0)
                             + Cardinality(Failing(call)) + Lost

(* Types                                                                   *)
TablesTyped ==
    /\ totp \in Secrets \cup {None}
    /\ enrolled \subseteq Secrets
    /\ batch \in Nat
    /\ byHandle \subseteq Handles /\ byName \in Handles \cup {None}
    /\ DOMAIN pending \subseteq Tokens /\ DOMAIN pending \subseteq spent
    /\ \A p \in DOMAIN pending : pending[p] \in [attempts : Nat, expired : BOOLEAN]
    /\ fails \in Nat /\ wrong \in Nat /\ locked \in BOOLEAN /\ restarts \in Nat
    /\ guesses \in [Tokens -> Nat]

Typed == call \in [Calls -> CallType] /\ TablesTyped

(* What holds of a request, given the tables.                              *)
CallOK(r, active, issued, rows, used) ==
    /\ Formed(r)
    /\ Unfactored(r, active)
    /\ TokenHeld(r, issued, rows)
    /\ StepFresh(r, used)

CallsInv == \A c \in Calls : CallOK(call[c], totp, spent, DOMAIN pending, steps)
GrantsInv == \A g \in grants : GrantOK(g, spent, DOMAIN pending, steps)

LoginInv == Typed /\ CallsInv /\ GrantsInv /\ BackupInv
GuessInv == TokenGuesses /\ AccountGuesses

-----------------------------------------------------------------------------
(* Codes and keys of different kinds are different.                        *)
LEMMA Kinds ==
    /\ None \notin Answers /\ TotpCodes \cap BackupCodes = {}
    /\ Bad \notin TotpCodes /\ Bad \notin BackupCodes
    /\ BackupCodes \subseteq Answers /\ TotpCodes \subseteq Answers
    /\ \A h \in Handles : h \notin Tokens
    /\ \A s \in Secrets : s # None
  BY LoginAssumption DEF LoginAssumption, Answers, TotpCodes, BackupCodes, Bad

(* Tables as they may change without harm to a request that stays: nothing *)
(* issued, marked or activated is forgotten, and new pending rows are for  *)
(* new tokens.                                                             *)
Grow ==
    /\ spent \subseteq spent' /\ steps \subseteq steps'
    /\ totp # None => totp' # None
    /\ \A p \in DOMAIN pending' : p \in DOMAIN pending \/ p \notin spent

(* What held of a request holds after the tables have grown.               *)
LEMMA CallKept ==
    ASSUME NEW r, NEW a1, NEW a2, NEW i1, NEW i2, NEW w1, NEW w2, NEW u1, NEW u2,
           CallOK(r, a1, i1, w1, u1), a1 # None => a2 # None, i1 \subseteq i2, u1 \subseteq u2,
           \A p \in w2 : p \in w1 \/ p \notin i1
    PROVE  CallOK(r, a2, i2, w2, u2)
<1>1. Formed(r)
  BY DEF CallOK
<1>2. Unfactored(r, a2)
  BY DEF CallOK, Unfactored
<1>3. TokenHeld(r, i2, w2)
  BY DEF CallOK, TokenHeld
<1>4. StepFresh(r, u2)
  BY DEF CallOK, StepFresh
<1> QED BY <1>1, <1>2, <1>3, <1>4 DEF CallOK

(* A session that was given stays in order, too.                           *)
LEMMA GrantKept ==
    ASSUME NEW g, NEW i1, NEW i2, NEW w1, NEW w2, NEW u1, NEW u2,
           GrantOK(g, i1, w1, u1), i1 \subseteq i2, u1 \subseteq u2,
           \A p \in w2 : p \in w1 \/ p \notin i1
    PROVE  GrantOK(g, i2, w2, u2)
  BY DEF GrantOK

(* While the tables grow, the requests that do not move and the sessions   *)
(* stay in order.                                                          *)
LEMMA Stay ==
    ASSUME CallsInv, GrantsInv, Grow
    PROVE  /\ \A d \in Calls : CallOK(call[d], totp', spent', DOMAIN pending', steps')
           /\ \A g \in grants : GrantOK(g, spent', DOMAIN pending', steps')
<1>1. ASSUME NEW d \in Calls
      PROVE  CallOK(call[d], totp', spent', DOMAIN pending', steps')
  <2>1. CallOK(call[d], totp, spent, DOMAIN pending, steps)
    BY DEF CallsInv
  <2> QED BY <2>1, CallKept DEF Grow
<1>2. ASSUME NEW g \in grants
      PROVE  GrantOK(g, spent', DOMAIN pending', steps')
  <2>1. GrantOK(g, spent, DOMAIN pending, steps)
    BY DEF GrantsInv
  <2> QED BY <2>1, GrantKept DEF Grow
<1> QED BY <1>1, <1>2

(* One request moves to r and the others stay.                             *)
LEMMA OneMoves ==
    ASSUME call \in [Calls -> CallType], NEW c \in Calls, NEW r \in CallType,
           call' = [call EXCEPT ![c] = r]
    PROVE  /\ call' \in [Calls -> CallType] /\ call'[c] = r
           /\ \A d \in Calls \ {c} : call'[d] = call[d]
  OBVIOUS

(* After a step of one request that lets the tables grow, the requests are *)
(* in order if the one that moved is.                                      *)
LEMMA CallsStep ==
    ASSUME Typed, CallsInv, GrantsInv, Grow, NEW c \in Calls, NEW r,
           call' = [call EXCEPT ![c] = r],
           CallOK(r, totp', spent', DOMAIN pending', steps')
    PROVE  CallsInv' /\ call' \in [Calls -> CallType]
<1>1. r \in CallType
  BY DEF CallOK, Formed
<1>2. /\ call' \in [Calls -> CallType] /\ call'[c] = r
      /\ \A d \in Calls \ {c} : call'[d] = call[d]
  BY <1>1, OneMoves DEF Typed
<1>3. \A d \in Calls : CallOK(call'[d], totp', spent', DOMAIN pending', steps')
  BY <1>2, Stay
<1> QED BY <1>2, <1>3 DEF CallsInv

(* A request that ends is in order.                                        *)
LEMMA IdleOK ==
    ASSUME NEW a, NEW i, NEW w, NEW u PROVE CallOK(Idle, a, i, w, u) /\ Idle.pc = "idle"
<1>1. Idle \in CallType /\ Idle.pc = "idle" /\ Idle.began = {}
  BY DEF Idle, CallType, Stages
<1> QED BY <1>1 DEF CallOK, Formed, Unfactored, TokenHeld, ForToken, StepFresh, Answering

(* The request at another stage.                                           *)
To(r, pc) == [r EXCEPT !.pc = pc]

(* A request that goes on to another stage keeps what it holds.            *)
LEMMA GotoIs ==
    ASSUME Typed, NEW c \in Calls, NEW pc \in Stages, Goto(c, pc)
    PROVE  /\ call' = [call EXCEPT ![c] = To(call[c], pc)]
           /\ To(call[c], pc) \in CallType
           /\ To(call[c], pc).pc = pc
           /\ To(call[c], pc).key = call[c].key /\ To(call[c], pc).code = call[c].code
           /\ To(call[c], pc).began = call[c].began /\ To(call[c], pc).had = call[c].had
  BY DEF Goto, To, Typed, CallType

(* The request that arrives.                                               *)
Arrived(pc, key, code) ==
    [pc |-> pc, key |-> key, code |-> code, secret |-> None,
     began |-> {<<g.key, g.code>> : g \in grants}, had |-> totp # None]

(* A request arrives at an idle task, with what was granted before it.     *)
LEMMA BeginIs ==
    ASSUME GrantsInv, NEW c \in Calls, NEW pc \in Stages,
           NEW key \in Handles \cup Tokens \cup Secrets, NEW code \in Answers \cup {None},
           Begin(c, pc, key, code)
    PROVE  /\ call' = [call EXCEPT ![c] = Arrived(pc, key, code)]
           /\ Arrived(pc, key, code) \in CallType
           /\ call[c].pc = "idle"
<1> DEFINE B == {<<g.key, g.code>> : g \in grants}
<1>1. \A g \in grants : g.key \in Handles \cup Tokens /\ g.code \in Answers \cup {None}
  BY DEF GrantsInv, GrantOK
<1>2. B \in SUBSET ((Handles \cup Tokens) \X (Answers \cup {None}))
  BY <1>1
<1>3. (totp # None) \in BOOLEAN
  OBVIOUS
<1> HIDE DEF B
<1>4. Arrived(pc, key, code) =
        [pc |-> pc, key |-> key, code |-> code, secret |-> None, began |-> B, had |-> totp # None]
  BY DEF Arrived, B
<1>5. Arrived(pc, key, code) \in CallType
  BY <1>2, <1>3, <1>4 DEF CallType
<1> QED BY <1>5 DEF Begin, Arrived, At

-----------------------------------------------------------------------------
(* Logins, tokens, codes and sessions                                      *)

(* A step that redeems nothing keeps the account of the backup codes.      *)
LEMMA BackupCalm ==
    ASSUME BackupInv, NEW c \in Calls, NEW r, call'[c] = r,
           \A d \in Calls \ {c} : call'[d] = call[d],
           backup' = backup, batch' = batch, grants' = grants,
           \A b \in BackupCodes : Redeemed(r, b) => Redeemed(call[c], b)
    PROVE  BackupInv'
<1>1. ASSUME NEW d \in Calls, NEW b \in BackupCodes, Redeemed(call'[d], b)
      PROVE  Redeemed(call[d], b)
  BY <1>1
<1> QED BY <1>1 DEF BackupInv

(* A step of one request that redeems and grants nothing.                  *)
LEMMA Calm ==
    ASSUME LoginInv, NEW c \in Calls, NEW r, call' = [call EXCEPT ![c] = r],
           Grow, TablesTyped', backup' = backup, batch' = batch, grants' = grants,
           CallOK(r, totp', spent', DOMAIN pending', steps'),
           \A b \in BackupCodes : Redeemed(r, b) => Redeemed(call[c], b)
    PROVE  LoginInv'
<1>1. Typed /\ CallsInv /\ GrantsInv /\ BackupInv
  BY DEF LoginInv
<1>2. CallsInv' /\ call' \in [Calls -> CallType]
  BY <1>1, CallsStep
<1>3. GrantsInv'
  BY <1>1, Stay DEF GrantsInv
<1>4. r \in CallType
  BY DEF CallOK, Formed
<1>5. call'[c] = r /\ \A d \in Calls \ {c} : call'[d] = call[d]
  BY <1>1, <1>4, OneMoves DEF Typed
<1>6. BackupInv'
  BY <1>1, <1>5, BackupCalm
<1> QED BY <1>2, <1>3, <1>6 DEF LoginInv, Typed

(* A request that ends.                                                    *)
LEMMA CalmReturn ==
    ASSUME LoginInv, NEW c \in Calls, Return(c), Grow, TablesTyped',
           backup' = backup, batch' = batch, grants' = grants
    PROVE  LoginInv'
<1>1. call' = [call EXCEPT ![c] = Idle]
  BY DEF Return
<1>2. CallOK(Idle, totp', spent', DOMAIN pending', steps') /\ Idle.pc = "idle"
  BY IdleOK
<1>3. \A b \in BackupCodes : ~Redeemed(Idle, b)
  BY <1>2 DEF Redeemed
<1> QED BY <1>1, <1>2, <1>3, Calm

(* A request that goes on: the facts its next stage needs are those of the *)
(* stages before, or were read in this step.                               *)
LEMMA CalmGoto ==
    ASSUME LoginInv, NEW c \in Calls, NEW pc \in Stages, Goto(c, pc), Grow, TablesTyped',
           backup' = backup, batch' = batch, grants' = grants,
           CallOK(To(call[c], pc), totp', spent', DOMAIN pending', steps'),
           pc \in {"delete", "mint"} => call[c].pc = "delete" \/ call[c].code \notin BackupCodes
    PROVE  LoginInv'
<1> DEFINE q == To(call[c], pc)
<1>1. call' = [call EXCEPT ![c] = q] /\ q.pc = pc /\ q.code = call[c].code
  BY GotoIs DEF LoginInv
<1> HIDE DEF q
<1>2. \A b \in BackupCodes : Redeemed(q, b) => Redeemed(call[c], b)
  BY <1>1 DEF Redeemed
<1>3. CallOK(q, totp', spent', DOMAIN pending', steps')
  BY DEF q
<1> QED BY <1>1, <1>2, <1>3, Calm

(* A request that goes on to pc, from what holds of it at its stage.       *)
LEMMA GotoOK ==
    ASSUME LoginInv, NEW c \in Calls, NEW pc \in Stages, Goto(c, pc), Grow,
           \/ call[c].pc = "policy" /\ pc = "factor"
           \/ call[c].pc = "factor" /\ pc = "mint" /\ totp = None
           \/ call[c].pc = "lock" /\ pc = "used" /\ call[c].code \in TotpCodes
           \/ call[c].pc \in {"lock", "redeem"} /\ pc = "bump"
           \/ call[c].pc = "bump" /\ pc = "fail" /\ call[c].code \notin BackupCodes
           \/ call[c].pc = "used" /\ pc = "mark" /\ call[c].code[2] \notin steps
           \/ call[c].pc = "mark" /\ pc = "clear" /\ call[c].code[2] \in steps'
           \/ call[c].pc = "clear" /\ pc = "delete"
           \/ call[c].pc = "redeem" /\ pc = "delete"
           \/ call[c].pc = "delete" /\ pc = "mint" /\ call[c].key \notin DOMAIN pending'
           \/ call[c].pc = "had" /\ pc \in {"replace", "activate"}
           \/ pc = "codes"
    PROVE  CallOK(To(call[c], pc), totp', spent', DOMAIN pending', steps')
<1> DEFINE q == To(call[c], pc) r == call[c]
<1>1. /\ q \in CallType /\ q.pc = pc /\ q.key = r.key /\ q.code = r.code
      /\ q.began = r.began /\ q.had = r.had
  BY GotoIs DEF LoginInv
<1>2. CallOK(r, totp, spent, DOMAIN pending, steps)
  BY DEF LoginInv, CallsInv
<1>3. CallOK(r, totp', spent', DOMAIN pending', steps')
  BY Stay DEF LoginInv
<1> HIDE DEF q, r
<1>4. Formed(q)
  BY <1>1, <1>2, Kinds DEF CallOK, Formed, Answering, r
<1>5. Unfactored(q, totp')
  BY <1>1, <1>2, <1>3, Kinds DEF CallOK, Unfactored, Formed, Answering, r
<1>6. TokenHeld(q, spent', DOMAIN pending')
  BY <1>1, <1>2, <1>3, Kinds DEF CallOK, TokenHeld, Formed, ForToken, Answering, r
<1>7. StepFresh(q, steps')
  BY <1>1, <1>2, <1>3, Kinds DEF CallOK, StepFresh, Formed, Answering, r
<1> QED BY <1>4, <1>5, <1>6, <1>7 DEF CallOK, q

(* What an arriving request brings is in order: no session was given for   *)
(* the token it carries.                                                   *)
LEMMA ArrivedOK ==
    ASSUME LoginInv, NEW c \in Calls, NEW pc \in Stages,
           NEW key \in Handles \cup Tokens \cup Secrets, NEW code \in Answers \cup {None},
           Begin(c, pc, key, code), Grow,
           \/ pc = "policy" /\ key \in Handles /\ code = None
           \/ pc = "redeem" /\ key \in DOMAIN pending /\ code \in BackupCodes
           \/ pc = "secret" /\ key \in DOMAIN pending /\ code \in Answers \ BackupCodes
           \/ pc \in {"enrol", "had"} /\ key \in Secrets
    PROVE  CallOK(Arrived(pc, key, code), totp', spent', DOMAIN pending', steps')
<1> DEFINE q == Arrived(pc, key, code) B == {<<g.key, g.code>> : g \in grants}
<1>1. /\ q \in CallType /\ q.pc = pc /\ q.key = key /\ q.code = code
      /\ q.had = (totp # None) /\ q.began = B
  BY BeginIs DEF LoginInv, Arrived
<1>2. \A g \in grants : GrantOK(g, spent, DOMAIN pending, steps)
  BY DEF LoginInv, GrantsInv
<1>3. ASSUME NEW old \in B
      PROVE  /\ old[2] \in TotpCodes => old[2][2] \in steps
             /\ key \in DOMAIN pending => old[1] # key
  <2>1. PICK g \in grants : old = <<g.key, g.code>>
    OBVIOUS
  <2>2. old[1] = g.key /\ old[2] = g.code
    BY <2>1
  <2>3. DOMAIN pending \subseteq Tokens
    BY DEF LoginInv, Typed, TablesTyped
  <2> QED BY <1>2, <2>2, <2>3, Kinds DEF GrantOK
<1> HIDE DEF q, B
<1>4. Formed(q)
  <2>1. DOMAIN pending \subseteq Tokens
    BY DEF LoginInv, Typed, TablesTyped
  <2> QED BY <1>1, <2>1, Kinds DEF Formed, Answering
<1>5. Unfactored(q, totp')
  BY <1>1 DEF Unfactored, Grow
<1>6. TokenHeld(q, spent', DOMAIN pending')
  <2>1. DOMAIN pending \subseteq spent /\ spent \subseteq spent'
    BY DEF LoginInv, Typed, TablesTyped, Grow
  <2> QED BY <1>1, <1>3, <2>1 DEF TokenHeld, ForToken, Answering
<1>7. StepFresh(q, steps')
  BY <1>1, <1>3 DEF StepFresh, Grow
<1> QED BY <1>4, <1>5, <1>6, <1>7 DEF CallOK, q

(* An arriving request keeps the invariant.                                *)
LEMMA CalmBegin ==
    ASSUME LoginInv, NEW c \in Calls, NEW pc \in Stages,
           NEW key \in Handles \cup Tokens \cup Secrets, NEW code \in Answers \cup {None},
           Begin(c, pc, key, code), Grow, TablesTyped',
           backup' = backup, batch' = batch, grants' = grants,
           \/ pc = "policy" /\ key \in Handles /\ code = None
           \/ pc = "redeem" /\ key \in DOMAIN pending /\ code \in BackupCodes
           \/ pc = "secret" /\ key \in DOMAIN pending /\ code \in Answers \ BackupCodes
           \/ pc \in {"enrol", "had"} /\ key \in Secrets
    PROVE  LoginInv'
<1> DEFINE q == Arrived(pc, key, code)
<1>1. call' = [call EXCEPT ![c] = q]
  BY BeginIs DEF LoginInv
<1>2. CallOK(q, totp', spent', DOMAIN pending', steps')
  BY ArrivedOK
<1>3. q.pc = pc
  BY DEF Arrived
<1> HIDE DEF q
<1>4. \A b \in BackupCodes : ~Redeemed(q, b)
  BY <1>3 DEF Redeemed
<1> QED BY <1>1, <1>2, <1>4, Calm

(* A step that moves no request and no code.                               *)
LEMMA CalmTables ==
    ASSUME LoginInv, call' = call, Grow, TablesTyped',
           backup' = backup, batch' = batch, grants' = grants
    PROVE  LoginInv'
<1>1. CallsInv' /\ GrantsInv'
  BY Stay DEF LoginInv, CallsInv, GrantsInv
<1>2. BackupInv'
  BY DEF LoginInv, BackupInv
<1> QED BY <1>1, <1>2 DEF LoginInv, Typed

(* The password login and its policy.                                      *)
LEMMA PasswordSteps ==
    ASSUME LoginInv, NEW c \in Calls,
           \/ \E h \in Handles : LoginFinish(c, h)
           \/ Policy(c) \/ PauseForFactor(c) \/ NoFactor(c)
    PROVE  LoginInv'
<1>a. Typed /\ TablesTyped
  BY DEF LoginInv, Typed
<1>2. ASSUME NEW h \in Handles, LoginFinish(c, h) PROVE LoginInv'
  <2>1. Grow /\ TablesTyped'
    BY <1>2, <1>a DEF LoginFinish, Grow, TablesTyped, factor, lockout
  <2>2. Begin(c, "policy", h, None) /\ "policy" \in Stages
    BY <1>2 DEF LoginFinish, Stages
  <2> QED BY <1>2, <2>1, <2>2, CalmBegin DEF LoginFinish, factor
<1>3. CASE Policy(c)
  <2>1. Grow /\ TablesTyped'
    BY <1>3, <1>a DEF Policy, Grow, TablesTyped, factor, lockout, login
  <2>2. backup' = backup /\ batch' = batch /\ grants' = grants
    BY <1>3 DEF Policy, factor
  <2>3. CASE Return(c)
    BY <2>1, <2>2, <2>3, CalmReturn
  <2>4. CASE Goto(c, "factor") /\ call[c].pc = "policy"
    <3>1. "factor" \in Stages
      BY DEF Stages
    <3>2. CallOK(To(call[c], "factor"), totp', spent', DOMAIN pending', steps')
      BY <2>1, <2>4, <3>1, GotoOK
    <3> QED BY <2>1, <2>2, <2>4, <3>1, <3>2, CalmGoto
  <2> QED BY <1>3, <2>3, <2>4 DEF Policy, EnforcePolicy, At
<1>4. CASE PauseForFactor(c)
  <2>1. PICK p \in Tokens \ spent : StorePending(p) /\ spent' = spent \cup {p}
    BY <1>4 DEF PauseForFactor
  <2>2. /\ DOMAIN pending' \subseteq DOMAIN pending \cup {p}
        /\ \A q \in DOMAIN pending' : pending'[q] \in [attempts : Nat, expired : BOOLEAN]
    BY <2>1, <1>a DEF StorePending, TablesTyped
  <2>3. Grow /\ TablesTyped'
    BY <1>4, <1>a, <2>1, <2>2 DEF PauseForFactor, Grow, TablesTyped, factor, lockout, login
  <2> QED BY <1>4, <2>3, CalmReturn DEF PauseForFactor, factor
<1>5. CASE NoFactor(c)
  <2>1. Grow /\ TablesTyped'
    BY <1>5, <1>a DEF NoFactor, Grow, TablesTyped, factor, lockout, login
  <2>2. Goto(c, "mint") /\ "mint" \in Stages /\ call[c].pc = "factor" /\ totp = None
    BY <1>5 DEF NoFactor, Stages, At, HasTotp
  <2>3. CallOK(To(call[c], "mint"), totp', spent', DOMAIN pending', steps')
    BY <2>1, <2>2, GotoOK
  <2>4. call[c].code \notin BackupCodes
    BY <2>2, Kinds DEF LoginInv, CallsInv, CallOK, Formed
  <2> QED BY <1>5, <2>1, <2>2, <2>3, <2>4, CalmGoto DEF NoFactor, factor
<1> QED BY <1>2, <1>3, <1>4, <1>5

(* The statements of verify_login_totp.                                    *)
LEMMA CodeSteps ==
    ASSUME LoginInv, NEW c \in Calls,
           \/ ReadSecret(c) \/ CheckCode(c) \/ CountAttempt(c) \/ CountFailure(c)
           \/ CheckReplay(c) \/ MarkUsed(c) \/ ResetFailures(c) \/ ConsumePending(c)
    PROVE  LoginInv'
<1>a. Typed /\ TablesTyped /\ call[c] \in CallType
  BY DEF LoginInv, Typed
<1>b. Formed(call[c]) /\ TokenHeld(call[c], spent, DOMAIN pending)
  BY DEF LoginInv, CallsInv, CallOK
<1>c. {"used", "bump", "fail", "mark", "clear", "delete", "mint", "lock"} \subseteq Stages
  BY DEF Stages
<1>1. CASE ReadSecret(c)
  <2> DEFINE q == [call[c] EXCEPT !.pc = "lock", !.secret = totp]
  <2>1. Grow /\ TablesTyped'
    BY <1>1, <1>a DEF ReadSecret, Grow, TablesTyped, factor, lockout, login
  <2>2. call' = [call EXCEPT ![c] = q] /\ call[c].pc = "secret"
    BY <1>1, <1>a DEF ReadSecret, At, Typed
  <2>3. /\ q \in CallType /\ q.pc = "lock" /\ q.key = call[c].key /\ q.code = call[c].code
        /\ q.began = call[c].began /\ q.had = call[c].had
    BY <1>a, <1>c DEF CallType, TablesTyped
  <2>4. CallOK(call[c], totp', spent', DOMAIN pending', steps')
    BY <2>1, Stay DEF LoginInv
  <2> HIDE DEF q
  <2>5. CallOK(q, totp', spent', DOMAIN pending', steps')
    BY <2>2, <2>3, <2>4
       DEF CallOK, Formed, Unfactored, TokenHeld, ForToken, StepFresh, Answering
  <2>6. \A b \in BackupCodes : ~Redeemed(q, b)
    BY <2>3 DEF Redeemed
  <2> QED BY <1>1, <2>1, <2>2, <2>5, <2>6, Calm DEF ReadSecret, factor
<1>2. CASE CheckCode(c)
  <2>0. /\ call[c].pc = "lock"
        /\ \/ Return(c) /\ wrong' = wrong /\ guesses' = guesses
           \/ Goto(c, "used") /\ call[c].code \in TotpCodes /\ wrong' = wrong /\ guesses' = guesses
           \/ /\ Goto(c, "bump") /\ wrong' = wrong + 1
              /\ guesses' = [guesses EXCEPT ![call[c].key] = @ + 1]
    BY <1>2 DEF CheckCode, At, Matches
  <2>1. Grow
    BY <1>2 DEF CheckCode, Grow, factor
  <2>2. TablesTyped'
    BY <1>2, <1>a, <2>0 DEF CheckCode, TablesTyped, factor, login
  <2>3. backup' = backup /\ batch' = batch /\ grants' = grants
    BY <1>2 DEF CheckCode, factor
  <2>4. CASE Return(c)
    BY <2>1, <2>2, <2>3, <2>4, CalmReturn
  <2>5. CASE Goto(c, "used") /\ call[c].code \in TotpCodes
    <3>1. CallOK(To(call[c], "used"), totp', spent', DOMAIN pending', steps')
      BY <2>0, <2>1, <2>5, <1>c, GotoOK
    <3> QED BY <2>1, <2>2, <2>3, <2>5, <3>1, <1>c, CalmGoto
  <2>6. CASE Goto(c, "bump")
    <3>1. CallOK(To(call[c], "bump"), totp', spent', DOMAIN pending', steps')
      BY <2>0, <2>1, <2>6, <1>c, GotoOK
    <3> QED BY <2>1, <2>2, <2>3, <2>6, <3>1, <1>c, CalmGoto
  <2> QED BY <2>0, <2>4, <2>5, <2>6
<1>3. CASE CountAttempt(c)
  <2>0. /\ call[c].pc = "bump"
        /\ \/ Return(c) \/ (Goto(c, "fail") /\ call[c].code \notin BackupCodes)
    BY <1>3 DEF CountAttempt, At
  <2>1. /\ DOMAIN pending' = DOMAIN pending
        /\ \A q \in DOMAIN pending' : pending'[q] \in [attempts : Nat, expired : BOOLEAN]
    BY <1>3, <1>a DEF CountAttempt, BumpAttempts, TablesTyped
  <2>2. Grow /\ TablesTyped'
    BY <1>3, <1>a, <2>1 DEF CountAttempt, Grow, TablesTyped, factor, lockout, login
  <2>3. backup' = backup /\ batch' = batch /\ grants' = grants
    BY <1>3 DEF CountAttempt, factor
  <2>4. CASE Return(c)
    BY <2>2, <2>3, <2>4, CalmReturn
  <2>5. CASE Goto(c, "fail") /\ call[c].code \notin BackupCodes
    <3>1. CallOK(To(call[c], "fail"), totp', spent', DOMAIN pending', steps')
      BY <2>0, <2>2, <2>5, <1>c, GotoOK
    <3> QED BY <2>2, <2>3, <2>5, <3>1, <1>c, CalmGoto
  <2> QED BY <2>0, <2>4, <2>5
<1>4. CASE CountFailure(c)
  <2>1. Grow /\ TablesTyped'
    BY <1>4, <1>a DEF CountFailure, RegisterFailure, Grow, TablesTyped, factor, login
  <2> QED BY <1>4, <2>1, CalmReturn DEF CountFailure, factor
<1>5. CASE CheckReplay(c)
  <2>0. /\ call[c].pc = "used"
        /\ \/ Return(c) \/ (Goto(c, "mark") /\ call[c].code[2] \notin steps)
    BY <1>5 DEF CheckReplay, At
  <2>1. Grow /\ TablesTyped'
    BY <1>5, <1>a DEF CheckReplay, Grow, TablesTyped, factor, lockout, login
  <2>2. backup' = backup /\ batch' = batch /\ grants' = grants
    BY <1>5 DEF CheckReplay, factor
  <2>3. CASE Return(c)
    BY <2>1, <2>2, <2>3, CalmReturn
  <2>4. CASE Goto(c, "mark") /\ call[c].code[2] \notin steps
    <3>1. CallOK(To(call[c], "mark"), totp', spent', DOMAIN pending', steps')
      BY <2>0, <2>1, <2>4, <1>c, GotoOK
    <3> QED BY <2>1, <2>2, <2>4, <3>1, <1>c, CalmGoto
  <2> QED BY <2>0, <2>3, <2>4
<1>6. CASE MarkUsed(c)
  <2>0. Goto(c, "clear") /\ call[c].pc = "mark" /\ steps' = steps \cup {call[c].code[2]}
    BY <1>6 DEF MarkUsed, MarkStep, At
  <2>1. Grow /\ TablesTyped'
    BY <1>6, <1>a, <2>0 DEF MarkUsed, Grow, TablesTyped, lockout, login
  <2>2. CallOK(To(call[c], "clear"), totp', spent', DOMAIN pending', steps')
    BY <2>0, <2>1, <1>c, GotoOK
  <2> QED BY <1>6, <2>0, <2>1, <2>2, <1>c, CalmGoto DEF MarkUsed
<1>7. CASE ResetFailures(c)
  <2>0. Goto(c, "delete") /\ call[c].pc = "clear"
    BY <1>7 DEF ResetFailures, At
  <2>1. Grow /\ TablesTyped'
    BY <1>7, <1>a DEF ResetFailures, ClearFailures, Grow, TablesTyped, factor, login
  <2>2. CallOK(To(call[c], "delete"), totp', spent', DOMAIN pending', steps')
    BY <2>0, <2>1, <1>c, GotoOK
  <2>3. call[c].code \notin BackupCodes
    BY <2>0, <1>b DEF Formed
  <2> QED BY <1>7, <2>0, <2>1, <2>2, <2>3, <1>c, CalmGoto DEF ResetFailures, factor
<1>8. CASE ConsumePending(c)
  <2>0. Goto(c, "mint") /\ call[c].pc = "delete"
    BY <1>8 DEF ConsumePending, At
  <2>1. /\ DOMAIN pending' = DOMAIN pending \ {call[c].key}
        /\ \A q \in DOMAIN pending' : pending'[q] \in [attempts : Nat, expired : BOOLEAN]
    BY <1>8, <1>a DEF ConsumePending, DeletePending, TablesTyped
  <2>2. Grow /\ TablesTyped'
    BY <1>8, <1>a, <2>1 DEF ConsumePending, Grow, TablesTyped, factor, lockout, login
  <2>3. CallOK(To(call[c], "mint"), totp', spent', DOMAIN pending', steps')
    BY <2>0, <2>1, <2>2, <1>c, GotoOK
  <2> QED BY <1>8, <2>0, <2>2, <2>3, <1>c, CalmGoto DEF ConsumePending, factor
<1> QED BY <1>1, <1>2, <1>3, <1>4, <1>5, <1>6, <1>7, <1>8

(* verify_login_recovery redeems the code: of all requests, one gets it.   *)
LEMMA RedeemStep ==
    ASSUME LoginInv, NEW c \in Calls, RedeemBackup(c)
    PROVE  LoginInv'
<1>a. Typed /\ TablesTyped
  BY DEF LoginInv, Typed
<1>b. Formed(call[c]) /\ call[c].pc = "redeem"
  BY DEF LoginInv, CallsInv, CallOK, RedeemBackup, At
<1>c. {"bump", "delete"} \subseteq Stages
  BY DEF Stages
<1>d. Grow
  BY DEF RedeemBackup, Grow
<1>1. CASE Goto(c, "bump") /\ backup' = backup /\ guesses' = [guesses EXCEPT ![call[c].key] = @ + 1]
  <2>0. guesses' \in [Tokens -> Nat]
    <3>1. call[c].key \in Tokens
      BY <1>b DEF Formed, Answering
    <3>2. guesses \in [Tokens -> Nat] /\ guesses[call[c].key] + 1 \in Nat
      BY <1>a, <3>1 DEF TablesTyped
    <3> QED BY <1>1, <3>1, <3>2
  <2>1. TablesTyped'
    BY <2>0, <1>a DEF RedeemBackup, TablesTyped, login, lockout
  <2>2. CallOK(To(call[c], "bump"), totp', spent', DOMAIN pending', steps')
    BY <1>1, <1>b, <1>c, <1>d, GotoOK
  <2> QED BY <1>1, <1>c, <1>d, <2>1, <2>2, CalmGoto DEF RedeemBackup
<1>2. CASE Goto(c, "delete") /\ Redeem(call[c].code) /\ guesses' = guesses
  <2> DEFINE q == To(call[c], "delete") k == call[c].code
  <2>1. TablesTyped'
    BY <1>2, <1>a DEF RedeemBackup, TablesTyped, login, lockout
  <2>2. CallOK(q, totp', spent', DOMAIN pending', steps')
    BY <1>2, <1>b, <1>c, <1>d, GotoOK
  <2>3. call' = [call EXCEPT ![c] = q] /\ q \in CallType /\ q.pc = "delete" /\ q.code = k
    BY <1>2, <1>a, <1>c, GotoIs
  <2>4. k \in BackupCodes /\ k \in backup /\ backup' = backup \ {k}
    BY <1>2, <1>b DEF Formed, Redeem
  <2>5. /\ batch' = batch /\ grants' = grants
    BY DEF RedeemBackup
  <2> HIDE DEF q, k
  <2>6. call'[c] = q /\ \A d \in Calls \ {c} : call'[d] = call[d]
    BY <2>3, <1>a, OneMoves DEF Typed
  <2>7. \A b \in BackupCodes : Redeemed(q, b) <=> b = k
    BY <2>3, <2>4 DEF Redeemed
  <2>8. ASSUME NEW d \in Calls, NEW b \in BackupCodes
        PROVE  Redeemed(call'[d], b) <=> IF d = c THEN b = k ELSE Redeemed(call[d], b)
    BY <2>6, <2>7
  <2>9. BackupInv'
    <3>0. BackupInv /\ batch \in Nat
      BY <1>a DEF LoginInv, TablesTyped
    <3>1. k[1] = batch /\ ~(k[1] > batch)
      BY <3>0, <2>4 DEF BackupInv
    <3>2. \A d \in Calls : ~Redeemed(call[d], k)
      BY <3>0, <2>4 DEF BackupInv
    <3>3. \A g \in grants : g.code # k
      BY <3>0, <2>4 DEF BackupInv
    <3>4. ASSUME NEW b \in BackupCodes
          PROVE  /\ b \in backup' => b[1] = batch'
                 /\ b \in backup' \/ b[1] > batch' =>
                      /\ \A d \in Calls : ~Redeemed(call'[d], b)
                      /\ \A g \in grants' : g.code # b
                 /\ \A d, e \in Calls : Redeemed(call'[d], b) /\ Redeemed(call'[e], b) => d = e
                 /\ \A d \in Calls, g \in grants' : Redeemed(call'[d], b) => g.code # b
                 /\ \A g, h \in grants' : g.code = b /\ h.code = b => g = h
      <4>1. CASE b = k
        BY <4>1, <3>0, <3>1, <3>2, <3>3, <2>4, <2>5, <2>8
      <4>2. CASE b # k
        BY <4>2, <3>0, <2>4, <2>5, <2>8 DEF BackupInv
      <4> QED BY <4>1, <4>2
    <3> QED BY <3>4 DEF BackupInv
  <2>10. CallsInv' /\ call' \in [Calls -> CallType]
    BY <1>a, <1>d, <2>2, <2>3, CallsStep DEF LoginInv
  <2>11. GrantsInv'
    BY <1>d, <2>5, Stay DEF LoginInv, GrantsInv
  <2> QED BY <2>1, <2>9, <2>10, <2>11 DEF LoginInv, Typed
<1> QED BY <1>1, <1>2 DEF RedeemBackup

(* A session is written: the code and the token that paid for it are used  *)
(* up.                                                                     *)
LEMMA MintStep ==
    ASSUME LoginInv, NEW c \in Calls, Mint(c)
    PROVE  LoginInv'
<1> DEFINE key == call[c].key code == call[c].code
           t == IF code = None THEN key ELSE <<key, Cardinality({g \in grants : g.key = key})>>
           new == [key |-> key, code |-> code, session |-> t, had |-> call[c].had]
<1>a. Typed /\ TablesTyped
  BY DEF LoginInv, Typed
<1>b. CallOK(call[c], totp, spent, DOMAIN pending, steps) /\ call[c].pc = "mint"
  BY DEF LoginInv, CallsInv, Mint, At
<1>1. grants' = grants \cup {new}
  BY DEF Mint, Grant
<1>2. call' = [call EXCEPT ![c] = Idle]
  BY DEF Mint, Return
<1>3. Grow /\ TablesTyped'
  BY <1>a DEF Mint, Grow, TablesTyped, login, lockout, factor
<1>4. CallOK(Idle, totp', spent', DOMAIN pending', steps') /\ Idle.pc = "idle"
  BY IdleOK
<1>5. CallsInv' /\ call' \in [Calls -> CallType]
  BY <1>a, <1>2, <1>3, <1>4, CallsStep DEF LoginInv
<1>6. /\ new.key = key /\ new.code = code /\ new.had = call[c].had
  OBVIOUS
<1> HIDE DEF new
<1>7. GrantOK(new, spent', DOMAIN pending', steps')
  <2>1. UNCHANGED <<spent, pending, steps>>
    BY DEF Mint, factor
  <2> QED BY <1>b, <1>6, <2>1, Kinds
          DEF CallOK, Formed, Unfactored, TokenHeld, ForToken, StepFresh, GrantOK
<1>8. GrantsInv'
  BY <1>1, <1>3, <1>7, Stay DEF LoginInv, GrantsInv
<1>9. BackupInv'
  <2>1. call'[c] = Idle /\ \A d \in Calls \ {c} : call'[d] = call[d]
    BY <1>2, <1>a DEF Typed
  <2>2. backup' = backup /\ batch' = batch
    BY DEF Mint, factor
  <2>3. ASSUME NEW d \in Calls, NEW b \in BackupCodes
        PROVE  Redeemed(call'[d], b) <=> d # c /\ Redeemed(call[d], b)
    BY <2>1, <1>4 DEF Redeemed
  <2>4. \A b \in BackupCodes : code = b <=> Redeemed(call[c], b)
    BY <1>b DEF Redeemed
  <2>5. BackupInv
    BY DEF LoginInv
  <2>6. ASSUME NEW b \in BackupCodes
        PROVE  /\ b \in backup' => b[1] = batch'
               /\ b \in backup' \/ b[1] > batch' =>
                    /\ \A d \in Calls : ~Redeemed(call'[d], b)
                    /\ \A g \in grants' : g.code # b
               /\ \A d, e \in Calls : Redeemed(call'[d], b) /\ Redeemed(call'[e], b) => d = e
               /\ \A d \in Calls, g \in grants' : Redeemed(call'[d], b) => g.code # b
               /\ \A g, h \in grants' : g.code = b /\ h.code = b => g = h
    <3>1. CASE code = b
      BY <3>1, <1>1, <1>6, <2>2, <2>3, <2>4, <2>5 DEF BackupInv
    <3>2. CASE code # b
      BY <3>2, <1>1, <1>6, <2>2, <2>3, <2>4, <2>5 DEF BackupInv
    <3> QED BY <3>1, <3>2
  <2> QED BY <2>6 DEF BackupInv
<1> QED BY <1>3, <1>5, <1>8, <1>9 DEF LoginInv, Typed

(* The statements of enrolment; a new batch of codes is unused.            *)
LEMMA EnrolSteps ==
    ASSUME LoginInv, NEW c \in Calls,
           \/ \E s \in Secrets : IssueTotp(c, s) \/ VerifyEnrolment(c, s)
           \/ CreateEnrolment(c) \/ HadTotp(c) \/ ActivateTotp(c) \/ InsertCodes(c)
    PROVE  LoginInv'
<1>a. Typed /\ TablesTyped
  BY DEF LoginInv, Typed
<1>b. Formed(call[c])
  BY DEF LoginInv, CallsInv, CallOK
<1>c. {"enrol", "had", "replace", "activate", "codes"} \subseteq Stages
  BY DEF Stages
<1>1. ASSUME NEW s \in Secrets, IssueTotp(c, s) PROVE LoginInv'
  <2>1. Grow /\ TablesTyped'
    BY <1>1, <1>a DEF IssueTotp, ClearEnrolments, Grow, TablesTyped, lockout, login
  <2> QED BY <1>1, <2>1, <1>c, CalmBegin DEF IssueTotp
<1>2. ASSUME NEW s \in Secrets, VerifyEnrolment(c, s) PROVE LoginInv'
  <2>1. enrolled' \subseteq Secrets
    BY <1>2, <1>a DEF VerifyEnrolment, TablesTyped
  <2>2. Grow /\ TablesTyped'
    BY <1>2, <1>a, <2>1 DEF VerifyEnrolment, Grow, TablesTyped, lockout, login
  <2>3. CASE Begin(c, "had", s, None)
    BY <1>2, <2>2, <2>3, <1>c, CalmBegin DEF VerifyEnrolment
  <2>4. CASE UNCHANGED call
    BY <1>2, <2>2, <2>4, CalmTables DEF VerifyEnrolment
  <2> QED BY <1>2, <2>3, <2>4 DEF VerifyEnrolment
<1>3. CASE CreateEnrolment(c)
  <2>1. call[c].key \in Secrets
    BY <1>3, <1>b DEF CreateEnrolment, At, Formed
  <2>2. Grow /\ TablesTyped'
    BY <1>3, <1>a, <2>1 DEF CreateEnrolment, Grow, TablesTyped, lockout, login
  <2> QED BY <1>3, <2>2, CalmReturn DEF CreateEnrolment
<1>4. CASE HadTotp(c)
  <2>1. Grow /\ TablesTyped'
    BY <1>4, <1>a DEF HadTotp, Grow, TablesTyped, factor, lockout, login
  <2>2. PICK pc \in {"replace", "activate"} : Goto(c, pc)
    BY <1>4 DEF HadTotp
  <2>3. CallOK(To(call[c], pc), totp', spent', DOMAIN pending', steps')
    BY <1>4, <2>1, <2>2, <1>c, GotoOK DEF HadTotp, At
  <2> QED BY <1>4, <2>1, <2>2, <2>3, <1>c, CalmGoto DEF HadTotp, factor
<1>5. CASE ActivateTotp(c)
  <2>1. call[c].key \in Secrets
    BY <1>5, <1>b DEF ActivateTotp, At, Formed
  <2>2. Grow /\ TablesTyped'
    BY <1>5, <1>a, <2>1, Kinds DEF ActivateTotp, Grow, TablesTyped, lockout, login
  <2>3. CASE Return(c)
    BY <1>5, <2>2, <2>3, CalmReturn DEF ActivateTotp
  <2>4. CASE Goto(c, "codes")
    <3>1. CallOK(To(call[c], "codes"), totp', spent', DOMAIN pending', steps')
      BY <2>2, <2>4, <1>c, GotoOK
    <3> QED BY <1>5, <2>2, <2>4, <3>1, <1>c, CalmGoto DEF ActivateTotp
  <2> QED BY <1>5, <2>3, <2>4 DEF ActivateTotp
<1>6. CASE InsertCodes(c)
  <2>1. Grow /\ TablesTyped'
    BY <1>6, <1>a DEF InsertCodes, Grow, TablesTyped, lockout, login
  <2>2. call' = [call EXCEPT ![c] = Idle]
    BY <1>6 DEF InsertCodes, Return
  <2>3. CallOK(Idle, totp', spent', DOMAIN pending', steps') /\ Idle.pc = "idle"
    BY IdleOK
  <2>4. CallsInv' /\ call' \in [Calls -> CallType]
    BY <1>a, <2>1, <2>2, <2>3, CallsStep DEF LoginInv
  <2>5. GrantsInv'
    BY <1>6, <2>1, Stay DEF LoginInv, GrantsInv, InsertCodes
  <2>6. BackupInv'
    <3>1. call'[c] = Idle /\ \A d \in Calls \ {c} : call'[d] = call[d]
      BY <2>2, <1>a DEF Typed
    <3>2. ASSUME NEW d \in Calls, NEW b \in BackupCodes, Redeemed(call'[d], b)
          PROVE  Redeemed(call[d], b)
      BY <3>1, <3>2, <2>3 DEF Redeemed
    <3>3. /\ batch \in Nat /\ batch' = batch + 1 /\ backup' = {batch + 1} \X Codes
          /\ grants' = grants
      BY <1>6, <1>a DEF InsertCodes, TablesTyped
    <3>4. \A b \in BackupCodes : /\ b[1] \in Nat
                                 /\ b \in backup' => b[1] = batch'
                                 /\ b[1] = batch' \/ b[1] > batch' => b[1] > batch
      <4>1. \A b \in BackupCodes : b[1] \in Nat
        BY FS_CardinalityType, LoginAssumption DEF BackupCodes, LoginAssumption
      <4> QED BY <3>3, <4>1
    <3>5. BackupInv
      BY DEF LoginInv
    <3> QED BY <3>2, <3>3, <3>4, <3>5 DEF BackupInv
  <2> QED BY <2>1, <2>4, <2>5, <2>6 DEF LoginInv, Typed
<1> QED BY <1>1, <1>2, <1>3, <1>4, <1>5, <1>6

(* A pending token is looked up.                                           *)
LEMMA ReadStep ==
    ASSUME LoginInv, NEW c \in Calls, NEW p \in Tokens, NEW code \in Answers,
           ReadPending(c, p, code)
    PROVE  LoginInv'
<1>a. TablesTyped
  BY DEF LoginInv, Typed
<1>1. CASE DeletePending(p) /\ UNCHANGED call
  <2>1. /\ DOMAIN pending' \subseteq DOMAIN pending
        /\ \A q \in DOMAIN pending' : pending'[q] \in [attempts : Nat, expired : BOOLEAN]
    BY <1>1, <1>a DEF DeletePending, TablesTyped
  <2>2. Grow /\ TablesTyped'
    BY <1>a, <2>1 DEF ReadPending, Grow, TablesTyped, factor, lockout, login
  <2> QED BY <1>1, <2>2, CalmTables DEF ReadPending, factor
<1>2. CASE /\ Begin(c, IF code \in BackupCodes THEN "redeem" ELSE "secret", p, code)
           /\ UNCHANGED pending
  <2>1. Grow /\ TablesTyped'
    BY <1>a, <1>2 DEF ReadPending, Grow, TablesTyped, factor, lockout, login
  <2>2. p \in DOMAIN pending /\ {"redeem", "secret"} \subseteq Stages
    BY DEF ReadPending, Stages
  <2>3. backup' = backup /\ batch' = batch /\ grants' = grants
    BY DEF ReadPending, factor
  <2>4. CASE code \in BackupCodes
    <3>1. Begin(c, "redeem", p, code)
      BY <1>2, <2>4
    <3> QED BY <2>1, <2>2, <2>3, <2>4, <3>1, CalmBegin
  <2>5. CASE code \notin BackupCodes
    <3>1. Begin(c, "secret", p, code)
      BY <1>2, <2>5
    <3> QED BY <2>1, <2>2, <2>3, <2>5, <3>1, CalmBegin
  <2> QED BY <2>4, <2>5
<1> QED BY <1>1, <1>2 DEF ReadPending

(* The steps that are of no request.                                       *)
LEMMA OtherSteps ==
    ASSUME LoginInv,
           \/ \E on \in BOOLEAN : PutPolicy(on)
           \/ \E t \in sessions : EndSession(t)
           \/ \E p \in Tokens : ExpirePending(p)
           \/ LockEnds \/ Restart
    PROVE  LoginInv'
<1>a. TablesTyped
  BY DEF LoginInv, Typed
<1>1. CASE \E on \in BOOLEAN : PutPolicy(on)
  <2>1. Grow /\ TablesTyped' /\ UNCHANGED <<call, backup, batch, grants>>
    BY <1>1, <1>a DEF PutPolicy, Grow, TablesTyped, factor, lockout, login
  <2> QED BY <2>1, CalmTables
<1>2. CASE \E t \in sessions : EndSession(t)
  <2>1. Grow /\ TablesTyped' /\ UNCHANGED <<call, backup, batch, grants>>
    BY <1>2, <1>a DEF EndSession, Grow, TablesTyped, factor, lockout, login
  <2> QED BY <2>1, CalmTables
<1>3. ASSUME NEW p \in Tokens, ExpirePending(p) PROVE LoginInv'
  <2>1. /\ DOMAIN pending' = DOMAIN pending
        /\ \A q \in DOMAIN pending' : pending'[q] \in [attempts : Nat, expired : BOOLEAN]
    BY <1>3, <1>a DEF ExpirePending, TablesTyped
  <2>2. Grow /\ TablesTyped' /\ UNCHANGED <<call, backup, batch, grants>>
    BY <1>3, <1>a, <2>1 DEF ExpirePending, Grow, TablesTyped, factor, lockout, login
  <2> QED BY <2>2, CalmTables
<1>4. CASE LockEnds
  <2>1. Grow /\ TablesTyped' /\ UNCHANGED <<call, backup, batch, grants>>
    BY <1>4, <1>a DEF LockEnds, Grow, TablesTyped, factor, lockout, login
  <2> QED BY <2>1, CalmTables
<1>5. CASE Restart
  <2>1. Grow /\ TablesTyped' /\ UNCHANGED <<backup, batch, grants>>
    BY <1>5, <1>a DEF Restart, Grow, TablesTyped, factor, lockout
  <2>2. call' = [c \in Calls |-> Idle]
    BY <1>5 DEF Restart
  <2>3. CallOK(Idle, totp', spent', DOMAIN pending', steps') /\ Idle.pc = "idle"
    BY IdleOK
  <2>4. Idle \in CallType
    BY <2>3 DEF CallOK, Formed
  <2>5. \A c \in Calls, b \in BackupCodes : ~Redeemed(call'[c], b)
    BY <2>2, <2>3 DEF Redeemed
  <2>6. CallsInv' /\ call' \in [Calls -> CallType]
    BY <2>2, <2>3, <2>4 DEF CallsInv
  <2>7. GrantsInv'
    BY <2>1, Stay DEF LoginInv, GrantsInv
  <2>8. BackupInv'
    BY <2>1, <2>5 DEF LoginInv, BackupInv
  <2> QED BY <2>1, <2>6, <2>7, <2>8 DEF LoginInv, Typed
<1> QED BY <1>1, <1>2, <1>3, <1>4, <1>5

(* A login server starts in order.                                         *)
LEMMA LoginInit == Init => LoginInv
<1> SUFFICES ASSUME Init PROVE LoginInv
  OBVIOUS
<1>1. CallOK(Idle, totp, spent, DOMAIN pending, steps) /\ Idle.pc = "idle"
  BY IdleOK
<1>2. Idle \in CallType
  BY <1>1 DEF CallOK, Formed
<1>3. call = [c \in Calls |-> Idle] /\ grants = {}
  BY DEF Init
<1>4. DOMAIN pending = {}
  BY DEF Init
<1>5. Typed
  <2>1. batch \in Nat /\ totp \in Secrets \cup {None}
    BY DEF Init
  <2>2. call \in [Calls -> CallType]
    BY <1>2, <1>3
  <2>3. guesses \in [Tokens -> Nat]
    BY DEF Init
  <2> QED BY <1>4, <2>1, <2>2, <2>3 DEF Init, Typed, TablesTyped
<1>6. CallsInv /\ GrantsInv
  BY <1>1, <1>3 DEF CallsInv, GrantsInv
<1>7. BackupInv
  <2>1. \A c \in Calls, b \in BackupCodes : ~Redeemed(call[c], b)
    BY <1>1, <1>3 DEF Redeemed
  <2>2. \A b \in backup : b[1] = batch
    <3>1. backup = {} \/ (batch = 1 /\ backup = {1} \X Codes)
      BY DEF Init
    <3> QED BY <3>1
  <2> QED BY <1>3, <2>1, <2>2 DEF BackupInv
<1> QED BY <1>5, <1>6, <1>7 DEF LoginInv

(* Every step keeps logins, tokens, codes and sessions in order.           *)
LEMMA LoginNext == LoginInv /\ [Next]_vars => LoginInv'
<1> SUFFICES ASSUME LoginInv, [Next]_vars PROVE LoginInv'
  OBVIOUS
<1>1. ASSUME NEW h \in Handles, LoginStart(h) PROVE LoginInv'
  <2>1. Grow /\ TablesTyped' /\ UNCHANGED <<call, backup, batch, grants>>
    BY <1>1 DEF LoginInv, Typed, LoginStart, Grow, TablesTyped, factor, lockout
  <2> QED BY <2>1, CalmTables
<1>2. ASSUME NEW c \in Calls, NEW h \in Handles, LoginFinish(c, h) PROVE LoginInv'
  BY <1>2, PasswordSteps
<1>3. ASSUME NEW c \in Calls, NEW p \in Tokens, NEW code \in Answers, ReadPending(c, p, code)
      PROVE  LoginInv'
  BY <1>3, ReadStep
<1>4. ASSUME NEW c \in Calls, NEW s \in Secrets, IssueTotp(c, s) \/ VerifyEnrolment(c, s)
      PROVE  LoginInv'
  BY <1>4, EnrolSteps
<1>5. ASSUME NEW c \in Calls, Step(c) PROVE LoginInv'
  <2>1. CASE Policy(c) \/ PauseForFactor(c) \/ NoFactor(c)
    BY <2>1, PasswordSteps
  <2>2. CASE Mint(c)
    BY <2>2, MintStep
  <2>3. CASE \/ ReadSecret(c) \/ CheckCode(c) \/ CountAttempt(c) \/ CountFailure(c)
             \/ CheckReplay(c) \/ MarkUsed(c) \/ ResetFailures(c) \/ ConsumePending(c)
    BY <2>3, CodeSteps
  <2>4. CASE RedeemBackup(c)
    BY <2>4, RedeemStep
  <2>5. CASE CreateEnrolment(c) \/ HadTotp(c) \/ ActivateTotp(c) \/ InsertCodes(c)
    BY <2>5, EnrolSteps
  <2> QED BY <1>5, <2>1, <2>2, <2>3, <2>4, <2>5 DEF Step
<1>6. CASE \/ \E on \in BOOLEAN : PutPolicy(on)
           \/ \E t \in sessions : EndSession(t)
           \/ \E p \in Tokens : ExpirePending(p)
           \/ LockEnds \/ Restart
  BY <1>6, OtherSteps
<1>7. CASE UNCHANGED vars
  <2>1. Grow /\ TablesTyped' /\ UNCHANGED <<call, backup, batch, grants>>
    BY <1>7 DEF LoginInv, Typed, vars, Grow, TablesTyped, factor, lockout, login
  <2> QED BY <2>1, CalmTables
<1> QED BY <1>1, <1>2, <1>3, <1>4, <1>5, <1>6, <1>7 DEF Next

(* The inductive invariant of logins.                                      *)
LEMMA LoginInvariant == Spec => []LoginInv
  BY LoginInit, LoginNext, PTL DEF Spec

(* However requests overlap, a backup code gives at most one session: the  *)
(* conditional UPDATE of redeem_recovery_code lets one request through,    *)
(* and no batch of codes is ever issued twice.                             *)
THEOREM BackupCodeUsedOnce == Spec => []BackupCodeOnce
<1>1. LoginInv => BackupCodeOnce
  <2> SUFFICES ASSUME LoginInv, NEW g \in grants, NEW h \in grants,
                      g.code \in BackupCodes, g.code = h.code
               PROVE  g = h
    BY DEF BackupCodeOnce
  <2> QED BY DEF LoginInv, BackupInv
<1> QED BY <1>1, LoginInvariant, PTL

(* An account that had a second factor when login_finish began gives no    *)
(* session without it: an active secret is replaced, never taken away.     *)
THEOREM FactorAlwaysHonoured == Spec => []FactorHonoured
<1>1. LoginInv => FactorHonoured
  BY DEF LoginInv, GrantsInv, GrantOK, FactorHonoured
<1> QED BY <1>1, LoginInvariant, PTL

(* A pending token or a one-time code that gave a session gives none to a  *)
(* request that begins after it: the token is deleted and the step marked  *)
(* before the session is written, and neither ever comes back.             *)
THEOREM SingleUseAlways == Spec => SingleUse
<1> DEFINE Once == \A c \in Calls, g \in grants' \ grants :
             (call'[c] # call[c] /\ g.code # None) =>
               \A old \in call[c].began :
                 /\ old[1] # g.key
                 /\ (old[2] \in TotpCodes /\ g.code \in TotpCodes)
                      => old[2][2] # g.code[2]
<1>1. LoginInv /\ [Next]_vars => [Once]_vars
  <2> SUFFICES ASSUME LoginInv, Next, NEW c \in Calls, NEW g \in grants' \ grants,
                      call'[c] # call[c], g.code # None, NEW old \in call[c].began
               PROVE  /\ old[1] # g.key
                      /\ (old[2] \in TotpCodes /\ g.code \in TotpCodes)
                           => old[2][2] # g.code[2]
    OBVIOUS
  <2>1. PICK d \in Calls : Mint(d)
    <3>1. grants' # grants
      OBVIOUS
    <3> QED BY <3>1
       DEF Next, Step, LoginStart, LoginFinish, Policy, PauseForFactor, NoFactor, ReadPending,
           ReadSecret, CheckCode, CountAttempt, CountFailure, CheckReplay, MarkUsed,
           ResetFailures, ConsumePending, RedeemBackup, IssueTotp, CreateEnrolment,
           VerifyEnrolment, HadTotp, ActivateTotp, InsertCodes, PutPolicy, EndSession,
           ExpirePending, LockEnds, Restart
  <2>2. d = c
    BY <2>1 DEF Mint, Return, LoginInv, Typed
  <2>3. g.key = call[c].key /\ g.code = call[c].code
    BY <2>1, <2>2 DEF Mint, Grant
  <2>4. CallOK(call[c], totp, spent, DOMAIN pending, steps) /\ call[c].pc = "mint"
    BY <2>1, <2>2 DEF LoginInv, CallsInv, Mint, At
  <2> QED BY <2>3, <2>4 DEF CallOK, TokenHeld, ForToken, StepFresh
<1> QED BY <1>1, LoginInvariant, PTL DEF Spec, SingleUse

-----------------------------------------------------------------------------
(* Wrong answers                                                           *)

(* What one request adds to the three counts.                              *)
asks(r, p) == IF r.key = p /\ r.pc \in {"secret", "lock", "redeem"} THEN 1 ELSE 0
owes(r, p) == IF r.key = p /\ r.pc = "bump" THEN 1 ELSE 0
fails1(r) == IF r.pc = "fail" \/ (r.pc = "bump" /\ r.code \notin BackupCodes) THEN 1 ELSE 0

(* Two finite sets that differ in one element at most.                     *)
LEMMA CardMoves ==
    ASSUME NEW S, NEW T, NEW c, IsFiniteSet(S), IsFiniteSet(T), S \ {c} = T \ {c}
    PROVE  /\ Cardinality(S) \in Nat /\ Cardinality(T) \in Nat
           /\ Cardinality(T) = Cardinality(S) + (IF c \in T THEN 1 ELSE 0)
                                              - (IF c \in S THEN 1 ELSE 0)
<1>1. Cardinality(S) \in Nat /\ Cardinality(T) \in Nat
  BY FS_CardinalityType
<1>2. Cardinality(S \ {c}) = IF c \in S THEN Cardinality(S) - 1 ELSE Cardinality(S)
  BY FS_RemoveElement
<1>3. Cardinality(T \ {c}) = IF c \in T THEN Cardinality(T) - 1 ELSE Cardinality(T)
  BY FS_RemoveElement
<1>4. Cardinality(S \ {c}) = Cardinality(T \ {c})
  OBVIOUS
<1> QED BY <1>1, <1>2, <1>3, <1>4

(* The counted requests are finitely many, and no more than there are.     *)
LEMMA CountBounds ==
    ASSUME NEW f, NEW p
    PROVE  /\ Cardinality(Calls) \in Nat /\ (Calls # {} => Cardinality(Calls) >= 1)
           /\ IsFiniteSet(Asking(f, p)) /\ IsFiniteSet(Uncharged(f, p)) /\ IsFiniteSet(Failing(f))
           /\ Cardinality(Asking(f, p)) \in Nat /\ Cardinality(Uncharged(f, p)) \in Nat
           /\ Cardinality(Failing(f)) \in Nat /\ Cardinality(Failing(f)) <= Cardinality(Calls)
           /\ Cardinality(Asking(f, p)) + Cardinality(Uncharged(f, p)) <= Cardinality(Calls)
<1>1. IsFiniteSet(Calls)
  BY LoginAssumption DEF LoginAssumption
<1>2. /\ Asking(f, p) \in SUBSET Calls /\ Uncharged(f, p) \in SUBSET Calls
      /\ Failing(f) \in SUBSET Calls
      /\ Asking(f, p) \cap Uncharged(f, p) = {}
  BY DEF Asking, Uncharged, Failing
<1>3. /\ IsFiniteSet(Asking(f, p)) /\ IsFiniteSet(Uncharged(f, p)) /\ IsFiniteSet(Failing(f))
      /\ Cardinality(Failing(f)) <= Cardinality(Calls)
  BY <1>1, <1>2, FS_Subset
<1>4. /\ Cardinality(Calls) \in Nat
      /\ Cardinality(Asking(f, p)) \in Nat /\ Cardinality(Uncharged(f, p)) \in Nat
      /\ Cardinality(Failing(f)) \in Nat
  BY <1>1, <1>3, FS_CardinalityType
<1>5. Cardinality(Asking(f, p)) + Cardinality(Uncharged(f, p)) <= Cardinality(Calls)
  <2> DEFINE U == Asking(f, p) \cup Uncharged(f, p)
  <2>1. U \in SUBSET Calls
    BY <1>2
  <2>2. Cardinality(U) <= Cardinality(Calls)
    BY <1>1, <2>1, FS_Subset
  <2>3. Cardinality(U) = Cardinality(Asking(f, p)) + Cardinality(Uncharged(f, p))
                           - Cardinality(Asking(f, p) \cap Uncharged(f, p))
    BY <1>3, FS_Union
  <2>4. Cardinality(Asking(f, p) \cap Uncharged(f, p)) = 0
    BY <1>2, FS_EmptySet
  <2> HIDE DEF U
  <2> QED BY <1>4, <2>2, <2>3, <2>4
<1>6. Calls # {} => Cardinality(Calls) >= 1
  <2>1. Cardinality(Calls) = 0 <=> Calls = {}
    BY <1>1, FS_EmptySet
  <2> QED BY <1>4, <2>1
<1> QED BY <1>3, <1>4, <1>5, <1>6

(* How a step of one request changes the counts.                           *)
LEMMA CountMoves ==
    ASSUME Typed, NEW c \in Calls, NEW r \in CallType, call' = [call EXCEPT ![c] = r], NEW p
    PROVE  /\ Cardinality(Asking(call', p)) =
                Cardinality(Asking(call, p)) + asks(r, p) - asks(call[c], p)
           /\ Cardinality(Uncharged(call', p)) =
                Cardinality(Uncharged(call, p)) + owes(r, p) - owes(call[c], p)
           /\ Cardinality(Failing(call')) =
                Cardinality(Failing(call)) + fails1(r) - fails1(call[c])
<1>1. call'[c] = r /\ \A d \in Calls \ {c} : call'[d] = call[d]
  BY OneMoves DEF Typed
<1>2. /\ IsFiniteSet(Asking(call, p)) /\ IsFiniteSet(Uncharged(call, p)) /\ IsFiniteSet(Failing(call))
      /\ IsFiniteSet(Asking(call', p)) /\ IsFiniteSet(Uncharged(call', p))
      /\ IsFiniteSet(Failing(call'))
  BY CountBounds
<1>3. /\ Asking(call, p) \ {c} = Asking(call', p) \ {c}
      /\ c \in Asking(call', p) <=> r.key = p /\ r.pc \in {"secret", "lock", "redeem"}
      /\ c \in Asking(call, p) <=> call[c].key = p /\ call[c].pc \in {"secret", "lock", "redeem"}
  BY <1>1 DEF Asking
<1>4. /\ Uncharged(call, p) \ {c} = Uncharged(call', p) \ {c}
      /\ c \in Uncharged(call', p) <=> r.key = p /\ r.pc = "bump"
      /\ c \in Uncharged(call, p) <=> call[c].key = p /\ call[c].pc = "bump"
  BY <1>1 DEF Uncharged
<1>5. /\ Failing(call) \ {c} = Failing(call') \ {c}
      /\ c \in Failing(call') <=> r.pc = "fail" \/ (r.pc = "bump" /\ r.code \notin BackupCodes)
      /\ c \in Failing(call) <=>
           call[c].pc = "fail" \/ (call[c].pc = "bump" /\ call[c].code \notin BackupCodes)
  BY <1>1 DEF Failing
<1>6. Cardinality(Asking(call', p)) =
        Cardinality(Asking(call, p)) + asks(r, p) - asks(call[c], p)
  <2>1. Cardinality(Asking(call', p)) = Cardinality(Asking(call, p)) + (IF c \in Asking(call', p) THEN 1 ELSE 0)
                                              - (IF c \in Asking(call, p) THEN 1 ELSE 0)
    BY <1>2, <1>3, CardMoves
  <2> QED BY <2>1, <1>3 DEF asks
<1>7. Cardinality(Uncharged(call', p)) =
        Cardinality(Uncharged(call, p)) + owes(r, p) - owes(call[c], p)
  <2>1. Cardinality(Uncharged(call', p)) = Cardinality(Uncharged(call, p)) + (IF c \in Uncharged(call', p) THEN 1 ELSE 0)
                                              - (IF c \in Uncharged(call, p) THEN 1 ELSE 0)
    BY <1>2, <1>4, CardMoves
  <2> QED BY <2>1, <1>4 DEF owes
<1>8. Cardinality(Failing(call')) =
        Cardinality(Failing(call)) + fails1(r) - fails1(call[c])
  <2>1. Cardinality(Failing(call')) = Cardinality(Failing(call)) + (IF c \in Failing(call') THEN 1 ELSE 0)
                                              - (IF c \in Failing(call) THEN 1 ELSE 0)
    BY <1>2, <1>5, CardMoves
  <2> QED BY <2>1, <1>5 DEF fails1
<1> QED BY <1>6, <1>7, <1>8

(* The allowance for restarts grows by one request each.                   *)
LEMMA LostBounds ==
    ASSUME TablesTyped
    PROVE  /\ Lost \in Nat /\ Slack \in Int
           /\ Slack = Cardinality(Calls) - 1 + Lost
           /\ restarts' = restarts => Lost' = Lost /\ Slack' = Slack
           /\ restarts' = restarts + 1 => /\ Lost' = Lost + Cardinality(Calls)
                                          /\ Slack' = Slack + Cardinality(Calls)
<1> DEFINE N == Cardinality(Calls)
<1>1. N \in Nat /\ restarts \in Nat
  BY CountBounds DEF TablesTyped
<1> HIDE DEF N
<1>2. restarts * N \in Nat /\ (restarts + 1) * N = restarts * N + N
  BY <1>1, SMT
<1>3. Lost = restarts * N /\ Lost' = restarts' * N
  BY DEF Lost, N
<1>4. Slack = N - 1 + Lost /\ Slack' = N - 1 + Lost'
  BY DEF Slack, N
<1> QED BY <1>1, <1>2, <1>3, <1>4 DEF N

(* The rows of tokens keep their charges, and new rows are of new tokens.  *)
RowsKept ==
    \A p \in DOMAIN pending' :
      \/ p \in DOMAIN pending /\ pending'[p].attempts = pending[p].attempts
      \/ p \notin spent

(* The counts are numbers.                                                 *)
LEMMA OneEach ==
    ASSUME NEW r, NEW p
    PROVE  asks(r, p) \in {0, 1} /\ owes(r, p) \in {0, 1} /\ fails1(r) \in {0, 1}
  BY DEF asks, owes, fails1

(* A step of one request that asks for no more answers and charges none.   *)
LEMMA TokenCalm ==
    ASSUME LoginInv, TokenGuesses, TablesTyped', NEW c \in Calls, NEW r \in CallType,
           call' = [call EXCEPT ![c] = r], guesses' = guesses, restarts' = restarts,
           spent \subseteq spent', RowsKept,
           \A p \in Tokens : asks(r, p) <= asks(call[c], p) /\ owes(r, p) >= owes(call[c], p)
    PROVE  TokenGuesses'
<1>a. Typed /\ TablesTyped
  BY DEF LoginInv, Typed
<1> SUFFICES ASSUME NEW p \in Tokens
             PROVE  /\ p \notin spent' => guesses'[p] = 0
                    /\ guesses'[p] + Cardinality(Asking(call', p)) <= MaxAttempts + Slack'
                    /\ p \in DOMAIN pending' =>
                         guesses'[p] <= pending'[p].attempts + Cardinality(Uncharged(call', p)) + Lost'
  BY DEF TokenGuesses
<1>1. /\ Cardinality(Asking(call', p)) =
           Cardinality(Asking(call, p)) + asks(r, p) - asks(call[c], p)
      /\ Cardinality(Uncharged(call', p)) =
           Cardinality(Uncharged(call, p)) + owes(r, p) - owes(call[c], p)
  BY <1>a, CountMoves
<1>2. /\ Cardinality(Asking(call, p)) \in Nat /\ Cardinality(Uncharged(call, p)) \in Nat
      /\ Cardinality(Asking(call', p)) \in Nat /\ Cardinality(Uncharged(call', p)) \in Nat
  BY CountBounds
<1>3. Lost \in Nat /\ Slack \in Int /\ Lost' = Lost /\ Slack' = Slack
  BY <1>a, LostBounds
<1>4. /\ asks(r, p) \in {0, 1} /\ asks(call[c], p) \in {0, 1}
      /\ owes(r, p) \in {0, 1} /\ owes(call[c], p) \in {0, 1}
  BY OneEach
<1>5. /\ p \notin spent => guesses[p] = 0
      /\ guesses[p] + Cardinality(Asking(call, p)) <= MaxAttempts + Slack
      /\ p \in DOMAIN pending =>
           guesses[p] <= pending[p].attempts + Cardinality(Uncharged(call, p)) + Lost
  BY DEF TokenGuesses
<1>6. guesses[p] \in Nat /\ MaxAttempts \in Nat
  BY <1>a, LoginAssumption DEF TablesTyped, LoginAssumption
<1>7. /\ p \in DOMAIN pending => pending[p].attempts \in Nat
      /\ p \in DOMAIN pending' => pending'[p].attempts \in Nat
  BY <1>a DEF TablesTyped
<1>8. asks(r, p) <= asks(call[c], p) /\ owes(r, p) >= owes(call[c], p)
  OBVIOUS
<1>9. guesses[p] + Cardinality(Asking(call', p)) <= MaxAttempts + Slack
  BY <1>1, <1>2, <1>3, <1>4, <1>5, <1>6, <1>8
<1>10. ASSUME p \in DOMAIN pending'
       PROVE  guesses[p] <= pending'[p].attempts + Cardinality(Uncharged(call', p)) + Lost
  <2>1. CASE p \notin spent
    BY <2>1, <1>10, <1>2, <1>3, <1>5, <1>7
  <2>2. CASE p \in DOMAIN pending /\ pending'[p].attempts = pending[p].attempts
    BY <2>2, <1>10, <1>1, <1>2, <1>3, <1>4, <1>5, <1>6, <1>7, <1>8
  <2> QED BY <1>10, <2>1, <2>2 DEF RowsKept
<1> QED BY <1>3, <1>5, <1>9, <1>10

(* A step that moves no request.                                           *)
LEMMA TokenStill ==
    ASSUME LoginInv, TokenGuesses, TablesTyped', call' = call, guesses' = guesses,
           restarts' = restarts, spent \subseteq spent', RowsKept
    PROVE  TokenGuesses'
<1>a. TablesTyped
  BY DEF LoginInv, Typed
<1>1. Lost \in Nat /\ Lost' = Lost /\ Slack' = Slack
  BY <1>a, LostBounds
<1>2. ASSUME NEW p \in Tokens, p \in DOMAIN pending'
      PROVE  guesses[p] <= pending'[p].attempts + Cardinality(Uncharged(call, p)) + Lost
  <2>1. Cardinality(Uncharged(call, p)) \in Nat /\ pending'[p].attempts \in Nat
    BY <1>2, CountBounds DEF TablesTyped
  <2>2. CASE p \notin spent
    <3>1. guesses[p] = 0
      BY <2>2 DEF TokenGuesses
    <3> QED BY <3>1, <2>1, <1>1
  <2>3. CASE p \in DOMAIN pending /\ pending'[p].attempts = pending[p].attempts
    BY <2>3 DEF TokenGuesses
  <2> QED BY <1>2, <2>2, <2>3 DEF RowsKept
<1> QED BY <1>1, <1>2 DEF TokenGuesses

(* A step of one request that leaves the account's count alone.            *)
LEMMA AccountCalm ==
    ASSUME LoginInv, AccountGuesses, NEW c \in Calls, NEW r \in CallType,
           call' = [call EXCEPT ![c] = r],
           fails' = fails, locked' = locked, wrong' = wrong, restarts' = restarts,
           fails1(r) >= fails1(call[c])
    PROVE  AccountGuesses'
<1>a. Typed /\ TablesTyped
  BY DEF LoginInv, Typed
<1> DEFINE F == Cardinality(Failing(call)) F2 == Cardinality(Failing(call'))
           base == IF fails < MaxFails THEN fails ELSE 0
<1>1. F2 = F + fails1(r) - fails1(call[c])
  BY <1>a, CountMoves
<1>2. F \in Nat /\ F2 \in Nat
  BY CountBounds
<1>3. Lost \in Nat /\ Lost' = Lost /\ Slack' = Slack
  BY <1>a, LostBounds
<1>4. fails1(r) \in {0, 1} /\ fails1(call[c]) \in {0, 1}
  BY OneEach
<1>5. base \in Nat /\ wrong \in Nat
  BY <1>a DEF TablesTyped
<1>6. /\ wrong <= MaxFails + Slack
      /\ ~locked => wrong <= base + F + Lost
  BY DEF AccountGuesses
<1> HIDE DEF F, F2, base
<1>7. ~locked => wrong <= base + F2 + Lost
  BY <1>1, <1>2, <1>3, <1>4, <1>5, <1>6
<1> QED BY <1>3, <1>6, <1>7 DEF AccountGuesses, F2, base

(* A step that moves no request and leaves the account alone.              *)
LEMMA AccountStill ==
    ASSUME LoginInv, AccountGuesses, call' = call,
           fails' = fails, locked' = locked, wrong' = wrong, restarts' = restarts
    PROVE  AccountGuesses'
<1>1. Lost' = Lost /\ Slack' = Slack
  BY LostBounds DEF LoginInv, Typed
<1> QED BY <1>1 DEF AccountGuesses

(* What a step leaves as it was, when it is not about answers.             *)
Quiet ==
    /\ TablesTyped' /\ spent \subseteq spent' /\ RowsKept
    /\ UNCHANGED <<guesses, restarts, fails, locked, wrong>>

(* A quiet step of a request that owes nothing and asks no more.           *)
LEMMA QuietMove ==
    ASSUME LoginInv, GuessInv, Quiet, NEW c \in Calls, NEW r \in CallType,
           call' = [call EXCEPT ![c] = r],
           \A p \in Tokens : asks(r, p) <= asks(call[c], p) /\ owes(r, p) >= owes(call[c], p),
           fails1(r) >= fails1(call[c])
    PROVE  GuessInv'
  BY TokenCalm, AccountCalm DEF GuessInv, Quiet

(* Its cases: the request ends, goes on, or has just arrived.              *)
LEMMA QuietCases ==
    ASSUME LoginInv, GuessInv, Quiet, NEW c \in Calls,
           call[c].pc \notin {"bump", "fail"},
           \/ Return(c)
           \/ \E pc \in Stages : Goto(c, pc) /\ pc \notin {"secret", "lock", "redeem"}
           \/ \E pc \in Stages, key \in Handles \cup Tokens \cup Secrets, code \in Answers \cup {None} :
                Begin(c, pc, key, code) /\ pc \notin {"secret", "lock", "redeem"}
    PROVE  GuessInv'
<1>a. Typed /\ GrantsInv
  BY DEF LoginInv
<1>0. \A p : owes(call[c], p) = 0 /\ fails1(call[c]) = 0 /\ asks(call[c], p) \in {0, 1}
  BY OneEach DEF owes, fails1
<1>1. ASSUME NEW r \in CallType, call' = [call EXCEPT ![c] = r],
             r.pc \notin {"secret", "lock", "redeem"}
      PROVE  GuessInv'
  <2>1. \A p \in Tokens : asks(r, p) = 0 /\ owes(r, p) \in {0, 1} /\ fails1(r) \in {0, 1}
    BY <1>1, OneEach DEF asks
  <2>2. fails1(r) \in {0, 1}
    BY OneEach
  <2>3. \A p \in Tokens : asks(r, p) <= asks(call[c], p) /\ owes(r, p) >= owes(call[c], p)
    BY <2>1, <1>0
  <2>4. fails1(r) >= fails1(call[c])
    BY <2>2, <1>0
  <2> QED BY <1>1, <2>3, <2>4, QuietMove
<1>2. CASE Return(c)
  <2>1. Idle \in CallType /\ Idle.pc = "idle"
    BY IdleOK DEF CallOK, Formed
  <2> QED BY <1>1, <1>2, <2>1 DEF Return
<1>3. ASSUME NEW pc \in Stages, Goto(c, pc), pc \notin {"secret", "lock", "redeem"}
      PROVE  GuessInv'
  <2>1. /\ call' = [call EXCEPT ![c] = To(call[c], pc)] /\ To(call[c], pc) \in CallType
        /\ To(call[c], pc).pc = pc
    BY <1>3, <1>a, GotoIs
  <2> QED BY <1>1, <1>3, <2>1
<1>4. ASSUME NEW pc \in Stages, NEW key \in Handles \cup Tokens \cup Secrets,
             NEW code \in Answers \cup {None},
             Begin(c, pc, key, code), pc \notin {"secret", "lock", "redeem"}
      PROVE  GuessInv'
  <2>1. /\ call' = [call EXCEPT ![c] = Arrived(pc, key, code)] /\ Arrived(pc, key, code) \in CallType
    BY <1>4, <1>a, BeginIs
  <2>2. Arrived(pc, key, code).pc = pc
    BY DEF Arrived
  <2> QED BY <1>1, <1>4, <2>1, <2>2
<1> QED BY <1>2, <1>3, <1>4

(* What holds of the counts of one token, before a step.                   *)
LEMMA TokenFacts ==
    ASSUME LoginInv, TokenGuesses, NEW p \in Tokens
    PROVE  /\ guesses[p] \in Nat /\ MaxAttempts \in Nat /\ MaxAttempts >= 1
           /\ p \notin spent => guesses[p] = 0
           /\ guesses[p] + Cardinality(Asking(call, p)) <= MaxAttempts + Slack
           /\ p \in DOMAIN pending =>
                /\ pending[p].attempts \in Nat
                /\ guesses[p] <= pending[p].attempts + Cardinality(Uncharged(call, p)) + Lost
           /\ Lost \in Nat /\ Slack \in Int /\ Slack = Cardinality(Calls) - 1 + Lost
<1>1. TablesTyped
  BY DEF LoginInv, Typed
<1>2. guesses[p] \in Nat /\ MaxAttempts \in Nat /\ MaxAttempts >= 1
  BY <1>1, LoginAssumption DEF TablesTyped, LoginAssumption
<1>3. p \in DOMAIN pending => pending[p].attempts \in Nat
  BY <1>1 DEF TablesTyped
<1>4. Lost \in Nat /\ Slack \in Int /\ Slack = Cardinality(Calls) - 1 + Lost
  BY <1>1, LostBounds
<1> QED BY <1>2, <1>3, <1>4 DEF TokenGuesses

(* A wrong answer: the request has used its turn and owes a charge.        *)
LEMMA WrongAnswer ==
    ASSUME LoginInv, TokenGuesses, NEW c \in Calls, call[c].pc \in {"lock", "redeem"},
           Goto(c, "bump"), guesses' = [guesses EXCEPT ![call[c].key] = @ + 1],
           UNCHANGED <<pending, spent, restarts>>
    PROVE  TokenGuesses'
<1> DEFINE q == To(call[c], "bump") k == call[c].key
<1>a. Typed /\ TablesTyped
  BY DEF LoginInv, Typed
<1>b. k \in Tokens /\ k \in spent
  BY DEF LoginInv, CallsInv, CallOK, Formed, TokenHeld, ForToken, Answering
<1>1. /\ call' = [call EXCEPT ![c] = q] /\ q \in CallType /\ q.pc = "bump" /\ q.key = k
  <2>1. "bump" \in Stages
    BY DEF Stages
  <2> QED BY <2>1, <1>a, GotoIs
<1>2. Lost' = Lost /\ Slack' = Slack
  BY <1>a, LostBounds
<1> SUFFICES ASSUME NEW p \in Tokens
             PROVE  /\ p \notin spent' => guesses'[p] = 0
                    /\ guesses'[p] + Cardinality(Asking(call', p)) <= MaxAttempts + Slack'
                    /\ p \in DOMAIN pending' =>
                         guesses'[p] <= pending'[p].attempts + Cardinality(Uncharged(call', p)) + Lost'
  BY DEF TokenGuesses
<1> HIDE DEF q
<1>3. /\ Cardinality(Asking(call', p)) =
           Cardinality(Asking(call, p)) + asks(q, p) - asks(call[c], p)
      /\ Cardinality(Uncharged(call', p)) =
           Cardinality(Uncharged(call, p)) + owes(q, p) - owes(call[c], p)
  BY <1>a, <1>1, CountMoves
<1>4. /\ Cardinality(Asking(call, p)) \in Nat /\ Cardinality(Uncharged(call, p)) \in Nat
  BY CountBounds
<1>5. /\ asks(q, p) = 0 /\ owes(call[c], p) = 0
      /\ asks(call[c], p) = (IF p = k THEN 1 ELSE 0) /\ owes(q, p) = (IF p = k THEN 1 ELSE 0)
  BY <1>1 DEF asks, owes
<1>6. guesses'[p] = guesses[p] + (IF p = k THEN 1 ELSE 0)
  BY <1>a, <1>b DEF TablesTyped
<1>7. /\ guesses[p] \in Nat /\ MaxAttempts \in Nat
      /\ p \notin spent => guesses[p] = 0
      /\ guesses[p] + Cardinality(Asking(call, p)) <= MaxAttempts + Slack
      /\ p \in DOMAIN pending =>
           /\ pending[p].attempts \in Nat
           /\ guesses[p] <= pending[p].attempts + Cardinality(Uncharged(call, p)) + Lost
      /\ Lost \in Nat /\ Slack \in Int
  BY TokenFacts
<1>8. guesses'[p] + Cardinality(Asking(call', p)) <= MaxAttempts + Slack
  BY <1>3, <1>4, <1>5, <1>6, <1>7
<1>9. p \in DOMAIN pending =>
        guesses'[p] <= pending[p].attempts + Cardinality(Uncharged(call', p)) + Lost
  BY <1>3, <1>4, <1>5, <1>6, <1>7
<1>10. p \notin spent => guesses'[p] = 0
  BY <1>b, <1>6, <1>7
<1> QED BY <1>2, <1>8, <1>9, <1>10

(* A wrong answer is charged to its token.                                 *)
LEMMA Charged ==
    ASSUME LoginInv, TokenGuesses, NEW c \in Calls, call[c].pc = "bump",
           NEW q \in CallType, call' = [call EXCEPT ![c] = q],
           q.pc \notin {"secret", "lock", "redeem", "bump"},
           BumpAttempts(call[c].key), UNCHANGED <<guesses, spent, restarts>>
    PROVE  TokenGuesses'
<1> DEFINE k == call[c].key
<1>a. Typed /\ TablesTyped
  BY DEF LoginInv, Typed
<1>2. Lost' = Lost /\ Slack' = Slack
  BY <1>a, LostBounds
<1> SUFFICES ASSUME NEW p \in Tokens
             PROVE  /\ p \notin spent' => guesses'[p] = 0
                    /\ guesses'[p] + Cardinality(Asking(call', p)) <= MaxAttempts + Slack'
                    /\ p \in DOMAIN pending' =>
                         guesses'[p] <= pending'[p].attempts + Cardinality(Uncharged(call', p)) + Lost'
  BY DEF TokenGuesses
<1>3. /\ Cardinality(Asking(call', p)) =
           Cardinality(Asking(call, p)) + asks(q, p) - asks(call[c], p)
      /\ Cardinality(Uncharged(call', p)) =
           Cardinality(Uncharged(call, p)) + owes(q, p) - owes(call[c], p)
  BY <1>a, CountMoves
<1>4. /\ Cardinality(Asking(call, p)) \in Nat /\ Cardinality(Uncharged(call, p)) \in Nat
  BY CountBounds
<1>5. /\ asks(q, p) = 0 /\ owes(q, p) = 0 /\ asks(call[c], p) = 0
      /\ owes(call[c], p) = (IF p = k THEN 1 ELSE 0)
  BY DEF asks, owes
<1>6. /\ DOMAIN pending' = DOMAIN pending
      /\ p \in DOMAIN pending =>
           pending'[p].attempts = pending[p].attempts + (IF p = k THEN 1 ELSE 0)
  BY <1>a DEF BumpAttempts, TablesTyped
<1>7. /\ guesses[p] \in Nat /\ MaxAttempts \in Nat
      /\ p \notin spent => guesses[p] = 0
      /\ guesses[p] + Cardinality(Asking(call, p)) <= MaxAttempts + Slack
      /\ p \in DOMAIN pending =>
           /\ pending[p].attempts \in Nat
           /\ guesses[p] <= pending[p].attempts + Cardinality(Uncharged(call, p)) + Lost
      /\ Lost \in Nat /\ Slack \in Int
  BY TokenFacts
<1>8. guesses[p] + Cardinality(Asking(call', p)) <= MaxAttempts + Slack
  BY <1>3, <1>4, <1>5, <1>7
<1>9. p \in DOMAIN pending =>
        guesses[p] <= pending'[p].attempts + Cardinality(Uncharged(call', p)) + Lost
  BY <1>3, <1>4, <1>5, <1>6, <1>7
<1> QED BY <1>2, <1>6, <1>7, <1>8, <1>9

(* A token that is not refused admits one more answer: its charges are     *)
(* below the limit and every other open answer is of another request.      *)
LEMMA Admitted ==
    ASSUME LoginInv, TokenGuesses, NEW c \in Calls, call[c].pc = "idle",
           NEW q \in CallType, call' = [call EXCEPT ![c] = q],
           q.pc \in {"secret", "redeem"}, q.key \in DOMAIN pending, ~Refused(q.key),
           UNCHANGED <<guesses, spent, restarts, pending>>
    PROVE  TokenGuesses'
<1>a. Typed /\ TablesTyped
  BY DEF LoginInv, Typed
<1>2. Lost' = Lost /\ Slack' = Slack
  BY <1>a, LostBounds
<1> SUFFICES ASSUME NEW p \in Tokens
             PROVE  /\ p \notin spent' => guesses'[p] = 0
                    /\ guesses'[p] + Cardinality(Asking(call', p)) <= MaxAttempts + Slack'
                    /\ p \in DOMAIN pending' =>
                         guesses'[p] <= pending'[p].attempts + Cardinality(Uncharged(call', p)) + Lost'
  BY DEF TokenGuesses
<1>3. /\ Cardinality(Asking(call', p)) =
           Cardinality(Asking(call, p)) + asks(q, p) - asks(call[c], p)
      /\ Cardinality(Uncharged(call', p)) =
           Cardinality(Uncharged(call, p)) + owes(q, p) - owes(call[c], p)
  BY <1>a, CountMoves
<1>4. /\ Cardinality(Asking(call, p)) \in Nat /\ Cardinality(Uncharged(call, p)) \in Nat
      /\ Cardinality(Asking(call', p)) \in Nat /\ Cardinality(Uncharged(call', p)) \in Nat
      /\ Cardinality(Calls) \in Nat
      /\ Cardinality(Asking(call', p)) + Cardinality(Uncharged(call', p)) <= Cardinality(Calls)
  BY CountBounds
<1>5. /\ asks(q, p) = (IF p = q.key THEN 1 ELSE 0) /\ owes(q, p) = 0
      /\ asks(call[c], p) = 0 /\ owes(call[c], p) = 0
  BY DEF asks, owes
<1>6. p = q.key => p \in DOMAIN pending /\ ~(pending[p].attempts >= MaxAttempts)
  BY DEF Refused
<1>7. /\ guesses[p] \in Nat /\ MaxAttempts \in Nat
      /\ p \notin spent => guesses[p] = 0
      /\ guesses[p] + Cardinality(Asking(call, p)) <= MaxAttempts + Slack
      /\ p \in DOMAIN pending =>
           /\ pending[p].attempts \in Nat
           /\ guesses[p] <= pending[p].attempts + Cardinality(Uncharged(call, p)) + Lost
      /\ Lost \in Nat /\ Slack \in Int /\ Slack = Cardinality(Calls) - 1 + Lost
  BY TokenFacts
<1>8. guesses[p] + Cardinality(Asking(call', p)) <= MaxAttempts + Slack
  <2>1. CASE p = q.key
    BY <2>1, <1>3, <1>4, <1>5, <1>6, <1>7
  <2>2. CASE p # q.key
    BY <2>2, <1>3, <1>4, <1>5, <1>7
  <2> QED BY <2>1, <2>2
<1>9. p \in DOMAIN pending =>
        guesses[p] <= pending[p].attempts + Cardinality(Uncharged(call', p)) + Lost
  BY <1>3, <1>4, <1>5, <1>7
<1> QED BY <1>2, <1>7, <1>8, <1>9

(* What holds of the account's counts, before a step.                      *)
LEMMA AccountFacts ==
    ASSUME LoginInv, AccountGuesses
    PROVE  /\ fails \in Nat /\ wrong \in Nat /\ MaxFails \in Nat /\ MaxFails >= 1
           /\ locked \in BOOLEAN
           /\ wrong <= MaxFails + Slack
           /\ ~locked => wrong <= (IF fails < MaxFails THEN fails ELSE 0)
                                    + Cardinality(Failing(call)) + Lost
           /\ Lost \in Nat /\ Slack \in Int /\ Slack = Cardinality(Calls) - 1 + Lost
           /\ Cardinality(Failing(call)) \in Nat
           /\ Cardinality(Calls) \in Nat /\ MaxFails + Slack >= 0
<1>1. TablesTyped
  BY DEF LoginInv, Typed
<1>2. /\ fails \in Nat /\ wrong \in Nat /\ locked \in BOOLEAN /\ MaxFails \in Nat
      /\ MaxFails >= 1
  BY <1>1, LoginAssumption DEF TablesTyped, LoginAssumption
<1>3. Lost \in Nat /\ Slack \in Int /\ Slack = Cardinality(Calls) - 1 + Lost
  BY <1>1, LostBounds
<1>4. Cardinality(Calls) \in Nat /\ Cardinality(Failing(call)) \in Nat
  BY CountBounds
<1>5. MaxFails + Slack >= 0
  BY <1>2, <1>3, <1>4
<1> QED BY <1>2, <1>3, <1>4, <1>5 DEF AccountGuesses

(* A wrong code of an account that is not locked.                          *)
LEMMA WrongCode ==
    ASSUME LoginInv, AccountGuesses, NEW c \in Calls, call[c].pc = "lock",
           Goto(c, "bump"), ~locked, wrong' = wrong + 1,
           UNCHANGED <<fails, locked, restarts>>
    PROVE  AccountGuesses'
<1> DEFINE q == To(call[c], "bump") F == Cardinality(Failing(call)) F2 == Cardinality(Failing(call'))
           base == IF fails < MaxFails THEN fails ELSE 0
<1>a. Typed /\ TablesTyped
  BY DEF LoginInv, Typed
<1>1. /\ call' = [call EXCEPT ![c] = q] /\ q \in CallType /\ q.pc = "bump"
      /\ q.code = call[c].code
  <2>1. "bump" \in Stages
    BY DEF Stages
  <2> QED BY <2>1, <1>a, GotoIs
<1>2. call[c].code \notin BackupCodes
  BY DEF LoginInv, CallsInv, CallOK, Formed
<1> HIDE DEF q
<1>3. F2 = F + fails1(q) - fails1(call[c])
  BY <1>a, <1>1, CountMoves
<1>4. fails1(q) = 1 /\ fails1(call[c]) = 0
  BY <1>1, <1>2 DEF fails1
<1>5. Lost' = Lost /\ Slack' = Slack
  BY <1>a, LostBounds
<1>6. F2 <= Cardinality(Calls) /\ F2 \in Nat
  BY CountBounds
<1>7. /\ fails \in Nat /\ wrong \in Nat /\ MaxFails \in Nat /\ MaxFails >= 1
      /\ wrong <= base + F + Lost
      /\ Lost \in Nat /\ Slack = Cardinality(Calls) - 1 + Lost
      /\ F \in Nat /\ Cardinality(Calls) \in Nat
  BY AccountFacts
<1>8. base \in Nat /\ base <= MaxFails - 1
  BY <1>7
<1> HIDE DEF F, F2, base
<1>9. wrong + 1 <= base + F2 + Lost /\ wrong + 1 <= MaxFails + Slack
  BY <1>3, <1>4, <1>6, <1>7, <1>8
<1> QED BY <1>5, <1>9 DEF AccountGuesses, F2, base

(* A wrong code is charged to the account, which may lock it.              *)
LEMMA FailureCounted ==
    ASSUME LoginInv, AccountGuesses, NEW c \in Calls, call[c].pc = "fail",
           Return(c), RegisterFailure, UNCHANGED restarts
    PROVE  AccountGuesses'
<1> DEFINE F == Cardinality(Failing(call)) F2 == Cardinality(Failing(call'))
<1>a. Typed /\ TablesTyped
  BY DEF LoginInv, Typed
<1>1. call' = [call EXCEPT ![c] = Idle] /\ Idle \in CallType /\ Idle.pc = "idle"
  BY IdleOK DEF Return, CallOK, Formed
<1>3. F2 = F + fails1(Idle) - fails1(call[c])
  BY <1>a, <1>1, CountMoves
<1>4. fails1(Idle) = 0 /\ fails1(call[c]) = 1
  BY <1>1 DEF fails1
<1>5. Lost' = Lost /\ Slack' = Slack
  BY <1>a, LostBounds
<1>6. F2 \in Nat
  BY CountBounds
<1>7. /\ fails \in Nat /\ wrong \in Nat /\ MaxFails \in Nat /\ locked \in BOOLEAN
      /\ wrong <= MaxFails + Slack
      /\ ~locked => wrong <= (IF fails < MaxFails THEN fails ELSE 0) + F + Lost
      /\ Lost \in Nat /\ F \in Nat
  BY AccountFacts
<1>8. /\ fails' = fails + 1 /\ wrong' = wrong
      /\ ~locked' => ~locked /\ fails + 1 < MaxFails
  <2>1. /\ fails' = fails + 1 /\ wrong' = wrong
        /\ locked' = (locked \/ fails + 1 >= MaxFails)
    BY DEF RegisterFailure
  <2>2. ~(fails + 1 >= MaxFails) => fails + 1 < MaxFails
    BY <1>7
  <2> QED BY <2>1, <2>2
<1> HIDE DEF F, F2
<1>9. ~locked' => wrong' <= (IF fails' < MaxFails THEN fails' ELSE 0) + F2 + Lost
  BY <1>3, <1>4, <1>6, <1>7, <1>8
<1> QED BY <1>5, <1>7, <1>8, <1>9 DEF AccountGuesses, F2

(* The account's count starts again, after a success or a lock.            *)
LEMMA CountReset ==
    ASSUME LoginInv, AccountGuesses, wrong' = 0, UNCHANGED restarts, TablesTyped'
    PROVE  AccountGuesses'
<1>1. Lost' = Lost /\ Slack' = Slack /\ Lost \in Nat
  BY LostBounds DEF LoginInv, Typed
<1>2. Cardinality(Failing(call')) \in Nat
  BY CountBounds
<1>3. MaxFails + Slack >= 0
  BY AccountFacts
<1>4. (IF fails' < MaxFails THEN fails' ELSE 0) \in Nat
  BY DEF TablesTyped
<1>5. 0 <= (IF fails' < MaxFails THEN fails' ELSE 0) + Cardinality(Failing(call')) + Lost
  BY <1>1, <1>2, <1>4
<1> QED BY <1>1, <1>3, <1>5 DEF AccountGuesses

(* A restart loses as many charges as there are requests, at most.         *)
LEMMA RestartCounts ==
    ASSUME LoginInv, GuessInv, Restart
    PROVE  GuessInv'
<1>a. TablesTyped
  BY DEF LoginInv, Typed
<1>1. /\ restarts' = restarts + 1 /\ call' = [c \in Calls |-> Idle]
      /\ UNCHANGED <<pending, fails, locked, wrong, spent, guesses>>
  BY DEF Restart, lockout
<1>2. Lost' = Lost + Cardinality(Calls) /\ Slack' = Slack + Cardinality(Calls)
  BY <1>a, <1>1, LostBounds
<1>3. Idle.pc = "idle"
  BY IdleOK
<1>4. Failing(call') = {} /\ \A p : Asking(call', p) = {} /\ Uncharged(call', p) = {}
  BY <1>1, <1>3 DEF Failing, Asking, Uncharged
<1>5. /\ Cardinality(Failing(call')) = 0
      /\ \A p : Cardinality(Asking(call', p)) = 0 /\ Cardinality(Uncharged(call', p)) = 0
  BY <1>4, FS_EmptySet
<1>6. Cardinality(Calls) \in Nat /\ Cardinality(Failing(call)) <= Cardinality(Calls)
  BY CountBounds
<1>7. AccountGuesses'
  <2> DEFINE base == IF fails < MaxFails THEN fails ELSE 0
             F == Cardinality(Failing(call))
  <2>1. /\ wrong \in Nat /\ MaxFails \in Nat /\ fails \in Nat
        /\ wrong <= MaxFails + Slack
        /\ ~locked => wrong <= base + F + Lost
        /\ Lost \in Nat /\ Slack \in Int /\ F \in Nat
    BY AccountFacts DEF GuessInv
  <2>2. base \in Nat
    BY <2>1
  <2> HIDE DEF base, F
  <2>3. F <= Cardinality(Calls)
    BY <1>6 DEF F
  <2>4. wrong <= MaxFails + Slack'
    BY <1>2, <1>6, <2>1
  <2>5. ~locked => wrong <= base + 0 + Lost'
    BY <1>2, <1>6, <2>1, <2>2, <2>3
  <2> QED BY <1>1, <1>5, <2>4, <2>5 DEF AccountGuesses, base
<1>8. TokenGuesses'
  <2> SUFFICES ASSUME NEW p \in Tokens
               PROVE  /\ p \notin spent => guesses[p] = 0
                      /\ guesses[p] + 0 <= MaxAttempts + Slack'
                      /\ p \in DOMAIN pending => guesses[p] <= pending[p].attempts + 0 + Lost'
    BY <1>1, <1>5 DEF TokenGuesses
  <2> DEFINE A == Cardinality(Asking(call, p)) U == Cardinality(Uncharged(call, p))
  <2>1. /\ guesses[p] \in Nat /\ MaxAttempts \in Nat
        /\ p \notin spent => guesses[p] = 0
        /\ guesses[p] + A <= MaxAttempts + Slack
        /\ p \in DOMAIN pending =>
             /\ pending[p].attempts \in Nat
             /\ guesses[p] <= pending[p].attempts + U + Lost
        /\ Lost \in Nat /\ Slack \in Int
    BY TokenFacts DEF GuessInv
  <2>2. A \in Nat /\ U \in Nat /\ A + U <= Cardinality(Calls)
    BY CountBounds
  <2> HIDE DEF A, U
  <2> QED BY <1>2, <1>6, <2>1, <2>2
<1> QED BY <1>7, <1>8 DEF GuessInv

(* The checks and statements that leave the counts alone.                  *)
LEMMA QuietSteps ==
    ASSUME LoginInv, GuessInv, TablesTyped', NEW c \in Calls,
           \/ \E h \in Handles : LoginFinish(c, h)
           \/ \E s \in Secrets : IssueTotp(c, s) \/ VerifyEnrolment(c, s)
           \/ Policy(c) \/ PauseForFactor(c) \/ NoFactor(c) \/ Mint(c)
           \/ CheckReplay(c) \/ MarkUsed(c) \/ ConsumePending(c)
           \/ CreateEnrolment(c) \/ HadTotp(c) \/ ActivateTotp(c) \/ InsertCodes(c)
    PROVE  GuessInv'
<1> DEFINE Moved == \/ Return(c)
                    \/ \E pc \in Stages : Goto(c, pc) /\ pc \notin {"secret", "lock", "redeem"}
                    \/ \E pc \in Stages, key \in Handles \cup Tokens \cup Secrets,
                          code \in Answers \cup {None} :
                         Begin(c, pc, key, code) /\ pc \notin {"secret", "lock", "redeem"}
<1>a. TablesTyped
  BY DEF LoginInv, Typed
<1>b. {"policy", "enrol", "had", "factor", "mint", "mark", "clear", "replace", "activate", "codes"}
        \subseteq Stages
  BY DEF Stages
<1>c. ASSUME pending' = pending PROVE RowsKept
  BY <1>c DEF RowsKept
<1>d. ASSUME Quiet, Moved, call[c].pc \notin {"bump", "fail"} PROVE GuessInv'
  BY <1>d, QuietCases
<1>1. ASSUME NEW h \in Handles, LoginFinish(c, h) PROVE GuessInv'
  <2>1. Quiet
    BY <1>1, <1>c DEF LoginFinish, Quiet, lockout
  <2>2. Begin(c, "policy", h, None) /\ call[c].pc = "idle"
    BY <1>1 DEF LoginFinish, Begin, At
  <2> QED BY <2>1, <2>2, <1>b, <1>d
<1>2. ASSUME NEW s \in Secrets, IssueTotp(c, s) PROVE GuessInv'
  <2>1. Quiet
    BY <1>2, <1>c DEF IssueTotp, Quiet, lockout
  <2>2. Begin(c, "enrol", s, None) /\ call[c].pc = "idle"
    BY <1>2 DEF IssueTotp, Begin, At
  <2> QED BY <2>1, <2>2, <1>b, <1>d
<1>3. ASSUME NEW s \in Secrets, VerifyEnrolment(c, s) PROVE GuessInv'
  <2>1. Quiet
    BY <1>3, <1>c DEF VerifyEnrolment, Quiet, lockout
  <2>2. CASE Begin(c, "had", s, None)
    <3>1. call[c].pc = "idle"
      BY <2>2 DEF Begin, At
    <3> QED BY <2>1, <2>2, <3>1, <1>b, <1>d
  <2>3. CASE call' = call
    BY <2>1, <2>3, TokenStill, AccountStill DEF Quiet, GuessInv
  <2> QED BY <1>3, <2>2, <2>3 DEF VerifyEnrolment
<1>4. CASE Policy(c)
  <2>1. Quiet
    BY <1>4, <1>c DEF Policy, Quiet, lockout
  <2>2. (Return(c) \/ Goto(c, "factor")) /\ call[c].pc = "policy"
    BY <1>4 DEF Policy, EnforcePolicy, At
  <2> QED BY <2>1, <2>2, <1>b, <1>d
<1>5. CASE PauseForFactor(c)
  <2>1. PICK p \in Tokens \ spent : StorePending(p) /\ spent' = spent \cup {p}
    BY <1>5 DEF PauseForFactor
  <2>2. RowsKept
    BY <2>1 DEF RowsKept, StorePending
  <2>3. Quiet
    BY <1>5, <2>1, <2>2 DEF PauseForFactor, Quiet, lockout
  <2>4. Return(c) /\ call[c].pc = "factor"
    BY <1>5 DEF PauseForFactor, At
  <2> QED BY <2>3, <2>4, <1>d
<1>6. CASE NoFactor(c)
  <2>1. Quiet
    BY <1>6, <1>c DEF NoFactor, Quiet, lockout
  <2>2. Goto(c, "mint") /\ call[c].pc = "factor"
    BY <1>6 DEF NoFactor, At
  <2> QED BY <2>1, <2>2, <1>b, <1>d
<1>7. CASE Mint(c)
  <2>1. Quiet
    BY <1>7, <1>c DEF Mint, Quiet, lockout
  <2>2. Return(c) /\ call[c].pc = "mint"
    BY <1>7 DEF Mint, At
  <2> QED BY <2>1, <2>2, <1>d
<1>8. CASE CheckReplay(c)
  <2>1. Quiet
    BY <1>8, <1>c DEF CheckReplay, Quiet, lockout
  <2>2. (Return(c) \/ Goto(c, "mark")) /\ call[c].pc = "used"
    BY <1>8 DEF CheckReplay, At
  <2> QED BY <2>1, <2>2, <1>b, <1>d
<1>9. CASE MarkUsed(c)
  <2>1. Quiet
    BY <1>9, <1>c DEF MarkUsed, Quiet, lockout
  <2>2. Goto(c, "clear") /\ call[c].pc = "mark"
    BY <1>9 DEF MarkUsed, At
  <2> QED BY <2>1, <2>2, <1>b, <1>d
<1>10. CASE ConsumePending(c)
  <2>1. RowsKept
    BY <1>10 DEF ConsumePending, DeletePending, RowsKept
  <2>2. Quiet
    BY <1>10, <2>1 DEF ConsumePending, Quiet, lockout
  <2>3. Goto(c, "mint") /\ call[c].pc = "delete"
    BY <1>10 DEF ConsumePending, At
  <2> QED BY <2>2, <2>3, <1>b, <1>d
<1>11. CASE CreateEnrolment(c)
  <2>1. Quiet
    BY <1>11, <1>c DEF CreateEnrolment, Quiet, lockout
  <2>2. Return(c) /\ call[c].pc = "enrol"
    BY <1>11 DEF CreateEnrolment, At
  <2> QED BY <2>1, <2>2, <1>d
<1>12. CASE HadTotp(c)
  <2>1. Quiet
    BY <1>12, <1>c DEF HadTotp, Quiet, lockout
  <2>2. (Goto(c, "replace") \/ Goto(c, "activate")) /\ call[c].pc = "had"
    BY <1>12 DEF HadTotp, At
  <2> QED BY <2>1, <2>2, <1>b, <1>d
<1>13. CASE ActivateTotp(c)
  <2>1. Quiet
    BY <1>13, <1>c DEF ActivateTotp, Quiet, lockout
  <2>2. (Return(c) \/ Goto(c, "codes")) /\ call[c].pc \in {"replace", "activate"}
    BY <1>13 DEF ActivateTotp, At
  <2> QED BY <2>1, <2>2, <1>b, <1>d
<1>14. CASE InsertCodes(c)
  <2>1. Quiet
    BY <1>14, <1>c DEF InsertCodes, Quiet, lockout
  <2>2. Return(c) /\ call[c].pc = "codes"
    BY <1>14 DEF InsertCodes, At
  <2> QED BY <2>1, <2>2, <1>d
<1> QED BY <1>1, <1>2, <1>3, <1>4, <1>5, <1>6, <1>7, <1>8, <1>9, <1>10, <1>11, <1>12, <1>13, <1>14

(* The statements that check, count and forgive answers.                   *)
LEMMA CountingSteps ==
    ASSUME LoginInv, GuessInv, TablesTyped', NEW c \in Calls,
           \/ \E p \in Tokens, code \in Answers : ReadPending(c, p, code)
           \/ ReadSecret(c) \/ CheckCode(c) \/ CountAttempt(c) \/ CountFailure(c)
           \/ ResetFailures(c) \/ RedeemBackup(c)
    PROVE  GuessInv'
<1>a. Typed /\ TablesTyped /\ GrantsInv /\ TokenGuesses /\ AccountGuesses /\ call[c] \in CallType
  BY DEF LoginInv, Typed, GuessInv
<1>b. {"lock", "used", "bump", "fail", "delete", "secret", "redeem"} \subseteq Stages
  BY DEF Stages
<1>c. ASSUME pending' = pending PROVE RowsKept
  BY <1>c DEF RowsKept
<1>i. Idle \in CallType /\ Idle.pc = "idle"
  BY IdleOK DEF CallOK, Formed
<1>1. ASSUME NEW p \in Tokens, NEW code \in Answers, ReadPending(c, p, code) PROVE GuessInv'
  <2>1. UNCHANGED <<fails, locked, wrong, spent, guesses, restarts>> /\ p \in DOMAIN pending
    BY <1>1 DEF ReadPending, lockout
  <2>2. CASE DeletePending(p) /\ UNCHANGED call
    <3>1. RowsKept
      BY <2>2 DEF DeletePending, RowsKept
    <3> QED BY <1>a, <2>1, <2>2, <3>1, TokenStill, AccountStill DEF GuessInv
  <2>3. ASSUME NEW pc \in {"redeem", "secret"}, Begin(c, pc, p, code), UNCHANGED pending, ~Refused(p)
        PROVE  GuessInv'
    <3> DEFINE q == Arrived(pc, p, code)
    <3>1. call' = [call EXCEPT ![c] = q] /\ q \in CallType /\ call[c].pc = "idle"
      BY <2>3, <1>a, <1>b, BeginIs
    <3>2. q.pc = pc /\ q.key = p
      BY DEF Arrived
    <3> HIDE DEF q
    <3>3. TokenGuesses'
      BY <1>a, <2>1, <2>3, <3>1, <3>2, Admitted
    <3>4. fails1(q) = 0 /\ fails1(call[c]) = 0
      BY <3>1, <3>2 DEF fails1
    <3>5. fails1(q) >= fails1(call[c])
      BY <3>4
    <3>6. AccountGuesses'
      BY <1>a, <2>1, <3>1, <3>5, AccountCalm
    <3> QED BY <3>3, <3>6 DEF GuessInv
  <2> QED BY <1>1, <2>2, <2>3 DEF ReadPending
<1>2. CASE ReadSecret(c)
  <2> DEFINE q == [call[c] EXCEPT !.pc = "lock", !.secret = totp]
  <2>1. Quiet
    BY <1>2, <1>c DEF ReadSecret, Quiet, lockout
  <2>2. call' = [call EXCEPT ![c] = q] /\ call[c].pc = "secret"
    BY <1>2, <1>a DEF ReadSecret, At, Typed
  <2>3. q \in CallType /\ q.pc = "lock" /\ q.key = call[c].key
    BY <1>a, <1>b DEF CallType, TablesTyped
  <2> HIDE DEF q
  <2>4. \A p \in Tokens : asks(q, p) = asks(call[c], p) /\ owes(q, p) = 0 /\ owes(call[c], p) = 0
    BY <2>2, <2>3 DEF asks, owes
  <2>5. fails1(q) = 0 /\ fails1(call[c]) = 0
    BY <2>2, <2>3 DEF fails1
  <2>6. \A p \in Tokens : asks(q, p) <= asks(call[c], p) /\ owes(q, p) >= owes(call[c], p)
    BY <2>4, OneEach
  <2>7. fails1(q) >= fails1(call[c])
    BY <2>5
  <2> QED BY <2>1, <2>2, <2>3, <2>6, <2>7, QuietMove
<1>3. CASE CheckCode(c)
  <2>1. /\ call[c].pc = "lock"
        /\ UNCHANGED <<pending, fails, locked, restarts, spent>>
        /\ \/ (Return(c) \/ Goto(c, "used")) /\ wrong' = wrong /\ guesses' = guesses
           \/ /\ Goto(c, "bump") /\ wrong' = wrong + 1 /\ ~locked
              /\ guesses' = [guesses EXCEPT ![call[c].key] = @ + 1]
    BY <1>3 DEF CheckCode, At
  <2>2. CASE (Return(c) \/ Goto(c, "used")) /\ wrong' = wrong /\ guesses' = guesses
    <3>1. Quiet
      BY <2>1, <2>2, <1>c DEF Quiet
    <3> QED BY <2>1, <2>2, <3>1, <1>b, QuietCases
  <2>3. CASE /\ Goto(c, "bump") /\ wrong' = wrong + 1 /\ ~locked
             /\ guesses' = [guesses EXCEPT ![call[c].key] = @ + 1]
    <3>1. TokenGuesses'
      BY <1>a, <2>1, <2>3, WrongAnswer
    <3>2. AccountGuesses'
      BY <1>a, <2>1, <2>3, WrongCode
    <3> QED BY <3>1, <3>2 DEF GuessInv
  <2> QED BY <2>1, <2>2, <2>3
<1>4. CASE CountAttempt(c)
  <2>1. /\ call[c].pc = "bump" /\ BumpAttempts(call[c].key)
        /\ UNCHANGED <<fails, locked, wrong, restarts, spent, guesses>>
        /\ IF call[c].code \in BackupCodes THEN Return(c) ELSE Goto(c, "fail")
    BY <1>4 DEF CountAttempt, At, lockout
  <2>2. ASSUME NEW q \in CallType, call' = [call EXCEPT ![c] = q],
               q.pc \notin {"secret", "lock", "redeem", "bump"}, fails1(q) >= fails1(call[c])
        PROVE  GuessInv'
    <3>1. TokenGuesses'
      BY <1>a, <2>1, <2>2, Charged
    <3>2. AccountGuesses'
      BY <1>a, <2>1, <2>2, AccountCalm
    <3> QED BY <3>1, <3>2 DEF GuessInv
  <2>3. CASE call[c].code \in BackupCodes
    <3>1. call' = [call EXCEPT ![c] = Idle]
      BY <2>1, <2>3 DEF Return
    <3>2. fails1(Idle) = 0 /\ fails1(call[c]) = 0
      BY <2>1, <2>3, <1>i DEF fails1
    <3>3. fails1(Idle) >= fails1(call[c])
      BY <3>2
    <3> QED BY <3>1, <3>3, <2>2, <1>i
  <2>4. CASE call[c].code \notin BackupCodes
    <3> DEFINE q == To(call[c], "fail")
    <3>1. call' = [call EXCEPT ![c] = q] /\ q \in CallType /\ q.pc = "fail"
      BY <2>1, <2>4, <1>a, <1>b, GotoIs
    <3> HIDE DEF q
    <3>2. fails1(q) = 1 /\ fails1(call[c]) = 1
      BY <2>1, <2>4, <3>1 DEF fails1
    <3>3. fails1(q) >= fails1(call[c])
      BY <3>2
    <3> QED BY <3>1, <3>3, <2>2
  <2> QED BY <2>3, <2>4
<1>5. CASE CountFailure(c)
  <2>1. /\ call[c].pc = "fail" /\ RegisterFailure /\ Return(c)
        /\ UNCHANGED <<pending, restarts, spent, guesses>>
    BY <1>5 DEF CountFailure, At
  <2>2. AccountGuesses'
    BY <1>a, <2>1, FailureCounted
  <2>3. \A p \in Tokens : /\ asks(Idle, p) = 0 /\ asks(call[c], p) = 0
                          /\ owes(Idle, p) = 0 /\ owes(call[c], p) = 0
    BY <1>i, <2>1 DEF asks, owes
  <2>4. \A p \in Tokens : asks(Idle, p) <= asks(call[c], p) /\ owes(Idle, p) >= owes(call[c], p)
    BY <2>3
  <2>5. TokenGuesses'
    BY <1>a, <1>c, <1>i, <2>1, <2>4, TokenCalm DEF Return
  <2> QED BY <2>2, <2>5 DEF GuessInv
<1>6. CASE ResetFailures(c)
  <2> DEFINE q == To(call[c], "delete")
  <2>1. /\ call[c].pc = "clear" /\ Goto(c, "delete") /\ wrong' = 0
        /\ UNCHANGED <<pending, restarts, spent, guesses>>
    BY <1>6 DEF ResetFailures, ClearFailures, At
  <2>2. AccountGuesses'
    BY <1>a, <2>1, CountReset
  <2>3. call' = [call EXCEPT ![c] = q] /\ q \in CallType /\ q.pc = "delete"
    BY <2>1, <1>a, <1>b, GotoIs
  <2> HIDE DEF q
  <2>4. \A p \in Tokens : /\ asks(q, p) = 0 /\ asks(call[c], p) = 0
                          /\ owes(q, p) = 0 /\ owes(call[c], p) = 0
    BY <2>1, <2>3 DEF asks, owes
  <2>5. \A p \in Tokens : asks(q, p) <= asks(call[c], p) /\ owes(q, p) >= owes(call[c], p)
    BY <2>4
  <2>6. TokenGuesses'
    BY <1>a, <1>c, <2>1, <2>3, <2>5, TokenCalm
  <2> QED BY <2>2, <2>6 DEF GuessInv
<1>7. CASE RedeemBackup(c)
  <2>1. /\ call[c].pc = "redeem"
        /\ UNCHANGED <<pending, fails, locked, wrong, restarts, spent>>
        /\ \/ Goto(c, "delete") /\ guesses' = guesses
           \/ Goto(c, "bump") /\ guesses' = [guesses EXCEPT ![call[c].key] = @ + 1]
    BY <1>7 DEF RedeemBackup, At, lockout
  <2>2. CASE Goto(c, "delete") /\ guesses' = guesses
    <3>1. Quiet
      BY <2>1, <2>2, <1>c DEF Quiet
    <3> QED BY <2>1, <2>2, <3>1, <1>b, QuietCases
  <2>3. CASE Goto(c, "bump") /\ guesses' = [guesses EXCEPT ![call[c].key] = @ + 1]
    <3> DEFINE q == To(call[c], "bump")
    <3>1. TokenGuesses'
      BY <1>a, <2>1, <2>3, WrongAnswer
    <3>2. call' = [call EXCEPT ![c] = q] /\ q \in CallType
      BY <2>3, <1>a, <1>b, GotoIs
    <3> HIDE DEF q
    <3>3. fails1(q) \in {0, 1} /\ fails1(call[c]) = 0
      BY <2>1, OneEach DEF fails1
    <3>4. fails1(q) >= fails1(call[c])
      BY <3>3
    <3>5. AccountGuesses'
      BY <1>a, <2>1, <3>2, <3>4, AccountCalm
    <3> QED BY <3>1, <3>5 DEF GuessInv
  <2> QED BY <2>1, <2>2, <2>3
<1> QED BY <1>1, <1>2, <1>3, <1>4, <1>5, <1>6, <1>7

(* Steps of no request.                                                    *)
LEMMA StillSteps ==
    ASSUME LoginInv, GuessInv, TablesTyped',
           \/ \E h \in Handles : LoginStart(h)
           \/ \E on \in BOOLEAN : PutPolicy(on)
           \/ \E t \in sessions : EndSession(t)
           \/ \E p \in Tokens : ExpirePending(p)
           \/ LockEnds \/ UNCHANGED vars
    PROVE  GuessInv'
<1>a. TablesTyped /\ TokenGuesses /\ AccountGuesses
  BY DEF LoginInv, Typed, GuessInv
<1>b. ASSUME call' = call, guesses' = guesses, restarts' = restarts, spent \subseteq spent',
             RowsKept, UNCHANGED <<fails, locked, wrong>>
      PROVE  GuessInv'
  BY <1>a, <1>b, TokenStill, AccountStill DEF GuessInv
<1>c. ASSUME pending' = pending PROVE RowsKept
  BY <1>c DEF RowsKept
<1>1. ASSUME NEW h \in Handles, LoginStart(h) PROVE GuessInv'
  BY <1>1, <1>b, <1>c DEF LoginStart, lockout
<1>2. ASSUME NEW on, PutPolicy(on) PROVE GuessInv'
  BY <1>2, <1>b, <1>c DEF PutPolicy, lockout
<1>3. ASSUME NEW t, EndSession(t) PROVE GuessInv'
  BY <1>3, <1>b, <1>c DEF EndSession, lockout
<1>4. ASSUME NEW p, ExpirePending(p) PROVE GuessInv'
  <2>1. RowsKept
    BY <1>4, <1>a DEF ExpirePending, RowsKept, TablesTyped
  <2> QED BY <1>4, <1>b, <2>1 DEF ExpirePending, lockout
<1>5. CASE LockEnds
  <2>1. /\ wrong' = 0 /\ UNCHANGED <<call, guesses, restarts, spent, pending>>
    BY <1>5 DEF LockEnds
  <2>2. AccountGuesses'
    BY <1>a, <2>1, CountReset
  <2>3. TokenGuesses'
    BY <1>a, <1>c, <2>1, TokenStill
  <2> QED BY <2>2, <2>3 DEF GuessInv
<1>6. CASE UNCHANGED vars
  BY <1>6, <1>b, <1>c DEF vars, lockout
<1> QED BY <1>1, <1>2, <1>3, <1>4, <1>5, <1>6

(* Wrong answers are bounded, for a token and for the account, but for the *)
(* requests that overlap and those that a restart cut short: the checks of *)
(* verify_login_totp and verify_login_recovery precede the counting, and   *)
(* every request is late at most once.                                     *)
THEOREM GuessesAreBounded == Spec => []GuessesBounded
<1>1. Init => GuessInv
  <2> SUFFICES ASSUME Init PROVE GuessInv
    OBVIOUS
  <2>1. TablesTyped
    BY LoginInit DEF LoginInv, Typed
  <2>2. call = [c \in Calls |-> Idle] /\ Idle.pc = "idle"
    BY IdleOK DEF Init
  <2>3. Failing(call) = {} /\ \A p : Asking(call, p) = {} /\ Uncharged(call, p) = {}
    BY <2>2 DEF Failing, Asking, Uncharged
  <2>4. /\ Cardinality(Failing(call)) = 0
        /\ \A p : Cardinality(Asking(call, p)) = 0 /\ Cardinality(Uncharged(call, p)) = 0
    BY <2>3, FS_EmptySet
  <2>5. Lost \in Nat /\ Slack \in Int /\ Slack = Cardinality(Calls) - 1 + Lost
    BY <2>1, LostBounds
  <2>6. /\ Cardinality(Calls) \in Nat /\ MaxFails \in Nat /\ MaxFails >= 1
        /\ MaxAttempts \in Nat /\ MaxAttempts >= 1
    BY CountBounds, LoginAssumption DEF LoginAssumption
  <2>7. 0 <= MaxFails + Slack /\ 0 + 0 <= MaxAttempts + Slack
    BY <2>5, <2>6
  <2>8. wrong = 0 /\ fails = 0 /\ DOMAIN pending = {} /\ \A p \in Tokens : guesses[p] = 0
    BY DEF Init
  <2>9. AccountGuesses
    BY <2>4, <2>5, <2>6, <2>7, <2>8 DEF AccountGuesses
  <2>10. TokenGuesses
    BY <2>4, <2>7, <2>8 DEF TokenGuesses
  <2> QED BY <2>9, <2>10 DEF GuessInv
<1>2. LoginInv /\ LoginInv' /\ GuessInv /\ [Next]_vars => GuessInv'
  <2> SUFFICES ASSUME LoginInv, LoginInv', GuessInv, [Next]_vars PROVE GuessInv'
    OBVIOUS
  <2>1. TablesTyped'
    BY DEF LoginInv, Typed
  <2>2. ASSUME NEW c \in Calls, Step(c) PROVE GuessInv'
    BY <2>1, <2>2, QuietSteps, CountingSteps DEF Step
  <2>3. ASSUME NEW c \in Calls, \E h \in Handles : LoginFinish(c, h) PROVE GuessInv'
    BY <2>1, <2>3, QuietSteps
  <2>4. ASSUME NEW c \in Calls, \E p \in Tokens, code \in Answers : ReadPending(c, p, code)
        PROVE  GuessInv'
    BY <2>1, <2>4, CountingSteps
  <2>5. ASSUME NEW c \in Calls, \E s \in Secrets : IssueTotp(c, s) \/ VerifyEnrolment(c, s)
        PROVE  GuessInv'
    BY <2>1, <2>5, QuietSteps
  <2>6. CASE Restart
    BY <2>6, RestartCounts
  <2>7. CASE \/ \E h \in Handles : LoginStart(h)
             \/ \E on \in BOOLEAN : PutPolicy(on)
             \/ \E t \in sessions : EndSession(t)
             \/ \E p \in Tokens : ExpirePending(p)
             \/ LockEnds \/ UNCHANGED vars
    BY <2>1, <2>7, StillSteps
  <2> QED BY <2>2, <2>3, <2>4, <2>5, <2>6, <2>7 DEF Next
<1>3. LoginInv /\ GuessInv => GuessesBounded
  <2> SUFFICES ASSUME LoginInv, GuessInv PROVE GuessesBounded
    OBVIOUS
  <2>1. ASSUME NEW p \in Tokens PROVE guesses[p] <= MaxAttempts + Slack
    <3>1. /\ guesses[p] \in Nat /\ MaxAttempts \in Nat /\ Slack \in Int
          /\ guesses[p] + Cardinality(Asking(call, p)) <= MaxAttempts + Slack
      BY TokenFacts DEF GuessInv
    <3>2. Cardinality(Asking(call, p)) \in Nat
      BY CountBounds
    <3> QED BY <3>1, <3>2
  <2>2. wrong <= MaxFails + Slack
    BY DEF GuessInv, AccountGuesses
  <2> QED BY <2>1, <2>2 DEF GuessesBounded, Slack, Lost
<1> QED BY <1>1, <1>2, <1>3, LoginInvariant, PTL DEF Spec
=============================================================================
