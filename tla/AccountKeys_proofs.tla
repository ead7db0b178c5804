------------------------- MODULE AccountKeys_proofs -------------------------
(***************************************************************************)
(* Proofs about AccountKeys, for any number of overlapping requests,       *)
(* sessions, recovery tokens, credentials, accounts registered one after   *)
(* the other under the address, and restarts.                              *)
(***************************************************************************)
EXTENDS MCAccountKeys, TLAPS

Stages ==
    {"idle", "get", "set", "reread", "offer", "pinned", "insert", "round1", "round2", "factor",
     "gen", "svk", "rekey", "consume", "mint", "suspend", "rewrite", "signout", "lift", "purge",
     "addcred", "counter", "bump"}

Config == [Settings -> Nat \cup {None}]
SessionRow == [id : Nat, secret : Nat, escaped : BOOLEAN]
TokenRow == [id : Nat, expired : BOOLEAN]
Args == Nat \cup Wrap \cup RecTokens \cup Creds \cup [k : Creds, n : Nat] \cup Config \cup {None}
CallType ==
    [pc : Stages, s : Sessions \cup {None}, id : Nat \cup {None}, row : UserRow \cup {None},
     arg : Args, got : Config, need : Settings \cup {None}, next : Stages \cup {None},
     late : BOOLEAN]

(* A request holds what its handler has read by its stage; the account it  *)
(* is about has been created.                                              *)
Formed(r, last) ==
    /\ r.id # None => r.id <= last
    /\ r.pc \in {"get", "set", "reread"} =>
         /\ r.need \in Settings /\ r.next \in {"offer", "pinned", "round1"}
         /\ r.next = "pinned" => r.arg \in Config
         /\ r.next = "round1" => r.s \in Sessions
    /\ r.pc \in {"pinned", "insert"} => r.arg \in Config
    /\ r.pc \in {"round1", "round2"} => r.s \in Sessions
    /\ r.pc = "round2" => r.arg \in Nat
    /\ r.pc \in {"gen", "svk", "rekey"} => r.arg \in Wrap
    /\ r.pc \in {"gen", "svk"} => r.row \in UserRow
    /\ r.pc = "consume" => r.next \in {"mint", "suspend"}
    /\ r.pc \in {"consume", "mint"} => r.arg \in 1 .. MaxFresh /\ r.arg <= last
    /\ r.pc = "rewrite" => r.arg \in RecTokens
    /\ r.pc \in {"rewrite", "signout"} => r.id \in Nat

(* Types of the tables.                                                    *)
TablesTyped ==
    /\ fresh \in 0 .. MaxFresh
    /\ config \in Config /\ offers \subseteq Config
    /\ user # None => user \in UserRow /\ user.id <= fresh
    /\ session = [s \in Sessions |-> session[s]]
    /\ \A s \in Sessions : Live(session[s]) => session[s] \in SessionRow
    /\ rtoken = [t \in RecTokens |-> rtoken[t]]
    /\ \A t \in RecTokens : Live(rtoken[t]) => rtoken[t] \in TokenRow /\ rtoken[t].id <= fresh
    /\ challenge # None => challenge \in [nonce : 1 .. MaxFresh, expired : BOOLEAN]
    /\ minted \in [1 .. MaxFresh -> Nat] /\ completed \in [RecTokens -> Nat]

CallsTyped ==
    call \in [Calls -> CallType] /\ \A c \in Calls : Formed(call[c], fresh)

(* A recovery token that is not used up has rewritten nothing; one request *)
(* at most holds a token that is, and it has not rewritten yet.            *)
TokenInv ==
    /\ \A t \in RecTokens : completed[t] <= 1 /\ (rtoken[t] # Gone => completed[t] = 0)
    /\ \A c \in Calls : call[c].pc = "rewrite" =>
         rtoken[call[c].arg] = Gone /\ completed[call[c].arg] = 0
    /\ \A c, d \in Calls :
         call[c].pc = "rewrite" /\ call[d].pc = "rewrite" /\ call[c].arg = call[d].arg => c = d

(* A request that proved itself did so with a nonce not used before.       *)
Proved(r) == r.pc = "mint" \/ (r.pc = "consume" /\ r.next = "mint")

(* The stored nonce has given no token, and no request that has consumed   *)
(* its challenge holds it; nonces to come are unused.                      *)
NonceInv ==
    /\ ~replayed
    /\ \A n \in 1 .. MaxFresh : n > fresh => minted[n] = 0
    /\ \A c \in Calls : Proved(call[c]) => ~call[c].late
    /\ challenge # None =>
         /\ challenge.nonce <= fresh /\ minted[challenge.nonce] = 0
         /\ \A c \in Calls : call[c].pc = "mint" => call[c].arg # challenge.nonce

(* A recovery of the account that exists has yet to end its sessions.      *)
SignOutDue(f, id) == \E c \in Calls : f[c].pc = "signout" /\ f[c].id = id

(* Sessions, and logins between their rounds, are of the password of the   *)
(* account, or a recovery is about to end them.                            *)
SignInv ==
    /\ \A s \in Sessions : Live(session[s]) =>
         /\ user # None /\ session[s].id = user.id
         /\ ~session[s].escaped =>
              session[s].secret = user.record.secret \/ SignOutDue(call, user.id)
    /\ \A c \in Calls : call[c].pc = "round2" /\ ~call[c].late =>
         /\ user # None
         /\ call[c].arg = user.record.secret \/ SignOutDue(call, user.id)

AccountInv ==
    TablesTyped /\ CallsTyped /\ TokenInv /\ NonceInv /\ SignInv /\ SvkWithheld

-----------------------------------------------------------------------------
(* Absent rows are no rows.                                                *)
LEMMA Absent ==
    /\ None # Gone /\ None \notin Nat /\ None \notin UserRow
    /\ Gone \notin RecTokens /\ None \notin RecTokens /\ None \notin Sessions
    /\ MaxFresh \in Nat
  BY AccountAssumption DEF AccountAssumption

(* A request that has ended holds nothing.                                 *)
LEMMA IdleFormed ==
    ASSUME NEW last \in Nat
    PROVE  Idle \in CallType /\ Formed(Idle, last) /\ Idle.pc = "idle" /\ Idle.id = None
<1>1. [k \in Settings |-> None] \in Config
  BY DEF Config
<1>2. Idle \in CallType /\ Idle.pc = "idle" /\ Idle.id = None
  BY <1>1 DEF Idle, CallType, Stages, Args
<1> QED BY <1>2 DEF Formed

(* What a request holds stays in order while secrets are drawn.            *)
LEMMA FormedLater ==
    ASSUME NEW m \in Nat, NEW n \in Nat, m <= n, NEW r \in CallType, Formed(r, m)
    PROVE  Formed(r, n)
<1>1. r.id # None => r.id <= n
  BY DEF Formed, CallType
<1>2. r.pc \in {"consume", "mint"} => r.arg \in 1 .. MaxFresh /\ r.arg <= n
  BY Absent DEF Formed
<1> QED BY <1>1, <1>2 DEF Formed

(* One request moves to r and the others stay.                             *)
LEMMA OneMoves ==
    ASSUME CallsTyped, NEW c \in Calls, NEW r \in CallType, call' = [call EXCEPT ![c] = r],
           fresh \in Nat, fresh' \in Nat, fresh <= fresh', Formed(r, fresh')
    PROVE  /\ CallsTyped' /\ call'[c] = r
           /\ \A d \in Calls \ {c} : call'[d] = call[d]
<1>1. call' \in [Calls -> CallType] /\ call'[c] = r /\ \A d \in Calls \ {c} : call'[d] = call[d]
  BY DEF CallsTyped
<1>2. ASSUME NEW d \in Calls PROVE Formed(call'[d], fresh')
  <2>1. CASE d = c
    BY <2>1, <1>1
  <2>2. CASE d # c
    <3>1. call'[d] = call[d] /\ call[d] \in CallType /\ Formed(call[d], fresh)
      BY <2>2, <1>1 DEF CallsTyped
    <3> QED BY <3>1, FormedLater
  <2> QED BY <2>1, <2>2
<1> QED BY <1>1, <1>2 DEF CallsTyped

(* A step that takes and spends no recovery token.                         *)
LEMMA TokenCalm ==
    ASSUME TokenInv, rtoken' = rtoken, completed' = completed,
           \A d \in Calls : call'[d].pc = "rewrite" => call'[d] = call[d]
    PROVE  TokenInv'
  BY DEF TokenInv

(* A step that stores and uses no nonce.                                   *)
LEMMA NonceCalm ==
    ASSUME NonceInv, challenge' = challenge, minted' = minted, replayed' = replayed,
           fresh \in Nat, fresh' \in Nat, fresh <= fresh', TablesTyped,
           \A d \in Calls : call'[d].pc \in {"consume", "mint"} => call'[d] = call[d]
    PROVE  NonceInv'
<1>1. \A n \in 1 .. MaxFresh : n > fresh' => minted'[n] = 0
  BY Absent DEF NonceInv
<1>2. \A d \in Calls : Proved(call'[d]) => ~call'[d].late
  BY DEF NonceInv, Proved
<1>3. challenge' # None =>
        /\ challenge'.nonce <= fresh' /\ minted'[challenge'.nonce] = 0
        /\ \A d \in Calls : call'[d].pc = "mint" => call'[d].arg # challenge'.nonce
  <2> SUFFICES ASSUME challenge # None
               PROVE  /\ challenge.nonce <= fresh' /\ minted[challenge.nonce] = 0
                      /\ \A d \in Calls : call'[d].pc = "mint" => call'[d].arg # challenge.nonce
    OBVIOUS
  <2>1. challenge.nonce \in Nat /\ challenge.nonce <= fresh
    BY Absent DEF NonceInv, TablesTyped
  <2>2. challenge.nonce <= fresh'
    BY <2>1
  <2> QED BY <2>2 DEF NonceInv
<1> QED BY <1>1, <1>2, <1>3 DEF NonceInv

(* The account after a step is the one before, with the same password.     *)
SameAccount ==
    /\ user # None => /\ user' # None /\ user'.id = user.id
                      /\ user'.record.secret = user.record.secret

(* A step that opens no session, changes no password and ends no recovery. *)
LEMMA SignCalm ==
    ASSUME SignInv, session' = session, SameAccount, NEW c \in Calls,
           call[c].pc # "signout", call'[c].pc # "round2",
           \A d \in Calls \ {c} : call'[d] = call[d]
    PROVE  SignInv'
<1>1. ASSUME NEW id, SignOutDue(call, id) PROVE SignOutDue(call', id)
  BY <1>1 DEF SignOutDue
<1>2. user # None /\ SignOutDue(call, user.id) => SignOutDue(call', user'.id)
  BY <1>1 DEF SameAccount
<1>3. ASSUME NEW s \in Sessions, Live(session'[s])
      PROVE  /\ user' # None /\ session'[s].id = user'.id
             /\ ~session'[s].escaped =>
                  session'[s].secret = user'.record.secret \/ SignOutDue(call', user'.id)
  BY <1>2, <1>3 DEF SignInv, SameAccount
<1>4. ASSUME NEW d \in Calls, call'[d].pc = "round2", ~call'[d].late
      PROVE  /\ user' # None
             /\ call'[d].arg = user'.record.secret \/ SignOutDue(call', user'.id)
  <2>1. call'[d] = call[d]
    BY <1>4
  <2> QED BY <1>2, <1>4, <2>1 DEF SignInv, SameAccount
<1> QED BY <1>3, <1>4 DEF SignInv

(* A step of one request that leaves the sessions, the tokens, the nonces  *)
(* and the password alone.                                                 *)
LEMMA Quiet ==
    ASSUME AccountInv, NEW c \in Calls, NEW r \in CallType, call' = [call EXCEPT ![c] = r],
           TablesTyped', fresh <= fresh', Formed(r, fresh'), SameAccount,
           rtoken' = rtoken, completed' = completed, challenge' = challenge,
           minted' = minted, replayed' = replayed, session' = session, SvkWithheld',
           call[c].pc # "signout", r.pc \notin {"rewrite", "consume", "mint", "round2"}
    PROVE  AccountInv'
<1>1. fresh \in Nat /\ fresh' \in Nat
  BY Absent DEF AccountInv, TablesTyped
<1>2. CallsTyped' /\ call'[c] = r /\ \A d \in Calls \ {c} : call'[d] = call[d]
  BY <1>1, OneMoves DEF AccountInv
<1>3. TokenInv'
  BY <1>2, TokenCalm DEF AccountInv
<1>4. NonceInv'
  BY <1>1, <1>2, NonceCalm DEF AccountInv
<1>5. SignInv'
  BY <1>2, SignCalm DEF AccountInv
<1> QED BY <1>2, <1>3, <1>4, <1>5 DEF AccountInv

(* A step that leaves the tables the invariant speaks of as they are.      *)
Keep == UNCHANGED <<config, user, session, challenge, rtoken, fresh, history>>

(* Then only the request that moves has to be looked at.                   *)
LEMMA QuietStep ==
    ASSUME AccountInv, NEW c \in Calls, NEW r \in CallType, call' = [call EXCEPT ![c] = r],
           Keep, Formed(r, fresh), call[c].pc # "signout",
           r.pc \notin {"rewrite", "consume", "mint", "round2"}
    PROVE  AccountInv'
<1>1. TablesTyped'
  BY DEF AccountInv, TablesTyped, Keep, history
<1>2. SvkWithheld' /\ SameAccount
  BY DEF AccountInv, SvkWithheld, SameAccount, Keep, history
<1>3. fresh <= fresh' /\ Formed(r, fresh')
  BY Absent DEF AccountInv, TablesTyped, Keep
<1> QED BY <1>1, <1>2, <1>3, Quiet DEF Keep, history

(* A request that ends.                                                    *)
LEMMA QuietReturn ==
    ASSUME AccountInv, NEW c \in Calls, Return(c), Keep, call[c].pc # "signout"
    PROVE  AccountInv'
<1>1. fresh \in Nat
  BY Absent DEF AccountInv, TablesTyped
<1>2. Idle \in CallType /\ Formed(Idle, fresh) /\ Idle.pc = "idle"
  BY <1>1, IdleFormed
<1> QED BY <1>2, QuietStep DEF Return

(* A request that goes on to another stage.                                *)
To(r, pc) == [r EXCEPT !.pc = pc]

(* It keeps what it holds.                                                 *)
LEMMA GotoIs ==
    ASSUME CallsTyped, NEW c \in Calls, NEW pc \in Stages, Goto(c, pc)
    PROVE  /\ call' = [call EXCEPT ![c] = To(call[c], pc)]
           /\ To(call[c], pc) \in CallType /\ To(call[c], pc).pc = pc
           /\ To(call[c], pc).s = call[c].s /\ To(call[c], pc).id = call[c].id
           /\ To(call[c], pc).row = call[c].row /\ To(call[c], pc).arg = call[c].arg
           /\ To(call[c], pc).need = call[c].need /\ To(call[c], pc).next = call[c].next
           /\ To(call[c], pc).late = call[c].late
  BY DEF Goto, To, CallsTyped, CallType

(* What it holds is enough for the next stage of its handler.              *)
LEMMA GotoFormed ==
    ASSUME CallsTyped, NEW c \in Calls, NEW pc \in Stages, Goto(c, pc),
           \/ call[c].pc = "get" /\ pc = "set"
           \/ call[c].pc = "set" /\ pc = "reread"
           \/ call[c].pc = "pinned" /\ pc = "insert"
           \/ call[c].pc = "gen" /\ pc = "svk"
           \/ call[c].pc = "consume" /\ pc \in {"mint", "suspend"}
           \/ call[c].pc = "rewrite" /\ pc = "signout"
           \/ call[c].pc = "counter" /\ pc = "bump"
    PROVE  Formed(To(call[c], pc), fresh)
<1> DEFINE q == To(call[c], pc)
           p == call[c]
<1>1. /\ q.pc = pc /\ q.s = p.s /\ q.id = p.id /\ q.row = p.row /\ q.arg = p.arg
      /\ q.need = p.need /\ q.next = p.next
  BY GotoIs
<1>2. Formed(p, fresh)
  BY DEF CallsTyped
<1>3. \/ p.pc = "get" /\ pc = "set"
      \/ p.pc = "set" /\ pc = "reread"
      \/ p.pc = "pinned" /\ pc = "insert"
      \/ p.pc = "gen" /\ pc = "svk"
      \/ p.pc = "consume" /\ pc \in {"mint", "suspend"}
      \/ p.pc = "rewrite" /\ pc = "signout"
      \/ p.pc = "counter" /\ pc = "bump"
  OBVIOUS
<1> HIDE DEF q, p
<1>4. Formed(q, fresh)
  BY <1>1, <1>2, <1>3 DEF Formed
<1> QED BY <1>4 DEF q

(* A request that goes on, where its step leaves the tables alone.         *)
LEMMA QuietGoto ==
    ASSUME AccountInv, NEW c \in Calls, NEW pc \in Stages, Goto(c, pc), Keep,
           \/ call[c].pc = "get" /\ pc = "set"
           \/ call[c].pc = "pinned" /\ pc = "insert"
           \/ call[c].pc = "counter" /\ pc = "bump"
    PROVE  AccountInv'
<1>1. CallsTyped
  BY DEF AccountInv
<1>2. Formed(To(call[c], pc), fresh)
  BY <1>1, GotoFormed
<1>3. /\ call' = [call EXCEPT ![c] = To(call[c], pc)]
      /\ To(call[c], pc) \in CallType /\ To(call[c], pc).pc = pc
  BY <1>1, GotoIs
<1> QED BY <1>2, <1>3, QuietStep

(* A request that arrives.                                                 *)
LEMMA QuietBegin ==
    ASSUME AccountInv, NEW c \in Calls, NEW kind, NEW r \in CallType, Begin(c, kind, r),
           Keep, Formed(r, fresh), r.pc \notin {"rewrite", "consume", "mint", "round2"}
    PROVE  AccountInv'
<1>1. call' = [call EXCEPT ![c] = r] /\ call[c].pc # "signout"
  BY DEF Begin, At
<1> QED BY <1>1, QuietStep

(* One that is answered at once.                                           *)
LEMMA QuietAnswer ==
    ASSUME AccountInv, NEW c \in Calls, NEW kind, Begin(c, kind, Idle), Keep
    PROVE  AccountInv'
<1>1. fresh \in Nat
  BY Absent DEF AccountInv, TablesTyped
<1> QED BY <1>1, IdleFormed, QuietBegin

-----------------------------------------------------------------------------
(* The settings of the server                                              *)

(* A request that needs a setting reads it, or offers a value of its own,  *)
(* and goes on to the statement it is for.                                 *)
LEMMA Fetched ==
    ASSUME AccountInv, NEW c \in Calls, NEW kind, NEW r, Fetch(c, kind, r), Keep,
           \/ r = [Idle EXCEPT !.next = "offer"]
           \/ \E offer \in Config : r = [Idle EXCEPT !.next = "pinned", !.arg = offer]
           \/ \E s \in Sessions : r = [Idle EXCEPT !.next = "round1", !.s = s]
    PROVE  AccountInv'
<1> DEFINE q == [r EXCEPT !.pc = "get", !.need = "setup"]
<1>1. [k \in Settings |-> None] \in Config
  BY DEF Config
<1>2. /\ q \in CallType /\ q.pc = "get" /\ q.id = None /\ q.need = "setup"
      /\ \/ q.next = "offer"
         \/ q.next = "pinned" /\ q.arg \in Config
         \/ q.next = "round1" /\ q.s \in Sessions
  <2>1. CASE r = [Idle EXCEPT !.next = "offer"]
    BY <1>1, <2>1 DEF Idle, CallType, Stages, Args, Settings
  <2>2. ASSUME NEW offer \in Config, r = [Idle EXCEPT !.next = "pinned", !.arg = offer]
        PROVE  q \in CallType /\ q.pc = "get" /\ q.id = None /\ q.need = "setup"
                 /\ q.next = "pinned" /\ q.arg \in Config
    BY <1>1, <2>2 DEF Idle, CallType, Stages, Args, Settings
  <2>3. ASSUME NEW s \in Sessions, r = [Idle EXCEPT !.next = "round1", !.s = s]
        PROVE  q \in CallType /\ q.pc = "get" /\ q.id = None /\ q.need = "setup"
                 /\ q.next = "round1" /\ q.s \in Sessions
    BY <1>1, <2>3 DEF Idle, CallType, Stages, Args, Settings
  <2> QED BY <2>1, <2>2, <2>3
<1>3. Begin(c, kind, q)
  BY DEF Fetch
<1> HIDE DEF q
<1>4. Formed(q, fresh)
  BY <1>2 DEF Formed, Settings
<1> QED BY <1>2, <1>3, <1>4, QuietBegin

(* The request that has a setting goes for the next one or on.             *)
LEMMA GotSetting ==
    ASSUME AccountInv, NEW c \in Calls, NEW v \in Nat \cup {None}, Got(c, v), Keep,
           call[c].pc \in {"get", "reread"}
    PROVE  AccountInv'
<1> DEFINE p == call[c]
           g == [p.got EXCEPT ![p.need] = v]
           r == [p EXCEPT !.got = g]
           q == IF r.need = "setup" /\ r.next \in {"offer", "pinned"}
                  THEN [r EXCEPT !.pc = "get", !.need = "pk"] ELSE [r EXCEPT !.pc = r.next]
<1>1. p \in CallType /\ Formed(p, fresh) /\ p.pc \in {"get", "reread"}
  BY DEF AccountInv, CallsTyped
<1>2. call' = [call EXCEPT ![c] = q]
  BY DEF Got
<1> HIDE DEF p
<1>3. p.need \in Settings /\ p.got \in Config
  BY <1>1 DEF Formed, CallType
<1>4. g \in Config
  BY <1>3 DEF Config
<1> HIDE DEF g
<1>5. /\ r \in CallType /\ r.need = p.need /\ r.next = p.next /\ r.s = p.s /\ r.id = p.id
      /\ r.arg = p.arg
  BY <1>1, <1>4 DEF CallType
<1> HIDE DEF r
<1>6. r.next \in {"offer", "pinned", "round1"} /\ (r.next = "pinned" => r.arg \in Config)
      /\ (r.next = "round1" => r.s \in Sessions) /\ (r.id # None => r.id <= fresh)
  BY <1>1, <1>5 DEF Formed
<1>7. CASE r.need = "setup" /\ r.next \in {"offer", "pinned"}
  <2>1. q = [r EXCEPT !.pc = "get", !.need = "pk"]
    BY <1>7
  <2> HIDE DEF q
  <2>2. /\ q \in CallType /\ q.pc = "get" /\ q.need = "pk" /\ q.next = r.next /\ q.s = r.s
        /\ q.id = r.id /\ q.arg = r.arg
    BY <1>5, <2>1 DEF CallType, Stages, Settings
  <2>3. Formed(q, fresh)
    BY <2>2, <1>6 DEF Formed, Settings
  <2> QED BY <1>1, <1>2, <2>2, <2>3, QuietStep DEF p
<1>8. CASE ~(r.need = "setup" /\ r.next \in {"offer", "pinned"})
  <2>1. q = [r EXCEPT !.pc = r.next]
    BY <1>8
  <2> HIDE DEF q
  <2>2. q \in CallType /\ q.pc = r.next /\ q.s = r.s /\ q.id = r.id /\ q.arg = r.arg
    BY <1>5, <1>6, <2>1 DEF CallType, Stages
  <2>3. Formed(q, fresh)
    BY <2>2, <1>6 DEF Formed
  <2> QED BY <1>1, <1>2, <1>6, <2>2, <2>3, QuietStep DEF p
<1> QED BY <1>7, <1>8

(* GetConfig, PutConfig and RereadConfig keep the invariant.               *)
LEMMA SettingsStep ==
    ASSUME AccountInv, NEW c \in Calls, GetConfig(c) \/ PutConfig(c) \/ RereadConfig(c)
    PROVE  AccountInv'
<1>1. call[c] \in CallType /\ Formed(call[c], fresh) /\ CallsTyped /\ TablesTyped
  BY DEF AccountInv, CallsTyped
<1>2. call[c].pc \in {"get", "set", "reread"}
  BY DEF GetConfig, PutConfig, RereadConfig, At
<1>3. call[c].need \in Settings /\ config \in Config
  BY <1>1, <1>2 DEF Formed, TablesTyped
<1>4. config[call[c].need] \in Nat \cup {None}
  BY <1>3 DEF Config
<1>5. CASE GetConfig(c)
  <2>1. Keep /\ call[c].pc = "get"
    BY <1>5 DEF GetConfig, Keep, tables, history, At
  <2>2. Got(c, config[call[c].need]) \/ Goto(c, "set") \/ Return(c)
    BY <1>5 DEF GetConfig
  <2>3. "set" \in Stages
    BY DEF Stages
  <2> QED BY <1>4, <2>1, <2>2, <2>3, GotSetting, QuietGoto, QuietReturn
<1>6. CASE RereadConfig(c)
  <2>1. Keep /\ call[c].pc = "reread" /\ Got(c, config[call[c].need])
    BY <1>6 DEF RereadConfig, Keep, tables, history, At
  <2> QED BY <1>4, <2>1, GotSetting
<1>7. CASE PutConfig(c)
  <2>1. /\ Goto(c, "reread") /\ call[c].pc = "set" /\ fresh < MaxFresh /\ fresh' = fresh + 1
        /\ config' = [config EXCEPT ![call[c].need] = fresh']
        /\ UNCHANGED <<user, session, challenge, rtoken, offers, minted, completed, shown, replayed>>
    BY <1>7 DEF PutConfig, Draw, SetConfig, history, At
  <2>2. fresh \in Nat /\ fresh' \in 0 .. MaxFresh /\ fresh' \in Nat /\ fresh <= fresh'
    BY <1>1, <2>1, Absent DEF TablesTyped
  <2>3. config' \in Config
    BY <1>3, <2>1, <2>2 DEF Config
  <2>4. user' # None => user' \in UserRow /\ user'.id <= fresh'
    BY <1>1, <2>1, <2>2 DEF TablesTyped, UserRow
  <2>5. \A t \in RecTokens : Live(rtoken'[t]) => rtoken'[t] \in TokenRow /\ rtoken'[t].id <= fresh'
    BY <1>1, <2>1, <2>2 DEF TablesTyped, TokenRow
  <2>6. TablesTyped'
    BY <1>1, <2>1, <2>2, <2>3, <2>4, <2>5 DEF TablesTyped
  <2>7. "reread" \in Stages
    BY DEF Stages
  <2> DEFINE q == To(call[c], "reread")
  <2>8. call' = [call EXCEPT ![c] = q] /\ q \in CallType /\ q.pc = "reread"
    BY <1>1, <2>1, <2>7, GotoIs
  <2>9. Formed(q, fresh)
    BY <1>1, <2>1, <2>7, GotoFormed
  <2> HIDE DEF q
  <2>10. Formed(q, fresh')
    BY <2>2, <2>8, <2>9, FormedLater
  <2>11. SvkWithheld' /\ SameAccount
    BY <2>1 DEF AccountInv, SvkWithheld, SameAccount
  <2> QED BY <2>1, <2>2, <2>6, <2>8, <2>10, <2>11, Quiet
<1> QED BY <1>5, <1>6, <1>7

-----------------------------------------------------------------------------
(* Requests that arrive                                                    *)

(* What a request on behalf of a session reads from the row.               *)
LEMMA RowRead ==
    ASSUME AccountInv, user # None
    PROVE  /\ user \in UserRow /\ user.id \in Nat /\ user.id <= fresh /\ user.gen \in Nat
           /\ user.mp.gen \in Nat /\ user.reclaim \in Nat \cup {None}
  BY DEF AccountInv, TablesTyped, UserRow, Wrap

(* Registration, sign-in, and the requests that read the row first.        *)
LEMMA ArrivesStep ==
    ASSUME AccountInv, NEW c \in Calls,
           \/ RegisterStart(c) \/ ReclaimConfirm(c)
           \/ \E offer \in offers : RegisterFinish(c, offer)
           \/ \E s \in Sessions : \/ Login(c, s) \/ AccountStatus(c, s) \/ RotateKey(c, s)
                                  \/ RekeySvk(c, s) \/ DeleteAccount(c, s)
    PROVE  AccountInv'
<1> USE DEF tables, history, Keep
<1>n. [k \in Settings |-> None] \in Config
  BY DEF Config
<1>1. CASE RegisterStart(c)
  BY <1>1, Fetched DEF RegisterStart
<1>2. ASSUME NEW offer \in offers, RegisterFinish(c, offer) PROVE AccountInv'
  <2>1. offer \in Config
    BY DEF AccountInv, TablesTyped
  <2> QED BY <1>2, <2>1, Fetched DEF RegisterFinish
<1>3. ASSUME NEW s \in Sessions, Login(c, s) PROVE AccountInv'
  BY <1>3, Fetched DEF Login
<1>4. CASE ReclaimConfirm(c)
  <2> DEFINE q == [Idle EXCEPT !.pc = "lift", !.id = user.id, !.arg = user.reclaim]
  <2>1. Keep /\ Begin(c, "reclaim", q) /\ user # None
    BY <1>4 DEF ReclaimConfirm
  <2>2. user.id \in Nat /\ user.id <= fresh /\ user.reclaim \in Nat \cup {None}
    BY <2>1, RowRead
  <2>3. q \in CallType /\ q.pc = "lift" /\ q.id = user.id
    BY <1>n, <2>2 DEF Idle, CallType, Stages, Args
  <2> HIDE DEF q
  <2>4. Formed(q, fresh)
    BY <2>2, <2>3 DEF Formed
  <2> QED BY <2>1, <2>3, <2>4, QuietBegin
<1>5. ASSUME NEW s \in Sessions, AccountStatus(c, s) PROVE AccountInv'
  <2> DEFINE q == [Idle EXCEPT !.pc = "factor", !.s = s, !.row = user]
  <2>1. Keep /\ Begin(c, "status", q) /\ user # None
    BY <1>5 DEF AccountStatus, AuthUser
  <2>2. user \in UserRow
    BY <2>1, RowRead
  <2>3. q \in CallType /\ q.pc = "factor" /\ q.id = None
    BY <1>n, <2>2 DEF Idle, CallType, Stages, Args
  <2> HIDE DEF q
  <2>4. Formed(q, fresh)
    BY <2>3 DEF Formed
  <2> QED BY <2>1, <2>3, <2>4, QuietBegin
<1>6. ASSUME NEW s \in Sessions, RotateKey(c, s) PROVE AccountInv'
  <2>1. Keep /\ user # None /\ Live(session[s])
    BY <1>6 DEF RotateKey, AuthUser
  <2>2. PICK g \in 2 .. 3 :
          Begin(c, "rotate", [Idle EXCEPT !.pc = "gen", !.id = user.id, !.row = user,
                              !.arg = [by |-> session[s].secret, gen |-> g]])
    BY <1>6 DEF RotateKey
  <2> DEFINE w == [by |-> session[s].secret, gen |-> g]
             q == [Idle EXCEPT !.pc = "gen", !.id = user.id, !.row = user, !.arg = w]
  <2>3. session[s].secret \in Nat /\ g \in Nat
    BY <2>1 DEF AccountInv, TablesTyped, SessionRow
  <2>4. w \in Wrap
    BY <2>3 DEF Wrap
  <2>5. user \in UserRow /\ user.id \in Nat /\ user.id <= fresh
    BY <2>1, RowRead
  <2>6. Begin(c, "rotate", q)
    BY <2>2
  <2> HIDE DEF w
  <2>7. q \in CallType /\ q.pc = "gen" /\ q.id = user.id /\ q.arg = w /\ q.row = user
    BY <1>n, <2>4, <2>5 DEF Idle, CallType, Stages, Args
  <2> HIDE DEF q
  <2>8. Formed(q, fresh)
    BY <2>4, <2>5, <2>7 DEF Formed
  <2> QED BY <2>1, <2>6, <2>7, <2>8, QuietBegin
<1>7. ASSUME NEW s \in Sessions, RekeySvk(c, s) PROVE AccountInv'
  <2> DEFINE w == [by |-> session[s].secret, gen |-> user.mp.gen]
             q == [Idle EXCEPT !.pc = "rekey", !.id = user.id, !.arg = w]
  <2>1. Keep /\ user # None /\ Live(session[s]) /\ Begin(c, "rekey", q)
    BY <1>7 DEF RekeySvk, AuthUser
  <2>2. user.id \in Nat /\ user.id <= fresh /\ user.mp.gen \in Nat
    BY <2>1, RowRead
  <2>3. session[s].secret \in Nat
    BY <2>1 DEF AccountInv, TablesTyped, SessionRow
  <2>4. w \in Wrap
    BY <2>2, <2>3 DEF Wrap
  <2> HIDE DEF w
  <2>7. q \in CallType /\ q.pc = "rekey" /\ q.id = user.id /\ q.arg = w
    BY <1>n, <2>4, <2>2 DEF Idle, CallType, Stages, Args
  <2> HIDE DEF q
  <2>8. Formed(q, fresh)
    BY <2>4, <2>2, <2>7 DEF Formed
  <2> QED BY <2>1, <2>7, <2>8, QuietBegin
<1>8. ASSUME NEW s \in Sessions, DeleteAccount(c, s) PROVE AccountInv'
  <2> DEFINE q == [Idle EXCEPT !.pc = "purge", !.id = user.id]
  <2>1. Keep /\ user # None /\ Begin(c, "delete", q)
    BY <1>8 DEF DeleteAccount, AuthUser
  <2>2. user.id \in Nat /\ user.id <= fresh
    BY <2>1, RowRead
  <2>3. q \in CallType /\ q.pc = "purge" /\ q.id = user.id
    BY <1>n, <2>2 DEF Idle, CallType, Stages, Args
  <2> HIDE DEF q
  <2>4. Formed(q, fresh)
    BY <2>2, <2>3 DEF Formed
  <2> QED BY <2>1, <2>3, <2>4, QuietBegin
<1> QED BY <1>1, <1>2, <1>3, <1>4, <1>5, <1>6, <1>7, <1>8

-----------------------------------------------------------------------------
(* The second factor                                                       *)

(* Ceremonies, credentials and counters.                                   *)
LEMMA FactorStep ==
    ASSUME AccountInv, NEW c \in Calls,
           \/ \E s \in Sessions :
                \/ \E r \in Rounds : EnrolStart(c, s, r) \/ AssertStart(c, s, r)
                \/ \E k \in Creds : \/ RemoveCredential(c, s, k)
                                    \/ \E x \in regs : EnrolVerify(c, s, x, k)
                \/ \E k \in Creds, x \in auths, n \in 0 .. MaxCounter : AssertVerify(c, s, x, k, n)
           \/ WriteCredential(c) \/ CheckCounter(c) \/ BumpCounter(c)
    PROVE  AccountInv'
<1> USE DEF tables, history, Keep
<1>n. [k \in Settings |-> None] \in Config
  BY DEF Config
<1>1. ASSUME NEW s \in Sessions, NEW r \in Rounds, EnrolStart(c, s, r) \/ AssertStart(c, s, r)
      PROVE  AccountInv'
  <2>1. Keep /\ (Begin(c, "enrol", Idle) \/ Begin(c, "assert", Idle))
    BY <1>1 DEF EnrolStart, AssertStart
  <2> QED BY <2>1, QuietAnswer
<1>2. ASSUME NEW s \in Sessions, NEW k \in Creds, RemoveCredential(c, s, k) PROVE AccountInv'
  <2>1. Keep /\ Begin(c, "enrol", Idle)
    BY <1>2 DEF RemoveCredential
  <2> QED BY <2>1, QuietAnswer
<1>3. ASSUME NEW s \in Sessions, NEW k \in Creds, NEW x \in regs, EnrolVerify(c, s, x, k)
      PROVE  AccountInv'
  <2> DEFINE q == [Idle EXCEPT !.pc = "addcred", !.id = user.id, !.arg = k]
  <2>1. Keep /\ user # None /\ (Begin(c, "enrol", q) \/ Begin(c, "enrol", Idle))
    BY <1>3 DEF EnrolVerify, AuthUser
  <2>2. user.id \in Nat /\ user.id <= fresh
    BY <2>1, RowRead
  <2>3. q \in CallType /\ q.pc = "addcred" /\ q.id = user.id
    BY <1>n, <2>2 DEF Idle, CallType, Stages, Args
  <2> HIDE DEF q
  <2>4. Formed(q, fresh)
    BY <2>2, <2>3 DEF Formed
  <2> QED BY <2>1, <2>3, <2>4, QuietBegin, QuietAnswer
<1>4. ASSUME NEW s \in Sessions, NEW k \in Creds, NEW x \in auths, NEW n \in 0 .. MaxCounter,
             AssertVerify(c, s, x, k, n)
      PROVE  AccountInv'
  <2> DEFINE a == [k |-> k, n |-> n]
             q == [Idle EXCEPT !.pc = "counter", !.s = s, !.id = user.id, !.arg = a,
                               !.late = s \in verified]
  <2>1. Keep /\ user # None /\ (Begin(c, "assert", q) \/ Begin(c, "assert", Idle))
    BY <1>4 DEF AssertVerify, AuthUser
  <2>2. user.id \in Nat /\ user.id <= fresh
    BY <2>1, RowRead
  <2>3. a \in [k : Creds, n : Nat] /\ (s \in verified) \in BOOLEAN
    OBVIOUS
  <2> HIDE DEF a
  <2>4. q \in CallType /\ q.pc = "counter" /\ q.id = user.id
    BY <1>n, <2>2, <2>3 DEF Idle, CallType, Stages, Args
  <2> HIDE DEF q
  <2>5. Formed(q, fresh)
    BY <2>2, <2>4 DEF Formed
  <2> QED BY <2>1, <2>4, <2>5, QuietBegin, QuietAnswer
<1>5. CASE WriteCredential(c) \/ BumpCounter(c)
  <2>1. Keep /\ Return(c) /\ call[c].pc # "signout"
    BY <1>5 DEF WriteCredential, BumpCounter, At
  <2> QED BY <2>1, QuietReturn
<1>6. CASE CheckCounter(c)
  <2>1. Keep /\ (Return(c) \/ Goto(c, "bump")) /\ call[c].pc = "counter"
    BY <1>6 DEF CheckCounter, At
  <2>2. "bump" \in Stages
    BY DEF Stages
  <2> QED BY <2>1, <2>2, QuietReturn, QuietGoto
<1> QED BY <1>1, <1>2, <1>3, <1>4, <1>5, <1>6

-----------------------------------------------------------------------------
(* Statements about the row                                                *)

(* The row after a step: of the same account and password.                 *)
LEMMA RowTyped ==
    ASSUME TablesTyped, fresh' \in 0 .. MaxFresh, fresh <= fresh', SameAccount,
           user = None => user' = None, user' # None => user' \in UserRow,
           UNCHANGED <<config, session, challenge, rtoken, offers, minted, completed>>
    PROVE  TablesTyped'
<1>1. fresh \in Nat /\ fresh' \in Nat
  BY Absent DEF TablesTyped
<1>2. user' # None => user'.id <= fresh'
  <2> SUFFICES ASSUME user' # None PROVE user'.id <= fresh'
    OBVIOUS
  <2>1. user.id \in Nat /\ user.id <= fresh /\ user'.id = user.id
    BY DEF TablesTyped, SameAccount, UserRow
  <2> QED BY <1>1, <2>1
<1>3. \A t \in RecTokens : Live(rtoken'[t]) => rtoken'[t] \in TokenRow /\ rtoken'[t].id <= fresh'
  BY <1>1 DEF TablesTyped, TokenRow
<1> QED BY <1>2, <1>3 DEF TablesTyped

(* A statement about the row of an id.                                     *)
LEMMA OnUserKeeps ==
    ASSUME NEW id, NEW row, OnUser(id, row), AccountInv,
           user # None => /\ row \in UserRow /\ row.id = user.id
                          /\ row.record.secret = user.record.secret
    PROVE  /\ SameAccount
           /\ user = None => user' = None
           /\ user' # None => user' \in UserRow
<1>1. CASE user # None /\ user.id = id
  BY <1>1, Absent DEF OnUser, SameAccount
<1>2. CASE ~(user # None /\ user.id = id)
  BY <1>2 DEF OnUser, SameAccount, AccountInv, TablesTyped
<1> QED BY <1>1, <1>2

(* The epoch, the wrapped keys, the suspension.                            *)
LEMMA RowStep ==
    ASSUME AccountInv, NEW c \in Calls,
           WriteGen(c) \/ WriteSvk(c) \/ WriteRekey(c) \/ Suspend(c) \/ Lift(c)
    PROVE  AccountInv'
<1> USE DEF history
<1> DEFINE p == call[c]
<1>1. TablesTyped /\ CallsTyped /\ p \in CallType /\ Formed(p, fresh)
  BY DEF AccountInv, CallsTyped
<1>2. /\ UNCHANGED <<config, session, challenge, rtoken, offers, minted, completed, shown, replayed>>
      /\ p.pc # "signout"
  BY DEF WriteGen, WriteSvk, WriteRekey, Suspend, Lift, At
<1>3. fresh \in Nat /\ fresh' \in 0 .. MaxFresh /\ fresh' \in Nat /\ fresh <= fresh'
  BY <1>1, Absent DEF WriteGen, WriteSvk, WriteRekey, Suspend, Lift, TablesTyped, Draw
<1>4. PICK row : /\ OnUser(p.id, row)
                 /\ user # None => /\ row \in UserRow /\ row.id = user.id
                                   /\ row.record.secret = user.record.secret
  <2>1. user # None => user \in UserRow
    BY <1>1 DEF TablesTyped
  <2>2. CASE WriteGen(c)
    <3>1. p.arg.gen \in Nat
      BY <1>1, <2>2 DEF WriteGen, At, Formed, Wrap
    <3> HIDE DEF p
    <3>2. user # None => LET row == [user EXCEPT !.gen = p.arg.gen] IN
            row \in UserRow /\ row.id = user.id /\ row.record.secret = user.record.secret
      BY <2>1, <3>1 DEF UserRow
    <3> QED BY <2>2, <3>2 DEF WriteGen, UpdateGen, p
  <2>3. CASE WriteSvk(c)
    <3>1. p.arg \in Wrap /\ p.row \in UserRow
      BY <1>1, <2>3 DEF WriteSvk, At, Formed
    <3>2. p.row.rk \in Nat
      BY <3>1 DEF UserRow
    <3> HIDE DEF p
    <3>3. user # None => LET row == [user EXCEPT !.mp = p.arg, !.rk = p.row.rk] IN
            row \in UserRow /\ row.id = user.id /\ row.record.secret = user.record.secret
      BY <2>1, <3>1, <3>2 DEF UserRow
    <3> QED BY <2>3, <3>3 DEF WriteSvk, UpdateSvk, p
  <2>4. CASE WriteRekey(c)
    <3>1. p.arg \in Wrap
      BY <1>1, <2>4 DEF WriteRekey, At, Formed
    <3> HIDE DEF p
    <3>3. user # None => LET row == [user EXCEPT !.mp = p.arg] IN
            row \in UserRow /\ row.id = user.id /\ row.record.secret = user.record.secret
      BY <2>1, <3>1 DEF UserRow
    <3> QED BY <2>4, <3>3 DEF WriteRekey, UpdateSvkBlobOnly, p
  <2>5. CASE Suspend(c)
    <3>3. user # None => LET row == [user EXCEPT !.reclaim = fresh', !.suspended = TRUE] IN
            row \in UserRow /\ row.id = user.id /\ row.record.secret = user.record.secret
      BY <2>1, <1>3 DEF UserRow
    <3> QED BY <2>5, <3>3 DEF Suspend, StoreReclaim
  <2>6. CASE Lift(c)
    <3>3. user # None => LET row == [user EXCEPT !.reclaim = None, !.suspended = FALSE] IN
            row \in UserRow /\ row.id = user.id /\ row.record.secret = user.record.secret
      BY <2>1 DEF UserRow
    <3> QED BY <2>6, <3>3 DEF Lift, ClearReclaim
  <2> QED BY <2>2, <2>3, <2>4, <2>5, <2>6
<1>5. SameAccount /\ (user = None => user' = None) /\ (user' # None => user' \in UserRow)
  BY <1>4, OnUserKeeps
<1>6. TablesTyped'
  BY <1>1, <1>2, <1>3, <1>5, RowTyped
<1>7. SvkWithheld'
  BY <1>2 DEF AccountInv, SvkWithheld
<1>8. CASE WriteGen(c)
  <2> DEFINE q == To(call[c], "svk")
  <2>1. Goto(c, "svk") /\ "svk" \in Stages /\ call[c].pc = "gen"
    BY <1>8 DEF WriteGen, Stages, At
  <2>2. call' = [call EXCEPT ![c] = q] /\ q \in CallType /\ q.pc = "svk"
    BY <1>1, <2>1, GotoIs
  <2>3. Formed(q, fresh)
    BY <1>1, <2>1, GotoFormed
  <2> HIDE DEF q
  <2>4. Formed(q, fresh')
    BY <1>3, <2>2, <2>3, FormedLater
  <2> QED BY <1>2, <1>3, <1>5, <1>6, <1>7, <2>2, <2>4, Quiet
<1>9. CASE ~WriteGen(c)
  <2>1. call' = [call EXCEPT ![c] = Idle]
    BY <1>9 DEF WriteSvk, WriteRekey, Suspend, Lift, Return
  <2>2. Idle \in CallType /\ Formed(Idle, fresh') /\ Idle.pc = "idle"
    BY <1>3, IdleFormed
  <2> QED BY <1>2, <1>3, <1>5, <1>6, <1>7, <2>1, <2>2, Quiet
<1> QED BY <1>8, <1>9

(* The answers of register_start and account_status, and the pin.          *)
LEMMA AnswerStep ==
    ASSUME AccountInv, NEW c \in Calls, AnswerOffer(c) \/ CheckPinned(c) \/ AnswerStatus(c)
    PROVE  AccountInv'
<1> USE DEF history, tables
<1>1. TablesTyped /\ CallsTyped /\ call[c] \in CallType
  BY DEF AccountInv, CallsTyped
<1>2. fresh \in Nat
  BY <1>1, Absent DEF TablesTyped
<1>3. Idle \in CallType /\ Formed(Idle, fresh) /\ Idle.pc = "idle"
  BY <1>2, IdleFormed
<1>4. CASE CheckPinned(c)
  <2>1. Keep /\ (Return(c) \/ Goto(c, "insert")) /\ call[c].pc = "pinned"
    BY <1>4 DEF CheckPinned, At, Keep
  <2>2. "insert" \in Stages
    BY DEF Stages
  <2> QED BY <2>1, <2>2, QuietReturn, QuietGoto
<1>5. CASE AnswerOffer(c)
  <2>1. /\ UNCHANGED <<config, user, session, challenge, rtoken, minted, completed, shown, replayed, fresh>>
        /\ call' = [call EXCEPT ![c] = Idle] /\ call[c].pc = "offer"
        /\ offers' = offers \cup {call[c].got}
    BY <1>5 DEF AnswerOffer, At, Return
  <2>2. offers' \subseteq Config
    BY <1>1, <2>1 DEF TablesTyped, CallType
  <2>3. TablesTyped'
    BY <1>1, <2>1, <2>2 DEF TablesTyped
  <2>4. SvkWithheld' /\ SameAccount
    BY <2>1 DEF AccountInv, SvkWithheld, SameAccount
  <2>5. fresh <= fresh' /\ Formed(Idle, fresh')
    BY <1>2, <1>3, <2>1
  <2> QED BY <1>3, <2>1, <2>3, <2>4, <2>5, Quiet
<1>6. CASE AnswerStatus(c)
  <2>1. /\ UNCHANGED <<config, user, session, challenge, rtoken, offers, minted, completed, replayed, fresh>>
        /\ call' = [call EXCEPT ![c] = Idle] /\ call[c].pc = "factor"
    BY <1>6 DEF AnswerStatus, At, Return
  <2>2. TablesTyped'
    BY <1>1, <2>1 DEF TablesTyped
  <2>3. SameAccount
    BY <2>1 DEF SameAccount
  <2>4. SvkWithheld'
    <3>1. CASE HasCredentials /\ ~Satisfied(call[c].s)
      BY <1>6, <3>1 DEF AnswerStatus, AccountInv, SvkWithheld
    <3>2. CASE ~(HasCredentials /\ ~Satisfied(call[c].s))
      <4> DEFINE x == [s |-> call[c].s, guarded |-> HasCredentials,
                       passed |-> call[c].s \in verified]
      <4>1. shown' = shown \cup {x}
        BY <1>6, <3>2 DEF AnswerStatus
      <4>2. x.guarded => x.passed
        BY <3>2 DEF Satisfied
      <4> HIDE DEF x
      <4> QED BY <4>1, <4>2 DEF AccountInv, SvkWithheld
    <3> QED BY <3>1, <3>2
  <2>5. fresh <= fresh' /\ Formed(Idle, fresh')
    BY <1>2, <1>3, <2>1
  <2> QED BY <1>3, <2>1, <2>2, <2>3, <2>4, <2>5, Quiet
<1> QED BY <1>4, <1>5, <1>6

-----------------------------------------------------------------------------
(* Sessions                                                                *)

(* A new account has no session and no login between its rounds.           *)
LEMMA InsertStep ==
    ASSUME AccountInv, NEW c \in Calls, InsertUser(c)
    PROVE  AccountInv'
<1> DEFINE p == call[c]
           new == NewUser(fresh', fresh', p.arg.setup)
<1>1. TablesTyped /\ CallsTyped /\ p \in CallType /\ Formed(p, fresh)
  BY DEF AccountInv, CallsTyped
<1>2. /\ UNCHANGED <<config, session, challenge, rtoken, offers, minted, completed, shown, replayed>>
      /\ call' = [call EXCEPT ![c] = Idle] /\ p.pc = "insert"
      /\ fresh < MaxFresh /\ fresh' = fresh + 1
      /\ user' = IF user = None THEN new ELSE user
  BY DEF InsertUser, history, At, Return, CreateUser, Draw
<1>3. fresh \in Nat /\ fresh' \in 0 .. MaxFresh /\ fresh' \in Nat /\ fresh <= fresh'
  BY <1>1, <1>2, Absent DEF TablesTyped
<1>4. Idle \in CallType /\ Formed(Idle, fresh') /\ Idle.pc = "idle"
  BY <1>3, IdleFormed
<1>5. p.arg.setup \in Nat \cup {None}
  BY <1>1, <1>2 DEF Formed, Config, Settings
<1> HIDE DEF p
<1>6. new \in UserRow /\ new.id = fresh'
  BY <1>3, <1>5 DEF NewUser, UserRow, Wrap
<1> HIDE DEF new
<1>7. SvkWithheld'
  BY <1>2 DEF AccountInv, SvkWithheld
<1>8. \A t \in RecTokens : Live(rtoken'[t]) => rtoken'[t] \in TokenRow /\ rtoken'[t].id <= fresh'
  BY <1>1, <1>2, <1>3 DEF TablesTyped, TokenRow
<1>9. user' # None => user' \in UserRow /\ user'.id <= fresh'
  BY <1>1, <1>2, <1>3, <1>6 DEF TablesTyped, UserRow
<1>10. TablesTyped'
  BY <1>1, <1>2, <1>3, <1>8, <1>9 DEF TablesTyped
<1>11. CASE user # None
  <2>1. SameAccount
    BY <1>2, <1>11 DEF SameAccount
  <2> QED BY <1>2, <1>3, <1>4, <1>7, <1>10, <2>1, Quiet DEF p
<1>12. CASE user = None
  <2>1. SameAccount
    BY <1>12 DEF SameAccount
  <2> QED BY <1>2, <1>3, <1>4, <1>7, <1>10, <2>1, Quiet DEF p
<1> QED BY <1>11, <1>12

(* The first round reads the password of the account that exists.          *)
LEMMA LoginStartStep ==
    ASSUME AccountInv, NEW c \in Calls, LoginStart(c)
    PROVE  AccountInv'
<1>1. Keep /\ call[c].pc = "round1"
  BY DEF LoginStart, Keep, tables, history, At
<1>2. CASE Return(c)
  BY <1>1, <1>2, QuietReturn
<1>3. CASE ~Return(c)
  <2> DEFINE p == call[c]
             r == [p EXCEPT !.pc = "round2", !.arg = user.record.secret]
  <2>1. user # None /\ call' = [call EXCEPT ![c].pc = "round2", ![c].arg = user.record.secret]
    BY <1>3 DEF LoginStart
  <2>2. call \in [Calls -> CallType] /\ p \in CallType /\ Formed(p, fresh) /\ CallsTyped
    BY DEF AccountInv, CallsTyped
  <2>3. user.record.secret \in Nat
    BY <2>1 DEF AccountInv, TablesTyped, UserRow
  <2>4. /\ r \in CallType /\ r.pc = "round2" /\ r.arg = user.record.secret
        /\ r.s = p.s /\ r.id = p.id
    BY <2>2, <2>3 DEF CallType, Stages, Args
  <2>5. call' = [call EXCEPT ![c] = r]
    BY <2>1, <2>2 DEF CallType
  <2>6. p.s \in Sessions /\ (p.id # None => p.id <= fresh)
    BY <1>1, <2>2 DEF Formed
  <2> HIDE DEF r
  <2>7. Formed(r, fresh)
    BY <2>3, <2>4, <2>6 DEF Formed
  <2>8. fresh \in Nat /\ fresh' = fresh /\ fresh <= fresh'
    BY <1>1, Absent DEF AccountInv, TablesTyped, Keep
  <2>9. CallsTyped' /\ call'[c] = r /\ \A d \in Calls \ {c} : call'[d] = call[d]
    BY <2>2, <2>4, <2>5, <2>7, <2>8, OneMoves
  <2>10. TablesTyped' /\ SvkWithheld'
    BY <1>1 DEF AccountInv, TablesTyped, SvkWithheld, Keep, history
  <2>11. TokenInv'
    BY <1>1, <2>4, <2>9, TokenCalm DEF AccountInv, Keep, history
  <2>12. NonceInv'
    BY <1>1, <2>4, <2>8, <2>9, NonceCalm DEF AccountInv, Keep, history
  <2>13. ASSUME NEW id, SignOutDue(call, id) PROVE SignOutDue(call', id)
    BY <1>1, <2>9, <2>13 DEF SignOutDue
  <2>14. SignInv'
    BY <1>1, <2>1, <2>4, <2>9, <2>13 DEF AccountInv, SignInv, Keep
  <2> QED BY <2>9, <2>10, <2>11, <2>12, <2>14 DEF AccountInv
<1> QED BY <1>2, <1>3

(* The second opens a session for the password of the first.               *)
LEMMA LoginFinishStep ==
    ASSUME AccountInv, NEW c \in Calls, LoginFinish(c)
    PROVE  AccountInv'
<1> DEFINE p == call[c]
           row == [id |-> user.id, secret |-> p.arg, escaped |-> p.late]
<1>1. /\ UNCHANGED <<config, user, challenge, rtoken, fresh, offers, minted, completed, shown, replayed>>
      /\ call' = [call EXCEPT ![c] = Idle] /\ p.pc = "round2" /\ Return(c)
      /\ session' = IF user = None THEN session ELSE [session EXCEPT ![p.s] = row]
  BY DEF LoginFinish, history, At, Return
<1>2. TablesTyped /\ CallsTyped /\ p \in CallType /\ Formed(p, fresh) /\ SignInv
  BY DEF AccountInv, CallsTyped
<1>3. CASE user = None
  <2>1. Keep
    BY <1>1, <1>3 DEF Keep, history
  <2> QED BY <1>1, <2>1, QuietReturn
<1>4. CASE user # None
  <2>1. p.s \in Sessions /\ p.arg \in Nat /\ p.late \in BOOLEAN
    BY <1>1, <1>2 DEF Formed, CallType
  <2>2. user.id \in Nat
    BY <1>2, <1>4 DEF TablesTyped, UserRow
  <2>3. row \in SessionRow /\ row.id = user.id /\ row.secret = p.arg /\ row.escaped = p.late
    BY <2>1, <2>2 DEF SessionRow
  <2> HIDE DEF row
  <2>4. session' = [session EXCEPT ![p.s] = row]
    BY <1>1, <1>4
  <2>5. /\ session' = [s \in Sessions |-> session'[s]]
        /\ \A s \in Sessions : session'[s] = IF s = p.s THEN row ELSE session[s]
    BY <1>2, <2>4 DEF TablesTyped
  <2>6. \A s \in Sessions : Live(session'[s]) => session'[s] \in SessionRow
    BY <1>2, <2>3, <2>5 DEF TablesTyped
  <2>7. TablesTyped' /\ SvkWithheld'
    BY <1>1, <1>2, <2>5, <2>6 DEF TablesTyped, AccountInv, SvkWithheld
  <2>8. fresh \in Nat /\ fresh' = fresh /\ fresh <= fresh'
    BY <1>1, <1>2, Absent DEF TablesTyped
  <2>9. Idle \in CallType /\ Formed(Idle, fresh') /\ Idle.pc = "idle"
    BY <2>8, IdleFormed
  <2>10. CallsTyped' /\ call'[c] = Idle /\ \A d \in Calls \ {c} : call'[d] = call[d]
    BY <1>1, <1>2, <2>8, <2>9, OneMoves
  <2>11. TokenInv'
    BY <1>1, <2>9, <2>10, TokenCalm DEF AccountInv
  <2>12. NonceInv'
    BY <1>1, <2>8, <2>9, <2>10, NonceCalm DEF AccountInv
  <2>13. ASSUME NEW id, SignOutDue(call, id) PROVE SignOutDue(call', id)
    BY <1>1, <2>10, <2>13 DEF SignOutDue
  <2>14. ~p.late => p.arg = user.record.secret \/ SignOutDue(call, user.id)
    BY <1>1, <1>2 DEF SignInv
  <2> HIDE DEF p
  <2>15. ASSUME NEW s \in Sessions, Live(session'[s])
         PROVE  /\ user' # None /\ session'[s].id = user'.id
                /\ ~session'[s].escaped =>
                     session'[s].secret = user'.record.secret \/ SignOutDue(call', user'.id)
    <3>1. CASE s = p.s
      BY <1>1, <1>4, <2>3, <2>5, <2>13, <2>14, <3>1
    <3>2. CASE s # p.s
      BY <1>1, <1>2, <1>4, <2>5, <2>13, <2>15, <3>2 DEF SignInv
    <3> QED BY <3>1, <3>2
  <2>16. ASSUME NEW d \in Calls, call'[d].pc = "round2", ~call'[d].late
         PROVE  /\ user' # None
                /\ call'[d].arg = user'.record.secret \/ SignOutDue(call', user'.id)
    <3>1. call'[d] = call[d]
      BY <2>9, <2>10, <2>16
    <3> QED BY <1>1, <1>2, <2>13, <2>16, <3>1 DEF SignInv
  <2>17. SignInv'
    BY <2>15, <2>16 DEF SignInv
  <2> QED BY <2>7, <2>10, <2>11, <2>12, <2>17 DEF AccountInv
<1> QED BY <1>3, <1>4

-----------------------------------------------------------------------------
(* Recovery                                                                *)

(* A new challenge holds a nonce nobody has used.                          *)
LEMMA ChallengeStep ==
    ASSUME AccountInv, RecoverChallenge
    PROVE  AccountInv'
<1>1. /\ UNCHANGED <<config, user, session, rtoken, call, offers, minted, completed, shown, replayed>>
      /\ fresh < MaxFresh /\ fresh' = fresh + 1
      /\ challenge' = [nonce |-> fresh', expired |-> FALSE]
  BY DEF RecoverChallenge, Draw, history
<1>2. TablesTyped /\ CallsTyped /\ NonceInv
  BY DEF AccountInv
<1>3. fresh \in Nat /\ fresh' \in 1 .. MaxFresh /\ fresh' \in Nat /\ fresh <= fresh'
  BY <1>1, <1>2, Absent DEF TablesTyped
<1>4. challenge' \in [nonce : 1 .. MaxFresh, expired : BOOLEAN] /\ challenge'.nonce = fresh'
  BY <1>1, <1>3
<1>5. TablesTyped'
  <2>1. \A t \in RecTokens : Live(rtoken'[t]) => rtoken'[t] \in TokenRow /\ rtoken'[t].id <= fresh'
    BY <1>1, <1>2, <1>3 DEF TablesTyped, TokenRow
  <2>2. user' # None => user' \in UserRow /\ user'.id <= fresh'
    BY <1>1, <1>2, <1>3 DEF TablesTyped, UserRow
  <2>3. fresh' \in 0 .. MaxFresh
    BY <1>3
  <2> QED BY <1>1, <1>2, <1>4, <2>1, <2>2, <2>3 DEF TablesTyped
<1>6. CallsTyped'
  <2>1. ASSUME NEW d \in Calls PROVE Formed(call[d], fresh')
    BY <1>2, <1>3, FormedLater DEF CallsTyped
  <2> QED BY <1>1, <1>2, <2>1 DEF CallsTyped
<1>7. NonceInv'
  <2>1. minted[fresh'] = 0
    BY <1>1, <1>2, <1>3 DEF NonceInv
  <2>2. \A d \in Calls : call[d].pc = "mint" => call[d].arg # fresh'
    BY <1>1, <1>2, <1>3, Absent DEF CallsTyped, Formed
  <2>3. \A n \in 1 .. MaxFresh : n > fresh' => minted[n] = 0
    BY <1>1, <1>2, <1>3, Absent DEF NonceInv
  <2>4. challenge'.nonce <= fresh'
    BY <1>3, <1>4
  <2> QED BY <1>1, <1>2, <1>4, <2>1, <2>2, <2>3, <2>4 DEF NonceInv
<1>8. TokenInv' /\ SignInv' /\ SvkWithheld'
  BY <1>1 DEF AccountInv, TokenInv, SignInv, SignOutDue, SvkWithheld
<1> QED BY <1>5, <1>6, <1>7, <1>8 DEF AccountInv

(* A challenge that is deleted, and a request that moves.                  *)
LEMMA ChallengeGone ==
    ASSUME AccountInv, NEW c \in Calls, NEW r \in CallType, call' = [call EXCEPT ![c] = r],
           UNCHANGED <<config, user, session, rtoken, fresh, offers, minted, completed, shown, replayed>>,
           challenge' \in {challenge, None}, Formed(r, fresh), call[c].pc # "signout",
           r.pc \notin {"rewrite", "round2"}, Proved(r) => ~r.late,
           r.pc = "mint" => challenge' = None
    PROVE  AccountInv'
<1>1. TablesTyped /\ CallsTyped /\ NonceInv /\ SameAccount
  BY DEF AccountInv, SameAccount
<1>2. fresh \in Nat /\ fresh' = fresh /\ fresh <= fresh' /\ Formed(r, fresh')
  BY <1>1, Absent DEF TablesTyped
<1>3. CallsTyped' /\ call'[c] = r /\ \A d \in Calls \ {c} : call'[d] = call[d]
  BY <1>1, <1>2, OneMoves
<1>4. TablesTyped' /\ SvkWithheld'
  BY <1>1 DEF TablesTyped, AccountInv, SvkWithheld
<1>5. TokenInv'
  BY <1>3, TokenCalm DEF AccountInv
<1>6. SignInv'
  BY <1>1, <1>3, SignCalm DEF AccountInv
<1>7. NonceInv'
  <2>1. \A d \in Calls : Proved(call'[d]) => ~call'[d].late
    BY <1>1, <1>3 DEF NonceInv
  <2>2. challenge' # None =>
          /\ challenge'.nonce <= fresh' /\ minted'[challenge'.nonce] = 0
          /\ \A d \in Calls : call'[d].pc = "mint" => call'[d].arg # challenge'.nonce
    <3> SUFFICES ASSUME challenge' # None, challenge' = challenge
                 PROVE  /\ challenge.nonce <= fresh /\ minted[challenge.nonce] = 0
                        /\ \A d \in Calls : call'[d].pc = "mint" => call'[d].arg # challenge.nonce
      BY <1>2
    <3> QED BY <1>1, <1>3 DEF NonceInv
  <2> QED BY <1>1, <1>2, <2>1, <2>2 DEF NonceInv
<1> QED BY <1>3, <1>4, <1>5, <1>6, <1>7 DEF AccountInv

(* A proof is accepted for the stored nonce, which is unused.              *)
LEMMA ProveStep ==
    ASSUME AccountInv, NEW c \in Calls, NEW kind, NEW n \in Nonces, NEW next \in {"mint", "suspend"},
           Prove(c, kind, n, next)
    PROVE  AccountInv'
<1> DEFINE r == [Idle EXCEPT !.pc = "consume", !.next = next, !.id = user.id,
                             !.arg = n, !.late = minted[n] > 0]
<1>1. /\ user # None /\ call[c].pc = "idle"
      /\ call' = [call EXCEPT ![c] = IF ProofOK(n) THEN r ELSE Idle]
      /\ challenge' \in {challenge, None}
      /\ UNCHANGED <<config, user, session, rtoken, fresh, offers, minted, completed, shown, replayed>>
  BY DEF Prove, Begin, At, history
<1>2. TablesTyped /\ NonceInv
  BY DEF AccountInv
<1>3. CASE ~ProofOK(n)
  <2>1. fresh \in Nat
    BY <1>2, Absent DEF TablesTyped
  <2>2. Idle \in CallType /\ Formed(Idle, fresh) /\ Idle.pc = "idle"
    BY <2>1, IdleFormed
  <2>3. call' = [call EXCEPT ![c] = Idle] /\ ~Proved(Idle)
    BY <1>1, <1>3, <2>2 DEF Proved
  <2> QED BY <1>1, <2>2, <2>3, ChallengeGone
<1>4. CASE ProofOK(n)
  <2>1. n \in 1 .. MaxFresh /\ n <= fresh /\ minted[n] = 0
    BY <1>2, <1>4 DEF Nonces, ProofOK, NonceInv
  <2>2. user.id \in Nat /\ user.id <= fresh
    BY <1>1, RowRead
  <2>3. (minted[n] > 0) = FALSE /\ n \in Nat
    BY <2>1
  <2>4. [k \in Settings |-> None] \in Config
    BY DEF Config
  <2>5. r = [Idle EXCEPT !.pc = "consume", !.next = next, !.id = user.id, !.arg = n, !.late = FALSE]
    BY <2>3
  <2>6. call' = [call EXCEPT ![c] = r]
    BY <1>1, <1>4
  <2> HIDE DEF r
  <2>7. /\ r \in CallType /\ r.pc = "consume" /\ r.next = next /\ r.id = user.id /\ r.arg = n
        /\ r.late = FALSE
    BY <2>2, <2>3, <2>4, <2>5 DEF Idle, CallType, Stages, Args
  <2>8. Formed(r, fresh)
    BY <2>1, <2>2, <2>7 DEF Formed
  <2> QED BY <1>1, <2>6, <2>7, <2>8, ChallengeGone
<1> QED BY <1>3, <1>4

(* The challenge is consumed.                                              *)
LEMMA ConsumeStep ==
    ASSUME AccountInv, NEW c \in Calls, ConsumeChallenge(c)
    PROVE  AccountInv'
<1> DEFINE pc == call[c].next
           q == To(call[c], pc)
<1>1. /\ call[c].pc = "consume" /\ Goto(c, pc) /\ challenge' = None
      /\ UNCHANGED <<config, user, session, rtoken, fresh, offers, minted, completed, shown, replayed>>
  BY DEF ConsumeChallenge, DeleteRecoveryChallenge, At, history
<1>2. CallsTyped /\ NonceInv /\ Formed(call[c], fresh)
  BY DEF AccountInv, CallsTyped
<1>3. pc \in {"mint", "suspend"} /\ pc \in Stages
  BY <1>1, <1>2 DEF Formed, Stages
<1>4. call' = [call EXCEPT ![c] = q] /\ q \in CallType /\ q.pc = pc /\ q.late = call[c].late
  BY <1>1, <1>2, <1>3, GotoIs
<1>5. Formed(q, fresh)
  BY <1>1, <1>2, <1>3, GotoFormed
<1>6. Proved(q) => ~q.late
  BY <1>1, <1>2, <1>3, <1>4 DEF Proved, NonceInv
<1> HIDE DEF q
<1> QED BY <1>1, <1>3, <1>4, <1>5, <1>6, ChallengeGone

(* A token is given for a nonce that is not stored any more.               *)
LEMMA MintStep ==
    ASSUME AccountInv, NEW c \in Calls, NEW t \in RecTokens, MintRecoveryToken(c, t)
    PROVE  AccountInv'
<1> DEFINE n == call[c].arg
           row == [id |-> user.id, expired |-> FALSE]
<1>1. /\ UNCHANGED <<config, user, session, challenge, fresh, offers, completed, shown>>
      /\ call[c].pc = "mint" /\ call' = [call EXCEPT ![c] = Idle] /\ rtoken[t] = None
      /\ Return(c)
  BY DEF MintRecoveryToken, At, Return
<1>2. TablesTyped /\ CallsTyped /\ NonceInv /\ TokenInv /\ Formed(call[c], fresh) /\ SameAccount
  BY <1>1 DEF AccountInv, CallsTyped, SameAccount
<1>3. CASE UNCHANGED <<rtoken, minted, replayed>>
  <2>1. Keep
    BY <1>1, <1>3 DEF Keep, history
  <2> QED BY <1>1, <2>1, QuietReturn
<1>4. CASE ~UNCHANGED <<rtoken, minted, replayed>>
  <2>1. /\ user # None /\ rtoken' = [rtoken EXCEPT ![t] = row]
        /\ minted' = [minted EXCEPT ![n] = minted[n] + 1]
        /\ replayed' = (replayed \/ call[c].late)
    BY <1>4 DEF MintRecoveryToken
  <2>2. n \in 1 .. MaxFresh /\ n <= fresh /\ ~call[c].late
    BY <1>1, <1>2 DEF Formed, NonceInv, Proved
  <2>3. fresh \in Nat /\ fresh' = fresh /\ fresh <= fresh'
    BY <1>1, <1>2, Absent DEF TablesTyped
  <2>4. user.id \in Nat /\ user.id <= fresh
    BY <2>1, RowRead
  <2>5. row \in TokenRow /\ row.id <= fresh
    BY <2>4 DEF TokenRow
  <2> HIDE DEF row
  <2>6. /\ rtoken' = [u \in RecTokens |-> rtoken'[u]]
        /\ \A u \in RecTokens : rtoken'[u] = IF u = t THEN row ELSE rtoken[u]
    BY <1>2, <2>1 DEF TablesTyped
  <2>7. \A u \in RecTokens : Live(rtoken'[u]) => rtoken'[u] \in TokenRow /\ rtoken'[u].id <= fresh
    BY <1>2, <2>5, <2>6 DEF TablesTyped
  <2>8. minted' \in [1 .. MaxFresh -> Nat] /\ \A m \in 1 .. MaxFresh : m # n => minted'[m] = minted[m]
    BY <1>2, <2>1, <2>2 DEF TablesTyped
  <2>9. TablesTyped' /\ SvkWithheld'
    BY <1>1, <1>2, <2>6, <2>7, <2>8 DEF TablesTyped, AccountInv, SvkWithheld
  <2>10. Idle \in CallType /\ Formed(Idle, fresh') /\ Idle.pc = "idle"
    BY <2>3, IdleFormed
  <2>11. CallsTyped' /\ call'[c] = Idle /\ \A d \in Calls \ {c} : call'[d] = call[d]
    BY <1>1, <1>2, <2>3, <2>10, OneMoves
  <2>12. SignInv'
    BY <1>1, <1>2, <2>10, <2>11, SignCalm DEF AccountInv
  <2>13. TokenInv'
    <3>1. completed[t] = 0
      BY <1>1, <1>2, Absent DEF TokenInv
    <3>2. \A u \in RecTokens : completed'[u] <= 1 /\ (rtoken'[u] # Gone => completed'[u] = 0)
      BY <1>1, <1>2, <2>6, <3>1 DEF TokenInv
    <3>3. \A d \in Calls : call'[d].pc = "rewrite" => call'[d] = call[d]
      BY <2>10, <2>11
    <3>4. ASSUME NEW d \in Calls, call'[d].pc = "rewrite"
          PROVE  rtoken'[call'[d].arg] = Gone /\ completed'[call'[d].arg] = 0
      <4>1. rtoken[call[d].arg] = Gone /\ completed[call[d].arg] = 0 /\ call[d].arg \in RecTokens
        BY <1>2, <3>3, <3>4 DEF TokenInv, CallsTyped, Formed
      <4>2. call[d].arg # t
        BY <4>1, <1>1, Absent
      <4> QED BY <1>1, <2>6, <3>3, <3>4, <4>1, <4>2
    <3>5. \A d, e \in Calls :
            call'[d].pc = "rewrite" /\ call'[e].pc = "rewrite" /\ call'[d].arg = call'[e].arg => d = e
      BY <1>2, <3>3 DEF TokenInv
    <3> QED BY <3>2, <3>4, <3>5 DEF TokenInv
  <2>14. NonceInv'
    <3>1. ~replayed'
      BY <1>2, <2>1, <2>2 DEF NonceInv
    <3>2. \A m \in 1 .. MaxFresh : m > fresh' => minted'[m] = 0
      BY <1>2, <2>2, <2>3, <2>8 DEF NonceInv
    <3>3. \A d \in Calls : Proved(call'[d]) => ~call'[d].late
      BY <1>2, <2>10, <2>11 DEF NonceInv, Proved
    <3>4. challenge' # None =>
            /\ challenge'.nonce <= fresh' /\ minted'[challenge'.nonce] = 0
            /\ \A d \in Calls : call'[d].pc = "mint" => call'[d].arg # challenge'.nonce
      <4> SUFFICES ASSUME challenge # None
                   PROVE  /\ challenge.nonce <= fresh /\ minted'[challenge.nonce] = 0
                          /\ \A d \in Calls : call'[d].pc = "mint" => call'[d].arg # challenge.nonce
        BY <1>1
      <4>1. challenge.nonce # n /\ challenge.nonce \in 1 .. MaxFresh
        BY <1>1, <1>2 DEF NonceInv, TablesTyped
      <4> QED BY <1>2, <2>8, <2>10, <2>11, <4>1 DEF NonceInv
    <3> QED BY <3>1, <3>2, <3>3, <3>4 DEF NonceInv
  <2> QED BY <2>9, <2>11, <2>12, <2>13, <2>14 DEF AccountInv
<1> QED BY <1>3, <1>4

(* The token of recover_complete is used up as its request gets it.        *)
LEMMA CompleteStep ==
    ASSUME AccountInv, NEW c \in Calls, NEW t \in RecTokens, RecoverComplete(c, t)
    PROVE  AccountInv'
<1> DEFINE p == [Idle EXCEPT !.pc = "rewrite", !.id = rtoken[t].id, !.arg = t]
           r == IF rtoken[t].expired THEN Idle ELSE p
<1>1. /\ UNCHANGED <<config, user, session, challenge, fresh, offers, minted, completed, shown, replayed>>
      /\ call[c].pc = "idle" /\ call' = [call EXCEPT ![c] = r]
      /\ Live(rtoken[t]) /\ rtoken' = [rtoken EXCEPT ![t] = Gone]
  BY DEF RecoverComplete, Begin, ConsumeRecoverySession, At, history
<1>2. TablesTyped /\ CallsTyped /\ NonceInv /\ TokenInv /\ SameAccount
  BY <1>1 DEF AccountInv, SameAccount
<1>3. fresh \in Nat /\ fresh' = fresh /\ fresh <= fresh'
  BY <1>1, <1>2, Absent DEF TablesTyped
<1>4. rtoken[t].id \in Nat /\ rtoken[t].id <= fresh
  BY <1>1, <1>2 DEF TablesTyped, TokenRow
<1>5. [k \in Settings |-> None] \in Config
  BY DEF Config
<1>6. Idle \in CallType /\ Formed(Idle, fresh') /\ Idle.pc = "idle"
  BY <1>3, IdleFormed
<1>7. p \in CallType /\ p.pc = "rewrite" /\ p.id = rtoken[t].id /\ p.arg = t
  BY <1>4, <1>5 DEF Idle, CallType, Stages, Args
<1> HIDE DEF p
<1>8. Formed(p, fresh')
  BY <1>3, <1>4, <1>7 DEF Formed
<1>9. r \in CallType /\ Formed(r, fresh') /\ (r.pc = "idle" \/ (r.pc = "rewrite" /\ r.arg = t))
  BY <1>6, <1>7, <1>8
<1> HIDE DEF r
<1>10. CallsTyped' /\ call'[c] = r /\ \A d \in Calls \ {c} : call'[d] = call[d]
  BY <1>1, <1>2, <1>3, <1>9, OneMoves
<1>11. /\ rtoken' = [u \in RecTokens |-> rtoken'[u]]
       /\ \A u \in RecTokens : rtoken'[u] = IF u = t THEN Gone ELSE rtoken[u]
  BY <1>1, <1>2 DEF TablesTyped
<1>12. TablesTyped' /\ SvkWithheld'
  <2>1. \A u \in RecTokens : Live(rtoken'[u]) => rtoken'[u] \in TokenRow /\ rtoken'[u].id <= fresh
    BY <1>2, <1>11 DEF TablesTyped, Live
  <2> QED BY <1>1, <1>2, <1>11, <2>1 DEF TablesTyped, AccountInv, SvkWithheld
<1>13. SignInv'
  BY <1>1, <1>2, <1>9, <1>10, SignCalm DEF AccountInv
<1>14. NonceInv'
  <2>1. \A d \in Calls : call'[d].pc \in {"consume", "mint"} => call'[d] = call[d]
    BY <1>9, <1>10
  <2> QED BY <1>1, <1>2, <1>3, <2>1, NonceCalm
<1>15. TokenInv'
  <2>1. rtoken[t] # Gone /\ completed[t] = 0
    BY <1>1, <1>2 DEF TokenInv, Live
  <2>2. \A u \in RecTokens : completed'[u] <= 1 /\ (rtoken'[u] # Gone => completed'[u] = 0)
    BY <1>1, <1>2, <1>11 DEF TokenInv
  <2>3. \A d \in Calls : call'[d].pc = "rewrite" => call'[d].arg \in RecTokens
    BY <1>10 DEF CallsTyped, Formed
  <2>4. ASSUME NEW d \in Calls, d # c, call'[d].pc = "rewrite"
        PROVE  call[d].pc = "rewrite" /\ call'[d].arg = call[d].arg /\ call[d].arg # t
                 /\ rtoken[call[d].arg] = Gone /\ completed[call[d].arg] = 0
    BY <1>2, <1>10, <2>1, <2>4 DEF TokenInv
  <2>5. ASSUME NEW d \in Calls, call'[d].pc = "rewrite"
        PROVE  rtoken'[call'[d].arg] = Gone /\ completed'[call'[d].arg] = 0
    <3>1. CASE d = c
      BY <1>1, <1>9, <1>10, <1>11, <2>1, <2>5, <3>1
    <3>2. CASE d # c
      BY <1>1, <1>11, <2>3, <2>4, <2>5, <3>2
    <3> QED BY <3>1, <3>2
  <2>6. ASSUME NEW d \in Calls, NEW e \in Calls,
               call'[d].pc = "rewrite", call'[e].pc = "rewrite", call'[d].arg = call'[e].arg
        PROVE  d = e
    <3>1. CASE d # c /\ e # c
      BY <1>2, <2>4, <2>6, <3>1 DEF TokenInv
    <3>2. CASE d = c /\ e # c
      BY <1>9, <1>10, <2>4, <2>6, <3>2
    <3>3. CASE d # c /\ e = c
      BY <1>9, <1>10, <2>4, <2>6, <3>3
    <3> QED BY <3>1, <3>2, <3>3
  <2> QED BY <2>2, <2>5, <2>6 DEF TokenInv
<1> QED BY <1>10, <1>12, <1>13, <1>14, <1>15 DEF AccountInv

(* The password changes, and the sessions are ended next.                  *)
LEMMA RewriteStep ==
    ASSUME AccountInv, NEW c \in Calls, RewriteAccount(c)
    PROVE  AccountInv'
<1> DEFINE p == call[c]
           k == fresh'
           row == [user EXCEPT !.record = [secret |-> k, setup |-> config["setup"]],
                               !.mp = [by |-> k, gen |-> user.gen], !.rk = k, !.rkpk = k]
           r == To(call[c], "signout")
<1>1. /\ UNCHANGED <<config, session, challenge, rtoken, offers, minted, shown, replayed>>
      /\ p.pc = "rewrite" /\ Goto(c, "signout") /\ fresh < MaxFresh /\ fresh' = fresh + 1
      /\ user' = IF user # None /\ user.id = p.id THEN row ELSE user
      /\ completed' = [completed EXCEPT ![p.arg] = completed[p.arg] + 1]
  BY DEF RewriteAccount, CompleteRecovery, OnUser, Draw, At
<1>2. TablesTyped /\ CallsTyped /\ NonceInv /\ TokenInv /\ SignInv /\ Formed(p, fresh)
  BY DEF AccountInv, CallsTyped
<1>3. fresh \in Nat /\ k \in 0 .. MaxFresh /\ k \in Nat /\ fresh <= k
  BY <1>1, <1>2, Absent DEF TablesTyped
<1>4. "signout" \in Stages
  BY DEF Stages
<1>5. call' = [call EXCEPT ![c] = r] /\ r \in CallType /\ r.pc = "signout" /\ r.id = p.id
  BY <1>1, <1>2, <1>4, GotoIs
<1>6. Formed(r, fresh)
  BY <1>1, <1>2, <1>4, GotoFormed
<1>7. p.arg \in RecTokens
  BY <1>1, <1>2 DEF Formed
<1> HIDE DEF r, p
<1>8. Formed(r, k)
  BY <1>3, <1>5, <1>6, FormedLater
<1>9. CallsTyped' /\ call'[c] = r /\ \A d \in Calls \ {c} : call'[d] = call[d]
  BY <1>2, <1>3, <1>5, <1>8, OneMoves
<1>10. config["setup"] \in Nat \cup {None}
  BY <1>2 DEF TablesTyped, Config, Settings
<1>11. user # None => row \in UserRow /\ row.id = user.id
  <2> SUFFICES ASSUME user # None PROVE row \in UserRow /\ row.id = user.id
    OBVIOUS
  <2> DEFINE rec == [secret |-> k, setup |-> config["setup"]]
             mp == [by |-> k, gen |-> user.gen]
  <2>1. user \in UserRow
    BY <1>2 DEF TablesTyped
  <2>2. rec \in [secret : Nat, setup : Nat \cup {None}]
    BY <1>3, <1>10
  <2>3. mp \in Wrap
    BY <1>3, <2>1 DEF UserRow, Wrap
  <2> HIDE DEF rec, mp
  <2>4. LET w == [user EXCEPT !.record = rec, !.mp = mp, !.rk = k, !.rkpk = k]
        IN w \in UserRow /\ w.id = user.id
    BY <1>3, <2>1, <2>2, <2>3 DEF UserRow
  <2> QED BY <2>4 DEF rec, mp
<1> HIDE DEF row
<1>12. user' # None => user' \in UserRow /\ user'.id <= k
  BY <1>1, <1>2, <1>3, <1>11 DEF TablesTyped, UserRow
<1>13. /\ completed' \in [RecTokens -> Nat]
       /\ \A t \in RecTokens : completed'[t] = IF t = p.arg THEN completed[t] + 1 ELSE completed[t]
  BY <1>1, <1>2, <1>7 DEF TablesTyped
<1>14. TablesTyped' /\ SvkWithheld'
  <2>1. \A t \in RecTokens : Live(rtoken'[t]) => rtoken'[t] \in TokenRow /\ rtoken'[t].id <= fresh'
    BY <1>1, <1>2, <1>3 DEF TablesTyped, TokenRow
  <2> QED BY <1>1, <1>2, <1>3, <1>12, <1>13, <2>1 DEF TablesTyped, AccountInv, SvkWithheld
<1>15. NonceInv'
  BY <1>1, <1>2, <1>3, <1>5, <1>9, NonceCalm
<1>16. TokenInv'
  <2>1. completed[p.arg] = 0 /\ rtoken[p.arg] = Gone
    BY <1>1, <1>2 DEF TokenInv, p
  <2>2. \A t \in RecTokens : completed'[t] <= 1 /\ (rtoken'[t] # Gone => completed'[t] = 0)
    BY <1>1, <1>2, <1>13, <2>1 DEF TokenInv
  <2>3. ASSUME NEW d \in Calls, call'[d].pc = "rewrite"
        PROVE  call'[d] = call[d] /\ d # c /\ call[d].arg \in RecTokens /\ call[d].arg # p.arg
    <3>1. call'[d] = call[d] /\ d # c
      BY <1>5, <1>9, <2>3
    <3>2. call[d].arg \in RecTokens
      BY <1>2, <2>3, <3>1 DEF CallsTyped, Formed
    <3>3. call[d].arg # p.arg
      BY <1>1, <1>2, <2>3, <3>1 DEF TokenInv, p
    <3> QED BY <3>1, <3>2, <3>3
  <2>4. \A d \in Calls : call'[d].pc = "rewrite" =>
          rtoken'[call'[d].arg] = Gone /\ completed'[call'[d].arg] = 0
    BY <1>1, <1>2, <1>13, <2>3 DEF TokenInv
  <2>5. \A d, e \in Calls :
          call'[d].pc = "rewrite" /\ call'[e].pc = "rewrite" /\ call'[d].arg = call'[e].arg => d = e
    BY <1>2, <2>3 DEF TokenInv
  <2> QED BY <2>2, <2>4, <2>5 DEF TokenInv
<1>17. SignInv'
  <2>1. CASE user # None /\ user.id = p.id
    <3>1. user' = row /\ row.id = user.id /\ user' # None
      BY <1>1, <1>11, <2>1, Absent
    <3>2. SignOutDue(call', user'.id)
      BY <1>5, <1>9, <2>1, <3>1 DEF SignOutDue
    <3> QED BY <1>1, <1>2, <3>1, <3>2 DEF SignInv
  <2>2. CASE ~(user # None /\ user.id = p.id)
    <3>1. SameAccount
      BY <1>1, <2>2 DEF SameAccount
    <3>2. call[c].pc # "signout" /\ call'[c].pc # "round2"
      BY <1>1, <1>5, <1>9 DEF p
    <3> QED BY <1>1, <1>2, <1>9, <3>1, <3>2, SignCalm
  <2> QED BY <2>1, <2>2
<1> QED BY <1>9, <1>14, <1>15, <1>16, <1>17 DEF AccountInv

(* A step that ends sessions overtakes the logins between their rounds.    *)
LEMMA Overtakes ==
    ASSUME CallsTyped, NEW c \in Calls, call' = Overtaken([call EXCEPT ![c] = Idle]),
           fresh' = fresh, fresh \in Nat
    PROVE  /\ CallsTyped'
           /\ \A d \in Calls : call'[d].pc = "round2" => call'[d].late
           /\ \A d \in Calls \ {c} : call'[d].pc = call[d].pc
           /\ \A d \in Calls \ {c} : call'[d].pc # "round2" => call'[d] = call[d]
           /\ call'[c] = Idle /\ Idle.pc = "idle"
<1>1. Idle \in CallType /\ Formed(Idle, fresh) /\ Idle.pc = "idle"
  BY IdleFormed
<1>2. call'[c] = Idle
  BY <1>1 DEF Overtaken, CallsTyped
<1>3. ASSUME NEW d \in Calls \ {c}
      PROVE  call'[d] = IF call[d].pc = "round2" THEN [call[d] EXCEPT !.late = TRUE] ELSE call[d]
  BY DEF Overtaken, CallsTyped
<1>4. ASSUME NEW d \in Calls, d # c, call[d].pc = "round2"
      PROVE  /\ call'[d] \in CallType /\ call'[d].pc = "round2" /\ call'[d].late
             /\ Formed(call'[d], fresh)
  <2> DEFINE q == [call[d] EXCEPT !.late = TRUE]
  <2>1. call'[d] = q /\ call[d] \in CallType /\ Formed(call[d], fresh)
    BY <1>3, <1>4 DEF CallsTyped
  <2>2. /\ q \in CallType /\ q.pc = "round2" /\ q.late = TRUE /\ q.id = call[d].id
        /\ q.s = call[d].s /\ q.arg = call[d].arg
    BY <1>4, <2>1 DEF CallType
  <2> HIDE DEF q
  <2>3. Formed(q, fresh)
    BY <1>4, <2>1, <2>2 DEF Formed
  <2> QED BY <2>1, <2>2, <2>3
<1>5. ASSUME NEW d \in Calls, d # c, call[d].pc # "round2"
      PROVE  call'[d] = call[d] /\ call'[d] \in CallType /\ Formed(call'[d], fresh)
  BY <1>3, <1>5 DEF CallsTyped
<1>6. \A d \in Calls : call'[d] \in CallType /\ Formed(call'[d], fresh)
  BY <1>1, <1>2, <1>4, <1>5
<1>7. call' = [d \in Calls |-> call'[d]]
  BY DEF Overtaken
<1>8. CallsTyped'
  BY <1>6, <1>7 DEF CallsTyped
<1> QED BY <1>1, <1>2, <1>4, <1>5, <1>8

(* The sessions of a recovered account end.                                *)
LEMMA SignOutStep ==
    ASSUME AccountInv, NEW c \in Calls, SignOut(c)
    PROVE  AccountInv'
<1>1. /\ UNCHANGED <<config, user, challenge, rtoken, fresh, offers, minted, completed, shown, replayed>>
      /\ call[c].pc = "signout" /\ call' = Overtaken([call EXCEPT ![c] = Idle])
      /\ session' = [s \in Sessions |-> IF Live(session[s]) /\ session[s].id = call[c].id
                                          THEN Gone ELSE session[s]]
  BY DEF SignOut, RevokeUserSessions, At, history
<1>2. TablesTyped /\ CallsTyped /\ NonceInv /\ TokenInv /\ SignInv
  BY DEF AccountInv
<1>3. fresh \in Nat /\ fresh' = fresh /\ fresh <= fresh'
  BY <1>1, <1>2, Absent DEF TablesTyped
<1>4. /\ CallsTyped'
      /\ \A d \in Calls : call'[d].pc = "round2" => call'[d].late
      /\ \A d \in Calls \ {c} : call'[d].pc = call[d].pc
      /\ \A d \in Calls \ {c} : call'[d].pc # "round2" => call'[d] = call[d]
      /\ call'[c] = Idle /\ Idle.pc = "idle"
  BY <1>1, <1>2, <1>3, Overtakes
<1>5. ASSUME NEW s \in Sessions, Live(session'[s])
      PROVE  session'[s] = session[s] /\ session[s].id # call[c].id /\ Live(session[s])
  BY <1>1, <1>5 DEF Live
<1>6. TablesTyped' /\ SvkWithheld'
  BY <1>1, <1>2, <1>5 DEF TablesTyped, AccountInv, SvkWithheld
<1>7. TokenInv'
  BY <1>1, <1>2, <1>4, TokenCalm
<1>8. NonceInv'
  BY <1>1, <1>2, <1>3, <1>4, NonceCalm
<1>9. ASSUME NEW s \in Sessions, Live(session'[s])
      PROVE  /\ user' # None /\ session'[s].id = user'.id
             /\ ~session'[s].escaped =>
                  session'[s].secret = user'.record.secret \/ SignOutDue(call', user'.id)
  <2>1. /\ user # None /\ session[s].id = user.id /\ user.id # call[c].id
        /\ ~session[s].escaped =>
              session[s].secret = user.record.secret \/ SignOutDue(call, user.id)
    BY <1>2, <1>5, <1>9 DEF SignInv
  <2>2. SignOutDue(call, user.id) => SignOutDue(call', user.id)
    BY <1>4, <2>1 DEF SignOutDue
  <2> QED BY <1>1, <1>5, <1>9, <2>1, <2>2
<1>10. SignInv'
  BY <1>4, <1>9 DEF SignInv
<1> QED BY <1>4, <1>6, <1>7, <1>8, <1>10 DEF AccountInv

(* The account is deleted with its sessions, its tokens and its challenge. *)
LEMMA PurgeStep ==
    ASSUME AccountInv, NEW c \in Calls, Purge(c)
    PROVE  AccountInv'
<1>1. /\ UNCHANGED <<config, fresh, offers, minted, completed, shown, replayed>>
      /\ call[c].pc = "purge" /\ call' = Overtaken([call EXCEPT ![c] = Idle])
      /\ DeleteUser(call[c].id)
  BY DEF Purge, At, history
<1>2. TablesTyped /\ CallsTyped /\ NonceInv /\ TokenInv /\ SignInv
  BY DEF AccountInv
<1>3. fresh \in Nat /\ fresh' = fresh /\ fresh <= fresh'
  BY <1>1, <1>2, Absent DEF TablesTyped
<1>4. /\ CallsTyped'
      /\ \A d \in Calls : call'[d].pc = "round2" => call'[d].late
      /\ \A d \in Calls \ {c} : call'[d].pc = call[d].pc
      /\ \A d \in Calls \ {c} : call'[d].pc # "round2" => call'[d] = call[d]
      /\ call'[c] = Idle /\ Idle.pc = "idle"
  BY <1>1, <1>2, <1>3, Overtakes
<1>5. CASE ~(user # None /\ user.id = call[c].id)
  <2>1. UNCHANGED <<user, session, challenge, rtoken>>
    BY <1>1, <1>5 DEF DeleteUser
  <2>2. TablesTyped' /\ SvkWithheld'
    BY <1>1, <1>2, <2>1 DEF TablesTyped, AccountInv, SvkWithheld
  <2>3. TokenInv'
    BY <1>1, <1>2, <1>4, <2>1, TokenCalm
  <2>4. NonceInv'
    BY <1>1, <1>2, <1>3, <1>4, <2>1, NonceCalm
  <2>5. ASSUME NEW id, SignOutDue(call, id) PROVE SignOutDue(call', id)
    BY <1>1, <1>4, <2>5 DEF SignOutDue
  <2>6. SignInv'
    BY <1>2, <1>4, <2>1, <2>5 DEF SignInv
  <2> QED BY <1>4, <2>2, <2>3, <2>4, <2>6 DEF AccountInv
<1>6. CASE user # None /\ user.id = call[c].id
  <2>1. /\ user' = None /\ challenge' = None
        /\ session' = [s \in Sessions |-> IF session[s] = None THEN None ELSE Gone]
        /\ rtoken' = [t \in RecTokens |-> IF rtoken[t] = None THEN None ELSE Gone]
    BY <1>1, <1>6 DEF DeleteUser
  <2>2. \A s \in Sessions : ~Live(session'[s])
    BY <2>1 DEF Live
  <2>3. \A t \in RecTokens : ~Live(rtoken'[t])
    BY <2>1 DEF Live
  <2>4. TablesTyped' /\ SvkWithheld'
    BY <1>1, <1>2, <2>1, <2>2, <2>3 DEF TablesTyped, AccountInv, SvkWithheld
  <2>5. SignInv'
    BY <1>4, <2>2 DEF SignInv
  <2>6. NonceInv'
    <3>1. \A d \in Calls : Proved(call'[d]) => ~call'[d].late
      BY <1>2, <1>4 DEF NonceInv, Proved
    <3> QED BY <1>1, <1>2, <2>1, <3>1 DEF NonceInv
  <2>7. TokenInv'
    <3>1. \A t \in RecTokens : completed[t] <= 1 /\ (rtoken'[t] # Gone => completed[t] = 0)
      BY <1>2, <2>1, Absent DEF TokenInv
    <3>2. \A d \in Calls : call'[d].pc = "rewrite" => call'[d] = call[d] /\ call[d].arg \in RecTokens
      BY <1>2, <1>4 DEF CallsTyped, Formed
    <3>3. \A d \in Calls : call'[d].pc = "rewrite" =>
            rtoken'[call'[d].arg] = Gone /\ completed[call'[d].arg] = 0
      BY <1>2, <2>1, <3>2, Absent DEF TokenInv
    <3> QED BY <1>1, <1>2, <3>1, <3>2, <3>3 DEF TokenInv
  <2> QED BY <1>4, <2>4, <2>5, <2>6, <2>7 DEF AccountInv
<1> QED BY <1>5, <1>6

-----------------------------------------------------------------------------
(* Time and restarts                                                       *)

(* What expires is not replaced.                                           *)
LEMMA ExpireStep ==
    ASSUME AccountInv, Expire
    PROVE  AccountInv'
<1>1. UNCHANGED <<config, session, call, fresh, offers, minted, completed, shown, replayed>>
  BY DEF Expire, history
<1>2. TablesTyped /\ CallsTyped /\ NonceInv /\ TokenInv /\ SignInv
  BY DEF AccountInv
<1>3. CallsTyped' /\ SvkWithheld'
  BY <1>1, <1>2 DEF CallsTyped, AccountInv, SvkWithheld
<1>4. CASE challenge' # challenge
  <2>1. challenge # None /\ challenge' = [challenge EXCEPT !.expired = TRUE] /\ UNCHANGED <<user, rtoken>>
    BY <1>4 DEF Expire
  <2>2. challenge' \in [nonce : 1 .. MaxFresh, expired : BOOLEAN] /\ challenge'.nonce = challenge.nonce
    BY <1>2, <2>1 DEF TablesTyped
  <2>3. TablesTyped'
    BY <1>1, <1>2, <2>1, <2>2 DEF TablesTyped
  <2>4. NonceInv'
    BY <1>1, <1>2, <2>1, <2>2 DEF NonceInv
  <2>5. TokenInv' /\ SignInv'
    BY <1>1, <1>2, <2>1 DEF TokenInv, SignInv, SignOutDue
  <2> QED BY <1>3, <2>3, <2>4, <2>5 DEF AccountInv
<1>5. CASE challenge' = challenge /\ rtoken' # rtoken
  <2>1. UNCHANGED user
    BY <1>5 DEF Expire
  <2>2. PICK t \in RecTokens : Live(rtoken[t]) /\ rtoken' = [rtoken EXCEPT ![t].expired = TRUE]
    BY <1>5 DEF Expire
  <2> DEFINE row == [rtoken[t] EXCEPT !.expired = TRUE]
  <2>3. rtoken[t] \in TokenRow /\ rtoken[t].id <= fresh /\ rtoken[t] # Gone
    BY <1>2, <2>2 DEF TablesTyped, Live
  <2>4. row \in TokenRow /\ row.id <= fresh
    BY <2>3 DEF TokenRow
  <2>5. /\ rtoken' = [u \in RecTokens |-> rtoken'[u]]
        /\ \A u \in RecTokens : rtoken'[u] = IF u = t THEN row ELSE rtoken[u]
    BY <1>2, <2>2 DEF TablesTyped
  <2> HIDE DEF row
  <2>6. TablesTyped'
    <3>1. \A u \in RecTokens : Live(rtoken'[u]) => rtoken'[u] \in TokenRow /\ rtoken'[u].id <= fresh
      BY <1>2, <2>4, <2>5 DEF TablesTyped
    <3> QED BY <1>1, <1>2, <1>5, <2>1, <2>5, <3>1 DEF TablesTyped
  <2>7. NonceInv' /\ SignInv'
    BY <1>1, <1>2, <1>5, <2>1 DEF NonceInv, SignInv, SignOutDue
  <2>8. TokenInv'
    <3>1. \A u \in RecTokens : completed[u] <= 1 /\ (rtoken'[u] # Gone => completed[u] = 0)
      BY <1>2, <2>3, <2>5 DEF TokenInv
    <3>2. \A d \in Calls : call[d].pc = "rewrite" => rtoken'[call[d].arg] = Gone
      BY <1>2, <2>3, <2>5 DEF TokenInv, CallsTyped, Formed
    <3> QED BY <1>1, <1>2, <3>1, <3>2 DEF TokenInv
  <2> QED BY <1>3, <2>6, <2>7, <2>8 DEF AccountInv
<1>6. CASE challenge' = challenge /\ rtoken' = rtoken
  <2>1. user' = user \/ (user # None /\ user' = [user EXCEPT !.suspended = FALSE])
    BY DEF Expire
  <2>2. user # None => /\ user' \in UserRow /\ user'.id = user.id
                       /\ user'.record.secret = user.record.secret
    BY <1>2, <2>1 DEF TablesTyped, UserRow
  <2>3. user = None => user' = None
    BY <2>1
  <2>4. user # None => user' # None
    BY <2>2, Absent
  <2>5. TablesTyped'
    BY <1>1, <1>2, <1>6, <2>2, <2>3 DEF TablesTyped
  <2>6. NonceInv' /\ TokenInv'
    BY <1>1, <1>2, <1>6 DEF NonceInv, TokenInv
  <2>7. user # None /\ SignOutDue(call, user.id) => SignOutDue(call', user'.id)
    BY <1>1, <2>2 DEF SignOutDue
  <2>8. SignInv'
    BY <1>1, <1>2, <2>2, <2>4, <2>7 DEF SignInv
  <2> QED BY <1>3, <2>5, <2>6, <2>8 DEF AccountInv
<1> QED BY <1>4, <1>5, <1>6

(* All requests are lost; a recovery that has not ended the sessions       *)
(* leaves them marked.                                                     *)
LEMMA RestartStep ==
    ASSUME AccountInv, Restart
    PROVE  AccountInv'
<1>1. /\ UNCHANGED <<config, user, challenge, rtoken, fresh, offers, minted, completed, shown, replayed>>
      /\ call' = [c \in Calls |-> Idle]
      /\ session' = [s \in Sessions |->
                       IF Live(session[s]) /\ \E c \in Calls : call[c].pc = "signout"
                         THEN [session[s] EXCEPT !.escaped = TRUE] ELSE session[s]]
  BY DEF Restart, history, At
<1>2. TablesTyped /\ CallsTyped /\ NonceInv /\ TokenInv /\ SignInv
  BY DEF AccountInv
<1>3. fresh \in Nat /\ fresh' = fresh
  BY <1>1, <1>2, Absent DEF TablesTyped
<1>4. Idle \in CallType /\ Formed(Idle, fresh') /\ Idle.pc = "idle"
  BY <1>3, IdleFormed
<1>5. \A c \in Calls : call'[c] = Idle
  BY <1>1
<1>6. CallsTyped'
  BY <1>1, <1>4, <1>5 DEF CallsTyped
<1>7. ASSUME NEW s \in Sessions, Live(session'[s])
      PROVE  /\ Live(session[s]) /\ session[s] \in SessionRow
             /\ session'[s] \in SessionRow /\ session'[s].id = session[s].id
             /\ ~session'[s].escaped =>
                  session'[s] = session[s] /\ \A c \in Calls : call[c].pc # "signout"
  <2>1. Live(session[s])
    BY <1>1, <1>7
  <2>2. session[s] \in SessionRow
    BY <1>2, <2>1 DEF TablesTyped
  <2>3. CASE \E c \in Calls : call[c].pc = "signout"
    <3>1. session'[s] = [session[s] EXCEPT !.escaped = TRUE]
      BY <1>1, <2>1, <2>3
    <3>2. session'[s] \in SessionRow /\ session'[s].id = session[s].id /\ session'[s].escaped = TRUE
      BY <2>2, <3>1 DEF SessionRow
    <3> QED BY <2>1, <2>2, <3>2
  <2>4. CASE \A c \in Calls : call[c].pc # "signout"
    <3>1. session'[s] = session[s]
      BY <1>1, <2>4
    <3> QED BY <2>1, <2>2, <2>4, <3>1
  <2> QED BY <2>3, <2>4
<1>8. TablesTyped' /\ SvkWithheld'
  BY <1>1, <1>2, <1>7 DEF TablesTyped, AccountInv, SvkWithheld
<1>9. TokenInv'
  BY <1>1, <1>2, <1>4, <1>5 DEF TokenInv
<1>10. NonceInv'
  BY <1>1, <1>2, <1>4, <1>5 DEF NonceInv, Proved
<1>11. SignInv'
  BY <1>1, <1>2, <1>4, <1>5, <1>7 DEF SignInv, SignOutDue
<1> QED BY <1>6, <1>8, <1>9, <1>10, <1>11 DEF AccountInv

-----------------------------------------------------------------------------
(* The invariant holds of a server that was never used, and of one with an *)
(* account.                                                                *)
LEMMA AccountInit == Init => AccountInv
<1> SUFFICES ASSUME Init PROVE AccountInv
  OBVIOUS
<1>1. /\ challenge = None /\ rtoken = [t \in RecTokens |-> None]
      /\ call = [c \in Calls |-> Idle] /\ offers = {} /\ shown = {} /\ replayed = FALSE
      /\ minted = [n \in 1 .. MaxFresh |-> 0] /\ completed = [t \in RecTokens |-> 0]
  BY DEF Init
<1>2. MaxFresh \in Nat \ {0}
  BY AccountAssumption DEF AccountAssumption
<1>3. /\ fresh \in 0 .. MaxFresh /\ config \in Config
      /\ user # None => user \in UserRow /\ user.id <= fresh
      /\ session = [s \in Sessions |-> session[s]]
      /\ \A s \in Sessions : Live(session[s]) =>
           /\ session[s] \in SessionRow /\ user # None /\ session[s].id = user.id
           /\ session[s].secret = user.record.secret
  <2>1. CASE fresh = 0
    <3>1. user = None /\ config = [k \in Settings |-> None] /\ session = [s \in Sessions |-> None]
      BY <2>1 DEF Init
    <3> QED BY <1>2, <2>1, <3>1 DEF Config, Live
  <2>2. CASE fresh # 0
    <3>1. fresh = 1 /\ config = [k \in Settings |-> 1]
      BY <2>2 DEF Init
    <3>2. user \in UserRow /\ user.id = 1 /\ user.record.secret = 1
      <4>1. user = [NewUser(1, 1, 1) EXCEPT !.rkpk = 1]
        BY <2>2 DEF Init
      <4>2. user = [id |-> 1, record |-> [secret |-> 1, setup |-> 1],
                    mp |-> [by |-> 1, gen |-> 1], rk |-> 1, rkpk |-> 1, gen |-> 1,
                    reclaim |-> None, suspended |-> FALSE]
        BY <4>1 DEF NewUser
      <4> QED BY <4>2 DEF UserRow, Wrap
    <3>3. PICK s0 \in Sessions :
            session = [s \in Sessions |->
                         IF s = s0 THEN [id |-> 1, secret |-> 1, escaped |-> FALSE] ELSE None]
      BY <2>2 DEF Init
    <3>4. \A s \in Sessions : Live(session[s]) =>
            session[s] \in SessionRow /\ session[s].id = 1 /\ session[s].secret = 1
      BY <3>3 DEF Live, SessionRow
    <3>5. session = [s \in Sessions |-> session[s]]
      BY <3>3
    <3>6. user # None
      BY <3>2, Absent
    <3> QED BY <1>2, <3>1, <3>2, <3>4, <3>5, <3>6 DEF Config
  <2> QED BY <2>1, <2>2
<1>4. fresh \in Nat
  BY <1>3, Absent
<1>5. Idle \in CallType /\ Formed(Idle, fresh) /\ Idle.pc = "idle"
  BY <1>4, IdleFormed
<1>6. TablesTyped
  BY <1>1, <1>3 DEF TablesTyped, Live
<1>7. CallsTyped
  BY <1>1, <1>5 DEF CallsTyped
<1>8. TokenInv /\ NonceInv /\ SvkWithheld
  BY <1>1, <1>5 DEF TokenInv, NonceInv, Proved, SvkWithheld
<1>9. SignInv
  BY <1>1, <1>3, <1>5 DEF SignInv
<1> QED BY <1>6, <1>7, <1>8, <1>9 DEF AccountInv

(* Every step keeps it.                                                    *)
LEMMA AccountStep == AccountInv /\ [Next]_vars => AccountInv'
<1> SUFFICES ASSUME AccountInv, [Next]_vars PROVE AccountInv'
  OBVIOUS
<1>1. CASE UNCHANGED vars
  BY <1>1 DEF vars, tables, memory, history, AccountInv, TablesTyped, CallsTyped, TokenInv,
              NonceInv, SignInv, SignOutDue, SvkWithheld
<1>2. CASE RecoverChallenge
  BY <1>2, ChallengeStep
<1>3. CASE Expire
  BY <1>3, ExpireStep
<1>4. CASE Restart
  BY <1>4, RestartStep
<1>5. ASSUME NEW c \in Calls, Request(c) PROVE AccountInv'
  <2>1. ASSUME NEW n \in Nonces, Prove(c, "recover", n, "mint") \/ Prove(c, "reclaim", n, "suspend")
        PROVE  AccountInv'
    BY <2>1, ProveStep
  <2>2. ASSUME NEW t \in RecTokens, RecoverComplete(c, t) PROVE AccountInv'
    BY <2>2, CompleteStep
  <2> QED BY <1>5, <2>1, <2>2, ArrivesStep, FactorStep DEF Request
<1>6. ASSUME NEW c \in Calls, Step(c) PROVE AccountInv'
  <2>1. ASSUME NEW t \in RecTokens, MintRecoveryToken(c, t) PROVE AccountInv'
    BY <2>1, MintStep
  <2> QED BY <1>6, <2>1, SettingsStep, AnswerStep, InsertStep, LoginStartStep, LoginFinishStep,
             RowStep, ConsumeStep, RewriteStep, SignOutStep, PurgeStep, FactorStep DEF Step
<1> QED BY <1>1, <1>2, <1>3, <1>4, <1>5, <1>6 DEF Next

(* The inductive invariant.                                                *)
LEMMA AccountInvariant == Spec => []AccountInv
  BY AccountInit, AccountStep, PTL DEF Spec

-----------------------------------------------------------------------------
(* A proof sent after its nonce had been used mints no recovery token, and *)
(* a recovery token rewrites the account once (recover_verify,             *)
(* recover_complete), however requests overlap and wherever the server     *)
(* stops.                                                                  *)
THEOREM RecoveryIsSingleUse == Spec => []RecoverySingleUse
<1>1. AccountInv => RecoverySingleUse
  BY DEF AccountInv, TokenInv, NonceInv, RecoverySingleUse, ReplayedProofRefused,
         RecoveryTokenOnce
<1> QED BY <1>1, AccountInvariant, PTL

(* After recover_complete no session is left that was opened with an older *)
(* password, but for the logins it overtook and a server that stopped      *)
(* before it.                                                              *)
THEOREM RecoveryEndsSessions == Spec => []RecoverySignsOut
<1>1. AccountInv => RecoverySignsOut
  BY DEF AccountInv, SignInv, SignOutDue, RecoverySignsOut, At
<1> QED BY <1>1, AccountInvariant, PTL

(* account_status gives the wrapped key of an account with a second factor *)
(* only to sessions that have passed it.                                   *)
THEOREM SvkAlwaysWithheld == Spec => []SvkWithheld
<1>1. AccountInv => SvkWithheld
  BY DEF AccountInv
<1> QED BY <1>1, AccountInvariant, PTL

-----------------------------------------------------------------------------
(* The phones and their account                                            *)

IsPhone(r) ==
    r \in [pc : {r.pc}, pw : {r.pw}, salt : {r.salt}, kit : {r.kit}, told : {r.told},
           blob : {r.blob}, new : {r.new}, token : {r.token}]

Salts(hld) == {h.salt : h \in hld}

(* A method that has drawn salt and kit which the server has not accepted. *)
Draws(r) == r.pc \in {"register_start", "register_finish", "complete"}

(* A recovery that has read the wrapped key of the account.                *)
Recovers(r) == r.pc \in {"unwrap", "complete"} \/ (r.pc = "register_start" /\ r.blob # None)

LogsIn == {"login_finish", "verify_login", "status", "unlock"}

(* What a method is about to send or to store, once it has been accepted.  *)
WriterFits(r, hld, drn) ==
    /\ Draws(r) => r.new \in 1 .. drn /\ r.new \notin Salts(hld)
    /\ r.pc \in {"save", "rename"} => [salt |-> r.new, pw |-> r.pw] \in hld /\ r.new \in Nat

(* The kit a login tells is named by the salt of its file.                 *)
LoginFits(r, a) ==
    /\ r.pc \in LogsIn \cup {"login_start"} => r.salt \in Nat /\ (r.told # None => r.told = r.salt)
    /\ r.pc \in LogsIn => a # None
    /\ r.pc = "unlock" => r.blob.salt = r.kit /\ (r.token => r.blob.salt = a.mp.salt)

(* A recovery has the wrapped key of the vault, or the account has been    *)
(* recovered by another since.                                             *)
RecoveryFits(r, a, hld) ==
    /\ r.pc \in {"challenge", "verify"} => r.kit \in Nat
    /\ r.pc \in {"info", "unwrap"} => a # None /\ r.kit = r.salt /\ r.salt \in Salts(hld)
    /\ r.pc = "unwrap" /\ a.mp.salt = r.salt => P!Unwraps(r.blob, r.kit)
    /\ Recovers(r) => a # None /\ r.blob.svk \in Nat /\ (~a.rotated => r.blob.svk = a.key)

PhoneFits(r, a, hld, drn) ==
    /\ IsPhone(r) /\ (r.pc # "free" => r.pw \in Passwords)
    /\ WriterFits(r, hld, drn) /\ LoginFits(r, a) /\ RecoveryFits(r, a, hld)

PhonesFit(phn, a, hld, drn) ==
    /\ phn = [p \in Phones |-> phn[p]]
    /\ \A p \in Phones : PhoneFits(phn[p], a, hld, drn)
    /\ \A p, q \in Phones : p # q /\ Draws(phn[p]) /\ Draws(phn[q]) => phn[p].new # phn[q].new

(* Salt and kit of the row were drawn together; kit and password lead to   *)
(* the key of the vault while it is the first.                             *)
RowFits(a, hld) ==
    a # None =>
        /\ a \in P!AccountRow /\ a.mp.salt = a.rk.kit /\ a.mp.salt \in Salts(hld)
        /\ a.rkpk \in {None, a.rk.kit}
        /\ ~a.rotated => a.mp.svk = a.key /\ a.rk.svk = a.key

(* An account file is of credentials the server has accepted.              *)
FileFits(f, hld) ==
    f # None =>
        /\ f.salt \in Nat /\ f.kit = f.salt
        /\ \E h \in hld : h.salt = f.salt /\ f.seal \in {None, h.pw}

(* A vault unlocked by password under a live session has the current salt. *)
VaultFits(v, online, a) ==
    /\ v # None => /\ v \in [svk : {v.svk}, mk : BOOLEAN, pw : {v.pw}, salt : {v.salt}]
                   /\ v.mk => v.pw \in Passwords /\ v.salt \in Nat
    /\ online => a # None
    /\ v # None /\ v.mk /\ online => v.salt = a.mp.salt

PendingFits(w, a) == w # None => w \in Passwords /\ a # None

StoredFit(fil, vlt, syn, pnd, a, hld) ==
    /\ fil = [p \in Phones |-> fil[p]] /\ vlt = [p \in Phones |-> vlt[p]]
    /\ pnd = [p \in Phones |-> pnd[p]]
    /\ \A p \in Phones : /\ FileFits(fil[p], hld) /\ VaultFits(vlt[p], p \in syn, a)
                         /\ PendingFits(pnd[p], a)

NumbersFit(kno, hld, drn) == drn \in Nat /\ kno \subseteq Nat /\ Salts(hld) \subseteq 0 .. drn

MobileInv ==
    /\ NumbersFit(known, held, drawn) /\ RowFits(account, held)
    /\ PhonesFit(phone, account, held, drawn)
    /\ StoredFit(file, vault, sync, pending, account, held)

(* r is at pc and is otherwise as given.                                   *)
Phone(r, pc, pw, salt, kit, told, blob, new, token) ==
    /\ IsPhone(r) /\ r.pc = pc /\ r.pw = pw /\ r.salt = salt /\ r.kit = kit /\ r.told = told
    /\ r.blob = blob /\ r.new = new /\ r.token = token

LEMMA FreeIs == Phone(P!Free, "free", None, None, None, None, None, None, FALSE)
  BY DEF Phone, IsPhone, P!Free

LEMMA PhoneAt ==
    ASSUME NEW r, IsPhone(r), NEW pc
    PROVE  Phone([r EXCEPT !.pc = pc], pc, r.pw, r.salt, r.kit, r.told, r.blob, r.new, r.token)
  BY DEF Phone, IsPhone

LEMMA PhoneSession ==
    ASSUME NEW r, IsPhone(r), NEW pc, NEW token
    PROVE  Phone([r EXCEPT !.pc = pc, !.token = token], pc, r.pw, r.salt, r.kit, r.told, r.blob, r.new, token)
  BY DEF Phone, IsPhone

LEMMA PhoneToken ==
    ASSUME NEW r, IsPhone(r), NEW token
    PROVE  Phone([r EXCEPT !.token = token], r.pc, r.pw, r.salt, r.kit, r.told, r.blob, r.new, token)
  BY DEF Phone, IsPhone

LEMMA PhoneKit ==
    ASSUME NEW r, IsPhone(r), NEW pc, NEW kit, NEW blob
    PROVE  Phone([r EXCEPT !.pc = pc, !.kit = kit, !.blob = blob],
                 pc, r.pw, r.salt, kit, r.told, blob, r.new, r.token)
  BY DEF Phone, IsPhone

LEMMA PhoneSalt ==
    ASSUME NEW r, IsPhone(r), NEW pc, NEW salt
    PROVE  Phone([r EXCEPT !.pc = pc, !.salt = salt],
                 pc, r.pw, salt, r.kit, r.told, r.blob, r.new, r.token)
  BY DEF Phone, IsPhone

LEMMA PhoneBlob ==
    ASSUME NEW r, IsPhone(r), NEW pc, NEW blob
    PROVE  Phone([r EXCEPT !.pc = pc, !.blob = blob],
                 pc, r.pw, r.salt, r.kit, r.told, blob, r.new, r.token)
  BY DEF Phone, IsPhone

LEMMA PhoneNew ==
    ASSUME NEW r, IsPhone(r), NEW pc, NEW new
    PROVE  Phone([r EXCEPT !.pc = pc, !.new = new],
                 pc, r.pw, r.salt, r.kit, r.told, r.blob, new, r.token)
  BY DEF Phone, IsPhone

LEMMA PhoneRegisters ==
    ASSUME NEW pc, NEW pw, NEW new
    PROVE  Phone([P!Free EXCEPT !.pc = pc, !.pw = pw, !.new = new],
                 pc, pw, None, None, None, None, new, FALSE)
  BY DEF Phone, IsPhone, P!Free

LEMMA PhoneLoads ==
    ASSUME NEW pc, NEW pw, NEW salt, NEW told
    PROVE  Phone([P!Free EXCEPT !.pc = pc, !.pw = pw, !.salt = salt, !.told = told],
                 pc, pw, salt, None, told, None, None, FALSE)
  BY DEF Phone, IsPhone, P!Free

LEMMA PhoneRecovers ==
    ASSUME NEW pc, NEW pw, NEW kit
    PROVE  Phone([P!Free EXCEPT !.pc = pc, !.pw = pw, !.kit = kit],
                 pc, pw, None, kit, None, None, None, FALSE)
  BY DEF Phone, IsPhone, P!Free

(* A phone between methods.                                                *)
LEMMA FreeFits == \A a, hld, drn : PhoneFits(P!Free, a, hld, drn) /\ ~Draws(P!Free)
<1> SUFFICES ASSUME NEW a, NEW hld, NEW drn
             PROVE  PhoneFits(P!Free, a, hld, drn) /\ ~Draws(P!Free)
  OBVIOUS
<1>1. IsPhone(P!Free) /\ P!Free.pc = "free"
  BY FreeIs DEF Phone
<1> QED BY <1>1 DEF PhoneFits, WriterFits, LoginFits, RecoveryFits, Draws, Recovers, LogsIn

(* One phone is at r, and the others where they were.                      *)
LEMMA OnePhone ==
    ASSUME NEW phn, NEW a, NEW hld, NEW drn, NEW a2, NEW hld2, NEW drn2, PhonesFit(phn, a, hld, drn),
           NEW p \in Phones, NEW r, PhoneFits(r, a2, hld2, drn2),
           \A q \in Phones \ {p} : PhoneFits(phn[q], a2, hld2, drn2),
           Draws(r) => \A q \in Phones \ {p} : Draws(phn[q]) => phn[q].new # r.new
    PROVE  PhonesFit([phn EXCEPT ![p] = r], a2, hld2, drn2)
<1> DEFINE new == [phn EXCEPT ![p] = r]
<1>1. new = [q \in Phones |-> new[q]] /\ new[p] = r /\ \A q \in Phones \ {p} : new[q] = phn[q]
  BY DEF PhonesFit
<1> HIDE DEF new
<1>2. \A q \in Phones : PhoneFits(new[q], a2, hld2, drn2)
  <2> TAKE q \in Phones
  <2> QED BY <1>1
<1>3. \A q, s \in Phones : q # s /\ Draws(new[q]) /\ Draws(new[s]) => new[q].new # new[s].new
  <2> SUFFICES ASSUME NEW q \in Phones, NEW s \in Phones, q # s, Draws(new[q]), Draws(new[s])
               PROVE  new[q].new # new[s].new
    OBVIOUS
  <2>1. CASE q = p
    BY <1>1, <2>1
  <2>2. CASE s = p
    BY <1>1, <2>2
  <2>3. CASE q # p /\ s # p
    BY <1>1, <2>3 DEF PhonesFit
  <2> QED BY <2>1, <2>2, <2>3
<1>4. PhonesFit(new, a2, hld2, drn2)
  BY <1>1, <1>2, <1>3 DEF PhonesFit
<1> QED BY <1>4 DEF new

(* Nothing happens to server or draws, and r carries what it carried.      *)
LEMMA QuietPhone ==
    ASSUME MobileInv, NEW p \in Phones, NEW r, phone' = [phone EXCEPT ![p] = r],
           UNCHANGED <<account, held, drawn>>, PhoneFits(r, account, held, drawn),
           Draws(r) => Draws(phone[p]) /\ r.new = phone[p].new
    PROVE  PhonesFit(phone, account, held, drawn)' /\ RowFits(account, held)'
<1>1. PhonesFit(phone, account, held, drawn) /\ RowFits(account, held)
  BY DEF MobileInv
<1>2. \A q \in Phones \ {p} : PhoneFits(phone[q], account, held, drawn)
  BY <1>1 DEF PhonesFit
<1>3. Draws(r) => \A q \in Phones \ {p} : Draws(phone[q]) => phone[q].new # r.new
  BY <1>1 DEF PhonesFit
<1>4. PhonesFit([phone EXCEPT ![p] = r], account, held, drawn)
  BY <1>1, <1>2, <1>3, OnePhone
<1> QED BY <1>1, <1>4

(* The phone alone moves.                                                  *)
LEMMA PhoneOnly ==
    ASSUME MobileInv, NEW p \in Phones, NEW r, phone' = [phone EXCEPT ![p] = r],
           UNCHANGED <<account, held, drawn, known, file, vault, sync, pending>>,
           PhoneFits(r, account, held, drawn),
           Draws(r) => Draws(phone[p]) /\ r.new = phone[p].new
    PROVE  MobileInv'
<1>1. PhonesFit(phone, account, held, drawn)' /\ RowFits(account, held)'
  BY QuietPhone
<1>2. NumbersFit(known, held, drawn)' /\ StoredFit(file, vault, sync, pending, account, held)'
  BY DEF MobileInv, NumbersFit, StoredFit
<1> QED BY <1>1, <1>2 DEF MobileInv

(* What is kept on the phone changes with it.                              *)
LEMMA PhoneStores ==
    ASSUME MobileInv, NEW p \in Phones, NEW r, phone' = [phone EXCEPT ![p] = r],
           UNCHANGED <<account, held, drawn>>, known' \subseteq Nat,
           PhoneFits(r, account, held, drawn),
           Draws(r) => Draws(phone[p]) /\ r.new = phone[p].new,
           NEW f, NEW v, NEW w, file' = [file EXCEPT ![p] = f], vault' = [vault EXCEPT ![p] = v],
           pending' = [pending EXCEPT ![p] = w], \A q \in Phones \ {p} : q \in sync' <=> q \in sync,
           FileFits(f, held), VaultFits(v, p \in sync', account), PendingFits(w, account)
    PROVE  MobileInv'
<1>1. PhonesFit(phone, account, held, drawn)' /\ RowFits(account, held)'
  BY QuietPhone
<1>2. NumbersFit(known, held, drawn)'
  BY DEF MobileInv, NumbersFit
<1>3. StoredFit(file, vault, sync, pending, account, held)
  BY DEF MobileInv
<1>4. /\ file' = [q \in Phones |-> file'[q]] /\ vault' = [q \in Phones |-> vault'[q]]
      /\ pending' = [q \in Phones |-> pending'[q]]
      /\ file'[p] = f /\ vault'[p] = v /\ pending'[p] = w
      /\ \A q \in Phones \ {p} : file'[q] = file[q] /\ vault'[q] = vault[q] /\ pending'[q] = pending[q]
  BY <1>3 DEF StoredFit
<1>5. ASSUME NEW q \in Phones
      PROVE  FileFits(file'[q], held) /\ VaultFits(vault'[q], q \in sync', account) /\ PendingFits(pending'[q], account)
  <2>1. CASE q = p
    BY <1>4, <2>1
  <2>2. CASE q # p
    <3>1. FileFits(file[q], held) /\ VaultFits(vault[q], q \in sync, account) /\ PendingFits(pending[q], account)
      BY <1>3 DEF StoredFit
    <3>2. (q \in sync') <=> (q \in sync)
      BY <2>2
    <3> QED BY <1>4, <2>2, <3>1, <3>2 DEF VaultFits
  <2> QED BY <2>1, <2>2
<1>6. StoredFit(file', vault', sync', pending', account, held)
  BY <1>4, <1>5 DEF StoredFit
<1>7. StoredFit(file, vault, sync, pending, account, held)'
  BY <1>6
<1> QED BY <1>1, <1>2, <1>7 DEF MobileInv

(* What the invariant says of one phone.                                   *)
LEMMA OfPhone ==
    ASSUME MobileInv, NEW p \in Phones
    PROVE  /\ PhoneFits(phone[p], account, held, drawn) /\ IsPhone(phone[p])
           /\ FileFits(file[p], held) /\ VaultFits(vault[p], p \in sync, account)
           /\ PendingFits(pending[p], account)
           /\ file = [file EXCEPT ![p] = file[p]] /\ vault = [vault EXCEPT ![p] = vault[p]]
           /\ pending = [pending EXCEPT ![p] = pending[p]]
  BY DEF MobileInv, PhonesFit, StoredFit, PhoneFits

-----------------------------------------------------------------------------
(* Steps of a phone that leave the server as it is                         *)

(* A method ends.                                                          *)
LEMMA LeaveKeeps ==
    ASSUME MobileInv, NEW p \in Phones, phone' = [phone EXCEPT ![p] = P!Free],
           UNCHANGED <<account, held, drawn, known, file, vault, sync, pending>>
    PROVE  MobileInv'
  BY FreeFits, PhoneOnly

LEMMA RegisterStartedKeeps ==
    ASSUME MobileInv, NEW p \in Phones, P!RegisterStarted(p)
    PROVE  MobileInv'
<1> DEFINE x == phone[p]
           pc == IF x.blob = None THEN "register_finish" ELSE "complete"
           r == [x EXCEPT !.pc = pc]
<1>1. /\ x.pc = "register_start" /\ phone' = [phone EXCEPT ![p] = r]
      /\ UNCHANGED <<account, held, drawn, known, file, vault, sync, pending>>
  BY DEF P!RegisterStarted, P!In, P!Go, P!server, P!device, P!past
<1>2. PhoneFits(x, account, held, drawn) /\ IsPhone(x)
  BY OfPhone
<1> HIDE DEF x, pc
<1>3. Phone(r, pc, x.pw, x.salt, x.kit, x.told, x.blob, x.new, x.token)
  BY <1>2, PhoneAt
<1>4. pc = "register_finish" \/ (pc = "complete" /\ Recovers(x))
  BY <1>1 DEF pc, Recovers
<1> HIDE DEF r
<1>5. x.pc # "free" /\ Draws(x) /\ Draws(r)
  BY <1>1, <1>3, <1>4 DEF Phone, Draws
<1>6. WriterFits(r, held, drawn)
  BY <1>2, <1>3, <1>4, <1>5 DEF PhoneFits, WriterFits, Phone
<1>7. LoginFits(r, account)
  BY <1>3, <1>4 DEF LoginFits, Phone, LogsIn
<1>8. RecoveryFits(r, account, held)
  BY <1>2, <1>3, <1>4 DEF PhoneFits, RecoveryFits, Phone, Recovers
<1>9. PhoneFits(r, account, held, drawn)
  BY <1>2, <1>3, <1>5, <1>6, <1>7, <1>8 DEF PhoneFits, Phone
<1> QED BY <1>1, <1>3, <1>5, <1>9, PhoneOnly DEF Phone, x

LEMMA SaveTempKeeps ==
    ASSUME MobileInv, NEW p \in Phones, P!SaveTemp(p)
    PROVE  MobileInv'
<1> DEFINE x == phone[p]
           r == [x EXCEPT !.pc = "rename"]
<1>1. /\ x.pc = "save" /\ phone' = [phone EXCEPT ![p] = r]
      /\ UNCHANGED <<account, held, drawn, known, file, vault, sync, pending>>
  BY DEF P!SaveTemp, P!WriteTemp, P!In, P!Go, P!server, P!past
<1>2. PhoneFits(x, account, held, drawn) /\ IsPhone(x)
  BY OfPhone
<1> HIDE DEF x
<1>3. Phone(r, "rename", x.pw, x.salt, x.kit, x.told, x.blob, x.new, x.token)
  BY <1>2, PhoneAt
<1> HIDE DEF r
<1>4. ~Draws(r) /\ WriterFits(r, held, drawn)
  BY <1>1, <1>2, <1>3 DEF PhoneFits, WriterFits, Phone, Draws
<1>5. LoginFits(r, account) /\ RecoveryFits(r, account, held)
  BY <1>3 DEF LoginFits, RecoveryFits, Phone, LogsIn, Recovers
<1>6. PhoneFits(r, account, held, drawn)
  BY <1>1, <1>2, <1>3, <1>4, <1>5 DEF PhoneFits, Phone
<1> QED BY <1>1, <1>4, <1>6, PhoneOnly

LEMMA SaveRenameKeeps ==
    ASSUME MobileInv, NEW p \in Phones, P!SaveRename(p)
    PROVE  MobileInv'
<1> DEFINE x == phone[p]
           f == P!save_local_account(x)
<1>1. /\ x.pc = "rename" /\ phone' = [phone EXCEPT ![p] = P!Free]
      /\ file' = [file EXCEPT ![p] = f] /\ known' = known \cup {x.new}
      /\ UNCHANGED <<account, held, drawn, vault, sync, pending>>
  BY DEF P!SaveRename, P!In, P!Go, P!Leave, P!server
<1>2. /\ PhoneFits(x, account, held, drawn) /\ VaultFits(vault[p], p \in sync, account)
      /\ PendingFits(pending[p], account) /\ vault = [vault EXCEPT ![p] = vault[p]]
      /\ pending = [pending EXCEPT ![p] = pending[p]]
  BY OfPhone
<1>3. [salt |-> x.new, pw |-> x.pw] \in held /\ x.new \in Nat
  BY <1>1, <1>2 DEF PhoneFits, WriterFits
<1>4. f.salt = x.new /\ f.kit = x.new /\ f.seal = x.pw
  BY DEF P!save_local_account, P!LocalAccount
<1> HIDE DEF x, f
<1>5. FileFits(f, held)
  <2>1. [salt |-> x.new, pw |-> x.pw].salt = f.salt /\ f.seal \in {None, [salt |-> x.new, pw |-> x.pw].pw}
    BY <1>4
  <2> QED BY <1>3, <1>4, <2>1 DEF FileFits
<1>6. known' \subseteq Nat
  BY <1>1, <1>3 DEF MobileInv, NumbersFit
<1>7. PhoneFits(P!Free, account, held, drawn) /\ ~Draws(P!Free)
  BY FreeFits
<1>8. vault' = [vault EXCEPT ![p] = vault[p]] /\ pending' = [pending EXCEPT ![p] = pending[p]]
      /\ sync' = sync
  BY <1>1, <1>2
<1> QED BY <1>1, <1>2, <1>5, <1>6, <1>7, <1>8, PhoneStores

(* A phone that signs in carries the salt and the kit of its file.         *)
LEMMA LoadKeeps ==
    ASSUME MobileInv, NEW p \in Phones, NEW pw \in Passwords, NEW pc, file[p] # None,
           pc = "login_start" \/ (pc = "verify_login" /\ account # None), P!Load(p, pw, pc),
           UNCHANGED <<account, held, drawn, known, file, vault, sync, pending>>
    PROVE  MobileInv'
<1> DEFINE f == file[p]
           t == P!load_local_account(f, pw)
           r == [P!Free EXCEPT !.pc = pc, !.pw = pw, !.salt = f.salt, !.told = t]
<1>1. phone' = [phone EXCEPT ![p] = r]
  BY DEF P!Load, P!Enter
<1>2. FileFits(f, held)
  BY OfPhone
<1>3. t # None => t = f.salt
  BY <1>2 DEF P!load_local_account, FileFits
<1>4. f.salt \in Nat
  BY <1>2 DEF FileFits
<1> HIDE DEF f, t
<1>5. Phone(r, pc, pw, f.salt, None, t, None, None, FALSE)
  BY PhoneLoads
<1> HIDE DEF r
<1>6. ~Draws(r) /\ WriterFits(r, held, drawn)
  BY <1>5 DEF WriterFits, Phone, Draws
<1>7. LoginFits(r, account) /\ RecoveryFits(r, account, held)
  BY <1>3, <1>4, <1>5 DEF LoginFits, RecoveryFits, Phone, LogsIn, Recovers
<1>8. PhoneFits(r, account, held, drawn)
  BY <1>5, <1>6, <1>7 DEF PhoneFits, Phone
<1> QED BY <1>1, <1>6, <1>8, PhoneOnly

LEMMA LoadsKeep ==
    ASSUME MobileInv, NEW p \in Phones, P!StartTotp(p) \/ \E pw \in Passwords : P!StartLogin(p, pw)
    PROVE  MobileInv'
<1>1. ASSUME NEW pw \in Passwords, P!StartLogin(p, pw)
      PROVE  MobileInv'
  <2>1. /\ file[p] # None /\ P!Load(p, pw, "login_start")
        /\ UNCHANGED <<account, held, drawn, known, file, vault, sync, pending>>
    BY <1>1 DEF P!StartLogin, P!server, P!device, P!past
  <2> QED BY <2>1, LoadKeeps
<1>2. CASE P!StartTotp(p)
  <2>1. /\ file[p] # None /\ pending[p] # None /\ P!Load(p, pending[p], "verify_login")
        /\ UNCHANGED <<account, held, drawn, known, file, vault, sync, pending>>
    BY <1>2 DEF P!StartTotp, P!server, P!device, P!past
  <2>2. pending[p] \in Passwords /\ account # None
    BY <2>1, OfPhone DEF PendingFits
  <2> QED BY <2>1, <2>2, LoadKeeps
<1> QED BY <1>1, <1>2

(* A login goes on to pc.                                                  *)
LEMMA LoginMoves ==
    ASSUME NEW x, NEW r, NEW pc \in {"login_finish", "status"}, NEW token, account # None,
           PhoneFits(x, account, held, drawn), x.pc \in LogsIn \cup {"login_start"},
           Phone(r, pc, x.pw, x.salt, x.kit, x.told, x.blob, x.new, token)
    PROVE  PhoneFits(r, account, held, drawn) /\ ~Draws(r)
<1>1. ~Draws(r) /\ WriterFits(r, held, drawn)
  BY DEF WriterFits, Phone, Draws
<1>2. LoginFits(r, account) /\ RecoveryFits(r, account, held)
  BY DEF PhoneFits, LoginFits, RecoveryFits, Phone, LogsIn, Recovers
<1>3. x.pc # "free"
  BY DEF LogsIn
<1> QED BY <1>1, <1>2, <1>3 DEF PhoneFits, Phone

LEMMA LoginStartedKeeps ==
    ASSUME MobileInv, NEW p \in Phones, P!LoginStarted(p)
    PROVE  MobileInv'
<1> DEFINE x == phone[p]
           r == [x EXCEPT !.pc = "login_finish"]
<1>1. /\ x.pc = "login_start"
      /\ \/ account # None /\ phone' = [phone EXCEPT ![p] = r]
         \/ phone' = [phone EXCEPT ![p] = P!Free]
      /\ UNCHANGED <<account, held, drawn, known, file, vault, sync, pending>>
  BY DEF P!LoginStarted, P!In, P!Go, P!Leave, P!server, P!device, P!past
<1>2. PhoneFits(x, account, held, drawn) /\ IsPhone(x)
  BY OfPhone
<1> HIDE DEF x
<1>3. Phone(r, "login_finish", x.pw, x.salt, x.kit, x.told, x.blob, x.new, x.token)
  BY <1>2, PhoneAt
<1> HIDE DEF r
<1>4. account # None => PhoneFits(r, account, held, drawn) /\ ~Draws(r)
  BY <1>1, <1>2, <1>3, LoginMoves
<1> QED BY <1>1, <1>4, PhoneOnly, LeaveKeeps

LEMMA LoginFinishedKeeps ==
    ASSUME MobileInv, NEW p \in Phones, P!LoginFinished(p)
    PROVE  MobileInv'
<1> DEFINE x == phone[p]
           r == [x EXCEPT !.pc = "status", !.token = TRUE]
<1>1. /\ x.pc = "login_finish"
      /\ \/ phone' = [phone EXCEPT ![p] = r] /\ UNCHANGED pending
         \/ phone' = [phone EXCEPT ![p] = P!Free] /\ pending' = [pending EXCEPT ![p] = x.pw]
      /\ UNCHANGED <<account, held, drawn, known, file, vault, sync>>
  BY DEF P!LoginFinished, P!In, P!Go, P!Leave, P!server, P!past
<1>2. /\ PhoneFits(x, account, held, drawn) /\ IsPhone(x) /\ VaultFits(vault[p], p \in sync, account)
      /\ FileFits(file[p], held) /\ vault = [vault EXCEPT ![p] = vault[p]]
      /\ file = [file EXCEPT ![p] = file[p]]
  BY OfPhone
<1> HIDE DEF x
<1>3. account # None /\ x.pw \in Passwords
  BY <1>1, <1>2 DEF PhoneFits, LoginFits, LogsIn
<1>4. Phone(r, "status", x.pw, x.salt, x.kit, x.told, x.blob, x.new, TRUE)
  BY <1>2, PhoneSession
<1> HIDE DEF r
<1>5. CASE phone' = [phone EXCEPT ![p] = r] /\ UNCHANGED pending
  <2>1. PhoneFits(r, account, held, drawn) /\ ~Draws(r)
    BY <1>1, <1>2, <1>3, <1>4, LoginMoves DEF LogsIn
  <2> QED BY <1>1, <1>5, <2>1, PhoneOnly
<1>6. CASE phone' = [phone EXCEPT ![p] = P!Free] /\ pending' = [pending EXCEPT ![p] = x.pw]
  <2>1. PendingFits(x.pw, account)
    BY <1>3 DEF PendingFits
  <2>2. known' \subseteq Nat
    BY <1>1 DEF MobileInv, NumbersFit
  <2>3. vault' = [vault EXCEPT ![p] = vault[p]] /\ file' = [file EXCEPT ![p] = file[p]] /\ sync' = sync
    BY <1>1, <1>2
  <2>4. PhoneFits(P!Free, account, held, drawn) /\ ~Draws(P!Free)
    BY FreeFits
  <2> QED BY <1>1, <1>2, <1>6, <2>1, <2>2, <2>3, <2>4, PhoneStores
<1> QED BY <1>1, <1>5, <1>6

LEMMA TotpVerifiedKeeps ==
    ASSUME MobileInv, NEW p \in Phones, P!TotpVerified(p)
    PROVE  MobileInv'
<1> DEFINE x == phone[p]
           r == [x EXCEPT !.pc = "status", !.token = TRUE]
<1>1. /\ x.pc = "verify_login"
      /\ \/ /\ pending' = [pending EXCEPT ![p] = None]
            /\ phone' = [phone EXCEPT ![p] = r] \/ phone' = [phone EXCEPT ![p] = P!Free]
         \/ phone' = [phone EXCEPT ![p] = P!Free] /\ UNCHANGED pending
      /\ UNCHANGED <<account, held, drawn, known, file, vault, sync>>
  BY DEF P!TotpVerified, P!In, P!Go, P!Leave, P!Reply, P!server, P!past
<1>2. /\ PhoneFits(x, account, held, drawn) /\ IsPhone(x) /\ VaultFits(vault[p], p \in sync, account)
      /\ FileFits(file[p], held) /\ vault = [vault EXCEPT ![p] = vault[p]]
      /\ file = [file EXCEPT ![p] = file[p]]
  BY OfPhone
<1> HIDE DEF x
<1>3. account # None
  BY <1>1, <1>2 DEF PhoneFits, LoginFits, LogsIn
<1>4. Phone(r, "status", x.pw, x.salt, x.kit, x.told, x.blob, x.new, TRUE)
  BY <1>2, PhoneSession
<1> HIDE DEF r
<1>5. PhoneFits(r, account, held, drawn) /\ ~Draws(r) /\ PhoneFits(P!Free, account, held, drawn) /\ ~Draws(P!Free)
  BY <1>1, <1>2, <1>3, <1>4, FreeFits, LoginMoves DEF LogsIn
<1>6. PendingFits(None, account) /\ known' \subseteq Nat
  BY <1>1 DEF PendingFits, MobileInv, NumbersFit
<1>7. vault' = [vault EXCEPT ![p] = vault[p]] /\ file' = [file EXCEPT ![p] = file[p]] /\ sync' = sync
  BY <1>1, <1>2
<1>8. ASSUME NEW y \in {r, P!Free}, phone' = [phone EXCEPT ![p] = y], pending' = [pending EXCEPT ![p] = None]
      PROVE  MobileInv'
  <2>1. PhoneFits(y, account, held, drawn) /\ ~Draws(y)
    BY <1>5, <1>8
  <2> QED BY <1>1, <1>2, <1>6, <1>7, <1>8, <2>1, PhoneStores
<1> QED BY <1>1, <1>8, LeaveKeeps

(* The wrapped key and the kit of the row, whose salt names both.          *)
LEMMA StatusFetchedKeeps ==
    ASSUME MobileInv, NEW p \in Phones, P!StatusFetched(p)
    PROVE  MobileInv'
<1> DEFINE x == phone[p]
           r == [x EXCEPT !.pc = "unlock", !.kit = account.rk.kit, !.blob = account.mp]
<1>1. /\ x.pc = "status"
      /\ phone' = [phone EXCEPT ![p] = r] \/ phone' = [phone EXCEPT ![p] = P!Free]
      /\ UNCHANGED <<account, held, drawn, known, file, vault, sync, pending>>
  BY DEF P!StatusFetched, P!In, P!Go, P!Leave, P!server, P!device, P!past
<1>2. PhoneFits(x, account, held, drawn) /\ IsPhone(x)
  BY OfPhone
<1> HIDE DEF x
<1>3. account # None /\ account.mp.salt = account.rk.kit
  BY <1>1, <1>2 DEF PhoneFits, LoginFits, LogsIn, MobileInv, RowFits
<1>4. Phone(r, "unlock", x.pw, x.salt, account.rk.kit, x.told, account.mp, x.new, x.token)
  BY <1>2, PhoneKit
<1> HIDE DEF r
<1>5. ~Draws(r) /\ WriterFits(r, held, drawn)
  BY <1>4 DEF WriterFits, Phone, Draws
<1>6. LoginFits(r, account)
  BY <1>1, <1>2, <1>3, <1>4 DEF PhoneFits, LoginFits, Phone, LogsIn
<1>7. RecoveryFits(r, account, held)
  BY <1>4 DEF RecoveryFits, Phone, Recovers
<1>8. PhoneFits(r, account, held, drawn)
  BY <1>1, <1>2, <1>4, <1>5, <1>6, <1>7 DEF PhoneFits, Phone
<1> QED BY <1>1, <1>5, <1>8, PhoneOnly, LeaveKeeps

LEMMA UnlockKeeps ==
    ASSUME MobileInv, NEW p \in Phones, P!UnlockWithPassword(p)
    PROVE  MobileInv'
<1> DEFINE x == phone[p]
           v == [svk |-> x.blob.svk, mk |-> TRUE, pw |-> x.pw, salt |-> x.salt]
<1>1. /\ x.pc = "unlock" /\ phone' = [phone EXCEPT ![p] = P!Free]
      /\ \/ /\ P!Opens(x) /\ vault' = [vault EXCEPT ![p] = v]
            /\ sync' = IF x.token THEN sync \cup {p} ELSE sync \ {p}
         \/ UNCHANGED <<vault, sync>>
      /\ UNCHANGED <<account, held, drawn, known, file, pending>>
  BY DEF P!UnlockWithPassword, P!In, P!Go, P!Leave, P!server, P!past
<1>2. CASE UNCHANGED <<vault, sync>>
  BY <1>1, <1>2, LeaveKeeps
<1>3. CASE /\ P!Opens(x) /\ vault' = [vault EXCEPT ![p] = v]
           /\ sync' = IF x.token THEN sync \cup {p} ELSE sync \ {p}
  <2>1. /\ PhoneFits(x, account, held, drawn) /\ PendingFits(pending[p], account)
        /\ FileFits(file[p], held) /\ pending = [pending EXCEPT ![p] = pending[p]]
        /\ file = [file EXCEPT ![p] = file[p]]
    BY OfPhone
  <2>2. /\ v.svk = x.blob.svk /\ v.mk = TRUE /\ v.pw = x.pw /\ v.salt = x.salt
        /\ v \in [svk : {v.svk}, mk : BOOLEAN, pw : {v.pw}, salt : {v.salt}]
    OBVIOUS
  <2> HIDE DEF x, v
  <2>3. /\ x.pw \in Passwords /\ x.salt \in Nat /\ account # None /\ x.blob.salt = x.salt
        /\ x.token => x.blob.salt = account.mp.salt
    BY <1>1, <1>3, <2>1 DEF PhoneFits, LoginFits, LogsIn, P!Opens
  <2>4. (p \in sync') => x.token
    BY <1>3
  <2>5. VaultFits(v, p \in sync', account)
    BY <2>2, <2>3, <2>4 DEF VaultFits
  <2>6. \A q \in Phones \ {p} : q \in sync' <=> q \in sync
    BY <1>3
  <2>7. file' = [file EXCEPT ![p] = file[p]] /\ pending' = [pending EXCEPT ![p] = pending[p]]
    BY <1>1, <2>1
  <2>8. PhoneFits(P!Free, account, held, drawn) /\ ~Draws(P!Free)
    BY FreeFits
  <2>9. known' \subseteq Nat
    BY <1>1 DEF MobileInv, NumbersFit
  <2> QED BY <1>1, <1>3, <2>1, <2>5, <2>6, <2>7, <2>8, <2>9, PhoneStores
<1> QED BY <1>1, <1>2, <1>3

LEMMA RecoverKeeps ==
    ASSUME MobileInv, NEW p \in Phones, NEW kit \in known, NEW pw \in Passwords, P!Recover(p, kit, pw)
    PROVE  MobileInv'
<1> DEFINE r == [P!Free EXCEPT !.pc = "challenge", !.pw = pw, !.kit = kit]
<1>1. /\ phone' = [phone EXCEPT ![p] = r]
      /\ UNCHANGED <<account, held, drawn, known, file, vault, sync, pending>>
  BY DEF P!Recover, P!Enter, P!server, P!device, P!past
<1>2. kit \in Nat
  BY DEF MobileInv, NumbersFit
<1>3. Phone(r, "challenge", pw, None, kit, None, None, None, FALSE)
  BY PhoneRecovers
<1> HIDE DEF r
<1>4. ~Draws(r) /\ WriterFits(r, held, drawn) /\ LoginFits(r, account)
  BY <1>3 DEF WriterFits, Phone, Draws, LoginFits, LogsIn
<1>5. RecoveryFits(r, account, held)
  BY <1>2, <1>3 DEF RecoveryFits, Phone, Recovers
<1>6. PhoneFits(r, account, held, drawn)
  BY <1>3, <1>4, <1>5 DEF PhoneFits, Phone
<1> QED BY <1>1, <1>4, <1>6, PhoneOnly

LEMMA ChallengedKeeps ==
    ASSUME MobileInv, NEW p \in Phones, P!Challenged(p)
    PROVE  MobileInv'
<1> DEFINE x == phone[p]
           r == [x EXCEPT !.pc = "verify"]
<1>1. /\ x.pc = "challenge"
      /\ phone' = [phone EXCEPT ![p] = r] \/ phone' = [phone EXCEPT ![p] = P!Free]
      /\ UNCHANGED <<account, held, drawn, known, file, vault, sync, pending>>
  BY DEF P!Challenged, P!In, P!Go, P!Reply, P!device, P!past
<1>2. PhoneFits(x, account, held, drawn) /\ IsPhone(x)
  BY OfPhone
<1> HIDE DEF x
<1>3. Phone(r, "verify", x.pw, x.salt, x.kit, x.told, x.blob, x.new, x.token)
  BY <1>2, PhoneAt
<1> HIDE DEF r
<1>4. ~Draws(r) /\ WriterFits(r, held, drawn) /\ LoginFits(r, account)
  BY <1>3 DEF WriterFits, Phone, Draws, LoginFits, LogsIn
<1>5. RecoveryFits(r, account, held)
  BY <1>1, <1>2, <1>3 DEF PhoneFits, RecoveryFits, Phone, Recovers
<1>6. PhoneFits(r, account, held, drawn)
  BY <1>1, <1>2, <1>3, <1>4, <1>5 DEF PhoneFits, Phone
<1> QED BY <1>1, <1>4, <1>6, PhoneOnly, LeaveKeeps

(* A kit that is verified is the one the row was made with.                *)
LEMMA VerifiedKeeps ==
    ASSUME MobileInv, NEW p \in Phones, P!Verified(p)
    PROVE  MobileInv'
<1> DEFINE x == phone[p]
           r == [x EXCEPT !.pc = "info", !.salt = account.mp.salt]
<1>1. /\ x.pc = "verify"
      /\ \/ account # None /\ account.rkpk = x.kit /\ phone' = [phone EXCEPT ![p] = r]
         \/ phone' = [phone EXCEPT ![p] = P!Free]
      /\ UNCHANGED <<account, held, drawn, known, file, vault, sync, pending>>
  BY DEF P!Verified, P!In, P!Go, P!Leave, P!Reply, P!device, P!past
<1>2. PhoneFits(x, account, held, drawn) /\ IsPhone(x)
  BY OfPhone
<1> HIDE DEF x
<1>3. Phone(r, "info", x.pw, account.mp.salt, x.kit, x.told, x.blob, x.new, x.token)
  BY <1>2, PhoneSalt
<1> HIDE DEF r
<1>4. CASE account # None /\ account.rkpk = x.kit /\ phone' = [phone EXCEPT ![p] = r]
  <2>1. x.kit \in Nat /\ None \notin Nat
    BY <1>1, <1>2, AccountAssumption DEF PhoneFits, RecoveryFits
  <2>2. /\ account.rkpk \in {None, account.rk.kit} /\ account.mp.salt = account.rk.kit
        /\ account.mp.salt \in Salts(held)
    BY <1>4 DEF MobileInv, RowFits
  <2>3. x.kit = account.mp.salt
    BY <1>4, <2>1, <2>2
  <2>4. ~Draws(r) /\ WriterFits(r, held, drawn) /\ LoginFits(r, account)
    BY <1>3 DEF WriterFits, Phone, Draws, LoginFits, LogsIn
  <2>5. RecoveryFits(r, account, held)
    BY <1>3, <1>4, <2>2, <2>3 DEF RecoveryFits, Phone, Recovers
  <2>6. PhoneFits(r, account, held, drawn)
    BY <1>1, <1>2, <1>3, <2>4, <2>5 DEF PhoneFits, Phone
  <2> QED BY <1>1, <1>4, <2>4, <2>6, PhoneOnly
<1> QED BY <1>1, <1>4, LeaveKeeps

LEMMA InfoFetchedKeeps ==
    ASSUME MobileInv, NEW p \in Phones, P!InfoFetched(p)
    PROVE  MobileInv'
<1> DEFINE x == phone[p]
           r == [x EXCEPT !.pc = "unwrap", !.blob = account.rk]
<1>1. /\ x.pc = "info" /\ phone' = [phone EXCEPT ![p] = r]
      /\ UNCHANGED <<account, held, drawn, known, file, vault, sync, pending>>
  BY DEF P!InfoFetched, P!In, P!Go, P!server, P!device, P!past
<1>2. PhoneFits(x, account, held, drawn) /\ IsPhone(x)
  BY OfPhone
<1> HIDE DEF x
<1>3. Phone(r, "unwrap", x.pw, x.salt, x.kit, x.told, account.rk, x.new, x.token)
  BY <1>2, PhoneBlob
<1> HIDE DEF r
<1>4. account # None /\ x.kit = x.salt /\ x.salt \in Salts(held)
  BY <1>1, <1>2 DEF PhoneFits, RecoveryFits
<1>5. /\ account \in P!AccountRow /\ account.mp.salt = account.rk.kit
      /\ ~account.rotated => account.rk.svk = account.key
  BY <1>4 DEF MobileInv, RowFits
<1>6. account.rk.svk \in Nat /\ account.rk.ad \in {"id", "nil"}
  BY <1>5 DEF P!AccountRow
<1>7. ~Draws(r) /\ WriterFits(r, held, drawn) /\ LoginFits(r, account)
  BY <1>3 DEF WriterFits, Phone, Draws, LoginFits, LogsIn
<1>8. RecoveryFits(r, account, held)
  BY <1>3, <1>4, <1>5, <1>6 DEF RecoveryFits, Phone, Recovers, P!Unwraps
<1>9. PhoneFits(r, account, held, drawn)
  BY <1>1, <1>2, <1>3, <1>7, <1>8 DEF PhoneFits, Phone
<1> QED BY <1>1, <1>7, <1>9, PhoneOnly

-----------------------------------------------------------------------------
(* Draws and the server                                                    *)

(* More is drawn, and the account keeps its salt, and its key or not.      *)
LEMMA FitsLater ==
    ASSUME NEW r, NEW a, NEW a2, NEW hld, NEW drn \in Nat, NEW drn2 \in {drn, drn + 1},
           PhoneFits(r, a, hld, drn),
           a # None => /\ a2 # None /\ a2.mp.salt = a.mp.salt
                       /\ ~a2.rotated => ~a.rotated /\ a2.key = a.key
    PROVE  PhoneFits(r, a2, hld, drn2)
<1>1. 1 .. drn \subseteq 1 .. drn2
  OBVIOUS
<1>2. WriterFits(r, hld, drn2)
  BY <1>1 DEF PhoneFits, WriterFits
<1>3. LoginFits(r, a2)
  BY DEF PhoneFits, LoginFits, LogsIn
<1>4. RecoveryFits(r, a2, hld)
  BY DEF PhoneFits, RecoveryFits
<1> QED BY <1>2, <1>3, <1>4 DEF PhoneFits

(* A phone has drawn, and nothing else has happened.                       *)
LEMMA DrawKeeps ==
    ASSUME MobileInv, NEW p \in Phones, NEW r, phone' = [phone EXCEPT ![p] = r], drawn' = drawn + 1,
           UNCHANGED <<account, held, known, file, vault, sync, pending>>,
           IsPhone(r), r.pw \in Passwords, r.pc = "register_start", r.new = drawn + 1,
           RecoveryFits(r, account, held)
    PROVE  MobileInv'
<1>1. PhonesFit(phone, account, held, drawn) /\ NumbersFit(known, held, drawn)
  BY DEF MobileInv
<1>2. /\ drawn \in Nat /\ drawn + 1 \in Nat /\ 0 .. drawn \subseteq 0 .. drawn + 1
      /\ drawn + 1 \in 1 .. drawn + 1 /\ drawn + 1 \notin 0 .. drawn /\ drawn + 1 \notin 1 .. drawn
  BY <1>1 DEF NumbersFit
<1>3. PhoneFits(r, account, held, drawn + 1)
  <2>1. WriterFits(r, held, drawn + 1)
    BY <1>1, <1>2 DEF WriterFits, NumbersFit
  <2>2. LoginFits(r, account)
    BY DEF LoginFits, LogsIn
  <2> QED BY <2>1, <2>2 DEF PhoneFits
<1>4. \A q \in Phones \ {p} : PhoneFits(phone[q], account, held, drawn + 1)
  <2> TAKE q \in Phones \ {p}
  <2>1. PhoneFits(phone[q], account, held, drawn)
    BY <1>1 DEF PhonesFit
  <2> QED BY <1>2, <2>1, FitsLater
<1>5. \A q \in Phones \ {p} : Draws(phone[q]) => phone[q].new # r.new
  <2> TAKE q \in Phones \ {p}
  <2>1. Draws(phone[q]) => phone[q].new \in 1 .. drawn
    BY <1>1 DEF PhonesFit, PhoneFits, WriterFits
  <2> QED BY <1>2, <2>1
<1>6. PhonesFit([phone EXCEPT ![p] = r], account, held, drawn + 1)
  BY <1>1, <1>3, <1>4, <1>5, OnePhone
<1>7. NumbersFit(known, held, drawn + 1)
  BY <1>1, <1>2 DEF NumbersFit
<1>8. RowFits(account, held)' /\ StoredFit(file, vault, sync, pending, account, held)'
  BY DEF MobileInv, RowFits, StoredFit
<1> QED BY <1>6, <1>7, <1>8 DEF MobileInv

LEMMA RegisterKeeps ==
    ASSUME MobileInv, NEW p \in Phones, NEW pw \in Passwords, P!Register(p, pw)
    PROVE  MobileInv'
<1> DEFINE r == [P!Free EXCEPT !.pc = "register_start", !.pw = pw, !.new = drawn']
<1>1. /\ phone' = [phone EXCEPT ![p] = r] /\ drawn' = drawn + 1
      /\ UNCHANGED <<account, held, known, file, vault, sync, pending>>
  BY DEF P!Register, P!Roll, P!Enter, P!server, P!device, P!past
<1>2. Phone(r, "register_start", pw, None, None, None, None, drawn', FALSE)
  BY PhoneRegisters
<1> HIDE DEF r
<1>3. RecoveryFits(r, account, held)
  BY <1>2 DEF RecoveryFits, Phone, Recovers
<1>4. IsPhone(r) /\ r.pw \in Passwords /\ r.pc = "register_start" /\ r.new = drawn + 1
  BY <1>1, <1>2 DEF Phone
<1> QED BY <1>1, <1>3, <1>4, DrawKeeps

LEMMA RecoverSvkKeeps ==
    ASSUME MobileInv, NEW p \in Phones, P!RecoverSvk(p)
    PROVE  MobileInv'
<1> DEFINE x == phone[p]
           r == [x EXCEPT !.pc = "register_start", !.new = drawn']
<1>1. /\ x.pc = "unwrap"
      /\ \/ phone' = [phone EXCEPT ![p] = r] /\ drawn' = drawn + 1
         \/ phone' = [phone EXCEPT ![p] = P!Free] /\ UNCHANGED drawn
      /\ UNCHANGED <<account, held, known, file, vault, sync, pending>>
  BY DEF P!RecoverSvk, P!In, P!Roll, P!Go, P!Leave, P!server, P!device, P!past
<1>2. PhoneFits(x, account, held, drawn) /\ IsPhone(x)
  BY OfPhone
<1> HIDE DEF x
<1>3. Phone(r, "register_start", x.pw, x.salt, x.kit, x.told, x.blob, drawn', x.token)
  BY <1>2, PhoneNew
<1> HIDE DEF r
<1>4. RecoveryFits(r, account, held)
  BY <1>1, <1>2, <1>3 DEF PhoneFits, RecoveryFits, Phone, Recovers
<1>5. CASE phone' = [phone EXCEPT ![p] = r] /\ drawn' = drawn + 1
  <2>1. IsPhone(r) /\ r.pw \in Passwords /\ r.pc = "register_start" /\ r.new = drawn + 1
    BY <1>1, <1>2, <1>3, <1>5 DEF Phone, PhoneFits
  <2> QED BY <1>1, <1>4, <1>5, <2>1, DrawKeeps
<1> QED BY <1>1, <1>5, LeaveKeeps

(* The server has accepted salt s.                                         *)
LEMMA SaltsGrow ==
    ASSUME NEW hld, NEW s, NEW w
    PROVE  Salts(hld \cup {[salt |-> s, pw |-> w]}) = Salts(hld) \cup {s}
<1> DEFINE e == [salt |-> s, pw |-> w]
<1>1. e.salt = s
  OBVIOUS
<1> HIDE DEF e
<1>2. \A k : k \in Salts(hld \cup {e}) <=> k \in Salts(hld) \/ k = e.salt
  BY DEF Salts
<1>3. Salts(hld \cup {e}) = Salts(hld) \cup {s}
  BY <1>1, <1>2
<1> QED BY <1>3 DEF e

(* A row that bears what it was made with is in order.                     *)
LEMMA NewRowFits ==
    ASSUME NEW a \in P!AccountRow, NEW hld, NEW n, a.mp.salt = n, a.rk.kit = n, a.rkpk \in {None, n},
           n \in Salts(hld), ~a.rotated => a.mp.svk = a.key /\ a.rk.svk = a.key
    PROVE  RowFits(a, hld) /\ a # None
  BY PhoneAssumption DEF RowFits

LEMMA RegisterFinishedKeeps ==
    ASSUME MobileInv, NEW p \in Phones, P!RegisterFinished(p)
    PROVE  MobileInv'
<1> DEFINE x == phone[p]
           n == x.new
           a == P!RegisteredRow(x.pw, n)
           hld == held \cup {[salt |-> n, pw |-> x.pw]}
           r == [x EXCEPT !.pc = "save"]
<1>1. /\ x.pc = "register_finish"
      /\ \/ /\ account = None /\ account' = a /\ held' = held \cup {P!Credentials(account')}
            /\ phone' = [phone EXCEPT ![p] = r] \/ phone' = [phone EXCEPT ![p] = P!Free]
         \/ phone' = [phone EXCEPT ![p] = P!Free] /\ UNCHANGED <<account, held>>
      /\ UNCHANGED <<drawn, known, file, vault, sync, pending>>
  BY DEF P!RegisterFinished, P!In, P!Go, P!Reply, P!Refused, P!Leave, P!device
<1>2. CASE UNCHANGED <<account, held>> /\ phone' = [phone EXCEPT ![p] = P!Free]
  BY <1>1, <1>2, LeaveKeeps
<1>3. ASSUME account = None, account' = a, held' = held \cup {P!Credentials(account')},
             NEW y \in {r, P!Free}, phone' = [phone EXCEPT ![p] = y]
      PROVE  MobileInv'
  <2>1. PhoneFits(x, account, held, drawn) /\ IsPhone(x)
    BY OfPhone
  <2>2. PhonesFit(phone, account, held, drawn) /\ NumbersFit(known, held, drawn)
        /\ StoredFit(file, vault, sync, pending, account, held)
    BY DEF MobileInv
  <2> HIDE DEF x
  <2>3. Draws(x) /\ x.pw \in Passwords /\ n \in 1 .. drawn /\ n \notin Salts(held)
    BY <1>1, <2>1 DEF PhoneFits, WriterFits, Draws
  <2>4. n \in Nat /\ n \in 0 .. drawn
    BY <2>2, <2>3 DEF NumbersFit
  <2>5. Phone(r, "save", x.pw, x.salt, x.kit, x.told, x.blob, n, x.token)
    BY <2>1, PhoneAt
  <2> HIDE DEF r, n
  <2>6. /\ a \in P!AccountRow /\ a.mp.salt = n /\ a.rk.kit = n /\ a.pw = x.pw /\ a.rkpk = None
        /\ a.mp.svk = n /\ a.rk.svk = n /\ a.key = n
    BY <2>3, <2>4 DEF P!RegisteredRow, P!AccountRow
  <2> HIDE DEF a
  <2>7. held' = hld /\ Salts(hld) = Salts(held) \cup {n}
    BY <1>3, <2>6, SaltsGrow DEF P!Credentials
  <2>8. held \subseteq hld /\ [salt |-> n, pw |-> x.pw] \in hld
    OBVIOUS
  <2> HIDE DEF hld
  <2>9. RowFits(a, hld) /\ a # None
    BY <2>6, <2>7, NewRowFits
  <2>10. PhoneFits(y, a, hld, drawn) /\ ~Draws(y)
    <3>1. PhoneFits(r, a, hld, drawn) /\ ~Draws(r)
      <4>1. ~Draws(r) /\ WriterFits(r, hld, drawn)
        BY <2>4, <2>5, <2>8 DEF WriterFits, Phone, Draws
      <4>2. LoginFits(r, a) /\ RecoveryFits(r, a, hld)
        BY <2>5 DEF LoginFits, RecoveryFits, Phone, LogsIn, Recovers
      <4> QED BY <2>3, <2>5, <4>1, <4>2 DEF PhoneFits, Phone
    <3> QED BY <1>3, <3>1, FreeFits
  <2>11. ASSUME NEW q \in Phones \ {p}
         PROVE  PhoneFits(phone[q], a, hld, drawn)
    <3> DEFINE z == phone[q]
    <3>1. PhoneFits(z, account, held, drawn) /\ (Draws(z) => z.new # n)
      BY <2>2, <2>3 DEF PhonesFit, x, n
    <3> HIDE DEF z
    <3>2. WriterFits(z, hld, drawn)
      BY <2>7, <2>8, <3>1 DEF PhoneFits, WriterFits
    <3>3. LoginFits(z, a)
      BY <1>3, <3>1 DEF PhoneFits, LoginFits, LogsIn
    <3>4. RecoveryFits(z, a, hld)
      BY <1>3, <3>1 DEF PhoneFits, RecoveryFits
    <3>5. PhoneFits(z, a, hld, drawn)
      BY <3>1, <3>2, <3>3, <3>4 DEF PhoneFits
    <3> QED BY <3>5 DEF z
  <2>12. PhonesFit([phone EXCEPT ![p] = y], a, hld, drawn)
    BY <2>2, <2>10, <2>11, OnePhone
  <2>13. StoredFit(file, vault, sync, pending, a, hld)
    <3> SUFFICES ASSUME NEW q \in Phones
                 PROVE  FileFits(file[q], hld) /\ VaultFits(vault[q], q \in sync, a) /\ PendingFits(pending[q], a)
      BY <2>2 DEF StoredFit
    <3>1. /\ FileFits(file[q], held) /\ VaultFits(vault[q], q \in sync, account)
          /\ PendingFits(pending[q], account)
      BY <2>2 DEF StoredFit
    <3>2. FileFits(file[q], hld)
      BY <2>8, <3>1 DEF FileFits
    <3> QED BY <1>3, <2>9, <3>1, <3>2 DEF VaultFits, PendingFits
  <2>14. NumbersFit(known, hld, drawn)
    BY <2>2, <2>4, <2>7 DEF NumbersFit
  <2> QED BY <1>1, <1>3, <2>7, <2>9, <2>12, <2>13, <2>14 DEF MobileInv
<1> QED BY <1>1, <1>2, <1>3

(* The row of a recovery.                                                  *)
LEMMA RecoveredIs ==
    ASSUME account \in P!AccountRow, NEW c, c.pw \in Passwords, c.new \in Nat, c.blob.svk \in Nat,
           NEW a, a = P!RecoveredRow(c)
    PROVE  /\ a \in P!AccountRow /\ a.mp.salt = c.new /\ a.rk.kit = c.new /\ a.pw = c.pw
           /\ a.rkpk = c.new /\ a.mp.svk = c.blob.svk /\ a.rk.svk = c.blob.svk
           /\ a.key = account.key /\ a.rotated = account.rotated
  BY DEF P!RecoveredRow, P!AccountRow

(* Signed out, a phone fits an account that was recovered.                 *)
LEMMA OthersRecovered ==
    ASSUME NEW z, NEW y, NEW a, NEW a2, NEW hld, NEW hld2, NEW drn, NEW n, PhoneFits(z, a, hld, drn),
           Phone(y, z.pc, z.pw, z.salt, z.kit, z.told, z.blob, z.new, FALSE),
           Draws(z) => z.new # n, hld \subseteq hld2, Salts(hld2) = Salts(hld) \cup {n}, n \notin Salts(hld),
           a2 # None, a2.mp.salt = n, a2.key = a.key, a2.rotated = a.rotated
    PROVE  PhoneFits(y, a2, hld2, drn) /\ (Draws(y) <=> Draws(z)) /\ y.new = z.new
<1>1. WriterFits(y, hld2, drn)
  BY DEF PhoneFits, WriterFits, Phone, Draws
<1>2. LoginFits(y, a2)
  BY DEF PhoneFits, LoginFits, LogsIn, Phone
<1>3. RecoveryFits(y, a2, hld2)
  <2>1. z.pc = "unwrap" => z.salt # n
    BY DEF PhoneFits, RecoveryFits
  <2> QED BY <2>1 DEF PhoneFits, RecoveryFits, Recovers, Phone
<1>4. y.pc # "free" => y.pw \in Passwords
  BY DEF PhoneFits, Phone
<1> QED BY <1>1, <1>2, <1>3, <1>4 DEF PhoneFits, Phone, Draws

LEMMA RecoverCompletedKeeps ==
    ASSUME MobileInv, NEW p \in Phones, P!RecoverCompleted(p)
    PROVE  MobileInv'
<1> DEFINE x == phone[p]
           n == x.new
           a == P!RecoveredRow(x)
           hld == held \cup {[salt |-> n, pw |-> x.pw]}
           out == [q \in Phones |-> [phone[q] EXCEPT !.token = FALSE]]
           r == [out[p] EXCEPT !.pc = "save"]
<1>1. /\ x.pc = "complete"
      /\ \/ /\ account' = a /\ held' = held \cup {P!Credentials(account')} /\ sync' = {}
            /\ phone' = [out EXCEPT ![p] = r] \/ phone' = [out EXCEPT ![p] = P!Free]
         \/ phone' = [phone EXCEPT ![p] = P!Free] /\ UNCHANGED <<account, held, sync>>
      /\ UNCHANGED <<drawn, known, file, vault, pending>>
  BY DEF P!RecoverCompleted, P!In, P!Go, P!Refused, P!Leave
<1>2. CASE UNCHANGED <<account, held, sync>> /\ phone' = [phone EXCEPT ![p] = P!Free]
  BY <1>1, <1>2, LeaveKeeps
<1>3. ASSUME account' = a, held' = held \cup {P!Credentials(account')}, sync' = {},
             NEW y \in {r, P!Free}, phone' = [out EXCEPT ![p] = y]
      PROVE  MobileInv'
  <2>1. PhoneFits(x, account, held, drawn) /\ IsPhone(x)
    BY OfPhone
  <2>2. PhonesFit(phone, account, held, drawn) /\ NumbersFit(known, held, drawn)
        /\ StoredFit(file, vault, sync, pending, account, held) /\ RowFits(account, held)
    BY DEF MobileInv
  <2>3. /\ Draws(x) /\ Recovers(x) /\ x.pw \in Passwords /\ n \in 1 .. drawn /\ n \notin Salts(held)
        /\ account # None /\ x.blob.svk \in Nat /\ (~account.rotated => x.blob.svk = account.key)
    BY <1>1, <2>1 DEF PhoneFits, WriterFits, RecoveryFits, Draws, Recovers
  <2>4. n \in Nat /\ n \in 0 .. drawn /\ account \in P!AccountRow
    BY <2>2, <2>3 DEF NumbersFit, RowFits
  <2>5. /\ a \in P!AccountRow /\ a.mp.salt = n /\ a.rk.kit = n /\ a.pw = x.pw /\ a.rkpk = n
        /\ a.mp.svk = x.blob.svk /\ a.rk.svk = x.blob.svk
        /\ a.key = account.key /\ a.rotated = account.rotated
    <3> HIDE DEF x
    <3> QED BY <2>3, <2>4, RecoveredIs
  <2>6. out[p] = [x EXCEPT !.token = FALSE]
    OBVIOUS
  <2>7. Phone(r, "save", x.pw, x.salt, x.kit, x.told, x.blob, n, FALSE)
    <3> HIDE DEF x, out
    <3>1. Phone(out[p], x.pc, x.pw, x.salt, x.kit, x.told, x.blob, x.new, FALSE)
      BY <2>1, <2>6, PhoneToken
    <3>2. IsPhone(out[p])
      BY <3>1 DEF Phone
    <3>3. Phone(r, "save", out[p].pw, out[p].salt, out[p].kit, out[p].told, out[p].blob, out[p].new, out[p].token)
      BY <3>2, PhoneAt
    <3> HIDE DEF r
    <3> QED BY <3>1, <3>3 DEF Phone
  <2>8. /\ phone' = [q \in Phones |-> phone'[q]] /\ phone'[p] = y
        /\ \A q \in Phones \ {p} : phone'[q] = [phone[q] EXCEPT !.token = FALSE]
    <3> HIDE DEF r
    <3> QED BY <1>3
  <2> HIDE DEF a, r
  <2>9. held' = hld /\ Salts(hld) = Salts(held) \cup {n}
    BY <1>3, <2>5, SaltsGrow DEF P!Credentials
  <2>10. held \subseteq hld /\ [salt |-> n, pw |-> x.pw] \in hld
    OBVIOUS
  <2> HIDE DEF hld, out
  <2>11. RowFits(a, hld) /\ a # None
    BY <2>3, <2>5, <2>9, NewRowFits
  <2>12. PhoneFits(y, a, hld, drawn) /\ ~Draws(y)
    <3> HIDE DEF x, n
    <3>1. ~Draws(r) /\ WriterFits(r, hld, drawn)
      BY <2>4, <2>7, <2>10 DEF WriterFits, Phone, Draws
    <3>2. LoginFits(r, a) /\ RecoveryFits(r, a, hld)
      BY <2>7 DEF LoginFits, RecoveryFits, Phone, LogsIn, Recovers
    <3>3. PhoneFits(r, a, hld, drawn)
      BY <2>3, <2>7, <3>1, <3>2 DEF PhoneFits, Phone
    <3> QED BY <1>3, <3>1, <3>3, FreeFits
  <2>13. ASSUME NEW q \in Phones \ {p}
         PROVE  /\ PhoneFits(phone'[q], a, hld, drawn) /\ (Draws(phone'[q]) <=> Draws(phone[q]))
                /\ phone'[q].new = phone[q].new
    <3> DEFINE z == phone[q]
               u == phone'[q]
    <3>1. PhoneFits(z, account, held, drawn) /\ (Draws(z) => z.new # n) /\ IsPhone(z)
      BY <2>2, <2>3 DEF PhonesFit, PhoneFits
    <3>2. u = [z EXCEPT !.token = FALSE]
      BY <2>8
    <3> HIDE DEF z, u, x, n
    <3>3. Phone(u, z.pc, z.pw, z.salt, z.kit, z.told, z.blob, z.new, FALSE)
      BY <3>1, <3>2, PhoneToken
    <3>4. PhoneFits(u, a, hld, drawn) /\ (Draws(u) <=> Draws(z)) /\ u.new = z.new
      BY <2>3, <2>5, <2>9, <2>10, <2>11, <3>1, <3>3, OthersRecovered
    <3> QED BY <3>4 DEF z, u
  <2>14. PhonesFit(phone', a, hld, drawn)
    <3>1. \A q \in Phones : PhoneFits(phone'[q], a, hld, drawn)
      <4> TAKE q \in Phones
      <4> QED BY <2>8, <2>12, <2>13
    <3>2. \A q, s \in Phones : q # s /\ Draws(phone'[q]) /\ Draws(phone'[s]) => phone'[q].new # phone'[s].new
      <4> SUFFICES ASSUME NEW q \in Phones, NEW s \in Phones, q # s, Draws(phone'[q]), Draws(phone'[s])
                   PROVE  phone'[q].new # phone'[s].new
        OBVIOUS
      <4>1. q # p /\ s # p
        BY <2>8, <2>12
      <4>2. /\ Draws(phone[q]) /\ Draws(phone[s])
            /\ phone'[q].new = phone[q].new /\ phone'[s].new = phone[s].new
        BY <2>13, <4>1
      <4> QED BY <2>2, <4>2 DEF PhonesFit
    <3> QED BY <2>8, <3>1, <3>2 DEF PhonesFit
  <2>15. StoredFit(file, vault, {}, pending, a, hld)
    <3> SUFFICES ASSUME NEW q \in Phones
                 PROVE  FileFits(file[q], hld) /\ VaultFits(vault[q], q \in {}, a) /\ PendingFits(pending[q], a)
      BY <2>2 DEF StoredFit
    <3>1. /\ FileFits(file[q], held) /\ VaultFits(vault[q], q \in sync, account)
          /\ PendingFits(pending[q], account)
      BY <2>2 DEF StoredFit
    <3>2. FileFits(file[q], hld)
      BY <2>10, <3>1 DEF FileFits
    <3>3. VaultFits(vault[q], q \in {}, a)
      BY <3>1 DEF VaultFits
    <3> QED BY <2>11, <3>1, <3>2, <3>3 DEF PendingFits
  <2>16. NumbersFit(known, hld, drawn)
    BY <2>2, <2>4, <2>9 DEF NumbersFit
  <2> QED BY <1>1, <1>3, <2>9, <2>11, <2>14, <2>15, <2>16 DEF MobileInv
<1> QED BY <1>1, <1>2, <1>3

(* The account changes, and keeps its salt, and its key or not.            *)
LEMMA AccountKeeps ==
    ASSUME MobileInv, account # None, NEW a \in P!AccountRow, account' = a, drawn' \in {drawn, drawn + 1},
           UNCHANGED <<held, phone, known, file, sync, pending>>,
           a.mp.salt = account.mp.salt, a.rk = account.rk, a.rkpk = account.rkpk,
           ~a.rotated => ~account.rotated /\ a.key = account.key /\ a.mp = account.mp,
           vault' = [p \in Phones |-> vault'[p]],
           \A p \in Phones : VaultFits(vault'[p], p \in sync, account)
    PROVE  MobileInv'
<1>1. /\ PhonesFit(phone, account, held, drawn) /\ NumbersFit(known, held, drawn)
      /\ StoredFit(file, vault, sync, pending, account, held) /\ RowFits(account, held)
  BY DEF MobileInv
<1>2. RowFits(a, held) /\ a # None
  BY <1>1, PhoneAssumption DEF RowFits
<1>3. drawn \in Nat /\ drawn' \in Nat /\ 0 .. drawn \subseteq 0 .. drawn'
  BY <1>1 DEF NumbersFit
<1>4. PhonesFit(phone, a, held, drawn')
  <2>1. ASSUME NEW p \in Phones
        PROVE  PhoneFits(phone[p], a, held, drawn')
    <3>1. PhoneFits(phone[p], account, held, drawn)
      BY <1>1 DEF PhonesFit
    <3> QED BY <1>2, <1>3, <3>1, FitsLater
  <2> QED BY <1>1, <2>1 DEF PhonesFit
<1>5. StoredFit(file, vault', sync, pending, a, held)
  <2> SUFFICES ASSUME NEW p \in Phones
               PROVE  FileFits(file[p], held) /\ VaultFits(vault'[p], p \in sync, a) /\ PendingFits(pending[p], a)
    BY <1>1 DEF StoredFit
  <2>1. FileFits(file[p], held) /\ PendingFits(pending[p], account)
    BY <1>1 DEF StoredFit
  <2>2. VaultFits(vault'[p], p \in sync, a)
    BY <1>2 DEF VaultFits
  <2> QED BY <1>2, <2>1, <2>2 DEF PendingFits
<1>6. NumbersFit(known, held, drawn')
  BY <1>1, <1>3 DEF NumbersFit
<1> QED BY <1>2, <1>4, <1>5, <1>6 DEF MobileInv

LEMMA EnrolTotpKeeps ==
    ASSUME MobileInv, P!EnrolTotp
    PROVE  MobileInv'
<1> DEFINE a == [account EXCEPT !.totp = TRUE]
<1>1. /\ account # None /\ account' = a
      /\ UNCHANGED <<held, phone, known, file, vault, sync, pending, drawn>>
  BY DEF P!EnrolTotp, P!device, P!past
<1>2. account \in P!AccountRow /\ StoredFit(file, vault, sync, pending, account, held)
  BY <1>1 DEF MobileInv, RowFits
<1>3. /\ a \in P!AccountRow /\ a.mp = account.mp /\ a.rk = account.rk /\ a.rkpk = account.rkpk
      /\ a.rotated = account.rotated /\ a.key = account.key
  BY <1>2 DEF P!AccountRow
<1> HIDE DEF a
<1>4. vault' = [p \in Phones |-> vault'[p]] /\ \A p \in Phones : VaultFits(vault'[p], p \in sync, account)
  BY <1>1, <1>2 DEF StoredFit
<1> QED BY <1>1, <1>3, <1>4, AccountKeeps

LEMMA RotateKeyKeeps ==
    ASSUME MobileInv, NEW p \in Phones, P!RotateKey(p)
    PROVE  MobileInv'
<1> DEFINE v == vault[p]
           k == drawn'
           m == [pw |-> v.pw, salt |-> v.salt, svk |-> k]
           a == [account EXCEPT !.mp = m, !.key = k, !.rotated = TRUE]
           w == [v EXCEPT !.svk = k]
<1>1. /\ v # None /\ v.mk /\ p \in sync /\ drawn' = drawn + 1 /\ account' = a
      /\ vault' = [vault EXCEPT ![p] = w] \/ UNCHANGED vault
      /\ UNCHANGED <<held, phone, known, file, sync, pending>>
  BY DEF P!RotateKey, P!Roll, P!past
<1>2. VaultFits(v, p \in sync, account) /\ StoredFit(file, vault, sync, pending, account, held)
  BY OfPhone DEF MobileInv
<1>3. /\ account # None /\ v.salt = account.mp.salt /\ v.pw \in Passwords /\ v.salt \in Nat
      /\ v \in [svk : {v.svk}, mk : BOOLEAN, pw : {v.pw}, salt : {v.salt}]
  BY <1>1, <1>2 DEF VaultFits
<1>4. account \in P!AccountRow /\ k \in Nat
  BY <1>1, <1>3 DEF MobileInv, RowFits, NumbersFit
<1>5. m \in [pw : Passwords, salt : Nat, svk : Nat] /\ m.salt = v.salt
  BY <1>3, <1>4
<1> HIDE DEF k, m, v
<1>6. /\ a \in P!AccountRow /\ a.mp = m /\ a.rk = account.rk /\ a.rkpk = account.rkpk /\ a.rotated = TRUE
  BY <1>4, <1>5 DEF P!AccountRow
<1>7. /\ w \in [svk : {w.svk}, mk : BOOLEAN, pw : {w.pw}, salt : {w.salt}]
      /\ w.pw = v.pw /\ w.salt = v.salt /\ w.mk = v.mk
  BY <1>3
<1> HIDE DEF a, w
<1>8. VaultFits(w, p \in sync, account)
  BY <1>1, <1>2, <1>3, <1>7 DEF VaultFits
<1>9. vault' = [q \in Phones |-> vault'[q]] /\ \A q \in Phones : VaultFits(vault'[q], q \in sync, account)
  BY <1>1, <1>2, <1>8 DEF StoredFit
<1>10. a.mp.salt = account.mp.salt
  BY <1>3, <1>5, <1>6
<1> QED BY <1>1, <1>3, <1>6, <1>9, <1>10, AccountKeeps

(* The vault of a phone between methods changes, if anything.              *)
LEMMA VaultOnly ==
    ASSUME MobileInv, NEW p \in Phones, NEW v, vault' = [vault EXCEPT ![p] = v],
           UNCHANGED <<account, held, drawn, known, phone, file, sync, pending>>,
           VaultFits(v, p \in sync, account)
    PROVE  MobileInv'
<1>1. /\ PhoneFits(phone[p], account, held, drawn) /\ FileFits(file[p], held)
      /\ PendingFits(pending[p], account) /\ file = [file EXCEPT ![p] = file[p]]
      /\ pending = [pending EXCEPT ![p] = pending[p]]
  BY OfPhone
<1>2. phone = [phone EXCEPT ![p] = phone[p]]
  BY DEF MobileInv, PhonesFit
<1>3. /\ phone' = [phone EXCEPT ![p] = phone[p]] /\ file' = [file EXCEPT ![p] = file[p]]
      /\ pending' = [pending EXCEPT ![p] = pending[p]] /\ sync' = sync
  BY <1>1, <1>2
<1>4. known' \subseteq Nat
  BY DEF MobileInv, NumbersFit
<1> QED BY <1>1, <1>3, <1>4, PhoneStores

LEMMA QuickKeeps ==
    ASSUME MobileInv, NEW p \in Phones,
           P!Lock(p) \/ P!SaveSvk(p) \/ P!UnlockRaw(p) \/ P!EnsureSharingKey(p) \/ P!SetSharingSecret(p)
    PROVE  MobileInv'
<1>1. VaultFits(vault[p], p \in sync, account) /\ vault = [vault EXCEPT ![p] = vault[p]]
  BY OfPhone
<1>2. CASE P!Lock(p)
  <2>1. /\ vault' = [vault EXCEPT ![p] = None]
        /\ UNCHANGED <<account, held, drawn, known, phone, file, sync, pending>>
    BY <1>2 DEF P!Lock, P!Quick, P!server, P!past
  <2>2. VaultFits(None, p \in sync, account)
    BY <1>1 DEF VaultFits
  <2> QED BY <2>1, <2>2, VaultOnly
<1>3. CASE P!UnlockRaw(p)
  <2> DEFINE v == [svk |-> enclave[p], mk |-> FALSE, pw |-> None, salt |-> None]
  <2>1. /\ vault' = [vault EXCEPT ![p] = v]
        /\ UNCHANGED <<account, held, drawn, known, phone, file, sync, pending>>
    BY <1>3 DEF P!UnlockRaw, P!Quick, P!server, P!past
  <2>2. v \in [svk : {v.svk}, mk : BOOLEAN, pw : {v.pw}, salt : {v.salt}] /\ v.mk = FALSE
    OBVIOUS
  <2> HIDE DEF v
  <2>3. VaultFits(v, p \in sync, account)
    BY <1>1, <2>2 DEF VaultFits
  <2> QED BY <2>1, <2>3, VaultOnly
<1>4. CASE P!SaveSvk(p) \/ P!EnsureSharingKey(p) \/ P!SetSharingSecret(p)
  <2>1. UNCHANGED <<account, held, drawn, known, phone, file, vault, sync, pending>>
    BY <1>4 DEF P!SaveSvk, P!EnsureSharingKey, P!SetSharingSecret, P!Quick, P!server, P!past
  <2>2. vault' = [vault EXCEPT ![p] = vault[p]]
    BY <1>1, <2>1
  <2> QED BY <1>1, <2>1, <2>2, VaultOnly
<1> QED BY <1>2, <1>3, <1>4

LEMMA EndsKeep ==
    ASSUME MobileInv, NEW p \in Phones, P!CallFails(p) \/ P!AppEnds(p)
    PROVE  MobileInv'
<1>1. CASE P!CallFails(p)
  <2>1. /\ phone' = [phone EXCEPT ![p] = P!Free]
        /\ UNCHANGED <<account, held, drawn, known, file, vault, sync, pending>>
    BY <1>1 DEF P!CallFails, P!server, P!device, P!past
  <2> QED BY <2>1, LeaveKeeps
<1>2. CASE P!AppEnds(p)
  <2>1. /\ phone' = [phone EXCEPT ![p] = P!Free] /\ vault' = [vault EXCEPT ![p] = None]
        /\ sync' = sync \ {p} /\ pending' = [pending EXCEPT ![p] = None]
        /\ UNCHANGED <<account, held, drawn, known, file>>
    BY <1>2 DEF P!AppEnds, P!server, P!past
  <2>2. FileFits(file[p], held) /\ file = [file EXCEPT ![p] = file[p]]
    BY OfPhone
  <2>3. file' = [file EXCEPT ![p] = file[p]] /\ p \notin sync' /\ known' \subseteq Nat
    BY <2>1, <2>2 DEF MobileInv, NumbersFit
  <2>4. VaultFits(None, p \in sync', account) /\ PendingFits(None, account)
    BY <2>3 DEF VaultFits, PendingFits
  <2>5. \A q \in Phones \ {p} : q \in sync' <=> q \in sync
    BY <2>1
  <2>6. PhoneFits(P!Free, account, held, drawn) /\ ~Draws(P!Free)
    BY FreeFits
  <2> QED BY <2>1, <2>2, <2>3, <2>4, <2>5, <2>6, PhoneStores
<1> QED BY <1>1, <1>2

LEMMA MobileStarts == P!MobileInit => MobileInv
<1> SUFFICES ASSUME P!MobileInit
             PROVE  MobileInv
  OBVIOUS
<1>1. /\ phone = [p \in Phones |-> P!Free] /\ vault = [p \in Phones |-> None] /\ sync = {}
      /\ pending = [p \in Phones |-> None]
  BY DEF P!MobileInit
<1>2. PhonesFit(phone, account, held, drawn)
  BY <1>1, FreeFits DEF PhonesFit
<1>3. /\ vault = [p \in Phones |-> vault[p]] /\ pending = [p \in Phones |-> pending[p]]
      /\ \A p \in Phones : VaultFits(vault[p], p \in sync, account) /\ PendingFits(pending[p], account)
  BY <1>1 DEF VaultFits, PendingFits
<1>4. CASE /\ account = None /\ drawn = 0 /\ known = {} /\ held = {}
           /\ file = [p \in Phones |-> None]
  <2>1. NumbersFit(known, held, drawn) /\ RowFits(account, held)
    BY <1>4 DEF NumbersFit, RowFits, Salts
  <2>2. StoredFit(file, vault, sync, pending, account, held)
    BY <1>3, <1>4 DEF StoredFit, FileFits
  <2> QED BY <1>2, <2>1, <2>2 DEF MobileInv
<1>5. ASSUME NEW pw \in Passwords, account = [P!RegisteredRow(pw, 1) EXCEPT !.rkpk = 1],
             NEW q \in Phones, NEW s \in {None, pw},
             file = [p \in Phones |-> IF p = q THEN P!LocalAccount(s, 1) ELSE None],
             held = {[salt |-> 1, pw |-> pw]}, drawn = 1, known = {1}
      PROVE  MobileInv
  <2> DEFINE e == [salt |-> 1, pw |-> pw]
  <2>1. /\ account \in P!AccountRow /\ account.mp.salt = 1 /\ account.rk.kit = 1 /\ account.rkpk = 1
        /\ account.mp.svk = account.key /\ account.rk.svk = account.key
    BY <1>5 DEF P!RegisteredRow, P!AccountRow
  <2>2. e.salt = 1 /\ e.pw = pw /\ held = {e}
    BY <1>5
  <2> HIDE DEF e
  <2>3. \A k : k \in Salts(held) <=> k = 1
    BY <2>2 DEF Salts
  <2>4. NumbersFit(known, held, drawn)
    BY <1>5, <2>3 DEF NumbersFit
  <2>5. RowFits(account, held)
    BY <2>1, <2>3, NewRowFits
  <2>6. P!LocalAccount(s, 1).salt = 1 /\ P!LocalAccount(s, 1).kit = 1 /\ P!LocalAccount(s, 1).seal = s
    BY DEF P!LocalAccount
  <2>7. \A p \in Phones : FileFits(file[p], held)
    BY <1>5, <2>2, <2>6 DEF FileFits
  <2>8. file = [p \in Phones |-> file[p]]
    BY <1>5
  <2>9. StoredFit(file, vault, sync, pending, account, held)
    BY <1>3, <2>7, <2>8 DEF StoredFit
  <2> QED BY <1>2, <2>4, <2>5, <2>9 DEF MobileInv
<1> QED BY <1>4, <1>5 DEF P!MobileInit

LEMMA MobileSteps == MobileInv /\ [MCNext]_<<side, vars, mobile>> => MobileInv'
<1> SUFFICES ASSUME MobileInv, [MCNext]_<<side, vars, mobile>>
             PROVE  MobileInv'
  OBVIOUS
<1>1. CASE UNCHANGED mobile
  <2>1. UNCHANGED <<account, phone, file, vault, sync, pending, drawn, known, held>>
    BY <1>1 DEF mobile
  <2> QED BY <2>1 DEF MobileInv, NumbersFit, RowFits, PhonesFit, StoredFit
<1>2. ASSUME NEW p \in Phones, P!PhoneStep(p)
      PROVE  MobileInv'
  BY <1>2, RegisterStartedKeeps, RegisterFinishedKeeps, SaveTempKeeps, SaveRenameKeeps,
     LoginStartedKeeps, LoginFinishedKeeps, TotpVerifiedKeeps, StatusFetchedKeeps, UnlockKeeps,
     ChallengedKeeps, VerifiedKeeps, InfoFetchedKeeps, RecoverSvkKeeps, RecoverCompletedKeeps
     DEF P!PhoneStep
<1>3. ASSUME NEW p \in Phones, P!PhoneCall(p)
      PROVE  MobileInv'
  BY <1>3, RegisterKeeps, LoadsKeep, RecoverKeeps, QuickKeeps, RotateKeyKeeps DEF P!PhoneCall
<1>4. CASE P!MobileNext
  BY <1>2, <1>3, <1>4, EnrolTotpKeeps, EndsKeep DEF P!MobileNext
<1> QED BY <1>1, <1>4 DEF MCNext

LEMMA MobileInvariant == MCSpec => []MobileInv
<1>1. MCInit => MobileInv
  BY MobileStarts DEF MCInit
<1> QED BY <1>1, MobileSteps, PTL DEF MCSpec

(* What a phone keeps in its account file is of credentials the server has *)
(* accepted, and the kit a login tells is that of the account, however     *)
(* registrations, logins, recoveries and rotations of several phones       *)
(* interleave, and whichever request, answer or app is lost between two    *)
(* steps (register, login, complete_recovery_kit, atomic_write_private).   *)
THEOREM PhonesMatchServer == MCSpec => []PhoneMatchesServer
<1>1. MobileInv => PhoneMatchesServer
  <2> SUFFICES ASSUME MobileInv
               PROVE  P!FileFromServer /\ P!LoginTellsKit
    BY DEF PhoneMatchesServer, P!PhoneMatchesServer
  <2>1. P!FileFromServer
    BY OfPhone DEF P!FileFromServer, FileFits
  <2>2. P!LoginTellsKit
    <3> SUFFICES ASSUME NEW p \in Phones, phone[p].pc = "unlock", P!Opens(phone[p]), phone[p].told # None
                 PROVE  phone[p].told = phone[p].kit
      BY DEF P!LoginTellsKit, P!In
    <3>1. LoginFits(phone[p], account)
      BY OfPhone DEF PhoneFits
    <3> QED BY <3>1 DEF LoginFits, LogsIn, P!Opens
  <2> QED BY <2>1, <2>2
<1> QED BY <1>1, MobileInvariant, PTL

(* A kit that was verified opens the wrap the recovery has read, unless    *)
(* another recovery was completed since; and until a rotation, kit and     *)
(* password lead to the key of the vault, through any number of            *)
(* recoveries, of phones and of failures (complete_recovery_kit).          *)
THEOREM KitsWork == MCSpec => []KitWorks
<1>1. MobileInv => KitWorks
  <2> SUFFICES ASSUME MobileInv
               PROVE  P!VerifiedKitOpens /\ P!KitKeepsVault
    BY DEF KitWorks, P!KitWorks
  <2>1. P!VerifiedKitOpens
    <3> SUFFICES ASSUME NEW p \in Phones, phone[p].pc = "unwrap", account.mp.salt = phone[p].salt
                 PROVE  P!Unwraps(phone[p].blob, phone[p].kit)
      BY DEF P!VerifiedKitOpens, P!In
    <3>1. RecoveryFits(phone[p], account, held)
      BY OfPhone DEF PhoneFits
    <3> QED BY <3>1 DEF RecoveryFits
  <2>2. P!KitKeepsVault
    BY DEF P!KitKeepsVault, MobileInv, RowFits
  <2> QED BY <2>1, <2>2
<1> QED BY <1>1, MobileInvariant, PTL
=============================================================================
