---------------------------- MODULE MachineAccess ----------------------------
(***************************************************************************)
(* Secrets of projects, and the machine accounts and access tokens that    *)
(* read them: what a request checks, one statement at a time, before it    *)
(* answers or writes, while accounts are changed, tokens revoked, members  *)
(* removed and projects deleted under it.                                  *)
(*                                                                         *)
(* Who has which permission on a project is decided elsewhere (module      *)
(* ProjectAccess) and changes here at any moment. Routes that make one     *)
(* statement are one step.                                                 *)
(***************************************************************************)
EXTENDS Naturals, FiniteSets

CONSTANTS Users, Projects, Accounts, Tokens, Secrets,  \* identifiers
          Owner,        \* the user who owns the projects
          Calls,        \* requests in flight at once
          Values,       \* contents of a key or a value
          MaxRequests,  \* bound: requests in a behaviour
          None          \* absent

Scopes == {"secrets:read", "projects:read"}
Levels == {"View", "Edit"}          \* CanManage passes where CanEdit does
Status == {"active", "disabled"}    \* "revoked" is treated as "disabled"

MachineAssumption ==
    /\ Owner \in Users /\ MaxRequests \in Nat
    /\ None \notin Users \cup Projects \cup Accounts \cup Tokens \cup Secrets

VARIABLES projects,  \* projects
          level,     \* project_access resolved, of users who own nothing
          reveal,    \* secret_reveal_grants
          account,   \* machine_accounts
          token,     \* access_tokens
          secret,    \* secrets
          audit,     \* audit rows of reveals
          call,      \* what each request is doing
          requests,
          spent,     \* account and secret identifiers ever used
          served,    \* history: what requests with a token were answered
          given      \* history: values that were revealed

machine == <<account, token>>
team == <<projects, level, reveal>>
vars == <<team, machine, secret, audit, call, requests, spent, served, given>>

Idle == [pc |-> "idle", by |-> None, id |-> None, target |-> None, row |-> None,
         patch |-> None, late |-> FALSE, seen |-> FALSE]

-----------------------------------------------------------------------------
(* Statements and checks                                                   *)

(* user_project_permission                                                 *)
PermissionOn(p, u) == IF u = Owner THEN "Edit" ELSE level[<<p, u>>]

(* require_project_access                                                  *)
RequireProjectAccess(p, u, edit) ==
    /\ p \in projects
    /\ PermissionOn(p, u) # None
    /\ edit => PermissionOn(p, u) = "Edit"

(* can_reveal                                                              *)
CanReveal(p, u) == p \in projects /\ (u = Owner \/ <<p, u>> \in reveal)

(* validate_scopes of create_machine_account and create_token              *)
ValidScopes(S) == S # {} /\ S \subseteq Scopes

(* the account exists, is active and has not expired                       *)
Live(a) == account[a] # None /\ account[a].status = "active" /\ ~account[a].expired

(* Mutant: expiry alone is looked at.                                      *)
TokenLive_Unrevoked(row) == ~row.expired

(* verify_access_token: revocation and expiry of the row                   *)
TokenLive(row) == ~row.revoked /\ ~row.expired

(* AuthContext::require_scope                                              *)
RequireScope(row, s) == s \in row.scopes

(* AuthContext::require_project                                            *)
RequireProject(row, p) == row.project \in {None, p}

(* create_token: the project of the account, when it has one, is that of   *)
(* the token                                                               *)
BindingOK(bound, asked) == bound \in {None, asked}

(* create_machine_account, in the repository                               *)
InsertAccount(a, u, p, S) ==
    account' = [account EXCEPT ![a] = [owner |-> u, project |-> p, status |-> "active",
                                       scopes |-> S, expired |-> FALSE]]

(* update_machine_account, in the repository: no row, no change            *)
UpdateAccount(a, status, S, renewed) ==
    account' = IF account[a] = None THEN account
               ELSE [account EXCEPT ![a] = [account[a] EXCEPT
                       !.status = status, !.scopes = S,
                       !.expired = account[a].expired /\ ~renewed]]

(* delete_machine_account: tokens lose the reference by the foreign key    *)
DeleteAccount(a) ==
    /\ account' = [account EXCEPT ![a] = None]
    /\ token' = [t \in Tokens |->
                   IF token[t] # None /\ token[t].account = a
                     THEN [token[t] EXCEPT !.account = None] ELSE token[t]]

(* create_access_token                                                     *)
InsertToken(t, u, a, p, S, prefixed) ==
    token' = [token EXCEPT ![t] = [owner |-> u, account |-> a, project |-> p,
                                   scopes |-> S, prefixed |-> prefixed,
                                   revoked |-> FALSE, expired |-> FALSE, bornFor |-> a]]

(* revoke_access_token                                                     *)
RevokeRow(t, u) ==
    /\ token[t] # None /\ token[t].owner = u
    /\ token' = [token EXCEPT ![t].revoked = TRUE]

(* create_secret, in the repository                                        *)
InsertSecret(s, p, v) ==
    secret' = [secret EXCEPT ![s] = [project |-> p, key |-> v, value |-> v, version |-> 1]]

(* update_secret, in the repository: the database counts the version       *)
UpdateRow(s, row, k, v) ==
    secret' = IF secret[s] = None THEN secret
              ELSE [secret EXCEPT ![s] = [@ EXCEPT !.key = k, !.value = v,
                                                   !.version = @ + 1]]

(* delete_secret, in the repository                                        *)
DeleteRow(s) == secret' = [secret EXCEPT ![s] = None]

(* audit_log                                                               *)
AuditLog(u, s) == audit' = audit \cup {<<u, s>>}

-----------------------------------------------------------------------------
Init ==
    /\ projects = Projects
    /\ level = [q \in Projects \X Users |-> None]
    /\ reveal \in SUBSET (Projects \X (Users \ {Owner}))
    /\ account = [a \in Accounts |-> None]
    /\ token = [t \in Tokens |-> None]
    /\ secret = [s \in Secrets |-> None]
    /\ audit = {}
    /\ call = [c \in Calls |-> Idle]
    /\ requests = 0 /\ spent = {}
    /\ served = {} /\ given = {}

At(c, pc) == call[c].pc = pc
Goto(c, pc) == call' = [call EXCEPT ![c].pc = pc]
Return(c) == call' = [call EXCEPT ![c] = Idle]
More == requests < MaxRequests /\ requests' = requests + 1
Begin(c, r) == More /\ At(c, "idle") /\ call' = [call EXCEPT ![c] = r]

-----------------------------------------------------------------------------
(* Machine accounts, by their owner's session                              *)

CreateMachineAccount(u, a, p, S) ==
    /\ More
    /\ a \notin spent /\ spent' = spent \cup {a}
    /\ ValidScopes(S)
    /\ InsertAccount(a, u, p, S)
    /\ UNCHANGED <<team, token, secret, audit, call, served, given>>

(* update_machine_account reads the row and merges the request into it; a  *)
(* row that has expired needs a new date                                   *)
ReadAccount(c, u, a, status, S, renewed) ==
    /\ account[a] # None /\ account[a].owner = u
    /\ account[a].expired => renewed
    /\ S # None => ValidScopes(S)
    /\ Begin(c, [Idle EXCEPT
         !.pc = "patch", !.by = u, !.id = a,
         !.patch = [status |-> IF status = None THEN account[a].status ELSE status,
                    scopes |-> IF S = None THEN account[a].scopes ELSE S,
                    renewed |-> renewed]])
    /\ UNCHANGED <<team, machine, secret, audit, spent, served, given>>

PatchAccount(c) ==
    /\ At(c, "patch")
    /\ LET p == call[c].patch
       IN UpdateAccount(call[c].id, p.status, p.scopes, p.renewed)
    /\ Return(c)
    /\ UNCHANGED <<team, token, secret, audit, requests, spent, served, given>>

DeleteMachineAccount(u, a) ==
    /\ More
    /\ account[a] # None /\ account[a].owner = u
    /\ DeleteAccount(a)
    /\ UNCHANGED <<team, secret, audit, call, spent, served, given>>

-----------------------------------------------------------------------------
(* Access tokens                                                           *)

(* create_token: for an account the caller owns, live and with the scopes, *)
(* or for none                                                             *)
CreateToken(c, u, t, a, p, S) ==
    /\ token[t] = None /\ \A d \in Calls : call[d].target # t
    /\ ValidScopes(S)
    /\ a # None => /\ account[a] # None /\ account[a].owner = u
                   /\ Live(a) /\ S \subseteq account[a].scopes
    /\ Begin(c, [Idle EXCEPT !.pc = IF a = None THEN "mint" ELSE "bind", !.by = u,
                             !.id = a, !.target = t,
                             !.row = [project |-> p, scopes |-> S]])
    /\ UNCHANGED <<team, machine, secret, audit, spent, served, given>>

(* the account is read again for its project; gone, nothing is compared    *)
CheckBinding(c) ==
    /\ At(c, "bind")
    /\ LET a == call[c].id
       IN IF account[a] = None \/ BindingOK(account[a].project, call[c].row.project)
            THEN Goto(c, "mint") ELSE Return(c)
    /\ UNCHANGED <<team, machine, secret, audit, requests, spent, served, given>>

(* generate_token draws 32 random bytes: whether their encoding begins     *)
(* with the prefix that auth_any looks for is up to chance. The foreign    *)
(* key refuses a row of an account that is gone.                           *)
MintToken(c) ==
    /\ At(c, "mint")
    /\ LET a == call[c].id
       IN IF a # None /\ account[a] = None THEN UNCHANGED token
          ELSE \E prefixed \in BOOLEAN :
                 InsertToken(call[c].target, call[c].by, a, call[c].row.project,
                             call[c].row.scopes, prefixed)
    /\ Return(c)
    /\ UNCHANGED <<team, account, secret, audit, requests, spent, served, given>>

RevokeToken(u, t) ==
    /\ More
    /\ RevokeRow(t, u)
    /\ UNCHANGED <<team, account, secret, audit, call, spent, served, given>>

(* auth_any: a bearer without the prefix is looked up as a session, and is *)
(* none; otherwise verify_access_token reads the row                       *)
Present(c, t, p) ==
    /\ token[t] # None
    /\ token[t].prefixed
    /\ Begin(c, [Idle EXCEPT !.pc = "verify", !.id = t, !.target = p, !.row = token[t],
                             !.late = token[t].revoked])
    /\ UNCHANGED <<team, machine, secret, audit, spent, served, given>>

(* the row is live, and so is the account it names                         *)
VerifyToken(c) ==
    /\ At(c, "verify")
    /\ LET row == call[c].row
       IN IF /\ TokenLive(row)
             /\ row.account # None => /\ Live(row.account)
                                      /\ account[row.account].owner = row.owner
            THEN Goto(c, "scope") ELSE Return(c)
    /\ UNCHANGED <<team, machine, secret, audit, requests, spent, served, given>>

(* list_secrets: scope and binding, then the permission of the owner       *)
ListSecrets(c) ==
    /\ At(c, "scope")
    /\ LET row == call[c].row p == call[c].target
       IN IF /\ RequireScope(row, "secrets:read") /\ RequireProject(row, p)
             /\ RequireProjectAccess(p, row.owner, FALSE)
            THEN served' = served \cup {[token |-> call[c].id, project |-> p,
                                         late |-> call[c].late]}
            ELSE UNCHANGED served
    /\ Return(c)
    /\ UNCHANGED <<team, machine, secret, audit, requests, spent, given>>

-----------------------------------------------------------------------------
(* Secrets, by a session                                                   *)

CreateSecret(c, u, s, p, v) ==
    /\ s \notin spent /\ spent' = spent \cup {s}
    /\ RequireProjectAccess(p, u, TRUE)
    /\ Begin(c, [Idle EXCEPT !.pc = "insert", !.by = u, !.id = p, !.target = s, !.row = v])
    /\ UNCHANGED <<team, machine, secret, audit, served, given>>

(* the foreign key refuses a secret of a project that is gone              *)
WriteSecret(c) ==
    /\ At(c, "insert")
    /\ IF call[c].id \in projects
         THEN InsertSecret(call[c].target, call[c].id, call[c].row)
         ELSE UNCHANGED secret
    /\ Return(c)
    /\ UNCHANGED <<team, machine, audit, requests, spent, served, given>>

(* load_secret_for_user: the row, then the permission                      *)
LoadSecret(c, u, s, op, patch) ==
    /\ secret[s] # None
    /\ Begin(c, [Idle EXCEPT !.pc = op, !.by = u, !.id = s, !.row = secret[s],
                             !.patch = patch])
    /\ UNCHANGED <<team, machine, secret, audit, spent, served, given>>

CheckSecret(c, op, next, edit) ==
    /\ At(c, op)
    /\ IF RequireProjectAccess(call[c].row.project, call[c].by, edit)
         THEN call' = [call EXCEPT ![c].pc = next, ![c].seen = TRUE] ELSE Return(c)
    /\ UNCHANGED <<team, machine, secret, audit, requests, spent, served, given>>

(* update_secret writes the fields of the request over those of the row it *)
(* read                                                                    *)
UpdateSecret(c) ==
    /\ At(c, "write")
    /\ LET s == call[c].id row == call[c].row
           patch == call[c].patch
       IN UpdateRow(s, row, IF patch.key = None THEN row.key ELSE patch.key,
                            IF patch.value = None THEN row.value ELSE patch.value)
    /\ Return(c)
    /\ UNCHANGED <<team, machine, audit, requests, spent, served, given>>

DeleteSecret(c) ==
    /\ At(c, "delete")
    /\ DeleteRow(call[c].id)
    /\ Return(c)
    /\ UNCHANGED <<team, machine, audit, requests, spent, served, given>>

(* get_secret_value: the reveal right, the audit row, then the value of    *)
(* the row that was read                                                   *)
CheckReveal(c) ==
    /\ At(c, "reveal")
    /\ IF CanReveal(call[c].row.project, call[c].by) THEN Goto(c, "audit") ELSE Return(c)
    /\ UNCHANGED <<team, machine, secret, audit, requests, spent, served, given>>

AuditReveal(c) ==
    /\ At(c, "audit")
    /\ AuditLog(call[c].by, call[c].id)
    /\ Goto(c, "answer")
    /\ UNCHANGED <<team, machine, secret, requests, spent, served, given>>

Reveal(c) ==
    /\ At(c, "answer")
    /\ given' = given \cup {[user |-> call[c].by, secret |-> call[c].id,
                             project |-> call[c].row.project, seen |-> call[c].seen]}
    /\ Return(c)
    /\ UNCHANGED <<team, machine, secret, audit, requests, spent, served>>

-----------------------------------------------------------------------------
(* A member's permission changes                                           *)
SetLevel(p, u, x) ==
    /\ More
    /\ p \in projects /\ u # Owner /\ level[<<p, u>>] # x
    /\ level' = [level EXCEPT ![<<p, u>>] = x]
    /\ UNCHANGED <<projects, reveal, machine, secret, audit, call, spent, served, given>>

(* A project is deleted: its secrets, grants and reveal grants cascade     *)
DropProject(p) ==
    /\ More
    /\ p \in projects
    /\ projects' = projects \ {p}
    /\ level' = [q \in Projects \X Users |-> IF q[1] = p THEN None ELSE level[q]]
    /\ reveal' = {q \in reveal : q[1] # p}
    /\ secret' = [s \in Secrets |-> IF secret[s] # None /\ secret[s].project = p
                                      THEN None ELSE secret[s]]
    /\ UNCHANGED <<machine, audit, call, spent, served, given>>

(* expires_at of a token or an account passes                              *)
ExpireToken(t) ==
    /\ token[t] # None /\ ~token[t].expired
    /\ token' = [token EXCEPT ![t].expired = TRUE]
    /\ UNCHANGED <<team, account, secret, audit, call, requests, spent, served, given>>

ExpireAccount(a) ==
    /\ account[a] # None /\ ~account[a].expired
    /\ account' = [account EXCEPT ![a].expired = TRUE]
    /\ UNCHANGED <<team, token, secret, audit, call, requests, spent, served, given>>

Patches == [key : Values \cup {None}, value : Values \cup {None}]

MachineRequest ==
    \/ \E u \in Users, a \in Accounts, p \in Projects \cup {None}, S \in SUBSET Scopes :
         CreateMachineAccount(u, a, p, S)
    \/ \E u \in Users, a \in Accounts : DeleteMachineAccount(u, a)
    \/ \E u \in Users, t \in Tokens : RevokeToken(u, t)
    \/ \E c \in Calls, u \in Users, a \in Accounts, st \in Status \cup {None},
          S \in SUBSET Scopes, renewed \in BOOLEAN :
         ReadAccount(c, u, a, st, IF S = {} THEN None ELSE S, renewed)
    \/ \E c \in Calls, u \in Users, t \in Tokens, a \in Accounts \cup {None},
          p \in Projects \cup {None}, S \in SUBSET Scopes : CreateToken(c, u, t, a, p, S)
    \/ \E c \in Calls, t \in Tokens, p \in Projects : Present(c, t, p)

SecretRequest ==
    \/ \E c \in Calls, u \in Users, s \in Secrets, p \in Projects, v \in Values :
         CreateSecret(c, u, s, p, v)
    \/ \E c \in Calls, u \in Users, s \in Secrets :
         \/ \E patch \in Patches : LoadSecret(c, u, s, "load", patch)
         \/ LoadSecret(c, u, s, "loaddel", None)
         \/ LoadSecret(c, u, s, "view", None)

Step(c) ==
    \/ PatchAccount(c) \/ CheckBinding(c) \/ MintToken(c) \/ VerifyToken(c)
    \/ ListSecrets(c) \/ WriteSecret(c)
    \/ CheckSecret(c, "load", "write", TRUE)
    \/ CheckSecret(c, "loaddel", "delete", TRUE)
    \/ CheckSecret(c, "view", "reveal", FALSE)
    \/ UpdateSecret(c) \/ DeleteSecret(c)
    \/ CheckReveal(c) \/ AuditReveal(c) \/ Reveal(c)

Next ==
    \/ MachineRequest \/ SecretRequest
    \/ \E c \in Calls : Step(c)
    \/ \E p \in Projects, u \in Users, x \in Levels \cup {None} : SetLevel(p, u, x)
    \/ \E p \in Projects : DropProject(p)
    \/ \E t \in Tokens : ExpireToken(t)
    \/ \E a \in Accounts : ExpireAccount(a)

Spec == Init /\ [][Next]_vars

-----------------------------------------------------------------------------
TokenRow ==
    [owner : Users, account : Accounts \cup {None}, project : Projects \cup {None},
     scopes : SUBSET Scopes, prefixed : BOOLEAN, revoked : BOOLEAN,
     expired : BOOLEAN, bornFor : Accounts \cup {None}]

(* Every variable has its type; a secret belongs to a project that exists  *)
(* and a token's account, when it has one, exists and is the owner's.      *)
TypeOK ==
    /\ projects \subseteq Projects
    /\ level \in [Projects \X Users -> Levels \cup {None}]
    /\ reveal \subseteq Projects \X Users
    /\ \A a \in Accounts : account[a] = None \/
         account[a] \in [owner : Users, project : Projects \cup {None}, status : Status,
                         scopes : SUBSET Scopes, expired : BOOLEAN]
    /\ \A t \in Tokens : token[t] = None \/
         /\ token[t] \in TokenRow
         /\ token[t].account # None =>
              /\ account[token[t].account] # None
              /\ account[token[t].account].owner = token[t].owner
    /\ \A s \in Secrets : secret[s] = None \/
         /\ secret[s] \in [project : projects, key : Values, value : Values, version : Nat]
    /\ requests \in 0 .. MaxRequests /\ spent \subseteq Accounts \cup Secrets

(* A token presented after it was revoked reads nothing, whatever happens  *)
(* to its account meanwhile (verify_access_token).                         *)
RevokedNeverServed == \A r \in served : ~r.late

(* A token of an account that is tied to a project is tied to the same     *)
(* project (the second read of create_token).                              *)
BoundToProject ==
    \A t \in Tokens : token[t] # None /\ token[t].account # None =>
      account[token[t].account].project \in {None, token[t].project}

(* A value leaves the server only for a user who was allowed to see the    *)
(* project and to reveal its values, and the audit log says so             *)
(* (get_secret_value).                                                     *)
RevealAudited ==
    \A g \in given : /\ <<g.user, g.secret>> \in audit
                     /\ g.seen
                     /\ g.project \in projects =>
                          g.user = Owner \/ <<g.project, g.user>> \in reveal

(* Nothing of a project's secrets leaves the server without the right to   *)
(* it, whatever is revoked, rebound, removed or deleted while the request  *)
(* runs: to a token no more than above, to a user only with the audit row. *)
SecretsGuarded == RevokedNeverServed /\ BoundToProject /\ RevealAudited

(* A token issued for a machine account always names it.                   *)
KeepsAccount ==
    \A t \in Tokens : token[t] # None => token[t].account = token[t].bornFor

(* The scopes of a token are among those of its account.                   *)
ScopesWithinAccount ==
    \A t \in Tokens : token[t] # None /\ token[t].account # None =>
      token[t].scopes \subseteq account[token[t].account].scopes

(* auth_any recognizes every token that was issued.                        *)
IssuedTokenRecognized == \A t \in Tokens : token[t] # None => token[t].prefixed

(* An update that names no value leaves the value alone.                   *)
PatchKeepsValue ==
    [][\A c \in Calls : At(c, "write") /\ call'[c].pc = "idle" /\ secret[call[c].id] # None
         /\ call[c].patch.value = None
         => secret'[call[c].id].value = secret[call[c].id].value]_vars
=============================================================================
