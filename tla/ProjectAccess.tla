---------------------------- MODULE ProjectAccess ----------------------------
(***************************************************************************)
(* Who may reach which project: organizations with fixed roles, projects,  *)
(* per-project grants to users and to user groups, and offboarding, which  *)
(* takes everything away from a user, one statement after the other.       *)
(*                                                                         *)
(* A request is a call that awaits the database between its statements:    *)
(* what it checked may no longer be so when it writes. Names, descriptions *)
(* and the hide_password flag are left out; no decision reads them.        *)
(***************************************************************************)
EXTENDS Naturals, FiniteSets

CONSTANTS Users, Orgs, Projects, Groups,  \* identifiers, never reused
          Calls,         \* requests in flight at once
          AskedRoles,    \* org roles that requests ask for
          AskedPerms,    \* permissions that requests ask for
          MaxRequests,   \* bound: requests in a behaviour
          MaxRestarts,   \* bound: restarts of the server
          None           \* absent

Roles == {"Owner", "Admin", "Manager", "Member"}
Perms == {"CanView", "CanEdit", "CanManage"}
Routes == {"create", "grant", "regrant", "remove", "delete", "newgroup", "delgroup", "join",
           "leave", "offboard", "issue"}

ASSUME AccessAssumption ==
    /\ AskedRoles \subseteq Roles /\ AskedPerms \subseteq Perms
    /\ MaxRequests \in Nat /\ MaxRestarts \in Nat
    /\ None \notin Users \cup Orgs \cup Projects \cup Groups \cup Roles \cup Perms \cup Routes

VARIABLES role,      \* org_members
          orgs,      \* organizations
          project,   \* projects: owner and organization
          grant,     \* project_access rows of users
          ggrant,    \* project_access rows of groups
          groups,    \* user_groups
          member,    \* user_group_members
          sessions,  \* users with a live session
          creds,     \* users with an access token or a machine account
          keys,      \* users with sharing keys
          off,       \* the latest offboarding of each user
          spent,     \* project and group identifiers ever used
          call,      \* what each request is doing
          requests, restarts,
          revoked,   \* history: users offboarded and given nothing since
          clean      \* history: offboardings whose user was given nothing

org == <<role, orgs>>
access == <<grant, ggrant, groups, member>>
login == <<sessions, creds, keys>>
count == <<requests, restarts>>
hist == <<revoked, clean>>
vars == <<org, project, access, login, off, spent, call, count, hist>>

Idle == [pc |-> "idle", op |-> None, by |-> None, project |-> None, user |-> None,
         role |-> None, perm |-> None, group |-> None, org |-> None,
         mine |-> FALSE]

-----------------------------------------------------------------------------
(* Roles and permissions                                                   *)

Rank(r) == CASE r = "Owner" -> 3 [] r = "Admin" -> 2
             [] r = "Manager" -> 1 [] r = "Member" -> 0
PermRank(p) == CASE p = "CanManage" -> 3 [] p = "CanEdit" -> 2 [] p = "CanView" -> 1

CanManageOrg(r) == r \in {"Owner", "Admin"}
CanCreateProjects(r) == r # "Member"
CanOffboard(r) == CanManageOrg(r)

(* Mutant: a role as high as the caller's may be assigned.                 *)
EnforceRoleRank_Equal(mine, asked) == Rank(mine) >= Rank(asked)

(* enforce_role_rank                                                       *)
EnforceRoleRank(mine, asked) == Rank(mine) > Rank(asked)

(* get_org_role, Member when there is no row                               *)
RoleOf(o, u) ==
    IF o # None /\ role[<<o, u>>] # None THEN role[<<o, u>>] ELSE "Member"

(* get_user_org_roles                                                      *)
OrgsOf(u) == {o \in Orgs : role[<<o, u>>] # None}

(* max_perm over a set of permissions                                      *)
MaxPerm(S) ==
    IF S = {} THEN None
    ELSE CHOOSE p \in S : \A q \in S : PermRank(p) >= PermRank(q)

(* effective_permission: ownership, the direct grant, grants of groups     *)
EffectivePermission(p, u) ==
    IF project[p] # None /\ project[p].owner = u THEN "CanManage"
    ELSE MaxPerm(({grant[<<p, u>>]} \cup {ggrant[<<p, g>>] : g \in {h \in Groups : <<h, u>> \in member}})
                 \ {None})

(* Mutant: grants of groups are forgotten.                                 *)
UserProjectPermission_Direct(p, u) ==
    IF project[p] # None /\ project[p].owner = u THEN "CanManage"
    ELSE grant[<<p, u>>]

(* user_project_permission: the resolver of the secrets routes             *)
UserProjectPermission(p, u) ==
    LET rows == {x \in Perms : \/ grant[<<p, u>>] = x
                               \/ \E g \in Groups : ggrant[<<p, g>>] = x /\ <<g, u>> \in member}
    IN IF project[p] # None /\ project[p].owner = u THEN "CanManage"
       ELSE IF "CanManage" \in rows THEN "CanManage"
       ELSE IF "CanEdit" \in rows THEN "CanEdit"
       ELSE IF "CanView" \in rows THEN "CanView" ELSE None

(* ensure_visible                                                          *)
Visible(p, u) ==
    \/ project[p].owner = u
    \/ CanManageOrg(RoleOf(project[p].org, u))
    \/ EffectivePermission(p, u) # None

(* list_projects_for_user                                                  *)
ListedFor(u) ==
    {p \in Projects :
       /\ project[p] # None
       /\ \/ project[p].owner = u
          \/ grant[<<p, u>>] # None
          \/ \E g \in Groups : <<g, u>> \in member /\ ggrant[<<p, g>>] # None
          \/ \E o \in Orgs : /\ project[p].org = o
                             /\ role[<<o, u>>] \in {"Owner", "Admin"}}

-----------------------------------------------------------------------------
(* Statements of the repository                                            *)

(* set_org_member                                                          *)
SetOrgMember(o, u, r) == role' = [role EXCEPT ![<<o, u>>] = r]

(* grant_user_project_access: the old row goes and the new one comes in    *)
(* one transaction                                                         *)
GrantUser(p, u, x) == grant' = [grant EXCEPT ![<<p, u>>] = x]

(* grant_group_project_access                                              *)
GrantGroup(p, g, x) == ggrant' = [ggrant EXCEPT ![<<p, g>>] = x]

(* remove_user_grant                                                       *)
RemoveGrant(p, u) == grant' = [grant EXCEPT ![<<p, u>>] = None]

(* create_project                                                          *)
InsertProject(p, u, o) ==
    project' = [project EXCEPT ![p] = [owner |-> u, org |-> o]]

(* delete_project, and its grants by the foreign key                       *)
RemoveProject(p) ==
    /\ project' = [project EXCEPT ![p] = None]
    /\ grant' = [q \in Projects \X Users |-> IF q[1] = p THEN None ELSE grant[q]]
    /\ ggrant' = [q \in Projects \X Groups |-> IF q[1] = p THEN None ELSE ggrant[q]]

(* create_user_group                                                       *)
CreateUserGroup(g) == groups' = groups \cup {g} /\ spent' = spent \cup {g}

(* delete_user_group, its members and its grants by the foreign keys       *)
DeleteUserGroup(g) ==
    /\ groups' = groups \ {g}
    /\ member' = {m \in member : m[1] # g}
    /\ ggrant' = [q \in Projects \X Groups |-> IF q[2] = g THEN None ELSE ggrant[q]]

(* add_user_group_member                                                   *)
AddUserGroupMember(g, u) == member' = member \cup {<<g, u>>}

(* remove_user_group_member                                                *)
RemoveUserGroupMember(g, u) == member' = member \ {<<g, u>>}

(* revoke_project_access_for_user                                          *)
RevokeProjectAccess(u) ==
    grant' = [q \in Projects \X Users |-> IF q[2] = u THEN None ELSE grant[q]]

(* revoke_group_memberships_for_user                                       *)
RevokeGroupMemberships(u) == member' = {m \in member : m[2] # u}

(* Mutant: sessions are left to expire.                                    *)
RevokeSessions_Kept(u) == sessions' = sessions

(* revoke_sessions_for_user                                                *)
RevokeSessions(u) == sessions' = sessions \ {u}

(* revoke_org_memberships_for_user                                         *)
RevokeOrgMemberships(u) ==
    role' = [q \in Orgs \X Users |-> IF q[2] = u THEN None ELSE role[q]]

(* revoke_sharing_keys_for_user                                            *)
RevokeSharingKeys(u) == keys' = keys \ {u}

(* revoke_tokens_for_user and revoke_machine_accounts_for_user             *)
RevokeTokens(u) == creds' = creds \ {u}

(* create_offboarding                                                      *)
CreateOffboarding(u) == off' = [off EXCEPT ![u] = "pending"]

(* complete_offboarding                                                    *)
CompleteOffboarding(u) == off' = [off EXCEPT ![u] = "completed"]

-----------------------------------------------------------------------------
(* Registered users, no organization yet.                                  *)
Init ==
    /\ role = [q \in Orgs \X Users |-> None] /\ orgs = {}
    /\ project = [p \in Projects |-> None]
    /\ grant = [q \in Projects \X Users |-> None]
    /\ ggrant = [q \in Projects \X Groups |-> None]
    /\ groups = {} /\ member = {}
    /\ sessions = Users /\ creds = {} /\ keys = Users
    /\ off = [u \in Users |-> None]
    /\ spent = {}
    /\ call = [c \in Calls |-> Idle]
    /\ requests = 0 /\ restarts = 0
    /\ revoked = {} /\ clean = {}

At(c, pc) == call[c].pc = pc
Goto(c, pc) == call' = [call EXCEPT ![c].pc = pc]
Return(c) == call' = [call EXCEPT ![c] = Idle]
(* Something is given to the user: an offboarding under way or completed   *)
(* no longer tells what the user has.                                      *)
Touch(u) ==
    /\ revoked' = revoked \ {u}
    /\ clean' = {c \in clean : call[c].user # u}

(* A request arrives from a user with a session.                           *)
Begin(c, pc, u, r) ==
    /\ requests < MaxRequests
    /\ requests' = requests + 1
    /\ At(c, "idle")
    /\ u \in sessions
    /\ call' = [call EXCEPT ![c] = [r EXCEPT !.pc = pc, !.by = u]]

Request(op) == [Idle EXCEPT !.op = op]

(* create_project: a personal one is inserted, a shared one needs an       *)
(* organization                                                            *)
CreateProject(c, u, p, shared) ==
    /\ p \notin spent
    /\ spent' = spent \cup {p}
    /\ Begin(c, IF shared THEN "org" ELSE "insert", u,
             [Request("create") EXCEPT !.project = p])
    /\ UNCHANGED <<org, project, access, login, off, restarts, hist>>

(* The routes of one project read its row, or end with 404; organization   *)
(* and owner are those of that row from here on                            *)
OnProject(c, u, r) ==
    /\ project[r.project] # None
    /\ Begin(c, "perm", u, [r EXCEPT !.org = project[r.project].org,
                                     !.mine = project[r.project].owner = u])
    /\ UNCHANGED <<org, project, access, login, off, spent, restarts, hist>>

AddMember(c, u, p, v, r, x) ==
    OnProject(c, u, [Request("grant") EXCEPT !.project = p, !.user = v,
                                             !.role = r, !.perm = x])
UpdateMember(c, u, p, v, r, x) ==
    OnProject(c, u, [Request("regrant") EXCEPT !.project = p, !.user = v,
                                               !.role = r, !.perm = x])
RemoveMember(c, u, p, v) ==
    OnProject(c, u, [Request("remove") EXCEPT !.project = p, !.user = v])
DeleteProject(c, u, p) ==
    OnProject(c, u, [Request("delete") EXCEPT !.project = p])
CreateGroup(c, u, p, g) ==
    /\ g \notin spent
    /\ \A d \in Calls : call[d].group # g \/ call[d].op # "newgroup"
    /\ OnProject(c, u, [Request("newgroup") EXCEPT !.project = p, !.group = g])
DeleteGroup(c, u, p, g) ==
    OnProject(c, u, [Request("delgroup") EXCEPT !.project = p, !.group = g])
AddGroupMember(c, u, p, g, v) ==
    OnProject(c, u, [Request("join") EXCEPT !.project = p, !.group = g, !.user = v])
RemoveGroupMember(c, u, p, g, v) ==
    OnProject(c, u, [Request("leave") EXCEPT !.project = p, !.group = g, !.user = v])

(* Where each route goes once the caller may manage the project            *)
AfterCheck(c) ==
    CASE call[c].op = "grant" -> IF call[c].role = None THEN "grant" ELSE "org"
      [] call[c].op = "newgroup" -> "org"
      [] OTHER -> call[c].op

(* require_can_manage, first half: the owner, or an effective CanManage    *)
CheckPermission(c) ==
    /\ At(c, "perm")
    /\ Goto(c, IF \/ call[c].mine
                  \/ EffectivePermission(call[c].project, call[c].by) = "CanManage"
               THEN AfterCheck(c) ELSE "role")
    /\ UNCHANGED <<org, project, access, login, off, spent, count, hist>>

(* require_can_manage, second half: an Owner or Admin of the organization  *)
CheckRole(c) ==
    /\ At(c, "role")
    /\ IF CanManageOrg(RoleOf(call[c].org, call[c].by))
         THEN Goto(c, AfterCheck(c)) ELSE Return(c)
    /\ UNCHANGED <<org, project, access, login, off, spent, count, hist>>

(* update_member reads the member's row and keeps its permission unless    *)
(* the request names one                                                   *)
ReadGrant(c) ==
    /\ At(c, "regrant")
    /\ LET old == grant[<<call[c].project, call[c].user>>]
       IN IF old = None THEN Return(c)
          ELSE call' = [call EXCEPT
                 ![c].pc = IF call[c].role = None THEN "grant" ELSE "org",
                 ![c].perm = IF call[c].perm = None THEN old ELSE call[c].perm]
    /\ UNCHANGED <<org, project, access, login, off, spent, count, hist>>

(* Where each route goes once it has an organization                       *)
AfterOrg(c) ==
    CASE call[c].op = "create" -> "may" [] call[c].op = "newgroup" -> "group"
      [] OTHER -> "rank"

(* The organization of the project, or the first one of the caller, or a   *)
(* new one (get_user_org_id of ensure_org_for_user)                        *)
FindOrg(c) ==
    /\ At(c, "org")
    /\ LET theirs == OrgsOf(call[c].by)
       IN \/ call[c].org # None /\ Goto(c, AfterOrg(c))
          \/ /\ call[c].org = None
             /\ \E o \in theirs :
                  call' = [call EXCEPT ![c].pc = AfterOrg(c), ![c].org = o]
          \/ call[c].org = None /\ theirs = {} /\ Goto(c, "neworg")
    /\ UNCHANGED <<org, project, access, login, off, spent, count, hist>>

(* ensure_org_for_user goes on: a new organization with the caller as its  *)
(* Owner                                                                   *)
EnsureOrg(c) ==
    /\ At(c, "neworg")
    /\ \E o \in Orgs \ orgs :
         /\ orgs' = orgs \cup {o}
         /\ SetOrgMember(o, call[c].by, "Owner")
         /\ call' = [call EXCEPT ![c].pc = AfterOrg(c), ![c].org = o]
    /\ Touch(call[c].by)
    /\ UNCHANGED <<project, access, login, off, spent, count>>

(* create_project: the caller's role may create shared projects            *)
MayCreate(c) ==
    /\ At(c, "may")
    /\ IF CanCreateProjects(RoleOf(call[c].org, call[c].by))
         THEN Goto(c, "insert") ELSE Return(c)
    /\ UNCHANGED <<org, project, access, login, off, spent, count, hist>>

Insert(c) ==
    /\ At(c, "insert")
    /\ InsertProject(call[c].project, call[c].by, call[c].org)
    /\ Return(c)
    /\ UNCHANGED <<org, access, login, off, spent, count, hist>>

(* add_member and update_member: the rank of the caller, read now, against *)
(* the role that is asked for                                              *)
CheckRank(c) ==
    /\ At(c, "rank")
    /\ IF EnforceRoleRank(RoleOf(call[c].org, call[c].by), call[c].role)
         THEN Goto(c, "assign") ELSE Return(c)
    /\ UNCHANGED <<org, project, access, login, off, spent, count, hist>>

Assign(c) ==
    /\ At(c, "assign")
    /\ SetOrgMember(call[c].org, call[c].user, call[c].role)
    /\ Touch(call[c].user)
    /\ Goto(c, "grant")
    /\ UNCHANGED <<orgs, project, access, login, off, spent, count>>

(* the grant; the foreign key refuses it when the project is gone          *)
WriteGrant(c) ==
    /\ At(c, "grant")
    /\ LET p == call[c].project u == call[c].user
       IN IF project[p] = None THEN UNCHANGED <<grant, hist>>
          ELSE GrantUser(p, u, call[c].perm) /\ Touch(u)
    /\ Return(c)
    /\ UNCHANGED <<org, project, ggrant, groups, member, login, off, spent, count>>

WriteRemoval(c) ==
    /\ At(c, "remove")
    /\ RemoveGrant(call[c].project, call[c].user)
    /\ Return(c)
    /\ UNCHANGED <<org, project, ggrant, groups, member, login, off, spent, count, hist>>

WriteDeletion(c) ==
    /\ At(c, "delete")
    /\ RemoveProject(call[c].project)
    /\ Return(c)
    /\ UNCHANGED <<org, groups, member, login, off, spent, count, hist>>

(* create_group: the group, then its view access                           *)
WriteGroup(c) ==
    /\ At(c, "group")
    /\ CreateUserGroup(call[c].group)
    /\ Goto(c, "view")
    /\ UNCHANGED <<org, project, grant, ggrant, member, login, off, count, hist>>

WriteGroupGrant(c) ==
    /\ At(c, "view")
    /\ LET p == call[c].project g == call[c].group
       IN IF project[p] = None \/ g \notin groups THEN UNCHANGED ggrant
          ELSE GrantGroup(p, g, "CanView")
    /\ Return(c)
    /\ UNCHANGED <<org, project, grant, groups, member, login, off, spent, count, hist>>

(* delete_group: whatever project the group has access to                  *)
WriteGroupDeletion(c) ==
    /\ At(c, "delgroup")
    /\ DeleteUserGroup(call[c].group)
    /\ Return(c)
    /\ UNCHANGED <<org, project, grant, login, off, spent, count, hist>>

(* add_group_member: the group exists, and still does when it is written   *)
FindGroup(c) ==
    /\ At(c, "join")
    /\ IF call[c].group \in groups THEN Goto(c, "joining") ELSE Return(c)
    /\ UNCHANGED <<org, project, access, login, off, spent, count, hist>>

WriteJoin(c) ==
    /\ At(c, "joining")
    /\ IF call[c].group \in groups
         THEN AddUserGroupMember(call[c].group, call[c].user) /\ Touch(call[c].user)
         ELSE UNCHANGED <<member, hist>>
    /\ Return(c)
    /\ UNCHANGED <<org, project, grant, ggrant, groups, login, off, spent, count>>

WriteLeave(c) ==
    /\ At(c, "leave")
    /\ RemoveUserGroupMember(call[c].group, call[c].user)
    /\ Return(c)
    /\ UNCHANGED <<org, project, grant, ggrant, groups, login, off, spent, count, hist>>

-----------------------------------------------------------------------------
(* Offboarding                                                             *)

(* the caller outranks the target in every organization of the target, or  *)
(* may offboard somewhere when there is none                               *)
Outranks(u, v) ==
    IF OrgsOf(v) = {} THEN \E o \in OrgsOf(u) : CanOffboard(role[<<o, u>>])
    ELSE \A o \in OrgsOf(v) : /\ role[<<o, u>>] # None
                              /\ CanOffboard(role[<<o, u>>])
                              /\ Rank(role[<<o, u>>]) > Rank(role[<<o, v>>])

Offboard(c, u, v) ==
    /\ Begin(c, "outrank", u, [Request("offboard") EXCEPT !.user = v])
    /\ UNCHANGED <<org, project, access, login, off, spent, restarts, hist>>

CheckOutranks(c) ==
    /\ At(c, "outrank")
    /\ IF Outranks(call[c].by, call[c].user) THEN Goto(c, "pending") ELSE Return(c)
    /\ UNCHANGED <<org, project, access, login, off, spent, count, hist>>

RecordOffboarding(c) ==
    /\ At(c, "pending")
    /\ CreateOffboarding(call[c].user)
    /\ clean' = clean \cup {c}
    /\ Goto(c, "grants")
    /\ UNCHANGED <<org, project, access, login, spent, count, revoked>>

DropGrants(c) ==
    /\ At(c, "grants")
    /\ RevokeProjectAccess(call[c].user)
    /\ Goto(c, "members")
    /\ UNCHANGED <<org, project, ggrant, groups, member, login, off, spent, count, hist>>

DropMemberships(c) ==
    /\ At(c, "members")
    /\ RevokeGroupMemberships(call[c].user)
    /\ Goto(c, "sessions")
    /\ UNCHANGED <<org, project, grant, ggrant, groups, login, off, spent, count, hist>>

DropSessions(c) ==
    /\ At(c, "sessions")
    /\ RevokeSessions(call[c].user)
    /\ Goto(c, "roles")
    /\ UNCHANGED <<org, project, access, creds, keys, off, spent, count, hist>>

DropRoles(c) ==
    /\ At(c, "roles")
    /\ RevokeOrgMemberships(call[c].user)
    /\ Goto(c, "keys")
    /\ UNCHANGED <<orgs, project, access, login, off, spent, count, hist>>

DropKeys(c) ==
    /\ At(c, "keys")
    /\ RevokeSharingKeys(call[c].user)
    /\ Goto(c, "tokens")
    /\ UNCHANGED <<org, project, access, sessions, creds, off, spent, count, hist>>

DropTokens(c) ==
    /\ At(c, "tokens")
    /\ RevokeTokens(call[c].user)
    /\ Goto(c, "complete")
    /\ UNCHANGED <<org, project, access, sessions, keys, off, spent, count, hist>>

Complete(c) ==
    /\ At(c, "complete")
    /\ CompleteOffboarding(call[c].user)
    /\ revoked' = IF c \in clean THEN revoked \cup {call[c].user} ELSE revoked
    /\ clean' = clean \ {c}
    /\ Return(c)
    /\ UNCHANGED <<org, project, access, login, spent, count>>

-----------------------------------------------------------------------------
(* create_token and create_machine_account, for themselves                 *)
IssueToken(c, u) ==
    /\ Begin(c, "issue", u, Request("issue"))
    /\ UNCHANGED <<org, project, access, login, off, spent, restarts, hist>>

WriteToken(c) ==
    /\ At(c, "issue")
    /\ creds' = creds \cup {call[c].by}
    /\ Touch(call[c].by)
    /\ Return(c)
    /\ UNCHANGED <<org, project, access, sessions, keys, off, spent, count>>

(* A user signs in, and uploads sharing keys                               *)
SignIn(u) ==
    /\ requests < MaxRequests
    /\ requests' = requests + 1
    /\ u \notin sessions
    /\ sessions' = sessions \cup {u}
    /\ keys' = keys \cup {u}
    /\ Touch(u)
    /\ UNCHANGED <<org, project, access, creds, off, spent, call, restarts>>

Restart ==
    /\ restarts < MaxRestarts
    /\ restarts' = restarts + 1
    /\ call' = [c \in Calls |-> Idle]
    /\ clean' = {}
    /\ UNCHANGED <<org, project, access, login, off, spent, requests, revoked>>

Step(c) ==
    \/ CheckPermission(c) \/ CheckRole(c) \/ ReadGrant(c) \/ FindOrg(c)
    \/ EnsureOrg(c) \/ MayCreate(c) \/ Insert(c) \/ CheckRank(c) \/ Assign(c)
    \/ WriteGrant(c) \/ WriteRemoval(c) \/ WriteDeletion(c) \/ WriteGroup(c)
    \/ WriteGroupGrant(c) \/ WriteGroupDeletion(c) \/ FindGroup(c)
    \/ WriteJoin(c) \/ WriteLeave(c) \/ CheckOutranks(c)
    \/ RecordOffboarding(c) \/ DropGrants(c) \/ DropMemberships(c)
    \/ DropSessions(c) \/ DropRoles(c) \/ DropKeys(c) \/ DropTokens(c)
    \/ Complete(c) \/ WriteToken(c)

Arrive(c, u) ==
    \/ \E p \in Projects, s \in BOOLEAN : CreateProject(c, u, p, s)
    \/ \E p \in Projects, v \in Users, r \in AskedRoles \cup {None} :
         \/ \E x \in AskedPerms : AddMember(c, u, p, v, r, x)
         \/ \E x \in AskedPerms \cup {None} : UpdateMember(c, u, p, v, r, x)
    \/ \E p \in Projects : DeleteProject(c, u, p)
    \/ \E p \in Projects, v \in Users : RemoveMember(c, u, p, v)
    \/ \E p \in Projects, g \in Groups : CreateGroup(c, u, p, g)
    \/ \E p \in Projects, g \in Groups : DeleteGroup(c, u, p, g)
    \/ \E p \in Projects, g \in Groups, v \in Users :
         AddGroupMember(c, u, p, g, v) \/ RemoveGroupMember(c, u, p, g, v)
    \/ \E v \in Users : Offboard(c, u, v)
    \/ IssueToken(c, u)

Next ==
    \/ \E c \in Calls, u \in Users : Arrive(c, u)
    \/ \E c \in Calls : Step(c)
    \/ \E u \in Users : SignIn(u)
    \/ Restart

(* The runtime keeps polling every request it accepted.                    *)
Spec == Init /\ [][Next]_vars /\ \A c \in Calls : WF_vars(Step(c))

-----------------------------------------------------------------------------
Stages == {"idle", "perm", "role", "regrant", "org", "neworg", "may", "insert",
           "rank", "assign", "grant", "remove", "delete", "group", "view",
           "delgroup", "join", "joining", "leave", "outrank", "pending",
           "grants", "members", "sessions", "roles", "keys", "tokens",
           "complete", "issue"}

CallType ==
    [pc : Stages,
     op : Routes \cup {None},
     by : Users \cup {None}, project : Projects \cup {None},
     user : Users \cup {None}, role : Roles \cup {None},
     perm : Perms \cup {None}, group : Groups \cup {None},
     org : Orgs \cup {None}, mine : BOOLEAN]

(* Every variable has its type, and rows refer to rows that exist: grants  *)
(* to projects and groups, memberships to groups, roles to organizations.  *)
TypeOK ==
    /\ role \in [Orgs \X Users -> Roles \cup {None}] /\ orgs \subseteq Orgs
    /\ project \in [Projects -> [owner : Users, org : Orgs \cup {None}] \cup {None}]
    /\ grant \in [Projects \X Users -> Perms \cup {None}]
    /\ ggrant \in [Projects \X Groups -> Perms \cup {None}]
    /\ groups \subseteq Groups /\ member \subseteq groups \X Users
    /\ sessions \subseteq Users /\ creds \subseteq Users /\ keys \subseteq Users
    /\ off \in [Users -> {None, "pending", "completed"}]
    /\ spent \subseteq Projects \cup Groups
    /\ call \in [Calls -> CallType]
    /\ requests \in 0 .. MaxRequests /\ restarts \in 0 .. MaxRestarts
    /\ revoked \subseteq Users /\ clean \subseteq Calls
    /\ \A p \in Projects : project[p] = None =>
         /\ \A u \in Users : grant[<<p, u>>] = None
         /\ \A g \in Groups : ggrant[<<p, g>>] = None
    /\ \A g \in Groups \ groups, p \in Projects : ggrant[<<p, g>>] = None
    /\ \A o \in Orgs \ orgs, u \in Users : role[<<o, u>>] = None

(* Whatever requests overlap, an organization never has two Owners: nobody *)
(* assigns a role as high as the own one (enforce_role_rank).              *)
OneOwner ==
    \A o \in Orgs : Cardinality({u \in Users : role[<<o, u>>] = "Owner"}) <= 1

(* A completed offboarding has taken grants, groups, roles, sessions, keys *)
(* and tokens, unless some other request gave the user something after it  *)
(* had begun (offboard and the revoke statements it makes one by one).     *)
OffboardComplete ==
    \A u \in revoked :
      /\ \A p \in Projects : grant[<<p, u>>] = None
      /\ \A g \in groups : <<g, u>> \notin member
      /\ OrgsOf(u) = {}
      /\ u \notin sessions \cup creds \cup keys

(* The list of projects holds exactly the projects that the single-project *)
(* routes show (list_projects_for_user, ensure_visible), and the secrets   *)
(* routes resolve the same permission as the project routes                *)
(* (user_project_permission, effective_permission).                        *)
ResolversAgree ==
    \A u \in Users :
      /\ ListedFor(u) = {p \in Projects : project[p] # None /\ Visible(p, u)}
      /\ \A p \in Projects : UserProjectPermission(p, u) = EffectivePermission(p, u)

(* An offboarding that was recorded completes, a restart notwithstanding.  *)
OffboardResumes ==
    \A u \in Users : off[u] = "pending" ~> off[u] = "completed"

(* Offboarding revokes all access: nothing is left to a user whose         *)
(* offboarding completed and whom nobody gave anything since.              *)
OffboardedHasNothing ==
    \A u \in revoked, p \in Projects : EffectivePermission(p, u) = None

(* A user gains access to a project by a request of someone who manages it *)
(* (the caller of add_member or add_group_member).                         *)
AccessByManager ==
    [][\A c \in Calls, p \in Projects, u \in Users :
         (/\ call[c] # call'[c] /\ call[c].pc \in {"grant", "joining", "view"}
          /\ EffectivePermission(p, u) = None /\ EffectivePermission(p, u)' # None)
         => call[c].project = p]_vars

(* A role is not lowered by someone of lower rank.                         *)
NoDemotionFromBelow ==
    [][\A c \in Calls, o \in Orgs, u \in Users :
         (call[c].pc = "assign" /\ call'[c].pc = "grant" /\ role[<<o, u>>] # None)
         => (role'[<<o, u>>] = role[<<o, u>>] \/ Rank(RoleOf(o, call[c].by)) > Rank(role[<<o, u>>])
             \/ call[c].by = u)]_vars

(* ensure_org_for_user creates a default organization only for a user who  *)
(* is in none.                                                             *)
OneDefaultOrg ==
    \A u \in Users : Cardinality({o \in Orgs : role[<<o, u>>] = "Owner"}) <= 1
=============================================================================
