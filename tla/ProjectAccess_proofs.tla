------------------------ MODULE ProjectAccess_proofs ------------------------
(***************************************************************************)
(* Proofs about ProjectAccess, for any number of users, organizations,     *)
(* projects, groups, overlapping requests and restarts.                    *)
(***************************************************************************)
EXTENDS MCProjectAccess, FiniteSetTheorems, TLAPS

(* The routes that begin by reading the row of a project.                  *)
ProjectOps == {"grant", "regrant", "remove", "delete", "newgroup", "delgroup", "join", "leave"}

(* A request that runs has a caller, one whose permission is being checked *)
(* is of a route on a project, and such a request names project and user.  *)
CallOK(r) ==
    /\ r \in CallType
    /\ r.pc # "idle" => r.by \in Users
    /\ r.pc \in {"perm", "role"} => r.op \in ProjectOps
    /\ r.pc = "regrant" => r.op = "regrant"
    /\ r.op \in ProjectOps => r.project \in Projects
    /\ r.op \in {"grant", "regrant", "remove", "join", "leave"} => r.user \in Users
    /\ r.pc \in {"outrank", "pending"} => r.user \in Users

(* The statements of an offboarding, after the one that records it.        *)
OffStages == {"grants", "members", "sessions", "roles", "keys", "tokens", "complete"}

CallsTyped == call \in [Calls -> CallType] /\ \A c \in Calls : CallOK(call[c])

(* The tables have their types.                                            *)
TablesTyped ==
    /\ role \in [Orgs \X Users -> Roles \cup {None}]
    /\ project \in [Projects -> [owner : Users, org : Orgs \cup {None}] \cup {None}]
    /\ grant \in [Projects \X Users -> Perms \cup {None}]
    /\ ggrant \in [Projects \X Groups -> Perms \cup {None}]

Typed == CallsTyped /\ TablesTyped

-----------------------------------------------------------------------------
(* How requests move                                                       *)

(* A request that has ended is a request.                                  *)
LEMMA IdleTyped == CallOK(Idle) /\ Idle.pc = "idle" /\ "idle" \in Stages
  BY AccessAssumption DEF Idle, CallOK, CallType, Stages, ProjectOps, Routes, AccessAssumption

(* One request changes, the others do not.                                 *)
LEMMA Moves ==
    ASSUME CallsTyped, NEW c \in Calls, NEW r, CallOK(r), call' = [call EXCEPT ![c] = r]
    PROVE  CallsTyped' /\ call'[c] = r /\ \A d \in Calls \ {c} : call'[d] = call[d]
<1>1. r \in CallType
  BY DEF CallOK
<1>2. /\ call' \in [Calls -> CallType] /\ call'[c] = r
      /\ \A d \in Calls \ {c} : call'[d] = call[d]
  BY <1>1 DEF CallsTyped
<1> QED BY <1>2 DEF CallsTyped

(* A request that returns leaves the others alone.                         *)
LEMMA ReturnMoves ==
    ASSUME CallsTyped, NEW c \in Calls, Return(c)
    PROVE  CallsTyped' /\ call'[c] = Idle /\ \A d \in Calls \ {c} : call'[d] = call[d]
  BY IdleTyped, Moves DEF Return

(* A request that goes on changes its stage only.                          *)
LEMMA GotoMoves ==
    ASSUME CallsTyped, NEW c \in Calls, call[c].pc # "idle", NEW pc \in Stages, Goto(c, pc),
           pc \in {"perm", "role"} => call[c].op \in ProjectOps,
           pc = "regrant" => call[c].op = "regrant",
           pc \in {"outrank", "pending"} => call[c].user \in Users
    PROVE  /\ CallsTyped'
           /\ \A d \in Calls \ {c} : call'[d] = call[d]
           /\ call'[c].pc = pc /\ call'[c].op = call[c].op
           /\ call'[c].user = call[c].user /\ call'[c].role = call[c].role
<1> DEFINE r == [call[c] EXCEPT !.pc = pc]
<1>1. call[c] \in CallType /\ CallOK(call[c])
  BY DEF CallsTyped
<1>2. call' = [call EXCEPT ![c] = r]
  BY DEF Goto, CallsTyped
<1>3. r \in CallType
  BY <1>1 DEF CallType
<1>4. /\ r.pc = pc /\ r.op = call[c].op /\ r.user = call[c].user /\ r.role = call[c].role
      /\ r.by = call[c].by /\ r.project = call[c].project
  BY <1>1 DEF CallType
<1> HIDE DEF r
<1>5. CallOK(r)
  BY <1>1, <1>3, <1>4 DEF CallOK
<1> QED BY <1>2, <1>4, <1>5, Moves

(* A request that arrives is well typed and has its caller.                *)
LEMMA BeginMoves ==
    ASSUME CallsTyped, NEW c \in Calls, NEW u \in Users, NEW pc \in Stages, NEW r \in CallType,
           Begin(c, pc, u, r), pc \in {"perm", "role"} => r.op \in ProjectOps,
           pc # "regrant", pc \in {"outrank", "pending"} => r.user \in Users,
           r.op \in ProjectOps => r.project \in Projects,
           r.op \in {"grant", "regrant", "remove", "join", "leave"} => r.user \in Users
    PROVE  /\ CallsTyped' /\ call'[c].pc = pc
           /\ \A d \in Calls \ {c} : call'[d] = call[d]
<1> DEFINE q == [r EXCEPT !.pc = pc, !.by = u]
<1>1. q \in CallType
  BY DEF CallType
<1>2. q.by = u /\ q.op = r.op /\ q.pc = pc /\ q.user = r.user /\ q.project = r.project
  BY DEF CallType
<1>3. call' = [call EXCEPT ![c] = q]
  BY DEF Begin
<1> HIDE DEF q
<1>4. CallOK(q)
  BY <1>1, <1>2 DEF CallOK
<1> QED BY <1>2, <1>3, <1>4, Moves

(* The routes of one project.                                              *)
LEMMA OnProjectMoves ==
    ASSUME Typed, NEW c \in Calls, NEW u \in Users, NEW r \in CallType,
           r.project \in Projects, r.op \in ProjectOps,
           r.op \in {"grant", "regrant", "remove", "join", "leave"} => r.user \in Users,
           OnProject(c, u, r)
    PROVE  /\ CallsTyped' /\ call'[c].pc = "perm"
           /\ \A d \in Calls \ {c} : call'[d] = call[d]
<1> DEFINE q == [r EXCEPT !.org = project[r.project].org,
                          !.mine = project[r.project].owner = u]
<1>1. project[r.project] \in [owner : Users, org : Orgs \cup {None}]
  BY DEF OnProject, Typed, TablesTyped
<1>2. (project[r.project].owner = u) \in BOOLEAN
  OBVIOUS
<1>3. q \in CallType
  BY <1>1, <1>2 DEF CallType
<1>4. q.op = r.op /\ q.project = r.project /\ q.user = r.user
  BY DEF CallType
<1>5. Begin(c, "perm", u, q)
  BY DEF OnProject
<1>6. "perm" \in Stages
  BY DEF Stages
<1> HIDE DEF q
<1> QED BY <1>3, <1>4, <1>5, <1>6, BeginMoves DEF Typed

(* What every arrival does: one idle request begins, and no table changes. *)
LEMMA ArriveMoves ==
    ASSUME Typed, NEW c \in Calls, NEW u \in Users, Arrive(c, u)
    PROVE  /\ CallsTyped'
           /\ \A d \in Calls \ {c} : call'[d] = call[d]
           /\ call[c].pc = "idle"
           /\ call'[c].pc \in {"perm", "org", "insert", "outrank", "issue"}
           /\ UNCHANGED <<org, project, access, login, off, hist>>
<1>a. {"perm", "org", "insert", "outrank", "issue"} \subseteq Stages
  BY DEF Stages
<1>b. CallsTyped
  BY DEF Typed
<1>c. "idle" \in Stages
  BY IdleTyped
<1>1. ASSUME NEW p \in Projects, NEW s \in BOOLEAN, CreateProject(c, u, p, s)
      PROVE  /\ CallsTyped' /\ \A d \in Calls \ {c} : call'[d] = call[d]
             /\ call'[c].pc \in {"org", "insert"}
  <2> DEFINE r == [Request("create") EXCEPT !.project = p]
  <2>1. r \in CallType /\ r.op \notin ProjectOps
    BY <1>c DEF Request, Idle, CallType, ProjectOps, Routes
  <2>2. Begin(c, IF s THEN "org" ELSE "insert", u, r)
    BY <1>1 DEF CreateProject
  <2> HIDE DEF r
  <2> QED BY <2>1, <2>2, <1>a, <1>b, BeginMoves DEF ProjectOps
<1> DEFINE Perm == /\ CallsTyped' /\ call'[c].pc = "perm"
                   /\ \A d \in Calls \ {c} : call'[d] = call[d]
<1>2. ASSUME NEW p \in Projects, NEW v \in Users, NEW ro \in AskedRoles \cup {None}, NEW x \in AskedPerms \cup {None},
             AddMember(c, u, p, v, ro, x)
      PROVE  Perm
  <2> DEFINE r == [Request("grant") EXCEPT !.project = p, !.user = v, !.role = ro, !.perm = x]
  <2>1. r \in CallType /\ r.op = "grant" /\ r.project = p /\ r.user \in Users
    BY <1>c, AccessAssumption DEF Request, Idle, CallType, Routes, AccessAssumption
  <2>2. OnProject(c, u, r)
    BY <1>2 DEF AddMember
  <2> HIDE DEF r
  <2> QED BY <2>1, <2>2, OnProjectMoves DEF ProjectOps
<1>3. ASSUME NEW p \in Projects, NEW v \in Users, NEW ro \in AskedRoles \cup {None}, NEW x \in AskedPerms \cup {None},
             UpdateMember(c, u, p, v, ro, x)
      PROVE  Perm
  <2> DEFINE r == [Request("regrant") EXCEPT !.project = p, !.user = v, !.role = ro, !.perm = x]
  <2>1. r \in CallType /\ r.op = "regrant" /\ r.project = p /\ r.user \in Users
    BY <1>c, AccessAssumption DEF Request, Idle, CallType, Routes, AccessAssumption
  <2>2. OnProject(c, u, r)
    BY <1>3 DEF UpdateMember
  <2> HIDE DEF r
  <2> QED BY <2>1, <2>2, OnProjectMoves DEF ProjectOps
<1>4. ASSUME NEW p \in Projects, NEW v \in Users,
             RemoveMember(c, u, p, v)
      PROVE  Perm
  <2> DEFINE r == [Request("remove") EXCEPT !.project = p, !.user = v]
  <2>1. r \in CallType /\ r.op = "remove" /\ r.project = p /\ r.user \in Users
    BY <1>c, AccessAssumption DEF Request, Idle, CallType, Routes, AccessAssumption
  <2>2. OnProject(c, u, r)
    BY <1>4 DEF RemoveMember
  <2> HIDE DEF r
  <2> QED BY <2>1, <2>2, OnProjectMoves DEF ProjectOps
<1>5. ASSUME NEW p \in Projects,
             DeleteProject(c, u, p)
      PROVE  Perm
  <2> DEFINE r == [Request("delete") EXCEPT !.project = p]
  <2>1. r \in CallType /\ r.op = "delete" /\ r.project = p
    BY <1>c, AccessAssumption DEF Request, Idle, CallType, Routes, AccessAssumption
  <2>2. OnProject(c, u, r)
    BY <1>5 DEF DeleteProject
  <2> HIDE DEF r
  <2> QED BY <2>1, <2>2, OnProjectMoves DEF ProjectOps
<1>6. ASSUME NEW p \in Projects, NEW g \in Groups,
             CreateGroup(c, u, p, g)
      PROVE  Perm
  <2> DEFINE r == [Request("newgroup") EXCEPT !.project = p, !.group = g]
  <2>1. r \in CallType /\ r.op = "newgroup" /\ r.project = p
    BY <1>c, AccessAssumption DEF Request, Idle, CallType, Routes, AccessAssumption
  <2>2. OnProject(c, u, r)
    BY <1>6 DEF CreateGroup
  <2> HIDE DEF r
  <2> QED BY <2>1, <2>2, OnProjectMoves DEF ProjectOps
<1>7. ASSUME NEW p \in Projects, NEW g \in Groups,
             DeleteGroup(c, u, p, g)
      PROVE  Perm
  <2> DEFINE r == [Request("delgroup") EXCEPT !.project = p, !.group = g]
  <2>1. r \in CallType /\ r.op = "delgroup" /\ r.project = p
    BY <1>c, AccessAssumption DEF Request, Idle, CallType, Routes, AccessAssumption
  <2>2. OnProject(c, u, r)
    BY <1>7 DEF DeleteGroup
  <2> HIDE DEF r
  <2> QED BY <2>1, <2>2, OnProjectMoves DEF ProjectOps
<1>8. ASSUME NEW p \in Projects, NEW g \in Groups, NEW v \in Users,
             AddGroupMember(c, u, p, g, v)
      PROVE  Perm
  <2> DEFINE r == [Request("join") EXCEPT !.project = p, !.group = g, !.user = v]
  <2>1. r \in CallType /\ r.op = "join" /\ r.project = p /\ r.user \in Users
    BY <1>c, AccessAssumption DEF Request, Idle, CallType, Routes, AccessAssumption
  <2>2. OnProject(c, u, r)
    BY <1>8 DEF AddGroupMember
  <2> HIDE DEF r
  <2> QED BY <2>1, <2>2, OnProjectMoves DEF ProjectOps
<1>9. ASSUME NEW p \in Projects, NEW g \in Groups, NEW v \in Users,
             RemoveGroupMember(c, u, p, g, v)
      PROVE  Perm
  <2> DEFINE r == [Request("leave") EXCEPT !.project = p, !.group = g, !.user = v]
  <2>1. r \in CallType /\ r.op = "leave" /\ r.project = p /\ r.user \in Users
    BY <1>c, AccessAssumption DEF Request, Idle, CallType, Routes, AccessAssumption
  <2>2. OnProject(c, u, r)
    BY <1>9 DEF RemoveGroupMember
  <2> HIDE DEF r
  <2> QED BY <2>1, <2>2, OnProjectMoves DEF ProjectOps
<1>10. ASSUME NEW v \in Users, Offboard(c, u, v)
      PROVE  /\ CallsTyped' /\ \A d \in Calls \ {c} : call'[d] = call[d]
             /\ call'[c].pc = "outrank"
  <2> DEFINE r == [Request("offboard") EXCEPT !.user = v]
  <2>1. r \in CallType /\ r.op \notin ProjectOps /\ r.user \in Users
    BY <1>c DEF Request, Idle, CallType, ProjectOps, Routes
  <2>2. Begin(c, "outrank", u, r)
    BY <1>10 DEF Offboard
  <2> HIDE DEF r
  <2> QED BY <2>1, <2>2, <1>a, <1>b, BeginMoves DEF ProjectOps
<1>11. ASSUME IssueToken(c, u)
      PROVE  /\ CallsTyped' /\ \A d \in Calls \ {c} : call'[d] = call[d]
             /\ call'[c].pc = "issue"
  <2>1. Request("issue") \in CallType /\ Request("issue").op \notin ProjectOps
    BY <1>c DEF Request, Idle, CallType, ProjectOps, Routes
  <2>2. Begin(c, "issue", u, Request("issue"))
    BY <1>11 DEF IssueToken
  <2> QED BY <2>1, <2>2, <1>a, <1>b, BeginMoves DEF ProjectOps
<1>12. /\ call[c].pc = "idle"
      /\ UNCHANGED <<org, project, access, login, off, hist>>
  <2>1. ASSUME NEW pc, NEW r, Begin(c, pc, u, r) PROVE call[c].pc = "idle"
    BY <2>1 DEF Begin, At
  <2>2. CASE \E r : OnProject(c, u, r)
    BY <2>1, <2>2 DEF OnProject
  <2>3. CASE \E p \in Projects, s \in BOOLEAN : CreateProject(c, u, p, s)
    BY <2>1, <2>3 DEF CreateProject
  <2>4. CASE IssueToken(c, u) \/ \E v \in Users : Offboard(c, u, v)
    BY <2>1, <2>4 DEF IssueToken, Offboard
  <2> QED BY <2>2, <2>3, <2>4
          DEF Arrive, AddMember, UpdateMember, RemoveMember, DeleteProject, CreateGroup,
              DeleteGroup, AddGroupMember, RemoveGroupMember
<1>13. /\ CallsTyped' /\ \A d \in Calls \ {c} : call'[d] = call[d]
       /\ call'[c].pc \in {"perm", "org", "insert", "outrank", "issue"}
  BY <1>1, <1>2, <1>3, <1>4, <1>5, <1>6, <1>7, <1>8, <1>9, <1>10, <1>11 DEF Arrive
<1> QED BY <1>12, <1>13

-----------------------------------------------------------------------------
(* Types                                                                   *)

(* A request moves outside of an offboarding, and to the assignment of a   *)
(* role only below that of its caller.                                     *)
Moved(c) ==
    /\ CallsTyped'
    /\ \A d \in Calls \ {c} : call'[d] = call[d]
    /\ call[c].pc \notin OffStages /\ call'[c].pc \notin OffStages
    /\ call'[c].pc = "assign" => call'[c].role # "Owner"

(* A request that returns is no statement of an offboarding.               *)
LEMMA ReturnMoved ==
    ASSUME CallsTyped, NEW c \in Calls, Return(c), call[c].pc \notin OffStages
    PROVE  Moved(c)
<1>1. CallsTyped' /\ call'[c].pc = "idle" /\ \A d \in Calls \ {c} : call'[d] = call[d]
  BY ReturnMoves, IdleTyped
<1>2. "idle" \notin OffStages
  BY DEF OffStages
<1> QED BY <1>1, <1>2 DEF Moved

(* Nor is one that goes on outside of an offboarding; it assigns no Owner. *)
LEMMA GotoMoved ==
    ASSUME CallsTyped, NEW c \in Calls, call[c].pc # "idle", call[c].pc \notin OffStages,
           NEW pc \in Stages, pc \notin OffStages, Goto(c, pc),
           pc \in {"perm", "role"} => call[c].op \in ProjectOps,
           pc = "regrant" => call[c].op = "regrant",
           pc \in {"outrank", "pending"} => call[c].user \in Users,
           pc = "assign" => call[c].role # "Owner"
    PROVE  Moved(c)
<1>1. /\ CallsTyped' /\ \A d \in Calls \ {c} : call'[d] = call[d]
      /\ call'[c].pc = pc /\ call'[c].role = call[c].role
  BY GotoMoves
<1> QED BY <1>1 DEF Moved

(* What a request does once its organization is found.                     *)
LEMMA AfterOrgStage ==
    ASSUME NEW c \in Calls
    PROVE  /\ AfterOrg(c) \in Stages /\ AfterOrg(c) \notin OffStages
           /\ AfterOrg(c) \notin {"perm", "role", "regrant", "outrank", "pending", "assign"}
  BY DEF AfterOrg, Stages, OffStages

(* A request that found or made its organization.                          *)
LEMMA FoundOrgMoved ==
    ASSUME CallsTyped, NEW c \in Calls, call[c].pc # "idle", call[c].pc \notin OffStages,
           NEW o \in Orgs, call' = [call EXCEPT ![c].pc = AfterOrg(c), ![c].org = o]
    PROVE  Moved(c)
<1> DEFINE q == [call[c] EXCEPT !.pc = AfterOrg(c), !.org = o]
<1>1. call[c] \in CallType /\ CallOK(call[c])
  BY DEF CallsTyped
<1>2. call' = [call EXCEPT ![c] = q]
  BY DEF CallsTyped
<1>3. /\ q \in CallType /\ q.pc = AfterOrg(c) /\ q.op = call[c].op /\ q.by = call[c].by
      /\ q.project = call[c].project /\ q.user = call[c].user
  BY <1>1, AfterOrgStage DEF CallType
<1> HIDE DEF q
<1>4. CallOK(q)
  BY <1>1, <1>3, AfterOrgStage DEF CallOK
<1>5. CallsTyped' /\ call'[c] = q /\ \A d \in Calls \ {c} : call'[d] = call[d]
  BY <1>2, <1>4, Moves
<1> QED BY <1>3, <1>5, AfterOrgStage DEF Moved

(* The checks between statements change nothing but their request.         *)
LEMMA CheckMoved ==
    ASSUME Typed, NEW c \in Calls,
           \/ CheckPermission(c) \/ CheckRole(c) \/ ReadGrant(c) \/ FindOrg(c)
           \/ MayCreate(c) \/ CheckRank(c) \/ FindGroup(c) \/ CheckOutranks(c)
    PROVE  Moved(c) /\ UNCHANGED <<org, project, access, login, off, spent, count, hist>>
<1>u. UNCHANGED <<org, project, access, login, off, spent, count, hist>>
  BY DEF CheckPermission, CheckRole, ReadGrant, FindOrg, MayCreate, CheckRank, FindGroup,
         CheckOutranks
<1> SUFFICES Moved(c)
  BY <1>u
<1>a. CallsTyped /\ call[c] \in CallType /\ CallOK(call[c])
  BY DEF Typed, CallsTyped
<1>b. ASSUME call[c].op \in ProjectOps
      PROVE  /\ AfterCheck(c) \in Stages /\ AfterCheck(c) \notin OffStages
             /\ AfterCheck(c) \notin {"perm", "role", "outrank", "pending", "assign"}
             /\ AfterCheck(c) = "regrant" => call[c].op = "regrant"
  BY <1>b DEF AfterCheck, Stages, ProjectOps, OffStages
<1>d. \A pc \in {"perm", "role", "regrant", "org", "may", "rank", "join", "outrank", "neworg",
                 "insert", "assign", "joining", "pending", "grant"} :
        pc # "idle" /\ pc \in Stages /\ pc \notin OffStages
  BY DEF Stages, OffStages
<1>1. CASE CheckPermission(c) \/ CheckRole(c)
  <2>1. call[c].pc \in {"perm", "role"} /\ call[c].op \in ProjectOps
    BY <1>1, <1>a DEF CheckPermission, CheckRole, At, CallOK
  <2>2. call[c].pc # "idle" /\ call[c].pc \notin OffStages
    BY <2>1, <1>d
  <2>3. Goto(c, AfterCheck(c)) \/ Goto(c, "role") \/ Return(c)
    BY <1>1 DEF CheckPermission, CheckRole
  <2>4. CASE Goto(c, AfterCheck(c))
    BY <2>1, <2>2, <2>4, <1>a, <1>b, GotoMoved
  <2>5. CASE Goto(c, "role")
    BY <2>1, <2>2, <2>5, <1>a, <1>d, GotoMoved
  <2>6. CASE Return(c)
    BY <2>2, <2>6, <1>a, ReturnMoved
  <2> QED BY <2>3, <2>4, <2>5, <2>6
<1>2. CASE ReadGrant(c)
  <2> DEFINE old == grant[<<call[c].project, call[c].user>>]
             pc == IF call[c].role = None THEN "grant" ELSE "org"
             perm == IF call[c].perm = None THEN old ELSE call[c].perm
             q == [call[c] EXCEPT !.pc = pc, !.perm = perm]
  <2>1. call[c].pc = "regrant" /\ call[c].op = "regrant" /\ call[c].pc \notin OffStages
    BY <1>2, <1>a, <1>d DEF ReadGrant, At, CallOK
  <2>2. CASE old = None
    BY <1>2, <2>1, <2>2, <1>a, ReturnMoved DEF ReadGrant
  <2>3. CASE old # None
    <3>1. call' = [call EXCEPT ![c] = q]
      BY <1>2, <2>3, <1>a DEF ReadGrant, CallsTyped
    <3>2. call[c].project \in Projects /\ call[c].user \in Users
      BY <2>1, <1>a DEF CallOK, ProjectOps
    <3>3. old \in Perms \cup {None}
      BY <3>2 DEF Typed, TablesTyped
    <3>4. /\ pc \in Stages /\ perm \in Perms \cup {None} /\ pc \in {"grant", "org"}
          /\ pc \notin OffStages
      BY <3>3, <1>a, <1>d DEF CallType
    <3> HIDE DEF pc, perm
    <3>5. /\ q \in CallType /\ q.pc = pc /\ q.op = call[c].op /\ q.by = call[c].by
          /\ q.project = call[c].project /\ q.user = call[c].user
      BY <3>4, <1>a DEF CallType
    <3> HIDE DEF q
    <3>6. CallOK(q)
      BY <2>1, <3>4, <3>5, <1>a DEF CallOK
    <3>7. CallsTyped' /\ call'[c] = q /\ \A d \in Calls \ {c} : call'[d] = call[d]
      BY <3>1, <3>6, <1>a, Moves
    <3> QED BY <2>1, <3>4, <3>5, <3>7 DEF Moved
  <2> QED BY <2>2, <2>3
<1>3. CASE FindOrg(c)
  <2>1. call[c].pc = "org" /\ call[c].pc # "idle" /\ call[c].pc \notin OffStages
    BY <1>3, <1>d DEF FindOrg, At
  <2>2. CASE Goto(c, AfterOrg(c))
    BY <2>1, <2>2, <1>a, AfterOrgStage, GotoMoved
  <2>3. CASE Goto(c, "neworg")
    BY <2>1, <2>3, <1>a, <1>d, GotoMoved
  <2>4. ASSUME NEW o \in Orgs, call' = [call EXCEPT ![c].pc = AfterOrg(c), ![c].org = o]
        PROVE Moved(c)
    BY <2>1, <2>4, <1>a, FoundOrgMoved
  <2> QED BY <1>3, <2>2, <2>3, <2>4 DEF FindOrg, OrgsOf
<1>4. CASE CheckRank(c)
  <2>1. call[c].pc = "rank" /\ call[c].pc # "idle" /\ call[c].pc \notin OffStages
    BY <1>4, <1>d DEF CheckRank, At
  <2>2. RoleOf(call[c].org, call[c].by) \in Roles
    <3>1. call[c].by \in Users /\ call[c].org \in Orgs \cup {None}
      BY <2>1, <1>a DEF CallOK, CallType
    <3> QED BY <3>1 DEF RoleOf, Typed, TablesTyped, Roles
  <2>3. EnforceRoleRank(RoleOf(call[c].org, call[c].by), call[c].role) => call[c].role # "Owner"
    <3>1. ASSUME NEW m \in Roles PROVE ~EnforceRoleRank(m, "Owner")
      BY DEF EnforceRoleRank, Rank, Roles
    <3> QED BY <2>2, <3>1
  <2>4. Return(c) \/ (Goto(c, "assign") /\ call[c].role # "Owner")
    BY <1>4, <2>3 DEF CheckRank
  <2> QED BY <2>1, <2>4, <1>a, <1>d, GotoMoved, ReturnMoved
<1>5. CASE MayCreate(c) \/ FindGroup(c) \/ CheckOutranks(c)
  <2>1. /\ call[c].pc \in {"may", "join", "outrank"}
        /\ \/ Return(c) \/ Goto(c, "insert") \/ Goto(c, "joining")
           \/ (Goto(c, "pending") /\ call[c].pc = "outrank")
    BY <1>5 DEF MayCreate, FindGroup, CheckOutranks, At
  <2>2. call[c].pc # "idle" /\ call[c].pc \notin OffStages
    BY <2>1, <1>d
  <2>3. call[c].pc = "outrank" => call[c].user \in Users
    BY <1>a DEF CallOK
  <2> QED BY <2>1, <2>2, <2>3, <1>a, <1>d, GotoMoved, ReturnMoved
<1> QED BY <1>1, <1>2, <1>3, <1>4, <1>5

(* So do the statements that write outside of an offboarding.              *)
LEMMA WriteMoved ==
    ASSUME Typed, NEW c \in Calls,
           \/ EnsureOrg(c) \/ Insert(c) \/ Assign(c) \/ WriteGrant(c) \/ WriteRemoval(c)
           \/ WriteDeletion(c) \/ WriteGroup(c) \/ WriteGroupGrant(c)
           \/ WriteGroupDeletion(c) \/ WriteJoin(c) \/ WriteLeave(c) \/ WriteToken(c)
    PROVE  Moved(c)
<1>a. CallsTyped
  BY DEF Typed
<1>b. \A pc \in {"neworg", "insert", "assign", "grant", "remove", "delete", "group", "view",
                 "delgroup", "joining", "leave", "issue"} :
        pc # "idle" /\ pc \in Stages /\ pc \notin OffStages
  BY DEF Stages, OffStages
<1>1. CASE EnsureOrg(c)
  <2>1. call[c].pc # "idle" /\ call[c].pc \notin OffStages
    BY <1>1, <1>b DEF EnsureOrg, At
  <2>2. PICK o \in Orgs : call' = [call EXCEPT ![c].pc = AfterOrg(c), ![c].org = o]
    BY <1>1 DEF EnsureOrg
  <2> QED BY <2>1, <2>2, <1>a, FoundOrgMoved
<1>2. CASE Assign(c) \/ WriteGroup(c)
  <2>1. /\ call[c].pc # "idle" /\ call[c].pc \notin OffStages
        /\ Goto(c, "grant") \/ Goto(c, "view")
    BY <1>2, <1>b DEF Assign, WriteGroup, At
  <2> QED BY <2>1, <1>a, <1>b, GotoMoved
<1>3. CASE \/ Insert(c) \/ WriteGrant(c) \/ WriteRemoval(c) \/ WriteDeletion(c)
           \/ WriteGroupGrant(c) \/ WriteGroupDeletion(c) \/ WriteJoin(c) \/ WriteLeave(c)
           \/ WriteToken(c)
  <2>1. call[c].pc \notin OffStages /\ Return(c)
    BY <1>3, <1>b DEF Insert, WriteGrant, WriteRemoval, WriteDeletion, WriteGroupGrant,
                     WriteGroupDeletion, WriteJoin, WriteLeave, WriteToken, At
  <2> QED BY <2>1, <1>a, ReturnMoved
<1> QED BY <1>1, <1>2, <1>3

(* An offboarding goes through its stages one by one.                      *)
LEMMA OffboardMoves ==
    ASSUME Typed, NEW c \in Calls, NEW from \in {"pending"} \cup (OffStages \ {"complete"}),
           call[c].pc = from, NEW to \in OffStages, Goto(c, to)
    PROVE  /\ CallsTyped' /\ \A d \in Calls \ {c} : call'[d] = call[d]
           /\ call'[c].pc = to /\ call'[c].user = call[c].user
<1>1. /\ call[c].pc # "idle" /\ to \in Stages
      /\ to \notin {"perm", "role", "regrant", "outrank", "pending"}
  BY DEF OffStages, Stages
<1> QED BY <1>1, GotoMoves DEF Typed

-----------------------------------------------------------------------------
(* Types                                                                   *)

(* The server starts with tables and requests in order.                    *)
LEMMA TypedInit == Init => Typed
<1> SUFFICES ASSUME Init PROVE Typed
  OBVIOUS
<1>1. CallsTyped
  <2>1. Idle \in CallType /\ CallOK(Idle)
    BY IdleTyped DEF CallOK
  <2> QED BY <2>1 DEF Init, CallsTyped
<1>2. TablesTyped
  BY DEF Init, TablesTyped
<1> QED BY <1>1, <1>2 DEF Typed

(* Statements write values of the right kind into the tables.              *)
LEMMA TablesStep ==
    ASSUME Typed, [Next]_vars
    PROVE  TablesTyped'
<1>a. TablesTyped /\ CallsTyped
  BY DEF Typed
<1>b. \A c \in Calls : call[c] \in CallType /\ CallOK(call[c])
  BY <1>a DEF CallsTyped
<1>1. CASE UNCHANGED <<org, project, access>>
  BY <1>1, <1>a DEF TablesTyped, org, access
<1>2. ASSUME NEW c \in Calls, EnsureOrg(c) \/ Assign(c) PROVE TablesTyped'
  <2>1. call[c].role \in Roles \cup {None} /\ "Owner" \in Roles
    BY <1>b DEF CallType, Roles
  <2>2. \E o, u, r : r \in Roles \cup {None} /\ role' = [role EXCEPT ![<<o, u>>] = r]
    <3>1. CASE EnsureOrg(c)
      <4>1. PICK o : role' = [role EXCEPT ![<<o, call[c].by>>] = "Owner"]
        BY <3>1 DEF EnsureOrg, SetOrgMember
      <4> QED BY <2>1, <4>1
    <3>2. CASE Assign(c)
      <4>1. role' = [role EXCEPT ![<<call[c].org, call[c].user>>] = call[c].role]
        BY <3>2 DEF Assign, SetOrgMember
      <4> QED BY <2>1, <4>1
    <3> QED BY <1>2, <3>1, <3>2
  <2>3. UNCHANGED <<project, access>>
    BY <1>2 DEF EnsureOrg, Assign
  <2> QED BY <2>2, <2>3, <1>a DEF TablesTyped, access
<1>3. ASSUME NEW c \in Calls, Insert(c) PROVE TablesTyped'
  <2>1. call[c].by \in Users /\ call[c].org \in Orgs \cup {None}
    BY <1>3, <1>b DEF Insert, At, CallOK, CallType
  <2>2. project' = [project EXCEPT ![call[c].project] = [owner |-> call[c].by, org |-> call[c].org]]
    BY <1>3 DEF Insert, InsertProject
  <2> QED BY <1>3, <2>1, <2>2, <1>a DEF Insert, TablesTyped, org, access
<1>4. ASSUME NEW c \in Calls, WriteGrant(c) \/ WriteRemoval(c) \/ DropGrants(c)
      PROVE TablesTyped'
  <2>1. call[c].perm \in Perms \cup {None}
    BY <1>b DEF CallType
  <2>2. grant' \in [Projects \X Users -> Perms \cup {None}]
    BY <1>4, <2>1, <1>a DEF WriteGrant, WriteRemoval, DropGrants, GrantUser, RemoveGrant,
                           RevokeProjectAccess, TablesTyped
  <2>3. UNCHANGED <<role, project, ggrant>>
    BY <1>4 DEF WriteGrant, WriteRemoval, DropGrants, org
  <2> QED BY <2>2, <2>3, <1>a DEF TablesTyped
<1>5. ASSUME NEW c \in Calls, WriteDeletion(c) PROVE TablesTyped'
  <2>1. /\ project' = [project EXCEPT ![call[c].project] = None]
        /\ grant' = [q \in Projects \X Users |-> IF q[1] = call[c].project THEN None ELSE grant[q]]
        /\ ggrant' = [q \in Projects \X Groups |->
                        IF q[1] = call[c].project THEN None ELSE ggrant[q]]
        /\ role' = role
    BY <1>5 DEF WriteDeletion, RemoveProject, org
  <2> QED BY <2>1, <1>a DEF TablesTyped
<1>6. ASSUME NEW c \in Calls, WriteGroupGrant(c) PROVE TablesTyped'
  <2>1. "CanView" \in Perms
    BY DEF Perms
  <2> QED BY <1>6, <2>1, <1>a DEF WriteGroupGrant, GrantGroup, TablesTyped, org
<1>7. ASSUME NEW c \in Calls, WriteGroupDeletion(c) PROVE TablesTyped'
  BY <1>7, <1>a DEF WriteGroupDeletion, DeleteUserGroup, TablesTyped, org
<1>8. ASSUME NEW c \in Calls, DropRoles(c) PROVE TablesTyped'
  BY <1>8, <1>a DEF DropRoles, RevokeOrgMemberships, TablesTyped, access
<1>9. ASSUME NEW c \in Calls,
             WriteGroup(c) \/ WriteJoin(c) \/ WriteLeave(c) \/ DropMemberships(c)
      PROVE TablesTyped'
  BY <1>9, <1>a DEF WriteGroup, WriteJoin, WriteLeave, DropMemberships, TablesTyped, org
<1>10. ASSUME NEW c \in Calls,
              \/ RecordOffboarding(c) \/ DropSessions(c) \/ DropKeys(c) \/ DropTokens(c)
              \/ Complete(c) \/ WriteToken(c)
       PROVE TablesTyped'
  BY <1>1, <1>10 DEF RecordOffboarding, DropSessions, DropKeys, DropTokens, Complete, WriteToken
<1>11. ASSUME NEW u \in Users, SignIn(u) PROVE TablesTyped'
  BY <1>1, <1>11 DEF SignIn
<1>12. CASE Restart
  BY <1>1, <1>12 DEF Restart
<1>13. CASE UNCHANGED vars
  BY <1>1, <1>13 DEF vars
<1>14. ASSUME NEW c \in Calls, NEW u \in Users, Arrive(c, u) PROVE TablesTyped'
  BY <1>1, <1>14, ArriveMoves
<1>15. ASSUME NEW c \in Calls,
              \/ CheckPermission(c) \/ CheckRole(c) \/ ReadGrant(c) \/ FindOrg(c)
              \/ MayCreate(c) \/ CheckRank(c) \/ FindGroup(c) \/ CheckOutranks(c)
       PROVE TablesTyped'
  BY <1>1, <1>15, CheckMoved
<1> QED
  BY <1>2, <1>3, <1>4, <1>5, <1>6, <1>7, <1>8, <1>9, <1>10, <1>11, <1>12, <1>13, <1>14, <1>15
     DEF Next, Step

-----------------------------------------------------------------------------
(* One Owner                                                               *)

(* Two Owners of an organization are the same user, an organization that   *)
(* is not made yet has none, and no request is about to make a second one. *)
OwnerInv ==
    /\ \A o \in Orgs, u, v \in Users :
         role[<<o, u>>] = "Owner" /\ role[<<o, v>>] = "Owner" => u = v
    /\ \A o \in Orgs \ orgs, u \in Users : role[<<o, u>>] # "Owner"
    /\ \A c \in Calls : call[c].pc = "assign" => call[c].role # "Owner"

-----------------------------------------------------------------------------
(* Offboarding                                                             *)

(* What an offboarding at this stage has taken from the user.              *)
Stripped(u, pc) ==
    /\ pc # "grants" => \A p \in Projects : grant[<<p, u>>] = None
    /\ pc \notin {"grants", "members"} => \A m \in member : m[2] # u
    /\ pc \notin {"grants", "members", "sessions"} => u \notin sessions
    /\ pc \notin {"grants", "members", "sessions", "roles"} =>
         \A o \in Orgs : role[<<o, u>>] = None
    /\ pc \in {"tokens", "complete", "idle"} => u \notin keys
    /\ pc \in {"complete", "idle"} => u \notin creds

(* An offboarding that nothing was given against has taken what its        *)
(* earlier statements take, and a completed one everything.                *)
OffInv ==
    /\ clean \subseteq Calls
    /\ \A c \in clean : /\ call[c].pc \in OffStages /\ call[c].user \in Users
                        /\ Stripped(call[c].user, call[c].pc)
    /\ \A u \in revoked : u \in Users /\ Stripped(u, "idle")

(* The inductive invariant of projects and organizations.                  *)
AccessInv == Typed /\ OwnerInv /\ OffInv

(* No organization has a member at the start, so that there is no second   *)
(* Owner.                                                                  *)
LEMMA AccessInit == Init => AccessInv
<1> SUFFICES ASSUME Init PROVE AccessInv
  OBVIOUS
<1>1. \A o \in Orgs, u \in Users : role[<<o, u>>] = None
  BY DEF Init
<1>2. OwnerInv
  BY <1>1, IdleTyped, AccessAssumption DEF OwnerInv, Init, AccessAssumption, Roles
<1>3. OffInv
  BY DEF OffInv, Init
<1> QED BY <1>2, <1>3, TypedInit DEF AccessInv

(* Nothing is given to the user by the step.                               *)
Kept(v) ==
    /\ \A p \in Projects : grant[<<p, v>>] = None => grant'[<<p, v>>] = None
    /\ \A m \in member' \ member : m[2] # v
    /\ \A o \in Orgs : role[<<o, v>>] = None => role'[<<o, v>>] = None
    /\ v \in sessions' => v \in sessions
    /\ v \in keys' => v \in keys
    /\ v \in creds' => v \in creds

(* A user to whom nothing is given keeps having nothing.                   *)
LEMMA KeptStripped ==
    ASSUME NEW v, Kept(v), NEW pc, Stripped(v, pc)
    PROVE  Stripped(v, pc)'
  BY DEF Kept, Stripped

(* A statement outside of an offboarding that gives something only to      *)
(* users whose offboardings are no longer counted as clean.                *)
LEMMA OffGiven ==
    ASSUME OffInv, NEW c \in Calls, Moved(c), NEW T,
           clean' \subseteq {d \in clean : call[d].user \notin T},
           revoked' \subseteq revoked \ T,
           \A v \in Users \ T : Kept(v)
    PROVE  OffInv'
<1>1. clean' \subseteq Calls
  BY DEF OffInv
<1>2. ASSUME NEW d \in clean'
      PROVE  /\ call'[d].pc \in OffStages /\ call'[d].user \in Users
             /\ Stripped(call[d].user, call[d].pc)'
  <2>1. d \in clean /\ d \in Calls /\ d # c /\ call[d].user \notin T
    BY DEF OffInv, Moved
  <2>2. call'[d] = call[d]
    BY <2>1 DEF Moved
  <2>3. call[d].pc \in OffStages /\ call[d].user \in Users /\ Stripped(call[d].user, call[d].pc)
    BY <2>1 DEF OffInv
  <2>4. Kept(call[d].user)
    BY <2>1, <2>3
  <2>5. \A u, pc : Kept(u) /\ Stripped(u, pc) => Stripped(u, pc)'
    BY KeptStripped
  <2> QED BY <2>2, <2>3, <2>4, <2>5 DEF Stripped
<1>3. ASSUME NEW u \in revoked' PROVE u \in Users /\ Stripped(u, "idle")'
  <2>1. u \in Users /\ u \notin T /\ Stripped(u, "idle")
    BY DEF OffInv
  <2> QED BY <2>1, KeptStripped
<1> QED BY <1>1, <1>2, <1>3 DEF OffInv

(* A statement of an offboarding takes something more from its user.       *)
LEMMA OffTaken ==
    ASSUME OffInv, NEW c \in Calls, \A d \in Calls \ {c} : call'[d] = call[d],
           UNCHANGED hist, \A v \in Users : Kept(v),
           NEW u, NEW to \in OffStages, call'[c].pc = to, call[c].user = u, call'[c].user = u,
           u \in Users /\ Stripped(u, call[c].pc) => Stripped(u, to)'
    PROVE  OffInv'
<1>1. clean' = clean /\ revoked' = revoked /\ clean \subseteq Calls
  BY DEF OffInv, hist
<1>2. ASSUME NEW d \in clean
      PROVE  /\ call'[d].pc \in OffStages /\ call'[d].user \in Users
             /\ Stripped(call[d].user, call[d].pc)'
  <2>1. /\ d \in Calls /\ call[d].pc \in OffStages /\ call[d].user \in Users
        /\ Stripped(call[d].user, call[d].pc)
    BY <1>1 DEF OffInv
  <2>2. CASE d = c
    <3>1. u \in Users /\ Stripped(u, to)'
      BY <2>1, <2>2
    <3> QED BY <2>1, <2>2, <3>1 DEF Stripped
  <2>3. CASE d # c
    <3>1. call'[d] = call[d]
      BY <2>1, <2>3
    <3>2. Kept(call[d].user)
      BY <2>1
    <3>3. PICK v, pc : v = call[d].user /\ pc = call[d].pc
      OBVIOUS
    <3>4. Stripped(v, pc)'
      BY <2>1, <3>2, <3>3, KeptStripped
    <3> QED BY <2>1, <3>1, <3>3, <3>4 DEF Stripped
  <2> QED BY <2>2, <2>3
<1>3. ASSUME NEW v \in revoked PROVE v \in Users /\ Stripped(v, "idle")'
  BY KeptStripped DEF OffInv
<1> QED BY <1>1, <1>2, <1>3 DEF OffInv

(* A request that moves without a change of roles keeps the Owners.        *)
LEMMA OwnerMoved ==
    ASSUME OwnerInv, NEW c \in Calls, \A d \in Calls \ {c} : call'[d] = call[d],
           call'[c].pc = "assign" => call'[c].role # "Owner", UNCHANGED org
    PROVE  OwnerInv'
  BY DEF OwnerInv, org

(* Statements that give something to a user say so.                        *)
LEMMA WritesKeep ==
    ASSUME AccessInv, NEW c \in Calls,
           \/ EnsureOrg(c) \/ Insert(c) \/ Assign(c) \/ WriteGrant(c) \/ WriteRemoval(c)
           \/ WriteDeletion(c) \/ WriteGroup(c) \/ WriteGroupGrant(c)
           \/ WriteGroupDeletion(c) \/ WriteJoin(c) \/ WriteLeave(c) \/ WriteToken(c)
    PROVE  CallsTyped' /\ OwnerInv' /\ OffInv'
<1>a. Typed /\ OwnerInv /\ OffInv /\ CallsTyped /\ TablesTyped
  BY DEF AccessInv, Typed
<1>b. Moved(c)
  BY <1>a, WriteMoved
<1>c. CallsTyped' /\ (\A d \in Calls \ {c} : call'[d] = call[d])
      /\ (call'[c].pc = "assign" => call'[c].role # "Owner")
  BY <1>b DEF Moved
<1>d. UNCHANGED org => OwnerInv'
  BY <1>a, <1>c, OwnerMoved
<1>e. ASSUME UNCHANGED hist, \A v \in Users : Kept(v) PROVE OffInv'
  BY <1>a, <1>b, <1>e, OffGiven DEF hist
<1>f. ASSUME NEW u, Touch(u), \A v \in Users \ {u} : Kept(v) PROVE OffInv'
  <2>1. clean' \subseteq {d \in clean : call[d].user \notin {u}} /\ revoked' \subseteq revoked \ {u}
    BY <1>f DEF Touch
  <2> QED BY <1>a, <1>b, <1>f, <2>1, OffGiven
<1>1. CASE EnsureOrg(c)
  <2>1. PICK o \in Orgs \ orgs :
          orgs' = orgs \cup {o} /\ role' = [role EXCEPT ![<<o, call[c].by>>] = "Owner"]
    BY <1>1 DEF EnsureOrg, SetOrgMember
  <2>2. \A q \in Orgs, v \in Users :
          role'[<<q, v>>] = IF q = o /\ v = call[c].by THEN "Owner" ELSE role[<<q, v>>]
    BY <2>1, <1>a DEF TablesTyped
  <2>3. OwnerInv'
    BY <2>1, <2>2, <1>a, <1>c DEF OwnerInv
  <2>4. \A v \in Users \ {call[c].by} : Kept(v)
    BY <1>1, <2>2 DEF EnsureOrg, Kept, access, login
  <2> QED BY <1>1, <2>3, <2>4, <1>c, <1>f DEF EnsureOrg
<1>2. CASE Assign(c)
  <2>1. \A q \in Orgs, v \in Users :
          role'[<<q, v>>] = IF q = call[c].org /\ v = call[c].user THEN call[c].role
                            ELSE role[<<q, v>>]
    BY <1>2, <1>a DEF Assign, SetOrgMember, TablesTyped
  <2>2. call[c].role # "Owner" /\ orgs' = orgs
    BY <1>2, <1>a DEF Assign, At, OwnerInv
  <2>3. OwnerInv'
    BY <2>1, <2>2, <1>a, <1>c DEF OwnerInv
  <2>4. \A v \in Users \ {call[c].user} : Kept(v)
    BY <1>2, <2>1 DEF Assign, Kept, access, login
  <2> QED BY <1>2, <2>3, <2>4, <1>c, <1>f DEF Assign
<1>3. CASE WriteGrant(c)
  <2>1. UNCHANGED <<org, member, login>>
    BY <1>3 DEF WriteGrant
  <2>2. CASE project[call[c].project] = None
    <3>1. UNCHANGED <<grant, hist>>
      BY <1>3, <2>2 DEF WriteGrant
    <3>2. \A v \in Users : Kept(v)
      BY <2>1, <3>1 DEF Kept, org, login
    <3> QED BY <2>1, <3>1, <3>2, <1>c, <1>d, <1>e
  <2>3. CASE project[call[c].project] # None
    <3>1. /\ grant' = [grant EXCEPT ![<<call[c].project, call[c].user>>] = call[c].perm]
          /\ Touch(call[c].user)
      BY <1>3, <2>3 DEF WriteGrant, GrantUser
    <3>2. \A p \in Projects, v \in Users \ {call[c].user} : grant'[<<p, v>>] = grant[<<p, v>>]
      BY <3>1, <1>a DEF TablesTyped
    <3>3. \A v \in Users \ {call[c].user} : Kept(v)
      BY <2>1, <3>2 DEF Kept, org, login
    <3> QED BY <2>1, <3>1, <3>3, <1>c, <1>d, <1>f
  <2> QED BY <2>2, <2>3
<1>4. CASE WriteRemoval(c)
  <2>1. grant' = [grant EXCEPT ![<<call[c].project, call[c].user>>] = None]
    BY <1>4 DEF WriteRemoval, RemoveGrant
  <2>2. \A p \in Projects, v \in Users : grant'[<<p, v>>] \in {None, grant[<<p, v>>]}
    BY <2>1, <1>a DEF TablesTyped
  <2>3. \A v \in Users : Kept(v)
    BY <1>4, <2>2 DEF WriteRemoval, Kept, org, login
  <2> QED BY <1>4, <2>3, <1>c, <1>d, <1>e DEF WriteRemoval
<1>5. CASE WriteDeletion(c)
  <2>1. grant' = [q \in Projects \X Users |-> IF q[1] = call[c].project THEN None ELSE grant[q]]
    BY <1>5 DEF WriteDeletion, RemoveProject
  <2>2. \A p \in Projects, v \in Users : grant'[<<p, v>>] \in {None, grant[<<p, v>>]}
    BY <2>1
  <2>3. \A v \in Users : Kept(v)
    BY <1>5, <2>2 DEF WriteDeletion, Kept, org, login
  <2> QED BY <1>5, <2>3, <1>c, <1>d, <1>e DEF WriteDeletion
<1>6. CASE Insert(c) \/ WriteGroup(c) \/ WriteGroupGrant(c)
  <2>1. UNCHANGED <<org, grant, member, login, hist>>
    BY <1>6 DEF Insert, WriteGroup, WriteGroupGrant, access
  <2>2. \A v \in Users : Kept(v)
    BY <2>1 DEF Kept, org, login
  <2> QED BY <2>1, <2>2, <1>c, <1>d, <1>e
<1>7. CASE WriteGroupDeletion(c) \/ WriteLeave(c)
  <2>1. UNCHANGED <<org, grant, login, hist>> /\ member' \subseteq member
    BY <1>7 DEF WriteGroupDeletion, DeleteUserGroup, WriteLeave, RemoveUserGroupMember
  <2>2. \A v \in Users : Kept(v)
    BY <2>1 DEF Kept, org, login
  <2> QED BY <2>1, <2>2, <1>c, <1>d, <1>e
<1>8. CASE WriteJoin(c)
  <2>1. UNCHANGED <<org, grant, login>>
    BY <1>8 DEF WriteJoin
  <2>2. CASE call[c].group \in groups
    <3>1. member' = member \cup {<<call[c].group, call[c].user>>} /\ Touch(call[c].user)
      BY <1>8, <2>2 DEF WriteJoin, AddUserGroupMember
    <3>2. \A v \in Users \ {call[c].user} : Kept(v)
      BY <2>1, <3>1 DEF Kept, org, login
    <3> QED BY <2>1, <3>1, <3>2, <1>c, <1>d, <1>f
  <2>3. CASE call[c].group \notin groups
    <3>1. UNCHANGED <<member, hist>>
      BY <1>8, <2>3 DEF WriteJoin
    <3>2. \A v \in Users : Kept(v)
      BY <2>1, <3>1 DEF Kept, org, login
    <3> QED BY <2>1, <3>1, <3>2, <1>c, <1>d, <1>e
  <2> QED BY <2>2, <2>3
<1>9. CASE WriteToken(c)
  <2>1. UNCHANGED <<org, grant, member, sessions, keys>> /\ creds' = creds \cup {call[c].by}
    BY <1>9 DEF WriteToken, access
  <2>2. \A v \in Users \ {call[c].by} : Kept(v)
    BY <2>1 DEF Kept, org
  <2> QED BY <1>9, <2>1, <2>2, <1>c, <1>d, <1>f DEF WriteToken
<1> QED BY <1>1, <1>2, <1>3, <1>4, <1>5, <1>6, <1>7, <1>8, <1>9

(* The statements of an offboarding, in their order.                       *)
LEMMA OffboardKeeps ==
    ASSUME AccessInv, NEW c \in Calls,
           \/ RecordOffboarding(c) \/ DropGrants(c) \/ DropMemberships(c) \/ DropSessions(c)
           \/ DropRoles(c) \/ DropKeys(c) \/ DropTokens(c) \/ Complete(c)
    PROVE  CallsTyped' /\ OwnerInv' /\ OffInv'
<1>a. Typed /\ OwnerInv /\ OffInv /\ CallsTyped /\ TablesTyped /\ CallOK(call[c])
  BY DEF AccessInv, Typed, CallsTyped
<1>b. ASSUME NEW from \in OffStages \ {"complete"}, At(c, from), NEW to \in OffStages, Goto(c, to)
      PROVE  /\ CallsTyped' /\ \A d \in Calls \ {c} : call'[d] = call[d]
             /\ call'[c].pc = to /\ call'[c].user = call[c].user /\ call'[c].pc # "assign"
  BY <1>a, <1>b, OffboardMoves DEF At, OffStages
<1> DEFINE u == call[c].user
<1>1. CASE RecordOffboarding(c)
  <2>1. call[c].pc = "pending" /\ Goto(c, "grants") /\ "grants" \in OffStages
    BY <1>1 DEF RecordOffboarding, At, OffStages
  <2>2. /\ CallsTyped' /\ \A d \in Calls \ {c} : call'[d] = call[d]
        /\ call'[c].pc = "grants" /\ call'[c].user = u
    BY <2>1, <1>a, OffboardMoves
  <2>3. UNCHANGED <<org, access, login, revoked>> /\ clean' = clean \cup {c}
    BY <1>1 DEF RecordOffboarding
  <2>4. u \in Users
    BY <2>1, <1>a DEF CallOK
  <2>5. OwnerInv'
    BY <2>2, <2>3, <1>a, OwnerMoved
  <2>6. \A v, pc : Stripped(v, pc) => Stripped(v, pc)'
    BY <2>3 DEF Stripped, org, access, login
  <2>7. \A v : Stripped(v, "grants")'
    BY DEF Stripped
  <2>8. OffInv'
    <3>1. ASSUME NEW d \in clean, d # c
          PROVE  /\ call'[d].pc \in OffStages /\ call'[d].user \in Users
                 /\ Stripped(call[d].user, call[d].pc)'
      <4>1. /\ d \in Calls /\ call[d].pc \in OffStages /\ call[d].user \in Users
            /\ Stripped(call[d].user, call[d].pc)
        BY <1>a DEF OffInv
      <4>2. PICK v, pc : v = call[d].user /\ pc = call[d].pc
        OBVIOUS
      <4>3. call'[d] = call[d] /\ Stripped(v, pc)'
        BY <2>2, <2>6, <3>1, <4>1, <4>2
      <4> QED BY <4>1, <4>2, <4>3 DEF Stripped
    <3>2. /\ call'[c].pc \in OffStages /\ call'[c].user \in Users
          /\ Stripped(call[c].user, call[c].pc)'
      BY <2>1, <2>2, <2>4 DEF Stripped
    <3> QED BY <2>3, <2>6, <3>1, <3>2, <1>a DEF OffInv
  <2> QED BY <2>2, <2>5, <2>8
<1>2. CASE DropGrants(c)
  <2>1. /\ At(c, "grants") /\ Goto(c, "members")
        /\ "grants" \in OffStages \ {"complete"} /\ "members" \in OffStages
    BY <1>2 DEF DropGrants, OffStages
  <2>2. UNCHANGED <<org, member, login, hist>>
    BY <1>2 DEF DropGrants
  <2>3. \A p \in Projects, v \in Users :
          grant'[<<p, v>>] = IF v = u THEN None ELSE grant[<<p, v>>]
    BY <1>2 DEF DropGrants, RevokeProjectAccess
  <2>4. \A v \in Users : Kept(v)
    BY <2>2, <2>3 DEF Kept, org, login
  <2>5. \A v \in Users : v = u => Stripped(v, "members")'
    BY <2>3 DEF Stripped
  <2> QED BY <2>1, <2>2, <2>4, <2>5, <1>a, <1>b, OwnerMoved, OffTaken
<1>3. CASE DropMemberships(c)
  <2>1. /\ At(c, "members") /\ Goto(c, "sessions")
        /\ "members" \in OffStages \ {"complete"} /\ "sessions" \in OffStages
    BY <1>3 DEF DropMemberships, OffStages
  <2>2. UNCHANGED <<org, grant, login, hist>> /\ member' = {m \in member : m[2] # u}
    BY <1>3 DEF DropMemberships, RevokeGroupMemberships
  <2>3. \A v \in Users : Kept(v)
    BY <2>2 DEF Kept, org, login
  <2>4. \A v : v = u /\ Stripped(v, "members") => Stripped(v, "sessions")'
    BY <2>2 DEF Stripped
  <2>5. Stripped(u, call[c].pc) => Stripped(u, "members")
    BY <2>1 DEF At
  <2> QED BY <2>1, <2>2, <2>3, <2>4, <2>5, <1>a, <1>b, OwnerMoved, OffTaken
<1>4. CASE DropSessions(c)
  <2>1. /\ At(c, "sessions") /\ Goto(c, "roles")
        /\ "sessions" \in OffStages \ {"complete"} /\ "roles" \in OffStages
    BY <1>4 DEF DropSessions, OffStages
  <2>2. UNCHANGED <<org, access, creds, keys, hist>> /\ sessions' = sessions \ {u}
    BY <1>4 DEF DropSessions, RevokeSessions
  <2>3. \A v \in Users : Kept(v)
    BY <2>2 DEF Kept, org, access
  <2>4. \A v : v = u /\ Stripped(v, "sessions") => Stripped(v, "roles")'
    BY <2>2 DEF Stripped, org, access
  <2>5. Stripped(u, call[c].pc) => Stripped(u, "sessions")
    BY <2>1 DEF At
  <2> QED BY <2>1, <2>2, <2>3, <2>4, <2>5, <1>a, <1>b, OwnerMoved, OffTaken
<1>5. CASE DropRoles(c)
  <2>1. /\ At(c, "roles") /\ Goto(c, "keys")
        /\ "roles" \in OffStages \ {"complete"} /\ "keys" \in OffStages
    BY <1>5 DEF DropRoles, OffStages
  <2>2. UNCHANGED <<orgs, access, login, hist>>
    BY <1>5 DEF DropRoles
  <2>3. \A o \in Orgs, v \in Users : role'[<<o, v>>] = IF v = u THEN None ELSE role[<<o, v>>]
    BY <1>5 DEF DropRoles, RevokeOrgMemberships
  <2>4. \A v \in Users : Kept(v)
    BY <2>2, <2>3 DEF Kept, access, login
  <2>5. \A v \in Users : v = u /\ Stripped(v, "roles") => Stripped(v, "keys")'
    BY <2>2, <2>3 DEF Stripped, access, login
  <2>6. Stripped(u, call[c].pc) => Stripped(u, "roles")
    BY <2>1 DEF At
  <2>7. /\ CallsTyped' /\ \A d \in Calls \ {c} : call'[d] = call[d]
        /\ call'[c].pc = "keys" /\ call'[c].user = u /\ call'[c].pc # "assign"
    BY <2>1, <1>b
  <2>8. OwnerInv'
    BY <2>2, <2>3, <2>7, <1>a, AccessAssumption DEF OwnerInv, AccessAssumption, Roles
  <2>9. OffInv'
    BY <2>1, <2>2, <2>4, <2>5, <2>6, <2>7, <1>a, OffTaken
  <2> QED BY <2>7, <2>8, <2>9
<1>6. CASE DropKeys(c)
  <2>1. /\ At(c, "keys") /\ Goto(c, "tokens")
        /\ "keys" \in OffStages \ {"complete"} /\ "tokens" \in OffStages
    BY <1>6 DEF DropKeys, OffStages
  <2>2. UNCHANGED <<org, access, sessions, creds, hist>> /\ keys' = keys \ {u}
    BY <1>6 DEF DropKeys, RevokeSharingKeys
  <2>3. \A v \in Users : Kept(v)
    BY <2>2 DEF Kept, org, access
  <2>4. \A v : v = u /\ Stripped(v, "keys") => Stripped(v, "tokens")'
    BY <2>2 DEF Stripped, org, access
  <2>5. Stripped(u, call[c].pc) => Stripped(u, "keys")
    BY <2>1 DEF At
  <2> QED BY <2>1, <2>2, <2>3, <2>4, <2>5, <1>a, <1>b, OwnerMoved, OffTaken
<1>7. CASE DropTokens(c)
  <2>1. /\ At(c, "tokens") /\ Goto(c, "complete")
        /\ "tokens" \in OffStages \ {"complete"} /\ "complete" \in OffStages
    BY <1>7 DEF DropTokens, OffStages
  <2>2. UNCHANGED <<org, access, sessions, keys, hist>> /\ creds' = creds \ {u}
    BY <1>7 DEF DropTokens, RevokeTokens
  <2>3. \A v \in Users : Kept(v)
    BY <2>2 DEF Kept, org, access
  <2>4. \A v : v = u /\ Stripped(v, "tokens") => Stripped(v, "complete")'
    BY <2>2 DEF Stripped, org, access
  <2>5. Stripped(u, call[c].pc) => Stripped(u, "tokens")
    BY <2>1 DEF At
  <2> QED BY <2>1, <2>2, <2>3, <2>4, <2>5, <1>a, <1>b, OwnerMoved, OffTaken
<1>8. CASE Complete(c)
  <2>1. call[c].pc = "complete" /\ Return(c)
    BY <1>8 DEF Complete, At
  <2>2. UNCHANGED <<org, access, login>>
    BY <1>8 DEF Complete
  <2>3. CallsTyped' /\ call'[c] = Idle /\ \A d \in Calls \ {c} : call'[d] = call[d]
    BY <2>1, <1>a, ReturnMoves
  <2>4. OwnerInv'
    BY <2>2, <2>3, <1>a, IdleTyped, OwnerMoved
  <2>5. \A v, pc : Stripped(v, pc) => Stripped(v, pc)'
    BY <2>2 DEF Stripped, org, access, login
  <2>6. \A v : Stripped(v, "complete") => Stripped(v, "idle")
    BY DEF Stripped
  <2>7. ASSUME NEW d \in clean'
        PROVE  /\ d \in Calls /\ call'[d].pc \in OffStages /\ call'[d].user \in Users
               /\ Stripped(call[d].user, call[d].pc)'
    <3>1. d \in clean /\ d # c
      BY <1>8 DEF Complete
    <3>2. /\ d \in Calls /\ call[d].pc \in OffStages /\ call[d].user \in Users
          /\ Stripped(call[d].user, call[d].pc)
      BY <3>1, <1>a DEF OffInv
    <3>3. PICK v, pc : v = call[d].user /\ pc = call[d].pc
      OBVIOUS
    <3>4. call'[d] = call[d] /\ Stripped(v, pc)'
      BY <2>3, <2>5, <3>1, <3>2, <3>3
    <3> QED BY <3>2, <3>3, <3>4 DEF Stripped
  <2>8. ASSUME NEW v \in revoked' PROVE v \in Users /\ Stripped(v, "idle")'
    <3>1. v \in revoked \/ (v = u /\ c \in clean)
      BY <1>8 DEF Complete
    <3>2. v \in Users /\ Stripped(v, "idle")
      BY <2>1, <2>6, <3>1, <1>a DEF OffInv
    <3> QED BY <2>5, <3>2
  <2> QED BY <2>3, <2>4, <2>7, <2>8 DEF OffInv
<1> QED BY <1>1, <1>2, <1>3, <1>4, <1>5, <1>6, <1>7, <1>8

(* The inductive invariant of every request and every restart.             *)
LEMMA AccessInvariant == Spec => []AccessInv
<1>1. Init => AccessInv
  BY AccessInit
<1>2. AccessInv /\ [Next]_vars => AccessInv'
  <2> SUFFICES ASSUME AccessInv, [Next]_vars PROVE AccessInv'
    OBVIOUS
  <2>a. Typed /\ OwnerInv /\ OffInv /\ CallsTyped
    BY DEF AccessInv, Typed
  <2> SUFFICES CallsTyped' /\ OwnerInv' /\ OffInv'
    BY <2>a, TablesStep DEF AccessInv, Typed
  <2>1. ASSUME NEW c \in Calls, NEW u \in Users, Arrive(c, u)
        PROVE  CallsTyped' /\ OwnerInv' /\ OffInv'
    <3>1. /\ CallsTyped' /\ \A d \in Calls \ {c} : call'[d] = call[d]
          /\ call[c].pc = "idle" /\ call'[c].pc \in {"perm", "org", "insert", "outrank", "issue"}
          /\ UNCHANGED <<org, project, access, login, off, hist>>
      BY <2>1, <2>a, ArriveMoves
    <3>2. Moved(c)
      BY <3>1 DEF Moved, OffStages
    <3>3. \A v \in Users \ {} : Kept(v)
      BY <3>1 DEF Kept, org, access, login
    <3>4. clean' \subseteq {d \in clean : call[d].user \notin {}} /\ revoked' \subseteq revoked \ {}
      BY <3>1 DEF hist
    <3> QED BY <3>1, <3>2, <3>3, <3>4, <2>a, OwnerMoved, OffGiven
  <2>2. ASSUME NEW c \in Calls,
               \/ CheckPermission(c) \/ CheckRole(c) \/ ReadGrant(c) \/ FindOrg(c)
               \/ MayCreate(c) \/ CheckRank(c) \/ FindGroup(c) \/ CheckOutranks(c)
        PROVE  CallsTyped' /\ OwnerInv' /\ OffInv'
    <3>1. Moved(c) /\ UNCHANGED <<org, project, access, login, off, spent, count, hist>>
      BY <2>2, <2>a, CheckMoved
    <3>2. /\ CallsTyped' /\ \A d \in Calls \ {c} : call'[d] = call[d]
          /\ call'[c].pc = "assign" => call'[c].role # "Owner"
      BY <3>1 DEF Moved
    <3>3. \A v \in Users \ {} : Kept(v)
      BY <3>1 DEF Kept, org, access, login
    <3>4. clean' \subseteq {d \in clean : call[d].user \notin {}} /\ revoked' \subseteq revoked \ {}
      BY <3>1 DEF hist
    <3> QED BY <3>1, <3>2, <3>3, <3>4, <2>a, OwnerMoved, OffGiven
  <2>3. ASSUME NEW c \in Calls,
               \/ EnsureOrg(c) \/ Insert(c) \/ Assign(c) \/ WriteGrant(c) \/ WriteRemoval(c)
               \/ WriteDeletion(c) \/ WriteGroup(c) \/ WriteGroupGrant(c)
               \/ WriteGroupDeletion(c) \/ WriteJoin(c) \/ WriteLeave(c) \/ WriteToken(c)
        PROVE  CallsTyped' /\ OwnerInv' /\ OffInv'
    BY <2>3, WritesKeep
  <2>4. ASSUME NEW c \in Calls,
               \/ RecordOffboarding(c) \/ DropGrants(c) \/ DropMemberships(c) \/ DropSessions(c)
               \/ DropRoles(c) \/ DropKeys(c) \/ DropTokens(c) \/ Complete(c)
        PROVE  CallsTyped' /\ OwnerInv' /\ OffInv'
    BY <2>4, OffboardKeeps
  <2>5. ASSUME NEW u \in Users, SignIn(u) PROVE CallsTyped' /\ OwnerInv' /\ OffInv'
    <3>1. /\ UNCHANGED <<org, access, creds, call>> /\ Touch(u)
          /\ sessions' = sessions \cup {u} /\ keys' = keys \cup {u}
      BY <2>5 DEF SignIn
    <3>2. \A v \in Users : v # u => Kept(v)
      BY <3>1 DEF Kept, org, access
    <3>3. ASSUME NEW d \in clean'
          PROVE  /\ d \in Calls /\ call'[d].pc \in OffStages /\ call'[d].user \in Users
                 /\ Stripped(call[d].user, call[d].pc)'
      <4>1. d \in clean /\ call[d].user # u
        BY <3>1 DEF Touch
      <4>2. /\ d \in Calls /\ call[d].pc \in OffStages /\ call[d].user \in Users
            /\ Stripped(call[d].user, call[d].pc)
        BY <4>1, <2>a DEF OffInv
      <4>3. PICK v, pc : v = call[d].user /\ pc = call[d].pc
        OBVIOUS
      <4>4. Stripped(v, pc)'
        BY <3>2, <4>1, <4>2, <4>3, KeptStripped
      <4> QED BY <3>1, <4>2, <4>3, <4>4 DEF Stripped
    <3>4. ASSUME NEW v \in revoked' PROVE v \in Users /\ Stripped(v, "idle")'
      <4>1. v \in Users /\ v # u /\ Stripped(v, "idle")
        BY <3>1, <2>a DEF Touch, OffInv
      <4> QED BY <3>2, <4>1, KeptStripped
    <3> QED BY <3>1, <3>3, <3>4, <2>a DEF CallsTyped, OwnerInv, OffInv, org
  <2>6. CASE Restart
    <3>1. /\ UNCHANGED <<org, access, login, revoked>> /\ clean' = {}
          /\ call' = [c \in Calls |-> Idle]
      BY <2>6 DEF Restart
    <3>2. CallsTyped'
      <4>1. Idle \in CallType /\ CallOK(Idle)
        BY IdleTyped DEF CallOK
      <4> QED BY <3>1, <4>1 DEF CallsTyped
    <3>3. OwnerInv'
      BY <3>1, <2>a, IdleTyped DEF OwnerInv, org
    <3>4. \A v : Stripped(v, "idle") => Stripped(v, "idle")'
      BY <3>1 DEF Stripped, org, access, login
    <3> QED BY <3>1, <3>2, <3>3, <3>4, <2>a DEF OffInv
  <2>7. CASE UNCHANGED vars
    <3>1. UNCHANGED <<org, access, login, call, hist>>
      BY <2>7 DEF vars
    <3> QED BY <3>1, <2>a DEF CallsTyped, OwnerInv, OffInv, Stripped, org, access, login, hist
  <2> QED BY <2>1, <2>2, <2>3, <2>4, <2>5, <2>6, <2>7 DEF Next, Step
<1> QED BY <1>1, <1>2, PTL DEF Spec

-----------------------------------------------------------------------------
(* However requests overlap, an organization has at most one Owner: the    *)
(* rank that enforce_role_rank read may be out of date when the role is    *)
(* assigned, but it never allowed the role of an Owner.                    *)
THEOREM OneOwnerAlways == Spec => []OneOwner
<1>1. AccessInv => OneOwner
  <2> SUFFICES ASSUME AccessInv, NEW o \in Orgs
               PROVE  Cardinality({u \in Users : role[<<o, u>>] = "Owner"}) <= 1
    BY DEF OneOwner
  <2> DEFINE S == {u \in Users : role[<<o, u>>] = "Owner"}
  <2>1. ASSUME NEW u \in S, NEW v \in S PROVE u = v
    BY DEF AccessInv, OwnerInv
  <2> HIDE DEF S
  <2>2. CASE S = {}
    <3>1. Cardinality(S) = 0
      BY <2>2, FS_EmptySet
    <3> QED BY <3>1 DEF S
  <2>3. CASE S # {}
    <3>1. PICK u : u \in S
      BY <2>3
    <3>2. S = {u}
      BY <3>1, <2>1
    <3>3. Cardinality({u}) = 1
      BY FS_Singleton
    <3>4. Cardinality(S) = 1
      BY <3>2, <3>3
    <3> QED BY <3>4 DEF S
  <2> QED BY <2>2, <2>3
<1> QED BY <1>1, AccessInvariant, PTL

(* A completed offboarding has taken everything, unless another request    *)
(* gave the user something after it began: the seven statements of         *)
(* offboard leave nothing behind that no statement removed.                *)
THEOREM OffboardTakesAll == Spec => []OffboardComplete
<1>1. AccessInv => OffboardComplete
  <2> SUFFICES ASSUME AccessInv, NEW u \in revoked
               PROVE  /\ \A p \in Projects : grant[<<p, u>>] = None
                      /\ \A g \in groups : <<g, u>> \notin member
                      /\ OrgsOf(u) = {}
                      /\ u \notin sessions \cup creds \cup keys
    BY DEF OffboardComplete
  <2>1. Stripped(u, "idle")
    BY DEF AccessInv, OffInv
  <2>2. /\ \A p \in Projects : grant[<<p, u>>] = None
        /\ \A m \in member : m[2] # u
        /\ \A o \in Orgs : role[<<o, u>>] = None
        /\ u \notin sessions /\ u \notin keys /\ u \notin creds
    BY <2>1 DEF Stripped
  <2> QED BY <2>2 DEF OrgsOf
<1> QED BY <1>1, AccessInvariant, PTL

(* The highest of a set of permissions: what max_perm picks.               *)
LEMMA MaxPermPick ==
    ASSUME NEW S \in SUBSET Perms, NEW b \in S, \A q \in S : PermRank(b) >= PermRank(q)
    PROVE  MaxPerm(S) = b
<1>1. /\ PermRank("CanManage") = 3 /\ PermRank("CanEdit") = 2 /\ PermRank("CanView") = 1
      /\ \A p \in S : p = "CanManage" \/ p = "CanEdit" \/ p = "CanView"
  BY DEF PermRank, Perms
<1> DEFINE best(p) == \A q \in S : PermRank(p) >= PermRank(q)
<1>2. best(b)
  OBVIOUS
<1>3. ASSUME NEW p \in S, best(p) PROVE p = b
  <2>1. PermRank(p) >= PermRank(b) /\ PermRank(b) >= PermRank(p)
    BY <1>2, <1>3
  <2> QED BY <2>1, <1>1
<1> HIDE DEF best
<1>4. (CHOOSE p \in S : best(p)) \in S /\ best(CHOOSE p \in S : best(p))
  BY <1>2
<1>5. (CHOOSE p \in S : best(p)) = b
  BY <1>3, <1>4
<1>6. MaxPerm(S) = CHOOSE p \in S : best(p)
  BY DEF MaxPerm, best
<1> QED BY <1>5, <1>6

(* max_perm is the first of the three permissions that the set holds.      *)
LEMMA MaxPermIs ==
    ASSUME NEW S \in SUBSET Perms
    PROVE  MaxPerm(S) = IF "CanManage" \in S THEN "CanManage"
                        ELSE IF "CanEdit" \in S THEN "CanEdit"
                        ELSE IF "CanView" \in S THEN "CanView" ELSE None
<1>a. /\ PermRank("CanManage") = 3 /\ PermRank("CanEdit") = 2 /\ PermRank("CanView") = 1
      /\ \A p \in S : p = "CanManage" \/ p = "CanEdit" \/ p = "CanView"
  BY DEF PermRank, Perms
<1>1. CASE "CanManage" \in S
  <2>1. MaxPerm(S) = "CanManage"
    BY <1>1, <1>a, MaxPermPick
  <2> QED BY <1>1, <2>1
<1>2. CASE "CanManage" \notin S /\ "CanEdit" \in S
  <2>1. MaxPerm(S) = "CanEdit"
    BY <1>2, <1>a, MaxPermPick
  <2> QED BY <1>2, <2>1
<1>3. CASE "CanManage" \notin S /\ "CanEdit" \notin S /\ "CanView" \in S
  <2>1. MaxPerm(S) = "CanView"
    BY <1>3, <1>a, MaxPermPick
  <2> QED BY <1>3, <2>1
<1>4. CASE S = {}
  BY <1>4 DEF MaxPerm
<1> QED BY <1>a, <1>1, <1>2, <1>3, <1>4

(* The two resolvers of a permission, effective_permission of the projects *)
(* routes and user_project_permission of the secrets routes, give the same *)
(* answer in every reachable state, and the listing shows exactly the      *)
(* projects that ensure_visible lets through.                              *)
THEOREM ResolversAgreeAlways == Spec => []ResolversAgree
<1>1. AccessInv => ResolversAgree
  <2> SUFFICES ASSUME AccessInv, NEW u \in Users
               PROVE  /\ ListedFor(u) = {p \in Projects : project[p] # None /\ Visible(p, u)}
                      /\ \A p \in Projects :
                           UserProjectPermission(p, u) = EffectivePermission(p, u)
    BY DEF ResolversAgree
  <2>t. TablesTyped
    BY DEF AccessInv, Typed
  <2>n. None \notin Perms /\ None \notin Orgs /\ None \notin Roles
    BY AccessAssumption
  <2> DEFINE held(p) == ({grant[<<p, u>>]}
                         \cup {ggrant[<<p, g>>] : g \in {h \in Groups : <<h, u>> \in member}})
                        \ {None}
  <2>1. ASSUME NEW p \in Projects
        PROVE  /\ held(p) \in SUBSET Perms
               /\ \A x \in Perms : x \in held(p) <=>
                    \/ grant[<<p, u>>] = x
                    \/ \E g \in Groups : ggrant[<<p, g>>] = x /\ <<g, u>> \in member
    BY <2>t, <2>n DEF TablesTyped
  <2>2. ASSUME NEW p \in Projects
        PROVE  EffectivePermission(p, u) =
                 IF project[p] # None /\ project[p].owner = u THEN "CanManage"
                 ELSE MaxPerm(held(p))
    BY DEF EffectivePermission
  <2> HIDE DEF held
  <2>3. ASSUME NEW p \in Projects
        PROVE  UserProjectPermission(p, u) = EffectivePermission(p, u)
    <3> DEFINE rows == {x \in Perms : \/ grant[<<p, u>>] = x
                                      \/ \E g \in Groups : ggrant[<<p, g>>] = x /\ <<g, u>> \in member}
    <3>1. rows = held(p)
      BY <2>1
    <3>2. UserProjectPermission(p, u) =
            IF project[p] # None /\ project[p].owner = u THEN "CanManage"
            ELSE IF "CanManage" \in rows THEN "CanManage"
                 ELSE IF "CanEdit" \in rows THEN "CanEdit"
                 ELSE IF "CanView" \in rows THEN "CanView" ELSE None
      BY DEF UserProjectPermission
    <3> HIDE DEF rows
    <3>3. MaxPerm(held(p)) = IF "CanManage" \in held(p) THEN "CanManage"
                             ELSE IF "CanEdit" \in held(p) THEN "CanEdit"
                             ELSE IF "CanView" \in held(p) THEN "CanView" ELSE None
      BY <2>1, MaxPermIs
    <3> QED BY <3>1, <3>2, <3>3, <2>2
  <2>4. ASSUME NEW p \in Projects, project[p] # None
        PROVE  p \in ListedFor(u) <=> Visible(p, u)
    <3>1. held(p) \in SUBSET Perms
      BY <2>1
    <3>2. MaxPerm(held(p)) # None <=> held(p) # {}
      <4>1. \A x \in held(p) : x = "CanManage" \/ x = "CanEdit" \/ x = "CanView"
        BY <3>1 DEF Perms
      <4>2. None # "CanManage" /\ None # "CanEdit" /\ None # "CanView"
        BY <2>n DEF Perms
      <4>3. MaxPerm(held(p)) = IF "CanManage" \in held(p) THEN "CanManage"
                               ELSE IF "CanEdit" \in held(p) THEN "CanEdit"
                               ELSE IF "CanView" \in held(p) THEN "CanView" ELSE None
        BY <3>1, MaxPermIs
      <4> QED BY <4>1, <4>2, <4>3
    <3>3. held(p) # {} <=> \/ grant[<<p, u>>] # None
                           \/ \E g \in Groups : <<g, u>> \in member /\ ggrant[<<p, g>>] # None
      BY DEF held
    <3>4. EffectivePermission(p, u) # None <=>
            \/ project[p].owner = u
            \/ grant[<<p, u>>] # None
            \/ \E g \in Groups : <<g, u>> \in member /\ ggrant[<<p, g>>] # None
      <4>1. None # "CanManage"
        BY <2>n DEF Perms
      <4> QED BY <2>2, <2>4, <3>2, <3>3, <4>1
    <3>5. (\E o \in Orgs : project[p].org = o /\ role[<<o, u>>] \in {"Owner", "Admin"})
          <=> CanManageOrg(RoleOf(project[p].org, u))
      <4>1. project[p].org \in Orgs \cup {None}
        BY <2>t, <2>4 DEF TablesTyped
      <4>2. None # "Owner" /\ None # "Admin"
        BY <2>n DEF Roles
      <4> QED BY <4>1, <4>2, <2>n DEF CanManageOrg, RoleOf
    <3> QED BY <3>4, <3>5, <2>4 DEF ListedFor, Visible
  <2>5. ListedFor(u) \subseteq {p \in Projects : project[p] # None}
    BY DEF ListedFor
  <2> QED BY <2>3, <2>4, <2>5
<1> QED BY <1>1, AccessInvariant, PTL

-----------------------------------------------------------------------------
(* Machine accounts, tokens and secrets                                    *)

TaskFields == {"pc", "by", "id", "target", "row", "patch", "late", "seen"}
AccountFields == {"owner", "project", "status", "scopes", "expired"}
TokenFields == {"owner", "account", "project", "scopes", "prefixed", "revoked", "expired",
                "bornFor"}

(* u may have what is revealed of p: a reveal grant goes only with its     *)
(* project.                                                                *)
MayReveal(p, u, prj, rev) == p \in prj => (u = Owner \/ <<p, u>> \in rev)

(* What a request k in flight knows of the accounts, the identifiers that  *)
(* were used, the projects, the reveal grants and the audit log.           *)
TaskKnows(k, acc, used, prj, rev, aud) ==
    /\ DOMAIN k = TaskFields
    /\ k.pc \in {"verify", "scope"} => k.late = k.row.revoked
    /\ k.pc = "scope" => ~k.late
    /\ k.pc \in {"bind", "mint"} => k.id = None \/ k.id \in Accounts \cap used
    /\ k.pc = "mint" /\ k.id # None /\ acc[k.id] # None =>
         acc[k.id].project \in {None, k.row.project}
    /\ k.pc \in {"reveal", "audit", "answer"} => k.seen
    /\ k.pc \in {"audit", "answer"} => MayReveal(k.row.project, k.by, prj, rev)
    /\ k.pc = "answer" => <<k.by, k.id>> \in aud

(* A token's account, when it has one, is of the token's project.          *)
TokenFits(r, acc, used) ==
    /\ DOMAIN r = TokenFields
    /\ r.account # None => /\ r.account \in Accounts \cap used
                           /\ acc[r.account].project \in {None, r.project}

TasksKnow ==
    /\ DOMAIN task = Calls
    /\ \A c \in Calls : TaskKnows(task[c], account, taken, projects, reveal, audit)

AccountsKnown ==
    /\ DOMAIN account = Accounts
    /\ \A a \in Accounts : account[a] # None => a \in taken /\ DOMAIN account[a] = AccountFields

TokensFit ==
    /\ DOMAIN token = Tokens
    /\ \A t \in Tokens : token[t] # None => TokenFits(token[t], account, taken)

MachineInv ==
    TasksKnow /\ AccountsKnown /\ TokensFit /\ M!RevokedNeverServed /\ M!RevealAudited

(* What no step undoes: identifiers are used once, an account keeps its    *)
(* project, projects only go, a reveal grant goes with its project, and    *)
(* the audit log grows.                                                    *)
Steady(acc, used, prj, rev, aud, acc2, used2, prj2, rev2, aud2) ==
    /\ used \subseteq used2
    /\ \A a \in Accounts \cap used :
         acc2[a] # None => acc[a] # None /\ acc2[a].project = acc[a].project
    /\ prj2 \subseteq prj
    /\ \A p \in prj2 : \A u : <<p, u>> \in rev => <<p, u>> \in rev2
    /\ aud \subseteq aud2

LEMMA KnowsStays ==
    ASSUME NEW acc, NEW used, NEW prj, NEW rev, NEW aud,
           NEW acc2, NEW used2, NEW prj2, NEW rev2, NEW aud2,
           Steady(acc, used, prj, rev, aud, acc2, used2, prj2, rev2, aud2),
           NEW k, TaskKnows(k, acc, used, prj, rev, aud)
    PROVE  TaskKnows(k, acc2, used2, prj2, rev2, aud2)
  BY DEF Steady, TaskKnows, MayReveal

MachineSteady ==
    Steady(account, taken, projects, reveal, audit,
           account', taken', projects', reveal', audit')

LEMMA StepsSteady ==
    ASSUME AccountsKnown, M!Next
    PROVE  MachineSteady
<1> USE DEF M!team, M!machine, M!More, M!Begin
<1>1. CASE UNCHANGED <<account, projects, reveal>> /\ taken \subseteq taken' /\ audit \subseteq audit'
  BY <1>1 DEF MachineSteady, Steady
<1>2. ASSUME NEW a \in Accounts, NEW r, account' = [account EXCEPT ![a] = r],
             \/ a \notin taken
             \/ account[a] # None /\ r.project = account[a].project
             \/ r = None,
             taken \subseteq taken', UNCHANGED <<projects, reveal, audit>>
      PROVE  MachineSteady
  BY <1>2 DEF MachineSteady, Steady, AccountsKnown
<1>3. ASSUME NEW u \in Staff, NEW a \in Accounts, NEW p \in Vaults \cup {None},
             NEW S \in SUBSET M!Scopes, M!CreateMachineAccount(u, a, p, S)
      PROVE  MachineSteady
  BY <1>2, <1>3 DEF M!CreateMachineAccount, M!InsertAccount
<1>4. ASSUME NEW u \in Staff, NEW a \in Accounts, M!DeleteMachineAccount(u, a)
      PROVE  MachineSteady
  BY <1>2, <1>4 DEF M!DeleteMachineAccount, M!DeleteAccount
<1>5. ASSUME NEW a \in Accounts, M!ExpireAccount(a) PROVE MachineSteady
  <2> DEFINE r == [account[a] EXCEPT !.expired = TRUE]
  <2>1. account[a] # None /\ account' = [account EXCEPT ![a] = r]
        /\ UNCHANGED <<projects, reveal, audit, taken>>
    BY <1>5 DEF M!ExpireAccount
  <2>2. r.project = account[a].project
    BY <2>1 DEF AccountsKnown, AccountFields
  <2> HIDE DEF r
  <2> QED BY <1>2, <2>1, <2>2
<1>6. ASSUME NEW c \in Calls, M!PatchAccount(c) PROVE MachineSteady
  <2> DEFINE a == task[c].id
             q == task[c].patch
             r == [account[a] EXCEPT !.status = q.status, !.scopes = q.scopes,
                                     !.expired = account[a].expired /\ ~q.renewed]
  <2>1. /\ account' = IF account[a] = None THEN account ELSE [account EXCEPT ![a] = r]
        /\ UNCHANGED <<projects, reveal, audit, taken>>
    BY <1>6 DEF M!PatchAccount, M!UpdateAccount
  <2>2. ASSUME a \in Accounts, account[a] # None PROVE r.project = account[a].project
    BY <2>2 DEF AccountsKnown, AccountFields
  <2>3. a \notin Accounts => \A b \in Accounts : account'[b] = account[b]
    <3> HIDE DEF r, a
    <3> QED BY <2>1 DEF AccountsKnown
  <2> HIDE DEF r, a
  <2>4. CASE a \notin Accounts
    BY <2>1, <2>3, <2>4 DEF MachineSteady, Steady
  <2>5. CASE a \in Accounts
    BY <1>1, <1>2, <2>1, <2>2, <2>5
  <2> QED BY <2>4, <2>5
<1>7. ASSUME NEW p \in Vaults, M!DropProject(p) PROVE MachineSteady
  BY <1>7 DEF M!DropProject, MachineSteady, Steady
<1>8. ASSUME NEW c \in Calls, M!AuditReveal(c) PROVE MachineSteady
  BY <1>1, <1>8 DEF M!AuditReveal, M!AuditLog
<1>9. CASE M!SecretRequest
  BY <1>1, <1>9 DEF M!SecretRequest, M!CreateSecret, M!LoadSecret
<1>10. CASE M!MachineRequest
  <2> DEFINE Same == UNCHANGED <<account, projects, reveal, taken, audit>>
  <2>1. ASSUME NEW c \in Calls, NEW u \in Staff, NEW a \in Accounts, NEW st, NEW S, NEW renewed,
               M!ReadAccount(c, u, a, st, S, renewed)
        PROVE  Same
    BY <2>1 DEF M!ReadAccount
  <2>2. ASSUME NEW c \in Calls, NEW u \in Staff, NEW t \in Tokens, NEW a, NEW p, NEW S,
               M!CreateToken(c, u, t, a, p, S)
        PROVE  Same
    BY <2>2 DEF M!CreateToken
  <2>3. ASSUME NEW c \in Calls, NEW t \in Tokens, NEW p, M!Present(c, t, p) PROVE Same
    BY <2>3 DEF M!Present
  <2>4. ASSUME NEW u \in Staff, NEW t \in Tokens, M!RevokeToken(u, t) PROVE Same
    BY <2>4 DEF M!RevokeToken
  <2>5. Same => MachineSteady
    BY <1>1
  <2> HIDE DEF Same
  <2> QED BY <1>3, <1>4, <1>10, <2>1, <2>2, <2>3, <2>4, <2>5 DEF M!MachineRequest
<1>11. ASSUME NEW c \in Calls, M!Step(c) PROVE MachineSteady
  BY <1>1, <1>6, <1>8, <1>11 DEF M!Step, M!CheckBinding, M!MintToken, M!VerifyToken, M!ListSecrets,
     M!WriteSecret, M!CheckSecret, M!UpdateSecret, M!DeleteSecret, M!CheckReveal, M!Reveal
<1> QED
  BY <1>1, <1>5, <1>7, <1>9, <1>10, <1>11 DEF M!Next, M!SetLevel, M!ExpireToken

(* A step changes at most one request.                                     *)
LEMMA OneTask ==
    ASSUME TasksKnow, MachineSteady, NEW c \in Calls, NEW k,
           TaskKnows(k, account', taken', projects', reveal', audit'),
           task' = [task EXCEPT ![c] = k]
    PROVE  TasksKnow'
<1>1. \A d \in Calls : TaskKnows(task[d], account', taken', projects', reveal', audit')
  BY KnowsStays DEF TasksKnow, MachineSteady
<1>2. DOMAIN task' = Calls /\ task'[c] = k /\ \A d \in Calls \ {c} : task'[d] = task[d]
  BY DEF TasksKnow
<1> QED BY <1>1, <1>2 DEF TasksKnow

LEMMA NoTask ==
    ASSUME TasksKnow, MachineSteady, task' = task
    PROVE  TasksKnow'
<1>1. \A d \in Calls : TaskKnows(task[d], account', taken', projects', reveal', audit')
  BY KnowsStays DEF TasksKnow, MachineSteady
<1> QED BY <1>1 DEF TasksKnow

(* A request that is at none of the steps that know something.             *)
LEMMA PlainTask ==
    ASSUME TasksKnow, MachineSteady, NEW c \in Calls, NEW k, DOMAIN k = TaskFields,
           k.pc \notin {"verify", "scope", "bind", "mint", "reveal", "audit", "answer"},
           task' = [task EXCEPT ![c] = k]
    PROVE  TasksKnow'
<1>1. TaskKnows(k, account', taken', projects', reveal', audit')
  BY DEF TaskKnows
<1> QED BY <1>1, OneTask

LEMMA ReturnKnows ==
    ASSUME TasksKnow, MachineSteady, NEW c \in Calls, M!Return(c)
    PROVE  TasksKnow'
<1>1. DOMAIN M!Idle = TaskFields /\ M!Idle.pc = "idle"
  BY DEF M!Idle, TaskFields
<1>2. task' = [task EXCEPT ![c] = M!Idle]
  BY DEF M!Return
<1> QED BY <1>1, <1>2, PlainTask

(* What a request that begins knows.                                       *)
LEMMA BeginKnows ==
    ASSUME TasksKnow, AccountsKnown, MachineSteady, M!MachineRequest \/ M!SecretRequest
    PROVE  TasksKnow'
<1>1. ASSUME NEW c \in Calls, NEW u, NEW a, NEW st, NEW S, NEW renewed,
             M!ReadAccount(c, u, a, st, S, renewed)
      PROVE  TasksKnow'
  <2> DEFINE q == [status |-> IF st = None THEN account[a].status ELSE st,
                   scopes |-> IF S = None THEN account[a].scopes ELSE S,
                   renewed |-> renewed]
             k == [M!Idle EXCEPT !.pc = "patch", !.by = u, !.id = a, !.patch = q]
  <2>1. task' = [task EXCEPT ![c] = k]
    BY <1>1 DEF M!ReadAccount, M!Begin
  <2> HIDE DEF q
  <2>2. DOMAIN k = TaskFields /\ k.pc = "patch"
    BY DEF M!Idle, TaskFields
  <2> HIDE DEF k
  <2> QED BY <2>1, <2>2, PlainTask
<1>2. ASSUME NEW c \in Calls, NEW u, NEW t, NEW a \in Accounts \cup {None}, NEW p, NEW S,
             M!CreateToken(c, u, t, a, p, S)
      PROVE  TasksKnow'
  <2> DEFINE q == [project |-> p, scopes |-> S]
             k == [M!Idle EXCEPT !.pc = IF a = None THEN "mint" ELSE "bind", !.by = u,
                                 !.id = a, !.target = t, !.row = q]
  <2>1. task' = [task EXCEPT ![c] = k]
    BY <1>2 DEF M!CreateToken, M!Begin
  <2>2. a # None => account[a] # None
    BY <1>2 DEF M!CreateToken
  <2>3. taken \subseteq taken'
    BY DEF MachineSteady, Steady
  <2> HIDE DEF q
  <2>4. DOMAIN k = TaskFields /\ k.id = a /\ k.pc = IF a = None THEN "mint" ELSE "bind"
    BY DEF M!Idle, TaskFields
  <2> HIDE DEF k
  <2>5. TaskKnows(k, account', taken', projects', reveal', audit')
    BY <2>2, <2>3, <2>4 DEF TaskKnows, AccountsKnown
  <2> QED BY <2>1, <2>5, OneTask
<1>3. ASSUME NEW c \in Calls, NEW t, NEW p, M!Present(c, t, p) PROVE TasksKnow'
  <2> DEFINE r == token[t]
             k == [M!Idle EXCEPT !.pc = "verify", !.id = t, !.target = p, !.row = r, !.late = r.revoked]
  <2>1. task' = [task EXCEPT ![c] = k]
    BY <1>3 DEF M!Present, M!Begin
  <2> HIDE DEF r
  <2>2. DOMAIN k = TaskFields /\ k.pc = "verify" /\ k.late = r.revoked /\ k.row = r
    BY DEF M!Idle, TaskFields
  <2> HIDE DEF k
  <2>3. TaskKnows(k, account', taken', projects', reveal', audit')
    BY <2>2 DEF TaskKnows
  <2> QED BY <2>1, <2>3, OneTask
<1>4. ASSUME NEW c \in Calls, NEW u, NEW s, NEW p, NEW v, M!CreateSecret(c, u, s, p, v)
      PROVE  TasksKnow'
  <2> DEFINE k == [M!Idle EXCEPT !.pc = "insert", !.by = u, !.id = p, !.target = s, !.row = v]
  <2>1. task' = [task EXCEPT ![c] = k]
    BY <1>4 DEF M!CreateSecret, M!Begin
  <2>2. DOMAIN k = TaskFields /\ k.pc = "insert"
    BY DEF M!Idle, TaskFields
  <2> HIDE DEF k
  <2> QED BY <2>1, <2>2, PlainTask
<1>5. ASSUME NEW c \in Calls, NEW u, NEW s, NEW op \in {"load", "loaddel", "view"}, NEW patch,
             M!LoadSecret(c, u, s, op, patch)
      PROVE  TasksKnow'
  <2> DEFINE r == secret[s]
             k == [M!Idle EXCEPT !.pc = op, !.by = u, !.id = s, !.row = r, !.patch = patch]
  <2>1. task' = [task EXCEPT ![c] = k]
    BY <1>5 DEF M!LoadSecret, M!Begin
  <2> HIDE DEF r
  <2>2. DOMAIN k = TaskFields /\ k.pc = op
    BY DEF M!Idle, TaskFields
  <2> HIDE DEF k
  <2> QED BY <2>1, <2>2, PlainTask
<1>6. ASSUME UNCHANGED task PROVE TasksKnow'
  BY <1>6, NoTask
<1>7. CASE M!SecretRequest
  BY <1>4, <1>5, <1>7 DEF M!SecretRequest
<1>8. CASE M!MachineRequest
  <2>1. ASSUME NEW u, NEW a, NEW p, NEW S, M!CreateMachineAccount(u, a, p, S) PROVE UNCHANGED task
    BY <2>1 DEF M!CreateMachineAccount
  <2>2. ASSUME NEW u, NEW a, M!DeleteMachineAccount(u, a) PROVE UNCHANGED task
    BY <2>2 DEF M!DeleteMachineAccount
  <2>3. ASSUME NEW u, NEW t, M!RevokeToken(u, t) PROVE UNCHANGED task
    BY <2>3 DEF M!RevokeToken
  <2> QED BY <1>1, <1>2, <1>3, <1>6, <1>8, <2>1, <2>2, <2>3 DEF M!MachineRequest
<1> QED BY <1>7, <1>8

(* What a request learns at each step.                                     *)
LEMMA StepKnows ==
    ASSUME TasksKnow, AccountsKnown, MachineSteady, NEW c \in Calls, M!Step(c)
    PROVE  TasksKnow'
<1> USE DEF M!team, M!machine, M!At
<1> DEFINE k == task[c]
<1>1. TaskKnows(k, account, taken, projects, reveal, audit)
  BY DEF TasksKnow
<1>2. TaskKnows(k, account', taken', projects', reveal', audit')
  BY <1>1, KnowsStays DEF MachineSteady
<1>3. CASE M!Return(c)
  BY <1>3, ReturnKnows
<1> HIDE DEF k
<1>4. ASSUME NEW x,
             \/ x \notin {"verify", "scope", "bind", "mint", "reveal", "audit", "answer"}
             \/ x = "scope" /\ k.pc = "verify" /\ ~k.row.revoked
             \/ /\ x = "mint" /\ k.pc = "bind"
                /\ account'[k.id] # None => account'[k.id].project \in {None, k.row.project}
             \/ x = "audit" /\ k.pc = "reveal" /\ MayReveal(k.row.project, k.by, projects', reveal')
             \/ x = "answer" /\ k.pc = "audit" /\ <<k.by, k.id>> \in audit',
             task' = [task EXCEPT ![c] = [k EXCEPT !.pc = x]]
      PROVE  TasksKnow'
  <2> DEFINE j == [k EXCEPT !.pc = x]
  <2>1. /\ DOMAIN j = TaskFields /\ j.pc = x /\ j.id = k.id /\ j.row = k.row /\ j.late = k.late
        /\ j.seen = k.seen /\ j.by = k.by
    BY <1>2 DEF TaskKnows, TaskFields
  <2>2. task' = [task EXCEPT ![c] = j]
    BY <1>4
  <2> HIDE DEF j
  <2>3. TaskKnows(j, account', taken', projects', reveal', audit')
    BY <1>2, <1>4, <2>1 DEF TaskKnows
  <2> QED BY <2>2, <2>3, OneTask
<1>5. ASSUME NEW x, M!Goto(c, x) PROVE task' = [task EXCEPT ![c] = [k EXCEPT !.pc = x]]
  BY <1>5 DEF M!Goto, k
<1>6. CASE M!CheckBinding(c)
  <2>1. k.pc = "bind" /\ account' = account
    BY <1>6 DEF M!CheckBinding, k
  <2>2. \/ M!Return(c)
        \/ M!Goto(c, "mint") /\ (account[k.id] = None \/ account[k.id].project \in {None, k.row.project})
    BY <1>6 DEF M!CheckBinding, M!BindingOK, k
  <2> QED BY <1>3, <1>4, <1>5, <2>1, <2>2
<1>7. CASE M!VerifyToken(c)
  <2>1. k.pc = "verify" /\ (M!Return(c) \/ (M!Goto(c, "scope") /\ ~k.row.revoked))
    BY <1>7 DEF M!VerifyToken, M!TokenLive, k
  <2> QED BY <1>3, <1>4, <1>5, <2>1
<1>8. CASE M!CheckReveal(c)
  <2>1. /\ k.pc = "reveal" /\ projects' = projects /\ reveal' = reveal
        /\ M!Return(c) \/ (M!Goto(c, "audit") /\ M!CanReveal(k.row.project, k.by))
    BY <1>8 DEF M!CheckReveal, k
  <2>2. M!CanReveal(k.row.project, k.by) => MayReveal(k.row.project, k.by, projects, reveal)
    BY DEF M!CanReveal, MayReveal
  <2> QED BY <1>3, <1>4, <1>5, <2>1, <2>2
<1>9. CASE M!AuditReveal(c)
  <2>1. k.pc = "audit" /\ M!Goto(c, "answer") /\ <<k.by, k.id>> \in audit'
    BY <1>9 DEF M!AuditReveal, M!AuditLog, k
  <2> QED BY <1>4, <1>5, <2>1
<1>10. ASSUME NEW op, NEW next \in {"write", "delete", "reveal"}, NEW edit,
              M!CheckSecret(c, op, next, edit)
       PROVE  TasksKnow'
  <2> DEFINE j == [k EXCEPT !.pc = next, !.seen = TRUE]
  <2>1. M!Return(c) \/ task' = [task EXCEPT ![c] = j]
    BY <1>10 DEF M!CheckSecret, k
  <2>2. DOMAIN j = TaskFields /\ j.pc = next /\ j.seen = TRUE
    BY <1>2 DEF TaskKnows, TaskFields
  <2> HIDE DEF j
  <2>3. TaskKnows(j, account', taken', projects', reveal', audit')
    BY <2>2 DEF TaskKnows
  <2> QED BY <1>3, <2>1, <2>3, OneTask
<1> QED
  BY <1>3, <1>6, <1>7, <1>8, <1>9, <1>10 DEF M!Step, M!PatchAccount, M!MintToken, M!ListSecrets,
     M!WriteSecret, M!UpdateSecret, M!DeleteSecret, M!Reveal

(* An account that exists has a used identifier and its columns.           *)
LEMMA AccountsStay ==
    ASSUME AccountsKnown, MachineSteady, M!Next
    PROVE  AccountsKnown'
<1> USE DEF M!team, M!machine
<1>1. taken \subseteq taken'
  BY DEF MachineSteady, Steady
<1>2. CASE UNCHANGED account
  BY <1>1, <1>2 DEF AccountsKnown
<1>3. ASSUME NEW a, NEW r, account' = [account EXCEPT ![a] = r],
             a \in Accounts /\ r # None => a \in taken' /\ DOMAIN r = AccountFields
      PROVE  AccountsKnown'
  BY <1>1, <1>3 DEF AccountsKnown
<1>4. ASSUME NEW u, NEW a, NEW p, NEW S, M!CreateMachineAccount(u, a, p, S) PROVE AccountsKnown'
  <2> DEFINE r == [owner |-> u, project |-> p, status |-> "active", scopes |-> S, expired |-> FALSE]
  <2>1. account' = [account EXCEPT ![a] = r] /\ a \in taken'
    BY <1>4 DEF M!CreateMachineAccount, M!InsertAccount
  <2>2. DOMAIN r = AccountFields
    BY DEF AccountFields
  <2> HIDE DEF r
  <2> QED BY <1>3, <2>1, <2>2
<1>5. ASSUME NEW u, NEW a, M!DeleteMachineAccount(u, a) PROVE AccountsKnown'
  BY <1>3, <1>5 DEF M!DeleteMachineAccount, M!DeleteAccount
<1>6. ASSUME NEW a \in Accounts, M!ExpireAccount(a) PROVE AccountsKnown'
  <2> DEFINE r == [account[a] EXCEPT !.expired = TRUE]
  <2>1. account[a] # None /\ account' = [account EXCEPT ![a] = r]
    BY <1>6 DEF M!ExpireAccount
  <2>2. DOMAIN r = AccountFields /\ a \in taken'
    BY <1>1, <2>1 DEF AccountsKnown
  <2> HIDE DEF r
  <2> QED BY <1>3, <2>1, <2>2
<1>7. ASSUME NEW c \in Calls, M!PatchAccount(c) PROVE AccountsKnown'
  <2> DEFINE a == task[c].id
             q == task[c].patch
             r == [account[a] EXCEPT !.status = q.status, !.scopes = q.scopes,
                                     !.expired = account[a].expired /\ ~q.renewed]
  <2>1. account' = IF account[a] = None THEN account ELSE [account EXCEPT ![a] = r]
    BY <1>7 DEF M!PatchAccount, M!UpdateAccount
  <2>2. a \in Accounts /\ account[a] # None => a \in taken' /\ DOMAIN r = AccountFields
    BY <1>1 DEF AccountsKnown
  <2> HIDE DEF r, a
  <2> QED BY <1>2, <1>3, <2>1, <2>2
<1>8. CASE M!SecretRequest
  BY <1>2, <1>8 DEF M!SecretRequest, M!CreateSecret, M!LoadSecret
<1>9. CASE M!MachineRequest
  <2>1. ASSUME NEW c \in Calls, NEW u, NEW a, NEW st, NEW S, NEW renewed,
               M!ReadAccount(c, u, a, st, S, renewed)
        PROVE  UNCHANGED account
    BY <2>1 DEF M!ReadAccount
  <2>2. ASSUME NEW c \in Calls, NEW u, NEW t, NEW a, NEW p, NEW S, M!CreateToken(c, u, t, a, p, S)
        PROVE  UNCHANGED account
    BY <2>2 DEF M!CreateToken
  <2>3. ASSUME NEW c \in Calls, NEW t, NEW p, M!Present(c, t, p) PROVE UNCHANGED account
    BY <2>3 DEF M!Present
  <2>4. ASSUME NEW u, NEW t, M!RevokeToken(u, t) PROVE UNCHANGED account
    BY <2>4 DEF M!RevokeToken
  <2> QED BY <1>2, <1>4, <1>5, <1>9, <2>1, <2>2, <2>3, <2>4 DEF M!MachineRequest
<1>10. ASSUME NEW c \in Calls, M!Step(c) PROVE AccountsKnown'
  BY <1>2, <1>7, <1>10 DEF M!Step, M!CheckBinding, M!MintToken, M!VerifyToken, M!ListSecrets,
     M!WriteSecret, M!CheckSecret, M!UpdateSecret, M!DeleteSecret, M!CheckReveal, M!AuditReveal, M!Reveal
<1> QED
  BY <1>2, <1>6, <1>8, <1>9, <1>10 DEF M!Next, M!SetLevel, M!DropProject, M!ExpireToken

(* One token is written; the accounts and identifiers go on.               *)
LEMMA OneToken ==
    ASSUME TokensFit, UNCHANGED account, taken \subseteq taken', NEW t, NEW r,
           token' = [token EXCEPT ![t] = r],
           t \in Tokens /\ r # None => TokenFits(r, account, taken)
    PROVE  TokensFit'
<1>1. ASSUME NEW x, TokenFits(x, account, taken) PROVE TokenFits(x, account', taken')
  BY <1>1 DEF TokenFits
<1>2. DOMAIN token' = Tokens /\ \A s \in Tokens : token'[s] = IF s = t THEN r ELSE token[s]
  BY DEF TokensFit
<1> QED BY <1>1, <1>2 DEF TokensFit

LEMMA NoToken ==
    ASSUME TokensFit, UNCHANGED token, taken \subseteq taken',
           \A a \in Accounts \cap taken : account'[a].project = account[a].project
    PROVE  TokensFit'
<1>1. ASSUME NEW x, TokenFits(x, account, taken) PROVE TokenFits(x, account', taken')
  BY <1>1 DEF TokenFits
<1> QED BY <1>1 DEF TokensFit

(* create_token compares the projects before it mints, and the account     *)
(* keeps its project; a deleted account takes the reference along.         *)
LEMMA TokensStay ==
    ASSUME TokensFit, TasksKnow, AccountsKnown, MachineSteady, M!Next
    PROVE  TokensFit'
<1> USE DEF M!team, M!machine
<1>1. taken \subseteq taken'
  BY DEF MachineSteady, Steady
<1>2. CASE UNCHANGED <<account, token>>
  BY <1>1, <1>2, NoToken
<1>3. ASSUME NEW u, NEW a \in Accounts, NEW p, NEW S, M!CreateMachineAccount(u, a, p, S)
      PROVE  TokensFit'
  <2> DEFINE r == [owner |-> u, project |-> p, status |-> "active", scopes |-> S, expired |-> FALSE]
  <2>1. token' = token /\ a \notin taken /\ account' = [account EXCEPT ![a] = r]
    BY <1>3 DEF M!CreateMachineAccount, M!InsertAccount
  <2> HIDE DEF r
  <2>2. \A b \in Accounts \cap taken : account'[b].project = account[b].project
    BY <2>1 DEF AccountsKnown
  <2> QED BY <1>1, <2>1, <2>2, NoToken
<1>4. ASSUME NEW u, NEW a \in Accounts, M!DeleteMachineAccount(u, a) PROVE TokensFit'
  <2>1. /\ account' = [account EXCEPT ![a] = None] /\ taken' = taken
        /\ token' = [t \in Tokens |->
                       IF token[t] # None /\ token[t].account = a
                         THEN [token[t] EXCEPT !.account = None] ELSE token[t]]
    BY <1>4 DEF M!DeleteMachineAccount, M!DeleteAccount
  <2>2. \A b \in Accounts \ {a} : account'[b] = account[b]
    BY <2>1 DEF AccountsKnown
  <2>3. ASSUME NEW t \in Tokens, token'[t] # None PROVE TokenFits(token'[t], account', taken')
    <3>1. CASE token[t] # None /\ token[t].account = a
      <4>1. token'[t] = [token[t] EXCEPT !.account = None] /\ DOMAIN token[t] = TokenFields
        BY <2>1, <3>1 DEF TokensFit, TokenFits
      <4>2. DOMAIN token'[t] = TokenFields /\ token'[t].account = None
        BY <4>1 DEF TokenFields
      <4> QED BY <4>2 DEF TokenFits
    <3>2. CASE ~(token[t] # None /\ token[t].account = a)
      <4>1. token'[t] = token[t]
        BY <2>1, <3>2
      <4>2. TokenFits(token[t], account, taken) /\ token[t].account # a
        BY <2>3, <3>2, <4>1 DEF TokensFit
      <4> QED BY <2>1, <2>2, <4>1, <4>2 DEF TokenFits
    <3> QED BY <3>1, <3>2
  <2> QED BY <2>1, <2>3 DEF TokensFit
<1>5. ASSUME NEW a \in Accounts, M!ExpireAccount(a) PROVE TokensFit'
  <2> DEFINE r == [account[a] EXCEPT !.expired = TRUE]
  <2>1. account[a] # None /\ account' = [account EXCEPT ![a] = r] /\ token' = token
    BY <1>5 DEF M!ExpireAccount
  <2>2. r.project = account[a].project
    BY <2>1 DEF AccountsKnown, AccountFields
  <2> HIDE DEF r
  <2>3. \A b \in Accounts \cap taken : account'[b].project = account[b].project
    BY <2>1, <2>2 DEF AccountsKnown
  <2> QED BY <1>1, <2>1, <2>3, NoToken
<1>6. ASSUME NEW c \in Calls, M!PatchAccount(c) PROVE TokensFit'
  <2> DEFINE a == task[c].id
             q == task[c].patch
             r == [account[a] EXCEPT !.status = q.status, !.scopes = q.scopes,
                                     !.expired = account[a].expired /\ ~q.renewed]
  <2>1. token' = token /\ account' = IF account[a] = None THEN account ELSE [account EXCEPT ![a] = r]
    BY <1>6 DEF M!PatchAccount, M!UpdateAccount
  <2>2. a \in Accounts /\ account[a] # None => r.project = account[a].project
    BY DEF AccountsKnown, AccountFields
  <2> HIDE DEF r, a
  <2>3. \A b \in Accounts \cap taken : account'[b].project = account[b].project
    BY <2>1, <2>2 DEF AccountsKnown
  <2> QED BY <1>1, <2>1, <2>3, NoToken
<1>7. ASSUME NEW c \in Calls, M!MintToken(c) PROVE TokensFit'
  <2> DEFINE k == task[c]
             a == k.id
  <2>1. account' = account /\ k.pc = "mint"
    BY <1>7 DEF M!MintToken, M!At
  <2>2. TaskKnows(k, account, taken, projects, reveal, audit)
    BY DEF TasksKnow
  <2>3. CASE token' = token
    BY <1>2, <2>1, <2>3
  <2>4. CASE ~(a # None /\ account[a] = None)
    <3>1. PICK prefixed \in BOOLEAN :
            M!InsertToken(k.target, k.by, a, k.row.project, k.row.scopes, prefixed)
      BY <1>7, <2>4 DEF M!MintToken
    <3> DEFINE r == [owner |-> k.by, account |-> a, project |-> k.row.project,
                     scopes |-> k.row.scopes, prefixed |-> prefixed,
                     revoked |-> FALSE, expired |-> FALSE, bornFor |-> a]
    <3>2. token' = [token EXCEPT ![k.target] = r]
      BY <3>1 DEF M!InsertToken
    <3>3. DOMAIN r = TokenFields /\ r.account = a /\ r.project = k.row.project
      BY DEF TokenFields
    <3> HIDE DEF r
    <3>4. TokenFits(r, account, taken)
      BY <2>1, <2>2, <2>4, <3>3 DEF TokenFits, TaskKnows
    <3> QED BY <1>1, <2>1, <3>2, <3>4, OneToken
  <2> QED BY <1>7, <2>3, <2>4 DEF M!MintToken
<1>8. ASSUME NEW t, UNCHANGED account, token[t] # None,
             \/ token' = [token EXCEPT ![t].revoked = TRUE]
             \/ token' = [token EXCEPT ![t].expired = TRUE]
      PROVE  TokensFit'
  <2>1. PICK r : /\ token' = [token EXCEPT ![t] = r]
                 /\ \/ r = [token[t] EXCEPT !.revoked = TRUE]
                    \/ r = [token[t] EXCEPT !.expired = TRUE]
    BY <1>8
  <2>2. ASSUME t \in Tokens PROVE TokenFits(r, account, taken)
    <3>1. TokenFits(token[t], account, taken)
      BY <1>8, <2>2 DEF TokensFit
    <3>2. DOMAIN r = TokenFields /\ r.account = token[t].account /\ r.project = token[t].project
      BY <2>1, <3>1 DEF TokenFits, TokenFields
    <3> QED BY <3>1, <3>2 DEF TokenFits
  <2> QED BY <1>1, <1>8, <2>1, <2>2, OneToken
<1>9. ASSUME NEW u, NEW t, M!RevokeToken(u, t) PROVE TokensFit'
  BY <1>8, <1>9 DEF M!RevokeToken, M!RevokeRow
<1>10. ASSUME NEW t, M!ExpireToken(t) PROVE TokensFit'
  BY <1>8, <1>10 DEF M!ExpireToken
<1>11. CASE M!SecretRequest
  BY <1>2, <1>11 DEF M!SecretRequest, M!CreateSecret, M!LoadSecret
<1>12. CASE M!MachineRequest
  <2>1. ASSUME NEW c \in Calls, NEW u, NEW a, NEW st, NEW S, NEW renewed,
               M!ReadAccount(c, u, a, st, S, renewed)
        PROVE  UNCHANGED <<account, token>>
    BY <2>1 DEF M!ReadAccount
  <2>2. ASSUME NEW c \in Calls, NEW u, NEW t, NEW a, NEW p, NEW S, M!CreateToken(c, u, t, a, p, S)
        PROVE  UNCHANGED <<account, token>>
    BY <2>2 DEF M!CreateToken
  <2>3. ASSUME NEW c \in Calls, NEW t, NEW p, M!Present(c, t, p) PROVE UNCHANGED <<account, token>>
    BY <2>3 DEF M!Present
  <2> QED BY <1>2, <1>3, <1>4, <1>9, <1>12, <2>1, <2>2, <2>3 DEF M!MachineRequest
<1>13. ASSUME NEW c \in Calls, M!Step(c) PROVE TokensFit'
  BY <1>2, <1>6, <1>7, <1>13 DEF M!Step, M!CheckBinding, M!VerifyToken, M!ListSecrets,
     M!WriteSecret, M!CheckSecret, M!UpdateSecret, M!DeleteSecret, M!CheckReveal, M!AuditReveal, M!Reveal
<1> QED
  BY <1>2, <1>5, <1>10, <1>11, <1>12, <1>13 DEF M!Next, M!SetLevel, M!DropProject

(* What the answers say: a list for a token that was presented before it   *)
(* was revoked, a value after its checks and its audit row.                *)
LEMMA AnswersStay ==
    ASSUME TasksKnow, MachineSteady, M!RevokedNeverServed, M!RevealAudited, M!Next
    PROVE  M!RevokedNeverServed' /\ M!RevealAudited'
<1> USE DEF M!team, M!machine
<1> DEFINE Allowed(g, prj, rev, aud) ==
             /\ <<g.user, g.secret>> \in aud
             /\ g.seen
             /\ MayReveal(g.project, g.user, prj, rev)
<1>1. \A g \in given : Allowed(g, projects, reveal, audit)
  BY DEF M!RevealAudited, MayReveal
<1>2. \A g \in given : Allowed(g, projects', reveal', audit')
  BY <1>1 DEF MachineSteady, Steady, MayReveal
<1>3. ASSUME \A g \in given' : Allowed(g, projects', reveal', audit') PROVE M!RevealAudited'
  BY <1>3 DEF M!RevealAudited, MayReveal
<1> HIDE DEF Allowed
<1>4. CASE UNCHANGED <<served, given>>
  BY <1>2, <1>3, <1>4 DEF M!RevokedNeverServed
<1>5. ASSUME NEW c \in Calls, M!ListSecrets(c) PROVE M!RevokedNeverServed' /\ M!RevealAudited'
  <2> DEFINE r == [token |-> task[c].id, project |-> task[c].target, late |-> task[c].late]
  <2>1. given' = given /\ task[c].pc = "scope" /\ served' \subseteq served \cup {r}
    BY <1>5 DEF M!ListSecrets, M!At
  <2>2. ~r.late
    BY <2>1 DEF TasksKnow, TaskKnows
  <2> HIDE DEF r
  <2>3. M!RevokedNeverServed'
    BY <2>1, <2>2 DEF M!RevokedNeverServed
  <2> QED BY <1>2, <1>3, <2>1, <2>3
<1>6. ASSUME NEW c \in Calls, M!Reveal(c) PROVE M!RevokedNeverServed' /\ M!RevealAudited'
  <2> DEFINE k == task[c]
             g == [user |-> k.by, secret |-> k.id, project |-> k.row.project, seen |-> k.seen]
  <2>1. /\ served' = served /\ given' = given \cup {g} /\ k.pc = "answer"
        /\ UNCHANGED <<projects, reveal, audit>>
    BY <1>6 DEF M!Reveal, M!At
  <2>2. TaskKnows(k, account, taken, projects, reveal, audit)
    BY DEF TasksKnow
  <2>3. g.user = k.by /\ g.secret = k.id /\ g.project = k.row.project /\ g.seen = k.seen
    OBVIOUS
  <2> HIDE DEF k, g
  <2>4. Allowed(g, projects', reveal', audit')
    BY <2>1, <2>2, <2>3 DEF Allowed, TaskKnows
  <2> QED BY <1>2, <1>3, <2>1, <2>4 DEF M!RevokedNeverServed
<1>7. CASE M!SecretRequest
  BY <1>4, <1>7 DEF M!SecretRequest, M!CreateSecret, M!LoadSecret
<1>8. CASE M!MachineRequest
  <2>1. ASSUME NEW c \in Calls, NEW u, NEW a, NEW st, NEW S, NEW renewed,
               M!ReadAccount(c, u, a, st, S, renewed)
        PROVE  UNCHANGED <<served, given>>
    BY <2>1 DEF M!ReadAccount
  <2>2. ASSUME NEW c \in Calls, NEW u, NEW t, NEW a, NEW p, NEW S, M!CreateToken(c, u, t, a, p, S)
        PROVE  UNCHANGED <<served, given>>
    BY <2>2 DEF M!CreateToken
  <2>3. ASSUME NEW c \in Calls, NEW t, NEW p, M!Present(c, t, p) PROVE UNCHANGED <<served, given>>
    BY <2>3 DEF M!Present
  <2>4. ASSUME NEW u, NEW a, NEW p, NEW S, M!CreateMachineAccount(u, a, p, S)
        PROVE  UNCHANGED <<served, given>>
    BY <2>4 DEF M!CreateMachineAccount
  <2> QED BY <1>4, <1>8, <2>1, <2>2, <2>3, <2>4 DEF M!MachineRequest, M!DeleteMachineAccount, M!RevokeToken
<1>9. ASSUME NEW c \in Calls, M!Step(c) PROVE M!RevokedNeverServed' /\ M!RevealAudited'
  BY <1>4, <1>5, <1>6, <1>9 DEF M!Step, M!PatchAccount, M!CheckBinding, M!MintToken, M!VerifyToken,
     M!WriteSecret, M!CheckSecret, M!UpdateSecret, M!DeleteSecret, M!CheckReveal, M!AuditReveal
<1> QED
  BY <1>4, <1>7, <1>8, <1>9 DEF M!Next, M!SetLevel, M!DropProject, M!ExpireToken, M!ExpireAccount

(* Whatever is revoked, rebound, removed or deleted while requests run: no *)
(* token presented after its revocation is answered, a token of an account *)
(* is bound to the account's project although create_token reads the       *)
(* account twice, and a revealed value had its permission, its reveal      *)
(* grant and its audit row. For any number of requests, users, projects,   *)
(* accounts, tokens and secrets.                                           *)
THEOREM SecretsGuardedAlways == MCSpec => []SecretsGuarded
<1>1. MCInit => MachineInv
  <2> SUFFICES ASSUME M!Init PROVE MachineInv
    BY DEF MCInit
  <2>1. DOMAIN M!Idle = TaskFields /\ M!Idle.pc = "idle"
    BY DEF M!Idle, TaskFields
  <2>2. \A c \in Calls : TaskKnows(M!Idle, account, taken, projects, reveal, audit)
    BY <2>1 DEF TaskKnows
  <2>3. TasksKnow
    BY <2>2 DEF M!Init, TasksKnow
  <2>4. AccountsKnown /\ TokensFit
    BY DEF M!Init, AccountsKnown, TokensFit
  <2>5. M!RevokedNeverServed /\ M!RevealAudited
    BY DEF M!Init, M!RevokedNeverServed, M!RevealAudited
  <2> QED BY <2>3, <2>4, <2>5 DEF MachineInv
<1>2. ASSUME MachineInv, [MCNext]_<<side, vars, machines>> PROVE MachineInv'
  <2>1. CASE UNCHANGED machines
    BY <1>2, <2>1 DEF machines, MachineInv, TasksKnow, AccountsKnown, TokensFit,
       M!RevokedNeverServed, M!RevealAudited
  <2>2. CASE M!Next
    <3>1. TasksKnow /\ AccountsKnown /\ TokensFit /\ M!RevokedNeverServed /\ M!RevealAudited
      BY <1>2 DEF MachineInv
    <3>2. MachineSteady
      BY <2>2, <3>1, StepsSteady
    <3>3. TasksKnow'
      <4>1. CASE UNCHANGED task
        BY <3>1, <3>2, <4>1, NoTask
      <4> QED BY <2>2, <3>1, <3>2, <4>1, BeginKnows, StepKnows
              DEF M!Next, M!SetLevel, M!DropProject, M!ExpireToken, M!ExpireAccount
    <3> QED BY <2>2, <3>1, <3>2, <3>3, AccountsStay, TokensStay, AnswersStay DEF MachineInv
  <2> QED BY <1>2, <2>1, <2>2 DEF MCNext
<1>3. MachineInv => SecretsGuarded
  BY DEF MachineInv, TokensFit, TokenFits, SecretsGuarded, M!SecretsGuarded, M!BoundToProject
<1> QED BY <1>1, <1>2, <1>3, PTL DEF MCSpec
=============================================================================
