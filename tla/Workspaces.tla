------------------------------ MODULE Workspaces -----------------------------
(* Workspaces and their members: WorkspaceService, every method of which is  *)
(* a read, a decision and a write, each awaited, without a transaction: the  *)
(* calls in flight interleave between any two.  Postgres and TypeORM's save  *)
(* (update the row with the entity's id, or insert it when there is none)    *)
(* are external.  Rows of users are never deleted.                           *)
CONSTANTS Workspaces,  \* ids of workspaces: bounds how many are created
          Users,
          MemberIds,   \* ids of workspace_members rows
          Calls        \* slots for calls in flight

VARIABLES owner,     \* ownerId of each row of workspaces, None without a row
          member,    \* the row of workspace_members of each workspace and user
          call,      \* the calls in flight
          creator,   \* history: who createWorkspace inserted each workspace for
          answered,  \* history: workspaces that createWorkspace returned
          revived,   \* history: workspaces that updateWorkspace inserted again
          removed,   \* history: <<workspace, user>> removed with no role change under way
          appointed  \* history: workspaces whose owner granted the role of owner

history == <<creator, answered, revived, removed, appointed>>
vars == <<owner, member, call, creator, answered, revived, removed, appointed>>

None == "none"

ASSUME NoneAssumption == None \notin Workspaces \union Users \union MemberIds

UserRole == {"owner", "collaborator", "viewer"}
NoRow == [id |-> None, role |-> None]
Row(id, role) == [id |-> id, role |-> role]
Idle == [op |-> None, pc |-> None, by |-> None, ws |-> None, user |-> None, row |-> NoRow]

Init ==
  /\ owner = [w \in Workspaces |-> None]
  /\ member = [w \in Workspaces |-> [u \in Users |-> NoRow]]
  /\ call = [c \in Calls |-> Idle]
  /\ creator = [w \in Workspaces |-> None]
  /\ answered = {} /\ revived = {} /\ removed = {} /\ appointed = {}

Exists(w) == owner[w] # None
IsMember(w, u) == member[w][u] # NoRow
getUserRole(w, u) == member[w][u].role
HeldIds == {call[c].row.id : c \in Calls}
FreshId(id) == id \notin HeldIds /\ \A w \in Workspaces, u \in Users : member[w][u].id # id
(* A generated uuid: which one does not matter, only that it names no row.   *)
NewId == CHOOSE id \in MemberIds : FreshId(id)
MayInsert == \E id \in MemberIds : FreshId(id)

At(c, pc) == call[c].pc = pc
Goto(c, pc) == call' = [call EXCEPT ![c].pc = pc]
End(c) == call' = [call EXCEPT ![c] = Idle]
By(c) == call[c].by
Ws(c) == call[c].ws
User(c) == call[c].user
Role(c) == call[c].row.role

-----------------------------------------------------------------------------
(* A call starts: op by a user on a workspace it was told of, about a user.  *)

Start(c, op, pc, by, w, u, role) ==
  /\ call[c] = Idle
  /\ w \in answered \union {None}
  /\ call' = [call EXCEPT ![c] = [op |-> op, pc |-> pc, by |-> by, ws |-> w, user |-> u,
                                  row |-> Row(None, role)]]
  /\ appointed' = IF w # None /\ role = "owner" /\ by = creator[w]
                  THEN appointed \union {w} ELSE appointed
  /\ UNCHANGED <<owner, member, creator, answered, revived, removed>>

createWorkspace(c, by) == Start(c, "create", "saveWorkspace", by, None, None, None)
updateWorkspace(c, by, w) == Start(c, "update", "checkOwnership", by, w, None, None)
deleteWorkspace(c, by, w) == Start(c, "delete", "checkOwnership", by, w, None, None)
removeUser(c, by, w, u) == Start(c, "remove", "checkOwnership", by, w, u, None)
updateUserRole(c, by, w, u, role) == Start(c, "updateRole", "checkOwnership", by, w, u, role)
inviteUser(c, by, w, u, role) == Start(c, "invite", "getInviter", by, w, u, role)

-----------------------------------------------------------------------------
(* createWorkspace: two saves.                                               *)

InsertWorkspace(c, w) ==
  /\ At(c, "saveWorkspace") /\ call[c].op = "create"
  /\ creator[w] = None
  /\ owner' = [owner EXCEPT ![w] = By(c)]
  /\ creator' = [creator EXCEPT ![w] = By(c)]
  /\ call' = [call EXCEPT ![c].pc = "saveOwner", ![c].ws = w]
  /\ UNCHANGED <<member, answered, revived, removed, appointed>>

InsertOwner(c) ==
  /\ At(c, "saveOwner")
  /\ MayInsert
  /\ member' = [member EXCEPT ![Ws(c)][By(c)] = Row(NewId, "owner")]
  /\ answered' = answered \union {Ws(c)}
  /\ End(c)
  /\ UNCHANGED <<owner, creator, revived, removed, appointed>>

-----------------------------------------------------------------------------
(* Operations of the owner                                                   *)

AfterOwnership == [update |-> "findWorkspace", delete |-> "deleteWorkspace",
                   remove |-> "findWorkspaceOfUser", updateRole |-> "findMember"]

checkWorkspaceOwnership(c) ==
  /\ At(c, "checkOwnership")
  /\ IF owner[Ws(c)] = By(c) THEN Goto(c, AfterOwnership[call[c].op]) ELSE End(c)
  /\ UNCHANGED <<owner, member, history>>

(* updateWorkspace reads the row again, NotFoundException without one.       *)
FindWorkspace(c) ==
  /\ At(c, "findWorkspace")
  /\ IF Exists(Ws(c)) THEN Goto(c, "saveWorkspace") ELSE End(c)
  /\ UNCHANGED <<owner, member, history>>

(* save of the row read: a workspace deleted meanwhile is inserted again,    *)
(* with the ownerId read, which is the caller's.                             *)
SaveWorkspace(c) ==
  /\ At(c, "saveWorkspace") /\ call[c].op = "update"
  /\ owner' = [owner EXCEPT ![Ws(c)] = By(c)]
  /\ revived' = IF Exists(Ws(c)) THEN revived ELSE revived \union {Ws(c)}
  /\ End(c)
  /\ UNCHANGED <<member, creator, answered, removed, appointed>>

(* Mutant: the foreign key of members does not cascade.                      *)
DeleteWorkspaceOnly(c) ==
  /\ At(c, "deleteWorkspace")
  /\ owner' = [owner EXCEPT ![Ws(c)] = None]
  /\ End(c)
  /\ UNCHANGED <<member, history>>

(* Members go with their workspace by ON DELETE CASCADE.                     *)
DeleteWorkspace(c) ==
  /\ At(c, "deleteWorkspace")
  /\ owner' = [owner EXCEPT ![Ws(c)] = None]
  /\ member' = [member EXCEPT ![Ws(c)] = [u \in Users |-> NoRow]]
  /\ End(c)
  /\ UNCHANGED history

(* Mutant: anybody may be removed.                                           *)
FindWorkspaceOfUserUnguarded(c) ==
  /\ At(c, "findWorkspaceOfUser")
  /\ Goto(c, "deleteMember")
  /\ UNCHANGED <<owner, member, history>>

(* removeUser refuses to remove the owner; no row passes the test.           *)
FindWorkspaceOfUser(c) ==
  /\ At(c, "findWorkspaceOfUser")
  /\ IF owner[Ws(c)] = User(c) THEN End(c) ELSE Goto(c, "deleteMember")
  /\ UNCHANGED <<owner, member, history>>

(* Mutant: the delete names the workspace only and spares its owner.         *)
DeleteMembers(c) ==
  /\ At(c, "deleteMember")
  /\ member' = [member EXCEPT ![Ws(c)] = [u \in Users |-> IF u = owner[Ws(c)] THEN @[u] ELSE NoRow]]
  /\ End(c)
  /\ UNCHANGED <<owner, history>>

DeleteMember(c) ==
  /\ At(c, "deleteMember")
  /\ member' = [member EXCEPT ![Ws(c)][User(c)] = NoRow]
  /\ removed' = IF \E d \in Calls : /\ call[d].pc \in {"findWorkspaceOfRole", "saveRole"}
                                    /\ Ws(d) = Ws(c) /\ User(d) = User(c)
                THEN removed ELSE removed \union {<<Ws(c), User(c)>>}
  /\ End(c)
  /\ UNCHANGED <<owner, creator, answered, revived, appointed>>

(* Mutant: a missing member is made up instead of refused.                   *)
FindMemberOrNew(c) ==
  /\ At(c, "findMember")
  /\ call' = [call EXCEPT ![c].pc = "findWorkspaceOfRole",
                          ![c].row.id = IF IsMember(Ws(c), User(c))
                                        THEN member[Ws(c)][User(c)].id ELSE NewId]
  /\ UNCHANGED <<owner, member, history>>

FindMember(c) ==
  /\ At(c, "findMember")
  /\ IF IsMember(Ws(c), User(c))
     THEN call' = [call EXCEPT ![c].pc = "findWorkspaceOfRole",
                               ![c].row.id = member[Ws(c)][User(c)].id]
     ELSE End(c)
  /\ UNCHANGED <<owner, member, history>>

FindWorkspaceOfRole(c) ==
  /\ At(c, "findWorkspaceOfRole")
  /\ IF owner[Ws(c)] = User(c) THEN End(c) ELSE Goto(c, "saveRole")
  /\ UNCHANGED <<owner, member, history>>

(* save of the member read, with its new role.  When that row is gone it is  *)
(* inserted again, unless the workspace is gone too (foreign key) or the     *)
(* user has another row (unique workspaceId, userId).                        *)
SaveRole(c) ==
  LET w == Ws(c)  u == User(c) IN
  /\ At(c, "saveRole")
  /\ member' = IF Exists(w) /\ (member[w][u].id = call[c].row.id \/ ~IsMember(w, u))
               THEN [member EXCEPT ![w][u] = call[c].row] ELSE member
  /\ End(c)
  /\ UNCHANGED <<owner, history>>

-----------------------------------------------------------------------------
(* inviteUser                                                                *)

(* Mutant: a collaborator may invite owners.                                 *)
GetInviterUnranked(c) ==
  /\ At(c, "getInviter")
  /\ IF getUserRole(Ws(c), By(c)) \in {"owner", "collaborator"}
     THEN Goto(c, "findExisting") ELSE End(c)
  /\ UNCHANGED <<owner, member, history>>

(* Owners invite anybody, collaborators anybody but owners.                  *)
GetInviter(c) ==
  /\ At(c, "getInviter")
  /\ IF \/ getUserRole(Ws(c), By(c)) = "owner"
        \/ getUserRole(Ws(c), By(c)) = "collaborator" /\ Role(c) # "owner"
     THEN Goto(c, "findExisting") ELSE End(c)
  /\ UNCHANGED <<owner, member, history>>

FindExisting(c) ==
  /\ At(c, "findExisting")
  /\ IF IsMember(Ws(c), User(c)) THEN End(c) ELSE Goto(c, "saveMember")
  /\ UNCHANGED <<owner, member, history>>

(* The insert rejects without the workspace or when the user has a row.      *)
SaveMember(c) ==
  LET w == Ws(c)  u == User(c) IN
  /\ At(c, "saveMember")
  /\ MayInsert
  /\ IF Exists(w) /\ ~IsMember(w, u)
     THEN /\ member' = [member EXCEPT ![w][u] = Row(NewId, Role(c))]
          /\ removed' = removed \ {<<w, u>>}
     ELSE UNCHANGED <<member, removed>>
  /\ End(c)
  /\ UNCHANGED <<owner, creator, answered, revived, appointed>>

(* The database rejects, or the instance dies: no later step of the call.    *)
Fails(c) ==
  /\ call[c] # Idle
  /\ End(c)
  /\ UNCHANGED <<owner, member, history>>

-----------------------------------------------------------------------------
StartCall(c) == \E by \in Users :
  \/ createWorkspace(c, by)
  \/ \E w \in Workspaces :
       \/ updateWorkspace(c, by, w) \/ deleteWorkspace(c, by, w)
       \/ \E u \in Users :
            \/ removeUser(c, by, w, u)
            \/ \E role \in UserRole : updateUserRole(c, by, w, u, role) \/ inviteUser(c, by, w, u, role)

Step(c) ==
  \/ \E w \in Workspaces : InsertWorkspace(c, w)
  \/ InsertOwner(c) \/ SaveMember(c)
  \/ checkWorkspaceOwnership(c)
  \/ FindWorkspace(c) \/ SaveWorkspace(c)
  \/ FindWorkspaceOfUser(c) \/ DeleteMember(c)
  \/ FindMember(c) \/ FindWorkspaceOfRole(c) \/ SaveRole(c)
  \/ GetInviter(c) \/ FindExisting(c)

Next == \E c \in Calls : StartCall(c) \/ Step(c) \/ DeleteWorkspace(c) \/ Fails(c)

Spec == Init /\ [][Next]_vars

-----------------------------------------------------------------------------
Ops == {None, "create", "update", "delete", "remove", "updateRole", "invite"}
PCs == {None, "saveWorkspace", "saveOwner", "checkOwnership", "findWorkspace", "deleteWorkspace",
        "findWorkspaceOfUser", "deleteMember", "findMember", "findWorkspaceOfRole", "saveRole",
        "getInviter", "findExisting", "saveMember"}
Rows == [id : MemberIds \union {None}, role : UserRole \union {None}]

(* Types; members belong to workspaces that exist, and an id names one row.  *)
TypeOK ==
  /\ owner \in [Workspaces -> Users \union {None}]
  /\ member \in [Workspaces -> [Users -> Rows]]
  /\ call \in [Calls -> [op : Ops, pc : PCs, by : Users \union {None},
                         ws : Workspaces \union {None}, user : Users \union {None}, row : Rows]]
  /\ creator \in [Workspaces -> Users \union {None}]
  /\ answered \subseteq Workspaces /\ revived \subseteq Workspaces /\ appointed \subseteq Workspaces
  /\ removed \subseteq Workspaces \X Users
  /\ \A w \in Workspaces, u \in Users : IsMember(w, u) =>
       /\ Exists(w)
       /\ \A x \in Workspaces, v \in Users : member[x][v].id = member[w][u].id => <<x, v>> = <<w, u>>

(* Whoever overlaps with whom, the owner of a workspace that createWorkspace *)
(* returned is among its members, as owner: nobody removes or demotes the    *)
(* one who may remove and demote, unless updateWorkspace has inserted a      *)
(* workspace again that was deleted under it.                                *)
OwnerIsMember == \A w \in answered \ revived :
  Exists(w) => getUserRole(w, owner[w]) = "owner"

(* A removed user does not come back but by an invitation, unless a change   *)
(* of the user's role was under way: its save inserts the member again.      *)
RemovedStaysOut == \A p \in removed : ~IsMember(p[1], p[2])

(* Unless the owner of a workspace gives somebody the role of owner, nobody  *)
(* else ever has it, whatever the members invite each other to.              *)
NobodyPromotesThemselves == \A w \in Workspaces \ appointed : \A u \in Users :
  getUserRole(w, u) = "owner" => u = creator[w]

(* The seven operations, cut at their awaits and interleaved, implement the  *)
(* atomic membership of module Membership: what other code may rely on.      *)
M == INSTANCE Membership WITH role <- [w \in Workspaces |-> [u \in Users |-> getUserRole(w, u)]],
                              reopened <- revived
ImplementsMembership == M!MembershipSpec
=============================================================================
