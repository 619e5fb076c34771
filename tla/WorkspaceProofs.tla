---------------------------- MODULE WorkspaceProofs ----------------------------
(* Theorems about Workspaces, for any workspaces, users, rows and calls in   *)
(* flight.                                                                   *)
EXTENDS Workspaces, TLAPS

USE NoneAssumption

-----------------------------------------------------------------------------
(* Type correctness.  That members belong to a workspace that exists, each   *)
(* with an id of its own, depends on what the calls under way hold and on    *)
(* what a workspace that createWorkspace has not returned looks like.        *)

Slots == [op : Ops, pc : PCs, by : Users \union {None}, ws : Workspaces \union {None},
          user : Users \union {None}, row : Rows]

(* A call of updateUserRole that holds the row it read.                      *)
Holds(q) == q.pc \in {"findWorkspaceOfRole", "saveRole"}

(* A call past checkWorkspaceOwnership.                                      *)
Entitled(q) ==
  \/ q.pc \in {"findWorkspace", "deleteWorkspace", "findWorkspaceOfUser", "deleteMember", "findMember"}
  \/ Holds(q)
  \/ q.pc = "saveWorkspace" /\ q.op = "update"

(* Where each operation can be, and what it knows there.                     *)
Sound(q) ==
  /\ q.pc = None => q = Idle
  /\ q.pc # None => q.by \in Users
  /\ q.op = "create" => q.pc \in {"saveWorkspace", "saveOwner"}
  /\ q.pc = "saveWorkspace" => q.op \in {"create", "update"}
  /\ q.pc = "saveOwner" =>
       q.op = "create" /\ q.ws \in Workspaces \ answered /\ creator[q.ws] = q.by
  /\ q.pc # None /\ q.op # "create" => q.ws \in answered
  /\ q.pc = "checkOwnership" => q.op \in {"update", "delete", "remove", "updateRole"}
  /\ q.pc = "findWorkspace" => q.op = "update"
  /\ q.pc = "deleteWorkspace" => q.op = "delete"
  /\ q.pc \in {"findWorkspaceOfUser", "deleteMember"} => q.op = "remove"
  /\ q.pc = "findMember" \/ Holds(q) => q.op = "updateRole"
  /\ q.pc \in {"getInviter", "findExisting", "saveMember"} => q.op = "invite"
  /\ q.op \in {"remove", "updateRole", "invite"} => q.user \in Users
  /\ q.op \in {"updateRole", "invite"} => q.row.role \in UserRole
  /\ q.row.id # None <=> Holds(q)
  /\ Entitled(q) => q.by = creator[q.ws]

(* The row of a workspace is its creator's or gone; before createWorkspace   *)
(* has returned it, nobody can delete it.                                    *)
Rooted(w) ==
  /\ owner[w] \in {None, creator[w]}
  /\ w \in answered => creator[w] # None
  /\ w \in revived => w \in answered
  /\ w \notin answered => owner[w] = creator[w]

Peopled(w) == \A u \in Users :
  IsMember(w, u) => /\ Exists(w) /\ w \in answered
                    /\ member[w][u].id \in MemberIds /\ member[w][u].role \in UserRole

(* The id that a call holds names no row but that of its user.               *)
HeldIdsAreNamed == \A c \in Calls : Holds(call[c]) =>
  /\ \A x \in Workspaces, v \in Users :
       member[x][v].id = call[c].row.id => x = Ws(c) /\ v = User(c)
  /\ \A d \in Calls : call[d].row.id = call[c].row.id => Ws(d) = Ws(c) /\ User(d) = User(c)

CreationsAreApart == \A c, d \in Calls :
  At(c, "saveOwner") /\ At(d, "saveOwner") /\ Ws(c) = Ws(d) => c = d

TypeInv ==
  /\ TypeOK
  /\ \A c \in Calls : Sound(call[c])
  /\ \A w \in Workspaces : Rooted(w) /\ Peopled(w)
  /\ HeldIdsAreNamed
  /\ CreationsAreApart

LEMMA TypeInit == Init => TypeInv
  BY DEF Init, TypeInv, TypeOK, Idle, NoRow, Rows, Ops, PCs, Sound, Holds, Entitled, Rooted, Peopled, Exists,
         IsMember, HeldIdsAreNamed, CreationsAreApart, At, None

LEMMA IdleIsTyped == Idle \in Slots /\ Sound(Idle) /\ ~Holds(Idle)
  BY DEF Idle, Slots, Ops, PCs, Rows, NoRow, Sound, Holds, Entitled, None

(* The slots of calls after one of them moved on.                            *)
LEMMA SlotEffect ==
  ASSUME TypeOK, NEW c \in Calls, NEW q \in Slots, call' = [call EXCEPT ![c] = q]
  PROVE  /\ call' \in [Calls -> Slots]
         /\ call'[c] = q
         /\ \A d \in Calls : d # c => call'[d] = call[d]
  BY DEF TypeOK, Slots

SetRow(w, u, row) == [member EXCEPT ![w][u] = row]

(* The rows of members after one of them was written.                        *)
LEMMA RowEffect ==
  ASSUME TypeOK, NEW w \in Workspaces, NEW u \in Users, NEW row \in Rows,
         member' = SetRow(w, u, row)
  PROVE  /\ member' \in [Workspaces -> [Users -> Rows]]
         /\ member'[w][u] = row
         /\ \A x \in Workspaces, v \in Users : x # w \/ v # u => member'[x][v] = member[x][v]
  BY DEF TypeOK, SetRow

LEMMA NoRowIsTyped == NoRow \in Rows /\ NoRow.id = None /\ NoRow.role = None
  BY DEF NoRow, Rows

(* A generated id is one that no row has and no call holds.                  *)
LEMMA NewIdIsFresh ==
  ASSUME MayInsert
  PROVE  /\ NewId \in MemberIds /\ NewId # None
         /\ \A c \in Calls : call[c].row.id # NewId
         /\ \A x \in Workspaces, v \in Users : member[x][v].id # NewId
  BY DEF MayInsert, NewId, FreshId, HeldIds

(* Nothing but a call of its own moves.                                      *)
LEMMA MoveKeepsTypes ==
  ASSUME TypeInv, NEW c \in Calls, NEW q \in Slots, call' = [call EXCEPT ![c] = q],
         Sound(q), q.pc # "saveOwner",
         Holds(q) => /\ q.ws = Ws(c) /\ q.user = User(c)
                     /\ q.row.id \in {call[c].row.id, member[Ws(c)][User(c)].id},
         UNCHANGED <<owner, member, creator, answered, revived, removed>>,
         appointed' \subseteq Workspaces
  PROVE  TypeInv'
  <1>1. /\ call' \in [Calls -> Slots]
        /\ call'[c] = q
        /\ \A d \in Calls : d # c => call'[d] = call[d]
    BY SlotEffect DEF TypeInv
  <1>2. TypeOK'
    BY <1>1 DEF TypeInv, TypeOK, Slots, IsMember, Exists
  <1>3. \A d \in Calls : Sound(call[d])'
    BY <1>1 DEF TypeInv, Sound, Holds, Entitled
  <1>4. \A w \in Workspaces : Rooted(w)' /\ Peopled(w)'
    BY DEF TypeInv, Rooted, Peopled, IsMember, Exists
  <1>5. HeldIdsAreNamed'
    <2>1. Holds(q) => Ws(c) \in Workspaces /\ User(c) \in Users /\ q.row.id # None
      BY DEF Sound, Holds, Entitled, TypeInv, TypeOK, Ws, User, UserRole, None
    <2>2. \A d \in Calls : /\ call[d].row.id # None <=> Holds(call[d])
                           /\ Holds(call[d]) => Ws(d) \in Workspaces /\ User(d) \in Users
      BY DEF TypeInv, TypeOK, Sound, Holds, Entitled, Ws, User, None
    <2>3. Holds(q) => /\ \A x \in Workspaces, v \in Users :
                           member[x][v].id = q.row.id => x = q.ws /\ v = q.user
                      /\ \A d \in Calls : call[d].row.id = q.row.id => Ws(d) = q.ws /\ User(d) = q.user
      <3> SUFFICES ASSUME Holds(q)
                   PROVE  /\ \A x \in Workspaces, v \in Users :
                               member[x][v].id = q.row.id => x = q.ws /\ v = q.user
                          /\ \A d \in Calls : call[d].row.id = q.row.id => Ws(d) = q.ws /\ User(d) = q.user
        OBVIOUS
      <3>1. CASE q.row.id = call[c].row.id
        BY <2>1, <2>2, <3>1 DEF TypeInv, HeldIdsAreNamed
      <3>2. CASE q.row.id = member[Ws(c)][User(c)].id
        <4>1. IsMember(Ws(c), User(c))
          BY <2>1, <3>2, NoRowIsTyped DEF IsMember
        <4>2. \A x \in Workspaces, v \in Users : member[x][v].id = q.row.id => x = q.ws /\ v = q.user
          BY <2>1, <3>2, <4>1 DEF TypeInv, TypeOK
        <4> QED BY <2>1, <2>2, <3>2, <4>2 DEF TypeInv, HeldIdsAreNamed
      <3> QED BY <3>1, <3>2
    <2>4. \A d, e \in Calls : Holds(call'[d]) => 
            /\ \A x \in Workspaces, v \in Users :
                 member[x][v].id = call'[d].row.id => x = call'[d].ws /\ v = call'[d].user
            /\ call'[e].row.id = call'[d].row.id => call'[e].ws = call'[d].ws /\ call'[e].user = call'[d].user
      <3> SUFFICES ASSUME NEW d \in Calls, NEW e \in Calls, Holds(call'[d])
                   PROVE  /\ \A x \in Workspaces, v \in Users :
                               member[x][v].id = call'[d].row.id => x = call'[d].ws /\ v = call'[d].user
                          /\ call'[e].row.id = call'[d].row.id =>
                               call'[e].ws = call'[d].ws /\ call'[e].user = call'[d].user
        OBVIOUS
      <3>1. CASE d = c
        BY <1>1, <2>3, <3>1 DEF Ws, User
      <3>2. CASE d # c /\ e = c
        <4>1. q.row.id = call[d].row.id => Holds(q)
          BY <1>1, <2>2, <3>2 DEF Sound
        <4> QED BY <1>1, <2>3, <3>2, <4>1 DEF TypeInv, HeldIdsAreNamed, Ws, User
      <3>3. CASE d # c /\ e # c
        BY <1>1, <3>3 DEF TypeInv, HeldIdsAreNamed, Ws, User
      <3> QED BY <3>1, <3>2, <3>3
    <2> QED BY <2>4 DEF HeldIdsAreNamed, Ws, User, Holds
  <1>6. CreationsAreApart'
    BY <1>1 DEF TypeInv, CreationsAreApart, At, Ws
  <1> QED BY <1>2, <1>3, <1>4, <1>5, <1>6 DEF TypeInv

(* A call that starts, one that only moves on or ends.                       *)
LEMMA StartKeepsTypes ==
  ASSUME TypeInv, NEW c \in Calls, StartCall(c)
  PROVE  TypeInv'
  <1>1. PICK q \in Slots : /\ call' = [call EXCEPT ![c] = q]
                           /\ Sound(q) /\ q.pc # "saveOwner" /\ ~Holds(q)
    <2> DEFINE Fresh(op, pc, by, w, u, role) ==
                 [op |-> op, pc |-> pc, by |-> by, ws |-> w, user |-> u, row |-> Row(None, role)]
    <2>1. PICK by \in Users : 
            \/ createWorkspace(c, by)
            \/ \E w \in Workspaces :
                 \/ updateWorkspace(c, by, w) \/ deleteWorkspace(c, by, w)
                 \/ \E u \in Users :
                      \/ removeUser(c, by, w, u)
                      \/ \E role \in UserRole : updateUserRole(c, by, w, u, role) \/ inviteUser(c, by, w, u, role)
      BY DEF StartCall
    <2>2. CASE createWorkspace(c, by)
      <3> DEFINE q == Fresh("create", "saveWorkspace", by, None, None, None)
      <3>1. q \in Slots /\ Sound(q) /\ ~Holds(q)
        BY DEF Slots, Ops, PCs, Rows, Row, Sound, Holds, Entitled, None
      <3> QED BY <2>2, <3>1 DEF createWorkspace, Start
    <2>3. ASSUME NEW w \in Workspaces, updateWorkspace(c, by, w) \/ deleteWorkspace(c, by, w)
          PROVE  \E q \in Slots : /\ call' = [call EXCEPT ![c] = q]
                                  /\ Sound(q) /\ q.pc # "saveOwner" /\ ~Holds(q)
      <3>1. w \in answered
        BY <2>3 DEF updateWorkspace, deleteWorkspace, Start
      <3>2. \A op \in {"update", "delete"} :
              /\ Fresh(op, "checkOwnership", by, w, None, None) \in Slots
              /\ Sound(Fresh(op, "checkOwnership", by, w, None, None))
              /\ ~Holds(Fresh(op, "checkOwnership", by, w, None, None))
        BY <3>1 DEF Slots, Ops, PCs, Rows, Row, Sound, Holds, Entitled, None
      <3> QED BY <2>3, <3>2 DEF updateWorkspace, deleteWorkspace, Start
    <2>4. ASSUME NEW w \in Workspaces, NEW u \in Users, removeUser(c, by, w, u)
          PROVE  \E q \in Slots : /\ call' = [call EXCEPT ![c] = q]
                                  /\ Sound(q) /\ q.pc # "saveOwner" /\ ~Holds(q)
      <3> DEFINE q == Fresh("remove", "checkOwnership", by, w, u, None)
      <3>1. w \in answered
        BY <2>4 DEF removeUser, Start
      <3>2. q \in Slots /\ Sound(q) /\ ~Holds(q)
        BY <3>1 DEF Slots, Ops, PCs, Rows, Row, Sound, Holds, Entitled, None
      <3> QED BY <2>4, <3>2 DEF removeUser, Start
    <2>5. ASSUME NEW w \in Workspaces, NEW u \in Users, NEW role \in UserRole,
                 updateUserRole(c, by, w, u, role) \/ inviteUser(c, by, w, u, role)
          PROVE  \E q \in Slots : /\ call' = [call EXCEPT ![c] = q]
                                  /\ Sound(q) /\ q.pc # "saveOwner" /\ ~Holds(q)
      <3>1. w \in answered
        BY <2>5 DEF updateUserRole, inviteUser, Start
      <3> DEFINE p == Fresh("updateRole", "checkOwnership", by, w, u, role)
                 q == Fresh("invite", "getInviter", by, w, u, role)
      <3>2. p \in Slots /\ Sound(p) /\ ~Holds(p)
        BY <3>1 DEF Slots, Ops, PCs, Rows, Row, Sound, Holds, Entitled, None
      <3>3. q \in Slots /\ Sound(q) /\ ~Holds(q)
        BY <3>1 DEF Slots, Ops, PCs, Rows, Row, Sound, Holds, Entitled, None
      <3>4. CASE updateUserRole(c, by, w, u, role)
        BY <3>2, <3>4 DEF updateUserRole, Start
      <3>5. CASE inviteUser(c, by, w, u, role)
        BY <3>3, <3>5 DEF inviteUser, Start
      <3> QED BY <2>5, <3>4, <3>5
    <2> QED BY <2>1, <2>2, <2>3, <2>4, <2>5
  <1>2. /\ UNCHANGED <<owner, member, creator, answered, revived, removed>>
        /\ appointed' \subseteq Workspaces
    BY DEF StartCall, createWorkspace, updateWorkspace, deleteWorkspace, removeUser, updateUserRole,
           inviteUser, Start, TypeInv, TypeOK
  <1> QED BY <1>1, <1>2, MoveKeepsTypes

LEMMA ReadsKeepTypes ==
  ASSUME TypeInv, NEW c \in Calls,
         \/ checkWorkspaceOwnership(c) \/ FindWorkspace(c) \/ FindWorkspaceOfUser(c)
         \/ FindMember(c) \/ FindWorkspaceOfRole(c) \/ GetInviter(c) \/ FindExisting(c) \/ Fails(c)
  PROVE  TypeInv'
  <1> DEFINE Kept(q) == /\ call' = [call EXCEPT ![c] = q]
                        /\ Sound(q) /\ q.pc # "saveOwner"
                        /\ Holds(q) => /\ q.ws = Ws(c) /\ q.user = User(c)
                                       /\ q.row.id \in {call[c].row.id, member[Ws(c)][User(c)].id}
             moved(pc) == [call[c] EXCEPT !.pc = pc]
  <1>1. call[c] \in Slots /\ Sound(call[c])
    BY DEF TypeInv, TypeOK, Slots
  <1>2. \E q \in Slots : Kept(q)
    <2>1. CASE checkWorkspaceOwnership(c)
      <3>0. owner[Ws(c)] = By(c) => call[c].by = creator[call[c].ws]
        BY <1>1, <2>1 DEF checkWorkspaceOwnership, At, Sound, TypeInv, TypeOK, Rooted, Ws, By, None
      <3>1. AfterOwnership[call[c].op] \in {"findWorkspace", "deleteWorkspace", "findWorkspaceOfUser", "findMember"}
        BY <1>1, <2>1 DEF checkWorkspaceOwnership, At, Sound, AfterOwnership
      <3>2. moved(AfterOwnership[call[c].op]) \in Slots
        BY <1>1, <3>1 DEF Slots, PCs
      <3>3. owner[Ws(c)] = By(c) => Sound(moved(AfterOwnership[call[c].op]))
        BY <1>1, <2>1, <3>1, <3>0 DEF checkWorkspaceOwnership, At, Sound, AfterOwnership, Slots, Holds, Entitled, None
      <3>4. ~Holds(moved(AfterOwnership[call[c].op]))
        BY <1>1, <3>1 DEF Holds, Slots
      <3> QED BY <2>1, <3>1, <3>2, <3>3, <3>4, IdleIsTyped, <1>1 DEF checkWorkspaceOwnership, Goto, End, Idle, None, Slots
    <2>2. CASE FindWorkspace(c)
      <3>1. moved("saveWorkspace") \in Slots /\ Sound(moved("saveWorkspace")) /\ ~Holds(moved("saveWorkspace"))
        BY <1>1, <2>2 DEF FindWorkspace, At, Sound, Slots, PCs, Holds, Entitled, None
      <3> QED BY <2>2, <3>1, IdleIsTyped DEF FindWorkspace, Goto, End, Idle, None, Slots
    <2>3. CASE FindWorkspaceOfUser(c)
      <3>1. moved("deleteMember") \in Slots /\ Sound(moved("deleteMember")) /\ ~Holds(moved("deleteMember"))
        BY <1>1, <2>3 DEF FindWorkspaceOfUser, At, Sound, Slots, PCs, Holds, Entitled, None
      <3> QED BY <2>3, <3>1, IdleIsTyped DEF FindWorkspaceOfUser, Goto, End, Idle, None, Slots
    <2>4. CASE FindMember(c)
      <3> DEFINE q == [call[c] EXCEPT !.pc = "findWorkspaceOfRole", !.row.id = member[Ws(c)][User(c)].id]
      <3>1. call' = [call EXCEPT ![c] = Idle] \/ (IsMember(Ws(c), User(c)) /\ call' = [call EXCEPT ![c] = q])
        BY <2>4 DEF FindMember, End
      <3>2. Ws(c) \in answered /\ User(c) \in Users /\ call[c].op = "updateRole" /\ Ws(c) \in Workspaces
            /\ call[c].row.role \in UserRole /\ call[c].by \in Users
            /\ call[c].by = creator[Ws(c)]
        BY <1>1, <2>4 DEF FindMember, At, Sound, Entitled, Ws, User, None, TypeInv, TypeOK
      <3>3. CASE IsMember(Ws(c), User(c))
        <4>1. member[Ws(c)][User(c)].id \in MemberIds
          BY <3>2, <3>3 DEF TypeInv, Peopled
        <4>2. /\ q.op = "updateRole" /\ q.pc = "findWorkspaceOfRole" /\ q.by = call[c].by /\ q.ws = Ws(c)
              /\ q.user = User(c) /\ q.row.id = member[Ws(c)][User(c)].id /\ q.row.role = call[c].row.role
              /\ q \in Slots
          BY <1>1, <3>2, <4>1 DEF Slots, PCs, Ops, Rows, Ws, User
        <4> HIDE DEF q
        <4>3. Sound(q)
          BY <3>2, <4>1, <4>2 DEF Sound, Holds, Entitled, None
        <4> QED BY <3>1, <3>2, <4>1, <4>2, <4>3, IdleIsTyped DEF Idle, None
      <3> QED BY <3>1, <3>3, IdleIsTyped DEF Idle, None
    <2>5. CASE FindWorkspaceOfRole(c)
      <3>1. moved("saveRole") \in Slots /\ Sound(moved("saveRole"))
        BY <1>1, <2>5 DEF FindWorkspaceOfRole, At, Sound, Slots, PCs, Holds, Entitled, None
      <3>2. moved("saveRole").ws = Ws(c) /\ moved("saveRole").user = User(c)
            /\ moved("saveRole").row = call[c].row /\ moved("saveRole").pc = "saveRole"
        BY <1>1 DEF Slots, Ws, User
      <3> QED BY <2>5, <3>1, <3>2, IdleIsTyped DEF FindWorkspaceOfRole, Goto, End, Idle, None
    <2>6. CASE GetInviter(c)
      <3>1. moved("findExisting") \in Slots /\ Sound(moved("findExisting")) /\ ~Holds(moved("findExisting"))
        BY <1>1, <2>6 DEF GetInviter, At, Sound, Slots, PCs, Holds, Entitled, None
      <3> QED BY <2>6, <3>1, IdleIsTyped DEF GetInviter, Goto, End, Idle, None, Slots
    <2>7. CASE FindExisting(c)
      <3>1. moved("saveMember") \in Slots /\ Sound(moved("saveMember")) /\ ~Holds(moved("saveMember"))
        BY <1>1, <2>7 DEF FindExisting, At, Sound, Slots, PCs, Holds, Entitled, None
      <3> QED BY <2>7, <3>1, IdleIsTyped DEF FindExisting, Goto, End, Idle, None, Slots
    <2>8. CASE Fails(c)
      BY <2>8, IdleIsTyped DEF Fails, End, Idle, None
    <2> QED BY <2>1, <2>2, <2>3, <2>4, <2>5, <2>6, <2>7, <2>8
  <1>3. UNCHANGED <<owner, member, creator, answered, revived, removed, appointed>>
    BY DEF checkWorkspaceOwnership, FindWorkspace, FindWorkspaceOfUser, FindMember, FindWorkspaceOfRole,
           GetInviter, FindExisting, Fails, history
  <1> QED BY <1>2, <1>3, MoveKeepsTypes DEF TypeInv, TypeOK

(* A call ends.                                                              *)
LEMMA EndKeepsCalls ==
  ASSUME TypeInv, NEW c \in Calls, End(c), creator' = creator,
         answered' = answered \/ (At(c, "saveOwner") /\ answered' = answered \union {Ws(c)})
  PROVE  /\ call' \in [Calls -> Slots]
         /\ call'[c] = Idle
         /\ \A d \in Calls : d # c => call'[d] = call[d]
         /\ \A d \in Calls : Sound(call[d])'
         /\ CreationsAreApart'
  <1>1. /\ call' \in [Calls -> Slots]
        /\ call'[c] = Idle
        /\ \A d \in Calls : d # c => call'[d] = call[d]
    BY SlotEffect, IdleIsTyped DEF End, TypeInv
  <1>2. \A d \in Calls : d # c => Sound(call[d])'
    <2>1. \A d \in Calls : At(d, "saveOwner") /\ d # c => Ws(d) \notin answered'
      BY DEF TypeInv, CreationsAreApart, Sound, At, Ws
    <2> QED BY <1>1, <2>1 DEF TypeInv, Sound, Holds, Entitled, At, Ws
  <1>3. CreationsAreApart'
    BY <1>1 DEF TypeInv, CreationsAreApart, At, Ws, Idle, None
  <1>4. Sound(call[c])'
    BY <1>1 DEF Sound, Holds, Entitled, Idle, NoRow, None
  <1> QED BY <1>1, <1>2, <1>3, <1>4

RowsAreApart == \A x \in Workspaces, v \in Users : IsMember(x, v) =>
  \A y \in Workspaces, t \in Users : member[y][t].id = member[x][v].id => y = x /\ t = v

(* What a call may write as the row of user u of workspace w.                *)
Fits(w, u, row) ==
  \/ row = NoRow
  \/ /\ Exists(w)
     /\ row.id \in MemberIds /\ row.role \in UserRole
     /\ \A x \in Workspaces, v \in Users : member[x][v].id = row.id => x = w /\ v = u
     /\ \A d \in Calls : Holds(call[d]) /\ call[d].row.id = row.id => Ws(d) = w /\ User(d) = u

LEMMA NewRowFits ==
  ASSUME NEW w \in Workspaces, NEW u \in Users, NEW role \in UserRole, MayInsert, Exists(w)
  PROVE  Row(NewId, role) \in Rows /\ Fits(w, u, Row(NewId, role)) /\ Row(NewId, role).role = role
  <1>1. Row(NewId, role) \in Rows /\ Row(NewId, role).id = NewId /\ Row(NewId, role).role = role
    BY NewIdIsFresh DEF Row, Rows
  <1> QED BY <1>1, NewIdIsFresh DEF Fits

(* A call writes the row of one member and ends.                             *)
LEMMA WriteKeepsRows ==
  ASSUME TypeInv, NEW c \in Calls, NEW w \in Workspaces, NEW u \in Users, NEW row \in Rows,
         member' = SetRow(w, u, row),
         Fits(w, u, row), w \in answered', owner' = owner, answered \subseteq answered',
         call'[c] = Idle, \A d \in Calls : d # c => call'[d] = call[d]
  PROVE  /\ member' \in [Workspaces -> [Users -> Rows]]
         /\ \A x \in Workspaces : Peopled(x)'
         /\ HeldIdsAreNamed'
         /\ RowsAreApart'
  <1>1. /\ member' \in [Workspaces -> [Users -> Rows]]
        /\ member'[w][u] = row
        /\ \A x \in Workspaces, v \in Users : x # w \/ v # u => member'[x][v] = member[x][v]
    <2>1. TypeOK
      BY DEF TypeInv
    <2> QED BY <2>1, RowEffect
  <1>2. row = NoRow \/ row.id # None
    BY DEF Fits
  <1>3. \A x \in Workspaces : Peopled(x)'
    BY <1>1 DEF Fits, TypeInv, Peopled, IsMember, Exists
  <1>4. \A d \in Calls : /\ Holds(call[d]) => call[d].row.id # None
                         /\ call[d].row.id # None => Holds(call[d])
    BY DEF TypeInv, Sound
  <1>5. \A d, e \in Calls : Holds(call'[d]) =>
          /\ \A x \in Workspaces, v \in Users :
               member'[x][v].id = call'[d].row.id => x = call'[d].ws /\ v = call'[d].user
          /\ call'[e].row.id = call'[d].row.id => call'[e].ws = call'[d].ws /\ call'[e].user = call'[d].user
    <2> SUFFICES ASSUME NEW d \in Calls, NEW e \in Calls, Holds(call'[d])
                 PROVE  /\ \A x \in Workspaces, v \in Users :
                             member'[x][v].id = call'[d].row.id => x = call'[d].ws /\ v = call'[d].user
                        /\ call'[e].row.id = call'[d].row.id =>
                             call'[e].ws = call'[d].ws /\ call'[e].user = call'[d].user
      OBVIOUS
    <2>1. d # c /\ call'[d] = call[d]
      BY IdleIsTyped
    <2>2. \A x \in Workspaces, v \in Users :
            member'[x][v].id = call[d].row.id => x = call[d].ws /\ v = call[d].user
      BY <1>1, <1>4, <2>1, NoRowIsTyped DEF Fits, TypeInv, HeldIdsAreNamed, Ws, User
    <2>3. call'[e].row.id = call[d].row.id => e # c
      BY <1>4, <2>1 DEF Idle, NoRow
    <2> QED BY <2>1, <2>2, <2>3 DEF TypeInv, HeldIdsAreNamed, Ws, User
  <1>6. HeldIdsAreNamed'
    BY <1>5 DEF HeldIdsAreNamed, Ws, User
  <1>7. RowsAreApart
    BY DEF TypeInv, TypeOK, RowsAreApart
  <1>8. \A x \in Workspaces, v \in Users : IsMember(x, v) => member[x][v].id # None
    BY DEF TypeInv, Peopled
  <1>9. RowsAreApart'
    BY <1>1, <1>2, <1>7, <1>8, NoRowIsTyped DEF Fits, RowsAreApart, IsMember
  <1> QED BY <1>1, <1>3, <1>6, <1>9

LEMMA InsertWorkspaceKeepsTypes ==
  ASSUME TypeInv, NEW c \in Calls, NEW w \in Workspaces, InsertWorkspace(c, w)
  PROVE  TypeInv'
  <1>1. /\ call[c] \in Slots /\ Sound(call[c]) /\ By(c) \in Users
        /\ call[c].op = "create" /\ call[c].row.id = None
    BY DEF TypeInv, TypeOK, Slots, InsertWorkspace, At, Sound, Holds, Entitled, By, None
  <1>2. PICK q \in Slots :
           /\ call' = [call EXCEPT ![c] = q]
           /\ q.op = "create" /\ q.pc = "saveOwner" /\ q.by = By(c) /\ q.ws = w
           /\ q.row = call[c].row /\ ~Holds(q)
    <2> DEFINE q == [call[c] EXCEPT !.pc = "saveOwner", !.ws = w]
    <2>1. /\ q \in Slots /\ q.op = "create" /\ q.pc = "saveOwner" /\ q.by = By(c) /\ q.ws = w
          /\ q.row = call[c].row /\ ~Holds(q)
      BY <1>1 DEF Slots, PCs, By, Holds
    <2> QED BY <2>1 DEF InsertWorkspace
  <1>4. /\ call' \in [Calls -> Slots]
        /\ call'[c] = q
        /\ \A d \in Calls : d # c => call'[d] = call[d]
    BY <1>2, SlotEffect DEF TypeInv
  <1>5. /\ owner' \in [Workspaces -> Users \union {None}] /\ creator' \in [Workspaces -> Users \union {None}]
        /\ owner'[w] = By(c) /\ creator'[w] = By(c)
        /\ \A x \in Workspaces : x # w => owner'[x] = owner[x] /\ creator'[x] = creator[x]
    BY <1>1 DEF TypeInv, TypeOK, InsertWorkspace
  <1>6. w \notin answered /\ creator[w] = None
    BY DEF InsertWorkspace, TypeInv, Rooted
  <1>7. \A d \in Calls : At(d, "saveOwner") => Ws(d) # w
    BY <1>6 DEF TypeInv, TypeOK, Sound, At, Ws, None
  <1>8. \A d \in Calls : Sound(call[d])'
    <2>1. Sound(q)'
      BY <1>1, <1>2, <1>5, <1>6 DEF InsertWorkspace, Sound, Holds, Entitled, None, Slots
    <2>2. \A d \in Calls : Entitled(call[d]) => call[d].ws \in Workspaces /\ call[d].ws # w
      BY <1>6 DEF TypeInv, TypeOK, Sound, Entitled, Holds, None
    <2>3. \A d \in Calls : call[d].pc = "saveOwner" => call[d].ws \in Workspaces /\ call[d].ws # w
      BY <1>7 DEF TypeInv, TypeOK, Sound, At, Ws
    <2>4. ASSUME NEW d \in Calls, d # c PROVE Sound(call[d])'
      <3>1. call'[d] = call[d] /\ Sound(call[d]) /\ answered' = answered
        BY <1>4, <2>4 DEF TypeInv, InsertWorkspace
      <3>2. Entitled(call[d])' <=> Entitled(call[d])
        BY <3>1 DEF Entitled, Holds
      <3>3. (Entitled(call[d]) \/ call[d].pc = "saveOwner") => creator'[call[d].ws] = creator[call[d].ws]
        BY <1>5, <2>2, <2>3
      <3> QED BY <3>1, <3>2, <3>3 DEF Sound, Holds
    <2> QED BY <1>4, <2>1, <2>4
  <1>9. \A x \in Workspaces : Rooted(x)' /\ Peopled(x)'
    BY <1>1, <1>5, <1>6 DEF InsertWorkspace, TypeInv, Rooted, Peopled, IsMember, Exists
  <1>10. HeldIdsAreNamed'
    BY <1>1, <1>2, <1>4 DEF InsertWorkspace, TypeInv, HeldIdsAreNamed, Sound, Holds, Entitled, Ws, User
  <1>11. CreationsAreApart'
    BY <1>2, <1>4, <1>7 DEF TypeInv, CreationsAreApart, At, Ws
  <1>12. TypeOK'
    BY <1>1, <1>4, <1>5 DEF InsertWorkspace, TypeInv, TypeOK, IsMember, Exists, Slots
  <1> QED BY <1>8, <1>9, <1>10, <1>11, <1>12 DEF TypeInv

LEMMA InsertOwnerKeepsTypes ==
  ASSUME TypeInv, NEW c \in Calls, InsertOwner(c)
  PROVE  TypeInv'
  <1>1. /\ Ws(c) \in Workspaces \ answered /\ By(c) \in Users /\ creator[Ws(c)] = By(c)
        /\ owner[Ws(c)] = By(c) /\ By(c) # None /\ Exists(Ws(c))
    BY DEF InsertOwner, TypeInv, Sound, Rooted, At, Ws, By, None, Exists
  <1>2. PICK row \in Rows : member' = SetRow(Ws(c), By(c), row) /\ Fits(Ws(c), By(c), row)
    BY <1>1, NewRowFits DEF InsertOwner, SetRow, UserRole
  <1>3. owner' = owner /\ answered' = answered \union {Ws(c)}
    BY DEF InsertOwner
  <1>4. /\ call' \in [Calls -> Slots]
        /\ call'[c] = Idle
        /\ \A d \in Calls : d # c => call'[d] = call[d]
        /\ \A d \in Calls : Sound(call[d])'
        /\ CreationsAreApart'
    BY EndKeepsCalls DEF InsertOwner
  <1>5. /\ member' \in [Workspaces -> [Users -> Rows]]
        /\ \A x \in Workspaces : Peopled(x)'
        /\ HeldIdsAreNamed'
        /\ RowsAreApart'
    BY <1>1, <1>2, <1>3, <1>4, WriteKeepsRows
  <1>6. \A x \in Workspaces : Rooted(x)'
    BY <1>1, <1>3 DEF InsertOwner, TypeInv, Rooted
  <1>7. TypeOK'
    BY <1>1, <1>4, <1>5 DEF InsertOwner, TypeInv, TypeOK, Slots, Peopled, RowsAreApart
  <1> QED BY <1>4, <1>5, <1>6, <1>7 DEF TypeInv

(* Rows of members go, none changes.                                         *)
LEMMA ThinningKeepsRows ==
  ASSUME TypeInv, NEW c \in Calls, member' \in [Workspaces -> [Users -> Rows]],
         \A x \in Workspaces, v \in Users : member'[x][v] \in {member[x][v], NoRow},
         call'[c] = Idle, \A d \in Calls : d # c => call'[d] = call[d]
  PROVE  HeldIdsAreNamed' /\ RowsAreApart'
  <1>1. \A d \in Calls : /\ Holds(call[d]) => call[d].row.id # None
                         /\ call[d].row.id # None => Holds(call[d])
    BY DEF TypeInv, Sound
  <1>2. \A d, e \in Calls : Holds(call'[d]) =>
          /\ \A x \in Workspaces, v \in Users :
               member'[x][v].id = call'[d].row.id => x = call'[d].ws /\ v = call'[d].user
          /\ call'[e].row.id = call'[d].row.id => call'[e].ws = call'[d].ws /\ call'[e].user = call'[d].user
    <2> SUFFICES ASSUME NEW d \in Calls, NEW e \in Calls, Holds(call'[d])
                 PROVE  /\ \A x \in Workspaces, v \in Users :
                             member'[x][v].id = call'[d].row.id => x = call'[d].ws /\ v = call'[d].user
                        /\ call'[e].row.id = call'[d].row.id =>
                             call'[e].ws = call'[d].ws /\ call'[e].user = call'[d].user
      OBVIOUS
    <2>1. d # c /\ call'[d] = call[d]
      BY IdleIsTyped
    <2>2. \A x \in Workspaces, v \in Users :
            member'[x][v].id = call[d].row.id => x = call[d].ws /\ v = call[d].user
      BY <1>1, <2>1, NoRowIsTyped DEF TypeInv, HeldIdsAreNamed, Ws, User
    <2>3. call'[e].row.id = call[d].row.id => e # c
      BY <1>1, <2>1 DEF Idle, NoRow
    <2> QED BY <2>1, <2>2, <2>3 DEF TypeInv, HeldIdsAreNamed, Ws, User
  <1>3. HeldIdsAreNamed'
    BY <1>2 DEF HeldIdsAreNamed, Ws, User
  <1>4. RowsAreApart
    BY DEF TypeInv, TypeOK, RowsAreApart
  <1>5. \A x \in Workspaces, v \in Users : IsMember(x, v) => member[x][v].id # None
    BY DEF TypeInv, Peopled
  <1>6. RowsAreApart'
    BY <1>4, <1>5, NoRowIsTyped DEF RowsAreApart, IsMember
  <1> QED BY <1>3, <1>6

LEMMA WorkspaceWritesKeepTypes ==
  ASSUME TypeInv, NEW c \in Calls, SaveWorkspace(c) \/ DeleteWorkspace(c)
  PROVE  TypeInv'
  <1>1. /\ Ws(c) \in Workspaces /\ Ws(c) \in answered /\ By(c) \in Users /\ By(c) = creator[Ws(c)]
        /\ By(c) # None
    BY DEF SaveWorkspace, DeleteWorkspace, TypeInv, TypeOK, Sound, Entitled, At, Ws, By, None
  <1>2. /\ call' \in [Calls -> Slots]
        /\ call'[c] = Idle
        /\ \A d \in Calls : d # c => call'[d] = call[d]
        /\ \A d \in Calls : Sound(call[d])'
        /\ CreationsAreApart'
    BY EndKeepsCalls DEF SaveWorkspace, DeleteWorkspace, history
  <1>3. /\ owner' \in [Workspaces -> Users \union {None}]
        /\ owner'[Ws(c)] \in {None, By(c)}
        /\ \A x \in Workspaces : x # Ws(c) => owner'[x] = owner[x]
    <2>1. owner' = [owner EXCEPT ![Ws(c)] = By(c)] \/ owner' = [owner EXCEPT ![Ws(c)] = None]
      BY DEF SaveWorkspace, DeleteWorkspace
    <2>2. owner \in [Workspaces -> Users \union {None}]
      BY DEF TypeInv, TypeOK
    <2> QED BY <1>1, <2>1, <2>2
  <1>4. /\ member' \in [Workspaces -> [Users -> Rows]]
        /\ \A x \in Workspaces, v \in Users : member'[x][v] \in {member[x][v], NoRow}
        /\ \A x \in Workspaces, v \in Users : member'[x][v] # NoRow => owner'[x] # None
    <2>1. CASE SaveWorkspace(c)
      BY <1>1, <2>1 DEF SaveWorkspace, TypeInv, TypeOK, IsMember, Exists
    <2>2. CASE DeleteWorkspace(c)
      <3>1. /\ member' \in [Workspaces -> [Users -> Rows]]
            /\ \A v \in Users : member'[Ws(c)][v] = NoRow
            /\ \A x \in Workspaces : x # Ws(c) => member'[x] = member[x]
        BY <1>1, <2>2, NoRowIsTyped DEF DeleteWorkspace, TypeInv, TypeOK
      <3> QED BY <1>1, <1>3, <3>1, NoRowIsTyped DEF TypeInv, Peopled, IsMember, Exists
    <2> QED BY <2>1, <2>2
  <1>5. HeldIdsAreNamed' /\ RowsAreApart'
    BY <1>2, <1>4, ThinningKeepsRows
  <1>6. /\ UNCHANGED <<creator, answered, removed, appointed>>
        /\ revived' \in {revived, revived \union {Ws(c)}}
    BY DEF SaveWorkspace, DeleteWorkspace, history
  <1>7. \A x \in Workspaces : Rooted(x)' /\ Peopled(x)'
    BY <1>1, <1>3, <1>4, <1>6 DEF TypeInv, Rooted, Peopled, IsMember, Exists
  <1>8. TypeOK'
    BY <1>1, <1>2, <1>3, <1>4, <1>5, <1>6, <1>7 DEF TypeInv, TypeOK, Slots, Peopled, RowsAreApart
  <1> QED BY <1>2, <1>5, <1>7, <1>8 DEF TypeInv

LEMMA MemberWritesKeepTypes ==
  ASSUME TypeInv, NEW c \in Calls, DeleteMember(c) \/ SaveRole(c) \/ SaveMember(c)
  PROVE  TypeInv'
  <1>1. /\ Ws(c) \in Workspaces /\ Ws(c) \in answered /\ User(c) \in Users
        /\ call[c] \in Slots /\ Sound(call[c])
    BY DEF DeleteMember, SaveRole, SaveMember, TypeInv, TypeOK, Sound, At, Ws, User, None, Slots, Holds
  <1>2. /\ call' \in [Calls -> Slots]
        /\ call'[c] = Idle
        /\ \A d \in Calls : d # c => call'[d] = call[d]
        /\ \A d \in Calls : Sound(call[d])'
        /\ CreationsAreApart'
    BY EndKeepsCalls DEF DeleteMember, SaveRole, SaveMember, history
  <1>3. /\ UNCHANGED <<owner, creator, answered, revived, appointed>>
        /\ removed' \subseteq Workspaces \X Users
    BY <1>1 DEF DeleteMember, SaveRole, SaveMember, history, TypeInv, TypeOK
  <1>4. \/ member' = member
        \/ \E row \in Rows : member' = SetRow(Ws(c), User(c), row) /\ Fits(Ws(c), User(c), row)
    <2>1. CASE DeleteMember(c)
      <3>1. member' = SetRow(Ws(c), User(c), NoRow)
        BY <2>1 DEF DeleteMember, SetRow
      <3> QED BY <3>1, NoRowIsTyped DEF Fits
    <2>2. CASE SaveRole(c)
      <3>1. member' = member \/ (Exists(Ws(c)) /\ member' = SetRow(Ws(c), User(c), call[c].row))
        BY <2>2 DEF SaveRole, SetRow
      <3>2. /\ call[c].row \in Rows /\ call[c].row.id \in MemberIds /\ call[c].row.role \in UserRole
            /\ Holds(call[c])
        BY <1>1, <2>2 DEF Slots, Sound, SaveRole, At, Rows, Holds
      <3>3. Exists(Ws(c)) => Fits(Ws(c), User(c), call[c].row)
        BY <3>2 DEF Fits, TypeInv, HeldIdsAreNamed
      <3> QED BY <3>1, <3>2, <3>3
    <2>3. CASE SaveMember(c)
      <3>1. /\ MayInsert
            /\ \/ member' = member
               \/ Exists(Ws(c)) /\ member' = SetRow(Ws(c), User(c), Row(NewId, Role(c)))
        BY <2>3 DEF SaveMember, SetRow
      <3>2. Role(c) \in UserRole
        BY <1>1, <2>3 DEF SaveMember, At, Sound, Role
      <3> QED BY <1>1, <3>1, <3>2, NewRowFits
    <2> QED BY <2>1, <2>2, <2>3
  <1>5. /\ member' \in [Workspaces -> [Users -> Rows]]
        /\ \A x \in Workspaces : Peopled(x)'
        /\ HeldIdsAreNamed'
        /\ RowsAreApart'
    <2>1. CASE member' = member
      <3>1. member' \in [Workspaces -> [Users -> Rows]]
        BY <2>1 DEF TypeInv, TypeOK
      <3> QED BY <1>2, <1>3, <2>1, <3>1, ThinningKeepsRows DEF TypeInv, Peopled, IsMember, Exists
    <2>2. CASE \E row \in Rows : member' = SetRow(Ws(c), User(c), row) /\ Fits(Ws(c), User(c), row)
      BY <1>1, <1>2, <1>3, <2>2, WriteKeepsRows
    <2> QED BY <1>4, <2>1, <2>2
  <1>6. \A x \in Workspaces : Rooted(x)'
    BY <1>3 DEF TypeInv, Rooted
  <1>7. TypeOK'
    BY <1>2, <1>3, <1>5 DEF TypeInv, TypeOK, Slots, Peopled, RowsAreApart
  <1> QED BY <1>2, <1>5, <1>6, <1>7 DEF TypeInv

LEMMA TypeStep == TypeInv /\ [Next]_vars => TypeInv'
  <1> SUFFICES ASSUME TypeInv, [Next]_vars PROVE TypeInv'
    OBVIOUS
  <1>1. CASE UNCHANGED vars
    BY <1>1 DEF vars, TypeInv, TypeOK, Sound, Holds, Entitled, Rooted, Peopled, HeldIdsAreNamed,
                CreationsAreApart, IsMember, Exists, At, Ws, User
  <1>2. ASSUME NEW c \in Calls, StartCall(c) PROVE TypeInv'
    BY <1>2, StartKeepsTypes
  <1>3. ASSUME NEW c \in Calls, Step(c) PROVE TypeInv'
    BY <1>3, InsertWorkspaceKeepsTypes, InsertOwnerKeepsTypes, ReadsKeepTypes,
       WorkspaceWritesKeepTypes, MemberWritesKeepTypes DEF Step
  <1>4. ASSUME NEW c \in Calls, DeleteWorkspace(c) \/ Fails(c) PROVE TypeInv'
    BY <1>4, ReadsKeepTypes, WorkspaceWritesKeepTypes
  <1> QED BY <1>1, <1>2, <1>3, <1>4 DEF Next

LEMMA TypeInvariance == Spec => []TypeInv
  BY TypeInit, TypeStep, PTL DEF Spec

(* TypeOK: the state keeps its types, the members are those of workspaces    *)
(* that exist, and no two rows have one id, however the calls interleave.    *)
THEOREM TypeCorrectness == Spec => []TypeOK
  <1>1. TypeInv => TypeOK
    BY DEF TypeInv
  <1> QED BY <1>1, TypeInvariance, PTL

-----------------------------------------------------------------------------
(* What a step of call c does to what the proofs below are about.            *)

Moves(c) == Step(c) \/ DeleteWorkspace(c) \/ Fails(c)

(* The rows of members: kept, gone, or written by one of three saves.        *)
RolesChangedBy(c) == \A x \in Workspaces, v \in Users :
  \/ member'[x][v] = member[x][v]
  \/ /\ member'[x][v] = NoRow
     /\ \/ DeleteMember(c) /\ x = Ws(c) /\ v = User(c)
        \/ DeleteWorkspace(c) /\ x = Ws(c) /\ ~Exists(x)'
  \/ /\ SaveRole(c) /\ x = Ws(c) /\ v = User(c) /\ Exists(x)
     /\ getUserRole(x, v)' = Role(c)
  \/ /\ SaveMember(c) /\ x = Ws(c) /\ v = User(c) /\ Exists(x) /\ ~IsMember(x, v)
     /\ getUserRole(x, v)' = Role(c)
  \/ /\ InsertOwner(c) /\ x = Ws(c) /\ v = By(c)
     /\ getUserRole(x, v)' = "owner"

LEMMA RoleEffect ==
  ASSUME TypeInv, NEW c \in Calls, Moves(c)
  PROVE  RolesChangedBy(c)
  <1>0. TypeOK
    BY DEF TypeInv
  <1>1. CASE DeleteMember(c)
    <2>1. Ws(c) \in Workspaces /\ User(c) \in Users
      BY <1>1 DEF DeleteMember, TypeInv, TypeOK, Sound, At, Ws, User, None
    <2>2. member' = SetRow(Ws(c), User(c), NoRow)
      BY <1>1 DEF DeleteMember, SetRow
    <2> QED BY <1>0, <1>1, <2>1, <2>2, RowEffect, NoRowIsTyped DEF RolesChangedBy
  <1>2. CASE SaveRole(c)
    <2>1. Ws(c) \in Workspaces /\ User(c) \in Users /\ call[c].row \in Rows
      BY <1>2 DEF SaveRole, TypeInv, TypeOK, Sound, Holds, At, Ws, User, None
    <2>2. \/ member' = member
          \/ Exists(Ws(c)) /\ member' = SetRow(Ws(c), User(c), call[c].row)
      BY <1>2 DEF SaveRole, SetRow
    <2> QED BY <1>0, <1>2, <2>1, <2>2, RowEffect DEF RolesChangedBy, Role, getUserRole
  <1>3. CASE SaveMember(c)
    <2>1. Ws(c) \in Workspaces /\ User(c) \in Users /\ Role(c) \in UserRole
      BY <1>3 DEF SaveMember, TypeInv, TypeOK, Sound, At, Ws, User, Role, None
    <2>2. \/ member' = member
          \/ /\ Exists(Ws(c)) /\ ~IsMember(Ws(c), User(c)) /\ MayInsert
             /\ member' = SetRow(Ws(c), User(c), Row(NewId, Role(c)))
      BY <1>3 DEF SaveMember, SetRow
    <2>3. MayInsert => Row(NewId, Role(c)) \in Rows /\ Row(NewId, Role(c)).role = Role(c)
      BY <2>1, NewIdIsFresh DEF Row, Rows
    <2> QED BY <1>0, <1>3, <2>1, <2>2, <2>3, RowEffect DEF RolesChangedBy, getUserRole
  <1>4. CASE InsertOwner(c)
    <2>1. Ws(c) \in Workspaces /\ By(c) \in Users
      BY <1>4 DEF InsertOwner, TypeInv, TypeOK, Sound, At, Ws, By, None
    <2>2. /\ member' = SetRow(Ws(c), By(c), Row(NewId, "owner"))
          /\ Row(NewId, "owner") \in Rows /\ Row(NewId, "owner").role = "owner"
      BY <1>4, NewIdIsFresh DEF InsertOwner, SetRow, Row, Rows, UserRole
    <2> QED BY <1>0, <1>4, <2>1, <2>2, RowEffect DEF RolesChangedBy, getUserRole
  <1>5. CASE DeleteWorkspace(c)
    <2>1. Ws(c) \in Workspaces
      BY <1>5 DEF DeleteWorkspace, TypeInv, TypeOK, Sound, At, Ws, None
    <2>2. /\ \A v \in Users : member'[Ws(c)][v] = NoRow
          /\ \A x \in Workspaces : x # Ws(c) => member'[x] = member[x]
          /\ owner'[Ws(c)] = None
      <3>1. owner \in [Workspaces -> Users \union {None}] /\ member \in [Workspaces -> [Users -> Rows]]
        BY <1>0 DEF TypeOK
      <3>2. owner'[Ws(c)] = None /\ member' = [member EXCEPT ![Ws(c)] = [u \in Users |-> NoRow]]
        BY <1>5, <2>1, <3>1 DEF DeleteWorkspace
      <3> QED BY <2>1, <3>1, <3>2
    <2>3. ASSUME NEW x \in Workspaces, NEW v \in Users
          PROVE  \/ member'[x][v] = member[x][v]
                 \/ member'[x][v] = NoRow /\ DeleteWorkspace(c) /\ x = Ws(c) /\ ~Exists(x)'
      BY <1>5, <2>2 DEF Exists
    <2> QED BY <2>3 DEF RolesChangedBy
  <1>6. CASE member' = member
    BY <1>6 DEF RolesChangedBy
  <1> QED BY <1>1, <1>2, <1>3, <1>4, <1>5, <1>6 DEF Moves, Step, InsertWorkspace, checkWorkspaceOwnership,
            FindWorkspace, SaveWorkspace, FindWorkspaceOfUser, FindMember, FindWorkspaceOfRole,
            GetInviter, FindExisting, Fails

(* The rows of workspaces, and what is remembered about them.                *)
OwnersChangedBy(c) == \A x \in Workspaces :
  /\ x \in answered => creator'[x] = creator[x]
  /\ x \in answered' => x \in answered \/ (InsertOwner(c) /\ x = Ws(c))
  /\ x \in answered /\ Exists(x)' => Exists(x) \/ x \in revived'
  /\ x \in revived => x \in revived'
  /\ x \in answered => x \in answered'
  /\ Exists(x)' /\ x \in answered' => owner'[x] = creator'[x]

LEMMA OwnerEffect ==
  ASSUME TypeInv, NEW c \in Calls, Moves(c)
  PROVE  OwnersChangedBy(c) /\ appointed' = appointed
  <1>1. TypeInv'
    BY TypeStep DEF Next, Moves
  <1>2. /\ creator' = creator \/ \E w \in Workspaces : InsertWorkspace(c, w)
        /\ owner' = owner \/ SaveWorkspace(c) \/ DeleteWorkspace(c) \/ \E w \in Workspaces : InsertWorkspace(c, w)
        /\ answered' = answered \/ (InsertOwner(c) /\ answered' = answered \union {Ws(c)})
        /\ appointed' = appointed
        /\ revived' = revived \/ SaveWorkspace(c)
    BY DEF Moves, Step, InsertWorkspace, InsertOwner, SaveMember, checkWorkspaceOwnership,
           FindWorkspace, SaveWorkspace, FindWorkspaceOfUser, DeleteMember, FindMember, FindWorkspaceOfRole,
           SaveRole, GetInviter, FindExisting, DeleteWorkspace, Fails, history
  <1>3. ASSUME NEW x \in Workspaces PROVE x \in answered => creator'[x] = creator[x]
    <2>1. x \in answered => creator[x] # None
      BY DEF TypeInv, Rooted
    <2> QED BY <1>2, <2>1 DEF InsertWorkspace, TypeInv, TypeOK
  <1>4. ASSUME NEW x \in Workspaces, x \in answered, Exists(x)', ~Exists(x) PROVE x \in revived'
    <2>1. owner \in [Workspaces -> Users \union {None}]
      BY DEF TypeInv, TypeOK
    <2>2. ~\E w \in Workspaces : InsertWorkspace(c, w) /\ w = x
      BY <1>4 DEF TypeInv, Rooted, InsertWorkspace
    <2>3. SaveWorkspace(c) /\ x = Ws(c)
      BY <1>2, <1>4, <2>1, <2>2 DEF SaveWorkspace, DeleteWorkspace, InsertWorkspace, Exists
    <2> QED BY <1>4, <2>3 DEF SaveWorkspace
  <1>5. \A x \in Workspaces : x \in revived => x \in revived'
    BY <1>2 DEF SaveWorkspace
  <1>6. \A x \in Workspaces : Exists(x)' => owner'[x] = creator'[x]
    BY <1>1 DEF TypeInv, Rooted, Exists
  <1> QED BY <1>2, <1>3, <1>4, <1>5, <1>6 DEF OwnersChangedBy

(* The calls: the others stay, c moves on with what it has, or ends.         *)
Successors == [saveWorkspace |-> {"saveOwner"},
               checkOwnership |-> {"findWorkspace", "deleteWorkspace", "findWorkspaceOfUser", "findMember"},
               findWorkspace |-> {"saveWorkspace"}, findWorkspaceOfUser |-> {"deleteMember"},
               findMember |-> {"findWorkspaceOfRole"}, findWorkspaceOfRole |-> {"saveRole"},
               getInviter |-> {"findExisting"}, findExisting |-> {"saveMember"}]

LEMMA CallEffect ==
  ASSUME TypeInv, NEW c \in Calls, Moves(c)
  PROVE  /\ \A d \in Calls : d # c => call'[d] = call[d]
         /\ \/ call'[c] = Idle
            \/ /\ call[c].pc \in DOMAIN Successors /\ call'[c].pc \in Successors[call[c].pc]
               /\ call'[c].op = call[c].op /\ call'[c].by = call[c].by
               /\ call'[c].user = call[c].user /\ call'[c].row.role = call[c].row.role
               /\ call'[c].ws = call[c].ws \/ call'[c].pc = "saveOwner"
  <1> DEFINE moved(pc) == [call[c] EXCEPT !.pc = pc]
  <1>1. call \in [Calls -> Slots] /\ call[c] \in Slots /\ Sound(call[c])
    BY DEF TypeInv, TypeOK, Slots
  <1>2. CASE call' = [call EXCEPT ![c] = Idle]
    BY <1>1, <1>2
  <1>3. ASSUME NEW pc, call' = [call EXCEPT ![c].pc = pc],
               call[c].pc \in DOMAIN Successors, pc \in Successors[call[c].pc]
        PROVE  /\ \A d \in Calls : d # c => call'[d] = call[d]
               /\ call'[c].pc \in Successors[call[c].pc]
               /\ call'[c].op = call[c].op /\ call'[c].by = call[c].by
               /\ call'[c].user = call[c].user /\ call'[c].row.role = call[c].row.role
               /\ call'[c].ws = call[c].ws
    BY <1>1, <1>3 DEF Slots
  <1>4. CASE \E pc : /\ call' = [call EXCEPT ![c].pc = pc]
                     /\ call[c].pc \in DOMAIN Successors /\ pc \in Successors[call[c].pc]
    BY <1>3, <1>4
  <1>5. CASE \E w \in Workspaces : InsertWorkspace(c, w)
    BY <1>1, <1>5 DEF InsertWorkspace, At, Slots, Successors
  <1>6. CASE FindMember(c)
    BY <1>1, <1>6 DEF FindMember, At, Slots, Successors, End, Rows
  <1>7. CASE checkWorkspaceOwnership(c)
    <2>1. AfterOwnership[call[c].op] \in Successors["checkOwnership"]
      BY <1>1, <1>7 DEF checkWorkspaceOwnership, At, Sound, AfterOwnership, Successors
    <2> QED BY <1>2, <1>4, <1>7, <2>1 DEF checkWorkspaceOwnership, At, Goto, End, Successors
  <1>8. CASE FindWorkspace(c) \/ FindWorkspaceOfUser(c) \/ FindWorkspaceOfRole(c) \/ GetInviter(c) \/ FindExisting(c)
    BY <1>2, <1>4, <1>8 DEF FindWorkspace, FindWorkspaceOfUser, FindWorkspaceOfRole, GetInviter,
       FindExisting, At, Goto, End, Successors
  <1> QED BY <1>2, <1>5, <1>6, <1>7, <1>8 DEF Moves, Step, InsertOwner, SaveMember, SaveWorkspace, DeleteMember, SaveRole,
            DeleteWorkspace, Fails, End

LEMMA StartEffect ==
  ASSUME TypeInv, NEW c \in Calls, StartCall(c)
  PROVE  /\ UNCHANGED <<owner, member, creator, answered, revived, removed>>
         /\ appointed \subseteq appointed'
         /\ \A d \in Calls : d # c => call'[d] = call[d]
         /\ call'[c].pc \in {"saveWorkspace", "checkOwnership", "getInviter"}
         /\ call'[c].pc = "saveWorkspace" => call'[c].op = "create"
         /\ call'[c].op \in {"updateRole", "invite"} /\ call'[c].row.role = "owner"
              => call'[c].by # creator[call'[c].ws] \/ call'[c].ws \in appointed'
  <1>1. call \in [Calls -> Slots]
    BY DEF TypeInv, TypeOK, Slots
  <1> DEFINE Fresh(op, pc, by, w, u, role) ==
               [op |-> op, pc |-> pc, by |-> by, ws |-> w, user |-> u, row |-> Row(None, role)]
  <1>2. ASSUME NEW op, NEW pc, NEW by, NEW w \in Workspaces \union {None}, NEW u, NEW role,
               Start(c, op, pc, by, w, u, role),
               pc \in {"saveWorkspace", "checkOwnership", "getInviter"},
               pc = "saveWorkspace" => op = "create",
               op \in {"updateRole", "invite"} => w \in Workspaces
        PROVE  /\ UNCHANGED <<owner, member, creator, answered, revived, removed>>
               /\ appointed \subseteq appointed'
               /\ \A d \in Calls : d # c => call'[d] = call[d]
               /\ call'[c].pc \in {"saveWorkspace", "checkOwnership", "getInviter"}
               /\ call'[c].pc = "saveWorkspace" => call'[c].op = "create"
               /\ call'[c].op \in {"updateRole", "invite"} /\ call'[c].row.role = "owner"
                    => call'[c].by # creator[call'[c].ws] \/ call'[c].ws \in appointed'
    <2>1. /\ call'[c] = Fresh(op, pc, by, w, u, role)
          /\ \A d \in Calls : d # c => call'[d] = call[d]
      BY <1>1, <1>2 DEF Start
    <2>2. /\ UNCHANGED <<owner, member, creator, answered, revived, removed>>
          /\ appointed' = IF w # None /\ role = "owner" /\ by = creator[w]
                          THEN appointed \union {w} ELSE appointed
      BY <1>2 DEF Start
    <2> QED BY <1>2, <2>1, <2>2 DEF Row
  <1>3. None \in Workspaces \union {None}
    OBVIOUS
  <1>4. CASE \E by \in Users : createWorkspace(c, by)
    BY <1>2, <1>3, <1>4 DEF createWorkspace
  <1>5. CASE \E by \in Users, w \in Workspaces : updateWorkspace(c, by, w) \/ deleteWorkspace(c, by, w)
    BY <1>2, <1>5 DEF updateWorkspace, deleteWorkspace
  <1>6. CASE \E by \in Users, w \in Workspaces, u \in Users : removeUser(c, by, w, u)
    BY <1>2, <1>6 DEF removeUser
  <1>7. CASE \E by \in Users, w \in Workspaces, u \in Users, role \in UserRole :
               updateUserRole(c, by, w, u, role) \/ inviteUser(c, by, w, u, role)
    BY <1>2, <1>7 DEF updateUserRole, inviteUser
  <1> QED BY <1>4, <1>5, <1>6, <1>7 DEF StartCall

-----------------------------------------------------------------------------
(* NobodyPromotesThemselves needs that no call under way is about to grant   *)
(* the role of owner: only the creator passes checkWorkspaceOwnership, and   *)
(* only one who has the role may invite another.                             *)

Modest(q) ==
  q.op \in {"updateRole", "invite"} /\ q.row.role = "owner" /\ q.ws \notin appointed =>
    q.by # creator[q.ws] /\ q.pc \notin {"findExisting", "saveMember"}

PromotionInv == (\A c \in Calls : Modest(call[c])) /\ NobodyPromotesThemselves

LEMMA PromotionStep ==
  ASSUME TypeInv, PromotionInv, [Next]_vars
  PROVE  PromotionInv'
  <1>1. \A d \in Calls : call[d].op \in {"updateRole", "invite"} => call[d].ws \in answered /\ call[d].ws \in Workspaces
    BY DEF TypeInv, TypeOK, Sound, Idle, None
  <1>2. ASSUME NEW c \in Calls, StartCall(c) PROVE PromotionInv'
    <2>1. \A d \in Calls : Modest(call[d])'
      BY <1>2, StartEffect DEF PromotionInv, Modest
    <2>2. NobodyPromotesThemselves'
      BY <1>2, StartEffect DEF PromotionInv, NobodyPromotesThemselves, getUserRole
    <2> QED BY <2>1, <2>2 DEF PromotionInv
  <1>3. ASSUME NEW c \in Calls, Moves(c) PROVE PromotionInv'
    <2>1. OwnersChangedBy(c) /\ appointed' = appointed /\ RolesChangedBy(c)
      BY <1>3, OwnerEffect, RoleEffect
    <2>2. \A d \in Calls : d # c => Modest(call[d])'
      BY <1>1, <1>3, <2>1, CallEffect DEF PromotionInv, Modest, OwnersChangedBy
    <2>3. Modest(call[c])'
      <3>1. CASE call'[c] = Idle
        BY <3>1 DEF Modest, Idle, None
      <3>2. CASE call'[c] # Idle
        <4> SUFFICES ASSUME call'[c].op \in {"updateRole", "invite"}, call'[c].row.role = "owner",
                            call'[c].ws \notin appointed
                     PROVE  call'[c].by # creator'[call'[c].ws] /\ call'[c].pc \notin {"findExisting", "saveMember"}
          BY <2>1 DEF Modest
        <4>1. /\ call[c].pc \in DOMAIN Successors /\ call'[c].pc \in Successors[call[c].pc]
              /\ call'[c].op = call[c].op /\ call'[c].by = call[c].by
              /\ call'[c].user = call[c].user /\ call'[c].row.role = call[c].row.role
              /\ call'[c].ws = call[c].ws \/ call'[c].pc = "saveOwner"
          BY <1>3, <3>2, CallEffect
        <4>2. call'[c].pc # "saveOwner"
          BY TypeStep, <1>3 DEF Moves, Next, TypeInv, Sound
        <4>3. /\ call[c].by # creator[call[c].ws] /\ call[c].pc \notin {"findExisting", "saveMember"}
              /\ call[c].ws \in answered /\ call[c].ws \in Workspaces
          BY <1>1, <4>1, <4>2 DEF PromotionInv, Modest
        <4>4. call'[c].by # creator'[call'[c].ws]
          BY <2>1, <4>1, <4>2, <4>3 DEF OwnersChangedBy
        <4>5. call'[c].pc # "saveMember"
          BY <4>1, <4>3 DEF Successors
        <4>6. call[c].pc # "getInviter"
          <5> SUFFICES ASSUME call[c].pc = "getInviter" PROVE FALSE
            OBVIOUS
          <5>1. GetInviter(c)
            BY <1>3, <3>2, CallEffect DEF Moves, Step, InsertWorkspace, InsertOwner, SaveMember, checkWorkspaceOwnership,
               FindWorkspace, SaveWorkspace, FindWorkspaceOfUser, DeleteMember, FindMember,
               FindWorkspaceOfRole, SaveRole, FindExisting, DeleteWorkspace, Fails, At, End,
               TypeInv, TypeOK
          <5>2. getUserRole(Ws(c), By(c)) = "owner"
            BY <3>2, <4>1, <5>1 DEF GetInviter, Role, End, TypeInv, TypeOK
          <5>3. By(c) \in Users
            BY <5>1 DEF TypeInv, Sound, By, None
          <5> QED BY <4>1, <4>2, <4>3, <5>2, <5>3 DEF PromotionInv, NobodyPromotesThemselves, By, Ws
        <4>7. call'[c].pc # "findExisting"
          BY <4>1, <4>6 DEF Successors
        <4> QED BY <4>4, <4>5, <4>7
      <3> QED BY <3>1, <3>2
    <2>4. NobodyPromotesThemselves'
      <3> SUFFICES ASSUME NEW w \in Workspaces, w \notin appointed, NEW u \in Users,
                          getUserRole(w, u)' = "owner"
                   PROVE  u = creator'[w]
        BY <2>1 DEF NobodyPromotesThemselves
      <3>1. CASE member'[w][u] = member[w][u]
        <4>1. u = creator[w] /\ IsMember(w, u)
          BY <3>1, NoRowIsTyped DEF PromotionInv, NobodyPromotesThemselves, getUserRole, IsMember, NoRow, None
        <4> QED BY <4>1, <2>1 DEF TypeInv, Peopled, OwnersChangedBy
      <3>2. CASE SaveRole(c) /\ w = Ws(c) /\ Role(c) = "owner"
        BY <3>2 DEF SaveRole, At, TypeInv, Sound, Entitled, Holds, PromotionInv, Modest, Ws, Role
      <3>3. CASE SaveMember(c) /\ w = Ws(c) /\ Role(c) = "owner"
        BY <3>3 DEF SaveMember, At, TypeInv, Sound, PromotionInv, Modest, Ws, Role
      <3>4. CASE InsertOwner(c) /\ w = Ws(c) /\ u = By(c)
        <4>1. creator' = creator
          BY <3>4 DEF InsertOwner
        <4> QED BY <3>4, <4>1 DEF InsertOwner, At, TypeInv, Sound, Ws, By
      <3> QED BY <2>1, <3>1, <3>2, <3>3, <3>4, NoRowIsTyped DEF RolesChangedBy, getUserRole, None
    <2> QED BY <2>2, <2>3, <2>4 DEF PromotionInv
  <1>4. CASE UNCHANGED vars
    BY <1>4 DEF vars, PromotionInv, Modest, NobodyPromotesThemselves, getUserRole
  <1> QED BY <1>2, <1>3, <1>4 DEF Next, Moves

LEMMA PromotionInvariance == Spec => []PromotionInv
  <1>1. Init => PromotionInv
    BY DEF Init, PromotionInv, Modest, NobodyPromotesThemselves, getUserRole, Idle, NoRow, None
  <1>2. TypeInv /\ PromotionInv /\ [Next]_vars => PromotionInv'
    BY PromotionStep
  <1> QED BY <1>1, <1>2, TypeInvariance, PTL DEF Spec

(* NobodyPromotesThemselves: whatever the members invite each other to and   *)
(* however their calls overlap, only the creator of a workspace has the role *)
(* of owner in it, until the creator gives that role to somebody.            *)
THEOREM PromotionIsGranted == Spec => []NobodyPromotesThemselves
  <1>1. PromotionInv => NobodyPromotesThemselves
    BY DEF PromotionInv
  <1> QED BY <1>1, PromotionInvariance, PTL

-----------------------------------------------------------------------------
(* OwnerIsMember needs that no removal or change of role under way is aimed  *)
(* at an owner: the test of removeUser and updateUserRole passes for the     *)
(* creator only when the workspace is gone, and only updateWorkspace brings  *)
(* it back.                                                                  *)

Spares(q) ==
  q.pc \in {"deleteMember", "saveRole"} /\ q.user = creator[q.ws] =>
    owner[q.ws] = None \/ q.ws \in revived

OwnerInv == (\A c \in Calls : Spares(call[c])) /\ OwnerIsMember

LEMMA OwnerStep ==
  ASSUME TypeInv, OwnerInv, [Next]_vars
  PROVE  OwnerInv'
  <1>1. \A d \in Calls : call[d].pc \in {"deleteMember", "saveRole"} =>
          call[d].ws \in answered /\ call[d].ws \in Workspaces
    BY DEF TypeInv, TypeOK, Sound, Holds, None
  <1>2. ASSUME NEW c \in Calls, StartCall(c) PROVE OwnerInv'
    <2>1. \A d \in Calls : Spares(call[d])'
      BY <1>2, StartEffect DEF OwnerInv, Spares
    <2>2. OwnerIsMember'
      BY <1>2, StartEffect DEF OwnerInv, OwnerIsMember, getUserRole, Exists
    <2> QED BY <2>1, <2>2 DEF OwnerInv
  <1>3. ASSUME NEW c \in Calls, Moves(c) PROVE OwnerInv'
    <2>1. OwnersChangedBy(c) /\ RolesChangedBy(c)
      BY <1>3, OwnerEffect, RoleEffect
    <2>2. \A d \in Calls : d # c => Spares(call[d])'
      BY <1>1, <1>3, <2>1, CallEffect DEF OwnerInv, Spares, OwnersChangedBy, Exists
    <2>3. Spares(call[c])'
      <3>1. CASE call'[c] = Idle
        BY <3>1 DEF Spares, Idle, None
      <3>2. CASE call'[c] # Idle
        <4> SUFFICES ASSUME call'[c].pc \in {"deleteMember", "saveRole"}
                     PROVE  call'[c].user = creator'[call'[c].ws] => owner'[call'[c].ws] = None
          BY DEF Spares
        <4>1. /\ call[c].pc \in {"findWorkspaceOfUser", "findWorkspaceOfRole"}
              /\ call'[c].user = call[c].user /\ call'[c].ws = call[c].ws
          BY <1>3, <3>2, CallEffect DEF Successors
        <4>2. /\ owner[call[c].ws] # call[c].user
              /\ UNCHANGED <<owner, creator>>
          BY <1>3, <3>2, <4>1, CallEffect DEF Moves, Step, InsertWorkspace, InsertOwner, SaveMember, checkWorkspaceOwnership,
             FindWorkspace, SaveWorkspace, FindWorkspaceOfUser, DeleteMember, FindMember,
             FindWorkspaceOfRole, SaveRole, GetInviter, FindExisting, DeleteWorkspace, Fails, At, End,
             TypeInv, TypeOK, history, Ws, User
        <4>3. call[c].ws \in Workspaces
          BY <4>1 DEF TypeInv, TypeOK, Sound, Holds, None
        <4> QED BY <4>1, <4>2, <4>3 DEF TypeInv, Rooted
      <3> QED BY <3>1, <3>2
    <2>4. OwnerIsMember'
      <3> SUFFICES ASSUME NEW w \in Workspaces, w \in answered', w \notin revived', Exists(w)'
                   PROVE  member'[w][owner'[w]].role = "owner"
        <4>1. answered' \subseteq Workspaces
          BY TypeStep, <1>3 DEF TypeInv, TypeOK, Next, Moves
        <4> QED BY <4>1 DEF OwnerIsMember, getUserRole
      <3>0. PICK u \in Users : u = owner'[w] /\ u = creator'[w]
        BY TypeStep, <1>3, <2>1 DEF OwnersChangedBy, TypeInv, TypeOK, Next, Moves, Exists
      <3>1. CASE w \in answered
        <4>1. /\ u = creator[w] /\ Exists(w) /\ w \notin revived /\ u = owner[w]
          BY <2>1, <3>0, <3>1 DEF OwnersChangedBy, TypeInv, Rooted, Exists
        <4>2. getUserRole(w, u) = "owner"
          BY <3>1, <4>1 DEF OwnerInv, OwnerIsMember
        <4>3. IsMember(w, u)
          BY <4>2, NoRowIsTyped DEF getUserRole, IsMember, NoRow, None
        <4>4. ~(DeleteMember(c) /\ w = Ws(c) /\ u = User(c))
          BY <4>1, <3>0, <2>1 DEF DeleteMember, At, OwnerInv, Spares, Ws, User, Exists
        <4>5. ~(SaveRole(c) /\ w = Ws(c) /\ u = User(c))
          BY <4>1, <3>0, <2>1 DEF SaveRole, At, OwnerInv, Spares, Ws, User, Exists
        <4>6. ~(SaveMember(c) /\ ~IsMember(w, u))
          BY <4>3
        <4> QED BY <2>1, <3>0, <4>2, <4>3, <4>4, <4>5, <4>6 DEF RolesChangedBy, getUserRole
      <3>2. CASE w \notin answered
        <4>1. InsertOwner(c) /\ w = Ws(c)
          BY <2>1, <3>2 DEF OwnersChangedBy
        <4>2. u = By(c)
          BY <3>0, <4>1 DEF InsertOwner, At, TypeInv, Sound, Ws, By
        <4>3. TypeOK /\ member' = SetRow(w, u, Row(NewId, "owner")) /\ Row(NewId, "owner") \in Rows
              /\ Row(NewId, "owner").role = "owner"
          BY <4>1, <4>2, NewIdIsFresh DEF InsertOwner, SetRow, Row, Rows, UserRole, TypeInv
        <4> QED BY <3>0, <4>3, RowEffect DEF getUserRole
      <3> QED BY <3>1, <3>2
    <2> QED BY <2>2, <2>3, <2>4 DEF OwnerInv
  <1>4. CASE UNCHANGED vars
    BY <1>4 DEF vars, OwnerInv, Spares, OwnerIsMember, getUserRole, Exists
  <1> QED BY <1>2, <1>3, <1>4 DEF Next, Moves

LEMMA OwnerInvariance == Spec => []OwnerInv
  <1>1. Init => OwnerInv
    BY DEF Init, OwnerInv, Spares, OwnerIsMember, Idle, None
  <1>2. TypeInv /\ OwnerInv /\ [Next]_vars => OwnerInv'
    BY OwnerStep
  <1> QED BY <1>1, <1>2, TypeInvariance, PTL DEF Spec

(* OwnerIsMember: as long as a workspace that createWorkspace returned       *)
(* stands, its owner is a member of it with the role of owner, unless        *)
(* updateWorkspace inserted it again after its deletion.                     *)
THEOREM OwnersStayMembers == Spec => []OwnerIsMember
  <1>1. OwnerInv => OwnerIsMember
    BY DEF OwnerInv
  <1> QED BY <1>1, OwnerInvariance, PTL

-----------------------------------------------------------------------------
(* RemovedStaysOut needs that no updateUserRole under way holds the row of a *)
(* removed user, and that only returned workspaces have removed users: the   *)
(* insert of the owner is no return of one.                                  *)

StaysOut(p) ==
  /\ p[1] \in answered /\ ~IsMember(p[1], p[2])
  /\ \A c \in Calls : Holds(call[c]) => <<Ws(c), User(c)>> # p

RemovalInv == \A p \in removed : StaysOut(p)

LEMMA RemovalStep ==
  ASSUME TypeInv, RemovalInv, [Next]_vars
  PROVE  RemovalInv'
  <1>1. removed \subseteq Workspaces \X Users
    BY DEF TypeInv, TypeOK
  <1>2. ASSUME NEW c \in Calls, StartCall(c) PROVE RemovalInv'
    BY <1>2, StartEffect DEF RemovalInv, StaysOut, IsMember, Holds, Ws, User
  <1>3. ASSUME NEW c \in Calls, Moves(c) PROVE RemovalInv'
    <2> SUFFICES ASSUME NEW p \in removed' PROVE StaysOut(p)'
      BY DEF RemovalInv
    <2>1. OwnersChangedBy(c) /\ RolesChangedBy(c)
      BY <1>3, OwnerEffect, RoleEffect
    <2>2. CASE DeleteMember(c) /\ p = <<Ws(c), User(c)>> /\ p \notin removed
      <3>1. Ws(c) \in answered /\ Ws(c) \in Workspaces /\ User(c) \in Users
        BY <2>2 DEF DeleteMember, At, TypeInv, TypeOK, Sound, Ws, User, None
      <3>2. \A d \in Calls : Holds(call[d]) => <<Ws(d), User(d)>> # p
        BY <2>2 DEF DeleteMember, Holds
      <3>3. member' = SetRow(Ws(c), User(c), NoRow) /\ TypeOK
        BY <2>2 DEF DeleteMember, SetRow, TypeInv
      <3>4. member'[Ws(c)][User(c)] = NoRow
        BY <3>1, <3>3, RowEffect, NoRowIsTyped
      <3>5. \A d \in Calls : call'[d] = call[d] \/ call'[d] = Idle
        BY <2>2 DEF DeleteMember, End, TypeInv, TypeOK
      <3>6. answered' = answered /\ p[1] = Ws(c) /\ p[2] = User(c)
        BY <2>2 DEF DeleteMember
      <3>7. \A d \in Calls : Holds(call'[d]) => <<call'[d].ws, call'[d].user>> # p
        BY <3>2, <3>5, IdleIsTyped DEF Ws, User
      <3> QED BY <3>1, <3>4, <3>6, <3>7 DEF StaysOut, IsMember, Ws, User
    <2>3. CASE p \in removed
      <3>1. p \in Workspaces \X Users /\ StaysOut(p)
        BY <1>1, <2>3 DEF RemovalInv
      <3>2. p = <<p[1], p[2]>> /\ p[1] \in Workspaces /\ p[2] \in Users
        BY <3>1
      <3>3. ~(SaveMember(c) /\ p[1] = Ws(c) /\ p[2] = User(c) /\ Exists(p[1]) /\ ~IsMember(p[1], p[2]))
        BY <3>2 DEF SaveMember
      <3>4. ~(SaveRole(c) /\ p[1] = Ws(c) /\ p[2] = User(c))
        BY <3>1, <3>2 DEF SaveRole, At, StaysOut, Holds
      <3>5. ~(InsertOwner(c) /\ p[1] = Ws(c))
        BY <3>1 DEF InsertOwner, At, StaysOut, TypeInv, Sound, Ws
      <3>6. member'[p[1]][p[2]] \in {member[p[1]][p[2]], NoRow}
        BY <2>1, <3>2, <3>3, <3>4, <3>5 DEF RolesChangedBy
      <3>7. \A d \in Calls : Holds(call'[d]) => <<call'[d].ws, call'[d].user>> # p
        <4>1. \A d \in Calls : d # c => call'[d] = call[d]
          BY <1>3, CallEffect
        <4>2. Holds(call'[c]) => <<call'[c].ws, call'[c].user>> # p
          <5> SUFFICES ASSUME Holds(call'[c]) PROVE <<call'[c].ws, call'[c].user>> # p
            OBVIOUS
          <5>1. /\ call[c].pc \in {"findMember", "findWorkspaceOfRole"}
                /\ call'[c].ws = call[c].ws /\ call'[c].user = call[c].user
            BY <1>3, CallEffect, IdleIsTyped DEF Holds, Successors
          <5>2. CASE call[c].pc = "findMember"
            <6>1. IsMember(Ws(c), User(c))
              BY <1>3, <5>2, IdleIsTyped DEF Moves, Step, InsertWorkspace, InsertOwner, SaveMember, checkWorkspaceOwnership,
                 FindWorkspace, SaveWorkspace, FindWorkspaceOfUser, DeleteMember, FindMember,
                 FindWorkspaceOfRole, SaveRole, GetInviter, FindExisting, DeleteWorkspace, Fails, At, End,
                 TypeInv, TypeOK
            <6> QED BY <3>1, <3>2, <5>1, <6>1 DEF StaysOut, Ws, User
          <5>3. CASE call[c].pc = "findWorkspaceOfRole"
            BY <3>1, <5>1, <5>3 DEF StaysOut, Holds, Ws, User
          <5> QED BY <5>1, <5>2, <5>3
        <4> QED BY <3>1, <4>1, <4>2 DEF StaysOut, Ws, User
      <3> QED BY <2>1, <3>1, <3>2, <3>6, <3>7 DEF StaysOut, IsMember, OwnersChangedBy, Ws, User
    <2> QED BY <1>3, <2>2, <2>3 DEF Moves, Step, InsertWorkspace, InsertOwner, SaveMember, checkWorkspaceOwnership,
              FindWorkspace, SaveWorkspace, FindWorkspaceOfUser, DeleteMember, FindMember,
              FindWorkspaceOfRole, SaveRole, GetInviter, FindExisting, DeleteWorkspace, Fails, history
  <1>4. CASE UNCHANGED vars
    BY <1>4 DEF vars, RemovalInv, StaysOut, IsMember, Holds, Ws, User
  <1> QED BY <1>2, <1>3, <1>4 DEF Next, Moves

(* RemovedStaysOut: who was removed while no change of the role was under    *)
(* way is no member again until invited again.                               *)
THEOREM RemovalIsFinal == Spec => []RemovedStaysOut
  <1>1. Init => RemovalInv
    BY DEF Init, RemovalInv
  <1>2. TypeInv /\ RemovalInv /\ [Next]_vars => RemovalInv'
    BY RemovalStep
  <1>3. RemovalInv => RemovedStaysOut
    BY DEF RemovalInv, StaysOut, RemovedStaysOut
  <1> QED BY <1>1, <1>2, <1>3, TypeInvariance, PTL DEF Spec

-----------------------------------------------------------------------------
(* Workspaces implements Membership: each await of WorkspaceService is a     *)
(* step of the atomic membership or leaves it alone.                         *)

Roles == [w \in Workspaces |-> [u \in Users |-> getUserRole(w, u)]]

LEMMA RolesAreTyped ==
  ASSUME TypeOK
  PROVE  /\ Roles \in [Workspaces -> [Users -> UserRole \union {None}]]
         /\ \A w \in Workspaces, u \in Users : Roles[w][u] = getUserRole(w, u)
  BY DEF TypeOK, Roles, getUserRole, Rows

(* A row written is a role written.                                          *)
LEMMA RolesAfterWrite ==
  ASSUME TypeOK, NEW w \in Workspaces, NEW u \in Users, NEW row \in Rows,
         member' = SetRow(w, u, row)
  PROVE  Roles' = [Roles EXCEPT ![w][u] = row.role]
  <1>1. /\ member' \in [Workspaces -> [Users -> Rows]]
        /\ member'[w][u] = row
        /\ \A x \in Workspaces, v \in Users : x # w \/ v # u => member'[x][v] = member[x][v]
    BY RowEffect
  <1>2. Roles' = [x \in Workspaces |-> [v \in Users |-> member'[x][v].role]]
    BY DEF Roles, getUserRole
  <1>3. Roles = [x \in Workspaces |-> [v \in Users |-> member[x][v].role]]
    BY DEF Roles, getUserRole
  <1>4. \A x \in Workspaces : Roles'[x] = [Roles EXCEPT ![w][u] = row.role][x]
    <2> SUFFICES ASSUME NEW x \in Workspaces
                 PROVE  Roles'[x] = [Roles EXCEPT ![w][u] = row.role][x]
      OBVIOUS
    <2>1. CASE x = w
      <3>1. [Roles EXCEPT ![w][u] = row.role][x] = [Roles[w] EXCEPT ![u] = row.role]
        BY <1>3, <2>1
      <3> QED BY <1>1, <1>2, <1>3, <2>1, <3>1
    <2>2. CASE x # w
      <3>1. [Roles EXCEPT ![w][u] = row.role][x] = Roles[x]
        BY <1>3, <2>2
      <3> QED BY <1>1, <1>2, <1>3, <2>2, <3>1
    <2> QED BY <2>1, <2>2
  <1> QED BY <1>2, <1>3, <1>4

LEMMA NobodyIsNone == M!Nobody = None
  BY DEF M!Nobody, None

LEMMA RoleOfMember ==
  ASSUME TypeInv, NEW w \in Workspaces, NEW u \in Users
  PROVE  getUserRole(w, u) = None <=> ~IsMember(w, u)
  BY NoRowIsTyped DEF TypeInv, Peopled, getUserRole, IsMember, UserRole, None

(* An owner past OwnerIsMember is a member whose row nobody writes.          *)
LEMMA OwnerIsPut ==
  ASSUME TypeInv, OwnerInv, NEW w \in answered, Exists(w), w \notin revived
  PROVE  IsMember(w, owner[w]) /\ owner[w] = creator[w]
  BY NoRowIsTyped DEF TypeInv, TypeOK, Rooted, Exists, OwnerInv, OwnerIsMember, getUserRole, IsMember, None

LEMMA InitImplements == Init => M!MembershipInit
  BY NobodyIsNone DEF Init, M!MembershipInit, getUserRole, NoRow

LEMMA InsertWorkspaceImplements ==
  ASSUME TypeInv, NEW c \in Calls, NEW w \in Workspaces, InsertWorkspace(c, w)
  PROVE  M!Open(w, By(c)) /\ By(c) \in Users
  <1>1. By(c) \in Users
    BY DEF TypeInv, Sound, InsertWorkspace, At, By, None
  <1> QED BY <1>1, NobodyIsNone DEF InsertWorkspace, M!Open, getUserRole

LEMMA InsertOwnerImplements ==
  ASSUME TypeInv, NEW c \in Calls, InsertOwner(c)
  PROVE  Ws(c) \in Workspaces /\ By(c) \in Users /\ M!Join(Ws(c), By(c), "owner")
  <1>1. /\ Ws(c) \in Workspaces \ answered /\ By(c) \in Users /\ creator[Ws(c)] = By(c)
        /\ owner[Ws(c)] = By(c) /\ By(c) # None
    <2>1. call[c].pc = "saveOwner" /\ call[c].pc # None /\ Sound(call[c])
      BY DEF InsertOwner, TypeInv, At, None
    <2>2. Ws(c) \in Workspaces \ answered /\ By(c) \in Users /\ creator[Ws(c)] = By(c)
      BY <2>1 DEF Sound, Ws, By
    <2>3. Rooted(Ws(c))
      BY <2>2 DEF TypeInv
    <2>4. By(c) # None
      BY <2>2
    <2> QED BY <2>2, <2>3, <2>4 DEF Rooted
  <1>2. TypeOK
    BY DEF TypeInv
  <1>3. Roles[Ws(c)][By(c)] = None
    BY <1>1, <1>2, RoleOfMember, RolesAreTyped DEF TypeInv, Peopled
  <1>4. /\ member' = SetRow(Ws(c), By(c), Row(NewId, "owner"))
        /\ Row(NewId, "owner") \in Rows /\ Row(NewId, "owner").role = "owner"
    BY NewIdIsFresh DEF InsertOwner, SetRow, Row, Rows, UserRole
  <1>5. Roles' = [Roles EXCEPT ![Ws(c)][By(c)] = "owner"]
    BY <1>1, <1>2, <1>4, RolesAfterWrite
  <1>6. UNCHANGED <<owner, creator, revived>>
    BY DEF InsertOwner
  <1> QED BY <1>1, <1>3, <1>5, <1>6, NobodyIsNone DEF M!Join, M!Stands, Roles

LEMMA SaveWorkspaceImplements ==
  ASSUME TypeInv, NEW c \in Calls, SaveWorkspace(c)
  PROVE  Ws(c) \in Workspaces /\ (M!Reopen(Ws(c)) \/ UNCHANGED M!membership)
  <1>1. /\ Ws(c) \in Workspaces /\ By(c) = creator[Ws(c)] /\ By(c) \in Users
        /\ owner[Ws(c)] \in {None, By(c)} /\ owner \in [Workspaces -> Users \union {None}]
    BY DEF SaveWorkspace, TypeInv, TypeOK, Sound, Entitled, Rooted, At, Ws, By, None
  <1>2. UNCHANGED <<member, creator>>
    BY DEF SaveWorkspace
  <1>3. CASE Exists(Ws(c))
    BY <1>1, <1>2, <1>3 DEF SaveWorkspace, Exists, M!membership, getUserRole
  <1>4. CASE ~Exists(Ws(c))
    <2>1. /\ owner' = [owner EXCEPT ![Ws(c)] = creator[Ws(c)]]
          /\ revived' = revived \union {Ws(c)}
      BY <1>1, <1>4 DEF SaveWorkspace
    <2>2. owner[Ws(c)] = None /\ creator[Ws(c)] # None
      BY <1>1, <1>4 DEF Exists
    <2>3. Roles' = Roles
      BY <1>2 DEF Roles, getUserRole
    <2> QED BY <1>1, <1>2, <2>1, <2>2, <2>3, NobodyIsNone DEF M!Reopen, M!Stands, Roles
  <1> QED BY <1>1, <1>3, <1>4

LEMMA DeleteWorkspaceImplements ==
  ASSUME TypeInv, NEW c \in Calls, DeleteWorkspace(c)
  PROVE  Ws(c) \in Workspaces /\ (M!Close(Ws(c)) \/ UNCHANGED M!membership)
  <1>1. Ws(c) \in Workspaces
    BY DEF DeleteWorkspace, TypeInv, TypeOK, Sound, At, Ws, None
  <1>2. /\ owner \in [Workspaces -> Users \union {None}] /\ member \in [Workspaces -> [Users -> Rows]]
        /\ owner' = [owner EXCEPT ![Ws(c)] = None]
        /\ member' = [member EXCEPT ![Ws(c)] = [u \in Users |-> NoRow]]
        /\ UNCHANGED <<creator, revived>>
    BY DEF DeleteWorkspace, TypeInv, TypeOK, history
  <1>3. CASE Exists(Ws(c))
    <2>1. Roles' = [Roles EXCEPT ![Ws(c)] = [u \in Users |-> None]]
      BY <1>1, <1>2, NoRowIsTyped DEF Roles, getUserRole
    <2> QED BY <1>1, <1>2, <1>3, <2>1, NobodyIsNone DEF M!Close, M!Stands, Exists, Roles
  <1>4. CASE ~Exists(Ws(c))
    <2>1. \A u \in Users : member[Ws(c)][u] = NoRow
      BY <1>1, <1>4 DEF TypeInv, Peopled, IsMember
    <2>2. owner' = owner /\ member' = member
      BY <1>1, <1>2, <1>4, <2>1 DEF Exists
    <2> QED BY <1>2, <2>2, <1>1 DEF M!membership, getUserRole
  <1> QED BY <1>1, <1>3, <1>4

LEMMA DeleteMemberImplements ==
  ASSUME TypeInv, OwnerInv, NEW c \in Calls, DeleteMember(c)
  PROVE  /\ Ws(c) \in Workspaces /\ User(c) \in Users
         /\ M!Change(Ws(c), User(c), M!Nobody) \/ UNCHANGED M!membership
  <1>1. Ws(c) \in Workspaces /\ Ws(c) \in answered /\ User(c) \in Users /\ TypeOK
    BY DEF DeleteMember, TypeInv, TypeOK, Sound, At, Ws, User, None
  <1>2. member' = SetRow(Ws(c), User(c), NoRow) /\ UNCHANGED <<owner, creator, revived>>
    BY DEF DeleteMember, SetRow
  <1>3. Roles' = [Roles EXCEPT ![Ws(c)][User(c)] = None]
    BY <1>1, <1>2, RolesAfterWrite, NoRowIsTyped
  <1>4. CASE IsMember(Ws(c), User(c))
    <2>1. Roles[Ws(c)][User(c)] # None
      BY <1>1, <1>4, RoleOfMember, RolesAreTyped
    <2>2. User(c) # owner[Ws(c)] \/ Ws(c) \in revived
      <3>1. Exists(Ws(c))
        BY <1>1, <1>4 DEF TypeInv, Peopled
      <3> QED BY <1>1, <3>1, OwnerIsPut DEF DeleteMember, At, OwnerInv, Spares, Exists, Ws, User
    <2> QED BY <1>1, <1>2, <1>3, <2>1, <2>2, NobodyIsNone DEF M!Change, Roles
  <1>5. CASE ~IsMember(Ws(c), User(c))
    <2>1. Roles[Ws(c)][User(c)] = None
      BY <1>1, <1>5, RoleOfMember, RolesAreTyped
    <2>2. Roles' = Roles
      BY <1>1, <1>3, <2>1, RolesAreTyped
    <2> QED BY <1>1, <1>2, <2>2 DEF M!membership, Roles
  <1> QED BY <1>1, <1>4, <1>5

LEMMA SaveRoleImplements ==
  ASSUME TypeInv, OwnerInv, NEW c \in Calls, SaveRole(c)
  PROVE  /\ Ws(c) \in Workspaces /\ User(c) \in Users /\ Role(c) \in UserRole
         /\ \/ M!Change(Ws(c), User(c), Role(c)) \/ M!Join(Ws(c), User(c), Role(c))
            \/ UNCHANGED M!membership
  <1>1. /\ Ws(c) \in Workspaces /\ Ws(c) \in answered /\ User(c) \in Users /\ TypeOK
        /\ call[c].row \in Rows /\ call[c].row.role = Role(c) /\ Role(c) \in UserRole
    BY DEF SaveRole, TypeInv, TypeOK, Sound, Holds, At, Ws, User, Role, None
  <1>2. UNCHANGED <<owner, creator, revived>>
    BY DEF SaveRole, history
  <1>3. CASE member' = member
    BY <1>1, <1>2, <1>3 DEF M!membership, getUserRole
  <1>4. CASE Exists(Ws(c)) /\ member' = SetRow(Ws(c), User(c), call[c].row)
    <2>1. Roles' = [Roles EXCEPT ![Ws(c)][User(c)] = Role(c)]
      BY <1>1, <1>4, RolesAfterWrite
    <2>2. User(c) # owner[Ws(c)] \/ Ws(c) \in revived
      BY <1>1, <1>4, OwnerIsPut DEF SaveRole, At, OwnerInv, Spares, Exists, Ws, User
    <2>3. CASE IsMember(Ws(c), User(c))
      <3>1. Roles[Ws(c)][User(c)] # None
        BY <1>1, <2>3, RoleOfMember, RolesAreTyped
      <3> QED BY <1>1, <1>2, <2>1, <2>2, <3>1, NobodyIsNone DEF M!Change, Roles
    <2>4. CASE ~IsMember(Ws(c), User(c))
      <3>1. Roles[Ws(c)][User(c)] = None
        BY <1>1, <2>4, RoleOfMember, RolesAreTyped
      <3> QED BY <1>1, <1>2, <1>4, <2>1, <2>2, <3>1, NobodyIsNone DEF M!Join, M!Stands, Exists, Roles
    <2> QED BY <1>1, <2>3, <2>4
  <1> QED BY <1>1, <1>3, <1>4 DEF SaveRole, SetRow

LEMMA SaveMemberImplements ==
  ASSUME TypeInv, OwnerInv, NEW c \in Calls, SaveMember(c)
  PROVE  /\ Ws(c) \in Workspaces /\ User(c) \in Users /\ Role(c) \in UserRole
         /\ M!Join(Ws(c), User(c), Role(c)) \/ UNCHANGED M!membership
  <1>1. /\ Ws(c) \in Workspaces /\ Ws(c) \in answered /\ User(c) \in Users /\ TypeOK
        /\ Role(c) \in UserRole
    BY DEF SaveMember, TypeInv, TypeOK, Sound, At, Ws, User, Role, None
  <1>2. UNCHANGED <<owner, creator, revived>>
    BY DEF SaveMember
  <1>3. CASE member' = member
    BY <1>1, <1>2, <1>3 DEF M!membership, getUserRole
  <1>4. CASE /\ Exists(Ws(c)) /\ ~IsMember(Ws(c), User(c))
             /\ member' = SetRow(Ws(c), User(c), Row(NewId, Role(c)))
    <2>1. Row(NewId, Role(c)) \in Rows /\ Row(NewId, Role(c)).role = Role(c)
      BY <1>1, NewIdIsFresh DEF SaveMember, Row, Rows
    <2>2. Roles' = [Roles EXCEPT ![Ws(c)][User(c)] = Role(c)]
      BY <1>1, <1>4, <2>1, RolesAfterWrite
    <2>3. Roles[Ws(c)][User(c)] = None
      BY <1>1, <1>4, RoleOfMember, RolesAreTyped
    <2>4. User(c) # owner[Ws(c)] \/ Ws(c) \in revived
      BY <1>1, <1>4, OwnerIsPut
    <2> QED BY <1>1, <1>2, <1>4, <2>2, <2>3, <2>4, NobodyIsNone DEF M!Join, M!Stands, Exists, Roles
  <1> QED BY <1>1, <1>3, <1>4 DEF SaveMember, SetRow

LEMMA StepImplements ==
  ASSUME TypeInv, OwnerInv, [Next]_vars
  PROVE  [M!MembershipNext]_(M!membership)
  <1>1. CASE UNCHANGED <<owner, member, creator, revived>>
    BY <1>1 DEF M!membership, getUserRole
  <1>2. ASSUME NEW w \in Workspaces, NEW u \in Users, M!Open(w, u)
        PROVE  M!MembershipNext
    BY <1>2 DEF M!MembershipNext, M!Admit
  <1>3. ASSUME NEW w \in Workspaces, NEW u \in Users, NEW r \in UserRole, M!Join(w, u, r)
        PROVE  M!MembershipNext
    BY <1>3 DEF M!MembershipNext, M!Admit, M!Roles, UserRole
  <1>4. ASSUME NEW w \in Workspaces, NEW u \in Users, NEW r \in UserRole \union {M!Nobody}, M!Change(w, u, r)
        PROVE  M!MembershipNext
    BY <1>4 DEF M!MembershipNext, M!Dismiss, M!Roles, UserRole
  <1>5. ASSUME NEW w \in Workspaces, M!Reopen(w) \/ M!Close(w)
        PROVE  M!MembershipNext
    BY <1>5 DEF M!MembershipNext, M!Admit
  <1>6. ASSUME NEW c \in Calls, NEW w \in Workspaces, InsertWorkspace(c, w) PROVE M!MembershipNext
    BY <1>2, <1>6, InsertWorkspaceImplements
  <1>7. ASSUME NEW c \in Calls, InsertOwner(c) PROVE M!MembershipNext
    BY <1>3, <1>7, InsertOwnerImplements DEF UserRole
  <1>8. ASSUME NEW c \in Calls, SaveWorkspace(c) \/ DeleteWorkspace(c)
        PROVE  M!MembershipNext \/ UNCHANGED M!membership
    BY <1>5, <1>8, SaveWorkspaceImplements, DeleteWorkspaceImplements
  <1>9. ASSUME NEW c \in Calls, DeleteMember(c)
        PROVE  M!MembershipNext \/ UNCHANGED M!membership
    BY <1>4, <1>9, DeleteMemberImplements
  <1>10. ASSUME NEW c \in Calls, SaveRole(c) \/ SaveMember(c)
         PROVE  M!MembershipNext \/ UNCHANGED M!membership
    BY <1>3, <1>4, <1>10, SaveRoleImplements, SaveMemberImplements
  <1>11. \/ UNCHANGED <<owner, member, creator, revived>>
         \/ \E c \in Calls :
              \/ \E w \in Workspaces : InsertWorkspace(c, w)
              \/ InsertOwner(c) \/ SaveWorkspace(c) \/ DeleteWorkspace(c)
              \/ DeleteMember(c) \/ SaveRole(c) \/ SaveMember(c)
    BY StartEffect DEF vars, Next, Step, checkWorkspaceOwnership, FindWorkspace, FindWorkspaceOfUser, FindMember,
       FindWorkspaceOfRole, GetInviter, FindExisting, Fails, history
  <1> QED BY <1>1, <1>6, <1>7, <1>8, <1>9, <1>10, <1>11

(* ImplementsMembership: the operations of WorkspaceService, cut at their    *)
(* awaits, interleaved and failing anywhere, do to owners and roles what the *)
(* atomic operations of Membership may do, and nothing else.                 *)
THEOREM WorkspacesRefineMembership == Spec => ImplementsMembership
  <1>1. TypeInv /\ OwnerInv /\ [Next]_vars => [M!MembershipNext]_(M!membership)
    BY StepImplements
  <1> QED BY <1>1, InitImplements, TypeInvariance, OwnerInvariance, PTL
          DEF Spec, ImplementsMembership, M!MembershipSpec
=============================================================================
