----------------------------- MODULE ProjectProofs -----------------------------
(* Theorems about Projects, for any workspaces, users, projects, files, keys *)
(* and calls in flight.                                                      *)
EXTENDS Projects, TLAPS

USE CallersAssumption, NoneAssumption

-----------------------------------------------------------------------------
(* Type correctness.  That every row hangs on the rows it refers to, and     *)
(* that an id names one file, depends on what the calls under way hold: the  *)
(* id they will save under, and the workspace they will insert into.         *)

Slots == [op : Ops, pc : PCs, by : Users \union {None}, p : Projects \union {None},
          ws : Workspaces \union {None}, path : Paths \union {None}, id : FileIds \union {None},
          keys : SUBSET Keys, dto : SUBSET Keys, overtaken : BOOLEAN]
ProjectRows == [ws : Workspaces \union {None}, keys : SUBSET Keys]
FileRows == [id : FileIds \union {None}, by : Users \union {None}]
FileOps == {"addFile", "removeFile"}

(* Where each operation can be.                                              *)
Placed(q) ==
  /\ q.pc = None => q = Idle
  /\ q.pc = "findProject" => q.op \in Saves \union FileOps \union {"deleteProject"}
  /\ q.pc = "checkAccess" => q.op \in Saves \union {"deleteProject"}
  /\ q.pc = "checkModify" => q.op \in Saves \union FileOps \union {"createProject", "deleteProject"}
  /\ q.pc = "insertProject" => q.op = "createProject"
  /\ q.pc = "saveProject" => q.op \in Saves
  /\ q.pc \in {"deleteEvent", "deleteProject"} => q.op = "deleteProject"
  /\ q.pc \in {"findFile", "saveFile"} => q.op = "addFile"
  /\ q.pc \in {"getFile", "deleteFile"} => q.op = "removeFile"
  /\ q.pc = "fileEvent" => q.op \in FileOps
  /\ q.pc = "projectEvent" => q.op = "event"

(* A call that works for a caller, and one that knows its workspace.         *)
Asking(q) == q.pc \notin {None, "projectEvent", "fileEvent"}
Located(q) == Asking(q) /\ q.pc # "findProject"

(* What it knows there.                                                      *)
Informed(q) ==
  /\ q.pc # None /\ q.op # "createProject" => q.p \in created
  /\ q.op = "createProject" => q.p = None
  /\ q.op \in FileOps => q.path \in Paths
  /\ Asking(q) => q.by \in Users
  /\ Located(q) => q.ws \in Workspaces
  /\ q.id # None => q.pc = "saveFile"

Sound(q) == Placed(q) /\ Informed(q)

(* The workspace a call knows is that of its project, and that of every      *)
(* other call on it: an update may insert the project again.                 *)
FitsHome(q) == Located(q) =>
  /\ \A p \in Projects : p = q.p /\ Exists(p) => q.ws = project[p].ws
  /\ \A d \in Calls : Located(call[d]) /\ P(d) = q.p /\ q.p # None => call[d].ws = q.ws

(* The id of the row that a call found names no other file.                  *)
FitsId(q) == q.id # None =>
  /\ \A p \in Projects, x \in Paths : file[p][x].id = q.id => p = q.p /\ x = q.path
  /\ \A d \in Calls : call[d].id = q.id => P(d) = q.p /\ Path(d) = q.path

Kept(p) ==
  /\ Exists(p) => p \in created /\ project[p].ws \in Workspaces /\ Stands(project[p].ws)
  /\ \A x \in Paths :
       /\ HasFile(p, x) => Exists(p) /\ file[p][x].id \in FileIds /\ file[p][x].by \in Users
       /\ told[p][x] # None => Exists(p)

FilesAreApart == \A p, q \in Projects, x, y \in Paths :
  HasFile(p, x) /\ file[p][x].id = file[q][y].id => p = q /\ x = y

MembersTyped ==
  /\ owner \in [Workspaces -> Users \union {None}]
  /\ role \in [Workspaces -> [Users -> Roles \union {None}]]
  /\ creator \in [Workspaces -> Users \union {None}]

TypeInv ==
  /\ TypeOK /\ MembersTyped
  /\ \A c \in Calls : Sound(call[c]) /\ FitsHome(call[c]) /\ FitsId(call[c])
  /\ \A p \in Projects : Kept(p)

LEMMA TypeInit == Init => TypeInv
  <1> SUFFICES ASSUME Init PROVE TypeInv
    OBVIOUS
  <1>1. TypeOK
    BY DEF Init, TypeOK, Idle, NoProject, NoFile, Exists, HasFile, Ops, PCs, None
  <1>2. MembersTyped
    BY DEF Init, MembershipInit, MembersTyped, Nobody, None
  <1>3. \A c \in Calls : Sound(call[c]) /\ FitsHome(call[c]) /\ FitsId(call[c])
    BY DEF Init, Idle, Sound, Placed, Informed, Asking, Located, FitsHome, FitsId, FileOps, None
  <1>4. \A p \in Projects : Kept(p)
    BY DEF Init, Kept, Exists, HasFile
  <1> QED BY <1>1, <1>2, <1>3, <1>4 DEF TypeInv

LEMMA IdleIsTyped ==
  /\ Idle \in Slots /\ Sound(Idle) /\ ~Located(Idle) /\ Idle.id = None
  /\ Idle.pc = None /\ Idle.op = None /\ Idle.p = None
  BY DEF Idle, Slots, Ops, PCs, Sound, Placed, Informed, Asking, Located, FileOps, None

LEMMA NoRowsAreTyped ==
  /\ NoProject \in ProjectRows /\ NoProject.ws = None
  /\ NoFile \in FileRows /\ NoFile.id = None /\ NoFile.by = None
  BY DEF NoProject, NoFile, ProjectRows, FileRows

(* The slots of calls after one of them moved on.                            *)
LEMMA SlotEffect ==
  ASSUME TypeOK, NEW c \in Calls, NEW q \in Slots, call' = [call EXCEPT ![c] = q]
  PROVE  /\ call' \in [Calls -> Slots]
         /\ call'[c] = q
         /\ \A d \in Calls : d # c => call'[d] = call[d]
  BY DEF TypeOK, Slots

(* The rows of files after one of them was written.                          *)
SetFile(p, x, row) == [file EXCEPT ![p][x] = row]

LEMMA FileEffect ==
  ASSUME TypeOK, NEW p \in Projects, NEW x \in Paths, NEW row \in FileRows, file' = SetFile(p, x, row)
  PROVE  /\ file' \in [Projects -> [Paths -> FileRows]]
         /\ file'[p][x] = row
         /\ \A q \in Projects, y \in Paths : q # p \/ y # x => file'[q][y] = file[q][y]
  BY DEF TypeOK, FileRows, SetFile

(* The parts of TypeOK.                                                      *)
LEMMA TypesOf ==
  ASSUME TypeOK
  PROVE  /\ project \in [Projects -> ProjectRows] /\ file \in [Projects -> [Paths -> FileRows]]
         /\ told \in [Projects -> [Paths -> {None, "create", "delete"}]]
         /\ call \in [Calls -> Slots]
         /\ created \subseteq Projects /\ gone \subseteq Projects
         /\ entitled \subseteq Workspaces \X Users /\ blurred \subseteq Projects \X Paths
         /\ FilesAreApart
  BY DEF TypeOK, Slots, ProjectRows, FileRows, FilesAreApart

(* Nothing but a call of its own moves.                                      *)
LEMMA MoveKeepsTypes ==
  ASSUME TypeInv, NEW c \in Calls, NEW q \in Slots, call' = [call EXCEPT ![c] = q],
         Sound(q), FitsHome(q), FitsId(q),
         UNCHANGED <<membership, rows, created, gone>>,
         blurred' \subseteq Projects \X Paths, entitled' \subseteq Workspaces \X Users
  PROVE  TypeInv'
  <1>0. TypeOK /\ MembersTyped
    BY DEF TypeInv
  <1>1. /\ call' \in [Calls -> Slots]
        /\ call'[c] = q
        /\ \A d \in Calls : d # c => call'[d] = call[d]
    BY <1>0, SlotEffect
  <1>2. \A p \in Projects : Kept(p)'
    BY DEF TypeInv, Kept, Exists, HasFile, rows, membership, Stands
  <1>3. FilesAreApart'
    BY <1>0, TypesOf DEF FilesAreApart, HasFile, rows
  <1>4. TypeOK'
    BY <1>0, <1>1, <1>2, <1>3, TypesOf DEF TypeOK, Slots, ProjectRows, FileRows, FilesAreApart, Kept, rows
  <1>5. MembersTyped'
    BY <1>0 DEF MembersTyped, membership
  <1>6. \A d \in Calls : Sound(call[d])'
    BY <1>1 DEF TypeInv, Sound, Placed, Informed, Asking, Located
  <1>7. \A d \in Calls : FitsHome(call[d])'
    <2>1. \A d \in Calls : FitsHome(call[d])
      BY DEF TypeInv
    <2>2. \A d \in Calls : FitsHome(call[d]) =>
            (Located(q) /\ Located(call[d]) /\ call[d].p = q.p /\ q.p # None => call[d].ws = q.ws)
      BY DEF FitsHome, P
    <2> QED BY <1>1, <2>1, <2>2 DEF FitsHome, P, Exists, rows, Located, Asking
  <1>8. \A d \in Calls : FitsId(call[d])'
    <2>1. \A d \in Calls : FitsId(call[d])
      BY DEF TypeInv
    <2> QED BY <1>1, <2>1 DEF FitsId, P, Path, rows
  <1> QED BY <1>2, <1>4, <1>5, <1>6, <1>7, <1>8 DEF TypeInv

(* A call that starts.                                                       *)
LEMMA StartKeepsTypes ==
  ASSUME TypeInv, NEW c \in Calls, StartCall(c), entitled' \subseteq Workspaces \X Users
  PROVE  TypeInv'
  <1>0. blurred \subseteq Projects \X Paths
    BY DEF TypeInv, TypeOK
  <1>1. ASSUME NEW q \in Slots, Sound(q), FitsHome(q), FitsId(q), Start(c, q)
        PROVE  TypeInv'
    BY <1>0, <1>1, MoveKeepsTypes DEF Start, history
  <1>2. ASSUME NEW by \in Callers, NEW w \in Workspaces, NEW ks \in SUBSET Keys, createProject(c, by, w, ks)
        PROVE  TypeInv'
    <2> DEFINE q == [Idle EXCEPT !.op = "createProject", !.pc = "checkModify", !.by = by, !.ws = w, !.dto = ks]
    <2>1. /\ q \in Slots /\ q.op = "createProject" /\ q.pc = "checkModify" /\ q.by = by
          /\ q.p = None /\ q.ws = w /\ q.id = None
      BY IdleIsTyped DEF Slots, Ops, PCs
    <2>2. Start(c, q)
      BY <1>2 DEF createProject
    <2> HIDE DEF q
    <2>3. Sound(q)
      BY <2>1 DEF Sound, Placed, Informed, Asking, Located, Saves, FileOps, None
    <2>4. FitsHome(q) /\ FitsId(q)
      BY <2>1 DEF FitsHome, FitsId
    <2> QED BY <1>1, <2>1, <2>2, <2>3, <2>4
  <1>3. ASSUME NEW op \in Saves \union FileOps \union {"deleteProject"}, NEW by \in Callers, NEW p \in Projects,
               NEW x \in Paths \union {None}, op \in FileOps => x \in Paths,
               NEW ks \in SUBSET Keys, OnProject(c, op, by, p, x, ks)
        PROVE  TypeInv'
    <2> DEFINE q == [Idle EXCEPT !.op = op, !.pc = "findProject", !.by = by, !.p = p, !.path = x, !.dto = ks]
    <2>1. /\ q \in Slots /\ q.op = op /\ q.pc = "findProject" /\ q.by = by
          /\ q.p = p /\ q.path = x /\ q.id = None
      BY <1>3, IdleIsTyped DEF Slots, Ops, PCs, Saves, FileOps
    <2>2. Start(c, q) /\ p \in created
      BY <1>3 DEF OnProject
    <2> HIDE DEF q
    <2>3. Sound(q)
      BY <1>3, <2>1, <2>2 DEF Sound, Placed, Informed, Asking, Located, Saves, FileOps, None
    <2>4. FitsHome(q) /\ FitsId(q)
      BY <2>1 DEF FitsHome, FitsId, Located
    <2> QED BY <1>1, <2>1, <2>2, <2>3, <2>4
  <1>4. ASSUME NEW by \in Callers, NEW p \in Projects, NEW ks \in SUBSET Keys,
               updateProject(c, by, p, ks) \/ updateMetadata(c, by, p, ks) \/ deleteProject(c, by, p)
        PROVE  TypeInv'
    <2>1. None \in Paths \union {None} /\ {} \in SUBSET Keys
      OBVIOUS
    <2> QED BY <1>3, <1>4, <2>1 DEF updateProject, updateMetadata, deleteProject, Saves, FileOps
  <1>5. ASSUME NEW by \in Callers, NEW p \in Projects, NEW x \in Paths,
               addFile(c, by, p, x) \/ removeFile(c, by, p, x)
        PROVE  TypeInv'
    <2>1. x \in Paths \union {None} /\ {} \in SUBSET Keys
      OBVIOUS
    <2> QED BY <1>3, <1>5, <2>1 DEF addFile, removeFile, FileOps
  <1> QED BY <1>2, <1>4, <1>5 DEF StartCall

(* A call that reads, checks or fails.                                       *)
LEMMA ReadsKeepTypes ==
  ASSUME TypeInv, NEW c \in Calls, entitled' \subseteq Workspaces \X Users,
         \/ FindProject(c) \/ checkWorkspaceAccess(c) \/ checkProjectModifyPermission(c)
         \/ AddProjectEvent(c) \/ AddDeleteEvent(c) \/ FindFile(c) \/ GetFile(c) \/ Fails(c)
  PROVE  TypeInv'
  <1> DEFINE Fit(q) == q \in Slots /\ Sound(q) /\ FitsHome(q) /\ FitsId(q)
             moved(pc) == [call[c] EXCEPT !.pc = pc]
  <1>0. TypeOK /\ blurred \subseteq Projects \X Paths
    BY DEF TypeInv, TypeOK
  <1>1. Fit(call[c])
    BY <1>0, TypesOf DEF TypeInv
  <1>2. Fit(Idle)
    BY IdleIsTyped DEF FitsHome, FitsId
  <1>3. \E q : Fit(q) /\ call' = [call EXCEPT ![c] = q]
    <2>1. CASE FindProject(c)
      <3> DEFINE q == [call[c] EXCEPT !.pc = IF Is(c, {"addFile", "removeFile"}) THEN "checkModify" ELSE "checkAccess",
                                      !.ws = project[P(c)].ws,
                                      !.keys = IF Is(c, Saves) THEN project[P(c)].keys ELSE {}]
      <3>1. CASE ~Exists(P(c))
        BY <1>2, <2>1, <3>1 DEF FindProject, End
      <3>2. CASE Exists(P(c))
        <4>1. call[c].op \in Saves \union FileOps \union {"deleteProject"} /\ P(c) \in created /\ P(c) \in Projects
          BY <1>0, <1>1, <2>1, TypesOf DEF FindProject, At, Sound, Placed, Informed, P, None, Saves, FileOps
        <4>2. project[P(c)].ws \in Workspaces /\ project[P(c)].keys \in SUBSET Keys
          BY <1>0, <3>2, <4>1, TypesOf DEF TypeInv, Kept, ProjectRows
        <4>3. /\ q \in Slots
              /\ q.op = call[c].op /\ q.by = call[c].by /\ q.p = P(c) /\ q.path = call[c].path
              /\ q.id = call[c].id /\ q.ws = project[P(c)].ws
              /\ q.pc = IF q.op \in FileOps THEN "checkModify" ELSE "checkAccess"
          BY <1>1, <4>1, <4>2 DEF Slots, PCs, P, Is, FileOps
        <4>4. call' = [call EXCEPT ![c] = q]
          BY <2>1, <3>2 DEF FindProject
        <4> HIDE DEF q
        <4>5. Sound(q)
          BY <1>1, <2>1, <4>1, <4>2, <4>3 DEF FindProject, At, Sound, Placed, Informed, Asking, Located, Saves, FileOps, None, P
        <4>6. FitsHome(q)
          BY <3>2, <4>1, <4>2, <4>3 DEF FitsHome, TypeInv, P
        <4>7. FitsId(q)
          BY <1>1, <2>1, <4>3 DEF FindProject, At, Sound, Informed, FitsId
        <4> QED BY <4>3, <4>4, <4>5, <4>6, <4>7
      <3> QED BY <3>1, <3>2
    <2>2. CASE checkWorkspaceAccess(c)
      <3>1. moved("checkModify") \in Slots /\ Sound(moved("checkModify"))
        BY <1>1, <2>2 DEF checkWorkspaceAccess, At, Slots, PCs, Sound, Placed, Informed, Asking, Located, Saves, FileOps, None
      <3>2. FitsHome(moved("checkModify")) /\ FitsId(moved("checkModify"))
        BY <1>1, <2>2 DEF checkWorkspaceAccess, At, Slots, FitsHome, FitsId, Located, Asking, None
      <3> QED BY <1>2, <2>2, <3>1, <3>2 DEF checkWorkspaceAccess, Goto, End
    <2>3. CASE checkProjectModifyPermission(c)
      <3> DEFINE pc == AfterCheck[call[c].op]
      <3>1. /\ pc \in {"insertProject", "saveProject", "deleteEvent", "findFile", "getFile"}
            /\ pc = "insertProject" <=> call[c].op = "createProject"
            /\ pc = "saveProject" <=> call[c].op \in Saves
            /\ pc = "deleteEvent" <=> call[c].op = "deleteProject"
            /\ pc = "findFile" <=> call[c].op = "addFile"
            /\ pc = "getFile" <=> call[c].op = "removeFile"
        BY <1>1, <2>3 DEF checkProjectModifyPermission, At, Sound, Placed, AfterCheck, Saves, FileOps
      <3>2. call' = [call EXCEPT ![c] = Idle] \/ call' = [call EXCEPT ![c] = moved(pc)]
        BY <2>3 DEF checkProjectModifyPermission, Goto, End
      <3> HIDE DEF pc
      <3>3. moved(pc) \in Slots /\ moved(pc).pc = pc /\ moved(pc).op = call[c].op /\ moved(pc).p = call[c].p
            /\ moved(pc).by = call[c].by /\ moved(pc).path = call[c].path /\ moved(pc).id = call[c].id
            /\ moved(pc).ws = call[c].ws
        BY <1>1, <3>1 DEF Slots, PCs
      <3>4. Sound(moved(pc))
        BY <1>1, <2>3, <3>1, <3>3 DEF checkProjectModifyPermission, At, Sound, Placed, Informed, Asking, Located, Saves, FileOps, None
      <3>5. FitsHome(moved(pc)) /\ FitsId(moved(pc))
        BY <1>1, <2>3, <3>1, <3>3 DEF checkProjectModifyPermission, At, FitsHome, FitsId, Located, Asking, None
      <3> QED BY <1>2, <3>2, <3>3, <3>4, <3>5
    <2>4. CASE AddDeleteEvent(c)
      <3>1. moved("deleteProject") \in Slots /\ Sound(moved("deleteProject"))
        BY <1>1, <2>4 DEF AddDeleteEvent, At, Slots, PCs, Sound, Placed, Informed, Asking, Located, Saves, FileOps, None
      <3>2. FitsHome(moved("deleteProject")) /\ FitsId(moved("deleteProject"))
        BY <1>1, <2>4 DEF AddDeleteEvent, At, Slots, FitsHome, FitsId, Located, Asking, None
      <3> QED BY <1>2, <2>4, <3>1, <3>2 DEF AddDeleteEvent, Goto, End
    <2>5. CASE FindFile(c)
      <3> DEFINE q == [call[c] EXCEPT !.pc = "saveFile", !.id = file[P(c)][Path(c)].id]
      <3>1. /\ P(c) \in Projects /\ Path(c) \in Paths /\ call[c].op = "addFile" /\ P(c) \in created
        BY <1>0, <1>1, <2>5, TypesOf DEF FindFile, At, Sound, Placed, Informed, P, Path, FileOps, None
      <3>2. file[P(c)][Path(c)] \in FileRows
        BY <1>0, <3>1, TypesOf
      <3>3. /\ q \in Slots
            /\ q.op = call[c].op /\ q.by = call[c].by /\ q.p = P(c) /\ q.path = Path(c)
            /\ q.id = file[P(c)][Path(c)].id /\ q.ws = call[c].ws /\ q.pc = "saveFile"
        BY <1>1, <3>2 DEF Slots, PCs, P, Path, FileRows
      <3>4. call' = [call EXCEPT ![c] = q]
        BY <2>5 DEF FindFile
      <3> HIDE DEF q
      <3>5. Sound(q)
        BY <1>1, <2>5, <3>1, <3>3 DEF FindFile, At, Sound, Placed, Informed, Asking, Located, Saves, FileOps, None, P, Path
      <3>6. FitsHome(q)
        BY <1>1, <2>5, <3>3 DEF FindFile, At, FitsHome, Located, Asking, None, P
      <3>7. FitsId(q)
        <4> SUFFICES ASSUME q.id # None PROVE FitsId(q)
          BY DEF FitsId
        <4>1. HasFile(P(c), Path(c))
          BY <3>3, NoRowsAreTyped DEF HasFile
        <4>2. FilesAreApart
          BY <1>0, TypesOf
        <4>3. \A p \in Projects, x \in Paths : file[p][x].id = q.id => p = q.p /\ x = q.path
          BY <3>1, <3>3, <4>1, <4>2 DEF FilesAreApart
        <4>4. \A d \in Calls : call[d].id = q.id => P(d) = q.p /\ Path(d) = q.path
          BY <3>1, <3>3 DEF TypeInv, FitsId, P, Path
        <4> QED BY <4>3, <4>4 DEF FitsId
      <3> QED BY <3>3, <3>4, <3>5, <3>6, <3>7
    <2>6. CASE GetFile(c)
      <3>1. moved("deleteFile") \in Slots /\ Sound(moved("deleteFile"))
        BY <1>1, <2>6 DEF GetFile, At, Slots, PCs, Sound, Placed, Informed, Asking, Located, Saves, FileOps, None
      <3>2. FitsHome(moved("deleteFile")) /\ FitsId(moved("deleteFile"))
        BY <1>1, <2>6 DEF GetFile, At, Slots, FitsHome, FitsId, Located, Asking, None
      <3> QED BY <1>2, <2>6, <3>1, <3>2 DEF GetFile, Goto, End
    <2>7. CASE AddProjectEvent(c) \/ Fails(c)
      BY <1>2, <2>7 DEF AddProjectEvent, Fails, End
    <2> QED BY <2>1, <2>2, <2>3, <2>4, <2>5, <2>6, <2>7
  <1>4. UNCHANGED <<membership, rows, created, gone>>
    BY DEF FindProject, checkWorkspaceAccess, checkProjectModifyPermission, AddProjectEvent, AddDeleteEvent,
           FindFile, GetFile, Fails, history
  <1>5. blurred' \subseteq Projects \X Paths
    <2>1. At(c, "fileEvent") => P(c) \in Projects /\ Path(c) \in Paths
      BY <1>0, <1>1, TypesOf DEF At, Sound, Placed, Informed, P, Path, FileOps, None
    <2> QED BY <1>0, <2>1 DEF FindProject, checkWorkspaceAccess, checkProjectModifyPermission, AddProjectEvent,
              AddDeleteEvent, FindFile, GetFile, Fails, history
  <1> QED BY <1>3, <1>4, <1>5, MoveKeepsTypes

(* A write: other calls keep what they know, the writer forgets it.          *)
Alike(q, r) == q = r \/ (r.pc # None /\ q = [r EXCEPT !.overtaken = TRUE])

LEMMA AlikeKeeps ==
  ASSUME NEW q, NEW r \in Slots, Alike(q, r)
  PROVE  /\ q \in Slots /\ q.op = r.op /\ q.pc = r.pc /\ q.by = r.by /\ q.p = r.p /\ q.ws = r.ws
         /\ q.path = r.path /\ q.id = r.id /\ q.keys = r.keys /\ q.dto = r.dto
         /\ Sound(r) => Sound(q)
  <1>1. /\ q \in Slots /\ q.op = r.op /\ q.pc = r.pc /\ q.by = r.by /\ q.p = r.p /\ q.ws = r.ws
        /\ q.path = r.path /\ q.id = r.id /\ q.keys = r.keys /\ q.dto = r.dto
    BY DEF Alike, Slots
  <1>2. q = r \/ r.pc # None
    BY DEF Alike
  <1> QED BY <1>1, <1>2 DEF Sound, Placed, Informed, Asking, Located

Quiet(q) == q.pc \in {None, "projectEvent", "fileEvent"}

HomesStay == \A p \in Projects : Exists(p)' =>
  \/ Exists(p) /\ project'[p].ws = project[p].ws
  \/ \A d \in Calls : Located(call[d]) /\ P(d) = p => call[d].ws = project'[p].ws

IdsStay == \A p \in Projects, x \in Paths :
  \/ file'[p][x].id \in {None, file[p][x].id}
  \/ \A d \in Calls : call[d].id = file'[p][x].id => P(d) = p /\ Path(d) = x

LEMMA CallsAfterWrite ==
  ASSUME TypeInv, call' \in [Calls -> Slots], created \subseteq created',
         \A d \in Calls : Alike(call'[d], call[d]) \/ (Quiet(call'[d]) /\ Sound(call[d])'),
         HomesStay, IdsStay
  PROVE  \A d \in Calls : Sound(call[d])' /\ FitsHome(call[d])' /\ FitsId(call[d])'
  <1>1. \A d \in Calls : call[d] \in Slots
    BY TypesOf DEF TypeInv
  <1>2. \A d \in Calls :
          \/ Quiet(call'[d]) /\ Sound(call[d])'
          \/ /\ call'[d].op = call[d].op /\ call'[d].pc = call[d].pc /\ call'[d].by = call[d].by
             /\ call'[d].p = call[d].p /\ call'[d].ws = call[d].ws /\ call'[d].path = call[d].path
             /\ call'[d].id = call[d].id /\ Sound(call'[d])
    BY <1>1, AlikeKeeps DEF TypeInv
  <1>3. \A d \in Calls : Sound(call[d])'
    BY <1>2 DEF Sound, Placed, Informed, Asking, Located
  <1>4. \A d \in Calls : /\ Quiet(call'[d]) => ~Located(call'[d]) /\ call'[d].id = None
                         /\ ~Quiet(call'[d]) => Located(call'[d]) = Located(call[d])
    BY <1>2, <1>3 DEF Quiet, Located, Asking, Sound, Informed, None
  <1>5. \A d \in Calls : FitsHome(call[d])'
    <2> SUFFICES ASSUME NEW d \in Calls, Located(call'[d])
                 PROVE  /\ \A p \in Projects : p = call'[d].p /\ Exists(p)' => call'[d].ws = project'[p].ws
                        /\ \A e \in Calls : Located(call'[e]) /\ call'[e].p = call'[d].p /\ call'[d].p # None
                                              => call'[e].ws = call'[d].ws
      BY DEF FitsHome, Located, Asking, P, Exists
    <2>1. /\ call'[d].p = call[d].p /\ call'[d].ws = call[d].ws /\ Located(call[d]) /\ FitsHome(call[d])
      BY <1>2, <1>4 DEF TypeInv
    <2>2. \A e \in Calls : Located(call'[e]) => /\ call'[e].p = call[e].p /\ call'[e].ws = call[e].ws
                                                /\ Located(call[e])
      BY <1>2, <1>4
    <2>3. \A p \in Projects : p = call'[d].p /\ Exists(p)' => call'[d].ws = project'[p].ws
      BY <2>1 DEF HomesStay, FitsHome, P
    <2> QED BY <2>1, <2>2, <2>3 DEF FitsHome, P
  <1>6. \A d \in Calls : FitsId(call[d])'
    <2> SUFFICES ASSUME NEW d \in Calls, call'[d].id # None
                 PROVE  /\ \A p \in Projects, x \in Paths :
                             file'[p][x].id = call'[d].id => p = call'[d].p /\ x = call'[d].path
                        /\ \A e \in Calls : call'[e].id = call'[d].id =>
                             call'[e].p = call'[d].p /\ call'[e].path = call'[d].path
      BY DEF FitsId, P, Path
    <2>1. \A e \in Calls : call'[e].id # None =>
            /\ call'[e].p = call[e].p /\ call'[e].path = call[e].path /\ call'[e].id = call[e].id
            /\ FitsId(call[e])
      BY <1>2, <1>4 DEF TypeInv
    <2> QED BY <2>1 DEF IdsStay, FitsId, P, Path
  <1> QED BY <1>3, <1>5, <1>6

LEMMA TypesAfterWrite ==
  ASSUME TypeInv,
         project' \in [Projects -> ProjectRows], file' \in [Projects -> [Paths -> FileRows]],
         told' \in [Projects -> [Paths -> {None, "create", "delete"}]], call' \in [Calls -> Slots],
         created' \subseteq Projects, gone' \subseteq Projects,
         entitled' \subseteq Workspaces \X Users, blurred' \subseteq Projects \X Paths,
         FilesAreApart', \A p \in Projects : Kept(p)', MembersTyped',
         created \subseteq created',
         \A d \in Calls : Alike(call'[d], call[d]) \/ (Quiet(call'[d]) /\ Sound(call[d])'),
         HomesStay, IdsStay
  PROVE  TypeInv'
  <1>1. TypeOK'
    BY DEF TypeOK, Slots, ProjectRows, FileRows, FilesAreApart, Kept
  <1> QED BY <1>1, CallsAfterWrite DEF TypeInv

(* The call that tells of a project.                                         *)
LEMMA TellIsTyped ==
  ASSUME NEW p \in Projects
  PROVE  /\ TellOf(p) \in Slots /\ Placed(TellOf(p)) /\ Quiet(TellOf(p))
         /\ TellOf(p).op = "event" /\ TellOf(p).pc = "projectEvent" /\ TellOf(p).p = p /\ TellOf(p).id = None
         /\ p \in created => Sound(TellOf(p))
  <1>1. /\ TellOf(p) \in Slots /\ TellOf(p).op = "event" /\ TellOf(p).pc = "projectEvent"
        /\ TellOf(p).p = p /\ TellOf(p).id = None
    BY IdleIsTyped DEF TellOf, Slots, Ops, PCs
  <1>2. Placed(TellOf(p)) /\ Quiet(TellOf(p))
    BY <1>1 DEF Placed, Quiet, None
  <1>3. p \in created => Informed(TellOf(p))
    BY <1>1 DEF Informed, Asking, Located, FileOps, None
  <1> QED BY <1>1, <1>2, <1>3 DEF Sound

LEMMA InsertProjectKeepsTypes ==
  ASSUME TypeInv, NEW c \in Calls, NEW p \in Projects, InsertProject(c, p),
         entitled' \subseteq Workspaces \X Users
  PROVE  TypeInv'
  <1>0. /\ TypeOK /\ MembersTyped /\ call[c] \in Slots
        /\ call[c].op = "createProject" /\ call[c].ws \in Workspaces /\ P(c) = None
    BY TypesOf DEF TypeInv, InsertProject, At, Sound, Placed, Informed, Located, Asking, P, None
  <1>1. MembersTyped' /\ (\A w \in Workspaces : Stands(w)' <=> Stands(w))
    BY <1>0 DEF InsertProject, MembersTyped, membership, Stands
  <1>2. CASE Stands(call[c].ws)
    <2> DEFINE row == [ws |-> call[c].ws, keys |-> call[c].dto]
    <2>1. /\ project' \in [Projects -> ProjectRows]
          /\ project'[p].ws = call[c].ws /\ project'[p] # NoProject
          /\ \A q \in Projects : q # p => project'[q] = project[q]
      <3>1. row \in ProjectRows /\ row.ws = call[c].ws /\ row # NoProject
        BY <1>0, NoRowsAreTyped DEF Slots, ProjectRows
      <3>2. project' = [project EXCEPT ![p] = row] /\ project \in [Projects -> ProjectRows]
        BY <1>0, <1>2, TypesOf DEF InsertProject
      <3> HIDE DEF row
      <3> QED BY <3>1, <3>2
    <2>2. /\ call' \in [Calls -> Slots] /\ call'[c] = TellOf(p)
          /\ \A d \in Calls : d # c => call'[d] = call[d]
      BY <1>0, <1>2, SlotEffect, TellIsTyped DEF InsertProject
    <2>3. p \notin created /\ created' = created \union {p} /\ UNCHANGED <<file, told, gone, blurred>>
      BY <1>2 DEF InsertProject
    <2>4. Sound(call[c])' /\ Quiet(call'[c])
      BY <2>2, <2>3, TellIsTyped DEF Sound, Informed, Asking, Located, Placed, Quiet, FileOps, None
    <2>5. HomesStay
      <3>1. \A d \in Calls : Located(call[d]) => P(d) # p
        BY <2>3 DEF TypeInv, Sound, Placed, Informed, Located, Asking, P, None
      <3> QED BY <2>1, <3>1 DEF HomesStay, Exists
    <2>6. IdsStay /\ FilesAreApart'
      BY <1>0, <2>3, TypesOf DEF IdsStay, FilesAreApart, HasFile
    <2>7. \A q \in Projects : Kept(q)'
      BY <1>0, <1>1, <1>2, <2>1, <2>3 DEF TypeInv, Kept, Exists, HasFile, Stands
    <2>8. \A d \in Calls : Alike(call'[d], call[d]) \/ (Quiet(call'[d]) /\ Sound(call[d])')
      BY <2>2, <2>4 DEF Alike
    <2> QED BY <1>0, <1>1, <2>1, <2>2, <2>3, <2>5, <2>6, <2>7, <2>8, TypesOf, TypesAfterWrite
  <1>3. CASE ~Stands(call[c].ws)
    <2>1. FitsHome(Idle) /\ FitsId(Idle)
      BY IdleIsTyped DEF FitsHome, FitsId
    <2> QED BY <1>0, <1>3, <2>1, IdleIsTyped, MoveKeepsTypes, TypesOf DEF InsertProject, End, rows
  <1> QED BY <1>2, <1>3

LEMMA SaveProjectKeepsTypes ==
  ASSUME TypeInv, NEW c \in Calls, SaveProject(c), entitled' \subseteq Workspaces \X Users
  PROVE  TypeInv'
  <1>0. /\ TypeOK /\ MembersTyped /\ call[c] \in Slots
        /\ call[c].op \in Saves /\ call[c].ws \in Workspaces /\ P(c) \in created /\ P(c) \in Projects
        /\ Located(call[c])
    BY TypesOf DEF TypeInv, SaveProject, Put, At, Sound, Placed, Informed, Located, Asking, P, Saves, None
  <1>1. MembersTyped' /\ (\A w \in Workspaces : Stands(w)' <=> Stands(w))
    BY <1>0 DEF SaveProject, Put, MembersTyped, membership, Stands
  <1>2. PICK p \in Projects : p = P(c)
    BY <1>0
  <1>3. CASE Exists(p) \/ Stands(call[c].ws)
    <2>1. PICK row \in ProjectRows : /\ row.ws = call[c].ws /\ row # NoProject
                                     /\ project' = [project EXCEPT ![p] = row]
      <3> DEFINE row == [ws |-> call[c].ws, keys |-> NewKeys(c)]
      <3>1. NewKeys(c) \in SUBSET Keys
        BY <1>0 DEF NewKeys, Slots
      <3>2. row \in ProjectRows /\ row.ws = call[c].ws /\ row # NoProject
        BY <1>0, <3>1, NoRowsAreTyped DEF ProjectRows
      <3>3. project' = [project EXCEPT ![p] = row]
        BY <1>2, <1>3 DEF SaveProject, Put
      <3> HIDE DEF row
      <3> QED BY <3>2, <3>3
    <2>2. /\ project' \in [Projects -> ProjectRows]
          /\ project'[p] = row
          /\ \A q \in Projects : q # p => project'[q] = project[q]
      BY <1>0, <2>1, TypesOf
    <2>3. UNCHANGED <<file, told, created, gone, blurred>>
      BY DEF SaveProject, Put, history
    <2>4. /\ call'[c] = TellOf(p)
          /\ \A d \in Calls : d # c => Alike(call'[d], call[d])
          /\ DOMAIN call' = Calls /\ call' = [d \in Calls |-> call'[d]]
      <3>1. call' = [d \in Calls |-> IF d = c THEN TellOf(p)
                                     ELSE IF d \in Updating(p) THEN [call[d] EXCEPT !.overtaken = TRUE]
                                     ELSE call[d]]
        BY <1>2, <1>3 DEF SaveProject, Put
      <3>2. \A d \in Updating(p) : call[d].pc # None
        BY DEF Updating, None
      <3> QED BY <3>1, <3>2 DEF Alike
    <2>5. call' \in [Calls -> Slots]
      <3>1. \A d \in Calls : call'[d] \in Slots
        BY <1>0, <2>4, AlikeKeeps, TellIsTyped, TypesOf
      <3> QED BY <2>4, <3>1
    <2>6. Sound(call[c])' /\ Quiet(call'[c])
      BY <1>0, <1>2, <2>3, <2>4, TellIsTyped DEF Sound, Informed, Asking, Located, Placed, Quiet, FileOps, None
    <2>7. HomesStay
      <3>1. \A d \in Calls : Located(call[d]) /\ P(d) = p => call[d].ws = call[c].ws
        BY <1>0, <1>2 DEF TypeInv, FitsHome, P
      <3> QED BY <2>1, <2>2, <3>1 DEF HomesStay, Exists
    <2>8. IdsStay /\ FilesAreApart'
      BY <1>0, <2>3, TypesOf DEF IdsStay, FilesAreApart, HasFile
    <2>9. Stands(call[c].ws)
      BY <1>0, <1>2, <1>3 DEF TypeInv, FitsHome, Kept, P
    <2>10. \A q \in Projects : Kept(q)'
      <3>1. \A w \in Workspaces : owner'[w] # Nobody <=> owner[w] # Nobody
        BY <1>1 DEF Stands
      <3>2. /\ project'[p].ws \in Workspaces /\ owner'[project'[p].ws] # Nobody /\ p \in created
            /\ project'[p] # NoProject
        BY <1>0, <1>2, <2>1, <2>2, <2>9, <3>1 DEF Stands
      <3>3. \A q \in Projects : q # p => Kept(q)'
        BY <2>2, <2>3, <3>1 DEF TypeInv, Kept, Exists, HasFile, Stands
      <3>4. Kept(p)'
        BY <2>3, <3>2 DEF TypeInv, Kept, Exists, HasFile, Stands
      <3> QED BY <3>3, <3>4
    <2>11. \A d \in Calls : Alike(call'[d], call[d]) \/ (Quiet(call'[d]) /\ Sound(call[d])')
      BY <2>4, <2>6
    <2> QED BY <1>0, <1>1, <2>2, <2>3, <2>5, <2>7, <2>8, <2>10, <2>11, TypesOf, TypesAfterWrite
  <1>4. CASE ~(Exists(p) \/ Stands(call[c].ws))
    <2>1. FitsHome(Idle) /\ FitsId(Idle)
      BY IdleIsTyped DEF FitsHome, FitsId
    <2> QED BY <1>0, <1>2, <1>4, <2>1, IdleIsTyped, MoveKeepsTypes, TypesOf DEF SaveProject, Put, End, rows, history
  <1> QED BY <1>3, <1>4

(* Deletions of projects, with their files and events.                       *)
LEMMA CascadeEffect ==
  ASSUME TypeInv, NEW ps \in SUBSET Projects, Cascade(ps), \A p \in ps : Exists(p)
  PROVE  /\ project' \in [Projects -> ProjectRows] /\ file' \in [Projects -> [Paths -> FileRows]]
         /\ told' \in [Projects -> [Paths -> {None, "create", "delete"}]]
         /\ gone' \subseteq Projects /\ blurred' \subseteq Projects \X Paths /\ created' = created
         /\ \A p \in ps : /\ project'[p] = NoProject
                          /\ \A x \in Paths : file'[p][x] = NoFile /\ told'[p][x] = None
         /\ \A p \in Projects : p \notin ps =>
              project'[p] = project[p] /\ file'[p] = file[p] /\ told'[p] = told[p]
         /\ HomesStay /\ IdsStay /\ FilesAreApart'
  <1>0. TypeOK
    BY DEF TypeInv
  <1>1. /\ project' \in [Projects -> ProjectRows] /\ file' \in [Projects -> [Paths -> FileRows]]
        /\ told' \in [Projects -> [Paths -> {None, "create", "delete"}]]
    BY <1>0, TypesOf, NoRowsAreTyped DEF Cascade
  <1>2. /\ \A p \in ps : /\ project'[p] = NoProject
                         /\ \A x \in Paths : file'[p][x] = NoFile /\ told'[p][x] = None
        /\ \A p \in Projects : p \notin ps =>
             project'[p] = project[p] /\ file'[p] = file[p] /\ told'[p] = told[p]
    BY DEF Cascade
  <1>3. blurred' \subseteq Projects \X Paths
    <2>1. \A p \in ps : \A c \in Telling(p) : P(c) \in Projects /\ Path(c) \in Paths
      BY <1>0, TypesOf DEF TypeInv, Telling, At, Sound, Placed, Informed, P, Path, FileOps, None
    <2> QED BY <1>0, <2>1, TypesOf DEF Cascade
  <1>4. HomesStay
    BY <1>2 DEF HomesStay, Exists
  <1>5. IdsStay
    BY <1>2, NoRowsAreTyped DEF IdsStay
  <1>6. FilesAreApart'
    <2>1. FilesAreApart /\ (\A p \in Projects, x \in Paths : HasFile(p, x) => file[p][x].id # None)
      BY <1>0, TypesOf DEF TypeInv, Kept
    <2> QED BY <1>2, <2>1, NoRowsAreTyped DEF FilesAreApart, HasFile
  <1>7. gone' \subseteq Projects /\ created' = created
    BY <1>0, TypesOf DEF Cascade
  <1> QED BY <1>1, <1>2, <1>3, <1>4, <1>5, <1>6, <1>7

LEMMA DeleteProjectKeepsTypes ==
  ASSUME TypeInv, NEW c \in Calls, DeleteProject(c), entitled' \subseteq Workspaces \X Users
  PROVE  TypeInv'
  <1> DEFINE ps == {P(c)} \intersect {p \in Projects : Exists(p)}
  <1>0. TypeOK /\ MembersTyped
    BY DEF TypeInv
  <1>1. ps \in SUBSET Projects /\ Cascade(ps) /\ \A p \in ps : Exists(p)
    BY DEF DeleteProject
  <1>2. /\ project' \in [Projects -> ProjectRows] /\ file' \in [Projects -> [Paths -> FileRows]]
        /\ told' \in [Projects -> [Paths -> {None, "create", "delete"}]]
        /\ gone' \subseteq Projects /\ blurred' \subseteq Projects \X Paths /\ created' = created
        /\ HomesStay /\ IdsStay /\ FilesAreApart'
        /\ \A p \in Projects : \/ project'[p] = NoProject /\ \A x \in Paths : file'[p][x] = NoFile /\ told'[p][x] = None
                               \/ project'[p] = project[p] /\ file'[p] = file[p] /\ told'[p] = told[p]
    <2> HIDE DEF ps
    <2> QED BY <1>1, CascadeEffect
  <1>3. /\ call' \in [Calls -> Slots] /\ call'[c] = Idle
        /\ \A d \in Calls : d # c => call'[d] = call[d]
    BY <1>0, SlotEffect, IdleIsTyped DEF DeleteProject, End
  <1>4. \A d \in Calls : Alike(call'[d], call[d]) \/ (Quiet(call'[d]) /\ Sound(call[d])')
    <2>1. Sound(call[c])' /\ Quiet(call'[c])
      BY <1>3, IdleIsTyped DEF Sound, Placed, Informed, Asking, Located, Quiet, FileOps, None
    <2> QED BY <1>3, <2>1 DEF Alike
  <1>5. UNCHANGED <<owner, role, creator>>
    BY DEF DeleteProject, membership
  <1>6. MembersTyped'
    BY <1>0, <1>5 DEF MembersTyped
  <1>7. \A p \in Projects : Kept(p)'
    <2>1. \A w \in Workspaces : owner'[w] = owner[w]
      BY <1>5
    <2> SUFFICES ASSUME NEW p \in Projects PROVE Kept(p)'
      OBVIOUS
    <2>2. Kept(p) /\ created' = created
      BY <1>2 DEF TypeInv
    <2>3. CASE project'[p] = NoProject /\ \A x \in Paths : file'[p][x] = NoFile /\ told'[p][x] = None
      BY <2>3 DEF Kept, Exists, HasFile
    <2>4. CASE project'[p] = project[p] /\ file'[p] = file[p] /\ told'[p] = told[p]
      BY <2>1, <2>2, <2>4 DEF Kept, Exists, HasFile, Stands
    <2> HIDE DEF ps
    <2> QED BY <1>2, <2>3, <2>4
  <1> QED BY <1>0, <1>2, <1>3, <1>4, <1>6, <1>7, TypesOf, TypesAfterWrite

LEMMA WorkspaceClosesKeepsTypes ==
  ASSUME TypeInv, NEW w \in Workspaces, WorkspaceCloses(w), entitled' \subseteq Workspaces \X Users
  PROVE  TypeInv'
  <1> DEFINE ps == {p \in Projects : project[p].ws = w}
  <1>0. TypeOK /\ MembersTyped
    BY DEF TypeInv
  <1>1. ps \in SUBSET Projects /\ Cascade(ps) /\ \A p \in ps : Exists(p)
    BY NoRowsAreTyped DEF WorkspaceCloses, Exists
  <1>2. /\ project' \in [Projects -> ProjectRows] /\ file' \in [Projects -> [Paths -> FileRows]]
        /\ told' \in [Projects -> [Paths -> {None, "create", "delete"}]]
        /\ gone' \subseteq Projects /\ blurred' \subseteq Projects \X Paths /\ created' = created
        /\ HomesStay /\ IdsStay /\ FilesAreApart'
        /\ \A p \in Projects : \/ project'[p] = NoProject /\ \A x \in Paths : file'[p][x] = NoFile /\ told'[p][x] = None
                               \/ /\ project[p].ws # w
                                  /\ project'[p] = project[p] /\ file'[p] = file[p] /\ told'[p] = told[p]
    <2>1. \A p \in Projects : p \in ps <=> project[p].ws = w
      OBVIOUS
    <2> HIDE DEF ps
    <2> QED BY <1>1, <2>1, CascadeEffect
  <1>3. call' = call
    BY DEF WorkspaceCloses
  <1>4. /\ MembersTyped'
        /\ \A x \in Workspaces : x # w => owner'[x] = owner[x]
    BY <1>0 DEF WorkspaceCloses, Close, MembersTyped, Nobody, None, Roles
  <1>5. \A p \in Projects : Kept(p)'
    BY <1>0, <1>2, <1>4 DEF TypeInv, Kept, Exists, HasFile, Stands
  <1>6. \A d \in Calls : Alike(call'[d], call[d])
    BY <1>3 DEF Alike
  <1> QED BY <1>0, <1>2, <1>3, <1>4, <1>5, <1>6, TypesOf, TypesAfterWrite

LEMMA MembersChangeKeepsTypes ==
  ASSUME TypeInv, NEW w \in Workspaces, MembersChange(w), entitled' \subseteq Workspaces \X Users
  PROVE  TypeInv'
  <1>0. TypeOK /\ MembersTyped
    BY DEF TypeInv
  <1>1. MembersTyped' /\ \A x \in Workspaces : Stands(x) => owner'[x] # Nobody
    <2>1. CASE Reopen(w)
      BY <1>0, <2>1 DEF Reopen, MembersTyped, Stands
    <2>2. ASSUME NEW u \in Users, Open(w, u) PROVE MembersTyped' /\ \A x \in Workspaces : Stands(x) => owner'[x] # Nobody
      BY <1>0, <2>2 DEF Open, MembersTyped, Stands, Nobody, None
    <2>3. ASSUME NEW u \in Users, NEW r \in Roles \union {Nobody}, Join(w, u, r) \/ Change(w, u, r)
          PROVE  MembersTyped' /\ \A x \in Workspaces : Stands(x) => owner'[x] # Nobody
      <3>1. role' = [role EXCEPT ![w][u] = r] /\ UNCHANGED <<owner, creator>>
        BY <2>3 DEF Join, Change
      <3>2. r \in Roles \union {None}
        BY DEF Nobody, None
      <3> QED BY <1>0, <3>1, <3>2 DEF MembersTyped, Stands
    <2> QED BY <2>1, <2>2, <2>3 DEF MembersChange, Admit, Dismiss
  <1>2. UNCHANGED <<project, file, told, call, created, gone, blurred>>
    BY DEF MembersChange, rows, history
  <1>3. \A p \in Projects : Kept(p)'
    BY <1>1, <1>2 DEF TypeInv, Kept, Exists, HasFile, Stands
  <1>4. HomesStay /\ IdsStay /\ FilesAreApart' /\ \A d \in Calls : Alike(call'[d], call[d])
    BY <1>0, <1>2, TypesOf DEF HomesStay, IdsStay, FilesAreApart, Exists, HasFile, Alike
  <1> QED BY <1>0, <1>1, <1>2, <1>3, <1>4, TypesOf, TypesAfterWrite

(* A row of a file is written or deleted.                                    *)
LEMMA WrittenFileKeepsTypes ==
  ASSUME TypeInv, NEW c \in Calls, NEW p \in Projects, p = P(c), NEW x \in Paths, x = Path(c),
         call[c].op \in FileOps, p \in created, NEW row \in FileRows, file' = SetFile(p, x, row), Written(c),
         \/ row = NoFile
         \/ /\ Exists(p) /\ row.id \in FileIds /\ row.by \in Users
            /\ \A q \in Projects, y \in Paths : file[q][y].id = row.id => q = p /\ y = x
            /\ \A d \in Calls : call[d].id = row.id => P(d) = p /\ Path(d) = x,
         entitled' \subseteq Workspaces \X Users
  PROVE  TypeInv'
  <1>0. TypeOK /\ MembersTyped
    BY DEF TypeInv
  <1>1. /\ file' \in [Projects -> [Paths -> FileRows]]
        /\ file'[p][x] = row
        /\ \A q \in Projects, y \in Paths : q # p \/ y # x => file'[q][y] = file[q][y]
    BY <1>0, FileEffect
  <1>2. UNCHANGED <<owner, role, creator, project, told, created, gone>>
    BY DEF Written, membership
  <1>3. blurred' \subseteq Projects \X Paths
    BY <1>0, TypesOf DEF Written
  <1>4. /\ call' \in [Calls -> Slots] /\ Quiet(call'[c]) /\ Sound(call[c])'
        /\ \A d \in Calls : d # c => call'[d] = call[d]
    <2> DEFINE q == [Idle EXCEPT !.op = call[c].op, !.pc = "fileEvent", !.p = P(c), !.path = Path(c)]
    <2>1. /\ q \in Slots /\ q.op = call[c].op /\ q.pc = "fileEvent" /\ q.p = p /\ q.path = x /\ q.id = None
      BY IdleIsTyped DEF Slots, Ops, PCs, FileOps
    <2>2. call' = [call EXCEPT ![c] = q]
      BY DEF Written
    <2> HIDE DEF q
    <2>3. /\ call' \in [Calls -> Slots] /\ call'[c] = q
          /\ \A d \in Calls : d # c => call'[d] = call[d]
      BY <1>0, <2>1, <2>2, SlotEffect
    <2>4. Quiet(call'[c]) /\ Sound(call[c])'
      BY <1>2, <2>1, <2>3 DEF Quiet, Sound, Placed, Informed, Asking, Located, FileOps, None
    <2> QED BY <2>3, <2>4
  <1>5. MembersTyped'
    BY <1>0, <1>2 DEF MembersTyped
  <1>6. \A q \in Projects : Kept(q)'
    <2>1. \A w \in Workspaces : owner'[w] = owner[w]
      BY <1>2
    <2> QED BY <1>1, <1>2, <2>1 DEF TypeInv, Kept, Exists, HasFile, Stands
  <1>7. HomesStay
    BY <1>2 DEF HomesStay, Exists
  <1>8. IdsStay
    BY <1>1, NoRowsAreTyped DEF IdsStay
  <1>9. FilesAreApart'
    <2>1. FilesAreApart /\ None \notin FileIds /\ NoFile.id = None
      BY <1>0, TypesOf, NoRowsAreTyped
    <2>2. \A q \in Projects, y \in Paths : HasFile(q, y) => file[q][y].id \in FileIds
      BY DEF TypeInv, Kept
    <2>3. SUFFICES ASSUME NEW q \in Projects, NEW r \in Projects, NEW y \in Paths, NEW z \in Paths,
                          file'[q][y] # NoFile, file'[q][y].id = file'[r][z].id
                   PROVE  q = r /\ y = z
      BY DEF FilesAreApart, HasFile
    <2>4. CASE (q = p /\ y = x) \/ (r = p /\ z = x)
      BY <1>1, <2>1, <2>2, <2>3, <2>4 DEF HasFile
    <2>5. CASE ~(q = p /\ y = x) /\ ~(r = p /\ z = x)
      BY <1>1, <2>1, <2>3, <2>5 DEF FilesAreApart, HasFile
    <2> QED BY <2>4, <2>5
  <1>10. \A d \in Calls : Alike(call'[d], call[d]) \/ (Quiet(call'[d]) /\ Sound(call[d])')
    BY <1>4 DEF Alike
  <1> QED BY <1>0, <1>1, <1>2, <1>3, <1>4, <1>5, <1>6, <1>7, <1>8, <1>9, <1>10, TypesOf, TypesAfterWrite

(* What a call on a file knows.                                              *)
LEMMA FileCalls ==
  ASSUME TypeInv, NEW c \in Calls,
         call[c].pc \in {"findFile", "saveFile", "getFile", "deleteFile", "fileEvent"}
  PROVE  /\ call[c] \in Slots /\ call[c].op \in FileOps
         /\ P(c) \in created /\ P(c) \in Projects /\ Path(c) \in Paths
         /\ call[c].pc # "fileEvent" => call[c].by \in Users
  BY TypesOf DEF TypeInv, Sound, Placed, Informed, Asking, P, Path, FileOps, None

LEMMA EndKeepsTypes ==
  ASSUME TypeInv, NEW c \in Calls, End(c), UNCHANGED <<membership, rows, history>>,
         entitled' \subseteq Workspaces \X Users
  PROVE  TypeInv'
  <1>1. FitsHome(Idle) /\ FitsId(Idle)
    BY IdleIsTyped DEF FitsHome, FitsId
  <1>2. blurred \subseteq Projects \X Paths
    BY TypesOf DEF TypeInv
  <1> QED BY <1>1, <1>2, IdleIsTyped, MoveKeepsTypes DEF End, history

LEMMA SaveFileKeepsTypes ==
  ASSUME TypeInv, NEW c \in Calls, SaveFile(c), entitled' \subseteq Workspaces \X Users
  PROVE  TypeInv'
  <1>0. /\ call[c] \in Slots /\ call[c].op \in FileOps /\ P(c) \in created
        /\ P(c) \in Projects /\ Path(c) \in Paths /\ call[c].by \in Users /\ FitsId(call[c])
    BY FileCalls DEF SaveFile, At, TypeInv
  <1>1. PICK p \in Projects, x \in Paths : p = P(c) /\ x = Path(c)
    BY <1>0
  <1>2. PICK id \in FileIds :
          /\ IF call[c].id = None THEN FreshId(id) ELSE id = call[c].id
          /\ \/ Exists(p) /\ file' = SetFile(p, x, [id |-> id, by |-> call[c].by]) /\ Written(c)
             \/ End(c) /\ UNCHANGED <<membership, rows, history>>
    BY <1>1 DEF SaveFile, SetFile
  <1>3. CASE Exists(p) /\ file' = SetFile(p, x, [id |-> id, by |-> call[c].by]) /\ Written(c)
    <2> DEFINE row == [id |-> id, by |-> call[c].by]
    <2>1. row \in FileRows /\ row.id = id /\ row.by \in Users
      BY <1>0 DEF FileRows
    <2>2. \A q \in Projects, y \in Paths : file[q][y].id = id => q = p /\ y = x
      BY <1>0, <1>1, <1>2 DEF FreshId, FitsId, P, Path
    <2>3. \A d \in Calls : call[d].id = id => P(d) = p /\ Path(d) = x
      BY <1>0, <1>1, <1>2 DEF FreshId, HeldIds, FitsId, P, Path
    <2>4. file' = SetFile(p, x, row)
      BY <1>3
    <2> HIDE DEF row
    <2> QED BY <1>0, <1>1, <1>3, <2>1, <2>2, <2>3, <2>4, WrittenFileKeepsTypes
  <1> QED BY <1>2, <1>3, EndKeepsTypes

LEMMA DeleteFileKeepsTypes ==
  ASSUME TypeInv, NEW c \in Calls, DeleteFile(c), entitled' \subseteq Workspaces \X Users
  PROVE  TypeInv'
  <1>0. /\ call[c].op \in FileOps /\ P(c) \in created /\ P(c) \in Projects /\ Path(c) \in Paths
    BY FileCalls DEF DeleteFile, At
  <1>1. CASE HasFile(P(c), Path(c))
    <2>1. PICK p \in Projects, x \in Paths : p = P(c) /\ x = Path(c)
      BY <1>0
    <2>2. file' = SetFile(p, x, NoFile) /\ Written(c)
      BY <1>1, <2>1 DEF DeleteFile, SetFile
    <2> QED BY <1>0, <2>1, <2>2, NoRowsAreTyped, WrittenFileKeepsTypes
  <1>2. CASE ~HasFile(P(c), Path(c))
    BY <1>2, EndKeepsTypes DEF DeleteFile
  <1> QED BY <1>1, <1>2

LEMMA AddFileEventKeepsTypes ==
  ASSUME TypeInv, NEW c \in Calls, AddFileEvent(c), entitled' \subseteq Workspaces \X Users
  PROVE  TypeInv'
  <1>0. TypeOK /\ MembersTyped /\ P(c) \in Projects /\ Path(c) \in Paths
    BY FileCalls DEF AddFileEvent, At, TypeInv
  <1>1. UNCHANGED <<owner, role, creator, project, file, created, gone, blurred>>
    BY DEF AddFileEvent, membership, history
  <1>2. /\ told' \in [Projects -> [Paths -> {None, "create", "delete"}]]
        /\ \A p \in Projects, x \in Paths : told'[p][x] = told[p][x] \/ Exists(p)
    <2> DEFINE a == IF Is(c, {"addFile"}) THEN "create" ELSE "delete"
    <2>1. CASE Exists(P(c))
      <3>1. told' = [told EXCEPT ![P(c)][Path(c)] = a] /\ a \in {None, "create", "delete"}
        BY <2>1 DEF AddFileEvent
      <3> HIDE DEF a
      <3> QED BY <1>0, <2>1, <3>1, TypesOf
    <2>2. CASE ~Exists(P(c))
      BY <1>0, <2>2, TypesOf DEF AddFileEvent
    <2> QED BY <2>1, <2>2
  <1>3. /\ call' \in [Calls -> Slots] /\ call'[c] = Idle
        /\ \A d \in Calls : d # c => call'[d] = call[d]
    BY <1>0, SlotEffect, IdleIsTyped DEF AddFileEvent, End
  <1>4. \A d \in Calls : Alike(call'[d], call[d]) \/ (Quiet(call'[d]) /\ Sound(call[d])')
    <2>1. Sound(call[c])' /\ Quiet(call'[c])
      BY <1>3, IdleIsTyped DEF Sound, Placed, Informed, Asking, Located, Quiet, FileOps, None
    <2> QED BY <1>3, <2>1 DEF Alike
  <1>5. MembersTyped'
    BY <1>0, <1>1 DEF MembersTyped
  <1>6. \A p \in Projects : Kept(p)'
    BY <1>1, <1>2 DEF TypeInv, Kept, Exists, HasFile, Stands
  <1>7. HomesStay /\ IdsStay /\ FilesAreApart'
    BY <1>0, <1>1, TypesOf DEF HomesStay, IdsStay, FilesAreApart, Exists, HasFile
  <1> QED BY <1>0, <1>1, <1>2, <1>3, <1>4, <1>5, <1>6, <1>7, TypesOf, TypesAfterWrite

LEMMA TypeStep == TypeInv /\ [Next]_vars => TypeInv'
  <1> SUFFICES ASSUME TypeInv, [Next]_vars PROVE TypeInv'
    OBVIOUS
  <1>1. entitled \subseteq Workspaces \X Users
    BY TypesOf DEF TypeInv
  <1>2. CASE Next
    <2>1. entitled' \subseteq Workspaces \X Users
      BY <1>1, <1>2 DEF Next
    <2>2. CASE \E c \in Calls : StartCall(c) \/ Step(c) \/ Fails(c)
      BY <2>1, <2>2, StartKeepsTypes, ReadsKeepTypes, InsertProjectKeepsTypes, SaveProjectKeepsTypes,
         DeleteProjectKeepsTypes, SaveFileKeepsTypes, DeleteFileKeepsTypes, AddFileEventKeepsTypes DEF Step
    <2>3. CASE \E w \in Workspaces : MembersChange(w) \/ WorkspaceCloses(w)
      BY <2>1, <2>3, MembersChangeKeepsTypes, WorkspaceClosesKeepsTypes
    <2> QED BY <1>2, <2>2, <2>3 DEF Next
  <1>3. CASE UNCHANGED vars
    <2>1. UNCHANGED <<owner, role, creator, project, file, told, call, created, entitled, gone, blurred>>
      BY <1>3 DEF vars, membership, rows, history
    <2>2. TypeOK /\ MembersTyped /\ MembersTyped' /\ \A p \in Projects : Kept(p)'
      BY <2>1 DEF TypeInv, MembersTyped, Kept, Exists, HasFile, Stands
    <2>3. HomesStay /\ IdsStay /\ FilesAreApart' /\ \A d \in Calls : Alike(call'[d], call[d])
      BY <2>1, <2>2, TypesOf DEF HomesStay, IdsStay, FilesAreApart, Exists, HasFile, Alike
    <2> QED BY <2>1, <2>2, <2>3, TypesOf, TypesAfterWrite
  <1> QED BY <1>2, <1>3

LEMMA TypeInvariance == Spec => []TypeInv
  BY TypeInit, TypeStep, PTL DEF Spec

(* The tables of projects, files and events hold what their columns may hold *)
(* in every state: projects hang on workspaces that stand, files and events  *)
(* on projects that exist, and no two files share a row id.                  *)
THEOREM TypeCorrectness == Spec => []TypeOK
  <1>1. TypeInv => TypeOK
    BY DEF TypeInv
  <1> QED BY <1>1, TypeInvariance, PTL

-----------------------------------------------------------------------------
(* What a step does, by what it writes: the remaining invariants distinguish *)
(* no more of it.                                                            *)

Pending == {"checkAccess", "checkModify", "saveProject"}
Working == {"insertProject", "saveProject", "deleteEvent", "deleteProject", "findFile", "saveFile", "getFile", "deleteFile"}

Others(c) == \A d \in Calls : d # c => call'[d] = call[d]

(* A call alone: it starts, reads, checks or ends.                           *)
Moves(c) ==
  /\ UNCHANGED <<role, project, file, told, created, gone>>
  /\ Others(c)
  /\ call'[c].pc # "fileEvent"
  /\ call'[c].pc \in Working =>
       /\ call'[c].ws = call[c].ws /\ call'[c].by = call[c].by
       /\ call[c].pc \in Working \/ role[call[c].ws][call[c].by] \in MayModify
  /\ call'[c].op \in Saves /\ call'[c].pc \in Pending =>
       /\ call'[c].p = call[c].p
       /\ \/ /\ call[c].op \in Saves /\ call[c].pc \in Pending
             /\ call'[c].keys = call[c].keys /\ call'[c].overtaken = call[c].overtaken
          \/ Exists(P(c)) /\ call'[c].keys = project[P(c)].keys
  /\ blurred' = IF call[c].pc = "fileEvent" THEN blurred \union {<<P(c), Path(c)>>} ELSE blurred

(* A row of projects, inserted or saved.                                     *)
Inserts(c, p) ==
  /\ UNCHANGED <<role, file, told, gone, blurred>>
  /\ Others(c) /\ call[c].pc = "insertProject" /\ call'[c] = TellOf(p)
  /\ p \notin created /\ created' = created \union {p} /\ Exists(p)'
  /\ \A q \in Projects : q # p => project'[q] = project[q]

Rewrites(c, p) ==
  /\ UNCHANGED <<role, file, told, created, gone, blurred>>
  /\ P(c) = p /\ call[c].op \in Saves /\ call[c].pc = "saveProject" /\ call'[c] = TellOf(p)
  /\ \A d \in Calls : d # c =>
       call'[d] = IF d \in Updating(p) THEN [call[d] EXCEPT !.overtaken = TRUE] ELSE call[d]
  /\ project'[p] = [ws |-> call[c].ws, keys |-> NewKeys(c)] /\ Exists(p)'
  /\ \A q \in Projects : q # p => project'[q] = project[q]

(* Projects deleted.                                                         *)
Deletes(ps) ==
  /\ \A p \in ps : Exists(p)
  /\ Cascade(ps)
  /\ \A d \in Calls : call'[d] = call[d] \/ (call'[d] = Idle /\ call[d].pc = "deleteProject")

(* A row of a file, saved or deleted, and the event that follows.            *)
Files(c, p, x, row) ==
  /\ UNCHANGED <<role, project, told, created, gone>>
  /\ Others(c) /\ P(c) = p /\ Path(c) = x /\ Exists(p)
  /\ call[c].pc # "fileEvent"
  /\ call'[c].pc = "fileEvent" /\ call'[c].p = p /\ call'[c].path = x /\ call'[c].op = call[c].op
  /\ file'[p][x] = row
  /\ \A q \in Projects, y \in Paths : q # p \/ y # x => file'[q][y] = file[q][y]
  /\ \/ call[c].op = "removeFile" /\ row = NoFile
     \/ call[c].pc = "saveFile" /\ call[c].op = "addFile" /\ row # NoFile /\ row.by = call[c].by
  /\ blurred' = IF \E d \in Telling(p) : Path(d) = x /\ ~Is(d, {call[c].op})
                THEN blurred \union {<<p, x>>} ELSE blurred

Tells(c, p, x) ==
  /\ UNCHANGED <<role, project, file, created, gone, blurred>>
  /\ Others(c) /\ P(c) = p /\ Path(c) = x /\ call[c].pc = "fileEvent" /\ call'[c] = Idle
  /\ Exists(p) => told'[p][x] = IF Is(c, {"addFile"}) THEN "create" ELSE "delete"
  /\ \A q \in Projects, y \in Paths : q # p \/ y # x => told'[q][y] = told[q][y]

LEMMA RejectionsMove ==
  ASSUME TypeInv, NEW c \in Calls, End(c), UNCHANGED <<membership, rows, history>>, call[c].pc # "fileEvent"
  PROVE  Moves(c)
  <1>1. call' \in [Calls -> Slots] /\ call'[c] = Idle /\ Others(c)
    BY SlotEffect, IdleIsTyped DEF End, TypeInv, Others
  <1> QED BY <1>1, IdleIsTyped DEF Moves, membership, rows, history, Working, Saves, None

LEMMA StartsMove ==
  ASSUME TypeInv, NEW c \in Calls, StartCall(c)
  PROVE  Moves(c)
  <1>1. ASSUME NEW q, Start(c, q), q.pc \in {"findProject", "checkModify"}, q.op \notin Saves \/ q.pc = "findProject"
        PROVE  Moves(c)
    <2>1. call \in [Calls -> Slots] /\ call' = [call EXCEPT ![c] = q]
      BY <1>1, TypesOf DEF TypeInv, Start
    <2>2. call'[c] = q /\ Others(c) /\ UNCHANGED <<role, rows, history>>
      BY <1>1, <2>1 DEF Start, Others, membership
    <2>3. call[c].pc # "fileEvent"
      BY <1>1, IdleIsTyped DEF Start, None
    <2> QED BY <1>1, <2>2, <2>3 DEF Moves, Working, Pending, rows, history
  <1>2. ASSUME NEW by, NEW w, NEW ks, createProject(c, by, w, ks) PROVE Moves(c)
    <2> DEFINE q == [Idle EXCEPT !.op = "createProject", !.pc = "checkModify", !.by = by, !.ws = w, !.dto = ks]
    <2>1. q.op = "createProject" /\ q.pc = "checkModify"
      BY IdleIsTyped DEF Slots
    <2>2. Start(c, q)
      BY <1>2 DEF createProject
    <2> HIDE DEF q
    <2> QED BY <1>1, <2>1, <2>2 DEF Saves
  <1>3. ASSUME NEW op, NEW by, NEW p, NEW x, NEW ks, OnProject(c, op, by, p, x, ks) PROVE Moves(c)
    <2> DEFINE q == [Idle EXCEPT !.op = op, !.pc = "findProject", !.by = by, !.p = p, !.path = x, !.dto = ks]
    <2>1. q.pc = "findProject"
      BY IdleIsTyped DEF Slots
    <2>2. Start(c, q)
      BY <1>3 DEF OnProject
    <2> HIDE DEF q
    <2> QED BY <1>1, <2>1, <2>2
  <1>4. ASSUME NEW by, NEW p, NEW x, NEW ks,
               \/ updateProject(c, by, p, ks) \/ updateMetadata(c, by, p, ks) \/ deleteProject(c, by, p)
               \/ addFile(c, by, p, x) \/ removeFile(c, by, p, x)
        PROVE  Moves(c)
    BY <1>3, <1>4 DEF updateProject, updateMetadata, deleteProject, addFile, removeFile
  <1> QED BY <1>2, <1>4 DEF StartCall

LEMMA ReadsMove ==
  ASSUME TypeInv, NEW c \in Calls,
         \/ FindProject(c) \/ checkWorkspaceAccess(c) \/ checkProjectModifyPermission(c)
         \/ AddProjectEvent(c) \/ AddDeleteEvent(c) \/ FindFile(c) \/ GetFile(c) \/ Fails(c)
  PROVE  Moves(c)
  <1>0. call \in [Calls -> Slots] /\ call[c] \in Slots /\ Sound(call[c])
    BY TypesOf DEF TypeInv
  <1>1. UNCHANGED <<role, project, file, told, created, gone>>
    BY DEF FindProject, checkWorkspaceAccess, checkProjectModifyPermission, AddProjectEvent,
       AddDeleteEvent, FindFile, GetFile, Fails, membership, rows, history
  <1>2. ASSUME NEW pc, call[c].pc \in {"checkAccess", "checkModify", "deleteEvent", "getFile"},
               call' = [call EXCEPT ![c].pc = pc], blurred' = blurred, pc # "fileEvent",
               pc \in Working => call[c].pc \in Working \/ role[call[c].ws][call[c].by] \in MayModify,
               pc \in Pending /\ call[c].op \in Saves => call[c].pc \in Pending
        PROVE  Moves(c)
    <2>1. /\ call'[c].pc = pc /\ call'[c].op = call[c].op /\ call'[c].ws = call[c].ws /\ call'[c].by = call[c].by
          /\ call'[c].p = call[c].p /\ call'[c].keys = call[c].keys /\ call'[c].overtaken = call[c].overtaken
          /\ Others(c)
      BY <1>0, <1>2 DEF Others, Slots
    <2>2. call[c].pc # "fileEvent"
      BY <1>2
    <2> QED BY <1>1, <1>2, <2>1, <2>2 DEF Moves
  <1>3. CASE FindProject(c)
    <2>1. CASE ~Exists(P(c))
      BY <1>3, <2>1, RejectionsMove DEF FindProject, At
    <2>2. CASE Exists(P(c))
      <3>1. /\ call'[c].op = call[c].op /\ call'[c].p = call[c].p
            /\ call'[c].pc \in {"checkModify", "checkAccess"}
            /\ call[c].op \in Saves => call'[c].keys = project[P(c)].keys
            /\ Others(c)
        BY <1>0, <1>3, <2>2 DEF FindProject, Others, Slots, Is
      <3>2. blurred' = blurred /\ call[c].pc # "fileEvent"
        BY <1>3 DEF FindProject, history, At
      <3> QED BY <1>1, <2>2, <3>1, <3>2 DEF Moves, Working
    <2> QED BY <2>1, <2>2
  <1>4. CASE checkWorkspaceAccess(c)
    <2>1. CASE role[call[c].ws][call[c].by] # Nobody
      BY <1>2, <1>4, <2>1 DEF checkWorkspaceAccess, At, Goto, history, Working, Pending
    <2>2. CASE ~(role[call[c].ws][call[c].by] # Nobody)
      BY <1>4, <2>2, RejectionsMove DEF checkWorkspaceAccess, At
    <2> QED BY <2>1, <2>2
  <1>5. CASE checkProjectModifyPermission(c)
    <2>1. CASE role[call[c].ws][call[c].by] \in MayModify
      <3>1. AfterCheck[call[c].op] # "fileEvent"
        BY <1>0, <1>5 DEF checkProjectModifyPermission, At, Sound, Placed, AfterCheck, Saves, FileOps
      <3> QED BY <1>2, <1>5, <2>1, <3>1 DEF checkProjectModifyPermission, At, Goto, history, Pending
    <2>2. CASE role[call[c].ws][call[c].by] \notin MayModify
      BY <1>5, <2>2, RejectionsMove DEF checkProjectModifyPermission, At
    <2> QED BY <2>1, <2>2
  <1>6. CASE AddDeleteEvent(c)
    <2>1. CASE Exists(P(c))
      BY <1>2, <1>6, <2>1 DEF AddDeleteEvent, At, Goto, history, Working, Pending
    <2>2. CASE ~Exists(P(c))
      BY <1>6, <2>2, RejectionsMove DEF AddDeleteEvent, At
    <2> QED BY <2>1, <2>2
  <1>7. CASE GetFile(c)
    <2>1. CASE HasFile(P(c), Path(c))
      BY <1>2, <1>7, <2>1 DEF GetFile, At, Goto, history, Working, Pending
    <2>2. CASE ~HasFile(P(c), Path(c))
      BY <1>7, <2>2, RejectionsMove DEF GetFile, At
    <2> QED BY <2>1, <2>2
  <1>8. CASE FindFile(c)
    <2>1. /\ call'[c].pc = "saveFile" /\ call'[c].op = call[c].op /\ call'[c].ws = call[c].ws /\ call'[c].by = call[c].by
          /\ Others(c)
      BY <1>0, <1>8 DEF FindFile, Others, Slots
    <2>2. blurred' = blurred /\ call[c].pc = "findFile" /\ call[c].op = "addFile"
      BY <1>0, <1>8 DEF FindFile, At, history, Sound, Placed
    <2> QED BY <1>1, <2>1, <2>2 DEF Moves, Working, Saves
  <1>9. CASE AddProjectEvent(c)
    BY <1>9, RejectionsMove DEF AddProjectEvent, At
  <1>10. CASE Fails(c)
    <2>1. call'[c] = Idle /\ Others(c)
      BY <1>0, <1>10 DEF Fails, End, Others
    <2>2. blurred' = IF call[c].pc = "fileEvent" THEN blurred \union {<<P(c), Path(c)>>} ELSE blurred
      BY <1>10 DEF Fails, At
    <2> QED BY <1>1, <2>1, <2>2, IdleIsTyped DEF Moves, Working, Saves, None
  <1> QED BY <1>3, <1>4, <1>5, <1>6, <1>7, <1>8, <1>9, <1>10

LEMMA InsertProjectInserts ==
  ASSUME TypeInv, NEW c \in Calls, NEW p \in Projects, InsertProject(c, p)
  PROVE  Moves(c) \/ Inserts(c, p)
  <1>1. CASE Stands(call[c].ws)
    <2>1. /\ UNCHANGED <<role, file, told, gone, blurred>> /\ call[c].pc = "insertProject"
          /\ p \notin created /\ created' = created \union {p}
      BY <1>1 DEF InsertProject, membership, At
    <2>2. call'[c] = TellOf(p) /\ Others(c)
      BY <1>1, SlotEffect, TellIsTyped DEF InsertProject, TypeInv, Others
    <2>3. Exists(p)' /\ \A q \in Projects : q # p => project'[q] = project[q]
      <3> DEFINE row == [ws |-> call[c].ws, keys |-> call[c].dto]
      <3>1. row.ws # None
        BY TypesOf DEF TypeInv, InsertProject, At, Sound, Informed, Located, Asking, None
      <3>2. project' = [project EXCEPT ![p] = row] /\ project \in [Projects -> ProjectRows]
        BY <1>1, TypesOf DEF InsertProject, TypeInv
      <3> HIDE DEF row
      <3> QED BY <3>1, <3>2, NoRowsAreTyped DEF Exists
    <2> QED BY <2>1, <2>2, <2>3 DEF Inserts
  <1>2. CASE ~Stands(call[c].ws)
    BY <1>2, RejectionsMove DEF InsertProject, At, rows, history
  <1> QED BY <1>1, <1>2

LEMMA SaveProjectRewrites ==
  ASSUME TypeInv, NEW c \in Calls, SaveProject(c)
  PROVE  Moves(c) \/ \E p \in Projects : Rewrites(c, p)
  <1>0. /\ call[c].pc = "saveProject" /\ call[c].op \in Saves /\ call[c].ws \in Workspaces
        /\ P(c) \in Projects
    BY TypesOf DEF TypeInv, SaveProject, Put, At, Sound, Placed, Informed, Located, Asking, P, Saves, None
  <1>1. PICK p \in Projects : p = P(c)
    BY <1>0
  <1>2. CASE Exists(p) \/ Stands(call[c].ws)
    <2>1. UNCHANGED <<role, file, told, created, gone, blurred>>
      BY DEF SaveProject, Put, membership, history
    <2>2. /\ call'[c] = TellOf(p)
          /\ \A d \in Calls : d # c =>
               call'[d] = IF d \in Updating(p) THEN [call[d] EXCEPT !.overtaken = TRUE] ELSE call[d]
      BY <1>1, <1>2 DEF SaveProject, Put
    <2>3. /\ project'[p] = [ws |-> call[c].ws, keys |-> NewKeys(c)] /\ Exists(p)'
          /\ \A q \in Projects : q # p => project'[q] = project[q]
      <3> DEFINE row == [ws |-> call[c].ws, keys |-> NewKeys(c)]
      <3>1. row.ws # None
        BY <1>0
      <3>2. project' = [project EXCEPT ![p] = row] /\ project \in [Projects -> ProjectRows]
        BY <1>1, <1>2, TypesOf DEF SaveProject, Put, TypeInv
      <3>3. row = [ws |-> call[c].ws, keys |-> NewKeys(c)]
        OBVIOUS
      <3> HIDE DEF row
      <3>4. project'[p] = row /\ Exists(p)' /\ \A q \in Projects : q # p => project'[q] = project[q]
        BY <3>1, <3>2, NoRowsAreTyped DEF Exists
      <3> QED BY <3>3, <3>4
    <2> QED BY <1>0, <1>1, <2>1, <2>2, <2>3 DEF Rewrites
  <1>3. CASE ~(Exists(p) \/ Stands(call[c].ws))
    BY <1>1, <1>3, RejectionsMove DEF SaveProject, Put, At, rows, history
  <1> QED BY <1>2, <1>3

LEMMA WrittenFile ==
  ASSUME TypeInv, NEW c \in Calls, NEW p \in Projects, p = P(c), NEW x \in Paths, x = Path(c), Exists(p),
         call[c].op \in FileOps, call[c].pc # "fileEvent",
         NEW row \in FileRows, file' = SetFile(p, x, row), Written(c),
         \/ call[c].op = "removeFile" /\ row = NoFile
         \/ call[c].pc = "saveFile" /\ call[c].op = "addFile" /\ row # NoFile /\ row.by = call[c].by
  PROVE  Files(c, p, x, row)
  <1>1. /\ file'[p][x] = row
        /\ \A q \in Projects, y \in Paths : q # p \/ y # x => file'[q][y] = file[q][y]
    BY FileEffect DEF TypeInv
  <1>2. /\ call'[c].pc = "fileEvent" /\ call'[c].p = p /\ call'[c].path = x /\ call'[c].op = call[c].op
        /\ Others(c)
    <2> DEFINE q == [Idle EXCEPT !.op = call[c].op, !.pc = "fileEvent", !.p = P(c), !.path = Path(c)]
    <2>1. /\ q \in Slots /\ q.op = call[c].op /\ q.pc = "fileEvent" /\ q.p = p /\ q.path = x
      BY IdleIsTyped DEF Slots, Ops, PCs, FileOps
    <2>2. call' = [call EXCEPT ![c] = q]
      BY DEF Written
    <2> HIDE DEF q
    <2> QED BY <2>1, <2>2, SlotEffect DEF TypeInv, Others
  <1>3. UNCHANGED <<role, project, told, created, gone>>
    BY DEF Written, membership
  <1>4. blurred' = IF \E d \in Telling(p) : Path(d) = x /\ ~Is(d, {call[c].op})
                   THEN blurred \union {<<p, x>>} ELSE blurred
    BY DEF Written
  <1> QED BY <1>1, <1>2, <1>3, <1>4 DEF Files

LEMMA FileStepsWrite ==
  ASSUME TypeInv, NEW c \in Calls, SaveFile(c) \/ DeleteFile(c)
  PROVE  Moves(c) \/ \E p \in Projects, x \in Paths, row \in FileRows : Files(c, p, x, row)
  <1>0. /\ call[c].pc \in {"saveFile", "deleteFile"} /\ call[c].op \in FileOps
        /\ P(c) \in Projects /\ Path(c) \in Paths /\ call[c].by \in Users
    BY FileCalls DEF SaveFile, DeleteFile, At
  <1>1. PICK p \in Projects, x \in Paths : p = P(c) /\ x = Path(c)
    BY <1>0
  <1>2. CASE SaveFile(c)
    <2>0. call[c].pc = "saveFile" /\ call[c].op = "addFile"
      BY <1>2 DEF SaveFile, At, TypeInv, Sound, Placed
    <2>1. PICK id \in FileIds :
          \/ Exists(p) /\ file' = SetFile(p, x, [id |-> id, by |-> call[c].by]) /\ Written(c)
          \/ End(c) /\ UNCHANGED <<membership, rows, history>>
      BY <1>1, <1>2 DEF SaveFile, SetFile
    <2>2. CASE Exists(p) /\ file' = SetFile(p, x, [id |-> id, by |-> call[c].by]) /\ Written(c)
      <3> DEFINE row == [id |-> id, by |-> call[c].by]
      <3>1. row \in FileRows /\ row # NoFile /\ row.by = call[c].by
        BY <1>0, NoRowsAreTyped DEF FileRows
      <3>2. file' = SetFile(p, x, row)
        BY <2>2
      <3> HIDE DEF row
      <3> QED BY <1>0, <1>1, <2>0, <2>2, <3>1, <3>2, WrittenFile
    <2> QED BY <1>0, <2>1, <2>2, RejectionsMove
  <1>3. CASE DeleteFile(c)
    <2>0. call[c].pc = "deleteFile" /\ call[c].op = "removeFile"
      BY <1>3 DEF DeleteFile, At, TypeInv, Sound, Placed
    <2>1. CASE HasFile(p, x)
      <3>1. Exists(p)
        BY <2>1 DEF TypeInv, Kept
      <3>2. file' = SetFile(p, x, NoFile) /\ Written(c)
        BY <1>1, <1>3, <2>1 DEF DeleteFile, SetFile
      <3> QED BY <1>0, <1>1, <2>0, <3>1, <3>2, NoRowsAreTyped, WrittenFile
    <2>2. CASE ~HasFile(p, x)
      BY <1>0, <1>1, <1>3, <2>2, RejectionsMove DEF DeleteFile
    <2> QED BY <2>1, <2>2
  <1> QED BY <1>2, <1>3

LEMMA AddFileEventTells ==
  ASSUME TypeInv, NEW c \in Calls, AddFileEvent(c)
  PROVE  \E p \in Projects, x \in Paths : Tells(c, p, x)
  <1>0. P(c) \in Projects /\ Path(c) \in Paths /\ call[c].pc = "fileEvent"
    BY FileCalls DEF AddFileEvent, At
  <1>1. PICK p \in Projects, x \in Paths : p = P(c) /\ x = Path(c)
    BY <1>0
  <1>2. UNCHANGED <<role, project, file, created, gone, blurred>>
    BY DEF AddFileEvent, membership, history
  <1>3. call'[c] = Idle /\ Others(c)
    BY SlotEffect, IdleIsTyped DEF AddFileEvent, End, TypeInv, Others
  <1>4. /\ Exists(p) => told'[p][x] = IF Is(c, {"addFile"}) THEN "create" ELSE "delete"
        /\ \A q \in Projects, y \in Paths : q # p \/ y # x => told'[q][y] = told[q][y]
    <2> DEFINE a == IF Is(c, {"addFile"}) THEN "create" ELSE "delete"
    <2>1. CASE Exists(p)
      <3>1. told' = [told EXCEPT ![p][x] = a]
        BY <1>1, <2>1 DEF AddFileEvent
      <3> HIDE DEF a
      <3>2. told'[p][x] = a /\ \A q \in Projects, y \in Paths : q # p \/ y # x => told'[q][y] = told[q][y]
        BY <3>1, TypesOf DEF TypeInv
      <3> QED BY <3>2 DEF a
    <2>2. CASE ~Exists(p)
      BY <1>1, <2>2 DEF AddFileEvent
    <2> QED BY <2>1, <2>2
  <1> QED BY <1>0, <1>1, <1>2, <1>3, <1>4 DEF Tells

LEMMA DeletionsDelete ==
  ASSUME TypeInv,
         \/ \E c \in Calls : DeleteProject(c)
         \/ \E w \in Workspaces : WorkspaceCloses(w)
  PROVE  \E ps \in SUBSET Projects : Deletes(ps)
  <1>1. ASSUME NEW c \in Calls, DeleteProject(c) PROVE \E ps \in SUBSET Projects : Deletes(ps)
    <2> DEFINE ps == {P(c)} \intersect {p \in Projects : Exists(p)}
    <2>1. ps \in SUBSET Projects /\ Cascade(ps) /\ \A p \in ps : Exists(p)
      BY <1>1 DEF DeleteProject
    <2>2. \A d \in Calls : call'[d] = call[d] \/ (call'[d] = Idle /\ call[d].pc = "deleteProject")
      BY <1>1, SlotEffect, IdleIsTyped DEF DeleteProject, End, TypeInv, At
    <2> HIDE DEF ps
    <2> QED BY <2>1, <2>2 DEF Deletes
  <1>2. ASSUME NEW w \in Workspaces, WorkspaceCloses(w) PROVE \E ps \in SUBSET Projects : Deletes(ps)
    <2> DEFINE ps == {p \in Projects : project[p].ws = w}
    <2>1. ps \in SUBSET Projects /\ Cascade(ps) /\ \A p \in ps : Exists(p)
      BY <1>2, NoRowsAreTyped DEF WorkspaceCloses, Exists
    <2>2. call' = call
      BY <1>2 DEF WorkspaceCloses
    <2> HIDE DEF ps
    <2> QED BY <2>1, <2>2 DEF Deletes
  <1> QED BY <1>1, <1>2

LEMMA StepKinds ==
  ASSUME TypeInv, [Next]_vars
  PROVE  \/ \E c \in Calls : Moves(c)
         \/ \E c \in Calls, p \in Projects : Inserts(c, p) \/ Rewrites(c, p)
         \/ \E ps \in SUBSET Projects : Deletes(ps)
         \/ \E c \in Calls, p \in Projects, x \in Paths, row \in FileRows : Files(c, p, x, row)
         \/ \E c \in Calls, p \in Projects, x \in Paths : Tells(c, p, x)
         \/ UNCHANGED <<rows, call, history>>
  <1>1. ASSUME NEW c \in Calls, StartCall(c) \/ Fails(c) PROVE Moves(c)
    BY <1>1, StartsMove, ReadsMove
  <1>2. ASSUME NEW c \in Calls, Step(c)
        PROVE  \/ Moves(c) \/ \E p \in Projects : Inserts(c, p) \/ Rewrites(c, p)
               \/ \E ps \in SUBSET Projects : Deletes(ps)
               \/ \E p \in Projects, x \in Paths, row \in FileRows : Files(c, p, x, row)
               \/ \E p \in Projects, x \in Paths : Tells(c, p, x)
    BY <1>2, ReadsMove, InsertProjectInserts, SaveProjectRewrites, DeletionsDelete, FileStepsWrite,
       AddFileEventTells DEF Step
  <1>3. ASSUME NEW w \in Workspaces, MembersChange(w) \/ WorkspaceCloses(w)
        PROVE  (\E ps \in SUBSET Projects : Deletes(ps)) \/ UNCHANGED <<rows, call, history>>
    BY <1>3, DeletionsDelete DEF MembersChange
  <1>4. CASE UNCHANGED vars
    BY <1>4 DEF vars
  <1> QED BY <1>1, <1>2, <1>3, <1>4 DEF Next

-----------------------------------------------------------------------------
(* Deleted projects.  Only an update that read the row before can insert it  *)
(* again, and a project that was deleted has no such update and finds none.  *)

GoneInv == \A p \in gone : p \in created /\ ~Exists(p) /\ Updating(p) = {}

(* The slots that a call on no row of its own leaves alone are still those   *)
(* of updates, and what it finds itself in is no update.                     *)
LEMMA UpdatersOf ==
  ASSUME NEW p \in Projects, NEW d \in Calls
  PROVE  /\ d \in Updating(p) <=> call[d].p = p /\ call[d].op \in Saves /\ call[d].pc \in Pending
         /\ (d \in Updating(p))' <=> call'[d].p = p /\ call'[d].op \in Saves /\ call'[d].pc \in Pending
  BY DEF Updating, P, Is, Pending

(* A call becomes an update of a project by reading its row.                 *)
LEMMA UpdatesReadFirst ==
  ASSUME TypeInv, [Next]_vars, NEW p \in Projects, NEW d \in Calls, (d \in Updating(p))'
  PROVE  d \in Updating(p) \/ (Exists(p) /\ Exists(p)' /\ UNCHANGED gone)
  <1>0. call'[d].p = p /\ call'[d].op \in Saves /\ call'[d].pc \in Pending
    BY UpdatersOf
  <1>1. ASSUME call'[d] = call[d] PROVE d \in Updating(p)
    BY <1>0, <1>1, UpdatersOf
  <1>2. call'[d] # Idle /\ \A q \in Projects : call'[d] # TellOf(q)
    BY <1>0, IdleIsTyped, TellIsTyped DEF Pending, None
  <1>3. ASSUME NEW c \in Calls, Moves(c) PROVE d \in Updating(p) \/ (Exists(p) /\ Exists(p)' /\ UNCHANGED gone)
    BY <1>0, <1>1, <1>3, UpdatersOf DEF Moves, Others, P, Exists
  <1>4. ASSUME NEW c \in Calls, NEW q \in Projects, Inserts(c, q) PROVE d \in Updating(p)
    BY <1>1, <1>2, <1>4 DEF Inserts, Others
  <1>5. ASSUME NEW c \in Calls, NEW q \in Projects, Rewrites(c, q) PROVE d \in Updating(p)
    <2>1. d # c /\ call'[d] \in {call[d], [call[d] EXCEPT !.overtaken = TRUE]}
      BY <1>2, <1>5 DEF Rewrites
    <2>2. call[d] \in Slots
      BY TypesOf DEF TypeInv
    <2>3. call'[d].p = call[d].p /\ call'[d].op = call[d].op /\ call'[d].pc = call[d].pc
      BY <2>1, <2>2 DEF Slots
    <2> QED BY <1>0, <2>3, UpdatersOf
  <1>6. ASSUME NEW ps \in SUBSET Projects, Deletes(ps) PROVE d \in Updating(p)
    BY <1>1, <1>2, <1>6 DEF Deletes
  <1>7. ASSUME NEW c \in Calls, NEW q \in Projects, NEW x \in Paths, NEW row \in FileRows, Files(c, q, x, row)
        PROVE  d \in Updating(p)
    BY <1>0, <1>1, <1>7 DEF Files, Others, Pending
  <1>8. ASSUME NEW c \in Calls, NEW q \in Projects, NEW x \in Paths, Tells(c, q, x) PROVE d \in Updating(p)
    BY <1>1, <1>2, <1>8 DEF Tells, Others
  <1>9. CASE UNCHANGED <<rows, call, history>>
    BY <1>1, <1>9
  <1> QED BY <1>3, <1>4, <1>5, <1>6, <1>7, <1>8, <1>9, StepKinds

(* A project comes to exist by its creation or by an update of it.           *)
LEMMA ProjectsReturnByUpdates ==
  ASSUME TypeInv, [Next]_vars, NEW p \in Projects, Exists(p)'
  PROVE  Exists(p) \/ p \notin created \/ Updating(p) # {}
  <1>1. ASSUME project'[p] = project[p] PROVE Exists(p)
    BY <1>1 DEF Exists
  <1>2. ASSUME NEW c \in Calls, NEW q \in Projects, Rewrites(c, q) PROVE Exists(p) \/ Updating(p) # {}
    <2>1. c \in Updating(q)
      BY <1>2, UpdatersOf DEF Rewrites, P, Pending
    <2> QED BY <1>1, <1>2, <2>1 DEF Rewrites
  <1>3. ASSUME NEW ps \in SUBSET Projects, Deletes(ps) PROVE Exists(p)
    BY <1>3, CascadeEffect DEF Deletes, Exists
  <1>4. ASSUME NEW c \in Calls, NEW q \in Projects, Inserts(c, q) PROVE Exists(p) \/ p \notin created
    BY <1>1, <1>4 DEF Inserts
  <1>5. ASSUME UNCHANGED project PROVE Exists(p)
    BY <1>5 DEF Exists
  <1> QED BY <1>2, <1>3, <1>4, <1>5, StepKinds DEF Moves, Files, Tells, rows

(* A project is gone when it was deleted with no update under way.           *)
LEMMA ProjectsGo ==
  ASSUME TypeInv, [Next]_vars
  PROVE  /\ created \subseteq created'
         /\ \A p \in gone' : p \in gone \/ (p \in created /\ ~Exists(p)' /\ Updating(p) = {} /\ gone' # gone)
  <1>1. ASSUME NEW ps \in SUBSET Projects, Deletes(ps)
        PROVE  /\ created \subseteq created'
               /\ \A p \in gone' : p \in gone \/ (p \in created /\ ~Exists(p)' /\ Updating(p) = {})
    <2>1. Cascade(ps) /\ \A p \in ps : Exists(p) /\ p \in created
      BY <1>1 DEF Deletes, TypeInv, Kept
    <2>2. \A p \in ps : ~Exists(p)'
      BY <2>1, CascadeEffect DEF Exists
    <2> QED BY <2>1, <2>2 DEF Cascade
  <1>2. (created \subseteq created' /\ gone' = gone) \/ \E ps \in SUBSET Projects : Deletes(ps)
    <2>1. ASSUME NEW c \in Calls, Moves(c) PROVE created' = created /\ gone' = gone
      BY <2>1 DEF Moves
    <2>2. ASSUME NEW c \in Calls, NEW p \in Projects, Inserts(c, p) \/ Rewrites(c, p)
          PROVE  created \subseteq created' /\ gone' = gone
      BY <2>2 DEF Inserts, Rewrites
    <2>3. ASSUME NEW c \in Calls, NEW p \in Projects, NEW x \in Paths, NEW row \in FileRows, Files(c, p, x, row)
          PROVE  created' = created /\ gone' = gone
      BY <2>3 DEF Files
    <2>4. ASSUME NEW c \in Calls, NEW p \in Projects, NEW x \in Paths, Tells(c, p, x)
          PROVE  created' = created /\ gone' = gone
      BY <2>4 DEF Tells
    <2>5. ASSUME UNCHANGED <<rows, call, history>> PROVE created' = created /\ gone' = gone
      BY <2>5 DEF history
    <2> QED BY <2>1, <2>2, <2>3, <2>4, <2>5, StepKinds
  <1>3. \A p : p \in gone' /\ p \notin gone => gone' # gone
    OBVIOUS
  <1> QED BY <1>1, <1>2, <1>3

LEMMA GoneStep == TypeInv /\ GoneInv /\ [Next]_vars => GoneInv'
  <1> SUFFICES ASSUME TypeInv, GoneInv, [Next]_vars, NEW p \in gone'
               PROVE  p \in created' /\ ~Exists(p)' /\ (Updating(p) = {})'
    BY DEF GoneInv
  <1>0. p \in Projects /\ created \subseteq created'
    BY TypeStep, TypesOf, ProjectsGo DEF TypeInv, TypeOK
  <1>1. CASE p \in gone
    <2>1. p \in created /\ ~Exists(p) /\ Updating(p) = {}
      BY <1>1 DEF GoneInv
    <2>2. ~Exists(p)'
      BY <1>0, <2>1, ProjectsReturnByUpdates
    <2>3. \A d \in Calls : ~(d \in Updating(p))'
      BY <1>0, <2>1, UpdatesReadFirst
    <2>4. (Updating(p) = {})'
      BY <2>3 DEF Updating
    <2> QED BY <1>0, <2>1, <2>2, <2>4
  <1>2. CASE p \notin gone
    <2>1. p \in created /\ ~Exists(p)' /\ Updating(p) = {} /\ gone' # gone
      BY <1>2, ProjectsGo
    <2>2. \A d \in Calls : ~(d \in Updating(p))'
      BY <1>0, <2>1, UpdatesReadFirst
    <2>3. (Updating(p) = {})'
      BY <2>2 DEF Updating
    <2> QED BY <1>0, <2>1, <2>3
  <1> QED BY <1>1, <1>2

(* A project that was deleted, by itself or with its workspace, never comes  *)
(* back, whatever calls on it were under way, unless one of them was an      *)
(* update that had read its row.                                             *)
THEOREM DeletionIsFinal == Spec => []DeletedProjectsStayDeleted
  <1>1. Init => GoneInv
    BY DEF Init, GoneInv
  <1>2. GoneInv => DeletedProjectsStayDeleted
    BY DEF GoneInv, DeletedProjectsStayDeleted
  <1> QED BY <1>1, <1>2, GoneStep, TypeInvariance, PTL DEF Spec

-----------------------------------------------------------------------------
(* Who writes files.  Past the check, a call keeps the workspace and caller  *)
(* it was made for, and the workspace is still that of the project.          *)

Allowed(q) == q.pc \in Working => <<q.ws, q.by>> \in entitled
EntitledInv == (\A c \in Calls : Allowed(call[c])) /\ WritersWereEntitled

LEMMA EntitledGrows ==
  ASSUME [Next]_vars, TypeInv
  PROVE  /\ entitled \subseteq entitled'
         /\ Next => \A w \in Workspaces, u \in Users : role'[w][u] \in MayModify => <<w, u>> \in entitled'
  BY DEF Next, vars

LEMMA AllowedStep ==
  ASSUME TypeInv, EntitledInv, [Next]_vars, NEW d \in Calls
  PROVE  Allowed(call[d])'
  <1>0. call[d] \in Slots /\ Allowed(call[d]) /\ entitled \subseteq entitled'
    BY TypesOf, EntitledGrows DEF TypeInv, EntitledInv
  <1>1. ASSUME call'[d].pc \in Working => call[d].pc \in Working /\ call'[d].ws = call[d].ws /\ call'[d].by = call[d].by
        PROVE  Allowed(call[d])'
    BY <1>0, <1>1 DEF Allowed
  <1>2. ASSUME NEW c \in Calls, Moves(c) PROVE Allowed(call[d])'
    <2>1. CASE d # c \/ call'[c].pc \notin Working \/ call[c].pc \in Working
      BY <1>1, <1>2, <2>1 DEF Moves, Others
    <2>2. CASE d = c /\ call'[c].pc \in Working /\ call[c].pc \notin Working
      <3>1. /\ role[call[d].ws][call[d].by] \in MayModify /\ role' = role
            /\ call'[d].ws = call[d].ws /\ call'[d].by = call[d].by
        BY <1>2, <2>2 DEF Moves
      <3>2. call'[d].ws \in Workspaces /\ call'[d].by \in Users
        <4>1. Sound(call[d])' /\ Located(call'[d])
          BY <2>2, TypeStep DEF TypeInv, Working, Located, Asking, None
        <4> QED BY <4>1 DEF Sound, Informed, Located, Asking
      <3>3. Next
        BY <2>2 DEF vars
      <3> QED BY <3>1, <3>2, <3>3, EntitledGrows DEF Allowed
    <2> QED BY <2>1, <2>2
  <1>3. ASSUME NEW c \in Calls, NEW q \in Projects, Inserts(c, q) \/ Rewrites(c, q) PROVE Allowed(call[d])'
    <2>1. \/ call'[d] = call[d] \/ call'[d] = [call[d] EXCEPT !.overtaken = TRUE]
          \/ call'[d] = TellOf(q)
      BY <1>3 DEF Inserts, Rewrites, Others
    <2> QED BY <1>0, <1>1, <2>1, TellIsTyped DEF Slots, Working
  <1>4. ASSUME NEW ps \in SUBSET Projects, Deletes(ps) PROVE Allowed(call[d])'
    BY <1>1, <1>4, IdleIsTyped DEF Deletes, Working, None
  <1>5. ASSUME NEW c \in Calls, NEW q \in Projects, NEW x \in Paths, NEW row \in FileRows, Files(c, q, x, row)
        PROVE  Allowed(call[d])'
    BY <1>1, <1>5 DEF Files, Others, Working
  <1>6. ASSUME NEW c \in Calls, NEW q \in Projects, NEW x \in Paths, Tells(c, q, x) PROVE Allowed(call[d])'
    BY <1>1, <1>6, IdleIsTyped DEF Tells, Others, Working, None
  <1>7. CASE UNCHANGED <<rows, call, history>>
    BY <1>1, <1>7
  <1> QED BY <1>2, <1>3, <1>4, <1>5, <1>6, <1>7, StepKinds

LEMMA WritersStep ==
  ASSUME TypeInv, EntitledInv, [Next]_vars
  PROVE  WritersWereEntitled'
  <1> SUFFICES ASSUME NEW p \in Projects, NEW x \in Paths, HasFile(p, x)'
               PROVE  <<project'[p].ws, file'[p][x].by>> \in entitled'
    BY DEF WritersWereEntitled
  <1>0. entitled \subseteq entitled'
    BY EntitledGrows
  <1>1. ASSUME file'[p][x] = file[p][x], project'[p].ws = project[p].ws
        PROVE  <<project'[p].ws, file'[p][x].by>> \in entitled'
    BY <1>0, <1>1 DEF EntitledInv, WritersWereEntitled, HasFile
  <1>2. ASSUME file' = file PROVE Exists(p) /\ p \in created
    BY <1>2 DEF TypeInv, Kept, HasFile
  <1>3. ASSUME NEW c \in Calls, NEW q \in Projects, Inserts(c, q)
        PROVE  <<project'[p].ws, file'[p][x].by>> \in entitled'
    BY <1>1, <1>2, <1>3 DEF Inserts
  <1>4. ASSUME NEW c \in Calls, NEW q \in Projects, Rewrites(c, q)
        PROVE  <<project'[p].ws, file'[p][x].by>> \in entitled'
    <2>1. file' = file /\ Exists(p)
      BY <1>2, <1>4 DEF Rewrites
    <2>2. CASE p = q
      <3>1. Located(call[c]) /\ FitsHome(call[c]) /\ call[c].p = p
        BY <1>4, <2>2 DEF TypeInv, Rewrites, Located, Asking, None, P
      <3>2. call[c].ws = project[p].ws
        BY <2>1, <3>1 DEF FitsHome
      <3>3. project'[p].ws = call[c].ws
        BY <1>4, <2>2 DEF Rewrites
      <3> QED BY <1>1, <2>1, <3>2, <3>3
    <2>3. CASE p # q
      BY <1>1, <1>4, <2>1, <2>3 DEF Rewrites
    <2> QED BY <2>2, <2>3
  <1>5. ASSUME NEW ps \in SUBSET Projects, Deletes(ps)
        PROVE  <<project'[p].ws, file'[p][x].by>> \in entitled'
    BY <1>1, <1>5, CascadeEffect DEF Deletes, HasFile
  <1>6. ASSUME NEW c \in Calls, NEW q \in Projects, NEW y \in Paths, NEW row \in FileRows, Files(c, q, y, row)
        PROVE  <<project'[p].ws, file'[p][x].by>> \in entitled'
    <2>1. CASE p = q /\ x = y
      <3>1. /\ call[c].pc = "saveFile" /\ file'[p][x].by = call[c].by /\ P(c) = p /\ Exists(p)
            /\ project' = project
        BY <1>6, <2>1 DEF Files, HasFile
      <3>2. call[c].ws = project[p].ws /\ <<call[c].ws, call[c].by>> \in entitled
        BY <3>1 DEF TypeInv, FitsHome, Located, Asking, None, P, EntitledInv, Allowed, Working
      <3> QED BY <1>0, <3>1, <3>2
    <2>2. CASE ~(p = q /\ x = y)
      BY <1>1, <1>6, <2>2 DEF Files
    <2> QED BY <2>1, <2>2
  <1>7. ASSUME UNCHANGED <<project, file>> PROVE <<project'[p].ws, file'[p][x].by>> \in entitled'
    BY <1>1, <1>7
  <1> QED BY <1>3, <1>4, <1>5, <1>6, <1>7, StepKinds DEF Moves, Tells, rows

(* Whatever membership does between a call's check and its write, the user   *)
(* that a file names as its writer was owner or collaborator of the          *)
(* project's workspace at some time before.                                  *)
THEOREM WritesAreEntitled == Spec => []WritersWereEntitled
  <1>1. Init => EntitledInv
    BY DEF Init, EntitledInv, Allowed, WritersWereEntitled, Working, Idle, HasFile, None
  <1>2. TypeInv /\ EntitledInv /\ [Next]_vars => EntitledInv'
    BY AllowedStep, WritersStep DEF EntitledInv
  <1>3. EntitledInv => WritersWereEntitled
    BY DEF EntitledInv
  <1> QED BY <1>1, <1>2, <1>3, TypeInvariance, PTL DEF Spec

-----------------------------------------------------------------------------
(* The log.  Of the calls that wrote a file and have not told of it, all     *)
(* wrote the same, and what they wrote is there; once all have told, the     *)
(* last event says it.                                                       *)

Tellers(p, x) == {c \in Telling(p) : Path(c) = x}

LogAt(p, x) == <<p, x>> \notin blurred =>
  /\ \A c \in Tellers(p, x) : Exists(p) /\ (HasFile(p, x) <=> call[c].op = "addFile")
  /\ Tellers(p, x) = {} => (HasFile(p, x) <=> told[p][x] = "create")

LogInv == \A p \in Projects, x \in Paths : LogAt(p, x)

LEMMA TellersOf ==
  ASSUME NEW p \in Projects, NEW x \in Paths, NEW d \in Calls
  PROVE  /\ d \in Tellers(p, x) <=> call[d].pc = "fileEvent" /\ call[d].p = p /\ call[d].path = x
         /\ (d \in Tellers(p, x))' <=> call'[d].pc = "fileEvent" /\ call'[d].p = p /\ call'[d].path = x
  BY DEF Tellers, Telling, At, P, Path

(* Nothing about the path changes, nor do the calls that will tell of it.    *)
LEMMA LogStays ==
  ASSUME TypeInv, NEW p \in Projects, NEW x \in Paths, LogAt(p, x), blurred \subseteq blurred',
         file'[p][x] = file[p][x], told'[p][x] = told[p][x], Exists(p) => Exists(p)',
         \A d \in Calls : /\ (d \in Tellers(p, x))' <=> d \in Tellers(p, x)
                          /\ d \in Tellers(p, x) => call'[d].op = call[d].op
  PROVE  LogAt(p, x)'
  <1>1. \A d \in Tellers(p, x)' : d \in Calls /\ d \in Tellers(p, x)
    BY DEF Tellers, Telling
  <1>2. Tellers(p, x) \subseteq Calls
    BY DEF Tellers, Telling
  <1>3. Tellers(p, x)' = {} => Tellers(p, x) = {}
    BY <1>2
  <1>4. HasFile(p, x)' <=> HasFile(p, x)
    BY DEF HasFile
  <1> QED BY <1>1, <1>3, <1>4 DEF LogAt

LEMMA LogStep == TypeInv /\ LogInv /\ [Next]_vars => LogInv'
  <1> SUFFICES ASSUME TypeInv, LogInv, [Next]_vars, NEW p \in Projects, NEW x \in Paths
               PROVE  LogAt(p, x)'
    BY DEF LogInv
  <1>0. LogAt(p, x)
    BY DEF LogInv
  <1>1. ASSUME NEW c \in Calls, Moves(c) PROVE LogAt(p, x)'
    <2>1. CASE call[c].pc = "fileEvent" /\ P(c) = p /\ Path(c) = x
      BY <1>1, <2>1 DEF Moves, LogAt
    <2>2. CASE ~(call[c].pc = "fileEvent" /\ P(c) = p /\ Path(c) = x)
      <3>1. \A d \in Calls : /\ (d \in Tellers(p, x))' <=> d \in Tellers(p, x)
                             /\ d \in Tellers(p, x) => call'[d].op = call[d].op
        BY <1>1, <2>2, TellersOf DEF Moves, Others, P, Path
      <3> QED BY <1>0, <1>1, <3>1, LogStays DEF Moves, Exists
    <2> QED BY <2>1, <2>2
  <1>2. ASSUME NEW c \in Calls, NEW q \in Projects, Inserts(c, q) PROVE LogAt(p, x)'
    <2>1. \A d \in Calls : /\ (d \in Tellers(p, x))' <=> d \in Tellers(p, x)
                           /\ d \in Tellers(p, x) => call'[d].op = call[d].op
      BY <1>2, TellersOf, TellIsTyped DEF Inserts, Others
    <2>2. Exists(p) => Exists(p)'
      BY <1>2 DEF Inserts, Exists
    <2> QED BY <1>0, <1>2, <2>1, <2>2, LogStays DEF Inserts
  <1>3. ASSUME NEW c \in Calls, NEW q \in Projects, Rewrites(c, q) PROVE LogAt(p, x)'
    <2>1. \A d \in Calls : d # c => /\ call'[d].pc = call[d].pc /\ call'[d].p = call[d].p
                                    /\ call'[d].path = call[d].path /\ call'[d].op = call[d].op
      <3>1. \A d \in Calls : call[d] \in Slots
        BY TypesOf DEF TypeInv
      <3>2. \A d \in Calls : d # c => call'[d] \in {call[d], [call[d] EXCEPT !.overtaken = TRUE]}
        BY <1>3 DEF Rewrites
      <3> QED BY <3>1, <3>2 DEF Slots
    <2>2. \A d \in Calls : /\ (d \in Tellers(p, x))' <=> d \in Tellers(p, x)
                           /\ d \in Tellers(p, x) => call'[d].op = call[d].op
      BY <1>3, <2>1, TellersOf, TellIsTyped DEF Rewrites
    <2>3. Exists(p) => Exists(p)'
      BY <1>3 DEF Rewrites, Exists
    <2> QED BY <1>0, <1>3, <2>2, <2>3, LogStays DEF Rewrites
  <1>4. ASSUME NEW ps \in SUBSET Projects, Deletes(ps) PROVE LogAt(p, x)'
    <2>1. \A d \in Calls : /\ (d \in Tellers(p, x))' <=> d \in Tellers(p, x)
                           /\ d \in Tellers(p, x) => call'[d].op = call[d].op
      BY <1>4, TellersOf, IdleIsTyped DEF Deletes, None
    <2>2. CASE p \in ps
      <3>1. file'[p][x] = NoFile /\ told'[p][x] = None
        BY <1>4, <2>2, CascadeEffect DEF Deletes
      <3>2. Tellers(p, x) # {} => <<p, x>> \in blurred'
        BY <1>4, <2>2 DEF Deletes, Cascade, Tellers, Telling, P
      <3>3. Tellers(p, x)' # {} => Tellers(p, x) # {}
        BY <2>1 DEF Tellers, Telling
      <3> QED BY <3>1, <3>2, <3>3 DEF LogAt, HasFile, None
    <2>3. CASE p \notin ps
      <3>1. file'[p] = file[p] /\ told'[p] = told[p] /\ project'[p] = project[p]
        BY <1>4, <2>3, CascadeEffect DEF Deletes
      <3>2. blurred \subseteq blurred'
        BY <1>4 DEF Deletes, Cascade
      <3> QED BY <1>0, <2>1, <3>1, <3>2, LogStays DEF Exists
    <2> QED BY <2>2, <2>3
  <1>5. ASSUME NEW c \in Calls, NEW q \in Projects, NEW y \in Paths, NEW row \in FileRows, Files(c, q, y, row)
        PROVE  LogAt(p, x)'
    <2>1. CASE p = q /\ x = y
      <3> SUFFICES ASSUME <<p, x>> \notin blurred'
                   PROVE  LogAt(p, x)'
        BY DEF LogAt
      <3>1. /\ call'[c].pc = "fileEvent" /\ call'[c].p = p /\ call'[c].path = x /\ call'[c].op = call[c].op
            /\ Exists(p)' /\ Others(c)
            /\ HasFile(p, x)' <=> call[c].op = "addFile"
        BY <1>5, <2>1 DEF Files, HasFile, Exists
      <3>2. \A d \in Telling(p) : Path(d) = x => call[d].op = call[c].op
        BY <1>5, <2>1 DEF Files, Is
      <3>3. \A d \in Calls : (d \in Tellers(p, x))' => call'[d].op = call[c].op
        BY <3>1, <3>2 DEF Tellers, Telling, At, P, Path, Others
      <3>4. c \in Tellers(p, x)'
        BY <3>1, TellersOf
      <3>5. \A d \in Tellers(p, x)' : d \in Calls
        BY DEF Tellers, Telling
      <3> QED BY <3>1, <3>3, <3>4, <3>5 DEF LogAt
    <2>2. CASE ~(p = q /\ x = y)
      <3>1. \A d \in Calls : /\ (d \in Tellers(p, x))' <=> d \in Tellers(p, x)
                             /\ d \in Tellers(p, x) => call'[d].op = call[d].op
        BY <1>5, <2>2, TellersOf DEF Files, Others
      <3>2. blurred \subseteq blurred' /\ file'[p][x] = file[p][x] /\ told' = told /\ project' = project
        BY <1>5, <2>2 DEF Files
      <3> QED BY <1>0, <3>1, <3>2, LogStays DEF Exists
    <2> QED BY <2>1, <2>2
  <1>6. ASSUME NEW c \in Calls, NEW q \in Projects, NEW y \in Paths, Tells(c, q, y) PROVE LogAt(p, x)'
    <2>1. CASE p = q /\ x = y
      <3> SUFFICES ASSUME <<p, x>> \notin blurred
                   PROVE  LogAt(p, x)'
        BY <1>6 DEF LogAt, Tells
      <3>1. c \in Tellers(p, x)
        BY <1>6, <2>1, TellersOf DEF Tells, P, Path
      <3>2. Exists(p) /\ (HasFile(p, x) <=> call[c].op = "addFile")
        BY <1>0, <3>1 DEF LogAt
      <3>3. told'[p][x] = "create" <=> call[c].op = "addFile"
        BY <1>6, <2>1, <3>2 DEF Tells, Is
      <3>4. /\ HasFile(p, x)' <=> HasFile(p, x)
            /\ Exists(p)' <=> Exists(p)
        BY <1>6 DEF Tells, HasFile, Exists
      <3>5. \A d \in Tellers(p, x)' : d \in Tellers(p, x) /\ call'[d].op = call[d].op
        BY <1>6, IdleIsTyped DEF Tells, Others, Tellers, Telling, At, P, Path, None
      <3> QED BY <1>0, <3>2, <3>3, <3>4, <3>5 DEF LogAt
    <2>2. CASE ~(p = q /\ x = y)
      <3>1. \A d \in Calls : /\ (d \in Tellers(p, x))' <=> d \in Tellers(p, x)
                             /\ d \in Tellers(p, x) => call'[d].op = call[d].op
        BY <1>6, <2>2, TellersOf, IdleIsTyped DEF Tells, Others, None, P, Path
      <3>2. blurred' = blurred /\ file' = file /\ told'[p][x] = told[p][x] /\ project' = project
        BY <1>6, <2>2 DEF Tells
      <3> QED BY <1>0, <3>1, <3>2, LogStays DEF Exists
    <2> QED BY <2>1, <2>2
  <1>7. CASE UNCHANGED <<rows, call, history>>
    BY <1>0, <1>7, LogStays, TellersOf DEF rows, history, Exists
  <1> QED BY <1>1, <1>2, <1>3, <1>4, <1>5, <1>6, <1>7, StepKinds

(* The log of a project tells its files: unless an event was lost, or an     *)
(* addition and a removal of one path overlapped, a path has a file when the *)
(* last event told about it is a creation.                                   *)
THEOREM LogIsTrue == Spec => []LogTellsFiles
  <1>1. Init => LogInv
    BY DEF Init, LogInv, LogAt, Tellers, Telling, At, Idle, HasFile, None
  <1>2. LogInv => LogTellsFiles
    BY DEF LogInv, LogAt, LogTellsFiles, Tellers
  <1> QED BY <1>1, <1>2, LogStep, TypeInvariance, PTL DEF Spec

-----------------------------------------------------------------------------
(* Metadata.  An update that none has overtaken still holds the keys that    *)
(* the row has.                                                              *)

KeyAt(p, d) == d \in Updating(p) /\ ~call[d].overtaken /\ Exists(p) => project[p].keys = call[d].keys
KeyInv == \A p \in Projects, d \in Calls : KeyAt(p, d)

LEMMA KeyStep == TypeInv /\ KeyInv /\ [Next]_vars => KeyInv'
  <1> SUFFICES ASSUME TypeInv, KeyInv, [Next]_vars, NEW p \in Projects, NEW d \in Calls,
                      (d \in Updating(p))', ~call'[d].overtaken, Exists(p)'
               PROVE  project'[p].keys = call'[d].keys
    BY DEF KeyInv, KeyAt
  <1>0. KeyAt(p, d)
    BY DEF KeyInv
  <1>1. call'[d].p = p /\ call'[d].op \in Saves /\ call'[d].pc \in Pending
    BY UpdatersOf
  <1>2. call'[d] # Idle /\ \A q \in Projects : call'[d] # TellOf(q)
    BY <1>1, IdleIsTyped, TellIsTyped DEF Pending, None
  <1>3. ASSUME call'[d] = call[d], project'[p] = project[p] PROVE project'[p].keys = call'[d].keys
    BY <1>0, <1>1, <1>3, UpdatersOf DEF KeyAt, Exists
  <1>4. ASSUME NEW c \in Calls, Moves(c) PROVE project'[p].keys = call'[d].keys
    <2>1. CASE d # c
      BY <1>3, <1>4, <2>1 DEF Moves, Others
    <2>2. CASE d = c
      BY <1>0, <1>1, <1>4, <2>2, UpdatersOf DEF Moves, KeyAt, Exists, P
    <2> QED BY <2>1, <2>2
  <1>5. ASSUME NEW c \in Calls, NEW q \in Projects, Inserts(c, q) PROVE project'[p].keys = call'[d].keys
    <2>1. call'[d] = call[d]
      BY <1>2, <1>5 DEF Inserts, Others
    <2>2. p \in created
      BY <1>1, <2>1 DEF TypeInv, Sound, Informed, Pending, Saves, None
    <2> QED BY <1>3, <1>5, <2>1, <2>2 DEF Inserts
  <1>6. ASSUME NEW c \in Calls, NEW q \in Projects, Rewrites(c, q) PROVE project'[p].keys = call'[d].keys
    <2>1. d # c
      BY <1>2, <1>6 DEF Rewrites
    <2>2. d \notin Updating(q)
      <3>1. call[d] \in Slots
        BY TypesOf DEF TypeInv
      <3> QED BY <1>6, <2>1, <3>1 DEF Rewrites, Slots
    <2>3. call'[d] = call[d]
      BY <1>6, <2>1, <2>2 DEF Rewrites
    <2>4. p # q
      BY <1>1, <2>2, <2>3, UpdatersOf
    <2> QED BY <1>3, <1>6, <2>3, <2>4 DEF Rewrites
  <1>7. ASSUME NEW ps \in SUBSET Projects, Deletes(ps) PROVE project'[p].keys = call'[d].keys
    BY <1>2, <1>3, <1>7, CascadeEffect DEF Deletes, Exists
  <1>8. ASSUME NEW c \in Calls, NEW q \in Projects, NEW x \in Paths, NEW row \in FileRows, Files(c, q, x, row)
        PROVE  project'[p].keys = call'[d].keys
    BY <1>1, <1>3, <1>8 DEF Files, Others, Pending
  <1>9. ASSUME NEW c \in Calls, NEW q \in Projects, NEW x \in Paths, Tells(c, q, x)
        PROVE  project'[p].keys = call'[d].keys
    BY <1>2, <1>3, <1>9 DEF Tells, Others
  <1>10. CASE UNCHANGED <<rows, call, history>>
    BY <1>3, <1>10 DEF rows
  <1> QED BY <1>4, <1>5, <1>6, <1>7, <1>8, <1>9, <1>10, StepKinds

(* What KeysAreKept says of one project in a step.                           *)
KeepsKeys(p) == Exists(p) /\ Exists(p)' =>
  \/ project[p].keys \subseteq project'[p].keys
  \/ \E c \in Updating(p) : call'[c] # call[c] /\ (Is(c, {"updateProject"}) \/ call[c].overtaken)

LEMMA KeysStep ==
  ASSUME TypeInv, KeyInv, [Next]_vars, NEW p \in Projects
  PROVE  KeepsKeys(p)
  <1>1. ASSUME project'[p] = project[p] PROVE KeepsKeys(p)
    BY <1>1 DEF KeepsKeys
  <1>2. ASSUME NEW c \in Calls, NEW q \in Projects, Rewrites(c, q) PROVE KeepsKeys(p)
    <2> SUFFICES ASSUME p = q, Exists(p), call[c].op # "updateProject", ~call[c].overtaken
                 PROVE  project[p].keys \subseteq project'[p].keys
      <3>1. CASE p # q
        BY <1>1, <1>2, <3>1 DEF Rewrites
      <3>2. CASE p = q
        <4>1. c \in Updating(p) /\ call'[c] # call[c]
          BY <1>2, <3>2, UpdatersOf, TellIsTyped DEF Rewrites, P, Pending
        <4> QED BY <3>2, <4>1 DEF KeepsKeys, Is
      <3> QED BY <3>1, <3>2
    <2>1. c \in Updating(p)
      BY <1>2, UpdatersOf DEF Rewrites, P, Pending
    <2>2. project[p].keys = call[c].keys
      BY <2>1 DEF KeyInv, KeyAt
    <2>3. project'[p].keys = call[c].keys \union call[c].dto
      BY <1>2 DEF Rewrites, NewKeys, Is, Saves
    <2> QED BY <2>2, <2>3
  <1>3. ASSUME NEW c \in Calls, NEW q \in Projects, Inserts(c, q) PROVE KeepsKeys(p)
    BY <1>1, <1>3 DEF Inserts, KeepsKeys, TypeInv, Kept
  <1>4. ASSUME NEW ps \in SUBSET Projects, Deletes(ps) PROVE KeepsKeys(p)
    BY <1>1, <1>4, CascadeEffect DEF Deletes, KeepsKeys, Exists
  <1> QED BY <1>1, <1>2, <1>3, <1>4, StepKinds DEF Moves, Files, Tells, rows

(* No save loses metadata that it had not read, unless updateProject meant   *)
(* to replace it or another save of the project came between its read and    *)
(* its write.                                                                *)
THEOREM UpdatesKeepKeys == Spec => KeysAreKept
  <1>1. Init => KeyInv
    BY DEF Init, KeyInv, KeyAt, Exists
  <1>2. TypeInv /\ KeyInv /\ [Next]_vars => [\A p \in Projects : KeepsKeys(p)]_vars
    BY KeysStep
  <1>3. [\A p \in Projects : KeepsKeys(p)]_vars =>
          [\A p \in Projects : Exists(p) /\ Exists(p)' =>
             \/ project[p].keys \subseteq project'[p].keys
             \/ \E c \in Updating(p) : call'[c] # call[c] /\ (Is(c, {"updateProject"}) \/ call[c].overtaken)]_vars
    BY DEF KeepsKeys
  <1> QED BY <1>1, <1>2, <1>3, KeyStep, TypeInvariance, PTL DEF Spec, KeysAreKept
=============================================================================
