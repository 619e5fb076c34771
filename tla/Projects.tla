------------------------------- MODULE Projects -------------------------------
(* Projects, their files and their log, over the membership that guards them *)
(* (module Membership, which Workspaces implements).  Every method of        *)
(* ProjectService checks, reads and writes in separate awaited queries: the  *)
(* calls in flight interleave with each other and with changes of membership *)
(* between any two.  Postgres and TypeORM's save (update the row with the    *)
(* entity's id, or insert it when there is none) are external.               *)
EXTENDS Membership, FiniteSets

CONSTANTS Projects,   \* ids of projects: bounds how many are created
          Paths,      \* file paths
          FileIds,    \* ids of project_files rows
          Keys,       \* keys of a project's metadata
          Calls,      \* slots for calls in flight
          Callers     \* the users who make them

ASSUME CallersAssumption == Callers \subseteq Users

VARIABLES project,    \* the row of each project: its workspace and metadata keys
          file,       \* the row of project_files of each project and path
          told,       \* the action of the last event about each path
          call,       \* the calls in flight
          created,    \* history: ids of projects inserted
          entitled,   \* history: <<workspace, user>> that could ever modify projects
          gone,       \* history: projects deleted with no update under way
          blurred     \* history: <<project, path>> with writes and events out of step

rows == <<project, file, told>>
history == <<created, gone, blurred>>
vars == <<membership, rows, call, entitled, history>>

None == "none"

ASSUME NoneAssumption == None \notin Workspaces \union Users \union Projects \union Paths \union FileIds

NoProject == [ws |-> None, keys |-> {}]
NoFile == [id |-> None, by |-> None]
Idle == [op |-> None, pc |-> None, by |-> None, p |-> None, ws |-> None,
         path |-> None, id |-> None, keys |-> {}, dto |-> {}, overtaken |-> FALSE]

Init ==
  /\ MembershipInit
  /\ project = [p \in Projects |-> NoProject]
  /\ file = [p \in Projects |-> [x \in Paths |-> NoFile]]
  /\ told = [p \in Projects |-> [x \in Paths |-> None]]
  /\ call = [c \in Calls |-> Idle]
  /\ created = {} /\ entitled = {} /\ gone = {} /\ blurred = {}

Exists(p) == project[p] # NoProject
HasFile(p, x) == file[p][x] # NoFile
HeldIds == {call[c].id : c \in Calls}
FreshId(id) == id \notin HeldIds /\ \A p \in Projects, x \in Paths : file[p][x].id # id

At(c, pc) == call[c].pc = pc
Is(c, ops) == call[c].op \in ops
Goto(c, pc) == call' = [call EXCEPT ![c].pc = pc]
End(c) == call' = [call EXCEPT ![c] = Idle]
P(c) == call[c].p
Path(c) == call[c].path
Saves == {"updateProject", "updateMetadata"}

(* Calls that have read the row of p and will save it.                       *)
Updating(p) == {c \in Calls : P(c) = p /\ Is(c, Saves) /\ call[c].pc \in {"checkAccess", "checkModify", "saveProject"}}
(* Calls that have written a file of p and have not told of it yet.          *)
Telling(p) == {c \in Calls : P(c) = p /\ At(c, "fileEvent")}

-----------------------------------------------------------------------------
(* A call starts                                                             *)

Start(c, q) ==
  /\ call[c] = Idle
  /\ call' = [call EXCEPT ![c] = q]
  /\ UNCHANGED <<membership, rows, history>>

createProject(c, by, w, ks) ==
  creator[w] # Nobody /\ Start(c, [Idle EXCEPT !.op = "createProject", !.pc = "checkModify", !.by = by, !.ws = w, !.dto = ks])

(* On a project whose id the caller was told of.                             *)
OnProject(c, op, by, p, x, ks) ==
  /\ p \in created
  /\ Start(c, [Idle EXCEPT !.op = op, !.pc = "findProject", !.by = by, !.p = p, !.path = x, !.dto = ks])

(* Without metadata it saves those it read, as updateMetadata with none does. *)
updateProject(c, by, p, ks) ==
  OnProject(c, "updateProject", by, p, None, ks) \/ OnProject(c, "updateMetadata", by, p, None, {})
updateMetadata(c, by, p, ks) == OnProject(c, "updateMetadata", by, p, None, ks)
deleteProject(c, by, p) == OnProject(c, "deleteProject", by, p, None, {})
addFile(c, by, p, x) == OnProject(c, "addFile", by, p, x, {})
removeFile(c, by, p, x) == OnProject(c, "removeFile", by, p, x, {})

-----------------------------------------------------------------------------
(* Reads and checks                                                          *)

(* Mutant: a project that is not found is made up from the id.               *)
FindProjectOrNew(c) ==
  /\ At(c, "findProject")
  /\ call' = [call EXCEPT ![c].pc = IF Is(c, {"addFile", "removeFile"}) THEN "checkModify" ELSE "checkAccess",
                          ![c].ws = IF Exists(P(c)) THEN project[P(c)].ws ELSE CHOOSE w \in Workspaces : TRUE,
                          ![c].keys = project[P(c)].keys]
  /\ UNCHANGED <<membership, rows, history>>

(* findOne of the project; the methods on its row go through getProject and  *)
(* check the access first.                                                   *)
FindProject(c) ==
  /\ At(c, "findProject")
  /\ IF Exists(P(c))
     THEN call' = [call EXCEPT ![c].pc = IF Is(c, {"addFile", "removeFile"}) THEN "checkModify" ELSE "checkAccess",
                               ![c].ws = project[P(c)].ws,
                               ![c].keys = IF Is(c, Saves) THEN project[P(c)].keys ELSE {}]
     ELSE End(c)
  /\ UNCHANGED <<membership, rows, history>>

checkWorkspaceAccess(c) ==
  /\ At(c, "checkAccess")
  /\ IF role[call[c].ws][call[c].by] # Nobody THEN Goto(c, "checkModify") ELSE End(c)
  /\ UNCHANGED <<membership, rows, history>>

AfterCheck == [createProject |-> "insertProject", updateProject |-> "saveProject",
               updateMetadata |-> "saveProject", deleteProject |-> "deleteEvent",
               addFile |-> "findFile", removeFile |-> "getFile"]
MayModify == {"owner", "collaborator"}

(* Mutant: any member may modify.                                            *)
checkProjectModifyPermissionOfMembers(c) ==
  /\ At(c, "checkModify")
  /\ IF role[call[c].ws][call[c].by] # Nobody THEN Goto(c, AfterCheck[call[c].op]) ELSE End(c)
  /\ UNCHANGED <<membership, rows, history>>

checkProjectModifyPermission(c) ==
  /\ At(c, "checkModify")
  /\ IF role[call[c].ws][call[c].by] \in MayModify THEN Goto(c, AfterCheck[call[c].op]) ELSE End(c)
  /\ UNCHANGED <<membership, rows, history>>

-----------------------------------------------------------------------------
(* The row of the project                                                    *)

TellOf(p) == [Idle EXCEPT !.op = "event", !.pc = "projectEvent", !.p = p]

(* The insert rejects when the workspace is gone (foreign key).              *)
InsertProject(c, p) ==
  /\ At(c, "insertProject")
  /\ IF Stands(call[c].ws)
     THEN /\ p \notin created
          /\ project' = [project EXCEPT ![p] = [ws |-> call[c].ws, keys |-> call[c].dto]]
          /\ created' = created \union {p}
          /\ call' = [call EXCEPT ![c] = TellOf(p)]
     ELSE /\ End(c)
          /\ UNCHANGED <<project, created>>
  /\ UNCHANGED <<membership, file, told, gone, blurred>>

(* updateProject replaces the metadata, updateMetadata adds to the ones read.*)
NewKeys(c) == IF Is(c, {"updateMetadata"}) THEN call[c].keys \union call[c].dto ELSE call[c].dto

Put(c, keys) ==
  LET p == P(c) IN
  /\ At(c, "saveProject")
  /\ IF Exists(p) \/ Stands(call[c].ws)
     THEN /\ project' = [project EXCEPT ![p] = [ws |-> call[c].ws, keys |-> keys]]
          /\ call' = [d \in Calls |-> IF d = c THEN TellOf(p)
                                     ELSE IF d \in Updating(p) THEN [call[d] EXCEPT !.overtaken = TRUE]
                                     ELSE call[d]]
     ELSE /\ End(c)
          /\ UNCHANGED project
  /\ UNCHANGED <<membership, file, told, history>>

(* Mutant: updateMetadata replaces as well.                                  *)
SaveProjectReplacing(c) == Put(c, call[c].dto)

(* save of the row read: a project deleted meanwhile is inserted again, if   *)
(* its workspace stands.                                                     *)
SaveProject(c) == Put(c, NewKeys(c))

(* An event about the project itself changes nothing modelled here; without  *)
(* the project it is rejected (foreign key), after the fact.                 *)
AddProjectEvent(c) ==
  /\ At(c, "projectEvent")
  /\ End(c)
  /\ UNCHANGED <<membership, rows, history>>

(* deleteProject tells first: rejected without the project.                  *)
AddDeleteEvent(c) ==
  /\ At(c, "deleteEvent")
  /\ IF Exists(P(c)) THEN Goto(c, "deleteProject") ELSE End(c)
  /\ UNCHANGED <<membership, rows, history>>

(* Rows of projects ps are deleted, files and events with them (ON DELETE    *)
(* CASCADE).                                                                 *)
Cascade(ps) ==
  /\ project' = [p \in Projects |-> IF p \in ps THEN NoProject ELSE project[p]]
  /\ file' = [p \in Projects |-> IF p \in ps THEN [x \in Paths |-> NoFile] ELSE file[p]]
  /\ told' = [p \in Projects |-> IF p \in ps THEN [x \in Paths |-> None] ELSE told[p]]
  /\ gone' = gone \union {p \in ps : Updating(p) = {}}
  /\ blurred' = blurred \union {<<P(c), Path(c)>> : c \in UNION {Telling(p) : p \in ps}}
  /\ UNCHANGED created

(* Mutant: the foreign key of project_files does not cascade.                *)
DeleteProjectOnly(c) ==
  /\ At(c, "deleteProject")
  /\ project' = [project EXCEPT ![P(c)] = NoProject]
  /\ End(c)
  /\ UNCHANGED <<membership, file, told, history>>

DeleteProject(c) ==
  /\ At(c, "deleteProject")
  /\ Cascade({P(c)} \intersect {p \in Projects : Exists(p)})
  /\ End(c)
  /\ UNCHANGED membership

-----------------------------------------------------------------------------
(* Files                                                                     *)

FindFile(c) ==
  /\ At(c, "findFile")
  /\ call' = [call EXCEPT ![c].pc = "saveFile", ![c].id = file[P(c)][Path(c)].id]
  /\ UNCHANGED <<membership, rows, history>>

(* A write of a file is followed by its event, and out of step with the log  *)
(* when one of the other kind waits for its own.                             *)
Written(c) ==
  /\ call' = [call EXCEPT ![c] = [Idle EXCEPT !.op = call[c].op, !.pc = "fileEvent", !.p = P(c), !.path = Path(c)]]
  /\ blurred' = IF \E d \in Telling(P(c)) : Path(d) = Path(c) /\ ~Is(d, {call[c].op})
                THEN blurred \union {<<P(c), Path(c)>>} ELSE blurred
  /\ UNCHANGED <<membership, project, told, created, gone>>

(* Mutant: the row found is updated, which does nothing if it is gone.       *)
SaveFileUpdating(c) ==
  LET p == P(c)  x == Path(c) IN
  /\ At(c, "saveFile")
  /\ \E id \in FileIds :
       /\ IF call[c].id = None THEN FreshId(id) ELSE id = call[c].id
       /\ IF Exists(p) /\ (call[c].id = None => ~HasFile(p, x))
          THEN /\ file' = IF HasFile(p, x) \/ call[c].id = None
                          THEN [file EXCEPT ![p][x] = [id |-> id, by |-> call[c].by]] ELSE file
               /\ Written(c)
          ELSE End(c) /\ UNCHANGED <<membership, rows, history>>

(* save of the row found, or of a new one with a fresh uuid.  A row found    *)
(* and removed since is inserted again.  An insert rejects without the       *)
(* project (foreign key), or when the path has another row (unique           *)
(* projectId, filePath).                                                     *)
SaveFile(c) ==
  LET p == P(c)  x == Path(c) IN
  /\ At(c, "saveFile")
  /\ \E id \in FileIds :
       /\ IF call[c].id = None THEN FreshId(id) ELSE id = call[c].id
       /\ IF Exists(p) /\ (HasFile(p, x) => file[p][x].id = id)
          THEN /\ file' = [file EXCEPT ![p][x] = [id |-> id, by |-> call[c].by]]
               /\ Written(c)
          ELSE End(c) /\ UNCHANGED <<membership, rows, history>>

GetFile(c) ==
  /\ At(c, "getFile")
  /\ IF HasFile(P(c), Path(c)) THEN Goto(c, "deleteFile") ELSE End(c)
  /\ UNCHANGED <<membership, rows, history>>

(* NotFoundException when no row was affected.                               *)
DeleteFile(c) ==
  /\ At(c, "deleteFile")
  /\ IF HasFile(P(c), Path(c))
     THEN file' = [file EXCEPT ![P(c)][Path(c)] = NoFile] /\ Written(c)
     ELSE End(c) /\ UNCHANGED <<membership, rows, history>>

(* addEvent, rejected without the project.  The getProject that follows only *)
(* decides the answer.                                                       *)
AddFileEvent(c) ==
  /\ At(c, "fileEvent")
  /\ told' = IF Exists(P(c)) THEN [told EXCEPT ![P(c)][Path(c)] = IF Is(c, {"addFile"}) THEN "create" ELSE "delete"]
             ELSE told
  /\ End(c)
  /\ UNCHANGED <<membership, project, file, history>>

-----------------------------------------------------------------------------
(* The database rejects, or the instance dies: no later step of the call.    *)
Fails(c) ==
  /\ call[c] # Idle
  /\ blurred' = IF At(c, "fileEvent") THEN blurred \union {<<P(c), Path(c)>>} ELSE blurred
  /\ End(c)
  /\ UNCHANGED <<membership, rows, created, gone>>

(* Membership changes under the calls; a workspace closes with its projects. *)
MembersChange(w) ==
  /\ Admit(w) \/ Dismiss(w)
  /\ UNCHANGED <<rows, call, history>>

WorkspaceCloses(w) ==
  /\ Close(w)
  /\ Cascade({p \in Projects : project[p].ws = w})
  /\ UNCHANGED call

StartCall(c) == \E by \in Callers, ks \in SUBSET Keys :
  \/ \E w \in Workspaces : createProject(c, by, w, ks)
  \/ \E p \in Projects :
       \/ updateProject(c, by, p, ks) \/ updateMetadata(c, by, p, ks) \/ deleteProject(c, by, p)
       \/ \E x \in Paths : addFile(c, by, p, x) \/ removeFile(c, by, p, x)

Step(c) ==
  \/ FindProject(c) \/ checkWorkspaceAccess(c) \/ checkProjectModifyPermission(c)
  \/ \E p \in Projects : InsertProject(c, p)
  \/ SaveProject(c) \/ AddProjectEvent(c) \/ AddDeleteEvent(c) \/ DeleteProject(c)
  \/ FindFile(c) \/ SaveFile(c) \/ GetFile(c) \/ DeleteFile(c) \/ AddFileEvent(c)

Next ==
  /\ \/ \E c \in Calls : StartCall(c) \/ Step(c) \/ Fails(c)
     \/ \E w \in Workspaces : MembersChange(w) \/ WorkspaceCloses(w)
  /\ entitled' = entitled \union {m \in Workspaces \X Users : role'[m[1]][m[2]] \in MayModify}

Spec == Init /\ [][Next]_vars

-----------------------------------------------------------------------------
Ops == {None, "createProject", "updateProject", "updateMetadata", "deleteProject", "addFile", "removeFile", "event"}
PCs == {None, "findProject", "checkAccess", "checkModify", "insertProject", "saveProject", "projectEvent",
        "deleteEvent", "deleteProject", "findFile", "saveFile", "getFile", "deleteFile", "fileEvent"}

(* Types; projects belong to standing workspaces, files and events to        *)
(* projects that exist, and a row id names one file.                         *)
TypeOK ==
  /\ project \in [Projects -> [ws : Workspaces \union {None}, keys : SUBSET Keys]]
  /\ file \in [Projects -> [Paths -> [id : FileIds \union {None}, by : Users \union {None}]]]
  /\ told \in [Projects -> [Paths -> {None, "create", "delete"}]]
  /\ call \in [Calls -> [op : Ops, pc : PCs, by : Users \union {None}, p : Projects \union {None},
                         ws : Workspaces \union {None}, path : Paths \union {None},
                         id : FileIds \union {None}, keys : SUBSET Keys, dto : SUBSET Keys, overtaken : BOOLEAN]]
  /\ created \subseteq Projects /\ gone \subseteq Projects
  /\ entitled \subseteq Workspaces \X Users
  /\ blurred \subseteq Projects \X Paths
  /\ \A p \in Projects : Exists(p) => Stands(project[p].ws)
  /\ \A p \in Projects, x \in Paths : HasFile(p, x) \/ told[p][x] # None => Exists(p)
  /\ \A p, q \in Projects, x, y \in Paths :
       HasFile(p, x) /\ file[p][x].id = file[q][y].id => <<p, x>> = <<q, y>>

(* The history of a project tells which files it has: a path has a file when *)
(* its last event is a creation, once every write has been told of, unless   *)
(* an event was lost or a write and an event of the other kind overtook each *)
(* other.                                                                    *)
LogTellsFiles == \A p \in Projects, x \in Paths :
  <<p, x>> \notin blurred /\ (\A c \in Telling(p) : Path(c) # x) =>
    (HasFile(p, x) <=> told[p][x] = "create")

(* A deleted project, or one whose workspace was deleted, does not come back *)
(* unless an update had read it before.                                      *)
DeletedProjectsStayDeleted == \A p \in gone : ~Exists(p)

(* Metadata keys disappear from a project only when updateProject replaces   *)
(* them, or in a save that another save of the project has overtaken.        *)
KeysAreKept == [][\A p \in Projects : Exists(p) /\ Exists(p)' =>
  \/ project[p].keys \subseteq project'[p].keys
  \/ \E c \in Updating(p) : call'[c] # call[c] /\ (Is(c, {"updateProject"}) \/ call[c].overtaken)]_vars

(* Whoever a file names as its last writer was once allowed to modify the    *)
(* workspace's projects, however membership changed since.                   *)
WritersWereEntitled == \A p \in Projects, x \in Paths :
  HasFile(p, x) => <<project[p].ws, file[p][x].by>> \in entitled
=============================================================================
