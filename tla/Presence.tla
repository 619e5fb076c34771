------------------------------ MODULE Presence -----------------------------
(* Who is active in which workspace: CollaborationGateway's join, leave,     *)
(* disconnect and activity handlers over PresenceService, whose four kinds   *)
(* of Redis keys (session, workspace users, user sessions, presence) are     *)
(* written one awaited command at a time and expire by themselves.  Handlers *)
(* of all sockets, those of one socket included, may overlap: socket.io does *)
(* not wait for one before it calls the next.  Redis and socket.io's rooms   *)
(* are external, modelled by the commands issued to them.                    *)
CONSTANTS Sockets,     \* connections; a client that reconnects gets another
          Users,
          Workspaces,
          UserOf,      \* the user WsAuthGuard authenticated each socket as
          Handlers,    \* slots for handlers in flight: bounds how many overlap
          Behaviours   \* what clients and the environment may do, see below

(* "users": handlers of different users overlap    "sockets": those of one do *)
(* "elsewhere": a user may be in several workspaces, or join without leaving *)
(* "leave": clients send leave-workspace    "expire": keys reach their TTL   *)
(* "redis": a Redis command may reject      "crash": the instance may die    *)
AllBehaviours == {"users", "sockets", "elsewhere", "leave", "expire", "redis", "crash"}

ASSUME UserOfAssumption == UserOf \in [Sockets -> Users]
ASSUME BehavioursAssumption == Behaviours \subseteq AllBehaviours

VARIABLES conn,        \* each socket's connection
          joined,      \* client.data.workspaceId
          rooms,       \* the workspace rooms each socket is in
          session,     \* session:<socket>, its workspace
          members,     \* workspace:<workspace>:users
          userSockets, \* user:<user>:sessions
          presence,    \* presence:<workspace>:<user>, its socketIds
          noTtl,       \* the sets that exist and have no TTL yet
          handler,     \* the handlers in flight
          announced    \* the users in the last presence-updated message of each workspace

redis == <<session, members, userSockets, presence, noTtl>>
sockets == <<conn, joined, rooms>>
vars == <<conn, joined, rooms, session, members, userSockets, presence, noTtl, handler, announced>>

None == "none"
(* Ids of workspaces are uuids.                                              *)
ASSUME NoneAssumption == None \notin Workspaces
NoPresence == [live |-> FALSE, expires |-> TRUE, socketIds |-> {}]
Recorded(ids) == [live |-> TRUE, expires |-> TRUE, socketIds |-> ids]
Free == [op |-> None, pc |-> None, socket |-> None, ws |-> None,
         todo |-> {}, found |-> {}, ids |-> {}]

Init ==
  /\ conn = [s \in Sockets |-> "new"]
  /\ joined = [s \in Sockets |-> None]
  /\ rooms = [s \in Sockets |-> {}]
  /\ session = [s \in Sockets |-> None]
  /\ members = [w \in Workspaces |-> {}]
  /\ userSockets = [u \in Users |-> {}]
  /\ presence = [w \in Workspaces |-> [u \in Users |-> NoPresence]]
  /\ noTtl = {}
  /\ handler = [h \in Handlers |-> Free]
  /\ announced = [w \in Workspaces |-> {}]

IsFree(h) == handler[h].pc = None
Quiet == \A h \in Handlers : IsFree(h)

-----------------------------------------------------------------------------
(* Starting handlers                                                         *)

Handle(h, op, s, w, pc) ==
  /\ IsFree(h)
  /\ \A g \in Handlers : ~IsFree(g) =>
       (IF UserOf[handler[g].socket] = UserOf[s] THEN "sockets" ELSE "users") \in Behaviours
  /\ handler' = [handler EXCEPT ![h] = [Free EXCEPT !.op = op, !.pc = pc, !.socket = s, !.ws = w]]

handleConnection(s) ==
  /\ conn[s] = "new"
  /\ conn' = [conn EXCEPT ![s] = "open"]
  /\ UNCHANGED <<joined, rooms, session, members, userSockets, presence, noTtl, handler, announced>>

(* Without "elsewhere", a user's sockets only ever join one workspace.       *)
MayJoin(s, w) ==
  \/ "elsewhere" \in Behaviours
  \/ \A t \in Sockets : UserOf[t] = UserOf[s] => rooms[t] \subseteq {w} /\ session[t] \in {None, w}

(* client.join and client.data.workspaceId, then addUserSession; the         *)
(* workspaces joined before are not left.                                    *)
handleJoinWorkspace(h, s, w) ==
  /\ conn[s] = "open"
  /\ MayJoin(s, w)
  /\ Handle(h, "join", s, w, "setSession")
  /\ rooms' = [rooms EXCEPT ![s] = @ \union {w}]
  /\ joined' = [joined EXCEPT ![s] = w]
  /\ UNCHANGED <<conn, session, members, userSockets, presence, noTtl, announced>>

handleLeaveWorkspace(h, s) ==
  /\ "leave" \in Behaviours
  /\ conn[s] = "open"
  /\ Handle(h, "leave", s, None, "getLeaver")
  /\ UNCHANGED <<sockets, redis, announced>>

(* socket.io takes the socket out of its rooms before it calls the handler.  *)
handleDisconnect(h, s) ==
  /\ conn[s] = "open"
  /\ conn' = [conn EXCEPT ![s] = "closed"]
  /\ rooms' = [rooms EXCEPT ![s] = {}]
  /\ Handle(h, "disconnect", s, None, "getSession")
  /\ UNCHANGED <<joined, redis, announced>>

(* handleFileChange, handleCursorUpdate and handlePing update the activity   *)
(* before they emit; the first two are refused when the client did not join. *)
handleActivity(h, s) ==
  /\ conn[s] = "open"
  /\ Handle(h, "activity", s, None, "getActive")
  /\ UNCHANGED <<sockets, redis, announced>>

-----------------------------------------------------------------------------
(* Awaited Redis commands.  A handler h at pc issues one; on rejection the   *)
(* service catches, and the handler goes on at err.                          *)

At(h, pc) == handler[h].pc = pc
Goto(h, pc) == handler' = [handler EXCEPT ![h].pc = pc]
Finish(h) == handler' = [handler EXCEPT ![h] = Free]
Socket(h) == handler[h].socket
User(h) == UserOf[Socket(h)]
Ws(h) == handler[h].ws

(* A set that becomes empty is deleted by Redis, and its TTL with it.        *)
Persisting(key, set) == IF set = {} THEN noTtl \ {key} ELSE noTtl
(* SADD creates a key without TTL and keeps the TTL of one that exists.      *)
Created(key, set) == IF set = {} THEN noTtl \union {key} ELSE noTtl

(* addUserSession                                                            *)
SetSession(h) ==
  /\ At(h, "setSession")
  /\ session' = [session EXCEPT ![Socket(h)] = Ws(h)]
  /\ Goto(h, "addMember")
  /\ UNCHANGED <<members, userSockets, presence, noTtl>>

AddMember(h) ==
  /\ At(h, "addMember")
  /\ members' = [members EXCEPT ![Ws(h)] = @ \union {User(h)}]
  /\ noTtl' = Created(Ws(h), members[Ws(h)])
  /\ Goto(h, "expireMembers")
  /\ UNCHANGED <<session, userSockets, presence>>

ExpireMembers(h) ==
  /\ At(h, "expireMembers")
  /\ noTtl' = noTtl \ {Ws(h)}
  /\ Goto(h, "addSocket")
  /\ UNCHANGED <<session, members, userSockets, presence>>

AddSocket(h) ==
  /\ At(h, "addSocket")
  /\ userSockets' = [userSockets EXCEPT ![User(h)] = @ \union {Socket(h)}]
  /\ noTtl' = Created(User(h), userSockets[User(h)])
  /\ Goto(h, "expireSockets")
  /\ UNCHANGED <<session, members, presence>>

ExpireSockets(h) ==
  /\ At(h, "expireSockets")
  /\ noTtl' = noTtl \ {User(h)}
  /\ Goto(h, "setPresence")
  /\ UNCHANGED <<session, members, userSockets, presence>>

(* Mutant: SET in place of SETEX                                             *)
SetPresenceForever(h) ==
  /\ At(h, "setPresence")
  /\ presence' = [presence EXCEPT ![Ws(h)][User(h)] = [Recorded({Socket(h)}) EXCEPT !.expires = FALSE]]
  /\ Goto(h, "readMembers")
  /\ UNCHANGED <<session, members, userSockets, noTtl>>

(* The record is written afresh: socketIds holds this socket only.           *)
SetPresence(h) ==
  /\ At(h, "setPresence")
  /\ presence' = [presence EXCEPT ![Ws(h)][User(h)] = Recorded({Socket(h)})]
  /\ Goto(h, "readMembers")
  /\ UNCHANGED <<session, members, userSockets, noTtl>>

addUserSession(h) ==
  \/ SetSession(h) \/ AddMember(h) \/ ExpireMembers(h)
  \/ AddSocket(h) \/ ExpireSockets(h) \/ SetPresence(h)

(* removeUserSession                                                         *)
GetSession(h) ==
  /\ At(h, "getSession")
  /\ LET w == session[Socket(h)] IN
       IF w = None THEN Finish(h)
       ELSE handler' = [handler EXCEPT ![h].ws = w, ![h].pc = "delSession"]
  /\ UNCHANGED redis

DelSession(h) ==
  /\ At(h, "delSession")
  /\ session' = [session EXCEPT ![Socket(h)] = None]
  /\ Goto(h, "remSocket")
  /\ UNCHANGED <<members, userSockets, presence, noTtl>>

(* Mutant: the socket is not taken out of the user's set                     *)
RemSocketForgotten(h) == At(h, "remSocket") /\ Goto(h, "checkSockets") /\ UNCHANGED redis

RemSocket(h) ==
  LET left == userSockets[User(h)] \ {Socket(h)} IN
  /\ At(h, "remSocket")
  /\ userSockets' = [userSockets EXCEPT ![User(h)] = left]
  /\ noTtl' = Persisting(User(h), left)
  /\ Goto(h, "checkSockets")
  /\ UNCHANGED <<session, members, presence>>

(* Mutant: the sockets that remain are not looked at                         *)
CheckSocketsSkipped(h) == At(h, "checkSockets") /\ Goto(h, "remMember") /\ UNCHANGED redis

(* Does the user have other active sessions, in whatever workspace?          *)
CheckSockets(h) ==
  /\ At(h, "checkSockets")
  /\ Goto(h, IF userSockets[User(h)] = {} THEN "remMember" ELSE "getPresence")
  /\ UNCHANGED redis

RemMember(h) ==
  LET left == members[Ws(h)] \ {User(h)} IN
  /\ At(h, "remMember")
  /\ members' = [members EXCEPT ![Ws(h)] = left]
  /\ noTtl' = Persisting(Ws(h), left)
  /\ Goto(h, "delPresence")
  /\ UNCHANGED <<session, userSockets, presence>>

DelPresence(h) ==
  /\ At(h, "delPresence")
  /\ presence' = [presence EXCEPT ![Ws(h)][User(h)] = NoPresence]
  /\ Goto(h, "delSockets")
  /\ UNCHANGED <<session, members, userSockets, noTtl>>

DelSockets(h) ==
  /\ At(h, "delSockets")
  /\ userSockets' = [userSockets EXCEPT ![User(h)] = {}]
  /\ noTtl' = noTtl \ {User(h)}
  /\ Goto(h, "leaveRoom")
  /\ UNCHANGED <<session, members, presence>>

(* The presence record is read, changed, and written back by a later command.*)
GetPresence(h) ==
  LET p == presence[Ws(h)][User(h)] IN
  /\ At(h, "getPresence")
  /\ handler' = [handler EXCEPT ![h].ids = p.socketIds \ {Socket(h)},
                                ![h].pc = IF p.live THEN "putPresence" ELSE "leaveRoom"]
  /\ UNCHANGED redis

PutPresence(h) ==
  /\ At(h, "putPresence")
  /\ presence' = [presence EXCEPT ![Ws(h)][User(h)] = Recorded(handler[h].ids)]
  /\ handler' = [handler EXCEPT ![h].ids = {}, ![h].pc = "leaveRoom"]
  /\ UNCHANGED <<session, members, userSockets, noTtl>>

removeUserSession(h) ==
  \/ GetSession(h) \/ DelSession(h) \/ RemSocket(h) \/ CheckSockets(h) \/ RemMember(h)
  \/ DelPresence(h) \/ DelSockets(h) \/ GetPresence(h) \/ PutPresence(h)

(* updateUserActivity rewrites the session and the presence it read.         *)
GetActive(h) ==
  /\ At(h, "getActive")
  /\ LET w == session[Socket(h)] IN
       IF w = None THEN Finish(h)
       ELSE handler' = [handler EXCEPT ![h].ws = w, ![h].pc = "touchSession"]
  /\ UNCHANGED redis

TouchSession(h) ==
  /\ At(h, "touchSession")
  /\ session' = [session EXCEPT ![Socket(h)] = Ws(h)]
  /\ Goto(h, "getTouched")
  /\ UNCHANGED <<members, userSockets, presence, noTtl>>

GetTouched(h) ==
  LET p == presence[Ws(h)][User(h)] IN
  /\ At(h, "getTouched")
  /\ IF p.live THEN handler' = [handler EXCEPT ![h].ids = p.socketIds, ![h].pc = "putTouched"]
     ELSE Finish(h)
  /\ UNCHANGED redis

PutTouched(h) ==
  /\ At(h, "putTouched")
  /\ presence' = [presence EXCEPT ![Ws(h)][User(h)] = Recorded(handler[h].ids)]
  /\ Finish(h)
  /\ UNCHANGED <<session, members, userSockets, noTtl>>

updateUserActivity(h) == GetActive(h) \/ TouchSession(h) \/ GetTouched(h) \/ PutTouched(h)

(* getUserSession of handleLeaveWorkspace                                    *)
getUserSession(h) ==
  /\ At(h, "getLeaver")
  /\ LET w == session[Socket(h)] IN
       IF w = None THEN Finish(h)
       ELSE handler' = [handler EXCEPT ![h].ws = w, ![h].pc = "leaveRoom"]
  /\ UNCHANGED redis

(* Mutant: no special case for a workspace without users                     *)
ReadMembersAlways(h) ==
  /\ At(h, "readMembers")
  /\ handler' = [handler EXCEPT ![h].todo = members[Ws(h)], ![h].pc = "readPresence"]
  /\ UNCHANGED redis

(* getWorkspacePresence: the set, then each user's presence; the users whose *)
(* presence is missing are left out.                                         *)
ReadMembers(h) ==
  /\ At(h, "readMembers")
  /\ handler' = [handler EXCEPT ![h].todo = members[Ws(h)],
                                ![h].pc = IF members[Ws(h)] = {} THEN "broadcast" ELSE "readPresence"]
  /\ UNCHANGED redis

ReadPresence(h) ==
  /\ At(h, "readPresence")
  /\ \E u \in handler[h].todo :
       handler' = [handler EXCEPT
         ![h].todo = @ \ {u},
         ![h].found = IF presence[Ws(h)][u].live THEN @ \union {u} ELSE @,
         ![h].pc = IF handler[h].todo = {u} THEN "broadcast" ELSE "readPresence"]
  /\ UNCHANGED redis

getWorkspacePresence(h) == ReadMembers(h) \/ ReadPresence(h)

(* A rejected command: PresenceService catches the error and returns, null   *)
(* or an empty list where the caller wants a value.  A command that Redis    *)
(* ran before its answer was lost is that command and the next one rejected. *)
Rejected(h) ==
  /\ "redis" \in Behaviours
  /\ UNCHANGED redis
  /\ \/ /\ handler[h].pc \in {"setSession", "addMember", "expireMembers", "addSocket",
                              "expireSockets", "setPresence"}
        /\ Goto(h, "readMembers")
     \/ /\ handler[h].pc \in {"readMembers", "readPresence"}
        /\ handler' = [handler EXCEPT ![h].todo = {}, ![h].found = {}, ![h].pc = "broadcast"]
     \/ /\ handler[h].pc \notin {None, "setSession", "addMember", "expireMembers", "addSocket",
              "expireSockets", "setPresence", "readMembers", "readPresence", "leaveRoom", "broadcast"}
        /\ Finish(h)

-----------------------------------------------------------------------------
(* The handlers' own steps                                                   *)

(* handleUserLeave: client.leave, before the presence is read                *)
LeaveRoom(h) ==
  /\ At(h, "leaveRoom")
  /\ rooms' = [rooms EXCEPT ![Socket(h)] = @ \ {Ws(h)}]
  /\ Goto(h, "readMembers")
  /\ UNCHANGED <<conn, joined, redis, announced>>

(* handleJoinWorkspace's presence-updated                                    *)
AnnounceJoin(h) ==
  /\ At(h, "broadcast")
  /\ handler[h].op = "join"
  /\ announced' = [announced EXCEPT ![Ws(h)] = handler[h].found]
  /\ Finish(h)
  /\ UNCHANGED <<sockets, redis>>

(* Mutant: the remaining users are not told                                  *)
AnnounceLeaveSilent(h) ==
  /\ At(h, "broadcast")
  /\ handler[h].op # "join"
  /\ joined' = [joined EXCEPT ![Socket(h)] = None]
  /\ Finish(h)
  /\ UNCHANGED <<conn, rooms, redis, announced>>

(* Mutant: client.data.workspaceId survives the leave                        *)
AnnounceLeaveStillJoined(h) ==
  /\ At(h, "broadcast")
  /\ handler[h].op # "join"
  /\ announced' = [announced EXCEPT ![Ws(h)] = handler[h].found]
  /\ Finish(h)
  /\ UNCHANGED <<sockets, redis>>

(* handleUserLeave's, then client.data.workspaceId is deleted.               *)
AnnounceLeave(h) ==
  /\ At(h, "broadcast")
  /\ handler[h].op # "join"
  /\ announced' = [announced EXCEPT ![Ws(h)] = handler[h].found]
  /\ joined' = [joined EXCEPT ![Socket(h)] = None]
  /\ Finish(h)
  /\ UNCHANGED <<conn, rooms, redis>>

HandlerStep(h) ==
  \/ /\ \/ addUserSession(h) \/ removeUserSession(h) \/ updateUserActivity(h)
        \/ getUserSession(h) \/ getWorkspacePresence(h) \/ Rejected(h)
     /\ UNCHANGED <<sockets, announced>>
  \/ LeaveRoom(h) \/ AnnounceJoin(h) \/ AnnounceLeave(h)

-----------------------------------------------------------------------------
(* The environment                                                           *)

(* Keys reach their TTL at any time: how long a handler takes is not known.  *)
ExpireSession(s) ==
  /\ session[s] # None
  /\ session' = [session EXCEPT ![s] = None]
  /\ UNCHANGED <<members, userSockets, presence, noTtl>>

ExpireWorkspaceUsers(w) ==
  /\ members[w] # {} /\ w \notin noTtl
  /\ members' = [members EXCEPT ![w] = {}]
  /\ UNCHANGED <<session, userSockets, presence, noTtl>>

ExpireUserSessions(u) ==
  /\ userSockets[u] # {} /\ u \notin noTtl
  /\ userSockets' = [userSockets EXCEPT ![u] = {}]
  /\ UNCHANGED <<session, members, presence, noTtl>>

ExpirePresence(w, u) ==
  /\ presence[w][u].live /\ presence[w][u].expires
  /\ presence' = [presence EXCEPT ![w][u] = NoPresence]
  /\ UNCHANGED <<session, members, userSockets, noTtl>>

Expire ==
  /\ "expire" \in Behaviours
  /\ \/ \E s \in Sockets : ExpireSession(s)
     \/ \E w \in Workspaces : ExpireWorkspaceUsers(w)
     \/ \E u \in Users : ExpireUserSessions(u)
     \/ \E w \in Workspaces, u \in Users : ExpirePresence(w, u)
  /\ UNCHANGED <<sockets, handler, announced>>

(* An instance dies with the sockets it serves and their handlers; nothing   *)
(* cleans up after it.                                                       *)
Crash(served) ==
  /\ "crash" \in Behaviours
  /\ \E s \in served : conn[s] = "open"
  /\ conn' = [s \in Sockets |-> IF s \in served /\ conn[s] = "open" THEN "closed" ELSE conn[s]]
  /\ rooms' = [s \in Sockets |-> IF s \in served THEN {} ELSE rooms[s]]
  /\ joined' = [s \in Sockets |-> IF s \in served THEN None ELSE joined[s]]
  /\ handler' = [h \in Handlers |-> IF handler[h].socket \in served THEN Free ELSE handler[h]]
  /\ UNCHANGED <<redis, announced>>

Next ==
  \/ \E s \in Sockets : handleConnection(s)
  \/ \E h \in Handlers, s \in Sockets :
       \/ \E w \in Workspaces : handleJoinWorkspace(h, s, w)
       \/ handleLeaveWorkspace(h, s)
       \/ handleDisconnect(h, s)
       \/ handleActivity(h, s)
  \/ \E h \in Handlers : HandlerStep(h)
  \/ Expire
  \/ \E served \in SUBSET Sockets : Crash(served)

Spec == Init /\ [][Next]_vars

(* Redis answers or rejects every command, and once nobody is connected      *)
(* nothing refreshes a key that has a TTL.                                   *)
Fairness ==
  /\ \A h \in Handlers : WF_vars(HandlerStep(h))
  /\ WF_vars(Expire)

FairSpec == Spec /\ Fairness

-----------------------------------------------------------------------------
(* Properties                                                                *)

Commands == {"setSession", "addMember", "expireMembers", "addSocket", "expireSockets",
             "setPresence", "getSession", "delSession", "remSocket", "checkSockets",
             "remMember", "delPresence", "delSockets", "getPresence", "putPresence",
             "getActive", "touchSession", "getTouched", "putTouched", "getLeaver",
             "leaveRoom", "readMembers", "readPresence", "broadcast"}

(* Types; a handler waits for presence records exactly while users of the    *)
(* set it read (getWorkspaceActiveUsers) are left, else it would never end.  *)
TypeOK ==
  /\ conn \in [Sockets -> {"new", "open", "closed"}]
  /\ joined \in [Sockets -> Workspaces \union {None}]
  /\ rooms \in [Sockets -> SUBSET Workspaces]
  /\ session \in [Sockets -> Workspaces \union {None}]
  /\ members \in [Workspaces -> SUBSET Users]
  /\ userSockets \in [Users -> SUBSET Sockets]
  /\ presence \in [Workspaces -> [Users ->
       [live : BOOLEAN, expires : BOOLEAN, socketIds : SUBSET Sockets]]]
  /\ noTtl \subseteq Workspaces \union Users
  /\ handler \in [Handlers ->
       [op : {"join", "leave", "disconnect", "activity", None}, pc : Commands \union {None},
        socket : Sockets \union {None}, ws : Workspaces \union {None},
        todo : SUBSET Users, found : SUBSET Users, ids : SUBSET Sockets]]
  /\ announced \in [Workspaces -> SUBSET Users]
  /\ \A h \in Handlers : handler[h].todo # {} <=> At(h, "readPresence")

(* Who getWorkspacePresence answers, and who has a socket in the room.       *)
Listed(w) == {u \in members[w] : presence[w][u].live}
Active(w) == {UserOf[s] : s \in {t \in Sockets : conn[t] = "open" /\ w \in rooms[t]}}

(* When no handler runs, everybody with a connection in a workspace's room   *)
(* is among its active users: the last-session check of removeUserSession    *)
(* never removes a user who is still there.                                  *)
ActiveUsersAreListed == Quiet => \A w \in Workspaces : Active(w) \subseteq Listed(w)

(* When no handler runs, every active user of a workspace has a connection   *)
(* in its room: leaving or disconnecting removes the user's presence.        *)
ListedUsersAreActive == Quiet => \A w \in Workspaces : Listed(w) \subseteq Active(w)

(* user:<id>:sessions holds the user's sockets that have a session, neither  *)
(* more nor less: what removeUserSession takes for the sessions that remain. *)
SessionsAreCounted == Quiet =>
  \A u \in Users : userSockets[u] = {s \in Sockets : UserOf[s] = u /\ session[s] # None}

(* client.data.workspaceId, which admits file changes and cursor updates,    *)
(* names a workspace whose room the socket is in and that its stored session *)
(* names too, and no closed socket keeps a session: the gateway's per-socket *)
(* data and Redis agree after any joins, leaves and disconnects.             *)
SocketsAgreeWithSessions == Quiet => \A s \in Sockets :
  /\ joined[s] # None => joined[s] \in rooms[s] /\ session[s] = joined[s]
  /\ session[s] # None => conn[s] = "open"

(* The last presence-updated message of a workspace names its active users,  *)
(* so that the members who received it see who is there.                     *)
AnnouncementIsCurrent == Quiet => \A w \in Workspaces :
  Active(w) # {} => announced[w] = Listed(w)

(* Once every connection is closed nobody is listed for ever, whatever was   *)
(* lost, interrupted or interleaved: the TTL of the presence records.        *)
EventuallyNobody ==
  (\A s \in Sockets : conn[s] = "closed") ~> (\A w \in Workspaces : Listed(w) = {})
=============================================================================
