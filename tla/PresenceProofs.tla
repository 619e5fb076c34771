--------------------------- MODULE PresenceProofs ---------------------------
(* Theorems about Presence, for any number of sockets, users, workspaces and *)
(* handlers: the types under every behaviour of clients and environment, and *)
(* what holds when no handler runs, as long as the handlers of one user do   *)
(* not overlap and Redis loses nothing.                                      *)
EXTENDS Presence, TLAPS

-----------------------------------------------------------------------------
(* Handlers                                                                  *)

Ops == {"join", "leave", "disconnect", "activity"}
Joining == {"setSession", "addMember", "expireMembers", "addSocket", "expireSockets", "setPresence"}
Removing == {"delSession", "remSocket", "checkSockets", "remMember", "delPresence", "delSockets",
             "getPresence", "putPresence"}
Touching == {"touchSession", "getTouched", "putTouched"}
Asking == {"getSession", "getActive", "getLeaver"}
Reading == {"readMembers", "readPresence", "broadcast"}

Slots == [op : Ops \union {None}, pc : Commands \union {None},
          socket : Sockets \union {None}, ws : Workspaces \union {None},
          todo : SUBSET Users, found : SUBSET Users, ids : SUBSET Sockets]

(* The steps of each kind of handler.                                        *)
StepsOf(op) ==
  CASE op = "join" -> Joining \union Reading
    [] op = "leave" -> {"getLeaver", "leaveRoom"} \union Reading
    [] op = "disconnect" -> {"getSession", "leaveRoom"} \union Removing \union Reading
    [] op = "activity" -> {"getActive"} \union Touching
    [] OTHER -> {}

HandlerTyped(h) ==
  /\ handler[h].pc = None => handler[h] = Free
  /\ handler[h].pc # None => handler[h].socket \in Sockets /\ handler[h].pc \in StepsOf(handler[h].op)
  /\ handler[h].pc \notin Asking \union {None} => handler[h].ws \in Workspaces
  /\ handler[h].todo # {} <=> handler[h].pc = "readPresence"

HandlersTyped == handler \in [Handlers -> Slots] /\ \A h \in Handlers : HandlerTyped(h)

SocketsTyped == /\ conn \in [Sockets -> {"new", "open", "closed"}]
                /\ joined \in [Sockets -> Workspaces \union {None}]
                /\ rooms \in [Sockets -> SUBSET Workspaces]
Records == [live : BOOLEAN, expires : BOOLEAN, socketIds : SUBSET Sockets]
RedisTyped == /\ session \in [Sockets -> Workspaces \union {None}]
              /\ members \in [Workspaces -> SUBSET Users]
              /\ userSockets \in [Users -> SUBSET Sockets]
              /\ presence \in [Workspaces -> [Users -> Records]]
              /\ noTtl \subseteq Workspaces \union Users
AnnouncedTyped == announced \in [Workspaces -> SUBSET Users]

TypeInv == HandlersTyped /\ SocketsTyped /\ RedisTyped /\ AnnouncedTyped

LEMMA FreeIsTyped == Free \in Slots /\ Free.pc = None /\ Free.op = None /\ Free.socket = None /\ Free.todo = {}
  BY DEF Free, Slots

LEMMA TypeInvMeansTypeOK == TypeInv => TypeOK
  BY DEF TypeInv, TypeOK, HandlersTyped, HandlerTyped, SocketsTyped, RedisTyped, AnnouncedTyped, Slots, Ops,
         Records, At

LEMMA TypeInit == Init => TypeInv
  <1> SUFFICES ASSUME Init PROVE TypeInv
    OBVIOUS
  <1>1. HandlersTyped
    BY FreeIsTyped DEF Init, HandlersTyped, HandlerTyped, Asking, None
  <1>2. SocketsTyped /\ AnnouncedTyped
    BY DEF Init, SocketsTyped, AnnouncedTyped
  <1>3. NoPresence \in Records
    BY DEF NoPresence, Records
  <1>4. RedisTyped
    BY <1>3 DEF Init, RedisTyped
  <1> QED BY <1>1, <1>2, <1>4 DEF TypeInv

(* Handler h goes on at p; or it ends.                                       *)
Goes(h, p) ==
  /\ handler' \in [Handlers -> Slots]
  /\ handler'[h].pc = p /\ handler'[h].op = handler[h].op /\ handler'[h].socket = handler[h].socket
  /\ \A g \in Handlers : g # h => handler'[g] = handler[g]
Keeps(h) == /\ handler'[h].ws = handler[h].ws /\ handler'[h].todo = handler[h].todo
            /\ handler'[h].found = handler[h].found
Ends(h) ==
  /\ handler' \in [Handlers -> Slots] /\ handler'[h] = Free
  /\ \A g \in Handlers : g # h => handler'[g] = handler[g]

LEMMA GotoGoes ==
  ASSUME TypeInv, NEW h \in Handlers, NEW p \in Commands, Goto(h, p)
  PROVE  Goes(h, p) /\ Keeps(h)
  BY DEF Goto, Goes, Keeps, TypeInv, HandlersTyped, Slots

LEMMA FinishEnds ==
  ASSUME TypeInv, NEW h \in Handlers, Finish(h)
  PROVE  Ends(h)
  BY FreeIsTyped DEF Finish, Ends, TypeInv, HandlersTyped

LEMMA CommandsListed == Commands = Joining \union Removing \union Touching \union Asking \union Reading \union {"leaveRoom"}
  BY DEF Commands, Joining, Removing, Touching, Asking, Reading

(* A handler that goes on is typed if its next step is one of its kind.      *)
LEMMA GoesTyped ==
  ASSUME TypeInv, NEW h \in Handlers, handler[h].pc # None, NEW p \in Commands, Goes(h, p),
         p \in StepsOf(handler[h].op), handler'[h].todo # {} <=> p = "readPresence",
         p \notin Asking => handler'[h].ws \in Workspaces
  PROVE  HandlersTyped'
  <1>1. p # None
    BY DEF Commands, None
  <1>2. HandlerTyped(h)'
    BY <1>1 DEF Goes, HandlerTyped, TypeInv, HandlersTyped
  <1>3. \A g \in Handlers : g # h => HandlerTyped(g)'
    BY DEF Goes, HandlerTyped, TypeInv, HandlersTyped
  <1> QED BY <1>2, <1>3 DEF HandlersTyped, Goes

LEMMA EndsTyped ==
  ASSUME TypeInv, NEW h \in Handlers, Ends(h)
  PROVE  HandlersTyped'
  <1>2. HandlerTyped(h)'
    BY FreeIsTyped DEF Ends, HandlerTyped, Asking, None
  <1>3. \A g \in Handlers : g # h => HandlerTyped(g)'
    BY DEF Ends, HandlerTyped, TypeInv, HandlersTyped
  <1> QED BY <1>2, <1>3 DEF HandlersTyped, Ends

-----------------------------------------------------------------------------
(* Types                                                                     *)

(* What a plain Goto preserves: a step of the handler's kind comes next.     *)
LEMMA GotoTyped ==
  ASSUME TypeInv, NEW h \in Handlers, NEW p \in Commands, Goto(h, p),
         handler[h].pc \notin Asking \union {None, "readPresence"}, p \notin {"readPresence"},
         p \in StepsOf(handler[h].op)
  PROVE  HandlersTyped'
  <1>1. Goes(h, p) /\ Keeps(h)
    BY GotoGoes
  <1>2. handler[h].ws \in Workspaces /\ handler[h].todo = {}
    BY DEF TypeInv, HandlersTyped, HandlerTyped
  <1> QED BY <1>1, <1>2, GoesTyped DEF Keeps

LEMMA HandlerAt ==
  ASSUME TypeInv, NEW h \in Handlers, handler[h].pc # None
  PROVE  /\ handler[h] \in Slots /\ handler[h].op \in Ops /\ handler[h].pc \in StepsOf(handler[h].op)
         /\ Socket(h) \in Sockets /\ User(h) \in Users
         /\ handler[h].pc \notin Asking => Ws(h) \in Workspaces
  <1>1. handler[h] \in Slots /\ HandlerTyped(h)
    BY DEF TypeInv, HandlersTyped
  <1>2. handler[h].op \in Ops
    BY <1>1 DEF HandlerTyped, StepsOf, Ops
  <1> QED BY <1>1, <1>2, UserOfAssumption DEF HandlerTyped, Socket, User, Ws

(* What the steps of each kind are followed by, for the handlers that can be *)
(* at them.                                                                  *)
LEMMA KindsOfSteps ==
  ASSUME NEW op \in Ops, NEW pc \in StepsOf(op)
  PROVE  /\ pc \in Commands /\ pc # None
         /\ pc \in Joining => op = "join"
         /\ pc \in Removing \union {"getSession"} => op = "disconnect"
         /\ pc \in Touching \union {"getActive"} => op = "activity"
         /\ pc = "getLeaver" => op = "leave"
         /\ pc = "leaveRoom" => op \in {"leave", "disconnect"}
         /\ pc \in Reading => op \in {"join", "leave", "disconnect"}
  BY DEF Ops, StepsOf, Joining, Removing, Touching, Asking, Reading, Commands, None

LEMMA StepsOfKinds ==
  /\ StepsOf("join") = Joining \union Reading
  /\ StepsOf("leave") = {"getLeaver", "leaveRoom"} \union Reading
  /\ StepsOf("disconnect") = {"getSession", "leaveRoom"} \union Removing \union Reading
  /\ StepsOf("activity") = {"getActive"} \union Touching
  BY DEF StepsOf

LEMMA JoiningTyped ==
  ASSUME TypeInv, NEW h \in Handlers, addUserSession(h)
  PROVE  HandlersTyped' /\ RedisTyped'
  <1>1. handler[h].pc \in Joining /\ handler[h].pc # None
    BY DEF addUserSession, SetSession, AddMember, ExpireMembers, AddSocket, ExpireSockets, SetPresence, At,
           Joining, None
  <1>2. Socket(h) \in Sockets /\ User(h) \in Users /\ Ws(h) \in Workspaces
    BY <1>1, HandlerAt DEF Asking, Joining
  <1>3. StepsOf(handler[h].op) = Joining \union Reading
    BY <1>1, HandlerAt, KindsOfSteps, StepsOfKinds
  <1>4. ASSUME NEW p \in (Joining \union {"readMembers"}), Goto(h, p)
        PROVE  HandlersTyped'
    BY <1>1, <1>3, <1>4, GotoTyped DEF Joining, Reading, Asking, Commands, None
  <1>5. HandlersTyped'
    BY <1>4 DEF addUserSession, SetSession, AddMember, ExpireMembers, AddSocket, ExpireSockets, SetPresence,
                Joining
  <1>6. RedisTyped
    BY DEF TypeInv
  <1>7. CASE SetSession(h)
    BY <1>2, <1>5, <1>6, <1>7 DEF SetSession, RedisTyped
  <1>8. CASE AddMember(h)
    BY <1>2, <1>5, <1>6, <1>8 DEF AddMember, RedisTyped, Created
  <1>9. CASE ExpireMembers(h)
    BY <1>2, <1>5, <1>6, <1>9 DEF ExpireMembers, RedisTyped
  <1>10. CASE AddSocket(h)
    BY <1>2, <1>5, <1>6, <1>10 DEF AddSocket, RedisTyped, Created
  <1>11. CASE ExpireSockets(h)
    BY <1>2, <1>5, <1>6, <1>11 DEF ExpireSockets, RedisTyped
  <1>12. CASE SetPresence(h)
    <2>1. Recorded({Socket(h)}) \in Records
      BY <1>2 DEF Recorded, Records
    <2> QED BY <1>2, <1>5, <1>6, <1>12, <2>1 DEF SetPresence, RedisTyped
  <1> QED BY <1>7, <1>8, <1>9, <1>10, <1>11, <1>12 DEF addUserSession

LEMMA RemovingTyped ==
  ASSUME TypeInv, NEW h \in Handlers, removeUserSession(h)
  PROVE  HandlersTyped' /\ RedisTyped'
  <1>1. handler[h].pc \in Removing \union {"getSession"} /\ handler[h].pc # None
    BY DEF removeUserSession, GetSession, DelSession, RemSocket, CheckSockets, RemMember, DelPresence,
           DelSockets, GetPresence, PutPresence, At, Removing, None
  <1>2. /\ handler[h] \in Slots /\ Socket(h) \in Sockets /\ User(h) \in Users
        /\ handler[h].pc \in Removing => Ws(h) \in Workspaces
        /\ handler[h].todo = {}
    BY <1>1, HandlerAt DEF Asking, Removing, TypeInv, HandlersTyped, HandlerTyped
  <1>3. StepsOf(handler[h].op) = {"getSession", "leaveRoom"} \union Removing \union Reading
    BY <1>1, HandlerAt, KindsOfSteps, StepsOfKinds
  <1>4. ASSUME NEW p \in (Removing \union {"leaveRoom"}), Goto(h, p), handler[h].pc \in Removing
        PROVE  HandlersTyped'
    BY <1>1, <1>3, <1>4, GotoTyped DEF Removing, Asking, Commands, None
  <1>6. RedisTyped
    BY DEF TypeInv
  <1>7. CASE GetSession(h)
    <2>1. RedisTyped'
      BY <1>6, <1>7 DEF GetSession, redis, RedisTyped
    <2>2. CASE session[Socket(h)] = None
      BY <1>7, <2>1, <2>2, FinishEnds, EndsTyped DEF GetSession
    <2>3. CASE session[Socket(h)] # None
      <3>1. session[Socket(h)] \in Workspaces
        BY <1>2, <1>6, <2>3 DEF RedisTyped
      <3>2. Goes(h, "delSession") /\ handler'[h].ws = session[Socket(h)] /\ handler'[h].todo = {}
        BY <1>2, <1>7, <2>3, <3>1 DEF GetSession, Goes, Slots, Commands, TypeInv, HandlersTyped
      <3> QED BY <1>1, <1>3, <2>1, <3>1, <3>2, GoesTyped DEF Removing, Commands
    <2> QED BY <2>2, <2>3
  <1>8. CASE DelSession(h)
    BY <1>2, <1>4, <1>6, <1>8 DEF DelSession, RedisTyped, At, Removing
  <1>9. CASE RemSocket(h)
    BY <1>2, <1>4, <1>6, <1>9 DEF RemSocket, RedisTyped, At, Removing, Persisting
  <1>10. CASE CheckSockets(h)
    BY <1>2, <1>4, <1>6, <1>10 DEF CheckSockets, RedisTyped, redis, At, Removing
  <1>11. CASE RemMember(h)
    BY <1>2, <1>4, <1>6, <1>11 DEF RemMember, RedisTyped, At, Removing, Persisting
  <1>12. CASE DelPresence(h)
    <2>1. NoPresence \in Records
      BY DEF NoPresence, Records
    <2> QED BY <1>2, <1>4, <1>6, <1>12, <2>1 DEF DelPresence, RedisTyped, At, Removing
  <1>13. CASE DelSockets(h)
    BY <1>2, <1>4, <1>6, <1>13 DEF DelSockets, RedisTyped, At, Removing
  <1>14. CASE GetPresence(h)
    <2>1. PICK p \in {"putPresence", "leaveRoom"} :
            handler' = [handler EXCEPT ![h].ids = presence[Ws(h)][User(h)].socketIds \ {Socket(h)}, ![h].pc = p]
      BY <1>14 DEF GetPresence
    <2>2. presence[Ws(h)][User(h)].socketIds \subseteq Sockets
      BY <1>2, <1>6, <1>14 DEF RedisTyped, Records, GetPresence, At, Removing
    <2>3. Goes(h, p) /\ Keeps(h)
      BY <1>2, <2>1, <2>2 DEF Goes, Keeps, Slots, Commands, TypeInv, HandlersTyped
    <2>4. RedisTyped'
      BY <1>6, <1>14 DEF GetPresence, redis, RedisTyped
    <2>5. Ws(h) \in Workspaces
      BY <1>2, <1>14 DEF GetPresence, At, Removing
    <2> QED BY <1>1, <1>2, <1>3, <2>3, <2>4, <2>5, GoesTyped DEF Keeps, Removing, Commands, Ws
  <1>15. CASE PutPresence(h)
    <2>1. Ws(h) \in Workspaces
      BY <1>2, <1>15 DEF PutPresence, At, Removing
    <2>2. Recorded(handler[h].ids) \in Records
      BY <1>2 DEF Recorded, Records, Slots
    <2>3. Goes(h, "leaveRoom") /\ Keeps(h)
      BY <1>2, <1>15 DEF PutPresence, Goes, Keeps, Slots, Commands, TypeInv, HandlersTyped
    <2>4. RedisTyped'
      BY <1>2, <1>6, <1>15, <2>1, <2>2 DEF PutPresence, RedisTyped
    <2> QED BY <1>1, <1>2, <1>3, <2>3, <2>4, <2>1, GoesTyped DEF Keeps, Removing, Commands, Ws
  <1> QED BY <1>7, <1>8, <1>9, <1>10, <1>11, <1>12, <1>13, <1>14, <1>15 DEF removeUserSession

LEMMA TouchingTyped ==
  ASSUME TypeInv, NEW h \in Handlers, updateUserActivity(h)
  PROVE  HandlersTyped' /\ RedisTyped'
  <1>1. handler[h].pc \in Touching \union {"getActive"} /\ handler[h].pc # None
    BY DEF updateUserActivity, GetActive, TouchSession, GetTouched, PutTouched, At, Touching, None
  <1>2. /\ handler[h] \in Slots /\ Socket(h) \in Sockets /\ User(h) \in Users
        /\ handler[h].pc \in Touching => Ws(h) \in Workspaces
        /\ handler[h].todo = {}
    BY <1>1, HandlerAt DEF Asking, Touching, TypeInv, HandlersTyped, HandlerTyped
  <1>3. StepsOf(handler[h].op) = {"getActive"} \union Touching
    BY <1>1, HandlerAt, KindsOfSteps, StepsOfKinds
  <1>4. RedisTyped
    BY DEF TypeInv
  <1>5. CASE GetActive(h)
    <2>1. RedisTyped'
      BY <1>4, <1>5 DEF GetActive, redis, RedisTyped
    <2>2. CASE session[Socket(h)] = None
      BY <1>5, <2>1, <2>2, FinishEnds, EndsTyped DEF GetActive
    <2>3. CASE session[Socket(h)] # None
      <3>1. session[Socket(h)] \in Workspaces
        BY <1>2, <1>4, <2>3 DEF RedisTyped
      <3>2. Goes(h, "touchSession") /\ handler'[h].ws = session[Socket(h)] /\ handler'[h].todo = {}
        BY <1>2, <1>5, <2>3, <3>1 DEF GetActive, Goes, Slots, Commands, TypeInv, HandlersTyped
      <3> QED BY <1>1, <1>3, <2>1, <3>1, <3>2, GoesTyped DEF Touching, Commands
    <2> QED BY <2>2, <2>3
  <1>6. CASE TouchSession(h)
    <2>1. HandlersTyped'
      BY <1>1, <1>3, <1>6, GotoTyped DEF TouchSession, At, Touching, Asking, Commands, None
    <2> QED BY <1>2, <1>4, <1>6, <2>1 DEF TouchSession, RedisTyped, At, Touching
  <1>7. CASE GetTouched(h)
    <2>1. RedisTyped'
      BY <1>4, <1>7 DEF GetTouched, redis, RedisTyped
    <2>2. Ws(h) \in Workspaces
      BY <1>2, <1>7 DEF GetTouched, At, Touching
    <2>3. CASE presence[Ws(h)][User(h)].live
      <3>1. presence[Ws(h)][User(h)].socketIds \subseteq Sockets
        BY <1>2, <1>4, <2>2 DEF RedisTyped, Records
      <3>2. Goes(h, "putTouched") /\ Keeps(h)
        BY <1>2, <1>7, <2>3, <3>1 DEF GetTouched, Goes, Keeps, Slots, Commands, TypeInv, HandlersTyped
      <3> QED BY <1>1, <1>2, <1>3, <2>1, <2>2, <3>2, GoesTyped DEF Keeps, Touching, Commands, Ws
    <2>4. CASE ~presence[Ws(h)][User(h)].live
      BY <1>7, <2>1, <2>4, FinishEnds, EndsTyped DEF GetTouched
    <2> QED BY <2>3, <2>4
  <1>8. CASE PutTouched(h)
    <2>1. Ws(h) \in Workspaces
      BY <1>2, <1>8 DEF PutTouched, At, Touching
    <2>2. Recorded(handler[h].ids) \in Records
      BY <1>2 DEF Recorded, Records, Slots
    <2>3. HandlersTyped'
      BY <1>8, FinishEnds, EndsTyped DEF PutTouched
    <2> QED BY <1>2, <1>4, <1>8, <2>1, <2>2, <2>3 DEF PutTouched, RedisTyped
  <1> QED BY <1>5, <1>6, <1>7, <1>8 DEF updateUserActivity

LEMMA LeavingTyped ==
  ASSUME TypeInv, NEW h \in Handlers, getUserSession(h)
  PROVE  HandlersTyped' /\ RedisTyped'
  <1>1. handler[h].pc = "getLeaver" /\ handler[h].pc # None
    BY DEF getUserSession, At, None
  <1>2. /\ handler[h] \in Slots /\ Socket(h) \in Sockets /\ handler[h].todo = {}
    BY <1>1, HandlerAt DEF TypeInv, HandlersTyped, HandlerTyped
  <1>3. StepsOf(handler[h].op) = {"getLeaver", "leaveRoom"} \union Reading
    BY <1>1, HandlerAt, KindsOfSteps, StepsOfKinds
  <1>4. RedisTyped /\ RedisTyped'
    BY DEF TypeInv, getUserSession, redis, RedisTyped
  <1>5. CASE session[Socket(h)] = None
    BY <1>4, <1>5, FinishEnds, EndsTyped DEF getUserSession
  <1>6. CASE session[Socket(h)] # None
    <2>1. session[Socket(h)] \in Workspaces
      BY <1>2, <1>4, <1>6 DEF RedisTyped
    <2>2. Goes(h, "leaveRoom") /\ handler'[h].ws = session[Socket(h)] /\ handler'[h].todo = {}
      BY <1>2, <1>6, <2>1 DEF getUserSession, Goes, Slots, Commands, TypeInv, HandlersTyped
    <2> QED BY <1>1, <1>3, <1>4, <2>1, <2>2, GoesTyped DEF Commands
  <1> QED BY <1>5, <1>6

LEMMA ReadingTyped ==
  ASSUME TypeInv, NEW h \in Handlers, getWorkspacePresence(h)
  PROVE  HandlersTyped' /\ RedisTyped'
  <1>1. handler[h].pc \in {"readMembers", "readPresence"} /\ handler[h].pc # None
    BY DEF getWorkspacePresence, ReadMembers, ReadPresence, At, None
  <1>2. handler[h] \in Slots /\ Ws(h) \in Workspaces
    BY <1>1, HandlerAt DEF Asking
  <1>3. Reading \subseteq StepsOf(handler[h].op)
    BY <1>1, HandlerAt, KindsOfSteps, StepsOfKinds DEF Reading
  <1>4. RedisTyped /\ RedisTyped'
    BY DEF TypeInv, getWorkspacePresence, ReadMembers, ReadPresence, redis, RedisTyped
  <1>5. CASE ReadMembers(h)
    <2>1. members[Ws(h)] \subseteq Users
      BY <1>2, <1>4 DEF RedisTyped
    <2>2. PICK p \in {"broadcast", "readPresence"} :
            /\ handler' = [handler EXCEPT ![h].todo = members[Ws(h)], ![h].pc = p]
            /\ p = "broadcast" <=> members[Ws(h)] = {}
      BY <1>5 DEF ReadMembers
    <2>3. /\ Goes(h, p) /\ handler'[h].ws = handler[h].ws /\ handler'[h].todo = members[Ws(h)]
      BY <1>2, <2>1, <2>2 DEF Goes, Slots, Commands, TypeInv, HandlersTyped
    <2> QED BY <1>1, <1>2, <1>3, <1>4, <2>2, <2>3, GoesTyped DEF Reading, Commands, Ws
  <1>6. CASE ReadPresence(h)
    <2>1. PICK u \in handler[h].todo :
            handler' = [handler EXCEPT
              ![h].todo = @ \ {u},
              ![h].found = IF presence[Ws(h)][u].live THEN @ \union {u} ELSE @,
              ![h].pc = IF handler[h].todo = {u} THEN "broadcast" ELSE "readPresence"]
      BY <1>6 DEF ReadPresence
    <2>2. PICK p \in {"broadcast", "readPresence"} : p = IF handler[h].todo = {u} THEN "broadcast" ELSE "readPresence"
      OBVIOUS
    <2>3. PICK f \in SUBSET Users : f = IF presence[Ws(h)][u].live THEN handler[h].found \union {u} ELSE handler[h].found
      BY <1>2 DEF Slots
    <2>4. handler[h].todo \subseteq Users
      BY <1>2 DEF Slots
    <2>5. handler' = [handler EXCEPT ![h] = [@ EXCEPT !.todo = handler[h].todo \ {u}, !.found = f, !.pc = p]]
      BY <2>1, <2>2, <2>3
    <2>6. Goes(h, p) /\ handler'[h].ws = handler[h].ws /\ handler'[h].todo = handler[h].todo \ {u}
      BY <1>2, <2>4, <2>5 DEF Goes, Slots, Commands, TypeInv, HandlersTyped
    <2>7. handler'[h].todo # {} <=> p = "readPresence"
      BY <2>2, <2>6
    <2> QED BY <1>1, <1>2, <1>3, <1>4, <2>6, <2>7, GoesTyped DEF Reading, Commands, Ws
  <1> QED BY <1>5, <1>6 DEF getWorkspacePresence

LEMMA RejectionTyped ==
  ASSUME TypeInv, NEW h \in Handlers, Rejected(h)
  PROVE  HandlersTyped' /\ RedisTyped'
  <1>1. RedisTyped /\ RedisTyped'
    BY DEF TypeInv, Rejected, redis, RedisTyped
  <1>2. CASE handler[h].pc \in Joining /\ Goto(h, "readMembers")
    <2>1. StepsOf(handler[h].op) = Joining \union Reading
      BY <1>2, HandlerAt, KindsOfSteps, StepsOfKinds DEF Joining, None
    <2> QED BY <1>1, <1>2, <2>1, GotoTyped DEF Joining, Reading, Asking, Commands, None
  <1>3. CASE /\ handler[h].pc \in {"readMembers", "readPresence"}
             /\ handler' = [handler EXCEPT ![h].todo = {}, ![h].found = {}, ![h].pc = "broadcast"]
    <2>1. handler[h].pc # None /\ handler[h].pc \notin Asking
      BY <1>3 DEF None, Asking
    <2>2. handler[h] \in Slots /\ Ws(h) \in Workspaces
      BY <2>1, HandlerAt
    <2>3. Reading \subseteq StepsOf(handler[h].op)
      BY <1>3, <2>1, HandlerAt, KindsOfSteps, StepsOfKinds DEF Reading
    <2>4. Goes(h, "broadcast") /\ handler'[h].ws = handler[h].ws /\ handler'[h].todo = {}
      BY <1>3, <2>2 DEF Goes, Slots, Commands, TypeInv, HandlersTyped
    <2> QED BY <1>1, <2>1, <2>2, <2>3, <2>4, GoesTyped DEF Reading, Commands, Ws
  <1>4. CASE Finish(h)
    BY <1>1, <1>4, FinishEnds, EndsTyped
  <1> QED BY <1>2, <1>3, <1>4 DEF Rejected, Joining

LEMMA OwnStepsTyped ==
  ASSUME TypeInv, NEW h \in Handlers, LeaveRoom(h) \/ AnnounceJoin(h) \/ AnnounceLeave(h)
  PROVE  TypeInv'
  <1>1. handler[h].pc \in {"leaveRoom", "broadcast"} /\ handler[h].pc # None
    BY DEF LeaveRoom, AnnounceJoin, AnnounceLeave, At, None
  <1>2. handler[h] \in Slots /\ Socket(h) \in Sockets /\ Ws(h) \in Workspaces
    BY <1>1, HandlerAt DEF Asking
  <1>3. RedisTyped /\ SocketsTyped /\ AnnouncedTyped
    BY DEF TypeInv
  <1>4. RedisTyped'
    BY <1>3 DEF LeaveRoom, AnnounceJoin, AnnounceLeave, redis, RedisTyped
  <1>5. CASE LeaveRoom(h)
    <2>1. Reading \subseteq StepsOf(handler[h].op)
      BY <1>1, HandlerAt, KindsOfSteps, StepsOfKinds DEF Reading
    <2>2. HandlersTyped'
      BY <1>1, <1>5, <2>1, GotoTyped DEF LeaveRoom, At, Reading, Asking, Commands, None
    <2>3. SocketsTyped' /\ AnnouncedTyped'
      BY <1>2, <1>3, <1>5 DEF LeaveRoom, SocketsTyped, AnnouncedTyped
    <2> QED BY <1>4, <2>2, <2>3 DEF TypeInv
  <1>6. CASE AnnounceJoin(h) \/ AnnounceLeave(h)
    <2>1. HandlersTyped'
      BY <1>6, FinishEnds, EndsTyped DEF AnnounceJoin, AnnounceLeave
    <2>2. AnnouncedTyped'
      BY <1>2, <1>3, <1>6 DEF AnnounceJoin, AnnounceLeave, AnnouncedTyped, Slots
    <2>3. SocketsTyped'
      BY <1>2, <1>3, <1>6 DEF AnnounceJoin, AnnounceLeave, SocketsTyped, sockets
    <2> QED BY <1>4, <2>1, <2>2, <2>3 DEF TypeInv
  <1> QED BY <1>5, <1>6

LEMMA HandlerStepTyped ==
  ASSUME TypeInv, NEW h \in Handlers, HandlerStep(h)
  PROVE  TypeInv'
  <1>1. CASE /\ \/ addUserSession(h) \/ removeUserSession(h) \/ updateUserActivity(h)
                \/ getUserSession(h) \/ getWorkspacePresence(h) \/ Rejected(h)
             /\ UNCHANGED <<sockets, announced>>
    <2>1. HandlersTyped' /\ RedisTyped'
      BY <1>1, JoiningTyped, RemovingTyped, TouchingTyped, LeavingTyped, ReadingTyped, RejectionTyped
    <2>2. SocketsTyped' /\ AnnouncedTyped'
      BY <1>1 DEF TypeInv, SocketsTyped, AnnouncedTyped, sockets
    <2> QED BY <2>1, <2>2 DEF TypeInv
  <1> QED BY <1>1, OwnStepsTyped DEF HandlerStep

(* A handler that starts.                                                    *)
LEMMA HandleTyped ==
  ASSUME TypeInv, NEW h \in Handlers, NEW op \in Ops, NEW s \in Sockets, NEW w \in Workspaces \union {None},
         NEW pc \in StepsOf(op), Handle(h, op, s, w, pc), pc # "readPresence",
         pc \notin Asking => w \in Workspaces
  PROVE  HandlersTyped'
  <1>1. pc \in Commands /\ pc # None
    BY KindsOfSteps
  <1>2. /\ handler' \in [Handlers -> Slots] /\ \A g \in Handlers : g # h => handler'[g] = handler[g]
        /\ handler'[h] = [Free EXCEPT !.op = op, !.pc = pc, !.socket = s, !.ws = w]
    BY <1>1, FreeIsTyped DEF Handle, TypeInv, HandlersTyped, Slots
  <1>3. /\ handler'[h].op = op /\ handler'[h].pc = pc /\ handler'[h].socket = s /\ handler'[h].ws = w
        /\ handler'[h].todo = {}
    BY <1>2 DEF Free
  <1>4. HandlerTyped(h)'
    BY <1>1, <1>3 DEF HandlerTyped
  <1>5. \A g \in Handlers : g # h => HandlerTyped(g)'
    BY <1>2 DEF HandlerTyped, TypeInv, HandlersTyped
  <1> QED BY <1>2, <1>4, <1>5 DEF HandlersTyped

LEMMA ClientStepTyped ==
  ASSUME TypeInv, NEW h \in Handlers, NEW s \in Sockets,
         \/ \E w \in Workspaces : handleJoinWorkspace(h, s, w)
         \/ handleLeaveWorkspace(h, s) \/ handleDisconnect(h, s) \/ handleActivity(h, s)
  PROVE  TypeInv'
  <1>1. RedisTyped /\ SocketsTyped /\ AnnouncedTyped
    BY DEF TypeInv
  <1>2. RedisTyped' /\ AnnouncedTyped'
    BY <1>1 DEF handleJoinWorkspace, handleLeaveWorkspace, handleDisconnect, handleActivity, redis, RedisTyped,
                AnnouncedTyped
  <1>3. CASE \E w \in Workspaces : handleJoinWorkspace(h, s, w)
    <2>1. PICK w \in Workspaces : handleJoinWorkspace(h, s, w)
      BY <1>3
    <2>2. "setSession" \in StepsOf("join") /\ "join" \in Ops
      BY StepsOfKinds DEF Joining, Ops
    <2>3. HandlersTyped'
      BY <2>1, <2>2, HandleTyped DEF handleJoinWorkspace
    <2>4. SocketsTyped'
      BY <1>1, <2>1 DEF handleJoinWorkspace, SocketsTyped
    <2> QED BY <1>2, <2>3, <2>4 DEF TypeInv
  <1>4. CASE handleLeaveWorkspace(h, s)
    <2>1. "getLeaver" \in StepsOf("leave") /\ "leave" \in Ops
      BY StepsOfKinds DEF Ops
    <2>2. HandlersTyped'
      BY <1>4, <2>1, HandleTyped DEF handleLeaveWorkspace, Asking
    <2> QED BY <1>1, <1>2, <1>4, <2>2 DEF TypeInv, handleLeaveWorkspace, sockets, SocketsTyped
  <1>5. CASE handleDisconnect(h, s)
    <2>1. "getSession" \in StepsOf("disconnect") /\ "disconnect" \in Ops
      BY StepsOfKinds DEF Ops
    <2>2. HandlersTyped'
      BY <1>5, <2>1, HandleTyped DEF handleDisconnect, Asking
    <2>3. SocketsTyped'
      BY <1>1, <1>5 DEF handleDisconnect, SocketsTyped
    <2> QED BY <1>2, <2>2, <2>3 DEF TypeInv
  <1>6. CASE handleActivity(h, s)
    <2>1. "getActive" \in StepsOf("activity") /\ "activity" \in Ops
      BY StepsOfKinds DEF Ops
    <2>2. HandlersTyped'
      BY <1>6, <2>1, HandleTyped DEF handleActivity, Asking
    <2> QED BY <1>1, <1>2, <1>6, <2>2 DEF TypeInv, handleActivity, sockets, SocketsTyped
  <1> QED BY <1>3, <1>4, <1>5, <1>6

LEMMA EnvironmentTyped ==
  ASSUME TypeInv, Expire \/ \E served \in SUBSET Sockets : Crash(served)
  PROVE  TypeInv'
  <1>1. RedisTyped /\ SocketsTyped /\ AnnouncedTyped /\ HandlersTyped
    BY DEF TypeInv
  <1>2. CASE Expire
    <2>1. HandlersTyped' /\ SocketsTyped' /\ AnnouncedTyped'
      BY <1>1, <1>2 DEF Expire, sockets, HandlersTyped, HandlerTyped, SocketsTyped, AnnouncedTyped
    <2>2. ASSUME NEW s \in Sockets, ExpireSession(s) PROVE RedisTyped'
      BY <1>1, <2>2 DEF ExpireSession, RedisTyped
    <2>3. ASSUME NEW w \in Workspaces, ExpireWorkspaceUsers(w) PROVE RedisTyped'
      BY <1>1, <2>3 DEF ExpireWorkspaceUsers, RedisTyped
    <2>4. ASSUME NEW u \in Users, ExpireUserSessions(u) PROVE RedisTyped'
      BY <1>1, <2>4 DEF ExpireUserSessions, RedisTyped
    <2>5. ASSUME NEW w \in Workspaces, NEW u \in Users, ExpirePresence(w, u) PROVE RedisTyped'
      <3>1. NoPresence \in Records
        BY DEF NoPresence, Records
      <3> QED BY <1>1, <2>5, <3>1 DEF ExpirePresence, RedisTyped
    <2> QED BY <1>2, <2>1, <2>2, <2>3, <2>4, <2>5 DEF Expire, TypeInv
  <1>3. CASE \E served \in SUBSET Sockets : Crash(served)
    <2>1. PICK served \in SUBSET Sockets : Crash(served)
      BY <1>3
    <2>2. RedisTyped' /\ AnnouncedTyped'
      BY <1>1, <2>1 DEF Crash, redis, RedisTyped, AnnouncedTyped
    <2>3. SocketsTyped'
      BY <1>1, <2>1 DEF Crash, SocketsTyped
    <2>4. handler' \in [Handlers -> Slots] /\ \A h \in Handlers : handler'[h] \in {Free, handler[h]}
      BY <1>1, <2>1, FreeIsTyped DEF Crash, HandlersTyped
    <2>5. ASSUME NEW h \in Handlers PROVE HandlerTyped(h)'
      <3>1. CASE handler'[h] = Free
        BY <3>1, FreeIsTyped DEF HandlerTyped, None
      <3>2. CASE handler'[h] = handler[h]
        BY <1>1, <3>2 DEF HandlersTyped, HandlerTyped
      <3> QED BY <2>4, <3>1, <3>2
    <2> QED BY <2>2, <2>3, <2>4, <2>5 DEF TypeInv, HandlersTyped
  <1> QED BY <1>2, <1>3

LEMMA TypeStep == TypeInv /\ [Next]_vars => TypeInv'
  <1> SUFFICES ASSUME TypeInv, [Next]_vars PROVE TypeInv'
    OBVIOUS
  <1>1. ASSUME NEW s \in Sockets, handleConnection(s) PROVE TypeInv'
    BY <1>1 DEF handleConnection, TypeInv, HandlersTyped, HandlerTyped, SocketsTyped, RedisTyped, AnnouncedTyped
  <1>2. CASE UNCHANGED vars
    BY <1>2 DEF vars, TypeInv, HandlersTyped, HandlerTyped, SocketsTyped, RedisTyped, AnnouncedTyped
  <1> QED BY <1>1, <1>2, ClientStepTyped, HandlerStepTyped, EnvironmentTyped DEF Next

LEMMA TypeInvariant == Spec => []TypeInv
  BY TypeInit, TypeStep, PTL DEF Spec

(* Whatever the clients, Redis and the instances do, the sockets, the keys   *)
(* and the handlers keep their types, and a handler waits for presence       *)
(* records exactly while users it has to look up are left.                   *)
THEOREM TypeCorrectness == Spec => []TypeOK
  BY TypeInvariant, TypeInvMeansTypeOK, PTL

-----------------------------------------------------------------------------
(* Users in turn: the handlers of one user do not overlap, and Redis neither *)
(* rejects nor forgets.  A step is then a step of one user: it leaves the    *)
(* sockets and the keys of the others alone.                                 *)

InTurn == Behaviours \intersect {"sockets", "expire", "redis", "crash"} = {}

SocketsOf(u) == {s \in Sockets : UserOf[s] = u}
Busy(u) == {h \in Handlers : ~IsFree(h) /\ User(h) = u}
Exclusive(u) == \A g, h \in Busy(u) : g = h
Turns == \A u \in Users : Exclusive(u)

(* What a step leaves alone of socket s, and of user u.                      *)
SameSocket(s) == conn'[s] = conn[s] /\ joined'[s] = joined[s] /\ rooms'[s] = rooms[s] /\ session'[s] = session[s]
SameListing(u) ==
  \A w \in Workspaces : (u \in members'[w] <=> u \in members[w]) /\ presence'[w][u].live = presence[w][u].live
SameHandler(h) == handler'[h] = handler[h]
Untouched(u) ==
  /\ \A s \in SocketsOf(u) : SameSocket(s)
  /\ userSockets'[u] = userSockets[u]
  /\ SameListing(u)
  /\ Busy(u)' = Busy(u)
  /\ \A h \in Busy(u) : SameHandler(h)

(* A step on behalf of socket s: only s and its user change.                 *)
Footprint(s) ==
  /\ \A t \in Sockets : t # s => SameSocket(t)
  /\ \A u \in Users : u # UserOf[s] => userSockets'[u] = userSockets[u] /\ SameListing(u)

(* A step of handler h, which goes on or ends.                               *)
Moves(h) == Footprint(Socket(h)) /\ (Ends(h) \/ \E p \in Commands : Goes(h, p))

LEMMA BusyOf ==
  ASSUME TypeInv, NEW u \in Users, NEW h \in Busy(u)
  PROVE  h \in Handlers /\ handler[h].pc # None /\ User(h) = u /\ Socket(h) \in SocketsOf(u)
  BY HandlerAt DEF Busy, IsFree, User, SocketsOf

LEMMA BusyGoes ==
  ASSUME TypeInv, NEW h \in Handlers, handler[h].pc # None, NEW p \in Commands, Goes(h, p), NEW u \in Users
  PROVE  Busy(u)' = Busy(u)
  <1>1. p # None
    BY DEF Commands, None
  <1>2. \A g \in Handlers : IsFree(g)' <=> IsFree(g)
    BY <1>1 DEF Goes, IsFree
  <1>3. \A g \in Handlers : User(g)' = User(g)
    BY DEF Goes, User, Socket
  <1> QED BY <1>2, <1>3 DEF Busy

LEMMA BusyEnds ==
  ASSUME TypeInv, NEW h \in Handlers, Ends(h), NEW u \in Users
  PROVE  Busy(u)' = Busy(u) \ {h}
  <1>1. IsFree(h)'
    BY FreeIsTyped DEF Ends, IsFree
  <1>2. \A g \in Handlers : g # h => (IsFree(g)' <=> IsFree(g))
    BY DEF Ends, IsFree
  <1>3. \A g \in Handlers : g # h => User(g)' = User(g)
    BY DEF Ends, User, Socket
  <1> QED BY <1>1, <1>2, <1>3 DEF Busy

LEMMA OthersUntouched ==
  ASSUME TypeInv, NEW h \in Handlers, handler[h].pc # None, Moves(h), NEW u \in Users, u # User(h)
  PROVE  Untouched(u)
  <1>1. Busy(u)' = Busy(u)
    <2>1. h \notin Busy(u)
      BY DEF Busy
    <2> QED BY <2>1, BusyGoes, BusyEnds DEF Moves
  <1>2. \A g \in Busy(u) : SameHandler(g)
    <2>1. \A g \in Busy(u) : g \in Handlers /\ g # h
      BY DEF Busy
    <2> QED BY <2>1 DEF Moves, Goes, Ends, SameHandler
  <1>3. \A s \in SocketsOf(u) : SameSocket(s)
    <2>1. \A s \in SocketsOf(u) : s \in Sockets /\ s # Socket(h)
      BY DEF SocketsOf, User
    <2> QED BY <2>1 DEF Moves, Footprint
  <1>4. userSockets'[u] = userSockets[u] /\ SameListing(u)
    BY DEF Moves, Footprint, User
  <1> QED BY <1>1, <1>2, <1>3, <1>4 DEF Untouched

(* How each command goes on.                                                 *)
LEMMA JoiningGoes ==
  ASSUME TypeInv, NEW h \in Handlers
  PROVE  /\ SetSession(h) => Goes(h, "addMember") /\ Keeps(h)
         /\ AddMember(h) => Goes(h, "expireMembers") /\ Keeps(h)
         /\ ExpireMembers(h) => Goes(h, "addSocket") /\ Keeps(h)
         /\ AddSocket(h) => Goes(h, "expireSockets") /\ Keeps(h)
         /\ ExpireSockets(h) => Goes(h, "setPresence") /\ Keeps(h)
         /\ SetPresence(h) => Goes(h, "readMembers") /\ Keeps(h)
  BY GotoGoes DEF SetSession, AddMember, ExpireMembers, AddSocket, ExpireSockets, SetPresence, Commands

LEMMA SessionGoes ==
  ASSUME TypeInv, NEW h \in Handlers, NEW p \in Commands, handler[h].pc # None,
         IF session[Socket(h)] = None THEN Finish(h)
         ELSE handler' = [handler EXCEPT ![h].ws = session[Socket(h)], ![h].pc = p]
  PROVE  IF session[Socket(h)] = None THEN Ends(h)
         ELSE Goes(h, p) /\ handler'[h].ws = session[Socket(h)] /\ handler'[h].todo = handler[h].todo
              /\ handler'[h].found = handler[h].found
  <1>1. handler[h] \in Slots /\ Socket(h) \in Sockets
    BY HandlerAt
  <1>2. session[Socket(h)] \in Workspaces \union {None}
    BY <1>1 DEF TypeInv, RedisTyped
  <1> QED BY <1>1, <1>2, FinishEnds DEF Goes, Slots, TypeInv, HandlersTyped

LEMMA RemovingGoes ==
  ASSUME TypeInv, NEW h \in Handlers
  PROVE  /\ DelSession(h) => Goes(h, "remSocket") /\ Keeps(h)
         /\ RemSocket(h) => Goes(h, "checkSockets") /\ Keeps(h)
         /\ CheckSockets(h) => Keeps(h) /\ Goes(h, IF userSockets[User(h)] = {} THEN "remMember" ELSE "getPresence")
         /\ RemMember(h) => Goes(h, "delPresence") /\ Keeps(h)
         /\ DelPresence(h) => Goes(h, "delSockets") /\ Keeps(h)
         /\ DelSockets(h) => Goes(h, "leaveRoom") /\ Keeps(h)
         /\ GetPresence(h) => Keeps(h) /\ Goes(h, IF presence[Ws(h)][User(h)].live THEN "putPresence" ELSE "leaveRoom")
         /\ PutPresence(h) => Goes(h, "leaveRoom") /\ Keeps(h)
  <1>1. CASE GetPresence(h)
    <2>1. handler[h] \in Slots /\ User(h) \in Users /\ Ws(h) \in Workspaces
      BY <1>1, HandlerAt DEF GetPresence, At, None, Asking
    <2>2. presence[Ws(h)][User(h)].socketIds \subseteq Sockets
      BY <2>1 DEF TypeInv, RedisTyped, Records
    <2>3. PICK p \in Commands : p = IF presence[Ws(h)][User(h)].live THEN "putPresence" ELSE "leaveRoom"
      BY DEF Commands
    <2>4. PICK ids \in SUBSET Sockets : ids = presence[Ws(h)][User(h)].socketIds \ {Socket(h)}
      BY <2>2
    <2>5. handler' = [handler EXCEPT ![h].ids = ids, ![h].pc = p]
      BY <1>1, <2>3, <2>4 DEF GetPresence
    <2>6. Keeps(h) /\ Goes(h, p)
      BY <2>1, <2>5 DEF Goes, Keeps, Slots, TypeInv, HandlersTyped
    <2>7. /\ ~DelSession(h) /\ ~RemSocket(h) /\ ~CheckSockets(h) /\ ~RemMember(h) /\ ~DelPresence(h)
          /\ ~DelSockets(h) /\ ~PutPresence(h)
      BY <1>1 DEF DelSession, RemSocket, CheckSockets, RemMember, DelPresence, DelSockets, PutPresence,
                  GetPresence, At
    <2> QED BY <2>3, <2>6, <2>7
  <1>2. ASSUME PutPresence(h) PROVE Goes(h, "leaveRoom") /\ Keeps(h)
    <2>1. handler[h] \in Slots
      BY DEF TypeInv, HandlersTyped
    <2> QED BY <1>2, <2>1 DEF PutPresence, Goes, Keeps, Slots, Commands, TypeInv, HandlersTyped
  <1>3. CheckSockets(h) => Keeps(h) /\ Goes(h, IF userSockets[User(h)] = {} THEN "remMember" ELSE "getPresence")
    BY GotoGoes DEF CheckSockets, Commands
  <1>4. /\ DelSession(h) => Goes(h, "remSocket") /\ Keeps(h)
        /\ RemSocket(h) => Goes(h, "checkSockets") /\ Keeps(h)
        /\ RemMember(h) => Goes(h, "delPresence") /\ Keeps(h)
        /\ DelPresence(h) => Goes(h, "delSockets") /\ Keeps(h)
        /\ DelSockets(h) => Goes(h, "leaveRoom") /\ Keeps(h)
    BY GotoGoes DEF DelSession, RemSocket, RemMember, DelPresence, DelSockets, Commands
  <1> QED BY <1>1, <1>2, <1>3, <1>4

LEMMA TouchingGoes ==
  ASSUME TypeInv, NEW h \in Handlers
  PROVE  /\ TouchSession(h) => Goes(h, "getTouched") /\ Keeps(h)
         /\ GetTouched(h) => IF presence[Ws(h)][User(h)].live THEN Goes(h, "putTouched") /\ Keeps(h) ELSE Ends(h)
         /\ PutTouched(h) => Ends(h)
  <1>1. TouchSession(h) => Goes(h, "getTouched") /\ Keeps(h)
    BY GotoGoes DEF TouchSession, Commands
  <1>2. PutTouched(h) => Ends(h)
    BY FinishEnds DEF PutTouched
  <1>3. ASSUME GetTouched(h), presence[Ws(h)][User(h)].live PROVE Goes(h, "putTouched") /\ Keeps(h)
    <2>1. handler[h] \in Slots /\ User(h) \in Users /\ Ws(h) \in Workspaces
      BY <1>3, HandlerAt DEF GetTouched, At, None, Asking
    <2>2. presence[Ws(h)][User(h)].socketIds \subseteq Sockets
      BY <2>1 DEF TypeInv, RedisTyped, Records
    <2> QED BY <1>3, <2>1, <2>2 DEF GetTouched, Goes, Keeps, Slots, Commands, TypeInv, HandlersTyped
  <1>4. ASSUME GetTouched(h), ~presence[Ws(h)][User(h)].live PROVE Ends(h)
    BY <1>4, FinishEnds DEF GetTouched
  <1> QED BY <1>1, <1>2, <1>3, <1>4

LEMMA ReadMembersGoes ==
  ASSUME TypeInv, NEW h \in Handlers, ReadMembers(h)
  PROVE  /\ Goes(h, IF members[Ws(h)] = {} THEN "broadcast" ELSE "readPresence")
         /\ handler'[h].ws = handler[h].ws /\ handler'[h].todo = members[Ws(h)] /\ handler'[h].found = handler[h].found
  <1>1. handler[h] \in Slots /\ Ws(h) \in Workspaces
    BY HandlerAt DEF ReadMembers, At, None, Asking
  <1>2. members[Ws(h)] \subseteq Users
    BY <1>1 DEF TypeInv, RedisTyped
  <1>3. PICK p \in Commands : p = IF members[Ws(h)] = {} THEN "broadcast" ELSE "readPresence"
    BY DEF Commands
  <1>4. handler' = [handler EXCEPT ![h].todo = members[Ws(h)], ![h].pc = p]
    BY <1>3 DEF ReadMembers
  <1>5. /\ Goes(h, p) /\ handler'[h].ws = handler[h].ws /\ handler'[h].todo = members[Ws(h)]
        /\ handler'[h].found = handler[h].found
    BY <1>1, <1>2, <1>4 DEF Goes, Slots, TypeInv, HandlersTyped
  <1> QED BY <1>3, <1>5

LEMMA ReadPresenceGoes ==
  ASSUME TypeInv, NEW h \in Handlers, ReadPresence(h)
  PROVE  \E u \in handler[h].todo :
           /\ Goes(h, IF handler[h].todo = {u} THEN "broadcast" ELSE "readPresence")
           /\ handler'[h].ws = handler[h].ws /\ handler'[h].todo = handler[h].todo \ {u}
           /\ handler'[h].found = IF presence[Ws(h)][u].live THEN handler[h].found \union {u} ELSE handler[h].found
  <1>1. handler[h] \in Slots /\ Ws(h) \in Workspaces
    BY HandlerAt DEF ReadPresence, At, None, Asking
  <1>2. PICK u \in handler[h].todo :
          handler' = [handler EXCEPT
            ![h].todo = @ \ {u},
            ![h].found = IF presence[Ws(h)][u].live THEN @ \union {u} ELSE @,
            ![h].pc = IF handler[h].todo = {u} THEN "broadcast" ELSE "readPresence"]
    BY DEF ReadPresence
  <1>3. PICK p \in Commands : p = IF handler[h].todo = {u} THEN "broadcast" ELSE "readPresence"
    BY DEF Commands
  <1>4. handler[h].todo \subseteq Users
    BY <1>1 DEF Slots
  <1>5. PICK f \in SUBSET Users : f = IF presence[Ws(h)][u].live THEN handler[h].found \union {u} ELSE handler[h].found
    BY <1>1, <1>4 DEF Slots
  <1>6. handler' = [handler EXCEPT ![h] = [@ EXCEPT !.todo = handler[h].todo \ {u}, !.found = f, !.pc = p]]
    BY <1>2, <1>3, <1>5
  <1>7. /\ Goes(h, p) /\ handler'[h].ws = handler[h].ws /\ handler'[h].todo = handler[h].todo \ {u}
        /\ handler'[h].found = f
    BY <1>1, <1>4, <1>6 DEF Goes, Slots, TypeInv, HandlersTyped
  <1> QED BY <1>3, <1>5, <1>7

LEMMA NoRejections == InTurn => \A h \in Handlers : ~Rejected(h)
  BY DEF InTurn, Rejected

LEMMA JoiningMoves ==
  ASSUME TypeInv, NEW h \in Handlers, addUserSession(h), UNCHANGED sockets
  PROVE  Moves(h)
  <1>1. Ends(h) \/ \E p \in Commands : Goes(h, p)
    BY JoiningGoes DEF addUserSession, Commands
  <1>2. handler[h].pc # None /\ handler[h].pc \notin Asking
    BY DEF addUserSession, SetSession, AddMember, ExpireMembers, AddSocket, ExpireSockets, SetPresence, At, None,
           Asking
  <1>3. Socket(h) \in Sockets /\ User(h) \in Users /\ Ws(h) \in Workspaces /\ RedisTyped
    BY <1>2, HandlerAt DEF TypeInv
  <1>4. \A t \in Sockets : t # Socket(h) => SameSocket(t)
    BY <1>3 DEF addUserSession, SetSession, AddMember, ExpireMembers, AddSocket, ExpireSockets, SetPresence,
                SameSocket, sockets, RedisTyped
  <1>5. ASSUME NEW u \in Users, u # User(h)
        PROVE  userSockets'[u] = userSockets[u]
    BY <1>3, <1>5 DEF addUserSession, SetSession, AddMember, ExpireMembers, AddSocket, ExpireSockets, SetPresence,
                      RedisTyped
  <1>6. ASSUME NEW u \in Users, u # User(h), NEW w \in Workspaces
        PROVE  (u \in members'[w] <=> u \in members[w]) /\ presence'[w][u].live = presence[w][u].live
    BY <1>3, <1>6 DEF addUserSession, SetSession, AddMember, ExpireMembers, AddSocket, ExpireSockets, SetPresence,
                      RedisTyped
  <1> QED BY <1>1, <1>4, <1>5, <1>6 DEF Moves, Footprint, SameListing, User

LEMMA RemovingMoves ==
  ASSUME TypeInv, NEW h \in Handlers, removeUserSession(h), UNCHANGED sockets
  PROVE  Moves(h)
  <1>1. Ends(h) \/ \E p \in Commands : Goes(h, p)
    <2>1. CASE GetSession(h)
      BY <2>1, SessionGoes DEF GetSession, At, None, Commands
    <2>2. CASE CheckSockets(h)
      BY <2>2, RemovingGoes DEF Commands
    <2>3. CASE GetPresence(h)
      BY <2>3, RemovingGoes DEF Commands
    <2> QED BY <2>1, <2>2, <2>3, RemovingGoes DEF removeUserSession, Commands
  <1>2. /\ handler[h].pc # None
        /\ ~GetSession(h) => handler[h].pc \notin Asking
    BY DEF removeUserSession, GetSession, DelSession, RemSocket, CheckSockets, RemMember, DelPresence,
           DelSockets, GetPresence, PutPresence, At, None, Asking
  <1>3. /\ Socket(h) \in Sockets /\ User(h) \in Users /\ RedisTyped
        /\ ~GetSession(h) => Ws(h) \in Workspaces
    BY <1>2, HandlerAt DEF TypeInv
  <1>4. \A t \in Sockets : t # Socket(h) => SameSocket(t)
    BY <1>3 DEF removeUserSession, GetSession, DelSession, RemSocket, CheckSockets, RemMember, DelPresence,
                DelSockets, GetPresence, PutPresence, SameSocket, sockets, redis, RedisTyped
  <1>5. ASSUME NEW u \in Users, u # User(h)
        PROVE  userSockets'[u] = userSockets[u]
    BY <1>3, <1>5 DEF removeUserSession, GetSession, DelSession, RemSocket, CheckSockets, RemMember, DelPresence,
                      DelSockets, GetPresence, PutPresence, redis, RedisTyped
  <1>6. ASSUME NEW u \in Users, u # User(h), NEW w \in Workspaces
        PROVE  (u \in members'[w] <=> u \in members[w]) /\ presence'[w][u].live = presence[w][u].live
    <2>1. CASE GetSession(h)
      BY <2>1 DEF GetSession, redis
    <2>2. CASE ~GetSession(h)
      BY <1>3, <1>6, <2>2 DEF removeUserSession, DelSession, RemSocket, CheckSockets, RemMember,
                DelPresence, DelSockets, GetPresence, PutPresence, redis, RedisTyped
    <2> QED BY <2>1, <2>2
  <1> QED BY <1>1, <1>4, <1>5, <1>6 DEF Moves, Footprint, SameListing, User

LEMMA TouchingMoves ==
  ASSUME TypeInv, NEW h \in Handlers, updateUserActivity(h), UNCHANGED sockets
  PROVE  Moves(h)
  <1>1. Ends(h) \/ \E p \in Commands : Goes(h, p)
    <2>1. CASE GetActive(h)
      BY <2>1, SessionGoes DEF GetActive, At, None, Commands
    <2> QED BY <2>1, TouchingGoes DEF updateUserActivity, Commands
  <1>2. /\ handler[h].pc # None
        /\ ~GetActive(h) => handler[h].pc \notin Asking
    BY DEF updateUserActivity, GetActive, TouchSession, GetTouched, PutTouched, At, None, Asking
  <1>3. /\ Socket(h) \in Sockets /\ User(h) \in Users /\ RedisTyped
        /\ ~GetActive(h) => Ws(h) \in Workspaces
    BY <1>2, HandlerAt DEF TypeInv
  <1>4. \A t \in Sockets : t # Socket(h) => SameSocket(t)
    BY <1>3 DEF updateUserActivity, GetActive, TouchSession, GetTouched, PutTouched, SameSocket, sockets, redis,
                RedisTyped
  <1>5. userSockets' = userSockets /\ members' = members
    BY DEF updateUserActivity, GetActive, TouchSession, GetTouched, PutTouched, redis
  <1>6. ASSUME NEW u \in Users, u # User(h), NEW w \in Workspaces
        PROVE  presence'[w][u].live = presence[w][u].live
    <2>1. CASE PutTouched(h)
      BY <1>3, <1>6, <2>1 DEF PutTouched, RedisTyped, GetActive, At
    <2>2. CASE ~PutTouched(h)
      BY <2>2 DEF updateUserActivity, GetActive, TouchSession, GetTouched, redis
    <2> QED BY <2>1, <2>2
  <1> QED BY <1>1, <1>4, <1>5, <1>6 DEF Moves, Footprint, SameListing, User

LEMMA ReadingMoves ==
  ASSUME TypeInv, NEW h \in Handlers, getUserSession(h) \/ getWorkspacePresence(h), UNCHANGED sockets
  PROVE  Moves(h)
  <1>1. Ends(h) \/ \E p \in Commands : Goes(h, p)
    <2>1. CASE getUserSession(h)
      BY <2>1, SessionGoes DEF getUserSession, At, None, Commands
    <2>2. CASE ReadMembers(h)
      BY <2>2, ReadMembersGoes DEF Commands
    <2>3. CASE ReadPresence(h)
      BY <2>3, ReadPresenceGoes DEF Commands
    <2> QED BY <2>1, <2>2, <2>3 DEF getWorkspacePresence
  <1>2. UNCHANGED redis
    BY DEF getUserSession, getWorkspacePresence, ReadMembers, ReadPresence
  <1> QED BY <1>1, <1>2 DEF Moves, Footprint, SameSocket, SameListing, redis, sockets

LEMMA OwnStepsMove ==
  ASSUME TypeInv, NEW h \in Handlers, LeaveRoom(h) \/ AnnounceJoin(h) \/ AnnounceLeave(h)
  PROVE  Moves(h)
  <1>1. Ends(h) \/ \E p \in Commands : Goes(h, p)
    BY GotoGoes, FinishEnds DEF LeaveRoom, AnnounceJoin, AnnounceLeave, Commands
  <1>2. UNCHANGED redis
    BY DEF LeaveRoom, AnnounceJoin, AnnounceLeave
  <1>3. \A t \in Sockets : t # Socket(h) => SameSocket(t)
    BY <1>2 DEF LeaveRoom, AnnounceJoin, AnnounceLeave, SameSocket, sockets, redis, TypeInv, SocketsTyped
  <1> QED BY <1>1, <1>2, <1>3 DEF Moves, Footprint, SameListing, redis

LEMMA HandlerStepMoves ==
  ASSUME InTurn, TypeInv, NEW h \in Handlers, HandlerStep(h)
  PROVE  handler[h].pc # None /\ Moves(h)
  <1>1. Moves(h)
    BY NoRejections, JoiningMoves, RemovingMoves, TouchingMoves, ReadingMoves, OwnStepsMove DEF HandlerStep
  <1>2. handler[h].pc # None
    BY NoRejections DEF HandlerStep, addUserSession, SetSession, AddMember, ExpireMembers, AddSocket, ExpireSockets,
       SetPresence, removeUserSession, GetSession, DelSession, RemSocket, CheckSockets, RemMember, DelPresence,
       DelSockets, GetPresence, PutPresence, updateUserActivity, GetActive, TouchSession, GetTouched, PutTouched,
       getUserSession, getWorkspacePresence, ReadMembers, ReadPresence, LeaveRoom, AnnounceJoin, AnnounceLeave,
       At, None
  <1> QED BY <1>1, <1>2

(* A step of a client: a handler h of socket s starts, at pc and for w, while *)
(* none of the same user runs.                                               *)
Client(h, s) ==
  \/ \E w \in Workspaces : handleJoinWorkspace(h, s, w)
  \/ handleLeaveWorkspace(h, s) \/ handleDisconnect(h, s) \/ handleActivity(h, s)
Starts(h, op, s, w, pc) ==
  /\ IsFree(h) /\ Busy(UserOf[s]) = {}
  /\ Footprint(s) /\ UNCHANGED redis
  /\ handler'[h].op = op /\ handler'[h].pc = pc /\ handler'[h].socket = s /\ handler'[h].ws = w
  /\ handler'[h].todo = {} /\ handler'[h].found = {} /\ pc # None
  /\ \A g \in Handlers : g # h => handler'[g] = handler[g]

LEMMA HandleStarts ==
  ASSUME InTurn, TypeInv, NEW h \in Handlers, NEW op \in Ops, NEW s \in Sockets,
         NEW w, NEW pc \in StepsOf(op), Handle(h, op, s, w, pc),
         UNCHANGED redis, \A t \in Sockets : t # s => SameSocket(t)
  PROVE  Starts(h, op, s, w, pc)
  <1>1. IsFree(h) /\ Busy(UserOf[s]) = {}
    BY DEF Handle, Busy, User, Socket, InTurn
  <1>2. \A g \in Handlers : g # h => handler'[g] = handler[g]
    BY DEF Handle, TypeInv, HandlersTyped
  <1>3. handler'[h] = [Free EXCEPT !.op = op, !.pc = pc, !.socket = s, !.ws = w]
    BY DEF Handle, TypeInv, HandlersTyped
  <1>4. /\ handler'[h].op = op /\ handler'[h].pc = pc /\ handler'[h].socket = s /\ handler'[h].ws = w
        /\ handler'[h].todo = {} /\ handler'[h].found = {}
    BY <1>3 DEF Free
  <1>5. Footprint(s)
    BY DEF Footprint, SameListing, redis
  <1> QED BY <1>1, <1>2, <1>4, <1>5, KindsOfSteps DEF Starts

LEMMA ClientStarts ==
  ASSUME InTurn, TypeInv, NEW h \in Handlers, NEW s \in Sockets
  PROVE  /\ \A w \in Workspaces : handleJoinWorkspace(h, s, w) => Starts(h, "join", s, w, "setSession")
         /\ handleLeaveWorkspace(h, s) => Starts(h, "leave", s, None, "getLeaver")
         /\ handleDisconnect(h, s) => Starts(h, "disconnect", s, None, "getSession")
         /\ handleActivity(h, s) => Starts(h, "activity", s, None, "getActive")
  <1>1. /\ "setSession" \in StepsOf("join") /\ "getLeaver" \in StepsOf("leave")
        /\ "getSession" \in StepsOf("disconnect") /\ "getActive" \in StepsOf("activity")
        /\ {"join", "leave", "disconnect", "activity"} \subseteq Ops
    BY StepsOfKinds DEF Joining, Ops
  <1>2. ASSUME NEW w \in Workspaces, handleJoinWorkspace(h, s, w)
        PROVE  Starts(h, "join", s, w, "setSession")
    <2>1. UNCHANGED redis /\ \A t \in Sockets : t # s => SameSocket(t)
      BY <1>2 DEF handleJoinWorkspace, redis, SameSocket, TypeInv, SocketsTyped
    <2> QED BY <1>1, <1>2, <2>1, HandleStarts DEF handleJoinWorkspace
  <1>3. ASSUME handleLeaveWorkspace(h, s) PROVE Starts(h, "leave", s, None, "getLeaver")
    <2>1. UNCHANGED redis /\ \A t \in Sockets : t # s => SameSocket(t)
      BY <1>3 DEF handleLeaveWorkspace, redis, sockets, SameSocket
    <2> QED BY <1>1, <1>3, <2>1, HandleStarts DEF handleLeaveWorkspace
  <1>4. ASSUME handleDisconnect(h, s) PROVE Starts(h, "disconnect", s, None, "getSession")
    <2>1. UNCHANGED redis /\ \A t \in Sockets : t # s => SameSocket(t)
      BY <1>4 DEF handleDisconnect, redis, SameSocket, TypeInv, SocketsTyped
    <2> QED BY <1>1, <1>4, <2>1, HandleStarts DEF handleDisconnect
  <1>5. ASSUME handleActivity(h, s) PROVE Starts(h, "activity", s, None, "getActive")
    <2>1. UNCHANGED redis /\ \A t \in Sockets : t # s => SameSocket(t)
      BY <1>5 DEF handleActivity, redis, sockets, SameSocket
    <2> QED BY <1>1, <1>5, <2>1, HandleStarts DEF handleActivity
  <1> QED BY <1>2, <1>3, <1>4, <1>5

LEMMA BusyStarts ==
  ASSUME TypeInv, NEW h \in Handlers, NEW op, NEW s \in Sockets, NEW w, NEW pc, Starts(h, op, s, w, pc),
         NEW u \in Users
  PROVE  Busy(u)' = IF u = UserOf[s] THEN {h} ELSE Busy(u)
  <1>1. /\ ~IsFree(h)' /\ User(h)' = UserOf[s] /\ IsFree(h)
        /\ \A g \in Handlers : g # h => (IsFree(g)' <=> IsFree(g)) /\ User(g)' = User(g)
    BY DEF Starts, IsFree, User, Socket
  <1>2. h \notin Busy(u) /\ (u = UserOf[s] => Busy(u) = {})
    BY <1>1 DEF Busy, Starts
  <1> QED BY <1>1, <1>2 DEF Busy

LEMMA OthersWait ==
  ASSUME TypeInv, NEW h \in Handlers, NEW op, NEW s \in Sockets, NEW w, NEW pc, Starts(h, op, s, w, pc),
         NEW u \in Users, u # UserOf[s]
  PROVE  Untouched(u)
  <1>1. Busy(u)' = Busy(u)
    BY BusyStarts
  <1>2. \A g \in Busy(u) : g \in Handlers /\ g # h
    BY DEF Busy, Starts
  <1>3. \A g \in Busy(u) : SameHandler(g)
    BY <1>2 DEF Starts, SameHandler
  <1>4. \A t \in SocketsOf(u) : t \in Sockets /\ t # s
    BY DEF SocketsOf
  <1>5. \A t \in SocketsOf(u) : SameSocket(t)
    BY <1>4 DEF Starts, Footprint
  <1>6. userSockets'[u] = userSockets[u] /\ SameListing(u)
    BY DEF Starts, Footprint
  <1> QED BY <1>1, <1>3, <1>5, <1>6 DEF Untouched

(* The steps that remain when the handlers of a user run in turn.            *)
LEMMA Steps ==
  ASSUME InTurn, [Next]_vars
  PROVE  \/ UNCHANGED vars
         \/ \E s \in Sockets : handleConnection(s)
         \/ \E h \in Handlers, s \in Sockets : Client(h, s)
         \/ \E h \in Handlers : HandlerStep(h)
  <1>1. ~Expire /\ ~\E served \in SUBSET Sockets : Crash(served)
    BY DEF InTurn, Expire, Crash
  <1> QED BY <1>1 DEF Next, Client

(* Connections, which change no handler and no key.                          *)
LEMMA IdleSteps ==
  ASSUME TypeInv, UNCHANGED vars \/ \E s \in Sockets : handleConnection(s), NEW u \in Users
  PROVE  /\ Busy(u)' = Busy(u)
         /\ UNCHANGED <<joined, rooms, redis, handler, announced>>
         /\ \A t \in Sockets : conn'[t] = conn[t] \/ (conn[t] = "new" /\ conn'[t] = "open")
  BY DEF vars, handleConnection, redis, Busy, IsFree, User, Socket, TypeInv, SocketsTyped

LEMMA TurnsStep ==
  ASSUME InTurn, TypeInv, Turns, [Next]_vars
  PROVE  Turns'
  <1> SUFFICES ASSUME NEW u \in Users PROVE Exclusive(u)'
    BY DEF Turns
  <1>1. Exclusive(u)
    BY DEF Turns
  <1>2. CASE UNCHANGED vars \/ \E s \in Sockets : handleConnection(s)
    BY <1>1, <1>2, IdleSteps DEF Exclusive
  <1>3. ASSUME NEW h \in Handlers, NEW s \in Sockets, Client(h, s) PROVE Exclusive(u)'
    <2>1. PICK op, w, pc : Starts(h, op, s, w, pc)
      BY <1>3, ClientStarts DEF Client
    <2>2. Busy(u)' = {h} \/ Busy(u)' = Busy(u)
      BY <2>1, BusyStarts
    <2> QED BY <1>1, <2>2 DEF Exclusive
  <1>4. ASSUME NEW h \in Handlers, HandlerStep(h) PROVE Exclusive(u)'
    <2>1. handler[h].pc # None /\ Moves(h)
      BY <1>4, HandlerStepMoves
    <2>2. Busy(u)' \subseteq Busy(u)
      BY <2>1, BusyGoes, BusyEnds DEF Moves
    <2> QED BY <1>1, <2>2 DEF Exclusive
  <1> QED BY <1>2, <1>3, <1>4, Steps

-----------------------------------------------------------------------------
(* The gateway's per-socket data and the stored session                      *)

Agrees(s) ==
  /\ joined[s] # None => joined[s] \in rooms[s] /\ session[s] = joined[s]
  /\ session[s] # None => conn[s] = "open"

(* What holds of its socket while handler h is under way.                    *)
AgreesAt(h) ==
  LET s == Socket(h)
      pc == handler[h].pc
  IN CASE handler[h].op = "join" ->
            /\ conn[s] = "open" /\ joined[s] = Ws(h) /\ Ws(h) \in rooms[s]
            /\ pc # "setSession" => session[s] = Ws(h)
       [] handler[h].op = "leave" ->
            IF pc = "getLeaver" THEN Agrees(s) ELSE session[s] = Ws(h) /\ conn[s] = "open"
       [] handler[h].op = "disconnect" ->
            /\ conn[s] = "closed" /\ rooms[s] = {}
            /\ pc = "getSession" => (joined[s] # None => session[s] # None)
            /\ pc = "delSession" => session[s] = Ws(h)
            /\ pc \notin {"getSession", "delSession"} => session[s] = None
       [] OTHER -> Agrees(s) /\ (pc # "getActive" => session[s] = Ws(h))

Agreement(u) ==
  /\ \A s \in SocketsOf(u) : (\A h \in Busy(u) : Socket(h) # s) => Agrees(s)
  /\ \A h \in Busy(u) : AgreesAt(h)
AgreementInv == \A u \in Users : Agreement(u)

LEMMA AgreesStays ==
  ASSUME NEW s, SameSocket(s), Agrees(s)
  PROVE  Agrees(s)'
  BY DEF SameSocket, Agrees

LEMMA AgreementFrame ==
  ASSUME TypeInv, NEW u \in Users, Untouched(u), Agreement(u)
  PROVE  Agreement(u)'
  <1>1. \A h \in Busy(u) : Socket(h)' = Socket(h)
    BY DEF Untouched, SameHandler, Socket
  <1>2. ASSUME NEW s \in SocketsOf(u), \A h \in Busy(u)' : Socket(h)' # s
        PROVE  Agrees(s)'
    <2>1. \A h \in Busy(u) : Socket(h) # s
      BY <1>1, <1>2 DEF Untouched
    <2> QED BY <2>1, AgreesStays DEF Untouched, Agreement
  <1>3. ASSUME NEW h \in Busy(u) PROVE AgreesAt(h)'
    <2>1. Socket(h) \in SocketsOf(u) /\ AgreesAt(h) /\ handler'[h] = handler[h]
      BY BusyOf DEF Agreement, Untouched, SameHandler
    <2>2. PICK s \in SocketsOf(u) : s = Socket(h)
      BY <2>1
    <2>3. SameSocket(s)
      BY DEF Untouched
    <2> QED BY <2>1, <2>2, <2>3 DEF AgreesAt, Agrees, SameSocket, Socket, Ws
  <1>4. SocketsOf(u)' = SocketsOf(u) /\ Busy(u)' = Busy(u)
    BY DEF SocketsOf, Untouched
  <1> QED BY <1>2, <1>3, <1>4 DEF Agreement

(* A user's only handler goes on or ends: what has to be shown of its socket.*)
LEMMA AgreementMoves ==
  ASSUME TypeInv, NEW h \in Handlers, handler[h].pc # None, Moves(h), NEW u \in Users, u = User(h),
         Exclusive(u), Agreement(u), NEW s \in Sockets, s = Socket(h),
         (\E p \in Commands : Goes(h, p)) => AgreesAt(h)', Ends(h) => Agrees(s)'
  PROVE  Agreement(u)'
  <1>1. Busy(u) = {h} /\ s \in SocketsOf(u)
    BY DEF Exclusive, Busy, IsFree, SocketsOf, User
  <1>2. ASSUME NEW t \in SocketsOf(u), t # s PROVE Agrees(t)'
    BY <1>1, <1>2, AgreesStays DEF Agreement, Moves, Footprint, SocketsOf
  <1>3. SocketsOf(u)' = SocketsOf(u)
    BY DEF SocketsOf
  <1>4. CASE \E p \in Commands : Goes(h, p)
    <2>1. Busy(u)' = {h} /\ Socket(h)' = s
      BY <1>1, <1>4, BusyGoes DEF Goes, Socket
    <2> QED BY <1>2, <1>3, <1>4, <2>1 DEF Agreement
  <1>5. CASE Ends(h)
    <2>1. Busy(u)' = {}
      BY <1>1, <1>5, BusyEnds
    <2> QED BY <1>2, <1>3, <1>5, <2>1 DEF Agreement
  <1> QED BY <1>4, <1>5 DEF Moves

LEMMA GoesIsNotEnds ==
  ASSUME TypeInv, NEW h \in Handlers, NEW p \in Commands, Goes(h, p)
  PROVE  ~Ends(h)
  BY FreeIsTyped DEF Goes, Ends, Commands, None

(* The steps that change nothing of the socket, between two awaits at which  *)
(* the same is known of it.                                                  *)
LEMMA QuietAgrees ==
  ASSUME TypeInv, NEW h \in Handlers, NEW p \in Commands, Goes(h, p), Keeps(h), SameSocket(Socket(h)), AgreesAt(h),
         {handler[h].pc, p} \intersect {"setSession", "getSession", "delSession", "getActive", "getLeaver"} = {}
  PROVE  AgreesAt(h)'
  <1>1. PICK s : s = Socket(h)
    OBVIOUS
  <1>2. Socket(h)' = s /\ Ws(h)' = Ws(h) /\ SameSocket(s)
    BY <1>1 DEF Goes, Keeps, Socket, Ws
  <1>3. handler'[h].op = handler[h].op /\ handler'[h].pc = p
    BY DEF Goes
  <1> QED BY <1>1, <1>2, <1>3 DEF AgreesAt, Agrees, SameSocket

(* The condition of AgreementMoves, for the commands of each operation.      *)
AgreesAfter(h, s) ==
  /\ (\E p \in Commands : Goes(h, p)) => AgreesAt(h)'
  /\ Ends(h) => Agrees(s)'

LEMMA AfterGoing ==
  ASSUME TypeInv, NEW h \in Handlers, NEW p \in Commands, Goes(h, p), NEW s, AgreesAt(h)'
  PROVE  AgreesAfter(h, s)
  BY GoesIsNotEnds DEF AgreesAfter

LEMMA AfterEnding ==
  ASSUME TypeInv, NEW h \in Handlers, Ends(h), NEW s, Agrees(s)'
  PROVE  AgreesAfter(h, s)
  BY GoesIsNotEnds DEF AgreesAfter

LEMMA JoiningAgrees ==
  ASSUME TypeInv, NEW h \in Handlers, addUserSession(h), UNCHANGED sockets, AgreesAt(h), NEW s \in Sockets,
         s = Socket(h)
  PROVE  AgreesAfter(h, s)
  <1>1. CASE SetSession(h)
    <2>1. Goes(h, "addMember") /\ Keeps(h) /\ handler[h].pc = "setSession"
      BY <1>1, JoiningGoes DEF SetSession, At
    <2>2. handler[h].op = "join"
      BY <2>1, HandlerAt, KindsOfSteps DEF Joining, None
    <2>3. /\ conn'[s] = conn[s] /\ joined'[s] = joined[s] /\ rooms'[s] = rooms[s]
          /\ session'[s] = Ws(h)
      BY <1>1 DEF SetSession, sockets, TypeInv, RedisTyped
    <2>4. /\ handler'[h].op = "join" /\ handler'[h].pc = "addMember" /\ Socket(h)' = s /\ Ws(h)' = Ws(h)
      BY <2>1, <2>2 DEF Goes, Keeps, Socket, Ws
    <2>5. AgreesAt(h)'
      BY <2>2, <2>3, <2>4 DEF AgreesAt
    <2> QED BY <2>1, <2>5, AfterGoing DEF Commands
  <1>2. CASE ~SetSession(h)
    <2>1. PICK p \in Commands : Goes(h, p) /\ Keeps(h) /\ p \notin {"setSession", "getSession", "delSession", "getActive", "getLeaver"}
      BY <1>2, JoiningGoes DEF addUserSession, Commands
    <2>2. SameSocket(Socket(h))
      BY <1>2 DEF addUserSession, AddMember, ExpireMembers, AddSocket, ExpireSockets, SetPresence, SameSocket, sockets
    <2>3. handler[h].pc \notin {"setSession", "getSession", "delSession", "getActive", "getLeaver"}
      BY <1>2 DEF addUserSession, AddMember, ExpireMembers, AddSocket, ExpireSockets, SetPresence, At
    <2> QED BY <2>1, <2>2, <2>3, QuietAgrees, AfterGoing
  <1> QED BY <1>1, <1>2

(* A handler that reads the session of its socket first.                     *)
LEMMA AskingAgrees ==
  ASSUME TypeInv, NEW h \in Handlers, NEW s \in Sockets, s = Socket(h), SameSocket(s), AgreesAt(h),
         NEW p \in Commands, <<handler[h].pc, p>> \in {<<"getSession", "delSession">>, <<"getActive", "touchSession">>,
                                                       <<"getLeaver", "leaveRoom">>},
         IF session[Socket(h)] = None THEN Finish(h)
         ELSE handler' = [handler EXCEPT ![h].ws = session[Socket(h)], ![h].pc = p]
  PROVE  AgreesAfter(h, s)
  <1>1. /\ handler[h].pc # None
        /\ \/ handler[h].op = "disconnect" /\ handler[h].pc = "getSession" /\ p = "delSession"
           \/ handler[h].op = "activity" /\ handler[h].pc = "getActive" /\ p = "touchSession"
           \/ handler[h].op = "leave" /\ handler[h].pc = "getLeaver" /\ p = "leaveRoom"
    BY HandlerAt, KindsOfSteps DEF None
  <1>2. CASE session[s] = None
    <2>1. Ends(h)
      BY <1>1, <1>2, SessionGoes
    <2>2. Agrees(s)
      BY <1>1, <1>2 DEF AgreesAt, Agrees
    <2> QED BY <2>1, <2>2, AgreesStays, AfterEnding
  <1>3. CASE session[s] # None
    <2>1. Goes(h, p) /\ handler'[h].ws = session[s]
      BY <1>1, <1>3, SessionGoes
    <2>2. Socket(h)' = s /\ Ws(h)' = session[s] /\ handler'[h].op = handler[h].op /\ handler'[h].pc = p
      BY <2>1 DEF Goes, Socket, Ws
    <2>3. AgreesAt(h)'
      BY <1>1, <1>3, <2>2 DEF AgreesAt, Agrees, SameSocket
    <2> QED BY <2>1, <2>3, AfterGoing
  <1> QED BY <1>2, <1>3

LEMMA RemovingAgrees ==
  ASSUME TypeInv, NEW h \in Handlers, removeUserSession(h), UNCHANGED sockets, AgreesAt(h), NEW s \in Sockets,
         s = Socket(h)
  PROVE  AgreesAfter(h, s)
  <1>1. CASE GetSession(h)
    <2>1. SameSocket(s) /\ handler[h].pc = "getSession" /\ "delSession" \in Commands
      BY <1>1 DEF GetSession, redis, sockets, SameSocket, At, Commands
    <2> QED BY <1>1, <2>1, AskingAgrees DEF GetSession
  <1>2. CASE DelSession(h)
    <2>1. Goes(h, "remSocket") /\ Keeps(h) /\ handler[h].pc = "delSession"
      BY <1>2, RemovingGoes DEF DelSession, At
    <2>2. handler[h].op = "disconnect"
      BY <2>1, HandlerAt, KindsOfSteps DEF Removing, None
    <2>3. conn'[s] = conn[s] /\ rooms'[s] = rooms[s] /\ session'[s] = None
      BY <1>2 DEF DelSession, sockets, TypeInv, RedisTyped
    <2>4. handler'[h].op = "disconnect" /\ handler'[h].pc = "remSocket" /\ Socket(h)' = s
      BY <2>1, <2>2 DEF Goes, Socket
    <2>5. AgreesAt(h)'
      BY <2>2, <2>3, <2>4 DEF AgreesAt
    <2> QED BY <2>1, <2>5, AfterGoing DEF Commands
  <1>3. CASE ~GetSession(h) /\ ~DelSession(h)
    <2>1. PICK p \in Commands : Goes(h, p) /\ Keeps(h) /\ p \notin {"setSession", "getSession", "delSession", "getActive", "getLeaver"}
      <3>1. CASE CheckSockets(h)
        BY <3>1, RemovingGoes DEF Commands
      <3>2. CASE GetPresence(h)
        BY <3>2, RemovingGoes DEF Commands
      <3> QED BY <1>3, <3>1, <3>2, RemovingGoes DEF removeUserSession, Commands
    <2>2. SameSocket(Socket(h))
      BY <1>3 DEF removeUserSession, RemSocket, CheckSockets, RemMember, DelPresence,
           DelSockets, GetPresence, PutPresence, SameSocket, sockets, redis
    <2>3. handler[h].pc \notin {"setSession", "getSession", "delSession", "getActive", "getLeaver"}
      BY <1>3 DEF removeUserSession, RemSocket, CheckSockets, RemMember, DelPresence,
           DelSockets, GetPresence, PutPresence, At
    <2> QED BY <2>1, <2>2, <2>3, QuietAgrees, AfterGoing
  <1> QED BY <1>1, <1>2, <1>3

LEMMA TouchingAgrees ==
  ASSUME TypeInv, NEW h \in Handlers, updateUserActivity(h), UNCHANGED sockets, AgreesAt(h), NEW s \in Sockets,
         s = Socket(h)
  PROVE  AgreesAfter(h, s)
  <1>1. CASE GetActive(h)
    <2>1. SameSocket(s) /\ handler[h].pc = "getActive" /\ "touchSession" \in Commands
      BY <1>1 DEF GetActive, redis, sockets, SameSocket, At, Commands
    <2> QED BY <1>1, <2>1, AskingAgrees DEF GetActive
  <1>2. CASE ~GetActive(h)
    <2>1. handler[h].pc \in Touching
      BY <1>2 DEF updateUserActivity, TouchSession, GetTouched, PutTouched, At, Touching
    <2>2. handler[h].op = "activity" /\ handler[h].pc # "getActive"
      BY <2>1, HandlerAt, KindsOfSteps DEF Touching, None
    <2>3. Agrees(s) /\ session[s] = Ws(h)
      BY <2>2 DEF AgreesAt
    <2>4. SameSocket(s)
      BY <1>2, <2>3 DEF updateUserActivity, TouchSession, GetTouched, PutTouched, SameSocket, sockets, redis,
                        TypeInv, RedisTyped
    <2>5. CASE Ends(h)
      BY <2>3, <2>4, <2>5, AgreesStays, AfterEnding
    <2>6. CASE ~Ends(h)
      <3>1. PICK p \in {"getTouched", "putTouched"} : Goes(h, p) /\ Keeps(h)
        BY <1>2, <2>6, TouchingGoes DEF updateUserActivity
      <3>2. handler[h].pc \notin {"setSession", "getSession", "delSession", "getActive", "getLeaver"}
        BY <2>1 DEF Touching
      <3>3. p \in Commands
        BY DEF Commands
      <3> QED BY <2>4, <3>1, <3>2, <3>3, QuietAgrees, AfterGoing
    <2> QED BY <2>5, <2>6
  <1> QED BY <1>1, <1>2

LEMMA ReadingAgrees ==
  ASSUME TypeInv, NEW h \in Handlers, getUserSession(h) \/ getWorkspacePresence(h), UNCHANGED sockets, AgreesAt(h),
         NEW s \in Sockets, s = Socket(h)
  PROVE  AgreesAfter(h, s)
  <1>1. SameSocket(s)
    BY DEF getUserSession, getWorkspacePresence, ReadMembers, ReadPresence, redis, sockets, SameSocket
  <1>2. CASE getUserSession(h)
    <2>1. handler[h].pc = "getLeaver" /\ "leaveRoom" \in Commands
      BY <1>2 DEF getUserSession, At, Commands
    <2> QED BY <1>1, <1>2, <2>1, AskingAgrees DEF getUserSession
  <1>3. CASE getWorkspacePresence(h)
    <2>1. PICK p \in {"broadcast", "readPresence"} : Goes(h, p) /\ handler'[h].ws = handler[h].ws
      <3>1. CASE ReadMembers(h)
        BY <3>1, ReadMembersGoes
      <3>2. CASE ReadPresence(h)
        BY <3>2, ReadPresenceGoes
      <3> QED BY <1>3, <3>1, <3>2 DEF getWorkspacePresence
    <2>2. handler[h].pc \in {"readMembers", "readPresence"}
      BY <1>3 DEF getWorkspacePresence, ReadMembers, ReadPresence, At
    <2>3. Socket(h)' = s /\ Ws(h)' = Ws(h) /\ handler'[h].op = handler[h].op /\ handler'[h].pc = p
      BY <2>1 DEF Goes, Socket, Ws
    <2>4. AgreesAt(h)'
      BY <1>1, <2>2, <2>3 DEF AgreesAt, Agrees, SameSocket
    <2> QED BY <2>1, <2>4, AfterGoing DEF Commands
  <1> QED BY <1>2, <1>3

LEMMA OwnStepsAgree ==
  ASSUME TypeInv, NEW h \in Handlers, LeaveRoom(h) \/ AnnounceJoin(h) \/ AnnounceLeave(h), AgreesAt(h),
         NEW s \in Sockets, s = Socket(h)
  PROVE  AgreesAfter(h, s)
  <1>1. session'[s] = session[s] /\ conn'[s] = conn[s]
    BY DEF LeaveRoom, AnnounceJoin, AnnounceLeave, redis, sockets
  <1>2. CASE LeaveRoom(h)
    <2>1. Goes(h, "readMembers") /\ Keeps(h) /\ handler[h].pc = "leaveRoom" /\ handler[h].pc # None
      BY <1>2, GotoGoes DEF LeaveRoom, At, Commands, None
    <2>2. handler[h].op \in {"leave", "disconnect"}
      BY <2>1, HandlerAt, KindsOfSteps
    <2>3. rooms'[s] = rooms[s] \ {Ws(h)}
      BY <1>2 DEF LeaveRoom, TypeInv, SocketsTyped
    <2>4. Socket(h)' = s /\ Ws(h)' = Ws(h) /\ handler'[h].op = handler[h].op /\ handler'[h].pc = "readMembers"
      BY <2>1 DEF Goes, Keeps, Socket, Ws
    <2>5. AgreesAt(h)'
      BY <1>1, <2>1, <2>2, <2>3, <2>4 DEF AgreesAt
    <2> QED BY <2>1, <2>5, AfterGoing DEF Commands
  <1>3. CASE AnnounceJoin(h)
    <2>1. Ends(h) /\ handler[h].op = "join" /\ handler[h].pc = "broadcast" /\ SameSocket(s)
      BY <1>1, <1>3, FinishEnds DEF AnnounceJoin, At, sockets, SameSocket
    <2>2. Agrees(s)
      BY <2>1 DEF AgreesAt, Agrees
    <2> QED BY <2>1, <2>2, AgreesStays, AfterEnding
  <1>4. CASE AnnounceLeave(h)
    <2>1. Ends(h) /\ handler[h].op # "join" /\ handler[h].pc = "broadcast"
      BY <1>4, FinishEnds DEF AnnounceLeave, At
    <2>2. handler[h].op \in {"leave", "disconnect"}
      BY <2>1, HandlerAt, KindsOfSteps DEF Reading, None
    <2>3. joined'[s] = None
      BY <1>4 DEF AnnounceLeave, TypeInv, SocketsTyped
    <2>4. session[s] # None => conn[s] = "open"
      BY <2>1, <2>2 DEF AgreesAt
    <2>5. Agrees(s)'
      BY <1>1, <2>3, <2>4 DEF Agrees
    <2> QED BY <2>1, <2>5, AfterEnding
  <1> QED BY <1>2, <1>3, <1>4

LEMMA AgreementIdle ==
  ASSUME TypeInv, UNCHANGED vars \/ \E s \in Sockets : handleConnection(s), NEW u \in Users, Agreement(u)
  PROVE  Agreement(u)'
  <1>1. /\ Busy(u)' = Busy(u)
        /\ UNCHANGED <<joined, rooms, session, handler>>
        /\ \A t \in Sockets : conn'[t] = conn[t] \/ (conn[t] = "new" /\ conn'[t] = "open")
    BY IdleSteps DEF redis
  <1>2. SocketsOf(u)' = SocketsOf(u) /\ SocketsOf(u) \subseteq Sockets
    BY DEF SocketsOf
  <1>3. ASSUME NEW s \in Sockets, Agrees(s) PROVE Agrees(s)'
    BY <1>1, <1>3 DEF Agrees
  <1>4. \A h \in Handlers : Socket(h)' = Socket(h) /\ Ws(h)' = Ws(h)
    BY <1>1 DEF Socket, Ws
  <1>5. ASSUME NEW h \in Busy(u) PROVE AgreesAt(h)'
    <2>1. Socket(h) \in Sockets /\ AgreesAt(h) /\ h \in Handlers
      BY BusyOf DEF Agreement, SocketsOf
    <2>2. PICK s \in Sockets : s = Socket(h)
      BY <2>1
    <2>3. Agrees(s) => Agrees(s)'
      BY <1>3
    <2>4. Socket(h)' = s /\ Ws(h)' = Ws(h) /\ handler'[h] = handler[h]
      BY <1>1, <1>4, <2>1, <2>2
    <2>5. /\ joined'[s] = joined[s] /\ rooms'[s] = rooms[s] /\ session'[s] = session[s]
          /\ conn[s] = "open" => conn'[s] = "open"
          /\ conn[s] = "closed" => conn'[s] = "closed"
      BY <1>1
    <2> QED BY <2>1, <2>2, <2>3, <2>4, <2>5 DEF AgreesAt
  <1>6. ASSUME NEW s \in SocketsOf(u), \A h \in Busy(u)' : Socket(h)' # s PROVE Agrees(s)'
    <2>1. \A h \in Busy(u) : h \in Handlers
      BY DEF Busy
    <2>2. \A h \in Busy(u) : Socket(h) # s
      BY <1>1, <1>4, <1>6, <2>1
    <2> QED BY <1>2, <1>3, <2>2 DEF Agreement
  <1> QED BY <1>1, <1>2, <1>5, <1>6 DEF Agreement

LEMMA AgreementClient ==
  ASSUME InTurn, TypeInv, NEW h \in Handlers, NEW s \in Sockets, Client(h, s), NEW u \in Users, u = UserOf[s],
         Agreement(u)
  PROVE  Agreement(u)'
  <1>1. PICK op, w, pc :
          /\ Starts(h, op, s, w, pc)
          /\ \/ op = "join" /\ pc = "setSession" /\ handleJoinWorkspace(h, s, w)
             \/ op = "leave" /\ pc = "getLeaver" /\ handleLeaveWorkspace(h, s)
             \/ op = "disconnect" /\ pc = "getSession" /\ handleDisconnect(h, s)
             \/ op = "activity" /\ pc = "getActive" /\ handleActivity(h, s)
    BY ClientStarts DEF Client
  <1>2. Busy(u)' = {h} /\ Busy(u) = {} /\ SocketsOf(u)' = SocketsOf(u) /\ s \in SocketsOf(u)
    BY <1>1, BusyStarts DEF Starts, SocketsOf
  <1>3. \A t \in SocketsOf(u) : Agrees(t)
    BY <1>2 DEF Agreement
  <1>4. ASSUME NEW t \in SocketsOf(u), t # s PROVE Agrees(t)'
    BY <1>1, <1>3, <1>4, AgreesStays DEF Starts, Footprint, SocketsOf
  <1>5. /\ Socket(h)' = s /\ Ws(h)' = w /\ handler'[h].op = op /\ handler'[h].pc = pc
        /\ session'[s] = session[s]
    BY <1>1 DEF Starts, Socket, Ws, redis
  <1>6. AgreesAt(h)'
    <2>1. CASE op = "join"
      <3>1. conn'[s] = "open" /\ joined'[s] = w /\ w \in rooms'[s] /\ pc = "setSession"
        BY <1>1, <2>1 DEF handleJoinWorkspace, TypeInv, SocketsTyped
      <3> QED BY <1>5, <2>1, <3>1 DEF AgreesAt
    <2>2. CASE op = "disconnect"
      <3>1. conn'[s] = "closed" /\ rooms'[s] = {} /\ joined'[s] = joined[s] /\ pc = "getSession"
        BY <1>1, <2>2 DEF handleDisconnect, TypeInv, SocketsTyped
      <3> QED BY <1>2, <1>3, <1>5, <2>2, <3>1 DEF AgreesAt, Agrees
    <2>3. CASE op \in {"leave", "activity"}
      <3>1. SameSocket(s)
        BY <1>1, <1>5, <2>3 DEF handleLeaveWorkspace, handleActivity, sockets, SameSocket
      <3>2. Agrees(s)'
        BY <1>2, <1>3, <3>1, AgreesStays
      <3> QED BY <1>1, <1>5, <2>3, <3>2 DEF AgreesAt
    <2> QED BY <1>1, <2>1, <2>2, <2>3
  <1> QED BY <1>2, <1>4, <1>5, <1>6 DEF Agreement

LEMMA AgreementStep ==
  ASSUME InTurn, TypeInv, Turns, AgreementInv, [Next]_vars
  PROVE  AgreementInv'
  <1> SUFFICES ASSUME NEW u \in Users PROVE Agreement(u)'
    BY DEF AgreementInv
  <1>1. Agreement(u) /\ Exclusive(u)
    BY DEF AgreementInv, Turns
  <1>2. ASSUME NEW h \in Handlers, NEW s \in Sockets, Client(h, s) PROVE Agreement(u)'
    <2>1. PICK op, w, pc : Starts(h, op, s, w, pc)
      BY <1>2, ClientStarts DEF Client
    <2> QED BY <1>1, <1>2, <2>1, OthersWait, AgreementFrame, AgreementClient
  <1>3. ASSUME NEW h \in Handlers, HandlerStep(h) PROVE Agreement(u)'
    <2>1. handler[h].pc # None /\ Moves(h)
      BY <1>3, HandlerStepMoves
    <2>2. CASE u # User(h)
      BY <1>1, <2>1, <2>2, OthersUntouched, AgreementFrame
    <2>3. CASE u = User(h)
      <3>1. PICK s \in Sockets : s = Socket(h)
        BY <2>1, HandlerAt
      <3>2. AgreesAt(h)
        BY <1>1, <2>1, <2>3 DEF Agreement, Busy, IsFree
      <3>3. AgreesAfter(h, s)
        BY <1>3, <3>1, <3>2, NoRejections, JoiningAgrees, RemovingAgrees, TouchingAgrees, ReadingAgrees,
           OwnStepsAgree DEF HandlerStep
      <3> QED BY <1>1, <2>1, <2>3, <3>1, <3>3, AgreementMoves DEF AgreesAfter
    <2> QED BY <2>2, <2>3
  <1> QED BY <1>1, <1>2, <1>3, Steps, AgreementIdle

LEMMA NobodyBusyAtFirst ==
  ASSUME Init, NEW u \in Users
  PROVE  Busy(u) = {}
  BY FreeIsTyped DEF Init, Busy, IsFree

LEMMA AgreementInit == Init => Turns /\ AgreementInv
  <1> SUFFICES ASSUME Init PROVE Turns /\ AgreementInv
    OBVIOUS
  <1>1. Turns
    BY NobodyBusyAtFirst DEF Turns, Exclusive
  <1>2. \A s \in Sockets : Agrees(s)
    BY DEF Init, Agrees
  <1>3. AgreementInv
    BY <1>2, NobodyBusyAtFirst DEF AgreementInv, Agreement, SocketsOf
  <1> QED BY <1>1, <1>3

LEMMA AgreementInvariance ==
  ASSUME InTurn
  PROVE  Spec => [](TypeInv /\ Turns /\ AgreementInv)
  <1>1. Init => TypeInv /\ Turns /\ AgreementInv
    BY TypeInit, AgreementInit
  <1>2. TypeInv /\ Turns /\ AgreementInv /\ [Next]_vars => (TypeInv /\ Turns /\ AgreementInv)'
    BY TypeStep, TurnsStep, AgreementStep
  <1> QED BY <1>1, <1>2, PTL DEF Spec

LEMMA QuietUsers ==
  ASSUME Quiet, NEW u \in Users
  PROVE  Busy(u) = {}
  BY DEF Quiet, Busy

(* SocketsAgreeWithSessions: whatever workspaces the clients join, leave and *)
(* disconnect from, and however the handlers of different users interleave,  *)
(* the gateway's data of a socket, its room and its stored session agree     *)
(* when no handler runs, and no closed socket keeps a session.               *)
THEOREM GatewayAgreesWithRedis ==
  ASSUME InTurn
  PROVE  Spec => []SocketsAgreeWithSessions
  <1>1. TypeInv /\ Turns /\ AgreementInv => SocketsAgreeWithSessions
    <2> SUFFICES ASSUME AgreementInv, Quiet, NEW s \in Sockets PROVE Agrees(s)
      BY DEF SocketsAgreeWithSessions, Agrees
    <2> QED BY QuietUsers, UserOfAssumption DEF AgreementInv, Agreement, SocketsOf
  <1> QED BY <1>1, AgreementInvariance, PTL

-----------------------------------------------------------------------------
(* A user's sessions and the set that counts them                            *)

Sessions(u) == {s \in SocketsOf(u) : session[s] # None}
Adding == {"addMember", "expireMembers", "addSocket"}
Emptied == {"remMember", "delPresence", "delSockets"}

Counted(u) == userSockets[u] = Sessions(u)
CountedAt(h) ==
  LET u == User(h)
      s == Socket(h)
      pc == handler[h].pc
  IN /\ pc \in Adding => userSockets[u] \union {s} = Sessions(u)
     /\ pc = "remSocket" => userSockets[u] \ {s} = Sessions(u)
     /\ pc \notin Adding \union {"remSocket"} => Counted(u)
     /\ pc \in Emptied => Sessions(u) = {}
Counting(u) == (Busy(u) = {} => Counted(u)) /\ \A h \in Busy(u) : CountedAt(h)
CountingInv == \A u \in Users : Counting(u)

LEMMA CountingFrame ==
  ASSUME TypeInv, NEW u \in Users, Untouched(u), Counting(u)
  PROVE  Counting(u)'
  <1>1. Sessions(u)' = Sessions(u) /\ userSockets'[u] = userSockets[u] /\ Busy(u)' = Busy(u)
    BY DEF Untouched, SameSocket, Sessions, SocketsOf
  <1>2. ASSUME NEW h \in Busy(u) PROVE CountedAt(h)'
    <2>1. CountedAt(h) /\ handler'[h] = handler[h] /\ User(h) = u
      BY BusyOf DEF Counting, Untouched, SameHandler
    <2>2. User(h)' = u /\ Socket(h)' = Socket(h)
      BY <2>1 DEF User, Socket
    <2> QED BY <1>1, <2>1, <2>2 DEF CountedAt, Counted
  <1> QED BY <1>1, <1>2 DEF Counting, Counted

LEMMA CountingIdle ==
  ASSUME TypeInv, UNCHANGED vars \/ \E s \in Sockets : handleConnection(s), NEW u \in Users, Counting(u)
  PROVE  Counting(u)'
  <1>1. Busy(u)' = Busy(u) /\ UNCHANGED <<session, userSockets, handler>>
    BY IdleSteps DEF redis
  <1>2. Sessions(u)' = Sessions(u)
    BY <1>1 DEF Sessions, SocketsOf
  <1>3. ASSUME NEW h \in Busy(u) PROVE CountedAt(h)'
    BY <1>1, <1>2, BusyOf DEF Counting, CountedAt, Counted, User, Socket
  <1> QED BY <1>1, <1>2, <1>3 DEF Counting, Counted

LEMMA CountingClient ==
  ASSUME InTurn, TypeInv, NEW h \in Handlers, NEW s \in Sockets, Client(h, s), NEW u \in Users, u = UserOf[s],
         Counting(u)
  PROVE  Counting(u)'
  <1>1. PICK op, w, pc : Starts(h, op, s, w, pc) /\ pc \in {"setSession", "getLeaver", "getSession", "getActive"}
    BY ClientStarts DEF Client
  <1>2. Busy(u)' = {h} /\ Counted(u)
    BY <1>1, BusyStarts DEF Starts, Counting
  <1>3. Counted(u)'
    BY <1>1, <1>2 DEF Starts, redis, Counted, Sessions, SocketsOf
  <1>4. User(h)' = u /\ handler'[h].pc = pc
    BY <1>1 DEF Starts, User, Socket
  <1>5. CountedAt(h)'
    BY <1>1, <1>3, <1>4 DEF CountedAt, Adding, Emptied
  <1> QED BY <1>2, <1>5 DEF Counting

LEMMA CountingMoves ==
  ASSUME TypeInv, NEW h \in Handlers, handler[h].pc # None, Moves(h), NEW u \in Users, u = User(h), Exclusive(u),
         (\E p \in Commands : Goes(h, p)) => CountedAt(h)', Ends(h) => Counted(u)'
  PROVE  Counting(u)'
  <1>1. Busy(u) = {h}
    BY DEF Exclusive, Busy, IsFree
  <1>2. CASE \E p \in Commands : Goes(h, p)
    BY <1>1, <1>2, BusyGoes DEF Counting
  <1>3. CASE Ends(h)
    BY <1>1, <1>3, BusyEnds DEF Counting
  <1> QED BY <1>2, <1>3 DEF Moves

CountsAfter(h, u) ==
  /\ (\E p \in Commands : Goes(h, p)) => CountedAt(h)'
  /\ Ends(h) => Counted(u)'

(* A handler goes on at p; what is left to show are four cases of p.         *)
LEMMA CountGoes ==
  ASSUME TypeInv, NEW h \in Handlers, NEW p \in Commands, Goes(h, p), NEW u, u = User(h), NEW s, s = Socket(h),
         p \in Adding => userSockets'[u] \union {s} = Sessions(u)',
         p = "remSocket" => userSockets'[u] \ {s} = Sessions(u)',
         p \notin Adding \union {"remSocket"} => Counted(u)',
         p \in Emptied => Sessions(u)' = {}
  PROVE  CountsAfter(h, u)
  <1>1. handler'[h].pc = p /\ User(h)' = u /\ Socket(h)' = s
    BY DEF Goes, User, Socket
  <1>2. CountedAt(h)'
    BY <1>1 DEF CountedAt
  <1> QED BY <1>2, GoesIsNotEnds DEF CountsAfter

LEMMA JoiningCounts ==
  ASSUME TypeInv, NEW h \in Handlers, addUserSession(h), CountedAt(h), NEW u \in Users, u = User(h),
         NEW s \in Sockets, s = Socket(h)
  PROVE  CountsAfter(h, u)
  <1>1. s \in SocketsOf(u) /\ SocketsOf(u)' = SocketsOf(u)
    BY DEF SocketsOf, User
  <1>2. CASE SetSession(h)
    <2>1. Goes(h, "addMember") /\ handler[h].pc = "setSession" /\ handler[h].pc # None /\ handler[h].pc \notin Asking
      BY <1>2, JoiningGoes DEF SetSession, At, None, Asking
    <2>2. userSockets'[u] = userSockets[u] /\ Counted(u)
      BY <1>2, <2>1 DEF SetSession, CountedAt, Adding
    <2>3. Ws(h) \in Workspaces
      BY <2>1, HandlerAt
    <2>4. \A t \in Sockets : session'[t] = IF t = s THEN Ws(h) ELSE session[t]
      BY <1>2 DEF SetSession, TypeInv, RedisTyped
    <2>5. Ws(h) # None
      BY <2>3, NoneAssumption
    <2>6. Sessions(u)' = Sessions(u) \union {s}
      BY <1>1, <2>4, <2>5 DEF Sessions, SocketsOf
    <2> QED BY <2>1, <2>2, <2>6, CountGoes DEF Counted, Adding, Commands, Emptied
  <1>3. CASE AddMember(h) \/ ExpireMembers(h)
    <2>1. PICK p \in {"expireMembers", "addSocket"} : Goes(h, p) /\ handler[h].pc \in Adding
      BY <1>3, JoiningGoes DEF AddMember, ExpireMembers, At, Adding
    <2>2. userSockets' = userSockets /\ Sessions(u)' = Sessions(u)
      BY <1>1, <1>3 DEF AddMember, ExpireMembers, Sessions
    <2>3. p \in Commands /\ p \in Adding /\ p \notin Emptied /\ p # "remSocket"
      BY DEF Commands, Adding, Emptied
    <2>4. userSockets[u] \union {s} = Sessions(u)
      BY <2>1 DEF CountedAt
    <2> QED BY <2>1, <2>2, <2>3, <2>4, CountGoes
  <1>4. CASE AddSocket(h)
    <2>1. Goes(h, "expireSockets") /\ handler[h].pc \in Adding
      BY <1>4, JoiningGoes DEF AddSocket, At, Adding
    <2>2. userSockets'[u] = userSockets[u] \union {s} /\ Sessions(u)' = Sessions(u)
      BY <1>1, <1>4 DEF AddSocket, Sessions, TypeInv, RedisTyped
    <2>3. userSockets[u] \union {s} = Sessions(u)
      BY <2>1 DEF CountedAt
    <2> QED BY <2>1, <2>2, <2>3, CountGoes DEF Counted, Adding, Commands, Emptied
  <1>5. CASE ExpireSockets(h) \/ SetPresence(h)
    <2>1. PICK p \in {"setPresence", "readMembers"} :
            Goes(h, p) /\ handler[h].pc \in {"expireSockets", "setPresence"}
      BY <1>5, JoiningGoes DEF ExpireSockets, SetPresence, At
    <2>2. userSockets' = userSockets /\ Sessions(u)' = Sessions(u)
      BY <1>1, <1>5 DEF ExpireSockets, SetPresence, Sessions
    <2>3. Counted(u)
      BY <2>1 DEF CountedAt, Adding
    <2> QED BY <2>1, <2>2, <2>3, CountGoes DEF Counted, Adding, Commands, Emptied
  <1> QED BY <1>2, <1>3, <1>4, <1>5 DEF addUserSession

LEMMA RemovingCounts ==
  ASSUME TypeInv, NEW h \in Handlers, removeUserSession(h), CountedAt(h), NEW u \in Users, u = User(h),
         NEW s \in Sockets, s = Socket(h)
  PROVE  CountsAfter(h, u)
  <1>1. s \in SocketsOf(u) /\ SocketsOf(u)' = SocketsOf(u)
    BY DEF SocketsOf, User
  <1>2. CASE GetSession(h)
    <2>1. handler[h].pc = "getSession" /\ UNCHANGED <<session, userSockets>>
      BY <1>2 DEF GetSession, At, redis
    <2>2. Counted(u) /\ Counted(u)'
      BY <1>1, <2>1 DEF CountedAt, Counted, Sessions, Adding
    <2>3. Ends(h) \/ Goes(h, "delSession")
      BY <1>2, <2>1, SessionGoes DEF GetSession, None, Commands
    <2> QED BY <2>2, <2>3, CountGoes, GoesIsNotEnds DEF CountsAfter, Adding, Commands, Emptied
  <1>3. CASE DelSession(h)
    <2>1. Goes(h, "remSocket") /\ handler[h].pc = "delSession"
      BY <1>3, RemovingGoes DEF DelSession, At
    <2>2. userSockets' = userSockets /\ \A t \in Sockets : session'[t] = IF t = s THEN None ELSE session[t]
      BY <1>3 DEF DelSession, TypeInv, RedisTyped
    <2>3. Counted(u)
      BY <2>1 DEF CountedAt, Adding
    <2>4. Sessions(u)' = Sessions(u) \ {s}
      BY <1>1, <2>2 DEF Sessions, SocketsOf
    <2> QED BY <2>1, <2>2, <2>3, <2>4, CountGoes DEF Counted, Adding, Commands, Emptied
  <1>4. CASE RemSocket(h)
    <2>1. Goes(h, "checkSockets") /\ handler[h].pc = "remSocket"
      BY <1>4, RemovingGoes DEF RemSocket, At
    <2>2. userSockets'[u] = userSockets[u] \ {s} /\ Sessions(u)' = Sessions(u)
      BY <1>1, <1>4 DEF RemSocket, Sessions, TypeInv, RedisTyped
    <2>3. userSockets[u] \ {s} = Sessions(u)
      BY <2>1 DEF CountedAt
    <2> QED BY <2>1, <2>2, <2>3, CountGoes DEF Counted, Adding, Commands, Emptied
  <1>5. CASE CheckSockets(h)
    <2>1. PICK p \in {"remMember", "getPresence"} : Goes(h, p) /\ (p = "remMember" => userSockets[u] = {})
      BY <1>5, RemovingGoes
    <2>2. handler[h].pc = "checkSockets" /\ UNCHANGED <<session, userSockets>>
      BY <1>5 DEF CheckSockets, At, redis
    <2>3. Sessions(u)' = Sessions(u) /\ Counted(u)
      BY <1>1, <2>2 DEF Sessions, CountedAt, Adding
    <2> QED BY <2>1, <2>2, <2>3, CountGoes DEF Counted, Adding, Commands, Emptied
  <1>6. CASE RemMember(h) \/ DelPresence(h)
    <2>1. PICK p \in {"delPresence", "delSockets"} : Goes(h, p)
      BY <1>6, RemovingGoes
    <2>2. handler[h].pc \in Emptied /\ UNCHANGED <<session, userSockets>>
      BY <1>6 DEF RemMember, DelPresence, At, Emptied
    <2>3. Sessions(u)' = Sessions(u) /\ Counted(u) /\ Sessions(u) = {}
      BY <1>1, <2>2 DEF Sessions, CountedAt, Adding, Emptied
    <2> QED BY <2>1, <2>2, <2>3, CountGoes DEF Counted, Adding, Commands, Emptied
  <1>7. CASE DelSockets(h)
    <2>1. Goes(h, "leaveRoom") /\ handler[h].pc \in Emptied
      BY <1>7, RemovingGoes DEF DelSockets, At, Emptied
    <2>2. userSockets'[u] = {} /\ Sessions(u)' = Sessions(u) /\ Sessions(u) = {}
      BY <1>1, <1>7, <2>1 DEF DelSockets, Sessions, CountedAt, TypeInv, RedisTyped
    <2> QED BY <2>1, <2>2, CountGoes DEF Counted, Adding, Commands, Emptied
  <1>8. CASE GetPresence(h) \/ PutPresence(h)
    <2>1. PICK p \in {"putPresence", "leaveRoom"} : Goes(h, p)
      BY <1>8, RemovingGoes
    <2>2. handler[h].pc \in {"getPresence", "putPresence"} /\ UNCHANGED <<session, userSockets>>
      BY <1>8 DEF GetPresence, PutPresence, At, redis
    <2>3. Sessions(u)' = Sessions(u) /\ Counted(u)
      BY <1>1, <2>2 DEF Sessions, CountedAt, Adding
    <2> QED BY <2>1, <2>2, <2>3, CountGoes DEF Counted, Adding, Commands, Emptied
  <1> QED BY <1>2, <1>3, <1>4, <1>5, <1>6, <1>7, <1>8 DEF removeUserSession

(* Elsewhere the sessions and the set stay as they are.                      *)
LEMMA QuietCounts ==
  ASSUME TypeInv, NEW h \in Handlers, Moves(h), CountedAt(h), NEW u \in Users, u = User(h),
         session' = session, userSockets' = userSockets,
         handler[h].pc \in Touching \union Asking \union Reading \union {"leaveRoom"},
         \A p \in Commands : Goes(h, p) => p \notin Adding \union {"remSocket"} \union Emptied
  PROVE  CountsAfter(h, u)
  <1>1. Counted(u) /\ Counted(u)'
    BY DEF CountedAt, Counted, Sessions, SocketsOf, Touching, Asking, Reading, Adding
  <1>2. CASE Ends(h)
    BY <1>1, <1>2, GoesIsNotEnds DEF CountsAfter
  <1>3. CASE \E p \in Commands : Goes(h, p)
    BY <1>1, <1>3, CountGoes
  <1> QED BY <1>2, <1>3 DEF Moves

LEMMA OthersCount ==
  ASSUME TypeInv, NEW h \in Handlers, Moves(h), CountedAt(h), AgreesAt(h), NEW u \in Users, u = User(h),
         \/ updateUserActivity(h) \/ getUserSession(h) \/ getWorkspacePresence(h)
         \/ LeaveRoom(h) \/ AnnounceJoin(h) \/ AnnounceLeave(h)
  PROVE  CountsAfter(h, u)
  <1>1. handler[h].pc \in Touching \union {"getActive", "getLeaver"} \union Reading \union {"leaveRoom"}
    BY DEF updateUserActivity, GetActive, TouchSession, GetTouched, PutTouched, getUserSession,
           getWorkspacePresence, ReadMembers, ReadPresence, LeaveRoom, AnnounceJoin, AnnounceLeave, At, Touching,
           Reading
  <1>2. userSockets' = userSockets
    BY DEF updateUserActivity, GetActive, TouchSession, GetTouched, PutTouched, getUserSession,
           getWorkspacePresence, ReadMembers, ReadPresence, LeaveRoom, AnnounceJoin, AnnounceLeave, redis
  <1>3. session' = session
    <2>1. CASE TouchSession(h)
      <3>1. handler[h].pc = "touchSession" /\ handler[h].pc # None
        BY <2>1 DEF TouchSession, At, None
      <3>2. handler[h].op = "activity"
        BY <3>1, HandlerAt, KindsOfSteps DEF Touching
      <3>3. session[Socket(h)] = Ws(h)
        BY <3>1, <3>2 DEF AgreesAt
      <3> QED BY <2>1, <3>3 DEF TouchSession, TypeInv, RedisTyped
    <2>2. CASE ~TouchSession(h)
      BY <2>2 DEF updateUserActivity, GetActive, GetTouched, PutTouched, getUserSession,
           getWorkspacePresence, ReadMembers, ReadPresence, LeaveRoom, AnnounceJoin, AnnounceLeave, redis
    <2> QED BY <2>1, <2>2
  <1>4. ASSUME NEW p \in Commands, Goes(h, p)
        PROVE  p \notin Adding \union {"remSocket"} \union Emptied
    <2>1. handler'[h].pc = p /\ p # None /\ ~Ends(h)
      BY <1>4, GoesIsNotEnds DEF Goes, Commands, None
    <2>2. CASE GetActive(h) \/ getUserSession(h)
      BY <2>1, <2>2, SessionGoes DEF GetActive, getUserSession, At, None, Commands, Goes, Adding, Emptied
    <2>3. CASE TouchSession(h) \/ GetTouched(h) \/ PutTouched(h)
      BY <2>1, <2>3, TouchingGoes DEF Goes, Adding, Emptied
    <2>4. CASE ReadMembers(h)
      BY <2>1, <2>4, ReadMembersGoes DEF Goes, Adding, Emptied
    <2>5. CASE ReadPresence(h)
      BY <2>1, <2>5, ReadPresenceGoes DEF Goes, Adding, Emptied
    <2>6. CASE LeaveRoom(h) \/ AnnounceJoin(h) \/ AnnounceLeave(h)
      <3>1. "readMembers" \in Commands
        BY DEF Commands
      <3>2. Ends(h) \/ Goes(h, "readMembers")
        BY <2>6, <3>1, GotoGoes, FinishEnds DEF LeaveRoom, AnnounceJoin, AnnounceLeave
      <3> QED BY <2>1, <3>2 DEF Goes, Adding, Emptied
    <2> QED BY <2>2, <2>3, <2>4, <2>5, <2>6 DEF updateUserActivity, getWorkspacePresence
  <1> QED BY <1>1, <1>2, <1>3, <1>4, QuietCounts DEF Asking

LEMMA HandlerStepKinds ==
  ASSUME InTurn, NEW h \in Handlers, HandlerStep(h)
  PROVE  \/ addUserSession(h) /\ UNCHANGED <<sockets, announced>>
         \/ removeUserSession(h) /\ UNCHANGED <<sockets, announced>>
         \/ updateUserActivity(h) /\ UNCHANGED <<sockets, announced>>
         \/ getUserSession(h) /\ UNCHANGED <<sockets, announced>>
         \/ getWorkspacePresence(h) /\ UNCHANGED <<sockets, announced>>
         \/ LeaveRoom(h) \/ AnnounceJoin(h) \/ AnnounceLeave(h)
  BY NoRejections DEF HandlerStep

LEMMA CountingStep ==
  ASSUME InTurn, TypeInv, Turns, AgreementInv, CountingInv, [Next]_vars
  PROVE  CountingInv'
  <1> SUFFICES ASSUME NEW u \in Users PROVE Counting(u)'
    BY DEF CountingInv
  <1>1. Counting(u) /\ Exclusive(u) /\ Agreement(u)
    BY DEF CountingInv, Turns, AgreementInv
  <1>2. ASSUME NEW h \in Handlers, NEW s \in Sockets, Client(h, s) PROVE Counting(u)'
    <2>1. PICK op, w, pc : Starts(h, op, s, w, pc)
      BY <1>2, ClientStarts DEF Client
    <2> QED BY <1>1, <1>2, <2>1, OthersWait, CountingFrame, CountingClient
  <1>3. ASSUME NEW h \in Handlers, HandlerStep(h) PROVE Counting(u)'
    <2>1. handler[h].pc # None /\ Moves(h)
      BY <1>3, HandlerStepMoves
    <2>2. CASE u # User(h)
      BY <1>1, <2>1, <2>2, OthersUntouched, CountingFrame
    <2>3. CASE u = User(h)
      <3>1. PICK s \in Sockets : s = Socket(h)
        BY <2>1, HandlerAt
      <3>2. AgreesAt(h) /\ CountedAt(h)
        BY <1>1, <2>1, <2>3 DEF Agreement, Counting, Busy, IsFree
      <3>3. CountsAfter(h, u)
        BY <1>3, <2>1, <2>3, <3>1, <3>2, HandlerStepKinds, JoiningCounts, RemovingCounts, OthersCount
      <3> QED BY <1>1, <2>1, <2>3, <3>3, CountingMoves DEF CountsAfter
    <2> QED BY <2>2, <2>3
  <1> QED BY <1>1, <1>2, <1>3, Steps, CountingIdle

LEMMA CountingInit == Init => CountingInv
  <1> SUFFICES ASSUME Init, NEW u \in Users PROVE Counting(u)
    BY DEF CountingInv
  <1>1. Counted(u)
    BY DEF Init, Counted, Sessions, SocketsOf
  <1> QED BY <1>1, NobodyBusyAtFirst DEF Counting

TurnInv == TypeInv /\ Turns /\ AgreementInv /\ CountingInv

LEMMA CountingInvariance ==
  ASSUME InTurn
  PROVE  Spec => []TurnInv
  <1>1. Init => TurnInv
    BY TypeInit, AgreementInit, CountingInit DEF TurnInv
  <1>2. TurnInv /\ [Next]_vars => TurnInv'
    BY TypeStep, TurnsStep, AgreementStep, CountingStep DEF TurnInv
  <1> QED BY <1>1, <1>2, PTL DEF Spec

(* SessionsAreCounted: when no handler runs, the set that removeUserSession  *)
(* looks at for the sessions a user has left is exactly the set of the       *)
(* user's sockets with a session.                                            *)
THEOREM RemainingSessionsAreKnown ==
  ASSUME InTurn
  PROVE  Spec => []SessionsAreCounted
  <1>1. TurnInv => SessionsAreCounted
    <2> SUFFICES ASSUME CountingInv, Quiet, NEW u \in Users PROVE Counted(u)
      BY DEF TurnInv, SessionsAreCounted, Counted, Sessions, SocketsOf
    <2> QED BY QuietUsers DEF CountingInv, Counting
  <1> QED BY <1>1, CountingInvariance, PTL

-----------------------------------------------------------------------------
(* Who is listed, when every user is in one workspace at a time              *)

InOnePlace == Behaviours \intersect {"elsewhere", "leave"} = {}

IsListed(u, w) == u \in members[w] /\ presence[w][u].live
IsUnlisted(u, w) == u \notin members[w] /\ ~presence[w][u].live
IsIn(u, w) == \E s \in SocketsOf(u) : session[s] = w
OneWorkspace(u) == \A s, t \in Sessions(u) : session[s] = session[t]

(* The user is listed in the workspaces of the sessions, and in no other.    *)
Settled(u) == \A w \in Workspaces : IF IsIn(u, w) THEN IsListed(u, w) ELSE IsUnlisted(u, w)
(* All there is of the user is in w.                                         *)
Only(u, w) == /\ \A s \in Sessions(u) : session[s] = w
              /\ \A v \in Workspaces : v # w => IsUnlisted(u, v)

Narrow == Joining \union (Removing \ {"delSession"})
Lists(u, w, pc) ==
  /\ pc \in Narrow => Only(u, w)
  /\ pc \notin Narrow => Settled(u)
  /\ pc \in {"expireMembers", "addSocket", "expireSockets", "setPresence"} => u \in members[w]
  /\ pc \in {"remSocket", "checkSockets", "getPresence", "putPresence"} => IsListed(u, w)
  /\ pc \in {"getPresence", "putPresence"} => Sessions(u) # {}
  /\ pc \in {"delPresence", "delSockets"} => u \notin members[w]
  /\ pc = "delSockets" => ~presence[w][u].live
ListsAt(h) == Lists(User(h), Ws(h), handler[h].pc)

Listing(u) ==
  /\ OneWorkspace(u)
  /\ Busy(u) = {} => Settled(u)
  /\ \A h \in Busy(u) : ListsAt(h)
ListingInv == \A u \in Users : Listing(u)

(* What an untouched user keeps.                                             *)
SameSessions(u) == \A s \in SocketsOf(u) : session'[s] = session[s]

LEMMA QuietListing ==
  ASSUME NEW u \in Users, SameSessions(u), SameListing(u)
  PROVE  /\ Sessions(u)' = Sessions(u)
         /\ \A w \in Workspaces : (IsListed(u, w)' <=> IsListed(u, w)) /\ (IsUnlisted(u, w)' <=> IsUnlisted(u, w))
         /\ \A w \in Workspaces : IsIn(u, w)' <=> IsIn(u, w)
         /\ Settled(u)' <=> Settled(u)
         /\ OneWorkspace(u)' <=> OneWorkspace(u)
         /\ \A w \in Workspaces : Only(u, w)' <=> Only(u, w)
         /\ \A w \in Workspaces, pc \in Commands \union {None} : Lists(u, w, pc)' <=> Lists(u, w, pc)
  <1>1. Sessions(u)' = Sessions(u) /\ Sessions(u) \subseteq SocketsOf(u) /\ SocketsOf(u)' = SocketsOf(u)
    BY DEF SameSessions, Sessions, SocketsOf
  <1>2. \A w \in Workspaces : (IsListed(u, w)' <=> IsListed(u, w)) /\ (IsUnlisted(u, w)' <=> IsUnlisted(u, w))
    BY DEF SameListing, IsListed, IsUnlisted
  <1>3. \A w \in Workspaces : IsIn(u, w)' <=> IsIn(u, w)
    BY <1>1 DEF SameSessions, IsIn
  <1>4. Settled(u)' <=> Settled(u)
    BY <1>2, <1>3 DEF Settled
  <1>5. OneWorkspace(u)' <=> OneWorkspace(u)
    BY <1>1 DEF OneWorkspace, SameSessions
  <1>6. \A w \in Workspaces : Only(u, w)' <=> Only(u, w)
    BY <1>1, <1>2 DEF Only, SameSessions
  <1>7. ASSUME NEW w \in Workspaces, NEW pc \in Commands \union {None} PROVE Lists(u, w, pc)' <=> Lists(u, w, pc)
    <2>1. /\ (u \in members'[w] <=> u \in members[w]) /\ (presence'[w][u].live <=> presence[w][u].live)
      BY DEF SameListing
    <2> QED BY <1>1, <1>2, <1>4, <1>6, <2>1 DEF Lists
  <1> QED BY <1>1, <1>2, <1>3, <1>4, <1>5, <1>6, <1>7

(* A handler that asks for its session first has no workspace yet.           *)
LEMMA AskingLists ==
  ASSUME NEW u, NEW w, NEW pc \in Asking \union {"touchSession", "getTouched", "putTouched", "leaveRoom", "delSession"}
                                    \union Reading
  PROVE  (Lists(u, w, pc) <=> Settled(u)) /\ (Lists(u, w, pc)' <=> Settled(u)')
  BY DEF Lists, Asking, Reading, Narrow, Joining, Removing

LEMMA ListingFrame ==
  ASSUME TypeInv, NEW u \in Users, SameSessions(u), SameListing(u), Busy(u)' = Busy(u),
         \A h \in Busy(u) : SameHandler(h), Listing(u)
  PROVE  Listing(u)'
  <1>1. ASSUME NEW h \in Busy(u) PROVE ListsAt(h)'
    <2>1. /\ ListsAt(h) /\ User(h) = u /\ handler'[h] = handler[h] /\ h \in Handlers /\ handler[h].pc # None
          /\ handler[h] \in Slots
      BY BusyOf DEF Listing, SameHandler, TypeInv, HandlersTyped
    <2>2. PICK pc \in Commands, w \in Workspaces \union {None} : pc = handler[h].pc /\ w = Ws(h)
      BY <2>1 DEF Slots, Ws
    <2>3. User(h)' = u /\ Ws(h)' = w /\ handler'[h].pc = pc
      BY <2>1, <2>2 DEF User, Ws, Socket
    <2>4. Lists(u, w, pc)
      BY <2>1, <2>2 DEF ListsAt
    <2>5. Lists(u, w, pc)'
      <3>1. CASE pc \in Asking
        BY <2>4, <3>1, AskingLists, QuietListing
      <3>2. CASE pc \notin Asking
        <4>1. w \in Workspaces
          BY <2>1, <2>2, <3>2, HandlerAt
        <4> QED BY <2>4, <4>1, QuietListing
      <3> QED BY <3>1, <3>2
    <2> QED BY <2>3, <2>5 DEF ListsAt
  <1> QED BY <1>1, QuietListing DEF Listing

LEMMA ListingMoves ==
  ASSUME TypeInv, NEW h \in Handlers, handler[h].pc # None, Moves(h), NEW u \in Users, u = User(h), Exclusive(u),
         (\E p \in Commands : Goes(h, p)) => ListsAt(h)', Ends(h) => Settled(u)', OneWorkspace(u)'
  PROVE  Listing(u)'
  <1>1. Busy(u) = {h}
    BY DEF Exclusive, Busy, IsFree
  <1>2. CASE \E p \in Commands : Goes(h, p)
    BY <1>1, <1>2, BusyGoes DEF Listing
  <1>3. CASE Ends(h)
    BY <1>1, <1>3, BusyEnds DEF Listing
  <1> QED BY <1>2, <1>3 DEF Moves

ListsAfter(h, u) ==
  /\ (\E p \in Commands : Goes(h, p)) => ListsAt(h)'
  /\ Ends(h) => Settled(u)'
  /\ OneWorkspace(u)'

LEMMA ListGoes ==
  ASSUME TypeInv, NEW h \in Handlers, NEW p \in Commands, Goes(h, p), NEW u, u = User(h), NEW w,
         handler'[h].ws = w, Lists(u, w, p)', OneWorkspace(u)'
  PROVE  ListsAfter(h, u)
  <1>1. handler'[h].pc = p /\ User(h)' = u /\ Ws(h)' = w
    BY DEF Goes, User, Socket, Ws
  <1>2. ListsAt(h)'
    BY <1>1 DEF ListsAt
  <1> QED BY <1>2, GoesIsNotEnds DEF ListsAfter

(* What a step leaves in one workspace.                                      *)
LEMMA OnlyMeansOne ==
  ASSUME NEW u, NEW w, Only(u, w)'
  PROVE  OneWorkspace(u)'
  BY DEF Only, OneWorkspace

LEMMA OnlySettles ==
  ASSUME NEW u \in Users, NEW w \in Workspaces, Only(u, w)',
         IF IsIn(u, w)' THEN IsListed(u, w)' ELSE IsUnlisted(u, w)'
  PROVE  Settled(u)' /\ OneWorkspace(u)'
  <1>1. ASSUME NEW v \in Workspaces, v # w PROVE ~IsIn(u, v)'
    BY <1>1, NoneAssumption DEF Only, IsIn, Sessions
  <1> QED BY <1>1, OnlyMeansOne DEF Settled, Only

LEMMA ListEnds ==
  ASSUME TypeInv, NEW h \in Handlers, Ends(h), NEW u, Settled(u)', OneWorkspace(u)'
  PROVE  ListsAfter(h, u)
  BY GoesIsNotEnds DEF ListsAfter

(* A step that changes no session and no list of the user.                   *)
LEMMA QuietGoes ==
  ASSUME TypeInv, NEW h \in Handlers, NEW p \in Commands, Goes(h, p), NEW u \in Users, u = User(h),
         NEW w \in Workspaces, handler'[h].ws = w, SameSessions(u), SameListing(u), OneWorkspace(u), Lists(u, w, p)
  PROVE  ListsAfter(h, u)
  BY QuietListing, ListGoes

LEMMA QuietEnds ==
  ASSUME TypeInv, NEW h \in Handlers, Ends(h), NEW u \in Users, SameSessions(u), SameListing(u), OneWorkspace(u),
         Settled(u)
  PROVE  ListsAfter(h, u)
  BY QuietListing, ListEnds

LEMMA JoiningLists ==
  ASSUME TypeInv, NEW h \in Handlers, addUserSession(h), ListsAt(h), AgreesAt(h), NEW u \in Users, u = User(h),
         OneWorkspace(u), NEW s \in Sockets, s = Socket(h), NEW w \in Workspaces, w = Ws(h)
  PROVE  ListsAfter(h, u)
  <1>1. s \in SocketsOf(u) /\ SocketsOf(u)' = SocketsOf(u) /\ SocketsOf(u) \subseteq Sockets
    BY DEF SocketsOf, User
  <1>2. handler[h].pc \in Joining /\ handler[h].pc # None
    BY DEF addUserSession, SetSession, AddMember, ExpireMembers, AddSocket, ExpireSockets, SetPresence, At,
           Joining, None
  <1>3. handler[h].op = "join" /\ Only(u, w)
    BY <1>2, HandlerAt, KindsOfSteps DEF ListsAt, Lists, Narrow
  <1>4. CASE SetSession(h)
    <2>1. Goes(h, "addMember") /\ handler'[h].ws = w
      BY <1>4, JoiningGoes DEF Keeps, Ws
    <2>2. /\ \A t \in Sockets : session'[t] = IF t = s THEN w ELSE session[t]
          /\ UNCHANGED <<members, presence>>
      BY <1>4 DEF SetSession, TypeInv, RedisTyped
    <2>3. Only(u, w)'
      BY <1>1, <1>3, <2>2 DEF Only, Sessions, IsUnlisted
    <2>4. Lists(u, w, "addMember")'
      BY <2>3 DEF Lists, Narrow, Joining
    <2> QED BY <2>1, <2>3, <2>4, OnlyMeansOne, ListGoes DEF Commands
  <1>5. CASE AddMember(h)
    <2>1. Goes(h, "expireMembers") /\ handler'[h].ws = w
      BY <1>5, JoiningGoes DEF Keeps, Ws
    <2>2. /\ \A v \in Workspaces : members'[v] = IF v = w THEN members[v] \union {u} ELSE members[v]
          /\ UNCHANGED <<session, presence>>
      BY <1>5 DEF AddMember, TypeInv, RedisTyped
    <2>3. Only(u, w)'
      BY <1>3, <2>2 DEF Only, Sessions, IsUnlisted, SocketsOf
    <2>4. Lists(u, w, "expireMembers")'
      BY <2>2, <2>3 DEF Lists, Narrow, Joining
    <2> QED BY <2>1, <2>3, <2>4, OnlyMeansOne, ListGoes DEF Commands
  <1>6. CASE ExpireMembers(h) \/ AddSocket(h) \/ ExpireSockets(h)
    <2>1. PICK p \in {"addSocket", "expireSockets", "setPresence"} : Goes(h, p) /\ handler'[h].ws = w
      BY <1>6, JoiningGoes DEF Keeps, Ws
    <2>2. /\ handler[h].pc \in {"expireMembers", "addSocket", "expireSockets"}
          /\ UNCHANGED <<session, members, presence>>
      BY <1>6 DEF ExpireMembers, AddSocket, ExpireSockets, At
    <2>3. SameSessions(u) /\ SameListing(u)
      BY <2>2 DEF SameSessions, SameListing
    <2>4. u \in members[w]
      BY <2>2 DEF ListsAt, Lists
    <2>5. Lists(u, w, p)
      BY <1>3, <2>4 DEF Lists, Narrow, Joining
    <2>6. p \in Commands
      BY DEF Commands
    <2> QED BY <2>1, <2>3, <2>5, <2>6, QuietGoes
  <1>7. CASE SetPresence(h)
    <2>1. Goes(h, "readMembers") /\ handler'[h].ws = w /\ handler[h].pc = "setPresence"
      BY <1>7, JoiningGoes DEF Keeps, Ws, SetPresence, At
    <2>2. presence' = [presence EXCEPT ![w][u] = Recorded({s})] /\ UNCHANGED <<session, members>>
      BY <1>7 DEF SetPresence
    <2>3. /\ presence'[w][u].live
          /\ \A v \in Workspaces : v # w => presence'[v][u] = presence[v][u]
      BY <2>2 DEF Recorded, TypeInv, RedisTyped
    <2>4. Only(u, w)'
      BY <1>3, <2>2, <2>3 DEF Only, Sessions, IsUnlisted, SocketsOf
    <2>5. u \in members[w] /\ session[s] = w
      BY <1>3, <2>1 DEF ListsAt, Lists, AgreesAt
    <2>6. IsIn(u, w)' /\ IsListed(u, w)'
      BY <1>1, <2>2, <2>3, <2>5 DEF IsIn, IsListed
    <2>7. Settled(u)' /\ OneWorkspace(u)'
      BY <2>4, <2>6, OnlySettles
    <2>8. Lists(u, w, "readMembers")'
      BY <2>7, AskingLists DEF Reading
    <2> QED BY <2>1, <2>7, <2>8, ListGoes DEF Commands
  <1> QED BY <1>4, <1>5, <1>6, <1>7 DEF addUserSession

LEMMA AskingListsOn ==
  ASSUME TypeInv, NEW h \in Handlers, NEW u \in Users, u = User(h), OneWorkspace(u), Settled(u), UNCHANGED redis,
         handler[h].pc # None, NEW p \in {"delSession", "touchSession", "leaveRoom"},
         IF session[Socket(h)] = None THEN Finish(h)
         ELSE handler' = [handler EXCEPT ![h].ws = session[Socket(h)], ![h].pc = p]
  PROVE  ListsAfter(h, u)
  <1>1. SameSessions(u) /\ SameListing(u)
    BY DEF SameSessions, SameListing, redis
  <1>2. CASE session[Socket(h)] = None
    BY <1>1, <1>2, FinishEnds, QuietEnds
  <1>3. CASE session[Socket(h)] # None
    <2>1. p \in Commands
      BY DEF Commands
    <2>2. Goes(h, p) /\ handler'[h].ws = session[Socket(h)]
      BY <1>3, <2>1, SessionGoes
    <2>3. session[Socket(h)] \in Workspaces
      BY <1>3, HandlerAt DEF TypeInv, RedisTyped
    <2>4. PICK w \in Workspaces : w = session[Socket(h)]
      BY <2>3
    <2>5. Lists(u, w, p)
      BY AskingLists
    <2> QED BY <1>1, <2>1, <2>2, <2>4, <2>5, QuietGoes
  <1> QED BY <1>2, <1>3

LEMMA RemovingLists ==
  ASSUME TypeInv, NEW h \in Handlers, removeUserSession(h), ListsAt(h), AgreesAt(h), CountedAt(h),
         NEW u \in Users, u = User(h), OneWorkspace(u), NEW s \in Sockets, s = Socket(h)
  PROVE  ListsAfter(h, u)
  <1>1. s \in SocketsOf(u) /\ SocketsOf(u)' = SocketsOf(u) /\ SocketsOf(u) \subseteq Sockets
    BY DEF SocketsOf, User
  <1>2. handler[h].pc \in Removing \union {"getSession"} /\ handler[h].pc # None
    BY DEF removeUserSession, GetSession, DelSession, RemSocket, CheckSockets, RemMember, DelPresence,
           DelSockets, GetPresence, PutPresence, At, Removing, None
  <1>3. handler[h].op = "disconnect"
    BY <1>2, HandlerAt, KindsOfSteps
  <1>4. CASE GetSession(h)
    <2>1. Settled(u)
      BY <1>4, AskingLists DEF GetSession, At, Asking, ListsAt
    <2> QED BY <1>2, <1>4, <2>1, AskingListsOn DEF GetSession
  <1>5. handler[h].pc \in Removing => Ws(h) \in Workspaces
    BY <1>2, HandlerAt DEF Removing, Asking
  <1>6. CASE DelSession(h)
    <2>1. PICK w \in Workspaces : w = Ws(h)
      BY <1>5, <1>6 DEF DelSession, At, Removing
    <2>2. Goes(h, "remSocket") /\ handler'[h].ws = w /\ handler[h].pc = "delSession"
      BY <1>6, <2>1, RemovingGoes DEF Keeps, Ws, DelSession, At
    <2>3. session[s] = w /\ Settled(u)
      BY <1>3, <2>1, <2>2, AskingLists DEF AgreesAt, ListsAt
    <2>4. w # None
      BY NoneAssumption
    <2>5. \A t \in Sessions(u) : session[t] = w
      BY <1>1, <2>3, <2>4 DEF OneWorkspace, Sessions
    <2>6. \A v \in Workspaces : v # w => IsUnlisted(u, v)
      <3> SUFFICES ASSUME NEW v \in Workspaces, v # w PROVE ~IsIn(u, v)
        BY <2>3 DEF Settled
      <3> QED BY <2>5, NoneAssumption DEF IsIn, Sessions
    <2>7. IsListed(u, w)
      BY <1>1, <2>3 DEF Settled, IsIn
    <2>8. /\ \A t \in Sockets : session'[t] = IF t = s THEN None ELSE session[t]
          /\ UNCHANGED <<members, presence>>
      BY <1>6 DEF DelSession, TypeInv, RedisTyped
    <2>9. Sessions(u)' = Sessions(u) \ {s}
      BY <1>1, <2>8 DEF Sessions
    <2>10. Only(u, w)'
      BY <1>1, <2>5, <2>6, <2>8, <2>9 DEF Only, IsUnlisted, Sessions
    <2>11. Lists(u, w, "remSocket")'
      BY <2>7, <2>8, <2>10 DEF Lists, Narrow, Removing, IsListed
    <2> QED BY <2>2, <2>10, <2>11, OnlyMeansOne, ListGoes DEF Commands
  <1>7. CASE ~GetSession(h) /\ ~DelSession(h)
    <2>1. handler[h].pc \in Removing \ {"delSession"}
      BY <1>7 DEF removeUserSession, RemSocket, CheckSockets, RemMember, DelPresence,
           DelSockets, GetPresence, PutPresence, At, Removing
    <2>2. PICK w \in Workspaces : w = Ws(h)
      BY <1>5, <2>1
    <2>3. Only(u, w) /\ UNCHANGED session
      BY <1>7, <2>1, <2>2 DEF removeUserSession, RemSocket, CheckSockets, RemMember, DelPresence,
           DelSockets, GetPresence, PutPresence, redis, ListsAt, Lists, Narrow
    <2>4. SameSessions(u) /\ Sessions(u)' = Sessions(u)
      BY <1>1, <2>3 DEF SameSessions, Sessions
    <2>5. CASE RemSocket(h)
      <3>1. Goes(h, "checkSockets") /\ handler'[h].ws = w /\ handler[h].pc = "remSocket" /\ SameListing(u)
        BY <2>2, <2>5, RemovingGoes DEF Keeps, Ws, RemSocket, At, SameListing
      <3>2. Lists(u, w, "checkSockets")
        BY <2>2, <2>3, <3>1 DEF ListsAt, Lists, Narrow, Removing
      <3> QED BY <2>4, <3>1, <3>2, QuietGoes DEF Commands
    <2>6. CASE CheckSockets(h)
      <3>1. handler'[h].ws = w /\ handler[h].pc = "checkSockets" /\ SameListing(u)
        BY <2>2, <2>6, RemovingGoes DEF Keeps, Ws, CheckSockets, At, SameListing, redis
      <3>2. Counted(u) /\ IsListed(u, w)
        BY <2>2, <3>1 DEF CountedAt, Adding, ListsAt, Lists
      <3>3. CASE Sessions(u) = {}
        <4>1. Goes(h, "remMember")
          BY <2>6, <3>2, <3>3, RemovingGoes DEF Counted
        <4>2. Lists(u, w, "remMember")
          BY <2>3 DEF Lists, Narrow, Removing
        <4> QED BY <2>4, <3>1, <4>1, <4>2, QuietGoes DEF Commands
      <3>4. CASE Sessions(u) # {}
        <4>1. Goes(h, "getPresence")
          BY <2>6, <3>2, <3>4, RemovingGoes DEF Counted
        <4>2. Lists(u, w, "getPresence")
          BY <2>3, <3>2, <3>4 DEF Lists, Narrow, Removing
        <4> QED BY <2>4, <3>1, <4>1, <4>2, QuietGoes DEF Commands
      <3> QED BY <3>3, <3>4
    <2>7. CASE RemMember(h)
      <3>1. Goes(h, "delPresence") /\ handler'[h].ws = w
        BY <2>2, <2>7, RemovingGoes DEF Keeps, Ws
      <3>2. /\ \A v \in Workspaces : members'[v] = IF v = w THEN members[v] \ {u} ELSE members[v]
            /\ UNCHANGED presence
        BY <2>2, <2>7 DEF RemMember, TypeInv, RedisTyped
      <3>3. Only(u, w)'
        BY <2>3, <2>4, <3>2 DEF Only, IsUnlisted
      <3>4. Lists(u, w, "delPresence")'
        BY <3>2, <3>3 DEF Lists, Narrow, Removing
      <3> QED BY <3>1, <3>3, <3>4, OnlyMeansOne, ListGoes DEF Commands
    <2>8. CASE DelPresence(h)
      <3>1. Goes(h, "delSockets") /\ handler'[h].ws = w /\ handler[h].pc = "delPresence"
        BY <2>2, <2>8, RemovingGoes DEF Keeps, Ws, DelPresence, At
      <3>2. /\ presence' = [presence EXCEPT ![w][u] = NoPresence] /\ UNCHANGED members
        BY <2>2, <2>8 DEF DelPresence
      <3>3. /\ ~presence'[w][u].live /\ \A v \in Workspaces : v # w => presence'[v][u] = presence[v][u]
        BY <3>2 DEF NoPresence, TypeInv, RedisTyped
      <3>4. Only(u, w)'
        BY <2>3, <2>4, <3>2, <3>3 DEF Only, IsUnlisted
      <3>5. u \notin members[w]
        BY <2>2, <3>1 DEF ListsAt, Lists
      <3>6. Lists(u, w, "delSockets")'
        BY <3>2, <3>3, <3>4, <3>5 DEF Lists, Narrow, Removing
      <3> QED BY <3>1, <3>4, <3>6, OnlyMeansOne, ListGoes DEF Commands
    <2>9. CASE DelSockets(h)
      <3>1. Goes(h, "leaveRoom") /\ handler'[h].ws = w /\ handler[h].pc = "delSockets"
        BY <2>2, <2>9, RemovingGoes DEF Keeps, Ws, DelSockets, At
      <3>2. UNCHANGED <<members, presence>>
        BY <2>9 DEF DelSockets
      <3>3. Only(u, w)'
        BY <2>3, <2>4, <3>2 DEF Only, IsUnlisted
      <3>4. Sessions(u) = {} /\ u \notin members[w] /\ ~presence[w][u].live
        BY <2>2, <3>1 DEF CountedAt, Emptied, ListsAt, Lists
      <3>5. ~IsIn(u, w)' /\ IsUnlisted(u, w)'
        BY <1>1, <2>3, <3>2, <3>4, NoneAssumption DEF IsIn, IsUnlisted, Sessions
      <3>6. Settled(u)' /\ OneWorkspace(u)'
        BY <3>3, <3>5, OnlySettles
      <3>7. Lists(u, w, "leaveRoom")'
        BY <3>6, AskingLists
      <3> QED BY <3>1, <3>6, <3>7, ListGoes DEF Commands
    <2>10. CASE GetPresence(h)
      <3>1. handler'[h].ws = w /\ handler[h].pc = "getPresence" /\ SameListing(u)
        BY <2>2, <2>10, RemovingGoes DEF Keeps, Ws, GetPresence, At, SameListing, redis
      <3>2. IsListed(u, w) /\ Sessions(u) # {}
        BY <2>2, <3>1 DEF ListsAt, Lists
      <3>3. Goes(h, "putPresence")
        BY <2>2, <2>10, <3>2, RemovingGoes DEF IsListed
      <3>4. Lists(u, w, "putPresence")
        BY <2>3, <3>2 DEF Lists, Narrow, Removing
      <3> QED BY <2>4, <3>1, <3>3, <3>4, QuietGoes DEF Commands
    <2>11. CASE PutPresence(h)
      <3>1. Goes(h, "leaveRoom") /\ handler'[h].ws = w /\ handler[h].pc = "putPresence"
        BY <2>2, <2>11, RemovingGoes DEF Keeps, Ws, PutPresence, At
      <3>2. IsListed(u, w) /\ Sessions(u) # {}
        BY <2>2, <3>1 DEF ListsAt, Lists
      <3>3. presence' = [presence EXCEPT ![w][u] = Recorded(handler[h].ids)] /\ UNCHANGED members
        BY <2>2, <2>11 DEF PutPresence
      <3>4. presence'[w][u].live /\ \A v \in Workspaces : v # w => presence'[v][u] = presence[v][u]
        BY <3>3 DEF Recorded, TypeInv, RedisTyped
      <3>5. Only(u, w)'
        BY <2>3, <2>4, <3>3, <3>4 DEF Only, IsUnlisted
      <3>6. IsIn(u, w)' /\ IsListed(u, w)'
        BY <1>1, <2>3, <3>2, <3>3, <3>4 DEF IsIn, IsListed, Only, Sessions
      <3>7. Settled(u)' /\ OneWorkspace(u)'
        BY <3>5, <3>6, OnlySettles
      <3>8. Lists(u, w, "leaveRoom")'
        BY <3>7, AskingLists
      <3> QED BY <3>1, <3>7, <3>8, ListGoes DEF Commands
    <2> QED BY <1>7, <2>5, <2>6, <2>7, <2>8, <2>9, <2>10, <2>11 DEF removeUserSession
  <1> QED BY <1>4, <1>6, <1>7

(* A handler of a settled user keeps the user settled.                       *)
LEMMA OthersList ==
  ASSUME TypeInv, NEW h \in Handlers, Moves(h), handler[h].pc # None, ListsAt(h), AgreesAt(h),
         NEW u \in Users, u = User(h), OneWorkspace(u),
         \/ updateUserActivity(h) \/ getUserSession(h) \/ getWorkspacePresence(h)
         \/ LeaveRoom(h) \/ AnnounceJoin(h) \/ AnnounceLeave(h)
  PROVE  ListsAfter(h, u)
  <1>1. handler[h].pc \in Touching \union {"getActive", "getLeaver"} \union Reading \union {"leaveRoom"}
    BY DEF updateUserActivity, GetActive, TouchSession, GetTouched, PutTouched, getUserSession,
           getWorkspacePresence, ReadMembers, ReadPresence, LeaveRoom, AnnounceJoin, AnnounceLeave, At, Touching,
           Reading
  <1>2. Settled(u)
    BY <1>1, AskingLists DEF ListsAt, Touching, Asking
  <1>3. CASE GetActive(h) \/ getUserSession(h)
    BY <1>2, <1>3, AskingListsOn DEF GetActive, getUserSession
  <1>4. CASE ~GetActive(h) /\ ~getUserSession(h)
    <2>1. handler[h].pc \in Touching \union Reading \union {"leaveRoom"}
      BY <1>4 DEF updateUserActivity, TouchSession, GetTouched, PutTouched,
           getWorkspacePresence, ReadMembers, ReadPresence, LeaveRoom, AnnounceJoin, AnnounceLeave, At, Touching,
           Reading
    <2>2. Ws(h) \in Workspaces /\ Socket(h) \in Sockets /\ Socket(h) \in SocketsOf(u)
      BY <2>1, HandlerAt DEF Touching, Reading, Asking, SocketsOf, User
    <2>3. handler[h].pc \in Touching => session[Socket(h)] = Ws(h)
      BY HandlerAt, KindsOfSteps DEF AgreesAt, Touching
    <2>4. SameSessions(u)
      BY <1>4, <2>3 DEF updateUserActivity, TouchSession, GetTouched, PutTouched, getWorkspacePresence, ReadMembers,
         ReadPresence, LeaveRoom, AnnounceJoin, AnnounceLeave, redis, SameSessions, SocketsOf, TypeInv, RedisTyped,
         At, Touching
    <2>5. SameListing(u)
      <3>1. CASE PutTouched(h)
        <4>1. presence[Ws(h)][u].live
          BY <1>2, <2>2, <2>3, <3>1 DEF PutTouched, At, Touching, Settled, IsIn, IsListed
        <4>2. presence' = [presence EXCEPT ![Ws(h)][u] = Recorded(handler[h].ids)] /\ members' = members
          BY <3>1 DEF PutTouched
        <4>3. \A w \in Workspaces : presence'[w][u].live = presence[w][u].live
          <5> SUFFICES ASSUME NEW w \in Workspaces PROVE presence'[w][u].live = presence[w][u].live
            OBVIOUS
          <5>1. CASE w = Ws(h)
            <6>1. presence'[w][u].live = TRUE
              BY <4>2, <5>1 DEF Recorded, TypeInv, RedisTyped
            <6>2. presence[w][u].live = TRUE
              BY <4>1, <5>1 DEF TypeInv, RedisTyped, Records
            <6> QED BY <6>1, <6>2
          <5>2. CASE w # Ws(h)
            BY <4>2, <5>2 DEF TypeInv, RedisTyped
          <5> QED BY <5>1, <5>2
        <4> QED BY <4>2, <4>3 DEF SameListing
      <3>2. CASE ~PutTouched(h)
        BY <1>4, <3>2 DEF updateUserActivity, TouchSession, GetTouched, getWorkspacePresence, ReadMembers,
           ReadPresence, LeaveRoom, AnnounceJoin, AnnounceLeave, redis, SameListing
      <3> QED BY <3>1, <3>2
    <2>6. CASE Ends(h)
      BY <1>2, <2>4, <2>5, <2>6, QuietEnds
    <2>7. CASE ~Ends(h)
      <3>1. PICK p \in {"getTouched", "putTouched", "readMembers", "readPresence", "broadcast"} :
              Goes(h, p) /\ handler'[h].ws = handler[h].ws
        <4>1. CASE TouchSession(h) \/ GetTouched(h) \/ PutTouched(h)
          BY <2>7, <4>1, TouchingGoes DEF Keeps
        <4>2. CASE ReadMembers(h)
          BY <4>2, ReadMembersGoes
        <4>3. CASE ReadPresence(h)
          BY <4>3, ReadPresenceGoes
        <4>4. CASE LeaveRoom(h) \/ AnnounceJoin(h) \/ AnnounceLeave(h)
          BY <2>7, <4>4, GotoGoes, FinishEnds DEF LeaveRoom, AnnounceJoin, AnnounceLeave, Commands, Keeps
        <4> QED BY <1>4, <4>1, <4>2, <4>3, <4>4 DEF updateUserActivity, getWorkspacePresence
      <3>2. PICK w \in Workspaces : w = Ws(h)
        BY <2>2
      <3>3. Lists(u, w, p) /\ p \in Commands
        BY <1>2, AskingLists DEF Reading, Commands
      <3> QED BY <2>4, <2>5, <3>1, <3>2, <3>3, QuietGoes DEF Ws
    <2> QED BY <2>6, <2>7
  <1> QED BY <1>3, <1>4

(* The room a socket is in is that of its session, but while its session is  *)
(* written or deleted.                                                       *)
RoomsOf(s) == {session[s]} \ {None}
InRoom(s) == rooms[s] = RoomsOf(s)
RoomAt(h) ==
  LET s == Socket(h) IN
  /\ handler[h].op # "leave"
  /\ handler[h].op # "disconnect" => IF handler[h].pc = "setSession" THEN rooms[s] = {Ws(h)} ELSE InRoom(s)
Rooming(u) ==
  /\ \A s \in SocketsOf(u) : (\A h \in Busy(u) : Socket(h) # s) => InRoom(s)
  /\ \A h \in Busy(u) : RoomAt(h)
RoomingInv == \A u \in Users : Rooming(u)

LEMMA RoomStays ==
  ASSUME NEW s, rooms'[s] = rooms[s], session'[s] = session[s], InRoom(s)
  PROVE  InRoom(s)'
  BY DEF InRoom, RoomsOf

LEMMA RoomingFrame ==
  ASSUME TypeInv, NEW u \in Users, \A s \in SocketsOf(u) : rooms'[s] = rooms[s] /\ session'[s] = session[s],
         Busy(u)' = Busy(u), \A h \in Busy(u) : SameHandler(h), Rooming(u)
  PROVE  Rooming(u)'
  <1>1. \A h \in Busy(u) : Socket(h)' = Socket(h)
    BY DEF SameHandler, Socket
  <1>2. ASSUME NEW s \in SocketsOf(u), \A h \in Busy(u)' : Socket(h)' # s
        PROVE  InRoom(s)'
    <2>1. \A h \in Busy(u) : Socket(h) # s
      BY <1>1, <1>2
    <2> QED BY <2>1, RoomStays DEF Rooming
  <1>3. ASSUME NEW h \in Busy(u) PROVE RoomAt(h)'
    <2>1. Socket(h) \in SocketsOf(u) /\ RoomAt(h) /\ handler'[h] = handler[h]
      BY BusyOf DEF Rooming, SameHandler
    <2>2. PICK s \in SocketsOf(u) : s = Socket(h)
      BY <2>1
    <2>3. InRoom(s) => InRoom(s)'
      BY RoomStays
    <2>4. rooms'[s] = rooms[s] /\ Socket(h)' = s
      BY <1>1, <2>2
    <2> QED BY <2>1, <2>2, <2>3, <2>4 DEF RoomAt, Ws
  <1>4. SocketsOf(u)' = SocketsOf(u)
    BY DEF SocketsOf
  <1> QED BY <1>2, <1>3, <1>4 DEF Rooming

RoomAfter(h, s) ==
  /\ (\E p \in Commands : Goes(h, p)) => RoomAt(h)'
  /\ Ends(h) => InRoom(s)'

LEMMA RoomingMoves ==
  ASSUME TypeInv, NEW h \in Handlers, handler[h].pc # None, Moves(h), NEW u \in Users, u = User(h),
         Exclusive(u), Rooming(u), NEW s \in Sockets, s = Socket(h), RoomAfter(h, s)
  PROVE  Rooming(u)'
  <1>1. Busy(u) = {h} /\ s \in SocketsOf(u)
    BY DEF Exclusive, Busy, IsFree, SocketsOf, User
  <1>2. ASSUME NEW t \in SocketsOf(u), t # s PROVE InRoom(t)'
    <2>1. SameSocket(t)
      BY <1>2 DEF Moves, Footprint, SocketsOf
    <2> QED BY <1>1, <1>2, <2>1, RoomStays DEF Rooming, SameSocket
  <1>3. SocketsOf(u)' = SocketsOf(u)
    BY DEF SocketsOf
  <1>4. CASE \E p \in Commands : Goes(h, p)
    <2>1. Busy(u)' = {h} /\ Socket(h)' = s
      BY <1>1, <1>4, BusyGoes DEF Goes, Socket
    <2> QED BY <1>2, <1>3, <1>4, <2>1 DEF Rooming, RoomAfter
  <1>5. CASE Ends(h)
    <2>1. Busy(u)' = {}
      BY <1>1, <1>5, BusyEnds
    <2> QED BY <1>2, <1>3, <1>5, <2>1 DEF Rooming, RoomAfter
  <1> QED BY <1>4, <1>5 DEF Moves

LEMMA RoomGoes ==
  ASSUME TypeInv, NEW h \in Handlers, NEW p \in Commands \ {"setSession"}, Goes(h, p), NEW s, s = Socket(h),
         handler[h].op # "leave", handler[h].op # "disconnect" => InRoom(s)'
  PROVE  RoomAfter(h, s)
  <1>1. handler'[h].pc = p /\ Socket(h)' = s /\ handler'[h].op = handler[h].op
    BY DEF Goes, Socket
  <1>2. RoomAt(h)'
    BY <1>1 DEF RoomAt
  <1> QED BY <1>2, GoesIsNotEnds DEF RoomAfter

(* A handler of a connected socket, past setSession.                         *)
LEMMA QuietRoom ==
  ASSUME TypeInv, NEW h \in Handlers, handler[h].pc # None, RoomAt(h), Moves(h), NEW s, s = Socket(h),
         \A p \in Commands : Goes(h, p) => p # "setSession", handler[h].pc # "setSession",
         handler[h].op # "disconnect", rooms'[s] = rooms[s], session'[s] = session[s]
  PROVE  RoomAfter(h, s)
  <1>1. InRoom(s)'
    BY RoomStays DEF RoomAt
  <1>2. CASE Ends(h)
    BY <1>1, <1>2, GoesIsNotEnds DEF RoomAfter
  <1>3. ASSUME NEW p \in Commands, Goes(h, p) PROVE RoomAfter(h, s)
    BY <1>1, <1>3, RoomGoes DEF RoomAt
  <1> QED BY <1>2, <1>3 DEF Moves

(* No handler goes back to its first command.                                *)
LEMMA OnwardOnly ==
  ASSUME InTurn, TypeInv, NEW h \in Handlers, HandlerStep(h), NEW p \in Commands, Goes(h, p)
  PROVE  p # "setSession"
  <1>1. handler'[h].pc = p /\ ~Ends(h)
    BY GoesIsNotEnds DEF Goes
  <1>2. CASE addUserSession(h)
    BY <1>1, <1>2, JoiningGoes DEF addUserSession, Goes
  <1>3. CASE GetSession(h) \/ GetActive(h) \/ getUserSession(h)
    BY <1>1, <1>3, SessionGoes DEF GetSession, GetActive, getUserSession, At, None, Commands, Goes
  <1>4. CASE removeUserSession(h) /\ ~GetSession(h)
    <2>1. CASE CheckSockets(h) \/ GetPresence(h)
      BY <1>1, <2>1, RemovingGoes DEF Goes
    <2> QED BY <1>1, <1>4, <2>1, RemovingGoes DEF removeUserSession, Goes
  <1>5. CASE updateUserActivity(h) /\ ~GetActive(h)
    BY <1>1, <1>5, TouchingGoes DEF updateUserActivity, Goes
  <1>6. CASE getWorkspacePresence(h)
    <2>1. CASE ReadMembers(h)
      BY <1>1, <2>1, ReadMembersGoes DEF Goes
    <2>2. CASE ReadPresence(h)
      BY <1>1, <2>2, ReadPresenceGoes DEF Goes
    <2> QED BY <1>6, <2>1, <2>2 DEF getWorkspacePresence
  <1>7. CASE LeaveRoom(h) \/ AnnounceJoin(h) \/ AnnounceLeave(h)
    BY <1>1, <1>7, GotoGoes, FinishEnds DEF LeaveRoom, AnnounceJoin, AnnounceLeave, Commands, Goes
  <1> QED BY <1>2, <1>3, <1>4, <1>5, <1>6, <1>7, HandlerStepKinds

LEMMA HandlerRooms ==
  ASSUME InTurn, TypeInv, NEW h \in Handlers, HandlerStep(h), RoomAt(h), AgreesAt(h), NEW s \in Sockets,
         s = Socket(h)
  PROVE  RoomAfter(h, s)
  <1>1. handler[h].pc # None /\ Moves(h) /\ \A p \in Commands : Goes(h, p) => p # "setSession"
    BY HandlerStepMoves, OnwardOnly
  <1>2. handler[h].op \in Ops /\ handler[h].op # "leave"
    BY <1>1, HandlerAt DEF RoomAt
  <1>3. CASE SetSession(h)
    <2>1. Goes(h, "addMember") /\ handler[h].pc = "setSession"
      BY <1>3, JoiningGoes DEF SetSession, At
    <2>2. handler[h].op = "join" /\ Ws(h) \in Workspaces
      BY <1>1, <2>1, HandlerAt, KindsOfSteps DEF Joining, Asking
    <2>3. rooms[s] = {Ws(h)} /\ rooms' = rooms /\ session'[s] = Ws(h)
      <3>1. rooms' = rooms
        BY <1>3, HandlerStepKinds DEF sockets, SetSession, addUserSession, LeaveRoom, AnnounceJoin, AnnounceLeave, At
      <3> QED BY <1>3, <2>1, <2>2, <3>1 DEF SetSession, RoomAt, TypeInv, RedisTyped
    <2>4. InRoom(s)'
      BY <2>2, <2>3, NoneAssumption DEF InRoom, RoomsOf
    <2> QED BY <1>2, <2>1, <2>4, RoomGoes DEF Commands
  <1>4. CASE handler[h].op = "disconnect"
    <2>1. ASSUME NEW p \in Commands, Goes(h, p) PROVE RoomAfter(h, s)
      BY <1>1, <1>2, <1>4, <2>1, RoomGoes
    <2>2. CASE Ends(h)
      <3>1. rooms[s] = {}
        BY <1>4 DEF AgreesAt
      <3>2. session[s] = None
        <4>1. CASE GetSession(h)
          BY <1>1, <2>2, <4>1, SessionGoes, GoesIsNotEnds DEF GetSession, Commands
        <4>2. CASE ~GetSession(h)
          <5>1. handler[h].pc \notin {"getSession", "delSession"}
            <6>1. CASE removeUserSession(h)
              BY <2>2, <4>2, <6>1, RemovingGoes, GoesIsNotEnds DEF removeUserSession, Commands, DelSession,
                 RemSocket, CheckSockets, RemMember, DelPresence, DelSockets, GetPresence, PutPresence, At
            <6>2. CASE ~removeUserSession(h)
              BY <6>2, HandlerStepKinds DEF addUserSession, SetSession, AddMember, ExpireMembers, AddSocket,
                 ExpireSockets, SetPresence, updateUserActivity, GetActive, TouchSession, GetTouched, PutTouched,
                 getUserSession, getWorkspacePresence, ReadMembers, ReadPresence, LeaveRoom, AnnounceJoin,
                 AnnounceLeave, At
            <6> QED BY <6>1, <6>2
          <5> QED BY <1>4, <5>1 DEF AgreesAt
        <4> QED BY <4>1, <4>2
      <3>3. s \in Sockets /\ session'[s] = session[s] /\ rooms'[s] = rooms[s]
        <4>1. UNCHANGED session
          <5>1. ~TouchSession(h) /\ ~SetSession(h) /\ ~DelSession(h)
            BY <2>2, JoiningGoes, RemovingGoes, TouchingGoes, GoesIsNotEnds DEF Commands
          <5> QED BY <5>1, HandlerStepKinds DEF addUserSession, AddMember, ExpireMembers, AddSocket,
                 ExpireSockets, SetPresence, removeUserSession, GetSession, RemSocket, CheckSockets, RemMember,
                 DelPresence, DelSockets, GetPresence, PutPresence, updateUserActivity, GetActive, GetTouched,
                 PutTouched, getUserSession, getWorkspacePresence, ReadMembers, ReadPresence, LeaveRoom,
                 AnnounceJoin, AnnounceLeave, redis
        <4>2. rooms'[s] = rooms[s]
          BY <3>1, HandlerStepKinds DEF sockets, LeaveRoom, AnnounceJoin, AnnounceLeave, TypeInv, SocketsTyped
        <4> QED BY <4>1, <4>2
      <3>4. InRoom(s)'
        BY <3>1, <3>2, <3>3 DEF InRoom, RoomsOf
      <3> QED BY <2>2, <3>4, GoesIsNotEnds DEF RoomAfter
    <2> QED BY <1>1, <2>1, <2>2 DEF Moves
  <1>5. CASE ~SetSession(h) /\ handler[h].op # "disconnect"
    <2>1. /\ handler[h].pc # "setSession" /\ rooms' = rooms
          /\ ~LeaveRoom(h) /\ ~removeUserSession(h)
      <3>1. handler[h].pc \notin Removing \union {"getSession", "leaveRoom"}
        BY <1>1, <1>2, <1>5, HandlerAt, KindsOfSteps
      <3>2. ~LeaveRoom(h) /\ ~removeUserSession(h)
        BY <3>1 DEF removeUserSession, GetSession, DelSession, RemSocket, CheckSockets, RemMember, DelPresence,
           DelSockets, GetPresence, PutPresence, LeaveRoom, At, Removing
      <3>3. rooms' = rooms
        BY <3>2, HandlerStepKinds DEF sockets, AnnounceJoin, AnnounceLeave
      <3>4. handler[h].pc # "setSession"
        BY <1>5, <3>2, HandlerStepKinds DEF addUserSession, AddMember, ExpireMembers, AddSocket,
           ExpireSockets, SetPresence, updateUserActivity, GetActive, TouchSession, GetTouched, PutTouched,
           getUserSession, getWorkspacePresence, ReadMembers, ReadPresence, AnnounceJoin, AnnounceLeave, At
      <3> QED BY <3>2, <3>3, <3>4
    <2>2. session' = session
      <3>1. CASE TouchSession(h)
        <4>1. handler[h].op = "activity" /\ handler[h].pc = "touchSession"
          BY <1>1, <3>1, HandlerAt, KindsOfSteps DEF TouchSession, At, Touching
        <4>2. session[s] = Ws(h)
          BY <4>1 DEF AgreesAt
        <4> QED BY <3>1, <4>2 DEF TouchSession, TypeInv, RedisTyped
      <3>2. CASE ~TouchSession(h)
        BY <1>5, <2>1, <3>2, HandlerStepKinds DEF addUserSession, AddMember, ExpireMembers, AddSocket,
           ExpireSockets, SetPresence, updateUserActivity, GetActive, GetTouched, PutTouched,
           getUserSession, getWorkspacePresence, ReadMembers, ReadPresence, AnnounceJoin, AnnounceLeave, redis
      <3> QED BY <3>1, <3>2
    <2> QED BY <1>1, <1>5, <2>1, <2>2, QuietRoom
  <1> QED BY <1>3, <1>4, <1>5

(* A client that joins a workspace is in no other, nor has its user a        *)
(* session of another.                                                       *)
LEMMA JoinsOnePlace ==
  ASSUME InOnePlace, TypeInv, NEW h \in Handlers, NEW s \in Sockets, NEW w \in Workspaces,
         handleJoinWorkspace(h, s, w), NEW u \in Users, u = UserOf[s]
  PROVE  /\ \A t \in SocketsOf(u) : rooms[t] \subseteq {w}
         /\ \A t \in Sessions(u) : session[t] = w
         /\ rooms'[s] = {w}
  <1>1. \A t \in SocketsOf(u) : rooms[t] \subseteq {w} /\ session[t] \in {None, w}
    BY DEF handleJoinWorkspace, MayJoin, InOnePlace, SocketsOf
  <1>2. rooms'[s] = rooms[s] \union {w} /\ s \in SocketsOf(u)
    BY DEF handleJoinWorkspace, TypeInv, SocketsTyped, SocketsOf
  <1> QED BY <1>1, <1>2 DEF Sessions

LEMMA ClientKinds ==
  ASSUME InTurn, InOnePlace, TypeInv, NEW h \in Handlers, NEW s \in Sockets, Client(h, s)
  PROVE  \E op, w, pc :
           /\ Starts(h, op, s, w, pc)
           /\ \/ op = "join" /\ pc = "setSession" /\ w \in Workspaces /\ handleJoinWorkspace(h, s, w)
              \/ op = "disconnect" /\ pc = "getSession" /\ handleDisconnect(h, s)
              \/ op = "activity" /\ pc = "getActive" /\ handleActivity(h, s)
  <1>1. ~handleLeaveWorkspace(h, s)
    BY DEF InOnePlace, handleLeaveWorkspace
  <1> QED BY <1>1, ClientStarts DEF Client

LEMMA RoomingClient ==
  ASSUME InTurn, InOnePlace, TypeInv, NEW h \in Handlers, NEW s \in Sockets, Client(h, s), NEW u \in Users,
         u = UserOf[s], Rooming(u)
  PROVE  Rooming(u)'
  <1>1. PICK op, w, pc :
           /\ Starts(h, op, s, w, pc)
           /\ \/ op = "join" /\ pc = "setSession" /\ w \in Workspaces /\ handleJoinWorkspace(h, s, w)
              \/ op = "disconnect" /\ pc = "getSession" /\ handleDisconnect(h, s)
              \/ op = "activity" /\ pc = "getActive" /\ handleActivity(h, s)
    BY ClientKinds
  <1>2. Busy(u)' = {h} /\ Busy(u) = {} /\ SocketsOf(u)' = SocketsOf(u) /\ s \in SocketsOf(u)
    BY <1>1, BusyStarts DEF Starts, SocketsOf
  <1>3. \A t \in SocketsOf(u) : InRoom(t)
    BY <1>2 DEF Rooming
  <1>4. ASSUME NEW t \in SocketsOf(u), t # s PROVE InRoom(t)'
    BY <1>1, <1>3, <1>4, RoomStays DEF Starts, Footprint, SocketsOf, SameSocket
  <1>5. Socket(h)' = s /\ Ws(h)' = w /\ handler'[h].op = op /\ handler'[h].pc = pc /\ session'[s] = session[s]
    BY <1>1 DEF Starts, Socket, Ws, redis
  <1>6. RoomAt(h)'
    <2>1. CASE op = "join"
      <3>1. rooms'[s] = {w} /\ pc = "setSession"
        BY <1>1, <2>1, JoinsOnePlace
      <3> QED BY <1>5, <2>1, <3>1 DEF RoomAt
    <2>2. CASE op = "disconnect"
      BY <1>5, <2>2 DEF RoomAt
    <2>3. CASE op = "activity"
      <3>1. rooms'[s] = rooms[s]
        BY <1>1, <2>3 DEF handleActivity, sockets
      <3>2. InRoom(s)'
        BY <1>2, <1>3, <1>5, <3>1, RoomStays
      <3> QED BY <1>1, <1>5, <2>3, <3>2 DEF RoomAt
    <2> QED BY <1>1, <2>1, <2>2, <2>3
  <1> QED BY <1>2, <1>4, <1>5, <1>6 DEF Rooming

LEMMA ListingClient ==
  ASSUME InTurn, InOnePlace, TypeInv, NEW h \in Handlers, NEW s \in Sockets, Client(h, s), NEW u \in Users,
         u = UserOf[s], Listing(u)
  PROVE  Listing(u)'
  <1>1. PICK op, w, pc :
           /\ Starts(h, op, s, w, pc)
           /\ \/ op = "join" /\ pc = "setSession" /\ w \in Workspaces /\ handleJoinWorkspace(h, s, w)
              \/ op = "disconnect" /\ pc = "getSession" /\ handleDisconnect(h, s)
              \/ op = "activity" /\ pc = "getActive" /\ handleActivity(h, s)
    BY ClientKinds
  <1>2. Busy(u)' = {h} /\ Settled(u) /\ OneWorkspace(u)
    BY <1>1, BusyStarts DEF Starts, Listing
  <1>3. SameSessions(u) /\ SameListing(u)
    BY <1>1 DEF Starts, redis, SameSessions, SameListing
  <1>4. User(h)' = u /\ Ws(h)' = w /\ handler'[h].pc = pc
    BY <1>1 DEF Starts, User, Socket, Ws
  <1>5. Settled(u)' /\ OneWorkspace(u)'
    BY <1>2, <1>3, QuietListing
  <1>6. Lists(u, w, pc)'
    <2>1. CASE op = "join"
      <3>1. w \in Workspaces /\ pc = "setSession" /\ \A t \in Sessions(u) : session[t] = w
        BY <1>1, <2>1, JoinsOnePlace
      <3>2. ASSUME NEW v \in Workspaces, v # w PROVE IsUnlisted(u, v)
        <4>1. ~IsIn(u, v)
          BY <3>1, <3>2, NoneAssumption DEF IsIn, Sessions
        <4> QED BY <1>2, <4>1 DEF Settled
      <3>3. Only(u, w)
        BY <3>1, <3>2 DEF Only
      <3>4. Only(u, w)'
        BY <1>3, <3>1, <3>3, QuietListing
      <3> QED BY <3>1, <3>4 DEF Lists, Narrow, Joining
    <2>2. CASE op # "join"
      BY <1>1, <1>5, <2>2, AskingLists DEF Asking
    <2> QED BY <2>1, <2>2
  <1> QED BY <1>2, <1>4, <1>5, <1>6 DEF Listing, ListsAt

PlaceInv == TurnInv /\ RoomingInv /\ ListingInv

LEMMA PlaceStep ==
  ASSUME InTurn, InOnePlace, PlaceInv, [Next]_vars
  PROVE  RoomingInv' /\ ListingInv'
  <1> SUFFICES ASSUME NEW u \in Users PROVE Rooming(u)' /\ Listing(u)'
    BY DEF RoomingInv, ListingInv
  <1>1. TypeInv /\ Exclusive(u) /\ Agreement(u) /\ Counting(u) /\ Rooming(u) /\ Listing(u)
    BY DEF PlaceInv, TurnInv, Turns, AgreementInv, CountingInv, RoomingInv, ListingInv
  <1>2. CASE UNCHANGED vars \/ \E s \in Sockets : handleConnection(s)
    <2>1. Busy(u)' = Busy(u) /\ UNCHANGED <<rooms, redis, handler>>
      BY <1>1, <1>2, IdleSteps
    <2>2. /\ \A s \in SocketsOf(u) : rooms'[s] = rooms[s] /\ session'[s] = session[s]
          /\ SameSessions(u) /\ SameListing(u) /\ \A h \in Busy(u) : SameHandler(h)
      BY <2>1 DEF redis, SameSessions, SameListing, SameHandler
    <2> QED BY <1>1, <2>1, <2>2, RoomingFrame, ListingFrame
  <1>3. ASSUME Untouched(u) PROVE Rooming(u)' /\ Listing(u)'
    <2>1. /\ \A s \in SocketsOf(u) : rooms'[s] = rooms[s] /\ session'[s] = session[s]
          /\ SameSessions(u) /\ SameListing(u) /\ Busy(u)' = Busy(u) /\ \A h \in Busy(u) : SameHandler(h)
      BY <1>3 DEF Untouched, SameSocket, SameSessions
    <2> QED BY <1>1, <2>1, RoomingFrame, ListingFrame
  <1>4. ASSUME NEW h \in Handlers, NEW s \in Sockets, Client(h, s) PROVE Rooming(u)' /\ Listing(u)'
    <2>1. PICK op, w, pc : Starts(h, op, s, w, pc)
      BY <1>1, <1>4, ClientStarts DEF Client
    <2> QED BY <1>1, <1>3, <1>4, <2>1, OthersWait, RoomingClient, ListingClient
  <1>5. ASSUME NEW h \in Handlers, HandlerStep(h) PROVE Rooming(u)' /\ Listing(u)'
    <2>1. handler[h].pc # None /\ Moves(h)
      BY <1>1, <1>5, HandlerStepMoves
    <2>2. CASE u # User(h)
      BY <1>1, <1>3, <2>1, <2>2, OthersUntouched
    <2>3. CASE u = User(h)
      <3>1. PICK s \in Sockets : s = Socket(h)
        BY <1>1, <2>1, HandlerAt
      <3>2. AgreesAt(h) /\ CountedAt(h) /\ RoomAt(h) /\ ListsAt(h) /\ OneWorkspace(u)
        BY <1>1, <2>1, <2>3 DEF Agreement, Counting, Rooming, Listing, Busy, IsFree
      <3>3. Rooming(u)'
        BY <1>1, <1>5, <2>1, <2>3, <3>1, <3>2, HandlerRooms, RoomingMoves
      <3>4. ListsAfter(h, u)
        <4>1. CASE addUserSession(h)
          <5>1. Ws(h) \in Workspaces
            BY <1>1, <2>1, <4>1, HandlerAt DEF addUserSession, SetSession, AddMember, ExpireMembers, AddSocket,
               ExpireSockets, SetPresence, At, Asking
          <5> QED BY <1>1, <2>3, <3>1, <3>2, <4>1, <5>1, JoiningLists
        <4>2. CASE removeUserSession(h)
          BY <1>1, <2>3, <3>1, <3>2, <4>2, RemovingLists
        <4>3. CASE ~addUserSession(h) /\ ~removeUserSession(h)
          BY <1>1, <1>5, <2>1, <2>3, <3>2, <4>3, HandlerStepKinds, OthersList
        <4> QED BY <4>1, <4>2, <4>3
      <3> QED BY <1>1, <2>1, <2>3, <3>3, <3>4, ListingMoves DEF ListsAfter
    <2> QED BY <2>2, <2>3
  <1> QED BY <1>2, <1>4, <1>5, Steps

LEMMA PlaceInit == Init => RoomingInv /\ ListingInv
  <1> SUFFICES ASSUME Init, NEW u \in Users PROVE Rooming(u) /\ Listing(u)
    BY DEF RoomingInv, ListingInv
  <1>1. Busy(u) = {} /\ Sessions(u) = {}
    BY NobodyBusyAtFirst DEF Init, Sessions, SocketsOf
  <1>2. \A s \in SocketsOf(u) : InRoom(s)
    BY DEF Init, InRoom, RoomsOf, SocketsOf
  <1>3. Settled(u)
    <2> SUFFICES ASSUME NEW w \in Workspaces PROVE ~IsIn(u, w) /\ IsUnlisted(u, w)
      BY DEF Settled
    <2> QED BY NoneAssumption DEF Init, IsIn, SocketsOf, IsUnlisted, NoPresence
  <1> QED BY <1>1, <1>2, <1>3 DEF Rooming, Listing, OneWorkspace

LEMMA PlaceInvariance ==
  ASSUME InTurn, InOnePlace
  PROVE  Spec => []PlaceInv
  <1>1. Init => RoomingInv /\ ListingInv
    BY PlaceInit
  <1>2. TurnInv /\ (RoomingInv /\ ListingInv) /\ [Next]_vars => (RoomingInv /\ ListingInv)'
    BY PlaceStep DEF PlaceInv
  <1> QED BY <1>1, <1>2, CountingInvariance, PTL DEF Spec, PlaceInv

(* ActiveUsersAreListed: as long as a user is in one workspace at a time and *)
(* the user's handlers run in turn, those of different users interleaved in  *)
(* any way, nobody with a connection in a workspace's room is missing from   *)
(* the list when no handler runs, however many connections come and go.      *)
THEOREM NobodyIsMissing ==
  ASSUME InTurn, InOnePlace
  PROVE  Spec => []ActiveUsersAreListed
  <1>1. PlaceInv => ActiveUsersAreListed
    <2> SUFFICES ASSUME PlaceInv, Quiet, NEW w \in Workspaces, NEW s \in Sockets, w \in rooms[s]
                 PROVE  UserOf[s] \in Listed(w)
      BY DEF ActiveUsersAreListed, Active
    <2>1. PICK u \in Users : u = UserOf[s]
      BY UserOfAssumption
    <2>2. Busy(u) = {} /\ Rooming(u) /\ Listing(u) /\ s \in SocketsOf(u)
      BY <2>1, QuietUsers DEF PlaceInv, RoomingInv, ListingInv, SocketsOf
    <2>3. session[s] = w
      BY <2>2 DEF Rooming, InRoom, RoomsOf
    <2>4. IsListed(u, w)
      BY <2>2, <2>3 DEF Listing, Settled, IsIn
    <2> QED BY <2>1, <2>4 DEF IsListed, Listed
  <1> QED BY <1>1, PlaceInvariance, PTL

(* ListedUsersAreActive: under the same assumptions nobody stays listed      *)
(* without a connection in the workspace's room.                             *)
THEOREM NobodyLingers ==
  ASSUME InTurn, InOnePlace
  PROVE  Spec => []ListedUsersAreActive
  <1>1. PlaceInv => ListedUsersAreActive
    <2> SUFFICES ASSUME PlaceInv, Quiet, NEW w \in Workspaces, NEW u \in Listed(w)
                 PROVE  u \in Active(w)
      BY DEF ListedUsersAreActive
    <2>1. u \in Users /\ IsListed(u, w)
      BY DEF Listed, IsListed, PlaceInv, TurnInv, TypeInv, RedisTyped
    <2>2. Busy(u) = {} /\ Rooming(u) /\ Listing(u) /\ Agreement(u)
      BY <2>1, QuietUsers DEF PlaceInv, TurnInv, RoomingInv, ListingInv, AgreementInv
    <2>3. IsIn(u, w)
      BY <2>1, <2>2 DEF Listing, Settled, IsListed, IsUnlisted
    <2>4. PICK s \in SocketsOf(u) : session[s] = w
      BY <2>3 DEF IsIn
    <2>5. w \in rooms[s] /\ conn[s] = "open"
      BY <2>2, <2>4, NoneAssumption DEF Rooming, InRoom, RoomsOf, Agreement, Agrees
    <2> QED BY <2>4, <2>5 DEF Active, SocketsOf
  <1> QED BY <1>1, PlaceInvariance, PTL

-----------------------------------------------------------------------------
(* What the members of a workspace were told last, when one handler runs at  *)
(* a time                                                                    *)

OneAtATime == InTurn /\ "users" \notin Behaviours
Alone == \A g, h \in Handlers : ~IsFree(g) /\ ~IsFree(h) => g = h

(* The steps at which what is listed may differ from what was announced.     *)
Changing == Joining \union Removing \union Reading \union {"leaveRoom"}
Dirty(w) == \E h \in Handlers : handler[h].pc \in Changing /\ Ws(h) = w
Fresh(w) == announced[w] = Listed(w)

(* What a handler found while it reads a list.                               *)
Finds(w, pc, todo, found) ==
  /\ pc = "readPresence" => Listed(w) = found \union {u \in todo : presence[w][u].live}
  /\ pc = "broadcast" => found = Listed(w)
  /\ pc \notin {"readPresence", "broadcast"} => found = {}
FindsAt(h) ==
  /\ Finds(Ws(h), handler[h].pc, handler[h].todo, handler[h].found)
  /\ handler[h].pc = "putTouched" => presence[Ws(h)][User(h)].live

NewsInv ==
  /\ Alone
  /\ \A w \in Workspaces : Dirty(w) \/ Fresh(w)
  /\ \A h \in Handlers : FindsAt(h)

LEMMA AloneIsDirty ==
  ASSUME TypeInv, Alone, NEW h \in Handlers, handler[h].pc # None, NEW w, Dirty(w)
  PROVE  handler[h].pc \in Changing /\ w = Ws(h)
  <1>1. PICK g \in Handlers : handler[g].pc \in Changing /\ Ws(g) = w
    BY DEF Dirty
  <1>2. handler[g].pc # None
    BY <1>1 DEF Changing, Joining, Removing, Reading, None
  <1> QED BY <1>1, <1>2 DEF Alone, IsFree

(* The handler that runs ends or goes on: what has to be shown.              *)
LEMMA NewsMoves ==
  ASSUME TypeInv, NewsInv, NEW h \in Handlers, handler[h].pc # None, Moves(h),
         \A w \in Workspaces : (handler[h].pc \in Changing => w # Ws(h)) =>
           Listed(w)' = Listed(w) /\ announced'[w] = announced[w],
         NEW w0, w0 = Ws(h),
         handler[h].pc \in Changing => (handler'[h].pc \in Changing /\ handler'[h].ws = w0) \/ Fresh(w0)',
         (\E p \in Commands : Goes(h, p)) => FindsAt(h)'
  PROVE  NewsInv'
  <1>1. \A g \in Handlers : g # h => IsFree(g) /\ IsFree(g)' /\ handler'[g] = handler[g]
    BY DEF NewsInv, Alone, IsFree, Moves, Goes, Ends
  <1>2. Alone'
    BY <1>1 DEF Alone
  <1>3. ASSUME NEW w \in Workspaces PROVE Dirty(w)' \/ Fresh(w)'
    <2>1. CASE handler[h].pc \in Changing => w # w0
      <3>1. ~Dirty(w)
        BY <2>1, AloneIsDirty DEF NewsInv
      <3> QED BY <2>1, <3>1 DEF NewsInv, Fresh
    <2>2. CASE handler[h].pc \in Changing /\ w = w0
      BY <2>2 DEF Dirty, Ws
    <2> QED BY <2>1, <2>2
  <1>4. ASSUME NEW g \in Handlers PROVE FindsAt(g)'
    <2>1. CASE g # h
      <3>1. handler'[g] = Free
        BY <1>1, <2>1 DEF IsFree, TypeInv, HandlersTyped, HandlerTyped
      <3> QED BY <3>1 DEF FindsAt, Finds, Free, None
    <2>2. CASE g = h /\ Ends(h)
      BY <2>2 DEF Ends, FindsAt, Finds, Free, None
    <2> QED BY <2>1, <2>2 DEF Moves
  <1> QED BY <1>2, <1>3, <1>4 DEF NewsInv

(* A handler that goes on at p, with w and what it found so far.             *)
LEMMA FindsGoes ==
  ASSUME TypeInv, NEW h \in Handlers, NEW p \in Commands, Goes(h, p), NEW w, handler'[h].ws = w,
         p \notin {"readPresence", "broadcast", "putTouched"}, handler'[h].found = {}
  PROVE  FindsAt(h)'
  <1>1. handler'[h].pc = p
    BY DEF Goes
  <1> QED BY <1>1 DEF FindsAt, Finds

LEMMA FoundNothingYet ==
  ASSUME NewsInv, NEW h \in Handlers, handler[h].pc \notin {"readPresence", "broadcast"}
  PROVE  handler[h].found = {}
  BY DEF NewsInv, FindsAt, Finds

LEMMA ListedStays ==
  ASSUME NEW w, UNCHANGED <<members, presence>>
  PROVE  Listed(w)' = Listed(w)
  BY DEF Listed

(* The commands that change who is listed, in the handler's own workspace.   *)
LEMMA ChangingNews ==
  ASSUME TypeInv, NewsInv, NEW h \in Handlers, addUserSession(h) \/ (removeUserSession(h) /\ ~GetSession(h)),
         UNCHANGED <<sockets, announced>>
  PROVE  NewsInv'
  <1>1. Moves(h)
    BY JoiningMoves, RemovingMoves
  <1>2. handler[h].pc \in Joining \union Removing /\ handler[h].pc # None
    BY DEF addUserSession, SetSession, AddMember, ExpireMembers, AddSocket, ExpireSockets, SetPresence,
           removeUserSession, DelSession, RemSocket, CheckSockets, RemMember, DelPresence,
           DelSockets, GetPresence, PutPresence, At, Joining, Removing, None
  <1>3. PICK w0 \in Workspaces : w0 = Ws(h)
    BY <1>2, HandlerAt DEF Joining, Removing, Asking
  <1>4. User(h) \in Users /\ RedisTyped
    BY <1>2, HandlerAt DEF TypeInv
  <1>5. ASSUME NEW w \in Workspaces, w # w0 PROVE Listed(w)' = Listed(w) /\ announced'[w] = announced[w]
    <2>1. members'[w] = members[w] /\ presence'[w] = presence[w]
      BY <1>3, <1>4, <1>5 DEF addUserSession, SetSession, AddMember, ExpireMembers, AddSocket, ExpireSockets,
         SetPresence, removeUserSession, DelSession, RemSocket, CheckSockets, RemMember, DelPresence,
         DelSockets, GetPresence, PutPresence, redis, RedisTyped
    <2> QED BY <2>1 DEF Listed
  <1>6. PICK p \in Commands : /\ Goes(h, p) /\ Keeps(h)
                              /\ p \in Changing \ {"readPresence", "broadcast"}
    <2>1. CASE addUserSession(h)
      BY <2>1, JoiningGoes DEF addUserSession, Commands, Changing, Joining, Reading
    <2>2. CASE CheckSockets(h) \/ GetPresence(h)
      BY <2>2, RemovingGoes DEF Commands, Changing, Removing, Reading, Joining
    <2>3. CASE ~addUserSession(h) /\ ~CheckSockets(h) /\ ~GetPresence(h)
      BY <2>3, RemovingGoes DEF removeUserSession, Commands, Changing, Removing, Reading, Joining
    <2> QED BY <2>1, <2>2, <2>3
  <1>7. handler[h].found = {}
    BY <1>2, FoundNothingYet DEF Joining, Removing
  <1>8. FindsAt(h)'
    BY <1>6, <1>7, FindsGoes DEF Keeps, Changing, Joining, Removing, Reading
  <1>9. handler[h].pc \in Changing /\ handler'[h].pc \in Changing /\ handler'[h].ws = w0
    BY <1>2, <1>3, <1>6 DEF Changing, Goes, Keeps, Ws
  <1> QED BY <1>1, <1>2, <1>3, <1>5, <1>8, <1>9, NewsMoves

(* A handler that asks for its session.                                      *)
LEMMA AskingNews ==
  ASSUME TypeInv, NewsInv, NEW h \in Handlers, Moves(h), handler[h].pc \in Asking, UNCHANGED <<redis, announced>>,
         NEW p \in {"delSession", "touchSession", "leaveRoom"},
         IF session[Socket(h)] = None THEN Finish(h)
         ELSE handler' = [handler EXCEPT ![h].ws = session[Socket(h)], ![h].pc = p]
  PROVE  NewsInv'
  <1>1. handler[h].pc # None /\ handler[h].pc \notin Changing
    BY DEF Asking, Changing, Joining, Removing, Reading, None
  <1>2. \A w \in Workspaces : Listed(w)' = Listed(w) /\ announced'[w] = announced[w]
    BY ListedStays DEF redis
  <1>3. handler[h].found = {}
    BY FoundNothingYet DEF Asking
  <1>4. ASSUME \E q \in Commands : Goes(h, q) PROVE FindsAt(h)'
    <2>1. p \in Commands /\ ~Ends(h)
      BY <1>4, GoesIsNotEnds DEF Commands
    <2>2. Goes(h, p) /\ handler'[h].ws = session[Socket(h)] /\ handler'[h].found = {}
      BY <1>1, <1>3, <2>1, SessionGoes
    <2> QED BY <2>1, <2>2, FindsGoes
  <1>5. PICK w0 : w0 = Ws(h)
    OBVIOUS
  <1> QED BY <1>1, <1>2, <1>4, <1>5, NewsMoves

LEMMA TouchingNews ==
  ASSUME TypeInv, NewsInv, NEW h \in Handlers, updateUserActivity(h), ~GetActive(h), UNCHANGED <<sockets, announced>>
  PROVE  NewsInv'
  <1>1. Moves(h)
    BY TouchingMoves
  <1>2. handler[h].pc \in Touching /\ handler[h].pc # None /\ handler[h].pc \notin Changing
    BY DEF updateUserActivity, TouchSession, GetTouched, PutTouched, At, Touching, None, Changing, Joining, Removing,
           Reading
  <1>3. PICK w0 \in Workspaces : w0 = Ws(h)
    BY <1>2, HandlerAt DEF Touching, Asking
  <1>4. User(h) \in Users /\ RedisTyped
    BY <1>2, HandlerAt DEF TypeInv
  <1>5. members' = members /\ \A w \in Workspaces, u \in Users : presence'[w][u].live = presence[w][u].live
    <2>1. CASE PutTouched(h)
      <3>1. presence[w0][User(h)].live
        BY <1>3, <2>1 DEF PutTouched, At, NewsInv, FindsAt
      <3>2. presence' = [presence EXCEPT ![w0][User(h)] = Recorded(handler[h].ids)] /\ members' = members
        BY <1>3, <2>1 DEF PutTouched
      <3>3. ASSUME NEW w \in Workspaces, NEW u \in Users PROVE presence'[w][u].live = presence[w][u].live
        <4>1. CASE w = w0 /\ u = User(h)
          <5>1. presence'[w][u].live = TRUE
            BY <1>4, <3>2, <4>1 DEF Recorded, RedisTyped
          <5>2. presence[w][u].live = TRUE
            BY <1>4, <3>1, <4>1 DEF RedisTyped, Records
          <5> QED BY <5>1, <5>2
        <4>2. CASE ~(w = w0 /\ u = User(h))
          BY <1>4, <3>2, <4>2 DEF RedisTyped
        <4> QED BY <4>1, <4>2
      <3> QED BY <3>2, <3>3
    <2>2. CASE ~PutTouched(h)
      BY <2>2 DEF updateUserActivity, TouchSession, GetTouched, redis
    <2> QED BY <2>1, <2>2
  <1>6. \A w \in Workspaces : Listed(w)' = Listed(w) /\ announced'[w] = announced[w]
    BY <1>4, <1>5 DEF Listed, RedisTyped
  <1>7. ASSUME \E q \in Commands : Goes(h, q) PROVE FindsAt(h)'
    <2>1. ~Ends(h) /\ handler[h].found = {}
      BY <1>2, <1>7, GoesIsNotEnds, FoundNothingYet DEF Touching
    <2>2. CASE TouchSession(h)
      BY <2>1, <2>2, TouchingGoes, FindsGoes DEF Keeps, Commands
    <2>3. CASE GetTouched(h)
      <3>1. presence[w0][User(h)].live /\ Goes(h, "putTouched") /\ handler'[h].ws = w0 /\ handler'[h].found = {}
        BY <1>3, <2>1, <2>3, TouchingGoes DEF Keeps, Ws
      <3>2. PICK u \in Users : u = User(h)
        BY <1>4
      <3>3. User(h)' = u /\ Ws(h)' = w0 /\ handler'[h].pc = "putTouched"
        BY <3>1, <3>2 DEF Goes, User, Socket, Ws
      <3>4. presence'[w0][u].live
        BY <2>3, <3>1, <3>2 DEF GetTouched, redis
      <3> QED BY <3>1, <3>3, <3>4 DEF FindsAt, Finds
    <2>4. CASE PutTouched(h)
      BY <2>1, <2>4, TouchingGoes
    <2> QED BY <2>2, <2>3, <2>4 DEF updateUserActivity
  <1> QED BY <1>1, <1>2, <1>3, <1>6, <1>7, NewsMoves

LEMMA ReadingNews ==
  ASSUME TypeInv, NewsInv, NEW h \in Handlers, getWorkspacePresence(h), UNCHANGED <<sockets, announced>>
  PROVE  NewsInv'
  <1>1. Moves(h) /\ UNCHANGED redis
    BY ReadingMoves DEF getWorkspacePresence, ReadMembers, ReadPresence
  <1>2. handler[h].pc \in {"readMembers", "readPresence"} /\ handler[h].pc # None /\ handler[h].pc \in Changing
    BY DEF getWorkspacePresence, ReadMembers, ReadPresence, At, None, Changing, Reading
  <1>3. PICK w0 \in Workspaces : w0 = Ws(h)
    BY <1>2, HandlerAt DEF Asking
  <1>4. \A w \in Workspaces : Listed(w)' = Listed(w) /\ announced'[w] = announced[w]
    BY <1>1, ListedStays DEF redis
  <1>5. FindsAt(h) /\ presence' = presence
    BY <1>1 DEF NewsInv, redis
  <1>6. /\ handler'[h].pc \in {"readPresence", "broadcast"} /\ handler'[h].ws = w0
        /\ FindsAt(h)'
    <2>1. CASE ReadMembers(h)
      <3>1. /\ Goes(h, IF members[w0] = {} THEN "broadcast" ELSE "readPresence") /\ handler'[h].ws = w0
            /\ handler'[h].todo = members[w0] /\ handler'[h].found = {}
        BY <1>2, <1>3, <2>1, ReadMembersGoes, FoundNothingYet DEF Ws, ReadMembers, At
      <3>2. handler'[h].pc = IF members[w0] = {} THEN "broadcast" ELSE "readPresence"
        BY <3>1 DEF Goes
      <3>3. Listed(w0)' = {u \in members[w0] : presence'[w0][u].live}
        BY <1>1 DEF Listed, redis
      <3>4. Ws(h)' = w0
        BY <3>1 DEF Ws
      <3> QED BY <3>1, <3>2, <3>3, <3>4 DEF FindsAt, Finds
    <2>2. CASE ReadPresence(h)
      <3>1. PICK u \in handler[h].todo :
              /\ Goes(h, IF handler[h].todo = {u} THEN "broadcast" ELSE "readPresence")
              /\ handler'[h].ws = w0 /\ handler'[h].todo = handler[h].todo \ {u}
              /\ handler'[h].found = IF presence[w0][u].live THEN handler[h].found \union {u} ELSE handler[h].found
        BY <1>3, <2>2, ReadPresenceGoes DEF Ws
      <3>2. handler'[h].pc = IF handler[h].todo = {u} THEN "broadcast" ELSE "readPresence"
        BY <3>1 DEF Goes
      <3>3. Listed(w0) = handler[h].found \union {v \in handler[h].todo : presence[w0][v].live}
        BY <1>3, <1>5, <2>2 DEF ReadPresence, At, FindsAt, Finds
      <3>4. Listed(w0) = handler'[h].found \union {v \in handler'[h].todo : presence[w0][v].live}
        BY <3>1, <3>3
      <3>5. handler[h].todo = {u} => Listed(w0) = handler'[h].found
        BY <3>1, <3>4
      <3>6. Ws(h)' = w0 /\ Listed(w0)' = Listed(w0)
        BY <1>4, <3>1 DEF Ws
      <3> QED BY <1>5, <3>1, <3>2, <3>4, <3>5, <3>6 DEF FindsAt, Finds
    <2> QED BY <2>1, <2>2 DEF getWorkspacePresence
  <1>7. handler'[h].pc \in Changing
    BY <1>6 DEF Changing, Reading
  <1> QED BY <1>1, <1>2, <1>3, <1>4, <1>6, <1>7, NewsMoves

LEMMA OwnStepsNews ==
  ASSUME TypeInv, NewsInv, NEW h \in Handlers, LeaveRoom(h) \/ AnnounceJoin(h) \/ AnnounceLeave(h)
  PROVE  NewsInv'
  <1>1. Moves(h) /\ UNCHANGED redis
    BY OwnStepsMove DEF LeaveRoom, AnnounceJoin, AnnounceLeave
  <1>2. handler[h].pc \in {"leaveRoom", "broadcast"} /\ handler[h].pc # None /\ handler[h].pc \in Changing
    BY DEF LeaveRoom, AnnounceJoin, AnnounceLeave, At, None, Changing, Reading
  <1>3. PICK w0 \in Workspaces : w0 = Ws(h)
    BY <1>2, HandlerAt DEF Asking
  <1>4. \A w \in Workspaces : Listed(w)' = Listed(w)
    BY <1>1, ListedStays DEF redis
  <1>5. CASE LeaveRoom(h)
    <2>1. Goes(h, "readMembers") /\ Keeps(h) /\ handler[h].found = {}
      BY <1>5, GotoGoes, FoundNothingYet DEF LeaveRoom, Commands, At
    <2>2. FindsAt(h)' /\ handler'[h].pc \in Changing /\ handler'[h].ws = w0
      BY <1>3, <2>1, FindsGoes DEF Keeps, Goes, Commands, Changing, Reading, Ws
    <2>3. announced' = announced
      BY <1>5 DEF LeaveRoom
    <2> QED BY <1>1, <1>2, <1>3, <1>4, <2>2, <2>3, NewsMoves
  <1>6. CASE AnnounceJoin(h) \/ AnnounceLeave(h)
    <2>1. Ends(h) /\ handler[h].pc = "broadcast"
      BY <1>6, FinishEnds DEF AnnounceJoin, AnnounceLeave, At
    <2>2. handler[h].found = Listed(w0)
      BY <1>3, <2>1 DEF NewsInv, FindsAt, Finds
    <2>3. announced' = [announced EXCEPT ![w0] = Listed(w0)]
      BY <1>3, <1>6, <2>2 DEF AnnounceJoin, AnnounceLeave
    <2>4. announced'[w0] = Listed(w0) /\ \A w \in Workspaces : w # w0 => announced'[w] = announced[w]
      BY <2>3 DEF TypeInv, AnnouncedTyped
    <2>5. Fresh(w0)'
      BY <1>4, <2>4 DEF Fresh
    <2>6. ~\E p \in Commands : Goes(h, p)
      BY <2>1, GoesIsNotEnds
    <2> QED BY <1>1, <1>2, <1>3, <1>4, <2>4, <2>5, <2>6, NewsMoves
  <1> QED BY <1>5, <1>6

LEMMA ClientNews ==
  ASSUME OneAtATime, TypeInv, NewsInv, NEW h \in Handlers, NEW s \in Sockets, Client(h, s)
  PROVE  NewsInv'
  <1>1. \A g \in Handlers : IsFree(g)
    BY DEF Client, handleJoinWorkspace, handleLeaveWorkspace, handleDisconnect, handleActivity, Handle, OneAtATime,
           InTurn
  <1>2. PICK op, w, pc : Starts(h, op, s, w, pc) /\ pc \in {"setSession", "getLeaver", "getSession", "getActive"}
    BY ClientStarts DEF Client, OneAtATime
  <1>3. \A g \in Handlers : g # h => IsFree(g)' /\ handler'[g] = handler[g]
    BY <1>1, <1>2 DEF Starts, IsFree
  <1>4. Alone'
    BY <1>3 DEF Alone
  <1>5. ASSUME NEW v \in Workspaces PROVE Fresh(v)'
    <2>1. ~Dirty(v)
      BY <1>1 DEF Dirty, IsFree, Changing, Joining, Removing, Reading, None
    <2>2. Listed(v)' = Listed(v) /\ announced' = announced
      BY <1>2, ListedStays DEF Starts, redis, Client, handleJoinWorkspace, handleLeaveWorkspace,
         handleDisconnect, handleActivity
    <2> QED BY <2>1, <2>2 DEF NewsInv, Fresh
  <1>6. ASSUME NEW g \in Handlers PROVE FindsAt(g)'
    <2>1. CASE g # h
      <3>1. handler'[g] = Free
        BY <1>1, <1>3, <2>1 DEF IsFree, TypeInv, HandlersTyped, HandlerTyped
      <3> QED BY <3>1 DEF FindsAt, Finds, Free, None
    <2>2. CASE g = h
      BY <1>2, <2>2 DEF Starts, FindsAt, Finds
    <2> QED BY <2>1, <2>2
  <1> QED BY <1>4, <1>5, <1>6 DEF NewsInv

LEMMA IdleNews ==
  ASSUME TypeInv, NewsInv, UNCHANGED vars \/ \E s \in Sockets : handleConnection(s)
  PROVE  NewsInv'
  <1>1. UNCHANGED <<redis, handler, announced>>
    BY DEF vars, handleConnection, redis
  <1>2. \A w \in Workspaces : Listed(w)' = Listed(w)
    BY <1>1, ListedStays DEF redis
  <1>3. Alone' /\ \A w \in Workspaces : Dirty(w)' \/ Fresh(w)'
    BY <1>1, <1>2 DEF NewsInv, Alone, IsFree, Dirty, Ws, Fresh
  <1>4. ASSUME NEW h \in Handlers PROVE FindsAt(h)'
    BY <1>1 DEF NewsInv, FindsAt, Finds, Listed, redis, Ws, User, Socket
  <1> QED BY <1>3, <1>4 DEF NewsInv

LEMMA NewsStep ==
  ASSUME OneAtATime, TypeInv, NewsInv, [Next]_vars
  PROVE  NewsInv'
  <1>1. InTurn
    BY DEF OneAtATime
  <1>2. ASSUME NEW h \in Handlers, HandlerStep(h) PROVE NewsInv'
    <2>1. Moves(h)
      BY <1>1, <1>2, HandlerStepMoves
    <2>2. CASE (addUserSession(h) \/ (removeUserSession(h) /\ ~GetSession(h))) /\ UNCHANGED <<sockets, announced>>
      BY <2>2, ChangingNews
    <2>3. CASE (GetSession(h) \/ GetActive(h) \/ getUserSession(h)) /\ UNCHANGED <<sockets, announced>>
      BY <2>1, <2>3, AskingNews DEF GetSession, GetActive, getUserSession, At, Asking
    <2>4. CASE updateUserActivity(h) /\ ~GetActive(h) /\ UNCHANGED <<sockets, announced>>
      BY <2>4, TouchingNews
    <2>5. CASE getWorkspacePresence(h) /\ UNCHANGED <<sockets, announced>>
      BY <2>5, ReadingNews
    <2> QED BY <1>1, <1>2, <2>2, <2>3, <2>4, <2>5, OwnStepsNews, HandlerStepKinds
  <1> QED BY <1>1, <1>2, IdleNews, ClientNews, Steps

LEMMA NewsInit == Init => NewsInv
  <1> SUFFICES ASSUME Init PROVE NewsInv
    OBVIOUS
  <1>1. Alone
    BY DEF Init, Alone, IsFree, Free
  <1>2. \A w \in Workspaces : Fresh(w)
    BY DEF Init, Fresh, Listed
  <1>3. \A h \in Handlers : FindsAt(h)
    BY DEF Init, FindsAt, Finds, Free, None
  <1> QED BY <1>1, <1>2, <1>3 DEF NewsInv

(* AnnouncementIsCurrent: as long as one handler runs at a time, whatever    *)
(* workspaces the clients join, leave and disconnect from, the last          *)
(* presence-updated message of a workspace names exactly the active users.   *)
THEOREM NewsIsCurrent ==
  ASSUME OneAtATime
  PROVE  Spec => []AnnouncementIsCurrent
  <1>1. TypeInv /\ NewsInv /\ [Next]_vars => NewsInv'
    BY NewsStep
  <1>2. NewsInv => AnnouncementIsCurrent
    <2> SUFFICES ASSUME NewsInv, Quiet, NEW w \in Workspaces PROVE Fresh(w)
      BY DEF AnnouncementIsCurrent, Fresh
    <2> QED BY DEF NewsInv, Dirty, Quiet, IsFree, Changing, Joining, Removing, Reading, None
  <1> QED BY <1>1, <1>2, NewsInit, TypeInvariant, PTL DEF Spec
=============================================================================
