------------------------------- MODULE EventBus -------------------------------
(* Events of one workspace between instances.  The gateway emits an event to *)
(* the room (its own sockets, and through the socket.io Redis adapter those  *)
(* of the other instances) and publishes it on the channel workspace-events, *)
(* to which every instance listens, its publisher included; whoever hears it *)
(* emits it to the room again.  Redis connections are FIFO.  Redis and the   *)
(* adapter are external.                                                     *)
EXTENDS Integers, Sequences, FiniteSets

CONSTANTS Instances,
          Clients,   \* sockets
          home,      \* the instance of each socket
          MaxEvents  \* bounds how many events are emitted

ASSUME HomeAssumption == home \in [Clients -> Instances]
ASSUME InstancesAssumption == IsFiniteSet(Instances)
ASSUME MaxEventsAssumption == MaxEvents \in Nat

VARIABLES adapter,   \* each instance's way to the Redis adapter
          listening, \* instances subscribed to workspace-events
          room,      \* sockets that the adapters know to be in the room
          joined,    \* sockets that ever joined: they may have handlers in flight
          emitted,   \* number of events emitted so far
          commands,  \* PUBLISHes of each instance on their way to Redis
          heard,     \* messages of workspace-events on their way to each instance
          relayed,   \* broadcasts from each adapter to each other
          copies,    \* how often each client got each event
          last,      \* the event each client got last, 0 for none
          witnesses, \* history: sockets in the room since each event was emitted
          audience,  \* history: instances that each event was published to, and not lost on the way
          final,     \* history: the event published last, 0 for none
          lost       \* history: a message was refused, or lost with its connection or instance

sockets == <<room, joined>>
connections == <<commands, heard, relayed>>
received == <<copies, last>>
history == <<audience, final, lost>>
vars == <<adapter, listening, sockets, emitted, connections, received, witnesses, history>>

Events == 1..MaxEvents

Init ==
  /\ adapter = [i \in Instances |-> "pinging"]
  /\ listening = {} /\ room = {} /\ joined = {}
  /\ emitted = 0
  /\ commands = [i \in Instances |-> <<>>] /\ heard = [i \in Instances |-> <<>>]
  /\ relayed = [i \in Instances |-> [j \in Instances |-> <<>>]]
  /\ copies = [c \in Clients |-> [e \in Events |-> 0]]
  /\ last = [c \in Clients |-> 0]
  /\ witnesses = [e \in Events |-> {}] /\ audience = [e \in Events |-> {}]
  /\ final = 0 /\ lost = FALSE

Carries(q, e) == \E k \in 1..Len(q) : q[k] = e

Local(i) == {c \in room : home[c] = i}

Receive(cs, e) ==
  /\ copies' = [c \in Clients |-> IF c \in cs THEN [copies[c] EXCEPT ![e] = @ + 1] ELSE copies[c]]
  /\ last' = [c \in Clients |-> IF c \in cs THEN e ELSE last[c]]

(* server.to(room).emit at instance i: its sockets cs and, once the adapter  *)
(* is there, all others.                                                     *)
emit(i, cs, e) ==
  /\ Receive(cs, e)
  /\ relayed' = IF adapter[i] = "on"
                THEN [relayed EXCEPT ![i] = [j \in Instances |-> IF j = i THEN @[j] ELSE Append(@[j], e)]]
                ELSE relayed

-----------------------------------------------------------------------------
(* Start of an instance                                                      *)

(* PING answered: server.adapter() makes new adapters, which know of none of *)
(* the sockets already in the room.                                          *)
PingSucceeds(i) ==
  /\ adapter[i] = "pinging"
  /\ adapter' = [adapter EXCEPT ![i] = "on"]
  /\ room' = room \ Local(i)
  /\ witnesses' = [e \in Events |-> witnesses[e] \ Local(i)]
  /\ UNCHANGED <<listening, joined, emitted, connections, received, history>>

PingFails(i) ==
  /\ adapter[i] = "pinging"
  /\ adapter' = [adapter EXCEPT ![i] = "off"]
  /\ UNCHANGED <<listening, sockets, emitted, connections, received, witnesses, history>>

(* At the start, and by ioredis itself on every connection after that.       *)
setupEventSubscriptions(i) ==
  /\ i \notin listening
  /\ listening' = listening \union {i}
  /\ UNCHANGED <<adapter, sockets, emitted, connections, received, witnesses, history>>

-----------------------------------------------------------------------------
(* Handlers of a socket's messages.  Each awaits PresenceService and then    *)
(* emits and publishes in one go, wherever its socket is by then: any socket *)
(* that ever joined may have such a handler in flight.                       *)

(* Mutant: the socket does not learn its workspace.                          *)
handleJoinWorkspaceUnset(c) ==
  /\ c \notin room
  /\ room' = room \union {c} /\ joined' = joined
  /\ UNCHANGED <<adapter, listening, emitted, connections, received, witnesses, history>>

handleJoinWorkspace(c) ==
  /\ c \notin room
  /\ room' = room \union {c} /\ joined' = joined \union {c}
  /\ UNCHANGED <<adapter, listening, emitted, connections, received, witnesses, history>>

Broadcast(i, cs) ==
  LET e == emitted + 1 IN
  /\ emitted < MaxEvents
  /\ emitted' = e
  /\ emit(i, cs, e)
  /\ commands' = [commands EXCEPT ![i] = Append(@, e)]
  /\ witnesses' = [f \in Events |-> (IF f = e THEN room ELSE witnesses[f]) \intersect room']
  /\ UNCHANGED <<adapter, listening, joined, heard, history>>

(* user-joined, to everybody else.                                           *)
AnnounceJoin(c) ==
  /\ c \in joined
  /\ UNCHANGED room
  /\ Broadcast(home[c], Local(home[c]) \ {c})

(* Leaves (a local operation of the adapter, although the code awaits it),   *)
(* then user-left to everybody else.                                         *)
handleUserLeave(c) ==
  /\ c \in joined
  /\ room' = room \ {c}
  /\ Broadcast(home[c], Local(home[c]) \ {c})

(* handleFileChange, handleCursorUpdate.                                     *)
handleFileChange(c) ==
  /\ c \in joined
  /\ UNCHANGED room
  /\ Broadcast(home[c], Local(home[c]))

-----------------------------------------------------------------------------
(* Redis and the instances' connections to it                                *)

Pop(q, i) == [q EXCEPT ![i] = Tail(@)]

publishEvent(i) ==
  /\ commands[i] # <<>>
  /\ LET e == Head(commands[i]) IN
       /\ heard' = [j \in Instances |-> IF j \in listening THEN Append(heard[j], e) ELSE heard[j]]
       /\ audience' = [audience EXCEPT ![e] = listening]
       /\ final' = e
  /\ commands' = Pop(commands, i)
  /\ UNCHANGED <<adapter, listening, sockets, emitted, relayed, received, witnesses, lost>>

(* The error is logged and the event not published.                          *)
PublishFails(i) ==
  /\ commands[i] # <<>>
  /\ commands' = Pop(commands, i)
  /\ lost' = TRUE
  /\ UNCHANGED <<adapter, listening, sockets, emitted, heard, relayed, received, witnesses, audience, final>>

(* A broadcast of i arrives at j, whose adapter may not be there to hear it. *)
AdapterDelivers(i, j) ==
  /\ relayed[i][j] # <<>>
  /\ IF adapter[j] = "on" THEN Receive(Local(j), Head(relayed[i][j])) ELSE UNCHANGED received
  /\ relayed' = [relayed EXCEPT ![i][j] = Tail(@)]
  /\ UNCHANGED <<adapter, listening, sockets, emitted, commands, heard, witnesses, history>>

AdapterFails(i, j) ==
  /\ relayed[i][j] # <<>>
  /\ relayed' = [relayed EXCEPT ![i][j] = Tail(@)]
  /\ lost' = TRUE
  /\ UNCHANGED <<adapter, listening, sockets, emitted, commands, heard, received, witnesses, audience, final>>

(* Mutant: what an instance hears it publishes again.                        *)
handleCrossInstanceEventAgain(i) ==
  /\ heard[i] # <<>>
  /\ emit(i, Local(i), Head(heard[i]))
  /\ heard' = Pop(heard, i)
  /\ commands' = [commands EXCEPT ![i] = Append(@, Head(heard[i]))]
  /\ UNCHANGED <<adapter, listening, sockets, emitted, witnesses, history>>

(* Mutant: an instance ignores what its own clients have got already.        *)
handleCrossInstanceEventOnce(i) ==
  /\ heard[i] # <<>>
  /\ IF \E c \in Local(i) : copies[c][Head(heard[i])] > 0
     THEN UNCHANGED <<received, relayed>> ELSE emit(i, Local(i), Head(heard[i]))
  /\ heard' = Pop(heard, i)
  /\ UNCHANGED <<adapter, listening, sockets, emitted, commands, witnesses, history>>

(* Mutant: what is heard is left to the adapters, where there is one.        *)
handleCrossInstanceEventRelayed(i) ==
  /\ heard[i] # <<>>
  /\ IF adapter[i] = "on" THEN UNCHANGED <<received, relayed>> ELSE emit(i, Local(i), Head(heard[i]))
  /\ heard' = Pop(heard, i)
  /\ UNCHANGED <<adapter, listening, sockets, emitted, commands, witnesses, history>>

(* Emitted to the room again, also by the instance it came from.             *)
handleCrossInstanceEvent(i) ==
  /\ heard[i] # <<>>
  /\ emit(i, Local(i), Head(heard[i]))
  /\ heard' = Pop(heard, i)
  /\ UNCHANGED <<adapter, listening, sockets, emitted, commands, witnesses, history>>

(* The connection of redisSubscriber breaks: what is on its way is lost, and *)
(* so is what is published until ioredis has subscribed again.               *)
SubscriberDrops(i) ==
  /\ i \in listening
  /\ listening' = listening \ {i}
  /\ audience' = [e \in Events |-> IF Carries(heard[i], e) THEN audience[e] \ {i} ELSE audience[e]]
  /\ heard' = [heard EXCEPT ![i] = <<>>]
  /\ lost' = (lost \/ heard[i] # <<>>)
  /\ UNCHANGED <<adapter, sockets, emitted, commands, relayed, received, witnesses, final>>

(* An instance dies, with its sockets and what it has not sent or handled,   *)
(* and starts again.                                                         *)
Restart(i) ==
  /\ adapter' = [adapter EXCEPT ![i] = "pinging"]
  /\ listening' = listening \ {i}
  /\ room' = room \ Local(i)
  /\ joined' = {c \in joined : home[c] # i}
  /\ witnesses' = [e \in Events |-> witnesses[e] \ Local(i)]
  /\ commands' = [commands EXCEPT ![i] = <<>>]
  /\ heard' = [heard EXCEPT ![i] = <<>>]
  /\ relayed' = [j \in Instances |-> [k \in Instances |-> IF i \in {j, k} THEN <<>> ELSE relayed[j][k]]]
  /\ lost' = (lost \/ commands[i] # <<>> \/ heard[i] # <<>> \/ \E j \in Instances : relayed[i][j] # <<>>)
  /\ UNCHANGED <<emitted, received, audience, final>>

-----------------------------------------------------------------------------
Starts(i) == PingSucceeds(i) \/ PingFails(i) \/ setupEventSubscriptions(i) \/ Restart(i)
Handles(c) == handleJoinWorkspace(c) \/ AnnounceJoin(c) \/ handleUserLeave(c) \/ handleFileChange(c)
Transmits(i) == publishEvent(i) \/ PublishFails(i) \/ SubscriberDrops(i) \/ handleCrossInstanceEvent(i)

Next ==
  \/ \E i \in Instances : Starts(i) \/ Transmits(i)
  \/ \E i, j \in Instances : AdapterDelivers(i, j) \/ AdapterFails(i, j)
  \/ \E c \in Clients : Handles(c)

Spec == Init /\ [][Next]_vars

-----------------------------------------------------------------------------
TypeOK ==
  /\ adapter \in [Instances -> {"pinging", "off", "on"}]
  /\ listening \subseteq Instances /\ room \subseteq joined /\ joined \subseteq Clients
  /\ emitted \in 0..MaxEvents
  /\ \A i \in Instances : \A q \in {commands[i], heard[i]} \union {relayed[i][j] : j \in Instances} : q \in Seq(1..emitted)
  /\ copies \in [Clients -> [Events -> Nat]]
  /\ last \in [Clients -> 0..emitted]
  /\ witnesses \in [Events -> SUBSET room] /\ audience \in [Events -> SUBSET Instances]
  /\ final \in 0..emitted /\ lost \in BOOLEAN

Quiet == \A i \in Instances :
  commands[i] = <<>> /\ heard[i] = <<>> /\ \A j \in Instances : relayed[i][j] = <<>>

(* An event is emitted again by every instance that hears it, and not again  *)
(* after that: a client gets it once and once for each instance at most.     *)
CopiesAreBounded == \A c \in Clients, e \in Events : copies[c][e] <= 1 + Cardinality(Instances)

(* The channel alone is enough: when everything sent has arrived, a client   *)
(* has every event that was published since the client is there, unless its  *)
(* instance was not subscribed just then or lost it with its subscriber's    *)
(* connection, whatever became of the adapters.                              *)
PublishedReachesAll == Quiet =>
  \A c \in Clients, e \in Events :
    c \in witnesses[e] /\ home[c] \in audience[e] => copies[c][e] > 0

(* Events overtake each other on their several ways, but the copies that     *)
(* every instance emits of what it hears settle the order: when everything   *)
(* sent has arrived, the event published last is the one every client got    *)
(* last, so that all show the same, provided that nothing was lost and that  *)
(* all instances were listening.                                             *)
ClientsAgree == Quiet /\ ~lost /\ final # 0 =>
  (audience[final] = Instances => \A c \in witnesses[final] : last[c] = final)
=============================================================================
