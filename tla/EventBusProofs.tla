--------------------------- MODULE EventBusProofs ---------------------------
(* Theorems about EventBus, for any number of instances, clients and events: *)
(* the types, the bound on copies, and what a client has once everything     *)
(* that was sent has arrived.                                                *)
EXTENDS EventBus, FiniteSetTheorems, SequenceTheorems, TLAPS

-----------------------------------------------------------------------------
(* Queues                                                                    *)

Distinct(q) == \A k, l \in 1..Len(q) : q[k] = q[l] => k = l
EndsWith(q, e) == q # <<>> /\ q[Len(q)] = e

LEMMA EmptyFacts == /\ \A S : <<>> \in Seq(S)
                    /\ \A e : ~Carries(<<>>, e)
                    /\ Distinct(<<>>) /\ Len(<<>>) = 0
  BY DEF Carries, Distinct

LEMMA EmptyIffNoLength ==
  ASSUME NEW S, NEW q \in Seq(S) PROVE q = <<>> <=> Len(q) = 0
  BY EmptySeq

LEMMA AppendFacts ==
  ASSUME NEW S, NEW q \in Seq(S), NEW e \in S
  PROVE  /\ Append(q, e) \in Seq(S) /\ Append(q, e) # <<>> /\ Len(Append(q, e)) = Len(q) + 1
         /\ EndsWith(Append(q, e), e)
         /\ \A f : Carries(Append(q, e), f) <=> Carries(q, f) \/ f = e
         /\ Distinct(q) /\ ~Carries(q, e) => Distinct(Append(q, e))
  BY DEF Carries, Distinct, EndsWith

LEMMA TailFacts ==
  ASSUME NEW S, NEW q \in Seq(S), q # <<>>
  PROVE  /\ Tail(q) \in Seq(S) /\ Head(q) \in S /\ Len(Tail(q)) = Len(q) - 1
         /\ \A f : Carries(q, f) <=> f = Head(q) \/ Carries(Tail(q), f)
         /\ Distinct(q) => Distinct(Tail(q)) /\ ~Carries(Tail(q), Head(q))
         /\ \A f : EndsWith(q, f) => EndsWith(Tail(q), f) \/ (Tail(q) = <<>> /\ f = Head(q))
  <1>1. /\ Tail(q) \in Seq(S) /\ Head(q) \in S /\ Len(q) \in Nat /\ Len(q) > 0
        /\ Len(Tail(q)) = Len(q) - 1 /\ Head(q) = q[1]
        /\ \A k \in 1..Len(q) - 1 : Tail(q)[k] = q[k + 1]
    OBVIOUS
  <1>2. ASSUME NEW f, Carries(q, f) PROVE f = Head(q) \/ Carries(Tail(q), f)
    <2>1. PICK k \in 1..Len(q) : q[k] = f
      BY <1>2 DEF Carries
    <2>2. CASE k = 1
      BY <1>1, <2>1, <2>2
    <2>3. CASE k # 1
      <3>1. k - 1 \in 1..Len(Tail(q)) /\ Tail(q)[k - 1] = f
        BY <1>1, <2>1, <2>3
      <3> QED BY <3>1 DEF Carries
    <2> QED BY <2>2, <2>3
  <1>3. ASSUME NEW f, f = Head(q) \/ Carries(Tail(q), f) PROVE Carries(q, f)
    BY <1>1, <1>3 DEF Carries
  <1>4. Distinct(q) => Distinct(Tail(q)) /\ ~Carries(Tail(q), Head(q))
    BY <1>1 DEF Distinct, Carries
  <1>0. Tail(q) = <<>> <=> Len(Tail(q)) = 0
    <2>1. Tail(q) \in Seq(S)
      BY <1>1
    <2> QED BY <2>1, EmptyIffNoLength
  <1>5. ASSUME NEW f, EndsWith(q, f)
        PROVE  EndsWith(Tail(q), f) \/ (Tail(q) = <<>> /\ f = Head(q))
    <2>1. CASE Len(q) = 1
      <3>1. Tail(q) = <<>>
        BY <1>0, <1>1, <2>1
      <3> QED BY <1>1, <1>5, <2>1, <3>1 DEF EndsWith
    <2>2. CASE Len(q) # 1
      <3>1. Len(Tail(q)) \in 1..Len(q) - 1 /\ Tail(q) # <<>>
        BY <1>0, <1>1, <2>2
      <3>2. Tail(q)[Len(Tail(q))] = q[Len(q)]
        BY <1>1, <3>1
      <3> QED BY <1>5, <3>1, <3>2 DEF EndsWith
    <2> QED BY <2>1, <2>2
  <1> QED BY <1>1, <1>2, <1>3, <1>4, <1>5

(* What was emitted before stays emitted.                                    *)
LEMMA SeqGrows ==
  ASSUME NEW m \in Nat, NEW n \in Nat, m <= n PROVE Seq(1..m) \subseteq Seq(1..n)
  OBVIOUS

-----------------------------------------------------------------------------
(* Types                                                                     *)

SocketsTyped == /\ adapter \in [Instances -> {"pinging", "off", "on"}]
                /\ listening \subseteq Instances /\ room \subseteq joined /\ joined \subseteq Clients
QueuesTyped == /\ emitted \in 0..MaxEvents
               /\ commands \in [Instances -> Seq(1..emitted)]
               /\ heard \in [Instances -> Seq(1..emitted)]
               /\ relayed \in [Instances -> [Instances -> Seq(1..emitted)]]
ReceivedTyped == /\ copies \in [Clients -> [Events -> Nat]]
                 /\ last \in [Clients -> 0..emitted]
HistoryTyped == /\ witnesses \in [Events -> SUBSET room]
                /\ audience \in [Events -> SUBSET Instances]
                /\ final \in 0..emitted /\ lost \in BOOLEAN

TypeInv == SocketsTyped /\ QueuesTyped /\ ReceivedTyped /\ HistoryTyped

LEMMA TypeInvMeansTypeOK == TypeInv => TypeOK
  BY DEF TypeInv, TypeOK, SocketsTyped, QueuesTyped, ReceivedTyped, HistoryTyped

LEMMA TypeInit == Init => TypeInv
  <1> SUFFICES ASSUME Init PROVE TypeInv
    OBVIOUS
  <1>1. SocketsTyped
    BY DEF Init, SocketsTyped
  <1>2. QueuesTyped
    BY EmptyFacts, MaxEventsAssumption DEF Init, QueuesTyped
  <1>3. ReceivedTyped
    BY DEF Init, ReceivedTyped
  <1>4. HistoryTyped
    <2>1. /\ witnesses \in [Events -> SUBSET room] /\ audience \in [Events -> SUBSET Instances]
          /\ final \in 0..emitted
      BY DEF Init
    <2>2. lost \in BOOLEAN
      BY Zenon DEF Init
    <2> QED BY <2>1, <2>2 DEF HistoryTyped
  <1> QED BY <1>1, <1>2, <1>3, <1>4 DEF TypeInv

(* An event that reaches the clients cs.                                     *)
LEMMA ReceiveEffect ==
  ASSUME TypeInv, NEW cs, NEW e \in Events, Receive(cs, e)
  PROVE  /\ copies' \in [Clients -> [Events -> Nat]]
         /\ \A c \in Clients : c \in cs => last'[c] = e /\ copies'[c][e] = copies[c][e] + 1
         /\ \A c \in Clients : c \notin cs => last'[c] = last[c] /\ copies'[c][e] = copies[c][e]
         /\ \A c \in Clients, f \in Events : f # e => copies'[c][f] = copies[c][f]
         /\ \A c \in Clients, f \in Events : copies'[c][f] >= copies[c][f]
  <1>1. /\ copies' \in [Clients -> [Events -> Nat]]
        /\ \A c \in Clients : c \in cs => last'[c] = e /\ copies'[c][e] = copies[c][e] + 1
        /\ \A c \in Clients : c \notin cs => last'[c] = last[c] /\ copies'[c][e] = copies[c][e]
        /\ \A c \in Clients, f \in Events : f # e => copies'[c][f] = copies[c][f]
    BY DEF TypeInv, ReceivedTyped, Receive
  <1>2. \A c \in Clients, f \in Events : copies[c][f] \in Nat
    BY DEF TypeInv, ReceivedTyped
  <1>3. ASSUME NEW c \in Clients, NEW f \in Events PROVE copies'[c][f] >= copies[c][f]
    <2>1. copies[c][f] \in Nat /\ copies'[c][f] \in {copies[c][f], copies[c][f] + 1}
      BY <1>1, <1>2
    <2> QED BY <2>1
  <1> QED BY <1>1, <1>3

(* An event appended to a queue that reaches no further than the events      *)
(* emitted so far.                                                           *)
LEMMA AppendEvent ==
  ASSUME NEW q \in Seq(1..emitted), NEW e \in 1..emitted
  PROVE  /\ \A f \in Events : Carries(Append(q, e), f) <=> Carries(q, f) \/ f = e
         /\ Distinct(q) /\ ~Carries(q, e) => Distinct(Append(q, e))
         /\ Append(q, e) # <<>> /\ EndsWith(Append(q, e), e)
  BY DEF Carries, Distinct, EndsWith

(* An event that instance i emits to the room.                               *)
LEMMA EmitEffect ==
  ASSUME TypeInv, NEW i \in Instances, NEW cs, NEW e \in Events, emit(i, cs, e),
         emitted' \in emitted..MaxEvents, e <= emitted'
  PROVE  /\ Receive(cs, e)
         /\ relayed' \in [Instances -> [Instances -> Seq(1..emitted')]]
         /\ \A j, k \in Instances : j # i \/ k = i \/ adapter[i] # "on" => relayed'[j][k] = relayed[j][k]
         /\ \A k \in Instances : adapter[i] = "on" /\ k # i => relayed'[i][k] = Append(relayed[i][k], e)
  <1>1. relayed \in [Instances -> [Instances -> Seq(1..emitted')]]
    BY SeqGrows DEF TypeInv, QueuesTyped
  <1>2. e \in 1..emitted'
    BY DEF TypeInv, QueuesTyped, Events
  <1>3. \A k \in Instances : Append(relayed[i][k], e) \in Seq(1..emitted')
    BY <1>1, <1>2, AppendFacts
  <1> QED BY <1>1, <1>3 DEF emit

LEMMA BroadcastTypes ==
  ASSUME TypeInv, NEW i \in Instances, NEW cs, Broadcast(i, cs), room' \subseteq room
  PROVE  TypeInv'
  <1>1. /\ emitted' = emitted + 1 /\ emitted' \in Events /\ emitted' \in emitted..MaxEvents
        /\ adapter' = adapter /\ listening' = listening /\ joined' = joined
    BY MaxEventsAssumption DEF TypeInv, QueuesTyped, Broadcast, Events
  <1>2. SocketsTyped'
    BY <1>1 DEF TypeInv, SocketsTyped
  <1>3. emit(i, cs, emitted') /\ Receive(cs, emitted')
    BY <1>1 DEF Broadcast, emit
  <1>4. QueuesTyped'
    <2>1. /\ commands \in [Instances -> Seq(1..emitted')] /\ heard \in [Instances -> Seq(1..emitted')]
      BY <1>1, SeqGrows DEF TypeInv, QueuesTyped
    <2>2. commands' \in [Instances -> Seq(1..emitted')]
      <3>1. Append(commands[i], emitted') \in Seq(1..emitted')
        BY <1>1, <2>1, AppendFacts DEF Events
      <3> QED BY <1>1, <2>1, <3>1 DEF Broadcast
    <2> QED BY <1>1, <1>3, <2>1, <2>2, EmitEffect DEF QueuesTyped, Broadcast
  <1>5. ReceivedTyped'
    <2>1. copies' \in [Clients -> [Events -> Nat]]
      BY <1>1, <1>3, ReceiveEffect
    <2>2. last' \in [Clients -> 0..emitted']
      BY <1>1, <1>3 DEF Receive, TypeInv, ReceivedTyped, QueuesTyped
    <2> QED BY <2>1, <2>2 DEF ReceivedTyped
  <1>6. HistoryTyped'
    BY <1>1 DEF TypeInv, HistoryTyped, QueuesTyped, Broadcast, history
  <1> QED BY <1>2, <1>4, <1>5, <1>6 DEF TypeInv

(* Each client's message runs at the client's instance.                      *)
LEMMA BroadcastOf ==
  ASSUME TypeInv, NEW c \in Clients, AnnounceJoin(c) \/ handleUserLeave(c) \/ handleFileChange(c)
  PROVE  /\ home[c] \in Instances /\ room' \subseteq room
         /\ \E cs \in SUBSET Local(home[c]) : Broadcast(home[c], cs)
  BY HomeAssumption DEF AnnounceJoin, handleUserLeave, handleFileChange

LEMMA HeardTypes ==
  ASSUME TypeInv, NEW i \in Instances, handleCrossInstanceEvent(i)
  PROVE  /\ TypeInv' /\ heard[i] # <<>> /\ heard' = [heard EXCEPT ![i] = Tail(heard[i])]
         /\ Head(heard[i]) \in 1..emitted /\ Head(heard[i]) \in Events
         /\ emit(i, Local(i), Head(heard[i]))
  <1> DEFINE e == Head(heard[i])
  <1>1. /\ heard[i] # <<>> /\ heard' = [heard EXCEPT ![i] = Tail(heard[i])] /\ emit(i, Local(i), e)
        /\ emitted' = emitted /\ emitted \in 0..MaxEvents
    BY DEF handleCrossInstanceEvent, Pop, TypeInv, QueuesTyped
  <1>2. e \in 1..emitted /\ e \in Events /\ Tail(heard[i]) \in Seq(1..emitted)
    BY <1>1, TailFacts, MaxEventsAssumption DEF TypeInv, QueuesTyped, Events
  <1>3. SocketsTyped' /\ HistoryTyped'
    BY <1>1 DEF handleCrossInstanceEvent, TypeInv, SocketsTyped, HistoryTyped, sockets, history
  <1>4. emitted' \in emitted..MaxEvents /\ e <= emitted'
    BY <1>1, <1>2, MaxEventsAssumption
  <1> HIDE DEF e
  <1>5. QueuesTyped'
    <2>1. relayed' \in [Instances -> [Instances -> Seq(1..emitted')]]
      BY <1>1, <1>2, <1>4, EmitEffect
    <2>2. heard' \in [Instances -> Seq(1..emitted)]
      BY <1>1, <1>2 DEF TypeInv, QueuesTyped
    <2> QED BY <1>1, <2>1, <2>2 DEF QueuesTyped, handleCrossInstanceEvent, TypeInv
  <1>6. ReceivedTyped'
    <2>1. Receive(Local(i), e)
      BY <1>1 DEF emit
    <2>2. last' \in [Clients -> 0..emitted']
      BY <1>1, <1>2, <2>1 DEF Receive, TypeInv, ReceivedTyped
    <2> QED BY <1>2, <2>1, <2>2, ReceiveEffect DEF ReceivedTyped
  <1> QED BY <1>1, <1>2, <1>3, <1>5, <1>6 DEF TypeInv, e

LEMMA PublishTypes ==
  ASSUME TypeInv, NEW i \in Instances, publishEvent(i) \/ PublishFails(i)
  PROVE  /\ TypeInv' /\ commands[i] # <<>> /\ commands' = [commands EXCEPT ![i] = Tail(commands[i])]
         /\ Head(commands[i]) \in 1..emitted /\ Head(commands[i]) \in Events
         /\ \A j \in Instances : Append(heard[j], Head(commands[i])) \in Seq(1..emitted)
  <1> DEFINE e == Head(commands[i])
  <1>1. /\ commands[i] # <<>> /\ commands' = [commands EXCEPT ![i] = Tail(commands[i])]
        /\ emitted' = emitted /\ emitted \in 0..MaxEvents
    BY DEF publishEvent, PublishFails, Pop, TypeInv, QueuesTyped
  <1>2. e \in 1..emitted /\ e \in Events /\ Tail(commands[i]) \in Seq(1..emitted)
    BY <1>1, TailFacts, MaxEventsAssumption DEF TypeInv, QueuesTyped, Events
  <1>3. \A j \in Instances : Append(heard[j], e) \in Seq(1..emitted)
    BY <1>2, AppendFacts DEF TypeInv, QueuesTyped
  <1>4. SocketsTyped' /\ ReceivedTyped'
    BY <1>1 DEF publishEvent, PublishFails, TypeInv, SocketsTyped, ReceivedTyped, sockets, received
  <1>5. QueuesTyped'
    <2>1. commands' \in [Instances -> Seq(1..emitted)]
      BY <1>1, <1>2 DEF TypeInv, QueuesTyped
    <2>2. heard' \in [Instances -> Seq(1..emitted)]
      <3> HIDE DEF e
      <3> QED BY <1>3 DEF TypeInv, QueuesTyped, publishEvent, PublishFails, e
    <2> QED BY <1>1, <2>1, <2>2 DEF QueuesTyped, publishEvent, PublishFails, TypeInv
  <1>6. HistoryTyped'
    <2>1. /\ audience' \in [Events -> SUBSET Instances] /\ final' \in 0..emitted
      BY <1>1, <1>2 DEF publishEvent, PublishFails, TypeInv, HistoryTyped, SocketsTyped
    <2>3. lost' \in BOOLEAN
      BY Zenon DEF publishEvent, PublishFails, TypeInv, HistoryTyped
    <2>2. room' = room /\ witnesses' = witnesses
      BY DEF publishEvent, PublishFails, sockets
    <2> QED BY <1>1, <2>1, <2>2, <2>3 DEF TypeInv, HistoryTyped
  <1> QED BY <1>1, <1>2, <1>3, <1>4, <1>5, <1>6 DEF TypeInv

LEMMA RelayTypes ==
  ASSUME TypeInv, NEW i \in Instances, NEW j \in Instances, AdapterDelivers(i, j) \/ AdapterFails(i, j)
  PROVE  /\ TypeInv' /\ relayed[i][j] # <<>> /\ relayed[i][j] \in Seq(1..emitted)
         /\ Head(relayed[i][j]) \in Events
         /\ relayed'[i][j] = Tail(relayed[i][j])
         /\ \A k, l \in Instances : k # i \/ l # j => relayed'[k][l] = relayed[k][l]
  <1> DEFINE e == Head(relayed[i][j])
  <1>1. /\ relayed[i][j] # <<>> /\ relayed' = [relayed EXCEPT ![i][j] = Tail(relayed[i][j])]
        /\ emitted' = emitted /\ emitted \in 0..MaxEvents /\ relayed[i][j] \in Seq(1..emitted)
    BY DEF AdapterDelivers, AdapterFails, TypeInv, QueuesTyped
  <1>2. e \in 1..emitted /\ e \in Events /\ Tail(relayed[i][j]) \in Seq(1..emitted)
    <2>1. e \in 1..emitted /\ Tail(relayed[i][j]) \in Seq(1..emitted)
      BY <1>1, TailFacts
    <2> QED BY <1>1, <2>1, MaxEventsAssumption DEF Events
  <1>3. SocketsTyped' /\ HistoryTyped'
    BY <1>1 DEF AdapterDelivers, AdapterFails, TypeInv, SocketsTyped, HistoryTyped, sockets, history
  <1>4. /\ relayed' \in [Instances -> [Instances -> Seq(1..emitted)]]
        /\ relayed'[i][j] = Tail(relayed[i][j])
        /\ \A k, l \in Instances : k # i \/ l # j => relayed'[k][l] = relayed[k][l]
    BY <1>1, <1>2 DEF TypeInv, QueuesTyped
  <1>5. QueuesTyped'
    BY <1>1, <1>4 DEF QueuesTyped, AdapterDelivers, AdapterFails, TypeInv
  <1>6. ReceivedTyped'
    <2>1. CASE received' = received
      BY <1>1, <2>1 DEF TypeInv, ReceivedTyped, received
    <2>2. CASE Receive(Local(j), e)
      <3>1. last' \in [Clients -> 0..emitted']
        BY <1>1, <1>2, <2>2 DEF Receive, TypeInv, ReceivedTyped
      <3> QED BY <1>2, <2>2, <3>1, ReceiveEffect DEF ReceivedTyped
    <2> QED BY <2>1, <2>2 DEF AdapterDelivers, AdapterFails, received
  <1> QED BY <1>1, <1>2, <1>3, <1>4, <1>5, <1>6 DEF TypeInv

LEMMA RestartTypes ==
  ASSUME TypeInv, NEW i \in Instances, Restart(i)
  PROVE  TypeInv'
  <1>1. SocketsTyped'
    BY DEF Restart, TypeInv, SocketsTyped, Local
  <1>2. QueuesTyped'
    BY EmptyFacts DEF Restart, TypeInv, QueuesTyped
  <1>3. ReceivedTyped'
    BY DEF Restart, TypeInv, ReceivedTyped, received
  <1>4. HistoryTyped'
    BY DEF Restart, TypeInv, HistoryTyped, Local
  <1> QED BY <1>1, <1>2, <1>3, <1>4 DEF TypeInv

LEMMA DropTypes ==
  ASSUME TypeInv, NEW i \in Instances, SubscriberDrops(i)
  PROVE  TypeInv'
  <1>1. SocketsTyped'
    BY DEF SubscriberDrops, TypeInv, SocketsTyped, sockets
  <1>2. QueuesTyped'
    BY EmptyFacts DEF SubscriberDrops, TypeInv, QueuesTyped
  <1>3. ReceivedTyped'
    BY DEF SubscriberDrops, TypeInv, ReceivedTyped, received
  <1>4. HistoryTyped'
    BY DEF SubscriberDrops, TypeInv, HistoryTyped, sockets
  <1> QED BY <1>1, <1>2, <1>3, <1>4 DEF TypeInv

(* Instances that start, and clients that join.                              *)
Begins == \/ \E i \in Instances : PingSucceeds(i) \/ PingFails(i) \/ setupEventSubscriptions(i)
          \/ \E c \in Clients : handleJoinWorkspace(c)

LEMMA BeginTypes ==
  ASSUME TypeInv, Begins PROVE TypeInv'
  <1>1. UNCHANGED <<emitted, connections, received, history>>
    BY DEF Begins, PingSucceeds, PingFails, setupEventSubscriptions, handleJoinWorkspace
  <1>2. QueuesTyped' /\ ReceivedTyped'
    BY <1>1 DEF TypeInv, QueuesTyped, ReceivedTyped, connections, received
  <1>3. SocketsTyped'
    BY DEF Begins, PingSucceeds, PingFails, setupEventSubscriptions, handleJoinWorkspace,
           TypeInv, SocketsTyped, sockets
  <1>4. HistoryTyped'
    BY <1>1 DEF Begins, PingSucceeds, PingFails, setupEventSubscriptions, handleJoinWorkspace,
                TypeInv, HistoryTyped, SocketsTyped, history, sockets
  <1> QED BY <1>2, <1>3, <1>4 DEF TypeInv

(* The steps, as the proofs below distinguish them.                          *)
LEMMA Steps ==
  ASSUME TypeInv, [Next]_vars
  PROVE  \/ UNCHANGED vars
         \/ Begins
         \/ \E i \in Instances : Restart(i) \/ SubscriberDrops(i) \/ handleCrossInstanceEvent(i)
         \/ \E i \in Instances : publishEvent(i) \/ PublishFails(i)
         \/ \E i, j \in Instances : AdapterDelivers(i, j) \/ AdapterFails(i, j)
         \/ room' \subseteq room /\ \E i \in Instances : \E cs \in SUBSET Local(i) : Broadcast(i, cs)
  BY BroadcastOf DEF Next, Starts, Transmits, Handles, Begins

LEMMA TypeStep == TypeInv /\ [Next]_vars => TypeInv'
  <1> SUFFICES ASSUME TypeInv, [Next]_vars PROVE TypeInv'
    OBVIOUS
  <1>1. CASE UNCHANGED vars
    BY <1>1 DEF vars, sockets, connections, received, history, TypeInv,
                SocketsTyped, QueuesTyped, ReceivedTyped, HistoryTyped
  <1> QED BY <1>1, Steps, BeginTypes, RestartTypes, DropTypes, HeardTypes, PublishTypes, RelayTypes, BroadcastTypes

(* TypeOK: the types.                                                        *)
THEOREM TypeCorrectness == Spec => []TypeOK
  BY TypeInit, TypeStep, TypeInvMeansTypeOK, PTL DEF Spec

-----------------------------------------------------------------------------
(* An event is at one place at a time on its way through Redis: in one       *)
(* command, or after that at most once on the way to each instance.          *)

OnceInv ==
  /\ \A i \in Instances : Distinct(commands[i]) /\ Distinct(heard[i])
  /\ \A i, j \in Instances, e \in Events :
       Carries(commands[i], e) => ~Carries(heard[j], e) /\ (Carries(commands[j], e) => i = j)

LEMMA OnceInit == Init => OnceInv
  BY EmptyFacts DEF Init, OnceInv

(* Queues that only get shorter.                                             *)
LEMMA OnceFrame ==
  ASSUME OnceInv,
         \A i \in Instances : /\ Distinct(commands'[i]) /\ Distinct(heard'[i])
                              /\ \A e \in Events : Carries(commands'[i], e) => Carries(commands[i], e)
                              /\ \A e \in Events : Carries(heard'[i], e) => Carries(heard[i], e)
  PROVE  OnceInv'
  BY DEF OnceInv

LEMMA OnceStep ==
  ASSUME TypeInv, OnceInv, [Next]_vars PROVE OnceInv'
  <1>1. CASE commands' = commands /\ heard' = heard
    BY <1>1 DEF OnceInv
  <1>2. ASSUME NEW i \in Instances, handleCrossInstanceEvent(i) PROVE OnceInv'
    <2>1. heard[i] # <<>> /\ heard' = [heard EXCEPT ![i] = Tail(heard[i])] /\ commands' = commands
      BY <1>2, HeardTypes DEF handleCrossInstanceEvent
    <2>2. /\ Distinct(Tail(heard[i]))
          /\ \A e \in Events : Carries(Tail(heard[i]), e) => Carries(heard[i], e)
      BY <2>1, TailFacts DEF TypeInv, QueuesTyped, OnceInv
    <2>3. /\ heard'[i] = Tail(heard[i])
          /\ \A j \in Instances : j # i => heard'[j] = heard[j]
      BY <2>1 DEF TypeInv, QueuesTyped
    <2> QED BY <2>1, <2>2, <2>3, OnceFrame DEF OnceInv
  <1>3. ASSUME NEW i \in Instances, publishEvent(i) \/ PublishFails(i) PROVE OnceInv'
    <2> DEFINE f == Head(commands[i])
    <2>1. /\ commands[i] # <<>> /\ commands' = [commands EXCEPT ![i] = Tail(commands[i])]
          /\ f \in 1..emitted /\ f \in Events
      BY <1>3, PublishTypes
    <2>2. /\ Distinct(Tail(commands[i])) /\ ~Carries(Tail(commands[i]), f)
          /\ \A e \in Events : Carries(commands[i], e) <=> e = f \/ Carries(Tail(commands[i]), e)
      BY <2>1, TailFacts DEF TypeInv, QueuesTyped, OnceInv
    <2>3. /\ commands'[i] = Tail(commands[i])
          /\ \A j \in Instances : j # i => commands'[j] = commands[j]
      BY <2>1 DEF TypeInv, QueuesTyped
    <2>4. CASE heard' = heard
      BY <2>2, <2>3, <2>4, OnceFrame DEF OnceInv
    <2>5. CASE publishEvent(i)
      <3>1. /\ \A j \in Instances : heard'[j] = Append(heard[j], f) \/ heard'[j] = heard[j]
            /\ \A j \in Instances : heard[j] \in Seq(1..emitted)
        BY <2>5 DEF publishEvent, TypeInv, QueuesTyped
      <3>2. \A j \in Instances : ~Carries(heard[j], f) /\ (Carries(commands[j], f) => j = i)
        BY <2>1, <2>2 DEF OnceInv
      <3>3. \A j \in Instances : Distinct(Append(heard[j], f)) /\ \A e \in Events :
              Carries(Append(heard[j], f), e) <=> Carries(heard[j], e) \/ e = f
        <4> HIDE DEF f
        <4> TAKE j \in Instances
        <4>1. Distinct(heard[j]) /\ ~Carries(heard[j], f) /\ heard[j] \in Seq(1..emitted)
          BY <3>1, <3>2 DEF OnceInv
        <4> QED BY <2>1, <4>1, AppendEvent
      <3> HIDE DEF f
      <3>4. \A j \in Instances, e \in Events :
              /\ Distinct(heard'[j])
              /\ Carries(heard'[j], e) => Carries(heard[j], e) \/ e = f
        BY <3>1, <3>3 DEF OnceInv
      <3>5. \A j \in Instances, e \in Events :
              /\ Distinct(commands'[j])
              /\ Carries(commands'[j], e) => Carries(commands[j], e) /\ e # f
        BY <2>2, <2>3, <3>2 DEF OnceInv
      <3>6. ASSUME NEW j \in Instances, NEW k \in Instances, NEW e \in Events, Carries(commands'[j], e)
            PROVE  ~Carries(heard'[k], e) /\ (Carries(commands'[k], e) => j = k)
        <4>1. Carries(commands[j], e) /\ e # f
          BY <3>5, <3>6
        <4>2. ~Carries(heard[k], e) /\ (Carries(commands[k], e) => j = k)
          BY <4>1 DEF OnceInv
        <4> QED BY <3>4, <3>5, <4>1, <4>2
      <3>7. \A j \in Instances : Distinct(commands'[j]) /\ Distinct(heard'[j])
        BY <2>1, <3>4, <3>5
      <3> QED BY <3>6, <3>7 DEF OnceInv
    <2> QED BY <1>3, <2>4, <2>5 DEF PublishFails
  <1>4. ASSUME NEW i \in Instances, NEW cs, Broadcast(i, cs) PROVE OnceInv'
    <2>1. /\ commands' = [commands EXCEPT ![i] = Append(commands[i], emitted + 1)] /\ heard' = heard
          /\ emitted + 1 \in Events
      BY <1>4, MaxEventsAssumption DEF Broadcast, TypeInv, QueuesTyped, Events
    <2>2. \A j \in Instances : ~Carries(commands[j], emitted + 1) /\ ~Carries(heard[j], emitted + 1)
      BY DEF Carries, TypeInv, QueuesTyped
    <2>3. commands[i] \in Seq(1..emitted + 1) /\ emitted + 1 \in 1..emitted + 1
      BY SeqGrows DEF TypeInv, QueuesTyped
    <2>4. /\ Distinct(Append(commands[i], emitted + 1))
          /\ \A e \in Events : Carries(Append(commands[i], emitted + 1), e)
                               <=> Carries(commands[i], e) \/ e = emitted + 1
      BY <2>2, <2>3, AppendFacts DEF OnceInv
    <2>5. /\ commands'[i] = Append(commands[i], emitted + 1)
          /\ \A j \in Instances : j # i => commands'[j] = commands[j]
      BY <2>1 DEF TypeInv, QueuesTyped
    <2> QED BY <2>1, <2>2, <2>4, <2>5 DEF OnceInv
  <1>5. ASSUME NEW i \in Instances, Restart(i) \/ SubscriberDrops(i) PROVE OnceInv'
    <2>1. /\ \A j \in Instances : commands'[j] = commands[j] \/ commands'[j] = <<>>
          /\ \A j \in Instances : heard'[j] = heard[j] \/ heard'[j] = <<>>
      BY <1>5 DEF Restart, SubscriberDrops, TypeInv, QueuesTyped
    <2> QED BY <2>1, EmptyFacts, OnceFrame DEF OnceInv
  <1>6. CASE UNCHANGED vars \/ Begins
    BY <1>1, <1>6 DEF vars, connections, Begins, PingSucceeds, PingFails, setupEventSubscriptions,
                      handleJoinWorkspace
  <1>7. ASSUME NEW i \in Instances, NEW j \in Instances, AdapterDelivers(i, j) \/ AdapterFails(i, j)
        PROVE  OnceInv'
    BY <1>1, <1>7 DEF AdapterDelivers, AdapterFails
  <1> QED BY <1>2, <1>3, <1>4, <1>5, <1>6, <1>7, Steps

-----------------------------------------------------------------------------
(* PublishedReachesAll: until it has arrived, a published event is on its    *)
(* way to each instance it was published to.                                 *)

ReachInv ==
  /\ \A e \in Events : e > emitted => audience[e] = {}
  /\ \A c \in Clients, e \in Events :
       c \in witnesses[e] /\ home[c] \in audience[e] => copies[c][e] > 0 \/ Carries(heard[home[c]], e)

LEMMA ReachInit == Init => ReachInv
  BY DEF Init, ReachInv

(* Steps that publish nothing, lose nothing on its way and add no witness.   *)
LEMMA ReachFrame ==
  ASSUME TypeInv, ReachInv, audience' = audience, emitted' >= emitted, emitted' \in Nat,
         \A c \in Clients, e \in Events :
           /\ copies'[c][e] \in Nat /\ copies'[c][e] >= copies[c][e]
           /\ c \in witnesses'[e] /\ e <= emitted =>
                c \in witnesses[e] /\ (Carries(heard[home[c]], e) => copies'[c][e] > 0 \/ Carries(heard'[home[c]], e))
  PROVE  ReachInv'
  <1>1. \A e \in Events : e \in Int
    BY DEF Events
  <1>2. \A c \in Clients, e \in Events : copies[c][e] \in Nat
    BY DEF TypeInv, ReceivedTyped
  <1>3. emitted \in Nat
    BY DEF TypeInv, QueuesTyped
  <1> QED BY <1>1, <1>2, <1>3 DEF ReachInv

LEMMA ReachStep ==
  ASSUME TypeInv, ReachInv, [Next]_vars PROVE ReachInv'
  <1>0. /\ \A c \in Clients, e \in Events : copies[c][e] \in Nat
        /\ \A c \in Clients, e \in Events : copies'[c][e] \in Nat
        /\ emitted \in Nat /\ emitted' \in Nat
    BY TypeStep DEF TypeInv, ReceivedTyped, QueuesTyped
  <1>1. CASE UNCHANGED vars \/ Begins
    <2>1. /\ audience' = audience /\ emitted' = emitted /\ copies' = copies /\ heard' = heard
          /\ \A e \in Events : witnesses'[e] \subseteq witnesses[e]
      BY <1>1 DEF vars, connections, received, history, Begins, PingSucceeds, PingFails,
                  setupEventSubscriptions, handleJoinWorkspace
    <2> QED BY <1>0, <2>1, ReachFrame
  <1>2. ASSUME NEW i \in Instances, handleCrossInstanceEvent(i) PROVE ReachInv'
    <2> DEFINE f == Head(heard[i])
    <2>1. /\ heard[i] # <<>> /\ heard' = [heard EXCEPT ![i] = Tail(heard[i])]
          /\ f \in Events /\ Receive(Local(i), f)
      BY <1>2, HeardTypes DEF emit
    <2>2. /\ audience' = audience /\ emitted' = emitted /\ witnesses' = witnesses
      BY <1>2 DEF handleCrossInstanceEvent, history
    <2>3. \A e \in Events : Carries(heard[i], e) => e = f \/ Carries(Tail(heard[i]), e)
      BY <2>1, TailFacts DEF TypeInv, QueuesTyped
    <2>4. /\ heard'[i] = Tail(heard[i])
          /\ \A j \in Instances : j # i => heard'[j] = heard[j]
      BY <2>1 DEF TypeInv, QueuesTyped
    <2> HIDE DEF f
    <2>5. /\ \A c \in Clients, e \in Events : copies'[c][e] >= copies[c][e]
          /\ \A c \in Clients : c \in Local(i) => copies'[c][f] = copies[c][f] + 1
      BY <2>1, ReceiveEffect
    <2>6. ASSUME NEW c \in Clients, NEW e \in Events, c \in witnesses[e], Carries(heard[home[c]], e)
          PROVE  copies'[c][e] > 0 \/ Carries(heard'[home[c]], e)
      <3>1. c \in Local(home[c])
        BY <2>6 DEF TypeInv, HistoryTyped, Local
      <3>2. home[c] \in Instances /\ copies[c][e] \in Nat
        BY <1>0, HomeAssumption
      <3>3. CASE home[c] = i /\ e = f
        BY <2>5, <3>1, <3>2, <3>3
      <3>4. CASE home[c] = i /\ e # f
        BY <2>3, <2>4, <2>6, <3>4
      <3>5. CASE home[c] # i
        BY <2>4, <2>6, <3>2, <3>5
      <3> QED BY <3>3, <3>4, <3>5
    <2> QED BY <1>0, <2>2, <2>5, <2>6, ReachFrame
  <1>3. ASSUME NEW i \in Instances, publishEvent(i) PROVE ReachInv'
    <2> DEFINE f == Head(commands[i])
    <2>1. f \in 1..emitted /\ f \in Events
      BY <1>3, PublishTypes
    <2>2. /\ heard' = [j \in Instances |-> IF j \in listening THEN Append(heard[j], f) ELSE heard[j]]
          /\ audience' = [audience EXCEPT ![f] = listening]
          /\ emitted' = emitted /\ copies' = copies /\ witnesses' = witnesses
      BY <1>3 DEF publishEvent, received
    <2> HIDE DEF f
    <2>3. \A j \in Instances, e \in Events : Carries(Append(heard[j], f), e) <=> Carries(heard[j], e) \/ e = f
      BY <2>1, AppendEvent DEF TypeInv, QueuesTyped
    <2>4. /\ audience'[f] = listening
          /\ \A e \in Events : e # f => audience'[e] = audience[e]
      BY <2>1, <2>2 DEF TypeInv, HistoryTyped
    <2>5. \A j \in Instances, e \in Events :
            Carries(heard[j], e) \/ (e = f /\ j \in listening) => Carries(heard'[j], e)
      BY <2>2, <2>3
    <2>6. \A c \in Clients : home[c] \in Instances
      BY HomeAssumption
    <2>7. ASSUME NEW c \in Clients, NEW e \in Events, c \in witnesses'[e], home[c] \in audience'[e]
          PROVE  copies'[c][e] > 0 \/ Carries(heard'[home[c]], e)
      <3>1. CASE e = f
        BY <2>4, <2>5, <2>6, <2>7, <3>1
      <3>2. CASE e # f
        <4>1. copies[c][e] > 0 \/ Carries(heard[home[c]], e)
          BY <2>2, <2>4, <2>7, <3>2 DEF ReachInv
        <4> QED BY <2>2, <2>5, <2>6, <4>1
      <3> QED BY <3>1, <3>2
    <2>8. \A e \in Events : e > emitted => audience'[e] = {}
      BY <1>0, <2>1, <2>4 DEF ReachInv, Events
    <2> QED BY <2>2, <2>7, <2>8 DEF ReachInv
  <1>4. ASSUME NEW i \in Instances, PublishFails(i) PROVE ReachInv'
    <2>1. audience' = audience /\ emitted' = emitted /\ copies' = copies /\ witnesses' = witnesses /\ heard' = heard
      BY <1>4 DEF PublishFails, received
    <2> QED BY <2>1 DEF ReachInv
  <1>5. ASSUME NEW i \in Instances, NEW j \in Instances, AdapterDelivers(i, j) \/ AdapterFails(i, j)
        PROVE  ReachInv'
    <2>1. audience' = audience /\ emitted' = emitted /\ witnesses' = witnesses /\ heard' = heard
      BY <1>5 DEF AdapterDelivers, AdapterFails, history
    <2>2. \A c \in Clients, e \in Events : copies'[c][e] >= copies[c][e]
      <3>1. CASE copies' = copies
        BY <1>0, <3>1
      <3>2. CASE Receive(Local(j), Head(relayed[i][j]))
        BY <1>0, <1>5, <3>2, RelayTypes, ReceiveEffect
      <3> QED BY <1>5, <3>1, <3>2 DEF AdapterDelivers, AdapterFails, received
    <2> QED BY <1>0, <2>1, <2>2, ReachFrame
  <1>6. ASSUME NEW i \in Instances, NEW cs, Broadcast(i, cs) PROVE ReachInv'
    <2>1. /\ audience' = audience /\ emitted' = emitted + 1 /\ heard' = heard
          /\ Receive(cs, emitted + 1) /\ emitted + 1 \in Events
          /\ witnesses' = [f \in Events |-> (IF f = emitted + 1 THEN room ELSE witnesses[f]) \intersect room']
      BY <1>6, MaxEventsAssumption DEF Broadcast, emit, history, TypeInv, QueuesTyped, Events
    <2>2. \A c \in Clients, e \in Events : copies'[c][e] >= copies[c][e]
      BY <1>0, <2>1, ReceiveEffect
    <2> QED BY <1>0, <2>1, <2>2, ReachFrame
  <1>7. ASSUME NEW i \in Instances, Restart(i) PROVE ReachInv'
    <2>1. /\ audience' = audience /\ emitted' = emitted /\ copies' = copies
          /\ heard' = [heard EXCEPT ![i] = <<>>]
          /\ witnesses' = [e \in Events |-> witnesses[e] \ Local(i)]
      BY <1>7 DEF Restart, received
    <2>2. ASSUME NEW c \in Clients, NEW e \in Events, c \in witnesses'[e]
          PROVE  c \in witnesses[e] /\ heard'[home[c]] = heard[home[c]]
      <3>1. c \in witnesses[e] /\ c \notin Local(i)
        BY <2>1, <2>2
      <3>2. home[c] # i /\ home[c] \in Instances
        BY <3>1, HomeAssumption DEF Local, TypeInv, HistoryTyped
      <3> QED BY <2>1, <3>1, <3>2 DEF TypeInv, QueuesTyped
    <2> QED BY <1>0, <2>1, <2>2, ReachFrame
  <1>8. ASSUME NEW i \in Instances, SubscriberDrops(i) PROVE ReachInv'
    <2>1. /\ emitted' = emitted /\ copies' = copies /\ witnesses' = witnesses
          /\ \A j \in Instances : j # i => heard'[j] = heard[j]
          /\ \A e \in Events : audience'[e] = IF Carries(heard[i], e) THEN audience[e] \ {i} ELSE audience[e]
      BY <1>8 DEF SubscriberDrops, received, TypeInv, QueuesTyped
    <2>2. \A e \in Events : e > emitted => audience'[e] = {}
      BY <2>1 DEF ReachInv
    <2>3. ASSUME NEW c \in Clients, NEW e \in Events, c \in witnesses[e], home[c] \in audience'[e]
          PROVE  copies[c][e] > 0 \/ Carries(heard'[home[c]], e)
      <3>1. copies[c][e] > 0 \/ Carries(heard[home[c]], e)
        BY <2>1, <2>3 DEF ReachInv
      <3>2. CASE home[c] = i
        BY <2>1, <2>3, <3>1, <3>2
      <3>3. CASE home[c] # i
        BY <2>1, <3>1, <3>3, HomeAssumption
      <3> QED BY <3>2, <3>3
    <2> QED BY <2>1, <2>2, <2>3 DEF ReachInv
  <1> QED BY <1>1, <1>2, <1>3, <1>4, <1>5, <1>6, <1>7, <1>8, Steps

(* PublishedReachesAll: when everything sent has arrived, a client has every *)
(* event published since the client is in the room, unless its instance was  *)
(* not subscribed then or lost it with its subscriber's connection, whatever *)
(* the adapters, other losses and restarts did.                              *)
THEOREM ChannelReachesAll == Spec => []PublishedReachesAll
  <1>1. TypeInv /\ ReachInv /\ [Next]_vars => TypeInv' /\ ReachInv'
    BY TypeStep, ReachStep
  <1>2. ReachInv => PublishedReachesAll
    BY EmptyFacts, HomeAssumption DEF ReachInv, PublishedReachesAll, Quiet
  <1> QED BY <1>1, <1>2, TypeInit, ReachInit, PTL DEF Spec

-----------------------------------------------------------------------------
(* CopiesAreBounded.  Every copy of an event goes back to somebody who       *)
(* emitted it: its origin, or an instance that heard it.  An emission gives  *)
(* a client one copy at most, at once or by the adapters.  So the copies a   *)
(* client got, and those on their way to it, can be told apart by emission.  *)

Origin == CHOOSE x : x \notin Instances
Emissions == Instances \union {Origin}

(* The copies of e in the queues of q come from different emissions of T:    *)
(* the one at position k of q[i] from t[i][k].                               *)
HoldsAt(q, e, i, k) == k \in 1..Len(q[i]) /\ q[i][k] = e

Apart(q, e, T, t) ==
  /\ \A i \in Instances, k \in Nat : HoldsAt(q, e, i, k) => t[i][k] \in T
  /\ \A i, j \in Instances, k, l \in Nat :
       HoldsAt(q, e, i, k) /\ HoldsAt(q, e, j, l) /\ t[i][k] = t[j][l] => i = j /\ k = l

(* A client got n copies of e, others are on their way to it in the queues   *)
(* of q, and all of them come from different emissions of T: the former from *)
(* those of D.                                                               *)
Accounted(n, q, e, T) ==
  \E D \in SUBSET T : \E t \in [Instances -> [Nat -> Emissions]] :
    n <= Cardinality(D) /\ Apart(q, e, T \ D, t)

LEMMA OriginIsNew == Origin \notin Instances
  BY NoSetContainsEverything DEF Origin

LEMMA EmissionsAreFinite ==
  /\ IsFiniteSet(Emissions)
  /\ Cardinality(Emissions) = Cardinality(Instances) + 1
  /\ \A D \in SUBSET Emissions : IsFiniteSet(D) /\ Cardinality(D) \in Nat /\ Cardinality(D) <= Cardinality(Emissions)
  BY InstancesAssumption, OriginIsNew, FS_AddElement, FS_Subset, FS_CardinalityType DEF Emissions

LEMMA AccountedEmpty ==
  ASSUME NEW e, NEW q, \A i \in Instances : q[i] = <<>>
  PROVE  Accounted(0, q, e, {})
  <1> DEFINE t == [i \in Instances |-> [k \in Nat |-> Origin]]
  <1>1. t \in [Instances -> [Nat -> Emissions]]
    BY DEF Emissions
  <1>2. Cardinality({}) = 0 /\ {} \in SUBSET {}
    BY FS_EmptySet
  <1> HIDE DEF t
  <1>3. Apart(q, e, {} \ {}, t)
    BY EmptyFacts DEF Apart, HoldsAt
  <1> QED BY <1>1, <1>2, <1>3 DEF Accounted

LEMMA ApartGrows ==
  ASSUME NEW q, NEW e, NEW t, NEW T, NEW U, T \subseteq U, Apart(q, e, T, t)
  PROVE  Apart(q, e, U, t)
  BY DEF Apart

(* The copies of e in the queues r were in q before, each at its Was[h][k],  *)
(* and keep their emissions.                                                 *)
Stay(q, r, e, t, u, Was) ==
  /\ \A h \in Instances, k \in Nat : HoldsAt(r, e, h, k) =>
       Was[h][k] \in Nat /\ HoldsAt(q, e, h, Was[h][k]) /\ u[h][k] = t[h][Was[h][k]]
  /\ \A h \in Instances, k, l \in Nat : Was[h][k] = Was[h][l] => k = l

LEMMA ApartKept ==
  ASSUME NEW q, NEW r, NEW e, NEW T, NEW t, NEW u, NEW Was, Apart(q, e, T, t), Stay(q, r, e, t, u, Was)
  PROVE  Apart(r, e, T, u)
  BY DEF Apart, Stay

LEMMA ApartSame ==
  ASSUME NEW q, NEW r, NEW e, NEW T, NEW t, Apart(q, e, T, t),
         \A h \in Instances, k \in Nat : HoldsAt(r, e, h, k) => HoldsAt(q, e, h, k)
  PROVE  Apart(r, e, T, t)
  BY DEF Apart

(* Emissions may be forgotten about, and queues cleared.                     *)
LEMMA AccountedFrame ==
  ASSUME NEW n, NEW e, NEW T, NEW U \in SUBSET Emissions, T \subseteq U, NEW q, NEW r,
         \A i \in Instances : r[i] = q[i] \/ r[i] = <<>>,
         Accounted(n, q, e, T)
  PROVE  Accounted(n, r, e, U)
  <1>1. PICK D \in SUBSET T, t \in [Instances -> [Nat -> Emissions]] :
          n <= Cardinality(D) /\ Apart(q, e, T \ D, t)
    BY DEF Accounted
  <1>2. \A i \in Instances, k \in Nat : HoldsAt(r, e, i, k) => HoldsAt(q, e, i, k)
    BY EmptyFacts DEF HoldsAt
  <1>3. Apart(r, e, T \ D, t)
    BY <1>1, <1>2, ApartSame
  <1>4. Apart(r, e, U \ D, t)
    BY <1>3, ApartGrows
  <1> QED BY <1>1, <1>4 DEF Accounted

(* A new emission x that reaches the client at once.                         *)
LEMMA AccountedGot ==
  ASSUME NEW n \in Nat, NEW e, NEW T, NEW U \in SUBSET Emissions, T \subseteq U, NEW q,
         NEW x \in U, x \notin T, Accounted(n, q, e, T)
  PROVE  Accounted(n + 1, q, e, U)
  <1>1. PICK D \in SUBSET T, t \in [Instances -> [Nat -> Emissions]] :
          n <= Cardinality(D) /\ Apart(q, e, T \ D, t)
    BY DEF Accounted
  <1> DEFINE E == D \union {x}
  <1>2. E \in SUBSET U /\ T \ D \subseteq U \ E
    OBVIOUS
  <1>3. n + 1 <= Cardinality(E)
    <2>1. IsFiniteSet(D) /\ x \notin D /\ Cardinality(D) \in Nat
      BY EmissionsAreFinite
    <2>2. Cardinality(E) = Cardinality(D) + 1
      BY <2>1, FS_AddElement
    <2> HIDE DEF E
    <2> QED BY <1>1, <2>1, <2>2
  <1> HIDE DEF E
  <1>4. Apart(q, e, U \ E, t)
    BY <1>1, <1>2, ApartGrows
  <1> QED BY <1>1, <1>2, <1>3, <1>4 DEF Accounted

(* Event f appended to queue i.                                              *)
Appended(q, r, i, f) ==
  /\ \A h \in Instances : q[h] \in Seq(Events)
  /\ r[i] = Append(q[i], f) /\ \A h \in Instances : h # i => r[h] = q[h]

(* An emission that the adapters will bring.                                 *)
LEMMA AccountedSent ==
  ASSUME NEW n, NEW e \in Events, NEW T, NEW U \in SUBSET Emissions, T \subseteq U, NEW q, NEW r,
         NEW x \in U, x \notin T, NEW i \in Instances, Appended(q, r, i, e), Accounted(n, q, e, T)
  PROVE  Accounted(n, r, e, U)
  <1>1. PICK D \in SUBSET T, t \in [Instances -> [Nat -> Emissions]] :
          n <= Cardinality(D) /\ Apart(q, e, T \ D, t)
    BY DEF Accounted
  <1> DEFINE m == Len(q[i]) + 1
             u == [h \in Instances |-> [k \in Nat |-> IF h = i /\ k = m THEN x ELSE t[h][k]]]
  <1>2. /\ m \in Nat /\ Len(r[i]) = m /\ r[i][m] = e
        /\ \A k \in 1..m : k = m \/ (k \in 1..Len(q[i]) /\ r[i][k] = q[i][k])
    BY DEF Appended
  <1>3. u \in [Instances -> [Nat -> Emissions]] /\ u[i][m] = x
    BY <1>2
  <1>4. \A h \in Instances : \A k \in Nat : h # i \/ k # m => u[h][k] = t[h][k]
    OBVIOUS
  <1> HIDE DEF u, m
  <1>5. ASSUME NEW h \in Instances, NEW k \in Nat, HoldsAt(r, e, h, k), h # i \/ k # m
        PROVE  HoldsAt(q, e, h, k) /\ u[h][k] = t[h][k] /\ t[h][k] \in T \ D
    <2>1. HoldsAt(q, e, h, k)
      BY <1>2, <1>5 DEF HoldsAt, Appended
    <2> QED BY <1>1, <1>4, <1>5, <2>1 DEF Apart
  <1>6. ASSUME NEW h \in Instances, NEW j \in Instances, NEW k \in Nat, NEW l \in Nat,
               HoldsAt(r, e, h, k), HoldsAt(r, e, j, l), u[h][k] = u[j][l]
        PROVE  h = j /\ k = l
    <2>1. CASE h = i /\ k = m
      BY <1>3, <1>5, <1>6, <2>1
    <2>2. CASE j = i /\ l = m
      BY <1>3, <1>5, <1>6, <2>2
    <2>3. CASE (h # i \/ k # m) /\ (j # i \/ l # m)
      BY <1>1, <1>5, <1>6, <2>3 DEF Apart
    <2> QED BY <2>1, <2>2, <2>3
  <1>7. \A h \in Instances, k \in Nat : HoldsAt(r, e, h, k) => u[h][k] \in U \ D
    BY <1>3, <1>5
  <1>8. Apart(r, e, U \ D, u)
    BY <1>6, <1>7 DEF Apart
  <1> QED BY <1>1, <1>3, <1>8 DEF Accounted

(* One of another event, of no concern here.                                 *)
LEMMA AccountedOther ==
  ASSUME NEW n, NEW e \in Events, NEW f \in Events, f # e, NEW T, NEW q, NEW r, NEW i \in Instances,
         Appended(q, r, i, f), Accounted(n, q, e, T)
  PROVE  Accounted(n, r, e, T)
  <1>1. PICK D \in SUBSET T, t \in [Instances -> [Nat -> Emissions]] :
          n <= Cardinality(D) /\ Apart(q, e, T \ D, t)
    BY DEF Accounted
  <1>2. ASSUME NEW h \in Instances, NEW k \in Nat, HoldsAt(r, e, h, k)
        PROVE  HoldsAt(q, e, h, k)
    <2>1. CASE h = i
      BY <1>2, <2>1 DEF HoldsAt, Appended
    <2>2. CASE h # i
      BY <1>2, <2>2 DEF HoldsAt, Appended
    <2> QED BY <2>1, <2>2
  <1>3. Apart(r, e, T \ D, t)
    BY <1>1, <1>2, ApartSame
  <1> QED BY <1>1, <1>3 DEF Accounted

(* The first event taken from queue i.                                       *)
Shortened(q, r, i) ==
  /\ \A h \in Instances : q[h] \in Seq(Events)
  /\ q[i] # <<>> /\ r[i] = Tail(q[i]) /\ \A h \in Instances : h # i => r[h] = q[h]

(* A copy taken from queue i, that the client gets if g = n + 1.             *)
LEMMA AccountedTaken ==
  ASSUME NEW n \in Nat, NEW g \in {n, n + 1}, NEW e \in Events, NEW T \in SUBSET Emissions, NEW q, NEW r,
         NEW i \in Instances, Shortened(q, r, i), g = n + 1 => Head(q[i]) = e, Accounted(n, q, e, T)
  PROVE  Accounted(g, r, e, T)
  <1>1. PICK D \in SUBSET T, t \in [Instances -> [Nat -> Emissions]] :
          n <= Cardinality(D) /\ Apart(q, e, T \ D, t)
    BY DEF Accounted
  <1> DEFINE Was == [h \in Instances |-> [k \in Nat |-> IF h = i THEN k + 1 ELSE k]]
             u == [h \in Instances |-> [k \in Nat |-> t[h][Was[h][k]]]]
  <1>2. u \in [Instances -> [Nat -> Emissions]]
    OBVIOUS
  <1>3. /\ Len(q[i]) \in Nat /\ Len(q[i]) > 0 /\ q[i][1] = Head(q[i]) /\ Len(r[i]) = Len(q[i]) - 1
        /\ \A k \in 1..Len(r[i]) : k + 1 \in 1..Len(q[i]) /\ r[i][k] = q[i][k + 1]
    BY DEF Shortened
  <1>4. /\ \A k \in Nat : Was[i][k] = k + 1
        /\ \A h \in Instances, k \in Nat : h # i => Was[h][k] = k
        /\ \A h \in Instances, k \in Nat : u[h][k] = t[h][Was[h][k]]
    OBVIOUS
  <1> HIDE DEF u, Was
  <1>5. ASSUME NEW h \in Instances, NEW k \in Nat, HoldsAt(r, e, h, k)
        PROVE  /\ Was[h][k] \in Nat /\ HoldsAt(q, e, h, Was[h][k])
               /\ u[h][k] = t[h][Was[h][k]] /\ (h = i => Was[h][k] # 1)
    <2>1. CASE h = i
      <3>1. k \in 1..Len(r[i]) /\ r[i][k] = e /\ Was[h][k] = k + 1
        BY <1>4, <1>5, <2>1 DEF HoldsAt
      <3>2. k + 1 \in Nat /\ k + 1 # 1 /\ k + 1 \in 1..Len(q[i]) /\ q[i][k + 1] = e
        BY <1>3, <3>1
      <3>3. HoldsAt(q, e, i, k + 1)
        BY <3>2 DEF HoldsAt
      <3> QED BY <1>4, <2>1, <3>1, <3>2, <3>3
    <2>2. CASE h # i
      BY <1>4, <1>5, <2>2 DEF HoldsAt, Shortened
    <2> QED BY <2>1, <2>2
  <1>6. \A h \in Instances, k, l \in Nat : Was[h][k] = Was[h][l] => k = l
    <2>1. ASSUME NEW h \in Instances, NEW k \in Nat, NEW l \in Nat, Was[h][k] = Was[h][l]
          PROVE  k = l
      <3>1. CASE h = i
        <4>1. Was[h][k] = k + 1 /\ Was[h][l] = l + 1
          BY <1>4, <3>1
        <4>2. k + 1 = l + 1
          BY <2>1, <4>1
        <4> QED BY <4>2
      <3>2. CASE h # i
        <4>1. Was[h][k] = k /\ Was[h][l] = l
          BY <1>4, <3>2
        <4> QED BY <2>1, <4>1
      <3> QED BY <3>1, <3>2
    <2> QED BY <2>1
  <1>7. Apart(r, e, T \ D, u)
    <2>1. Apart(q, e, T \ D, t)
      BY <1>1
    <2>2. \A h \in Instances, k \in Nat : HoldsAt(r, e, h, k) =>
            Was[h][k] \in Nat /\ HoldsAt(q, e, h, Was[h][k]) /\ u[h][k] = t[h][Was[h][k]]
      BY <1>5
    <2>3. Stay(q, r, e, t, u, Was)
      BY <1>6, <2>2 DEF Stay
    <2> QED BY <2>1, <2>3, ApartKept
  <1>8. CASE g = n
    BY <1>1, <1>2, <1>7, <1>8 DEF Accounted
  <1>9. CASE g = n + 1
    <2> DEFINE E == D \union {t[i][1]}
    <2>1. HoldsAt(q, e, i, 1) /\ t[i][1] \in T \ D
      <3>1. HoldsAt(q, e, i, 1)
        BY <1>3, <1>9 DEF HoldsAt
      <3> QED BY <1>1, <3>1 DEF Apart
    <2>2. E \in SUBSET T /\ g <= Cardinality(E)
      <3>1. IsFiniteSet(D) /\ Cardinality(D) \in Nat
        BY EmissionsAreFinite
      <3>2. Cardinality(D \union {t[i][1]}) = Cardinality(D) + 1
        BY <2>1, <3>1, FS_AddElement
      <3> QED BY <1>1, <1>9, <2>1, <3>1, <3>2
    <2>3. ASSUME NEW h \in Instances, NEW k \in Nat, HoldsAt(r, e, h, k)
          PROVE  u[h][k] \in T \ E
      <3>1. u[h][k] \in T \ D
        BY <1>7, <2>3 DEF Apart
      <3>2. u[h][k] # t[i][1]
        BY <1>1, <1>5, <2>1, <2>3 DEF Apart
      <3> QED BY <3>1, <3>2
    <2> HIDE DEF E
    <2>4. Apart(r, e, T \ E, u)
      BY <1>7, <2>3 DEF Apart
    <2> QED BY <1>2, <2>2, <2>4 DEF Accounted
  <1> QED BY <1>8, <1>9

(* The emissions of e there have been: the first, and those of instances     *)
(* that will not hear e again.                                               *)
Spent(e) == {x \in Emissions : e <= emitted /\
  (x \in Instances => ~Carries(heard[x], e) /\ \A i \in Instances : ~Carries(commands[i], e))}

(* The queues to a client.                                                   *)
ToClient(c) == [i \in Instances |-> relayed[i][home[c]]]

CopyInv == \A c \in Clients, e \in Events : Accounted(copies[c][e], ToClient(c), e, Spent(e))

LEMMA QueuesToClient ==
  ASSUME TypeInv, NEW c \in Clients
  PROVE  /\ \A i \in Instances : ToClient(c)[i] = relayed[i][home[c]]
         /\ \A i \in Instances : ToClient(c)[i] \in Seq(Events)
         /\ home[c] \in Instances
  <1>1. emitted \in Nat /\ MaxEvents \in Nat /\ emitted <= MaxEvents
    BY MaxEventsAssumption DEF TypeInv, QueuesTyped
  <1>2. Seq(1..emitted) \subseteq Seq(Events)
    BY <1>1, SeqGrows DEF Events
  <1> QED BY <1>2, HomeAssumption DEF ToClient, TypeInv, QueuesTyped

LEMMA CopyInit == Init => CopyInv
  <1> SUFFICES ASSUME Init, NEW c \in Clients, NEW e \in Events
               PROVE  Accounted(copies[c][e], ToClient(c), e, Spent(e))
    BY DEF CopyInv
  <1>1. copies[c][e] = 0 /\ \A i \in Instances : ToClient(c)[i] = <<>>
    BY HomeAssumption DEF Init, ToClient
  <1>2. Accounted(0, ToClient(c), e, {})
    BY <1>1, AccountedEmpty
  <1>3. Spent(e) \in SUBSET Emissions /\ {} \subseteq Spent(e)
    BY DEF Spent
  <1> QED BY <1>1, <1>2, <1>3, AccountedFrame

(* An emission that has been is not taken back: no event is sent again.      *)
LEMMA SpentGrows ==
  ASSUME TypeInv, OnceInv, [Next]_vars, NEW e \in Events
  PROVE  Spent(e) \subseteq Spent(e)' /\ Spent(e)' \in SUBSET Emissions
  <1> SUFFICES ASSUME NEW x \in Spent(e) PROVE x \in Spent(e)'
    BY DEF Spent
  <1>1. x \in Emissions /\ e <= emitted
    BY DEF Spent
  <1>2. CASE x \notin Instances
    <2>1. emitted' \in {emitted, emitted + 1}
      BY Steps DEF vars, Begins, PingSucceeds, PingFails, setupEventSubscriptions, handleJoinWorkspace, Restart, SubscriberDrops,
                   handleCrossInstanceEvent, publishEvent, PublishFails, AdapterDelivers, AdapterFails, Broadcast
    <2>2. emitted \in Nat /\ e \in Int
      BY DEF TypeInv, QueuesTyped, Events
    <2> QED BY <1>1, <1>2, <2>1, <2>2 DEF Spent
  <1>3. CASE x \in Instances
    <2>1. ~Carries(heard[x], e) /\ \A i \in Instances : ~Carries(commands[i], e)
      BY <1>3 DEF Spent
    <2>2. emitted' = emitted /\ commands' = commands /\ heard' = heard => x \in Spent(e)'
      BY <1>1, <2>1 DEF Spent
    <2>3. ASSUME emitted' \in {emitted, emitted + 1}, ~Carries(heard'[x], e),
                 \A i \in Instances : ~Carries(commands'[i], e)
          PROVE  x \in Spent(e)'
      BY <1>1, <2>3 DEF Spent, Events, TypeInv, QueuesTyped
    <2>4. ASSUME NEW i \in Instances, handleCrossInstanceEvent(i) PROVE x \in Spent(e)'
      <3>1. heard[i] # <<>> /\ heard' = [heard EXCEPT ![i] = Tail(heard[i])]
            /\ commands' = commands /\ emitted' = emitted
        BY <2>4, HeardTypes DEF handleCrossInstanceEvent
      <3>2. Carries(Tail(heard[i]), e) => Carries(heard[i], e)
        BY <3>1, TailFacts DEF TypeInv, QueuesTyped
      <3>3. ~Carries(heard'[x], e)
        BY <2>1, <3>1, <3>2 DEF TypeInv, QueuesTyped
      <3> QED BY <2>1, <2>3, <3>1, <3>3
    <2>5. ASSUME NEW i \in Instances, publishEvent(i) \/ PublishFails(i) PROVE x \in Spent(e)'
      <3> DEFINE f == Head(commands[i])
      <3>1. /\ commands[i] # <<>> /\ commands' = [commands EXCEPT ![i] = Tail(commands[i])]
            /\ f \in 1..emitted /\ emitted' = emitted
        BY <2>5, PublishTypes DEF publishEvent, PublishFails
      <3>2. f # e /\ (Carries(Tail(commands[i]), e) => Carries(commands[i], e))
        BY <2>1, <3>1, TailFacts DEF TypeInv, QueuesTyped
      <3>3. \A j \in Instances : ~Carries(commands'[j], e)
        BY <2>1, <3>1, <3>2 DEF TypeInv, QueuesTyped
      <3>4. heard'[x] = Append(heard[x], f) \/ heard'[x] = heard[x]
        BY <1>3, <2>5 DEF publishEvent, PublishFails
      <3> HIDE DEF f
      <3>5. ~Carries(Append(heard[x], f), e)
        BY <1>3, <2>1, <3>1, <3>2, AppendEvent DEF TypeInv, QueuesTyped
      <3> QED BY <2>1, <2>3, <3>1, <3>3, <3>4, <3>5
    <2>6. ASSUME NEW i \in Instances, NEW cs, Broadcast(i, cs) PROVE x \in Spent(e)'
      <3>1. /\ commands' = [commands EXCEPT ![i] = Append(commands[i], emitted + 1)] /\ heard' = heard
            /\ emitted' = emitted + 1 /\ emitted + 1 # e
        BY <1>1, <2>6 DEF Broadcast, TypeInv, QueuesTyped, Events
      <3>2. commands[i] \in Seq(1..emitted + 1) /\ emitted + 1 \in 1..emitted + 1
        BY SeqGrows DEF TypeInv, QueuesTyped
      <3>3. ~Carries(Append(commands[i], emitted + 1), e)
        BY <2>1, <3>1, <3>2, AppendFacts
      <3>4. \A j \in Instances : ~Carries(commands'[j], e)
        BY <2>1, <3>1, <3>3 DEF TypeInv, QueuesTyped
      <3> QED BY <2>1, <2>3, <3>1, <3>4
    <2>7. ASSUME NEW i \in Instances, Restart(i) \/ SubscriberDrops(i) PROVE x \in Spent(e)'
      <3>1. /\ \A j \in Instances : commands'[j] = commands[j] \/ commands'[j] = <<>>
            /\ \A j \in Instances : heard'[j] = heard[j] \/ heard'[j] = <<>>
            /\ emitted' = emitted
        BY <2>7 DEF Restart, SubscriberDrops, TypeInv, QueuesTyped
      <3> QED BY <1>3, <2>1, <2>3, <3>1, EmptyFacts
    <2>8. CASE UNCHANGED vars \/ Begins
      BY <2>2, <2>8 DEF vars, connections, Begins, PingSucceeds, PingFails, setupEventSubscriptions,
                        handleJoinWorkspace
    <2>9. ASSUME NEW i \in Instances, NEW j \in Instances, AdapterDelivers(i, j) \/ AdapterFails(i, j)
          PROVE  x \in Spent(e)'
      BY <2>2, <2>9 DEF AdapterDelivers, AdapterFails
    <2> QED BY <2>4, <2>5, <2>6, <2>7, <2>8, <2>9, Steps
  <1> QED BY <1>2, <1>3

(* Instance i emits event f, by an emission x that is spent with it.         *)
LEMMA EmitAccounts ==
  ASSUME TypeInv, CopyInv, NEW i \in Instances, NEW cs \in SUBSET Local(i), NEW f \in Events,
         emit(i, cs, f), emitted' \in emitted..MaxEvents, f <= emitted',
         NEW x, x \in Spent(f)' \ Spent(f),
         \A e \in Events : Spent(e) \subseteq Spent(e)' /\ Spent(e)' \in SUBSET Emissions
  PROVE  CopyInv'
  <1> SUFFICES ASSUME NEW c \in Clients, NEW e \in Events
               PROVE  Accounted(copies'[c][e], ToClient(c)', e, Spent(e)')
    BY DEF CopyInv
  <1>0. /\ Accounted(copies[c][e], ToClient(c), e, Spent(e)) /\ copies[c][e] \in Nat
        /\ Spent(e) \subseteq Spent(e)' /\ Spent(e)' \in SUBSET Emissions
    BY DEF CopyInv, TypeInv, ReceivedTyped
  <1>1. /\ \A j \in Instances : ToClient(c)[j] = relayed[j][home[c]]
        /\ \A j \in Instances : ToClient(c)[j] \in Seq(Events)
        /\ home[c] \in Instances
    BY QueuesToClient
  <1>2. \A j \in Instances : ToClient(c)'[j] = relayed'[j][home[c]]
    BY DEF ToClient
  <1>3. /\ Receive(cs, f)
        /\ \A j, k \in Instances : j # i \/ k = i \/ adapter[i] # "on" => relayed'[j][k] = relayed[j][k]
        /\ \A k \in Instances : adapter[i] = "on" /\ k # i => relayed'[i][k] = Append(relayed[i][k], f)
    BY EmitEffect
  <1>4. CASE home[c] = i \/ adapter[i] # "on"
    <2>1. \A j \in Instances : ToClient(c)'[j] = ToClient(c)[j]
      BY <1>1, <1>2, <1>3, <1>4
    <2>2. CASE c \in cs /\ e = f
      <3>1. copies'[c][e] = copies[c][e] + 1
        BY <1>3, <2>2, ReceiveEffect
      <3>2. Accounted(copies[c][e] + 1, ToClient(c), e, Spent(e)')
        BY <1>0, <2>2, AccountedGot
      <3> QED BY <1>0, <2>1, <3>1, <3>2, AccountedFrame
    <2>3. CASE ~(c \in cs /\ e = f)
      <3>1. copies'[c][e] = copies[c][e]
        BY <1>3, <2>3, ReceiveEffect
      <3> QED BY <1>0, <2>1, <3>1, AccountedFrame
    <2> QED BY <2>2, <2>3
  <1>5. CASE home[c] # i /\ adapter[i] = "on"
    <2>1. /\ ToClient(c)'[i] = Append(ToClient(c)[i], f)
          /\ \A j \in Instances : j # i => ToClient(c)'[j] = ToClient(c)[j]
      BY <1>1, <1>2, <1>3, <1>5
    <2>2. copies'[c][e] = copies[c][e]
      <3>1. c \notin cs
        BY <1>5 DEF Local
      <3> QED BY <1>3, <3>1, ReceiveEffect
    <2>5. Appended(ToClient(c), ToClient(c)', i, f)
      BY <1>1, <2>1 DEF Appended
    <2>3. CASE e = f
      <3>1. x \in Spent(e)' /\ x \notin Spent(e)
        BY <2>3
      <3>2. Accounted(copies[c][e], ToClient(c)', e, Spent(e)')
        BY <1>0, <2>3, <2>5, <3>1, AccountedSent
      <3> QED BY <2>2, <3>2
    <2>4. CASE e # f
      <3>1. Accounted(copies[c][e], ToClient(c)', e, Spent(e))
        BY <1>0, <2>4, <2>5, AccountedOther
      <3> QED BY <1>0, <2>2, <3>1, AccountedFrame
    <2> QED BY <2>3, <2>4
  <1> QED BY <1>4, <1>5

LEMMA CopyStep ==
  ASSUME TypeInv, OnceInv, CopyInv, [Next]_vars PROVE CopyInv'
  <1>0. \A e \in Events : Spent(e) \subseteq Spent(e)' /\ Spent(e)' \in SUBSET Emissions
    BY SpentGrows
  <1>1. ASSUME copies' = copies,
               \A j, k \in Instances : relayed'[j][k] = relayed[j][k] \/ relayed'[j][k] = <<>>
        PROVE  CopyInv'
    <2>1. SUFFICES ASSUME NEW c \in Clients, NEW e \in Events
                   PROVE  Accounted(copies'[c][e], ToClient(c)', e, Spent(e)')
      BY DEF CopyInv
    <2>2. \A j \in Instances : ToClient(c)'[j] = ToClient(c)[j] \/ ToClient(c)'[j] = <<>>
      BY <1>1, HomeAssumption DEF ToClient
    <2>3. Accounted(copies[c][e], ToClient(c), e, Spent(e))
      BY DEF CopyInv
    <2> QED BY <1>0, <1>1, <2>2, <2>3, AccountedFrame
  <1>2. CASE UNCHANGED vars \/ Begins
    BY <1>1, <1>2 DEF vars, connections, received, Begins, PingSucceeds, PingFails, setupEventSubscriptions,
                      handleJoinWorkspace
  <1>3. ASSUME NEW i \in Instances, Restart(i) PROVE CopyInv'
    <2>1. /\ copies' = copies
          /\ relayed' = [j \in Instances |-> [k \in Instances |-> IF i \in {j, k} THEN <<>> ELSE relayed[j][k]]]
      BY <1>3 DEF Restart, received
    <2> QED BY <1>1, <2>1
  <1>4. ASSUME NEW i \in Instances, publishEvent(i) \/ PublishFails(i) \/ SubscriberDrops(i) PROVE CopyInv'
    BY <1>1, <1>4 DEF publishEvent, PublishFails, SubscriberDrops, received
  <1>5. ASSUME NEW i \in Instances, handleCrossInstanceEvent(i) PROVE CopyInv'
    <2>0. PICK f \in Events : f = Head(heard[i])
      BY <1>5, HeardTypes
    <2>1. /\ heard[i] # <<>> /\ heard' = [heard EXCEPT ![i] = Tail(heard[i])]
          /\ f \in 1..emitted /\ emit(i, Local(i), f)
          /\ emitted' = emitted /\ commands' = commands
      BY <1>5, <2>0, HeardTypes DEF handleCrossInstanceEvent
    <2>2. Carries(heard[i], f) /\ ~Carries(Tail(heard[i]), f)
      BY <2>0, <2>1, TailFacts DEF TypeInv, QueuesTyped, OnceInv
    <2>3. heard'[i] = Tail(heard[i])
      BY <2>1 DEF TypeInv, QueuesTyped
    <2>4. \A j \in Instances : ~Carries(commands[j], f)
      BY <2>1, <2>2 DEF OnceInv
    <2>5. i \in Spent(f)' \ Spent(f)
      BY <2>1, <2>2, <2>3, <2>4 DEF Spent, Emissions
    <2>6. emitted' \in emitted..MaxEvents /\ f <= emitted'
      BY <2>1, MaxEventsAssumption DEF TypeInv, QueuesTyped
    <2> QED BY <1>0, <2>1, <2>5, <2>6, EmitAccounts
  <1>6. ASSUME NEW i \in Instances, NEW cs \in SUBSET Local(i), Broadcast(i, cs) PROVE CopyInv'
    <2>0. PICK f \in Events : f = emitted + 1
      BY <1>6, MaxEventsAssumption DEF Broadcast, TypeInv, QueuesTyped, Events
    <2>1. /\ emitted' = f /\ emit(i, cs, f) /\ emitted' \in emitted..MaxEvents /\ f <= emitted'
          /\ emitted \in Nat /\ f = emitted + 1
      BY <1>6, <2>0, MaxEventsAssumption DEF Broadcast, TypeInv, QueuesTyped, Events
    <2>2. Origin \in Spent(f)' \ Spent(f)
      BY <2>1, OriginIsNew DEF Spent, Emissions
    <2> QED BY <1>0, <2>1, <2>2, EmitAccounts
  <1>7. ASSUME NEW i \in Instances, NEW j \in Instances, AdapterDelivers(i, j) \/ AdapterFails(i, j)
        PROVE  CopyInv'
    <2> DEFINE f == Head(relayed[i][j])
    <2>1. /\ relayed[i][j] # <<>> /\ f \in Events /\ relayed'[i][j] = Tail(relayed[i][j])
          /\ \A k, l \in Instances : k # i \/ l # j => relayed'[k][l] = relayed[k][l]
      BY <1>7, RelayTypes
    <2>2. received' = received \/ Receive(Local(j), f)
      BY <1>7 DEF AdapterDelivers, AdapterFails
    <2> SUFFICES ASSUME NEW c \in Clients, NEW e \in Events
                 PROVE  Accounted(copies'[c][e], ToClient(c)', e, Spent(e)')
      BY DEF CopyInv
    <2>3. /\ Accounted(copies[c][e], ToClient(c), e, Spent(e)) /\ copies[c][e] \in Nat
          /\ Spent(e) \in SUBSET Emissions
      BY DEF CopyInv, TypeInv, ReceivedTyped, Spent
    <2>4. /\ \A h \in Instances : ToClient(c)[h] = relayed[h][home[c]] /\ ToClient(c)[h] \in Seq(Events)
          /\ home[c] \in Instances
      BY QueuesToClient
    <2>5. \A h \in Instances : ToClient(c)'[h] = relayed'[h][home[c]]
      BY DEF ToClient
    <2>6. /\ copies'[c][e] \in {copies[c][e], copies[c][e] + 1}
          /\ copies'[c][e] = copies[c][e] + 1 => c \in Local(j) /\ e = f
      <3>1. CASE received' = received
        BY <2>3, <3>1 DEF received
      <3>2. CASE Receive(Local(j), f)
        <4> HIDE DEF f
        <4> QED BY <2>1, <2>3, <3>2, ReceiveEffect
      <3> QED BY <2>2, <3>1, <3>2
    <2>7. CASE home[c] = j
      <3>1. /\ ToClient(c)[i] # <<>> /\ ToClient(c)'[i] = Tail(ToClient(c)[i]) /\ Head(ToClient(c)[i]) = f
            /\ \A h \in Instances : h # i => ToClient(c)'[h] = ToClient(c)[h]
        BY <2>1, <2>4, <2>5, <2>7
      <3>2. Accounted(copies'[c][e], ToClient(c)', e, Spent(e))
        <4>1. Shortened(ToClient(c), ToClient(c)', i)
          BY <2>4, <3>1 DEF Shortened
        <4>2. copies'[c][e] = copies[c][e] + 1 => Head(ToClient(c)[i]) = e
          BY <2>6, <3>1
        <4> QED BY <2>3, <2>6, <4>1, <4>2, AccountedTaken
      <3> QED BY <1>0, <3>2, AccountedFrame
    <2>8. CASE home[c] # j
      <3>1. copies'[c][e] = copies[c][e]
        BY <2>6, <2>8 DEF Local
      <3>2. \A h \in Instances : ToClient(c)'[h] = ToClient(c)[h]
        BY <2>1, <2>4, <2>5, <2>8
      <3> QED BY <1>0, <2>3, <3>1, <3>2, AccountedFrame
    <2> QED BY <2>7, <2>8
  <1> QED BY <1>2, <1>3, <1>4, <1>5, <1>6, <1>7, Steps

(* CopiesAreBounded: an event is emitted by its origin, and once more by     *)
(* every instance that hears it, so that nobody gets it more than once more  *)
(* often than there are instances: nothing is sent around for ever.          *)
THEOREM NobodyIsFlooded == Spec => []CopiesAreBounded
  <1>1. TypeInv /\ OnceInv /\ CopyInv /\ [Next]_vars => TypeInv' /\ OnceInv' /\ CopyInv'
    BY TypeStep, OnceStep, CopyStep
  <1>2. TypeInv /\ CopyInv => CopiesAreBounded
    <2> SUFFICES ASSUME TypeInv, CopyInv, NEW c \in Clients, NEW e \in Events
                 PROVE  copies[c][e] <= 1 + Cardinality(Instances)
      BY DEF CopiesAreBounded
    <2>1. PICK D \in SUBSET Spent(e) : copies[c][e] <= Cardinality(D)
      BY DEF CopyInv, Accounted
    <2>2. D \in SUBSET Emissions /\ copies[c][e] \in Nat
      BY DEF Spent, TypeInv, ReceivedTyped
    <2>3. Cardinality(Instances) \in Nat
      BY InstancesAssumption, FS_CardinalityType
    <2> QED BY <2>1, <2>2, <2>3, EmissionsAreFinite
  <1> QED BY <1>1, <1>2, TypeInit, OnceInit, CopyInit, PTL DEF Spec

-----------------------------------------------------------------------------
(* ClientsAgree.  Once the event published last is all that is still on its  *)
(* way, every queue ends with it, and so does what a client gets.            *)

(* Only an adapter that is there sends anything.                             *)
RelayInv == \A i, j \in Instances : i = j \/ adapter[i] # "on" => relayed[i][j] = <<>>

LEMMA RelayStep ==
  ASSUME TypeInv, RelayInv, [Next]_vars PROVE RelayInv'
  <1>1. CASE UNCHANGED vars \/ Begins
    BY <1>1 DEF vars, connections, Begins, PingSucceeds, PingFails, setupEventSubscriptions, handleJoinWorkspace,
                RelayInv, TypeInv, SocketsTyped, sockets
  <1>2. ASSUME NEW i \in Instances, publishEvent(i) \/ PublishFails(i) \/ SubscriberDrops(i) PROVE RelayInv'
    BY <1>2 DEF publishEvent, PublishFails, SubscriberDrops, RelayInv
  <1>3. ASSUME NEW i \in Instances, Restart(i) PROVE RelayInv'
    BY <1>3 DEF Restart, RelayInv, TypeInv, SocketsTyped
  <1>4. ASSUME NEW i \in Instances, NEW cs, NEW f \in Events, emit(i, cs, f), adapter' = adapter,
               emitted' \in emitted..MaxEvents, f <= emitted'
        PROVE  RelayInv'
    <2>1. \A j, k \in Instances : j # i \/ k = i \/ adapter[i] # "on" => relayed'[j][k] = relayed[j][k]
      BY <1>4, EmitEffect
    <2> QED BY <1>4, <2>1 DEF RelayInv
  <1>5. ASSUME NEW i \in Instances, handleCrossInstanceEvent(i) PROVE RelayInv'
    <2>1. Head(heard[i]) \in 1..emitted /\ Head(heard[i]) \in Events /\ emit(i, Local(i), Head(heard[i]))
      BY <1>5, HeardTypes
    <2>2. adapter' = adapter /\ emitted' = emitted
      BY <1>5 DEF handleCrossInstanceEvent
    <2>3. emitted' \in emitted..MaxEvents /\ Head(heard[i]) <= emitted'
      BY <2>1, <2>2, MaxEventsAssumption DEF TypeInv, QueuesTyped
    <2> QED BY <1>4, <2>1, <2>2, <2>3
  <1>6. ASSUME NEW i \in Instances, NEW cs, Broadcast(i, cs) PROVE RelayInv'
    <2>1. /\ emitted + 1 \in Events /\ emit(i, cs, emitted + 1) /\ adapter' = adapter
          /\ emitted' \in emitted..MaxEvents /\ emitted + 1 <= emitted'
      BY <1>6, MaxEventsAssumption DEF Broadcast, TypeInv, QueuesTyped, Events
    <2> QED BY <1>4, <2>1
  <1>7. ASSUME NEW i \in Instances, NEW j \in Instances, AdapterDelivers(i, j) \/ AdapterFails(i, j)
        PROVE  RelayInv'
    <2>1. adapter' = adapter /\ relayed[i][j] # <<>>
          /\ \A k, l \in Instances : k # i \/ l # j => relayed'[k][l] = relayed[k][l]
      BY <1>7, RelayTypes DEF AdapterDelivers, AdapterFails
    <2> QED BY <2>1 DEF RelayInv
  <1> QED BY <1>1, <1>2, <1>3, <1>5, <1>6, <1>7, Steps

(* Nothing was lost, nothing waits to be published, and everybody listened   *)
(* when the last event was published.                                        *)
Sent == ~lost /\ final # 0 /\ (\A i \in Instances : commands[i] = <<>>) /\ audience[final] = Instances

(* Each instance ends what it emits with the last event.                     *)
QueuesEnd ==
  /\ \A i \in Instances : heard[i] = <<>> \/ EndsWith(heard[i], final)
  /\ \A i, j \in Instances : heard[i] = <<>> => relayed[i][j] = <<>> \/ EndsWith(relayed[i][j], final)

(* Instance i has still something for the clients of h.                      *)
Sends(i, h) == i # h /\ adapter[i] = "on" /\ (heard[i] # <<>> \/ relayed[i][h] # <<>>)

(* A client that did not get the last event last will get something more.    *)
Settling(c) ==
  \/ last[c] = final
  \/ heard[home[c]] # <<>>
  \/ adapter[home[c]] = "on" /\ \E i \in Instances : Sends(i, home[c])

AgreeInv == Sent => QueuesEnd /\ \A c \in Clients : c \in witnesses[final] => Settling(c)

LEMMA FinalIsEvent == TypeInv /\ Sent => final \in Events /\ final \in 1..emitted
  BY MaxEventsAssumption DEF TypeInv, HistoryTyped, QueuesTyped, Sent, Events

(* An instance emits the next event that it heard.                           *)
LEMMA HeardSettles ==
  ASSUME TypeInv, RelayInv, AgreeInv, Sent, NEW i \in Instances, handleCrossInstanceEvent(i)
  PROVE  QueuesEnd' /\ \A c \in Clients : c \in witnesses'[final'] => Settling(c)'
  <1> DEFINE f == Head(heard[i])
  <1>1. /\ heard[i] # <<>> /\ heard' = [heard EXCEPT ![i] = Tail(heard[i])]
        /\ f \in Events /\ f \in 1..emitted /\ emit(i, Local(i), f)
        /\ adapter' = adapter /\ final' = final /\ witnesses' = witnesses /\ emitted' = emitted
    BY HeardTypes DEF handleCrossInstanceEvent, history
  <1>2. emitted' \in emitted..MaxEvents /\ f <= emitted'
    BY <1>1, MaxEventsAssumption DEF TypeInv, QueuesTyped
  <1>3. EndsWith(heard[i], final)
    BY <1>1 DEF AgreeInv, QueuesEnd
  <1>4. EndsWith(Tail(heard[i]), final) \/ (Tail(heard[i]) = <<>> /\ f = final)
    BY <1>1, <1>3, TailFacts DEF TypeInv, QueuesTyped
  <1>5. /\ heard'[i] = Tail(heard[i])
        /\ \A j \in Instances : j # i => heard'[j] = heard[j]
    BY <1>1 DEF TypeInv, QueuesTyped
  <1> HIDE DEF f
  <1>6. /\ Receive(Local(i), f)
        /\ \A j, k \in Instances : j # i \/ k = i \/ adapter[i] # "on" => relayed'[j][k] = relayed[j][k]
        /\ \A k \in Instances : adapter[i] = "on" /\ k # i => relayed'[i][k] = Append(relayed[i][k], f)
    BY <1>1, <1>2, EmitEffect
  <1>7. \A k \in Instances : Append(relayed[i][k], f) # <<>> /\ EndsWith(Append(relayed[i][k], f), f)
    <2>1. \A k \in Instances : relayed[i][k] \in Seq(1..emitted)
      BY DEF TypeInv, QueuesTyped
    <2> QED BY <1>1, <2>1, AppendEvent
  <1>8. heard'[i] = <<>> => f = final
    BY <1>4, <1>5 DEF EndsWith
  <1>9. QueuesEnd'
    <2>1. \A j \in Instances : heard'[j] = <<>> \/ EndsWith(heard'[j], final)
      BY <1>4, <1>5 DEF AgreeInv, QueuesEnd
    <2>2. ASSUME NEW j \in Instances, NEW k \in Instances, heard'[j] = <<>>
          PROVE  relayed'[j][k] = <<>> \/ EndsWith(relayed'[j][k], final)
      <3>1. CASE j # i
        BY <1>5, <1>6, <2>2, <3>1 DEF AgreeInv, QueuesEnd
      <3>2. CASE j = i
        BY <1>6, <1>7, <1>8, <2>2, <3>2 DEF RelayInv
      <3> QED BY <3>1, <3>2
    <2> QED BY <1>1, <2>1, <2>2 DEF QueuesEnd
  <1>10. ASSUME NEW c \in Clients, c \in witnesses[final] PROVE Settling(c)'
    <2>1. home[c] \in Instances /\ c \in Local(home[c]) /\ final \in Events
      BY <1>10, HomeAssumption, FinalIsEvent DEF TypeInv, HistoryTyped, Local
    <2>2. CASE home[c] = i
      <3>1. last'[c] = f
        BY <1>1, <1>6, <2>1, <2>2, ReceiveEffect
      <3> QED BY <1>1, <1>8, <2>2, <3>1 DEF Settling
    <2>3. CASE home[c] # i
      <3>1. last'[c] = last[c] /\ heard'[home[c]] = heard[home[c]]
        <4>1. c \notin Local(i)
          BY <2>3 DEF Local
        <4> QED BY <1>1, <1>5, <1>6, <2>1, <2>3, <4>1, ReceiveEffect
      <3>2. ASSUME NEW k \in Instances, Sends(k, home[c]) PROVE Sends(k, home[c])'
        <4>1. CASE k = i
          BY <1>1, <1>6, <1>7, <2>1, <2>3, <3>2, <4>1 DEF Sends
        <4>2. CASE k # i
          BY <1>1, <1>5, <1>6, <2>1, <3>2, <4>2 DEF Sends
        <4> QED BY <4>1, <4>2
      <3>3. Settling(c)
        BY <1>10 DEF AgreeInv
      <3> QED BY <1>1, <3>1, <3>2, <3>3 DEF Settling
    <2> QED BY <2>2, <2>3
  <1> QED BY <1>1, <1>9, <1>10

(* A client, or nobody, gets the next event from an adapter.                 *)
LEMMA RelayedSettles ==
  ASSUME TypeInv, RelayInv, AgreeInv, Sent, NEW i \in Instances, NEW j \in Instances, AdapterDelivers(i, j)
  PROVE  QueuesEnd' /\ \A c \in Clients : c \in witnesses'[final'] => Settling(c)'
  <1> DEFINE f == Head(relayed[i][j])
  <1>1. /\ relayed[i][j] # <<>> /\ relayed[i][j] \in Seq(1..emitted) /\ f \in Events
        /\ relayed'[i][j] = Tail(relayed[i][j])
        /\ \A k, l \in Instances : k # i \/ l # j => relayed'[k][l] = relayed[k][l]
        /\ adapter' = adapter /\ heard' = heard /\ final' = final /\ witnesses' = witnesses
        /\ IF adapter[j] = "on" THEN Receive(Local(j), f) ELSE last' = last
    BY RelayTypes DEF AdapterDelivers, history, received
  <1>2. \A e : EndsWith(relayed[i][j], e) => EndsWith(Tail(relayed[i][j]), e) \/ (Tail(relayed[i][j]) = <<>> /\ f = e)
    BY <1>1, TailFacts
  <1>3. i # j /\ adapter[i] = "on"
    BY <1>1 DEF RelayInv
  <1> HIDE DEF f
  <1>4. QueuesEnd'
    <2>1. ASSUME NEW k \in Instances, NEW l \in Instances, heard[k] = <<>>
          PROVE  relayed'[k][l] = <<>> \/ EndsWith(relayed'[k][l], final)
      BY <1>1, <1>2, <2>1 DEF AgreeInv, QueuesEnd
    <2> QED BY <1>1, <2>1 DEF AgreeInv, QueuesEnd
  <1>5. ASSUME NEW c \in Clients, c \in witnesses[final] PROVE Settling(c)'
    <2>1. home[c] \in Instances /\ c \in Local(home[c]) /\ Settling(c)
      BY <1>5, HomeAssumption, FinalIsEvent DEF TypeInv, HistoryTyped, Local, AgreeInv
    <2>2. CASE home[c] # j
      <3>1. last'[c] = last[c]
        <4>1. c \notin Local(j)
          BY <2>2 DEF Local
        <4> QED BY <1>1, <4>1, ReceiveEffect
      <3>2. \A k \in Instances : Sends(k, home[c]) => Sends(k, home[c])'
        BY <1>1, <2>1, <2>2 DEF Sends
      <3> QED BY <1>1, <2>1, <3>1, <3>2 DEF Settling
    <2>3. CASE home[c] = j /\ adapter[j] # "on"
      <3>1. last'[c] = last[c]
        BY <1>1, <2>3
      <3> QED BY <1>1, <2>1, <2>3, <3>1 DEF Settling
    <2>4. CASE home[c] = j /\ adapter[j] = "on"
      <3>1. last'[c] = f
        BY <1>1, <2>1, <2>4, ReceiveEffect
      <3>2. CASE heard[i] # <<>>
        <4>1. Sends(i, home[c])'
          BY <1>1, <1>3, <2>4, <3>2 DEF Sends
        <4> QED BY <1>1, <2>4, <4>1 DEF Settling
      <3>3. CASE heard[i] = <<>>
        <4>1. EndsWith(relayed[i][j], final)
          BY <1>1, <3>3 DEF AgreeInv, QueuesEnd
        <4>2. CASE f = final
          BY <1>1, <3>1, <4>2 DEF Settling
        <4>3. CASE f # final
          <5>1. relayed'[i][j] # <<>>
            BY <1>1, <1>2, <4>1, <4>3 DEF EndsWith
          <5>2. Sends(i, home[c])'
            BY <1>1, <1>3, <2>4, <5>1 DEF Sends
          <5> QED BY <1>1, <2>4, <5>2 DEF Settling
        <4> QED BY <4>2, <4>3
      <3> QED BY <3>2, <3>3
    <2> QED BY <2>2, <2>3, <2>4
  <1> QED BY <1>1, <1>4, <1>5

(* An instance that starts again loses nothing if it has sent everything.    *)
LEMMA RestartSettles ==
  ASSUME TypeInv, AgreeInv, NEW i \in Instances, Restart(i), Sent'
  PROVE  QueuesEnd' /\ \A c \in Clients : c \in witnesses'[final'] => Settling(c)'
  <1>1. ~lost /\ commands[i] = <<>> /\ heard[i] = <<>> /\ \A j \in Instances : relayed[i][j] = <<>>
    BY Zenon DEF Restart, Sent
  <1>2. /\ final' = final /\ audience' = audience /\ last' = last
        /\ adapter' = [adapter EXCEPT ![i] = "pinging"] /\ witnesses' = [e \in Events |-> witnesses[e] \ Local(i)]
        /\ commands' = [commands EXCEPT ![i] = <<>>] /\ heard' = [heard EXCEPT ![i] = <<>>]
        /\ relayed' = [j \in Instances |-> [k \in Instances |-> IF i \in {j, k} THEN <<>> ELSE relayed[j][k]]]
    BY DEF Restart, received
  <1>3. /\ \A j \in Instances : j # i => adapter'[j] = adapter[j]
        /\ \A j \in Instances : commands'[j] = commands[j] /\ heard'[j] = heard[j]
        /\ \A j, k \in Instances : relayed'[j][k] = IF k = i THEN <<>> ELSE relayed[j][k]
    BY <1>1, <1>2 DEF TypeInv, SocketsTyped, QueuesTyped
  <1>4. Sent
    BY <1>1, <1>2, <1>3 DEF Sent
  <1>5. QueuesEnd'
    BY <1>2, <1>3, <1>4 DEF AgreeInv, QueuesEnd
  <1>6. ASSUME NEW c \in Clients, c \in witnesses'[final] PROVE Settling(c)'
    <2>1. home[c] \in Instances /\ home[c] # i /\ c \in witnesses[final]
      BY <1>2, <1>4, <1>6, HomeAssumption, FinalIsEvent DEF TypeInv, HistoryTyped, Local
    <2>2. ASSUME NEW k \in Instances, Sends(k, home[c]) PROVE Sends(k, home[c])'
      BY <1>1, <1>3, <2>1, <2>2 DEF Sends
    <2>3. Settling(c)
      BY <1>4, <2>1 DEF AgreeInv
    <2> QED BY <1>2, <1>3, <2>1, <2>2, <2>3 DEF Settling
  <1> QED BY <1>2, <1>5, <1>6

(* A connection that breaks loses nothing if nothing was on its way.         *)
LEMMA DropSettles ==
  ASSUME TypeInv, AgreeInv, NEW i \in Instances, SubscriberDrops(i), Sent'
  PROVE  QueuesEnd' /\ \A c \in Clients : c \in witnesses'[final'] => Settling(c)'
  <1>1. ~lost /\ heard[i] = <<>>
    BY Zenon DEF SubscriberDrops, Sent
  <1>2. /\ final' = final /\ last' = last /\ adapter' = adapter /\ witnesses' = witnesses
        /\ commands' = commands /\ relayed' = relayed
        /\ heard' = heard /\ audience' = audience
    BY <1>1, EmptyFacts DEF SubscriberDrops, received, TypeInv, QueuesTyped, HistoryTyped
  <1>3. Sent
    BY <1>1, <1>2 DEF Sent
  <1> QED BY <1>2, <1>3 DEF AgreeInv, QueuesEnd, Settling, Sends

LEMMA AgreeStep ==
  ASSUME TypeInv, RelayInv, AgreeInv, [Next]_vars PROVE AgreeInv'
  <1> SUFFICES ASSUME Sent' PROVE QueuesEnd' /\ \A c \in Clients : c \in witnesses'[final'] => Settling(c)'
    BY DEF AgreeInv
  <1>1. CASE UNCHANGED vars \/ Begins
    <2>1. /\ commands' = commands /\ heard' = heard /\ relayed' = relayed /\ last' = last
          /\ audience' = audience /\ final' = final /\ lost' = lost
      BY <1>1 DEF vars, connections, received, history, Begins, PingSucceeds, PingFails,
                  setupEventSubscriptions, handleJoinWorkspace
    <2>2. /\ \A e \in Events : witnesses'[e] \subseteq witnesses[e]
          /\ \A j \in Instances : adapter[j] = "on" => adapter'[j] = "on"
      BY <1>1 DEF vars, sockets, Begins, PingSucceeds, PingFails, setupEventSubscriptions, handleJoinWorkspace,
                  TypeInv, SocketsTyped
    <2>3. Sent
      BY <2>1 DEF Sent
    <2>4. QueuesEnd'
      BY <2>1, <2>3 DEF AgreeInv, QueuesEnd
    <2>5. ASSUME NEW c \in Clients, c \in witnesses'[final] PROVE Settling(c)'
      <3>1. c \in witnesses[final] /\ home[c] \in Instances
        BY <2>2, <2>3, <2>5, FinalIsEvent, HomeAssumption
      <3>2. Settling(c)
        BY <2>3, <3>1 DEF AgreeInv
      <3> QED BY <2>1, <2>2, <3>1, <3>2 DEF Settling, Sends
    <2> QED BY <2>1, <2>4, <2>5
  <1>2. ASSUME NEW i \in Instances, publishEvent(i)
        PROVE  QueuesEnd' /\ \A c \in Clients : c \in witnesses'[final'] => Settling(c)'
    <2>1. PICK f \in Events : f = Head(commands[i])
      BY <1>2, PublishTypes
    <2>2. f \in 1..emitted /\ final' = f /\ audience' = [audience EXCEPT ![f] = listening]
          /\ heard' = [j \in Instances |-> IF j \in listening THEN Append(heard[j], f) ELSE heard[j]]
      BY <1>2, <2>1, PublishTypes DEF publishEvent
    <2>3. listening = Instances
      BY <2>2 DEF Sent, TypeInv, HistoryTyped
    <2>4. \A j \in Instances : heard'[j] # <<>> /\ EndsWith(heard'[j], f)
      BY <2>2, <2>3, AppendEvent DEF TypeInv, QueuesTyped
    <2> QED BY <2>2, <2>4, HomeAssumption DEF QueuesEnd, Settling
  <1>3. ASSUME NEW i \in Instances, PublishFails(i) PROVE FALSE
    BY Zenon, <1>3 DEF PublishFails, Sent
  <1>4. ASSUME NEW i \in Instances, NEW j \in Instances, AdapterFails(i, j) PROVE FALSE
    BY Zenon, <1>4 DEF AdapterFails, Sent
  <1>5. ASSUME NEW i \in Instances, NEW cs, Broadcast(i, cs) PROVE FALSE
    <2>1. commands'[i] = Append(commands[i], emitted + 1) /\ commands[i] \in Seq(1..emitted)
      BY <1>5 DEF Broadcast, TypeInv, QueuesTyped
    <2>2. Len(commands'[i]) = Len(commands[i]) + 1 /\ Len(commands[i]) \in Nat
      BY <2>1
    <2> QED BY <2>2, EmptyFacts DEF Sent
  <1>6. ASSUME NEW i \in Instances, handleCrossInstanceEvent(i)
        PROVE  QueuesEnd' /\ \A c \in Clients : c \in witnesses'[final'] => Settling(c)'
    <2>1. Sent
      BY <1>6 DEF Sent, handleCrossInstanceEvent, history
    <2> QED BY <1>6, <2>1, HeardSettles
  <1>7. ASSUME NEW i \in Instances, NEW j \in Instances, AdapterDelivers(i, j)
        PROVE  QueuesEnd' /\ \A c \in Clients : c \in witnesses'[final'] => Settling(c)'
    <2>1. Sent
      BY <1>7 DEF Sent, AdapterDelivers, history
    <2> QED BY <1>7, <2>1, RelayedSettles
  <1> QED BY <1>1, <1>2, <1>3, <1>4, <1>5, <1>6, <1>7, RestartSettles, DropSettles, Steps

(* ClientsAgree: when everything has arrived, nothing was lost and everybody *)
(* listened, the event published last is the one every client got last,      *)
(* however the events overtook each other on the way.                        *)
THEOREM LastEventWins == Spec => []ClientsAgree
  <1>1. TypeInv /\ RelayInv /\ AgreeInv /\ [Next]_vars => TypeInv' /\ RelayInv' /\ AgreeInv'
    BY TypeStep, RelayStep, AgreeStep
  <1>2. Init => RelayInv /\ AgreeInv
    <2>1. Init => RelayInv
      BY DEF Init, RelayInv
    <2>2. Init => final = 0
      BY DEF Init
    <2> QED BY <2>1, <2>2 DEF AgreeInv, Sent
  <1>3. TypeInv /\ RelayInv /\ AgreeInv => ClientsAgree
    <2> SUFFICES ASSUME TypeInv, AgreeInv, Quiet, ~lost, final # 0, audience[final] = Instances,
                        NEW c \in witnesses[final]
                 PROVE  last[c] = final
      BY DEF ClientsAgree
    <2>1. Sent
      BY DEF Sent, Quiet
    <2>2. c \in Clients
      BY <2>1, FinalIsEvent DEF TypeInv, HistoryTyped, SocketsTyped
    <2>3. Settling(c)
      BY <2>1, <2>2 DEF AgreeInv
    <2> QED BY <2>2, <2>3, HomeAssumption DEF Settling, Sends, Quiet
  <1> QED BY <1>1, <1>2, <1>3, TypeInit, PTL DEF Spec
=============================================================================
