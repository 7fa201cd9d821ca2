------------------------------ MODULE Realtime ------------------------------
(***************************************************************************)
(* The live feed of API logs: logApiHit publishes each hit through Redis,  *)
(* and every server process broadcasts what its subscriber receives to the *)
(* WebSockets in the rooms that the hit is for.                            *)
(*                                                                         *)
(* ioredis sends the commands of a connection in order and, when it has    *)
(* reconnected, sends again those that were not answered, whether or not   *)
(* Redis had executed them.  Redis keeps nothing for a subscriber that is  *)
(* not connected.                                                          *)
(***************************************************************************)
EXTENDS Naturals, FiniteSets, Sequences

CONSTANTS
    Nodes,         \* the server processes
    Hits,          \* calls of logApiHit
    Clients,       \* the clients
    HitOf,         \* the process that each hit comes to, and its client
    Sockets,       \* WebSockets
    SocketOf,      \* the process that each connects to, and its client
    MaxLosses      \* bound: how often a write client loses its connection

ASSUME RealtimeAssumption ==
    /\ HitOf \in [Hits -> [node : Nodes, client : Clients]]
    /\ SocketOf \in [Sockets -> [node : Nodes, client : Clients]]
    /\ MaxLosses \in Nat
ASSUME RoomAssumption == "logs" \notin Clients

VARIABLES
    hit,          \* where each call of logApiHit stands
    isConnected,  \* RedisService.isConnected of each process
    linked,       \* whether its write client is connected
    losses,       \* history: how often it has lost its connection
    commands,     \* the PUBLISH commands that await their answer
    published,    \* history: the hits that Redis has published, in order
    subscribed,   \* whether the process's subscriber is connected
    wire,         \* what is on its way to the subscriber, as places in published
    io,           \* whether the process has its Socket.io server
    connected,    \* the sockets that are connected
    rooms,        \* the rooms of each
    received      \* what a socket has been sent since it connected

redisVars == <<isConnected, linked, losses, commands, published>>
feedVars == <<subscribed, wire>>
socketVars == <<io, connected, rooms, received>>
vars == <<hit, redisVars, feedVars, socketVars>>

\* The rooms that matter to hits: "logs" and the one of each client.
Rooms == {"logs"} \cup Clients

TypeOK ==
    /\ hit \in [Hits -> {"new", "batching", "sent", "dropped"}]
    /\ {isConnected, linked, subscribed, io} \subseteq [Nodes -> BOOLEAN]
    /\ losses \in [Nodes -> 0 .. MaxLosses]
    /\ commands \in [Nodes -> Seq([hit : Hits, executed : BOOLEAN])]
    /\ published \in Seq(Hits)
    /\ wire \in [Nodes -> Seq(1 .. Len(published))]
    /\ connected \subseteq Sockets
    /\ rooms \in [Sockets -> SUBSET Rooms]
    /\ \A s \in Sockets \ connected : rooms[s] = {}
    /\ received \in [Sockets -> Seq((1 .. Len(published)) \X Rooms)]
    \* A command that Redis has not executed is behind those that it has.
    /\ \A n \in Nodes : \A i, j \in DOMAIN commands[n] :
         i < j /\ commands[n][j].executed => commands[n][i].executed

\* startServer has connected to Redis and opened the WebSocket server; the subscriber
\* may not be ready.
Init ==
    /\ hit = [h \in Hits |-> "new"]
    /\ isConnected = [n \in Nodes |-> TRUE]
    /\ linked = [n \in Nodes |-> TRUE]
    /\ losses = [n \in Nodes |-> 0]
    /\ commands = [n \in Nodes |-> <<>>]
    /\ published = <<>>
    /\ subscribed = [n \in Nodes |-> FALSE]
    /\ wire = [n \in Nodes |-> <<>>]
    /\ io = [n \in Nodes |-> TRUE]
    /\ connected = {}
    /\ rooms = [s \in Sockets |-> {}]
    /\ received = [s \in Sockets |-> <<>>]

-----------------------------------------------------------------------------
(* logApiHit. *)

\* It calls addToBatch, and resumes at once or when the batch it filled is flushed.
AddToBatch(h) ==
    /\ hit[h] = "new"
    /\ hit' = [hit EXCEPT ![h] = "batching"]
    /\ UNCHANGED <<redisVars, feedVars, socketVars>>

\* Mutant of Publish: the command is sent twice.
PublishTwice(h) ==
    LET n == HitOf[h].node
        command == [hit |-> h, executed |-> FALSE]
    IN  /\ hit[h] = "batching"
        /\ IF isConnected[n]
           THEN /\ hit' = [hit EXCEPT ![h] = "sent"]
                /\ commands' = [commands EXCEPT ![n] = @ \o <<command, command>>]
           ELSE /\ hit' = [hit EXCEPT ![h] = "dropped"]
                /\ UNCHANGED commands
        /\ UNCHANGED <<isConnected, linked, losses, published, feedVars, socketVars>>

\* publish refuses when the service is not connected; nobody waits for its answer.
Publish(h) ==
    LET n == HitOf[h].node IN
    /\ hit[h] = "batching"
    /\ IF isConnected[n]
       THEN /\ hit' = [hit EXCEPT ![h] = "sent"]
            /\ commands' = [commands EXCEPT ![n] = Append(@, [hit |-> h, executed |-> FALSE])]
       ELSE /\ hit' = [hit EXCEPT ![h] = "dropped"]
            /\ UNCHANGED commands
    /\ UNCHANGED <<isConnected, linked, losses, published, feedVars, socketVars>>

-----------------------------------------------------------------------------
(* The write client, and Redis. *)

\* Redis executes the next command, for the subscribers that are connected.
Execute(n) ==
    /\ linked[n]
    /\ \E i \in DOMAIN commands[n] :
         /\ ~commands[n][i].executed
         /\ \A j \in 1 .. i - 1 : commands[n][j].executed
         /\ commands' = [commands EXCEPT ![n][i].executed = TRUE]
         /\ published' = Append(published, commands[n][i].hit)
    /\ wire' = [m \in Nodes |-> IF subscribed[m] THEN Append(wire[m], Len(published'))
                                ELSE wire[m]]
    /\ UNCHANGED <<hit, isConnected, linked, losses, subscribed, socketVars>>

Answered(n) ==
    /\ linked[n]
    /\ commands[n] # <<>> /\ Head(commands[n]).executed
    /\ commands' = [commands EXCEPT ![n] = Tail(@)]
    /\ UNCHANGED <<hit, isConnected, linked, losses, published, feedVars, socketVars>>

\* The "close" event of a client; no event makes the service connected again.  The
\* write client's is the loss of what awaits an answer.
CloseWrite(n) ==
    /\ linked[n]
    /\ losses[n] < MaxLosses  \* bound
    /\ linked' = [linked EXCEPT ![n] = FALSE]
    /\ losses' = [losses EXCEPT ![n] = @ + 1]
    /\ isConnected' = [isConnected EXCEPT ![n] = FALSE]
    /\ UNCHANGED <<hit, commands, published, feedVars, socketVars>>

CloseRead(n) ==
    /\ isConnected' = [isConnected EXCEPT ![n] = FALSE]
    /\ UNCHANGED <<hit, linked, losses, commands, published, feedVars, socketVars>>

\* The unanswered commands are sent again.
Reconnect(n) ==
    /\ ~linked[n]
    /\ linked' = [linked EXCEPT ![n] = TRUE]
    /\ commands' = [commands EXCEPT ![n] = [i \in DOMAIN @ |-> [@[i] EXCEPT !.executed = FALSE]]]
    /\ UNCHANGED <<hit, isConnected, losses, published, feedVars, socketVars>>

\* Three attempts to reconnect have failed: the commands are rejected.
GiveUp(n) ==
    /\ ~linked[n]
    /\ commands' = [commands EXCEPT ![n] = <<>>]
    /\ UNCHANGED <<hit, isConnected, linked, losses, published, feedVars, socketVars>>

-----------------------------------------------------------------------------
(* The subscriber. *)

\* It is ready, at first or again.  subscribe() attaches the listener for messages only
\* after it has awaited this; what Redis sends from here on comes after that.
Subscribe(n) ==
    /\ ~subscribed[n]
    /\ subscribed' = [subscribed EXCEPT ![n] = TRUE]
    /\ UNCHANGED <<hit, redisVars, wire, socketVars>>

\* Its connection is lost, with what was on its way.
SubscriberClose(n) ==
    /\ subscribed[n]
    /\ subscribed' = [subscribed EXCEPT ![n] = FALSE]
    /\ wire' = [wire EXCEPT ![n] = <<>>]
    /\ UNCHANGED <<hit, redisVars, socketVars>>

\* Mutant of Emits: nothing is sent to the client's room.
EmitsToLogs(i, joined) == IF "logs" \in joined THEN << <<i, "logs">> >> ELSE <<>>

\* An emit of publication i to a room, as a socket in these rooms gets it.
Emit(i, room, joined) == IF room \in joined THEN << <<i, room>> >> ELSE <<>>

\* The two emits of broadcastNewLog.
Emits(i, joined) ==
    Emit(i, "logs", joined) \o Emit(i, HitOf[published[i]].client, joined)

\* Mutant of BroadcastNewLog: a message stays where it was.
BroadcastAgain(n) ==
    /\ wire[n] # <<>>
    /\ UNCHANGED wire
    /\ received' = [s \in Sockets |->
         IF io[n] /\ SocketOf[s].node = n THEN received[s] \o Emits(Head(wire[n]), rooms[s])
         ELSE received[s]]
    /\ UNCHANGED <<hit, redisVars, subscribed, io, connected, rooms>>

\* A message arrives, and is broadcast unless the Socket.io server is closed.
BroadcastNewLog(n) ==
    /\ wire[n] # <<>>
    /\ wire' = [wire EXCEPT ![n] = Tail(@)]
    /\ received' = [s \in Sockets |->
         IF io[n] /\ SocketOf[s].node = n THEN received[s] \o Emits(Head(wire[n]), rooms[s])
         ELSE received[s]]
    /\ UNCHANGED <<hit, redisVars, subscribed, io, connected, rooms>>

-----------------------------------------------------------------------------
(* The sockets. *)

\* A socket that has been authenticated is put in its client's room.
Connection(s) ==
    /\ s \notin connected /\ io[SocketOf[s].node]
    /\ connected' = connected \cup {s}
    /\ rooms' = [rooms EXCEPT ![s] = {SocketOf[s].client}]
    /\ received' = [received EXCEPT ![s] = <<>>]
    /\ UNCHANGED <<hit, redisVars, feedVars, io>>

\* Mutant of Disconnect: its rooms are kept.
DisconnectStays(s) ==
    /\ s \in connected
    /\ connected' = connected \ {s}
    /\ UNCHANGED <<hit, redisVars, feedVars, io, rooms, received>>

Disconnect(s) ==
    /\ s \in connected
    /\ connected' = connected \ {s}
    /\ rooms' = [rooms EXCEPT ![s] = {}]
    /\ UNCHANGED <<hit, redisVars, feedVars, io, received>>

\* "subscribe", which takes no client's room.
Join(s) ==
    /\ s \in connected
    /\ rooms' = [rooms EXCEPT ![s] = @ \cup {"logs"}]
    /\ UNCHANGED <<hit, redisVars, feedVars, io, connected, received>>

\* "unsubscribe", which takes any room, its client's too.
Leave(s, room) ==
    /\ s \in connected
    /\ rooms' = [rooms EXCEPT ![s] = @ \ {room}]
    /\ UNCHANGED <<hit, redisVars, feedVars, io, connected, received>>

\* websocketService.close.
CloseSockets(n) ==
    LET ended == {s \in Sockets : SocketOf[s].node = n} IN
    /\ io[n]
    /\ io' = [io EXCEPT ![n] = FALSE]
    /\ connected' = connected \ ended
    /\ rooms' = [s \in Sockets |-> IF s \in ended THEN {} ELSE rooms[s]]
    /\ UNCHANGED <<hit, redisVars, feedVars, received>>

-----------------------------------------------------------------------------
LogApiHit(h) == AddToBatch(h) \/ Publish(h)

Next ==
    \/ \E h \in Hits : LogApiHit(h)
    \/ \E n \in Nodes :
         \/ Execute(n) \/ Answered(n)
         \/ CloseWrite(n) \/ CloseRead(n) \/ Reconnect(n) \/ GiveUp(n)
         \/ Subscribe(n) \/ SubscriberClose(n) \/ BroadcastNewLog(n)
         \/ CloseSockets(n)
    \/ \E s \in Sockets : Connection(s) \/ Disconnect(s) \/ Join(s) \/ \E room \in Rooms : Leave(s, room)

Spec == Init /\ [][Next]_vars

\* A call of logApiHit goes on, and what is sent on a connection that lasts arrives.
Fairness ==
    /\ \A h \in Hits : WF_vars(Publish(h))
    /\ \A n \in Nodes : WF_vars(Execute(n)) /\ WF_vars(BroadcastNewLog(n))

FairSpec == Spec /\ Fairness

-----------------------------------------------------------------------------
(* Properties. *)

\* A socket gets what Redis has published in that order, and from one publication one
\* copy for each of its rooms at most, however connections are lost and commands sent
\* again: sockets of different processes agree on the order.
DeliveredInOrder ==
    \A s \in Sockets : \A i, j \in DOMAIN received[s] :
      i < j => LET earlier == received[s][i]
                   later == received[s][j]
               IN  earlier[1] < later[1] \/ (earlier[1] = later[1] /\ later[2] # "logs"
                                             /\ earlier[2] = "logs")

Times(h) == Cardinality({i \in DOMAIN published : published[i] = h})

\* A hit is published again only because a connection was lost, and once for each time:
\* without a loss nobody gets it twice but who is in two rooms.
PublishedAgainOnlyByLoss ==
    \A h \in Hits : Times(h) <= 1 + losses[HitOf[h].node]

\* While connections last, a hit reaches every socket that is in a room for it, of
\* whichever process.
Lasts(h, s) ==
    LET from == HitOf[h].node
        to == SocketOf[s].node
    IN  /\ isConnected[from] /\ linked[from] /\ subscribed[to]
        /\ s \in connected
        /\ rooms[s] \cap {"logs", HitOf[h].client} # {}

Got(h, s) == \E i \in DOMAIN received[s] : published[received[s][i][1]] = h

HitsAreDelivered ==
    \A h \in Hits, s \in Sockets :
      [](hit[h] = "batching" /\ []Lasts(h, s) => <>Got(h, s))
=============================================================================
