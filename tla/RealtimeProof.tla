--------------------------- MODULE RealtimeProof ---------------------------
(***************************************************************************)
(* Theorems about Realtime, for any processes, hits, clients and sockets   *)
(* and any number of losses: sockets get the hits in the order of their    *)
(* publication, no hit is published again without a loss, a socket outside *)
(* "logs" gets its own client's hits only, and no hit is lost on its way   *)
(* to a socket as long as the connections between them last.               *)
(***************************************************************************)
EXTENDS Realtime, SequenceTheorems, FiniteSetTheorems, TLAPS

Commands == [hit : Hits, executed : BOOLEAN]

\* Redis executes the commands of a process in order.
ExecutedFirst ==
    \A n \in Nodes : \A i, j \in DOMAIN commands[n] :
      i < j /\ commands[n][j].executed => commands[n][i].executed

-----------------------------------------------------------------------------
(* Sequences. *)

LEMMA SeqFacts ==
    ASSUME NEW S, NEW s \in Seq(S)
    PROVE  /\ Len(s) \in Nat /\ DOMAIN s = 1 .. Len(s)
           /\ \A i \in DOMAIN s : i \in Nat /\ i >= 1 /\ i <= Len(s) /\ s[i] \in S
BY LenProperties, ElementOfSeq

LEMMA AppendFacts ==
    ASSUME NEW S, NEW s \in Seq(S), NEW e \in S
    PROVE  /\ Append(s, e) \in Seq(S)
           /\ Len(Append(s, e)) = Len(s) + 1
           /\ \A i \in DOMAIN Append(s, e) :
                \/ i \in DOMAIN s /\ Append(s, e)[i] = s[i]
                \/ i = Len(s) + 1 /\ Append(s, e)[i] = e
<1>1. /\ Append(s, e) \in Seq(S) /\ Len(Append(s, e)) = Len(s) + 1
      /\ \A i \in 1 .. Len(s) : Append(s, e)[i] = s[i]
      /\ Append(s, e)[Len(s) + 1] = e
  BY AppendProperties
<1>2. Len(s) \in Nat /\ DOMAIN s = 1 .. Len(s)
      /\ DOMAIN Append(s, e) = 1 .. Len(s) + 1
  BY <1>1, SeqFacts
<1> QED
  BY <1>1, <1>2

LEMMA TailFacts ==
    ASSUME NEW S, NEW s \in Seq(S), s # <<>>
    PROVE  /\ Head(s) \in S /\ Head(s) = s[1] /\ 1 \in DOMAIN s
           /\ Tail(s) \in Seq(S)
           /\ \A i \in DOMAIN Tail(s) : /\ i \in Nat /\ i >= 1 /\ i + 1 \in DOMAIN s
                                        /\ Tail(s)[i] = s[i + 1]
<1>1. /\ Head(s) \in S /\ Tail(s) \in Seq(S) /\ Len(Tail(s)) = Len(s) - 1
      /\ \A i \in 1 .. Len(Tail(s)) : Tail(s)[i] = s[i + 1]
  BY HeadTailProperties
<1>2. Len(s) \in Nat /\ Len(s) > 0 /\ DOMAIN s = 1 .. Len(s) /\ DOMAIN Tail(s) = 1 .. Len(s) - 1
  BY <1>1, SeqFacts, EmptySeq
<1> QED
  BY <1>1, <1>2

-----------------------------------------------------------------------------
(* Type correctness. *)

LEMMA InitType == Init => TypeOK
BY RealtimeAssumption, EmptySeq DEF Init, TypeOK

\* A step that leaves the publications alone may change the hits, and the commands of
\* one process.
LEMMA CommandsType ==
    ASSUME TypeOK, NEW n \in Nodes, NEW q \in Seq(Commands),
           commands' = [commands EXCEPT ![n] = q],
           \A i, j \in DOMAIN q : i < j /\ q[j].executed => q[i].executed
    PROVE  commands' \in [Nodes -> Seq(Commands)] /\ ExecutedFirst'
<1>1. commands \in [Nodes -> Seq(Commands)] /\ ExecutedFirst
  BY DEF TypeOK, Commands, ExecutedFirst
<1>2. commands' \in [Nodes -> Seq(Commands)]
  BY <1>1
<1>3. \A m \in Nodes : commands'[m] = IF m = n THEN q ELSE commands[m]
  BY <1>1
<1> QED
  BY <1>1, <1>2, <1>3 DEF ExecutedFirst

LEMMA PublishType ==
    ASSUME TypeOK, NEW h \in Hits, Publish(h)
    PROVE  TypeOK'
<1> DEFINE n == HitOf[h].node
           c == [hit |-> h, executed |-> FALSE]
<1>1. n \in Nodes /\ c \in Commands /\ commands[n] \in Seq(Commands)
  BY RealtimeAssumption DEF Commands, TypeOK
<1>2. hit' \in [Hits -> {"new", "batching", "sent", "dropped"}]
  BY ZenonT(30) DEF Publish, TypeOK
<1>3. CASE UNCHANGED commands
  BY <1>2, <1>3 DEF Publish, TypeOK, feedVars, socketVars
<1>4. CASE commands' = [commands EXCEPT ![n] = Append(commands[n], c)]
  <2> DEFINE q == Append(commands[n], c)
  <2>1. \A i, j \in DOMAIN commands[n] :
          i < j /\ commands[n][j].executed => commands[n][i].executed
    BY <1>1 DEF TypeOK
  <2>2. c.executed = FALSE
    OBVIOUS
  <2> HIDE DEF c
  <2>3. q \in Seq(Commands)
        /\ \A i \in DOMAIN q : \/ i \in DOMAIN commands[n] /\ q[i] = commands[n][i]
                               \/ i = Len(commands[n]) + 1 /\ q[i] = c
    BY <1>1, AppendFacts
  <2>4. Len(commands[n]) \in Nat /\ \A i \in DOMAIN commands[n] : i \in Nat /\ i <= Len(commands[n])
    BY <1>1, SeqFacts
  <2> HIDE DEF q
  <2>5. \A i, j \in DOMAIN q : i < j /\ q[j].executed => q[i].executed
    BY <2>1, <2>2, <2>3, <2>4
  <2>6. commands' \in [Nodes -> Seq(Commands)] /\ ExecutedFirst'
    BY <1>1, <1>4, <2>3, <2>5, CommandsType DEF q
  <2> QED
    BY <1>2, <2>6 DEF Publish, TypeOK, feedVars, socketVars, Commands, ExecutedFirst
<1> QED
  BY <1>3, <1>4 DEF Publish

LEMMA ExecuteType ==
    ASSUME TypeOK, NEW n \in Nodes, Execute(n)
    PROVE  TypeOK'
<1>1. PICK i \in DOMAIN commands[n] :
        /\ ~commands[n][i].executed
        /\ \A j \in 1 .. i - 1 : commands[n][j].executed
        /\ commands' = [commands EXCEPT ![n][i].executed = TRUE]
        /\ published' = Append(published, commands[n][i].hit)
  BY DEF Execute
<1> DEFINE q == [commands[n] EXCEPT ![i] = [commands[n][i] EXCEPT !.executed = TRUE]]
<1>2. /\ commands \in [Nodes -> Seq(Commands)] /\ commands[n] \in Seq(Commands)
      /\ commands[n][i] \in Commands /\ commands[n][i].hit \in Hits
      /\ \A a, b \in DOMAIN commands[n] : a < b /\ commands[n][b].executed => commands[n][a].executed
  <2>1. commands \in [Nodes -> Seq(Commands)] /\ commands[n] \in Seq(Commands)
    BY DEF TypeOK, Commands
  <2>2. commands[n][i] \in Commands
    BY <2>1, SeqFacts
  <2>3. commands[n][i].hit \in Hits
    BY <2>2 DEF Commands
  <2> QED
    BY <2>1, <2>2, <2>3 DEF TypeOK
<1>3. commands' = [commands EXCEPT ![n] = q]
  BY <1>1, <1>2
<1>4. q \in Seq(Commands)
  <2>1. [commands[n][i] EXCEPT !.executed = TRUE] \in Commands
    BY <1>2 DEF Commands
  <2> QED
    BY <1>2, <2>1
<1>5. \A a, b \in DOMAIN q : a < b /\ q[b].executed => q[a].executed
  <2>1. DOMAIN q = DOMAIN commands[n] /\ DOMAIN commands[n] = 1 .. Len(commands[n])
        /\ Len(commands[n]) \in Nat
    BY <1>2, SeqFacts
  <2>2. \A a \in DOMAIN q : q[a].executed = IF a = i THEN TRUE ELSE commands[n][a].executed
    BY <1>2 DEF Commands
  <2>3. ASSUME NEW a \in DOMAIN q, NEW b \in DOMAIN q, a < b, q[b].executed
        PROVE  q[a].executed
    <3>1. CASE b = i
      <4>1. a \in 1 .. i - 1
        BY <2>1, <2>3, <3>1
      <4> QED
        BY <1>1, <2>2, <4>1
    <3>2. CASE b # i
      BY <1>2, <2>1, <2>2, <2>3, <3>2
    <3> QED
      BY <3>1, <3>2
  <2> QED
    BY <2>3
<1>6. commands' \in [Nodes -> Seq(Commands)] /\ ExecutedFirst'
  <2> HIDE DEF q
  <2> QED
    BY <1>3, <1>4, <1>5, CommandsType
<1>7. published' \in Seq(Hits) /\ Len(published') = Len(published) + 1 /\ Len(published) \in Nat
  BY <1>1, <1>2, AppendFacts, SeqFacts DEF TypeOK
<1> DEFINE old == 1 .. Len(published)
           more == 1 .. Len(published')
<1>8. old \subseteq more /\ Len(published') \in more
  BY <1>7
<1>9. wire' \in [Nodes -> Seq(more)]
  <2>1. \A m \in Nodes : wire[m] \in Seq(old)
    BY DEF TypeOK
  <2> HIDE DEF old, more
  <2>2. \A m \in Nodes : wire[m] \in Seq(more)
    BY <1>8, <2>1
  <2>3. \A m \in Nodes : Append(wire[m], Len(published')) \in Seq(more)
    BY <1>8, <2>2, AppendFacts
  <2> QED
    BY <2>2, <2>3 DEF Execute
<1>10. received' \in [Sockets -> Seq(more \X Rooms)]
  <2>1. received' = received /\ received \in [Sockets -> Seq(old \X Rooms)]
    BY DEF Execute, socketVars, TypeOK
  <2> HIDE DEF old, more
  <2>2. (old \X Rooms) \subseteq (more \X Rooms)
    BY <1>8
  <2> HIDE DEF Rooms
  <2> DEFINE S == old \X Rooms
             T == more \X Rooms
  <2> HIDE DEF S, T
  <2>3. \A s \in Sockets : received[s] \in Seq(T)
    BY <2>1, <2>2 DEF S, T
  <2> QED
    BY <2>1, <2>3 DEF T
<1> QED
  BY <1>6, <1>7, <1>9, <1>10 DEF Execute, TypeOK, socketVars, Commands, ExecutedFirst

LEMMA AnsweredType ==
    ASSUME TypeOK, NEW n \in Nodes, Answered(n) \/ Reconnect(n) \/ GiveUp(n)
    PROVE  TypeOK'
<1>1. /\ commands \in [Nodes -> Seq(Commands)] /\ commands[n] \in Seq(Commands)
      /\ \A a, b \in DOMAIN commands[n] : a < b /\ commands[n][b].executed => commands[n][a].executed
  BY DEF TypeOK, Commands
<1>2. ASSUME NEW q \in Seq(Commands), commands' = [commands EXCEPT ![n] = q],
             \A i, j \in DOMAIN q : i < j /\ q[j].executed => q[i].executed
      PROVE  TypeOK'
  <2>1. commands' \in [Nodes -> Seq(Commands)] /\ ExecutedFirst'
    BY <1>2, CommandsType
  <2>2. linked' \in [Nodes -> BOOLEAN]
        /\ UNCHANGED <<hit, isConnected, losses, published, feedVars, socketVars>>
    BY DEF Answered, Reconnect, GiveUp, TypeOK
  <2> QED
    BY <2>1, <2>2 DEF TypeOK, feedVars, socketVars, Commands, ExecutedFirst
<1>3. CASE Answered(n)
  <2> DEFINE q == Tail(commands[n])
  <2>1. commands[n] # <<>> /\ commands' = [commands EXCEPT ![n] = q]
    BY <1>3 DEF Answered
  <2>2. q \in Seq(Commands)
        /\ \A i \in DOMAIN q : i \in Nat /\ i + 1 \in DOMAIN commands[n] /\ q[i] = commands[n][i + 1]
    BY <1>1, <2>1, TailFacts
  <2> HIDE DEF q
  <2>3. ASSUME NEW i \in DOMAIN q, NEW j \in DOMAIN q, i < j, q[j].executed
        PROVE  q[i].executed
    <3>1. i + 1 < j + 1
      BY <2>2, <2>3
    <3> QED
      BY <1>1, <2>2, <2>3, <3>1
  <2> QED
    BY <1>2, <2>1, <2>2, <2>3
<1>4. CASE Reconnect(n)
  <2> DEFINE q == [i \in DOMAIN commands[n] |-> [commands[n][i] EXCEPT !.executed = FALSE]]
  <2>1. commands' = [commands EXCEPT ![n] = q]
    BY <1>4 DEF Reconnect
  <2>2. Len(commands[n]) \in Nat /\ DOMAIN commands[n] = 1 .. Len(commands[n])
        /\ \A i \in DOMAIN commands[n] : commands[n][i] \in Commands
    BY <1>1, SeqFacts
  <2>3. \A i \in DOMAIN commands[n] :
          [commands[n][i] EXCEPT !.executed = FALSE] \in Commands
          /\ [commands[n][i] EXCEPT !.executed = FALSE].executed = FALSE
    BY <2>2 DEF Commands
  <2>4. q \in Seq(Commands) /\ \A i \in DOMAIN q : q[i].executed = FALSE
    BY <2>2, <2>3
  <2> HIDE DEF q
  <2> QED
    BY <1>2, <2>1, <2>4
<1>5. CASE GiveUp(n)
  <2> DEFINE q == <<>>
  <2>1. commands' = [commands EXCEPT ![n] = q] /\ q \in Seq(Commands) /\ DOMAIN q = {}
    BY <1>5, EmptySeq DEF GiveUp
  <2> HIDE DEF q
  <2> QED
    BY <1>2, <2>1
<1> QED
  BY <1>3, <1>4, <1>5

\* What a socket gets of one message.
LEMMA EmitsFacts ==
    ASSUME TypeOK, NEW i \in 1 .. Len(published), NEW joined
    PROVE  /\ Emits(i, joined) \in Seq((1 .. Len(published)) \X Rooms)
           /\ \A a \in DOMAIN Emits(i, joined) : Emits(i, joined)[a][1] = i
           /\ \A a, b \in DOMAIN Emits(i, joined) : a < b =>
                Emits(i, joined)[a][2] = "logs" /\ Emits(i, joined)[b][2] # "logs"
<1> DEFINE S == (1 .. Len(published)) \X Rooms
           c == HitOf[published[i]].client
<1>1. c \in Clients /\ c # "logs"
  <2>1. published[i] \in Hits
    BY ElementOfSeq DEF TypeOK
  <2> QED
    BY <2>1, RealtimeAssumption, RoomAssumption
<1> DEFINE x == <<i, "logs">>
           y == <<i, c>>
           first == Emit(i, "logs", joined)
           second == Emit(i, c, joined)
           e == Emits(i, joined)
<1>2. x \in S /\ y \in S
  BY <1>1 DEF Rooms
<1>3. /\ x[1] = i /\ x[2] = "logs" /\ y[1] = i /\ y[2] # "logs"
      /\ e = first \o second
      /\ first = <<>> \/ first = <<x>>
      /\ second = <<>> \/ second = <<y>>
  BY <1>1 DEF Emits, Emit
<1> HIDE DEF c, S, x, y, first, second
<1>4. /\ first \in Seq(S) /\ (Len(first) = 0 \/ Len(first) = 1) /\ \A a \in 1 .. Len(first) : first[a] = x
      /\ second \in Seq(S) /\ (Len(second) = 0 \/ Len(second) = 1) /\ \A a \in 1 .. Len(second) : second[a] = y
  <2>1. <<x>> \in Seq(S) /\ Len(<<x>>) = 1 /\ \A a \in 1 .. 1 : <<x>>[a] = x
    BY <1>2
  <2>2. <<y>> \in Seq(S) /\ Len(<<y>>) = 1 /\ \A a \in 1 .. 1 : <<y>>[a] = y
    BY <1>2
  <2>3. <<>> \in Seq(S) /\ Len(<<>>) = 0 /\ 1 .. 0 = {}
    BY EmptySeq
  <2>4. first \in Seq(S) /\ (Len(first) = 0 \/ Len(first) = 1) /\ \A a \in 1 .. Len(first) : first[a] = x
    <3>1. CASE first = <<>>
      BY <2>3, <3>1
    <3>2. CASE first = <<x>>
      BY <2>1, <3>2
    <3> QED
      BY <1>3, <3>1, <3>2
  <2>5. second \in Seq(S) /\ (Len(second) = 0 \/ Len(second) = 1) /\ \A a \in 1 .. Len(second) : second[a] = y
    <3>1. CASE second = <<>>
      BY <2>3, <3>1
    <3>2. CASE second = <<y>>
      BY <2>2, <3>2
    <3> QED
      BY <1>3, <3>1, <3>2
  <2> QED
    BY <2>4, <2>5
<1>5. /\ e \in Seq(S)
      /\ Len(e) = Len(first) + Len(second)
      /\ \A a \in 1 .. Len(first) + Len(second) :
           e[a] = IF a <= Len(first) THEN first[a] ELSE second[a - Len(first)]
  BY <1>3, <1>4, ConcatProperties
<1> HIDE DEF e
<1>6. \A a \in DOMAIN e : \/ a = 1 /\ e[a] = x
                          \/ e[a] = y /\ (a = 1 \/ a = 2)
  <2>1. DOMAIN e = 1 .. Len(first) + Len(second)
    BY <1>5, SeqFacts
  <2> QED
    BY SMTT(20), <1>4, <1>5, <2>1
<1>7. \A a, b \in DOMAIN e : a < b => e[a] = x /\ e[b] = y
  <2>1. DOMAIN e = 1 .. Len(first) + Len(second)
    BY <1>5, SeqFacts
  <2> QED
    BY <1>4, <1>5, <2>1
<1>8. \A a \in DOMAIN e : e[a][1] = i
  BY <1>3, <1>6
<1>9. \A a, b \in DOMAIN e : a < b => e[a][2] = "logs" /\ e[b][2] # "logs"
  BY <1>3, <1>7
<1> QED
  BY <1>5, <1>8, <1>9 DEF e, S

LEMMA BroadcastType ==
    ASSUME TypeOK, NEW n \in Nodes, BroadcastNewLog(n)
    PROVE  TypeOK'
<1> DEFINE P == 1 .. Len(published)
           S == P \X Rooms
<1>1. /\ wire[n] \in Seq(P) /\ wire[n] # <<>> /\ wire' = [wire EXCEPT ![n] = Tail(wire[n])]
      /\ wire \in [Nodes -> Seq(P)] /\ received \in [Sockets -> Seq(S)]
  BY DEF BroadcastNewLog, TypeOK
<1>2. Head(wire[n]) \in P /\ Tail(wire[n]) \in Seq(P)
  <2> HIDE DEF P
  <2> QED
    BY <1>1, TailFacts
<1>3. \A s \in Sockets : Emits(Head(wire[n]), rooms[s]) \in Seq(S)
  BY <1>2, EmitsFacts
<1> HIDE DEF S
<1>4. \A s \in Sockets : received[s] \o Emits(Head(wire[n]), rooms[s]) \in Seq(S)
  BY <1>1, <1>3, ConcatProperties
<1>5. received' \in [Sockets -> Seq(S)]
  BY <1>1, <1>4 DEF BroadcastNewLog
<1>6. wire' \in [Nodes -> Seq(P)]
  BY <1>1, <1>2
<1> QED
  BY <1>5, <1>6 DEF BroadcastNewLog, TypeOK, redisVars, S

LEMMA SocketsType ==
    ASSUME TypeOK, NEW s \in Sockets,
           \/ Connection(s) \/ Disconnect(s) \/ Join(s) \/ \E room \in Rooms : Leave(s, room)
    PROVE  TypeOK'
<1> DEFINE P == (1 .. Len(published)) \X Rooms
<1>1. rooms' \in [Sockets -> SUBSET Rooms] /\ connected' \subseteq Sockets
      /\ \A x \in Sockets \ connected' : rooms'[x] = {}
  <2>1. CASE Connection(s)
    <3>1. SocketOf[s].client \in Rooms
      BY RealtimeAssumption DEF Rooms
    <3>2. rooms' = [rooms EXCEPT ![s] = {SocketOf[s].client}] /\ connected' = connected \cup {s}
      BY <2>1 DEF Connection
    <3>3. rooms \in [Sockets -> SUBSET Rooms] /\ connected \subseteq Sockets
          /\ \A x \in Sockets \ connected : rooms[x] = {}
      BY DEF TypeOK
    <3>4. rooms' \in [Sockets -> SUBSET Rooms]
      BY <3>1, <3>2, <3>3
    <3> QED
      BY <3>2, <3>3, <3>4
  <2>2. CASE Disconnect(s)
    BY <2>2 DEF TypeOK, Disconnect
  <2>3. CASE Join(s)
    BY <2>3 DEF TypeOK, Join, Rooms
  <2>4. ASSUME NEW room \in Rooms, Leave(s, room)
        PROVE  /\ rooms' \in [Sockets -> SUBSET Rooms] /\ connected' \subseteq Sockets
               /\ \A x \in Sockets \ connected' : rooms'[x] = {}
    BY <2>4 DEF TypeOK, Leave
  <2> QED
    BY <2>1, <2>2, <2>3, <2>4
<1>2. received' \in [Sockets -> Seq(P)]
  <2>1. received \in [Sockets -> Seq(P)] /\ <<>> \in Seq(P)
    BY EmptySeq DEF TypeOK
  <2> HIDE DEF P
  <2>2. received' = received \/ received' = [received EXCEPT ![s] = <<>>]
    BY DEF Connection, Disconnect, Join, Leave
  <2> QED
    BY <2>1, <2>2
<1> QED
  <2>1. UNCHANGED <<hit, redisVars, feedVars, io>>
    BY DEF Connection, Disconnect, Join, Leave
  <2> QED
    BY <1>1, <1>2, <2>1 DEF TypeOK, redisVars, feedVars

LEMMA NodesType ==
    ASSUME TypeOK, NEW n \in Nodes,
           \/ CloseWrite(n) \/ CloseRead(n) \/ Subscribe(n) \/ SubscriberClose(n) \/ CloseSockets(n)
    PROVE  TypeOK'
<1>1. CASE CloseWrite(n)
  <2>1. losses' \in [Nodes -> 0 .. MaxLosses]
    BY <1>1, RealtimeAssumption DEF CloseWrite, TypeOK
  <2>2. linked' \in [Nodes -> BOOLEAN] /\ isConnected' \in [Nodes -> BOOLEAN]
    BY <1>1 DEF CloseWrite, TypeOK
  <2>3. UNCHANGED <<hit, commands, published, feedVars, socketVars>>
    BY <1>1 DEF CloseWrite
  <2> QED
    BY <2>1, <2>2, <2>3 DEF TypeOK, feedVars, socketVars
<1>2. CASE CloseRead(n)
  BY ZenonT(30), <1>2 DEF CloseRead, TypeOK, feedVars, socketVars
<1>3. CASE Subscribe(n)
  BY ZenonT(30), <1>3 DEF Subscribe, TypeOK, redisVars, socketVars
<1>4. CASE SubscriberClose(n)
  <2>1. wire' \in [Nodes -> Seq(1 .. Len(published))]
    BY <1>4, EmptySeq DEF SubscriberClose, TypeOK
  <2> QED
    BY ZenonT(30), <1>4, <2>1 DEF SubscriberClose, TypeOK, redisVars, socketVars
<1>5. CASE CloseSockets(n)
  <2>1. io' \in [Nodes -> BOOLEAN] /\ connected' \subseteq Sockets
        /\ rooms' \in [Sockets -> SUBSET Rooms]
        /\ \A x \in Sockets \ connected' : rooms'[x] = {}
    BY <1>5 DEF CloseSockets, TypeOK
  <2>2. UNCHANGED <<hit, redisVars, feedVars, received>>
    BY <1>5 DEF CloseSockets
  <2> QED
    BY ZenonT(30), <2>1, <2>2 DEF TypeOK, redisVars, feedVars
<1> QED
  BY <1>1, <1>2, <1>3, <1>4, <1>5

LEMMA NextType == TypeOK /\ [Next]_vars => TypeOK'
<1> SUFFICES ASSUME TypeOK, [Next]_vars PROVE TypeOK'
  OBVIOUS
<1>1. ASSUME NEW h \in Hits, LogApiHit(h) PROVE TypeOK'
  <2>1. CASE AddToBatch(h)
    BY <2>1 DEF AddToBatch, TypeOK, redisVars, feedVars, socketVars
  <2> QED
    BY <1>1, <2>1, PublishType DEF LogApiHit
<1>2. CASE UNCHANGED vars
  BY <1>2 DEF TypeOK, vars, redisVars, feedVars, socketVars
<1> QED
  BY <1>1, <1>2, ExecuteType, AnsweredType, BroadcastType, SocketsType, NodesType DEF Next

\* The variables of Realtime keep their types; in particular a command that Redis has
\* not executed is never ahead of one that it has.
THEOREM TypeCorrect == Spec => []TypeOK
BY InitType, NextType, PTL DEF Spec

-----------------------------------------------------------------------------
(* The order of delivery. *)

\* What is on its way to a subscriber is in order, and later than all that was sent to
\* the sockets of its process.
OrderInv ==
    /\ \A n \in Nodes : \A i, j \in DOMAIN wire[n] : i < j => wire[n][i] < wire[n][j]
    /\ \A s \in Sockets : \A i \in DOMAIN received[s] :
         \A j \in DOMAIN wire[SocketOf[s].node] :
           received[s][i][1] < wire[SocketOf[s].node][j]
    /\ DeliveredInOrder

LEMMA Places ==
    ASSUME TypeOK
    PROVE  /\ Len(published) \in Nat
           /\ \A n \in Nodes : \A j \in DOMAIN wire[n] :
                wire[n][j] \in Nat /\ wire[n][j] <= Len(published)
           /\ \A s \in Sockets : \A i \in DOMAIN received[s] :
                received[s][i][1] \in Nat /\ received[s][i][1] <= Len(published)
<1>1. Len(published) \in Nat
  BY SeqFacts DEF TypeOK
<1> DEFINE P == 1 .. Len(published)
           S == P \X Rooms
<1>2. ASSUME NEW n \in Nodes, NEW j \in DOMAIN wire[n] PROVE wire[n][j] \in P
  <2>1. wire[n] \in Seq(P)
    BY DEF TypeOK
  <2> HIDE DEF P
  <2> QED
    BY <1>2, <2>1, SeqFacts
<1>3. ASSUME NEW s \in Sockets, NEW i \in DOMAIN received[s] PROVE received[s][i] \in S
  <2>1. received[s] \in Seq(S)
    BY DEF TypeOK
  <2> HIDE DEF S
  <2> QED
    BY <1>3, <2>1, SeqFacts
<1>4. \A e \in S : e[1] \in P
  OBVIOUS
<1> QED
  BY <1>1, <1>2, <1>3, <1>4

LEMMA ExecuteOrder ==
    ASSUME TypeOK, OrderInv, NEW n \in Nodes, Execute(n)
    PROVE  OrderInv'
<1>1. received' = received /\ SocketOf \in [Sockets -> [node : Nodes, client : Clients]]
  BY RealtimeAssumption DEF Execute, socketVars
<1>2. Len(published') = Len(published) + 1
  <2>1. PICK i \in DOMAIN commands[n] : published' = Append(published, commands[n][i].hit)
    BY DEF Execute
  <2>2. commands[n] \in Seq(Commands) /\ published \in Seq(Hits)
    BY DEF TypeOK, Commands
  <2>3. commands[n][i] \in Commands
    BY <2>2, SeqFacts
  <2>4. commands[n][i].hit \in Hits
    BY <2>3 DEF Commands
  <2> QED
    BY <2>1, <2>2, <2>4, AppendFacts
<1>3. ASSUME NEW m \in Nodes
      PROVE  /\ \A j \in DOMAIN wire'[m] : \/ j \in DOMAIN wire[m] /\ wire'[m][j] = wire[m][j]
                                           \/ wire'[m][j] = Len(published) + 1
             /\ \A i, j \in DOMAIN wire'[m] :
                  i < j => i \in DOMAIN wire[m] /\ wire'[m][i] = wire[m][i]
  <2>1. CASE wire'[m] = wire[m]
    BY <2>1
  <2>2. CASE wire'[m] = Append(wire[m], Len(published'))
    <3> DEFINE P == 1 .. Len(published)
               R == 1 .. Len(published')
               w == wire[m]
               all == wire'[m]
    <3>1. w \in Seq(R) /\ Len(published') \in R
      <4>1. P \subseteq R /\ Len(published') \in R
        BY <1>2, Places
      <4>2. w \in Seq(P)
        BY DEF TypeOK
      <4> HIDE DEF P, R, w
      <4> QED
        BY <4>1, <4>2
    <3> HIDE DEF R, w
    <3>2. /\ \A i \in DOMAIN all : \/ i \in DOMAIN w /\ all[i] = w[i]
                                   \/ i = Len(w) + 1 /\ all[i] = Len(published')
          /\ all \in Seq(R) /\ Len(all) = Len(w) + 1
      BY <2>2, <3>1, AppendFacts DEF w
    <3>3. DOMAIN w = 1 .. Len(w) /\ DOMAIN all = 1 .. Len(w) + 1 /\ Len(w) \in Nat
      BY <3>1, <3>2, SeqFacts
    <3> HIDE DEF all
    <3>4. \A i, j \in DOMAIN all : i < j => i \in DOMAIN w /\ all[i] = w[i]
      BY <3>2, <3>3
    <3> QED
      BY <1>2, <3>2, <3>4 DEF w, all
  <2>3. wire'[m] = wire[m] \/ wire'[m] = Append(wire[m], Len(published'))
    BY DEF Execute
  <2> QED
    BY <2>1, <2>2, <2>3
<1>4. ASSUME NEW m \in Nodes, NEW i \in DOMAIN wire'[m], NEW j \in DOMAIN wire'[m], i < j
      PROVE  wire'[m][i] < wire'[m][j]
  <2>1. i \in DOMAIN wire[m] /\ wire'[m][i] = wire[m][i]
    BY <1>3, <1>4
  <2>2. CASE j \in DOMAIN wire[m] /\ wire'[m][j] = wire[m][j]
    BY <1>4, <2>1, <2>2 DEF OrderInv
  <2>3. CASE wire'[m][j] = Len(published) + 1
    BY <2>1, <2>3, Places
  <2> QED
    BY <1>3, <2>2, <2>3
<1>5. ASSUME NEW s \in Sockets, NEW i \in DOMAIN received[s],
             NEW j \in DOMAIN wire'[SocketOf[s].node]
      PROVE  received[s][i][1] < wire'[SocketOf[s].node][j]
  <2>1. SocketOf[s].node \in Nodes
    BY <1>1
  <2>2. CASE j \in DOMAIN wire[SocketOf[s].node]
             /\ wire'[SocketOf[s].node][j] = wire[SocketOf[s].node][j]
    BY <2>2 DEF OrderInv
  <2>3. CASE wire'[SocketOf[s].node][j] = Len(published) + 1
    BY <2>3, Places
  <2> QED
    BY <1>3, <2>1, <2>2, <2>3
<1> QED
  BY <1>1, <1>4, <1>5 DEF OrderInv, DeliveredInOrder

LEMMA BroadcastOrder ==
    ASSUME TypeOK, OrderInv, NEW n \in Nodes, BroadcastNewLog(n)
    PROVE  OrderInv'
<1> DEFINE P == 1 .. Len(published)
           S == P \X Rooms
           p == Head(wire[n])
<1>1. wire[n] \in Seq(P) /\ wire[n] # <<>> /\ wire' = [wire EXCEPT ![n] = Tail(wire[n])]
      /\ wire \in [Nodes -> Seq(P)]
  BY DEF BroadcastNewLog, TypeOK
<1>2. /\ p \in P /\ p = wire[n][1] /\ 1 \in DOMAIN wire[n]
      /\ \A i \in DOMAIN wire'[n] : /\ i \in Nat /\ i >= 1 /\ i + 1 \in DOMAIN wire[n]
                                    /\ wire'[n][i] = wire[n][i + 1]
  <2> HIDE DEF P
  <2>1. wire'[n] = Tail(wire[n])
    BY <1>1
  <2> QED
    BY <1>1, <2>1, TailFacts
<1>3. ASSUME NEW m \in Nodes, NEW i \in DOMAIN wire'[m], NEW j \in DOMAIN wire'[m], i < j
      PROVE  wire'[m][i] < wire'[m][j]
  <2>1. CASE m = n
    <3>1. i + 1 < j + 1
      BY <1>2, <1>3, <2>1
    <3> QED
      BY <1>2, <1>3, <2>1, <3>1 DEF OrderInv
  <2>2. CASE m # n
    BY <1>1, <1>3, <2>2 DEF OrderInv
  <2> QED
    BY <2>1, <2>2
<1>4. \A i \in DOMAIN wire'[n] : p < wire'[n][i]
  <2>1. \A i \in DOMAIN wire'[n] : 1 < i + 1
    BY <1>2
  <2> QED
    BY <1>2, <2>1 DEF OrderInv
<1>5. ASSUME NEW s \in Sockets
      PROVE  /\ \A i \in DOMAIN received'[s] : \A j \in DOMAIN wire'[SocketOf[s].node] :
                  received'[s][i][1] < wire'[SocketOf[s].node][j]
             /\ \A i, j \in DOMAIN received'[s] : i < j =>
                  LET earlier == received'[s][i]
                      later == received'[s][j]
                  IN  earlier[1] < later[1] \/ (earlier[1] = later[1] /\ later[2] # "logs"
                                                /\ earlier[2] = "logs")
  <2> DEFINE e == Emits(p, rooms[s])
             r == received[s]
             all == received'[s]
             to == SocketOf[s].node
  <2>1. to \in Nodes
    BY RealtimeAssumption
  <2>2. \A i \in DOMAIN r : \A j \in DOMAIN wire'[to] : r[i][1] < wire'[to][j]
    BY <1>1, <1>2, <2>1 DEF OrderInv
  <2>3. \A i, j \in DOMAIN r : i < j =>
          r[i][1] < r[j][1] \/ (r[i][1] = r[j][1] /\ r[j][2] # "logs" /\ r[i][2] = "logs")
    BY DEF OrderInv, DeliveredInOrder
  <2>4. CASE all = r
    BY <2>2, <2>3, <2>4
  <2>5. CASE to = n /\ all = r \o e
    <3>1. /\ e \in Seq(S)
          /\ \A a \in DOMAIN e : e[a][1] = p
          /\ \A a, b \in DOMAIN e : a < b => e[a][2] = "logs" /\ e[b][2] # "logs"
      BY <1>2, EmitsFacts
    <3>2. r \in Seq(S)
      BY DEF TypeOK
    <3>3. \A i \in DOMAIN r : r[i][1] < p
      BY <1>2, <2>5 DEF OrderInv
    <3> HIDE DEF e, S, r
    <3>4. /\ Len(r) \in Nat /\ Len(e) \in Nat
          /\ DOMAIN r = 1 .. Len(r) /\ DOMAIN e = 1 .. Len(e)
          /\ DOMAIN (r \o e) = 1 .. Len(r) + Len(e)
          /\ \A i \in 1 .. Len(r) + Len(e) : (r \o e)[i] = IF i <= Len(r) THEN r[i] ELSE e[i - Len(r)]
      BY <3>1, <3>2, ConcatProperties, SeqFacts
    <3> DEFINE k == Len(r)
               l == Len(e)
    <3> HIDE DEF all, k, l
    <3>5. /\ k \in Nat /\ l \in Nat /\ DOMAIN r = 1 .. k /\ DOMAIN e = 1 .. l /\ DOMAIN all = 1 .. k + l
          /\ \A i \in 1 .. k + l : all[i] = IF i <= k THEN r[i] ELSE e[i - k]
      BY <2>5, <3>4 DEF k, l
    <3>6. \A i \in DOMAIN all :
            \/ i \in DOMAIN r /\ i <= k /\ all[i] = r[i]
            \/ i > k /\ i - k \in DOMAIN e /\ all[i] = e[i - k]
      BY <3>5
    <3>7. \A i \in DOMAIN all : \A j \in DOMAIN wire'[to] : all[i][1] < wire'[to][j]
      BY <1>4, <2>2, <2>5, <3>1, <3>6
    <3>8. ASSUME NEW i \in DOMAIN all, NEW j \in DOMAIN all, i < j
          PROVE  \/ all[i][1] < all[j][1]
                 \/ all[i][1] = all[j][1] /\ all[j][2] # "logs" /\ all[i][2] = "logs"
      <4>1. CASE j <= k
        <5>1. i \in DOMAIN r /\ j \in DOMAIN r /\ all[i] = r[i] /\ all[j] = r[j]
          BY <3>5, <3>8, <4>1
        <5> QED
          BY <2>3, <3>8, <5>1
      <4>2. CASE i <= k /\ j > k
        <5>1. i \in DOMAIN r /\ all[i] = r[i] /\ j - k \in DOMAIN e /\ all[j] = e[j - k]
          BY <3>5, <3>8, <4>2
        <5> QED
          BY <3>1, <3>3, <5>1
      <4>3. CASE i > k
        <5>1. /\ i - k \in DOMAIN e /\ j - k \in DOMAIN e /\ i - k < j - k
              /\ all[i] = e[i - k] /\ all[j] = e[j - k]
          BY <3>5, <3>8, <4>3
        <5> QED
          BY <3>1, <5>1
      <4> QED
        BY <3>5, <3>8, <4>1, <4>2, <4>3
    <3> QED
      BY <3>7, <3>8 DEF all
  <2>6. all = r \/ (to = n /\ all = r \o e)
    BY DEF BroadcastNewLog
  <2> QED
    BY <2>4, <2>5, <2>6
<1> QED
  BY <1>3, <1>5 DEF OrderInv, DeliveredInOrder

LEMMA NextOrder == TypeOK /\ OrderInv /\ [Next]_vars => OrderInv'
<1> SUFFICES ASSUME TypeOK, OrderInv, [Next]_vars PROVE OrderInv'
  OBVIOUS
<1>1. ASSUME wire' = wire /\ received' = received PROVE OrderInv'
  BY <1>1 DEF OrderInv, DeliveredInOrder
<1>2. ASSUME NEW h \in Hits, LogApiHit(h) PROVE OrderInv'
  BY <1>1, <1>2 DEF LogApiHit, AddToBatch, Publish, feedVars, socketVars
<1>3. ASSUME NEW n \in Nodes,
             \/ Answered(n) \/ CloseWrite(n) \/ CloseRead(n) \/ Reconnect(n) \/ GiveUp(n)
             \/ Subscribe(n) \/ CloseSockets(n)
      PROVE  OrderInv'
  BY <1>1, <1>3 DEF Answered, CloseWrite, CloseRead, Reconnect, GiveUp, Subscribe, CloseSockets,
                    feedVars, socketVars
<1>4. ASSUME NEW n \in Nodes, SubscriberClose(n) PROVE OrderInv'
  <2>1. received' = received /\ wire' = [wire EXCEPT ![n] = <<>>] /\ DOMAIN wire = Nodes
        /\ \A s \in Sockets : SocketOf[s].node \in Nodes
    BY <1>4, RealtimeAssumption DEF SubscriberClose, socketVars, TypeOK
  <2>2. \A m \in Nodes : wire'[m] = wire[m] \/ DOMAIN wire'[m] = {}
    BY <2>1
  <2> QED
    BY <2>1, <2>2 DEF OrderInv, DeliveredInOrder
<1>5. ASSUME NEW s \in Sockets,
             \/ Connection(s) \/ Disconnect(s) \/ Join(s) \/ \E room \in Rooms : Leave(s, room)
      PROVE  OrderInv'
  <2>1. wire' = wire /\ (received' = received \/ received' = [received EXCEPT ![s] = <<>>])
        /\ DOMAIN received = Sockets
    BY <1>5 DEF Connection, Disconnect, Join, Leave, feedVars, TypeOK
  <2>2. \A x \in Sockets : received'[x] = received[x] \/ DOMAIN received'[x] = {}
    BY <2>1
  <2> QED
    BY <2>1, <2>2 DEF OrderInv, DeliveredInOrder
<1>6. CASE UNCHANGED vars
  BY <1>1, <1>6 DEF vars, feedVars, socketVars
<1> QED
  BY <1>2, <1>3, <1>4, <1>5, <1>6, ExecuteOrder, BroadcastOrder DEF Next

\* Sockets get the hits in the order in which Redis has published them, whichever
\* process they are connected to and whatever is lost and sent again.
THEOREM FeedIsInOrder == Spec => []DeliveredInOrder
<1>1. Init => OrderInv
  BY RealtimeAssumption DEF Init, OrderInv, DeliveredInOrder
<1>2. OrderInv => DeliveredInOrder
  BY DEF OrderInv
<1> QED
  BY <1>1, <1>2, InitType, NextType, NextOrder, PTL DEF Spec

-----------------------------------------------------------------------------
(* Publication. *)

Unpublished(h) == [hit |-> h, executed |-> FALSE]

\* Whether Redis may yet execute a PUBLISH of the hit without another loss.
Pending(h) ==
    \/ hit[h] \in {"new", "batching"}
    \/ \E i \in DOMAIN commands[HitOf[h].node] :
         commands[HitOf[h].node][i].hit = h /\ ~commands[HitOf[h].node][i].executed

\* A hit has one command at most, at its process, and none before it is sent.
OneCommand ==
    \A n \in Nodes :
      /\ \A i \in DOMAIN commands[n] :
           hit[commands[n][i].hit] = "sent" /\ HitOf[commands[n][i].hit].node = n
      /\ \A i, j \in DOMAIN commands[n] : commands[n][i].hit = commands[n][j].hit => i = j

\* Each loss allows one publication more: it is owed from the loss on.
PublishedInv ==
    /\ OneCommand
    /\ PublishedAgainOnlyByLoss
    /\ \A h \in Hits : Pending(h) \/ ~linked[HitOf[h].node]
                         => Times(h) <= losses[HitOf[h].node]

LEMMA TimesFacts ==
    ASSUME TypeOK, NEW h \in Hits
    PROVE  Times(h) \in Nat /\ IsFiniteSet({i \in DOMAIN published : published[i] = h})
<1>1. DOMAIN published = 1 .. Len(published) /\ Len(published) \in Nat
  BY SeqFacts DEF TypeOK
<1>2. IsFiniteSet(1 .. Len(published))
  BY <1>1, FS_Interval
<1>3. IsFiniteSet({i \in DOMAIN published : published[i] = h})
  BY <1>1, <1>2, FS_Subset
<1> QED
  BY <1>3, FS_CardinalityType DEF Times

LEMMA LossesFacts == TypeOK => \A h \in Hits : losses[HitOf[h].node] \in Nat
<1> SUFFICES ASSUME TypeOK, NEW h \in Hits PROVE losses[HitOf[h].node] \in Nat
  OBVIOUS
<1>1. HitOf[h].node \in Nodes /\ losses \in [Nodes -> 0 .. MaxLosses] /\ MaxLosses \in Nat
  BY RealtimeAssumption DEF TypeOK
<1>2. losses[HitOf[h].node] \in 0 .. MaxLosses
  BY <1>1
<1> QED
  BY <1>1, <1>2

\* One publication more.
LEMMA AppendTimes ==
    ASSUME TypeOK, NEW g \in Hits, published' = Append(published, g)
    PROVE  \A h \in Hits : Times(h)' = IF h = g THEN Times(h) + 1 ELSE Times(h)
<1> SUFFICES ASSUME NEW h \in Hits PROVE Times(h)' = IF h = g THEN Times(h) + 1 ELSE Times(h)
  OBVIOUS
<1> DEFINE k == Len(published)
           old == {i \in DOMAIN published : published[i] = h}
           all == {i \in DOMAIN published' : published'[i] = h}
<1>1. /\ k \in Nat /\ DOMAIN published = 1 .. k /\ DOMAIN published' = 1 .. k + 1
      /\ published'[k + 1] = g /\ \A i \in 1 .. k : published'[i] = published[i]
  BY AppendProperties, LenProperties DEF TypeOK
<1> HIDE DEF k
<1>2. CASE h = g
  <2>1. all = old \cup {k + 1} /\ k + 1 \notin old
    BY <1>1, <1>2
  <2>2. Cardinality(old \cup {k + 1}) = Cardinality(old) + 1
    BY <2>1, TimesFacts, FS_AddElement
  <2> QED
    BY <1>2, <2>1, <2>2 DEF Times
<1>3. CASE h # g
  <2>1. all = old
    BY <1>1, <1>3
  <2> QED
    BY <1>3, <2>1 DEF Times
<1> QED
  BY <1>2, <1>3

LEMMA ExecutePublished ==
    ASSUME TypeOK, PublishedInv, NEW n \in Nodes, Execute(n)
    PROVE  PublishedInv'
<1>1. PICK i \in DOMAIN commands[n] :
        /\ ~commands[n][i].executed
        /\ commands' = [commands EXCEPT ![n][i].executed = TRUE]
        /\ published' = Append(published, commands[n][i].hit)
  BY DEF Execute
<1>0. /\ commands \in [Nodes -> Seq(Commands)]
      /\ commands[n][i] \in Commands /\ commands[n][i].hit \in Hits
  <2>1. commands \in [Nodes -> Seq(Commands)] /\ commands[n] \in Seq(Commands)
    BY DEF TypeOK, Commands
  <2>2. commands[n][i] \in Commands
    BY <2>1, SeqFacts
  <2> QED
    BY <2>1, <2>2 DEF Commands
<1> PICK g \in Hits : g = commands[n][i].hit
  BY <1>0
<1>2. /\ g = commands[n][i].hit /\ HitOf[g].node = n /\ linked[n]
      /\ hit' = hit /\ linked' = linked /\ losses' = losses
  BY <1>1 DEF PublishedInv, OneCommand, Execute
<1>3. ASSUME NEW m \in Nodes
      PROVE  /\ DOMAIN commands'[m] = DOMAIN commands[m]
             /\ \A j \in DOMAIN commands[m] :
                  /\ commands'[m][j].hit = commands[m][j].hit
                  /\ commands'[m][j].executed =
                       IF m = n /\ j = i THEN TRUE ELSE commands[m][j].executed
  <2>1. /\ m # n => commands'[m] = commands[m]
        /\ DOMAIN commands'[n] = DOMAIN commands[n]
        /\ \A j \in DOMAIN commands[n] :
             commands'[n][j] = IF j = i THEN [commands[n][i] EXCEPT !.executed = TRUE]
                               ELSE commands[n][j]
    BY <1>0, <1>1
  <2>2. [commands[n][i] EXCEPT !.executed = TRUE].hit = g
        /\ [commands[n][i] EXCEPT !.executed = TRUE].executed = TRUE
    BY <1>0, <1>2 DEF Commands
  <2>3. CASE m # n
    BY <2>1, <2>3
  <2>4. CASE m = n
    <3>1. DOMAIN commands'[n] = DOMAIN commands[n]
      BY <2>1
    <3>2. ASSUME NEW j \in DOMAIN commands[n]
          PROVE  /\ commands'[n][j].hit = commands[n][j].hit
                 /\ commands'[n][j].executed = IF j = i THEN TRUE ELSE commands[n][j].executed
      <4>1. CASE j = i
        <5>1. commands'[n][j] = [commands[n][i] EXCEPT !.executed = TRUE]
          BY <2>1, <4>1
        <5> QED
          BY <1>2, <2>2, <4>1, <5>1
      <4>2. CASE j # i
        BY <2>1, <4>2
      <4> QED
        BY <4>1, <4>2
    <3> QED
      BY <2>4, <3>1, <3>2
  <2> QED
    BY <2>3, <2>4
<1>4. OneCommand'
  <2> SUFFICES ASSUME NEW m \in Nodes
               PROVE  /\ \A j \in DOMAIN commands'[m] :
                           /\ hit'[commands'[m][j].hit] = "sent"
                           /\ HitOf[commands'[m][j].hit].node = m
                      /\ \A j, k \in DOMAIN commands'[m] :
                           commands'[m][j].hit = commands'[m][k].hit => j = k
    BY DEF OneCommand
  <2>1. /\ \A j \in DOMAIN commands[m] :
             /\ hit[commands[m][j].hit] = "sent"
             /\ HitOf[commands[m][j].hit].node = m
        /\ \A j, k \in DOMAIN commands[m] :
             commands[m][j].hit = commands[m][k].hit => j = k
    BY DEF PublishedInv, OneCommand
  <2>2. /\ DOMAIN commands'[m] = DOMAIN commands[m]
        /\ \A j \in DOMAIN commands[m] : commands'[m][j].hit = commands[m][j].hit
    BY <1>3
  <2> QED
    BY <1>2, <2>1, <2>2
<1>5. \A h \in Hits : Times(h)' = IF h = g THEN Times(h) + 1 ELSE Times(h)
  BY <1>1, <1>2, AppendTimes
<1>6. Pending(g) /\ ~Pending(g)'
  <2>1. Pending(g)
    BY <1>1, <1>2 DEF Pending
  <2>2. hit[g] = "sent"
    BY <1>2 DEF PublishedInv, OneCommand
  <2>3. ASSUME NEW j \in DOMAIN commands'[n], commands'[n][j].hit = g
        PROVE  commands'[n][j].executed
    <3>1. j \in DOMAIN commands[n] /\ commands[n][j].hit = g
      BY <1>3, <2>3
    <3>2. j = i
      BY <3>1 DEF PublishedInv, OneCommand
    <3> QED
      BY <1>3, <3>1, <3>2
  <2> QED
    BY <1>2, <2>1, <2>2, <2>3 DEF Pending
<1>7. \A h \in Hits : h # g /\ Pending(h)' => Pending(h)
  <2> SUFFICES ASSUME NEW h \in Hits, h # g, Pending(h)' PROVE Pending(h)
    OBVIOUS
  <2>1. HitOf[h].node \in Nodes
    BY RealtimeAssumption
  <2>2. PICK m \in Nodes : m = HitOf[h].node
    BY <2>1
  <2>3. /\ DOMAIN commands'[m] = DOMAIN commands[m]
        /\ \A j \in DOMAIN commands[m] :
             /\ commands'[m][j].hit = commands[m][j].hit
             /\ commands'[m][j].executed =
                  IF m = n /\ j = i THEN TRUE ELSE commands[m][j].executed
    BY <1>3
  <2>4. CASE hit[h] \in {"new", "batching"}
    BY <2>4 DEF Pending
  <2>5. CASE \E j \in DOMAIN commands'[m] : commands'[m][j].hit = h /\ ~commands'[m][j].executed
    BY <2>2, <2>3, <2>5 DEF Pending
  <2> QED
    BY <1>2, <2>2, <2>4, <2>5 DEF Pending
<1>8. \A h \in Hits : Times(h) \in Nat /\ losses[HitOf[h].node] \in Nat
  BY TimesFacts, LossesFacts
<1>9. ASSUME NEW h \in Hits
      PROVE  /\ Times(h)' <= 1 + losses'[HitOf[h].node]
             /\ Pending(h)' \/ ~linked'[HitOf[h].node] => Times(h)' <= losses'[HitOf[h].node]
  <2> SUFFICES /\ Times(h)' <= 1 + losses[HitOf[h].node]
               /\ Pending(h)' \/ ~linked[HitOf[h].node] => Times(h)' <= losses[HitOf[h].node]
    BY <1>2
  <2>1. CASE h = g
    <3>1. Times(g) <= losses[HitOf[g].node]
      BY <1>2, <1>6 DEF PublishedInv
    <3>2. Times(g)' <= 1 + losses[HitOf[g].node]
      BY <1>2, <1>5, <1>8, <3>1
    <3> QED
      BY <1>2, <1>6, <2>1, <3>2
  <2>2. CASE h # g
    <3>1. Times(h)' = Times(h)
      BY <1>5, <2>2
    <3> QED
      BY <1>7, <2>2, <3>1 DEF PublishedInv, PublishedAgainOnlyByLoss
  <2> QED
    BY <2>1, <2>2
<1> QED
  BY <1>4, <1>9 DEF PublishedInv, PublishedAgainOnlyByLoss

\* A step that publishes nothing.
LEMMA PublishedKept ==
    ASSUME TypeOK, PublishedInv, published' = published, OneCommand',
           \A h \in Hits :
             \/ /\ Pending(h)' => Pending(h) \/ ~linked[HitOf[h].node]
                /\ linked'[HitOf[h].node] \/ ~linked[HitOf[h].node]
                /\ losses'[HitOf[h].node] = losses[HitOf[h].node]
             \/ losses'[HitOf[h].node] = losses[HitOf[h].node] + 1
    PROVE  PublishedInv'
<1>1. \A h \in Hits : Times(h)' = Times(h)
  <2> SUFFICES ASSUME NEW h \in Hits PROVE Times(h)' = Times(h)
    OBVIOUS
  <2> QED
    BY DEF Times
<1>2. \A h \in Hits : Times(h) \in Nat /\ losses[HitOf[h].node] \in Nat
  BY TimesFacts, LossesFacts
<1>3. ASSUME NEW h \in Hits
      PROVE  /\ Times(h)' <= 1 + losses'[HitOf[h].node]
             /\ Pending(h)' \/ ~linked'[HitOf[h].node] => Times(h)' <= losses'[HitOf[h].node]
  <2>1. Times(h)' = Times(h)
    BY <1>1
  <2>2. Times(h) <= 1 + losses[HitOf[h].node]
    BY DEF PublishedInv, PublishedAgainOnlyByLoss
  <2>3. CASE losses'[HitOf[h].node] = losses[HitOf[h].node] + 1
    BY <1>2, <2>1, <2>2, <2>3
  <2>4. CASE losses'[HitOf[h].node] # losses[HitOf[h].node] + 1
    BY <2>1, <2>2, <2>4 DEF PublishedInv
  <2> QED
    BY <2>3, <2>4
<1> QED
  BY <1>3 DEF PublishedInv, PublishedAgainOnlyByLoss

LEMMA NextPublished == TypeOK /\ PublishedInv /\ [Next]_vars => PublishedInv'
<1> SUFFICES ASSUME TypeOK, PublishedInv, [Next]_vars PROVE PublishedInv'
  OBVIOUS
<1>0. /\ commands \in [Nodes -> Seq(Commands)]
      /\ \A h \in Hits : HitOf[h].node \in Nodes
      /\ DOMAIN hit = Hits /\ DOMAIN linked = Nodes /\ DOMAIN losses = Nodes
  BY RealtimeAssumption DEF TypeOK, Commands
<1>1. ASSUME UNCHANGED <<hit, linked, losses, commands, published>> PROVE PublishedInv'
  <2>1. OneCommand' /\ \A h \in Hits : Pending(h)' => Pending(h)
    BY <1>1 DEF PublishedInv, OneCommand, Pending
  <2> QED
    BY <1>1, <2>1, PublishedKept
<1>2. ASSUME NEW h \in Hits, AddToBatch(h) PROVE PublishedInv'
  <2>1. /\ hit[h] = "new" /\ hit' = [hit EXCEPT ![h] = "batching"]
        /\ UNCHANGED <<linked, losses, commands, published>>
    BY <1>2 DEF AddToBatch, redisVars
  <2>2. \A g \in Hits : hit'[g] = IF g = h THEN "batching" ELSE hit[g]
    BY <1>0, <2>1
  <2>3. \A n \in Nodes : \A i \in DOMAIN commands[n] : commands[n][i].hit \in Hits
    <3>1. \A n \in Nodes : \A i \in DOMAIN commands[n] : commands[n][i] \in Commands
      BY <1>0, SeqFacts
    <3> QED
      BY <3>1 DEF Commands
  <2>4. OneCommand'
    BY <2>1, <2>2, <2>3 DEF PublishedInv, OneCommand
  <2>5. \A g \in Hits : Pending(g)' => Pending(g)
    BY <2>1, <2>2 DEF Pending
  <2> QED
    BY <2>1, <2>4, <2>5, PublishedKept
<1>3. ASSUME NEW h \in Hits, Publish(h) PROVE PublishedInv'
  <2> DEFINE n == HitOf[h].node
             c == Unpublished(h)
  <2>1. /\ hit[h] = "batching" /\ UNCHANGED <<linked, losses, published>> /\ n \in Nodes
        /\ c \in Commands /\ c.hit = h
    BY <1>0, <1>3 DEF Publish, Unpublished, Commands
  <2>2. hit'[h] # "new" /\ hit'[h] # "batching" /\ \A g \in Hits \ {h} : hit'[g] = hit[g]
    BY <1>0, <1>3 DEF Publish
  <2>3. \A m \in Nodes : \A i \in DOMAIN commands[m] :
          commands[m][i].hit \in Hits \ {h}
    <3>1. \A m \in Nodes : \A i \in DOMAIN commands[m] : commands[m][i] \in Commands
      BY <1>0, SeqFacts
    <3> QED
      BY <2>1, <3>1 DEF Commands, PublishedInv, OneCommand
  <2>4. CASE commands' = commands
    <3>1. OneCommand'
      BY <2>2, <2>3, <2>4 DEF PublishedInv, OneCommand
    <3>2. \A g \in Hits : Pending(g)' => Pending(g)
      BY <2>1, <2>2, <2>4 DEF Pending
    <3> QED
      BY <2>1, <3>1, <3>2, PublishedKept
  <2>5. CASE hit'[h] = "sent" /\ commands' = [commands EXCEPT ![n] = Append(commands[n], c)]
    <3>1. /\ \A m \in Nodes \ {n} : commands'[m] = commands[m]
          /\ commands'[n] = Append(commands[n], c)
      BY <1>0, <2>1, <2>5
    <3> HIDE DEF c
    <3>2. \A i \in DOMAIN commands'[n] :
            \/ i \in DOMAIN commands[n] /\ commands'[n][i] = commands[n][i]
            \/ i = Len(commands[n]) + 1 /\ commands'[n][i] = c
      BY <1>0, <2>1, <3>1, AppendFacts
    <3>3. \A m \in Nodes : \A i \in DOMAIN commands'[m] :
            \/ i \in DOMAIN commands[m] /\ commands'[m][i] = commands[m][i]
            \/ m = n /\ i = Len(commands[n]) + 1 /\ commands'[m][i] = c
      BY <3>1, <3>2
    <3>4. OneCommand'
      <4>1. ASSUME NEW m \in Nodes, NEW i \in DOMAIN commands'[m]
            PROVE  hit'[commands'[m][i].hit] = "sent" /\ HitOf[commands'[m][i].hit].node = m
        BY <2>1, <2>2, <2>3, <2>5, <3>3 DEF PublishedInv, OneCommand
      <4>2. ASSUME NEW m \in Nodes, NEW i \in DOMAIN commands'[m], NEW j \in DOMAIN commands'[m],
                   commands'[m][i].hit = commands'[m][j].hit
            PROVE  i = j
        BY <2>1, <2>3, <3>3, <4>2 DEF PublishedInv, OneCommand
      <4> QED
        BY <4>1, <4>2 DEF OneCommand
    <3>5. ASSUME NEW g \in Hits, Pending(g)' PROVE Pending(g)
      <4>1. CASE g = h
        BY <2>1, <4>1 DEF Pending
      <4>2. CASE g # h
        BY ZenonT(30), <1>0, <2>1, <2>2, <3>3, <3>5, <4>2 DEF Pending
      <4> QED
        BY <4>1, <4>2
    <3> QED
      BY <2>1, <3>4, <3>5, PublishedKept
  <2> QED
    BY <1>0, <1>3, <2>4, <2>5 DEF Publish, Unpublished
<1>4. ASSUME NEW n \in Nodes, Answered(n) PROVE PublishedInv'
  <2>1. /\ commands[n] # <<>> /\ commands' = [commands EXCEPT ![n] = Tail(commands[n])]
        /\ UNCHANGED <<hit, linked, losses, published>>
    BY <1>4 DEF Answered
  <2>2. \A m \in Nodes : \/ commands'[m] = commands[m]
                         \/ \A i \in DOMAIN commands'[m] :
                              /\ i \in Nat /\ i + 1 \in DOMAIN commands[m]
                              /\ commands'[m][i] = commands[m][i + 1]
    BY <1>0, <2>1, TailFacts
  <2>3. OneCommand'
    <3>1. ASSUME NEW m \in Nodes, NEW i \in DOMAIN commands'[m], NEW j \in DOMAIN commands'[m]
          PROVE  /\ hit[commands'[m][i].hit] = "sent" /\ HitOf[commands'[m][i].hit].node = m
                 /\ commands'[m][i].hit = commands'[m][j].hit => i = j
      <4>1. CASE commands'[m] = commands[m]
        BY <3>1, <4>1 DEF PublishedInv, OneCommand
      <4>2. CASE /\ i \in Nat /\ i + 1 \in DOMAIN commands[m] /\ commands'[m][i] = commands[m][i + 1]
                 /\ j \in Nat /\ j + 1 \in DOMAIN commands[m] /\ commands'[m][j] = commands[m][j + 1]
        <5>1. commands[m][i + 1].hit = commands[m][j + 1].hit => i + 1 = j + 1
          BY <4>2 DEF PublishedInv, OneCommand
        <5> QED
          BY <4>2, <5>1 DEF PublishedInv, OneCommand
      <4> QED
        BY <2>2, <4>1, <4>2
    <3> QED
      BY <2>1, <3>1 DEF OneCommand
  <2>4. ASSUME NEW h \in Hits, Pending(h)' PROVE Pending(h)
    <3>1. PICK m \in Nodes : m = HitOf[h].node
      BY <1>0
    <3>2. CASE hit[h] \in {"new", "batching"}
      BY <3>2 DEF Pending
    <3>3. CASE \E i \in DOMAIN commands'[m] : commands'[m][i].hit = h /\ ~commands'[m][i].executed
      <4>1. PICK i \in DOMAIN commands'[m] : commands'[m][i].hit = h /\ ~commands'[m][i].executed
        BY <3>3
      <4>2. \E j \in DOMAIN commands[m] : commands[m][j] = commands'[m][i]
        BY <2>2, <4>1
      <4> QED
        BY <3>1, <4>1, <4>2 DEF Pending
    <3> QED
      BY <2>1, <2>4, <3>1, <3>2, <3>3 DEF Pending
  <2> QED
    BY <2>1, <2>3, <2>4, PublishedKept
<1>5. ASSUME NEW n \in Nodes, Reconnect(n) PROVE PublishedInv'
  <2>1. /\ ~linked[n] /\ linked' = [linked EXCEPT ![n] = TRUE]
        /\ commands' = [commands EXCEPT ![n] =
                          [i \in DOMAIN commands[n] |-> [commands[n][i] EXCEPT !.executed = FALSE]]]
        /\ UNCHANGED <<hit, losses, published>>
    BY <1>5 DEF Reconnect
  <2>2. \A i \in DOMAIN commands[n] : [commands[n][i] EXCEPT !.executed = FALSE].hit = commands[n][i].hit
    <3>1. \A i \in DOMAIN commands[n] : commands[n][i] \in Commands
      BY <1>0, SeqFacts
    <3> QED
      BY <3>1 DEF Commands
  <2>3. \A m \in Nodes : /\ m # n => commands'[m] = commands[m]
                         /\ DOMAIN commands'[m] = DOMAIN commands[m]
                         /\ \A i \in DOMAIN commands[m] : commands'[m][i].hit = commands[m][i].hit
    BY <1>0, <2>1, <2>2
  <2>4. OneCommand'
    BY <2>1, <2>3 DEF PublishedInv, OneCommand
  <2>5. \A h \in Hits : /\ Pending(h)' => Pending(h) \/ ~linked[HitOf[h].node]
                        /\ linked'[HitOf[h].node] \/ ~linked[HitOf[h].node]
    BY <1>0, <2>1, <2>3 DEF Pending
  <2> QED
    BY <2>1, <2>4, <2>5, PublishedKept
<1>6. ASSUME NEW n \in Nodes, GiveUp(n) PROVE PublishedInv'
  <2>1. commands' = [commands EXCEPT ![n] = <<>>] /\ UNCHANGED <<hit, linked, losses, published>>
    BY <1>6 DEF GiveUp
  <2>2. \A m \in Nodes : commands'[m] = commands[m] \/ DOMAIN commands'[m] = {}
    BY <1>0, <2>1
  <2>3. OneCommand'
    BY <2>1, <2>2 DEF PublishedInv, OneCommand
  <2>4. \A h \in Hits : Pending(h)' => Pending(h)
    BY <1>0, <2>1, <2>2 DEF Pending
  <2> QED
    BY <2>1, <2>3, <2>4, PublishedKept
<1>7. ASSUME NEW n \in Nodes, CloseWrite(n) PROVE PublishedInv'
  <2>1. /\ linked' = [linked EXCEPT ![n] = FALSE]
        /\ losses' = [losses EXCEPT ![n] = losses[n] + 1]
        /\ UNCHANGED <<hit, commands, published>>
    BY <1>7 DEF CloseWrite
  <2>2. OneCommand' /\ \A h \in Hits : Pending(h)' => Pending(h)
    BY <2>1 DEF PublishedInv, OneCommand, Pending
  <2>3. \A m \in Nodes : \/ linked'[m] = linked[m] /\ losses'[m] = losses[m]
                         \/ losses'[m] = losses[m] + 1
    BY <1>0, <2>1
  <2> QED
    BY <1>0, <2>1, <2>2, <2>3, PublishedKept
<1>8. ASSUME NEW n \in Nodes,
             \/ CloseRead(n) \/ Subscribe(n) \/ SubscriberClose(n) \/ BroadcastNewLog(n)
             \/ CloseSockets(n)
      PROVE  PublishedInv'
  BY <1>1, <1>8 DEF CloseRead, Subscribe, SubscriberClose, BroadcastNewLog, CloseSockets, redisVars
<1>9. ASSUME NEW s \in Sockets,
             \/ Connection(s) \/ Disconnect(s) \/ Join(s) \/ \E room \in Rooms : Leave(s, room)
      PROVE  PublishedInv'
  BY <1>1, <1>9 DEF Connection, Disconnect, Join, Leave, redisVars
<1>10. CASE UNCHANGED vars
  BY <1>1, <1>10 DEF vars, redisVars
<1> QED
  BY <1>2, <1>3, <1>4, <1>5, <1>6, <1>7, <1>8, <1>9, <1>10, ExecutePublished
     DEF Next, LogApiHit

\* Redis publishes a hit once, and once more at most for each time that the connection
\* of its process was lost: commands that are sent again are the only duplicates.
THEOREM DuplicatesNeedLosses == Spec => []PublishedAgainOnlyByLoss
<1>1. Init => PublishedInv
  <2> SUFFICES ASSUME Init PROVE PublishedInv
    OBVIOUS
  <2>1. \A h \in Hits : {i \in DOMAIN published : published[i] = h} = {}
    BY DEF Init
  <2>2. \A h \in Hits : Times(h) = 0 /\ losses[HitOf[h].node] = 0
    BY <2>1, FS_EmptySet, RealtimeAssumption DEF Init, Times
  <2> QED
    BY <2>2 DEF Init, PublishedInv, OneCommand, PublishedAgainOnlyByLoss
<1>2. PublishedInv => PublishedAgainOnlyByLoss
  BY DEF PublishedInv
<1> QED
  BY <1>1, <1>2, InitType, NextType, NextPublished, PTL DEF Spec
-----------------------------------------------------------------------------
(* Who gets what. *)

LEMMA AppendKeeps ==
    ASSUME NEW S, NEW r \in Seq(S), NEW x \in S, NEW all, all = Append(r, x)
    PROVE  /\ \A i \in DOMAIN r : i \in DOMAIN all /\ all[i] = r[i]
           /\ \E i \in DOMAIN all : all[i] = x
<1> DEFINE k == Len(r)
<1>1. /\ k \in Nat /\ DOMAIN r = 1 .. k /\ all \in Seq(S) /\ Len(all) = k + 1
      /\ \A i \in 1 .. k : all[i] = r[i]
      /\ all[k + 1] = x
  BY AppendProperties, SeqFacts
<1>2. DOMAIN all = 1 .. Len(all)
  BY <1>1, SeqFacts
<1> HIDE DEF k
<1>3. DOMAIN all = 1 .. k + 1
  BY <1>1, <1>2
<1>4. \A i \in DOMAIN r : i \in DOMAIN all /\ all[i] = r[i]
  BY <1>1, <1>3
<1>5. k + 1 \in DOMAIN all /\ all[k + 1] = x
  BY <1>1, <1>3
<1>6. \E i \in DOMAIN all : all[i] = x
  BY <1>5
<1> QED
  BY <1>4, <1>6

LEMMA ConcatFacts ==
    ASSUME NEW S, NEW r \in Seq(S), NEW e \in Seq(S)
    PROVE  /\ \A i \in DOMAIN r : i \in DOMAIN (r \o e) /\ (r \o e)[i] = r[i]
           /\ \A i \in DOMAIN e : Len(r) + i \in DOMAIN (r \o e) /\ (r \o e)[Len(r) + i] = e[i]
           /\ \A i \in DOMAIN (r \o e) : i > Len(r) => i - Len(r) \in DOMAIN e
                                                       /\ (r \o e)[i] = e[i - Len(r)]
<1>1. /\ Len(r) \in Nat /\ Len(e) \in Nat
      /\ DOMAIN r = 1 .. Len(r) /\ DOMAIN e = 1 .. Len(e)
      /\ DOMAIN (r \o e) = 1 .. Len(r) + Len(e)
      /\ \A i \in 1 .. Len(r) + Len(e) : (r \o e)[i] = IF i <= Len(r) THEN r[i] ELSE e[i - Len(r)]
  BY ConcatProperties, SeqFacts
<1> DEFINE k == Len(r)
           l == Len(e)
           all == r \o e
<1> HIDE DEF k, l, all
<1>2. /\ k \in Nat /\ l \in Nat /\ DOMAIN r = 1 .. k /\ DOMAIN e = 1 .. l /\ DOMAIN all = 1 .. k + l
      /\ \A i \in 1 .. k + l : all[i] = IF i <= k THEN r[i] ELSE e[i - k]
  BY <1>1 DEF k, l, all
<1>3. \A i \in DOMAIN r : i \in DOMAIN all /\ all[i] = r[i]
  BY <1>2
<1>4. \A i \in DOMAIN e : k + i \in DOMAIN all /\ all[k + i] = e[i]
  BY <1>2
<1>5. \A i \in DOMAIN all : i > k => i - k \in DOMAIN e /\ all[i] = e[i - k]
  BY <1>2
<1> QED
  BY <1>3, <1>4, <1>5 DEF k, all

\* A socket that is in a room of the hit gets a copy; one that is not in "logs" gets
\* none but in the room of the hit's client.
LEMMA EmitsReach ==
    ASSUME TypeOK, NEW i \in 1 .. Len(published), NEW joined
    PROVE  LET c == HitOf[published[i]].client
           IN  /\ joined \cap {"logs", c} # {} => 1 \in DOMAIN Emits(i, joined)
               /\ "logs" \notin joined =>
                    Emits(i, joined) = <<>> \/ (c \in joined /\ Emits(i, joined) = << <<i, c>> >>)
<1> DEFINE c == HitOf[published[i]].client
           S == (1 .. Len(published)) \X Rooms
           x == <<i, "logs">>
           y == <<i, c>>
           first == Emit(i, "logs", joined)
           second == Emit(i, c, joined)
<1>1. published[i] \in Hits
  BY ElementOfSeq DEF TypeOK
<1>2. x \in S /\ y \in S /\ Emits(i, joined) = first \o second
      /\ first = (IF "logs" \in joined THEN <<x>> ELSE <<>>)
      /\ second = (IF c \in joined THEN <<y>> ELSE <<>>)
  BY <1>1, RealtimeAssumption DEF Rooms, Emits, Emit
<1> HIDE DEF c, S, x, y, first, second
<1>3. /\ first \in Seq(S) /\ second \in Seq(S)
      /\ <<>> \in Seq(S) /\ <<y>> \in Seq(S)
      /\ "logs" \in joined => 1 \in DOMAIN first
      /\ c \in joined => 1 \in DOMAIN second
      /\ "logs" \notin joined => Len(first) = 0
  BY <1>2
<1>4. ASSUME joined \cap {"logs", c} # {} PROVE 1 \in DOMAIN Emits(i, joined)
  <2>1. CASE "logs" \in joined
    BY <1>2, <1>3, <2>1, ConcatFacts
  <2>2. CASE "logs" \notin joined
    <3>1. 1 \in DOMAIN second /\ Len(first) = 0
      BY <1>3, <1>4, <2>2
    <3>2. Len(first) + 1 \in DOMAIN (first \o second)
      BY <1>3, <3>1, ConcatFacts
    <3> QED
      BY <1>2, <3>1, <3>2
  <2> QED
    BY <2>1, <2>2
<1>5. ASSUME "logs" \notin joined
      PROVE  Emits(i, joined) = <<>> \/ (c \in joined /\ Emits(i, joined) = << <<i, c>> >>)
  <2>1. first = <<>> /\ <<>> \o second = second
    BY <1>2, <1>3, <1>5, ConcatEmptySeq
  <2> QED
    BY <1>2, <2>1 DEF y
<1> QED
  BY <1>4, <1>5 DEF c

\* A socket is in no room but "logs" and its client's, and its process broadcasts as
\* long as it is connected.
SocketsInv ==
    \A s \in Sockets : /\ rooms[s] \subseteq {"logs", SocketOf[s].client}
                       /\ s \in connected => io[SocketOf[s].node]

LEMMA NextSockets == TypeOK /\ SocketsInv /\ [Next]_vars => SocketsInv'
<1> SUFFICES ASSUME TypeOK, SocketsInv, [Next]_vars PROVE SocketsInv'
  OBVIOUS
<1>1. DOMAIN rooms = Sockets /\ DOMAIN io = Nodes
  BY DEF TypeOK
<1>2. ASSUME UNCHANGED <<io, connected, rooms>> PROVE SocketsInv'
  BY <1>2 DEF SocketsInv
<1>3. ASSUME NEW h \in Hits, LogApiHit(h) PROVE SocketsInv'
  BY <1>2, <1>3 DEF LogApiHit, AddToBatch, Publish, socketVars
<1>4. ASSUME NEW n \in Nodes,
             \/ Execute(n) \/ Answered(n) \/ CloseWrite(n) \/ CloseRead(n) \/ Reconnect(n)
             \/ GiveUp(n) \/ Subscribe(n) \/ SubscriberClose(n) \/ BroadcastNewLog(n)
      PROVE  SocketsInv'
  BY <1>2, <1>4 DEF Execute, Answered, CloseWrite, CloseRead, Reconnect, GiveUp, Subscribe,
                    SubscriberClose, BroadcastNewLog, socketVars
<1>5. ASSUME NEW n \in Nodes, CloseSockets(n) PROVE SocketsInv'
  BY <1>1, <1>5 DEF CloseSockets, SocketsInv
<1>6. ASSUME NEW s \in Sockets,
             \/ Connection(s) \/ Disconnect(s) \/ Join(s) \/ \E room \in Rooms : Leave(s, room)
      PROVE  SocketsInv'
  BY <1>1, <1>6 DEF Connection, Disconnect, Join, Leave, SocketsInv
<1>7. CASE UNCHANGED vars
  BY <1>2, <1>7 DEF vars, socketVars
<1> QED
  BY <1>3, <1>4, <1>5, <1>6, <1>7 DEF Next

LEMMA InitSockets == Init => SocketsInv
BY DEF Init, SocketsInv

\* What a socket has been sent in a step.
New(s) == {received'[s][i] : i \in {j \in DOMAIN received'[s] : j > Len(received[s])}}

\* Nobody is sent another client's hit who has not joined the room "logs": whatever room
\* a socket asks for, it is in no other client's.
OnlyOwnHits ==
    [][\A s \in Sockets : "logs" \notin rooms[s] =>
         \A m \in New(s) : HitOf[published[m[1]]].client = SocketOf[s].client]_vars

\* The connection handler lets a socket into its own client's room and "subscribe" into no
\* client's, so that broadcastNewLog shows it no other client's hits.
THEOREM OwnHitsOnly == Spec => OnlyOwnHits
<1>1. ASSUME TypeOK, SocketsInv, NEW s \in Sockets, NEW n \in Nodes, BroadcastNewLog(n),
             "logs" \notin rooms[s], NEW m \in New(s)
      PROVE  HitOf[published[m[1]]].client = SocketOf[s].client
  <2> DEFINE S == (1 .. Len(published)) \X Rooms
             p == Head(wire[n])
             c == HitOf[published[p]].client
             r == received[s]
             e == Emits(p, rooms[s])
  <2>1. wire[n] \in Seq(1 .. Len(published)) /\ wire[n] # <<>> /\ r \in Seq(S)
    BY <1>1 DEF BroadcastNewLog, TypeOK
  <2>2. p \in 1 .. Len(published)
    BY <2>1, TailFacts
  <2>3. e \in Seq(S) /\ (e = <<>> \/ (c \in rooms[s] /\ e = << <<p, c>> >>))
    BY <1>1, <2>2, EmitsFacts, EmitsReach
  <2>4. PICK i \in DOMAIN received'[s] : i > Len(r) /\ m = received'[s][i]
    BY <1>1 DEF New
  <2> HIDE DEF S, p, e
  <2>5. received'[s] = r \/ received'[s] = r \o e
    BY <1>1 DEF BroadcastNewLog, p, e
  <2>6. received'[s] # r
    BY <2>1, <2>4, SeqFacts
  <2>7. i - Len(r) \in DOMAIN e /\ m = e[i - Len(r)]
    <3>1. \A j \in DOMAIN (r \o e) : j > Len(r) => j - Len(r) \in DOMAIN e
                                                   /\ (r \o e)[j] = e[j - Len(r)]
      BY SMTT(20), <2>1, <2>3, ConcatFacts
    <3>2. received'[s] = r \o e
      BY <2>5, <2>6
    <3> HIDE DEF r
    <3> QED
      BY <2>4, <3>1, <3>2
  <2>8. m = <<p, c>> /\ c \in rooms[s]
    BY <2>3, <2>7
  <2>9. c = SocketOf[s].client
    BY <1>1, <2>8 DEF SocketsInv
  <2> QED
    BY <2>8, <2>9
<1>2. ASSUME TypeOK, NEW s \in Sockets, NEW m \in New(s), [Next]_vars
      PROVE  \E n \in Nodes : BroadcastNewLog(n)
  <2> SUFFICES ASSUME \A n \in Nodes : ~BroadcastNewLog(n) PROVE FALSE
    OBVIOUS
  <2>1. received'[s] = received[s] \/ DOMAIN received'[s] = {}
    <3>1. received' = received \/ \E x \in Sockets : received' = [received EXCEPT ![x] = <<>>]
      BY <1>2 DEF Next, LogApiHit, AddToBatch, Publish, Execute, Answered, CloseWrite, CloseRead,
                  Reconnect, GiveUp, Subscribe, SubscriberClose, CloseSockets, Connection,
                  Disconnect, Join, Leave, vars, socketVars
    <3>2. DOMAIN received = Sockets
      BY <1>2 DEF TypeOK
    <3> QED
      BY <3>1, <3>2
  <2>2. PICK i \in DOMAIN received'[s] : i > Len(received[s])
    BY <1>2 DEF New
  <2>3. received[s] \in Seq((1 .. Len(published)) \X Rooms)
    BY <1>2 DEF TypeOK
  <2> QED
    BY <2>1, <2>2, <2>3, SeqFacts
<1>3. TypeOK /\ SocketsInv /\ [Next]_vars =>
        [\A s \in Sockets : "logs" \notin rooms[s] =>
           \A m \in New(s) : HitOf[published[m[1]]].client = SocketOf[s].client]_vars
  BY <1>1, <1>2
<1> QED
  BY <1>3, InitType, NextType, InitSockets, NextSockets, PTL DEF Spec, OnlyOwnHits

-----------------------------------------------------------------------------
(* No hit is lost on the way. *)

OnTheWire(h, s) ==
    \E i \in DOMAIN wire[SocketOf[s].node] : published[wire[SocketOf[s].node][i]] = h

\* The socket has the hit, or it is somewhere on its way there.
Expects(h, s) == Pending(h) \/ OnTheWire(h, s) \/ Got(h, s)

\* As long as what lies between them lasts, no step loses a hit that a socket
\* expects: not a command that is answered or overtaken, not a message that is broadcast,
\* nor anything that happens to other processes and sockets.  HitsAreDelivered adds that
\* it does not stay on its way.
NothingIsLost ==
    [][\A h \in Hits, s \in Sockets :
         Lasts(h, s) /\ Lasts(h, s)' /\ Expects(h, s) => Expects(h, s)']_vars

\* An unexecuted command stays until Redis executes it, which publishes the hit.
LEMMA PendingKept ==
    ASSUME TypeOK, [Next]_vars, NEW h \in Hits, Pending(h),
           linked[HitOf[h].node], isConnected[HitOf[h].node],
           \A n \in Nodes : ~Execute(n)
    PROVE  Pending(h)'
<1> DEFINE to == HitOf[h].node
<1>1. /\ to \in Nodes /\ DOMAIN commands = Nodes /\ DOMAIN hit = Hits
      /\ \A n \in Nodes : commands[n] \in Seq(Commands)
      /\ \A g \in Hits : HitOf[g].node \in Nodes
  BY RealtimeAssumption DEF TypeOK, Commands
<1>2. ASSUME UNCHANGED <<hit, commands>> PROVE Pending(h)'
  BY <1>2 DEF Pending
<1>3. ASSUME NEW g \in Hits, AddToBatch(g) PROVE Pending(h)'
  BY <1>1, <1>3 DEF AddToBatch, Pending, redisVars
<1>4. ASSUME NEW g \in Hits, Publish(g) PROVE Pending(h)'
  <2> DEFINE n == HitOf[g].node
             command == [hit |-> g, executed |-> FALSE]
  <2>1. /\ n \in Nodes /\ command \in Commands /\ command.hit = g /\ ~command.executed
        /\ \A x \in Hits \ {g} : hit'[x] = hit[x]
    BY <1>1, <1>4 DEF Publish, Commands
  <2>2. CASE ~isConnected[n]
    BY <1>4, <2>1, <2>2 DEF Publish, Pending
  <2>3. CASE isConnected[n]
    <3>1. commands' = [commands EXCEPT ![n] = Append(commands[n], command)]
      BY <1>4, <2>3 DEF Publish
    <3> HIDE DEF command
    <3>2. /\ \A i \in DOMAIN commands[n] : i \in DOMAIN commands'[n] /\ commands'[n][i] = commands[n][i]
          /\ \E i \in DOMAIN commands'[n] : commands'[n][i] = command
      <4>1. commands'[n] = Append(commands[n], command)
        BY <1>1, <2>1, <3>1
      <4>2. n \in Nodes /\ commands[n] \in Seq(Commands) /\ command \in Commands
        BY <1>1, <2>1
      <4> HIDE DEF n
      <4> QED
        BY <4>1, <4>2, AppendKeeps
    <3>3. \A m \in Nodes \ {n} : commands'[m] = commands[m]
      BY <1>1, <3>1
    <3>4. CASE h = g
      BY <2>1, <3>2, <3>4 DEF Pending
    <3>5. CASE h # g /\ hit[h] \in {"new", "batching"}
      BY <2>1, <3>5 DEF Pending
    <3>6. CASE \E i \in DOMAIN commands[to] : commands[to][i].hit = h /\ ~commands[to][i].executed
      BY SMTT(20), <1>1, <3>2, <3>3, <3>6 DEF Pending
    <3> QED
      BY <3>4, <3>5, <3>6 DEF Pending
  <2> QED
    BY <2>2, <2>3
<1>5. ASSUME NEW n \in Nodes, Answered(n) PROVE Pending(h)'
  <2>1. /\ commands[n] # <<>> /\ Head(commands[n]).executed /\ hit' = hit
        /\ commands' = [commands EXCEPT ![n] = Tail(commands[n])]
    BY <1>5 DEF Answered
  <2>2. CASE \E i \in DOMAIN commands[to] : commands[to][i].hit = h /\ ~commands[to][i].executed
    <3>1. PICK i \in DOMAIN commands[to] : commands[to][i].hit = h /\ ~commands[to][i].executed
      BY <2>2
    <3>2. CASE n # to
      BY <1>1, <2>1, <3>1, <3>2 DEF Pending
    <3>3. CASE n = to
      <4>1. Head(commands[n]) = commands[n][1] /\ Len(commands[n]) \in Nat
            /\ DOMAIN commands[n] = 1 .. Len(commands[n])
            /\ Tail(commands[n]) \in Seq(Commands) /\ Len(Tail(commands[n])) = Len(commands[n]) - 1
            /\ \A j \in 1 .. Len(Tail(commands[n])) : Tail(commands[n])[j] = commands[n][j + 1]
        BY <1>1, <2>1, TailFacts, SeqFacts, HeadTailProperties
      <4>2. DOMAIN Tail(commands[n]) = 1 .. Len(commands[n]) - 1
        BY <4>1, SeqFacts
      <4>3. i # 1 /\ commands'[n] = Tail(commands[n])
        BY <1>1, <2>1, <3>1, <3>3, <4>1
      <4>4. i - 1 \in DOMAIN commands'[n] /\ commands'[n][i - 1] = commands[n][i]
        BY <3>1, <3>3, <4>1, <4>2, <4>3
      <4> QED
        BY <3>1, <3>3, <4>4 DEF Pending
    <3> QED
      BY <3>2, <3>3
  <2> QED
    BY <2>1, <2>2 DEF Pending
<1>6. ASSUME NEW n \in Nodes, Reconnect(n) \/ GiveUp(n) PROVE Pending(h)'
  <2>1. n # to /\ hit' = hit /\ commands'[to] = commands[to]
    BY <1>1, <1>6 DEF Reconnect, GiveUp
  <2> QED
    BY <2>1 DEF Pending
<1>7. ASSUME NEW n \in Nodes,
             \/ CloseWrite(n) \/ CloseRead(n) \/ Subscribe(n) \/ SubscriberClose(n)
             \/ BroadcastNewLog(n) \/ CloseSockets(n)
      PROVE  Pending(h)'
  BY <1>2, <1>7 DEF CloseWrite, CloseRead, Subscribe, SubscriberClose, BroadcastNewLog,
                    CloseSockets, redisVars
<1>8. ASSUME NEW s \in Sockets,
             \/ Connection(s) \/ Disconnect(s) \/ Join(s) \/ \E room \in Rooms : Leave(s, room)
      PROVE  Pending(h)'
  BY <1>2, <1>8 DEF Connection, Disconnect, Join, Leave, redisVars
<1>9. CASE UNCHANGED vars
  BY <1>2, <1>9 DEF vars, redisVars
<1> QED
  BY <1>3, <1>4, <1>5, <1>6, <1>7, <1>8, <1>9 DEF Next, LogApiHit

\* What is published goes on the wire of every process that subscribes.
LEMMA ExecuteExpected ==
    ASSUME TypeOK, NEW n \in Nodes, Execute(n), NEW h \in Hits, NEW s \in Sockets,
           subscribed[SocketOf[s].node], Expects(h, s)
    PROVE  Expects(h, s)'
<1> DEFINE to == SocketOf[s].node
           k == Len(published)
<1>1. PICK i \in DOMAIN commands[n] :
        /\ commands' = [commands EXCEPT ![n][i].executed = TRUE]
        /\ published' = Append(published, commands[n][i].hit)
  BY DEF Execute
<1>2. /\ commands \in [Nodes -> Seq(Commands)] /\ commands[n] \in Seq(Commands)
      /\ to \in Nodes /\ HitOf[h].node \in Nodes /\ published \in Seq(Hits)
      /\ wire[to] \in Seq(1 .. k) /\ hit' = hit /\ received' = received
      /\ received[s] \in Seq((1 .. k) \X Rooms)
  BY RealtimeAssumption DEF TypeOK, Commands, Execute, socketVars
<1>3. commands[n][i] \in Commands /\ commands[n][i].hit \in Hits
  <2>1. commands[n][i] \in Commands
    BY <1>2, SeqFacts
  <2> QED
    BY <2>1 DEF Commands
<1>4. /\ k \in Nat /\ DOMAIN published = 1 .. k /\ published' \in Seq(Hits) /\ Len(published') = k + 1
      /\ published'[k + 1] = commands[n][i].hit
      /\ \A j \in 1 .. k : published'[j] = published[j]
  BY <1>1, <1>2, <1>3, AppendProperties, SeqFacts
<1>5. wire'[to] = Append(wire[to], k + 1)
  BY <1>2, <1>4 DEF Execute
<1> HIDE DEF k
<1>6. wire[to] \in Seq(1 .. k + 1) /\ \A j \in DOMAIN wire[to] : wire[to][j] \in 1 .. k
  <2>1. \A j \in 1 .. Len(wire[to]) : wire[to][j] \in 1 .. k
    BY <1>2, ElementOfSeq
  <2> QED
    BY <1>2, <1>4, <2>1, SeqFacts, SeqMonotonic
<1>7. /\ \A j \in DOMAIN wire[to] : j \in DOMAIN wire'[to] /\ wire'[to][j] = wire[to][j]
      /\ \E j \in DOMAIN wire'[to] : wire'[to][j] = k + 1
  <2> DEFINE x == k + 1
             S == 1 .. k + 1
             old == wire[to]
             new == wire'[to]
  <2>1. x \in S /\ old \in Seq(S) /\ new = Append(old, x)
    BY <1>4, <1>5, <1>6
  <2> HIDE DEF x, S, old, new
  <2>2. /\ \A j \in DOMAIN old : j \in DOMAIN new /\ new[j] = old[j]
        /\ \E j \in DOMAIN new : new[j] = x
    BY <2>1, AppendKeeps
  <2> QED
    BY <2>2 DEF x, old, new
<1>8. CASE Got(h, s)
  <2>1. PICK j \in DOMAIN received[s] : published[received[s][j][1]] = h
    BY <1>8 DEF Got
  <2>2. received[s][j] \in (1 .. k) \X Rooms
    BY <1>2, <2>1, SeqFacts
  <2>3. received[s][j][1] \in 1 .. k
    BY <2>2
  <2> QED
    BY <1>2, <1>4, <2>1, <2>3 DEF Got, Expects
<1>9. CASE OnTheWire(h, s)
  BY <1>4, <1>6, <1>7, <1>9 DEF OnTheWire, Expects
<1>10. CASE Pending(h)
  <2>1. CASE hit[h] \in {"new", "batching"}
    BY <1>2, <2>1 DEF Pending, Expects
  <2>2. CASE commands[n][i].hit = h
    BY <1>4, <1>7, <2>2 DEF OnTheWire, Expects
  <2>3. CASE /\ commands[n][i].hit # h
             /\ \E j \in DOMAIN commands[HitOf[h].node] :
                  /\ commands[HitOf[h].node][j].hit = h
                  /\ ~commands[HitOf[h].node][j].executed
    <3>1. PICK m \in Nodes : m = HitOf[h].node
      BY <1>2
    <3>2. PICK j \in DOMAIN commands[m] : commands[m][j].hit = h /\ ~commands[m][j].executed
      BY <2>3, <3>1
    <3>3. j \in DOMAIN commands'[m] /\ commands'[m][j] = commands[m][j]
      <4>1. CASE m # n
        BY <1>1, <1>2, <3>2, <4>1
      <4>2. CASE m = n
        <5>1. j # i
          BY <2>3, <3>2, <4>2
        <5>2. /\ DOMAIN commands'[n] = DOMAIN commands[n]
              /\ \A x \in DOMAIN commands[n] \ {i} : commands'[n][x] = commands[n][x]
          BY <1>1, <1>2
        <5> QED
          BY <3>2, <4>2, <5>1, <5>2
      <4> QED
        BY <4>1, <4>2
    <3> QED
      BY <3>1, <3>2, <3>3 DEF Pending, Expects
  <2> QED
    BY <1>10, <2>1, <2>2, <2>3 DEF Pending
<1> QED
  BY <1>8, <1>9, <1>10 DEF Expects

\* A message that is broadcast reaches the sockets in its rooms.
LEMMA BroadcastExpected ==
    ASSUME TypeOK, SocketsInv, NEW n \in Nodes, BroadcastNewLog(n), NEW h \in Hits,
           NEW s \in Sockets, Lasts(h, s), OnTheWire(h, s) \/ Got(h, s)
    PROVE  OnTheWire(h, s)' \/ Got(h, s)'
<1> DEFINE to == SocketOf[s].node
           S == (1 .. Len(published)) \X Rooms
           p == Head(wire[n])
           e == Emits(p, rooms[s])
           r == received[s]
<1>1. /\ wire[n] \in Seq(1 .. Len(published)) /\ wire[n] # <<>> /\ r \in Seq(S)
      /\ wire' = [wire EXCEPT ![n] = Tail(wire[n])] /\ DOMAIN wire = Nodes
      /\ to \in Nodes /\ published' = published
      /\ received'[s] = IF io[n] /\ to = n THEN r \o e ELSE r
  BY RealtimeAssumption DEF BroadcastNewLog, TypeOK, redisVars
<1>2. p \in 1 .. Len(published)
  BY <1>1, TailFacts
<1>3. e \in Seq(S) /\ \A a \in DOMAIN e : e[a][1] = p
  BY <1>2, EmitsFacts
<1>4. CASE Got(h, s)
  <2>1. PICK i \in DOMAIN r : published[r[i][1]] = h
    BY <1>4 DEF Got
  <2> HIDE DEF e, r, S
  <2>2. i \in DOMAIN received'[s] /\ received'[s][i] = r[i]
    BY <1>1, <1>3, <2>1, ConcatFacts
  <2> QED
    BY <1>1, <2>1, <2>2 DEF Got
<1>5. CASE OnTheWire(h, s) /\ n # to
  BY <1>1, <1>5 DEF OnTheWire
<1>6. CASE OnTheWire(h, s) /\ n = to
  <2>1. PICK i \in DOMAIN wire[n] : published[wire[n][i]] = h
    BY <1>6 DEF OnTheWire
  <2>2. /\ p = wire[n][1] /\ Len(wire[n]) \in Nat /\ DOMAIN wire[n] = 1 .. Len(wire[n])
        /\ Tail(wire[n]) \in Seq(1 .. Len(published)) /\ Len(Tail(wire[n])) = Len(wire[n]) - 1
        /\ \A j \in 1 .. Len(Tail(wire[n])) : Tail(wire[n])[j] = wire[n][j + 1]
    BY <1>1, TailFacts, SeqFacts, HeadTailProperties
  <2>3. DOMAIN Tail(wire[n]) = 1 .. Len(wire[n]) - 1
    BY <2>2, SeqFacts
  <2>4. CASE i # 1
    <3>1. i - 1 \in DOMAIN Tail(wire[n]) /\ Tail(wire[n])[i - 1] = wire[n][i]
      BY <2>1, <2>2, <2>3, <2>4
    <3> QED
      BY <1>1, <1>6, <2>1, <3>1 DEF OnTheWire
  <2>5. CASE i = 1
    <3>1. published[p] = h
      BY <2>1, <2>2, <2>5
    <3>2. io[n] /\ rooms[s] \cap {"logs", HitOf[published[p]].client} # {}
      BY <1>6, <3>1 DEF Lasts, SocketsInv
    <3>3. 1 \in DOMAIN e
      BY <1>2, <3>2, EmitsReach
    <3>4. received'[s] = r \o e
      BY <1>1, <1>6, <3>2
    <3> HIDE DEF e, r, S
    <3>5. Len(r) + 1 \in DOMAIN received'[s] /\ received'[s][Len(r) + 1] = e[1]
      BY <1>1, <1>3, <3>3, <3>4, ConcatFacts
    <3>6. received'[s][Len(r) + 1][1] = p
      BY <1>3, <3>3, <3>5
    <3> QED
      BY <1>1, <3>1, <3>5, <3>6 DEF Got
  <2> QED
    BY <2>4, <2>5
<1> QED
  BY <1>4, <1>5, <1>6

\* No other step touches what is on the wire of a subscriber that stays, or what a
\* socket that stays has got.
LEMMA FeedKept ==
    ASSUME TypeOK, [Next]_vars, NEW h \in Hits, NEW s \in Sockets,
           s \in connected, subscribed'[SocketOf[s].node],
           \A n \in Nodes : ~Execute(n) /\ ~BroadcastNewLog(n), OnTheWire(h, s) \/ Got(h, s)
    PROVE  OnTheWire(h, s)' \/ Got(h, s)'
<1> DEFINE to == SocketOf[s].node
<1>1. /\ to \in Nodes /\ DOMAIN wire = Nodes /\ DOMAIN subscribed = Nodes
      /\ DOMAIN received = Sockets
  BY RealtimeAssumption DEF TypeOK
<1>2. published' = published /\ wire'[to] = wire[to] /\ received'[s] = received[s]
  <2>1. ASSUME NEW g \in Hits, LogApiHit(g)
        PROVE  published' = published /\ wire'[to] = wire[to] /\ received'[s] = received[s]
    BY <2>1 DEF LogApiHit, AddToBatch, Publish, redisVars, feedVars, socketVars
  <2>2. ASSUME NEW n \in Nodes,
               \/ Answered(n) \/ CloseWrite(n) \/ CloseRead(n) \/ Reconnect(n) \/ GiveUp(n)
               \/ Subscribe(n) \/ CloseSockets(n)
        PROVE  published' = published /\ wire'[to] = wire[to] /\ received'[s] = received[s]
    BY <2>2 DEF Answered, CloseWrite, CloseRead, Reconnect, GiveUp, Subscribe, CloseSockets,
                redisVars, feedVars, socketVars
  <2>3. ASSUME NEW n \in Nodes, SubscriberClose(n)
        PROVE  published' = published /\ wire'[to] = wire[to] /\ received'[s] = received[s]
    BY <1>1, <2>3 DEF SubscriberClose, redisVars, socketVars
  <2>4. ASSUME NEW x \in Sockets,
               \/ Connection(x) \/ Disconnect(x) \/ Join(x) \/ \E room \in Rooms : Leave(x, room)
        PROVE  published' = published /\ wire'[to] = wire[to] /\ received'[s] = received[s]
    BY <1>1, <2>4 DEF Connection, Disconnect, Join, Leave, redisVars, feedVars
  <2>5. CASE UNCHANGED vars
    BY <2>5 DEF vars, redisVars, feedVars, socketVars
  <2> QED
    BY <2>1, <2>2, <2>3, <2>4, <2>5 DEF Next
<1> QED
  BY <1>2 DEF OnTheWire, Got

\* From the request that is logged to the socket: what is published on api:log:new, and
\* what the subscription hands to broadcastNewLog, is not lost while the connections last.
THEOREM HitsAreNotLost == Spec => NothingIsLost
<1>1. ASSUME TypeOK, SocketsInv, [Next]_vars, NEW h \in Hits, NEW s \in Sockets,
             Lasts(h, s), Lasts(h, s)', Expects(h, s)
      PROVE  Expects(h, s)'
  <2>1. /\ linked[HitOf[h].node] /\ isConnected[HitOf[h].node] /\ s \in connected
        /\ subscribed[SocketOf[s].node] /\ subscribed'[SocketOf[s].node]
    BY <1>1 DEF Lasts
  <2>2. CASE \E n \in Nodes : Execute(n)
    BY <1>1, <2>1, <2>2, ExecuteExpected
  <2>3. CASE \E n \in Nodes : BroadcastNewLog(n)
    <3>1. Pending(h) => Pending(h)'
      BY <2>3 DEF BroadcastNewLog, redisVars, Pending
    <3> QED
      BY <1>1, <2>3, <3>1, BroadcastExpected DEF Expects
  <2>4. CASE \A n \in Nodes : ~Execute(n) /\ ~BroadcastNewLog(n)
    BY <1>1, <2>1, <2>4, PendingKept, FeedKept DEF Expects
  <2> QED
    BY <2>2, <2>3, <2>4
<1>2. TypeOK /\ SocketsInv /\ [Next]_vars =>
        [\A h \in Hits, s \in Sockets :
           Lasts(h, s) /\ Lasts(h, s)' /\ Expects(h, s) => Expects(h, s)']_vars
  BY <1>1
<1> QED
  BY <1>2, InitType, NextType, InitSockets, NextSockets, PTL DEF Spec, NothingIsLost
=============================================================================
