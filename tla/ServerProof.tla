---------------------------- MODULE ServerProof ----------------------------
(***************************************************************************)
(* Theorems about Server, for any connections, signals, deployments and    *)
(* number of reconnection attempts: type correctness, that what is served  *)
(* outlives neither the database nor Redis, and that the intervals of a    *)
(* stream end with it or are those of a peer that left early.              *)
(***************************************************************************)
EXTENDS Server, TLAPS

-----------------------------------------------------------------------------
(* Type correctness. *)

ClientType == [status : Statuses, attempts : 0 .. MaxReconnectAttempts + 1]

\* Only a client that has been given up has used all its attempts.
AttemptsLeft ==
    \A c \in RedisClients :
      client[c].status # "end" => client[c].attempts <= MaxReconnectAttempts

\* What is not the Redis clients.
OthersOK ==
    /\ phase \in {"database", "redis", "connect", "prewarm", "listen", "subscribe", "running"}
    /\ exited \in {"no", "0", "1", "killed"}
    /\ {writeClient, readClient, isConnected, dbOpen, listening} \subseteq BOOLEAN
    /\ open \subseteq Conns
    /\ entering \subseteq Streams /\ intervals \subseteq Streams /\ leftEarly \subseteq Streams
    /\ handler \in [Signals -> {"none", "cron", "drain", "database", "quitWrite",
                                "quitRead"}]

Deployment == [clients |-> RedisClients, sentinel |-> viaSentinel]

ClientsOK ==
    /\ Deployment \in Deployments
    /\ client \in [RedisClients -> ClientType]
    /\ pending \subseteq RedisClients
    /\ AttemptsLeft

LEMMA TypeParts == TypeOK /\ AttemptsLeft <=> OthersOK /\ ClientsOK
BY DEF TypeOK, OthersOK, ClientsOK, ClientType, Deployment

LEMMA InitType == Init => OthersOK /\ ClientsOK
<1> SUFFICES ASSUME Init PROVE OthersOK /\ ClientsOK
  OBVIOUS
<1>1. OthersOK
  BY DEF Init, OthersOK
<1>2. PICK d \in Deployments :
        /\ client = [c \in d.clients |-> [status |-> "none", attempts |-> 0]]
        /\ viaSentinel = d.sentinel
  BY DEF Init
<1>3. [status |-> "none", attempts |-> 0] \in ClientType
  BY ServerAssumption DEF ClientType, Statuses
<1>4. RedisClients = d.clients /\ Deployment = d
  BY <1>2, ServerAssumption DEF RedisClients, Deployment
<1>5. client \in [RedisClients -> ClientType] /\ AttemptsLeft
  BY <1>2, <1>3, <1>4, ServerAssumption DEF AttemptsLeft
<1> QED
  BY <1>1, <1>4, <1>5 DEF Init, ClientsOK

\* One client changes.
LEMMA ClientChanges ==
    ASSUME ClientsOK, NEW c \in RedisClients, NEW new \in ClientType,
           new.status # "end" => new.attempts <= MaxReconnectAttempts,
           client' = [client EXCEPT ![c] = new], pending' \subseteq pending,
           UNCHANGED viaSentinel
    PROVE  ClientsOK'
<1>1. RedisClients' = RedisClients /\ Deployment' = Deployment
  BY DEF RedisClients, Deployment
<1>2. client' \in [RedisClients -> ClientType]
  BY DEF ClientsOK
<1>3. AttemptsLeft'
  BY <1>1 DEF ClientsOK, AttemptsLeft
<1> QED
  BY <1>1, <1>2, <1>3 DEF ClientsOK

\* What a Redis client does.
ClientStep(c) ==
    ClientConnects(c) \/ ClientReady(c) \/ ClientClose(c) \/ ClientReconnects(c)

LEMMA ClientStepType ==
    ASSUME OthersOK, ClientsOK, NEW c \in RedisClients,
           ClientStep(c)
    PROVE  OthersOK' /\ ClientsOK'
<1>1. client[c] \in ClientType /\ RedisClients = DOMAIN client /\ MaxReconnectAttempts \in Nat
  BY ServerAssumption DEF ClientsOK, RedisClients
<1>2. client[c].status # "end" => client[c].attempts <= MaxReconnectAttempts
  BY DEF ClientsOK, AttemptsLeft
<1>3. CASE ClientReady(c)
  <2>1. [status |-> "ready", attempts |-> 0] \in ClientType
    BY <1>1 DEF ClientType, Statuses
  <2>2. /\ client' = [client EXCEPT ![c] = [status |-> "ready", attempts |-> 0]]
        /\ pending' \subseteq pending /\ UNCHANGED viaSentinel
    BY <1>3 DEF ClientReady
  <2>3. [status |-> "ready", attempts |-> 0].attempts <= MaxReconnectAttempts
    BY <1>1
  <2>4. ClientsOK'
    BY <2>1, <2>2, <2>3, ClientChanges
  <2>5. OthersOK'
    BY <1>3 DEF ClientReady, OthersOK, httpVars, streamVars
  <2> QED
    BY <2>4, <2>5
<1>4. CASE ClientClose(c)
  <2> DEFINE new == IF Quitting(c) THEN [client[c] EXCEPT !.status = "end"]
                    ELSE AfterRetryStrategy(client[c].attempts + 1)
  <2>1. client[c].attempts \in 0 .. MaxReconnectAttempts
    BY <1>1, <1>2, <1>4 DEF ClientClose, ClientType
  <2>2. new \in ClientType /\ (new.status # "end" => new.attempts <= MaxReconnectAttempts)
    BY <1>1, <2>1 DEF AfterRetryStrategy, ClientType, Statuses
  <2>3. client' = [client EXCEPT ![c] = new] /\ UNCHANGED <<pending, viaSentinel>>
    BY <1>4 DEF ClientClose
  <2> HIDE DEF new
  <2>4. ClientsOK'
    BY <2>2, <2>3, ClientChanges
  <2>5. OthersOK'
    BY <1>4 DEF ClientClose, OthersOK, httpVars, streamVars
  <2> QED
    BY <2>4, <2>5
<1>5. CASE ClientReconnects(c)
  <2>1. [client[c] EXCEPT !.status = "connecting"] \in ClientType
    BY <1>1 DEF ClientType, Statuses
  <2>2. [client[c] EXCEPT !.status = "connecting"].attempts <= MaxReconnectAttempts
    BY <1>1, <1>2, <1>5 DEF ClientReconnects, ClientType
  <2>3. client' = [client EXCEPT ![c] = [client[c] EXCEPT !.status = "connecting"]]
    BY <1>5 DEF ClientReconnects
  <2>4. ClientsOK'
    BY <1>5, <2>1, <2>2, <2>3, ClientChanges DEF ClientReconnects
  <2>5. OthersOK'
    BY <1>5 DEF ClientReconnects, OthersOK, httpVars, streamVars
  <2> QED
    BY <2>4, <2>5
<1>6. CASE ClientConnects(c)
  <2>1. [client[c] EXCEPT !.status = "connect"] \in ClientType
    BY <1>1 DEF ClientType, Statuses
  <2>2. [client[c] EXCEPT !.status = "connect"].attempts <= MaxReconnectAttempts
    BY <1>1, <1>2, <1>6 DEF ClientConnects, ClientType
  <2>3. client' = [client EXCEPT ![c] = [client[c] EXCEPT !.status = "connect"]]
    BY <1>6 DEF ClientConnects
  <2>4. ClientsOK'
    BY <1>6, <2>1, <2>2, <2>3, ClientChanges DEF ClientConnects
  <2>5. OthersOK'
    BY <1>6 DEF ClientConnects, OthersOK, httpVars, streamVars
  <2> QED
    BY <2>4, <2>5
<1> QED
  BY <1>3, <1>4, <1>5, <1>6 DEF ClientStep

LEMMA ConnectType ==
    ASSUME OthersOK, ClientsOK, Connect
    PROVE  OthersOK' /\ ClientsOK'
<1>1. client' = [c \in RedisClients |-> [status |-> "connecting", attempts |-> 0]]
  BY DEF Connect
<1>2. [status |-> "connecting", attempts |-> 0] \in ClientType
  BY ServerAssumption DEF ClientType, Statuses
<1>3. RedisClients' = RedisClients /\ Deployment' = Deployment
  BY <1>1 DEF RedisClients, Deployment, Connect
<1>4. ClientsOK'
  BY <1>1, <1>2, <1>3, ServerAssumption DEF ClientsOK, AttemptsLeft, Connect
<1>5. OthersOK'
  BY DEF Connect, OthersOK, httpVars, streamVars
<1> QED
  BY <1>4, <1>5

\* The steps that are not a Redis client's.
LEMMA OtherStepsType ==
    ASSUME OthersOK, Next, ~Connect,
           ~\E c \in RedisClients : ClientStep(c)
    PROVE  OthersOK' /\ UNCHANGED <<viaSentinel, client, pending>>
<1>1. CASE Starting
  BY <1>1 DEF Starting, InitializeDatabase, InitializeDatabaseFails, ConnectFails, PrewarmAll,
              Listen, ListenFails, Subscribe, SubscribeFails, Exit, OthersOK, redisVars, httpVars,
              streamVars
<1>2. ASSUME NEW x \in Conns, Accept(x) \/ Finish(x)
      PROVE  OthersOK' /\ UNCHANGED <<viaSentinel, client, pending>>
  BY <1>2 DEF Accept, Finish, OthersOK, redisVars
<1>3. ASSUME NEW x \in Streams, Admit(x) \/ Reject(x)
      PROVE  OthersOK' /\ UNCHANGED <<viaSentinel, client, pending>>
  BY <1>3 DEF Admit, Reject, OthersOK, redisVars
<1>4. ASSUME NEW s \in Signals, Signal(s) \/ Closing(s)
      PROVE  OthersOK' /\ UNCHANGED <<viaSentinel, client, pending>>
  BY <1>4 DEF Signal, Closing, CloseServers, Drained, DatabaseClosed, WriteQuit, Disconnected,
              OthersOK, redisVars, httpVars, streamVars
<1>5. CASE ForcedExit
  BY <1>5 DEF ForcedExit, Exit, OthersOK, redisVars, httpVars, streamVars
<1> QED
  BY <1>1, <1>2, <1>3, <1>4, <1>5 DEF Next, ClientStep

LEMMA NextType == OthersOK /\ ClientsOK /\ [Next]_vars => OthersOK' /\ ClientsOK'
<1> SUFFICES ASSUME OthersOK, ClientsOK, [Next]_vars PROVE OthersOK' /\ ClientsOK'
  OBVIOUS
<1>1. ASSUME UNCHANGED <<viaSentinel, client, pending>> PROVE ClientsOK'
  BY <1>1 DEF ClientsOK, RedisClients, Deployment, AttemptsLeft
<1>2. CASE UNCHANGED vars
  BY <1>1, <1>2 DEF vars, streamVars, OthersOK
<1> QED
  BY <1>1, <1>2, ConnectType, ClientStepType, OtherStepsType

\* The process and its Redis clients keep their types; no client makes more attempts
\* than retryStrategy allows.
THEOREM TypeCorrect == Spec => []TypeOK
<1>1. OthersOK /\ ClientsOK => TypeOK
  BY TypeParts
<1> QED
  BY <1>1, InitType, NextType, PTL DEF Spec

-----------------------------------------------------------------------------
(* The order of start-up and shut-down. *)

AnyHandler(pcs) == \E s \in Signals : handler[s] \in pcs

\* Start-up opens the database, then Redis, then the server; an activation of
\* onCloseSignal closes the server, waits for the connections, and then closes the
\* database and Redis.  No activation starts before the server runs, and none opens
\* again what another has closed.
ShutdownOrder ==
    /\ AnyHandler({"cron", "drain", "database", "quitWrite", "quitRead"}) => phase = "running"
    /\ listening \/ open # {} => phase \in {"subscribe", "running"}
    /\ phase # "database" /\ ~dbOpen => AnyHandler({"quitWrite", "quitRead"})
    /\ phase \notin {"database", "redis"} /\ ~(writeClient /\ readClient) =>
         AnyHandler({"quitWrite", "quitRead"})
    /\ AnyHandler({"drain", "database", "quitWrite", "quitRead"}) => ~listening
    /\ AnyHandler({"database", "quitWrite", "quitRead"}) => open = {}

LEMMA InitOrder == Init => ShutdownOrder
BY DEF Init, ShutdownOrder, AnyHandler

LEMMA NextOrder == OthersOK /\ ShutdownOrder /\ [Next]_vars => ShutdownOrder'
<1> SUFFICES ASSUME OthersOK, ShutdownOrder, [Next]_vars PROVE ShutdownOrder'
  OBVIOUS
<1>1. CASE Starting
  BY <1>1 DEF Starting, InitializeDatabase, InitializeDatabaseFails, Connect, ConnectFails,
     PrewarmAll, Listen, ListenFails, Subscribe, SubscribeFails, Exit, ShutdownOrder, AnyHandler,
     OthersOK, redisVars, httpVars, streamVars
<1>2. ASSUME NEW c \in RedisClients, ClientStep(c)
      PROVE  ShutdownOrder'
  BY <1>2 DEF ClientStep, ClientConnects, ClientReady, ClientClose, ClientReconnects,
              ShutdownOrder, AnyHandler, httpVars, streamVars
<1>3. ASSUME NEW x, Accept(x) \/ Finish(x) \/ Admit(x) \/ Reject(x)
      PROVE  ShutdownOrder'
  BY <1>3 DEF Accept, Finish, Admit, Reject, ShutdownOrder, AnyHandler, redisVars
<1>4. ASSUME NEW s \in Signals, Signal(s) PROVE ShutdownOrder'
  BY <1>4 DEF Signal, ShutdownOrder, AnyHandler, OthersOK, redisVars, httpVars, streamVars
<1>5. ASSUME NEW s \in Signals, Closing(s) PROVE ShutdownOrder'
  <2>1. CASE CloseServers(s)
    BY <2>1 DEF CloseServers, ShutdownOrder, AnyHandler, OthersOK, redisVars
  <2>2. CASE Drained(s)
    BY <2>2 DEF Drained, ShutdownOrder, AnyHandler, OthersOK, redisVars, httpVars, streamVars
  <2>3. CASE DatabaseClosed(s)
    BY <2>3 DEF DatabaseClosed, ShutdownOrder, AnyHandler, OthersOK, redisVars, httpVars, streamVars
  <2>4. CASE WriteQuit(s)
    BY <2>4 DEF WriteQuit, ShutdownOrder, AnyHandler, OthersOK, httpVars, streamVars
  <2>5. CASE Disconnected(s)
    BY <2>5 DEF Disconnected, ShutdownOrder, AnyHandler, OthersOK, httpVars, streamVars
  <2> QED
    BY <1>5, <2>1, <2>2, <2>3, <2>4, <2>5 DEF Closing
<1>6. CASE ForcedExit
  BY <1>6 DEF ForcedExit, Exit, ShutdownOrder, AnyHandler, redisVars, httpVars, streamVars
<1>7. CASE UNCHANGED vars
  BY <1>7 DEF vars, streamVars, ShutdownOrder, AnyHandler
<1> QED
  BY <1>1, <1>2, <1>3, <1>4, <1>5, <1>6, <1>7 DEF Next, ClientStep

\* Whatever signals arrive, the database and both Redis clients are there from
\* app.listen until the last connection has ended.
THEOREM DependenciesLast == Spec => []DependenciesOutliveConnections
<1>1. ShutdownOrder => DependenciesOutliveConnections
  BY DEF ShutdownOrder, AnyHandler, DependenciesOutliveConnections
<1> QED
  BY <1>1, InitType, NextType, InitOrder, NextOrder, PTL DEF Spec

-----------------------------------------------------------------------------
(* The intervals of streams. *)

\* A stream that is yet to be admitted has its peer, or has lost it.
StreamsInv ==
    /\ entering \subseteq open \cup leftEarly
    /\ intervals \subseteq open \cup leftEarly
    /\ entering \cap intervals = {}

LEMMA NextStreams == OthersOK /\ StreamsInv /\ [Next]_vars => StreamsInv'
<1> SUFFICES ASSUME OthersOK, StreamsInv, [Next]_vars PROVE StreamsInv'
  OBVIOUS
<1>1. ASSUME NEW x, Accept(x) \/ Finish(x) \/ Admit(x) \/ Reject(x)
      PROVE  StreamsInv'
  <2>1. CASE Accept(x)
    <3>1. x \notin intervals /\ entering' \subseteq entering \cup {x} /\ intervals' = intervals
      BY <2>1 DEF Accept
    <3>2. open \cup leftEarly \subseteq open' \cup leftEarly' /\ x \in open'
      BY <2>1 DEF Accept
    <3> QED
      BY <3>1, <3>2 DEF StreamsInv
  <2>2. CASE Finish(x)
    <3>1. entering' = entering /\ intervals' = intervals \ {x} /\ open' = open \ {x}
      BY <2>2 DEF Finish
    <3>2. leftEarly \subseteq leftEarly' /\ (x \in entering => x \in leftEarly')
      BY <2>2 DEF Finish
    <3> QED
      BY <3>1, <3>2 DEF StreamsInv
  <2>3. CASE Admit(x)
    BY <2>3 DEF Admit, StreamsInv
  <2>4. CASE Reject(x)
    BY <2>4 DEF Reject, StreamsInv
  <2> QED
    BY <1>1, <2>1, <2>2, <2>3, <2>4
<1>2. ASSUME NEW s \in Signals, CloseServers(s) PROVE StreamsInv'
  BY <1>2, ServerAssumption DEF CloseServers, StreamsInv, OthersOK, streamVars
<1>3. CASE UNCHANGED <<open, streamVars>>
  BY <1>3 DEF streamVars, StreamsInv
<1>4. CASE Starting \/ ForcedExit
  BY <1>3, <1>4
     DEF Starting, InitializeDatabase, InitializeDatabaseFails, Connect, ConnectFails, PrewarmAll,
         Listen, ListenFails, Subscribe, SubscribeFails, ForcedExit, Exit, httpVars
<1>5. ASSUME NEW c \in RedisClients, ClientStep(c)
      PROVE  StreamsInv'
  BY <1>3, <1>5 DEF ClientStep, ClientConnects, ClientReady, ClientClose, ClientReconnects, httpVars
<1>6. ASSUME NEW s \in Signals,
             Signal(s) \/ Drained(s) \/ DatabaseClosed(s) \/ WriteQuit(s) \/ Disconnected(s)
      PROVE  StreamsInv'
  BY <1>3, <1>6 DEF Signal, Drained, DatabaseClosed, WriteQuit, Disconnected, httpVars
<1>7. CASE UNCHANGED vars
  BY <1>3, <1>7 DEF vars, streamVars
<1> QED
  BY <1>1, <1>2, <1>4, <1>5, <1>6, <1>7 DEF Next, ClientStep, Closing

\* Intervals outlive their stream only where the peer left while it was being
\* authenticated.
THEOREM IntervalsEnd == Spec => []IntervalsEndWithStreams
<1>1. Init => StreamsInv
  BY DEF Init, StreamsInv
<1>2. StreamsInv => IntervalsEndWithStreams
  BY DEF StreamsInv, IntervalsEndWithStreams
<1> QED
  BY <1>1, <1>2, InitType, NextType, NextStreams, PTL DEF Spec
=============================================================================
