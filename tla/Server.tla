------------------------------- MODULE Server -------------------------------
(***************************************************************************)
(* The life of the process: startServer, the Redis connections it opens    *)
(* (RedisService and the two ioredis clients under it), the HTTP           *)
(* connections it serves, and the shut-down of onCloseSignal.              *)
(*                                                                         *)
(* An ioredis client reconnects by itself, as its retryStrategy tells it;  *)
(* RedisService only learns of it through the client's events.  One that   *)
(* asks a Sentinel for its host may go on asking for ever: the Sentinel's  *)
(* own retry strategy, which the code leaves at its default, has no end.   *)
(***************************************************************************)
EXTENDS Naturals, FiniteSets

CONSTANTS
    Requests, Streams, Sockets,   \* HTTP requests, SSE streams and WebSockets to come
    Deployments,                  \* the ioredis clients to start with, and how they connect
    PrewarmEnabled,               \* CACHE_PREWARM_ENABLED
    MaxReconnectAttempts,         \* maxReconnectAttempts
    Signals                       \* the arrivals of SIGINT or SIGTERM, each once

ASSUME ServerAssumption ==
    /\ Requests \cap Streams = {} /\ Sockets \cap (Requests \cup Streams) = {}
    \* Directly, one client that writes and reads, or with REDIS_READ_HOST two; two
    \* with REDIS_SENTINEL_HOSTS.
    /\ Deployments \subseteq {[clients |-> {"write"}, sentinel |-> FALSE],
                              [clients |-> {"write", "read"}, sentinel |-> FALSE],
                              [clients |-> {"write", "read"}, sentinel |-> TRUE]}
    /\ PrewarmEnabled \in BOOLEAN
    /\ MaxReconnectAttempts \in Nat

VARIABLES
    phase,        \* where startServer stands
    exited,       \* "no", or how the process ended
    viaSentinel,  \* whether the clients ask a Sentinel for their host
    client,       \* the ioredis clients: connection status and failed attempts
    pending,      \* clients waitForConnection still waits for
    writeClient,  \* whether RedisService.writeClient is set
    readClient,
    isConnected,  \* RedisService.isConnected
    dbOpen,       \* AppDataSource.isInitialized
    listening,    \* the HTTP server accepts connections
    open,         \* the connections it has accepted and not finished
    entering,     \* the streams that authenticateSSE has yet to admit
    intervals,    \* the streams whose heartbeat and update intervals are set
    leftEarly,    \* history: the streams whose peer left before they were admitted
    handler       \* activations of onCloseSignal

vars == <<phase, exited, viaSentinel, client, pending, writeClient, readClient,
          isConnected, dbOpen, listening, open, entering, intervals, leftEarly, handler>>
streamVars == <<entering, intervals, leftEarly>>
redisVars == <<viaSentinel, client, pending, writeClient, readClient, isConnected>>
httpVars == <<listening, open, streamVars>>

Conns == Requests \cup Streams \cup Sockets
\* Without a replica readClient is the write client.
RedisClients == DOMAIN client
HasReplica == "read" \in RedisClients

Running == exited = "no"

\* The status of an ioredis client: "connecting" until it has a connection, "connect"
\* while its ready check awaits an answer, "waiting" while the delay of its
\* retryStrategy runs.
Statuses == {"none", "connecting", "connect", "ready", "waiting", "end"}

TypeOK ==
    /\ phase \in {"database", "redis", "connect", "prewarm", "listen", "subscribe", "running"}
    /\ exited \in {"no", "0", "1", "killed"}
    /\ [clients |-> RedisClients, sentinel |-> viaSentinel] \in Deployments
    /\ client \in [RedisClients -> [status : Statuses, attempts : 0 .. MaxReconnectAttempts + 1]]
    /\ pending \subseteq RedisClients
    /\ {writeClient, readClient, isConnected, dbOpen, listening} \subseteq BOOLEAN
    /\ open \subseteq Conns
    /\ entering \subseteq Streams /\ intervals \subseteq Streams /\ leftEarly \subseteq Streams
    /\ handler \in [Signals -> {"none", "cron", "drain", "database", "quitWrite",
                                "quitRead"}]

Init ==
    /\ phase = "database"
    /\ exited = "no"
    /\ \E d \in Deployments :
         /\ client = [c \in d.clients |-> [status |-> "none", attempts |-> 0]]
         /\ viaSentinel = d.sentinel
    /\ pending = {}
    /\ writeClient = FALSE
    /\ readClient = FALSE
    /\ isConnected = FALSE
    /\ dbOpen = FALSE
    /\ listening = FALSE
    /\ open = {}
    /\ entering = {} /\ intervals = {} /\ leftEarly = {}
    /\ handler = [s \in Signals |-> "none"]

\* process.exit: nothing in the process happens any more.
Exit(how) ==
    /\ exited' = how
    /\ UNCHANGED <<phase, redisVars, dbOpen, httpVars, handler>>

-----------------------------------------------------------------------------
(* The ioredis clients and their event handlers. *)

\* connectViaSentinel and connectDirectly create the clients, which connect at once.
Connect ==
    /\ Running /\ phase = "redis"
    /\ phase' = "connect"
    /\ client' = [c \in RedisClients |-> [status |-> "connecting", attempts |-> 0]]
    /\ pending' = RedisClients
    /\ writeClient' = TRUE
    /\ readClient' = TRUE
    /\ UNCHANGED <<exited, viaSentinel, isConnected, dbOpen, httpVars, handler>>

\* The client has its connection, from a Sentinel or directly, and sends its ready check.
ClientConnects(c) ==
    /\ Running
    /\ client[c].status = "connecting"
    /\ client' = [client EXCEPT ![c].status = "connect"]
    /\ UNCHANGED <<phase, exited, viaSentinel, pending, writeClient, readClient, isConnected,
                   dbOpen, httpVars, handler>>

\* The ready check is answered.  When the client is the last that connect() waits for,
\* connect() resumes before any other event: it believes that both are connected.
ClientReady(c) ==
    /\ Running
    /\ client[c].status = "connect"
    /\ client' = [client EXCEPT ![c] = [status |-> "ready", attempts |-> 0]]
    /\ pending' = pending \ {c}
    /\ IF phase = "connect" /\ pending' = {}
       THEN isConnected' = TRUE /\ phase' = IF PrewarmEnabled THEN "prewarm" ELSE "listen"
       ELSE UNCHANGED <<isConnected, phase>>
    /\ UNCHANGED <<exited, viaSentinel, writeClient, readClient, dbOpen, httpVars, handler>>

\* Mutant of AfterRetryStrategy: one attempt too many.
AfterRetryStrategyOneMore(times) ==
    [status |-> IF times > MaxReconnectAttempts + 1 THEN "end" ELSE "waiting",
     attempts |-> times]

\* Mutant of AfterRetryStrategy: it never returns null.
AfterRetryStrategyForEver(times) ==
    [status |-> "waiting",
     attempts |-> IF times > MaxReconnectAttempts THEN MaxReconnectAttempts ELSE times]

\* retryStrategy: a null ends the client for good.
AfterRetryStrategy(times) ==
    [status |-> IF times > MaxReconnectAttempts THEN "end" ELSE "waiting",
     attempts |-> times]

\* quit() has been called on the client: ioredis does not reconnect.
Quitting(c) ==
    \E s \in Signals : handler[s] = "quitRead" \/ (handler[s] = "quitWrite" /\ c = "write")

\* A connection is lost, or an attempt to make one has failed: the "close" event.
\* waitForConnection hears of a failed attempt first, as an "error" (ConnectFails).
ClientClose(c) ==
    /\ Running
    /\ client[c].status \in {"connecting", "connect", "ready"}
    /\ client[c].status = "connecting" => c \notin pending
    /\ client' = [client EXCEPT ![c] = IF Quitting(c) THEN [@ EXCEPT !.status = "end"]
                                       ELSE AfterRetryStrategy(@.attempts + 1)]
    /\ isConnected' = FALSE
    /\ UNCHANGED <<phase, exited, viaSentinel, pending, writeClient, readClient, dbOpen,
                   httpVars, handler>>

\* The delay is over.
ClientReconnects(c) ==
    /\ Running
    /\ client[c].status = "waiting"
    /\ client' = [client EXCEPT ![c].status = "connecting"]
    /\ UNCHANGED <<phase, exited, viaSentinel, pending, writeClient, readClient, isConnected,
                   dbOpen, httpVars, handler>>

\* Mutant of ConnectFails: waitForConnection sets no timer.
ConnectFailsOnError ==
    /\ Running /\ phase = "connect"
    /\ \E c \in pending : client[c].status = "connecting"
    /\ Exit("1")

\* waitForConnection rejects, on the first "error" or after 10 seconds: connect()
\* throws and startServer exits.
ConnectFails ==
    /\ Running /\ phase = "connect"
    /\ Exit("1")

-----------------------------------------------------------------------------
(* The rest of startServer. *)

InitializeDatabase ==
    /\ Running /\ phase = "database"
    /\ phase' = "redis"
    /\ dbOpen' = TRUE
    /\ UNCHANGED <<exited, redisVars, httpVars, handler>>

InitializeDatabaseFails ==
    /\ Running /\ phase = "database"
    /\ Exit("1")

\* prewarmAll settles when its queries and commands do, whether they succeed or fail;
\* nothing bounds how long they take.  The cron job is started.
PrewarmAll ==
    /\ Running /\ phase = "prewarm"
    /\ phase' = "listen"
    /\ UNCHANGED <<exited, redisVars, dbOpen, httpVars, handler>>

\* app.listen, the WebSocket server, and subscribe up to its await.
Listen ==
    /\ Running /\ phase = "listen" /\ isConnected
    /\ phase' = "subscribe"
    /\ listening' = TRUE
    /\ UNCHANGED <<exited, redisVars, dbOpen, open, streamVars, handler>>

\* subscribe throws: ensureConnected, on a connection lost while warming up.
ListenFails ==
    /\ Running /\ phase = "listen" /\ ~isConnected
    /\ Exit("1")

\* The subscriber's own connection is ready: startServer installs the handlers.
Subscribe ==
    /\ Running /\ phase = "subscribe"
    /\ phase' = "running"
    /\ UNCHANGED <<exited, redisVars, dbOpen, httpVars, handler>>

SubscribeFails ==
    /\ Running /\ phase = "subscribe"
    /\ Exit("1")

-----------------------------------------------------------------------------
(* The HTTP server. *)

\* A connection comes, and is served; a stream's middleware awaits its queries.
Accept(x) ==
    /\ Running /\ listening
    /\ x \notin open \cup entering \cup intervals
    /\ open' = open \cup {x}
    /\ entering' = IF x \in Streams THEN entering \cup {x} ELSE entering
    /\ leftEarly' = leftEarly \ {x}
    /\ UNCHANGED <<phase, exited, redisVars, dbOpen, listening, intervals, handler>>

\* streamUsageUpdates, whether or not the peer is still there.
Admit(x) ==
    /\ Running /\ x \in entering
    /\ entering' = entering \ {x}
    /\ intervals' = intervals \cup {x}
    /\ UNCHANGED <<phase, exited, redisVars, dbOpen, listening, open, leftEarly, handler>>

\* authenticateSSE answers 401.
Reject(x) ==
    /\ Running /\ x \in entering
    /\ entering' = entering \ {x}
    /\ open' = open \ {x}
    /\ UNCHANGED <<phase, exited, redisVars, dbOpen, listening, intervals, leftEarly, handler>>

\* Mutant of Finish: the intervals are not cleared.
FinishKeepsIntervals(x) ==
    /\ Running
    /\ x \in open
    /\ open' = open \ {x}
    /\ leftEarly' = IF x \in entering THEN leftEarly \cup {x} ELSE leftEarly
    /\ UNCHANGED <<phase, exited, redisVars, dbOpen, listening, entering, intervals, handler>>

\* A request is answered; the peer closes a stream or a socket.  The "close" event
\* of a stream clears its intervals; the handler that would is not there before it is
\* admitted, and an event that has happened does not happen again.
Finish(x) ==
    /\ Running
    /\ x \in open
    /\ open' = open \ {x}
    /\ intervals' = intervals \ {x}
    /\ leftEarly' = IF x \in entering THEN leftEarly \cup {x} ELSE leftEarly
    /\ UNCHANGED <<phase, exited, redisVars, dbOpen, listening, entering, handler>>

-----------------------------------------------------------------------------
(* onCloseSignal. *)

\* Before the handlers are installed a signal kills the process.
Signal(s) ==
    /\ Running
    /\ \/ /\ phase = "running"
          /\ handler[s] = "none"
          /\ handler' = [handler EXCEPT ![s] = "cron"]
          /\ UNCHANGED exited
       \/ /\ phase # "running"
          /\ exited' = "killed"
          /\ UNCHANGED handler
    /\ UNCHANGED <<phase, redisVars, dbOpen, httpVars>>

\* The cron job is stopped.  websocketService.close ends the sockets, server.close
\* stops listening, and the 10 seconds begin.
CloseServers(s) ==
    /\ Running /\ handler[s] = "cron"
    /\ handler' = [handler EXCEPT ![s] = "drain"]
    /\ listening' = FALSE
    /\ open' = open \ Sockets
    /\ UNCHANGED <<phase, exited, redisVars, dbOpen, streamVars>>

\* Mutant of Drained: what follows server.close is not in its callback.
DrainedAtOnce(s) ==
    /\ Running /\ handler[s] = "drain"
    /\ handler' = [handler EXCEPT ![s] = "database"]
    /\ UNCHANGED <<phase, exited, redisVars, dbOpen, httpVars>>

\* The callback of server.close: the last connection has ended.  closeDatabase has
\* nothing to await when the data source is already closed.
Drained(s) ==
    /\ Running /\ handler[s] = "drain"
    /\ open = {}
    /\ handler' = [handler EXCEPT ![s] = "database"]
    /\ UNCHANGED <<phase, exited, redisVars, dbOpen, httpVars>>

\* destroy() has settled, and disconnect() starts; without a write client it goes
\* to the read client, and without either there is nothing left to do.
DatabaseClosed(s) ==
    /\ Running /\ handler[s] = "database"
    /\ dbOpen' \in {FALSE, dbOpen}
    /\ handler' = [handler EXCEPT ![s] = IF writeClient THEN "quitWrite" ELSE "quitRead"]
    /\ UNCHANGED <<phase, exited, redisVars, httpVars>>

\* writeClient.quit() has been answered.  A readClient that is the write client is
\* no longer recognised as such, now that writeClient is null.
WriteQuit(s) ==
    /\ Running /\ handler[s] = "quitWrite"
    /\ writeClient' = FALSE
    /\ handler' = [handler EXCEPT ![s] = "quitRead"]
    /\ UNCHANGED <<phase, exited, viaSentinel, client, pending, readClient, isConnected, dbOpen,
                   httpVars>>

\* readClient.quit() has been answered, or disconnect() has thrown (a second quit on
\* the one client always does): exit(0).
Disconnected(s) ==
    /\ Running /\ handler[s] \in {"quitWrite", "quitRead"}
    /\ exited' = "0"
    /\ \/ handler[s] = "quitRead" /\ HasReplica /\ readClient' = FALSE /\ isConnected' = FALSE
       \/ UNCHANGED <<readClient, isConnected>>
    /\ UNCHANGED <<phase, viaSentinel, client, pending, writeClient, dbOpen, httpVars, handler>>

\* Mutant of ForcedExit: it is set up when the connections have ended.
ForcedExitDrained ==
    /\ Running
    /\ open = {}
    /\ \E s \in Signals : handler[s] \notin {"none", "cron"}
    /\ Exit("1")

\* The 10 seconds are over.
ForcedExit ==
    /\ Running
    /\ \E s \in Signals : handler[s] \notin {"none", "cron"}
    /\ Exit("1")

-----------------------------------------------------------------------------
Starting ==
    \/ InitializeDatabase \/ InitializeDatabaseFails
    \/ Connect \/ ConnectFails
    \/ PrewarmAll
    \/ Listen \/ ListenFails
    \/ Subscribe \/ SubscribeFails

Closing(s) == CloseServers(s) \/ Drained(s) \/ DatabaseClosed(s) \/ WriteQuit(s) \/ Disconnected(s)

Next ==
    \/ Starting
    \/ \E c \in RedisClients :
         ClientConnects(c) \/ ClientReady(c) \/ ClientClose(c) \/ ClientReconnects(c)
    \/ \E x \in Conns : Accept(x) \/ Finish(x)
    \/ \E x \in Streams : Admit(x) \/ Reject(x)
    \/ \E s \in Signals : Signal(s) \/ Closing(s)
    \/ ForcedExit

Reconnects(c) == c \in RedisClients /\ ClientReconnects(c)
ConnectionSettles(c) ==
    /\ c \in RedisClients /\ ~viaSentinel /\ client[c].status = "connecting"
    /\ ClientConnects(c) \/ ClientClose(c)

Spec == Init /\ [][Next]_vars

\* What has a timer: waitForConnection rejects after 10 seconds, the delay of a
\* retryStrategy ends, ioredis gives a direct connection 10 seconds to be made
\* (connectTimeout, by default), and the exit is forced.  What has none may hang: the
\* queries and commands of initializeDatabase, prewarmAll and subscribe, the ready
\* check of a client, a Sentinel's answer, and a stream or a request.
Fairness ==
    /\ WF_vars(ConnectFails)
    /\ \A c \in {"write", "read"} : WF_vars(Reconnects(c)) /\ WF_vars(ConnectionSettles(c))
    /\ \A s \in Signals : WF_vars(CloseServers(s))
    /\ WF_vars(ForcedExit)

FairSpec == Spec /\ Fairness

-----------------------------------------------------------------------------
(* Properties. *)

\* What is served outlives what it needs: from app.listen until the last connection
\* has ended the data source is initialized and both Redis clients exist, whichever
\* signals arrive and however the onCloseSignal activations overlap.
DependenciesOutliveConnections ==
    listening \/ open # {} => dbOpen /\ writeClient /\ readClient

\* The intervals of a stream end with it, unless its peer left while authenticateSSE
\* was awaiting the database: those are never cleared.
IntervalsEndWithStreams == intervals \subseteq open \cup leftEarly

\* connect() ends, whatever the clients do: with both ready at some time, or with the
\* process.  Neither a ready check that is not answered, nor a client that was given
\* up, nor a Sentinel that knows no host leaves the start-up waiting for Redis.
ConnectSettles == (phase = "connect" /\ Running) ~> (phase # "connect" \/ ~Running)

\* A signal ends the process, streams that nobody closes notwithstanding.
SignalExits == (\E s \in Signals : handler[s] # "none") ~> ~Running

Status(c) == IF c \in RedisClients THEN client[c].status ELSE "none"

\* An attempt that no timer ends: its ready check is not answered, or it goes round
\* the Sentinels.
Unsettled(c) == Status(c) = "connect" \/ (viaSentinel /\ Status(c) = "connecting")

\* A lost connection comes back or is given up after maxReconnectAttempts: only one
\* attempt that hangs, at its ready check or at the Sentinels, keeps it from either.
\* The client does not begin attempt after attempt for ever.
ReconnectSettles ==
    \A c \in {"write", "read"} :
      Status(c) = "waiting" ~>
        (Status(c) \in {"ready", "end"} \/ ~Running \/ []Unsettled(c))

-----------------------------------------------------------------------------
(* What comments of the repository say, and the code does not do. *)

\* redis.service.ts:236, "Retry strategy for reconnection", and :504, "Check if Redis
\* is connected": once the clients have reconnected for good the service knows it.
ConnectedAfterReconnect ==
    []([](/\ Running /\ phase = "running"
          /\ \A c \in RedisClients : client[c].status = "ready") => <>isConnected)
=============================================================================
