---------------------------- MODULE RateLimiter ----------------------------
(***************************************************************************)
(* RateLimiterService: the sliding-window Lua script in Redis, the         *)
(* in-memory fallback, and the rate-limit middleware around them.          *)
(*                                                                         *)
(* A request is stamped with Date.now() when it asks; its EVAL then waits  *)
(* in the connection's FIFO, which survives reconnects, until it is        *)
(* evaluated, or until the connection gives the command up and the request *)
(* falls back to the memory of the process.  Nothing bounds the wait: the  *)
(* clients are made without commandTimeout and socketTimeout.  The clock   *)
(* counts milliseconds coarsely: requests of one millisecond have the same *)
(* stamp.  A member of a sorted set is that stamp and math.random(), which *)
(* Redis seeds alike for every script it runs: the stamp alone tells two   *)
(* members apart.                                                          *)
(***************************************************************************)
EXTENDS Naturals, Sequences, FiniteSetsExt

CONSTANTS
    Clients,
    Requests,        \* each a call of the service, made once
    ClientOf,        \* [Requests -> Clients]
    Kind,            \* [Requests -> {"check", "endpoint", "usage", "reset"}]
    ClientLimit,     \* [Clients -> Nat], the client's rateLimit; 0 when it has none
    DefaultLimit,    \* maxRequests: env.API_RATE_LIMIT
    Window,          \* windowSize
    Grace,           \* the 60 seconds by which EXPIRE outlives the window
    MaxClock,        \* bound: the clock stops there
    MaxLostReplies   \* bound: how often a reply is lost and the command resent

ASSUME LimiterAssumption ==
    /\ ClientOf \in [Requests -> Clients]
    /\ Kind \in [Requests -> {"check", "endpoint", "usage", "reset"}]
    /\ ClientLimit \in [Clients -> Nat]
    /\ DefaultLimit \in Nat \ {0}
    /\ Window \in Nat \ {0}
    /\ {Grace, MaxClock, MaxLostReplies} \subseteq Nat

VARIABLES
    clock,        \* Date.now()
    connected,    \* redisService.isConnected
    pipe,         \* commands of the write connection not yet answered, in order
    zset,         \* the sorted sets rate_limit:<client> and rate_limit:<client>:<endpoint>
    expiresAt,    \* their time to live
    store,        \* inMemoryStore per client: its timestamps, each with the request that
                  \* pushed it; the array is in the order of the clock, its first is the least
    request,      \* what became of each request
    lostReplies   \* history: replies lost so far

vars == <<clock, connected, pipe, zset, expiresAt, store, request, lostReplies>>

Keys == Clients \X {"all", "endpoint"}
KeyOf(r) == <<ClientOf[r], IF Kind[r] = "endpoint" THEN "endpoint" ELSE "all">>

\* rateLimitMiddleware and checkRateLimit both say `limit || default`.
LimitOf(c) == IF ClientLimit[c] = 0 THEN DefaultLimit ELSE ClientLimit[c]

Requested == [phase : {"new", "sent", "admitted", "denied", "done", "forgiven"},
              via : {"none", "redis", "memory"}, stamp : 0 .. MaxClock,
              resetAt : 0 .. MaxClock + Window,
              late : BOOLEAN]  \* history: the script admitted it when its stamp was
                               \* older than the grace

TypeOK ==
    /\ clock \in 0 .. MaxClock
    /\ connected \in BOOLEAN
    /\ pipe \in Seq(Requests)
    /\ zset \in [Keys -> SUBSET (0 .. MaxClock)]
    /\ expiresAt \in [Keys -> 0 .. MaxClock + Window + Grace]
    /\ store \in [Clients -> SUBSET ((0 .. MaxClock) \X Requests)]
    /\ request \in [Requests -> Requested]
    /\ lostReplies \in 0 .. MaxLostReplies

Init ==
    /\ clock = 0
    /\ connected = TRUE
    /\ pipe = <<>>
    /\ zset = [k \in Keys |-> {}]
    /\ expiresAt = [k \in Keys |-> 0]
    /\ store = [c \in Clients |-> {}]
    /\ request = [r \in Requests |->
                    [phase |-> "new", via |-> "none", stamp |-> 0, resetAt |-> 0,
                     late |-> FALSE]]
    /\ lostReplies = 0

-----------------------------------------------------------------------------
(* The in-memory fallback. *)

\* timestamps.filter((ts) => ts > windowStart)
InWindow(entries, now) == {e \in entries : e[1] + Window > now}

\* timestamps[0]
Oldest(entries) == Min({e[1] : e \in entries})

\* Mutant of CheckInMemory: one request too many.
CheckInMemoryOneMore(r) ==
    LET c == ClientOf[r]
        live == InWindow(store[c], clock)
        full == Cardinality(live) > DefaultLimit
    IN  /\ store' = [store EXCEPT ![c] = IF full THEN live ELSE live \cup {<<clock, r>>}]
        /\ request' = [request EXCEPT ![r] =
             [phase |-> IF full THEN "denied" ELSE "admitted", via |-> "memory",
              stamp |-> clock,
              resetAt |-> Window + (IF full THEN Oldest(live) ELSE clock), late |-> FALSE]]

\* checkRateLimitInMemory: the default limit, one list per client.
CheckInMemory(r) ==
    LET c == ClientOf[r]
        live == InWindow(store[c], clock)
        full == Cardinality(live) >= DefaultLimit
    IN  /\ store' = [store EXCEPT ![c] = IF full THEN live ELSE live \cup {<<clock, r>>}]
        /\ request' = [request EXCEPT ![r] =
             [phase |-> IF full THEN "denied" ELSE "admitted", via |-> "memory",
              stamp |-> clock,
              resetAt |-> Window + (IF full THEN Oldest(live) ELSE clock), late |-> FALSE]]

\* Mutant of CleanupInMemoryStore: a list goes when its first entry has expired.
CleanupWholeList ==
    /\ store' = [c \in Clients |-> IF InWindow(store[c], clock) = store[c]
                                   THEN store[c] ELSE {}]
    /\ UNCHANGED <<clock, connected, pipe, zset, expiresAt, request, lostReplies>>

\* The interval callback; it deletes the lists that have become empty.
CleanupInMemoryStore ==
    /\ store' = [c \in Clients |-> InWindow(store[c], clock)]
    /\ UNCHANGED <<clock, connected, pipe, zset, expiresAt, request, lostReplies>>

-----------------------------------------------------------------------------
(* The Lua script. *)

\* Mutant of Pruned: an entry exactly one window old still counts.
PrunedLate(z, now) == {t \in z : t + Window >= now}

Pruned(z, now) == {t \in z : t + Window > now}

LuaDenies(r) == Cardinality(Pruned(zset[KeyOf(r)], request[r].stamp))
                  >= LimitOf(ClientOf[r])

\* Mutant of EvalLua: EXPIRE without the 60 seconds.
EvalLuaNoGrace(r) ==
    LET k == KeyOf(r)
        now == request[r].stamp
    IN  /\ zset' = [zset EXCEPT ![k] = IF LuaDenies(r) THEN Pruned(@, now)
                                       ELSE Pruned(@, now) \cup {now}]
        /\ expiresAt' = [expiresAt EXCEPT ![k] =
                           IF LuaDenies(r) THEN @ ELSE clock + Window]

\* The effect on Redis.
EvalLua(r) ==
    LET k == KeyOf(r)
        now == request[r].stamp
    IN  /\ zset' = [zset EXCEPT ![k] = IF LuaDenies(r) THEN Pruned(@, now)
                                       ELSE Pruned(@, now) \cup {now}]
        /\ expiresAt' = [expiresAt EXCEPT ![k] =
                           IF LuaDenies(r) THEN @ ELSE clock + Window + Grace]

\* Mutant of LuaReply: the window is added twice.
LuaReplyTwoWindows(r) ==
    LET now == request[r].stamp
    IN  request' = [request EXCEPT ![r] =
          [phase |-> IF LuaDenies(r) THEN "denied" ELSE "admitted", via |-> "redis",
           stamp |-> now, resetAt |-> now + Window + Window,
           late |-> ~LuaDenies(r) /\ now + Grace < clock]]

\* The reply: allowed, or denied until the oldest entry leaves the window.
LuaReply(r) ==
    LET now == request[r].stamp
        oldest == Min(Pruned(zset[KeyOf(r)], now))
    IN  request' = [request EXCEPT ![r] =
          [phase |-> IF LuaDenies(r) THEN "denied" ELSE "admitted", via |-> "redis",
           stamp |-> now, resetAt |-> Window + (IF LuaDenies(r) THEN oldest ELSE now),
           late |-> ~LuaDenies(r) /\ now + Grace < clock]]

\* getCurrentUsage removes what has left the window; the count is only read.
Prune(r) == zset' = [zset EXCEPT ![KeyOf(r)] = Pruned(@, request[r].stamp)]

\* resetRateLimit deletes the key of the client.
Delete(r) == zset' = [zset EXCEPT ![KeyOf(r)] = {}]

-----------------------------------------------------------------------------
(* Resetting a client. *)

\* history: what was admitted before the reset no longer counts against the client.
\* `Redis del` clears the key of the client but not those of its endpoints.
Forgiven(r, paths) ==
    [q \in Requests |->
       IF /\ ClientOf[q] = ClientOf[r] /\ request[q].phase = "admitted"
          /\ request[q].via \in paths
          /\ request[q].via = "redis" => Kind[q] = "check"
       THEN [request[q] EXCEPT !.phase = "forgiven"]
       ELSE request[q]]

\* resetRateLimit when del could not reach Redis: only the memory is cleared.
ResetInMemory(r) ==
    /\ store' = [store EXCEPT ![ClientOf[r]] = {}]
    /\ request' = [Forgiven(r, {"memory"}) EXCEPT ![r].phase = "done"]

-----------------------------------------------------------------------------
(* The calls of the service. *)

\* What a call does without Redis, in its catch block or when it throws at once.
\* getCurrentUsage then answers zero.
FallBack(r) ==
    \/ /\ Kind[r] \in {"check", "endpoint"}
       /\ CheckInMemory(r)
    \/ /\ Kind[r] = "reset"
       /\ ResetInMemory(r)
    \/ /\ Kind[r] = "usage"
       /\ request' = [request EXCEPT ![r].phase = "done"]
       /\ UNCHANGED store

\* checkRateLimit, checkRateLimitForEndpoint, getCurrentUsage and resetRateLimit up
\* to their await: the command joins the pipe of the write connection.
Send(r) ==
    /\ request[r].phase = "new"
    /\ connected
    /\ pipe' = Append(pipe, r)
    /\ request' = [request EXCEPT ![r].phase = "sent", ![r].stamp = clock]
    /\ UNCHANGED <<clock, connected, zset, expiresAt, store, lostReplies>>

\* getWriteClient and ensureConnected throw when the service is not connected.
Refused(r) ==
    /\ request[r].phase = "new"
    /\ ~connected
    /\ FallBack(r)
    /\ UNCHANGED <<clock, connected, pipe, zset, expiresAt, lostReplies>>

\* The oldest command is executed and answered.
AnswerCheck ==
    /\ pipe # <<>>
    /\ Kind[Head(pipe)] \in {"check", "endpoint"}
    /\ pipe' = Tail(pipe)
    /\ EvalLua(Head(pipe))
    /\ LuaReply(Head(pipe))
    /\ UNCHANGED <<clock, connected, store, lostReplies>>

AnswerUsage ==
    /\ pipe # <<>>
    /\ Kind[Head(pipe)] = "usage"
    /\ pipe' = Tail(pipe)
    /\ Prune(Head(pipe))
    /\ request' = [request EXCEPT ![Head(pipe)].phase = "done"]
    /\ UNCHANGED <<clock, connected, expiresAt, store, lostReplies>>

AnswerReset ==
    /\ pipe # <<>>
    /\ Kind[Head(pipe)] = "reset"
    /\ pipe' = Tail(pipe)
    /\ Delete(Head(pipe))
    /\ store' = [store EXCEPT ![ClientOf[Head(pipe)]] = {}]
    /\ request' = [Forgiven(Head(pipe), {"redis", "memory"}) EXCEPT ![Head(pipe)].phase = "done"]
    /\ UNCHANGED <<clock, connected, expiresAt, lostReplies>>

\* The oldest command is executed, but the connection dies before the reply; the
\* client sends an unfulfilled command again once it has reconnected, or gives it up.
ReplyLost ==
    /\ pipe # <<>>
    /\ lostReplies < MaxLostReplies
    /\ lostReplies' = lostReplies + 1
    /\ LET r == Head(pipe)
       IN  \/ /\ Kind[r] \in {"check", "endpoint"}
              /\ EvalLua(r)
              /\ UNCHANGED request
           \/ /\ Kind[r] = "usage"
              /\ Prune(r)
              /\ UNCHANGED <<expiresAt, request>>
           \/ /\ Kind[r] = "reset"
              /\ Delete(r)
              /\ request' = Forgiven(r, {"redis"})
              /\ UNCHANGED expiresAt
    /\ UNCHANGED <<clock, connected, pipe, store>>

\* The client gives the oldest command up (maxRetriesPerRequest, or the end of
\* the connection).
GivenUp ==
    /\ pipe # <<>>
    /\ pipe' = Tail(pipe)
    /\ FallBack(Head(pipe))
    /\ UNCHANGED <<clock, connected, zset, expiresAt, lostReplies>>

ConnectionChange ==
    /\ connected' = ~connected
    /\ UNCHANGED <<clock, pipe, zset, expiresAt, store, request, lostReplies>>

\* Time passes; Redis removes the keys whose time has come.
Tick ==
    /\ clock < MaxClock
    /\ clock' = clock + 1
    /\ zset' = [k \in Keys |-> IF expiresAt[k] <= clock' THEN {} ELSE zset[k]]
    /\ UNCHANGED <<connected, pipe, expiresAt, store, request, lostReplies>>

Next ==
    \/ \E r \in Requests : Send(r) \/ Refused(r)
    \/ AnswerCheck
    \/ AnswerUsage
    \/ AnswerReset
    \/ ReplyLost
    \/ GivenUp
    \/ CleanupInMemoryStore
    \/ ConnectionChange
    \/ Tick

Spec == Init /\ [][Next]_vars

-----------------------------------------------------------------------------
(* Properties. *)

\* The requests of the window that ends at t which one path admitted, and not late.
Admitted(path, t) ==
    {r \in Requests : /\ request[r].phase = "admitted" /\ request[r].via = path
                      /\ request[r].stamp <= t /\ t < request[r].stamp + Window
                      /\ ~request[r].late}

\* The sliding window: however requests wait, are resent or fall back, Redis admits
\* one key in no window at more instants than the client's limit.  A request that
\* waited is judged by its old stamp, at a time when the entries it must be counted
\* with have left the window and live on the 60 seconds of grace only.  One that was
\* stalled for longer than that may find them gone: it is left out, and the others
\* keep to the limit all the same, whatever it adds to their set.
RedisWindowLimit ==
    \A k \in Keys, t \in 0 .. MaxClock :
      Cardinality({request[r].stamp : r \in {q \in Admitted("redis", t) : KeyOf(q) = k}})
        <= LimitOf(k[1])

\* The fallback admits in no window more requests of a client, endpoint checks
\* included, than the global limit.
MemoryWindowLimit ==
    \A c \in Clients, t \in 0 .. MaxClock :
      Cardinality({r \in Admitted("memory", t) : ClientOf[r] = c}) <= DefaultLimit

\* A denial is honest: a caller who comes back at the announced resetAt (which
\* Retry-After is computed from) finds room, if nobody else was admitted.
ResetAtFreesRoom ==
    [][\A r \in Requests :
         request'[r].phase = "denied" /\ request[r].phase # "denied" =>
           LET at == request'[r].resetAt
               c == ClientOf[r]
           IN  IF request'[r].via = "redis"
               THEN Cardinality(Pruned(zset'[KeyOf(r)], at)) < LimitOf(c)
               ELSE Cardinality(InWindow(store'[c], at)) < DefaultLimit]_vars

AdmittedBy(r, via) == request[r].phase = "admitted" /\ request[r].via = via

Counts(r, via) == AdmittedBy(r, via) /\ request[r].stamp + Window > clock

RedisRemembers ==
    \A r \in Requests : Counts(r, "redis") => request[r].stamp \in zset[KeyOf(r)]

MemoryRemembers ==
    \A r \in Requests : Counts(r, "memory") => <<request[r].stamp, r>> \in store[ClientOf[r]]

RedisStamps(k) ==
    {request[r].stamp : r \in {q \in Requests : AdmittedBy(q, "redis") /\ KeyOf(q) = k}}

OnlyAdmissionsCount ==
    /\ \A k \in Keys : Cardinality(zset[k] \ RedisStamps(k)) <= lostReplies
    /\ \A c \in Clients : \A e \in store[c] :
         /\ AdmittedBy(e[2], "memory") /\ request[e[2]].stamp = e[1]
         /\ ClientOf[e[2]] = c

\* What is held against a client is what was admitted.  No admission that still counts
\* is forgotten, by the expiry of its key, the clean-up of the memory, a usage report,
\* or a check that waited with an old stamp; and nothing else is counted, but for the
\* entries of executions whose replies were lost: one for each of them at most.
AdmissionsCounted == RedisRemembers /\ MemoryRemembers /\ OnlyAdmissionsCount

-----------------------------------------------------------------------------
(* What the repository says, and the code does not do. *)

\* rate-limit.middleware.ts:17, "Use per-client rate limit if available": the
\* fallback applies the global limit.
PerClientLimit ==
    \A c \in Clients, t \in 0 .. MaxClock :
      Cardinality({r \in Admitted("memory", t) : ClientOf[r] = c}) <= LimitOf(c)

\* rate-limiter.service.ts:94, "Use Lua script for atomic operations (prevents race
\* conditions)": the limit is one of requests, not of instants.
RedisRequestLimit ==
    \A k \in Keys, t \in 0 .. MaxClock :
      Cardinality({r \in Admitted("redis", t) : KeyOf(r) = k}) <= LimitOf(k[1])
=============================================================================
