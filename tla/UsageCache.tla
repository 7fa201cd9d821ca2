----------------------------- MODULE UsageCache -----------------------------
(***************************************************************************)
(* The usage reports: getDailyUsage and getTopClients of ClientService,    *)
(* which keep their results in Redis, and the CachePrewarmService, which   *)
(* computes the same reports at start-up and from a cron job.  A command   *)
(* that RedisService refuses, not being connected, is one that fails.      *)
(*                                                                         *)
(* A report is the number of rows it counts for each client, of those in   *)
(* the period it looks back on; it is empty when it counts none.  Rows     *)
(* come into a period and leave it as time passes, and a top report is cut *)
(* to its limit.  Redis is one server, read and written through one        *)
(* connection (REDIS_READ_HOST is unset).                                  *)
(***************************************************************************)
EXTENDS Naturals, FiniteSets, Sequences, Functions

CONSTANTS
    Clients,      \* the active clients
    CreatedAt,    \* when each was registered
    DailyKeys,    \* usage:daily:<days>, in the order they are pre-warmed
    TopKeys,      \* usage:top:<hours>:<limit>, likewise
    Windows,      \* the periods, such as the last 24 hours
    WindowOf,     \* the period of the days or the hours in a key
    TopLimit,     \* the limit in a key of TopKeys
    Readers,      \* requests for a report, and updates of an SSE stream
    Unanswered,   \* tasks whose query or command may be awaited for ever
    TTL,          \* CACHE_TTL_USAGE_DAILY and CACHE_TTL_USAGE_TOP, in ticks
    MaxRows       \* bound: the rows of a client that a period or a report has seen

ASSUME CacheAssumption ==
    /\ \A keys \in {DailyKeys, TopKeys} :
         keys \in Seq(Range(keys)) /\ keys # <<>> /\ IsInjective(keys)
    /\ Range(DailyKeys) \cap Range(TopKeys) = {}
    /\ TTL \in Nat \ {0}
    /\ MaxRows \in Nat

Keys == Range(DailyKeys) \cup Range(TopKeys)

ASSUME WindowAssumption ==
    /\ WindowOf \in [Keys -> Windows]
    /\ TopLimit \in [Range(TopKeys) -> Nat \ {0}]
    /\ IsFiniteSet(Clients)
    /\ CreatedAt \in [Clients -> Nat]

\* The activations of prewarmByCacheKey, prewarmDailyUsage and prewarmTopClients.
Warmers == {"hot", "daily", "top"}
Tasks == Readers \cup Warmers

\* A request is not an activation of the pre-warming.
ASSUME WarmersAssumption == Readers \cap Warmers = {}

ASSUME UnansweredAssumption == Unanswered \subseteq Tasks

VARIABLES
    usage,  \* the rows of api_logs in each period, per client
    cache,  \* the report stored under a key: a set of at most one
    left,   \* ticks until it expires
    task,   \* readers and warmers
    cron    \* where prewarmAll or the cron job's prewarmHotKeys stands

vars == <<usage, cache, left, task, cron>>

Reports == [Clients -> 0 .. MaxRows]
Empty == [c \in Clients |-> 0]

\* keys: the reports still to make, the present one first.  answer: the last answer.
\* Until its last query: met, the rows that have been in the period of the present report
\* at some time since it was begun; kept, history, those that have been there throughout.
TaskStates ==
    [pc : {"idle", "cache", "clients", "query", "write"}, keys : Seq(Keys),
     todo : SUBSET Clients, report : Reports, met : Reports, kept : Reports,
     answer : {"sent", "failed"}]

TypeOK ==
    /\ usage \in [Windows -> Reports]
    /\ cache \in [Keys -> SUBSET (Reports \ {Empty})]
    /\ left \in [Keys -> 0 .. TTL]
    /\ \A k \in Keys : Cardinality(cache[k]) = IF left[k] = 0 THEN 0 ELSE 1
    /\ task \in [Tasks -> TaskStates]
    /\ cron \in {"idle", "hot", "all"}

Idle == [pc |-> "idle", keys |-> <<>>, todo |-> {}, report |-> Empty,
         met |-> Empty, kept |-> Empty, answer |-> "sent"]

\* A task that asks the database for the first of its reports: for a daily report the
\* clients first, then their rows one by one; for a top report all at once.
ToDatabase(keys) ==
    LET now == usage[WindowOf[Head(keys)]]
    IN  [pc |-> IF Head(keys) \in Range(DailyKeys) THEN "clients" ELSE "query",
         keys |-> keys, todo |-> {}, report |-> Empty, met |-> now, kept |-> now,
         answer |-> "sent"]

\* prewarmAll: two activations, each for its keys in turn.
PrewarmAll(ts) ==
    [ts EXCEPT !["daily"] = ToDatabase(DailyKeys), !["top"] = ToDatabase(TopKeys)]

\* startServer pre-warms before it serves.  The rows are as recent as can be.
Init ==
    /\ \E counts \in Reports : usage = [w \in Windows |-> counts]
    /\ cache = [k \in Keys |-> {}]
    /\ left = [k \in Keys |-> 0]
    /\ task = PrewarmAll([t \in Tasks |-> Idle])
    /\ cron = "all"

-----------------------------------------------------------------------------
(* Making a report: the part that readers and warmers share. *)

KeyOf(t) == Head(task[t].keys)

\* The report is done: a reader answers, a warmer goes on to its next key.
Finished(t, answer) ==
    IF t \in Readers \/ Len(task[t].keys) = 1
    THEN [Idle EXCEPT !.answer = IF t \in Readers THEN answer ELSE @]
    ELSE ToDatabase(Tail(task[t].keys))

FindAllActive(t) ==
    /\ task[t].pc = "clients"
    /\ task' = [task EXCEPT ![t].pc = "query", ![t].todo = Clients]
    /\ UNCHANGED <<usage, cache, left, cron>>

ToWrite(t, report) == [Idle EXCEPT !.pc = "write", !.keys = task[t].keys, !.report = report]

\* After the last query an empty report is not written.
AfterQuery(t, report, todo) ==
    task' = IF todo # {} THEN [task EXCEPT ![t].report = report, ![t].todo = todo]
            ELSE IF report # Empty
            THEN [task EXCEPT ![t] = ToWrite(t, report)]
            ELSE [task EXCEPT ![t] = Finished(t, "sent")]

\* The client whose rows are asked for next.
Newest(t) == {c \in task[t].todo : \A d \in task[t].todo : CreatedAt[d] <= CreatedAt[c]}

\* The rows that a query of a daily report may count for a client.  Its startDate is taken
\* when the query is issued: what has left the period since then is still counted.
Countable(t, c) == usage[WindowOf[KeyOf(t)]][c] .. task[t].met[c]

\* The clients that a top report may list: those with rows after its startDate, which is
\* taken when it is begun, and of them no more than the limit, those with the most rows.
TopLists(t) ==
    LET seen == {c \in Clients : task[t].met[c] > 0}
        limit == TopLimit[KeyOf(t)]
    IN  {listed \in SUBSET seen :
           /\ listed = seen \/ Cardinality(listed) = limit
           /\ Cardinality(listed) <= limit
           /\ \A c \in listed, d \in seen \ listed : task[t].met[d] <= task[t].met[c]}

TopReport(t, listed) == [c \in Clients |-> IF c \in listed THEN task[t].met[c] ELSE 0]

\* Mutant of Query: a daily report is done after its first query.
QueryOnce(t) ==
    /\ task[t].pc = "query"
    /\ \/ KeyOf(t) \in Range(DailyKeys) /\ \E c \in Newest(t) : \E n \in Countable(t, c) :
            AfterQuery(t, [task[t].report EXCEPT ![c] = n], {})
       \/ KeyOf(t) \in Range(TopKeys) /\ \E listed \in TopLists(t) :
            AfterQuery(t, TopReport(t, listed), {})
    /\ UNCHANGED <<usage, cache, left, cron>>

\* Mutant of Query: an empty top report is written too.
QueryWritesEmpty(t) ==
    /\ task[t].pc = "query"
    /\ \/ KeyOf(t) \in Range(DailyKeys) /\ \E c \in Newest(t) : \E n \in Countable(t, c) :
            AfterQuery(t, [task[t].report EXCEPT ![c] = n], task[t].todo \ {c})
       \/ KeyOf(t) \in Range(TopKeys) /\ \E listed \in TopLists(t) :
            task' = [task EXCEPT ![t] = ToWrite(t, TopReport(t, listed))]
    /\ UNCHANGED <<usage, cache, left, cron>>

\* A daily report asks for one client after the other, a top report for all at once.
Query(t) ==
    /\ task[t].pc = "query"
    /\ \/ KeyOf(t) \in Range(DailyKeys) /\ \E c \in Newest(t) : \E n \in Countable(t, c) :
            AfterQuery(t, [task[t].report EXCEPT ![c] = n], task[t].todo \ {c})
       \/ KeyOf(t) \in Range(TopKeys) /\ \E listed \in TopLists(t) :
            AfterQuery(t, TopReport(t, listed), {})
    /\ UNCHANGED <<usage, cache, left, cron>>

\* SETEX.
WriteCache(t) ==
    /\ task[t].pc = "write"
    /\ cache' = [cache EXCEPT ![KeyOf(t)] = {task[t].report}]
    /\ left' = [left EXCEPT ![KeyOf(t)] = TTL]
    /\ task' = [task EXCEPT ![t] = Finished(t, "sent")]
    /\ UNCHANGED <<usage, cron>>

\* A reader answers all the same; a warmer's error is caught key by key.
WriteFails(t) ==
    /\ task[t].pc = "write"
    /\ task' = [task EXCEPT ![t] = Finished(t, "sent")]
    /\ UNCHANGED <<usage, cache, left, cron>>

\* Mutant of DatabaseFails: the report is begun again.
DatabaseFailsAgain(t) ==
    /\ task[t].pc \in {"clients", "query"}
    /\ task' = [task EXCEPT ![t] = ToDatabase(task[t].keys)]
    /\ UNCHANGED <<usage, cache, left, cron>>

\* A query is rejected once withDatabaseRetry has given up.  That is one outcome when the
\* database is down; the other is that nothing comes at all, for the DataSource sets no
\* timeout of a query and no keepAlive (Unanswered).
DatabaseFails(t) ==
    /\ task[t].pc \in {"clients", "query"}
    /\ task' = [task EXCEPT ![t] = Finished(t, "failed")]
    /\ UNCHANGED <<usage, cache, left, cron>>

-----------------------------------------------------------------------------
(* Readers: getDailyUsage and getTopClients. *)

StartRead(r, k) ==
    /\ task[r].pc = "idle"
    /\ task' = [task EXCEPT ![r] = [Idle EXCEPT !.pc = "cache", !.keys = <<k>>]]
    /\ UNCHANGED <<usage, cache, left, cron>>

CacheHit(r) ==
    /\ task[r].pc = "cache"
    /\ cache[KeyOf(r)] # {}
    /\ task' = [task EXCEPT ![r] = Finished(r, "sent")]
    /\ UNCHANGED <<usage, cache, left, cron>>

CacheMiss(r) ==
    /\ task[r].pc = "cache"
    /\ cache[KeyOf(r)] = {}
    /\ task' = [task EXCEPT ![r] = ToDatabase(task[r].keys)]
    /\ UNCHANGED <<usage, cache, left, cron>>

\* Mutant of CacheReadFails: the inner try is missing.
CacheReadFailsRequest(r) ==
    /\ task[r].pc = "cache"
    /\ task' = [task EXCEPT ![r] = Finished(r, "failed")]
    /\ UNCHANGED <<usage, cache, left, cron>>

CacheReadFails(r) ==
    /\ task[r].pc = "cache"
    /\ task' = [task EXCEPT ![r] = ToDatabase(task[r].keys)]
    /\ UNCHANGED <<usage, cache, left, cron>>

-----------------------------------------------------------------------------
(* The cron job: prewarmHotKeys. *)

\* What getHotCacheKeys may return when there are hot keys: each at most once, in the
\* order of the scan.  Which keys were accessed often and mostly missed, the counters in
\* Redis say; here it is any of them.  When there are none, or they cannot be read,
\* StandardPrewarm follows at once.
HotKeys ==
    LET lengths == 1 .. Len(DailyKeys) + Len(TopKeys)
    IN  {hot \in UNION {[1 .. n -> Keys] : n \in lengths} : IsInjective(hot)}

\* prewarmByCacheKey is called for one hot key after the other.
\* A run that outlasts ten minutes, beside which the next one would start, is not modelled.
PrewarmHotKeys(hot) ==
    /\ cron = "idle"
    /\ cron' = "hot"
    /\ task' = [task EXCEPT !["hot"] = ToDatabase(hot)]
    /\ UNCHANGED <<usage, cache, left>>

\* No hot key, or the hot keys are done: the standard pre-warming.
StandardPrewarm ==
    /\ cron \in {"idle", "hot"}
    /\ task["hot"].pc = "idle"
    /\ cron' = "all"
    /\ task' = PrewarmAll(task)
    /\ UNCHANGED <<usage, cache, left>>

PrewarmReturns ==
    /\ cron = "all"
    /\ task["daily"].pc = "idle" /\ task["top"].pc = "idle"
    /\ cron' = "idle"
    /\ UNCHANGED <<usage, cache, left, task>>

-----------------------------------------------------------------------------
(* The environment. *)

\* The reports that are being counted, and those of one period.
Counting == {t \in Tasks : task[t].pc \in {"clients", "query"}}
CountingOf(w) == {t \in Counting : WindowOf[KeyOf(t)] = w}

\* A flush of the batch writer commits a row, which every period has.
RowsArrive(c) ==
    /\ \A w \in Windows : usage[w][c] < MaxRows
    /\ \A t \in Counting : task[t].met[c] < MaxRows
    /\ usage' = [w \in Windows |-> [usage[w] EXCEPT ![c] = @ + 1]]
    /\ task' = [t \in Tasks |-> IF t \in Counting THEN [task[t] EXCEPT !.met[c] = @ + 1]
                                ELSE task[t]]
    /\ UNCHANGED <<cache, left, cron>>

\* As time passes a row becomes older than a period; the rows of longest standing go first.
RowsLeave(w, c) ==
    /\ usage[w][c] > 0
    /\ usage' = [usage EXCEPT ![w][c] = @ - 1]
    /\ task' = [t \in Tasks |-> IF t \in CountingOf(w) /\ task[t].kept[c] > 0
                                THEN [task[t] EXCEPT !.kept[c] = @ - 1] ELSE task[t]]
    /\ UNCHANGED <<cache, left, cron>>

\* Mutant of Tick: the reports are stored without a time to live.
TickForEver ==
    /\ left' = [k \in Keys |-> left[k]]
    /\ cache' = [k \in Keys |-> cache[k]]
    /\ UNCHANGED <<usage, task, cron>>

\* Time passes, and Redis removes what has expired.
Tick ==
    /\ left' = [k \in Keys |-> IF left[k] = 0 THEN 0 ELSE left[k] - 1]
    /\ cache' = [k \in Keys |-> IF left[k] <= 1 THEN {} ELSE cache[k]]
    /\ UNCHANGED <<usage, task, cron>>

-----------------------------------------------------------------------------
\* What a task awaits has settled.
Resume(t) ==
    \/ FindAllActive(t)
    \/ Query(t)
    \/ WriteCache(t)
    \/ WriteFails(t)
    \/ DatabaseFails(t)
    \/ CacheHit(t)
    \/ CacheMiss(t)
    \/ CacheReadFails(t)

Next ==
    \/ \E r \in Readers, k \in Keys : StartRead(r, k)
    \/ \E t \in Tasks : Resume(t)
    \/ \E hot \in HotKeys : PrewarmHotKeys(hot)
    \/ StandardPrewarm
    \/ PrewarmReturns
    \/ \E c \in Clients : RowsArrive(c)
    \/ \E w \in Windows, c \in Clients : RowsLeave(w, c)
    \/ Tick

Spec == Init /\ [][Next]_vars

\* Time passes, and every query and command settles, with a result or an error, but for
\* those of the tasks in Unanswered: neither the DataSource nor the Redis clients set a
\* timeout.  Nothing makes a reader come, the cron job run or a dependency recover.
Fairness ==
    /\ \A t \in Tasks \ Unanswered : WF_vars(Resume(t))
    /\ WF_vars(PrewarmReturns)
    /\ WF_vars(cron = "hot" /\ StandardPrewarm)
    /\ WF_vars(Tick)

FairSpec == Spec /\ Fairness

-----------------------------------------------------------------------------
(* Properties. *)

\* Redis never costs an answer: whatever command of a request fails, and whenever,
\* the request fails only when a query of its own does.
FailsOnlyWithDatabase ==
    [][\A r \in Readers :
         task'[r].answer = "failed" /\ task[r].answer # "failed" =>
           task[r].pc \in {"clients", "query"}]_vars

\* Whether a report under key k counts for each client as many rows as low and high
\* allow; a client that a top report leaves out has no more than each of those it lists,
\* of which there are as many as its limit.
Counts(k, report, low, high) ==
    LET listed == {c \in Clients : report[c] > 0}
    IN  \A c \in Clients :
          /\ report[c] <= high[c]
          /\ \/ low[c] <= report[c]
             \/ /\ k \in Range(TopKeys)
                /\ Cardinality(listed) = TopLimit[k]
                /\ \A d \in listed : low[c] <= report[d]

\* A report that is to be written was true while it was made, though rows came and went:
\* for each client it counts the rows that were in its period throughout, and none that
\* were not in it at all, or leaves the client out for others with as many.  A daily
\* report is not one snapshot, but it mixes nothing of an earlier report in.
WrittenReportsAreCurrent ==
    [][\A t \in Tasks : task[t].pc # "write" /\ task'[t].pc = "write" =>
         Counts(KeyOf(t), task'[t].report, task[t].kept, task[t].met)]_vars

\* Whether a report is the one that the database would give now.
UpToDate(k, report) == Counts(k, report, usage[WindowOf[k]], usage[WindowOf[k]])

\* The cache converges: while no rows come or go any more no key holds an old report for
\* good, though readers and warmers go on writing what they counted before.
CacheConverges ==
    <>[][usage' = usage]_vars =>
      <>[](\A k \in Keys : \A report \in cache[k] : UpToDate(k, report))

\* Every request whose queries and commands settle is answered, also while the database
\* rejects every query or Redis every command, and every pre-warming returns unless one of
\* its two halves, or the hot keys before them, awaits what never comes.
TasksSettle ==
    /\ \A r \in Readers \ Unanswered : task[r].pc # "idle" ~> task[r].pc = "idle"
    /\ cron # "idle" ~>
         cron = "idle" \/ \E t \in Unanswered \cap Warmers : task[t].pc # "idle"

=============================================================================
