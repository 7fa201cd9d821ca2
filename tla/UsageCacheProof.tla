-------------------------- MODULE UsageCacheProof ---------------------------
(***************************************************************************)
(* Theorems about UsageCache, for any clients, keys, periods, limits,      *)
(* readers, time to live and number of rows: its types, that a report      *)
(* which is written was true while it was made, that Redis never costs an  *)
(* answer, that only rows which come or go make the cache old again, and   *)
(* that every step of a task brings it nearer to its end.                  *)
(***************************************************************************)
EXTENDS UsageCache, SequenceTheorems, FiniteSetTheorems, TLAPS

-----------------------------------------------------------------------------
(* Tasks. *)

\* Whether a report counts, for these clients, the rows that were there throughout and
\* none that were not there at all.
Current(tk, clients) ==
    \A c \in clients : tk.kept[c] <= tk.report[c] /\ tk.report[c] <= tk.met[c]

\* A task has a key in hand; while it counts, what is in the period has been met, and what
\* was kept is there; what it has counted so far is current.
Sound(tk) ==
    /\ tk.pc # "idle" => tk.keys # <<>>
    /\ tk.pc \in {"clients", "query"} =>
         LET now == usage[WindowOf[Head(tk.keys)]]
         IN  \A c \in Clients : tk.kept[c] <= now[c] /\ now[c] <= tk.met[c]
    /\ tk.pc = "clients" => Head(tk.keys) \in Range(DailyKeys)
    /\ tk.pc = "query" =>
         IF Head(tk.keys) \in Range(DailyKeys) THEN Current(tk, Clients \ tk.todo) ELSE tk.todo = {}
    /\ tk.pc = "write" => tk.report # Empty

ReportsInv == \A t \in Tasks : Sound(task[t])

LEMMA KeyLists ==
    /\ DailyKeys \in Seq(Keys) /\ DailyKeys # <<>> /\ Head(DailyKeys) \in Range(DailyKeys)
    /\ TopKeys \in Seq(Keys) /\ TopKeys # <<>> /\ Head(TopKeys) \notin Range(DailyKeys)
<1>1. ASSUME NEW keys \in {DailyKeys, TopKeys}
      PROVE  keys \in Seq(Keys) /\ keys # <<>> /\ Head(keys) \in Range(keys)
  <2>1. keys \in Seq(Range(keys)) /\ keys # <<>>
    BY CacheAssumption
  <2>2. Range(keys) \subseteq Keys
    BY DEF Keys
  <2>3. keys \in Seq(Keys)
    BY <2>1, <2>2, SeqMonotonic
  <2> QED
    BY <2>1, <2>3, HeadTailProperties
<1> QED
  BY <1>1, CacheAssumption

LEMMA EmptyReport == Empty \in Reports /\ <<>> \in Seq(Keys)
  BY CacheAssumption, EmptySeq DEF Empty, Reports

LEMMA ReportFacts ==
    ASSUME NEW report \in Reports
    PROVE  \A c \in Clients : report[c] \in Nat /\ report[c] <= MaxRows /\ 0 <= report[c]
  BY CacheAssumption DEF Reports

LEMMA UsageFacts ==
    ASSUME usage \in [Windows -> Reports], NEW keys \in Seq(Keys), keys # <<>>
    PROVE  Head(keys) \in Keys /\ usage[WindowOf[Head(keys)]] \in Reports
<1>1. Head(keys) \in Keys
  BY HeadTailProperties
<1>2. WindowOf[Head(keys)] \in Windows
  BY <1>1, WindowAssumption
<1> QED
  BY <1>1, <1>2

LEMMA IdleType == Idle \in TaskStates /\ Idle.pc = "idle" /\ Idle.answer = "sent"
  BY EmptyReport DEF Idle, TaskStates

LEMMA IdleSound ==
    ASSUME NEW a \in {"sent", "failed"}
    PROVE  /\ [Idle EXCEPT !.answer = a] \in TaskStates
           /\ Sound([Idle EXCEPT !.answer = a])
<1> DEFINE idle == [Idle EXCEPT !.answer = a]
<1>1. idle \in TaskStates /\ idle.pc = "idle"
  BY IdleType DEF TaskStates
<1> HIDE DEF idle
<1>2. Sound(idle)
  BY <1>1 DEF Sound
<1> QED
  BY <1>1, <1>2 DEF idle

LEMMA ToDatabaseSound ==
    ASSUME usage \in [Windows -> Reports], NEW keys \in Seq(Keys), keys # <<>>
    PROVE  ToDatabase(keys) \in TaskStates /\ Sound(ToDatabase(keys))
<1> DEFINE now == usage[WindowOf[Head(keys)]]
           db == ToDatabase(keys)
<1>1. now \in Reports
  BY UsageFacts
<1>2. \A c \in Clients : now[c] <= now[c]
  BY <1>1, ReportFacts
<1>3. /\ db.pc = IF Head(keys) \in Range(DailyKeys) THEN "clients" ELSE "query"
      /\ db.keys = keys /\ db.todo = {} /\ db.met = now /\ db.kept = now
  BY DEF ToDatabase
<1>4. db \in TaskStates
  BY <1>1, EmptyReport DEF ToDatabase, TaskStates
<1> HIDE DEF db
<1>5. \A c \in Clients : db.kept[c] <= now[c] /\ now[c] <= db.met[c]
  BY <1>2, <1>3
<1>6. Sound(db)
  BY <1>3, <1>5 DEF Sound
<1> QED
  BY <1>4, <1>6 DEF db

\* What is left of a task that is done with a key.
LEMMA FinishedSound ==
    ASSUME TypeOK, ReportsInv, NEW t \in Tasks, task[t].pc # "idle", NEW a \in {"sent", "failed"}
    PROVE  /\ Finished(t, a) \in TaskStates /\ Sound(Finished(t, a))
           /\ Finished(t, a).answer \in {"sent", a}
<1>1. usage \in [Windows -> Reports] /\ task[t] \in TaskStates /\ task[t].keys # <<>>
  BY DEF TypeOK, ReportsInv, Sound
<1>2. task[t].keys \in Seq(Keys)
  BY <1>1 DEF TaskStates
<1>3. CASE t \in Readers \/ Len(task[t].keys) = 1
  <2>1. PICK b \in {"sent", a} : Finished(t, a) = [Idle EXCEPT !.answer = b]
    BY <1>3 DEF Finished, Idle
  <2>2. [Idle EXCEPT !.answer = b].answer = b
    BY DEF Idle
  <2> QED
    BY <1>1, <2>1, <2>2, IdleSound
<1>4. CASE ~(t \in Readers \/ Len(task[t].keys) = 1)
  <2> DEFINE rest == Tail(task[t].keys)
  <2>1. rest \in Seq(Keys) /\ rest # <<>>
    <3> DEFINE n == Len(task[t].keys)
               m == Len(rest)
    <3>1. n \in Nat /\ n # 0
      BY <1>1, <1>2, LenProperties, EmptySeq
    <3>2. rest \in Seq(Keys) /\ m = n - 1
      BY <1>1, <1>2, HeadTailProperties
    <3>3. n # 1
      BY <1>4
    <3>4. m # 0
      <4> HIDE DEF n, m
      <4> QED
        BY <3>1, <3>2, <3>3
    <3> QED
      BY <3>2, <3>4, EmptySeq
  <2> HIDE DEF rest
  <2>2. Finished(t, a) = ToDatabase(rest)
    BY <1>4 DEF Finished, rest
  <2>3. ToDatabase(rest).answer = "sent"
    BY DEF ToDatabase
  <2> QED
    BY <1>1, <2>1, <2>2, <2>3, ToDatabaseSound
<1> QED
  BY <1>3, <1>4

-----------------------------------------------------------------------------
(* Steps. *)

\* What a step does to the tasks: the types and what they have counted are kept, and
\* an answer fails only while a query is awaited.
TasksKept ==
    /\ task' \in [Tasks -> TaskStates]
    /\ ReportsInv'
    /\ \A t \in Tasks : \/ task'[t].answer \in {task[t].answer, "sent"}
                        \/ task[t].pc \in {"clients", "query"}

LEMMA OneTaskMoves ==
    ASSUME TypeOK, ReportsInv, usage' = usage, NEW t \in Tasks, NEW new \in TaskStates,
           Sound(new),
           new.answer \in {task[t].answer, "sent"} \/ task[t].pc \in {"clients", "query"},
           task' = [task EXCEPT ![t] = new]
    PROVE  TasksKept
<1>1. task \in [Tasks -> TaskStates]
  BY DEF TypeOK
<1>2. \A u \in Tasks : task'[u] = IF u = t THEN new ELSE task[u]
  BY <1>1
<1>3. task' \in [Tasks -> TaskStates]
  BY <1>1
<1>4. ASSUME NEW u \in Tasks PROVE Sound(task[u])'
  <2>1. Sound(task'[u])
    BY <1>2 DEF ReportsInv
  <2> QED
    BY <2>1 DEF Sound, Current
<1>5. ReportsInv'
  BY <1>4 DEF ReportsInv
<1> QED
  BY <1>2, <1>3, <1>5 DEF TasksKept

\* A task that goes on counting for the key in hand.
LEMMA CountingKept ==
    ASSUME TypeOK, ReportsInv, usage' = usage, NEW t \in Tasks, NEW new \in TaskStates,
           task[t].pc \in {"clients", "query"}, task' = [task EXCEPT ![t] = new],
           new.pc = "query", new.keys = task[t].keys,
           new.met = task[t].met, new.kept = task[t].kept,
           IF KeyOf(t) \in Range(DailyKeys) THEN Current(new, Clients \ new.todo)
           ELSE new.todo = {}
    PROVE  TasksKept
<1>1. Sound(task[t])
  BY DEF ReportsInv
<1>2. Sound(new)
  BY <1>1 DEF Sound, KeyOf
<1> QED
  BY <1>2, OneTaskMoves

LEMMA FindAllActiveKept ==
    ASSUME TypeOK, ReportsInv, NEW t \in Tasks, FindAllActive(t)
    PROVE  TasksKept
<1> DEFINE new == [task[t] EXCEPT !.pc = "query", !.todo = Clients]
<1>1. task \in [Tasks -> TaskStates] /\ task[t] \in TaskStates
  BY DEF TypeOK
<1>2. /\ new \in TaskStates /\ new.pc = "query" /\ new.todo = Clients
      /\ new.keys = task[t].keys /\ new.met = task[t].met /\ new.kept = task[t].kept
  BY <1>1 DEF TaskStates
<1>3. task' = [task EXCEPT ![t] = new] /\ task[t].pc = "clients" /\ usage' = usage
  BY <1>1 DEF FindAllActive
<1>4. KeyOf(t) \in Range(DailyKeys)
  BY <1>3 DEF ReportsInv, Sound, KeyOf
<1> HIDE DEF new
<1>5. Current(new, Clients \ new.todo)
  BY <1>2 DEF Current
<1> QED
  BY <1>2, <1>3, <1>4, <1>5, CountingKept

\* A report that is made, which has counted something.
LEMMA ToWriteSound ==
    ASSUME TypeOK, ReportsInv, NEW t \in Tasks, task[t].pc = "query",
           NEW report \in Reports, report # Empty
    PROVE  /\ ToWrite(t, report) \in TaskStates /\ Sound(ToWrite(t, report))
           /\ ToWrite(t, report).answer = "sent"
<1>1. task[t] \in TaskStates /\ task[t].keys # <<>>
  BY DEF TypeOK, ReportsInv, Sound
<1>2. task[t].keys \in Seq(Keys)
  BY <1>1 DEF TaskStates
<1> DEFINE write == ToWrite(t, report)
<1>3. /\ write \in TaskStates /\ write.pc = "write" /\ write.keys = task[t].keys
      /\ write.report = report /\ write.answer = "sent"
  BY <1>2, IdleType DEF ToWrite, TaskStates
<1> HIDE DEF write
<1>4. Sound(write)
  BY <1>1, <1>3 DEF Sound
<1> QED
  BY <1>3, <1>4 DEF write

LEMMA AfterQueryKept ==
    ASSUME TypeOK, ReportsInv, usage' = usage, NEW t \in Tasks, task[t].pc = "query",
           NEW report \in Reports, NEW todo \in SUBSET Clients, AfterQuery(t, report, todo),
           todo # {} =>
             /\ KeyOf(t) \in Range(DailyKeys)
             /\ \A c \in Clients \ todo :
                  task[t].kept[c] <= report[c] /\ report[c] <= task[t].met[c]
    PROVE  TasksKept
<1> DEFINE more == [task[t] EXCEPT !.report = report, !.todo = todo]
<1>1. task \in [Tasks -> TaskStates] /\ task[t] \in TaskStates
  BY DEF TypeOK
<1>2. /\ more \in TaskStates /\ more.pc = "query" /\ more.todo = todo /\ more.report = report
      /\ more.keys = task[t].keys /\ more.met = task[t].met /\ more.kept = task[t].kept
  BY <1>1 DEF TaskStates
<1>3. CASE todo # {}
  <2>1. task' = [task EXCEPT ![t] = more]
    BY <1>1, <1>3 DEF AfterQuery
  <2> HIDE DEF more
  <2>2. Current(more, Clients \ more.todo)
    BY <1>2, <1>3 DEF Current
  <2> QED
    BY <1>2, <1>3, <2>1, <2>2, CountingKept
<1>4. CASE todo = {} /\ report # Empty
  BY <1>4, ToWriteSound, OneTaskMoves DEF AfterQuery
<1>5. CASE todo = {} /\ report = Empty
  BY <1>5, FinishedSound, OneTaskMoves DEF AfterQuery
<1> QED
  BY <1>3, <1>4, <1>5

\* One client's rows.
LEMMA DailyQuery ==
    ASSUME TypeOK, ReportsInv, NEW t \in Tasks, task[t].pc = "query",
           KeyOf(t) \in Range(DailyKeys), NEW c \in Newest(t), NEW n \in Countable(t, c)
    PROVE  LET report == [task[t].report EXCEPT ![c] = n]
               todo == task[t].todo \ {c}
           IN  /\ c \in Clients /\ report \in Reports /\ todo \in SUBSET Clients
               /\ \A d \in Clients \ todo :
                    task[t].kept[d] <= report[d] /\ report[d] <= task[t].met[d]
<1> DEFINE now == usage[WindowOf[KeyOf(t)]]
           report == [task[t].report EXCEPT ![c] = n]
           todo == task[t].todo \ {c}
<1>1. /\ task[t] \in TaskStates /\ task[t].keys # <<>> /\ usage \in [Windows -> Reports]
      /\ Sound(task[t])
  BY DEF TypeOK, ReportsInv, Sound
<1>2. /\ task[t].keys \in Seq(Keys) /\ task[t].todo \subseteq Clients
      /\ task[t].report \in Reports /\ task[t].met \in Reports /\ task[t].kept \in Reports
  BY <1>1 DEF TaskStates
<1>3. now \in Reports
  BY <1>1, <1>2, UsageFacts DEF KeyOf
<1>4. /\ \A d \in Clients : task[t].kept[d] <= now[d] /\ now[d] <= task[t].met[d]
      /\ Current(task[t], Clients \ task[t].todo)
  BY <1>1 DEF Sound, KeyOf
<1>5. c \in Clients /\ c \in task[t].todo
  BY <1>2 DEF Newest
<1>6. /\ now[c] \in Nat /\ task[t].met[c] \in Nat /\ task[t].kept[c] \in Nat
      /\ task[t].met[c] <= MaxRows /\ task[t].kept[c] <= now[c]
  BY <1>2, <1>3, <1>4, <1>5, ReportFacts
<1>7. n \in Nat /\ now[c] <= n /\ n <= task[t].met[c]
  BY <1>6 DEF Countable
<1>8. n \in 0 .. MaxRows /\ task[t].kept[c] <= n
  BY <1>6, <1>7, CacheAssumption
<1>9. report \in Reports
  BY <1>2, <1>8 DEF Reports
<1>10. ASSUME NEW d \in Clients \ todo
       PROVE  task[t].kept[d] <= report[d] /\ report[d] <= task[t].met[d]
  <2>1. CASE d = c
    BY <1>2, <1>5, <1>7, <1>8, <2>1 DEF Reports
  <2>2. CASE d # c
    BY <1>2, <1>4, <2>2 DEF Reports, Current
  <2> QED
    BY <2>1, <2>2
<1> QED
  BY <1>2, <1>5, <1>9, <1>10

LEMMA TopReportType ==
    ASSUME TypeOK, NEW t \in Tasks, NEW listed
    PROVE  TopReport(t, listed) \in Reports
<1>1. task[t].met \in Reports
  BY DEF TypeOK, TaskStates
<1> QED
  BY <1>1, CacheAssumption DEF TopReport, Reports

LEMMA QueryKept ==
    ASSUME TypeOK, ReportsInv, NEW t \in Tasks, Query(t)
    PROVE  TasksKept
<1>1. task[t].pc = "query" /\ usage' = usage
  BY DEF Query
<1>2. ASSUME KeyOf(t) \in Range(DailyKeys), NEW c \in Newest(t), NEW n \in Countable(t, c),
             AfterQuery(t, [task[t].report EXCEPT ![c] = n], task[t].todo \ {c})
      PROVE  TasksKept
  BY <1>1, <1>2, DailyQuery, AfterQueryKept
<1>3. ASSUME NEW listed \in TopLists(t), AfterQuery(t, TopReport(t, listed), {})
      PROVE  TasksKept
  BY <1>1, <1>3, TopReportType, AfterQueryKept
<1> QED
  BY <1>2, <1>3 DEF Query

\* The last query: what is to be written was true while it was made.
LEMMA QueryCounts ==
    ASSUME TypeOK, ReportsInv, NEW t \in Tasks, Query(t), task'[t].pc = "write"
    PROVE  Counts(KeyOf(t), task'[t].report, task[t].kept, task[t].met)
<1> DEFINE now == usage[WindowOf[KeyOf(t)]]
           kept == task[t].kept
           met == task[t].met
           k == KeyOf(t)
<1>1. /\ task \in [Tasks -> TaskStates] /\ task[t] \in TaskStates /\ task[t].pc = "query"
      /\ task[t].keys # <<>> /\ usage \in [Windows -> Reports] /\ Sound(task[t])
  BY DEF TypeOK, ReportsInv, Sound, Query
<1>2. task[t].keys \in Seq(Keys) /\ met \in Reports /\ kept \in Reports
  BY <1>1 DEF TaskStates
<1>3. now \in Reports
  BY <1>1, <1>2, UsageFacts DEF KeyOf
<1>4. \A c \in Clients : kept[c] <= now[c] /\ now[c] <= met[c]
  BY <1>1 DEF Sound, KeyOf
<1>5. \A c \in Clients : kept[c] \in Nat /\ met[c] \in Nat /\ kept[c] <= met[c]
  <2>1. \A c \in Clients : kept[c] \in Nat /\ met[c] \in Nat /\ now[c] \in Nat
    BY <1>2, <1>3, ReportFacts
  <2> HIDE DEF kept, met, now
  <2> QED
    BY <1>4, <2>1
\* What AfterQuery leaves to be written.
<1>6. ASSUME NEW report, NEW todo, AfterQuery(t, report, todo)
      PROVE  todo = {} /\ task'[t].report = report
  <2>1. CASE todo # {}
    <3>1. task'[t] = [task[t] EXCEPT !.report = report, !.todo = todo]
      BY <1>1, <1>6, <2>1 DEF AfterQuery
    <3>2. task'[t].pc = "query"
      BY <1>1, <3>1 DEF TaskStates
    <3> QED
      BY <3>2
  <2>2. CASE todo = {} /\ report = Empty
    <3>1. task'[t] = Finished(t, "sent")
      BY <1>1, <1>6, <2>2 DEF AfterQuery
    <3>2. Finished(t, "sent").pc \in {"idle", "clients", "query"}
      BY DEF Finished, Idle, ToDatabase
    <3> QED
      BY <3>1, <3>2
  <2>3. CASE todo = {} /\ report # Empty
    <3>1. task'[t] = ToWrite(t, report)
      BY <1>1, <1>6, <2>3 DEF AfterQuery
    <3> QED
      BY <2>3, <3>1 DEF ToWrite, Idle
  <2> QED
    BY <2>1, <2>2, <2>3
<1>7. ASSUME k \in Range(DailyKeys), NEW c \in Newest(t), NEW n \in Countable(t, c),
             AfterQuery(t, [task[t].report EXCEPT ![c] = n], task[t].todo \ {c})
      PROVE  Counts(k, task'[t].report, kept, met)
  <2>1. \A d \in Clients : kept[d] <= task'[t].report[d] /\ task'[t].report[d] <= met[d]
    BY <1>1, <1>6, <1>7, DailyQuery
  <2> QED
    BY <2>1 DEF Counts
<1>8. ASSUME k \in Range(TopKeys), NEW listed \in TopLists(t),
             AfterQuery(t, TopReport(t, listed), {})
      PROVE  Counts(k, task'[t].report, kept, met)
  <2> DEFINE report == TopReport(t, listed)
             seen == {c \in Clients : met[c] > 0}
  <2>1. task'[t].report = report
    BY <1>6, <1>8
  <2>2. /\ listed \subseteq seen
        /\ listed = seen \/ Cardinality(listed) = TopLimit[k]
        /\ \A c \in listed, d \in seen \ listed : met[d] <= met[c]
    BY <1>8 DEF TopLists
  <2>3. \A c \in Clients : report[c] = IF c \in listed THEN met[c] ELSE 0
    BY DEF TopReport
  <2> HIDE DEF report, met, kept, k
  <2>4. {c \in Clients : report[c] > 0} = listed
    BY <2>2, <2>3
  <2>5. ASSUME NEW c \in Clients
        PROVE  /\ report[c] <= met[c]
               /\ \/ kept[c] <= report[c]
                  \/ /\ Cardinality(listed) = TopLimit[k]
                     /\ \A d \in listed : kept[c] <= report[d]
    <3>1. report[c] <= met[c]
      BY <1>5, <2>3
    <3>2. CASE c \in listed \/ c \notin seen
      <4>1. kept[c] <= report[c]
        BY <1>5, <2>3, <3>2
      <4> QED
        BY <3>1, <4>1
    <3>3. CASE c \in seen \ listed
      <4>1. \A d \in listed : d \in Clients /\ met[c] <= met[d] /\ report[d] = met[d]
        BY <2>2, <2>3, <3>3
      <4>2. \A d \in listed : kept[c] <= report[d]
        BY <1>5, <4>1
      <4> QED
        BY <2>2, <3>1, <3>3, <4>2
    <3> QED
      BY <3>2, <3>3
  <2> QED
    BY <1>8, <2>1, <2>4, <2>5 DEF Counts
<1> QED
  BY <1>7, <1>8 DEF Query

LEMMA TaskFinishes ==
    ASSUME TypeOK, ReportsInv, NEW t \in Tasks, task[t].pc # "idle", usage' = usage,
           NEW a \in {"sent", "failed"},
           a = "failed" => task[t].pc \in {"clients", "query"},
           task' = [task EXCEPT ![t] = Finished(t, a)]
    PROVE  TasksKept
BY FinishedSound, OneTaskMoves

LEMMA TaskBegins ==
    ASSUME TypeOK, ReportsInv, NEW t \in Tasks, usage' = usage, NEW keys \in Seq(Keys),
           keys # <<>>, task' = [task EXCEPT ![t] = ToDatabase(keys)]
    PROVE  TasksKept
<1>1. ToDatabase(keys) \in TaskStates /\ Sound(ToDatabase(keys)) /\ ToDatabase(keys).answer = "sent"
  BY ToDatabaseSound DEF TypeOK, ToDatabase
<1> QED
  BY <1>1, OneTaskMoves

LEMMA ResumeKept ==
    ASSUME TypeOK, ReportsInv, NEW t \in Tasks, Resume(t)
    PROVE  TasksKept
<1>1. /\ task \in [Tasks -> TaskStates] /\ task[t].keys \in Seq(Keys) /\ usage' = usage
  <2>1. task[t] \in TaskStates
    BY DEF TypeOK
  <2>2. task[t].keys \in Seq(Keys)
    BY <2>1 DEF TaskStates
  <2>3. usage' = usage
    BY DEF Resume, FindAllActive, Query, WriteCache, WriteFails, DatabaseFails, CacheHit, CacheMiss,
           CacheReadFails
  <2> QED
    BY <2>1, <2>2, <2>3 DEF TypeOK
<1>2. CASE FindAllActive(t)
  BY <1>2, FindAllActiveKept
<1>3. CASE Query(t)
  BY <1>3, QueryKept
<1>4. CASE WriteCache(t) \/ WriteFails(t) \/ CacheHit(t)
  BY <1>1, <1>4, TaskFinishes DEF WriteCache, WriteFails, CacheHit
<1>5. CASE DatabaseFails(t)
  BY <1>1, <1>5, TaskFinishes DEF DatabaseFails
<1>6. CASE CacheMiss(t) \/ CacheReadFails(t)
  <2>1. task[t].pc # "idle" /\ task' = [task EXCEPT ![t] = ToDatabase(task[t].keys)]
    BY <1>6 DEF CacheMiss, CacheReadFails
  <2>2. task[t].keys # <<>>
    BY <2>1 DEF ReportsInv, Sound
  <2> QED
    BY <1>1, <2>1, <2>2, TaskBegins
<1> QED
  BY <1>2, <1>3, <1>4, <1>5, <1>6 DEF Resume

LEMMA StartReadKept ==
    ASSUME TypeOK, ReportsInv, NEW r \in Readers, NEW k \in Keys, StartRead(r, k)
    PROVE  TasksKept
<1> DEFINE new == [Idle EXCEPT !.pc = "cache", !.keys = <<k>>]
<1>1. r \in Tasks /\ usage' = usage /\ task' = [task EXCEPT ![r] = new]
  BY DEF StartRead, Tasks
<1>2. <<k>> \in Seq(Keys) /\ <<k>> # <<>>
  OBVIOUS
<1>3. new \in TaskStates /\ new.pc = "cache" /\ new.keys = <<k>> /\ new.answer = "sent"
  BY <1>2, IdleType DEF TaskStates
<1> HIDE DEF new
<1>4. Sound(new)
  BY <1>2, <1>3 DEF Sound
<1> QED
  BY <1>1, <1>3, <1>4, OneTaskMoves

\* The keys of a list of hot ones.
LEMMA HotList ==
    ASSUME NEW hot \in HotKeys
    PROVE  hot \in Seq(Keys) /\ hot # <<>> /\ Head(hot) \in Keys
<1>1. Len(DailyKeys) \in Nat /\ Len(TopKeys) \in Nat
  BY KeyLists, LenProperties
<1>2. PICK n \in 1 .. Len(DailyKeys) + Len(TopKeys) : hot \in [1 .. n -> Keys]
  BY DEF HotKeys
<1>3. n \in Nat /\ n >= 1
  BY <1>1, <1>2
<1>4. hot \in Seq(Keys)
  BY <1>2, <1>3, SeqDef
<1>5. 1 \in DOMAIN hot
  BY <1>2, <1>3
<1>6. hot # <<>>
  BY <1>5, EmptySeq, LenProperties, <1>4
<1> QED
  BY <1>4, <1>6, HeadTailProperties

LEMMA PrewarmHotKeysKept ==
    ASSUME TypeOK, ReportsInv, NEW hot \in HotKeys, PrewarmHotKeys(hot)
    PROVE  TasksKept
<1>1. "hot" \in Tasks /\ usage' = usage /\ task' = [task EXCEPT !["hot"] = ToDatabase(hot)]
  BY DEF PrewarmHotKeys, Tasks, Warmers
<1> QED
  BY <1>1, HotList, TaskBegins

\* The two activations of prewarmAll.
LEMMA PrewarmAllBegins ==
    ASSUME NEW ts \in [Tasks -> TaskStates]
    PROVE  \A t \in Tasks : PrewarmAll(ts)[t] = IF t = "daily" THEN ToDatabase(DailyKeys)
                                                ELSE IF t = "top" THEN ToDatabase(TopKeys) ELSE ts[t]
<1>1. "daily" \in Tasks /\ "top" \in Tasks /\ DOMAIN ts = Tasks
  BY DEF Tasks, Warmers
<1> QED
  BY <1>1 DEF PrewarmAll

LEMMA StandardPrewarmKept ==
    ASSUME TypeOK, ReportsInv, StandardPrewarm
    PROVE  TasksKept
<1>1. /\ task \in [Tasks -> TaskStates] /\ usage \in [Windows -> Reports]
      /\ usage' = usage /\ task' = PrewarmAll(task)
  BY DEF TypeOK, StandardPrewarm
<1>2. DOMAIN task' = Tasks
  BY <1>1 DEF PrewarmAll
<1>3. \A keys \in {DailyKeys, TopKeys} :
        /\ ToDatabase(keys) \in TaskStates /\ Sound(ToDatabase(keys))
        /\ ToDatabase(keys).answer = "sent"
  BY <1>1, KeyLists, ToDatabaseSound DEF ToDatabase
<1>4. ASSUME NEW t \in Tasks
      PROVE  /\ task'[t] \in TaskStates /\ Sound(task'[t])
             /\ task'[t].answer \in {task[t].answer, "sent"}
  BY <1>1, <1>3, PrewarmAllBegins DEF ReportsInv
<1>5. task' \in [Tasks -> TaskStates]
  <2>1. task' = [t \in Tasks |-> task'[t]]
    BY <1>1, <1>2 DEF PrewarmAll
  <2> QED
    BY <1>4, <2>1
<1>6. ASSUME NEW t \in Tasks PROVE Sound(task[t])'
  BY <1>1, <1>4 DEF Sound, Current
<1> QED
  BY <1>4, <1>5, <1>6 DEF TasksKept, ReportsInv

\* Rows that come are met by what is being counted.
LEMMA RowsArriveKept ==
    ASSUME TypeOK, ReportsInv, NEW c \in Clients, RowsArrive(c)
    PROVE  TasksKept /\ usage' \in [Windows -> Reports]
<1>1. /\ usage \in [Windows -> Reports] /\ task \in [Tasks -> TaskStates] /\ MaxRows \in Nat
      /\ \A w \in Windows : usage[w][c] < MaxRows
      /\ \A t \in Counting : task[t].met[c] < MaxRows
      /\ usage' = [w \in Windows |-> [usage[w] EXCEPT ![c] = @ + 1]]
      /\ task' = [t \in Tasks |-> IF t \in Counting THEN [task[t] EXCEPT !.met[c] = @ + 1]
                                  ELSE task[t]]
  BY CacheAssumption DEF TypeOK, RowsArrive
<1>2. ASSUME NEW old \in Reports, old[c] < MaxRows
      PROVE  /\ [old EXCEPT ![c] = @ + 1] \in Reports
             /\ \A d \in Clients :
                  [old EXCEPT ![c] = @ + 1][d] = IF d = c THEN old[d] + 1 ELSE old[d]
  BY <1>1, <1>2 DEF Reports
<1>3. usage' \in [Windows -> Reports]
  BY <1>1, <1>2
<1>4. ASSUME NEW t \in Tasks
      PROVE  /\ task'[t] \in TaskStates /\ Sound(task[t])'
             /\ task'[t].answer = task[t].answer
  <2>1. Sound(task[t]) /\ task[t] \in TaskStates
    BY <1>1 DEF ReportsInv
  <2>2. CASE t \notin Counting
    <3>1. task'[t] = task[t] /\ task[t].pc \notin {"clients", "query"}
      BY <1>1, <2>2 DEF Counting
    <3> QED
      BY <2>1, <3>1 DEF Sound
  <2>3. CASE t \in Counting
    <3> DEFINE more == [task[t].met EXCEPT ![c] = @ + 1]
               now == usage[WindowOf[KeyOf(t)]]
    <3>1. /\ task[t].met \in Reports /\ task[t].report \in Reports /\ task[t].kept \in Reports
          /\ task[t].keys \in Seq(Keys) /\ task[t].pc \in {"clients", "query"}
          /\ task[t].keys # <<>>
      BY <2>1, <2>3 DEF TaskStates, Counting, Sound
    <3>2. /\ more \in Reports
          /\ \A d \in Clients :
               more[d] = IF d = c THEN task[t].met[d] + 1 ELSE task[t].met[d]
      BY <1>1, <1>2, <2>3, <3>1
    <3>3. task'[t] = [task[t] EXCEPT !.met = more]
      BY <1>1, <2>3
    <3> HIDE DEF more
    <3>4. /\ task'[t] \in TaskStates /\ task'[t].pc = task[t].pc /\ task'[t].keys = task[t].keys
          /\ task'[t].todo = task[t].todo /\ task'[t].report = task[t].report
          /\ task'[t].met = more /\ task'[t].kept = task[t].kept
          /\ task'[t].answer = task[t].answer
      BY <2>1, <3>2, <3>3 DEF TaskStates
    <3>5. WindowOf[KeyOf(t)] \in Windows /\ now \in Reports
      <4>1. KeyOf(t) \in Keys
        BY <1>1, <3>1, UsageFacts DEF KeyOf
      <4> QED
        BY <1>1, <4>1, WindowAssumption
    <3>6. \A d \in Clients :
            usage'[WindowOf[KeyOf(t)]][d] = IF d = c THEN now[d] + 1 ELSE now[d]
      BY <1>1, <1>2, <3>5
    <3>7. \A d \in Clients : /\ now[d] \in Nat /\ task[t].met[d] \in Nat /\ task[t].kept[d] \in Nat
                             /\ task[t].report[d] \in Nat
      BY <3>1, <3>5, ReportFacts
    <3>8. \A d \in Clients : task[t].kept[d] <= now[d] /\ now[d] <= task[t].met[d]
      BY <2>1, <3>1 DEF Sound, KeyOf
    <3>9. \A d \in Clients : /\ task[t].kept[d] <= usage'[WindowOf[KeyOf(t)]][d]
                             /\ usage'[WindowOf[KeyOf(t)]][d] <= more[d]
      <4> HIDE DEF now
      <4> QED
        BY <3>2, <3>6, <3>7, <3>8
    <3>10. \A d \in Clients : task[t].report[d] <= task[t].met[d] => task[t].report[d] <= more[d]
      BY <3>2, <3>7
    <3>11. Sound(task[t])'
      BY <2>1, <3>4, <3>9, <3>10 DEF Sound, Current, KeyOf
    <3> QED
      BY <3>4, <3>11
  <2> QED
    BY <2>2, <2>3
<1>5. task' \in [Tasks -> TaskStates]
  BY <1>1, <1>4
<1> QED
  BY <1>3, <1>4, <1>5 DEF TasksKept, ReportsInv

\* Rows that leave were met, and are no longer kept.
LEMMA RowsLeaveKept ==
    ASSUME TypeOK, ReportsInv, NEW w \in Windows, NEW c \in Clients, RowsLeave(w, c)
    PROVE  TasksKept /\ usage' \in [Windows -> Reports]
<1>1. /\ usage \in [Windows -> Reports] /\ task \in [Tasks -> TaskStates] /\ MaxRows \in Nat
      /\ usage[w][c] > 0
      /\ usage' = [usage EXCEPT ![w][c] = @ - 1]
      /\ task' = [t \in Tasks |-> IF t \in CountingOf(w) /\ task[t].kept[c] > 0
                                  THEN [task[t] EXCEPT !.kept[c] = @ - 1] ELSE task[t]]
  BY CacheAssumption DEF TypeOK, RowsLeave
<1>2. ASSUME NEW old \in Reports, old[c] > 0
      PROVE  /\ [old EXCEPT ![c] = @ - 1] \in Reports
             /\ \A d \in Clients :
                  [old EXCEPT ![c] = @ - 1][d] = IF d = c THEN old[d] - 1 ELSE old[d]
  BY <1>1, <1>2 DEF Reports
<1>3. /\ usage' \in [Windows -> Reports]
      /\ \A v \in Windows, d \in Clients :
           usage'[v][d] = IF v = w /\ d = c THEN usage[v][d] - 1 ELSE usage[v][d]
  <2>1. usage[w] \in Reports
    BY <1>1
  <2> DEFINE fewer == [usage[w] EXCEPT ![c] = @ - 1]
  <2>2. usage' = [usage EXCEPT ![w] = fewer]
    BY <1>1
  <2>3. /\ fewer \in Reports
        /\ \A d \in Clients : fewer[d] = IF d = c THEN usage[w][d] - 1 ELSE usage[w][d]
    BY <1>1, <1>2, <2>1
  <2> HIDE DEF fewer
  <2>4. \A v \in Windows : usage'[v] = IF v = w THEN fewer ELSE usage[v]
    BY <1>1, <2>2
  <2> QED
    BY <1>1, <2>2, <2>3, <2>4
<1>4. ASSUME NEW t \in Tasks
      PROVE  /\ task'[t] \in TaskStates /\ Sound(task[t])'
             /\ task'[t].answer = task[t].answer
  <2>1. Sound(task[t]) /\ task[t] \in TaskStates
    BY <1>1 DEF ReportsInv
  <2>2. CASE t \notin Counting
    <3>1. task'[t] = task[t] /\ task[t].pc \notin {"clients", "query"}
      BY <1>1, <2>2 DEF Counting, CountingOf
    <3> QED
      BY <2>1, <3>1 DEF Sound
  <2>3. CASE t \in Counting
    <3> DEFINE fewer == IF t \in CountingOf(w) /\ task[t].kept[c] > 0
                        THEN [task[t].kept EXCEPT ![c] = @ - 1] ELSE task[t].kept
               v == WindowOf[KeyOf(t)]
               now == usage[v]
    <3>1. /\ task[t].met \in Reports /\ task[t].report \in Reports /\ task[t].kept \in Reports
          /\ task[t].keys \in Seq(Keys) /\ task[t].pc \in {"clients", "query"}
          /\ task[t].keys # <<>>
      BY <2>1, <2>3 DEF TaskStates, Counting, Sound
    <3>2. v \in Windows /\ now \in Reports
      <4>1. KeyOf(t) \in Keys
        BY <1>1, <3>1, UsageFacts DEF KeyOf
      <4> QED
        BY <1>1, <4>1, WindowAssumption
    <3>3. /\ fewer \in Reports
          /\ \A d \in Clients :
               fewer[d] = IF v = w /\ d = c /\ task[t].kept[d] > 0
                          THEN task[t].kept[d] - 1 ELSE task[t].kept[d]
      BY <1>2, <2>3, <3>1 DEF CountingOf
    <3>4. task'[t] = [task[t] EXCEPT !.kept = fewer]
      BY <1>1, <2>1, <2>3 DEF TaskStates
    <3> HIDE DEF fewer
    <3>5. /\ task'[t] \in TaskStates /\ task'[t].pc = task[t].pc /\ task'[t].keys = task[t].keys
          /\ task'[t].todo = task[t].todo /\ task'[t].report = task[t].report
          /\ task'[t].met = task[t].met /\ task'[t].kept = fewer
          /\ task'[t].answer = task[t].answer
      BY <2>1, <3>3, <3>4 DEF TaskStates
    <3>6. \A d \in Clients : /\ now[d] \in Nat /\ task[t].met[d] \in Nat /\ task[t].kept[d] \in Nat
                             /\ task[t].report[d] \in Nat
      BY <3>1, <3>2, ReportFacts
    <3>7. \A d \in Clients : task[t].kept[d] <= now[d] /\ now[d] <= task[t].met[d]
      BY <2>1, <3>1 DEF Sound, KeyOf
    <3>8. \A d \in Clients : usage'[v][d] = IF v = w /\ d = c THEN now[d] - 1 ELSE now[d]
      BY <1>3, <3>2
    <3>9. v = w => now[c] > 0
      BY <1>1
    <3>10. \A d \in Clients : fewer[d] <= usage'[v][d] /\ usage'[v][d] <= task[t].met[d]
      <4> HIDE DEF now, v
      <4> QED
        BY <3>3, <3>6, <3>7, <3>8, <3>9
    <3>11. \A d \in Clients : task[t].kept[d] <= task[t].report[d] => fewer[d] <= task[t].report[d]
      BY <3>3, <3>6
    <3>12. Sound(task[t])'
      BY <2>1, <3>5, <3>10, <3>11 DEF Sound, Current, KeyOf
    <3> QED
      BY <3>5, <3>12
  <2> QED
    BY <2>2, <2>3
<1>5. task' \in [Tasks -> TaskStates]
  BY <1>1, <1>4
<1> QED
  BY <1>3, <1>4, <1>5 DEF TasksKept, ReportsInv

-----------------------------------------------------------------------------
(* The cache. *)

CacheOK ==
    /\ cache \in [Keys -> SUBSET (Reports \ {Empty})]
    /\ left \in [Keys -> 0 .. TTL]
    /\ \A k \in Keys : Cardinality(cache[k]) = IF left[k] = 0 THEN 0 ELSE 1

LEMMA WriteKeepsCache ==
    ASSUME TypeOK, ReportsInv, NEW t \in Tasks, WriteCache(t)
    PROVE  CacheOK'
<1>1. task[t] \in TaskStates /\ task[t].keys # <<>> /\ task[t].report # Empty
  BY DEF TypeOK, ReportsInv, Sound, WriteCache
<1>2. task[t].report \in Reports \ {Empty} /\ KeyOf(t) \in Keys
  BY <1>1, HeadTailProperties DEF TaskStates, KeyOf
<1>3. PICK k \in Keys, report \in Reports \ {Empty} : k = KeyOf(t) /\ report = task[t].report
  BY <1>2
<1>4. cache' = [cache EXCEPT ![k] = {report}] /\ left' = [left EXCEPT ![k] = TTL]
  BY <1>3 DEF WriteCache
<1>5. /\ cache \in [Keys -> SUBSET (Reports \ {Empty})] /\ left \in [Keys -> 0 .. TTL]
      /\ \A j \in Keys : Cardinality(cache[j]) = IF left[j] = 0 THEN 0 ELSE 1
  BY DEF TypeOK
<1>6. TTL \in 0 .. TTL /\ TTL # 0
  BY CacheAssumption
<1>7. Cardinality({report}) = 1
  BY FS_Singleton
<1>8. cache' \in [Keys -> SUBSET (Reports \ {Empty})] /\ left' \in [Keys -> 0 .. TTL]
  BY <1>4, <1>5, <1>6
<1>9. ASSUME NEW j \in Keys PROVE Cardinality(cache'[j]) = IF left'[j] = 0 THEN 0 ELSE 1
  <2>1. CASE j = k
    BY <1>4, <1>5, <1>6, <1>7, <2>1
  <2>2. CASE j # k
    BY <1>4, <1>5, <2>2
  <2> QED
    BY <2>1, <2>2
<1> QED
  BY <1>8, <1>9 DEF CacheOK

LEMMA TickKeepsCache == TypeOK /\ Tick => CacheOK'
<1> SUFFICES ASSUME TypeOK, Tick PROVE CacheOK'
  OBVIOUS
<1>1. /\ cache \in [Keys -> SUBSET (Reports \ {Empty})] /\ left \in [Keys -> 0 .. TTL]
      /\ \A k \in Keys : Cardinality(cache[k]) = IF left[k] = 0 THEN 0 ELSE 1
      /\ left' = [k \in Keys |-> IF left[k] = 0 THEN 0 ELSE left[k] - 1]
      /\ cache' = [k \in Keys |-> IF left[k] <= 1 THEN {} ELSE cache[k]]
      /\ TTL \in Nat
  BY CacheAssumption DEF TypeOK, Tick
<1>2. cache' \in [Keys -> SUBSET (Reports \ {Empty})]
  BY <1>1
<1>3. left' \in [Keys -> 0 .. TTL]
  BY <1>1
<1>4. ASSUME NEW k \in Keys PROVE Cardinality(cache'[k]) = IF left'[k] = 0 THEN 0 ELSE 1
  <2>1. left[k] \in Nat
    BY <1>1
  <2>2. CASE left[k] <= 1
    BY <1>1, <2>1, <2>2, FS_EmptySet
  <2>3. CASE ~(left[k] <= 1)
    BY <1>1, <2>1, <2>3
  <2> QED
    BY <2>2, <2>3
<1> QED
  BY <1>2, <1>3, <1>4 DEF CacheOK

-----------------------------------------------------------------------------
(* Theorems. *)

LEMMA InitReports == Init => TypeOK /\ ReportsInv
<1> SUFFICES ASSUME Init PROVE TypeOK /\ ReportsInv
  OBVIOUS
<1> DEFINE idle == [t \in Tasks |-> Idle]
<1>1. usage \in [Windows -> Reports] /\ task = PrewarmAll(idle)
  BY DEF Init
<1>2. Idle = [Idle EXCEPT !.answer = "sent"]
  BY DEF Idle
<1>3. Idle \in TaskStates /\ Sound(Idle)
  BY <1>1, <1>2, IdleSound
<1>4. idle \in [Tasks -> TaskStates]
  BY <1>3
<1>5. \A keys \in {DailyKeys, TopKeys} : ToDatabase(keys) \in TaskStates /\ Sound(ToDatabase(keys))
  BY <1>1, KeyLists, ToDatabaseSound
<1>6. ASSUME NEW t \in Tasks PROVE task[t] \in TaskStates /\ Sound(task[t])
  <2>1. task[t] = IF t = "daily" THEN ToDatabase(DailyKeys)
                  ELSE IF t = "top" THEN ToDatabase(TopKeys) ELSE idle[t]
    BY <1>1, <1>4, PrewarmAllBegins
  <2>2. idle[t] = Idle
    OBVIOUS
  <2> QED
    BY <1>3, <1>5, <2>1, <2>2
<1>7. task \in [Tasks -> TaskStates]
  <2>1. task = [t \in Tasks |-> task[t]]
    BY <1>1 DEF PrewarmAll
  <2> QED
    BY <1>6, <2>1
<1>8. /\ cache \in [Keys -> SUBSET (Reports \ {Empty})] /\ left \in [Keys -> 0 .. TTL]
      /\ \A k \in Keys : Cardinality(cache[k]) = IF left[k] = 0 THEN 0 ELSE 1
  BY CacheAssumption, FS_EmptySet DEF Init
<1>9. cron \in {"idle", "hot", "all"}
  BY DEF Init
<1> QED
  BY <1>1, <1>6, <1>7, <1>8, <1>9 DEF TypeOK, ReportsInv

LEMMA NextTasks ==
    TypeOK /\ ReportsInv /\ [Next]_vars => TasksKept /\ usage' \in [Windows -> Reports]
<1> SUFFICES ASSUME TypeOK, ReportsInv, [Next]_vars
             PROVE  TasksKept /\ usage' \in [Windows -> Reports]
  OBVIOUS
<1>1. ASSUME usage' = usage, task' = task PROVE TasksKept /\ usage' \in [Windows -> Reports]
  <2>1. ASSUME NEW t \in Tasks PROVE Sound(task[t])'
    BY <1>1 DEF ReportsInv, Sound, Current
  <2> QED
    BY <1>1, <2>1 DEF TypeOK, TasksKept, ReportsInv
<1>2. ASSUME NEW t \in Tasks, Resume(t) PROVE TasksKept /\ usage' \in [Windows -> Reports]
  <2>1. usage' = usage
    BY <1>2 DEF Resume, FindAllActive, Query, WriteCache, WriteFails, DatabaseFails, CacheHit,
                CacheMiss, CacheReadFails
  <2> QED
    BY <1>2, <2>1, ResumeKept DEF TypeOK
<1>3. ASSUME NEW r \in Readers, NEW k \in Keys, StartRead(r, k)
      PROVE  TasksKept /\ usage' \in [Windows -> Reports]
  BY <1>3, StartReadKept DEF TypeOK, StartRead
<1>4. ASSUME NEW hot \in HotKeys, PrewarmHotKeys(hot)
      PROVE  TasksKept /\ usage' \in [Windows -> Reports]
  BY <1>4, PrewarmHotKeysKept DEF TypeOK, PrewarmHotKeys
<1>5. CASE StandardPrewarm
  BY <1>5, StandardPrewarmKept DEF TypeOK, StandardPrewarm
<1>6. ASSUME NEW c \in Clients, RowsArrive(c) PROVE TasksKept /\ usage' \in [Windows -> Reports]
  BY <1>6, RowsArriveKept
<1>7. ASSUME NEW w \in Windows, NEW c \in Clients, RowsLeave(w, c)
      PROVE  TasksKept /\ usage' \in [Windows -> Reports]
  BY <1>7, RowsLeaveKept
<1>8. CASE PrewarmReturns \/ Tick \/ UNCHANGED vars
  BY <1>1, <1>8 DEF PrewarmReturns, Tick, vars
<1> QED
  BY <1>2, <1>3, <1>4, <1>5, <1>6, <1>7, <1>8 DEF Next

LEMMA NextReports == TypeOK /\ ReportsInv /\ [Next]_vars => (TypeOK /\ ReportsInv)'
<1> SUFFICES ASSUME TypeOK, ReportsInv, [Next]_vars PROVE (TypeOK /\ ReportsInv)'
  OBVIOUS
<1>1. CacheOK'
  <2>1. ASSUME cache' = cache, left' = left PROVE CacheOK'
    BY <2>1 DEF TypeOK, CacheOK
  <2>2. ASSUME NEW t \in Tasks, Resume(t) PROVE CacheOK'
    BY <2>1, <2>2, WriteKeepsCache
       DEF Resume, FindAllActive, Query, WriteFails, DatabaseFails, CacheHit, CacheMiss,
           CacheReadFails
  <2> QED
    BY <2>1, <2>2, TickKeepsCache DEF Next, StartRead, PrewarmHotKeys, StandardPrewarm,
       PrewarmReturns, RowsArrive, RowsLeave, vars
<1>2. cron' \in {"idle", "hot", "all"}
  BY DEF TypeOK, Next, Resume, FindAllActive, Query, WriteCache, WriteFails, DatabaseFails,
     CacheHit, CacheMiss, CacheReadFails, StartRead, PrewarmHotKeys, StandardPrewarm, PrewarmReturns,
     RowsArrive, RowsLeave, Tick, vars
<1> QED
  BY <1>1, <1>2, NextTasks DEF TypeOK, CacheOK, TasksKept

\* The types of UsageCache: no empty report is ever stored, and each stored one expires.
THEOREM TypeCorrect == Spec => []TypeOK
  BY InitReports, NextReports, PTL DEF Spec

\* What a task that is done with a key goes on with.
LEMMA FinishedShape ==
    ASSUME NEW t, NEW a
    PROVE  /\ Finished(t, a).pc \in {"idle", "clients", "query"}
           /\ Finished(t, a).pc = "idle" \/ Finished(t, a) = ToDatabase(Tail(task[t].keys))
  BY DEF Finished, Idle, ToDatabase

\* Where a query leads.
LEMMA QueryShape ==
    ASSUME TypeOK, NEW t \in Tasks, Query(t)
    PROVE  /\ \A u \in Tasks \ {t} : task'[u] = task[u]
           /\ \/ /\ task'[t].pc = "query" /\ task'[t].keys = task[t].keys
                 /\ task'[t].met = task[t].met /\ task'[t].kept = task[t].kept
                 /\ task'[t].todo # {}
                 /\ \E c \in task[t].todo : task'[t].todo = task[t].todo \ {c}
              \/ task'[t].pc = "write" /\ task'[t].keys = task[t].keys
              \/ task'[t] = Finished(t, "sent")
<1>1. task \in [Tasks -> TaskStates] /\ task[t] \in TaskStates /\ task[t].pc = "query"
  BY DEF TypeOK, Query
<1>2. PICK report, todo :
        /\ AfterQuery(t, report, todo)
        /\ todo # {} => \E c \in task[t].todo : todo = task[t].todo \ {c}
  <2>1. \A c \in Newest(t) : c \in task[t].todo
    BY DEF Newest
  <2> QED
    BY <2>1 DEF Query
<1>3. CASE todo # {}
  <2>1. task' = [task EXCEPT ![t] = [task[t] EXCEPT !.report = report, !.todo = todo]]
    BY <1>1, <1>2, <1>3 DEF AfterQuery
  <2>2. task'[t] = [task[t] EXCEPT !.report = report, !.todo = todo]
    BY <1>1, <2>1
  <2>3. /\ task'[t].pc = "query" /\ task'[t].keys = task[t].keys /\ task'[t].todo = todo
        /\ task'[t].met = task[t].met /\ task'[t].kept = task[t].kept
    BY <1>1, <2>2 DEF TaskStates
  <2> QED
    BY <1>1, <1>2, <1>3, <2>1, <2>3
<1>4. CASE todo = {} /\ report # Empty
  <2>1. task' = [task EXCEPT ![t] = ToWrite(t, report)]
    BY <1>2, <1>4 DEF AfterQuery
  <2>2. ToWrite(t, report).pc = "write" /\ ToWrite(t, report).keys = task[t].keys
    BY DEF ToWrite, Idle
  <2> QED
    BY <1>1, <2>1, <2>2
<1>5. CASE todo = {} /\ report = Empty
  BY <1>1, <1>2, <1>5 DEF AfterQuery
<1> QED
  BY <1>3, <1>4, <1>5

\* Where the other awaits lead.
LEMMA ResumeShape ==
    ASSUME TypeOK, NEW t \in Tasks, Resume(t), ~Query(t)
    PROVE  /\ \A u \in Tasks \ {t} : task'[u] = task[u]
           /\ \/ /\ task[t].pc = "clients" /\ task'[t].pc = "query"
                 /\ task'[t].keys = task[t].keys
                 /\ task'[t].met = task[t].met /\ task'[t].kept = task[t].kept
              \/ \E a : task'[t] = Finished(t, a)
              \/ task[t].pc = "cache" /\ task'[t] = ToDatabase(task[t].keys)
<1>1. task \in [Tasks -> TaskStates] /\ task[t] \in TaskStates
  BY DEF TypeOK
<1>2. CASE FindAllActive(t)
  BY <1>1, <1>2 DEF FindAllActive, TaskStates
<1>3. CASE WriteCache(t) \/ WriteFails(t) \/ DatabaseFails(t) \/ CacheHit(t)
  BY <1>1, <1>3 DEF WriteCache, WriteFails, DatabaseFails, CacheHit
<1>4. CASE CacheMiss(t) \/ CacheReadFails(t)
  BY <1>1, <1>4 DEF CacheMiss, CacheReadFails
<1> QED
  BY <1>2, <1>3, <1>4 DEF Resume

\* What rows that come and go change of a task.
LEMMA RowsShape ==
    ASSUME TypeOK, \/ \E c \in Clients : RowsArrive(c)
                   \/ \E w \in Windows, c \in Clients : RowsLeave(w, c)
    PROVE  /\ cron' = cron /\ cache' = cache /\ DOMAIN task' = Tasks
           /\ \A t \in Tasks :
                /\ task'[t].pc = task[t].pc /\ task'[t].keys = task[t].keys
                /\ task'[t].todo = task[t].todo /\ task'[t].report = task[t].report
<1>1. task \in [Tasks -> TaskStates]
  BY DEF TypeOK
<1>2. ASSUME NEW c \in Clients, RowsArrive(c), NEW t \in Tasks
      PROVE  /\ task'[t].pc = task[t].pc /\ task'[t].keys = task[t].keys
             /\ task'[t].todo = task[t].todo /\ task'[t].report = task[t].report
  <2>1. task[t] \in TaskStates
    BY <1>1
  <2>2. task'[t] = IF t \in Counting THEN [task[t] EXCEPT !.met[c] = @ + 1] ELSE task[t]
    BY <1>2 DEF RowsArrive
  <2> QED
    BY <2>1, <2>2 DEF TaskStates
<1>3. ASSUME NEW w \in Windows, NEW c \in Clients, RowsLeave(w, c), NEW t \in Tasks
      PROVE  /\ task'[t].pc = task[t].pc /\ task'[t].keys = task[t].keys
             /\ task'[t].todo = task[t].todo /\ task'[t].report = task[t].report
  <2>1. task[t] \in TaskStates
    BY <1>1
  <2>2. task'[t] = IF t \in CountingOf(w) /\ task[t].kept[c] > 0
                   THEN [task[t] EXCEPT !.kept[c] = @ - 1] ELSE task[t]
    BY <1>3 DEF RowsLeave
  <2> QED
    BY <2>1, <2>2 DEF TaskStates
<1> QED
  BY <1>2, <1>3 DEF RowsArrive, RowsLeave

\* Only a query leads to a write.
LEMMA WriteFollowsQuery ==
    ASSUME TypeOK, [Next]_vars, NEW t \in Tasks, task[t].pc # "write", task'[t].pc = "write"
    PROVE  Query(t)
<1>1. task \in [Tasks -> TaskStates]
  BY DEF TypeOK
<1>2. \A keys : ToDatabase(keys).pc # "write"
  BY DEF ToDatabase
<1>3. ASSUME NEW u \in Tasks, Resume(u) PROVE Query(t)
  <2>1. CASE Query(u)
    <3>1. u = t
      BY <2>1, QueryShape
    <3> QED
      BY <2>1, <3>1
  <2>2. CASE ~Query(u)
    BY <1>2, <1>3, <2>2, ResumeShape, FinishedShape
  <2> QED
    BY <2>1, <2>2
<1>4. ASSUME NEW r \in Readers, NEW k \in Keys, StartRead(r, k) PROVE FALSE
  <2>1. [Idle EXCEPT !.pc = "cache", !.keys = <<k>>].pc = "cache"
    BY DEF Idle
  <2> QED
    BY <1>1, <1>4, <2>1 DEF StartRead
<1>5. ASSUME NEW hot \in HotKeys, PrewarmHotKeys(hot) PROVE FALSE
  BY <1>1, <1>2, <1>5 DEF PrewarmHotKeys
<1>6. CASE StandardPrewarm
  BY <1>1, <1>2, <1>6, PrewarmAllBegins DEF StandardPrewarm
<1>7. CASE \/ \E c \in Clients : RowsArrive(c)
           \/ \E w \in Windows, c \in Clients : RowsLeave(w, c)
  BY <1>7, RowsShape
<1>8. CASE PrewarmReturns \/ Tick \/ UNCHANGED vars
  BY <1>8 DEF PrewarmReturns, Tick, vars
<1> QED
  BY <1>3, <1>4, <1>5, <1>6, <1>7, <1>8 DEF Next

\* Whatever rows come into the period and leave it while a report is made, client by client
\* or at once and cut to a limit, and whoever else makes it: what getDailyUsage,
\* getTopClients and the pre-warming write counts the rows that were there throughout, and
\* none that were not.
THEOREM ReportsAreCurrent == Spec => WrittenReportsAreCurrent
<1>1. TypeOK /\ ReportsInv /\ [Next]_vars =>
        [\A t \in Tasks : task[t].pc # "write" /\ task'[t].pc = "write" =>
           Counts(KeyOf(t), task'[t].report, task[t].kept, task[t].met)]_vars
  BY WriteFollowsQuery, QueryCounts
<1> QED
  BY <1>1, InitReports, NextReports, PTL DEF Spec, WrittenReportsAreCurrent

\* A request for a report fails only when a query of its own does: every failure of Redis,
\* at any command, is caught.
THEOREM RedisCostsNoAnswer == Spec => FailsOnlyWithDatabase
<1>1. TypeOK /\ ReportsInv /\ [Next]_vars =>
        [\A r \in Readers :
           task'[r].answer = "failed" /\ task[r].answer # "failed" =>
             task[r].pc \in {"clients", "query"}]_vars
  BY NextTasks DEF TasksKept, Tasks
<1> QED
  BY <1>1, InitReports, NextReports, PTL DEF Spec, FailsOnlyWithDatabase

-----------------------------------------------------------------------------
(* An old report does not come back. *)

\* A report that is being counted has met no row that came or went, and one that is to be
\* written is up to date.
FreshTask(tk) ==
    LET now == usage[WindowOf[Head(tk.keys)]]
    IN  /\ tk.pc \in {"clients", "query"} => tk.met = now /\ tk.kept = now
        /\ tk.pc = "write" => UpToDate(Head(tk.keys), tk.report)

\* No key holds an old report, and none is being made.
Fresh ==
    /\ \A k \in Keys : \A report \in cache[k] : UpToDate(k, report)
    /\ \A t \in Tasks : FreshTask(task[t])

\* Once the cache and the reports that are being made are up to date only rows that come or
\* go make them old: no reader that comes, no warmer, no failure and no expiry does.
\* CacheConverges adds that they are up to date some time after the last such row.
FreshnessKept == [][Fresh /\ usage' = usage => Fresh']_vars

LEMMA ToDatabaseFresh ==
    ASSUME NEW keys
    PROVE  FreshTask(ToDatabase(keys))
  BY DEF ToDatabase, FreshTask

LEMMA TaskStaysFresh ==
    ASSUME TypeOK, ReportsInv, Fresh, NEW t \in Tasks, Resume(t)
    PROVE  /\ \A u \in Tasks \ {t} : task'[u] = task[u]
           /\ FreshTask(task'[t])
<1>1. FreshTask(task[t])
  BY DEF Fresh
<1>2. \A a : FreshTask(Finished(t, a))
  <2>1. \A a : Finished(t, a).pc = "idle" => FreshTask(Finished(t, a))
    BY DEF FreshTask
  <2> QED
    BY <2>1, FinishedShape, ToDatabaseFresh
<1>3. CASE Query(t)
  <2>1. /\ task[t].pc = "query"
        /\ task[t].met = usage[WindowOf[KeyOf(t)]] /\ task[t].kept = usage[WindowOf[KeyOf(t)]]
    BY <1>1, <1>3 DEF Query, FreshTask, KeyOf
  <2>2. ASSUME task'[t].pc = "query", task'[t].keys = task[t].keys,
               task'[t].met = task[t].met, task'[t].kept = task[t].kept
        PROVE  FreshTask(task'[t])
    BY <2>1, <2>2 DEF FreshTask, KeyOf
  <2>3. ASSUME task'[t].pc = "write", task'[t].keys = task[t].keys
        PROVE  FreshTask(task'[t])
    <3>1. UpToDate(KeyOf(t), task'[t].report)
      BY <1>3, <2>1, <2>3, QueryCounts DEF UpToDate
    <3> QED
      BY <2>3, <3>1 DEF FreshTask, KeyOf
  <2> QED
    BY <1>2, <1>3, <2>2, <2>3, QueryShape
<1>4. CASE ~Query(t)
  <2>1. ASSUME task[t].pc = "clients", task'[t].pc = "query", task'[t].keys = task[t].keys,
               task'[t].met = task[t].met, task'[t].kept = task[t].kept
        PROVE  FreshTask(task'[t])
    BY <1>1, <2>1 DEF FreshTask
  <2> QED
    BY <1>2, <1>4, <2>1, ResumeShape, ToDatabaseFresh
<1> QED
  BY <1>3, <1>4

\* What is written is what the database holds.
LEMMA WriteStaysFresh ==
    ASSUME TypeOK, Fresh, NEW t \in Tasks, WriteCache(t)
    PROVE  \A k \in Keys : \A report \in cache'[k] : UpToDate(k, report)
<1>1. UpToDate(KeyOf(t), task[t].report)
  BY DEF WriteCache, Fresh, FreshTask, KeyOf
<1> QED
  BY <1>1 DEF WriteCache, Fresh, TypeOK

\* A row that comes or goes changes what a period holds.
LEMMA RowsChangeUsage ==
    ASSUME TypeOK, \/ \E c \in Clients : RowsArrive(c)
                   \/ \E w \in Windows, c \in Clients : RowsLeave(w, c)
    PROVE  usage' # usage
<1>1. usage \in [Windows -> Reports]
  BY DEF TypeOK
<1>2. \A w \in Windows : \A c \in Clients : usage[w][c] \in Nat
  BY <1>1, ReportFacts
<1>3. ASSUME NEW c \in Clients, RowsArrive(c) PROVE usage' # usage
  <2>1. PICK w : w \in Windows
    BY KeyLists, WindowAssumption DEF Keys
  <2>2. usage'[w] = [usage[w] EXCEPT ![c] = @ + 1] /\ usage[w] \in Reports
    BY <1>1, <1>3, <2>1 DEF RowsArrive
  <2>3. usage'[w][c] = usage[w][c] + 1
    BY <2>2 DEF Reports
  <2> QED
    BY <1>2, <2>1, <2>3
<1>4. ASSUME NEW w \in Windows, NEW c \in Clients, RowsLeave(w, c) PROVE usage' # usage
  <2>1. usage'[w] = [usage[w] EXCEPT ![c] = @ - 1] /\ usage[w] \in Reports
    BY <1>1, <1>4 DEF RowsLeave
  <2>2. usage'[w][c] = usage[w][c] - 1
    BY <2>1 DEF Reports
  <2> QED
    BY <1>2, <2>2
<1> QED
  BY <1>3, <1>4

\* getDailyUsage, getTopClients and the pre-warming write nothing old over a cache that is
\* up to date, in whatever order they end.
THEOREM CacheStaysFresh == Spec => FreshnessKept
<1>1. ASSUME TypeOK, ReportsInv, [Next]_vars, Fresh, usage' = usage PROVE Fresh'
  <2> DEFINE Good == \A k \in Keys : \A report \in cache'[k] : UpToDate(k, report)
  <2>1. task \in [Tasks -> TaskStates] /\ DOMAIN task = Tasks
    BY <1>1 DEF TypeOK
  <2>2. ASSUME Good, \A t \in Tasks : FreshTask(task'[t]) PROVE Fresh'
    BY <1>1, <2>2 DEF Fresh, FreshTask, UpToDate
  <2> HIDE DEF Good
  <2>3. cache' = cache => Good
    BY <1>1 DEF Fresh, Good
  <2>4. \A t \in Tasks : FreshTask(task[t])
    BY <1>1 DEF Fresh
  <2>5. ASSUME NEW t \in Tasks, Resume(t) PROVE Fresh'
    <3>1. Good
      BY <1>1, <2>3, <2>5, WriteStaysFresh DEF Resume, FindAllActive, Query, WriteFails,
         DatabaseFails, CacheHit, CacheMiss, CacheReadFails, Good
    <3>2. \A u \in Tasks : FreshTask(task'[u])
      BY <1>1, <2>4, <2>5, TaskStaysFresh
    <3> QED
      BY <2>2, <3>1, <3>2
  <2>6. ASSUME NEW r \in Readers, NEW k \in Keys, StartRead(r, k) PROVE Fresh'
    <3>1. [Idle EXCEPT !.pc = "cache", !.keys = <<k>>].pc = "cache"
      BY DEF Idle
    <3>2. \A u \in Tasks : task'[u] = task[u] \/ task'[u].pc = "cache"
      BY <2>1, <2>6, <3>1 DEF StartRead
    <3>3. \A u \in Tasks : FreshTask(task'[u])
      BY <2>4, <3>2 DEF FreshTask
    <3> QED
      BY <2>2, <2>3, <2>6, <3>3 DEF StartRead
  <2>7. ASSUME NEW hot \in HotKeys, PrewarmHotKeys(hot) PROVE Fresh'
    BY <2>1, <2>2, <2>3, <2>4, <2>7, ToDatabaseFresh DEF PrewarmHotKeys
  <2>8. CASE StandardPrewarm
    <3>1. \A u \in Tasks : FreshTask(task'[u])
      BY <2>1, <2>4, <2>8, PrewarmAllBegins, ToDatabaseFresh DEF StandardPrewarm
    <3> QED
      BY <2>2, <2>3, <2>8, <3>1 DEF StandardPrewarm
  <2>9. CASE Tick
    <3>1. Good
      BY <1>1, <2>9 DEF Tick, Fresh, Good
    <3> QED
      BY <2>2, <2>4, <2>9, <3>1 DEF Tick
  <2>10. CASE PrewarmReturns \/ UNCHANGED vars
    BY <2>2, <2>3, <2>4, <2>10 DEF PrewarmReturns, vars
  <2> QED
    BY <1>1, <2>5, <2>6, <2>7, <2>8, <2>9, <2>10, RowsChangeUsage DEF Next
<1>2. TypeOK /\ ReportsInv /\ [Next]_vars => [Fresh /\ usage' = usage => Fresh']_vars
  BY <1>1
<1> QED
  BY <1>2, InitReports, NextReports, PTL DEF Spec, FreshnessKept

-----------------------------------------------------------------------------
(* Every step of a task brings it nearer to its end. *)

Stage(pc) ==
    CASE pc = "cache" -> 4 [] pc = "clients" -> 3 [] pc = "query" -> 2 [] pc = "write" -> 1
      [] OTHER -> 0

\* Fewer reports to make; or the same, a later stage; or fewer clients to count.
Advances(old, new) ==
    \/ new.pc = "idle"
    \/ Len(new.keys) < Len(old.keys)
    \/ /\ new.keys = old.keys
       /\ \/ Stage(new.pc) < Stage(old.pc)
          \/ new.pc = old.pc /\ new.todo \subseteq old.todo /\ new.todo # old.todo

\* Nothing has been done; rows that came or went may have been met.
Stays(old, new) ==
    new.pc = old.pc /\ new.keys = old.keys /\ new.todo = old.todo /\ new.report = old.report

\* Whatever it awaits settles with, a result or an error, a task that resumes goes
\* forward, and nothing else moves a task that is under way: not another request for the
\* same key, nor the cron job, nor rows that come and go.  TasksSettle adds that it does
\* resume, if what it awaits settles.
TasksAdvance ==
    [][\A t \in Tasks :
         /\ Resume(t) => Advances(task[t], task'[t])
         /\ task[t].pc # "idle" => Stays(task[t], task'[t]) \/ Advances(task[t], task'[t])]_vars

\* One pre-warming runs at a time: those of cron's present phase.
CronInv ==
    /\ cron # "hot" => task["hot"].pc = "idle"
    /\ cron # "all" => task["daily"].pc = "idle" /\ task["top"].pc = "idle"

LEMMA FinishedAdvances ==
    ASSUME NEW t, task[t].keys \in Seq(Keys), task[t].keys # <<>>, NEW a
    PROVE  Advances(task[t], Finished(t, a))
<1>1. CASE t \in Readers \/ Len(task[t].keys) = 1
  BY <1>1 DEF Finished, Idle, Advances
<1>2. CASE ~(t \in Readers \/ Len(task[t].keys) = 1)
  <2>1. Finished(t, a).keys = Tail(task[t].keys)
    BY <1>2 DEF Finished, ToDatabase
  <2>2. Len(task[t].keys) \in Nat /\ Len(Tail(task[t].keys)) = Len(task[t].keys) - 1
    BY LenProperties, HeadTailProperties
  <2>3. Len(Finished(t, a).keys) < Len(task[t].keys)
    BY <2>1, <2>2
  <2> QED
    BY <2>3 DEF Advances
<1> QED
  BY <1>1, <1>2

LEMMA ResumeAdvances ==
    ASSUME TypeOK, ReportsInv, NEW t \in Tasks, Resume(t)
    PROVE  /\ task[t].pc # "idle" /\ cron' = cron
           /\ Advances(task[t], task'[t])
           /\ \A u \in Tasks \ {t} : task'[u] = task[u]
<1>1. task \in [Tasks -> TaskStates] /\ task[t] \in TaskStates
  BY DEF TypeOK
<1>2. task[t].pc # "idle" /\ cron' = cron
  BY DEF Resume, FindAllActive, Query, WriteCache, WriteFails, DatabaseFails, CacheHit, CacheMiss,
         CacheReadFails
<1>3. task[t].keys \in Seq(Keys) /\ task[t].keys # <<>>
  BY <1>1, <1>2 DEF TaskStates, ReportsInv, Sound
<1>4. ASSUME NEW a, task'[t] = Finished(t, a) PROVE Advances(task[t], task'[t])
  BY <1>3, <1>4, FinishedAdvances
<1>5. CASE Query(t)
  <2>1. task[t].pc = "query"
    BY <1>5 DEF Query
  <2>2. ASSUME task'[t].pc = "query", task'[t].keys = task[t].keys,
               \E c \in task[t].todo : task'[t].todo = task[t].todo \ {c}
        PROVE  Advances(task[t], task'[t])
    BY <2>1, <2>2 DEF Advances
  <2>3. ASSUME task'[t].pc = "write", task'[t].keys = task[t].keys
        PROVE  Advances(task[t], task'[t])
    BY <2>1, <2>3 DEF Advances, Stage
  <2> QED
    BY <1>2, <1>4, <1>5, <2>2, <2>3, QueryShape
<1>6. CASE ~Query(t)
  <2>1. ASSUME task[t].pc = "clients", task'[t].pc = "query", task'[t].keys = task[t].keys
        PROVE  Advances(task[t], task'[t])
    BY <2>1 DEF Advances, Stage
  <2>2. ASSUME task[t].pc = "cache", task'[t] = ToDatabase(task[t].keys)
        PROVE  Advances(task[t], task'[t])
    <3>1. /\ task'[t].keys = task[t].keys
          /\ task'[t].pc = "clients" \/ task'[t].pc = "query"
      BY <2>2 DEF ToDatabase
    <3> QED
      BY <2>2, <3>1 DEF Advances, Stage
  <2> QED
    BY <1>2, <1>4, <1>6, <2>1, <2>2, ResumeShape
<1> QED
  BY <1>5, <1>6

\* What a step does to the tasks that are under way.
LEMMA NextAdvances ==
    ASSUME TypeOK, ReportsInv, CronInv, [Next]_vars
    PROVE  /\ CronInv'
           /\ \A t \in Tasks :
                task[t].pc # "idle" => Stays(task[t], task'[t]) \/ Advances(task[t], task'[t])
<1>1. /\ task \in [Tasks -> TaskStates] /\ Warmers \subseteq Tasks /\ Readers \cap Warmers = {}
      /\ "hot" \in Warmers /\ "daily" \in Warmers /\ "top" \in Warmers
      /\ cron \in {"idle", "hot", "all"}
  BY WarmersAssumption DEF TypeOK, Tasks, Warmers
<1>2. ASSUME NEW t \in Tasks, Resume(t)
      PROVE  CronInv' /\ \A u \in Tasks :
               task[u].pc # "idle" => Stays(task[u], task'[u]) \/ Advances(task[u], task'[u])
  BY <1>1, <1>2, ResumeAdvances DEF CronInv, Stays
<1>3. ASSUME NEW r \in Readers, NEW k \in Keys, StartRead(r, k)
      PROVE  CronInv' /\ \A u \in Tasks : task[u].pc # "idle" => task'[u] = task[u]
  BY <1>1, <1>3 DEF StartRead, CronInv
<1>4. ASSUME NEW hot \in HotKeys, PrewarmHotKeys(hot)
      PROVE  CronInv' /\ \A u \in Tasks : task[u].pc # "idle" => task'[u] = task[u]
  BY <1>1, <1>4 DEF PrewarmHotKeys, CronInv
<1>5. CASE StandardPrewarm
  <2>1. \A u \in Tasks \ {"daily", "top"} : task'[u] = task[u]
    BY <1>1, <1>5, PrewarmAllBegins DEF StandardPrewarm, TypeOK
  <2>2. task["daily"].pc = "idle" /\ task["top"].pc = "idle" /\ task'["hot"].pc = "idle"
    BY <1>1, <1>5, <2>1 DEF StandardPrewarm, CronInv
  <2> QED
    BY <1>5, <2>1, <2>2 DEF StandardPrewarm, CronInv, Stays
<1>6. CASE PrewarmReturns
  BY <1>6 DEF PrewarmReturns, CronInv, Stays
<1>7. CASE \/ \E c \in Clients : RowsArrive(c)
           \/ \E w \in Windows, c \in Clients : RowsLeave(w, c)
  BY <1>1, <1>7, RowsShape DEF CronInv, Stays
<1>8. CASE Tick \/ UNCHANGED vars
  BY <1>8 DEF Tick, vars, CronInv, Stays
<1> QED
  BY <1>2, <1>3, <1>4, <1>5, <1>6, <1>7, <1>8 DEF Next, Stays

LEMMA InitCron == Init => CronInv
<1> SUFFICES ASSUME Init PROVE CronInv
  OBVIOUS
<1>1. "hot" \in Tasks /\ Idle.pc = "idle" /\ cron = "all"
  BY DEF Init, Tasks, Warmers, Idle
<1>2. task["hot"] = Idle
  BY <1>1 DEF Init, PrewarmAll
<1> QED
  BY <1>1, <1>2 DEF CronInv

\* A report, and a pre-warming with all its keys, takes a bounded number of steps: no error
\* that is caught leads back to a command that was made.
THEOREM TasksGoForward == Spec => TasksAdvance
<1>1. TypeOK /\ ReportsInv /\ CronInv /\ [Next]_vars =>
        [\A t \in Tasks :
           /\ Resume(t) => Advances(task[t], task'[t])
           /\ task[t].pc # "idle" => Stays(task[t], task'[t]) \/ Advances(task[t], task'[t])]_vars
  BY ResumeAdvances, NextAdvances
<1>2. TypeOK /\ ReportsInv /\ CronInv /\ [Next]_vars => CronInv'
  BY NextAdvances
<1> QED
  BY <1>1, <1>2, InitReports, NextReports, InitCron, PTL DEF Spec, TasksAdvance
=============================================================================
