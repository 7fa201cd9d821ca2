---------------------------- MODULE LogPipeline ----------------------------
(***************************************************************************)
(* The API-log batch writer: the ApiLogRepository singleton together with  *)
(* the in-memory log storage it degrades to and the database retry helper  *)
(* around its saves.                                                       *)
(*                                                                         *)
(* A hit is pushed on batchQueue.  A flush (an activation of the async     *)
(* method flushBatch) is started by the timer, or by the hit that fills    *)
(* the batch; several flushes may be in flight at once.  Everything        *)
(* between two awaits is one step: the JavaScript event loop interleaves   *)
(* activations only where one of them awaits.                              *)
(***************************************************************************)
EXTENDS Naturals, Sequences, FiniteSets, Functions

CONSTANTS
    Logs,          \* the hits that may be logged, each one at most once
    Poison,        \* logs whose row the schema rejects (varchar or int4 overflow)
    Flushes,       \* activations of flushBatch that may be in flight at once
    Unanswered,    \* those whose saves may wait for an answer for ever
    Stopper,       \* the activation run on behalf of stopBatchProcessor
    BatchSize,     \* batchSize
    RequeueLimit,  \* the 1000 of flushBatch's re-queue test
    MaxSize,       \* maxSize of the in-memory storage
    MaxAge,        \* maxAgeMs, in ticks of the clock
    MaxRetries,    \* maxRetries of withDatabaseRetry
    MaxLostAcks,   \* bound: how often the acknowledgement of one log may be lost
    MaxCrashes,    \* bound: how often the process may die and start again
    StopCalled     \* whether anything calls stopBatchProcessor

ASSUME PoisonAssumption == Poison \subseteq Logs
ASSUME StopperAssumption == Stopper \in Flushes
ASSUME UnansweredAssumption == Unanswered \subseteq Flushes
ASSUME SizeAssumption ==
    /\ BatchSize \in Nat \ {0}
    /\ RequeueLimit \in Nat \ {0}
    /\ MaxSize \in Nat \ {0}
    /\ MaxAge \in Nat \ {0}
    /\ MaxRetries \in Nat
ASSUME BoundAssumption ==
    /\ MaxLostAcks \in Nat
    /\ MaxCrashes \in Nat
    /\ StopCalled \in BOOLEAN

VARIABLES
    batchQueue,  \* hits waiting for a flush, oldest first
    memLogs,     \* the in-memory storage's logs, oldest first
    age,         \* ticks since _storedAt, for the logs in memory
    flush,       \* the activations of flushBatch
    stopPhase,   \* how far stopBatchProcessor has come
    dbUp,        \* whether the database answers
    rows,        \* rows of the api_logs table, per log
    lostAcks,    \* history: commits of the log that were reported as errors
    fate,        \* history: what became of the log
    crashes      \* history: how often the process died

vars == <<batchQueue, memLogs, age, flush, stopPhase, dbUp, rows, lostAcks,
          fate, crashes>>

Settled == {"stored", "evicted", "expired", "dropped", "crashed"}
Fates == {"new", "held"} \cup Settled

\* What a rejected save looks like: an error withDatabaseRetry repeats, the
\* "too many connections" only isTransientDatabaseError knows, or anything else
\* (the pool's "timeout exceeded when trying to connect", a closed data source).
Errors == {"retryable", "tooMany", "other"}
Retryable(e) == e = "retryable"
IsTransientDatabaseError(e) == e \in {"retryable", "tooMany"}

Idle == [pc |-> "idle", batch |-> <<>>, mem |-> <<>>, attempt |-> 1]
Frames == [pc : {"idle", "mem", "batch"}, batch : Seq(Logs), mem : Seq(Logs),
           attempt : 1 .. MaxRetries + 1]

TypeOK ==
    /\ batchQueue \in Seq(Logs)
    /\ memLogs \in Seq(Logs)
    /\ Len(memLogs) <= MaxSize
    /\ age \in [Logs -> 0 .. MaxAge]
    /\ flush \in [Flushes -> Frames]
    /\ stopPhase \in {"running", "flush", "drain", "stopped"}
    /\ dbUp \in BOOLEAN
    /\ rows \in [Logs -> Nat]
    /\ lostAcks \in [Logs -> Nat]
    /\ fate \in [Logs -> Fates]
    /\ crashes \in Nat

Init ==
    /\ batchQueue = <<>>
    /\ memLogs = <<>>
    /\ age = [l \in Logs |-> 0]
    /\ flush = [f \in Flushes |-> Idle]
    /\ stopPhase = "running"
    /\ dbUp = TRUE
    /\ rows = [l \in Logs |-> 0]
    /\ lostAcks = [l \in Logs |-> 0]
    /\ fate = [l \in Logs |-> "new"]
    /\ crashes = 0

-----------------------------------------------------------------------------
(* The in-memory storage. *)

\* add() on every log of s in turn: push, then shift while longer than MaxSize.
Pushed(s) == memLogs \o s
\* Mutant of Overflow: add() does not shift.
OverflowUncapped(s) == 0

Overflow(s) == IF Len(Pushed(s)) > MaxSize THEN Len(Pushed(s)) - MaxSize ELSE 0
Evicted(s) == Range(SubSeq(Pushed(s), 1, Overflow(s)))
\* Mutant of AddAll: the logs of a failed flush go back to the front.
AddAllInFront(s) ==
    LET pushed == s \o memLogs
    IN  /\ memLogs' = SubSeq(pushed, Overflow(s) + 1, Len(pushed))
        /\ LET out == Range(SubSeq(pushed, 1, Overflow(s)))
           IN  /\ age' = [l \in Logs |-> IF l \in Range(s) \cup out THEN 0 ELSE age[l]]
               /\ fate' = [l \in Logs |-> IF l \in out THEN "evicted" ELSE fate[l]]

AddAll(s) ==
    /\ memLogs' = SubSeq(Pushed(s), Overflow(s) + 1, Len(Pushed(s)))
    /\ age' = [l \in Logs |-> IF l \in Range(s) \cup Evicted(s) THEN 0 ELSE age[l]]
    /\ fate' = [l \in Logs |-> IF l \in Evicted(s) THEN "evicted" ELSE fate[l]]

\* Mutant of DrainMemory: flush() hands the logs out and keeps them.
DrainMemoryCopied == UNCHANGED <<memLogs, age>>

\* flush(): hand out all logs and keep none.
DrainMemory ==
    /\ memLogs' = <<>>
    /\ age' = [l \in Logs |-> IF l \in Range(memLogs) THEN 0 ELSE age[l]]

\* Time passes for the logs in memory; their _storedAt gets older.
Tick ==
    /\ \E l \in Range(memLogs) : age[l] < MaxAge
    /\ age' = [l \in Logs |-> IF l \in Range(memLogs) /\ age[l] < MaxAge
                              THEN age[l] + 1 ELSE age[l]]
    /\ UNCHANGED <<batchQueue, memLogs, flush, stopPhase, dbUp, rows, lostAcks,
                   fate, crashes>>

\* cleanupOldLogs filters by age.  The logs it removes are a prefix, for the
\* storage is sorted by age (MemorySortedByAge; ExpiredIsPrefix of
\* LogPipelineProof), so that nothing that has expired keeps the action waiting.
Expired == {i \in DOMAIN memLogs : age[memLogs[i]] >= MaxAge}
CutMemory(n) ==
    LET old == Range(SubSeq(memLogs, 1, n))
    IN  /\ memLogs' = SubSeq(memLogs, n + 1, Len(memLogs))
        /\ age' = [l \in Logs |-> IF l \in old THEN 0 ELSE age[l]]
        /\ fate' = [l \in Logs |-> IF l \in old THEN "expired" ELSE fate[l]]
\* Mutant of CleanupOldLogs: it waits until the storage is full.
CleanupOldLogsWhenFull ==
    /\ stopPhase # "stopped"
    /\ Len(memLogs) = MaxSize
    /\ \E n \in DOMAIN memLogs : Expired = 1 .. n /\ CutMemory(n)
    /\ UNCHANGED <<batchQueue, flush, stopPhase, dbUp, rows, lostAcks, crashes>>

CleanupOldLogs ==
    /\ stopPhase # "stopped"
    /\ \E n \in DOMAIN memLogs : Expired = 1 .. n /\ CutMemory(n)
    /\ UNCHANGED <<batchQueue, flush, stopPhase, dbUp, rows, lostAcks, crashes>>

-----------------------------------------------------------------------------
(* Starting a flush. *)

\* Mutant of FlushBatch: the queue is copied, not taken.
FlushBatchCopied(f, q) ==
    /\ flush[f].pc = "idle"
    /\ flush' = [flush EXCEPT ![f] =
                   [pc |-> IF memLogs = <<>> THEN "batch" ELSE "mem",
                    batch |-> q, mem |-> memLogs, attempt |-> 1]]
    /\ batchQueue' = q
    /\ DrainMemory

\* flushBatch up to its first await: take the queue q, drain the memory, and
\* issue the save of the drained logs or, when there were none, of the batch.
FlushBatch(f, q) ==
    /\ flush[f].pc = "idle"
    /\ flush' = [flush EXCEPT ![f] =
                   [pc |-> IF memLogs = <<>> THEN "batch" ELSE "mem",
                    batch |-> q, mem |-> memLogs, attempt |-> 1]]
    /\ batchQueue' = <<>>
    /\ DrainMemory

AddToBatch(l) ==
    /\ fate[l] = "new"
    /\ fate' = [fate EXCEPT ![l] = "held"]
    /\ LET q == Append(batchQueue, l) IN
       \/ /\ Len(q) < BatchSize
          /\ batchQueue' = q
          /\ UNCHANGED <<memLogs, age, flush>>
       \/ /\ Len(q) >= BatchSize
          /\ \E f \in Flushes \ {Stopper} : FlushBatch(f, q)
    /\ UNCHANGED <<stopPhase, dbUp, rows, lostAcks, crashes>>

\* Mutant of BatchTimer: it waits for a full batch.
BatchTimerFullOnly(f) ==
    /\ stopPhase = "running"
    /\ f # Stopper
    /\ Len(batchQueue) >= BatchSize
    /\ FlushBatch(f, batchQueue)
    /\ UNCHANGED <<stopPhase, dbUp, rows, lostAcks, fate, crashes>>

\* The interval callback of startBatchProcessor.
BatchTimer(f) ==
    /\ stopPhase = "running"
    /\ f # Stopper
    /\ batchQueue # <<>>
    /\ FlushBatch(f, batchQueue)
    /\ UNCHANGED <<stopPhase, dbUp, rows, lostAcks, fate, crashes>>

-----------------------------------------------------------------------------
(* Resuming a flush: the promise of its save settles. *)

Saving(f) == Range(IF flush[f].pc = "mem" THEN flush[f].mem ELSE flush[f].batch)
Poisoned(f) == Saving(f) \cap Poison # {}

\* flushInMemoryLogs has returned: save the batch.  stopBatchProcessor calls
\* flushInMemoryLogs on its own, with no batch to go on with.
AfterMemory(f) ==
    IF flush[f].batch = <<>> THEN Idle
    ELSE [flush[f] EXCEPT !.pc = "batch", !.mem = <<>>, !.attempt = 1]

\* save() is one transaction: every log of the save has its row, or none has.
SaveSucceeds(f) ==
    /\ flush[f].pc # "idle"
    /\ dbUp
    /\ ~Poisoned(f)
    /\ rows' = [l \in Logs |-> IF l \in Saving(f) THEN rows[l] + 1 ELSE rows[l]]
    /\ fate' = [l \in Logs |-> IF l \in Saving(f) THEN "stored" ELSE fate[l]]
    /\ flush' = [flush EXCEPT ![f] = IF @.pc = "mem" THEN AfterMemory(f) ELSE Idle]
    /\ UNCHANGED <<batchQueue, memLogs, age, stopPhase, dbUp, lostAcks, crashes>>

\* The save is rejected with error e.  A rejected row is a QueryFailedError.
\* A connection may also die between the commit and its acknowledgement.
SaveRejected(f, e) ==
    /\ flush[f].pc # "idle"
    /\ ~dbUp \/ (Poisoned(f) /\ Retryable(e))
    /\ \/ UNCHANGED <<rows, lostAcks>>
       \/ /\ ~Poisoned(f) /\ Retryable(e)
          /\ \A l \in Saving(f) : lostAcks[l] < MaxLostAcks
          /\ rows' = [l \in Logs |-> IF l \in Saving(f) THEN rows[l] + 1 ELSE rows[l]]
          /\ lostAcks' = [l \in Logs |->
                            IF l \in Saving(f) THEN lostAcks[l] + 1 ELSE lostAcks[l]]

\* withRetry gives up at once on an error it does not know.
GivesUp(f, e) == Retryable(e) => flush[f].attempt > MaxRetries

RetrySave(f, e) ==
    /\ SaveRejected(f, e)
    /\ ~GivesUp(f, e)
    /\ flush' = [flush EXCEPT ![f].attempt = @ + 1]
    /\ UNCHANGED <<batchQueue, memLogs, age, stopPhase, dbUp, fate, crashes>>

\* Mutant of RestoreMemory: the error is swallowed, and the logs with it.
RestoreMemoryForgets(f, e) ==
    /\ flush[f].pc = "mem"
    /\ SaveRejected(f, e)
    /\ GivesUp(f, e)
    /\ flush' = [flush EXCEPT ![f] = AfterMemory(f)]
    /\ UNCHANGED <<batchQueue, memLogs, age, stopPhase, dbUp, fate, crashes>>

\* Mutant of RestoreMemory: the retries start over instead.
RestoreMemoryForEver(f, e) ==
    /\ flush[f].pc = "mem"
    /\ SaveRejected(f, e)
    /\ GivesUp(f, e)
    /\ flush' = [flush EXCEPT ![f].attempt = 1]
    /\ UNCHANGED <<batchQueue, memLogs, age, stopPhase, dbUp, fate, crashes>>

\* flushInMemoryLogs swallows the error: the logs go back to the storage with a
\* fresh _storedAt, and flushBatch goes on to its own batch.
RestoreMemory(f, e) ==
    /\ flush[f].pc = "mem"
    /\ SaveRejected(f, e)
    /\ GivesUp(f, e)
    /\ AddAll(flush[f].mem)
    /\ flush' = [flush EXCEPT ![f] = AfterMemory(f)]
    /\ UNCHANGED <<batchQueue, stopPhase, dbUp, crashes>>

\* Mutant of BatchToMemory: the flush goes on with the batch it has stored away.
BatchToMemoryGoesOn(f, e) ==
    /\ flush[f].pc = "batch"
    /\ SaveRejected(f, e)
    /\ GivesUp(f, e)
    /\ IsTransientDatabaseError(e)
    /\ AddAll(flush[f].batch)
    /\ UNCHANGED <<batchQueue, flush, stopPhase, dbUp, crashes>>

BatchToMemory(f, e) ==
    /\ flush[f].pc = "batch"
    /\ SaveRejected(f, e)
    /\ GivesUp(f, e)
    /\ IsTransientDatabaseError(e)
    /\ AddAll(flush[f].batch)
    /\ flush' = [flush EXCEPT ![f] = Idle]
    /\ UNCHANGED <<batchQueue, stopPhase, dbUp, crashes>>

Requeue(f, e) ==
    /\ flush[f].pc = "batch"
    /\ SaveRejected(f, e)
    /\ GivesUp(f, e)
    /\ ~IsTransientDatabaseError(e)
    /\ Len(batchQueue) < RequeueLimit
    /\ batchQueue' = flush[f].batch \o batchQueue
    /\ flush' = [flush EXCEPT ![f] = Idle]
    /\ UNCHANGED <<memLogs, age, stopPhase, dbUp, fate, crashes>>

Drop(f, e) ==
    /\ flush[f].pc = "batch"
    /\ SaveRejected(f, e)
    /\ GivesUp(f, e)
    /\ ~IsTransientDatabaseError(e)
    /\ Len(batchQueue) >= RequeueLimit
    /\ fate' = [l \in Logs |-> IF l \in Saving(f) THEN "dropped" ELSE fate[l]]
    /\ flush' = [flush EXCEPT ![f] = Idle]
    /\ UNCHANGED <<batchQueue, memLogs, age, stopPhase, dbUp, crashes>>

-----------------------------------------------------------------------------
(* stopBatchProcessor. *)

\* From the end of its flushBatch on: flush the memory, then stop the storage.
StopMemory ==
    \/ /\ memLogs # <<>>
       /\ flush' = [flush EXCEPT ![Stopper] =
                      [pc |-> "mem", batch |-> <<>>, mem |-> memLogs, attempt |-> 1]]
       /\ DrainMemory
       /\ stopPhase' = "drain"
       /\ UNCHANGED batchQueue
    \/ /\ memLogs = <<>>
       /\ stopPhase' = "stopped"
       /\ UNCHANGED <<batchQueue, memLogs, age, flush>>

StopBatchProcessor ==
    /\ StopCalled
    /\ stopPhase = "running"
    /\ flush[Stopper].pc = "idle"
    /\ \/ /\ batchQueue # <<>>
          /\ FlushBatch(Stopper, batchQueue)
          /\ stopPhase' = "flush"
       \/ /\ batchQueue = <<>>
          /\ StopMemory
    /\ UNCHANGED <<dbUp, rows, lostAcks, fate, crashes>>

ResumeStop ==
    /\ flush[Stopper].pc = "idle"
    /\ \/ /\ stopPhase = "flush"
          /\ StopMemory
       \/ /\ stopPhase = "drain"
          /\ stopPhase' = "stopped"
          /\ UNCHANGED <<batchQueue, memLogs, age, flush>>
    /\ UNCHANGED <<dbUp, rows, lostAcks, fate, crashes>>

-----------------------------------------------------------------------------
(* The environment: the database, and the process itself. *)

DatabaseChange ==
    /\ dbUp' = ~dbUp
    /\ UNCHANGED <<batchQueue, memLogs, age, flush, stopPhase, rows, lostAcks,
                   fate, crashes>>

\* The process exits and starts anew.  Nothing in memory survives; any save in
\* flight may have been committed before the connection went away.
Crash(committed) ==
    LET saved == UNION {Saving(f) : f \in committed}
    IN  /\ crashes < MaxCrashes
        /\ \A f \in committed : flush[f].pc # "idle" /\ ~Poisoned(f)
        /\ crashes' = crashes + 1
        /\ rows' = [l \in Logs |-> IF l \in saved THEN rows[l] + 1 ELSE rows[l]]
        /\ fate' = [l \in Logs |-> IF fate[l] # "held" THEN fate[l]
                                   ELSE IF l \in saved THEN "stored" ELSE "crashed"]
        /\ batchQueue' = <<>>
        /\ memLogs' = <<>>
        /\ age' = [l \in Logs |-> 0]
        /\ flush' = [f \in Flushes |-> Idle]
        /\ stopPhase' = "running"
        /\ UNCHANGED <<dbUp, lostAcks>>

-----------------------------------------------------------------------------
SaveSettles(f) ==
    \/ SaveSucceeds(f)
    \/ \E e \in Errors :
         \/ RetrySave(f, e)
         \/ RestoreMemory(f, e)
         \/ BatchToMemory(f, e)
         \/ Requeue(f, e)
         \/ Drop(f, e)

Next ==
    \/ \E l \in Logs : AddToBatch(l)
    \/ \E f \in Flushes : BatchTimer(f)
    \/ \E f \in Flushes : SaveSettles(f)
    \/ Tick
    \/ CleanupOldLogs
    \/ StopBatchProcessor
    \/ ResumeStop
    \/ DatabaseChange
    \/ \E committed \in SUBSET Flushes : Crash(committed)

Spec == Init /\ [][Next]_vars

\* The event loop delivers timers and settled promises.  A save settles only when
\* it is answered: the data source sets no connect, query or statement timeout and
\* no keepAlive, so that one in flight to a host that is gone, and those that wait
\* for its place in the pool, may be awaited for ever (Unanswered).  Nothing makes
\* a hit arrive, the database recover, or anyone call stopBatchProcessor.
Fairness ==
    /\ WF_vars(\E f \in Flushes : BatchTimer(f))
    /\ \A f \in Flushes \ Unanswered : WF_vars(SaveSettles(f))
    /\ WF_vars(Tick)
    /\ WF_vars(CleanupOldLogs)

FairSpec == Spec /\ Fairness

-----------------------------------------------------------------------------
(* Properties. *)

InFlush(f) == Range(flush[f].batch) \cup Range(flush[f].mem)
Volatile == Range(batchQueue) \cup Range(memLogs) \cup UNION {InFlush(f) : f \in Flushes}

\* A log is in one place at most: never twice in a sequence, never in the queue,
\* the memory storage and a flush at once, never in two flushes.  Two flushes of
\* ApiLogRepository that overlap must not save the same log.
OneHolder ==
    /\ IsInjective(batchQueue)
    /\ IsInjective(memLogs)
    /\ Range(batchQueue) \cap Range(memLogs) = {}
    /\ \A f \in Flushes :
         /\ IsInjective(flush[f].batch)
         /\ IsInjective(flush[f].mem)
         /\ Range(flush[f].batch) \cap Range(flush[f].mem) = {}
         /\ InFlush(f) \cap (Range(batchQueue) \cup Range(memLogs)) = {}
         /\ \A g \in Flushes \ {f} : InFlush(f) \cap InFlush(g) = {}

\* No log vanishes: from addToBatch until it is stored, or is given up at one of
\* the places where the code gives a log up, it is in the queue, in the memory
\* storage or in a flush, and a log that was settled is in none of them.
NoLogVanishes == \A l \in Logs : fate[l] = "held" <=> l \in Volatile

\* A log gets a second row only when the acknowledgement of an earlier save was
\* lost: no interleaving of flushes, retries and restorations duplicates a row.
DuplicateOnlyByLostAck ==
    \A l \in Logs :
      rows[l] = IF fate[l] = "stored" THEN lostAcks[l] + 1 ELSE lostAcks[l]

\* The memory storage is sorted by age, also after the logs of a failed flush were
\* stamped anew and stored behind younger ones.  The eviction of a full storage
\* relies on it: shift() is to remove the oldest log (the clean-up filters by age).
MemorySortedByAge ==
    \A i, j \in DOMAIN memLogs : i < j => age[memLogs[i]] >= age[memLogs[j]]

\* A flush whose saves are answered ends, whatever other saves wait for ever: the
\* retries of withDatabaseRetry are bounded, and a failed flush of the memory does
\* not block the batch.
FlushTerminates ==
    \A f \in Flushes \ Unanswered : flush[f].pc # "idle" ~> flush[f].pc = "idle"

HeldUnanswered(l) == \E f \in Unanswered : l \in InFlush(f)
NoPoisonHeld == \A p \in Poison : fate[p] # "held"

\* A hit that is queued when the database is up for good is stored or stays in a
\* flush whose save is not answered, provided the pipeline holds no log that the
\* schema rejects, the timer runs on, and the process does not die.
QueueReachesDatabase ==
    \A l \in Logs :
      []([](dbUp /\ stopPhase = "running" /\ NoPoisonHeld) /\ l \in Range(batchQueue)
           => <>(fate[l] \in {"stored", "crashed"} \/ HeldUnanswered(l)))

\* Once the database is up for good and no further hits come, every log held is
\* stored or given up, or stays in a flush whose save is not answered.  As long as
\* hits go on, a row the schema rejects may be handed from flush to flush and
\* stamped anew each time, with the good logs of its batch; the end of the hits is
\* what lets it expire.
EveryLogSettles ==
    (/\ <>[](dbUp /\ stopPhase = "running")
     /\ <>[][~ \E l \in Logs : AddToBatch(l)]_vars)
      => \A l \in Logs :
           fate[l] = "held" ~> (fate[l] \in Settled \/ HeldUnanswered(l))

-----------------------------------------------------------------------------
(* The batch writer keeps the promise of LogDelivery. *)

Status == [l \in Logs |-> CASE fate[l] = "new" -> "new"
                            [] fate[l] = "held" -> "pending"
                            [] fate[l] = "stored" -> "stored"
                            [] OTHER -> "discarded"]

Delivery == INSTANCE LogDelivery
              WITH status <- Status, written <- rows, unacked <- lostAcks

\* Hit by hit the batch writer does what LogDelivery allows: whatever the order
\* of timers, saves, outages and crashes, a hit that was stored or discarded is
\* never taken up again, and only a pending hit is written.
ImplementsDelivery == Delivery!DeliverySpec

-----------------------------------------------------------------------------
(* What a comment of the repository says, and the code does not do. *)

\* api-log.repository.ts:82 flushes the memory storage "when database becomes
\* available again": once it is up for good, what is in memory gets its row.
BacklogReachesDatabase ==
    \A l \in Logs :
      []([](dbUp /\ stopPhase = "running") /\ l \in Range(memLogs) => <>(rows[l] > 0))
=============================================================================
