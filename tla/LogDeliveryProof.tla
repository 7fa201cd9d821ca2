-------------------------- MODULE LogDeliveryProof -------------------------
(***************************************************************************)
(* From the custody of the logs (LogPipelineProof): rows are duplicated by *)
(* lost acknowledgements only, and LogPipeline implements LogDelivery.     *)
(***************************************************************************)
EXTENDS LogPipelineProof

\* The logs a frame is saving are still open.
LEMMA SavingHeld ==
    ASSUME TypeOK, Custody, NEW f \in Flushes
    PROVE  Saving(f) \subseteq Logs /\ \A l \in Saving(f) : fate[l] = "held"
BY FrameFacts, PlaceFacts

\* Logs are evicted from among those in memory and those being stored there.
LEMMA EvictedHeld ==
    ASSUME TypeOK, Custody, NEW f \in Flushes, NEW s \in Seq(Logs),
           Range(s) \subseteq InFlush(f), AddAll(s)
    PROVE  Evicted(s) \subseteq Logs /\ \A l \in Evicted(s) : fate[l] = "held"
<1>1. Evicted(s) \subseteq Range(memLogs) \cup Range(s)
  BY AddAllFacts
<1> QED
  BY <1>1, FrameFacts, PlaceFacts

\* What a rejected save does to the rows: nothing, or a row for every log of the
\* save that is counted as unacknowledged.
LEMMA RejectedRows ==
    ASSUME NEW f \in Flushes, NEW e \in Errors, SaveRejected(f, e), TypeOK
    PROVE  \E S \in {{}, Saving(f)} :
             /\ rows' = [l \in Logs |-> IF l \in S THEN rows[l] + 1 ELSE rows[l]]
             /\ lostAcks' = [l \in Logs |-> IF l \in S THEN lostAcks[l] + 1 ELSE lostAcks[l]]
<1>1. CASE UNCHANGED <<rows, lostAcks>>
  <2>1. /\ rows' = [l \in Logs |-> IF l \in {} THEN rows[l] + 1 ELSE rows[l]]
        /\ lostAcks' = [l \in Logs |-> IF l \in {} THEN lostAcks[l] + 1 ELSE lostAcks[l]]
    BY <1>1 DEF TypeOK
  <2> QED
    BY <2>1
<1>2. CASE /\ rows' = [l \in Logs |-> IF l \in Saving(f) THEN rows[l] + 1 ELSE rows[l]]
           /\ lostAcks' = [l \in Logs |->
                            IF l \in Saving(f) THEN lostAcks[l] + 1 ELSE lostAcks[l]]
  BY <1>2
<1> QED
  BY <1>1, <1>2 DEF SaveRejected

-----------------------------------------------------------------------------
(* A step of LogPipeline, seen log by log. *)

\* The logs of S get a row; with acknowledgement they are stored, without it the
\* row is counted as lost.  The logs of D are given up.
Delivers(S, D) ==
    /\ S \cap D = {}
    /\ rows' = [l \in Logs |-> IF l \in S THEN rows[l] + 1 ELSE rows[l]]
    /\ lostAcks' = lostAcks
    /\ \A l \in Logs : /\ l \in S => fate'[l] = "stored"
                       /\ l \in D => fate'[l] \in Settled \ {"stored"}
                       /\ l \notin S \cup D => fate'[l] = fate[l]

Loses(S, D) ==
    /\ rows' = [l \in Logs |-> IF l \in S THEN rows[l] + 1 ELSE rows[l]]
    /\ lostAcks' = [l \in Logs |-> IF l \in S THEN lostAcks[l] + 1 ELSE lostAcks[l]]
    /\ \A l \in Logs : /\ l \in D => fate'[l] \in Settled \ {"stored"}
                       /\ l \notin D => fate'[l] = fate[l]

Open == {l \in Logs : fate[l] = "held"}

Effect ==
    \/ UNCHANGED <<fate, rows, lostAcks>>
    \/ \E l \in Logs : /\ fate[l] = "new"
                       /\ fate' = [fate EXCEPT ![l] = "held"]
                       /\ UNCHANGED <<rows, lostAcks>>
    \/ \E S, D \in SUBSET Open : Delivers(S, D) \/ Loses(S, D)

\* A rejected save whose error path gives up the logs of D, perhaps none.
LEMMA RejectedEffect ==
    ASSUME TypeOK, Custody, NEW f \in Flushes, NEW e \in Errors, SaveRejected(f, e),
           NEW D \in SUBSET Open,
           \A l \in Logs : /\ l \in D => fate'[l] \in Settled \ {"stored"}
                           /\ l \notin D => fate'[l] = fate[l]
    PROVE  Effect
<1>1. PICK S \in {{}, Saving(f)} :
             /\ rows' = [l \in Logs |-> IF l \in S THEN rows[l] + 1 ELSE rows[l]]
             /\ lostAcks' = [l \in Logs |-> IF l \in S THEN lostAcks[l] + 1 ELSE lostAcks[l]]
  BY RejectedRows
<1>2. S \in SUBSET Open
  BY SavingHeld DEF Open
<1>3. Loses(S, D)
  BY <1>1 DEF Loses
<1> QED
  BY <1>2, <1>3 DEF Effect

\* Every step of LogPipeline has such an effect; one step of the proof per action.
LEMMA StepEffect == TypeOK /\ Custody /\ [Next]_vars => Effect
<1> SUFFICES ASSUME TypeOK, Custody, [Next]_vars PROVE Effect
  OBVIOUS
<1>1. ASSUME NEW l \in Logs, AddToBatch(l) PROVE Effect
  BY <1>1 DEF AddToBatch, Effect
<1>2. ASSUME NEW f \in Flushes, BatchTimer(f) PROVE Effect
  BY <1>2 DEF BatchTimer, Effect
<1>3. ASSUME NEW f \in Flushes, SaveSucceeds(f) PROVE Effect
  <2>1. Saving(f) \in SUBSET Open
    BY SavingHeld DEF Open
  <2>2. Delivers(Saving(f), {})
    BY <1>3 DEF SaveSucceeds, Delivers
  <2> QED
    BY <2>1, <2>2 DEF Effect
<1>4. ASSUME NEW f \in Flushes, NEW e \in Errors, RetrySave(f, e) PROVE Effect
  <2>1. SaveRejected(f, e) /\ fate' = fate /\ {} \in SUBSET Open
    BY <1>4 DEF RetrySave
  <2> QED
    BY <2>1, RejectedEffect
<1>5. ASSUME NEW f \in Flushes, NEW e \in Errors, RestoreMemory(f, e) PROVE Effect
  <2> DEFINE s == flush[f].mem
  <2>1. s \in Seq(Logs) /\ Range(s) \subseteq InFlush(f)
    BY FrameFacts DEF InFlush
  <2>2. SaveRejected(f, e) /\ AddAll(s)
    BY <1>5 DEF RestoreMemory
  <2>3. Evicted(s) \in SUBSET Open
    BY <2>1, <2>2, EvictedHeld DEF Open
  <2>4. \A l \in Logs : /\ l \in Evicted(s) => fate'[l] \in Settled \ {"stored"}
                        /\ l \notin Evicted(s) => fate'[l] = fate[l]
    BY <2>2 DEF AddAll, Settled
  <2> QED
    BY <2>2, <2>3, <2>4, RejectedEffect
<1>6. ASSUME NEW f \in Flushes, NEW e \in Errors, BatchToMemory(f, e) PROVE Effect
  <2> DEFINE s == flush[f].batch
  <2>1. s \in Seq(Logs) /\ Range(s) \subseteq InFlush(f)
    BY FrameFacts DEF InFlush
  <2>2. SaveRejected(f, e) /\ AddAll(s)
    BY <1>6 DEF BatchToMemory
  <2>3. Evicted(s) \in SUBSET Open
    BY <2>1, <2>2, EvictedHeld DEF Open
  <2>4. \A l \in Logs : /\ l \in Evicted(s) => fate'[l] \in Settled \ {"stored"}
                        /\ l \notin Evicted(s) => fate'[l] = fate[l]
    BY <2>2 DEF AddAll, Settled
  <2> QED
    BY <2>2, <2>3, <2>4, RejectedEffect
<1>7. ASSUME NEW f \in Flushes, NEW e \in Errors, Requeue(f, e) PROVE Effect
  <2>1. SaveRejected(f, e) /\ fate' = fate /\ {} \in SUBSET Open
    BY <1>7 DEF Requeue
  <2> QED
    BY <2>1, RejectedEffect
<1>8. ASSUME NEW f \in Flushes, NEW e \in Errors, Drop(f, e) PROVE Effect
  <2>1. SaveRejected(f, e) /\ Saving(f) \in SUBSET Open
    BY <1>8, SavingHeld DEF Drop, Open
  <2>2. \A l \in Logs : /\ l \in Saving(f) => fate'[l] \in Settled \ {"stored"}
                        /\ l \notin Saving(f) => fate'[l] = fate[l]
    BY <1>8 DEF Drop, Settled
  <2> QED
    BY <2>1, <2>2, RejectedEffect
<1>9. CASE Tick
  BY <1>9 DEF Tick, Effect
<1>10. CASE CleanupOldLogs
  <2>1. PICK n \in DOMAIN memLogs : CutMemory(n)
    BY <1>10 DEF CleanupOldLogs
  <2> DEFINE old == Range(SubSeq(memLogs, 1, n))
  <2>2. old \in SUBSET Open
    BY <2>1, CutMemoryFacts, PlaceFacts DEF Open
  <2>3. \A l \in Logs : fate'[l] = IF l \in old THEN "expired" ELSE fate[l]
    BY <2>1 DEF CutMemory
  <2> HIDE DEF old
  <2>4. rows' = [l \in Logs |-> IF l \in {} THEN rows[l] + 1 ELSE rows[l]]
        /\ lostAcks' = lostAcks
    BY <1>10 DEF CleanupOldLogs, TypeOK
  <2>5. Delivers({}, old)
    BY <2>3, <2>4 DEF Delivers, Settled
  <2> QED
    BY <2>2, <2>5 DEF Effect
<1>11. CASE StopBatchProcessor
  BY <1>11 DEF StopBatchProcessor, Effect
<1>12. CASE ResumeStop
  BY <1>12 DEF ResumeStop, Effect
<1>13. CASE DatabaseChange
  BY <1>13 DEF DatabaseChange, Effect
<1>14. ASSUME NEW committed \in SUBSET Flushes, Crash(committed) PROVE Effect
  <2> DEFINE saved == UNION {Saving(f) : f \in committed}
  <2>1. saved \in SUBSET Open
    BY SavingHeld DEF Open
  <2>2. /\ rows' = [l \in Logs |-> IF l \in saved THEN rows[l] + 1 ELSE rows[l]]
        /\ fate' = [l \in Logs |-> IF fate[l] # "held" THEN fate[l]
                                   ELSE IF l \in saved THEN "stored" ELSE "crashed"]
        /\ lostAcks' = lostAcks
    BY <1>14 DEF Crash
  <2> HIDE DEF saved
  <2>3. Delivers(saved, Open \ saved)
    BY <2>1, <2>2 DEF Delivers, Open, Settled
  <2> QED
    BY <2>1, <2>3 DEF Effect
<1>15. CASE UNCHANGED vars
  BY <1>15 DEF vars, Effect
<1> QED
  BY <1>1, <1>2, <1>3, <1>4, <1>5, <1>6, <1>7, <1>8, <1>9, <1>10, <1>11, <1>12,
     <1>13, <1>14, <1>15 DEF Next, SaveSettles

-----------------------------------------------------------------------------
(* No duplicate row without a lost acknowledgement. *)

LEMMA NextDuplicate ==
    TypeOK /\ Custody /\ DuplicateOnlyByLostAck /\ [Next]_vars => DuplicateOnlyByLostAck'
<1> SUFFICES ASSUME TypeOK, DuplicateOnlyByLostAck, Effect PROVE DuplicateOnlyByLostAck'
  BY StepEffect
<1>1. CASE UNCHANGED <<fate, rows, lostAcks>>
  BY <1>1 DEF DuplicateOnlyByLostAck
<1>2. ASSUME NEW l \in Logs, fate[l] = "new", fate' = [fate EXCEPT ![l] = "held"],
             UNCHANGED <<rows, lostAcks>>
      PROVE  DuplicateOnlyByLostAck'
  BY <1>2 DEF DuplicateOnlyByLostAck, TypeOK
<1>3. ASSUME NEW S \in SUBSET Open, NEW D \in SUBSET Open, Delivers(S, D)
      PROVE  DuplicateOnlyByLostAck'
  BY <1>3 DEF DuplicateOnlyByLostAck, Delivers, Open, Settled, TypeOK
<1>4. ASSUME NEW S \in SUBSET Open, NEW D \in SUBSET Open, Loses(S, D)
      PROVE  DuplicateOnlyByLostAck'
  BY <1>4 DEF DuplicateOnlyByLostAck, Loses, Open, Settled, TypeOK
<1> QED
  BY <1>1, <1>2, <1>3, <1>4 DEF Effect

\* For any number of overlapping flushes, retries, outages and crashes, a log has
\* as many rows as acknowledgements were lost for it, and one more once the code
\* knows that it is stored: nothing else ever writes a log twice.
THEOREM RowsCounted == Spec => []DuplicateOnlyByLostAck
<1>1. Init => TypeOK /\ Custody /\ DuplicateOnlyByLostAck
  <2>1. Init => DuplicateOnlyByLostAck
    BY DEF Init, DuplicateOnlyByLostAck
  <2> QED
    BY <2>1, InitType, InitCustody
<1>2. TypeOK /\ Custody /\ DuplicateOnlyByLostAck /\ [Next]_vars
        => (TypeOK /\ Custody /\ DuplicateOnlyByLostAck)'
  BY NextType, NextCustody, NextDuplicate
<1> QED
  BY <1>1, <1>2, PTL DEF Spec

-----------------------------------------------------------------------------
(* LogPipeline implements LogDelivery. *)

\* Log by log, what a fate is to LogDelivery.
LEMMA StatusOfFate ==
    ASSUME TypeOK, NEW l \in Logs
    PROVE  /\ Status[l] = "new" <=> fate[l] = "new"
           /\ Status[l] = "pending" <=> fate[l] = "held"
           /\ fate[l] = "stored" => Status[l] = "stored"
           /\ fate[l] \in Settled \ {"stored"} => Status[l] = "discarded"
BY DEF Status, TypeOK, Fates, Settled

LEMMA DeliveryStep ==
    TypeOK /\ TypeOK' /\ Custody /\ [Next]_vars
      => [Delivery!DeliveryNext]_(Delivery!dvars)
<1> SUFFICES ASSUME TypeOK, TypeOK', Effect
             PROVE  [Delivery!DeliveryNext]_(Delivery!dvars)
  BY StepEffect
<1>1. CASE UNCHANGED <<fate, rows, lostAcks>>
  <2>1. Status' = Status
    BY <1>1 DEF Status
  <2> QED
    BY <1>1, <2>1 DEF Delivery!dvars
<1>2. ASSUME NEW l \in Logs, fate[l] = "new", fate' = [fate EXCEPT ![l] = "held"],
             UNCHANGED <<rows, lostAcks>>
      PROVE  Delivery!Accept(l)
  <2>1. Status' = [Status EXCEPT ![l] = "pending"]
    BY <1>2 DEF Status, TypeOK
  <2> QED
    BY <1>2, <2>1 DEF Delivery!Accept, Status
<1>3. Delivery!Pending = Open
  BY DEF Delivery!Pending, Open, Status, TypeOK, Fates, Settled
<1>4. ASSUME NEW S \in SUBSET Open, NEW D \in SUBSET Open, Delivers(S, D)
      PROVE  Delivery!Write(S) /\ Delivery!Deliver(S, D)
  <2>1. Status' = [l \in Logs |-> IF l \in S THEN "stored"
                                  ELSE IF l \in D THEN "discarded" ELSE Status[l]]
    BY <1>4 DEF Status, Delivers, TypeOK, Fates, Settled
  <2> QED
    BY <1>4, <2>1 DEF Delivery!Write, Delivery!Deliver, Delivers
<1>5. ASSUME NEW S \in SUBSET Open, NEW D \in SUBSET Open, Loses(S, D)
      PROVE  Delivery!Write(S) /\ Delivery!LoseAck(S, D)
  <2>1. Status' = [l \in Logs |-> IF l \in D THEN "discarded" ELSE Status[l]]
    BY <1>5 DEF Status, Loses, TypeOK, Fates, Settled
  <2> QED
    BY <1>5, <2>1 DEF Delivery!Write, Delivery!LoseAck, Loses
<1> QED
  BY <1>1, <1>2, <1>3, <1>4, <1>5 DEF Effect, Delivery!DeliveryNext

\* The queue, the flushes, the memory storage and their error paths do, hit by
\* hit, what LogDelivery promises.
THEOREM PipelineImplementsDelivery == Spec => ImplementsDelivery
<1>1. Init => Delivery!DeliveryInit
  BY DEF Init, Status, Delivery!DeliveryInit
<1>2. Init => TypeOK /\ Custody
  BY InitType, InitCustody
<1>3. TypeOK /\ Custody /\ [Next]_vars => (TypeOK /\ Custody)'
  BY NextType, NextCustody
<1>4. TypeOK /\ TypeOK' /\ Custody /\ [Next]_vars
        => [Delivery!DeliveryNext]_(Delivery!dvars)
  BY DeliveryStep
<1> QED
  BY <1>1, <1>2, <1>3, <1>4, PTL DEF Spec, ImplementsDelivery, Delivery!DeliverySpec
=============================================================================
