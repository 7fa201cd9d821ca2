--------------------------- MODULE MCLogPipeline ---------------------------
(* LogPipeline on small instances. *)
EXTENDS LogPipeline, TLC

CONSTANTS l1, l2, l3, l4, f1, f2, stop

MCLogs3 == {l1, l2, l3}
MCLogs4 == {l1, l2, l3, l4}
MCNoPoison == {}
MCPoison == {l1}
MCFlushes2 == {f1, stop}
MCFlushes3 == {f1, f2, stop}
MCAllAnswered == {}
MCUnanswered == {f2}

\* All but the way in which a log was given up, which no step reads; nor does a
\* property, but TypeOK.
MCView ==
    <<batchQueue, memLogs, age, flush, stopPhase, dbUp, rows, lostAcks, Status, crashes>>

MCSymmetry == Permutations(Logs \ Poison) \cup Permutations({f1, f2})
=============================================================================
