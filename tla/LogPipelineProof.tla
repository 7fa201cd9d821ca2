------------------------- MODULE LogPipelineProof --------------------------
(***************************************************************************)
(* Theorems about LogPipeline, for any set of logs, any number of flushes  *)
(* in flight and any sizes and bounds: type correctness, that every hit    *)
(* that was accepted and not settled is in exactly one place, that the     *)
(* in-memory storage stays sorted by age, and that every answer to a save  *)
(* brings its flush nearer to its end.                                     *)
(***************************************************************************)
EXTENDS LogPipeline, SequenceTheorems, TLAPS

-----------------------------------------------------------------------------
(* Sequences as containers. *)

\* What a sequence over S contains: its elements at the positions 1 .. Len(s).
LEMMA RangeMember ==
    ASSUME NEW S, NEW s \in Seq(S)
    PROVE  /\ Range(s) \subseteq S
           /\ \A x : x \in Range(s) <=> \E i \in 1 .. Len(s) : s[i] = x
<1>1. DOMAIN s = 1 .. Len(s) /\ \A i \in 1 .. Len(s) : s[i] \in S
  BY LenProperties, ElementOfSeq
<1> QED
  BY <1>1 DEF Range

\* The empty sequence contains nothing.
LEMMA EmptyRange == Range(<<>>) = {} /\ IsInjective(<<>>)
BY DEF Range, IsInjective

\* Concatenating two disjoint sequences without repetitions makes another one.
LEMMA ConcatInjective ==
    ASSUME NEW S, NEW s \in Seq(S), NEW t \in Seq(S),
           IsInjective(s), IsInjective(t), Range(s) \cap Range(t) = {}
    PROVE  IsInjective(s \o t)
<1>1. /\ s \o t \in Seq(S)
      /\ Len(s \o t) = Len(s) + Len(t)
      /\ \A i \in 1 .. Len(s) + Len(t) :
           (s \o t)[i] = IF i <= Len(s) THEN s[i] ELSE t[i - Len(s)]
  BY ConcatProperties
<1>2. Len(s) \in Nat /\ Len(t) \in Nat
      /\ DOMAIN s = 1 .. Len(s) /\ DOMAIN t = 1 .. Len(t)
      /\ DOMAIN (s \o t) = 1 .. Len(s) + Len(t)
  BY <1>1, LenProperties
<1> SUFFICES ASSUME NEW a \in 1 .. Len(s) + Len(t), NEW b \in 1 .. Len(s) + Len(t),
                    (s \o t)[a] = (s \o t)[b]
             PROVE  a = b
  BY <1>2 DEF IsInjective
<1>3. CASE a <= Len(s) /\ b <= Len(s)
  BY <1>1, <1>2, <1>3 DEF IsInjective
<1>4. CASE a > Len(s) /\ b > Len(s)
  <2>1. a - Len(s) \in 1 .. Len(t) /\ b - Len(s) \in 1 .. Len(t)
    BY <1>2, <1>4
  <2>2. t[a - Len(s)] = t[b - Len(s)]
    BY <1>1, <1>2, <1>4
  <2> QED
    BY <2>1, <2>2, <1>2 DEF IsInjective
<1>5. CASE a <= Len(s) /\ b > Len(s)
  <2>1. b - Len(s) \in 1 .. Len(t) /\ s[a] = t[b - Len(s)]
    BY <1>1, <1>2, <1>5
  <2>2. a \in 1 .. Len(s)
    BY <1>2, <1>5
  <2> QED
    BY <2>1, <2>2, RangeMember
<1>6. CASE a > Len(s) /\ b <= Len(s)
  <2>1. a - Len(s) \in 1 .. Len(t) /\ s[b] = t[a - Len(s)]
    BY <1>1, <1>2, <1>6
  <2>2. b \in 1 .. Len(s)
    BY <1>2, <1>6
  <2> QED
    BY <2>1, <2>2, RangeMember
<1> QED
  BY <1>2, <1>3, <1>4, <1>5, <1>6

\* Appending a new element to a sequence without repetitions.
LEMMA AppendInjectiveSeq ==
    ASSUME NEW S, NEW s \in Seq(S), NEW e \in S
    PROVE  /\ Append(s, e) \in Seq(S)
           /\ Range(Append(s, e)) = Range(s) \cup {e}
           /\ IsInjective(s) /\ e \notin Range(s) => IsInjective(Append(s, e))
<1> DEFINE t == <<e>>
<1>1. t \in Seq(S) /\ Len(t) = 1 /\ t[1] = e
  OBVIOUS
<1>2. Append(s, e) = s \o t
  BY AppendIsConcat
<1> HIDE DEF t
<1>3. DOMAIN t = {1}
  BY <1>1, LenProperties
<1>4. Range(t) = {e} /\ IsInjective(t)
  BY <1>1, <1>3 DEF Range, IsInjective
<1>5. s \o t \in Seq(S)
  BY <1>1, ConcatProperties
<1>6. Range(s \o t) = Range(s) \cup {e}
  BY <1>1, <1>4, RangeConcatenation
<1>7. ASSUME IsInjective(s), e \notin Range(s) PROVE IsInjective(s \o t)
  <2>1. Range(s) \cap Range(t) = {}
    BY <1>4, <1>7
  <2> QED
    BY <1>1, <1>4, <1>7, <2>1, ConcatInjective
<1> QED
  BY <1>2, <1>5, <1>6, <1>7

\* Cutting a sequence in two after n elements splits what it contains.
LEMMA CutSeq ==
    ASSUME NEW S, NEW s \in Seq(S), NEW n \in Nat, n <= Len(s)
    PROVE  LET p == SubSeq(s, 1, n)
               r == SubSeq(s, n + 1, Len(s))
           IN  /\ p \in Seq(S) /\ r \in Seq(S)
               /\ Len(r) = Len(s) - n
               /\ Range(s) = Range(p) \cup Range(r)
               /\ IsInjective(s) => IsInjective(r) /\ Range(p) \cap Range(r) = {}
<1> DEFINE p == SubSeq(s, 1, n)
           r == SubSeq(s, n + 1, Len(s))
<1>1. Len(s) \in Nat /\ DOMAIN s = 1 .. Len(s) /\ \A i \in 1 .. Len(s) : s[i] \in S
  BY LenProperties, ElementOfSeq
<1>2. p \in Seq(S) /\ Len(p) = n /\ \A i \in 1 .. n : p[i] = s[i]
  <2>1. \A i \in 1 .. n : s[i] \in S
    BY <1>1
  <2>2. /\ SubSeq(s, 1, n) \in Seq(S)
        /\ Len(SubSeq(s, 1, n)) = IF 1 <= n THEN n - 1 + 1 ELSE 0
        /\ \A i \in 1 .. n - 1 + 1 : SubSeq(s, 1, n)[i] = s[1 + i - 1]
    BY <2>1, SubSeqProperties
  <2> QED
    BY <2>2
<1>3. r \in Seq(S) /\ Len(r) = Len(s) - n /\ \A i \in 1 .. Len(s) - n : r[i] = s[n + i]
  <2>1. (\A i \in n + 1 .. Len(s) : s[i] \in S) /\ n + 1 \in Int /\ Len(s) \in Int
    BY <1>1
  <2>2. /\ r \in Seq(S)
        /\ Len(r) = IF n + 1 <= Len(s) THEN Len(s) - (n + 1) + 1 ELSE 0
        /\ \A i \in 1 .. Len(s) - (n + 1) + 1 : r[i] = s[(n + 1) + i - 1]
    BY <2>1, SubSeqProperties
  <2> HIDE DEF r
  <2>3. Len(r) = Len(s) - n
    <3> DEFINE k == Len(s)
    <3>1. k \in Nat /\ n <= k /\ Len(r) = IF n + 1 <= k THEN k - (n + 1) + 1 ELSE 0
      BY <1>1, <2>2
    <3> HIDE DEF k
    <3>2. Len(r) = k - n
      BY <3>1
    <3> QED
      BY <3>2 DEF k
  <2>4. ASSUME NEW i \in 1 .. Len(s) - n PROVE r[i] = s[n + i]
    <3>1. i \in 1 .. Len(s) - (n + 1) + 1 /\ (n + 1) + i - 1 = n + i
      BY <1>1
    <3>2. r[i] = s[(n + 1) + i - 1]
      BY <2>2, <3>1
    <3> QED
      BY <3>1, <3>2
  <2> QED
    BY <2>2, <2>3, <2>4
<1> HIDE DEF p, r
<1>4. DOMAIN p = 1 .. n /\ DOMAIN r = 1 .. Len(s) - n
  <2>1. DOMAIN p = 1 .. Len(p)
    BY <1>2, LenProperties
  <2>2. DOMAIN r = 1 .. Len(r)
    BY <1>3, LenProperties
  <2> QED
    BY <2>1, <2>2, <1>2, <1>3
<1>5. Range(s) = Range(p) \cup Range(r)
  <2>1. ASSUME NEW x \in Range(s) PROVE x \in Range(p) \cup Range(r)
    <3>1. PICK i \in 1 .. Len(s) : s[i] = x
      BY <1>1 DEF Range
    <3>2. CASE i <= n
      <4>1. i \in 1 .. n
        BY <3>2
      <4> QED
        BY <4>1, <3>1, <1>2, <1>4 DEF Range
    <3>3. CASE i > n
      <4>1. i - n \in 1 .. Len(s) - n /\ n + (i - n) = i
        BY <1>1, <3>3
      <4>2. r[i - n] = x
        BY <4>1, <3>1, <1>3
      <4> QED
        BY <4>1, <4>2, <1>4 DEF Range
    <3> QED
      BY <1>1, <3>2, <3>3
  <2>2. Range(p) \subseteq Range(s)
    BY <1>1, <1>2, <1>4 DEF Range
  <2>3. Range(r) \subseteq Range(s)
    <3>1. \A i \in 1 .. Len(s) - n : n + i \in 1 .. Len(s)
      BY <1>1
    <3> QED
      BY <3>1, <1>1, <1>3, <1>4 DEF Range
  <2> QED
    BY <2>1, <2>2, <2>3
<1>6. ASSUME IsInjective(s)
      PROVE  IsInjective(r) /\ Range(p) \cap Range(r) = {}
  <2>1. ASSUME NEW a \in 1 .. Len(s) - n, NEW b \in 1 .. Len(s) - n, r[a] = r[b]
        PROVE  a = b
    <3>1. n + a \in 1 .. Len(s) /\ n + b \in 1 .. Len(s) /\ s[n + a] = s[n + b]
      BY <1>1, <1>3, <2>1
    <3>2. n + a = n + b
      BY <3>1, <1>1, <1>6 DEF IsInjective
    <3> QED
      BY <3>2
  <2>2. ASSUME NEW a \in 1 .. n, NEW b \in 1 .. Len(s) - n, p[a] = r[b]
        PROVE  FALSE
    <3>1. a \in 1 .. Len(s) /\ n + b \in 1 .. Len(s) /\ s[a] = s[n + b]
      BY <1>1, <1>2, <1>3, <2>2
    <3>2. a = n + b
      BY <3>1, <1>1, <1>6 DEF IsInjective
    <3> QED
      BY <3>2
  <2> QED
    BY <2>1, <2>2, <1>4 DEF IsInjective, Range
<1> QED
  BY <1>2, <1>3, <1>5, <1>6 DEF p, r

-----------------------------------------------------------------------------
(* The steps the actions share. *)

\* Storing logs in memory keeps the youngest MaxSize of them; each log that was
\* there or is added is kept or evicted, and never both.
LEMMA AddAllFacts ==
    ASSUME TypeOK, NEW s \in Seq(Logs), AddAll(s)
    PROVE  /\ memLogs' \in Seq(Logs)
           /\ Len(memLogs') <= MaxSize
           /\ age' \in [Logs -> 0 .. MaxAge]
           /\ fate' \in [Logs -> Fates]
           /\ Range(memLogs) \cup Range(s) = Evicted(s) \cup Range(memLogs')
           /\ IsInjective(memLogs) /\ IsInjective(s) /\ Range(memLogs) \cap Range(s) = {}
                => IsInjective(memLogs') /\ Evicted(s) \cap Range(memLogs') = {}
<1> DEFINE all == Pushed(s)
           n == Overflow(s)
<1>1. memLogs \in Seq(Logs) /\ MaxSize \in Nat
  BY SizeAssumption DEF TypeOK
<1>2. all \in Seq(Logs) /\ Range(all) = Range(memLogs) \cup Range(s)
  BY <1>1, ConcatProperties, RangeConcatenation DEF Pushed
<1>3. IsInjective(memLogs) /\ IsInjective(s) /\ Range(memLogs) \cap Range(s) = {}
        => IsInjective(all)
  BY <1>1, ConcatInjective DEF Pushed
<1>4. n = IF Len(all) > MaxSize THEN Len(all) - MaxSize ELSE 0
  BY DEF Overflow
<1>5. memLogs' = SubSeq(all, n + 1, Len(all)) /\ Evicted(s) = Range(SubSeq(all, 1, n))
  BY DEF AddAll, Evicted
<1> HIDE DEF all, n
<1>6. Len(all) \in Nat
  BY <1>2, LenProperties
<1>7. n \in Nat /\ n <= Len(all) /\ Len(all) - n <= MaxSize
  BY <1>1, <1>4, <1>6
<1>8. /\ memLogs' \in Seq(Logs)
      /\ Len(memLogs') = Len(all) - n
      /\ Range(all) = Evicted(s) \cup Range(memLogs')
      /\ IsInjective(all) => IsInjective(memLogs') /\ Evicted(s) \cap Range(memLogs') = {}
  BY <1>2, <1>5, <1>7, CutSeq
<1>9. age' \in [Logs -> 0 .. MaxAge] /\ fate' \in [Logs -> Fates]
  BY SizeAssumption DEF AddAll, TypeOK, Fates, Settled
<1> QED
  BY <1>2, <1>3, <1>7, <1>8, <1>9

\* An idle frame, and a frame that starts or goes on, is a frame.
LEMMA FrameTypes ==
    /\ Idle \in Frames
    /\ \A b, m \in Seq(Logs), pc \in {"idle", "mem", "batch"} :
         [pc |-> pc, batch |-> b, mem |-> m, attempt |-> 1] \in Frames
    /\ \A f \in Flushes : TypeOK => AfterMemory(f) \in Frames
<1>1. 1 \in 1 .. MaxRetries + 1
  BY SizeAssumption
<1>2. <<>> \in Seq(Logs)
  OBVIOUS
<1>3. Idle \in Frames
  BY <1>1, <1>2 DEF Idle, Frames
<1>4. ASSUME NEW f \in Flushes, TypeOK PROVE AfterMemory(f) \in Frames
  <2>1. flush[f] \in Frames
    BY <1>4 DEF TypeOK
  <2>2. [flush[f] EXCEPT !.pc = "batch", !.mem = <<>>, !.attempt = 1] \in Frames
    BY <2>1, <1>1, <1>2 DEF Frames
  <2> QED
    BY <2>2, <1>3 DEF AfterMemory
<1> QED
  BY <1>1, <1>3, <1>4 DEF Frames

\* What starting a flush does to the types.
LEMMA FlushBatchType ==
    ASSUME TypeOK, NEW f \in Flushes, NEW q \in Seq(Logs), FlushBatch(f, q)
    PROVE  /\ flush' \in [Flushes -> Frames]
           /\ batchQueue' \in Seq(Logs)
           /\ memLogs' \in Seq(Logs) /\ Len(memLogs') <= MaxSize
           /\ age' \in [Logs -> 0 .. MaxAge]
<1>1. [pc |-> IF memLogs = <<>> THEN "batch" ELSE "mem",
       batch |-> q, mem |-> memLogs, attempt |-> 1] \in Frames
  BY FrameTypes DEF TypeOK
<1>2. flush' \in [Flushes -> Frames]
  BY <1>1 DEF FlushBatch, TypeOK
<1>3. memLogs' = <<>> /\ batchQueue' = <<>>
  BY DEF FlushBatch, DrainMemory
<1>4. age' \in [Logs -> 0 .. MaxAge]
  BY SizeAssumption DEF FlushBatch, DrainMemory, TypeOK
<1> QED
  BY <1>2, <1>3, <1>4, EmptySeq, SizeAssumption

\* Cutting a prefix off the memory expires what is in the prefix, and only that.
LEMMA CutMemoryFacts ==
    ASSUME TypeOK, NEW n \in DOMAIN memLogs, CutMemory(n)
    PROVE  /\ memLogs' \in Seq(Logs)
           /\ Len(memLogs') <= MaxSize
           /\ age' \in [Logs -> 0 .. MaxAge]
           /\ fate' \in [Logs -> Fates]
           /\ Range(memLogs) = Range(SubSeq(memLogs, 1, n)) \cup Range(memLogs')
           /\ IsInjective(memLogs) =>
                /\ IsInjective(memLogs')
                /\ Range(SubSeq(memLogs, 1, n)) \cap Range(memLogs') = {}
<1>1. memLogs \in Seq(Logs) /\ MaxSize \in Nat /\ Len(memLogs) <= MaxSize
  BY SizeAssumption DEF TypeOK
<1>2. Len(memLogs) \in Nat /\ n \in Nat /\ n <= Len(memLogs)
  BY <1>1, LenProperties
<1>3. memLogs' = SubSeq(memLogs, n + 1, Len(memLogs))
  BY DEF CutMemory
<1>4. /\ memLogs' \in Seq(Logs)
      /\ Len(memLogs') = Len(memLogs) - n
      /\ Range(memLogs) = Range(SubSeq(memLogs, 1, n)) \cup Range(memLogs')
      /\ IsInjective(memLogs) =>
           /\ IsInjective(memLogs')
           /\ Range(SubSeq(memLogs, 1, n)) \cap Range(memLogs') = {}
  BY <1>1, <1>2, <1>3, CutSeq
<1>5. Len(memLogs') <= MaxSize
  BY <1>1, <1>2, <1>4
<1>6. age' \in [Logs -> 0 .. MaxAge] /\ fate' \in [Logs -> Fates]
  BY SMTT(20), SizeAssumption DEF CutMemory, TypeOK, Fates, Settled
<1> QED
  BY <1>4, <1>5, <1>6

-----------------------------------------------------------------------------
(* Type correctness. *)

LEMMA InitType == Init => TypeOK
<1> SUFFICES ASSUME Init PROVE TypeOK
  OBVIOUS
<1>1. batchQueue \in Seq(Logs) /\ memLogs \in Seq(Logs) /\ Len(memLogs) <= MaxSize
  BY EmptySeq, SizeAssumption DEF Init
<1>2. flush \in [Flushes -> Frames]
  BY FrameTypes DEF Init
<1> QED
  BY <1>1, <1>2, SizeAssumption DEF Init, TypeOK, Fates

\* SaveRejected leaves the rows and the lost acknowledgements natural numbers.
LEMMA RejectedType ==
    ASSUME TypeOK, NEW f \in Flushes, NEW e \in Errors, SaveRejected(f, e)
    PROVE  rows' \in [Logs -> Nat] /\ lostAcks' \in [Logs -> Nat]
<1>1. CASE UNCHANGED <<rows, lostAcks>>
  BY <1>1 DEF TypeOK
<1>2. CASE /\ rows' = [l \in Logs |-> IF l \in Saving(f) THEN rows[l] + 1 ELSE rows[l]]
           /\ lostAcks' = [l \in Logs |->
                            IF l \in Saving(f) THEN lostAcks[l] + 1 ELSE lostAcks[l]]
  BY <1>2 DEF TypeOK
<1> QED
  BY <1>1, <1>2 DEF SaveRejected

LEMMA StopMemoryType ==
    ASSUME TypeOK, StopMemory
    PROVE  /\ flush' \in [Flushes -> Frames]
           /\ batchQueue' \in Seq(Logs)
           /\ memLogs' \in Seq(Logs) /\ Len(memLogs') <= MaxSize
           /\ age' \in [Logs -> 0 .. MaxAge]
           /\ stopPhase' \in {"running", "flush", "drain", "stopped"}
<1>1. CASE memLogs # <<>>
  <2>1. [pc |-> "mem", batch |-> <<>>, mem |-> memLogs, attempt |-> 1] \in Frames
    BY FrameTypes, EmptySeq DEF TypeOK
  <2>2. flush' \in [Flushes -> Frames] /\ memLogs' = <<>> /\ stopPhase' = "drain"
        /\ batchQueue' = batchQueue
    BY <1>1, <2>1 DEF StopMemory, DrainMemory, TypeOK
  <2>3. age' = [l \in Logs |-> IF l \in Range(memLogs) THEN 0 ELSE age[l]]
    BY <1>1 DEF StopMemory, DrainMemory
  <2>4. age' \in [Logs -> 0 .. MaxAge]
    BY <2>3, SizeAssumption DEF TypeOK
  <2>5. memLogs' \in Seq(Logs) /\ Len(memLogs') <= MaxSize
    BY <2>2, EmptySeq, SizeAssumption
  <2> QED
    BY <2>2, <2>4, <2>5 DEF TypeOK
<1>2. CASE memLogs = <<>>
  BY <1>2 DEF StopMemory, TypeOK
<1> QED
  BY <1>1, <1>2

\* Every step keeps the types.
LEMMA NextType == TypeOK /\ [Next]_vars => TypeOK'
<1> SUFFICES ASSUME TypeOK, [Next]_vars PROVE TypeOK'
  OBVIOUS
<1>1. ASSUME NEW l \in Logs, AddToBatch(l) PROVE TypeOK'
  <2> DEFINE q == Append(batchQueue, l)
  <2>1. q \in Seq(Logs)
    BY AppendProperties DEF TypeOK
  <2>2. fate' \in [Logs -> Fates]
    BY <1>1 DEF AddToBatch, TypeOK, Fates
  <2>3. CASE batchQueue' = q /\ UNCHANGED <<memLogs, age, flush>>
    BY <1>1, <2>1, <2>2, <2>3 DEF AddToBatch, TypeOK
  <2>4. CASE \E f \in Flushes \ {Stopper} : FlushBatch(f, q)
    BY <1>1, <2>1, <2>2, <2>4, FlushBatchType DEF AddToBatch, TypeOK
  <2> QED
    BY <1>1, <2>3, <2>4 DEF AddToBatch
<1>2. ASSUME NEW f \in Flushes, BatchTimer(f) PROVE TypeOK'
  <2>1. batchQueue \in Seq(Logs) /\ FlushBatch(f, batchQueue)
    BY <1>2 DEF BatchTimer, TypeOK
  <2> QED
    BY <1>2, <2>1, FlushBatchType DEF BatchTimer, TypeOK
<1>3. ASSUME NEW f \in Flushes, SaveSucceeds(f) PROVE TypeOK'
  <2>1. flush' \in [Flushes -> Frames]
    BY <1>3, FrameTypes DEF SaveSucceeds, TypeOK
  <2>2. rows' \in [Logs -> Nat] /\ fate' \in [Logs -> Fates]
    BY <1>3 DEF SaveSucceeds, TypeOK, Fates, Settled
  <2> QED
    BY <1>3, <2>1, <2>2 DEF SaveSucceeds, TypeOK
<1>4. ASSUME NEW f \in Flushes, NEW e \in Errors, RetrySave(f, e) PROVE TypeOK'
  <2>1. flush[f] \in Frames /\ flush[f].attempt <= MaxRetries
    BY <1>4, SizeAssumption DEF RetrySave, GivesUp, TypeOK, Frames
  <2>2. [flush[f] EXCEPT !.attempt = @ + 1] \in Frames
    <3>1. flush[f].attempt + 1 \in 1 .. MaxRetries + 1
      BY <2>1, SizeAssumption DEF Frames
    <3> QED
      BY <2>1, <3>1 DEF Frames
  <2>3. flush' \in [Flushes -> Frames]
    BY <1>4, <2>2 DEF RetrySave, TypeOK
  <2> QED
    BY <1>4, <2>3, RejectedType DEF RetrySave, TypeOK
<1>5. ASSUME NEW f \in Flushes, NEW e \in Errors, RestoreMemory(f, e) PROVE TypeOK'
  <2>1. flush[f].mem \in Seq(Logs) /\ AddAll(flush[f].mem)
    BY <1>5 DEF RestoreMemory, TypeOK, Frames
  <2>2. flush' \in [Flushes -> Frames]
    BY <1>5, FrameTypes DEF RestoreMemory, TypeOK
  <2>3. rows' \in [Logs -> Nat] /\ lostAcks' \in [Logs -> Nat]
    BY <1>5, RejectedType DEF RestoreMemory
  <2> QED
    BY <1>5, <2>1, <2>2, <2>3, AddAllFacts DEF RestoreMemory, TypeOK
<1>6. ASSUME NEW f \in Flushes, NEW e \in Errors, BatchToMemory(f, e) PROVE TypeOK'
  <2>1. flush[f].batch \in Seq(Logs) /\ AddAll(flush[f].batch)
    BY <1>6 DEF BatchToMemory, TypeOK, Frames
  <2>2. flush' \in [Flushes -> Frames]
    BY <1>6, FrameTypes DEF BatchToMemory, TypeOK
  <2>3. rows' \in [Logs -> Nat] /\ lostAcks' \in [Logs -> Nat]
    BY <1>6, RejectedType DEF BatchToMemory
  <2> QED
    BY <1>6, <2>1, <2>2, <2>3, AddAllFacts DEF BatchToMemory, TypeOK
<1>7. ASSUME NEW f \in Flushes, NEW e \in Errors, Requeue(f, e) PROVE TypeOK'
  <2>1. flush[f].batch \in Seq(Logs) /\ batchQueue \in Seq(Logs)
    BY DEF TypeOK, Frames
  <2>2. batchQueue' \in Seq(Logs)
    BY <1>7, <2>1, ConcatProperties DEF Requeue
  <2>3. flush' \in [Flushes -> Frames]
    BY <1>7, FrameTypes DEF Requeue, TypeOK
  <2>4. rows' \in [Logs -> Nat] /\ lostAcks' \in [Logs -> Nat]
    BY <1>7, RejectedType DEF Requeue
  <2> QED
    BY <1>7, <2>2, <2>3, <2>4 DEF Requeue, TypeOK
<1>8. ASSUME NEW f \in Flushes, NEW e \in Errors, Drop(f, e) PROVE TypeOK'
  <2>1. flush' \in [Flushes -> Frames]
    BY <1>8, FrameTypes DEF Drop, TypeOK
  <2>2. rows' \in [Logs -> Nat] /\ lostAcks' \in [Logs -> Nat]
    BY <1>8, RejectedType DEF Drop
  <2>3. fate' \in [Logs -> Fates]
    BY <1>8 DEF Drop, TypeOK, Fates, Settled
  <2> QED
    BY <1>8, <2>1, <2>2, <2>3 DEF Drop, TypeOK
<1>9. CASE Tick
  <2>1. age' \in [Logs -> 0 .. MaxAge]
    BY <1>9, SizeAssumption DEF Tick, TypeOK
  <2> QED
    BY <1>9, <2>1 DEF Tick, TypeOK
<1>10. CASE CleanupOldLogs
  <2>1. PICK n \in DOMAIN memLogs : CutMemory(n)
    BY <1>10 DEF CleanupOldLogs
  <2> QED
    BY <1>10, <2>1, CutMemoryFacts DEF CleanupOldLogs, TypeOK
<1>11. CASE StopBatchProcessor
  <2>1. CASE batchQueue # <<>>
    BY <1>11, <2>1, FlushBatchType, StopperAssumption DEF StopBatchProcessor, TypeOK
  <2>2. CASE batchQueue = <<>>
    BY <1>11, <2>2, StopMemoryType DEF StopBatchProcessor, TypeOK
  <2> QED
    BY <2>1, <2>2
<1>12. CASE ResumeStop
  <2>1. CASE stopPhase = "flush"
    BY <1>12, <2>1, StopMemoryType DEF ResumeStop, TypeOK
  <2>2. CASE stopPhase # "flush"
    BY <1>12, <2>2 DEF ResumeStop, TypeOK
  <2> QED
    BY <2>1, <2>2
<1>13. CASE DatabaseChange
  BY <1>13 DEF DatabaseChange, TypeOK
<1>14. ASSUME NEW committed \in SUBSET Flushes, Crash(committed) PROVE TypeOK'
  <2>1. flush' \in [Flushes -> Frames]
    BY <1>14, FrameTypes DEF Crash
  <2>2. rows' \in [Logs -> Nat] /\ fate' \in [Logs -> Fates]
    BY <1>14 DEF Crash, TypeOK, Fates, Settled
  <2>3. age' \in [Logs -> 0 .. MaxAge] /\ crashes' \in Nat
    BY <1>14, SizeAssumption DEF Crash, TypeOK
  <2>4. batchQueue' \in Seq(Logs) /\ memLogs' \in Seq(Logs) /\ Len(memLogs') <= MaxSize
    BY <1>14, EmptySeq, SizeAssumption DEF Crash
  <2> QED
    BY <1>14, <2>1, <2>2, <2>3, <2>4 DEF Crash, TypeOK
<1>15. CASE UNCHANGED vars
  BY <1>15 DEF vars, TypeOK
<1> QED
  BY <1>1, <1>2, <1>3, <1>4, <1>5, <1>6, <1>7, <1>8, <1>9, <1>10, <1>11, <1>12,
     <1>13, <1>14, <1>15 DEF Next, SaveSettles

\* TypeOK for any number of logs and flushes: the retry counter stays within its
\* bound, and the in-memory storage never holds more than MaxSize logs.
THEOREM TypeCorrect == Spec => []TypeOK
<1> QED
  BY InitType, NextType, PTL DEF Spec

-----------------------------------------------------------------------------
(* Custody: where the logs are. *)

\* What a frame holds by its pc: an idle one nothing, one that saves its batch no
\* more of the memory.  Without it a finished flush might take logs away with it.
FrameShape ==
    \A f \in Flushes :
      /\ flush[f].pc = "idle" => flush[f].batch = <<>> /\ flush[f].mem = <<>>
      /\ flush[f].pc = "batch" => flush[f].mem = <<>>

Custody == FrameShape /\ OneHolder /\ NoLogVanishes

\* Volatile, place by place.
LEMMA VolatileMember ==
    ASSUME NEW l
    PROVE  l \in Volatile <=> \/ l \in Range(batchQueue)
                              \/ l \in Range(memLogs)
                              \/ \E f \in Flushes : l \in InFlush(f)
BY DEF Volatile

LEMMA VolatileMemberNext ==
    ASSUME NEW l
    PROVE  l \in Volatile' <=> \/ l \in Range(batchQueue')
                               \/ l \in Range(memLogs')
                               \/ \E f \in Flushes : l \in InFlush(f)'
BY DEF Volatile

\* Nearly every action rearranges the logs of the queue, the memory and one flush
\* f, perhaps with new logs X, and leaves the other flushes alone.  Custody is
\* kept when the places it leaves are disjoint (Tidy), hold none but the logs it
\* took, and hold just those of them whose fate is still open.
Tidy(r) ==
    /\ IsInjective(batchQueue') /\ IsInjective(memLogs')
    /\ IsInjective(r.batch) /\ IsInjective(r.mem)
    /\ Range(batchQueue') \cap Range(memLogs') = {}
    /\ Range(r.batch) \cap Range(r.mem) = {}
    /\ (Range(r.batch) \cup Range(r.mem))
         \cap (Range(batchQueue') \cup Range(memLogs')) = {}

Taken(f, X) == Range(batchQueue) \cup Range(memLogs) \cup InFlush(f) \cup X
Kept(r) == Range(batchQueue') \cup Range(memLogs') \cup Range(r.batch) \cup Range(r.mem)

Accounted(f, r, X) ==
    /\ Kept(r) \subseteq Taken(f, X)
    /\ \A l \in Logs : l \in Taken(f, X) => (fate'[l] = "held" <=> l \in Kept(r))
    /\ \A l \in Logs : l \notin Taken(f, X) => (fate'[l] = "held" <=> fate[l] = "held")

LEMMA OneFrameStep ==
    ASSUME TypeOK, Custody,
           NEW f \in Flushes, NEW r, NEW X,
           \A l \in X : l \in Logs /\ fate[l] = "new",
           flush' = [flush EXCEPT ![f] = r], Tidy(r), Accounted(f, r, X)
    PROVE  OneHolder' /\ NoLogVanishes'
<1>1. flush' = [g \in Flushes |-> IF g = f THEN r ELSE flush[g]]
  BY DEF TypeOK
<1>2. InFlush(f)' = Range(r.batch) \cup Range(r.mem)
  BY <1>1 DEF InFlush
<1>3. \A g \in Flushes \ {f} : flush'[g] = flush[g] /\ InFlush(g)' = InFlush(g)
  BY <1>1 DEF InFlush
<1>4. \A g \in Flushes \ {f} : Taken(f, X) \cap InFlush(g) = {}
  <2> SUFFICES ASSUME NEW g \in Flushes \ {f}, NEW l \in Taken(f, X), l \in InFlush(g)
               PROVE  FALSE
    OBVIOUS
  <2>1. CASE l \in X
    <3>1. l \in Logs /\ fate[l] = "new" /\ l \in Volatile
      BY <2>1, VolatileMember
    <3> QED
      BY <3>1 DEF Custody, NoLogVanishes
  <2>2. CASE l \in Range(batchQueue) \cup Range(memLogs)
    BY <2>2 DEF Custody, OneHolder
  <2>3. CASE l \in InFlush(f)
    BY <2>3 DEF Custody, OneHolder
  <2> QED
    BY <2>1, <2>2, <2>3 DEF Taken
<1>5. OneHolder'
  <2>1. /\ IsInjective(batchQueue')
        /\ IsInjective(memLogs')
        /\ Range(batchQueue') \cap Range(memLogs') = {}
    BY DEF Tidy
  <2>2. ASSUME NEW g \in Flushes
        PROVE  /\ IsInjective(flush'[g].batch)
               /\ IsInjective(flush'[g].mem)
               /\ Range(flush'[g].batch) \cap Range(flush'[g].mem) = {}
    <3>1. CASE g = f
      BY <1>1, <3>1 DEF Tidy
    <3>2. CASE g # f
      BY <1>3, <3>2 DEF Custody, OneHolder
    <3> QED
      BY <3>1, <3>2
  <2>3. ASSUME NEW g \in Flushes
        PROVE  InFlush(g)' \cap (Range(batchQueue') \cup Range(memLogs')) = {}
    <3>1. CASE g = f
      BY <1>2, <3>1 DEF Tidy
    <3>2. CASE g # f
      BY <1>3, <1>4, <3>2 DEF Accounted, Kept
    <3> QED
      BY <3>1, <3>2
  <2>4. ASSUME NEW g \in Flushes, NEW h \in Flushes \ {g}
        PROVE  InFlush(g)' \cap InFlush(h)' = {}
    <3>1. CASE g = f
      BY <1>2, <1>3, <1>4, <3>1 DEF Accounted, Kept
    <3>2. CASE h = f
      BY <1>2, <1>3, <1>4, <3>2 DEF Accounted, Kept
    <3>3. CASE g # f /\ h # f
      BY <1>3, <3>3 DEF Custody, OneHolder
    <3> QED
      BY <3>1, <3>2, <3>3
  <2> QED
    BY <2>1, <2>2, <2>3, <2>4 DEF OneHolder
<1>6. NoLogVanishes'
  <2> SUFFICES ASSUME NEW l \in Logs
               PROVE  fate'[l] = "held" <=> l \in Volatile'
    BY DEF NoLogVanishes
  <2>1. l \in Volatile' <=> l \in Kept(r) \/ \E g \in Flushes \ {f} : l \in InFlush(g)
    BY <1>2, <1>3, VolatileMemberNext DEF Kept
  <2>2. CASE l \in Taken(f, X)
    BY <2>1, <2>2, <1>4 DEF Accounted
  <2>3. CASE l \notin Taken(f, X)
    <3>1. l \in Volatile <=> \E g \in Flushes \ {f} : l \in InFlush(g)
      BY <2>3, VolatileMember DEF Taken
    <3> QED
      BY <2>1, <2>3, <3>1 DEF Custody, NoLogVanishes, Accounted, Kept, Taken
  <2> QED
    BY <2>2, <2>3
<1> QED
  BY <1>5, <1>6

\* The same without new logs.
LEMMA OldLogsStep ==
    ASSUME TypeOK, Custody, NEW f \in Flushes, NEW r,
           flush' = [flush EXCEPT ![f] = r], Tidy(r), Accounted(f, r, {})
    PROVE  OneHolder' /\ NoLogVanishes'
<1> DEFINE X == {}
<1>1. (\A l \in X : l \in Logs /\ fate[l] = "new") /\ Accounted(f, r, X)
  OBVIOUS
<1> HIDE DEF X
<1> QED
  BY <1>1, OneFrameStep

\* The types and the custody of a frame, and the logs it holds.
LEMMA FrameFacts ==
    ASSUME TypeOK, Custody, NEW f \in Flushes
    PROVE  /\ flush[f] \in Frames
           /\ flush[f].batch \in Seq(Logs) /\ flush[f].mem \in Seq(Logs)
           /\ InFlush(f) \subseteq Logs
           /\ IsInjective(flush[f].batch) /\ IsInjective(flush[f].mem)
           /\ Range(flush[f].batch) \cap Range(flush[f].mem) = {}
           /\ InFlush(f) \cap (Range(batchQueue) \cup Range(memLogs)) = {}
           /\ Saving(f) \subseteq InFlush(f)
           /\ flush[f].pc = "idle" => InFlush(f) = {}
           /\ flush[f].pc = "batch" => InFlush(f) = Range(flush[f].batch)
<1>1. flush[f] \in Frames /\ flush[f].batch \in Seq(Logs) /\ flush[f].mem \in Seq(Logs)
  BY DEF TypeOK, Frames
<1>2. InFlush(f) \subseteq Logs
  BY <1>1, RangeMember DEF InFlush
<1> QED
  BY <1>1, <1>2, EmptyRange DEF Custody, OneHolder, FrameShape, InFlush, Saving

\* The queue and the memory, and that what is held somewhere has its fate open.
LEMMA PlaceFacts ==
    ASSUME TypeOK, Custody
    PROVE  /\ batchQueue \in Seq(Logs) /\ memLogs \in Seq(Logs)
           /\ Range(batchQueue) \subseteq Logs /\ Range(memLogs) \subseteq Logs
           /\ IsInjective(batchQueue) /\ IsInjective(memLogs)
           /\ Range(batchQueue) \cap Range(memLogs) = {}
           /\ \A l \in Range(batchQueue) \cup Range(memLogs) : fate[l] = "held"
           /\ \A f \in Flushes : \A l \in InFlush(f) : fate[l] = "held"
<1>1. batchQueue \in Seq(Logs) /\ memLogs \in Seq(Logs)
  BY DEF TypeOK
<1>2. Range(batchQueue) \subseteq Logs /\ Range(memLogs) \subseteq Logs
  BY <1>1, RangeMember
<1>3. \A f \in Flushes : InFlush(f) \subseteq Logs
  BY FrameFacts
<1>4. \A l \in Range(batchQueue) \cup Range(memLogs) : fate[l] = "held"
  BY <1>2, VolatileMember DEF Custody, NoLogVanishes
<1>5. \A f \in Flushes : \A l \in InFlush(f) : fate[l] = "held"
  BY <1>3, VolatileMember DEF Custody, NoLogVanishes
<1> QED
  BY <1>1, <1>2, <1>4, <1>5 DEF Custody, OneHolder

\* Starting a flush on a queue q that holds what batchQueue holds, and perhaps a
\* new log: the frame takes over both the queue and the memory.
LEMMA FlushBatchCustody ==
    ASSUME TypeOK, Custody, NEW f \in Flushes, NEW q \in Seq(Logs), NEW X,
           FlushBatch(f, q), IsInjective(q),
           Range(q) = Range(batchQueue) \cup X,
           \A l \in X : l \in Logs /\ fate[l] = "new",
           \A l \in Logs : fate'[l] = IF l \in X THEN "held" ELSE fate[l]
    PROVE  Custody'
<1> DEFINE r == [pc |-> IF memLogs = <<>> THEN "batch" ELSE "mem",
                 batch |-> q, mem |-> memLogs, attempt |-> 1]
<1>1. flush[f].pc = "idle" /\ flush' = [flush EXCEPT ![f] = r]
      /\ batchQueue' = <<>> /\ memLogs' = <<>>
  BY DEF FlushBatch, DrainMemory
<1>2. r.batch = q /\ r.mem = memLogs /\ (r.pc = "batch" => r.mem = <<>>) /\ r.pc # "idle"
  OBVIOUS
<1>3. InFlush(f) = {}
  BY <1>1, FrameFacts
<1>4. X \cap (Range(batchQueue) \cup Range(memLogs)) = {}
  BY PlaceFacts
<1>5. IsInjective(batchQueue') /\ IsInjective(memLogs')
      /\ Range(batchQueue') = {} /\ Range(memLogs') = {}
  BY <1>1, EmptyRange
<1>6. IsInjective(r.batch) /\ IsInjective(r.mem) /\ Range(r.batch) \cap Range(r.mem) = {}
  BY <1>2, <1>4, PlaceFacts
<1>7. Tidy(r)
  BY <1>5, <1>6 DEF Tidy
<1>8. Kept(r) = Taken(f, X)
  BY <1>2, <1>3, <1>5 DEF Kept, Taken
<1>9. Accounted(f, r, X)
  <2>1. \A l \in Logs : l \in Taken(f, X) => fate'[l] = "held"
    BY <1>3, PlaceFacts DEF Taken
  <2>2. \A l \in Logs : l \notin Taken(f, X) => fate'[l] = fate[l]
    BY DEF Taken
  <2> QED
    BY <1>8, <2>1, <2>2 DEF Accounted
<1>10. FrameShape'
  BY <1>1, <1>2 DEF Custody, FrameShape, TypeOK
<1> HIDE DEF r
<1> QED
  BY <1>1, <1>7, <1>9, <1>10, OneFrameStep DEF Custody

\* A failed save stored its logs back in memory: the frame goes on as r, which
\* holds what it held but for s, and s is kept in memory or evicted.
LEMMA AddAllCustody ==
    ASSUME TypeOK, Custody, NEW f \in Flushes, NEW s \in Seq(Logs), NEW r,
           AddAll(s), batchQueue' = batchQueue,
           flush' = [flush EXCEPT ![f] = r],
           IsInjective(s), IsInjective(r.batch), IsInjective(r.mem),
           Range(r.batch) \cap Range(r.mem) = {},
           Range(s) \cap (Range(r.batch) \cup Range(r.mem)) = {},
           InFlush(f) = Range(s) \cup Range(r.batch) \cup Range(r.mem)
    PROVE  OneHolder' /\ NoLogVanishes'
<1>1. Range(memLogs) \cap Range(s) = {}
  BY FrameFacts
<1>2. /\ Range(memLogs) \cup Range(s) = Evicted(s) \cup Range(memLogs')
      /\ IsInjective(memLogs')
      /\ Evicted(s) \cap Range(memLogs') = {}
  BY <1>1, AddAllFacts, PlaceFacts
<1>3. IsInjective(batchQueue') /\ Range(batchQueue') \cap Range(memLogs') = {}
  BY <1>2, PlaceFacts, FrameFacts
<1>4. (Range(r.batch) \cup Range(r.mem)) \cap (Range(batchQueue') \cup Range(memLogs')) = {}
  BY <1>2, FrameFacts
<1>5. Kept(r) = Taken(f, {}) \ Evicted(s)
  <2>1. Evicted(s) \cap (Range(batchQueue) \cup Range(r.batch) \cup Range(r.mem)) = {}
    BY <1>2, PlaceFacts, FrameFacts
  <2>2. Taken(f, {}) = Range(batchQueue) \cup Range(r.batch) \cup Range(r.mem)
                        \cup (Evicted(s) \cup Range(memLogs'))
    BY <1>2 DEF Taken
  <2> QED
    BY <1>2, <2>1, <2>2 DEF Kept
<1>6. \A l \in Logs : fate'[l] = IF l \in Evicted(s) THEN "evicted" ELSE fate[l]
  BY DEF AddAll
<1>7. Accounted(f, r, {})
  <2>1. \A l \in Logs : l \in Taken(f, {}) => fate[l] = "held"
    BY PlaceFacts DEF Taken
  <2>2. Evicted(s) \subseteq Taken(f, {})
    BY <1>2 DEF Taken
  <2> QED
    BY <1>5, <1>6, <2>1, <2>2 DEF Accounted
<1>8. Tidy(r)
  BY <1>2, <1>3, <1>4 DEF Tidy
<1> QED
  BY <1>7, <1>8, OneFrameStep

\* What AfterMemory keeps of a frame whose memory save is over.
LEMMA AfterMemoryFacts ==
    ASSUME TypeOK, NEW f \in Flushes
    PROVE  /\ AfterMemory(f).batch = flush[f].batch
           /\ AfterMemory(f).mem = <<>>
           /\ AfterMemory(f).pc = "idle" => AfterMemory(f).batch = <<>>
<1>1. flush[f] \in Frames
  BY DEF TypeOK
<1>2. CASE flush[f].batch = <<>>
  BY <1>2 DEF AfterMemory, Idle
<1>3. CASE flush[f].batch # <<>>
  BY <1>1, <1>3 DEF AfterMemory, Frames
<1> QED
  BY <1>2, <1>3

\* A step that replaces one frame by a well-shaped one keeps the frames' shape.
LEMMA ShapeStep ==
    ASSUME TypeOK, Custody, NEW f \in Flushes, NEW r,
           flush' = [flush EXCEPT ![f] = r],
           r.pc = "idle" => r.batch = <<>>, r.pc \in {"idle", "batch"} => r.mem = <<>>
    PROVE  FrameShape'
BY DEF Custody, FrameShape, TypeOK

LEMMA InitCustody == Init => Custody
<1> SUFFICES ASSUME Init PROVE Custody
  OBVIOUS
<1>1. \A f \in Flushes : /\ flush[f].batch = <<>> /\ flush[f].mem = <<>>
                         /\ InFlush(f) = {}
  BY EmptyRange DEF Init, Idle, InFlush
<1>2. Range(batchQueue) = {} /\ Range(memLogs) = {}
      /\ IsInjective(batchQueue) /\ IsInjective(memLogs)
  BY EmptyRange DEF Init
<1>3. FrameShape
  BY <1>1 DEF FrameShape
<1>4. OneHolder
  BY <1>1, <1>2, EmptyRange DEF OneHolder
<1>5. NoLogVanishes
  BY <1>1, <1>2, VolatileMember DEF NoLogVanishes, Init
<1> QED
  BY <1>3, <1>4, <1>5 DEF Custody

LEMMA AddToBatchCustody ==
    ASSUME TypeOK, Custody, NEW l \in Logs, AddToBatch(l)
    PROVE  Custody'
<1> DEFINE q == Append(batchQueue, l)
<1>1. l \notin Range(batchQueue) /\ l \notin Range(memLogs)
  BY PlaceFacts DEF AddToBatch
<1>2. q \in Seq(Logs) /\ Range(q) = Range(batchQueue) \cup {l} /\ IsInjective(q)
  BY <1>1, AppendInjectiveSeq, PlaceFacts
<1>3. \A k \in {l} : k \in Logs /\ fate[k] = "new"
  BY DEF AddToBatch
<1>4. \A k \in Logs : fate'[k] = IF k \in {l} THEN "held" ELSE fate[k]
  BY DEF AddToBatch, TypeOK
<1>5. CASE batchQueue' = q /\ UNCHANGED <<memLogs, age, flush>>
  <2> DEFINE r == flush[Stopper]
  <2>1. flush' = [flush EXCEPT ![Stopper] = r]
    BY <1>5 DEF TypeOK
  <2>2. Stopper \in Flushes
    BY StopperAssumption
  <2>3. l \notin InFlush(Stopper)
    BY <2>2, PlaceFacts DEF AddToBatch
  <2>4. Tidy(r)
    <3>1. /\ IsInjective(r.batch) /\ IsInjective(r.mem)
          /\ Range(r.batch) \cap Range(r.mem) = {}
          /\ InFlush(Stopper) = Range(r.batch) \cup Range(r.mem)
          /\ InFlush(Stopper) \cap (Range(batchQueue) \cup Range(memLogs)) = {}
      BY <2>2, FrameFacts DEF InFlush
    <3>2. batchQueue' = q /\ memLogs' = memLogs
      BY <1>5
    <3>3. Range(q) \cap Range(memLogs) = {} /\ IsInjective(memLogs)
      BY <1>1, <1>2, PlaceFacts
    <3> QED
      BY <1>2, <2>3, <3>1, <3>2, <3>3 DEF Tidy
  <2>5. Kept(r) = Taken(Stopper, {l})
    BY <1>2, <1>5 DEF Kept, Taken, InFlush
  <2>6. Accounted(Stopper, r, {l})
    <3>1. \A k \in Logs : k \in Taken(Stopper, {l}) => fate'[k] = "held"
      BY <1>4, <2>2, PlaceFacts DEF Taken
    <3>2. \A k \in Logs : k \notin Taken(Stopper, {l}) => fate'[k] = fate[k]
      BY <1>4 DEF Taken
    <3> QED
      BY <2>5, <3>1, <3>2 DEF Accounted
  <2>7. FrameShape'
    BY <1>5 DEF Custody, FrameShape
  <2> HIDE DEF r
  <2> QED
    BY <1>3, <2>1, <2>2, <2>4, <2>6, <2>7, OneFrameStep DEF Custody
<1>6. ASSUME NEW f \in Flushes, FlushBatch(f, q) PROVE Custody'
  BY <1>2, <1>3, <1>4, <1>6, FlushBatchCustody
<1> QED
  BY <1>5, <1>6 DEF AddToBatch

\* The flush of the timer and of stopBatchProcessor: no log is added.
LEMMA FlushQueueCustody ==
    ASSUME TypeOK, Custody, NEW f \in Flushes, FlushBatch(f, batchQueue), fate' = fate
    PROVE  Custody'
<1>1. Range(batchQueue) = Range(batchQueue) \cup {}
  OBVIOUS
<1>2. \A l \in {} : l \in Logs /\ fate[l] = "new"
  OBVIOUS
<1>3. \A l \in Logs : fate'[l] = IF l \in {} THEN "held" ELSE fate[l]
  OBVIOUS
<1> QED
  BY <1>1, <1>2, <1>3, PlaceFacts, FlushBatchCustody

LEMMA SaveSucceedsCustody ==
    ASSUME TypeOK, Custody, NEW f \in Flushes, SaveSucceeds(f)
    PROVE  Custody'
<1> DEFINE r == IF flush[f].pc = "mem" THEN AfterMemory(f) ELSE Idle
<1>1. flush' = [flush EXCEPT ![f] = r] /\ UNCHANGED <<batchQueue, memLogs>>
  BY DEF SaveSucceeds
<1>2. \A l \in Logs : fate'[l] = IF l \in Saving(f) THEN "stored" ELSE fate[l]
  BY DEF SaveSucceeds
<1>4. /\ r.mem = <<>>
      /\ r.pc = "idle" => r.batch = <<>>
      /\ r.batch = <<>> \/ r.batch = flush[f].batch
      /\ InFlush(f) = Saving(f) \cup Range(r.batch)
      /\ Saving(f) \cap Range(r.batch) = {}
  <2>1. CASE flush[f].pc = "mem"
    BY <2>1, AfterMemoryFacts, FrameFacts DEF Saving, InFlush
  <2>2. CASE flush[f].pc = "batch"
    BY <2>2, FrameFacts, EmptyRange DEF Saving, InFlush, Idle
  <2> QED
    BY <2>1, <2>2, FrameFacts DEF SaveSucceeds, Frames
<1> HIDE DEF r
<1>5. IsInjective(r.batch) /\ IsInjective(r.mem) /\ Range(r.mem) = {}
  BY <1>4, EmptyRange, FrameFacts
<1>6. Tidy(r)
  BY <1>1, <1>4, <1>5, PlaceFacts, FrameFacts DEF Tidy
<1>7. Kept(r) = Taken(f, {}) \ Saving(f)
  <2>1. Saving(f) \cap (Range(batchQueue) \cup Range(memLogs)) = {}
    BY FrameFacts
  <2> QED
    BY <1>1, <1>4, <1>5, <2>1 DEF Kept, Taken
<1>8. Accounted(f, r, {})
  <2>1. \A l \in Logs : l \in Taken(f, {}) => fate[l] = "held"
    BY PlaceFacts DEF Taken
  <2>2. Saving(f) \subseteq Taken(f, {})
    BY <1>4 DEF Taken
  <2> QED
    BY <1>2, <1>7, <2>1, <2>2 DEF Accounted
<1>9. FrameShape'
  BY <1>1, <1>4, ShapeStep
<1>10. OneHolder' /\ NoLogVanishes'
  BY <1>1, <1>6, <1>8, OldLogsStep
<1> QED
  BY <1>9, <1>10 DEF Custody

LEMMA RetrySaveCustody ==
    ASSUME TypeOK, Custody, NEW f \in Flushes, NEW e \in Errors, RetrySave(f, e)
    PROVE  Custody'
<1>1. \A g \in Flushes : /\ flush'[g].pc = flush[g].pc
                         /\ flush'[g].batch = flush[g].batch
                         /\ flush'[g].mem = flush[g].mem
  BY DEF RetrySave, TypeOK, Frames
<1>2. UNCHANGED <<batchQueue, memLogs, fate>>
  BY DEF RetrySave
<1>3. \A g \in Flushes : InFlush(g)' = InFlush(g)
  BY <1>1 DEF InFlush
<1>4. \A l : l \in Volatile' <=> l \in Volatile
  BY <1>2, <1>3, VolatileMember, VolatileMemberNext
<1>5. FrameShape'
  BY <1>1 DEF Custody, FrameShape
<1>6. OneHolder'
  BY <1>1, <1>2, <1>3 DEF Custody, OneHolder
<1> QED
  BY <1>2, <1>4, <1>5, <1>6 DEF Custody, NoLogVanishes

LEMMA RestoreMemoryCustody ==
    ASSUME TypeOK, Custody, NEW f \in Flushes, NEW e \in Errors, RestoreMemory(f, e)
    PROVE  Custody'
<1> DEFINE s == flush[f].mem
           r == AfterMemory(f)
<1>1. AddAll(s) /\ batchQueue' = batchQueue /\ flush' = [flush EXCEPT ![f] = r]
  BY DEF RestoreMemory
<1>2. r.batch = flush[f].batch /\ r.mem = <<>> /\ (r.pc = "idle" => r.batch = <<>>)
  BY AfterMemoryFacts
<1>3. s \in Seq(Logs) /\ IsInjective(s) /\ IsInjective(flush[f].batch)
      /\ Range(s) \cap Range(flush[f].batch) = {}
      /\ InFlush(f) = Range(s) \cup Range(flush[f].batch)
  BY FrameFacts DEF InFlush
<1> HIDE DEF s, r
<1>4. OneHolder' /\ NoLogVanishes'
  BY <1>1, <1>2, <1>3, EmptyRange, AddAllCustody
<1>5. FrameShape'
  BY <1>1, <1>2, ShapeStep
<1> QED
  BY <1>4, <1>5 DEF Custody

\* Idle holds nothing.
LEMMA IdleFacts == /\ Idle.pc = "idle" /\ Idle.batch = <<>> /\ Idle.mem = <<>>
                   /\ Range(Idle.batch) = {} /\ Range(Idle.mem) = {}
                   /\ IsInjective(Idle.batch) /\ IsInjective(Idle.mem)
BY EmptyRange DEF Idle

LEMMA BatchToMemoryCustody ==
    ASSUME TypeOK, Custody, NEW f \in Flushes, NEW e \in Errors, BatchToMemory(f, e)
    PROVE  Custody'
<1> DEFINE s == flush[f].batch
<1>1. AddAll(s) /\ batchQueue' = batchQueue /\ flush' = [flush EXCEPT ![f] = Idle]
  BY DEF BatchToMemory
<1>2. s \in Seq(Logs) /\ IsInjective(s) /\ InFlush(f) = Range(s)
  BY FrameFacts DEF BatchToMemory
<1> HIDE DEF s
<1>3. OneHolder' /\ NoLogVanishes'
  BY <1>1, <1>2, IdleFacts, AddAllCustody
<1>4. FrameShape'
  BY <1>1, IdleFacts, ShapeStep
<1> QED
  BY <1>3, <1>4 DEF Custody

LEMMA RequeueCustody ==
    ASSUME TypeOK, Custody, NEW f \in Flushes, NEW e \in Errors, Requeue(f, e)
    PROVE  Custody'
<1>1. /\ batchQueue' = flush[f].batch \o batchQueue
      /\ memLogs' = memLogs /\ fate' = fate
      /\ flush' = [flush EXCEPT ![f] = Idle]
      /\ InFlush(f) = Range(flush[f].batch)
  BY FrameFacts DEF Requeue
<1>2. Range(flush[f].batch) \cap Range(batchQueue) = {}
  BY <1>1, FrameFacts
<1>3. /\ Range(batchQueue') = Range(flush[f].batch) \cup Range(batchQueue)
      /\ IsInjective(batchQueue')
  BY <1>1, <1>2, FrameFacts, PlaceFacts, RangeConcatenation, ConcatInjective
<1>4. Tidy(Idle)
  BY <1>1, <1>3, IdleFacts, PlaceFacts, FrameFacts DEF Tidy
<1>5. Kept(Idle) = Taken(f, {})
  BY <1>1, <1>3, IdleFacts DEF Kept, Taken
<1>6. Accounted(f, Idle, {})
  <2>1. \A l \in Logs : l \in Taken(f, {}) => fate'[l] = "held"
    BY <1>1, PlaceFacts DEF Taken
  <2> QED
    BY <1>1, <1>5, <2>1 DEF Accounted
<1>7. FrameShape'
  BY <1>1, IdleFacts, ShapeStep
<1>8. OneHolder' /\ NoLogVanishes'
  BY <1>1, <1>4, <1>6, OldLogsStep
<1> QED
  BY <1>7, <1>8 DEF Custody

LEMMA DropCustody ==
    ASSUME TypeOK, Custody, NEW f \in Flushes, NEW e \in Errors, Drop(f, e)
    PROVE  Custody'
<1>1. /\ batchQueue' = batchQueue /\ memLogs' = memLogs
      /\ flush' = [flush EXCEPT ![f] = Idle]
      /\ InFlush(f) = Saving(f)
  BY FrameFacts DEF Drop, Saving
<1>2. \A l \in Logs : fate'[l] = IF l \in Saving(f) THEN "dropped" ELSE fate[l]
  BY DEF Drop
<1>3. Tidy(Idle)
  BY <1>1, IdleFacts, PlaceFacts DEF Tidy
<1>4. Kept(Idle) = Taken(f, {}) \ Saving(f)
  BY <1>1, IdleFacts, FrameFacts DEF Kept, Taken
<1>5. Accounted(f, Idle, {})
  <2>1. \A l \in Logs : l \in Taken(f, {}) => fate[l] = "held"
    BY PlaceFacts DEF Taken
  <2>2. Saving(f) \subseteq Taken(f, {})
    BY <1>1 DEF Taken
  <2> QED
    BY <1>2, <1>4, <2>1, <2>2 DEF Accounted
<1>6. FrameShape'
  BY <1>1, IdleFacts, ShapeStep
<1>7. OneHolder' /\ NoLogVanishes'
  BY <1>1, <1>3, <1>5, OldLogsStep
<1> QED
  BY <1>6, <1>7 DEF Custody

LEMMA CleanupCustody ==
    ASSUME TypeOK, Custody, CleanupOldLogs
    PROVE  Custody'
<1> DEFINE r == flush[Stopper]
<1>1. PICK n \in DOMAIN memLogs : CutMemory(n)
  BY DEF CleanupOldLogs
<1> DEFINE old == Range(SubSeq(memLogs, 1, n))
<1>2. Stopper \in Flushes /\ batchQueue' = batchQueue
      /\ flush' = [flush EXCEPT ![Stopper] = r]
  BY StopperAssumption DEF CleanupOldLogs, TypeOK
<1>3. \A l \in Logs : fate'[l] = IF l \in old THEN "expired" ELSE fate[l]
  BY <1>1 DEF CutMemory
<1>4. /\ Range(memLogs) = old \cup Range(memLogs')
      /\ IsInjective(memLogs')
      /\ old \cap Range(memLogs') = {}
  BY <1>1, CutMemoryFacts, PlaceFacts
<1> HIDE DEF old
<1>5. Tidy(r)
  BY <1>2, <1>4, PlaceFacts, FrameFacts DEF Tidy, InFlush
<1>6. Kept(r) = Taken(Stopper, {}) \ old
  <2>1. old \cap (Range(batchQueue) \cup InFlush(Stopper)) = {}
    BY <1>2, <1>4, PlaceFacts, FrameFacts
  <2> QED
    BY <1>2, <1>4, <2>1 DEF Kept, Taken, InFlush
<1>7. Accounted(Stopper, r, {})
  <2>1. \A l \in Logs : l \in Taken(Stopper, {}) => fate[l] = "held"
    BY <1>2, PlaceFacts DEF Taken
  <2>2. old \subseteq Taken(Stopper, {})
    BY <1>4 DEF Taken
  <2> QED
    BY <1>3, <1>6, <2>1, <2>2 DEF Accounted
<1>8. FrameShape'
  BY DEF CleanupOldLogs, Custody, FrameShape
<1> HIDE DEF r
<1>9. OneHolder' /\ NoLogVanishes'
  BY <1>2, <1>5, <1>7, OldLogsStep
<1> QED
  BY <1>8, <1>9 DEF Custody

\* The memory's logs move into the idle frame of stopBatchProcessor.
LEMMA StopMemoryCustody ==
    ASSUME TypeOK, Custody, StopMemory, flush[Stopper].pc = "idle", fate' = fate
    PROVE  Custody'
<1> DEFINE r == [pc |-> "mem", batch |-> <<>>, mem |-> memLogs, attempt |-> 1]
<1>1. CASE UNCHANGED <<batchQueue, memLogs, flush>>
  <2>1. Volatile' = Volatile
    BY <1>1 DEF Volatile, InFlush
  <2> QED
    BY <1>1, <2>1 DEF Custody, FrameShape, OneHolder, InFlush, NoLogVanishes
<1>2. CASE batchQueue' = batchQueue /\ memLogs' = <<>> /\ flush' = [flush EXCEPT ![Stopper] = r]
  <2>1. r.pc = "mem" /\ r.batch = <<>> /\ r.mem = memLogs
    OBVIOUS
  <2> HIDE DEF r
  <2>2. Stopper \in Flushes /\ InFlush(Stopper) = {}
    BY StopperAssumption, FrameFacts
  <2>3. Tidy(r)
    BY <1>2, <2>1, EmptyRange, PlaceFacts DEF Tidy
  <2>4. Kept(r) = Taken(Stopper, {})
    BY <1>2, <2>1, <2>2, EmptyRange DEF Kept, Taken
  <2>5. Accounted(Stopper, r, {})
    <3>1. \A l \in Logs : l \in Taken(Stopper, {}) => fate'[l] = "held"
      BY <2>2, PlaceFacts DEF Taken
    <3> QED
      BY <2>4, <3>1 DEF Accounted
  <2>6. FrameShape'
    BY <1>2, <2>1, <2>2, ShapeStep
  <2> QED
    BY <1>2, <2>2, <2>3, <2>5, <2>6, OldLogsStep DEF Custody
<1> QED
  BY <1>1, <1>2 DEF StopMemory, DrainMemory

LEMMA CrashCustody ==
    ASSUME TypeOK, Custody, NEW committed \in SUBSET Flushes, Crash(committed)
    PROVE  Custody'
<1>1. \A f \in Flushes : /\ flush'[f].batch = <<>> /\ flush'[f].mem = <<>>
                         /\ InFlush(f)' = {}
  BY EmptyRange DEF Crash, Idle, InFlush
<1>2. Range(batchQueue') = {} /\ Range(memLogs') = {}
      /\ IsInjective(batchQueue') /\ IsInjective(memLogs')
  BY EmptyRange DEF Crash
<1>3. \A l \in Logs : fate'[l] # "held"
  BY DEF Crash
<1>4. FrameShape'
  BY <1>1 DEF FrameShape
<1>5. OneHolder'
  BY <1>1, <1>2, EmptyRange DEF OneHolder
<1>6. NoLogVanishes'
  BY <1>1, <1>2, <1>3, VolatileMemberNext DEF NoLogVanishes
<1> QED
  BY <1>4, <1>5, <1>6 DEF Custody

\* A step that touches neither the containers nor the fates.
LEMMA UntouchedCustody ==
    ASSUME Custody, UNCHANGED <<batchQueue, memLogs, flush, fate>>
    PROVE  Custody'
<1>1. Volatile' = Volatile
  BY DEF Volatile, InFlush
<1> QED
  BY <1>1 DEF Custody, FrameShape, OneHolder, InFlush, NoLogVanishes

\* Every step keeps custody; one step of the proof per action.
LEMMA NextCustody == TypeOK /\ Custody /\ [Next]_vars => Custody'
<1> SUFFICES ASSUME TypeOK, Custody, [Next]_vars PROVE Custody'
  OBVIOUS
<1>1. ASSUME NEW l \in Logs, AddToBatch(l) PROVE Custody'
  BY <1>1, AddToBatchCustody
<1>2. ASSUME NEW f \in Flushes, BatchTimer(f) PROVE Custody'
  BY <1>2, FlushQueueCustody DEF BatchTimer
<1>3. ASSUME NEW f \in Flushes, SaveSucceeds(f) PROVE Custody'
  BY <1>3, SaveSucceedsCustody
<1>4. ASSUME NEW f \in Flushes, NEW e \in Errors, RetrySave(f, e) PROVE Custody'
  BY <1>4, RetrySaveCustody
<1>5. ASSUME NEW f \in Flushes, NEW e \in Errors, RestoreMemory(f, e) PROVE Custody'
  BY <1>5, RestoreMemoryCustody
<1>6. ASSUME NEW f \in Flushes, NEW e \in Errors, BatchToMemory(f, e) PROVE Custody'
  BY <1>6, BatchToMemoryCustody
<1>7. ASSUME NEW f \in Flushes, NEW e \in Errors, Requeue(f, e) PROVE Custody'
  BY <1>7, RequeueCustody
<1>8. ASSUME NEW f \in Flushes, NEW e \in Errors, Drop(f, e) PROVE Custody'
  BY <1>8, DropCustody
<1>9. CASE Tick
  BY <1>9, UntouchedCustody DEF Tick
<1>10. CASE CleanupOldLogs
  BY <1>10, CleanupCustody
<1>11. CASE StopBatchProcessor
  <2>1. ASSUME FlushBatch(Stopper, batchQueue) PROVE Custody'
    BY <1>11, <2>1, FlushQueueCustody, StopperAssumption DEF StopBatchProcessor
  <2>2. ASSUME StopMemory PROVE Custody'
    BY <1>11, <2>2, StopMemoryCustody DEF StopBatchProcessor
  <2> QED
    BY <1>11, <2>1, <2>2 DEF StopBatchProcessor
<1>12. CASE ResumeStop
  BY <1>12, StopMemoryCustody, UntouchedCustody DEF ResumeStop
<1>13. CASE DatabaseChange
  BY <1>13, UntouchedCustody DEF DatabaseChange
<1>14. ASSUME NEW committed \in SUBSET Flushes, Crash(committed) PROVE Custody'
  BY <1>14, CrashCustody
<1>15. CASE UNCHANGED vars
  BY <1>15, UntouchedCustody DEF vars
<1> QED
  BY <1>1, <1>2, <1>3, <1>4, <1>5, <1>6, <1>7, <1>8, <1>9, <1>10, <1>11, <1>12,
     <1>13, <1>14, <1>15 DEF Next, SaveSettles

\* In every reachable state, whatever the number of logs and overlapping flushes,
\* an accepted log that is not settled is in exactly one place and every other
\* log in none: flushBatch, flushInMemoryLogs and their error paths neither lose
\* nor copy a log.
THEOREM CustodyInvariant == Spec => [](OneHolder /\ NoLogVanishes)
<1>1. Init => TypeOK /\ Custody
  BY InitType, InitCustody
<1>2. TypeOK /\ Custody /\ [Next]_vars => (TypeOK /\ Custody)'
  BY NextType, NextCustody
<1>3. Custody => OneHolder /\ NoLogVanishes
  BY DEF Custody
<1> QED
  BY <1>1, <1>2, <1>3, PTL DEF Spec

\* A log that has come and is not settled is held somewhere.
THEOREM NoLogIsForgotten == Spec => []NoLogVanishes
BY CustodyInvariant, PTL

-----------------------------------------------------------------------------
(* The in-memory storage is sorted by age, which lets its clean-up drop a prefix. *)

\* What is where in a sequence cut after n elements.
LEMMA SuffixElements ==
    ASSUME NEW S, NEW s \in Seq(S), NEW n \in Nat, n <= Len(s)
    PROVE  LET r == SubSeq(s, n + 1, Len(s))
           IN  \A i \in DOMAIN r : /\ i \in Nat /\ i > 0 /\ n + i \in DOMAIN s
                                   /\ r[i] = s[n + i]
<1> DEFINE r == SubSeq(s, n + 1, Len(s))
           k == Len(s)
<1>1. k \in Nat /\ DOMAIN s = 1 .. k /\ \A i \in 1 .. k : s[i] \in S
  BY LenProperties, ElementOfSeq
<1>2. (\A i \in n + 1 .. Len(s) : s[i] \in S) /\ n + 1 \in Int /\ Len(s) \in Int
  BY <1>1
<1>3. /\ r \in Seq(S)
      /\ Len(r) = IF n + 1 <= Len(s) THEN Len(s) - (n + 1) + 1 ELSE 0
      /\ \A i \in 1 .. Len(s) - (n + 1) + 1 : r[i] = s[(n + 1) + i - 1]
  BY <1>2, SubSeqProperties
<1>4. DOMAIN r = 1 .. Len(r)
  BY <1>3, LenProperties
<1> HIDE DEF r
<1>5. ASSUME NEW i \in DOMAIN r
      PROVE  /\ i \in Nat /\ i > 0 /\ n + i \in DOMAIN s
             /\ r[i] = s[n + i]
  <2>1. /\ \A q \in 1 .. k - (n + 1) + 1 : r[q] = s[(n + 1) + q - 1]
        /\ Len(r) = IF n + 1 <= k THEN k - (n + 1) + 1 ELSE 0
        /\ n <= k
    BY <1>3
  <2> HIDE DEF k
  <2>2. i \in 1 .. k - (n + 1) + 1 /\ n + i \in 1 .. k /\ (n + 1) + i - 1 = n + i /\ i \in Nat /\ i > 0
    BY <1>1, <1>4, <2>1
  <2>3. r[i] = s[(n + 1) + i - 1]
    BY <2>1, <2>2
  <2> QED
    BY <1>1, <2>2, <2>3
<1> QED
  BY <1>5 DEF r

\* Logs that are stored anew are the youngest, and come last.
LEMMA AddAllSorted ==
    ASSUME TypeOK, MemorySortedByAge, NEW s \in Seq(Logs), AddAll(s),
           IsInjective(memLogs), IsInjective(s), Range(memLogs) \cap Range(s) = {}
    PROVE  MemorySortedByAge'
<1> DEFINE all == Pushed(s)
           n == Overflow(s)
           m == Len(memLogs)
<1>1. memLogs \in Seq(Logs) /\ MaxSize \in Nat /\ age \in [Logs -> 0 .. MaxAge] /\ MaxAge \in Nat
  BY SizeAssumption DEF TypeOK
<1>2. /\ all \in Seq(Logs)
      /\ Len(all) = m + Len(s) /\ m \in Nat /\ Len(s) \in Nat
      /\ DOMAIN memLogs = 1 .. m /\ DOMAIN s = 1 .. Len(s) /\ DOMAIN all = 1 .. Len(all)
      /\ \A i \in 1 .. m + Len(s) : all[i] = IF i <= m THEN memLogs[i] ELSE s[i - m]
  BY <1>1, ConcatProperties, LenProperties DEF Pushed
<1>3. n = IF Len(all) > MaxSize THEN Len(all) - MaxSize ELSE 0
  BY DEF Overflow
<1>4. /\ memLogs' = SubSeq(all, n + 1, Len(all))
      /\ age' = [l \in Logs |-> IF l \in Range(s) \cup Evicted(s) THEN 0 ELSE age[l]]
  BY DEF AddAll
<1>5. memLogs' \in Seq(Logs) /\ Evicted(s) \cap Range(memLogs') = {}
  BY AddAllFacts
<1> HIDE DEF all, n, m
<1>6. Len(all) \in Nat
  BY <1>2
<1>7. n \in Nat /\ n <= Len(all)
  BY <1>1, <1>3, <1>6
<1>8. \A i \in DOMAIN memLogs' : /\ i \in Nat /\ i > 0 /\ n + i \in DOMAIN all
                                 /\ memLogs'[i] = all[n + i]
  BY <1>2, <1>4, <1>7, SuffixElements
<1>9. ASSUME NEW i \in DOMAIN memLogs', NEW j \in DOMAIN memLogs', i < j
      PROVE  age'[memLogs'[i]] >= age'[memLogs'[j]]
  <2>1. /\ memLogs'[i] \in Logs /\ memLogs'[j] \in Logs
        /\ memLogs'[i] \notin Evicted(s) /\ memLogs'[j] \notin Evicted(s)
    <3>1. memLogs'[i] \in Range(memLogs') /\ memLogs'[j] \in Range(memLogs')
      BY DEF Range
    <3> QED
      BY <1>5, <3>1, RangeMember
  <2>2. /\ age'[memLogs'[i]] = IF memLogs'[i] \in Range(s) THEN 0 ELSE age[memLogs'[i]]
        /\ age'[memLogs'[j]] = IF memLogs'[j] \in Range(s) THEN 0 ELSE age[memLogs'[j]]
        /\ age[memLogs'[i]] \in Nat /\ age[memLogs'[j]] \in Nat
    <3>1. \A l \in Logs : l \notin Evicted(s) =>
            /\ age'[l] = IF l \in Range(s) THEN 0 ELSE age[l]
            /\ age[l] \in Nat
      BY <1>1, <1>4
    <3> QED
      BY <2>1, <3>1
  <2>3. CASE memLogs'[j] \in Range(s)
    BY <2>2, <2>3
  <2>4. CASE memLogs'[j] \notin Range(s)
    <3>1. n + j \in 1 .. m + Len(s) /\ memLogs'[j] = all[n + j]
      BY <1>2, <1>8
    <3>2. n + j <= m
      <4> SUFFICES ASSUME ~(n + j <= m) PROVE FALSE
        OBVIOUS
      <4>1. memLogs'[j] = s[(n + j) - m]
        BY <1>2, <3>1
      <4>2. (n + j) - m \in 1 .. Len(s)
        BY <1>2, <1>7, <1>8, <3>1
      <4>3. \A q \in 1 .. Len(s) : s[q] \in Range(s)
        BY <1>2 DEF Range
      <4> QED
        BY <2>4, <4>1, <4>2, <4>3
    <3>3. n + i \in 1 .. m /\ n + j \in 1 .. m /\ n + i < n + j /\ n + i \in 1 .. m + Len(s)
      BY <1>2, <1>7, <1>8, <1>9, <3>1, <3>2
    <3>4. memLogs'[i] = memLogs[n + i] /\ memLogs'[j] = memLogs[n + j]
      BY <1>2, <1>8, <3>1, <3>3
    <3>5. memLogs[n + i] \in Range(memLogs)
      BY <1>2, <3>3 DEF Range
    <3>6. age[memLogs[n + i]] >= age[memLogs[n + j]]
      BY <1>2, <3>3 DEF MemorySortedByAge
    <3> QED
      BY <2>2, <2>4, <3>4, <3>5, <3>6
  <2> QED
    BY <2>3, <2>4
<1> QED
  BY <1>9 DEF MemorySortedByAge

\* A suffix of what is sorted is sorted; the ages of what is kept do not change.
LEMMA CutMemorySorted ==
    ASSUME TypeOK, MemorySortedByAge, IsInjective(memLogs),
           NEW n \in DOMAIN memLogs, CutMemory(n)
    PROVE  MemorySortedByAge'
<1> DEFINE old == Range(SubSeq(memLogs, 1, n))
<1>1. memLogs \in Seq(Logs) /\ n \in Nat /\ n <= Len(memLogs)
  BY LenProperties DEF TypeOK
<1>2. /\ memLogs' = SubSeq(memLogs, n + 1, Len(memLogs))
      /\ age' = [l \in Logs |-> IF l \in old THEN 0 ELSE age[l]]
  BY DEF CutMemory
<1>3. old \cap Range(memLogs') = {} /\ memLogs' \in Seq(Logs)
  BY CutMemoryFacts
<1>4. \A i \in DOMAIN memLogs' : /\ i \in Nat /\ i > 0 /\ n + i \in DOMAIN memLogs
                                 /\ memLogs'[i] = memLogs[n + i]
  BY <1>1, <1>2, SuffixElements
<1> HIDE DEF old
<1>5. \A i \in DOMAIN memLogs' : age'[memLogs'[i]] = age[memLogs'[i]]
  <2>1. \A i \in DOMAIN memLogs' : memLogs'[i] \in Range(memLogs')
    BY DEF Range
  <2>2. \A l \in Range(memLogs') : l \in Logs /\ l \notin old
    BY <1>3, RangeMember
  <2>3. \A l \in Logs : l \notin old => age'[l] = age[l]
    BY <1>2
  <2> QED
    BY <2>1, <2>2, <2>3
<1>6. ASSUME NEW i \in DOMAIN memLogs', NEW j \in DOMAIN memLogs', i < j
      PROVE  age'[memLogs'[i]] >= age'[memLogs'[j]]
  <2>1. n + i < n + j
    BY <1>1, <1>4, <1>6
  <2>2. age[memLogs[n + i]] >= age[memLogs[n + j]]
    BY <1>4, <2>1 DEF MemorySortedByAge
  <2> QED
    BY <1>4, <1>5, <2>2
<1> QED
  BY <1>6 DEF MemorySortedByAge

LEMMA TickSorted ==
    ASSUME TypeOK, MemorySortedByAge, Tick
    PROVE  MemorySortedByAge'
<1>1. memLogs \in Seq(Logs) /\ age \in [Logs -> 0 .. MaxAge] /\ MaxAge \in Nat
  BY SizeAssumption DEF TypeOK
<1>2. memLogs' = memLogs
      /\ age' = [l \in Logs |-> IF l \in Range(memLogs) /\ age[l] < MaxAge
                                THEN age[l] + 1 ELSE age[l]]
  BY DEF Tick
<1>3. ASSUME NEW i \in DOMAIN memLogs, NEW j \in DOMAIN memLogs, i < j
      PROVE  age'[memLogs[i]] >= age'[memLogs[j]]
  <2>1. memLogs[i] \in Range(memLogs) /\ memLogs[j] \in Range(memLogs)
    BY DEF Range
  <2>2. memLogs[i] \in Logs /\ memLogs[j] \in Logs
    BY <1>1, <2>1, RangeMember
  <2>3. age[memLogs[i]] >= age[memLogs[j]]
    BY <1>3 DEF MemorySortedByAge
  <2>4. /\ age[memLogs[i]] \in 0 .. MaxAge /\ age[memLogs[j]] \in 0 .. MaxAge
        /\ age'[memLogs[i]] = IF age[memLogs[i]] < MaxAge THEN age[memLogs[i]] + 1 ELSE age[memLogs[i]]
        /\ age'[memLogs[j]] = IF age[memLogs[j]] < MaxAge THEN age[memLogs[j]] + 1 ELSE age[memLogs[j]]
    BY <1>1, <1>2, <2>1, <2>2
  <2> QED
    BY <1>1, <2>3, <2>4
<1> QED
  BY <1>2, <1>3 DEF MemorySortedByAge

\* An empty memory is sorted, and one whose logs and ages do not change.
LEMMA EmptySorted == memLogs' = <<>> => MemorySortedByAge'
BY EmptySeq DEF MemorySortedByAge

LEMMA UntouchedSorted ==
    MemorySortedByAge /\ UNCHANGED <<memLogs, age>> => MemorySortedByAge'
BY DEF MemorySortedByAge

LEMMA NextSorted ==
    TypeOK /\ Custody /\ MemorySortedByAge /\ [Next]_vars => MemorySortedByAge'
<1> SUFFICES ASSUME TypeOK, Custody, MemorySortedByAge, [Next]_vars PROVE MemorySortedByAge'
  OBVIOUS
<1>1. ASSUME NEW l \in Logs, AddToBatch(l) PROVE MemorySortedByAge'
  BY <1>1, EmptySorted, UntouchedSorted DEF AddToBatch, FlushBatch, DrainMemory
<1>2. ASSUME NEW f \in Flushes, BatchTimer(f) PROVE MemorySortedByAge'
  BY <1>2, EmptySorted DEF BatchTimer, FlushBatch, DrainMemory
<1>3. ASSUME NEW f \in Flushes, SaveSucceeds(f) PROVE MemorySortedByAge'
  BY <1>3, UntouchedSorted DEF SaveSucceeds
<1>4. ASSUME NEW f \in Flushes, NEW e \in Errors,
             RetrySave(f, e) \/ Requeue(f, e) \/ Drop(f, e)
      PROVE  MemorySortedByAge'
  BY <1>4, UntouchedSorted DEF RetrySave, Requeue, Drop
<1>5. ASSUME NEW f \in Flushes, NEW e \in Errors, RestoreMemory(f, e)
      PROVE  MemorySortedByAge'
  <2>1. AddAll(flush[f].mem)
    BY <1>5 DEF RestoreMemory
  <2>2. Range(memLogs) \cap Range(flush[f].mem) = {}
    BY FrameFacts DEF InFlush
  <2> QED
    BY <2>1, <2>2, FrameFacts, PlaceFacts, AddAllSorted
<1>6. ASSUME NEW f \in Flushes, NEW e \in Errors, BatchToMemory(f, e)
      PROVE  MemorySortedByAge'
  <2>1. AddAll(flush[f].batch)
    BY <1>6 DEF BatchToMemory
  <2>2. Range(memLogs) \cap Range(flush[f].batch) = {}
    BY FrameFacts DEF InFlush
  <2> QED
    BY <2>1, <2>2, FrameFacts, PlaceFacts, AddAllSorted
<1>7. CASE Tick
  BY <1>7, TickSorted
<1>8. CASE CleanupOldLogs
  BY <1>8, CutMemorySorted, PlaceFacts DEF CleanupOldLogs
<1>9. CASE StopBatchProcessor
  BY <1>9, EmptySorted, UntouchedSorted
     DEF StopBatchProcessor, StopMemory, FlushBatch, DrainMemory
<1>10. CASE ResumeStop
  BY <1>10, EmptySorted, UntouchedSorted DEF ResumeStop, StopMemory, DrainMemory
<1>11. CASE DatabaseChange
  BY <1>11, UntouchedSorted DEF DatabaseChange
<1>12. ASSUME NEW committed \in SUBSET Flushes, Crash(committed) PROVE MemorySortedByAge'
  BY <1>12, EmptySorted DEF Crash
<1>13. CASE UNCHANGED vars
  BY <1>13, UntouchedSorted DEF vars
<1> QED
  BY <1>1, <1>2, <1>3, <1>4, <1>5, <1>6, <1>7, <1>8, <1>9, <1>10, <1>11, <1>12, <1>13
     DEF Next, SaveSettles

\* The in-memory storage is sorted by age, so that the log that a full storage shifts
\* out is the oldest one: flushes that fail in any order stamp their logs anew before
\* they store them behind the others.
THEOREM MemoryStaysSorted == Spec => []MemorySortedByAge
<1>1. Init => TypeOK /\ Custody /\ MemorySortedByAge
  BY InitType, InitCustody, EmptySeq DEF Init, MemorySortedByAge
<1>2. TypeOK /\ Custody /\ MemorySortedByAge /\ [Next]_vars
        => (TypeOK /\ Custody /\ MemorySortedByAge)'
  BY NextType, NextCustody, NextSorted
<1> QED
  BY <1>1, <1>2, PTL DEF Spec

\* What has expired is a prefix of the storage: the logs that cleanupOldLogs filters
\* out are those that CleanupOldLogs cuts off, and no step can make it leave one.
LEMMA ExpiredIsPrefix == Spec => [](\A i \in Expired : 1 .. i \subseteq Expired)
<1>1. TypeOK /\ MemorySortedByAge => \A i \in Expired : 1 .. i \subseteq Expired
  <2> SUFFICES ASSUME TypeOK, MemorySortedByAge, NEW i \in Expired, NEW j \in 1 .. i
               PROVE  j \in Expired
    OBVIOUS
  <2>1. memLogs \in Seq(Logs) /\ i \in DOMAIN memLogs /\ age[memLogs[i]] >= MaxAge
    BY DEF TypeOK, Expired
  <2>2. j \in DOMAIN memLogs /\ i \in Nat /\ j \in Nat /\ j <= i
    BY <2>1, LenProperties
  <2>3. age[memLogs[i]] \in Nat /\ age[memLogs[j]] \in Nat /\ MaxAge \in Nat
    BY <2>1, <2>2, ElementOfSeq, LenProperties, SizeAssumption DEF TypeOK
  <2>4. age[memLogs[j]] >= age[memLogs[i]]
    BY <2>1, <2>2, <2>3 DEF MemorySortedByAge
  <2> QED
    BY <2>1, <2>2, <2>3, <2>4 DEF Expired
<1> QED
  BY <1>1, TypeCorrect, MemoryStaysSorted, PTL
-----------------------------------------------------------------------------
(* The variant of a flush. *)

\* How many saves a flush may still make: what is left of the attempts of the one that
\* it awaits, and those of its batch.
SavesLeft(frame) ==
    CASE frame.pc = "idle" -> 0
      [] frame.pc = "batch" -> MaxRetries + 2 - frame.attempt
      [] frame.pc = "mem" -> MaxRetries + 2 - frame.attempt
                             + (IF frame.batch = <<>> THEN 0 ELSE MaxRetries + 1)

\* A frame that a flush is left with has fewer saves to make than before.
RunsDown(f, frame) == frame = flush[f] \/ SavesLeft(frame) < SavesLeft(flush[f])

LEMMA SavesLeftBound ==
    ASSUME NEW frame \in Frames
    PROVE  /\ SavesLeft(frame) \in 0 .. 2 * (MaxRetries + 1)
           /\ frame.pc = "idle" <=> SavesLeft(frame) = 0
BY SMTT(20), SizeAssumption DEF SavesLeft, Frames

LEMMA IdleRunsDown ==
    ASSUME TypeOK, NEW f \in Flushes, flush[f].pc # "idle"
    PROVE  SavesLeft(Idle) < SavesLeft(flush[f])
<1>1. flush[f] \in Frames /\ Idle.pc = "idle"
  BY DEF TypeOK, Idle
<1> QED
  BY <1>1, SizeAssumption, SavesLeftBound, FrameTypes

LEMMA AfterMemoryRunsDown ==
    ASSUME TypeOK, NEW f \in Flushes, flush[f].pc = "mem"
    PROVE  SavesLeft(AfterMemory(f)) < SavesLeft(flush[f])
<1>1. flush[f] \in Frames /\ MaxRetries \in Nat
  BY SizeAssumption DEF TypeOK
<1>2. CASE flush[f].batch = <<>>
  BY <1>2, IdleRunsDown DEF AfterMemory
<1>3. CASE flush[f].batch # <<>>
  <2>1. /\ AfterMemory(f).pc = "batch" /\ AfterMemory(f).attempt = 1
        /\ flush[f].attempt \in 1 .. MaxRetries + 1
    BY <1>1, <1>3 DEF AfterMemory, Frames
  <2> QED
    BY <1>1, <1>3, <2>1 DEF SavesLeft
<1> QED
  BY <1>2, <1>3

\* Each answer to a save leaves fewer of them.
LEMMA SettlingRunsDown ==
    ASSUME TypeOK, NEW f \in Flushes, SaveSettles(f)
    PROVE  \E frame : /\ flush' = [flush EXCEPT ![f] = frame]
                      /\ SavesLeft(frame) < SavesLeft(flush[f])
<1>1. flush[f] \in Frames /\ MaxRetries \in Nat
  BY SizeAssumption DEF TypeOK
<1>2. CASE SaveSucceeds(f)
  <2> DEFINE frame == IF flush[f].pc = "mem" THEN AfterMemory(f) ELSE Idle
  <2>1. flush' = [flush EXCEPT ![f] = frame] /\ flush[f].pc # "idle"
    BY <1>2 DEF SaveSucceeds
  <2>2. SavesLeft(frame) < SavesLeft(flush[f])
    BY <2>1, IdleRunsDown, AfterMemoryRunsDown
  <2> QED
    BY <2>1, <2>2
<1>3. ASSUME NEW e \in Errors, RetrySave(f, e)
      PROVE  \E frame : /\ flush' = [flush EXCEPT ![f] = frame]
                        /\ SavesLeft(frame) < SavesLeft(flush[f])
  <2> DEFINE frame == [flush[f] EXCEPT !.attempt = @ + 1]
  <2>1. flush' = [flush EXCEPT ![f] = frame]
    BY <1>3 DEF RetrySave
  <2>2. /\ flush[f].pc \in {"mem", "batch"} /\ flush[f].attempt \in 1 .. MaxRetries + 1
        /\ frame.pc = flush[f].pc /\ frame.batch = flush[f].batch
        /\ frame.attempt = flush[f].attempt + 1
    BY <1>1, <1>3 DEF RetrySave, SaveRejected, Frames
  <2>3. SavesLeft(frame) < SavesLeft(flush[f])
    BY <1>1, <2>2 DEF SavesLeft
  <2> QED
    BY <2>1, <2>3
<1>4. ASSUME NEW e \in Errors, RestoreMemory(f, e)
      PROVE  \E frame : /\ flush' = [flush EXCEPT ![f] = frame]
                        /\ SavesLeft(frame) < SavesLeft(flush[f])
  BY <1>4, AfterMemoryRunsDown DEF RestoreMemory
<1>5. ASSUME NEW e \in Errors, BatchToMemory(f, e) \/ Requeue(f, e) \/ Drop(f, e)
      PROVE  \E frame : /\ flush' = [flush EXCEPT ![f] = frame]
                        /\ SavesLeft(frame) < SavesLeft(flush[f])
  BY <1>5, IdleRunsDown DEF BatchToMemory, Requeue, Drop
<1> QED
  BY <1>2, <1>3, <1>4, <1>5 DEF SaveSettles

\* Whatever else happens, a flush stays as it is, or ends with the process; nothing
\* starts an activation that is still running.
LEMMA FlushAlone ==
    ASSUME TypeOK, [Next]_vars, NEW f \in Flushes, flush[f].pc # "idle"
    PROVE  RunsDown(f, flush'[f])
<1>1. DOMAIN flush = Flushes
  BY DEF TypeOK
<1>2. ASSUME NEW g \in Flushes, NEW q, FlushBatch(g, q) PROVE RunsDown(f, flush'[f])
  BY <1>1, <1>2 DEF FlushBatch, RunsDown
<1>3. ASSUME NEW l \in Logs, AddToBatch(l) PROVE RunsDown(f, flush'[f])
  BY <1>2, <1>3 DEF AddToBatch, RunsDown
<1>4. ASSUME NEW g \in Flushes, BatchTimer(g) PROVE RunsDown(f, flush'[f])
  BY <1>2, <1>4 DEF BatchTimer
<1>5. ASSUME NEW g \in Flushes, SaveSettles(g) PROVE RunsDown(f, flush'[f])
  <2>1. PICK frame : /\ flush' = [flush EXCEPT ![g] = frame]
                     /\ SavesLeft(frame) < SavesLeft(flush[g])
    BY <1>5, SettlingRunsDown
  <2> QED
    BY <1>1, <2>1 DEF RunsDown
<1>6. ASSUME StopMemory, flush[Stopper].pc = "idle" PROVE RunsDown(f, flush'[f])
  BY <1>1, <1>6 DEF StopMemory, RunsDown
<1>7. ASSUME StopBatchProcessor PROVE RunsDown(f, flush'[f])
  BY <1>2, <1>6, <1>7, StopperAssumption DEF StopBatchProcessor
<1>8. ASSUME ResumeStop PROVE RunsDown(f, flush'[f])
  BY <1>6, <1>8 DEF ResumeStop, RunsDown
<1>9. ASSUME NEW committed \in SUBSET Flushes, Crash(committed)
      PROVE  RunsDown(f, flush'[f])
  BY <1>9, IdleRunsDown DEF Crash, RunsDown
<1>10. ASSUME Tick \/ CleanupOldLogs \/ DatabaseChange \/ UNCHANGED vars
       PROVE  RunsDown(f, flush'[f])
  BY <1>10 DEF Tick, CleanupOldLogs, DatabaseChange, RunsDown, vars
<1> QED
  BY <1>3, <1>4, <1>5, <1>7, <1>8, <1>9, <1>10 DEF Next

\* An activation of flushBatch awaits at most one save per attempt of withDatabaseRetry,
\* for the drained memory and for its batch: each answer leaves it fewer of them,
\* and nothing that happens meanwhile, no other flush, restoration or stop, gives it more.
\* With the fairness of the answered flushes this is why FlushTerminates.
FlushRunsDown ==
    [][\A f \in Flushes :
         /\ SavesLeft(flush'[f]) \in 0 .. 2 * (MaxRetries + 1)
         /\ SaveSettles(f) => SavesLeft(flush'[f]) < SavesLeft(flush[f])
         /\ flush[f].pc # "idle" => RunsDown(f, flush'[f])]_vars

\* flushBatch ends after a bounded number of saves, however they are answered.
THEOREM FlushesRunDown == Spec => FlushRunsDown
<1>1. ASSUME TypeOK, TypeOK', [Next]_vars, NEW f \in Flushes
      PROVE  /\ SavesLeft(flush'[f]) \in 0 .. 2 * (MaxRetries + 1)
             /\ SaveSettles(f) => SavesLeft(flush'[f]) < SavesLeft(flush[f])
             /\ flush[f].pc # "idle" => RunsDown(f, flush'[f])
  <2>1. flush'[f] \in Frames
    BY <1>1 DEF TypeOK
  <2>2. ASSUME SaveSettles(f) PROVE SavesLeft(flush'[f]) < SavesLeft(flush[f])
    <3>1. PICK frame : /\ flush' = [flush EXCEPT ![f] = frame]
                       /\ SavesLeft(frame) < SavesLeft(flush[f])
      BY <1>1, <2>2, SettlingRunsDown
    <3> QED
      BY <1>1, <3>1 DEF TypeOK
  <2> QED
    BY <1>1, <2>1, <2>2, SavesLeftBound, FlushAlone
<1>2. TypeOK /\ TypeOK' /\ [Next]_vars =>
        [\A f \in Flushes :
           /\ SavesLeft(flush'[f]) \in 0 .. 2 * (MaxRetries + 1)
           /\ SaveSettles(f) => SavesLeft(flush'[f]) < SavesLeft(flush[f])
           /\ flush[f].pc # "idle" => RunsDown(f, flush'[f])]_vars
  BY <1>1
<1> QED
  BY <1>2, TypeCorrect, PTL DEF Spec, FlushRunsDown
=============================================================================
