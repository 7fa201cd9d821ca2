-------------------------- MODULE HitTrackerProof --------------------------
(***************************************************************************)
(* Theorems about HitTracker, for any keys, thresholds and accesses: type  *)
(* correctness, that no counter lives for ever but by a lost EXPIRE, that  *)
(* a scan, whose reads are no snapshot, finds every key that is hot as     *)
(* long as it lasts and none that is too seldom missed, that each of its   *)
(* steps brings it nearer to its end, and that a key without misses does   *)
(* not become hot before it is missed again.                               *)
(***************************************************************************)
EXTENDS HitTracker, TLAPS

InHot(k) == \E i \in DOMAIN hot : hot[i] = k

\* No counter of a hot key is to be read again, nor is a hot key in hand.
HotAreDone ==
    /\ scan.pc \in {"none", "keys"} => scan.todo = {}
    /\ scan.pc = "keys" => hot = <<>>
    /\ \A c \in scan.todo : ~InHot(c[1])
    /\ scan.pc \in {"misses", "threshold"} => ~InHot(scan.key)

-----------------------------------------------------------------------------
(* Type correctness. *)

LEMMA InitType == Init => TypeOK /\ HotAreDone
BY HitTrackerAssumption
   DEF Init, TypeOK, HotAreDone, InHot, AccessType, ScanType, Between, Forever, Counters

\* The counters, whatever happens to them.
CountersOK ==
    /\ count \in [Counters -> 0 .. MaxCount]
    /\ left \in [Counters -> 0 .. Forever]
    /\ \A c \in Counters : left[c] = 0 <=> count[c] = 0
    /\ threshold \in [Keys -> Thresholds \cup {Default}]
    /\ access \in [Accesses -> AccessType]
    /\ resetting \subseteq Keys
    /\ lost \subseteq Counters

LEMMA DeleteType ==
    ASSUME CountersOK, NEW c \in Counters, Delete(c), resetting' \subseteq Keys
    PROVE  CountersOK'
BY HitTrackerAssumption DEF CountersOK, Delete, Vanish, Forever

LEMMA CountersType ==
    ASSUME CountersOK, Step
    PROVE  CountersOK'
<1>1. CASE Tick
  BY <1>1, HitTrackerAssumption DEF CountersOK, Tick, Vanish, taskVars, Forever
<1>2. ASSUME NEW a \in Accesses, TrackStep(a) \/ \E c \in Counters : TrackAccess(a, c)
      PROVE  CountersOK'
  <2>1. access[a] \in AccessType
    BY DEF CountersOK
  <2>2. ASSUME NEW c \in Counters, TrackAccess(a, c) PROVE CountersOK'
    BY <2>2 DEF CountersOK, TrackAccess, AccessType, redisVars, Forever
  <2>3. CASE IncrBy(a)
    <3>1. access[a].counter \in Counters /\ [access[a] EXCEPT !.pc = "expire"] \in AccessType
      BY <2>1, <2>3 DEF IncrBy, AccessType
    <3> QED
      BY <2>3, <3>1, HitTrackerAssumption DEF CountersOK, IncrBy, Forever
  <2>4. CASE Expire(a)
    <3>1. access[a].counter \in Counters /\ [pc |-> "none"] \in AccessType
      BY <2>1, <2>4 DEF Expire, AccessType
    <3> QED
      BY <2>4, <3>1, HitTrackerAssumption DEF CountersOK, Expire, Forever
  <2>5. CASE AccessFails(a)
    <3>1. access[a].counter \in Counters /\ [pc |-> "none"] \in AccessType
      BY <2>1, <2>5 DEF AccessFails, AccessType
    <3> QED
      BY <2>5, <3>1 DEF CountersOK, AccessFails, redisVars, Forever
  <2> QED
    BY <1>2, <2>2, <2>3, <2>4, <2>5 DEF TrackStep
<1>3. ASSUME NEW k \in Keys, ResetStats(k) \/ ResetMisses(k) PROVE CountersOK'
  <2>1. <<k, "hit">> \in Counters /\ <<k, "miss">> \in Counters /\ resetting' \subseteq Keys
    BY <1>3 DEF Counters, ResetStats, ResetMisses, CountersOK
  <2>2. CASE Delete(<<k, "hit">>) \/ Delete(<<k, "miss">>)
    BY <2>1, <2>2, DeleteType
  <2>3. CASE UNCHANGED <<redisVars, access, scanVars, lost>>
    BY <2>1, <2>3 DEF CountersOK, redisVars, Forever
  <2> QED
    BY <1>3, <2>2, <2>3 DEF ResetStats, ResetMisses
<1>4. ASSUME NEW k \in Keys, NEW t \in Thresholds \cup {Default}, SetThreshold(k, t)
      PROVE  CountersOK'
  BY <1>4 DEF CountersOK, SetThreshold, taskVars, Forever
<1>5. CASE GetHotCacheKeys \/ ScanStep
  <2>1. UNCHANGED <<redisVars, taskVars, lost>>
    BY <1>5 DEF GetHotCacheKeys, ScanStep, ListKeys, ListFails, GetHits, GetHitsFails, GetMisses,
                GetMissesFails, GetThreshold, GetThresholdFails, Judge, Scans
  <2> QED
    BY <2>1 DEF CountersOK, redisVars, taskVars, Forever
<1> QED
  BY <1>1, <1>2, <1>3, <1>4, <1>5 DEF Step

\* A scan between two keys.
LEMMA BetweenType ==
    ASSUME NEW pc \in {"none", "keys", "hits"}, NEW todo \in SUBSET Counters,
           NEW unread \in SUBSET Keys
    PROVE  /\ Between(pc, todo, unread) \in ScanType
           /\ Between(pc, todo, unread).pc = pc /\ Between(pc, todo, unread).todo = todo
<1>1. 0 \in 0 .. MaxCount
  BY HitTrackerAssumption
<1> QED
  BY <1>1 DEF Between, ScanType

\* Judging a key appends it to the hot ones at most.
LEMMA JudgeType ==
    ASSUME TypeOK, HotAreDone, NEW t, NEW unread \in SUBSET Keys, Judge(t, unread)
    PROVE  /\ scan' \in ScanType /\ scan'.pc \in {"none", "hits"}
           /\ hot' \in Seq(Keys) /\ \A i, j \in DOMAIN hot' : hot'[i] = hot'[j] => i = j
           /\ HotAreDone'
<1>1. /\ scan.pc = "threshold" /\ scan.key \in Keys /\ scan.todo \subseteq Counters
      /\ \A i \in DOMAIN hot : hot[i] # scan.key
      /\ hot \in Seq(Keys)
  BY DEF TypeOK, Judge, Scans, HotAreDone, InHot, ScanType
<1>2. CASE IsHot(scan.hits, scan.misses, t)
  <2> DEFINE todo == {c \in scan.todo : c[1] # scan.key}
  <2>1. /\ hot' = Append(hot, scan.key)
        /\ scan' = Between(IF todo = {} THEN "none" ELSE "hits", todo, unread)
    BY <1>2 DEF Judge, Scans
  <2>2. /\ scan' \in ScanType /\ scan'.pc = (IF todo = {} THEN "none" ELSE "hits")
        /\ scan'.todo = todo
    <3> DEFINE pc == IF todo = {} THEN "none" ELSE "hits"
    <3>1. todo \in SUBSET Counters /\ pc \in {"none", "keys", "hits"}
      BY <1>1
    <3> HIDE DEF todo, pc
    <3>2. LET new == Between(pc, todo, unread) IN
          new \in ScanType /\ new.pc = pc /\ new.todo = todo
      BY <3>1, BetweenType
    <3>3. scan' = Between(pc, todo, unread)
      BY <2>1 DEF pc
    <3> QED
      BY <3>2, <3>3 DEF pc
  <2>3. /\ hot' \in Seq(Keys) /\ Len(hot') = Len(hot) + 1
        /\ \A i \in 1 .. Len(hot) : hot'[i] = hot[i]
        /\ hot'[Len(hot) + 1] = scan.key
    BY <1>1, <2>1
  <2>4. \A i, j \in DOMAIN hot' : hot'[i] = hot'[j] => i = j
    BY <1>1, <2>3 DEF TypeOK
  <2>5. \A c \in todo : ~InHot(c[1])'
    BY <1>1, <2>3 DEF HotAreDone, InHot
  <2> QED
    BY <2>2, <2>3, <2>4, <2>5 DEF HotAreDone
<1>3. CASE ~IsHot(scan.hits, scan.misses, t)
  <2>1. /\ hot' = hot
        /\ scan' = Between(IF scan.todo = {} THEN "none" ELSE "hits", scan.todo, unread)
    BY <1>3 DEF Judge, Scans
  <2>2. /\ scan' \in ScanType /\ scan'.pc = (IF scan.todo = {} THEN "none" ELSE "hits")
        /\ scan'.todo = scan.todo
    <3> DEFINE pc == IF scan.todo = {} THEN "none" ELSE "hits"
    <3>1. scan.todo \in SUBSET Counters /\ pc \in {"none", "keys", "hits"}
      BY <1>1
    <3> HIDE DEF pc
    <3>2. LET new == Between(pc, scan.todo, unread) IN
          new \in ScanType /\ new.pc = pc /\ new.todo = scan.todo
      BY <3>1, BetweenType
    <3>3. scan' = Between(pc, scan.todo, unread)
      BY <2>1 DEF pc
    <3> QED
      BY <3>2, <3>3 DEF pc
  <2> QED
    BY <2>1, <2>2 DEF HotAreDone, InHot, TypeOK
<1> QED
  BY <1>2, <1>3

\* What a scan keeps, whatever command it awaits.
LEMMA ScanTypeKept ==
    ASSUME TypeOK, HotAreDone, GetHotCacheKeys \/ ScanStep
    PROVE  /\ scan' \in ScanType
           /\ scan'.pc \in {"misses", "threshold"} => scan'.key \in Keys
           /\ hot' \in Seq(Keys) /\ \A i, j \in DOMAIN hot' : hot'[i] = hot'[j] => i = j
           /\ HotAreDone'
<1>1. /\ scan \in ScanType /\ count \in [Counters -> 0 .. MaxCount]
      /\ \A k \in Keys : <<k, "hit">> \in Counters /\ <<k, "miss">> \in Counters
      /\ \A c \in Counters : c[1] \in Keys
      /\ 0 \in 0 .. MaxCount
  BY HitTrackerAssumption DEF TypeOK, Counters
<1>2. CASE GetHotCacheKeys
  <2>1. scan' = Between("keys", {}, {}) /\ hot' = <<>>
    BY <1>2 DEF GetHotCacheKeys, Scans
  <2>2. scan' \in ScanType /\ scan'.pc = "keys" /\ scan'.todo = {}
    BY <2>1, BetweenType
  <2> QED
    BY <2>1, <2>2 DEF HotAreDone
<1>3. CASE ListKeys \/ ListFails
  <2>1. hot = <<>> /\ UNCHANGED hot
    BY <1>3 DEF ListKeys, ListFails, Scans, HotAreDone
  <2>2. PICK pc \in {"none", "hits"}, todo \in SUBSET Counters, unread \in SUBSET Keys :
          scan' = Between(pc, todo, unread) /\ (pc = "none" => todo = {})
    BY <1>3 DEF ListKeys, ListFails, Scans
  <2>3. scan' \in ScanType /\ scan'.pc = pc /\ scan'.todo = todo
    BY <2>2, BetweenType
  <2> QED
    BY <2>1, <2>2, <2>3 DEF HotAreDone, InHot
<1>4. ASSUME NEW c \in Counters, GetHits(c) \/ GetHitsFails(c)
      PROVE  /\ scan' \in ScanType
             /\ scan'.pc \in {"misses", "threshold"} => scan'.key \in Keys
             /\ UNCHANGED hot /\ HotAreDone'
  <2>1. c \in scan.todo /\ c[1] \in Keys /\ scan.pc = "hits" /\ UNCHANGED hot
    BY <1>1, <1>4 DEF GetHits, GetHitsFails, Scans
  <2>2. /\ scan' \in ScanType /\ scan'.pc \in {"misses", "threshold"}
        /\ scan'.key = c[1] /\ scan'.todo = scan.todo \ {c}
    <3>1. Hits(c[1]) \in 0 .. MaxCount
      BY <1>1, <2>1 DEF Hits
    <3>2. CASE GetHits(c)
      BY <1>1, <2>1, <3>1, <3>2 DEF GetHits, Scans, ScanType
    <3>3. CASE GetHitsFails(c)
      BY <1>1, <2>1, <3>3 DEF GetHitsFails, Scans, ScanType
    <3> QED
      BY <1>4, <3>2, <3>3
  <2>3. \A k : InHot(k)' <=> InHot(k)
    BY <2>1 DEF InHot
  <2> QED
    BY <2>1, <2>2, <2>3 DEF HotAreDone
<1>5. CASE GetMisses \/ GetMissesFails
  <2>1. scan.pc = "misses" /\ scan.key \in Keys /\ UNCHANGED hot
    BY <1>5 DEF GetMisses, GetMissesFails, Scans, TypeOK
  <2>2. /\ scan' \in ScanType /\ scan'.pc = "threshold"
        /\ scan'.key = scan.key /\ scan'.todo = scan.todo
    <3>1. Misses(scan.key) \in 0 .. MaxCount
      BY <1>1, <2>1 DEF Misses
    <3>2. CASE GetMisses
      BY <1>1, <2>1, <3>1, <3>2 DEF GetMisses, Scans, ScanType
    <3>3. CASE GetMissesFails
      BY <1>1, <2>1, <3>3 DEF GetMissesFails, Scans, ScanType
    <3> QED
      BY <1>5, <3>2, <3>3
  <2>3. \A k : InHot(k)' <=> InHot(k)
    BY <2>1 DEF InHot
  <2>4. /\ hot' \in Seq(Keys) /\ \A i, j \in DOMAIN hot' : hot'[i] = hot'[j] => i = j
    BY <2>1 DEF TypeOK
  <2> QED
    BY <2>1, <2>2, <2>3, <2>4 DEF HotAreDone
<1>6. CASE GetThreshold \/ GetThresholdFails
  <2>1. scan.key \in Keys
    BY <1>6 DEF GetThreshold, GetThresholdFails, Judge, Scans, TypeOK
  <2> QED
    BY <1>6, <2>1, JudgeType DEF GetThreshold, GetThresholdFails
<1> QED
  BY <1>2, <1>3, <1>4, <1>5, <1>6 DEF ScanStep, TypeOK

\* The steps that are not a scan's leave it alone.
LEMMA ScanAlone ==
    ASSUME Step, ~(GetHotCacheKeys \/ ScanStep)
    PROVE  UNCHANGED scanVars
BY DEF Step, Tick, TrackStep, IncrBy, Expire, AccessFails, TrackAccess, ResetStats, ResetMisses,
       Delete, SetThreshold

LEMMA HistoryType ==
    ASSUME History, steady \subseteq Keys, cool \subseteq Keys
    PROVE  steady' \subseteq Keys /\ cool' \subseteq Keys
BY DEF History, Watched

LEMMA NextType == TypeOK /\ HotAreDone /\ [Next]_vars => TypeOK' /\ HotAreDone'
<1> SUFFICES ASSUME TypeOK, HotAreDone, [Next]_vars PROVE TypeOK' /\ HotAreDone'
  OBVIOUS
<1>1. CASE Next
  <2>1. CountersOK'
    BY <1>1, CountersType DEF Next, TypeOK, CountersOK
  <2>2. steady' \subseteq Keys /\ cool' \subseteq Keys
    BY <1>1, HistoryType DEF Next, TypeOK
  <2>3. /\ scan' \in ScanType
        /\ scan'.pc \in {"misses", "threshold"} => scan'.key \in Keys
        /\ hot' \in Seq(Keys) /\ \A i, j \in DOMAIN hot' : hot'[i] = hot'[j] => i = j
        /\ HotAreDone'
    <3>1. CASE GetHotCacheKeys \/ ScanStep
      BY <3>1, ScanTypeKept
    <3>2. CASE UNCHANGED scanVars
      BY <3>2 DEF scanVars, TypeOK, HotAreDone, InHot
    <3> QED
      BY <1>1, <3>1, <3>2, ScanAlone DEF Next
  <2> QED
    BY <2>1, <2>2, <2>3 DEF TypeOK, CountersOK
<1>2. CASE UNCHANGED vars
  BY <1>2 DEF vars, redisVars, taskVars, scanVars, historyVars, TypeOK, HotAreDone, InHot, Forever
<1> QED
  BY <1>1, <1>2

\* Counters, accesses and scans keep their types, and no key is found hot twice.
THEOREM TypeCorrect == Spec => []TypeOK
<1> QED
  BY InitType, NextType, PTL DEF Spec

-----------------------------------------------------------------------------
(* No counter lives for ever but by a lost EXPIRE. *)

AboutToExpire(c) == \E a \in Accesses : access[a].pc = "expire" /\ access[a].counter = c

LEMMA DeleteKeepsMortal ==
    ASSUME TypeOK, ImmortalOnlyByLoss, NEW c \in Counters, Delete(c)
    PROVE  ImmortalOnlyByLoss'
<1>1. UNCHANGED access /\ lost' = lost \ {c}
  BY DEF Delete, Vanish
<1>2. \A d \in Counters : left'[d] = Forever => d # c /\ left[d] = Forever
  BY HitTrackerAssumption DEF Delete, TypeOK, Forever
<1> QED
  BY <1>1, <1>2 DEF ImmortalOnlyByLoss, Forever

LEMMA AccessKeepsMortal ==
    ASSUME TypeOK, ImmortalOnlyByLoss, NEW a \in Accesses,
           TrackStep(a) \/ \E c \in Counters : TrackAccess(a, c)
    PROVE  ImmortalOnlyByLoss'
<1> SUFFICES ASSUME NEW d \in Counters, left'[d] = Forever
             PROVE  d \in lost' \/ AboutToExpire(d)'
  BY DEF ImmortalOnlyByLoss, AboutToExpire, Forever
<1>1. left[d] = Forever => d \in lost \/ AboutToExpire(d)
  BY DEF ImmortalOnlyByLoss, AboutToExpire
<1>2. access \in [Accesses -> AccessType] /\ access[a] \in AccessType
  BY DEF TypeOK
<1>3. ASSUME access[a].pc # "expire", AboutToExpire(d),
             \A b \in Accesses \ {a} : access'[b] = access[b]
      PROVE  AboutToExpire(d)'
  BY <1>3 DEF AboutToExpire
<1>4. ASSUME NEW c \in Counters, TrackAccess(a, c) PROVE d \in lost' \/ AboutToExpire(d)'
  <2>1. /\ UNCHANGED <<left, lost>> /\ access[a].pc # "expire"
        /\ \A b \in Accesses \ {a} : access'[b] = access[b]
    BY <1>2, <1>4 DEF TrackAccess, redisVars
  <2> QED
    BY <1>1, <1>3, <2>1
<1>5. CASE IncrBy(a)
  <2>1. /\ access[a].pc = "incrBy" /\ access[a].counter \in Counters
        /\ access' = [access EXCEPT ![a].pc = "expire"] /\ UNCHANGED lost
    BY <1>2, <1>5 DEF IncrBy, AccessType
  <2>2. CASE d = access[a].counter
    <3>1. access'[a].pc = "expire" /\ access'[a].counter = d
      BY <1>2, <2>1, <2>2 DEF AccessType
    <3> QED
      BY <3>1 DEF AboutToExpire
  <2>3. CASE d # access[a].counter
    <3>1. left'[d] = left[d]
      BY <1>5, <2>1, <2>3 DEF IncrBy, TypeOK
    <3>2. \A b \in Accesses \ {a} : access'[b] = access[b]
      BY <1>2, <2>1
    <3> QED
      BY <1>1, <1>3, <2>1, <3>1, <3>2
  <2> QED
    BY <2>2, <2>3
<1>6. CASE Expire(a)
  <2>1. /\ access[a].counter \in Counters /\ lost' = lost \ {access[a].counter}
        /\ \A b \in Accesses \ {a} : access'[b] = access[b]
    BY <1>2, <1>6 DEF Expire, AccessType
  <2>2. d # access[a].counter /\ left'[d] = left[d]
    BY <1>6, <2>1, HitTrackerAssumption DEF Expire, TypeOK, Forever
  <2>3. AboutToExpire(d) => AboutToExpire(d)'
    BY <2>1, <2>2 DEF AboutToExpire
  <2> QED
    BY <1>1, <2>1, <2>2, <2>3
<1>7. CASE AccessFails(a)
  <2>1. /\ UNCHANGED <<left, count>> /\ lost \subseteq lost'
        /\ \A b \in Accesses \ {a} : access'[b] = access[b]
    BY <1>2, <1>7 DEF AccessFails, redisVars
  <2>2. count[d] > 0
    BY <2>1, HitTrackerAssumption DEF TypeOK, Forever
  <2>3. access[a].pc = "expire" /\ access[a].counter = d => d \in lost'
    BY <1>7, <2>2 DEF AccessFails
  <2>4. AboutToExpire(d) => d \in lost' \/ AboutToExpire(d)'
    BY <2>1, <2>3 DEF AboutToExpire
  <2> QED
    BY <1>1, <2>1, <2>4
<1> QED
  BY <1>4, <1>5, <1>6, <1>7 DEF TrackStep

LEMMA NextMortal == TypeOK /\ ImmortalOnlyByLoss /\ [Next]_vars => ImmortalOnlyByLoss'
<1> SUFFICES ASSUME TypeOK, ImmortalOnlyByLoss, [Next]_vars PROVE ImmortalOnlyByLoss'
  OBVIOUS
<1>1. CASE UNCHANGED <<left, access, lost>>
  BY <1>1 DEF ImmortalOnlyByLoss, Forever
<1>2. CASE Tick
  <2>1. \A c \in Counters : left'[c] = Forever => left[c] = Forever
    BY <1>2, HitTrackerAssumption DEF Tick, TypeOK, Forever
  <2>2. \A c \in Counters : left[c] = Forever => (c \in lost => c \in lost')
    BY <1>2, HitTrackerAssumption DEF Tick, Vanish, TypeOK, Forever
  <2> QED
    BY <1>2, <2>1, <2>2 DEF Tick, taskVars, ImmortalOnlyByLoss, Forever
<1>3. ASSUME NEW k \in Keys, ResetStats(k) \/ ResetMisses(k) PROVE ImmortalOnlyByLoss'
  <2>1. <<k, "hit">> \in Counters /\ <<k, "miss">> \in Counters
    BY DEF Counters
  <2> QED
    BY <1>1, <1>3, <2>1, DeleteKeepsMortal DEF ResetStats, ResetMisses, redisVars
<1>4. ASSUME NEW a \in Accesses, TrackStep(a) \/ \E c \in Counters : TrackAccess(a, c)
      PROVE  ImmortalOnlyByLoss'
  BY <1>4, AccessKeepsMortal
<1>5. CASE GetHotCacheKeys \/ ScanStep
  BY <1>1, <1>5 DEF GetHotCacheKeys, ScanStep, ListKeys, ListFails, GetHits, GetHitsFails,
     GetMisses, GetMissesFails, GetThreshold, GetThresholdFails, Judge, Scans, redisVars, taskVars
<1>6. ASSUME NEW k \in Keys, NEW t \in Thresholds \cup {Default}, SetThreshold(k, t)
      PROVE  ImmortalOnlyByLoss'
  BY <1>1, <1>6 DEF SetThreshold, taskVars
<1> QED
  BY <1>1, <1>2, <1>3, <1>4, <1>5, <1>6
     DEF Next, Step, vars, redisVars, taskVars, historyVars

\* A counter without expiry is one whose renewal is on its way or was lost.
THEOREM CountersExpire == Spec => []ImmortalOnlyByLoss
<1>1. Init => ImmortalOnlyByLoss
  BY HitTrackerAssumption DEF Init, ImmortalOnlyByLoss, Forever
<1> QED
  BY <1>1, InitType, NextType, NextMortal, PTL DEF Spec

-----------------------------------------------------------------------------
(* What a scan finds. *)

\* A key that is cool has not been read to be otherwise.
CoolInv ==
    \A k \in cool :
      /\ ~InHot(k)
      /\ scan.pc # "none" => SeldomMissed(k)
      /\ scan.pc = "threshold" /\ scan.key = k => 2 * scan.misses <= threshold[k]

\* A key that is steadily hot is found, or will be by what is yet to be read: its
\* misses, that only grow while it is hot, exceed the hits that were read.
WillBeFound(k) ==
    \/ scan.pc = "keys"
    \/ InHot(k)
    \/ \E c \in scan.todo : c[1] = k
    \/ scan.pc = "misses" /\ scan.key = k /\ IsHot(scan.hits, Misses(k), threshold[k])
    \/ scan.pc = "threshold" /\ scan.key = k /\ IsHot(scan.hits, scan.misses, threshold[k])

SteadyInv ==
    \A k \in steady :
      /\ scan.pc # "none" => IsHot(Hits(k), Misses(k), threshold[k])
      /\ WillBeFound(k)

LEMMA TypeNumbers ==
    ASSUME TypeOK
    PROVE  /\ \A k \in Keys : Hits(k) \in Nat /\ Misses(k) \in Nat /\ threshold[k] \in Nat
           /\ scan.hits \in Nat /\ scan.misses \in Nat
<1>1. /\ count \in [Counters -> 0 .. MaxCount] /\ threshold \in [Keys -> Thresholds \cup {Default}]
      /\ scan \in ScanType
  BY DEF TypeOK
<1>2. \A k \in Keys : <<k, "hit">> \in Counters /\ <<k, "miss">> \in Counters
  BY DEF Counters
<1>3. \A k \in Keys : Hits(k) \in Nat /\ Misses(k) \in Nat
  <2>1. \A c \in Counters : count[c] \in Nat
    BY <1>1, HitTrackerAssumption
  <2> QED
    BY <1>2, <2>1 DEF Hits, Misses
<1>4. \A k \in Keys : threshold[k] \in Nat
  BY <1>1, HitTrackerAssumption
<1>5. scan.hits \in Nat /\ scan.misses \in Nat
  BY <1>1, HitTrackerAssumption DEF ScanType
<1> QED
  BY <1>3, <1>4, <1>5

\* A counter grows or vanishes.
LEMMA CountSteps ==
    ASSUME TypeOK, Step, NEW c \in Counters
    PROVE  count'[c] = 0 \/ count'[c] >= count[c]
<1>1. ASSUME NEW cs, Vanish(cs) PROVE count'[c] = 0 \/ count'[c] >= count[c]
  BY <1>1 DEF Vanish, TypeOK
<1>2. ASSUME NEW a \in Accesses, IncrBy(a) PROVE count'[c] >= count[c]
  BY <1>2, HitTrackerAssumption DEF IncrBy, TypeOK
<1>3. CASE UNCHANGED count
  BY <1>3 DEF TypeOK
<1> QED
  BY <1>1, <1>2, <1>3
     DEF Step, Tick, TrackStep, TrackAccess, Expire, AccessFails, ResetStats, ResetMisses, Delete,
         SetThreshold, GetHotCacheKeys, ScanStep, ListKeys, ListFails, GetHits, GetHitsFails,
         GetMisses, GetMissesFails, GetThreshold, GetThresholdFails, Judge, Scans, redisVars

\* The histories while a scan is under way, and when it starts.
LEMMA HistorySteps ==
    ASSUME TypeOK, Next
    PROVE  /\ scan.pc = "none" /\ scan'.pc = "none" => UNCHANGED <<steady, cool>>
           /\ ~(scan.pc = "none" /\ scan'.pc = "none") =>
                /\ \A k \in cool' : SeldomMissed(k)' /\ k \notin scan'.unread /\ k \in Keys
                /\ \A k \in steady' : /\ IsHot(Hits(k)', Misses(k)', threshold'[k])
                                      /\ k \notin scan'.unread /\ k \in Keys
           /\ scan.pc # "none" =>
                /\ \A k \in cool' : k \in cool /\ threshold'[k] = threshold[k]
                /\ \A k \in steady' : k \in steady /\ threshold'[k] = threshold[k]
BY DEF Next, History, Watched

\* A scan step reads what Redis holds and changes none of it.
LEMMA ScanStepReads ==
    ASSUME ScanStep
    PROVE  UNCHANGED <<count, threshold>>
BY DEF ScanStep, ListKeys, ListFails, GetHits, GetHitsFails, GetMisses, GetMissesFails,
       GetThreshold, GetThresholdFails, Judge, Scans, redisVars

\* What is judged.
LEMMA JudgeEffect ==
    ASSUME TypeOK, NEW t, NEW unread, Judge(t, unread)
    PROVE  /\ scan.pc = "threshold" /\ scan'.unread = unread
           /\ scan'.pc \in {"none", "hits"}
           /\ \A k : InHot(k)' <=>
                InHot(k) \/ (k = scan.key /\ IsHot(scan.hits, scan.misses, t))
           /\ \A c \in scan.todo : c[1] # scan.key \/ ~IsHot(scan.hits, scan.misses, t) =>
                c \in scan'.todo
<1>1. CASE IsHot(scan.hits, scan.misses, t)
  <2> DEFINE todo == {c \in scan.todo : c[1] # scan.key}
  <2>1. /\ hot' = Append(hot, scan.key) /\ scan.pc = "threshold"
        /\ scan' = Between(IF todo = {} THEN "none" ELSE "hits", todo, unread)
    BY <1>1 DEF Judge, Scans
  <2>2. /\ scan'.pc \in {"none", "hits"} /\ scan'.todo = todo /\ scan'.unread = unread
    BY <2>1 DEF Between
  <2>3. hot \in Seq(Keys) /\ scan.key \in Keys
    BY <2>1 DEF TypeOK
  <2>4. /\ Len(hot) \in Nat /\ DOMAIN hot = 1 .. Len(hot) /\ DOMAIN hot' = 1 .. Len(hot) + 1
        /\ \A i \in 1 .. Len(hot) : hot'[i] = hot[i]
        /\ hot'[Len(hot) + 1] = scan.key
    BY <2>1, <2>3
  <2>5. \A k : InHot(k)' <=> InHot(k) \/ k = scan.key
    BY <2>4 DEF InHot
  <2> QED
    BY <1>1, <2>1, <2>2, <2>5
<1>2. CASE ~IsHot(scan.hits, scan.misses, t)
  <2>1. /\ hot' = hot /\ scan.pc = "threshold"
        /\ scan' = Between(IF scan.todo = {} THEN "none" ELSE "hits", scan.todo, unread)
    BY <1>2 DEF Judge, Scans
  <2>2. scan'.pc \in {"none", "hits"} /\ scan'.todo = scan.todo /\ scan'.unread = unread
    BY <2>1 DEF Between
  <2> QED
    BY <1>2, <2>1, <2>2 DEF InHot
<1> QED
  BY <1>1, <1>2

\* A key starts cool or steady with an empty list.
LEMMA StartFinds ==
    ASSUME TypeOK, Next, GetHotCacheKeys
    PROVE  CoolInv' /\ SteadyInv'
<1>1. scan.pc = "none" /\ scan' = Between("keys", {}, {}) /\ hot' = <<>>
  BY DEF GetHotCacheKeys, Scans
<1>2. scan'.pc = "keys"
  BY <1>1 DEF Between
<1>3. /\ \A k \in cool' : SeldomMissed(k)'
      /\ \A k \in steady' : IsHot(Hits(k)', Misses(k)', threshold'[k])
  BY <1>1, <1>2, HistorySteps
<1> QED
  BY <1>1, <1>2, <1>3 DEF CoolInv, SteadyInv, WillBeFound, InHot

\* Other steps do to a key only what keeps it cool or steady, or ends that.
LEMMA OthersFind ==
    ASSUME TypeOK, Next, CoolInv, SteadyInv, UNCHANGED scanVars
    PROVE  CoolInv' /\ SteadyInv'
<1>1. \A k : InHot(k)' <=> InHot(k)
  BY DEF scanVars, InHot
<1>2. UNCHANGED scan
  BY DEF scanVars
<1>3. CASE scan.pc = "none"
  <2>1. UNCHANGED <<steady, cool>>
    BY <1>2, <1>3, HistorySteps
  <2> QED
    BY <1>1, <1>2, <1>3, <2>1 DEF CoolInv, SteadyInv, WillBeFound
<1>4. CASE scan.pc # "none"
  <2>1. CoolInv'
    BY <1>1, <1>2, <1>4, HistorySteps DEF CoolInv
  <2>2. ASSUME NEW k \in steady'
        PROVE  IsHot(Hits(k)', Misses(k)', threshold'[k]) /\ WillBeFound(k)'
    <3>1. /\ IsHot(Hits(k)', Misses(k)', threshold'[k]) /\ k \in steady
          /\ threshold'[k] = threshold[k] /\ k \in Keys
      BY <1>2, <1>4, HistorySteps
    <3>2. WillBeFound(k)
      BY <3>1 DEF SteadyInv
    <3>3. Misses(k)' >= Misses(k) /\ Misses(k) \in Nat /\ Misses(k)' \in Nat /\ Hits(k)' \in Nat
      <4>1. <<k, "hit">> \in Counters /\ <<k, "miss">> \in Counters
        BY <3>1 DEF Counters
      <4>2. Misses(k)' = 0 \/ Misses(k)' >= Misses(k)
        BY <4>1, CountSteps DEF Misses, Next
      <4>3. CountersOK'
        BY CountersType DEF Next, TypeOK, CountersOK
      <4>4. Misses(k) \in Nat /\ Misses(k)' \in Nat /\ Hits(k)' \in Nat
        BY <4>1, <4>3, HitTrackerAssumption DEF TypeOK, CountersOK, Misses, Hits
      <4> QED
        BY <3>1, <4>2, <4>4 DEF IsHot
    <3>4. scan.hits \in Nat /\ threshold[k] \in Nat
      BY <3>1, TypeNumbers
    <3>5. IsHot(scan.hits, Misses(k), threshold[k]) => IsHot(scan.hits, Misses(k)', threshold'[k])
      BY <3>1, <3>3, <3>4 DEF IsHot
    <3> QED
      BY <1>1, <1>2, <3>1, <3>2, <3>5 DEF WillBeFound
  <2> QED
    BY <2>1, <2>2 DEF SteadyInv
<1> QED
  BY <1>3, <1>4

LEMMA ScanFinds ==
    ASSUME TypeOK, Next, CoolInv, SteadyInv, ScanStep
    PROVE  CoolInv' /\ SteadyInv'
<1>1. scan.pc # "none" /\ scan \in ScanType /\ UNCHANGED <<count, threshold>>
  BY ScanStepReads
     DEF TypeOK, ScanStep, ListKeys, ListFails, GetHits, GetHitsFails, GetMisses, GetMissesFails,
         GetThreshold, GetThresholdFails, Judge, Scans
<1>2. /\ \A k \in cool' : /\ SeldomMissed(k)' /\ k \notin scan'.unread /\ k \in Keys
                          /\ ~InHot(k) /\ k \in cool
      /\ \A k \in steady' : /\ IsHot(Hits(k)', Misses(k)', threshold'[k])
                            /\ k \notin scan'.unread /\ k \in Keys
                            /\ WillBeFound(k) /\ IsHot(Hits(k), Misses(k), threshold[k])
  BY <1>1, HistorySteps DEF CoolInv, SteadyInv
<1>3. /\ \A c \in Counters : c[1] \in Keys
      /\ \A k \in Keys : Hits(k) \in Nat /\ Misses(k) \in Nat /\ threshold[k] \in Nat
      /\ scan.hits \in Nat /\ scan.misses \in Nat
  BY TypeNumbers DEF Counters
<1> SUFFICES /\ \A k \in cool' :
                  /\ ~InHot(k)'
                  /\ scan'.pc = "threshold" /\ scan'.key = k => 2 * scan'.misses <= threshold[k]
             /\ \A k \in steady' : WillBeFound(k)'
  BY <1>1, <1>2 DEF CoolInv, SteadyInv
<1>4. CASE ListKeys \/ ListFails
  <2>1. scan.pc = "keys" /\ scan'.pc \in {"none", "hits"} /\ (\A k : InHot(k)' <=> InHot(k))
    BY <1>4 DEF ListKeys, ListFails, Scans, Between, InHot
  <2>2. ASSUME NEW k \in steady' PROVE \E c \in scan'.todo : c[1] = k
    <3>1. <<k, "miss">> \in Counters /\ count[<<k, "miss">>] > 0 /\ k \in Keys
      BY <1>2, <1>3, <2>2 DEF IsHot, Counters, Misses
    <3>2. CASE ListKeys
      <4>1. scan'.todo = {c \in Counters : count[c] > 0}
        BY <3>2 DEF ListKeys, Scans, Between
      <4> QED
        BY <3>1, <4>1
    <3>3. CASE ListFails
      BY <1>2, <2>2, <3>3 DEF ListFails, Scans, Between
    <3> QED
      BY <1>4, <3>2, <3>3
  <2> QED
    BY <1>2, <2>1, <2>2 DEF WillBeFound
<1>5. ASSUME NEW c \in Counters, GetHits(c) \/ GetHitsFails(c)
      PROVE  /\ \A k \in cool' :
                  /\ ~InHot(k)'
                  /\ scan'.pc = "threshold" /\ scan'.key = k => 2 * scan'.misses <= threshold[k]
             /\ \A k \in steady' : WillBeFound(k)'
  <2>1. /\ scan.pc = "hits" /\ scan'.todo = scan.todo \ {c} /\ scan'.key = c[1]
        /\ \A k : InHot(k)' <=> InHot(k)
    BY <1>1, <1>5 DEF GetHits, GetHitsFails, Scans, ScanType, InHot
  <2>2. CASE GetHits(c)
    <3>1. scan'.pc = "misses" /\ scan'.hits = Hits(c[1])
      BY <1>1, <2>2 DEF GetHits, Scans, ScanType
    <3>2. ASSUME NEW k \in steady' PROVE WillBeFound(k)'
      <4>1. CASE k = c[1]
        BY <1>1, <1>2, <2>1, <3>1, <4>1 DEF WillBeFound, Misses
      <4>2. CASE k # c[1]
        BY <1>2, <2>1, <4>2 DEF WillBeFound
      <4> QED
        BY <4>1, <4>2
    <3> QED
      BY <1>2, <2>1, <3>1, <3>2
  <2>3. CASE GetHitsFails(c)
    <3>1. scan'.pc = "threshold" /\ c[1] \in scan'.unread
      BY <1>1, <2>3 DEF GetHitsFails, Scans, ScanType
    <3>2. ASSUME NEW k \in steady' PROVE WillBeFound(k)'
      BY <1>2, <2>1, <3>1, <3>2 DEF WillBeFound
    <3> QED
      BY <1>2, <2>1, <3>1, <3>2
  <2> QED
    BY <1>5, <2>2, <2>3
<1>6. CASE GetMisses \/ GetMissesFails
  <2>1. /\ scan.pc = "misses" /\ scan'.pc = "threshold" /\ scan'.todo = scan.todo
        /\ scan'.key = scan.key
        /\ \A k : InHot(k)' <=> InHot(k)
    BY <1>1, <1>6 DEF GetMisses, GetMissesFails, Scans, ScanType, InHot
  <2>2. CASE GetMisses
    <3>1. scan'.misses = Misses(scan.key) /\ scan'.hits = scan.hits
      BY <1>1, <2>2 DEF GetMisses, Scans, ScanType
    <3>2. \A k \in steady' : WillBeFound(k)'
      BY <1>1, <1>2, <2>1, <3>1 DEF WillBeFound
    <3>3. \A k \in cool' : scan'.key = k => 2 * scan'.misses <= threshold[k]
      BY <1>1, <1>2, <2>1, <3>1 DEF SeldomMissed, Misses
    <3> QED
      BY <1>2, <2>1, <3>2, <3>3
  <2>3. CASE GetMissesFails
    <3>1. scan.key \in scan'.unread
      BY <1>1, <2>3 DEF GetMissesFails, Scans, ScanType
    <3> QED
      BY <1>2, <2>1, <3>1 DEF WillBeFound
  <2> QED
    BY <1>6, <2>2, <2>3
<1>7. ASSUME NEW t \in {threshold[scan.key], Default}, NEW unread,
             unread = (IF t = threshold[scan.key] THEN {} ELSE {scan.key}) \/ unread = {scan.key},
             Judge(t, unread)
      PROVE  /\ \A k \in cool' : ~InHot(k)' /\ scan'.pc # "threshold"
             /\ \A k \in steady' : WillBeFound(k)'
  <2>1. /\ scan.pc = "threshold" /\ scan'.unread = unread
        /\ scan'.pc \in {"none", "hits"}
        /\ \A k : InHot(k)' <=>
             InHot(k) \/ (k = scan.key /\ IsHot(scan.hits, scan.misses, t))
        /\ \A c \in scan.todo : c[1] # scan.key \/ ~IsHot(scan.hits, scan.misses, t) =>
             c \in scan'.todo
    BY <1>7, JudgeEffect
  <2>2. \A k : k = scan.key /\ k \notin scan'.unread => t = threshold[k]
    BY <1>7, <2>1
  <2>3. ASSUME NEW k \in cool' PROVE ~(k = scan.key /\ IsHot(scan.hits, scan.misses, t))
    <3>1. k = scan.key => 2 * scan.misses <= threshold[k] /\ t = threshold[k]
      BY <1>2, <2>1, <2>2, <2>3 DEF CoolInv
    <3> QED
      BY <1>2, <1>3, <2>3, <3>1 DEF IsHot
  <2>4. ASSUME NEW k \in steady' PROVE WillBeFound(k)'
    BY <1>2, <2>1, <2>2, <2>4 DEF WillBeFound
  <2> QED
    BY <1>2, <2>1, <2>3, <2>4
<1>8. CASE GetThreshold \/ GetThresholdFails
  BY <1>7, <1>8 DEF GetThreshold, GetThresholdFails
<1> QED
  BY <1>4, <1>5, <1>6, <1>8 DEF ScanStep

LEMMA NextFinds == TypeOK /\ CoolInv /\ SteadyInv /\ [Next]_vars => CoolInv' /\ SteadyInv'
<1> SUFFICES ASSUME TypeOK, CoolInv, SteadyInv, [Next]_vars PROVE CoolInv' /\ SteadyInv'
  OBVIOUS
<1>1. CASE Next
  BY <1>1, StartFinds, ScanFinds, OthersFind, ScanAlone DEF Next
<1>2. CASE UNCHANGED vars
  BY <1>2 DEF vars, redisVars, taskVars, scanVars, historyVars, CoolInv, SteadyInv, WillBeFound,
              InHot, Hits, Misses, SeldomMissed
<1> QED
  BY <1>1, <1>2

LEMMA InitFinds == Init => CoolInv /\ SteadyInv
BY DEF Init, CoolInv, SteadyInv

\* A scan finds every key that was hot all through it and that it could read.
THEOREM ScansAreComplete == Spec => []HotKeysAreFound
<1>1. TypeOK /\ HotAreDone /\ SteadyInv => HotKeysAreFound
  BY DEF HotAreDone, SteadyInv, WillBeFound, InHot, HotKeysAreFound
<1> QED
  BY <1>1, InitType, NextType, InitFinds, NextFinds, PTL DEF Spec

\* A scan finds no key whose misses were too few all through it.
THEOREM ScansAreSound == Spec => []SeldomMissedAreNot
<1>1. CoolInv => SeldomMissedAreNot
  BY DEF CoolInv, InHot, SeldomMissedAreNot
<1> QED
  BY <1>1, InitType, NextType, InitFinds, NextFinds, PTL DEF Spec
-----------------------------------------------------------------------------
(* A key that is forgotten stays so. *)

\* The key is not hot, nor can what Redis holds, what is on its way there and what the
\* scan has read make it so: it has no misses.
Forgotten(k) ==
    /\ Misses(k) = 0
    /\ \A a \in Accesses : access[a].pc = "incrBy" => access[a].counter # <<k, "miss">>
    /\ scan.pc = "threshold" /\ scan.key = k => scan.misses = 0
    /\ ~InHot(k)

\* A key that is forgotten becomes hot by new misses only: not by hits, a lower threshold,
\* a reset that fails half-way, another key's misses, or a scan whose reads fail.
\* ColdKeysAreForgotten adds that a key that is no longer accessed is forgotten some time.
StaysForgotten ==
    [][\A k \in Keys :
         (\A a \in Accesses : ~TrackAccess(a, <<k, "miss">>)) /\ Forgotten(k) => Forgotten(k)']_vars

\* Only INCRBY makes a counter.
LEMMA NoMisses ==
    ASSUME TypeOK, Step, NEW k \in Keys, Forgotten(k)
    PROVE  Misses(k)' = 0
<1> DEFINE m == <<k, "miss">>
<1>1. m \in Counters /\ count[m] = 0
  BY DEF Counters, Forgotten, Misses
<1>2. ASSUME NEW cs, Vanish(cs) PROVE count'[m] = 0
  BY <1>1, <1>2 DEF Vanish
<1>3. ASSUME NEW a \in Accesses, IncrBy(a) PROVE count'[m] = 0
  <2>1. access[a].counter # m
    BY <1>3 DEF IncrBy, Forgotten
  <2> HIDE DEF m
  <2> QED
    BY <1>1, <1>3, <2>1 DEF IncrBy, TypeOK
<1> HIDE DEF m
<1>4. count'[m] = 0
  BY <1>1, <1>2, <1>3
     DEF Step, Tick, TrackStep, TrackAccess, Expire, AccessFails, ResetStats, ResetMisses, Delete,
         SetThreshold, GetHotCacheKeys, ScanStep, ListKeys, ListFails, GetHits, GetHitsFails,
         GetMisses, GetMissesFails, GetThreshold, GetThresholdFails, Judge, Scans, redisVars
<1> QED
  BY <1>4 DEF m, Misses

LEMMA NoMissOnItsWay ==
    ASSUME TypeOK, Step, NEW k \in Keys, Forgotten(k), NEW a \in Accesses,
           \A b \in Accesses : ~TrackAccess(b, <<k, "miss">>), access'[a].pc = "incrBy"
    PROVE  access'[a].counter # <<k, "miss">>
<1>1. access \in [Accesses -> AccessType]
  BY DEF TypeOK
<1>2. CASE access'[a] = access[a]
  BY <1>2 DEF Forgotten
<1>3. ASSUME NEW b \in Accesses, TrackStep(b) PROVE access'[a] = access[a]
  <2>1. CASE a = b
    <3>1. access'[a].pc # "incrBy"
      BY <1>1, <1>3, <2>1 DEF TrackStep, IncrBy, Expire, AccessFails, AccessType
    <3> QED
      BY <3>1
  <2>2. CASE a # b
    BY <1>1, <1>3, <2>2 DEF TrackStep, IncrBy, Expire, AccessFails
  <2> QED
    BY <2>1, <2>2
<1>4. ASSUME NEW b \in Accesses, NEW c \in Counters, TrackAccess(b, c)
      PROVE  access'[a] = access[a] \/ access'[a].counter # <<k, "miss">>
  <2>1. c # <<k, "miss">>
    BY <1>4
  <2>2. access' = [access EXCEPT ![b] = [pc |-> "incrBy", counter |-> c]]
    BY <1>4 DEF TrackAccess
  <2>3. CASE a = b
    BY <1>1, <2>1, <2>2, <2>3
  <2>4. CASE a # b
    BY <1>1, <2>2, <2>4
  <2> QED
    BY <2>3, <2>4
<1>5. CASE UNCHANGED access
  BY <1>2, <1>5
<1> QED
  BY <1>2, <1>3, <1>4, <1>5
     DEF Step, Tick, ResetStats, ResetMisses, Delete, SetThreshold, GetHotCacheKeys, ScanStep,
         ListKeys, ListFails, GetHits, GetHitsFails, GetMisses, GetMissesFails, GetThreshold,
         GetThresholdFails, Judge, Scans, taskVars

LEMMA NotFoundAgain ==
    ASSUME TypeOK, ScanStep \/ GetHotCacheKeys, NEW k \in Keys, Forgotten(k)
    PROVE  /\ ~InHot(k)'
           /\ scan'.pc = "threshold" /\ scan'.key = k => scan'.misses = 0
<1>1. scan \in ScanType /\ Misses(k) = 0 /\ ~InHot(k)
  BY DEF TypeOK, Forgotten
<1>2. CASE GetHotCacheKeys
  BY <1>2 DEF GetHotCacheKeys, Scans, Between, InHot
<1>3. CASE ListKeys \/ ListFails
  BY <1>1, <1>3 DEF ListKeys, ListFails, Scans, Between, InHot
<1>4. ASSUME NEW c \in Counters, GetHits(c) \/ GetHitsFails(c)
      PROVE  hot' = hot /\ (scan'.pc = "threshold" => scan'.misses = 0)
  BY <1>1, <1>4 DEF GetHits, GetHitsFails, Scans, ScanType
<1>5. CASE GetMisses \/ GetMissesFails
  <2>1. hot' = hot /\ scan'.key = scan.key /\ scan'.misses \in {0, Misses(scan.key)}
    BY <1>1, <1>5 DEF GetMisses, GetMissesFails, Scans, ScanType
  <2> QED
    BY <1>1, <2>1 DEF InHot
<1>6. ASSUME NEW t, NEW unread, Judge(t, unread)
      PROVE  ~InHot(k)' /\ scan'.pc # "threshold"
  <2>1. /\ scan.pc = "threshold" /\ scan'.pc \in {"none", "hits"}
        /\ InHot(k)' <=> InHot(k) \/ (k = scan.key /\ IsHot(scan.hits, scan.misses, t))
    BY <1>6, JudgeEffect
  <2>2. k = scan.key => scan.misses = 0
    BY <2>1 DEF Forgotten
  <2>3. scan.hits \in Nat
    BY <1>1, HitTrackerAssumption DEF ScanType
  <2>4. k = scan.key => ~IsHot(scan.hits, scan.misses, t)
    BY <2>2, <2>3 DEF IsHot
  <2> QED
    BY <1>1, <2>1, <2>4
<1> QED
  BY <1>1, <1>2, <1>3, <1>4, <1>5, <1>6 DEF ScanStep, GetThreshold, GetThresholdFails, InHot

\* getHotCacheKeys does not list a key again whose misses have expired or were reset,
\* until trackAccess is called for a miss of it.
THEOREM ForgottenStaysForgotten == Spec => StaysForgotten
<1>1. ASSUME TypeOK, Next, NEW k \in Keys, Forgotten(k),
             \A a \in Accesses : ~TrackAccess(a, <<k, "miss">>)
      PROVE  Forgotten(k)'
  <2>1. /\ ~InHot(k)'
        /\ scan'.pc = "threshold" /\ scan'.key = k => scan'.misses = 0
    <3>1. CASE ScanStep \/ GetHotCacheKeys
      BY <1>1, <3>1, NotFoundAgain
    <3>2. CASE UNCHANGED scanVars
      BY <1>1, <3>2 DEF Forgotten, InHot, scanVars
    <3> QED
      BY <1>1, <3>1, <3>2, ScanAlone DEF Next
  <2> QED
    BY <1>1, <2>1, NoMisses, NoMissOnItsWay DEF Forgotten, Next
<1>2. TypeOK /\ [Next]_vars =>
        [\A k \in Keys :
           (\A a \in Accesses : ~TrackAccess(a, <<k, "miss">>)) /\ Forgotten(k) =>
             Forgotten(k)']_vars
  BY <1>1
<1> QED
  BY <1>2, InitType, NextType, PTL DEF Spec, StaysForgotten

-----------------------------------------------------------------------------
(* Every scan comes to its end. *)

Rank(pc) == CASE pc = "misses" -> 3 [] pc = "threshold" -> 2 [] pc = "hits" -> 1 [] OTHER -> 0

\* The keys are listed; or fewer counters are left to be read; or the reading of the key
\* in hand has advanced.
Nearer(old, new) ==
    \/ new.pc = "none"
    \/ old.pc = "keys" /\ new.pc = "hits"
    \/ /\ old.pc # "keys" /\ new.pc # "keys"
       /\ \/ new.todo \subseteq old.todo /\ new.todo # old.todo
          \/ new.todo = old.todo /\ Rank(new.pc) < Rank(old.pc)

\* Whatever it reads, and whichever reads fail, each step of a scan brings it nearer to
\* its end, and nothing else moves it: no access, reset or threshold sends it back.
\* That fair scanning ends is part of what ColdKeysAreForgotten rests on.
ScanRunsDown ==
    [][/\ ScanStep => Nearer(scan, scan')
       /\ scan.pc # "none" => scan' = scan \/ Nearer(scan, scan')]_vars

LEMMA ScanStepNearer ==
    ASSUME TypeOK, ScanStep
    PROVE  Nearer(scan, scan')
<1>1. scan \in ScanType
  BY DEF TypeOK
<1>2. CASE ListKeys \/ ListFails
  BY <1>2 DEF ListKeys, ListFails, Scans, Between, Nearer
<1>3. ASSUME NEW c \in Counters, GetHits(c) \/ GetHitsFails(c) PROVE Nearer(scan, scan')
  <2>1. /\ scan.pc = "hits" /\ scan'.pc \in {"misses", "threshold"}
        /\ c \in scan.todo /\ scan'.todo = scan.todo \ {c}
    BY <1>1, <1>3 DEF GetHits, GetHitsFails, Scans, ScanType
  <2> QED
    BY <2>1 DEF Nearer
<1>4. CASE GetMisses \/ GetMissesFails
  <2>1. scan.pc = "misses" /\ scan'.pc = "threshold" /\ scan'.todo = scan.todo
    BY <1>1, <1>4 DEF GetMisses, GetMissesFails, Scans, ScanType
  <2>2. Rank(scan'.pc) < Rank(scan.pc)
    BY <2>1 DEF Rank
  <2> QED
    BY <2>1, <2>2 DEF Nearer
<1>5. ASSUME NEW t, NEW unread, Judge(t, unread) PROVE Nearer(scan, scan')
  <2>1. /\ scan.pc = "threshold" /\ scan'.pc \in {"none", "hits"}
        /\ scan'.todo \subseteq scan.todo
    BY <1>5 DEF Judge, Scans, Between
  <2>2. scan'.pc = "hits" => Rank(scan'.pc) < Rank(scan.pc)
    BY <2>1 DEF Rank
  <2> QED
    BY <2>1, <2>2 DEF Nearer
<1> QED
  BY <1>2, <1>3, <1>4, <1>5 DEF ScanStep, GetThreshold, GetThresholdFails

\* The loop of getHotCacheKeys takes a bounded number of steps.
THEOREM ScansEnd == Spec => ScanRunsDown
<1>1. ASSUME TypeOK, Next, scan.pc # "none"
      PROVE  scan' = scan \/ Nearer(scan, scan')
  <2>1. ~GetHotCacheKeys
    BY <1>1 DEF GetHotCacheKeys, Scans
  <2> QED
    BY <1>1, <2>1, ScanStepNearer, ScanAlone DEF Next, scanVars
<1>2. TypeOK /\ [Next]_vars =>
        [/\ ScanStep => Nearer(scan, scan')
         /\ scan.pc # "none" => scan' = scan \/ Nearer(scan, scan')]_vars
  BY <1>1, ScanStepNearer
<1> QED
  BY <1>2, InitType, NextType, PTL DEF Spec, ScanRunsDown
=============================================================================
