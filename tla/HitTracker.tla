----------------------------- MODULE HitTracker -----------------------------
(***************************************************************************)
(* CacheHitTrackerService: for each cache key Redis keeps a counter of     *)
(* hits and one of misses, which accesses increment and renew; a scan      *)
(* reads them one command at a time and lists the keys that are hot.       *)
(*                                                                         *)
(* Any command may be rejected, and one that was executed may lose its     *)
(* answer.  Redis is read and written through one server.                  *)
(***************************************************************************)
EXTENDS Naturals, Sequences, FiniteSets

CONSTANTS
    Keys,        \* cache keys
    Accesses,    \* calls of trackAccess in flight
    Window,      \* windowSeconds, in ticks
    Thresholds,  \* what setThreshold is called with
    Default,     \* defaultThreshold
    MaxCount     \* bound: what a counter counts to

ASSUME HitTrackerAssumption ==
    /\ Window \in Nat \ {0}
    /\ Thresholds \subseteq Nat /\ Default \in Nat
    /\ MaxCount \in Nat

VARIABLES
    count,      \* what each counter holds; a counter of 0 does not exist
    left,       \* ticks until a counter expires; Forever has no expiry
    threshold,  \* the threshold of each key, or Default
    access,     \* the calls of trackAccess
    resetting,  \* the keys of whose counters resetStats has yet to delete the second
    scan,       \* where getHotCacheKeys stands
    hot,        \* the hot keys it has found
    lost,       \* history: the counters whose last EXPIRE was never sent
    steady,     \* history: the keys that were hot all through the scan
    cool        \* history: those too seldom missed to be hot, all through it

redisVars == <<count, left, threshold>>
taskVars == <<access, resetting>>
scanVars == <<scan, hot>>
historyVars == <<lost, steady, cool>>
vars == <<redisVars, taskVars, scanVars, historyVars>>

Counters == Keys \X {"hit", "miss"}
Hits(k) == count[<<k, "hit">>]
Misses(k) == count[<<k, "miss">>]
Forever == Window + 1

\* A call of trackAccess: pc "none", or the command it awaits.
AccessType == [pc : {"none"}] \cup [pc : {"incrBy", "expire"}, counter : Counters]

\* A scan: the command it awaits, the counters that KEYS has listed and whose key it
\* has yet to read, the key in hand and what it has read of it; unread: the keys that
\* it has just failed to read.
ScanType ==
    [pc : {"none", "keys", "hits", "misses", "threshold"}, todo : SUBSET Counters,
     key : Keys \cup {"none"}, hits : 0 .. MaxCount, misses : 0 .. MaxCount,
     unread : SUBSET Keys]

TypeOK ==
    /\ count \in [Counters -> 0 .. MaxCount]
    /\ left \in [Counters -> 0 .. Forever]
    /\ \A c \in Counters : left[c] = 0 <=> count[c] = 0
    /\ threshold \in [Keys -> Thresholds \cup {Default}]
    /\ access \in [Accesses -> AccessType]
    /\ resetting \subseteq Keys
    /\ scan \in ScanType
    /\ scan.pc \in {"misses", "threshold"} => scan.key \in Keys
    \* What prewarmByCacheKey is called for: no key twice.
    /\ hot \in Seq(Keys)
    /\ \A i, j \in DOMAIN hot : hot[i] = hot[j] => i = j
    /\ lost \subseteq Counters /\ steady \subseteq Keys /\ cool \subseteq Keys

\* A scan with no key in hand.
Between(pc, todo, unread) ==
    [pc |-> pc, todo |-> todo, key |-> "none", hits |-> 0, misses |-> 0, unread |-> unread]

Init ==
    /\ count = [c \in Counters |-> 0]
    /\ left = [c \in Counters |-> 0]
    /\ threshold = [k \in Keys |-> Default]
    /\ access = [a \in Accesses |-> [pc |-> "none"]]
    /\ resetting = {}
    /\ scan = Between("none", {}, {})
    /\ hot = <<>>
    /\ lost = {} /\ steady = {} /\ cool = {}

-----------------------------------------------------------------------------
(* The counters. *)

\* The counters that vanish are nobody's fault any more.
Vanish(cs) ==
    /\ count' = [c \in Counters |-> IF c \in cs THEN 0 ELSE count[c]]
    /\ lost' = lost \ cs

\* A tick of the clock: what has no tick left expires.
Tick ==
    /\ left' = [c \in Counters |-> IF left[c] \in {0, Forever} THEN left[c] ELSE left[c] - 1]
    /\ Vanish({c \in Counters : left[c] = 1})
    /\ UNCHANGED <<threshold, taskVars, scanVars>>

TrackAccess(a, c) ==
    /\ access[a].pc = "none"
    /\ access' = [access EXCEPT ![a] = [pc |-> "incrBy", counter |-> c]]
    /\ UNCHANGED <<redisVars, resetting, scanVars, lost>>

\* INCRBY makes a counter that does not exist, without expiry.
IncrBy(a) ==
    /\ access[a].pc = "incrBy"
    /\ LET c == access[a].counter IN
       /\ count[c] < MaxCount  \* bound
       /\ count' = [count EXCEPT ![c] = @ + 1]
       /\ left' = [left EXCEPT ![c] = IF count[c] = 0 THEN Forever ELSE @]
    /\ access' = [access EXCEPT ![a].pc = "expire"]
    /\ UNCHANGED <<threshold, resetting, scanVars, lost>>

\* Mutant of Expire: it is always sent for the counter of hits.
ExpireHits(a) ==
    /\ access[a].pc = "expire"
    /\ LET c == <<access[a].counter[1], "hit">> IN
       /\ left' = [left EXCEPT ![c] = IF count[c] = 0 THEN 0 ELSE Window]
       /\ lost' = lost \ {c}
    /\ access' = [access EXCEPT ![a] = [pc |-> "none"]]
    /\ UNCHANGED <<count, threshold, resetting, scanVars>>

\* EXPIRE does nothing to a counter that is gone.
Expire(a) ==
    /\ access[a].pc = "expire"
    /\ LET c == access[a].counter IN
       /\ left' = [left EXCEPT ![c] = IF count[c] = 0 THEN 0 ELSE Window]
       /\ lost' = lost \ {c}
    /\ access' = [access EXCEPT ![a] = [pc |-> "none"]]
    /\ UNCHANGED <<count, threshold, resetting, scanVars>>

\* The access is given up: INCRBY is rejected, its answer is lost, or EXPIRE is.
AccessFails(a) ==
    /\ access[a].pc # "none"
    /\ lost' = IF access[a].pc = "expire" /\ count[access[a].counter] > 0
               THEN lost \cup {access[a].counter} ELSE lost
    /\ access' = [access EXCEPT ![a] = [pc |-> "none"]]
    /\ UNCHANGED <<redisVars, resetting, scanVars>>

\* setThreshold, and the end of its 24 hours.
SetThreshold(k, t) ==
    /\ t # threshold[k]
    /\ threshold' = [threshold EXCEPT ![k] = t]
    /\ UNCHANGED <<count, left, taskVars, scanVars, lost>>

Delete(c) ==
    /\ left' = [left EXCEPT ![c] = 0]
    /\ Vanish({c})
    /\ UNCHANGED <<threshold, access, scanVars>>

\* resetStats: the hits are deleted, then the misses unless that fails.
ResetStats(k) ==
    /\ k \notin resetting
    /\ Delete(<<k, "hit">>)
    /\ resetting' = resetting \cup {k}

ResetMisses(k) ==
    /\ k \in resetting
    /\ resetting' = resetting \ {k}
    /\ \/ Delete(<<k, "miss">>)
       \/ UNCHANGED <<redisVars, access, scanVars, lost>>

-----------------------------------------------------------------------------
(* getHotCacheKeys. *)

Scans(from, new) ==
    /\ scan.pc = from
    /\ scan' = new
    /\ UNCHANGED <<redisVars, taskVars, lost>>

\* Mutant of GetHotCacheKeys: the list is never emptied.
KeepHotKeys ==
    /\ Scans("none", Between("keys", {}, {}))
    /\ UNCHANGED hot

GetHotCacheKeys ==
    /\ Scans("none", Between("keys", {}, {}))
    /\ hot' = <<>>

\* Mutant of ListKeys: the counters of misses are not listed.
ListHits ==
    /\ LET listed == {c \in Counters : count[c] > 0 /\ c[2] = "hit"} IN
       Scans("keys", Between(IF listed = {} THEN "none" ELSE "hits", listed, {}))
    /\ UNCHANGED hot

\* KEYS lists the counters that exist, in whatever order.
ListKeys ==
    /\ LET listed == {c \in Counters : count[c] > 0} IN
       Scans("keys", Between(IF listed = {} THEN "none" ELSE "hits", listed, {}))
    /\ UNCHANGED hot

\* The scan is over, with no key.
ListFails ==
    /\ Scans("keys", Between("none", {}, Keys))
    /\ UNCHANGED hot

\* getCacheStats of the next counter's key.
GetHits(c) ==
    /\ c \in scan.todo
    /\ Scans("hits", [scan EXCEPT !.pc = "misses", !.todo = @ \ {c}, !.key = c[1],
                                  !.hits = Hits(c[1]), !.unread = {}])
    /\ UNCHANGED hot

GetMisses ==
    /\ Scans("misses", [scan EXCEPT !.pc = "threshold", !.misses = Misses(scan.key),
                                    !.unread = {}])
    /\ UNCHANGED hot

\* Either read fails: no hits and no misses.
GetHitsFails(c) ==
    /\ c \in scan.todo
    /\ Scans("hits", [scan EXCEPT !.pc = "threshold", !.todo = @ \ {c}, !.key = c[1], !.hits = 0,
                                  !.misses = 0, !.unread = {c[1]}])
    /\ UNCHANGED hot

GetMissesFails ==
    /\ Scans("misses", [scan EXCEPT !.pc = "threshold", !.hits = 0, !.misses = 0,
                                    !.unread = {scan.key}])
    /\ UNCHANGED hot

\* Mutant of IsHot: the rate is not compared.
IsBusy(hits, misses, t) == hits + misses > t

\* needsPrewarming: less than half the accesses hit, and they are more than t.
IsHot(hits, misses, t) == hits < misses /\ hits + misses > t

\* Mutant of Judge: what has been found hot is read again.
JudgeAgain(t, unread) ==
    LET isHot == IsHot(scan.hits, scan.misses, t) IN
    /\ Scans("threshold", Between(IF scan.todo = {} THEN "none" ELSE "hits", scan.todo, unread))
    /\ hot' = IF isHot THEN Append(hot, scan.key) ELSE hot

\* The key in hand is judged; the counters of keys found hot are skipped.
Judge(t, unread) ==
    LET isHot == IsHot(scan.hits, scan.misses, t)
        todo == IF isHot THEN {c \in scan.todo : c[1] # scan.key} ELSE scan.todo
    IN  /\ Scans("threshold", Between(IF todo = {} THEN "none" ELSE "hits", todo, unread))
        /\ hot' = IF isHot THEN Append(hot, scan.key) ELSE hot

GetThreshold == Judge(threshold[scan.key], {})

\* Without an answer, the default.
GetThresholdFails == Judge(Default, {scan.key})

ScanStep ==
    \/ ListKeys \/ ListFails
    \/ \E c \in Counters : GetHits(c) \/ GetHitsFails(c)
    \/ GetMisses \/ GetMissesFails \/ GetThreshold \/ GetThresholdFails

-----------------------------------------------------------------------------
TrackStep(a) == IncrBy(a) \/ Expire(a) \/ AccessFails(a)

Step ==
    \/ Tick
    \/ \E a \in Accesses : TrackStep(a) \/ \E c \in Counters : TrackAccess(a, c)
    \/ \E k \in Keys :
         \/ ResetStats(k) \/ ResetMisses(k)
         \/ \E t \in Thresholds \cup {Default} : SetThreshold(k, t)
    \/ GetHotCacheKeys
    \/ ScanStep

\* So seldom missed that no number of hits makes it hot.
SeldomMissed(k) == 2 * Misses(k) <= threshold[k]

\* While a scan lasts, the keys that it has been able to read, that keep their
\* threshold, and that stay what they are.
Watched(was, keeps) ==
    IF scan.pc = "none" /\ scan'.pc = "none" THEN was
    ELSE {k \in keeps : /\ k \notin scan'.unread
                        /\ scan.pc # "none" => k \in was /\ threshold'[k] = threshold[k]}

History ==
    /\ steady' = Watched(steady, {k \in Keys : IsHot(Hits(k)', Misses(k)', threshold'[k])})
    /\ cool' = Watched(cool, {k \in Keys : SeldomMissed(k)'})

Next == Step /\ History

Spec == Init /\ [][Next]_vars

\* Time passes, commands settle, and the cron job goes on scanning.
Fairness ==
    /\ WF_vars(Tick /\ History)
    /\ \A a \in Accesses : WF_vars(TrackStep(a) /\ History)
    /\ WF_vars(GetHotCacheKeys /\ History)
    /\ WF_vars(ScanStep /\ History)

FairSpec == Spec /\ Fairness

-----------------------------------------------------------------------------
(* Properties. *)

\* A counter that does not expire is one that an access is about to renew, or whose
\* last renewal was lost: however INCRBY, EXPIRE, DEL and the end of the window
\* interleave, no counter lives for ever otherwise.
ImmortalOnlyByLoss ==
    \A c \in Counters : left[c] = Forever =>
      \/ c \in lost
      \/ \E a \in Accesses : access[a].pc = "expire" /\ access[a].counter = c

\* A scan finds every key that is hot as long as it lasts, though it reads hits,
\* misses and threshold one after the other while accesses go on.
HotKeysAreFound ==
    scan.pc = "none" => \A k \in steady : \E i \in DOMAIN hot : hot[i] = k

\* A scan finds no key that is too seldom missed as long as it lasts: whatever hits
\* and misses of different moments it adds up, it takes misses to be hot.
SeldomMissedAreNot ==
    \A i \in DOMAIN hot : hot[i] \notin cool

\* A key that is no longer accessed is some time no longer hot, unless an EXPIRE was
\* lost.
ColdKeysAreForgotten ==
    \A k \in Keys :
      <>[](/\ \A a \in Accesses : access[a].pc = "none" \/ access[a].counter[1] # k
           /\ {<<k, "hit">>, <<k, "miss">>} \cap lost = {}) =>
        <>[](\A i \in DOMAIN hot : hot[i] # k)
=============================================================================
