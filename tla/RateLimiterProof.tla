-------------------------- MODULE RateLimiterProof --------------------------
(***************************************************************************)
(* RateLimiter for any clients, limits, window and grace, and any number of*)
(* calls, lost replies and commands given up. In Redis what is admitted is *)
(* remembered as long as it counts, for every command that is executed     *)
(* within the grace of its stamp, and therefore the limit holds for those; *)
(* so it does in the memory of the fallback. Nothing else counts but what  *)
(* lost replies have left behind, and a denial names a time at which there *)
(* is room.                                                                *)
(***************************************************************************)
EXTENDS RateLimiter, SequenceTheorems, FiniteSetTheorems, TLAPS

Fields == {"phase", "via", "stamp", "resetAt", "late"}

\* The types the argument about Redis needs: the memory of the fallback plays no part in it.
TypesOK ==
    /\ clock \in 0 .. MaxClock
    /\ pipe \in Seq(Requests)
    /\ zset \in [Keys -> SUBSET (0 .. MaxClock)]
    /\ expiresAt \in [Keys -> Nat]
    /\ DOMAIN request = Requests
    /\ \A r \in Requests : DOMAIN request[r] = Fields /\ request[r].stamp \in 0 .. MaxClock

\* The commands in the pipe are of requests that wait, each one once and in the
\* order of their stamps.
WaitsInv ==
    /\ \A i, j \in DOMAIN pipe : pipe[i] = pipe[j] => i = j
    /\ \A i \in DOMAIN pipe :
         request[pipe[i]].phase = "sent" /\ request[pipe[i]].stamp <= clock
    /\ \A i, j \in DOMAIN pipe : i < j => request[pipe[i]].stamp <= request[pipe[j]].stamp

\* The stamps at which the script may yet be executed, but for those to come.
MayBeNow(n) == n = clock \/ \E i \in DOMAIN pipe : n = request[pipe[i]].stamp

RedisAdmitted(rq) == rq.phase = "admitted" /\ rq.via = "redis"

\* An admission is in its sorted set as long as it is in a window that such a stamp
\* ends, a stamp no older than the grace, and its key lives at least until the end of
\* its own window and the grace.
RememberedInv ==
    \A r \in Requests : RedisAdmitted(request[r]) =>
      /\ Kind[r] \in {"check", "endpoint"}
      /\ request[r].stamp <= clock
      /\ request[r].stamp + Window + Grace <= expiresAt[KeyOf(r)]
      /\ \A n \in Nat : MayBeNow(n) /\ n < request[r].stamp + Window /\ clock <= n + Grace
                          => request[r].stamp \in zset[KeyOf(r)]

LimiterInv == TypesOK /\ WaitsInv /\ RememberedInv /\ RedisWindowLimit

Numbers == /\ Window \in Nat /\ Window > 0
           /\ Grace \in Nat /\ MaxClock \in Nat /\ MaxLostReplies \in Nat

LEMMA Constants ==
    /\ Numbers
    /\ \A c \in Clients : LimitOf(c) \in Nat
    /\ \A r \in Requests : KeyOf(r) \in Keys /\ ClientOf[r] \in Clients
                           /\ KeyOf(r)[1] = ClientOf[r]
<1>1. Numbers
  BY LimiterAssumption DEF Numbers
<1>2. \A c \in Clients : LimitOf(c) \in Nat
  BY LimiterAssumption DEF LimitOf
<1>3. \A r \in Requests : KeyOf(r) \in Keys /\ ClientOf[r] \in Clients
                          /\ KeyOf(r)[1] = ClientOf[r]
  BY LimiterAssumption DEF KeyOf, Keys
<1> QED
  BY <1>1, <1>2, <1>3

LEMMA StampRange == IsFiniteSet(0 .. MaxClock)
<1>1. 0 \in Int /\ MaxClock \in Int
  BY Constants DEF Numbers
<1> QED
  BY <1>1, FS_Interval

LEMMA InitLimiter == Init => LimiterInv
<1> SUFFICES ASSUME Init PROVE LimiterInv
  OBVIOUS
<1>1. TypesOK
  BY Constants, EmptySeq DEF Init, TypesOK, Fields, Numbers
<1>2. WaitsInv /\ RememberedInv
  BY EmptySeq DEF Init, WaitsInv, RememberedInv, RedisAdmitted
<1>3. RedisWindowLimit
  <2>1. \A t \in 0 .. MaxClock : Admitted("redis", t) = {}
    BY DEF Init, Admitted
  <2>2. ASSUME NEW k \in Keys, NEW t \in 0 .. MaxClock
        PROVE  Cardinality({request[r].stamp : r \in {q \in Admitted("redis", t) : KeyOf(q) = k}})
                 <= LimitOf(k[1])
    <3>1. {request[r].stamp : r \in {q \in Admitted("redis", t) : KeyOf(q) = k}} = {}
      BY <2>1
    <3>2. Cardinality({}) = 0 /\ LimitOf(k[1]) \in Nat
      BY FS_EmptySet, Constants DEF Keys
    <3> QED
      BY <3>1, <3>2
  <2> QED
    BY <2>2 DEF RedisWindowLimit
<1> QED
  BY <1>1, <1>2, <1>3 DEF LimiterInv

-----------------------------------------------------------------------------
(* What a step does to the requests and to the pipe. *)

\* An admission that the step leaves as it was.
Kept(q) ==
    /\ RedisAdmitted(request[q])
    /\ request'[q].stamp = request[q].stamp /\ request'[q].late = request[q].late

\* A request that the step is not about: it may only lose its admission.
Spared(q) ==
    /\ DOMAIN request'[q] = Fields
    /\ request'[q].stamp = request[q].stamp /\ request'[q].late = request[q].late
    /\ request[q].phase = "sent" => request'[q].phase = "sent"
    /\ RedisAdmitted(request'[q]) => RedisAdmitted(request[q])

\* A request that a step ends, or that goes on, without an admission by Redis.
NotAdmitted(r) ==
    /\ DOMAIN request'[r] = Fields
    /\ request'[r].stamp \in 0 .. MaxClock
    /\ ~RedisAdmitted(request'[r])

SparesOthers(r) ==
    DOMAIN request' = Requests /\ \A q \in Requests \ {r} : Spared(q)

LEMMA ForgivenSpares ==
    ASSUME TypesOK, NEW r \in Requests, NEW paths
    PROVE  /\ request' = Forgiven(r, paths)
                => DOMAIN request' = Requests /\ \A q \in Requests : Spared(q)
           /\ request' = [Forgiven(r, paths) EXCEPT ![r].phase = "done"]
                => SparesOthers(r) /\ NotAdmitted(r)
<1> DEFINE after == Forgiven(r, paths)
<1>1. /\ DOMAIN after = Requests
      /\ \A q \in Requests : after[q] = request[q] \/ (request[q].phase = "admitted"
                                  /\ after[q] = [request[q] EXCEPT !.phase = "forgiven"])
  BY DEF Forgiven
<1>2. \A q \in Requests : DOMAIN request[q] = Fields /\ request[q].stamp \in 0 .. MaxClock
  BY DEF TypesOK
<1> HIDE DEF after
<1>3. ASSUME NEW q \in Requests, request'[q] = after[q] PROVE Spared(q)
  BY <1>1, <1>2, <1>3 DEF Spared, RedisAdmitted, Fields
<1>4. ASSUME request' = [after EXCEPT ![r].phase = "done"]
      PROVE  SparesOthers(r) /\ NotAdmitted(r)
  <2>1. /\ DOMAIN request' = Requests
        /\ \A q \in Requests \ {r} : request'[q] = after[q]
        /\ request'[r] = [after[r] EXCEPT !.phase = "done"]
    BY <1>1, <1>4
  <2>2. DOMAIN after[r] = Fields /\ after[r].stamp \in 0 .. MaxClock
    BY <1>1, <1>2 DEF Fields
  <2> QED
    BY <1>3, <2>1, <2>2 DEF SparesOthers, NotAdmitted, RedisAdmitted, Fields
<1>5. request' = after => DOMAIN request' = Requests /\ \A q \in Requests : Spared(q)
  BY <1>1, <1>3
<1> QED
  BY <1>4, <1>5 DEF after

\* A step that only replaces the record of r.
LEMMA OneRequest ==
    ASSUME TypesOK, NEW r \in Requests, NEW new, request' = [request EXCEPT ![r] = new]
    PROVE  SparesOthers(r) /\ request'[r] = new
<1>1. DOMAIN request' = Requests /\ request'[r] = new
      /\ \A q \in Requests \ {r} : request'[q] = request[q]
  BY DEF TypesOK
<1>2. ASSUME NEW q \in Requests \ {r} PROVE Spared(q)
  BY <1>1 DEF Spared, RedisAdmitted, TypesOK
<1> QED
  BY <1>1, <1>2 DEF SparesOthers

LEMMA FallBackSpares ==
    ASSUME TypesOK, NEW r \in Requests, FallBack(r)
    PROVE  SparesOthers(r) /\ NotAdmitted(r)
<1>1. CASE CheckInMemory(r)
  <2> DEFINE live == InWindow(store[ClientOf[r]], clock)
             full == Cardinality(live) >= DefaultLimit
             new == [phase |-> IF full THEN "denied" ELSE "admitted", via |-> "memory",
                     stamp |-> clock,
                     resetAt |-> Window + (IF full THEN Oldest(live) ELSE clock),
                     late |-> FALSE]
  <2>1. request' = [request EXCEPT ![r] = new]
    BY <1>1 DEF CheckInMemory
  <2>2. DOMAIN new = Fields /\ new.stamp = clock /\ new.via = "memory"
    BY DEF Fields
  <2> HIDE DEF new
  <2> QED
    BY <2>1, <2>2, OneRequest DEF NotAdmitted, RedisAdmitted, TypesOK
<1>2. CASE ResetInMemory(r)
  BY <1>2, ForgivenSpares DEF ResetInMemory
<1>3. CASE request' = [request EXCEPT ![r].phase = "done"]
  <2> DEFINE new == [request[r] EXCEPT !.phase = "done"]
  <2>1. request' = [request EXCEPT ![r] = new]
    BY <1>3
  <2>2. DOMAIN new = Fields /\ new.stamp \in 0 .. MaxClock /\ new.phase = "done"
    BY DEF Fields, TypesOK
  <2> HIDE DEF new
  <2> QED
    BY <2>1, <2>2, OneRequest DEF NotAdmitted, RedisAdmitted
<1> QED
  BY <1>1, <1>2, <1>3 DEF FallBack

\* The head of the pipe is answered, or given up.
LEMMA PipeMoves ==
    ASSUME TypesOK, WaitsInv, pipe # <<>>, pipe' = Tail(pipe), clock' = clock,
           SparesOthers(Head(pipe))
    PROVE  /\ Head(pipe) \in Requests
           /\ MayBeNow(request[Head(pipe)].stamp)
           /\ request[Head(pipe)].stamp <= clock
           /\ pipe' \in Seq(Requests)
           /\ WaitsInv'
           /\ \A n \in Nat : MayBeNow(n)' => MayBeNow(n) /\ request[Head(pipe)].stamp <= n
<1>1. pipe \in Seq(Requests) /\ clock \in Nat
      /\ \A q \in Requests : request[q].stamp \in Nat
  BY Constants DEF TypesOK, Numbers
<1>2. /\ Head(pipe) \in Requests /\ Head(pipe) = pipe[1]
      /\ Len(pipe) \in Nat /\ Len(pipe) > 0
      /\ DOMAIN pipe = 1 .. Len(pipe)
      /\ \A i \in 1 .. Len(pipe) : pipe[i] \in Requests
  BY <1>1, HeadTailProperties, LenProperties, ElementOfSeq, EmptySeq
<1>3. /\ pipe' \in Seq(Requests)
      /\ DOMAIN pipe' = 1 .. Len(pipe) - 1
      /\ \A i \in 1 .. Len(pipe) - 1 : pipe'[i] = pipe[i + 1]
  BY <1>1, HeadTailProperties, LenProperties
<1>4. ASSUME NEW i \in DOMAIN pipe'
      PROVE  /\ i \in Nat /\ i + 1 \in DOMAIN pipe /\ 1 \in DOMAIN pipe /\ 1 < i + 1
             /\ pipe'[i] = pipe[i + 1] /\ pipe[i + 1] \in Requests
             /\ request'[pipe'[i]].stamp = request[pipe[i + 1]].stamp
             /\ request'[pipe'[i]].phase = "sent"
             /\ request[pipe[1]].stamp <= request[pipe[i + 1]].stamp
  <2>1. i \in Nat /\ i + 1 \in DOMAIN pipe /\ 1 \in DOMAIN pipe /\ 1 < i + 1
        /\ pipe'[i] = pipe[i + 1] /\ pipe[i + 1] \in Requests
    BY <1>2, <1>3
  <2>2. pipe[i + 1] # Head(pipe)
    BY <1>2, <2>1 DEF WaitsInv
  <2>3. Spared(pipe[i + 1])
    BY <2>1, <2>2 DEF SparesOthers
  <2> QED
    BY <2>1, <2>3 DEF Spared, WaitsInv
<1>5. WaitsInv'
  <2>1. \A i \in DOMAIN pipe' :
          request'[pipe'[i]].phase = "sent" /\ request'[pipe'[i]].stamp <= clock'
    BY <1>4 DEF WaitsInv
  <2>2. ASSUME NEW i \in DOMAIN pipe', NEW j \in DOMAIN pipe'
        PROVE  /\ pipe'[i] = pipe'[j] => i = j
               /\ i < j => request'[pipe'[i]].stamp <= request'[pipe'[j]].stamp
    <3>1. /\ pipe[i + 1] = pipe[j + 1] => i + 1 = j + 1
          /\ i + 1 < j + 1 => request[pipe[i + 1]].stamp <= request[pipe[j + 1]].stamp
      BY <1>4 DEF WaitsInv
    <3>2. i \in Nat /\ j \in Nat
      BY <1>4
    <3> QED
      BY <1>4, <3>1, <3>2
  <2> QED
    BY <2>1, <2>2 DEF WaitsInv
<1>6. 1 \in DOMAIN pipe /\ request[Head(pipe)].stamp <= clock
      /\ MayBeNow(request[Head(pipe)].stamp)
  BY <1>2 DEF WaitsInv, MayBeNow
<1>7. ASSUME NEW n \in Nat, MayBeNow(n)'
      PROVE  MayBeNow(n) /\ request[Head(pipe)].stamp <= n
  <2>1. CASE n = clock
    BY <1>6, <2>1 DEF MayBeNow
  <2>2. ASSUME NEW i \in DOMAIN pipe', n = request'[pipe'[i]].stamp
        PROVE  MayBeNow(n) /\ request[Head(pipe)].stamp <= n
    BY <1>2, <1>4, <2>2 DEF MayBeNow
  <2> QED
    BY <1>7, <2>1, <2>2 DEF MayBeNow
<1> QED
  BY <1>2, <1>3, <1>5, <1>6, <1>7

-----------------------------------------------------------------------------
(* The window. *)

Stamps(k, t) == {request[r].stamp : r \in {q \in Admitted("redis", t) : KeyOf(q) = k}}

LEMMA StampsType ==
    ASSUME TypesOK, NEW k, NEW t
    PROVE  /\ IsFiniteSet(Stamps(k, t)) /\ Cardinality(Stamps(k, t)) \in Nat
           /\ Stamps(k, t) \subseteq 0 .. MaxClock
<1>1. Stamps(k, t) \subseteq 0 .. MaxClock
  BY DEF Stamps, Admitted, TypesOK
<1>2. IsFiniteSet(0 .. MaxClock)
  BY StampRange
<1>3. IsFiniteSet(Stamps(k, t))
  BY <1>1, <1>2, FS_Subset
<1> QED
  BY <1>1, <1>3, FS_CardinalityType

\* A window that gains no stamp keeps to the limit.
LEMMA WindowShrinks ==
    ASSUME TypesOK, RedisWindowLimit, NEW k \in Keys, NEW t \in 0 .. MaxClock,
           Stamps(k, t)' \subseteq Stamps(k, t)
    PROVE  Cardinality(Stamps(k, t)') <= LimitOf(k[1])
<1>1. Cardinality(Stamps(k, t)') <= Cardinality(Stamps(k, t))
  BY StampsType, FS_Subset
<1>2. Cardinality(Stamps(k, t)) <= LimitOf(k[1])
  BY DEF RedisWindowLimit, Stamps
<1>3. Cardinality(Stamps(k, t)') \in Nat /\ Cardinality(Stamps(k, t)) \in Nat
      /\ LimitOf(k[1]) \in Nat
  <2>1. IsFiniteSet(Stamps(k, t)')
    BY StampsType, FS_Subset
  <2> QED
    BY <2>1, StampsType, FS_CardinalityType, Constants DEF Keys
<1> QED
  BY <1>1, <1>2, <1>3

LEMMA NothingAdmitted ==
    ASSUME TypesOK, RedisWindowLimit,
           \A q \in Requests : RedisAdmitted(request'[q]) => Kept(q)
    PROVE  RedisWindowLimit'
<1>1. ASSUME NEW k \in Keys, NEW t \in 0 .. MaxClock
      PROVE  Cardinality(Stamps(k, t)') <= LimitOf(k[1])
  <2>1. Stamps(k, t)' \subseteq Stamps(k, t)
    BY DEF Stamps, Admitted, RedisAdmitted, Kept
  <2> QED
    BY <2>1, WindowShrinks
<1> QED
  BY <1>1 DEF RedisWindowLimit, Stamps

\* The request r is admitted at its stamp by the script, late or not: if not, every stamp
\* of its window is one the script has counted.
LEMMA OneAdmitted ==
    ASSUME LimiterInv, NEW r \in Requests, MayBeNow(request[r].stamp), ~LuaDenies(r),
           request'[r].stamp = request[r].stamp,
           request'[r].late \/ clock <= request[r].stamp + Grace,
           \A q \in Requests \ {r} : RedisAdmitted(request'[q]) => Kept(q)
    PROVE  RedisWindowLimit'
<1> DEFINE now == request[r].stamp
           z == Pruned(zset[KeyOf(r)], now)
<1>1. TypesOK /\ RememberedInv /\ RedisWindowLimit
  BY DEF LimiterInv
<1>2. now \in 0 .. MaxClock /\ now \in Nat /\ KeyOf(r) \in Keys /\ KeyOf(r)[1] = ClientOf[r]
  BY <1>1, Constants DEF TypesOK, Numbers
<1>3. z \subseteq 0 .. MaxClock /\ z = {t \in zset[KeyOf(r)] : t + Window > now}
  BY <1>1, <1>2 DEF Pruned, TypesOK
<1>4. /\ IsFiniteSet(z \cup {now}) /\ Cardinality(z \cup {now}) \in Nat
      /\ Cardinality(z \cup {now}) <= LimitOf(ClientOf[r])
  <2>1. IsFiniteSet(0 .. MaxClock)
    BY StampRange
  <2>2. IsFiniteSet(z)
    BY <1>3, <2>1, FS_Subset
  <2>3. Cardinality(z) \in Nat /\ LimitOf(ClientOf[r]) \in Nat
    BY <2>2, FS_CardinalityType, Constants
  <2>4. Cardinality(z) < LimitOf(ClientOf[r])
    BY <2>3 DEF LuaDenies
  <2>5. /\ IsFiniteSet(z \cup {now})
        /\ Cardinality(z \cup {now}) = IF now \in z THEN Cardinality(z) ELSE Cardinality(z) + 1
    BY <2>2, FS_AddElement
  <2> QED
    BY <2>3, <2>4, <2>5
<1>5. ASSUME NEW k \in Keys, NEW t \in 0 .. MaxClock
      PROVE  Cardinality(Stamps(k, t)') <= LimitOf(k[1])
  <2>1. CASE k = KeyOf(r) /\ now <= t /\ t < now + Window /\ ~request'[r].late
    <3>1. ASSUME NEW q \in Requests, RedisAdmitted(request'[q]), KeyOf(q) = k, q # r,
                 t < request'[q].stamp + Window
          PROVE  request'[q].stamp \in z
      <4>1. RedisAdmitted(request[q]) /\ request'[q].stamp = request[q].stamp
        BY <3>1 DEF Kept
      <4>2. request[q].stamp \in Nat /\ t \in Nat /\ Window \in Nat
        BY <1>1, Constants DEF TypesOK, Numbers
      <4>3. now < request[q].stamp + Window
        BY <1>2, <2>1, <3>1, <4>1, <4>2
      <4>4. request[q].stamp \in zset[KeyOf(r)]
        BY <1>1, <1>2, <2>1, <3>1, <4>1, <4>3 DEF RememberedInv
      <4> QED
        BY <1>2, <1>3, <4>1, <4>2, <4>3, <4>4
    <3> HIDE DEF z, now
    <3>2. Stamps(k, t)' \subseteq z \cup {now}
      BY <3>1 DEF Stamps, Admitted, RedisAdmitted, now
    <3>3. Cardinality(Stamps(k, t)') <= Cardinality(z \cup {now}) /\ IsFiniteSet(Stamps(k, t)')
      BY <1>4, <3>2, FS_Subset
    <3>4. Cardinality(Stamps(k, t)') \in Nat
      BY <3>3, FS_CardinalityType
    <3>5. LimitOf(k[1]) = LimitOf(ClientOf[r]) /\ LimitOf(ClientOf[r]) \in Nat
      BY <1>2, <2>1, Constants
    <3> QED
      BY <1>4, <3>3, <3>4, <3>5
  <2>2. CASE ~(k = KeyOf(r) /\ now <= t /\ t < now + Window /\ ~request'[r].late)
    <3>1. \A q \in Requests :
            (q \in Admitted("redis", t) /\ KeyOf(q) = k)'
              => q \in Admitted("redis", t) /\ KeyOf(q) = k /\ request'[q].stamp = request[q].stamp
      BY <2>2 DEF Admitted, RedisAdmitted, Kept
    <3>2. Stamps(k, t)' \subseteq Stamps(k, t)
      BY <3>1 DEF Stamps, Admitted
    <3> QED
      BY <1>1, <3>2, WindowShrinks
  <2> QED
    BY <2>1, <2>2
<1> QED
  BY <1>5 DEF RedisWindowLimit, Stamps

-----------------------------------------------------------------------------
(* The script, and what else changes the sorted sets. *)

\* What the script leaves of what was admitted: nothing that is in the window of a
\* later stamp is removed.
LEMMA EvalKeeps ==
    ASSUME LimiterInv, NEW r \in Requests, EvalLua(r), request[r].stamp <= clock
    PROVE  /\ zset' \in [Keys -> SUBSET (0 .. MaxClock)]
           /\ expiresAt' \in [Keys -> Nat]
           /\ \A k \in Keys : \A t \in zset[k] :
                request[r].stamp < t + Window => t \in zset'[k]
           /\ \A q \in Requests : RedisAdmitted(request[q]) =>
                request[q].stamp + Window + Grace <= expiresAt'[KeyOf(q)]
           /\ ~LuaDenies(r) =>
                /\ request[r].stamp \in zset'[KeyOf(r)]
                /\ request[r].stamp + Window + Grace <= expiresAt'[KeyOf(r)]
<1> DEFINE k == KeyOf(r)
           now == request[r].stamp
<1>1. TypesOK /\ RememberedInv
  BY DEF LimiterInv
<1>2. /\ k \in Keys /\ now \in 0 .. MaxClock /\ now \in Nat /\ clock \in Nat
      /\ Window \in Nat /\ Grace \in Nat
      /\ zset \in [Keys -> SUBSET (0 .. MaxClock)] /\ expiresAt \in [Keys -> Nat]
      /\ \A q \in Requests : request[q].stamp \in Nat /\ KeyOf(q) \in Keys
  BY <1>1, Constants DEF TypesOK, Numbers
<1>3. /\ zset' = [zset EXCEPT ![k] = IF LuaDenies(r) THEN Pruned(zset[k], now)
                                     ELSE Pruned(zset[k], now) \cup {now}]
      /\ expiresAt' = [expiresAt EXCEPT ![k] = IF LuaDenies(r) THEN expiresAt[k]
                                               ELSE clock + Window + Grace]
  BY DEF EvalLua
<1> HIDE DEF k, now
<1>4. Pruned(zset[k], now) = {t \in zset[k] : t + Window > now}
  BY DEF Pruned
<1>5. zset' \in [Keys -> SUBSET (0 .. MaxClock)] /\ expiresAt' \in [Keys -> Nat]
  BY <1>2, <1>3, <1>4
<1>6. ASSUME NEW j \in Keys, NEW t \in zset[j], now < t + Window PROVE t \in zset'[j]
  <2>1. t \in Nat
    BY <1>2
  <2> QED
    BY <1>2, <1>3, <1>4, <1>6, <2>1
<1>7. ASSUME NEW q \in Requests, RedisAdmitted(request[q])
      PROVE  request[q].stamp + Window + Grace <= expiresAt'[KeyOf(q)]
  <2>1. /\ request[q].stamp + Window + Grace <= expiresAt[KeyOf(q)]
        /\ request[q].stamp <= clock
    BY <1>1, <1>7 DEF RememberedInv
  <2>2. request[q].stamp + Window + Grace <= clock + Window + Grace
    BY <1>2, <2>1
  <2> QED
    BY <1>2, <1>3, <2>1, <2>2
<1>8. ASSUME ~LuaDenies(r)
      PROVE  now \in zset'[k] /\ now + Window + Grace <= expiresAt'[k]
  <2>1. now <= clock
    BY DEF now
  <2>2. zset'[k] = Pruned(zset[k], now) \cup {now} /\ expiresAt'[k] = clock + Window + Grace
    BY <1>2, <1>3, <1>8
  <2> QED
    BY <1>2, <2>1, <2>2
<1> QED
  BY <1>5, <1>6, <1>7, <1>8 DEF k, now

LEMMA AnswerCheckLimiter == LimiterInv /\ AnswerCheck => LimiterInv'
<1> SUFFICES ASSUME LimiterInv, AnswerCheck PROVE LimiterInv'
  OBVIOUS
<1> DEFINE r == Head(pipe)
           now == request[r].stamp
           new == [phase |-> IF LuaDenies(r) THEN "denied" ELSE "admitted", via |-> "redis",
                   stamp |-> now,
                   resetAt |-> Window + (IF LuaDenies(r)
                                         THEN Min(Pruned(zset[KeyOf(r)], now)) ELSE now),
                   late |-> ~LuaDenies(r) /\ now + Grace < clock]
<1>1. TypesOK /\ WaitsInv /\ RememberedInv /\ RedisWindowLimit
  BY DEF LimiterInv
<1>2. /\ pipe # <<>> /\ pipe' = Tail(pipe) /\ clock' = clock
      /\ EvalLua(r) /\ Kind[r] \in {"check", "endpoint"}
      /\ request' = [request EXCEPT ![r] = new]
  BY DEF AnswerCheck, LuaReply
<1>3. /\ DOMAIN new = Fields /\ new.stamp = now /\ new.via = "redis"
      /\ LuaDenies(r) => new.phase # "admitted"
      /\ ~LuaDenies(r) => new.late \/ ~(now + Grace < clock)
  BY DEF Fields
<1> HIDE DEF new
<1>4. r \in Requests
  BY <1>1, <1>2, HeadTailProperties DEF TypesOK
<1>5. SparesOthers(r) /\ request'[r] = new
  BY <1>1, <1>2, <1>4, OneRequest
<1>6. /\ MayBeNow(now) /\ now <= clock /\ pipe' \in Seq(Requests) /\ WaitsInv'
      /\ \A n \in Nat : MayBeNow(n)' => MayBeNow(n) /\ now <= n
  BY <1>1, <1>2, <1>5, PipeMoves
<1> HIDE DEF r
<1>7. /\ zset' \in [Keys -> SUBSET (0 .. MaxClock)]
      /\ expiresAt' \in [Keys -> Nat]
      /\ \A k \in Keys : \A t \in zset[k] : now < t + Window => t \in zset'[k]
      /\ \A q \in Requests : RedisAdmitted(request[q]) =>
           request[q].stamp + Window + Grace <= expiresAt'[KeyOf(q)]
      /\ ~LuaDenies(r) => now \in zset'[KeyOf(r)] /\ now + Window + Grace <= expiresAt'[KeyOf(r)]
  BY <1>2, <1>4, <1>6, EvalKeeps
<1>8. TypesOK'
  <2>1. \A q \in Requests : DOMAIN request'[q] = Fields /\ request'[q].stamp = request[q].stamp
    BY <1>3, <1>5 DEF SparesOthers, Spared
  <2> QED
    BY <1>1, <1>2, <1>5, <1>6, <1>7, <2>1 DEF TypesOK, SparesOthers
<1>9. RememberedInv'
  <2> SUFFICES ASSUME NEW q \in Requests, RedisAdmitted(request'[q])
               PROVE  /\ Kind[q] \in {"check", "endpoint"}
                      /\ request'[q].stamp <= clock
                      /\ request'[q].stamp + Window + Grace <= expiresAt'[KeyOf(q)]
                      /\ \A n \in Nat : /\ MayBeNow(n)' /\ n < request'[q].stamp + Window
                                         /\ clock <= n + Grace
                                          => request'[q].stamp \in zset'[KeyOf(q)]
    BY <1>2 DEF RememberedInv
  <2>1. CASE q = r
    <3>1. ~LuaDenies(r) /\ request'[q].stamp = now
      BY <1>3, <1>5, <2>1 DEF RedisAdmitted
    <3> QED
      BY <1>2, <1>6, <1>7, <2>1, <3>1
  <2>2. CASE q # r
    <3>1. RedisAdmitted(request[q]) /\ request'[q].stamp = request[q].stamp
      BY <1>5, <2>2 DEF SparesOthers, Spared
    <3>2. /\ Kind[q] \in {"check", "endpoint"} /\ request[q].stamp <= clock
          /\ \A n \in Nat : MayBeNow(n) /\ n < request[q].stamp + Window /\ clock <= n + Grace
                              => request[q].stamp \in zset[KeyOf(q)]
      BY <1>1, <3>1 DEF RememberedInv
    <3>3. ASSUME NEW n \in Nat, MayBeNow(n)', n < request[q].stamp + Window, clock <= n + Grace
          PROVE  request[q].stamp \in zset'[KeyOf(q)]
      <4>1. request[q].stamp \in zset[KeyOf(q)] /\ now <= n
        BY <1>6, <3>2, <3>3
      <4>2. now \in Nat /\ request[q].stamp \in Nat /\ Window \in Nat /\ KeyOf(q) \in Keys
        BY <1>1, <1>4, Constants DEF TypesOK, Numbers
      <4>3. now < request[q].stamp + Window
        BY <3>3, <4>1, <4>2
      <4> QED
        BY <1>7, <4>1, <4>2, <4>3
    <3> QED
      BY <1>7, <3>1, <3>2, <3>3
  <2> QED
    BY <2>1, <2>2
<1>10. RedisWindowLimit'
  <2>1. \A q \in Requests \ {r} : RedisAdmitted(request'[q]) => Kept(q)
    BY <1>5 DEF SparesOthers, Spared, Kept
  <2>2. CASE LuaDenies(r)
    <3>1. ~RedisAdmitted(request'[r])
      BY <1>3, <1>5, <2>2 DEF RedisAdmitted
    <3>2. \A q \in Requests : RedisAdmitted(request'[q]) => Kept(q)
      BY <2>1, <3>1
    <3> QED
      BY <1>1, <3>2, NothingAdmitted
  <2>3. CASE ~LuaDenies(r)
    <3>1. request'[r].stamp = request[r].stamp
      BY <1>3, <1>5 DEF now
    <3>2. request[r].stamp \in Nat /\ clock \in Nat /\ Grace \in Nat
      BY <1>1, <1>4, Constants DEF TypesOK, Numbers
    <3>3. request'[r].late \/ clock <= request[r].stamp + Grace
      BY <1>3, <1>5, <2>3, <3>2 DEF now
    <3> QED
      BY <1>4, <1>6, <2>1, <2>3, <3>1, <3>3, OneAdmitted DEF now
  <2> QED
    BY <2>2, <2>3
<1> QED
  BY <1>6, <1>8, <1>9, <1>10 DEF LimiterInv

\* A step at which nothing is admitted, and which takes nothing that counts out of
\* the sorted sets.
LEMMA QuietStep ==
    ASSUME LimiterInv, TypesOK', WaitsInv', clock <= clock',
           \A q \in Requests : RedisAdmitted(request'[q]) =>
             /\ Kept(q)
             /\ request[q].stamp + Window + Grace <= expiresAt'[KeyOf(q)]
             /\ \A n \in Nat : MayBeNow(n)' /\ n < request[q].stamp + Window /\ clock' <= n + Grace
                                 => request[q].stamp \in zset'[KeyOf(q)]
    PROVE  LimiterInv'
<1>1. TypesOK /\ RedisWindowLimit /\ RememberedInv
  BY DEF LimiterInv
<1>2. RedisWindowLimit'
  BY <1>1, NothingAdmitted
<1>3. ASSUME NEW q \in Requests, RedisAdmitted(request'[q])
      PROVE  Kind[q] \in {"check", "endpoint"} /\ request'[q].stamp <= clock'
  <2>1. Kind[q] \in {"check", "endpoint"} /\ request[q].stamp <= clock
        /\ request'[q].stamp = request[q].stamp
    BY <1>1, <1>3 DEF RememberedInv, Kept
  <2>2. request[q].stamp \in Nat /\ clock \in Nat /\ clock' \in Nat
    BY <1>1, Constants DEF TypesOK, Numbers
  <2> QED
    BY <2>1, <2>2
<1>4. RememberedInv'
  BY <1>3 DEF RememberedInv, Kept
<1> QED
  BY <1>2, <1>4 DEF LimiterInv

LEMMA SendLimiter ==
    ASSUME LimiterInv, NEW r \in Requests, Send(r)
    PROVE  LimiterInv'
<1> DEFINE new == [request[r] EXCEPT !.phase = "sent", !.stamp = clock]
<1>1. TypesOK /\ WaitsInv /\ RememberedInv
  BY DEF LimiterInv
<1>2. /\ request[r].phase = "new" /\ pipe' = Append(pipe, r) /\ clock' = clock
      /\ zset' = zset /\ expiresAt' = expiresAt
      /\ request' = [request EXCEPT ![r] = new]
  BY <1>1 DEF Send, TypesOK
<1>3. DOMAIN new = Fields /\ new.stamp = clock /\ new.phase = "sent"
  BY <1>1 DEF Fields, TypesOK
<1> HIDE DEF new
<1>4. SparesOthers(r) /\ request'[r] = new
  BY <1>1, <1>2, OneRequest
<1>5. /\ pipe' \in Seq(Requests)
      /\ Len(pipe) \in Nat /\ DOMAIN pipe = 1 .. Len(pipe) /\ DOMAIN pipe' = 1 .. Len(pipe) + 1
      /\ pipe'[Len(pipe) + 1] = r
      /\ \A i \in 1 .. Len(pipe) : pipe'[i] = pipe[i] /\ pipe[i] \in Requests
  BY <1>1, <1>2, AppendProperties, LenProperties, ElementOfSeq DEF TypesOK
<1>6. TypesOK'
  BY <1>1, <1>2, <1>3, <1>4, <1>5 DEF TypesOK, SparesOthers, Spared
<1>7. \A i \in DOMAIN pipe : /\ i \in DOMAIN pipe' /\ pipe'[i] = pipe[i] /\ pipe[i] # r
                             /\ request'[pipe[i]].stamp = request[pipe[i]].stamp
                             /\ request'[pipe[i]].phase = "sent"
  BY <1>1, <1>2, <1>4, <1>5 DEF WaitsInv, SparesOthers, Spared
<1>8. clock \in Nat /\ \A q \in Requests : request[q].stamp \in Nat
  BY <1>1, Constants DEF TypesOK, Numbers
<1>9. WaitsInv'
  <2>1. ASSUME NEW i \in DOMAIN pipe'
        PROVE  request'[pipe'[i]].phase = "sent" /\ request'[pipe'[i]].stamp <= clock
    <3>1. CASE i \in DOMAIN pipe
      BY <1>1, <1>7, <3>1 DEF WaitsInv
    <3>2. CASE i = Len(pipe) + 1
      BY <1>3, <1>4, <1>5, <1>8, <3>2
    <3> QED
      BY <1>5, <3>1, <3>2
  <2>2. ASSUME NEW i \in DOMAIN pipe', NEW j \in DOMAIN pipe', i < j
        PROVE  pipe'[i] # pipe'[j] /\ request'[pipe'[i]].stamp <= request'[pipe'[j]].stamp
    <3>1. i \in DOMAIN pipe /\ i # j
      BY <1>5, <2>2
    <3>2. CASE j \in DOMAIN pipe
      BY <1>1, <1>7, <2>2, <3>1, <3>2 DEF WaitsInv
    <3>3. CASE j = Len(pipe) + 1
      <4>1. pipe'[j] = r /\ request'[pipe'[j]].stamp = clock
        BY <1>3, <1>4, <1>5, <3>3
      <4> QED
        BY <1>1, <1>7, <3>1, <4>1 DEF WaitsInv
    <3> QED
      BY <1>5, <3>2, <3>3
  <2>3. \A i, j \in DOMAIN pipe' : i = j \/ i < j \/ j < i
    BY <1>5
  <2> QED
    BY <1>2, <2>1, <2>2, <2>3 DEF WaitsInv
<1>10. ASSUME NEW n \in Nat, MayBeNow(n)' PROVE MayBeNow(n)
  <2>1. CASE n = clock
    BY <2>1 DEF MayBeNow
  <2>2. ASSUME NEW i \in DOMAIN pipe', n = request'[pipe'[i]].stamp PROVE MayBeNow(n)
    <3>1. CASE i \in DOMAIN pipe
      BY <1>7, <2>2, <3>1 DEF MayBeNow
    <3>2. CASE i = Len(pipe) + 1
      BY <1>3, <1>4, <1>5, <2>2, <3>2 DEF MayBeNow
    <3> QED
      BY <1>5, <3>1, <3>2
  <2> QED
    BY <1>2, <1>10, <2>1, <2>2 DEF MayBeNow
<1>11. ASSUME NEW q \in Requests, RedisAdmitted(request'[q])
       PROVE  Kept(q)
  BY <1>3, <1>4, <1>11 DEF SparesOthers, Spared, RedisAdmitted, Kept
<1> QED
  BY <1>1, <1>2, <1>6, <1>8, <1>9, <1>10, <1>11, QuietStep DEF RememberedInv, Kept

\* Calls that fall back, before or after they have waited.
LEMMA RefusedLimiter ==
    ASSUME LimiterInv, NEW r \in Requests, Refused(r)
    PROVE  LimiterInv'
<1>1. TypesOK /\ WaitsInv /\ RememberedInv /\ clock \in Nat
  BY Constants DEF LimiterInv, TypesOK, Numbers
<1>2. /\ request[r].phase = "new" /\ pipe' = pipe /\ clock' = clock
      /\ zset' = zset /\ expiresAt' = expiresAt
  BY DEF Refused
<1>3. SparesOthers(r) /\ NotAdmitted(r)
  BY <1>1, FallBackSpares DEF Refused
<1>4. TypesOK'
  BY <1>1, <1>2, <1>3 DEF TypesOK, SparesOthers, Spared, NotAdmitted
<1>5. \A i \in DOMAIN pipe : /\ request'[pipe[i]].stamp = request[pipe[i]].stamp
                             /\ request'[pipe[i]].phase = "sent"
  <2>1. \A i \in DOMAIN pipe : pipe[i] \in Requests \ {r}
    BY <1>1, <1>2, ElementOfSeq, LenProperties DEF TypesOK, WaitsInv
  <2> QED
    BY <1>1, <1>3, <2>1 DEF SparesOthers, Spared, WaitsInv
<1>6. WaitsInv' /\ \A n \in Nat : MayBeNow(n)' => MayBeNow(n)
  BY <1>1, <1>2, <1>5 DEF WaitsInv, MayBeNow
<1>7. \A q \in Requests : RedisAdmitted(request'[q]) => Kept(q)
  BY <1>3 DEF SparesOthers, Spared, NotAdmitted, Kept
<1> QED
  BY <1>1, <1>2, <1>4, <1>6, <1>7, QuietStep DEF RememberedInv, Kept

\* The commands at the head of the pipe that admit nothing.
LEMMA HeadStep ==
    ASSUME LimiterInv, pipe # <<>>, pipe' = Tail(pipe), clock' = clock,
           SparesOthers(Head(pipe)), NotAdmitted(Head(pipe)), expiresAt' = expiresAt,
           zset' \in [Keys -> SUBSET (0 .. MaxClock)],
           \A q \in Requests : RedisAdmitted(request'[q]) =>
             \A t \in zset[KeyOf(q)] : request[Head(pipe)].stamp < t + Window
                                          => t \in zset'[KeyOf(q)]
    PROVE  LimiterInv'
<1> DEFINE now == request[Head(pipe)].stamp
<1>1. TypesOK /\ WaitsInv /\ RememberedInv /\ clock \in Nat /\ Window \in Nat
      /\ \A q \in Requests : request[q].stamp \in Nat
  BY Constants DEF LimiterInv, TypesOK, Numbers
<1>2. /\ Head(pipe) \in Requests /\ pipe' \in Seq(Requests) /\ WaitsInv'
      /\ \A n \in Nat : MayBeNow(n)' => MayBeNow(n) /\ now <= n
  BY <1>1, PipeMoves
<1>3. TypesOK'
  BY <1>1, <1>2 DEF TypesOK, SparesOthers, Spared, NotAdmitted
<1>4. \A q \in Requests : RedisAdmitted(request'[q]) => Kept(q)
  BY DEF SparesOthers, Spared, NotAdmitted, Kept
<1>5. now \in Nat
  BY <1>1, <1>2
<1> HIDE DEF now
<1>6. ASSUME NEW q \in Requests, RedisAdmitted(request'[q]), NEW n \in Nat, MayBeNow(n)',
             n < request[q].stamp + Window, clock <= n + Grace
      PROVE  request[q].stamp \in zset'[KeyOf(q)]
  <2>1. request[q].stamp \in zset[KeyOf(q)] /\ now <= n
    BY <1>1, <1>2, <1>4, <1>6 DEF RememberedInv, Kept
  <2>2. now < request[q].stamp + Window
    BY <1>1, <1>5, <1>6, <2>1
  <2> QED
    BY <1>6, <2>1, <2>2 DEF now
<1>7. \A q \in Requests : RedisAdmitted(request'[q]) =>
        request[q].stamp + Window + Grace <= expiresAt'[KeyOf(q)]
  BY <1>1, <1>4 DEF RememberedInv, Kept
<1> QED
  BY <1>1, <1>2, <1>3, <1>4, <1>6, <1>7, QuietStep

LEMMA AnswerUsageLimiter == LimiterInv /\ AnswerUsage => LimiterInv'
<1> SUFFICES ASSUME LimiterInv, AnswerUsage PROVE LimiterInv'
  OBVIOUS
<1> DEFINE r == Head(pipe)
           new == [request[r] EXCEPT !.phase = "done"]
<1>1. TypesOK /\ r \in Requests /\ KeyOf(r) \in Keys
  <2>1. TypesOK /\ r \in Requests
    BY HeadTailProperties DEF LimiterInv, TypesOK, AnswerUsage
  <2> QED
    BY <2>1, Constants
<1>2. /\ pipe # <<>> /\ pipe' = Tail(pipe) /\ clock' = clock /\ expiresAt' = expiresAt
      /\ zset' = [zset EXCEPT ![KeyOf(r)] = Pruned(zset[KeyOf(r)], request[r].stamp)]
      /\ request' = [request EXCEPT ![r] = new]
  BY <1>1 DEF AnswerUsage, Prune, TypesOK
<1>3. DOMAIN new = Fields /\ new.stamp \in 0 .. MaxClock /\ new.phase = "done"
  BY <1>1 DEF Fields, TypesOK
<1> HIDE DEF new
<1>4. SparesOthers(r) /\ request'[r] = new
  BY <1>1, <1>2, OneRequest
<1>5. NotAdmitted(r)
  BY <1>3, <1>4 DEF NotAdmitted, RedisAdmitted
<1> HIDE DEF r
<1>6. Pruned(zset[KeyOf(r)], request[r].stamp)
        = {t \in zset[KeyOf(r)] : t + Window > request[r].stamp}
  BY DEF Pruned
<1>7. zset' \in [Keys -> SUBSET (0 .. MaxClock)]
  BY <1>1, <1>2, <1>6 DEF TypesOK
<1>8. ASSUME NEW q \in Requests, NEW t \in zset[KeyOf(q)], request[r].stamp < t + Window
      PROVE  t \in zset'[KeyOf(q)]
  <2>1. KeyOf(q) \in Keys /\ t \in Nat /\ request[r].stamp \in Nat /\ Window \in Nat
    BY <1>1, Constants DEF TypesOK, Numbers
  <2>2. t + Window > request[r].stamp
    BY <1>8, <2>1
  <2> QED
    BY <1>1, <1>2, <1>6, <2>1, <2>2 DEF TypesOK
<1> QED
  BY <1>2, <1>4, <1>5, <1>7, <1>8, HeadStep DEF r

\* A reset, answered or not, deletes the one sorted set that counts checks of the client,
\* and forgives them: no admission that is left was in it.
LEMMA ResetSpares ==
    ASSUME TypesOK, RememberedInv, NEW r \in Requests, Kind[r] = "reset", Delete(r),
           NEW after, after = Forgiven(r, {"redis", "memory"}) \/ after = Forgiven(r, {"redis"}),
           NEW q \in Requests, RedisAdmitted(after[q])
    PROVE  zset'[KeyOf(q)] = zset[KeyOf(q)]
<1>1. RedisAdmitted(request[q]) /\ ~(ClientOf[q] = ClientOf[r] /\ Kind[q] = "check")
  <2>1. DOMAIN request[q] = Fields
    BY DEF TypesOK
  <2>2. after[q] = request[q] \/ after[q] = [request[q] EXCEPT !.phase = "forgiven"]
    BY DEF Forgiven
  <2>3. after[q] # [request[q] EXCEPT !.phase = "forgiven"]
    BY <2>1 DEF RedisAdmitted, Fields
  <2> QED
    BY <2>2, <2>3 DEF Forgiven, RedisAdmitted
<1>2. Kind[q] \in {"check", "endpoint"}
  BY <1>1 DEF RememberedInv
<1>3. KeyOf(q) # KeyOf(r)
  BY <1>1, <1>2 DEF KeyOf
<1> QED
  BY <1>3, Constants DEF Delete, TypesOK

LEMMA AnswerResetLimiter == LimiterInv /\ AnswerReset => LimiterInv'
<1> SUFFICES ASSUME LimiterInv, AnswerReset PROVE LimiterInv'
  OBVIOUS
<1> DEFINE r == Head(pipe)
           after == Forgiven(r, {"redis", "memory"})
<1>1. TypesOK /\ RememberedInv /\ r \in Requests /\ KeyOf(r) \in Keys
  BY HeadTailProperties, Constants DEF LimiterInv, TypesOK, AnswerReset
<1>2. /\ pipe # <<>> /\ pipe' = Tail(pipe) /\ clock' = clock /\ expiresAt' = expiresAt
      /\ Delete(r) /\ request' = [after EXCEPT ![r].phase = "done"] /\ Kind[r] = "reset"
  BY DEF AnswerReset
<1>3. SparesOthers(r) /\ NotAdmitted(r)
  BY <1>1, <1>2, ForgivenSpares
<1>4. zset' \in [Keys -> SUBSET (0 .. MaxClock)]
  BY <1>1, <1>2 DEF TypesOK, Delete
<1>5. ASSUME NEW q \in Requests, RedisAdmitted(request'[q])
      PROVE  zset'[KeyOf(q)] = zset[KeyOf(q)]
  <2>1. q # r
    BY <1>3, <1>5 DEF NotAdmitted
  <2>2. request'[q] = after[q]
    BY <1>2, <2>1 DEF Forgiven
  <2> QED
    BY <1>1, <1>2, <1>5, <2>2, ResetSpares
<1> HIDE DEF r, after
<1> QED
  BY <1>2, <1>3, <1>4, <1>5, HeadStep DEF r

LEMMA GivenUpLimiter == LimiterInv /\ GivenUp => LimiterInv'
<1> SUFFICES ASSUME LimiterInv, GivenUp PROVE LimiterInv'
  OBVIOUS
<1>1. TypesOK /\ Head(pipe) \in Requests
  BY HeadTailProperties DEF LimiterInv, TypesOK, GivenUp
<1>2. SparesOthers(Head(pipe)) /\ NotAdmitted(Head(pipe))
  BY <1>1, FallBackSpares DEF GivenUp
<1> QED
  BY <1>1, <1>2, HeadStep DEF GivenUp, TypesOK

\* The oldest command was executed, and will be again.
LEMMA ReplyLostLimiter == LimiterInv /\ ReplyLost => LimiterInv'
<1> SUFFICES ASSUME LimiterInv, ReplyLost PROVE LimiterInv'
  OBVIOUS
<1> DEFINE r == Head(pipe)
<1>1. /\ TypesOK /\ WaitsInv /\ RememberedInv /\ clock \in Nat /\ Window \in Nat
      /\ \A q \in Requests : request[q].stamp \in Nat /\ KeyOf(q) \in Keys
  BY Constants DEF LimiterInv, TypesOK, Numbers
<1>2. /\ pipe # <<>> /\ pipe' = pipe /\ clock' = clock
      /\ \/ EvalLua(r) /\ request' = request
         \/ Prune(r) /\ expiresAt' = expiresAt /\ request' = request
         \/ /\ Kind[r] = "reset" /\ Delete(r)
            /\ expiresAt' = expiresAt /\ request' = Forgiven(r, {"redis"})
  BY DEF ReplyLost
<1>3. /\ r \in Requests /\ r = pipe[1] /\ DOMAIN pipe = 1 .. Len(pipe)
      /\ Len(pipe) \in Nat /\ Len(pipe) > 0
      /\ \A i \in DOMAIN pipe : pipe[i] \in Requests
  BY <1>1, <1>2, HeadTailProperties, LenProperties, ElementOfSeq, EmptySeq DEF TypesOK
<1>4. 1 \in DOMAIN pipe /\ \A i \in DOMAIN pipe : i = 1 \/ 1 < i
  BY <1>3
<1>5. request[r].stamp <= clock
      /\ \A i \in DOMAIN pipe : request[r].stamp <= request[pipe[i]].stamp
  BY <1>1, <1>3, <1>4 DEF WaitsInv
<1> HIDE DEF r
<1>6. DOMAIN request' = Requests /\ \A q \in Requests : Spared(q)
  <2>1. request' = request => DOMAIN request' = Requests /\ \A q \in Requests : Spared(q)
    BY <1>1 DEF TypesOK, Spared, RedisAdmitted
  <2> QED
    BY <1>1, <1>2, <1>3, <2>1, ForgivenSpares
<1>7. /\ zset' \in [Keys -> SUBSET (0 .. MaxClock)]
      /\ expiresAt' \in [Keys -> Nat]
      /\ \A q \in Requests : RedisAdmitted(request'[q]) =>
           /\ request[q].stamp + Window + Grace <= expiresAt'[KeyOf(q)]
           /\ request[r].stamp < request[q].stamp + Window /\ request[q].stamp \in zset[KeyOf(q)]
                => request[q].stamp \in zset'[KeyOf(q)]
  <2>1. \A q \in Requests : RedisAdmitted(request'[q]) =>
          /\ RedisAdmitted(request[q])
          /\ request[q].stamp + Window + Grace <= expiresAt[KeyOf(q)]
    BY <1>1, <1>6 DEF Spared, RememberedInv
  <2>2. CASE EvalLua(r)
    BY <1>1, <1>3, <1>5, <2>1, <2>2, EvalKeeps
  <2>3. CASE Prune(r) /\ expiresAt' = expiresAt
    <3>1. Pruned(zset[KeyOf(r)], request[r].stamp)
            = {t \in zset[KeyOf(r)] : t + Window > request[r].stamp}
      BY DEF Pruned
    <3>2. zset' \in [Keys -> SUBSET (0 .. MaxClock)]
      BY <1>1, <1>3, <2>3, <3>1 DEF Prune, TypesOK
    <3>3. ASSUME NEW q \in Requests, request[r].stamp < request[q].stamp + Window,
                 request[q].stamp \in zset[KeyOf(q)]
          PROVE  request[q].stamp \in zset'[KeyOf(q)]
      <4>1. request[q].stamp + Window > request[r].stamp
        BY <1>1, <1>3, <3>3
      <4> QED
        BY <1>1, <1>3, <2>3, <3>1, <3>3, <4>1 DEF Prune, TypesOK
    <3> QED
      BY <1>1, <2>1, <2>3, <3>2, <3>3 DEF TypesOK
  <2>4. CASE /\ Kind[r] = "reset" /\ Delete(r)
             /\ expiresAt' = expiresAt /\ request' = Forgiven(r, {"redis"})
    <3>1. zset' \in [Keys -> SUBSET (0 .. MaxClock)]
      BY <1>1, <1>3, <2>4 DEF Delete, TypesOK
    <3>2. \A q \in Requests : RedisAdmitted(request'[q]) => zset'[KeyOf(q)] = zset[KeyOf(q)]
      BY <1>1, <1>3, <2>4, ResetSpares
    <3> QED
      BY <1>1, <2>1, <2>4, <3>1, <3>2 DEF TypesOK
  <2> QED
    BY <1>2, <2>2, <2>3, <2>4
<1>8. TypesOK'
  BY <1>1, <1>2, <1>6, <1>7 DEF TypesOK, Spared
<1>9. WaitsInv' /\ \A n \in Nat : MayBeNow(n)' => MayBeNow(n) /\ request[r].stamp <= n
  <2>1. \A i \in DOMAIN pipe : request'[pipe[i]].stamp = request[pipe[i]].stamp
                                /\ request'[pipe[i]].phase = "sent"
    BY <1>1, <1>3, <1>6 DEF Spared, WaitsInv
  <2> QED
    BY <1>1, <1>2, <1>5, <2>1 DEF WaitsInv, MayBeNow
<1>10. ASSUME NEW q \in Requests, RedisAdmitted(request'[q]), NEW n \in Nat, MayBeNow(n)',
              n < request[q].stamp + Window, clock <= n + Grace
       PROVE  request[q].stamp \in zset'[KeyOf(q)]
  <2>1. RedisAdmitted(request[q])
    BY <1>6, <1>10 DEF Spared
  <2>2. request[q].stamp \in zset[KeyOf(q)] /\ request[r].stamp <= n
    BY <1>1, <1>9, <1>10, <2>1 DEF RememberedInv
  <2>3. request[r].stamp < request[q].stamp + Window
    BY <1>1, <1>3, <1>10, <2>2
  <2> QED
    BY <1>7, <1>10, <2>2, <2>3
<1>11. \A q \in Requests : RedisAdmitted(request'[q]) => Kept(q)
  BY <1>6 DEF Spared, Kept
<1> QED
  BY <1>1, <1>2, <1>7, <1>8, <1>9, <1>10, <1>11, QuietStep

\* Time passes.  A key that expires holds nothing that a command in the pipe must be
\* counted with, unless the command has waited for longer than the grace.
LEMMA TickLimiter == LimiterInv /\ Tick => LimiterInv'
<1> SUFFICES ASSUME LimiterInv, Tick PROVE LimiterInv'
  OBVIOUS
<1>1. /\ TypesOK /\ WaitsInv /\ RememberedInv /\ clock \in Nat /\ MaxClock \in Nat
      /\ Window \in Nat /\ Grace \in Nat
      /\ \A q \in Requests : request[q].stamp \in Nat /\ KeyOf(q) \in Keys
      /\ expiresAt \in [Keys -> Nat]
  BY Constants DEF LimiterInv, TypesOK, Numbers
<1>2. /\ clock < MaxClock /\ clock' = clock + 1
      /\ zset' = [k \in Keys |-> IF expiresAt[k] <= clock' THEN {} ELSE zset[k]]
      /\ pipe' = pipe /\ expiresAt' = expiresAt /\ request' = request
  BY DEF Tick
<1>3. TypesOK'
  BY <1>1, <1>2 DEF TypesOK
<1>4. \A i \in DOMAIN pipe : pipe[i] \in Requests
  BY <1>1, LenProperties, ElementOfSeq DEF TypesOK
<1>5. WaitsInv'
  BY <1>1, <1>2, <1>4 DEF WaitsInv
<1>6. ASSUME NEW q \in Requests, RedisAdmitted(request[q]), NEW n \in Nat, MayBeNow(n)',
             n < request[q].stamp + Window, clock' <= n + Grace
      PROVE  request[q].stamp \in zset'[KeyOf(q)]
  <2>2. /\ request[q].stamp + Window + Grace <= expiresAt[KeyOf(q)]
        /\ \A m \in Nat : MayBeNow(m) /\ m < request[q].stamp + Window /\ clock <= m + Grace
                            => request[q].stamp \in zset[KeyOf(q)]
    BY <1>1, <1>6 DEF RememberedInv
  <2>3. ~(expiresAt[KeyOf(q)] <= clock')
    <3>1. expiresAt[KeyOf(q)] \in Nat /\ clock' \in Nat
      BY <1>1, <1>2
    <3>2. clock' < request[q].stamp + Window + Grace
      BY <1>1, <1>6, <3>1
    <3> QED
      BY <1>1, <2>2, <3>1, <3>2
  <2>4. request[q].stamp \in zset[KeyOf(q)]
    <3>1. CASE n = clock'
      <4>1. clock < request[q].stamp + Window /\ clock <= clock + Grace
        BY <1>1, <1>2, <1>6, <3>1
      <4> QED
        BY <1>1, <2>2, <4>1 DEF MayBeNow
    <3>2. CASE n # clock'
      <4>1. MayBeNow(n) /\ clock <= n + Grace
        BY <1>1, <1>2, <1>6, <3>2 DEF MayBeNow
      <4> QED
        BY <1>6, <2>2, <4>1
    <3> QED
      BY <3>1, <3>2
  <2> QED
    BY <1>1, <1>2, <2>3, <2>4
<1>7. \A q \in Requests : RedisAdmitted(request'[q]) => Kept(q)
  BY <1>2 DEF RedisAdmitted, Kept
<1>8. clock <= clock'
  BY <1>1, <1>2
<1> QED
  BY <1>1, <1>2, <1>3, <1>5, <1>6, <1>7, <1>8, QuietStep DEF RememberedInv, Kept

LEMMA NextLimiter == LimiterInv /\ [Next]_vars => LimiterInv'
<1> SUFFICES ASSUME LimiterInv, [Next]_vars PROVE LimiterInv'
  OBVIOUS
<1>1. ASSUME NEW r \in Requests, Send(r) PROVE LimiterInv'
  BY <1>1, SendLimiter
<1>2. ASSUME NEW r \in Requests, Refused(r) PROVE LimiterInv'
  BY <1>2, RefusedLimiter
<1>3. ASSUME UNCHANGED <<clock, pipe, zset, expiresAt, request>> PROVE LimiterInv'
  BY <1>3 DEF LimiterInv, TypesOK, WaitsInv, RememberedInv, RedisAdmitted, MayBeNow,
              RedisWindowLimit, Admitted
<1>4. CleanupInMemoryStore \/ ConnectionChange \/ UNCHANGED vars
        => UNCHANGED <<clock, pipe, zset, expiresAt, request>>
  BY DEF CleanupInMemoryStore, ConnectionChange, vars
<1> QED
  BY <1>1, <1>2, <1>3, <1>4, AnswerCheckLimiter, AnswerUsageLimiter, AnswerResetLimiter,
     ReplyLostLimiter, GivenUpLimiter, TickLimiter DEF Next

\* The sliding window of checkRateLimit and checkRateLimitForEndpoint: however many
\* calls wait with old stamps, are executed twice or given up, and whatever is reset,
\* Redis admits a key at no more instants of a window than the limit of its client, but
\* for what a command admits that was stalled for longer than the grace.
THEOREM WindowLimitHolds == Spec => []RedisWindowLimit
<1>1. LimiterInv => RedisWindowLimit
  BY DEF LimiterInv
<1> QED
  BY <1>1, InitLimiter, NextLimiter, PTL DEF Spec

\* No admission of Redis that still counts is forgotten: neither the expiry of its key
\* nor a report or a check with an old stamp removes it from its sorted set.
THEOREM RedisNeverForgets == Spec => []RedisRemembers
<1>1. LimiterInv => RedisRemembers
  <2> SUFFICES ASSUME LimiterInv, NEW r \in Requests, Counts(r, "redis")
               PROVE  request[r].stamp \in zset[KeyOf(r)]
    BY DEF RedisRemembers
  <2>1. RedisAdmitted(request[r]) /\ clock < request[r].stamp + Window
    BY LimiterAssumption DEF LimiterInv, TypesOK, Counts, AdmittedBy, RedisAdmitted
  <2>2. clock \in Nat /\ MayBeNow(clock) /\ clock <= clock + Grace
    BY LimiterAssumption DEF LimiterInv, TypesOK, MayBeNow
  <2> QED
    BY <2>1, <2>2 DEF LimiterInv, RememberedInv
<1> QED
  BY <1>1, InitLimiter, NextLimiter, PTL DEF Spec

-----------------------------------------------------------------------------
(* Types, and the sizes of what is remembered. *)

\* The least of some stamps exists: the sets 0 .. s of the stamps s of S are ordered
\* by strict inclusion, which is well founded.
LEMMA LeastStamp ==
    ASSUME NEW S \in SUBSET (0 .. MaxClock), S # {}
    PROVE  Min(S) \in S /\ \A y \in S : Min(S) <= y
<1> DEFINE U == 0 .. MaxClock
           T == {0 .. s : s \in S}
<1>1. MaxClock \in Nat /\ S \subseteq Nat
  BY Constants DEF Numbers
<1>2. IsFiniteSet(U)
  BY <1>1, FS_Interval
<1>3. T \subseteq FiniteSubsetsOf(U) /\ T # {}
  <2>1. T \subseteq SUBSET U
    BY <1>1
  <2>2. FiniteSubsetsOf(U) = SUBSET U
    BY <1>2, FS_FiniteSubsetsOfFinite
  <2>3. PICK s \in S : TRUE
    OBVIOUS
  <2>4. 0 .. s \in T
    BY <2>3
  <2> HIDE DEF T, U
  <2> QED
    BY <2>1, <2>2, <2>4
<1>4. IsWellFoundedOn(StrictSubsetOrdering(U), FiniteSubsetsOf(U))
  BY FS_StrictSubsetOrderingWellFounded
<1>5. PICK X \in T : \A Y \in T : <<Y, X>> \notin StrictSubsetOrdering(U)
  BY <1>3, <1>4, WFMin
<1>6. PICK x \in S : X = 0 .. x
  BY <1>5
<1>7. ASSUME NEW y \in S PROVE x <= y
  <2> SUFFICES ASSUME y < x PROVE FALSE
    BY <1>1
  <2>1. 0 .. y \subseteq 0 .. x /\ 0 .. y # 0 .. x /\ x \in 0 .. x /\ x \notin 0 .. y
    BY <1>1
  <2>2. 0 .. y \in SUBSET U /\ 0 .. x \in SUBSET U
    BY <1>1
  <2>3. <<0 .. y, 0 .. x>> \in StrictSubsetOrdering(U)
    BY <2>1, <2>2 DEF StrictSubsetOrdering
  <2> QED
    BY <1>5, <1>6, <2>3
<1> QED
  BY <1>7 DEF Min

LEMMA PositiveLimits ==
    /\ DefaultLimit \in Nat /\ DefaultLimit > 0
    /\ \A c \in Clients : LimitOf(c) \in Nat /\ LimitOf(c) > 0
BY LimiterAssumption DEF LimitOf

\* A set that is as large as a limit has a least stamp.
LEMMA FullHasOldest ==
    ASSUME NEW S \in SUBSET (0 .. MaxClock), NEW n \in Nat, n > 0, Cardinality(S) >= n
    PROVE  Min(S) \in S /\ \A y \in S : Min(S) <= y
<1>1. S # {}
  BY FS_EmptySet
<1> QED
  BY <1>1, LeastStamp

LEMMA FullStoreHasOldest ==
    ASSUME NEW S \in SUBSET ((0 .. MaxClock) \X Requests), Cardinality(S) >= DefaultLimit
    PROVE  \E e \in S : Oldest(S) = e[1] /\ \A f \in S : e[1] <= f[1]
<1>1. S # {}
  BY FS_EmptySet, PositiveLimits
<1>2. {e[1] : e \in S} \in SUBSET (0 .. MaxClock) /\ {e[1] : e \in S} # {}
  BY <1>1
<1>3. Oldest(S) \in {e[1] : e \in S} /\ \A y \in {e[1] : e \in S} : Oldest(S) <= y
  BY <1>2, LeastStamp DEF Oldest
<1> QED
  BY <1>3

\* The record of one request is replaced by a record of the right type.
LEMMA RequestType ==
    ASSUME request \in [Requests -> Requested], NEW r \in Requests, NEW new \in Requested,
           request' = [request EXCEPT ![r] = new]
    PROVE  request' \in [Requests -> Requested]
OBVIOUS

\* A request that is done changes nothing but its phase.
LEMMA DoneType ==
    ASSUME request \in [Requests -> Requested], NEW r \in Requests,
           request' = [request EXCEPT ![r].phase = "done"]
    PROVE  request' \in [Requests -> Requested]
<1>1. request[r] \in Requested
  OBVIOUS
<1>2. [request[r] EXCEPT !.phase = "done"] \in Requested
  BY <1>1 DEF Requested
<1> QED
  BY <1>2

LEMMA ForgivenType ==
    ASSUME request \in [Requests -> Requested], NEW r \in Requests, NEW paths
    PROVE  /\ Forgiven(r, paths) \in [Requests -> Requested]
           /\ [Forgiven(r, paths) EXCEPT ![r].phase = "done"] \in [Requests -> Requested]
<1>1. ASSUME NEW q \in Requests, NEW p \in {"done", "forgiven"}
      PROVE  [request[q] EXCEPT !.phase = p] \in Requested
  BY DEF Requested
<1>2. ASSUME NEW q \in Requests PROVE Forgiven(r, paths)[q] \in Requested
  BY <1>1 DEF Forgiven
<1>3. Forgiven(r, paths) \in [Requests -> Requested]
  BY <1>2 DEF Forgiven
<1>4. [Forgiven(r, paths)[r] EXCEPT !.phase = "done"] \in Requested
  BY <1>2 DEF Requested
<1> QED
  BY <1>3, <1>4

LEMMA InWindowType ==
    ASSUME TypeOK, NEW c \in Clients
    PROVE  InWindow(store[c], clock) \in SUBSET ((0 .. MaxClock) \X Requests)
BY DEF TypeOK, InWindow

\* What the fallback answers, and what it leaves in memory.
LEMMA CheckInMemoryType ==
    ASSUME TypeOK, NEW r \in Requests, CheckInMemory(r)
    PROVE  /\ store' \in [Clients -> SUBSET ((0 .. MaxClock) \X Requests)]
           /\ request' \in [Requests -> Requested]
<1> DEFINE c == ClientOf[r]
           live == InWindow(store[c], clock)
           full == Cardinality(live) >= DefaultLimit
           new == [phase |-> IF full THEN "denied" ELSE "admitted", via |-> "memory",
                   stamp |-> clock,
                   resetAt |-> Window + (IF full THEN Oldest(live) ELSE clock), late |-> FALSE]
<1>1. c \in Clients /\ live \in SUBSET ((0 .. MaxClock) \X Requests)
  BY Constants, InWindowType
<1>2. /\ store' = [store EXCEPT ![c] = IF full THEN live ELSE live \cup {<<clock, r>>}]
      /\ request' = [request EXCEPT ![r] = new]
  BY DEF CheckInMemory
<1>3. /\ clock \in 0 .. MaxClock /\ Window \in Nat /\ MaxClock \in Nat
      /\ store \in [Clients -> SUBSET ((0 .. MaxClock) \X Requests)]
      /\ request \in [Requests -> Requested]
  BY Constants DEF TypeOK, Numbers
<1>4. full => Oldest(live) \in 0 .. MaxClock
  BY <1>1, FullStoreHasOldest
<1>5. (IF full THEN Oldest(live) ELSE clock) \in 0 .. MaxClock
  BY <1>3, <1>4
<1> HIDE DEF live, c
<1>6. new \in Requested
  BY <1>3, <1>5 DEF Requested
<1> HIDE DEF new
<1>7. request' \in [Requests -> Requested]
  BY <1>2, <1>3, <1>6
<1>8. store' \in [Clients -> SUBSET ((0 .. MaxClock) \X Requests)]
  BY <1>1, <1>2, <1>3
<1> QED
  BY <1>7, <1>8

LEMMA FallBackType ==
    ASSUME TypeOK, NEW r \in Requests, FallBack(r)
    PROVE  /\ store' \in [Clients -> SUBSET ((0 .. MaxClock) \X Requests)]
           /\ request' \in [Requests -> Requested]
<1>1. CASE CheckInMemory(r)
  BY <1>1, CheckInMemoryType
<1>2. CASE ResetInMemory(r)
  BY <1>2, ForgivenType DEF ResetInMemory, TypeOK
<1>3. CASE request' = [request EXCEPT ![r].phase = "done"] /\ UNCHANGED store
  <2>1. request \in [Requests -> Requested]
        /\ store \in [Clients -> SUBSET ((0 .. MaxClock) \X Requests)]
    BY DEF TypeOK
  <2> QED
    BY <1>3, <2>1, DoneType
<1> QED
  BY <1>1, <1>2, <1>3 DEF FallBack

LEMMA PrunedType ==
    ASSUME TypeOK, NEW k \in Keys, NEW now
    PROVE  Pruned(zset[k], now) \in SUBSET (0 .. MaxClock)
BY DEF TypeOK, Pruned

LEMMA EvalType ==
    ASSUME TypeOK, NEW r \in Requests, EvalLua(r)
    PROVE  /\ zset' \in [Keys -> SUBSET (0 .. MaxClock)]
           /\ expiresAt' \in [Keys -> 0 .. MaxClock + Window + Grace]
<1> DEFINE k == KeyOf(r)
           now == request[r].stamp
<1>1. /\ k \in Keys /\ Pruned(zset[k], now) \in SUBSET (0 .. MaxClock)
  BY Constants, PrunedType
<1>2. now \in 0 .. MaxClock /\ clock + Window + Grace \in 0 .. MaxClock + Window + Grace
  BY Constants DEF TypeOK, Requested, Numbers
<1>3. /\ zset' = [zset EXCEPT ![k] = IF LuaDenies(r) THEN Pruned(zset[k], now)
                                     ELSE Pruned(zset[k], now) \cup {now}]
      /\ expiresAt' = [expiresAt EXCEPT ![k] = IF LuaDenies(r) THEN expiresAt[k]
                                               ELSE clock + Window + Grace]
  BY DEF EvalLua
<1> HIDE DEF k, now
<1> QED
  BY <1>1, <1>2, <1>3 DEF TypeOK

LEMMA LuaReplyType ==
    ASSUME TypeOK, NEW r \in Requests, LuaReply(r)
    PROVE  request' \in [Requests -> Requested]
<1> DEFINE now == request[r].stamp
           z == Pruned(zset[KeyOf(r)], now)
           new == [phase |-> IF LuaDenies(r) THEN "denied" ELSE "admitted", via |-> "redis",
                   stamp |-> now, resetAt |-> Window + (IF LuaDenies(r) THEN Min(z) ELSE now),
                   late |-> ~LuaDenies(r) /\ now + Grace < clock]
<1>1. request' = [request EXCEPT ![r] = new]
  BY DEF LuaReply
<1>2. /\ now \in 0 .. MaxClock /\ Window \in Nat /\ MaxClock \in Nat
      /\ request \in [Requests -> Requested]
  BY Constants DEF TypeOK, Requested, Numbers
<1>3. ASSUME LuaDenies(r) PROVE Min(z) \in 0 .. MaxClock
  <2>1. z \in SUBSET (0 .. MaxClock) /\ ClientOf[r] \in Clients
    BY Constants, PrunedType
  <2>2. Cardinality(z) >= LimitOf(ClientOf[r])
    BY <1>3 DEF LuaDenies
  <2> HIDE DEF z
  <2> QED
    BY <2>1, <2>2, FullHasOldest, PositiveLimits
<1> HIDE DEF z, now
<1>4. (IF LuaDenies(r) THEN Min(z) ELSE now) \in 0 .. MaxClock
  BY <1>2, <1>3
<1>5. new \in Requested
  BY <1>2, <1>4 DEF Requested
<1> HIDE DEF new
<1> QED
  BY <1>1, <1>2, <1>5, RequestType

LEMMA InitType == Init => TypeOK
<1> SUFFICES ASSUME Init PROVE TypeOK
  OBVIOUS
<1>1. pipe \in Seq(Requests)
  BY EmptySeq DEF Init
<1>2. request \in [Requests -> Requested]
  BY Constants DEF Init, Requested, Numbers
<1> QED
  BY <1>1, <1>2, Constants DEF Init, TypeOK, Numbers

LEMMA NextType == TypeOK /\ [Next]_vars => TypeOK'
<1> SUFFICES ASSUME TypeOK, [Next]_vars PROVE TypeOK'
  OBVIOUS
<1>1. /\ pipe # <<>> => Head(pipe) \in Requests /\ Tail(pipe) \in Seq(Requests)
      /\ \A r \in Requests : KeyOf(r) \in Keys /\ ClientOf[r] \in Clients
      /\ MaxClock \in Nat /\ Window \in Nat /\ Grace \in Nat
  BY Constants, HeadTailProperties DEF TypeOK, Numbers
<1>2. ASSUME NEW r \in Requests, Send(r) PROVE TypeOK'
  <2>1. pipe' \in Seq(Requests)
    BY <1>2, AppendProperties DEF Send, TypeOK
  <2>2. request' \in [Requests -> Requested]
    <3>1. request[r] \in Requested /\ request \in [Requests -> Requested]
      BY DEF TypeOK
    <3>2. clock \in 0 .. MaxClock
      BY DEF TypeOK
    <3>3. [request[r] EXCEPT !.phase = "sent", !.stamp = clock] \in Requested
      BY <3>1, <3>2 DEF Requested
    <3>4. request' = [request EXCEPT ![r] =
                        [request[r] EXCEPT !.phase = "sent", !.stamp = clock]]
      BY <1>2, <3>1 DEF Send
    <3> QED
      BY <3>1, <3>3, <3>4, RequestType
  <2> QED
    BY <1>2, <2>1, <2>2 DEF Send, TypeOK
<1>3. ASSUME NEW r \in Requests, Refused(r) PROVE TypeOK'
  BY <1>3, FallBackType DEF Refused, TypeOK
<1>4. CASE AnswerCheck
  <2>1. /\ Head(pipe) \in Requests /\ pipe' \in Seq(Requests)
        /\ EvalLua(Head(pipe)) /\ LuaReply(Head(pipe))
    BY <1>1, <1>4 DEF AnswerCheck
  <2> QED
    BY <1>4, <2>1, EvalType, LuaReplyType DEF AnswerCheck, TypeOK
<1>5. CASE AnswerUsage
  <2>1. /\ Head(pipe) \in Requests /\ pipe' \in Seq(Requests) /\ Prune(Head(pipe))
        /\ request' = [request EXCEPT ![Head(pipe)].phase = "done"]
    BY <1>1, <1>5 DEF AnswerUsage
  <2>2. zset' \in [Keys -> SUBSET (0 .. MaxClock)]
    BY <1>1, <2>1, PrunedType DEF Prune, TypeOK
  <2>3. request' \in [Requests -> Requested]
    BY <2>1, DoneType DEF TypeOK
  <2> QED
    BY <1>5, <2>1, <2>2, <2>3 DEF AnswerUsage, TypeOK
<1>6. CASE AnswerReset
  <2>1. /\ Head(pipe) \in Requests /\ pipe' \in Seq(Requests) /\ Delete(Head(pipe))
        /\ request' = [Forgiven(Head(pipe), {"redis", "memory"})
                          EXCEPT ![Head(pipe)].phase = "done"]
    BY <1>1, <1>6 DEF AnswerReset
  <2>2. request' \in [Requests -> Requested]
    BY <2>1, ForgivenType DEF TypeOK
  <2> QED
    BY <1>1, <1>6, <2>1, <2>2 DEF AnswerReset, Delete, TypeOK
<1>7. CASE ReplyLost
  <2> DEFINE r == Head(pipe)
  <2>1. /\ r \in Requests /\ UNCHANGED <<clock, connected, pipe, store>>
        /\ \/ EvalLua(r) /\ UNCHANGED request
           \/ Prune(r) /\ UNCHANGED <<expiresAt, request>>
           \/ Delete(r) /\ request' = Forgiven(r, {"redis"}) /\ UNCHANGED expiresAt
    BY <1>1, <1>7 DEF ReplyLost
  <2>2. lostReplies' \in 0 .. MaxLostReplies
    BY <1>7, Constants DEF ReplyLost, TypeOK, Numbers
  <2> HIDE DEF r
  <2>3. zset' \in [Keys -> SUBSET (0 .. MaxClock)]
    <3>1. CASE EvalLua(r)
      BY <2>1, <3>1, EvalType
    <3>2. CASE Prune(r)
      BY <1>1, <2>1, <3>2, PrunedType DEF Prune, TypeOK
    <3>3. CASE Delete(r)
      BY <1>1, <2>1, <3>3 DEF Delete, TypeOK
    <3> QED
      BY <2>1, <3>1, <3>2, <3>3
  <2>4. expiresAt' \in [Keys -> 0 .. MaxClock + Window + Grace]
    BY <2>1, EvalType DEF TypeOK
  <2>5. request' \in [Requests -> Requested]
    <3>1. request \in [Requests -> Requested]
      BY DEF TypeOK
    <3>2. Forgiven(r, {"redis"}) \in [Requests -> Requested]
      BY <2>1, <3>1, ForgivenType
    <3> QED
      BY <2>1, <3>1, <3>2
  <2> QED
    BY <2>1, <2>2, <2>3, <2>4, <2>5 DEF TypeOK
<1>8. CASE GivenUp
  BY <1>1, <1>8, FallBackType DEF GivenUp, TypeOK
<1>9. CASE CleanupInMemoryStore
  BY <1>9, InWindowType DEF CleanupInMemoryStore, TypeOK
<1>10. CASE ConnectionChange
  BY <1>10 DEF ConnectionChange, TypeOK
<1>11. CASE Tick
  BY <1>1, <1>11 DEF Tick, TypeOK
<1>12. CASE UNCHANGED vars
  BY <1>12 DEF vars, TypeOK
<1> QED
  BY <1>2, <1>3, <1>4, <1>5, <1>6, <1>7, <1>8, <1>9, <1>10, <1>11, <1>12 DEF Next

\* Types: in particular every denial announces a resetAt, a window after an entry that
\* exists: the script and the fallback deny only when they have counted one.
THEOREM TypeCorrect == Spec => []TypeOK
<1> QED
  BY InitType, NextType, PTL DEF Spec

-----------------------------------------------------------------------------
(* The window of the fallback. *)

MemoryAdmitted(rq) == rq.phase = "admitted" /\ rq.via = "memory"

\* No list outgrows the global limit.
StoreSizes ==
    \A c \in Clients : IsFiniteSet(store[c]) /\ Cardinality(store[c]) <= DefaultLimit

\* An admission has its entry as long as its window has not passed.
MemoryRemembered ==
    \A r \in Requests : MemoryAdmitted(request[r]) =>
      /\ request[r].stamp <= clock
      /\ clock < request[r].stamp + Window => <<request[r].stamp, r>> \in store[ClientOf[r]]

MemoryAdmits(c, t) ==
    {r \in Requests : /\ MemoryAdmitted(request[r]) /\ ClientOf[r] = c
                      /\ request[r].stamp <= t /\ t < request[r].stamp + Window}

MemoryWindow ==
    \A c \in Clients, t \in 0 .. MaxClock :
      IsFiniteSet(MemoryAdmits(c, t)) /\ Cardinality(MemoryAdmits(c, t)) <= DefaultLimit

MemoryInv == TypeOK /\ StoreSizes /\ MemoryRemembered /\ MemoryWindow

LEMMA InitMemory == Init => MemoryInv
<1> SUFFICES ASSUME Init PROVE MemoryInv
  OBVIOUS
<1>1. TypeOK
  BY InitType
<1>2. IsFiniteSet({}) /\ Cardinality({}) = 0 /\ 0 <= DefaultLimit
  BY FS_EmptySet, PositiveLimits
<1>3. StoreSizes
  BY <1>2 DEF Init, StoreSizes
<1>4. \A c, t : MemoryAdmits(c, t) = {}
  BY DEF Init, MemoryAdmits, MemoryAdmitted
<1>5. MemoryRemembered
  BY DEF Init, MemoryRemembered, MemoryAdmitted
<1> QED
  BY <1>1, <1>2, <1>3, <1>4, <1>5 DEF MemoryInv, MemoryWindow

\* Requests that each have an entry of their own are as few as the entries.
LEMMA EachItsEntry ==
    ASSUME NEW A, NEW L, IsFiniteSet(L), NEW n \in Nat, Cardinality(L) <= n,
           NEW stampOf, \A r \in A : <<stampOf[r], r>> \in L
    PROVE  IsFiniteSet(A) /\ Cardinality(A) <= n
<1> DEFINE f == [r \in A |-> <<stampOf[r], r>>]
<1>1. f \in [A -> L]
  OBVIOUS
<1>2. \A x, y \in A : f[x] = f[y] => x = y
  OBVIOUS
<1> HIDE DEF f
<1>3. f \in Injection(A, L)
  BY <1>1, <1>2 DEF Injection, IsInjective
<1>4. IsFiniteSet(A) /\ Cardinality(A) <= Cardinality(L)
  BY <1>3, FS_Injection
<1>5. Cardinality(A) \in Nat /\ Cardinality(L) \in Nat
  BY <1>4, FS_CardinalityType
<1> QED
  BY <1>4, <1>5

LEMMA SmallerSet ==
    ASSUME NEW L, IsFiniteSet(L), NEW n \in Nat, Cardinality(L) <= n, NEW A \in SUBSET L
    PROVE  IsFiniteSet(A) /\ Cardinality(A) <= n
<1>1. IsFiniteSet(A) /\ Cardinality(A) <= Cardinality(L)
  BY FS_Subset
<1>2. Cardinality(A) \in Nat /\ Cardinality(L) \in Nat
  BY <1>1, FS_CardinalityType
<1> QED
  BY <1>1, <1>2

\* A step at which the fallback admits nothing, and which takes nothing that counts
\* out of the lists.
LEMMA QuietMemory ==
    ASSUME MemoryInv, TypeOK', StoreSizes', clock <= clock',
           \A q \in Requests : MemoryAdmitted(request'[q]) =>
             /\ MemoryAdmitted(request[q]) /\ request'[q].stamp = request[q].stamp
             /\ clock' < request[q].stamp + Window =>
                  (<<request[q].stamp, q>> \in store[ClientOf[q]]
                     => <<request[q].stamp, q>> \in store'[ClientOf[q]])
    PROVE  MemoryInv'
<1>1. TypeOK /\ MemoryRemembered /\ MemoryWindow
  BY DEF MemoryInv
<1>2. /\ clock \in Nat /\ clock' \in Nat /\ Window \in Nat
      /\ \A q \in Requests : request[q].stamp \in Nat
  BY <1>1, Constants DEF TypeOK, Requested, Numbers
<1>3. MemoryRemembered'
  <2> SUFFICES ASSUME NEW q \in Requests, MemoryAdmitted(request'[q])
               PROVE  /\ request'[q].stamp <= clock'
                      /\ clock' < request'[q].stamp + Window
                           => <<request'[q].stamp, q>> \in store'[ClientOf[q]]
    BY DEF MemoryRemembered
  <2>1. /\ request'[q].stamp = request[q].stamp /\ request[q].stamp <= clock
        /\ clock < request[q].stamp + Window => <<request[q].stamp, q>> \in store[ClientOf[q]]
    BY <1>1 DEF MemoryRemembered
  <2> QED
    BY <1>2, <2>1
<1>4. ASSUME NEW c \in Clients, NEW t \in 0 .. MaxClock
      PROVE  IsFiniteSet(MemoryAdmits(c, t)') /\ Cardinality(MemoryAdmits(c, t)') <= DefaultLimit
  <2>1. MemoryAdmits(c, t)' \in SUBSET MemoryAdmits(c, t)
    BY DEF MemoryAdmits
  <2>2. IsFiniteSet(MemoryAdmits(c, t)) /\ Cardinality(MemoryAdmits(c, t)) <= DefaultLimit
    BY <1>1 DEF MemoryWindow
  <2> QED
    BY <2>1, <2>2, SmallerSet, PositiveLimits
<1> QED
  BY <1>3, <1>4 DEF MemoryInv, MemoryWindow

\* What the fallback leaves in the list of the client: no more entries than the limit.
LEMMA CheckInMemorySizes ==
    ASSUME TypeOK, StoreSizes, NEW r \in Requests, CheckInMemory(r)
    PROVE  StoreSizes'
<1> DEFINE c == ClientOf[r]
           live == InWindow(store[c], clock)
           full == Cardinality(live) >= DefaultLimit
<1>1. /\ c \in Clients /\ IsFiniteSet(store[c]) /\ Cardinality(store[c]) <= DefaultLimit
      /\ DefaultLimit \in Nat
  BY Constants, PositiveLimits DEF StoreSizes
<1>2. live \in SUBSET store[c]
  BY DEF InWindow
<1> HIDE DEF live
<1>3. IsFiniteSet(live) /\ Cardinality(live) <= DefaultLimit /\ Cardinality(live) \in Nat
  BY <1>1, <1>2, SmallerSet, FS_CardinalityType
<1>4. ~full => IsFiniteSet(live \cup {<<clock, r>>})
               /\ Cardinality(live \cup {<<clock, r>>}) <= DefaultLimit
  <2> DEFINE e == <<clock, r>>
  <2>1. /\ IsFiniteSet(live \cup {e})
        /\ Cardinality(live \cup {e}) = IF e \in live THEN Cardinality(live)
                                        ELSE Cardinality(live) + 1
    BY <1>3, FS_AddElement
  <2> HIDE DEF e
  <2>2. ~full => Cardinality(live \cup {e}) <= DefaultLimit
    BY <1>1, <1>3, <2>1
  <2> QED
    BY <2>1, <2>2 DEF e
<1>5. store' = [store EXCEPT ![c] = IF full THEN live ELSE live \cup {<<clock, r>>}]
  BY DEF CheckInMemory, live
<1> HIDE DEF full, c
<1> QED
  BY <1>3, <1>4, <1>5 DEF StoreSizes, TypeOK

\* The fallback answers a check: an admission counts with every admission of the
\* windows it is in, for they all have their entries.
LEMMA CheckInMemoryKeeps ==
    ASSUME MemoryInv, NEW r \in Requests, CheckInMemory(r), clock' = clock, TypeOK'
    PROVE  MemoryInv'
<1> DEFINE c == ClientOf[r]
           live == InWindow(store[c], clock)
           full == Cardinality(live) >= DefaultLimit
           new == [phase |-> IF full THEN "denied" ELSE "admitted", via |-> "memory",
                   stamp |-> clock,
                   resetAt |-> Window + (IF full THEN Oldest(live) ELSE clock), late |-> FALSE]
<1>1. TypeOK /\ StoreSizes /\ MemoryRemembered /\ MemoryWindow /\ StoreSizes'
  BY CheckInMemorySizes DEF MemoryInv
<1>2. /\ store' = [store EXCEPT ![c] = IF full THEN live ELSE live \cup {<<clock, r>>}]
      /\ request' = [request EXCEPT ![r] = new]
  BY DEF CheckInMemory
<1>3. /\ c \in Clients /\ clock \in Nat /\ Window \in Nat /\ Window > 0
      /\ \A q \in Requests : request[q].stamp \in Nat /\ ClientOf[q] \in Clients
      /\ DefaultLimit \in Nat
  BY <1>1, Constants, PositiveLimits DEF TypeOK, Requested, Numbers
<1>4. new.stamp = clock /\ new.via = "memory" /\ (full => new.phase # "admitted")
  OBVIOUS
<1>5. live = {e \in store[c] : e[1] + Window > clock}
  BY DEF InWindow
<1> HIDE DEF new, live
<1>6. request'[r] = new /\ \A q \in Requests \ {r} : request'[q] = request[q]
  BY <1>1, <1>2 DEF TypeOK
<1>7. \A q \in Requests, s \in Nat : <<s, q>> \in store[ClientOf[q]] /\ clock < s + Window
                                        => <<s, q>> \in store'[ClientOf[q]]
  <2> SUFFICES ASSUME NEW q \in Requests, NEW s \in Nat, <<s, q>> \in store[ClientOf[q]],
                      clock < s + Window
               PROVE  <<s, q>> \in store'[ClientOf[q]]
    OBVIOUS
  <2>1. CASE ClientOf[q] = c
    <3>1. <<s, q>> \in live
      BY <1>3, <1>5, <2>1
    <3>2. live \subseteq store'[c]
      BY <1>1, <1>2, <1>3 DEF TypeOK
    <3> QED
      BY <2>1, <3>1, <3>2
  <2>2. CASE ClientOf[q] # c
    BY <1>1, <1>2, <1>3, <2>2 DEF TypeOK
  <2> QED
    BY <2>1, <2>2
<1>8. CASE full
  <2>1. ~MemoryAdmitted(request'[r])
    BY <1>4, <1>6, <1>8 DEF MemoryAdmitted
  <2> QED
    BY <1>1, <1>3, <1>6, <1>7, <2>1, QuietMemory
<1>9. CASE ~full
  <2> DEFINE more == live \cup {<<clock, r>>}
  <2>1. store'[c] = more
    BY <1>1, <1>2, <1>3, <1>9 DEF TypeOK
  <2>2. IsFiniteSet(more) /\ Cardinality(more) <= DefaultLimit
    BY <1>1, <1>3, <2>1 DEF StoreSizes
  <2>3. MemoryRemembered'
    <3> SUFFICES ASSUME NEW q \in Requests, MemoryAdmitted(request'[q])
                 PROVE  /\ request'[q].stamp <= clock
                        /\ clock < request'[q].stamp + Window
                             => <<request'[q].stamp, q>> \in store'[ClientOf[q]]
      BY DEF MemoryRemembered
    <3>1. CASE q = r
      BY <1>3, <1>4, <1>6, <2>1, <3>1
    <3>2. CASE q # r
      BY <1>1, <1>3, <1>6, <1>7, <3>2 DEF MemoryRemembered
    <3> QED
      BY <3>1, <3>2
  <2>4. ASSUME NEW d \in Clients, NEW t \in 0 .. MaxClock
        PROVE  /\ IsFiniteSet(MemoryAdmits(d, t)')
               /\ Cardinality(MemoryAdmits(d, t)') <= DefaultLimit
    <3>1. CASE d = c /\ clock <= t
      <4> DEFINE stampOf == [q \in Requests |-> request'[q].stamp]
                 A == MemoryAdmits(d, t)'
      <4>1. ASSUME NEW q \in A PROVE <<stampOf[q], q>> \in more
        <5>1. /\ q \in Requests /\ MemoryAdmitted(request'[q]) /\ ClientOf[q] = c
              /\ t < request'[q].stamp + Window
          BY <3>1, <4>1 DEF MemoryAdmits
        <5>2. request'[q].stamp \in Nat /\ t \in Nat
          BY <1>3, <1>4, <1>6, <5>1, Constants DEF Numbers
        <5>3. clock < request'[q].stamp + Window
          BY <1>3, <3>1, <5>1, <5>2
        <5> QED
          BY <2>1, <2>3, <5>1, <5>3 DEF MemoryRemembered
      <4> HIDE DEF stampOf, A, more
      <4> QED
        BY <1>3, <2>2, <4>1, EachItsEntry DEF A
    <3>2. CASE ~(d = c /\ clock <= t)
      <4>1. MemoryAdmits(d, t)' \in SUBSET MemoryAdmits(d, t)
        BY <1>4, <1>6, <3>2 DEF MemoryAdmits
      <4>2. IsFiniteSet(MemoryAdmits(d, t)) /\ Cardinality(MemoryAdmits(d, t)) <= DefaultLimit
        BY <1>1 DEF MemoryWindow
      <4> QED
        BY <1>3, <4>1, <4>2, SmallerSet
    <3> QED
      BY <3>1, <3>2
  <2> QED
    BY <1>1, <2>3, <2>4 DEF MemoryInv, MemoryWindow
<1> QED
  BY <1>8, <1>9

\* What a reset leaves of the admissions by the fallback: none of its client.
LEMMA ForgivenMemory ==
    ASSUME TypeOK, NEW r \in Requests, NEW paths, "memory" \in paths,
           request' = [Forgiven(r, paths) EXCEPT ![r].phase = "done"],
           NEW q \in Requests, MemoryAdmitted(request'[q])
    PROVE  ClientOf[q] # ClientOf[r] /\ request'[q] = request[q]
<1> DEFINE after == Forgiven(r, paths)
<1>1. request[q] \in Requested /\ after \in [Requests -> Requested]
  BY ForgivenType DEF TypeOK
<1>2. q # r /\ request'[q] = after[q]
  <2> HIDE DEF after
  <2>1. q # r
    <3> SUFFICES ASSUME q = r PROVE FALSE
      OBVIOUS
    <3>1. request'[q] = [after[r] EXCEPT !.phase = "done"]
      BY <1>1 DEF after
    <3>2. request'[q].phase = "done"
      BY <1>1, <3>1 DEF Requested
    <3> QED
      BY <3>2 DEF MemoryAdmitted
  <2> QED
    BY <1>1, <2>1 DEF after
<1>3. [request[q] EXCEPT !.phase = "forgiven"].phase = "forgiven"
  BY <1>1 DEF Requested
<1>4. request'[q] # [request[q] EXCEPT !.phase = "forgiven"]
  BY <1>3 DEF MemoryAdmitted
<1>5. request'[q] = request[q] /\ ~(ClientOf[q] = ClientOf[r] /\ MemoryAdmitted(request[q]))
  BY <1>2, <1>4 DEF Forgiven, MemoryAdmitted
<1> QED
  BY <1>5

LEMMA ResetMemory ==
    ASSUME MemoryInv, TypeOK', clock' = clock, NEW r \in Requests, NEW paths,
           "memory" \in paths,
           request' = [Forgiven(r, paths) EXCEPT ![r].phase = "done"],
           store' = [store EXCEPT ![ClientOf[r]] = {}]
    PROVE  MemoryInv'
<1>1. TypeOK /\ StoreSizes /\ ClientOf[r] \in Clients
      /\ \A q \in Requests : ClientOf[q] \in Clients
  BY Constants DEF MemoryInv
<1>2. StoreSizes'
  BY <1>1, FS_EmptySet, PositiveLimits DEF StoreSizes, TypeOK
<1>3. ASSUME NEW q \in Requests, MemoryAdmitted(request'[q])
      PROVE  /\ MemoryAdmitted(request[q]) /\ request'[q].stamp = request[q].stamp
             /\ store'[ClientOf[q]] = store[ClientOf[q]]
  <2>1. ClientOf[q] # ClientOf[r] /\ request'[q] = request[q]
    BY <1>1, <1>3, ForgivenMemory
  <2> QED
    BY <1>1, <1>3, <2>1 DEF TypeOK
<1>4. clock <= clock'
  BY <1>1, Constants DEF TypeOK, Numbers
<1> QED
  BY <1>2, <1>3, <1>4, QuietMemory

\* A step that leaves the memory alone and ends or begins a request without it.
LEMMA ElsewhereMemory ==
    ASSUME MemoryInv, TypeOK', clock' = clock, store' = store, NEW r \in Requests,
           NEW new, request' = [request EXCEPT ![r] = new], ~MemoryAdmitted(new)
    PROVE  MemoryInv'
<1>1. TypeOK /\ StoreSizes /\ StoreSizes' /\ clock <= clock'
  BY Constants DEF MemoryInv, StoreSizes, TypeOK, Numbers
<1>2. request'[r] = new /\ \A q \in Requests \ {r} : request'[q] = request[q]
  BY <1>1 DEF TypeOK
<1> QED
  BY <1>1, <1>2, QuietMemory

LEMMA FallBackMemory ==
    ASSUME MemoryInv, TypeOK', clock' = clock, NEW r \in Requests, FallBack(r)
    PROVE  MemoryInv'
<1>1. CASE CheckInMemory(r)
  BY <1>1, CheckInMemoryKeeps
<1>2. CASE ResetInMemory(r)
  BY <1>2, ResetMemory DEF ResetInMemory
<1>3. CASE request' = [request EXCEPT ![r].phase = "done"] /\ UNCHANGED store
  <2> DEFINE new == [request[r] EXCEPT !.phase = "done"]
  <2>1. request' = [request EXCEPT ![r] = new] /\ store' = store
    BY <1>3
  <2>2. ~MemoryAdmitted(new)
    BY DEF MemoryInv, MemoryAdmitted, TypeOK, Requested
  <2> HIDE DEF new
  <2> QED
    BY <2>1, <2>2, ElsewhereMemory
<1> QED
  BY <1>1, <1>2, <1>3 DEF FallBack

LEMMA NextMemory == MemoryInv /\ [Next]_vars => MemoryInv'
<1> SUFFICES ASSUME MemoryInv, [Next]_vars PROVE MemoryInv'
  OBVIOUS
<1>1. TypeOK /\ TypeOK' /\ StoreSizes
  BY NextType DEF MemoryInv
<1>2. pipe # <<>> => Head(pipe) \in Requests
  BY <1>1, HeadTailProperties DEF TypeOK
<1>3. ASSUME NEW r \in Requests, Send(r) PROVE MemoryInv'
  <2> DEFINE new == [request[r] EXCEPT !.phase = "sent", !.stamp = clock]
  <2>1. request' = [request EXCEPT ![r] = new] /\ clock' = clock /\ store' = store
    BY <1>1, <1>3 DEF Send, TypeOK
  <2>2. ~MemoryAdmitted(new)
    BY <1>1 DEF MemoryAdmitted, TypeOK, Requested
  <2> HIDE DEF new
  <2> QED
    BY <1>1, <2>1, <2>2, ElsewhereMemory
<1>4. ASSUME NEW r \in Requests, Refused(r) PROVE MemoryInv'
  BY <1>1, <1>4, FallBackMemory DEF Refused
<1>5. CASE AnswerCheck
  <2> DEFINE r == Head(pipe)
             now == request[r].stamp
             new == [phase |-> IF LuaDenies(r) THEN "denied" ELSE "admitted", via |-> "redis",
                     stamp |-> now, resetAt |-> Window + (IF LuaDenies(r)
                                 THEN Min(Pruned(zset[KeyOf(r)], now)) ELSE now),
                     late |-> ~LuaDenies(r) /\ now + Grace < clock]
  <2>1. r \in Requests /\ request' = [request EXCEPT ![r] = new]
        /\ clock' = clock /\ store' = store
    BY <1>2, <1>5 DEF AnswerCheck, LuaReply
  <2>2. ~MemoryAdmitted(new)
    BY DEF MemoryAdmitted
  <2> HIDE DEF new, r
  <2> QED
    BY <1>1, <2>1, <2>2, ElsewhereMemory
<1>6. CASE AnswerUsage
  <2> DEFINE r == Head(pipe)
             new == [request[r] EXCEPT !.phase = "done"]
  <2>1. r \in Requests /\ request' = [request EXCEPT ![r] = new]
        /\ clock' = clock /\ store' = store
    BY <1>1, <1>2, <1>6 DEF AnswerUsage, TypeOK
  <2>2. ~MemoryAdmitted(new)
    BY <1>1, <2>1 DEF MemoryAdmitted, TypeOK, Requested
  <2> HIDE DEF new, r
  <2> QED
    BY <1>1, <2>1, <2>2, ElsewhereMemory
<1>7. CASE AnswerReset
  BY <1>1, <1>2, <1>7, ResetMemory DEF AnswerReset
<1>8. CASE GivenUp
  BY <1>1, <1>2, <1>8, FallBackMemory DEF GivenUp
<1>9. CASE CleanupInMemoryStore
  <2>1. \A c \in Clients : store'[c] = {e \in store[c] : e[1] + Window > clock}
    BY <1>9 DEF CleanupInMemoryStore, InWindow
  <2>2. StoreSizes'
    BY <1>1, <2>1, SmallerSet, PositiveLimits DEF StoreSizes
  <2>3. /\ clock' = clock /\ request' = request /\ clock \in Nat /\ Window \in Nat
        /\ \A q \in Requests : request[q].stamp \in Nat /\ ClientOf[q] \in Clients
    BY <1>1, <1>9, Constants DEF CleanupInMemoryStore, TypeOK, Requested, Numbers
  <2>4. ASSUME NEW q \in Requests, clock' < request[q].stamp + Window,
               <<request[q].stamp, q>> \in store[ClientOf[q]]
        PROVE  <<request[q].stamp, q>> \in store'[ClientOf[q]]
    BY <2>1, <2>3, <2>4
  <2> QED
    BY <1>1, <2>2, <2>3, <2>4, QuietMemory
<1>10. CASE Tick
  <2>1. /\ clock <= clock' /\ store' = store /\ request' = request /\ StoreSizes'
    BY <1>1, <1>10, Constants DEF Tick, StoreSizes, TypeOK, Numbers
  <2> QED
    BY <1>1, <2>1, QuietMemory
<1>11. CASE UNCHANGED <<clock, store, request>>
  <2>1. clock <= clock' /\ StoreSizes'
    BY <1>1, <1>11, Constants DEF StoreSizes, TypeOK, Numbers
  <2> QED
    BY <1>1, <1>11, <2>1, QuietMemory
<1>12. CASE ReplyLost
  <2>1. clock' = clock /\ store' = store /\ StoreSizes' /\ clock <= clock'
    BY <1>1, <1>12, Constants DEF ReplyLost, StoreSizes, TypeOK, Numbers
  <2>2. request' = request \/ request' = Forgiven(Head(pipe), {"redis"})
    BY <1>12 DEF ReplyLost
  <2>3. ASSUME NEW q \in Requests, MemoryAdmitted(request'[q]) PROVE request'[q] = request[q]
    <3>1. request[q] \in Requested
      BY <1>1 DEF TypeOK
    <3>2. [request[q] EXCEPT !.phase = "forgiven"].phase = "forgiven"
      BY <3>1 DEF Requested
    <3>3. request'[q] = request[q] \/ request'[q] = [request[q] EXCEPT !.phase = "forgiven"]
      BY <2>2 DEF Forgiven
    <3> QED
      BY <2>3, <3>2, <3>3 DEF MemoryAdmitted
  <2> QED
    BY <1>1, <2>1, <2>3, QuietMemory
<1>13. ConnectionChange \/ UNCHANGED vars => UNCHANGED <<clock, store, request>>
  BY DEF ConnectionChange, vars
<1> QED
  BY <1>3, <1>4, <1>5, <1>6, <1>7, <1>8, <1>9, <1>10, <1>11, <1>12, <1>13 DEF Next

\* The fallback's window: whatever is cleaned up, reset or given up, it admits no more
\* requests of a client in any window than the global limit.
THEOREM MemoryWindowHolds == Spec => []MemoryWindowLimit
<1>1. ASSUME MemoryInv, NEW c \in Clients, NEW t \in 0 .. MaxClock
      PROVE  Cardinality({r \in Admitted("memory", t) : ClientOf[r] = c}) <= DefaultLimit
  <2>1. {r \in Admitted("memory", t) : ClientOf[r] = c} \in SUBSET MemoryAdmits(c, t)
    BY DEF Admitted, MemoryAdmits, MemoryAdmitted
  <2>2. IsFiniteSet(MemoryAdmits(c, t)) /\ Cardinality(MemoryAdmits(c, t)) <= DefaultLimit
    BY <1>1 DEF MemoryInv, MemoryWindow
  <2> QED
    BY <2>1, <2>2, SmallerSet, PositiveLimits
<1>2. MemoryInv => MemoryWindowLimit
  BY <1>1 DEF MemoryWindowLimit
<1> QED
  BY <1>2, InitMemory, NextMemory, PTL DEF Spec

LEMMA FallBackRemembers == MemoryInv => MemoryRemembers
<1> SUFFICES ASSUME MemoryInv, NEW r \in Requests, Counts(r, "memory")
             PROVE  <<request[r].stamp, r>> \in store[ClientOf[r]]
  BY DEF MemoryRemembers
<1>1. MemoryAdmitted(request[r]) /\ clock < request[r].stamp + Window
  BY Constants
     DEF MemoryInv, TypeOK, Requested, Counts, AdmittedBy, MemoryAdmitted, Numbers
<1> QED
  BY <1>1 DEF MemoryInv, MemoryRemembered

-----------------------------------------------------------------------------
(* Denials. *)

\* No sorted set outgrows the limit of its client.
SortedSetSizes == \A k \in Keys : Cardinality(zset[k]) <= LimitOf(k[1])

SizesInv == TypeOK /\ StoreSizes /\ SortedSetSizes

LEMMA SortedSetFinite ==
    ASSUME NEW z \in SUBSET (0 .. MaxClock)
    PROVE  IsFiniteSet(z) /\ Cardinality(z) \in Nat
<1>1. IsFiniteSet(0 .. MaxClock)
  BY StampRange
<1>2. IsFiniteSet(z)
  BY <1>1, FS_Subset
<1> QED
  BY <1>2, FS_CardinalityType

\* The script adds only to a set that has room.
LEMMA EvalSizes ==
    ASSUME TypeOK, SortedSetSizes, NEW r \in Requests, EvalLua(r)
    PROVE  SortedSetSizes'
<1> DEFINE k == KeyOf(r)
           now == request[r].stamp
           z == Pruned(zset[k], now)
           n == LimitOf(ClientOf[r])
<1>1. /\ k \in Keys /\ k[1] = ClientOf[r] /\ n \in Nat
      /\ z \in SUBSET (0 .. MaxClock) /\ zset[k] \in SUBSET (0 .. MaxClock)
  BY Constants, PrunedType DEF TypeOK
<1>2. z \in SUBSET zset[k] /\ Cardinality(zset[k]) <= n
  BY <1>1 DEF Pruned, SortedSetSizes
<1>3. zset' = [zset EXCEPT ![k] = IF LuaDenies(r) THEN z ELSE z \cup {now}]
  BY DEF EvalLua
<1>4. LuaDenies(r) <=> Cardinality(z) >= n
  BY DEF LuaDenies
<1> HIDE DEF k, now, z, n
<1>5. IsFiniteSet(z) /\ Cardinality(z) \in Nat /\ Cardinality(z) <= n
  BY <1>1, <1>2, SortedSetFinite, SmallerSet
<1>6. ASSUME ~LuaDenies(r) PROVE Cardinality(z \cup {now}) <= n
  <2>1. Cardinality(z \cup {now}) = IF now \in z THEN Cardinality(z) ELSE Cardinality(z) + 1
    BY <1>5, FS_AddElement
  <2>2. Cardinality(z) < n
    BY <1>1, <1>4, <1>5, <1>6
  <2> QED
    BY <1>1, <1>5, <2>1, <2>2
<1>7. zset'[k] = (IF LuaDenies(r) THEN z ELSE z \cup {now})
      /\ \A j \in Keys \ {k} : zset'[j] = zset[j]
  BY <1>1, <1>3 DEF TypeOK
<1>8. Cardinality(zset'[k]) <= LimitOf(k[1])
  BY <1>1, <1>5, <1>6, <1>7 DEF n
<1> QED
  BY <1>7, <1>8 DEF SortedSetSizes

\* What only removes keeps the sizes.
LEMMA RemovalSizes ==
    ASSUME TypeOK, SortedSetSizes, \A k \in Keys : zset'[k] \in SUBSET zset[k]
    PROVE  SortedSetSizes'
<1> SUFFICES ASSUME NEW k \in Keys PROVE Cardinality(zset'[k]) <= LimitOf(k[1])
  BY DEF SortedSetSizes
<1>1. /\ zset[k] \in SUBSET (0 .. MaxClock) /\ Cardinality(zset[k]) <= LimitOf(k[1])
      /\ LimitOf(k[1]) \in Nat
  BY Constants DEF TypeOK, SortedSetSizes, Keys
<1> QED
  BY <1>1, SortedSetFinite, SmallerSet

LEMMA NextSizes == SizesInv /\ [Next]_vars => SortedSetSizes'
<1> SUFFICES ASSUME SizesInv, [Next]_vars PROVE SortedSetSizes'
  OBVIOUS
<1>1. /\ TypeOK /\ SortedSetSizes
      /\ pipe # <<>> => Head(pipe) \in Requests /\ KeyOf(Head(pipe)) \in Keys
  BY HeadTailProperties, Constants DEF SizesInv, TypeOK
<1>2. ASSUME NEW r \in Requests, EvalLua(r) PROVE SortedSetSizes'
  BY <1>1, <1>2, EvalSizes
<1>3. ASSUME NEW r \in Requests, Prune(r) \/ Delete(r) PROVE SortedSetSizes'
  <2>1. \A k \in Keys : zset'[k] \in SUBSET zset[k]
    BY <1>1, <1>3 DEF Prune, Delete, Pruned, TypeOK
  <2> QED
    BY <1>1, <2>1, RemovalSizes
<1>4. CASE AnswerCheck \/ AnswerUsage \/ AnswerReset \/ ReplyLost
  BY <1>1, <1>2, <1>3, <1>4 DEF AnswerCheck, AnswerUsage, AnswerReset, ReplyLost
<1>5. CASE Tick
  <2>1. \A k \in Keys : zset'[k] \in SUBSET zset[k]
    BY <1>1, <1>5 DEF Tick, TypeOK
  <2> QED
    BY <1>1, <2>1, RemovalSizes
<1>6. CASE zset' = zset
  BY <1>1, <1>6, RemovalSizes
<1>7. \/ \E r \in Requests : Send(r) \/ Refused(r)
      \/ GivenUp \/ CleanupInMemoryStore \/ ConnectionChange \/ UNCHANGED vars
      => zset' = zset
  BY DEF Send, Refused, GivenUp, CleanupInMemoryStore, ConnectionChange, vars
<1> QED
  BY <1>4, <1>5, <1>6, <1>7 DEF Next

\* When the least of n stamps at most has left the window, fewer than n remain.
LEMMA OldestLeaves ==
    ASSUME NEW S, IsFiniteSet(S), NEW n \in Nat, Cardinality(S) <= n,
           NEW e \in S, NEW A \in SUBSET S, e \notin A
    PROVE  Cardinality(A) < n
<1>1. A \in SUBSET (S \ {e})
  OBVIOUS
<1>2. IsFiniteSet(S \ {e}) /\ Cardinality(S \ {e}) = Cardinality(S) - 1
      /\ Cardinality(S) \in Nat
  BY FS_RemoveElement, FS_CardinalityType
<1>3. IsFiniteSet(A) /\ Cardinality(A) <= Cardinality(S \ {e})
  BY <1>1, <1>2, FS_Subset
<1>4. Cardinality(A) \in Nat
  BY <1>3, FS_CardinalityType
<1> QED
  BY <1>2, <1>3, <1>4

\* A request a step denies: by the script or by the fallback, never by a reset.
Denies(r) ==
    request'[r].phase = "denied" /\ request[r].phase # "denied"

LEMMA ForgivenDeniesNone ==
    ASSUME TypeOK, NEW r \in Requests, NEW paths,
           \/ request' = Forgiven(r, paths)
           \/ request' = [Forgiven(r, paths) EXCEPT ![r].phase = "done"],
           NEW q \in Requests
    PROVE  ~Denies(q)
<1> DEFINE after == Forgiven(r, paths)
<1>1. after \in [Requests -> Requested] /\ request[q] \in Requested
  BY ForgivenType DEF TypeOK
<1>2. after[q] = request[q] \/ after[q] = [request[q] EXCEPT !.phase = "forgiven"]
  BY DEF Forgiven
<1>3. request'[q] = after[q] \/ request'[q] = [after[q] EXCEPT !.phase = "done"]
  BY <1>1
<1> HIDE DEF after
<1>4. request'[q] = request[q] \/ request'[q].phase \in {"forgiven", "done"}
  BY <1>1, <1>2, <1>3 DEF Requested
<1> QED
  BY <1>4 DEF Denies

\* A denial by the fallback: at resetAt the oldest entry of its list has left.
FallBackHonest(q) ==
    /\ request'[q].via = "memory"
    /\ Cardinality(InWindow(store'[ClientOf[q]], request'[q].resetAt)) < DefaultLimit

LEMMA FallBackDenials ==
    ASSUME SizesInv, NEW r \in Requests, FallBack(r), NEW q \in Requests, Denies(q)
    PROVE  FallBackHonest(q)
<1>1. TypeOK /\ StoreSizes
  BY DEF SizesInv
<1>2. CheckInMemory(r)
  <2>1. ~ResetInMemory(r)
    BY <1>1, ForgivenDeniesNone DEF ResetInMemory
  <2>2. request' # [request EXCEPT ![r].phase = "done"]
    BY <1>1 DEF Denies, TypeOK, Requested
  <2> QED
    BY <2>1, <2>2 DEF FallBack
<1> DEFINE c == ClientOf[r]
           live == InWindow(store[c], clock)
           full == Cardinality(live) >= DefaultLimit
           new == [phase |-> IF full THEN "denied" ELSE "admitted", via |-> "memory",
                   stamp |-> clock,
                   resetAt |-> Window + (IF full THEN Oldest(live) ELSE clock), late |-> FALSE]
<1>3. /\ store' = [store EXCEPT ![c] = IF full THEN live ELSE live \cup {<<clock, r>>}]
      /\ request' = [request EXCEPT ![r] = new]
  BY <1>2 DEF CheckInMemory
<1>4. /\ c \in Clients /\ IsFiniteSet(store[c]) /\ Cardinality(store[c]) <= DefaultLimit
      /\ live \in SUBSET store[c] /\ live \in SUBSET ((0 .. MaxClock) \X Requests)
      /\ DefaultLimit \in Nat /\ Window \in Nat
  BY <1>1, Constants, PositiveLimits, InWindowType DEF StoreSizes, InWindow, Numbers
<1>5. (full <=> new.phase = "denied") /\ new.via = "memory"
      /\ (full => new.resetAt = Window + Oldest(live))
  OBVIOUS
<1> HIDE DEF new, live, c
<1>6. q = r /\ request'[q] = new /\ full
  BY <1>1, <1>3, <1>5 DEF Denies, TypeOK
<1>7. store'[c] = live
  BY <1>1, <1>3, <1>4, <1>6 DEF TypeOK
<1>8. PICK e \in live : Oldest(live) = e[1] /\ \A f \in live : e[1] <= f[1]
  BY <1>4, <1>6, FullStoreHasOldest
<1> DEFINE left == InWindow(live, new.resetAt)
<1>9. left \in SUBSET live /\ e \notin left
  <2>1. new.resetAt = Window + e[1] /\ e[1] \in Nat
    BY <1>4, <1>5, <1>6, <1>8, Constants DEF Numbers
  <2> QED
    BY <1>4, <2>1 DEF InWindow
<1>10. IsFiniteSet(live) /\ Cardinality(live) <= DefaultLimit
  BY <1>4, SmallerSet
<1> HIDE DEF left
<1>11. Cardinality(left) < DefaultLimit
  BY <1>4, <1>8, <1>9, <1>10, OldestLeaves
<1> QED
  BY <1>5, <1>6, <1>7, <1>11 DEF FallBackHonest, left, c

\* A denial by the script: at resetAt the oldest member has left the sorted set.
ScriptHonest(q) ==
    /\ request'[q].via = "redis"
    /\ Cardinality(Pruned(zset'[KeyOf(q)], request'[q].resetAt)) < LimitOf(ClientOf[q])

LEMMA ScriptDenials ==
    ASSUME SizesInv, NEW r \in Requests, EvalLua(r), LuaReply(r),
           NEW q \in Requests, Denies(q)
    PROVE  ScriptHonest(q)
<1> DEFINE k == KeyOf(r)
           now == request[r].stamp
           z == Pruned(zset[k], now)
           n == LimitOf(ClientOf[r])
           new == [phase |-> IF LuaDenies(r) THEN "denied" ELSE "admitted", via |-> "redis",
                   stamp |-> now, resetAt |-> Window + (IF LuaDenies(r) THEN Min(z) ELSE now),
                   late |-> ~LuaDenies(r) /\ now + Grace < clock]
<1>1. TypeOK /\ SortedSetSizes
  BY DEF SizesInv
<1>2. request' = [request EXCEPT ![r] = new]
  BY DEF LuaReply
<1>3. (LuaDenies(r) <=> new.phase = "denied") /\ new.via = "redis"
      /\ (LuaDenies(r) => new.resetAt = Window + Min(z))
  OBVIOUS
<1> HIDE DEF new
<1>4. q = r /\ request'[q] = new /\ LuaDenies(r)
  BY <1>1, <1>2, <1>3 DEF Denies, TypeOK
<1>5. /\ k \in Keys /\ k[1] = ClientOf[r] /\ n \in Nat /\ n > 0
      /\ z \in SUBSET (0 .. MaxClock) /\ zset[k] \in SUBSET (0 .. MaxClock)
      /\ Window \in Nat /\ MaxClock \in Nat
  BY <1>1, Constants, PositiveLimits, PrunedType DEF TypeOK, Numbers
<1>6. zset'[k] = z
  BY <1>1, <1>4, <1>5 DEF EvalLua, TypeOK
<1>7. z \in SUBSET zset[k] /\ Cardinality(zset[k]) <= n /\ Cardinality(z) >= n
  BY <1>1, <1>4, <1>5 DEF Pruned, SortedSetSizes, LuaDenies
<1> HIDE DEF z, n, k, now
<1>8. IsFiniteSet(z) /\ Cardinality(z) <= n
  BY <1>5, <1>7, SortedSetFinite, SmallerSet
<1>9. Min(z) \in z
  BY <1>5, <1>7, FullHasOldest
<1> DEFINE left == Pruned(z, new.resetAt)
           oldest == Min(z)
<1> HIDE DEF oldest
<1>10. left \in SUBSET z /\ oldest \notin left
  <2>1. new.resetAt = Window + oldest
    BY <1>3, <1>4 DEF oldest
  <2>2. oldest \in Nat
    <3>1. oldest \in z
      BY <1>9 DEF oldest
    <3>2. z \in SUBSET Nat
      BY <1>5
    <3> QED
      BY <3>1, <3>2
  <2> QED
    BY <1>5, <2>1, <2>2 DEF Pruned
<1> HIDE DEF left
<1>11. Cardinality(left) < n
  BY <1>5, <1>8, <1>9, <1>10, OldestLeaves DEF oldest
<1> QED
  BY <1>3, <1>4, <1>6, <1>11 DEF ScriptHonest, left, n, k

\* Every denial of a step is honest, whichever of the two paths it takes.
LEMMA NextDenials ==
    ASSUME SizesInv, [Next]_vars, NEW q \in Requests, Denies(q)
    PROVE  ScriptHonest(q) \/ FallBackHonest(q)
<1>1. TypeOK /\ (pipe # <<>> => Head(pipe) \in Requests)
  BY HeadTailProperties DEF SizesInv, TypeOK
<1>2. ASSUME NEW r \in Requests, FallBack(r) PROVE FallBackHonest(q)
  BY <1>2, FallBackDenials
<1>3. CASE AnswerCheck
  BY <1>1, <1>3, ScriptDenials DEF AnswerCheck
<1>4. ~AnswerReset
  BY <1>1, ForgivenDeniesNone DEF AnswerReset
<1>5. \A r \in Requests : ~Send(r)
  BY ZenonT(30), <1>1 DEF Send, Denies, TypeOK, Requested
<1>6. ~AnswerUsage
  BY <1>1 DEF AnswerUsage, Denies, TypeOK, Requested
<1>7. request' # request
  BY DEF Denies
<1>8. ~ReplyLost
  BY <1>1, <1>7, ForgivenDeniesNone DEF ReplyLost
<1>9. ~CleanupInMemoryStore /\ ~ConnectionChange /\ ~Tick /\ ~UNCHANGED vars
  BY <1>7 DEF CleanupInMemoryStore, ConnectionChange, Tick, vars
<1> QED
  BY <1>1, <1>2, <1>3, <1>4, <1>5, <1>6, <1>8, <1>9 DEF Next, Refused, GivenUp

\* A denial is honest: at the resetAt it announces fewer than the limit are left in the
\* window, for neither path ever remembers more than the limit.
THEOREM DenialsAreHonest == Spec => ResetAtFreesRoom
<1>1. Init => SizesInv /\ MemoryInv
  <2> SUFFICES ASSUME Init PROVE SortedSetSizes
    BY InitMemory DEF SizesInv, MemoryInv
  <2> QED
    BY Constants, FS_EmptySet DEF Init, SortedSetSizes, Keys
<1>2. SizesInv /\ MemoryInv /\ [Next]_vars => (SizesInv /\ MemoryInv)'
  BY NextSizes, NextMemory DEF SizesInv, MemoryInv
<1>3. SizesInv /\ [Next]_vars =>
        [\A r \in Requests :
           request'[r].phase = "denied" /\ request[r].phase # "denied" =>
             LET at == request'[r].resetAt
                 c == ClientOf[r]
             IN  IF request'[r].via = "redis"
                 THEN Cardinality(Pruned(zset'[KeyOf(r)], at)) < LimitOf(c)
                 ELSE Cardinality(InWindow(store'[c], at)) < DefaultLimit]_vars
  BY NextDenials DEF Denies, ScriptHonest, FallBackHonest
<1> QED
  BY <1>1, <1>2, <1>3, PTL DEF Spec, ResetAtFreesRoom

-----------------------------------------------------------------------------
(* Nothing but admissions counts. *)

LEMMA HeadIsSent ==
    ASSUME LimiterInv, pipe # <<>>
    PROVE  Head(pipe) \in Requests /\ request[Head(pipe)].phase = "sent"
<1>1. /\ pipe \in Seq(Requests) /\ Head(pipe) \in Requests /\ Head(pipe) = pipe[1]
      /\ DOMAIN pipe = 1 .. Len(pipe) /\ Len(pipe) \in Nat /\ Len(pipe) > 0
  BY HeadTailProperties, LenProperties, EmptySeq DEF LimiterInv, TypesOK
<1>2. 1 \in DOMAIN pipe
  BY <1>1
<1> QED
  BY <1>1, <1>2 DEF LimiterInv, WaitsInv

\* An admission is forgiven only together with all that is remembered of its client.
Stays(q) ==
    \/ request'[q] = request[q]
    \/ request[q].via = "memory" /\ store'[ClientOf[q]] = {}
    \/ request[q].via = "redis" /\ zset'[KeyOf(q)] = {}

LEMMA ForgivenWithList ==
    ASSUME TypeOK, NEW r \in Requests, NEW paths \in SUBSET {"redis", "memory"},
           Kind[r] = "reset",
           "memory" \in paths => store'[ClientOf[r]] = {},
           "redis" \in paths => zset'[KeyOf(r)] = {},
           NEW q \in Requests, request'[q] = Forgiven(r, paths)[q]
    PROVE  Stays(q)
<1>1. CASE /\ ClientOf[q] = ClientOf[r] /\ request[q].via \in paths
           /\ request[q].via = "redis" => Kind[q] = "check"
  <2>1. CASE request[q].via = "memory"
    BY <1>1, <2>1 DEF Stays
  <2>2. CASE request[q].via = "redis"
    <3>1. KeyOf(q) = KeyOf(r)
      BY <1>1, <2>2 DEF KeyOf
    <3> QED
      BY <1>1, <2>2, <3>1 DEF Stays
  <2> QED
    BY <1>1, <2>1, <2>2
<1>2. CASE ~(/\ ClientOf[q] = ClientOf[r] /\ request[q].via \in paths
             /\ request[q].via = "redis" => Kind[q] = "check")
  BY <1>2 DEF Forgiven, Stays
<1> QED
  BY <1>1, <1>2

LEMMA FallBackStays ==
    ASSUME TypeOK, NEW r \in Requests, FallBack(r), NEW q \in Requests \ {r}
    PROVE  Stays(q)
<1>1. CASE CheckInMemory(r)
  BY <1>1 DEF CheckInMemory, Stays, TypeOK
<1>2. CASE ResetInMemory(r) /\ Kind[r] = "reset"
  <2>1. store'[ClientOf[r]] = {} /\ request'[q] = Forgiven(r, {"memory"})[q]
    BY <1>2, Constants DEF ResetInMemory, Forgiven, TypeOK
  <2> QED
    BY <1>2, <2>1, ForgivenWithList
<1>3. CASE request' = [request EXCEPT ![r].phase = "done"]
  BY <1>3 DEF Stays, TypeOK
<1> QED
  BY <1>1, <1>2, <1>3 DEF FallBack

LEMMA AdmissionsStay ==
    ASSUME LimiterInv, TypeOK, [Next]_vars, NEW q \in Requests,
           request[q].phase = "admitted"
    PROVE  Stays(q)
<1>1. pipe # <<>> => Head(pipe) \in Requests /\ q # Head(pipe)
  BY HeadIsSent
<1>2. \A r \in Requests : request[r].phase = "new" => q # r
  OBVIOUS
<1>3. ASSUME NEW r \in Requests, Send(r) PROVE Stays(q)
  BY <1>2, <1>3 DEF Send, Stays, TypeOK
<1>4. ASSUME NEW r \in Requests, Refused(r) PROVE Stays(q)
  BY <1>2, <1>4, FallBackStays DEF Refused
<1>5. CASE AnswerCheck
  BY <1>1, <1>5 DEF AnswerCheck, LuaReply, Stays, TypeOK
<1>6. CASE AnswerUsage
  BY <1>1, <1>6 DEF AnswerUsage, Stays, TypeOK
<1>7. CASE AnswerReset
  <2>1. /\ Head(pipe) \in Requests /\ Kind[Head(pipe)] = "reset"
        /\ request'[q] = Forgiven(Head(pipe), {"redis", "memory"})[q]
        /\ store'[ClientOf[Head(pipe)]] = {} /\ zset'[KeyOf(Head(pipe))] = {}
    BY <1>1, <1>7, Constants DEF AnswerReset, Delete, Forgiven, TypeOK
  <2> QED
    BY <2>1, ForgivenWithList
<1>8. CASE GivenUp
  BY <1>1, <1>8, FallBackStays DEF GivenUp
<1>9. CASE request' = request
  BY <1>9 DEF Stays
<1>10. CASE ReplyLost
  <2>1. CASE request' = request
    BY <2>1 DEF Stays
  <2>2. CASE /\ Kind[Head(pipe)] = "reset" /\ Delete(Head(pipe))
             /\ request' = Forgiven(Head(pipe), {"redis"})
    <3>1. Head(pipe) \in Requests /\ zset'[KeyOf(Head(pipe))] = {}
      BY <1>1, <1>10, <2>2, Constants DEF ReplyLost, Delete, TypeOK
    <3> QED
      BY <2>2, <3>1, ForgivenWithList
  <2> QED
    BY <1>10, <2>1, <2>2 DEF ReplyLost
<1>11. CleanupInMemoryStore \/ ConnectionChange \/ Tick \/ UNCHANGED vars => request' = request
  BY DEF CleanupInMemoryStore, ConnectionChange, Tick, vars
<1> QED
  BY <1>3, <1>4, <1>5, <1>6, <1>7, <1>8, <1>9, <1>10, <1>11 DEF Next

\* An entry that a step puts in a list is of a request that it admits.
Admits(c, e) ==
    /\ e[2] \in Requests /\ ClientOf[e[2]] = c
    /\ AdmittedBy(e[2], "memory")' /\ request'[e[2]].stamp = e[1]

LEMMA FallBackAdds ==
    ASSUME TypeOK, NEW r \in Requests, FallBack(r), NEW c \in Clients, NEW e \in store'[c]
    PROVE  e \in store[c] \/ Admits(c, e)
<1> DEFINE d == ClientOf[r]
           live == InWindow(store[d], clock)
           full == Cardinality(live) >= DefaultLimit
<1>1. CASE CheckInMemory(r)
  <2>1. d \in Clients /\ live \subseteq store[d]
    BY Constants DEF InWindow
  <2>2. store' = [store EXCEPT ![d] = IF full THEN live ELSE live \cup {<<clock, r>>}]
    BY <1>1 DEF CheckInMemory
  <2>3. ~full => request'[r].phase = "admitted" /\ request'[r].via = "memory"
                 /\ request'[r].stamp = clock
    BY <1>1 DEF CheckInMemory, TypeOK
  <2> HIDE DEF live, full
  <2>4. e \in store[c] \/ (~full /\ c = d /\ e = <<clock, r>>)
    BY <2>1, <2>2 DEF TypeOK
  <2> QED
    BY <2>3, <2>4 DEF Admits, AdmittedBy
<1>2. CASE ResetInMemory(r)
  BY <1>2, Constants DEF ResetInMemory, TypeOK
<1>3. CASE store' = store
  BY <1>3
<1> QED
  BY <1>1, <1>2, <1>3 DEF FallBack

LEMMA ListsGainAdmissions ==
    ASSUME TypeOK, [Next]_vars, NEW c \in Clients, NEW e \in store'[c]
    PROVE  e \in store[c] \/ Admits(c, e)
<1>1. pipe # <<>> => Head(pipe) \in Requests /\ ClientOf[Head(pipe)] \in Clients
  BY HeadTailProperties, Constants DEF TypeOK
<1>2. ASSUME NEW r \in Requests, FallBack(r) PROVE e \in store[c] \/ Admits(c, e)
  BY <1>2, FallBackAdds
<1>3. CASE AnswerReset
  BY <1>1, <1>3 DEF AnswerReset, TypeOK
<1>4. CASE CleanupInMemoryStore
  BY <1>4 DEF CleanupInMemoryStore, InWindow
<1>5. CASE store' = store
  BY <1>5
<1>6. (\E r \in Requests : Send(r)) \/ AnswerCheck \/ AnswerUsage \/ ReplyLost
      \/ ConnectionChange \/ Tick \/ UNCHANGED vars => store' = store
  BY DEF Send, AnswerCheck, AnswerUsage, ReplyLost, ConnectionChange, Tick, vars
<1> QED
  BY <1>1, <1>2, <1>3, <1>4, <1>5, <1>6 DEF Next, Refused, GivenUp

\* What the script adds to a sorted set is the stamp of its call.
LEMMA EvalAdds ==
    ASSUME TypeOK, NEW r \in Requests, EvalLua(r), NEW k \in Keys
    PROVE  /\ zset'[k] \subseteq zset[k] \cup {request[r].stamp}
           /\ LuaDenies(r) \/ k # KeyOf(r) => zset'[k] \subseteq zset[k]
<1> DEFINE now == request[r].stamp
<1>1. KeyOf(r) \in Keys /\ Pruned(zset[KeyOf(r)], now) \subseteq zset[KeyOf(r)]
  BY Constants DEF Pruned
<1>2. zset' = [zset EXCEPT ![KeyOf(r)] = IF LuaDenies(r) THEN Pruned(zset[KeyOf(r)], now)
                                         ELSE Pruned(zset[KeyOf(r)], now) \cup {now}]
  BY DEF EvalLua
<1> HIDE DEF now
<1>3. /\ zset'[k] \subseteq zset[k] \cup {now}
      /\ LuaDenies(r) \/ k # KeyOf(r) => zset'[k] \subseteq zset[k]
  BY <1>1, <1>2 DEF TypeOK
<1> QED
  BY <1>3 DEF now

\* A step puts nothing in a sorted set but the stamp of an admission, or one whose
\* reply is lost.
GainsAdmissions(k) ==
    lostReplies' = lostReplies /\ zset'[k] \subseteq zset[k] \cup RedisStamps(k)'

GainsGhost(k) ==
    /\ lostReplies' = lostReplies + 1
    /\ \E s : zset'[k] \subseteq zset[k] \cup {s}

LEMMA SortedSetsGain ==
    ASSUME TypeOK, [Next]_vars, NEW k \in Keys
    PROVE  GainsAdmissions(k) \/ GainsGhost(k)
<1>1. /\ pipe # <<>> => Head(pipe) \in Requests /\ KeyOf(Head(pipe)) \in Keys
      /\ zset \in [Keys -> SUBSET (0 .. MaxClock)]
  BY HeadTailProperties, Constants DEF TypeOK
<1>2. CASE ReplyLost
  <2> DEFINE r == Head(pipe)
  <2>1. r \in Requests /\ (EvalLua(r) \/ Prune(r) \/ Delete(r)) /\ lostReplies' = lostReplies + 1
    BY <1>1, <1>2 DEF ReplyLost
  <2> HIDE DEF r
  <2>2. CASE EvalLua(r)
    BY <2>1, <2>2, EvalAdds DEF GainsGhost
  <2>3. CASE Prune(r) \/ Delete(r)
    <3>1. zset'[k] \subseteq zset[k]
      BY <1>1, <2>3 DEF Prune, Delete, Pruned
    <3> QED
      BY <2>1, <3>1 DEF GainsGhost
  <2> QED
    BY <2>1, <2>2, <2>3
<1>3. CASE AnswerCheck
  <2> DEFINE r == Head(pipe)
  <2>1. r \in Requests /\ EvalLua(r) /\ LuaReply(r) /\ lostReplies' = lostReplies
    BY <1>1, <1>3 DEF AnswerCheck
  <2> HIDE DEF r
  <2>2. CASE LuaDenies(r) \/ k # KeyOf(r)
    BY <2>1, <2>2, EvalAdds DEF GainsAdmissions
  <2>3. CASE ~LuaDenies(r) /\ k = KeyOf(r)
    <3>1. /\ request'[r].phase = "admitted" /\ request'[r].via = "redis"
          /\ request'[r].stamp = request[r].stamp
      BY <2>1, <2>3 DEF LuaReply, TypeOK
    <3>2. request[r].stamp \in RedisStamps(k)'
      BY <2>1, <2>3, <3>1 DEF RedisStamps, AdmittedBy
    <3> QED
      BY <2>1, <3>2, EvalAdds DEF GainsAdmissions
  <2> QED
    BY <2>2, <2>3
<1>4. CASE AnswerUsage
  BY <1>1, <1>4 DEF AnswerUsage, Prune, Pruned, GainsAdmissions
<1>5. CASE AnswerReset
  BY <1>1, <1>5 DEF AnswerReset, Delete, GainsAdmissions
<1>6. CASE Tick
  BY <1>6 DEF Tick, GainsAdmissions
<1>7. CASE UNCHANGED <<zset, lostReplies>>
  BY <1>7 DEF GainsAdmissions
<1>8. (\E r \in Requests : Send(r) \/ Refused(r)) \/ GivenUp \/ CleanupInMemoryStore
      \/ ConnectionChange \/ UNCHANGED vars => UNCHANGED <<zset, lostReplies>>
  BY DEF Send, Refused, GivenUp, CleanupInMemoryStore, ConnectionChange, vars
<1> QED
  BY <1>2, <1>3, <1>4, <1>5, <1>6, <1>7, <1>8 DEF Next

LEMMA NextOnlyAdmissions ==
    LimiterInv /\ TypeOK /\ OnlyAdmissionsCount /\ [Next]_vars => OnlyAdmissionsCount'
<1> SUFFICES ASSUME LimiterInv, TypeOK, OnlyAdmissionsCount, [Next]_vars
             PROVE  OnlyAdmissionsCount'
  OBVIOUS
<1> DEFINE ghosts(k) == zset[k] \ RedisStamps(k)
<1>1. ASSUME NEW k \in Keys, NEW t \in ghosts(k)' PROVE t \notin RedisStamps(k)
  <2> SUFFICES ASSUME t \in RedisStamps(k) PROVE FALSE
    OBVIOUS
  <2>1. PICK q \in Requests : AdmittedBy(q, "redis") /\ KeyOf(q) = k /\ t = request[q].stamp
    BY DEF RedisStamps
  <2>2. Stays(q)
    BY <2>1, AdmissionsStay DEF AdmittedBy
  <2>3. request'[q] = request[q]
    BY <1>1, <2>1, <2>2 DEF Stays, AdmittedBy
  <2> QED
    BY <1>1, <2>1, <2>3 DEF RedisStamps, AdmittedBy
<1>2. ASSUME NEW k \in Keys PROVE Cardinality(ghosts(k)') <= lostReplies'
  <2>1. /\ zset[k] \in SUBSET (0 .. MaxClock) /\ lostReplies \in Nat
        /\ Cardinality(ghosts(k)) <= lostReplies
    <3>1. zset[k] \in SUBSET (0 .. MaxClock) /\ lostReplies \in Nat
      BY Constants DEF TypeOK, Numbers
    <3>2. Cardinality(ghosts(k)) <= lostReplies
      BY DEF OnlyAdmissionsCount
    <3> QED
      BY <3>1, <3>2
  <2>2. IsFiniteSet(ghosts(k)) /\ Cardinality(ghosts(k)) \in Nat
    BY <2>1, SortedSetFinite
  <2>3. CASE GainsAdmissions(k)
    <3>1. ghosts(k)' \in SUBSET ghosts(k)
      BY <1>1, <2>3 DEF GainsAdmissions
    <3> HIDE DEF ghosts
    <3> QED
      BY <2>1, <2>2, <2>3, <3>1, SmallerSet DEF GainsAdmissions
  <2>4. CASE GainsGhost(k)
    <3>1. PICK s : zset'[k] \subseteq zset[k] \cup {s}
      BY <2>4 DEF GainsGhost
    <3>2. ghosts(k)' \in SUBSET (ghosts(k) \cup {s})
      BY <1>1, <3>1
    <3> HIDE DEF ghosts
    <3>3. IsFiniteSet(ghosts(k) \cup {s}) /\ Cardinality(ghosts(k) \cup {s}) <= lostReplies + 1
      <4>1. /\ IsFiniteSet(ghosts(k) \cup {s})
            /\ Cardinality(ghosts(k) \cup {s})
                 = IF s \in ghosts(k) THEN Cardinality(ghosts(k))
                   ELSE Cardinality(ghosts(k)) + 1
        BY <2>2, FS_AddElement
      <4> QED
        BY <2>1, <2>2, <4>1
    <3> QED
      BY <2>1, <2>4, <3>2, <3>3, SmallerSet DEF GainsGhost
  <2> QED
    BY <2>3, <2>4, SortedSetsGain
<1>3. ASSUME NEW c \in Clients, NEW e \in store'[c]
      PROVE  /\ AdmittedBy(e[2], "memory")' /\ request'[e[2]].stamp = e[1]
             /\ ClientOf[e[2]] = c
  <2>1. CASE Admits(c, e)
    BY <2>1 DEF Admits
  <2>2. CASE e \in store[c]
    <3>1. /\ e[2] \in Requests /\ AdmittedBy(e[2], "memory") /\ request[e[2]].stamp = e[1]
          /\ ClientOf[e[2]] = c
      BY <2>2 DEF OnlyAdmissionsCount, TypeOK
    <3>2. Stays(e[2])
      BY <3>1, AdmissionsStay DEF AdmittedBy
    <3>3. request'[e[2]] = request[e[2]]
      BY <1>3, <3>1, <3>2 DEF Stays, AdmittedBy
    <3> QED
      BY <3>1, <3>3 DEF AdmittedBy
  <2> QED
    BY <1>3, <2>1, <2>2, ListsGainAdmissions
<1> QED
  BY <1>2, <1>3 DEF OnlyAdmissionsCount

LEMMA InitOnlyAdmissions == Init => OnlyAdmissionsCount
<1> SUFFICES ASSUME Init PROVE OnlyAdmissionsCount
  OBVIOUS
<1>1. ASSUME NEW k \in Keys PROVE zset[k] \ RedisStamps(k) = {}
  BY DEF Init
<1>2. Cardinality({}) = 0 /\ lostReplies = 0
  BY FS_EmptySet DEF Init
<1>3. \A c \in Clients : store[c] = {}
  BY DEF Init
<1> QED
  BY <1>1, <1>2, <1>3 DEF OnlyAdmissionsCount

\* What is held against a client is what was admitted: neither path forgets an admission
\* that still counts, one that was admitted late included, and neither counts anything
\* else, but for one entry for each execution whose reply was lost.
THEOREM AdmissionsAreCounted == Spec => []AdmissionsCounted
<1>1. Init => LimiterInv /\ MemoryInv /\ OnlyAdmissionsCount
  BY InitLimiter, InitMemory, InitOnlyAdmissions
<1>2. LimiterInv /\ MemoryInv /\ OnlyAdmissionsCount /\ [Next]_vars
        => (LimiterInv /\ MemoryInv /\ OnlyAdmissionsCount)'
  BY NextLimiter, NextMemory, NextOnlyAdmissions DEF MemoryInv
<1>3. MemoryInv /\ OnlyAdmissionsCount /\ RedisRemembers => AdmissionsCounted
  BY FallBackRemembers DEF AdmissionsCounted
<1> QED
  BY <1>1, <1>2, <1>3, RedisNeverForgets, PTL DEF Spec

-----------------------------------------------------------------------------
(* The limit counted in requests. *)

\* No two requests that Redis admitted for a key, and not late, have the stamp of one
\* millisecond.
DifferentMilliseconds ==
    \A q, r \in Requests :
      /\ AdmittedBy(q, "redis") /\ AdmittedBy(r, "redis") /\ KeyOf(q) = KeyOf(r)
      /\ ~request[q].late /\ ~request[r].late
      /\ request[q].stamp = request[r].stamp
      => q = r

\* The member that two requests of one millisecond share is all that takes the punctual
\* admissions over the limit: as long as those of each key differ in their milliseconds,
\* the limit is one of requests.  The other way over it is a command that was stalled
\* for longer than the grace, which RedisRequestLimit does not count.
THEOREM RequestLimitBetweenMilliseconds ==
    Spec => [](DifferentMilliseconds => RedisRequestLimit)
<1>1. LimiterInv => (DifferentMilliseconds => RedisRequestLimit)
  <2> SUFFICES ASSUME LimiterInv, DifferentMilliseconds, NEW k \in Keys, NEW t \in 0 .. MaxClock
               PROVE  Cardinality({r \in Admitted("redis", t) : KeyOf(r) = k}) <= LimitOf(k[1])
    BY DEF RedisRequestLimit
  <2> DEFINE A == {r \in Admitted("redis", t) : KeyOf(r) = k}
             f == [r \in A |-> request[r].stamp]
  <2>1. f \in [A -> Stamps(k, t)]
    BY DEF Stamps
  <2>2. \A q, r \in A : f[q] = f[r] => q = r
    BY DEF DifferentMilliseconds, Admitted, AdmittedBy
  <2> HIDE DEF f
  <2>3. f \in Injection(A, Stamps(k, t))
    BY <2>1, <2>2 DEF Injection, IsInjective
  <2>4. /\ IsFiniteSet(Stamps(k, t)) /\ Cardinality(Stamps(k, t)) \in Nat
        /\ Cardinality(Stamps(k, t)) <= LimitOf(k[1]) /\ LimitOf(k[1]) \in Nat
    BY StampsType, Constants DEF LimiterInv, RedisWindowLimit, Stamps, Keys
  <2> HIDE DEF A
  <2>5. IsFiniteSet(A) /\ Cardinality(A) <= Cardinality(Stamps(k, t))
    BY <2>3, <2>4, FS_Injection
  <2>6. Cardinality(A) \in Nat
    BY <2>5, FS_CardinalityType
  <2> QED
    BY <2>4, <2>5, <2>6 DEF A
<1> QED
  BY <1>1, InitLimiter, NextLimiter, PTL DEF Spec
=============================================================================
