--------------------------- MODULE AccountsProof ---------------------------
(***************************************************************************)
(* Theorems about Accounts, for any registrations, e-mails, replicas and   *)
(* requests: type correctness, that register keeps the promise of          *)
(* Registry, so that no two clients share an e-mail, and that a served     *)
(* request is one of clients that were active.                             *)
(***************************************************************************)
EXTENDS Accounts, TLAPS

-----------------------------------------------------------------------------
(* Type correctness. *)

\* Entering a middleware yields a request that waits for what it has shown.
LEMMA EnteredType ==
    ASSUME NEW rq \in RequestType, expired \subseteq Registrations,
           rq.at = 1 /\ rq.chain[1] = "jwt" => rq.token # NoCredential
    PROVE  Entered(rq) \in RequestType /\ Waits(Entered(rq))
<1>1. rq.chain \in {<<"jwt">>, <<"key">>, <<"jwt", "key">>, <<"key", "key">>}
  BY DEF RequestType
<1>2. Entered(rq) \in RequestType
  BY DEF Entered, RequestType
<1>3. rq.at <= Len(rq.chain) => rq.at \in DOMAIN rq.chain
  BY <1>1 DEF RequestType
<1>4. rq.at \in DOMAIN rq.chain /\ rq.chain[rq.at] = "jwt" => rq.at = 1
  BY <1>1
<1>5. /\ Entered(rq).at = rq.at /\ Entered(rq).chain = rq.chain
      /\ Entered(rq).token = rq.token /\ Entered(rq).key = rq.key
  BY DEF Entered, RequestType
<1>6. Waits(Entered(rq))
  <2>1. Entered(rq).pc \in {"findOne", "find", "compare"} => rq.at <= Len(rq.chain)
    BY DEF Entered, RequestType
  <2>2. Entered(rq).pc = "findOne" =>
          rq.at <= Len(rq.chain) /\ rq.chain[rq.at] = "jwt" /\ rq.token # Forged
    BY DEF Entered, RequestType
  <2>3. Entered(rq).pc \in {"find", "compare"} => rq.key # NoCredential
    BY DEF Entered, RequestType
  <2>4. rq.token \in Registrations \cup {NoCredential, Forged}
    BY DEF RequestType, Credentials
  <2> QED
    BY <1>3, <1>4, <1>5, <2>1, <2>2, <2>3, <2>4 DEF Waits
<1> QED
  BY <1>2, <1>6

\* The middleware that a request waits in is not its last but one too many.
LEMMA PassedType ==
    ASSUME NEW rq \in RequestType, Waits(rq), expired \subseteq Registrations,
           rq.pc \in {"findOne", "find", "compare"}
    PROVE  Passed(rq) \in RequestType /\ Waits(Passed(rq))
<1> DEFINE next == [rq EXCEPT !.at = @ + 1]
<1>1. rq.at \in 1 .. 2
  <2>1. rq.chain \in {<<"jwt">>, <<"key">>, <<"jwt", "key">>, <<"key", "key">>}
    BY DEF RequestType
  <2> QED
    BY <2>1 DEF Waits
<1>2. next \in RequestType /\ next.at # 1
  BY <1>1 DEF RequestType
<1> QED
  BY <1>2, EnteredType DEF Passed

LEMMA RefusedType ==
    ASSUME NEW rq \in RequestType
    PROVE  Refused(rq) \in RequestType /\ Waits(Refused(rq))
BY DEF Refused, RequestType, Waits

\* Every version that a read can see is a version.
LEMMA ReadableVersions ==
    ASSUME TypeOK
    PROVE  Readable \subseteq 1 .. Len(versions) /\ Len(versions) \in Nat \ {0}
BY DEF TypeOK, Readable

\* A commit appends a table, and leaves the earlier versions as they are.
LEMMA CommitFacts ==
    ASSUME TypeOK, NEW r \in Registrations, NEW status \in {"none", "active", "inactive"},
           Commit(r, status)
    PROVE  /\ versions' \in Seq(Tables) /\ versions' # <<>>
           /\ Len(versions') = Len(versions) + 1
           /\ \A v \in 1 .. Len(versions) : versions'[v] = versions[v]
           /\ versions'[Len(versions')] = [Latest EXCEPT ![r] = status]
<1>1. Latest \in Tables
  BY ReadableVersions DEF TypeOK, Latest
<1>2. [Latest EXCEPT ![r] = status] \in Tables
  BY <1>1 DEF Tables
<1> QED
  BY <1>2, ReadableVersions DEF TypeOK, Commit

LEMMA InitType == Init => TypeOK
BY AccountsAssumption DEF Init, TypeOK, Tables, RequestType, Credentials, Waits

LEMMA RegistrationType ==
    ASSUME TypeOK, NEW r \in Registrations, StartRegister(r) \/ Registering(r)
    PROVE  TypeOK'
<1> DEFINE States == {"new", "finding", "saving", "committed", "created", "conflict", "failed"}
<1>1. registration' \in [Registrations -> States]
  <2>1. ASSUME NEW from, NEW to \in States, Goes(r, from, to)
        PROVE  registration' \in [Registrations -> States]
    BY <2>1 DEF TypeOK, Goes
  <2>2. CASE FindByEmail(r)
    <3>1. Goes(r, "finding", "conflict") \/ Goes(r, "finding", "saving")
      BY <2>2 DEF FindByEmail
    <3> QED
      BY <2>1, <3>1
  <2>3. CASE StartRegister(r) \/ Save(r) \/ Created(r)
    BY <2>1, <2>3 DEF StartRegister, Save, Created
  <2>4. CASE RegisterFails(r)
    BY <2>1, <2>4 DEF RegisterFails
  <2> QED
    BY <2>2, <2>3, <2>4 DEF Registering
<1>2. versions' \in Seq(Tables) /\ versions' # <<>> /\ Len(versions') >= Len(versions)
  <2>1. CASE Save(r)
    <3>1. Commit(r, "active")
      BY <2>1 DEF Save
    <3>2. versions' \in Seq(Tables) /\ versions' # <<>> /\ Len(versions') = Len(versions) + 1
      BY <3>1, CommitFacts
    <3> QED
      BY <3>2, ReadableVersions
  <2>2. CASE UNCHANGED versions
    BY <2>2, ReadableVersions DEF TypeOK
  <2> QED
    BY <2>1, <2>2 DEF StartRegister, Registering, FindByEmail, Created, RegisterFails
<1>3. UNCHANGED <<replicaAt, expired, request>>
  BY DEF StartRegister, Registering, FindByEmail, Save, Created, RegisterFails
<1>4. replicaAt' \in [Replicas -> 1 .. Len(versions')]
  BY <1>2, <1>3, ReadableVersions DEF TypeOK
<1> QED
  BY <1>1, <1>2, <1>3, <1>4 DEF TypeOK, Waits

LEMMA RequestStepType ==
    ASSUME TypeOK, NEW q \in Requests, Authenticating(q)
    PROVE  TypeOK'
<1> DEFINE rq == request[q]
<1>1. rq \in RequestType /\ Waits(rq) /\ expired \subseteq Registrations
  BY DEF TypeOK
<1>2. \E new \in RequestType : Waits(new) /\ request' = [request EXCEPT ![q] = new]
  <2>1. CASE FindOne(q)
    BY <1>1, <2>1, PassedType, RefusedType DEF FindOne, Answers
  <2>2. CASE FindActive(q)
    <3>1. PICK v \in Readable :
            Answers(q, "find", [rq EXCEPT !.pc = "compare",
              !.list = {r \in Registrations : versions[v][r] = "active"}])
      BY <2>2 DEF FindActive
    <3>2. [rq EXCEPT !.pc = "compare", !.list = {r \in Registrations : versions[v][r] = "active"}]
            \in RequestType
      BY <1>1 DEF RequestType
    <3>3. Waits([rq EXCEPT !.pc = "compare",
                           !.list = {r \in Registrations : versions[v][r] = "active"}])
      BY <1>1, <3>1 DEF RequestType, Waits, Answers
    <3> QED
      BY <3>1, <3>2, <3>3 DEF Answers
  <2>3. CASE Compare(q)
    BY <1>1, <2>3, PassedType, RefusedType DEF Compare, Answers
  <2>4. CASE QueryFails(q)
    <3>1. [rq EXCEPT !.pc = "failed"] \in RequestType /\ Waits([rq EXCEPT !.pc = "failed"])
      BY <1>1 DEF RequestType, Waits
    <3> QED
      BY <2>4, <3>1 DEF QueryFails, Answers
  <2> QED
    BY <2>1, <2>2, <2>3, <2>4 DEF Authenticating
<1>3. UNCHANGED <<versions, replicaAt, registration, expired>>
  BY DEF Authenticating, FindOne, FindActive, Compare, QueryFails, Answers
<1> QED
  BY <1>2, <1>3 DEF TypeOK

LEMMA ArriveType ==
    ASSUME TypeOK, NEW q \in Requests, NEW route \in Routes,
           NEW token \in Credentials, NEW key \in Credentials, Arrive(q, route, token, key)
    PROVE  TypeOK'
<1> DEFINE new(v) == [pc |-> "idle", chain |-> Chain(route, token), at |-> 1, token |-> token,
                      key |-> key, list |-> {}, from |-> v]
<1>1. /\ Chain(route, token) \in {<<"jwt">>, <<"key">>, <<"jwt", "key">>, <<"key", "key">>}
      /\ Chain(route, token)[1] = "jwt" => token # NoCredential
  BY DEF Chain, Routes
<1>2. ASSUME NEW v \in Readable
      PROVE  new(v) \in RequestType /\ (new(v).chain[1] = "jwt" => new(v).token # NoCredential)
  BY <1>1, ReadableVersions DEF RequestType
<1>3. ASSUME NEW v \in Readable PROVE Entered(new(v)) \in RequestType /\ Waits(Entered(new(v)))
  <2> HIDE DEF new
  <2> QED
    BY <1>2, EnteredType DEF TypeOK
<1>4. \E v \in Readable : request' = [request EXCEPT ![q] = Entered(new(v))]
  BY DEF Arrive
<1>5. UNCHANGED <<versions, replicaAt, registration, expired>>
  BY DEF Arrive
<1> HIDE DEF new
<1> QED
  BY <1>3, <1>4, <1>5 DEF TypeOK

LEMMA NextType == TypeOK /\ [Next]_vars => TypeOK'
<1> SUFFICES ASSUME TypeOK, [Next]_vars PROVE TypeOK'
  OBVIOUS
<1>1. ASSUME NEW p \in Replicas, Replicate(p) PROVE TypeOK'
  BY <1>1, ReadableVersions DEF TypeOK, Replicate, Waits
<1>2. ASSUME NEW r \in Registrations, StartRegister(r) \/ Registering(r) PROVE TypeOK'
  BY <1>2, RegistrationType
<1>3. ASSUME NEW r \in Registrations, TokenExpires(r) PROVE TypeOK'
  BY <1>3 DEF TypeOK, TokenExpires, Waits
<1>4. ASSUME NEW r \in Registrations, NEW status \in {"none", "active", "inactive"},
             SetStatus(r, status)
      PROVE  TypeOK'
  <2>1. versions' \in Seq(Tables) /\ versions' # <<>> /\ Len(versions') = Len(versions) + 1
    BY <1>4, CommitFacts DEF SetStatus
  <2>2. replicaAt' \in [Replicas -> 1 .. Len(versions')]
    BY <1>4, <2>1, ReadableVersions DEF TypeOK, SetStatus
  <2> QED
    BY <1>4, <2>1, <2>2 DEF TypeOK, SetStatus, Waits
<1>5. ASSUME NEW q \in Requests, NEW route \in Routes, NEW token \in Credentials,
             NEW key \in Credentials, Arrive(q, route, token, key)
      PROVE  TypeOK'
  BY <1>5, ArriveType
<1>6. ASSUME NEW q \in Requests, Authenticating(q) PROVE TypeOK'
  BY <1>6, RequestStepType
<1>7. CASE UNCHANGED vars
  BY <1>7 DEF vars, TypeOK, Waits
<1> QED
  BY <1>1, <1>2, <1>3, <1>4, <1>5, <1>6, <1>7 DEF Next

\* The table, the replicas, every registration and every request keep their types;
\* a request waits in findOne with a client's token, and compares an actual key.
THEOREM TypeCorrect == Spec => []TypeOK
<1> QED
  BY InitType, NextType, PTL DEF Spec

-----------------------------------------------------------------------------
(* register keeps the promise of Registry. *)

\* Who has been told that it exists does or did; who has not saved yet never did.
ClaimsInv ==
    \A r \in Registrations :
      /\ registration[r] \in {"new", "finding", "saving", "conflict"} => r \notin Claimed
      /\ registration[r] \in {"committed", "created"} => r \in Claimed

\* A commit that makes or changes the client r.
LEMMA CommitClaims ==
    ASSUME TypeOK, NEW r \in Registrations, NEW status \in {"none", "active", "inactive"},
           Commit(r, status)
    PROVE  /\ Claimed' = Claimed \cup (IF status # "none" THEN {r} ELSE {})
           /\ Rows' = IF status # "none" THEN Rows \cup {r} ELSE Rows \ {r}
<1>1. /\ Len(versions') = Len(versions) + 1
      /\ \A v \in 1 .. Len(versions) : versions'[v] = versions[v]
      /\ versions'[Len(versions) + 1] = [Latest EXCEPT ![r] = status]
  BY CommitFacts
<1>2. Len(versions) \in Nat \ {0} /\ Latest \in Tables /\ Latest = versions[Len(versions)]
  BY ReadableVersions DEF TypeOK, Latest
<1>3. Latest' = [Latest EXCEPT ![r] = status]
  BY <1>1 DEF Latest
<1>4. Rows' = IF status # "none" THEN Rows \cup {r} ELSE Rows \ {r}
  BY <1>2, <1>3 DEF Rows, Tables
<1>5. ASSUME NEW s \in Registrations
      PROVE  s \in Claimed' <=> s \in Claimed \/ (s = r /\ status # "none")
  <2>1. s \in Claimed => s \in Claimed'
    BY <1>1, <1>2 DEF Claimed
  <2>2. s = r /\ status # "none" => s \in Claimed'
    BY <1>1, <1>2 DEF Claimed, Tables
  <2>3. ASSUME s \in Claimed', ~(s = r /\ status # "none") PROVE s \in Claimed
    <3>1. PICK v \in 1 .. Len(versions) + 1 : versions'[v][s] # "none"
      BY <1>1, <2>3 DEF Claimed
    <3>2. CASE v \in 1 .. Len(versions)
      BY <1>1, <3>1, <3>2 DEF Claimed
    <3>3. CASE v = Len(versions) + 1
      <4>1. Latest[s] # "none"
        BY <1>1, <1>2, <2>3, <3>1, <3>3 DEF Tables
      <4> QED
        BY <1>2, <4>1 DEF Claimed
    <3> QED
      BY <1>2, <3>2, <3>3
  <2> QED
    BY <2>1, <2>2, <2>3
<1>6. Claimed \subseteq Registrations /\ Claimed' \subseteq Registrations
  BY DEF Claimed
<1> QED
  BY <1>4, <1>5, <1>6

\* A registration that moves on without a commit.
LEMMA GoesOn ==
    ASSUME TypeOK, NEW r \in Registrations, NEW from, NEW to, Goes(r, from, to)
    PROVE  /\ registration[r] = from /\ registration'[r] = to
           /\ \A s \in Registrations \ {r} : registration'[s] = registration[s]
BY DEF TypeOK, Goes

\* What a step does to the clients and to one registration.
Moves(r) ==
    \/ Goes(r, "new", "finding")
    \/ Goes(r, "finding", "saving")
    \/ Goes(r, "finding", "conflict") /\ \E s \in Claimed : s # r /\ Email[s] = Email[r]
    \/ Goes(r, "committed", "created")
    \/ \E pc \in {"finding", "saving", "committed"} : Goes(r, pc, "failed")

Claims(r) ==
    /\ Goes(r, "saving", "committed")
    /\ \A s \in Rows : Email[s] # Email[r]
    /\ Rows' = Rows \cup {r}
    /\ Claimed' = Claimed \cup {r}

Effect ==
    \/ UNCHANGED <<Rows, Claimed, registration>>
    \/ \E r \in Registrations :
         \/ Moves(r) /\ UNCHANGED <<Rows, Claimed>>
         \/ Claims(r)
         \/ Rows' = Rows \ {r} /\ UNCHANGED <<Claimed, registration>>

LEMMA StepEffect ==
    ASSUME TypeOK, ClaimsInv, [Next]_vars
    PROVE  Effect
<1>1. UNCHANGED versions => UNCHANGED <<Rows, Claimed>>
  BY DEF Rows, Claimed, Latest
<1>2. CASE UNCHANGED <<versions, registration>>
  BY <1>1, <1>2 DEF Effect
<1>3. ASSUME NEW r \in Registrations, StartRegister(r) \/ Created(r) \/ RegisterFails(r)
      PROVE  Effect
  BY <1>1, <1>3 DEF Effect, Moves, StartRegister, Created, RegisterFails
<1>4. ASSUME NEW r \in Registrations, FindByEmail(r) PROVE Effect
  <2>1. PICK v \in Readable :
          Goes(r, "finding", IF Taken(versions[v], r) THEN "conflict" ELSE "saving")
    BY <1>4 DEF FindByEmail
  <2>2. UNCHANGED <<Rows, Claimed>>
    BY <1>1, <1>4 DEF FindByEmail
  <2>3. CASE Taken(versions[v], r)
    <3>1. PICK s \in Registrations : versions[v][s] # "none" /\ Email[s] = Email[r]
      BY <2>3 DEF Taken
    <3>2. s \in Claimed
      BY <3>1, ReadableVersions DEF Claimed
    <3>3. r \notin Claimed
      BY <2>1 DEF Goes, ClaimsInv
    <3> QED
      BY <2>1, <2>2, <2>3, <3>1, <3>2, <3>3 DEF Effect, Moves
  <2> QED
    BY <2>1, <2>2, <2>3 DEF Effect, Moves
<1>5. ASSUME NEW r \in Registrations, Save(r) PROVE Effect
  <2>1. Commit(r, "active") /\ Goes(r, "saving", "committed") /\ ~Taken(Latest, r)
    BY <1>5 DEF Save, Unique
  <2>2. Rows' = Rows \cup {r} /\ Claimed' = Claimed \cup {r}
    BY <2>1, CommitClaims
  <2>3. \A s \in Rows : Email[s] # Email[r]
    BY <2>1 DEF Rows, Taken
  <2> QED
    BY <2>1, <2>2, <2>3 DEF Effect, Claims
<1>6. ASSUME NEW r \in Registrations, NEW status \in {"none", "active", "inactive"},
             SetStatus(r, status)
      PROVE  Effect
  <2>1. /\ Claimed' = Claimed \cup (IF status # "none" THEN {r} ELSE {})
        /\ Rows' = IF status # "none" THEN Rows \cup {r} ELSE Rows \ {r}
    BY <1>6, CommitClaims DEF SetStatus
  <2>2. r \in Rows /\ r \in Claimed
    BY <1>6, ReadableVersions DEF SetStatus, Rows, Claimed, Latest
  <2> QED
    BY <1>6, <2>1, <2>2 DEF SetStatus, Effect
<1>7. ASSUME NEW q \in Requests, Authenticating(q) PROVE UNCHANGED <<versions, registration>>
  BY <1>7 DEF Authenticating, FindOne, FindActive, Compare, QueryFails, Answers
<1> QED
  BY <1>2, <1>3, <1>4, <1>5, <1>6, <1>7
     DEF Next, Registering, Replicate, TokenExpires, Arrive, vars

LEMMA InitClaims == Init => ClaimsInv
BY DEF Init, ClaimsInv, Claimed

LEMMA NextClaims == TypeOK /\ ClaimsInv /\ [Next]_vars => ClaimsInv'
<1> SUFFICES ASSUME TypeOK, ClaimsInv, [Next]_vars, NEW s \in Registrations
             PROVE  /\ registration'[s] \in {"new", "finding", "saving", "conflict"} => s \notin Claimed'
                    /\ registration'[s] \in {"committed", "created"} => s \in Claimed'
  BY DEF ClaimsInv
<1>1. CASE UNCHANGED <<Claimed, registration>>
  BY <1>1 DEF ClaimsInv
<1>2. ASSUME NEW r \in Registrations, UNCHANGED Claimed, Moves(r)
      PROVE  /\ registration'[s] \in {"new", "finding", "saving", "conflict"} => s \notin Claimed'
             /\ registration'[s] \in {"committed", "created"} => s \in Claimed'
  BY <1>2, GoesOn DEF ClaimsInv, Moves
<1>3. ASSUME NEW r \in Registrations, Claims(r)
      PROVE  /\ registration'[s] \in {"new", "finding", "saving", "conflict"} => s \notin Claimed'
             /\ registration'[s] \in {"committed", "created"} => s \in Claimed'
  BY <1>3, GoesOn DEF ClaimsInv, Claims
<1> QED
  BY <1>1, <1>2, <1>3, StepEffect DEF Effect

\* Registration by registration, a move is an answer of Registry or nothing.
LEMMA RegistryStep ==
    TypeOK /\ TypeOK' /\ ClaimsInv /\ [Next]_vars
      => [Promise!RegistryNext]_(Promise!registryVars)
<1> SUFFICES ASSUME TypeOK, TypeOK', ClaimsInv, Effect
             PROVE  [Promise!RegistryNext]_(Promise!registryVars)
  BY StepEffect
<1>1. CASE UNCHANGED <<Rows, Claimed, registration>>
  <2>1. AnswerOf' = AnswerOf
    BY <1>1 DEF AnswerOf, Answer
  <2> QED
    BY <1>1, <2>1 DEF Promise!registryVars
<1>2. ASSUME NEW r \in Registrations, Moves(r), UNCHANGED <<Rows, Claimed>>
      PROVE  [Promise!RegistryNext]_(Promise!registryVars)
  <2>1. /\ registration[r] \in {"new", "finding", "saving", "committed"}
        /\ \A s \in Registrations \ {r} : registration'[s] = registration[s]
    BY <1>2, GoesOn DEF Moves
  <2>2. AnswerOf[r] = "none" /\ AnswerOf' = [AnswerOf EXCEPT ![r] = Answer(r)']
    BY <2>1 DEF AnswerOf, Answer
  <2>3. CASE registration'[r] \in {"finding", "saving"}
    <3>1. AnswerOf' = AnswerOf
      BY <2>2, <2>3 DEF AnswerOf, Answer
    <3> QED
      BY <1>2, <3>1 DEF Promise!registryVars
  <2>4. CASE registration'[r] \in {"created", "conflict", "failed"}
    <3>1. Answer(r)' = registration'[r]
      BY <2>4 DEF Answer
    <3>2. \/ registration'[r] = "created" /\ r \in Claimed
          \/ /\ registration'[r] = "conflict" /\ r \notin Claimed
             /\ \E s \in Claimed : s # r /\ Email[s] = Email[r]
          \/ registration'[r] = "failed"
      BY <1>2, <2>4, GoesOn DEF Moves, ClaimsInv
    <3>3. Promise!Tell(r, registration'[r])
      BY <1>2, <2>2, <3>1, <3>2 DEF Promise!Tell
    <3> QED
      BY <2>4, <3>3 DEF Promise!RegistryNext
  <2> QED
    BY <1>2, <2>3, <2>4, GoesOn DEF Moves
<1>3. ASSUME NEW r \in Registrations, Claims(r)
      PROVE  [Promise!RegistryNext]_(Promise!registryVars)
  <2>1. AnswerOf[r] = "none" /\ AnswerOf' = AnswerOf
    BY <1>3, GoesOn DEF Claims, AnswerOf, Answer
  <2>2. r \notin Claimed
    BY <1>3, GoesOn DEF Claims, ClaimsInv
  <2>3. Promise!Claim(r)
    BY <1>3, <2>1, <2>2 DEF Claims, Promise!Claim
  <2> QED
    BY <2>3 DEF Promise!RegistryNext
<1>4. ASSUME NEW r \in Registrations, Rows' = Rows \ {r}, UNCHANGED <<Claimed, registration>>
      PROVE  [Promise!RegistryNext]_(Promise!registryVars)
  <2>1. AnswerOf' = AnswerOf
    BY <1>4 DEF AnswerOf, Answer
  <2> QED
    BY <1>4, <2>1 DEF Promise!RegistryNext, Promise!Release
<1> QED
  BY <1>1, <1>2, <1>3, <1>4 DEF Effect

\* Overlapping registrations, whichever replica each has read and whichever commit
\* or acknowledgement is late, do what Registry promises.
THEOREM AccountsImplementRegistry == Spec => ImplementsRegistry
<1>1. Init => Promise!RegistryInit
  BY DEF Init, Promise!RegistryInit, Rows, Claimed, Latest, AnswerOf, Answer
<1> QED
  BY <1>1, InitType, NextType, InitClaims, NextClaims, RegistryStep, PTL
     DEF Spec, ImplementsRegistry, Promise!RegistrySpec

\* No two clients share an e-mail, in the primary database.
THEOREM EmailsAreUnique == Spec => []Promise!OneClientPerEmail
<1>1. Init => Promise!OneClientPerEmail
  BY DEF Init, Promise!OneClientPerEmail, Rows, Latest
<1>2. TypeOK /\ ClaimsInv /\ Promise!OneClientPerEmail /\ [Next]_vars
        => Promise!OneClientPerEmail'
  BY StepEffect DEF Effect, Claims, Promise!OneClientPerEmail
<1> QED
  BY <1>1, <1>2, InitType, NextType, InitClaims, NextClaims, PTL DEF Spec

-----------------------------------------------------------------------------
(* Served requests are of clients that were active, refused ones have a cause. *)

Judged == {"findOne", "find", "compare", "served"}

\* What a request has passed was active, what it will read is not older than from.
Seen(rq) ==
    /\ rq.pc \in {"findOne", "find", "compare"} => \A v \in Readable : rq.from <= v
    /\ rq.pc \in Judged => \A n \in DOMAIN rq.chain : n < rq.at => WasActive(Shown(rq, n), rq)
    /\ rq.pc \in {"find", "compare"} => rq.chain[rq.at] = "key"
    /\ rq.pc = "findOne" => rq.chain[rq.at] = "jwt"
    /\ rq.pc = "compare" => \A c \in Registrations :
         IF c \in rq.list THEN WasActive(c, rq) ELSE WasNotActive(c, rq)
    /\ rq.pc = "served" => rq.at > Len(rq.chain)
    /\ rq.pc = "refused" => HasCause(rq)

SeenInv == \A q \in Requests : Seen(request[q])

\* Versions are only appended, and replicas only advance.
LEMMA HistoryGrows ==
    ASSUME TypeOK, [Next]_vars
    PROVE  /\ Len(versions) <= Len(versions')
           /\ \A v \in 1 .. Len(versions) : versions'[v] = versions[v]
           /\ \A w \in Readable' : \E v \in Readable : v <= w
<1>1. Len(versions) \in Nat \ {0} /\ Readable \subseteq 1 .. Len(versions)
  BY ReadableVersions
<1>2. ASSUME NEW r \in Registrations, NEW status \in {"none", "active", "inactive"},
             Commit(r, status), UNCHANGED replicaAt
      PROVE  /\ Len(versions) <= Len(versions')
             /\ \A v \in 1 .. Len(versions) : versions'[v] = versions[v]
             /\ \A w \in Readable' : \E v \in Readable : v <= w
  <2>1. /\ Len(versions') = Len(versions) + 1
        /\ \A v \in 1 .. Len(versions) : versions'[v] = versions[v]
    BY <1>2, CommitFacts
  <2>2. \A w \in Readable' : \E v \in Readable : v <= w
    <3>1. CASE Replicas = {}
      <4>1. Readable' = {Len(versions) + 1} /\ Readable = {Len(versions)}
        BY <2>1, <3>1 DEF Readable
      <4> QED
        BY <1>1, <4>1
    <3>2. CASE Replicas # {}
      <4>1. Readable' = Readable
        BY <1>2, <3>2 DEF Readable
      <4> QED
        BY <1>1, <4>1
    <3> QED
      BY <3>1, <3>2
  <2> QED
    BY <1>1, <2>1, <2>2
<1>3. ASSUME NEW p \in Replicas, Replicate(p)
      PROVE  UNCHANGED versions /\ \A w \in Readable' : \E v \in Readable : v <= w
  <2>1. \A s \in Replicas : replicaAt[s] <= replicaAt'[s] /\ replicaAt[s] \in Nat
    BY <1>1, <1>3 DEF Replicate, TypeOK
  <2> QED
    BY <1>3, <2>1 DEF Readable, Replicate
<1>4. CASE UNCHANGED <<versions, replicaAt>>
  BY <1>1, <1>4 DEF Readable
<1>5. ASSUME NEW r \in Registrations,
             StartRegister(r) \/ FindByEmail(r) \/ Created(r) \/ RegisterFails(r) \/ TokenExpires(r)
      PROVE  UNCHANGED <<versions, replicaAt>>
  BY <1>5 DEF StartRegister, FindByEmail, Created, RegisterFails, TokenExpires
<1>6. ASSUME NEW q \in Requests, Authenticating(q) PROVE UNCHANGED <<versions, replicaAt>>
  BY <1>6 DEF Authenticating, FindOne, FindActive, Compare, QueryFails, Answers
<1>7. ASSUME NEW r \in Registrations, Save(r)
      PROVE  Commit(r, "active") /\ UNCHANGED replicaAt
  BY <1>7 DEF Save
<1>8. CASE \E p \in Replicas : Replicate(p)
  BY <1>1, <1>3, <1>8
<1>9. CASE \E r \in Registrations : Save(r)
  BY <1>2, <1>7, <1>9
<1>10. CASE \E r \in Registrations, status \in {"none", "active", "inactive"} : SetStatus(r, status)
  BY <1>2, <1>10 DEF SetStatus
<1> QED
  BY <1>4, <1>5, <1>6, <1>8, <1>9, <1>10 DEF Next, Registering, Arrive, vars

\* A request that is left alone goes on being right.
LEMMA SeenLasts ==
    ASSUME TypeOK, [Next]_vars, expired \subseteq expired', NEW rq \in RequestType, Seen(rq)
    PROVE  Seen(rq)'
<1>1. /\ Len(versions) <= Len(versions') /\ Len(versions) \in Nat /\ Len(versions') \in Nat
      /\ \A v \in 1 .. Len(versions) : versions'[v] = versions[v]
      /\ \A w \in Readable' : \E v \in Readable : v <= w
      /\ Readable \subseteq Nat /\ Readable' \subseteq Nat
  <2>1. TypeOK'
    BY NextType
  <2>2. Readable' \subseteq 1 .. Len(versions') /\ Len(versions') \in Nat \ {0}
    BY <2>1 DEF TypeOK, Readable
  <2> QED
    BY <2>2, HistoryGrows, ReadableVersions
<1>2. rq.from \in Nat \ {0}
  BY DEF RequestType
<1>3. \A c : /\ WasActive(c, rq) => WasActive(c, rq)'
             /\ WasNotActive(c, rq) => WasNotActive(c, rq)'
  BY <1>1, <1>2 DEF WasActive, WasNotActive
<1>4. (\A v \in Readable : rq.from <= v) => \A w \in Readable' : rq.from <= w
  BY <1>1, <1>2
<1>5. HasCause(rq) => HasCause(rq)'
  BY <1>3 DEF HasCause
<1> QED
  BY <1>3, <1>4, <1>5 DEF Seen

\* Entering a middleware, having passed those before it.
LEMMA EnteredSeen ==
    ASSUME TypeOK, NEW rq \in RequestType, \A v \in Readable : rq.from <= v,
           \A n \in DOMAIN rq.chain : n < rq.at => WasActive(Shown(rq, n), rq)
    PROVE  Seen(Entered(rq))
<1> DEFINE new == Entered(rq)
<1>1. /\ new.at = rq.at /\ new.chain = rq.chain /\ new.from = rq.from
      /\ new.token = rq.token /\ new.key = rq.key
  BY DEF Entered, RequestType
<1>2. \A n \in DOMAIN rq.chain : Shown(new, n) = Shown(rq, n)
  BY <1>1 DEF Shown
<1>3. \A c : WasActive(c, new) <=> WasActive(c, rq)
  BY <1>1 DEF WasActive
<1>4. /\ new.pc = "served" => rq.at > Len(rq.chain)
      /\ new.pc # "compare"
      /\ new.pc = "findOne" => rq.chain[rq.at] = "jwt"
      /\ new.pc = "find" => rq.chain[rq.at] = "key"
      /\ new.pc = "refused" => /\ rq.at <= Len(rq.chain)
                               /\ IF rq.chain[rq.at] = "jwt"
                                  THEN rq.token = Forged \/ rq.token \in expired
                                  ELSE rq.key = NoCredential
  BY DEF Entered, RequestType
<1>5. new.pc = "refused" => HasCause(new)
  <2>1. SUFFICES ASSUME new.pc = "refused" PROVE HasCause(new)
    OBVIOUS
  <2>2. rq.chain \in {<<"jwt">>, <<"key">>, <<"jwt", "key">>, <<"key", "key">>}
    BY DEF RequestType
  <2>3. rq.at \in DOMAIN rq.chain
    BY <1>4, <2>1, <2>2 DEF RequestType
  <2>4. rq.chain[rq.at] = "jwt" => rq.at = 1
    BY <2>2, <2>3
  <2>5. CASE rq.chain[rq.at] = "jwt" /\ rq.token \in expired
    BY <1>1, <2>4, <2>5 DEF HasCause
  <2>6. CASE Shown(rq, rq.at) \in {NoCredential, Forged}
    <3>1. Shown(new, rq.at) \in Presented(new)
      BY <1>1, <2>3 DEF Presented
    <3> QED
      BY <1>2, <2>3, <2>6, <3>1 DEF HasCause
  <2> QED
    BY <1>4, <2>1, <2>5, <2>6 DEF Shown
<1> HIDE DEF new
<1>6. \A n \in DOMAIN new.chain : n < new.at => WasActive(Shown(new, n), new)
  BY <1>1, <1>2, <1>3
<1>7. Seen(new)
  BY <1>1, <1>4, <1>5, <1>6 DEF Seen
<1> QED
  BY <1>7 DEF new

\* Passing a middleware with a credential whose client was active.
LEMMA PassedSeen ==
    ASSUME TypeOK, NEW rq \in RequestType, Waits(rq), Seen(rq),
           rq.pc \in {"findOne", "compare"}, WasActive(Shown(rq, rq.at), rq)
    PROVE  Seen(Passed(rq))
<1> DEFINE next == [rq EXCEPT !.at = @ + 1]
<1>1. rq.at \in 1 .. 2 /\ rq.at \in DOMAIN rq.chain
  <2>1. rq.chain \in {<<"jwt">>, <<"key">>, <<"jwt", "key">>, <<"key", "key">>}
    BY DEF RequestType
  <2> QED
    BY <2>1 DEF Waits
<1>2. /\ next \in RequestType /\ next.at = rq.at + 1 /\ next.chain = rq.chain
      /\ next.from = rq.from /\ next.token = rq.token /\ next.key = rq.key
  BY <1>1 DEF RequestType
<1>3. DOMAIN rq.chain \subseteq Nat
  BY DEF RequestType
<1> HIDE DEF next
<1>4. \A n \in DOMAIN next.chain : Shown(next, n) = Shown(rq, n)
  BY <1>2 DEF Shown
<1>5. \A c : WasActive(c, rq) => WasActive(c, next)
  BY <1>2 DEF WasActive
<1>6. \A n \in DOMAIN next.chain : n < next.at => WasActive(Shown(next, n), next)
  <2>1. ASSUME NEW n \in DOMAIN rq.chain, n < rq.at + 1 PROVE n < rq.at \/ n = rq.at
    BY <1>1, <1>3, <2>1
  <2>2. \A n \in DOMAIN rq.chain : n < rq.at => WasActive(Shown(rq, n), rq)
    BY DEF Seen, Judged
  <2> QED
    BY <1>2, <1>4, <1>5, <2>1, <2>2
<1>7. \A v \in Readable : next.from <= v
  BY <1>2 DEF Seen
<1>8. Seen(Entered(next))
  BY <1>2, <1>6, <1>7, EnteredSeen
<1> QED
  BY <1>8 DEF Passed, next

\* Refusing a request whose credential's client was not active.
LEMMA RefusedSeen ==
    ASSUME NEW rq \in RequestType, Waits(rq),
           rq.pc \in {"findOne", "compare"},
           LET c == Shown(rq, rq.at) IN c \in {NoCredential, Forged} \/ WasNotActive(c, rq)
    PROVE  Seen(Refused(rq))
<1>1. rq.at \in DOMAIN rq.chain
  BY DEF Waits
<1> DEFINE new == Refused(rq)
<1>2. /\ new.pc = "refused" /\ new.chain = rq.chain /\ new.from = rq.from
      /\ new.token = rq.token /\ new.key = rq.key
  BY DEF Refused, RequestType
<1> HIDE DEF new
<1>3. Shown(new, rq.at) \in Presented(new) /\ Shown(new, rq.at) = Shown(rq, rq.at)
  BY <1>1, <1>2 DEF Presented, Shown
<1>4. \A c : WasNotActive(c, rq) => WasNotActive(c, new)
  BY <1>2 DEF WasNotActive
<1>5. HasCause(new)
  BY <1>3, <1>4 DEF HasCause
<1>6. Seen(new)
  BY <1>2, <1>5 DEF Seen, Judged
<1> QED
  BY <1>6 DEF new

LEMMA InitSeen == Init => SeenInv
BY DEF Init, SeenInv, Seen, Judged

\* A request that a step answers, or takes to its next middleware.
LEMMA AuthenticatingSeen ==
    ASSUME TypeOK, SeenInv, NEW q \in Requests, Authenticating(q)
    PROVE  \E new \in RequestType : Seen(new) /\ request' = [request EXCEPT ![q] = new]
<1> DEFINE rq == request[q]
<1>1. rq \in RequestType /\ Waits(rq) /\ Seen(rq) /\ expired \subseteq Registrations
  BY DEF TypeOK, SeenInv
<1>2. rq.token \in Credentials /\ rq.key \in Credentials /\ rq.list \subseteq Registrations
  BY <1>1 DEF RequestType
<1>3. Readable \subseteq 1 .. Len(versions) /\ Len(versions) \in Nat
  BY ReadableVersions
<1> HIDE DEF rq
<1>4. CASE FindOne(q)
  <2>1. PICK v \in Readable :
          Answers(q, "findOne", IF versions[v][rq.token] = "active" THEN Passed(rq) ELSE Refused(rq))
    BY <1>4 DEF FindOne, rq
  <2>2. rq.pc = "findOne" /\ Shown(rq, rq.at) = rq.token
    BY <1>1, <2>1 DEF Answers, Seen, Shown, rq
  <2>3. v \in rq.from .. Len(versions)
    BY <1>1, <1>3, <2>2 DEF Seen, RequestType
  <2>4. CASE versions[v][rq.token] = "active"
    <3>1. WasActive(rq.token, rq)
      BY <2>3, <2>4 DEF WasActive
    <3>2. Seen(Passed(rq)) /\ Passed(rq) \in RequestType
      BY <1>1, <2>2, <3>1, PassedSeen, PassedType
    <3> QED
      BY <2>1, <2>4, <3>2 DEF Answers
  <2>5. CASE versions[v][rq.token] # "active"
    <3>1. WasNotActive(rq.token, rq)
      BY <2>3, <2>5 DEF WasNotActive
    <3>2. Seen(Refused(rq)) /\ Refused(rq) \in RequestType
      BY <1>1, <2>2, <3>1, RefusedSeen, RefusedType
    <3> QED
      BY <2>1, <2>5, <3>2 DEF Answers
  <2> QED
    BY <2>4, <2>5
<1>5. CASE FindActive(q)
  <2> DEFINE new(v) == [rq EXCEPT !.pc = "compare",
                                  !.list = {r \in Registrations : versions[v][r] = "active"}]
  <2>1. PICK v \in Readable : Answers(q, "find", new(v))
    BY <1>5 DEF FindActive, rq
  <2>2. rq.pc = "find"
    BY <2>1 DEF Answers, rq
  <2>3. v \in rq.from .. Len(versions)
    BY <1>1, <1>3, <2>2 DEF Seen, RequestType
  <2>4. /\ new(v) \in RequestType /\ new(v).pc = "compare" /\ new(v).chain = rq.chain
        /\ new(v).at = rq.at /\ new(v).from = rq.from /\ new(v).token = rq.token
        /\ new(v).key = rq.key /\ new(v).list = {r \in Registrations : versions[v][r] = "active"}
    BY <1>1 DEF RequestType
  <2>5. request' = [request EXCEPT ![q] = new(v)]
    BY <2>1 DEF Answers, rq
  <2> HIDE DEF new
  <2>6. \A c \in Registrations :
          IF c \in new(v).list THEN WasActive(c, new(v)) ELSE WasNotActive(c, new(v))
    BY <2>3, <2>4 DEF WasActive, WasNotActive
  <2>7. \A n \in DOMAIN rq.chain : n < rq.at => WasActive(Shown(new(v), n), new(v))
    <3>1. \A n \in DOMAIN rq.chain : n < rq.at => WasActive(Shown(rq, n), rq)
      BY <1>1, <2>2 DEF Seen, Judged
    <3> QED
      BY <2>4, <3>1 DEF WasActive, Shown
  <2>8. (\A w \in Readable : new(v).from <= w) /\ rq.chain[rq.at] = "key"
    BY <1>1, <2>2, <2>4 DEF Seen
  <2>9. Seen(new(v))
    BY <2>4, <2>6, <2>7, <2>8 DEF Seen
  <2> QED
    BY <2>4, <2>5, <2>9
<1>6. CASE Compare(q)
  <2>1. Answers(q, "compare", IF rq.key \in rq.list THEN Passed(rq) ELSE Refused(rq))
    BY <1>6 DEF Compare, rq
  <2>2. rq.pc = "compare" /\ Shown(rq, rq.at) = rq.key /\ rq.key # NoCredential
    BY <1>1, <2>1 DEF Answers, Seen, Shown, Waits, rq
  <2>3. CASE rq.key \in rq.list
    <3>1. WasActive(rq.key, rq)
      BY <1>1, <1>2, <2>2, <2>3 DEF Seen
    <3>2. Seen(Passed(rq)) /\ Passed(rq) \in RequestType
      BY <1>1, <2>2, <3>1, PassedSeen, PassedType
    <3> QED
      BY <2>1, <2>3, <3>2 DEF Answers
  <2>4. CASE rq.key \notin rq.list
    <3>1. rq.key = Forged \/ WasNotActive(rq.key, rq)
      BY <1>1, <1>2, <2>2, <2>4 DEF Seen, Credentials
    <3>2. Seen(Refused(rq)) /\ Refused(rq) \in RequestType
      BY <1>1, <2>2, <3>1, RefusedSeen, RefusedType
    <3> QED
      BY <2>1, <2>4, <3>2 DEF Answers
  <2> QED
    BY <2>3, <2>4
<1>7. CASE QueryFails(q)
  <2>1. request' = [request EXCEPT ![q] = [rq EXCEPT !.pc = "failed"]]
    BY <1>7 DEF QueryFails, Answers, rq
  <2>2. [rq EXCEPT !.pc = "failed"] \in RequestType /\ Seen([rq EXCEPT !.pc = "failed"])
    BY <1>1 DEF RequestType, Seen, Judged
  <2> QED
    BY <2>1, <2>2
<1> QED
  BY <1>4, <1>5, <1>6, <1>7 DEF Authenticating

\* A request that comes, before its first middleware.
LEMMA ArriveSeen ==
    ASSUME TypeOK, NEW q \in Requests, NEW route \in Routes,
           NEW token \in Credentials, NEW key \in Credentials, Arrive(q, route, token, key)
    PROVE  \E new \in RequestType : Seen(new) /\ request' = [request EXCEPT ![q] = new]
<1> DEFINE rq(v) == [pc |-> "idle", chain |-> Chain(route, token), at |-> 1, token |-> token,
                     key |-> key, list |-> {}, from |-> v]
<1>1. PICK v \in Readable : /\ \A w \in Readable : v <= w
                            /\ request' = [request EXCEPT ![q] = Entered(rq(v))]
  BY DEF Arrive
<1>2. /\ Chain(route, token) \in {<<"jwt">>, <<"key">>, <<"jwt", "key">>, <<"key", "key">>}
      /\ Chain(route, token)[1] = "jwt" => token # NoCredential
  BY DEF Chain, Routes
<1>3. /\ rq(v) \in RequestType /\ rq(v).at = 1 /\ rq(v).from = v
      /\ rq(v).chain[1] = "jwt" => rq(v).token # NoCredential
  BY <1>2, ReadableVersions DEF RequestType
<1> HIDE DEF rq
<1>4. \A n \in DOMAIN rq(v).chain : ~(n < 1)
  BY <1>3 DEF RequestType
<1>5. Seen(Entered(rq(v))) /\ Entered(rq(v)) \in RequestType
  BY <1>1, <1>3, <1>4, EnteredSeen, EnteredType DEF TypeOK
<1> QED
  BY <1>1, <1>5

\* A request as it is after the step.
LEMMA SeenNow ==
    ASSUME NEW q \in Requests, NEW rq, request'[q] = rq, Seen(rq)'
    PROVE  Seen(request[q])'
<1>1. \A c : /\ WasActive(c, rq)' <=> WasActive(c, request[q])'
             /\ WasNotActive(c, rq)' <=> WasNotActive(c, request[q])'
  BY DEF WasActive, WasNotActive
<1>2. \A n : Shown(rq, n)' = Shown(request[q], n)'
  BY DEF Shown
<1>3. Presented(rq)' = Presented(request[q])'
  BY <1>2 DEF Presented
<1>4. HasCause(rq)' => HasCause(request[q])'
  BY <1>1, <1>3 DEF HasCause
<1> QED
  BY <1>1, <1>2, <1>4 DEF Seen

LEMMA NextSeen == TypeOK /\ SeenInv /\ [Next]_vars => SeenInv'
<1> SUFFICES ASSUME TypeOK, SeenInv, [Next]_vars PROVE SeenInv'
  OBVIOUS
<1>1. ASSUME expired \subseteq expired', NEW q \in Requests, request'[q] = request[q]
      PROVE  Seen(request[q])'
  <2>1. request[q] \in RequestType /\ Seen(request[q])
    BY DEF TypeOK, SeenInv
  <2>2. \A rq \in RequestType : Seen(rq) => Seen(rq)'
    BY <1>1, SeenLasts
  <2>3. PICK rq \in RequestType : rq = request[q] /\ Seen(rq)
    BY <2>1
  <2> QED
    BY <1>1, <2>2, <2>3, SeenNow
<1>2. ASSUME NEW q \in Requests,
             Authenticating(q) \/ \E route \in Routes, token, key \in Credentials :
                                    Arrive(q, route, token, key)
      PROVE  SeenInv'
  <2>1. PICK new \in RequestType : Seen(new) /\ request' = [request EXCEPT ![q] = new]
    BY <1>2, AuthenticatingSeen, ArriveSeen
  <2>2. expired \subseteq expired'
    BY <1>2 DEF Authenticating, FindOne, FindActive, Compare, QueryFails, Answers, Arrive
  <2>3. request'[q] = new /\ Seen(new)'
    BY <2>1, <2>2, SeenLasts DEF TypeOK
  <2>4. Seen(request[q])'
    BY <2>3, SeenNow
  <2>5. ASSUME NEW p \in Requests, p # q PROVE Seen(request[p])'
    BY <1>1, <2>1, <2>2, <2>5 DEF TypeOK
  <2> QED
    BY <2>4, <2>5 DEF SeenInv
<1>3. CASE UNCHANGED request /\ expired \subseteq expired'
  BY <1>1, <1>3 DEF SeenInv
<1>4. ASSUME NEW r \in Registrations,
             \/ StartRegister(r) \/ Registering(r) \/ TokenExpires(r)
             \/ \E status \in {"none", "active", "inactive"} : SetStatus(r, status)
      PROVE  UNCHANGED request /\ expired \subseteq expired'
  BY <1>4 DEF StartRegister, Registering, FindByEmail, Save, Created, RegisterFails,
              TokenExpires, SetStatus
<1> QED
  BY <1>2, <1>3, <1>4 DEF Next, Replicate, vars

\* A request changes alone.
LEMMA RequestAlone ==
    ASSUME TypeOK, [Next]_vars, NEW q \in Requests, request'[q] # request[q]
    PROVE  UNCHANGED <<versions, expired>>
<1>1. CASE \E p \in Requests :
             \/ \E route \in Routes, token, key \in Credentials : Arrive(p, route, token, key)
             \/ Authenticating(p)
  BY <1>1 DEF Authenticating, FindOne, FindActive, Compare, QueryFails, Answers, Arrive
<1> QED
  BY <1>1 DEF Next, Replicate, StartRegister, Registering, FindByEmail, Save, Created,
              RegisterFails, TokenExpires, SetStatus, vars

\* What a step answers, it answers for a reason that can still be seen.
LEMMA AnswersJustified ==
    ASSUME TypeOK, SeenInv, [Next]_vars, NEW q \in Requests
    PROVE  /\ Ends(q, "served") =>
                \A c \in Presented(request'[q]) : WasActive(c, request'[q])
           /\ Ends(q, "refused") => HasCause(request'[q])
<1> SUFFICES ASSUME request'[q] # request[q]
             PROVE  /\ request'[q].pc = "served" =>
                         \A c \in Presented(request'[q]) : WasActive(c, request'[q])
                    /\ request'[q].pc = "refused" => HasCause(request'[q])
  BY DEF Ends
<1>1. UNCHANGED <<versions, expired>>
  BY RequestAlone
<1>2. Seen(request[q])' /\ request'[q] \in RequestType
  BY NextSeen, NextType DEF SeenInv, TypeOK
<1>3. \A c : /\ WasActive(c, request[q])' <=> WasActive(c, request'[q])
             /\ WasNotActive(c, request[q])' <=> WasNotActive(c, request'[q])
  BY <1>1 DEF WasActive, WasNotActive
<1>4. \A n : Shown(request[q], n)' = Shown(request'[q], n)
  BY DEF Shown
<1>5. Presented(request[q])' = Presented(request'[q])
  BY <1>4 DEF Presented
<1>6. HasCause(request[q])' => HasCause(request'[q])
  BY <1>1, <1>3, <1>5 DEF HasCause
<1>7. request'[q].pc = "served" =>
        \A n \in DOMAIN request'[q].chain : WasActive(Shown(request'[q], n), request'[q])
  <2>1. \A n \in DOMAIN request'[q].chain : n \in Nat /\ n <= Len(request'[q].chain)
    BY <1>2 DEF RequestType
  <2>2. request'[q].pc = "served" => \A n \in DOMAIN request'[q].chain : n < request'[q].at
    BY <1>2, <2>1 DEF Seen, RequestType
  <2> QED
    BY <1>2, <1>3, <1>4, <2>2 DEF Seen, Judged
<1> QED
  BY <1>2, <1>6, <1>7 DEF Seen, Presented

\* A served request is one of clients that were active in a version of the table no
\* older than what some replica had when it came.
THEOREM OnlyActiveClientsAreServed == Spec => ServedWasActive
<1>1. TypeOK /\ SeenInv /\ [Next]_vars =>
        [\A q \in Requests : Ends(q, "served") =>
           \A c \in Presented(request'[q]) : WasActive(c, request'[q])]_vars
  BY AnswersJustified
<1> QED
  BY <1>1, InitType, NextType, InitSeen, NextSeen, PTL DEF Spec, ServedWasActive

\* A request that is refused had cause to be, whatever its queries read.
THEOREM RefusalsHaveCause == Spec => RefusedForCause
<1>1. TypeOK /\ SeenInv /\ [Next]_vars =>
        [\A q \in Requests : Ends(q, "refused") => HasCause(request'[q])]_vars
  BY AnswersJustified
<1> QED
  BY <1>1, InitType, NextType, InitSeen, NextSeen, PTL DEF Spec, RefusedForCause
=============================================================================
