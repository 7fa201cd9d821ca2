------------------------------ MODULE Accounts ------------------------------
(***************************************************************************)
(* The clients table, the registrations that fill it, and the requests     *)
(* that are authenticated against it: authenticateJWT, authenticateAPIKey  *)
(* and the combinations of them that the routes, the SSE stream and the    *)
(* WebSocket server use.                                                   *)
(*                                                                         *)
(* Writes go to the primary database.  With DATABASE_READ_REPLICAS every   *)
(* read goes to some replica, and replicas lag: the table is the sequence  *)
(* of its versions, of which each replica has applied a prefix.            *)
(*                                                                         *)
(* A client is named by the registration that made it: its clientId, API   *)
(* key and token are random and belong to it alone.                        *)
(***************************************************************************)
EXTENDS Naturals, Sequences, FiniteSets

CONSTANTS
    Registrations,  \* calls of register
    Email,          \* the e-mail each comes with
    Replicas,       \* the read replicas; without one, reads go to the primary
    Requests,       \* requests in flight, each answered and then made anew
    NoCredential, Forged,  \* a header that is missing, or no client's
    MaxVersions     \* bound: the versions of the table

ASSUME AccountsAssumption ==
    /\ {NoCredential, Forged} \cap Registrations = {}
    /\ NoCredential # Forged
    /\ MaxVersions \in Nat

VARIABLES
    versions,      \* the clients table after each commit, the latest last
    replicaAt,     \* the version each replica has
    registration,  \* where each call of register stands, or how it was answered
    expired,       \* the clients whose token has expired
    request        \* what each request has come with, and where it stands

vars == <<versions, replicaAt, registration, expired, request>>

Tables == [Registrations -> {"none", "active", "inactive"}]
Latest == versions[Len(versions)]
Credentials == Registrations \cup {NoCredential, Forged}
Routes == {"logs", "usage", "stream"}

\* chain: the middlewares of the request; at: the present one.  list: the active
\* clients that authenticateAPIKey has fetched.  from: history, the oldest version
\* that a read could see when the request came.
RequestType ==
    [pc : {"idle", "findOne", "find", "compare", "served", "refused", "failed"},
     chain : {<<"jwt">>, <<"key">>, <<"jwt", "key">>, <<"key", "key">>}, at : 1 .. 3,
     token : Credentials, key : Credentials, list : SUBSET Registrations,
     from : Nat \ {0}]

\* What a request that waits has shown: a client's token, or some key.
Waits(rq) ==
    /\ rq.pc \in {"findOne", "find", "compare"} => rq.at \in DOMAIN rq.chain
    /\ rq.pc = "findOne" => rq.token \in Registrations
    /\ rq.pc \in {"find", "compare"} => rq.key # NoCredential

TypeOK ==
    /\ versions \in Seq(Tables) /\ versions # <<>>
    /\ replicaAt \in [Replicas -> 1 .. Len(versions)]
    /\ registration \in [Registrations ->
         {"new", "finding", "saving", "committed", "created", "conflict", "failed"}]
    /\ expired \subseteq Registrations
    /\ request \in [Requests -> RequestType]
    /\ \A q \in Requests : Waits(request[q])

Init ==
    /\ versions = <<[r \in Registrations |-> "none"]>>
    /\ replicaAt = [p \in Replicas |-> 1]
    /\ registration = [r \in Registrations |-> "new"]
    /\ expired = {}
    /\ request = [q \in Requests |->
         [pc |-> "idle", chain |-> <<"key">>, at |-> 1, token |-> NoCredential,
          key |-> NoCredential, list |-> {}, from |-> 1]]

-----------------------------------------------------------------------------
(* The database. *)

\* Mutant of Readable: what was once read is kept.
ReadableEver == 1 .. Len(versions)

\* The versions a read may see: each read goes to any of the replicas.
Readable == IF Replicas = {} THEN {Len(versions)} ELSE {replicaAt[p] : p \in Replicas}

Commit(r, status) == versions' = Append(versions, [Latest EXCEPT ![r] = status])

\* A replica applies the next commit.
Replicate(p) ==
    /\ replicaAt[p] < Len(versions)
    /\ replicaAt' = [replicaAt EXCEPT ![p] = @ + 1]
    /\ UNCHANGED <<versions, registration, expired, request>>

\* deactivate, activate and delete of ClientRepository; lastAccessAt, which an
\* authenticated request updates without waiting, is no part of a status.
SetStatus(r, status) ==
    /\ Latest[r] \notin {"none", status}
    \* Bound, which leaves room for every registration.
    /\ Len(versions) + Cardinality({s \in Registrations :
         registration[s] \in {"new", "finding", "saving"}}) < MaxVersions
    /\ Commit(r, status)
    /\ UNCHANGED <<replicaAt, registration, expired, request>>

-----------------------------------------------------------------------------
(* register. *)

Goes(r, from, to) ==
    /\ registration[r] = from
    /\ registration' = [registration EXCEPT ![r] = to]

StartRegister(r) ==
    /\ Goes(r, "new", "finding")
    /\ UNCHANGED <<versions, replicaAt, expired, request>>

Taken(table, r) == \E s \in Registrations : table[s] # "none" /\ Email[s] = Email[r]

\* findByEmail, of a version that may be old.  Without a client, the key is hashed
\* and the client saved.
FindByEmail(r) ==
    /\ \E v \in Readable : Goes(r, "finding", IF Taken(versions[v], r) THEN "conflict" ELSE "saving")
    /\ UNCHANGED <<versions, replicaAt, expired, request>>

\* Mutant of Unique: the e-mail has no unique constraint.
NotUnique(r) == Latest[r] = "none"

\* The unique constraint of the e-mail.
Unique(r) == ~Taken(Latest, r)

\* The INSERT commits.
Save(r) ==
    /\ Unique(r)
    /\ Goes(r, "saving", "committed")
    /\ Commit(r, "active")
    /\ UNCHANGED <<replicaAt, expired, request>>

\* The acknowledgement arrives: 201, with the API key and the token.
Created(r) ==
    /\ Goes(r, "committed", "created")
    /\ UNCHANGED <<versions, replicaAt, expired, request>>

\* 500: withDatabaseRetry has given up, the constraint rejects the row, the
\* connection is lost before the commit or before its acknowledgement.
RegisterFails(r) ==
    /\ \E pc \in {"finding", "saving", "committed"} : Goes(r, pc, "failed")
    /\ UNCHANGED <<versions, replicaAt, expired, request>>

-----------------------------------------------------------------------------
(* Authentication. *)

\* The middlewares of a route.  authenticate takes the token when there is one, and
\* the routes of the reports put authenticateAPIKey behind it.
Chain(route, token) ==
    LET first == IF token # NoCredential THEN "jwt" ELSE "key"
    IN  CASE route = "logs" -> <<"key">>
          [] route = "usage" -> <<first, "key">>
          [] route = "stream" -> <<first>>

\* Mutant of Entered: a missing key is compared too.
EnteredUnchecked(rq) ==
    [rq EXCEPT !.list = {}, !.pc =
       IF rq.at > Len(rq.chain) THEN "served"
       ELSE IF rq.chain[rq.at] = "jwt"
       THEN IF rq.token = Forged \/ rq.token \in expired THEN "refused" ELSE "findOne"
       ELSE "find"]

\* A request enters its next middleware: verifyJWT and a missing key answer at once,
\* and what is left is a query to wait for.
Entered(rq) ==
    [rq EXCEPT !.list = {}, !.pc =
       IF rq.at > Len(rq.chain) THEN "served"
       ELSE IF rq.chain[rq.at] = "jwt"
       THEN IF rq.token = Forged \/ rq.token \in expired THEN "refused" ELSE "findOne"
       ELSE IF rq.key = NoCredential THEN "refused" ELSE "find"]

Passed(rq) == Entered([rq EXCEPT !.at = @ + 1])
Refused(rq) == [rq EXCEPT !.pc = "refused", !.list = {}]

\* Registered clients have the credentials of their 201.
Held == {r \in Registrations : registration[r] = "created"} \cup {NoCredential, Forged}

Arrive(q, route, token, key) ==
    /\ request[q].pc \in {"idle", "served", "refused", "failed"}
    /\ token \in Held /\ key \in Held
    \* What the route does not look at is left out.
    /\ route = "logs" => token = NoCredential
    /\ route = "stream" => NoCredential \in {token, key}
    /\ \E v \in Readable :
         /\ \A w \in Readable : v <= w
         /\ request' = [request EXCEPT ![q] = Entered(
              [pc |-> "idle", chain |-> Chain(route, token), at |-> 1, token |-> token,
               key |-> key, list |-> {}, from |-> v])]
    /\ UNCHANGED <<versions, replicaAt, registration, expired>>

Answers(q, pc, rq) ==
    /\ request[q].pc = pc
    /\ request' = [request EXCEPT ![q] = rq]
    /\ UNCHANGED <<versions, replicaAt, registration, expired>>

\* Mutant of FindOne: the test of isActive is inverted.
FindOneInactive(q) ==
    LET rq == request[q] IN
    \E v \in Readable :
      Answers(q, "findOne", IF versions[v][rq.token] = "inactive" THEN Passed(rq) ELSE Refused(rq))

\* authenticateJWT: the client must exist and be active.
FindOne(q) ==
    LET rq == request[q] IN
    \E v \in Readable :
      Answers(q, "findOne", IF versions[v][rq.token] = "active" THEN Passed(rq) ELSE Refused(rq))

\* Mutant of FindActive: inactive clients are fetched too.
FindAll(q) ==
    \E v \in Readable :
      Answers(q, "find", [request[q] EXCEPT !.pc = "compare",
        !.list = {r \in Registrations : versions[v][r] # "none"}])

\* authenticateAPIKey: the active clients are fetched.
FindActive(q) ==
    \E v \in Readable :
      Answers(q, "find", [request[q] EXCEPT !.pc = "compare",
        !.list = {r \in Registrations : versions[v][r] = "active"}])

\* Their hashes are compared with the key, one awaited comparison after the other;
\* the clients are those of the list, whatever has become of them.
Compare(q) ==
    LET rq == request[q] IN
    Answers(q, "compare", IF rq.key \in rq.list THEN Passed(rq) ELSE Refused(rq))

\* The query is rejected: 500, but 401 from authenticateJWT, a stream or a socket.
QueryFails(q) ==
    \E pc \in {"findOne", "find"} : Answers(q, pc, [request[q] EXCEPT !.pc = "failed"])

\* JWT_EXPIRES_IN is over.
TokenExpires(r) ==
    /\ registration[r] = "created"
    /\ expired' = expired \cup {r}
    /\ UNCHANGED <<versions, replicaAt, registration, request>>

-----------------------------------------------------------------------------
Registering(r) == FindByEmail(r) \/ Save(r) \/ Created(r) \/ RegisterFails(r)
Authenticating(q) == FindOne(q) \/ FindActive(q) \/ Compare(q) \/ QueryFails(q)

Next ==
    \/ \E p \in Replicas : Replicate(p)
    \/ \E r \in Registrations :
         \/ StartRegister(r) \/ Registering(r) \/ TokenExpires(r)
         \/ \E status \in {"none", "active", "inactive"} : SetStatus(r, status)
    \/ \E q \in Requests :
         \/ \E route \in Routes, token, key \in Credentials : Arrive(q, route, token, key)
         \/ Authenticating(q)

Spec == Init /\ [][Next]_vars

\* Queries, hashes and comparisons settle, and a replica catches up.
Fairness ==
    /\ \A p \in Replicas : WF_vars(Replicate(p))
    /\ \A r \in Registrations : WF_vars(Registering(r))
    /\ \A q \in Requests : WF_vars(Authenticating(q))

FairSpec == Spec /\ Fairness

-----------------------------------------------------------------------------
(* Properties. *)

\* register keeps the promise of Registry: the find before the create races with
\* other registrations and reads an old version, the unique constraint decides.
Answer(r) ==
    IF registration[r] \in {"created", "conflict", "failed"} THEN registration[r] ELSE "none"

Rows == {r \in Registrations : Latest[r] # "none"}
Claimed == {r \in Registrations : \E v \in 1 .. Len(versions) : versions[v][r] # "none"}
AnswerOf == [r \in Registrations |-> Answer(r)]

Promise == INSTANCE Registry WITH rows <- Rows, claimed <- Claimed, answer <- AnswerOf

ImplementsRegistry == Promise!RegistrySpec

\* What a request shows to its middlewares.
Shown(rq, n) == IF rq.chain[n] = "jwt" THEN rq.token ELSE rq.key
Presented(rq) == {Shown(rq, n) : n \in DOMAIN rq.chain}

Ends(q, pc) == request'[q].pc = pc /\ request'[q] # request[q]

\* Since the oldest version that the request could see, the client was active once.
WasActive(c, rq) == \E v \in rq.from .. Len(versions) : versions[v][c] = "active"
WasNotActive(c, rq) == \E v \in rq.from .. Len(versions) : versions[v][c] # "active"

HasCause(rq) ==
    \/ rq.chain[1] = "jwt" /\ rq.token \in expired
    \/ \E c \in Presented(rq) : c \in {NoCredential, Forged} \/ WasNotActive(c, rq)

\* A served request is one of active clients: whatever each middleware read, and
\* however long the comparisons took, each client whose token or key it shows was
\* active in a version of the table that was no older than the oldest replica when
\* the request came.
ServedWasActive ==
    [][\A q \in Requests : Ends(q, "served") =>
         \A c \in Presented(request'[q]) : WasActive(c, request'[q])]_vars

\* A request that no failing query answers is refused for a reason: its token has
\* expired, a key or token is missing or nobody's, or its client was not active in a
\* version some replica still had, such as before its registration.
RefusedForCause ==
    [][\A q \in Requests : Ends(q, "refused") => HasCause(request'[q])]_vars

\* Revocation takes effect: a client that stays deactivated or deleted is not served
\* for ever, though the lists of active clients that requests compare with, and the
\* replicas, are out of date.  It bars new requests: a stream or a socket that is open
\* by then was authenticated once and is never asked again.
RevocationTakesEffect ==
    \A c \in Registrations :
      <>[](Latest[c] # "active") =>
        <>[][\A q \in Requests : Ends(q, "served") => c \notin Presented(request'[q])]_vars
=============================================================================
