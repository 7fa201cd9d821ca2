--------------------------- MODULE MCRateLimiter ---------------------------
(* RateLimiter on small instances: one client whose own limit is below the *)
(* global one, with every kind of call.                                    *)
EXTENDS RateLimiter, TLC

CONSTANTS c1, check1, check2, check3, endpoint1, usage1, reset1

MCClients == {c1}
MCTwoChecks == {check1, check2}
MCThreeChecks == MCTwoChecks \cup {check3}
MCRequests == MCTwoChecks \cup {endpoint1, usage1, reset1}
MCClientOf == [r \in Requests |-> c1]
MCKind == [r \in Requests |-> CASE r \in MCThreeChecks -> "check" [] r = endpoint1 -> "endpoint"
                                [] r = usage1 -> "usage" [] r = reset1 -> "reset"]
MCClientLimit == [c \in MCClients |-> 1]
MCNoClientLimit == [c \in MCClients |-> 0]

\* What the steps to come depend on, and the invariants but for TypeOK: not the reply
\* of a request, nor how it ended when it is not one that counts, nor the connection
\* when every call has been made, nor the time to live of a set that is empty or that
\* outlives the clock.
MCView ==
    <<clock, pipe, zset, store, lostReplies,
      connected /\ \E r \in Requests : request[r].phase = "new",
      [k \in Keys |-> IF zset[k] = {} THEN 0 ELSE Min({expiresAt[k], MaxClock + 1})],
      [r \in Requests |->
         CASE request[r].phase = "new" -> <<"new">>
           [] request[r].phase = "sent" -> <<"sent", request[r].stamp>>
           [] request[r].phase = "admitted" ->
                <<"admitted", request[r].via, request[r].stamp, request[r].late>>
           [] OTHER -> <<"ended">>]>>

MCSymmetry == Permutations(MCTwoChecks)
=============================================================================
