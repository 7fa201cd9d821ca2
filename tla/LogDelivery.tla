---------------------------- MODULE LogDelivery ----------------------------
(***************************************************************************)
(* What the batch writer promises for each hit, without its queue, flushes *)
(* or memory: a hit it accepted is pending until it is either stored or    *)
(* discarded, for good; and a row is written for a pending hit only, a     *)
(* second time only when nobody told the writer of the first.              *)
(***************************************************************************)
EXTENDS Naturals

CONSTANT Logs

VARIABLES
    status,   \* new, pending, stored or discarded
    written,  \* rows the database holds for the log
    unacked   \* how many of them were reported as errors

dvars == <<status, written, unacked>>

Pending == {l \in Logs : status[l] = "pending"}

DeliveryInit ==
    /\ status = [l \in Logs |-> "new"]
    /\ written = [l \in Logs |-> 0]
    /\ unacked = [l \in Logs |-> 0]

Accept(l) ==
    /\ status[l] = "new"
    /\ status' = [status EXCEPT ![l] = "pending"]
    /\ UNCHANGED <<written, unacked>>

\* The logs of S get a row.
Write(S) == written' = [l \in Logs |-> IF l \in S THEN written[l] + 1 ELSE written[l]]

\* The logs of S, which get a row, are stored; those of D are given up in the same step.
Deliver(S, D) ==
    /\ UNCHANGED unacked
    /\ S \cap D = {}
    /\ status' = [l \in Logs |-> IF l \in S THEN "stored"
                                 ELSE IF l \in D THEN "discarded" ELSE status[l]]

\* The writer does not know of the rows of S; the logs of D are given up.
LoseAck(S, D) ==
    /\ unacked' = [l \in Logs |-> IF l \in S THEN unacked[l] + 1 ELSE unacked[l]]
    /\ status' = [l \in Logs |-> IF l \in D THEN "discarded" ELSE status[l]]

DeliveryNext ==
    \/ \E l \in Logs : Accept(l)
    \/ \E S \in SUBSET Pending :
         /\ Write(S)
         /\ \E D \in SUBSET Pending : Deliver(S, D) \/ LoseAck(S, D)

DeliverySpec == DeliveryInit /\ [][DeliveryNext]_dvars
=============================================================================
