----------------------------- MODULE MCRealtime -----------------------------
(* Realtime on a small instance: hits come to one process, the socket to another. *)
EXTENDS Realtime

CONSTANTS node1, node2, hit1, hit2, client1, client2, socket1

MCHitOf ==
    [h \in {hit1, hit2} |->
      [node |-> node1, client |-> IF h = hit1 THEN client1 ELSE client2]]

MCSocketOf == [s \in {socket1} |-> [node |-> node2, client |-> client1]]
=============================================================================
