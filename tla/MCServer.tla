------------------------------ MODULE MCServer ------------------------------
(* Server on small instances. *)
EXTENDS Server

CONSTANTS request1, stream1, socket1, sigint, sigterm

MCDeployments ==
    {[clients |-> {"write"}, sentinel |-> FALSE],
     [clients |-> {"write", "read"}, sentinel |-> FALSE],
     [clients |-> {"write", "read"}, sentinel |-> TRUE]}
=============================================================================
