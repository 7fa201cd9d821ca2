---------------------------- MODULE MCUsageCache ----------------------------
(* UsageCache on small instances: one report of each kind, both of the last 24 hours, *)
(* two clients of which the top report lists one, and a top report that may hang. *)
EXTENDS UsageCache, TLC

CONSTANTS c1, c2, r1

MCCreatedAt == c1 :> 1 @@ c2 :> 2
MCDailyKeys == <<"daily1">>
MCTopKeys == <<"top24x1">>
MCWindows == {"day"}
MCWindowOf == [k \in {"daily1", "top24x1"} |-> "day"]
MCTopLimit == [k \in {"top24x1"} |-> 1]
=============================================================================
