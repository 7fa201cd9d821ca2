---------------------------- MODULE MCHitTracker ----------------------------
(* HitTracker on a small instance. *)
EXTENDS HitTracker

CONSTANTS k1, k2, a1, a2
=============================================================================
