--------------------------- MODULE MCDemandClaim ----------------------------
(* DemandClaim with two calls at a time and three bidders.                   *)
EXTENDS DemandClaim

CONSTANTS b1, b2, b3, c1, c2
=============================================================================
