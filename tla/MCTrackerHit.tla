---------------------------- MODULE MCTrackerHit ----------------------------
(* Two visitors with the same browser at two addresses, of whom one reader *)
(* may be signed in at either; two hits.                                   *)
EXTENDS TrackerHit, TLC

CONSTANTS r1, r2, c1, c2, u1, ua, ip1, ip2

MCAgent == c1 :> ua @@ c2 :> ua
MCAddress == c1 :> ip1 @@ c2 :> ip2
=============================================================================
