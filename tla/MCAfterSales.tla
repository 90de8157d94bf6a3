---------------------------- MODULE MCAfterSales ----------------------------
(* AfterSales with one order, one shipment of two packages and one          *)
(* request about the order.                                                 *)
EXTENDS AfterSales, TLC

CONSTANTS o1, s1, p1, p2, r1

MCOrderOf == s1 :> o1
MCShipmentOf == p1 :> s1 @@ p2 :> s1
MCAbout == r1 :> o1
PackageSymmetry == Permutations({p1, p2})
=============================================================================
