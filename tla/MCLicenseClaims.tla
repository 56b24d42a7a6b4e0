-------------------------- MODULE MCLicenseClaims --------------------------
(* Instances of LicenseClaims for TLC: two or three ControlPlanes whose     *)
(* namespace/name pairs sort in the order of their names here.              *)
EXTENDS LicenseClaims, TLC

CONSTANTS c1, c2, c3

TwoIdents   == c1 :> 1 @@ c2 :> 2
ThreeIdents == c1 :> 1 @@ c2 :> 2 @@ c3 :> 3
=============================================================================
