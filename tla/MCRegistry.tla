----------------------------- MODULE MCRegistry -----------------------------
(* An instance of Registry: two applications, each with a bucket of its    *)
(* own, which may get the same coordinator or one each.                    *)
EXTENDS Registry, TLC

CONSTANTS a1, a2, b1, b2

TwoOwners == b1 :> a1 @@ b2 :> a2
=============================================================================
