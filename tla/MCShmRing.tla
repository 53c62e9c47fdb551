----------------------------- MODULE MCShmRing -----------------------------
(***************************************************************************)
(* Instances of ShmRing for TLC.  The ring has three elements, so that the *)
(* fourth item reuses the place of the first, and its counters start just  *)
(* below their limit.                                                      *)
(***************************************************************************)
EXTENDS ShmRing, TLC

CONSTANTS p1, p2, c1, c2

Quotas(m, n) == (p1 :> m) @@ (p2 :> n)

Setup(pol, m, n, r, l) == [policy |-> pol, quota |-> Quotas(m, n), readers |-> r, leaves |-> l]

MCSetups ==
    { Setup("mm", 2, 2, {c1}, 0), Setup("mm", 1, 1, {c1, c2}, 0), Setup("mm", 4, 0, {c1, c2}, 0),
      Setup("sm", 3, 1, {c1, c2}, 0), Setup("ss", 2, 2, {c1, c2}, 1) }
=============================================================================
