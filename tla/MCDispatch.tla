----------------------------- MODULE MCDispatch -----------------------------
(***************************************************************************)
(* Small instances of Dispatch.                                            *)
(***************************************************************************)
EXTENDS Dispatch, TLC

CONSTANTS c1, c2, c3, f, g

\* Two independent calls of different functions.
PairFuncOf   == c1 :> f @@ c2 :> g
PairChildren == c1 :> {} @@ c2 :> {}

\* c1 invokes c2 and c3 directly.
FanFuncOf   == c1 :> f @@ c2 :> g @@ c3 :> g
FanChildren == c1 :> {c2, c3} @@ c2 :> {} @@ c3 :> {}

=============================================================================
