---------------------------- MODULE MCDataFetch -----------------------------
(* An instance of DataFetch: a join of two objects of one session, a call  *)
(* that shares one of them, and an object of a second session under the    *)
(* same key.                                                               *)
EXTENDS DataFetch, TLC

CONSTANTS c1, c2, c3, g1, o1, o2, o3

JoinArgs == (c1 :> {o1, o2}) @@ (c2 :> {o1}) @@ (c3 :> {o2})
KeyNames == (o1 :> "a") @@ (o2 :> "b") @@ (o3 :> "a")
ByName   == ("n1" :> 1) @@ ("n2" :> 2)
MadeOn   == (o1 :> {"n1", "n2"}) @@ (o2 :> {"n2"}) @@ (o3 :> {"n1"})
GetFirst == (g1 :> o1)
OnSecond == (g1 :> "n2")
=============================================================================
