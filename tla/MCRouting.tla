----------------------------- MODULE MCRouting ------------------------------
(***************************************************************************)
(* Small instances of Routing.                                             *)
(***************************************************************************)
EXTENDS Routing

CONSTANTS n1, n2, p1, p2, c1, c2, c3, c4

\* A client that makes a batch and single calls, one after the other, and one
\* that makes a chained call and sends it again.
TwoClient == c1 :> p1 @@ c2 :> p2 @@ c3 :> p1 @@ c4 :> p1
MixSize   == c1 :> 2 @@ c2 :> 1 @@ c3 :> 1 @@ c4 :> 1

OnceMore  == [c \in Calls |-> IF c = c2 THEN 1 ELSE 0]

UnitCapacity == [n \in Nodes |-> 1]

\* With Demeter two clients at once; without it a client that waits, one that
\* sends its call again, and one that gives up a call and makes another.
Setting(demeter, timeouts, made) == [demeter |-> demeter, timeouts |-> timeouts, made |-> made]
AllSettings == {Setting(TRUE, {}, {c1, c2}), Setting(FALSE, {}, {c1, c3}),
                Setting(FALSE, {c2}, {c2}), Setting(FALSE, {c3}, {c3, c4})}
=============================================================================
