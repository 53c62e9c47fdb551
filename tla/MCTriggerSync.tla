--------------------------- MODULE MCTriggerSync ----------------------------
(* Instances of TriggerSync: the applications to consider.                 *)
EXTENDS TriggerSync

\* Two control keys and two data groups.
Grouped == [k \in {"c1", "c2", "g1", "g2", "h1"} |->
              CASE k \in {"c1", "c2"} -> "ctrl" [] k \in {"g1", "g2"} -> "g" [] OTHER -> "h"]

App(k, W, objs) == [kind |-> k, makers |-> W, objects |-> objs]

\* BY_SET and BY_TIME with two sessions on two workers, the others with five
\* objects on one.
SetAndLocal ==
  {App(k, {"w1", "w2"}, Objs("s1", KeySet) \cup Objs("s2", KeySet)) : k \in {"BY_SET", "BY_TIME"}}
    \cup {App(k, {"w1"}, Objs("s1", Keys)) : k \in Kinds \ {"BY_TIME"}}
=============================================================================
