----------------------------- MODULE Placement ------------------------------
(***************************************************************************)
(* Where the coordinator sends the requests of a call: func_call_handler   *)
(* (one request, a batch, or the Demeter scheduler) and the choice that    *)
(* notify_handler makes for the call of a trigger.                         *)
(*                                                                         *)
(* avail is node_status_map: the nodes that have reported, with the number *)
(* of idle executors believed of each.  The map is unordered, so among     *)
(* equals and in a batch any order of the nodes is possible.  A placement  *)
(* has the requests for each node (parts), the counts the handler leaves   *)
(* (avail), and whether the messages still carry the call's session.       *)
(***************************************************************************)
EXTENDS Integers, Sequences, FiniteSets, SequencesExt, TLC

\* The nodes a handler skips nothing of but the sender and those without an
\* idle executor.
Believed(avail, source) == {n \in DOMAIN avail : n # source /\ avail[n] > 0}

\* What a scan for the largest count in S may end with.
MostIdle(avail, S) == {n \in S : \A m \in S : avail[m] <= avail[n]}

Unplaced(avail) == [parts |-> <<>>, avail |-> avail, session |-> TRUE]
WholeTo(n, reqs, avail) == [parts |-> n :> reqs, avail |-> avail, session |-> TRUE]

-----------------------------------------------------------------------------
(* A batch that no single node can take                                    *)

\* node_loads: the requests are dealt one by one, nodes that are used up are
\* passed over.
RoundRobin(order, avail, k) ==
  LET size == Len(order)
      deal[i \in 0..k] ==
        IF i = 0 THEN [loads |-> [j \in 1..size |-> 0],
                       left  |-> [j \in 1..size |-> avail[order[j]]], idx |-> 0]
        ELSE LET s    == deal[i - 1]
                 skip == CHOOSE d \in 0..size - 1 :
                           /\ s.left[((s.idx + d) % size) + 1] > 0
                           /\ \A e \in 0..d - 1 : s.left[((s.idx + e) % size) + 1] <= 0
                 j    == ((s.idx + skip) % size) + 1
             IN [loads |-> [s.loads EXCEPT ![j] = @ + 1],
                 left  |-> [s.left EXCEPT ![j] = @ - 1], idx |-> j % size]
  IN deal[k].loads

\* The requests are cut in order into parts of these sizes; what is left over
\* after the last full part would be sent to nobody.
CutBatch(order, loads, reqs) ==
  LET add(acc, r) ==
        LET cur == Append(acc.cur, r)
        IN IF Len(cur) = loads[acc.at]
           THEN [parts |-> order[acc.at] :> cur @@ acc.parts, at |-> acc.at + 1, cur |-> <<>>]
           ELSE [acc EXCEPT !.cur = cur]
  IN FoldLeft(add, [parts |-> <<>>, at |-> 1, cur |-> <<>>], reqs).parts

TotalIdle(avail, S) == FoldLeft(LAMBDA sum, n : sum + avail[n], 0, SetToSeq(S))

\* A batch goes to one node that can take it, or is split, or goes nowhere.
\* The messages of a split batch are new ones, without the session.
PlaceBatch(avail, source, reqs) ==
  LET idle == Believed(avail, source)
      wide == {n \in MostIdle(avail, idle) : avail[n] >= Len(reqs)}
  IN IF wide # {} THEN {WholeTo(n, reqs, avail) : n \in wide}
     ELSE IF TotalIdle(avail, idle) >= Len(reqs)
     THEN {[parts |-> CutBatch(order, RoundRobin(order, avail, Len(reqs)), reqs),
            avail |-> avail, session |-> FALSE] : order \in SetToSeqs(idle)}
     ELSE {Unplaced(avail)}

-----------------------------------------------------------------------------
(* One request                                                             *)

\* The node with the most idle executors, else any node, the sender included.
PlaceSingle(avail, source, reqs) ==
  LET idle == Believed(avail, source)
  IN IF idle # {} THEN {WholeTo(n, reqs, avail) : n \in MostIdle(avail, idle)}
     ELSE IF DOMAIN avail # {} THEN {WholeTo(n, reqs, avail) : n \in DOMAIN avail}
     ELSE {Unplaced(avail)}

-----------------------------------------------------------------------------
(* The Demeter scheduler                                                   *)

\* The counts once the first i - 1 requests are placed by f.
CountsBefore(avail, f, i) ==
  [n \in DOMAIN avail |->
     LET taken == Cardinality({j \in 1..i - 1 : f[j] = n})
     IN IF avail[n] > taken THEN avail[n] - taken ELSE 0]

\* The requests f sends to n, in order.
PartOf(reqs, f, n) ==
  LET mine == SelectSeq([i \in DOMAIN reqs |-> i], LAMBDA i : f[i] = n)
  IN [j \in DOMAIN mine |-> reqs[mine[j]]]

\* Mutant of PlaceDemeter: the counts are not decremented between requests.
PlaceDemeterStale(avail, source, reqs) ==
  {[parts |-> n :> reqs, avail |-> avail, session |-> TRUE] :
     n \in IF Believed(avail, source) # {} THEN Believed(avail, source) ELSE DOMAIN avail}

\* Mutant of PlaceDemeter: the new messages do not get the session.
PlaceDemeterBare(avail, source, reqs) ==
  {[parts   |-> [n \in Range(f) |-> PartOf(reqs, f, n)],
    avail   |-> CountsBefore(avail, f, Len(reqs) + 1),
    session |-> FALSE] : f \in [DOMAIN reqs -> DOMAIN avail]}

\* The nodes that may have the best node_affinity for request i: the score
\* weighs load, warm functions and locality by configuration, so any node with
\* an idle executor may; with none, any node, the sender included.
BestNodes(avail, source, f, i) ==
  LET idle == Believed(CountsBefore(avail, f, i), source)
  IN IF idle # {} THEN idle ELSE DOMAIN avail

\* Request by request, the best node.
PlaceDemeter(avail, source, reqs) ==
  LET plans == {f \in [DOMAIN reqs -> DOMAIN avail] :
                  \A i \in DOMAIN reqs : f[i] \in BestNodes(avail, source, f, i)}
  IN IF DOMAIN avail = {} THEN {Unplaced(avail)}
     ELSE {[parts   |-> [n \in Range(f) |-> PartOf(reqs, f, n)],
            avail   |-> CountsBefore(avail, f, Len(reqs) + 1),
            session |-> TRUE] : f \in plans}

-----------------------------------------------------------------------------
\* func_call_handler: what Demeter does not place is placed by number.
PlaceCall(avail, source, reqs, demeter) ==
  LET byNumber == IF Len(reqs) > 1 THEN PlaceBatch(avail, source, reqs)
                  ELSE PlaceSingle(avail, source, reqs)
  IN IF demeter /\ DOMAIN avail # {} THEN PlaceDemeter(avail, source, reqs) ELSE byNumber

\* notify_handler: a node that has data and an idle executor, else any with an
\* idle executor, else none; its count goes down.  Looking up the nodes with
\* data enters those that have not reported.
PlaceTriggered(avail, data, reqs) ==
  LET seen == avail @@ [n \in data |-> 0]
      near == {n \in data : seen[n] > 0}
      idle == {n \in DOMAIN seen : seen[n] > 0}
  IN IF idle = {} THEN {Unplaced(seen)}
     ELSE {WholeTo(n, reqs, [seen EXCEPT ![n] = @ - 1]) :
             n \in MostIdle(seen, IF near # {} THEN near ELSE idle)}
=============================================================================
