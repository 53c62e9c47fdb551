--------------------------- MODULE MCOrchestrator ---------------------------
(***************************************************************************)
(* An instance of Orchestrator: two jobs of a scan stage, a stage that     *)
(* reads it function by function and a stage that reads both as a whole.   *)
(***************************************************************************)
EXTENDS Orchestrator, TLC

CONSTANTS scan, map, join, j1, j2, d1, d2

ReadBoth == {<<scan, map>>, <<map, join>>, <<scan, join>>}
TwoTwoOne == scan :> 2 @@ map :> 2 @@ join :> 1
Later == j1 :> 0 @@ j2 :> 1

StageRank == scan :> 0 @@ map :> 1 @@ join :> 2
InOrder == [f \in Functions |-> (IF f[1] = j1 THEN 0 ELSE 100) + 10 * StageRank[f[2]] + f[3]]

\* Only scans may be placed in the second data center.
ScansAnywhere == scan :> {} @@ map :> {d1} @@ join :> {d1}
OneEach == [d \in DataCenters |-> 1]

\* A simulation without a limit on waves, one in waves of two, and a cluster.
AllModes == {[cluster |-> FALSE, wave |-> 10], [cluster |-> FALSE, wave |-> 2],
             [cluster |-> TRUE, wave |-> 1]}
=============================================================================
