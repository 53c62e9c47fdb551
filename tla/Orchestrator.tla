---------------------------- MODULE Orchestrator ----------------------------
(***************************************************************************)
(* The Demeter controller and the simulator that drives it: jobs expanded  *)
(* into functions, released when the functions before them have finished,  *)
(* observed in waves and placed on data centers.                           *)
(*                                                                         *)
(* A function is <<job, stage, index>>; all jobs have the same stages.     *)
(* Which data center and allocation a policy prefers, and how long a       *)
(* function takes, are free choices.                                       *)
(*                                                                         *)
(*   mode     how the process was started                                  *)
(*   jobs     registered jobs                                              *)
(*   status, arrival, start, finish, placement   fields of FunctionSpec    *)
(*   running, avail   running_functions and available_executors            *)
(*   now      the time of the observation                                  *)
(***************************************************************************)
EXTENDS Integers, FiniteSets

CONSTANTS
  Jobs, Stages,
  Parallelism,       \* functions of a stage
  Edges,             \* between stages
  Pairwise,          \* stages whose trigger is direct or one_to_one
  ArrivalTime,       \* of a job
  Position,          \* where a function comes in the dictionaries
  DataCenters,
  CandidateDcs,      \* of a stage; none means all
  Executors,         \* of a data center, as configured
  Valid,             \* stages for which some allocation has the memory
  Fallback,          \* the policy takes the largest allocation if none has
  Interval,
  Work,              \* how long a function may take, without its waiting time
  MaxDuration,       \* 1.5 times timeout_seconds
  Modes,             \* cluster mode or the simulator, with max_wave_size
  Nowhere            \* the placement of a function without one

Functions == UNION {{j} \X {s} \X (1 .. Parallelism[s]) : j \in Jobs, s \in Stages}

ASSUME OrchestratorAssumption ==
  /\ Parallelism \in [Stages -> Nat]
  /\ Edges \subseteq Stages \X Stages
  /\ ArrivalTime \in [Jobs -> Nat]
  /\ Position \in [Functions -> Nat]
  /\ IsFiniteSet(Functions)
  /\ CandidateDcs \in [Stages -> SUBSET DataCenters]
  /\ Executors \in [DataCenters -> Nat]
  /\ Fallback \in BOOLEAN
  /\ Modes \subseteq [cluster : BOOLEAN, wave : Nat]
  /\ Interval \in Nat /\ MaxDuration \in Nat
  /\ Work \subseteq Nat
  /\ Nowhere \notin DataCenters

VARIABLES mode, jobs, status, arrival, start, finish, placement, running, avail, now

vars == <<mode, jobs, status, arrival, start, finish, placement, running, avail, now>>

-----------------------------------------------------------------------------
(* The execution graph                                                     *)

\* Linked one to one where the trigger asks for it and the stages are equally
\* wide, else all to all.
Predecessors(f) ==
  {p \in Functions :
     /\ p[1] = f[1]
     /\ <<p[2], f[2]>> \in Edges
     /\ (f[2] \in Pairwise /\ Parallelism[p[2]] = Parallelism[f[2]]) => p[3] = f[3]}

IsSourceStage(s) == \A e \in Edges : e[2] # s

\* topological_batches: the functions of the first n batches.
Batches[n \in Nat] ==
  IF n = 0 THEN {}
  ELSE LET earlier == Batches[n - 1]
       IN  earlier \cup {f \in Functions : Predecessors(f) \subseteq earlier}

\* Mutant of Ready: one finished predecessor is enough.
ReadyEarly(st) ==
  {f \in Functions : /\ f[1] \in jobs /\ st[f] = "waiting"
                     /\ Predecessors(f) # {} => \E p \in Predecessors(f) : st[p] = "finished"}

\* What release_ready_functions releases.
Ready(st) ==
  {f \in Functions : f[1] \in jobs /\ st[f] = "waiting" /\ \A p \in Predecessors(f) : st[p] = "finished"}

-----------------------------------------------------------------------------
\* build_job, and the first observation of a simulation.
Built(f) == IF IsSourceStage(f[2]) THEN "pending" ELSE "waiting"

\* A simulation registers all jobs at once, in reset; the cluster one by one.
Init ==
  /\ mode \in Modes
  /\ jobs = IF mode.cluster THEN {} ELSE Jobs
  /\ status = [f \in Functions |-> IF ~mode.cluster /\ Predecessors(f) = {} THEN "pending" ELSE Built(f)]
  /\ arrival = [f \in Functions |-> IF IsSourceStage(f[2]) THEN ArrivalTime[f[1]] ELSE 0]
  /\ start = [f \in Functions |-> 0]
  /\ finish = [f \in Functions |-> 0]
  /\ placement = [f \in Functions |-> Nowhere]
  /\ running = [d \in DataCenters |-> 0]
  /\ avail = Executors
  /\ now = 0

-----------------------------------------------------------------------------
(* Observing and planning                                                  *)

Candidates(f) == IF CandidateDcs[f[2]] = {} THEN DataCenters ELSE CandidateDcs[f[2]]

Pending(st, d) == {f \in Functions : f[1] \in jobs /\ st[f] = "pending" /\ d \in Candidates(f)}

\* Mutant of Wave: all but the first max_wave_size.
WaveRest(st, d) ==
  {f \in Pending(st, d) :
     Cardinality({g \in Pending(st, d) : Position[g] < Position[f]}) >= mode.wave}

\* pending_by_dc: the first max_wave_size of them.
Wave(st, d) ==
  {f \in Pending(st, d) :
     Cardinality({g \in Pending(st, d) : Position[g] < Position[f]}) < mode.wave}

\* The functions of the observation that the policy finds an allocation for.
Planned(st) ==
  {f \in UNION {Wave(st, d) : d \in DataCenters} : Fallback \/ f[2] \in Valid}

\* Where they may be placed.
Plans(st) == {to \in [Planned(st) -> DataCenters] : \A f \in Planned(st) : to[f] \in Candidates(f)}

\* A count after k functions have each taken one, never below zero.
Less(n, k) == IF n > k THEN n - k ELSE 0

Placed(to, d) == {f \in DOMAIN to : to[f] = d}

-----------------------------------------------------------------------------
(* The cluster                                                             *)

register_job(j) ==
  /\ mode.cluster
  /\ j \notin jobs
  /\ jobs' = jobs \cup {j}
  /\ UNCHANGED <<mode, status, arrival, start, finish, placement, running, avail, now>>

\* observe, plan and apply_actions.
run_once ==
  /\ mode.cluster
  /\ LET seen == [f \in Functions |-> IF f \in Ready(status) THEN "pending" ELSE status[f]] IN
     \E to \in Plans(seen) :
       /\ status' = [f \in Functions |-> IF f \in DOMAIN to THEN "running" ELSE seen[f]]
       /\ arrival' = [f \in Functions |-> IF f \in Ready(status) THEN now ELSE arrival[f]]
       /\ start' = [f \in Functions |-> IF f \in DOMAIN to THEN now ELSE start[f]]
       /\ placement' = [f \in Functions |-> IF f \in DOMAIN to THEN to[f] ELSE placement[f]]
       /\ running' = [d \in DataCenters |-> running[d] + Cardinality(Placed(to, d))]
       /\ avail' = [d \in DataCenters |-> Less(avail[d], Cardinality(Placed(to, d)))]
  /\ now' = now + Interval
  /\ UNCHANGED <<mode, jobs, finish>>

-----------------------------------------------------------------------------
(* The simulator                                                           *)

done == \A j \in jobs : /\ \E f \in Functions : f[1] = j
                        /\ \A f \in Functions : f[1] = j => status[f] = "finished"

\* The duration of f, which counts the time since its release.
Durations(f) ==
  LET waiting == IF now > arrival[f] THEN now - arrival[f] ELSE 0
  IN  {IF waiting + w < MaxDuration THEN waiting + w ELSE MaxDuration : w \in Work}

\* Mutant of step: the clock moves by the interval only.
step_short ==
  /\ ~mode.cluster
  /\ ~done
  /\ \E to \in Plans(status) : \E dur \in [DOMAIN to -> UNION {Durations(f) : f \in DOMAIN to}] :
       LET ran == [f \in Functions |-> IF f \in DOMAIN to THEN "finished" ELSE status[f]] IN
       /\ now' = now + Interval
       /\ status' = [f \in Functions |-> IF f \in Ready(ran) THEN "pending" ELSE ran[f]]
       /\ start' = [f \in Functions |-> IF f \in DOMAIN to THEN now ELSE start[f]]
       /\ finish' = [f \in Functions |-> IF f \in DOMAIN to THEN now + dur[f] ELSE finish[f]]
  /\ UNCHANGED <<mode, jobs, arrival, placement, running, avail>>

\* policy.plan, step and its observation.
step ==
  /\ ~mode.cluster
  /\ ~done
  /\ \E to \in Plans(status) : \E dur \in [DOMAIN to -> UNION {Durations(f) : f \in DOMAIN to}] :
     \E max_finish \in {now} \cup {now + dur[f] : f \in DOMAIN to} :
       LET ran == [f \in Functions |-> IF f \in DOMAIN to THEN "finished" ELSE status[f]] IN
       /\ \A f \in DOMAIN to : dur[f] \in Durations(f) /\ now + dur[f] <= max_finish
       /\ now' = max_finish + Interval
       /\ status' = [f \in Functions |-> IF f \in Ready(ran) THEN "pending" ELSE ran[f]]
       /\ arrival' = [f \in Functions |-> IF f \in Ready(ran) THEN max_finish + Interval ELSE arrival[f]]
       /\ start' = [f \in Functions |-> IF f \in DOMAIN to THEN now ELSE start[f]]
       /\ finish' = [f \in Functions |-> IF f \in DOMAIN to THEN now + dur[f] ELSE finish[f]]
       /\ placement' = [f \in Functions |-> IF f \in DOMAIN to THEN to[f] ELSE placement[f]]
       /\ running' = [d \in DataCenters |-> Less(running[d], Cardinality(Placed(to, d)))]
       /\ avail' = [d \in DataCenters |-> avail[d] + Cardinality(Placed(to, d))]
  /\ UNCHANGED <<mode, jobs>>

\* The next episode.
reset ==
  /\ ~mode.cluster
  /\ done
  /\ status' = [f \in Functions |-> IF Predecessors(f) = {} THEN "pending" ELSE Built(f)]
  /\ arrival' = [f \in Functions |-> IF IsSourceStage(f[2]) THEN ArrivalTime[f[1]] ELSE 0]
  /\ start' = [f \in Functions |-> 0]
  /\ finish' = [f \in Functions |-> 0]
  /\ placement' = [f \in Functions |-> Nowhere]
  /\ running' = [d \in DataCenters |-> 0]
  /\ avail' = Executors
  /\ now' = 0
  /\ UNCHANGED <<mode, jobs>>

Next == (\E j \in Jobs : register_job(j)) \/ run_once \/ step \/ reset

Spec == Init /\ [][Next]_vars

\* Both loops run on: cmd_simulate's while, and the calls of decide_once.
FairSpec == Spec /\ WF_vars(run_once) /\ WF_vars(step)

-----------------------------------------------------------------------------
(* Properties                                                              *)

\* Every variable stays in its range.
TypeOK ==
  /\ mode \in Modes
  /\ jobs \subseteq Jobs
  /\ status \in [Functions -> {"waiting", "pending", "running", "finished"}]
  /\ arrival \in [Functions -> Nat]
  /\ start \in [Functions -> Nat]
  /\ finish \in [Functions -> Nat]
  /\ placement \in [Functions -> DataCenters \cup {Nowhere}]
  /\ running \in [DataCenters -> Nat]
  /\ avail \in [DataCenters -> Nat]
  /\ now \in Nat

\* A function is offered to the policy, and runs, only when every function it
\* takes input from has finished: whatever the waves leave over, in every mode.
Precedence ==
  \A f \in Functions : status[f] # "waiting" => \A p \in Predecessors(f) : status[p] = "finished"

\* In simulated time no function starts before the functions before it end,
\* although a step finishes its functions at different times.
CausalOrder ==
  \A f \in Functions : status[f] = "finished" => \A p \in Predecessors(f) : finish[p] <= start[f]

\* Functions follow the functions they take input from, in both senses.
FollowsInputs == Precedence /\ CausalOrder

\* Without a wave limit the steps of an episode are the batches that
\* topological_batches computes from the graph alone: of two functions the one
\* in the earlier batch starts earlier, and those of a batch start together.
StepsAreBatches ==
  LET first == [n \in 1 .. Cardinality(Stages) |-> Batches[n]]
      finished == {f \in Functions : status[f] = "finished"}
  IN  mode.wave >= Cardinality(Functions) =>
        \A f, g \in finished :
          start[f] < start[g] <=> \E n \in DOMAIN first : f \in first[n] /\ g \notin first[n]

\* Every simulation ends: waves that leave functions over delay them only.
EpisodeEnds == ~mode.cluster => <>done
=============================================================================
