------------------------------- MODULE Rerun --------------------------------
(***************************************************************************)
(* Re-execution of source functions whose object does not arrive in time.  *)
(*                                                                         *)
(* A trigger has hints that name its source functions and a timeout.  When *)
(* a scheduler starts one of them the trigger notes it for the session     *)
(* (notify_source_func) and a check is queued for after the timeout; the   *)
(* object's arrival removes the note; a check that is due starts again     *)
(* whatever is still noted for the session (action_for_rerun).  A call     *)
(* that finds no executor waits in delay_call_queue or goes to another     *)
(* node, whose own copy of the trigger then looks after it                 *)
(* (forward_or_reject = 0: calls are forwarded, not rejected).             *)
(*                                                                         *)
(*   invoked  source functions started for a session, <<function, session>>*)
(*   arrived  those whose object has come                                  *)
(*   noted    session_status_cache_ of a node's copy of the trigger        *)
(*   checks   rerun_check_queue: the items pushed for a call of this kind  *)
(*   running, delayed  calls on executors and in delay_call_queue          *)
(*   moving   calls on their way from one node to another                  *)
(*   losses, reruns  calls that ended without their object, checks that    *)
(*            started something again                                      *)
(***************************************************************************)
EXTENDS Integers, FiniteSets

CONSTANTS
  Nodes, Sources, Sessions,
  Executors,   \* executors of each node
  PerKey,      \* notes are kept for a source's key (BY_SET), else only for
               \* the session (IMMEDIATE, BY_NAME)
  Delays,      \* schedDelayTime > 0
  Slow,        \* a check may be due before the call has ended
  MaxLosses,   \* bound: calls that end without their object
  MaxReruns    \* bound: checks that start something again

ASSUME RerunAssumption ==
  /\ Executors \in Nat
  /\ PerKey \in BOOLEAN /\ Delays \in BOOLEAN /\ Slow \in BOOLEAN
  /\ MaxLosses \in Nat /\ MaxReruns \in Nat

VARIABLES invoked, arrived, noted, checks, running, delayed, moving, losses, reruns

vars == <<invoked, arrived, noted, checks, running, delayed, moving, losses, reruns>>

Call == Sources \X Sessions
None == [p \in Call |-> 0]

Init ==
  /\ invoked = {}
  /\ arrived = {}
  /\ noted = [n \in Nodes |-> {}]
  /\ checks = [n \in Nodes |-> None]
  /\ running = [n \in Nodes |-> None]
  /\ delayed = [n \in Nodes |-> None]
  /\ moving = None
  /\ losses = 0
  /\ reruns = 0

-----------------------------------------------------------------------------
\* counts with one more of each of P, or one less of p.
Plus(counts, P)  == [q \in Call |-> IF q \in P THEN counts[q] + 1 ELSE counts[q]]
Minus(counts, p) == [counts EXCEPT ![p] = @ - 1]

Busy(n) == Cardinality({c \in Call \X (1..Executors) : c[2] <= running[n][c[1]]})
Idle(n) == Executors - Busy(n)

\* notify_source_func for the calls of P, which are of one session.
Note(notes, P) ==
  IF PerKey THEN notes \cup P
  ELSE {q \in notes : \A p \in P : q[2] # p[2]} \cup P

\* action_for_new_object, as far as the notes go.
Forget(notes, p) ==
  IF PerKey THEN notes \ {p} ELSE {q \in notes : q[2] # p[2]}

\* Mutant of Schedule: a call that finds no executor is dropped.
ScheduleOrDrop(n, P, left, flow) ==
  \E G \in SUBSET P :
    /\ Cardinality(G) = IF Cardinality(P) < Idle(n) THEN Cardinality(P) ELSE Idle(n)
    /\ running' = [running EXCEPT ![n] = Plus(@, G)]
    /\ noted' = [noted EXCEPT ![n] = Note(@, G)]
    /\ checks' = [checks EXCEPT ![n] = Plus(left, G)]
    /\ delayed' = delayed
    /\ moving' = flow

\* Mutant of Schedule: no check is queued for a call that is started.
ScheduleUnchecked(n, P, left, flow) ==
  \E G \in SUBSET P :
    /\ Cardinality(G) = IF Cardinality(P) < Idle(n) THEN Cardinality(P) ELSE Idle(n)
    /\ running' = [running EXCEPT ![n] = Plus(@, G)]
    /\ noted' = [noted EXCEPT ![n] = Note(@, G)]
    /\ checks' = [checks EXCEPT ![n] = left]
    /\ delayed' = IF Delays THEN [delayed EXCEPT ![n] = Plus(@, P \ G)] ELSE delayed
    /\ moving' = IF Delays THEN flow ELSE Plus(flow, P \ G)

\* schedule_func_call for the calls of P on node n: as many as there are idle
\* executors are started, noted and given a check, the others wait or leave.
\* left and flow are the checks and the moving calls without what led here.
Schedule(n, P, left, flow) ==
  \E G \in SUBSET P :
    /\ Cardinality(G) = IF Cardinality(P) < Idle(n) THEN Cardinality(P) ELSE Idle(n)
    /\ running' = [running EXCEPT ![n] = Plus(@, G)]
    /\ noted' = [noted EXCEPT ![n] = Note(@, G)]
    /\ checks' = [checks EXCEPT ![n] = Plus(left, G)]
    /\ delayed' = IF Delays THEN [delayed EXCEPT ![n] = Plus(@, P \ G)] ELSE delayed
    /\ moving' = IF Delays THEN flow ELSE Plus(flow, P \ G)

\* A source function is called for a session.
Invoke(n, p) ==
  /\ p \notin invoked
  /\ invoked' = invoked \cup {p}
  /\ Schedule(n, {p}, checks[n], moving)
  /\ UNCHANGED <<arrived, losses, reruns>>

\* A forwarded call reaches a node.
Receive(n, p) ==
  /\ moving[p] > 0
  /\ Schedule(n, {p}, checks[n], Minus(moving, p))
  /\ UNCHANGED <<invoked, arrived, losses, reruns>>

\* The object of a call arrives, at the node where it ran.
Output(n, p) ==
  /\ running[n][p] > 0
  /\ running' = [running EXCEPT ![n] = Minus(@, p)]
  /\ noted' = [noted EXCEPT ![n] = Forget(@, p)]
  /\ arrived' = arrived \cup {p}
  /\ UNCHANGED <<invoked, checks, delayed, moving, losses, reruns>>

\* A call ends without its object.
Lose(n, p) ==
  /\ running[n][p] > 0
  /\ losses < MaxLosses
  /\ losses' = losses + 1
  /\ running' = [running EXCEPT ![n] = Minus(@, p)]
  /\ UNCHANGED <<invoked, arrived, noted, checks, delayed, moving, reruns>>

\* The head of delay_call_queue is started.
StartDelayed(n, p) ==
  /\ delayed[n][p] > 0
  /\ Idle(n) > 0
  /\ delayed' = [delayed EXCEPT ![n] = Minus(@, p)]
  /\ running' = [running EXCEPT ![n] = Plus(@, {p})]
  /\ noted' = [noted EXCEPT ![n] = Note(@, {p})]
  /\ checks' = [checks EXCEPT ![n] = Plus(@, {p})]
  /\ UNCHANGED <<invoked, arrived, moving, losses, reruns>>

\* It has waited too long and is forwarded.
ForwardDelayed(n, p) ==
  /\ delayed[n][p] > 0
  /\ Idle(n) <= 0
  /\ delayed' = [delayed EXCEPT ![n] = Minus(@, p)]
  /\ moving' = Plus(moving, {p})
  /\ UNCHANGED <<invoked, arrived, noted, checks, running, losses, reruns>>

\* action_for_rerun: what is still noted for the session of p.
Overdue(n, p) == {q \in noted[n] : q[2] = p[2]}

\* A check is due.
Check(n, p) ==
  /\ checks[n][p] > 0
  /\ Slow \/ running[n][p] = 0
  /\ Overdue(n, p) # {} => reruns < MaxReruns
  /\ reruns' = IF Overdue(n, p) = {} THEN reruns ELSE reruns + 1
  /\ Schedule(n, Overdue(n, p), Minus(checks[n], p), moving)
  /\ UNCHANGED <<invoked, arrived, losses>>

-----------------------------------------------------------------------------
Next ==
  \E n \in Nodes, p \in Call :
    \/ Invoke(n, p)
    \/ Receive(n, p)
    \/ Output(n, p)
    \/ Lose(n, p)
    \/ StartDelayed(n, p)
    \/ ForwardDelayed(n, p)
    \/ Check(n, p)

Spec == Init /\ [][Next]_vars

\* Calls end, and the schedulers' loops go on: what is due, delayed or forwarded
\* is handled.
Fairness ==
  /\ \A p \in Call : WF_vars(\E n \in Nodes : Receive(n, p))
  /\ \A n \in Nodes, p \in Call :
       /\ WF_vars(Output(n, p))
       /\ WF_vars(StartDelayed(n, p) \/ ForwardDelayed(n, p))
       /\ WF_vars(Check(n, p))

FairSpec == Spec /\ Fairness

-----------------------------------------------------------------------------
(* Properties                                                              *)

\* Every variable stays in its range.
TypeOK ==
  /\ invoked \in SUBSET Call
  /\ arrived \in SUBSET Call
  /\ noted \in [Nodes -> SUBSET Call]
  /\ checks \in [Nodes -> [Call -> Nat]]
  /\ running \in [Nodes -> [Call -> Nat]]
  /\ delayed \in [Nodes -> [Call -> Nat]]
  /\ moving \in [Call -> Nat]
  /\ losses \in Nat
  /\ reruns \in Nat

\* A node will look at p again: p is noted there and some check of its session
\* is still queued.
Watched(n, p) ==
  /\ p \in noted[n]
  /\ \E q \in Call : q[2] = p[2] /\ checks[n][q] > 0

\* operation.proto:218 "hints for re-execution": a source function whose object
\* has not come is watched by some node, waits for an executor or is on its way
\* to one.  Checks are used up, notes overwritten and calls moved; none of it
\* leaves a lost call without anyone to start it again.
NotForgotten ==
  \A p \in invoked \ arrived :
    \/ \E n \in Nodes : Watched(n, p)
    \/ \E n \in Nodes : delayed[n][p] > 0
    \/ moving[p] > 0

\* The object of every source function arrives in the end, although calls are
\* lost, delayed and forwarded; only a run that has used up the bound on reruns is
\* let off.
EveryObjectArrives ==
  \A p \in Call : p \in invoked ~> p \in arrived \/ reruns = MaxReruns
=============================================================================
