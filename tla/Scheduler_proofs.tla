-------------------------- MODULE Scheduler_proofs --------------------------
(***************************************************************************)
(* Two parts of a local scheduler.  With a note for every source's key, no *)
(* lost call is forgotten, for any number of nodes, executors, sources and *)
(* sessions and any interleaving.  And no fetch of a call's argument lacks *)
(* an address, for any number of I/O threads and any interleaving.         *)
(***************************************************************************)
EXTENDS Rerun, IoThreads, TLAPS

-----------------------------------------------------------------------------
(* Calls that are executed again.                                          *)


\* A node's counts with one more of each call of P count every call of P.
LEMMA PlusCounts ==
  ASSUME NEW c \in [Call -> Nat], NEW P
  PROVE  /\ Plus(c, P) \in [Call -> Nat]
         /\ \A q \in Call : Plus(c, P)[q] >= c[q]
         /\ \A q \in Call : q \in P => Plus(c, P)[q] > 0
BY DEF Plus

\* Taking away one that is there leaves the others alone.
LEMMA MinusCounts ==
  ASSUME NEW c \in [Call -> Nat], NEW p \in Call, c[p] > 0
  PROVE  /\ Minus(c, p) \in [Call -> Nat]
         /\ \A q \in Call : q # p => Minus(c, p)[q] = c[q]
BY DEF Minus

\* schedule_func_call keeps the types and looks after the calls it is given:
\* each is noted with a check queued, or delayed, or on its way.
LEMMA ScheduleLooksAfter ==
  ASSUME TypeOK, NEW n \in Nodes, NEW P \in SUBSET Call, PerKey,
         NEW left \in [Call -> Nat], NEW flow \in [Call -> Nat],
         Schedule(n, P, left, flow)
  PROVE  /\ noted' \in [Nodes -> SUBSET Call]
         /\ checks' \in [Nodes -> [Call -> Nat]]
         /\ running' \in [Nodes -> [Call -> Nat]]
         /\ delayed' \in [Nodes -> [Call -> Nat]]
         /\ moving' \in [Call -> Nat]
         /\ \A m \in Nodes : noted[m] \subseteq noted'[m]
         /\ \A m \in Nodes : m # n => checks'[m] = checks[m]
         /\ \A q \in Call : checks'[n][q] >= left[q]
         /\ \A m \in Nodes, q \in Call : delayed'[m][q] >= delayed[m][q]
         /\ \A q \in Call : moving'[q] >= flow[q]
         /\ \A q \in P : \/ q \in noted'[n] /\ checks'[n][q] > 0
                         \/ delayed'[n][q] > 0
                         \/ moving'[q] > 0
<1>1. PICK G \in SUBSET P :
        /\ running' = [running EXCEPT ![n] = Plus(@, G)]
        /\ noted' = [noted EXCEPT ![n] = Note(@, G)]
        /\ checks' = [checks EXCEPT ![n] = Plus(left, G)]
        /\ delayed' = IF Delays THEN [delayed EXCEPT ![n] = Plus(@, P \ G)] ELSE delayed
        /\ moving' = IF Delays THEN flow ELSE Plus(flow, P \ G)
  BY Zenon DEF Schedule
<1>2. /\ running[n] \in [Call -> Nat]
      /\ delayed[n] \in [Call -> Nat]
  BY DEF TypeOK
<1>3. /\ noted' \in [Nodes -> SUBSET Call]
      /\ \A m \in Nodes : noted[m] \subseteq noted'[m]
      /\ G \subseteq noted'[n]
  BY <1>1 DEF TypeOK, Note
<1>4. /\ checks' \in [Nodes -> [Call -> Nat]]
      /\ \A m \in Nodes : m # n => checks'[m] = checks[m]
      /\ \A q \in Call : checks'[n][q] >= left[q]
      /\ \A q \in G : checks'[n][q] > 0
  <2>1. /\ checks'[n] = Plus(left, G)
        /\ \A m \in Nodes : m # n => checks'[m] = checks[m]
    BY <1>1 DEF TypeOK
  <2>2. /\ Plus(left, G) \in [Call -> Nat]
        /\ \A q \in Call : Plus(left, G)[q] >= left[q]
        /\ \A q \in Call : q \in G => Plus(left, G)[q] > 0
    BY PlusCounts
  <2> QED BY <1>1, <2>1, <2>2 DEF TypeOK
<1>5. running' \in [Nodes -> [Call -> Nat]]
  BY <1>1, <1>2, PlusCounts DEF TypeOK
<1>6. CASE Delays
  <2>1. /\ delayed'[n] = Plus(delayed[n], P \ G)
        /\ \A m \in Nodes : m # n => delayed'[m] = delayed[m]
        /\ moving' = flow
    BY <1>1, <1>6 DEF TypeOK
  <2>2. /\ Plus(delayed[n], P \ G) \in [Call -> Nat]
        /\ \A q \in Call : Plus(delayed[n], P \ G)[q] >= delayed[n][q]
        /\ \A q \in Call : q \in P \ G => Plus(delayed[n], P \ G)[q] > 0
    BY <1>2, PlusCounts
  <2>3. delayed' \in [Nodes -> [Call -> Nat]]
    BY <1>1, <1>6, <2>2, Zenon DEF TypeOK
  <2>4. ASSUME NEW m \in Nodes, NEW q \in Call
        PROVE  delayed'[m][q] >= delayed[m][q]
    <3>1. delayed[m][q] \in Nat
      BY DEF TypeOK
    <3>2. CASE m = n
      BY <2>1, <2>2, <3>2, SMTT(30)
    <3>3. CASE m # n
      BY <2>1, <3>1, <3>3
    <3> QED BY <3>2, <3>3
  <2>5. \A q \in Call : moving'[q] >= flow[q]
    BY <2>1
  <2>6. \A q \in P : \/ q \in noted'[n] /\ checks'[n][q] > 0
                     \/ delayed'[n][q] > 0
    BY <1>3, <1>4, <2>1, <2>2, Zenon
  <2> QED BY <1>3, <1>4, <1>5, <2>1, <2>3, <2>4, <2>5, <2>6, Zenon
<1>7. CASE ~Delays
  <2>1. /\ delayed' = delayed
        /\ moving' = Plus(flow, P \ G)
    BY <1>1, <1>7
  <2>2. /\ Plus(flow, P \ G) \in [Call -> Nat]
        /\ \A q \in Call : Plus(flow, P \ G)[q] >= flow[q]
        /\ \A q \in Call : q \in P \ G => Plus(flow, P \ G)[q] > 0
    BY PlusCounts
  <2>3. \A m \in Nodes, q \in Call : delayed'[m][q] >= delayed[m][q]
    BY <2>1 DEF TypeOK
  <2> QED BY <1>3, <1>4, <1>5, <2>1, <2>2, <2>3, Zenon DEF TypeOK
<1> QED BY <1>6, <1>7

\* What Schedule needs to be given so that no call is forgotten: the checks it
\* starts from may lack one of a session whose notes are all in P, the moving
\* calls one that is in P.
LEMMA ScheduleForgetsNone ==
  ASSUME TypeOK, NotForgotten, NEW n \in Nodes, NEW P \in SUBSET Call, PerKey,
         NEW left \in [Call -> Nat], NEW flow \in [Call -> Nat],
         Schedule(n, P, left, flow),
         arrived' = arrived,
         invoked' \subseteq invoked \cup P,
         \A q \in Call : q \notin P => flow[q] = moving[q],
         \A q \in noted[n] : q \in P \/ \A r \in Call : r[2] = q[2] => left[r] = checks[n][r]
  PROVE  NotForgotten'
<1> SUFFICES ASSUME NEW p \in invoked' \ arrived'
             PROVE  \/ \E m \in Nodes : Watched(m, p)'
                    \/ \E m \in Nodes : delayed'[m][p] > 0
                    \/ moving'[p] > 0
  BY Zenon DEF NotForgotten
<1> DEFINE Kept == /\ noted' \in [Nodes -> SUBSET Call]
                   /\ checks' \in [Nodes -> [Call -> Nat]]
                   /\ delayed' \in [Nodes -> [Call -> Nat]]
                   /\ moving' \in [Call -> Nat]
                   /\ \A m \in Nodes : noted[m] \subseteq noted'[m]
                   /\ \A m \in Nodes : m # n => checks'[m] = checks[m]
                   /\ \A q \in Call : checks'[n][q] >= left[q]
                   /\ \A m \in Nodes, q \in Call : delayed'[m][q] >= delayed[m][q]
                   /\ \A q \in Call : moving'[q] >= flow[q]
<1>1. Kept /\ \A q \in P : \/ q \in noted'[n] /\ checks'[n][q] > 0
                           \/ delayed'[n][q] > 0
                           \/ moving'[q] > 0
  BY ScheduleLooksAfter, Zenon
<1>2. p \in Call
  BY DEF TypeOK
<1>3. CASE p \in P
  BY <1>1, <1>2, <1>3 DEF Watched
<1>4. CASE p \notin P
  <2>1. p \in invoked \ arrived
    BY <1>4
  <2>2. \/ \E m \in Nodes : Watched(m, p)
        \/ \E m \in Nodes : delayed[m][p] > 0
        \/ moving[p] > 0
    BY <2>1 DEF NotForgotten
  <2>3. ASSUME NEW m \in Nodes, Watched(m, p)
        PROVE  Watched(m, p)'
    <3>1. PICK q \in Call : q[2] = p[2] /\ checks[m][q] > 0
      BY <2>3 DEF Watched
    <3>2. p \in noted'[m]
      BY <1>1, <2>3 DEF Watched
    <3>3. checks'[m][q] > 0
      <4>1. CASE m = n
        <5>1. left[q] = checks[n][q]
          BY <1>4, <2>3, <3>1, <4>1 DEF Watched
        <5> QED BY <1>1, <3>1, <4>1, <5>1 DEF TypeOK
      <4>2. CASE m # n
        BY <1>1, <3>1, <4>2
      <4> QED BY <4>1, <4>2
    <3> QED BY <3>1, <3>2, <3>3 DEF Watched
  <2>4. ASSUME NEW m \in Nodes, delayed[m][p] > 0
        PROVE  delayed'[m][p] > 0
    <3>1. delayed'[m][p] >= delayed[m][p]
      BY <1>1, <1>2
    <3>2. delayed[m][p] \in Nat /\ delayed'[m][p] \in Nat
      BY <1>1, <1>2 DEF TypeOK
    <3> QED BY <2>4, <3>1, <3>2
  <2>5. ASSUME moving[p] > 0
        PROVE  moving'[p] > 0
    BY <1>1, <1>2, <1>4, <2>5 DEF TypeOK
  <2> QED BY <2>2, <2>3, <2>4, <2>5
<1> QED BY <1>3, <1>4

IInv == TypeOK /\ NotForgotten

LEMMA RerunInit == Init => IInv
BY DEF Init, IInv, TypeOK, NotForgotten, None

\* A call that is scheduled for the first time, or on arrival, or by a check.
LEMMA InvokeStep ==
  ASSUME IInv, PerKey, NEW n \in Nodes, NEW p \in Call, Invoke(n, p)
  PROVE  IInv'
<1>1. Schedule(n, {p}, checks[n], moving)
  BY DEF Invoke
<1>2. checks[n] \in [Call -> Nat] /\ moving \in [Call -> Nat] /\ TypeOK /\ NotForgotten
  BY DEF IInv, TypeOK
<1>3. NotForgotten'
  BY <1>1, <1>2, ScheduleForgetsNone DEF Invoke
<1>4. TypeOK'
  BY <1>1, <1>2, ScheduleLooksAfter, Zenon DEF Invoke, TypeOK
<1> QED BY <1>3, <1>4 DEF IInv

LEMMA ReceiveStep ==
  ASSUME IInv, PerKey, NEW n \in Nodes, NEW p \in Call, Receive(n, p)
  PROVE  IInv'
<1>1. Schedule(n, {p}, checks[n], Minus(moving, p))
  BY DEF Receive
<1>2. checks[n] \in [Call -> Nat] /\ moving \in [Call -> Nat] /\ TypeOK /\ NotForgotten
  BY DEF IInv, TypeOK
<1>3. /\ Minus(moving, p) \in [Call -> Nat]
      /\ \A q \in Call : q \notin {p} => Minus(moving, p)[q] = moving[q]
  BY <1>2, MinusCounts DEF Receive
<1>4. NotForgotten'
  BY <1>1, <1>2, <1>3, ScheduleForgetsNone DEF Receive
<1>5. TypeOK'
  BY <1>1, <1>2, <1>3, ScheduleLooksAfter, Zenon DEF Receive, TypeOK
<1> QED BY <1>4, <1>5 DEF IInv

LEMMA CheckStep ==
  ASSUME IInv, PerKey, NEW n \in Nodes, NEW p \in Call, Check(n, p)
  PROVE  IInv'
<1>1. Schedule(n, Overdue(n, p), Minus(checks[n], p), moving)
  BY DEF Check
<1>2. /\ checks[n] \in [Call -> Nat] /\ moving \in [Call -> Nat] /\ noted[n] \subseteq Call
      /\ TypeOK /\ NotForgotten
  BY DEF IInv, TypeOK
<1>3. /\ Minus(checks[n], p) \in [Call -> Nat]
      /\ \A q \in Call : q # p => Minus(checks[n], p)[q] = checks[n][q]
  BY <1>2, MinusCounts DEF Check
<1>4. Overdue(n, p) \in SUBSET Call
  BY <1>2 DEF Overdue
<1>5. \A q \in noted[n] :
        q \in Overdue(n, p) \/ \A r \in Call : r[2] = q[2] => Minus(checks[n], p)[r] = checks[n][r]
  BY <1>3 DEF Overdue
<1>6. NotForgotten'
  BY <1>1, <1>2, <1>3, <1>4, <1>5, ScheduleForgetsNone DEF Check
<1>7. reruns' \in Nat
  BY <1>2 DEF Check, TypeOK
<1>8. TypeOK'
  BY <1>1, <1>2, <1>3, <1>4, <1>7, ScheduleLooksAfter, Zenon DEF Check, TypeOK
<1> QED BY <1>6, <1>8 DEF IInv

\* A call ends, with or without its object.
LEMMA EndStep ==
  ASSUME IInv, PerKey, NEW n \in Nodes, NEW p \in Call, Output(n, p) \/ Lose(n, p)
  PROVE  IInv'
<1>1. /\ running' = [running EXCEPT ![n] = Minus(@, p)]
      /\ running[n][p] > 0
      /\ UNCHANGED <<invoked, checks, delayed, moving, reruns>>
      /\ arrived' \in {arrived, arrived \cup {p}}
      /\ noted' = noted \/ (noted' = [noted EXCEPT ![n] = @ \ {p}] /\ p \in arrived')
      /\ losses' \in {losses, losses + 1}
  BY DEF Output, Lose, Forget
<1>2. TypeOK /\ NotForgotten
  BY DEF IInv
<1>3. TypeOK'
  <2>1. running' \in [Nodes -> [Call -> Nat]]
    BY <1>1, <1>2, MinusCounts DEF TypeOK
  <2>2. noted' \in [Nodes -> SUBSET Call]
    <3>1. noted \in [Nodes -> SUBSET Call]
      BY <1>2 DEF TypeOK
    <3>2. [noted EXCEPT ![n] = @ \ {p}] \in [Nodes -> SUBSET Call]
      BY <3>1
    <3> QED BY <1>1, <3>1, <3>2
  <2> QED BY <1>1, <1>2, <2>1, <2>2 DEF TypeOK
<1>4. ASSUME NEW m \in Nodes, NEW q \in invoked' \ arrived', Watched(m, q)
      PROVE  Watched(m, q)'
  <2>1. q \in noted'[m]
    <3>1. CASE noted' = noted
      BY <1>4, <3>1 DEF Watched
    <3>2. CASE noted' = [noted EXCEPT ![n] = @ \ {p}] /\ p \in arrived'
      <4>1. q # p /\ q \in noted[m]
        BY <1>4, <3>2 DEF Watched
      <4> QED BY <1>2, <3>2, <4>1 DEF TypeOK
    <3> QED BY <1>1, <3>1, <3>2
  <2>2. checks' = checks
    BY <1>1
  <2> QED BY <1>4, <2>1, <2>2, Zenon DEF Watched
<1>5. NotForgotten'
  <2>1. invoked' \ arrived' \subseteq invoked \ arrived /\ delayed' = delayed /\ moving' = moving
    BY <1>1
  <2> QED BY <1>2, <1>4, <2>1, Zenon DEF NotForgotten
<1> QED BY <1>3, <1>5 DEF IInv

\* A delayed call is started or forwarded.
LEMMA DelayedStep ==
  ASSUME IInv, PerKey, NEW n \in Nodes, NEW p \in Call,
         StartDelayed(n, p) \/ ForwardDelayed(n, p)
  PROVE  IInv'
<1>1. /\ TypeOK /\ NotForgotten
      /\ checks[n] \in [Call -> Nat] /\ running[n] \in [Call -> Nat]
      /\ delayed[n] \in [Call -> Nat] /\ moving \in [Call -> Nat]
      /\ delayed[n][p] > 0
  BY DEF IInv, TypeOK, StartDelayed, ForwardDelayed
<1>2. /\ delayed' \in [Nodes -> [Call -> Nat]]
      /\ \A m \in Nodes, q \in Call : q # p => delayed'[m][q] = delayed[m][q]
      /\ UNCHANGED <<invoked, arrived, losses, reruns>>
  <2>1. delayed' = [delayed EXCEPT ![n] = Minus(delayed[n], p)]
    BY DEF StartDelayed, ForwardDelayed
  <2>2. /\ Minus(delayed[n], p) \in [Call -> Nat]
        /\ \A q \in Call : q # p => Minus(delayed[n], p)[q] = delayed[n][q]
    BY <1>1, MinusCounts
  <2> QED BY <1>1, <2>1, <2>2 DEF TypeOK, StartDelayed, ForwardDelayed
<1>3. CASE StartDelayed(n, p)
  <2>1. /\ running' \in [Nodes -> [Call -> Nat]]
        /\ checks' \in [Nodes -> [Call -> Nat]]
        /\ \A m \in Nodes, q \in Call : checks'[m][q] >= checks[m][q]
        /\ checks'[n][p] > 0
    <3>1. /\ running' = [running EXCEPT ![n] = Plus(running[n], {p})]
          /\ checks' = [checks EXCEPT ![n] = Plus(checks[n], {p})]
      BY <1>3 DEF StartDelayed
    <3>2. /\ Plus(running[n], {p}) \in [Call -> Nat]
          /\ Plus(checks[n], {p}) \in [Call -> Nat]
          /\ \A q \in Call : Plus(checks[n], {p})[q] >= checks[n][q]
          /\ Plus(checks[n], {p})[p] > 0
      BY <1>1, PlusCounts
    <3>3. ASSUME NEW m \in Nodes, NEW q \in Call
          PROVE  checks'[m][q] >= checks[m][q]
      <4>1. checks[m][q] \in Nat
        BY <1>1 DEF TypeOK
      <4>2. checks'[m] = IF m = n THEN Plus(checks[n], {p}) ELSE checks[m]
        BY <1>1, <3>1 DEF TypeOK
      <4> QED BY <3>2, <4>1, <4>2, SMTT(30)
    <3>4. checks'[n][p] > 0
      BY <1>1, <3>1, <3>2 DEF TypeOK
    <3>5. running' \in [Nodes -> [Call -> Nat]] /\ checks' \in [Nodes -> [Call -> Nat]]
      BY <1>1, <3>1, <3>2, Zenon DEF TypeOK
    <3> QED BY <3>3, <3>4, <3>5
  <2>2. /\ noted' \in [Nodes -> SUBSET Call]
        /\ \A m \in Nodes : noted[m] \subseteq noted'[m]
        /\ p \in noted'[n]
        /\ moving' = moving
    BY <1>1, <1>3 DEF StartDelayed, Note, TypeOK
  <2>3. TypeOK'
    BY <1>1, <1>2, <2>1, <2>2 DEF TypeOK
  <2>4. ASSUME NEW m \in Nodes, NEW q \in Call, Watched(m, q)
        PROVE  Watched(m, q)'
    BY <1>1, <2>1, <2>2, <2>4 DEF Watched, TypeOK
  <2>5. Watched(n, p)'
    BY <2>1, <2>2 DEF Watched
  <2>6. NotForgotten'
    <3> SUFFICES ASSUME NEW q \in invoked' \ arrived'
                 PROVE  \/ \E m \in Nodes : Watched(m, q)'
                        \/ \E m \in Nodes : delayed'[m][q] > 0
                        \/ moving'[q] > 0
      BY DEF NotForgotten
    <3>1. q \in Call /\ q \in invoked \ arrived
      BY <1>1, <1>2 DEF TypeOK
    <3>2. CASE q = p
      BY <2>5, <3>2
    <3>3. CASE q # p
      BY <1>1, <1>2, <2>1, <2>2, <2>4, <3>1, <3>3, Zenon DEF NotForgotten
    <3> QED BY <3>2, <3>3
  <2> QED BY <2>3, <2>6 DEF IInv
<1>4. CASE ForwardDelayed(n, p)
  <2>1. /\ UNCHANGED <<noted, checks, running>>
        /\ moving' \in [Call -> Nat]
        /\ \A q \in Call : q # p => moving'[q] = moving[q]
        /\ moving'[p] > 0
    BY <1>1, <1>4 DEF ForwardDelayed, Plus
  <2>2. TypeOK'
    BY <1>1, <1>2, <2>1 DEF TypeOK
  <2>3. \A m \in Nodes, q \in Call : Watched(m, q) => Watched(m, q)'
    BY <2>1, SMTT(30) DEF Watched
  <2>4. ASSUME NEW q \in invoked' \ arrived'
        PROVE  \/ \E m \in Nodes : Watched(m, q)'
               \/ \E m \in Nodes : delayed'[m][q] > 0
               \/ moving'[q] > 0
    <3>1. q \in Call /\ q \in invoked \ arrived
      BY <1>1, <1>2 DEF TypeOK
    <3>2. \/ \E m \in Nodes : Watched(m, q)
          \/ \E m \in Nodes : delayed[m][q] > 0
          \/ moving[q] > 0
      BY <1>1, <3>1 DEF NotForgotten
    <3> QED BY <1>2, <2>1, <2>3, <3>1, <3>2, SMTT(30)
  <2>5. NotForgotten'
    BY <2>4, Zenon DEF NotForgotten
  <2> QED BY <2>2, <2>5 DEF IInv
<1> QED BY <1>3, <1>4

LEMMA RerunStep == PerKey /\ IInv /\ [Next]_vars => IInv'
<1> SUFFICES ASSUME PerKey, IInv, [Next]_vars PROVE IInv'
  OBVIOUS
<1>1. CASE Next
  BY <1>1, InvokeStep, ReceiveStep, CheckStep, EndStep, DelayedStep DEF Next
<1>2. CASE UNCHANGED vars
  BY <1>2 DEF vars, IInv, TypeOK, NotForgotten, Watched
<1> QED BY <1>1, <1>2

\* The types of Rerun hold and, when notes are kept for a source's key as the
\* BY_SET trigger does, no source function that was started is forgotten before
\* its object arrives: notify_source_func, the checks, delay_call_queue and the
\* forwards between nodes leave no gap.
THEOREM NoSourceIsForgotten ==
  ASSUME PerKey
  PROVE  Spec => [](TypeOK /\ NotForgotten)
<1>1. Init => IInv
  BY RerunInit
<1>2. IInv /\ [Next]_vars => IInv'
  BY RerunStep
<1> QED BY <1>1, <1>2, PTL DEF Spec, IInv

-----------------------------------------------------------------------------
(* The I/O threads.                                                        *)


\* The results and the places of the threads.
Types == {"Call", "DataResp", "KvsGetResp", "KvsPutResp"}
Result == [type : Types, key : Keys]
Events == {"call", "serve", "data"}
Sock == [call : Seq(Keys), serve : Seq(Keys), data : Seq(Keys)]
Pcs == {"exec", "poll", "call", "serve", "data", "msg", "pop", "kvs", "drain", "drained"}
Place(S) == [pc : Pcs, ev : SUBSET Events, n : Nat, hand : Seq(S)]

\* The calls whose argument has an address, as a result and as a fetch, and
\* the operations that are not calls.
Known == {r \in Result : r.type = "Call" => r.key \in cache}
Fetchable == {k \in Keys : Kind(k) = "call" => k \in cache}
NotCalls == {k \in Keys : Kind(k) # "call"}
Hearings == {H \in SUBSET [key : NotCalls, out : Outcomes] : IsFiniteSet(H)}

\* A thread takes from sockets only what it has seen there: a is its place
\* and s what waits on its sockets.
Ready(a, s) ==
  /\ a.pc = "call" => s.call # <<>> /\ ("serve" \in a.ev => s.serve # <<>>)
  /\ a.pc = "serve" => s.serve # <<>>
  /\ a.pc \in {"call", "serve"} => ("data" \in a.ev => s.data # <<>>)
  /\ a.pc = "data" => s.data # <<>>

Fronts ==
  /\ \A t \in Threads : Ready(at[t], sock[t])
  /\ \A t \in Others : at[t].pc = "pop" => msgs[t] # <<>>
  /\ at[0].pc = "drained" => at[0].n + 1 \in Others /\ resps[at[0].n + 1] # <<>>

Carried ==
  /\ msgs \in [Others -> Seq(Fetchable)]
  /\ resps \in [Others -> Seq(Known)]
  /\ inbox \in Seq(Known)
  /\ at \in [Threads -> Place(Known)]

Sent ==
  /\ sock \in [Threads -> Sock]
  /\ fetching \subseteq [key : Keys, to : Threads]
  /\ \A a \in adverts : a.key \in Keys

Stored ==
  /\ kvs \in [Threads -> SUBSET NotCalls]
  /\ heard \in [Threads -> Hearings]
  /\ dropped \subseteq NotCalls

\* The inductive invariant: what is carried and stored, and that a thread
\* reads a socket or a queue only when something waits there.
IoInv == setup \in Setups /\ Carried /\ Sent /\ Stored /\ Fronts

\* A thread goes on to a socket it polled as ready, or to what follows the
\* sockets.
LEMMA StageIs ==
  ASSUME NEW t, NEW ev
  PROVE  /\ Stage(t, ev, 1) \in (ev \cap Events) \cup {"kvs", "msg"}
         /\ Stage(t, ev, 2) \in (ev \cap {"serve", "data"}) \cup {"kvs", "msg"}
         /\ Stage(t, ev, 3) \in (ev \cap {"data"}) \cup {"kvs", "msg"}
         /\ Stage(t, ev, 4) \in {"kvs", "msg"}
<1>1. ASSUME NEW i \in 1..4
      PROVE  Stage(t, ev, i) \in {"kvs", "msg"} \/ \E j \in i..3 : Stage(t, ev, i) = Sockets[j] /\ Sockets[j] \in ev
  <2>1. PICK left : left = {j \in i..3 : Sockets[j] \in ev}
    BY Zenon
  <2>2. CASE left # {}
    <3>1. \E x \in left : \A y \in left : x =< y
      <4>1. left \subseteq {1, 2, 3}
        BY <2>1
      <4>2. CASE 1 \in left
        BY <4>1, <4>2
      <4>3. CASE 1 \notin left /\ 2 \in left
        BY <4>1, <4>3
      <4>4. CASE 1 \notin left /\ 2 \notin left
        <5>1. \A y \in left : y = 3
          BY <4>1, <4>4, Zenon
        <5>2. 3 \in left
          BY <2>2, <5>1, Zenon
        <5> QED
          BY <5>1, <5>2
      <4> QED
        BY <4>2, <4>3, <4>4, Zenon
    <3>2. Min(left) \in left
      BY <3>1, Zenon DEF Min
    <3>3. Stage(t, ev, i) = Sockets[Min(left)]
      BY <2>1, <2>2, Zenon DEF Stage
    <3> QED
      BY <2>1, <3>2, <3>3
  <2>3. CASE left = {}
    BY <2>1, <2>3, Zenon DEF Stage
  <2> QED
    BY <2>2, <2>3, Zenon
<1>2. Sockets[1] = "call" /\ Sockets[2] = "serve" /\ Sockets[3] = "data"
  BY DEF Sockets
<1>3. Stage(t, ev, 1) \in (ev \cap Events) \cup {"kvs", "msg"}
  BY <1>1, <1>2 DEF Events
<1>4. Stage(t, ev, 2) \in (ev \cap {"serve", "data"}) \cup {"kvs", "msg"}
  BY <1>1, <1>2
<1>5. Stage(t, ev, 3) \in (ev \cap {"data"}) \cup {"kvs", "msg"}
  BY <1>1, <1>2
<1>6. Stage(t, ev, 4) \in {"kvs", "msg"}
  BY <1>1
<1> QED
  BY <1>3, <1>4, <1>5, <1>6, Zenon

\* What the queues of the threads hold after a push and a pop.
LEMMA SeqOps ==
  ASSUME NEW S, NEW q \in Seq(S)
  PROVE  /\ \A x \in S : Append(q, x) \in Seq(S) /\ Append(q, x) # <<>> /\ <<x>> \in Seq(S)
         /\ q # <<>> => Head(q) \in S /\ Tail(q) \in Seq(S)
         /\ \A r \in Seq(S) : q \o r \in Seq(S)
         /\ <<>> \in Seq(S)
<1>1. \A x \in S : Append(q, x) \in Seq(S) /\ <<x>> \in Seq(S)
  OBVIOUS
<1>2. \A x \in S : Append(q, x) # <<>>
  <2> TAKE x \in S
  <2>1. Len(q) \in Nat /\ Len(Append(q, x)) = Len(q) + 1
    OBVIOUS
  <2>2. Len(<<>>) = 0
    OBVIOUS
  <2> QED
    BY <2>1, <2>2
<1>3. q # <<>> => Head(q) \in S /\ Tail(q) \in Seq(S)
  OBVIOUS
<1>4. \A r \in Seq(S) : q \o r \in Seq(S)
  OBVIOUS
<1>5. <<>> \in Seq(S)
  OBVIOUS
<1> QED
  BY <1>1, <1>2, <1>3, <1>4, <1>5, Zenon

LEMMA SeqMono ==
  ASSUME NEW S, NEW T, S \subseteq T
  PROVE  Seq(S) \subseteq Seq(T)
  OBVIOUS

\* Addresses are only added, so what is known stays known.
LEMMA SameSets ==
  ASSUME setup' = setup, cache \subseteq cache'
  PROVE  /\ Threads' = Threads /\ Others' = Others /\ NotCalls' = NotCalls /\ Hearings' = Hearings
         /\ Known \subseteq Known' /\ Fetchable \subseteq Fetchable'
         /\ \A k : Kind(k)' = Kind(k)
         /\ cache' = cache => Known' = Known /\ Fetchable' = Fetchable
<1>1. \A k : Kind(k)' = Kind(k)
  BY Zenon DEF Kind
<1>2. Threads' = Threads /\ Others' = Others
  BY Zenon DEF Threads, Others
<1>3. NotCalls' = NotCalls
  BY <1>1, Zenon DEF NotCalls
<1>4. Hearings' = Hearings
  BY <1>3, Zenon DEF Hearings
<1>5. Known \subseteq Known' /\ Fetchable \subseteq Fetchable'
  BY <1>1 DEF Known, Fetchable
<1>6. cache' = cache => Known' = Known /\ Fetchable' = Fetchable
  BY <1>1, Zenon DEF Known, Fetchable
<1> QED
  BY <1>1, <1>2, <1>3, <1>4, <1>5, <1>6, Zenon

LEMMA ThreadsAre ==
  ASSUME setup \in Setups
  PROVE  0 \in Threads /\ Others \subseteq Threads /\ 0 \notin Others /\ \A t \in Others : t \in Nat
  BY IoAssumption DEF Threads, Others

LEMMA PlaceMono ==
  ASSUME NEW S, NEW T, S \subseteq T
  PROVE  Place(S) \subseteq Place(T)
  BY SeqMono DEF Place

\* Thread t goes to pc with what it polled and counted, and no other moves.
Moved(S, t, pc) ==
  /\ at' \in [Threads -> Place(S)]
  /\ \A u \in Threads \ {t} : at'[u] = at[u]
  /\ at'[t].pc = pc /\ at'[t].ev = at[t].ev /\ at'[t].n = at[t].n

LEMMA GotoIs ==
  ASSUME NEW S, at \in [Threads -> Place(S)], NEW t \in Threads, NEW pc \in Pcs, Goto(t, pc)
  PROVE  Moved(S, t, pc)
<1>1. PICK p : p = [at[t] EXCEPT !.pc = pc]
  BY Zenon
<1>2. at[t] \in Place(S)
  OBVIOUS
<1>3. p \in Place(S) /\ p.pc = pc /\ p.ev = at[t].ev /\ p.n = at[t].n
  BY <1>1, <1>2, Zenon DEF Place
<1>4. at' = [at EXCEPT ![t] = p]
  BY <1>1 DEF Goto
<1> QED
  BY <1>3, <1>4 DEF Moved

\* Results handed to thread 0, or kept by another thread until it pushes them.
LEMMA HandIs ==
  ASSUME NEW S, NEW T, S \subseteq T, at \in [Threads -> Place(S)], inbox \in Seq(S),
         NEW t \in Threads, NEW pc \in Pcs, NEW rs \in Seq(T), Hand(t, rs, pc)
  PROVE  inbox' \in Seq(T) /\ Moved(T, t, pc)
<1>0. at \in [Threads -> Place(T)] /\ inbox \in Seq(T)
  BY PlaceMono, SeqMono
<1>1. CASE t = 0
  <2>1. inbox' = inbox \o rs /\ Goto(t, pc)
    BY <1>1, Zenon DEF Hand
  <2> QED
    BY <1>0, <2>1, GotoIs, SeqOps, Zenon
<1>2. CASE t # 0
  <2>0. at' = [at EXCEPT ![t].pc = pc, ![t].hand = rs] /\ inbox' = inbox
    BY <1>2, Zenon DEF Hand
  <2>1. PICK p : p = [at[t] EXCEPT !.pc = pc, !.hand = rs]
    BY Zenon
  <2>2. at[t] \in Place(T)
    BY <1>0
  <2>3. p \in Place(T) /\ p.pc = pc /\ p.ev = at[t].ev /\ p.n = at[t].n
    BY <2>1, <2>2, Zenon DEF Place
  <2>4. at' = [at EXCEPT ![t] = p]
    BY <1>0, <2>0, <2>1, <2>2, Zenon DEF Place
  <2> QED
    BY <1>0, <2>0, <2>3, <2>4, Zenon DEF Moved
<1> QED
  BY <1>1, <1>2, Zenon

LEMMA SentKept ==
  ASSUME Sent, setup' = setup, UNCHANGED <<sock, fetching, adverts>>
  PROVE  Sent'
  BY DEF Sent, Threads

LEMMA StoredKept ==
  ASSUME Stored, setup' = setup, UNCHANGED <<kvs, heard, dropped>>
  PROVE  Stored'
  BY Zenon DEF Stored, Threads, NotCalls, Hearings, Kind

\* A step in which one thread t moves, or one thread's sockets fill.
LEMMA FrontsMove ==
  ASSUME IoInv, setup' = setup, NEW t \in Threads,
         \A u \in Threads \ {t} : at'[u] = at[u] /\ sock'[u] = sock[u],
         Ready(at'[t], sock'[t]),
         at'[t].pc = "pop" /\ t \in Others => msgs'[t] # <<>>,
         t = 0 /\ at'[0].pc = "drained" =>
            at'[0].n + 1 \in Others /\ resps'[at'[0].n + 1] # <<>>,
         \A u \in Others \ {t} : msgs'[u] = msgs[u] \/ msgs'[u] # <<>>,
         t # 0 => \A u \in Others : resps'[u] = resps[u] \/ resps'[u] # <<>>
  PROVE  Fronts'
<1>1. Threads' = Threads /\ Others' = Others /\ 0 \in Threads /\ Others \subseteq Threads
  BY ThreadsAre, Zenon DEF Threads, Others, IoInv
<1>2. Fronts
  BY Zenon DEF IoInv
<1>3. \A u \in Threads : Ready(at'[u], sock'[u])
  <2> TAKE u \in Threads
  <2>1. Ready(at[u], sock[u])
    BY <1>2, Zenon DEF Fronts
  <2> QED
    BY <2>1, Zenon
<1>4. \A u \in Others : at'[u].pc = "pop" => msgs'[u] # <<>>
  BY <1>1, <1>2, Zenon DEF Fronts
<1>5. at'[0].pc = "drained" => at'[0].n + 1 \in Others /\ resps'[at'[0].n + 1] # <<>>
  <2>1. CASE t = 0
    BY <2>1, Zenon
  <2>2. CASE t # 0
    <3>1. at'[0] = at[0]
      BY <1>1, <2>2, Zenon
    <3>2. at[0].pc = "drained" => at[0].n + 1 \in Others /\ resps[at[0].n + 1] # <<>>
      BY <1>2, Zenon DEF Fronts
    <3> QED
      BY <2>2, <3>1, <3>2, Zenon
  <2> QED
    BY <2>1, <2>2, Zenon
<1> QED
  BY <1>1, <1>3, <1>4, <1>5, Zenon DEF Fronts

\* What the threads carry keeps its type when addresses are added.
LEMMA CarriedIs ==
  ASSUME IoInv, setup' = setup, cache \subseteq cache',
         msgs' \in [Others -> Seq(Fetchable)], resps' \in [Others -> Seq(Known)],
         inbox' \in Seq(Known'), at' \in [Threads -> Place(Known')]
  PROVE  Carried'
<1>1. /\ Threads' = Threads /\ Others' = Others
      /\ Known \subseteq Known' /\ Fetchable \subseteq Fetchable'
  BY SameSets, Zenon
<1>2. Seq(Known) \subseteq Seq(Known') /\ Seq(Fetchable) \subseteq Seq(Fetchable')
  BY <1>1, SeqMono, Zenon
<1>3. msgs' \in [Others -> Seq(Fetchable')] /\ resps' \in [Others -> Seq(Known')]
  BY <1>2, SMTT(30)
<1> QED
  BY <1>1, <1>3, Zenon DEF Carried

\* What the invariant says of one thread.
LEMMA ThreadIs ==
  ASSUME IoInv, NEW t \in Threads
  PROVE  /\ at[t] \in Place(Known) /\ sock[t] \in Sock /\ Ready(at[t], sock[t])
         /\ at[t].pc \in Pcs /\ at[t].ev \subseteq Events /\ at[t].n \in Nat
         /\ at[t].hand \in Seq(Known)
         /\ sock[t].call \in Seq(Keys) /\ sock[t].serve \in Seq(Keys) /\ sock[t].data \in Seq(Keys)
<1>1. at[t] \in Place(Known) /\ sock[t] \in Sock /\ Ready(at[t], sock[t])
  BY Zenon DEF IoInv, Carried, Sent, Fronts
<1> QED
  BY <1>1 DEF Place, Sock

-----------------------------------------------------------------------------
(* One lemma per action.                                                   *)

LEMMA PollStep ==
  ASSUME IoInv, NEW t \in Threads, Poll(t)
  PROVE  IoInv'
<1>1. /\ setup' = setup /\ cache' = cache
      /\ UNCHANGED <<msgs, resps, inbox>> /\ UNCHANGED <<sock, fetching, adverts>>
      /\ UNCHANGED <<kvs, heard, dropped>>
  BY Zenon DEF Poll, queues, world, ends
<1>2. PICK ev : ev = {s \in Range(Sockets) : sock[t][s] # <<>>}
  BY Zenon
<1>3. PICK p : p = [pc |-> Stage(t, ev, 1), ev |-> ev, n |-> 0, hand |-> <<>>]
  BY Zenon
<1>4. at' = [at EXCEPT ![t] = p]
  BY <1>2, <1>3, Zenon DEF Poll
<1>5. Range(Sockets) = Events
  BY DEF Range, Sockets, Events
<1>6. ev \subseteq Events /\ Stage(t, ev, 1) \in ev \cup {"kvs", "msg"}
  BY <1>2, <1>5, StageIs, Zenon
<1>7. Stage(t, ev, 1) \in Pcs
  BY <1>6, Zenon DEF Events, Pcs
<1>8. p \in Place(Known)
  BY <1>3, <1>6, <1>7 DEF Place
<1>9. at \in [Threads -> Place(Known)]
  BY Zenon DEF IoInv, Carried
<1>10. at' \in [Threads -> Place(Known)] /\ at'[t] = p /\ \A u \in Threads \ {t} : at'[u] = at[u]
  BY <1>4, <1>8, <1>9
<1>11. p.pc \in ev \cup {"kvs", "msg"} /\ p.ev = ev
  BY <1>3, <1>6
<1>12. Ready(p, sock[t])
  <2>1. \A s \in ev : sock[t][s] # <<>>
    BY <1>2, Zenon
  <2>2. ("call" \in ev => sock[t].call # <<>>) /\ ("serve" \in ev => sock[t].serve # <<>>)
        /\ ("data" \in ev => sock[t].data # <<>>)
    BY <2>1, ThreadIs DEF Sock
  <2> QED
    BY <1>11, <2>2 DEF Ready
<1>13. p.pc # "pop" /\ p.pc # "drained"
  BY <1>6, <1>11 DEF Events
<1>14. Fronts'
  BY <1>1, <1>10, <1>12, <1>13, FrontsMove, Zenon
<1>15. Known' = Known
  BY <1>1, SameSets, Zenon
<1>16. Carried'
  BY <1>1, <1>10, <1>15, CarriedIs, Zenon DEF IoInv, Carried
<1>17. Sent' /\ Stored'
  BY <1>1, SentKept, StoredKept, Zenon DEF IoInv
<1> QED
  BY <1>1, <1>14, <1>16, <1>17, Zenon DEF IoInv

\* A thread takes one message off one of its sockets.
LEMMA SockIs ==
  ASSUME sock \in [Threads -> Sock], NEW t \in Threads, NEW s \in Sock,
         sock' = [sock EXCEPT ![t] = s], setup' = setup,
         Sent, UNCHANGED <<fetching, adverts>>
  PROVE  Sent' /\ sock'[t] = s /\ \A u \in Threads \ {t} : sock'[u] = sock[u]
<1>1. Threads' = Threads
  BY Zenon DEF Threads
<1>2. sock' \in [Threads -> Sock] /\ sock'[t] = s /\ \A u \in Threads \ {t} : sock'[u] = sock[u]
  OBVIOUS
<1> QED
  BY <1>1, <1>2, Zenon DEF Sent

LEMMA HandleCallStep ==
  ASSUME IoInv, NEW t \in Threads, HandleCall(t)
  PROVE  IoInv'
<1>1. /\ setup' = setup
      /\ UNCHANGED <<msgs, resps>> /\ UNCHANGED <<fetching, adverts>>
      /\ UNCHANGED <<kvs, heard, dropped>> /\ at[t].pc = "call"
  BY Zenon DEF HandleCall, world, ends, At
<1>2. PICK k : k = Head(sock[t].call)
  BY Zenon
<1>3. PICK s : s = [sock[t] EXCEPT !.call = Tail(@)]
  BY Zenon
<1>4. /\ sock' = [sock EXCEPT ![t].call = Tail(@)] /\ cache' = cache \cup {k}
      /\ Hand(t, <<[type |-> "Call", key |-> k]>>, Stage(t, at[t].ev, 2))
  BY <1>2, Zenon DEF HandleCall
<1>5. sock[t].call # <<>> /\ k \in Keys /\ Tail(sock[t].call) \in Seq(Keys)
  BY <1>1, <1>2, ThreadIs, SeqOps, Zenon DEF Ready
<1>6. s \in Sock /\ s.serve = sock[t].serve /\ s.data = sock[t].data
  BY <1>3, <1>5, ThreadIs, Zenon DEF Sock
<1>7. sock' = [sock EXCEPT ![t] = s]
  BY <1>3, <1>4
<1>8. sock \in [Threads -> Sock] /\ Sent
  BY Zenon DEF IoInv, Sent
<1>9. Sent' /\ sock'[t] = s /\ \A u \in Threads \ {t} : sock'[u] = sock[u]
  BY <1>1, <1>6, <1>7, <1>8, SockIs, Zenon
<1>10. cache \subseteq cache' /\ k \in cache'
  BY <1>4, Zenon
<1>11. Known \subseteq Known'
  BY <1>1, <1>10, SameSets, Zenon
<1>12. PICK rs : rs = <<[type |-> "Call", key |-> k]>>
  BY Zenon
<1>13. rs \in Seq(Known')
  <2>1. [type |-> "Call", key |-> k] \in Known'
    BY <1>5, <1>10 DEF Known, Result, Types
  <2> QED
    BY <1>12, <2>1, SMTT(30)
<1>14. PICK pc : pc = Stage(t, at[t].ev, 2)
  BY Zenon
<1>15. pc \in (at[t].ev \cap {"serve", "data"}) \cup {"kvs", "msg"}
  BY <1>14, StageIs, Zenon
<1>16. pc \in Pcs /\ pc # "pop" /\ pc # "drained"
  BY <1>15 DEF Pcs
<1>17. at \in [Threads -> Place(Known)] /\ inbox \in Seq(Known)
  BY Zenon DEF IoInv, Carried
<1>18. Hand(t, rs, pc)
  BY <1>4, <1>12, <1>14, Zenon
<1>19. inbox' \in Seq(Known') /\ Moved(Known', t, pc)
  BY <1>11, <1>13, <1>16, <1>17, <1>18, HandIs, Zenon
<1>20. Carried'
  BY <1>1, <1>10, <1>19, CarriedIs, ZenonT(40) DEF IoInv, Carried, Moved
<1>21. Ready(at'[t], sock'[t])
  BY <1>1, <1>6, <1>9, <1>15, <1>19, ThreadIs DEF Ready, Moved
<1>22. Fronts'
  BY <1>1, <1>9, <1>16, <1>19, <1>21, FrontsMove, Zenon DEF Moved
<1>23. Stored'
  BY <1>1, StoredKept, Zenon DEF IoInv
<1> QED
  BY <1>1, <1>9, <1>20, <1>22, <1>23, Zenon DEF IoInv

LEMMA HandleRequestStep ==
  ASSUME IoInv, NEW t \in Threads, HandleRequest(t)
  PROVE  IoInv'
<1>1. /\ setup' = setup /\ cache' = cache
      /\ UNCHANGED <<msgs, resps, inbox>> /\ UNCHANGED <<fetching, adverts>>
      /\ UNCHANGED <<kvs, heard, dropped>> /\ at[t].pc = "serve"
  BY Zenon DEF HandleRequest, queues, world, At
<1>2. PICK s : s = [sock[t] EXCEPT !.serve = Tail(@)]
  BY Zenon
<1>3. PICK pc : pc = Stage(t, at[t].ev, 3)
  BY Zenon
<1>4. sock' = [sock EXCEPT ![t].serve = Tail(@)] /\ Goto(t, pc)
  BY <1>3, Zenon DEF HandleRequest
<1>5. sock[t].serve # <<>> /\ Tail(sock[t].serve) \in Seq(Keys)
  BY <1>1, ThreadIs, SeqOps, Zenon DEF Ready
<1>6. s \in Sock /\ s.data = sock[t].data
  BY <1>2, <1>5, ThreadIs, Zenon DEF Sock
<1>7. sock' = [sock EXCEPT ![t] = s]
  BY <1>2, <1>4
<1>8. sock \in [Threads -> Sock] /\ Sent
  BY Zenon DEF IoInv, Sent
<1>9. Sent' /\ sock'[t] = s /\ \A u \in Threads \ {t} : sock'[u] = sock[u]
  BY <1>1, <1>6, <1>7, <1>8, SockIs, Zenon
<1>10. Known' = Known
  BY <1>1, SameSets, Zenon
<1>11. pc \in (at[t].ev \cap {"data"}) \cup {"kvs", "msg"}
  BY <1>3, StageIs, Zenon
<1>12. pc \in Pcs /\ pc # "pop" /\ pc # "drained"
  BY <1>11 DEF Pcs
<1>13. at \in [Threads -> Place(Known)]
  BY Zenon DEF IoInv, Carried
<1>14. Moved(Known, t, pc)
  BY <1>4, <1>12, <1>13, GotoIs, Zenon
<1>15. Carried'
  BY <1>1, <1>10, <1>14, CarriedIs, Zenon DEF IoInv, Carried, Moved
<1>16. Ready(at'[t], sock'[t])
  BY <1>1, <1>6, <1>9, <1>11, <1>14, ThreadIs, Zenon DEF Ready, Moved
<1>17. Fronts'
  BY <1>1, <1>9, <1>12, <1>14, <1>16, FrontsMove, Zenon DEF Moved
<1>18. Stored'
  BY <1>1, StoredKept, Zenon DEF IoInv
<1> QED
  BY <1>1, <1>9, <1>15, <1>17, <1>18, Zenon DEF IoInv

LEMMA HandleResponseStep ==
  ASSUME IoInv, NEW t \in Threads, HandleResponse(t)
  PROVE  IoInv'
<1>1. /\ setup' = setup /\ cache' = cache
      /\ UNCHANGED <<msgs, resps>> /\ UNCHANGED <<fetching, adverts>>
      /\ UNCHANGED <<kvs, heard, dropped>> /\ at[t].pc = "data"
  BY Zenon DEF HandleResponse, world, ends, At
<1>2. PICK s : s = [sock[t] EXCEPT !.data = Tail(@)]
  BY Zenon
<1>3. PICK rs : rs = <<[type |-> "DataResp", key |-> Head(sock[t].data)]>>
  BY Zenon
<1>4. PICK pc : pc = Stage(t, at[t].ev, 4)
  BY Zenon
<1>5. sock' = [sock EXCEPT ![t].data = Tail(@)] /\ Hand(t, rs, pc)
  BY <1>3, <1>4, Zenon DEF HandleResponse
<1>6. sock[t].data # <<>> /\ Head(sock[t].data) \in Keys /\ Tail(sock[t].data) \in Seq(Keys)
  BY <1>1, ThreadIs, SeqOps, Zenon DEF Ready
<1>7. s \in Sock
  BY <1>2, <1>6, ThreadIs, Zenon DEF Sock
<1>8. sock' = [sock EXCEPT ![t] = s]
  BY <1>2, <1>5
<1>9. sock \in [Threads -> Sock] /\ Sent
  BY Zenon DEF IoInv, Sent
<1>10. Sent' /\ sock'[t] = s /\ \A u \in Threads \ {t} : sock'[u] = sock[u]
  BY <1>1, <1>7, <1>8, <1>9, SockIs, Zenon
<1>11. Known' = Known
  BY <1>1, SameSets, Zenon
<1>12. rs \in Seq(Known)
  <2>1. [type |-> "DataResp", key |-> Head(sock[t].data)] \in Known
    BY <1>6 DEF Known, Result, Types
  <2> QED
    BY <1>3, <2>1
<1>13. pc \in {"kvs", "msg"}
  BY <1>4, StageIs, Zenon
<1>14. pc \in Pcs /\ pc # "pop" /\ pc # "drained"
  BY <1>13 DEF Pcs
<1>15. at \in [Threads -> Place(Known)] /\ inbox \in Seq(Known)
  BY Zenon DEF IoInv, Carried
<1>16. inbox' \in Seq(Known) /\ Moved(Known, t, pc)
  BY <1>5, <1>12, <1>14, <1>15, HandIs, Zenon
<1>17. Carried'
  BY <1>1, <1>11, <1>16, CarriedIs, Zenon DEF IoInv, Carried, Moved
<1>18. Ready(at'[t], sock'[t])
  BY <1>13, <1>16 DEF Ready, Moved
<1>19. Fronts'
  BY <1>1, <1>10, <1>14, <1>16, <1>18, FrontsMove, Zenon DEF Moved
<1>20. Stored'
  BY <1>1, StoredKept, Zenon DEF IoInv
<1> QED
  BY <1>1, <1>10, <1>17, <1>19, <1>20, Zenon DEF IoInv

\* The base functions: a fetch whose argument has an address is sent, and
\* no call is given up.
LEMMA BaseIs ==
  ASSUME IoInv, setup' = setup, NEW k \in Fetchable, NEW t \in Threads, Base(k, t), heard' = heard
  PROVE  Stored' /\ fetching' \subseteq [key : Keys, to : Threads]
<1>1. NotCalls' = NotCalls /\ Hearings' = Hearings /\ Threads' = Threads
  BY Zenon DEF NotCalls, Hearings, Threads, Kind
<1>2. k \in Keys /\ (Kind(k) = "call" => k \in cache) /\ (Kind(k) # "call" => k \in NotCalls)
  BY Zenon DEF Fetchable, NotCalls
<1>3. /\ kvs \in [Threads -> SUBSET NotCalls] /\ heard \in [Threads -> Hearings]
      /\ dropped \subseteq NotCalls /\ fetching \subseteq [key : Keys, to : Threads]
  BY Zenon DEF IoInv, Stored, Sent
<1>4. CASE Kind(k) = "call"
  <2>1. fetching' = fetching \cup {[key |-> k, to |-> t]} /\ dropped' = dropped /\ kvs' = kvs
    BY <1>2, <1>4, Zenon DEF Base, SendDataReq, Addressed
  <2>2. Stored'
    BY <1>1, <1>3, <2>1, Zenon DEF Stored
  <2> QED
    BY <1>2, <1>3, <2>1, <2>2
<1>5. CASE Kind(k) # "call"
  <2>1. /\ kvs' = [kvs EXCEPT ![t] = @ \cup {k}]
        /\ fetching' = fetching /\ dropped' = dropped
    BY <1>5, Zenon DEF Base, AskKvs
  <2>2. kvs' \in [Threads -> SUBSET NotCalls]
    BY <1>2, <1>3, <1>5, <2>1
  <2>3. Stored'
    BY <1>1, <1>3, <2>1, <2>2, Zenon DEF Stored
  <2> QED
    BY <1>3, <2>1, <2>3, Zenon
<1> QED
  BY <1>4, <1>5, Zenon

LEMMA TakeMsgStep ==
  ASSUME IoInv, NEW t \in Others, TakeMsg(t)
  PROVE  IoInv'
<1>1. /\ setup' = setup /\ cache' = cache /\ heard' = heard
      /\ UNCHANGED <<msgs, resps, inbox>> /\ UNCHANGED <<sock, adverts>>
      /\ msgs[t] # <<>> /\ Base(Head(msgs[t]), t) /\ Goto(t, "pop")
  BY Zenon DEF TakeMsg, queues
<1>2. t \in Threads /\ t # 0
  BY ThreadsAre, Zenon DEF IoInv
<1>3. msgs \in [Others -> Seq(Fetchable)] /\ at \in [Threads -> Place(Known)]
  BY Zenon DEF IoInv, Carried
<1>4. Head(msgs[t]) \in Fetchable
  BY <1>1, <1>3, SeqOps, Zenon
<1>5. Stored' /\ fetching' \subseteq [key : Keys, to : Threads]
  BY <1>1, <1>2, <1>4, BaseIs, Zenon
<1>6. Known' = Known /\ Threads' = Threads
  BY <1>1, SameSets, Zenon
<1>7. Moved(Known, t, "pop")
  BY <1>1, <1>2, <1>3, GotoIs DEF Pcs
<1>8. Carried'
  BY <1>1, <1>6, <1>7, CarriedIs, Zenon DEF IoInv, Carried, Moved
<1>9. Ready(at'[t], sock'[t])
  BY <1>7 DEF Ready, Moved
<1>10. Fronts'
  BY <1>1, <1>2, <1>7, <1>9, FrontsMove, Zenon DEF Moved
<1>11. Sent'
  BY <1>1, <1>5, <1>6, Zenon DEF IoInv, Sent
<1> QED
  BY <1>1, <1>5, <1>8, <1>10, <1>11, Zenon DEF IoInv

LEMMA PopMsgStep ==
  ASSUME IoInv, NEW t \in Others, PopMsg(t)
  PROVE  IoInv'
<1>1. /\ setup' = setup /\ cache' = cache
      /\ UNCHANGED <<resps, inbox>> /\ UNCHANGED <<sock, fetching, adverts>>
      /\ UNCHANGED <<kvs, heard, dropped>> /\ at[t].pc = "pop"
      /\ msgs' = [msgs EXCEPT ![t] = Tail(@)]
      /\ at' = [at EXCEPT ![t].pc = "msg", ![t].n = @ + 1]
  BY Zenon DEF PopMsg, world, ends, At
<1>2. t \in Threads /\ t # 0
  BY ThreadsAre, Zenon DEF IoInv
<1>3. msgs \in [Others -> Seq(Fetchable)] /\ at \in [Threads -> Place(Known)]
  BY Zenon DEF IoInv, Carried
<1>4. msgs[t] # <<>>
  BY <1>1, Zenon DEF IoInv, Fronts
<1>5. Tail(msgs[t]) \in Seq(Fetchable)
  BY <1>3, <1>4, SeqOps, Zenon
<1>6. msgs' \in [Others -> Seq(Fetchable)] /\ \A u \in Others \ {t} : msgs'[u] = msgs[u]
  BY <1>1, <1>3, <1>5
<1>7. PICK p : p = [at[t] EXCEPT !.pc = "msg", !.n = @ + 1]
  BY Zenon
<1>8. p \in Place(Known) /\ p.pc = "msg"
  <2>1. at[t] \in Place(Known)
    BY <1>2, ThreadIs, Zenon
  <2>2. PICK m : m = at[t].n + 1 /\ m \in Nat
    BY <1>2, ThreadIs
  <2>3. p = [at[t] EXCEPT !.pc = "msg", !.n = m]
    BY <1>7, <2>2, Zenon
  <2> QED
    BY <2>1, <2>2, <2>3, Zenon DEF Place, Pcs
<1>9. at' = [at EXCEPT ![t] = p]
  BY <1>1, <1>2, <1>3, <1>7, ThreadIs, Zenon DEF Place
<1>10. at' \in [Threads -> Place(Known)] /\ at'[t] = p /\ \A u \in Threads \ {t} : at'[u] = at[u]
  BY <1>2, <1>3, <1>8, <1>9
<1>11. Known' = Known
  BY <1>1, SameSets, Zenon
<1>12. Carried'
  BY <1>1, <1>6, <1>10, <1>11, CarriedIs, Zenon DEF IoInv, Carried
<1>13. Ready(at'[t], sock'[t])
  BY <1>8, <1>10 DEF Ready
<1>14. at'[t].pc # "pop"
  BY <1>8, <1>10
<1>15. Fronts'
  BY <1>1, <1>2, <1>6, <1>10, <1>13, <1>14, FrontsMove, Zenon
<1>16. Sent' /\ Stored'
  BY <1>1, SentKept, StoredKept, Zenon DEF IoInv
<1> QED
  BY <1>1, <1>12, <1>15, <1>16, Zenon DEF IoInv

\* A thread that only goes to a place where it reads no socket and no queue.
LEMMA GotoStep ==
  ASSUME IoInv, NEW t \in Threads, NEW pc \in {"kvs", "exec", "poll"}, Goto(t, pc),
         setup' = setup, cache' = cache, UNCHANGED <<resps, inbox>>, UNCHANGED sock,
         msgs' \in [Others -> Seq(Fetchable)],
         \A u \in Others : msgs'[u] = msgs[u] \/ msgs'[u] # <<>>,
         fetching' \subseteq [key : Keys, to : Threads], \A a \in adverts' : a.key \in Keys,
         Stored'
  PROVE  IoInv'
<1>2. at \in [Threads -> Place(Known)]
  BY Zenon DEF IoInv, Carried
<1>3. pc \in Pcs
  BY DEF Pcs
<1>4. Moved(Known, t, pc)
  BY <1>2, <1>3, GotoIs, Zenon
<1>5. Known' = Known /\ Threads' = Threads
  BY SameSets, Zenon
<1>6. Carried'
  BY <1>4, <1>5, CarriedIs, Zenon DEF IoInv, Carried, Moved
<1>7. Ready(at'[t], sock'[t])
  BY <1>4 DEF Ready, Moved
<1>8. at'[t].pc # "pop" /\ at'[t].pc # "drained"
  BY <1>4 DEF Moved
<1>9. Fronts'
  BY <1>4, <1>7, <1>8, FrontsMove, Zenon DEF Moved
<1>10. Sent'
  BY <1>5, Zenon DEF IoInv, Sent
<1> QED
  BY <1>6, <1>9, <1>10, Zenon DEF IoInv

LEMMA PushStep ==
  ASSUME IoInv, NEW t \in Others, Push(t)
  PROVE  IoInv'
<1>1. /\ setup' = setup /\ cache' = cache
      /\ UNCHANGED <<msgs, inbox>> /\ UNCHANGED <<sock, fetching, adverts>>
      /\ UNCHANGED <<kvs, heard, dropped>> /\ at[t].hand # <<>>
      /\ resps' = [resps EXCEPT ![t] = Append(@, Head(at[t].hand))]
      /\ at' = [at EXCEPT ![t].hand = Tail(@)]
  BY Zenon DEF Push, world, ends
<1>2. t \in Threads /\ t # 0
  BY ThreadsAre, Zenon DEF IoInv
<1>3. resps \in [Others -> Seq(Known)] /\ at \in [Threads -> Place(Known)]
  BY Zenon DEF IoInv, Carried
<1>4. Head(at[t].hand) \in Known /\ Tail(at[t].hand) \in Seq(Known)
  BY <1>1, <1>2, ThreadIs, SeqOps, Zenon
<1>5. PICK q : q = Append(resps[t], Head(at[t].hand))
  BY Zenon
<1>6. q \in Seq(Known) /\ q # <<>>
  BY <1>3, <1>4, <1>5, SeqOps, Zenon
<1>7. resps' = [resps EXCEPT ![t] = q]
  BY <1>1, <1>5, Zenon
<1>8. resps' \in [Others -> Seq(Known)] /\ \A u \in Others : resps'[u] = resps[u] \/ resps'[u] # <<>>
  BY <1>3, <1>6, <1>7
<1>9. PICK p : p = [at[t] EXCEPT !.hand = Tail(@)]
  BY Zenon
<1>10. p \in Place(Known) /\ p.pc = at[t].pc /\ p.ev = at[t].ev
  BY <1>2, <1>4, <1>9, ThreadIs, Zenon DEF Place
<1>11. at' = [at EXCEPT ![t] = p]
  BY <1>1, <1>9
<1>12. at' \in [Threads -> Place(Known)] /\ at'[t] = p /\ \A u \in Threads \ {t} : at'[u] = at[u]
  BY <1>2, <1>3, <1>10, <1>11
<1>13. Known' = Known
  BY <1>1, SameSets, Zenon
<1>14. Carried'
  BY <1>1, <1>8, <1>12, <1>13, CarriedIs, Zenon DEF IoInv, Carried
<1>15. Ready(at'[t], sock'[t])
  BY <1>1, <1>2, <1>10, <1>12, ThreadIs DEF Ready
<1>16. at'[t].pc = "pop" => msgs'[t] # <<>>
  BY <1>1, <1>10, <1>12, Zenon DEF IoInv, Fronts
<1>17. Fronts'
  BY <1>1, <1>2, <1>8, <1>12, <1>15, <1>16, FrontsMove, Zenon
<1>18. Sent' /\ Stored'
  BY <1>1, SentKept, StoredKept, Zenon DEF IoInv
<1> QED
  BY <1>1, <1>14, <1>17, <1>18, Zenon DEF IoInv

LEMMA DrainFrontStep ==
  ASSUME IoInv, DrainFront
  PROVE  IoInv'
<1>1. /\ setup' = setup /\ cache' = cache
      /\ UNCHANGED <<msgs, resps>> /\ UNCHANGED <<sock, fetching, adverts>>
      /\ UNCHANGED <<kvs, heard, dropped>>
      /\ at[0].n + 1 < setup.count /\ resps[at[0].n + 1] # <<>>
      /\ inbox' = Append(inbox, Head(resps[at[0].n + 1])) /\ Goto(0, "drained")
  BY Zenon DEF DrainFront, world, ends
<1>2. 0 \in Threads /\ setup \in Setups
  BY ThreadsAre, Zenon DEF IoInv
<1>3. at[0].n + 1 \in Others
  <2>1. at[0].n \in Nat
    BY <1>2, ThreadIs, Zenon
  <2>2. setup.count \in Nat
    BY <1>2, IoAssumption
  <2> QED
    BY <1>1, <2>1, <2>2 DEF Others
<1>4. /\ at \in [Threads -> Place(Known)] /\ inbox \in Seq(Known)
      /\ resps \in [Others -> Seq(Known)]
  BY Zenon DEF IoInv, Carried
<1>5. Head(resps[at[0].n + 1]) \in Known
  BY <1>1, <1>3, <1>4, SeqOps, Zenon
<1>6. inbox' \in Seq(Known)
  BY <1>1, <1>4, <1>5, SeqOps, Zenon
<1>7. Moved(Known, 0, "drained")
  BY <1>1, <1>2, <1>4, GotoIs DEF Pcs
<1>8. Known' = Known
  BY <1>1, SameSets, Zenon
<1>9. Carried'
  BY <1>1, <1>6, <1>7, <1>8, CarriedIs, Zenon DEF IoInv, Carried, Moved
<1>10. Ready(at'[0], sock'[0])
  BY <1>7 DEF Ready, Moved
<1>11. at'[0].pc # "pop" /\ at'[0].n = at[0].n
  BY <1>7 DEF Moved
<1>12. Fronts'
  BY <1>1, <1>2, <1>3, <1>7, <1>10, <1>11, FrontsMove, Zenon DEF Moved
<1>13. Sent' /\ Stored'
  BY <1>1, SentKept, StoredKept, Zenon DEF IoInv
<1> QED
  BY <1>1, <1>9, <1>12, <1>13, Zenon DEF IoInv

LEMMA EndBatchStep ==
  ASSUME IoInv, NEW t \in Others, EndBatch(t)
  PROVE  IoInv'
<1>1. /\ setup' = setup /\ cache' = cache /\ UNCHANGED <<resps, inbox>> /\ UNCHANGED sock
      /\ UNCHANGED <<msgs, fetching, adverts>> /\ UNCHANGED <<kvs, heard, dropped>>
      /\ Goto(t, "kvs")
  BY Zenon DEF EndBatch, queues, world, ends
<1>2. Stored' /\ t \in Threads
  BY <1>1, StoredKept, ThreadsAre, Zenon DEF IoInv
<1> QED
  BY <1>1, <1>2, GotoStep, Zenon DEF IoInv, Carried, Sent

LEMMA DrainPopStep ==
  ASSUME IoInv, DrainPop
  PROVE  IoInv'
<1>1. /\ setup' = setup /\ cache' = cache
      /\ UNCHANGED <<msgs, inbox>> /\ UNCHANGED <<sock, fetching, adverts>>
      /\ UNCHANGED <<kvs, heard, dropped>> /\ at[0].pc = "drained"
      /\ resps' = [resps EXCEPT ![at[0].n + 1] = Tail(@)] /\ Goto(0, "drain")
  BY Zenon DEF DrainPop, world, ends, At
<1>2. 0 \in Threads
  BY ThreadsAre, Zenon DEF IoInv
<1>3. PICK q : q = at[0].n + 1
  BY Zenon
<1>4. q \in Others /\ resps[q] # <<>>
  BY <1>1, <1>3, Zenon DEF IoInv, Fronts
<1>5. at \in [Threads -> Place(Known)] /\ resps \in [Others -> Seq(Known)]
  BY Zenon DEF IoInv, Carried
<1>6. Tail(resps[q]) \in Seq(Known)
  BY <1>4, <1>5, SeqOps, Zenon
<1>7. resps' \in [Others -> Seq(Known)]
  BY <1>1, <1>3, <1>5, <1>6, Zenon
<1>8. Moved(Known, 0, "drain")
  BY <1>1, <1>2, <1>5, GotoIs DEF Pcs
<1>9. Known' = Known
  BY <1>1, SameSets, Zenon
<1>10. Carried'
  BY <1>1, <1>7, <1>8, <1>9, CarriedIs, Zenon DEF IoInv, Carried, Moved
<1>11. Ready(at'[0], sock'[0]) /\ at'[0].pc # "pop" /\ at'[0].pc # "drained"
  BY <1>8 DEF Ready, Moved
<1>12. Fronts'
  BY <1>1, <1>2, <1>8, <1>11, FrontsMove, Zenon DEF Moved
<1>13. Sent' /\ Stored'
  BY <1>1, SentKept, StoredKept, Zenon DEF IoInv
<1> QED
  BY <1>1, <1>10, <1>12, <1>13, Zenon DEF IoInv

LEMMA DrainNextStep ==
  ASSUME IoInv, DrainNext
  PROVE  IoInv'
<1>1. /\ setup' = setup /\ cache' = cache
      /\ UNCHANGED <<msgs, resps, inbox>> /\ UNCHANGED <<sock, fetching, adverts>>
      /\ UNCHANGED <<kvs, heard, dropped>> /\ at[0].pc = "drain"
      /\ at' = [at EXCEPT ![0].n = @ + 1]
  BY Zenon DEF DrainNext, queues, world, ends, At
<1>2. 0 \in Threads
  BY ThreadsAre, Zenon DEF IoInv
<1>3. at \in [Threads -> Place(Known)]
  BY Zenon DEF IoInv, Carried
<1>4. PICK m : m = at[0].n + 1 /\ m \in Nat
  BY <1>2, ThreadIs
<1>5. PICK p : p = [at[0] EXCEPT !.n = m]
  BY Zenon
<1>6. p \in Place(Known) /\ p.pc = "drain"
  <2>1. at[0] \in Place(Known)
    BY <1>2, ThreadIs, Zenon
  <2> QED
    BY <1>1, <1>4, <1>5, <2>1 DEF Place
<1>7. at' = [at EXCEPT ![0] = p]
  BY <1>1, <1>4, <1>5
<1>8. at' \in [Threads -> Place(Known)] /\ at'[0] = p /\ \A u \in Threads \ {0} : at'[u] = at[u]
  BY <1>2, <1>3, <1>6, <1>7
<1>9. Known' = Known
  BY <1>1, SameSets, Zenon
<1>10. Carried'
  BY <1>1, <1>8, <1>9, CarriedIs, Zenon DEF IoInv, Carried
<1>11. Ready(at'[0], sock'[0]) /\ at'[0].pc # "pop" /\ at'[0].pc # "drained"
  BY <1>6, <1>8 DEF Ready
<1>12. Fronts'
  BY <1>1, <1>2, <1>8, <1>11, FrontsMove, Zenon
<1>13. Sent' /\ Stored'
  BY <1>1, SentKept, StoredKept, Zenon DEF IoInv
<1> QED
  BY <1>1, <1>10, <1>12, <1>13, Zenon DEF IoInv

\* Work goes to thread 0 itself or to the queue of another thread.
LEMMA AssignIs ==
  ASSUME IoInv, setup' = setup, NEW k \in Fetchable, Assign(k), heard' = heard
  PROVE  /\ Stored' /\ fetching' \subseteq [key : Keys, to : Threads]
         /\ msgs' \in [Others -> Seq(Fetchable)]
         /\ \A u \in Others : msgs'[u] = msgs[u] \/ msgs'[u] # <<>>
<1>1. /\ 0 \in Threads /\ msgs \in [Others -> Seq(Fetchable)]
      /\ Stored /\ fetching \subseteq [key : Keys, to : Threads]
  BY ThreadsAre, Zenon DEF IoInv, Carried, Sent
<1>2. CASE Base(k, 0) /\ msgs' = msgs
  BY <1>1, <1>2, BaseIs, Zenon
<1>3. ASSUME NEW d, msgs' = [msgs EXCEPT ![d] = Append(@, k)], UNCHANGED <<fetching, kvs, dropped>>
      PROVE  /\ Stored' /\ fetching' \subseteq [key : Keys, to : Threads]
             /\ msgs' \in [Others -> Seq(Fetchable)]
             /\ \A u \in Others : msgs'[u] = msgs[u] \/ msgs'[u] # <<>>
  <2>1. \A u \in Others : Append(msgs[u], k) \in Seq(Fetchable) /\ Append(msgs[u], k) # <<>>
    BY <1>1, SeqOps, Zenon
  <2>2. /\ msgs' \in [Others -> Seq(Fetchable)]
        /\ \A u \in Others : msgs'[u] = msgs[u] \/ msgs'[u] # <<>>
    BY <1>1, <1>3, <2>1, Zenon
  <2> QED
    BY <1>1, <1>3, <2>2, StoredKept, Zenon
<1> QED
  BY <1>2, <1>3, Zenon DEF Assign

LEMMA HandleOneStep ==
  ASSUME IoInv, HandleOne
  PROVE  IoInv'
<1>1. /\ setup' = setup /\ cache' = cache /\ UNCHANGED <<resps, at>>
      /\ UNCHANGED <<sock, adverts>> /\ heard' = heard
      /\ at[0].pc = "drain" /\ inbox # <<>> /\ inbox' = Tail(inbox)
  BY Zenon DEF HandleOne, At
<1>2. 0 \in Threads
  BY ThreadsAre, Zenon DEF IoInv
<1>3. /\ inbox \in Seq(Known) /\ at \in [Threads -> Place(Known)] /\ resps \in [Others -> Seq(Known)]
      /\ msgs \in [Others -> Seq(Fetchable)]
  BY Zenon DEF IoInv, Carried
<1>4. Head(inbox) \in Known /\ inbox' \in Seq(Known)
  BY <1>1, <1>3, SeqOps, Zenon
<1>5. /\ Stored' /\ fetching' \subseteq [key : Keys, to : Threads]
      /\ msgs' \in [Others -> Seq(Fetchable)]
      /\ \A u \in Others : msgs'[u] = msgs[u] \/ msgs'[u] # <<>>
  <2>1. CASE Head(inbox).type = "Call"
    <3>1. Head(inbox).key \in Fetchable
      BY <1>4, <2>1 DEF Known, Result, Fetchable
    <3>2. Assign(Head(inbox).key)
      BY <2>1, Zenon DEF HandleOne
    <3> QED
      BY <1>1, <3>1, <3>2, AssignIs, Zenon
  <2>2. CASE Head(inbox).type # "Call"
    <3>1. UNCHANGED <<msgs, fetching, kvs, dropped>>
      BY <2>2, Zenon DEF HandleOne
    <3> QED
      BY <1>1, <1>3, <3>1, StoredKept, Zenon DEF IoInv, Sent
  <2> QED
    BY <2>1, <2>2, Zenon
<1>6. Known' = Known /\ Threads' = Threads
  BY <1>1, SameSets, Zenon
<1>7. Carried'
  BY <1>1, <1>3, <1>4, <1>5, <1>6, CarriedIs, Zenon
<1>8. Ready(at'[0], sock'[0]) /\ at'[0].pc # "pop" /\ at'[0].pc # "drained"
  BY <1>1 DEF Ready
<1>9. Fronts'
  BY <1>1, <1>2, <1>5, <1>8, FrontsMove, Zenon
<1>10. Sent'
  BY <1>1, <1>5, <1>6, Zenon DEF IoInv, Sent
<1> QED
  BY <1>1, <1>5, <1>7, <1>9, <1>10, Zenon DEF IoInv

\* HandledAll and ExecNothing
LEMMA IdleStep ==
  ASSUME IoInv, HandledAll \/ ExecNothing
  PROVE  IoInv'
<1>1. PICK pc \in {"exec", "poll"} : Goto(0, pc)
  BY Zenon DEF HandledAll, ExecNothing
<1>2. /\ setup' = setup /\ cache' = cache /\ UNCHANGED <<resps, inbox>> /\ UNCHANGED sock
      /\ UNCHANGED <<msgs, fetching, adverts>> /\ UNCHANGED <<kvs, heard, dropped>>
  BY Zenon DEF HandledAll, ExecNothing, queues, world, ends
<1>3. Stored' /\ 0 \in Threads /\ pc \in {"kvs", "exec", "poll"}
  BY <1>2, StoredKept, ThreadsAre, Zenon DEF IoInv
<1> QED
  BY <1>1, <1>2, <1>3, GotoStep, Zenon DEF IoInv, Carried, Sent

LEMMA ExecGetStep ==
  ASSUME IoInv, NEW k \in Keys, ExecGet(k)
  PROVE  IoInv'
<1>1. /\ setup' = setup /\ cache' = cache /\ UNCHANGED <<resps, inbox>> /\ UNCHANGED sock
      /\ heard' = heard /\ adverts' = adverts
      /\ Assign(k) /\ Goto(0, "poll") /\ Kind(k) \in {"get", "put"}
  BY Zenon DEF ExecGet
<1>2. k \in Fetchable
  BY <1>1 DEF Fetchable
<1>3. /\ Stored' /\ fetching' \subseteq [key : Keys, to : Threads]
      /\ msgs' \in [Others -> Seq(Fetchable)]
      /\ \A u \in Others : msgs'[u] = msgs[u] \/ msgs'[u] # <<>>
  BY <1>1, <1>2, AssignIs, Zenon
<1>4. 0 \in Threads /\ \A a \in adverts' : a.key \in Keys
  BY <1>1, ThreadsAre, Zenon DEF IoInv, Sent
<1> QED
  BY <1>1, <1>3, <1>4, GotoStep, Zenon

LEMMA ExecObjectStep ==
  ASSUME IoInv, NEW k \in Keys, ExecObject(k)
  PROVE  IoInv'
<1>1. /\ setup' = setup /\ cache' = cache /\ UNCHANGED <<resps, inbox>> /\ UNCHANGED sock
      /\ UNCHANGED <<msgs, fetching>> /\ UNCHANGED <<kvs, heard, dropped>>
      /\ Goto(0, "poll")
  BY Zenon DEF ExecObject, queues, ends
<1>2. adverts' = adverts \cup {[key |-> k, to |-> turn']}
  BY Zenon DEF ExecObject, Advertise
<1>3. \A a \in adverts' : a.key \in Keys
  BY <1>2 DEF IoInv, Sent
<1>4. Stored' /\ 0 \in Threads
  BY <1>1, StoredKept, ThreadsAre, Zenon DEF IoInv
<1> QED
  BY <1>1, <1>3, <1>4, GotoStep, Zenon DEF IoInv, Carried, Sent

\* A message comes to a socket of thread t; s is then what waits there.
LEMMA ArrivesStep ==
  ASSUME IoInv, NEW t \in Threads, NEW s \in Sock, Ready(at[t], s),
         sock' = [sock EXCEPT ![t] = s], setup' = setup, cache' = cache,
         UNCHANGED <<queues, at>>, UNCHANGED <<kvs, heard, dropped>>,
         fetching' \subseteq fetching, adverts' \subseteq adverts
  PROVE  IoInv'
<1>1. UNCHANGED <<msgs, resps, inbox>>
  BY Zenon DEF queues
<1>2. Known' = Known /\ Threads' = Threads
  BY SameSets, Zenon
<1>3. sock \in [Threads -> Sock]
  BY Zenon DEF IoInv, Sent
<1>4. sock' \in [Threads -> Sock] /\ sock'[t] = s /\ \A u \in Threads \ {t} : sock'[u] = sock[u]
  BY <1>3
<1>5. Carried'
  BY <1>1, <1>2, CarriedIs, Zenon DEF IoInv, Carried
<1>6. Sent'
  BY <1>2, <1>4, Zenon DEF IoInv, Sent
<1>7. Stored'
  BY StoredKept, Zenon DEF IoInv
<1>8. Fronts'
  BY <1>1, <1>4, FrontsMove, Zenon DEF IoInv, Fronts
<1> QED
  BY <1>5, <1>6, <1>7, <1>8, Zenon DEF IoInv

LEMMA CallArrivesStep ==
  ASSUME IoInv, NEW k \in Keys, NEW t \in Threads, CallArrives(k, t)
  PROVE  IoInv'
<1>1. /\ setup' = setup /\ cache' = cache /\ UNCHANGED <<queues, at>>
      /\ UNCHANGED <<kvs, heard, dropped>> /\ UNCHANGED <<fetching, adverts>>
      /\ sock' = [sock EXCEPT ![t].call = Append(@, k)]
  BY Zenon DEF CallArrives, ends
<1>2. PICK q : q = Append(sock[t].call, k) /\ q \in Seq(Keys) /\ q # <<>>
  BY ThreadIs, SeqOps, Zenon
<1>3. PICK s : s = [sock[t] EXCEPT !.call = q]
  BY Zenon
<1>4. s \in Sock /\ s.call = q /\ s.serve = sock[t].serve /\ s.data = sock[t].data
  BY <1>2, <1>3, ThreadIs, Zenon DEF Sock
<1>5. Ready(at[t], s)
  BY <1>2, <1>4, ThreadIs, Zenon DEF Ready
<1>6. sock' = [sock EXCEPT ![t] = s]
  BY <1>1, <1>2, <1>3
<1> QED
  BY <1>1, <1>4, <1>5, <1>6, ArrivesStep, Zenon

LEMMA PeerAnswersStep ==
  ASSUME IoInv, NEW f \in fetching, PeerAnswers(f)
  PROVE  IoInv'
<1>1. /\ setup' = setup /\ cache' = cache /\ UNCHANGED <<queues, at>>
      /\ UNCHANGED <<kvs, heard, dropped>> /\ fetching' = fetching \ {f} /\ adverts' = adverts
      /\ sock' = [sock EXCEPT ![f.to].data = Append(@, f.key)]
  BY Zenon DEF PeerAnswers, ends
<1>2. PICK t \in Threads : t = f.to /\ f.key \in Keys
  BY DEF IoInv, Sent
<1>3. PICK q : q = Append(sock[t].data, f.key) /\ q \in Seq(Keys) /\ q # <<>>
  BY <1>2, ThreadIs, SeqOps, Zenon
<1>4. PICK s : s = [sock[t] EXCEPT !.data = q]
  BY Zenon
<1>5. s \in Sock /\ s.data = q /\ s.serve = sock[t].serve /\ s.call = sock[t].call
  BY <1>3, <1>4, ThreadIs, ZenonT(40) DEF Sock
<1>6. Ready(at[t], s)
  BY <1>3, <1>5, ThreadIs, SMTT(30) DEF Ready
<1>7. sock' = [sock EXCEPT ![t] = s]
  BY <1>1, <1>2, <1>3, <1>4
<1> QED
  BY <1>1, <1>5, <1>6, <1>7, ArrivesStep, Zenon

LEMMA PeerAsksStep ==
  ASSUME IoInv, NEW a \in adverts, PeerAsks(a)
  PROVE  IoInv'
<1>1. /\ setup' = setup /\ cache' = cache /\ UNCHANGED <<queues, at>>
      /\ UNCHANGED <<kvs, heard, dropped>> /\ adverts' = adverts \ {a} /\ fetching' = fetching
      /\ sock' = [sock EXCEPT ![a.to].serve = Append(@, a.key)] /\ a.to \in Threads
  BY Zenon DEF PeerAsks, ends
<1>2. PICK t \in Threads : t = a.to /\ a.key \in Keys
  BY <1>1, Zenon DEF IoInv, Sent
<1>3. PICK q : q = Append(sock[t].serve, a.key) /\ q \in Seq(Keys) /\ q # <<>>
  BY <1>2, ThreadIs, SeqOps, Zenon
<1>4. PICK s : s = [sock[t] EXCEPT !.serve = q]
  BY Zenon
<1>5. s \in Sock /\ s.serve = q /\ s.data = sock[t].data /\ s.call = sock[t].call
  BY <1>3, <1>4, ThreadIs, Zenon DEF Sock
<1>6. Ready(at[t], s)
  BY <1>3, <1>5, ThreadIs DEF Ready
<1>7. sock' = [sock EXCEPT ![t] = s]
  BY <1>1, <1>2, <1>3, <1>4
<1> QED
  BY <1>1, <1>5, <1>6, <1>7, ArrivesStep, Zenon

-----------------------------------------------------------------------------
(* What a KVS client received, a finite set.                               *)

INSTANCE FiniteSetTheorems

\* A finite set of results is listed by a sequence of them.
LEMMA Listed ==
  ASSUME NEW T, NEW S \in SUBSET T, IsFiniteSet(S)
  PROVE  Listing(S) \in Seq(T)
<1>1. PICK n : n = Cardinality(S) /\ n \in Nat
  BY FS_CardinalityType, Zenon
<1>2. ExistsBijection(1..n, S)
  BY <1>1, FS_CardinalityType, Zenon
<1>3. \E f \in [1..n -> S] : IsInjective(f)
  BY <1>2, Zenon DEF ExistsBijection, Bijection, Injection
<1>4. Listing(S) \in [1..n -> S]
  BY <1>1, <1>3, Zenon DEF Listing
<1> QED
  BY <1>1, <1>4

\* The image of a finite set, as the function f gives it.
LEMMA FiniteImage ==
  ASSUME NEW S, IsFiniteSet(S), NEW T, NEW f \in [S -> T]
  PROVE  IsFiniteSet({f[x] : x \in S})
<1>1. PICK I : I = {f[x] : x \in S}
  BY Zenon
<1>2. f \in [S -> I] /\ \A y \in I : \E x \in S : f[x] = y
  BY <1>1
<1>3. f \in Surjection(S, I)
  BY <1>2, Zenon DEF Surjection
<1>4. IsFiniteSet(I)
  BY <1>3, FS_Surjection
<1> QED
  BY <1>1, <1>4, Zenon

LEMMA GetKvsResponsesStep ==
  ASSUME IoInv, NEW t \in Threads, GetKvsResponses(t)
  PROVE  IoInv'
<1>1. /\ setup' = setup /\ cache' = cache
      /\ UNCHANGED <<msgs, resps>> /\ UNCHANGED <<sock, fetching, adverts>>
  BY Zenon DEF GetKvsResponses
<1>2. PICK good, again : /\ good = {h \in heard[t] : Reported(h)}
                         /\ again = {h \in heard[t] : Retried(h)}
  BY Zenon
<1>3. PICK rs, pc : /\ rs = Listing({KvsResult(h) : h \in good})
                    /\ pc = IF t = 0 THEN "drain" ELSE "poll"
  BY Zenon
<1>4. /\ Hand(t, rs, pc)
      /\ kvs' = [kvs EXCEPT ![t] = @ \cup {h.key : h \in again}]
      /\ dropped' = dropped \cup {h.key : h \in heard[t] \ (good \cup again)}
      /\ heard' = [heard EXCEPT ![t] = {}]
  BY <1>2, <1>3, Zenon DEF GetKvsResponses
<1>5. /\ kvs \in [Threads -> SUBSET NotCalls] /\ heard \in [Threads -> Hearings]
      /\ dropped \subseteq NotCalls
  BY Zenon DEF IoInv, Stored
<1>6. heard[t] \subseteq [key : NotCalls, out : Outcomes] /\ IsFiniteSet(heard[t])
  BY <1>5 DEF Hearings
<1>7. \A h \in heard[t] : h.key \in NotCalls /\ h.key \in Keys
  BY <1>6 DEF NotCalls
<1>8. good \subseteq heard[t] /\ again \subseteq heard[t]
  BY <1>2, Zenon
<1>9. rs \in Seq(Known)
  <2>1. \A h \in heard[t] : KvsResult(h) \in Known
    <3> TAKE h \in heard[t]
    <3>1. h.key \in Keys
      BY <1>7, Zenon
    <3> QED
      BY <3>1 DEF KvsResult, Known, Result, Types
  <2>2. IsFiniteSet(good)
    BY <1>6, <1>8, FS_Subset, Zenon
  <2>3. PICK f : f = [h \in good |-> KvsResult(h)]
    BY Zenon
  <2>4. f \in [good -> Known]
    BY <1>8, <2>1, <2>3
  <2>5. {KvsResult(h) : h \in good} = {f[h] : h \in good}
    BY <2>3
  <2>6. IsFiniteSet({f[h] : h \in good})
    BY <2>2, <2>4, FiniteImage, Zenon
  <2>7. {f[h] : h \in good} \subseteq Known
    BY <2>4
  <2> QED
    BY <1>3, <2>5, <2>6, <2>7, Listed, ZenonT(40)
<1>10. pc \in Pcs /\ pc # "pop" /\ pc # "drained"
  BY <1>3 DEF Pcs
<1>11. at \in [Threads -> Place(Known)] /\ inbox \in Seq(Known)
  BY Zenon DEF IoInv, Carried
<1>12. inbox' \in Seq(Known) /\ Moved(Known, t, pc)
  BY <1>4, <1>9, <1>10, <1>11, HandIs, Zenon
<1>13. /\ Known' = Known /\ Threads' = Threads /\ NotCalls' = NotCalls /\ Hearings' = Hearings
  BY <1>1, SameSets, Zenon
<1>14. Carried'
  BY <1>1, <1>12, <1>13, CarriedIs, Zenon DEF IoInv, Carried, Moved
<1>15. Stored'
  <2>1. {h.key : h \in again} \subseteq NotCalls /\ {h.key : h \in heard[t] \ (good \cup again)} \subseteq NotCalls
    BY <1>7, <1>8, Zenon
  <2>2. kvs' \in [Threads -> SUBSET NotCalls]
    BY <1>4, <1>5, <2>1, SMTT(30)
  <2>3. {} \in Hearings
    BY FS_EmptySet, SMTT(30) DEF Hearings
  <2>4. heard' \in [Threads -> Hearings]
    BY <1>4, <1>5, <2>3
  <2>5. dropped' \subseteq NotCalls
    BY <1>4, <1>5, <2>1, Zenon
  <2> QED
    BY <1>13, <2>2, <2>4, <2>5, Zenon DEF Stored
<1>16. Ready(at'[t], sock'[t])
  BY <1>3, <1>12 DEF Ready, Moved
<1>17. Fronts'
  BY <1>1, <1>10, <1>12, <1>16, FrontsMove, Zenon DEF Moved
<1>18. Sent'
  BY <1>1, SentKept, Zenon DEF IoInv
<1> QED
  BY <1>1, <1>14, <1>15, <1>17, <1>18, Zenon DEF IoInv

LEMMA KvsAnswersStep ==
  ASSUME IoInv, NEW t \in Threads, NEW k \in Keys, NEW out \in Outcomes, KvsAnswers(t, k, out)
  PROVE  IoInv'
<1>1. /\ setup' = setup /\ cache' = cache /\ UNCHANGED <<msgs, resps, inbox>> /\ at' = at
      /\ UNCHANGED <<sock, fetching, adverts>> /\ dropped' = dropped /\ k \in kvs[t]
      /\ kvs' = [kvs EXCEPT ![t] = @ \ {k}]
      /\ heard' = [heard EXCEPT ![t] = @ \cup {[key |-> k, out |-> out]}]
  BY Zenon DEF KvsAnswers, queues, ends
<1>2. /\ kvs \in [Threads -> SUBSET NotCalls] /\ heard \in [Threads -> Hearings]
      /\ dropped \subseteq NotCalls
  BY Zenon DEF IoInv, Stored
<1>3. /\ Known' = Known /\ Threads' = Threads /\ NotCalls' = NotCalls /\ Hearings' = Hearings
  BY <1>1, SameSets, Zenon
<1>4. kvs' \in [Threads -> SUBSET NotCalls]
  BY <1>1, <1>2
<1>5. PICK h : h = [key |-> k, out |-> out]
  BY Zenon
<1>6. h \in [key : NotCalls, out : Outcomes]
  BY <1>1, <1>2, <1>5, SMTT(30)
<1>7. heard[t] \subseteq [key : NotCalls, out : Outcomes] /\ IsFiniteSet(heard[t])
  BY <1>2 DEF Hearings
<1>8. IsFiniteSet(heard[t] \cup {h})
  BY <1>7, FS_AddElement, Zenon
<1>9. heard[t] \cup {h} \in Hearings
  BY <1>6, <1>7, <1>8, Zenon DEF Hearings
<1>10. heard' \in [Threads -> Hearings]
  BY <1>1, <1>2, <1>5, <1>9
<1>11. Stored'
  BY <1>1, <1>2, <1>3, <1>4, <1>10, Zenon DEF Stored
<1>12. Sent'
  BY <1>1, SentKept, Zenon DEF IoInv
<1>13. Carried'
  BY <1>1, <1>3, CarriedIs, Zenon DEF IoInv, Carried
<1>14. Fronts'
  BY <1>1, <1>3, SameSets, Zenon DEF IoInv, Fronts
<1> QED
  BY <1>1, <1>11, <1>12, <1>13, <1>14, Zenon DEF IoInv

LEMMA IoInvInit == IoInit => IoInv
<1> SUFFICES ASSUME IoInit PROVE IoInv
  BY Zenon
<1>1. \A t \in Threads : Start(t) \in Place(Known) /\ Start(t).pc \in {"exec", "poll"}
  BY DEF Start, Place, Pcs
<1>2. at = [t \in Threads |-> Start(t)]
  BY Zenon DEF IoInit
<1>3. at \in [Threads -> Place(Known)] /\ \A t \in Threads : at[t].pc \in {"exec", "poll"}
  BY <1>1, <1>2, SMTT(30)
<1>4. Carried
  BY <1>3, SMTT(30) DEF IoInit, Carried
<1>5. Sent
  BY DEF IoInit, Sent, Sock
<1>6. Stored
  <2>1. {} \in Hearings
    BY FS_EmptySet DEF Hearings
  <2> QED
    BY <2>1 DEF IoInit, Stored
<1>7. setup \in Setups
  BY Zenon DEF IoInit
<1>8. Fronts
  <2>1. 0 \in Threads /\ Others \subseteq Threads
    BY <1>7, ThreadsAre, ZenonT(40)
  <2>2. \A t \in Threads : Ready(at[t], sock[t])
    BY <1>3 DEF Ready
  <2>3. \A t \in Threads : at[t].pc # "pop" /\ at[t].pc # "drained"
    BY <1>3
  <2> QED
    BY <2>1, <2>2, <2>3, Zenon DEF Fronts
<1> QED
  BY <1>4, <1>5, <1>6, <1>7, <1>8, Zenon DEF IoInv

LEMMA LoopStep ==
  ASSUME IoInv, NEW t \in Threads, Loop(t)
  PROVE  IoInv'
  BY PollStep, HandleCallStep, HandleRequestStep, HandleResponseStep, GetKvsResponsesStep, Zenon DEF Loop

LEMMA SecondaryStep ==
  ASSUME IoInv, NEW t \in Others, Secondary(t)
  PROVE  IoInv'
<1>1. t \in Threads
  BY ThreadsAre, Zenon DEF IoInv
<1> QED
  BY <1>1, LoopStep, TakeMsgStep, PopMsgStep, EndBatchStep, PushStep, Zenon DEF Secondary

LEMMA PrimaryStep ==
  ASSUME IoInv, Primary
  PROVE  IoInv'
<1>1. 0 \in Threads
  BY ThreadsAre, Zenon DEF IoInv
<1>2. CASE \E k \in Keys : ExecGet(k) \/ ExecObject(k)
  BY <1>2, ExecGetStep, ExecObjectStep, Zenon
<1>3. CASE Loop(0) \/ DrainFront \/ DrainPop \/ DrainNext
  BY <1>1, <1>3, LoopStep, DrainFrontStep, DrainPopStep, DrainNextStep, Zenon
<1>4. CASE HandleOne \/ HandledAll \/ ExecNothing
  BY <1>4, HandleOneStep, IdleStep, Zenon
<1> QED
  BY <1>2, <1>3, <1>4, Zenon DEF Primary

LEMMA WorldStep ==
  ASSUME IoInv, World
  PROVE  IoInv'
  BY PeerAnswersStep, PeerAsksStep, KvsAnswersStep, Zenon DEF World

LEMMA IoStays ==
  ASSUME IoInv, UNCHANGED ioVars
  PROVE  IoInv'
<1>1. /\ setup' = setup /\ cache' = cache /\ UNCHANGED <<msgs, resps, inbox>> /\ at' = at
      /\ UNCHANGED <<sock, fetching, adverts>> /\ UNCHANGED <<kvs, heard, dropped>>
  BY Zenon DEF ioVars
<1>2. Known' = Known /\ Threads' = Threads /\ Others' = Others
  BY <1>1, SameSets, Zenon
<1>3. Carried'
  BY <1>1, <1>2, CarriedIs, Zenon DEF IoInv, Carried
<1>4. Fronts'
  BY <1>1, <1>2, Zenon DEF IoInv, Fronts
<1> QED
  BY <1>1, <1>3, <1>4, SentKept, StoredKept, Zenon DEF IoInv

\* No fetch of a call's argument is given up for want of an address
\* (send_data_req_base), for any number of I/O threads, any batch and any
\* interleaving: whatever thread receives a call stores the address in the
\* shared key_address_cache_ before the call can reach thread 0, and no
\* address is ever removed.
THEOREM FetchesHaveAddresses == IoSpec => []AddressKnown
<1>1. IoInv /\ [IoNext]_ioVars => IoInv'
  <2> SUFFICES ASSUME IoInv, [IoNext]_ioVars PROVE IoInv'
    BY Zenon
  <2>1. CASE Primary \/ World
    BY <2>1, PrimaryStep, WorldStep, Zenon
  <2>2. ASSUME NEW t \in Others, Secondary(t) PROVE IoInv'
    BY <2>2, SecondaryStep, Zenon
  <2>3. ASSUME NEW k \in Keys, NEW t \in Threads, CallArrives(k, t) PROVE IoInv'
    BY <2>3, CallArrivesStep, Zenon
  <2>4. CASE UNCHANGED ioVars
    BY <2>4, IoStays, Zenon
  <2> QED
    BY <2>1, <2>2, <2>3, <2>4, Zenon DEF IoNext
<1>2. IoInv => AddressKnown
  BY Zenon DEF IoInv, Stored, NotCalls, AddressKnown
<1> QED
  BY <1>1, <1>2, IoInvInit, PTL DEF IoSpec
=============================================================================
