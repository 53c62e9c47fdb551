----------------------- MODULE DispatchPlaces_proofs ------------------------
(***************************************************************************)
(* The theorem that every call of Dispatch is in exactly one place: the    *)
(* inbox, a queue, the hands of the scheduler or of an executor, or        *)
(* settled.                                                                *)
(***************************************************************************)
EXTENDS Dispatch_proofs

-----------------------------------------------------------------------------
(* Every call is in one place.                                             *)
(*                                                                         *)
(* Spot says that a call is in the place t (of executor e, for a channel   *)
(* or a process) and nowhere else, Once that a queue does not hold a call  *)
(* twice.  Births is needed for direct invocations: a call that has not    *)
(* begun to run has made none of them, so none can be made twice.          *)

\* The calls a message or an entry of the delay queue holds.
CallsOf(m) == IF "kids" \in DOMAIN m THEN m.kids
              ELSE IF "call" \in DOMAIN m THEN {m.call} ELSE {}

Holds(q, c) == \E i \in DOMAIN q : c \in CallsOf(q[i])

Once(q) == \A i, j \in DOMAIN q : CallsOf(q[i]) \cap CallsOf(q[j]) # {} => i = j

Tags == {"inbox", "unborn", "todo", "settled", "delay", "shared", "local", "exec"}

Spot(c, t, e) ==
  /\ t \in Tags
  /\ t \in {"local", "exec"} => e \in Executors
  /\ c \in inbox <=> t = "inbox"
  /\ c \in unborn <=> t = "unborn"
  /\ c \in todo <=> t = "todo"
  /\ settled[c] # "no" <=> t = "settled"
  /\ Holds(delayQ, c) <=> t = "delay"
  /\ Holds(sharedChan, c) <=> t = "shared"
  /\ \A x \in Executors : Holds(localChan[x], c) <=> t = "local" /\ e = x
  /\ \A x \in Executors : ecall[x] = c <=> t = "exec" /\ e = x

Placed == \A c \in Calls : \E t, e : Spot(c, t, e)

QueuesOnce == Once(delayQ) /\ Once(sharedChan) /\ \A e \in Executors : Once(localChan[e])

Births ==
  /\ \A e \in Executors : estate[e] = "idle" => ecall[e] = NoCall
  /\ \A e \in Executors : unsent[e] \subseteq unborn
  /\ \A e \in Executors : unsent[e] # {} => ecall[e] \in Calls /\ unsent[e] \subseteq Children[ecall[e]]
  /\ \A c \in Calls :
       settled[c] = "no" /\ (\A e \in Executors : ecall[e] = c => estate[e] = "load")
         => Children[c] \subseteq unborn

PlaceInv == Placed /\ QueuesOnce /\ Births

LEMMA AppendHolds ==
  ASSUME NEW S, NEW q \in Seq(S), NEW x \in S
  PROVE  /\ \A c : Holds(Append(q, x), c) <=> Holds(q, c) \/ c \in CallsOf(x)
         /\ Once(q) /\ (\A c \in CallsOf(x) : ~Holds(q, c)) => Once(Append(q, x))
<1>1. PICK n \in Nat \ {0} : n = Len(q) + 1
  OBVIOUS
<1>2. PICK r : r = Append(q, x)
  BY Zenon
<1>3. /\ DOMAIN q = 1 .. n - 1
      /\ DOMAIN r = 1 .. n
      /\ r[n] = x
      /\ \A i \in 1 .. n - 1 : r[i] = q[i]
  BY <1>1, <1>2
<1>4. \A i \in DOMAIN r : (i \in DOMAIN q /\ r[i] = q[i]) \/ (i = n /\ r[i] = x)
  BY <1>3
<1>5. n \in DOMAIN r /\ n \notin DOMAIN q
  BY <1>3
<1>6. \A i \in DOMAIN q : i \in DOMAIN r /\ r[i] = q[i]
  BY <1>3
<1>7. \A c : Holds(r, c) <=> Holds(q, c) \/ c \in CallsOf(x)
  BY <1>3, <1>4, <1>5, <1>6, Zenon DEF Holds
<1>8. ASSUME Once(q), \A c \in CallsOf(x) : ~Holds(q, c)
      PROVE  Once(r)
  <2>1. \A i \in DOMAIN q : CallsOf(q[i]) \cap CallsOf(x) = {}
    BY <1>8, Zenon DEF Holds
  <2> SUFFICES ASSUME NEW i \in DOMAIN r, NEW j \in DOMAIN r, CallsOf(r[i]) \cap CallsOf(r[j]) # {}
               PROVE  i = j
    BY Zenon DEF Once
  <2>2. CASE i \in DOMAIN q /\ j \in DOMAIN q
    BY <1>6, <1>8, <2>2, Zenon DEF Once
  <2>3. CASE i = n /\ j = n
    BY <2>3, Zenon
  <2>4. CASE i \in DOMAIN q /\ j = n
    BY <1>3, <1>6, <2>1, <2>4, Zenon
  <2>5. CASE i = n /\ j \in DOMAIN q
    <3>1. CallsOf(q[j]) \cap CallsOf(x) # {}
      BY <1>3, <1>6, <2>5, Zenon
    <3> QED
      BY <2>1, <2>5, <3>1, Zenon
  <2> QED
    BY <1>4, <2>2, <2>3, <2>4, <2>5, Zenon
<1> QED
  BY <1>2, <1>7, <1>8, Zenon

LEMMA TailHolds ==
  ASSUME NEW S, NEW q \in Seq(S), q # <<>>, Once(q)
  PROVE  /\ \A c : Holds(Tail(q), c) <=> Holds(q, c) /\ c \notin CallsOf(Head(q))
         /\ \A c \in CallsOf(Head(q)) : Holds(q, c)
         /\ Once(Tail(q))
<1>1. PICK n \in Nat : n = Len(q)
  OBVIOUS
<1>2. PICK r : r = Tail(q)
  BY Zenon
<1>3. /\ n > 0
      /\ DOMAIN q = 1 .. n
      /\ DOMAIN r = 1 .. n - 1
      /\ \A i \in 1 .. n - 1 : r[i] = q[i + 1]
      /\ Head(q) = q[1]
  BY <1>1, <1>2
<1>4. \A i \in DOMAIN r : i + 1 \in DOMAIN q /\ r[i] = q[i + 1] /\ i + 1 # 1
  BY <1>3
<1>5. \A j \in DOMAIN q : j # 1 => \E i \in DOMAIN r : j = i + 1 /\ r[i] = q[j]
  <2> SUFFICES ASSUME NEW j \in DOMAIN q, j # 1
               PROVE  j - 1 \in DOMAIN r /\ j = (j - 1) + 1 /\ r[j - 1] = q[j]
    BY Zenon
  <2>1. j - 1 \in 1 .. n - 1 /\ j = (j - 1) + 1
    BY <1>3
  <2> QED
    BY <1>3, <2>1, Zenon
<1>6. 1 \in DOMAIN q
  BY <1>3
<1>7. ASSUME NEW c
      PROVE  Holds(r, c) <=> Holds(q, c) /\ c \notin CallsOf(q[1])
  <2>1. ASSUME Holds(r, c) PROVE Holds(q, c) /\ c \notin CallsOf(q[1])
    <3>1. PICK i \in DOMAIN r : c \in CallsOf(r[i])
      BY <2>1, Zenon DEF Holds
    <3>2. PICK j \in DOMAIN q : j = i + 1 /\ j # 1 /\ r[i] = q[j]
      BY <1>4, Zenon
    <3>3. c \in CallsOf(q[j])
      BY <3>1, <3>2, Zenon
    <3>4. c \notin CallsOf(q[1])
      BY <1>6, <3>2, <3>3, Zenon DEF Once
    <3> QED
      BY <3>3, <3>4, Zenon DEF Holds
  <2>2. ASSUME Holds(q, c), c \notin CallsOf(q[1]) PROVE Holds(r, c)
    <3>1. PICK j \in DOMAIN q : c \in CallsOf(q[j])
      BY <2>2, Zenon DEF Holds
    <3>2. j # 1
      BY <2>2, <3>1, Zenon
    <3> QED
      BY <1>5, <3>1, <3>2, Zenon DEF Holds
  <2> QED
    BY <2>1, <2>2, Zenon
<1>8. Once(r)
  <2> SUFFICES ASSUME NEW i \in DOMAIN r, NEW j \in DOMAIN r, CallsOf(r[i]) \cap CallsOf(r[j]) # {}
               PROVE  i = j
    BY Zenon DEF Once
  <2>1. CallsOf(q[i + 1]) \cap CallsOf(q[j + 1]) # {} /\ i + 1 \in DOMAIN q /\ j + 1 \in DOMAIN q
    BY <1>4, Zenon
  <2>2. i + 1 = j + 1
    BY <2>1, Zenon DEF Once
  <2> QED
    BY <1>3, <2>2
<1>9. \A c \in CallsOf(q[1]) : Holds(q, c)
  BY <1>6, Zenon DEF Holds
<1> QED
  BY <1>2, <1>3, <1>7, <1>8, <1>9, Zenon

\* What the messages hold.
LEMMA MessageCalls ==
  /\ \A m \in ToScheduler : CallsOf(m) = IF m.type \in {"batch", "target"} THEN m.kids ELSE {}
  /\ \A m \in ToExecutor : CallsOf(m) = IF m.type = "call" THEN {m.call} ELSE {}
  /\ \A m \in Delayed : CallsOf(m) = {m.call}
<1>1. ASSUME NEW m \in ToScheduler
      PROVE  CallsOf(m) = IF m.type \in {"batch", "target"} THEN m.kids ELSE {}
  BY Zenon DEF ToScheduler, CallsOf
<1>2. ASSUME NEW m \in ToExecutor
      PROVE  CallsOf(m) = IF m.type = "call" THEN {m.call} ELSE {}
  BY Zenon DEF ToExecutor, CallsOf
<1>3. ASSUME NEW m \in Delayed
      PROVE  CallsOf(m) = {m.call}
  BY Zenon DEF Delayed, CallsOf
<1> QED
  BY <1>1, <1>2, <1>3, Zenon

\* A step that moves no call.
LEMMA NothingMoves ==
  ASSUME PlaceInv, Births', UNCHANGED <<inbox, unborn, todo, settled, ecall>>,
         \A c \in Calls : Holds(delayQ', c) <=> Holds(delayQ, c),
         \A c \in Calls : Holds(sharedChan', c) <=> Holds(sharedChan, c),
         \A x \in Executors : \A c \in Calls : Holds(localChan'[x], c) <=> Holds(localChan[x], c),
         Once(delayQ'), Once(sharedChan'), \A x \in Executors : Once(localChan'[x])
  PROVE  PlaceInv'
<1>1. ASSUME NEW c \in Calls PROVE \E t, e : Spot(c, t, e)'
  <2>1. PICK t, e : Spot(c, t, e)
    BY Zenon DEF PlaceInv, Placed
  <2>2. Spot(c, t, e)'
    BY <2>1, Zenon DEF Spot
  <2> QED
    BY <2>2, Zenon
<1>2. Placed'
  BY <1>1, Zenon DEF Placed
<1>3. QueuesOnce'
  BY Zenon DEF QueuesOnce
<1> QED
  BY <1>2, <1>3, Zenon DEF PlaceInv

\* Births is about what executors do; the scheduler's steps only settle calls.
LEMMA SchedulerBirths ==
  ASSUME Births, UNCHANGED <<ecall, estate, unsent, unborn>>,
         \A c \in Calls : settled'[c] = "no" => settled[c] = "no"
  PROVE  Births'
  BY Zenon DEF Births

LEMMA SettleSettles ==
  ASSUME NEW S \in SUBSET Calls, NEW fate \in Fates \ {"no"}, Settle(S, fate)
  PROVE  \A c \in Calls : settled'[c] # "no" <=> settled[c] # "no" \/ c \in S
  BY Zenon DEF Settle

LEMMA OneSettles ==
  ASSUME NEW c \in Calls, NEW fate \in Fates \ {"no"}, Settle({c}, fate)
  PROVE  \A d \in Calls : settled'[d] # "no" <=> settled[d] # "no" \/ d = c
<1>1. \A d \in Calls : settled'[d] # "no" <=> settled[d] # "no" \/ d \in {c}
  BY SettleSettles, Zenon
<1> QED
  BY <1>1, Zenon

LEMMA ExtraFateSettles == ExtraFate \in Fates \ {"no"}
  BY Zenon DEF ExtraFate, Fates

\* A message in the channel of an executor.
LEMMA DeliverHolds ==
  ASSUME Typed, QueuesOnce, NEW e \in Executors, NEW m \in ToExecutor, Deliver(e, m),
         \A c \in CallsOf(m) : ~Holds(localChan[e], c), NEW x \in Executors
  PROVE  /\ \A c : Holds(localChan'[x], c) <=>
                     Holds(localChan[x], c) \/ (c \in CallsOf(m) /\ x = e /\ estate[e] # "dead")
         /\ Once(localChan'[x])
<1>1. localChan[x] \in Seq(ToExecutor) /\ Once(localChan[x])
  BY Zenon DEF Typed, QueuesOnce
<1>2. CASE x = e /\ estate[e] # "dead"
  <2>1. localChan'[x] = Append(localChan[x], m)
    BY <1>2, Zenon DEF Deliver, Typed
  <2>2. \A c : Holds(Append(localChan[x], m), c) <=> Holds(localChan[x], c) \/ c \in CallsOf(m)
    BY <1>1, AppendHolds, Zenon
  <2>3. Once(Append(localChan[x], m))
    BY <1>1, <1>2, AppendHolds, Zenon
  <2> QED
    BY <1>2, <2>1, <2>2, <2>3, Zenon
<1>3. CASE ~(x = e /\ estate[e] # "dead")
  <2>1. localChan'[x] = localChan[x]
    BY <1>3, Zenon DEF Deliver, Typed
  <2> QED
    BY <1>1, <1>3, <2>1, Zenon
<1> QED
  BY <1>2, <1>3, Zenon

\* The step puts c into place t, of executor e, with the delay queue q as the rest.
Fated(c, q, t, e) ==
  /\ t \in {"local", "settled", "delay"}
  /\ t = "local" => e \in Executors
  /\ \A d \in Calls : Holds(delayQ', d) <=> Holds(q, d) \/ (d = c /\ t = "delay")
  /\ \A d \in Calls : settled'[d] # "no" <=> settled[d] # "no" \/ (d = c /\ t = "settled")
  /\ \A d \in Calls, x \in Executors :
       Holds(localChan'[x], d) <=> Holds(localChan[x], d) \/ (d = c /\ t = "local" /\ e = x)

\* A call that schedule_func_call is given ends in one of three places.
LEMMA ScheduleFate ==
  ASSUME Typed, QueuesOnce, NEW c \in Calls, NEW q \in Seq(Delayed), Once(q), ~Holds(q, c),
         \A x \in Executors : ~Holds(localChan[x], c), ScheduleFuncCall(c, q)
  PROVE  /\ \E t, e : Fated(c, q, t, e)
         /\ Once(delayQ')
         /\ \A x \in Executors : Once(localChan'[x])
<1>1. CASE \E e \in Candidates(FuncOf[c]) : DispatchTo(e, c) /\ delayQ' = q
  <2>1. PICK e \in Candidates(FuncOf[c]) : DispatchTo(e, c) /\ delayQ' = q
    BY <1>1, Zenon
  <2>2. FuncOf[c] \in Funcs
    BY DispatchAssumption, Zenon
  <2>3. e \in Executors
    BY <2>2, Zenon DEF Candidates, WarmExecutors, ColdExecutors, Typed
  <2>4. PICK m : m = [type |-> "call", call |-> c]
    BY Zenon
  <2>5. m \in ToExecutor /\ m.type = "call" /\ m.call = c
    BY <2>4, Zenon DEF ToExecutor
  <2>6. CallsOf(m) = {c}
    BY <2>5, MessageCalls, Zenon
  <2>7. Deliver(e, m)
    BY <2>1, <2>4, Zenon DEF DispatchTo
  <2>8. ASSUME NEW x \in Executors
        PROVE  /\ \A d : Holds(localChan'[x], d) <=>
                           Holds(localChan[x], d) \/ (d = c /\ x = e /\ estate[e] # "dead")
               /\ Once(localChan'[x])
    BY <2>3, <2>5, <2>6, <2>7, DeliverHolds, Zenon
  <2>9. CASE estate[e] = "dead"
    <3>1. \A d \in Calls : settled'[d] # "no" <=> settled[d] # "no" \/ d = c
      <4>1. Settle({c}, "lost") /\ "lost" \in Fates \ {"no"}
        BY <2>1, <2>9, Zenon DEF DispatchTo, Fates
      <4> QED
        BY <4>1, OneSettles, Zenon
    <3>2. \A d \in Calls : Holds(delayQ', d) <=> Holds(q, d)
      BY <2>1, Zenon
    <3>3. \A d \in Calls, x \in Executors : Holds(localChan'[x], d) <=> Holds(localChan[x], d)
      BY <2>8, <2>9, Zenon
    <3>4. Once(delayQ')
      BY <2>1, Zenon
    <3>5. Fated(c, q, "settled", e)
      BY <3>1, <3>2, <3>3, Zenon DEF Fated
    <3> QED
      BY <2>8, <3>4, <3>5, Zenon
  <2>10. CASE estate[e] # "dead"
    <3>1. settled' = settled
      BY <2>1, <2>10, Zenon DEF DispatchTo
    <3>2. \A d \in Calls : Holds(delayQ', d) <=> Holds(q, d)
      BY <2>1, Zenon
    <3>3. \A d \in Calls, x \in Executors :
            Holds(localChan'[x], d) <=> Holds(localChan[x], d) \/ (d = c /\ e = x)
      BY <2>8, <2>10, Zenon
    <3>4. Once(delayQ')
      BY <2>1, Zenon
    <3>5. Fated(c, q, "local", e)
      BY <2>3, <3>1, <3>2, <3>3, Zenon DEF Fated
    <3> QED
      BY <2>8, <3>4, <3>5, Zenon
  <2> QED
    BY <2>9, <2>10, Zenon
<1>2. CASE UNCHANGED localChan
  <2>1. \A x \in Executors : Once(localChan'[x])
    BY <1>2, Zenon DEF QueuesOnce
  <2>2. CASE delayQ' = Append(q, [call |-> c, aged |-> FALSE]) /\ UNCHANGED settled
    <3>1. PICK m : m = [call |-> c, aged |-> FALSE]
      BY Zenon
    <3>2. m \in Delayed /\ m.call = c
      BY <3>1, Zenon DEF Delayed
    <3>3. CallsOf(m) = {c}
      BY <3>2, MessageCalls, Zenon
    <3>4. \A d : Holds(Append(q, m), d) <=> Holds(q, d) \/ d = c
      BY <3>2, <3>3, AppendHolds, Zenon
    <3>5. Once(Append(q, m))
      BY <3>2, <3>3, AppendHolds, Zenon
    <3>6. delayQ' = Append(q, m)
      BY <2>2, <3>1, Zenon
    <3>7. Fated(c, q, "delay", c)
      BY <1>2, <2>2, <3>4, <3>6, Zenon DEF Fated
    <3> QED
      BY <2>1, <3>5, <3>6, <3>7, Zenon
  <2>3. CASE Settle({c}, ExtraFate) /\ delayQ' = q
    <3>1. \A d \in Calls : settled'[d] # "no" <=> settled[d] # "no" \/ d = c
      BY <2>3, OneSettles, ExtraFateSettles, Zenon
    <3>2. \A d \in Calls : Holds(delayQ', d) <=> Holds(q, d)
      BY <2>3, Zenon
    <3>3. Once(delayQ')
      BY <2>3, Zenon
    <3>4. Fated(c, q, "settled", c)
      BY <1>2, <3>1, <3>2, Zenon DEF Fated
    <3> QED
      BY <2>1, <3>3, <3>4, Zenon
  <2>4. CASE \E e \in Candidates(FuncOf[c]) : DispatchTo(e, c) /\ delayQ' = q
    BY <1>1, <2>4, Zenon
  <2> QED
    BY <2>2, <2>3, <2>4, Zenon DEF ScheduleFuncCall
<1> QED
  BY <1>1, <1>2, Zenon DEF ScheduleFuncCall

LEMMA ScheduleNextPlaces ==
  ASSUME Typed, PlaceInv, ScheduleNext
  PROVE  PlaceInv'
<1>1. PICK c \in todo : ScheduleFuncCall(c, delayQ) /\ todo' = todo \ {c}
  BY Zenon DEF ScheduleNext
<1>2. UNCHANGED <<sharedChan, inbox, unborn, ecall, estate, unsent>>
  BY Zenon DEF ScheduleNext, execVars
<1>3. c \in Calls /\ delayQ \in Seq(Delayed) /\ Placed /\ QueuesOnce /\ Births
  BY Zenon DEF Typed, PlaceInv
<1>4. PICK t0, e0 : Spot(c, t0, e0)
  BY <1>3, Zenon DEF Placed
<1>5. t0 = "todo"
  BY <1>4, Zenon DEF Spot
<1>6. ~Holds(delayQ, c) /\ \A x \in Executors : ~Holds(localChan[x], c)
  BY <1>4, <1>5, Zenon DEF Spot
<1>7. Once(delayQ)
  BY <1>3, Zenon DEF QueuesOnce
<1>8. /\ Once(delayQ')
      /\ \A x \in Executors : Once(localChan'[x])
  BY <1>1, <1>3, <1>6, <1>7, ScheduleFate, Zenon
<1>9. PICK t1, e1 : Fated(c, delayQ, t1, e1)
  BY <1>1, <1>3, <1>6, <1>7, ScheduleFate, Zenon
<1>10. ASSUME NEW d \in Calls PROVE \E t, e : Spot(d, t, e)'
  <2>1. PICK t, e : Spot(d, t, e)
    BY <1>3, Zenon DEF Placed
  <2>2. CASE d = c
    <3>1. Spot(c, t1, e1)'
      BY <1>1, <1>2, <1>3, <1>4, <1>5, <1>9, Zenon DEF Spot, Tags, Fated
    <3> QED
      BY <2>2, <3>1, Zenon
  <2>3. CASE d # c
    <3>1. Spot(d, t, e)'
      BY <1>1, <1>2, <1>3, <1>9, <2>1, <2>3, Zenon DEF Spot, Fated
    <3> QED
      BY <3>1, Zenon
  <2> QED
    BY <2>2, <2>3, Zenon
<1>11. Placed'
  BY <1>10, Zenon DEF Placed
<1>12. QueuesOnce'
  BY <1>2, <1>3, <1>8, Zenon DEF QueuesOnce
<1>13. Births'
  <2>1. \A d \in Calls : settled'[d] = "no" => settled[d] = "no"
    BY <1>9, Zenon DEF Fated
  <2> QED
    BY <1>2, <1>3, <2>1, SchedulerBirths, Zenon
<1> QED
  BY <1>11, <1>12, <1>13, Zenon DEF PlaceInv

\* The front of the delay queue.
LEMMA DelayFront ==
  ASSUME Typed, PlaceInv, delayQ # <<>>
  PROVE  \E c \in Calls :
           /\ c = Head(delayQ).call
           /\ Tail(delayQ) \in Seq(Delayed)
           /\ Once(Tail(delayQ))
           /\ Holds(delayQ, c)
           /\ \A d : Holds(Tail(delayQ), d) <=> Holds(delayQ, d) /\ d # c
<1>1. delayQ \in Seq(Delayed) /\ Once(delayQ)
  BY Zenon DEF Typed, PlaceInv, QueuesOnce
<1>2. Head(delayQ) \in Delayed /\ Tail(delayQ) \in Seq(Delayed)
  BY <1>1, SeqOps, Zenon
<1>3. CallsOf(Head(delayQ)) = {Head(delayQ).call} /\ Head(delayQ).call \in Calls
  BY <1>2, MessageCalls, Zenon DEF Delayed
<1>4. /\ \A d : Holds(Tail(delayQ), d) <=> Holds(delayQ, d) /\ d \notin CallsOf(Head(delayQ))
      /\ \A d \in CallsOf(Head(delayQ)) : Holds(delayQ, d)
      /\ Once(Tail(delayQ))
  BY <1>1, TailHolds, Zenon
<1> QED
  BY <1>2, <1>3, <1>4, Zenon

LEMMA DelayDrainPlaces ==
  ASSUME Typed, PlaceInv, DelayDrain
  PROVE  PlaceInv'
<1>1. PICK q : q = Tail(delayQ)
  BY Zenon
<1>2. PICK c \in Calls :
        /\ c = Head(delayQ).call
        /\ q \in Seq(Delayed)
        /\ Once(q)
        /\ Holds(delayQ, c)
        /\ \A d : Holds(q, d) <=> Holds(delayQ, d) /\ d # c
  BY <1>1, DelayFront, Zenon DEF DelayDrain
<1>3. ScheduleFuncCall(c, q) /\ UNCHANGED <<todo, sharedChan, inbox, unborn, ecall, estate, unsent>>
  BY <1>1, <1>2, Zenon DEF DelayDrain, execVars
<1>4. Placed /\ QueuesOnce /\ Births
  BY Zenon DEF PlaceInv
<1>5. PICK t0, e0 : Spot(c, t0, e0)
  BY <1>4, Zenon DEF Placed
<1>6. t0 = "delay"
  BY <1>2, <1>5, Zenon DEF Spot
<1>7. ~Holds(q, c) /\ \A x \in Executors : ~Holds(localChan[x], c)
  BY <1>2, <1>5, <1>6, Zenon DEF Spot
<1>8. /\ Once(delayQ')
      /\ \A x \in Executors : Once(localChan'[x])
  BY <1>2, <1>3, <1>4, <1>7, ScheduleFate, Zenon
<1>9. PICK t1, e1 : Fated(c, q, t1, e1)
  BY <1>2, <1>3, <1>4, <1>7, ScheduleFate, Zenon
<1>10. ASSUME NEW d \in Calls PROVE \E t, e : Spot(d, t, e)'
  <2>1. PICK t, e : Spot(d, t, e)
    BY <1>4, Zenon DEF Placed
  <2>2. CASE d = c
    <3>1. Spot(c, t1, e1)'
      BY <1>2, <1>3, <1>5, <1>6, <1>9, Zenon DEF Spot, Tags, Fated
    <3> QED
      BY <2>2, <3>1, Zenon
  <2>3. CASE d # c
    <3>1. Spot(d, t, e)'
      BY <1>2, <1>3, <1>9, <2>1, <2>3, Zenon DEF Spot, Fated
    <3> QED
      BY <3>1, Zenon
  <2> QED
    BY <2>2, <2>3, Zenon
<1>11. Placed'
  BY <1>10, Zenon DEF Placed
<1>12. QueuesOnce'
  BY <1>3, <1>4, <1>8, Zenon DEF QueuesOnce
<1>13. Births'
  <2>1. \A d \in Calls : settled'[d] = "no" => settled[d] = "no"
    BY <1>9, Zenon DEF Fated
  <2> QED
    BY <1>3, <1>4, <2>1, SchedulerBirths, Zenon
<1> QED
  BY <1>11, <1>12, <1>13, Zenon DEF PlaceInv

LEMMA DelayExpirePlaces ==
  ASSUME Typed, PlaceInv, DelayExpire
  PROVE  PlaceInv'
<1>1. delayQ # <<>> /\ delayQ' = Tail(delayQ) /\ Settle({Head(delayQ).call}, ExtraFate)
  BY Zenon DEF DelayExpire, FrontExpired
<1>2. PICK c \in Calls :
        /\ c = Head(delayQ).call
        /\ Once(delayQ')
        /\ Holds(delayQ, c)
        /\ \A d : Holds(delayQ', d) <=> Holds(delayQ, d) /\ d # c
  BY <1>1, DelayFront, Zenon
<1>3. \A d \in Calls : settled'[d] # "no" <=> settled[d] # "no" \/ d = c
  BY <1>1, <1>2, OneSettles, ExtraFateSettles, Zenon
<1>4. UNCHANGED <<todo, sharedChan, localChan, inbox, unborn, ecall, estate, unsent>>
  BY Zenon DEF DelayExpire, execVars
<1>5. ASSUME NEW d \in Calls PROVE \E t, e : Spot(d, t, e)'
  <2>1. PICK t, e : Spot(d, t, e)
    BY Zenon DEF PlaceInv, Placed
  <2>2. CASE d = c
    <3>1. Spot(d, "settled", e)'
      BY <1>2, <1>3, <1>4, <2>1, <2>2, Zenon DEF Spot, Tags
    <3> QED
      BY <3>1, Zenon
  <2>3. CASE d # c
    <3>1. Spot(d, t, e)'
      BY <1>2, <1>3, <1>4, <2>1, <2>3, Zenon DEF Spot
    <3> QED
      BY <3>1, Zenon
  <2> QED
    BY <2>2, <2>3, Zenon
<1>6. Placed'
  BY <1>5, Zenon DEF Placed
<1>7. QueuesOnce'
  BY <1>2, <1>4, Zenon DEF PlaceInv, QueuesOnce
<1>8. Births'
  BY <1>3, <1>4, SchedulerBirths, Zenon DEF PlaceInv
<1> QED
  BY <1>6, <1>7, <1>8, Zenon DEF PlaceInv

LEMMA RecvCallMsgPlaces ==
  ASSUME Typed, PlaceInv, RecvCallMsg
  PROVE  PlaceInv'
<1>1. PICK S \in SUBSET inbox : inbox' = inbox \ S /\ todo' = S
  BY Zenon DEF RecvCallMsg
<1>2. todo = {} /\ UNCHANGED <<delayQ, sharedChan, localChan, unborn, ecall, estate, unsent, settled>>
  BY Zenon DEF RecvCallMsg, HelperPhase, execVars
<1>3. ASSUME NEW d \in Calls PROVE \E t, e : Spot(d, t, e)'
  <2>1. PICK t, e : Spot(d, t, e)
    BY Zenon DEF PlaceInv, Placed
  <2>2. CASE d \in S
    <3>1. Spot(d, "todo", e)'
      BY <1>1, <1>2, <2>1, <2>2, Zenon DEF Spot, Tags
    <3> QED
      BY <3>1, Zenon
  <2>3. CASE d \notin S
    <3>1. Spot(d, t, e)'
      BY <1>1, <1>2, <2>1, <2>3, Zenon DEF Spot
    <3> QED
      BY <3>1, Zenon
  <2> QED
    BY <2>2, <2>3, Zenon
<1>4. Placed'
  BY <1>3, Zenon DEF Placed
<1>5. QueuesOnce'
  BY <1>2, Zenon DEF PlaceInv, QueuesOnce
<1>6. Births'
  BY <1>2, SchedulerBirths, Zenon DEF PlaceInv
<1> QED
  BY <1>4, <1>5, <1>6, Zenon DEF PlaceInv

\* A reply is not a call.
LEMMA ReplyHolds ==
  ASSUME Typed, PlaceInv, NEW e \in Executors, NEW r \in Nat,
         Deliver(e, [type |-> "reply", rid |-> r]), NEW x \in Executors
  PROVE  /\ \A c : Holds(localChan'[x], c) <=> Holds(localChan[x], c)
         /\ Once(localChan'[x])
<1>1. PICK m : m = [type |-> "reply", rid |-> r]
  BY Zenon
<1>2. m \in ToExecutor /\ m.type # "call"
  BY <1>1, Zenon DEF ToExecutor
<1>3. CallsOf(m) = {}
  BY <1>2, MessageCalls, Zenon
<1>4. Deliver(e, m) /\ QueuesOnce
  BY <1>1, Zenon DEF PlaceInv
<1> QED
  BY <1>2, <1>3, <1>4, DeliverHolds, Zenon

LEMMA RecvExecutorMsgPlaces ==
  ASSUME Typed, PlaceInv, RecvExecutorMsg
  PROVE  PlaceInv'
<1>a. PICK m : m = Head(sharedChan)
  BY Zenon
<1>1. /\ sharedChan # <<>> /\ sharedChan' = Tail(sharedChan) /\ todo = {}
      /\ HandleStatus(m) \/ HandleObject(m) \/ HandleRequest(m)
      /\ UNCHANGED <<delayQ, inbox, unborn, ecall, estate, unsent>>
  BY <1>a, Zenon DEF RecvExecutorMsg, ExecPhase, execVars
<1>2. sharedChan \in Seq(ToScheduler) /\ Once(sharedChan)
  BY Zenon DEF Typed, PlaceInv, QueuesOnce
<1>3. m \in ToScheduler
  BY <1>a, <1>1, <1>2, SeqOps, Zenon
<1>4. /\ \A c : Holds(sharedChan', c) <=> Holds(sharedChan, c) /\ c \notin CallsOf(m)
      /\ \A c \in CallsOf(m) : Holds(sharedChan, c)
      /\ Once(sharedChan')
  BY <1>a, <1>1, <1>2, TailHolds, Zenon
<1>5. Once(delayQ') /\ \A x \in Executors : Once(localChan[x])
  BY <1>1, Zenon DEF PlaceInv, QueuesOnce
<1>6. CASE HandleStatus(m) \/ HandleRequest(m)
  <2>1. CallsOf(m) = {}
    BY <1>3, <1>6, MessageCalls, Zenon DEF HandleStatus, HandleRequest
  <2>2. UNCHANGED <<todo, settled>>
    BY <1>6, Zenon DEF HandleStatus, HandleRequest
  <2>3. ASSUME NEW x \in Executors
        PROVE  /\ \A c : Holds(localChan'[x], c) <=> Holds(localChan[x], c)
               /\ Once(localChan'[x])
    <3>1. CASE UNCHANGED localChan
      BY <1>5, <3>1, Zenon
    <3>2. CASE m.type = "get" /\ Deliver(m.from, [type |-> "reply", rid |-> m.rid])
      <4>1. m.from \in Executors /\ m.rid \in Nat
        BY <1>3, <3>2, Zenon DEF ToScheduler
      <4> QED
        BY <3>2, <4>1, ReplyHolds, Zenon
    <3> QED
      BY <1>6, <3>1, <3>2, Zenon DEF HandleStatus, HandleRequest
  <2>4. Births'
    BY <1>1, <2>2, SchedulerBirths, Zenon DEF PlaceInv
  <2>5. \A c \in Calls : Holds(sharedChan', c) <=> Holds(sharedChan, c)
    BY <1>4, <2>1, Zenon
  <2>6. \A c \in Calls : Holds(delayQ', c) <=> Holds(delayQ, c)
    BY <1>1, Zenon
  <2>7. \A x \in Executors : \A c \in Calls : Holds(localChan'[x], c) <=> Holds(localChan[x], c)
    BY <2>3, Zenon
  <2> QED
    BY <1>1, <1>4, <1>5, <2>2, <2>3, <2>4, <2>5, <2>6, <2>7, NothingMoves, Zenon
<1>7. CASE HandleObject(m)
  <2>1. CallsOf(m) = m.kids /\ m.kids \in SUBSET Calls
    <3>1. m.type \in {"batch", "target"}
      BY <1>7, Zenon DEF HandleObject
    <3>2. CallsOf(m) = m.kids
      BY <1>3, <3>1, MessageCalls, Zenon
    <3> QED
      BY <1>3, <3>1, <3>2, Zenon DEF ToScheduler
  <2>2. localChan' = localChan
    BY <1>7, Zenon DEF HandleObject
  <2>3. PICK L \in SUBSET m.kids :
          /\ todo' = L
          /\ \A d \in Calls : settled'[d] # "no" <=> settled[d] # "no" \/ d \in m.kids \ L
    <3>1. CASE todo' = m.kids /\ UNCHANGED settled
      BY <3>1, Zenon
    <3>2. CASE \E L \in SUBSET m.kids : todo' = L /\ Settle(m.kids \ L, ExtraFate)
      <4>1. PICK L \in SUBSET m.kids : todo' = L /\ Settle(m.kids \ L, ExtraFate)
        BY <3>2, Zenon
      <4>2. m.kids \ L \in SUBSET Calls
        BY <2>1, Zenon
      <4>3. \A d \in Calls : settled'[d] # "no" <=> settled[d] # "no" \/ d \in m.kids \ L
        BY <4>1, <4>2, SettleSettles, ExtraFateSettles, Zenon
      <4> QED
        BY <4>1, <4>3, Zenon
    <3> QED
      BY <1>7, <3>1, <3>2, Zenon DEF HandleObject
  <2>4. ASSUME NEW d \in Calls PROVE \E t, e : Spot(d, t, e)'
    <3>1. PICK t, e : Spot(d, t, e)
      BY Zenon DEF PlaceInv, Placed
    <3>2. CASE d \in m.kids
      <4>1. Spot(d, t, e) /\ t = "shared"
        BY <1>4, <2>1, <3>1, <3>2, Zenon DEF Spot
      <4>2. CASE d \in L
        <5>1. Spot(d, "todo", e)'
          BY <1>1, <1>4, <2>1, <2>2, <2>3, <3>2, <4>1, <4>2, Zenon DEF Spot, Tags
        <5> QED
          BY <5>1, Zenon
      <4>3. CASE d \notin L
        <5>1. Spot(d, "settled", e)'
          BY <1>1, <1>4, <2>1, <2>2, <2>3, <3>2, <4>1, <4>3, Zenon DEF Spot, Tags
        <5> QED
          BY <5>1, Zenon
      <4> QED
        BY <4>2, <4>3, Zenon
    <3>3. CASE d \notin m.kids
      <4>1. Spot(d, t, e)'
        BY <1>1, <1>4, <2>1, <2>2, <2>3, <3>1, <3>3, Zenon DEF Spot
      <4> QED
        BY <4>1, Zenon
    <3> QED
      BY <3>2, <3>3, Zenon
  <2>5. Placed'
    BY <2>4, Zenon DEF Placed
  <2>6. QueuesOnce'
    BY <1>4, <1>5, <2>2, Zenon DEF QueuesOnce
  <2>7. Births'
    BY <1>1, <2>3, SchedulerBirths, Zenon DEF PlaceInv
  <2> QED
    BY <2>5, <2>6, <2>7, Zenon DEF PlaceInv
<1> QED
  BY <1>1, <1>6, <1>7, Zenon

\* Time passes: the same calls wait in the same order.
LEMMA TickHolds ==
  ASSUME Typed, PlaceInv, Tick
  PROVE  /\ \A c \in Calls : Holds(delayQ', c) <=> Holds(delayQ, c)
         /\ Once(delayQ')
<1>1. PICK i \in DOMAIN delayQ : delayQ' = [delayQ EXCEPT ![i].aged = TRUE]
  BY Zenon DEF Tick
<1>2. delayQ \in Seq(Delayed) /\ delayQ' \in Seq(Delayed)
  BY TickType, Zenon DEF Typed
<1>3. DOMAIN delayQ' = DOMAIN delayQ /\ \A j \in DOMAIN delayQ : delayQ'[j].call = delayQ[j].call
  BY <1>1, <1>2 DEF Delayed
<1>4. \A j \in DOMAIN delayQ : CallsOf(delayQ'[j]) = CallsOf(delayQ[j])
  <2> SUFFICES ASSUME NEW j \in DOMAIN delayQ
               PROVE  CallsOf(delayQ'[j]) = CallsOf(delayQ[j])
    BY Zenon
  <2>1. delayQ[j] \in Delayed /\ delayQ'[j] \in Delayed
    BY <1>2, <1>3
  <2> QED
    BY <1>3, <2>1, MessageCalls, Zenon
<1>5. Once(delayQ)
  BY Zenon DEF PlaceInv, QueuesOnce
<1> QED
  BY <1>3, <1>4, <1>5, Zenon DEF Holds, Once

LEMMA SchedulerPlaces ==
  ASSUME Typed, PlaceInv, Scheduler \/ Tick
  PROVE  PlaceInv'
<1>1. CASE NoExecutorMsg \/ HelperDone \/ DelayDrained \/ DelayDone \/ Tick
  <2>1. UNCHANGED <<todo, sharedChan, localChan, inbox, unborn, settled, ecall, estate, unsent>>
    BY <1>1, Zenon DEF NoExecutorMsg, HelperDone, DelayDrained, DelayDone, Tick, execVars, callVars
  <2>2. delayQ' = delayQ \/ Tick
    BY <1>1, Zenon DEF NoExecutorMsg, HelperDone, DelayDrained, DelayDone
  <2>3. /\ \A c \in Calls : Holds(delayQ', c) <=> Holds(delayQ, c)
        /\ Once(delayQ')
    BY <2>2, TickHolds, Zenon DEF PlaceInv, QueuesOnce
  <2>4. Births'
    BY <2>1, SchedulerBirths, Zenon DEF PlaceInv
  <2>5. Once(sharedChan') /\ \A x \in Executors : Once(localChan'[x])
    BY <2>1, Zenon DEF PlaceInv, QueuesOnce
  <2> QED
    BY <2>1, <2>3, <2>4, <2>5, NothingMoves, Zenon
<1>2. CASE RecvIOResp
  <2>1. PICK r \in pendingIO : Deliver(r.from, [type |-> "reply", rid |-> r.rid])
    BY <1>2, Zenon DEF RecvIOResp
  <2>2. r.from \in Executors /\ r.rid \in Nat
    BY Zenon DEF Typed, Request
  <2>3. \A x \in Executors : /\ \A c : Holds(localChan'[x], c) <=> Holds(localChan[x], c)
                             /\ Once(localChan'[x])
    BY <2>1, <2>2, ReplyHolds, Zenon
  <2>4. UNCHANGED <<todo, delayQ, sharedChan, inbox, unborn, settled, ecall, estate, unsent>>
    BY <1>2, Zenon DEF RecvIOResp, execVars, callVars
  <2>5. Births'
    BY <2>4, SchedulerBirths, Zenon DEF PlaceInv
  <2>6. Once(sharedChan') /\ Once(delayQ')
    BY <2>4, Zenon DEF PlaceInv, QueuesOnce
  <2> QED
    BY <2>3, <2>4, <2>5, <2>6, NothingMoves, Zenon
<1> QED
  BY <1>1, <1>2, ScheduleNextPlaces, RecvExecutorMsgPlaces, RecvCallMsgPlaces, DelayDrainPlaces,
     DelayExpirePlaces, Zenon DEF Scheduler

\* What a step of executor e does to the executors' calls, when it neither
\* takes nor makes a call.
LEMMA ExecutorBirths ==
  ASSUME Typed, Births, NEW e \in Executors, UNCHANGED <<ecall, unsent, unborn, settled>>,
         estate[e] # "idle", estate'[e] \notin {"idle", "load"},
         \A x \in Executors \ {e} : estate'[x] = estate[x]
  PROVE  Births'
<1>1. \A x \in Executors : estate'[x] = "idle" => ecall'[x] = NoCall
  BY Zenon DEF Births
<1>2. \A x \in Executors : estate'[x] = "load" => estate[x] = "load"
  BY Zenon
<1> QED
  BY <1>1, <1>2, Zenon DEF Births

\* The first message of the channel of e.
LEMMA ChannelFront ==
  ASSUME Typed, PlaceInv, NEW e \in Executors, localChan[e] # <<>>,
         localChan' = [localChan EXCEPT ![e] = Tail(@)]
  PROVE  LET m == Head(localChan[e]) IN
           /\ m \in ToExecutor
           /\ \A c \in CallsOf(m) : Holds(localChan[e], c)
           /\ \A x \in Executors : Once(localChan'[x])
           /\ \A x \in Executors : \A c :
                Holds(localChan'[x], c) <=> Holds(localChan[x], c) /\ ~(x = e /\ c \in CallsOf(m))
<1> DEFINE m == Head(localChan[e])
<1>1. localChan[e] \in Seq(ToExecutor) /\ \A x \in Executors : Once(localChan[x])
  BY Zenon DEF Typed, PlaceInv, QueuesOnce
<1>2. m \in ToExecutor
  BY <1>1, SeqOps, Zenon
<1>3. localChan'[e] = Tail(localChan[e]) /\ \A x \in Executors : x # e => localChan'[x] = localChan[x]
  BY Zenon DEF Typed
<1>4. /\ \A c : Holds(Tail(localChan[e]), c) <=> Holds(localChan[e], c) /\ c \notin CallsOf(m)
      /\ \A c \in CallsOf(m) : Holds(localChan[e], c)
      /\ Once(Tail(localChan[e]))
  BY <1>1, TailHolds, Zenon
<1> HIDE DEF m
<1>5. ASSUME NEW x \in Executors
      PROVE  /\ Once(localChan'[x])
             /\ \A c : Holds(localChan'[x], c) <=> Holds(localChan[x], c) /\ ~(x = e /\ c \in CallsOf(m))
  <2>1. CASE x = e
    BY <1>3, <1>4, <2>1, Zenon
  <2>2. CASE x # e
    BY <1>1, <1>3, <2>2, Zenon
  <2> QED
    BY <2>1, <2>2, Zenon
<1>6. QED
  BY <1>2, <1>4, <1>5, Zenon DEF m

LEMMA StatusHolds ==
  ASSUME Typed, PlaceInv, NEW e \in Executors, NEW t \in {"busy", "avail"}, Send(StatusMsg(e, t))
  PROVE  /\ \A c : Holds(sharedChan', c) <=> Holds(sharedChan, c)
         /\ Once(sharedChan')
<1>1. PICK m : m = StatusMsg(e, t)
  BY Zenon
<1>2. m \in ToScheduler /\ m.type = t
  BY <1>1, Zenon DEF StatusMsg, ToScheduler
<1>3. CallsOf(m) = {}
  BY <1>2, MessageCalls, Zenon
<1>4. sharedChan \in Seq(ToScheduler) /\ Once(sharedChan) /\ sharedChan' = Append(sharedChan, m)
  BY <1>1, Zenon DEF Typed, PlaceInv, QueuesOnce, Send
<1>5. /\ \A c : Holds(Append(sharedChan, m), c) <=> Holds(sharedChan, c) \/ c \in CallsOf(m)
      /\ Once(sharedChan) /\ (\A c \in CallsOf(m) : ~Holds(sharedChan, c)) => Once(Append(sharedChan, m))
  BY <1>2, <1>4, AppendHolds, Zenon
<1> QED
  BY <1>3, <1>4, <1>5, Zenon

LEMMA RecvLocalPlaces ==
  ASSUME Typed, PlaceInv, NEW e \in Executors, RecvLocalMsg(e)
  PROVE  PlaceInv'
<1>a. PICK m : m = Head(localChan[e])
  BY Zenon
<1>1. /\ m \in ToExecutor
      /\ \A c \in CallsOf(m) : Holds(localChan[e], c)
      /\ \A x \in Executors : Once(localChan'[x])
      /\ \A x \in Executors : \A c :
           Holds(localChan'[x], c) <=> Holds(localChan[x], c) /\ ~(x = e /\ c \in CallsOf(m))
  BY <1>a, ChannelFront, Zenon DEF RecvLocalMsg
<1>2. /\ UNCHANGED <<delayQ, todo, inbox, unborn, settled, unsent>>
      /\ estate[e] = "idle"
  BY Zenon DEF RecvLocalMsg, schedVars, callVars
<1>3. Births /\ ecall[e] = NoCall /\ Once(delayQ) /\ Once(sharedChan)
  BY <1>2, Zenon DEF PlaceInv, Births, QueuesOnce
<1>4. CASE m.type = "reply"
  <2>1. CallsOf(m) = {} /\ UNCHANGED <<sharedChan, estate, ecall>>
    BY <1>a, <1>1, <1>4, MessageCalls, Zenon DEF RecvLocalMsg
  <2>2. Births'
    BY <1>2, <1>3, <2>1, Zenon DEF Births
  <2> QED
    BY <1>1, <1>2, <1>3, <2>1, <2>2, NothingMoves, Zenon
<1>5. CASE m.type = "call"
  <2>1. PICK c : c = m.call
    BY Zenon
  <2>2. CallsOf(m) = {c} /\ c \in Calls
    BY <1>1, <1>5, <2>1, MessageCalls, Zenon DEF ToExecutor
  <2>3. /\ Send(StatusMsg(e, "busy"))
        /\ estate' = [estate EXCEPT ![e] = "load"]
        /\ ecall' = [ecall EXCEPT ![e] = c]
    BY <1>a, <1>5, <2>1, Zenon DEF RecvLocalMsg
  <2>4. /\ \A d : Holds(sharedChan', d) <=> Holds(sharedChan, d)
        /\ Once(sharedChan')
    BY <2>3, StatusHolds, Zenon
  <2>5. /\ \A x \in Executors : estate'[x] = IF x = e THEN "load" ELSE estate[x]
        /\ \A x \in Executors : ecall'[x] = IF x = e THEN c ELSE ecall[x]
    BY <2>3, Zenon DEF Typed
  <2>6. \A x \in Executors : \A d : Holds(localChan'[x], d) <=> Holds(localChan[x], d) /\ ~(x = e /\ d = c)
    BY <1>1, <2>2, Zenon
  <2>7. Holds(localChan[e], c)
    BY <1>1, <2>2, Zenon
  <2>8. NoCall \notin Calls
    BY DispatchAssumption, Zenon
  <2>9. ASSUME NEW d \in Calls PROVE \E t, y : Spot(d, t, y)'
    <3>1. PICK t, y : Spot(d, t, y)
      BY Zenon DEF PlaceInv, Placed
    <3>2. CASE d = c
      <4>1. t = "local" /\ y = e
        BY <2>7, <3>1, <3>2, Zenon DEF Spot
      <4>2. Spot(d, "exec", e)'
        BY <1>2, <2>4, <2>5, <2>6, <3>1, <3>2, <4>1, Zenon DEF Spot, Tags
      <4> QED
        BY <4>2, Zenon
    <3>3. CASE d # c
      <4>1. Spot(d, t, y)'
        BY <1>2, <1>3, <2>4, <2>5, <2>6, <2>8, <3>1, <3>3, Zenon DEF Spot
      <4> QED
        BY <4>1, Zenon
    <3> QED
      BY <3>2, <3>3, Zenon
  <2>10. Placed'
    BY <2>9, Zenon DEF Placed
  <2>11. QueuesOnce'
    BY <1>1, <1>2, <1>3, <2>4, Zenon DEF QueuesOnce
  <2>12. Births'
    <3>1. \A x \in Executors : estate'[x] = "idle" => ecall'[x] = NoCall
      BY <1>3, <2>5, Zenon DEF Births
    <3>2. unsent[e] = {}
      BY <1>3, <2>8, Zenon DEF Births
    <3>3. \A x \in Executors : /\ unsent'[x] \subseteq unborn'
                               /\ unsent'[x] # {} => ecall'[x] \in Calls /\ unsent'[x] \subseteq Children[ecall'[x]]
      BY <1>2, <1>3, <2>5, <3>2, Zenon DEF Births
    <3>4. ASSUME NEW d \in Calls, settled'[d] = "no",
                 \A x \in Executors : ecall'[x] = d => estate'[x] = "load"
          PROVE  Children[d] \subseteq unborn'
      <4>1. \A x \in Executors : ecall[x] = d => estate[x] = "load"
        BY <1>3, <2>5, <2>8, <3>4, Zenon
      <4> QED
        BY <1>2, <1>3, <3>4, <4>1, Zenon DEF Births
    <3> QED
      BY <3>1, <3>3, <3>4, Zenon DEF Births
  <2> QED
    BY <2>10, <2>11, <2>12, Zenon DEF PlaceInv
<1> QED
  BY <1>1, <1>4, <1>5, Zenon DEF ToExecutor

LEMMA ReleasePlaces ==
  ASSUME Typed, PlaceInv, NEW e \in Executors, estate[e] # "idle",
         NEW fate \in {"done", "failed"}, Release(e, fate)
  PROVE  PlaceInv'
<1>1. PICK c : c = ecall[e]
  BY Zenon
<1>2. c \in Calls
  BY <1>1, Zenon DEF Typed
<1>3. /\ Send(StatusMsg(e, "avail")) /\ Settle({c}, fate)
      /\ UNCHANGED <<delayQ, todo, localChan, inbox, unborn>>
  BY <1>1, Zenon DEF Release, schedVars
<1>4. \A d \in Calls : settled'[d] # "no" <=> settled[d] # "no" \/ d = c
  <2>1. fate \in Fates \ {"no"}
    BY Zenon DEF Fates
  <2> QED
    BY <1>2, <1>3, <2>1, OneSettles, Zenon
<1>5. /\ \A d : Holds(sharedChan', d) <=> Holds(sharedChan, d)
      /\ Once(sharedChan')
  BY <1>3, StatusHolds, Zenon
<1>6. \A x \in Executors : /\ estate'[x] = IF x = e THEN "idle" ELSE estate[x]
                           /\ ecall'[x] = IF x = e THEN NoCall ELSE ecall[x]
                           /\ unsent'[x] = IF x = e THEN {} ELSE unsent[x]
  BY Zenon DEF Release, Typed
<1>7. NoCall \notin Calls
  BY DispatchAssumption, Zenon
<1>8. ASSUME NEW d \in Calls PROVE \E t, y : Spot(d, t, y)'
  <2>1. PICK t, y : Spot(d, t, y)
    BY Zenon DEF PlaceInv, Placed
  <2>2. CASE d = c
    <3>1. t = "exec" /\ y = e
      BY <1>1, <2>1, <2>2, Zenon DEF Spot
    <3>2. Spot(d, "settled", e)'
      BY <1>3, <1>4, <1>5, <1>6, <1>7, <2>1, <2>2, <3>1, Zenon DEF Spot, Tags
    <3> QED
      BY <3>2, Zenon
  <2>3. CASE d # c
    <3>1. Spot(d, t, y)'
      BY <1>1, <1>3, <1>4, <1>5, <1>6, <1>7, <2>1, <2>3, Zenon DEF Spot
    <3> QED
      BY <3>1, Zenon
  <2> QED
    BY <2>2, <2>3, Zenon
<1>9. Placed'
  BY <1>8, Zenon DEF Placed
<1>10. QueuesOnce'
  BY <1>3, <1>5, Zenon DEF PlaceInv, QueuesOnce
<1>11. Births'
  <2>0. Births
    BY Zenon DEF PlaceInv
  <2>1. \A x \in Executors :
          /\ estate'[x] = "idle" => ecall'[x] = NoCall
          /\ unsent'[x] \subseteq unborn'
          /\ unsent'[x] # {} => ecall'[x] \in Calls /\ unsent'[x] \subseteq Children[ecall'[x]]
    BY <1>3, <1>6, <2>0, Zenon DEF Births
  <2>2. ASSUME NEW d \in Calls, settled'[d] = "no",
               \A x \in Executors : ecall'[x] = d => estate'[x] = "load"
        PROVE  Children[d] \subseteq unborn'
    <3>1. d # c /\ settled[d] = "no"
      BY <1>4, <2>2, Zenon
    <3>2. \A x \in Executors : ecall[x] = d => estate[x] = "load"
      BY <1>1, <1>6, <2>2, <3>1, Zenon
    <3> QED
      BY <1>3, <2>0, <3>1, <3>2, Zenon DEF Births
  <2> QED
    BY <2>1, <2>2, Zenon DEF Births
<1> QED
  BY <1>9, <1>10, <1>11, Zenon DEF PlaceInv

\* The invocations a function makes were unborn and are in one message.
LEMMA SendObjectPlaces ==
  ASSUME Typed, PlaceInv, NEW e \in Executors, SendObject(e)
  PROVE  PlaceInv'
<1>1. PICK t0 \in {"batch", "target"}, K \in SUBSET unsent[e] :
        /\ Send([type |-> t0, from |-> e, kids |-> K])
        /\ unsent' = [unsent EXCEPT ![e] = @ \ K]
        /\ unborn' = unborn \ K
  <2>1. CASE /\ Send([type |-> "batch", from |-> e, kids |-> unsent[e]])
             /\ unsent' = [unsent EXCEPT ![e] = {}]
             /\ unborn' = unborn \ unsent[e]
    <3>1. unsent[e] \ unsent[e] = {}
      BY Zenon
    <3>2. unsent' = [unsent EXCEPT ![e] = @ \ unsent[e]]
      BY <2>1, <3>1, Zenon
    <3> QED
      BY <2>1, <3>2, Zenon
  <2>2. CASE \E k \in unsent[e] :
               /\ Send([type |-> "target", from |-> e, kids |-> {k}])
               /\ unsent' = [unsent EXCEPT ![e] = @ \ {k}]
               /\ unborn' = unborn \ {k}
    BY <2>2, Zenon
  <2> QED
    BY <2>1, <2>2, Zenon DEF SendObject
<1>2. /\ UNCHANGED <<delayQ, todo, localChan, estate, ecall, inbox, settled>>
      /\ estate[e] = "run"
  BY Zenon DEF SendObject, schedVars
<1>3. PICK m : m = [type |-> t0, from |-> e, kids |-> K]
  BY Zenon
<1>4. K \subseteq Calls /\ unsent[e] \in SUBSET Calls
  BY Zenon DEF Typed
<1>5. m \in ToScheduler /\ CallsOf(m) = K
  <2>1. m \in ToScheduler /\ m.type = t0 /\ m.kids = K
    BY <1>3, <1>4, Zenon DEF ToScheduler
  <2> QED
    BY <2>1, MessageCalls, Zenon
<1>6. Births /\ K \subseteq unborn
  BY Zenon DEF PlaceInv, Births
<1>7. \A d \in K : ~Holds(sharedChan, d)
  <2> SUFFICES ASSUME NEW d \in K PROVE ~Holds(sharedChan, d)
    BY Zenon
  <2>1. PICK t, y : Spot(d, t, y)
    BY <1>4, Zenon DEF PlaceInv, Placed
  <2> QED
    BY <1>6, <2>1, Zenon DEF Spot
<1>8. sharedChan \in Seq(ToScheduler) /\ Once(sharedChan) /\ sharedChan' = Append(sharedChan, m)
  BY <1>1, <1>3, Zenon DEF Typed, PlaceInv, QueuesOnce, Send
<1>9. \A d : Holds(sharedChan', d) <=> Holds(sharedChan, d) \/ d \in K
  BY <1>5, <1>8, AppendHolds, Zenon
<1>10. Once(sharedChan')
  BY <1>5, <1>7, <1>8, AppendHolds, Zenon
<1>11. ASSUME NEW d \in Calls PROVE \E t, y : Spot(d, t, y)'
  <2>1. PICK t, y : Spot(d, t, y)
    BY Zenon DEF PlaceInv, Placed
  <2>2. CASE d \in K
    <3>1. Spot(d, "shared", e)'
      BY <1>1, <1>2, <1>6, <1>9, <2>1, <2>2, Zenon DEF Spot, Tags
    <3> QED
      BY <3>1, Zenon
  <2>3. CASE d \notin K
    <3>1. Spot(d, t, y)'
      BY <1>1, <1>2, <1>9, <2>1, <2>3, Zenon DEF Spot
    <3> QED
      BY <3>1, Zenon
  <2> QED
    BY <2>2, <2>3, Zenon
<1>12. Placed'
  BY <1>11, Zenon DEF Placed
<1>13. QueuesOnce'
  BY <1>2, <1>10, Zenon DEF PlaceInv, QueuesOnce
<1>14. PICK c : c = ecall[e]
  BY Zenon
<1>15. c \in Calls /\ K \subseteq Children[c]
  BY <1>2, <1>6, <1>14, Zenon DEF Births, Typed
<1>16. \A d \in Calls : d # c => Children[d] \cap K = {}
  BY <1>15, DispatchAssumption, Zenon
<1>17. \A x \in Executors : unsent'[x] = IF x = e THEN unsent[x] \ K ELSE unsent[x]
  BY <1>1, Zenon DEF Typed
<1>18. \A x \in Executors : x # e => ecall[x] # c
  <2>1. PICK t, y : Spot(c, t, y)
    BY <1>15, Zenon DEF PlaceInv, Placed
  <2> QED
    BY <1>14, <2>1, Zenon DEF Spot
<1>19. Births'
  <2>1. \A x \in Executors : estate'[x] = "idle" => ecall'[x] = NoCall
    BY <1>2, <1>6, Zenon DEF Births
  <2>2. ASSUME NEW x \in Executors
        PROVE  /\ unsent'[x] \subseteq unborn'
               /\ unsent'[x] # {} => ecall'[x] \in Calls /\ unsent'[x] \subseteq Children[ecall'[x]]
    <3>1. CASE x = e
      BY <1>1, <1>2, <1>6, <1>17, <3>1, SMTT(30) DEF Births
    <3>2. CASE x # e
      <4>1. unsent'[x] = unsent[x] /\ unsent[x] \subseteq unborn
        BY <1>6, <1>17, <3>2, Zenon DEF Births
      <4>2. CASE unsent[x] = {}
        BY <4>1, <4>2, Zenon
      <4>3. CASE unsent[x] # {}
        <5>1. ecall[x] \in Calls /\ unsent[x] \subseteq Children[ecall[x]]
          BY <1>6, <4>3, Zenon DEF Births
        <5>2. unsent[x] \cap K = {}
          BY <1>16, <1>18, <3>2, <5>1, Zenon
        <5> QED
          BY <1>1, <1>2, <4>1, <5>1, <5>2, Zenon
      <4> QED
        BY <4>2, <4>3, Zenon
    <3> QED
      BY <3>1, <3>2, Zenon
  <2>3. ASSUME NEW d \in Calls, settled'[d] = "no",
               \A x \in Executors : ecall'[x] = d => estate'[x] = "load"
        PROVE  Children[d] \subseteq unborn'
    <3>1. d # c
      BY <1>2, <1>14, <2>3, Zenon
    <3>2. Children[d] \subseteq unborn
      BY <1>2, <1>6, <2>3, Zenon DEF Births
    <3> QED
      BY <1>1, <1>16, <3>1, <3>2, Zenon
  <2> QED
    BY <2>1, <2>2, <2>3, Zenon DEF Births
<1> QED
  BY <1>12, <1>13, <1>19, Zenon DEF PlaceInv

\* A call that is consumed by an executor that waits for a reply is settled.
LEMMA WakeUpPlaces ==
  ASSUME Typed, PlaceInv, NEW e \in Executors, WakeUp(e)
  PROVE  PlaceInv'
<1>a. PICK m : m = Head(localChan[e])
  BY Zenon
<1>1. /\ m \in ToExecutor
      /\ \A c \in CallsOf(m) : Holds(localChan[e], c)
      /\ \A x \in Executors : Once(localChan'[x])
      /\ \A x \in Executors : \A c :
           Holds(localChan'[x], c) <=> Holds(localChan[x], c) /\ ~(x = e /\ c \in CallsOf(m))
  BY <1>a, ChannelFront, Zenon DEF WakeUp
<1>2. /\ UNCHANGED <<delayQ, todo, sharedChan, ecall, unsent, inbox, unborn>>
      /\ IF m.type = "call" THEN Settle({m.call}, "stolen") ELSE UNCHANGED settled
      /\ estate[e] \in {"get", "put"}
      /\ \A x \in Executors : estate'[x] = IF x = e THEN "run" ELSE estate[x]
  BY <1>a, Zenon DEF WakeUp, schedVars, Typed
<1>3. Births /\ Once(delayQ') /\ Once(sharedChan')
  BY <1>2, Zenon DEF PlaceInv, QueuesOnce
<1>4. \A d \in Calls : settled'[d] # "no" <=> settled[d] # "no" \/ d \in CallsOf(m)
  <2>1. CASE m.type = "call"
    <3>1. m.call \in Calls /\ CallsOf(m) = {m.call}
      BY <1>1, <2>1, MessageCalls, Zenon DEF ToExecutor
    <3>2. Settle({m.call}, "stolen") /\ "stolen" \in Fates \ {"no"}
      BY <1>2, <2>1, Zenon DEF Fates
    <3>3. \A d \in Calls : settled'[d] # "no" <=> settled[d] # "no" \/ d = m.call
      BY <3>1, <3>2, OneSettles, Zenon
    <3> QED
      BY <3>1, <3>3, Zenon
  <2>2. CASE m.type # "call"
    BY <1>1, <1>2, <2>2, MessageCalls, Zenon
  <2> QED
    BY <2>1, <2>2, Zenon
<1>5. ASSUME NEW d \in Calls PROVE \E t, y : Spot(d, t, y)'
  <2>1. PICK t, y : Spot(d, t, y)
    BY Zenon DEF PlaceInv, Placed
  <2>2. CASE d \in CallsOf(m)
    <3>1. t = "local" /\ y = e
      BY <1>1, <2>1, <2>2, Zenon DEF Spot
    <3>2. Spot(d, "settled", e)'
      BY <1>1, <1>2, <1>4, <2>1, <2>2, <3>1, Zenon DEF Spot, Tags
    <3> QED
      BY <3>2, Zenon
  <2>3. CASE d \notin CallsOf(m)
    <3>1. Spot(d, t, y)'
      BY <1>1, <1>2, <1>4, <2>1, <2>3, Zenon DEF Spot
    <3> QED
      BY <3>1, Zenon
  <2> QED
    BY <2>2, <2>3, Zenon
<1>6. Placed'
  BY <1>5, Zenon DEF Placed
<1>7. QueuesOnce'
  BY <1>1, <1>3, Zenon DEF QueuesOnce
<1>8. Births'
  <2>1. \A x \in Executors : estate'[x] = "idle" => ecall'[x] = NoCall
    BY <1>2, <1>3, Zenon DEF Births
  <2>2. \A d \in Calls : settled'[d] = "no" => settled[d] = "no"
    BY <1>4, Zenon
  <2>3. \A x \in Executors : estate'[x] = "load" => estate[x] = "load"
    BY <1>2, Zenon
  <2> QED
    BY <1>2, <1>3, <2>1, <2>2, <2>3, Zenon DEF Births
<1> QED
  BY <1>6, <1>7, <1>8, Zenon DEF PlaceInv

\* A function that starts has made none of its invocations.
LEMMA StartBirths ==
  ASSUME Typed, PlaceInv, NEW e \in Executors, StartFunction(e)
  PROVE  Births'
<1>1. PICK c : c = ecall[e]
  BY Zenon
<1>2. /\ UNCHANGED <<ecall, unborn, settled>>
      /\ estate[e] = "load"
      /\ \A x \in Executors : estate'[x] = IF x = e THEN "run" ELSE estate[x]
      /\ \A x \in Executors : unsent'[x] = IF x = e THEN Children[c] ELSE unsent[x]
  BY <1>1, Zenon DEF StartFunction, callVars, Typed
<1>3. c \in Calls
  BY <1>1, <1>2, Zenon DEF Typed
<1>4. PICK t, y : Spot(c, t, y)
  BY <1>3, Zenon DEF PlaceInv, Placed
<1>5. settled[c] = "no" /\ \A x \in Executors : ecall[x] = c => x = e
  BY <1>1, <1>4, Zenon DEF Spot
<1>6. Births
  BY Zenon DEF PlaceInv
<1>7. Children[c] \subseteq unborn
  BY <1>2, <1>3, <1>5, <1>6, Zenon DEF Births
<1>8. \A x \in Executors :
        /\ estate'[x] = "idle" => ecall'[x] = NoCall
        /\ unsent'[x] \subseteq unborn'
        /\ unsent'[x] # {} => ecall'[x] \in Calls /\ unsent'[x] \subseteq Children[ecall'[x]]
  BY <1>1, <1>2, <1>3, <1>6, <1>7, Zenon DEF Births
<1>9. \A x \in Executors : estate'[x] = "load" => estate[x] = "load"
  BY <1>2, Zenon
<1> QED
  BY <1>2, <1>6, <1>8, <1>9, ZenonT(40) DEF Births

LEMMA ExecutorPlaces ==
  ASSUME Typed, PlaceInv, NEW e \in Executors, ExecutorStep(e) \/ Report(e)
  PROVE  PlaceInv'
<1>1. CASE LoadFails(e) \/ FinishFunction(e)
  BY <1>1, ReleasePlaces, Zenon DEF LoadFails, FinishFunction
<1>2. CASE StartFunction(e) \/ BlockOnRequest(e) \/ WaitTimeout(e) \/ Report(e)
  <2>1. UNCHANGED <<delayQ, todo, localChan, ecall, inbox, unborn, settled>>
    BY <1>2, Zenon DEF StartFunction, BlockOnRequest, WaitTimeout, Report, schedVars, callVars
  <2>2. /\ \A c \in Calls : Holds(sharedChan', c) <=> Holds(sharedChan, c)
        /\ Once(sharedChan')
    <3>1. CASE sharedChan' = sharedChan
      BY <3>1, Zenon DEF PlaceInv, QueuesOnce
    <3>2. CASE Report(e)
      BY <3>2, StatusHolds, Zenon DEF Report
    <3>3. CASE BlockOnRequest(e)
      <4>1. PICK op \in BlockingOps : Send([type |-> op, from |-> e, rid |-> rid[e] + 1])
        BY <3>3, Zenon DEF BlockOnRequest
      <4>2. PICK m : m = [type |-> op, from |-> e, rid |-> rid[e] + 1]
        BY Zenon
      <4>3. op \in {"get", "put"}
        BY DispatchAssumption, Zenon
      <4>4. m \in ToScheduler /\ m.type = op
        <5>1. rid[e] + 1 \in Nat
          BY DEF Typed
        <5> QED
          BY <4>2, <4>3, <5>1, Zenon DEF ToScheduler
      <4>5. CallsOf(m) = {}
        BY <4>3, <4>4, MessageCalls, Zenon
      <4>6. sharedChan \in Seq(ToScheduler) /\ Once(sharedChan) /\ sharedChan' = Append(sharedChan, m)
        BY <4>1, <4>2, Zenon DEF Typed, PlaceInv, QueuesOnce, Send
      <4>7. \A c : Holds(sharedChan', c) <=> Holds(sharedChan, c)
        BY <4>4, <4>5, <4>6, AppendHolds, Zenon
      <4>8. Once(sharedChan')
        BY <4>4, <4>5, <4>6, AppendHolds, Zenon
      <4> QED
        BY <4>7, <4>8, Zenon
    <3> QED
      BY <1>2, <3>1, <3>2, <3>3, Zenon DEF StartFunction, WaitTimeout
  <2>3. Once(delayQ') /\ \A x \in Executors : Once(localChan'[x])
    BY <2>1, Zenon DEF PlaceInv, QueuesOnce
  <2>4. Births'
    <3>0. Births
      BY Zenon DEF PlaceInv
    <3>1. CASE Report(e)
      <4>1. UNCHANGED <<estate, unsent>>
        BY <3>1, Zenon DEF Report
      <4> QED
        BY <2>1, <3>0, <4>1, Zenon DEF Births
    <3>2. CASE BlockOnRequest(e) \/ WaitTimeout(e)
      <4>1. \A op \in BlockingOps : op \in {"get", "put"}
        BY DispatchAssumption, Zenon
      <4>2. /\ UNCHANGED unsent
            /\ estate[e] # "idle" /\ estate'[e] \notin {"idle", "load"}
            /\ \A x \in Executors \ {e} : estate'[x] = estate[x]
        BY <3>2, <4>1, Zenon DEF BlockOnRequest, WaitTimeout, Typed
      <4> QED
        BY <2>1, <3>0, <4>2, ExecutorBirths, Zenon
    <3> QED
      BY <1>2, <3>1, <3>2, StartBirths, Zenon
  <2> QED
    BY <2>1, <2>2, <2>3, <2>4, NothingMoves, Zenon
<1> QED
  BY <1>1, <1>2, RecvLocalPlaces, SendObjectPlaces, WakeUpPlaces, Zenon DEF ExecutorStep

LEMMA InitPlaces == Init => PlaceInv
<1> SUFFICES ASSUME Init PROVE PlaceInv
  BY Zenon
<1>0. Init
  BY Zenon
<1>1. \A q : q = <<>> => Once(q) /\ \A c : ~Holds(q, c)
  BY DEF Once, Holds
<1>2. delayQ = <<>> /\ sharedChan = <<>> /\ \A e \in Executors : localChan[e] = <<>>
  BY <1>0, Zenon DEF Init
<1>3. QueuesOnce
  BY <1>1, <1>2, Zenon DEF QueuesOnce
<1>4. ASSUME NEW c \in Calls PROVE \E t, e : Spot(c, t, e)
  <2>1. /\ todo = {} /\ settled[c] = "no" /\ \A x \in Executors : ecall[x] # c
        /\ c \in inbox <=> c \in Roots
        /\ c \in unborn <=> c \notin Roots
    BY <1>0, DispatchAssumption, ZenonT(40) DEF Init
  <2>2. CASE c \in Roots
    <3>1. Spot(c, "inbox", c)
      BY <1>1, <1>2, <2>1, <2>2, Zenon DEF Spot, Tags
    <3> QED
      BY <3>1, Zenon
  <2>3. CASE c \notin Roots
    <3>1. Spot(c, "unborn", c)
      BY <1>1, <1>2, <2>1, <2>3, Zenon DEF Spot, Tags
    <3> QED
      BY <3>1, Zenon
  <2> QED
    BY <2>2, <2>3, Zenon
<1>5. Placed
  BY <1>4, Zenon DEF Placed
<1>6. \A c \in Calls : Children[c] \subseteq unborn
  BY <1>0, DispatchAssumption DEF Init, Roots
<1>7. Births
  BY <1>0, <1>6, Zenon DEF Init, Births
<1> QED
  BY <1>3, <1>5, <1>7, Zenon DEF PlaceInv

\* The sets that Places is the union of.
QueuePlaces(c) ==
  {<<"delay", i>> : i \in {j \in DOMAIN delayQ : delayQ[j].call = c}}

SharedPlaces(c) ==
  {<<"shared", i>> : i \in {j \in DOMAIN sharedChan :
     sharedChan[j].type \in {"batch", "target"} /\ c \in sharedChan[j].kids}}

LocalPlaces(c) ==
  UNION {{<<"local", e, i>> : i \in {j \in DOMAIN localChan[e] :
     localChan[e][j] = [type |-> "call", call |-> c]}} : e \in Executors}

ExecPlaces(c) == {<<"exec", e>> : e \in {x \in Executors : ecall[x] = c}}

LEMMA PlacesUnion ==
  ASSUME NEW c
  PROVE  Places(c) = (IF c \in inbox THEN {<<"inbox">>} ELSE {})
                       \cup (IF c \in unborn THEN {<<"unborn">>} ELSE {})
                       \cup (IF c \in todo THEN {<<"todo">>} ELSE {})
                       \cup (IF settled[c] # "no" THEN {<<"settled">>} ELSE {})
                       \cup QueuePlaces(c) \cup SharedPlaces(c) \cup LocalPlaces(c) \cup ExecPlaces(c)
  BY Zenon DEF Places, QueuePlaces, SharedPlaces, LocalPlaces, ExecPlaces

\* What a queue holds of c, seen by position.
LEMMA QueueEntries ==
  ASSUME Typed, NEW c \in Calls
  PROVE  /\ \A i \in DOMAIN delayQ : c \in CallsOf(delayQ[i]) <=> delayQ[i].call = c
         /\ \A i \in DOMAIN sharedChan : c \in CallsOf(sharedChan[i]) <=>
              sharedChan[i].type \in {"batch", "target"} /\ c \in sharedChan[i].kids
         /\ \A e \in Executors : \A i \in DOMAIN localChan[e] : c \in CallsOf(localChan[e][i]) <=>
              localChan[e][i] = [type |-> "call", call |-> c]
<1>1. ASSUME NEW i \in DOMAIN delayQ PROVE c \in CallsOf(delayQ[i]) <=> delayQ[i].call = c
  <2>1. delayQ[i] \in Delayed
    BY DEF Typed
  <2>2. CallsOf(delayQ[i]) = {delayQ[i].call}
    BY <2>1, MessageCalls, Zenon
  <2> QED
    BY <2>2, Zenon
<1>2. ASSUME NEW i \in DOMAIN sharedChan
      PROVE  c \in CallsOf(sharedChan[i]) <=>
               sharedChan[i].type \in {"batch", "target"} /\ c \in sharedChan[i].kids
  <2>1. sharedChan[i] \in ToScheduler
    BY DEF Typed
  <2>2. CallsOf(sharedChan[i]) = IF sharedChan[i].type \in {"batch", "target"} THEN sharedChan[i].kids ELSE {}
    BY <2>1, MessageCalls, Zenon
  <2> QED
    BY <2>2, Zenon
<1>3. ASSUME NEW e \in Executors, NEW i \in DOMAIN localChan[e]
      PROVE  c \in CallsOf(localChan[e][i]) <=> localChan[e][i] = [type |-> "call", call |-> c]
  <2>1. PICK m : m = localChan[e][i]
    BY Zenon
  <2>2. m \in ToExecutor
    BY <2>1 DEF Typed
  <2>3. CallsOf(m) = IF m.type = "call" THEN {m.call} ELSE {}
    BY <2>2, MessageCalls, Zenon
  <2>4. m.type = "call" /\ m.call = c <=> m = [type |-> "call", call |-> c]
    BY <2>2 DEF ToExecutor
  <2> QED
    BY <2>1, <2>3, <2>4, Zenon
<1> QED
  BY <1>1, <1>2, <1>3, Zenon

\* A queue has one place for a call it holds, and none for another.
LEMMA QueueOnePlace ==
  ASSUME Typed, QueuesOnce, NEW c \in Calls
  PROVE  /\ ~Holds(delayQ, c) => QueuePlaces(c) = {}
         /\ Holds(delayQ, c) => \E p : QueuePlaces(c) = {p}
<1>1. \A i \in DOMAIN delayQ : c \in CallsOf(delayQ[i]) <=> delayQ[i].call = c
  BY QueueEntries, Zenon
<1>2. CASE ~Holds(delayQ, c)
  BY <1>1, <1>2, Zenon DEF Holds, QueuePlaces
<1>3. CASE Holds(delayQ, c)
  <2>1. PICK i \in DOMAIN delayQ : c \in CallsOf(delayQ[i])
    BY <1>3, Zenon DEF Holds
  <2>2. {j \in DOMAIN delayQ : delayQ[j].call = c} = {i}
    BY <1>1, <2>1, Zenon DEF QueuesOnce, Once
  <2>3. QueuePlaces(c) = {<<"delay", i>>}
    BY <2>2, Zenon DEF QueuePlaces
  <2> QED
    BY <1>3, <2>3, Zenon
<1> QED
  BY <1>2, <1>3, Zenon

LEMMA SharedOnePlace ==
  ASSUME Typed, QueuesOnce, NEW c \in Calls
  PROVE  /\ ~Holds(sharedChan, c) => SharedPlaces(c) = {}
         /\ Holds(sharedChan, c) => \E p : SharedPlaces(c) = {p}
<1>1. \A i \in DOMAIN sharedChan : c \in CallsOf(sharedChan[i]) <=>
        sharedChan[i].type \in {"batch", "target"} /\ c \in sharedChan[i].kids
  BY QueueEntries, Zenon
<1>2. CASE ~Holds(sharedChan, c)
  BY <1>1, <1>2, Zenon DEF Holds, SharedPlaces
<1>3. CASE Holds(sharedChan, c)
  <2>1. PICK i \in DOMAIN sharedChan : c \in CallsOf(sharedChan[i])
    BY <1>3, Zenon DEF Holds
  <2>2. {j \in DOMAIN sharedChan : sharedChan[j].type \in {"batch", "target"} /\ c \in sharedChan[j].kids}
          = {i}
    BY <1>1, <2>1, Zenon DEF QueuesOnce, Once
  <2>3. SharedPlaces(c) = {<<"shared", i>>}
    BY <2>2, Zenon DEF SharedPlaces
  <2> QED
    BY <1>3, <2>3, Zenon
<1> QED
  BY <1>2, <1>3, Zenon

LEMMA LocalOnePlace ==
  ASSUME Typed, QueuesOnce, NEW c \in Calls
  PROVE  /\ (\A x \in Executors : ~Holds(localChan[x], c)) => LocalPlaces(c) = {}
         /\ \A e \in Executors :
              (\A x \in Executors : Holds(localChan[x], c) <=> x = e) => \E p : LocalPlaces(c) = {p}
<1> DEFINE At(x) == {j \in DOMAIN localChan[x] : localChan[x][j] = [type |-> "call", call |-> c]}
<1>1. \A x \in Executors : \A i \in DOMAIN localChan[x] :
        c \in CallsOf(localChan[x][i]) <=> localChan[x][i] = [type |-> "call", call |-> c]
  BY QueueEntries, Zenon
<1>2. \A x \in Executors : ~Holds(localChan[x], c) => At(x) = {}
  BY <1>1, Zenon DEF Holds
<1>3. \A x \in Executors : Holds(localChan[x], c) => \E i : At(x) = {i}
  <2> SUFFICES ASSUME NEW x \in Executors, Holds(localChan[x], c) PROVE \E i : At(x) = {i}
    BY Zenon
  <2>1. PICK i \in DOMAIN localChan[x] : c \in CallsOf(localChan[x][i])
    BY Zenon DEF Holds
  <2>2. \A j \in DOMAIN localChan[x] : c \in CallsOf(localChan[x][j]) => j = i
    <3>1. Once(localChan[x])
      BY Zenon DEF QueuesOnce
    <3> QED
      BY <2>1, <3>1, Zenon DEF Once
  <2>3. \A j \in DOMAIN localChan[x] : localChan[x][j] = [type |-> "call", call |-> c] <=> j = i
    BY <1>1, <2>1, <2>2, Zenon
  <2>4. At(x) = {i}
    BY <2>1, <2>3, Zenon
  <2> HIDE DEF At
  <2> QED
    BY <2>4, Zenon
<1>4. LocalPlaces(c) = UNION {{<<"local", x, i>> : i \in At(x)} : x \in Executors}
  BY Zenon DEF LocalPlaces
<1> HIDE DEF At
<1>5. ASSUME \A x \in Executors : ~Holds(localChan[x], c)
      PROVE  LocalPlaces(c) = {}
  BY <1>2, <1>4, <1>5, Zenon
<1>6. ASSUME NEW e \in Executors, \A x \in Executors : Holds(localChan[x], c) <=> x = e
      PROVE  \E p : LocalPlaces(c) = {p}
  <2>1. PICK i : At(e) = {i}
    BY <1>3, <1>6, Zenon
  <2>2. \A x \in Executors : x # e => At(x) = {}
    BY <1>2, <1>6, Zenon
  <2>3. ASSUME NEW p PROVE p \in LocalPlaces(c) <=> p = <<"local", e, i>>
    <3>1. p \in LocalPlaces(c) <=> \E x \in Executors : \E j \in At(x) : p = <<"local", x, j>>
      BY <1>4
    <3>2. \A x \in Executors : \A j : j \in At(x) <=> x = e /\ j = i
      BY <2>1, <2>2, Zenon
    <3> QED
      BY <3>1, <3>2, Zenon
  <2>4. LocalPlaces(c) = {<<"local", e, i>>}
    BY <2>3, Zenon
  <2> QED
    BY <2>4, Zenon
<1> QED
  BY <1>5, <1>6, Zenon

LEMMA ExecOnePlace ==
  ASSUME NEW c \in Calls
  PROVE  /\ (\A x \in Executors : ecall[x] # c) => ExecPlaces(c) = {}
         /\ \A e \in Executors :
              (\A x \in Executors : ecall[x] = c <=> x = e) => \E p : ExecPlaces(c) = {p}
<1>1. ASSUME \A x \in Executors : ecall[x] # c PROVE ExecPlaces(c) = {}
  BY <1>1, Zenon DEF ExecPlaces
<1>2. ASSUME NEW e \in Executors, \A x \in Executors : ecall[x] = c <=> x = e
      PROVE  \E p : ExecPlaces(c) = {p}
  <2>1. {x \in Executors : ecall[x] = c} = {e}
    BY <1>2, Zenon
  <2>2. ExecPlaces(c) = {<<"exec", e>>}
    BY <2>1, Zenon DEF ExecPlaces
  <2> QED
    BY <2>2, Zenon
<1> QED
  BY <1>1, <1>2, Zenon

\* The places of a call, wherever it is, are one.
LEMMA SpotOnePlace ==
  ASSUME Typed, QueuesOnce, NEW c \in Calls, NEW t, NEW e, Spot(c, t, e)
  PROVE  \E p : Places(c) = {p}
<1> DEFINE In == IF c \in inbox THEN {<<"inbox">>} ELSE {}
           Un == IF c \in unborn THEN {<<"unborn">>} ELSE {}
           To == IF c \in todo THEN {<<"todo">>} ELSE {}
           Se == IF settled[c] # "no" THEN {<<"settled">>} ELSE {}
<1>1. Places(c) = In \cup Un \cup To \cup Se \cup QueuePlaces(c) \cup SharedPlaces(c)
                     \cup LocalPlaces(c) \cup ExecPlaces(c)
  BY PlacesUnion, Zenon
<1>2. /\ IF t = "inbox" THEN In = {<<"inbox">>} ELSE In = {}
      /\ IF t = "unborn" THEN Un = {<<"unborn">>} ELSE Un = {}
      /\ IF t = "todo" THEN To = {<<"todo">>} ELSE To = {}
      /\ IF t = "settled" THEN Se = {<<"settled">>} ELSE Se = {}
  BY Zenon DEF Spot
<1> HIDE DEF In, Un, To, Se
<1>3. IF t = "delay" THEN \E p : QueuePlaces(c) = {p} ELSE QueuePlaces(c) = {}
  BY QueueOnePlace, Zenon DEF Spot
<1>4. IF t = "shared" THEN \E p : SharedPlaces(c) = {p} ELSE SharedPlaces(c) = {}
  BY SharedOnePlace, Zenon DEF Spot
<1>5. IF t = "local" THEN \E p : LocalPlaces(c) = {p} ELSE LocalPlaces(c) = {}
  <2>1. CASE t = "local"
    <3>1. e \in Executors /\ \A x \in Executors : Holds(localChan[x], c) <=> x = e
      BY <2>1, Zenon DEF Spot
    <3> QED
      BY <2>1, <3>1, LocalOnePlace, Zenon
  <2>2. CASE t # "local"
    <3>1. \A x \in Executors : ~Holds(localChan[x], c)
      BY <2>2, Zenon DEF Spot
    <3> QED
      BY <2>2, <3>1, LocalOnePlace, Zenon
  <2> QED
    BY <2>1, <2>2, Zenon
<1>6. IF t = "exec" THEN \E p : ExecPlaces(c) = {p} ELSE ExecPlaces(c) = {}
  <2>1. CASE t = "exec"
    <3>1. e \in Executors /\ \A x \in Executors : ecall[x] = c <=> x = e
      BY <2>1, Zenon DEF Spot
    <3> QED
      BY <2>1, <3>1, ExecOnePlace, Zenon
  <2>2. CASE t # "exec"
    <3>1. \A x \in Executors : ecall[x] # c
      BY <2>2, Zenon DEF Spot
    <3> QED
      BY <2>2, <3>1, ExecOnePlace, Zenon
  <2> QED
    BY <2>1, <2>2, Zenon
<1>7. t \in Tags
  BY Zenon DEF Spot
<1>8. CASE t \in {"inbox", "unborn", "todo", "settled"}
  <2>1. Places(c) = {<<t>>}
    BY <1>1, <1>2, <1>3, <1>4, <1>5, <1>6, <1>8, Zenon
  <2> QED
    BY <2>1, Zenon
<1>9. CASE t = "delay"
  BY <1>1, <1>2, <1>3, <1>4, <1>5, <1>6, <1>9, Zenon
<1>10. CASE t = "shared"
  BY <1>1, <1>2, <1>3, <1>4, <1>5, <1>6, <1>10, Zenon
<1>11. CASE t = "local"
  BY <1>1, <1>2, <1>3, <1>4, <1>5, <1>6, <1>11, Zenon
<1>12. CASE t = "exec"
  BY <1>1, <1>2, <1>3, <1>4, <1>5, <1>6, <1>12, Zenon
<1> QED
  BY <1>7, <1>8, <1>9, <1>10, <1>11, <1>12, Zenon DEF Tags

LEMMA PlacesAreOne ==
  ASSUME Typed, PlaceInv
  PROVE  ExactlyOnePlace
<1> SUFFICES ASSUME NEW c \in Calls PROVE \E p \in Places(c) : Places(c) = {p}
  BY Zenon DEF ExactlyOnePlace
<1>1. PICK t, e : Spot(c, t, e)
  BY Zenon DEF PlaceInv, Placed
<1>2. PICK p : Places(c) = {p}
  BY <1>1, SpotOnePlace, Zenon DEF PlaceInv
<1> QED
  BY <1>2, Zenon

\* A call is in one place at any time: still to be sent by its client or by
\* the function that invokes it, in the scheduler's hands or its delay
\* queue, in a shared-memory channel, in an executor, or answered.  No
\* retry, stale reply, timer expiry or direct invocation loses or doubles it
\* (call_scheduler.hpp, executor.cpp).
THEOREM EveryCallIsInOnePlace == Spec => []ExactlyOnePlace
<1>1. Init => PlaceInv
  BY InitPlaces, Zenon
<1>2. Typed /\ PlaceInv /\ [Next]_vars => PlaceInv'
  <2> SUFFICES ASSUME Typed, PlaceInv, [Next]_vars PROVE PlaceInv'
    BY Zenon
  <2>1. CASE UNCHANGED vars
    <3>1. UNCHANGED <<delayQ, sharedChan, localChan, inbox, unborn, todo, settled, ecall, estate, unsent>>
      BY <2>1, Zenon DEF vars, schedVars, execVars, callVars
    <3>2. Births'
      BY <3>1, Zenon DEF PlaceInv, Births
    <3>3. Once(delayQ') /\ Once(sharedChan') /\ \A x \in Executors : Once(localChan'[x])
      BY <3>1, Zenon DEF PlaceInv, QueuesOnce
    <3> QED
      BY <3>1, <3>2, <3>3, NothingMoves, Zenon
  <2> QED
    BY <2>1, SchedulerPlaces, ExecutorPlaces, Zenon DEF Next
<1>3. Typed /\ PlaceInv => ExactlyOnePlace
  BY PlacesAreOne, Zenon
<1> QED
  BY <1>1, <1>2, <1>3, TypedAlways, PTL DEF Spec
=============================================================================
