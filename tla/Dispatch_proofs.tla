-------------------------- MODULE Dispatch_proofs ---------------------------
(***************************************************************************)
(* Theorems about Dispatch, for every set of executors and calls and every *)
(* configuration: type correctness; the scheduler's picture of its         *)
(* executors, where StatusTracks is inductive together with Typed and      *)
(* implies that no executor is leaked; the replies an executor takes for   *)
(* its own; and, last, the calls an executor holds, which never exceed the *)
(* reports it has left to send.                                            *)
(***************************************************************************)
EXTENDS Dispatch, FiniteSetTheorems, FunctionTheorems, TLAPS

\* TypeOK without the budget, whose type rests on facts about finite sets.
Typed ==
  /\ status \in [Executors -> 0 .. 3]
  /\ warm \in [Funcs -> SUBSET Executors]
  /\ delayQ \in Seq(Delayed)
  /\ phase \in Phases
  /\ todo \in SUBSET Calls
  /\ pendingIO \in SUBSET Request
  /\ sharedChan \in Seq(ToScheduler)
  /\ localChan \in [Executors -> Seq(ToExecutor)]
  /\ estate \in [Executors -> EStates]
  /\ ecall \in [Executors -> Calls \cup {NoCall}]
  /\ \A e \in Executors : estate[e] = "idle" \/ ecall[e] \in Calls
  /\ unsent \in [Executors -> SUBSET Calls]
  /\ rid \in [Executors -> Nat]
  /\ reports \in [Executors -> Nat]
  /\ opsLeft \in Nat
  /\ inbox \in SUBSET Calls
  /\ unborn \in SUBSET Calls
  /\ settled \in [Calls -> Fates]

\* A queue of typed messages stays one when a message is added or taken.
LEMMA SeqOps ==
  ASSUME NEW S, NEW q \in Seq(S)
  PROVE  /\ \A x \in S : Append(q, x) \in Seq(S)
         /\ q # <<>> => Head(q) \in S /\ Tail(q) \in Seq(S)
  OBVIOUS

\* Setting the fate of calls keeps settled a function into Fates.
LEMMA SettleType ==
  ASSUME Typed, NEW S, NEW fate \in Fates, Settle(S, fate)
  PROVE  settled' \in [Calls -> Fates]
  BY Zenon DEF Typed, Settle

\* send_to_executer only appends to one channel.
LEMMA DeliverType ==
  ASSUME Typed, NEW e \in Executors, NEW m \in ToExecutor, Deliver(e, m)
  PROVE  localChan' \in [Executors -> Seq(ToExecutor)]
<1>1. localChan[e] \in Seq(ToExecutor)
  BY Zenon DEF Typed
<1>2. Append(localChan[e], m) \in Seq(ToExecutor)
  BY <1>1, SeqOps, Zenon
<1> QED
  BY <1>2, Zenon DEF Typed, Deliver

LEMMA ExtraFateType == ExtraFate \in Fates
  BY Zenon DEF ExtraFate, Fates

\* schedule_func_call keeps the types of everything it writes.
LEMMA ScheduleType ==
  ASSUME Typed, NEW c \in Calls, NEW q \in Seq(Delayed), ScheduleFuncCall(c, q)
  PROVE  /\ status' \in [Executors -> 0 .. 3]
         /\ warm' \in [Funcs -> SUBSET Executors]
         /\ delayQ' \in Seq(Delayed)
         /\ localChan' \in [Executors -> Seq(ToExecutor)]
         /\ settled' \in [Calls -> Fates]
<1>1. CASE \E e \in Candidates(FuncOf[c]) : DispatchTo(e, c) /\ delayQ' = q
  <2>1. PICK e \in Candidates(FuncOf[c]) : DispatchTo(e, c) /\ delayQ' = q
    BY <1>1, Zenon
  <2>2. FuncOf[c] \in Funcs
    BY DispatchAssumption, Zenon
  <2>3. e \in Executors
    BY <2>1, <2>2, Zenon DEF Candidates, WarmExecutors, ColdExecutors, Typed
  <2>4. [type |-> "call", call |-> c] \in ToExecutor
    BY Zenon DEF ToExecutor
  <2>5. localChan' \in [Executors -> Seq(ToExecutor)]
    BY <2>1, <2>3, <2>4, DeliverType, Zenon DEF DispatchTo
  <2>6. settled' \in [Calls -> Fates]
    <3>1. "lost" \in Fates
      BY Zenon DEF Fates
    <3>2. Settle({c}, "lost") \/ settled' = settled
      BY <2>1, Zenon DEF DispatchTo
    <3> QED
      BY <3>1, <3>2, SettleType, Zenon DEF Typed
  <2>7. status' \in [Executors -> 0 .. 3]
    BY <2>1, <2>3 DEF DispatchTo, AwaitStatus, Typed
  <2>8. warm' \in [Funcs -> SUBSET Executors]
    BY <2>1, <2>2, <2>3, Zenon DEF DispatchTo, Typed
  <2> QED
    BY <2>1, <2>5, <2>6, <2>7, <2>8, Zenon
<1>2. CASE /\ UNCHANGED <<status, warm, localChan>>
           /\ delayQ' = Append(q, [call |-> c, aged |-> FALSE])
           /\ UNCHANGED settled
  <2>1. [call |-> c, aged |-> FALSE] \in Delayed
    BY Zenon DEF Delayed
  <2> QED
    BY <1>2, <2>1, SeqOps, Zenon DEF Typed
<1>3. CASE /\ UNCHANGED <<status, warm, localChan>>
           /\ Settle({c}, ExtraFate)
           /\ delayQ' = q
  BY <1>3, SettleType, ExtraFateType, Zenon DEF Typed
<1> QED
  BY <1>1, <1>2, <1>3, Zenon DEF ScheduleFuncCall

\* One message of an executor is handled with the right types.
LEMMA RecvExecutorMsgType ==
  ASSUME Typed, RecvExecutorMsg
  PROVE  Typed'
<1> DEFINE m == Head(sharedChan)
<1>1. m \in ToScheduler /\ Tail(sharedChan) \in Seq(ToScheduler)
  BY SeqOps, Zenon DEF Typed, RecvExecutorMsg
<1>2. m.from \in Executors
  BY <1>1, Zenon DEF ToScheduler
<1>m. HandleStatus(m) \/ HandleObject(m) \/ HandleRequest(m)
  BY Zenon DEF RecvExecutorMsg
<1> HIDE DEF m
<1>3. /\ status' \in [Executors -> 0 .. 3]
      /\ todo' \in SUBSET Calls
      /\ pendingIO' \in SUBSET Request
      /\ localChan' \in [Executors -> Seq(ToExecutor)]
      /\ settled' \in [Calls -> Fates]
  <2>1. CASE HandleStatus(m)
    <3>1. \A x : StatusOnAvail(x) \in 0 .. 3
      BY DEF StatusOnAvail
    <3>2. PICK v \in 0 .. 3 : status' = [status EXCEPT ![m.from] = v]
      BY <2>1, <3>1 DEF HandleStatus
    <3>3. status' \in [Executors -> 0 .. 3]
      BY <3>2, <1>2, Zenon DEF Typed
    <3> QED
      BY <2>1, <3>3, Zenon DEF HandleStatus, Typed
  <2>2. CASE HandleObject(m)
    <3>1. m.kids \in SUBSET Calls
      BY <2>2, <1>1, Zenon DEF HandleObject, ToScheduler
    <3>2. todo' \in SUBSET Calls
      BY <2>2, <3>1, Zenon DEF HandleObject
    <3>3. settled' \in [Calls -> Fates]
      BY <2>2, SettleType, ExtraFateType, Zenon DEF HandleObject, Typed
    <3> QED
      BY <2>2, <3>2, <3>3, Zenon DEF HandleObject, Typed
  <2>3. CASE HandleRequest(m)
    <3>1. m.rid \in Nat
      BY <2>3, <1>1, Zenon DEF HandleRequest, ToScheduler
    <3>2. pendingIO' \in SUBSET Request
      BY <2>3, <3>1, <1>2 DEF HandleRequest, Typed, Request
    <3>3. [type |-> "reply", rid |-> m.rid] \in ToExecutor
      BY <3>1, Zenon DEF ToExecutor
    <3>4. localChan' \in [Executors -> Seq(ToExecutor)]
      <4>1. Deliver(m.from, [type |-> "reply", rid |-> m.rid]) \/ localChan' = localChan
        BY <2>3, Zenon DEF HandleRequest
      <4> QED
        BY <4>1, <3>3, <1>2, DeliverType, Zenon DEF Typed
    <3> QED
      BY <2>3, <3>2, <3>4, Zenon DEF HandleRequest, Typed
  <2> QED
    BY <2>1, <2>2, <2>3, <1>m, Zenon
<1>4. sharedChan' \in Seq(ToScheduler) /\ phase' \in Phases
  BY <1>1, Zenon DEF RecvExecutorMsg, Phases
<1> QED
  BY <1>3, <1>4, Zenon DEF RecvExecutorMsg, Typed, execVars

\* schedule_func_call from a handler or from the delay queue.
LEMMA ScheduleStepType ==
  ASSUME Typed, ScheduleNext \/ DelayDrain
  PROVE  Typed'
<1>1. CASE ScheduleNext
  <2>1. PICK c \in todo :
          /\ ScheduleFuncCall(c, delayQ)
          /\ todo' = todo \ {c}
          /\ UNCHANGED <<phase, budget, pendingIO, sharedChan, execVars, inbox, unborn>>
    BY <1>1, Zenon DEF ScheduleNext
  <2>2. c \in Calls /\ delayQ \in Seq(Delayed)
    BY Zenon DEF Typed
  <2> HIDE DEF ScheduleNext
  <2>3. /\ status' \in [Executors -> 0 .. 3]
        /\ warm' \in [Funcs -> SUBSET Executors]
        /\ delayQ' \in Seq(Delayed)
        /\ localChan' \in [Executors -> Seq(ToExecutor)]
        /\ settled' \in [Calls -> Fates]
    BY <2>1, <2>2, ScheduleType, Zenon
  <2> QED
    BY <2>1, <2>3, Zenon DEF Typed, execVars
<1>2. CASE DelayDrain
  <2>1. Head(delayQ) \in Delayed /\ Tail(delayQ) \in Seq(Delayed)
    BY <1>2, SeqOps, Zenon DEF DelayDrain, Typed
  <2>2. Head(delayQ).call \in Calls
    BY <2>1, Zenon DEF Delayed
  <2>3. /\ status' \in [Executors -> 0 .. 3]
        /\ warm' \in [Funcs -> SUBSET Executors]
        /\ delayQ' \in Seq(Delayed)
        /\ localChan' \in [Executors -> Seq(ToExecutor)]
        /\ settled' \in [Calls -> Fates]
    BY <1>2, <2>1, <2>2, ScheduleType, Zenon DEF DelayDrain
  <2> QED
    BY <1>2, <2>3, Zenon DEF DelayDrain, Typed, execVars
<1> QED
  BY <1>1, <1>2, Zenon

\* schedDelayTime elapses: one entry of the delay queue changes its mark.
LEMMA TickType ==
  ASSUME Typed, Tick
  PROVE  Typed'
<1>1. PICK i \in DOMAIN delayQ : delayQ' = [delayQ EXCEPT ![i].aged = TRUE]
  BY Zenon DEF Tick
<1>2. delayQ[i] \in Delayed
  BY DEF Typed
<1>3. [delayQ[i] EXCEPT !.aged = TRUE] \in Delayed
  BY <1>2, Zenon DEF Delayed
<1>4. delayQ' = [delayQ EXCEPT ![i] = [delayQ[i] EXCEPT !.aged = TRUE]]
  BY <1>1, Zenon
<1>5. delayQ' \in Seq(Delayed)
  <2>1. PICK n \in Nat : delayQ \in [1 .. n -> Delayed]
    BY DEF Typed
  <2>2. delayQ' \in [1 .. n -> Delayed]
    BY <1>3, <1>4, <2>1, Zenon
  <2> QED
    BY <2>2
<1> QED
  BY <1>5, Zenon DEF Tick, Typed, execVars, callVars

\* The other steps of the scheduler's loop.
LEMMA SchedulerType ==
  ASSUME Typed, Scheduler
  PROVE  Typed'
<1>1. CASE NoExecutorMsg
  BY <1>1, Zenon DEF NoExecutorMsg, Typed, Phases, execVars, callVars
<1>2. CASE RecvCallMsg
  BY <1>2, Zenon DEF RecvCallMsg, Typed, execVars
<1>3. CASE RecvIOResp
  <2>1. PICK r \in pendingIO :
          /\ Deliver(r.from, [type |-> "reply", rid |-> r.rid])
          /\ pendingIO' = pendingIO \ {r}
    BY <1>3, Zenon DEF RecvIOResp
  <2>2. r.from \in Executors /\ [type |-> "reply", rid |-> r.rid] \in ToExecutor
    BY Zenon DEF Typed, Request, ToExecutor
  <2>3. localChan' \in [Executors -> Seq(ToExecutor)]
    BY <2>1, <2>2, DeliverType, Zenon
  <2> QED
    BY <1>3, <2>1, <2>3, Zenon DEF RecvIOResp, Typed, execVars, callVars
<1>4. CASE HelperDone
  BY <1>4, Zenon DEF HelperDone, Typed, Phases, execVars, callVars
<1>5. CASE DelayDrained
  BY <1>5, Zenon DEF DelayDrained, Typed, Phases, execVars, callVars
<1>6. CASE DelayExpire
  <2>1. Tail(delayQ) \in Seq(Delayed)
    BY <1>6, SeqOps, Zenon DEF DelayExpire, FrontExpired, Typed
  <2>2. settled' \in [Calls -> Fates]
    BY <1>6, SettleType, ExtraFateType, Zenon DEF DelayExpire
  <2> QED
    BY <1>6, <2>1, <2>2, Zenon DEF DelayExpire, Typed, execVars
<1>7. CASE DelayDone
  BY <1>7, Zenon DEF DelayDone, Typed, Phases, execVars, callVars
<1> QED
  BY <1>1, <1>2, <1>3, <1>4, <1>5, <1>6, <1>7, RecvExecutorMsgType, ScheduleStepType, Zenon
  DEF Scheduler

\* What an executor sends goes to the end of shared_chan.
LEMMA SendType ==
  ASSUME Typed, NEW m \in ToScheduler, Send(m)
  PROVE  sharedChan' \in Seq(ToScheduler)
  BY SeqOps, Zenon DEF Typed, Send

LEMMA StatusMsgType ==
  ASSUME NEW e \in Executors, NEW t \in {"busy", "avail"}
  PROVE  StatusMsg(e, t) \in ToScheduler
  BY Zenon DEF StatusMsg, ToScheduler

\* Giving up a call: the report and the executor's own state.
LEMMA ReleaseType ==
  ASSUME Typed, NEW e \in Executors, NEW fate \in Fates, Release(e, fate)
  PROVE  Typed'
<1>1. sharedChan' \in Seq(ToScheduler)
  BY SendType, StatusMsgType, Zenon DEF Release
<1>2. settled' \in [Calls -> Fates]
  BY SettleType, Zenon DEF Release
<1> QED
  BY <1>1, <1>2, Zenon DEF Release, Typed, EStates, schedVars

\* The steps of an executor process.
LEMMA ExecutorType ==
  ASSUME Typed, NEW e \in Executors, ExecutorStep(e) \/ Report(e)
  PROVE  Typed'
<1>1. CASE RecvLocalMsg(e)
  <2>1. Head(localChan[e]) \in ToExecutor /\ Tail(localChan[e]) \in Seq(ToExecutor)
    BY <1>1, SeqOps, Zenon DEF RecvLocalMsg, Typed
  <2>2. localChan' \in [Executors -> Seq(ToExecutor)]
    BY <1>1, <2>1, Zenon DEF RecvLocalMsg, Typed
  <2>3. CASE Head(localChan[e]).type = "call"
    <3>1. Head(localChan[e]).call \in Calls
      BY <2>1, <2>3, Zenon DEF ToExecutor
    <3>2. sharedChan' \in Seq(ToScheduler)
      BY <1>1, <2>3, SendType, StatusMsgType, Zenon DEF RecvLocalMsg
    <3>3. /\ estate' = [estate EXCEPT ![e] = "load"]
          /\ ecall' = [ecall EXCEPT ![e] = Head(localChan[e]).call]
      BY <1>1, <2>3, Zenon DEF RecvLocalMsg
    <3> QED
      BY <1>1, <2>2, <3>1, <3>2, <3>3, Zenon DEF RecvLocalMsg, Typed, EStates, schedVars, callVars
  <2>4. CASE Head(localChan[e]).type # "call"
    BY <1>1, <2>2, <2>4, Zenon DEF RecvLocalMsg, Typed, schedVars, callVars
  <2> QED
    BY <2>3, <2>4, Zenon
<1>2. CASE LoadFails(e)
  BY <1>2, ReleaseType, Zenon DEF LoadFails, Fates
<1>3. CASE StartFunction(e)
  <2>1. ecall[e] \in Calls
    BY <1>3, Zenon DEF StartFunction, Typed
  <2>2. Children[ecall[e]] \in SUBSET Calls
    BY <2>1, DispatchAssumption, Zenon
  <2> QED
    BY <1>3, <2>1, <2>2, Zenon DEF StartFunction, Typed, EStates, schedVars, callVars
<1>4. CASE FinishFunction(e)
  BY <1>4, ReleaseType, Zenon DEF FinishFunction, Fates
<1>5. CASE SendObject(e)
  <2>1. PICK t \in {"batch", "target"}, K \in SUBSET unsent[e] :
          /\ Send([type |-> t, from |-> e, kids |-> K])
          /\ unsent' = [unsent EXCEPT ![e] = @ \ K]
          /\ unborn' = unborn \ K
    BY <1>5, ZenonT(30) DEF SendObject, Typed
  <2>2. K \in SUBSET Calls
    BY Zenon DEF Typed
  <2>3. [type |-> t, from |-> e, kids |-> K] \in ToScheduler
    BY <2>2, Zenon DEF ToScheduler
  <2>4. sharedChan' \in Seq(ToScheduler)
    BY <2>1, <2>3, SendType, Zenon
  <2>5. unsent' \in [Executors -> SUBSET Calls] /\ unborn' \in SUBSET Calls
    BY <2>1, Zenon DEF Typed
  <2>6. /\ rid' = [rid EXCEPT ![e] = @ + 1]
        /\ UNCHANGED <<schedVars, localChan, estate, ecall, reports, opsLeft, inbox, settled>>
    BY <1>5, Zenon DEF SendObject
  <2>7. rid' \in [Executors -> Nat]
    BY <2>6 DEF Typed
  <2> QED
    BY <2>4, <2>5, <2>6, <2>7, SMTT(20) DEF Typed, schedVars
<1>6. CASE BlockOnRequest(e)
  <2>1. PICK op \in BlockingOps :
          /\ Send([type |-> op, from |-> e, rid |-> rid[e] + 1])
          /\ estate' = [estate EXCEPT ![e] = op]
    BY <1>6, Zenon DEF BlockOnRequest
  <2>2. op \in {"get", "put"}
    BY DispatchAssumption, Zenon
  <2>3. [type |-> op, from |-> e, rid |-> rid[e] + 1] \in ToScheduler
    BY <2>2 DEF ToScheduler, Typed
  <2>4. sharedChan' \in Seq(ToScheduler)
    BY <2>1, <2>3, SendType, Zenon
  <2>5. ecall[e] \in Calls
    BY <1>6, Zenon DEF BlockOnRequest, Typed
  <2> QED
    BY <1>6, <2>1, <2>2, <2>4, <2>5, SMTT(20) DEF BlockOnRequest, Typed, EStates, schedVars, callVars
<1>7. CASE WakeUp(e)
  <2>1. Tail(localChan[e]) \in Seq(ToExecutor)
    BY <1>7, SeqOps, Zenon DEF WakeUp, Typed
  <2>2. settled' \in [Calls -> Fates]
    <3>1. "stolen" \in Fates
      BY Zenon DEF Fates
    <3>2. Settle({Head(localChan[e]).call}, "stolen") \/ settled' = settled
      BY <1>7, Zenon DEF WakeUp
    <3> QED
      BY <3>1, <3>2, SettleType, Zenon DEF Typed
  <2> QED
    BY <1>7, <2>1, <2>2, Zenon DEF WakeUp, Typed, EStates, schedVars
<1>8. CASE WaitTimeout(e)
  BY <1>8, Zenon DEF WaitTimeout, Typed, EStates, schedVars, callVars
<1>9. CASE Report(e)
  <2>1. sharedChan' \in Seq(ToScheduler)
    BY <1>9, SendType, StatusMsgType, Zenon DEF Report
  <2> QED
    BY <1>9, <2>1 DEF Report, Typed, schedVars, callVars
<1> QED
  BY <1>1, <1>2, <1>3, <1>4, <1>5, <1>6, <1>7, <1>8, <1>9, Zenon DEF ExecutorStep

\* Every state the worker node reaches is well typed: statuses stay within
\* 0..3, an executor that is not idle has a call, and channels hold messages
\* their readers know.
THEOREM TypedAlways == Spec => []Typed
<1>1. Init => Typed
  BY DispatchAssumption DEF Init, Typed, Phases, EStates, Fates, Roots
<1>2. Typed /\ [Next]_vars => Typed'
  <2> SUFFICES ASSUME Typed, [Next]_vars
               PROVE  Typed'
    BY Zenon
  <2>1. CASE UNCHANGED vars
    BY <2>1, Zenon DEF Typed, vars, schedVars, execVars, callVars
  <2> QED
    BY <2>1, SchedulerType, TickType, ExecutorType, Zenon DEF Next
<1> QED
  BY <1>1, <1>2, PTL DEF Spec


-----------------------------------------------------------------------------
(* What the operations on shared_chan do to the status messages of an      *)
(* executor that are still unread.                                         *)

\* The step shows the scheduler nothing new about e.
SameView(e) ==
  /\ \A t : NewestIs(e, t) => NewestIs(e, t)'
  /\ NonePending(e)' => NonePending(e)

LEMMA SendStatus ==
  ASSUME Typed, NEW e \in Executors, NEW t \in {"busy", "avail"}, Send(StatusMsg(e, t))
  PROVE  /\ NewestIs(e, t)'
         /\ ~NonePending(e)'
         /\ \A x \in Executors \ {e} : SameView(x)
<1>n. PICK n \in Nat : n = Len(sharedChan) + 1
  BY DEF Typed
<1>1. /\ DOMAIN sharedChan' = 1 .. n
      /\ DOMAIN sharedChan = 1 .. Len(sharedChan)
      /\ sharedChan'[n] = StatusMsg(e, t)
      /\ \A i \in 1 .. Len(sharedChan) : sharedChan'[i] = sharedChan[i]
      /\ Len(sharedChan) = n - 1
  BY <1>n DEF Send, Typed
<1>2. StatusMsg(e, t).type = t /\ StatusMsg(e, t).from = e
  BY Zenon DEF StatusMsg
<1>3. IsStatus(n, e)'
  BY <1>1, <1>2, Zenon DEF IsStatus
<1>4. NewestIs(e, t)'
  <2> SUFFICES ASSUME NEW i \in DOMAIN sharedChan', IsLastStatus(i, e)'
               PROVE  sharedChan'[i].type = t
    BY Zenon DEF NewestIs
  <2>1. i = n
    BY <1>1, <1>3 DEF IsLastStatus
  <2> QED
    BY <2>1, <1>1, <1>2, Zenon
<1>5. ~NonePending(e)'
  BY <1>1, <1>3 DEF NonePending
<1>6. ASSUME NEW x \in Executors \ {e}
      PROVE  SameView(x)
  <2>1. ~IsStatus(n, x)'
    BY <1>1, <1>2, Zenon DEF IsStatus
  <2>2. \A i \in 1 .. Len(sharedChan) : IsStatus(i, x)' <=> IsStatus(i, x)
    BY <1>1, Zenon DEF IsStatus
  <2>3. \A i \in DOMAIN sharedChan' : IsLastStatus(i, x)' => i # n /\ IsLastStatus(i, x)
    BY <1>1, <2>1, <2>2 DEF IsLastStatus
  <2>4. \A y : NewestIs(x, y) => NewestIs(x, y)'
    BY <1>1, <2>3 DEF NewestIs
  <2>5. NonePending(x)' => NonePending(x)
    BY <1>1, <2>2 DEF NonePending
  <2> QED
    BY <2>4, <2>5, Zenon DEF SameView
<1> QED
  BY <1>4, <1>5, <1>6, Zenon

LEMMA SendOther ==
  ASSUME Typed, NEW m \in ToScheduler, m.type \notin {"busy", "avail"}, Send(m),
         NEW x \in Executors
  PROVE  SameView(x)
<1>n. PICK n \in Nat : n = Len(sharedChan) + 1
  BY DEF Typed
<1>1. /\ DOMAIN sharedChan' = 1 .. n
      /\ DOMAIN sharedChan = 1 .. Len(sharedChan)
      /\ sharedChan'[n] = m
      /\ \A i \in 1 .. Len(sharedChan) : sharedChan'[i] = sharedChan[i]
      /\ Len(sharedChan) = n - 1
  BY <1>n DEF Send, Typed
<1>2. ~IsStatus(n, x)'
  BY <1>1, Zenon DEF IsStatus
<1>3. \A i \in 1 .. Len(sharedChan) : IsStatus(i, x)' <=> IsStatus(i, x)
  BY <1>1, Zenon DEF IsStatus
<1>4. \A i \in DOMAIN sharedChan' : IsLastStatus(i, x)' => i # n /\ IsLastStatus(i, x)
  BY <1>1, <1>2, <1>3 DEF IsLastStatus
<1>5. \A y : NewestIs(x, y) => NewestIs(x, y)'
  BY <1>1, <1>4 DEF NewestIs
<1>6. NonePending(x)' => NonePending(x)
  BY <1>1, <1>3 DEF NonePending
<1> QED
  BY <1>5, <1>6, Zenon DEF SameView

\* Reading a message: what was newest stays newest, and if nothing is left
\* the message read was the newest.
LEMMA ReadStatus ==
  ASSUME Typed, sharedChan # <<>>, sharedChan' = Tail(sharedChan), NEW x \in Executors
  PROVE  /\ \A y : NewestIs(x, y) => NewestIs(x, y)'
         /\ NonePending(x)' => NonePending(x) \/ IsLastStatus(1, x)
         /\ ~IsStatus(1, x) => SameView(x)
<1> DEFINE n == Len(sharedChan)
<1>1. /\ DOMAIN sharedChan = 1 .. n
      /\ DOMAIN sharedChan' = 1 .. n - 1
      /\ \A i \in 1 .. n - 1 : sharedChan'[i] = sharedChan[i + 1]
      /\ n \in Nat \ {0}
  BY DEF Typed
<1>2. \A i \in 1 .. n - 1 : IsStatus(i, x)' <=> IsStatus(i + 1, x)
  BY <1>1, Zenon DEF IsStatus
<1>3. \A i \in 1 .. n - 1 : IsLastStatus(i, x)' => IsLastStatus(i + 1, x)
  <2> SUFFICES ASSUME NEW i \in 1 .. n - 1, IsLastStatus(i, x)'
               PROVE  IsLastStatus(i + 1, x)
    BY Zenon
  <2>1. IsStatus(i + 1, x)
    BY <1>2, Zenon DEF IsLastStatus
  <2>2. ASSUME NEW j \in DOMAIN sharedChan, j > i + 1
        PROVE  ~IsStatus(j, x)
    <3>1. j - 1 \in 1 .. n - 1 /\ j - 1 > i /\ (j - 1) + 1 = j
      BY <1>1, <2>2
    <3>2. ~IsStatus(j - 1, x)'
      BY <1>1, <3>1, Zenon DEF IsLastStatus
    <3> QED
      BY <1>2, <3>1, <3>2, Zenon
  <2> QED
    BY <1>1, <2>1, <2>2 DEF IsLastStatus
<1>4. \A y : NewestIs(x, y) => NewestIs(x, y)'
  BY <1>1, <1>3 DEF NewestIs
<1>5. ASSUME NonePending(x)'
      PROVE  \A j \in DOMAIN sharedChan : j > 1 => ~IsStatus(j, x)
  <2> SUFFICES ASSUME NEW j \in DOMAIN sharedChan, j > 1
               PROVE  ~IsStatus(j, x)
    BY Zenon
  <2>1. j - 1 \in 1 .. n - 1 /\ (j - 1) + 1 = j
    BY <1>1
  <2> QED
    BY <1>1, <1>2, <1>5, <2>1, Zenon DEF NonePending
<1>6. NonePending(x)' => NonePending(x) \/ IsLastStatus(1, x)
  BY <1>1, <1>5 DEF NonePending, IsLastStatus
<1> QED
  BY <1>4, <1>6, Zenon DEF SameView, IsLastStatus

-----------------------------------------------------------------------------
(* StatusTracks is inductive.                                              *)

\* A step that shows nothing new about x, and leaves x as idle as it was, its
\* status and the calls waiting for it alone, keeps Tracks(x).
LEMMA TracksKept ==
  ASSUME NEW x \in Executors, Tracks(x), SameView(x),
         status'[x] = status[x], reports'[x] = reports[x],
         estate'[x] = "idle" <=> estate[x] = "idle",
         estate[x] = "idle" /\ CallWaits(x) => CallWaits(x)'
  PROVE  Tracks(x)'
  BY Zenon DEF Tracks, SameView

\* Nothing is sent or read.
LEMMA SameChan ==
  ASSUME sharedChan' = sharedChan, NEW x \in Executors
  PROVE  SameView(x)
  BY Zenon DEF SameView, NewestIs, NonePending, IsLastStatus, IsStatus

LEMMA SameLocal ==
  ASSUME NEW x \in Executors, localChan'[x] = localChan[x], CallWaits(x)
  PROVE  CallWaits(x)'
  BY Zenon DEF CallWaits

\* send_to_executer takes nothing from a channel.
LEMMA DeliverKeepsCalls ==
  ASSUME Typed, NEW e \in Executors, NEW m \in ToExecutor, Deliver(e, m),
         NEW x \in Executors, CallWaits(x)
  PROVE  CallWaits(x)'
<1>1. CASE localChan'[x] = localChan[x]
  BY <1>1, SameLocal, Zenon
<1>2. CASE localChan'[x] # localChan[x]
  <2>1. x = e /\ localChan'[x] = Append(localChan[x], m)
    BY <1>2, Zenon DEF Deliver, Typed
  <2>2. localChan[x] \in Seq(ToExecutor)
    BY Zenon DEF Typed
  <2>3. PICK i \in DOMAIN localChan[x] : localChan[x][i].type = "call"
    BY Zenon DEF CallWaits
  <2>4. i \in DOMAIN Append(localChan[x], m) /\ Append(localChan[x], m)[i] = localChan[x][i]
    BY <2>2
  <2>5. i \in DOMAIN localChan'[x] /\ localChan'[x][i].type = "call"
    BY <2>1, <2>3, <2>4, Zenon
  <2> QED
    BY <2>5, Zenon DEF CallWaits
<1> QED
  BY <1>1, <1>2, Zenon

\* schedule_func_call marks the executor it picks as awaited, and that
\* executor then has a call waiting or has not told of the call it took.
LEMMA ScheduleTracks ==
  ASSUME Typed, StatusTracks, NEW c \in Calls, NEW q, ScheduleFuncCall(c, q),
         sharedChan' = sharedChan, UNCHANGED execVars
  PROVE  StatusTracks'
<1> SUFFICES ASSUME NEW x \in Executors
             PROVE  Tracks(x)'
  BY Zenon DEF StatusTracks
<1>1. Tracks(x) /\ SameView(x) /\ estate' = estate /\ reports' = reports
  BY SameChan, Zenon DEF StatusTracks, execVars
<1>2. CASE \E e \in Candidates(FuncOf[c]) : DispatchTo(e, c)
  <2>1. PICK e \in Candidates(FuncOf[c]) : DispatchTo(e, c)
    BY <1>2, Zenon
  <2>2. FuncOf[c] \in Funcs
    BY DispatchAssumption, Zenon
  <2>3. e \in Executors /\ status[e] \in {0, 1}
    BY <2>2, Zenon DEF Candidates, WarmExecutors, ColdExecutors, Typed
  <2>4. [type |-> "call", call |-> c] \in ToExecutor
    BY Zenon DEF ToExecutor
  <2>5. CASE x # e
    <3>1. status'[x] = status[x]
      BY <2>1, <2>3, <2>5, Zenon DEF DispatchTo, Typed
    <3>2. CallWaits(x) => CallWaits(x)'
      BY <2>1, <2>3, <2>4, DeliverKeepsCalls, Zenon DEF DispatchTo
    <3> QED
      BY <1>1, <3>1, <3>2, TracksKept, Zenon
  <2>6. CASE x = e
    <3>1. status'[x] = 2
      BY <2>1, <2>3, <2>6, Zenon DEF DispatchTo, AwaitStatus, Typed
    <3>2. ASSUME estate[x] = "idle"
          PROVE  CallWaits(x)'
      <4>1. localChan[x] \in Seq(ToExecutor)
        BY Zenon DEF Typed
      <4>2. localChan'[x] = Append(localChan[x], [type |-> "call", call |-> c])
        BY <2>1, <2>3, <2>6, <3>2, Zenon DEF DispatchTo, Deliver, Typed
      <4>3. /\ Len(localChan[x]) + 1 \in DOMAIN localChan'[x]
            /\ localChan'[x][Len(localChan[x]) + 1] = [type |-> "call", call |-> c]
        BY <4>1, <4>2
      <4>4. PICK k : k \in DOMAIN localChan'[x] /\ localChan'[x][k].type = "call"
        BY <4>3
      <4> QED
        BY <4>4, Zenon DEF CallWaits
    <3>3. estate[x] # "idle" => ~NonePending(x)'
      BY <1>1, <2>3, <2>6 DEF Tracks, SameView
    <3>4. CASE estate[x] = "idle"
      <4>1. NewestIs(x, "avail")'
        BY <1>1, <3>4, Zenon DEF Tracks, SameView
      <4> QED
        BY <1>1, <3>1, <3>2, <3>4, <4>1, SMTT(30) DEF Tracks
    <3>5. CASE estate[x] # "idle"
      <4>1. NewestIs(x, "busy")'
        BY <1>1, <3>5, Zenon DEF Tracks, SameView
      <4> QED
        BY <1>1, <3>3, <3>5, <4>1, Zenon DEF Tracks
    <3> QED
      BY <3>4, <3>5, Zenon
  <2> QED
    BY <2>5, <2>6, Zenon
<1>3. CASE UNCHANGED <<status, localChan>>
  <2>1. CallWaits(x) => CallWaits(x)'
    BY <1>3, SameLocal, Zenon
  <2> QED
    BY <1>1, <1>3, <2>1, TracksKept, Zenon
<1> QED
  BY <1>2, <1>3, Zenon DEF ScheduleFuncCall

\* Reading a message: only the sender of a status message changes its status,
\* and StatusOnAvail leaves no awaited or busy executor behind.
LEMMA RecvTracks ==
  ASSUME Typed, StatusTracks, RecvExecutorMsg
  PROVE  StatusTracks'
<1> SUFFICES ASSUME NEW x \in Executors
             PROVE  Tracks(x)'
  BY Zenon DEF StatusTracks
<1>a. PICK m : m = Head(sharedChan)
  BY Zenon
<1>1. /\ Tracks(x) /\ estate' = estate /\ reports' = reports
      /\ sharedChan # <<>> /\ sharedChan' = Tail(sharedChan)
      /\ HandleStatus(m) \/ HandleObject(m) \/ HandleRequest(m)
  BY <1>a, Zenon DEF StatusTracks, RecvExecutorMsg, execVars
<1>2. m \in ToScheduler /\ m.from \in Executors /\ sharedChan[1] = m /\ 1 \in DOMAIN sharedChan
  BY <1>1, <1>a, SeqOps, SMTT(30) DEF Typed, ToScheduler
<1>3. CallWaits(x) => CallWaits(x)'
  <2>1. CASE UNCHANGED localChan
    BY <2>1, SameLocal, Zenon
  <2>2. CASE HandleRequest(m) /\ Deliver(m.from, [type |-> "reply", rid |-> m.rid])
    <3>1. [type |-> "reply", rid |-> m.rid] \in ToExecutor
      BY <2>2, <1>2, Zenon DEF HandleRequest, ToScheduler, ToExecutor
    <3> QED
      BY <2>2, <3>1, <1>2, DeliverKeepsCalls, Zenon
  <2> QED
    BY <1>1, <2>1, <2>2, Zenon DEF HandleStatus, HandleObject, HandleRequest
<1>4. CASE ~IsStatus(1, x)
  <2>1. SameView(x)
    BY <1>1, <1>4, ReadStatus, Zenon
  <2>2. status'[x] = status[x]
    BY <1>1, <1>2, <1>4, Zenon DEF HandleStatus, HandleObject, HandleRequest, IsStatus, Typed
  <2> QED
    BY <1>1, <1>3, <2>1, <2>2, TracksKept, Zenon
<1>5. CASE IsStatus(1, x)
  <2>1. m.type \in {"busy", "avail"} /\ m.from = x /\ HandleStatus(m)
    BY <1>1, <1>2, <1>5, Zenon DEF IsStatus, HandleObject, HandleRequest
  <2>2. /\ \A y : NewestIs(x, y) => NewestIs(x, y)'
        /\ NonePending(x)' => IsLastStatus(1, x)
    BY <1>1, <1>2, <1>5, ReadStatus, Zenon DEF NonePending
  <2>3. ASSUME NEW y, NewestIs(x, y), NonePending(x)'
        PROVE  m.type = y
    BY <1>2, <2>2, <2>3, Zenon DEF NewestIs
  <2>4. m.type = "busy" => status'[x] = 3
    BY <2>1, Zenon DEF HandleStatus, Typed
  <2>5. \A v : StatusOnAvail(v) \in {0, 1}
    BY Zenon DEF StatusOnAvail
  <2>6. m.type = "avail" => status'[x] \in {0, 1}
    BY <2>1, <2>5, Zenon DEF HandleStatus, Typed
  <2>7. CASE estate[x] = "idle"
    <3>1. NewestIs(x, "avail")
      BY <1>1, <2>7, Zenon DEF Tracks
    <3>2. NonePending(x)' => status'[x] \in {0, 1}
      BY <3>1, <2>3, <2>6, Zenon
    <3> QED
      BY <1>1, <2>2, <2>7, <3>1, <3>2 DEF Tracks
  <2>8. CASE estate[x] # "idle"
    <3>1. NewestIs(x, "busy")
      BY <1>1, <2>8, Zenon DEF Tracks
    <3>2. NonePending(x)' => status'[x] = 3
      BY <3>1, <2>3, <2>4, Zenon
    <3> QED
      BY <1>1, <2>2, <2>8, <3>1, <3>2, Zenon DEF Tracks
  <2> QED
    BY <2>7, <2>8, Zenon
<1> QED
  BY <1>4, <1>5, Zenon

\* The rest of the scheduler's loop touches neither statuses nor shared_chan.
LEMMA SchedulerTracks ==
  ASSUME Typed, StatusTracks, Scheduler \/ Tick
  PROVE  StatusTracks'
<1>1. CASE ScheduleNext
  BY <1>1, ScheduleTracks, Zenon DEF ScheduleNext, Typed
<1>2. CASE DelayDrain
  <2>0. Head(delayQ) \in Delayed
    BY <1>2, SeqOps, Zenon DEF DelayDrain, Typed
  <2>1. Head(delayQ).call \in Calls
    BY <2>0, Zenon DEF Delayed
  <2> QED
    BY <1>2, <2>1, ScheduleTracks, Zenon DEF DelayDrain
<1>3. CASE NoExecutorMsg \/ RecvCallMsg \/ HelperDone \/ DelayDrained \/ DelayExpire
             \/ DelayDone \/ Tick
  <2>1. UNCHANGED <<status, sharedChan, localChan, estate, reports>>
    BY <1>3, Zenon DEF NoExecutorMsg, RecvCallMsg, HelperDone, DelayDrained, DelayExpire,
                DelayDone, Tick, execVars
  <2>2. ASSUME NEW x \in Executors
        PROVE  Tracks(x)'
    BY <2>1, SameChan, SameLocal, TracksKept, Zenon DEF StatusTracks
  <2> QED
    BY <2>2, Zenon DEF StatusTracks
<1>4. CASE RecvIOResp
  <2>1. PICK r \in pendingIO : Deliver(r.from, [type |-> "reply", rid |-> r.rid])
    BY <1>4, Zenon DEF RecvIOResp
  <2>2. r.from \in Executors /\ [type |-> "reply", rid |-> r.rid] \in ToExecutor
    BY Zenon DEF Typed, Request, ToExecutor
  <2>3. UNCHANGED <<status, sharedChan, estate, reports>>
    BY <1>4, Zenon DEF RecvIOResp, execVars
  <2>4. ASSUME NEW x \in Executors
        PROVE  Tracks(x)'
    <3>1. CallWaits(x) => CallWaits(x)'
      BY <2>1, <2>2, DeliverKeepsCalls, Zenon
    <3> QED
      BY <2>3, <3>1, SameChan, TracksKept, Zenon DEF StatusTracks
  <2> QED
    BY <2>4, Zenon DEF StatusTracks
<1> QED
  BY <1>1, <1>2, <1>3, <1>4, RecvTracks, Zenon DEF Scheduler

\* A status message of e, sent in the step that makes it true.
LEMMA SendTracks ==
  ASSUME Typed, StatusTracks, NEW e \in Executors, NEW t \in {"busy", "avail"},
         Send(StatusMsg(e, t)), status' = status,
         estate'[e] = "idle" <=> t = "avail",
         \A x \in Executors \ {e} :
           /\ estate'[x] = estate[x] /\ reports'[x] = reports[x]
           /\ localChan'[x] = localChan[x]
  PROVE  StatusTracks'
<1>1. /\ NewestIs(e, t)'
      /\ ~NonePending(e)'
      /\ \A x \in Executors \ {e} : SameView(x)
  BY SendStatus, Zenon
<1>2. Tracks(e)'
  BY <1>1, Zenon DEF Tracks
<1>3. ASSUME NEW x \in Executors \ {e}
      PROVE  Tracks(x)'
  BY <1>1, SameLocal, TracksKept, Zenon DEF StatusTracks
<1> QED
  BY <1>2, <1>3, Zenon DEF StatusTracks

\* send_object and the blocking requests send something other than a status.
LEMMA RequestSent ==
  ASSUME Typed, NEW e \in Executors, SendObject(e) \/ BlockOnRequest(e)
  PROVE  \E m \in ToScheduler : m.type \notin {"busy", "avail"} /\ Send(m)
<1>1. CASE SendObject(e)
  <2>1. PICK t \in {"batch", "target"}, K \in SUBSET unsent[e] :
          Send([type |-> t, from |-> e, kids |-> K])
    BY <1>1, ZenonT(30) DEF SendObject, Typed
  <2>2. [type |-> t, from |-> e, kids |-> K] \in ToScheduler
    BY Zenon DEF ToScheduler, Typed
  <2> QED
    BY <2>1, <2>2, Zenon
<1>2. CASE BlockOnRequest(e)
  <2>1. PICK op \in BlockingOps : Send([type |-> op, from |-> e, rid |-> rid[e] + 1])
    BY <1>2, Zenon DEF BlockOnRequest
  <2>2. op \in {"get", "put"}
    BY DispatchAssumption, Zenon
  <2>3. [type |-> op, from |-> e, rid |-> rid[e] + 1] \in ToScheduler
    BY <2>2 DEF ToScheduler, Typed
  <2> QED
    BY <2>1, <2>2, <2>3, Zenon
<1> QED
  BY <1>1, <1>2, Zenon

\* The steps of executor e, which leave every other executor alone.
LEMMA ExecutorTracks ==
  ASSUME Typed, StatusTracks, NEW e \in Executors, ExecutorStep(e) \/ Report(e)
  PROVE  StatusTracks'
<1>1. CASE RecvLocalMsg(e) /\ Head(localChan[e]).type = "call"
  BY <1>1, SendTracks, Zenon DEF RecvLocalMsg, Typed, schedVars
<1>2. CASE RecvLocalMsg(e) /\ Head(localChan[e]).type # "call"
  <2>1. UNCHANGED <<status, sharedChan, estate, reports>>
    BY <1>2, Zenon DEF RecvLocalMsg, schedVars
  <2>2. ASSUME NEW x \in Executors, CallWaits(x)
        PROVE  CallWaits(x)'
    <3>1. CASE x # e
      BY <1>2, <2>2, <3>1, SameLocal, Zenon DEF RecvLocalMsg, Typed
    <3>2. CASE x = e
      <4>1. PICK i \in DOMAIN localChan[e] : localChan[e][i].type = "call"
        BY <2>2, <3>2, Zenon DEF CallWaits
      <4>2. localChan[e] \in Seq(ToExecutor) /\ localChan[e] # <<>>
        BY <1>2, Zenon DEF RecvLocalMsg, Typed
      <4>3. i # 1
        BY <1>2, <4>1, <4>2
      <4>4. i - 1 \in DOMAIN Tail(localChan[e]) /\ Tail(localChan[e])[i - 1] = localChan[e][i]
        BY <4>2, <4>3
      <4>5. localChan'[e] = Tail(localChan[e])
        BY <1>2, Zenon DEF RecvLocalMsg, Typed
      <4>6. i - 1 \in DOMAIN localChan'[e] /\ localChan'[e][i - 1].type = "call"
        BY <4>1, <4>4, <4>5, Zenon
      <4> QED
        BY <3>2, <4>6, Zenon DEF CallWaits
    <3> QED
      BY <3>1, <3>2, Zenon
  <2>3. ASSUME NEW x \in Executors
        PROVE  Tracks(x)'
    BY <2>1, <2>2, SameChan, TracksKept, Zenon DEF StatusTracks
  <2> QED
    BY <2>3, Zenon DEF StatusTracks
<1>3. CASE LoadFails(e) \/ FinishFunction(e)
  BY <1>3, SendTracks, Zenon DEF LoadFails, FinishFunction, Release, Typed, schedVars
<1>4. CASE StartFunction(e) \/ WakeUp(e) \/ WaitTimeout(e)
  <2>1. /\ UNCHANGED <<status, sharedChan, reports>>
        /\ estate[e] # "idle" /\ estate'[e] # "idle"
        /\ \A x \in Executors \ {e} :
             estate'[x] = estate[x] /\ localChan'[x] = localChan[x]
    BY <1>4, Zenon DEF StartFunction, WakeUp, WaitTimeout, Typed, schedVars
  <2>2. ASSUME NEW x \in Executors
        PROVE  Tracks(x)'
    BY <2>1, SameChan, SameLocal, TracksKept, Zenon DEF StatusTracks
  <2> QED
    BY <2>2, Zenon DEF StatusTracks
<1>5. CASE SendObject(e) \/ BlockOnRequest(e)
  <2>1. PICK m \in ToScheduler : m.type \notin {"busy", "avail"} /\ Send(m)
    BY <1>5, RequestSent, Zenon
  <2>2. /\ UNCHANGED <<status, localChan, reports>>
        /\ estate[e] # "idle" /\ estate'[e] # "idle"
        /\ \A x \in Executors \ {e} : estate'[x] = estate[x]
    <3>1. \A op \in BlockingOps : op # "idle"
      BY DispatchAssumption, Zenon
    <3> QED
      BY <1>5, <3>1, Zenon DEF SendObject, BlockOnRequest, Typed, schedVars
  <2>3. ASSUME NEW x \in Executors
        PROVE  Tracks(x)'
    BY <2>1, <2>2, SendOther, SameLocal, TracksKept, Zenon DEF StatusTracks
  <2> QED
    BY <2>3, Zenon DEF StatusTracks
<1>6. CASE Report(e)
  BY <1>6, SendTracks, Zenon DEF Report, Typed, schedVars
<1> QED
  BY <1>1, <1>2, <1>3, <1>4, <1>5, <1>6, Zenon DEF ExecutorStep

\* Read to its end, shared_chan gives the scheduler the right picture of every
\* executor, whatever reports, dispatches, failures and timeouts have crossed.
THEOREM StatusIsTracked == Spec => []StatusTracks
<1>1. Init => StatusTracks
  BY DEF Init, StatusTracks, Tracks, NewestIs, NonePending
<1>2. Typed /\ StatusTracks /\ [Next]_vars => StatusTracks'
  <2> SUFFICES ASSUME Typed, StatusTracks, [Next]_vars
               PROVE  StatusTracks'
    BY Zenon
  <2>1. CASE UNCHANGED vars
    <3>1. UNCHANGED <<status, sharedChan, localChan, estate, reports>>
      BY <2>1, Zenon DEF vars, schedVars, execVars
    <3>2. ASSUME NEW x \in Executors
          PROVE  Tracks(x)'
      BY <3>1, SameChan, SameLocal, TracksKept, Zenon DEF StatusTracks
    <3> QED
      BY <3>2, Zenon DEF StatusTracks
  <2> QED
    BY <2>1, SchedulerTracks, ExecutorTracks, Zenon DEF Next
<1> QED
  BY <1>1, <1>2, TypedAlways, PTL DEF Spec

-----------------------------------------------------------------------------
(* Replies and the requests they answer.                                   *)
(*                                                                         *)
(* Every request or reply under way carries an id its executor has already *)
(* used.  Ids below RidMod are sent as they are, so two of them that look  *)
(* the same are the same.                                                  *)

PastMsg == {m \in ToScheduler : m.type \in {"get", "put"} => m.rid <= rid[m.from]}

PastRequest == {r \in Request : r.rid <= rid[r.from]}

PastReply(e) == {m \in ToExecutor : m.type = "reply" => m.rid <= rid[e]}

RidsPast ==
  /\ sharedChan \in Seq(PastMsg)
  /\ pendingIO \subseteq PastRequest
  /\ \A e \in Executors : localChan[e] \in Seq(PastReply(e))

LEMMA SeqOfMore ==
  ASSUME NEW S, NEW T, S \subseteq T, NEW q \in Seq(S)
  PROVE  q \in Seq(T)
  OBVIOUS

\* get_request_id only counts on.
LEMMA RidsGrow ==
  ASSUME Typed, \A e \in Executors : rid'[e] \in Nat /\ rid[e] <= rid'[e]
  PROVE  /\ PastMsg \subseteq PastMsg'
         /\ PastRequest \subseteq PastRequest'
         /\ \A e \in Executors : PastReply(e) \subseteq PastReply(e)'
<1>1. ASSUME NEW m \in PastMsg PROVE m \in PastMsg'
  <2>1. m \in ToScheduler /\ m.from \in Executors /\ (m.type \in {"get", "put"} => m.rid \in Nat)
    BY Zenon DEF PastMsg, ToScheduler
  <2> QED
    BY <2>1 DEF PastMsg, Typed
<1>2. ASSUME NEW r \in PastRequest PROVE r \in PastRequest'
  BY <1>2 DEF PastRequest, Request, Typed
<1>3. ASSUME NEW e \in Executors, NEW m \in PastReply(e) PROVE m \in PastReply(e)'
  <2>1. m \in ToExecutor /\ (m.type = "reply" => m.rid \in Nat)
    BY <1>3, Zenon DEF PastReply, ToExecutor
  <2> QED
    BY <1>3, <2>1 DEF PastReply, Typed
<1> QED
  BY <1>1, <1>2, <1>3, Zenon

LEMMA DeliverPast ==
  ASSUME Typed, RidsPast, NEW e \in Executors, NEW m \in PastReply(e), Deliver(e, m),
         NEW x \in Executors
  PROVE  localChan'[x] \in Seq(PastReply(x))
<1>1. localChan[x] \in Seq(PastReply(x))
  BY Zenon DEF RidsPast
<1>2. CASE localChan'[x] = localChan[x]
  BY <1>1, <1>2, Zenon
<1>3. CASE localChan'[x] # localChan[x]
  <2>1. x = e /\ localChan'[x] = Append(localChan[x], m)
    BY <1>3, Zenon DEF Deliver, Typed
  <2> QED
    BY <1>1, <2>1, SeqOps, Zenon
<1> QED
  BY <1>2, <1>3, Zenon

\* A step that makes no request.
LEMMA RidsKept ==
  ASSUME Typed, RidsPast, rid' = rid, sharedChan' \in Seq(PastMsg), pendingIO' \subseteq PastRequest,
         \A e \in Executors : localChan'[e] \in Seq(PastReply(e))
  PROVE  RidsPast'
  BY Zenon DEF RidsPast, PastMsg, PastRequest, PastReply

LEMMA SchedulerPast ==
  ASSUME Typed, RidsPast, Scheduler \/ Tick
  PROVE  RidsPast'
<1>0. rid' = rid
  BY Zenon DEF Scheduler, Tick, ScheduleNext, RecvExecutorMsg, NoExecutorMsg, RecvCallMsg, RecvIOResp,
         HelperDone, DelayDrain, DelayDrained, DelayExpire, DelayDone, execVars
<1>1. ASSUME NEW c \in Calls, NEW q, ScheduleFuncCall(c, q), UNCHANGED <<sharedChan, pendingIO>>
      PROVE  RidsPast'
  <2>1. CASE \E e \in Candidates(FuncOf[c]) : DispatchTo(e, c)
    <3>1. PICK e \in Candidates(FuncOf[c]) : DispatchTo(e, c)
      BY <2>1, Zenon
    <3>2. FuncOf[c] \in Funcs
      BY DispatchAssumption, Zenon
    <3>3. e \in Executors
      BY <3>2, Zenon DEF Candidates, WarmExecutors, ColdExecutors, Typed
    <3>4. [type |-> "call", call |-> c] \in PastReply(e)
      BY Zenon DEF PastReply, ToExecutor
    <3>5. \A x \in Executors : localChan'[x] \in Seq(PastReply(x))
      BY <3>1, <3>3, <3>4, DeliverPast, Zenon DEF DispatchTo
    <3> QED
      BY <1>0, <1>1, <3>5, RidsKept, Zenon DEF RidsPast
  <2>2. CASE UNCHANGED localChan
    BY <1>0, <1>1, <2>2, RidsKept, Zenon DEF RidsPast
  <2> QED
    BY <1>1, <2>1, <2>2, Zenon DEF ScheduleFuncCall
<1>2. CASE ScheduleNext
  BY <1>1, <1>2, Zenon DEF ScheduleNext, Typed
<1>3. CASE DelayDrain
  <2>0. Head(delayQ) \in Delayed
    BY <1>3, SeqOps, Zenon DEF DelayDrain, Typed
  <2>1. Head(delayQ).call \in Calls
    BY <2>0, Zenon DEF Delayed
  <2> QED
    BY <1>1, <1>3, <2>1, Zenon DEF DelayDrain
<1>4. CASE NoExecutorMsg \/ RecvCallMsg \/ HelperDone \/ DelayDrained \/ DelayExpire
             \/ DelayDone \/ Tick
  <2>1. UNCHANGED <<sharedChan, localChan, pendingIO>>
    BY <1>4, Zenon DEF NoExecutorMsg, RecvCallMsg, HelperDone, DelayDrained, DelayExpire,
                DelayDone, Tick
  <2> QED
    BY <1>0, <2>1, RidsKept, Zenon DEF RidsPast
<1>5. CASE RecvIOResp
  <2>1. PICK r \in pendingIO : /\ Deliver(r.from, [type |-> "reply", rid |-> r.rid])
                               /\ pendingIO' = pendingIO \ {r}
    BY <1>5, Zenon DEF RecvIOResp
  <2>2. r \in Request /\ r.rid <= rid[r.from]
    BY Zenon DEF RidsPast, PastRequest
  <2>3. r.from \in Executors /\ [type |-> "reply", rid |-> r.rid] \in PastReply(r.from)
    BY <2>2, Zenon DEF Request, ToExecutor, PastReply
  <2>4. \A x \in Executors : localChan'[x] \in Seq(PastReply(x))
    BY <2>1, <2>3, DeliverPast, Zenon
  <2>5. sharedChan' = sharedChan
    BY <1>5, Zenon DEF RecvIOResp
  <2> QED
    BY <1>0, <2>1, <2>4, <2>5, RidsKept, Zenon DEF RidsPast
<1>6. CASE RecvExecutorMsg
  <2>a. PICK m : m = Head(sharedChan)
    BY Zenon
  <2>1. /\ sharedChan # <<>> /\ sharedChan' = Tail(sharedChan)
        /\ HandleStatus(m) \/ HandleObject(m) \/ HandleRequest(m)
    BY <1>6, <2>a, Zenon DEF RecvExecutorMsg
  <2>2. sharedChan \in Seq(PastMsg)
    BY Zenon DEF RidsPast
  <2>3. sharedChan' \in Seq(PastMsg) /\ m \in PastMsg
    BY <2>a, <2>1, <2>2, SeqOps, Zenon
  <2>4. CASE UNCHANGED <<localChan, pendingIO>>
    BY <1>0, <2>3, <2>4, RidsKept, Zenon DEF RidsPast
  <2>5. CASE HandleRequest(m)
    <3>1. m.type \in {"get", "put"}
      BY <2>5, Zenon DEF HandleRequest
    <3>2. m.from \in Executors /\ m.rid \in Nat /\ m.rid <= rid[m.from]
      BY <2>3, <3>1, Zenon DEF PastMsg, ToScheduler
    <3>3. [type |-> "reply", rid |-> m.rid] \in PastReply(m.from)
      BY <3>2, Zenon DEF PastReply, ToExecutor
    <3>4. [from |-> m.from, rid |-> m.rid] \in PastRequest
      BY <3>2, Zenon DEF PastRequest, Request
    <3>5. pendingIO' \subseteq PastRequest
      BY <2>5, <3>4, Zenon DEF HandleRequest, RidsPast
    <3>6. \A x \in Executors : localChan'[x] \in Seq(PastReply(x))
      BY <2>5, <3>2, <3>3, DeliverPast, Zenon DEF HandleRequest, RidsPast
    <3> QED
      BY <1>0, <2>3, <3>5, <3>6, RidsKept, Zenon
  <2> QED
    BY <2>1, <2>4, <2>5, Zenon DEF HandleStatus, HandleObject
<1> QED
  BY <1>2, <1>3, <1>4, <1>5, <1>6, Zenon DEF Scheduler

LEMMA ExecutorPast ==
  ASSUME Typed, RidsPast, NEW e \in Executors, ExecutorStep(e) \/ Report(e)
  PROVE  RidsPast'
<1>1. pendingIO' = pendingIO
  BY Zenon DEF ExecutorStep, RecvLocalMsg, LoadFails, StartFunction, FinishFunction, Release,
         SendObject, BlockOnRequest, WakeUp, WaitTimeout, Report, schedVars
<1>2. ASSUME NEW t \in {"busy", "avail"} PROVE StatusMsg(e, t) \in PastMsg
  BY Zenon DEF StatusMsg, ToScheduler, PastMsg
<1>3. sharedChan \in Seq(PastMsg) /\ \A x \in Executors : localChan[x] \in Seq(PastReply(x))
  BY Zenon DEF RidsPast
<1>4. CASE RecvLocalMsg(e) \/ LoadFails(e) \/ FinishFunction(e) \/ Report(e)
           \/ StartFunction(e) \/ WakeUp(e) \/ WaitTimeout(e)
  <2>1. rid' = rid
    BY <1>4, Zenon DEF RecvLocalMsg, LoadFails, FinishFunction, Release, Report, StartFunction,
                WakeUp, WaitTimeout
  <2>2. sharedChan' = sharedChan \/ \E t \in {"busy", "avail"} : Send(StatusMsg(e, t))
    BY <1>4, Zenon DEF RecvLocalMsg, LoadFails, FinishFunction, Release, Report, StartFunction,
                WakeUp, WaitTimeout
  <2>3. sharedChan' \in Seq(PastMsg)
    BY <1>2, <1>3, <2>2, SeqOps, Zenon DEF Send
  <2>4. localChan' = localChan \/ (localChan[e] # <<>> /\ localChan' = [localChan EXCEPT ![e] = Tail(@)])
    BY <1>4, Zenon DEF RecvLocalMsg, LoadFails, FinishFunction, Release, Report, StartFunction,
                WakeUp, WaitTimeout
  <2>5. ASSUME NEW x \in Executors PROVE localChan'[x] \in Seq(PastReply(x))
    <3>1. CASE localChan'[x] = localChan[x]
      BY <1>3, <3>1, Zenon
    <3>2. CASE localChan'[x] # localChan[x]
      <4>1. x = e /\ localChan[x] # <<>> /\ localChan'[x] = Tail(localChan[x])
        BY <2>4, <3>2, Zenon DEF Typed
      <4> QED
        BY <1>3, <4>1, SeqOps, Zenon
    <3> QED
      BY <3>1, <3>2, Zenon
  <2> QED
    BY <1>1, <2>1, <2>3, <2>5, RidsKept, Zenon DEF RidsPast
<1>5. CASE SendObject(e) \/ BlockOnRequest(e)
  <2>1. rid' = [rid EXCEPT ![e] = @ + 1] /\ localChan' = localChan
    BY <1>5, Zenon DEF SendObject, BlockOnRequest
  <2>2. \A x \in Executors : rid'[x] \in Nat /\ rid[x] <= rid'[x]
    BY <2>1 DEF Typed
  <2>3. /\ PastMsg \subseteq PastMsg'
        /\ PastRequest \subseteq PastRequest'
        /\ \A x \in Executors : PastReply(x) \subseteq PastReply(x)'
    BY <2>2, RidsGrow, Zenon
  <2>4. PICK m : m \in PastMsg' /\ Send(m)
    <3>1. CASE SendObject(e)
      <4>1. PICK t \in {"batch", "target"}, K \in SUBSET unsent[e] :
              Send([type |-> t, from |-> e, kids |-> K])
        BY <3>1, ZenonT(30) DEF SendObject, Typed
      <4>2. [type |-> t, from |-> e, kids |-> K] \in PastMsg'
        BY Zenon DEF ToScheduler, PastMsg, Typed
      <4> QED
        BY <4>1, <4>2, Zenon
    <3>2. CASE BlockOnRequest(e)
      <4>1. PICK op \in BlockingOps : Send([type |-> op, from |-> e, rid |-> rid[e] + 1])
        BY <3>2, Zenon DEF BlockOnRequest
      <4>2. op \in {"get", "put"}
        BY DispatchAssumption, Zenon
      <4>3. rid'[e] = rid[e] + 1 /\ rid[e] + 1 \in Nat
        BY <2>1 DEF Typed
      <4>4. [type |-> op, from |-> e, rid |-> rid[e] + 1] \in PastMsg'
        BY <4>2, <4>3 DEF ToScheduler, PastMsg
      <4> QED
        BY <4>1, <4>4, Zenon
    <3> QED
      BY <1>5, <3>1, <3>2, Zenon
  <2>5. sharedChan' \in Seq(PastMsg')
    <3>1. sharedChan \in Seq(PastMsg')
      BY <1>3, <2>3, SeqOfMore, Zenon
    <3> QED
      BY <2>4, <3>1, SeqOps, Zenon DEF Send
  <2>6. \A x \in Executors : localChan'[x] \in Seq(PastReply(x)')
    BY <1>3, <2>1, <2>3, SeqOfMore, Zenon
  <2>7. pendingIO' \subseteq PastRequest'
    BY <1>1, <2>3, Zenon DEF RidsPast
  <2> QED
    BY <2>5, <2>6, <2>7, Zenon DEF RidsPast
<1> QED
  BY <1>4, <1>5, Zenon DEF ExecutorStep

LEMMA SmallIds ==
  ASSUME NEW a \in Nat, a < RidMod
  PROVE  WireId(a) = a
  BY DispatchAssumption DEF WireId

\* As long as no executor has made RidMod requests, a get_object never takes
\* the late reply to an earlier request for its own.
THEOREM LateRepliesAreTold ==
  Spec => []((\A e \in Executors : rid[e] < RidMod) => StaleReplyRejected)
<1>1. Init => RidsPast
  BY DEF Init, RidsPast
<1>2. Typed /\ RidsPast /\ [Next]_vars => RidsPast'
  <2> SUFFICES ASSUME Typed, RidsPast, [Next]_vars
               PROVE  RidsPast'
    BY Zenon
  <2>1. CASE UNCHANGED vars
    <3>1. UNCHANGED <<rid, sharedChan, localChan, pendingIO>>
      BY <2>1, Zenon DEF vars, schedVars, execVars
    <3> QED
      BY <3>1, RidsKept, Zenon DEF RidsPast
  <2> QED
    BY <2>1, SchedulerPast, ExecutorPast, Zenon DEF Next
<1>3. Typed /\ RidsPast => ((\A e \in Executors : rid[e] < RidMod) => StaleReplyRejected)
  <2> SUFFICES ASSUME Typed, RidsPast, NEW e \in Executors, rid[e] < RidMod,
                      localChan[e] # <<>>, NEW m, m = Head(localChan[e]),
                      m.type = "reply", WireId(m.rid) = WireId(rid[e])
               PROVE  m.rid = rid[e]
    BY Zenon DEF StaleReplyRejected
  <2>1. localChan[e] \in Seq(PastReply(e))
    BY Zenon DEF RidsPast
  <2>2. m \in PastReply(e)
    BY <2>1, SeqOps, Zenon
  <2>3. m.rid \in Nat /\ m.rid <= rid[e] /\ rid[e] \in Nat
    BY <2>2, Zenon DEF PastReply, ToExecutor, Typed
  <2>4. m.rid < RidMod
    BY <2>3, DispatchAssumption
  <2> QED
    BY <2>3, <2>4, SmallIds, Zenon
<1> QED
  BY <1>1, <1>2, <1>3, TypedAlways, PTL DEF Spec

-----------------------------------------------------------------------------
(* The theorems that count.                                                *)

\* get_avail_executor_num counts a subset of the executors.
LEMMA AvailNumType == AvailNum \in Nat
<1>1. IsFiniteSet(Executors)
  BY DispatchAssumption, Zenon
<1>2. AvailExecutors \subseteq Executors
  BY Zenon DEF AvailExecutors
<1>3. IsFiniteSet(AvailExecutors)
  BY <1>1, <1>2, FS_Subset, Zenon
<1> QED
  BY <1>3, FS_CardinalityType, Zenon DEF AvailNum

LEMMA BudgetType ==
  ASSUME budget \in Nat, [Next]_vars
  PROVE  budget' \in Nat
<1>1. CASE HelperDone \/ DelayDrain \/ DelayDrained
  BY <1>1, AvailNumType DEF HelperDone, DelayDrain, DelayDrained
<1>2. CASE ScheduleNext \/ RecvExecutorMsg \/ NoExecutorMsg \/ RecvCallMsg \/ RecvIOResp
             \/ DelayExpire \/ DelayDone \/ Tick
  BY <1>2, Zenon DEF ScheduleNext, RecvExecutorMsg, NoExecutorMsg, RecvCallMsg, RecvIOResp, DelayExpire,
     DelayDone, Tick
<1>3. ASSUME NEW e \in Executors, ExecutorStep(e) \/ Report(e)
      PROVE  budget' \in Nat
  <2>1. UNCHANGED schedVars
    BY <1>3, Zenon DEF ExecutorStep, Report, RecvLocalMsg, LoadFails, StartFunction, FinishFunction, SendObject,
       BlockOnRequest, WakeUp, WaitTimeout, Release
  <2> QED
    BY <2>1, Zenon DEF schedVars
<1>4. CASE UNCHANGED vars
  BY <1>4, Zenon DEF vars, schedVars
<1> QED
  BY <1>1, <1>2, <1>3, <1>4, Zenon DEF Next, Scheduler

\* Every variable keeps its type.
THEOREM TypeCorrect == Spec => []TypeOK
<1>1. Init => budget \in Nat
  BY DEF Init
<1>2. Typed /\ budget \in Nat => TypeOK
  BY Zenon DEF Typed, TypeOK
<1>3. budget \in Nat /\ [Next]_vars => (budget \in Nat)'
  BY BudgetType, Zenon
<1> QED
  BY <1>1, <1>2, <1>3, TypedAlways, PTL DEF Spec

-----------------------------------------------------------------------------
(* Counting the messages of a queue                                        *)

\* The messages of q that are in T.
Count(q, T) == Cardinality({i \in DOMAIN q : q[i] \in T})

LEMMA CountType ==
  ASSUME NEW S, NEW q \in Seq(S), NEW T
  PROVE  /\ IsFiniteSet({i \in DOMAIN q : q[i] \in T})
         /\ Count(q, T) \in Nat
<1>1. IsFiniteSet(1 .. Len(q))
  BY FS_Interval
<1>2. {i \in DOMAIN q : q[i] \in T} \in SUBSET (1 .. Len(q))
  OBVIOUS
<1>3. IsFiniteSet({i \in DOMAIN q : q[i] \in T})
  BY <1>1, <1>2, FS_Subset, ZenonT(30)
<1> QED
  BY <1>3, FS_CardinalityType, Zenon DEF Count

LEMMA CountAppend ==
  ASSUME NEW S, NEW q \in Seq(S), NEW x \in S, NEW T
  PROVE  Count(Append(q, x), T) = IF x \in T THEN Count(q, T) + 1 ELSE Count(q, T)
<1> DEFINE D == {i \in DOMAIN q : q[i] \in T}
           E == {i \in DOMAIN Append(q, x) : Append(q, x)[i] \in T}
<1>1. PICK n \in Nat : n = Len(q) + 1
  OBVIOUS
<1>2. /\ DOMAIN q = 1 .. n - 1
      /\ DOMAIN Append(q, x) = 1 .. n
      /\ Append(q, x)[n] = x
      /\ \A i \in 1 .. n - 1 : Append(q, x)[i] = q[i]
  BY <1>1
<1>3. n \notin D
  BY <1>2
<1>4. E = IF x \in T THEN D \cup {n} ELSE D
  <2>1. ASSUME NEW i PROVE i \in E <=> (i \in D \/ (x \in T /\ i = n))
    BY <1>2
  <2> HIDE DEF D, E
  <2>2. QED
    BY <2>1, Zenon
<1>5. IsFiniteSet(D)
  BY CountType, Zenon
<1>6. Cardinality(D \cup {n}) = Cardinality(D) + 1
  <2> HIDE DEF D
  <2>1. QED
    BY <1>3, <1>5, FS_AddElement, Zenon
<1>7. Count(q, T) = Cardinality(D) /\ Count(Append(q, x), T) = Cardinality(E)
  BY Zenon DEF Count
<1> HIDE DEF D, E
<1> QED
  BY <1>4, <1>6, <1>7, Zenon

LEMMA CountTail ==
  ASSUME NEW S, NEW q \in Seq(S), q # <<>>, NEW T
  PROVE  Count(q, T) = IF Head(q) \in T THEN Count(Tail(q), T) + 1 ELSE Count(Tail(q), T)
<1> DEFINE D == {i \in DOMAIN q : q[i] \in T}
           E == {i \in DOMAIN Tail(q) : Tail(q)[i] \in T}
           f == [i \in E |-> i + 1]
<1>1. PICK n \in Nat : n = Len(q)
  OBVIOUS
<1>2. /\ n > 0
      /\ DOMAIN q = 1 .. n
      /\ DOMAIN Tail(q) = 1 .. n - 1
      /\ \A i \in 1 .. n - 1 : Tail(q)[i] = q[i + 1]
      /\ Head(q) = q[1]
      /\ Tail(q) \in Seq(S)
  BY <1>1
<1>3. \A i \in E : i \in 1 .. n - 1 /\ i + 1 \in D \ {1}
  BY <1>2
<1>4. \A j \in D \ {1} : j - 1 \in E /\ (j - 1) + 1 = j
  <2>1. SUFFICES ASSUME NEW j \in D \ {1} PROVE j - 1 \in E /\ (j - 1) + 1 = j
    BY Zenon
  <2>2. j \in 2 .. n /\ q[j] \in T
    BY <1>2
  <2>3. j - 1 \in 1 .. n - 1 /\ (j - 1) + 1 = j
    BY <2>2
  <2>4. QED
    BY <1>2, <2>2, <2>3, Zenon
<1>5. 1 \in D <=> Head(q) \in T
  BY <1>2
<1>6. IsFiniteSet(E) /\ IsFiniteSet(D)
  BY <1>2, CountType, Zenon
<1>7. Count(q, T) = Cardinality(D) /\ Count(Tail(q), T) = Cardinality(E)
  BY Zenon DEF Count
<1>8. D = IF Head(q) \in T THEN (D \ {1}) \cup {1} ELSE D \ {1}
  BY <1>5, Zenon
<1> HIDE DEF D, E
<1>9. f \in Bijection(E, D \ {1})
  <2>1. f \in [E -> D \ {1}]
    BY <1>3, Zenon
  <2>2. \A a, b \in E : f[a] = f[b] => a = b
    BY <1>3
  <2>3. \A j \in D \ {1} : \E a \in E : f[a] = j
    BY <1>4, Zenon
  <2> HIDE DEF f
  <2>4. QED
    BY <2>1, <2>2, <2>3, Fun_IsBij, Zenon
<1>10. Cardinality(D \ {1}) = Cardinality(E)
  BY <1>6, <1>9, FS_Bijection, ZenonT(30) DEF ExistsBijection
<1>11. Cardinality(D \ {1}) = IF 1 \in D THEN Cardinality(D) - 1 ELSE Cardinality(D)
  BY <1>6, FS_RemoveElement, Zenon
<1>12. Cardinality(D) \in Nat
  BY <1>6, FS_CardinalityType, Zenon
<1> QED
  BY <1>5, <1>7, <1>10, <1>11, <1>12

-----------------------------------------------------------------------------
(* Calls held by an executor are paid by its reports.                      *)
(*                                                                         *)
(* A dispatch spends the usable status of an executor, which comes from    *)
(* one "available" message, which is a periodic report or the end of a     *)
(* call.  The invariant adds up all of them.                               *)

CallMsgs == {m \in ToExecutor : m.type = "call"}

Avails(e) == {m \in ToScheduler : m.type = "avail" /\ m.from = e}

Queued(e) == Count(localChan[e], CallMsgs)

Taken(e) == IF estate[e] = "idle" THEN 0 ELSE 1

Unread(e) == Count(sharedChan, Avails(e))

Usable(e) == IF status[e] \in {0, 1} THEN 1 ELSE 0

Paid(e) == Queued(e) + Taken(e) + Unread(e) + Usable(e) <= reports[e]

AllPaid == \A e \in Executors : Paid(e)

LEMMA PaidTypes ==
  ASSUME Typed, NEW e \in Executors
  PROVE  Queued(e) \in Nat /\ Taken(e) \in 0 .. 1 /\ Unread(e) \in Nat
           /\ Usable(e) \in 0 .. 1 /\ reports[e] \in Nat
<1>1. localChan[e] \in Seq(ToExecutor) /\ sharedChan \in Seq(ToScheduler) /\ reports[e] \in Nat
  BY Zenon DEF Typed
<1>2. Queued(e) \in Nat /\ Unread(e) \in Nat
  BY <1>1, CountType, ZenonT(30) DEF Queued, Unread
<1> QED
  BY <1>1, <1>2 DEF Taken, Usable

\* A step after which the sum is no larger, or larger by as much as reports[e].
LEMMA PaidKept ==
  ASSUME Typed, Typed', NEW e \in Executors, Paid(e),
         Queued(e)' + Taken(e)' + Unread(e)' + Usable(e)' + reports[e]
           <= Queued(e) + Taken(e) + Unread(e) + Usable(e) + reports'[e]
  PROVE  Paid(e)'
<1>1. Queued(e) \in Nat /\ Taken(e) \in 0 .. 1 /\ Unread(e) \in Nat
        /\ Usable(e) \in 0 .. 1 /\ reports[e] \in Nat
  BY PaidTypes, Zenon
<1>2. Queued(e)' \in Nat /\ Taken(e)' \in 0 .. 1 /\ Unread(e)' \in Nat
        /\ Usable(e)' \in 0 .. 1 /\ reports'[e] \in Nat
  <2>1. localChan'[e] \in Seq(ToExecutor) /\ sharedChan' \in Seq(ToScheduler) /\ reports'[e] \in Nat
    BY Zenon DEF Typed
  <2>2. Queued(e)' \in Nat /\ Unread(e)' \in Nat
    BY <2>1, CountType, ZenonT(30) DEF Queued, Unread
  <2> QED
    BY <2>1, <2>2 DEF Taken, Usable
<1> QED
  BY <1>1, <1>2 DEF Paid

\* send_to_executer adds at most the message it is given, to one channel.
LEMMA DeliverQueued ==
  ASSUME Typed, NEW e \in Executors, NEW m \in ToExecutor, Deliver(e, m), NEW x \in Executors
  PROVE  /\ Queued(x)' <= Queued(x) + 1
         /\ x # e \/ m.type # "call" => Queued(x)' = Queued(x)
<1>0. localChan[x] \in Seq(ToExecutor)
  BY Zenon DEF Typed
<1>1. Queued(x) \in Nat
  BY PaidTypes, Zenon
<1>2. CASE localChan'[x] = localChan[x]
  BY <1>1, <1>2 DEF Queued
<1>3. CASE localChan'[x] # localChan[x]
  <2>1. x = e /\ localChan'[x] = Append(localChan[x], m)
    BY <1>3, Zenon DEF Deliver, Typed
  <2>2. m \in CallMsgs <=> m.type = "call"
    BY Zenon DEF CallMsgs
  <2>3. Count(Append(localChan[x], m), CallMsgs)
          = IF m \in CallMsgs THEN Count(localChan[x], CallMsgs) + 1 ELSE Count(localChan[x], CallMsgs)
    BY <1>0, CountAppend, Zenon
  <2>4. Queued(x)' = IF m \in CallMsgs THEN Queued(x) + 1 ELSE Queued(x)
    BY <2>1, <2>3, Zenon DEF Queued
  <2> QED
    BY <1>1, <2>1, <2>2, <2>4
<1> QED
  BY <1>2, <1>3, Zenon

\* An executor takes the first message of its channel.
LEMMA TakeQueued ==
  ASSUME Typed, NEW e \in Executors, localChan[e] # <<>>,
         localChan' = [localChan EXCEPT ![e] = Tail(@)], NEW x \in Executors
  PROVE  /\ x # e => Queued(x)' = Queued(x)
         /\ x = e => Queued(x) = IF Head(localChan[e]).type = "call" THEN Queued(x)' + 1
                                 ELSE Queued(x)'
<1>1. CASE x # e
  BY <1>1, Zenon DEF Queued, Typed
<1>2. CASE x = e
  <2>1. localChan[x] \in Seq(ToExecutor) /\ localChan'[x] = Tail(localChan[x])
    BY <1>2, Zenon DEF Typed
  <2>2. Head(localChan[x]) \in CallMsgs <=> Head(localChan[x]).type = "call"
    BY <1>2, <2>1, SeqOps, Zenon DEF CallMsgs
  <2>3. Count(localChan[x], CallMsgs)
          = IF Head(localChan[x]) \in CallMsgs THEN Count(Tail(localChan[x]), CallMsgs) + 1
            ELSE Count(Tail(localChan[x]), CallMsgs)
    BY <1>2, <2>1, CountTail, Zenon
  <2> QED
    BY <1>2, <2>1, <2>2, <2>3, Zenon DEF Queued
<1> QED
  BY <1>1, <1>2, Zenon

LEMMA SendUnread ==
  ASSUME Typed, NEW m \in ToScheduler, Send(m), NEW x \in Executors
  PROVE  Unread(x)' = IF m.type = "avail" /\ m.from = x THEN Unread(x) + 1 ELSE Unread(x)
<1>1. sharedChan \in Seq(ToScheduler) /\ sharedChan' = Append(sharedChan, m)
  BY Zenon DEF Typed, Send
<1>2. m \in Avails(x) <=> m.type = "avail" /\ m.from = x
  BY Zenon DEF Avails
<1>3. Count(Append(sharedChan, m), Avails(x))
        = IF m \in Avails(x) THEN Count(sharedChan, Avails(x)) + 1 ELSE Count(sharedChan, Avails(x))
  BY <1>1, CountAppend, Zenon
<1> QED
  BY <1>1, <1>2, <1>3, ZenonT(30) DEF Unread, Avails

LEMMA ReadUnread ==
  ASSUME Typed, sharedChan # <<>>, sharedChan' = Tail(sharedChan), NEW x \in Executors
  PROVE  Unread(x) = IF Head(sharedChan).type = "avail" /\ Head(sharedChan).from = x
                     THEN Unread(x)' + 1 ELSE Unread(x)'
<1>1. sharedChan \in Seq(ToScheduler)
  BY Zenon DEF Typed
<1>2. Head(sharedChan) \in Avails(x) <=> Head(sharedChan).type = "avail" /\ Head(sharedChan).from = x
  BY <1>1, SeqOps, Zenon DEF Avails
<1>3. Count(sharedChan, Avails(x))
        = IF Head(sharedChan) \in Avails(x) THEN Count(Tail(sharedChan), Avails(x)) + 1
          ELSE Count(Tail(sharedChan), Avails(x))
  BY <1>1, CountTail, Zenon
<1> QED
  BY <1>1, <1>2, <1>3, ZenonT(30) DEF Unread, Avails

\* The parts of the sum a step leaves alone.
LEMMA SameParts ==
  ASSUME NEW x \in Executors
  PROVE  /\ localChan'[x] = localChan[x] => Queued(x)' = Queued(x)
         /\ estate'[x] = estate[x] => Taken(x)' = Taken(x)
         /\ sharedChan' = sharedChan => Unread(x)' = Unread(x)
         /\ status'[x] = status[x] => Usable(x)' = Usable(x)
  BY ZenonT(30) DEF Queued, Taken, Unread, Usable, Avails

LEMMA UnchangedPaid ==
  ASSUME Typed, Typed', AllPaid, UNCHANGED <<status, sharedChan, localChan, estate, reports>>
  PROVE  AllPaid'
<1> SUFFICES ASSUME NEW x \in Executors
             PROVE  Paid(x)'
  BY Zenon DEF AllPaid
<1>1. Queued(x)' = Queued(x) /\ Taken(x)' = Taken(x) /\ Unread(x)' = Unread(x) /\ Usable(x)' = Usable(x)
  BY SameParts, Zenon
<1>2. Paid(x)
  BY Zenon DEF AllPaid
<1> QED
  BY <1>1, <1>2, Zenon DEF Paid

\* A dispatch spends the status of the executor it picks.
LEMMA SchedulePaid ==
  ASSUME Typed, Typed', AllPaid, NEW c \in Calls, NEW q, ScheduleFuncCall(c, q),
         sharedChan' = sharedChan, UNCHANGED execVars
  PROVE  AllPaid'
<1> SUFFICES ASSUME NEW x \in Executors
             PROVE  Paid(x)'
  BY Zenon DEF AllPaid
<1>1. Paid(x) /\ Taken(x)' = Taken(x) /\ Unread(x)' = Unread(x) /\ reports' = reports
  BY SameParts, Zenon DEF AllPaid, execVars
<1>2. Queued(x) \in Nat /\ Taken(x) \in 0 .. 1 /\ Unread(x) \in Nat
        /\ Usable(x) \in 0 .. 1 /\ reports[x] \in Nat
  BY PaidTypes, Zenon
<1>3. CASE \E e \in Candidates(FuncOf[c]) : DispatchTo(e, c)
  <2>1. PICK e \in Candidates(FuncOf[c]) : DispatchTo(e, c)
    BY <1>3, Zenon
  <2>2. FuncOf[c] \in Funcs
    BY DispatchAssumption, Zenon
  <2>3. e \in Executors /\ status[e] \in {0, 1}
    BY <2>2, Zenon DEF Candidates, WarmExecutors, ColdExecutors, Typed
  <2>4. [type |-> "call", call |-> c] \in ToExecutor
    BY Zenon DEF ToExecutor
  <2>5. Deliver(e, [type |-> "call", call |-> c]) /\ status' = [status EXCEPT ![e] = 2]
    BY <2>1, Zenon DEF DispatchTo, AwaitStatus
  <2>6. Queued(x)' <= Queued(x) + 1 /\ (x # e => Queued(x)' = Queued(x))
    BY <2>3, <2>4, <2>5, DeliverQueued, Zenon
  <2>7. Queued(x)' \in Nat
    <3>1. localChan'[x] \in Seq(ToExecutor)
      BY Zenon DEF Typed
    <3> QED
      BY <3>1, CountType, ZenonT(30) DEF Queued
  <2>8. CASE x = e
    <3>1. Usable(x) = 1 /\ Usable(x)' = 0
      BY <2>3, <2>5, <2>8, SMTT(30) DEF Usable, Typed
    <3> QED
      BY <1>1, <1>2, <2>6, <2>7, <3>1, PaidKept, SMTT(30)
  <2>9. CASE x # e
    <3>1. Usable(x)' = Usable(x)
      BY <2>3, <2>5, <2>9, Zenon DEF Usable, Typed
    <3> QED
      BY <1>1, <1>2, <2>6, <2>9, <3>1, PaidKept, SMTT(30)
  <2> QED
    BY <2>8, <2>9, Zenon
<1>4. CASE UNCHANGED <<status, localChan>>
  BY <1>1, <1>2, <1>4, SameParts, PaidKept
<1> QED
  BY <1>3, <1>4, Zenon DEF ScheduleFuncCall

\* An "available" message that is read pays for a usable status.
LEMMA RecvPaid ==
  ASSUME Typed, Typed', AllPaid, RecvExecutorMsg
  PROVE  AllPaid'
<1> SUFFICES ASSUME NEW x \in Executors
             PROVE  Paid(x)'
  BY Zenon DEF AllPaid
<1>a. PICK m : m = Head(sharedChan)
  BY Zenon
<1>1. /\ Paid(x) /\ estate' = estate /\ reports' = reports
      /\ sharedChan # <<>> /\ sharedChan' = Tail(sharedChan)
      /\ HandleStatus(m) \/ HandleObject(m) \/ HandleRequest(m)
  BY <1>a, Zenon DEF AllPaid, RecvExecutorMsg, execVars
<1>2. m \in ToScheduler /\ m.from \in Executors
  <2>1. sharedChan \in Seq(ToScheduler)
    BY Zenon DEF Typed
  <2>2. m \in ToScheduler
    BY <1>1, <1>a, <2>1, SeqOps, ZenonT(30)
  <2> QED
    BY <2>2, Zenon DEF ToScheduler
<1>3. Queued(x) \in Nat /\ Taken(x) \in 0 .. 1 /\ Unread(x) \in Nat
        /\ Usable(x) \in 0 .. 1 /\ reports[x] \in Nat
  BY PaidTypes, Zenon
<1>4. Taken(x)' = Taken(x)
  BY <1>1, SameParts, Zenon
<1>5. Unread(x) = IF m.type = "avail" /\ m.from = x THEN Unread(x)' + 1 ELSE Unread(x)'
  BY <1>1, <1>a, ReadUnread, Zenon
<1>6. Queued(x)' = Queued(x)
  <2>1. CASE UNCHANGED localChan
    BY <2>1, SameParts, Zenon
  <2>2. CASE HandleRequest(m) /\ Deliver(m.from, [type |-> "reply", rid |-> m.rid])
    <3>1. PICK y : y = [type |-> "reply", rid |-> m.rid]
      BY ZenonT(30)
    <3>2. y \in ToExecutor /\ y.type # "call"
      BY <2>2, <1>2, <3>1, Zenon DEF HandleRequest, ToScheduler, ToExecutor
    <3> QED
      BY <2>2, <3>1, <3>2, <1>2, DeliverQueued, Zenon
  <2> QED
    BY <1>1, <2>1, <2>2, Zenon DEF HandleStatus, HandleObject, HandleRequest
<1>7. Unread(x)' \in Nat
  <2>1. sharedChan' \in Seq(ToScheduler)
    BY Zenon DEF Typed
  <2> QED
    BY <2>1, CountType, ZenonT(30) DEF Unread
<1>8. CASE m.type = "avail" /\ m.from = x
  <2>1. Usable(x)' \in 0 .. 1
    BY DEF Usable
  <2> QED
    BY <1>1, <1>3, <1>4, <1>5, <1>6, <1>7, <1>8, <2>1, PaidKept, SMTT(30)
<1>9. CASE ~(m.type = "avail" /\ m.from = x)
  <2>1. status'[x] = status[x] \/ status'[x] = 3
    BY <1>1, <1>2, <1>9, Zenon DEF HandleStatus, HandleObject, HandleRequest, Typed
  <2>2. Usable(x)' \in 0 .. 1 /\ Usable(x)' <= Usable(x)
    BY <2>1 DEF Usable
  <2> QED
    BY <1>1, <1>3, <1>4, <1>5, <1>6, <1>7, <1>9, <2>2, PaidKept, SMTT(30)
<1> QED
  BY <1>8, <1>9, Zenon

LEMMA SchedulerPaid ==
  ASSUME Typed, Typed', AllPaid, Scheduler \/ Tick
  PROVE  AllPaid'
<1>1. CASE ScheduleNext
  BY <1>1, SchedulePaid, Zenon DEF ScheduleNext, Typed
<1>2. CASE DelayDrain
  <2>0. Head(delayQ) \in Delayed
    BY <1>2, SeqOps, Zenon DEF DelayDrain, Typed
  <2>1. Head(delayQ).call \in Calls
    BY <2>0, Zenon DEF Delayed
  <2> QED
    BY <1>2, <2>1, SchedulePaid, Zenon DEF DelayDrain
<1>3. CASE NoExecutorMsg \/ RecvCallMsg \/ HelperDone \/ DelayDrained \/ DelayExpire
             \/ DelayDone \/ Tick
  <2>1. UNCHANGED <<status, sharedChan, localChan, estate, reports>>
    BY <1>3, Zenon DEF NoExecutorMsg, RecvCallMsg, HelperDone, DelayDrained, DelayExpire,
                DelayDone, Tick, execVars
  <2> QED
    BY <2>1, UnchangedPaid, Zenon
<1>4. CASE RecvIOResp
  <2>1. PICK r \in pendingIO : Deliver(r.from, [type |-> "reply", rid |-> r.rid])
    BY <1>4, Zenon DEF RecvIOResp
  <2>2. PICK y : y = [type |-> "reply", rid |-> r.rid]
    BY ZenonT(30)
  <2>3. r.from \in Executors /\ y \in ToExecutor /\ y.type # "call"
    BY <2>2, Zenon DEF Typed, Request, ToExecutor
  <2>4. UNCHANGED <<status, sharedChan, estate, reports>>
    BY <1>4, Zenon DEF RecvIOResp, execVars
  <2>5. ASSUME NEW x \in Executors
        PROVE  Paid(x)'
    <3>1. Queued(x)' = Queued(x)
      BY <2>1, <2>2, <2>3, DeliverQueued, Zenon
    <3> QED
      BY <2>4, <3>1, SameParts, PaidKept, PaidTypes DEF AllPaid
  <2> QED
    BY <2>5, Zenon DEF AllPaid
<1> QED
  BY <1>1, <1>2, <1>3, <1>4, RecvPaid, Zenon DEF Scheduler

\* A report adds one to both sides; a call that is taken moves from the channel
\* to the executor; one that ends, or is lost to a waiting get_object, is held
\* no longer.
LEMMA ExecutorPaid ==
  ASSUME Typed, Typed', AllPaid, NEW e \in Executors, ExecutorStep(e) \/ Report(e)
  PROVE  AllPaid'
<1> SUFFICES ASSUME NEW x \in Executors
             PROVE  Paid(x)'
  BY Zenon DEF AllPaid
<1>1. Paid(x)
  BY Zenon DEF AllPaid
<1>2. Queued(x) \in Nat /\ Taken(x) \in 0 .. 1 /\ Unread(x) \in Nat
        /\ Usable(x) \in 0 .. 1 /\ reports[x] \in Nat
  BY PaidTypes, Zenon
<1>3. status' = status /\ Usable(x)' = Usable(x)
  <2>1. status' = status
    BY Zenon DEF ExecutorStep, RecvLocalMsg, LoadFails, StartFunction, FinishFunction, Release,
           SendObject, BlockOnRequest, WakeUp, WaitTimeout, Report, schedVars
  <2> QED
    BY <2>1, SameParts, Zenon
<1>4. Queued(x)' \in Nat
  <2>1. localChan'[x] \in Seq(ToExecutor)
    BY Zenon DEF Typed
  <2> QED
    BY <2>1, CountType, ZenonT(30) DEF Queued
<1>5. ASSUME NEW t \in {"busy", "avail"}
      PROVE  /\ StatusMsg(e, t) \in ToScheduler
             /\ StatusMsg(e, t).type = t /\ StatusMsg(e, t).from = e
  BY Zenon DEF StatusMsg, ToScheduler
<1>6. CASE RecvLocalMsg(e)
  <2>1. /\ localChan[e] # <<>> /\ localChan' = [localChan EXCEPT ![e] = Tail(@)]
        /\ reports' = reports /\ estate[e] = "idle"
    BY <1>6, Zenon DEF RecvLocalMsg
  <2>2. CASE Head(localChan[e]).type = "call"
    <3>1. Send(StatusMsg(e, "busy")) /\ estate' = [estate EXCEPT ![e] = "load"]
      BY <1>6, <2>2, Zenon DEF RecvLocalMsg
    <3>2. Unread(x)' = Unread(x)
      BY <1>5, <3>1, SendUnread, Zenon
    <3>3. CASE x = e
      <4>1. Taken(x) = 0 /\ Taken(x)' = 1
        BY <2>1, <3>1, <3>3, Zenon DEF Taken, Typed
      <4>2. Queued(x) = Queued(x)' + 1
        BY <2>1, <2>2, <3>3, TakeQueued, Zenon
      <4> QED
        BY <1>1, <1>2, <1>3, <1>4, <2>1, <3>2, <4>1, <4>2, PaidKept, SMTT(30)
    <3>4. CASE x # e
      <4>1. Taken(x)' = Taken(x)
        BY <3>1, <3>4, SameParts, Zenon DEF Typed
      <4>2. Queued(x) = Queued(x)'
        BY <2>1, <3>4, TakeQueued, Zenon
      <4> QED
        BY <1>1, <1>2, <1>3, <2>1, <3>2, <4>1, <4>2, PaidKept, SMTT(30)
    <3> QED
      BY <3>3, <3>4, Zenon
  <2>3. CASE Head(localChan[e]).type # "call"
    <3>1. UNCHANGED <<sharedChan, estate>>
      BY <1>6, <2>3, Zenon DEF RecvLocalMsg
    <3>2. Unread(x)' = Unread(x) /\ Taken(x)' = Taken(x)
      BY <3>1, SameParts, Zenon
    <3>3. Queued(x) = Queued(x)'
      BY <2>1, <2>3, TakeQueued, Zenon
    <3> QED
      BY <1>1, <1>2, <1>3, <2>1, <3>2, <3>3, PaidKept, SMTT(30)
  <2> QED
    BY <2>2, <2>3, Zenon
<1>7. CASE LoadFails(e) \/ FinishFunction(e)
  <2>1. /\ Send(StatusMsg(e, "avail")) /\ estate' = [estate EXCEPT ![e] = "idle"]
        /\ estate[e] # "idle" /\ localChan' = localChan /\ reports' = reports
    BY <1>7, Zenon DEF LoadFails, FinishFunction, Release
  <2>2. Unread(x)' = IF x = e THEN Unread(x) + 1 ELSE Unread(x)
    BY <1>5, <2>1, SendUnread, Zenon
  <2>3. Queued(x)' = Queued(x)
    BY <2>1, SameParts, Zenon
  <2>4. CASE x = e
    <3>1. Taken(x) = 1 /\ Taken(x)' = 0
      BY <2>1, <2>4, Zenon DEF Taken, Typed
    <3> QED
      BY <1>1, <1>2, <1>3, <2>1, <2>2, <2>3, <2>4, <3>1, PaidKept, SMTT(30)
  <2>5. CASE x # e
    <3>1. Taken(x)' = Taken(x)
      BY <2>1, <2>5, SameParts, Zenon DEF Typed
    <3> QED
      BY <1>1, <1>2, <1>3, <2>1, <2>2, <2>3, <2>5, <3>1, PaidKept, SMTT(30)
  <2> QED
    BY <2>4, <2>5, Zenon
<1>8. CASE StartFunction(e) \/ WakeUp(e) \/ WaitTimeout(e)
  <2>1. /\ sharedChan' = sharedChan /\ reports' = reports
        /\ estate[e] # "idle" /\ estate'[e] # "idle"
        /\ \A y \in Executors \ {e} : estate'[y] = estate[y]
        /\ localChan' = localChan \/ (localChan[e] # <<>> /\ localChan' = [localChan EXCEPT ![e] = Tail(@)])
    BY <1>8, Zenon DEF StartFunction, WakeUp, WaitTimeout, Typed
  <2>2. Taken(x)' = Taken(x)
    BY <2>1, Zenon DEF Taken
  <2>3. Unread(x)' = Unread(x)
    BY <2>1, SameParts, Zenon
  <2>4. Queued(x)' <= Queued(x)
    BY <1>2, <1>4, <2>1, SameParts, TakeQueued, SMTT(30)
  <2> QED
    BY <1>1, <1>2, <1>3, <1>4, <2>1, <2>2, <2>3, <2>4, PaidKept, SMTT(30)
<1>9. CASE SendObject(e) \/ BlockOnRequest(e)
  <2>1. PICK m \in ToScheduler : m.type \notin {"busy", "avail"} /\ Send(m)
    BY <1>9, RequestSent, Zenon
  <2>2. /\ UNCHANGED <<localChan, reports>>
        /\ estate[e] # "idle" /\ estate'[e] # "idle"
        /\ \A y \in Executors \ {e} : estate'[y] = estate[y]
    <3>1. \A op \in BlockingOps : op # "idle"
      BY DispatchAssumption, Zenon
    <3> QED
      BY <1>9, <3>1, ZenonT(30) DEF SendObject, BlockOnRequest, Typed, schedVars
  <2>3. Taken(x)' = Taken(x)
    BY <2>2, Zenon DEF Taken
  <2>4. Queued(x)' = Queued(x)
    BY <2>2, SameParts, Zenon
  <2>5. Unread(x)' = Unread(x)
    BY <2>1, SendUnread, Zenon
  <2> QED
    BY <1>1, <1>2, <1>3, <2>2, <2>3, <2>4, <2>5, PaidKept, SMTT(30)
<1>10. CASE Report(e)
  <2>1. /\ Send(StatusMsg(e, "avail")) /\ UNCHANGED <<estate, localChan>>
        /\ reports' = [reports EXCEPT ![e] = @ + 1]
    BY <1>10, Zenon DEF Report
  <2>2. Unread(x)' = IF x = e THEN Unread(x) + 1 ELSE Unread(x)
    BY <1>5, <2>1, SendUnread, Zenon
  <2>3. Queued(x)' = Queued(x) /\ Taken(x)' = Taken(x)
    BY <2>1, SameParts, Zenon
  <2>4. reports'[x] = IF x = e THEN reports[x] + 1 ELSE reports[x]
    BY <2>1, Zenon DEF Typed
  <2> QED
    BY <1>1, <1>2, <1>3, <2>2, <2>3, <2>4, PaidKept, SMTT(30)
<1> QED
  BY <1>6, <1>7, <1>8, <1>9, <1>10, Zenon DEF ExecutorStep

\* An executor has never been given more calls than it has sent periodic
\* reports: only a report that crosses a dispatch can queue one call behind
\* another, and nothing is dispatched before the first report is read.
THEOREM CallsArePaidByReports == Spec => []HeldPaidByReports
<1>1. Init => AllPaid
  <2> SUFFICES ASSUME Init, NEW e \in Executors
               PROVE  Paid(e)
    BY Zenon DEF AllPaid
  <2>1. localChan[e] = <<>> /\ sharedChan = <<>> /\ status[e] = 2 /\ reports[e] = 0 /\ estate[e] = "idle"
    BY Zenon DEF Init
  <2>2. \A T : Count(<<>>, T) = 0
    BY FS_EmptySet DEF Count
  <2> QED
    BY <2>1, <2>2 DEF Paid, Queued, Taken, Unread, Usable
<1>2. Typed /\ Typed' /\ AllPaid /\ [Next]_vars => AllPaid'
  <2> SUFFICES ASSUME Typed, Typed', AllPaid, [Next]_vars
               PROVE  AllPaid'
    BY Zenon
  <2>1. CASE UNCHANGED vars
    <3>1. UNCHANGED <<status, sharedChan, localChan, estate, reports>>
      BY <2>1, Zenon DEF vars, schedVars, execVars
    <3> QED
      BY <3>1, UnchangedPaid, Zenon
  <2> QED
    BY <2>1, SchedulerPaid, ExecutorPaid, Zenon DEF Next
<1>3. Typed /\ AllPaid => HeldPaidByReports
  <2> SUFFICES ASSUME Typed, AllPaid, NEW e \in Executors
               PROVE  Held(e) <= reports[e]
    BY Zenon DEF HeldPaidByReports
  <2>1. Queued(e) \in Nat /\ Taken(e) \in 0 .. 1 /\ Unread(e) \in Nat
          /\ Usable(e) \in 0 .. 1 /\ reports[e] \in Nat
    BY PaidTypes, Zenon
  <2>2. {i \in DOMAIN localChan[e] : localChan[e][i].type = "call"}
          = {i \in DOMAIN localChan[e] : localChan[e][i] \in CallMsgs}
    BY DEF Typed, CallMsgs
  <2>3. Held(e) = Queued(e) + Taken(e)
    BY <2>2, ZenonT(30) DEF Held, Queued, Taken, Count
  <2>4. Paid(e)
    BY Zenon DEF AllPaid
  <2> QED
    BY <2>1, <2>3, <2>4 DEF Paid
<1> QED
  BY <1>1, <1>2, <1>3, TypedAlways, PTL DEF Spec

=============================================================================
