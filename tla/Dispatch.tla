------------------------------ MODULE Dispatch ------------------------------
(***************************************************************************)
(* One worker node: the local scheduler's main loop, its executors, and    *)
(* the shared-memory channels between them.                                *)
(*                                                                         *)
(*   status     executor_status_map: 0 empty, 1 available, 2 await, 3 busy *)
(*   warm       function_executor_map: executors a function was sent to    *)
(*   delayQ     delay_call_queue; "aged" once schedDelayTime has elapsed   *)
(*   phase      the section of the scheduler's loop that runs next         *)
(*   todo       calls the current handler still passes to                  *)
(*              schedule_func_call                                         *)
(*   budget     cur_avail_executors of the loop that drains delayQ         *)
(*   pendingIO  key_remote_get_map and key_ksv_put_map: requests of        *)
(*              executors that the scheduler has not answered yet          *)
(*   sharedChan shared_chan, from every executor to the scheduler          *)
(*   localChan  one channel from the scheduler to each executor            *)
(*   estate     what the executor process is doing                         *)
(*   ecall      the call the executor has taken from its channel           *)
(*   unsent     direct invocations the running function may still make     *)
(*   rid        requests the executor has made; WireId(rid) is what it     *)
(*              sends                                                      *)
(*   reports    periodic "available" reports the executor has sent         *)
(*   inbox      calls the coordinator has sent to this node                *)
(*   unborn     direct invocations that no function has made yet           *)
(*   settled    how a call left the node ("no" while it is here)           *)
(*                                                                         *)
(* Arguments, sessions and payloads do not influence any of this and are   *)
(* left out.  The scheduler is one thread, so each step of its loop is one *)
(* action; the executors are other processes and interleave with it.       *)
(***************************************************************************)
EXTENDS Integers, Sequences, FiniteSets

CONSTANTS
  Executors,       \* executor processes of the node
  Calls,           \* function calls, each with its own identity
  Funcs,           \* function names
  FuncOf,          \* the function a call names
  Children,        \* direct invocations a call's function may make, each
                   \* a call of its own
  SharedExecutor,  \* configuration "shared"
  DelayOn,         \* configuration "delay" > 0
  RejectExtra,     \* configuration "forward_or_reject"
  BlockingOps,     \* blocking operations functions use: "get", "put"
  MaxReports,      \* bound: periodic reports per executor
  MaxOps,          \* bound: blocking operations in a behaviour
  RidMod,          \* the request counter's modulus (100 in the code)
  NoCall           \* no call

ASSUME DispatchAssumption ==
  /\ IsFiniteSet(Executors)
  /\ FuncOf \in [Calls -> Funcs]
  /\ Children \in [Calls -> SUBSET Calls]
  /\ \A c, d \in Calls : c # d => Children[c] \cap Children[d] = {}
  /\ {SharedExecutor, DelayOn, RejectExtra} \subseteq BOOLEAN
  /\ BlockingOps \subseteq {"get", "put"}
  /\ MaxReports \in Nat
  /\ MaxOps \in Nat
  /\ RidMod \in Nat \ {0}
  /\ NoCall \notin Calls

VARIABLES status, warm, delayQ, phase, todo, budget, pendingIO,
          sharedChan, localChan,
          estate, ecall, unsent, rid, reports, opsLeft,
          inbox, unborn, settled

schedVars == <<status, warm, delayQ, phase, todo, budget, pendingIO>>
execVars  == <<estate, ecall, unsent, rid, reports, opsLeft>>
callVars  == <<inbox, unborn, settled>>
vars == <<schedVars, sharedChan, localChan, execVars, callVars>>

Roots == Calls \ UNION {Children[c] : c \in Calls}

Phases  == {"exec", "helper", "drain", "age"}
EStates == {"idle", "load", "run", "get", "put", "dead"}
Fates   == {"no", "done", "failed", "forwarded", "rejected", "stolen", "lost"}

ToScheduler == [type : {"busy", "avail", "get", "put"}, from : Executors, rid : Nat]
                 \cup [type : {"batch", "target"}, from : Executors, kids : SUBSET Calls]
ToExecutor  == [type : {"call"}, call : Calls] \cup [type : {"reply"}, rid : Nat]
Request     == [from : Executors, rid : Nat]
Delayed     == [call : Calls, aged : BOOLEAN]

Init ==
  /\ status = [e \in Executors |-> 2]
  /\ warm = [f \in Funcs |-> {}]
  /\ delayQ = <<>>
  /\ phase = "exec"
  /\ todo = {}
  /\ budget = 0
  /\ pendingIO = {}
  /\ sharedChan = <<>>
  /\ localChan = [e \in Executors |-> <<>>]
  /\ estate = [e \in Executors |-> "idle"]
  /\ ecall = [e \in Executors |-> NoCall]
  /\ unsent = [e \in Executors |-> {}]
  /\ rid = [e \in Executors |-> 0]
  /\ reports = [e \in Executors |-> 0]
  /\ opsLeft = MaxOps
  /\ inbox = Roots
  /\ unborn = Calls \ Roots
  /\ settled = [c \in Calls |-> "no"]

-----------------------------------------------------------------------------
(* Local scheduler: schedule_func_call                                     *)

Settle(S, fate) == settled' = [c \in Calls |-> IF c \in S THEN fate ELSE settled[c]]

\* A call that finds no room is handed to the coordinator, or dropped where
\* the configuration says to reject.
ExtraFate == IF RejectExtra THEN "rejected" ELSE "forwarded"

AvailExecutors == {e \in Executors : status[e] \in {0, 1}}

AvailNum == Cardinality(AvailExecutors)

WarmExecutors(f) == {e \in warm[f] : status[e] = 1}

ColdExecutors == {e \in Executors : status[e] = 0 \/ (SharedExecutor /\ status[e] = 1)}

\* The scan of executor_status_map stops at the first warm executor it meets,
\* in an order the standard library does not fix.
Candidates(f) == IF WarmExecutors(f) # {} THEN WarmExecutors(f) ELSE ColdExecutors

\* send_to_executer, which logs a failed send and does not repeat it; an
\* executor that hangs has disconnected its channel.  The ring of a live
\* executor's channel is taken to have room (ShmChan models a full one).
Deliver(e, m) ==
  localChan' = IF estate[e] = "dead" THEN localChan
               ELSE [localChan EXCEPT ![e] = Append(@, m)]

\* Mutant of AwaitStatus: no mark at all.
FreeStatus == 0

AwaitStatus == 2

DispatchTo(e, c) ==
  /\ Deliver(e, [type |-> "call", call |-> c])
  /\ status' = [status EXCEPT ![e] = AwaitStatus]
  /\ warm' = [warm EXCEPT ![FuncOf[c]] = @ \cup {e}]
  /\ IF estate[e] = "dead" THEN Settle({c}, "lost") ELSE UNCHANGED settled

\* schedule_func_call on call c, when the delay queue reads q on return if c
\* is not pushed to it.
ScheduleFuncCall(c, q) ==
  \/ \E e \in Candidates(FuncOf[c]) :
       /\ DispatchTo(e, c)
       /\ delayQ' = q
  \/ /\ Candidates(FuncOf[c]) = {}
     /\ \/ /\ DelayOn
           /\ delayQ' = Append(q, [call |-> c, aged |-> FALSE])
           /\ UNCHANGED settled
        \/ /\ ~DelayOn
           /\ Settle({c}, ExtraFate)
           /\ delayQ' = q
     /\ UNCHANGED <<status, warm, localChan>>

\* One schedule_func_call of the handler that filled todo.
ScheduleNext ==
  \E c \in todo :
    /\ ScheduleFuncCall(c, delayQ)
    /\ todo' = todo \ {c}
    /\ UNCHANGED <<phase, budget, pendingIO, sharedChan, execVars, inbox, unborn>>

-----------------------------------------------------------------------------
(* Local scheduler: one message from shared_chan per pass of the loop      *)

ExecPhase == phase = "exec" /\ todo = {}

\* Mutant of StatusOnAvail: an awaited executor stays awaited.
KeepAwait(s) == IF s \in {0, 2} THEN s ELSE 1

\* The available flag.  An executor that is awaited becomes empty, one that
\* was busy becomes available.
StatusOnAvail(s) == IF s \in {0, 2} THEN 0 ELSE 1

HandleStatus(m) ==
  /\ \/ m.type = "busy"  /\ status' = [status EXCEPT ![m.from] = 3]
     \/ m.type = "avail" /\ status' = [status EXCEPT ![m.from] = StatusOnAvail(@)]
  /\ UNCHANGED <<todo, settled, pendingIO, localChan>>

\* Mutant of HandleObject: the whole of an oversized batch is forwarded.
ForwardWholeBatch(m) ==
  /\ m.type \in {"batch", "target"}
  /\ \E local \in SUBSET m.kids :
       /\ Cardinality(local) <= AvailNum
       /\ todo' = local
       /\ Settle(m.kids, ExtraFate)
  /\ UNCHANGED <<status, pendingIO, localChan>>

\* An object with direct dependencies: one named target, or all of them.  Of a
\* batch that exceeds the available executors the excess leaves the node.
HandleObject(m) ==
  /\ \/ /\ m.type = "target" \/ (m.type = "batch" /\ Cardinality(m.kids) <= AvailNum)
        /\ todo' = m.kids
        /\ UNCHANGED settled
     \/ /\ m.type = "batch"
        /\ Cardinality(m.kids) > AvailNum
        /\ \E local \in SUBSET m.kids :
             /\ Cardinality(local) = AvailNum
             /\ todo' = local
             /\ Settle(m.kids \ local, ExtraFate)
  /\ UNCHANGED <<status, pendingIO, localChan>>

\* get_object finds its object in key_len_map and is answered at once, or is
\* recorded; an output for the key-value store is always recorded.
HandleRequest(m) ==
  /\ \/ /\ m.type = "get"
        /\ Deliver(m.from, [type |-> "reply", rid |-> m.rid])
        /\ UNCHANGED pendingIO
     \/ /\ m.type \in {"get", "put"}
        /\ pendingIO' = pendingIO \cup {[from |-> m.from, rid |-> m.rid]}
        /\ UNCHANGED localChan
  /\ UNCHANGED <<status, todo, settled>>

RecvExecutorMsg ==
  /\ ExecPhase
  /\ sharedChan # <<>>
  /\ LET m == Head(sharedChan) IN
       HandleStatus(m) \/ HandleObject(m) \/ HandleRequest(m)
  /\ sharedChan' = Tail(sharedChan)
  /\ phase' = "helper"
  /\ UNCHANGED <<warm, delayQ, budget, execVars, inbox, unborn>>

NoExecutorMsg ==
  /\ ExecPhase
  /\ sharedChan = <<>>
  /\ phase' = "helper"
  /\ UNCHANGED <<status, warm, delayQ, todo, budget, pendingIO, sharedChan,
                 localChan, execVars, callVars>>

-----------------------------------------------------------------------------
(* Local scheduler: the responses of try_recv_msg                          *)

HelperPhase == phase = "helper" /\ todo = {}

\* A FunctionCall message; its requests are scheduled one after the other.
RecvCallMsg ==
  /\ HelperPhase
  /\ \E S \in (SUBSET inbox) \ {{}} :
       /\ inbox' = inbox \ S
       /\ todo' = S
  /\ UNCHANGED <<status, warm, delayQ, phase, budget, pendingIO, sharedChan,
                 localChan, execVars, unborn, settled>>

\* A data or key-value store response answers a recorded request.
RecvIOResp ==
  /\ HelperPhase
  /\ \E r \in pendingIO :
       /\ Deliver(r.from, [type |-> "reply", rid |-> r.rid])
       /\ pendingIO' = pendingIO \ {r}
  /\ UNCHANGED <<status, warm, delayQ, phase, todo, budget, sharedChan,
                 execVars, callVars>>

\* Mutant of HelperDone: the delay queue is never looked at.
HelperSkipsDelay ==
  /\ HelperPhase
  /\ phase' = "exec"
  /\ UNCHANGED <<status, warm, delayQ, todo, budget, pendingIO, sharedChan,
                 localChan, execVars, callVars>>

\* The responses are handled; the delay queue is looked at if it holds a call.
HelperDone ==
  /\ HelperPhase
  /\ \/ delayQ # <<>> /\ phase' = "drain" /\ budget' = AvailNum
     \/ delayQ = <<>> /\ phase' = "exec" /\ UNCHANGED budget
  /\ UNCHANGED <<status, warm, delayQ, todo, pendingIO, sharedChan, localChan,
                 execVars, callVars>>

-----------------------------------------------------------------------------
(* Local scheduler: delay forwarding                                       *)

\* Mutant of DelayDrain: the front is not popped.
DrainWithoutPop ==
  /\ phase = "drain"
  /\ budget > 0 /\ delayQ # <<>>
  /\ ScheduleFuncCall(Head(delayQ).call, delayQ)
  /\ budget' = budget - 1
  /\ UNCHANGED <<phase, todo, pendingIO, sharedChan, execVars, inbox, unborn>>

\* One turn of the first loop.  schedule_func_call may push the call again,
\* with a new trigger time, before the front is popped.
DelayDrain ==
  /\ phase = "drain"
  /\ budget > 0 /\ delayQ # <<>>
  /\ ScheduleFuncCall(Head(delayQ).call, Tail(delayQ))
  /\ budget' = budget - 1
  /\ UNCHANGED <<phase, todo, pendingIO, sharedChan, execVars, inbox, unborn>>

DelayDrained ==
  /\ phase = "drain"
  /\ budget = 0 \/ delayQ = <<>>
  /\ phase' = "age"
  /\ budget' = 0
  /\ UNCHANGED <<status, warm, delayQ, todo, pendingIO, sharedChan, localChan,
                 execVars, callVars>>

FrontExpired == delayQ # <<>> /\ Head(delayQ).aged

\* One turn of the second loop, which stops at the first young call.
DelayExpire ==
  /\ phase = "age"
  /\ FrontExpired
  /\ Settle({Head(delayQ).call}, ExtraFate)
  /\ delayQ' = Tail(delayQ)
  /\ UNCHANGED <<status, warm, phase, todo, budget, pendingIO, sharedChan,
                 localChan, execVars, inbox, unborn>>

DelayDone ==
  /\ phase = "age"
  /\ ~FrontExpired
  /\ phase' = "exec"
  /\ UNCHANGED <<status, warm, delayQ, todo, budget, pendingIO, sharedChan,
                 localChan, execVars, callVars>>

\* schedDelayTime elapses for the oldest young call.
Tick ==
  /\ \E i \in DOMAIN delayQ :
       /\ ~delayQ[i].aged
       /\ \A j \in 1 .. i - 1 : delayQ[j].aged
       /\ delayQ' = [delayQ EXCEPT ![i].aged = TRUE]
  /\ UNCHANGED <<status, warm, phase, todo, budget, pendingIO, sharedChan,
                 localChan, execVars, callVars>>

-----------------------------------------------------------------------------
(* Executors                                                               *)

Send(m) == sharedChan' = Append(sharedChan, m)

\* Mutant of WireId: the counter is never advanced.
SameId(r) == 0

\* The counter as it is sent: get_request_id starts again after RidMod.
WireId(r) == r % RidMod

StatusMsg(e, type) == [type |-> type, from |-> e, rid |-> 0]

\* The main loop takes a message: a call is announced as busy before anything
\* else is done with it, any other message is ignored.
RecvLocalMsg(e) ==
  /\ estate[e] = "idle"
  /\ localChan[e] # <<>>
  /\ LET m == Head(localChan[e]) IN
       \/ /\ m.type = "call"
          /\ Send(StatusMsg(e, "busy"))
          /\ estate' = [estate EXCEPT ![e] = "load"]
          /\ ecall' = [ecall EXCEPT ![e] = m.call]
       \/ /\ m.type = "reply"
          /\ UNCHANGED <<sharedChan, estate, ecall>>
  /\ localChan' = [localChan EXCEPT ![e] = Tail(@)]
  /\ UNCHANGED <<schedVars, unsent, rid, reports, opsLeft, callVars>>

\* The executor gives up its call and tells the scheduler that it is free.
Release(e, fate) ==
  /\ Send(StatusMsg(e, "avail"))
  /\ Settle({ecall[e]}, fate)
  /\ estate' = [estate EXCEPT ![e] = "idle"]
  /\ ecall' = [ecall EXCEPT ![e] = NoCall]
  /\ unsent' = [unsent EXCEPT ![e] = {}]
  /\ UNCHANGED <<schedVars, localChan, rid, reports, opsLeft, inbox, unborn>>

\* Mutant of LoadFails: the early return reports nothing.
LoadFailsSilently(e) ==
  /\ estate[e] = "load"
  /\ Settle({ecall[e]}, "failed")
  /\ estate' = [estate EXCEPT ![e] = "idle"]
  /\ ecall' = [ecall EXCEPT ![e] = NoCall]
  /\ UNCHANGED <<schedVars, sharedChan, localChan, unsent, rid, reports, opsLeft,
                 inbox, unborn>>

\* The function cannot be loaded, or its arguments cannot be parsed.
LoadFails(e) == estate[e] = "load" /\ Release(e, "failed")

\* load_function succeeds, or has before, and the function starts.
StartFunction(e) ==
  /\ estate[e] = "load"
  /\ estate' = [estate EXCEPT ![e] = "run"]
  /\ unsent' = [unsent EXCEPT ![e] = Children[ecall[e]]]
  /\ UNCHANGED <<schedVars, sharedChan, localChan, ecall, rid, reports, opsLeft,
                 callVars>>

\* The function returns or throws; both lead to the same report.
FinishFunction(e) == estate[e] = "run" /\ Release(e, "done")

\* send_object of an ephemeral object with direct dependencies.
SendObject(e) ==
  /\ estate[e] = "run"
  /\ \/ /\ unsent[e] = Children[ecall[e]] /\ unsent[e] # {}
        /\ Send([type |-> "batch", from |-> e, kids |-> unsent[e]])
        /\ unsent' = [unsent EXCEPT ![e] = {}]
        /\ unborn' = unborn \ unsent[e]
     \/ \E k \in unsent[e] :
          /\ Send([type |-> "target", from |-> e, kids |-> {k}])
          /\ unsent' = [unsent EXCEPT ![e] = @ \ {k}]
          /\ unborn' = unborn \ {k}
  /\ rid' = [rid EXCEPT ![e] = @ + 1]
  /\ UNCHANGED <<schedVars, localChan, estate, ecall, reports, opsLeft, inbox, settled>>

\* get_object, or send_object of an output that has to persist: the executor
\* sends a request and blocks on its channel.
BlockOnRequest(e) ==
  /\ estate[e] = "run"
  /\ opsLeft > 0
  /\ \E op \in BlockingOps :
       /\ Send([type |-> op, from |-> e, rid |-> rid[e] + 1])
       /\ estate' = [estate EXCEPT ![e] = op]
  /\ rid' = [rid EXCEPT ![e] = @ + 1]
  /\ opsLeft' = opsLeft - 1
  /\ UNCHANGED <<schedVars, localChan, ecall, unsent, reports, callVars>>

\* Mutant of WakeUp: the function reports that it has stopped waiting.
WakeUpReports(e) ==
  /\ estate[e] \in {"get", "put"}
  /\ localChan[e] # <<>>
  /\ LET m == Head(localChan[e]) IN
       IF m.type = "call" THEN Settle({m.call}, "stolen") ELSE UNCHANGED settled
  /\ localChan' = [localChan EXCEPT ![e] = Tail(@)]
  /\ estate' = [estate EXCEPT ![e] = "run"]
  /\ Send(StatusMsg(e, "avail"))
  /\ UNCHANGED <<schedVars, ecall, unsent, rid, reports, opsLeft, inbox, unborn>>

\* Whatever message comes first ends the wait; it is consumed even when it is
\* not the awaited reply.
WakeUp(e) ==
  /\ estate[e] \in {"get", "put"}
  /\ localChan[e] # <<>>
  /\ LET m == Head(localChan[e]) IN
       IF m.type = "call" THEN Settle({m.call}, "stolen") ELSE UNCHANGED settled
  /\ localChan' = [localChan EXCEPT ![e] = Tail(@)]
  /\ estate' = [estate EXCEPT ![e] = "run"]
  /\ UNCHANGED <<schedVars, sharedChan, ecall, unsent, rid, reports, opsLeft,
                 inbox, unborn>>

\* After 30 seconds without a message a get returns nullptr, while a put reads
\* through the null pointer; the signal handler returns to the same read.
WaitTimeout(e) ==
  /\ localChan[e] = <<>>
  /\ \/ estate[e] = "get" /\ estate' = [estate EXCEPT ![e] = "run"]
     \/ estate[e] = "put" /\ estate' = [estate EXCEPT ![e] = "dead"]
  /\ UNCHANGED <<schedVars, sharedChan, localChan, ecall, unsent, rid, reports,
                 opsLeft, callVars>>

\* The periodic report, sent by the main loop whatever waits in localChan.
Report(e) ==
  /\ estate[e] = "idle"
  /\ reports[e] < MaxReports
  /\ Send(StatusMsg(e, "avail"))
  /\ reports' = [reports EXCEPT ![e] = @ + 1]
  /\ UNCHANGED <<schedVars, localChan, estate, ecall, unsent, rid, opsLeft, callVars>>

-----------------------------------------------------------------------------
Scheduler ==
  \/ ScheduleNext \/ RecvExecutorMsg \/ NoExecutorMsg \/ RecvCallMsg
  \/ RecvIOResp \/ HelperDone \/ DelayDrain \/ DelayDrained \/ DelayExpire
  \/ DelayDone

ExecutorStep(e) ==
  \/ RecvLocalMsg(e) \/ LoadFails(e) \/ StartFunction(e) \/ FinishFunction(e)
  \/ SendObject(e) \/ BlockOnRequest(e) \/ WakeUp(e) \/ WaitTimeout(e)

Next == Scheduler \/ Tick \/ \E e \in Executors : ExecutorStep(e) \/ Report(e)

Spec == Init /\ [][Next]_vars

\* The scheduler's loop never blocks; an executor's loop keeps running, its
\* functions end, and its timer keeps firing; time passes.
Fairness ==
  /\ WF_vars(Scheduler)
  /\ WF_vars(Tick)
  /\ \A e \in Executors : WF_vars(ExecutorStep(e)) /\ WF_vars(Report(e))

FairSpec == Spec /\ Fairness

-----------------------------------------------------------------------------
(* Properties                                                              *)

TypeOK ==
  /\ status \in [Executors -> 0 .. 3]
  /\ warm \in [Funcs -> SUBSET Executors]
  /\ delayQ \in Seq(Delayed)
  /\ phase \in Phases
  /\ todo \in SUBSET Calls
  /\ budget \in Nat
  /\ pendingIO \in SUBSET Request
  /\ sharedChan \in Seq(ToScheduler)
  /\ localChan \in [Executors -> Seq(ToExecutor)]
  /\ estate \in [Executors -> EStates]
  /\ ecall \in [Executors -> Calls \cup {NoCall}]
  /\ \A e \in Executors : estate[e] = "idle" \/ ecall[e] \in Calls
  /\ unsent \in [Executors -> SUBSET Calls]
  /\ rid \in [Executors -> Nat]
  /\ reports \in [Executors -> Nat]
  /\ opsLeft \in Nat
  /\ inbox \in SUBSET Calls
  /\ unborn \in SUBSET Calls
  /\ settled \in [Calls -> Fates]

IsStatus(i, e) == sharedChan[i].type \in {"busy", "avail"} /\ sharedChan[i].from = e

\* The newest status message of e that the scheduler has not read.
IsLastStatus(i, e) ==
  /\ i \in DOMAIN sharedChan /\ IsStatus(i, e)
  /\ \A j \in DOMAIN sharedChan : j > i => ~IsStatus(j, e)

NonePending(e) == \A i \in DOMAIN sharedChan : ~IsStatus(i, e)

CallWaits(e) == \E i \in DOMAIN localChan[e] : localChan[e][i].type = "call"

\* The newest unread status message of e, if there is one, has this type.
NewestIs(e, type) ==
  \A i \in DOMAIN sharedChan : IsLastStatus(i, e) => sharedChan[i].type = type

Tracks(e) ==
  /\ estate[e] # "idle" =>
       /\ NewestIs(e, "busy")
       /\ NonePending(e) => status[e] = 3
  /\ estate[e] = "idle" =>
       /\ NewestIs(e, "avail")
       /\ NonePending(e) => status[e] # 3
       /\ NonePending(e) /\ status[e] = 2 => CallWaits(e) \/ reports[e] = 0

\* Once shared_chan is read to its end the scheduler has the right picture of
\* every executor: the newest unread status message, or with none unread the
\* status itself, tells an idle executor from one that has taken a call.
StatusTracks == \A e \in Executors : Tracks(e)

\* Where a call is.
Places(c) ==
  (IF c \in inbox THEN {<<"inbox">>} ELSE {})
    \cup (IF c \in unborn THEN {<<"unborn">>} ELSE {})
    \cup (IF c \in todo THEN {<<"todo">>} ELSE {})
    \cup (IF settled[c] # "no" THEN {<<"settled">>} ELSE {})
    \cup {<<"delay", i>> : i \in {j \in DOMAIN delayQ : delayQ[j].call = c}}
    \cup {<<"shared", i>> : i \in {j \in DOMAIN sharedChan :
            sharedChan[j].type \in {"batch", "target"} /\ c \in sharedChan[j].kids}}
    \cup (UNION {{<<"local", e, i>> : i \in {j \in DOMAIN localChan[e] :
            localChan[e][j] = [type |-> "call", call |-> c]}} : e \in Executors})
    \cup {<<"exec", e>> : e \in {x \in Executors : ecall[x] = c}}

\* Every function call is in exactly one place: batch splitting, the delay
\* queue's re-push and forwarding neither drop a call nor run it on this node
\* and send it elsewhere as well.  A call that a blocked function consumes
\* ("stolen") or that is sent to an executor that hangs ("lost") is settled:
\* LossesPaidByReports is about those.
ExactlyOnePlace == \A c \in Calls : \E p \in Places(c) : Places(c) = {p}

\* The calls an executor has been given and has not finished.
Held(e) == Cardinality({i \in DOMAIN localChan[e] : localChan[e][i].type = "call"})
             + (IF estate[e] = "idle" THEN 0 ELSE 1)

\* A second call is queued behind another one only because of a periodic
\* "available" report that the scheduler read after the first was dispatched;
\* the await status keeps every other path from doing so.
HeldPaidByReports == \A e \in Executors : Held(e) <= reports[e]

\* A call that an executor has been given, or lost: a function blocked in
\* get_object or send_object has read it from the channel in place of its
\* reply, or the executor hangs.
GivenOrLost(c) ==
  \/ settled[c] \in {"stolen", "lost"}
  \/ \E e \in Executors : ecall[e] = c \/ [type |-> "call", call |-> c] \in {localChan[e][i] : i \in DOMAIN localChan[e]}

\* The calls that a blocked function consumes or that go to an executor that
\* hangs are no more than the periodic reports sent so far that no call still
\* held has used up: without a report that crosses a dispatch
\* (scheduler_server.cpp:483) no call is lost that way, whatever functions block
\* and time out, and each such report costs one call at most.
LossesPaidByReports ==
  Cardinality({c \in Calls : GivenOrLost(c)})
    <= Cardinality({p \in Executors \X (1 .. MaxReports) : p[2] <= reports[p[1]]})

\* A reply that comes after the request it answers has timed out is not taken
\* for the reply to a later get_object: as long as an executor makes fewer
\* than RidMod requests the id tells them apart.
StaleReplyRejected ==
  \A e \in Executors :
    estate[e] = "get" /\ localChan[e] # <<>> =>
      LET m == Head(localChan[e]) IN
        m.type = "reply" /\ WireId(m.rid) = WireId(rid[e]) => m.rid = rid[e]

\* Every call that reached the scheduler is run, reported failed, forwarded or
\* rejected in the end: the delay queue does not keep a call for ever, nor does
\* an executor's channel.  The one exception is a call that a function blocked
\* in get_object consumes (WakeUp), which nobody runs.
EveryCallSettles ==
  \A c \in Calls :
    (c \in todo) ~> (settled[c] \in {"done", "failed", "forwarded", "rejected", "stolen"})
=============================================================================
