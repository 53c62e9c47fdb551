---------------------------- MODULE TriggerSync -----------------------------
(***************************************************************************)
(* One bucket with one trigger, kept in a copy by the coordinator and,     *)
(* unless it is a BY_TIME trigger, in one by every worker.  A worker feeds *)
(* the objects its functions make to its own copy, calls the target        *)
(* function at once where that copy fires, and notifies the coordinator of *)
(* the object and of what fired.  The coordinator feeds every object to    *)
(* its copy, calls the function where its copy fires and the worker's did  *)
(* not, and then tells the workers to clear theirs.                        *)
(*                                                                         *)
(*   kind, makers  the trigger's primitive and the workers that run the    *)
(*             application's functions, chosen once                        *)
(*   wtrig     bucket_triggers_map of a worker, for this bucket            *)
(*   registered  workers that know the bucket's coordinator and trigger    *)
(*   ctrig     bucket_triggers_map of the coordinator                      *)
(*   nodes     bucket_node_map: workers the coordinator has heard from     *)
(*   toCoord   KeyNotifyRequests; a worker sends them from one thread over *)
(*             one socket, so they stay in order                           *)
(*   toWorker  UpdateCoordMsgs from the coordinator, in order              *)
(*   unmade    objects no function has made yet                            *)
(*   taken     objects a registered worker has taken in                    *)
(*   handled   objects the coordinator has handled                         *)
(*   fires     the calls made, in order: where, and with which objects     *)
(***************************************************************************)
EXTENDS Triggers, FiniteSets

CONSTANTS
  Workers,
  Workloads    \* applications to consider: the trigger's primitive, the
               \* workers its functions run on, the objects they make

ASSUME SyncAssumption ==
  Workloads \subseteq [kind : Kinds, makers : SUBSET Workers, objects : SUBSET Object]

VARIABLES kind, makers, wtrig, registered, ctrig, nodes, toCoord, toWorker,
          unmade, taken, handled, fires

syncVars == <<kind, makers, wtrig, registered, ctrig, nodes, toCoord, toWorker,
             unmade, taken, handled, fires>>

\* The coordinator has registered the trigger and its messages are under way.
SyncInit ==
  /\ \E app \in Workloads : kind = app.kind /\ makers = app.makers /\ unmade = app.objects
  /\ wtrig = [w \in Workers |-> NewTrigger]
  /\ registered = {}
  /\ ctrig = NewTrigger
  /\ nodes = {}
  /\ toCoord = [w \in Workers |-> <<>>]
  /\ toWorker = [w \in Workers |-> <<[type |-> "register"]>>]
  /\ taken = {}
  /\ handled = {}
  /\ fires = <<>>

\* The members of S one after the other, in some order.
Listing(S) == CHOOSE q \in [1 .. Cardinality(S) -> S] : IsInjective(q)

\* One call per action, made where site says.
CallsAt(site, acts) == Listing({[site |-> site[a], args |-> a] : a \in acts})

-----------------------------------------------------------------------------
(* Worker                                                                  *)

\* A worker is not sent BY_TIME triggers and finds none for the bucket.
WorkerActions(w, o) ==
  IF kind = "BY_TIME" THEN {[st |-> wtrig[w], acts |-> {}]}
  ELSE action_for_new_object(kind, wtrig[w], o)

\* check_trigger and notify_put for a new object.
TakeIn(w, o) ==
  \E r \in WorkerActions(w, o) :
    /\ wtrig' = [wtrig EXCEPT ![w] = r.st]
    /\ fires' = fires \o CallsAt([a \in r.acts |-> "worker"], r.acts)
    /\ toCoord' = [toCoord EXCEPT ![w] =
                     Append(@, [obj |-> o, active |-> r.acts # {}])]
    /\ taken' = taken \cup {o}

\* A function on worker w makes object o.  A worker that has not been told of
\* the bucket finds no trigger and no coordinator for it and drops the object.
SendObject(w, o) ==
  /\ w \in makers
  /\ o \in unmade
  /\ unmade' = unmade \ {o}
  /\ \/ w \in registered /\ TakeIn(w, o)
     \/ w \notin registered /\ UNCHANGED <<wtrig, fires, toCoord, taken>>
  /\ UNCHANGED <<kind, makers, registered, ctrig, nodes, toWorker, handled>>

ApplyUpdate(w, m) ==
  \/ /\ m.type = "register"
     /\ registered' = registered \cup {w}
     /\ wtrig' = [wtrig EXCEPT ![w] = NewTrigger]
  \/ /\ m.type = "clear"
     /\ wtrig' = [wtrig EXCEPT ![w] = clear(kind, @, m.session)]
     /\ UNCHANGED registered

RecvUpdate(w) ==
  /\ toWorker[w] # <<>>
  /\ toWorker' = [toWorker EXCEPT ![w] = Tail(@)]
  /\ ApplyUpdate(w, Head(toWorker[w]))
  /\ UNCHANGED <<kind, makers, ctrig, nodes, toCoord, unmade, taken, handled, fires>>

-----------------------------------------------------------------------------
(* Coordinator: notify_handler                                             *)

\* Every call is routed or, where no node has an executor free, only logged;
\* the workers are told to clear in either case.
Fire(o, acts) ==
  /\ \E site \in [acts -> {"coord", "dropped"}] : fires' = fires \o CallsAt(site, acts)
  /\ toWorker' = IF kind = "BY_TIME" THEN toWorker
                 ELSE [w \in Workers |->
                         IF w \in nodes' THEN Append(toWorker[w], [type |-> "clear", session |-> o.session])
                                         ELSE toWorker[w]]

\* Mutants of Feed: an object that fired at its worker is not fed to the
\* coordinator's copy; an object fires here although it has at its worker.
FeedInactive(o, active) ==
  \E r \in action_for_new_object(kind, ctrig, o) :
    /\ ctrig' = IF active THEN ctrig ELSE r.st
    /\ IF active \/ r.acts = {} THEN UNCHANGED <<fires, toWorker>>
                                ELSE Fire(o, r.acts)
FireAnyway(o, active) ==
  \E r \in action_for_new_object(kind, ctrig, o) :
    /\ ctrig' = r.st
    /\ IF r.acts = {} THEN UNCHANGED <<fires, toWorker>> ELSE Fire(o, r.acts)

Feed(o, active) ==
  \E r \in action_for_new_object(kind, ctrig, o) :
    /\ ctrig' = r.st
    /\ IF active \/ r.acts = {} THEN UNCHANGED <<fires, toWorker>>
                                ELSE Fire(o, r.acts)

RecvNotify(w) ==
  /\ toCoord[w] # <<>>
  /\ toCoord' = [toCoord EXCEPT ![w] = Tail(@)]
  /\ nodes' = nodes \cup {w}
  /\ LET m == Head(toCoord[w])
     IN Feed(m.obj, m.active) /\ handled' = handled \cup {m.obj}
  /\ UNCHANGED <<kind, makers, wtrig, registered, unmade, taken>>

-----------------------------------------------------------------------------
SyncNext ==
  \E w \in Workers :
    \/ \E o \in Object : SendObject(w, o)
    \/ RecvUpdate(w)
    \/ RecvNotify(w)

SyncSpec == SyncInit /\ [][SyncNext]_syncVars

\* The coordinator's and the workers' loops poll their sockets for ever.
SyncFairness == \A w \in Workers : WF_syncVars(RecvUpdate(w)) /\ WF_syncVars(RecvNotify(w))

SyncFairSpec == SyncSpec /\ SyncFairness

-----------------------------------------------------------------------------
(* Properties                                                              *)

\* notify_handler.cpp:67 "skip the active trigger, which has already taken
\* effect in local scheduler": an object is an argument of at most one of the
\* calls its trigger makes, on workers and coordinator together.
AtMostOnce ==
  \A i, j \in 1..Len(fires) : i # j => fires[i].args \cap fires[j].args = {}

\* The number of calls a trigger owes for n objects that reached it one after
\* the other on one worker.
CallsOwed(n) ==
  CASE kind = "IMMEDIATE"     -> n
    [] kind = "BY_BATCH_SIZE" -> n \div BatchCount
    [] kind = "REDUNDANT"     -> (n + N - K) \div N

\* Where one worker makes all objects the coordinator's copy replays its: once it has
\* handled every notification the two copies are equal, and it has never made
\* a call of its own (action_for_new_object runs before an active trigger is
\* skipped, notify_handler.cpp:66-70).  The worker's calls are those it owes: a batch
\* trigger's one per batch, a redundant trigger's one for the first K of every
\* N > K objects.
Lockstep ==
  (Cardinality(makers) = 1 /\ kind # "BY_TIME") =>
    /\ \A i \in 1..Len(fires) : fires[i].site = "worker"
    /\ \A w \in registered \cap makers : handled = taken => ctrig = wtrig[w]
    /\ kind \in {"IMMEDIATE", "BY_BATCH_SIZE", "REDUNDANT"} =>
         Len(fires) = CallsOwed(Cardinality(taken))

\* What an application sees of a BY_SET trigger: the objects taken in, how
\* many calls reached a worker's queue for each session, and the sessions
\* whose call the coordinator only logged (notify_handler.cpp:176-178).
Arrived == IF kind = "BY_SET" THEN taken ELSE {}
CallsFor(s) == {i \in 1..Len(fires) : \E o \in fires[i].args : o.session = s}
CallsMade(s) == {i \in CallsFor(s) : fires[i].site # "dropped"}
Fired == [s \in Sessions |-> IF kind = "BY_SET" THEN Cardinality(CallsMade(s)) ELSE 0]
Lost == {s \in Sessions : kind = "BY_SET" /\ CallsFor(s) \ CallsMade(s) # {}}

\* Workers and coordinator together implement the BY_SET trigger an
\* application sees: the function is called for a session once, when its
\* objects have all been taken in, and it always is unless the coordinator
\* makes the call and has no free executor for it; a call dropped there is not
\* made by a worker either.  Applications with another primitive take no part
\* in this.
Promise == INSTANCE SetTrigger WITH arrived <- Arrived, fired <- Fired, lost <- Lost

FiresLikeOneTrigger == Promise!LiveSpec
=============================================================================
