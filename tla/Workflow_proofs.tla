--------------------------- MODULE Workflow_proofs --------------------------
(***************************************************************************)
(* What starts the functions of a workflow: a bucket's trigger, whose      *)
(* copies on the workers and on the coordinator together pass an object to *)
(* at most one call, for any workers, objects and delays of messages; and  *)
(* the orchestrator, which releases a function after those it takes input  *)
(* from, for any job graph, data centers, wave size and durations.         *)
(***************************************************************************)
EXTENDS Orchestrator, TriggerSync, TLAPS

-----------------------------------------------------------------------------
(* A trigger and its copies.                                               *)

\* What a copy of a trigger can hold, and the messages.
TriggerState ==
  [buffer : Seq(Object), prepared : [Sessions -> SUBSET Keys],
   ctrl : SUBSET Keys, data : SUBSET Keys, count : Nat]

Notice == [obj : Object, active : BOOLEAN]

Update == [type : {"register"}] \cup [type : {"clear"}, session : Sessions]

FireRecord == [site : {"worker", "coord", "dropped"}, args : SUBSET Object]

SyncTyped ==
  /\ kind \in Kinds
  /\ makers \subseteq Workers
  /\ wtrig \in [Workers -> TriggerState]
  /\ registered \subseteq Workers
  /\ ctrig \in TriggerState
  /\ nodes \subseteq Workers
  /\ toCoord \in [Workers -> Seq(Notice)]
  /\ toWorker \in [Workers -> Seq(Update)]
  /\ unmade \subseteq Object
  /\ taken \subseteq Object
  /\ handled \subseteq Object

-----------------------------------------------------------------------------
(* The outcomes of the primitives.                                         *)

LEMMA NewTriggerType == NewTrigger \in TriggerState
  BY DEF NewTrigger, TriggerState

LEMMA ObjectFields == \A o \in Object : o.session \in Sessions /\ o.key \in Keys
  BY Zenon DEF Object

\* Changing fields of a trigger state.
LEMMA StateParts ==
  ASSUME NEW t \in TriggerState
  PROVE  /\ \A b \in Seq(Object) : [t EXCEPT !.buffer = b] \in TriggerState
         /\ \A n \in Nat : [t EXCEPT !.count = n] \in TriggerState
         /\ \A n \in Nat, b \in Seq(Object) : [t EXCEPT !.count = n, !.buffer = b] \in TriggerState
         /\ \A n \in Nat, b \in Seq(Object) : [t EXCEPT !.buffer = b, !.count = n] \in TriggerState
         /\ \A s \in Sessions, p \in SUBSET Keys : [t EXCEPT !.prepared[s] = p] \in TriggerState
         /\ \A c \in SUBSET Keys : [t EXCEPT !.ctrl = c] \in TriggerState
         /\ \A d \in SUBSET Keys : [t EXCEPT !.data = d] \in TriggerState
         /\ \A c, d \in SUBSET Keys : [t EXCEPT !.ctrl = c, !.data = d] \in TriggerState
  BY Zenon DEF TriggerState

LEMMA StateFields ==
  ASSUME NEW t \in TriggerState
  PROVE  /\ t.buffer \in Seq(Object) /\ t.prepared \in [Sessions -> SUBSET Keys]
         /\ t.ctrl \in SUBSET Keys /\ t.data \in SUBSET Keys /\ t.count \in Nat
  BY Zenon DEF TriggerState

\* A trigger's next state is a trigger state.
LEMMA OutcomeType ==
  ASSUME NEW k \in Kinds, NEW t \in TriggerState, NEW o \in Object,
         NEW r \in action_for_new_object(k, t, o)
  PROVE  r.st \in TriggerState
<1>1. o.session \in Sessions /\ o.key \in Keys
  BY ObjectFields, Zenon
<1>2. Append(t.buffer, o) \in Seq(Object) /\ <<>> \in Seq(Object)
  BY StateFields
<1>3. CASE k = "IMMEDIATE"
  BY <1>3 DEF action_for_new_object, ImmediateTrigger, Outcome
<1>4. CASE k = "BY_NAME"
  BY <1>4 DEF action_for_new_object, ByNameTrigger, Outcome
<1>5. CASE k = "BY_BATCH_SIZE"
  <2>1. r = ByBatchSizeTrigger(t, o)
    BY <1>5, Zenon DEF action_for_new_object
  <2>2. r.st = [t EXCEPT !.buffer = <<>>] \/ r.st = [t EXCEPT !.buffer = Append(t.buffer, o)]
    BY <2>1, Zenon DEF ByBatchSizeTrigger, Outcome
  <2> QED
    BY <1>2, <2>2, StateParts, Zenon
<1>6. CASE k = "BY_SET"
  <2>1. r = BySetTrigger(t, o)
    BY <1>6, Zenon DEF action_for_new_object
  <2>2. \/ r.st = t
        \/ r.st = [t EXCEPT !.prepared[o.session] = {}]
        \/ r.st = [t EXCEPT !.prepared[o.session] = t.prepared[o.session] \cup {o.key}]
    BY <2>1, Zenon DEF BySetTrigger, Outcome
  <2>3. t.prepared[o.session] \cup {o.key} \in SUBSET Keys /\ {} \in SUBSET Keys
    BY <1>1, StateFields, Zenon
  <2>4. \A q \in SUBSET Keys : [t EXCEPT !.prepared[o.session] = q] \in TriggerState
    BY <1>1, StateParts, Zenon
  <2>5. [t EXCEPT !.prepared[o.session] = {}] \in TriggerState
    BY <2>3, <2>4, Zenon
  <2>6. [t EXCEPT !.prepared[o.session] = t.prepared[o.session] \cup {o.key}] \in TriggerState
    BY <2>3, <2>4, Zenon
  <2> QED
    BY <2>2, <2>5, <2>6, Zenon
<1>7. CASE k = "DYNAMIC_GROUP"
  <2>1. r = DynamicGroupTrigger(t, o)
    BY <1>7, Zenon DEF action_for_new_object
  <2>2. PICK c, d : c = t.ctrl \cup ({o.key} \cap ControlGroup) /\ d = t.data \cup {o.key}
    BY ZenonT(30)
  <2>3. \/ r.st = [t EXCEPT !.data = d]
        \/ r.st = [t EXCEPT !.ctrl = c]
        \/ r.st = [t EXCEPT !.ctrl = {}, !.data = {}]
    BY <2>1, <2>2, Zenon DEF DynamicGroupTrigger, Outcome
  <2>4. c \in SUBSET Keys /\ d \in SUBSET Keys /\ {} \in SUBSET Keys
    BY <1>1, <2>2, StateFields, Zenon
  <2>5. [t EXCEPT !.data = d] \in TriggerState /\ [t EXCEPT !.ctrl = c] \in TriggerState
    BY <2>4, StateParts, Zenon
  <2>6. [t EXCEPT !.ctrl = {}, !.data = {}] \in TriggerState
    BY <2>4, StateParts, Zenon
  <2> QED
    BY <2>3, <2>5, <2>6, Zenon
<1>8. CASE k = "REDUNDANT"
  <2>1. r = RedundantTrigger(t, o)
    BY <1>8, Zenon DEF action_for_new_object
  <2>2. t.count + 1 \in Nat /\ K \in Nat /\ N \in Nat
    BY StateFields, TriggersAssumption
  <2>3. PICK n, b : n = t.count + 1 /\ b = Append(t.buffer, o)
    BY ZenonT(30)
  <2>4. \/ r.st = [t EXCEPT !.count = n, !.buffer = b]
        \/ r.st = [t EXCEPT !.count = n, !.buffer = <<>>]
        \/ r.st = [t EXCEPT !.count = 0]
        \/ r.st = [t EXCEPT !.count = n]
    BY <2>1, <2>2, <2>3 DEF RedundantTrigger, Outcome
  <2>5. n \in Nat /\ b \in Seq(Object) /\ 0 \in Nat
    BY <1>2, <2>2, <2>3, Zenon
  <2>6. [t EXCEPT !.count = n] \in TriggerState /\ [t EXCEPT !.count = 0] \in TriggerState
    BY <2>5, StateParts, Zenon
  <2>7. /\ [t EXCEPT !.count = n, !.buffer = b] \in TriggerState
        /\ [t EXCEPT !.count = n, !.buffer = <<>>] \in TriggerState
    BY <1>2, <2>5, StateParts, Zenon
  <2> QED
    BY <2>4, <2>6, <2>7, Zenon
<1>9. CASE k = "BY_TIME"
  <2>1. \E e \in BOOLEAN : r = ByTimeTrigger(t, o, e)
    BY <1>9, Zenon DEF action_for_new_object
  <2>2. r.st = [t EXCEPT !.buffer = <<>>] \/ r.st = [t EXCEPT !.buffer = Append(t.buffer, o)]
    BY <2>1 DEF ByTimeTrigger, Outcome
  <2> QED
    BY <1>2, <2>2, StateParts, Zenon
<1> QED
  BY <1>3, <1>4, <1>5, <1>6, <1>7, <1>8, <1>9, Zenon DEF Kinds

LEMMA ClearType ==
  ASSUME NEW k \in Kinds, NEW t \in TriggerState, NEW s \in Sessions
  PROVE  clear(k, t, s) \in TriggerState
<1>1. <<>> \in Seq(Object) /\ {} \in SUBSET Keys /\ t.count + K \in Nat
  BY StateFields, TriggersAssumption
<1>2. \/ clear(k, t, s) = t
      \/ clear(k, t, s) = [t EXCEPT !.buffer = <<>>]
      \/ clear(k, t, s) = [t EXCEPT !.prepared[s] = {}]
      \/ clear(k, t, s) = [t EXCEPT !.ctrl = {}, !.data = {}]
      \/ clear(k, t, s) = [t EXCEPT !.buffer = <<>>, !.count = t.count + K]
  BY Zenon DEF Kinds, clear
<1>3. [t EXCEPT !.buffer = <<>>] \in TriggerState
  BY <1>1, StateParts, Zenon
<1>4. [t EXCEPT !.prepared[s] = {}] \in TriggerState
  BY <1>1, StateParts, Zenon
<1>5. [t EXCEPT !.ctrl = {}, !.data = {}] \in TriggerState
  BY <1>1, StateParts, Zenon
<1>6. [t EXCEPT !.buffer = <<>>, !.count = t.count + K] \in TriggerState
  BY <1>1, StateParts, Zenon
<1> QED
  BY <1>2, <1>3, <1>4, <1>5, <1>6, Zenon


-----------------------------------------------------------------------------
(* Types.                                                                  *)

\* The messages in flight, and the triggers, are of their types whatever the
\* trigger's kind: everything but the list of calls.
LEMMA TypesInit ==
  ASSUME SyncInit
  PROVE  SyncTyped
<1>1. kind \in Kinds /\ makers \subseteq Workers /\ unmade \subseteq Object
  BY SyncAssumption, Zenon DEF SyncInit
<1>2. NewTrigger \in TriggerState
  BY NewTriggerType, Zenon
<1>3. <<[type |-> "register"]>> \in Seq(Update)
  BY DEF Update
<1>4. wtrig \in [Workers -> TriggerState] /\ ctrig \in TriggerState
  BY <1>2, Zenon DEF SyncInit
<1>5. toCoord \in [Workers -> Seq(Notice)] /\ toWorker \in [Workers -> Seq(Update)]
  BY <1>3 DEF SyncInit
<1> QED
  BY <1>1, <1>4, <1>5, Zenon DEF SyncTyped, SyncInit

LEMMA WorkerOutcomeType ==
  ASSUME SyncTyped, NEW w \in Workers, NEW o \in Object, NEW r \in WorkerActions(w, o)
  PROVE  r.st \in TriggerState
<1>1. kind \in Kinds /\ wtrig[w] \in TriggerState
  BY Zenon DEF SyncTyped
<1>2. CASE kind = "BY_TIME"
  BY <1>1, <1>2 DEF WorkerActions
<1>3. CASE kind # "BY_TIME"
  BY <1>1, <1>3, OutcomeType, Zenon DEF WorkerActions
<1> QED
  BY <1>2, <1>3, Zenon

LEMMA TypesSend ==
  ASSUME SyncTyped, NEW w \in Workers, NEW o \in Object, SendObject(w, o)
  PROVE  SyncTyped'
<1>1. CASE w \in registered /\ TakeIn(w, o)
  <2>1. PICK r \in WorkerActions(w, o) :
          /\ wtrig' = [wtrig EXCEPT ![w] = r.st]
          /\ toCoord' = [toCoord EXCEPT ![w] = Append(@, [obj |-> o, active |-> r.acts # {}])]
          /\ taken' = taken \cup {o}
    BY <1>1, Zenon DEF TakeIn
  <2>2. r.st \in TriggerState
    BY WorkerOutcomeType, Zenon
  <2>3. [obj |-> o, active |-> r.acts # {}] \in Notice
    BY Zenon DEF Notice
  <2>4. wtrig' \in [Workers -> TriggerState]
    BY <2>1, <2>2, Zenon DEF SyncTyped
  <2>5. toCoord' \in [Workers -> Seq(Notice)]
    BY <2>1, <2>3 DEF SyncTyped
  <2> QED
    BY <2>1, <2>4, <2>5, Zenon DEF SyncTyped, SendObject
<1>2. CASE w \notin registered /\ UNCHANGED <<wtrig, fires, toCoord, taken>>
  BY <1>2, Zenon DEF SyncTyped, SendObject
<1> QED
  BY <1>1, <1>2, Zenon DEF SendObject

LEMMA TypesUpdate ==
  ASSUME SyncTyped, NEW w \in Workers, RecvUpdate(w)
  PROVE  SyncTyped'
<1> DEFINE m == Head(toWorker[w])
<1>1. m \in Update /\ Tail(toWorker[w]) \in Seq(Update)
  BY DEF SyncTyped, RecvUpdate
<1>2. toWorker' \in [Workers -> Seq(Update)]
  BY <1>1, Zenon DEF SyncTyped, RecvUpdate
<1>3. wtrig' \in [Workers -> TriggerState] /\ registered' \subseteq Workers
  <2>1. CASE m.type = "register"
    <3>1. registered' = registered \cup {w} /\ wtrig' = [wtrig EXCEPT ![w] = NewTrigger]
      BY <2>1, Zenon DEF RecvUpdate, ApplyUpdate
    <3> QED
      BY <3>1, NewTriggerType, Zenon DEF SyncTyped
  <2>2. CASE m.type = "clear"
    <3>1. m.session \in Sessions
      BY <1>1, <2>2, Zenon DEF Update
    <3>2. registered' = registered /\ wtrig' = [wtrig EXCEPT ![w] = clear(kind, wtrig[w], m.session)]
      BY <2>2, Zenon DEF RecvUpdate, ApplyUpdate
    <3>3. clear(kind, wtrig[w], m.session) \in TriggerState
      BY <3>1, ClearType, Zenon DEF SyncTyped
    <3> QED
      BY <3>2, <3>3, Zenon DEF SyncTyped
  <2> QED
    BY <1>1, <2>1, <2>2, Zenon DEF Update
<1> QED
  BY <1>2, <1>3, Zenon DEF SyncTyped, RecvUpdate

LEMMA TypesNotify ==
  ASSUME SyncTyped, NEW w \in Workers, RecvNotify(w)
  PROVE  SyncTyped'
<1> DEFINE m == Head(toCoord[w])
<1>1. m \in Notice /\ Tail(toCoord[w]) \in Seq(Notice)
  BY DEF SyncTyped, RecvNotify
<1>2. m.obj \in Object /\ m.active \in BOOLEAN
  BY <1>1, Zenon DEF Notice
<1>3. toCoord' \in [Workers -> Seq(Notice)]
  BY <1>1, Zenon DEF SyncTyped, RecvNotify
<1>4. PICK r \in action_for_new_object(kind, ctrig, m.obj) :
        /\ ctrig' = r.st
        /\ IF m.active \/ r.acts = {} THEN UNCHANGED <<fires, toWorker>> ELSE Fire(m.obj, r.acts)
  BY Zenon DEF RecvNotify, Feed
<1>5. ctrig' \in TriggerState
  BY <1>2, <1>4, OutcomeType, Zenon DEF SyncTyped
<1>6. toWorker' \in [Workers -> Seq(Update)]
  <2>1. [type |-> "clear", session |-> m.obj.session] \in Update
    BY <1>2, ObjectFields, Zenon DEF Update
  <2>2. CASE toWorker' = toWorker
    BY <2>2, Zenon DEF SyncTyped
  <2>3. CASE toWorker' = [v \in Workers |->
               IF v \in nodes' THEN Append(toWorker[v], [type |-> "clear", session |-> m.obj.session])
                               ELSE toWorker[v]]
    BY <2>1, <2>3 DEF SyncTyped
  <2> QED
    BY <1>4, <2>2, <2>3, Zenon DEF Fire
<1> QED
  BY <1>2, <1>3, <1>5, <1>6, Zenon DEF SyncTyped, RecvNotify

LEMMA TypesStep ==
  ASSUME SyncTyped, [SyncNext]_syncVars
  PROVE  SyncTyped'
<1>1. CASE UNCHANGED syncVars
  BY <1>1, Zenon DEF SyncTyped, syncVars
<1> QED
  BY <1>1, TypesSend, TypesUpdate, TypesNotify, Zenon DEF SyncNext


-----------------------------------------------------------------------------
(* Every object is taken in by one worker, which notifies the coordinator  *)
(* of it once.                                                             *)

NoticesOnce ==
  /\ unmade \cap taken = {}
  /\ handled \subseteq taken
  /\ \A w \in Workers : \A i \in 1..Len(toCoord[w]) : toCoord[w][i].obj \in taken \ handled
  /\ \A v, w \in Workers : \A i \in 1..Len(toCoord[v]), j \in 1..Len(toCoord[w]) :
       toCoord[v][i].obj = toCoord[w][j].obj => v = w /\ i = j

\* The queue of a worker after it has taken in o.
LEMMA QueuePush ==
  ASSUME NEW q \in Seq(Notice), NEW n \in Notice
  PROVE  /\ Append(q, n) \in Seq(Notice)
         /\ Len(Append(q, n)) = Len(q) + 1
         /\ \A i \in 1..Len(q) : Append(q, n)[i] = q[i]
         /\ Append(q, n)[Len(q) + 1] = n
         /\ Len(q) \in Nat
  OBVIOUS

LEMMA QueuePop ==
  ASSUME NEW q \in Seq(Notice), q # <<>>
  PROVE  /\ Tail(q) \in Seq(Notice)
         /\ Len(q) \in Nat \ {0}
         /\ Len(Tail(q)) = Len(q) - 1
         /\ \A i \in 1..Len(Tail(q)) : Tail(q)[i] = q[i + 1]
         /\ Head(q) = q[1]
         /\ Head(q) \in Notice
  OBVIOUS

LEMMA NoticesOnceInit ==
  ASSUME SyncInit
  PROVE  NoticesOnce
<1>1. \A w \in Workers : Len(toCoord[w]) = 0
  BY Zenon DEF SyncInit
<1> QED
  BY <1>1 DEF NoticesOnce, SyncInit

LEMMA NoticesOnceSend ==
  ASSUME SyncTyped, NoticesOnce, NEW w \in Workers, NEW o \in Object, SendObject(w, o)
  PROVE  NoticesOnce'
<1>0. o \in unmade /\ unmade' = unmade \ {o} /\ handled' = handled
  BY Zenon DEF SendObject
<1>1. CASE w \notin registered /\ UNCHANGED <<wtrig, fires, toCoord, taken>>
  BY <1>0, <1>1 DEF NoticesOnce
<1>2. CASE w \in registered /\ TakeIn(w, o)
  <2>1. PICK r \in WorkerActions(w, o) :
          /\ toCoord' = [toCoord EXCEPT ![w] = Append(@, [obj |-> o, active |-> r.acts # {}])]
          /\ taken' = taken \cup {o}
    BY <1>2, Zenon DEF TakeIn
  <2>2. PICK n : n = [obj |-> o, active |-> r.acts # {}]
    BY Zenon
  <2>3. n \in Notice /\ n.obj = o
    BY <2>2, Zenon DEF Notice
  <2>4. \A v \in Workers : toCoord[v] \in Seq(Notice)
    BY Zenon DEF SyncTyped
  <2>5. \A v \in Workers : toCoord'[v] = IF v = w THEN Append(toCoord[w], n) ELSE toCoord[v]
    BY <2>1, <2>2, <2>4, Zenon DEF SyncTyped
  <2>6. o \notin taken
    BY <1>0, Zenon DEF NoticesOnce
  <2>7. \A v \in Workers : \A i \in 1..Len(toCoord'[v]) :
          \/ v = w /\ i = Len(toCoord[w]) + 1 /\ toCoord'[v][i] = n
          \/ i \in 1..Len(toCoord[v]) /\ toCoord'[v][i] = toCoord[v][i]
    <3> SUFFICES ASSUME NEW v \in Workers, NEW i \in 1..Len(toCoord'[v])
                 PROVE  \/ v = w /\ i = Len(toCoord[w]) + 1 /\ toCoord'[v][i] = n
                        \/ i \in 1..Len(toCoord[v]) /\ toCoord'[v][i] = toCoord[v][i]
      BY Zenon
    <3>1. CASE v = w
      <4>1. toCoord'[v] = Append(toCoord[w], n)
        BY <2>5, <3>1, Zenon
      <4>2. /\ Len(toCoord'[v]) = Len(toCoord[w]) + 1
            /\ \A a \in 1..Len(toCoord[w]) : toCoord'[v][a] = toCoord[w][a]
            /\ toCoord'[v][Len(toCoord[w]) + 1] = n
            /\ Len(toCoord[w]) \in Nat
        BY <2>3, <2>4, <4>1, QueuePush
      <4>3. i \in 1..(Len(toCoord[w]) + 1)
        BY <4>2, Zenon
      <4>4. i = Len(toCoord[w]) + 1 \/ i \in 1..Len(toCoord[w])
        BY <4>2, <4>3
      <4> QED
        BY <3>1, <4>2, <4>4, Zenon
    <3>2. CASE v # w
      BY <2>5, <3>2, Zenon
    <3> QED
      BY <3>1, <3>2, Zenon
  <2>8. \A v \in Workers : \A i \in 1..Len(toCoord'[v]) : toCoord'[v][i].obj \in taken' \ handled'
    BY <1>0, <2>1, <2>3, <2>6, <2>7 DEF NoticesOnce
  <2>9. \A v, x \in Workers : \A i \in 1..Len(toCoord'[v]), j \in 1..Len(toCoord'[x]) :
          toCoord'[v][i].obj = toCoord'[x][j].obj => v = x /\ i = j
    <3> SUFFICES ASSUME NEW v \in Workers, NEW x \in Workers,
                        NEW i \in 1..Len(toCoord'[v]), NEW j \in 1..Len(toCoord'[x]),
                        toCoord'[v][i].obj = toCoord'[x][j].obj
                 PROVE  v = x /\ i = j
      BY Zenon
    <3>1. CASE i \in 1..Len(toCoord[v]) /\ toCoord'[v][i] = toCoord[v][i]
      <4>1. toCoord'[x][j].obj \in taken
        BY <3>1 DEF NoticesOnce
      <4>2. j \in 1..Len(toCoord[x]) /\ toCoord'[x][j] = toCoord[x][j]
        BY <2>3, <2>6, <2>7, <4>1, Zenon
      <4> QED
        BY <3>1, <4>2 DEF NoticesOnce
    <3>2. CASE v = w /\ i = Len(toCoord[w]) + 1 /\ toCoord'[v][i] = n
      <4>1. ~(j \in 1..Len(toCoord[x]) /\ toCoord'[x][j] = toCoord[x][j])
        BY <2>3, <2>6, <3>2 DEF NoticesOnce
      <4> QED
        BY <2>7, <3>2, <4>1, Zenon
    <3> QED
      BY <2>7, <3>1, <3>2, Zenon
  <2> QED
    BY <1>0, <2>1, <2>8, <2>9, Zenon DEF NoticesOnce
<1> QED
  BY <1>1, <1>2, Zenon DEF SendObject

\* What RecvNotify takes off the queue.
LEMMA NotifyQueue ==
  ASSUME SyncTyped, NEW w \in Workers, RecvNotify(w)
  PROVE  /\ Head(toCoord[w]) \in Notice /\ Head(toCoord[w]) = toCoord[w][1]
         /\ Len(toCoord[w]) \in Nat \ {0}
         /\ handled' = handled \cup {toCoord[w][1].obj}
         /\ \A v \in Workers : toCoord'[v] = IF v = w THEN Tail(toCoord[w]) ELSE toCoord[v]
         /\ \A i \in 1..Len(toCoord'[w]) : i + 1 \in 1..Len(toCoord[w]) /\ toCoord'[w][i] = toCoord[w][i + 1]
         /\ Len(toCoord'[w]) = Len(toCoord[w]) - 1
<1>1. toCoord[w] \in Seq(Notice) /\ toCoord[w] # <<>>
  BY Zenon DEF SyncTyped, RecvNotify
<1>2. /\ Len(toCoord[w]) \in Nat \ {0}
      /\ Len(Tail(toCoord[w])) = Len(toCoord[w]) - 1
      /\ \A i \in 1..Len(Tail(toCoord[w])) : Tail(toCoord[w])[i] = toCoord[w][i + 1]
      /\ Head(toCoord[w]) = toCoord[w][1]
      /\ Head(toCoord[w]) \in Notice
  BY <1>1, QueuePop, Zenon
<1>3. \A v \in Workers : toCoord'[v] = IF v = w THEN Tail(toCoord[w]) ELSE toCoord[v]
  BY Zenon DEF RecvNotify, SyncTyped
<1>4. handled' = handled \cup {toCoord[w][1].obj}
  BY <1>2, Zenon DEF RecvNotify
<1>5. toCoord'[w] = Tail(toCoord[w])
  BY <1>3, Zenon
<1>6. \A i \in 1..Len(toCoord'[w]) : i + 1 \in 1..Len(toCoord[w])
  BY <1>2, <1>5
<1> QED
  BY <1>2, <1>3, <1>4, <1>5, <1>6, Zenon

LEMMA NoticesOnceNotify ==
  ASSUME SyncTyped, NoticesOnce, NEW w \in Workers, RecvNotify(w)
  PROVE  NoticesOnce'
<1>0. unmade' = unmade /\ taken' = taken
  BY Zenon DEF RecvNotify
<1>1. 1 \in 1..Len(toCoord[w]) /\ handled' = handled \cup {toCoord[w][1].obj}
  BY NotifyQueue
<1>2. \A v \in Workers : \A i \in 1..Len(toCoord'[v]) :
        \/ v = w /\ i + 1 \in 1..Len(toCoord[w]) /\ i + 1 # 1 /\ toCoord'[v][i] = toCoord[w][i + 1]
        \/ v # w /\ toCoord'[v] = toCoord[v]
  BY NotifyQueue
<1>3. \A v \in Workers : \A i \in 1..Len(toCoord'[v]) : toCoord'[v][i].obj \in taken \ handled'
  <2> SUFFICES ASSUME NEW v \in Workers, NEW i \in 1..Len(toCoord'[v])
               PROVE  toCoord'[v][i].obj \in taken \ handled'
    BY Zenon
  <2>1. CASE v = w
    <3>1. i + 1 \in 1..Len(toCoord[w]) /\ i + 1 # 1 /\ toCoord'[v][i] = toCoord[w][i + 1]
      BY <1>2, <2>1, Zenon
    <3>2. toCoord[w][i + 1].obj # toCoord[w][1].obj
      BY <1>1, <3>1 DEF NoticesOnce
    <3> QED
      BY <1>1, <3>1, <3>2, Zenon DEF NoticesOnce
  <2>2. CASE v # w
    <3>1. i \in 1..Len(toCoord[v]) /\ toCoord'[v][i] = toCoord[v][i]
      BY <1>2, <2>2, Zenon
    <3>2. toCoord[v][i].obj # toCoord[w][1].obj
      BY <1>1, <2>2, <3>1, Zenon DEF NoticesOnce
    <3> QED
      BY <1>1, <3>1, <3>2, Zenon DEF NoticesOnce
  <2> QED
    BY <2>1, <2>2, Zenon
<1>4. \A v, x \in Workers : \A i \in 1..Len(toCoord'[v]), j \in 1..Len(toCoord'[x]) :
        toCoord'[v][i].obj = toCoord'[x][j].obj => v = x /\ i = j
  <2> SUFFICES ASSUME NEW v \in Workers, NEW x \in Workers,
                      NEW i \in 1..Len(toCoord'[v]), NEW j \in 1..Len(toCoord'[x]),
                      toCoord'[v][i].obj = toCoord'[x][j].obj
               PROVE  v = x /\ i = j
    BY Zenon
  <2>1. PICK a \in 1..Len(toCoord[v]) : toCoord'[v][i] = toCoord[v][a] /\ a = IF v = w THEN i + 1 ELSE i
    BY <1>2, Zenon
  <2>2. PICK b \in 1..Len(toCoord[x]) : toCoord'[x][j] = toCoord[x][b] /\ b = IF x = w THEN j + 1 ELSE j
    BY <1>2, Zenon
  <2>3. v = x /\ a = b
    BY <2>1, <2>2 DEF NoticesOnce
  <2> QED
    BY <2>1, <2>2, <2>3
<1>5. handled' \subseteq taken
  BY <1>1 DEF NoticesOnce
<1> QED
  BY <1>0, <1>3, <1>4, <1>5, Zenon DEF NoticesOnce

LEMMA NoticesOnceStep ==
  ASSUME SyncTyped, NoticesOnce, [SyncNext]_syncVars
  PROVE  NoticesOnce'
<1>1. CASE UNCHANGED syncVars
  BY <1>1 DEF NoticesOnce, syncVars
<1>2. ASSUME NEW w \in Workers, RecvUpdate(w) PROVE NoticesOnce'
  BY <1>2 DEF NoticesOnce, RecvUpdate
<1> QED
  BY <1>1, <1>2, NoticesOnceSend, NoticesOnceNotify, Zenon DEF SyncNext


-----------------------------------------------------------------------------
(* What a step adds to the calls, for the primitives that ask for at most  *)
(* one call at a time and keep no count.                                   *)

Plain == {"IMMEDIATE", "BY_NAME", "BY_SET", "BY_TIME"}

\* CallsAt lists the calls it is given.
CallsListed ==
  /\ \A site : CallsAt(site, {}) = <<>>
  /\ \A site, a : CallsAt(site, {a}) = <<[site |-> site[a], args |-> a]>>

CallsTyped == kind \in Plain => fires \in Seq(FireRecord)

LEMMA PlainActs ==
  ASSUME NEW k \in Plain, NEW t \in TriggerState, NEW o \in Object,
         NEW r \in action_for_new_object(k, t, o)
  PROVE  r.acts = {} \/ \E a \in SUBSET Object : r.acts = {a}
<1>0. {o} \in SUBSET Object
  BY Zenon
<1>1. CASE k = "IMMEDIATE"
  <2>1. r.acts = {{o}}
    BY <1>1 DEF action_for_new_object, ImmediateTrigger, Outcome
  <2> QED
    BY <1>0, <2>1, Zenon
<1>2. CASE k = "BY_NAME"
  <2>1. r.acts = {{o}} \/ r.acts = {}
    BY <1>2 DEF action_for_new_object, ByNameTrigger, Outcome
  <2> QED
    BY <1>0, <2>1, Zenon
<1>3. CASE k = "BY_SET"
  <2>1. Objs(o.session, KeySet) \in SUBSET Object
    BY ObjectFields, TriggersAssumption DEF Objs, Object
  <2>2. r = BySetTrigger(t, o)
    BY <1>3, Zenon DEF action_for_new_object
  <2>3. r.acts = {} \/ r.acts = {Objs(o.session, KeySet)}
    BY <2>2, Zenon DEF BySetTrigger, Outcome
  <2> QED
    BY <2>1, <2>3, Zenon
<1>4. CASE k = "BY_TIME"
  <2>1. t.buffer \in Seq(Object) /\ Append(t.buffer, o) \in Seq(Object)
    BY StateFields
  <2>2. PICK b \in Seq(Object) : b = Append(t.buffer, o)
    BY <2>1, Zenon
  <2>3. Range(b) \in SUBSET Object
    BY DEF Range
  <2>4. PICK e \in BOOLEAN : r = ByTimeTrigger(t, o, e)
    BY <1>4, Zenon DEF action_for_new_object
  <2>5. r.acts = {} \/ r.acts = {Range(b)}
    BY <2>2, <2>4, Zenon DEF ByTimeTrigger, Outcome
  <2> QED
    BY <2>3, <2>5, Zenon
<1> QED
  BY <1>1, <1>2, <1>3, <1>4, Zenon DEF Plain

LEMMA OneMoreCall ==
  ASSUME NEW f \in Seq(FireRecord), NEW c
  PROVE  f \o <<>> = f /\ f \o <<c>> = Append(f, c)
  OBVIOUS

\* A worker that takes an object in, and what it calls.
LEMMA SendEffect ==
  ASSUME SyncTyped, CallsTyped, CallsListed, kind \in Plain,
         NEW w \in Workers, NEW o \in Object, SendObject(w, o), w \in registered
  PROVE  \E r \in WorkerActions(w, o) :
           /\ wtrig' = [wtrig EXCEPT ![w] = r.st]
           /\ toCoord' = [toCoord EXCEPT ![w] = Append(@, [obj |-> o, active |-> r.acts # {}])]
           /\ taken' = taken \cup {o}
           /\ \/ r.acts = {} /\ fires' = fires
              \/ \E a \in SUBSET Object :
                   r.acts = {a} /\ fires' = Append(fires, [site |-> "worker", args |-> a])
<1>1. PICK r \in WorkerActions(w, o) :
        /\ wtrig' = [wtrig EXCEPT ![w] = r.st]
        /\ fires' = fires \o CallsAt([a \in r.acts |-> "worker"], r.acts)
        /\ toCoord' = [toCoord EXCEPT ![w] = Append(@, [obj |-> o, active |-> r.acts # {}])]
        /\ taken' = taken \cup {o}
  BY Zenon DEF SendObject, TakeIn
<1>2. r.acts = {} \/ \E a \in SUBSET Object : r.acts = {a}
  <2>1. CASE kind = "BY_TIME"
    BY <2>1 DEF WorkerActions
  <2>2. CASE kind # "BY_TIME"
    BY <2>2, PlainActs, Zenon DEF WorkerActions, SyncTyped
  <2> QED
    BY <2>1, <2>2, Zenon
<1>3. fires \in Seq(FireRecord)
  BY Zenon DEF CallsTyped
<1>4. CASE r.acts = {}
  <2>1. CallsAt([a \in r.acts |-> "worker"], r.acts) = <<>>
    BY <1>4, Zenon DEF CallsListed
  <2>2. fires' = fires
    BY <1>1, <1>3, <2>1, OneMoreCall, Zenon
  <2> QED
    BY <1>1, <1>4, <2>2, Zenon
<1>5. ASSUME NEW a \in SUBSET Object, r.acts = {a}
      PROVE  fires' = Append(fires, [site |-> "worker", args |-> a])
  <2>1. CallsAt([x \in r.acts |-> "worker"], r.acts)
          = <<[site |-> [x \in r.acts |-> "worker"][a], args |-> a]>>
    BY <1>5, Zenon DEF CallsListed
  <2>2. [x \in r.acts |-> "worker"][a] = "worker"
    BY <1>5, Zenon
  <2>3. fires' = fires \o <<[site |-> "worker", args |-> a]>>
    BY <1>1, <2>1, <2>2, Zenon
  <2> QED
    BY <1>3, <2>3, OneMoreCall, Zenon
<1> QED
  BY <1>1, <1>2, <1>4, <1>5, Zenon

\* A notice the coordinator handles, and what it calls.
LEMMA NotifyEffect ==
  ASSUME SyncTyped, CallsTyped, CallsListed, kind \in Plain, NEW w \in Workers, RecvNotify(w)
  PROVE  \E r \in action_for_new_object(kind, ctrig, toCoord[w][1].obj) :
           /\ ctrig' = r.st
           /\ \/ (toCoord[w][1].active \/ r.acts = {}) /\ fires' = fires
              \/ /\ ~toCoord[w][1].active
                 /\ \E a \in SUBSET Object, x \in {"coord", "dropped"} :
                      r.acts = {a} /\ fires' = Append(fires, [site |-> x, args |-> a])
<1> DEFINE m == toCoord[w][1]
<1>1. Head(toCoord[w]) = m /\ m \in Notice
  BY NotifyQueue, Zenon
<1>2. m.obj \in Object
  BY <1>1, Zenon DEF Notice
<1> HIDE DEF m
<1>3. PICK r \in action_for_new_object(kind, ctrig, m.obj) :
        /\ ctrig' = r.st
        /\ IF m.active \/ r.acts = {} THEN UNCHANGED <<fires, toWorker>> ELSE Fire(m.obj, r.acts)
  <2>1. Feed(m.obj, m.active)
    BY <1>1, Zenon DEF RecvNotify
  <2> QED
    BY <2>1, Zenon DEF Feed
<1>4. r.acts = {} \/ \E a \in SUBSET Object : r.acts = {a}
  <2>1. ctrig \in TriggerState
    BY Zenon DEF SyncTyped
  <2> QED
    BY <1>2, <1>3, <2>1, PlainActs
<1>5. fires \in Seq(FireRecord)
  BY Zenon DEF CallsTyped
<1>6. CASE m.active \/ r.acts = {}
  BY <1>3, <1>6, Zenon DEF m
<1>7. CASE ~(m.active \/ r.acts = {})
  <2>1. PICK a \in SUBSET Object : r.acts = {a}
    BY <1>4, <1>7, Zenon
  <2>2. PICK site \in [r.acts -> {"coord", "dropped"}] : fires' = fires \o CallsAt(site, r.acts)
    BY <1>3, <1>7, Zenon DEF Fire
  <2>3. CallsAt(site, r.acts) = <<[site |-> site[a], args |-> a]>>
    BY <2>1, Zenon DEF CallsListed
  <2>4. site[a] \in {"coord", "dropped"}
    BY <2>1, <2>2, Zenon
  <2>5. fires' = Append(fires, [site |-> site[a], args |-> a])
    BY <1>5, <2>2, <2>3, OneMoreCall, Zenon
  <2> QED
    BY <1>3, <1>7, <2>1, <2>4, <2>5, Zenon DEF m
<1> QED
  BY <1>6, <1>7, Zenon


LEMMA CallsTypedInit ==
  ASSUME SyncInit
  PROVE  CallsTyped
  BY DEF SyncInit, CallsTyped

LEMMA CallsTypedStep ==
  ASSUME SyncTyped, CallsTyped, CallsListed, [SyncNext]_syncVars
  PROVE  CallsTyped'
<1> SUFFICES ASSUME kind \in Plain
             PROVE  fires' \in Seq(FireRecord)
  BY Zenon DEF CallsTyped, SyncNext, SendObject, RecvUpdate, RecvNotify, syncVars
<1>1. fires \in Seq(FireRecord)
  BY Zenon DEF CallsTyped
<1>2. \A a \in SUBSET Object, x \in {"worker", "coord", "dropped"} :
        Append(fires, [site |-> x, args |-> a]) \in Seq(FireRecord)
  BY <1>1 DEF FireRecord
<1>3. CASE UNCHANGED syncVars
  BY <1>1, <1>3, Zenon DEF syncVars
<1>4. ASSUME NEW w \in Workers, RecvUpdate(w) PROVE fires' \in Seq(FireRecord)
  BY <1>1, <1>4, Zenon DEF RecvUpdate
<1>5. ASSUME NEW w \in Workers, NEW o \in Object, SendObject(w, o) PROVE fires' \in Seq(FireRecord)
  <2>1. CASE w \notin registered
    BY <1>1, <1>5, <2>1, Zenon DEF SendObject
  <2>2. CASE w \in registered
    <3>1. fires' = fires \/ \E a \in SUBSET Object : fires' = Append(fires, [site |-> "worker", args |-> a])
      BY <1>5, <2>2, SendEffect, Zenon
    <3> QED
      BY <1>1, <1>2, <3>1, Zenon
  <2> QED
    BY <2>1, <2>2, Zenon
<1>6. ASSUME NEW w \in Workers, RecvNotify(w) PROVE fires' \in Seq(FireRecord)
  <2>1. \/ fires' = fires
        \/ \E a \in SUBSET Object, x \in {"coord", "dropped"} : fires' = Append(fires, [site |-> x, args |-> a])
    BY <1>6, NotifyEffect, Zenon
  <2> QED
    BY <1>1, <1>2, <2>1, Zenon
<1> QED
  BY <1>3, <1>4, <1>5, <1>6, Zenon DEF SyncNext

\* The calls after one more call.
LEMMA AfterCall ==
  ASSUME NEW f \in Seq(FireRecord), NEW c
  PROVE  /\ Len(Append(f, c)) = Len(f) + 1 /\ Len(f) \in Nat
         /\ \A i \in 1..Len(Append(f, c)) :
              \/ i \in 1..Len(f) /\ Append(f, c)[i] = f[i]
              \/ i = Len(f) + 1 /\ Append(f, c)[i] = c
  OBVIOUS

\* The arguments of a new call that no earlier call has had.
LEMMA NewArguments ==
  ASSUME fires \in Seq(FireRecord), AtMostOnce, NEW x, NEW a,
         fires' = Append(fires, [site |-> x, args |-> a]),
         \A i \in 1..Len(fires) : fires[i].args \cap a = {}
  PROVE  AtMostOnce'
<1>1. \A i \in 1..Len(fires') :
        \/ i \in 1..Len(fires) /\ fires'[i] = fires[i]
        \/ i = Len(fires) + 1 /\ fires'[i] = [site |-> x, args |-> a]
  BY AfterCall, ZenonT(40)
<1> SUFFICES ASSUME NEW i \in 1..Len(fires'), NEW j \in 1..Len(fires'), i # j
             PROVE  fires'[i].args \cap fires'[j].args = {}
  BY Zenon DEF AtMostOnce
<1>2. CASE i \in 1..Len(fires) /\ fires'[i] = fires[i] /\ j \in 1..Len(fires) /\ fires'[j] = fires[j]
  BY <1>2, Zenon DEF AtMostOnce
<1>3. CASE i \in 1..Len(fires) /\ fires'[i] = fires[i] /\ fires'[j] = [site |-> x, args |-> a]
  BY <1>3
<1>4. CASE j \in 1..Len(fires) /\ fires'[j] = fires[j] /\ fires'[i] = [site |-> x, args |-> a]
  BY <1>4
<1> QED
  BY <1>1, <1>2, <1>3, <1>4

-----------------------------------------------------------------------------
(* IMMEDIATE and BY_NAME: the worker that takes an object in calls the     *)
(* function for it, and its notice says so.                                *)

Hits(o) == kind = "IMMEDIATE" \/ o.key = NameKey

PointInv ==
  kind \in {"IMMEDIATE", "BY_NAME"} =>
    /\ \A w \in Workers : \A i \in 1..Len(toCoord[w]) :
         toCoord[w][i].active <=> Hits(toCoord[w][i].obj)
    /\ \A i \in 1..Len(fires) : \E o \in taken : fires[i].args = {o}
    /\ AtMostOnce

LEMMA PointActs ==
  ASSUME kind \in {"IMMEDIATE", "BY_NAME"}, NEW t, NEW o, NEW r \in action_for_new_object(kind, t, o)
  PROVE  r.acts = IF Hits(o) THEN {{o}} ELSE {}
<1>1. CASE kind = "IMMEDIATE"
  BY <1>1 DEF action_for_new_object, ImmediateTrigger, Outcome, Hits
<1>2. CASE kind = "BY_NAME"
  BY <1>2 DEF action_for_new_object, ByNameTrigger, Outcome, Hits
<1> QED
  BY <1>1, <1>2, Zenon

\* The queues after a worker has taken in an object.
LEMMA SendQueue ==
  ASSUME SyncTyped, NEW w \in Workers, NEW n \in Notice,
         toCoord' = [toCoord EXCEPT ![w] = Append(@, n)]
  PROVE  /\ Len(toCoord[w]) \in Nat
         /\ Len(toCoord'[w]) = Len(toCoord[w]) + 1
         /\ toCoord'[w][Len(toCoord[w]) + 1] = n
         /\ \A v \in Workers : \A i \in 1..Len(toCoord[v]) :
              i \in 1..Len(toCoord'[v]) /\ toCoord'[v][i] = toCoord[v][i]
         /\ \A v \in Workers : \A i \in 1..Len(toCoord'[v]) :
              \/ v = w /\ i = Len(toCoord[w]) + 1 /\ toCoord'[v][i] = n
              \/ i \in 1..Len(toCoord[v]) /\ toCoord'[v][i] = toCoord[v][i]
<1>1. \A v \in Workers : toCoord[v] \in Seq(Notice) /\ Len(toCoord[v]) \in Nat
  BY DEF SyncTyped
<1>2. toCoord'[w] = Append(toCoord[w], n) /\ \A v \in Workers : v # w => toCoord'[v] = toCoord[v]
  BY Zenon DEF SyncTyped
<1>3. /\ Len(toCoord'[w]) = Len(toCoord[w]) + 1
      /\ \A i \in 1..Len(toCoord[w]) : toCoord'[w][i] = toCoord[w][i]
      /\ toCoord'[w][Len(toCoord[w]) + 1] = n
  BY <1>1, <1>2, QueuePush
<1>4. \A i \in 1..Len(toCoord'[w]) : i = Len(toCoord[w]) + 1 \/ i \in 1..Len(toCoord[w])
  BY <1>1, <1>3
<1>5. \A i \in 1..Len(toCoord[w]) : i \in 1..Len(toCoord'[w])
  BY <1>1, <1>3
<1> QED
  BY <1>1, <1>2, <1>3, <1>4, <1>5, Zenon
LEMMA PointSend ==
  ASSUME SyncTyped, CallsTyped, CallsListed, NoticesOnce, PointInv,
         NEW w \in Workers, NEW o \in Object, SendObject(w, o)
  PROVE  PointInv'
<1>0. kind' = kind
  BY Zenon DEF SendObject
<1> SUFFICES ASSUME kind \in {"IMMEDIATE", "BY_NAME"}
             PROVE  /\ \A v \in Workers : \A i \in 1..Len(toCoord'[v]) :
                         toCoord'[v][i].active <=> Hits(toCoord'[v][i].obj)
                    /\ \A i \in 1..Len(fires') : \E p \in taken' : fires'[i].args = {p}
                    /\ AtMostOnce'
  BY <1>0, Zenon DEF PointInv, Hits
<1>1. /\ \A v \in Workers : \A i \in 1..Len(toCoord[v]) :
           toCoord[v][i].active <=> Hits(toCoord[v][i].obj)
      /\ \A i \in 1..Len(fires) : \E p \in taken : fires[i].args = {p}
      /\ AtMostOnce
  BY Zenon DEF PointInv
<1>2. CASE w \notin registered
  BY <1>1, <1>2, Zenon DEF SendObject, AtMostOnce
<1>3. CASE w \in registered
  <2>1. kind \in Plain
    BY Zenon DEF Plain
  <2>2. PICK r \in WorkerActions(w, o) :
           /\ wtrig' = [wtrig EXCEPT ![w] = r.st]
           /\ toCoord' = [toCoord EXCEPT ![w] = Append(@, [obj |-> o, active |-> r.acts # {}])]
           /\ taken' = taken \cup {o}
           /\ \/ r.acts = {} /\ fires' = fires
              \/ \E a \in SUBSET Object :
                   r.acts = {a} /\ fires' = Append(fires, [site |-> "worker", args |-> a])
    BY <1>3, <2>1, SendEffect, Zenon
  <2>3. r.acts = IF Hits(o) THEN {{o}} ELSE {}
    <3>1. r \in action_for_new_object(kind, wtrig[w], o)
      BY <2>2, Zenon DEF WorkerActions
    <3> QED
      BY <3>1, PointActs, Zenon
  <2>4. PICK n : n = [obj |-> o, active |-> r.acts # {}]
    BY Zenon
  <2>5. n \in Notice /\ n.obj = o /\ (n.active <=> Hits(o))
    BY <2>3, <2>4, Zenon DEF Notice
  <2>6. toCoord' = [toCoord EXCEPT ![w] = Append(@, n)]
    BY <2>2, <2>4, Zenon
  <2>7. \A v \in Workers : \A i \in 1..Len(toCoord'[v]) :
          \/ v = w /\ i = Len(toCoord[w]) + 1 /\ toCoord'[v][i] = n
          \/ i \in 1..Len(toCoord[v]) /\ toCoord'[v][i] = toCoord[v][i]
    BY <2>5, <2>6, SendQueue, ZenonT(40)
  <2>8. \A v \in Workers : \A i \in 1..Len(toCoord'[v]) :
          toCoord'[v][i].active <=> Hits(toCoord'[v][i].obj)
    BY <1>1, <2>5, <2>7
  <2>9. CASE fires' = fires
    BY <1>1, <2>2, <2>8, <2>9, Zenon DEF AtMostOnce
  <2>10. CASE Hits(o) /\ fires' = Append(fires, [site |-> "worker", args |-> {o}])
    <3>1. fires \in Seq(FireRecord)
      BY <2>1, Zenon DEF CallsTyped
    <3>2. o \notin taken
      BY Zenon DEF NoticesOnce, SendObject
    <3>3. \A i \in 1..Len(fires) : fires[i].args \cap {o} = {}
      BY <1>1, <3>2, Zenon
    <3>4. AtMostOnce'
      BY <1>1, <2>10, <3>1, <3>3, NewArguments, Zenon
    <3>c. PICK c : c = [site |-> "worker", args |-> {o}]
      BY Zenon
    <3>5. fires' = Append(fires, c) /\ c.args = {o}
      BY <2>10, <3>c, Zenon
    <3>6. \A i \in 1..Len(fires') :
            \/ i \in 1..Len(fires) /\ fires'[i] = fires[i]
            \/ i = Len(fires) + 1 /\ fires'[i] = c
      BY <3>1, <3>5, AfterCall, Zenon
    <3>7. \A i \in 1..Len(fires') : \E p \in taken' : fires'[i].args = {p}
      BY <1>1, <2>2, <3>5, <3>6, ZenonT(40)
    <3> QED
      BY <2>8, <3>4, <3>7, Zenon
  <2> QED
    BY <2>2, <2>3, <2>9, <2>10, Zenon
<1> QED
  BY <1>2, <1>3, Zenon

LEMMA PointNotify ==
  ASSUME SyncTyped, CallsTyped, CallsListed, PointInv, NEW w \in Workers, RecvNotify(w)
  PROVE  PointInv'
<1>0. kind' = kind /\ taken' = taken
  BY Zenon DEF RecvNotify
<1> SUFFICES ASSUME kind \in {"IMMEDIATE", "BY_NAME"}
             PROVE  /\ \A v \in Workers : \A i \in 1..Len(toCoord'[v]) :
                         toCoord'[v][i].active <=> Hits(toCoord'[v][i].obj)
                    /\ \A i \in 1..Len(fires') : \E p \in taken' : fires'[i].args = {p}
                    /\ AtMostOnce'
  BY <1>0, Zenon DEF PointInv, Hits
<1>1. /\ \A v \in Workers : \A i \in 1..Len(toCoord[v]) :
           toCoord[v][i].active <=> Hits(toCoord[v][i].obj)
      /\ \A i \in 1..Len(fires) : \E p \in taken : fires[i].args = {p}
      /\ AtMostOnce
  BY Zenon DEF PointInv
<1>2. kind \in Plain
  BY Zenon DEF Plain
<1>3. fires' = fires
  <2>1. PICK r \in action_for_new_object(kind, ctrig, toCoord[w][1].obj) :
          \/ (toCoord[w][1].active \/ r.acts = {}) /\ fires' = fires
          \/ ~toCoord[w][1].active /\ \E a : r.acts = {a}
    BY <1>2, NotifyEffect, Zenon
  <2>2. r.acts = IF Hits(toCoord[w][1].obj) THEN {{toCoord[w][1].obj}} ELSE {}
    BY PointActs, Zenon
  <2>3. 1 \in 1..Len(toCoord[w])
    BY NotifyQueue
  <2> QED
    BY <1>1, <2>1, <2>2, <2>3, Zenon
<1>4. \A v \in Workers : \A i \in 1..Len(toCoord'[v]) :
        \E j \in 1..Len(toCoord[v]) : toCoord'[v][i] = toCoord[v][j]
  <2> SUFFICES ASSUME NEW v \in Workers, NEW i \in 1..Len(toCoord'[v])
               PROVE  \E j \in 1..Len(toCoord[v]) : toCoord'[v][i] = toCoord[v][j]
    BY Zenon
  <2>1. CASE v = w
    BY <2>1, NotifyQueue, ZenonT(40)
  <2>2. CASE v # w
    BY <2>2, NotifyQueue, ZenonT(40)
  <2> QED
    BY <2>1, <2>2, Zenon
<1>5. \A v \in Workers : \A i \in 1..Len(toCoord'[v]) :
        toCoord'[v][i].active <=> Hits(toCoord'[v][i].obj)
  BY <1>1, <1>4
<1> QED
  BY <1>0, <1>1, <1>3, <1>5, Zenon DEF AtMostOnce

LEMMA PointStep ==
  ASSUME SyncTyped, CallsTyped, CallsListed, NoticesOnce, PointInv, [SyncNext]_syncVars
  PROVE  PointInv'
<1>1. CASE UNCHANGED syncVars
  BY <1>1, Zenon DEF PointInv, syncVars, AtMostOnce, Hits
<1>2. ASSUME NEW w \in Workers, RecvUpdate(w) PROVE PointInv'
  BY <1>2, Zenon DEF PointInv, RecvUpdate, AtMostOnce, Hits
<1> QED
  BY <1>1, <1>2, PointSend, PointNotify, Zenon DEF SyncNext
-----------------------------------------------------------------------------
(* BY_TIME: only the coordinator has a copy, and an object is in it or has *)
(* been passed to a call.                                                  *)

TimeInv ==
  kind = "BY_TIME" =>
    /\ \A w \in Workers : \A i \in 1..Len(toCoord[w]) : ~toCoord[w][i].active
    /\ Range(ctrig.buffer) \subseteq handled
    /\ \A i \in 1..Len(fires) : fires[i].args \subseteq handled \ Range(ctrig.buffer)
    /\ AtMostOnce

LEMMA BufferSet ==
  ASSUME NEW b \in Seq(Object), NEW o \in Object
  PROVE  Range(Append(b, o)) = Range(b) \cup {o} /\ Range(<<>>) = {}
<1>1. DOMAIN Append(b, o) = 1..(Len(b) + 1) /\ DOMAIN b = 1..Len(b) /\ Len(b) \in Nat
  OBVIOUS
<1>2. \A i \in 1..Len(b) : Append(b, o)[i] = b[i]
  OBVIOUS
<1>3. Append(b, o)[Len(b) + 1] = o
  OBVIOUS
<1>4. \A i \in 1..(Len(b) + 1) : i \in 1..Len(b) \/ i = Len(b) + 1
  BY <1>1
<1>5. 1..Len(b) \subseteq 1..(Len(b) + 1) /\ Len(b) + 1 \in 1..(Len(b) + 1)
  BY <1>1
<1>6. Range(Append(b, o)) = Range(b) \cup {o}
  BY <1>1, <1>2, <1>3, <1>4, <1>5, Zenon DEF Range
<1>7. Range(<<>>) = {}
  BY DEF Range
<1> QED
  BY <1>6, <1>7, Zenon

LEMMA TimeSend ==
  ASSUME SyncTyped, CallsTyped, CallsListed, TimeInv,
         NEW w \in Workers, NEW o \in Object, SendObject(w, o)
  PROVE  TimeInv'
<1>0. kind' = kind /\ ctrig' = ctrig /\ handled' = handled
  BY Zenon DEF SendObject
<1> SUFFICES ASSUME kind = "BY_TIME"
             PROVE  /\ \A v \in Workers : \A i \in 1..Len(toCoord'[v]) : ~toCoord'[v][i].active
                    /\ fires' = fires
  BY <1>0, Zenon DEF TimeInv, AtMostOnce
<1>1. CASE w \notin registered
  BY <1>1, Zenon DEF SendObject, TimeInv
<1>2. CASE w \in registered
  <2>1. kind \in Plain
    BY Zenon DEF Plain
  <2>2. PICK r \in WorkerActions(w, o) :
           /\ wtrig' = [wtrig EXCEPT ![w] = r.st]
           /\ toCoord' = [toCoord EXCEPT ![w] = Append(@, [obj |-> o, active |-> r.acts # {}])]
           /\ taken' = taken \cup {o}
           /\ \/ r.acts = {} /\ fires' = fires
              \/ \E a \in SUBSET Object :
                   r.acts = {a} /\ fires' = Append(fires, [site |-> "worker", args |-> a])
    BY <1>2, <2>1, SendEffect, Zenon
  <2>3. r.acts = {}
    BY DEF WorkerActions
  <2>4. PICK n : n = [obj |-> o, active |-> FALSE]
    BY Zenon
  <2>5. n \in Notice /\ ~n.active
    BY <2>4, Zenon DEF Notice
  <2>6. toCoord' = [toCoord EXCEPT ![w] = Append(@, n)]
    BY <2>2, <2>3, <2>4, Zenon
  <2>7. \A v \in Workers : \A i \in 1..Len(toCoord'[v]) :
          \/ v = w /\ i = Len(toCoord[w]) + 1 /\ toCoord'[v][i] = n
          \/ i \in 1..Len(toCoord[v]) /\ toCoord'[v][i] = toCoord[v][i]
    BY <2>5, <2>6, SendQueue, ZenonT(40)
  <2>8. \A v \in Workers : \A i \in 1..Len(toCoord[v]) : ~toCoord[v][i].active
    BY Zenon DEF TimeInv
  <2>9. fires' = fires
    BY <2>2, <2>3, Zenon
  <2> QED
    BY <2>5, <2>7, <2>8, <2>9, Zenon
<1> QED
  BY <1>1, <1>2, Zenon

LEMMA TimeNotify ==
  ASSUME SyncTyped, CallsTyped, CallsListed, NoticesOnce, TimeInv, NEW w \in Workers, RecvNotify(w)
  PROVE  TimeInv'
<1>0. kind' = kind
  BY Zenon DEF RecvNotify
<1> SUFFICES ASSUME kind = "BY_TIME"
             PROVE  /\ \A v \in Workers : \A i \in 1..Len(toCoord'[v]) : ~toCoord'[v][i].active
                    /\ Range(ctrig'.buffer) \subseteq handled'
                    /\ \A i \in 1..Len(fires') : fires'[i].args \subseteq handled' \ Range(ctrig'.buffer)
                    /\ AtMostOnce'
  BY <1>0, Zenon DEF TimeInv
<1>1. /\ \A v \in Workers : \A i \in 1..Len(toCoord[v]) : ~toCoord[v][i].active
      /\ Range(ctrig.buffer) \subseteq handled
      /\ \A i \in 1..Len(fires) : fires[i].args \subseteq handled \ Range(ctrig.buffer)
      /\ AtMostOnce
  BY Zenon DEF TimeInv
<1>2. kind \in Plain
  BY Zenon DEF Plain
<1>3. fires \in Seq(FireRecord)
  BY <1>2, Zenon DEF CallsTyped
<1>4. \A v \in Workers : \A i \in 1..Len(toCoord'[v]) : ~toCoord'[v][i].active
  <2> SUFFICES ASSUME NEW v \in Workers, NEW i \in 1..Len(toCoord'[v])
               PROVE  ~toCoord'[v][i].active
    BY Zenon
  <2>1. CASE v = w
    BY <1>1, <2>1, NotifyQueue
  <2>2. CASE v # w
    BY <1>1, <2>2, NotifyQueue
  <2> QED
    BY <2>1, <2>2, Zenon
<1>5. PICK o : o = toCoord[w][1].obj
  BY Zenon
<1>6. 1 \in 1..Len(toCoord[w]) /\ handled' = handled \cup {o} /\ toCoord[w][1] \in Notice
  BY <1>5, NotifyQueue
<1>7. o \in Object /\ o \notin handled /\ ~toCoord[w][1].active
  BY <1>1, <1>5, <1>6, Zenon DEF Notice, NoticesOnce
<1>8. PICK r \in action_for_new_object(kind, ctrig, o) :
        /\ ctrig' = r.st
        /\ \/ r.acts = {} /\ fires' = fires
           \/ \E a \in SUBSET Object, x \in {"coord", "dropped"} :
                r.acts = {a} /\ fires' = Append(fires, [site |-> x, args |-> a])
  <2>1. \E r \in action_for_new_object(kind, ctrig, toCoord[w][1].obj) :
           /\ ctrig' = r.st
           /\ \/ (toCoord[w][1].active \/ r.acts = {}) /\ fires' = fires
              \/ /\ ~toCoord[w][1].active
                 /\ \E a \in SUBSET Object, x \in {"coord", "dropped"} :
                      r.acts = {a} /\ fires' = Append(fires, [site |-> x, args |-> a])
    BY <1>2, NotifyEffect, Zenon
  <2>2. PICK r \in action_for_new_object(kind, ctrig, o) :
           /\ ctrig' = r.st
           /\ \/ (toCoord[w][1].active \/ r.acts = {}) /\ fires' = fires
              \/ /\ ~toCoord[w][1].active
                 /\ \E a \in SUBSET Object, x \in {"coord", "dropped"} :
                      r.acts = {a} /\ fires' = Append(fires, [site |-> x, args |-> a])
    BY <1>5, <2>1, Zenon
  <2>3. \/ r.acts = {} /\ fires' = fires
        \/ \E a \in SUBSET Object, x \in {"coord", "dropped"} :
             r.acts = {a} /\ fires' = Append(fires, [site |-> x, args |-> a])
    <3>1. ~toCoord[w][1].active
      BY <1>7, Zenon
    <3> QED
      BY <2>2, <3>1, Zenon
  <2> QED
    BY <2>2, <2>3, Zenon
<1>9. PICK e \in BOOLEAN : r = ByTimeTrigger(ctrig, o, e)
  BY <1>8, Zenon DEF action_for_new_object
<1>10. ctrig \in TriggerState /\ ctrig.buffer \in Seq(Object)
  BY StateFields, Zenon DEF SyncTyped
<1>11. PICK b \in Seq(Object) : b = Append(ctrig.buffer, o)
  <2>1. Append(ctrig.buffer, o) \in Seq(Object)
    BY <1>7, <1>10
  <2> QED
    BY <2>1, Zenon
<1>12. Range(b) = Range(ctrig.buffer) \cup {o} /\ Range(<<>>) = {}
  BY <1>7, <1>10, <1>11, BufferSet, Zenon
<1>13. CASE e
  <2>1. r.st = [ctrig EXCEPT !.buffer = <<>>] /\ r.acts = {Range(b)}
    BY <1>9, <1>11, <1>13, Zenon DEF ByTimeTrigger, Outcome
  <2>2. ctrig'.buffer = <<>>
    BY <1>8, <1>10, <2>1, Zenon DEF TriggerState
  <2>3. PICK x : fires' = Append(fires, [site |-> x, args |-> Range(b)])
    BY <1>8, <2>1, Zenon
  <2>4. \A i \in 1..Len(fires) : fires[i].args \cap Range(b) = {}
    BY <1>1, <1>7, <1>12, Zenon
  <2>5. AtMostOnce'
    BY <1>1, <1>3, <2>3, <2>4, NewArguments, Zenon
  <2>6. PICK c : c = [site |-> x, args |-> Range(b)]
    BY Zenon
  <2>7. fires' = Append(fires, c) /\ c.args = Range(b)
    BY <2>3, <2>6, Zenon
  <2>8. \A i \in 1..Len(fires') :
          \/ i \in 1..Len(fires) /\ fires'[i] = fires[i]
          \/ i = Len(fires) + 1 /\ fires'[i] = c
    BY <1>3, <2>7, AfterCall, Zenon
  <2>9. Range(b) \subseteq handled'
    BY <1>1, <1>6, <1>12, Zenon
  <2>10. \A i \in 1..Len(fires') : fires'[i].args \subseteq handled'
    BY <1>1, <1>6, <2>7, <2>8, <2>9, Zenon
  <2> QED
    BY <1>4, <1>12, <2>2, <2>5, <2>10, Zenon
<1>14. CASE ~e
  <2>1. r.st = [ctrig EXCEPT !.buffer = b] /\ r.acts = {}
    BY <1>9, <1>11, <1>14, Zenon DEF ByTimeTrigger, Outcome
  <2>2. ctrig'.buffer = b
    BY <1>8, <1>10, <2>1, Zenon DEF TriggerState
  <2>3. fires' = fires
    BY <1>8, <2>1, Zenon
  <2>4. AtMostOnce'
    BY <1>1, <2>3, Zenon DEF AtMostOnce
  <2>5. \A i \in 1..Len(fires') : fires'[i].args \subseteq handled' \ Range(b)
    BY <1>1, <1>6, <1>7, <1>12, <2>3, Zenon
  <2> QED
    BY <1>1, <1>4, <1>6, <1>12, <2>2, <2>4, <2>5, Zenon
<1> QED
  BY <1>13, <1>14, Zenon

LEMMA TimeStep ==
  ASSUME SyncTyped, CallsTyped, CallsListed, NoticesOnce, TimeInv, [SyncNext]_syncVars
  PROVE  TimeInv'
<1>1. CASE UNCHANGED syncVars
  BY <1>1, Zenon DEF TimeInv, syncVars, AtMostOnce
<1>2. ASSUME NEW w \in Workers, RecvUpdate(w) PROVE TimeInv'
  BY <1>2, Zenon DEF TimeInv, RecvUpdate, AtMostOnce
<1> QED
  BY <1>1, <1>2, TimeSend, TimeNotify, Zenon DEF SyncNext
-----------------------------------------------------------------------------
(* BY_SET: a session is called once, by the worker whose copy is complete  *)
(* or by the coordinator.                                                  *)

ObjectAt(s, k) == [session |-> s, key |-> k]

\* Session s has fired.
HasFired(s) == \E i \in 1..Len(fires) : \E o \in fires[i].args : o.session = s

CallsOnePerSession ==
  /\ fires # <<>> => KeySet # {}
  /\ \A i \in 1..Len(fires) : \E s \in Sessions :
       fires[i].args = Objs(s, KeySet) /\ Objs(s, KeySet) \subseteq taken
  /\ \A i, j \in 1..Len(fires) : fires[i].args = fires[j].args => i = j

\* A worker's copy holds only keys it has notified the coordinator of.
WorkerCopy ==
  \A w \in Workers, s \in Sessions : \A k \in wtrig[w].prepared[s] :
    \/ ObjectAt(s, k) \in handled
    \/ \E i \in 1..Len(toCoord[w]) : toCoord[w][i].obj = ObjectAt(s, k)

\* The coordinator's copy holds the handled keys of a session that is incomplete.
CoordCopy ==
  \A s \in Sessions :
    ctrig.prepared[s] = IF Objs(s, KeySet) \subseteq handled THEN {}
                        ELSE {k \in KeySet : ObjectAt(s, k) \in handled}

\* What a worker has fired and the coordinator not yet handled ends with an
\* active notice of that worker.
ActiveLast ==
  \A s \in Sessions : HasFired(s) /\ ~(Objs(s, KeySet) \subseteq handled) =>
    \E w \in Workers : \E i \in 1..Len(toCoord[w]) :
      /\ toCoord[w][i].active
      /\ toCoord[w][i].obj \in Objs(s, KeySet)
      /\ \A o \in Objs(s, KeySet) : o \in handled \/ \E j \in 1..i : toCoord[w][j].obj = o

SetInv == CallsOnePerSession /\ WorkerCopy /\ CoordCopy /\ ActiveLast

LEMMA SessionObjects ==
  ASSUME NEW s \in Sessions
  PROVE  /\ Objs(s, KeySet) \subseteq Object
         /\ \A o \in Object : o \in Objs(s, KeySet) <=> (o.session = s /\ o.key \in KeySet)
         /\ \A k \in KeySet : ObjectAt(s, k) \in Objs(s, KeySet)
         /\ \A o \in Objs(s, KeySet) : \E k \in KeySet : o = ObjectAt(s, k)
         /\ \A o \in Objs(s, KeySet) : o.session = s /\ o.key \in KeySet
<1>1. \A k \in KeySet : ObjectAt(s, k) \in Objs(s, KeySet)
  BY Zenon DEF Objs, ObjectAt
<1>2. \A o \in Objs(s, KeySet) : \E k \in KeySet : o = ObjectAt(s, k)
  BY Zenon DEF Objs, ObjectAt
<1>3. \A o \in Objs(s, KeySet) : o.session = s /\ o.key \in KeySet
  BY <1>2 DEF ObjectAt
<1>4. Objs(s, KeySet) \subseteq Object
  BY <1>2, TriggersAssumption DEF Object, ObjectAt
<1>5. \A o \in Object : o = ObjectAt(o.session, o.key)
  BY DEF Object, ObjectAt
<1>6. \A o \in Object : o \in Objs(s, KeySet) <=> (o.session = s /\ o.key \in KeySet)
  <2>1. ASSUME NEW o \in Object, o.session = s, o.key \in KeySet PROVE o \in Objs(s, KeySet)
    <3>1. o = ObjectAt(s, o.key)
      BY <1>5, <2>1, Zenon
    <3> QED
      BY <1>1, <2>1, <3>1, Zenon
  <2> QED
    BY <1>3, <2>1, Zenon
<1> QED
  BY <1>1, <1>2, <1>3, <1>4, <1>6, Zenon

\* One more call, for a session that has not been called.
LEMMA OneMoreSession ==
  ASSUME fires \in Seq(FireRecord), CallsOnePerSession, NEW s \in Sessions, NEW x,
         fires' = Append(fires, [site |-> x, args |-> Objs(s, KeySet)]),
         taken \subseteq taken', Objs(s, KeySet) \subseteq taken', KeySet # {}, ~HasFired(s)
  PROVE  CallsOnePerSession' /\ HasFired(s)'
<1>1. PICK c : c = [site |-> x, args |-> Objs(s, KeySet)]
  BY Zenon
<1>2. c.args = Objs(s, KeySet) /\ fires' = Append(fires, c)
  BY <1>1, Zenon
<1>3. /\ Len(fires') = Len(fires) + 1 /\ Len(fires) \in Nat
      /\ \A i \in 1..Len(fires') :
           \/ i \in 1..Len(fires) /\ fires'[i] = fires[i]
           \/ i = Len(fires) + 1 /\ fires'[i] = c
  BY <1>2, AfterCall, ZenonT(40)
<1>4. PICK k : k \in KeySet
  BY Zenon
<1>5. ObjectAt(s, k) \in Objs(s, KeySet) /\ ObjectAt(s, k).session = s
  BY <1>4, SessionObjects, Zenon DEF ObjectAt
<1>6. \A i \in 1..Len(fires) : fires[i].args # Objs(s, KeySet)
  BY <1>5, Zenon DEF HasFired
<1>7. \A i, j \in 1..Len(fires') : fires'[i].args = fires'[j].args => i = j
  BY <1>2, <1>3, <1>6, Zenon DEF CallsOnePerSession
<1>8. \A i \in 1..Len(fires') : \E u \in Sessions :
        fires'[i].args = Objs(u, KeySet) /\ Objs(u, KeySet) \subseteq taken'
  <2> SUFFICES ASSUME NEW i \in 1..Len(fires')
               PROVE  \E u \in Sessions : fires'[i].args = Objs(u, KeySet) /\ Objs(u, KeySet) \subseteq taken'
    BY Zenon
  <2>1. CASE i \in 1..Len(fires) /\ fires'[i] = fires[i]
    <3>1. PICK u \in Sessions : fires[i].args = Objs(u, KeySet) /\ Objs(u, KeySet) \subseteq taken
      BY <2>1, Zenon DEF CallsOnePerSession
    <3> QED
      BY <2>1, <3>1, Zenon
  <2>2. CASE fires'[i] = c
    BY <1>2, <2>2, Zenon
  <2> QED
    BY <1>3, <2>1, <2>2, Zenon
<1>9. HasFired(s)'
  <2>1. Len(fires') \in 1..Len(fires') /\ fires'[Len(fires')] = c
    BY <1>2, <1>3
  <2> QED
    BY <1>2, <1>5, <2>1, Zenon DEF HasFired
<1> QED
  BY <1>7, <1>8, <1>9, Zenon DEF CallsOnePerSession

\* The other sessions are called as before.
LEMMA OtherSessions ==
  ASSUME fires \in Seq(FireRecord), NEW s \in Sessions, NEW x, NEW u \in Sessions, u # s,
         fires' = Append(fires, [site |-> x, args |-> Objs(s, KeySet)])
  PROVE  HasFired(u)' <=> HasFired(u)
<1>1. PICK c : c = [site |-> x, args |-> Objs(s, KeySet)]
  BY Zenon
<1>2. c.args = Objs(s, KeySet) /\ fires' = Append(fires, c)
  BY <1>1, Zenon
<1>3. /\ Len(fires') = Len(fires) + 1 /\ Len(fires) \in Nat
      /\ \A i \in 1..Len(fires') :
           \/ i \in 1..Len(fires) /\ fires'[i] = fires[i]
           \/ i = Len(fires) + 1 /\ fires'[i] = c
  <2>1. PICK q : q = Append(fires, c)
    BY Zenon
  <2>2. /\ Len(q) = Len(fires) + 1 /\ Len(fires) \in Nat
        /\ \A i \in 1..Len(q) :
             \/ i \in 1..Len(fires) /\ q[i] = fires[i]
             \/ i = Len(fires) + 1 /\ q[i] = c
    BY <2>1, AfterCall, Zenon
  <2>3. fires' = q
    BY <1>2, <2>1, Zenon
  <2> QED
    BY <2>2, <2>3, Zenon
<1>4. \A i \in 1..Len(fires) : i \in 1..Len(fires') /\ fires'[i] = fires[i]
  BY <1>3
<1>5. \A o \in c.args : o.session # u
  BY <1>2, SessionObjects, Zenon
<1> QED
  BY <1>3, <1>4, <1>5, Zenon DEF HasFired

\* A session is called only when its objects have been taken in.
LEMMA FiredIsTaken ==
  ASSUME CallsOnePerSession, NEW s \in Sessions, HasFired(s)
  PROVE  Objs(s, KeySet) \subseteq taken
<1>1. PICK i \in 1..Len(fires) : \E o \in fires[i].args : o.session = s
  BY Zenon DEF HasFired
<1>2. PICK u \in Sessions : fires[i].args = Objs(u, KeySet) /\ Objs(u, KeySet) \subseteq taken
  BY Zenon DEF CallsOnePerSession
<1>3. u = s
  BY <1>1, <1>2, SessionObjects, Zenon
<1> QED
  BY <1>2, <1>3, Zenon
\* What a new object does to a copy of a BY_SET trigger.
LEMMA SetActs ==
  ASSUME NEW t \in TriggerState, NEW o \in Object, NEW r \in action_for_new_object("BY_SET", t, o)
  PROVE  \/ /\ o.key \notin KeySet
            /\ r.acts = {}
            /\ \A u \in Sessions : r.st.prepared[u] = t.prepared[u]
         \/ /\ o.key \in KeySet /\ t.prepared[o.session] \cup {o.key} = KeySet
            /\ r.acts = {Objs(o.session, KeySet)}
            /\ \A u \in Sessions : r.st.prepared[u] = IF u = o.session THEN {} ELSE t.prepared[u]
         \/ /\ o.key \in KeySet /\ t.prepared[o.session] \cup {o.key} # KeySet
            /\ r.acts = {}
            /\ \A u \in Sessions : r.st.prepared[u] =
                 IF u = o.session THEN t.prepared[u] \cup {o.key} ELSE t.prepared[u]
<1>1. r = BySetTrigger(t, o)
  BY Zenon DEF action_for_new_object
<1>2. PICK p : p = t.prepared[o.session] \cup {o.key}
  BY Zenon
<1>3. o.session \in Sessions /\ t.prepared \in [Sessions -> SUBSET Keys]
  BY ObjectFields, StateFields, Zenon
<1>4. \A q : \A u \in Sessions : [t EXCEPT !.prepared[o.session] = q].prepared[u]
                = IF u = o.session THEN q ELSE t.prepared[u]
  <2> SUFFICES ASSUME NEW q, NEW u \in Sessions
               PROVE  [t EXCEPT !.prepared[o.session] = q].prepared[u]
                        = IF u = o.session THEN q ELSE t.prepared[u]
    BY Zenon
  <2>1. [t EXCEPT !.prepared[o.session] = q].prepared = [t.prepared EXCEPT ![o.session] = q]
    BY Zenon DEF TriggerState
  <2> QED
    BY <1>3, <2>1, Zenon
<1>5. CASE o.key \notin KeySet
  <2>1. r.st = t /\ r.acts = {}
    BY <1>1, <1>5, Zenon DEF BySetTrigger, Outcome
  <2> QED
    BY <1>5, <2>1, Zenon
<1>6. CASE o.key \in KeySet /\ p = KeySet
  <2>1. r.st = [t EXCEPT !.prepared[o.session] = {}] /\ r.acts = {Objs(o.session, KeySet)}
    BY <1>1, <1>2, <1>6, Zenon DEF BySetTrigger, Outcome
  <2>2. \A u \in Sessions : r.st.prepared[u] = IF u = o.session THEN {} ELSE t.prepared[u]
    BY <1>4, <2>1
  <2> QED
    BY <1>2, <1>6, <2>1, <2>2, Zenon
<1>7. CASE o.key \in KeySet /\ p # KeySet
  <2>1. r.st = [t EXCEPT !.prepared[o.session] = p] /\ r.acts = {}
    BY <1>1, <1>2, <1>7, Zenon DEF BySetTrigger, Outcome
  <2>2. \A u \in Sessions : r.st.prepared[u] = IF u = o.session THEN p ELSE t.prepared[u]
    BY <1>4, <2>1
  <2>3. \A u \in Sessions : r.st.prepared[u] =
          IF u = o.session THEN t.prepared[u] \cup {o.key} ELSE t.prepared[u]
    BY <1>2, <2>2, Zenon
  <2> QED
    BY <1>2, <1>7, <2>1, <2>3, Zenon
<1> QED
  BY <1>5, <1>6, <1>7, Zenon

\* What worker w's send of o does when its copy answers r.
SetSent(w, o, r, n) ==
  /\ \A v \in Workers, u \in Sessions : wtrig'[v].prepared[u] =
       IF v = w THEN r.st.prepared[u] ELSE wtrig[v].prepared[u]
  /\ n.obj = o /\ (n.active <=> r.acts # {})
  /\ toCoord' = [toCoord EXCEPT ![w] = Append(@, n)]
  /\ taken' = taken \cup {o}
  /\ \/ r.acts = {} /\ fires' = fires
     \/ \E a \in SUBSET Object :
          r.acts = {a} /\ fires' = Append(fires, [site |-> "worker", args |-> a])

\* A worker that takes an object in, for a BY_SET trigger.
LEMMA SetSendEffect ==
  ASSUME SyncTyped, CallsTyped, CallsListed, kind = "BY_SET",
         NEW w \in Workers, NEW o \in Object, SendObject(w, o), w \in registered
  PROVE  \E r \in action_for_new_object("BY_SET", wtrig[w], o) : \E n \in Notice : SetSent(w, o, r, n)
<1>1. kind \in Plain
  BY Zenon DEF Plain
<1>2. PICK r \in WorkerActions(w, o) :
         /\ wtrig' = [wtrig EXCEPT ![w] = r.st]
         /\ toCoord' = [toCoord EXCEPT ![w] = Append(@, [obj |-> o, active |-> r.acts # {}])]
         /\ taken' = taken \cup {o}
         /\ \/ r.acts = {} /\ fires' = fires
            \/ \E a \in SUBSET Object :
                 r.acts = {a} /\ fires' = Append(fires, [site |-> "worker", args |-> a])
  BY <1>1, SendEffect, Zenon
<1>3. r \in action_for_new_object("BY_SET", wtrig[w], o)
  BY <1>2, Zenon DEF WorkerActions
<1>4. PICK n : n = [obj |-> o, active |-> r.acts # {}]
  BY Zenon
<1>5. n \in Notice /\ n.obj = o /\ (n.active <=> r.acts # {})
  BY <1>4, Zenon DEF Notice
<1>6. toCoord' = [toCoord EXCEPT ![w] = Append(@, n)]
  BY <1>2, <1>4, Zenon
<1>7. \A v \in Workers : wtrig'[v] = IF v = w THEN r.st ELSE wtrig[v]
  BY <1>2, Zenon DEF SyncTyped
<1>8. \A v \in Workers, u \in Sessions : wtrig'[v].prepared[u] =
        IF v = w THEN r.st.prepared[u] ELSE wtrig[v].prepared[u]
  BY <1>7, Zenon
<1>9. SetSent(w, o, r, n)
  BY <1>2, <1>5, <1>6, <1>8, Zenon DEF SetSent
<1> QED
  BY <1>3, <1>5, <1>9, Zenon

\* A session that was called is still covered by the notices when a worker
\* has taken in another object and called no one for it.
LEMMA ActiveKept ==
  ASSUME SyncTyped, ActiveLast, NEW w \in Workers, NEW n \in Notice,
         toCoord' = [toCoord EXCEPT ![w] = Append(@, n)], handled' = handled,
         NEW s \in Sessions, HasFired(s), ~(Objs(s, KeySet) \subseteq handled)
  PROVE  \E v \in Workers : \E i \in 1..Len(toCoord'[v]) :
           /\ toCoord'[v][i].active
           /\ toCoord'[v][i].obj \in Objs(s, KeySet)
           /\ \A o \in Objs(s, KeySet) : o \in handled' \/ \E j \in 1..i : toCoord'[v][j].obj = o
<1>0. PICK v \in Workers : \E i \in 1..Len(toCoord[v]) :
        /\ toCoord[v][i].active
        /\ toCoord[v][i].obj \in Objs(s, KeySet)
        /\ \A o \in Objs(s, KeySet) : o \in handled \/ \E j \in 1..i : toCoord[v][j].obj = o
  BY Zenon DEF ActiveLast
<1>1. PICK i \in 1..Len(toCoord[v]) :
        /\ toCoord[v][i].active
        /\ toCoord[v][i].obj \in Objs(s, KeySet)
        /\ \A o \in Objs(s, KeySet) : o \in handled \/ \E j \in 1..i : toCoord[v][j].obj = o
  BY <1>0, Zenon
<1>2. \A j \in 1..Len(toCoord[v]) : j \in 1..Len(toCoord'[v]) /\ toCoord'[v][j] = toCoord[v][j]
  BY SendQueue, Zenon
<1>3. Len(toCoord[v]) \in Nat
  BY DEF SyncTyped
<1>4. \A j \in 1..i : j \in 1..Len(toCoord[v])
  BY <1>1, <1>3
<1>5. \A o \in Objs(s, KeySet) : o \in handled' \/ \E j \in 1..i : toCoord'[v][j].obj = o
  BY <1>1, <1>2, <1>4, Zenon
<1> QED
  BY <1>1, <1>2, <1>5, ZenonT(40)

LEMMA SetSend ==
  ASSUME SyncTyped, CallsTyped, CallsListed, NoticesOnce, SetInv, kind = "BY_SET",
         NEW w \in Workers, NEW o \in Object, SendObject(w, o)
  PROVE  SetInv'
<1>0. ctrig' = ctrig /\ handled' = handled /\ o \notin taken
  BY Zenon DEF SendObject, NoticesOnce
<1>1. CoordCopy'
  BY <1>0, Zenon DEF SetInv, CoordCopy
<1>2. CASE w \notin registered
  <2>1. wtrig' = wtrig /\ fires' = fires /\ toCoord' = toCoord /\ taken' = taken
    BY <1>2, Zenon DEF SendObject
  <2>2. CallsOnePerSession'
    BY <2>1, Zenon DEF SetInv, CallsOnePerSession
  <2>3. WorkerCopy'
    BY <1>0, <2>1, Zenon DEF SetInv, WorkerCopy
  <2>4. ActiveLast'
    BY <1>0, <2>1 DEF SetInv, ActiveLast, HasFired
  <2> QED
    BY <1>1, <2>2, <2>3, <2>4, Zenon DEF SetInv
<1>3. CASE w \in registered
  <2>0. PICK r \in action_for_new_object("BY_SET", wtrig[w], o) : \E n \in Notice : SetSent(w, o, r, n)
    BY <1>3, SetSendEffect, Zenon
  <2>a. PICK n \in Notice : SetSent(w, o, r, n)
    BY <2>0, Zenon
  <2>1. /\ \A v \in Workers, u \in Sessions : wtrig'[v].prepared[u] =
             IF v = w THEN r.st.prepared[u] ELSE wtrig[v].prepared[u]
        /\ n.obj = o /\ (n.active <=> r.acts # {})
        /\ toCoord' = [toCoord EXCEPT ![w] = Append(@, n)]
        /\ taken' = taken \cup {o}
        /\ \/ r.acts = {} /\ fires' = fires
           \/ \E a \in SUBSET Object :
                r.acts = {a} /\ fires' = Append(fires, [site |-> "worker", args |-> a])
    BY <2>a, Zenon DEF SetSent
  <2>2. /\ Len(toCoord[w]) \in Nat
        /\ Len(toCoord'[w]) = Len(toCoord[w]) + 1
        /\ toCoord'[w][Len(toCoord[w]) + 1] = n
        /\ \A v \in Workers : \A i \in 1..Len(toCoord[v]) :
             i \in 1..Len(toCoord'[v]) /\ toCoord'[v][i] = toCoord[v][i]
    BY <2>1, SendQueue, Zenon
  <2>3. PICK s, k : s = o.session /\ k = o.key
    BY Zenon
  <2>4. s \in Sessions /\ o = ObjectAt(s, k)
    BY <2>3, ObjectFields, Zenon DEF Object, ObjectAt
  <2>5. wtrig[w] \in TriggerState
    BY Zenon DEF SyncTyped
  <2>6. \/ /\ k \notin KeySet
           /\ r.acts = {}
           /\ \A u \in Sessions : r.st.prepared[u] = wtrig[w].prepared[u]
        \/ /\ k \in KeySet /\ wtrig[w].prepared[s] \cup {k} = KeySet
           /\ r.acts = {Objs(s, KeySet)}
           /\ \A u \in Sessions : r.st.prepared[u] = IF u = s THEN {} ELSE wtrig[w].prepared[u]
        \/ /\ k \in KeySet /\ wtrig[w].prepared[s] \cup {k} # KeySet
           /\ r.acts = {}
           /\ \A u \in Sessions : r.st.prepared[u] =
                IF u = s THEN wtrig[w].prepared[u] \cup {k} ELSE wtrig[w].prepared[u]
    <3>1. \/ /\ o.key \notin KeySet
             /\ r.acts = {}
             /\ \A u \in Sessions : r.st.prepared[u] = wtrig[w].prepared[u]
          \/ /\ o.key \in KeySet /\ wtrig[w].prepared[o.session] \cup {o.key} = KeySet
             /\ r.acts = {Objs(o.session, KeySet)}
             /\ \A u \in Sessions : r.st.prepared[u] = IF u = o.session THEN {} ELSE wtrig[w].prepared[u]
          \/ /\ o.key \in KeySet /\ wtrig[w].prepared[o.session] \cup {o.key} # KeySet
             /\ r.acts = {}
             /\ \A u \in Sessions : r.st.prepared[u] =
                    IF u = o.session THEN wtrig[w].prepared[u] \cup {o.key} ELSE wtrig[w].prepared[u]
      BY <2>5, SetActs, SMTT(30)
    <3> QED
      BY <2>3, <3>1, Zenon
  <2>7. Len(toCoord'[w]) \in 1..Len(toCoord'[w]) /\ toCoord'[w][Len(toCoord'[w])] = n
    BY <2>2
  <2>8. WorkerCopy'
    <3> SUFFICES ASSUME NEW v \in Workers, NEW u \in Sessions, NEW j \in wtrig'[v].prepared[u]
                 PROVE  \/ ObjectAt(u, j) \in handled'
                        \/ \E i \in 1..Len(toCoord'[v]) : toCoord'[v][i].obj = ObjectAt(u, j)
      BY Zenon DEF WorkerCopy
    <3>1. j \in wtrig[v].prepared[u] \/ (v = w /\ u = s /\ j = k)
      BY <2>1, <2>6, ZenonT(40)
    <3>2. CASE j \in wtrig[v].prepared[u]
      <4>1. \/ ObjectAt(u, j) \in handled
            \/ \E i \in 1..Len(toCoord[v]) : toCoord[v][i].obj = ObjectAt(u, j)
        BY <3>2, Zenon DEF SetInv, WorkerCopy
      <4> QED
        BY <1>0, <2>2, <4>1, Zenon
    <3>3. CASE v = w /\ u = s /\ j = k
      BY <2>1, <2>4, <2>7, <3>3
    <3> QED
      BY <3>1, <3>2, <3>3, Zenon
  <2>9. CASE r.acts = {}
    <3>1. fires' = fires /\ taken \subseteq taken'
      BY <2>1, <2>9, Zenon
    <3>2. CallsOnePerSession'
      BY <3>1, Zenon DEF SetInv, CallsOnePerSession
    <3>3. ActiveLast'
      <4> SUFFICES ASSUME NEW u \in Sessions, HasFired(u)', ~(Objs(u, KeySet) \subseteq handled')
                   PROVE  \E v \in Workers : \E i \in 1..Len(toCoord'[v]) :
                            /\ toCoord'[v][i].active
                            /\ toCoord'[v][i].obj \in Objs(u, KeySet)
                            /\ \A p \in Objs(u, KeySet) : p \in handled' \/ \E j \in 1..i : toCoord'[v][j].obj = p
        BY Zenon DEF ActiveLast
      <4>1. HasFired(u) /\ ~(Objs(u, KeySet) \subseteq handled) /\ ActiveLast
        BY <1>0, <3>1, Zenon DEF HasFired, SetInv
      <4> QED
        BY <1>0, <2>1, <4>1, ActiveKept, Zenon
    <3> QED
      BY <1>1, <2>8, <3>2, <3>3, Zenon DEF SetInv
  <2>10. CASE r.acts # {}
    <3>1. k \in KeySet /\ wtrig[w].prepared[s] \cup {k} = KeySet /\ r.acts = {Objs(s, KeySet)}
      BY <2>6, <2>10, Zenon
    <3>2. fires' = Append(fires, [site |-> "worker", args |-> Objs(s, KeySet)])
      BY <2>1, <3>1, Zenon
    <3>3. fires \in Seq(FireRecord)
      BY Zenon DEF CallsTyped, Plain
    <3>4. \A p \in Objs(s, KeySet) :
            p = o \/ p \in handled \/ \E i \in 1..Len(toCoord[w]) : toCoord[w][i].obj = p
      <4> SUFFICES ASSUME NEW p \in Objs(s, KeySet)
                   PROVE  p = o \/ p \in handled \/ \E i \in 1..Len(toCoord[w]) : toCoord[w][i].obj = p
        BY Zenon
      <4>1. PICK j \in KeySet : p = ObjectAt(s, j)
        BY <2>4, SessionObjects, Zenon
      <4>2. j = k \/ j \in wtrig[w].prepared[s]
        BY <3>1, <4>1, ZenonT(40)
      <4> QED
        BY <2>4, <4>1, <4>2, Zenon DEF SetInv, WorkerCopy
    <3>5. Objs(s, KeySet) \subseteq taken'
      BY <2>1, <3>4 DEF NoticesOnce
    <3>6. o \in Objs(s, KeySet) /\ ~HasFired(s)
      <4>1. o \in Objs(s, KeySet)
        BY <2>3, <2>4, <3>1, SessionObjects, Zenon
      <4> QED
        BY <1>0, <2>4, <4>1, FiredIsTaken, Zenon DEF SetInv
    <3>7. CallsOnePerSession'
      <4>1. taken \subseteq taken' /\ KeySet # {} /\ CallsOnePerSession
        BY <2>1, <3>1, Zenon DEF SetInv
      <4> QED
        BY <2>4, <3>2, <3>3, <3>5, <3>6, <4>1, OneMoreSession, Zenon
    <3>8. ActiveLast'
      <4> SUFFICES ASSUME NEW u \in Sessions, HasFired(u)', ~(Objs(u, KeySet) \subseteq handled')
                   PROVE  \E v \in Workers : \E i \in 1..Len(toCoord'[v]) :
                            /\ toCoord'[v][i].active
                            /\ toCoord'[v][i].obj \in Objs(u, KeySet)
                            /\ \A p \in Objs(u, KeySet) : p \in handled' \/ \E j \in 1..i : toCoord'[v][j].obj = p
        BY Zenon DEF ActiveLast
      <4>1. CASE u # s
        <5>1. HasFired(u) /\ ~(Objs(u, KeySet) \subseteq handled) /\ ActiveLast
          BY <1>0, <2>4, <3>2, <3>3, <4>1, OtherSessions, Zenon DEF SetInv
        <5> QED
          BY <1>0, <2>1, <5>1, ActiveKept, Zenon
      <4>2. CASE u = s
        <5>1. PICK i : i = Len(toCoord'[w])
          BY Zenon
        <5>2. i \in 1..Len(toCoord'[w]) /\ toCoord'[w][i] = n /\ n.active /\ n.obj = o
          BY <2>1, <2>7, <2>10, <5>1, Zenon
        <5>3. \A j \in 1..Len(toCoord[w]) : j \in 1..i
          BY <2>2, <5>1, Zenon
        <5>4. i \in 1..i
          BY <2>2, <5>1
        <5>5. \A p \in Objs(s, KeySet) : p \in handled' \/ \E j \in 1..i : toCoord'[w][j].obj = p
          <6> SUFFICES ASSUME NEW p \in Objs(s, KeySet), p \notin handled'
                       PROVE  \E j \in 1..i : toCoord'[w][j].obj = p
            BY Zenon
          <6>1. CASE p = o
            BY <5>2, <5>4, <6>1, Zenon
          <6>2. CASE \E j \in 1..Len(toCoord[w]) : toCoord[w][j].obj = p
            BY <2>2, <5>3, <6>2, Zenon
          <6>3. p \notin handled
            BY <1>0, Zenon
          <6> QED
            BY <3>4, <6>1, <6>2, <6>3, Zenon
        <5> QED
          BY <3>6, <4>2, <5>2, <5>5, Zenon
      <4> QED
        BY <4>1, <4>2, Zenon
    <3> QED
      BY <1>1, <2>8, <3>7, <3>8, Zenon DEF SetInv
  <2> QED
    BY <2>9, <2>10, Zenon
<1> QED
  BY <1>2, <1>3, Zenon
\* What RecvNotify does for a BY_SET trigger when the coordinator's copy
\* answers r to the object o of the notice at the head of w's queue.
SetNotified(w, o, r) ==
  /\ ctrig' = r.st
  /\ \/ (toCoord[w][1].active \/ r.acts = {}) /\ fires' = fires
     \/ /\ ~toCoord[w][1].active
        /\ \E a \in SUBSET Object, x \in {"coord", "dropped"} :
             r.acts = {a} /\ fires' = Append(fires, [site |-> x, args |-> a])

LEMMA SetNotifyEffect ==
  ASSUME SyncTyped, CallsTyped, CallsListed, kind = "BY_SET", NEW w \in Workers, RecvNotify(w)
  PROVE  \E r \in action_for_new_object("BY_SET", ctrig, toCoord[w][1].obj) :
           SetNotified(w, toCoord[w][1].obj, r)
<1>1. kind \in Plain
  BY Zenon DEF Plain
<1>2. \E r \in action_for_new_object(kind, ctrig, toCoord[w][1].obj) :
           /\ ctrig' = r.st
           /\ \/ (toCoord[w][1].active \/ r.acts = {}) /\ fires' = fires
              \/ /\ ~toCoord[w][1].active
                 /\ \E a \in SUBSET Object, x \in {"coord", "dropped"} :
                      r.acts = {a} /\ fires' = Append(fires, [site |-> x, args |-> a])
  BY <1>1, NotifyEffect, Zenon
<1> QED
  BY <1>2, Zenon DEF SetNotified

\* The coordinator's copy after it has been fed an object it had not handled.
LEMMA CoordCopyKept ==
  ASSUME SyncTyped, CoordCopy, NEW o \in Object, o \notin handled, handled' = handled \cup {o},
         NEW r \in action_for_new_object("BY_SET", ctrig, o), ctrig' = r.st
  PROVE  /\ CoordCopy'
         /\ r.acts # {} => /\ o.key \in KeySet /\ r.acts = {Objs(o.session, KeySet)}
                           /\ Objs(o.session, KeySet) \subseteq handled'
<1>1. PICK s, k : s = o.session /\ k = o.key
  BY Zenon
<1>2. s \in Sessions /\ o = ObjectAt(s, k) /\ ctrig \in TriggerState
  BY <1>1, ObjectFields, Zenon DEF Object, ObjectAt, SyncTyped
<1>3. \/ /\ k \notin KeySet
         /\ r.acts = {}
         /\ \A u \in Sessions : r.st.prepared[u] = ctrig.prepared[u]
      \/ /\ k \in KeySet /\ ctrig.prepared[s] \cup {k} = KeySet
         /\ r.acts = {Objs(s, KeySet)}
         /\ \A u \in Sessions : r.st.prepared[u] = IF u = s THEN {} ELSE ctrig.prepared[u]
      \/ /\ k \in KeySet /\ ctrig.prepared[s] \cup {k} # KeySet
         /\ r.acts = {}
         /\ \A u \in Sessions : r.st.prepared[u] =
              IF u = s THEN ctrig.prepared[u] \cup {k} ELSE ctrig.prepared[u]
  <2>1. \/ /\ o.key \notin KeySet
           /\ r.acts = {}
           /\ \A u \in Sessions : r.st.prepared[u] = ctrig.prepared[u]
        \/ /\ o.key \in KeySet /\ ctrig.prepared[o.session] \cup {o.key} = KeySet
           /\ r.acts = {Objs(o.session, KeySet)}
           /\ \A u \in Sessions : r.st.prepared[u] = IF u = o.session THEN {} ELSE ctrig.prepared[u]
        \/ /\ o.key \in KeySet /\ ctrig.prepared[o.session] \cup {o.key} # KeySet
           /\ r.acts = {}
           /\ \A u \in Sessions : r.st.prepared[u] =
                IF u = o.session THEN ctrig.prepared[u] \cup {o.key} ELSE ctrig.prepared[u]
    BY <1>2, SetActs, SMTT(30)
  <2> QED
    BY <1>1, <2>1, Zenon
<1>4. \A u \in Sessions, j \in KeySet : ObjectAt(u, j) = o <=> u = s /\ j = k
  BY <1>2, Zenon DEF ObjectAt
<1>5. \A u \in Sessions : Objs(u, KeySet) \subseteq handled <=> \A j \in KeySet : ObjectAt(u, j) \in handled
  BY SessionObjects, Zenon
<1>6. \A u \in Sessions : Objs(u, KeySet) \subseteq handled' <=> \A j \in KeySet : ObjectAt(u, j) \in handled'
  BY SessionObjects
<1>7. \A u \in Sessions, j \in KeySet :
        ObjectAt(u, j) \in handled' <=> ObjectAt(u, j) \in handled \/ (u = s /\ j = k)
  BY <1>4, Zenon
<1>8. \A u \in Sessions :
        ctrig.prepared[u] = IF Objs(u, KeySet) \subseteq handled THEN {}
                            ELSE {j \in KeySet : ObjectAt(u, j) \in handled}
  BY Zenon DEF CoordCopy
<1>9. k \in KeySet => /\ ~(Objs(s, KeySet) \subseteq handled)
                      /\ ctrig.prepared[s] = {j \in KeySet : ObjectAt(s, j) \in handled}
                      /\ ctrig.prepared[s] \cup {k} = {j \in KeySet : ObjectAt(s, j) \in handled'}
  <2> SUFFICES ASSUME k \in KeySet
               PROVE  /\ ~(Objs(s, KeySet) \subseteq handled)
                      /\ ctrig.prepared[s] = {j \in KeySet : ObjectAt(s, j) \in handled}
                      /\ ctrig.prepared[s] \cup {k} = {j \in KeySet : ObjectAt(s, j) \in handled'}
    BY Zenon
  <2>1. ~(Objs(s, KeySet) \subseteq handled)
    BY <1>2, <1>5, Zenon
  <2>2. ctrig.prepared[s] = {j \in KeySet : ObjectAt(s, j) \in handled}
    BY <1>2, <1>8, <2>1, Zenon
  <2>3. ctrig.prepared[s] \cup {k} = {j \in KeySet : ObjectAt(s, j) \in handled'}
    BY <1>2, <1>7, <2>2, Zenon
  <2> QED
    BY <2>1, <2>2, <2>3, Zenon
<1>10. r.acts # {} => /\ k \in KeySet /\ r.acts = {Objs(s, KeySet)}
                      /\ Objs(s, KeySet) \subseteq handled'
  BY <1>2, <1>3, <1>6, <1>9, Zenon
<1>11. ASSUME NEW u \in Sessions
       PROVE  ctrig'.prepared[u] = IF Objs(u, KeySet) \subseteq handled' THEN {}
                                   ELSE {j \in KeySet : ObjectAt(u, j) \in handled'}
  <2>1. CASE u # s \/ k \notin KeySet
    <3>1. r.st.prepared[u] = ctrig.prepared[u]
      BY <1>3, <2>1, Zenon
    <3>2. \A j \in KeySet : ObjectAt(u, j) \in handled' <=> ObjectAt(u, j) \in handled
      BY <1>7, <2>1, Zenon
    <3>3. Objs(u, KeySet) \subseteq handled' <=> Objs(u, KeySet) \subseteq handled
      BY <1>5, <1>6, <3>2, Zenon
    <3>4. {j \in KeySet : ObjectAt(u, j) \in handled'} = {j \in KeySet : ObjectAt(u, j) \in handled}
      BY <3>2, Zenon
    <3> QED
      BY <1>8, <3>1, <3>3, <3>4, Zenon
  <2>2. CASE u = s /\ k \in KeySet
    <3>1. Objs(s, KeySet) \subseteq handled' <=> ctrig.prepared[s] \cup {k} = KeySet
      BY <1>2, <1>6, <1>9, <2>2, Zenon
    <3>2. CASE ctrig.prepared[s] \cup {k} = KeySet
      BY <1>3, <2>2, <3>1, <3>2, Zenon
    <3>3. CASE ctrig.prepared[s] \cup {k} # KeySet
      <4>1. r.st.prepared[u] = ctrig.prepared[s] \cup {k}
        BY <1>3, <2>2, <3>3, Zenon
      <4> QED
        BY <1>9, <2>2, <3>1, <3>3, <4>1, Zenon
    <3> QED
      BY <3>2, <3>3, Zenon
  <2> QED
    BY <2>1, <2>2, Zenon
<1>12. CoordCopy'
  BY <1>11, Zenon DEF CoordCopy
<1> QED
  BY <1>1, <1>10, <1>12, Zenon

\* RecvNotify keeps the session bookkeeping: the coordinator calls a session
\* only where no worker has.
LEMMA SetNotify ==
  ASSUME SyncTyped, CallsTyped, CallsListed, NoticesOnce, SetInv, kind = "BY_SET",
         NEW w \in Workers, RecvNotify(w)
  PROVE  SetInv'
<1>1. PICK o : o = toCoord[w][1].obj
  BY Zenon
<1>2. /\ 1 \in 1..Len(toCoord[w]) /\ Len(toCoord[w]) \in Nat /\ toCoord[w][1] \in Notice
      /\ handled' = handled \cup {o}
      /\ \A v \in Workers : v # w => toCoord'[v] = toCoord[v]
      /\ Len(toCoord'[w]) = Len(toCoord[w]) - 1
      /\ \A i \in 1..Len(toCoord'[w]) : toCoord'[w][i] = toCoord[w][i + 1]
  BY <1>1, NotifyQueue
<1>3. o \in Object /\ o \in taken /\ o \notin handled
  BY <1>1, <1>2, Zenon DEF Notice, NoticesOnce
<1>4. wtrig' = wtrig /\ taken' = taken
  BY Zenon DEF RecvNotify
<1>5. PICK r \in action_for_new_object("BY_SET", ctrig, o) : SetNotified(w, o, r)
  BY <1>1, SetNotifyEffect, Zenon
<1>6. ctrig' = r.st
  BY <1>5, Zenon DEF SetNotified
<1>7. /\ CoordCopy'
      /\ r.acts # {} => /\ o.key \in KeySet /\ r.acts = {Objs(o.session, KeySet)}
                        /\ Objs(o.session, KeySet) \subseteq handled'
  BY <1>2, <1>3, <1>6, CoordCopyKept, Zenon DEF SetInv
<1>8. \A i \in 1..Len(toCoord[w]) :
        i = 1 \/ (i - 1 \in 1..Len(toCoord'[w]) /\ toCoord'[w][i - 1] = toCoord[w][i])
  BY <1>2
<1>9. WorkerCopy'
  <2> SUFFICES ASSUME NEW v \in Workers, NEW u \in Sessions, NEW j \in wtrig'[v].prepared[u]
               PROVE  \/ ObjectAt(u, j) \in handled'
                      \/ \E i \in 1..Len(toCoord'[v]) : toCoord'[v][i].obj = ObjectAt(u, j)
    BY Zenon DEF WorkerCopy
  <2>1. \/ ObjectAt(u, j) \in handled
        \/ \E i \in 1..Len(toCoord[v]) : toCoord[v][i].obj = ObjectAt(u, j)
    <3>1. j \in wtrig[v].prepared[u]
      BY <1>4, Zenon
    <3> QED
      BY <3>1, Zenon DEF SetInv, WorkerCopy
  <2>2. CASE ObjectAt(u, j) \in handled
    BY <1>2, <2>2, Zenon
  <2>3. CASE \E i \in 1..Len(toCoord[v]) : toCoord[v][i].obj = ObjectAt(u, j)
    <3>1. PICK i \in 1..Len(toCoord[v]) : toCoord[v][i].obj = ObjectAt(u, j)
      BY <2>3, Zenon
    <3>2. CASE v # w
      BY <1>2, <3>1, <3>2, Zenon
    <3>3. CASE v = w /\ i = 1
      BY <1>1, <1>2, <3>1, <3>3, Zenon
    <3>4. CASE v = w /\ i # 1
      BY <1>8, <3>1, <3>4, Zenon
    <3> QED
      BY <3>2, <3>3, <3>4, Zenon
  <2> QED
    BY <2>1, <2>2, <2>3, Zenon
<1>10. ASSUME NEW u \in Sessions, HasFired(u), ~(Objs(u, KeySet) \subseteq handled')
       PROVE  \E v \in Workers : \E i \in 1..Len(toCoord'[v]) :
                /\ toCoord'[v][i].active
                /\ toCoord'[v][i].obj \in Objs(u, KeySet)
                /\ \A p \in Objs(u, KeySet) : p \in handled' \/ \E j \in 1..i : toCoord'[v][j].obj = p
  <2>1. ~(Objs(u, KeySet) \subseteq handled)
    BY <1>2, <1>10, Zenon
  <2>2. PICK v \in Workers : \E i \in 1..Len(toCoord[v]) :
           /\ toCoord[v][i].active
           /\ toCoord[v][i].obj \in Objs(u, KeySet)
           /\ \A p \in Objs(u, KeySet) : p \in handled \/ \E j \in 1..i : toCoord[v][j].obj = p
    BY <1>10, <2>1, Zenon DEF SetInv, ActiveLast
  <2>3. PICK i \in 1..Len(toCoord[v]) :
           /\ toCoord[v][i].active
           /\ toCoord[v][i].obj \in Objs(u, KeySet)
           /\ \A p \in Objs(u, KeySet) : p \in handled \/ \E j \in 1..i : toCoord[v][j].obj = p
    BY <2>2, Zenon
  <2>4. CASE v # w
    <3>1. toCoord'[v] = toCoord[v]
      BY <1>2, <2>4, Zenon
    <3>2. \A p \in handled : p \in handled'
      BY <1>2, Zenon
    <3>3. i \in 1..Len(toCoord'[v])
      BY <2>3, <3>1, Zenon
    <3>4. /\ toCoord'[v][i].active
          /\ toCoord'[v][i].obj \in Objs(u, KeySet)
          /\ \A p \in Objs(u, KeySet) : p \in handled' \/ \E j \in 1..i : toCoord'[v][j].obj = p
      BY <2>3, <3>1, <3>2, Zenon
    <3> QED
      BY <3>3, <3>4, Zenon
  <2>5. CASE v = w
    <3>1. i # 1
      <4> SUFFICES ASSUME i = 1
                   PROVE  FALSE
        BY Zenon
      <4>1. \A p \in Objs(u, KeySet) : p \in handled \/ p = o
        BY <1>1, <2>3, <2>5
      <4> QED
        BY <1>2, <1>10, <4>1, Zenon
    <3>2. i - 1 \in 1..Len(toCoord'[w]) /\ toCoord'[w][i - 1] = toCoord[w][i]
      BY <1>8, <2>3, <2>5, <3>1, Zenon
    <3>3. \A j \in 1..i : j = 1 \/ (j - 1 \in 1..(i - 1) /\ toCoord'[w][j - 1] = toCoord[w][j])
      BY <1>2, <1>8, <2>3, <2>5
    <3>4. \A p \in Objs(u, KeySet) : p \in handled' \/ \E j \in 1..(i - 1) : toCoord'[w][j].obj = p
      <4> SUFFICES ASSUME NEW p \in Objs(u, KeySet)
                   PROVE  p \in handled' \/ \E j \in 1..(i - 1) : toCoord'[w][j].obj = p
        BY Zenon
      <4>1. p \in handled \/ \E j \in 1..i : toCoord[w][j].obj = p
        BY <2>3, <2>5, Zenon
      <4>2. CASE p \in handled
        BY <1>2, <4>2, Zenon
      <4>3. CASE \E j \in 1..i : toCoord[w][j].obj = p
        <5>1. PICK j \in 1..i : toCoord[w][j].obj = p
          BY <4>3, Zenon
        <5>2. CASE j = 1
          BY <1>1, <1>2, <5>1, <5>2, Zenon
        <5>3. CASE j # 1
          BY <3>3, <5>1, <5>3, Zenon
        <5> QED
          BY <5>2, <5>3, Zenon
      <4> QED
        BY <4>1, <4>2, <4>3, Zenon
    <3> QED
      BY <2>3, <2>5, <3>2, <3>4, Zenon
  <2> QED
    BY <2>4, <2>5, Zenon
<1>11. CASE fires' = fires
  <2>1. CallsOnePerSession'
    BY <1>4, <1>11, Zenon DEF SetInv, CallsOnePerSession
  <2>2. \A u \in Sessions : HasFired(u)' => HasFired(u)
    BY <1>11, Zenon DEF HasFired
  <2>3. ActiveLast'
    BY <1>10, <2>2, Zenon DEF ActiveLast
  <2> QED
    BY <1>7, <1>9, <2>1, <2>3, Zenon DEF SetInv
<1>12. CASE fires' # fires
  <2>1. PICK x : /\ ~toCoord[w][1].active
                 /\ r.acts # {}
                 /\ \E a \in SUBSET Object :
                      r.acts = {a} /\ fires' = Append(fires, [site |-> x, args |-> a])
    <3>1. /\ ~toCoord[w][1].active
          /\ \E a \in SUBSET Object, x \in {"coord", "dropped"} :
               r.acts = {a} /\ fires' = Append(fires, [site |-> x, args |-> a])
      BY <1>5, <1>12, Zenon DEF SetNotified
    <3>2. PICK a \in SUBSET Object, x \in {"coord", "dropped"} :
               r.acts = {a} /\ fires' = Append(fires, [site |-> x, args |-> a])
      BY <3>1, Zenon
    <3>3. r.acts # {}
      BY <3>2, Zenon
    <3> QED
      BY <3>1, <3>2, <3>3, Zenon
  <2>2. PICK s \in Sessions : s = o.session
    BY <1>3, ObjectFields, Zenon
  <2>3. o.key \in KeySet /\ r.acts = {Objs(s, KeySet)} /\ Objs(s, KeySet) \subseteq handled'
    BY <1>7, <2>1, <2>2, Zenon
  <2>4. fires' = Append(fires, [site |-> x, args |-> Objs(s, KeySet)])
    BY <2>1, <2>3, Zenon
  <2>5. o \in Objs(s, KeySet)
    BY <1>3, <2>2, <2>3, SessionObjects, Zenon
  <2>6. ~HasFired(s)
    <3> SUFFICES ASSUME HasFired(s)
                 PROVE  FALSE
      BY Zenon
    <3>1. ~(Objs(s, KeySet) \subseteq handled)
      BY <1>3, <2>5, Zenon
    <3>2. PICK v \in Workers : \E i \in 1..Len(toCoord[v]) :
             /\ toCoord[v][i].active
             /\ toCoord[v][i].obj \in Objs(s, KeySet)
      BY <3>1, Zenon DEF SetInv, ActiveLast
    <3>3. PICK i \in 1..Len(toCoord[v]) :
             /\ toCoord[v][i].active
             /\ toCoord[v][i].obj \in Objs(s, KeySet)
      BY <3>2, Zenon
    <3>4. toCoord[v][i].obj \notin handled
      BY <3>3, Zenon DEF NoticesOnce
    <3>5. toCoord[v][i].obj = toCoord[w][1].obj
      BY <1>1, <1>2, <2>3, <3>3, <3>4, Zenon
    <3>6. v = w /\ i = 1
      BY <1>2, <3>3, <3>5 DEF NoticesOnce
    <3> QED
      BY <2>1, <3>3, <3>6, Zenon
  <2>7. fires \in Seq(FireRecord)
    BY Zenon DEF CallsTyped, Plain
  <2>8. taken \subseteq taken' /\ Objs(s, KeySet) \subseteq taken' /\ KeySet # {}
    BY <1>2, <1>3, <1>4, <2>3, Zenon DEF NoticesOnce
  <2>9. CallsOnePerSession'
    BY <2>4, <2>6, <2>7, <2>8, OneMoreSession, Zenon DEF SetInv
  <2>10. \A u \in Sessions : u # s => (HasFired(u)' <=> HasFired(u))
    BY <2>4, <2>7, OtherSessions, Zenon
  <2>11. ActiveLast'
    BY <1>10, <2>3, <2>10, Zenon DEF ActiveLast
  <2> QED
    BY <1>7, <1>9, <2>9, <2>11, Zenon DEF SetInv
<1> QED
  BY <1>11, <1>12, Zenon

\* A worker that registers or clears its copy only forgets keys.
LEMMA SetUpdate ==
  ASSUME SyncTyped, SetInv, kind = "BY_SET", NEW w \in Workers, RecvUpdate(w)
  PROVE  SetInv'
<1>1. /\ fires' = fires /\ taken' = taken /\ ctrig' = ctrig /\ handled' = handled
      /\ toCoord' = toCoord
  BY Zenon DEF RecvUpdate
<1>2. PICK m : m = Head(toWorker[w])
  BY Zenon
<1>3. m \in Update /\ ApplyUpdate(w, m)
  BY <1>2 DEF SyncTyped, RecvUpdate
<1>4. \A v \in Workers, u \in Sessions : wtrig'[v].prepared[u] \subseteq wtrig[v].prepared[u]
  <2>1. CASE m.type = "register"
    <3>1. wtrig' = [wtrig EXCEPT ![w] = NewTrigger]
      BY <1>3, <2>1, Zenon DEF ApplyUpdate
    <3>2. \A v \in Workers : wtrig'[v] = IF v = w THEN NewTrigger ELSE wtrig[v]
      BY <3>1, Zenon DEF SyncTyped
    <3>3. \A u \in Sessions : NewTrigger.prepared[u] = {}
      BY Zenon DEF NewTrigger
    <3> QED
      BY <3>2, <3>3, Zenon
  <2>2. CASE m.type = "clear"
    <3>1. m.session \in Sessions
      BY <1>3, <2>2, Zenon DEF Update
    <3>2. wtrig' = [wtrig EXCEPT ![w] = [wtrig[w] EXCEPT !.prepared[m.session] = {}]]
      BY <1>3, <2>2, Zenon DEF ApplyUpdate, clear
    <3>3. PICK t : t = [wtrig[w] EXCEPT !.prepared[m.session] = {}]
      BY Zenon
    <3>4. \A v \in Workers : wtrig'[v] = IF v = w THEN t ELSE wtrig[v]
      BY <3>2, <3>3, Zenon DEF SyncTyped
    <3>5. \A u \in Sessions : t.prepared[u] \subseteq wtrig[w].prepared[u]
      <4>1. wtrig[w] \in TriggerState
        BY Zenon DEF SyncTyped
      <4> QED
        BY <3>1, <3>3, <4>1, Zenon DEF TriggerState
    <3> QED
      BY <3>4, <3>5, Zenon
  <2> QED
    BY <1>3, <2>1, <2>2, Zenon DEF Update
<1>5. WorkerCopy'
  <2> SUFFICES ASSUME NEW v \in Workers, NEW u \in Sessions, NEW j \in wtrig'[v].prepared[u]
               PROVE  \/ ObjectAt(u, j) \in handled'
                      \/ \E i \in 1..Len(toCoord'[v]) : toCoord'[v][i].obj = ObjectAt(u, j)
    BY Zenon DEF WorkerCopy
  <2>1. j \in wtrig[v].prepared[u]
    BY <1>4, Zenon
  <2>2. \/ ObjectAt(u, j) \in handled
        \/ \E i \in 1..Len(toCoord[v]) : toCoord[v][i].obj = ObjectAt(u, j)
    BY <2>1, Zenon DEF SetInv, WorkerCopy
  <2> QED
    BY <1>1, <2>2, Zenon
<1>6. CallsOnePerSession'
  BY <1>1, Zenon DEF SetInv, CallsOnePerSession
<1>7. CoordCopy'
  BY <1>1, Zenon DEF SetInv, CoordCopy
<1>8. ActiveLast'
  BY <1>1 DEF SetInv, ActiveLast, HasFired
<1> QED
  BY <1>5, <1>6, <1>7, <1>8, Zenon DEF SetInv

LEMMA SetInit ==
  ASSUME SyncInit
  PROVE  SetInv
<1>1. /\ fires = <<>> /\ Len(fires) = 0 /\ handled = {} /\ ctrig = NewTrigger
      /\ wtrig = [w \in Workers |-> NewTrigger]
  BY Zenon DEF SyncInit
<1>2. \A u \in Sessions : NewTrigger.prepared[u] = {}
  BY Zenon DEF NewTrigger
<1>3. CallsOnePerSession
  BY <1>1 DEF CallsOnePerSession
<1>4. WorkerCopy
  BY <1>1, <1>2, Zenon DEF WorkerCopy
<1>5. CoordCopy
  <2> SUFFICES ASSUME NEW s \in Sessions
               PROVE  ctrig.prepared[s] = IF Objs(s, KeySet) \subseteq handled THEN {}
                                          ELSE {k \in KeySet : ObjectAt(s, k) \in handled}
    BY Zenon DEF CoordCopy
  <2>1. {k \in KeySet : ObjectAt(s, k) \in handled} = {}
    BY <1>1, Zenon
  <2> QED
    BY <1>1, <1>2, <2>1, Zenon
<1>6. ActiveLast
  <2>1. \A s \in Sessions : ~HasFired(s)
    BY <1>1 DEF HasFired
  <2> QED
    BY <2>1, Zenon DEF ActiveLast
<1> QED
  BY <1>3, <1>4, <1>5, <1>6, Zenon DEF SetInv

LEMMA SetStep ==
  ASSUME SyncTyped, CallsTyped, CallsListed, NoticesOnce, kind = "BY_SET" => SetInv,
         [SyncNext]_syncVars
  PROVE  (kind = "BY_SET" => SetInv)'
<1>0. kind' = kind
  BY Zenon DEF SyncNext, SendObject, RecvUpdate, RecvNotify, syncVars
<1> SUFFICES ASSUME kind = "BY_SET", SetInv
             PROVE  SetInv'
  BY <1>0, Zenon
<1>1. CASE UNCHANGED syncVars
  <2>1. /\ fires' = fires /\ taken' = taken /\ ctrig' = ctrig /\ handled' = handled
        /\ toCoord' = toCoord /\ wtrig' = wtrig
    BY <1>1, Zenon DEF syncVars
  <2>2. CallsOnePerSession' /\ CoordCopy'
    BY <2>1, Zenon DEF SetInv, CallsOnePerSession, CoordCopy
  <2>3. WorkerCopy' /\ ActiveLast'
    BY <2>1 DEF SetInv, WorkerCopy, ActiveLast, HasFired
  <2> QED
    BY <2>2, <2>3, Zenon DEF SetInv
<1> QED
  BY <1>1, SetSend, SetUpdate, SetNotify, Zenon DEF SyncNext

\* A session's objects are arguments of one call only.
LEMMA SetAtMostOnce ==
  ASSUME CallsOnePerSession
  PROVE  AtMostOnce
<1> SUFFICES ASSUME NEW i \in 1..Len(fires), NEW j \in 1..Len(fires), i # j,
                    NEW o \in fires[i].args, o \in fires[j].args
             PROVE  FALSE
  BY Zenon DEF AtMostOnce
<1>1. PICK s \in Sessions : fires[i].args = Objs(s, KeySet)
  BY Zenon DEF CallsOnePerSession
<1>2. PICK u \in Sessions : fires[j].args = Objs(u, KeySet)
  BY Zenon DEF CallsOnePerSession
<1>3. s = u
  BY <1>1, <1>2, SessionObjects
<1> QED
  BY <1>1, <1>2, <1>3, Zenon DEF CallsOnePerSession

-----------------------------------------------------------------------------
(* The theorems.                                                           *)

INSTANCE FiniteSetTheorems

\* Listing lists no call and a single call as one expects.
LEMMA CallsAreListed == CallsListed
<1>1. ASSUME NEW site PROVE CallsAt(site, {}) = <<>>
  <2>1. PICK S : S = {[site |-> site[a], args |-> a] : a \in {}}
    BY Zenon
  <2>2. S = {} /\ Cardinality(S) = 0
    BY <2>1, FS_EmptySet, Zenon
  <2>3. <<>> \in [1..Cardinality(S) -> S] /\ IsInjective(<<>>)
    BY <2>2 DEF IsInjective
  <2>4. Listing(S) \in [1..Cardinality(S) -> S]
    BY <2>3, Zenon DEF Listing
  <2> QED
    BY <2>1, <2>2, <2>4 DEF CallsAt
<1>2. ASSUME NEW site, NEW b PROVE CallsAt(site, {b}) = <<[site |-> site[b], args |-> b]>>
  <2>1. PICK c : c = [site |-> site[b], args |-> b]
    BY Zenon
  <2>2. {[site |-> site[a], args |-> a] : a \in {b}} = {c}
    BY <2>1, Zenon
  <2>3. Cardinality({c}) = 1
    BY FS_Singleton, Zenon
  <2>4. <<c>> \in [1..Cardinality({c}) -> {c}] /\ IsInjective(<<c>>)
    BY <2>3 DEF IsInjective
  <2>5. Listing({c}) \in [1..Cardinality({c}) -> {c}]
    BY <2>4, Zenon DEF Listing
  <2>6. Listing({c}) = <<c>>
    BY <2>3, <2>5
  <2> QED
    BY <2>1, <2>2, <2>6, Zenon DEF CallsAt
<1> QED
  BY <1>1, <1>2, Zenon DEF CallsListed

SyncInv == SyncTyped /\ CallsTyped /\ NoticesOnce /\ PointInv /\ TimeInv /\ (kind = "BY_SET" => SetInv)

LEMMA SyncInvInit ==
  ASSUME SyncInit
  PROVE  SyncInv
<1>1. Len(fires) = 0 /\ ctrig.buffer = <<>> /\ \A w \in Workers : Len(toCoord[w]) = 0
  BY Zenon DEF SyncInit, NewTrigger
<1>2. AtMostOnce
  BY <1>1 DEF AtMostOnce
<1>3. PointInv
  BY <1>1, <1>2 DEF PointInv
<1>4. Range(<<>>) = {}
  BY DEF Range
<1>5. TimeInv
  BY <1>1, <1>2, <1>4 DEF TimeInv
<1> QED
  BY <1>3, <1>5, TypesInit, CallsTypedInit, NoticesOnceInit, SetInit, Zenon DEF SyncInv

LEMMA SyncInvStep ==
  ASSUME SyncInv, [SyncNext]_syncVars
  PROVE  SyncInv'
<1>1. SyncTyped' /\ CallsTyped' /\ NoticesOnce'
  BY CallsAreListed, TypesStep, CallsTypedStep, NoticesOnceStep, Zenon DEF SyncInv
<1>2. PointInv' /\ TimeInv' /\ (kind = "BY_SET" => SetInv)'
  BY CallsAreListed, PointStep, TimeStep, SetStep, Zenon DEF SyncInv
<1> QED
  BY <1>1, <1>2, Zenon DEF SyncInv

LEMMA SyncAlways == SyncSpec => []SyncInv
<1>1. SyncInit => SyncInv
  BY SyncInvInit, Zenon
<1>2. SyncInv /\ [SyncNext]_syncVars => SyncInv'
  BY SyncInvStep, Zenon
<1> QED
  BY <1>1, <1>2, PTL DEF SyncSpec

\* For the primitives IMMEDIATE, BY_NAME, BY_SET and BY_TIME no object is an
\* argument of two calls, whatever workers make the objects and however the
\* notices and the clear messages are delayed: check_trigger on the worker and
\* notify_handler on the coordinator never both call for it.
THEOREM NoObjectIsPassedTwice == SyncSpec => [](kind \in Plain => AtMostOnce)
<1>1. SyncInv => (kind \in Plain => AtMostOnce)
  BY SetAtMostOnce, Zenon DEF SyncInv, Plain, PointInv, TimeInv, SetInv
<1> QED
  BY <1>1, SyncAlways, PTL

\* A call that is added to the calls is the first one for its session.
LEMMA SessionStep ==
  ASSUME fires \in Seq(FireRecord), CallsOnePerSession, CallsOnePerSession',
         NEW s \in Sessions, NEW x, fires' = Append(fires, [site |-> x, args |-> Objs(s, KeySet)])
  PROVE  Objs(s, KeySet) \subseteq taken' /\ ~HasFired(s) /\ HasFired(s)'
<1>1. PICK c : c = [site |-> x, args |-> Objs(s, KeySet)]
  BY Zenon
<1>2. c.args = Objs(s, KeySet) /\ fires' = Append(fires, c)
  BY <1>1, Zenon
<1>3. /\ Len(fires') = Len(fires) + 1 /\ Len(fires) \in Nat
      /\ \A i \in 1..Len(fires') :
           \/ i \in 1..Len(fires) /\ fires'[i] = fires[i]
           \/ i = Len(fires) + 1 /\ fires'[i] = c
  BY <1>2, AfterCall, ZenonT(40)
<1>4. PICK n : n = Len(fires')
  BY Zenon
<1>5. n \in 1..Len(fires') /\ fires'[n] = c /\ \A i \in 1..Len(fires) : i # n /\ i \in 1..Len(fires') /\ fires'[i] = fires[i]
  BY <1>2, <1>3, <1>4
<1>6. Objs(s, KeySet) \subseteq taken'
  BY <1>2, <1>5, Zenon DEF CallsOnePerSession
<1>7. PICK k : k \in KeySet
  <2>1. fires' # <<>>
    BY <1>2
  <2> QED
    BY <2>1, Zenon DEF CallsOnePerSession
<1>8. HasFired(s)'
  <2>1. ObjectAt(s, k) \in Objs(s, KeySet) /\ ObjectAt(s, k).session = s
    BY <1>7, SessionObjects, Zenon DEF ObjectAt
  <2> QED
    BY <1>2, <1>5, <2>1, Zenon DEF HasFired
<1>9. ~HasFired(s)
  <2> SUFFICES ASSUME NEW i \in 1..Len(fires), NEW o \in fires[i].args, o.session = s
               PROVE  FALSE
    BY Zenon DEF HasFired
  <2>1. PICK u \in Sessions : fires[i].args = Objs(u, KeySet)
    BY Zenon DEF CallsOnePerSession
  <2>2. u = s
    BY <2>1, SessionObjects, Zenon
  <2> QED
    BY <1>2, <1>5, <2>1, <2>2, Zenon DEF CallsOnePerSession
<1> QED
  BY <1>6, <1>8, <1>9, Zenon
-----------------------------------------------------------------------------
(* Workers and coordinator implement the trigger an application sees.      *)

\* A call that is added is its session's only one; the others keep theirs.
LEMMA CallsGrow ==
  ASSUME fires \in Seq(FireRecord), CallsOnePerSession, CallsOnePerSession',
         NEW s \in Sessions, NEW x, fires' = Append(fires, [site |-> x, args |-> Objs(s, KeySet)])
  PROVE  /\ Objs(s, KeySet) \subseteq taken'
         /\ CallsFor(s) = {}
         /\ \E n : CallsFor(s)' = {n} /\ fires'[n].site = x
         /\ \A u \in Sessions : u # s =>
              CallsFor(u)' = CallsFor(u) /\ \A i \in CallsFor(u) : fires'[i] = fires[i]
<1>1. Objs(s, KeySet) \subseteq taken' /\ ~HasFired(s) /\ HasFired(s)'
  BY SessionStep, Zenon
<1>2. CallsFor(s) = {}
  BY <1>1, Zenon DEF HasFired, CallsFor
<1>3. PICK c : c = [site |-> x, args |-> Objs(s, KeySet)]
  BY Zenon
<1>4. c.args = Objs(s, KeySet) /\ c.site = x /\ fires' = Append(fires, c)
  BY <1>3, Zenon
<1>5. /\ Len(fires') = Len(fires) + 1 /\ Len(fires) \in Nat
      /\ \A i \in 1..Len(fires') :
           \/ i \in 1..Len(fires) /\ fires'[i] = fires[i]
           \/ i = Len(fires) + 1 /\ fires'[i] = c
  <2>1. PICK q : q = Append(fires, c)
    BY Zenon
  <2>2. /\ Len(q) = Len(fires) + 1 /\ Len(fires) \in Nat
        /\ \A i \in 1..Len(q) :
             \/ i \in 1..Len(fires) /\ q[i] = fires[i]
             \/ i = Len(fires) + 1 /\ q[i] = c
    BY <2>1, AfterCall, Zenon
  <2>3. fires' = q
    BY <1>4, <2>1, Zenon
  <2> QED
    BY <2>2, <2>3, Zenon
<1>6. PICK n : n = Len(fires')
  BY Zenon
<1>7. /\ n \in 1..Len(fires') /\ fires'[n] = c
      /\ \A i \in 1..Len(fires') : i = n \/ (i \in 1..Len(fires) /\ fires'[i] = fires[i])
      /\ \A i \in 1..Len(fires) : i \in 1..Len(fires') /\ i # n /\ fires'[i] = fires[i]
  BY <1>4, <1>5, <1>6
<1>8. CallsFor(s)' = {n}
  <2>1. \A i \in CallsFor(s)' : i = n
    BY <1>2, <1>7, Zenon DEF CallsFor
  <2>2. \E i : i \in CallsFor(s)'
    BY <1>1, Zenon DEF HasFired, CallsFor
  <2> QED
    BY <2>1, <2>2, Zenon
<1>9. ASSUME NEW u \in Sessions, u # s
      PROVE  CallsFor(u)' = CallsFor(u) /\ \A i \in CallsFor(u) : fires'[i] = fires[i]
  <2>1. \A o \in c.args : o.session # u
    BY <1>4, <1>9, SessionObjects, Zenon
  <2>2. \A i \in CallsFor(u)' : i \in CallsFor(u)
    BY <1>7, <2>1, Zenon DEF CallsFor
  <2>3. \A i \in CallsFor(u) : i \in CallsFor(u)' /\ fires'[i] = fires[i]
    BY <1>7, Zenon DEF CallsFor
  <2> QED
    BY <2>2, <2>3, Zenon
<1> QED
  BY <1>1, <1>2, <1>4, <1>7, <1>8, <1>9, Zenon

\* What an application sees of a call that is added: its session, which was
\* waiting, is fired or, where the call is dropped, lost.
LEMMA FiredOrLost ==
  ASSUME kind = "BY_SET", kind' = kind, fires \in Seq(FireRecord), CallsOnePerSession, CallsOnePerSession',
         NEW s \in Sessions, NEW x, fires' = Append(fires, [site |-> x, args |-> Objs(s, KeySet)])
  PROVE  /\ Objs(s, KeySet) \subseteq taken'
         /\ Fired[s] = 0 /\ s \notin Lost
         /\ x # "dropped" => Fired' = [Fired EXCEPT ![s] = 1] /\ Lost' = Lost
         /\ x = "dropped" => Fired' = Fired /\ Lost' = Lost \cup {s}
<1>1. /\ Objs(s, KeySet) \subseteq taken'
      /\ CallsFor(s) = {}
      /\ \A u \in Sessions : u # s =>
           CallsFor(u)' = CallsFor(u) /\ \A i \in CallsFor(u) : fires'[i] = fires[i]
  BY CallsGrow, Zenon
<1>2. PICK n : CallsFor(s)' = {n} /\ fires'[n].site = x
  BY CallsGrow, Zenon
<1>3. CallsMade(s) = {} /\ CallsFor(s) \ CallsMade(s) = {}
  BY <1>1, Zenon DEF CallsMade
<1>4. Cardinality({}) = 0 /\ Cardinality({n}) = 1
  BY FS_EmptySet, FS_Singleton, Zenon
<1>5. Fired = [u \in Sessions |-> Cardinality(CallsMade(u))]
      /\ Lost = {u \in Sessions : CallsFor(u) \ CallsMade(u) # {}}
  BY Zenon DEF Fired, Lost
<1>6. Fired' = [u \in Sessions |-> Cardinality(CallsMade(u)')]
      /\ Lost' = {u \in Sessions : CallsFor(u)' \ CallsMade(u)' # {}}
  BY Zenon DEF Fired, Lost
<1>7. Fired[s] = 0 /\ s \notin Lost
  BY <1>3, <1>4, <1>5, Zenon
<1>8. \A u \in Sessions : u # s => CallsMade(u)' = CallsMade(u) /\ CallsFor(u)' = CallsFor(u)
  BY <1>1, Zenon DEF CallsMade
<1>9. ASSUME x # "dropped" PROVE Fired' = [Fired EXCEPT ![s] = 1] /\ Lost' = Lost
  <2>1. CallsMade(s)' = {n} /\ CallsFor(s)' \ CallsMade(s)' = {}
    BY <1>2, <1>9, Zenon DEF CallsMade
  <2>2. Fired' = [Fired EXCEPT ![s] = 1]
    BY <1>4, <1>5, <1>6, <1>8, <2>1, Zenon
  <2>3. Lost' = Lost
    BY <1>3, <1>5, <1>6, <1>8, <2>1, Zenon
  <2> QED
    BY <2>2, <2>3, Zenon
<1>10. ASSUME x = "dropped" PROVE Fired' = Fired /\ Lost' = Lost \cup {s}
  <2>1. CallsMade(s)' = {} /\ n \in CallsFor(s)' \ CallsMade(s)'
    BY <1>2, <1>10, Zenon DEF CallsMade
  <2>2. Fired' = Fired
    BY <1>3, <1>5, <1>6, <1>8, <2>1, Zenon
  <2>3. Lost' = Lost \cup {s}
    BY <1>5, <1>6, <1>8, <2>1, Zenon
  <2> QED
    BY <2>2, <2>3, Zenon
<1> QED
  BY <1>1, <1>7, <1>9, <1>10, Zenon

\* A step of BY_SET's workers and coordinator is a step of the trigger.
LEMMA PromiseSend ==
  ASSUME SyncInv, SyncInv', kind = "BY_SET", kind' = kind,
         NEW w \in Workers, NEW o \in Object, SendObject(w, o)
  PROVE  Promise!Next \/ UNCHANGED <<Arrived, Fired, Lost>>
<1>0. Arrived = taken /\ Arrived' = taken' /\ o \notin taken
  BY Zenon DEF Arrived, SyncInv, NoticesOnce, SendObject
<1>1. CASE w \notin registered
  <2>1. fires' = fires /\ taken' = taken
    BY <1>1, Zenon DEF SendObject
  <2> QED
    BY <1>0, <2>1, Zenon DEF Fired, Lost, CallsMade, CallsFor
<1>2. CASE w \in registered
  <2>1. PICK r \in action_for_new_object("BY_SET", wtrig[w], o) : \E n \in Notice : SetSent(w, o, r, n)
    BY <1>2, CallsAreListed, SetSendEffect, Zenon DEF SyncInv
  <2>2. /\ taken' = taken \cup {o}
        /\ \/ r.acts = {} /\ fires' = fires
           \/ \E a \in SUBSET Object :
                r.acts = {a} /\ fires' = Append(fires, [site |-> "worker", args |-> a])
    BY <2>1, Zenon DEF SetSent
  <2>3. PICK s \in Sessions, k \in Keys : s = o.session /\ k = o.key
    BY ObjectFields, Zenon
  <2>4. o = [session |-> s, key |-> k]
    BY <2>3, Zenon DEF Object
  <2>5. CASE fires' = fires
    <3>1. Fired' = Fired /\ Lost' = Lost
      BY <2>5, Zenon DEF Fired, Lost, CallsMade, CallsFor
    <3>2. Promise!Arrive
      BY <1>0, <2>2, <2>4, <3>1, Zenon DEF Promise!Arrive
    <3> QED
      BY <3>2, Zenon DEF Promise!Next
  <2>6. CASE fires' # fires
    <3>1. wtrig[w] \in TriggerState
      BY Zenon DEF SyncInv, SyncTyped
    <3>2. r.acts = {} \/ r.acts = {Objs(s, KeySet)}
      BY <2>3, <3>1, SetActs, Zenon
    <3>3. fires' = Append(fires, [site |-> "worker", args |-> Objs(s, KeySet)])
      BY <2>2, <2>6, <3>2, Zenon
    <3>4. fires \in Seq(FireRecord) /\ CallsOnePerSession /\ CallsOnePerSession'
      BY Zenon DEF SyncInv, CallsTyped, Plain, SetInv
    <3>5. /\ Objs(s, KeySet) \subseteq taken'
          /\ Fired[s] = 0 /\ s \notin Lost
          /\ Fired' = [Fired EXCEPT ![s] = 1] /\ Lost' = Lost
      <4>1. "worker" # "dropped"
        OBVIOUS
      <4> QED
        BY <3>3, <3>4, <4>1, FiredOrLost, Zenon
    <3>6. Promise!Complete(s)'
      <4>1. \A j \in KeySet : [session |-> s, key |-> j] \in Objs(s, KeySet)
        BY Zenon DEF Objs
      <4> QED
        BY <1>0, <3>5, <4>1, Zenon DEF Promise!Complete
    <3>7. Promise!ArriveAndFire
      BY <1>0, <2>2, <2>4, <3>5, <3>6, Zenon DEF Promise!ArriveAndFire, Promise!Waiting
    <3> QED
      BY <3>7, Zenon DEF Promise!Next
  <2> QED
    BY <2>5, <2>6, Zenon
<1> QED
  BY <1>1, <1>2, Zenon

LEMMA PromiseNotify ==
  ASSUME SyncInv, SyncInv', kind = "BY_SET", kind' = kind, NEW w \in Workers, RecvNotify(w)
  PROVE  Promise!Next \/ UNCHANGED <<Arrived, Fired, Lost>>
<1>0. Arrived = taken /\ Arrived' = taken /\ taken' = taken
  BY Zenon DEF Arrived, RecvNotify
<1>1. CASE fires' = fires
  BY <1>0, <1>1, Zenon DEF Fired, Lost, CallsMade, CallsFor
<1>2. CASE fires' # fires
  <2>1. PICK o : o = toCoord[w][1].obj
    BY Zenon
  <2>2. o \in Object /\ ctrig \in TriggerState
    BY <2>1, NotifyQueue, Zenon DEF SyncInv, SyncTyped, Notice
  <2>3. PICK r \in action_for_new_object("BY_SET", ctrig, o) : SetNotified(w, o, r)
    BY <2>1, CallsAreListed, SetNotifyEffect, Zenon DEF SyncInv
  <2>4. PICK a \in SUBSET Object, x \in {"coord", "dropped"} :
          r.acts = {a} /\ fires' = Append(fires, [site |-> x, args |-> a])
    BY <1>2, <2>3, Zenon DEF SetNotified
  <2>5. PICK s \in Sessions : s = o.session
    BY <2>2, ObjectFields, Zenon
  <2>6. a = Objs(s, KeySet)
    BY <2>2, <2>4, <2>5, SetActs, ZenonT(40)
  <2>7. fires \in Seq(FireRecord) /\ CallsOnePerSession /\ CallsOnePerSession'
    BY Zenon DEF SyncInv, CallsTyped, Plain, SetInv
  <2>8. /\ Objs(s, KeySet) \subseteq taken'
        /\ Fired[s] = 0 /\ s \notin Lost
        /\ x # "dropped" => Fired' = [Fired EXCEPT ![s] = 1] /\ Lost' = Lost
        /\ x = "dropped" => Fired' = Fired /\ Lost' = Lost \cup {s}
    BY <2>4, <2>6, <2>7, FiredOrLost, Zenon
  <2>9. Promise!Complete(s)
    <3>1. \A j \in KeySet : [session |-> s, key |-> j] \in Objs(s, KeySet)
      BY Zenon DEF Objs
    <3> QED
      BY <1>0, <2>8, <3>1, Zenon DEF Promise!Complete
  <2>10. Promise!Fire(s) \/ Promise!Lose(s)
    BY <1>0, <2>8, <2>9, Zenon DEF Promise!Fire, Promise!Lose, Promise!Waiting
  <2> QED
    BY <2>10, Zenon DEF Promise!Next
<1> QED
  BY <1>1, <1>2, Zenon

LEMMA PromiseStep ==
  ASSUME SyncInv, SyncInv', [SyncNext]_syncVars
  PROVE  [Promise!Next]_<<Arrived, Fired, Lost>>
<1>1. kind' = kind
  BY Zenon DEF SyncNext, SendObject, RecvUpdate, RecvNotify, syncVars
<1>2. CASE kind # "BY_SET"
  BY <1>1, <1>2, Zenon DEF Arrived, Fired, Lost
<1>3. CASE kind = "BY_SET"
  <2>1. CASE UNCHANGED syncVars
    BY <2>1, Zenon DEF syncVars, Arrived, Fired, Lost, CallsMade, CallsFor
  <2>2. ASSUME NEW w \in Workers, RecvUpdate(w) PROVE UNCHANGED <<Arrived, Fired, Lost>>
    BY <2>2, Zenon DEF RecvUpdate, Arrived, Fired, Lost, CallsMade, CallsFor
  <2> QED
    BY <1>1, <1>3, <2>1, <2>2, PromiseSend, PromiseNotify, Zenon DEF SyncNext
<1> QED
  BY <1>2, <1>3, Zenon

\* The safety part of FiresLikeOneTrigger: the function is called for a session
\* of a BY_SET trigger at most once, only when all its objects were taken in, and
\* not at all once the coordinator has dropped the session's call, although every
\* worker and the coordinator decide on their own copies and the messages
\* between them (KeyNotifyRequest, clear) may be delayed.
THEOREM SetFiresOnceWhenComplete == SyncSpec => Promise!Spec
<1>1. SyncInit => Promise!Init
  <2> SUFFICES ASSUME SyncInit PROVE Promise!Init
    BY Zenon
  <2>1. Arrived = {} /\ Len(fires) = 0
    BY Zenon DEF SyncInit, Arrived
  <2>2. \A s \in Sessions : CallsFor(s) = {}
    BY <2>1 DEF CallsFor
  <2>3. Cardinality({}) = 0
    BY FS_EmptySet, Zenon
  <2>4. Fired = [s \in Sessions |-> 0] /\ Lost = {}
    BY <2>2, <2>3, Zenon DEF Fired, Lost, CallsMade
  <2> QED
    BY <2>1, <2>4, Zenon DEF Promise!Init
<1>2. SyncInv /\ SyncInv' /\ [SyncNext]_syncVars => [Promise!Next]_<<Arrived, Fired, Lost>>
  BY PromiseStep, Zenon
<1> QED
  BY <1>1, <1>2, SyncAlways, PTL DEF SyncSpec, Promise!Spec

-----------------------------------------------------------------------------
(* The orchestrator.                                                       *)

\* Nothing has finished in the future.
FinishedByNow == \A f \in Functions : status[f] = "finished" => finish[f] <= now

IInv == TypeOK /\ Precedence /\ CausalOrder /\ FinishedByNow

Statuses == {"waiting", "pending", "running", "finished"}

LEMMA GraphFacts ==
  \A f \in Functions :
    /\ Predecessors(f) \subseteq Functions
    /\ IsSourceStage(f[2]) => Predecessors(f) = {}
    /\ f[1] \in Jobs
BY DEF Predecessors, IsSourceStage, Functions

\* A policy plans pending functions only.
LEMMA PlanFacts ==
  ASSUME NEW st, NEW to \in Plans(st)
  PROVE  /\ DOMAIN to \subseteq Functions
         /\ \A f \in DOMAIN to : st[f] = "pending" /\ to[f] \in DataCenters
         /\ \A d \in DataCenters : Cardinality(Placed(to, d)) \in Nat
<1>1. to \in [Planned(st) -> DataCenters]
  BY Zenon DEF Plans
<1>2. \A f \in Planned(st) : f \in Functions /\ st[f] = "pending"
  BY Zenon DEF Planned, Wave, Pending
<1>3. ASSUME NEW d \in DataCenters PROVE Cardinality(Placed(to, d)) \in Nat
  <2>1. Placed(to, d) \subseteq Functions
    BY <1>1, <1>2, Zenon DEF Placed
  <2>2. IsFiniteSet(Placed(to, d))
    BY <2>1, OrchestratorAssumption, FS_Subset, Zenon
  <2> QED BY <2>2, FS_CardinalityType, Zenon
<1> QED BY <1>1, <1>2, <1>3, Zenon

LEMMA LessType == \A n, k \in Nat : Less(n, k) \in Nat
BY DEF Less

\* build_job and reset: only functions without predecessors are pending.
LEMMA StartKeeps ==
  ASSUME NEW st, NEW early \in BOOLEAN,
         st = [f \in Functions |-> IF early /\ Predecessors(f) = {} THEN "pending" ELSE Built(f)]
  PROVE  /\ st \in [Functions -> {"waiting", "pending"}]
         /\ \A f \in Functions : st[f] # "waiting" => Predecessors(f) = {}
<1>1. \A f \in Functions : Built(f) \in {"waiting", "pending"} /\ (Built(f) = "pending" => Predecessors(f) = {})
  BY GraphFacts, Zenon DEF Built
<1> QED BY <1>1, Zenon

LEMMA ArrivalType ==
  [f \in Functions |-> IF IsSourceStage(f[2]) THEN ArrivalTime[f[1]] ELSE 0] \in [Functions -> Nat]
BY GraphFacts, OrchestratorAssumption, Zenon

LEMMA OrchestratorInit == Init => IInv
<1> SUFFICES ASSUME Init PROVE IInv
  BY Zenon
<1>1. /\ status \in [Functions -> {"waiting", "pending"}]
      /\ \A f \in Functions : status[f] # "waiting" => Predecessors(f) = {}
  <2>1. (~mode.cluster) \in BOOLEAN
    BY OrchestratorAssumption, Zenon DEF Init
  <2>2. status = [f \in Functions |-> IF ~mode.cluster /\ Predecessors(f) = {} THEN "pending" ELSE Built(f)]
    BY Zenon DEF Init
  <2> QED BY <2>1, <2>2, StartKeeps, Zenon
<1>2. TypeOK
  BY <1>1, ArrivalType, OrchestratorAssumption, Zenon DEF Init, TypeOK
<1>3. Precedence /\ CausalOrder /\ FinishedByNow
  BY <1>1, Zenon DEF Precedence, CausalOrder, FinishedByNow
<1> QED BY <1>2, <1>3, Zenon DEF IInv

LEMMA RegisterStep == ASSUME IInv, NEW j \in Jobs, register_job(j) PROVE IInv'
<1>1. TypeOK'
  BY Zenon DEF IInv, TypeOK, register_job
<1>2. Precedence' /\ CausalOrder' /\ FinishedByNow'
  BY Zenon DEF IInv, Precedence, CausalOrder, FinishedByNow, register_job
<1> QED BY <1>1, <1>2, Zenon DEF IInv

LEMMA ResetStep == ASSUME IInv, reset PROVE IInv'
<1>1. /\ status' \in [Functions -> {"waiting", "pending"}]
      /\ \A f \in Functions : status'[f] # "waiting" => Predecessors(f) = {}
  <2>1. status' = [f \in Functions |-> IF TRUE /\ Predecessors(f) = {} THEN "pending" ELSE Built(f)]
    BY Zenon DEF reset
  <2> QED BY <2>1, StartKeeps, Zenon
<1>2. TypeOK'
  BY <1>1, ArrivalType, OrchestratorAssumption, Zenon DEF IInv, TypeOK, reset
<1>3. Precedence' /\ CausalOrder' /\ FinishedByNow'
  BY <1>1, Zenon DEF Precedence, CausalOrder, FinishedByNow
<1> QED BY <1>2, <1>3, Zenon DEF IInv

\* The cluster finishes nothing, and places what observe has released.
LEMMA RunOnceStep == ASSUME IInv, run_once PROVE IInv'
<1> DEFINE seen == [f \in Functions |-> IF f \in Ready(status) THEN "pending" ELSE status[f]]
<1>1. TypeOK /\ Precedence /\ CausalOrder /\ FinishedByNow
  BY Zenon DEF IInv
<1>2. PICK to \in Plans(seen) :
        /\ status' = [f \in Functions |-> IF f \in DOMAIN to THEN "running" ELSE seen[f]]
        /\ arrival' = [f \in Functions |-> IF f \in Ready(status) THEN now ELSE arrival[f]]
        /\ start' = [f \in Functions |-> IF f \in DOMAIN to THEN now ELSE start[f]]
        /\ placement' = [f \in Functions |-> IF f \in DOMAIN to THEN to[f] ELSE placement[f]]
        /\ running' = [d \in DataCenters |-> running[d] + Cardinality(Placed(to, d))]
        /\ avail' = [d \in DataCenters |-> Less(avail[d], Cardinality(Placed(to, d)))]
  BY Zenon DEF run_once
<1>3. now' = now + Interval /\ UNCHANGED <<mode, jobs, finish>>
  BY Zenon DEF run_once
<1>4. /\ DOMAIN to \subseteq Functions
      /\ \A f \in DOMAIN to : seen[f] = "pending" /\ to[f] \in DataCenters
      /\ \A d \in DataCenters : Cardinality(Placed(to, d)) \in Nat
  BY PlanFacts, Zenon
<1>5. \A f \in Functions : f \in Ready(status) => /\ status[f] = "waiting"
                                                 /\ \A p \in Predecessors(f) : status[p] = "finished"
  BY Zenon DEF Ready
<1>6. seen \in [Functions -> Statuses]
  BY <1>1, Zenon DEF TypeOK, Statuses
<1>7. \A f \in Functions : status'[f] = "finished" <=> status[f] = "finished"
  BY <1>2, <1>4, <1>5, Zenon
<1>8. \A f \in Functions : status'[f] # "waiting" => \A p \in Predecessors(f) : status[p] = "finished"
  BY <1>1, <1>2, <1>4, <1>5, ZenonT(40) DEF Precedence
<1>9. TypeOK'
  <2>1. status' \in [Functions -> Statuses]
    BY <1>2, <1>6, Zenon DEF Statuses
  <2>2. arrival' \in [Functions -> Nat] /\ start' \in [Functions -> Nat]
    BY <1>1, <1>2, Zenon DEF TypeOK
  <2>3. placement' \in [Functions -> DataCenters \cup {Nowhere}]
    BY <1>1, <1>2, <1>4, ZenonT(40) DEF TypeOK
  <2>4. running' \in [DataCenters -> Nat]
    BY <1>1, <1>2, <1>4 DEF TypeOK
  <2>5. avail' \in [DataCenters -> Nat]
    BY <1>1, <1>2, <1>4, LessType, Zenon DEF TypeOK
  <2> QED BY <1>1, <1>3, <2>1, <2>2, <2>3, <2>4, <2>5, OrchestratorAssumption, SMTT(30) DEF TypeOK, Statuses
<1>10. Precedence'
  BY <1>7, <1>8, GraphFacts, Zenon DEF Precedence
<1>11. CausalOrder'
  BY <1>1, <1>2, <1>3, <1>4, <1>5, <1>7, Zenon DEF CausalOrder
<1>12. FinishedByNow'
  BY <1>1, <1>3, <1>7, OrchestratorAssumption, SMTT(30) DEF FinishedByNow, TypeOK
<1> QED BY <1>9, <1>10, <1>11, <1>12, Zenon DEF IInv

\* The simulator finishes what it places, and moves the clock past all of it
\* before it releases the functions after it.
LEMMA StepStep == ASSUME IInv, step PROVE IInv'
<1>1. TypeOK /\ Precedence /\ CausalOrder /\ FinishedByNow
  BY Zenon DEF IInv
<1>2. PICK to \in Plans(status) : \E dur \in [DOMAIN to -> UNION {Durations(f) : f \in DOMAIN to}] :
      \E max_finish \in {now} \cup {now + dur[f] : f \in DOMAIN to} :
       LET ran == [f \in Functions |-> IF f \in DOMAIN to THEN "finished" ELSE status[f]] IN
       /\ \A f \in DOMAIN to : dur[f] \in Durations(f) /\ now + dur[f] <= max_finish
       /\ now' = max_finish + Interval
       /\ status' = [f \in Functions |-> IF f \in Ready(ran) THEN "pending" ELSE ran[f]]
       /\ arrival' = [f \in Functions |-> IF f \in Ready(ran) THEN max_finish + Interval ELSE arrival[f]]
       /\ start' = [f \in Functions |-> IF f \in DOMAIN to THEN now ELSE start[f]]
       /\ finish' = [f \in Functions |-> IF f \in DOMAIN to THEN now + dur[f] ELSE finish[f]]
       /\ placement' = [f \in Functions |-> IF f \in DOMAIN to THEN to[f] ELSE placement[f]]
       /\ running' = [d \in DataCenters |-> Less(running[d], Cardinality(Placed(to, d)))]
       /\ avail' = [d \in DataCenters |-> avail[d] + Cardinality(Placed(to, d))]
  BY Zenon DEF step
<1> DEFINE ran == [f \in Functions |-> IF f \in DOMAIN to THEN "finished" ELSE status[f]]
<1>3. PICK dur \in [DOMAIN to -> UNION {Durations(f) : f \in DOMAIN to}] :
      \E max_finish \in {now} \cup {now + dur[f] : f \in DOMAIN to} :
       /\ \A f \in DOMAIN to : dur[f] \in Durations(f) /\ now + dur[f] <= max_finish
       /\ now' = max_finish + Interval
       /\ status' = [f \in Functions |-> IF f \in Ready(ran) THEN "pending" ELSE ran[f]]
       /\ arrival' = [f \in Functions |-> IF f \in Ready(ran) THEN max_finish + Interval ELSE arrival[f]]
       /\ start' = [f \in Functions |-> IF f \in DOMAIN to THEN now ELSE start[f]]
       /\ finish' = [f \in Functions |-> IF f \in DOMAIN to THEN now + dur[f] ELSE finish[f]]
       /\ placement' = [f \in Functions |-> IF f \in DOMAIN to THEN to[f] ELSE placement[f]]
       /\ running' = [d \in DataCenters |-> Less(running[d], Cardinality(Placed(to, d)))]
       /\ avail' = [d \in DataCenters |-> avail[d] + Cardinality(Placed(to, d))]
  BY <1>2, Zenon
<1>4. PICK max_finish \in {now} \cup {now + dur[f] : f \in DOMAIN to} :
       /\ \A f \in DOMAIN to : dur[f] \in Durations(f) /\ now + dur[f] <= max_finish
       /\ now' = max_finish + Interval
       /\ status' = [f \in Functions |-> IF f \in Ready(ran) THEN "pending" ELSE ran[f]]
       /\ arrival' = [f \in Functions |-> IF f \in Ready(ran) THEN max_finish + Interval ELSE arrival[f]]
       /\ start' = [f \in Functions |-> IF f \in DOMAIN to THEN now ELSE start[f]]
       /\ finish' = [f \in Functions |-> IF f \in DOMAIN to THEN now + dur[f] ELSE finish[f]]
       /\ placement' = [f \in Functions |-> IF f \in DOMAIN to THEN to[f] ELSE placement[f]]
       /\ running' = [d \in DataCenters |-> Less(running[d], Cardinality(Placed(to, d)))]
       /\ avail' = [d \in DataCenters |-> avail[d] + Cardinality(Placed(to, d))]
  BY <1>3, Zenon
<1>5. UNCHANGED <<mode, jobs>>
  BY Zenon DEF step
<1>6. /\ DOMAIN to \subseteq Functions
      /\ \A f \in DOMAIN to : status[f] = "pending" /\ to[f] \in DataCenters
      /\ \A d \in DataCenters : Cardinality(Placed(to, d)) \in Nat
  BY PlanFacts, Zenon
<1>7. \A f \in DOMAIN to : dur[f] \in Nat
  <2> SUFFICES ASSUME NEW f \in DOMAIN to PROVE dur[f] \in Nat
    BY Zenon
  <2>1. dur[f] \in Durations(f)
    BY <1>4, Zenon
  <2>2. arrival[f] \in Nat /\ now \in Nat
    BY <1>1, <1>6, Zenon DEF TypeOK
  <2>3. PICK waiting : waiting = IF now > arrival[f] THEN now - arrival[f] ELSE 0
    BY Zenon
  <2>4. PICK w \in Work : dur[f] = IF waiting + w < MaxDuration THEN waiting + w ELSE MaxDuration
    BY <2>1, <2>3, Zenon DEF Durations
  <2>5. w \in Nat /\ MaxDuration \in Nat
    BY OrchestratorAssumption, Zenon
  <2> QED BY <2>2, <2>3, <2>4, <2>5, SMTT(30)
<1>8. now \in Nat /\ max_finish \in Nat /\ now <= max_finish /\ now' \in Nat /\ max_finish <= now'
  BY <1>1, <1>4, <1>7, OrchestratorAssumption, SMTT(30) DEF TypeOK
<1>9. \A f \in Functions : f \in Ready(ran) => /\ ran[f] = "waiting"
                                              /\ \A p \in Predecessors(f) : ran[p] = "finished"
  BY Zenon DEF Ready
<1>10. ran \in [Functions -> Statuses]
  BY <1>1, Zenon DEF TypeOK, Statuses
<1>11. \A f \in Functions : status'[f] = "finished" <=> status[f] = "finished" \/ f \in DOMAIN to
  BY <1>4, <1>6, <1>9, Zenon
<1>12. \A f \in Functions : (status[f] = "finished" \/ f \in DOMAIN to) =>
         \A p \in Predecessors(f) : p \in Functions /\ status[p] = "finished" /\ p \notin DOMAIN to
  BY <1>1, <1>6, GraphFacts, Zenon DEF Precedence
<1>13. TypeOK'
  <2>1. status' \in [Functions -> Statuses]
    BY <1>4, <1>10, Zenon DEF Statuses
  <2>2. arrival' \in [Functions -> Nat]
    BY <1>1, <1>4, <1>8, Zenon DEF TypeOK
  <2>3. start' \in [Functions -> Nat]
    BY <1>1, <1>4, ZenonT(40) DEF TypeOK
  <2>4. finish' \in [Functions -> Nat]
    BY <1>1, <1>4, <1>7, SMTT(30) DEF TypeOK
  <2>5. placement' \in [Functions -> DataCenters \cup {Nowhere}]
    BY <1>1, <1>4, <1>6, Zenon DEF TypeOK
  <2>6. running' \in [DataCenters -> Nat]
    BY <1>1, <1>4, <1>6, LessType, Zenon DEF TypeOK
  <2>7. avail' \in [DataCenters -> Nat]
    BY <1>1, <1>4, <1>6, SMTT(30) DEF TypeOK
  <2> QED BY <1>1, <1>5, <1>8, <2>1, <2>2, <2>3, <2>4, <2>5, <2>6, <2>7, Zenon DEF TypeOK, Statuses
<1>14. Precedence'
  <2> SUFFICES ASSUME NEW f \in Functions, status'[f] # "waiting", NEW p \in Predecessors(f)
               PROVE  status'[p] = "finished"
    BY Zenon DEF Precedence
  <2>1. p \in Functions
    BY GraphFacts, Zenon
  <2>2. CASE f \in Ready(ran)
    BY <1>9, <1>11, <2>1, <2>2, Zenon
  <2>3. CASE f \notin Ready(ran)
    <3>1. status[f] # "waiting"
      BY <1>4, <1>6, <2>3, Zenon
    <3>2. status[p] = "finished"
      BY <1>1, <3>1, Zenon DEF Precedence
    <3> QED BY <1>11, <2>1, <3>2, Zenon
  <2> QED BY <2>2, <2>3, ZenonT(40)
<1>15. CausalOrder'
  <2> SUFFICES ASSUME NEW f \in Functions, status'[f] = "finished", NEW p \in Predecessors(f)
               PROVE  finish'[p] <= start'[f]
    BY Zenon DEF CausalOrder
  <2>1. p \in Functions /\ status[p] = "finished" /\ finish'[p] = finish[p]
    BY <1>4, <1>11, <1>12, Zenon
  <2>2. CASE f \in DOMAIN to
    BY <1>1, <1>4, <2>1, <2>2, Zenon DEF FinishedByNow
  <2>3. CASE f \notin DOMAIN to
    BY <1>1, <1>4, <1>11, <2>1, <2>3, Zenon DEF CausalOrder
  <2> QED BY <2>2, <2>3, Zenon
<1>16. FinishedByNow'
  <2> SUFFICES ASSUME NEW f \in Functions, status'[f] = "finished"
               PROVE  finish'[f] <= now'
    BY Zenon DEF FinishedByNow
  <2>1. CASE f \in DOMAIN to
    BY <1>4, <1>7, <1>8, <2>1, SMTT(30)
  <2>2. CASE f \notin DOMAIN to
    <3>1. finish'[f] = finish[f] /\ finish[f] <= now /\ finish[f] \in Nat
      BY <1>1, <1>4, <1>11, <2>2, Zenon DEF FinishedByNow, TypeOK
    <3> QED BY <1>8, <3>1
  <2> QED BY <2>1, <2>2, Zenon
<1> QED BY <1>13, <1>14, <1>15, <1>16, Zenon DEF IInv

\* The optimizer releases, the controller offers and the simulator runs a
\* function only after every function it takes input from, and in simulated
\* time it starts no earlier than they end.
THEOREM FunctionsFollowTheirInputs == Spec => [](TypeOK /\ FollowsInputs)
<1>1. Init => IInv
  BY OrchestratorInit, Zenon
<1>2. IInv /\ [Next]_vars => IInv'
  <2> SUFFICES ASSUME IInv, [Next]_vars PROVE IInv'
    BY Zenon
  <2>1. ASSUME NEW j \in Jobs, register_job(j) PROVE IInv'
    BY <2>1, RegisterStep, Zenon
  <2>2. CASE run_once
    BY <2>2, RunOnceStep, Zenon
  <2>3. CASE step
    BY <2>3, StepStep, Zenon
  <2>4. CASE reset
    BY <2>4, ResetStep, Zenon
  <2>5. CASE UNCHANGED vars
    <3>1. TypeOK'
      BY <2>5, Zenon DEF IInv, TypeOK, vars
    <3>2. Precedence' /\ CausalOrder' /\ FinishedByNow'
      BY <2>5, Zenon DEF IInv, Precedence, CausalOrder, FinishedByNow, vars
    <3> QED BY <3>1, <3>2, Zenon DEF IInv
  <2> QED BY <2>1, <2>2, <2>3, <2>4, <2>5, Zenon DEF Next
<1>3. IInv => TypeOK /\ FollowsInputs
  BY Zenon DEF IInv, FollowsInputs
<1> QED BY <1>1, <1>2, <1>3, PTL DEF Spec

=============================================================================
