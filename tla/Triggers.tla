------------------------------ MODULE Triggers ------------------------------
(***************************************************************************)
(* The trigger primitives of a bucket (trigger.hpp) as functions from a    *)
(* trigger's state and a new object to the trigger's next state and the    *)
(* function calls it asks for.                                             *)
(*                                                                         *)
(* An object is [session, key].  An action is the set of objects its call  *)
(* gets as arguments; the target function is fixed per trigger and left    *)
(* out.  One record serves all primitives:                                 *)
(*                                                                         *)
(*   buffer    buffer_ of ByBatchSize, Redundant and ByTime                *)
(*   prepared  session_prepared_keys_map_ of BySet                         *)
(*   ctrl      cur_control_keys_ of DynamicGroup                           *)
(*   data      data_group_keys_map_ of DynamicGroup, all groups together   *)
(*   count     count_ of Redundant                                         *)
(*                                                                         *)
(* session_status_cache_ is the subject of module Rerun.  ByTime reads the *)
(* clock, so a new object has two outcomes: the window has elapsed or not. *)
(***************************************************************************)
EXTENDS Integers, Sequences, Functions

CONSTANTS
  Sessions, Keys,
  NameKey,         \* key_name_ of ByName
  BatchCount,      \* count_ of ByBatchSize
  KeySet,          \* key_set_ of BySet
  ControlGroup,    \* control_group_ of DynamicGroup
  GroupOf,         \* the part of a key before the group delimiter
  K, N             \* k_ and n_ of Redundant

ASSUME TriggersAssumption ==
  /\ KeySet \subseteq Keys
  /\ ControlGroup \subseteq Keys
  /\ DOMAIN GroupOf = Keys
  /\ BatchCount \in Nat \ {0}
  /\ K \in Nat \ {0}
  /\ N \in Nat

Kinds == {"IMMEDIATE", "BY_NAME", "BY_BATCH_SIZE", "BY_SET",
          "DYNAMIC_GROUP", "REDUNDANT", "BY_TIME"}

Object == [session : Sessions, key : Keys]

\* gen_trigger_pointer: a trigger of any kind starts empty; its parameters are
\* the constants.
NewTrigger ==
  [buffer |-> <<>>, prepared |-> [s \in Sessions |-> {}],
   ctrl |-> {}, data |-> {}, count |-> 0]

Objs(s, keys) == {[session |-> s, key |-> k] : k \in keys}

Outcome(t, acts) == [st |-> t, acts |-> acts]

-----------------------------------------------------------------------------
(* action_for_new_object of each primitive                                 *)

ImmediateTrigger(t, o) == Outcome(t, {{o}})

ByNameTrigger(t, o) == Outcome(t, IF o.key = NameKey THEN {{o}} ELSE {})

\* Mutant of ByBatchSizeTrigger: fires and keeps the buffer.
KeepsBuffer(t, o) ==
  LET b == Append(t.buffer, o)
  IN Outcome([t EXCEPT !.buffer = b], IF Len(b) >= BatchCount THEN {Range(b)} ELSE {})

ByBatchSizeTrigger(t, o) ==
  LET b == Append(t.buffer, o)
  IN IF Len(b) >= BatchCount
     THEN Outcome([t EXCEPT !.buffer = <<>>], {Range(b)})
     ELSE Outcome([t EXCEPT !.buffer = b], {})

BySetTrigger(t, o) ==
  LET p == t.prepared[o.session] \cup {o.key}
  IN CASE o.key \notin KeySet -> Outcome(t, {})
       [] o.key \in KeySet /\ p = KeySet ->
            Outcome([t EXCEPT !.prepared[o.session] = {}], {Objs(o.session, KeySet)})
       [] o.key \in KeySet /\ p # KeySet ->
            Outcome([t EXCEPT !.prepared[o.session] = p], {})

\* The last control key fires one call per data group, all in the control
\* key's session.
DynamicGroupTrigger(t, o) ==
  LET c      == t.ctrl \cup ({o.key} \cap ControlGroup)
      Groups == {GroupOf[k] : k \in t.data}
      InGroup(g) == {k \in t.data : GroupOf[k] = g}
  IN CASE GroupOf[o.key] # "ctrl" -> Outcome([t EXCEPT !.data = @ \cup {o.key}], {})
       [] GroupOf[o.key] = "ctrl" /\ c # ControlGroup -> Outcome([t EXCEPT !.ctrl = c], {})
       [] GroupOf[o.key] = "ctrl" /\ c = ControlGroup ->
            Outcome([t EXCEPT !.ctrl = {}, !.data = {}],
                    {Objs(o.session, InGroup(g)) : g \in Groups})

\* The first K of every N objects go to one call and the rest are dropped.
RedundantTrigger(t, o) ==
  LET c == t.count + 1
      b == Append(t.buffer, o)
  IN CASE c < K -> Outcome([t EXCEPT !.count = c, !.buffer = b], {})
       [] c = K -> Outcome([t EXCEPT !.count = c, !.buffer = <<>>], {Range(b)})
       [] c > K /\ c >= N -> Outcome([t EXCEPT !.count = 0], {})
       [] c > K /\ c < N -> Outcome([t EXCEPT !.count = c], {})

ByTimeTrigger(t, o, elapsed) ==
  LET b == Append(t.buffer, o)
  IN IF elapsed
     THEN Outcome([t EXCEPT !.buffer = <<>>], {Range(b)})
     ELSE Outcome([t EXCEPT !.buffer = b], {})

\* The outcomes a new object can have.
action_for_new_object(kind, t, o) ==
  CASE kind = "IMMEDIATE"     -> {ImmediateTrigger(t, o)}
    [] kind = "BY_NAME"       -> {ByNameTrigger(t, o)}
    [] kind = "BY_BATCH_SIZE" -> {ByBatchSizeTrigger(t, o)}
    [] kind = "BY_SET"        -> {BySetTrigger(t, o)}
    [] kind = "DYNAMIC_GROUP" -> {DynamicGroupTrigger(t, o)}
    [] kind = "REDUNDANT"     -> {RedundantTrigger(t, o)}
    [] kind = "BY_TIME"       -> {ByTimeTrigger(t, o, elapsed) : elapsed \in BOOLEAN}

\* What the coordinator's message "the trigger fired for session s" does to a
\* worker's copy.
clear(kind, t, s) ==
  CASE kind \in {"IMMEDIATE", "BY_NAME"}      -> t
    [] kind \in {"BY_BATCH_SIZE", "BY_TIME"}  -> [t EXCEPT !.buffer = <<>>]
    [] kind = "BY_SET"                        -> [t EXCEPT !.prepared[s] = {}]
    [] kind = "DYNAMIC_GROUP"                 -> [t EXCEPT !.ctrl = {}, !.data = {}]
    [] kind = "REDUNDANT"                     -> [t EXCEPT !.buffer = <<>>, !.count = @ + K]
=============================================================================
