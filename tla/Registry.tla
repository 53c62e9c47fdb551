------------------------------ MODULE Registry ------------------------------
(***************************************************************************)
(* Registration: the manager gives every application a coordinator, the    *)
(* coordinators create and delete buckets and triggers and send every      *)
(* change to the nodes they know, and the nodes keep copies of the         *)
(* triggers and remember which coordinator a bucket and an application     *)
(* belong to.                                                              *)
(*                                                                         *)
(* The client waits for the reply of a bucket or trigger operation before  *)
(* it goes on, so a request and its handler are one action.  What clients  *)
(* do beyond the orderly use of the interface is named in Liberties.       *)
(***************************************************************************)
EXTENDS Integers, SequencesExt

CONSTANTS
  Apps, Coords, Nodes, Buckets,
  Names,       \* trigger names
  OwnerOf,     \* the application that uses a bucket name
  Liberties,   \* a subset of AllLiberties
  None,
  MaxOps       \* bound: requests of clients

\* "late": nodes report after requests have been made.  "twice": a trigger name
\* is added to a bucket that has it.  "timed": BY_TIME triggers are added
\* by add_trigger, or deleted.  "shared": applications use each other's bucket
\* names.  "purge": a bucket is deleted while it has triggers.
AllLiberties == {"late", "twice", "timed", "shared", "purge"}

ASSUME RegistryAssumption ==
  /\ OwnerOf \in [Buckets -> Apps]
  /\ Liberties \subseteq AllLiberties
  /\ None \notin Apps \cup Coords \cup Buckets \cup Names
  /\ MaxOps \in Nat

VARIABLES
  coord_ips,            \* manager: coordinators that have synced
  app_coord_map,        \* manager: the coordinator of an application
  bucket_app_map,       \* per coordinator: the application of a bucket
  app_buckets_map,      \* per coordinator: the buckets of an application
  bucket_triggers_map,  \* per coordinator: the triggers of a bucket
  node_status_map,      \* per coordinator: the nodes that have reported
  updates,              \* messages from a coordinator to a node, in order
  triggers,             \* per node: its copies of the triggers of a bucket
  bucket_coord_map,     \* per node: whom it notifies of a bucket's objects
  app_coord,            \* per node: where it forwards an application's calls
  down,                 \* nodes that have run past the end of a vector
  ops                   \* requests made

manager == <<coord_ips, app_coord_map>>
coordinator == <<bucket_app_map, app_buckets_map, bucket_triggers_map, node_status_map>>
worker == <<triggers, bucket_coord_map, app_coord, down>>
vars == <<manager, coordinator, updates, worker, ops>>

Trigger == [name : Names, timed : BOOLEAN]

\* UpdateCoordMsg.  type 0 registers, type 2 deletes a trigger.
Msg(type, a, b, n) == [type |-> type, app |-> a, bucket |-> b, name |-> n]

Init ==
  /\ coord_ips = {}
  /\ app_coord_map = [a \in Apps |-> None]
  /\ bucket_app_map = [c \in Coords |-> [b \in Buckets |-> None]]
  /\ app_buckets_map = [c \in Coords |-> [a \in Apps |-> {}]]
  /\ bucket_triggers_map = [c \in Coords |-> [b \in Buckets |-> <<>>]]
  /\ node_status_map = [c \in Coords |-> {}]
  /\ updates = [c \in Coords |-> [w \in Nodes |-> <<>>]]
  /\ triggers = [w \in Nodes |-> [b \in Buckets |-> <<>>]]
  /\ bucket_coord_map = [w \in Nodes |-> [b \in Buckets |-> None]]
  /\ app_coord = [w \in Nodes |-> [a \in Apps |-> None]]
  /\ down = {}
  /\ ops = 0

-----------------------------------------------------------------------------
(* The manager                                                             *)

coord_sync(c) ==
  /\ c \notin coord_ips
  /\ coord_ips' = coord_ips \cup {c}
  /\ UNCHANGED <<app_coord_map, coordinator, updates, worker, ops>>

\* An application that is asked for the first time gets any coordinator.  A
\* manager that is asked before a coordinator has synced divides by zero
\* (manager_server.cpp:89) and ends; that order is left out.
coord_query(a) ==
  /\ app_coord_map[a] = None
  /\ \E c \in coord_ips : app_coord_map' = [app_coord_map EXCEPT ![a] = c]
  /\ UNCHANGED <<coord_ips, coordinator, updates, worker, ops>>

-----------------------------------------------------------------------------
(* The coordinators                                                        *)

\* The first status report of a node, or a later one.
update_status(c, w) ==
  /\ w \notin node_status_map[c]
  /\ w \notin down
  /\ node_status_map' = [node_status_map EXCEPT ![c] = @ \cup {w}]
  /\ UNCHANGED <<manager, bucket_app_map, app_buckets_map, bucket_triggers_map, updates, worker, ops>>

\* A request of application a on bucket b, which reaches a's coordinator c.
Request(c, a, b) ==
  /\ ops < MaxOps
  /\ ops' = ops + 1
  /\ app_coord_map[a] = c
  /\ "shared" \in Liberties \/ OwnerOf[b] = a
  /\ "late" \in Liberties \/ \A k \in Coords : node_status_map[k] = Nodes

Broadcast(c, m) ==
  updates' = [updates EXCEPT ![c] =
                [w \in Nodes |-> IF w \in node_status_map[c] THEN Append(@[w], m) ELSE @[w]]]

Exists(c, b) == bucket_app_map[c][b] # None
HasName(c, b, n) == \E t \in Range(bucket_triggers_map[c][b]) : t.name = n

create_bucket(c, a, b) ==
  /\ Request(c, a, b)
  /\ IF Exists(c, b)    \* BUCKET_EXIST
     THEN UNCHANGED <<bucket_app_map, app_buckets_map>>
     ELSE /\ bucket_app_map' = [bucket_app_map EXCEPT ![c][b] = a]
          /\ app_buckets_map' = [app_buckets_map EXCEPT ![c][a] = @ \cup {b}]
  /\ UNCHANGED <<manager, bucket_triggers_map, node_status_map, updates, worker>>

\* The nodes are not told.
delete_bucket(c, a, b) ==
  /\ Request(c, a, b)
  /\ "purge" \in Liberties \/ bucket_triggers_map[c][b] = <<>>
  /\ IF ~Exists(c, b)   \* BUCKET_NE
     THEN UNCHANGED <<bucket_app_map, app_buckets_map, bucket_triggers_map>>
     ELSE /\ bucket_app_map' = [bucket_app_map EXCEPT ![c][b] = None]
          /\ app_buckets_map' = [app_buckets_map EXCEPT ![c][a] = @ \ {b}]
          /\ bucket_triggers_map' = [bucket_triggers_map EXCEPT ![c][b] = <<>>]
  /\ UNCHANGED <<manager, node_status_map, updates, worker>>

\* The orderly use of trigger names.
MayAdd(c, b, n) == "twice" \in Liberties \/ ~HasName(c, b, n)
MayDelete(c, b, n) ==
  "timed" \in Liberties \/ [name |-> n, timed |-> TRUE] \notin Range(bucket_triggers_map[c][b])

\* Mutant of add_trigger: the update is sent only when the add fails.
add_trigger_quiet(c, a, b, t) ==
  /\ Request(c, a, b)
  /\ MayAdd(c, b, t.name)
  /\ "timed" \in Liberties \/ ~t.timed
  /\ bucket_triggers_map' = IF Exists(c, b)
                            THEN [bucket_triggers_map EXCEPT ![c][b] = Append(@, t)]
                            ELSE bucket_triggers_map
  /\ Broadcast(c, Msg(0, a, None, None))
  /\ UNCHANGED <<manager, bucket_app_map, app_buckets_map, node_status_map, worker>>

\* A message goes to the nodes in any case; it names the trigger when the bucket
\* exists and the trigger is not BY_TIME.
add_trigger(c, a, b, t) ==
  /\ Request(c, a, b)
  /\ MayAdd(c, b, t.name)
  /\ "timed" \in Liberties \/ ~t.timed
  /\ bucket_triggers_map' = IF Exists(c, b)
                            THEN [bucket_triggers_map EXCEPT ![c][b] = Append(@, t)]
                            ELSE bucket_triggers_map
  /\ Broadcast(c, IF Exists(c, b) /\ ~t.timed THEN Msg(0, a, b, t.name) ELSE Msg(0, a, None, None))
  /\ UNCHANGED <<manager, bucket_app_map, app_buckets_map, node_status_map, worker>>

\* Every trigger of the name is erased.  The request carries no application.
delete_trigger(c, a, b, n) ==
  /\ Request(c, a, b)
  /\ MayDelete(c, b, n)
  /\ bucket_triggers_map' = IF Exists(c, b)
       THEN [bucket_triggers_map EXCEPT ![c][b] = SelectSeq(@, LAMBDA t : t.name # n)]
       ELSE bucket_triggers_map
  /\ Broadcast(c, IF Exists(c, b) /\ HasName(c, b, n) THEN Msg(2, None, b, n) ELSE Msg(0, None, None, None))
  /\ UNCHANGED <<manager, bucket_app_map, app_buckets_map, node_status_map, worker>>

\* An application is registered with one dependency: DIRECT needs no bucket, the
\* others make bucket b and a trigger, which for PERIODIC only the coordinator
\* has.
app_register_handler(c, a, b, t, direct) ==
  /\ Request(c, a, b)
  /\ MayAdd(c, b, t.name)
  /\ IF direct
     THEN /\ UNCHANGED <<bucket_app_map, app_buckets_map, bucket_triggers_map>>
          /\ Broadcast(c, Msg(0, a, None, None))
     ELSE /\ bucket_app_map' = [bucket_app_map EXCEPT ![c][b] = a]
          /\ app_buckets_map' = [app_buckets_map EXCEPT ![c][a] = @ \cup {b}]
          /\ bucket_triggers_map' = [bucket_triggers_map EXCEPT ![c][b] = Append(@, t)]
          /\ Broadcast(c, Msg(0, a, b, IF t.timed THEN None ELSE t.name))
  /\ UNCHANGED <<manager, node_status_map, worker>>

-----------------------------------------------------------------------------
(* The nodes                                                               *)

\* Mutant of WithUpdate: a new trigger is put in front.
WithUpdateFront(ts, b, m) ==
  CASE m.bucket = b /\ m.type = 0 /\ m.name # None -> <<m.name>> \o ts
    [] m.bucket = b /\ m.type = 2 -> RemoveFirst(ts, m.name)
    [] OTHER -> ts

\* The copies ts of bucket b's triggers after message m.
WithUpdate(ts, b, m) ==
  CASE m.bucket = b /\ m.type = 0 /\ m.name # None -> Append(ts, m.name)
    [] m.bucket = b /\ m.type = 2 -> RemoveFirst(ts, m.name)
    [] OTHER -> ts

\* A deletion that is not there: the search does not stop at the end.
Overruns(w, m) == m.type = 2 /\ ~Contains(triggers[w][m.bucket], m.name)

\* try_recv_msg takes the next update of a coordinator.
RecvUpdate(c, w) ==
  /\ w \notin down
  /\ updates[c][w] # <<>>
  /\ LET m == Head(updates[c][w]) IN
       /\ down' = IF Overruns(w, m) THEN down \cup {w} ELSE down
       /\ triggers' = [triggers EXCEPT ![w] = [b \in Buckets |-> WithUpdate(@[b], b, m)]]
       /\ bucket_coord_map' = IF m.type = 0 /\ m.bucket # None
                              THEN [bucket_coord_map EXCEPT ![w][m.bucket] = c]
                              ELSE bucket_coord_map
       /\ app_coord' = IF m.type = 0 /\ m.app # None
                       THEN [app_coord EXCEPT ![w][m.app] = c]
                       ELSE app_coord
  /\ updates' = [updates EXCEPT ![c][w] = Tail(@)]
  /\ UNCHANGED <<manager, coordinator, ops>>

\* Whom node w tells of an object of bucket b, None standing for "".
get_notifying_thread(w, b) == bucket_coord_map[w][b]

-----------------------------------------------------------------------------
\* The loop of a coordinator's thread takes one request at a time.
Serve(c) ==
  \/ \E w \in Nodes : update_status(c, w)
  \/ \E a \in Apps, b \in Buckets :
       \/ create_bucket(c, a, b)
       \/ delete_bucket(c, a, b)
       \/ \E n \in Names : delete_trigger(c, a, b, n)
       \/ \E t \in Trigger :
            \/ add_trigger(c, a, b, t)
            \/ \E direct \in BOOLEAN : app_register_handler(c, a, b, t, direct)

Next ==
  \/ \E c \in Coords : coord_sync(c) \/ Serve(c)
  \/ \E a \in Apps : coord_query(a)
  \/ \E c \in Coords, w \in Nodes : RecvUpdate(c, w)

Spec == Init /\ [][Next]_vars

\* Nodes go on taking in updates.
FairSpec == Spec /\ \A c \in Coords, w \in Nodes : WF_vars(RecvUpdate(c, w))

-----------------------------------------------------------------------------
(* Properties                                                              *)

\* The names of bucket b's triggers that the nodes should hold.
Shared(c, b) ==
  LET ts == SelectSeq(bucket_triggers_map[c][b], LAMBDA t : ~t.timed)
  IN  [i \in DOMAIN ts |-> ts[i].name]

\* What node w will hold for bucket b once c's updates have been taken in.
Settled(c, w, b) ==
  FoldLeft(LAMBDA ts, m : WithUpdate(ts, b, m), triggers[w][b], updates[c][w])

\* trigger_op_handler.cpp:19 "Update triggers to local schedulers": with the
\* updates on their way, a node's copies of a bucket's triggers are the
\* coordinator's, in the same order, after any sequence of adds, deletes,
\* registrations and bucket operations, and no deletion has sent the node past
\* the end of its vector (comm_helper.hpp:333-337).
TriggersInStep ==
  \A c \in Coords, b \in Buckets : \A w \in node_status_map[c] :
    w \notin down /\ (Exists(c, b) => Settled(c, w, b) = Shared(c, b))

\* A node that has taken in all updates announces the objects of a bucket with
\* triggers to the coordinator that has them (get_notifying_thread), and
\* forwards the calls of an application to the one coordinator the manager has
\* given it.
OwnersInStep ==
  /\ \A c \in Coords, b \in Buckets : \A w \in node_status_map[c] \ down :
       (bucket_triggers_map[c][b] # <<>> /\ updates[c][w] = <<>>) => get_notifying_thread(w, b) = c
  /\ \A w \in Nodes, a \in Apps : app_coord[w][a] \in {None, app_coord_map[a]}

\* What the nodes hold follows what coordinators and manager hold, in both senses.
NodesInStep == TriggersInStep /\ OwnersInStep

Shares(c, b, n) == Contains(Shared(c, b), n)

\* A trigger that stays is held by every node in the end.
EveryNodeLearns ==
  \A c \in Coords, w \in Nodes, b \in Buckets, n \in Names :
    Shares(c, b, n) ~> (Contains(triggers[w][b], n) \/ ~Shares(c, b, n))
=============================================================================
