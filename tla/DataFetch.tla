----------------------------- MODULE DataFetch ------------------------------
(***************************************************************************)
(* How workers move intermediate objects between them: a call that names   *)
(* objects its node does not hold waits there while they are fetched from  *)
(* the nodes that do.                                                      *)
(*                                                                         *)
(* An object belongs to a session; sessions of one workflow use the same   *)
(* bucket and key for it.                                                  *)
(*                                                                         *)
(*   made      bucket_key_address_map of the coordinator: the nodes that   *)
(*             have notified it of an object under a bucket and key,       *)
(*             whatever its session                                        *)
(*   told      the nodes that have notified it of the object itself, which *)
(*             is what its triggers see                                    *)
(*   have      key_len_map: the objects a node holds                       *)
(*   addr      key_address_cache_: where a node believes an object to be   *)
(*   routed    calls under way from the coordinator to a node, each with   *)
(*             the address of every object it names, or with the data      *)
(*             packed into it                                              *)
(*   stored    the call ids call_id_inflight_args_map has an entry for     *)
(*   inflight  inflight_args_ of those entries                             *)
(*   waiters   key_call_id_map: the calls that wait for an object          *)
(*   gets      key_remote_get_map: executors that wait for an object       *)
(*   answered  executors that got the object they asked for                *)
(*   reqs, resps  data requests and responses under way; "id" is the call  *)
(*             or the get the request was first made for                   *)
(*   ready     calls handed to schedule_func_call                          *)
(*   routes, runs  how often a call was routed and handed over             *)
(*   done      calls an executor has taken                                 *)
(***************************************************************************)
EXTENDS Integers, FiniteSets

CONSTANTS
  Nodes, Keys, Calls,
  KeyOf,       \* the bucket and key of an object, its session left out
  Order,       \* the order of addresses in a set<Address>
  Small,       \* objects whose notification carries the data
  Args,        \* the objects a call names
  Gets,        \* get requests of executors
  GetKey,      \* the object a get asks for
  GetNode,     \* the node it is made on
  Makers,      \* bound: the nodes that may make an object
  MaxRoutes,   \* bound: times a call is routed to a node
  Racy,        \* get_shm_obj reads key_len_map in an I/O thread while the
               \* scheduler's thread inserts some object
  NoNode       \* no address

ASSUME FetchAssumption ==
  /\ Order \in [Nodes -> Nat]
  /\ Small \subseteq Keys
  /\ Args \in [Calls -> SUBSET Keys]
  /\ GetKey \in [Gets -> Keys]
  /\ GetNode \in [Gets -> Nodes]
  /\ Makers \in [Keys -> SUBSET Nodes]
  /\ MaxRoutes \in Nat
  /\ Racy \in BOOLEAN
  /\ NoNode \notin Nodes

VARIABLES made, told, have, addr, routed, stored, inflight, waiters, gets, answered,
          reqs, resps, ready, routes, runs, done

vars == <<made, told, have, addr, routed, stored, inflight, waiters, gets, answered,
          reqs, resps, ready, routes, runs, done>>

Names   == {KeyOf[k] : k \in Keys}
Address == [Keys -> Nodes \cup {NoNode}]
Routed  == [call : Calls, to : Nodes, at : Address, packed : BOOLEAN]
Request == [from : Nodes, to : Nodes, key : Keys, id : Calls \cup Gets]
Ready   == [call : Calls, node : Nodes, packed : BOOLEAN]

Init ==
  /\ made = [b \in Names |-> {}]
  /\ told = [k \in Keys |-> {}]
  /\ have = [n \in Nodes |-> {}]
  /\ addr = [n \in Nodes |-> [k \in Keys |-> NoNode]]
  /\ routed = {}
  /\ stored = [n \in Nodes |-> {}]
  /\ inflight = [n \in Nodes |-> [c \in Calls |-> {}]]
  /\ waiters = [n \in Nodes |-> [k \in Keys |-> {}]]
  /\ gets = [n \in Nodes |-> [k \in Keys |-> {}]]
  /\ answered = {}
  /\ reqs = {}
  /\ resps = {}
  /\ ready = {}
  /\ routes = [c \in Calls |-> 0]
  /\ runs = [c \in Calls |-> 0]
  /\ done = {}

-----------------------------------------------------------------------------
\* update_address at the coordinator: the nodes that have an object of this
\* bucket and key; the session is not looked at.
UpdateAddress(n, k) == made' = [made EXCEPT ![KeyOf[k]] = @ \cup {n}]

\* An object is in a node's shared memory and in its key_len_map
\* (copy_to_shm_obj, for one that arrives).
Store(n, k) == have' = [have EXCEPT ![n] = @ \cup {k}]

\* A function on node n makes object k: key_len_map gets it and the coordinator
\* is notified.  Calls that wait on n for k are not looked at.
MakeObject(n, k) ==
  /\ n \in Makers[k] \ told[k]
  /\ Store(n, k)
  /\ UpdateAddress(n, k)
  /\ told' = [told EXCEPT ![k] = @ \cup {n}]
  /\ UNCHANGED <<addr, routed, stored, inflight, waiters, gets, answered,
                 reqs, resps, ready, routes, runs, done>>

\* The address a call gets for object k: the first one of the set kept for
\* its bucket and key.
FirstAddress(k, a) ==
  /\ a \in made[KeyOf[k]]
  /\ \A m \in made[KeyOf[k]] : Order[a] <= Order[m]

\* A trigger fires on objects it was notified of: the call goes to some node,
\* with the data packed into it when the coordinator has all of it, and
\* otherwise with one address per object.
RouteCall(c, n) ==
  /\ routes[c] = 0
  /\ MaxRoutes > 0
  /\ \A k \in Args[c] : told[k] # {}
  /\ LET all_object == Args[c] \subseteq Small
     IN \E at \in Address :
          /\ \A k \in Keys : IF k \in Args[c] /\ ~all_object THEN FirstAddress(k, at[k])
                                                          ELSE at[k] = NoNode
          /\ routed' = routed \cup {[call |-> c, to |-> n, at |-> at, packed |-> all_object]}
  /\ routes' = [routes EXCEPT ![c] = @ + 1]
  /\ UNCHANGED <<made, told, have, addr, stored, inflight, waiters, gets, answered,
                 reqs, resps, ready, runs, done>>

\* handle_function_call: emplace keeps the address that is there.
Learned(old, at) == [k \in Keys |-> IF old[k] # NoNode THEN old[k] ELSE at[k]]

\* schedule_func_call for the calls C on node n.
Schedule(C, n, packed) ==
  /\ ready' = ready \cup {[call |-> c, node |-> n, packed |-> packed] : c \in C}
  /\ runs' = [c \in Calls |-> IF c \in C THEN runs[c] + 1 ELSE runs[c]]

\* Mutant of Asked: the test inverted.
AskedAgain(n, missing) == {k \in missing : waiters[n][k] # {}}

\* "We only send the data query if there is no inflight one."
Asked(n, missing) == {k \in missing : waiters[n][k] = {}}

\* Mutant of Hold: the call does not wait for the objects others wait for.
HoldFirst(n, c, missing) ==
  /\ stored' = [stored EXCEPT ![n] = @ \cup {c}]
  /\ inflight' = [inflight EXCEPT ![n][c] = Asked(n, missing)]
  /\ waiters' = [waiters EXCEPT ![n] =
                   [k \in Keys |-> IF k \in missing THEN @[k] \cup {c} ELSE @[k]]]

\* The call waits for the missing objects.
Hold(n, c, missing) ==
  /\ stored' = [stored EXCEPT ![n] = @ \cup {c}]
  /\ inflight' = [inflight EXCEPT ![n][c] = missing]
  /\ waiters' = [waiters EXCEPT ![n] =
                   [k \in Keys |-> IF k \in missing THEN @[k] \cup {c} ELSE @[k]]]

RecvCall(m) ==
  LET n       == m.to
      c       == m.call
      a       == Learned(addr[n], m.at)
      missing == IF m.packed THEN {} ELSE Args[c] \ have[n]
  IN /\ m \in routed
     /\ routed' = routed \ {m}
     /\ addr' = [addr EXCEPT ![n] = a]
     /\ reqs' = reqs \cup {[from |-> n, to |-> a[k], key |-> k, id |-> c] : k \in Asked(n, missing)}
     /\ \/ /\ missing = {}
           /\ Schedule({c}, n, m.packed)
           /\ UNCHANGED <<stored, inflight, waiters>>
        \/ /\ missing # {}
           /\ Hold(n, c, missing)
           /\ UNCHANGED <<ready, runs>>
     /\ UNCHANGED <<made, told, have, gets, answered, resps, routes, done>>

\* An executor gets an object: answered at once, or asked for from the node
\* the cache names; with no address only the wait is recorded.
GetObject(g) ==
  LET n == GetNode[g]
      k == GetKey[g]
  IN /\ g \notin answered
     /\ g \notin gets[n][k]
     /\ \/ /\ k \in have[n]
           /\ answered' = answered \cup {g}
           /\ UNCHANGED <<gets, reqs>>
        \/ /\ k \notin have[n]
           /\ gets' = [gets EXCEPT ![n][k] = @ \cup {g}]
           /\ reqs' = IF addr[n][k] = NoNode THEN reqs
                      ELSE reqs \cup {[from |-> n, to |-> addr[n][k], key |-> k, id |-> g]}
           /\ UNCHANGED answered
     /\ UNCHANGED <<made, told, have, addr, routed, stored, inflight, waiters, resps,
                    ready, routes, runs, done>>

\* Mutant of ServeRequest: the response goes back to the node that sent it.
ServeSelf(r) ==
  /\ r \in reqs
  /\ reqs' = reqs \ {r}
  /\ resps' = resps \cup {[r EXCEPT !.from = r.to]}
  /\ UNCHANGED <<made, told, have, addr, routed, stored, inflight, waiters, gets,
                 answered, ready, routes, runs, done>>

\* get_shm_obj: a lookup that races with an insertion may miss what is there.
MayFind(n, k) == k \in have[n]
MayMiss(n, k) == k \notin have[n] \/ Racy

\* handle_data_request: an object that get_shm_obj does not find gets no
\* response.
ServeRequest(r) ==
  /\ r \in reqs
  /\ reqs' = reqs \ {r}
  /\ \/ /\ MayFind(r.to, r.key)
        /\ resps' = resps \cup {r}
     \/ /\ MayMiss(r.to, r.key)
        /\ UNCHANGED resps
  /\ UNCHANGED <<made, told, have, addr, routed, stored, inflight, waiters, gets,
                 answered, ready, routes, runs, done>>

\* The entry operator[] of call_id_inflight_args_map yields for a call id.
EntryOf(n, c) == IF c \in stored[n] THEN inflight[n][c] ELSE {}

\* Mutants of RecvData: the waiting calls stay listed under the object; a call
\* is handed over although other objects are missing; the object's arrival is
\* not entered in key_len_map.
KeepWaiters(p) ==
  LET n     == p.from
      k     == p.key
      woken == {c \in waiters[n][k] : EntryOf(n, c) \subseteq {k}}
  IN /\ p \in resps
     /\ resps' = resps \ {p}
     /\ Store(n, k)
     /\ answered' = answered \cup gets[n][k]
     /\ gets' = [gets EXCEPT ![n][k] = {}]
     /\ Schedule(woken, n, FALSE)
     /\ stored' = [stored EXCEPT ![n] = @ \ woken]
     /\ inflight' = [inflight EXCEPT ![n] =
                       [c \in Calls |-> IF c \in waiters[n][k] THEN @[c] \ {k} ELSE @[c]]]
     /\ UNCHANGED <<made, told, addr, routed, reqs, routes, done, waiters>>
WakeAll(p) ==
  LET n == p.from
      k == p.key
  IN /\ p \in resps
     /\ resps' = resps \ {p}
     /\ Store(n, k)
     /\ Schedule(waiters[n][k], n, FALSE)
     /\ waiters' = [waiters EXCEPT ![n][k] = {}]
     /\ UNCHANGED <<made, told, addr, routed, stored, inflight, gets, answered, reqs, routes, done>>

NotEntered(p) ==
  LET n     == p.from
      k     == p.key
      woken == {c \in waiters[n][k] : EntryOf(n, c) \subseteq {k}}
  IN /\ p \in resps
     /\ resps' = resps \ {p}
     /\ Schedule(woken, n, FALSE)
     /\ stored' = [stored EXCEPT ![n] = @ \ woken]
     /\ inflight' = [inflight EXCEPT ![n] =
                       [c \in Calls |-> IF c \in waiters[n][k] THEN @[c] \ {k} ELSE @[c]]]
     /\ waiters' = [waiters EXCEPT ![n][k] = {}]
     /\ UNCHANGED <<made, told, have, addr, routed, gets, answered, reqs, routes, done>>

\* handle_data_response and the scheduler's DataResp branch.
RecvData(p) ==
  LET n     == p.from
      k     == p.key
      woken == {c \in waiters[n][k] : EntryOf(n, c) \subseteq {k}}
  IN /\ p \in resps
     /\ resps' = resps \ {p}
     /\ Store(n, k)
     /\ answered' = answered \cup gets[n][k]
     /\ gets' = [gets EXCEPT ![n][k] = {}]
     /\ Schedule(woken, n, FALSE)
     /\ stored' = [stored EXCEPT ![n] = @ \ woken]
     /\ inflight' = [inflight EXCEPT ![n] =
                       [c \in Calls |-> IF c \in waiters[n][k] THEN @[c] \ {k} ELSE @[c]]]
     /\ waiters' = [waiters EXCEPT ![n][k] = {}]
     /\ UNCHANGED <<made, told, addr, routed, reqs, routes, done>>

\* An executor of the node takes the call.
Run(r) ==
  /\ r \in ready
  /\ ready' = ready \ {r}
  /\ done' = done \cup {r.call}
  /\ UNCHANGED <<made, told, have, addr, routed, stored, inflight, waiters, gets,
                 answered, reqs, resps, routes, runs>>

\* forward_func_call names the forwarding node as the place of every object.
ForwardAddress(r) ==
  [k \in Keys |-> IF k \in Args[r.call] /\ ~r.packed THEN r.node ELSE NoNode]

\* No executor is free: forward_call_via_helper, with the data packed into the
\* call where it is small, and the coordinator routes the call again.
Forward(r, n) ==
  /\ r \in ready
  /\ routes[r.call] < MaxRoutes
  /\ ready' = ready \ {r}
  /\ \E pack \in BOOLEAN :
       routed' = routed \cup
         {[call |-> r.call, to |-> n, at |-> ForwardAddress(r), packed |-> r.packed \/ pack]}
  /\ routes' = [routes EXCEPT ![r.call] = @ + 1]
  /\ UNCHANGED <<made, told, have, addr, stored, inflight, waiters, gets, answered,
                 reqs, resps, runs, done>>

-----------------------------------------------------------------------------
Next ==
  \/ \E n \in Nodes, k \in Keys : MakeObject(n, k)
  \/ \E c \in Calls, n \in Nodes : RouteCall(c, n)
  \/ \E m \in routed : RecvCall(m)
  \/ \E g \in Gets : GetObject(g)
  \/ \E r \in reqs : ServeRequest(r)
  \/ \E p \in resps : RecvData(p)
  \/ \E r \in ready : Run(r)
  \/ \E r \in ready, n \in Nodes : Forward(r, n)

Spec == Init /\ [][Next]_vars

\* Schedulers and I/O threads poll for ever and an executor becomes free.
Fairness ==
  /\ WF_vars(\E m \in routed : RecvCall(m))
  /\ WF_vars(\E r \in reqs : ServeRequest(r))
  /\ WF_vars(\E p \in resps : RecvData(p))
  /\ WF_vars(\E r \in ready : Run(r))

FairSpec == Spec /\ Fairness

-----------------------------------------------------------------------------
(* Properties                                                              *)

\* Every variable stays in its range.
TypeOK ==
  /\ made \in [Names -> SUBSET Nodes]
  /\ told \in [Keys -> SUBSET Nodes]
  /\ have \in [Nodes -> SUBSET Keys]
  /\ addr \in [Nodes -> Address]
  /\ routed \in SUBSET Routed
  /\ stored \in [Nodes -> SUBSET Calls]
  /\ inflight \in [Nodes -> [Calls -> SUBSET Keys]]
  /\ waiters \in [Nodes -> [Keys -> SUBSET Calls]]
  /\ gets \in [Nodes -> [Keys -> SUBSET Gets]]
  /\ answered \in SUBSET Gets
  /\ reqs \in SUBSET Request
  /\ resps \in SUBSET Request
  /\ ready \in SUBSET Ready
  /\ routes \in [Calls -> Nat]
  /\ runs \in [Calls -> Nat]
  /\ done \in SUBSET Calls

\* Node a is in the address map for the bucket and key of object k because it
\* made the object of another session.
OthersNode(a, k) == \E j \in Keys \ {k} : KeyOf[j] = KeyOf[k] /\ a \in told[j]

\* Every address a node uses or passes on is that of a node that holds the
\* object, addresses learned long ago and forwarded calls included, so
\* handle_data_request finds what it is asked for.  The one exception is the
\* node another session's object of the same key was made on
\* (notify_handler.cpp:127 "TODO session support").
Holds(a, k) == k \in have[a] \/ OthersNode(a, k)
MadeIsHeld == \A k \in Keys : \A n \in made[KeyOf[k]] : Holds(n, k)
RoutedAddressHolds ==
  \A m \in routed :
    /\ \A k \in Keys : m.at[k] = NoNode \/ Holds(m.at[k], k)
    /\ m.packed \/ \A k \in Args[m.call] : m.at[k] # NoNode
CachedAddressHolds ==
  \A n \in Nodes, k \in Keys : addr[n][k] = NoNode \/ Holds(addr[n][k], k)
AddressesHold ==
  /\ MadeIsHeld
  /\ RoutedAddressHolds
  /\ CachedAddressHolds
  /\ \A r \in reqs : Holds(r.to, r.key)

\* The two maps of waiting calls describe the same waits.  The DataResp branch
\* (scheduler_server.cpp:571-590) relies on it: a call id listed for an object
\* but without an entry would be scheduled as a nameless call, an entry that is
\* not listed would wait for ever.
WaitsAgree ==
  \A n \in Nodes, c \in Calls :
    /\ c \in stored[n] => inflight[n][c] # {}
    /\ \A k \in Keys : c \in waiters[n][k] <=> (c \in stored[n] /\ k \in inflight[n][c])

\* A call reaches schedule_func_call only where all the objects it names are:
\* key_len_map[key] is read for each of them (scheduler_server.cpp:532, 577).
ReadyHasData ==
  \A r \in ready : r.packed \/ Args[r.call] \subseteq have[r.node]

\* A call that is routed is handed to schedule_func_call once, also when its
\* last two objects arrive together or it comes back from another node.
ScheduledOnce ==
  \A c \in Calls :
    routes[c] = runs[c] + Cardinality({m \in routed : m.call = c})
                        + Cardinality({n \in Nodes : c \in stored[n]})

\* scheduler_server.cpp:518 "we only send the data query if there is no inflight
\* one": key_call_id_map lists an object only while a request or a response for
\* it is under way, so a call that sends no query of its own is woken by
\* somebody else's - unless the query went to another session's node, which
\* does not answer (comm_helper.hpp:644-646).
InflightIsReal ==
  \A n \in Nodes, k \in Keys :
    waiters[n][k] # {} => \/ \E r \in reqs \cup resps : r.from = n /\ r.key = k
                          \/ OthersNode(addr[n][k], k)

\* A call waits for an object that was asked of another session's node, which
\* does not hold it, and nothing for the object is under way.
Stranded(c) ==
  \E n \in Nodes, k \in Keys :
    /\ c \in stored[n]
    /\ k \in inflight[n][c]
    /\ OthersNode(addr[n][k], k)
    /\ ~\E r \in reqs \cup resps : r.from = n /\ r.key = k

\* Every call that is routed is run in the end; the only calls that never are
\* wait for ever for an object whose address is that of another session.
EveryCallRuns ==
  \A c \in Calls : <>[](routes[c] > 0 => c \in done \/ Stranded(c))
=============================================================================
