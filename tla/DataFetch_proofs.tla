-------------------------- MODULE DataFetch_proofs --------------------------
(***************************************************************************)
(* Theorems about DataFetch: types, that every address in use leads to the *)
(* object or to a node of another session, that the two maps of waiting    *)
(* calls agree, that a call that is handed over has its objects and was    *)
(* handed over once per route, and that every wait has a request or a      *)
(* response under way unless it was asked of such a node.                  *)
(*                                                                         *)
(* None of these is inductive alone.  That the maps agree needs that a     *)
(* call is in one place at a time (OnePlace): a call routed to a node that *)
(* already waits for it would overwrite its entry.  That every wait is     *)
(* answered needs that addresses lead to the object, and that a request    *)
(* was sent to the address that is cached (AskedAtAddress).                *)
(***************************************************************************)
EXTENDS DataFetch, TLAPS

USE DEF UpdateAddress, Store, MayFind, MayMiss

-----------------------------------------------------------------------------
(* The inductive invariant                                                 *)

\* A call is nowhere before it is routed and in one place after that: under way
\* to a node, waiting on a node, or handed over.
OnePlace ==
  /\ \A m1, m2 \in routed : m1.call = m2.call => m1 = m2
  /\ \A r1, r2 \in ready : r1.call = r2.call => r1 = r2
  /\ \A m \in routed, r \in ready : m.call # r.call
  /\ \A n \in Nodes : \A c \in stored[n] :
       /\ \A m \in routed : m.call # c
       /\ \A r \in ready : r.call # c
       /\ \A o \in Nodes : c \in stored[o] => o = n
  /\ \A c \in Calls : routes[c] = 0 =>
       /\ \A m \in routed : m.call # c
       /\ \A r \in ready : r.call # c
       /\ \A n \in Nodes : c \notin stored[n]

\* A call is under way to a node or waits on one.
Outstanding(c) == (\E m \in routed : m.call = c) \/ (\E n \in Nodes : c \in stored[n])

\* Every route of a call has led to a hand-over, except one that is outstanding.
Balance == \A c \in Calls : routes[c] = IF Outstanding(c) THEN runs[c] + 1 ELSE runs[c]

\* A call that waits lacks nothing but the objects of its entry.
WaitingLacks ==
  \A n \in Nodes : \A c \in stored[n] : Args[c] \subseteq have[n] \cup inflight[n][c]

\* A request goes where the node believes the object to be.
AskedAtAddress == \A r \in reqs : r.to = addr[r.from][r.key]

IInv ==
  /\ TypeOK
  /\ AddressesHold
  /\ WaitsAgree
  /\ ReadyHasData
  /\ WaitingLacks
  /\ OnePlace
  /\ Balance
  /\ AskedAtAddress
  /\ Racy \/ InflightIsReal

-----------------------------------------------------------------------------
(* Type correctness                                                        *)

LEMMA InitType == Init => TypeOK
BY FetchAssumption DEF Init, TypeOK, Address

LEMMA MakeObjectType ==
  ASSUME TypeOK, NEW n \in Nodes, NEW k \in Keys, MakeObject(n, k)
  PROVE  TypeOK'
<1>1. KeyOf[k] \in Names
  BY Zenon DEF Names
<1>2. made' \in [Names -> SUBSET Nodes] /\ told' \in [Keys -> SUBSET Nodes]
  BY <1>1 DEF TypeOK, MakeObject
<1>3. QED
  BY <1>2, Zenon DEF TypeOK, MakeObject

\* The message RouteCall sends, with its parts named.
LEMMA RouteCallNamed ==
  ASSUME NEW c \in Calls, NEW n \in Nodes, RouteCall(c, n)
  PROVE  \E at \in Address, all \in BOOLEAN :
           /\ \A k \in Keys : at[k] = NoNode \/ at[k] \in made[KeyOf[k]]
           /\ all \/ \A k \in Args[c] : at[k] \in made[KeyOf[k]]
           /\ routed' = routed \cup {[call |-> c, to |-> n, at |-> at, packed |-> all]}
<1>1. PICK all \in BOOLEAN : all = (Args[c] \subseteq Small)
  BY Zenon
<1>2. PICK at \in Address :
        /\ \A k \in Keys : IF k \in Args[c] /\ ~all THEN FirstAddress(k, at[k])
                                                 ELSE at[k] = NoNode
        /\ routed' = routed \cup {[call |-> c, to |-> n, at |-> at, packed |-> all]}
  BY <1>1, Zenon DEF RouteCall
<1>3. \A k \in Keys : at[k] = NoNode \/ at[k] \in made[KeyOf[k]]
  BY <1>2, Zenon DEF FirstAddress
<1>4. all \/ \A k \in Args[c] : at[k] \in made[KeyOf[k]]
  BY <1>2, FetchAssumption, Zenon DEF FirstAddress
<1>5. QED
  BY <1>2, <1>3, <1>4, Zenon

LEMMA RouteCallType ==
  ASSUME TypeOK, NEW c \in Calls, NEW n \in Nodes, RouteCall(c, n)
  PROVE  TypeOK'
<1>1. PICK at \in Address, all \in BOOLEAN :
        routed' = routed \cup {[call |-> c, to |-> n, at |-> at, packed |-> all]}
  BY RouteCallNamed, Zenon
<1>2. [call |-> c, to |-> n, at |-> at, packed |-> all] \in Routed
  BY Zenon DEF Routed
<1>3. routed' \in SUBSET Routed
  BY <1>1, <1>2, Zenon DEF TypeOK
<1>4. QED
  BY <1>3 DEF TypeOK, RouteCall

LEMMA LearnedType ==
  ASSUME NEW old \in Address, NEW at \in Address
  PROVE  Learned(old, at) \in Address
BY Zenon DEF Learned, Address

LEMMA ScheduleType ==
  ASSUME TypeOK, NEW C \in SUBSET Calls, NEW n \in Nodes, NEW p \in BOOLEAN,
         Schedule(C, n, p)
  PROVE  ready' \in SUBSET Ready /\ runs' \in [Calls -> Nat]
BY DEF TypeOK, Schedule, Ready

LEMMA HoldType ==
  ASSUME TypeOK, NEW n \in Nodes, NEW c \in Calls, NEW missing \in SUBSET Keys,
         Hold(n, c, missing)
  PROVE  /\ stored' \in [Nodes -> SUBSET Calls]
         /\ inflight' \in [Nodes -> [Calls -> SUBSET Keys]]
         /\ waiters' \in [Nodes -> [Keys -> SUBSET Calls]]
BY DEF TypeOK, Hold

LEMMA GetObjectType ==
  ASSUME TypeOK, NEW g \in Gets, GetObject(g)
  PROVE  TypeOK'
<1>1. PICK n \in Nodes, k \in Keys : n = GetNode[g] /\ k = GetKey[g]
  BY FetchAssumption, Zenon
<1>2. addr[n][k] \in Nodes \cup {NoNode}
  BY DEF TypeOK, Address
<1>3. reqs' \in SUBSET Request
  BY <1>1, <1>2 DEF TypeOK, GetObject, Request
<1>4. gets' \in [Nodes -> [Keys -> SUBSET Gets]]
  <2>1. CASE gets' = gets
    BY <2>1, Zenon DEF TypeOK
  <2>2. CASE gets' = [gets EXCEPT ![n][k] = @ \cup {g}]
    BY <2>2, Zenon DEF TypeOK
  <2>3. QED
    BY <1>1, <2>1, <2>2, Zenon DEF GetObject
<1>6. answered' \in SUBSET Gets
  BY Zenon DEF TypeOK, GetObject
<1>5. QED
  BY <1>3, <1>4, <1>6, Zenon DEF TypeOK, GetObject

LEMMA ServeRequestType ==
  ASSUME TypeOK, NEW r \in reqs, ServeRequest(r)
  PROVE  TypeOK'
BY Zenon DEF TypeOK, ServeRequest

LEMMA RecvDataType ==
  ASSUME TypeOK, NEW p \in resps, RecvData(p)
  PROVE  TypeOK'
<1>0. p \in Request
  BY Zenon DEF TypeOK
<1>1. p.from \in Nodes /\ p.key \in Keys
  BY <1>0, Zenon DEF Request
<1>2. PICK n \in Nodes, k \in Keys : n = p.from /\ k = p.key
  BY <1>1, Zenon
<1>3. PICK woken \in SUBSET Calls :
        woken = {c \in waiters[n][k] : EntryOf(n, c) \subseteq {k}}
  <2>1. waiters[n][k] \in SUBSET Calls
    BY DEF TypeOK
  <2>2. {c \in waiters[n][k] : EntryOf(n, c) \subseteq {k}} \in SUBSET Calls
    BY <2>1, Zenon
  <2>3. QED
    BY <2>2, Zenon
<1>4. Schedule(woken, n, FALSE)
  BY <1>2, <1>3, Zenon DEF RecvData
<1>5. ready' \in SUBSET Ready /\ runs' \in [Calls -> Nat]
  BY <1>4, ScheduleType, Zenon
<1>6. QED
  BY <1>2, <1>3, <1>5 DEF TypeOK, RecvData

LEMMA RunType ==
  ASSUME TypeOK, NEW r \in ready, Run(r)
  PROVE  TypeOK'
BY Zenon DEF TypeOK, Run, Ready

LEMMA ForwardType ==
  ASSUME TypeOK, NEW r \in ready, NEW n \in Nodes, Forward(r, n)
  PROVE  TypeOK'
<1>1. r.call \in Calls /\ r.node \in Nodes /\ r.packed \in BOOLEAN
  BY Zenon DEF TypeOK, Ready
<1>2. ForwardAddress(r) \in Address
  BY <1>1, Zenon DEF ForwardAddress, Address
<1>3. PICK at \in Address : at = ForwardAddress(r)
  BY <1>2, Zenon
<1>4. routed' \in SUBSET Routed
  BY <1>1, <1>3 DEF TypeOK, Forward, Routed
<1>5. QED
  BY <1>1, <1>4 DEF TypeOK, Forward

\* What RecvCall does, with its local definitions named.
RecvCallParts(m, n, c, a, missing) ==
  /\ n = m.to
  /\ c = m.call
  /\ a = Learned(addr[n], m.at)
  /\ missing = IF m.packed THEN {} ELSE Args[c] \ have[n]
  /\ routed' = routed \ {m}
  /\ addr' = [addr EXCEPT ![n] = a]
  /\ reqs' = reqs \cup {[from |-> n, to |-> a[k], key |-> k, id |-> c] : k \in Asked(n, missing)}
  /\ \/ /\ missing = {}
        /\ Schedule({c}, n, m.packed)
        /\ UNCHANGED <<stored, inflight, waiters>>
     \/ /\ missing # {}
        /\ Hold(n, c, missing)
        /\ UNCHANGED <<ready, runs>>
  /\ UNCHANGED <<made, told, have, gets, answered, resps, routes, done>>

\* An object the call lacks has, after RecvCall, an address that leads to it.
LEMMA RecvCallNamed ==
  ASSUME TypeOK, AddressesHold, NEW m \in routed, RecvCall(m)
  PROVE  \E n \in Nodes, c \in Calls, a \in Address, missing \in SUBSET Keys :
           /\ RecvCallParts(m, n, c, a, missing)
           /\ \A k \in Keys : a[k] # NoNode => a[k] \in Nodes /\ Holds(a[k], k)
           /\ \A k \in missing : a[k] \in Nodes /\ Holds(a[k], k)
<1>1. m \in Routed
  BY Zenon DEF TypeOK
<1>2. m.to \in Nodes /\ m.call \in Calls /\ m.at \in Address /\ m.packed \in BOOLEAN
  BY <1>1, Zenon DEF Routed
<1>3. PICK n \in Nodes, c \in Calls, at \in Address : n = m.to /\ c = m.call /\ at = m.at
  BY <1>2, Zenon
<1>4. addr[n] \in Address
  BY Zenon DEF TypeOK
<1>5. PICK a \in Address : a = Learned(addr[n], at)
  BY <1>4, LearnedType, Zenon
<1>6. Args[c] \in SUBSET Keys
  BY FetchAssumption, Zenon
<1>7. PICK missing \in SUBSET Keys : missing = IF m.packed THEN {} ELSE Args[c] \ have[n]
  BY <1>6, Zenon
<1>8. RecvCallParts(m, n, c, a, missing)
  BY <1>3, <1>5, <1>7, Zenon DEF RecvCall, RecvCallParts
<1>9. \A k \in Keys : a[k] = IF addr[n][k] # NoNode THEN addr[n][k] ELSE at[k]
  BY <1>5, Zenon DEF Learned
<1>10. \A k \in Keys : /\ addr[n][k] = NoNode \/ Holds(addr[n][k], k)
                       /\ at[k] = NoNode \/ Holds(at[k], k)
  BY <1>3, Zenon DEF AddressesHold, CachedAddressHolds, RoutedAddressHolds
<1>11. \A k \in Keys : a[k] # NoNode => a[k] \in Nodes /\ Holds(a[k], k)
  BY <1>9, <1>10, Zenon DEF Address
<1>12. \A k \in missing : at[k] # NoNode
  BY <1>3, <1>7, Zenon DEF AddressesHold, RoutedAddressHolds
<1>13. \A k \in missing : a[k] \in Nodes /\ Holds(a[k], k)
  BY <1>9, <1>11, <1>12, Zenon
<1>14. QED
  BY <1>8, <1>11, <1>13, Zenon

LEMMA RecvCallType ==
  ASSUME TypeOK, AddressesHold, NEW m \in routed, RecvCall(m)
  PROVE  TypeOK'
<1>1. PICK n \in Nodes, c \in Calls, a \in Address, missing \in SUBSET Keys :
        /\ RecvCallParts(m, n, c, a, missing)
        /\ \A k \in missing : a[k] \in Nodes /\ Holds(a[k], k)
  BY RecvCallNamed, Zenon
<1>2. m.packed \in BOOLEAN
  BY Zenon DEF TypeOK, Routed
<1>3. reqs' \in SUBSET Request
  <2>1. Asked(n, missing) \subseteq missing
    BY Zenon DEF Asked
  <2>2. \A k \in Asked(n, missing) : [from |-> n, to |-> a[k], key |-> k, id |-> c] \in Request
    <3>1. \A t \in Nodes, k \in Keys : [from |-> n, to |-> t, key |-> k, id |-> c] \in Request
      BY Zenon DEF Request
    <3>2. \A k \in Asked(n, missing) : k \in Keys /\ a[k] \in Nodes
      BY <1>1, <2>1, Zenon
    <3>3. QED
      BY <3>1, <3>2, Zenon
  <2>3. reqs' = reqs \cup {[from |-> n, to |-> a[k], key |-> k, id |-> c] : k \in Asked(n, missing)}
    BY <1>1, Zenon DEF RecvCallParts
  <2>4. reqs \in SUBSET Request
    BY Zenon DEF TypeOK
  <2>5. QED
    BY <2>2, <2>3, <2>4, Zenon
<1>4. addr' \in [Nodes -> Address] /\ routed' \in SUBSET Routed
  BY <1>1, Zenon DEF TypeOK, RecvCallParts
<1>5. /\ ready' \in SUBSET Ready
      /\ runs' \in [Calls -> Nat]
      /\ stored' \in [Nodes -> SUBSET Calls]
      /\ inflight' \in [Nodes -> [Calls -> SUBSET Keys]]
      /\ waiters' \in [Nodes -> [Keys -> SUBSET Calls]]
  <2>1. CASE Schedule({c}, n, m.packed) /\ UNCHANGED <<stored, inflight, waiters>>
    <3>1. {c} \in SUBSET Calls
      BY Zenon
    <3>2. ready' \in SUBSET Ready /\ runs' \in [Calls -> Nat]
      BY <1>2, <2>1, <3>1, ScheduleType, Zenon
    <3>3. QED
      BY <2>1, <3>2, Zenon DEF TypeOK
  <2>2. CASE Hold(n, c, missing) /\ UNCHANGED <<ready, runs>>
    BY <2>2, HoldType, Zenon DEF TypeOK
  <2>3. QED
    BY <1>1, <2>1, <2>2, Zenon DEF RecvCallParts
<1>6. QED
  BY <1>1, <1>3, <1>4, <1>5, Zenon DEF TypeOK, RecvCallParts

LEMMA NextType ==
  ASSUME TypeOK, AddressesHold, [Next]_vars
  PROVE  TypeOK'
<1>1. CASE UNCHANGED vars
  BY <1>1, Zenon DEF TypeOK, vars
<1>2. QED
  BY <1>1, MakeObjectType, RouteCallType, RecvCallType, GetObjectType, ServeRequestType,
     RecvDataType, RunType, ForwardType, Zenon DEF Next

-----------------------------------------------------------------------------
(* Addresses lead to the object                                            *)

\* Nodes never forget an object, nor the coordinator a notification.
LEMMA HaveGrows ==
  ASSUME TypeOK, [Next]_vars
  PROVE  /\ \A n \in Nodes : have[n] \subseteq have'[n]
         /\ \A k \in Keys : told[k] \subseteq told'[k]
<1>1. CASE UNCHANGED <<have, told>>
  BY <1>1, Zenon
<1>2. ASSUME NEW n \in Nodes, NEW k \in Keys, MakeObject(n, k)
      PROVE  /\ \A x \in Nodes : have[x] \subseteq have'[x]
             /\ \A j \in Keys : told[j] \subseteq told'[j]
  BY <1>2, Zenon DEF MakeObject, TypeOK
<1>3. ASSUME NEW p \in resps, RecvData(p)
      PROVE  (\A x \in Nodes : have[x] \subseteq have'[x]) /\ told' = told
  BY <1>3, Zenon DEF RecvData, TypeOK
<1>4. ASSUME NEW m \in routed, RecvCall(m)
      PROVE  UNCHANGED <<have, told>>
  BY <1>4, Zenon DEF RecvCall
<1>5. QED
  BY <1>1, <1>2, <1>3, <1>4, Zenon DEF Next, vars, RouteCall, GetObject, ServeRequest, Run, Forward

\* So an address that is good stays good.
LEMMA HoldsGrows ==
  ASSUME \A n \in Nodes : have[n] \subseteq have'[n],
         \A k \in Keys : told[k] \subseteq told'[k]
  PROVE  /\ \A a \in Nodes, k \in Keys : Holds(a, k) => Holds(a, k)'
         /\ \A a, k : OthersNode(a, k) => OthersNode(a, k)'
<1>1. \A a, k : OthersNode(a, k) => OthersNode(a, k)'
  BY Zenon DEF OthersNode
<1>2. QED
  BY <1>1, Zenon DEF Holds

LEMMA HoldsSame ==
  ASSUME UNCHANGED <<have, told>>
  PROVE  \A a, k : Holds(a, k)' <=> Holds(a, k)
BY Zenon DEF Holds, OthersNode

\* AddressesHold is kept by a step after which only the objects' places, none of
\* the addresses, have changed.
LEMMA SameAddresses ==
  ASSUME TypeOK, TypeOK', AddressesHold,
         \A n \in Nodes : have[n] \subseteq have'[n],
         \A k \in Keys : told[k] \subseteq told'[k],
         UNCHANGED addr, routed' \subseteq routed, reqs' \subseteq reqs
  PROVE  /\ RoutedAddressHolds'
         /\ CachedAddressHolds'
         /\ \A r \in reqs' : Holds(r.to, r.key)'
         /\ UNCHANGED made => MadeIsHeld'
<1>0. \A a \in Nodes, k \in Keys : Holds(a, k) => Holds(a, k)'
  BY HoldsGrows, Zenon
<1>1. ASSUME UNCHANGED made PROVE MadeIsHeld'
  <2>1. SUFFICES ASSUME NEW k \in Keys, NEW n \in made[KeyOf[k]] PROVE Holds(n, k)'
    BY <1>1, Zenon DEF MadeIsHeld
  <2>2. n \in Nodes
    <3>1. KeyOf[k] \in Names
      BY Zenon DEF Names
    <3>2. QED
      BY <3>1, Zenon DEF TypeOK
  <2>3. QED
    BY <1>0, <2>2, Zenon DEF AddressesHold, MadeIsHeld
<1>2. RoutedAddressHolds'
  <2>1. SUFFICES ASSUME NEW m \in routed
        PROVE  /\ \A k \in Keys : m.at[k] = NoNode \/ Holds(m.at[k], k)'
               /\ m.packed \/ \A k \in Args[m.call] : m.at[k] # NoNode
    BY Zenon DEF RoutedAddressHolds
  <2>2. m.at \in Address
    BY Zenon DEF TypeOK, Routed
  <2>3. \A k \in Keys : m.at[k] = NoNode \/ m.at[k] \in Nodes
    BY <2>2, Zenon DEF Address
  <2>4. QED
    BY <1>0, <2>3, Zenon DEF AddressesHold, RoutedAddressHolds
<1>3. CachedAddressHolds'
  <2>1. \A n \in Nodes, k \in Keys : addr[n][k] = NoNode \/ addr[n][k] \in Nodes
    BY DEF TypeOK, Address
  <2>2. QED
    BY <1>0, <2>1, Zenon DEF AddressesHold, CachedAddressHolds
<1>4. \A r \in reqs' : Holds(r.to, r.key)'
  <2>1. \A r \in reqs : r.to \in Nodes /\ r.key \in Keys
    BY Zenon DEF TypeOK, Request
  <2>2. QED
    BY <1>0, <2>1, Zenon DEF AddressesHold
<1>5. QED
  BY <1>1, <1>2, <1>3, <1>4, Zenon

LEMMA MakeObjectAddresses ==
  ASSUME TypeOK, TypeOK', AddressesHold, [Next]_vars,
         NEW n \in Nodes, NEW k \in Keys, MakeObject(n, k)
  PROVE  AddressesHold'
<1>1. /\ \A x \in Nodes : have[x] \subseteq have'[x]
      /\ \A j \in Keys : told[j] \subseteq told'[j]
      /\ k \in have'[n]
      /\ n \in told'[k]
  <2>1. k \in have'[n]
    BY DEF MakeObject, TypeOK
  <2>2. n \in told'[k]
    BY DEF MakeObject, TypeOK
  <2>3. QED
    BY <2>1, <2>2, HaveGrows, Zenon
<1>2. MadeIsHeld'
  <2>1. SUFFICES ASSUME NEW j \in Keys, NEW x \in made'[KeyOf[j]] PROVE Holds(x, j)'
    BY Zenon DEF MadeIsHeld
  <2>2. KeyOf[j] \in Names
    BY Zenon DEF Names
  <2>3. x \in made[KeyOf[j]] \/ (x = n /\ KeyOf[j] = KeyOf[k])
    <3>1. made' = [made EXCEPT ![KeyOf[k]] = @ \cup {n}] /\ made \in [Names -> SUBSET Nodes]
      BY Zenon DEF MakeObject, TypeOK
    <3>2. QED
      BY <2>1, <2>2, <3>1
  <2>4. CASE x \in made[KeyOf[j]]
    <3>1. x \in Nodes /\ Holds(x, j)
      BY <2>2, <2>4, Zenon DEF AddressesHold, MadeIsHeld, TypeOK
    <3>2. QED
      BY <1>1, <3>1, HoldsGrows, Zenon
  <2>5. CASE x = n /\ KeyOf[j] = KeyOf[k]
    <3>1. CASE j = k
      BY <1>1, <2>5, <3>1, Zenon DEF Holds
    <3>2. CASE j # k
      BY <1>1, <2>5, <3>2, Zenon DEF Holds, OthersNode
    <3>3. QED
      BY <3>1, <3>2, Zenon
  <2>6. QED
    BY <2>3, <2>4, <2>5, Zenon
<1>3. UNCHANGED <<addr, routed, reqs>>
  BY Zenon DEF MakeObject
<1>4. RoutedAddressHolds' /\ CachedAddressHolds' /\ \A r \in reqs' : Holds(r.to, r.key)'
  BY <1>1, <1>3, SameAddresses, Zenon
<1>5. QED
  BY <1>2, <1>4, Zenon DEF AddressesHold

LEMMA RouteCallAddresses ==
  ASSUME TypeOK, AddressesHold, NEW c \in Calls, NEW n \in Nodes, RouteCall(c, n)
  PROVE  AddressesHold'
<1>1. PICK at \in Address, all \in BOOLEAN :
        /\ \A k \in Keys : at[k] = NoNode \/ at[k] \in made[KeyOf[k]]
        /\ all \/ \A k \in Args[c] : at[k] \in made[KeyOf[k]]
        /\ routed' = routed \cup {[call |-> c, to |-> n, at |-> at, packed |-> all]}
  BY RouteCallNamed, Zenon
<1>2. PICK m : m = [call |-> c, to |-> n, at |-> at, packed |-> all]
  BY Zenon
<1>3. m.call = c /\ m.at = at /\ m.packed = all
  BY <1>2, Zenon
<1>4. \A k \in Keys : at[k] = NoNode \/ Holds(at[k], k)
  BY <1>1, Zenon DEF AddressesHold, MadeIsHeld
<1>5. all \/ \A k \in Args[c] : at[k] # NoNode
  BY <1>1, FetchAssumption, Zenon DEF TypeOK, Names
<1>6. \A a, k : Holds(a, k)' <=> Holds(a, k)
  BY HoldsSame, Zenon DEF RouteCall
<1>7. RoutedAddressHolds'
  <2>1. routed' = routed \cup {m}
    BY <1>1, <1>2, Zenon
  <2>2. QED
    BY <1>3, <1>4, <1>5, <1>6, <2>1, Zenon DEF AddressesHold, RoutedAddressHolds
<1>8. MadeIsHeld' /\ CachedAddressHolds' /\ \A r \in reqs' : Holds(r.to, r.key)'
  BY <1>6, Zenon DEF AddressesHold, MadeIsHeld, CachedAddressHolds, RouteCall
<1>9. QED
  BY <1>7, <1>8, Zenon DEF AddressesHold

LEMMA RecvCallAddresses ==
  ASSUME TypeOK, AddressesHold, NEW m \in routed, RecvCall(m)
  PROVE  AddressesHold'
<1>1. PICK n \in Nodes, c \in Calls, a \in Address, missing \in SUBSET Keys :
        /\ RecvCallParts(m, n, c, a, missing)
        /\ \A k \in Keys : a[k] # NoNode => a[k] \in Nodes /\ Holds(a[k], k)
        /\ \A k \in missing : a[k] \in Nodes /\ Holds(a[k], k)
  BY RecvCallNamed, Zenon
<1>2. made' = made /\ routed' = routed \ {m} /\ addr' = [addr EXCEPT ![n] = a]
  BY <1>1, Zenon DEF RecvCallParts
<1>3. \A x, k : Holds(x, k)' <=> Holds(x, k)
  BY <1>1, HoldsSame, Zenon DEF RecvCallParts
<1>4. MadeIsHeld'
  BY <1>2, <1>3, Zenon DEF AddressesHold, MadeIsHeld
<1>5. RoutedAddressHolds'
  BY <1>2, <1>3, Zenon DEF AddressesHold, RoutedAddressHolds
<1>6. CachedAddressHolds'
  BY <1>1, <1>2, <1>3, Zenon DEF AddressesHold, CachedAddressHolds, TypeOK
<1>7. \A r \in reqs' : Holds(r.to, r.key)'
  <2>1. reqs' = reqs \cup {[from |-> n, to |-> a[k], key |-> k, id |-> c] : k \in Asked(n, missing)}
    BY <1>1, Zenon DEF RecvCallParts
  <2>2. \A k \in Asked(n, missing) : Holds(a[k], k)
    BY <1>1, Zenon DEF Asked
  <2>3. \A r \in reqs' : Holds(r.to, r.key)
    BY <2>1, <2>2 DEF AddressesHold
  <2>4. QED
    BY <1>3, <2>3, Zenon
<1>8. QED
  BY <1>4, <1>5, <1>6, <1>7, Zenon DEF AddressesHold

LEMMA GetObjectAddresses ==
  ASSUME TypeOK, AddressesHold, NEW g \in Gets, GetObject(g)
  PROVE  AddressesHold'
<1>1. PICK n \in Nodes, k \in Keys : n = GetNode[g] /\ k = GetKey[g]
  BY FetchAssumption, Zenon
<1>2. \A a, j : Holds(a, j)' <=> Holds(a, j)
  BY HoldsSame, Zenon DEF GetObject
<1>3. MadeIsHeld' /\ RoutedAddressHolds' /\ CachedAddressHolds'
  BY <1>2, Zenon DEF AddressesHold, MadeIsHeld, RoutedAddressHolds, CachedAddressHolds, GetObject
<1>4. \A r \in reqs' : Holds(r.to, r.key)
  <2>2. CASE reqs' = reqs
    BY <2>2, Zenon DEF AddressesHold
  <2>3. CASE /\ addr[n][k] # NoNode
             /\ reqs' = reqs \cup {[from |-> n, to |-> addr[n][k], key |-> k, id |-> g]}
    BY <2>3 DEF AddressesHold, CachedAddressHolds
  <2>4. QED
    BY <1>1, <2>2, <2>3, Zenon DEF GetObject
<1>5. QED
  BY <1>2, <1>3, <1>4, Zenon DEF AddressesHold

LEMMA ForwardAddresses ==
  ASSUME TypeOK, AddressesHold, ReadyHasData, NEW r \in ready, NEW n \in Nodes, Forward(r, n)
  PROVE  AddressesHold'
<1>1. r.call \in Calls /\ r.node \in Nodes /\ r.packed \in BOOLEAN
  BY Zenon DEF TypeOK, Ready
<1>2. PICK at : at = ForwardAddress(r)
  BY Zenon
<1>3. /\ \A k \in Keys : at[k] = NoNode \/ Holds(at[k], k)
      /\ r.packed \/ \A k \in Args[r.call] : at[k] # NoNode
  BY <1>1, <1>2, FetchAssumption, Zenon DEF ForwardAddress, ReadyHasData, Holds
<1>4. PICK pack \in BOOLEAN :
        routed' = routed \cup {[call |-> r.call, to |-> n, at |-> at, packed |-> r.packed \/ pack]}
  BY <1>2, Zenon DEF Forward
<1>5. PICK m : m = [call |-> r.call, to |-> n, at |-> at, packed |-> r.packed \/ pack]
  BY Zenon
<1>6. m.call = r.call /\ m.at = at /\ (r.packed => m.packed)
  BY <1>5, Zenon
<1>7. \A a, k : Holds(a, k)' <=> Holds(a, k)
  BY HoldsSame, Zenon DEF Forward
<1>8. RoutedAddressHolds'
  <2>1. routed' = routed \cup {m}
    BY <1>4, <1>5, Zenon DEF Forward
  <2>2. QED
    BY <1>3, <1>6, <1>7, <2>1, Zenon DEF AddressesHold, RoutedAddressHolds
<1>9. MadeIsHeld' /\ CachedAddressHolds' /\ \A x \in reqs' : Holds(x.to, x.key)'
  BY <1>7, Zenon DEF AddressesHold, MadeIsHeld, CachedAddressHolds, Forward
<1>10. QED
  BY <1>8, <1>9, Zenon DEF AddressesHold

LEMMA NextAddresses ==
  ASSUME TypeOK, TypeOK', AddressesHold, ReadyHasData, [Next]_vars
  PROVE  AddressesHold'
<1>1. CASE UNCHANGED <<made, addr>> /\ routed' \subseteq routed /\ reqs' \subseteq reqs
  BY <1>1, HaveGrows, SameAddresses, Zenon DEF AddressesHold
<1>2. CASE UNCHANGED vars
  BY <1>1, <1>2, Zenon DEF vars
<1>3. ASSUME NEW r \in reqs, ServeRequest(r) PROVE AddressesHold'
  BY <1>1, <1>3, Zenon DEF ServeRequest
<1>4. ASSUME NEW p \in resps, RecvData(p) PROVE AddressesHold'
  BY <1>1, <1>4, Zenon DEF RecvData
<1>5. ASSUME NEW r \in ready, Run(r) PROVE AddressesHold'
  BY <1>1, <1>5, Zenon DEF Run
<1>6. QED
  BY <1>2, <1>3, <1>4, <1>5, MakeObjectAddresses, RouteCallAddresses, RecvCallAddresses,
     GetObjectAddresses, ForwardAddresses, Zenon DEF Next

-----------------------------------------------------------------------------
(* The maps of waiting calls agree                                         *)

\* What RecvData does, with its local definitions named.
RecvDataParts(p, n, k, woken) ==
  /\ n = p.from
  /\ k = p.key
  /\ woken = {c \in waiters[n][k] : EntryOf(n, c) \subseteq {k}}
  /\ resps' = resps \ {p}
  /\ have' = [have EXCEPT ![n] = @ \cup {k}]
  /\ Schedule(woken, n, FALSE)
  /\ stored' = [stored EXCEPT ![n] = @ \ woken]
  /\ inflight' = [inflight EXCEPT ![n] =
                    [c \in Calls |-> IF c \in waiters[n][k] THEN @[c] \ {k} ELSE @[c]]]
  /\ waiters' = [waiters EXCEPT ![n][k] = {}]
  /\ UNCHANGED <<made, told, addr, routed, reqs, routes, done>>

\* The calls that are woken had an entry, with nothing but the object in it.
LEMMA RecvDataNamed ==
  ASSUME TypeOK, WaitsAgree, NEW p \in resps, RecvData(p)
  PROVE  \E n \in Nodes, k \in Keys, woken \in SUBSET Calls :
           /\ RecvDataParts(p, n, k, woken)
           /\ \A c \in Calls : c \in woken <=> (c \in stored[n] /\ inflight[n][c] = {k})
<1>0. p \in Request
  BY Zenon DEF TypeOK
<1>1. p.from \in Nodes /\ p.key \in Keys
  BY <1>0, Zenon DEF Request
<1>2. PICK n \in Nodes, k \in Keys : n = p.from /\ k = p.key
  BY <1>1, Zenon
<1>3. waiters[n][k] \in SUBSET Calls
  BY DEF TypeOK
<1>4. PICK woken : woken = {c \in waiters[n][k] : EntryOf(n, c) \subseteq {k}}
  BY Zenon
<1>5. woken \in SUBSET Calls
  BY <1>3, <1>4, Zenon
<1>6. RecvDataParts(p, n, k, woken)
  BY <1>2, <1>4, Zenon DEF RecvData, RecvDataParts
<1>7. ASSUME NEW c \in Calls
      PROVE  c \in woken <=> (c \in stored[n] /\ inflight[n][c] = {k})
  <2>1. c \in woken <=> (c \in waiters[n][k] /\ EntryOf(n, c) \subseteq {k})
    BY <1>4, Zenon
  <2>2. c \in waiters[n][k] <=> (c \in stored[n] /\ k \in inflight[n][c])
    BY Zenon DEF WaitsAgree
  <2>3. c \in stored[n] => EntryOf(n, c) = inflight[n][c]
    BY Zenon DEF EntryOf
  <2>4. QED
    BY <2>1, <2>2, <2>3, Zenon
<1>8. QED
  BY <1>5, <1>6, <1>7, Zenon

LEMMA RecvDataWaits ==
  ASSUME TypeOK, WaitsAgree, NEW p \in resps, RecvData(p)
  PROVE  WaitsAgree'
<1>1. PICK n \in Nodes, k \in Keys, woken \in SUBSET Calls :
        /\ RecvDataParts(p, n, k, woken)
        /\ \A c \in Calls : c \in woken <=> (c \in stored[n] /\ inflight[n][c] = {k})
  BY RecvDataNamed, Zenon
<1>2. SUFFICES ASSUME NEW x \in Nodes, NEW c \in Calls
      PROVE  /\ c \in stored'[x] => inflight'[x][c] # {}
             /\ \A j \in Keys : c \in waiters'[x][j] <=> (c \in stored'[x] /\ j \in inflight'[x][c])
  BY Zenon DEF WaitsAgree
<1>3. CASE x # n
  <2>1. stored'[x] = stored[x] /\ inflight'[x] = inflight[x] /\ waiters'[x] = waiters[x]
    BY <1>1, <1>3, Zenon DEF RecvDataParts, TypeOK
  <2>2. QED
    BY <2>1, Zenon DEF WaitsAgree
<1>4. CASE x = n
  <2>1. stored'[n] = stored[n] \ woken
    BY <1>1, Zenon DEF RecvDataParts, TypeOK
  <2>2. inflight'[n][c] = IF c \in waiters[n][k] THEN inflight[n][c] \ {k} ELSE inflight[n][c]
    BY <1>1, Zenon DEF RecvDataParts, TypeOK
  <2>3. \A j \in Keys : waiters'[n][j] = IF j = k THEN {} ELSE waiters[n][j]
    BY <1>1, Zenon DEF RecvDataParts, TypeOK
  <2>4. inflight[n][c] \in SUBSET Keys
    BY DEF TypeOK
  <2>5. /\ c \in stored[n] => inflight[n][c] # {}
        /\ \A j \in Keys : c \in waiters[n][j] <=> (c \in stored[n] /\ j \in inflight[n][c])
    BY Zenon DEF WaitsAgree
  <2>6. c \in stored'[n] => inflight'[n][c] # {}
    BY <1>1, <2>1, <2>2, <2>4, <2>5
  <2>7. ASSUME NEW j \in Keys
        PROVE  c \in waiters'[n][j] <=> (c \in stored'[n] /\ j \in inflight'[n][c])
    <3>1. CASE j = k
      BY <1>1, <2>1, <2>2, <2>3, <2>5, <3>1, Zenon
    <3>2. CASE j # k
      BY <1>1, <2>1, <2>2, <2>3, <2>5, <3>2, Zenon
    <3> QED BY <3>1, <3>2, Zenon
  <2>8. QED
    BY <1>4, <2>6, <2>7, Zenon
<1>5. QED
  BY <1>3, <1>4, Zenon

LEMMA RecvCallWaits ==
  ASSUME TypeOK, AddressesHold, WaitsAgree, OnePlace, NEW m \in routed, RecvCall(m)
  PROVE  WaitsAgree'
<1>1. PICK n \in Nodes, c \in Calls, a \in Address, missing \in SUBSET Keys :
        RecvCallParts(m, n, c, a, missing)
  BY RecvCallNamed, Zenon
<1>2. CASE UNCHANGED <<stored, inflight, waiters>>
  BY <1>2, Zenon DEF WaitsAgree
<1>3. CASE missing # {} /\ Hold(n, c, missing)
  <2>1. c \notin stored[n]
    BY <1>1, Zenon DEF RecvCallParts, OnePlace
  <2>2. SUFFICES ASSUME NEW x \in Nodes, NEW d \in Calls
        PROVE  /\ d \in stored'[x] => inflight'[x][d] # {}
               /\ \A j \in Keys : d \in waiters'[x][j] <=> (d \in stored'[x] /\ j \in inflight'[x][d])
    BY Zenon DEF WaitsAgree
  <2>3. CASE x # n
    <3>1. stored'[x] = stored[x] /\ inflight'[x] = inflight[x] /\ waiters'[x] = waiters[x]
      BY <1>3, <2>3, Zenon DEF Hold, TypeOK
    <3>2. QED
      BY <3>1, Zenon DEF WaitsAgree
  <2>4. CASE x = n
    <3>1. stored'[n] = stored[n] \cup {c}
      BY <1>3, Zenon DEF Hold, TypeOK
    <3>2. inflight'[n][d] = IF d = c THEN missing ELSE inflight[n][d]
      BY <1>3, Zenon DEF Hold, TypeOK
    <3>3. \A j \in Keys : waiters'[n][j] = IF j \in missing THEN waiters[n][j] \cup {c} ELSE waiters[n][j]
      BY <1>3, Zenon DEF Hold, TypeOK
    <3>4. /\ d \in stored[n] => inflight[n][d] # {}
          /\ \A j \in Keys : d \in waiters[n][j] <=> (d \in stored[n] /\ j \in inflight[n][d])
      BY Zenon DEF WaitsAgree
    <3>5. d \in stored'[n] => inflight'[n][d] # {}
      BY <1>3, <3>1, <3>2, <3>4, Zenon
    <3>6. ASSUME NEW j \in Keys
          PROVE  d \in waiters'[n][j] <=> (d \in stored'[n] /\ j \in inflight'[n][d])
      <4>1. CASE d = c
        BY <2>1, <3>1, <3>2, <3>3, <3>4, <4>1, Zenon
      <4>2. CASE d # c
        BY <3>1, <3>2, <3>3, <3>4, <4>2, Zenon
      <4> QED BY <4>1, <4>2, Zenon
    <3>7. QED
      BY <2>4, <3>5, <3>6, Zenon
  <2>5. QED
    BY <2>3, <2>4, Zenon
<1>4. QED
  BY <1>1, <1>2, <1>3, Zenon DEF RecvCallParts

LEMMA NextWaits ==
  ASSUME TypeOK, AddressesHold, WaitsAgree, OnePlace, [Next]_vars
  PROVE  WaitsAgree'
<1>1. CASE UNCHANGED <<stored, inflight, waiters>>
  BY <1>1, Zenon DEF WaitsAgree
<1>2. QED
  BY <1>1, RecvDataWaits, RecvCallWaits, Zenon
     DEF Next, vars, MakeObject, RouteCall, GetObject, ServeRequest, Run, Forward

-----------------------------------------------------------------------------
(* A call that is handed over has its objects                              *)

LEMMA RecvCallReady ==
  ASSUME TypeOK, AddressesHold, ReadyHasData, NEW m \in routed, RecvCall(m)
  PROVE  ReadyHasData'
<1>1. PICK n \in Nodes, c \in Calls, a \in Address, missing \in SUBSET Keys :
        RecvCallParts(m, n, c, a, missing)
  BY RecvCallNamed, Zenon
<1>2. have' = have
  BY <1>1, Zenon DEF RecvCallParts
<1>3. CASE UNCHANGED ready
  BY <1>2, <1>3, Zenon DEF ReadyHasData
<1>4. CASE missing = {} /\ Schedule({c}, n, m.packed)
  <2>1. PICK r : r = [call |-> c, node |-> n, packed |-> m.packed]
    BY Zenon
  <2>2. ready' = ready \cup {r}
    BY <1>4, <2>1, Zenon DEF Schedule
  <2>3. r.packed \/ Args[r.call] \subseteq have[r.node]
    BY <1>1, <1>4, <2>1, Zenon DEF RecvCallParts
  <2>4. QED
    BY <1>2, <2>2, <2>3, Zenon DEF ReadyHasData
<1>5. QED
  BY <1>1, <1>3, <1>4, Zenon DEF RecvCallParts

LEMMA RecvDataReady ==
  ASSUME TypeOK, WaitsAgree, WaitingLacks, ReadyHasData, NEW p \in resps, RecvData(p)
  PROVE  ReadyHasData' /\ WaitingLacks'
<1>1. PICK n \in Nodes, k \in Keys, woken \in SUBSET Calls :
        /\ RecvDataParts(p, n, k, woken)
        /\ \A c \in Calls : c \in woken <=> (c \in stored[n] /\ inflight[n][c] = {k})
  BY RecvDataNamed, Zenon
<1>2. \A x \in Nodes : have'[x] = IF x = n THEN have[x] \cup {k} ELSE have[x]
  BY <1>1, Zenon DEF RecvDataParts, TypeOK
<1>3. \A c \in woken : Args[c] \subseteq have'[n]
  BY <1>1, <1>2, Zenon DEF WaitingLacks
<1>4. ReadyHasData'
  <2>1. ready' = ready \cup {[call |-> c, node |-> n, packed |-> FALSE] : c \in woken}
    BY <1>1, Zenon DEF RecvDataParts, Schedule
  <2>2. ASSUME NEW r \in ready
        PROVE  r.packed \/ Args[r.call] \subseteq have'[r.node]
    <3>1. r.node \in Nodes
      BY Zenon DEF TypeOK, Ready
    <3>2. QED
      BY <1>2, <3>1, Zenon DEF ReadyHasData
  <2>3. ASSUME NEW c \in woken
        PROVE  LET r == [call |-> c, node |-> n, packed |-> FALSE]
               IN  r.packed \/ Args[r.call] \subseteq have'[r.node]
    BY <1>3, Zenon
  <2>4. QED
    BY <2>1, <2>2, <2>3, Zenon DEF ReadyHasData
<1>5. WaitingLacks'
  <2>1. SUFFICES ASSUME NEW x \in Nodes, NEW c \in stored'[x]
        PROVE  Args[c] \subseteq have'[x] \cup inflight'[x][c]
    BY Zenon DEF WaitingLacks
  <2>2. c \in stored[x] /\ c \in Calls
    BY <1>1, Zenon DEF RecvDataParts, TypeOK
  <2>3. inflight[x][c] \subseteq inflight'[x][c] \cup (IF x = n THEN {k} ELSE {})
    <3>1. CASE x # n
      BY <1>1, <2>2, <3>1, Zenon DEF RecvDataParts, TypeOK
    <3>2. CASE x = n
      <4>1. inflight'[n][c] = IF c \in waiters[n][k] THEN inflight[n][c] \ {k} ELSE inflight[n][c]
        BY <1>1, <2>2, ZenonT(30) DEF RecvDataParts, TypeOK
      <4>2. QED
        BY <3>2, <4>1, Zenon
    <3>3. QED
      BY <3>1, <3>2, Zenon
  <2>4. QED
    BY <1>2, <2>2, <2>3, Zenon DEF WaitingLacks
<1>6. QED
  BY <1>4, <1>5, Zenon

LEMMA RecvCallLacks ==
  ASSUME TypeOK, AddressesHold, WaitingLacks, NEW m \in routed, RecvCall(m)
  PROVE  WaitingLacks'
<1>1. PICK n \in Nodes, c \in Calls, a \in Address, missing \in SUBSET Keys :
        RecvCallParts(m, n, c, a, missing)
  BY RecvCallNamed, Zenon
<1>2. have' = have
  BY <1>1, Zenon DEF RecvCallParts
<1>3. CASE UNCHANGED <<stored, inflight>>
  BY <1>2, <1>3, Zenon DEF WaitingLacks
<1>4. CASE missing # {} /\ Hold(n, c, missing)
  <2>1. SUFFICES ASSUME NEW x \in Nodes, NEW d \in stored'[x]
        PROVE  Args[d] \subseteq have[x] \cup inflight'[x][d]
    BY <1>2, Zenon DEF WaitingLacks
  <2>2. Args[c] \subseteq have[n] \cup missing
    BY <1>1, <1>4, Zenon DEF RecvCallParts
  <2>3. CASE x = n /\ d = c
    <3>1. inflight'[n][c] = missing
      BY <1>4, Zenon DEF Hold, TypeOK
    <3>2. QED
      BY <2>2, <2>3, <3>1, Zenon
  <2>4. CASE ~(x = n /\ d = c)
    <3>1. d \in stored[x] /\ d \in Calls
      BY <1>4, <2>4, Zenon DEF Hold, TypeOK
    <3>2. inflight'[x][d] = inflight[x][d]
      BY <1>4, <2>4, <3>1, Zenon DEF Hold, TypeOK
    <3>3. QED
      BY <3>1, <3>2, Zenon DEF WaitingLacks
  <2>5. QED
    BY <2>3, <2>4, Zenon
<1>5. QED
  BY <1>1, <1>3, <1>4, Zenon DEF RecvCallParts

LEMMA NextReady ==
  ASSUME TypeOK, AddressesHold, WaitsAgree, WaitingLacks, ReadyHasData, [Next]_vars
  PROVE  ReadyHasData' /\ WaitingLacks'
<1>1. \A n \in Nodes : have[n] \subseteq have'[n]
  BY HaveGrows, Zenon
<1>2. CASE ready' \subseteq ready /\ UNCHANGED <<stored, inflight>>
  <2>1. ASSUME NEW r \in ready PROVE r.packed \/ Args[r.call] \subseteq have'[r.node]
    <3>1. r.node \in Nodes
      BY Zenon DEF TypeOK, Ready
    <3>2. QED
      BY <1>1, <3>1, Zenon DEF ReadyHasData
  <2>2. QED
    BY <1>1, <1>2, <2>1, Zenon DEF ReadyHasData, WaitingLacks
<1>3. ASSUME NEW r \in ready, Run(r) \/ \E n \in Nodes : Forward(r, n)
      PROVE  ready' \subseteq ready /\ UNCHANGED <<stored, inflight>>
  BY <1>3, Zenon DEF Run, Forward
<1>4. QED
  BY <1>2, <1>3, RecvCallReady, RecvCallLacks, RecvDataReady, Zenon
     DEF Next, vars, MakeObject, RouteCall, GetObject, ServeRequest

-----------------------------------------------------------------------------
(* A call is in one place                                                  *)

LEMMA RouteCallPlace ==
  ASSUME TypeOK, OnePlace, NEW c \in Calls, NEW n \in Nodes, RouteCall(c, n)
  PROVE  OnePlace'
<1>1. PICK m : m.call = c /\ routed' = routed \cup {m}
  BY RouteCallNamed, ZenonT(30)
<1>2. /\ routes[c] = 0
      /\ \A d \in Calls : routes'[d] = 0 => routes[d] = 0 /\ d # c
      /\ UNCHANGED <<ready, stored>>
  BY DEF RouteCall, TypeOK
<1>3. QED
  BY <1>1, <1>2 DEF OnePlace, TypeOK

LEMMA RecvCallPlace ==
  ASSUME TypeOK, AddressesHold, OnePlace, NEW m \in routed, RecvCall(m)
  PROVE  OnePlace'
<1>1. PICK n \in Nodes, c \in Calls, a \in Address, missing \in SUBSET Keys :
        RecvCallParts(m, n, c, a, missing)
  BY RecvCallNamed, Zenon
<1>2. c = m.call /\ routed' = routed \ {m} /\ routes' = routes
  BY <1>1, Zenon DEF RecvCallParts
<1>3. /\ routes[c] # 0
      /\ \A x \in routed' : x.call # c
      /\ \A r \in ready : r.call # c
      /\ \A x \in Nodes : c \notin stored[x]
  BY <1>2, Zenon DEF OnePlace
<1>4. CASE Schedule({c}, n, m.packed) /\ UNCHANGED stored
  <2>0. PICK r : r = [call |-> c, node |-> n, packed |-> m.packed]
    BY Zenon
  <2>1. r.call = c /\ ready' = ready \cup {r}
    <3>1. ready' = ready \cup {[call |-> d, node |-> n, packed |-> m.packed] : d \in {c}}
      BY <1>4, Zenon DEF Schedule
    <3>2. {[call |-> d, node |-> n, packed |-> m.packed] : d \in {c}} = {r}
      BY <2>0, Zenon
    <3>3. r.call = c
      BY <2>0, Zenon
    <3>4. QED
      BY <3>1, <3>2, <3>3, Zenon
  <2>2. \A x \in ready' : x \in ready \/ (x = r /\ x.call = c)
    BY <2>1, Zenon
  <2>3. /\ \A m1, m2 \in routed' : m1.call = m2.call => m1 = m2
        /\ \A r1, r2 \in ready' : r1.call = r2.call => r1 = r2
        /\ \A x \in routed', y \in ready' : x.call # y.call
    BY <1>2, <1>3, <2>2, Zenon DEF OnePlace
  <2>4. ASSUME NEW x \in Nodes, NEW d \in stored'[x]
        PROVE  /\ \A y \in routed' : y.call # d
               /\ \A y \in ready' : y.call # d
               /\ \A o \in Nodes : d \in stored'[o] => o = x
    BY <1>2, <1>3, <1>4, <2>2, Zenon DEF OnePlace
  <2>5. ASSUME NEW d \in Calls, routes'[d] = 0
        PROVE  /\ \A y \in routed' : y.call # d
               /\ \A y \in ready' : y.call # d
               /\ \A x \in Nodes : d \notin stored'[x]
    BY <1>2, <1>3, <1>4, <2>2, <2>5, Zenon DEF OnePlace
  <2>6. QED
    BY <2>3, <2>4, <2>5, Zenon DEF OnePlace
<1>5. CASE Hold(n, c, missing) /\ UNCHANGED ready
  <2>1. \A x \in Nodes : stored'[x] = IF x = n THEN stored[x] \cup {c} ELSE stored[x]
    BY <1>5, Zenon DEF Hold, TypeOK
  <2>2. \A x \in Nodes : \A d \in stored'[x] : d \in stored[x] \/ (d = c /\ x = n)
    BY <2>1, Zenon
  <2>3. /\ \A m1, m2 \in routed' : m1.call = m2.call => m1 = m2
        /\ \A r1, r2 \in ready' : r1.call = r2.call => r1 = r2
        /\ \A x \in routed', r \in ready' : x.call # r.call
    BY <1>2, <1>5, Zenon DEF OnePlace
  <2>4. ASSUME NEW x \in Nodes, NEW d \in stored'[x]
        PROVE  /\ \A y \in routed' : y.call # d
               /\ \A r \in ready' : r.call # d
               /\ \A o \in Nodes : d \in stored'[o] => o = x
    <3>1. CASE d = c
      BY <1>3, <1>5, <2>2, <3>1, Zenon
    <3>2. CASE d # c
      BY <1>2, <1>5, <2>2, <3>2, Zenon DEF OnePlace
    <3>3. QED
      BY <3>1, <3>2, Zenon
  <2>5. ASSUME NEW d \in Calls, routes'[d] = 0
        PROVE  /\ \A y \in routed' : y.call # d
               /\ \A r \in ready' : r.call # d
               /\ \A x \in Nodes : d \notin stored'[x]
    BY <1>2, <1>3, <1>5, <2>2, <2>5, Zenon DEF OnePlace
  <2>6. QED
    BY <2>3, <2>4, <2>5, Zenon DEF OnePlace
<1>6. QED
  BY <1>1, <1>4, <1>5, Zenon DEF RecvCallParts

LEMMA RecvDataPlace ==
  ASSUME TypeOK, WaitsAgree, OnePlace, NEW p \in resps, RecvData(p)
  PROVE  OnePlace'
<1>1. PICK n \in Nodes, k \in Keys, woken \in SUBSET Calls :
        /\ RecvDataParts(p, n, k, woken)
        /\ \A c \in Calls : c \in woken <=> (c \in stored[n] /\ inflight[n][c] = {k})
  BY RecvDataNamed, Zenon
<1>2. routed' = routed /\ routes' = routes
  BY <1>1, Zenon DEF RecvDataParts
<1>3. \A x \in Nodes : stored'[x] = IF x = n THEN stored[x] \ woken ELSE stored[x]
  BY <1>1, Zenon DEF RecvDataParts, TypeOK
<1>4. ready' = ready \cup {[call |-> c, node |-> n, packed |-> FALSE] : c \in woken}
  BY <1>1, Zenon DEF RecvDataParts, Schedule
<1>5. woken \subseteq stored[n]
  BY <1>1, Zenon
<1>6. \A r \in ready' : r \in ready \/ (r.call \in woken /\ r = [call |-> r.call, node |-> n, packed |-> FALSE])
  BY <1>4
<1>7. /\ \A m1, m2 \in routed' : m1.call = m2.call => m1 = m2
      /\ \A m \in routed', r \in ready' : m.call # r.call
  BY <1>2, <1>5, <1>6, Zenon DEF OnePlace
<1>8. \A r1, r2 \in ready' : r1.call = r2.call => r1 = r2
  BY <1>5, <1>6, Zenon DEF OnePlace
<1>9. \A x \in Nodes : \A c \in stored'[x] : c \in stored[x] /\ (x = n => c \notin woken)
  BY <1>3, Zenon
<1>10. ASSUME NEW x \in Nodes, NEW c \in stored'[x]
       PROVE  /\ \A m \in routed' : m.call # c
              /\ \A r \in ready' : r.call # c
              /\ \A o \in Nodes : c \in stored'[o] => o = x
  <2>1. c \in stored[x]
    BY <1>9, Zenon
  <2>2. c \notin woken
    BY <1>5, <1>9, <2>1, Zenon DEF OnePlace
  <2>3. \A r \in ready' : r.call # c
    BY <1>6, <2>1, <2>2 DEF OnePlace
  <2>4. /\ \A m \in routed' : m.call # c
        /\ \A o \in Nodes : c \in stored'[o] => o = x
    BY <1>2, <1>9, <2>1, Zenon DEF OnePlace
  <2>5. QED
    BY <2>3, <2>4, Zenon
<1>11. ASSUME NEW c \in Calls, routes'[c] = 0
       PROVE  /\ \A m \in routed' : m.call # c
              /\ \A r \in ready' : r.call # c
              /\ \A x \in Nodes : c \notin stored'[x]
  <2>1. /\ \A m \in routed : m.call # c
        /\ \A r \in ready : r.call # c
        /\ \A x \in Nodes : c \notin stored[x]
    BY <1>2, <1>11, Zenon DEF OnePlace
  <2>2. c \notin woken
    BY <1>5, <2>1, Zenon
  <2>3. QED
    BY <1>2, <1>6, <1>9, <2>1, <2>2, Zenon
<1>12. QED
  BY <1>7, <1>8, <1>10, <1>11, Zenon DEF OnePlace

LEMMA ForwardPlace ==
  ASSUME TypeOK, OnePlace, NEW r \in ready, NEW n \in Nodes, Forward(r, n)
  PROVE  OnePlace'
<1>1. PICK m : m.call = r.call /\ routed' = routed \cup {m}
  BY Zenon DEF Forward
<1>2. r.call \in Calls
  BY Zenon DEF TypeOK, Ready
<1>3. /\ \A d \in Calls : routes'[d] = 0 => routes[d] = 0 /\ d # r.call
      /\ ready' = ready \ {r}
      /\ stored' = stored
  BY <1>2 DEF Forward, TypeOK
<1>4. QED
  BY <1>1, <1>2, <1>3 DEF OnePlace

LEMMA NextPlace ==
  ASSUME TypeOK, AddressesHold, WaitsAgree, OnePlace, [Next]_vars
  PROVE  OnePlace'
<1>1. CASE ready' \subseteq ready /\ UNCHANGED <<routed, stored, routes>>
  BY <1>1, Zenon DEF OnePlace
<1>2. ASSUME NEW r \in ready, Run(r)
      PROVE  ready' \subseteq ready /\ UNCHANGED <<routed, stored, routes>>
  BY <1>2, Zenon DEF Run
<1>3. QED
  BY <1>1, <1>2, RouteCallPlace, RecvCallPlace, RecvDataPlace, ForwardPlace, Zenon
     DEF Next, vars, MakeObject, GetObject, ServeRequest

-----------------------------------------------------------------------------
(* A route is paid by one hand-over                                        *)

\* A call that is sent to a node, from the coordinator or from another node.
LEMMA SentBalance ==
  ASSUME TypeOK, Balance, NEW c \in Calls, NEW m, m.call = c, ~Outstanding(c),
         routed' = routed \cup {m}, stored' = stored, runs' = runs,
         routes' = [routes EXCEPT ![c] = @ + 1]
  PROVE  Balance'
<1>1. SUFFICES ASSUME NEW d \in Calls
      PROVE  routes'[d] = IF Outstanding(d)' THEN runs[d] + 1 ELSE runs[d]
  BY Zenon DEF Balance
<1>2. /\ routes[d] = IF Outstanding(d) THEN runs[d] + 1 ELSE runs[d]
      /\ routes[d] \in Nat /\ runs[d] \in Nat
  BY Zenon DEF Balance, TypeOK
<1>3. Outstanding(d)' <=> (Outstanding(d) \/ d = c)
  BY Zenon DEF Outstanding
<1>4. routes'[d] = IF d = c THEN routes[d] + 1 ELSE routes[d]
  BY Zenon DEF TypeOK
<1>5. QED
  BY <1>2, <1>3, <1>4, Zenon

LEMMA RouteCallBalance ==
  ASSUME TypeOK, OnePlace, Balance, NEW c \in Calls, NEW n \in Nodes, RouteCall(c, n)
  PROVE  Balance'
<1>1. PICK m : m.call = c /\ routed' = routed \cup {m}
  BY RouteCallNamed, ZenonT(30)
<1>2. ~Outstanding(c)
  BY Zenon DEF RouteCall, OnePlace, Outstanding
<1>3. /\ stored' = stored
      /\ runs' = runs
      /\ routes' = [routes EXCEPT ![c] = @ + 1]
  BY Zenon DEF RouteCall
<1>4. QED
  BY <1>1, <1>2, <1>3, SentBalance, Zenon

LEMMA ForwardBalance ==
  ASSUME TypeOK, OnePlace, Balance, NEW r \in ready, NEW n \in Nodes, Forward(r, n)
  PROVE  Balance'
<1>1. PICK m : m.call = r.call /\ routed' = routed \cup {m}
  BY Zenon DEF Forward
<1>2. r.call \in Calls
  BY Zenon DEF TypeOK, Ready
<1>3. ~Outstanding(r.call)
  BY Zenon DEF OnePlace, Outstanding
<1>4. /\ stored' = stored
      /\ runs' = runs
      /\ routes' = [routes EXCEPT ![r.call] = @ + 1]
  BY Zenon DEF Forward
<1>5. QED
  BY <1>1, <1>2, <1>3, <1>4, SentBalance, Zenon

\* A call that arrives is handed over, or waits and is still outstanding.
LEMMA RecvCallBalance ==
  ASSUME TypeOK, AddressesHold, OnePlace, Balance, NEW m \in routed, RecvCall(m)
  PROVE  Balance'
<1>1. PICK n \in Nodes, c \in Calls, a \in Address, missing \in SUBSET Keys :
        RecvCallParts(m, n, c, a, missing)
  BY RecvCallNamed, Zenon
<1>2. c = m.call /\ routed' = routed \ {m} /\ routes' = routes
  BY <1>1, Zenon DEF RecvCallParts
<1>3. SUFFICES ASSUME NEW d \in Calls
      PROVE  routes[d] = IF Outstanding(d)' THEN runs'[d] + 1 ELSE runs'[d]
  BY <1>2, Zenon DEF Balance
<1>4. /\ routes[d] = IF Outstanding(d) THEN runs[d] + 1 ELSE runs[d]
      /\ runs[d] \in Nat
  BY Zenon DEF Balance, TypeOK
<1>5. Outstanding(c) /\ \A x \in routed' : x.call # c
  BY <1>2, Zenon DEF OnePlace, Outstanding
<1>6. d # c => ((\E x \in routed' : x.call = d) <=> (\E x \in routed : x.call = d))
  BY <1>2, Zenon
<1>7. CASE Schedule({c}, n, m.packed) /\ UNCHANGED stored
  <2>1. runs'[d] = IF d = c THEN runs[d] + 1 ELSE runs[d]
    BY <1>7, Zenon DEF Schedule
  <2>2. Outstanding(d)' <=> (Outstanding(d) /\ d # c)
    BY <1>5, <1>6, <1>7, <1>2, ZenonT(30) DEF OnePlace, Outstanding
  <2>3. QED
    BY <1>4, <1>5, <2>1, <2>2, Zenon
<1>8. CASE Hold(n, c, missing) /\ UNCHANGED runs
  <2>1. \A x \in Nodes : stored'[x] = IF x = n THEN stored[x] \cup {c} ELSE stored[x]
    BY <1>8, Zenon DEF Hold, TypeOK
  <2>2. Outstanding(d)' <=> Outstanding(d)
    BY <1>5, <1>6, <2>1, Zenon DEF Outstanding
  <2>3. QED
    BY <1>4, <1>8, <2>2, Zenon
<1>9. QED
  BY <1>1, <1>7, <1>8, Zenon DEF RecvCallParts

\* The calls that an object wakes stop waiting and are handed over.
LEMMA RecvDataBalance ==
  ASSUME TypeOK, WaitsAgree, OnePlace, Balance, NEW p \in resps, RecvData(p)
  PROVE  Balance'
<1>1. PICK n \in Nodes, k \in Keys, woken \in SUBSET Calls :
        /\ RecvDataParts(p, n, k, woken)
        /\ \A c \in Calls : c \in woken <=> (c \in stored[n] /\ inflight[n][c] = {k})
  BY RecvDataNamed, Zenon
<1>2. routed' = routed /\ routes' = routes
  BY <1>1, Zenon DEF RecvDataParts
<1>3. \A x \in Nodes : stored'[x] = IF x = n THEN stored[x] \ woken ELSE stored[x]
  BY <1>1, Zenon DEF RecvDataParts, TypeOK
<1>4. SUFFICES ASSUME NEW d \in Calls
      PROVE  routes[d] = IF Outstanding(d)' THEN runs'[d] + 1 ELSE runs'[d]
  BY <1>2, Zenon DEF Balance
<1>5. /\ routes[d] = IF Outstanding(d) THEN runs[d] + 1 ELSE runs[d]
      /\ runs[d] \in Nat
  BY Zenon DEF Balance, TypeOK
<1>6. runs'[d] = IF d \in woken THEN runs[d] + 1 ELSE runs[d]
  BY <1>1, Zenon DEF RecvDataParts, Schedule
<1>7. d \in woken => Outstanding(d)
  BY <1>1, Zenon DEF Outstanding
<1>8. d \in woken => ~Outstanding(d)'
  <2>1. SUFFICES ASSUME d \in woken PROVE ~Outstanding(d)'
    BY Zenon
  <2>2. d \in stored[n]
    BY <1>1, <2>1, Zenon
  <2>3. /\ \A m \in routed : m.call # d
        /\ \A o \in Nodes : d \in stored[o] => o = n
    BY <2>2, Zenon DEF OnePlace
  <2>4. \A o \in Nodes : d \notin stored'[o]
    BY <1>3, <2>1, <2>3, Zenon
  <2>5. QED
    BY <1>2, <2>3, <2>4, Zenon DEF Outstanding
<1>9. d \notin woken => (Outstanding(d)' <=> Outstanding(d))
  BY <1>2, <1>3, Zenon DEF Outstanding
<1>10. QED
  BY <1>5, <1>6, <1>7, <1>8, <1>9, Zenon

LEMMA NextBalance ==
  ASSUME TypeOK, AddressesHold, WaitsAgree, OnePlace, Balance, [Next]_vars
  PROVE  Balance'
<1>1. CASE UNCHANGED <<routed, stored, routes, runs>>
  BY <1>1, Zenon DEF Balance, Outstanding
<1>2. QED
  BY <1>1, RouteCallBalance, RecvCallBalance, RecvDataBalance, ForwardBalance, Zenon
     DEF Next, vars, MakeObject, GetObject, ServeRequest, Run

-----------------------------------------------------------------------------
(* Every wait has a request or a response under way, or was asked of       *)
(* another session's node                                                  *)

\* emplace keeps the address that is there.
LEMMA AddressStays ==
  ASSUME TypeOK, NEW m \in routed, NEW n \in Nodes, NEW c \in Calls, NEW a \in Address,
         NEW missing \in SUBSET Keys, RecvCallParts(m, n, c, a, missing),
         NEW x \in Nodes, NEW k \in Keys, addr[x][k] # NoNode
  PROVE  addr'[x][k] = addr[x][k]
<1>1. addr' = [addr EXCEPT ![n] = a] /\ a = Learned(addr[n], m.at)
  BY Zenon DEF RecvCallParts
<1>2. CASE x # n
  BY <1>1, <1>2, Zenon DEF TypeOK
<1>3. CASE x = n
  BY <1>1, <1>3, Zenon DEF TypeOK, Learned
<1>4. QED
  BY <1>2, <1>3, Zenon

\* Another session's node is a node.
LEMMA OthersIsNode ==
  ASSUME TypeOK, NEW a, NEW k, OthersNode(a, k)
  PROVE  a # NoNode
BY FetchAssumption, Zenon DEF TypeOK, OthersNode

LEMMA RecvCallAsked ==
  ASSUME TypeOK, AddressesHold, AskedAtAddress, NEW m \in routed, RecvCall(m)
  PROVE  AskedAtAddress'
<1>1. PICK n \in Nodes, c \in Calls, a \in Address, missing \in SUBSET Keys :
        RecvCallParts(m, n, c, a, missing)
  BY RecvCallNamed, Zenon
<1>2. ASSUME NEW r \in reqs PROVE r.to = addr'[r.from][r.key]
  <2>1. r \in Request
    BY Zenon DEF TypeOK
  <2>2. r.from \in Nodes /\ r.key \in Keys /\ r.to # NoNode
    BY <2>1, FetchAssumption, Zenon DEF Request
  <2>3. r.to = addr[r.from][r.key]
    BY Zenon DEF AskedAtAddress
  <2>4. QED
    BY <1>1, <2>2, <2>3, AddressStays, Zenon
<1>3. addr'[n] = a
  BY <1>1, Zenon DEF RecvCallParts, TypeOK
<1>4. reqs' = reqs \cup {[from |-> n, to |-> a[k], key |-> k, id |-> c] : k \in Asked(n, missing)}
  BY <1>1, Zenon DEF RecvCallParts
<1>5. ASSUME NEW k, NEW r, r = [from |-> n, to |-> a[k], key |-> k, id |-> c]
      PROVE  r.to = addr'[r.from][r.key]
  BY <1>3, <1>5
<1>6. \A r \in reqs' :
        \/ r \in reqs
        \/ \E k : r = [from |-> n, to |-> a[k], key |-> k, id |-> c]
  BY <1>4, Zenon
<1>7. QED
  BY <1>2, <1>5, <1>6, Zenon DEF AskedAtAddress

LEMMA NextAsked ==
  ASSUME TypeOK, AddressesHold, AskedAtAddress, [Next]_vars
  PROVE  AskedAtAddress'
<1>1. CASE reqs' \subseteq reqs /\ UNCHANGED addr
  BY <1>1, Zenon DEF AskedAtAddress
<1>2. ASSUME NEW g \in Gets, GetObject(g) PROVE AskedAtAddress'
  <2>1. PICK n, k : n = GetNode[g] /\ k = GetKey[g]
    BY Zenon
  <2>2. CASE reqs' = reqs
    BY <1>1, <1>2, <2>2, Zenon DEF GetObject
  <2>3. CASE reqs' = reqs \cup {[from |-> n, to |-> addr[n][k], key |-> k, id |-> g]}
    BY <1>2, <2>3 DEF AskedAtAddress, GetObject
  <2>4. QED
    BY <1>2, <2>1, <2>2, <2>3, Zenon DEF GetObject
<1>3. ASSUME NEW p \in resps, RecvData(p) PROVE UNCHANGED <<reqs, addr>>
  BY <1>3, Zenon DEF RecvData
<1>4. ASSUME NEW r \in reqs, ServeRequest(r) PROVE reqs' \subseteq reqs /\ UNCHANGED addr
  BY <1>4, Zenon DEF ServeRequest
<1>5. QED
  BY <1>1, <1>2, <1>3, <1>4, RecvCallAsked, Zenon
     DEF Next, vars, MakeObject, RouteCall, Run, Forward

\* What is said of a node and an object by InflightIsReal.
Served(n, k) ==
  \/ \E r \in reqs \cup resps : r.from = n /\ r.key = k
  \/ OthersNode(addr[n][k], k)

LEMMA InflightServed == InflightIsReal <=> \A n \in Nodes, k \in Keys : waiters[n][k] # {} => Served(n, k)
BY Zenon DEF InflightIsReal, Served

\* A wait that is served stays so while no message for it is taken and its
\* address stays.
LEMMA ServedStays ==
  ASSUME NEW n, NEW k, Served(n, k),
         \A r \in reqs \cup resps : r.from = n /\ r.key = k => r \in reqs' \cup resps',
         OthersNode(addr[n][k], k) => OthersNode(addr[n][k], k)'
  PROVE  Served(n, k)'
BY Zenon DEF Served

LEMMA RecvCallInflight ==
  ASSUME TypeOK, AddressesHold, InflightIsReal, [Next]_vars, NEW m \in routed, RecvCall(m)
  PROVE  InflightIsReal'
<1>1. PICK n \in Nodes, c \in Calls, a \in Address, missing \in SUBSET Keys :
        RecvCallParts(m, n, c, a, missing)
  BY RecvCallNamed, Zenon
<1>2. /\ reqs' = reqs \cup {[from |-> n, to |-> a[k], key |-> k, id |-> c] : k \in Asked(n, missing)}
      /\ resps' = resps
  BY <1>1, Zenon DEF RecvCallParts
<1>3. SUFFICES ASSUME NEW x \in Nodes, NEW k \in Keys, waiters'[x][k] # {}
      PROVE  Served(x, k)'
  BY Zenon DEF InflightIsReal, Served
<1>4. CASE waiters[x][k] # {}
  <2>1. Served(x, k)
    BY <1>4, InflightServed, Zenon
  <2>2. OthersNode(addr[x][k], k) => OthersNode(addr[x][k], k)'
    <3>1. SUFFICES ASSUME OthersNode(addr[x][k], k) PROVE OthersNode(addr[x][k], k)'
      BY Zenon
    <3>2. addr[x][k] # NoNode
      BY <3>1, OthersIsNode, Zenon
    <3>3. addr'[x][k] = addr[x][k]
      BY <1>1, <3>2, AddressStays, Zenon
    <3>4. OthersNode(addr[x][k], k) => \E j \in Keys \ {k} : KeyOf[j] = KeyOf[k] /\ addr[x][k] \in told'[j]
      BY HaveGrows, Zenon DEF OthersNode
    <3>5. QED
      BY <3>1, <3>3, <3>4, Zenon DEF OthersNode
  <2>3. QED
    BY <1>2, <2>1, <2>2, ServedStays, Zenon
<1>5. CASE waiters[x][k] = {}
  <2>1. Hold(n, c, missing)
    BY <1>1, <1>3, <1>5, Zenon DEF RecvCallParts
  <2>2. x = n /\ k \in missing
    BY <1>3, <1>5, <2>1, Zenon DEF Hold, TypeOK
  <2>3. k \in Asked(n, missing)
    BY <1>5, <2>2, Zenon DEF Asked
  <2>4. [from |-> n, to |-> a[k], key |-> k, id |-> c] \in reqs'
    BY <1>2, <2>3, Zenon
  <2>5. QED
    BY <2>2, <2>4 DEF Served
<1>6. QED
  BY <1>4, <1>5, Zenon

LEMMA ServeRequestInflight ==
  ASSUME TypeOK, ~Racy, AddressesHold, AskedAtAddress, InflightIsReal,
         NEW r \in reqs, ServeRequest(r)
  PROVE  InflightIsReal'
<1>1. SUFFICES ASSUME NEW x \in Nodes, NEW k \in Keys, waiters'[x][k] # {}
      PROVE  Served(x, k)'
  BY Zenon DEF InflightIsReal, Served
<1>2. UNCHANGED <<waiters, addr, told>> /\ reqs' = reqs \ {r}
  BY Zenon DEF ServeRequest
<1>3. Served(x, k)
  BY <1>1, <1>2, InflightServed, Zenon
<1>4. OthersNode(addr[x][k], k) => OthersNode(addr[x][k], k)'
  BY <1>2, Zenon DEF OthersNode
<1>5. CASE resps' = resps \cup {r}
  BY <1>2, <1>3, <1>4, <1>5, ServedStays, Zenon
<1>6. CASE r.key \notin have[r.to] /\ resps' = resps
  <2>1. OthersNode(addr[r.from][r.key], r.key)
    BY <1>6, Zenon DEF AddressesHold, AskedAtAddress, Holds
  <2>2. CASE r.from = x /\ r.key = k
    BY <1>4, <2>1, <2>2, Zenon DEF Served
  <2>3. CASE ~(r.from = x /\ r.key = k)
    BY <1>2, <1>3, <1>4, <1>6, <2>3, ServedStays, Zenon
  <2>4. QED
    BY <2>2, <2>3, Zenon
<1>7. QED
  BY <1>5, <1>6, Zenon DEF ServeRequest

LEMMA RecvDataInflight ==
  ASSUME TypeOK, WaitsAgree, InflightIsReal, NEW p \in resps, RecvData(p)
  PROVE  InflightIsReal'
<1>1. PICK n \in Nodes, k \in Keys, woken \in SUBSET Calls : RecvDataParts(p, n, k, woken)
  BY RecvDataNamed, Zenon
<1>2. /\ n = p.from
      /\ k = p.key
      /\ resps' = resps \ {p}
      /\ UNCHANGED <<reqs, addr, told>>
  BY <1>1, Zenon DEF RecvDataParts
<1>3. \A x \in Nodes, j \in Keys :
        waiters'[x][j] = IF x = n /\ j = k THEN {} ELSE waiters[x][j]
  BY <1>1, Zenon DEF RecvDataParts, TypeOK
<1>4. SUFFICES ASSUME NEW x \in Nodes, NEW j \in Keys, waiters'[x][j] # {}
      PROVE  Served(x, j)'
  BY Zenon DEF InflightIsReal, Served
<1>5. ~(x = n /\ j = k) /\ waiters[x][j] # {}
  BY <1>3, <1>4, Zenon
<1>6. Served(x, j)
  BY <1>5, InflightServed, Zenon
<1>7. OthersNode(addr[x][j], j) => OthersNode(addr[x][j], j)'
  BY <1>2, Zenon DEF OthersNode
<1>8. QED
  BY <1>2, <1>5, <1>6, <1>7, ServedStays, Zenon

LEMMA NextInflight ==
  ASSUME TypeOK, AddressesHold, WaitsAgree, AskedAtAddress, Racy \/ InflightIsReal, [Next]_vars
  PROVE  Racy \/ InflightIsReal'
<1>1. SUFFICES ASSUME ~Racy, InflightIsReal PROVE InflightIsReal'
  BY Zenon
<1>2. CASE reqs \subseteq reqs' /\ UNCHANGED <<resps, waiters, addr>>
  <2>1. SUFFICES ASSUME NEW x \in Nodes, NEW k \in Keys, waiters'[x][k] # {}
        PROVE  Served(x, k)'
    BY Zenon DEF InflightIsReal, Served
  <2>2. Served(x, k)
    BY <1>1, <1>2, <2>1, InflightServed, Zenon
  <2>3. \A j \in Keys : told[j] \subseteq told'[j]
    BY HaveGrows, Zenon
  <2>4. OthersNode(addr[x][k], k) => OthersNode(addr[x][k], k)'
    BY <1>2, <2>3, Zenon DEF OthersNode
  <2>5. QED
    BY <1>2, <2>2, <2>4, ServedStays, Zenon
<1>3. ASSUME NEW g \in Gets, GetObject(g)
      PROVE  reqs \subseteq reqs' /\ UNCHANGED <<resps, waiters, addr>>
  BY <1>3, Zenon DEF GetObject
<1>4. QED
  BY <1>1, <1>2, <1>3, RecvCallInflight, ServeRequestInflight, RecvDataInflight, Zenon
     DEF Next, vars, MakeObject, RouteCall, Run, Forward

-----------------------------------------------------------------------------
(* The theorems                                                            *)

LEMMA InitInv == Init => IInv
<1>1. Init => TypeOK
  BY InitType, Zenon
<1>2. Init => /\ AddressesHold
              /\ WaitsAgree
              /\ ReadyHasData
              /\ WaitingLacks
              /\ OnePlace
              /\ Balance
              /\ AskedAtAddress
              /\ InflightIsReal
  BY DEF Init, AddressesHold, MadeIsHeld, RoutedAddressHolds, CachedAddressHolds, WaitsAgree,
         ReadyHasData, WaitingLacks, OnePlace, Balance, Outstanding, InflightIsReal,
         AskedAtAddress, Names
<1>3. QED
  BY <1>1, <1>2, Zenon DEF IInv

LEMMA NextInv == IInv /\ [Next]_vars => IInv'
<1>1. SUFFICES ASSUME IInv, [Next]_vars PROVE IInv'
  BY Zenon
<1>2. /\ TypeOK /\ AddressesHold /\ WaitsAgree /\ ReadyHasData
      /\ WaitingLacks /\ OnePlace /\ Balance /\ AskedAtAddress /\ (Racy \/ InflightIsReal)
  BY <1>1, Zenon DEF IInv
<1>3. TypeOK'
  BY <1>1, <1>2, NextType, Zenon
<1>4. AddressesHold'
  BY <1>1, <1>2, <1>3, NextAddresses, Zenon
<1>5. WaitsAgree'
  BY <1>1, <1>2, NextWaits, Zenon
<1>6. ReadyHasData' /\ WaitingLacks'
  BY <1>1, <1>2, NextReady, Zenon
<1>7. OnePlace'
  BY <1>1, <1>2, NextPlace, Zenon
<1>8. Racy \/ InflightIsReal'
  BY <1>1, <1>2, NextInflight, Zenon
<1>9. Balance'
  BY <1>1, <1>2, NextBalance, Zenon
<1>10. AskedAtAddress'
  BY <1>1, <1>2, NextAsked, Zenon
<1>11. QED
  BY <1>3, <1>4, <1>5, <1>6, <1>7, <1>8, <1>9, <1>10, Zenon DEF IInv

\* The handlers of scheduler_server.cpp and comm_helper.hpp that move objects
\* keep IInv, so every reachable state satisfies it.
THEOREM FetchInvariant == Spec => []IInv
BY InitInv, NextInv, PTL DEF Spec

\* Every variable stays in its range, whatever the sizes of the cluster, the
\* workflow and the executors' gets.
THEOREM FetchTypes == Spec => []TypeOK
<1>1. IInv => TypeOK
  BY Zenon DEF IInv
<1>2. QED
  BY <1>1, FetchInvariant, PTL

\* A data request goes to a node that holds the object (handle_data_request,
\* comm_helper.hpp:605-647), or to one that made the object another session has
\* under the same key: the address map of the coordinator knows no sessions
\* (coordinator.cpp:24).
THEOREM AddressesAlwaysHold == Spec => []AddressesHold
<1>1. IInv => AddressesHold
  BY Zenon DEF IInv
<1>2. QED
  BY <1>1, FetchInvariant, PTL

\* key_call_id_map and call_id_inflight_args_map describe the same waits, so
\* operator[] of the DataResp branch never makes a nameless call.
THEOREM WaitsAlwaysAgree == Spec => []WaitsAgree
<1>1. IInv => WaitsAgree
  BY Zenon DEF IInv
<1>2. QED
  BY <1>1, FetchInvariant, PTL

\* A call is handed to an executor only on a node that has all its objects.
THEOREM ReadyAlwaysHasData == Spec => []ReadyHasData
<1>1. IInv => ReadyHasData
  BY Zenon DEF IInv
<1>2. QED
  BY <1>1, FetchInvariant, PTL

\* Without the unlocked read of key_len_map, and unless another session's node
\* was asked, no wait is left without a request or a response: the query a call
\* does not send is under way already.
THEOREM EveryWaitIsServed == ~Racy => (Spec => []InflightIsReal)
<1>1. SUFFICES ASSUME ~Racy PROVE Spec => []InflightIsReal
  BY Zenon
<1>2. IInv => InflightIsReal
  BY <1>1, Zenon DEF IInv
<1>3. QED
  BY <1>2, FetchInvariant, PTL

-----------------------------------------------------------------------------
(* Counting: a call is scheduled once.                                     *)

INSTANCE FiniteSetTheorems

LEMMA EmptyCount == IsFiniteSet({}) /\ Cardinality({}) = 0
BY FS_EmptySet, Zenon

LEMMA SingleCount == \A x : IsFiniteSet({x}) /\ Cardinality({x}) = 1
BY FS_Singleton, ZenonT(30)

\* Of the two places one at most is taken, by one message or one node.
LEMMA OutstandingCounted ==
  ASSUME OnePlace, NEW c \in Calls
  PROVE  /\ Cardinality({m \in routed : m.call = c}) + Cardinality({n \in Nodes : c \in stored[n]})
              = IF Outstanding(c) THEN 1 ELSE 0
         /\ IsFiniteSet({m \in routed : m.call = c})
         /\ IsFiniteSet({n \in Nodes : c \in stored[n]})
<1> DEFINE M == {m \in routed : m.call = c}
           N == {n \in Nodes : c \in stored[n]}
<1>0. SUFFICES /\ Cardinality(M) + Cardinality(N) = IF Outstanding(c) THEN 1 ELSE 0
               /\ IsFiniteSet(M)
               /\ IsFiniteSet(N)
  BY Zenon
<1>1. CASE ~Outstanding(c)
  <2>1. M = {} /\ N = {}
    BY <1>1, Zenon DEF Outstanding
  <2> HIDE DEF M, N
  <2>2. QED
    BY <1>1, <2>1, EmptyCount
<1>2. CASE \E m \in routed : m.call = c
  <2>1. PICK m \in routed : m.call = c
    BY <1>2, Zenon
  <2>2. M = {m} /\ N = {}
    BY <2>1 DEF OnePlace
  <2>3. Outstanding(c)
    BY <2>1, Zenon DEF Outstanding
  <2> HIDE DEF M, N
  <2>4. IsFiniteSet(M) /\ IsFiniteSet(N) /\ Cardinality(M) = 1 /\ Cardinality(N) = 0
    BY <2>2, EmptyCount, SingleCount, Zenon
  <2>5. QED
    BY <2>3, <2>4
<1>3. CASE \E n \in Nodes : c \in stored[n]
  <2>1. PICK n \in Nodes : c \in stored[n]
    BY <1>3, Zenon
  <2>2. M = {} /\ N = {n}
    BY <2>1 DEF OnePlace
  <2>3. Outstanding(c)
    BY <2>1, Zenon DEF Outstanding
  <2> HIDE DEF M, N
  <2>4. IsFiniteSet(M) /\ IsFiniteSet(N) /\ Cardinality(N) = 1 /\ Cardinality(M) = 0
    BY <2>2, EmptyCount, SingleCount, Zenon
  <2>5. QED
    BY <2>3, <2>4
<1>4. QED
  BY <1>1, <1>2, <1>3, Zenon DEF Outstanding

\* A call that is routed is handed to schedule_func_call once: the last of its
\* objects hands it over whatever order they arrive in, and a call that is
\* forwarded comes back as one.
THEOREM RoutedCallsAreScheduledOnce == Spec => []ScheduledOnce
<1>1. ASSUME IInv PROVE ScheduledOnce
  <2>1. SUFFICES ASSUME NEW c \in Calls
        PROVE  routes[c] = runs[c] + Cardinality({m \in routed : m.call = c})
                                   + Cardinality({n \in Nodes : c \in stored[n]})
    BY Zenon DEF ScheduledOnce
  <2>2. OnePlace /\ Balance /\ runs[c] \in Nat
    BY <1>1, Zenon DEF IInv, TypeOK
  <2>3. PICK x, y : /\ x = Cardinality({m \in routed : m.call = c})
                    /\ y = Cardinality({n \in Nodes : c \in stored[n]})
    BY Zenon
  <2>4. x \in Nat /\ y \in Nat
    BY <2>2, <2>3, OutstandingCounted, FS_CardinalityType, Zenon
  <2>5. x + y = IF Outstanding(c) THEN 1 ELSE 0
    BY <2>2, <2>3, OutstandingCounted, Zenon
  <2>6. routes[c] = IF Outstanding(c) THEN runs[c] + 1 ELSE runs[c]
    BY <2>2, Zenon DEF Balance
  <2>7. routes[c] = runs[c] + x + y
    BY <2>2, <2>4, <2>5, <2>6
  <2>8. QED
    BY <2>3, <2>7, Zenon
<1>2. QED
  BY <1>1, FetchInvariant, PTL
=============================================================================
