----------------------------- MODULE Kvs_proofs -----------------------------
(***************************************************************************)
(* The key-value store as its clients see it.  For every value, clock and  *)
(* name: the order of timestamps, the laws of the merges, and that what is *)
(* serialized is read back (KvsValues).  For any keys, PUTs and servers,   *)
(* any losses and any order of replies and timeouts: no request is dropped *)
(* by the client (KvsClient).                                              *)
(***************************************************************************)
EXTENDS KvsValues, KvsClient, TLAPS

-----------------------------------------------------------------------------
(* The client keeps every request. *)

USE DEF Query, AskOnce, Workers, Dropped

LEMMA KeyType == \A r \in Requests : Key(r) \in Keys /\ (r \in Keys => Key(r) = r)
BY KvsAssumption DEF Requests, Key

\* What the steps below keep: the requests in a pending map, and the queries.
Held(r) == waiting[r] > 0 \/ pending[r] # None

Books ==
  /\ \A k \in wanted : Held(k)
  /\ \A p \in Puts : puts[p] = "issued" => Held(p)

IInv == TypeOK /\ Books /\ WaitingIsAsked

LEMMA KvsInit == Init => IInv
BY DEF Init, IInv, TypeOK, Books, WaitingIsAsked, Queued, Of, Requests

\* try_request puts its request in a pending map and takes out no other.
LEMMA EnqueueKeeps ==
  ASSUME TypeOK, WaitingIsAsked, NEW r \in Requests, Enqueue(r), UNCHANGED losses
  PROVE  /\ asked' \in [Keys -> Nat]
         /\ waiting' \in [Requests -> Nat]
         /\ waiting'[r] > 0
         /\ \A q \in Requests : waiting'[q] >= waiting[q]
         /\ WaitingIsAsked'
<1>1. Key(r) \in Keys
  BY KeyType
<1>2. asked' \in [Keys -> Nat] /\ waiting' \in [Requests -> Nat] /\ waiting'[r] > 0
  BY <1>1 DEF Enqueue, TypeOK
<1>3. \A q \in Requests : waiting'[q] >= waiting[q] /\ (q # r => waiting'[q] = waiting[q])
  BY DEF Enqueue, TypeOK
<1>4. \A k \in Keys : asked'[k] >= asked[k]
  BY <1>1 DEF Enqueue, TypeOK
<1>5. asked'[Key(r)] > 0 \/ losses' > 0
  <2>1. CASE Queued(Key(r))
    BY <1>1, <2>1 DEF Enqueue, WaitingIsAsked
  <2>2. CASE ~Queued(Key(r))
    BY <1>1, <2>2 DEF Enqueue, TypeOK
  <2> QED BY <2>1, <2>2
<1>6. WaitingIsAsked'
  <2> SUFFICES ASSUME NEW k \in Keys, Queued(k)'
               PROVE  asked'[k] > 0 \/ losses' > 0
    BY DEF WaitingIsAsked
  <2>1. CASE k = Key(r)
    BY <1>5, <2>1
  <2>2. CASE k # Key(r)
    <3>1. Queued(k)
      BY <1>3, <2>2 DEF Queued, Of
    <3>2. asked[k] > 0 \/ losses > 0
      BY <3>1 DEF WaitingIsAsked
    <3> QED BY <1>2, <1>4, <3>2 DEF TypeOK
  <2> QED BY <2>1, <2>2
<1> QED BY <1>2, <1>3, <1>6

\* The same for try_request, which may also send.
LEMMA TryRequestKeeps ==
  ASSUME TypeOK, WaitingIsAsked, NEW r \in Requests, try_request(r), UNCHANGED losses
  PROVE  /\ cache' = cache
         /\ asked' \in [Keys -> Nat]
         /\ waiting' \in [Requests -> Nat]
         /\ pending' \in [Requests -> Servers \cup {None}]
         /\ sent' \in [Requests -> Nat]
         /\ Held(r)'
         /\ \A q \in Requests : Held(q) => Held(q)'
         /\ WaitingIsAsked'
<1>1. CASE Enqueue(r) /\ UNCHANGED <<cache, pending, sent>>
  <2>1. /\ asked' \in [Keys -> Nat]
        /\ waiting' \in [Requests -> Nat]
        /\ waiting'[r] > 0
        /\ \A q \in Requests : waiting'[q] >= waiting[q]
        /\ WaitingIsAsked'
    BY <1>1, EnqueueKeeps
  <2>2. \A q \in Requests : Held(q) => Held(q)'
    BY <1>1, <2>1 DEF Held, TypeOK
  <2> QED BY <1>1, <2>1, <2>2 DEF Held, TypeOK
<1>2. ASSUME NEW w \in cache[Key(r)],
             sent' = [sent EXCEPT ![r] = @ + 1],
             pending' = [pending EXCEPT ![r] = w],
             UNCHANGED <<cache, waiting, asked>>
      PROVE  /\ cache' = cache
             /\ asked' \in [Keys -> Nat]
             /\ waiting' \in [Requests -> Nat]
             /\ pending' \in [Requests -> Servers \cup {None}]
             /\ sent' \in [Requests -> Nat]
             /\ Held(r)'
             /\ \A q \in Requests : Held(q) => Held(q)'
             /\ WaitingIsAsked'
  <2>1. w \in Servers /\ w # None
    BY KeyType, KvsAssumption DEF TypeOK
  <2>2. WaitingIsAsked'
    BY <1>2 DEF WaitingIsAsked, Queued
  <2> QED BY <1>2, <2>1, <2>2 DEF Held, TypeOK
<1> QED BY <1>1, <1>2 DEF try_request

LEMMA GetPutStep ==
  ASSUME IInv, (\E k \in Keys : get_async(k)) \/ (\E p \in Puts : put_async(p))
  PROVE  IInv'
<1>1. TypeOK /\ Books /\ WaitingIsAsked
  BY DEF IInv
<1>2. ASSUME NEW k \in Keys, get_async(k) PROVE IInv'
  <2>0. k \in Requests
    BY DEF Requests
  <2>1. CASE pending[k] # None /\ UNCHANGED book
    <3>1. TypeOK'
      BY <1>1, <1>2, <2>1 DEF get_async, book, TypeOK
    <3>2. Books'
      BY <1>1, <1>2, <2>1 DEF get_async, book, Books, Held
    <3>3. WaitingIsAsked'
      BY <1>1, <1>2, <2>1 DEF get_async, book, WaitingIsAsked, Queued
    <3> QED BY <3>1, <3>2, <3>3 DEF IInv
  <2>2. CASE try_request(k)
    <3>1. /\ cache' = cache
          /\ asked' \in [Keys -> Nat]
          /\ waiting' \in [Requests -> Nat]
          /\ pending' \in [Requests -> Servers \cup {None}]
          /\ sent' \in [Requests -> Nat]
          /\ Held(k)'
          /\ \A q \in Requests : Held(q) => Held(q)'
          /\ WaitingIsAsked'
      BY <1>1, <1>2, <2>0, <2>2, TryRequestKeeps DEF get_async
    <3>2. /\ wanted' = wanted \cup {k} /\ gets' = gets + 1
          /\ UNCHANGED <<puts, losses, moves, expiries>>
      BY <1>2 DEF get_async
    <3>3. TypeOK'
      BY <1>1, <3>1, <3>2 DEF TypeOK
    <3>4. Books'
      BY <1>1, <3>1, <3>2 DEF Books, Requests, TypeOK
    <3> QED BY <3>1, <3>3, <3>4 DEF IInv
  <2> QED BY <1>2, <2>1, <2>2 DEF get_async
<1>3. ASSUME NEW p \in Puts, put_async(p) PROVE IInv'
  <2>0. p \in Requests
    BY DEF Requests
  <2>1. /\ cache' = cache
        /\ asked' \in [Keys -> Nat]
        /\ waiting' \in [Requests -> Nat]
        /\ pending' \in [Requests -> Servers \cup {None}]
        /\ sent' \in [Requests -> Nat]
        /\ Held(p)'
        /\ \A q \in Requests : Held(q) => Held(q)'
        /\ WaitingIsAsked'
    BY <1>1, <1>3, <2>0, TryRequestKeeps DEF put_async, bounds
  <2>2. /\ puts' = [puts EXCEPT ![p] = "issued"]
        /\ UNCHANGED <<wanted, losses, moves, expiries, gets>>
    BY <1>3 DEF put_async, bounds
  <2>3. TypeOK'
    BY <1>1, <2>1, <2>2 DEF TypeOK
  <2>4. Books'
    BY <1>1, <2>1, <2>2 DEF Books, Requests, TypeOK
  <2> QED BY <2>1, <2>3, <2>4 DEF IInv
<1> QED BY <1>2, <1>3

\* A reply of the routing tier, or its loss.
LEMMA AddressStep ==
  ASSUME IInv, NEW k \in Keys,
         \/ RecvNoServers(k)
         \/ LoseQuery(k)
         \/ \E ips \in SUBSET Servers \ {{}} : RecvAddress(k, ips)
  PROVE  IInv'
<1>1. TypeOK /\ Books /\ WaitingIsAsked
  BY DEF IInv
<1>2. CASE RecvNoServers(k) \/ LoseQuery(k)
  <2>1. /\ UNCHANGED <<cache, waiting, pending, sent, wanted, puts, expiries, gets>>
        /\ asked' \in [Keys -> Nat]
        /\ losses' \in Nat /\ moves' \in Nat
        /\ \A q \in Keys : q # k => asked'[q] = asked[q]
        /\ losses' >= losses
        /\ losses' > 0 \/ (Queued(k) => asked'[k] > 0)
    BY <1>1, <1>2 DEF RecvNoServers, LoseQuery, TypeOK
  <2>2. TypeOK'
    BY <1>1, <2>1 DEF TypeOK
  <2>3. Books'
    BY <1>1, <2>1 DEF Books, Held
  <2>4. WaitingIsAsked'
    <3>1. \A q \in Keys : Queued(q)' <=> Queued(q)
      BY <2>1 DEF Queued
    <3> QED BY <1>1, <2>1, <3>1 DEF WaitingIsAsked, TypeOK
  <2> QED BY <2>2, <2>3, <2>4 DEF IInv
<1>3. ASSUME NEW ips \in SUBSET Servers \ {{}}, RecvAddress(k, ips) PROVE IInv'
  <2>1. /\ UNCHANGED <<wanted, puts, losses, moves, expiries, gets>>
        /\ asked' = [asked EXCEPT ![k] = @ - 1]
        /\ asked' \in [Keys -> Nat]
        /\ \A q \in Keys : q # k => asked'[q] = asked[q]
    BY <1>1, <1>3 DEF RecvAddress, bounds, TypeOK
  <2>2. CASE Queued(k)
    <3> DEFINE Goes(r) == r \in Of(k) /\ waiting[r] > 0
    <3>1. PICK to \in [Of(k) -> cache[k] \cup ips] :
            /\ cache' = [cache EXCEPT ![k] = @ \cup ips]
            /\ sent' = [r \in Requests |-> IF Goes(r) THEN sent[r] + waiting[r] ELSE sent[r]]
            /\ pending' = [r \in Requests |-> IF Goes(r) THEN to[r] ELSE pending[r]]
            /\ waiting' = [r \in Requests |-> IF Goes(r) THEN 0 ELSE waiting[r]]
      BY <1>3, <2>2 DEF RecvAddress
    <3>2. \A r \in Of(k) : to[r] \in Servers /\ to[r] # None
      BY <1>1, KvsAssumption DEF TypeOK
    <3>3. TypeOK'
      <4>1. cache' \in [Keys -> SUBSET Servers] /\ sent' \in [Requests -> Nat] /\ waiting' \in [Requests -> Nat]
        BY <1>1, <3>1 DEF TypeOK
      <4>2. pending' \in [Requests -> Servers \cup {None}]
        BY <1>1, <3>1, <3>2 DEF TypeOK
      <4> QED BY <1>1, <2>1, <4>1, <4>2, Zenon DEF TypeOK
    <3>4. \A r \in Requests : Held(r) => Held(r)'
      BY <3>1, <3>2 DEF Held, TypeOK
    <3>5. Books'
      BY <1>1, <2>1, <3>4 DEF Books, Requests, TypeOK
    <3>6. ~Queued(k)' /\ \A q \in Keys : Queued(q)' => Queued(q)
      BY <1>1, <3>1 DEF Queued, Of, TypeOK
    <3>7. WaitingIsAsked'
      BY <1>1, <2>1, <3>6 DEF WaitingIsAsked
    <3> QED BY <3>3, <3>5, <3>7 DEF IInv
  <2>3. CASE ~Queued(k)
    <3>1. UNCHANGED <<cache, waiting, pending, sent>>
      BY <1>3, <2>3 DEF RecvAddress
    <3>2. TypeOK'
      BY <1>1, <2>1, <3>1 DEF TypeOK
    <3>3. Books'
      BY <1>1, <2>1, <3>1 DEF Books, Held
    <3>4. WaitingIsAsked'
      BY <1>1, <2>1, <2>3, <3>1 DEF WaitingIsAsked, Queued
    <3> QED BY <3>2, <3>3, <3>4 DEF IInv
  <2> QED BY <2>2, <2>3
<1> QED BY <1>2, <1>3

\* A reply of a server, or its loss.
LEMMA ResponseStep ==
  ASSUME IInv, Stored = Keys, NEW r \in Requests,
         \/ RecvMoved(r)
         \/ LoseRequest(r)
         \/ \E invalidate \in BOOLEAN : RecvResponse(r, invalidate)
  PROVE  IInv'
<1>1. TypeOK /\ Books /\ WaitingIsAsked
  BY DEF IInv
<1>2. CASE RecvMoved(r)
  <2>1. /\ sent' \in [Requests -> Nat] /\ moves' \in Nat
        /\ UNCHANGED <<pending, wanted, puts, losses, expiries, gets>>
    BY <1>1, <1>2 DEF RecvMoved, TypeOK
  <2>2. CASE pending[r] = None
    <3>1. UNCHANGED <<cache, waiting, asked>>
      BY <1>2, <2>2 DEF RecvMoved
    <3>2. TypeOK'
      BY <1>1, <2>1, <3>1 DEF TypeOK
    <3>3. Books' /\ WaitingIsAsked'
      BY <1>1, <2>1, <3>1 DEF Books, Held, WaitingIsAsked, Queued
    <3> QED BY <3>2, <3>3, SMTT(30) DEF IInv
  <2>3. CASE pending[r] # None
    <3>1. cache' = [cache EXCEPT ![Key(r)] = {}] /\ Enqueue(r)
      BY <1>2, <2>3 DEF RecvMoved
    <3>2. /\ asked' \in [Keys -> Nat]
          /\ waiting' \in [Requests -> Nat]
          /\ \A q \in Requests : waiting'[q] >= waiting[q]
          /\ WaitingIsAsked'
      BY <1>1, <2>1, <3>1, EnqueueKeeps
    <3>3. cache' \in [Keys -> SUBSET Servers]
      BY <1>1, <3>1, KeyType DEF TypeOK
    <3>4. TypeOK'
      BY <1>1, <2>1, <3>2, <3>3 DEF TypeOK
    <3>5. \A q \in Requests : Held(q) => Held(q)'
      BY <1>1, <2>1, <3>2 DEF Held, TypeOK
    <3>6. Books'
      BY <1>1, <2>1, <3>5 DEF Books, Requests, TypeOK
    <3> QED BY <3>2, <3>4, <3>6 DEF IInv
  <2> QED BY <2>2, <2>3
<1>3. CASE LoseRequest(r)
  <2>1. /\ sent' \in [Requests -> Nat] /\ losses' \in Nat /\ losses' > losses
        /\ UNCHANGED <<cache, waiting, pending, asked, wanted, puts, moves, expiries, gets>>
    BY <1>1, <1>3 DEF LoseRequest, TypeOK
  <2>2. TypeOK'
    BY <1>1, <2>1 DEF TypeOK
  <2>3. Books'
    BY <1>1, <2>1 DEF Books, Held
  <2>4. losses' > 0
    BY <1>1, <2>1 DEF TypeOK
  <2> QED BY <2>2, <2>3, <2>4 DEF IInv, WaitingIsAsked
<1>4. ASSUME NEW invalidate \in BOOLEAN, RecvResponse(r, invalidate) PROVE IInv'
  <2>1. /\ sent' \in [Requests -> Nat]
        /\ UNCHANGED <<waiting, asked, losses, moves, expiries, gets>>
    BY <1>1, <1>4 DEF RecvResponse, bounds, TypeOK
  <2>2. WaitingIsAsked'
    BY <1>1, <2>1 DEF WaitingIsAsked, Queued
  <2>3. CASE pending[r] = None
    <3>1. UNCHANGED <<cache, pending, wanted, puts>>
      BY <1>4, <2>3 DEF RecvResponse
    <3>2. TypeOK'
      BY <1>1, <2>1, <3>1 DEF TypeOK
    <3>3. Books'
      BY <1>1, <2>1, <3>1 DEF Books, Held
    <3> QED BY <2>2, <3>2, <3>3 DEF IInv
  <2>4. CASE pending[r] # None
    <3>1. /\ cache' = IF invalidate THEN [cache EXCEPT ![Key(r)] = {}] ELSE cache
          /\ pending' = [pending EXCEPT ![r] = None]
          /\ wanted' = IF r \in Stored THEN wanted \ {r} ELSE wanted
          /\ puts' = IF r \in Puts THEN [puts EXCEPT ![r] = "done"] ELSE puts
      BY <1>4, <2>4 DEF RecvResponse
    <3>2. TypeOK'
      <4>1. cache' \in [Keys -> SUBSET Servers]
        BY <1>1, <3>1, KeyType DEF TypeOK
      <4>2. pending' \in [Requests -> Servers \cup {None}] /\ wanted' \subseteq Keys
        BY <1>1, <3>1 DEF TypeOK
      <4>3. puts' \in [Puts -> {"new", "issued", "done", "expired"}]
        BY <1>1, <3>1 DEF TypeOK
      <4> QED BY <1>1, <2>1, <4>1, <4>2, <4>3 DEF TypeOK
    <3>3. \A q \in Requests : q # r /\ Held(q) => Held(q)'
      BY <1>1, <2>1, <3>1 DEF Held, TypeOK
    <3>4. \A q \in wanted' : Held(q)'
      BY <1>1, <3>1, <3>3 DEF Books, Requests, TypeOK
    <3>5. \A p \in Puts : puts'[p] = "issued" => Held(p)'
      BY <1>1, <3>1, <3>3 DEF Books, Requests, TypeOK
    <3>6. Books'
      BY <3>4, <3>5 DEF Books
    <3> QED BY <2>2, <3>2, <3>6 DEF IInv
  <2> QED BY <2>3, <2>4
<1> QED BY <1>2, <1>3, <1>4

\* Timeouts, and the GETs issued again after them.
LEMMA ExpireStep ==
  ASSUME IInv, NEW W \in SUBSET Keys, NEW E \in SUBSET {r \in Requests : pending[r] # None},
         Expire(W, E)
  PROVE  IInv'
<1>1. TypeOK /\ Books /\ WaitingIsAsked
  BY SMTT(30) DEF IInv
<1> DEFINE rs == Resent(W, E)
           rw == Rewaits(W, E)
<1>2. /\ cache' = WithoutServers(E)
      /\ waiting' = [r \in Requests |-> IF r \in rw THEN Left(r, W) + BadGets(r, W, E) ELSE Left(r, W)]
      /\ asked' = [k \in Keys |-> IF k \in rw /\ \A r \in Of(k) : Left(r, W) = 0
                                  THEN asked[k] + 1 ELSE asked[k]]
      /\ sent' = [r \in Requests |-> IF r \in rs THEN sent[r] + 1 ELSE sent[r]]
      /\ puts' = [p \in Puts |-> IF p \in Expired(W, E) THEN "expired" ELSE puts[p]]
      /\ expiries' = expiries + 1
      /\ UNCHANGED <<wanted, losses, moves, gets>>
  BY DEF Expire
<1>3. PICK to \in [rs -> Servers] :
        pending' = [r \in Requests |-> IF r \in rs THEN to[r] ELSE IF r \in E THEN None ELSE pending[r]]
  BY DEF Expire
<1>4. /\ rs \subseteq Keys /\ rw \subseteq Keys
      /\ \A k \in Keys : k \in rs \/ k \in rw <=> k \in Again(W, E)
      /\ \A k \in rs : to[k] # None
  BY KvsAssumption DEF Resent, Rewaits, Again
<1>5. /\ \A r \in Requests : Left(r, W) \in Nat
      /\ \A k \in Keys : BadGets(k, W, E) \in Nat
  BY <1>1 DEF Left, BadGets, TypeOK, Requests
<1>6. \A k \in Keys : k \in Again(W, E) => BadGets(k, W, E) > 0
  BY DEF Again
<1> HIDE DEF rs, rw
<1>7. TypeOK'
  <2>1. cache' \in [Keys -> SUBSET Servers]
    BY <1>1, <1>2, SMTT(30) DEF WithoutServers, TypeOK
  <2>2. waiting' \in [Requests -> Nat]
    BY <1>2, <1>4, <1>5
  <2>3. asked' \in [Keys -> Nat]
    BY <1>1, <1>2 DEF TypeOK
  <2>4. sent' \in [Requests -> Nat]
    BY <1>1, <1>2 DEF TypeOK
  <2>5. pending' \in [Requests -> Servers \cup {None}]
    BY <1>1, <1>3 DEF TypeOK
  <2>6. puts' \in [Puts -> {"new", "issued", "done", "expired"}]
    BY <1>1, <1>2 DEF TypeOK
  <2>7. wanted' \subseteq Keys /\ losses' \in Nat /\ moves' \in Nat /\ expiries' \in Nat /\ gets' \in Nat
    BY <1>1, <1>2 DEF TypeOK
  <2> QED BY <2>1, <2>2, <2>3, <2>4, <2>5, <2>6, <2>7 DEF TypeOK
<1>8. ASSUME NEW k \in wanted PROVE Held(k)'
  <2>1. k \in Keys /\ k \in Requests /\ Key(k) = k
    BY <1>1, KeyType DEF TypeOK, Requests
  <2>2. CASE k \in rs
    BY <1>3, <1>4, <2>1, <2>2, SMTT(30) DEF Held
  <2>3. CASE k \in rw
    BY <1>2, <1>4, <1>5, <1>6, <2>1, <2>3 DEF Held
  <2>4. CASE k \notin rs /\ k \notin rw
    <3>1. k \notin Again(W, E)
      BY <1>4, <2>1, <2>4, SMTT(30)
    <3>2. pending'[k] = (IF k \in E THEN None ELSE pending[k]) /\ waiting'[k] = Left(k, W)
      BY <1>2, <1>3, <2>1, <2>4
    <3>3. CASE pending[k] # None /\ k \notin E
      BY <3>2, <3>3 DEF Held
    <3>4. CASE ~(pending[k] # None /\ k \notin E)
      <4>1. ~(BadGets(k, W, E) > 0)
        BY <2>1, <3>1, <3>4 DEF Again
      <4>2. waiting[k] \in Nat
        BY <1>1, <2>1 DEF TypeOK
      <4>3. k \notin E /\ (k \in W => waiting[k] = 0)
        BY <4>1, <4>2 DEF BadGets
      <4>4. waiting[k] > 0
        BY <1>1, <3>4, <4>3 DEF Books, Held
      <4> QED BY <2>1, <3>2, <4>2, <4>3, <4>4 DEF Held, Left
    <3> QED BY <3>3, <3>4
  <2> QED BY <2>2, <2>3, <2>4
<1>9. ASSUME NEW p \in Puts, puts'[p] = "issued" PROVE Held(p)'
  <2>1. p \in Requests /\ p \notin rs /\ p \notin rw
    BY <1>4, KvsAssumption DEF Requests
  <2>2. puts[p] = "issued" /\ p \notin Expired(W, E)
    BY <1>1, <1>2, <1>9 DEF TypeOK
  <2>3. p \notin E /\ (Key(p) \in W => ~(waiting[p] > 0))
    BY <2>1, <2>2 DEF Expired
  <2>4. waiting[p] > 0 \/ pending[p] # None
    BY <1>1, <2>2, SMTT(30) DEF Books, Held
  <2> QED BY <1>2, <1>3, <2>1, <2>3, <2>4 DEF Held, Left
<1>10. Books'
  BY <1>2, <1>8, <1>9 DEF Books
<1>11. ASSUME NEW k \in Keys, Queued(k)' PROVE asked'[k] > 0 \/ losses' > 0
  <2>1. asked[k] \in Nat /\ asked'[k] >= asked[k]
    BY <1>1, <1>2, SMTT(30) DEF TypeOK
  <2>2. CASE \E r \in Of(k) : Left(r, W) # 0
    <3>1. PICK r \in Of(k) : Left(r, W) # 0
      BY <2>2
    <3>2. r \in Requests /\ waiting[r] \in Nat /\ waiting[r] # 0
      BY <1>1, <3>1 DEF Of, Left, TypeOK
    <3>3. Queued(k)
      BY <3>1, <3>2 DEF Queued
    <3>4. asked[k] > 0 \/ losses > 0
      BY <1>1, <3>3, SMTT(30) DEF WaitingIsAsked
    <3> QED BY <1>2, <1>7, <2>1, <3>4 DEF TypeOK
  <2>3. CASE \A r \in Of(k) : Left(r, W) = 0
    <3>1. PICK r \in Of(k) : waiting'[r] > 0
      BY <1>11 DEF Queued
    <3>2. r \in Requests /\ Key(r) = k
      BY <3>1 DEF Of
    <3>3. r \in rw
      <4>1. Left(r, W) = 0
        BY <2>3, <3>1
      <4> QED BY <1>2, <3>1, <3>2, <4>1, SMTT(20)
    <3>4. k \in rw
      BY <1>4, <3>2, <3>3, KeyType
    <3> QED BY <1>2, <2>1, <2>3, <3>4
  <2> QED BY <2>2, <2>3
<1>12. WaitingIsAsked'
  BY <1>11 DEF WaitingIsAsked
<1> QED BY <1>7, <1>10, <1>12 DEF IInv

\* Where the store has every key that is asked for, receive_async and
\* get_kvs_responses drop no request: a GET the scheduler waits for and a PUT
\* that is issued stay in one of the client's pending maps until they are
\* answered or, for a PUT, its timeout is reported; and a key with requests in
\* pending_request_map_ has a query out, unless one was lost.
THEOREM NoRequestIsDropped ==
  ASSUME Stored = Keys
  PROVE  Spec => [](TypeOK /\ RequestsAccounted /\ WaitingIsAsked)
<1>1. Init => IInv
  BY KvsInit
<1>2. IInv /\ [Next]_vars => IInv'
  <2> SUFFICES ASSUME IInv, [Next]_vars PROVE IInv'
    OBVIOUS
  <2>1. CASE (\E k \in Keys : get_async(k)) \/ (\E p \in Puts : put_async(p))
    BY <2>1, GetPutStep
  <2>2. ASSUME NEW k \in Keys,
               \/ RecvNoServers(k)
               \/ LoseQuery(k)
               \/ \E ips \in SUBSET Servers \ {{}} : RecvAddress(k, ips)
        PROVE  IInv'
    BY <2>2, AddressStep
  <2>3. ASSUME NEW r \in Requests,
               \/ RecvMoved(r)
               \/ LoseRequest(r)
               \/ \E invalidate \in BOOLEAN : RecvResponse(r, invalidate)
        PROVE  IInv'
    BY <2>3, ResponseStep
  <2>4. ASSUME NEW W \in SUBSET Keys, NEW E \in SUBSET {r \in Requests : pending[r] # None},
               Expire(W, E)
        PROVE  IInv'
    BY <2>4, ExpireStep
  <2>5. CASE UNCHANGED vars
    <3>1. TypeOK'
      BY <2>5 DEF IInv, vars, book, bounds, TypeOK
    <3>2. Books' /\ WaitingIsAsked'
      BY <2>5 DEF IInv, vars, book, bounds, Books, Held, WaitingIsAsked, Queued
    <3> QED BY <3>1, <3>2 DEF IInv
  <2> QED BY <2>1, <2>2, <2>3, <2>4, <2>5 DEF Next
<1>3. IInv => TypeOK /\ RequestsAccounted /\ WaitingIsAsked
  BY DEF IInv, Books, Held, RequestsAccounted, GetNotForgotten, PutAccounted
<1> QED BY <1>1, <1>2, <1>3, PTL DEF Spec

HIDE DEF Query, AskOnce, Workers, Dropped

-----------------------------------------------------------------------------
(* Timestamps and the last writer. *)

\* generate_timestamp orders the puts of threads 0 .. 9 by time, and gives
\* no two of them the same timestamp unless one thread put twice in a
\* millisecond.
THEOREM TimestampsOrdered ==
    ASSUME NEW t \in Nat, NEW u \in Nat, NEW i \in 0 .. 9, NEW j \in 0 .. 9
    PROVE  /\ t < u => Timestamp(t, i) < Timestamp(u, j)
           /\ Timestamp(t, i) = Timestamp(u, j) => t = u /\ i = j
<1>1. Timestamp(t, i) = t * 10 + i /\ Timestamp(u, j) = u * 10 + j
  BY DEF Timestamp, Power
<1> QED BY <1>1

\* From ten I/O threads on the order is lost: the ids of threads 10 .. 99
\* take two digits, so generate_timestamp puts a write of such a thread
\* after every write of a thread 0 .. 9 up to ten times its time.
THEOREM TwoDigitThreadsWin ==
    ASSUME NEW t \in Nat, NEW u \in Nat, NEW i \in 10 .. 99, NEW j \in 0 .. 9,
           u < 10 * t
    PROVE  Timestamp(u, j) < Timestamp(t, i)
<1>1. Timestamp(t, i) = t * 100 + i /\ Timestamp(u, j) = u * 10 + j
  BY DEF Timestamp, Power
<1> QED BY <1>1

\* LWWPairLattice::do_merge is associative and idempotent, keeps the later
\* timestamp, and depends on the order of its arguments only when two
\* different values carry the same timestamp.
THEOREM LastWriterWins ==
    ASSUME NEW x \in Stamped, NEW y \in Stamped, NEW z \in Stamped
    PROVE  /\ LWWMerge(x, x) = x
           /\ LWWMerge(LWWMerge(x, y), z) = LWWMerge(x, LWWMerge(y, z))
           /\ x.timestamp # y.timestamp => LWWMerge(x, y) = LWWMerge(y, x)
           /\ LWWMerge(x, y).timestamp = MaxMerge(x.timestamp, y.timestamp)
BY DEF Stamped, LWWMerge, MaxMerge

\* PriorityLattice::do_merge likewise, for the smaller priority.
THEOREM SmallestPriorityWins ==
    ASSUME NEW x \in Prioritized, NEW y \in Prioritized, NEW z \in Prioritized
    PROVE  /\ PriorityMerge(x, x) = x
           /\ PriorityMerge(PriorityMerge(x, y), z) = PriorityMerge(x, PriorityMerge(y, z))
           /\ x.priority # y.priority => PriorityMerge(x, y) = PriorityMerge(y, x)
BY DEF Prioritized, PriorityMerge

-----------------------------------------------------------------------------
(* Vector clocks. *)

LEMMA ClockType ==
    ASSUME NEW c \in Clocks
    PROVE  /\ DOMAIN c \in SUBSET Nodes
           /\ c \in [DOMAIN c -> Nat]
BY DEF Clocks

LEMMA ClockMergeType ==
    ASSUME NEW c \in Clocks, NEW d \in Clocks
    PROVE  /\ ClockMerge(c, d) \in Clocks
           /\ DOMAIN ClockMerge(c, d) = DOMAIN c \cup DOMAIN d
<1>1. ClockMerge(c, d) \in [DOMAIN c \cup DOMAIN d -> Nat]
  BY ClockType DEF ClockMerge, MaxMerge
<1>2. DOMAIN c \cup DOMAIN d \in SUBSET Nodes
  BY ClockType
<1> QED BY <1>1, <1>2 DEF Clocks

\* Two clocks with the same domain and the same entries are the same clock.
LEMMA ClockEqual ==
    ASSUME NEW c \in Clocks, NEW d \in Clocks, DOMAIN c = DOMAIN d,
           \A n \in DOMAIN c : c[n] = d[n]
    PROVE  c = d
BY ClockType

LEMMA ClockMergeAt ==
    ASSUME NEW c \in Clocks, NEW d \in Clocks, NEW n \in DOMAIN c \cup DOMAIN d
    PROVE  ClockMerge(c, d)[n] = IF n \notin DOMAIN d THEN c[n]
                                 ELSE IF n \notin DOMAIN c THEN d[n]
                                 ELSE MaxMerge(c[n], d[n])
BY DEF ClockMerge

\* Merging vector clocks (MapLattice of MaxLattice) is idempotent,
\* commutative and associative, so replicas that saw the same clocks in any
\* order, any number of times, have the same clock.
THEOREM ClocksConverge ==
    ASSUME NEW c \in Clocks, NEW d \in Clocks, NEW e \in Clocks
    PROVE  /\ ClockMerge(c, c) = c
           /\ ClockMerge(c, d) = ClockMerge(d, c)
           /\ ClockMerge(ClockMerge(c, d), e) = ClockMerge(c, ClockMerge(d, e))
<1>1. ClockMerge(c, c) = c
  <2>1. \A n \in DOMAIN c : ClockMerge(c, c)[n] = c[n]
    BY ClockMergeAt, ClockType DEF MaxMerge
  <2> QED BY <2>1, ClockMergeType, ClockEqual
<1>2. ClockMerge(c, d) = ClockMerge(d, c)
  <2>1. \A n \in DOMAIN c \cup DOMAIN d : ClockMerge(c, d)[n] = ClockMerge(d, c)[n]
    BY ClockMergeAt, ClockType DEF MaxMerge
  <2> QED BY <2>1, ClockMergeType, ClockEqual, ZenonT(40)
<1>3. ClockMerge(ClockMerge(c, d), e) = ClockMerge(c, ClockMerge(d, e))
  <2> DEFINE l == ClockMerge(ClockMerge(c, d), e)
             r == ClockMerge(c, ClockMerge(d, e))
  <2>1. /\ ClockMerge(c, d) \in Clocks /\ ClockMerge(d, e) \in Clocks
        /\ l \in Clocks /\ r \in Clocks
        /\ DOMAIN ClockMerge(c, d) = DOMAIN c \cup DOMAIN d
        /\ DOMAIN ClockMerge(d, e) = DOMAIN d \cup DOMAIN e
        /\ DOMAIN l = DOMAIN c \cup DOMAIN d \cup DOMAIN e
        /\ DOMAIN r = DOMAIN c \cup DOMAIN d \cup DOMAIN e
    <3>1. /\ ClockMerge(c, d) \in Clocks /\ ClockMerge(d, e) \in Clocks
          /\ DOMAIN ClockMerge(c, d) = DOMAIN c \cup DOMAIN d
          /\ DOMAIN ClockMerge(d, e) = DOMAIN d \cup DOMAIN e
      BY ClockMergeType, Zenon
    <3>2. l \in Clocks /\ DOMAIN l = DOMAIN ClockMerge(c, d) \cup DOMAIN e
      BY <3>1, ClockMergeType, Zenon
    <3>3. r \in Clocks /\ DOMAIN r = DOMAIN c \cup DOMAIN ClockMerge(d, e)
      BY <3>1, ClockMergeType, Zenon
    <3> HIDE DEF l, r
    <3> QED BY <3>1, <3>2, <3>3
  <2>2. ASSUME NEW n \in DOMAIN l
        PROVE  l[n] = r[n]
    <3>1. l[n] = IF n \notin DOMAIN e THEN ClockMerge(c, d)[n]
                 ELSE IF n \notin DOMAIN c \cup DOMAIN d THEN e[n]
                 ELSE MaxMerge(ClockMerge(c, d)[n], e[n])
      BY <2>1, ClockMergeAt
    <3>2. r[n] = IF n \notin DOMAIN d \cup DOMAIN e THEN c[n]
                 ELSE IF n \notin DOMAIN c THEN ClockMerge(d, e)[n]
                 ELSE MaxMerge(c[n], ClockMerge(d, e)[n])
      BY <2>1, ClockMergeAt
    <3>3. n \in DOMAIN c \cup DOMAIN d =>
            ClockMerge(c, d)[n] = IF n \notin DOMAIN d THEN c[n]
                                  ELSE IF n \notin DOMAIN c THEN d[n]
                                  ELSE MaxMerge(c[n], d[n])
      BY ClockMergeAt
    <3>4. n \in DOMAIN d \cup DOMAIN e =>
            ClockMerge(d, e)[n] = IF n \notin DOMAIN e THEN d[n]
                                  ELSE IF n \notin DOMAIN d THEN e[n]
                                  ELSE MaxMerge(d[n], e[n])
      BY ClockMergeAt
    <3>5. /\ n \in DOMAIN c => c[n] \in Nat
          /\ n \in DOMAIN d => d[n] \in Nat
          /\ n \in DOMAIN e => e[n] \in Nat
      BY ClockType
    <3> HIDE DEF l, r
    <3> QED BY <2>1, <3>1, <3>2, <3>3, <3>4, <3>5 DEF MaxMerge
  <2> QED BY <2>1, <2>2, ClockEqual
<1> QED BY <1>1, <1>2, <1>3

-----------------------------------------------------------------------------
(* Causal values. *)

\* SingleKeyCausalLattice::do_merge: a version that dominates replaces the
\* element, one that is dominated leaves it alone, and delivering a version
\* a second time changes nothing.
THEOREM CausalMergeLaws ==
    ASSUME NEW x \in Causal, NEW p \in Causal
    PROVE  /\ ClockMerge(x.clock, p.clock) = p.clock => CausalMerge(x, p) = p
           /\ ClockMerge(x.clock, p.clock) = x.clock /\ x.clock # p.clock
                => CausalMerge(x, p) = x
           /\ CausalMerge(CausalMerge(x, p), p) = CausalMerge(x, p)
<1>1. x.clock \in Clocks /\ p.clock \in Clocks
  BY DEF Causal
<1>2. /\ x = [clock |-> x.clock, value |-> x.value]
      /\ p = [clock |-> p.clock, value |-> p.value]
  BY DEF Causal
<1> DEFINE now == ClockMerge(x.clock, p.clock)
<1>3. /\ now \in Clocks
      /\ ClockMerge(now, p.clock) = now
  <2>1. ClockMerge(now, p.clock) = ClockMerge(x.clock, ClockMerge(p.clock, p.clock))
    BY <1>1, ClocksConverge
  <2> QED BY <2>1, <1>1, ClocksConverge, ClockMergeType, Zenon
<1>4. CausalMerge(x, p).clock = now
  BY DEF CausalMerge
<1>5. CausalMerge(x, p) = [clock |-> now, value |-> CausalMerge(x, p).value]
  BY SMTT(30) DEF CausalMerge
<1>6. CausalMerge(CausalMerge(x, p), p) =
        [clock |-> now,
         value |-> IF now = p.clock THEN p.value ELSE CausalMerge(x, p).value]
  BY <1>3, <1>4 DEF CausalMerge
<1>7. now = p.clock => CausalMerge(x, p) = p
  BY <1>2 DEF CausalMerge
<1>8. now = x.clock /\ x.clock # p.clock => CausalMerge(x, p) = x
  BY <1>2 DEF CausalMerge
<1>9. now = p.clock => CausalMerge(x, p).value = p.value
  BY <1>7
<1> HIDE DEF now
<1> QED BY <1>5, <1>6, <1>7, <1>8, <1>9 DEF now

\* Two replicas that exchange their versions agree, whichever merges first,
\* as long as one clock never stands for two values.
THEOREM CausalExchangeAgrees ==
    ASSUME NEW x \in Causal, NEW p \in Causal,
           x.clock = p.clock => x.value = p.value
    PROVE  CausalMerge(x, p) = CausalMerge(p, x)
<1>1. x.clock \in Clocks /\ p.clock \in Clocks
  BY DEF Causal
<1>2. ClockMerge(x.clock, p.clock) = ClockMerge(p.clock, x.clock)
  BY <1>1, ClocksConverge
<1>3. SetMerge(x.value, p.value) = SetMerge(p.value, x.value)
  BY DEF SetMerge
<1> QED BY <1>2, <1>3 DEF CausalMerge

\* MultiKeyCausalLattice::do_merge keeps the value and its dependencies
\* together: both are replaced, both kept or both merged, and delivering a
\* version a second time changes nothing.
THEOREM MultiMergeLaws ==
    ASSUME NEW x \in MultiCausal, NEW p \in MultiCausal
    PROVE  /\ ClockMerge(x.clock, p.clock) = p.clock => MultiMerge(x, p) = p
           /\ ClockMerge(x.clock, p.clock) = x.clock /\ x.clock # p.clock
                => MultiMerge(x, p) = x
           /\ MultiMerge(MultiMerge(x, p), p) = MultiMerge(x, p)
<1>1. /\ x.clock \in Clocks /\ p.clock \in Clocks
      /\ x = [clock |-> x.clock, deps |-> x.deps, value |-> x.value]
      /\ p = [clock |-> p.clock, deps |-> p.deps, value |-> p.value]
  BY DEF MultiCausal
<1> DEFINE now == ClockMerge(x.clock, p.clock)
           xp == MultiMerge(x, p)
<1>2. ClockMerge(now, p.clock) = now
  <2>1. ClockMerge(now, p.clock) = ClockMerge(x.clock, ClockMerge(p.clock, p.clock))
    BY <1>1, ClocksConverge, SMTT(30)
  <2> QED BY <2>1, <1>1, ClocksConverge
<1>3. /\ xp = [clock |-> now, deps |-> xp.deps, value |-> xp.value]
      /\ xp.clock = now
  BY DEF MultiMerge
<1>4. now = p.clock => xp = p
  BY <1>1 DEF MultiMerge
<1>5. now = x.clock /\ x.clock # p.clock => xp = x
  BY <1>1 DEF MultiMerge
<1> HIDE DEF xp
<1>6. MultiMerge(xp, p) =
        [clock |-> now, deps |-> IF now = p.clock THEN p.deps ELSE xp.deps,
         value |-> IF now = p.clock THEN p.value ELSE xp.value]
  BY <1>2, <1>3 DEF MultiMerge
<1> HIDE DEF now
<1>7. MultiMerge(xp, p) = xp
  BY <1>3, <1>4, <1>6
<1> QED BY <1>4, <1>5, <1>7 DEF now, xp

\* The t-th version a node wrote, and nothing it had read.
Version(n, t, V) == [clock |-> [k \in {n} |-> t], value |-> V]

\* With three replicas the order matters: do_merge of concurrent versions is
\* not associative.  Versions 1 and 2 of node m and version 1 of node n end
\* with the value that version 2 replaced when version 1 meets the other
\* node first, and without it when it comes last, under the same clock.
THEOREM MergeOrderMatters ==
    ASSUME NEW m \in Nodes, NEW n \in Nodes, m # n,
           NEW A \in SUBSET Values, NEW B \in SUBSET Values, NEW C \in SUBSET Values
    PROVE  \E now \in Clocks :
             /\ CausalMerge(CausalMerge(Version(m, 1, A), Version(n, 1, B)), Version(m, 2, C))
                  = [clock |-> now, value |-> A \cup B \cup C]
             /\ CausalMerge(Version(m, 1, A), CausalMerge(Version(n, 1, B), Version(m, 2, C)))
                  = [clock |-> now, value |-> B \cup C]
<1> DEFINE a == Version(m, 1, A)
           b == Version(n, 1, B)
           c == Version(m, 2, C)
           ab == [k \in {m, n} |-> 1]
           bc == [k \in {m, n} |-> IF k = m THEN 2 ELSE 1]
<1>0. /\ a = [clock |-> [k \in {m} |-> 1], value |-> A]
      /\ b = [clock |-> [k \in {n} |-> 1], value |-> B]
      /\ c = [clock |-> [k \in {m} |-> 2], value |-> C]
  BY DEF Version
<1> HIDE DEF a, b, c
<1>1. ClockMerge(a.clock, b.clock) = ab
  BY <1>0 DEF ClockMerge
<1>2. ClockMerge(b.clock, c.clock) = bc
  BY <1>0 DEF ClockMerge
<1>3. ClockMerge(ab, c.clock) = bc
  BY <1>0 DEF ClockMerge, MaxMerge
<1>4. ClockMerge(a.clock, bc) = bc
  BY <1>0 DEF ClockMerge, MaxMerge
<1>5. ab # a.clock /\ ab # b.clock /\ bc # c.clock /\ bc # b.clock /\ bc # ab
  <2>1. DOMAIN ab = {m, n} /\ DOMAIN bc = {m, n} /\ DOMAIN a.clock = {m}
        /\ DOMAIN b.clock = {n} /\ DOMAIN c.clock = {m} /\ ab[m] = 1 /\ bc[m] = 2
    BY <1>0
  <2> HIDE DEF ab, bc
  <2> QED BY <2>1
<1>10. bc \in Clocks
  <2>1. bc \in [{m, n} -> Nat] /\ {m, n} \in SUBSET Nodes
    OBVIOUS
  <2> HIDE DEF bc
  <2> QED BY <2>1 DEF Clocks
<1> HIDE DEF ab, bc
<1>6. CausalMerge(a, b) = [clock |-> ab, value |-> A \cup B]
  BY <1>0, <1>1, <1>5 DEF CausalMerge, SetMerge
<1>7. CausalMerge(b, c) = [clock |-> bc, value |-> B \cup C]
  BY <1>0, <1>2, <1>5, Zenon DEF CausalMerge, SetMerge
<1>8. CausalMerge(CausalMerge(a, b), c) = [clock |-> bc, value |-> A \cup B \cup C]
  BY <1>0, <1>3, <1>5, <1>6, Zenon DEF CausalMerge, SetMerge
<1>9. CausalMerge(a, CausalMerge(b, c)) = [clock |-> bc, value |-> B \cup C]
  BY <1>0, <1>4, <1>7, Zenon DEF CausalMerge, SetMerge
<1> QED BY <1>8, <1>9, <1>10 DEF a, b, c

-----------------------------------------------------------------------------
(* Strings. *)

LEMMA LenOf ==
    ASSUME NEW S, NEW x \in Seq(S)
    PROVE  Len(x) \in Nat /\ DOMAIN x = 1 .. Len(x)
  OBVIOUS

LEMMA ConcatOf ==
    ASSUME NEW S, NEW x \in Seq(S), NEW y \in Seq(S)
    PROVE  /\ x \o y \in Seq(S) /\ Len(x \o y) = Len(x) + Len(y)
           /\ \A i \in 1 .. Len(x) + Len(y) : (x \o y)[i] = IF i <= Len(x) THEN x[i] ELSE y[i - Len(x)]
  OBVIOUS

LEMMA SameSeq ==
    ASSUME NEW S, NEW x \in Seq(S), NEW y \in Seq(S), Len(x) = Len(y),
           \A i \in 1 .. Len(x) : x[i] = y[i]
    PROVE  x = y
<1>1. x = [i \in 1 .. Len(x) |-> x[i]] /\ y = [i \in 1 .. Len(y) |-> y[i]]
  OBVIOUS
<1> QED BY <1>1

LEMMA FirstOfConcat ==
    ASSUME NEW x \in Strings, NEW y \in Strings
    PROVE  SubSeq(x \o y, 1, Len(x)) = x
<1>1. PICK j : j = x \o y
  BY Zenon
<1>2. /\ j \in Seq(Chars) /\ Len(j) = Len(x) + Len(y) /\ x \in Seq(Chars) /\ Len(x) \in Nat /\ Len(y) \in Nat
      /\ \A i \in 1 .. Len(x) : j[i] = x[i]
  BY <1>1 DEF Strings
<1>3. PICK z : z = SubSeq(j, 1, Len(x))
  BY Zenon
<1>4. z \in Seq(Chars) /\ Len(z) = Len(x) /\ \A i \in 1 .. Len(x) : z[i] = j[i]
  BY <1>2, <1>3
<1>5. z = x
  BY <1>2, <1>4
<1> QED BY <1>1, <1>3, <1>5

\* The part of a concatenation behind its first string is its second one.
LEMMA SecondOfConcat ==
    ASSUME NEW x \in Strings, NEW y \in Strings
    PROVE  SubSeq(x \o y, Len(x) + 1, Len(x) + Len(y)) = y
<1>1. PICK j : j = x \o y
  BY Zenon
<1>2. /\ j \in Seq(Chars) /\ Len(j) = Len(x) + Len(y) /\ y \in Seq(Chars) /\ Len(x) \in Nat /\ Len(y) \in Nat
      /\ \A i \in 1 .. Len(y) : j[Len(x) + i] = y[i]
  BY <1>1 DEF Strings
<1>3. PICK z : z = SubSeq(j, Len(x) + 1, Len(x) + Len(y))
  BY Zenon
<1>4. z \in Seq(Chars) /\ Len(z) = Len(y) /\ \A i \in 1 .. Len(y) : z[i] = j[Len(x) + i]
  BY <1>2, <1>3
<1>5. z = y
  BY <1>2, <1>4
<1> QED BY <1>1, <1>3, <1>5

\* The BucketKey constructor takes a session_key apart into the key and the
\* 16-character session it was made of, unless the key is empty: then both
\* come back empty.
THEOREM NamesSplitAgain ==
    ASSUME NEW bucket \in Strings, NEW key \in Strings, NEW session \in Strings,
           Len(session) = SessionSize
    PROVE  BucketKeyOf(bucket, KeySessionName(key, session)) =
             IF key # <<>> THEN [bucket |-> bucket, key |-> key, session |-> session]
             ELSE [bucket |-> bucket, key |-> <<>>, session |-> <<>>]
<1> DEFINE name == KeySessionName(key, session)
           size == Len(name)
<1>1. /\ name \in Seq(Chars) /\ Len(key) \in Nat
      /\ size = Len(key) + SessionSize /\ SessionSize = 16
  <2>1. key \o session \in Seq(Chars) /\ Len(key \o session) = Len(key) + Len(session)
    BY ConcatOf, Zenon DEF Strings
  <2>2. Len(key) \in Nat
    BY LenOf DEF Strings
  <2> QED BY <2>1, <2>2 DEF KeySessionName, SessionSize
<1>2. key # <<>> <=> Len(key) > 0
  BY DEF Strings
<1>3. ASSUME key # <<>>
      PROVE  /\ SubSeq(name, 1, size - SessionSize) = key
             /\ SubSeq(name, size - SessionSize + 1, size) = session
  <2>2. SubSeq(key \o session, 1, Len(key)) = key
    BY FirstOfConcat
  <2>4. SubSeq(key \o session, Len(key) + 1, Len(key) + Len(session)) = session
    BY SecondOfConcat
  <2>6. size - SessionSize = Len(key) /\ size = Len(key) + Len(session)
    BY <1>1
  <2> QED BY <2>2, <2>4, <2>6, Zenon DEF KeySessionName
<1>4. key # <<>> <=> size > SessionSize
  BY <1>1, <1>2
<1> QED BY <1>3, <1>4, Zenon DEF BucketKeyOf

-----------------------------------------------------------------------------
(* Object names, and that no two objects share one. *)

Joined(j, x, c, y) ==
    /\ j \in Strings /\ Len(j) = Len(x) + 1 + Len(y)
    /\ \A i \in 1 .. Len(x) : j[i] = x[i]
    /\ j[Len(x) + 1] = c
    /\ \A i \in 1 .. Len(y) : j[Len(x) + 1 + i] = y[i]
    /\ Len(x) \in Nat /\ Len(y) \in Nat

\* The characters of two strings joined by one character.
LEMMA JoinProperties ==
    ASSUME NEW x \in Strings, NEW c \in Chars, NEW y \in Strings
    PROVE  Joined(x \o <<c>> \o y, x, c, y)
<1>1. <<c>> \in Seq(Chars) /\ Len(<<c>>) = 1 /\ <<c>>[1] = c
  OBVIOUS
<1>2. Len(x) \in Nat /\ Len(y) \in Nat
  BY LenOf DEF Strings
<1>3. /\ x \o <<c>> \in Seq(Chars) /\ Len(x \o <<c>>) = Len(x) + 1
      /\ \A i \in 1 .. Len(x) + 1 : (x \o <<c>>)[i] = IF i <= Len(x) THEN x[i] ELSE <<c>>[i - Len(x)]
  <2>1. /\ x \o <<c>> \in Seq(Chars) /\ Len(x \o <<c>>) = Len(x) + Len(<<c>>)
        /\ \A i \in 1 .. Len(x) + Len(<<c>>) :
             (x \o <<c>>)[i] = IF i <= Len(x) THEN x[i] ELSE <<c>>[i - Len(x)]
    BY <1>1, ConcatOf DEF Strings
  <2> QED BY <1>1, <2>1
<1> DEFINE xc == x \o <<c>>
<1>4. /\ xc \o y \in Seq(Chars) /\ Len(xc \o y) = Len(xc) + Len(y)
      /\ \A i \in 1 .. Len(xc) + Len(y) : (xc \o y)[i] = IF i <= Len(xc) THEN xc[i] ELSE y[i - Len(xc)]
  <2> HIDE DEF xc
  <2>1. xc \in Seq(Chars)
    BY <1>3 DEF xc
  <2> QED BY <2>1, ConcatOf DEF Strings
<1>5. ASSUME NEW i \in 1 .. Len(x) PROVE (xc \o y)[i] = x[i]
  <2>1. (xc \o y)[i] = xc[i]
    BY <1>2, <1>3, <1>4
  <2> QED BY <1>2, <1>3, <2>1
<1>6. (xc \o y)[Len(x) + 1] = c
  <2>1. (xc \o y)[Len(x) + 1] = xc[Len(x) + 1]
    BY <1>2, <1>3, <1>4
  <2>2. xc[Len(x) + 1] = <<c>>[1]
    BY <1>2, <1>3
  <2> QED BY <1>1, <2>1, <2>2
<1>7. ASSUME NEW i \in 1 .. Len(y) PROVE (xc \o y)[Len(x) + 1 + i] = y[i]
  BY <1>2, <1>3, <1>4
<1> QED BY <1>2, <1>3, <1>4, <1>5, <1>6, <1>7 DEF Strings, Joined

Lacks(x, c) == \A i \in DOMAIN x : x[i] # c

\* A join at a character the first part lacks is taken apart in one way only.
LEMMA JoinSplits ==
    ASSUME NEW x \in Strings, NEW c \in Chars, NEW y \in Strings,
           NEW u \in Strings, NEW v \in Strings, Lacks(x, c), Lacks(u, c),
           x \o <<c>> \o y = u \o <<c>> \o v
    PROVE  x = u /\ y = v
<1>j. PICK j : j = x \o <<c>> \o y
  BY Zenon
<1>1. Joined(j, x, c, y)
  BY <1>j, JoinProperties, Zenon
<1>2. Joined(j, u, c, v)
  BY <1>j, JoinProperties, Zenon
<1>3. DOMAIN x = 1 .. Len(x) /\ DOMAIN u = 1 .. Len(u)
  BY LenOf DEF Strings
<1>4. ~(Len(x) < Len(u))
  BY <1>1, <1>2, <1>3 DEF Lacks, Joined
<1>5. ~(Len(u) < Len(x))
  BY <1>1, <1>2, <1>3 DEF Lacks, Joined
<1>6. Len(x) = Len(u) /\ Len(y) = Len(v)
  BY <1>1, <1>2, <1>4, <1>5 DEF Joined
<1>7. \A i \in 1 .. Len(x) : x[i] = u[i]
  BY <1>1, <1>2, <1>6 DEF Joined
<1>8. \A i \in 1 .. Len(y) : y[i] = v[i]
  BY <1>1, <1>2, <1>6 DEF Joined
<1> QED BY <1>6, <1>7, <1>8, SameSeq DEF Strings

\* get_bucket_key_from_string undoes get_local_object_name for a bucket name
\* without '|', a non-empty key and a session of 16 characters.
THEOREM NameRoundTrip ==
    ASSUME NEW bucket \in Strings, NEW key \in Strings, NEW session \in Strings,
           Delim \in Chars, Lacks(bucket, Delim), key # <<>>, Len(session) = SessionSize
    PROVE  BucketKeyFromString(LocalObjectName(bucket, key, session)) =
             [bucket |-> bucket, key |-> key, session |-> session]
<1> DEFINE rest == KeySessionName(key, session)
<1>1. rest \in Strings
  BY ConcatOf DEF KeySessionName, Strings
<1>j. PICK j : j = LocalObjectName(bucket, key, session)
  OBVIOUS
<1>2. Joined(j, bucket, Delim, rest)
  <2>1. j = bucket \o <<Delim>> \o rest
    BY <1>j DEF LocalObjectName
  <2> HIDE DEF rest
  <2> QED BY <1>1, <2>1, JoinProperties, Zenon
<1> HIDE DEF rest
<1>3. DOMAIN j = 1 .. Len(j) /\ DOMAIN bucket = 1 .. Len(bucket)
  BY <1>2, LenOf DEF Joined, Strings
<1>4. Len(bucket) + 1 \in Delimiters(j) /\ \A i \in Delimiters(j) : Len(bucket) + 1 <= i
  BY <1>2, <1>3 DEF Joined, Lacks, Delimiters
<1>5. FirstDelimiter(j) = Len(bucket) + 1
  <2>1. FirstDelimiter(j) \in Delimiters(j) /\ \A i \in Delimiters(j) : FirstDelimiter(j) <= i
    BY <1>4 DEF FirstDelimiter
  <2>2. Delimiters(j) \subseteq Int
    BY <1>2, <1>3 DEF Delimiters, Joined
  <2> QED BY <1>2, <1>4, <2>1, <2>2 DEF Joined
<1>6. SubSeq(j, 1, Len(bucket)) = bucket
  <2>1. /\ SubSeq(j, 1, Len(bucket)) \in Seq(Chars)
        /\ Len(SubSeq(j, 1, Len(bucket))) = Len(bucket)
        /\ \A i \in 1 .. Len(bucket) : SubSeq(j, 1, Len(bucket))[i] = j[i]
    BY <1>2 DEF Joined, Strings
  <2> QED BY <1>2, <2>1, SameSeq DEF Joined, Strings
<1>7. SubSeq(j, Len(bucket) + 2, Len(j)) = rest
  <2> DEFINE t == SubSeq(j, Len(bucket) + 2, Len(j))
  <2>1. /\ t \in Seq(Chars) /\ Len(t) = Len(rest)
        /\ \A i \in 1 .. Len(rest) : t[i] = j[Len(bucket) + 1 + i]
    BY <1>2 DEF Joined, Strings
  <2> HIDE DEF t
  <2>2. \A i \in 1 .. Len(t) : t[i] = rest[i]
    BY <1>2, <2>1 DEF Joined
  <2>3. t = rest
    BY <1>1, <2>1, <2>2, SameSeq DEF Strings
  <2> QED BY <2>3 DEF t
<1>8. BucketKeyFromString(j) = BucketKeyOf(bucket, rest)
  <2>1. FirstDelimiter(j) - 1 = Len(bucket) /\ FirstDelimiter(j) + 1 = Len(bucket) + 2
    BY <1>2, <1>5 DEF Joined
  <2> QED BY <1>4, <1>6, <1>7, <2>1, Zenon DEF BucketKeyFromString
<1>9. BucketKeyOf(bucket, rest) = [bucket |-> bucket, key |-> key, session |-> session]
  BY NamesSplitAgain DEF rest
<1> QED BY <1>j, <1>8, <1>9

\* Two objects never share a segment of shared memory: the name
\* get_local_object_name gives to an object belongs to no other.
THEOREM DistinctObjectsDistinctNames ==
    ASSUME NEW b \in Strings, NEW k \in Strings, NEW s \in Strings,
           NEW b2 \in Strings, NEW k2 \in Strings, NEW s2 \in Strings,
           Delim \in Chars, Lacks(b, Delim), Lacks(b2, Delim), k # <<>>, k2 # <<>>,
           Len(s) = SessionSize, Len(s2) = SessionSize,
           LocalObjectName(b, k, s) = LocalObjectName(b2, k2, s2)
    PROVE  b = b2 /\ k = k2 /\ s = s2
<1>1. BucketKeyFromString(LocalObjectName(b, k, s)) = [bucket |-> b, key |-> k, session |-> s]
  BY NameRoundTrip
<1>2. BucketKeyFromString(LocalObjectName(b2, k2, s2)) = [bucket |-> b2, key |-> k2, session |-> s2]
  BY NameRoundTrip
<1>3. [bucket |-> b, key |-> k, session |-> s] = [bucket |-> b2, key |-> k2, session |-> s2]
  BY <1>1, <1>2
<1> QED BY <1>3

\* A string cut in two is the concatenation of the parts.
LEMMA CutAndJoined ==
    ASSUME NEW z \in Strings, NEW n \in Nat, n <= Len(z)
    PROVE  SubSeq(z, 1, n) \o SubSeq(z, n + 1, Len(z)) = z
<1>1. Len(z) \in Nat /\ z \in Seq(Chars)
  BY DEF Strings
<1>2. PICK x, y : x = SubSeq(z, 1, n) /\ y = SubSeq(z, n + 1, Len(z))
  BY Zenon
<1>3. /\ x \in Seq(Chars) /\ Len(x) = n
      /\ \A i \in 1 .. n : x[i] = z[i]
  BY <1>1, <1>2
<1>4. /\ y \in Seq(Chars) /\ Len(y) = Len(z) - n
      /\ \A i \in 1 .. Len(z) - n : y[i] = z[n + i]
  BY <1>1, <1>2
<1>5. PICK j : j = x \o y
  BY Zenon
<1>6. /\ j \in Seq(Chars) /\ Len(j) = Len(z)
      /\ \A i \in 1 .. Len(z) : j[i] = IF i <= n THEN x[i] ELSE y[i - n]
  BY <1>1, <1>3, <1>4, <1>5
<1>7. \A i \in 1 .. Len(z) : j[i] = z[i]
  <2> TAKE i \in 1 .. Len(z)
  <2>1. CASE i <= n
    BY <1>1, <1>3, <1>6, <2>1
  <2>2. CASE ~(i <= n)
    <3>1. i - n \in 1 .. Len(z) - n /\ n + (i - n) = i
      BY <1>1, <2>2
    <3>2. j[i] = y[i - n]
      BY <1>6, <2>2
    <3> QED BY <1>4, <3>1, <3>2
  <2> QED BY <2>1, <2>2
<1>8. j = z
  BY <1>1, <1>6, <1>7
<1> QED BY <1>2, <1>5, <1>8, Zenon

\* An object announced under bucket and session_key is stored by its reader
\* under the name its node stored it: taking session_key apart, sending the
\* parts in an address message and joining them again gives the same name.
THEOREM AnnouncedName ==
    ASSUME NEW bucket \in Strings, NEW session_key \in Strings,
           Len(session_key) > SessionSize
    PROVE  ShmKeyName(BucketKeyFromAddr(AddrFromBucketKey(BucketKeyOf(bucket, session_key))))
             = bucket \o <<Delim>> \o session_key
<1> DEFINE size == Len(session_key)
           key == SubSeq(session_key, 1, size - SessionSize)
           session == SubSeq(session_key, size - SessionSize + 1, size)
<1>1. size \in Nat /\ SessionSize = 16
  BY DEF Strings, SessionSize
<1>4. BucketKeyOf(bucket, session_key) = [bucket |-> bucket, key |-> key, session |-> session]
  BY DEF BucketKeyOf
<1>5. key \o session = session_key
  <2>1. size - SessionSize \in Nat /\ size - SessionSize <= Len(session_key)
    BY <1>1
  <2> QED BY <2>1, CutAndJoined, Zenon
<1> HIDE DEF key, session, size
<1>6. ShmKeyName([bucket |-> bucket, key |-> key, session |-> session])
        = bucket \o <<Delim>> \o (key \o session)
  BY DEF ShmKeyName, LocalObjectName, KeySessionName
<1> QED BY <1>4, <1>5, <1>6 DEF AddrFromBucketKey, BucketKeyFromAddr

DecimalsReadBack ==
    /\ \A n \in Nat : Decimal[n] \in Strings /\ Lacks(Decimal[n], Underscore)
    /\ \A m, n \in Nat : Decimal[m] = Decimal[n] => m = n

\* The numbers of executors that have channels of their own.
ExecutorIds == 0 .. 254

\* Up to 255 executors have channels of their own.
LEMMA ChanIds ==
    ASSUME NEW t \in ExecutorIds
    PROVE  ChanId(t) = t + 1 /\ t \in Nat /\ ChanId(t) \in Nat
<1>1. (t + 1) % 256 = t + 1
  BY DEF ExecutorIds
<1> QED BY <1>1 DEF ChanId, ExecutorIds

\* The key create_object(size) makes names one executor of the node and one
\* of its objects; the node itself is not in it.
THEOREM DirectKeysUniqueOnNode ==
    ASSUME Underscore \in Chars, DecimalsReadBack,
           NEW t \in ExecutorIds, NEW t2 \in ExecutorIds, NEW id \in Nat, NEW id2 \in Nat,
           DirectKey(ChanId(t), id) = DirectKey(ChanId(t2), id2)
    PROVE  t = t2 /\ id = id2
<1>1. PICK c, c2 \in Nat : c = ChanId(t) /\ c2 = ChanId(t2) /\ c = t + 1 /\ c2 = t2 + 1
  BY ChanIds
<1>2. /\ Decimal[c] \in Strings /\ Decimal[c2] \in Strings
      /\ Decimal[id] \in Strings /\ Decimal[id2] \in Strings
      /\ Lacks(Decimal[c], Underscore) /\ Lacks(Decimal[c2], Underscore)
  BY DEF DecimalsReadBack
<1>3. Decimal[c] \o <<Underscore>> \o Decimal[id] = Decimal[c2] \o <<Underscore>> \o Decimal[id2]
  BY <1>1, Zenon DEF DirectKey
<1>4. Decimal[c] = Decimal[c2] /\ Decimal[id] = Decimal[id2]
  BY <1>2, <1>3, JoinSplits, Zenon
<1>5. c = c2 /\ id = id2
  BY <1>4 DEF DecimalsReadBack
<1> QED BY <1>1, <1>5 DEF ExecutorIds

\* Keys made by gen_unique_key are unique in a cluster as far as the nodes'
\* addresses without their dots are: equal keys come from equal ip_number_,
\* the same executor (chan_id_) and the same count of objects (object_id_).
THEOREM UniqueKeys ==
    ASSUME NEW ip \in Strings, NEW ip2 \in Strings, Underscore \in Chars,
           Lacks(ip, Underscore), Lacks(ip2, Underscore), DecimalsReadBack,
           NEW t \in ExecutorIds, NEW t2 \in ExecutorIds, NEW id \in Nat, NEW id2 \in Nat,
           GenUniqueKey(ip, ChanId(t), id) = GenUniqueKey(ip2, ChanId(t2), id2)
    PROVE  ip = ip2 /\ t = t2 /\ id = id2
<1>1. ASSUME NEW u \in ExecutorIds, NEW i \in Nat PROVE DirectKey(ChanId(u), i) \in Strings
  <2>1. Decimal[ChanId(u)] \in Strings /\ Decimal[i] \in Strings
    BY ChanIds DEF DecimalsReadBack
  <2>2. Joined(DirectKey(ChanId(u), i), Decimal[ChanId(u)], Underscore, Decimal[i])
    BY <2>1, JoinProperties, Zenon DEF DirectKey
  <2> QED BY <2>2 DEF Joined
<1>2. PICK r, r2 : r = DirectKey(ChanId(t), id) /\ r2 = DirectKey(ChanId(t2), id2)
  OBVIOUS
<1>3. ip \o <<Underscore>> \o r = ip2 \o <<Underscore>> \o r2
  BY <1>2, SMTT(30) DEF GenUniqueKey
<1>4. ip = ip2 /\ r = r2
  BY <1>1, <1>2, <1>3, JoinSplits, Zenon
<1>5. DirectKey(ChanId(t), id) = DirectKey(ChanId(t2), id2)
  BY <1>2, <1>4, Zenon
<1>6. t = t2 /\ id = id2
  BY <1>5, DirectKeysUniqueOnNode
<1> QED BY <1>4, <1>6, SMTT(30)

-----------------------------------------------------------------------------
(* Messages. *)

INSTANCE FiniteSetTheorems

LEMMA ListingLists ==
    ASSUME NEW S, IsFiniteSet(S)
    PROVE  /\ Listing(S) \in [1 .. Cardinality(S) -> S]
           /\ \A e \in S : \E i \in DOMAIN Listing(S) : Listing(S)[i] = e
<1>1. \E q \in [1 .. Cardinality(S) -> S] :
        \A e \in S : \E i \in DOMAIN q : q[i] = e
  BY FS_CardinalityType DEF ExistsBijection, Bijection, Injection, Surjection
<1> QED BY <1>1, Zenon DEF Listing

LEMMA SetRoundTrip ==
    ASSUME NEW S, IsFiniteSet(S)
    PROVE  {Listing(S)[i] : i \in DOMAIN Listing(S)} = S
<1>1. \A e \in S : \E i \in DOMAIN Listing(S) : Listing(S)[i] = e
  BY ListingLists
<1>2. \A i \in DOMAIN Listing(S) : Listing(S)[i] \in S
  BY ListingLists, Zenon
<1> QED BY <1>1, <1>2

\* What serialize writes, deserialize_set and deserialize_lww read back.
THEOREM SimpleRoundTrip ==
    ASSUME NEW S \in SUBSET Values, IsFiniteSet(S), NEW x \in Stamped
    PROVE  /\ DeserializeSet(SerializeSet(S)) = S
           /\ DeserializeLWW(SerializeLWW(x.timestamp, x.value)) = x
<1>1. DeserializeSet(SerializeSet(S)) = S
  BY SetRoundTrip DEF DeserializeSet, SerializeSet
<1> QED BY <1>1 DEF DeserializeLWW, SerializeLWW, Stamped

LEMMA EmptyClockNeutral ==
    ASSUME NEW c \in Clocks
    PROVE  ClockMerge(EmptyClock, c) = c
<1>1. EmptyClock \in Clocks /\ DOMAIN EmptyClock = {}
  BY DEF EmptyClock, Clocks
<1>2. \A k \in DOMAIN c : ClockMerge(EmptyClock, c)[k] = c[k]
  BY <1>1, ClockMergeAt
<1> QED BY <1>1, <1>2, ClockMergeType, ClockEqual, Zenon

\* Inserting the listed dependencies one by one gives the map they were
\* listed from.
LEMMA DepsRoundTrip ==
    ASSUME NEW d \in Dependencies, IsFiniteSet(DOMAIN d)
    PROVE  InsertedDeps(SerializeDeps(d)) = d
<1> DEFINE keys == Listing(DOMAIN d)
           list == SerializeDeps(d)
           of(k) == {i \in DOMAIN list : list[i].key = k}
           names(k) == UNION {DOMAIN list[i].vector_clock : i \in of(k)}
           times(k, n) == {list[i].vector_clock[n] :
                             i \in {j \in of(k) : n \in DOMAIN list[j].vector_clock}}
<1>1. /\ DOMAIN list = DOMAIN keys
      /\ \A i \in DOMAIN list : /\ list[i].key = keys[i]
                                /\ list[i].vector_clock = d[keys[i]]
  BY DEF SerializeDeps
<1>2. {keys[i] : i \in DOMAIN keys} = DOMAIN d
  BY SetRoundTrip
<1>3. d = [k \in DOMAIN d |-> d[k]] /\ \A k \in DOMAIN d : d[k] \in Clocks
  BY DEF Dependencies
<1> HIDE DEF list, keys
<1>4. {list[i].key : i \in DOMAIN list} = DOMAIN d
  BY <1>1, <1>2, SMTT(30)
<1>5. ASSUME NEW k \in DOMAIN d
      PROVE  [n \in names(k) |-> CHOOSE m \in times(k, n) : \A o \in times(k, n) : m >= o]
                = d[k]
  <2>1. /\ of(k) # {}
        /\ \A i \in of(k) : list[i].vector_clock = d[k]
    BY <1>1, <1>2
  <2>2. names(k) = DOMAIN d[k]
    BY <2>1
  <2>3. \A n \in DOMAIN d[k] : times(k, n) = {d[k][n]}
    BY <2>1
  <2>4. \A n \in DOMAIN d[k] : d[k][n] \in Nat
    BY <1>3, ClockType
  <2> HIDE DEF of, names, times
  <2>5. \A n \in DOMAIN d[k] :
          (CHOOSE m \in times(k, n) : \A o \in times(k, n) : m >= o) = d[k][n]
    BY <2>3, <2>4
  <2>6. d[k] = [n \in DOMAIN d[k] |-> d[k][n]]
    BY <1>3, ClockType
  <2> QED BY <2>2, <2>5, <2>6
<1>6. InsertedDeps(list) =
        [k \in {list[i].key : i \in DOMAIN list} |->
            [n \in names(k) |-> CHOOSE m \in times(k, n) : \A o \in times(k, n) : m >= o]]
  BY DEF InsertedDeps
<1> HIDE DEF names, times
<1>7. InsertedDeps(list) = d
  BY <1>3, <1>4, <1>5, <1>6
<1> QED BY <1>7, SMTT(30) DEF list

\* A causal value that is serialized and converted back with
\* to_vector_clock_value_pair or to_multi_key_causal_payload is the value
\* that was sent.
THEOREM CausalRoundTrip ==
    ASSUME NEW x \in Causal, IsFiniteSet(x.value),
           NEW y \in MultiCausal, IsFiniteSet(y.value), IsFiniteSet(DOMAIN y.deps)
    PROVE  /\ ToVectorClockValuePair(SerializeCausal(x)) = x
           /\ ToMultiKeyCausalPayload(SerializeMulti(y)) = y
<1>1. /\ x.clock \in Clocks /\ y.clock \in Clocks /\ y.deps \in Dependencies
      /\ x = [clock |-> x.clock, value |-> x.value]
      /\ y = [clock |-> y.clock, deps |-> y.deps, value |-> y.value]
  BY DEF Causal, MultiCausal
<1>2. /\ ClockMerge(EmptyClock, x.clock) = x.clock
      /\ ClockMerge(EmptyClock, y.clock) = y.clock
      /\ InsertedDeps(SerializeDeps(y.deps)) = y.deps
  BY <1>1, EmptyClockNeutral, DepsRoundTrip
<1>3. ToVectorClockValuePair(SerializeCausal(x)) = x
  BY <1>1, <1>2, SetRoundTrip, SMTT(30) DEF ToVectorClockValuePair, SerializeCausal, DeserializeSet
<1>4. ToMultiKeyCausalPayload(SerializeMulti(y)) = y
  BY <1>1, <1>2, SetRoundTrip DEF ToMultiKeyCausalPayload, SerializeMulti, DeserializeSet
<1> QED BY <1>3, <1>4
=============================================================================
