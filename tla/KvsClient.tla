----------------------------- MODULE KvsClient ------------------------------
(***************************************************************************)
(* The asynchronous client of the Anna key-value store and the code of the *)
(* node's helper that drives it.                                           *)
(*                                                                         *)
(* A request is the key it gets or a member of Puts.  It waits in          *)
(* pending_request_map_ while the address of its key is asked for, and in  *)
(* pending_get_response_map_ or pending_put_response_map_ once it is sent. *)
(* receive_async takes in replies and gives up what has waited too long;   *)
(* get_kvs_responses then issues a timed-out GET again.                    *)
(*                                                                         *)
(*   cache    key_address_cache_                                           *)
(*   waiting  how often a request is in pending_request_map_               *)
(*   pending  worker_addr_ of a request in the pending response maps, None *)
(*            for one that is not there                                    *)
(*   asked    queries to the routing tier without a reply yet              *)
(*   sent     requests to the servers without a response yet               *)
(*   wanted   keys the scheduler has asked for and not got                 *)
(*   puts     how far a PUT has come                                       *)
(*   losses, moves, expiries, gets  messages lost, replies that make the   *)
(*            client ask again, calls in which something timed out, GETs   *)
(*            of the scheduler: what the bounds limit                      *)
(***************************************************************************)
EXTENDS Integers, FiniteSets

CONSTANTS
  Keys, Puts,
  KeyOf,         \* the key of a PUT
  Servers,
  Stored,        \* keys the store has
  None,
  Hasty,         \* a timeout may come although an answer is on its way
  MaxLosses, MaxMoves, MaxExpiries, MaxGets   \* bounds

ASSUME KvsAssumption ==
  /\ Keys \cap Puts = {}
  /\ KeyOf \in [Puts -> Keys]
  /\ Stored \subseteq Keys
  /\ None \notin Servers
  /\ Hasty \in BOOLEAN
  /\ MaxLosses \in Nat /\ MaxMoves \in Nat /\ MaxExpiries \in Nat /\ MaxGets \in Nat

VARIABLES cache, waiting, pending, asked, sent, wanted, puts, losses, moves, expiries, gets

book == <<cache, waiting, pending, asked, sent>>
bounds == <<losses, moves, expiries, gets>>
vars == <<book, wanted, puts, bounds>>

Requests == Keys \cup Puts
Key(r) == IF r \in Keys THEN r ELSE KeyOf[r]
Of(k) == {r \in Requests : Key(r) = k}

Init ==
  /\ cache = [k \in Keys |-> {}]
  /\ waiting = [r \in Requests |-> 0]
  /\ pending = [r \in Requests |-> None]
  /\ asked = [k \in Keys |-> 0]
  /\ sent = [r \in Requests |-> 0]
  /\ wanted = {}
  /\ puts = [p \in Puts |-> "new"]
  /\ losses = 0
  /\ moves = 0
  /\ expiries = 0
  /\ gets = 0

-----------------------------------------------------------------------------
\* k has an entry in pending_request_map_.
Queued(k) == \E r \in Of(k) : waiting[r] > 0

\* query_routing_async: one more query is out.
Query(k) == [asked EXCEPT ![k] = @ + 1]

\* get_all_worker_threads without a cached address: the key is asked for, once.
AskOnce(k) == asked' = IF Queued(k) THEN asked ELSE Query(k)

\* The addresses get_worker_thread picks one of, at random.
Workers(k) == cache[k]

\* try_request without a cached address.
Enqueue(r) ==
  /\ AskOnce(Key(r))
  /\ waiting' = [waiting EXCEPT ![r] = @ + 1]

try_request(r) ==
  \/ /\ Workers(Key(r)) = {}
     /\ Enqueue(r)
     /\ UNCHANGED <<cache, pending, sent>>
  \/ \E w \in Workers(Key(r)) :
       /\ sent' = [sent EXCEPT ![r] = @ + 1]
       /\ pending' = [pending EXCEPT ![r] = w]
       /\ UNCHANGED <<cache, waiting, asked>>

\* The scheduler asks for k.
get_async(k) ==
  /\ gets < MaxGets
  /\ gets' = gets + 1
  /\ wanted' = wanted \cup {k}
  /\ IF pending[k] # None THEN UNCHANGED book ELSE try_request(k)
  /\ UNCHANGED <<puts, losses, moves, expiries>>

put_async(p) ==
  /\ puts[p] = "new"
  /\ puts' = [puts EXCEPT ![p] = "issued"]
  /\ try_request(p)
  /\ UNCHANGED <<wanted, bounds>>

-----------------------------------------------------------------------------
(* receive_async                                                           *)

\* The routing tier has no servers; if anything waits the key is asked for again.
RecvNoServers(k) ==
  /\ asked[k] > 0
  /\ moves < MaxMoves
  /\ moves' = moves + 1
  /\ asked' = IF Queued(k) THEN asked ELSE [asked EXCEPT ![k] = @ - 1]
  /\ UNCHANGED <<cache, waiting, pending, sent, wanted, puts, losses, expiries, gets>>

\* Mutant of RecvAddress: only the request that asked is sent.
RecvAddressOne(k, ips) ==
  /\ asked[k] > 0
  /\ asked' = [asked EXCEPT ![k] = @ - 1]
  /\ Queued(k)
  /\ \E r \in Of(k), w \in cache[k] \cup ips :
       /\ waiting[r] > 0
       /\ cache' = [cache EXCEPT ![k] = @ \cup ips]
       /\ sent' = [sent EXCEPT ![r] = @ + waiting[r]]
       /\ pending' = [pending EXCEPT ![r] = w]
       /\ waiting' = [q \in Requests |-> IF q \in Of(k) THEN 0 ELSE waiting[q]]
  /\ UNCHANGED <<wanted, puts, bounds>>

\* Addresses arrive: all that waits for the key is sent.
RecvAddress(k, ips) ==
  /\ asked[k] > 0
  /\ asked' = [asked EXCEPT ![k] = @ - 1]
  /\ IF Queued(k)
     THEN \E to \in [Of(k) -> cache[k] \cup ips] :
            LET Goes(r) == r \in Of(k) /\ waiting[r] > 0 IN
            /\ cache' = [cache EXCEPT ![k] = @ \cup ips]
            /\ sent' = [r \in Requests |-> IF Goes(r) THEN sent[r] + waiting[r] ELSE sent[r]]
            /\ pending' = [r \in Requests |-> IF Goes(r) THEN to[r] ELSE pending[r]]
            /\ waiting' = [r \in Requests |-> IF Goes(r) THEN 0 ELSE waiting[r]]
     ELSE UNCHANGED <<cache, waiting, pending, sent>>
  /\ UNCHANGED <<wanted, puts, bounds>>

\* check_tuple and invalidate_cache_for_key: the addresses of the key are dropped.
Dropped(k) == [cache EXCEPT ![k] = {}]

\* A server says it is not responsible for the key (error 2): the addresses are
\* dropped and the request is tried again, now without one.
RecvMoved(r) ==
  /\ sent[r] > 0
  /\ moves < MaxMoves
  /\ moves' = moves + 1
  /\ sent' = [sent EXCEPT ![r] = @ - 1]
  /\ IF pending[r] = None
     THEN UNCHANGED <<cache, waiting, asked>>
     ELSE /\ cache' = Dropped(Key(r))
          /\ Enqueue(r)
  /\ UNCHANGED <<pending, wanted, puts, losses, expiries, gets>>

\* A server answers; invalidate makes the client drop the addresses as well.
\* The scheduler hears of a GET of a key that exists and of a PUT.
RecvResponse(r, invalidate) ==
  /\ sent[r] > 0
  /\ sent' = [sent EXCEPT ![r] = @ - 1]
  /\ IF pending[r] = None
     THEN UNCHANGED <<cache, pending, wanted, puts>>
     ELSE /\ cache' = IF invalidate THEN Dropped(Key(r)) ELSE cache
          /\ pending' = [pending EXCEPT ![r] = None]
          /\ wanted' = IF r \in Stored THEN wanted \ {r} ELSE wanted
          /\ puts' = IF r \in Puts THEN [puts EXCEPT ![r] = "done"] ELSE puts
  /\ UNCHANGED <<waiting, asked, bounds>>

\* The requests that time out: all that waits for the keys of W, and those of E
\* that have been sent.  The addresses of their servers are dropped everywhere.
Expired(W, E) ==
  {r \in Requests : (Key(r) \in W /\ waiting[r] > 0) \/ r \in E}
WithoutServers(E) ==
  [k \in Keys |-> IF \E r \in E : pending[r] \in cache[k] THEN {} ELSE cache[k]]

\* How many GETs of k are reported as timed out.
BadGets(k, W, E) == (IF k \in W THEN waiting[k] ELSE 0) + (IF k \in E THEN 1 ELSE 0)

\* The keys that get_kvs_responses issues again: not those with a GET still out.
Again(W, E) == {k \in Keys : BadGets(k, W, E) > 0 /\ (pending[k] = None \/ k \in E)}

\* Those whose key still has addresses, and those that wait for them.
Resent(W, E) == {k \in Again(W, E) : WithoutServers(E)[k] # {}}
Rewaits(W, E) == Again(W, E) \ Resent(W, E)

\* What is left in pending_request_map_.
Left(r, W) == IF Key(r) \in W THEN 0 ELSE waiting[r]

\* Mutant of Expire: a timed-out GET is not issued again.
ExpireForGood(W, E) ==
  /\ expiries < MaxExpiries
  /\ expiries' = expiries + 1
  /\ Expired(W, E) # {}
  /\ cache' = WithoutServers(E)
  /\ waiting' = [r \in Requests |-> IF Key(r) \in W THEN 0 ELSE waiting[r]]
  /\ pending' = [r \in Requests |-> IF r \in E THEN None ELSE pending[r]]
  /\ puts' = [p \in Puts |-> IF p \in Expired(W, E) THEN "expired" ELSE puts[p]]
  /\ UNCHANGED <<asked, sent, wanted, losses, moves, gets>>

\* The end of receive_async, and get_kvs_responses.  A GET issued again is sent
\* when its key has addresses left; else it waits, as often as it timed out.
\* PUTs are not issued again.
Expire(W, E) ==
  /\ expiries < MaxExpiries
  /\ expiries' = expiries + 1
  /\ Expired(W, E) # {}
  /\ Hasty \/ ((\A k \in W : asked[k] = 0) /\ (\A r \in E : sent[r] = 0))
  /\ cache' = WithoutServers(E)
  /\ waiting' = [r \in Requests |-> IF r \in Rewaits(W, E) THEN Left(r, W) + BadGets(r, W, E) ELSE Left(r, W)]
  /\ asked' = [k \in Keys |-> IF k \in Rewaits(W, E) /\ \A r \in Of(k) : Left(r, W) = 0
                              THEN asked[k] + 1 ELSE asked[k]]
  /\ sent' = [r \in Requests |-> IF r \in Resent(W, E) THEN sent[r] + 1 ELSE sent[r]]
  /\ \E to \in [Resent(W, E) -> Servers] :
       /\ \A k \in Resent(W, E) : to[k] \in cache'[k]
       /\ pending' = [r \in Requests |-> IF r \in Resent(W, E) THEN to[r]
                                         ELSE IF r \in E THEN None ELSE pending[r]]
  /\ puts' = [p \in Puts |-> IF p \in Expired(W, E) THEN "expired" ELSE puts[p]]
  /\ UNCHANGED <<wanted, losses, moves, gets>>

-----------------------------------------------------------------------------
\* A query, a request or the answer to it is lost with the server.
LoseQuery(k) ==
  /\ asked[k] > 0 /\ losses < MaxLosses
  /\ losses' = losses + 1
  /\ asked' = [asked EXCEPT ![k] = @ - 1]
  /\ UNCHANGED <<cache, waiting, pending, sent, wanted, puts, moves, expiries, gets>>

LoseRequest(r) ==
  /\ sent[r] > 0 /\ losses < MaxLosses
  /\ losses' = losses + 1
  /\ sent' = [sent EXCEPT ![r] = @ - 1]
  /\ UNCHANGED <<cache, waiting, pending, asked, wanted, puts, moves, expiries, gets>>

Next ==
  \/ \E k \in Keys :
       \/ get_async(k)
       \/ RecvNoServers(k)
       \/ \E ips \in SUBSET Servers \ {{}} : RecvAddress(k, ips)
       \/ LoseQuery(k)
  \/ \E p \in Puts : put_async(p)
  \/ \E r \in Requests :
       \/ RecvMoved(r)
       \/ \E invalidate \in BOOLEAN : RecvResponse(r, invalidate)
       \/ LoseRequest(r)
  \/ \E W \in SUBSET Keys : \E E \in SUBSET {r \in Requests : pending[r] # None} :
       Expire(W, E)

Spec == Init /\ [][Next]_vars

\* The routing tier and the servers answer what reaches them, and the io thread
\* calls receive_async again and again.
Fairness ==
  /\ \A k \in Keys : WF_vars(\E ips \in SUBSET Servers \ {{}} : RecvAddress(k, ips))
  /\ \A r \in Requests : WF_vars(\E invalidate \in BOOLEAN : RecvResponse(r, invalidate))
  /\ WF_vars(\E W \in SUBSET Keys : \E E \in SUBSET {r \in Requests : pending[r] # None} : Expire(W, E))

FairSpec == Spec /\ Fairness

-----------------------------------------------------------------------------
(* Properties                                                              *)

\* Every variable stays in its range.
TypeOK ==
  /\ cache \in [Keys -> SUBSET Servers]
  /\ waiting \in [Requests -> Nat]
  /\ pending \in [Requests -> Servers \cup {None}]
  /\ asked \in [Keys -> Nat]
  /\ sent \in [Requests -> Nat]
  /\ wanted \subseteq Keys
  /\ puts \in [Puts -> {"new", "issued", "done", "expired"}]
  /\ losses \in Nat /\ moves \in Nat /\ expiries \in Nat /\ gets \in Nat

\* A key the scheduler waits for is in one of the pending maps: whatever times
\* out, moves or is answered late, and in whatever order receive_async meets it,
\* a GET is never dropped without being answered or issued again.
GetNotForgotten == \A k \in wanted : waiting[k] > 0 \/ pending[k] # None

\* A PUT is in one of the pending maps until its caller is told of its success or
\* its timeout.
PutAccounted == \A p \in Puts : puts[p] = "issued" => waiting[p] > 0 \/ pending[p] # None

\* No request is dropped.
RequestsAccounted == GetNotForgotten /\ PutAccounted

\* Requests that wait for an address have a query out, unless one was lost:
\* asking only once for each key leaves none behind.
WaitingIsAsked == \A k \in Keys : Queued(k) => asked[k] > 0 \/ losses > 0

\* Every key asked for is delivered, although queries and requests are lost, keys
\* move and answers come after their timeout; only a run that has used up the bound
\* on timeouts is let off.
EveryGetAnswered ==
  \A k \in Keys : k \in wanted ~> k \notin wanted \/ expiries = MaxExpiries
=============================================================================
