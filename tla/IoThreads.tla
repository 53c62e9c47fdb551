----------------------------- MODULE IoThreads -----------------------------
(***************************************************************************)
(* The I/O threads of a local scheduler (comm_helper.hpp).  Thread 0 is    *)
(* the scheduler's own loop: it takes one executor message, collects what  *)
(* arrived with try_recv_msg and handles it.  The threads 1 .. count - 1   *)
(* run run_io_thread_loop.  Thread 0 hands work to thread t through        *)
(* secondary_thread_msg_queues[t - 1], thread t hands results back through *)
(* resp_queues[t - 1]; both are safe_ptr queues, where every `->` locks    *)
(* one call, so empty(), front() and pop() are separate critical sections. *)
(*                                                                         *)
(* An operation is named by the key it is about, and Kind says what it is: *)
(*   call     a call from the coordinator, whose argument is fetched       *)
(*   get, put a KVS access of an executor                                  *)
(*   notify   an object announced to the coordinator (notify_put)          *)
(*   forward  an object named in a forwarded call (forward_func_call)      *)
(***************************************************************************)
EXTENDS Naturals, Sequences, FiniteSetsExt

CONSTANTS Keys,     \* the keys of the operations
          Setups,   \* the runs: [count, kind: key -> kind, timeouts]
          Batch     \* msg_process_batch

ASSUME IoAssumption == \A s \in Setups : s.count \in Nat \ {0}

VARIABLES setup,    \* the run, fixed
          turn,     \* io_thread_id_
          cache,    \* the keys in key_address_cache_
          msgs,     \* secondary_thread_msg_queues
          resps,    \* resp_queues
          at,       \* per thread: its place, polled sockets, counter, results
          inbox,    \* comm_resps of thread 0
          sock,     \* per thread: what waits on its three pullers
          fetching, \* data requests at other nodes: [key, to]
          kvs,      \* per thread: keys asked of its KVS client
          heard,    \* per thread: what its KVS client received: [key, out]
          adverts,  \* data server addresses given out: [key, to]
          timeouts, \* KVS timeouts so far
          new,      \* operations not begun
          served,   \* keys sent to the node that asked for them
          done,     \* keys whose result thread 0 handled
          dropped   \* keys the code stops working on

queues == <<msgs, resps, inbox>>
world == <<fetching, kvs, heard, adverts, timeouts, new>>
ends == <<served, done, dropped>>
ioVars == <<setup, turn, cache, msgs, resps, at, inbox, sock, fetching, kvs,
          heard, adverts, timeouts, new, served, done, dropped>>

Threads == 0 .. setup.count - 1
Others == 1 .. setup.count - 1
Kind(k) == setup.kind[k]

Start(t) == [pc |-> IF t = 0 THEN "exec" ELSE "poll", ev |-> {}, n |-> 0,
             hand |-> <<>>]

IoInit ==
    /\ setup \in Setups
    /\ turn = 0
    /\ cache = {} /\ fetching = {} /\ adverts = {}
    /\ msgs = [t \in Others |-> <<>>]
    /\ resps = [t \in Others |-> <<>>]
    /\ at = [t \in Threads |-> Start(t)]
    /\ inbox = <<>>
    /\ sock = [t \in Threads |-> [call |-> <<>>, serve |-> <<>>, data |-> <<>>]]
    /\ kvs = [t \in Threads |-> {}]
    /\ heard = [t \in Threads |-> {}]
    /\ timeouts = 0
    /\ new = DOMAIN setup.kind
    /\ served = {} /\ done = {} /\ dropped = {}

-----------------------------------------------------------------------------
(* Choosing a thread. *)

\* get_io_thread_id: the counter wraps at a multiple of the thread count.
TurnWraps(n) == n % setup.count = 0
NextTurn(exclude) ==
    IF TurnWraps(turn + 1) THEN (IF exclude THEN 1 ELSE 0) ELSE turn + 1

\* get_key_address finds one.
Addressed(k) == k \in cache

\* send_data_req_base, on thread t.
SendDataReq(k, t) ==
    /\ IF Addressed(k)
       THEN fetching' = fetching \cup {[key |-> k, to |-> t]} /\ UNCHANGED dropped
       ELSE dropped' = dropped \cup {k} /\ UNCHANGED fetching
    /\ UNCHANGED kvs

\* get_kvs_async_base and put_kvs_async_base, on thread t.
AskKvs(k, t) ==
    /\ kvs' = [kvs EXCEPT ![t] = @ \cup {k}]
    /\ UNCHANGED <<fetching, dropped>>

Base(k, t) == IF Kind(k) = "call" THEN SendDataReq(k, t) ELSE AskKvs(k, t)

\* send_data_req, get_kvs_async and put_kvs_async: the work is done at once
\* by the only thread, or queued for the next secondary one.
Assign(k) ==
    IF setup.count > 1
    THEN /\ turn' = NextTurn(TRUE)
         /\ IF turn' = 0
            THEN Base(k, 0) /\ UNCHANGED msgs
            ELSE /\ msgs' = [msgs EXCEPT ![turn'] = Append(@, k)]
                 /\ UNCHANGED <<fetching, kvs, dropped>>
    ELSE Base(k, 0) /\ UNCHANGED <<turn, msgs>>

\* get_data_server_addr, sent with a notification or a forwarded call.
Advertise(k) ==
    /\ turn' = NextTurn(Kind(k) = "notify")
    /\ adverts' = adverts \cup {[key |-> k, to |-> turn']}

-----------------------------------------------------------------------------
(* Every thread: polled sockets first, then its queue, then its KVS client. *)

Sockets == <<"call", "serve", "data">>

\* Where a thread goes once the sockets before the i-th one are handled.
Stage(t, ev, i) ==
    LET left == {j \in i .. 3 : Sockets[j] \in ev}
    IN  IF left # {} THEN Sockets[Min(left)]
        ELSE IF t = 0 THEN "kvs" ELSE "msg"

At(t, pc) == at[t].pc = pc /\ at[t].hand = <<>>
Goto(t, pc) == at' = [at EXCEPT ![t].pc = pc]

\* Results of thread 0 go straight to comm_resps, those of another thread
\* are pushed to its response queue in the steps that follow.
Hand(t, rs, pc) ==
    IF t = 0
    THEN inbox' = inbox \o rs /\ Goto(t, pc)
    ELSE at' = [at EXCEPT ![t].pc = pc, ![t].hand = rs] /\ UNCHANGED inbox

\* Mutant: the count of messages taken is never reset.
PollCountsOn(t) ==
    /\ At(t, "poll")
    /\ LET ev == {s \in Range(Sockets) : sock[t][s] # <<>>}
       IN  at' = [at EXCEPT ![t].pc = Stage(t, ev, 1), ![t].ev = ev,
                            ![t].n = IF t = 0 THEN 0 ELSE @]
    /\ UNCHANGED <<setup, turn, cache, queues, sock, world, ends>>

Poll(t) ==
    /\ At(t, "poll")
    /\ LET ev == {s \in Range(Sockets) : sock[t][s] # <<>>}
       IN  at' = [at EXCEPT ![t] = [pc |-> Stage(t, ev, 1), ev |-> ev, n |-> 0,
                                    hand |-> <<>>]]
    /\ UNCHANGED <<setup, turn, cache, queues, sock, world, ends>>

\* Mutant: a secondary thread keeps the address of the argument to itself.
HandleCallAlone(t) ==
    /\ At(t, "call")
    /\ LET k == Head(sock[t].call)
       IN  /\ sock' = [sock EXCEPT ![t].call = Tail(@)]
           /\ cache' = IF t = 0 THEN cache \cup {k} ELSE cache
           /\ Hand(t, <<[type |-> "Call", key |-> k]>>, Stage(t, at[t].ev, 2))
    /\ UNCHANGED <<setup, turn, msgs, resps, world, ends>>

\* handle_function_call: emplace keeps an address that is already there.
HandleCall(t) ==
    /\ At(t, "call")
    /\ LET k == Head(sock[t].call)
       IN  /\ sock' = [sock EXCEPT ![t].call = Tail(@)]
           /\ cache' = cache \cup {k}
           /\ Hand(t, <<[type |-> "Call", key |-> k]>>, Stage(t, at[t].ev, 2))
    /\ UNCHANGED <<setup, turn, msgs, resps, world, ends>>

\* handle_data_request: the object is local, it was announced from here, so the
\* branch that only logs (DataFetch reaches it) is not taken.
HandleRequest(t) ==
    /\ At(t, "serve")
    /\ sock' = [sock EXCEPT ![t].serve = Tail(@)]
    /\ served' = served \cup {Head(sock[t].serve)}
    /\ Goto(t, Stage(t, at[t].ev, 3))
    /\ UNCHANGED <<setup, turn, cache, queues, world, done, dropped>>

\* handle_data_response
HandleResponse(t) ==
    /\ At(t, "data")
    /\ sock' = [sock EXCEPT ![t].data = Tail(@)]
    /\ Hand(t, <<[type |-> "DataResp", key |-> Head(sock[t].data)]>>,
            Stage(t, at[t].ev, 4))
    /\ UNCHANGED <<setup, turn, cache, msgs, resps, world, ends>>

\* The queue loop: the message is copied with front(), worked on, and only
\* then popped; at most Batch messages are taken before the next poll.
TakeMsg(t) ==
    /\ At(t, "msg")
    /\ msgs[t] # <<>> /\ at[t].n < Batch
    /\ Base(Head(msgs[t]), t)
    /\ Goto(t, "pop")
    /\ UNCHANGED <<setup, turn, cache, queues, sock, heard, adverts, timeouts,
                   new, served, done>>

PopMsg(t) ==
    /\ At(t, "pop")
    /\ msgs' = [msgs EXCEPT ![t] = Tail(@)]
    /\ at' = [at EXCEPT ![t].pc = "msg", ![t].n = @ + 1]
    /\ UNCHANGED <<setup, turn, cache, resps, inbox, sock, world, ends>>

EndBatch(t) ==
    /\ At(t, "msg")
    /\ msgs[t] = <<>> \/ at[t].n >= Batch
    /\ Goto(t, "kvs")
    /\ UNCHANGED <<setup, turn, cache, queues, sock, world, ends>>

\* get_kvs_responses: a get that timed out is issued again, a put is not;
\* a get that found no key has no result.
Retried(h) == h.out = "timeout" /\ Kind(h.key) = "get"
Reported(h) == h.out = "ok" \/ (h.out = "missing" /\ Kind(h.key) = "put")
KvsResult(h) ==
    [type |-> IF Kind(h.key) = "get" THEN "KvsGetResp" ELSE "KvsPutResp",
     key |-> h.key]

\* The members of S one after the other, in some order.
Listing(S) == CHOOSE q \in [1 .. Cardinality(S) -> S] : IsInjective(q)

GetKvsResponses(t) ==
    /\ At(t, "kvs")
    /\ LET good == {h \in heard[t] : Reported(h)}
           again == {h \in heard[t] : Retried(h)}
       IN  /\ Hand(t, Listing({KvsResult(h) : h \in good}),
                   IF t = 0 THEN "drain" ELSE "poll")
           /\ kvs' = [kvs EXCEPT ![t] = @ \cup {h.key : h \in again}]
           /\ dropped' = dropped \cup {h.key : h \in heard[t] \ (good \cup again)}
    /\ heard' = [heard EXCEPT ![t] = {}]
    /\ UNCHANGED <<setup, turn, cache, msgs, resps, sock, fetching, adverts,
                   timeouts, new, served, done>>

\* resp_queues[queue_idx]->push
Push(t) ==
    /\ at[t].hand # <<>>
    /\ resps' = [resps EXCEPT ![t] = Append(@, Head(at[t].hand))]
    /\ at' = [at EXCEPT ![t].hand = Tail(@)]
    /\ UNCHANGED <<setup, turn, cache, msgs, inbox, sock, world, ends>>

-----------------------------------------------------------------------------
(* Thread 0 only: the rest of try_recv_msg and the scheduler's loop. *)

\* One response queue after the other is emptied; at[0].n is how many are.
DrainFront ==
    /\ At(0, "drain") /\ at[0].n + 1 < setup.count
    /\ resps[at[0].n + 1] # <<>>
    /\ inbox' = Append(inbox, Head(resps[at[0].n + 1]))
    /\ Goto(0, "drained")
    /\ UNCHANGED <<setup, turn, cache, msgs, resps, sock, world, ends>>

\* Mutant: the queue is cleared instead of popped.
DrainClear ==
    /\ At(0, "drained")
    /\ resps' = [resps EXCEPT ![at[0].n + 1] = <<>>]
    /\ Goto(0, "drain")
    /\ UNCHANGED <<setup, turn, cache, msgs, inbox, sock, world, ends>>

DrainPop ==
    /\ At(0, "drained")
    /\ resps' = [resps EXCEPT ![at[0].n + 1] = Tail(@)]
    /\ Goto(0, "drain")
    /\ UNCHANGED <<setup, turn, cache, msgs, inbox, sock, world, ends>>

DrainNext ==
    /\ At(0, "drain") /\ at[0].n + 1 < setup.count
    /\ resps[at[0].n + 1] = <<>>
    /\ at' = [at EXCEPT ![0].n = @ + 1]
    /\ UNCHANGED <<setup, turn, cache, queues, sock, world, ends>>

\* The loop over comm_resps: the argument of a call is requested, any other
\* result is handed to who waits for it.
HandleOne ==
    /\ At(0, "drain") /\ at[0].n + 1 >= setup.count
    /\ inbox # <<>>
    /\ inbox' = Tail(inbox)
    /\ IF Head(inbox).type = "Call"
       THEN Assign(Head(inbox).key) /\ UNCHANGED done
       ELSE /\ done' = done \cup {Head(inbox).key}
            /\ UNCHANGED <<turn, msgs, fetching, kvs, dropped>>
    /\ UNCHANGED <<setup, cache, resps, at, sock, heard, adverts, timeouts,
                   new, served>>

HandledAll ==
    /\ At(0, "drain") /\ at[0].n + 1 >= setup.count
    /\ inbox = <<>>
    /\ Goto(0, "exec")
    /\ UNCHANGED <<setup, turn, cache, queues, sock, world, ends>>

\* shared_chan.recv(0): at most one executor message a round.
ExecGet(k) ==
    /\ At(0, "exec") /\ k \in new /\ Kind(k) \in {"get", "put"}
    /\ new' = new \ {k}
    /\ Assign(k)
    /\ Goto(0, "poll")
    /\ UNCHANGED <<setup, cache, resps, inbox, sock, heard, adverts, timeouts,
                   served, done>>

ExecObject(k) ==
    /\ At(0, "exec") /\ k \in new /\ Kind(k) \in {"notify", "forward"}
    /\ new' = new \ {k}
    /\ Advertise(k)
    /\ Goto(0, "poll")
    /\ UNCHANGED <<setup, cache, queues, sock, fetching, kvs, heard, timeouts,
                   ends>>

ExecNothing ==
    /\ At(0, "exec")
    /\ Goto(0, "poll")
    /\ UNCHANGED <<setup, turn, cache, queues, sock, world, ends>>

-----------------------------------------------------------------------------
(* The other nodes and the KVS. *)

\* The coordinator sends a call to any I/O thread of the node.
CallArrives(k, t) ==
    /\ k \in new /\ Kind(k) = "call"
    /\ new' = new \ {k}
    /\ sock' = [sock EXCEPT ![t].call = Append(@, k)]
    /\ UNCHANGED <<setup, turn, cache, queues, at, fetching, kvs, heard,
                   adverts, timeouts, ends>>

\* handle_data_request on another node, which answers at the address the
\* request came with; that the node holds the object is DataFetch's business.
PeerAnswers(f) ==
    /\ f \in fetching
    /\ fetching' = fetching \ {f}
    /\ sock' = [sock EXCEPT ![f.to].data = Append(@, f.key)]
    /\ UNCHANGED <<setup, turn, cache, queues, at, kvs, heard, adverts,
                   timeouts, new, ends>>

\* Another node requests an object at the address it was given: only a
\* thread that runs has bound its port.
PeerAsks(a) ==
    /\ a \in adverts /\ a.to \in Threads
    /\ adverts' = adverts \ {a}
    /\ sock' = [sock EXCEPT ![a.to].serve = Append(@, a.key)]
    /\ UNCHANGED <<setup, turn, cache, queues, at, fetching, kvs, heard,
                   timeouts, new, ends>>

KvsAnswers(t, k, out) ==
    /\ k \in kvs[t]
    /\ out = "timeout" => timeouts < setup.timeouts
    /\ timeouts' = IF out = "timeout" THEN timeouts + 1 ELSE timeouts
    /\ kvs' = [kvs EXCEPT ![t] = @ \ {k}]
    /\ heard' = [heard EXCEPT ![t] = @ \cup {[key |-> k, out |-> out]}]
    /\ UNCHANGED <<setup, turn, cache, queues, at, sock, fetching, adverts,
                   new, ends>>

Loop(t) ==
    \/ Poll(t) \/ HandleCall(t) \/ HandleRequest(t) \/ HandleResponse(t)
    \/ GetKvsResponses(t)

Secondary(t) == Loop(t) \/ TakeMsg(t) \/ PopMsg(t) \/ EndBatch(t) \/ Push(t)

Primary ==
    \/ Loop(0) \/ DrainFront \/ DrainPop \/ DrainNext \/ HandleOne \/ HandledAll
    \/ ExecNothing
    \/ \E k \in Keys : ExecGet(k) \/ ExecObject(k)

Outcomes == {"ok", "missing", "timeout"}
World ==
    \/ \E f \in fetching : PeerAnswers(f)
    \/ \E a \in adverts : PeerAsks(a)
    \/ \E t \in Threads, k \in Keys, out \in Outcomes : KvsAnswers(t, k, out)

IoNext ==
    \/ Primary
    \/ \E t \in Others : Secondary(t)
    \/ World
    \/ \E k \in Keys, t \in Threads : CallArrives(k, t)

IoSpec == IoInit /\ [][IoNext]_ioVars

\* Every thread keeps running, and a request another node or the KVS was
\* sent is answered.  Nothing makes the coordinator send a call.
AnyThread == UNION {1 .. s.count - 1 : s \in Setups}
IoFairSpec ==
    /\ IoSpec
    /\ WF_ioVars(Primary)
    /\ \A t \in AnyThread : WF_ioVars(t \in Others /\ Secondary(t))
    /\ WF_ioVars(World)

-----------------------------------------------------------------------------
(* Properties. *)

\* What is left of a queue whose front was copied and not yet popped.
Unworked(t) == IF at[t].pc = "pop" THEN Tail(msgs[t]) ELSE msgs[t]
Undrained(t) ==
    IF at[0].pc = "drained" /\ at[0].n + 1 = t THEN Tail(resps[t]) ELSE resps[t]

Queued(t) ==
    LET keysOf(rs) == [i \in DOMAIN rs |-> rs[i].key]
        own == sock[t].call \o sock[t].serve \o sock[t].data
    IN  IF t = 0 THEN own \o keysOf(inbox)
        ELSE own \o Unworked(t) \o keysOf(at[t].hand \o Undrained(t))

Settled == [new |-> new, served |-> served, done |-> done, dropped |-> dropped]

Places(k) ==
    {<<p[1], "queue", p[2]>> : p \in
        {q \in Threads \X (1 .. 2 * Cardinality(Keys)) :
            q[2] \in DOMAIN Queued(q[1]) /\ Queued(q[1])[q[2]] = k}}
    \cup {<<t, "kvs">> : t \in {u \in Threads : k \in kvs[u]}}
    \cup {<<h.out, "heard">> : h \in {g \in UNION {heard[t] : t \in Threads} : g.key = k}}
    \cup {<<f.to, "peer">> : f \in {g \in fetching : g.key = k}}
    \cup {<<a.to, "advert">> : a \in {g \in adverts : g.key = k}}
    \cup {<<s>> : s \in {r \in DOMAIN Settled : k \in Settled[r]}}

\* Whatever the threads' interleaving, an operation is always in exactly one
\* place: no thread loses one between the front() and the pop() of the
\* queues, and none is worked on twice or reported twice.
OnePlace == \A k \in DOMAIN setup.kind : Cardinality(Places(k)) = 1

\* send_data_req_base never gives up for want of an address: the thread that
\* received the call stored the address of its argument before thread 0
\* could see the call and hand the fetch to yet another thread.
AddressKnown == \A k \in dropped : Kind(k) # "call"

\* Every call that arrived gets its argument, every KVS access begun is
\* reported unless the key is missing or a put timed out, and every object
\* whose address was given out is sent to the node that asks for it, by
\* whichever threads the round robin chose.
EveryRequestServed ==
    \A k \in Keys : k \in DOMAIN setup.kind \ new ~> k \in done \cup served \cup dropped
=============================================================================
