# A TLA+ development for Demeter on Pheromone

Demeter is a scheduler for data-intensive serverless jobs. Its repository holds
two systems that meet at the coordinator: **Pheromone**, a serverless platform in
C++ (ZeroMQ between machines, shared memory inside one), extended with the
Demeter placement, and **MARL**, a Python controller, optimizer and simulator that
decides where the functions of a job run. This directory models both, checks the
models with TLC and proves the central safety properties with TLAPS.

## 1. The system and its parts

    client.py --call_app--> coordinator --FunctionCall--> node: scheduler --> executors
        ^      --register-->  |  ^  ^                        |  ^               |
        |                     |  |  +-- notify, forward -----+  +-- results ----+
        |                     |  +----- status reports ------+
        |                     +-- triggers, buckets -------->  (every known node)
        +------------------- answer -------------------------+
    manager: application -> coordinator            node <--data--> node, node <--> KVS
    MARL: job graph -> waves of ready functions -> data centers (simulated or cluster)

| part | code under `src/` | module |
|---|---|---|
| scheduler, executors, function library | `pheromone/src/scheduler/scheduler_server.cpp`, `src/executor/executor_server.cpp`, `include/executor/function_lib.hpp` | `Dispatch` |
| inputs of calls, data between nodes | `scheduler_server.cpp`, `object_handlers.cpp`, `comm_helper.hpp` | `DataFetch` |
| trigger primitives | `common/include/trigger.hpp` | `Triggers`, `SetTrigger` (abstract) |
| triggers on nodes and coordinator | `object_handlers.cpp`, `notify_handler.cpp` | `TriggerSync` |
| re-execution after a timeout | `trigger.hpp`, `scheduler_server.cpp` | `Rerun` |
| placement of calls | `func_call_handler.cpp`, `demeter_scheduler.cpp`, `notify_handler.cpp` | `Placement` |
| calls end to end | the above, `client.py`, `coordinator.cpp` | `Routing` (extends `Placement`) |
| manager, applications, buckets, triggers | `manager_server.cpp`, `app_register_handler.cpp`, `bucket_op_handler.cpp`, `trigger_op_handler.cpp`, `comm_helper.hpp` | `Registry` |
| I/O threads of a node | `comm_helper.hpp`, `safe_ptr.hpp` | `IoThreads` |
| key-value store client | `kvs_client.hpp`, `comm_helper.hpp` | `KvsClient` |
| values of the store, time stamps, object names | `lattices/*.hpp`, `common.hpp`, `function_lib.hpp` | `KvsValues` |
| ring of a shared-memory channel | `shm-ipc/src/libipc/prod_cons.h`, `queue.h`, `circ/elem_array.h` | `ShmRing`, `ShmFifo` (abstract) |
| shared-memory channel | `shm-ipc/src/ipc.cpp`, `id_pool.h` | `ShmChan` (extends `Waiter`) |
| sleeping and waking | `waiter_helper.h`, `platform/waiter_linux.h` | `Waiter` |
| MARL | `MARL/controller.py`, `simulator.py`, `optimizer.py`, `policy.py` | `Orchestrator` |

`PROJECT.json` lists every part, also those left out, maps each definition to the
lines it models, and lists the hazards the properties are aimed at. Each module
begins with a comment that says which variable stands for which piece of the
program's state.

## 2. How the models correspond to the code

*Granularity.* A node's scheduler, a coordinator and the manager are one thread
each with a polling loop, so a handler is one action. Executors, I/O threads,
clients, other nodes and the store are separate processes and interleave.
Messages on one ZeroMQ socket stay in order where the code uses one socket
(notifications and trigger updates in `TriggerSync` and `Registry`, status reports
in `Routing`); where messages use several sockets or I/O threads (calls, data
requests and responses) they are sets and arrive in any order. `IoThreads` looks
into a node: each call on a queue shared by two threads locks for itself
(`safe_ptr`), so `empty`, `front` and `pop` are three steps.

*Shared memory.* A step of `ShmRing` is one access to shared memory, with the
store buffers of x86: a plain store becomes visible to the others in a later
`Flush`. `ShmChan` uses the queue that `ShmRing` is shown to be, in one step per push
and pop, but the last element of a sender stays unseen by the receiver until the
sender's store buffer has drained (`buffered`, `Drain`): a sender may look for
sleepers before its element can be seen. The steps of `wait_if`, `broadcast` and
`quit_waiting` are apart, as `Waiter` gives them; `recv` tests `connected()` once, on
entry (`RecvStart`). `Dispatch` in turn uses channels that deliver whole messages in
order, which is what `ShmChan` is checked for.

*Data.* Payloads, strings and sizes are left out. A call is a model value with the
objects it names; an object is a session and a key. In `DataFetch`, `KeyOf` takes the
session off, since the coordinator's `bucket_key_address_map` has none. The clock appears only as
"the window has elapsed", "the call is old enough", "the timeout has come", each
a free choice where the code compares time stamps.

*Choices.* `unordered_map` iteration order, `rand_r` and the Demeter score are
nondeterministic: Demeter may take any node it believes to have an idle executor.

*Variants.* Configuration the code reads at start-up is a constant (`SharedExecutor`,
`DelayOn`, `RejectExtra` in `Dispatch`, `Delays` in `Rerun`), or, where one run
is to cover several, a variable that the initial state draws from a constant set
and no action changes: `setting` (`Routing`: Demeter, which calls are made and which
of them have a timeout), `kind` and `makers` (`TriggerSync`: the primitive, who makes objects), `mode`
(`Orchestrator`: cluster or simulation, wave size) and `setup` (`ShmRing`: the
policy and who takes part; `ShmChan`: the messages and the faults; `IoThreads`: the
number of threads and the operations). Other constants separate
normal from exceptional surroundings: `Liberties` (`Registry`: what clients do beyond
orderly use), `Racy` (`DataFetch`: an unlocked lookup may miss), `PerKey` (`Rerun`: notes
by source, as BY_SET keeps them), `Stored` (`KvsClient`: keys the store has), and
`Hasty` and `Slow` (`KvsClient`, `Rerun`: a timeout may come while the answer is
still on its way).

## 3. Runs

| run | question (all hold) |
|---|---|
| `dispatch_fan` | Two executors: is every call in exactly one place, does the status table follow the executors, is an executor given a second call only on its own report, are no more calls consumed by blocked functions or sent to a hung executor than such reports were made? |
| `dispatch_live` | Delay queue and blocking gets with shared executors: the same place property; is a late reply told from the current one, is every call run, reported failed or forwarded unless a blocked get consumes it? |
| `trigger_apps` | Do two workers and a coordinator behave like one BY_SET trigger (`SetTrigger`, a refinement, liveness included), whose call is lost only where the coordinator makes it without a free executor? With one worker, do the primitives fire exactly as often as owed, the coordinator never on its own? Is an object of two workers in one BY_TIME window only? |
| `fetch_join` | With two sessions under one key: do the wait tables agree, are addresses good but for those of the other session, does every call get its objects unless it asked the other session's node? |
| `routing_calls` | With and without Demeter, with a client that sends its call again and one that gives up and makes another: are requests neither lost nor doubled, do answers reach their caller and, unless an earlier call timed out, the call they answer, are nodes overfilled only when all are full, does every call return? |
| `rerun_pairs` | Is a source without its object always watched or on its way, and does the object arrive (BY_SET)? |
| `registry_ops` | Do the nodes' triggers, bucket owners and application coordinators follow the coordinator's and the manager's, for orderly clients? |
| `kvs_gets` | Is no request dropped from the pending maps, is every GET of a stored key answered? |
| `orch_jobs` | Do functions follow their inputs, are the steps the topological batches, does the episode end? |
| `shm_ring` | Is the ring of a channel a first-in first-out queue (`ShmFifo`, a refinement) although three counters are moved by plain stores; is no item stranded? |
| `shm_chan` | Are chunks of storage never shared, do messages arrive whole and in order with fragments, failed sends and a dying sender; does nobody sleep through a wake-up, does a disconnection free a sleeping receiver? |
| `io_threads` | Is an operation never lost or doubled between the threads, is the address of an argument known to the thread that fetches it, is every request served? |

What the passing runs leave out can be put back, and TLC then finds a property
violated. `PROJECT.json` has the lines under "hazards".

| change | property that fails | what the code does |
|---|---|---|
| `Dispatch`: `SharedExecutor = FALSE` in `dispatch_live` | `EveryCallSettles` | a delayed call that finds an available but unsuitable executor is pushed again with a new time stamp, so it neither runs nor becomes old enough to be forwarded |
| `TriggerSync`: a `BY_BATCH_SIZE` bucket of two workers | `AtMostOnce` | a worker and the coordinator complete different batches with one object before either has cleared the other |
| `DataFetch`: `Racy = TRUE` | `InflightIsReal` | a lookup in `key_len_map` during an insertion misses, the request is not answered and nobody asks again |
| `Rerun`: `PerKey = FALSE` | `NotForgotten` | IMMEDIATE and BY_NAME note a source under its session only |
| `Registry`: `Liberties = {"late"}` | `NodesInStep` | a node that reports after a registration is never sent it |
| `Liberties = {"twice"}` | `NodesInStep` | the coordinator deletes every trigger of a name, a node the first |
| `Liberties = {"timed"}` | `NodesInStep` | a BY_TIME trigger is not sent to nodes but its deletion is; `add_trigger` does not name its bucket |
| `Liberties = {"shared"}` | `NodesInStep` | coordinators do not see each other's bucket names |
| `Liberties = {"purge"}` | `NodesInStep` | `delete_bucket` does not tell the nodes |
| `KvsClient`: `Stored = {}` | `RequestsAccounted`, `EveryGetAnswered` | the answer to a GET of an absent key is not handed on |
| `Routing`: batches of two clients, without Demeter | `AnswersReachCaller` | the parts of a split batch carry no session, so the answers of both are looked up under the empty one |
| `Orchestrator`: `Valid` without a stage, `Fallback = FALSE` | `EpisodeEnds` | a function without a valid allocation stays pending |
| `IoThreads`: one thread and a `"notify"` | `EveryRequestServed` | `get_io_thread_id(true)` names thread 1 also when there is none, and the object is asked for at a port nobody binds |

Six properties name a fault of the code that their run reaches and let it off,
and nothing else; without the exception TLC finds each violated.

| property | let off | what the code does |
|---|---|---|
| `AddressesHold`, `InflightIsReal`, `EveryCallRuns` | another session's node (`OthersNode`, `Stranded`) | `bucket_key_address_map` is keyed by bucket and key (`coordinator.cpp:24`) and its first address is given out (`notify_handler.cpp:127`, "TODO session support"); that node does not answer and the call waits for ever |
| `EveryCallSettles` | a call that a blocked get consumes | `get_object` receives from the channel on which calls arrive |
| `ReturnsOwnAnswer` | the late answer to an earlier call of the client that was sent again or given up | `call_app` does not compare `request_id` (`client.py:272`) |
| `EveryMessageArrives` | `Missed`: the last message of a sender whose look for sleepers overtook its store | `wt_` is moved by a plain store, after which `broadcast` loads `waiting_` without a fence |

`FiresLikeOneTrigger` counts a call that the coordinator only logs
(`notify_handler.cpp:176`) as lost, not as fired: `SetTrigger` promises that a complete
session is called once or lost, never both. In `dispatch_fan` and `dispatch_live` a call
that is consumed ("stolen") or sent to a hung executor ("lost") is settled for
`ExactlyOnePlace`; `LossesPaidByReports` bounds their number.

`CHECK_DEADLOCK FALSE` stands in the configurations of `TriggerSync`, `DataFetch`,
`Rerun`, `Registry`, `KvsClient` and `ShmChan`, whose workload is finite: when all is
settled and delivered nothing is left to do. The loops of `Dispatch`, `Routing`,
`Orchestrator`, `ShmRing` and `IoThreads` are checked for deadlock.

## 4. Bounds

| module | instance | why it is enough |
|---|---|---|
| `Dispatch` | channels with room (a ring has 256 places), 1-2 executors, 2-3 calls, up to 3 reports and 3 blocking operations, request ids modulo 2 or 4 instead of 100 | a batch is split, a report crosses a dispatch, a reply outlives its request |
| `TriggerSync` | 2 workers, 2 sessions of 2 keys; 1 worker, 5 keys | a session's objects on different nodes; two rounds of a batch or of a redundant group |
| `DataFetch` | 2 nodes, 3 objects of which two have one key in two sessions and one is small, 3 calls, 1 get, 2 routes per call, the nodes that may make an object fixed (`Makers`) | a shared fetch, a call forwarded while its objects move, a call packed with its data, an address of the other session |
| `Routing` | 2 nodes of one executor, 2 clients, a batch of two, a chain of two single requests sent at most twice, two single calls, 1 unread status; executors shared and extra requests forwarded, neither delayed nor rejected | a split batch, a bounce, a retry beside a late attempt, a call after one that was given up |
| `Rerun` | 2 nodes with one executor, 2 sources of a session, 2 losses, 3 reruns | a lost rerun of a forwarded call |
| `Registry` | 2 each of applications, coordinators, buckets and names, one node (nodes do not interact here), 4 requests | create, add, add, delete; or register, delete, add again |
| `KvsClient` | 1 key, 1 PUT and up to 2 GETs of it, 2 servers, 2 losses, 2 moves, 3 expiries | a moved key with a late answer and a timeout; the theorem has any number of keys |
| `Orchestrator` | 2 jobs of 5 functions in 3 stages, 2 data centers, waves of 1, 2 and unlimited | one-to-one and all-to-all links, leftovers of a wave |
| `ShmRing` | a ring of 3 elements instead of 256, counters modulo 9 that start at 7, 2 producers, 1-2 consumers, up to 4 items | the ring is full, a place is used again, the counters wrap; two pushers race two poppers |
| `ShmChan` | 2 senders, 1 receiver, up to 2 messages each of 1-2 elements, 1-2 chunks, a ring of 1-2 elements, one timeout, death or disconnection | no chunk is free and fragments mix; a sender sleeps on a full ring; each fault falls into every step |
| `IoThreads` | 1-3 threads, 2-3 operations of every kind, batches of one message | the round robin takes a fetch to another thread than the call; a limit cuts a round short |

Bounds are constants whose names begin with `Max`, `Makers`, or fields of the set of
set-ups, and stand in the guards of the actions they limit. The theorems hold
for every value of the constants. Two liveness properties let a behaviour off that has used
up a bound on timeouts (`EveryObjectArrives`, `EveryGetAnswered`): more timeouts come
than the bound allows only if timeouts keep coming early. `EveryMessageArrives` also lets
off a channel that lost its receiver or a sender: a send that times out takes the
receiver off the count (`force_push`), and every later send finds none.

## 5. Fairness

All fairness is weak. `Dispatch`, `DataFetch`, `TriggerSync`, `Registry`, `IoThreads`:
loops poll for ever, functions end, sockets deliver. `Routing` is fair for each
request, because every socket of a polling loop is read in turn and queues are
first-in-first-out. `Rerun` and `KvsClient` assume nothing about losses beyond
their number; timeouts may come early, up to the bound on them. `Orchestrator` calls
`step` or `run_once` again and again, as `cli.py` and `driver.py` do. In `ShmRing` and
`ShmChan` each thread goes on while it can and store buffers drain; timeouts are
not fair, so a sleeper that was missed sleeps on. The one exception is a timed
wait of a receiver that `disconnect` has already told to leave.

## 6. Theorems

| theorem | statement |
|---|---|
| `Dispatch_proofs!TypeCorrect` | every reachable state of a node is well typed |
| `StatusIsTracked` | the newest unread status message, or else the table, tells idle from busy, so an idle executor is or becomes usable |
| `LateRepliesAreTold` | while every executor has made fewer than `RidMod` requests, a late reply is not taken for the current one (`StaleReplyRejected`) |
| `CallsArePaidByReports` | `HeldPaidByReports`: an executor is given a second call only on a report of its own |
| `DispatchPlaces_proofs!EveryCallIsInOnePlace` | `ExactlyOnePlace`: queues, batches, the delay queue and direct invocations neither lose nor double a call |
| `DataFetch_proofs!AddressesAlwaysHold`, `WaitsAlwaysAgree`, `ReadyAlwaysHasData`, `RoutedCallsAreScheduledOnce` | the data-fetch invariants, with `Racy` allowed; addresses hold but for those of another session with the same key |
| `EveryWaitIsServed` | assuming `~Racy`, whoever waits waits for a message under way, or has asked another session's node |
| `Scheduler_proofs!NoSourceIsForgotten` | of `Rerun`: assuming `PerKey`, a source without its object is watched, delayed or on its way |
| `FetchesHaveAddresses` | of `IoThreads`: no fetch of a call's argument is given up for want of an address (`AddressKnown`), for any number of threads and any interleaving |
| `Workflow_proofs!NoObjectIsPassedTwice` | with IMMEDIATE, BY_NAME, BY_SET and BY_TIME no object is an argument of two calls (`AtMostOnce`), for any workers, workload and delay of messages |
| `SetFiresOnceWhenComplete` | workers and coordinator implement `SetTrigger!Spec`, the safety half of `FiresLikeOneTrigger`: a session is called at most once, when complete, and not after its call was lost |
| `FunctionsFollowTheirInputs` | of the orchestrator: a function is offered, placed and run after its inputs, in simulated time too |
| `ShmRing_proofs!WtStaysBetween`, `RingIsFifo` | assuming `NoLap`, `wt_` stays between `rd_` and `ct_`, and the ring implements the queue `ShmFifo`, for any size, producers and consumers and all three policies |
| `Kvs_proofs!NoRequestIsDropped` | assuming `Stored = Keys`, GETs and PUTs stay in a pending map until answered or reported |
| `TimestampsOrdered`, `TwoDigitThreadsWin` | with up to ten threads a later put has the greater time stamp, and no two puts of different threads or milliseconds have the same; a thread with an id of two digits wins against any one-digit thread whose time is less than ten times as large |
| `LastWriterWins`, `SmallestPriorityWins`, `ClocksConverge` | the laws of the two pair lattices (idempotent, associative, commutative but for ties) and of vector clocks (all three) |
| `CausalMergeLaws`, `MultiMergeLaws`, `CausalExchangeAgrees` | a newer version replaces, an older one changes nothing, a merge is absorbed when repeated; two replicas that exchange versions agree |
| `MergeOrderMatters` | the causal merge is not associative: the order in which three versions arrive decides whether one that was superseded is still in the value |
| `SimpleRoundTrip`, `CausalRoundTrip` | what is serialized is read back |
| `NamesSplitAgain`, `NameRoundTrip`, `DistinctObjectsDistinctNames`, `AnnouncedName` | bucket, key and session are recovered from a name if the key is not empty, the session has its 16 characters and the bucket no delimiter; an empty key loses the session; an announced object has the name its reader computes |
| `DirectKeysUniqueOnNode`, `UniqueKeys` | the key of a created object determines executor and object number on a node; with the address in it, the address without dots as well |

They rest on the named assumptions of the modules (types of the constants, finite
sets of executors and functions; in `Dispatch` no two calls make the same direct
invocation; in `ShmRing` the number of elements divides the range of the counters,
as 256 divides 2^32) and on the hypotheses listed. Those of the state machines are
needed: section 3 names what fails without each. `RidMod` is 100 in the code and an
executor's 101st request reuses the id of its first. `NoLap` says that a ring's tail
has not come back to where it started, that is, that fewer than 2^32 items were
pushed: a pusher that sleeps between loading `ct_` and its exchange while 2^32 others
pass could succeed with a stale counter. BY_BATCH_SIZE, REDUNDANT and DYNAMIC_GROUP
are left out of `NoObjectIsPassedTwice` because their copies are cleared by messages that
may be late (section 3).

*The arguments.* `StatusTracks` is inductive with the type invariant once it is
stated over the *newest* unread message of an executor; the lemmas on sending and
reading a message carry the proof. `StaleReplyRejected` follows from `RidsPast`: the
replies under way answer requests that were made. For `HeldPaidByReports` the calls
queued for and taken by an executor, its unread reports and its usable status
together never exceed the reports it made (`Paid`); the lemmas on `Count` say what
sending and reading do to the number of messages of a sort. `ExactlyOnePlace` needs
`Spot`, which names the one place of a call and denies all others, `Once`, that no
queue holds a call twice, and `Births`: a call that has not begun to run has made
none of its direct invocations.

In `DataFetch` the invariants prove each other: addresses hold because objects stay
where they are, and a wrong one names a node that made another session's object
(`OthersNode`), which no step undoes; a request goes to the address its sender has
(`AskedAtAddress`); the two wait tables agree because `RecvData` removes a key from
both; a woken call has its data because a waiting call lacks exactly what it waits
for (`WaitingLacks`), and a call is in one place only (`OnePlace`); that also makes the
hand-overs add up to the routings. In `Rerun` a source is noted and its check queued
in the step that schedules it, and every step that takes it from one place puts it
in another. In `KvsClient` the bookkeeping invariant `Books` speaks of both pending
maps at once, since a request moves between them. In `Orchestrator` causal order
in simulated time needs `FinishedByNow`: whatever has finished did so by `now`, at
which the next step starts.

In `IoThreads` an address is stored before the call it came with leaves the thread
that received it, and addresses are never removed. So every call carried by a
thread, in a response queue or in `comm_resps`, and every fetch in a message queue has
its address (`Carried`). The proof has to know that `front`, `pop` and the reads of a
polled socket find something (`Fronts`): between `empty()` and `pop()` nobody else takes
from the queue.

In `TriggerSync` every object is taken in by one worker and notified once
(`NoticesOnce`). IMMEDIATE and BY_NAME fire on the object alone, so a notice is active
exactly if its worker has fired (`PointInv`). Under BY_TIME only the coordinator has a
copy, and an object is in it or in a call (`TimeInv`). BY_SET needs `SetInv`: a worker's
copy holds only keys it has notified the coordinator of (`WorkerCopy`); the
coordinator's holds the handled keys of a session until it is complete
(`CoordCopy`); and where a worker has fired for a session that the coordinator has
not seen all of, an *active* notice of that worker is under way with no object of
the session behind it (`ActiveLast`). So the notice that completes the
coordinator's copy is the active one, and the coordinator skips it. For the
refinement a session is then called at most once (`CallsOnePerSession`), and each
step is an arrival, a firing, both, a loss, or nothing to the abstract trigger
(`FiredOrLost`).

In `ShmRing` counters are compared by how far they have come from `Start` (`V`). The heart
is `Tokens`: each element between `wt_` and `ct_` is in the hands of at most one thread,
which writes it, is about to make its commit flag visible, has taken the flag, or
has a store of `wt_` past it in its buffer; therefore a delayed plain store of `wt_`
never takes it back. `Room` keeps a pusher from overtaking the readers, `Whole` and
`Copied` say which elements are written and what a reader has copied, and `Shape`
gives the contents of the abstract queue by its places.

In `Kvs_proofs` names are concatenations around a delimiter; `Joined` describes one by
its places, and `JoinSplits` says that two equal ones whose first parts lack the
delimiter have equal parts. That decimals are read back (`DecimalsReadBack`) is a
hypothesis about `std::to_string`.

*Only model-checked.* Liveness, which is out of the prover's reach, and with it the
fair half of `FiresLikeOneTrigger`. `Lockstep` and `StepsAreBatches` speak of what a whole
history of steps adds up to (a replay of the notices under way, the depth of a
graph), which takes an induction over data. `NodesInStep` compares tables after a
replay of the messages in flight, for the same reason. The properties of `Routing` and
`ShmChan` need invariants over queues of nested batches and fragments, and
`IoThreads!OnePlace` one that counts the places of an operation in concatenated
queues; they were not attempted. The type invariants of `DataFetch`, `Rerun`,
`KvsClient` and `Orchestrator` are proved and not checked again by a run. `KvsValues`
has operators only, and its laws are proved, not run.

## 7. What the models say about the code beyond the properties

- *Channels.* A failed push leaves its chunk taken for good; fragments of a send
  that timed out stay in the ring and in the receiver's cache, and the retry has a
  new message id. `shut_sending` does not reset the flag of a single sender. With
  "ss", `force_push` clears the flag of a receiver that is merely slow, as the
  comment at `prod_cons.h:51` grants. A plain store of `wt_` may be delayed past the
  load of `waiting_` in `broadcast`; the wake-up is then missed until the next
  message or timeout.
- *Sessions.* Two sessions of one workflow that make an object of the same key on
  different nodes share an entry of the address map; calls of one may be sent to
  the other's node for data, and are not answered.
- *Keys.* The address in `gen_unique_key` has lost its dots, so 10.0.1.12 and
  10.0.11.2 give the same keys; `create_object(size)` does not name the node at all.
- *BY_TIME.* The last window of a bucket is handed over when the next object comes,
  as the comment at `trigger.hpp:398` says.
- *Store.* A PUT that timed out is not sent again. `emplace` keeps an address that
  was learnt first although a later message names another node.

## 8. Not modelled

- The learning half of MARL (`networks.py`, `training.py`, `features.py`):
  floating-point computation.
- Argument and message layouts, object sizes, packing: bytes put together and
  taken apart, at `|` (`function_lib.hpp:166`) or after a length of one byte
  (`function_lib.hpp:220`).
- The broadcast policies of the ring (the platform has unicast channels only),
  and with them `clear_storage`; shared-memory segments and their removal
  (`shm.cpp`, `platform/shm_linux.cpp`), the allocator, the Windows half. Of the
  channel: the trimming of a receive cache of more than 1024 messages, the test for
  a message of one's own, a signal handler that disconnects, a process that dies
  inside a spin lock.
- Start-up: sockets, threads and queues are there in the initial states; that
  the vectors of queues grow while the first threads already run
  (`scheduler_server.cpp:762`) is left out. Configuration
  (`load_demeter_scheduler_config`) is a choice of the initial state.
- A manager that is asked for a coordinator before one has synced: it divides by
  the number of coordinators (`manager_server.cpp:89`) and ends.
- A send to a live executor that fails because the 256 places of its ring are
  full: `send_to_executer` (`scheduler_server.cpp:74`) logs it and drops the message.
- A trigger of an unknown primitive, for which `gen_trigger_pointer` returns null.
- `query_handler.cpp`: its only sender, `key_query_async`, has no caller.
- Crashes of nodes: the code has no handling of them beyond the re-execution
  that `Rerun` models; nothing is persisted by the scheduler. An executor that
  ends in a put that timed out is in `Dispatch`, a sender that dies in `ShmChan`.
- `choose_allocation`: a loop over fixed sizes whose result only labels a request.
- The Anna store and ZeroMQ (answering services and queues in the models), the
  Python Anna client, and the deployment scripts.
