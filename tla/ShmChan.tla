------------------------------ MODULE ShmChan ------------------------------
(***************************************************************************)
(* A shared-memory channel (libipc ipc.cpp) as the executors and the       *)
(* scheduler use it: several senders that call send until it succeeds, one *)
(* receiver.  The ring below is the queue that ShmRing is shown to be,     *)
(* except that the last store of a push is a plain one, which a processor  *)
(* may keep in its store buffer while the sender goes on to look for       *)
(* sleepers.  The sleeping and waking is Waiter's.  A message larger than  *)
(* an element travels in a chunk of shared storage, or in fragments when   *)
(* no chunk is free.                                                       *)
(***************************************************************************)
EXTENDS Waiter, Sequences, FiniteSets

CONSTANTS Senders, Receiver,
          Closer,          \* the thread that disconnects the receiver
          Setups,          \* [sizes, trying, chunks, room, timeouts, crashes, close]: sizes[s][n]
                           \* is the length of s's n-th message in elements; trying, the senders
                           \* that call try_send in place of send; the others are bounds
          ConnMod          \* cc_ is a u2_t, modulo 2^32

VARIABLES setup,
          conn,            \* cc_: the count of receivers
          queue,           \* the ring
          buffered,        \* senders whose last element is in the ring for them alone: the
                           \* store of wt_ or f_ct_ is still in their store buffer
          blind,           \* senders whose last look for sleepers was made in that state
                           \* and found none
          acc,             \* the next message id
          next, cursor, prepared,   \* the id_pool of the storage class
          ref, mem,        \* per chunk: readers left, and the message in it
          at,              \* at[t]: [pc, w, then, ret]
          job,             \* job[s]: message, fragment, message id and chunk of the send of s
          connected, held, cache,   \* the receiver: connected_, the popped element, recv_cache
          got,             \* what recv has returned, as sequences of fragments
          timeouts, forced \* timeouts so far; whether force_push took the receiver away

poolVars == <<next, cursor, prepared, ref, mem>>
recvVars == <<connected, held, cache, got>>
faultVars == <<setup, timeouts, forced, dead>>
ringVars == <<buffered, blind>>
vars == <<setup, conn, queue, ringVars, acc, poolVars, at, job, recvVars, timeouts, forced, dead, waiterVars>>

None == -1
MaxCount == setup.chunks
Chunks == 0 .. MaxCount - 1
Size(s, n) == setup.sizes[s][n]
Nothing == <<>>

Place(l) == [pc |-> l, w |-> "cc", then |-> "off", ret |-> FALSE]

Init ==
    /\ setup \in Setups
    /\ conn = 0 /\ queue = <<>> /\ acc = 0
    /\ buffered = {} /\ blind = {}
    /\ next = [c \in Chunks |-> 0] /\ cursor = 0 /\ prepared = FALSE
    /\ ref = [c \in Chunks |-> 0]
    /\ mem = [c \in Chunks |-> Nothing]
    /\ at = [t \in Threads |-> Place(IF t \in Senders THEN "start" ELSE "off")]
    /\ job = [s \in Senders |-> [n |-> 1, i |-> 1, id |-> 0, chunk |-> None]]
    /\ connected = FALSE /\ held = Nothing /\ cache = Nothing /\ got = <<>>
    /\ timeouts = 0 /\ forced = FALSE
    /\ WaiterInit

Goto(t, l) == at' = [at EXCEPT ![t] = Place(l)]
WaitOn(t, w) == at' = [at EXCEPT ![t] = [Place("enter") EXCEPT !.w = w]]
Broadcast(t, w, l) == at' = [at EXCEPT ![t] = [Place("look") EXCEPT !.w = w, !.then = l]]
In(t, l) == at[t].pc = l /\ t \notin dead
W(t) == at[t].w

\* A locked instruction of s empties its store buffer.
Locked(s) == buffered' = buffered \ {s} /\ UNCHANGED blind

\* The count of receivers of a unicast channel, one cc_ for all of them.
AddReceiver == conn' = (conn + 1) % ConnMod
TakeReceiver == conn' = (conn - 1) % ConnMod

(***************************************************************************)
(* The storage of large messages: id_pool, under its spin lock.            *)
(***************************************************************************)
Prepared == IF prepared THEN next ELSE [c \in Chunks |-> c + 1]
Empty == cursor = MaxCount

Acquire ==
    /\ prepared' = TRUE
    /\ next' = Prepared
    /\ cursor' = Prepared[cursor]

\* Mutant: the id is put back without the link to the free ids before it.
ReleaseUnlinked(c) ==
    /\ next' = next
    /\ cursor' = c

Release(c) ==
    /\ next' = [next EXCEPT ![c] = cursor]
    /\ cursor' = c

(***************************************************************************)
(* send                                                                    *)
(***************************************************************************)
Large(s) == Size(s, job[s].n) > 1

\* The checks, and the id of the message.
SendStart(s) ==
    /\ In(s, "start")
    /\ \/ /\ job[s].n > Len(setup.sizes[s])
          /\ Goto(s, "done")
          /\ UNCHANGED <<acc, job, ringVars>>
       \/ /\ job[s].n <= Len(setup.sizes[s]) /\ conn = 0
          /\ Goto(s, "await")
          /\ UNCHANGED <<acc, job, ringVars>>
       \/ /\ job[s].n <= Len(setup.sizes[s]) /\ conn # 0
          /\ acc' = acc + 1
          /\ Locked(s)
          /\ job' = [job EXCEPT ![s].id = acc, ![s].i = 1, ![s].chunk = None]
          /\ Goto(s, IF Large(s) THEN "apply" ELSE "push")
    /\ UNCHANGED <<conn, queue, poolVars, recvVars, faultVars, waiterVars>>

\* apply_storage and the copy into the chunk; without one, fragments.
SendApply(s) ==
    /\ In(s, "apply")
    /\ \/ /\ conn # 0 /\ ~Empty
          /\ Acquire
          /\ job' = [job EXCEPT ![s].chunk = cursor]
          /\ ref' = [ref EXCEPT ![cursor] = conn]
          /\ mem' = [mem EXCEPT ![cursor] = <<s, job[s].n>>]
       \/ /\ conn # 0 /\ Empty
          /\ UNCHANGED <<poolVars, job>>
       \/ /\ conn = 0
          /\ UNCHANGED <<poolVars, job>>
    /\ Goto(s, "push")
    /\ UNCHANGED <<conn, queue, ringVars, acc, recvVars, faultVars, waiterVars>>

Remain(s) == Size(s, job[s].n) - job[s].i

\* Mutant: a fragment short of the end says it is the last.
ElementShort(s) ==
    LET j == job[s]
    IN  [conn |-> s, id |-> j.id, chunk |-> j.chunk, body |-> <<s, j.n>>, part |-> j.i,
         rest |-> IF Remain(s) = 1 THEN 0 ELSE Remain(s)]

Element(s) ==
    LET j == job[s]
    IN  [conn |-> s, id |-> j.id, chunk |-> j.chunk, body |-> <<s, j.n>>, part |-> j.i,
         rest |-> Remain(s)]

\* A fragment has been pushed and announced: the next one, or the next message.
SendNext(s) ==
    /\ In(s, "sent")
    /\ \/ /\ job[s].chunk = None /\ job[s].i < Size(s, job[s].n)
          /\ job' = [job EXCEPT ![s].i = @ + 1]
          /\ Goto(s, "push")
       \/ /\ job[s].chunk # None \/ job[s].i = Size(s, job[s].n)
          /\ job' = [job EXCEPT ![s].n = @ + 1]
          /\ Goto(s, "start")
    /\ UNCHANGED <<conn, queue, ringVars, acc, poolVars, recvVars, faultVars, waiterVars>>

\* The push timed out.  send calls force_push, which for these channels takes
\* one receiver off the count and fails; try_send just fails.
SendFails(s) ==
    /\ In(s, "force")
    /\ \/ /\ s \in setup.trying
          /\ UNCHANGED <<conn, forced>>
       \/ /\ s \notin setup.trying
          /\ TakeReceiver
          /\ forced' = TRUE
    /\ Goto(s, "await")
    /\ UNCHANGED <<queue, ringVars, acc, poolVars, job, recvVars, setup, timeouts, dead, waiterVars>>

(***************************************************************************)
(* The conditions that are polled, and waited for: room for a push, a      *)
(* receiver (wait_for_recv), an element to pop.  wait_for evaluates the    *)
(* condition with its effect, first alone and then within wait_if.         *)
(***************************************************************************)
Wanted(t) == CASE at[t].pc = "push" -> "wt" [] at[t].pc = "await" -> "cc" [] at[t].pc = "recv" -> "rd"

\* The k-th element of the ring has been stored for all to see: only the last
\* one of a sender may not have been, for a push begins with a locked
\* instruction.  Nothing behind an element that is not visible can be popped.
Visible(k) ==
    queue[k].conn \in buffered => \E l \in k + 1 .. Len(queue) : queue[l].conn = queue[k].conn

Holds(w) ==
    \/ w = "wt" /\ Len(queue) < setup.room
    \/ w = "cc" /\ conn >= 1
    \/ w = "rd" /\ queue # <<>> /\ Visible(1)

\* A push that is made under the lock of wt_waiter_ is visible at the unlock.
Succeed(t, w) ==
    \/ /\ w = "wt"
       /\ queue' = Append(queue, Element(t))
       /\ buffered' = IF at[t].pc = "push" THEN buffered \cup {t} ELSE buffered \ {t}
       /\ Broadcast(t, "rd", "sent")
       /\ UNCHANGED held
    \/ /\ w = "cc"
       /\ Goto(t, "start")
       /\ UNCHANGED <<queue, buffered, held>>
    \/ /\ w = "rd"
       /\ queue' = Tail(queue)
       /\ held' = Head(queue)
       /\ Broadcast(t, "wt", "handle")
       /\ UNCHANGED buffered

Polls(t) == In(t, "push") \/ In(t, "await") \/ In(t, "recv")

Poll(t) ==
    /\ Polls(t)
    /\ \/ /\ Holds(Wanted(t))
          /\ Succeed(t, Wanted(t))
       \/ /\ ~Holds(Wanted(t))
          /\ WaitOn(t, Wanted(t))
          /\ UNCHANGED <<queue, buffered, held>>
    /\ UNCHANGED blind
    /\ UNCHANGED <<conn, acc, poolVars, job, connected, cache, got, faultVars, waiterVars>>

Enter(t) ==
    /\ In(t, "enter")
    /\ WaitEnter(t, W(t))
    /\ at' = [at EXCEPT ![t].pc = "check"]
    /\ Locked(t)
    /\ UNCHANGED <<conn, queue, acc, poolVars, job, recvVars, faultVars>>

Check(t) ==
    /\ In(t, "check")
    /\ \/ /\ Holds(W(t))
          /\ WaitNotNeeded(t, W(t))
          /\ Succeed(t, W(t))
       \/ /\ ~Holds(W(t))
          /\ WaitRegister(t, W(t))
          /\ at' = [at EXCEPT ![t].pc = "loop"]
          /\ UNCHANGED <<queue, buffered, held>>
    /\ UNCHANGED blind
    /\ UNCHANGED <<conn, acc, poolVars, job, connected, cache, got, faultVars>>

Loop(t) ==
    /\ In(t, "loop")
    /\ WaitLook(t)
    /\ at' = [at EXCEPT ![t].pc = IF WaitCalledOff(t) THEN "leave"
                                  ELSE IF WaitEndsSoon(t) THEN "soon" ELSE "sleep",
                        ![t].ret = FALSE]
    /\ UNCHANGED <<conn, queue, ringVars, acc, poolVars, job, recvVars, faultVars>>

Woken(t) ==
    /\ In(t, "sleep") \/ In(t, "soon")
    /\ WaitWoken(W(t))
    /\ at' = [at EXCEPT ![t].pc = IF at[t].pc = "sleep" /\ needDest[t] THEN "loop" ELSE "leave",
                        ![t].ret = at[t].pc = "sleep"]
    /\ UNCHANGED <<conn, queue, ringVars, acc, poolVars, job, recvVars, faultVars>>

\* wait_for_recv is called without a limit of time.
TimesOut(t) ==
    /\ \/ In(t, "sleep") /\ W(t) # "cc" /\ timeouts < setup.timeouts
       \/ In(t, "soon")
    /\ timeouts' = IF at[t].pc = "sleep" THEN timeouts + 1 ELSE timeouts
    /\ at' = [at EXCEPT ![t].pc = IF at[t].pc = "sleep" /\ needDest[t] THEN "loop" ELSE "leave",
                        ![t].ret = FALSE]
    /\ UNCHANGED <<conn, queue, ringVars, acc, poolVars, job, recvVars, setup, forced, dead, waiterVars>>

\* wait_for evaluates the condition again, or fails: send gives up, recv
\* returns nothing.
Again(w) == CASE w = "wt" -> "push" [] w = "cc" -> "await" [] w = "rd" -> "recv"
Fails(w) == CASE w = "wt" -> "force" [] w = "cc" -> "start" [] w = "rd" -> "entry"

Leave(t) ==
    /\ In(t, "leave")
    /\ WaitLeave(t, W(t))
    /\ Goto(t, IF at[t].ret THEN Again(W(t)) ELSE Fails(W(t)))
    /\ UNCHANGED <<conn, queue, ringVars, acc, poolVars, job, recvVars, faultVars>>

Wait(t) == Enter(t) \/ Check(t) \/ Loop(t) \/ Woken(t) \/ Leave(t)

(***************************************************************************)
(* broadcast                                                               *)
(***************************************************************************)
Look(t) ==
    /\ In(t, "look")
    /\ blind' = IF NobodyWaits(W(t)) /\ t \in buffered THEN blind \cup {t} ELSE blind \ {t}
    /\ UNCHANGED buffered
    /\ IF NobodyWaits(W(t)) THEN Goto(t, at[t].then) ELSE at' = [at EXCEPT ![t].pc = "lock"]
    /\ UNCHANGED <<conn, queue, acc, poolVars, job, recvVars, faultVars, waiterVars>>

Lock(t) ==
    /\ In(t, "lock")
    /\ PostAll(t, W(t))
    /\ Locked(t)
    /\ IF counter[W(t)] > 0 THEN at' = [at EXCEPT ![t].pc = "shake"] ELSE Goto(t, at[t].then)
    /\ UNCHANGED <<conn, queue, acc, poolVars, job, recvVars, faultVars>>

Shake(t) ==
    /\ In(t, "shake")
    /\ Answered(W(t))
    /\ IF counter[W(t)] > 0 THEN UNCHANGED at ELSE Goto(t, at[t].then)
    /\ UNCHANGED <<conn, queue, ringVars, acc, poolVars, job, recvVars, faultVars>>

\* The answer does not come within 100 ms: chance, or the sleeper is dead.
ShakeTimesOut(t) ==
    /\ In(t, "shake") /\ hand[W(t)] = 0
    /\ timeouts < setup.timeouts \/ dead # {}
    /\ timeouts' = IF dead # {} THEN timeouts ELSE timeouts + 1
    /\ Unanswered(W(t))
    /\ Goto(t, at[t].then)
    /\ UNCHANGED <<conn, queue, ringVars, acc, poolVars, job, recvVars, setup, forced, dead>>

Announce(t) == Look(t) \/ Lock(t) \/ Shake(t)

(***************************************************************************)
(* The receiver: connect, recv, and the destruction of a buffer in storage.*)
(***************************************************************************)
Connect ==
    /\ In(Receiver, "off") /\ ~connected
    /\ AddReceiver
    /\ connected' = TRUE
    /\ Broadcast(Receiver, "cc", "entry")
    /\ UNCHANGED <<queue, ringVars, acc, poolVars, job, held, cache, got, faultVars, waiterVars>>

Part(e) == <<e.body, e.part>>

\* recv_cache is keyed by the message id.
Key(e) == e.id

CacheWith(k, v) == [x \in DOMAIN cache \cup {k} |-> IF x = k THEN v ELSE cache[x]]
CacheWithout(k) == [x \in DOMAIN cache \ {k} |-> cache[x]]

\* find_storage: a chunk nobody has a reference to is not given out.
FindStorage(c) == ref[c] # 0

\* A chunk that is not found is taken for the first of several fragments.
Handle ==
    /\ In(Receiver, "handle")
    /\ LET k == Key(held)
           first == k \notin DOMAIN cache
       IN  \/ /\ first /\ held.chunk = None /\ held.rest = 0
              /\ got' = Append(got, <<Part(held)>>)
              /\ Goto(Receiver, "entry")
              /\ UNCHANGED cache
           \/ /\ first /\ held.chunk # None /\ FindStorage(held.chunk)
              /\ Goto(Receiver, "hold")
              /\ UNCHANGED <<got, cache>>
           \/ /\ first /\ held.rest > 0 /\ (held.chunk # None => ~FindStorage(held.chunk))
              /\ cache' = CacheWith(k, <<Part(held)>>)
              /\ Goto(Receiver, "recv")
              /\ UNCHANGED got
           \/ /\ ~first /\ held.rest = 0
              /\ got' = Append(got, Append(cache[k], Part(held)))
              /\ cache' = CacheWithout(k)
              /\ Goto(Receiver, "entry")
           \/ /\ ~first /\ held.rest > 0
              /\ cache' = CacheWith(k, Append(cache[k], Part(held)))
              /\ Goto(Receiver, "recv")
              /\ UNCHANGED got
    /\ UNCHANGED <<conn, queue, ringVars, acc, poolVars, job, connected, held, faultVars, waiterVars>>

\* The caller reads the message in its chunk and lets go of it: recycle_storage.
Drop ==
    /\ In(Receiver, "hold")
    /\ LET c == held.chunk
           m == mem[c]
       IN  /\ got' = Append(got, [i \in 1 .. Size(m[1], m[2]) |-> <<m, i>>])
           /\ ref' = [ref EXCEPT ![c] = @ - 1]
           /\ IF ref[c] > 1 THEN UNCHANGED <<next, cursor>> ELSE Release(c)
    /\ Goto(Receiver, "entry")
    /\ UNCHANGED <<conn, queue, ringVars, acc, prepared, mem, job, connected, held, cache, faultVars, waiterVars>>

\* The caller calls recv: connected() is looked at here, and nowhere later.
RecvStart ==
    /\ In(Receiver, "entry")
    /\ Goto(Receiver, IF connected THEN "recv" ELSE "gone")
    /\ UNCHANGED <<conn, queue, ringVars, acc, poolVars, job, recvVars, faultVars, waiterVars>>

(***************************************************************************)
(* disconnect, from another thread of the receiver's process, with the     *)
(* quit_waiting that ends the receiver's sleep.                            *)
(***************************************************************************)
DisconnectReceiver == TakeReceiver /\ connected' = FALSE

Disconnect ==
    /\ In(Closer, "off") /\ setup.close /\ connected
    /\ DisconnectReceiver
    /\ Goto(Closer, "flag")
    /\ UNCHANGED <<queue, ringVars, acc, poolVars, job, held, cache, got, faultVars, waiterVars>>

Quit ==
    /\ \/ /\ In(Closer, "flag")
          /\ QuitFlag(Receiver)
          /\ Goto(Closer, "exchange")
       \/ /\ In(Closer, "exchange")
          /\ QuitExchange(Receiver)
          /\ Goto(Closer, IF QuitNeeded(Receiver, "rd") THEN "post" ELSE "done")
       \/ /\ In(Closer, "post")
          /\ PostAll(Closer, "rd")
          /\ Goto(Closer, IF counter["rd"] > 0 THEN "answer" ELSE "done")
       \/ /\ In(Closer, "answer")
          /\ \E a \in BOOLEAN : QuitDone("rd", a)
          /\ Goto(Closer, "done")
    /\ UNCHANGED <<conn, queue, ringVars, acc, poolVars, job, recvVars, faultVars>>

\* The store buffer of s is written to memory: a processor does so, whatever
\* becomes of the process.
Drain(s) ==
    /\ s \in buffered
    /\ Locked(s)
    /\ UNCHANGED <<setup, conn, queue, acc, poolVars, at, job, recvVars, timeouts, forced, dead, waiterVars>>

\* A sender's process dies.
Crash(s) ==
    /\ s \notin dead /\ at[s].pc # "done" /\ Cardinality(dead) < setup.crashes
    /\ dead' = dead \cup {s}
    /\ UNCHANGED <<setup, conn, queue, ringVars, acc, poolVars, at, job, recvVars, timeouts, forced, waiterVars>>

Thread(t) ==
    \/ Poll(t) \/ Wait(t) \/ Announce(t)
    \/ t \in Senders /\ (SendStart(t) \/ SendApply(t) \/ SendNext(t) \/ SendFails(t))
    \/ t = Receiver /\ (Connect \/ Handle \/ Drop \/ RecvStart)
    \/ t = Closer /\ Quit

Next ==
    \/ \E t \in Threads : Thread(t) \/ TimesOut(t) \/ ShakeTimesOut(t)
    \/ \E s \in Senders : Crash(s) \/ Drain(s)
    \/ Disconnect

Spec == Init /\ [][Next]_vars

\* Threads run.  No timeout is relied upon but the 100 ms of a wait that was
\* called off: the receiver of the default recv has none.
Fairness ==
    /\ \A t \in Threads : WF_vars(Thread(t))
    /\ \A s \in Senders : WF_vars(Drain(s))
    /\ WF_vars(In(Receiver, "soon") /\ TimesOut(Receiver))

FairSpec == Spec /\ Fairness

-----------------------------------------------------------------------------
Undisturbed == ~forced /\ dead = {}

Chain == LET chain[k \in 0 .. MaxCount] ==
               IF k = 0 THEN cursor
               ELSE IF chain[k - 1] = MaxCount THEN MaxCount ELSE Prepared[chain[k - 1]]
         IN  chain

FreeChunks == {Chain[k] : k \in 0 .. MaxCount} \ {MaxCount}

\* Where a chunk is in use: by a send, in the ring, or by the reader.
Uses(c) ==
    {<<"send", s>> : s \in {s \in Senders : job[s].chunk = c /\ at[s].pc \in {"push", "enter", "check",
                                            "loop", "sleep", "leave", "force"}}}
    \cup {<<"ring", k>> : k \in {k \in 1 .. Len(queue) : queue[k].chunk = c}}
    \cup (IF at[Receiver].pc \in {"look", "lock", "shake", "handle", "hold"} /\ held # Nothing /\ held.chunk = c
          THEN {<<"reader", Receiver>>} ELSE {})

\* A chunk of shared storage is in at most one place: in the free list of
\* id_pool, which never closes a circle, or with one message, from
\* apply_storage to the last recycle_storage.  It is in none only when a send
\* was given up or died with it.
ChunksApart ==
    /\ Chain[MaxCount] = MaxCount
    /\ \A c \in Chunks :
         LET n == Cardinality(Uses(c)) + (IF c \in FreeChunks THEN 1 ELSE 0)
         IN  n <= 1 /\ (n = 1 \/ ~Undisturbed \/ timeouts > 0)

Whole(s, n) == [i \in 1 .. Size(s, n) |-> <<<<s, n>>, i>>]

\* recv returns whole messages only, each at most once and those of a sender
\* in the order sent, although fragments of several senders mix in the ring,
\* a send that failed half way is repeated, and a chunk is filled again.
WholeInOrder ==
    /\ \A k \in 1 .. Len(got) : \E s \in Senders : \E n \in 1 .. Len(setup.sizes[s]) : got[k] = Whole(s, n)
    /\ \A k, l \in 1 .. Len(got) : k < l =>
         \/ got[k][1][1][1] # got[l][1][1][1]
         \/ got[k][1][1][2] < got[l][1][1][2]

AllGot == Len(got) = Cardinality(UNION {{<<s, n>> : n \in 1 .. Len(setup.sizes[s])} : s \in Senders})

\* A message is in the ring whose sender looked for sleepers before its store
\* could be seen, and found none.
Missed == \E s \in blind : \E k \in 1 .. Len(queue) : queue[k].conn = s

\* Nobody sleeps through its wake-up: without force_push, a dead sender or a
\* disconnection, every message is received at last, with no timeout to help
\* a sleeper.  The one message that can stay in the ring for good is the last
\* of a sender whose plain store of wt_ (prod_cons.h:145) was overtaken by its
\* load of waiting_ (waiter_helper.h:91).
EveryMessageArrives ==
    <>(forced \/ dead # {} \/ at[Closer].pc # "off") \/ <>AllGot \/ <>[]Missed

\* A receiver that is disconnected while it is in recv without a time limit,
\* asleep or about to be, comes back from it: connected() is not looked at
\* again there, so only quit_waiting can end the wait.
DisconnectFrees == (at[Closer].pc = "done" /\ dead = {}) ~> at[Receiver].pc = "gone"
=============================================================================
