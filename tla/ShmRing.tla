------------------------------ MODULE ShmRing ------------------------------
(***************************************************************************)
(* The ring buffer under every shared-memory channel (libipc prod_cons.h,  *)
(* the unicast policies) with the flags that admit senders and receivers   *)
(* to it (queue.h, elem_array.h).  Scheduler and executors use the policy  *)
(* "mm", many senders and many receivers; "sm" and "ss" are its bases.     *)
(*                                                                         *)
(* Every step makes one access to shared memory.  A plain store of "mm"    *)
(* goes through the store buffer of its processor (x86) and is seen by the *)
(* others at a later Flush; an atomic read-modify-write waits until the    *)
(* buffer is empty.  An element is written, and copied, half by half.      *)
(***************************************************************************)
EXTENDS Integers, Sequences

CONSTANTS Producers, Consumers,
          Setups,          \* [policy, quota, readers, leaves]: the policy, the items each
                           \* producer pushes, the consumers that take part and how often
                           \* each may disconnect (the last three are bounds)
          Start,           \* counter value of the ring when it is empty at first
          Size,            \* elements of the ring (elem_max, 256)
          Wrap             \* the counters are u2_t, modulo 2^32

\* elem_max divides the range of the counters, or index_of would jump when a
\* counter wraps around.
ASSUME RingAssumption ==
    /\ Producers \cap Consumers = {}
    /\ Size \in Nat \ {0} /\ Wrap \in Nat
    /\ Size < Wrap /\ Wrap % Size = 0
    /\ Start \in 0 .. Wrap - 1
    /\ \A s \in Setups : s.policy \in {"ss", "sm", "mm"}

VARIABLES setup,
          rd, wt, ct,      \* read, write and commit counters
          f, data,         \* per element: commit flag, the two halves of the data
          buf,             \* buf[t]: the store thread t has not yet made visible
          at,              \* at[t]: where t is, the counter and flag it loaded, the halves it copied
          sent, got,       \* sent[p]: items p has taken a place for; got[c]: items c has popped
          sFlag, rFlag,    \* s_ckr_ and r_ckr_ of single-sided policies
          role, left       \* role[t]: connection state; left[c]: disconnections so far

vars == <<setup, rd, wt, ct, f, data, buf, at, sent, got, sFlag, rFlag, role, left>>

Threads == Producers \cup Consumers
NoFlag == -1
Slots == 0 .. Size - 1
Counters == 0 .. Wrap - 1
None == <<>>

\* index_of: the low bits of a counter.
IndexOf(c) == c % Size
Inc(c) == (c + 1) % Wrap

MultiProducer == setup.policy = "mm"
MultiConsumer == setup.policy \in {"sm", "mm"}
Quota(p) == setup.quota[p]

Idle == [pc |-> "idle", cur |-> 0, flg |-> NoFlag, val |-> <<None, None>>]

Init ==
    /\ setup \in Setups
    /\ rd = Start /\ wt = Start /\ ct = Start
    /\ f = [i \in Slots |-> NoFlag]
    /\ data = [i \in Slots |-> <<None, None>>]
    /\ buf = [t \in Threads |-> None]
    /\ at = [t \in Threads |-> Idle]
    /\ sent = [p \in Producers |-> 0]
    /\ got = [c \in Consumers |-> <<>>]
    /\ sFlag = FALSE /\ rFlag = FALSE
    /\ role = [t \in Threads |->
                  IF t \in Consumers \ setup.readers THEN "shut"
                  ELSE IF (t \in Producers /\ MultiProducer) \/ (t \in Consumers /\ MultiConsumer)
                  THEN "on" ELSE "off"]
    /\ left = [c \in Consumers |-> 0]

counters == <<rd, wt, ct>>
elements == <<f, data>>
users == <<setup, sFlag, rFlag, role, left>>
history == <<sent, got>>

\* A call that returns, or starts over, forgets what it had loaded.
Goto(t, l) == at' = [at EXCEPT ![t] = IF l = "idle" THEN Idle ELSE [@ EXCEPT !.pc = l]]

(***************************************************************************)
(* The store buffer.                                                       *)
(***************************************************************************)
Store(t, s) == buf' = [buf EXCEPT ![t] = s]
LoadWt(t) == IF buf[t] # None /\ buf[t][1] = "wt" THEN buf[t][2] ELSE wt
LoadFlag(t, i) ==
    IF buf[t] # None /\ buf[t][1] = "f" /\ IndexOf(buf[t][2]) = i THEN buf[t][2] ELSE f[i]
Fence(t) == buf[t] = None

Flush(t) ==
    /\ buf[t] # None
    /\ \/ /\ buf[t][1] = "wt"
          /\ wt' = buf[t][2]
          /\ UNCHANGED <<rd, ct, f>>
       \/ /\ buf[t][1] = "f"
          /\ f' = [f EXCEPT ![IndexOf(buf[t][2])] = buf[t][2]]
          /\ UNCHANGED counters
    /\ Store(t, None)
    /\ UNCHANGED <<data, at, history, users>>

(***************************************************************************)
(* Admission.  ready_sending: a single-sender ring admits one sender at a  *)
(* time.  shut_sending clears the flag but not sender_flag_, so a queue    *)
(* object that has shut stays out of use here.                             *)
(***************************************************************************)
SenderAdmitted == MultiProducer \/ ~sFlag
ReceiverAdmitted == MultiConsumer \/ ~rFlag

ReadySending(p) ==
    /\ role[p] = "off"
    /\ SenderAdmitted
    /\ sFlag' = ~MultiProducer
    /\ role' = [role EXCEPT ![p] = "on"]
    /\ UNCHANGED <<setup, rFlag, left, counters, elements, buf, at, history>>

ShutSending(p) ==
    /\ role[p] = "on" /\ at[p].pc = "idle" /\ sent[p] = Quota(p)
    /\ sFlag' = FALSE
    /\ role' = [role EXCEPT ![p] = "shut"]
    /\ UNCHANGED <<setup, rFlag, left, counters, elements, buf, at, history>>

\* queue_conn::connect: only the receiver of "ss" must win a flag.
Connect(c) ==
    /\ role[c] = "off"
    /\ ReceiverAdmitted
    /\ rFlag' = ~MultiConsumer
    /\ role' = [role EXCEPT ![c] = "on"]
    /\ UNCHANGED <<setup, sFlag, left, counters, elements, buf, at, history>>

Disconnect(c) ==
    /\ role[c] = "on" /\ at[c].pc = "idle" /\ left[c] < setup.leaves
    /\ rFlag' = FALSE
    /\ role' = [role EXCEPT ![c] = "off"]
    /\ left' = [left EXCEPT ![c] = @ + 1]
    /\ UNCHANGED <<setup, sFlag, counters, elements, buf, at, history>>

(***************************************************************************)
(* push.  The item of a producer is the pair of its name and its number.   *)
(***************************************************************************)
\* The counter a push reserves its place with: ct_, or wt_ of a single sender.
PushBegin(p) ==
    /\ at[p].pc = "idle" /\ role[p] = "on" /\ sent[p] < Quota(p)
    /\ at' = [at EXCEPT ![p].pc = "room", ![p].cur = IF MultiProducer THEN ct ELSE wt]
    /\ UNCHANGED <<counters, elements, buf, history, users>>

Full(p) == IF MultiProducer THEN IndexOf(Inc(at[p].cur)) = IndexOf(rd)
                            ELSE IndexOf(at[p].cur) = IndexOf((rd - 1) % Wrap)

PushCheck(p) ==
    /\ at[p].pc = "room"
    /\ Goto(p, IF Full(p) THEN "idle" ELSE IF MultiProducer THEN "claim" ELSE "write1")
    /\ UNCHANGED <<counters, elements, buf, history, users>>

\* Mutant: a place is taken by adding to ct_, with no look at what was checked.
PushClaimedBlindly(p) == TRUE

PushClaimed(p) == ct = at[p].cur

\* The exchange on ct_; the loser starts over.
PushClaim(p) ==
    /\ at[p].pc = "claim" /\ Fence(p)
    /\ \/ /\ PushClaimed(p)
          /\ ct' = Inc(ct)
          /\ sent' = [sent EXCEPT ![p] = @ + 1]
          /\ Goto(p, "write1")
       \/ /\ ~PushClaimed(p)
          /\ Goto(p, "idle")
          /\ UNCHANGED <<ct, sent>>
    /\ UNCHANGED <<rd, wt, elements, buf, got, users>>

\* The item being written: a single sender counts it only when wt_ moves.
Item(p) == <<p, IF MultiProducer THEN sent[p] ELSE sent[p] + 1>>

PushWrite(p) ==
    /\ at[p].pc \in {"write1", "write2"}
    /\ LET h == IF at[p].pc = "write1" THEN 1 ELSE 2
       IN  data' = [data EXCEPT ![IndexOf(at[p].cur)][h] = Item(p)]
    /\ Goto(p, IF at[p].pc = "write1" THEN "write2" ELSE IF MultiProducer THEN "commit" ELSE "add")
    /\ UNCHANGED <<counters, f, buf, history, users>>

\* wt_.fetch_add of the single sender.
PushAdd(p) ==
    /\ at[p].pc = "add" /\ Fence(p)
    /\ wt' = Inc(wt)
    /\ sent' = [sent EXCEPT ![p] = @ + 1]
    /\ Goto(p, "idle")
    /\ UNCHANGED <<rd, ct, elements, buf, got, users>>

PushCommit(p) ==
    /\ at[p].pc = "commit" /\ Fence(p)
    /\ Store(p, <<"f", at[p].cur>>)
    /\ Goto(p, "help")
    /\ UNCHANGED <<counters, elements, history, users>>

\* From here on the pusher moves wt_ over committed elements, its own first.
PushLoadFlag(p) ==
    /\ at[p].pc = "help"
    /\ at' = [at EXCEPT ![p].pc = "mine", ![p].flg = LoadFlag(p, IndexOf(at[p].cur))]
    /\ UNCHANGED <<counters, elements, buf, history, users>>

PushLoadWt(p) ==
    /\ at[p].pc = "mine"
    /\ Goto(p, IF at[p].cur = LoadWt(p) /\ at[p].flg = at[p].cur THEN "take" ELSE "idle")
    /\ UNCHANGED <<counters, elements, buf, history, users>>

PushTakeFlag(p) ==
    /\ at[p].pc = "take" /\ Fence(p)
    /\ \/ /\ f[IndexOf(at[p].cur)] = at[p].flg
          /\ f' = [f EXCEPT ![IndexOf(at[p].cur)] = NoFlag]
          /\ Goto(p, "move")
       \/ /\ f[IndexOf(at[p].cur)] # at[p].flg
          /\ Goto(p, "idle")
          /\ UNCHANGED f
    /\ UNCHANGED <<counters, data, buf, history, users>>

PushStoreWt(p) ==
    /\ at[p].pc = "move"
    /\ Store(p, <<"wt", Inc(at[p].cur)>>)
    /\ at' = [at EXCEPT ![p].pc = "help", ![p].cur = Inc(@)]
    /\ UNCHANGED <<counters, elements, history, users>>

Push(p) ==
    \/ PushBegin(p) \/ PushCheck(p) \/ PushClaim(p) \/ PushWrite(p) \/ PushAdd(p)
    \/ PushCommit(p) \/ PushLoadFlag(p) \/ PushLoadWt(p) \/ PushTakeFlag(p) \/ PushStoreWt(p)

(***************************************************************************)
(* pop.  at[c].flg holds the value of wt_ that c has loaded.                  *)
(***************************************************************************)
PopBegin(c) ==
    /\ at[c].pc = "idle" /\ role[c] = "on"
    /\ at' = [at EXCEPT ![c].pc = "any", ![c].cur = rd]
    /\ UNCHANGED <<counters, elements, buf, history, users>>

PopLoadWt(c) ==
    /\ at[c].pc = "any"
    /\ \/ /\ IndexOf(at[c].cur) # IndexOf(LoadWt(c))
          /\ Goto(c, "copy1")
       \/ /\ IndexOf(at[c].cur) = IndexOf(LoadWt(c))
          /\ IF MultiProducer THEN at' = [at EXCEPT ![c].pc = "flag", ![c].flg = LoadWt(c)]
                              ELSE Goto(c, "idle")
    /\ UNCHANGED <<counters, elements, buf, history, users>>

\* Mutant: a receiver leaves it to the senders to move wt_.
PopLoadFlagNoHelp(c) ==
    /\ at[c].pc = "flag"
    /\ Goto(c, "idle")
    /\ UNCHANGED <<counters, elements, buf, history, users>>

\* A receiver that finds wt_ behind a committed element moves it on.
PopLoadFlag(c) ==
    /\ at[c].pc = "flag"
    /\ Goto(c, IF LoadFlag(c, IndexOf(at[c].flg)) = at[c].flg THEN "take" ELSE "idle")
    /\ UNCHANGED <<counters, elements, buf, history, users>>

PopTakeFlag(c) ==
    /\ at[c].pc = "take" /\ Fence(c)
    /\ \/ /\ f[IndexOf(at[c].flg)] = at[c].flg
          /\ f' = [f EXCEPT ![IndexOf(at[c].flg)] = NoFlag]
          /\ Goto(c, "move")
       \/ /\ f[IndexOf(at[c].flg)] # at[c].flg
          /\ Goto(c, "idle")
          /\ UNCHANGED f
    /\ UNCHANGED <<counters, data, buf, history, users>>

PopStoreWt(c) ==
    /\ at[c].pc = "move"
    /\ Store(c, <<"wt", Inc(at[c].flg)>>)
    /\ Goto(c, "idle")
    /\ UNCHANGED <<counters, elements, history, users>>

PopCopy(c) ==
    /\ at[c].pc \in {"copy1", "copy2"}
    /\ LET h == IF at[c].pc = "copy1" THEN 1 ELSE 2
       IN  at' = [at EXCEPT ![c].val[h] = data[IndexOf(at[c].cur)][h],
                            ![c].pc = IF h = 1 THEN "copy2" ELSE "claim"]
    /\ UNCHANGED <<counters, elements, buf, history, users>>

\* Mutant: the copy is taken without the exchange on rd_.
PopClaimedUnchecked(c) == TRUE

\* The exchange on rd_ decides whether the copy counts; the only receiver of
\* "ss" just adds one.  What was copied is an item, or the halves of two.
PopClaimed(c) == rd = at[c].cur \/ ~MultiConsumer

PopClaim(c) ==
    /\ at[c].pc = "claim" /\ Fence(c)
    /\ \/ /\ PopClaimed(c)
          /\ rd' = Inc(rd)
          /\ got' = [got EXCEPT ![c] = Append(@, IF at[c].val[1] = at[c].val[2] THEN at[c].val[1] ELSE at[c].val)]
       \/ /\ ~PopClaimed(c)
          /\ UNCHANGED <<rd, got>>
    /\ Goto(c, "idle")
    /\ UNCHANGED <<wt, ct, elements, buf, sent, users>>

Pop(c) ==
    \/ PopBegin(c) \/ PopLoadWt(c) \/ PopLoadFlag(c) \/ PopTakeFlag(c)
    \/ PopStoreWt(c) \/ PopCopy(c) \/ PopClaim(c)

Next ==
    \/ \E p \in Producers : Push(p) \/ ReadySending(p) \/ ShutSending(p)
    \/ \E c \in Consumers : Pop(c) \/ Connect(c) \/ Disconnect(c)
    \/ \E t \in Threads : Flush(t)

Spec == Init /\ [][Next]_vars

\* Every thread keeps running and calls again, and every store becomes visible.
Fairness ==
    /\ \A p \in Producers : WF_vars(Push(p)) /\ WF_vars(ReadySending(p)) /\ WF_vars(ShutSending(p))
    /\ \A c \in Consumers : WF_vars(Pop(c)) /\ WF_vars(Connect(c))
    /\ \A t \in Threads : WF_vars(Flush(t))

FairSpec == Spec /\ Fairness

-----------------------------------------------------------------------------
(***************************************************************************)
(* Properties.                                                             *)
(***************************************************************************)
Ahead(a, b) == (a - b) % Wrap

\* Where new places are taken, in all policies.
Tail_ == IF MultiProducer THEN ct ELSE wt

\* The place at counter c holds what its producer is still writing, or data.
Holds(c) ==
    IF \E p \in Producers : MultiProducer /\ at[p].pc \in {"write1", "write2"} /\ at[p].cur = c
    THEN Item(CHOOSE p \in Producers : at[p].pc \in {"write1", "write2"} /\ at[p].cur = c)
    ELSE data[IndexOf(c)][1]

Contents == [k \in 1 .. Ahead(Tail_, rd) |-> Holds((rd + k - 1) % Wrap)]

Fifo == INSTANCE ShmFifo WITH queue <- Contents, Capacity <- Size - 1

\* The ring is a first-in first-out queue of Size - 1 items: each item pushed
\* is popped at most once, by one receiver, whole, and in the order in which
\* the places were taken, whatever pushers and poppers do at the same time
\* (the exchanges on ct_ and rd_ and the commit flags of push and pop).
RefinesFifo == Fifo!FifoSpec

\* wt_ stays between rd_ and ct_, and no pusher is ever a whole ring ahead of
\* the readers, although push, its helpers and pop all move wt_ by plain
\* stores of values loaded earlier.
WtBetween ==
    /\ Ahead(Tail_, rd) < Size
    /\ MultiProducer => Ahead(wt, rd) <= Ahead(ct, rd)

\* No item is stranded in the ring: a place that was taken is read.  A pusher
\* that sees an old wt_ leaves its item committed and returns; pop must then
\* move wt_ over it.
EveryItemPopped ==
    <>[](\A p \in Producers : sent[p] = Quota(p) /\ Contents = <<>>)
=============================================================================
