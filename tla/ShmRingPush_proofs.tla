------------------------- MODULE ShmRingPush_proofs -------------------------
(***************************************************************************)
(* The inductive invariant of the shared-memory ring, the arithmetic of    *)
(* its counters, and that every step of push keeps the invariant.  Pop,    *)
(* the store buffers and the theorems are in ShmRing_proofs.               *)
(***************************************************************************)
EXTENDS ShmRing, TLAPS

\* How far a counter has come since the ring was made.
V(c) == IF Start <= c THEN c - Start ELSE c - Start + Wrap

\* The tail counter has not come back to where it started: fewer than Wrap
\* items were pushed.
NoLap == Tail_ = Start => \A p \in Producers : sent[p] = 0

Vals == {None} \cup (Producers \X Nat)

Pcs == {"idle", "room", "claim", "write1", "write2", "add", "commit", "help", "mine", "take",
        "move", "any", "flag", "copy1", "copy2"}

Locals == [pc : Pcs, cur : Counters, flg : Counters \cup {NoFlag}, val : [{1, 2} -> Vals]]

TypeOK ==
  /\ setup \in Setups
  /\ rd \in Counters /\ wt \in Counters /\ ct \in Counters
  /\ f \in [Slots -> Counters \cup {NoFlag}]
  /\ data \in [Slots -> [{1, 2} -> Vals]]
  /\ buf \in [Threads -> {None} \cup ({"wt", "f"} \X Counters)]
  /\ at \in [Threads -> Locals]
  /\ sent \in [Producers -> Nat]
  /\ sFlag \in BOOLEAN /\ rFlag \in BOOLEAN
  /\ role \in [Threads -> {"on", "off", "shut"}]

\* Where each thread can be: a pusher never where only a popper goes, and
\* with a single sender no one where the commit flags are used.
PcsOk ==
  /\ \A p \in Producers :
       at[p].pc \in IF MultiProducer
                    THEN {"idle", "room", "claim", "write1", "write2", "commit", "help", "mine", "take", "move"}
                    ELSE {"idle", "room", "write1", "write2", "add"}
  /\ \A c \in Consumers :
       at[c].pc \in IF MultiProducer
                    THEN {"idle", "any", "flag", "take", "move", "copy1", "copy2", "claim"}
                    ELSE {"idle", "any", "copy1", "copy2", "claim"}
  /\ ~MultiProducer => \A t \in Threads : buf[t] = None

\* The element whose commit flag a thread looks at, takes or has taken.
Target(t) == IF t \in Producers THEN at[t].cur ELSE at[t].flg

Writing == {"write1", "write2", "commit"}
Buffered(t, x) == buf[t] # None /\ buf[t][1] = x

\* Element k (counted with V) is in the hands of t: t is writing it, is about
\* to make its commit flag visible, has taken the flag, or is about to make
\* visible that wt_ has passed it.
Has(t, k) ==
  \/ at[t].pc \in Writing /\ k = V(at[t].cur)
  \/ Buffered(t, "f") /\ k = V(buf[t][2])
  \/ at[t].pc = "move" /\ k = V(Target(t))
  \/ Buffered(t, "wt") /\ k + 1 = V(buf[t][2])

Between ==
  /\ V(rd) <= V(wt) /\ V(wt) <= V(Tail_)
  /\ V(Tail_) < V(rd) + Size

Tokens ==
  MultiProducer =>
    /\ \A t \in Threads : at[t].pc \in Writing \cup {"move"} => buf[t] = None
    /\ \A t \in Threads : \A k \in Nat : Has(t, k) => V(wt) <= k /\ k < V(ct)
    /\ \A t, u \in Threads : \A k \in Nat : Has(t, k) /\ Has(u, k) => t = u
    /\ \A i \in Slots : f[i] # NoFlag => i = IndexOf(f[i]) /\ V(wt) <= V(f[i]) /\ V(f[i]) < V(ct)
    /\ \A i \in Slots : \A t \in Threads : f[i] # NoFlag => ~Has(t, V(f[i]))
    /\ \A t \in Threads : at[t].pc = "move" => Target(t) = wt
    /\ \A t \in Threads : Buffered(t, "wt") => V(buf[t][2]) = V(wt) + 1
    /\ \A t \in Threads :
         at[t].pc \in {"take", "flag"} =>
           Target(t) \in Counters /\ (V(Target(t)) <= V(wt) \/ buf[t] = <<"wt", Target(t)>>)
    /\ \A p \in Producers : at[p].pc = "take" => at[p].flg = at[p].cur

RoomAt(p) ==
  /\ MultiProducer /\ at[p].pc \in {"room", "claim"} => V(at[p].cur) <= V(ct)
  /\ MultiProducer /\ at[p].pc = "claim" /\ at[p].cur = ct /\ Inc(ct) # Start =>
       V(ct) + 1 < V(rd) + Size
  /\ ~MultiProducer /\ at[p].pc # "idle" => at[p].cur = wt
  /\ ~MultiProducer /\ at[p].pc \in {"write1", "write2", "add"} /\ Inc(wt) # Start =>
       V(wt) + 1 < V(rd) + Size

Room == \A p \in Producers : RoomAt(p)

Written(k) == \A p \in Producers : at[p].pc \in {"write1", "write2"} => at[p].cur # k

Whole ==
  /\ \A k \in Counters :
       V(rd) <= V(k) /\ V(k) < V(Tail_) /\ Written(k) => data[IndexOf(k)][1] = data[IndexOf(k)][2]
  /\ \A p \in Producers : at[p].pc \in {"write2", "add"} => data[IndexOf(at[p].cur)][1] = Item(p)
  /\ \A p \in Producers : at[p].pc = "add" => data[IndexOf(at[p].cur)][2] = Item(p)

Copied ==
  /\ \A c \in Consumers : at[c].pc \in {"any", "copy1", "copy2", "claim"} => V(at[c].cur) <= V(rd)
  /\ \A c \in Consumers :
       at[c].pc \in {"copy1", "copy2", "claim"} /\ at[c].cur = rd =>
         V(rd) < V(wt) \/ (Buffered(c, "wt") /\ V(rd) < V(buf[c][2]))
  /\ \A c \in Consumers :
       at[c].pc \in {"copy2", "claim"} /\ at[c].cur = rd => at[c].val[1] = data[IndexOf(rd)][1]
  /\ \A c \in Consumers :
       at[c].pc = "claim" /\ at[c].cur = rd => at[c].val[2] = data[IndexOf(rd)][2]

Alone ==
  /\ \A t \in Threads : at[t].pc # "idle" => role[t] = "on"
  /\ ~MultiProducer => /\ \A p \in Producers : role[p] = "on" => sFlag
                       /\ \A p, q \in Producers : role[p] = "on" /\ role[q] = "on" => p = q
  /\ ~MultiConsumer => /\ \A c \in Consumers : role[c] = "on" => rFlag
                       /\ \A c, d \in Consumers : role[c] = "on" /\ role[d] = "on" => c = d
                       /\ \A c \in Consumers : at[c].pc # "idle" => at[c].cur = rd

RingInv == PcsOk /\ Between /\ Tokens /\ Room /\ Whole /\ Copied /\ Alone

-----------------------------------------------------------------------------
(* Arithmetic of the counters. *)

LEMMA ModUnique ==
  ASSUME NEW n \in Nat \ {0}, NEW q \in Int, NEW r \in 0 .. n - 1
  PROVE  (q * n + r) % n = r
  OBVIOUS

LEMMA ModShape ==
  ASSUME NEW n \in Nat \ {0}, NEW a \in Int
  PROVE  \E q \in Int : a = q * n + (a % n) /\ a % n \in 0 .. n - 1
<1>1. a \div n \in Int
  OBVIOUS
<1>2. a = (a \div n) * n + (a % n)
  OBVIOUS
<1>3. a % n \in 0 .. n - 1
  OBVIOUS
<1> QED
  BY <1>1, <1>2, <1>3, Zenon

LEMMA WrapMod ==
  ASSUME NEW a \in Int
  PROVE  /\ 0 <= a /\ a < Wrap => a % Wrap = a
         /\ Wrap <= a /\ a < 2 * Wrap => a % Wrap = a - Wrap
         /\ a < 0 /\ 0 <= a + Wrap => a % Wrap = a + Wrap
  BY RingAssumption

\* Numbers less than Size apart have different indices.
LEMMA IndexNear ==
  ASSUME NEW a \in Int, NEW b \in Int, a <= b, b < a + Size, a % Size = b % Size
  PROVE  a = b
<1>1. PICK n \in Nat \ {0} : n = Size
  BY RingAssumption, Zenon
<1>2. PICK q \in Int : a = q * n + (a % n) /\ a % n \in 0 .. n - 1
  BY <1>1, ModShape, Zenon
<1>3. PICK u \in Int : b = u * n + (b % n) /\ b % n \in 0 .. n - 1
  BY <1>1, ModShape, Zenon
<1>4. PICK d \in Int : d = u - q
  OBVIOUS
<1>5. b - a = d * n
  BY <1>1, <1>2, <1>3, <1>4
<1>6. CASE d >= 1
  <2>1. d * n >= n
    BY <1>6
  <2> QED
    BY <1>1, <1>5, <2>1
<1>7. CASE d <= 0
  <2>1. d * n <= 0
    BY <1>7
  <2> QED
    BY <1>5, <2>1
<1> QED
  BY <1>6, <1>7

\* A multiple of Size away the index is the same.
LEMMA IndexLap ==
  ASSUME NEW a \in Int, NEW m \in Int
  PROVE  (a + m * Size) % Size = a % Size
<1>1. PICK n \in Nat \ {0} : n = Size
  BY RingAssumption, Zenon
<1>2. PICK q \in Int : a = q * n + (a % n) /\ a % n \in 0 .. n - 1
  BY <1>1, ModShape, Zenon
<1>3. PICK r \in 0 .. n - 1 : r = a % n
  BY <1>2, Zenon
<1>4. a + m * n = (q + m) * n + r
  BY <1>2, <1>3
<1>5. ((q + m) * n + r) % n = r
  BY ModUnique
<1> QED
  BY <1>1, <1>3, <1>4, <1>5, Zenon

LEMMA IndexWrap ==
  ASSUME NEW a \in Int
  PROVE  (a - Wrap) % Size = a % Size /\ (a + Wrap) % Size = a % Size
<1>0. PICK n \in Nat \ {0}, w \in Int : n = Size /\ w = Wrap /\ w % n = 0
  BY RingAssumption
<1>1. PICK m \in Int : w = m * n + (w % n)
  BY ModShape, Zenon
<1>2. Wrap = m * Size
  BY <1>0, <1>1
<1>3. PICK k \in Int : k = -m
  OBVIOUS
<1>4. a - Wrap = a + k * Size
  BY <1>2, <1>3, RingAssumption
<1>5. (a + m * Size) % Size = a % Size /\ (a + k * Size) % Size = a % Size
  BY IndexLap, Zenon
<1> QED
  BY <1>2, <1>4, <1>5, Zenon

\* V counts from 0 in steps of one, and tells the counters apart.
LEMMA VType ==
  /\ Start \in Counters /\ V(Start) = 0
  /\ \A c \in Counters : V(c) \in Nat /\ V(c) < Wrap
  /\ \A c, d \in Counters : V(c) = V(d) => c = d
  BY RingAssumption DEF V, Counters

LEMMA VAdd ==
  ASSUME NEW c \in Counters, NEW k \in Nat, V(c) + k < Wrap
  PROVE  (c + k) % Wrap \in Counters /\ V((c + k) % Wrap) = V(c) + k
<1>1. c + k < 2 * Wrap /\ c + k \in Nat
  BY RingAssumption DEF V, Counters
<1>2. (c + k) % Wrap = IF c + k < Wrap THEN c + k ELSE c + k - Wrap
  <2>1. c \in Nat /\ k \in Nat /\ Wrap \in Nat
    BY RingAssumption DEF Counters
  <2>2. ASSUME NEW x \in Nat, x < 2 * Wrap PROVE x % Wrap = IF x < Wrap THEN x ELSE x - Wrap
    BY <2>1, <2>2, WrapMod
  <2> QED
    BY <1>1, <2>1, <2>2
<1> QED
  BY <1>1, <1>2, RingAssumption DEF V, Counters

LEMMA VInc ==
  ASSUME NEW c \in Counters
  PROVE  /\ Inc(c) \in Counters
         /\ Inc(c) # Start => V(Inc(c)) = V(c) + 1
         /\ V(c) + 1 < Wrap => V(Inc(c)) = V(c) + 1
<1>1. (c + 1) % Wrap = IF c + 1 < Wrap THEN c + 1 ELSE c + 1 - Wrap
  BY WrapMod, RingAssumption DEF Counters
<1> QED
  BY <1>1, RingAssumption DEF V, Counters, Inc

LEMMA AheadV ==
  ASSUME NEW c \in Counters, NEW d \in Counters, V(d) <= V(c)
  PROVE  Ahead(c, d) = V(c) - V(d)
<1>1. (c - d) % Wrap = IF d <= c THEN c - d ELSE c - d + Wrap
  BY WrapMod, RingAssumption DEF Counters
<1> QED
  BY <1>1, RingAssumption DEF V, Counters, Ahead

\* Elements of the ring less than Size apart do not share a slot.
LEMMA SlotApart ==
  ASSUME NEW c \in Counters, NEW d \in Counters, V(c) < V(d), V(d) < V(c) + Size
  PROVE  IndexOf(c) # IndexOf(d)
<1> SUFFICES ASSUME IndexOf(c) = IndexOf(d) PROVE FALSE
  BY Zenon
<1>1. c \in Int /\ d \in Int
  BY RingAssumption DEF Counters
<1>2. CASE c <= d /\ d < c + Size
  BY <1>1, <1>2, IndexNear, VType DEF IndexOf
<1>3. CASE ~(c <= d /\ d < c + Size)
  <2>1. PICK e \in Int : e = d + Wrap
    BY <1>1, RingAssumption
  <2>2. c <= e /\ e < c + Size /\ c # e
    BY <1>1, <1>3, <2>1, RingAssumption DEF V, Counters
  <2>3. e % Size = d % Size
    BY <1>1, <2>1, IndexWrap, Zenon
  <2> QED
    BY <1>1, <2>1, <2>2, <2>3, IndexNear, Zenon DEF IndexOf
<1> QED
  BY <1>2, <1>3, Zenon

LEMMA SlotType ==
  ASSUME NEW c \in Counters
  PROVE  IndexOf(c) \in Slots
<1>1. c \in Int /\ Size \in Nat \ {0}
  BY RingAssumption DEF Counters
<1>2. c % Size \in 0 .. Size - 1
  BY <1>1, ModShape, Zenon
<1> QED
  BY <1>2, Zenon DEF IndexOf, Slots

\* A whole ring further the slot is the same.
LEMMA SlotLap ==
  ASSUME NEW c \in Counters, NEW d \in Counters, V(d) = V(c) + Size
  PROVE  IndexOf(c) = IndexOf(d)
<1>1. c \in Int /\ d \in Int
  BY RingAssumption DEF Counters
<1>2. (c + 1 * Size) % Size = c % Size
  BY <1>1, IndexLap
<1>3. d = c + 1 * Size \/ d + Wrap = c + 1 * Size
  BY <1>1, RingAssumption DEF V, Counters
<1>4. (d + Wrap) % Size = d % Size
  BY <1>1, IndexWrap, Zenon
<1> QED
  BY <1>2, <1>3, <1>4, Zenon DEF IndexOf


-----------------------------------------------------------------------------
(* Types. *)

LEMMA IdleType == Idle \in Locals
<1>1. 0 \in Counters
  BY RingAssumption DEF Counters
<1>2. <<None, None>> \in [{1, 2} -> Vals]
  BY DEF Vals
<1> QED
  BY <1>1, <1>2, Zenon DEF Idle, Locals, Pcs

\* Goto changes the place of one thread.
LEMMA GotoIs ==
  ASSUME TypeOK, NEW t \in Threads, NEW l \in Pcs, Goto(t, l)
  PROVE  /\ at' \in [Threads -> Locals]
         /\ \A u \in Threads \ {t} : at'[u] = at[u]
         /\ at'[t].pc = l
         /\ l # "idle" => at'[t].cur = at[t].cur /\ at'[t].flg = at[t].flg /\ at'[t].val = at[t].val
<1>1. at[t] \in Locals /\ at \in [Threads -> Locals]
  BY Zenon DEF TypeOK
<1>2. PICK r : r = (IF l = "idle" THEN Idle ELSE [at[t] EXCEPT !.pc = l])
  BY ZenonT(30)
<1>3. at' = [at EXCEPT ![t] = r]
  BY <1>2, Zenon DEF Goto
<1>4. /\ r \in Locals
      /\ r.pc = l
      /\ l # "idle" => r.cur = at[t].cur /\ r.flg = at[t].flg /\ r.val = at[t].val
  <2>1. CASE l = "idle"
    BY <1>2, <2>1, IdleType, Zenon DEF Idle
  <2>2. CASE l # "idle"
    BY <1>1, <1>2, <2>2, Zenon DEF Locals
  <2> QED
    BY <2>1, <2>2, Zenon
<1> QED
  BY <1>1, <1>3, <1>4, Zenon

LEMMA PushType ==
  ASSUME TypeOK, NEW p \in Producers, Push(p)
  PROVE  TypeOK'
<1> USE DEF counters, elements, users, history
<1>0. p \in Threads /\ at[p] \in Locals /\ at \in [Threads -> Locals]
  BY Zenon DEF TypeOK, Threads
<1>1. CASE PushBegin(p)
  <2>1. at' \in [Threads -> Locals]
    BY <1>0, <1>1, Zenon DEF PushBegin, Locals, Pcs, TypeOK
  <2> QED
    BY <1>1, <2>1, Zenon DEF PushBegin, TypeOK
<1>2. CASE PushCheck(p)
  <2>1. at' \in [Threads -> Locals]
    BY <1>0, <1>2, GotoIs, Zenon DEF PushCheck, Pcs
  <2> QED
    BY <1>2, <2>1, Zenon DEF PushCheck, TypeOK
<1>3. CASE PushClaim(p)
  <2>1. at' \in [Threads -> Locals]
    BY <1>0, <1>3, GotoIs, Zenon DEF PushClaim, Pcs
  <2>2. ct' \in Counters /\ sent' \in [Producers -> Nat]
    BY <1>3, VInc DEF PushClaim, TypeOK
  <2> QED
    BY <1>3, <2>1, <2>2, Zenon DEF PushClaim, TypeOK
<1>4. CASE PushWrite(p)
  <2>1. at' \in [Threads -> Locals]
    BY <1>0, <1>4, GotoIs, Zenon DEF PushWrite, Pcs
  <2>2. data' \in [Slots -> [{1, 2} -> Vals]]
    <3>1. IndexOf(at[p].cur) \in Slots
      BY <1>0, SlotType, Zenon DEF Locals
    <3>2. Item(p) \in Vals
      BY DEF Item, Vals, TypeOK
    <3> QED
      BY <1>4, <3>1, <3>2, Zenon DEF PushWrite, TypeOK
  <2> QED
    BY <1>4, <2>1, <2>2, Zenon DEF PushWrite, TypeOK
<1>5. CASE PushAdd(p)
  <2>1. at' \in [Threads -> Locals]
    BY <1>0, <1>5, GotoIs, Zenon DEF PushAdd, Pcs
  <2>2. wt' \in Counters /\ sent' \in [Producers -> Nat]
    BY <1>5, VInc DEF PushAdd, TypeOK
  <2> QED
    BY <1>5, <2>1, <2>2, Zenon DEF PushAdd, TypeOK
<1>6. CASE PushCommit(p)
  <2>1. at' \in [Threads -> Locals]
    BY <1>0, <1>6, GotoIs, Zenon DEF PushCommit, Pcs
  <2>2. at[p].cur \in Counters
    BY <1>0, Zenon DEF Locals
  <2> QED
    BY <1>6, <2>1, <2>2, Zenon DEF PushCommit, TypeOK, Store
<1>7. CASE PushLoadFlag(p)
  <2>1. LoadFlag(p, IndexOf(at[p].cur)) \in Counters \cup {NoFlag}
    <3>1. IndexOf(at[p].cur) \in Slots
      BY <1>0, SlotType, Zenon DEF Locals
    <3>2. buf[p] # None => buf[p][2] \in Counters
      BY <1>0, Zenon DEF TypeOK
    <3> QED
      BY <3>1, <3>2, Zenon DEF LoadFlag, TypeOK
  <2>2. at' \in [Threads -> Locals]
    BY <1>0, <1>7, <2>1, Zenon DEF PushLoadFlag, Locals, Pcs
  <2> QED
    BY <1>7, <2>2, Zenon DEF PushLoadFlag, TypeOK
<1>8. CASE PushLoadWt(p)
  <2>1. at' \in [Threads -> Locals]
    BY <1>0, <1>8, GotoIs, Zenon DEF PushLoadWt, Pcs
  <2> QED
    BY <1>8, <2>1, Zenon DEF PushLoadWt, TypeOK
<1>9. CASE PushTakeFlag(p)
  <2>1. at' \in [Threads -> Locals]
    BY <1>0, <1>9, GotoIs, Zenon DEF PushTakeFlag, Pcs
  <2> QED
    BY <1>9, <2>1, Zenon DEF PushTakeFlag, TypeOK
<1>10. CASE PushStoreWt(p)
  <2>1. Inc(at[p].cur) \in Counters
    BY <1>0, VInc, Zenon DEF Locals
  <2>2. at' \in [Threads -> Locals]
    BY <1>0, <1>10, <2>1, Zenon DEF PushStoreWt, Locals, Pcs
  <2> QED
    BY <1>10, <2>1, <2>2, Zenon DEF PushStoreWt, TypeOK, Store
<1> QED
  BY <1>1, <1>2, <1>3, <1>4, <1>5, <1>6, <1>7, <1>8, <1>9, <1>10, Zenon DEF Push

LEMMA LoadWtType ==
  ASSUME TypeOK, NEW t \in Threads
  PROVE  LoadWt(t) \in Counters
  BY Zenon DEF LoadWt, TypeOK

LEMMA PopType ==
  ASSUME TypeOK, NEW c \in Consumers, Pop(c)
  PROVE  TypeOK'
<1> USE DEF counters, elements, users, history
<1>0. c \in Threads /\ at[c] \in Locals /\ at \in [Threads -> Locals]
  BY Zenon DEF TypeOK, Threads
<1>1. CASE PopBegin(c)
  <2>1. at' \in [Threads -> Locals]
    BY <1>0, <1>1, Zenon DEF PopBegin, Locals, Pcs, TypeOK
  <2> QED
    BY <1>1, <2>1, Zenon DEF PopBegin, TypeOK
<1>2. CASE PopLoadWt(c)
  <2>1. at' \in [Threads -> Locals]
    <3>1. CASE Goto(c, "copy1") \/ Goto(c, "idle")
      BY <1>0, <3>1, GotoIs, Zenon DEF Pcs
    <3>2. CASE at' = [at EXCEPT ![c].pc = "flag", ![c].flg = LoadWt(c)]
      BY <1>0, <3>2, LoadWtType, Zenon DEF Locals, Pcs
    <3> QED
      BY <1>2, <3>1, <3>2, Zenon DEF PopLoadWt
  <2> QED
    BY <1>2, <2>1, Zenon DEF PopLoadWt, TypeOK
<1>3. CASE PopLoadFlag(c)
  <2>1. at' \in [Threads -> Locals]
    BY <1>0, <1>3, GotoIs, Zenon DEF PopLoadFlag, Pcs
  <2> QED
    BY <1>3, <2>1, Zenon DEF PopLoadFlag, TypeOK
<1>4. CASE PopTakeFlag(c)
  <2>1. at' \in [Threads -> Locals]
    BY <1>0, <1>4, GotoIs, Zenon DEF PopTakeFlag, Pcs
  <2> QED
    BY <1>4, <2>1, Zenon DEF PopTakeFlag, TypeOK
<1>5. CASE PopStoreWt(c)
  <2>1. at' \in [Threads -> Locals]
    BY <1>0, <1>5, GotoIs, Zenon DEF PopStoreWt, Pcs
  <2>2. Inc(at[c].flg) \in Counters
    <3>1. PICK x \in Int : x = at[c].flg + 1
      BY <1>0, RingAssumption DEF Locals, Counters, NoFlag
    <3>2. x % Wrap \in 0 .. Wrap - 1
      BY RingAssumption, ModShape
    <3> QED
      BY <3>1, <3>2, Zenon DEF Inc, Counters
  <2> QED
    BY <1>5, <2>1, <2>2, Zenon DEF PopStoreWt, TypeOK, Store
<1>6. CASE PopCopy(c)
  <2>1. data[IndexOf(at[c].cur)] \in [{1, 2} -> Vals]
    BY <1>0, SlotType, Zenon DEF Locals, TypeOK
  <2>2. at' \in [Threads -> Locals]
    BY <1>0, <1>6, <2>1, Zenon DEF PopCopy, Locals, Pcs
  <2> QED
    BY <1>6, <2>2, Zenon DEF PopCopy, TypeOK
<1>7. CASE PopClaim(c)
  <2>1. at' \in [Threads -> Locals]
    BY <1>0, <1>7, GotoIs, Zenon DEF PopClaim, Pcs
  <2>2. rd' \in Counters
    BY <1>7, VInc, Zenon DEF PopClaim, TypeOK
  <2> QED
    BY <1>7, <2>1, <2>2, Zenon DEF PopClaim, TypeOK
<1> QED
  BY <1>1, <1>2, <1>3, <1>4, <1>5, <1>6, <1>7, Zenon DEF Pop

LEMMA AdmitType ==
  ASSUME TypeOK, NEW t \in Threads, ReadySending(t) \/ ShutSending(t) \/ Connect(t) \/ Disconnect(t) \/ Flush(t)
  PROVE  TypeOK'
<1> USE DEF counters, elements, users, history
<1>1. CASE Flush(t)
  <2>1. buf[t][2] \in Counters
    BY <1>1, Zenon DEF Flush, TypeOK
  <2> QED
    BY <1>1, <2>1, Zenon DEF Flush, TypeOK, Store
<1>2. CASE ReadySending(t) \/ ShutSending(t) \/ Connect(t) \/ Disconnect(t)
  BY <1>2, Zenon DEF ReadySending, ShutSending, Connect, Disconnect, TypeOK
<1> QED
  BY <1>1, <1>2, Zenon

-----------------------------------------------------------------------------
(* What keeps each part of the invariant. *)

\* t may let go of an element, or hold what it held in another way.
LEMMA TokensFrame ==
  ASSUME TypeOK, TypeOK', Between, Tokens, UNCHANGED <<setup, wt, f>>, NEW t \in Threads,
         \A u \in Threads \ {t} : at'[u] = at[u] /\ buf'[u] = buf[u],
         V(ct) <= V(ct'),
         MultiProducer => /\ \A k \in Nat : Has(t, k)' => Has(t, k) \/ (k = V(ct) /\ V(ct) < V(ct'))
                          /\ at'[t].pc \in Writing \cup {"move"} => buf'[t] = None
                          /\ at'[t].pc = "move" => Target(t)' = wt
                          /\ Buffered(t, "wt")' => V(buf'[t][2]) = V(wt) + 1
                          /\ at'[t].pc \in {"take", "flag"} =>
                               /\ Target(t)' \in Counters
                               /\ V(Target(t)') <= V(wt) \/ buf'[t] = <<"wt", Target(t)'>>
                          /\ t \in Producers /\ at'[t].pc = "take" => at'[t].flg = at'[t].cur
  PROVE  Tokens'
<1> SUFFICES ASSUME MultiProducer PROVE Tokens'
  BY Zenon DEF Tokens, MultiProducer
<1>1. \A u \in Threads \ {t} : /\ \A k \in Nat : Has(u, k)' <=> Has(u, k)
                               /\ Target(u)' = Target(u)
                               /\ \A x : Buffered(u, x)' <=> Buffered(u, x)
  BY DEF Has, Target, Buffered, V
<1>2. \A u \in Threads : \A k \in Nat :
        Has(u, k)' => Has(u, k) \/ (u = t /\ k = V(ct) /\ V(ct) < V(ct'))
  BY <1>1, Zenon
<1>3. \A u \in Threads : at'[u].pc \in Writing \cup {"move"} => buf'[u] = None
  BY Zenon DEF Tokens
<1>0. V(wt) \in Nat /\ V(ct) \in Nat /\ V(ct') \in Nat /\ V(wt) <= V(ct)
  BY VType, Zenon DEF TypeOK, Between, Tail_
<1>4. \A u \in Threads : \A k \in Nat : Has(u, k)' => V(wt) <= k /\ k < V(ct')
  <2>1. \A u \in Threads : \A k \in Nat : Has(u, k) => V(wt) <= k /\ k < V(ct)
    BY Zenon DEF Tokens
  <2> QED
    BY <1>0, <1>2, <2>1
<1>5. \A u, x \in Threads : \A k \in Nat : Has(u, k)' /\ Has(x, k)' => u = x
  <2>1. \A u \in Threads : \A k \in Nat : Has(u, k) => k < V(ct)
    BY Zenon DEF Tokens
  <2>2. \A u \in Threads : ~Has(u, V(ct))
    BY <1>0, <2>1
  <2>3. \A u, x \in Threads : \A k \in Nat : Has(u, k) /\ Has(x, k) => u = x
    BY Zenon DEF Tokens
  <2> QED
    BY <1>2, <2>2, <2>3, Zenon
<1>6. \A i \in Slots : f[i] # NoFlag =>
        /\ i = IndexOf(f[i]) /\ V(wt) <= V(f[i]) /\ V(f[i]) < V(ct')
        /\ \A u \in Threads : ~Has(u, V(f[i]))'
  <2> SUFFICES ASSUME NEW i \in Slots, f[i] # NoFlag
               PROVE  /\ i = IndexOf(f[i]) /\ V(wt) <= V(f[i]) /\ V(f[i]) < V(ct')
                      /\ \A u \in Threads : ~Has(u, V(f[i]))'
    BY Zenon
  <2>1. f[i] \in Counters
    BY Zenon DEF TypeOK
  <2>2. V(f[i]) \in Nat
    BY <2>1, VType, Zenon
  <2>3. V(f[i])' = V(f[i])
    BY Zenon DEF V
  <2>4. i = IndexOf(f[i]) /\ V(wt) <= V(f[i]) /\ V(f[i]) < V(ct) /\ \A u \in Threads : ~Has(u, V(f[i]))
    BY Zenon DEF Tokens
  <2>5. V(f[i]) # V(ct)
    BY <1>0, <2>2, <2>4
  <2>6. \A u \in Threads : ~Has(u, V(f[i]))'
    BY <1>2, <2>2, <2>3, <2>4, <2>5, Zenon
  <2> QED
    BY <1>0, <2>2, <2>4, <2>6
<1>7. \A u \in Threads : at'[u].pc = "move" => Target(u)' = wt
  BY <1>1, Zenon DEF Tokens
<1>8. \A u \in Threads : Buffered(u, "wt")' => V(buf'[u][2]) = V(wt) + 1
  BY <1>1 DEF Tokens
<1>9. \A u \in Threads : at'[u].pc \in {"take", "flag"} =>
        Target(u)' \in Counters /\ (V(Target(u)') <= V(wt) \/ buf'[u] = <<"wt", Target(u)'>>)
  BY <1>1 DEF Tokens
<1>10. \A p \in Producers : at'[p].pc = "take" => at'[p].flg = at'[p].cur
  BY Zenon DEF Tokens, Threads
<1> QED
  BY <1>3, <1>4, <1>5, <1>6, <1>7, <1>8, <1>9, <1>10, Zenon DEF Tokens, V, IndexOf

LEMMA WholeFrame ==
  ASSUME Whole, UNCHANGED <<setup, rd, wt, ct, data, sent>>,
         \A p \in Producers : at[p].pc \in {"write1", "write2"} => at'[p] = at[p],
         \A p \in Producers : at'[p].pc \in {"write2", "add"} => at'[p] = at[p]
  PROVE  Whole'
<1>1. Tail_' = Tail_
  BY Zenon DEF Tail_, MultiProducer
<1>2. \A k : Written(k)' => Written(k)
  BY Zenon DEF Written
<1>3. \A p \in Producers : Item(p)' = Item(p)
  BY Zenon DEF Item, MultiProducer
<1> QED
  BY <1>1, <1>2, <1>3 DEF Whole, V

LEMMA RoomFrame ==
  ASSUME Room, UNCHANGED <<setup, rd, wt, ct>>, \A p \in Producers : at'[p] = at[p]
  PROVE  Room'
  BY Zenon DEF Room, RoomAt, MultiProducer, V, Inc

LEMMA CopiedFrame ==
  ASSUME Copied, UNCHANGED <<rd, wt, data>>,
         \A c \in Consumers : at'[c] = at[c] /\ buf'[c] = buf[c]
  PROVE  Copied'
  BY DEF Copied, Buffered, V

LEMMA BetweenFrame ==
  ASSUME Between, UNCHANGED <<setup, rd, wt, ct>>
  PROVE  Between'
  BY Zenon DEF Between, Tail_, MultiProducer, V

LEMMA AloneFrame ==
  ASSUME Alone, UNCHANGED <<setup, sFlag, rFlag, role>>, NEW t \in Threads, role[t] = "on",
         \A u \in Threads \ {t} : at'[u] = at[u],
         ~MultiConsumer => rd' = rd /\ (t \in Consumers /\ at'[t].pc # "idle" => at'[t].cur = rd)
  PROVE  Alone'
<1>1. \A u \in Threads : at'[u].pc # "idle" => role'[u] = "on"
  BY Zenon DEF Alone
<1>2. Producers \subseteq Threads /\ Consumers \subseteq Threads
  BY Zenon DEF Threads
<1>3. ~MultiConsumer => \A c \in Consumers : at'[c].pc # "idle" => at'[c].cur = rd'
  BY <1>2, Zenon DEF Alone
<1>4. (MultiProducer' <=> MultiProducer) /\ (MultiConsumer' <=> MultiConsumer)
  BY Zenon DEF MultiProducer, MultiConsumer
<1> QED
  BY <1>1, <1>3, <1>4, Zenon DEF Alone

LEMMA PcsFrame ==
  ASSUME PcsOk, UNCHANGED setup, NEW t \in Threads,
         \A u \in Threads \ {t} : at'[u] = at[u] /\ buf'[u] = buf[u],
         ~MultiProducer => buf'[t] = None,
         t \in Producers =>
           at'[t].pc \in IF MultiProducer
                         THEN {"idle", "room", "claim", "write1", "write2", "commit", "help", "mine", "take", "move"}
                         ELSE {"idle", "room", "write1", "write2", "add"},
         t \in Consumers =>
           at'[t].pc \in IF MultiProducer
                         THEN {"idle", "any", "flag", "take", "move", "copy1", "copy2", "claim"}
                         ELSE {"idle", "any", "copy1", "copy2", "claim"}
  PROVE  PcsOk'
<1>1. Producers \subseteq Threads /\ Consumers \subseteq Threads
  BY Zenon DEF Threads
<1>2. MultiProducer' <=> MultiProducer
  BY Zenon DEF MultiProducer
<1> QED
  BY <1>1, <1>2, Zenon DEF PcsOk

-----------------------------------------------------------------------------
(* The steps of push. *)

\* A step of push that leaves the counters, the flags and the data alone.
LEMMA PushQuiet ==
  ASSUME TypeOK, TypeOK', RingInv, NEW p \in Producers,
         \A u \in Threads \ {p} : at'[u] = at[u] /\ buf'[u] = buf[u],
         UNCHANGED <<setup, rd, wt, ct, f, data, sent, sFlag, rFlag, role>>,
         role[p] = "on",
         at[p].pc \notin {"write1", "write2"}, at'[p].pc \notin {"write2", "add"},
         at'[p].pc \in IF MultiProducer
                       THEN {"idle", "room", "claim", "write1", "write2", "commit", "help", "mine", "take", "move"}
                       ELSE {"idle", "room", "write1", "write2", "add"},
         ~MultiProducer => buf'[p] = None,
         MultiProducer => /\ \A k \in Nat : Has(p, k)' => Has(p, k)
                          /\ at'[p].pc \in Writing \cup {"move"} => buf'[p] = None
                          /\ at'[p].pc = "move" => at'[p].cur = wt
                          /\ Buffered(p, "wt")' => V(buf'[p][2]) = V(wt) + 1
                          /\ at'[p].pc = "take" =>
                               /\ V(at'[p].cur) <= V(wt) \/ buf'[p] = <<"wt", at'[p].cur>>
                               /\ at'[p].flg = at'[p].cur,
         RoomAt(p)'
  PROVE  RingInv'
<1>0. p \in Threads /\ p \notin Consumers /\ at'[p] \in Locals
  BY RingAssumption, Zenon DEF TypeOK, Threads
<1>2. V(ct) <= V(ct') /\ V(ct) \in Nat
  BY VType DEF TypeOK, V
<1>3. \A q \in Producers \ {p} : q \in Threads \ {p} /\ at'[q] = at[q]
  BY Zenon DEF Threads
<1>4. \A c \in Consumers : c \in Threads \ {p} /\ at'[c] = at[c] /\ buf'[c] = buf[c]
  BY <1>0, Zenon DEF Threads
<1>5. PcsOk'
  BY <1>0, PcsFrame, Zenon DEF RingInv
<1>6. Between'
  BY BetweenFrame, Zenon DEF RingInv
<1>7. Tokens'
  <2>1. Target(p)' = at'[p].cur /\ Target(p)' \in Counters
    BY <1>0, Zenon DEF Target, Locals
  <2>2. MultiProducer => at'[p].pc # "flag"
    BY Zenon
  <2> QED
    BY <1>0, <1>2, <2>1, <2>2, TokensFrame, Zenon DEF RingInv
<1>8. Room'
  <2>1. \A q \in Producers \ {p} : RoomAt(q)'
    BY <1>3, ZenonT(40) DEF RingInv, Room, RoomAt, MultiProducer, V, Inc
  <2> QED
    BY <2>1, Zenon DEF Room
<1>9. Whole'
  <2>1. \A q \in Producers : at[q].pc \in {"write1", "write2"} => at'[q] = at[q]
    BY <1>3, Zenon
  <2>2. \A q \in Producers : at'[q].pc \in {"write2", "add"} => at'[q] = at[q]
    BY <1>3, Zenon
  <2> QED
    BY <2>1, <2>2, WholeFrame, Zenon DEF RingInv
<1>10. Copied'
  BY <1>4, CopiedFrame, Zenon DEF RingInv
<1>11. Alone'
  BY <1>0, AloneFrame, Zenon DEF RingInv
<1> QED
  BY <1>5, <1>6, <1>7, <1>8, <1>9, <1>10, <1>11, Zenon DEF RingInv

LEMMA PushBeginInv ==
  ASSUME TypeOK, TypeOK', RingInv, NEW p \in Producers, PushBegin(p)
  PROVE  RingInv'
<1> USE DEF counters, elements, users, history
<1>0. p \in Threads /\ at[p] \in Locals /\ at \in [Threads -> Locals]
  BY Zenon DEF TypeOK, Threads
<1>1. /\ \A u \in Threads \ {p} : at'[u] = at[u] /\ buf'[u] = buf[u]
      /\ at'[p].pc = "room" /\ at'[p].cur = (IF MultiProducer THEN ct ELSE wt)
      /\ at[p].pc = "idle" /\ role[p] = "on"
      /\ UNCHANGED <<setup, rd, wt, ct, f, data, buf, sent, sFlag, rFlag, role>>
  BY <1>0, Zenon DEF PushBegin, Locals
<1>2. \A k \in Nat : Has(p, k)' => Has(p, k)
  BY <1>1, Zenon DEF Has, Writing, Buffered, Target, V
<1>3. MultiProducer /\ Buffered(p, "wt")' => V(buf'[p][2]) = V(wt) + 1
  BY <1>0, <1>1, Zenon DEF RingInv, Tokens, Buffered
<1>4. ~MultiProducer => buf'[p] = None
  BY <1>0, <1>1, Zenon DEF RingInv, PcsOk
<1>5. RoomAt(p)'
  <2>1. V(ct) \in Nat
    BY VType, Zenon DEF TypeOK
  <2> QED
    BY <1>1, <2>1 DEF RoomAt, MultiProducer, V
<1> QED
  BY <1>1, <1>2, <1>3, <1>4, <1>5, PushQuiet, Zenon DEF Writing

\* The test of a single sender: one place before rd_ is one place short of a
\* whole ring after it.
LEMMA SlotBefore ==
  ASSUME NEW c \in Counters, NEW d \in Counters, V(d) + 1 = V(c) + Size
  PROVE  IndexOf(d) = IndexOf((c - 1) % Wrap)
<1>1. c \in Int /\ d \in Int /\ Size \in Int /\ Wrap \in Int
  BY RingAssumption DEF Counters
<1>2. PICK b \in Int : b = c - 1
  BY <1>1
<1>3. (b + 1 * Size) % Size = b % Size
  BY <1>2, IndexLap
<1>4. d = b + 1 * Size \/ d + Wrap = b + 1 * Size
  BY <1>1, <1>2, RingAssumption DEF V, Counters
<1>5. (d + Wrap) % Size = d % Size /\ (b + Wrap) % Size = b % Size
  BY <1>1, <1>2, IndexWrap, Zenon
<1>6. b % Wrap = b \/ b % Wrap = b + Wrap
  BY <1>1, <1>2, WrapMod, RingAssumption DEF Counters
<1>7. d % Size = b % Size
  BY <1>3, <1>4, <1>5, Zenon
<1>8. (b % Wrap) % Size = b % Size
  BY <1>5, <1>6, Zenon
<1> QED
  BY <1>2, <1>7, <1>8, Zenon DEF IndexOf

LEMMA PushCheckInv ==
  ASSUME TypeOK, TypeOK', RingInv, NEW p \in Producers, PushCheck(p)
  PROVE  RingInv'
<1> USE DEF counters, elements, users, history
<1>0. p \in Threads /\ at[p] \in Locals
  BY Zenon DEF TypeOK, Threads
<1>1. PICK l \in Pcs : Goto(p, l) /\ l = (IF Full(p) THEN "idle" ELSE IF MultiProducer THEN "claim" ELSE "write1")
  BY Zenon DEF PushCheck, Pcs
<1>2. /\ \A u \in Threads \ {p} : at'[u] = at[u] /\ buf'[u] = buf[u]
      /\ at'[p].pc = l /\ (l # "idle" => at'[p].cur = at[p].cur)
      /\ at[p].pc = "room"
      /\ UNCHANGED <<setup, rd, wt, ct, f, data, buf, sent, sFlag, rFlag, role>>
  BY <1>0, <1>1, GotoIs, Zenon DEF PushCheck
<1>3. \A k \in Nat : MultiProducer /\ Has(p, k)' => Has(p, k)
  BY <1>1, <1>2, Zenon DEF Has, Writing, Buffered, Target, V
<1>4. MultiProducer /\ Buffered(p, "wt")' => V(buf'[p][2]) = V(wt) + 1
  BY <1>0, <1>2, Zenon DEF RingInv, Tokens, Buffered
<1>5. (~MultiProducer => buf'[p] = None) /\ role[p] = "on"
  BY <1>0, <1>2, Zenon DEF RingInv, PcsOk, Alone
<1>6. RoomAt(p)'
  <2>0. /\ RoomAt(p)
        /\ rd \in Counters /\ wt \in Counters /\ ct \in Counters
        /\ V(rd) \in Nat /\ V(wt) \in Nat /\ V(ct) \in Nat /\ Size \in Nat
    BY VType, RingAssumption, Zenon DEF RingInv, Room, TypeOK
  <2>1. CASE MultiProducer
    <3>1. ASSUME l = "claim", at[p].cur = ct, Inc(ct) # Start
          PROVE  V(ct) + 1 < V(rd) + Size
      <4>1. IndexOf(Inc(ct)) # IndexOf(rd)
        BY <1>1, <2>1, <3>1, Zenon DEF Full
      <4>2. V(Inc(ct)) = V(ct) + 1 /\ Inc(ct) \in Counters
        BY <2>0, <3>1, VInc, Zenon
      <4>3. V(ct) + 1 <= V(rd) + Size
        BY <2>0, <2>1 DEF RingInv, Between, Tail_
      <4>4. V(ct) + 1 # V(rd) + Size
        BY <2>0, <4>1, <4>2, SlotLap, Zenon
      <4> QED
        BY <2>0, <4>3, <4>4
    <3>2. V(at[p].cur) <= V(ct)
      BY <1>2, <2>0, <2>1, Zenon DEF RoomAt
    <3> QED
      BY <1>1, <1>2, <2>1, <3>1, <3>2, Zenon DEF RoomAt, MultiProducer, V, Inc
  <2>2. CASE ~MultiProducer
    <3>0. at[p].cur = wt
      BY <1>2, <2>0, <2>2, Zenon DEF RoomAt
    <3>1. ASSUME l = "write1"
          PROVE  V(wt) + 1 < V(rd) + Size
      <4>1. IndexOf(wt) # IndexOf((rd - 1) % Wrap)
        BY <1>1, <2>2, <3>0, <3>1, Zenon DEF Full
      <4>2. V(wt) + 1 <= V(rd) + Size
        BY <2>0, <2>2 DEF RingInv, Between, Tail_
      <4>3. V(wt) + 1 # V(rd) + Size
        BY <2>0, <4>1, SlotBefore, Zenon
      <4> QED
        BY <2>0, <4>2, <4>3
    <3> QED
      BY <1>1, <1>2, <2>2, <3>0, <3>1, Zenon DEF RoomAt, MultiProducer, V, Inc
  <2> QED
    BY <2>1, <2>2, Zenon
<1> QED
  BY <1>1, <1>2, <1>3, <1>4, <1>5, <1>6, PushQuiet, Zenon DEF Writing

LEMMA PushCommitInv ==
  ASSUME TypeOK, TypeOK', RingInv, NEW p \in Producers, PushCommit(p)
  PROVE  RingInv'
<1> USE DEF counters, elements, users, history
<1>0. p \in Threads /\ at[p] \in Locals /\ buf \in [Threads -> {None} \cup ({"wt", "f"} \X Counters)]
  BY Zenon DEF TypeOK, Threads
<1>1. Goto(p, "help") /\ "help" \in Pcs
  BY Zenon DEF PushCommit, Pcs
<1>2. /\ \A u \in Threads \ {p} : at'[u] = at[u] /\ buf'[u] = buf[u]
      /\ at'[p].pc = "help" /\ at'[p].cur = at[p].cur
      /\ at[p].pc = "commit" /\ buf'[p] = <<"f", at[p].cur>>
      /\ UNCHANGED <<setup, rd, wt, ct, f, data, sent, sFlag, rFlag, role>>
  BY <1>0, <1>1, GotoIs, Zenon DEF PushCommit, Store
<1>3. MultiProducer
  BY <1>2, Zenon DEF RingInv, PcsOk
<1>4. \A k \in Nat : Has(p, k)' => Has(p, k)
  BY <1>2 DEF Has, Writing, Buffered, Target, V
<1>5. ~Buffered(p, "wt")'
  BY <1>2 DEF Buffered
<1>6. role[p] = "on"
  BY <1>0, <1>2, Zenon DEF RingInv, Alone
<1>7. RoomAt(p)'
  BY <1>2, <1>3, Zenon DEF RoomAt, MultiProducer
<1> QED
  BY <1>2, <1>3, <1>4, <1>5, <1>6, <1>7, PushQuiet, Zenon DEF Writing

LEMMA PushLoadFlagInv ==
  ASSUME TypeOK, TypeOK', RingInv, NEW p \in Producers, PushLoadFlag(p)
  PROVE  RingInv'
<1> USE DEF counters, elements, users, history
<1>0. p \in Threads /\ at[p] \in Locals /\ at \in [Threads -> Locals]
  BY Zenon DEF TypeOK, Threads
<1>1. /\ \A u \in Threads \ {p} : at'[u] = at[u] /\ buf'[u] = buf[u]
      /\ at'[p].pc = "mine" /\ at'[p].cur = at[p].cur /\ at[p].pc = "help"
      /\ UNCHANGED <<setup, rd, wt, ct, f, data, buf, sent, sFlag, rFlag, role>>
  BY <1>0, Zenon DEF PushLoadFlag, Locals
<1>2. MultiProducer
  BY <1>1, Zenon DEF RingInv, PcsOk
<1>3. \A k \in Nat : Has(p, k)' => Has(p, k)
  BY <1>1, Zenon DEF Has, Writing, Buffered, Target, V
<1>4. Buffered(p, "wt")' => V(buf'[p][2]) = V(wt) + 1
  BY <1>0, <1>1, <1>2, Zenon DEF RingInv, Tokens, Buffered
<1>5. role[p] = "on"
  BY <1>0, <1>1, Zenon DEF RingInv, Alone
<1>6. RoomAt(p)'
  BY <1>1, <1>2, Zenon DEF RoomAt, MultiProducer
<1> QED
  BY <1>1, <1>2, <1>3, <1>4, <1>5, <1>6, PushQuiet, Zenon DEF Writing

LEMMA PushLoadWtInv ==
  ASSUME TypeOK, TypeOK', RingInv, NEW p \in Producers, PushLoadWt(p)
  PROVE  RingInv'
<1> USE DEF counters, elements, users, history
<1>0. p \in Threads /\ at[p] \in Locals /\ buf[p] \in {None} \cup ({"wt", "f"} \X Counters)
  BY Zenon DEF TypeOK, Threads
<1>1. PICK l \in Pcs : Goto(p, l) /\ l = (IF at[p].cur = LoadWt(p) /\ at[p].flg = at[p].cur THEN "take" ELSE "idle")
  BY Zenon DEF PushLoadWt, Pcs
<1>2. /\ \A u \in Threads \ {p} : at'[u] = at[u] /\ buf'[u] = buf[u]
      /\ at'[p].pc = l /\ (l # "idle" => at'[p].cur = at[p].cur /\ at'[p].flg = at[p].flg)
      /\ at[p].pc = "mine"
      /\ UNCHANGED <<setup, rd, wt, ct, f, data, buf, sent, sFlag, rFlag, role>>
  BY <1>0, <1>1, GotoIs, Zenon DEF PushLoadWt
<1>3. MultiProducer
  BY <1>2, Zenon DEF RingInv, PcsOk
<1>4. \A k \in Nat : Has(p, k)' => Has(p, k)
  BY <1>1, <1>2, Zenon DEF Has, Writing, Buffered, Target, V
<1>5. Buffered(p, "wt")' => V(buf'[p][2]) = V(wt) + 1
  BY <1>0, <1>2, <1>3, Zenon DEF RingInv, Tokens, Buffered
<1>6. role[p] = "on"
  BY <1>0, <1>2, Zenon DEF RingInv, Alone
<1>7. RoomAt(p)'
  BY <1>1, <1>2, <1>3, Zenon DEF RoomAt, MultiProducer
<1>8. at'[p].pc = "take" => /\ V(at'[p].cur) <= V(wt) \/ buf'[p] = <<"wt", at'[p].cur>>
                            /\ at'[p].flg = at'[p].cur
  <2>1. V(wt) \in Nat
    BY VType, Zenon DEF TypeOK
  <2>2. LoadWt(p) = wt \/ buf[p] = <<"wt", LoadWt(p)>>
    BY <1>0 DEF LoadWt
  <2> QED
    BY <1>1, <1>2, <2>1, <2>2
<1> QED
  BY <1>1, <1>2, <1>3, <1>4, <1>5, <1>6, <1>7, <1>8, PushQuiet, Zenon DEF Writing

\* wt_ has a next value that is not yet in use.
LEMMA MayInc ==
  ASSUME TypeOK, V(wt) < V(ct)
  PROVE  V(Inc(wt)) = V(wt) + 1 /\ V(wt) \in Nat
<1>1. wt \in Counters /\ ct \in Counters /\ Wrap \in Nat
  BY RingAssumption, Zenon DEF TypeOK
<1>2. V(wt) \in Nat /\ V(ct) \in Nat /\ V(ct) < Wrap
  BY <1>1, VType, Zenon
<1>3. V(wt) + 1 < Wrap
  BY <1>1, <1>2
<1> QED
  BY <1>1, <1>2, <1>3, VInc, Zenon

LEMMA PushStoreWtInv ==
  ASSUME TypeOK, TypeOK', RingInv, NEW p \in Producers, PushStoreWt(p)
  PROVE  RingInv'
<1> USE DEF counters, elements, users, history
<1>0. p \in Threads /\ at[p] \in Locals /\ at \in [Threads -> Locals]
      /\ buf \in [Threads -> {None} \cup ({"wt", "f"} \X Counters)]
  BY Zenon DEF TypeOK, Threads
<1>1. /\ \A u \in Threads \ {p} : at'[u] = at[u] /\ buf'[u] = buf[u]
      /\ at'[p].pc = "help" /\ at[p].pc = "move" /\ buf'[p] = <<"wt", Inc(at[p].cur)>>
      /\ UNCHANGED <<setup, rd, wt, ct, f, data, sent, sFlag, rFlag, role>>
  BY <1>0, Zenon DEF PushStoreWt, Locals, Store
<1>2. MultiProducer
  BY <1>1, Zenon DEF RingInv, PcsOk
<1>3. at[p].cur = wt /\ V(wt) < V(ct)
  <2>1. Target(p) = at[p].cur
    BY Zenon DEF Target
  <2>2. V(wt) \in Nat /\ Has(p, V(at[p].cur))
    BY <1>0, <1>1, <2>1, VType, Zenon DEF Has, TypeOK
  <2> QED
    BY <1>0, <1>1, <1>2, <2>1, <2>2, Zenon DEF RingInv, Tokens
<1>4. V(Inc(wt)) = V(wt) + 1 /\ V(wt) \in Nat
  BY <1>3, MayInc, Zenon
<1>5. \A k \in Nat : Has(p, k)' => Has(p, k)
  <2> SUFFICES ASSUME NEW k \in Nat, Has(p, k)' PROVE Has(p, k)
    BY Zenon
  <2>1. k + 1 = V(Inc(wt))
    BY <1>1, <1>3 DEF Has, Writing, Buffered, V
  <2>2. k = V(at[p].cur)
    BY <1>3, <1>4, <2>1
  <2> QED
    BY <1>1, <2>2, Zenon DEF Has, Target
<1>6. V(buf'[p][2]) = V(wt) + 1
  BY <1>1, <1>3, <1>4
<1>7. role[p] = "on"
  BY <1>0, <1>1, Zenon DEF RingInv, Alone
<1>8. RoomAt(p)'
  BY <1>1, <1>2, Zenon DEF RoomAt, MultiProducer
<1>9. /\ at'[p].pc \notin Writing \cup {"move", "take"}
      /\ Buffered(p, "wt")' => V(buf'[p][2]) = V(wt) + 1
  BY <1>1, <1>6, Zenon DEF Writing
<1> QED
  BY <1>1, <1>2, <1>5, <1>7, <1>8, <1>9, PushQuiet, Zenon

\* An item gets its place: the exchange on ct_ succeeds.
LEMMA PushClaimInv ==
  ASSUME TypeOK, TypeOK', NoLap', RingInv, NEW p \in Producers, PushClaim(p)
  PROVE  RingInv'
<1> USE DEF counters, elements, users, history
<1>0. /\ p \in Threads /\ p \notin Consumers /\ at[p] \in Locals /\ at[p].pc = "claim"
      /\ buf[p] = None /\ buf' = buf
  BY RingAssumption, Zenon DEF TypeOK, Threads, PushClaim, Fence
<1>1. MultiProducer /\ role[p] = "on"
  BY <1>0, Zenon DEF RingInv, PcsOk, Alone
<1>2. CASE ~PushClaimed(p)
  <2>1. Goto(p, "idle") /\ "idle" \in Pcs
    BY <1>2, Zenon DEF PushClaim, Pcs
  <2>2. /\ \A u \in Threads \ {p} : at'[u] = at[u] /\ buf'[u] = buf[u]
        /\ at'[p].pc = "idle"
        /\ UNCHANGED <<setup, rd, wt, ct, f, data, buf, sent, sFlag, rFlag, role>>
    BY <1>0, <1>2, <2>1, GotoIs, Zenon DEF PushClaim
  <2>3. \A k \in Nat : ~Has(p, k)' /\ ~Buffered(p, "wt")'
    BY <1>0, <2>2, Zenon DEF Has, Writing, Buffered
  <2>4. RoomAt(p)'
    BY <1>1, <2>2, Zenon DEF RoomAt, MultiProducer
  <2> QED
    BY <1>0, <1>1, <2>2, <2>3, <2>4, PushQuiet, Zenon DEF Writing
<1>3. CASE PushClaimed(p)
  <2>1. Goto(p, "write1") /\ "write1" \in Pcs
    BY <1>3, Zenon DEF PushClaim, Pcs
  <2>2. /\ \A u \in Threads \ {p} : at'[u] = at[u] /\ buf'[u] = buf[u]
        /\ at'[p].pc = "write1" /\ at'[p].cur = at[p].cur /\ at[p].cur = ct
        /\ ct' = Inc(ct) /\ sent' = [sent EXCEPT ![p] = @ + 1]
        /\ UNCHANGED <<setup, rd, wt, f, data, buf, sFlag, rFlag, role>>
    BY <1>0, <1>3, <2>1, GotoIs, Zenon DEF PushClaim, PushClaimed
  <2>3. \A q \in Producers \ {p} : q \in Threads \ {p} /\ at'[q] = at[q] /\ sent'[q] = sent[q]
    BY <2>2, Zenon DEF Threads, TypeOK
  <2>4. \A c \in Consumers : c \in Threads \ {p} /\ at'[c] = at[c] /\ buf'[c] = buf[c]
    BY <1>0, <2>2, Zenon DEF Threads
  <2>5. MultiProducer' /\ Tail_ = ct /\ Tail_' = ct'
    BY <1>1, <2>2, Zenon DEF MultiProducer, Tail_
  <2>6. Inc(ct) # Start
    BY <2>2, <2>5 DEF NoLap, TypeOK
  <2>7. /\ V(ct') = V(ct) + 1 /\ V(ct) \in Nat /\ V(wt) \in Nat /\ V(rd) \in Nat /\ Size \in Nat
        /\ ct \in Counters /\ ct' \in Counters
    BY <2>2, <2>6, VInc, VType, RingAssumption, Zenon DEF TypeOK
  <2>8. /\ V(rd) <= V(wt) /\ V(wt) <= V(ct) /\ V(ct) + 1 < V(rd) + Size
    BY <1>0, <1>1, <2>2, <2>5, <2>6, Zenon DEF RingInv, Between, Room, RoomAt
  <2>9. PcsOk'
    BY <1>0, <1>1, <2>2, PcsFrame, Zenon DEF RingInv
  <2>10. Between'
    BY <2>2, <2>5, <2>7, <2>8, SMTT(30) DEF Between, V
  <2>11. Tokens'
    <3>1. \A k \in Nat : Has(p, k)' => k = V(ct)
      BY <1>0, <2>2, Zenon DEF Has, Buffered, V
    <3>2. ~Buffered(p, "wt")'
      BY <1>0, Zenon DEF Buffered
    <3> QED
      BY <1>0, <2>2, <2>7, <3>1, <3>2, TokensFrame DEF RingInv
  <2>12. Room'
    <3>1. \A q \in Producers \ {p} : RoomAt(q)'
      <4> SUFFICES ASSUME NEW q \in Producers \ {p} PROVE RoomAt(q)'
        BY Zenon
      <4>1. at[q].pc \in {"room", "claim"} => V(at[q].cur) <= V(ct)
        BY <1>1, Zenon DEF RingInv, Room, RoomAt
      <4>2. at[q] \in Locals
        BY <2>3, Zenon DEF TypeOK
      <4>3. V(at[q].cur) \in Nat
        BY <4>2, VType, Zenon DEF Locals
      <4>4. at[q].pc \in {"room", "claim"} => V(at[q].cur) <= V(ct') /\ at[q].cur # ct'
        BY <2>7, <4>1, <4>3
      <4>5. at'[q] = at[q]
        BY <2>3, Zenon
      <4> QED
        BY <2>5, <4>4, <4>5, Zenon DEF RoomAt, V
    <3>2. RoomAt(p)'
      BY <2>2, <2>5, Zenon DEF RoomAt
    <3> QED
      BY <3>1, <3>2, Zenon DEF Room
  <2>13. Whole'
    <3>1. ASSUME NEW k \in Counters, V(rd) <= V(k), V(k) < V(ct'), Written(k)'
          PROVE  data[IndexOf(k)][1] = data[IndexOf(k)][2]
      <4>1. k # ct
        BY <2>2, <3>1, Zenon DEF Written
      <4>2. V(k) # V(ct) /\ V(k) \in Nat
        BY <2>7, <4>1, VType, Zenon
      <4>3. V(k) < V(ct)
        BY <2>7, <3>1, <4>2
      <4>4. Written(k)
        BY <1>0, <2>3, <3>1, Zenon DEF Written
      <4> QED
        BY <2>5, <3>1, <4>3, <4>4, Zenon DEF RingInv, Whole
    <3>2. \A q \in Producers : at'[q].pc \in {"write2", "add"} =>
            /\ q \in Producers \ {p} /\ at'[q] = at[q] /\ Item(q)' = Item(q)
      BY <1>1, <2>2, <2>3, <2>5, Zenon DEF Item
    <3>3. \A q \in Producers : at'[q].pc \in {"write2", "add"} => data[IndexOf(at'[q].cur)][1] = Item(q)'
      BY <3>2 DEF RingInv, Whole
    <3>4. \A q \in Producers : at'[q].pc = "add" => data[IndexOf(at'[q].cur)][2] = Item(q)'
      BY <3>2 DEF RingInv, Whole
    <3> QED
      BY <2>2, <2>5, <3>1, <3>3, <3>4, Zenon DEF Whole, V, IndexOf
  <2>14. Copied'
    BY <2>2, <2>4, CopiedFrame, Zenon DEF RingInv
  <2>15. Alone'
    BY <1>0, <1>1, <2>2, AloneFrame, Zenon DEF RingInv
  <2> QED
    BY <2>9, <2>10, <2>11, <2>12, <2>13, <2>14, <2>15, Zenon DEF RingInv
<1> QED
  BY <1>2, <1>3, Zenon

\* A thread that takes a commit flag takes the one at wt_, and it alone may
\* move wt_ then.
LEMMA TokensTake ==
  ASSUME TypeOK, TypeOK', Tokens, MultiProducer, UNCHANGED <<setup, wt, ct, buf>>, NEW t \in Threads,
         \A u \in Threads \ {t} : at'[u] = at[u],
         at[t].pc = "take", at'[t].pc = "move", buf[t] = None,
         NEW k \in Counters, Target(t) = k, Target(t)' = k,
         f[IndexOf(k)] = k, f' = [f EXCEPT ![IndexOf(k)] = NoFlag]
  PROVE  Tokens'
<1>0. /\ f \in [Slots -> Counters \cup {NoFlag}] /\ wt \in Counters /\ NoFlag \notin Counters
      /\ V(k) \in Nat /\ V(wt) \in Nat /\ IndexOf(k) \in Slots
  BY VType, SlotType, RingAssumption DEF TypeOK, NoFlag, Counters
<1>1. V(k) <= V(wt)
  <2>1. buf[t] # <<"wt", k>>
    BY DEF None
  <2> QED
    BY <2>1, Zenon DEF Tokens
<1>2. V(wt) <= V(k) /\ V(k) < V(ct) /\ \A u \in Threads : ~Has(u, V(k))
  BY <1>0, Zenon DEF Tokens
<1>3. k = wt
  BY <1>0, <1>1, <1>2, VType, SMTT(30)
<1>4. \A u \in Threads \ {t} : /\ \A j \in Nat : Has(u, j)' <=> Has(u, j)
                               /\ Target(u)' = Target(u)
                               /\ \A x : Buffered(u, x)' <=> Buffered(u, x)
  BY DEF Has, Target, Buffered, V
<1>5. \A j \in Nat : Has(t, j)' => j = V(k)
  BY Zenon DEF Has, Writing, Buffered, V
<1>6. \A u \in Threads : \A j \in Nat : Has(u, j)' => V(wt) <= j /\ j < V(ct)
  <2>1. \A u \in Threads : \A j \in Nat : Has(u, j) => V(wt) <= j /\ j < V(ct)
    BY Zenon DEF Tokens
  <2> QED
    BY <1>2, <1>4, <1>5, <2>1, Zenon
<1>7. \A u, x \in Threads : \A j \in Nat : Has(u, j)' /\ Has(x, j)' => u = x
  <2>1. \A u, x \in Threads : \A j \in Nat : Has(u, j) /\ Has(x, j) => u = x
    BY Zenon DEF Tokens
  <2> QED
    BY <1>2, <1>4, <1>5, <2>1
<1>8. \A i \in Slots : f'[i] # NoFlag =>
        /\ i = IndexOf(f'[i]) /\ V(wt) <= V(f'[i]) /\ V(f'[i]) < V(ct)
        /\ \A u \in Threads : ~Has(u, V(f[i]))' /\ f'[i] = f[i]
  <2> SUFFICES ASSUME NEW i \in Slots, f'[i] # NoFlag
               PROVE  /\ i = IndexOf(f'[i]) /\ V(wt) <= V(f'[i]) /\ V(f'[i]) < V(ct)
                      /\ \A u \in Threads : ~Has(u, V(f[i]))' /\ f'[i] = f[i]
    BY Zenon
  <2>1. f'[i] = f[i] /\ i # IndexOf(k) /\ f[i] \in Counters
    BY <1>0, Zenon
  <2>2. i = IndexOf(f[i]) /\ V(wt) <= V(f[i]) /\ V(f[i]) < V(ct) /\ \A u \in Threads : ~Has(u, V(f[i]))
    BY <2>1, Zenon DEF Tokens
  <2>3. f[i] # k
    BY <2>1, <2>2, Zenon
  <2>4. V(f[i]) \in Nat /\ V(f[i]) # V(k)
    BY <2>1, <2>3, VType, Zenon
  <2>5. V(f[i])' = V(f[i])
    BY <2>1 DEF V
  <2>6. \A u \in Threads : ~Has(u, V(f[i]))'
    BY <1>4, <1>5, <2>2, <2>4, <2>5, Zenon
  <2> QED
    BY <2>1, <2>2, <2>6, Zenon
<1>9. \A u \in Threads : at'[u].pc \in Writing \cup {"move"} => buf'[u] = None
  BY Zenon DEF Tokens
<1>10. \A u \in Threads : at'[u].pc = "move" => Target(u)' = wt
  BY <1>3, <1>4, Zenon DEF Tokens
<1>11. \A u \in Threads : Buffered(u, "wt")' => V(buf'[u][2]) = V(wt) + 1
  BY <1>4, Zenon DEF Tokens, Buffered
<1>12. \A u \in Threads : at'[u].pc \in {"take", "flag"} =>
         Target(u)' \in Counters /\ (V(Target(u)') <= V(wt) \/ buf'[u] = <<"wt", Target(u)'>>)
  BY <1>4, Zenon DEF Tokens
<1>13. \A p \in Producers : at'[p].pc = "take" => at'[p].flg = at'[p].cur
  BY Zenon DEF Tokens, Threads
<1>14. \A i \in Slots : \A u \in Threads : f'[i] # NoFlag => ~Has(u, V(f[i]))' /\ V(f'[i]) = V(f[i])'
  BY <1>8, Zenon DEF V
<1> QED
  BY <1>6, <1>7, <1>8, <1>9, <1>10, <1>11, <1>12, <1>13, <1>14, ZenonT(30) DEF Tokens, V, IndexOf

LEMMA PushTakeFlagInv ==
  ASSUME TypeOK, TypeOK', RingInv, NEW p \in Producers, PushTakeFlag(p)
  PROVE  RingInv'
<1> USE DEF counters, elements, users, history
<1>0. /\ p \in Threads /\ p \notin Consumers /\ at[p] \in Locals /\ at[p].pc = "take"
      /\ buf[p] = None /\ buf' = buf
      /\ UNCHANGED <<setup, rd, wt, ct, data, sent, sFlag, rFlag, role>>
  BY RingAssumption, Zenon DEF TypeOK, Threads, PushTakeFlag, Fence
<1>1. MultiProducer /\ role[p] = "on" /\ at[p].flg = at[p].cur
  BY <1>0, Zenon DEF RingInv, PcsOk, Alone, Tokens
<1>2. CASE f[IndexOf(at[p].cur)] # at[p].flg
  <2>1. Goto(p, "idle") /\ "idle" \in Pcs /\ f' = f
    BY <1>2, Zenon DEF PushTakeFlag, Pcs
  <2>2. /\ \A u \in Threads \ {p} : at'[u] = at[u] /\ buf'[u] = buf[u]
        /\ at'[p].pc = "idle"
    BY <1>0, <2>1, GotoIs, Zenon
  <2>3. \A k \in Nat : ~Has(p, k)' /\ ~Buffered(p, "wt")'
    BY <1>0, <2>2, Zenon DEF Has, Writing, Buffered
  <2>4. RoomAt(p)'
    BY <1>0, <1>1, <2>2, Zenon DEF RoomAt, MultiProducer
  <2> QED
    BY <1>0, <1>1, <2>1, <2>2, <2>3, <2>4, PushQuiet, Zenon DEF Writing
<1>3. CASE f[IndexOf(at[p].cur)] = at[p].flg
  <2>1. Goto(p, "move") /\ "move" \in Pcs /\ f' = [f EXCEPT ![IndexOf(at[p].cur)] = NoFlag]
    BY <1>3, Zenon DEF PushTakeFlag, Pcs
  <2>2. /\ \A u \in Threads \ {p} : at'[u] = at[u] /\ buf'[u] = buf[u]
        /\ at'[p].pc = "move" /\ at'[p].cur = at[p].cur
    BY <1>0, <2>1, GotoIs, Zenon
  <2>3. \A q \in Producers \ {p} : q \in Threads \ {p} /\ at'[q] = at[q]
    BY <2>2, Zenon DEF Threads
  <2>4. \A c \in Consumers : c \in Threads \ {p} /\ at'[c] = at[c] /\ buf'[c] = buf[c]
    BY <1>0, <2>2, Zenon DEF Threads
  <2>5. Tokens'
    <3>1. PICK k \in Counters : k = at[p].cur
      BY <1>0, Zenon DEF Locals
    <3>2. Target(p) = k /\ Target(p)' = k
      BY <2>2, <3>1, Zenon DEF Target
    <3>3. f[IndexOf(k)] = k /\ f' = [f EXCEPT ![IndexOf(k)] = NoFlag]
      BY <1>1, <1>3, <2>1, <3>1, Zenon
    <3> QED
      BY <1>0, <1>1, <2>2, <3>2, <3>3, TokensTake, Zenon DEF RingInv
  <2>6. PcsOk'
    BY <1>0, <1>1, <2>2, PcsFrame, Zenon DEF RingInv
  <2>7. Between'
    BY <1>0, BetweenFrame, Zenon DEF RingInv
  <2>8. Room'
    <3>1. \A q \in Producers \ {p} : RoomAt(q)'
      BY <1>0, <2>3, Zenon DEF RingInv, Room, RoomAt, MultiProducer, V, Inc
    <3>2. RoomAt(p)'
      BY <1>0, <1>1, <2>2, Zenon DEF RoomAt, MultiProducer
    <3> QED
      BY <3>1, <3>2, Zenon DEF Room
  <2>9. Whole'
    BY <1>0, <2>2, <2>3, WholeFrame, Zenon DEF RingInv
  <2>10. Copied'
    BY <1>0, <2>4, CopiedFrame, Zenon DEF RingInv
  <2>11. Alone'
    BY <1>0, <1>1, <2>2, AloneFrame, Zenon DEF RingInv
  <2> QED
    BY <2>5, <2>6, <2>7, <2>8, <2>9, <2>10, <2>11, Zenon DEF RingInv
<1> QED
  BY <1>2, <1>3, Zenon

\* The elements in use lie within one ring from rd_ on, in slots of their own.
LEMMA UsedApart ==
  ASSUME TypeOK, NEW c \in Counters, NEW d \in Counters, c # d,
         V(rd) <= V(c), V(c) < V(rd) + Size, V(rd) <= V(d), V(d) < V(rd) + Size
  PROVE  IndexOf(c) # IndexOf(d)
<1>1. V(c) \in Nat /\ V(d) \in Nat /\ V(rd) \in Nat /\ Size \in Nat /\ V(c) # V(d)
  BY VType, RingAssumption, Zenon DEF TypeOK
<1>2. CASE V(c) < V(d)
  BY <1>1, <1>2, SlotApart
<1>3. CASE V(d) < V(c)
  BY <1>1, <1>3, SlotApart
<1> QED
  BY <1>1, <1>2, <1>3

\* What a pusher writes to: an element in use, past wt_, that no other
\* pusher writes to and no popper copies.
LEMMA WritesApart ==
  ASSUME TypeOK, RingInv, NEW p \in Producers, at[p].pc \in {"write1", "write2", "add"}
  PROVE  /\ at[p].cur \in Counters
         /\ V(rd) <= V(at[p].cur) /\ V(at[p].cur) < V(rd) + Size
         /\ \A q \in Producers \ {p} :
              at[q].pc \in {"write2", "add"} => IndexOf(at[q].cur) # IndexOf(at[p].cur)
         /\ \A k \in Counters :
              V(rd) <= V(k) /\ V(k) < V(Tail_) /\ k # at[p].cur => IndexOf(k) # IndexOf(at[p].cur)
         /\ \A c \in Consumers :
              at[c].pc \in {"copy1", "copy2", "claim"} /\ at[c].cur = rd => IndexOf(rd) # IndexOf(at[p].cur)
<1>0. /\ p \in Threads /\ p \notin Consumers /\ at[p] \in Locals /\ at[p].cur \in Counters
      /\ rd \in Counters /\ wt \in Counters /\ ct \in Counters
      /\ V(rd) \in Nat /\ V(wt) \in Nat /\ V(ct) \in Nat /\ Size \in Nat /\ V(at[p].cur) \in Nat
      /\ Tail_ \in Counters /\ V(Tail_) \in Nat
  BY VType, RingAssumption, Zenon DEF TypeOK, Threads, Locals, Tail_
<1>1. V(rd) <= V(wt) /\ V(wt) <= V(Tail_) /\ V(Tail_) < V(rd) + Size
  BY Zenon DEF RingInv, Between
<1>2. V(wt) <= V(at[p].cur) /\ V(at[p].cur) <= V(Tail_)
  <2>1. CASE MultiProducer
    <3>1. Has(p, V(at[p].cur))
      BY <2>1, Zenon DEF Has, Writing, RingInv, PcsOk
    <3> QED
      BY <1>0, <2>1, <3>1 DEF RingInv, Tokens, Tail_
  <2>2. CASE ~MultiProducer
    BY <1>0, <2>2 DEF RingInv, Room, RoomAt, Tail_
  <2> QED
    BY <2>1, <2>2, Zenon
<1>3. V(rd) <= V(at[p].cur) /\ V(at[p].cur) < V(rd) + Size
  BY <1>0, <1>1, <1>2
<1>4. \A k \in Counters :
        V(rd) <= V(k) /\ V(k) < V(Tail_) /\ k # at[p].cur => IndexOf(k) # IndexOf(at[p].cur)
  <2> SUFFICES ASSUME NEW k \in Counters, V(rd) <= V(k), V(k) < V(Tail_), k # at[p].cur
               PROVE  IndexOf(k) # IndexOf(at[p].cur)
    BY Zenon
  <2>1. V(k) \in Nat /\ V(k) < V(rd) + Size
    BY <1>0, <1>1, VType
  <2> QED
    BY <1>0, <1>3, <2>1, UsedApart, Zenon
<1>5. ASSUME NEW q \in Producers \ {p}, at[q].pc \in {"write2", "add"}
      PROVE  IndexOf(at[q].cur) # IndexOf(at[p].cur)
  <2>0. q \in Threads /\ q # p /\ at[q].cur \in Counters /\ V(at[q].cur) \in Nat
    BY VType, Zenon DEF TypeOK, Threads, Locals
  <2>1. CASE ~MultiProducer
    BY <1>0, <1>5, <2>0, <2>1, Zenon DEF RingInv, Alone
  <2>2. CASE MultiProducer
    <3>1. Has(q, V(at[q].cur)) /\ Has(p, V(at[p].cur))
      BY <1>5, <2>2, Zenon DEF Has, Writing, RingInv, PcsOk
    <3>2. V(at[q].cur) # V(at[p].cur) /\ V(wt) <= V(at[q].cur) /\ V(at[q].cur) < V(ct)
      BY <1>0, <2>0, <2>2, <3>1, Zenon DEF RingInv, Tokens
    <3>3. V(rd) <= V(at[q].cur) /\ V(at[q].cur) < V(Tail_) /\ at[q].cur # at[p].cur
      BY <1>0, <1>1, <2>0, <2>2, <3>2 DEF Tail_
    <3> QED
      BY <1>4, <2>0, <3>3, Zenon
  <2> QED
    BY <2>1, <2>2, Zenon
<1>6. ASSUME NEW c \in Consumers, at[c].pc \in {"copy1", "copy2", "claim"}, at[c].cur = rd
      PROVE  IndexOf(rd) # IndexOf(at[p].cur)
  <2>0. c \in Threads /\ c # p /\ (V(rd) < V(wt) \/ (Buffered(c, "wt") /\ V(rd) < V(buf[c][2])))
    BY <1>0, <1>6, Zenon DEF RingInv, Copied, Threads
  <2>1. V(rd) < V(at[p].cur)
    <3>1. CASE V(rd) < V(wt)
      BY <1>0, <1>2, <3>1
    <3>2. CASE Buffered(c, "wt")
      <4>1. MultiProducer
        BY <2>0, <3>2, Zenon DEF Buffered, RingInv, PcsOk
      <4>2. Has(p, V(at[p].cur))
        BY <4>1, Zenon DEF Has, Writing, RingInv, PcsOk
      <4>3. V(buf[c][2]) = V(wt) + 1
        BY <2>0, <3>2, <4>1, Zenon DEF RingInv, Tokens
      <4>4. Has(c, V(wt))
        BY <3>2, <4>3, Zenon DEF Has
      <4>5. V(at[p].cur) # V(wt)
        BY <1>0, <2>0, <4>1, <4>2, <4>4, Zenon DEF RingInv, Tokens
      <4> QED
        BY <1>0, <1>1, <1>2, <4>5
    <3> QED
      BY <2>0, <3>1, <3>2, Zenon
  <2>2. rd # at[p].cur /\ V(rd) < V(rd) + Size /\ V(rd) <= V(rd)
    BY <1>0, <2>1, RingAssumption
  <2> QED
    BY <1>0, <1>3, <2>2, UsedApart, Zenon
<1> QED
  BY <1>0, <1>3, <1>4, <1>5, <1>6, Zenon

LEMMA PushWriteInv ==
  ASSUME TypeOK, TypeOK', RingInv, NEW p \in Producers, PushWrite(p)
  PROVE  RingInv'
<1> USE DEF counters, elements, users, history
<1> DEFINE i == IndexOf(at[p].cur)
           h == IF at[p].pc = "write1" THEN 1 ELSE 2
           l == IF at[p].pc = "write1" THEN "write2" ELSE IF MultiProducer THEN "commit" ELSE "add"
<1>0. /\ p \in Threads /\ p \notin Consumers /\ at[p] \in Locals /\ at[p].pc \in {"write1", "write2"}
      /\ buf' = buf /\ l \in Pcs /\ Goto(p, l) /\ l # "idle"
      /\ UNCHANGED <<setup, rd, wt, ct, f, sent, sFlag, rFlag, role>>
  BY RingAssumption, Zenon DEF TypeOK, Threads, PushWrite, Pcs
<1>1. /\ \A u \in Threads \ {p} : at'[u] = at[u] /\ buf'[u] = buf[u]
      /\ at'[p].pc = l /\ at'[p].cur = at[p].cur
  BY <1>0, GotoIs, Zenon
<1>2. \A q \in Producers \ {p} : q \in Threads \ {p} /\ at'[q] = at[q]
  BY <1>1, Zenon DEF Threads
<1>3. \A c \in Consumers : c \in Threads \ {p} /\ at'[c] = at[c] /\ buf'[c] = buf[c]
  BY <1>0, <1>1, Zenon DEF Threads
<1>4. role[p] = "on" /\ (MultiProducer => buf[p] = None) /\ (~MultiProducer => buf[p] = None)
  BY <1>0, Zenon DEF RingInv, PcsOk, Alone, Tokens, Writing
<1>5. /\ at[p].cur \in Counters /\ i \in Slots
      /\ \A q \in Producers \ {p} : at[q].pc \in {"write2", "add"} => IndexOf(at[q].cur) # i
      /\ \A k \in Counters :
           V(rd) <= V(k) /\ V(k) < V(Tail_) /\ k # at[p].cur => IndexOf(k) # i
      /\ \A c \in Consumers :
           at[c].pc \in {"copy1", "copy2", "claim"} /\ at[c].cur = rd => IndexOf(rd) # i
  BY <1>0, WritesApart, SlotType, Zenon
<1>6. /\ \A j \in Slots \ {i} : data'[j] = data[j]
      /\ data'[i][h] = Item(p)
      /\ h = 2 => data'[i][1] = data[i][1]
  <2>1. data \in [Slots -> [{1, 2} -> Vals]] /\ i \in Slots /\ data[i] \in [{1, 2} -> Vals]
    BY <1>5, Zenon DEF TypeOK
  <2>2. data' = [data EXCEPT ![i] = [data[i] EXCEPT ![h] = Item(p)]]
    BY Zenon DEF PushWrite
  <2> HIDE DEF i
  <2> QED
    BY <2>1, <2>2
<1>7. (MultiProducer' <=> MultiProducer) /\ Tail_' = Tail_ /\ \A q \in Producers : Item(q)' = Item(q)
  BY <1>0, Zenon DEF MultiProducer, Tail_, Item
<1>8. at[p].pc = "write2" => data'[i][1] = Item(p) /\ data'[i][2] = Item(p)
  <2>1. at[p].pc = "write2" => data[i][1] = Item(p)
    BY Zenon DEF RingInv, Whole
  <2> QED
    BY <1>6, <2>1, Zenon
<1>9. at[p].pc = "write1" => data'[i][1] = Item(p)
  BY <1>6, Zenon
<1> HIDE DEF i
<1>10. PcsOk'
  BY <1>0, <1>1, <1>4, PcsFrame, Zenon DEF RingInv
<1>11. Between'
  BY <1>0, BetweenFrame, Zenon DEF RingInv
<1>12. Tokens'
  <2>1. MultiProducer => \A k \in Nat : Has(p, k)' => Has(p, k)
    BY <1>0, <1>1, <1>4, Zenon DEF Has, Writing, Buffered, V
  <2>2. V(ct) <= V(ct') /\ V(ct) \in Nat
    BY <1>0, VType DEF TypeOK, V
  <2>3. ~Buffered(p, "wt")' /\ buf'[p] = None
    BY <1>0, <1>4, Zenon DEF Buffered
  <2>4. at'[p].pc \notin {"move", "take", "flag"}
    BY <1>0, <1>1, Zenon
  <2> HIDE DEF l
  <2> QED
    BY <1>0, <1>1, <2>1, <2>2, <2>3, <2>4, TokensFrame, Zenon DEF RingInv
<1>13. Room'
  <2>1. \A q \in Producers \ {p} : RoomAt(q)'
    BY <1>0, <1>2, Zenon DEF RingInv, Room, RoomAt, MultiProducer, V, Inc
  <2>2. RoomAt(p)'
    <3>1. RoomAt(p) /\ at'[p].pc \notin {"room", "claim"}
      BY <1>0, <1>1, Zenon DEF RingInv, Room
    <3> QED
      BY <1>0, <1>1, <3>1, Zenon DEF RoomAt, MultiProducer, V, Inc
  <2> QED
    BY <2>1, <2>2, Zenon DEF Room
<1>14. Whole'
  <2>1. ASSUME NEW k \in Counters, V(rd) <= V(k), V(k) < V(Tail_), Written(k)'
        PROVE  data'[IndexOf(k)][1] = data'[IndexOf(k)][2]
    <3>1. CASE k = at[p].cur
      <4>1. at[p].pc = "write2"
        BY <1>0, <1>1, <2>1, <3>1, Zenon DEF Written
      <4> QED
        BY <1>8, <3>1, <4>1, Zenon DEF i
    <3>2. CASE k # at[p].cur
      <4>1. Written(k)
        BY <1>2, <2>1, <3>2, Zenon DEF Written
      <4>2. data[IndexOf(k)][1] = data[IndexOf(k)][2]
        BY <2>1, <4>1, Zenon DEF RingInv, Whole
      <4>3. IndexOf(k) \in Slots \ {i}
        BY <1>5, <2>1, <3>2, SlotType, Zenon
      <4> QED
        BY <1>6, <4>2, <4>3, Zenon
    <3> QED
      BY <3>1, <3>2, Zenon
  <2>2. ASSUME NEW q \in Producers, at'[q].pc \in {"write2", "add"}
        PROVE  /\ data'[IndexOf(at'[q].cur)][1] = Item(q)
               /\ at'[q].pc = "add" => data'[IndexOf(at'[q].cur)][2] = Item(q)
    <3>1. CASE q = p
      BY <1>0, <1>1, <1>8, <1>9, <3>1, Zenon DEF i
    <3>2. CASE q # p
      <4>1. q \in Threads /\ at'[q] = at[q] /\ at[q].cur \in Counters
        BY <1>2, <3>2, Zenon DEF TypeOK, Locals
      <4>2. IndexOf(at[q].cur) \in Slots \ {i}
        BY <1>5, <2>2, <3>2, <4>1, SlotType, Zenon
      <4>3. data'[IndexOf(at[q].cur)] = data[IndexOf(at[q].cur)]
        BY <1>6, <4>2, Zenon
      <4> QED
        BY <2>2, <4>1, <4>3, Zenon DEF RingInv, Whole
    <3> QED
      BY <3>1, <3>2, Zenon
  <2> QED
    BY <1>0, <1>7, <2>1, <2>2, Zenon DEF Whole, V, IndexOf
<1>15. Copied'
  <2>1. rd \in Counters /\ IndexOf(rd) \in Slots
    BY SlotType, Zenon DEF TypeOK
  <2>2. \A c \in Consumers : at[c].pc \in {"copy1", "copy2", "claim"} /\ at[c].cur = rd =>
          data'[IndexOf(rd)] = data[IndexOf(rd)]
    BY <1>5, <1>6, <2>1, Zenon
  <2> QED
    BY <1>0, <1>3, <2>2, ZenonT(40) DEF RingInv, Copied, Buffered, V, IndexOf
<1>16. Alone'
  BY <1>0, <1>1, <1>4, AloneFrame, Zenon DEF RingInv
<1> QED
  BY <1>10, <1>11, <1>12, <1>13, <1>14, <1>15, <1>16, Zenon DEF RingInv

\* A single sender publishes its item: wt_.fetch_add.
LEMMA PushAddInv ==
  ASSUME TypeOK, TypeOK', NoLap', RingInv, NEW p \in Producers, PushAdd(p)
  PROVE  RingInv'
<1> USE DEF counters, elements, users, history
<1>0. /\ p \in Threads /\ p \notin Consumers /\ at[p] \in Locals /\ at[p].pc = "add"
      /\ buf' = buf /\ "idle" \in Pcs /\ Goto(p, "idle")
      /\ wt' = Inc(wt) /\ sent' = [sent EXCEPT ![p] = @ + 1]
      /\ UNCHANGED <<setup, rd, ct, f, data, sFlag, rFlag, role>>
  BY RingAssumption, Zenon DEF TypeOK, Threads, PushAdd, Pcs
<1>1. /\ \A u \in Threads \ {p} : at'[u] = at[u] /\ buf'[u] = buf[u]
      /\ at'[p].pc = "idle"
  BY <1>0, GotoIs, Zenon
<1>2. ~MultiProducer /\ ~MultiProducer' /\ role[p] = "on" /\ at[p].cur = wt /\ \A u \in Threads : buf[u] = None
  BY <1>0, Zenon DEF RingInv, PcsOk, Alone, Room, RoomAt, MultiProducer
<1>3. \A q \in Producers \ {p} : q \in Threads \ {p} /\ at'[q] = at[q] /\ at[q].pc = "idle"
  BY <1>1, <1>2, Zenon DEF Threads, RingInv, Alone
<1>4. \A c \in Consumers : c \in Threads \ {p} /\ at'[c] = at[c] /\ buf'[c] = None /\ buf[c] = None
  BY <1>0, <1>1, <1>2, Zenon DEF Threads
<1>5. Tail_ = wt /\ Tail_' = wt'
  BY <1>2, Zenon DEF Tail_
<1>6. Inc(wt) # Start
  BY <1>0, <1>5 DEF NoLap, TypeOK
<1>7. /\ V(wt') = V(wt) + 1 /\ V(wt) \in Nat /\ V(rd) \in Nat /\ Size \in Nat
      /\ wt \in Counters /\ wt' \in Counters
  BY <1>0, <1>6, VInc, VType, RingAssumption, Zenon DEF TypeOK
<1>8. V(rd) <= V(wt) /\ V(wt) + 1 < V(rd) + Size
  BY <1>0, <1>2, <1>5, <1>6, Zenon DEF RingInv, Between, Room, RoomAt
<1>9. PcsOk'
  BY <1>0, <1>1, <1>2, PcsFrame, Zenon DEF RingInv
<1>10. Between'
  BY <1>0, <1>5, <1>7, <1>8 DEF Between, V
<1>11. Tokens'
  BY <1>2, Zenon DEF Tokens
<1>12. Room'
  BY <1>1, <1>2, <1>3, Zenon DEF Room, RoomAt
<1>13. Whole'
  <2>1. ASSUME NEW k \in Counters, V(rd) <= V(k), V(k) < V(wt')
        PROVE  data[IndexOf(k)][1] = data[IndexOf(k)][2]
    <3>1. CASE k = wt
      BY <1>0, <1>2, <3>1, Zenon DEF RingInv, Whole
    <3>2. CASE k # wt
      <4>1. V(k) # V(wt) /\ V(k) \in Nat
        BY <1>7, <3>2, VType, Zenon
      <4>2. V(k) < V(wt)
        BY <1>7, <2>1, <4>1
      <4>3. Written(k)
        BY <1>0, <1>3, Zenon DEF Written
      <4> QED
        BY <1>5, <2>1, <4>2, <4>3, Zenon DEF RingInv, Whole
    <3> QED
      BY <3>1, <3>2, Zenon
  <2>2. \A q \in Producers : at'[q].pc = "idle"
    BY <1>1, <1>3, Zenon
  <2> QED
    BY <1>0, <1>5, <2>1, <2>2, Zenon DEF Whole, V, IndexOf
<1>14. Copied'
  <2>1. \A c \in Consumers :
       at[c].pc \in {"copy1", "copy2", "claim"} /\ at[c].cur = rd => V(rd) < V(wt')
    BY <1>4, <1>7 DEF RingInv, Copied, Buffered
  <2> QED
    BY <1>0, <1>4, <2>1, Zenon DEF RingInv, Copied, V, IndexOf
<1>15. Alone'
  BY <1>0, <1>1, <1>2, AloneFrame, Zenon DEF RingInv
<1> QED
  BY <1>9, <1>10, <1>11, <1>12, <1>13, <1>14, <1>15, Zenon DEF RingInv

=============================================================================
