--------------------------- MODULE ShmRing_proofs ---------------------------
(***************************************************************************)
(* Theorems about the shared-memory ring, for any number of producers, any *)
(* queue size and both kinds of ring, as long as fewer items are pushed    *)
(* than the counters have values: the written tail stays between head and  *)
(* tail, and the ring is a FIFO queue.                                     *)
(***************************************************************************)
EXTENDS ShmRingPush_proofs

-----------------------------------------------------------------------------
(* The steps of pop. *)

\* A step of pop that leaves the counters, the flags and the data alone.
LEMMA PopQuiet ==
  ASSUME TypeOK, TypeOK', RingInv, NEW c \in Consumers,
         \A u \in Threads \ {c} : at'[u] = at[u] /\ buf'[u] = buf[u],
         UNCHANGED <<setup, rd, wt, ct, f, data, sent, sFlag, rFlag, role>>,
         role[c] = "on",
         at'[c].pc \in IF MultiProducer
                       THEN {"idle", "any", "flag", "take", "move", "copy1", "copy2", "claim"}
                       ELSE {"idle", "any", "copy1", "copy2", "claim"},
         ~MultiProducer => buf'[c] = None,
         MultiProducer => /\ \A k \in Nat : Has(c, k)' => Has(c, k)
                          /\ at'[c].pc # "move"
                          /\ Buffered(c, "wt")' => V(buf'[c][2]) = V(wt) + 1
                          /\ at'[c].pc \in {"take", "flag"} =>
                               /\ at'[c].flg \in Counters
                               /\ V(at'[c].flg) <= V(wt) \/ buf'[c] = <<"wt", at'[c].flg>>,
         ~MultiConsumer /\ at'[c].pc # "idle" => at'[c].cur = rd,
         at'[c].pc \in {"any", "copy1", "copy2", "claim"} => V(at'[c].cur) <= V(rd),
         at'[c].pc \in {"copy1", "copy2", "claim"} /\ at'[c].cur = rd =>
           V(rd) < V(wt) \/ (Buffered(c, "wt")' /\ V(rd) < V(buf'[c][2])),
         at'[c].pc \in {"copy2", "claim"} /\ at'[c].cur = rd => at'[c].val[1] = data[IndexOf(rd)][1],
         at'[c].pc = "claim" /\ at'[c].cur = rd => at'[c].val[2] = data[IndexOf(rd)][2]
  PROVE  RingInv'
<1>0. c \in Threads /\ c \notin Producers /\ at'[c] \in Locals
  BY RingAssumption, Zenon DEF TypeOK, Threads
<1>1. \A d \in Consumers \ {c} : d \in Threads \ {c} /\ at'[d] = at[d] /\ buf'[d] = buf[d]
  BY Zenon DEF Threads
<1>2. \A p \in Producers : p \in Threads \ {c} /\ at'[p] = at[p] /\ buf'[p] = buf[p]
  BY <1>0, Zenon DEF Threads
<1>3. PcsOk'
  BY <1>0, PcsFrame, Zenon DEF RingInv
<1>4. Between'
  BY BetweenFrame, Zenon DEF RingInv
<1>5. Tokens'
  <2>1. Target(c)' = at'[c].flg
    BY <1>0, Zenon DEF Target
  <2>2. V(ct) <= V(ct') /\ V(ct) \in Nat
    BY VType DEF TypeOK, V
  <2>3. MultiProducer => at'[c].pc \notin Writing \cup {"move"}
    BY Zenon DEF Writing
  <2> QED
    BY <1>0, <2>1, <2>2, <2>3, TokensFrame, Zenon DEF RingInv
<1>6. Room'
  BY <1>2, RoomFrame, Zenon DEF RingInv
<1>7. Whole'
  BY <1>2, WholeFrame, Zenon DEF RingInv
<1>8. Copied'
  <2>1. \A d \in Consumers : at'[d].pc \in {"any", "copy1", "copy2", "claim"} => V(at'[d].cur) <= V(rd)
    BY <1>1, Zenon DEF RingInv, Copied
  <2>2. \A d \in Consumers :
          at'[d].pc \in {"copy1", "copy2", "claim"} /\ at'[d].cur = rd =>
            V(rd) < V(wt) \/ (Buffered(d, "wt")' /\ V(rd) < V(buf'[d][2]))
    BY <1>1 DEF RingInv, Copied, Buffered
  <2>3. \A d \in Consumers :
          at'[d].pc \in {"copy2", "claim"} /\ at'[d].cur = rd => at'[d].val[1] = data[IndexOf(rd)][1]
    BY <1>1 DEF RingInv, Copied
  <2>4. \A d \in Consumers :
          at'[d].pc = "claim" /\ at'[d].cur = rd => at'[d].val[2] = data[IndexOf(rd)][2]
    BY <1>1 DEF RingInv, Copied
  <2> QED
    BY <2>1, <2>2, <2>3, <2>4, Zenon DEF Copied, V, IndexOf
<1>9. Alone'
  BY <1>0, AloneFrame, Zenon DEF RingInv
<1> QED
  BY <1>3, <1>4, <1>5, <1>6, <1>7, <1>8, <1>9, Zenon DEF RingInv

\* Returning from a pop changes nothing.
LEMMA PopIdle ==
  ASSUME TypeOK, TypeOK', RingInv, NEW c \in Consumers, Goto(c, "idle"), at[c].pc # "idle",
         UNCHANGED <<setup, rd, wt, ct, f, data, buf, sent, sFlag, rFlag, role>>
  PROVE  RingInv'
<1>0. c \in Threads /\ "idle" \in Pcs
  BY Zenon DEF Threads, Pcs
<1>1. /\ \A u \in Threads \ {c} : at'[u] = at[u] /\ buf'[u] = buf[u]
      /\ at'[c].pc = "idle"
  BY <1>0, GotoIs, Zenon
<1>2. \A k \in Nat : Has(c, k)' => Has(c, k)
  BY <1>1, Zenon DEF Has, Writing, Buffered, V
<1>3. /\ role[c] = "on" /\ (~MultiProducer => buf'[c] = None)
      /\ MultiProducer /\ Buffered(c, "wt")' => V(buf'[c][2]) = V(wt) + 1
  BY <1>0, Zenon DEF RingInv, Alone, PcsOk, Tokens, Buffered
<1> QED
  BY <1>0, <1>1, <1>2, <1>3, PopQuiet, Zenon

LEMMA PopBeginInv ==
  ASSUME TypeOK, TypeOK', RingInv, NEW c \in Consumers, PopBegin(c)
  PROVE  RingInv'
<1> USE DEF counters, elements, users, history
<1>0. c \in Threads /\ at[c] \in Locals /\ at \in [Threads -> Locals]
  BY Zenon DEF TypeOK, Threads
<1>1. /\ \A u \in Threads \ {c} : at'[u] = at[u] /\ buf'[u] = buf[u]
      /\ at'[c].pc = "any" /\ at'[c].cur = rd /\ role[c] = "on"
      /\ UNCHANGED <<setup, rd, wt, ct, f, data, buf, sent, sFlag, rFlag, role>>
  BY <1>0, Zenon DEF PopBegin, Locals
<1>2. \A k \in Nat : Has(c, k)' => Has(c, k)
  BY <1>1, Zenon DEF Has, Writing, Buffered, V
<1>3. /\ ~MultiProducer => buf'[c] = None
      /\ MultiProducer /\ Buffered(c, "wt")' => V(buf'[c][2]) = V(wt) + 1
  BY <1>0, <1>1, Zenon DEF RingInv, PcsOk, Tokens, Buffered
<1>4. V(rd) <= V(rd)
  BY VType DEF TypeOK
<1> QED
  BY <1>0, <1>1, <1>2, <1>3, <1>4, PopQuiet, Zenon

LEMMA PopLoadWtInv ==
  ASSUME TypeOK, TypeOK', RingInv, NEW c \in Consumers, PopLoadWt(c)
  PROVE  RingInv'
<1> USE DEF counters, elements, users, history
<1>0. /\ c \in Threads /\ at[c] \in Locals /\ at \in [Threads -> Locals] /\ at[c].pc = "any"
      /\ UNCHANGED <<setup, rd, wt, ct, f, data, buf, sent, sFlag, rFlag, role>>
      /\ buf[c] \in {None} \cup ({"wt", "f"} \X Counters)
  BY Zenon DEF TypeOK, Threads, PopLoadWt
<1>1. /\ role[c] = "on" /\ (~MultiProducer => buf'[c] = None)
      /\ MultiProducer /\ Buffered(c, "wt") => V(buf[c][2]) = V(wt) + 1
      /\ ~MultiConsumer => at[c].cur = rd
      /\ V(at[c].cur) <= V(rd)
  BY <1>0, Zenon DEF RingInv, Alone, PcsOk, Tokens, Copied
<1>2. /\ LoadWt(c) \in Counters /\ V(rd) \in Nat /\ V(wt) \in Nat /\ V(rd) <= V(wt)
      /\ rd \in Counters /\ wt \in Counters
  BY <1>0, LoadWtType, VType, Zenon DEF TypeOK, RingInv, Between
<1>3. \/ LoadWt(c) = wt
      \/ MultiProducer /\ Buffered(c, "wt") /\ buf[c] = <<"wt", LoadWt(c)>> /\ V(LoadWt(c)) = V(wt) + 1
  BY <1>0, <1>1 DEF LoadWt, Buffered
<1>4. CASE IndexOf(at[c].cur) # IndexOf(LoadWt(c))
  <2>1. Goto(c, "copy1") /\ "copy1" \in Pcs
    BY <1>4, Zenon DEF PopLoadWt, Pcs
  <2>2. /\ \A u \in Threads \ {c} : at'[u] = at[u] /\ buf'[u] = buf[u]
        /\ at'[c].pc = "copy1" /\ at'[c].cur = at[c].cur
    BY <1>0, <2>1, GotoIs, Zenon
  <2>3. \A k \in Nat : Has(c, k)' => Has(c, k)
    BY <1>0, <2>2, Zenon DEF Has, Writing, Buffered, V
  <2>4. at[c].cur = rd => V(rd) < V(wt) \/ (Buffered(c, "wt")' /\ V(rd) < V(buf'[c][2]))
    <3>1. at[c].cur = rd => LoadWt(c) # rd
      BY <1>4, Zenon
    <3>2. CASE LoadWt(c) = wt
      <4>1. at[c].cur = rd => V(rd) # V(wt)
        BY <1>2, <3>1, <3>2, VType, Zenon
      <4> QED
        BY <1>2, <4>1
    <3>3. CASE Buffered(c, "wt") /\ V(buf[c][2]) = V(wt) + 1
      <4>1. Buffered(c, "wt")' /\ buf'[c] = buf[c]
        BY <1>0, <3>3, Zenon DEF Buffered
      <4> QED
        BY <1>2, <3>3, <4>1
    <3> QED
      BY <1>1, <1>3, <3>2, <3>3, Zenon
  <2>5. Buffered(c, "wt")' = Buffered(c, "wt")
    BY <1>0, Zenon DEF Buffered
  <2> QED
    BY <1>0, <1>1, <2>2, <2>3, <2>4, <2>5, PopQuiet, Zenon
<1>5. CASE IndexOf(at[c].cur) = IndexOf(LoadWt(c)) /\ MultiProducer
  <2>1. /\ \A u \in Threads \ {c} : at'[u] = at[u] /\ buf'[u] = buf[u]
        /\ at'[c].pc = "flag" /\ at'[c].cur = at[c].cur /\ at'[c].flg = LoadWt(c)
    BY <1>0, <1>5 DEF PopLoadWt, Locals
  <2>2. \A k \in Nat : Has(c, k)' => Has(c, k)
    BY <1>0, <2>1, Zenon DEF Has, Writing, Buffered, V
  <2>3. Buffered(c, "wt")' = Buffered(c, "wt")
    BY <1>0, Zenon DEF Buffered
  <2>4. V(LoadWt(c)) <= V(wt) \/ buf'[c] = <<"wt", LoadWt(c)>>
    BY <1>0, <1>2, <1>3
  <2> QED
    BY <1>0, <1>1, <1>2, <1>5, <2>1, <2>2, <2>3, <2>4, PopQuiet, Zenon
<1>6. CASE IndexOf(at[c].cur) = IndexOf(LoadWt(c)) /\ ~MultiProducer
  BY <1>0, <1>6, PopIdle, Zenon DEF PopLoadWt
<1> QED
  BY <1>4, <1>5, <1>6, Zenon

LEMMA PopLoadFlagInv ==
  ASSUME TypeOK, TypeOK', RingInv, NEW c \in Consumers, PopLoadFlag(c)
  PROVE  RingInv'
<1> USE DEF counters, elements, users, history
<1>0. /\ c \in Threads /\ c \notin Producers /\ at[c].pc = "flag" /\ "take" \in Pcs
      /\ UNCHANGED <<setup, rd, wt, ct, f, data, buf, sent, sFlag, rFlag, role>>
  BY RingAssumption, Zenon DEF Threads, PopLoadFlag, Pcs
<1>1. CASE Goto(c, "idle")
  BY <1>0, <1>1, PopIdle, Zenon
<1>2. CASE Goto(c, "take")
  <2>1. /\ \A u \in Threads \ {c} : at'[u] = at[u] /\ buf'[u] = buf[u]
        /\ at'[c].pc = "take" /\ at'[c].flg = at[c].flg /\ at'[c].cur = at[c].cur
    BY <1>0, <1>2, GotoIs, Zenon
  <2>2. \A k \in Nat : Has(c, k)' => Has(c, k)
    BY <1>0, <2>1, Zenon DEF Has, Writing, Buffered, V
  <2>3. /\ role[c] = "on" /\ MultiProducer
        /\ Buffered(c, "wt") => V(buf[c][2]) = V(wt) + 1
        /\ at[c].flg \in Counters /\ (V(at[c].flg) <= V(wt) \/ buf[c] = <<"wt", at[c].flg>>)
        /\ ~MultiConsumer => at[c].cur = rd
    BY <1>0, Zenon DEF RingInv, Alone, PcsOk, Tokens, Target
  <2>4. Buffered(c, "wt")' = Buffered(c, "wt")
    BY <1>0, Zenon DEF Buffered
  <2> QED
    BY <1>0, <2>1, <2>2, <2>3, <2>4, PopQuiet, Zenon
<1> QED
  BY <1>1, <1>2, Zenon DEF PopLoadFlag

LEMMA PopTakeFlagInv ==
  ASSUME TypeOK, TypeOK', RingInv, NEW c \in Consumers, PopTakeFlag(c)
  PROVE  RingInv'
<1> USE DEF counters, elements, users, history
<1>0. /\ c \in Threads /\ c \notin Producers /\ at[c].pc = "take" /\ buf[c] = None /\ "move" \in Pcs
      /\ UNCHANGED <<setup, rd, wt, ct, data, buf, sent, sFlag, rFlag, role>>
  BY RingAssumption, Zenon DEF Threads, PopTakeFlag, Pcs, Fence
<1>1. CASE f[IndexOf(at[c].flg)] # at[c].flg
  BY <1>0, <1>1, PopIdle, Zenon DEF PopTakeFlag
<1>2. CASE f[IndexOf(at[c].flg)] = at[c].flg
  <2>1. Goto(c, "move") /\ f' = [f EXCEPT ![IndexOf(at[c].flg)] = NoFlag]
    BY <1>2, Zenon DEF PopTakeFlag
  <2>2. /\ \A u \in Threads \ {c} : at'[u] = at[u] /\ buf'[u] = buf[u]
        /\ at'[c].pc = "move" /\ at'[c].flg = at[c].flg /\ at'[c].cur = at[c].cur
    BY <1>0, <2>1, GotoIs, Zenon
  <2>3. role[c] = "on" /\ MultiProducer /\ at[c].flg \in Counters /\ (~MultiConsumer => at[c].cur = rd)
    BY <1>0, Zenon DEF RingInv, Alone, PcsOk, Tokens, Target
  <2>4. \A p \in Producers : p \in Threads \ {c} /\ at'[p] = at[p] /\ buf'[p] = buf[p]
    BY <1>0, <2>2, Zenon DEF Threads
  <2>5. Tokens'
    <3>1. PICK k \in Counters : k = at[c].flg
      BY <2>3, Zenon
    <3>2. Target(c) = k /\ Target(c)' = k
      BY <1>0, <2>2, <3>1, Zenon DEF Target
    <3>3. f[IndexOf(k)] = k /\ f' = [f EXCEPT ![IndexOf(k)] = NoFlag]
      BY <1>2, <2>1, <3>1, Zenon
    <3> QED
      BY <1>0, <2>2, <2>3, <3>2, <3>3, TokensTake, Zenon DEF RingInv
  <2>6. PcsOk'
    BY <1>0, <2>2, <2>3, PcsFrame, Zenon DEF RingInv
  <2>7. Between'
    BY <1>0, BetweenFrame, Zenon DEF RingInv
  <2>8. Room'
    BY <1>0, <2>4, RoomFrame, Zenon DEF RingInv
  <2>9. Whole'
    BY <1>0, <2>4, WholeFrame, Zenon DEF RingInv
  <2>10. Copied'
    <3>1. \A d \in Consumers : at'[d].pc \in {"any", "copy1", "copy2", "claim"} => at'[d] = at[d]
      BY <2>2, Zenon DEF Threads
    <3> QED
      BY <1>0, <3>1 DEF RingInv, Copied, Buffered, V, IndexOf
  <2>11. Alone'
    BY <1>0, <2>2, <2>3, AloneFrame, Zenon DEF RingInv
  <2> QED
    BY <2>5, <2>6, <2>7, <2>8, <2>9, <2>10, <2>11, Zenon DEF RingInv
<1> QED
  BY <1>1, <1>2, Zenon

LEMMA PopStoreWtInv ==
  ASSUME TypeOK, TypeOK', RingInv, NEW c \in Consumers, PopStoreWt(c)
  PROVE  RingInv'
<1> USE DEF counters, elements, users, history
<1>0. /\ c \in Threads /\ c \notin Producers /\ at[c].pc = "move" /\ "idle" \in Pcs /\ Goto(c, "idle")
      /\ buf \in [Threads -> {None} \cup ({"wt", "f"} \X Counters)]
  BY RingAssumption, Zenon DEF Threads, PopStoreWt, Pcs, TypeOK
<1>1. /\ \A u \in Threads \ {c} : at'[u] = at[u] /\ buf'[u] = buf[u]
      /\ at'[c].pc = "idle" /\ buf'[c] = <<"wt", Inc(at[c].flg)>>
      /\ UNCHANGED <<setup, rd, wt, ct, f, data, sent, sFlag, rFlag, role>>
  BY <1>0, GotoIs, Zenon DEF PopStoreWt, Store
<1>2. MultiProducer /\ role[c] = "on"
  BY <1>0, Zenon DEF RingInv, PcsOk, Alone
<1>3. at[c].flg = wt /\ V(wt) < V(ct)
  <2>1. Target(c) = at[c].flg /\ Target(c) = wt
    BY <1>0, <1>2, Zenon DEF Target, RingInv, Tokens
  <2>2. V(wt) \in Nat /\ Has(c, V(wt))
    BY <1>0, <2>1, VType, Zenon DEF Has, TypeOK
  <2> QED
    BY <1>0, <1>2, <2>1, <2>2, Zenon DEF RingInv, Tokens
<1>4. V(Inc(wt)) = V(wt) + 1 /\ V(wt) \in Nat
  BY <1>3, MayInc, Zenon
<1>5. \A k \in Nat : Has(c, k)' => Has(c, k)
  <2> SUFFICES ASSUME NEW k \in Nat, Has(c, k)' PROVE Has(c, k)
    BY Zenon
  <2>1. k + 1 = V(Inc(wt))
    BY <1>1, <1>3 DEF Has, Writing, Buffered, V
  <2>2. k = V(at[c].flg)
    BY <1>3, <1>4, <2>1
  <2> QED
    BY <1>0, <2>2, Zenon DEF Has, Target
<1>6. V(buf'[c][2]) = V(wt) + 1
  BY <1>1, <1>3, <1>4
<1> QED
  BY <1>0, <1>1, <1>2, <1>5, <1>6, PopQuiet, Zenon

LEMMA PopCopyInv ==
  ASSUME TypeOK, TypeOK', RingInv, NEW c \in Consumers, PopCopy(c)
  PROVE  RingInv'
<1> USE DEF counters, elements, users, history
<1>0. /\ c \in Threads /\ at[c] \in Locals /\ at \in [Threads -> Locals]
      /\ at[c].pc \in {"copy1", "copy2"} /\ at[c].val \in [{1, 2} -> Vals]
      /\ UNCHANGED <<setup, rd, wt, ct, f, data, buf, sent, sFlag, rFlag, role>>
  BY Zenon DEF TypeOK, Threads, PopCopy, Locals
<1>1. /\ \A u \in Threads \ {c} : at'[u] = at[u] /\ buf'[u] = buf[u]
      /\ at'[c].cur = at[c].cur
      /\ at[c].pc = "copy1" => at'[c].pc = "copy2" /\ at'[c].val[1] = data[IndexOf(at[c].cur)][1]
      /\ at[c].pc = "copy2" => /\ at'[c].pc = "claim" /\ at'[c].val[2] = data[IndexOf(at[c].cur)][2]
                               /\ at'[c].val[1] = at[c].val[1]
  <2>1. CASE at[c].pc = "copy1"
    <3>1. at' = [at EXCEPT ![c].val[1] = data[IndexOf(at[c].cur)][1], ![c].pc = "copy2"]
      BY <2>1, Zenon DEF PopCopy
    <3> QED
      BY <1>0, <2>1, <3>1, Zenon DEF Locals
  <2>2. CASE at[c].pc = "copy2"
    <3>1. at' = [at EXCEPT ![c].val[2] = data[IndexOf(at[c].cur)][2], ![c].pc = "claim"]
      BY <2>2 DEF PopCopy
    <3> QED
      BY <1>0, <2>2, <3>1 DEF Locals
  <2> QED
    BY <1>0, <2>1, <2>2, Zenon
<1>2. \A k \in Nat : Has(c, k)' => Has(c, k)
  BY <1>0, <1>1, Zenon DEF Has, Writing, Buffered, V
<1>3. /\ role[c] = "on" /\ (~MultiProducer => buf[c] = None)
      /\ MultiProducer /\ Buffered(c, "wt") => V(buf[c][2]) = V(wt) + 1
      /\ ~MultiConsumer => at[c].cur = rd
  BY <1>0, Zenon DEF RingInv, Alone, PcsOk, Tokens
<1>4. /\ V(at[c].cur) <= V(rd)
      /\ at[c].cur = rd => V(rd) < V(wt) \/ (Buffered(c, "wt") /\ V(rd) < V(buf[c][2]))
      /\ at[c].cur = rd /\ at[c].pc = "copy2" => at[c].val[1] = data[IndexOf(rd)][1]
  BY <1>0, Zenon DEF RingInv, Copied
<1>5. Buffered(c, "wt")' = Buffered(c, "wt")
  BY <1>0, Zenon DEF Buffered
<1>6. /\ at'[c].pc \in {"copy2", "claim"} /\ at'[c].cur = rd => at'[c].val[1] = data[IndexOf(rd)][1]
      /\ at'[c].pc = "claim" /\ at'[c].cur = rd => at'[c].val[2] = data[IndexOf(rd)][2]
      /\ at'[c].pc \in {"copy2", "claim"}
  BY <1>0, <1>1, <1>4, Zenon
<1> QED
  BY <1>0, <1>1, <1>2, <1>3, <1>4, <1>5, <1>6, PopQuiet, Zenon

\* The popper whose exchange succeeds copied the oldest item, which wt_ has
\* passed for everyone: its own store buffer is empty.
LEMMA ClaimsOldest ==
  ASSUME TypeOK, RingInv, NEW c \in Consumers, at[c].pc = "claim", Fence(c), PopClaimed(c)
  PROVE  /\ at[c].cur = rd /\ V(rd) < V(wt) /\ V(wt) <= V(Tail_)
         /\ V(Inc(rd)) = V(rd) + 1 /\ Inc(rd) \in Counters /\ V(rd) \in Nat
<1>1. c \in Threads /\ rd \in Counters /\ wt \in Counters /\ V(rd) \in Nat /\ V(wt) \in Nat /\ V(wt) < Wrap
      /\ Wrap \in Nat
  BY VType, RingAssumption, Zenon DEF TypeOK, Threads
<1>2. at[c].cur = rd
  BY <1>1, Zenon DEF PopClaimed, RingInv, Alone
<1>3. V(rd) < V(wt)
  BY <1>2, Zenon DEF RingInv, Copied, Fence, Buffered
<1>4. V(rd) + 1 < Wrap
  BY <1>1, <1>3
<1> QED
  BY <1>1, <1>2, <1>3, <1>4, VInc, Zenon DEF RingInv, Between

LEMMA PopClaimInv ==
  ASSUME TypeOK, TypeOK', RingInv, NEW c \in Consumers, PopClaim(c)
  PROVE  RingInv'
<1> USE DEF counters, elements, users, history
<1>0. /\ c \in Threads /\ c \notin Producers /\ at[c].pc = "claim" /\ Fence(c) /\ buf[c] = None
      /\ Goto(c, "idle") /\ "idle" \in Pcs
      /\ UNCHANGED <<setup, wt, ct, f, data, buf, sent, sFlag, rFlag, role>>
  BY RingAssumption, Zenon DEF Threads, PopClaim, Pcs, Fence
<1>1. CASE ~PopClaimed(c)
  BY <1>0, <1>1, PopIdle, Zenon DEF PopClaim
<1>2. CASE PopClaimed(c)
  <2>1. rd' = Inc(rd)
    BY <1>2, Zenon DEF PopClaim
  <2>2. /\ \A u \in Threads \ {c} : at'[u] = at[u] /\ buf'[u] = buf[u]
        /\ at'[c].pc = "idle"
    BY <1>0, GotoIs, Zenon
  <2>3. /\ at[c].cur = rd /\ V(rd) < V(wt) /\ V(rd') = V(rd) + 1 /\ V(rd) \in Nat /\ V(wt) \in Nat
        /\ V(ct) \in Nat /\ Size \in Nat /\ rd' \in Counters /\ V(Tail_) \in Nat
    BY <1>0, <1>2, <2>1, ClaimsOldest, VType, RingAssumption, Zenon DEF TypeOK, Tail_
  <2>4. \A p \in Producers : p \in Threads \ {c} /\ at'[p] = at[p] /\ buf'[p] = buf[p]
    BY <1>0, <2>2, Zenon DEF Threads
  <2>5. (MultiProducer' <=> MultiProducer) /\ Tail_' = Tail_ /\ role[c] = "on"
    BY <1>0, Zenon DEF MultiProducer, Tail_, RingInv, Alone
  <2>6. PcsOk'
    BY <1>0, <2>2, PcsFrame, Zenon DEF RingInv
  <2>7. Between'
    <3>1. V(wt) <= V(Tail_) /\ V(Tail_) < V(rd) + Size
      BY Zenon DEF RingInv, Between
    <3> QED
      BY <1>0, <2>3, <2>5, <3>1 DEF Between, V
  <2>8. Tokens'
    <3>1. \A k \in Nat : ~Has(c, k)'
      BY <1>0, <2>2, Zenon DEF Has, Buffered, Writing
    <3>2. V(ct) <= V(ct')
      BY <1>0, <2>3 DEF V
    <3>3. ~Buffered(c, "wt")' /\ at'[c].pc \notin {"move", "take", "flag"} \cup Writing
      BY <1>0, <2>2, Zenon DEF Buffered, Writing
    <3> QED
      BY <1>0, <2>2, <3>1, <3>2, <3>3, TokensFrame, Zenon DEF RingInv
  <2>9. Room'
    BY <1>0, <2>3, <2>4, <2>5 DEF RingInv, Room, RoomAt, V, Inc
  <2>10. Whole'
    <3>1. \A k \in Counters : V(rd') <= V(k) => V(rd) <= V(k)
      BY <2>3, VType
    <3>2. \A k : Written(k)' => Written(k)
      BY <2>4, Zenon DEF Written
    <3>3. \A p \in Producers : Item(p)' = Item(p)
      BY <1>0, Zenon DEF Item, MultiProducer
    <3> QED
      BY <1>0, <2>4, <2>5, <3>1, <3>2, <3>3, ZenonT(40) DEF RingInv, Whole, V, IndexOf
  <2>11. Copied'
    <3>1. ASSUME NEW d \in Consumers, at'[d].pc \in {"any", "copy1", "copy2", "claim"}
          PROVE  V(at'[d].cur) <= V(rd') /\ at'[d].cur # rd'
      <4>1. d \in Threads /\ at'[d] = at[d] /\ at[d].cur \in Counters
        BY <2>2, <3>1, Zenon DEF Threads, TypeOK, Locals
      <4>2. V(at[d].cur) <= V(rd) /\ V(at[d].cur) \in Nat
        BY <3>1, <4>1, VType, Zenon DEF RingInv, Copied
      <4> QED
        BY <2>3, <4>1, <4>2
    <3> QED
      BY <3>1, Zenon DEF Copied, V
  <2>12. Alone'
    <3>1. MultiConsumer' <=> MultiConsumer
      BY <1>0, Zenon DEF MultiConsumer
    <3>2. \A u \in Threads : at'[u].pc # "idle" => role'[u] = "on"
      BY <1>0, <2>2, Zenon DEF RingInv, Alone
    <3>3. ~MultiConsumer => \A d \in Consumers : at'[d].pc = "idle"
      BY <2>2, <2>5 DEF RingInv, Alone, Threads
    <3> QED
      BY <1>0, <2>5, <3>1, <3>2, <3>3, Zenon DEF RingInv, Alone
  <2> QED
    BY <2>6, <2>7, <2>8, <2>9, <2>10, <2>11, <2>12, Zenon DEF RingInv
<1> QED
  BY <1>1, <1>2, Zenon

-----------------------------------------------------------------------------
(* Stores that become visible, and admission. *)

\* A commit flag becomes visible: its element passes from t to the ring.
LEMMA TokensFlushF ==
  ASSUME TypeOK, TypeOK', Tokens, MultiProducer, NEW t \in Threads,
         buf[t] # None, buf[t][1] = "f", f' = [f EXCEPT ![IndexOf(buf[t][2])] = buf[t][2]],
         buf' = [buf EXCEPT ![t] = None], UNCHANGED <<setup, wt, ct, at>>
  PROVE  Tokens'
<1>0. /\ buf \in [Threads -> {None} \cup ({"wt", "f"} \X Counters)] /\ f \in [Slots -> Counters \cup {NoFlag}]
      /\ buf[t][2] \in Counters /\ buf'[t] = None /\ \A u \in Threads \ {t} : buf'[u] = buf[u]
  BY Zenon DEF TypeOK
<1>1. PICK k \in Counters : k = buf[t][2]
  BY <1>0, Zenon
<1>2. V(k) \in Nat /\ IndexOf(k) \in Slots /\ Has(t, V(k)) /\ k # NoFlag
  BY <1>1, VType, SlotType, RingAssumption DEF Has, Buffered, NoFlag, Counters
<1>3. at[t].pc \notin Writing \cup {"move"}
  BY Zenon DEF Tokens
<1>4. \A j \in Nat : ~Has(t, j)'
  BY <1>0, <1>3, Zenon DEF Has, Buffered
<1>5. \A u \in Threads \ {t} : \A j \in Nat : Has(u, j)' <=> Has(u, j)
  BY <1>0 DEF Has, Buffered, Target, V
<1>6. \A u \in Threads : Target(u)' = Target(u)
  BY Zenon DEF Target
<1>7. \A u \in Threads : ~Has(u, V(k))'
  <2>1. \A u \in Threads \ {t} : ~Has(u, V(k))
    BY <1>2, Zenon DEF Tokens
  <2> QED
    BY <1>2, <1>4, <1>5, <2>1, Zenon
<1>8. f'[IndexOf(k)] = k /\ \A i \in Slots \ {IndexOf(k)} : f'[i] = f[i]
  BY <1>0, <1>1, <1>2, Zenon
<1>9. \A i \in Slots : f'[i] # NoFlag =>
        /\ i = IndexOf(f'[i]) /\ V(wt) <= V(f'[i]) /\ V(f'[i]) < V(ct)
        /\ \A u \in Threads : ~Has(u, V(f[i]))'
  <2> SUFFICES ASSUME NEW i \in Slots, f'[i] # NoFlag
               PROVE  /\ i = IndexOf(f'[i]) /\ V(wt) <= V(f'[i]) /\ V(f'[i]) < V(ct)
                      /\ \A u \in Threads : ~Has(u, V(f[i]))'
    BY Zenon
  <2>1. CASE i = IndexOf(k)
    <3>1. V(wt) <= V(k) /\ V(k) < V(ct)
      BY <1>2, Zenon DEF Tokens
    <3>2. f'[i] = k
      BY <1>8, <2>1, Zenon
    <3>3. V(f[i])' = V(k)
      BY <3>2 DEF V
    <3>4. \A u \in Threads : ~Has(u, V(k))'
      BY <1>7, Zenon
    <3>5. V(k)' = V(k)
      BY Zenon DEF V
    <3> QED
      BY <2>1, <3>1, <3>2, <3>3, <3>4, <3>5, Zenon
  <2>2. CASE i # IndexOf(k)
    <3>1. f'[i] = f[i] /\ f[i] \in Counters
      BY <1>0, <1>8, <2>2, Zenon
    <3>2. /\ i = IndexOf(f[i]) /\ V(wt) <= V(f[i]) /\ V(f[i]) < V(ct) /\ V(f[i]) \in Nat
          /\ \A u \in Threads : ~Has(u, V(f[i]))
      BY <3>1, VType, Zenon DEF Tokens
    <3>3. PICK m \in Nat : m = V(f[i])
      BY <3>2, Zenon
    <3>4. \A u \in Threads : ~Has(u, m)'
      BY <1>4, <1>5, <3>2, <3>3, Zenon
    <3>5. V(f[i])' = m
      BY <3>1, <3>3 DEF V
    <3> QED
      BY <3>1, <3>2, <3>3, <3>4, <3>5, Zenon
  <2> QED
    BY <2>1, <2>2, Zenon
<1>10. \A u \in Threads : at'[u].pc \in Writing \cup {"move"} => buf'[u] = None
  BY <1>0, Zenon DEF Tokens
<1>11. \A u \in Threads : \A j \in Nat : Has(u, j)' => V(wt) <= j /\ j < V(ct)
  BY <1>4, <1>5, Zenon DEF Tokens
<1>12. \A u, x \in Threads : \A j \in Nat : Has(u, j)' /\ Has(x, j)' => u = x
  BY <1>4, <1>5 DEF Tokens
<1>13. \A u \in Threads : at'[u].pc = "move" => Target(u)' = wt
  BY <1>6, Zenon DEF Tokens
<1>14. \A u \in Threads : Buffered(u, "wt")' => V(buf'[u][2]) = V(wt) + 1
  BY <1>0, Zenon DEF Tokens, Buffered
<1>15. \A u \in Threads : at'[u].pc \in {"take", "flag"} =>
        Target(u)' \in Counters /\ (V(Target(u)') <= V(wt) \/ buf'[u] = <<"wt", Target(u)'>>)
  BY <1>0, <1>6 DEF Tokens
<1>16. \A p \in Producers : at'[p].pc = "take" => at'[p].flg = at'[p].cur
  BY Zenon DEF Tokens
<1> QED
  BY <1>9, <1>10, <1>11, <1>12, <1>13, <1>14, <1>15, <1>16, ZenonT(40) DEF Tokens, V, IndexOf

\* wt_ moves over one element, which leaves the hands of t.
LEMMA TokensFlushWt ==
  ASSUME TypeOK, TypeOK', Tokens, MultiProducer, NEW t \in Threads,
         buf[t] # None, buf[t][1] = "wt", wt' = buf[t][2],
         buf' = [buf EXCEPT ![t] = None], UNCHANGED <<setup, f, ct, at>>
  PROVE  /\ Tokens'
         /\ V(wt') = V(wt) + 1 /\ V(wt) < V(ct) /\ V(wt) \in Nat
<1>0. /\ buf \in [Threads -> {None} \cup ({"wt", "f"} \X Counters)] /\ f \in [Slots -> Counters \cup {NoFlag}]
      /\ buf'[t] = None /\ \A u \in Threads \ {t} : buf'[u] = buf[u]
  BY Zenon DEF TypeOK
<1>1. V(wt') = V(wt) + 1 /\ V(wt) \in Nat /\ Has(t, V(wt)) /\ V(ct) \in Nat
  <2>1. V(wt') = V(wt) + 1
    BY Zenon DEF Tokens, Buffered
  <2>2. V(wt) \in Nat /\ V(ct) \in Nat
    BY VType, Zenon DEF TypeOK
  <2> QED
    BY <2>1, <2>2, Zenon DEF Has, Buffered
<1>2. V(wt) < V(ct) /\ \A u \in Threads \ {t} : ~Has(u, V(wt))
  BY <1>1, Zenon DEF Tokens
<1>3. at[t].pc \notin Writing \cup {"move"}
  BY Zenon DEF Tokens
<1>4. \A j \in Nat : ~Has(t, j)'
  BY <1>0, <1>3, Zenon DEF Has, Buffered
<1>5. \A u \in Threads \ {t} : \A j \in Nat : Has(u, j)' <=> Has(u, j)
  BY <1>0 DEF Has, Buffered, Target, V
<1>6. \A u \in Threads : Target(u)' = Target(u)
  BY Zenon DEF Target
<1>7. \A u \in Threads : ~Buffered(u, "wt")' /\ at[u].pc # "move"
  <2>1. ASSUME NEW u \in Threads \ {t} PROVE ~Buffered(u, "wt")' /\ at[u].pc # "move"
    <3>1. CASE Buffered(u, "wt")'
      <4>1. V(buf[u][2]) = V(wt) + 1 /\ Buffered(u, "wt")
        BY <1>0, <3>1, Zenon DEF Tokens, Buffered
      <4> QED
        BY <1>1, <1>2, <4>1, Zenon DEF Has
    <3>2. CASE at[u].pc = "move"
      <4>1. Target(u) = wt
        BY <3>2, Zenon DEF Tokens
      <4> QED
        BY <1>1, <1>2, <3>2, <4>1, Zenon DEF Has
    <3> QED
      BY <3>1, <3>2, Zenon
  <2>2. ~Buffered(t, "wt")' /\ at[t].pc # "move"
    BY <1>0, <1>3, Zenon DEF Buffered
  <2> QED
    BY <2>1, <2>2, Zenon
<1>8. \A u \in Threads : \A j \in Nat : Has(u, j)' => V(wt') <= j /\ j < V(ct)
  <2> SUFFICES ASSUME NEW u \in Threads, NEW j \in Nat, Has(u, j)' PROVE V(wt') <= j /\ j < V(ct)
    BY Zenon
  <2>1. u # t /\ Has(u, j)
    BY <1>4, <1>5, Zenon
  <2>2. V(wt) <= j /\ j < V(ct) /\ j # V(wt)
    BY <1>2, <2>1, Zenon DEF Tokens
  <2> QED
    BY <1>1, <2>2
<1>9. \A i \in Slots : f[i] # NoFlag =>
        /\ i = IndexOf(f[i]) /\ V(wt') <= V(f[i]) /\ V(f[i]) < V(ct)
        /\ \A u \in Threads : ~Has(u, V(f[i]))'
  <2> SUFFICES ASSUME NEW i \in Slots, f[i] # NoFlag
               PROVE  /\ i = IndexOf(f[i]) /\ V(wt') <= V(f[i]) /\ V(f[i]) < V(ct)
                      /\ \A u \in Threads : ~Has(u, V(f[i]))'
    BY Zenon
  <2>1. f[i] \in Counters /\ V(f[i]) \in Nat
    BY <1>0, VType, Zenon
  <2>2. /\ i = IndexOf(f[i]) /\ V(wt) <= V(f[i]) /\ V(f[i]) < V(ct)
        /\ \A u \in Threads : ~Has(u, V(f[i]))
    BY Zenon DEF Tokens
  <2>3. V(f[i]) # V(wt)
    BY <1>1, <2>2, Zenon
  <2>4. PICK m \in Nat : m = V(f[i])
    BY <2>1, Zenon
  <2>5. \A u \in Threads : ~Has(u, m)'
    BY <1>4, <1>5, <2>2, <2>4, Zenon
  <2>6. V(f[i])' = m
    BY <2>4, Zenon DEF V
  <2> QED
    BY <1>1, <2>1, <2>2, <2>3, <2>5, <2>6
<1>10. \A u \in Threads : at'[u].pc \in Writing \cup {"move"} => buf'[u] = None
  BY <1>0, Zenon DEF Tokens
<1>12. \A u, x \in Threads : \A j \in Nat : Has(u, j)' /\ Has(x, j)' => u = x
  BY <1>4, <1>5 DEF Tokens
<1>15. \A u \in Threads : at'[u].pc \in {"take", "flag"} =>
        Target(u)' \in Counters /\ V(Target(u)') <= V(wt')
  <2> SUFFICES ASSUME NEW u \in Threads, at'[u].pc \in {"take", "flag"}
               PROVE  Target(u)' \in Counters /\ V(Target(u)') <= V(wt')
    BY Zenon
  <2>1. Target(u) \in Counters /\ (V(Target(u)) <= V(wt) \/ buf[u] = <<"wt", Target(u)>>)
    BY Zenon DEF Tokens
  <2>2. V(Target(u)) \in Nat
    BY <2>1, VType, Zenon
  <2>3. CASE V(Target(u)) <= V(wt)
    BY <1>1, <1>6, <2>1, <2>2, <2>3
  <2>4. CASE buf[u] = <<"wt", Target(u)>>
    <3>1. u = t
      BY <1>0, <1>7, <2>4 DEF Buffered, None
    <3> QED
      BY <1>1, <1>6, <2>1, <2>2, <2>4, <3>1
  <2> QED
    BY <2>1, <2>3, <2>4, Zenon
<1>16. \A p \in Producers : at'[p].pc = "take" => at'[p].flg = at'[p].cur
  BY Zenon DEF Tokens
<1>17. Tokens'
  BY <1>7, <1>8, <1>9, <1>10, <1>12, <1>15, <1>16, Zenon DEF Tokens, V, IndexOf
<1> QED
  BY <1>1, <1>2, <1>17, Zenon

LEMMA FlushInv ==
  ASSUME TypeOK, TypeOK', RingInv, NEW t \in Threads, Flush(t)
  PROVE  RingInv'
<1> USE DEF counters, elements, users, history
<1>0. /\ buf \in [Threads -> {None} \cup ({"wt", "f"} \X Counters)]
      /\ buf[t] # None /\ buf' = [buf EXCEPT ![t] = None]
      /\ UNCHANGED <<setup, rd, ct, data, at, sent, sFlag, rFlag, role>>
  BY Zenon DEF TypeOK, Flush, Store
<1>1. /\ MultiProducer /\ MultiProducer' /\ Tail_ = ct /\ Tail_' = ct
      /\ (MultiConsumer' <=> MultiConsumer)
      /\ buf'[t] = None /\ \A u \in Threads \ {t} : buf'[u] = buf[u]
  BY <1>0, Zenon DEF RingInv, PcsOk, MultiProducer, MultiConsumer, Tail_
<1>2. PcsOk'
  BY <1>0, <1>1, Zenon DEF RingInv, PcsOk
<1>3. Room'
  BY <1>0, <1>1, Zenon DEF RingInv, Room, RoomAt, V, Inc
<1>4. Whole'
  BY <1>0, <1>1, Zenon DEF RingInv, Whole, Written, Item, V, IndexOf
<1>5. Alone'
  BY <1>0, <1>1, Zenon DEF RingInv, Alone
<1>6. CASE buf[t][1] = "f"
  <2>1. f' = [f EXCEPT ![IndexOf(buf[t][2])] = buf[t][2]] /\ wt' = wt
    BY <1>6, Zenon DEF Flush
  <2>2. Tokens'
    BY <1>0, <1>1, <1>6, <2>1, TokensFlushF, Zenon DEF RingInv
  <2>3. Between'
    BY <1>0, <2>1, BetweenFrame, Zenon DEF RingInv
  <2>4. Copied'
    <3>1. \A c \in Consumers : (Buffered(c, "wt") => Buffered(c, "wt")' /\ buf'[c] = buf[c])
      BY <1>1, <1>6, Zenon DEF Buffered, Threads
    <3> QED
      BY <1>0, <2>1, <3>1, Zenon DEF RingInv, Copied, V, IndexOf
  <2> QED
    BY <1>2, <1>3, <1>4, <1>5, <2>2, <2>3, <2>4, Zenon DEF RingInv
<1>7. CASE buf[t][1] = "wt"
  <2>1. wt' = buf[t][2] /\ f' = f
    BY <1>7, Zenon DEF Flush
  <2>2. Tokens' /\ V(wt') = V(wt) + 1 /\ V(wt) < V(ct) /\ V(wt) \in Nat
    BY <1>0, <1>1, <1>7, <2>1, TokensFlushWt, Zenon DEF RingInv
  <2>3. V(rd) \in Nat /\ V(ct) \in Nat /\ Size \in Nat /\ V(rd) <= V(wt) /\ V(ct) < V(rd) + Size
    BY <1>1, VType, RingAssumption, Zenon DEF TypeOK, RingInv, Between
  <2>4. Between'
    BY <1>0, <1>1, <2>2, <2>3 DEF Between, V
  <2>5. Copied'
    <3>1. V(rd) < V(wt')
      BY <2>2, <2>3
    <3> QED
      BY <1>0, <3>1, Zenon DEF RingInv, Copied, V, IndexOf
  <2> QED
    BY <1>2, <1>3, <1>4, <1>5, <2>2, <2>4, <2>5, Zenon DEF RingInv
<1> QED
  BY <1>0, <1>6, <1>7, Zenon

\* Coming and going leaves the ring alone, and a single-sided ring admits one.
LEMMA AdmitInv ==
  ASSUME TypeOK, TypeOK', RingInv, NEW t \in Threads,
         \/ t \in Producers /\ (ReadySending(t) \/ ShutSending(t))
         \/ t \in Consumers /\ (Connect(t) \/ Disconnect(t))
  PROVE  RingInv'
<1> USE DEF counters, elements, users, history
<1>0. UNCHANGED <<setup, rd, wt, ct, f, data, buf, at, sent>>
  BY Zenon DEF ReadySending, ShutSending, Connect, Disconnect
<1>1. (MultiProducer' <=> MultiProducer) /\ (MultiConsumer' <=> MultiConsumer) /\ Tail_' = Tail_
  BY <1>0, Zenon DEF MultiProducer, MultiConsumer, Tail_
<1>2. PcsOk'
  BY <1>0, <1>1, Zenon DEF RingInv, PcsOk
<1>3. Between'
  BY <1>0, BetweenFrame, Zenon DEF RingInv
<1>4. Tokens'
  <2>1. \A u \in Threads \ {t} : at'[u] = at[u] /\ buf'[u] = buf[u]
    BY <1>0, Zenon
  <2>2. \A k \in Nat : Has(t, k)' => Has(t, k)
    BY <1>0, Zenon DEF Has, Buffered, Target, V
  <2>3. V(ct) <= V(ct')
    BY <1>0, VType DEF TypeOK, V
  <2>4. Target(t)' = Target(t) /\ Buffered(t, "wt")' = Buffered(t, "wt")
    BY <1>0, Zenon DEF Target, Buffered
  <2>5. MultiProducer =>
          /\ at'[t].pc \in Writing \cup {"move"} => buf'[t] = None
          /\ at'[t].pc = "move" => Target(t)' = wt
          /\ Buffered(t, "wt")' => V(buf'[t][2]) = V(wt) + 1
          /\ at'[t].pc \in {"take", "flag"} =>
               /\ Target(t)' \in Counters
               /\ V(Target(t)') <= V(wt) \/ buf'[t] = <<"wt", Target(t)'>>
          /\ t \in Producers /\ at'[t].pc = "take" => at'[t].flg = at'[t].cur
    BY <1>0, <2>4, Zenon DEF RingInv, Tokens
  <2> QED
    BY <1>0, <2>1, <2>2, <2>3, <2>5, TokensFrame, Zenon DEF RingInv
<1>5. Room'
  BY <1>0, RoomFrame, Zenon DEF RingInv
<1>6. Whole'
  BY <1>0, WholeFrame, Zenon DEF RingInv
<1>7. Copied'
  BY <1>0, CopiedFrame, Zenon DEF RingInv
<1>8. Alone'
  <2>0. role \in [Threads -> {"on", "off", "shut"}] /\ Producers \subseteq Threads /\ Consumers \subseteq Threads
    BY Zenon DEF TypeOK, Threads
  <2>1. CASE t \in Producers /\ ReadySending(t)
    BY <1>0, <1>1, <2>0, <2>1, RingAssumption, Zenon DEF ReadySending, SenderAdmitted, RingInv, Alone
  <2>2. CASE t \in Producers /\ ShutSending(t)
    BY <1>0, <1>1, <2>0, <2>2, RingAssumption, Zenon DEF ShutSending, RingInv, Alone
  <2>3. CASE t \in Consumers /\ Connect(t)
    BY <1>0, <1>1, <2>0, <2>3, RingAssumption, Zenon DEF Connect, ReceiverAdmitted, RingInv, Alone
  <2>4. CASE t \in Consumers /\ Disconnect(t)
    BY <1>0, <1>1, <2>0, <2>4, RingAssumption, Zenon DEF Disconnect, RingInv, Alone
  <2> QED
    BY <2>1, <2>2, <2>3, <2>4, Zenon
<1> QED
  BY <1>2, <1>3, <1>4, <1>5, <1>6, <1>7, <1>8, Zenon DEF RingInv

LEMMA RingInit ==
  ASSUME Init
  PROVE  TypeOK /\ RingInv
<1>1. TypeOK
  <2>1. <<None, None>> \in [{1, 2} -> Vals]
    BY DEF Vals
  <2>2. at \in [Threads -> Locals]
    BY IdleType, Zenon DEF Init
  <2>3. /\ data \in [Slots -> [{1, 2} -> Vals]] /\ f \in [Slots -> Counters \cup {NoFlag}]
        /\ buf \in [Threads -> {None} \cup ({"wt", "f"} \X Counters)]
        /\ sent \in [Producers -> Nat] /\ role \in [Threads -> {"on", "off", "shut"}]
    BY <2>1, Zenon DEF Init
  <2> QED
    BY <2>2, <2>3, VType, Zenon DEF Init, TypeOK
<1>2. /\ rd = Start /\ wt = Start /\ ct = Start /\ Tail_ = Start /\ V(Start) = 0
      /\ \A t \in Threads : at[t].pc = "idle" /\ buf[t] = None
      /\ \A i \in Slots : f[i] = NoFlag
      /\ Producers \subseteq Threads /\ Consumers \subseteq Threads
  BY VType, Zenon DEF Init, Tail_, Idle, Threads
<1>3. PcsOk
  BY <1>2, Zenon DEF PcsOk
<1>4. Between
  BY <1>2, RingAssumption DEF Between
<1>5. Tokens
  <2>1. \A t \in Threads : \A k \in Nat : ~Has(t, k) /\ ~Buffered(t, "wt")
    BY <1>2, Zenon DEF Has, Buffered, Writing
  <2> QED
    BY <1>2, <2>1, Zenon DEF Tokens, Writing
<1>6. Room
  BY <1>2, Zenon DEF Room, RoomAt
<1>7. Whole
  <2>1. \A k \in Counters : ~(V(rd) <= V(k) /\ V(k) < V(Tail_))
    BY <1>2, VType
  <2> QED
    BY <1>2, <2>1, Zenon DEF Whole
<1>8. Copied
  BY <1>2, Zenon DEF Copied
<1>9. Alone
  <2>1. ~MultiProducer => \A p \in Producers : role[p] # "on"
    BY <1>2, RingAssumption, Zenon DEF Init
  <2>2. ~MultiConsumer => \A c \in Consumers : role[c] # "on"
    BY <1>2, RingAssumption, Zenon DEF Init
  <2> QED
    BY <1>2, <2>1, <2>2, Zenon DEF Alone
<1> QED
  BY <1>1, <1>3, <1>4, <1>5, <1>6, <1>7, <1>8, <1>9, Zenon DEF RingInv

LEMMA RingStep ==
  ASSUME TypeOK, RingInv, NoLap', [Next]_vars
  PROVE  TypeOK' /\ RingInv'
<1>1. ASSUME NEW p \in Producers, Push(p)
      PROVE  TypeOK' /\ RingInv'
  <2>1. TypeOK'
    BY <1>1, PushType, Zenon
  <2> QED
    BY <1>1, <2>1, PushBeginInv, PushCheckInv, PushClaimInv, PushWriteInv, PushAddInv, PushCommitInv,
       PushLoadFlagInv, PushLoadWtInv, PushTakeFlagInv, PushStoreWtInv, Zenon DEF Push
<1>2. ASSUME NEW c \in Consumers, Pop(c)
      PROVE  TypeOK' /\ RingInv'
  <2>1. TypeOK'
    BY <1>2, PopType, Zenon
  <2> QED
    BY <1>2, <2>1, PopBeginInv, PopLoadWtInv, PopLoadFlagInv, PopTakeFlagInv, PopStoreWtInv, PopCopyInv,
       PopClaimInv, Zenon DEF Pop
<1>3. ASSUME NEW t \in Threads, Flush(t)
      PROVE  TypeOK' /\ RingInv'
  BY <1>3, AdmitType, FlushInv, Zenon
<1>4. ASSUME NEW p \in Producers, ReadySending(p) \/ ShutSending(p)
      PROVE  TypeOK' /\ RingInv'
  <2>1. p \in Threads
    BY Zenon DEF Threads
  <2> QED
    BY <1>4, <2>1, AdmitType, AdmitInv, Zenon
<1>5. ASSUME NEW c \in Consumers, Connect(c) \/ Disconnect(c)
      PROVE  TypeOK' /\ RingInv'
  <2>1. c \in Threads
    BY Zenon DEF Threads
  <2> QED
    BY <1>5, <2>1, AdmitType, AdmitInv, Zenon
<1>6. ASSUME UNCHANGED vars
      PROVE  TypeOK' /\ RingInv'
  <2>1. TypeOK'
    BY <1>6, Zenon DEF vars, TypeOK
  <2>2. /\ UNCHANGED <<setup, rd, wt, ct, f, data, buf, at, sent, sFlag, rFlag, role>>
        /\ (MultiProducer' <=> MultiProducer) /\ (MultiConsumer' <=> MultiConsumer)
    BY <1>6, Zenon DEF vars, MultiProducer, MultiConsumer
  <2>3. PcsOk' /\ Alone'
    BY <2>2, ZenonT(40) DEF RingInv, PcsOk, Alone
  <2>4. Between' /\ Room' /\ Whole' /\ Copied'
    BY <2>2, BetweenFrame, RoomFrame, WholeFrame, CopiedFrame, Zenon DEF RingInv
  <2>5. Tokens'
    <3>1. wt' = wt /\ ct' = ct /\ f' = f /\ at' = at /\ buf' = buf
      BY <2>2, Zenon
    <3>2. \A t \in Threads : Target(t)' = Target(t) /\ \A x : Buffered(t, x)' <=> Buffered(t, x)
      BY <3>1, Zenon DEF Buffered, Target
    <3>3. \A t \in Threads : \A k : Has(t, k)' <=> Has(t, k)
      BY <3>1, <3>2 DEF Has
    <3> QED
      BY <2>2, <3>1, <3>2, <3>3, SMTT(30) DEF RingInv, Tokens
  <2> QED
    BY <2>1, <2>3, <2>4, <2>5, Zenon DEF RingInv
<1> QED
  BY <1>1, <1>2, <1>3, <1>4, <1>5, <1>6, Zenon DEF Next

LEMMA RingAlways == Spec /\ []NoLap => [](TypeOK /\ RingInv)
<1>1. Init => TypeOK /\ RingInv
  BY RingInit, Zenon
<1>2. TypeOK /\ RingInv /\ NoLap' /\ [Next]_vars => (TypeOK /\ RingInv)'
  BY RingStep, Zenon
<1> QED
  BY <1>1, <1>2, PTL DEF Spec

\* As long as fewer items than the counters count (2^32) have been pushed,
\* wt_ stays between rd_ and ct_ and no pusher laps the readers, whatever
\* stale values of wt_ push and pop store.
THEOREM WtStaysBetween == Spec /\ []NoLap => []WtBetween
<1>1. TypeOK /\ RingInv => WtBetween
  <2> SUFFICES ASSUME TypeOK, RingInv PROVE WtBetween
    BY Zenon
  <2>1. /\ rd \in Counters /\ wt \in Counters /\ ct \in Counters /\ Tail_ \in Counters /\ Size \in Nat
        /\ V(rd) \in Nat /\ V(wt) \in Nat /\ V(ct) \in Nat /\ V(Tail_) \in Nat
    BY VType, RingAssumption, Zenon DEF TypeOK, Tail_
  <2>2. V(rd) <= V(wt) /\ V(wt) <= V(Tail_) /\ V(Tail_) < V(rd) + Size /\ V(rd) <= V(Tail_)
    BY <2>1 DEF RingInv, Between
  <2>3. Ahead(Tail_, rd) = V(Tail_) - V(rd) /\ Ahead(wt, rd) = V(wt) - V(rd)
    BY <2>1, <2>2, AheadV, Zenon
  <2>4. MultiProducer => Tail_ = ct
    BY Zenon DEF Tail_
  <2> QED
    BY <2>1, <2>2, <2>3, <2>4 DEF WtBetween
<1> QED
  BY <1>1, RingAlways, PTL

-----------------------------------------------------------------------------
(* The ring as a queue. *)

LEMMA SameSeq ==
  ASSUME NEW S, NEW a \in Seq(S), NEW b \in Seq(S), Len(a) = Len(b),
         \A k \in 1 .. Len(a) : a[k] = b[k]
  PROVE  a = b
<1>1. /\ a = [k \in 1 .. Len(a) |-> a[k]]
      /\ b = [k \in 1 .. Len(b) |-> b[k]]
  OBVIOUS
<1> QED
  BY <1>1, Zenon

LEMMA AppendIs ==
  ASSUME NEW S, NEW n \in Nat, NEW q \in [1 .. n -> S], NEW r \in [1 .. n + 1 -> S],
         \A k \in 1 .. n : r[k] = q[k]
  PROVE  r = Append(q, r[n + 1]) /\ Len(q) = n
<1>1. q \in Seq(S) /\ Len(q) = n /\ r \in Seq(S) /\ Len(r) = n + 1
  OBVIOUS
<1>2. r[n + 1] \in S
  OBVIOUS
<1>3. PICK e \in S : e = r[n + 1]
  BY <1>2, Zenon
<1>4. Append(q, e) \in Seq(S) /\ Len(Append(q, e)) = n + 1
  BY <1>1
<1>5. \A k \in 1 .. n + 1 : Append(q, e)[k] = r[k]
  BY <1>1, <1>3
<1> QED
  BY <1>1, <1>3, <1>4, <1>5, SameSeq, Zenon

LEMMA TailIs ==
  ASSUME NEW S, NEW n \in Nat \ {0}, NEW q \in [1 .. n -> S], NEW r \in [1 .. n - 1 -> S],
         \A k \in 1 .. n - 1 : r[k] = q[k + 1]
  PROVE  r = Tail(q) /\ q # <<>> /\ Head(q) = q[1]
<1>1. q \in Seq(S) /\ Len(q) = n /\ r \in Seq(S) /\ Len(r) = n - 1
  OBVIOUS
<1>2. q # <<>> /\ Head(q) = q[1]
  BY <1>1
<1>3. Tail(q) \in Seq(S) /\ Len(Tail(q)) = n - 1
  BY <1>1, <1>2
<1>4. \A k \in 1 .. n - 1 : Tail(q)[k] = r[k]
  BY <1>1, <1>2
<1> QED
  BY <1>1, <1>2, <1>3, <1>4, SameSeq, Zenon

Writer(p, c) == MultiProducer /\ at[p].pc \in {"write1", "write2"} /\ at[p].cur = c

\* An element in the making has one writer.
LEMMA HoldsWriter ==
  ASSUME TypeOK, RingInv, NEW p \in Producers, NEW c \in Counters, Writer(p, c)
  PROVE  Holds(c) = Item(p) /\ \A q \in Producers : Writer(q, c) => q = p
<1>1. \A q \in Producers : Writer(q, c) => q = p
  <2> SUFFICES ASSUME NEW q \in Producers, Writer(q, c) PROVE q = p
    BY Zenon
  <2>1. Has(p, V(c)) /\ Has(q, V(c)) /\ V(c) \in Nat /\ p \in Threads /\ q \in Threads
    BY VType, Zenon DEF Has, Writing, Writer, Threads
  <2> QED
    BY <2>1, Zenon DEF RingInv, Tokens, Writer
<1>2. PICK w : w = CHOOSE q \in Producers : at[q].pc \in {"write1", "write2"} /\ at[q].cur = c
  BY Zenon
<1>3. w \in Producers /\ at[w].pc \in {"write1", "write2"} /\ at[w].cur = c
  BY <1>2, Zenon DEF Writer
<1>4. w = p
  BY <1>1, <1>3, Zenon DEF Writer
<1> QED
  BY <1>1, <1>2, <1>4, Zenon DEF Holds, Writer

LEMMA HoldsData ==
  ASSUME NEW c, \A p \in Producers : ~Writer(p, c)
  PROVE  Holds(c) = data[IndexOf(c)][1]
  BY Zenon DEF Holds, Writer

LEMMA HoldsType ==
  ASSUME TypeOK, RingInv, NEW c \in Counters
  PROVE  Holds(c) \in Vals
<1>1. CASE \E p \in Producers : Writer(p, c)
  <2>1. PICK p \in Producers : Writer(p, c)
    BY <1>1, Zenon
  <2>2. Item(p) \in Vals
    BY DEF Item, Vals, TypeOK
  <2> QED
    BY <2>1, <2>2, HoldsWriter, Zenon
<1>2. CASE \A p \in Producers : ~Writer(p, c)
  <2>1. IndexOf(c) \in Slots
    BY SlotType, Zenon
  <2> QED
    BY <1>2, <2>1, HoldsData DEF TypeOK
<1> QED
  BY <1>1, <1>2, Zenon

\* Contents lists the elements from rd_ to the tail.
LEMMA ContentsIs ==
  ASSUME TypeOK, RingInv
  PROVE  /\ V(Tail_) - V(rd) \in Nat /\ V(Tail_) - V(rd) < Size
         /\ V(Tail_) \in Nat /\ V(rd) \in Nat /\ Tail_ \in Counters /\ rd \in Counters
         /\ Contents \in [1 .. V(Tail_) - V(rd) -> Vals]
         /\ \A k \in 1 .. V(Tail_) - V(rd) : \A c \in Counters : V(c) = V(rd) + k - 1 => Contents[k] = Holds(c)
         /\ \A k \in 1 .. V(Tail_) - V(rd) : \E c \in Counters : V(c) = V(rd) + k - 1
<1>1. /\ rd \in Counters /\ Tail_ \in Counters /\ V(rd) \in Nat /\ V(Tail_) \in Nat
      /\ V(Tail_) < Wrap /\ Wrap \in Nat /\ Size \in Nat
  BY VType, RingAssumption, Zenon DEF TypeOK, Tail_
<1>2. V(rd) <= V(Tail_) /\ V(Tail_) < V(rd) + Size
  <2>1. V(wt) \in Nat
    BY VType, Zenon DEF TypeOK
  <2> QED
    BY <1>1, <2>1 DEF RingInv, Between
<1>3. Ahead(Tail_, rd) = V(Tail_) - V(rd)
  BY <1>1, <1>2, AheadV, Zenon
<1>4. ASSUME NEW k \in 1 .. V(Tail_) - V(rd)
      PROVE  (rd + k - 1) % Wrap \in Counters /\ V((rd + k - 1) % Wrap) = V(rd) + k - 1
  <2>1. PICK j \in Nat : j = k - 1
    BY <1>1
  <2>2. V(rd) + j < Wrap
    BY <1>1, <1>2, <2>1
  <2>3. rd + k - 1 = rd + j /\ V(rd) + k - 1 = V(rd) + j
    BY <1>1, <2>1, RingAssumption, Zenon DEF Counters
  <2>4. (rd + j) % Wrap \in Counters /\ V((rd + j) % Wrap) = V(rd) + j
    BY <1>1, <2>2, VAdd, Zenon
  <2> QED
    BY <2>3, <2>4, Zenon
<1>5. Contents = [k \in 1 .. V(Tail_) - V(rd) |-> Holds((rd + k - 1) % Wrap)]
  BY <1>3, Zenon DEF Contents
<1>6. \A k \in 1 .. V(Tail_) - V(rd) : Holds((rd + k - 1) % Wrap) \in Vals
  BY <1>4, HoldsType, Zenon
<1>7. Contents \in [1 .. V(Tail_) - V(rd) -> Vals]
  BY <1>5, <1>6, Zenon
<1>8. ASSUME NEW k \in 1 .. V(Tail_) - V(rd), NEW c \in Counters, V(c) = V(rd) + k - 1
      PROVE  Contents[k] = Holds(c)
  <2>1. c = (rd + k - 1) % Wrap
    BY <1>4, <1>8, VType, Zenon
  <2> QED
    BY <1>5, <2>1, Zenon
<1> QED
  BY <1>1, <1>2, <1>4, <1>7, <1>8

Shape ==
  LET n == V(Tail_) - V(rd)
  IN  /\ n \in Nat /\ n < Size
      /\ V(Tail_) \in Nat /\ V(rd) \in Nat /\ Tail_ \in Counters /\ rd \in Counters
      /\ Contents \in [1 .. n -> Vals]
      /\ \A k \in 1 .. n : \A c \in Counters : V(c) = V(rd) + k - 1 => Contents[k] = Holds(c)
      /\ \A k \in 1 .. n : \E c \in Counters : V(c) = V(rd) + k - 1
      /\ \A c \in Counters : \A p \in Producers : Writer(p, c) => Holds(c) = Item(p)
      /\ \A c \in Counters : (\A p \in Producers : ~Writer(p, c)) => Holds(c) = data[IndexOf(c)][1]

LEMMA ShapeNow == TypeOK /\ RingInv => Shape
<1> SUFFICES ASSUME TypeOK, RingInv PROVE Shape
  BY Zenon
<1>1. \A c \in Counters : \A p \in Producers : Writer(p, c) => Holds(c) = Item(p)
  BY HoldsWriter, Zenon
<1>2. \A c \in Counters : (\A p \in Producers : ~Writer(p, c)) => Holds(c) = data[IndexOf(c)][1]
  BY HoldsData, Zenon
<1> QED
  BY <1>1, <1>2, ContentsIs, Zenon DEF Shape

LEMMA ShapeNext == (TypeOK /\ RingInv)' => Shape'
  BY ShapeNow, PTL

LEMMA HoldsSame ==
  ASSUME Shape, Shape', NEW c \in Counters,
         \A p \in Producers : Writer(p, c)' <=> Writer(p, c),
         \A p \in Producers : Writer(p, c) => Item(p)' = Item(p),
         (\A p \in Producers : ~Writer(p, c)) => data'[IndexOf(c)][1] = data[IndexOf(c)][1]
  PROVE  Holds(c)' = Holds(c)
<1>0. IndexOf(c)' = IndexOf(c)
  BY Zenon DEF IndexOf
<1>1. CASE \E p \in Producers : Writer(p, c)
  <2>1. PICK p \in Producers : Writer(p, c)
    BY <1>1, Zenon
  <2>2. Holds(c) = Item(p) /\ Holds(c)' = Item(p)'
    BY <2>1, Zenon DEF Shape
  <2> QED
    BY <2>1, <2>2, Zenon
<1>2. CASE \A p \in Producers : ~Writer(p, c)
  <2>1. Holds(c) = data[IndexOf(c)][1]
    BY <1>2, Zenon DEF Shape
  <2>2. Holds(c)' = data'[IndexOf(c)][1]
    BY <1>0, <1>2, Zenon DEF Shape
  <2> QED
    BY <1>2, <2>1, <2>2, Zenon
<1> QED
  BY <1>1, <1>2, Zenon

\* Steps that keep the ends of the queue and every item in it.
LEMMA ContentsSame ==
  ASSUME Shape, Shape', rd' = rd, Tail_' = Tail_,
         \A c \in Counters : V(rd) <= V(c) /\ V(c) < V(Tail_) => Holds(c)' = Holds(c)
  PROVE  Contents' = Contents
<1> DEFINE n == V(Tail_) - V(rd)
<1>0. V(Tail_)' = V(Tail_) /\ V(rd)' = V(rd)
  BY Zenon DEF V
<1>1. /\ n \in Nat /\ V(rd) \in Nat /\ V(Tail_) \in Nat
      /\ Contents \in [1 .. n -> Vals] /\ Contents' \in [1 .. n -> Vals]
  BY <1>0, Zenon DEF Shape
<1>2. ASSUME NEW k \in 1 .. n PROVE Contents'[k] = Contents[k]
  <2>1. PICK c \in Counters : V(c) = V(rd) + k - 1
    BY Zenon DEF Shape
  <2>2. V(rd) <= V(c) /\ V(c) < V(Tail_)
    BY <1>1, <2>1
  <2>3. Contents[k] = Holds(c)
    BY <2>1, Zenon DEF Shape
  <2>4. V(c)' = V(c)
    BY Zenon DEF V
  <2>5. Contents'[k] = Holds(c)'
    BY <1>0, <2>1, <2>4, Zenon DEF Shape
  <2> QED
    BY <2>2, <2>3, <2>5, Zenon
<1> QED
  BY <1>1, <1>2

LEMMA Quiet ==
  ASSUME Shape, Shape', UNCHANGED <<setup, rd, data, sent>>, Tail_' = Tail_,
         \A c \in Counters : \A p \in Producers : Writer(p, c)' <=> Writer(p, c)
  PROVE  Contents' = Contents
<1>1. \A p \in Producers : Item(p)' = Item(p)
  BY Zenon DEF Item, MultiProducer
<1>2. \A c \in Counters : Holds(c)' = Holds(c)
  BY <1>1, HoldsSame, Zenon
<1> QED
  BY <1>2, ContentsSame, Zenon

\* Writing an element does not change which item it holds.
LEMMA WriteKeeps ==
  ASSUME TypeOK, TypeOK', RingInv, RingInv', Shape, Shape', NEW p \in Producers, PushWrite(p)
  PROVE  Contents' = Contents
<1> USE DEF counters, elements, users, history
<1> DEFINE i == IndexOf(at[p].cur)
           h == IF at[p].pc = "write1" THEN 1 ELSE 2
           l == IF at[p].pc = "write1" THEN "write2" ELSE IF MultiProducer THEN "commit" ELSE "add"
<1>0. /\ p \in Threads /\ at[p] \in Locals /\ at[p].pc \in {"write1", "write2"}
      /\ l \in Pcs /\ Goto(p, l) /\ l # "idle"
      /\ UNCHANGED <<setup, rd, wt, ct, sent>>
  BY Zenon DEF TypeOK, Threads, PushWrite, Pcs
<1>1. /\ \A u \in Threads \ {p} : at'[u] = at[u]
      /\ at'[p].pc = l /\ at'[p].cur = at[p].cur
  BY <1>0, GotoIs, Zenon
<1>2. \A q \in Producers \ {p} : at'[q] = at[q]
  BY <1>1, Zenon DEF Threads
<1>3. /\ at[p].cur \in Counters /\ i \in Slots
      /\ \A k \in Counters :
           V(rd) <= V(k) /\ V(k) < V(Tail_) /\ k # at[p].cur => IndexOf(k) # i
  BY <1>0, WritesApart, SlotType, Zenon
<1>4. (\A j \in Slots \ {i} : data'[j] = data[j]) /\ (h = 2 => data'[i][1] = data[i][1])
  <2>1. data \in [Slots -> [{1, 2} -> Vals]] /\ i \in Slots /\ data[i] \in [{1, 2} -> Vals]
    BY <1>3, Zenon DEF TypeOK
  <2>2. data' = [data EXCEPT ![i] = [data[i] EXCEPT ![h] = Item(p)]]
    BY Zenon DEF PushWrite
  <2> HIDE DEF i
  <2> QED
    BY <2>1, <2>2
<1>5. (MultiProducer' <=> MultiProducer) /\ Tail_' = Tail_ /\ \A q \in Producers : Item(q)' = Item(q)
  BY <1>0, Zenon DEF MultiProducer, Tail_, Item
<1>6. ASSUME NEW c \in Counters, V(rd) <= V(c), V(c) < V(Tail_)
      PROVE  Holds(c)' = Holds(c)
  <2>1. CASE c # at[p].cur
    <3>1. \A q \in Producers : Writer(q, c)' <=> Writer(q, c)
      BY <1>0, <1>1, <1>2, <1>5, <2>1, Zenon DEF Writer
    <3>2. data'[IndexOf(c)][1] = data[IndexOf(c)][1]
      BY <1>3, <1>4, <1>6, <2>1, SlotType, Zenon
    <3> QED
      BY <1>5, <3>1, <3>2, HoldsSame, Zenon
  <2>2. CASE c = at[p].cur
    <3>1. MultiProducer
      <4>1. ~MultiProducer => at[p].cur = wt /\ Tail_ = wt
        BY <1>0 DEF RingInv, Room, RoomAt, Tail_
      <4>2. V(Tail_) \in Nat
        BY Zenon DEF Shape
      <4> QED
        BY <1>6, <2>2, <4>1, <4>2, SMTT(30)
    <3>2. Writer(p, c) /\ Holds(c) = Item(p) /\ \A q \in Producers : Writer(q, c) => q = p
      BY <1>0, <2>2, <3>1, HoldsWriter, Zenon DEF Writer
    <3>3. CASE at[p].pc = "write1"
      <4>1. \A q \in Producers : Writer(q, c)' <=> Writer(q, c)
        BY <1>0, <1>1, <1>2, <1>5, <3>3, Zenon DEF Writer
      <4> QED
        BY <1>5, <3>2, <4>1, HoldsSame, Zenon
    <3>4. CASE at[p].pc = "write2"
      <4>1. \A q \in Producers : ~Writer(q, c)'
        BY <1>1, <1>2, <1>5, <3>1, <3>2, <3>4, Zenon DEF Writer
      <4>2. Holds(c)' = data'[i][1]
        BY <2>2, <4>1, Zenon DEF Shape, IndexOf
      <4>3. data'[i][1] = Item(p)
        BY <1>4, <3>4, Zenon DEF RingInv, Whole
      <4> QED
        BY <3>2, <4>2, <4>3, Zenon
    <3> QED
      BY <1>0, <3>3, <3>4, Zenon
  <2> QED
    BY <2>1, <2>2, Zenon
<1> QED
  BY <1>0, <1>5, <1>6, ContentsSame, Zenon

\* A place is taken: the item enters the queue.
LEMMA ClaimEnters ==
  ASSUME TypeOK, TypeOK', NoLap', RingInv, RingInv', Shape, Shape', NEW p \in Producers,
         PushClaim(p), PushClaimed(p)
  PROVE  Fifo!Enter(p)
<1> USE DEF counters, elements, users, history
<1> DEFINE n == V(Tail_) - V(rd)
<1>0. /\ p \in Threads /\ at[p].pc = "claim" /\ "write1" \in Pcs /\ Goto(p, "write1") /\ at[p].cur = ct
      /\ ct' = Inc(ct) /\ sent' = [sent EXCEPT ![p] = @ + 1] /\ MultiProducer /\ MultiProducer'
      /\ UNCHANGED <<setup, rd, data, got>>
  BY Zenon DEF Threads, PushClaim, PushClaimed, Pcs, RingInv, PcsOk, MultiProducer
<1>1. /\ \A q \in Producers \ {p} : at'[q] = at[q] /\ sent'[q] = sent[q]
      /\ at'[p].pc = "write1" /\ at'[p].cur = ct /\ sent'[p] = sent[p] + 1
  BY <1>0, GotoIs, Zenon DEF Threads, TypeOK
<1>2. Tail_ = ct /\ Tail_' = ct' /\ ct \in Counters
  BY <1>0, Zenon DEF Tail_, TypeOK
<1>3. Inc(ct) # Start
  BY <1>0, <1>1, <1>2 DEF NoLap, TypeOK
<1>4. V(ct') = V(ct) + 1 /\ V(ct) + 1 < V(rd) + Size
  BY <1>0, <1>2, <1>3, VInc, Zenon DEF RingInv, Room, RoomAt
<1>5. /\ V(rd)' = V(rd) /\ V(Tail_)' = V(ct) + 1
      /\ n \in Nat /\ n = V(ct) - V(rd) /\ V(ct) \in Nat /\ V(rd) \in Nat /\ Size \in Nat
      /\ Contents \in [1 .. n -> Vals] /\ Contents' \in [1 .. n + 1 -> Vals]
  <2>1. V(rd)' = V(rd) /\ V(Tail_)' = V(ct) + 1
    BY <1>0, <1>2, <1>4, Zenon DEF V
  <2>2. n \in Nat /\ n = V(ct) - V(rd) /\ V(ct) \in Nat /\ V(rd) \in Nat /\ Contents \in [1 .. n -> Vals]
    BY <1>2, Zenon DEF Shape
  <2>3. (V(Tail_) - V(rd))' = n + 1
    BY <2>1, <2>2
  <2> QED
    BY <2>1, <2>2, <2>3, RingAssumption, Zenon DEF Shape
<1>6. ASSUME NEW k \in 1 .. n PROVE Contents'[k] = Contents[k]
  <2>1. PICK c \in Counters : V(c) = V(rd) + k - 1
    BY Zenon DEF Shape
  <2>2. c # ct /\ V(c)' = V(c)
    BY <1>5, <2>1 DEF V
  <2>3. Contents[k] = Holds(c)
    BY <2>1, Zenon DEF Shape
  <2>4. k \in 1 .. (V(Tail_) - V(rd))'
    BY <1>5, SMTT(30)
  <2>5. Contents'[k] = Holds(c)'
    BY <1>5, <2>1, <2>2, <2>4 DEF Shape
  <2>6. \A q \in Producers : Writer(q, c)' <=> Writer(q, c)
    BY <1>0, <1>1, <2>2, Zenon DEF Writer
  <2>7. \A q \in Producers : Writer(q, c) => Item(q)' = Item(q)
    BY <1>0, <1>1, Zenon DEF Writer, Item
  <2>8. Holds(c)' = Holds(c)
    BY <1>0, <2>6, <2>7, HoldsSame, Zenon
  <2> QED
    BY <2>3, <2>5, <2>8, Zenon
<1>7. Contents'[n + 1] = <<p, sent'[p]>>
  <2>1. PICK c \in Counters : c = ct
    BY <1>2, Zenon
  <2>2. Writer(p, c)' /\ Item(p)' = <<p, sent'[p]>>
    BY <1>0, <1>1, <2>1, Zenon DEF Writer, Item
  <2>3. Holds(c)' = Item(p)'
    BY <2>2, Zenon DEF Shape
  <2>4. n + 1 \in 1 .. (V(Tail_) - V(rd))'
    BY <1>5
  <2>5. V(c)' = V(rd) + (n + 1) - 1
    BY <1>5, <2>1, SMTT(30) DEF V
  <2>6. Contents'[n + 1] = Holds(c)'
    BY <1>5, <2>4, <2>5, SMTT(30) DEF Shape
  <2> QED
    BY <2>2, <2>3, <2>6, Zenon
<1>8. Len(Contents) < Size - 1 /\ Contents' = Append(Contents, <<p, sent'[p]>>)
  BY <1>4, <1>5, <1>6, <1>7, AppendIs, SMTT(30)
<1> QED
  BY <1>0, <1>8, Zenon DEF Fifo!Enter

LEMMA AddEnters ==
  ASSUME TypeOK, TypeOK', NoLap', RingInv, RingInv', Shape, Shape', NEW p \in Producers, PushAdd(p)
  PROVE  Fifo!Enter(p)
<1> USE DEF counters, elements, users, history
<1> DEFINE n == V(Tail_) - V(rd)
<1>0. /\ at[p].pc = "add" /\ wt' = Inc(wt) /\ sent' = [sent EXCEPT ![p] = @ + 1]
      /\ ~MultiProducer /\ ~MultiProducer' /\ at[p].cur = wt
      /\ UNCHANGED <<setup, rd, data, got>>
  BY Zenon DEF PushAdd, RingInv, PcsOk, MultiProducer, Room, RoomAt
<1>1. sent'[p] = sent[p] + 1 /\ sent[p] \in Nat
  BY <1>0, Zenon DEF TypeOK
<1>2. Tail_ = wt /\ Tail_' = wt' /\ wt \in Counters
  BY <1>0, Zenon DEF Tail_, TypeOK
<1>3. Inc(wt) # Start
  BY <1>0, <1>1, <1>2 DEF NoLap
<1>4. V(wt') = V(wt) + 1 /\ V(wt) + 1 < V(rd) + Size
  BY <1>0, <1>2, <1>3, VInc, Zenon DEF RingInv, Room, RoomAt
<1>5. /\ V(rd)' = V(rd) /\ V(Tail_)' = V(wt) + 1
      /\ n \in Nat /\ n = V(wt) - V(rd) /\ V(wt) \in Nat /\ V(rd) \in Nat /\ Size \in Nat
      /\ Contents \in [1 .. n -> Vals] /\ Contents' \in [1 .. n + 1 -> Vals]
  <2>1. V(rd)' = V(rd) /\ V(Tail_)' = V(wt) + 1
    BY <1>0, <1>2, <1>4, Zenon DEF V
  <2>2. n \in Nat /\ n = V(wt) - V(rd) /\ V(wt) \in Nat /\ V(rd) \in Nat /\ Contents \in [1 .. n -> Vals]
    BY <1>2, Zenon DEF Shape
  <2>3. (V(Tail_) - V(rd))' = n + 1
    BY <2>1, <2>2
  <2> QED
    BY <2>1, <2>2, <2>3, RingAssumption, Zenon DEF Shape
<1>6. \A c \in Counters : Holds(c) = data[IndexOf(c)][1] /\ Holds(c)' = data[IndexOf(c)][1]
  <2>1. \A c \in Counters : \A q \in Producers : ~Writer(q, c) /\ ~Writer(q, c)'
    BY <1>0, Zenon DEF Writer
  <2> QED
    BY <1>0, <2>1, Zenon DEF Shape, IndexOf
<1>7. ASSUME NEW k \in 1 .. n PROVE Contents'[k] = Contents[k]
  <2>1. PICK c \in Counters : V(c) = V(rd) + k - 1
    BY Zenon DEF Shape
  <2>2. V(c)' = V(c)
    BY Zenon DEF V
  <2>3. Contents[k] = Holds(c)
    BY <2>1, Zenon DEF Shape
  <2>4. k \in 1 .. (V(Tail_) - V(rd))'
    BY <1>5, SMTT(30)
  <2>5. Contents'[k] = Holds(c)'
    BY <1>5, <2>1, <2>2, <2>4 DEF Shape
  <2> QED
    BY <1>6, <2>3, <2>5, Zenon
<1>8. Contents'[n + 1] = <<p, sent'[p]>>
  <2>1. PICK c \in Counters : c = wt
    BY <1>2, Zenon
  <2>2. data[IndexOf(c)][1] = <<p, sent'[p]>>
    BY <1>0, <1>1, <2>1, Zenon DEF RingInv, Whole, Item
  <2>4. n + 1 \in 1 .. (V(Tail_) - V(rd))'
    BY <1>5
  <2>5. V(c)' = V(rd) + (n + 1) - 1
    BY <1>5, <2>1, SMTT(30) DEF V
  <2>6. Contents'[n + 1] = Holds(c)'
    BY <1>5, <2>4, <2>5, SMTT(30) DEF Shape
  <2> QED
    BY <1>6, <2>2, <2>6, Zenon
<1>9. Len(Contents) < Size - 1 /\ Contents' = Append(Contents, <<p, sent'[p]>>)
  BY <1>4, <1>5, <1>7, <1>8, AppendIs
<1> QED
  BY <1>0, <1>9, Zenon DEF Fifo!Enter

\* The exchange on rd_ takes the oldest item out, whole.
LEMMA ClaimLeaves ==
  ASSUME TypeOK, TypeOK', RingInv, RingInv', Shape, Shape', NEW c \in Consumers,
         PopClaim(c), PopClaimed(c)
  PROVE  Fifo!Leave(c)
<1> USE DEF counters, elements, users, history
<1> DEFINE n == V(Tail_) - V(rd)
<1>0. /\ c \in Threads /\ c \notin Producers /\ at[c].pc = "claim" /\ Fence(c)
      /\ Goto(c, "idle") /\ "idle" \in Pcs /\ rd' = Inc(rd)
      /\ got' = [got EXCEPT ![c] = Append(@, IF at[c].val[1] = at[c].val[2] THEN at[c].val[1] ELSE at[c].val)]
      /\ UNCHANGED <<setup, wt, ct, data, sent>>
  BY RingAssumption, Zenon DEF Threads, PopClaim, Pcs
<1>1. \A p \in Producers : at'[p] = at[p]
  BY <1>0, GotoIs, Zenon DEF Threads
<1>2. /\ at[c].cur = rd /\ V(rd) < V(wt) /\ V(wt) <= V(Tail_) /\ V(rd') = V(rd) + 1
      /\ rd \in Counters /\ V(wt) \in Nat
  BY <1>0, ClaimsOldest, VType, Zenon DEF TypeOK
<1>3. /\ V(rd)' = V(rd) + 1 /\ V(Tail_)' = V(Tail_) /\ V(rd) \in Nat /\ V(Tail_) \in Nat
      /\ n \in Nat \ {0} /\ Contents \in [1 .. n -> Vals] /\ Contents' \in [1 .. n - 1 -> Vals]
  <2>1. V(rd)' = V(rd) + 1 /\ V(Tail_)' = V(Tail_)
    BY <1>0, <1>2, Zenon DEF V, Tail_, MultiProducer
  <2>2. n \in Nat /\ V(rd) \in Nat /\ V(Tail_) \in Nat /\ Contents \in [1 .. n -> Vals]
    BY Zenon DEF Shape
  <2>3. n # 0 /\ (V(Tail_) - V(rd))' = n - 1
    BY <1>2, <2>1, <2>2
  <2> QED
    BY <2>1, <2>2, <2>3, Zenon DEF Shape
<1>4. ASSUME NEW k \in 1 .. n - 1 PROVE Contents'[k] = Contents[k + 1]
  <2>0. k + 1 \in 1 .. n /\ k \in 1 .. (V(Tail_) - V(rd))'
    BY <1>3
  <2>1. PICK d \in Counters : V(d) = V(rd) + (k + 1) - 1
    BY <2>0, Zenon DEF Shape
  <2>2. V(d)' = V(rd)' + k - 1
    BY <1>3, <2>1 DEF V
  <2>3. Contents[k + 1] = Holds(d)
    BY <2>0, <2>1, Zenon DEF Shape
  <2>4. Contents'[k] = Holds(d)'
    BY <2>0, <2>2, Zenon DEF Shape
  <2>5. /\ \A q \in Producers : Writer(q, d)' <=> Writer(q, d)
        /\ \A q \in Producers : Item(q)' = Item(q)
    BY <1>0, <1>1, Zenon DEF Writer, Item, MultiProducer
  <2>6. Holds(d)' = Holds(d)
    BY <1>0, <2>5, HoldsSame, Zenon
  <2> QED
    BY <2>3, <2>4, <2>6, Zenon
<1>5. Contents' = Tail(Contents) /\ Contents # <<>> /\ Head(Contents) = Contents[1]
  <2> HIDE DEF n
  <2> QED
    BY <1>3, <1>4, TailIs
<1>6. at[c].val[1] = Contents[1] /\ at[c].val[2] = Contents[1]
  <2>1. \A p \in Producers : at[p].pc \in {"write1", "write2"} => at[p].cur # rd
    <3> SUFFICES ASSUME NEW p \in Producers, at[p].pc \in {"write1", "write2"} PROVE at[p].cur # rd
      BY Zenon
    <3>1. CASE ~MultiProducer
      BY <1>2, <1>3, <3>1, SMTT(30) DEF RingInv, Room, RoomAt
    <3>2. CASE MultiProducer
      <4>1. p \in Threads /\ at[p].cur \in Counters /\ V(at[p].cur) \in Nat
        BY VType, Zenon DEF Threads, TypeOK, Locals
      <4>2. Has(p, V(at[p].cur))
        BY Zenon DEF Has, Writing
      <4>3. V(wt) <= V(at[p].cur)
        BY <3>2, <4>1, <4>2, Zenon DEF RingInv, Tokens
      <4> QED
        BY <1>2, <1>3, <4>1, <4>3
    <3> QED
      BY <3>1, <3>2, Zenon
  <2>2. Written(rd) /\ \A p \in Producers : ~Writer(p, rd)
    BY <2>1, Zenon DEF Written, Writer
  <2>3. Holds(rd) = data[IndexOf(rd)][1]
    BY <1>2, <2>2, Zenon DEF Shape
  <2>4. Contents[1] = Holds(rd)
    <3>1. 1 \in 1 .. n /\ V(rd) = V(rd) + 1 - 1
      BY <1>3
    <3> QED
      BY <1>2, <3>1, Zenon DEF Shape
  <2>5. data[IndexOf(rd)][1] = data[IndexOf(rd)][2]
    <3>1. V(rd) <= V(rd) /\ V(rd) < V(Tail_)
      BY <1>2, <1>3
    <3> QED
      BY <1>2, <2>2, <3>1, Zenon DEF RingInv, Whole
  <2>6. at[c].val[1] = data[IndexOf(rd)][1] /\ at[c].val[2] = data[IndexOf(rd)][2]
    BY <1>0, <1>2, Zenon DEF RingInv, Copied
  <2> QED
    BY <2>3, <2>4, <2>5, <2>6, Zenon
<1>7. got' = [got EXCEPT ![c] = Append(@, Head(Contents))]
  BY <1>0, <1>5, <1>6, Zenon
<1> QED
  BY <1>0, <1>5, <1>7, Zenon DEF Fifo!Leave

\* Every other step leaves the queue and its history alone.
LEMMA QuietSteps ==
  ASSUME TypeOK, TypeOK', RingInv, RingInv', Shape, Shape', [Next]_vars,
         \A p \in Producers : ~PushWrite(p) /\ ~PushAdd(p) /\ ~(PushClaim(p) /\ PushClaimed(p)),
         \A c \in Consumers : ~(PopClaim(c) /\ PopClaimed(c))
  PROVE  Contents' = Contents /\ sent' = sent /\ got' = got
<1> USE DEF counters, elements, users, history
<1> SUFFICES /\ UNCHANGED <<setup, rd, data, sent, got>> /\ Tail_' = Tail_
             /\ \A p \in Producers : \A c \in Counters : Writer(p, c)' <=> Writer(p, c)
  BY Quiet, Zenon
<1>0. Producers \subseteq Threads /\ Producers \cap Consumers = {}
  BY RingAssumption, Zenon DEF Threads
<1>1. ASSUME NEW p \in Producers, Push(p)
      PROVE  /\ UNCHANGED <<setup, rd, data, sent, got>> /\ Tail_' = Tail_
             /\ \A q \in Producers : \A c \in Counters : Writer(q, c)' <=> Writer(q, c)
  <2>1. UNCHANGED <<setup, rd, wt, ct, data, sent, got>>
    BY <1>1, Zenon DEF Push, PushBegin, PushCheck, PushClaim, PushCommit, PushLoadFlag, PushLoadWt, PushTakeFlag, PushStoreWt
  <2>2. at[p] \in Locals /\ at \in [Threads -> Locals] /\ p \in Threads /\ (MultiProducer' <=> MultiProducer)
    BY <1>0, <2>1, Zenon DEF TypeOK, MultiProducer
  <2>3. \A q \in Producers \ {p} : at'[q] = at[q]
    BY <1>0, <1>1, <2>2, Zenon DEF Push, PushBegin, PushCheck, PushClaim, PushCommit, PushLoadFlag, PushLoadWt, PushTakeFlag,
                          PushStoreWt, Goto
  <2>4. at[p].pc \notin {"write1", "write2"}
    BY <1>1, Zenon DEF Push, PushBegin, PushCheck, PushClaim, PushCommit, PushLoadFlag, PushLoadWt, PushTakeFlag, PushStoreWt
  <2>5. MultiProducer => at'[p].pc \notin {"write1", "write2"}
    <3> SUFFICES ASSUME MultiProducer PROVE at'[p].pc \notin {"write1", "write2"}
      BY Zenon
    <3>1. CASE PushBegin(p)
      BY <2>2, <3>1 DEF PushBegin, Locals
    <3>2. CASE PushLoadFlag(p)
      BY <2>2, <3>2 DEF PushLoadFlag, Locals
    <3>3. CASE PushStoreWt(p)
      BY <2>2, <3>3 DEF PushStoreWt, Locals
    <3>4. CASE PushCheck(p) \/ PushClaim(p) \/ PushCommit(p) \/ PushLoadWt(p) \/ PushTakeFlag(p)
      <4>1. PICK l \in {"idle", "claim", "help", "take", "move"} : Goto(p, l)
        BY <3>4, Zenon DEF PushCheck, PushClaim, PushCommit, PushLoadWt, PushTakeFlag
      <4>2. l \in Pcs /\ l \notin {"write1", "write2"}
        BY <4>1 DEF Pcs
      <4> QED
        BY <2>2, <4>1, <4>2, GotoIs, Zenon
    <3> QED
      BY <1>1, <3>1, <3>2, <3>3, <3>4, Zenon DEF Push
  <2> QED
    BY <2>1, <2>2, <2>3, <2>4, <2>5, Zenon DEF Writer, Tail_
<1>2. ASSUME \A p \in Producers : at'[p] = at[p], UNCHANGED <<setup, rd, data, sent, got>>, Tail_' = Tail_
      PROVE  /\ UNCHANGED <<setup, rd, data, sent, got>> /\ Tail_' = Tail_
             /\ \A q \in Producers : \A c \in Counters : Writer(q, c)' <=> Writer(q, c)
  BY <1>2, Zenon DEF Writer, MultiProducer
<1>3. ASSUME NEW c \in Consumers, Pop(c)
      PROVE  /\ \A p \in Producers : at'[p] = at[p]
             /\ UNCHANGED <<setup, rd, data, sent, got>> /\ Tail_' = Tail_
  <2>1. UNCHANGED <<setup, rd, wt, ct, data, sent, got>>
    BY <1>3, Zenon DEF Pop, PopBegin, PopLoadWt, PopLoadFlag, PopTakeFlag, PopStoreWt, PopCopy, PopClaim
  <2>2. at \in [Threads -> Locals] /\ c \in Threads
    BY Zenon DEF TypeOK, Threads
  <2>3. \A p \in Producers : at'[p] = at[p]
    BY <1>0, <1>3, <2>2, Zenon DEF Pop, PopBegin, PopLoadWt, PopLoadFlag, PopTakeFlag, PopStoreWt, PopCopy, PopClaim, Goto
  <2> QED
    BY <2>1, <2>3, Zenon DEF Tail_, MultiProducer
<1>4. ASSUME NEW t \in Threads, Flush(t)
      PROVE  /\ at' = at /\ UNCHANGED <<setup, rd, data, sent, got>> /\ Tail_' = Tail_
  <2>1. MultiProducer
    BY <1>4, Zenon DEF Flush, RingInv, PcsOk
  <2> QED
    BY <1>4, <2>1, Zenon DEF Flush, Tail_, MultiProducer
<1>5. ASSUME NEW t, ReadySending(t) \/ ShutSending(t) \/ Connect(t) \/ Disconnect(t)
      PROVE  at' = at /\ UNCHANGED <<setup, rd, data, sent, got>> /\ Tail_' = Tail_
  BY <1>5, Zenon DEF ReadySending, ShutSending, Connect, Disconnect, Tail_, MultiProducer
<1>6. ASSUME UNCHANGED vars
      PROVE  at' = at /\ UNCHANGED <<setup, rd, data, sent, got>> /\ Tail_' = Tail_
  BY <1>6, Zenon DEF vars, Tail_, MultiProducer
<1> QED
  BY <1>1, <1>2, <1>3, <1>4, <1>5, <1>6, Zenon DEF Next

LEMMA FifoStep ==
  ASSUME TypeOK, TypeOK', NoLap', RingInv, RingInv', [Next]_vars
  PROVE  [Fifo!FifoNext]_(Fifo!fifoVars)
<1>0. Shape /\ Shape'
  BY ShapeNow, ShapeNext, Zenon
<1>1. CASE \E p \in Producers : PushWrite(p)
  <2>1. PICK p \in Producers : PushWrite(p)
    BY <1>1, Zenon
  <2>2. Contents' = Contents
    BY <1>0, <2>1, WriteKeeps, Zenon
  <2> QED
    BY <2>1, <2>2, Zenon DEF PushWrite, history, Fifo!fifoVars
<1>2. CASE \E p \in Producers : PushAdd(p) \/ (PushClaim(p) /\ PushClaimed(p))
  BY <1>0, <1>2, AddEnters, ClaimEnters, Zenon DEF Fifo!FifoNext
<1>3. CASE \E c \in Consumers : PopClaim(c) /\ PopClaimed(c)
  BY <1>0, <1>3, ClaimLeaves, Zenon DEF Fifo!FifoNext
<1>4. CASE /\ \A p \in Producers : ~PushWrite(p) /\ ~PushAdd(p) /\ ~(PushClaim(p) /\ PushClaimed(p))
           /\ \A c \in Consumers : ~(PopClaim(c) /\ PopClaimed(c))
  <2>1. Contents' = Contents /\ sent' = sent /\ got' = got
    BY <1>0, <1>4, QuietSteps, Zenon
  <2> QED
    BY <2>1, Zenon DEF Fifo!fifoVars
<1> QED
  BY <1>1, <1>2, <1>3, <1>4, Zenon

\* The ring is a first-in first-out queue of Size - 1 items, for any senders
\* and receivers, any interleaving of their accesses to shared memory and any
\* delay of their stores: push puts an item at the tail at the moment its
\* exchange on ct_ succeeds (its fetch_add on wt_, for a single sender), pop
\* takes the whole item at the head at its exchange on rd_, and no other step
\* of either changes what is queued.
THEOREM RingIsFifo == Spec /\ []NoLap => RefinesFifo
<1>1. Init => Fifo!FifoInit
  <2> SUFFICES ASSUME Init PROVE Fifo!FifoInit
    BY Zenon
  <2>1. Shape /\ rd = Start /\ Tail_ = Start
    BY RingInit, ShapeNow, Zenon DEF Init, Tail_
  <2>2. V(Tail_) - V(rd) = 0
    BY <2>1 DEF Shape
  <2>3. Contents \in [1 .. 0 -> Vals]
    BY <2>1, <2>2, Zenon DEF Shape
  <2>4. Contents = <<>>
    BY <2>3
  <2> QED
    BY <2>4, Zenon DEF Init, Fifo!FifoInit
<1>2. TypeOK /\ RingInv /\ (TypeOK /\ RingInv)' /\ NoLap' /\ [Next]_vars => [Fifo!FifoNext]_(Fifo!fifoVars)
  BY FifoStep, Zenon
<1> QED
  BY <1>1, <1>2, RingAlways, PTL DEF Spec, RefinesFifo, Fifo!FifoSpec
=============================================================================
