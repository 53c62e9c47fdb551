------------------------------ MODULE ShmFifo ------------------------------
(***************************************************************************)
(* What a channel's ring promises its users: a bounded queue.  An item     *)
(* enters at the tail while the queue has room and leaves at the head, to  *)
(* one receiver.                                                           *)
(***************************************************************************)
EXTENDS Naturals, Sequences

CONSTANTS Producers, Consumers, Capacity

VARIABLES queue,      \* the items inside, oldest first: pairs <<producer, number>>
          sent,       \* sent[p]: how many items p has put in
          got         \* got[c]: what c has taken out, in order

fifoVars == <<queue, sent, got>>

FifoInit ==
    /\ queue = <<>>
    /\ sent = [p \in Producers |-> 0]
    /\ got = [c \in Consumers |-> <<>>]

Enter(p) ==
    /\ Len(queue) < Capacity
    /\ sent' = [sent EXCEPT ![p] = @ + 1]
    /\ queue' = Append(queue, <<p, sent'[p]>>)
    /\ UNCHANGED got

Leave(c) ==
    /\ queue # <<>>
    /\ got' = [got EXCEPT ![c] = Append(@, Head(queue))]
    /\ queue' = Tail(queue)
    /\ UNCHANGED sent

FifoNext == (\E p \in Producers : Enter(p)) \/ (\E c \in Consumers : Leave(c))

FifoSpec == FifoInit /\ [][FifoNext]_fifoVars
=============================================================================
