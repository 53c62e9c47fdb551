----------------------------- MODULE MCShmChan -----------------------------
(* Instances of ShmChan for TLC. *)
EXTENDS ShmChan, TLC

CONSTANTS s1, s2, r, q

Setup(m, n, try, c, l, t, k, d) ==
    [sizes |-> (s1 :> m) @@ (s2 :> n), trying |-> try, chunks |-> c, room |-> l, timeouts |-> t,
     crashes |-> k, close |-> d]

\* Large messages in one or two chunks and in fragments; a disconnection with
\* or without a timeout; a push that times out; a sender that dies.
MCSetups ==
    { Setup(<<2>>, <<2>>, {}, 1, 2, 0, 0, FALSE), Setup(<<2, 2>>, <<1>>, {}, 2, 1, 0, 0, FALSE),
      Setup(<<1>>, <<>>, {}, 1, 1, 1, 0, TRUE),
      Setup(<<2>>, <<1>>, {s1}, 1, 1, 1, 0, FALSE), Setup(<<2>>, <<1>>, {}, 1, 1, 0, 1, FALSE) }
=============================================================================
