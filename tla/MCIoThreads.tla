---------------------------- MODULE MCIoThreads ----------------------------
(***************************************************************************)
(* Small runs of the I/O threads: one, two and three threads, with every   *)
(* kind of operation next to every other one in some run.                  *)
(***************************************************************************)
EXTENDS IoThreads, TLC

CONSTANTS k1, k2, k3

Run(count, kind, late) == [count |-> count, kind |-> kind, timeouts |-> late]

\* With one thread an object can only be named in a forwarded call: the
\* README says what becomes of one announced by notify_put.
MCSetups == {
    Run(1, k1 :> "call" @@ k2 :> "get" @@ k3 :> "forward", 1),
    Run(2, k1 :> "call" @@ k2 :> "put" @@ k3 :> "notify", 0),
    Run(2, k1 :> "call" @@ k2 :> "call" @@ k3 :> "forward", 0),
    Run(2, k1 :> "get" @@ k2 :> "put", 1),
    Run(3, k1 :> "call" @@ k2 :> "get", 0),
    Run(3, k1 :> "call" @@ k2 :> "notify", 0)}
=============================================================================
