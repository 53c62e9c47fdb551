---------------------------- MODULE MCKvsClient -----------------------------
(* An instance of KvsClient: a GET and a PUT of one key that two servers   *)
(* hold.                                                                   *)
EXTENDS KvsClient, TLC

CONSTANTS k1, p1

OnePut == p1 :> k1
=============================================================================
