------------------------------ MODULE MCRerun -------------------------------
(* An instance of Rerun: two sources of one session on two nodes.          *)
EXTENDS Rerun
=============================================================================
