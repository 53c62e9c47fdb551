----------------------------- MODULE SetTrigger -----------------------------
(***************************************************************************)
(* What a BY_SET trigger promises an application, whatever node its        *)
(* objects are made on: the function is called for a session whose objects *)
(* have all arrived, once, and for no other.  The call is lost, and only   *)
(* logged, where the coordinator makes it and finds no executor free; it   *)
(* is never made later.                                                    *)
(***************************************************************************)
CONSTANTS Sessions, Keys, KeySet

VARIABLES
  arrived,   \* the objects [session, key] the platform has taken in
  fired,     \* how often the function has been called for each session
  lost       \* sessions whose call was lost

Complete(s) == \A k \in KeySet : [session |-> s, key |-> k] \in arrived

\* The session's one call has been neither made nor lost.
Waiting(s) == fired[s] = 0 /\ s \notin lost

Init ==
  /\ arrived = {}
  /\ fired = [s \in Sessions |-> 0]
  /\ lost = {}

Arrive ==
  \E s \in Sessions, k \in Keys :
    /\ [session |-> s, key |-> k] \notin arrived
    /\ arrived' = arrived \cup {[session |-> s, key |-> k]}
    /\ UNCHANGED <<fired, lost>>

\* A session that is complete fires.
Fire(s) ==
  /\ Complete(s)
  /\ Waiting(s)
  /\ fired' = [fired EXCEPT ![s] = 1]
  /\ UNCHANGED <<arrived, lost>>

Lose(s) ==
  /\ Complete(s)
  /\ Waiting(s)
  /\ lost' = lost \cup {s}
  /\ UNCHANGED <<arrived, fired>>

\* The worker that makes the last object of a session fires it in the same
\* step, and never loses the call.
ArriveAndFire ==
  \E s \in Sessions, k \in Keys :
    /\ [session |-> s, key |-> k] \notin arrived
    /\ arrived' = arrived \cup {[session |-> s, key |-> k]}
    /\ Complete(s)'
    /\ Waiting(s)
    /\ fired' = [fired EXCEPT ![s] = 1]
    /\ UNCHANGED lost

Next == Arrive \/ ArriveAndFire \/ \E s \in Sessions : Fire(s) \/ Lose(s)

Spec == Init /\ [][Next]_<<arrived, fired, lost>>

\* Every complete session is called in the end, or its call lost.
LiveSpec == Spec /\ \A s \in Sessions : WF_<<arrived, fired, lost>>(Fire(s) \/ Lose(s))
=============================================================================
