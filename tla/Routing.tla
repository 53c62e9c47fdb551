------------------------------ MODULE Routing -------------------------------
(***************************************************************************)
(* Synchronous calls end to end: clients, the coordinator that places the  *)
(* requests of a call on nodes, workers that run or forward them, the      *)
(* status messages the placement is based on, and the answers.             *)
(*                                                                         *)
(* A call has Size[c] requests, and the function of the first one answers  *)
(* the client; if c is Chained it makes an object instead, whose trigger   *)
(* fires at the coordinator, and the triggered function answers.  Requests *)
(* are told apart by the call, the attempt and their number.               *)
(*                                                                         *)
(*   setting   the configuration and the calls made, chosen once           *)
(*   current, tries  the call a client waits for, attempts made for it     *)
(*   inbox     response_puller of a client: answers not yet received       *)
(*   result    what call_app returned for a call                           *)
(*   calls     function calls at the coordinator, new and forwarded ones   *)
(*   notifies  notifications whose object fires the trigger of a chain     *)
(*   avail     node_status_map: idle executors believed of a node          *)
(*   status    status messages of a node not yet handled, oldest first     *)
(*   routed    calls under way to a node                                   *)
(*   caller    session_client_addr_map of a node                           *)
(*   queued, running  requests a node has taken in or has on an executor   *)
(*   ended     requests that have run or were answered with an error       *)
(*   dropped   requests of triggers that found no worker                   *)
(***************************************************************************)
EXTENDS Placement

CONSTANTS
  Nodes, Clients, Calls,
  ClientOf,     \* the client that makes a call
  Size,         \* the number of requests of a call
  Chained,      \* calls answered by a triggered function
  Capacity,     \* executors of a node
  Retry,        \* call_app's retry
  Settings,     \* what to consider: demeter.enabled, the calls that have a
                \* timeout, and the calls that are made
  MaxStatus,    \* bound: status messages of a node under way
  NoSession, NoSource, NoClient, NoCall

ASSUME RoutingAssumption ==
  /\ ClientOf \in [Calls -> Clients]
  /\ Size \in [Calls -> Nat \ {0}]
  /\ Chained \subseteq Calls
  /\ Capacity \in [Nodes -> Nat \ {0}]
  /\ Settings \subseteq [demeter : BOOLEAN, timeouts : SUBSET Calls, made : SUBSET Calls]
  /\ Retry \in [Calls -> Nat] /\ MaxStatus \in Nat \ {0}
  /\ NoSource \notin Nodes /\ NoClient \notin Clients /\ NoCall \notin Calls

VARIABLES setting, current, tries, inbox, result, calls, notifies, avail, status,
          routed, caller, queued, running, ended, dropped

clientVars == <<setting, current, tries, result>>
nodeVars   == <<status, caller, queued, running>>
vars == <<clientVars, inbox, calls, notifies, avail, routed, nodeVars, ended, dropped>>

Tries(c) == 1..Retry[c] + 1

\* The requests of attempt t at call c, as the client sends them, and the one
\* its chain adds.
Requests(c, t)     == [i \in 1..Size[c] |-> [call |-> c, try |-> t, no |-> i]]
Continuation(c, t) == [call |-> c, try |-> t, no |-> Size[c] + 1]
Request            == UNION {UNION {Range(Requests(c, t)) : t \in Tries(c)} : c \in Calls}
                        \cup UNION {{Continuation(c, t) : t \in Tries(c)} : c \in Chained}
Answers(r)         == r.no = IF r.call \in Chained THEN Size[r.call] + 1 ELSE 1

\* Sessions are random 16 character names: the attempt stands for one, and a
\* forwarded request that has lost its session is given one of its own.
NewSession(reqs) == reqs[1]
Session == Request \cup {NoSession}

Init ==
  /\ setting \in Settings
  /\ current = [p \in Clients |-> NoCall]
  /\ tries = [c \in Calls |-> 0]
  /\ inbox = [p \in Clients |-> {}]
  /\ result = [c \in Calls |-> NoCall]
  /\ calls = {}
  /\ notifies = {}
  /\ avail = <<>>
  /\ status = [n \in Nodes |-> <<>>]
  /\ routed = {}
  /\ caller = [n \in Nodes |-> [s \in Session |-> NoClient]]
  /\ queued = [n \in Nodes |-> {}]
  /\ running = [n \in Nodes |-> {}]
  /\ ended = {}
  /\ dropped = {}

-----------------------------------------------------------------------------
(* Clients                                                                 *)

Submit(c, t) ==
  calls' = calls \cup {[reqs |-> Requests(c, t), session |-> NoSession,
                        source |-> NoSource, resp |-> ClientOf[c]]}

call_app(c) ==
  /\ c \in setting.made
  /\ current[ClientOf[c]] = NoCall
  /\ tries[c] = 0
  /\ current' = [current EXCEPT ![ClientOf[c]] = c]
  /\ tries' = [tries EXCEPT ![c] = 1]
  /\ Submit(c, 1)
  /\ UNCHANGED <<setting, inbox, result, notifies, avail, routed, nodeVars, ended, dropped>>

\* The first answer to come is taken for the answer.
Return(p, a) ==
  /\ current[p] # NoCall
  /\ a \in inbox[p]
  /\ inbox' = [inbox EXCEPT ![p] = @ \ {a}]
  /\ result' = [result EXCEPT ![current[p]] = a.req.call]
  /\ current' = [current EXCEPT ![p] = NoCall]
  /\ UNCHANGED <<setting, tries, calls, notifies, avail, routed, nodeVars, ended, dropped>>

\* recv timed out: the call is sent again, or given up.
Timeout(p) ==
  /\ current[p] \in setting.timeouts
  /\ inbox[p] = {}
  /\ LET c == current[p]
     IN \/ /\ tries[c] <= Retry[c]
           /\ tries' = [tries EXCEPT ![c] = @ + 1]
           /\ Submit(c, tries[c] + 1)
           /\ UNCHANGED current
        \/ /\ tries[c] > Retry[c]
           /\ current' = [current EXCEPT ![p] = NoCall]
           /\ UNCHANGED <<tries, calls>>
  /\ UNCHANGED <<setting, inbox, result, notifies, avail, routed, nodeVars, ended, dropped>>

-----------------------------------------------------------------------------
(* The coordinator                                                         *)

\* client_response, and the coordinator's answer with an error.
Respond(p, r, error) ==
  inbox' = [inbox EXCEPT ![p] = @ \cup {[req |-> r, error |-> error]}]

\* One message to each node of the placement; a request is answered with an
\* error when there is none.
Send(m, session, p) ==
  /\ avail' = p.avail
  /\ routed' = routed \cup
       {[to |-> n, reqs |-> p.parts[n], resp |-> m.resp,
         session |-> IF p.session THEN session ELSE NoSession] : n \in DOMAIN p.parts}

\* Mutant of func_call_handler: a call without a worker is only logged.
SilentReject(m) ==
  LET session == IF m.session = NoSession THEN NewSession(m.reqs) ELSE m.session
  IN /\ m \in calls
     /\ calls' = calls \ {m}
     /\ \E p \in PlaceCall(avail, m.source, m.reqs, setting.demeter) :
          /\ Send(m, session, p)
          /\ ended' = IF DOMAIN p.parts = {} THEN ended \cup Range(m.reqs) ELSE ended
     /\ UNCHANGED <<clientVars, inbox, notifies, nodeVars, dropped>>

\* Mutant of func_call_handler: a call that finds a worker is answered with an
\* error as well.
RejectAndRoute(m) ==
  LET session == IF m.session = NoSession THEN NewSession(m.reqs) ELSE m.session
  IN /\ m \in calls
     /\ calls' = calls \ {m}
     /\ \E p \in PlaceCall(avail, m.source, m.reqs, setting.demeter) :
          /\ Send(m, session, p)
          /\ Respond(m.resp, m.reqs[1], TRUE)
          /\ ended' = IF DOMAIN p.parts = {} THEN ended \cup Range(m.reqs) ELSE ended
     /\ UNCHANGED <<clientVars, notifies, nodeVars, dropped>>

func_call_handler(m) ==
  LET session == IF m.session = NoSession THEN NewSession(m.reqs) ELSE m.session
  IN /\ m \in calls
     /\ calls' = calls \ {m}
     /\ \E p \in PlaceCall(avail, m.source, m.reqs, setting.demeter) :
          /\ Send(m, session, p)
          /\ \/ /\ DOMAIN p.parts # {}
                /\ UNCHANGED <<inbox, ended>>
             \/ /\ DOMAIN p.parts = {}
                /\ Respond(m.resp, m.reqs[1], TRUE)
                /\ ended' = ended \cup Range(m.reqs)
     /\ UNCHANGED <<clientVars, notifies, nodeVars, dropped>>

\* notify_handler for the object that fires a chain's trigger: with no worker
\* the call is only logged.
notify_handler(m) ==
  /\ m \in notifies
  /\ notifies' = notifies \ {m}
  /\ \E p \in PlaceTriggered(avail, {m.node}, m.reqs) :
       /\ Send(m, m.session, p)
       /\ dropped' = IF DOMAIN p.parts = {} THEN dropped \cup Range(m.reqs) ELSE dropped
  /\ UNCHANGED <<clientVars, inbox, calls, nodeVars, ended>>

\* The coordinator's status branch.
update_status(n) ==
  /\ status[n] # <<>>
  /\ avail' = n :> Head(status[n]) @@ avail
  /\ status' = [status EXCEPT ![n] = Tail(@)]
  /\ UNCHANGED <<clientVars, inbox, calls, notifies, routed, caller, queued, running, ended, dropped>>

\* The coordinator's loop: calls of clients and forwarded ones come from two
\* sockets to one handler, notifications from a third.
ServeCalls == \E m \in calls : func_call_handler(m)
ServeNotifies == \E m \in notifies : notify_handler(m)

-----------------------------------------------------------------------------
(* Workers                                                                 *)

\* Every schedTimerThreshold the idle executors are reported.
ReportStatus(n) ==
  /\ Len(status[n]) < MaxStatus
  /\ status' = [status EXCEPT ![n] = Append(@, Capacity[n] - Cardinality(running[n]))]
  /\ UNCHANGED <<clientVars, inbox, calls, notifies, avail, routed, caller, queued, running, ended, dropped>>

\* The scheduler's Call branch: the session's client, then each request.
RecvCall(m) ==
  /\ m \in routed
  /\ routed' = routed \ {m}
  /\ caller' = [caller EXCEPT ![m.to][m.session] = m.resp]
  /\ queued' = [queued EXCEPT ![m.to] = @ \cup {[req |-> r, session |-> m.session] : r \in Range(m.reqs)}]
  /\ UNCHANGED <<clientVars, inbox, calls, notifies, avail, status, running, ended, dropped>>

Idle(n) == Cardinality(running[n]) < Capacity[n]

\* Every idle executor may take any function (configuration "shared"), and a
\* request that finds none is forwarded, neither delayed nor rejected
\* (Dispatch has the other configurations).
Start(n, q) ==
  /\ q \in queued[n]
  /\ Idle(n)
  /\ queued' = [queued EXCEPT ![n] = @ \ {q}]
  /\ running' = [running EXCEPT ![n] = @ \cup {q}]
  /\ UNCHANGED <<clientVars, inbox, calls, notifies, avail, routed, status, caller, ended, dropped>>

\* Mutant of Forward: the request also stays in the queue.
ForwardCopy(n, q) ==
  /\ q \in queued[n]
  /\ ~Idle(n)
  /\ calls' = calls \cup {[reqs |-> <<q.req>>, session |-> q.session, source |-> n,
                           resp |-> caller[n][q.session]]}
  /\ UNCHANGED <<clientVars, inbox, notifies, avail, routed, nodeVars, ended, dropped>>

\* No executor is idle: the request goes back to the coordinator, with the
\* client the node knows for its session.
Forward(n, q) ==
  /\ q \in queued[n]
  /\ ~Idle(n)
  /\ queued' = [queued EXCEPT ![n] = @ \ {q}]
  /\ calls' = calls \cup {[reqs |-> <<q.req>>, session |-> q.session, source |-> n,
                           resp |-> caller[n][q.session]]}
  /\ UNCHANGED <<clientVars, inbox, notifies, avail, routed, status, caller, running, ended, dropped>>

\* A function is over: it has answered the client its node knows for the
\* session, or made the object of a chain, or neither.
Finish(n, q) ==
  LET r    == q.req
      resp == caller[n][q.session]
  IN /\ q \in running[n]
     /\ running' = [running EXCEPT ![n] = @ \ {q}]
     /\ ended' = ended \cup {r}
     /\ \/ /\ Answers(r)
           /\ Respond(resp, r, FALSE)
           /\ UNCHANGED notifies
        \/ /\ r.call \in Chained /\ r.no = 1
           /\ notifies' = notifies \cup {[reqs |-> <<Continuation(r.call, r.try)>>, session |-> q.session,
                                          node |-> n, resp |-> resp]}
           /\ UNCHANGED inbox
        \/ /\ ~Answers(r) /\ ~(r.call \in Chained /\ r.no = 1)
           /\ UNCHANGED <<inbox, notifies>>
     /\ UNCHANGED <<clientVars, calls, avail, routed, status, caller, queued, dropped>>

-----------------------------------------------------------------------------
Next ==
  \/ \E c \in Calls : call_app(c)
  \/ \E p \in Clients : \E a \in inbox[p] : Return(p, a)
  \/ \E p \in Clients : Timeout(p)
  \/ ServeCalls
  \/ ServeNotifies
  \/ \E n \in Nodes : update_status(n)
  \/ \E n \in Nodes : ReportStatus(n)
  \/ \E m \in routed : RecvCall(m)
  \/ \E n \in Nodes : \E q \in queued[n] : Start(n, q)
  \/ \E n \in Nodes : \E q \in queued[n] : Forward(n, q)
  \/ \E n \in Nodes : \E q \in running[n] : Finish(n, q)

Spec == Init /\ [][Next]_vars

\* Sockets deliver in order and the loops of coordinator and schedulers poll all
\* of them for ever, so every message and every queued request has its turn;
\* functions end, and clients wait in recv.
Fairness ==
  /\ \A p \in Clients : WF_vars(\E a \in inbox[p] : Return(p, a))
  /\ \A r \in Request :
       /\ WF_vars(\E m \in calls : r \in Range(m.reqs) /\ func_call_handler(m))
       /\ WF_vars(\E m \in notifies : r \in Range(m.reqs) /\ notify_handler(m))
       /\ WF_vars(\E m \in routed : r \in Range(m.reqs) /\ RecvCall(m))
       /\ \A n \in Nodes :
            /\ WF_vars(\E q \in queued[n] : q.req = r /\ (Start(n, q) \/ Forward(n, q)))
            /\ WF_vars(\E q \in running[n] : q.req = r /\ Finish(n, q))

FairSpec == Spec /\ Fairness

-----------------------------------------------------------------------------
(* Properties                                                              *)

\* The number of places a request is in.
Places(r) ==
  Cardinality({m \in calls : r \in Range(m.reqs)})
    + Cardinality({m \in notifies : r \in Range(m.reqs)})
    + Cardinality({m \in routed : r \in Range(m.reqs)})
    + Cardinality({<<n, q>> \in Nodes \X UNION {queued[n] \cup running[n] : n \in Nodes} :
                     q.req = r /\ q \in queued[n] \cup running[n]})
    + Cardinality({r} \cap ended) + Cardinality({r} \cap dropped)

\* Splitting, routing, queueing and forwarding neither lose nor double a request:
\* each request of an attempt is in one place until it is over.
RequestsConserved ==
  \A r \in Request :
    /\ Places(r) <= 1
    /\ r.no <= Size[r.call] /\ r.try <= tries[r.call] => Places(r) = 1

\* func_call_handler gives a node more requests than it is believed to have
\* executors for, or gives a forwarded request back to its sender, only when
\* every other node has been given as much as it can take.
SentTo(n) ==
  Cardinality(UNION {Range(p.reqs) : p \in {p \in routed' \ routed : p.to = n}})
SpreadsFirst ==
  [][\A m \in calls \ calls' :
       (\E p \in routed' \ routed : p.to = m.source \/ SentTo(p.to) > avail[p.to])
         => \A n \in DOMAIN avail \ {m.source} : SentTo(n) >= avail[n]]_vars

\* operation.proto:96 "the client address, used for synchronous requests": an
\* answer goes to the client that made the call, whatever other calls the node
\* that sends it has taken in since.
AnswersReachCaller ==
  \A p \in Clients : \A a \in inbox[p] : ClientOf[a.req.call] = p

\* operation.proto:93 "A unique ID used to match asynchronous requests to
\* responses": call_app does not compare it and returns the first answer to come
\* (client.py:272), which is the answer to the call itself all the same, unless
\* it answers an earlier call of that client that was sent again or given up.
\* Every call that no timeout ended is answered once: no request of a batch or
\* of a forwarded call is rejected while another one answers.
ReturnsOwnAnswer ==
  \A c \in Calls : result[c] \notin {c, NoCall} =>
    LET d == result[c]
    IN /\ ClientOf[d] = ClientOf[c]
       /\ tries[d] > 1 \/ result[d] = NoCall

\* A client that waits without a timeout is answered, unless the request of the
\* chain was dropped: a request that bounces between nodes that are full ends up
\* on an executor.
EveryCallReturns ==
  \A c \in Calls : (tries[c] > 0 /\ c \notin setting.timeouts) ~> (result[c] # NoCall \/ Continuation(c, 1) \in dropped)
=============================================================================
