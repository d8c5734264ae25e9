---------------------------- MODULE RequestTable ----------------------------
(***************************************************************************)
(* What a client of lwIP's MQTT library is promised about its requests     *)
(* (subscriptions and QoS 1 publications): a request that was accepted     *)
(* stays pending until its callback is called once, with success only if   *)
(* the broker answered it, or with a timeout; or until the connection is   *)
(* closed, which drops it, and then its callback is never called.          *)
(***************************************************************************)
CONSTANT Ids  \* packet identifiers

VARIABLES
  outcome,    \* "none", "pending", "confirmed", "timed_out" or "dropped"
  answered    \* the requests the broker has answered

reqVars == <<outcome, answered>>

ReqInit ==
  /\ outcome = [i \in Ids |-> "none"]
  /\ answered = {}

\* mqtt_publish or mqtt_subscribe returns ERR_OK.
Accept(i) ==
  /\ outcome[i] = "none"
  /\ outcome' = [outcome EXCEPT ![i] = "pending"]
  /\ UNCHANGED answered

\* The broker answers; the answer may be late, or may be lost with the connection.
Answer(i) ==
  /\ answered' = answered \cup {i}
  /\ UNCHANGED outcome

\* The callback is called with ERR_OK.
Confirm(i) ==
  /\ outcome[i] = "pending"
  /\ i \in answered
  /\ outcome' = [outcome EXCEPT ![i] = "confirmed"]
  /\ UNCHANGED answered

\* The callbacks of T are called with ERR_TIMEOUT; the requests in D are dropped.
Settle(T, D) ==
  /\ \A i \in T \cup D : outcome[i] = "pending"
  /\ outcome' = [i \in Ids |-> IF i \in T THEN "timed_out"
                               ELSE IF i \in D THEN "dropped" ELSE outcome[i]]
  /\ UNCHANGED answered

ReqNext ==
  \/ \E i \in Ids : Accept(i) \/ Answer(i) \/ Confirm(i)
  \/ \E T, D \in SUBSET Ids : Settle(T, D)

ReqSpec == ReqInit /\ [][ReqNext]_reqVars
=============================================================================
