------------------------------ MODULE Attempt ------------------------------
(***************************************************************************)
(* What one attempt at a provider promises the request that makes it: it   *)
(* settles once, a refused attempt has not touched the client's response   *)
(* and never will, so another provider may be tried, a served one has      *)
(* answered the client, and a broken one leaves a response nobody else may *)
(* write to.  ChatCompletion is written against this promise.              *)
(***************************************************************************)
VARIABLES
  outcome,   \* "running", "served", "refused" or "broken"
  touched,   \* was the head of the response written
  closed     \* was the response ended or destroyed

attemptVars == <<outcome, touched, closed>>

Init == outcome = "running" /\ ~touched /\ ~closed

(* a piece of the answer goes out while the provider still sends *)
Write ==
  /\ outcome = "running" /\ touched' = TRUE
  /\ UNCHANGED <<outcome, closed>>

(* a stream that repeats itself is closed before the provider is through *)
Close ==
  /\ outcome = "running" /\ touched /\ closed' = TRUE
  /\ UNCHANGED <<outcome, touched>>

Serve ==
  /\ outcome = "running" /\ outcome' = "served"
  /\ touched' = TRUE /\ closed' = TRUE

Refuse ==
  /\ outcome = "running" /\ outcome' = "refused" /\ ~touched
  /\ UNCHANGED <<touched, closed>>

Break ==
  /\ outcome = "running" /\ outcome' = "broken" /\ touched
  /\ UNCHANGED touched /\ closed' \in {closed, TRUE}

Next == Write \/ Close \/ Serve \/ Refuse \/ Break

Spec == Init /\ [][Next]_attemptVars

Settles == <>(outcome # "running")
=============================================================================
