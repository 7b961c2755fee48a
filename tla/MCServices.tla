------------------------------ MODULE MCServices ------------------------------
(***************************************************************************)
(* The services beside the answers, each checked by itself: the first      *)
(* state chooses the part, and the variables of the others stand still.    *)
(* AccountAvailability has two routes of one account: r1 has an API key,   *)
(* r2 has none, so that its credential is the account, and each a model.   *)
(***************************************************************************)
EXTENDS AccountAvailability, Conversations, TLC

CONSTANTS r1, r2, cred, acct, quota, m1, m2, q1, q2, q3
CONSTANTS a1, a2

MCKeyOf ==
  r1 :> [credential |-> cred, account |-> acct, bucket |-> quota, model |-> m1]
  @@ r2 :> [credential |-> acct, account |-> acct, bucket |-> quota, model |-> m2]

(* one session of three requests, or three requests over HTTP *)
ThreeTurns == 1..3
WsOrHttp   == {[q \in ThreeTurns |-> "ws"]} \union [ThreeTurns -> {"json", "sse"}]

(* two calls say the same *)
SomeCalls == {[id |-> 1, says |-> "x"], [id |-> 2, says |-> "y"], [id |-> 3, says |-> "x"]}

VARIABLE part   \* the part that moves

all == <<part, vars, respVars, hostVars>>

Start ==
  /\ part \in {"availability", "responses", "hosted"}
  /\ Init /\ Resp!Init /\ Hosted!Init
  /\ part # "responses" => rCall = [q \in Turns |-> Resp!Coming("ws")]

Routing(move)    == /\ part = "availability" /\ move
                    /\ UNCHANGED <<part, respVars, hostVars>>
Responding(move) == /\ part = "responses" /\ move
                    /\ UNCHANGED <<part, vars, hostVars>>
Hosting(move)    == /\ part = "hosted" /\ move
                    /\ UNCHANGED <<part, vars, respVars>>

Run ==
  /\ Start
  /\ [][\/ Routing(Next) \/ Responding(Resp!Next) \/ Hosting(Hosted!Next)]_all
  /\ WF_all(Responding(\E q \in Turns : Resp!Answer(q)))
  /\ WF_all(Responding(\E q \in Turns : Resp!Return(q)))
  /\ WF_all(Responding(\E q \in Turns : Resp!Sent(q)))

=============================================================================
