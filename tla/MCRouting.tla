------------------------------ MODULE MCRouting ------------------------------
(***************************************************************************)
(* A request on its way to a provider: the approvals it may wait for, the  *)
(* routes its task allows it, and the bounded stores in which requests     *)
(* keep and change what they share.  The first state chooses which is      *)
(* checked; the variables of the others stand still.                       *)
(***************************************************************************)
EXTENDS MCTaskRouting, Approvals, StateRetention

VARIABLE part    \* the part that moves

OneSession == [h \in Hashes |-> 1]

(* Two stores, two keys and two calls are alike, too.  As only one part      *)
(* moves, all are exchanged at once.                                         *)
Exchanged(pair) == [x \in pair |-> CHOOSE y \in pair : y # x]
Alike == {MCExchange @@ Exchanged(Stores) @@ Exchanged(Calls)}
           \union Permutations(Keys)

all == <<part, vars, aVars, retentionVars>>

Start ==
  /\ part \in {"routes", "approvals", "stores"}
  /\ Init /\ Approval!Init /\ RetentionInit

Only(p, move) == part = p /\ UNCHANGED part /\ move
Routes(move)  == Only("routes", move) /\ UNCHANGED <<aVars, retentionVars>>
Asks(move)    == Only("approvals", move) /\ UNCHANGED <<vars, retentionVars>>
Retains(move) == Only("stores", move) /\ UNCHANGED <<vars, aVars>>

(* the bounds end approvals, so that only routes may deadlock *)
Rests == part = "approvals" /\ UNCHANGED all

Run ==
  /\ Start
  /\ [][Routes(Next) \/ Asks(Approval!Next) \/ Retains(RetentionNext) \/ Rests]_all
=============================================================================
