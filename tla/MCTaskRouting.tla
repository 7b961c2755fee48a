--------------------------- MODULE MCTaskRouting ---------------------------
(***************************************************************************)
(* Instances of TaskRouting: a and b are two routes of one model, any      *)
(* other serves a model of its own; a route carries its model's name.      *)
(***************************************************************************)
EXTENDS TaskRouting, TLC

CONSTANTS a, b, c, d, ma, mc, md
CONSTANTS q1, q2, q3, primary, worker

MCModelOf ==
  LET all == (a :> ma) @@ (b :> ma) @@ (c :> mc) @@ (d :> md)
  IN  [p \in Providers |-> all[p]]

MCNamed == {<<p, MCModelOf[p]>> : p \in Providers}

(* two requests of the primary role and one of a worker *)
MCRoleOf ==
  LET all == (q1 :> primary) @@ (q2 :> primary) @@ (q3 :> worker)
  IN  [q \in Requests |-> all[q]]

(* the primary requests fit a, the worker's fits the other route of its model *)
MCRoutesFor == [q \in Requests |-> Providers \ {IF q = q3 THEN a ELSE b}]
AllRoutes == [q \in Requests |-> Providers]

(* how often a request may try *)
PrimaryTwice == [q \in Requests |-> IF q = q3 THEN 1 ELSE 2]

(* c and d are alike as long as each has its model *)
MCExchange == (c :> d) @@ (d :> c) @@ (mc :> md) @@ (md :> mc)
=============================================================================
