---------------------------- MODULE MCOwnership ----------------------------
(***************************************************************************)
(* The memory requests are charged for: the payloads of a request or a     *)
(* background job with scopes below it, and the bodies of client requests. *)
(* The first state chooses which is checked; the variables of the other    *)
(* stand still.                                                            *)
(***************************************************************************)
EXTENDS Ownership, RequestBodies

VARIABLE part   \* the part that moves

all == <<part, vars, bVars>>

Start == part \in {"payloads", "bodies"} /\ Init /\ Body!Init

Payloads(move) == part = "payloads" /\ move /\ UNCHANGED <<part, bVars>>
Bodies(move)   == part = "bodies" /\ move /\ UNCHANGED <<part, vars>>

Run ==
  /\ Start /\ [][Payloads(Next) \/ Bodies(Body!Next)]_all
  /\ \A l \in Leases : WF_all(Payloads(IOEnds(l)))
  /\ \A s \in Scopes : WF_all(Payloads(ScopeEnds(s)))
  /\ \A r \in BodyRequests : WF_all(Bodies(Body!Moves(r)))

-----------------------------------------------------------------------------
(* What a request was charged for is given back: the payloads once its       *)
(* response has ended, and a slot and the bytes of a body however its        *)
(* request ends.                                                             *)
MemoryComesBack == ClosedResponseGivesBack /\ SlotsComeBack
=============================================================================
