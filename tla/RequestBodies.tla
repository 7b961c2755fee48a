---------------------------- MODULE RequestBodies ----------------------------
(***************************************************************************)
(* Body admission beside the budget of upstream payloads (Ownership): the   *)
(* two counters know nothing of each other.                                *)
(***************************************************************************)
EXTENDS Naturals

CONSTANTS
  BodyRequests,
  BodySlots,     \* maxInflightRequests
  BodyBytes,     \* maxInflightBodyBytes, in chunks
  MaxBody        \* maxBytes of one body, in chunks

ASSUME AdmissionAssumption == BodySlots \in Nat /\ BodyBytes \in Nat

VARIABLES inflight, retainedBytes, req

Body == INSTANCE BodyAdmission
  WITH Requests <- BodyRequests, MaxInflight <- BodySlots, MaxRetained <- BodyBytes

bVars == <<inflight, retainedBytes, req>>

-----------------------------------------------------------------------------
(* The counters of body admission are what the live leases hold.             *)
AdmissionExact == Body!AdmissionExact

(* A lease on a body is released, however its request ends.                  *)
SlotsComeBack == Body!SlotsComeBack
=============================================================================
