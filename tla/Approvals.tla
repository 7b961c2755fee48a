------------------------------ MODULE Approvals ------------------------------
(***************************************************************************)
(* The approvals of HumanApproval beside the other parts of a request's    *)
(* way: its state machine for whatever the requests ask.                   *)
(***************************************************************************)
CONSTANTS
  Hashes, SessionOf,  \* what a request asks, and the session of each
  Calls,
  MaxRecords          \* bound: records made

ASSUME ApprovalsAssumption == Hashes # {}

VARIABLES approval, pending, byHash, ask

Approval == INSTANCE HumanApproval WITH record <- approval

aVars == <<approval, pending, byHash, ask>>

-----------------------------------------------------------------------------
(* What needs a human is routed once for each approval a human gave          *)
(* (human-approval.js, enforce).                                             *)
RoutedOnceApproved == Approval!RoutedOnceApproved

(* A prompt for approval names an approval that can be given.                *)
PromptIsUsable == Approval!PromptIsUsable
=============================================================================
