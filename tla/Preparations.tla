----------------------------- MODULE Preparations -----------------------------
(***************************************************************************)
(* The conversation that ToolHistory makes ready for each attempt, beside  *)
(* the other parts of a request's way.                                     *)
(***************************************************************************)
EXTENDS Naturals

CONSTANTS
  Clients,      \* what clients do
  LoopAt, FlatAbove, DedupFrom,
  MaxHistory,   \* bound: messages of a conversation
  MaxTries      \* bound: attempts of a request

VARIABLES said, list, sent, turn

Prep == INSTANCE ToolHistory WITH MaxMessages <- MaxHistory, MaxAttempts <- MaxTries

-----------------------------------------------------------------------------
(* A provider gets every call with its result and every result with its call *)
(* (transforms.js:1228).                                                     *)
CallsStayPaired == Prep!CallsStayPaired

(* What a tool answered reaches the provider, on every attempt, with the     *)
(* exceptions named in ToolHistory (routing.js:7058, transforms.js:1142).    *)
ExchangesStay == Prep!ExchangesStay
=============================================================================
