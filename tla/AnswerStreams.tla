---------------------------- MODULE AnswerStreams ----------------------------
(***************************************************************************)
(* What the chunks of an answer become for clients of other protocols: the *)
(* events of one message of Anthropic, and those of one response.          *)
(***************************************************************************)
EXTENDS Naturals, FiniteSets

CONSTANTS
  Calls,       \* ids of tool calls
  KindSets,    \* bound: which call is a function, a custom or a virtual one
  MaxTexts,    \* bound: the pieces of text in a message
  MaxPieces    \* bound: and in a response

ASSUME StreamsAssumption ==
  /\ IsFiniteSet(Calls) /\ {"message", "response", "text"} \intersect Calls = {}
  /\ KindSets \subseteq [Calls -> {"function", "custom", "virtual"}]

VARIABLES
  given, res, out,                \* MessageStream
  written, mock, events, history  \* ResponseStream

Message == INSTANCE MessageStream

Events == INSTANCE ResponseStream
  WITH given <- written, out <- events, MaxTexts <- MaxPieces

mVars == <<given, res, out>>
eVars == <<written, mock, events, history>>

-----------------------------------------------------------------------------
(* An Anthropic client gets one well-formed message, however the answer came *)
(* or broke off (anthropic-gateway.js, AnthropicStreamResponse).             *)
WellFormed == Message!WellFormed

(* Each tool call of the answer reaches such a client once, with the         *)
(* arguments that were sent for it, or explained when it is not valid.       *)
CallsGivenOnce == Message!CallsGivenOnce

(* The events of a response come in an order its clients expect              *)
(* (responses.js, MockResponse).                                             *)
EventsInOrder == Events!EventsInOrder

(* A completed response holds all that was written, and the conversation     *)
(* remembers it (responses.js, MockResponse, appendAssistantToHistory).      *)
ResponseComplete == Events!ResponseComplete
=============================================================================
