---------------------------- MODULE Conversations ----------------------------
(***************************************************************************)
(* The conversations of Responses and the calls of HostedAgents, beside    *)
(* the other services.                                                     *)
(***************************************************************************)
EXTENDS Naturals

CONSTANTS
  Turns,         \* the requests, numbered in the order they come
  HostedTurns,   \* requests of Codex with tools the proxy hosts itself
  Names,         \* task ids a client may name
  MaxMessages,   \* MAX_RESPONSE_HISTORY_MESSAGES
  MaxStored,     \* MAX_RESPONSE_HISTORY
  Mixes,         \* bound: how the requests of one behaviour come
  MaxItems,      \* bound: items created ahead of a request
  MaxSends       \* bound: events of one response that wait for the socket

CONSTANTS
  HostedRequests,  \* requests of one task
  SubAgents,       \* roles of sub-agents
  ClientCalls,     \* calls for the client: an id and what they say
  MaxAgents,       \* policy.maxAgents
  MaxIterations,   \* policy.maxIterationsPerRole
  MaxLoops,        \* MAX_PROXY_HOSTED_VIRTUAL_LOOPS
  MaxHosted        \* bound: hosted calls in one answer

ASSUME ConversationsAssumption ==
  /\ Turns \subseteq Nat
  /\ MaxMessages \in Nat \ {0}
  /\ Mixes \subseteq [Turns -> {"ws", "json", "sse"}]

ASSUME HostedAssumption == MaxLoops \in Nat /\ MaxHosted \in Nat

VARIABLES session, active, stored, rCall

Resp == INSTANCE Responses
  WITH call <- rCall, Requests <- Turns, Hosted <- HostedTurns

respVars == <<session, active, stored, rCall>>

VARIABLES iterations, hCall

Hosted == INSTANCE HostedAgents
  WITH call <- hCall, Requests <- HostedRequests, Roles <- SubAgents

hostVars == <<iterations, hCall>>

-----------------------------------------------------------------------------
(* A session's conversation holds every full answer once, after its input    *)
(* (responses.js, handleResponsesWebSocket).                                 *)
TurnsRemembered == Resp!TurnsRemembered

(* The conversation of a remembered response never changes (responses.js,    *)
(* rememberResponseHistory, cloneMessages).                                  *)
BranchesApart == Resp!BranchesApart

(* Every response that can be cancelled is forgotten when it is through.     *)
ResponsesForgotten == Resp!ResponsesForgotten

(* The client gets each of its calls, whatever the proxy hosted before       *)
(* (responses.js, runChatCompletionWithProxyHostedVirtualToolsCore).         *)
ClientCallsReachClient == Hosted!ClientCallsReachClient
=============================================================================
