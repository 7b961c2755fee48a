-------------------------- MODULE ProviderAttempts --------------------------
(***************************************************************************)
(* What an attempt at a provider consists of, each part a state machine of *)
(* its own: the stream of an answer, the same for a provider with its own  *)
(* protocol, and what is remembered of the failures by which requests      *)
(* choose their attempts.                                                  *)
(***************************************************************************)
EXTENDS Naturals, FiniteSets

CONSTANTS
  ChunkKinds,  \* the kinds of chunk a stream brings
  FlushAfter,  \* chunks with data before the first flush
  Terminated,  \* a stream ends with [DONE] in a chunk of its own
  MaxChunks,   \* bound: the chunks of one answer
  Ranked,      \* the providers requests choose from
  Groups,      \* the requests that do
  Bannable,    \* bound: providers a user bans
  Long, Short  \* cooldowns

ASSUME AttemptsAssumption ==
  /\ IsFiniteSet(Ranked) /\ "pick" \notin Ranked /\ Bannable \subseteq Ranked
  /\ Long \in Nat /\ Short \in Nat

VARIABLES
  wire, sHold, sPromise, sClient,         \* ProviderStream
  came, nHold, nPromise, nClient,         \* NativeStream
  left, saved, quota, deferred, banned, req \* ProviderHealth

Stream == INSTANCE ProviderStream
  WITH hold <- sHold, promise <- sPromise, client <- sClient

Native == INSTANCE NativeStream
  WITH hold <- nHold, promise <- nPromise, client <- nClient

Health == INSTANCE ProviderHealth WITH Providers <- Ranked, Requests <- Groups

sVars == <<wire, sHold, sPromise, sClient>>
nVars == <<came, nHold, nPromise, nClient>>
hVars == <<left, saved, quota, deferred, banned, req>>

-----------------------------------------------------------------------------
(* The text a stream gives the client is what the provider sent, in order    *)
(* and without gaps, complete when served, for either kind of stream         *)
(* (routing.js, routeStreamToProviderImpl, routeNativeStreamToProviderImpl). *)
NothingLost == Stream!NothingLost /\ Native!NothingLost

(* Both kinds of stream implement Attempt, which ChatCompletion relies on.   *)
KeepsPromise == Stream!KeepsPromise /\ Native!KeepsPromise

(* A provider is passed over only if it was cooled since the request chose   *)
(* it (scoring.js, routing.js:9421).                                         *)
SkippedIfCooledSince == Health!SkippedIfCooledSince
=============================================================================
