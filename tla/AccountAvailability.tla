------------------------ MODULE AccountAvailability ------------------------
(***************************************************************************)
(* What the proxy knows of its accounts (lib/account-availability.js) and   *)
(* how requests use it: a failure is recorded under the key it speaks of,   *)
(* which other routes may share; once its time is over one request may      *)
(* probe the keys of its route (they are half open), and the answer clears  *)
(* them or records a new failure.  Records are on disk, half-open keys in   *)
(* memory.                                                                  *)
(*                                                                         *)
(* A key without a record and one whose record is "ready" are both "clear". *)
(***************************************************************************)
EXTENDS FiniteSets

CONSTANTS
  Routes,
  Keys,       \* credentials, accounts, quota buckets, models of a credential, routes
  Scopes,     \* what a failure can speak of, see Failures
  keyOf,      \* the key of a route for each scope; routes share keys
  keyed,      \* routes with an API key; the credential key of others is the account's
  Requests,
  NoRoute

ASSUME AvailabilityAssumption ==
  /\ Scopes \subseteq {"credential", "account", "bucket", "model", "route"}
  /\ keyOf \in [Routes -> [Scopes -> Keys]]
  /\ keyed \subseteq Routes
  /\ NoRoute \notin Routes
  /\ "account" \in Scopes

VARIABLES
  health,     \* per key: what was recorded last and whether its time is over
  halfOpen,   \* keys a recovery probe was let through for
  req         \* per request: where it is and its route

vars == <<health, halfOpen, req>>

KeysOf(r)   == {keyOf[r][s] : s \in Scopes}
AccountKeys == {keyOf[r]["account"] : r \in Routes}

Health ==
  {h \in [kind : {"clear", "auth_expired", "unavailable"},
          until : {"past", "future", "never"}] : h.kind = "clear" => h.until = "past"}
Clear == [kind |-> "clear", until |-> "past"]

TypeOK ==
  /\ health \in [Keys -> Health]
  /\ halfOpen \subseteq Keys
  /\ req \in [Requests -> {r \in [phase : {"idle", "picked", "sent"},
                                  route : Routes \union {NoRoute}] :
                             r.phase # "idle" => r.route \in Routes}]

Idle == [phase |-> "idle", route |-> NoRoute]

Init ==
  /\ health = [k \in Keys |-> Clear]
  /\ halfOpen = {}
  /\ req = [q \in Requests |-> Idle]

(* A record of an account written before credentials had keys of their own:  *)
(* a route with a key may ask again with its current credential.             *)
Requalifies(r, k) ==
  r \in keyed /\ k = keyOf[r]["account"] /\ health[k].kind = "auth_expired"

isEligible(r) ==
  \A k \in KeysOf(r) :
    \/ Requalifies(r, k)
    \/ k \notin halfOpen /\ health[k].until = "past"

(* the kinds and scopes of classifyUpstreamFailure that observe records, with *)
(* the time a retry-after or reset header, or its absence, leads to           *)
Failures ==
  {f \in [kind : {"auth_expired", "unavailable"}, scope : Scopes,
          until : {"past", "future", "never"}] :
     \/ f.kind = "auth_expired" /\ f.scope = "credential"
     \/ f.kind = "unavailable"  /\ f.scope = "account"         \* credit, rate limit
     \/ f.kind = "unavailable"  /\ f.scope \in {"bucket", "route"} /\ f.until # "never"
     \/ f.kind = "unavailable"  /\ f.scope = "model" /\ f.until = "future"}

-----------------------------------------------------------------------------
(* A request                                                               *)

(* beforeDispatch ranks the routes that are eligible, then awaits *)
Pick(q, r) ==
  /\ req[q].phase = "idle" /\ isEligible(r)
  /\ req' = [req EXCEPT ![q] = [phase |-> "picked", route |-> r]]
  /\ UNCHANGED <<health, halfOpen>>

Answered(q) == req[q].phase = "sent" /\ req' = [req EXCEPT ![q] = Idle]

(* mutant: the route is trusted to be still eligible *)
BeginUnchecked(q) ==
  LET r == req[q].route
  IN  /\ req[q].phase = "picked"
      /\ UNCHANGED health
      /\ halfOpen' = halfOpen \union {k \in KeysOf(r) : health[k].kind # "clear"}
      /\ req' = [req EXCEPT ![q].phase = "sent"]

(* beginHalfOpen, the last step of beforeDispatch *)
Begin(q) ==
  LET r == req[q].route
  IN  /\ req[q].phase = "picked"
      /\ UNCHANGED health
      /\ \/ /\ isEligible(r)
            /\ halfOpen' = halfOpen \union {k \in KeysOf(r) : health[k].kind # "clear"}
            /\ req' = [req EXCEPT ![q].phase = "sent"]
         \/ /\ ~isEligible(r)
            /\ req' = [req EXCEPT ![q] = Idle]
            /\ UNCHANGED halfOpen

(* mutant: a success clears whatever was recorded *)
SucceedAnyway(q) ==
  LET cleared == KeysOf(req[q].route)
  IN  /\ Answered(q)
      /\ health' = [k \in Keys |-> IF k \in cleared THEN Clear ELSE health[k]]
      /\ halfOpen' = halfOpen \ cleared

(* recordSuccess *)
Succeed(q) ==
  LET cleared == KeysOf(req[q].route) \intersect halfOpen
  IN  /\ Answered(q)
      /\ health' = [k \in Keys |-> IF k \in cleared THEN Clear ELSE health[k]]
      /\ halfOpen' = halfOpen \ cleared

(* mutant: the probe is not taken back when it fails *)
ObserveOnly(q) ==
  /\ Answered(q)
  /\ \E f \in Failures :
       health' = [health EXCEPT ![keyOf[req[q].route][f.scope]] =
                    [kind |-> f.kind, until |-> f.until]]
  /\ UNCHANGED halfOpen

(* observeProviderFailure: observe *)
Observe(q) ==
  /\ Answered(q)
  /\ \E f \in Failures :
       health' = [health EXCEPT ![keyOf[req[q].route][f.scope]] =
                    [kind |-> f.kind, until |-> f.until]]
  /\ halfOpen' = halfOpen \ KeysOf(req[q].route)

(* releaseProbe: the request did not suit the route, overflowed its context, *)
(* or the output was of no use                                               *)
Release(q) ==
  /\ Answered(q)
  /\ halfOpen' = halfOpen \ KeysOf(req[q].route)
  /\ UNCHANGED health

(* a client abort, a local failure or overload, or an answer observe does not *)
(* record (forbidden, invalid_request, unknown)                               *)
Unobserved(q) == Answered(q) /\ UNCHANGED <<health, halfOpen>>

Answer(q) == Succeed(q) \/ Observe(q) \/ Release(q) \/ Unobserved(q)

-----------------------------------------------------------------------------
(* The surroundings                                                        *)

Elapse(k) ==
  /\ health[k].until = "future"
  /\ health' = [health EXCEPT ![k].until = "past"]
  /\ UNCHANGED <<halfOpen, req>>

(* reset (with the bucket of the account) and resetModelAccess *)
Reset ==
  /\ \E r \in Routes, scopes \in {{"account", "bucket"}, {"model"}} :
       LET cleared == {keyOf[r][s] : s \in scopes \intersect Scopes}
       IN  /\ health' = [k \in Keys |-> IF k \in cleared THEN Clear ELSE health[k]]
           /\ halfOpen' = halfOpen \ cleared
  /\ UNCHANGED req

Restart ==
  /\ halfOpen' = {}
  /\ req' = [q \in Requests |-> Idle]
  /\ UNCHANGED health

Next ==
  \/ \E q \in Requests : Begin(q) \/ Answer(q) \/ \E r \in Routes : Pick(q, r)
  \/ \E k \in Keys : Elapse(k)
  \/ Reset
  \/ Restart

Spec == Init /\ [][Next]_vars

(* Dispatches go on and attempts have deadlines, so requests get their       *)
(* answers; time passes.                                                     *)
FairSpec ==
  /\ Spec
  /\ \A q \in Requests : WF_vars(Begin(q)) /\ WF_vars(Answer(q))
  /\ \A k \in Keys : WF_vars(Elapse(k))

-----------------------------------------------------------------------------
(* Properties                                                              *)

(* The record of k keeps requests away, but for the requalification.         *)
Cooling(k) ==
  health[k].until # "past" /\ ~(health[k].kind = "auth_expired" /\ k \in AccountKeys)

(* A half-open key has a failure on record whose time is over: a failure that *)
(* another route of the account reports meanwhile ends the probe, so that its *)
(* answer cannot be taken for one about the newer failure.                    *)
HalfOpenIsDue ==
  \A k \in halfOpen : health[k].kind # "clear" /\ ~Cooling(k)

(* The answer of a request, however late, never clears a failure whose time  *)
(* is not over: a success that was under way before the account was reported *)
(* exhausted says nothing of it (account-availability.js:98, recordSuccess). *)
LateAnswerKeepsCooldown ==
  \A q \in Requests, k \in Keys :
    req[q].phase = "sent" /\ req'[q].phase = "idle" /\ Cooling(k)
    => health'[k].kind # "clear"

(* setup.md:80: "honor Retry-After/reset": no request goes out on a route one *)
(* of whose keys is cooling or being probed, although the failure or the      *)
(* probe came after the route was ranked, possibly on another route.          *)
NoDispatchWhileCooling ==
  \A q \in Requests :
    req[q].phase = "picked" /\ req'[q].phase = "sent"
    => \A k \in KeysOf(req[q].route) :
         Cooling(k) \/ k \in halfOpen => Requalifies(req[q].route, k)

(* A cooldown holds: nobody's answer ends it early, and nobody tries a route  *)
(* in the meantime, whatever was known when the request was under way or      *)
(* ranked.                                                                    *)
CooldownsHold == [][LateAnswerKeepsCooldown /\ NoDispatchWhileCooling]_vars

(* upstream-failure.js:65: "Model access can change; retry after a bounded    *)
(* interval, never an account ban".  A model that is being probed does not    *)
(* stay so for good.                                                          *)
ProbeEnds ==
  \A r \in Routes : keyOf[r]["model"] \in halfOpen ~> keyOf[r]["model"] \notin halfOpen
=============================================================================
