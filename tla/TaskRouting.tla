---------------------------- MODULE TaskRouting ----------------------------
(***************************************************************************)
(* Concurrent requests of one task (lib/task-runtime.js beforeDispatch and *)
(* recordFailure, lib/routing.js guardedDispatch) on its record.  A        *)
(* request reads the record, decides on an event and a candidate list from *)
(* what it read, and only then, after an await, acquires a route; in       *)
(* between other requests of the same task acquire and fail.               *)
(***************************************************************************)
EXTENDS TaskRecord

CONSTANTS
  Requests,          \* the requests a client sends for this task
  roleOf,            \* the role each request is served in
  routesFor,         \* the routes whose capabilities fit each request
  LargeRequests,     \* the requests whose prompt may outgrow a route
  MaxAttempts        \* bound: routes each request attempts

ASSUME RequestAssumption ==
  /\ roleOf \in [Requests -> Roles]
  /\ routesFor \in [Requests -> SUBSET Providers]
  /\ LargeRequests \subseteq Requests
  /\ MaxAttempts \in [Requests -> Nat]

VARIABLES
  record,            \* the task's record in the store
  req                \* the requests in flight

vars == <<record, req>>

(* served, failed and refused requests are over; one that is "broken" ended  *)
(* by throwing an undefined previousError.                                   *)
Finished == {"served", "failed", "refused", "broken"}
Phases   == {"waiting", "looking", "ranked", "dispatched"} \union Finished

(* One request: what beforeDispatch found (event, candidates), the route it  *)
(* acquired, the routes guardedDispatch attempted, whether previousError is  *)
(* set, the routes too small for it (contextUpgrade) and whether its body    *)
(* was compacted.  (contextUpgrade belongs to the task context: a further    *)
(* dispatch of the same request would start with it, which is left out.)     *)
RequestType ==
  {r \in [phase      : Phases,
          event      : Events,
          candidates : SUBSET Providers,
          route      : Providers \union {NoPin},
          attempted  : SUBSET Providers,
          error      : BOOLEAN,
          small      : SUBSET Providers,
          compacted  : BOOLEAN] :
     r.phase = "dispatched" => r.route \in Providers}

TypeOK == record \in RecordType /\ req \in [Requests -> RequestType]

(* a request outside the dispatch loop: no local state worth keeping *)
Idle(phase) ==
  [phase |-> phase, event |-> "start", candidates |-> {}, route |-> NoPin,
   attempted |-> {}, error |-> FALSE, small |-> {}, compacted |-> FALSE]

Init == record = EmptyRecord /\ req = [q \in Requests |-> Idle("waiting")]

Role(q) == roleOf[q]
Pin(q)  == record.pins[Role(q)]

Arrive(q) ==
  /\ req[q].phase = "waiting"
  /\ req' = [req EXCEPT ![q].phase = "looking"]
  /\ UNCHANGED record

End(q, phase) == req' = [req EXCEPT ![q] = Idle(phase)]

(* a request that looked for a larger context is compacted, once, and looks   *)
(* again with no previousError                                               *)
Compact(q, attempted) ==
  /\ req[q].small # {} /\ ~req[q].compacted
  /\ req' = [req EXCEPT ![q] = [Idle("looking") EXCEPT !.attempted = attempted,
                                                       !.compacted = TRUE]]

(* mutant: compaction is tried whenever a larger context is missing *)
RefuseOverAndOver(q) ==
  /\ UNCHANGED record
  /\ \/ /\ req[q].small # {}
        /\ req' = [req EXCEPT ![q] = [Idle("looking") EXCEPT
                     !.attempted = req[q].attempted, !.compacted = TRUE]]
     \/ End(q, "refused")

(* beforeDispatch or acquire throws and nothing is written *)
Refuse(q) ==
  /\ UNCHANGED record
  /\ Compact(q, req[q].attempted) \/ End(q, "refused")

(* a larger context is needed and the task used up its models *)
Capped(small) == small # {} /\ Cardinality(record.history) >= MaxSlots

(* the routes acquire may choose from: those that fit the request and are    *)
(* not too small for it and, for a capped task, serve a model it has used    *)
Permitted(fitting, small) ==
  {p \in fitting \ small : Capped(small) => modelOf[p] \in record.history}

Ranked(q, small, event, candidates) ==
  /\ UNCHANGED record
  /\ req' = [req EXCEPT ![q].phase = "ranked", ![q].small = small,
                        ![q].event = event, ![q].candidates = candidates]

(* beforeDispatch up to acquire.  fitting: those of the routes that fit the  *)
(* request whose account is eligible just now; outgrown: the prompt no longer    *)
(* fits the pinned route.                                                    *)
Look(q) ==
  /\ req[q].phase = "looking"
  /\ \E fitting \in SUBSET routesFor[q], outgrown \in BOOLEAN :
       LET pin       == Pin(q)
           small     == req[q].small \union (IF outgrown THEN {pin} ELSE {})
           permitted == Permitted(fitting, small)
       IN  /\ outgrown => pin # NoPin /\ q \in LargeRequests
           /\ \/ /\ pin \in permitted \ record.failed
                 /\ Ranked(q, small, "continue", {pin})
              \/ /\ pin # NoPin /\ pin \notin permitted \ record.failed
                 /\ Capped(small) => permitted # {}
                 /\ \E event \in FailureEvents :
                      /\ pin \in record.failed => event = "unavailable"
                      /\ Ranked(q, small, event, permitted)
              \/ /\ pin = NoPin
                 /\ Capped(small) => permitted # {}
                 /\ Ranked(q, small,
                           IF Role(q) = Primary THEN "start" ELSE "specialist",
                           permitted)
              \/ /\ Capped(small) /\ permitted = {}
                 /\ Refuse(q)

(* p is allocated; guardedDispatch attempts a route once only and throws the *)
(* previous error when it is given the route again                           *)
Grant(q, rec, p) ==
  /\ record' = Allocated(rec, Role(q), p)
  /\ \/ /\ p \notin req[q].attempted
        /\ req' = [req EXCEPT ![q].phase = "dispatched", ![q].route = p,
                              ![q].attempted = @ \union {p},
                              ![q].event = "start", ![q].candidates = {}]
     \/ /\ p \in req[q].attempted
        /\ End(q, IF req[q].error THEN "failed" ELSE "broken")

(* acquire: a route that keeps the role where it is *)
AcquireKept(q) ==
  LET base   == Recovered(record, Role(q))
      viable == Viable(base, req[q].candidates)
  IN  /\ req[q].phase = "ranked"
      /\ \E p \in Kept(base, Role(q), viable, req[q].event) :
           IF HasSlot(base, Role(q), p) THEN Grant(q, base, p) ELSE Refuse(q)

(* acquire: no such route, and the role has no pin or the event may move it *)
AcquireMoved(q) ==
  LET base   == Recovered(record, Role(q))
      viable == Viable(base, req[q].candidates)
      freed  == Displaced(base, Role(q), req[q].event)
  IN  /\ req[q].phase = "ranked"
      /\ Kept(base, Role(q), viable, req[q].event) = {}
      /\ Pin(q) = NoPin \/ req[q].event \in MovingEvents
      /\ \E p \in Acquirable(freed, Role(q), viable) :
           IF HasSlot(freed, Role(q), p) THEN Grant(q, freed, p) ELSE Refuse(q)

(* acquire: TASK_PIN_UNAVAILABLE, NO_ELIGIBLE_ROUTE, TASK_MODEL_BUDGET_EXHAUSTED *)
AcquireRefused(q) ==
  LET base   == Recovered(record, Role(q))
      viable == Viable(base, req[q].candidates)
      freed  == Displaced(base, Role(q), req[q].event)
  IN  /\ req[q].phase = "ranked"
      /\ Kept(base, Role(q), viable, req[q].event) = {}
      /\ \/ Pin(q) # NoPin /\ req[q].event \notin MovingEvents
         \/ Acquirable(freed, Role(q), viable) = {}
      /\ Refuse(q)

Succeed(q) ==
  /\ req[q].phase = "dispatched"
  /\ End(q, "served")
  /\ UNCHANGED record

(* a failure that says the route is unavailable is recorded; the loop looks  *)
(* for another route unless the stream had started or the attempts ran out   *)
Fail(q) ==
  /\ req[q].phase = "dispatched"
  /\ record' = FailureRecorded(record, req[q].route)
  /\ \/ /\ Cardinality(req[q].attempted) < MaxAttempts[q]
        /\ req' = [req EXCEPT ![q].phase = "looking", ![q].error = TRUE,
                              ![q].route = NoPin]
     \/ End(q, "failed")

(* a context overflow is no failure of the route: look for a larger one *)
Overflow(q) ==
  /\ req[q].phase = "dispatched"
  /\ q \in LargeRequests
  /\ req' = [req EXCEPT ![q].phase = "looking", ![q].error = TRUE,
                        ![q].route = NoPin,
                        ![q].small = @ \union {req[q].route}]
  /\ UNCHANGED record

(* client abort, local failure, or a status that says nothing of the route;  *)
(* or another request already runs the recovery probe of the account: then   *)
(* beforeDispatch throws before the route counts as attempted, and the       *)
(* request may be compacted                                                  *)
Abandon(q) ==
  /\ req[q].phase = "dispatched"
  /\ End(q, "failed") \/ Compact(q, req[q].attempted \ {req[q].route})
  /\ UNCHANGED record

Step(q) ==
  \/ Look(q)
  \/ AcquireKept(q)
  \/ AcquireMoved(q)
  \/ AcquireRefused(q)
  \/ Succeed(q)
  \/ Fail(q)
  \/ Overflow(q)
  \/ Abandon(q)

Done == /\ \A q \in Requests : req[q].phase \in Finished
        /\ UNCHANGED vars

Next == (\E q \in Requests : Arrive(q) \/ Step(q)) \/ Done

Spec == Init /\ [][Next]_vars

(* Every handler runs to its end: the event loop resumes each pending await  *)
(* and every upstream attempt has a deadline.                                *)
FairSpec == Spec /\ WF_vars(\E q \in Requests : Step(q))

-----------------------------------------------------------------------------
(* Properties                                                              *)

(* No role, visible or hidden, ever draws on more than the three slots of   *)
(* its ledger, whatever order concurrent requests acquire, fail and recover *)
(* in (task-routing.js: the ceiling test of acquire, line 196).             *)
SlotsBounded ==
  /\ Cardinality(record.models) <= MaxSlots
  /\ \A h \in HiddenRoles : Cardinality(record.helperModels[h]) <= MaxSlots

(* modelHistory is complete: every model that holds a slot, is pinned, was  *)
(* a primary model or was retired is in it, so the limit on a larger-context *)
(* failover (task-runtime.js:438) counts every model the task has used.     *)
HistoryComplete ==
  /\ record.models \union record.primary \union record.retired \subseteq record.history
  /\ \A h \in HiddenRoles : record.helperModels[h] \subseteq record.history
  /\ ModelsOf({record.pins[r] : r \in Roles} \ {NoPin}) \subseteq record.history

(* A task never forgets a model it used: no failure, retirement, truncation *)
(* of the reservation log or recovery takes one out of modelHistory.        *)
HistoryGrows == [][record.history \subseteq record'.history]_record

(* A route that is known to have failed when acquire commits is not given   *)
(* out, even to a request that ranked it before another request saw it fail. *)
FailedRoutesStayOut ==
  [][\A q \in Requests :
       req[q].phase = "ranked" /\ req'[q].phase = "dispatched"
         => req'[q].route \notin record'.failed]_vars

(* The primary role changes its model only on a failure event: a request    *)
(* that ranked its candidates before the role was pinned, or while the pin  *)
(* was healthy, cannot move it when it acquires late.                       *)
PrimaryMovesOnFailureOnly ==
  [][\A q \in Requests :
       (/\ req[q].phase = "ranked" /\ req'[q].phase # "ranked"
        /\ record.pins[Primary] # NoPin
        /\ modelOf[record'.pins[Primary]] # modelOf[record.pins[Primary]])
       => req[q].event \in FailureEvents]_vars

(* Once three primary models were tried, a further one is admitted only if  *)
(* another role already holds a slot for it or each of the three has failed  *)
(* or was retired.                                                          *)
FurtherPrimaryOnlyAfterAllFailed ==
  [][PrimaryCapReached(record) /\ record'.primary # record.primary
       => \/ record'.primary \ record.primary \subseteq record.models
          \/ \A m \in record.primary :
               \/ m \in record.retired \union record'.retired
               \/ \E f \in record.failed : <<f, m>> \in named]_record

(* no reservation in the log is of a route of m that has not failed *)
NoHealthyReservation(m) ==
  \A p \in ReservedProviders(record) : modelOf[p] = m => p \in record.failed

(* the step of q takes the slot of m: q's attempt at a route of m failed; a   *)
(* failure event moves q's role off m; or q acquires after some failure, with *)
(* no healthy reservation of m in the log                                     *)
TakesSlot(q, m) ==
  /\ req'[q] # req[q]
  /\ \/ /\ req[q].phase = "dispatched"
        /\ modelOf[req[q].route] = m /\ req[q].route \in record'.failed
     \/ /\ req[q].phase = "ranked" /\ req[q].event \in FailureEvents
        /\ Pin(q) # NoPin /\ modelOf[Pin(q)] = m /\ m \in record'.retired
     \/ /\ req[q].phase = "ranked" /\ record.failed # {}
        /\ NoHealthyReservation(m)

(* A model loses its slot in three ways only, whoever acquires and fails in   *)
(* between: by the failure of an attempt at one of its routes, even if        *)
(* another role uses it by another route (task-routing.js:249-256); by a      *)
(* failure event that moves a role off it (lines 149-161); or, once some      *)
(* route has failed, when its reservations in the log are all of failed       *)
(* routes (lines 97-105), which they are, too, when later ones have pushed    *)
(* those of a healthy route out of the log (line 230).                        *)
SlotReleasedOnFailureOnly ==
  [][\A m \in record.models \ record'.models :
       \E q \in Requests : TakesSlot(q, m)]_record

(* Every request that arrived ends: the dispatch loop cannot go round       *)
(* forever on failovers, overflows and compactions.                         *)
EveryRequestEnds ==
  \A q \in Requests : req[q].phase = "looking" ~> req[q].phase \in Finished

=============================================================================
