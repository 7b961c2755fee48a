----------------------------- MODULE TaskRecord -----------------------------
(***************************************************************************)
(* The persisted record of one task and what lib/task-routing.js computes  *)
(* on it.  acquire and recordFailure each run inside one transaction of    *)
(* the task store, on the record as it is at that moment, so each is a     *)
(* function from records to records here; TaskRouting puts the requests    *)
(* that share a record around them.                                        *)
(*                                                                         *)
(* A provider is one configured route, a model its canonical model.  The   *)
(* order of a candidate list comes from ranking heuristics, so where the   *)
(* code takes the first candidate that fits, any that fits may be taken.   *)
(***************************************************************************)
EXTENDS Naturals, Sequences, FiniteSets

CONSTANTS
  Providers,         \* the configured routes
  Models,            \* the canonical models
  modelOf,           \* canonicalModel of each route
  named,             \* the <<route, model>> whose route name contains the model's name
  Primary,           \* the role "primary"
  WorkerRoles,       \* the other visible roles: worker, reviewer, virtual agents
  HiddenRoles,       \* "assessment" and "memory", with slots of their own
  MaxSlots,          \* distinct models a task may use (3 in the code)
  ReservationLog,    \* reservations a record keeps (100 in the code)
  NoPin              \* a role that never acquired a route

Roles == {Primary} \union WorkerRoles \union HiddenRoles

ASSUME RecordAssumption ==
  /\ modelOf \in [Providers -> Models]
  /\ named \subseteq Providers \X Models
  /\ MaxSlots \in Nat \ {0}
  /\ ReservationLog \in Nat \ {0}
  /\ NoPin \notin Providers
  /\ Primary \notin WorkerRoles \union HiddenRoles
  /\ WorkerRoles \intersect HiddenRoles = {}

\* What a failed attempt can tell the router, and the event of a request.
FailureEvents == {"unavailable", "capability_mismatch"}
MovingEventsWithStart == FailureEvents \union {"specialist", "start"}   \* mutant
MovingEvents  == FailureEvents \union {"specialist"}
Events        == MovingEvents \union {"start", "continue"}

(* A pin is the route a role was last given; its model is modelOf[pin].     *)
(* reservations holds the routes of the last allocations, oldest first.     *)
RecordType ==
  [models       : SUBSET Models,              \* slots of the visible roles
   helperModels : [HiddenRoles -> SUBSET Models],
   primary      : SUBSET Models,              \* primaryModels
   pins         : [Roles -> Providers \union {NoPin}],
   failed       : SUBSET Providers,
   reservations : Seq(Providers),
   history      : SUBSET Models,              \* modelHistory
   retired      : SUBSET Models]              \* models of retiredModels

EmptyRecord ==
  [models |-> {}, helperModels |-> [h \in HiddenRoles |-> {}], primary |-> {},
   pins |-> [r \in Roles |-> NoPin], failed |-> {}, reservations |-> <<>>,
   history |-> {}, retired |-> {}]

ReservedProviders(rec) == {rec.reservations[i] : i \in DOMAIN rec.reservations}
ModelsOf(ps) == {modelOf[p] : p \in ps}

(* trackedModels: the slots the given role draws on. *)
Tracked(rec, role) ==
  IF role \in HiddenRoles THEN rec.helperModels[role] ELSE rec.models

PrimaryCapReached(rec) == Cardinality(rec.primary) >= MaxSlots

(* every primary model is retired or carries its name in a failed route *)
AllPrimaryFailed(rec) ==
  \A m \in rec.primary :
    m \in rec.retired \/ \E f \in rec.failed : <<f, m>> \in named

(* The head of acquire: history is completed, and once a route has failed   *)
(* only models with a reservation on a route that did not fail keep a slot. *)
Settled(rec) ==
  [rec EXCEPT
    !.history = @ \union rec.models \union rec.primary
                  \union (UNION {rec.helperModels[h] : h \in HiddenRoles})
                  \union ModelsOf(ReservedProviders(rec)),
    !.models  = IF rec.failed = {} THEN @
                ELSE @ \intersect ModelsOf(ReservedProviders(rec) \ rec.failed)]

(* The primary role forgets the failures once all its models have failed.   *)
Recovered(rec, role) ==
  LET settled == Settled(rec)
  IN  IF /\ role = Primary
         /\ PrimaryCapReached(settled)
         /\ AllPrimaryFailed(settled)
         /\ settled.failed # {}
      THEN [settled EXCEPT !.failed = {}, !.retired = @ \ settled.primary]
      ELSE settled

(* mutant: the candidates are trusted as they were ranked *)
ViableUnfiltered(rec, candidates) == candidates

Viable(rec, candidates) == candidates \ rec.failed

(* The routes that keep the role where it is: its own route, else, when the *)
(* event lets a pinned role move, another route of the same model.          *)
Kept(rec, role, viable, event) ==
  LET pin == rec.pins[role]
  IN  IF pin = NoPin THEN {}
      ELSE IF pin \in viable THEN {pin}
      ELSE IF event \in MovingEvents
           THEN {p \in viable : modelOf[p] = modelOf[pin]}
           ELSE {}

(* A failure event with no route of the pinned model left gives its slot up. *)
Displaced(rec, role, event) ==
  LET pin == rec.pins[role]
      m   == modelOf[pin]
  IN  IF pin = NoPin \/ event \notin FailureEvents THEN rec
      ELSE IF role \in HiddenRoles
           THEN [rec EXCEPT !.helperModels[role] = @ \ {m}, !.retired = @ \union {m}]
           ELSE [rec EXCEPT !.models = @ \ {m}, !.retired = @ \union {m}]

(* mutant: the cap on primary models is not looked at *)
AcquirableUncapped(rec, role, viable) ==
  {p \in viable : modelOf[p] \in Tracked(rec, role)
                  \/ Cardinality(Tracked(rec, role)) < MaxSlots}

(* The routes a role may take when nothing keeps it where it is.            *)
Acquirable(rec, role, viable) ==
  LET capped   == role = Primary /\ PrimaryCapReached(rec)
      allowed  == {p \in viable :
                     \/ modelOf[p] \in Tracked(rec, role)
                     \/ ~capped /\ Cardinality(Tracked(rec, role)) < MaxSlots
                     \/ capped /\ AllPrimaryFailed(rec)}
  IN  IF allowed = {} /\ capped /\ ~AllPrimaryFailed(rec)
      THEN {p \in viable : modelOf[p] \in rec.primary}
      ELSE allowed

HasSlotUnchecked(rec, role, p) == TRUE   \* mutant: no second ceiling test

HasSlot(rec, role, p) ==
  \/ modelOf[p] \in Tracked(rec, role)
  \/ Cardinality(Tracked(rec, role)) < MaxSlots

(* reservations.slice(-100) after the push *)
Logged(log, p) ==
  LET longer == Append(log, p)
  IN  IF Len(longer) <= ReservationLog THEN longer ELSE Tail(longer)

(* the model takes a slot of the role's ledger *)
Slotted(rec, role, m) ==
  IF role \in HiddenRoles
  THEN [rec EXCEPT !.helperModels[role] = @ \union {m}]
  ELSE [rec EXCEPT !.models = @ \union {m}]

(* mutant: a new model is noted in modelHistory by the next acquire only *)
AllocatedUnnoted(rec, role, p) ==
  [Slotted(rec, role, modelOf[p]) EXCEPT
     !.primary      = IF role = Primary THEN @ \union {modelOf[p]} ELSE @,
     !.pins[role]   = p,
     !.reservations = Logged(@, p)]

(* The tail of acquire: p is allocated to role.                             *)
Allocated(rec, role, p) ==
  [Slotted(rec, role, modelOf[p]) EXCEPT
     !.primary      = IF role = Primary THEN @ \union {modelOf[p]} ELSE @,
     !.history      = @ \union {modelOf[p]},
     !.pins[role]   = p,
     !.reservations = Logged(@, p)]

(* mutant: the newest reservation gives its slot up, whoever failed *)
FailureRecordedNewest(rec, p) ==
  LET newest == rec.reservations[Len(rec.reservations)]
  IN  [rec EXCEPT !.failed = @ \union {p}, !.models = @ \ {modelOf[newest]}]

(* recordFailure: the route is marked, and the model of its last reservation *)
(* gives up its slot.                                                        *)
FailureRecorded(rec, p) ==
  [rec EXCEPT
    !.failed = @ \union {p},
    !.models = IF p \in ReservedProviders(rec) THEN @ \ {modelOf[p]} ELSE @]
=============================================================================
