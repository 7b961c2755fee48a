---------------------------- MODULE RoutingProofs ----------------------------
(***************************************************************************)
(* The way of a request into a task, for every set of routes, models,      *)
(* roles and requests: the task record keeps its promises, and no role     *)
(* draws on more models than it has slots.  For any requests, in any order *)
(* with expiries, restarts and each other: what needs a human is routed    *)
(* with an approval of its own, and who is asked to approve is told a      *)
(* challenge that can be answered.  And for any conversation: a provider   *)
(* gets every call with its result and every result with its call.         *)
(***************************************************************************)
EXTENDS TaskRouting, Approvals, Preparations, Inductions, Naturals, Sequences,
        FiniteSetTheorems, SequenceTheorems, TLAPS

-----------------------------------------------------------------------------
(* The operators on records preserve the record's type.                    *)

LEMMA ModelsOfType ==
  ASSUME NEW ps \in SUBSET Providers
  PROVE  ModelsOf(ps) \subseteq Models
BY RecordAssumption DEF ModelsOf

LEMMA ReservedType ==
  ASSUME NEW rec \in RecordType
  PROVE  ReservedProviders(rec) \subseteq Providers
BY DEF ReservedProviders, RecordType

LEMMA SettledType ==
  ASSUME NEW rec \in RecordType
  PROVE  Settled(rec) \in RecordType
<1>1. ModelsOf(ReservedProviders(rec)) \subseteq Models
  BY ReservedType, ModelsOfType
<1>2. UNION {rec.helperModels[h] : h \in HiddenRoles} \subseteq Models
  BY DEF RecordType
<1> QED
  BY <1>1, <1>2 DEF Settled, RecordType

LEMMA RecoveredType ==
  ASSUME NEW rec \in RecordType, NEW role \in Roles
  PROVE  Recovered(rec, role) \in RecordType
<1> DEFINE settled == Settled(rec)
<1>1. settled \in RecordType
  BY SettledType
<1>2. [settled EXCEPT !.failed = {}, !.retired = @ \ settled.primary] \in RecordType
  BY <1>1 DEF RecordType
<1> QED
  BY <1>1, <1>2 DEF Recovered

LEMMA DisplacedType ==
  ASSUME NEW rec \in RecordType, NEW role \in Roles, NEW event
  PROVE  Displaced(rec, role, event) \in RecordType
<1> DEFINE m == modelOf[rec.pins[role]]
<1>1. CASE rec.pins[role] = NoPin \/ event \notin FailureEvents
  BY <1>1 DEF Displaced
<1>2. CASE ~(rec.pins[role] = NoPin \/ event \notin FailureEvents)
  <2>1. m \in Models
    BY <1>2, RecordAssumption DEF RecordType
  <2>2. [rec EXCEPT !.helperModels[role] = @ \ {m}, !.retired = @ \union {m}] \in RecordType
    BY <2>1 DEF RecordType
  <2>3. [rec EXCEPT !.models = @ \ {m}, !.retired = @ \union {m}] \in RecordType
    BY <2>1 DEF RecordType
  <2> QED
    BY <1>2, <2>2, <2>3 DEF Displaced
<1> QED
  BY <1>1, <1>2

LEMMA LoggedType ==
  ASSUME NEW log \in Seq(Providers), NEW p \in Providers
  PROVE  Logged(log, p) \in Seq(Providers)
<1>1. Append(log, p) \in Seq(Providers) /\ Append(log, p) # <<>>
  BY AppendProperties
<1>2. Tail(Append(log, p)) \in Seq(Providers)
  BY <1>1, HeadTailProperties
<1>3. Logged(log, p) \in {Append(log, p), Tail(Append(log, p))}
  BY Zenon DEF Logged
<1> QED
  BY <1>1, <1>2, <1>3

LEMMA SlottedType ==
  ASSUME NEW rec \in RecordType, NEW role \in Roles, NEW m \in Models
  PROVE  Slotted(rec, role, m) \in RecordType
<1>1. CASE role \in HiddenRoles
  BY <1>1 DEF Slotted, RecordType
<1>2. CASE role \notin HiddenRoles
  BY <1>2 DEF Slotted, RecordType
<1> QED
  BY <1>1, <1>2

LEMMA AllocatedType ==
  ASSUME NEW rec \in RecordType, NEW role \in Roles, NEW p \in Providers
  PROVE  Allocated(rec, role, p) \in RecordType
<1> DEFINE slotted == Slotted(rec, role, modelOf[p])
<1>1. modelOf[p] \in Models
  BY RecordAssumption
<1>2. slotted \in RecordType
  BY <1>1, SlottedType
<1> HIDE DEF slotted
<1>3. Logged(slotted.reservations, p) \in Seq(Providers)
  BY <1>2, LoggedType DEF RecordType
<1>4. [slotted EXCEPT
        !.primary      = IF role = Primary THEN @ \union {modelOf[p]} ELSE @,
        !.history      = @ \union {modelOf[p]},
        !.pins[role]   = p,
        !.reservations = Logged(@, p)] \in RecordType
  BY <1>1, <1>2, <1>3 DEF RecordType
<1> QED
  BY <1>4 DEF Allocated, slotted

LEMMA FailureRecordedType ==
  ASSUME NEW rec \in RecordType, NEW p \in Providers
  PROVE  FailureRecorded(rec, p) \in RecordType
BY DEF FailureRecorded, RecordType

-----------------------------------------------------------------------------
(* Every action preserves the type of the record and of the requests.      *)

LEMMA EndType ==
  ASSUME TypeOK, NEW q \in Requests, NEW phase \in Phases \ {"dispatched"}, End(q, phase)
  PROVE  req' \in [Requests -> RequestType]
<1>1. Idle(phase) \in RequestType
  BY DEF Idle, RequestType, Events
<1> QED
  BY <1>1 DEF TypeOK, End

(* a compacted request looks again *)
LEMMA CompactType ==
  ASSUME TypeOK, NEW q \in Requests, NEW attempted \in SUBSET Providers,
         Compact(q, attempted), record' = record
  PROVE  TypeOK'
<1> DEFINE r == [Idle("looking") EXCEPT !.attempted = attempted, !.compacted = TRUE]
<1>1. r \in RequestType
  BY DEF Idle, RequestType, Phases, Events
<1>2. req' = [req EXCEPT ![q] = r]
  BY DEF Compact
<1> HIDE DEF r
<1> QED
  BY <1>1, <1>2 DEF TypeOK

LEMMA RefuseType ==
  ASSUME TypeOK, NEW q \in Requests, Refuse(q)
  PROVE  TypeOK'
<1>1. record' = record
  BY DEF Refuse
<1>2. CASE End(q, "refused")
  <2>1. "refused" \in Phases
    BY DEF Phases, Finished
  <2> QED
    BY <1>1, <1>2, <2>1, EndType DEF TypeOK
<1>3. CASE Compact(q, req[q].attempted)
  <2>1. req[q].attempted \in SUBSET Providers
    BY DEF TypeOK, RequestType
  <2> QED
    BY <1>1, <1>3, <2>1, CompactType
<1> QED
  BY <1>2, <1>3 DEF Refuse

LEMMA GrantType ==
  ASSUME TypeOK, NEW q \in Requests, NEW rec \in RecordType,
         NEW p \in Providers, Grant(q, rec, p)
  PROVE  TypeOK'
<1>1. record' \in RecordType
  BY AllocatedType, RequestAssumption DEF Grant, Role
<1>2. CASE p \notin req[q].attempted
  BY <1>1, <1>2 DEF Grant, TypeOK, RequestType, Phases, Events
<1>3. CASE p \in req[q].attempted
  <2>1. End(q, IF req[q].error THEN "failed" ELSE "broken")
    BY <1>3 DEF Grant
  <2>2. (IF req[q].error THEN "failed" ELSE "broken") \in Phases
    BY DEF Phases, Finished
  <2> QED
    BY <1>1, <2>1, <2>2, EndType DEF TypeOK
<1> QED
  BY <1>2, <1>3

LEMMA ViableType ==
  ASSUME TypeOK, NEW q \in Requests, NEW rec
  PROVE  Viable(rec, req[q].candidates) \subseteq Providers
BY DEF Viable, TypeOK, RequestType

LEMMA RankedType ==
  ASSUME TypeOK, NEW q \in Requests, NEW small \in SUBSET Providers,
         NEW event \in Events, NEW candidates \in SUBSET Providers,
         Ranked(q, small, event, candidates)
  PROVE  TypeOK'
<1> DEFINE r == [req[q] EXCEPT !.phase = "ranked", !.small = small,
                               !.event = event, !.candidates = candidates]
<1>1. req[q] \in RequestType
  BY DEF TypeOK
<1>2. r \in RequestType
  BY <1>1 DEF RequestType, Phases
<1>3. req' = [req EXCEPT ![q] = r] /\ record' = record
  BY DEF Ranked
<1> QED
  BY <1>2, <1>3 DEF TypeOK

LEMMA LookType ==
  ASSUME TypeOK, NEW q \in Requests, Look(q)
  PROVE  TypeOK'
<1>1. PICK fitting \in SUBSET routesFor[q], outgrown \in BOOLEAN :
        LET pin       == Pin(q)
            small     == req[q].small \union (IF outgrown THEN {pin} ELSE {})
            permitted == Permitted(fitting, small)
        IN  /\ outgrown => pin # NoPin /\ q \in LargeRequests
            /\ \/ /\ pin \in permitted \ record.failed
                  /\ Ranked(q, small, "continue", {pin})
               \/ /\ pin # NoPin /\ pin \notin permitted \ record.failed
                  /\ Capped(small) => permitted # {}
                  /\ \E event \in FailureEvents :
                       /\ pin \in record.failed => event = "unavailable"
                       /\ Ranked(q, small, event, permitted)
               \/ /\ pin = NoPin
                  /\ Capped(small) => permitted # {}
                  /\ Ranked(q, small,
                            IF Role(q) = Primary THEN "start" ELSE "specialist",
                            permitted)
               \/ /\ Capped(small) /\ permitted = {}
                  /\ Refuse(q)
  BY DEF Look
<1> DEFINE pin       == Pin(q)
           small     == req[q].small \union (IF outgrown THEN {pin} ELSE {})
           permitted == Permitted(fitting, small)
           fresh     == IF Role(q) = Primary THEN "start" ELSE "specialist"
<1>2. pin \in Providers \union {NoPin}
  BY RequestAssumption DEF TypeOK, RecordType, Pin, Role
<1>3. small \in SUBSET Providers
  BY <1>1, <1>2 DEF TypeOK, RequestType
<1>4. permitted \in SUBSET Providers
  BY RequestAssumption DEF Permitted
<1>5. CASE pin \in permitted \ record.failed /\ Ranked(q, small, "continue", {pin})
  <2>1. "continue" \in Events /\ {pin} \in SUBSET Providers
    BY <1>4, <1>5 DEF Events
  <2> QED
    BY <1>3, <1>5, <2>1, RankedType
<1>6. ASSUME NEW event \in FailureEvents, Ranked(q, small, event, permitted)
      PROVE  TypeOK'
  <2>1. event \in Events
    BY DEF Events, MovingEvents
  <2> QED
    BY <1>3, <1>4, <1>6, <2>1, RankedType
<1>7. CASE Ranked(q, small, fresh, permitted)
  <2>1. fresh \in Events
    BY DEF Events, MovingEvents
  <2> QED
    BY <1>3, <1>4, <1>7, <2>1, RankedType
<1>8. CASE Refuse(q)
  BY <1>8, RefuseType
<1> QED
  BY <1>1, <1>5, <1>6, <1>7, <1>8

LEMMA RequestStepType ==
  ASSUME TypeOK, NEW q \in Requests, Arrive(q) \/ Step(q)
  PROVE  TypeOK'
<1> DEFINE base   == Recovered(record, Role(q))
           viable == Viable(base, req[q].candidates)
           freed  == Displaced(base, Role(q), req[q].event)
<1>1. Role(q) \in Roles
  BY RequestAssumption DEF Role
<1>2. base \in RecordType /\ freed \in RecordType
  BY <1>1, RecoveredType, DisplacedType DEF TypeOK
<1>3. viable \subseteq Providers
  BY ViableType
<1>4. CASE Arrive(q)
  BY <1>4 DEF Arrive, TypeOK, RequestType, Phases
<1>5. CASE Look(q)
  BY <1>5, LookType
<1>6. CASE AcquireKept(q)
  <2>1. PICK p \in Kept(base, Role(q), viable, req[q].event) :
          IF HasSlot(base, Role(q), p) THEN Grant(q, base, p) ELSE Refuse(q)
    BY <1>6 DEF AcquireKept
  <2>2. p \in Providers
    BY <1>3 DEF Kept
  <2> QED
    BY <1>2, <2>1, <2>2, GrantType, RefuseType
<1>7. CASE AcquireMoved(q)
  <2>1. PICK p \in Acquirable(freed, Role(q), viable) :
          IF HasSlot(freed, Role(q), p) THEN Grant(q, freed, p) ELSE Refuse(q)
    BY <1>7 DEF AcquireMoved
  <2>2. p \in Providers
    BY <1>3 DEF Acquirable
  <2> QED
    BY <1>2, <2>1, <2>2, GrantType, RefuseType
<1>8. CASE AcquireRefused(q)
  BY <1>8, RefuseType DEF AcquireRefused
<1>9. CASE Succeed(q)
  <2>1. "served" \in Phases
    BY DEF Phases, Finished
  <2> QED
    BY <1>9, <2>1, EndType DEF Succeed, TypeOK
<1>10. CASE Fail(q)
  <2>1. req[q].route \in Providers
    BY <1>10 DEF Fail, TypeOK, RequestType
  <2>2. record' \in RecordType
    BY <1>10, <2>1, FailureRecordedType DEF Fail, TypeOK
  <2>3. CASE End(q, "failed")
    <3>1. "failed" \in Phases
      BY DEF Phases, Finished
    <3> QED
      BY <2>2, <2>3, <3>1, EndType DEF TypeOK
  <2>4. CASE ~End(q, "failed")
    BY <1>10, <2>2, <2>4 DEF Fail, TypeOK, RequestType, Phases
  <2> QED
    BY <2>3, <2>4
<1>11. CASE Overflow(q)
  <2> DEFINE r == [req[q] EXCEPT !.phase = "looking", !.error = TRUE,
                                 !.route = NoPin,
                                 !.small = @ \union {req[q].route}]
  <2>1. req[q] \in RequestType /\ req[q].phase = "dispatched"
    BY <1>11 DEF Overflow, TypeOK
  <2>2. r \in RequestType
    BY <2>1 DEF RequestType, Phases
  <2>3. req' = [req EXCEPT ![q] = r] /\ record' = record
    BY <1>11 DEF Overflow
  <2> QED
    BY <2>2, <2>3 DEF TypeOK
<1>12. CASE Abandon(q)
  <2>1. "failed" \in Phases /\ req[q].attempted \ {req[q].route} \in SUBSET Providers
    BY DEF Phases, Finished, TypeOK, RequestType
  <2>2. record' = record
    BY <1>12 DEF Abandon
  <2> QED
    BY <1>12, <2>1, <2>2, EndType, CompactType DEF Abandon, TypeOK
<1> QED
  BY <1>4, <1>5, <1>6, <1>7, <1>8, <1>9, <1>10, <1>11, <1>12 DEF Step

LEMMA InitType == Init => TypeOK
BY RecordAssumption
   DEF Init, TypeOK, RecordType, EmptyRecord, RequestType, Idle, Phases, Events

LEMMA NextType == TypeOK /\ [Next]_vars => TypeOK'
<1> SUFFICES ASSUME TypeOK, [Next]_vars PROVE TypeOK'
  OBVIOUS
<1>1. CASE UNCHANGED vars
  BY <1>1 DEF vars, TypeOK
<1>2. CASE \E q \in Requests : Arrive(q) \/ Step(q)
  BY <1>2, RequestStepType
<1> QED
  BY <1>1, <1>2 DEF Next, Done

(* The record and every request keep their types (task-routing.js,          *)
(* guardedDispatch), and a dispatched request always has a route.           *)
THEOREM TypeCorrect == Spec => []TypeOK
BY InitType, NextType, PTL DEF Spec

-----------------------------------------------------------------------------
(* The slots.  Every ledger is finite and within the ceiling.              *)

Within(S) == IsFiniteSet(S) /\ Cardinality(S) <= MaxSlots

LedgersWithin(rec) ==
  /\ Within(rec.models)
  /\ \A h \in HiddenRoles : Within(rec.helperModels[h])

LEMMA WithinSubset ==
  ASSUME NEW S, Within(S), NEW T \in SUBSET S
  PROVE  Within(T)
<1>1. IsFiniteSet(T) /\ Cardinality(T) <= Cardinality(S)
  BY FS_Subset DEF Within
<1>2. Cardinality(T) \in Nat /\ Cardinality(S) \in Nat
  BY <1>1, FS_CardinalityType DEF Within
<1> QED
  BY <1>1, <1>2, RecordAssumption DEF Within

LEMMA WithinAdd ==
  ASSUME NEW S, Within(S), NEW m, m \in S \/ Cardinality(S) < MaxSlots
  PROVE  Within(S \union {m})
<1>1. /\ IsFiniteSet(S \union {m})
      /\ Cardinality(S \union {m}) =
           IF m \in S THEN Cardinality(S) ELSE Cardinality(S) + 1
  BY FS_AddElement DEF Within
<1>2. Cardinality(S) \in Nat
  BY FS_CardinalityType DEF Within
<1> QED
  BY <1>1, <1>2, RecordAssumption DEF Within

LEMMA RecoveredWithin ==
  ASSUME NEW rec \in RecordType, NEW role \in Roles, LedgersWithin(rec)
  PROVE  LedgersWithin(Recovered(rec, role))
<1>1. /\ Recovered(rec, role).models \subseteq rec.models
      /\ Recovered(rec, role).helperModels = rec.helperModels
  BY DEF Recovered, Settled, RecordType
<1> QED
  BY <1>1, WithinSubset DEF LedgersWithin

LEMMA DisplacedWithin ==
  ASSUME NEW rec \in RecordType, NEW role \in Roles, NEW event,
         LedgersWithin(rec)
  PROVE  LedgersWithin(Displaced(rec, role, event))
<1> DEFINE freed == Displaced(rec, role, event)
<1>1. freed.models \subseteq rec.models
  BY DEF Displaced, RecordType
<1>2. \A h \in HiddenRoles : freed.helperModels[h] \subseteq rec.helperModels[h]
  BY DEF Displaced, RecordType
<1> QED
  BY <1>1, <1>2, WithinSubset DEF LedgersWithin

LEMMA AllocatedWithin ==
  ASSUME NEW rec \in RecordType, NEW role \in Roles, NEW p \in Providers,
         LedgersWithin(rec), HasSlot(rec, role, p)
  PROVE  LedgersWithin(Allocated(rec, role, p))
<1> DEFINE m == modelOf[p]
           slotted == Slotted(rec, role, m)
<1>1. Allocated(rec, role, p).models = slotted.models
  BY SlottedType, RecordAssumption DEF Allocated, RecordType
<1>2. Allocated(rec, role, p).helperModels = slotted.helperModels
  BY SlottedType, RecordAssumption DEF Allocated, RecordType
<1>3. CASE role \in HiddenRoles
  <2>1. Within(rec.helperModels[role] \union {m})
    BY <1>3, WithinAdd DEF LedgersWithin, HasSlot, Tracked
  <2> QED
    BY <1>1, <1>2, <1>3, <2>1 DEF Slotted, LedgersWithin, RecordType
<1>4. CASE role \notin HiddenRoles
  <2>1. Within(rec.models \union {m})
    BY <1>4, WithinAdd DEF LedgersWithin, HasSlot, Tracked
  <2> QED
    BY <1>1, <1>2, <1>4, <2>1 DEF Slotted, LedgersWithin, RecordType
<1> QED
  BY <1>3, <1>4

LEMMA FailureRecordedWithin ==
  ASSUME NEW rec \in RecordType, NEW p \in Providers, LedgersWithin(rec)
  PROVE  LedgersWithin(FailureRecorded(rec, p))
<1>1. /\ FailureRecorded(rec, p).models \subseteq rec.models
      /\ FailureRecorded(rec, p).helperModels = rec.helperModels
  BY DEF FailureRecorded, RecordType
<1> QED
  BY <1>1, WithinSubset DEF LedgersWithin

(* What a step of a request does to the record, whoever takes it.           *)
LEMMA RecordSteps ==
  ASSUME TypeOK, NEW q \in Requests, Arrive(q) \/ Step(q)
  PROVE  \/ record' = record
         \/ \E p \in Providers :
              LET base  == Recovered(record, Role(q))
                  freed == Displaced(base, Role(q), req[q].event)
              IN  \/ HasSlot(base, Role(q), p) /\ record' = Allocated(base, Role(q), p)
                  \/ HasSlot(freed, Role(q), p) /\ record' = Allocated(freed, Role(q), p)
                  \/ record' = FailureRecorded(record, p)
<1> DEFINE base   == Recovered(record, Role(q))
           viable == Viable(base, req[q].candidates)
           freed  == Displaced(base, Role(q), req[q].event)
<1>1. viable \subseteq Providers
  BY ViableType
<1>2. CASE AcquireKept(q)
  <2>1. PICK p \in Kept(base, Role(q), viable, req[q].event) :
          IF HasSlot(base, Role(q), p) THEN Grant(q, base, p) ELSE Refuse(q)
    BY <1>2 DEF AcquireKept
  <2>2. p \in Providers
    BY <1>1 DEF Kept
  <2> QED
    BY <2>1, <2>2 DEF Grant, Refuse
<1>3. CASE AcquireMoved(q)
  <2>1. PICK p \in Acquirable(freed, Role(q), viable) :
          IF HasSlot(freed, Role(q), p) THEN Grant(q, freed, p) ELSE Refuse(q)
    BY <1>3 DEF AcquireMoved
  <2>2. p \in Providers
    BY <1>1 DEF Acquirable
  <2> QED
    BY <2>1, <2>2 DEF Grant, Refuse
<1>4. CASE Fail(q)
  <2>1. req[q].route \in Providers /\ record' = FailureRecorded(record, req[q].route)
    BY <1>4 DEF Fail, TypeOK, RequestType
  <2> QED
    BY <2>1
<1>5. CASE Arrive(q) \/ Look(q) \/ AcquireRefused(q) \/ Succeed(q) \/ Overflow(q) \/ Abandon(q)
  BY <1>5 DEF Arrive, Look, Ranked, Refuse, AcquireRefused, Succeed, Overflow, Abandon
<1> QED
  BY <1>2, <1>3, <1>4, <1>5 DEF Step

LEMMA NextWithin ==
  TypeOK /\ LedgersWithin(record) /\ [Next]_vars => LedgersWithin(record)'
<1> SUFFICES ASSUME TypeOK, LedgersWithin(record), [Next]_vars
             PROVE  LedgersWithin(record')
  BY DEF LedgersWithin
<1>1. CASE record' = record
  BY <1>1
<1>2. ASSUME NEW q \in Requests, Arrive(q) \/ Step(q)
      PROVE  LedgersWithin(record')
  <2> DEFINE base  == Recovered(record, Role(q))
             freed == Displaced(base, Role(q), req[q].event)
  <2>1. Role(q) \in Roles
    BY RequestAssumption DEF Role
  <2>2. base \in RecordType /\ LedgersWithin(base)
    BY <2>1, RecoveredType, RecoveredWithin DEF TypeOK
  <2>3. freed \in RecordType /\ LedgersWithin(freed)
    BY <2>1, <2>2, DisplacedType, DisplacedWithin
  <2>4. \/ record' = record
        \/ \E p \in Providers :
             \/ HasSlot(base, Role(q), p) /\ record' = Allocated(base, Role(q), p)
             \/ HasSlot(freed, Role(q), p) /\ record' = Allocated(freed, Role(q), p)
             \/ record' = FailureRecorded(record, p)
    BY <1>2, RecordSteps
  <2>5. ASSUME NEW p \in Providers, HasSlot(base, Role(q), p)
        PROVE  LedgersWithin(Allocated(base, Role(q), p))
    BY <2>1, <2>2, <2>5, AllocatedWithin
  <2>6. ASSUME NEW p \in Providers, HasSlot(freed, Role(q), p)
        PROVE  LedgersWithin(Allocated(freed, Role(q), p))
    BY <2>1, <2>3, <2>6, AllocatedWithin
  <2>7. ASSUME NEW p \in Providers
        PROVE  LedgersWithin(FailureRecorded(record, p))
    BY FailureRecordedWithin DEF TypeOK
  <2> QED
    BY <2>4, <2>5, <2>6, <2>7
<1> QED
  BY <1>1, <1>2 DEF Next, Done, vars

(* No role ever draws on more than MaxSlots models, for any number of       *)
(* concurrent requests, routes and roles (task-routing.js:193).             *)
THEOREM SlotsAlwaysBounded == Spec => []SlotsBounded
<1>1. Init => LedgersWithin(record)
  BY FS_EmptySet, RecordAssumption DEF Init, EmptyRecord, LedgersWithin, Within
<1>2. LedgersWithin(record) => SlotsBounded
  BY DEF LedgersWithin, Within, SlotsBounded
<1> QED
  BY <1>1, <1>2, NextWithin, TypeCorrect, PTL DEF Spec

-----------------------------------------------------------------------------
(* modelHistory: it only grows and covers every other ledger.              *)

Remembered(rec) ==
  /\ rec.models \union rec.primary \union rec.retired \subseteq rec.history
  /\ \A h \in HiddenRoles : rec.helperModels[h] \subseteq rec.history
  /\ \A r \in Roles : rec.pins[r] # NoPin => modelOf[rec.pins[r]] \in rec.history

LEMMA RecoveredRemembered ==
  ASSUME NEW rec \in RecordType, NEW role \in Roles, Remembered(rec)
  PROVE  /\ Remembered(Recovered(rec, role))
         /\ rec.history \subseteq Recovered(rec, role).history
<1> DEFINE base == Recovered(rec, role)
<1>1. /\ base.models \subseteq rec.models
      /\ base.primary = rec.primary
      /\ base.retired \subseteq rec.retired
      /\ base.helperModels = rec.helperModels
      /\ base.pins = rec.pins
      /\ rec.history \subseteq base.history
  BY DEF Recovered, Settled, RecordType
<1> HIDE DEF base
<1> QED
  BY <1>1 DEF Remembered, base

LEMMA DisplacedRemembered ==
  ASSUME NEW rec \in RecordType, NEW role \in Roles, NEW event, Remembered(rec)
  PROVE  /\ Remembered(Displaced(rec, role, event))
         /\ rec.history = Displaced(rec, role, event).history
<1> DEFINE freed == Displaced(rec, role, event)
<1>1. /\ freed.models \subseteq rec.models
      /\ freed.primary = rec.primary
      /\ \A h \in HiddenRoles : freed.helperModels[h] \subseteq rec.helperModels[h]
      /\ freed.pins = rec.pins
      /\ freed.history = rec.history
  BY DEF Displaced, RecordType
<1>2. \/ freed.retired = rec.retired
      \/ /\ rec.pins[role] # NoPin
         /\ freed.retired = rec.retired \union {modelOf[rec.pins[role]]}
  BY DEF Displaced, RecordType
<1> HIDE DEF freed
<1> QED
  BY <1>1, <1>2 DEF Remembered, freed

LEMMA AllocatedRemembered ==
  ASSUME NEW rec \in RecordType, NEW role \in Roles, NEW p \in Providers,
         Remembered(rec)
  PROVE  /\ Remembered(Allocated(rec, role, p))
         /\ rec.history \subseteq Allocated(rec, role, p).history
<1> DEFINE m == modelOf[p]
           slotted == Slotted(rec, role, m)
           after   == Allocated(rec, role, p)
<1>1. slotted \in RecordType
  BY SlottedType, RecordAssumption
<1>2. /\ after.models = slotted.models
      /\ after.helperModels = slotted.helperModels
      /\ after.primary \subseteq slotted.primary \union {m}
      /\ after.retired = slotted.retired
      /\ after.history = slotted.history \union {m}
      /\ after.pins = [slotted.pins EXCEPT ![role] = p]
  BY <1>1 DEF Allocated, RecordType
<1>3. /\ slotted.models \subseteq rec.models \union {m}
      /\ \A h \in HiddenRoles :
           slotted.helperModels[h] \subseteq rec.helperModels[h] \union {m}
      /\ slotted.primary = rec.primary
      /\ slotted.retired = rec.retired
      /\ slotted.history = rec.history
      /\ slotted.pins = rec.pins
  BY DEF Slotted, RecordType
<1>4. \A r \in Roles : after.pins[r] \in {rec.pins[r], p}
                      /\ (after.pins[r] # rec.pins[r] => after.pins[r] = p)
  BY <1>2, <1>3 DEF RecordType
<1> HIDE DEF slotted, after
<1> QED
  BY <1>2, <1>3, <1>4 DEF Remembered, after

LEMMA FailureRecordedRemembered ==
  ASSUME NEW rec \in RecordType, NEW p \in Providers, Remembered(rec)
  PROVE  /\ Remembered(FailureRecorded(rec, p))
         /\ rec.history = FailureRecorded(rec, p).history
<1> DEFINE after == FailureRecorded(rec, p)
<1>1. /\ after.models \subseteq rec.models
      /\ after.primary = rec.primary
      /\ after.retired = rec.retired
      /\ after.helperModels = rec.helperModels
      /\ after.pins = rec.pins
      /\ after.history = rec.history
  BY DEF FailureRecorded, RecordType
<1> HIDE DEF after
<1> QED
  BY <1>1 DEF Remembered, after

LEMMA NextRemembered ==
  ASSUME TypeOK, Remembered(record), [Next]_vars
  PROVE  Remembered(record') /\ record.history \subseteq record'.history
<1>1. CASE record' = record
  BY <1>1
<1>2. ASSUME NEW q \in Requests, Arrive(q) \/ Step(q)
      PROVE  Remembered(record') /\ record.history \subseteq record'.history
  <2> DEFINE base  == Recovered(record, Role(q))
             freed == Displaced(base, Role(q), req[q].event)
  <2>1. Role(q) \in Roles
    BY RequestAssumption DEF Role
  <2>2. base \in RecordType /\ Remembered(base) /\ record.history \subseteq base.history
    BY <2>1, RecoveredType, RecoveredRemembered DEF TypeOK
  <2>3. freed \in RecordType /\ Remembered(freed) /\ record.history \subseteq freed.history
    BY <2>1, <2>2, DisplacedType, DisplacedRemembered
  <2>4. \/ record' = record
        \/ \E p \in Providers :
             \/ record' = Allocated(base, Role(q), p)
             \/ record' = Allocated(freed, Role(q), p)
             \/ record' = FailureRecorded(record, p)
    BY <1>2, RecordSteps
  <2>5. ASSUME NEW p \in Providers
        PROVE  /\ Remembered(Allocated(base, Role(q), p))
               /\ base.history \subseteq Allocated(base, Role(q), p).history
               /\ Remembered(Allocated(freed, Role(q), p))
               /\ freed.history \subseteq Allocated(freed, Role(q), p).history
    BY <2>1, <2>2, <2>3, AllocatedRemembered
  <2>6. ASSUME NEW p \in Providers
        PROVE  /\ Remembered(FailureRecorded(record, p))
               /\ record.history = FailureRecorded(record, p).history
    BY FailureRecordedRemembered DEF TypeOK
  <2> HIDE DEF base, freed
  <2> QED
    BY <2>2, <2>3, <2>4, <2>5, <2>6
<1> QED
  BY <1>1, <1>2 DEF Next, Done, vars

LEMMA AlwaysRemembered == Spec => []Remembered(record)
<1>1. Init => Remembered(record)
  BY DEF Init, EmptyRecord, Remembered
<1>2. TypeOK /\ Remembered(record) /\ [Next]_vars => Remembered(record)'
  <2> SUFFICES ASSUME TypeOK, Remembered(record), [Next]_vars
               PROVE  Remembered(record')
    BY DEF Remembered
  <2> QED
    BY NextRemembered
<1> QED
  BY <1>1, <1>2, TypeCorrect, PTL DEF Spec

(* modelHistory covers every slot, pin, primary and retired model of the    *)
(* task (task-routing.js:85 and :204), for any number of requests.          *)
THEOREM HistoryAlwaysComplete == Spec => []HistoryComplete
<1>1. TypeOK /\ Remembered(record) => HistoryComplete
  BY DEF TypeOK, Remembered, HistoryComplete, ModelsOf, RecordType
<1> QED
  BY <1>1, TypeCorrect, AlwaysRemembered, PTL

(* No step of any request takes a model out of modelHistory.                *)
THEOREM HistoryNeverShrinks == Spec => HistoryGrows
<1>1. TypeOK /\ Remembered(record) /\ [Next]_vars
        => [record.history \subseteq record'.history]_record
  BY NextRemembered
<1> QED
  BY <1>1, TypeCorrect, AlwaysRemembered, PTL DEF Spec, HistoryGrows

-----------------------------------------------------------------------------
(* Action properties of a request's steps: what each operator on records   *)
(* leaves alone, and what a step of one request does to it and the others. *)

LEMMA RecoveredKeeps ==
  ASSUME NEW rec \in RecordType, NEW role \in Roles
  PROVE  LET base == Recovered(rec, role) IN
         /\ base.pins = rec.pins
         /\ base.primary = rec.primary
         /\ base.reservations = rec.reservations
         /\ base.failed \subseteq rec.failed
         /\ base.models \subseteq rec.models
BY DEF Recovered, Settled, RecordType

LEMMA DisplacedKeeps ==
  ASSUME NEW rec \in RecordType, NEW role \in Roles, NEW event
  PROVE  LET freed == Displaced(rec, role, event) IN
         /\ freed.pins = rec.pins
         /\ freed.primary = rec.primary
         /\ freed.reservations = rec.reservations
         /\ freed.failed = rec.failed
         /\ freed.models \subseteq rec.models
         /\ rec.models \ freed.models \subseteq freed.retired
BY DEF Displaced, RecordType

LEMMA AllocatedKeeps ==
  ASSUME NEW rec \in RecordType, NEW role \in Roles, NEW p \in Providers
  PROVE  LET after == Allocated(rec, role, p) IN
         /\ after.failed = rec.failed
         /\ after.retired = rec.retired
         /\ after.primary = IF role = Primary THEN rec.primary \union {modelOf[p]}
                            ELSE rec.primary
         /\ after.pins = [rec.pins EXCEPT ![role] = p]
         /\ after.reservations = Logged(rec.reservations, p)
         /\ rec.models \subseteq after.models
         /\ after.models \subseteq rec.models \union {modelOf[p]}
<1> DEFINE slotted == Slotted(rec, role, modelOf[p])
           after   == Allocated(rec, role, p)
<1>1. slotted \in RecordType
  BY SlottedType, RecordAssumption
<1>2. /\ slotted.failed = rec.failed
      /\ slotted.retired = rec.retired
      /\ slotted.primary = rec.primary
      /\ slotted.pins = rec.pins
      /\ slotted.reservations = rec.reservations
      /\ rec.models \subseteq slotted.models
      /\ slotted.models \subseteq rec.models \union {modelOf[p]}
  BY DEF Slotted, RecordType
<1>3. /\ after.failed = slotted.failed
      /\ after.retired = slotted.retired
      /\ after.primary = IF role = Primary THEN slotted.primary \union {modelOf[p]}
                         ELSE slotted.primary
      /\ after.pins = [slotted.pins EXCEPT ![role] = p]
      /\ after.reservations = Logged(slotted.reservations, p)
      /\ after.models = slotted.models
  BY <1>1 DEF Allocated, RecordType
<1> HIDE DEF slotted, after
<1>4. /\ after.failed = rec.failed
      /\ after.retired = rec.retired
      /\ after.primary = IF role = Primary THEN rec.primary \union {modelOf[p]}
                         ELSE rec.primary
      /\ after.pins = [rec.pins EXCEPT ![role] = p]
      /\ after.reservations = Logged(rec.reservations, p)
      /\ rec.models \subseteq after.models
      /\ after.models \subseteq rec.models \union {modelOf[p]}
  BY <1>2, <1>3
<1> QED
  BY <1>4 DEF after

LEMMA GrantKeeps ==
  ASSUME NEW q \in Requests, NEW rec \in RecordType, NEW p \in Providers,
         Grant(q, rec, p)
  PROVE  /\ record'.failed = rec.failed
         /\ record'.retired = rec.retired
         /\ record'.primary = IF Role(q) = Primary THEN rec.primary \union {modelOf[p]}
                              ELSE rec.primary
         /\ record'.pins = [rec.pins EXCEPT ![Role(q)] = p]
         /\ record'.reservations = Logged(rec.reservations, p)
         /\ rec.models \subseteq record'.models
         /\ record'.models \subseteq rec.models \union {modelOf[p]}
<1>1. Role(q) \in Roles
  BY RequestAssumption DEF Role
<1>2. record' = Allocated(rec, Role(q), p)
  BY DEF Grant
<1> DEFINE granted == Allocated(rec, Role(q), p)
<1>3. /\ granted.failed = rec.failed
      /\ granted.retired = rec.retired
      /\ granted.primary = IF Role(q) = Primary THEN rec.primary \union {modelOf[p]}
                            ELSE rec.primary
      /\ granted.pins = [rec.pins EXCEPT ![Role(q)] = p]
      /\ granted.reservations = Logged(rec.reservations, p)
      /\ rec.models \subseteq granted.models
      /\ granted.models \subseteq rec.models \union {modelOf[p]}
  BY <1>1, AllocatedKeeps, Zenon
<1> QED
  BY <1>2, <1>3, Zenon

(* a step of one request leaves the others where they are *)
LEMMA Alone ==
  ASSUME TypeOK, NEW q \in Requests, NEW r \in Requests, q # r,
         Arrive(r) \/ Step(r)
  PROVE  req'[q] = req[q]
<1> DEFINE Apart == req'[q] = req[q]
<1>1. ASSUME NEW phase, End(r, phase) PROVE Apart
  BY <1>1 DEF End, TypeOK
<1>14. ASSUME NEW attempted, Compact(r, attempted) PROVE Apart
  BY <1>14 DEF Compact, TypeOK
<1>2. CASE Refuse(r)
  BY <1>1, <1>2, <1>14 DEF Refuse
<1>3. ASSUME NEW rec, NEW p, Grant(r, rec, p) PROVE Apart
  BY <1>1, <1>3 DEF Grant, TypeOK
<1>4. ASSUME NEW small, NEW event, NEW candidates, Ranked(r, small, event, candidates)
      PROVE  Apart
  BY <1>4 DEF Ranked, TypeOK
<1>5. CASE Arrive(r)
  BY <1>5 DEF Arrive, TypeOK
<1>6. CASE Look(r)
  BY <1>2, <1>4, <1>6 DEF Look
<1>7. CASE AcquireKept(r)
  BY <1>2, <1>3, <1>7 DEF AcquireKept
<1>8. CASE AcquireMoved(r)
  BY <1>2, <1>3, <1>8 DEF AcquireMoved
<1>9. CASE AcquireRefused(r)
  BY <1>2, <1>9 DEF AcquireRefused
<1>10. CASE Succeed(r)
  BY <1>1, <1>10 DEF Succeed
<1>11. CASE Fail(r)
  BY <1>1, <1>11 DEF Fail, TypeOK
<1>12. CASE Overflow(r)
  BY <1>12 DEF Overflow, TypeOK
<1>13. CASE Abandon(r)
  BY <1>1, <1>13, <1>14 DEF Abandon
<1> QED
  BY <1>5, <1>6, <1>7, <1>8, <1>9, <1>10, <1>11, <1>12, <1>13 DEF Step

(* what a request that has ranked its candidates can do *)
LEMMA AcquireSteps ==
  ASSUME TypeOK, NEW q \in Requests, Arrive(q) \/ Step(q),
         req[q].phase = "ranked"
  PROVE  LET base   == Recovered(record, Role(q))
             viable == Viable(base, req[q].candidates)
             freed  == Displaced(base, Role(q), req[q].event)
         IN  \/ Refuse(q)
             \/ \E p \in Kept(base, Role(q), viable, req[q].event) : Grant(q, base, p)
             \/ /\ Pin(q) = NoPin \/ req[q].event \in MovingEvents
                /\ \E p \in Acquirable(freed, Role(q), viable) : Grant(q, freed, p)
<1>1. AcquireKept(q) \/ AcquireMoved(q) \/ AcquireRefused(q)
  BY DEF Arrive, Step, Look, Succeed, Fail, Overflow, Abandon
<1> QED
  BY <1>1 DEF AcquireKept, AcquireMoved, AcquireRefused

(* what any other step does to the record *)
LEMMA OtherSteps ==
  ASSUME TypeOK, NEW q \in Requests, Arrive(q) \/ Step(q),
         req[q].phase # "ranked"
  PROVE  \/ record' = record
         \/ req[q].route \in Providers /\ record' = FailureRecorded(record, req[q].route)
<1>1. CASE Fail(q)
  BY <1>1 DEF Fail, TypeOK, RequestType
<1>2. CASE Arrive(q) \/ Look(q) \/ Succeed(q) \/ Overflow(q) \/ Abandon(q)
  BY <1>2 DEF Arrive, Look, Ranked, Refuse, Succeed, Overflow, Abandon
<1> QED
  BY <1>1, <1>2 DEF Step, AcquireKept, AcquireMoved, AcquireRefused

LEMMA KeptViable ==
  ASSUME NEW rec \in RecordType, NEW role \in Roles, NEW viable, NEW event
  PROVE  /\ Kept(rec, role, viable, event) \subseteq viable
         /\ \A p \in Kept(rec, role, viable, event) :
              rec.pins[role] # NoPin /\ modelOf[p] = modelOf[rec.pins[role]]
BY DEF Kept

LEMMA ChoicesViable ==
  ASSUME NEW rec \in RecordType, NEW role \in Roles, NEW viable
  PROVE  Acquirable(rec, role, viable) \subseteq viable
BY DEF Acquirable

(* the record a route was granted on, and the route *)
LEMMA GrantSteps ==
  ASSUME TypeOK, NEW q \in Requests, Arrive(q) \/ Step(q),
         req[q].phase = "ranked"
  PROVE  LET base   == Recovered(record, Role(q))
             viable == Viable(base, req[q].candidates)
             freed  == Displaced(base, Role(q), req[q].event)
         IN  \/ Refuse(q)
             \/ \E p \in Providers \ base.failed, rec \in {base, freed} :
                  /\ Grant(q, rec, p)
                  /\ \/ /\ Pin(q) # NoPin
                        /\ modelOf[p] = modelOf[Pin(q)]
                     \/ /\ rec = freed /\ p \in Acquirable(freed, Role(q), viable)
                        /\ Pin(q) = NoPin \/ req[q].event \in MovingEvents
<1> DEFINE base   == Recovered(record, Role(q))
           viable == Viable(base, req[q].candidates)
           freed  == Displaced(base, Role(q), req[q].event)
<1>1. Role(q) \in Roles
  BY RequestAssumption DEF Role
<1>2. base \in RecordType /\ freed \in RecordType /\ base.pins = record.pins
  BY <1>1, RecoveredType, DisplacedType, RecoveredKeeps DEF TypeOK
<1>3. viable \subseteq Providers \ base.failed
  BY ViableType DEF Viable
<1>4. Kept(base, Role(q), viable, req[q].event) \subseteq viable
      /\ \A p \in Kept(base, Role(q), viable, req[q].event) :
           base.pins[Role(q)] # NoPin /\ modelOf[p] = modelOf[base.pins[Role(q)]]
  BY <1>1, <1>2, KeptViable
<1>5. Acquirable(freed, Role(q), viable) \subseteq viable
  BY <1>1, <1>2, ChoicesViable
<1>6. \/ Refuse(q)
      \/ \E p \in Kept(base, Role(q), viable, req[q].event) : Grant(q, base, p)
      \/ /\ Pin(q) = NoPin \/ req[q].event \in MovingEvents
         /\ \E p \in Acquirable(freed, Role(q), viable) : Grant(q, freed, p)
  BY AcquireSteps
<1> HIDE DEF base, viable, freed
<1>7. \/ Refuse(q)
      \/ \E p \in Providers \ base.failed, rec \in {base, freed} :
           /\ Grant(q, rec, p)
           /\ \/ /\ Pin(q) # NoPin
                 /\ modelOf[p] = modelOf[Pin(q)]
              \/ /\ rec = freed /\ p \in Acquirable(freed, Role(q), viable)
                 /\ Pin(q) = NoPin \/ req[q].event \in MovingEvents
  BY <1>2, <1>3, <1>4, <1>5, <1>6 DEF Pin
<1> QED
  BY <1>7 DEF base, viable, freed

(* What acquire gives out has not failed, as the record stands when it      *)
(* commits (task-routing.js:122), whatever other requests have reported     *)
(* since the candidates were ranked.                                        *)
THEOREM FailedRoutesAreNotGiven == Spec => FailedRoutesStayOut
<1>1. ASSUME TypeOK, [Next]_vars, NEW q \in Requests,
             req[q].phase = "ranked", req'[q].phase = "dispatched"
      PROVE  req'[q].route \notin record'.failed
  <2>1. Arrive(q) \/ Step(q)
    BY <1>1, Alone DEF Next, Done, vars
  <2> DEFINE base  == Recovered(record, Role(q))
             freed == Displaced(base, Role(q), req[q].event)
  <2>2. Role(q) \in Roles
    BY RequestAssumption DEF Role
  <2>3. base \in RecordType /\ freed \in RecordType /\ freed.failed = base.failed
    BY <1>1, <2>2, RecoveredType, DisplacedType, DisplacedKeeps DEF TypeOK
  <2>4. ~Refuse(q)
    <3>1. ~Compact(q, req[q].attempted)
      BY <1>1 DEF Compact, Idle, TypeOK
    <3>2. ~End(q, "refused")
      BY <1>1 DEF End, Idle, TypeOK
    <3> QED
      BY <3>1, <3>2 DEF Refuse
  <2>5. PICK p \in Providers \ base.failed, rec \in {base, freed} : Grant(q, rec, p)
    BY <1>1, <2>1, <2>4, GrantSteps
  <2> HIDE DEF base, freed
  <2>6. rec \in RecordType /\ rec.failed = base.failed
    BY <2>3
  <2>7. record'.failed = rec.failed
    BY <2>5, <2>6, GrantKeeps
  <2>8. req'[q].route = p
    <3>1. ASSUME NEW phase \in {"failed", "broken"} PROVE ~End(q, phase)
      BY <1>1, <3>1 DEF End, Idle, TypeOK
    <3>2. p \notin req[q].attempted
      BY <2>5, <3>1 DEF Grant
    <3> QED
      BY <1>1, <2>5, <3>2 DEF Grant, TypeOK, RequestType
  <2> QED
    BY <2>6, <2>7, <2>8
<1>2. TypeOK /\ [Next]_vars
        => [\A q \in Requests :
              req[q].phase = "ranked" /\ req'[q].phase = "dispatched"
                => req'[q].route \notin record'.failed]_vars
  BY <1>1
<1> QED
  BY <1>2, TypeCorrect, PTL DEF Spec, FailedRoutesStayOut

-----------------------------------------------------------------------------
(* The primary role.  A request that serves it never ranks its candidates   *)
(* as a specialist's, so only a failure event lets it move; and its pin is  *)
(* one of the models the primary role has tried.                            *)

NoSpecialist ==
  \A q \in Requests : Role(q) = Primary => req[q].event # "specialist"

PinTried ==
  record.pins[Primary] # NoPin => modelOf[record.pins[Primary]] \in record.primary

LEMMA RankedNoSpecialist ==
  ASSUME TypeOK, NoSpecialist, NEW q \in Requests, NEW small, NEW event, NEW candidates,
         Ranked(q, small, event, candidates),
         Role(q) = Primary => event # "specialist"
  PROVE  NoSpecialist'
BY DEF Ranked, NoSpecialist, TypeOK, RequestType, Role

LEMMA EndNoSpecialist ==
  ASSUME TypeOK, NoSpecialist, NEW q \in Requests, NEW phase, End(q, phase)
  PROVE  NoSpecialist'
BY DEF End, Idle, NoSpecialist, TypeOK, RequestType, Role

LEMMA CompactNoSpecialist ==
  ASSUME TypeOK, NoSpecialist, NEW q \in Requests, NEW attempted, Compact(q, attempted)
  PROVE  NoSpecialist'
<1> DEFINE r == [Idle("looking") EXCEPT !.attempted = attempted, !.compacted = TRUE]
<1>1. r.event = "start"
  BY DEF Idle
<1>2. req' = [req EXCEPT ![q] = r]
  BY DEF Compact
<1> HIDE DEF r
<1> QED
  BY <1>1, <1>2 DEF NoSpecialist, Role, TypeOK

LEMMA RefuseNoSpecialist ==
  ASSUME TypeOK, NoSpecialist, NEW q \in Requests, Refuse(q)
  PROVE  NoSpecialist'
<1>1. CASE End(q, "refused")
  BY <1>1, EndNoSpecialist
<1>2. CASE Compact(q, req[q].attempted)
  BY <1>2, CompactNoSpecialist
<1> QED
  BY <1>1, <1>2 DEF Refuse

LEMMA GrantNoSpecialist ==
  ASSUME TypeOK, NoSpecialist, NEW q \in Requests, NEW rec, NEW p, Grant(q, rec, p)
  PROVE  NoSpecialist'
<1>1. CASE p \notin req[q].attempted
  BY <1>1 DEF Grant, NoSpecialist, TypeOK, RequestType, Role
<1>2. CASE p \in req[q].attempted
  BY <1>2, EndNoSpecialist DEF Grant
<1> QED
  BY <1>1, <1>2

LEMMA StepNoSpecialist ==
  ASSUME TypeOK, NoSpecialist, NEW q \in Requests, Arrive(q) \/ Step(q)
  PROVE  NoSpecialist'
<1>1. CASE Arrive(q)
  BY <1>1 DEF Arrive, NoSpecialist, TypeOK, RequestType, Role
<1>2. CASE Look(q)
  <2>1. \/ Refuse(q)
        \/ \E small, candidates, event :
             /\ Ranked(q, small, event, candidates)
             /\ \/ event = "continue" \/ event \in FailureEvents
                \/ event = IF Role(q) = Primary THEN "start" ELSE "specialist"
    BY <1>2 DEF Look
  <2>2. ASSUME NEW small, NEW candidates, NEW event,
               Ranked(q, small, event, candidates),
               \/ event = "continue" \/ event \in FailureEvents
               \/ event = IF Role(q) = Primary THEN "start" ELSE "specialist"
        PROVE  NoSpecialist'
    <3>1. Role(q) = Primary => event # "specialist"
      BY <2>2 DEF FailureEvents
    <3> QED
      BY <2>2, <3>1, RankedNoSpecialist
  <2> QED
    BY <2>1, <2>2, RefuseNoSpecialist
<1>3. CASE AcquireKept(q) \/ AcquireMoved(q) \/ AcquireRefused(q)
  <2>1. Refuse(q) \/ \E rec, p : Grant(q, rec, p)
    BY <1>3 DEF AcquireKept, AcquireMoved, AcquireRefused
  <2> QED
    BY <2>1, RefuseNoSpecialist, GrantNoSpecialist
<1>4. CASE Fail(q)
  <2>1. CASE End(q, "failed")
    BY <2>1, EndNoSpecialist
  <2>2. CASE ~End(q, "failed")
    BY <1>4, <2>2 DEF Fail, NoSpecialist, TypeOK, RequestType, Role
  <2> QED
    BY <2>1, <2>2
<1>5. CASE Overflow(q)
  BY <1>5 DEF Overflow, NoSpecialist, TypeOK, RequestType, Role
<1>6. CASE Succeed(q) \/ Abandon(q)
  BY <1>6, EndNoSpecialist, CompactNoSpecialist DEF Succeed, Abandon
<1> QED
  BY <1>1, <1>2, <1>3, <1>4, <1>5, <1>6 DEF Step

LEMMA AlwaysNoSpecialist == Spec => []NoSpecialist
<1>1. Init => NoSpecialist
  BY DEF Init, Idle, NoSpecialist
<1>2. TypeOK /\ NoSpecialist /\ [Next]_vars => NoSpecialist'
  <2>1. UNCHANGED vars /\ NoSpecialist => NoSpecialist'
    BY DEF vars, NoSpecialist, Role
  <2> QED
    BY <2>1, StepNoSpecialist DEF Next, Done
<1> QED
  BY <1>1, <1>2, TypeCorrect, PTL DEF Spec

(* what a step does to the pin and the models of the primary role *)
LEMMA PrimarySteps ==
  ASSUME TypeOK, NEW q \in Requests, Arrive(q) \/ Step(q)
  PROVE  \/ /\ record'.pins[Primary] = record.pins[Primary]
            /\ record'.primary = record.primary
         \/ \E p \in Providers :
              LET base  == Recovered(record, Primary)
                  freed == Displaced(base, Primary, req[q].event)
              IN  /\ Role(q) = Primary /\ req[q].phase = "ranked"
                  /\ record'.pins[Primary] = p
                  /\ record'.primary = record.primary \union {modelOf[p]}
                  /\ \/ /\ record.pins[Primary] # NoPin
                        /\ modelOf[p] = modelOf[record.pins[Primary]]
                     \/ /\ record'.retired = freed.retired
                        /\ p \in Acquirable(freed, Primary, Viable(base, req[q].candidates))
                        /\ \/ record.pins[Primary] = NoPin
                           \/ req[q].event \in MovingEvents
<1> DEFINE base   == Recovered(record, Role(q))
           viable == Viable(base, req[q].candidates)
           freed  == Displaced(base, Role(q), req[q].event)
<1>1. Role(q) \in Roles /\ Primary \in Roles
  BY RequestAssumption DEF Role, Roles
<1>2. /\ base \in RecordType /\ freed \in RecordType
      /\ base.pins = record.pins /\ base.primary = record.primary
  BY <1>1, RecoveredType, DisplacedType, RecoveredKeeps DEF TypeOK
<1>3. freed.pins = record.pins /\ freed.primary = record.primary
  BY <1>1, <1>2, DisplacedKeeps
<1>4. CASE req[q].phase # "ranked"
  <2>1. \/ record' = record
        \/ req[q].route \in Providers /\ record' = FailureRecorded(record, req[q].route)
    BY <1>4, OtherSteps
  <2> QED
    BY <2>1 DEF FailureRecorded, TypeOK, RecordType
<1>5. CASE req[q].phase = "ranked" /\ ~Refuse(q)
  <2>1. PICK p \in Providers \ base.failed, rec \in {base, freed} :
          /\ Grant(q, rec, p)
          /\ \/ /\ Pin(q) # NoPin
                /\ modelOf[p] = modelOf[Pin(q)]
             \/ /\ rec = freed /\ p \in Acquirable(freed, Role(q), viable)
                /\ Pin(q) = NoPin \/ req[q].event \in MovingEvents
    BY <1>5, GrantSteps
  <2>2. rec \in RecordType /\ rec.pins = record.pins /\ rec.primary = record.primary
    BY <1>2, <1>3
  <2>3. /\ record'.retired = rec.retired
        /\ record'.primary = IF Role(q) = Primary THEN rec.primary \union {modelOf[p]}
                             ELSE rec.primary
        /\ record'.pins = [rec.pins EXCEPT ![Role(q)] = p]
    <3>1. p \in Providers /\ Grant(q, rec, p)
      BY <2>1
    <3> QED
      BY <2>2, <3>1, GrantKeeps
  <2>4. CASE Role(q) # Primary
    <3>1. record'.pins[Primary] = record.pins[Primary]
      BY <1>1, <2>2, <2>3, <2>4 DEF TypeOK, RecordType
    <3> QED
      BY <2>2, <2>3, <2>4, <3>1
  <2>5. CASE Role(q) = Primary
    <3>1. record'.pins[Primary] = p
      BY <1>1, <2>2, <2>3, <2>5 DEF TypeOK, RecordType
    <3>2. record'.primary = record.primary \union {modelOf[p]}
      BY <2>2, <2>3, <2>5
    <3> QED
      BY <1>5, <2>1, <2>3, <2>5, <3>1, <3>2 DEF Pin
  <2> QED
    BY <2>4, <2>5
<1>6. CASE Refuse(q)
  BY <1>6 DEF Refuse
<1> QED
  BY <1>4, <1>5, <1>6

(* A request that acquires late, on candidates it ranked before the primary *)
(* role was pinned or while its pin was healthy, never moves the role to    *)
(* another model (task-routing.js:134-146).                                 *)
THEOREM PrimaryMovesAreFailovers == Spec => PrimaryMovesOnFailureOnly
<1>1. ASSUME TypeOK, NoSpecialist, [Next]_vars, NEW q \in Requests,
             req[q].phase = "ranked", req'[q].phase # "ranked",
             record.pins[Primary] # NoPin,
             modelOf[record'.pins[Primary]] # modelOf[record.pins[Primary]]
      PROVE  req[q].event \in FailureEvents
  <2>1. Arrive(q) \/ Step(q)
    BY <1>1, Alone DEF Next, Done, vars
  <2>2. Role(q) = Primary /\ req[q].event \in MovingEvents
    BY <1>1, <2>1, PrimarySteps
  <2> QED
    BY <1>1, <2>2 DEF NoSpecialist, MovingEvents
<1>2. TypeOK /\ NoSpecialist /\ [Next]_vars
        => [\A q \in Requests :
              (/\ req[q].phase = "ranked" /\ req'[q].phase # "ranked"
               /\ record.pins[Primary] # NoPin
               /\ modelOf[record'.pins[Primary]] # modelOf[record.pins[Primary]])
              => req[q].event \in FailureEvents]_vars
  BY <1>1
<1> QED
  BY <1>2, TypeCorrect, AlwaysNoSpecialist, PTL DEF Spec, PrimaryMovesOnFailureOnly

LEMMA AlwaysPinTried == Spec => []PinTried
<1>1. Init => PinTried
  BY DEF Init, EmptyRecord, PinTried, Roles
<1>2. TypeOK /\ PinTried /\ [Next]_vars => PinTried'
  <2> SUFFICES ASSUME TypeOK, PinTried, [Next]_vars PROVE PinTried'
    OBVIOUS
  <2>1. CASE record' = record
    BY <2>1 DEF PinTried
  <2>2. ASSUME NEW q \in Requests, Arrive(q) \/ Step(q) PROVE PinTried'
    BY <2>2, PrimarySteps DEF PinTried
  <2> QED
    BY <2>1, <2>2 DEF Next, Done, vars
<1> QED
  BY <1>1, <1>2, TypeCorrect, PTL DEF Spec

(* what the choice of a route for a capped primary role tells of its model *)
LEMMA CappedChoices ==
  ASSUME NEW rec \in RecordType, NEW viable, PrimaryCapReached(rec),
         NEW p \in Acquirable(rec, Primary, viable)
  PROVE  \/ modelOf[p] \in rec.models \union rec.primary
         \/ AllPrimaryFailed(rec)
BY RecordAssumption DEF Acquirable, Tracked

(* A primary model beyond the third is admitted only for another role's     *)
(* slot or once each of the three has failed or was retired                 *)
(* (task-routing.js:165-178).                                               *)
THEOREM FurtherPrimaryIsLastResort == Spec => FurtherPrimaryOnlyAfterAllFailed
<1> DEFINE Failed(m) == \/ m \in record.retired \union record'.retired
                        \/ \E f \in record.failed : <<f, m>> \in named
           Allowed   == \/ record'.primary \ record.primary \subseteq record.models
                        \/ \A m \in record.primary : Failed(m)
<1>1. ASSUME TypeOK, PinTried, [Next]_vars,
             PrimaryCapReached(record), record'.primary # record.primary
      PROVE  Allowed
  <2>1. PICK q \in Requests : Arrive(q) \/ Step(q)
    BY <1>1 DEF Next, Done, vars
  <2> DEFINE base  == Recovered(record, Primary)
             freed == Displaced(base, Primary, req[q].event)
  <2>2. PICK p \in Providers :
          /\ record'.primary = record.primary \union {modelOf[p]}
          /\ \/ /\ record.pins[Primary] # NoPin
                /\ modelOf[p] = modelOf[record.pins[Primary]]
             \/ /\ record'.retired = freed.retired
                /\ p \in Acquirable(freed, Primary, Viable(base, req[q].candidates))
    BY <1>1, <2>1, PrimarySteps
  <2>3. modelOf[p] \notin record.primary
    BY <1>1, <2>2
  <2>4. /\ record'.retired = freed.retired
        /\ p \in Acquirable(freed, Primary, Viable(base, req[q].candidates))
    BY <1>1, <2>2, <2>3 DEF PinTried
  <2>5. Primary \in Roles
    BY DEF Roles
  <2>6. base \in RecordType /\ freed \in RecordType
    BY <1>1, <2>5, RecoveredType, DisplacedType DEF TypeOK
  <2>7. /\ base.primary = record.primary /\ base.failed \subseteq record.failed
        /\ base.models \subseteq record.models
    BY <1>1, <2>5, RecoveredKeeps DEF TypeOK
  <2>8. /\ freed.primary = base.primary /\ freed.failed = base.failed
        /\ freed.models \subseteq base.models
    BY <2>5, <2>6, DisplacedKeeps
  <2> HIDE DEF base, freed
  <2>9. PrimaryCapReached(freed)
    BY <1>1, <2>7, <2>8 DEF PrimaryCapReached
  <2>10. modelOf[p] \in freed.models \union freed.primary \/ AllPrimaryFailed(freed)
    BY <2>4, <2>6, <2>9, CappedChoices
  <2>11. CASE modelOf[p] \in freed.models
    BY <2>2, <2>7, <2>8, <2>11
  <2>12. CASE AllPrimaryFailed(freed)
    BY <2>4, <2>7, <2>8, <2>12 DEF AllPrimaryFailed
  <2> QED
    BY <2>3, <2>7, <2>8, <2>10, <2>11, <2>12
<1>2. TypeOK /\ PinTried /\ [Next]_vars
        => [PrimaryCapReached(record) /\ record'.primary # record.primary
              => Allowed]_record
  BY <1>1
<1> QED
  BY <1>2, TypeCorrect, AlwaysPinTried, PTL DEF Spec, FurtherPrimaryOnlyAfterAllFailed

-----------------------------------------------------------------------------
(* How a model loses its slot                                              *)

(* the head of acquire takes it when no healthy route has it reserved *)
LEMMA RecoveredReleases ==
  ASSUME NEW role \in Roles, record \in RecordType,
         NEW m \in record.models \ Recovered(record, role).models
  PROVE  record.failed # {} /\ NoHealthyReservation(m)
<1>1. /\ record.failed # {}
      /\ m \notin ModelsOf(ReservedProviders(record) \ record.failed)
  BY DEF Recovered, Settled, RecordType
<1> QED
  BY <1>1 DEF ModelsOf, NoHealthyReservation

(* a failure event takes that of the pinned model *)
LEMMA DisplacedReleases ==
  ASSUME NEW rec \in RecordType, NEW role \in Roles, NEW event,
         NEW m \in rec.models \ Displaced(rec, role, event).models
  PROVE  /\ event \in FailureEvents
         /\ rec.pins[role] # NoPin /\ modelOf[rec.pins[role]] = m
         /\ m \in Displaced(rec, role, event).retired
BY DEF Displaced, RecordType

LEMMA SlotSteps ==
  ASSUME TypeOK, TypeOK', NEW q \in Requests, Arrive(q) \/ Step(q), record' # record,
         NEW m \in record.models \ record'.models
  PROVE  TakesSlot(q, m)
<1>1. CASE req[q].phase # "ranked"
  <2>1. Fail(q)
    BY <1>1 DEF Step, Arrive, Look, Ranked, Refuse, Succeed, Overflow, Abandon,
                AcquireKept, AcquireMoved, AcquireRefused
  <2>2. /\ req[q].phase = "dispatched" /\ req'[q].phase # "dispatched"
        /\ record' = FailureRecorded(record, req[q].route)
    <3>1. req[q].phase = "dispatched" /\ record' = FailureRecorded(record, req[q].route)
      BY <2>1 DEF Fail
    <3>2. CASE End(q, "failed")
      BY <3>1, <3>2 DEF End, Idle, TypeOK
    <3>3. CASE ~End(q, "failed")
      BY <2>1, <3>1, <3>3, SMT DEF Fail, TypeOK, RequestType
    <3> QED
      BY <3>1, <3>2, <3>3
  <2>3. modelOf[req[q].route] = m /\ req[q].route \in record'.failed
    BY <2>2 DEF FailureRecorded, TypeOK, RecordType, RequestType
  <2> QED
    BY <2>2, <2>3 DEF TakesSlot
<1>2. CASE req[q].phase = "ranked"
  <2> DEFINE base  == Recovered(record, Role(q))
             freed == Displaced(base, Role(q), req[q].event)
  <2>1. Role(q) \in Roles
    BY RequestAssumption DEF Role
  <2>2. base \in RecordType /\ freed \in RecordType
    BY <2>1, RecoveredType, DisplacedType DEF TypeOK
  <2>3. ~Refuse(q)
    BY DEF Refuse
  <2>4. PICK p \in Providers \ base.failed, rec \in {base, freed} : Grant(q, rec, p)
    BY <1>2, <2>3, GrantSteps
  <2>5. req'[q] # req[q]
    <3>1. DOMAIN req = Requests
      BY DEF TypeOK
    <3>2. CASE \E phase \in Finished : End(q, phase)
      BY <1>2, <3>1, <3>2 DEF End, Idle, Finished
    <3>3. CASE ~\E phase \in Finished : End(q, phase)
      <4>1. {"failed", "broken"} \subseteq Finished
        BY DEF Finished
      <4>2. req' = [req EXCEPT ![q].phase = "dispatched", ![q].route = p,
                               ![q].attempted = @ \union {p},
                               ![q].event = "start", ![q].candidates = {}]
        BY <2>4, <3>3, <4>1, Zenon DEF Grant
      <4>3. req'[q].phase = "dispatched"
        BY <4>2 DEF TypeOK, RequestType
      <4> QED
        BY <1>2, <4>3
    <3> QED
      BY <3>2, <3>3
  <2>6. base.pins = record.pins
    BY <2>1, RecoveredKeeps DEF TypeOK
  <2>7. record'.retired = rec.retired /\ rec.models \subseteq record'.models
    BY <2>2, <2>4, GrantKeeps
  <2>8. CASE m \notin base.models
    <3>1. record.failed # {} /\ NoHealthyReservation(m)
      BY <2>1, <2>8, RecoveredReleases DEF TypeOK
    <3> QED
      BY <1>2, <2>5, <3>1 DEF TakesSlot
  <2>9. CASE m \in base.models
    <3>1. rec = freed /\ m \notin freed.models
      BY <2>7, <2>9
    <3>2. /\ req[q].event \in FailureEvents
          /\ base.pins[Role(q)] # NoPin /\ modelOf[base.pins[Role(q)]] = m
          /\ m \in freed.retired
      BY <2>1, <2>2, <2>9, <3>1, DisplacedReleases
    <3>3. Pin(q) = base.pins[Role(q)]
      BY <2>6 DEF Pin
    <3> QED
      BY <1>2, <2>5, <2>7, <3>1, <3>2, <3>3 DEF TakesSlot
  <2> QED
    BY <2>8, <2>9
<1> QED
  BY <1>1, <1>2

(* A task gives the slot of a model up only in the three ways of TakesSlot  *)
(* (task-routing.js:97-105, :149-161, :250-256), however many routes a      *)
(* model has and however short the log is.                                  *)
THEOREM SlotsReleasedOnFailure == Spec => SlotReleasedOnFailureOnly
<1>1. TypeOK /\ TypeOK' /\ [Next]_vars
        => [\A m \in record.models \ record'.models :
              \E q \in Requests : TakesSlot(q, m)]_record
  <2> SUFFICES ASSUME TypeOK, TypeOK', [Next]_vars, record' # record,
                      NEW m \in record.models \ record'.models
               PROVE  \E q \in Requests : TakesSlot(q, m)
    OBVIOUS
  <2>1. PICK q \in Requests : Arrive(q) \/ Step(q)
    BY DEF Next, Done, vars
  <2> QED
    BY <2>1, SlotSteps
<1> QED
  BY <1>1, TypeCorrect, PTL DEF Spec, SlotReleasedOnFailureOnly
-----------------------------------------------------------------------------
(* Approvals: what was asked, what was approved, and what a client is told.  *)

Records == Seq([hash : Hashes, over : BOOLEAN])

Askings == [pc : {"idle", "first", "assessing", "blocked", "routed"},
             hash : Hashes, token : Nat,
             by : {"header", "field", "message", "yes"},
             approvals : SUBSET Nat, told : Nat, gate : Approval!Gates]

ApprovalType ==
  /\ approval \in Records
  /\ pending \subseteq 1 .. Len(approval)
  /\ byHash \in [Hashes -> 0 .. Len(approval)]
  /\ ask \in [Calls -> Askings]

(* what a request was approved by is a record of what it asks; one that was *)
(* routed though its gate holds has been approved                           *)
Approved(request, records) ==
  /\ \A k \in request.approvals :
       k \in 1 .. Len(records) /\ records[k].hash = request.hash
  /\ request.pc = "routed" /\ request.gate = "holds" => request.approvals # {}

(* the index finds records of the request it is asked for *)
IndexTrue ==
  \A h \in Hashes : byHash[h] # 0 => approval[byHash[h]].hash = h

ApprovalInv ==
  /\ ApprovalType
  /\ IndexTrue
  /\ \A c \in Calls : Approved(ask[c], approval)

Told(c) ==
  LET k == ask'[c].told IN
  k \in pending' /\ ~approval'[k].over /\ approval'[k].hash = ask'[c].hash

Prompted ==
  \A c \in Calls : ask[c].pc # "blocked" /\ ask'[c].pc = "blocked" => Told(c)

LEMMA IdleRequest ==
  /\ Approval!Idle \in Askings
  /\ \A records : Approved(Approval!Idle, records)
<1>1. (CHOOSE h \in Hashes : TRUE) \in Hashes
  BY ApprovalsAssumption
<1> QED
  BY <1>1 DEF Approval!Idle, Approval!NoRecord, Approval!Gates, Askings, Approved

LEMMA ApprovalInitInv == Approval!Init => ApprovalInv
<1> SUFFICES ASSUME Approval!Init PROVE ApprovalInv
  OBVIOUS
<1>1. ApprovalType
  BY IdleRequest, EmptySeq DEF Approval!Init, Approval!NoRecord, ApprovalType, Records
<1> QED
  BY <1>1, IdleRequest DEF Approval!Init, Approval!NoRecord, ApprovalInv, IndexTrue

(* clearing away what has expired leaves of the index what is true *)
LEMMA KeptFacts ==
  ASSUME ApprovalInv
  PROVE  /\ Approval!Kept \subseteq 1 .. Len(approval)
         /\ \A k \in Approval!Kept : ~approval[k].over
         /\ Approval!Indexed \in [Hashes -> 0 .. Len(approval)]
         /\ \A h \in Hashes : Approval!Indexed[h] # 0 => approval[Approval!Indexed[h]].hash = h
<1>1. /\ pending \subseteq 1 .. Len(approval) /\ byHash \in [Hashes -> 0 .. Len(approval)]
      /\ Len(approval) \in Nat
  BY LenProperties DEF ApprovalInv, ApprovalType, Records
<1>2. /\ Approval!Kept \subseteq 1 .. Len(approval)
      /\ \A k \in Approval!Kept : ~approval[k].over
  BY <1>1 DEF Approval!Kept
<1>3. Approval!Indexed \in [Hashes -> 0 .. Len(approval)]
  BY <1>1 DEF Approval!Indexed, Approval!NoRecord
<1>4. \A h \in Hashes : Approval!Indexed[h] # 0 => Approval!Indexed[h] = byHash[h]
  BY <1>1 DEF Approval!Indexed, Approval!NoRecord
<1> QED
  BY <1>2, <1>3, <1>4 DEF ApprovalInv, IndexTrue

LEMMA PassKeeps ==
  ASSUME ApprovalInv, NEW c \in Calls, NEW next \in Askings, Approval!Pass(c, next),
         Approved(next, approval), next.pc # "blocked"
  PROVE  ApprovalInv' /\ Prompted
<1>1. /\ pending' = Approval!Kept /\ byHash' = Approval!Indexed /\ approval' = approval
      /\ ask' = [ask EXCEPT ![c] = next] /\ ask \in [Calls -> Askings]
  BY DEF Approval!Pass, ApprovalInv, ApprovalType
<1>2. ApprovalType'
  BY <1>1, KeptFacts DEF ApprovalInv, ApprovalType
<1>3. IndexTrue'
  BY <1>1, KeptFacts DEF IndexTrue
<1>4. \A d \in Calls : Approved(ask'[d], approval') /\ (ask'[d] = ask[d] \/ ask'[d] = next)
  BY <1>1 DEF ApprovalInv
<1> QED
  BY <1>2, <1>3, <1>4 DEF ApprovalInv, Prompted

LEMMA BlockKeeps ==
  ASSUME ApprovalInv, NEW c \in Calls, Approval!Block(c)
  PROVE  ApprovalInv' /\ Prompted
<1> DEFINE h     == ask[c].hash
           k     == IF Approval!Existing(h) # 0 THEN Approval!Existing(h)
                    ELSE Len(approval) + 1
           fresh == [hash |-> h, over |-> FALSE]
<1>1. /\ approval' = IF k <= Len(approval) THEN approval ELSE Append(approval, fresh)
      /\ pending' = Approval!Kept \union {k}
      /\ byHash' = [Approval!Indexed EXCEPT ![h] = k]
      /\ ask' = [ask EXCEPT ![c].pc = "blocked", ![c].told = k]
  BY Zenon DEF Approval!Block, Approval!NoRecord
<1>2. /\ approval \in Records /\ Len(approval) \in Nat
      /\ ask \in [Calls -> Askings] /\ h \in Hashes
  BY LenProperties DEF ApprovalInv, ApprovalType, Records, Askings
<1>3. \/ k \in Approval!Kept /\ k = Approval!Indexed[h] /\ k \in 1 .. Len(approval)
      \/ k = Len(approval) + 1
  BY KeptFacts, <1>2 DEF Approval!Existing, Approval!NoRecord
<1>4. /\ approval' \in Records /\ k \in 1 .. Len(approval')
      /\ Len(approval) <= Len(approval') /\ Len(approval') \in Nat
      /\ \A i \in 1 .. Len(approval) : approval'[i] = approval[i]
      /\ approval'[k].hash = h /\ ~approval'[k].over
  <2>1. CASE k \in Approval!Kept /\ k = Approval!Indexed[h] /\ k \in 1 .. Len(approval)
    BY <1>1, <1>2, <2>1, KeptFacts
  <2>2. CASE k = Len(approval) + 1
    <3>1. fresh \in [hash : Hashes, over : BOOLEAN]
      BY <1>2
    <3>2. approval' = Append(approval, fresh)
      BY <1>1, <1>2, <2>2
    <3> HIDE DEF fresh, k
    <3>3. /\ approval' \in Records /\ Len(approval') = Len(approval) + 1
          /\ \A i \in 1 .. Len(approval) : approval'[i] = approval[i]
          /\ approval'[Len(approval) + 1] = fresh
      BY <1>2, <3>1, <3>2, AppendProperties DEF Records
    <3> QED
      BY <1>2, <2>2, <3>3 DEF fresh
  <2> QED
    BY <1>3, <2>1, <2>2
<1> HIDE DEF k
<1>5. ApprovalType'
  <2>1. pending' \subseteq 1 .. Len(approval')
    BY <1>1, <1>2, <1>4, KeptFacts
  <2>2. byHash' \in [Hashes -> 0 .. Len(approval')]
    BY <1>1, <1>2, <1>4, KeptFacts
  <2>3. ask' \in [Calls -> Askings]
    <3> k \in Nat
      BY <1>4
    <3>1. [ask[c] EXCEPT !.pc = "blocked", !.told = k] \in Askings
      BY <1>2 DEF Askings
    <3>2. ask' = [ask EXCEPT ![c] = [ask[c] EXCEPT !.pc = "blocked", !.told = k]]
      BY <1>1
    <3> QED
      BY <1>2, <3>1, <3>2
  <2> QED
    BY <1>4, <2>1, <2>2, <2>3 DEF ApprovalType
<1>6. IndexTrue'
  <2> SUFFICES ASSUME NEW g \in Hashes, byHash'[g] # 0
               PROVE  approval'[byHash'[g]].hash = g
    BY DEF IndexTrue
  <2>1. CASE g = h
    BY <1>1, <1>4, <2>1, KeptFacts
  <2>2. CASE g # h
    <3>1. byHash'[g] = Approval!Indexed[g] /\ Approval!Indexed[g] \in 1 .. Len(approval)
      BY <1>1, <2>2, KeptFacts
    <3> QED
      BY <1>4, <3>1, KeptFacts
  <2> QED
    BY <2>1, <2>2
<1>7. /\ ask'[c].pc = "blocked" /\ ask'[c].told = k
      /\ ask'[c].hash = h /\ ask'[c].approvals = ask[c].approvals
      /\ \A d \in Calls : d # c => ask'[d] = ask[d]
  BY <1>1, <1>2 DEF Askings
<1>8. \A d \in Calls : Approved(ask'[d], approval')
  <2> SUFFICES ASSUME NEW d \in Calls PROVE Approved(ask'[d], approval')
    OBVIOUS
  <2>1. Approved(ask[d], approval)
    BY DEF ApprovalInv
  <2>2. \A i \in 1 .. Len(approval) : i \in 1 .. Len(approval') /\ approval'[i] = approval[i]
    BY <1>2, <1>4
  <2>3. CASE d # c
    BY <1>7, <2>1, <2>2, <2>3 DEF Approved
  <2>4. CASE d = c
    BY <1>7, <2>1, <2>2, <2>4 DEF Approved
  <2> QED
    BY <2>3, <2>4
<1>9. Prompted
  <2>1. Told(c)
    BY <1>1, <1>4, <1>7 DEF Told
  <2> QED
    BY <1>7, <2>1 DEF Prompted
<1> QED
  BY <1>5, <1>6, <1>8, <1>9 DEF ApprovalInv

(* a decision of enforce lets the request go on, marks it approved, or blocks *)
LEMMA EnforceKeeps ==
  ASSUME ApprovalInv, NEW c \in Calls, NEW gate \in Approval!Gates,
         NEW approveOnly \in BOOLEAN, NEW on \in {"assessing", "routed"},
         on = "routed" => ~approveOnly,
         Approval!enforce(c, gate, approveOnly, on)
  PROVE  ApprovalInv' /\ Prompted
<1> DEFINE t     == Approval!TokenOf(c)
           known == t \in Approval!Kept
           asked == Approval!Stripped(ask[c], known)
           gated == IF known THEN gate # "none" ELSE gate = "holds"
           goes  == [asked EXCEPT !.pc = on, !.gate = gate]
           given == [asked EXCEPT !.pc = "routed", !.gate = "holds",
                                  !.approvals = @ \union {t}]
<1>1. \/ /\ Approval!Pass(c, goes)
         /\ ~gated \/ approveOnly \/ gate = "cleared"
      \/ Approval!Pass(c, given) /\ known /\ Approval!Matches(c, t)
      \/ Approval!Block(c)
  BY Zenon DEF Approval!enforce
<1>2. /\ ask[c] \in Askings /\ Approved(ask[c], approval)
      /\ Approval!Kept \subseteq 1 .. Len(approval)
  BY KeptFacts DEF ApprovalInv, ApprovalType
<1>3. /\ asked \in Askings /\ asked.hash = ask[c].hash
      /\ asked.approvals = ask[c].approvals
  BY <1>2 DEF Approval!Stripped, Approval!NoRecord, Askings
<1> HIDE DEF asked, t
<1>4. CASE Approval!Pass(c, goes) /\ (~gated \/ approveOnly \/ gate = "cleared")
  <2>1. /\ goes \in Askings /\ goes.pc = on /\ goes.gate = gate
        /\ goes.hash = ask[c].hash /\ goes.approvals = ask[c].approvals
    BY <1>3 DEF Askings
  <2>2. on = "routed" => gate # "holds"
    BY <1>4
  <2>3. Approved(goes, approval) /\ goes.pc # "blocked"
    BY <1>2, <2>1, <2>2 DEF Approved
  <2> HIDE DEF goes
  <2> QED
    BY <1>4, <2>1, <2>3, PassKeeps
<1>5. CASE Approval!Pass(c, given) /\ known /\ Approval!Matches(c, t)
  <2>1. t \in 1 .. Len(approval) /\ t \in Nat /\ approval[t].hash = ask[c].hash
    BY <1>2, <1>5 DEF Approval!Matches
  <2>2. /\ given \in Askings /\ given.pc = "routed"
        /\ given.hash = ask[c].hash /\ given.approvals = ask[c].approvals \union {t}
    BY <1>3, <2>1 DEF Askings, Approval!Gates
  <2>3. Approved(given, approval)
    BY <1>2, <2>1, <2>2 DEF Approved
  <2> HIDE DEF given
  <2> QED
    BY <1>5, <2>2, <2>3, PassKeeps
<1> QED
  BY <1>1, <1>4, <1>5, BlockKeeps

(* what neither asks nor answers leaves every promise as it was *)
LEMMA OthersKeep ==
  ASSUME ApprovalInv,
         \/ \E c \in Calls : Approval!Arrive(c) \/ Approval!Leave(c)
         \/ \E k \in 1 .. MaxRecords : Approval!Expire(k)
         \/ Approval!Restart
  PROVE  ApprovalInv' /\ Prompted
<1>1. ASSUME NEW c \in Calls, NEW next \in Askings,
             ask' = [ask EXCEPT ![c] = next], \A records : Approved(next, records),
             next.pc # "blocked", UNCHANGED <<approval, pending, byHash>>
      PROVE  ApprovalInv' /\ Prompted
  <2>1. ApprovalType' /\ IndexTrue'
    BY <1>1 DEF ApprovalInv, ApprovalType, IndexTrue
  <2>2. \A d \in Calls : ask'[d] = ask[d] \/ ask'[d] = next
    BY <1>1 DEF ApprovalInv, ApprovalType
  <2> QED
    BY <1>1, <2>1, <2>2 DEF ApprovalInv, Prompted
<1>2. ASSUME NEW c \in Calls, Approval!Arrive(c) PROVE ApprovalInv' /\ Prompted
  <2>1. PICK h \in Hashes, t \in 0 .. Len(approval), by \in {"header", "field", "message", "yes"} :
          ask' = [ask EXCEPT ![c] = [Approval!Idle EXCEPT !.pc = "first", !.hash = h,
                                     !.token = t, !.by = by]]
    BY <1>2 DEF Approval!Arrive
  <2> DEFINE next == [Approval!Idle EXCEPT !.pc = "first", !.hash = h, !.token = t, !.by = by]
  <2>2. next \in Askings /\ next.pc = "first" /\ next.approvals = {}
    <3>1. Approval!Idle \in Askings /\ Approval!Idle.approvals = {}
      BY IdleRequest DEF Approval!Idle
    <3>2. h \in Hashes /\ t \in Nat
      OBVIOUS
    <3> HIDE DEF Approval!Idle
    <3> QED
      BY <3>1, <3>2 DEF Askings
  <2>3. \A records : Approved(next, records)
    BY <2>2 DEF Approved
  <2>4. UNCHANGED <<approval, pending, byHash>>
    BY <1>2 DEF Approval!Arrive
  <2>5. ask' = [ask EXCEPT ![c] = next] /\ next.pc # "blocked"
    BY <2>1, <2>2
  <2> HIDE DEF next
  <2> QED
    BY <1>1, <2>2, <2>3, <2>4, <2>5
<1>3. ASSUME NEW c \in Calls, Approval!Leave(c) PROVE ApprovalInv' /\ Prompted
  <2>1. Approval!Idle.pc # "blocked"
    BY DEF Approval!Idle
  <2> QED
    BY <1>1, <1>3, <2>1, IdleRequest DEF Approval!Leave
<1>4. ASSUME NEW k \in 1 .. MaxRecords, Approval!Expire(k) PROVE ApprovalInv' /\ Prompted
  <2>1. /\ approval' = [approval EXCEPT ![k].over = TRUE] /\ k \in 1 .. Len(approval)
        /\ UNCHANGED <<pending, byHash, ask>> /\ approval \in Records
    BY <1>4 DEF Approval!Expire, ApprovalInv, ApprovalType
  <2>2. approval[k] \in [hash : Hashes, over : BOOLEAN]
    BY <2>1, ElementOfSeq DEF Records
  <2>3. [approval[k] EXCEPT !.over = TRUE] \in [hash : Hashes, over : BOOLEAN]
    BY <2>2
  <2>4. /\ approval' \in Records /\ Len(approval') = Len(approval)
        /\ \A i \in 1 .. Len(approval) : approval'[i].hash = approval[i].hash
    BY <2>1, <2>2, <2>3, ExceptSeq DEF Records
  <2>5. ApprovalType' /\ IndexTrue'
    BY <2>1, <2>4 DEF ApprovalInv, ApprovalType, IndexTrue
  <2> QED
    BY <2>1, <2>4, <2>5 DEF ApprovalInv, Approved, Prompted
<1>5. CASE Approval!Restart
  <2>1. /\ pending' = {} /\ byHash' = [h \in Hashes |-> 0] /\ approval' = approval
        /\ ask' = [c \in Calls |-> Approval!Idle]
    BY <1>5 DEF Approval!Restart, Approval!NoRecord
  <2>2. ApprovalType' /\ IndexTrue'
    BY <2>1, IdleRequest, LenProperties DEF ApprovalInv, ApprovalType, IndexTrue, Records
  <2>3. \A c \in Calls : ask'[c] = Approval!Idle
    BY <2>1
  <2>4. Approval!Idle.pc # "blocked"
    BY DEF Approval!Idle
  <2> QED
    BY <2>2, <2>3, <2>4, IdleRequest DEF ApprovalInv, Prompted
<1> QED
  BY <1>2, <1>3, <1>4, <1>5

LEMMA ApprovalSteps ==
  ASSUME ApprovalInv, [Approval!Next]_(Approval!approvalVars)
  PROVE  ApprovalInv' /\ [Prompted]_(Approval!approvalVars)
<1>1. CASE UNCHANGED Approval!approvalVars
  BY <1>1 DEF ApprovalInv, ApprovalType, IndexTrue, Approved, Approval!approvalVars
<1>2. ASSUME NEW c \in Calls, Approval!First(c) PROVE ApprovalInv' /\ Prompted
  BY <1>2, EnforceKeeps DEF Approval!First
<1>3. ASSUME NEW c \in Calls, Approval!Final(c) PROVE ApprovalInv' /\ Prompted
  BY <1>3, EnforceKeeps DEF Approval!Final
<1>4. CASE Approval!Next
  BY <1>2, <1>3, <1>4, OthersKeep DEF Approval!Next
<1> QED
  BY <1>1, <1>4

(* No token of another request, no expired one and no assessment that comes  *)
(* between the two gates gets a request routed that a human has to approve.  *)
THEOREM GatesHold == Approval!Spec => []RoutedOnceApproved
<1>1. ApprovalInv /\ [Approval!Next]_(Approval!approvalVars) => ApprovalInv'
  BY ApprovalSteps
<1>2. ApprovalInv => RoutedOnceApproved
  BY DEF ApprovalInv, Approved, RoutedOnceApproved, Approval!RoutedOnceApproved
<1> QED
  BY <1>1, <1>2, ApprovalInitInv, PTL DEF Approval!Spec

(* Whoever is told to approve is told a challenge that is pending, in time   *)
(* and of this very request, though it may be one that was made for another  *)
(* call that asked the same.                                                 *)
THEOREM PromptsCanBeAnswered == Approval!Spec => PromptIsUsable
<1>1. ApprovalInv /\ [Approval!Next]_(Approval!approvalVars)
        => ApprovalInv' /\ [Prompted]_(Approval!approvalVars)
  BY ApprovalSteps
<1>2. [Prompted]_(Approval!approvalVars) <=>
       [\A c \in Calls :
          (ask[c].pc # "blocked" /\ ask'[c].pc = "blocked") =>
            LET k == ask'[c].told IN
            /\ k \in pending' /\ ~approval'[k].over
            /\ approval'[k].hash = ask'[c].hash]_(Approval!approvalVars)
  BY DEF Prompted, Told
<1> QED
  BY <1>1, <1>2, ApprovalInitInv, PTL
  DEF Approval!Spec, PromptIsUsable, Approval!PromptIsUsable
-----------------------------------------------------------------------------
(***************************************************************************)
(* Conversations: their calls and results, and what becomes of them when   *)
(* messages go, come or change places.                                     *)
(***************************************************************************)

(* The recursion of Only, and what it keeps.                                 *)
Choosing(s, kept, f) ==
  [n \in 0 .. Len(s) |->
     IF n = 0 THEN <<>>
     ELSE IF n \in kept THEN Append(f[n - 1], s[n]) ELSE f[n - 1]]

Chosen(s, kept) == CHOOSE f : f = Choosing(s, kept, f)

LEMMA OnlyIsChosen ==
  ASSUME NEW s, NEW kept
  PROVE  Prep!Only(s, kept) = Chosen(s, kept)[Len(s)]
BY DEF Prep!Only, Chosen, Choosing

LEMMA ChosenIs ==
  ASSUME NEW S, NEW s \in Seq(S), NEW kept
  PROVE  LET f == Chosen(s, kept)
         IN /\ f \in [0 .. Len(s) -> Seq(S)] /\ f[0] = <<>>
            /\ \A n \in 1 .. Len(s) :
                 f[n] = IF n \in kept THEN Append(f[n - 1], s[n]) ELSE f[n - 1]
<1> DEFINE N == Len(s)
           V == Seq(S)
           step == [x \in (1..N) \X V |->
                      IF x[1] \in kept THEN Append(x[2], s[x[1]]) ELSE x[2]]
<1>1. N \in Nat /\ DOMAIN s = 1..N /\ \A n \in 1..N : s[n] \in S
  BY LenProperties, ElementOfSeq
<1>2. step \in [(1..N) \X V -> V]
  <2>1. ASSUME NEW x \in (1..N) \X V
        PROVE  (IF x[1] \in kept THEN Append(x[2], s[x[1]]) ELSE x[2]) \in V
    BY <1>1, AppendProperties
  <2> HIDE DEF V
  <2> QED
    BY <2>1
<1>3. <<>> \in V
  BY EmptySeq
<1>4. PICK f \in [0..N -> V] :
        f[0] = <<>> /\ \A n \in 1..N : f[n] = step[<<n, f[n - 1]>>]
  <2> HIDE DEF step, V, N
  <2>1. \E f \in [0..N -> V] : Recurs(f, N, <<>>, step)
    BY <1>1, <1>2, <1>3, RecExists
  <2> QED
    BY <2>1 DEF Recurs
<1>5. \A n \in 1..N : f[n] = IF n \in kept THEN Append(f[n - 1], s[n]) ELSE f[n - 1]
  <2>1. ASSUME NEW n \in 1..N
        PROVE  step[<<n, f[n - 1]>>] = IF n \in kept THEN Append(f[n - 1], s[n]) ELSE f[n - 1]
    <3>0. n - 1 \in 0..N
      BY <1>1
    <3> HIDE DEF V, N, step
    <3>1. f[n - 1] \in V /\ <<n, f[n - 1]>> \in (1..N) \X V
      BY <1>4, <3>0
    <3> USE DEF step
    <3> QED
      BY <3>1
  <2> QED
    BY <1>4, <2>1
<1>6. f = Choosing(s, kept, f)
  <2>1. \A n \in 0..N : f[n] = IF n = 0 THEN <<>>
                        ELSE IF n \in kept THEN Append(f[n - 1], s[n]) ELSE f[n - 1]
    <3> HIDE DEF N, V, step
    <3>1. \A n \in 0..N : n = 0 \/ n \in 1..N
      BY <1>1
    <3>2. \A n \in 1..N : n # 0
      BY <1>1
    <3> QED
      BY <1>4, <1>5, <3>1, <3>2
  <2>2. f = [n \in 0..N |-> f[n]]
    BY <1>4
  <2> HIDE DEF V
  <2> QED
    BY <2>1, <2>2 DEF Choosing
<1> DEFINE g == Chosen(s, kept)
<1>7. g = Choosing(s, kept, g)
  BY <1>6 DEF Chosen
<1>8. /\ g[0] = <<>>
      /\ \A n \in 1..N : g[n] = IF n \in kept THEN Append(g[n - 1], s[n]) ELSE g[n - 1]
  <2> HIDE DEF g
  <2>1. \A n \in 0..N : g[n] = IF n = 0 THEN <<>>
                        ELSE IF n \in kept THEN Append(g[n - 1], s[n]) ELSE g[n - 1]
    BY <1>7 DEF Choosing
  <2> QED
    BY <1>1, <2>1
<1>9. \A n \in Nat : n <= N => g[n] = f[n]
  <2> HIDE DEF g, V, step
  <2> DEFINE F == {n \in Nat : n <= N => g[n] = f[n]}
  <2>1. 0 \in F
    BY <1>4, <1>8
  <2>2. ASSUME NEW n \in Nat, n \in F PROVE n + 1 \in F
    <3>1. SUFFICES ASSUME n + 1 <= N PROVE g[n + 1] = f[n + 1]
      OBVIOUS
    <3>2. n + 1 \in 1..N /\ (n + 1) - 1 = n /\ g[n] = f[n]
      BY <1>1, <2>2, <3>1
    <3> QED
      BY <1>5, <1>8, <3>2
  <2>3. Nat \subseteq F
    <3> HIDE DEF F
    <3> QED
      BY <2>1, <2>2, NatInductionOnSets
  <2> QED
    BY <2>3
<1>10. g = f
  <2> HIDE DEF g, V, step
  <2>1. g = [n \in 0..N |-> g[n]]
    BY <1>7 DEF Choosing
  <2>2. f = [n \in 0..N |-> f[n]]
    BY <1>4
  <2>3. \A n \in 0..N : g[n] = f[n]
    BY <1>1, <1>9
  <2> QED
    BY <2>1, <2>2, <2>3
<1> QED
  BY <1>4, <1>5, <1>10

(* p tells where what t has was in s: it is what s has at the places of       *)
(* kept up to n, in order                                                    *)
Picked(t, s, kept, n, p) ==
  /\ \A x \in 1 .. Len(t) : p[x] \in kept /\ t[x] = s[p[x]]
  /\ \A x, y \in 1 .. Len(t) : x < y => p[x] < p[y]
  /\ \A i \in 1 .. n : i \in kept => \E x \in 1 .. Len(t) : p[x] = i

LEMMA OnlyPicked ==
  ASSUME NEW S, NEW s \in Seq(S), NEW kept
  PROVE  LET t == Prep!Only(s, kept)
         IN /\ t \in Seq(S)
            /\ \E p \in [1 .. Len(t) -> 1 .. Len(s)] : Picked(t, s, kept, Len(s), p)
<1> DEFINE f == Chosen(s, kept)
           N == Len(s)
           F == {n \in Nat : n <= N =>
                   \E p \in [1 .. Len(f[n]) -> 1 .. n] : Picked(f[n], s, kept, n, p)}
<1>1. N \in Nat
  BY LenProperties
<1>2. /\ \A n \in 0..N : f[n] \in Seq(S) /\ Len(f[n]) \in Nat
      /\ f[0] = <<>>
      /\ \A n \in 1..N : f[n] = IF n \in kept THEN Append(f[n - 1], s[n]) ELSE f[n - 1]
      /\ \A n \in 1..N : s[n] \in S
  <2>1. /\ f \in [0..N -> Seq(S)] /\ f[0] = <<>>
        /\ \A n \in 1..N : f[n] = IF n \in kept THEN Append(f[n - 1], s[n]) ELSE f[n - 1]
    BY ChosenIs
  <2> HIDE DEF f
  <2> QED
    BY <2>1, LenProperties, ElementOfSeq
<1> HIDE DEF f
<1>3. 0 \in F
  <2> DEFINE p == [x \in {} |-> 0]
  <2>1. 1 .. 0 = {} /\ Len(f[0]) = 0
    BY <1>2, EmptySeq
  <2>2. p \in [1 .. Len(f[0]) -> 1 .. 0]
    BY <2>1
  <2>3. Picked(f[0], s, kept, 0, p)
    BY <2>1 DEF Picked
  <2> HIDE DEF p
  <2> QED
    BY <2>2, <2>3
<1>4. ASSUME NEW n \in Nat, n \in F PROVE n + 1 \in F
  <2>1. SUFFICES ASSUME n + 1 <= N
                 PROVE  \E p \in [1 .. Len(f[n + 1]) -> 1 .. n + 1] :
                          Picked(f[n + 1], s, kept, n + 1, p)
    OBVIOUS
  <2> DEFINE t == f[n]
             L == Len(t)
  <2>2. n + 1 \in 1..N /\ n \in 0..N /\ (n + 1) - 1 = n /\ n <= N
    BY <1>1, <2>1
  <2>3. PICK p \in [1 .. L -> 1 .. n] : Picked(t, s, kept, n, p)
    BY <1>4, <2>2
  <2>4. t \in Seq(S) /\ L \in Nat /\ s[n + 1] \in S
        /\ f[n + 1] = IF n + 1 \in kept THEN Append(t, s[n + 1]) ELSE t
    BY <1>2, <2>2
  <2> HIDE DEF t
  <2>5. CASE n + 1 \notin kept
    <3>1. f[n + 1] = t
      BY <2>4, <2>5
    <3>2. p \in [1 .. L -> 1 .. n + 1]
      BY <2>2, <2>3
    <3>3. Picked(t, s, kept, n + 1, p)
      <4>1. \A i \in 1 .. n + 1 : i \in kept => i \in 1 .. n
        BY <2>5
      <4> QED
        BY <2>3, <4>1 DEF Picked
    <3> QED
      BY <3>1, <3>2, <3>3
  <2>6. CASE n + 1 \in kept
    <3> DEFINE u == Append(t, s[n + 1])
               q == [x \in 1 .. L + 1 |-> IF x = L + 1 THEN n + 1 ELSE p[x]]
    <3>1. /\ f[n + 1] = u /\ Len(u) = L + 1 /\ u[L + 1] = s[n + 1]
          /\ \A x \in 1 .. L : u[x] = t[x]
      BY <2>4, <2>6, AppendProperties
    <3> HIDE DEF u
    <3>2. \A x \in 1 .. L + 1 : x = L + 1 \/ x \in 1 .. L
      BY <2>4
    <3>3. \A x \in 1 .. L : p[x] \in 1 .. n /\ q[x] = p[x] /\ x # L + 1
      BY <2>3, <2>4
    <3>4. q[L + 1] = n + 1
      BY <2>4
    <3>5. q \in [1 .. L + 1 -> 1 .. n + 1]
      BY <2>2, <3>2, <3>3
    <3> HIDE DEF q
    <3>6. Picked(u, s, kept, n + 1, q)
      <4>1. \A x \in 1 .. Len(u) : q[x] \in kept /\ u[x] = s[q[x]]
        BY <2>3, <2>6, <3>1, <3>2, <3>3, <3>4 DEF Picked
      <4>2. ASSUME NEW x \in 1 .. Len(u), NEW y \in 1 .. Len(u), x < y PROVE q[x] < q[y]
        <5>1. x \in 1 .. L
          BY <2>4, <3>1, <4>2
        <5>2. CASE y \in 1 .. L
          BY <2>3, <3>3, <4>2, <5>1, <5>2 DEF Picked
        <5>3. CASE y = L + 1
          BY <2>2, <3>3, <3>4, <5>1, <5>3
        <5> QED
          BY <3>1, <3>2, <5>2, <5>3
      <4>3. ASSUME NEW i \in 1 .. n + 1, i \in kept
            PROVE  \E x \in 1 .. Len(u) : q[x] = i
        <5>1. CASE i = n + 1
          BY <2>4, <3>1, <3>4, <5>1
        <5>2. CASE i # n + 1
          <6>1. i \in 1 .. n
            BY <5>2
          <6>2. PICK x \in 1 .. L : p[x] = i
            BY <2>3, <4>3, <6>1 DEF Picked
          <6> QED
            BY <2>4, <3>1, <3>3, <6>2
        <5> QED
          BY <5>1, <5>2
      <4> QED
        BY <4>1, <4>2, <4>3 DEF Picked
    <3> QED
      BY <3>1, <3>5, <3>6
  <2> QED
    BY <2>5, <2>6
<1>5. Nat \subseteq F
  <2> HIDE DEF F
  <2> QED
    BY <1>3, <1>4, NatInductionOnSets
<1>6. Prep!Only(s, kept) = f[N]
  BY OnlyIsChosen DEF f
<1>7. N \in F /\ N \in 0..N
  BY <1>1, <1>5
<1>8. f[N] \in Seq(S) /\ \E p \in [1 .. Len(f[N]) -> 1 .. N] : Picked(f[N], s, kept, N, p)
  BY <1>1, <1>2, <1>7
<1> QED
  BY <1>6, <1>8

Words == {"words", "none", "prompt", "calls", "result", "warning", "continue", "separator"}
Ids   == Nat \X Nat
ToolCalls == [id : Ids, nth : Nat, read : Nat]
Messages ==
  [at : Nat, role : {"user", "assistant", "tool", "odd", "system"},
   text : Words \X Ids, parts : BOOLEAN, calls : Seq(ToolCalls), for : Ids]
Talks == Seq(Messages)

Tool(s, i)   == s[i].role = "tool"
Called(s)    == {x \in (1 .. Len(s)) \X (Nat \ {0}) : x[2] \in 1 .. Len(s[x[1]].calls)}
IdAt(s, x)   == s[x[1]].calls[x[2]].id
Results(s)   == {j \in 1 .. Len(s) : Tool(s, j)}
Between(s, i, j) == \A k \in i + 1 .. j : Tool(s, k)

(* only an assistant calls *)
Shaped(s) == \A i \in 1 .. Len(s) : s[i].calls # <<>> => s[i].role = "assistant"

(* the ids are short, and no two calls or results have one in common *)
Used(s) ==
  /\ Shaped(s)
  /\ \A x \in Called(s) : IdAt(s, x)[2] # 0
  /\ \A x, y \in Called(s) : IdAt(s, x) = IdAt(s, y) => x = y
  /\ \A i, j \in Results(s) : s[i].for = s[j].for /\ s[i].for[2] # 0 => i = j

Answers(s, j, x) == j \in Results(s) /\ s[j].for = IdAt(s, x)

(* every call has a result that follows without a break *)
Answered(s) ==
  \A x \in Called(s) :
    \E j \in x[1] + 1 .. Len(s) : Answers(s, j, x) /\ Between(s, x[1], j)

(* every result is one of a call *)
Asked(s) == \A j \in Results(s) : \E x \in Called(s) : Answers(s, j, x)

Paired(s) == s \in Talks /\ Used(s) /\ Answered(s) /\ Asked(s)

LEMMA TalkFacts ==
  ASSUME NEW s \in Talks
  PROVE  /\ Len(s) \in Nat /\ DOMAIN s = 1 .. Len(s)
         /\ \A i \in 1 .. Len(s) :
              /\ s[i] \in Messages /\ s[i].calls \in Seq(ToolCalls)
              /\ Len(s[i].calls) \in Nat /\ DOMAIN s[i].calls = 1 .. Len(s[i].calls)
              /\ (s[i].calls = <<>> <=> Len(s[i].calls) = 0)
              /\ \A c \in 1 .. Len(s[i].calls) :
                   s[i].calls[c] \in ToolCalls /\ s[i].calls[c].id \in Ids
<1>1. Len(s) \in Nat /\ DOMAIN s = 1 .. Len(s) /\ \A i \in 1 .. Len(s) : s[i] \in Messages
  BY LenProperties, ElementOfSeq DEF Talks
<1>2. ASSUME NEW i \in 1 .. Len(s)
      PROVE  /\ s[i].calls \in Seq(ToolCalls)
             /\ Len(s[i].calls) \in Nat /\ DOMAIN s[i].calls = 1 .. Len(s[i].calls)
             /\ (s[i].calls = <<>> <=> Len(s[i].calls) = 0)
             /\ \A c \in 1 .. Len(s[i].calls) :
                  s[i].calls[c] \in ToolCalls /\ s[i].calls[c].id \in Ids
  <2>1. s[i].calls \in Seq(ToolCalls)
    BY <1>1 DEF Messages
  <2>2. /\ Len(s[i].calls) \in Nat /\ DOMAIN s[i].calls = 1 .. Len(s[i].calls)
        /\ \A c \in 1 .. Len(s[i].calls) : s[i].calls[c] \in ToolCalls
    BY <2>1, LenProperties, ElementOfSeq
  <2>3. s[i].calls = <<>> <=> Len(s[i].calls) = 0
    BY <2>1, EmptySeq
  <2> QED
    BY <2>1, <2>2, <2>3 DEF ToolCalls
<1> QED
  BY <1>1, <1>2

LEMMA CalledFacts ==
  ASSUME NEW s \in Talks, NEW x
  PROVE  x \in Called(s) <=> \E i \in 1 .. Len(s) : \E c \in 1 .. Len(s[i].calls) : x = <<i, c>>
<1>1. ASSUME x \in Called(s)
      PROVE  \E i \in 1 .. Len(s) : \E c \in 1 .. Len(s[i].calls) : x = <<i, c>>
  BY <1>1 DEF Called
<1>2. ASSUME NEW i \in 1 .. Len(s), NEW c \in 1 .. Len(s[i].calls), x = <<i, c>>
      PROVE  x \in Called(s)
  <2>1. c \in Nat \ {0}
    BY TalkFacts
  <2> QED
    BY <1>2, <2>1 DEF Called
<1> QED
  BY <1>1, <1>2

(* a message that calls is no result *)
LEMMA CallersAre ==
  ASSUME NEW s \in Talks, Shaped(s), NEW x \in Called(s)
  PROVE  /\ x[1] \in 1 .. Len(s) /\ x[2] \in 1 .. Len(s[x[1]].calls) /\ x = <<x[1], x[2]>>
         /\ s[x[1]].calls # <<>> /\ s[x[1]].role = "assistant" /\ x[1] \notin Results(s)
         /\ IdAt(s, x) \in Ids
<1>1. /\ x[1] \in 1 .. Len(s) /\ x[2] \in 1 .. Len(s[x[1]].calls) /\ x = <<x[1], x[2]>>
  BY DEF Called
<1>2. s[x[1]].calls # <<>> /\ IdAt(s, x) \in Ids
  BY <1>1, TalkFacts DEF IdAt
<1> QED
  BY <1>1, <1>2 DEF Shaped, Results, Tool

(* t is what s became: its messages K were at the places p of s, in order,   *)
(* and the others neither call nor answer                                    *)
Moves(t, s, K, p) ==
  /\ K \subseteq 1 .. Len(t)
  /\ p \in [K -> 1 .. Len(s)]
  /\ \A x, y \in K : x < y => p[x] < p[y]
  /\ \A x \in K : /\ t[x].role = s[p[x]].role /\ t[x].for = s[p[x]].for
                  /\ t[x].calls = s[p[x]].calls
  /\ \A x \in (1 .. Len(t)) \ K : t[x].role # "tool" /\ t[x].calls = <<>>

(* nothing came between a call and its results *)
Whole(t, s, K, p) ==
  \A x, y \in K : x < y /\ Between(s, p[x], p[y]) => x + 1 .. y \subseteq K

Went(K, p, i) == \E x \in K : p[x] = i

(* a call goes with its results *)
Together(s, K, p) ==
  \A x \in Called(s), j \in Results(s) :
    Answers(s, j, x) => (Went(K, p, x[1]) <=> Went(K, p, j))

LEMMA MovesFacts ==
  ASSUME NEW s \in Talks, NEW t \in Talks, NEW K, NEW p, Moves(t, s, K, p)
  PROVE  /\ \A x \in K : p[x] \in 1 .. Len(s) /\ x \in 1 .. Len(t) /\ x \in Nat
         /\ \A x, y \in K : /\ p[x] = p[y] => x = y
                            /\ p[x] < p[y] => x < y
                            /\ x < y => p[x] < p[y]
         /\ \A u \in Called(t) : /\ u[1] \in K /\ <<p[u[1]], u[2]>> \in Called(s)
                                 /\ u = <<u[1], u[2]>>
                                 /\ IdAt(t, u) = IdAt(s, <<p[u[1]], u[2]>>)
         /\ \A y \in Results(t) : /\ y \in K /\ p[y] \in Results(s)
                                  /\ t[y].for = s[p[y]].for
         /\ \A x \in K : p[x] \in Results(s) => x \in Results(t)
         /\ \A x \in K : \A c : <<p[x], c>> \in Called(s) => <<x, c>> \in Called(t)
<1>1. \A x \in K : p[x] \in 1 .. Len(s) /\ x \in 1 .. Len(t) /\ x \in Nat
  BY TalkFacts DEF Moves
<1>2. \A x, y \in K : /\ p[x] = p[y] => x = y
                      /\ p[x] < p[y] => x < y
                      /\ x < y => p[x] < p[y]
  <2>1. \A x, y \in K : x < y => p[x] < p[y]
    BY DEF Moves
  <2>2. \A x, y \in K : x \in Nat /\ y \in Nat /\ p[x] \in Nat /\ p[y] \in Nat
    BY <1>1, TalkFacts
  <2> QED
    BY <2>1, <2>2
<1>3. ASSUME NEW u \in Called(t)
      PROVE  /\ u[1] \in K /\ <<p[u[1]], u[2]>> \in Called(s)
             /\ u = <<u[1], u[2]>>
             /\ IdAt(t, u) = IdAt(s, <<p[u[1]], u[2]>>)
  <2>1. PICK i \in 1 .. Len(t) : \E c \in 1 .. Len(t[i].calls) : u = <<i, c>>
    BY CalledFacts
  <2>2. PICK c \in 1 .. Len(t[i].calls) : u = <<i, c>>
    BY <2>1
  <2>3. t[i].calls # <<>>
    BY <2>2, TalkFacts
  <2>4. i \in K
    BY <2>3 DEF Moves
  <2>5. t[i].calls = s[p[i]].calls /\ p[i] \in 1 .. Len(s)
    BY <1>1, <2>4 DEF Moves
  <2>6. <<p[i], c>> \in Called(s)
    BY <2>2, <2>5, CalledFacts
  <2> QED
    BY <2>2, <2>4, <2>5, <2>6 DEF IdAt
<1>4. \A y \in Results(t) : y \in K /\ p[y] \in Results(s) /\ t[y].for = s[p[y]].for
  BY <1>1 DEF Moves, Results, Tool
<1>5. \A x \in K : p[x] \in Results(s) => x \in Results(t)
  BY <1>1 DEF Moves, Results, Tool
<1>6. ASSUME NEW x \in K, NEW c, <<p[x], c>> \in Called(s)
      PROVE  <<x, c>> \in Called(t)
  <2>1. c \in 1 .. Len(s[p[x]].calls)
    BY <1>6, CalledFacts
  <2>2. c \in 1 .. Len(t[x].calls) /\ x \in 1 .. Len(t)
    BY <1>1, <2>1 DEF Moves
  <2> QED
    BY <2>2, CalledFacts
<1> QED
  BY <1>1, <1>2, <1>3, <1>4, <1>5, <1>6

(* messages that only move keep their ids apart                              *)
LEMMA UsedMoves ==
  ASSUME NEW s \in Talks, NEW t \in Talks, NEW K, NEW p, Moves(t, s, K, p), Used(s)
  PROVE  Used(t)
<1>1. Shaped(t)
  <2>1. ASSUME NEW i \in 1 .. Len(t), t[i].calls # <<>> PROVE t[i].role = "assistant"
    <3>1. i \in K
      BY <2>1 DEF Moves
    <3>2. p[i] \in 1 .. Len(s) /\ s[p[i]].calls # <<>> /\ s[p[i]].role = t[i].role
      BY <2>1, <3>1 DEF Moves
    <3> QED
      BY <3>2 DEF Used, Shaped
  <2> QED
    BY <2>1 DEF Shaped
<1>2. \A u \in Called(t) : IdAt(t, u)[2] # 0
  <2>1. ASSUME NEW u \in Called(t) PROVE IdAt(t, u)[2] # 0
    <3>1. /\ <<p[u[1]], u[2]>> \in Called(s)
          /\ IdAt(t, u) = IdAt(s, <<p[u[1]], u[2]>>)
      BY MovesFacts
    <3> QED
      BY <3>1 DEF Used
  <2> QED
    BY <2>1
<1>3. ASSUME NEW u \in Called(t), NEW v \in Called(t), IdAt(t, u) = IdAt(t, v)
      PROVE  u = v
  <2>1. /\ u[1] \in K /\ v[1] \in K /\ u = <<u[1], u[2]>> /\ v = <<v[1], v[2]>>
        /\ <<p[u[1]], u[2]>> \in Called(s) /\ <<p[v[1]], v[2]>> \in Called(s)
        /\ IdAt(s, <<p[u[1]], u[2]>>) = IdAt(s, <<p[v[1]], v[2]>>)
    BY <1>3, MovesFacts
  <2>2. <<p[u[1]], u[2]>> = <<p[v[1]], v[2]>>
    BY <2>1 DEF Used
  <2>3. p[u[1]] = p[v[1]] /\ u[2] = v[2]
    BY <2>2
  <2>4. u[1] = v[1]
    BY <2>1, <2>3, MovesFacts
  <2> QED
    BY <2>1, <2>3, <2>4
<1>4. ASSUME NEW i \in Results(t), NEW j \in Results(t), t[i].for = t[j].for, t[i].for[2] # 0
      PROVE  i = j
  <2>1. /\ i \in K /\ j \in K /\ p[i] \in Results(s) /\ p[j] \in Results(s)
        /\ t[i].for = s[p[i]].for /\ t[j].for = s[p[j]].for
    BY MovesFacts
  <2>2. p[i] = p[j]
    BY <1>4, <2>1 DEF Used
  <2> QED
    BY <2>1, <2>2, MovesFacts
<1> QED
  BY <1>1, <1>2, <1>3, <1>4 DEF Used

(* the results of calls that went went too *)
Follow(s, K, p) ==
  \A x \in Called(s), j \in Results(s) :
    Answers(s, j, x) /\ Went(K, p, x[1]) => Went(K, p, j)

(* a call that goes with its results, and nothing between them, stays answered*)
LEMMA AnsweredMoves ==
  ASSUME NEW s \in Talks, NEW t \in Talks, NEW K, NEW p, Moves(t, s, K, p),
         Whole(t, s, K, p), Follow(s, K, p), Answered(s)
  PROVE  Answered(t)
<1> SUFFICES ASSUME NEW u \in Called(t)
             PROVE  \E y \in u[1] + 1 .. Len(t) : Answers(t, y, u) /\ Between(t, u[1], y)
  BY DEF Answered
<1> DEFINE x == u[1]
           w == <<p[x], u[2]>>
<1>1. x \in K /\ w \in Called(s) /\ IdAt(t, u) = IdAt(s, w) /\ w[1] = p[x]
  BY MovesFacts
<1> HIDE DEF x, w
<1>2. PICK j \in w[1] + 1 .. Len(s) : Answers(s, j, w) /\ Between(s, w[1], j)
  BY <1>1 DEF Answered
<1>3. j \in Results(s) /\ s[j].for = IdAt(s, w)
  BY <1>2 DEF Answers
<1>4. PICK y \in K : p[y] = j
  <2>1. Went(K, p, w[1])
    BY <1>1 DEF Went
  <2> QED
    BY <1>1, <1>2, <1>3, <2>1 DEF Follow, Went
<1>5. p[x] < p[y]
  <2>1. p[x] \in 1 .. Len(s) /\ Len(s) \in Nat
    BY <1>1, MovesFacts, TalkFacts
  <2> QED
    BY <1>1, <1>2, <1>4, <2>1
<1>6. x < y /\ y \in 1 .. Len(t) /\ x \in Nat
  BY <1>1, <1>4, <1>5, MovesFacts
<1>7. x + 1 .. y \subseteq K
  BY <1>1, <1>2, <1>4, <1>6 DEF Whole
<1>8. Between(t, x, y)
  <2>1. ASSUME NEW z \in x + 1 .. y PROVE Tool(t, z)
    <3>1. z \in K /\ x < z /\ z <= y
      BY <1>6, <1>7, <2>1
    <3>2. p[x] < p[z] /\ p[z] <= p[y]
      <4>1. z = y \/ z < y
        BY <1>6, <3>1
      <4>2. p[z] \in 1 .. Len(s) /\ p[y] \in 1 .. Len(s) /\ p[x] \in 1 .. Len(s)
        BY <1>1, <1>4, <3>1, MovesFacts
      <4>3. p[x] < p[z] /\ (z < y => p[z] < p[y])
        BY <1>1, <1>4, <3>1, MovesFacts
      <4> QED
        BY <4>1, <4>2, <4>3
    <3>3. p[z] \in p[x] + 1 .. p[y]
      <4>1. p[z] \in 1 .. Len(s) /\ p[y] \in 1 .. Len(s) /\ p[x] \in 1 .. Len(s)
        BY <1>1, <1>4, <3>1, MovesFacts
      <4> QED
        BY <3>2, <4>1
    <3>4. Tool(s, p[z])
      BY <1>1, <1>2, <1>4, <3>3 DEF Between
    <3> QED
      BY <3>1, <3>4 DEF Tool, Moves
  <2> QED
    BY <2>1 DEF Between
<1>9. y \in Results(t) /\ t[y].for = IdAt(t, u)
  BY <1>1, <1>3, <1>4, MovesFacts
<1>10. y \in x + 1 .. Len(t)
  BY <1>6
<1> QED
  BY <1>8, <1>9, <1>10 DEF Answers, x

(* what moves together stays paired                                          *)
LEMMA PairedMoves ==
  ASSUME NEW s, NEW t \in Talks, NEW K, NEW p, Moves(t, s, K, p),
         Whole(t, s, K, p), Together(s, K, p), Paired(s)
  PROVE  Paired(t)
<1>1. s \in Talks /\ Used(s) /\ Answered(s) /\ Asked(s)
  BY DEF Paired
<1>2. Used(t)
  BY <1>1, UsedMoves
<1>3. Answered(t)
  BY <1>1, AnsweredMoves DEF Together, Follow
<1>4. Asked(t)
  <2>1. ASSUME NEW y \in Results(t) PROVE \E u \in Called(t) : Answers(t, y, u)
    <3>1. y \in K /\ p[y] \in Results(s) /\ t[y].for = s[p[y]].for
      BY <1>1, MovesFacts
    <3>2. PICK w \in Called(s) : Answers(s, p[y], w)
      BY <1>1, <3>1 DEF Asked
    <3>3. PICK x \in K : p[x] = w[1]
      BY <3>1, <3>2 DEF Together, Went
    <3>4. w = <<p[x], w[2]>>
      BY <1>1, <3>2, <3>3, CallersAre DEF Used
    <3>5. <<x, w[2]>> \in Called(t)
      BY <1>1, <3>2, <3>3, <3>4, MovesFacts
    <3>6. IdAt(t, <<x, w[2]>>) = IdAt(s, <<p[x], w[2]>>)
      BY <3>3 DEF IdAt, Moves
    <3>7. Answers(t, y, <<x, w[2]>>)
      BY <2>1, <3>1, <3>2, <3>4, <3>6 DEF Answers
    <3> QED
      BY <3>5, <3>7
  <2> QED
    BY <2>1 DEF Asked
<1> QED
  BY <1>2, <1>3, <1>4 DEF Paired

LEMMA IdsOfIs ==
  ASSUME NEW s \in Talks, NEW i \in 1 .. Len(s), NEW id
  PROVE  id \in Prep!IdsOf(s[i]) <=> \E x \in Called(s) : x[1] = i /\ IdAt(s, x) = id
<1>1. DOMAIN s[i].calls = 1 .. Len(s[i].calls)
  BY TalkFacts
<1>2. ASSUME NEW c \in 1 .. Len(s[i].calls)
      PROVE  <<i, c>> \in Called(s) /\ IdAt(s, <<i, c>>) = s[i].calls[c].id
  BY CalledFacts DEF IdAt
<1>3. ASSUME NEW x \in Called(s), x[1] = i
      PROVE  x[2] \in 1 .. Len(s[i].calls) /\ IdAt(s, x) = s[i].calls[x[2]].id
  BY <1>3 DEF Called, IdAt
<1>4. id \in Prep!IdsOf(s[i]) <=> \E c \in 1 .. Len(s[i].calls) : id = s[i].calls[c].id
  BY <1>1 DEF Prep!IdsOf
<1>5. ASSUME id \in Prep!IdsOf(s[i])
      PROVE  \E x \in Called(s) : x[1] = i /\ IdAt(s, x) = id
  <2>1. PICK c \in 1 .. Len(s[i].calls) : id = s[i].calls[c].id
    BY <1>4, <1>5
  <2>2. <<i, c>> \in Called(s) /\ IdAt(s, <<i, c>>) = id /\ <<i, c>>[1] = i
    BY <1>2, <2>1
  <2> QED
    BY <2>2
<1>6. ASSUME NEW x \in Called(s), x[1] = i, IdAt(s, x) = id
      PROVE  id \in Prep!IdsOf(s[i])
  BY <1>3, <1>4, <1>6
<1> QED
  BY <1>5, <1>6

LEMMA IdsInIs ==
  ASSUME NEW s \in Talks, NEW id
  PROVE  id \in Prep!IdsIn(s) <=> \E x \in Called(s) : IdAt(s, x) = id
<1>1. id \in Prep!IdsIn(s) <=> \E i \in 1 .. Len(s) : id \in Prep!IdsOf(s[i])
  BY TalkFacts DEF Prep!IdsIn
<1>2. \A x \in Called(s) : x[1] \in 1 .. Len(s)
  BY DEF Called
<1>3. ASSUME NEW i \in 1 .. Len(s), id \in Prep!IdsOf(s[i])
      PROVE  \E x \in Called(s) : IdAt(s, x) = id
  BY <1>3, IdsOfIs
<1>4. ASSUME NEW x \in Called(s), IdAt(s, x) = id
      PROVE  \E i \in 1 .. Len(s) : id \in Prep!IdsOf(s[i])
  BY <1>2, <1>4, IdsOfIs
<1> QED
  BY <1>1, <1>3, <1>4

LEMMA BlockIs ==
  ASSUME NEW s \in Talks, NEW i \in Nat, NEW j
  PROVE  j \in Prep!Block(s, i) <=> j \in i + 1 .. Len(s) /\ Between(s, i, j)
BY DEF Prep!Block, Between, Tool

(* what pairs up pairs up for a provider *)
GoesWith(s) ==
  \A i \in DOMAIN s :
    /\ Prep!IdsOf(s[i]) \subseteq {s[j].for : j \in Prep!Block(s, i)}
    /\ Cardinality(Prep!IdsOf(s[i])) = Len(s[i].calls)
    /\ s[i].role = "tool" =>
         \E k \in 1 .. i - 1 : i \in Prep!Block(s, k) /\ s[i].for \in Prep!IdsOf(s[k])

LEMMA PairedGoesWith ==
  ASSUME NEW s, Paired(s)
  PROVE  GoesWith(s)
<1>1. s \in Talks /\ Used(s) /\ Answered(s) /\ Asked(s) /\ Shaped(s)
  BY DEF Paired, Used
<1> SUFFICES ASSUME NEW i \in 1 .. Len(s)
             PROVE  /\ Prep!IdsOf(s[i]) \subseteq {s[j].for : j \in Prep!Block(s, i)}
                    /\ Cardinality(Prep!IdsOf(s[i])) = Len(s[i].calls)
                    /\ s[i].role = "tool" =>
                         \E k \in 1 .. i - 1 :
                           i \in Prep!Block(s, k) /\ s[i].for \in Prep!IdsOf(s[k])
  BY <1>1, TalkFacts DEF GoesWith
<1>2. Len(s) \in Nat /\ i \in Nat
  BY <1>1, TalkFacts
<1>3. ASSUME NEW id \in Prep!IdsOf(s[i])
      PROVE  id \in {s[j].for : j \in Prep!Block(s, i)}
  <2>1. PICK x \in Called(s) : x[1] = i /\ IdAt(s, x) = id
    BY <1>1, <1>3, IdsOfIs
  <2>2. PICK j \in i + 1 .. Len(s) : Answers(s, j, x) /\ Between(s, i, j)
    BY <1>1, <2>1 DEF Answered
  <2>3. j \in Prep!Block(s, i)
    BY <1>1, <1>2, <2>2, BlockIs
  <2> QED
    BY <2>1, <2>2, <2>3 DEF Answers
<1>4. Cardinality(Prep!IdsOf(s[i])) = Len(s[i].calls)
  <2> DEFINE n == Len(s[i].calls)
             f == [c \in 1 .. n |-> s[i].calls[c].id]
  <2>1. n \in Nat /\ DOMAIN s[i].calls = 1 .. n
    BY <1>1, TalkFacts
  <2>2. Prep!IdsOf(s[i]) = {f[c] : c \in 1 .. n}
    BY <2>1 DEF Prep!IdsOf
  <2>3. \A c, d \in 1 .. n : f[c] = f[d] => c = d
    <3>1. ASSUME NEW c \in 1 .. n, NEW d \in 1 .. n, f[c] = f[d] PROVE c = d
      <4>1. <<i, c>> \in Called(s) /\ <<i, d>> \in Called(s)
        BY <1>1, CalledFacts
      <4>2. IdAt(s, <<i, c>>) = IdAt(s, <<i, d>>)
        BY <3>1 DEF IdAt
      <4>3. <<i, c>> = <<i, d>>
        BY <1>1, <4>1, <4>2 DEF Used
      <4> QED
        BY <4>3
    <3> QED
      BY <3>1
  <2> DEFINE I == Prep!IdsOf(s[i])
  <2>4. f \in Bijection(1 .. n, I)
    <3>1. f \in [1 .. n -> I]
      BY <2>2
    <3>2. \A y \in I : \E c \in 1 .. n : f[c] = y
      BY <2>2
    <3> HIDE DEF f, I, n
    <3> QED
      BY <2>3, <3>1, <3>2 DEF Bijection, Injection, Surjection, IsInjective
  <2> HIDE DEF f, I, n
  <2>5. IsFiniteSet(1 .. n) /\ Cardinality(1 .. n) = n
    BY <2>1, FS_Interval
  <2>6. ExistsBijection(1 .. n, I)
    BY <2>4 DEF ExistsBijection
  <2>7. Cardinality(I) = n
    BY <2>5, <2>6, FS_Bijection
  <2> QED
    BY <2>7 DEF I, n
<1>5. ASSUME s[i].role = "tool"
      PROVE  \E k \in 1 .. i - 1 : i \in Prep!Block(s, k) /\ s[i].for \in Prep!IdsOf(s[k])
  <2>1. i \in Results(s)
    BY <1>5 DEF Results, Tool
  <2>2. PICK x \in Called(s) : Answers(s, i, x)
    BY <1>1, <2>1 DEF Asked
  <2>3. PICK j \in x[1] + 1 .. Len(s) : Answers(s, j, x) /\ Between(s, x[1], j)
    BY <1>1, <2>2 DEF Answered
  <2>4. s[i].for = s[j].for /\ s[i].for[2] # 0 /\ j \in Results(s)
    BY <1>1, <2>2, <2>3 DEF Answers, Used
  <2>5. i = j
    BY <1>1, <2>1, <2>4 DEF Used
  <2>6. x[1] \in 1 .. Len(s)
    BY <1>1, CallersAre
  <2>7. x[1] \in 1 .. i - 1 /\ x[1] \in Nat
    BY <1>2, <2>3, <2>5, <2>6
  <2>8. i \in Prep!Block(s, x[1])
    BY <1>1, <2>3, <2>5, <2>7, BlockIs
  <2>9. s[i].for \in Prep!IdsOf(s[x[1]])
    <3>1. \E y \in Called(s) : y[1] = x[1] /\ IdAt(s, y) = s[i].for
      BY <2>2 DEF Answers
    <3>2. PICK k \in 1 .. Len(s) : k = x[1]
      BY <2>6
    <3> QED
      BY <1>1, <3>1, <3>2, IdsOfIs
  <2> QED
    BY <2>7, <2>8, <2>9
<1> QED
  BY <1>3, <1>4, <1>5

LEMMA OnlyMoves ==
  ASSUME NEW s \in Talks, NEW kept
  PROVE  LET t == Prep!Only(s, kept)
             K == 1 .. Len(t)
         IN /\ t \in Talks
            /\ \E p \in [K -> 1 .. Len(s)] :
                 /\ Moves(t, s, K, p) /\ Whole(t, s, K, p)
                 /\ \A i \in 1 .. Len(s) : Went(K, p, i) <=> i \in kept
                 /\ \A x \in K : t[x] = s[p[x]]
<1> DEFINE t == Prep!Only(s, kept)
           K == 1 .. Len(t)
<1>1. /\ t \in Talks
      /\ \E p \in [K -> 1 .. Len(s)] : Picked(t, s, kept, Len(s), p)
  <2> HIDE DEF t
  <2>1. /\ Prep!Only(s, kept) \in Seq(Messages)
        /\ \E p \in [1 .. Len(Prep!Only(s, kept)) -> 1 .. Len(s)] :
             Picked(Prep!Only(s, kept), s, kept, Len(s), p)
    BY OnlyPicked DEF Talks
  <2> QED
    BY <2>1 DEF t, Talks
<1> HIDE DEF t
<1>2. PICK p \in [K -> 1 .. Len(s)] : Picked(t, s, kept, Len(s), p)
  BY <1>1
<1>3. \A x \in K : t[x] = s[p[x]] /\ p[x] \in kept
  BY <1>2 DEF Picked
<1>4. \A x, y \in K : x < y => p[x] < p[y]
  BY <1>2 DEF Picked
<1>5. Moves(t, s, K, p)
  BY <1>2, <1>3, <1>4 DEF Moves
<1>6. Whole(t, s, K, p)
  <2>1. Len(t) \in Nat
    BY <1>1, TalkFacts
  <2>2. \A x, y \in K : x + 1 .. y \subseteq K
    BY <2>1
  <2> QED
    BY <2>2 DEF Whole
<1>7. \A i \in 1 .. Len(s) : Went(K, p, i) <=> i \in kept
  <2>1. \A i \in 1 .. Len(s) : i \in kept => \E x \in K : p[x] = i
    BY <1>2 DEF Picked
  <2> QED
    BY <1>3, <2>1 DEF Went
<1> QED
  BY <1>1, <1>2, <1>3, <1>5, <1>6, <1>7 DEF t

LEMMA WithoutMoves ==
  ASSUME NEW s \in Talks, NEW gone
  PROVE  LET t == Prep!Without(s, gone)
             K == 1 .. Len(t)
         IN /\ t \in Talks
            /\ \E p \in [K -> 1 .. Len(s)] :
                 /\ Moves(t, s, K, p) /\ Whole(t, s, K, p)
                 /\ \A i \in 1 .. Len(s) : Went(K, p, i) <=> i \notin gone
                 /\ \A x \in K : t[x] = s[p[x]]
<1> DEFINE kept == (DOMAIN s) \ gone
<1>1. \A i \in 1 .. Len(s) : i \in kept <=> i \notin gone
  BY TalkFacts
<1>2. Prep!Without(s, gone) = Prep!Only(s, kept)
  BY DEF Prep!Without
<1> DEFINE t == Prep!Only(s, kept)
           K == 1 .. Len(t)
<1> HIDE DEF kept
<1>3. /\ t \in Talks
      /\ \E p \in [K -> 1 .. Len(s)] :
           /\ Moves(t, s, K, p) /\ Whole(t, s, K, p)
           /\ \A i \in 1 .. Len(s) : Went(K, p, i) <=> i \in kept
           /\ \A x \in K : t[x] = s[p[x]]
  BY OnlyMoves
<1> HIDE DEF t
<1>4. PICK p \in [K -> 1 .. Len(s)] :
           /\ Moves(t, s, K, p) /\ Whole(t, s, K, p)
           /\ \A i \in 1 .. Len(s) : Went(K, p, i) <=> i \in kept
           /\ \A x \in K : t[x] = s[p[x]]
  BY <1>3
<1>5. \A i \in 1 .. Len(s) : Went(K, p, i) <=> i \notin gone
  BY <1>1, <1>4
<1> QED
  BY <1>2, <1>3, <1>4, <1>5 DEF t

(* what is taken out takes its results with it, or has none *)
LEMMA WithoutPairs ==
  ASSUME NEW s, Paired(s), NEW gone,
         \A x \in Called(s), j \in Results(s) :
           Answers(s, j, x) => (x[1] \in gone <=> j \in gone)
  PROVE  Paired(Prep!Without(s, gone))
<1> DEFINE t == Prep!Without(s, gone)
           K == 1 .. Len(t)
<1>1. s \in Talks /\ Shaped(s)
  BY DEF Paired, Used
<1>2. t \in Talks /\ \E p \in [K -> 1 .. Len(s)] :
        /\ Moves(t, s, K, p) /\ Whole(t, s, K, p)
        /\ \A i \in 1 .. Len(s) : Went(K, p, i) <=> i \notin gone
        /\ \A x \in K : t[x] = s[p[x]]
  BY <1>1, WithoutMoves
<1> HIDE DEF t
<1>3. PICK p \in [K -> 1 .. Len(s)] :
        /\ Moves(t, s, K, p) /\ Whole(t, s, K, p)
        /\ \A i \in 1 .. Len(s) : Went(K, p, i) <=> i \notin gone
  BY <1>2
<1>4. Together(s, K, p)
  <2>1. \A x \in Called(s) : x[1] \in 1 .. Len(s)
    BY <1>1, CallersAre
  <2>2. \A j \in Results(s) : j \in 1 .. Len(s)
    BY DEF Results
  <2> QED
    BY <1>3, <2>1, <2>2 DEF Together
<1>5. Paired(t)
  BY <1>2, <1>3, <1>4, PairedMoves
<1> QED
  BY <1>5 DEF t

LEMMA WithoutPlainPairs ==
  ASSUME NEW s, Paired(s), NEW gone,
         \A i \in 1 .. Len(s) : i \in gone => s[i].role # "tool" /\ s[i].calls = <<>>
  PROVE  Paired(Prep!Without(s, gone))
<1>1. s \in Talks /\ Shaped(s)
  BY DEF Paired, Used
<1>2. \A x \in Called(s) : x[1] \notin gone
  <2>1. \A x \in Called(s) : x[1] \in 1 .. Len(s) /\ s[x[1]].calls # <<>>
    BY <1>1, CallersAre
  <2> QED
    BY <2>1
<1>3. \A j \in Results(s) : j \notin gone
  BY DEF Results, Tool
<1> QED
  BY <1>2, <1>3, WithoutPairs

LEMMA MessageIs ==
  ASSUME NEW role \in {"user", "assistant", "odd", "system", "tool"}, NEW word \in Words
  PROVE  LET m == Prep!Message(role, word)
         IN /\ m \in Messages /\ m.role = role /\ m.calls = <<>> /\ m.at = 0
            /\ m.text[1] = word /\ m.for = <<0, 1>> /\ m.parts = FALSE
<1>1. <<>> \in Seq(ToolCalls)
  BY EmptySeq
<1>2. <<word, <<0, 1>>>> \in Words \X Ids
  BY DEF Ids
<1> QED
  BY <1>1, <1>2 DEF Prep!Message, Prep!Text, Prep!NoId, Messages, Ids

LEMMA CleanedPairs ==
  ASSUME NEW s, Paired(s)
  PROVE  Paired(Prep!Cleaned(s))
<1> DEFINE gone == {i \in DOMAIN s : s[i].role = "assistant" /\ s[i].calls = <<>>
                                     /\ s[i].text = Prep!Silent}
<1>1. \A i \in gone : s[i].role # "tool" /\ s[i].calls = <<>>
  OBVIOUS
<1>2. Prep!Cleaned(s) = Prep!Without(s, gone)
  BY DEF Prep!Cleaned
<1> HIDE DEF gone
<1> QED
  BY <1>1, <1>2, WithoutPlainPairs

LEMMA UndoubledPairs ==
  ASSUME NEW s, Paired(s)
  PROVE  Paired(Prep!Undoubled(s))
<1> DEFINE gone == {i \in 2 .. Len(s) :
                     /\ s[i].role = s[i - 1].role /\ s[i].text = s[i - 1].text
                     /\ Prep!Plain(s[i]) /\ Prep!Plain(s[i - 1])}
<1>1. \A i \in gone : s[i].role # "tool" /\ s[i].calls = <<>>
  BY DEF Prep!Plain
<1>2. Prep!Undoubled(s) = s \/ Prep!Undoubled(s) = Prep!Without(s, gone)
  BY DEF Prep!Undoubled
<1> HIDE DEF gone
<1>3. Paired(Prep!Without(s, gone))
  BY <1>1, WithoutPlainPairs
<1> QED
  BY <1>2, <1>3

(* where nobody calls and nothing is answered everything is paired *)
LEMMA NothingToPair ==
  ASSUME NEW s \in Talks, \A i \in 1 .. Len(s) : s[i].role # "tool" /\ s[i].calls = <<>>
  PROVE  Paired(s)
<1>1. Results(s) = {}
  BY DEF Results, Tool
<1>2. Called(s) = {}
  <2>1. ASSUME NEW x \in Called(s) PROVE FALSE
    <3>1. x[1] \in 1 .. Len(s) /\ x[2] \in 1 .. Len(s[x[1]].calls)
      BY DEF Called
    <3> QED
      BY <3>1, TalkFacts
  <2> QED
    BY <2>1
<1>3. Shaped(s)
  BY DEF Shaped
<1> QED
  BY <1>1, <1>2, <1>3 DEF Paired, Used, Answered, Asked

LEMMA MadeSequence ==
  ASSUME NEW n \in Nat, NEW S, NEW f, DOMAIN f = 1 .. n, f = [i \in 1 .. n |-> f[i]],
         \A i \in 1 .. n : f[i] \in S
  PROVE  f \in Seq(S) /\ Len(f) = n
<1>1. f \in [1 .. n -> S]
  OBVIOUS
<1> QED
  BY <1>1, SeqDef, LenProperties

(* calls and results that become text leave nothing to pair                  *)
LEMMA FlattenedPairs ==
  ASSUME NEW s, Paired(s), NEW kind
  PROVE  Paired(Prep!Flattened(kind, s))
<1>1. s \in Talks /\ Shaped(s)
  BY DEF Paired, Used
<1> DEFINE t == [i \in DOMAIN s |->
          IF s[i].calls # <<>>
          THEN [s[i] EXCEPT !.calls = <<>>, !.text = Prep!Text("calls")]
          ELSE IF s[i].role = "tool"
          THEN [s[i] EXCEPT !.role = "user", !.text = <<"result", s[i].for>>,
                            !.for = Prep!NoId]
          ELSE s[i]]
<1>2. Prep!Flattened(kind, s) = s \/ Prep!Flattened(kind, s) = t
  BY DEF Prep!Flattened
<1>3. Len(s) \in Nat /\ DOMAIN s = 1 .. Len(s)
  BY <1>1, TalkFacts
<1>4. ASSUME NEW i \in 1 .. Len(s)
      PROVE  t[i] \in Messages /\ t[i].role # "tool" /\ t[i].calls = <<>>
  <2>1. s[i] \in Messages /\ <<>> \in Seq(ToolCalls)
    BY <1>1, TalkFacts, EmptySeq
  <2>2. Prep!Text("calls") \in Words \X Ids /\ Prep!NoId \in Ids
    BY DEF Prep!Text, Prep!NoId, Words, Ids
  <2>3. <<"result", s[i].for>> \in Words \X Ids
    BY <2>1 DEF Messages, Words
  <2>4. CASE s[i].calls # <<>>
    <3>1. t[i] = [s[i] EXCEPT !.calls = <<>>, !.text = Prep!Text("calls")]
      BY <1>3, <2>4
    <3>2. s[i].role = "assistant"
      BY <1>1, <2>4 DEF Shaped
    <3> DEFINE words == Prep!Text("calls")
    <3> HIDE DEF t, words
    <3>3. /\ t[i].calls = <<>> /\ t[i].text = words /\ t[i].role = s[i].role
          /\ t[i] \in Messages
      BY <2>1, <2>2, <3>1 DEF Messages, words
    <3> QED
      BY <3>2, <3>3
  <2>5. CASE s[i].calls = <<>> /\ s[i].role = "tool"
    <3>1. t[i] = [s[i] EXCEPT !.role = "user", !.text = <<"result", s[i].for>>,
                            !.for = Prep!NoId]
      BY <1>3, <2>5
    <3> DEFINE words == <<"result", s[i].for>>
               no == Prep!NoId
    <3> HIDE DEF t, words, no
    <3>2. /\ t[i].calls = s[i].calls /\ t[i].role = "user" /\ t[i] \in Messages
      BY <2>1, <2>2, <2>3, <3>1 DEF Messages, words, no
    <3> QED
      BY <2>5, <3>2
  <2>6. CASE s[i].calls = <<>> /\ s[i].role # "tool"
    BY <1>3, <2>1, <2>6
  <2> QED
    BY <2>4, <2>5, <2>6
<1>5. t \in Talks /\ Len(t) = Len(s)
  <2>1. DOMAIN t = 1 .. Len(s) /\ t = [i \in 1 .. Len(s) |-> t[i]]
    BY <1>3
  <2> HIDE DEF t
  <2> QED
    BY <1>3, <1>4, <2>1, MadeSequence DEF Talks
<1>6. Paired(t)
  <2> HIDE DEF t
  <2> QED
    BY <1>4, <1>5, NothingToPair
<1> HIDE DEF t
<1> QED
  BY <1>2, <1>6

LEMMA PromptedPairs ==
  ASSUME NEW s, Paired(s)
  PROVE  Paired(Prep!Prompted(s))
<1> DEFINE m == Prep!Message("system", "prompt")
           t == <<m>> \o s
           K == 2 .. Len(s) + 1
           p == [x \in K |-> x - 1]
<1>1. s \in Talks /\ Shaped(s)
  BY DEF Paired, Used
<1>2. m \in Messages /\ m.role = "system" /\ m.calls = <<>>
  BY MessageIs DEF Words
<1> HIDE DEF m
<1>3. Len(s) \in Nat
  BY <1>1, TalkFacts
<1>4. /\ t \in Talks /\ Len(t) = Len(s) + 1 /\ t[1] = m
      /\ \A x \in K : t[x] = s[x - 1]
  <2>1. <<m>> \in Seq(Messages) /\ Len(<<m>>) = 1 /\ <<m>>[1] = m
    BY <1>2
  <2> QED
    BY <1>1, <1>3, <2>1, ConcatProperties DEF Talks
<1> HIDE DEF t
<1>5. /\ K \subseteq 1 .. Len(t) /\ p \in [K -> 1 .. Len(s)]
      /\ \A x \in K : p[x] = x - 1
      /\ \A x \in 1 .. Len(t) : x \in K \/ x = 1
  BY <1>3, <1>4
<1> HIDE DEF p
<1>6. Moves(t, s, K, p)
  BY <1>2, <1>3, <1>4, <1>5 DEF Moves
<1>7. Whole(t, s, K, p)
  BY <1>3, <1>4 DEF Whole
<1>8. Together(s, K, p)
  <2>1. \A i \in 1 .. Len(s) : Went(K, p, i)
    <3>1. \A i \in 1 .. Len(s) : i + 1 \in K /\ p[i + 1] = i
      BY <1>3, <1>5
    <3> QED
      BY <3>1 DEF Went
  <2> QED
    BY <1>1, <2>1, CallersAre DEF Together, Results
<1>9. Paired(t)
  BY <1>4, <1>6, <1>7, <1>8, PairedMoves
<1>10. Prep!Prompted(s) = s \/ Prep!Prompted(s) = t
  BY DEF Prep!Prompted, t, m
<1> QED
  BY <1>9, <1>10

LEMMA WithUserPairs ==
  ASSUME NEW s, Paired(s), NEW kind
  PROVE  Paired(Prep!WithUser(kind, s))
<1> DEFINE m == Prep!Message("user", "continue")
           t == Append(s, m)
           K == 1 .. Len(s)
           p == [x \in K |-> x]
<1>1. s \in Talks /\ Shaped(s)
  BY DEF Paired, Used
<1>2. m \in Messages /\ m.role = "user" /\ m.calls = <<>>
  BY MessageIs DEF Words
<1> HIDE DEF m
<1>3. Len(s) \in Nat
  BY <1>1, TalkFacts
<1>4. /\ t \in Talks /\ Len(t) = Len(s) + 1 /\ t[Len(s) + 1] = m
      /\ \A x \in K : t[x] = s[x]
  BY <1>1, <1>2, AppendProperties DEF Talks
<1> HIDE DEF t
<1>5. /\ K \subseteq 1 .. Len(t) /\ p \in [K -> 1 .. Len(s)]
      /\ \A x \in K : p[x] = x
      /\ \A x \in 1 .. Len(t) : x \in K \/ x = Len(s) + 1
  BY <1>3, <1>4
<1> HIDE DEF p
<1>6. Moves(t, s, K, p)
  BY <1>2, <1>3, <1>4, <1>5 DEF Moves
<1>7. Whole(t, s, K, p)
  BY <1>3, <1>4 DEF Whole
<1>8. Together(s, K, p)
  <2>1. \A i \in 1 .. Len(s) : Went(K, p, i)
    BY <1>5 DEF Went
  <2> QED
    BY <1>1, <2>1, CallersAre DEF Together, Results
<1>9. Paired(t)
  BY <1>4, <1>6, <1>7, <1>8, PairedMoves
<1>10. Prep!WithUser(kind, s) = s \/ Prep!WithUser(kind, s) = t
  BY DEF Prep!WithUser, t, m
<1> QED
  BY <1>9, <1>10

(* an assistant's turn is only put where the results have ended              *)
LEMMA SeparatedPairs ==
  ASSUME NEW s, Paired(s), NEW kind
  PROVE  Paired(Prep!Separated(kind, s))
<1> DEFINE m == Prep!Message("assistant", "separator")
           n == Len(s)
           split  == {i \in 1 .. n - 1 : s[i].role = "tool" /\ s[i + 1].role = "user"}
           spaced == [k \in 1 .. 2 * n |-> IF k % 2 = 1 THEN s[(k + 1) \div 2] ELSE m]
           kept   == {k \in DOMAIN spaced : k % 2 = 1 \/ k \div 2 \in split}
           t      == Prep!Only(spaced, kept)
<1>1. s \in Talks /\ Shaped(s) /\ n \in Nat
  BY TalkFacts DEF Paired, Used
<1>2. m \in Messages /\ m.role = "assistant" /\ m.calls = <<>>
  BY MessageIs DEF Words
<1>3. Prep!Separated(kind, s) = s \/ Prep!Separated(kind, s) = t
  BY DEF Prep!Separated
<1> HIDE DEF m
<1>4. \A k \in 1 .. 2 * n :
        /\ k % 2 = 1 => (k + 1) \div 2 \in 1 .. n /\ k = 2 * ((k + 1) \div 2) - 1
        /\ k % 2 # 1 => k \div 2 \in 1 .. n /\ k = 2 * (k \div 2)
  BY <1>1
<1>5. \A k \in 1 .. 2 * n : spaced[k] \in Messages
  BY <1>1, <1>2, <1>4, TalkFacts
<1>6. spaced \in Talks /\ Len(spaced) = 2 * n /\ DOMAIN spaced = 1 .. 2 * n
  <2>1. DOMAIN spaced = 1 .. 2 * n /\ spaced = [k \in 1 .. 2 * n |-> spaced[k]] /\ 2 * n \in Nat
    BY <1>1
  <2> HIDE DEF spaced
  <2> QED
    BY <1>5, <2>1, MadeSequence DEF Talks
<1>7. \A k \in 1 .. 2 * n :
        /\ k % 2 = 1 => spaced[k] = s[(k + 1) \div 2]
        /\ k % 2 # 1 => spaced[k] = m
  OBVIOUS
<1>8. \A k \in 1 .. 2 * n : k \in kept <=> k % 2 = 1 \/ k \div 2 \in split
  BY <1>6
<1> HIDE DEF spaced, kept
<1>9. /\ t \in Talks
      /\ \E q \in [1 .. Len(t) -> 1 .. Len(spaced)] : Picked(t, spaced, kept, Len(spaced), q)
  BY <1>6, OnlyPicked DEF Talks
<1> HIDE DEF t
<1>10. PICK q \in [1 .. Len(t) -> 1 .. 2 * n] : Picked(t, spaced, kept, 2 * n, q)
  BY <1>6, <1>9
<1> DEFINE K == {x \in 1 .. Len(t) : q[x] % 2 = 1}
           p == [x \in K |-> (q[x] + 1) \div 2]
<1>11. /\ \A x \in 1 .. Len(t) : q[x] \in 1 .. 2 * n /\ q[x] \in kept /\ t[x] = spaced[q[x]]
       /\ \A x, y \in 1 .. Len(t) : x < y => q[x] < q[y]
       /\ \A k \in 1 .. 2 * n : k \in kept => \E x \in 1 .. Len(t) : q[x] = k
  BY <1>10 DEF Picked
<1>12. \A x \in K : /\ x \in 1 .. Len(t) /\ p[x] \in 1 .. n /\ q[x] = 2 * p[x] - 1
                    /\ t[x] = s[p[x]]
  BY <1>4, <1>7, <1>11
<1>13. \A x \in (1 .. Len(t)) \ K :
         /\ t[x] = m /\ q[x] = 2 * (q[x] \div 2) /\ q[x] \div 2 \in split
  BY <1>4, <1>7, <1>8, <1>11
<1>14. K \subseteq 1 .. Len(t) /\ p \in [K -> 1 .. n]
  BY <1>12
<1> HIDE DEF K, p
<1>15. Moves(t, s, K, p)
  <2>1. ASSUME NEW x \in K, NEW y \in K, x < y PROVE p[x] < p[y]
    <3>1. q[x] < q[y]
      BY <1>11, <1>12, <2>1
    <3>2. p[x] \in 1 .. n /\ p[y] \in 1 .. n /\ 2 * p[x] - 1 < 2 * p[y] - 1
      BY <1>12, <3>1
    <3>3. p[x] \in Int /\ p[y] \in Int
      BY <3>2
    <3> QED
      BY <3>2, <3>3
  <2> QED
    BY <1>2, <1>12, <1>13, <1>14, <2>1 DEF Moves
<1>16. Whole(t, s, K, p)
  <2>1. SUFFICES ASSUME NEW x \in K, NEW y \in K, x < y, Between(s, p[x], p[y]),
                        NEW z \in x + 1 .. y, z \notin K
                 PROVE  FALSE
    BY DEF Whole
  <2> DEFINE i == q[z] \div 2
  <2>2. x \in 1 .. Len(t) /\ y \in 1 .. Len(t) /\ Len(t) \in Nat
    BY <1>9, <1>12, TalkFacts
  <2>3. z \in 1 .. Len(t) /\ x < z /\ z < y
    BY <2>1, <2>2
  <2>4. q[z] = 2 * i /\ i \in split /\ q[x] < q[z] /\ q[z] < q[y]
    BY <1>11, <1>13, <2>1, <2>2, <2>3
  <2>5. q[x] = 2 * p[x] - 1 /\ q[y] = 2 * p[y] - 1 /\ p[x] \in 1 .. n /\ p[y] \in 1 .. n
    BY <1>12
  <2>6. i \in 1 .. n - 1 /\ s[i + 1].role = "user"
    BY <2>4
  <2> HIDE DEF i, split
  <2>7. i + 1 \in p[x] + 1 .. p[y]
    <3>1. i \in Int /\ p[x] \in Int /\ p[y] \in Int
      BY <2>5, <2>6
    <3>2. 2 * p[x] - 1 < 2 * i /\ 2 * i < 2 * p[y] - 1
      BY <2>4, <2>5
    <3> QED
      BY <3>1, <3>2
  <2> QED
    BY <2>1, <2>6, <2>7 DEF Between, Tool
<1>17. Together(s, K, p)
  <2>1. ASSUME NEW i \in 1 .. n PROVE Went(K, p, i)
    <3> DEFINE k == 2 * i - 1
    <3>1. k \in 1 .. 2 * n /\ k % 2 = 1 /\ (k + 1) \div 2 = i
      BY <1>1
    <3>2. PICK x \in 1 .. Len(t) : q[x] = k
      BY <1>8, <1>11, <3>1
    <3>3. x \in K /\ p[x] = i
      BY <3>1, <3>2 DEF K, p
    <3> QED
      BY <3>3 DEF Went
  <2> QED
    BY <1>1, <2>1, CallersAre DEF Together, Results
<1>18. Paired(t)
  BY <1>9, <1>15, <1>16, <1>17, PairedMoves
<1> QED
  BY <1>3, <1>18

Warns(s) == s \in Talks /\ \E i \in 1 .. Len(s) : s[i].text[1] = "warning"

(* a read that is repeated has one result, right behind it                   *)
LEMMA RepeatedAre ==
  ASSUME NEW s, Paired(s), NEW i \in Prep!Repeated(s)
  PROVE  /\ i \in 1 .. Len(s) /\ <<i, 1>> \in Called(s)
         /\ \A c : <<i, c>> \in Called(s) => c = 1
         /\ i + 1 \in Results(s) /\ Answers(s, i + 1, <<i, 1>>)
         /\ Prep!Earliest(Prep!Found(s, i)) = {i + 1}
<1>1. s \in Talks /\ Used(s) /\ Answered(s) /\ Asked(s) /\ Shaped(s)
  BY DEF Paired, Used
<1>2. i \in 1 .. Len(s) /\ Len(s[i].calls) = 1
  BY <1>1, TalkFacts DEF Prep!Repeated, Prep!Reads
<1> DEFINE x == <<i, 1>>
<1>3. x \in Called(s) /\ \A c : <<i, c>> \in Called(s) => c = 1
  <2>1. 1 \in 1 .. Len(s[i].calls)
    BY <1>2
  <2>2. \A c : <<i, c>> \in Called(s) => c \in 1 .. 1
    BY <1>2 DEF Called
  <2> QED
    BY <1>1, <1>2, <2>1, <2>2, CalledFacts
<1>4. x[1] = i /\ i \in Nat /\ Len(s) \in Nat
  BY <1>1, <1>2, TalkFacts
<1>5. i \notin Results(s)
  BY <1>1, <1>3, <1>4, CallersAre
<1> HIDE DEF x
<1>6. PICK j \in i + 1 .. Len(s) : Answers(s, j, x) /\ Between(s, i, j)
  BY <1>1, <1>3, <1>4 DEF Answered
<1>7. i + 1 \in Results(s)
  BY <1>4, <1>6 DEF Between, Results, Tool
<1>8. PICK y \in Called(s) : Answers(s, i + 1, y)
  BY <1>1, <1>7 DEF Asked
<1>9. y[1] = i
  <2>1. PICK k \in y[1] + 1 .. Len(s) : Answers(s, k, y) /\ Between(s, y[1], k)
    BY <1>1, <1>8 DEF Answered
  <2>2. k = i + 1
    <3>1. s[k].for = s[i + 1].for /\ s[k].for[2] # 0 /\ k \in Results(s)
      BY <1>1, <1>8, <2>1 DEF Answers, Used
    <3> QED
      BY <1>1, <1>7, <3>1 DEF Used
  <2>3. y[1] \in 1 .. Len(s) /\ y[1] <= i
    BY <1>1, <1>4, <2>1, <2>2, CallersAre
  <2>4. ~(y[1] < i)
    <3>1. ASSUME y[1] < i PROVE FALSE
      <4>1. i \in y[1] + 1 .. k
        BY <1>4, <2>2, <2>3, <3>1
      <4>2. Tool(s, i)
        BY <2>1, <4>1 DEF Between
      <4> QED
        BY <1>2, <1>5, <4>2 DEF Results
    <3> QED
      BY <3>1
  <2> QED
    BY <1>4, <2>3, <2>4
<1>10. y = x
  <2>1. y = <<y[1], y[2]>>
    BY <1>1, CallersAre
  <2> QED
    BY <1>3, <1>8, <1>9, <2>1 DEF x
<1>11. Answers(s, i + 1, x)
  BY <1>8, <1>10
<1>12. IdAt(s, x) = s[i].calls[1].id /\ IdAt(s, x)[2] # 0
  <2>1. IdAt(s, x) = s[i].calls[1].id
    BY DEF IdAt, x
  <2> QED
    BY <1>1, <1>3, <2>1 DEF Used
<1>13. Prep!Found(s, i) = {i + 1}
  <2>1. i + 1 \in Prep!Found(s, i)
    BY <1>4, <1>7, <1>11, <1>12 DEF Prep!Found, Answers, Results, Tool
  <2>2. ASSUME NEW j1 \in Prep!Found(s, i) PROVE j1 = i + 1
    <3>1. j1 \in Results(s) /\ s[j1].for = IdAt(s, x)
      BY <1>4, <1>12, <2>2 DEF Prep!Found, Results, Tool
    <3> QED
      BY <1>1, <1>7, <1>11, <1>12, <3>1 DEF Used, Answers
  <2> QED
    BY <2>1, <2>2
<1>14. Prep!Earliest(Prep!Found(s, i)) = {i + 1}
  BY <1>4, <1>13 DEF Prep!Earliest
<1> QED
  BY <1>2, <1>3, <1>7, <1>11, <1>14 DEF x

LEMMA DoubledIs ==
  ASSUME NEW s, Paired(s), NEW d
  PROVE  d \in Prep!Doubled(s) <=>
           \/ d \in Prep!Repeated(s)
           \/ \E i \in Prep!Repeated(s) : d = i + 1
<1>1. \A i \in Prep!Repeated(s) : Prep!Earliest(Prep!Found(s, i)) = {i + 1}
  BY RepeatedAre
<1>2. d \in UNION {Prep!Earliest(Prep!Found(s, i)) : i \in Prep!Repeated(s)} <=>
        \E i \in Prep!Repeated(s) : d = i + 1
  BY <1>1
<1> QED
  BY <1>2 DEF Prep!Doubled

LEMMA DoubledTogether ==
  ASSUME NEW s, Paired(s), NEW x \in Called(s), NEW j \in Results(s), Answers(s, j, x)
  PROVE  x[1] \in Prep!Doubled(s) <=> j \in Prep!Doubled(s)
<1>1. s \in Talks /\ Used(s) /\ Shaped(s)
  BY DEF Paired, Used
<1>2. x = <<x[1], x[2]>> /\ x[1] \notin Results(s)
  BY <1>1, CallersAre
<1>3. \A i \in Prep!Repeated(s) :
        /\ <<i, 1>> \in Called(s) /\ i + 1 \in Results(s) /\ Answers(s, i + 1, <<i, 1>>)
        /\ \A c : <<i, c>> \in Called(s) => c = 1
        /\ i \notin Results(s)
  <2>1. ASSUME NEW i \in Prep!Repeated(s) PROVE i \notin Results(s)
    <3>1. <<i, 1>> \in Called(s) /\ <<i, 1>>[1] = i
      BY RepeatedAre
    <3> QED
      BY <1>1, <3>1, CallersAre
  <2> QED
    BY <2>1, RepeatedAre
<1>4. ASSUME x[1] \in Prep!Doubled(s) PROVE j \in Prep!Doubled(s)
  <2>1. x[1] \in Prep!Repeated(s)
    <3> DEFINE d == x[1]
    <3>1. d \notin Results(s) /\ d \in Prep!Doubled(s)
      BY <1>2, <1>4
    <3> HIDE DEF d
    <3>2. d \in Prep!Repeated(s) \/ \E i \in Prep!Repeated(s) : d = i + 1
      BY <3>1, DoubledIs
    <3> QED
      BY <1>3, <3>1, <3>2 DEF d
  <2>2. x = <<x[1], 1>>
    BY <1>2, <1>3, <2>1
  <2>3. Answers(s, x[1] + 1, x) /\ x[1] + 1 \in Results(s)
    BY <1>3, <2>1, <2>2
  <2>4. j = x[1] + 1
    BY <1>1, <2>3 DEF Answers, Used
  <2> QED
    BY <2>1, <2>4, DoubledIs
<1>5. ASSUME j \in Prep!Doubled(s) PROVE x[1] \in Prep!Doubled(s)
  <2>1. PICK i \in Prep!Repeated(s) : j = i + 1
    BY <1>3, <1>5, DoubledIs
  <2>2. Answers(s, j, <<i, 1>>) /\ <<i, 1>> \in Called(s)
    BY <1>3, <2>1
  <2>3. x = <<i, 1>>
    BY <1>1, <2>2 DEF Answers, Used
  <2>4. x[1] = i
    BY <2>3
  <2> QED
    BY <2>1, <2>4, DoubledIs
<1> QED
  BY <1>4, <1>5

LEMMA InsertedAt ==
  ASSUME NEW S, NEW s \in Seq(S), NEW m \in S, NEW n \in 1 .. Len(s)
  PROVE  LET t == Prep!InsertAt(s, n, m)
         IN t \in Seq(S) /\ n \in 1 .. Len(t) /\ t[n] = m
<1> DEFINE a == SubSeq(s, 1, n - 1)
           b == SubSeq(s, n, Len(s))
           c == a \o <<m>>
<1>1. Len(s) \in Nat /\ n \in Nat
  BY LenProperties
<1>2. a \in Seq(S) /\ Len(a) = n - 1
  BY <1>1, SubSeqProperties
<1>3. b \in Seq(S) /\ Len(b) \in Nat
  BY <1>1, SubSeqProperties, LenProperties
<1> HIDE DEF a, b
<1>4. <<m>> \in Seq(S) /\ Len(<<m>>) = 1 /\ <<m>>[1] = m
  OBVIOUS
<1>5. c \in Seq(S) /\ Len(c) = n /\ c[n] = m
  BY <1>1, <1>2, <1>4, ConcatProperties
<1> HIDE DEF c
<1>6. (c \o b) \in Seq(S) /\ Len(c \o b) = n + Len(b) /\ (c \o b)[n] = m
  BY <1>1, <1>3, <1>5, ConcatProperties
<1>7. Prep!InsertAt(s, n, m) = c \o b
  BY DEF Prep!InsertAt, c, a, b
<1> QED
  BY <1>1, <1>3, <1>6, <1>7

(* reads that repeat are taken out with their results, unless a warning has  *)
(* come between                                                              *)
LEMMA UnloopedPairs ==
  ASSUME NEW s, Paired(s)
  PROVE  Paired(Prep!Unlooped(s)) \/ Warns(Prep!Unlooped(s))
<1>1. s \in Talks /\ Used(s) /\ Shaped(s)
  BY DEF Paired, Used
<1> DEFINE users == {i \in DOMAIN s : s[i].role = "user"}
           n == CHOOSE i \in users : \A j \in users : j <= i
           m == Prep!Message("assistant", "warning")
           gone == Prep!Doubled(s)
<1>2. CASE Prep!Warned(s) = s
  <2>1. Paired(Prep!Without(s, gone))
    BY DoubledTogether, WithoutPairs
  <2> QED
    BY <1>2, <2>1 DEF Prep!Unlooped
<1>3. CASE Prep!Warned(s) # s
  <2>1. Prep!Warned(s) = Prep!InsertAt(s, n, m) /\ users # {}
    BY <1>3 DEF Prep!Warned
  <2>2. users \in SUBSET (1 .. Len(s)) /\ Len(s) \in Nat
    BY <1>1, TalkFacts
  <2>3. n \in users
    <3>1. \E i \in users : \A j \in users : j <= i
      <4> HIDE DEF users
      <4> QED
        BY <2>1, <2>2, MaxIn
    <3> HIDE DEF users
    <3> QED
      BY <3>1
  <2>4. n \in 1 .. Len(s) /\ s[n].role = "user"
    BY <2>2, <2>3
  <2> HIDE DEF n, users
  <2>5. m \in Messages /\ m.text[1] = "warning"
    BY MessageIs DEF Words
  <2> HIDE DEF m
  <2> DEFINE t == Prep!InsertAt(s, n, m)
  <2>6. t \in Talks /\ n \in 1 .. Len(t) /\ t[n] = m
    BY <1>1, <2>4, <2>5, InsertedAt DEF Talks
  <2> HIDE DEF t
  <2>7. n \notin gone
    <3>1. n \notin Prep!Repeated(s)
      <4>1. ASSUME n \in Prep!Repeated(s) PROVE FALSE
        <5>1. <<n, 1>> \in Called(s) /\ <<n, 1>>[1] = n
          BY <4>1, RepeatedAre
        <5> QED
          BY <1>1, <2>4, <5>1, CallersAre
      <4> QED
        BY <4>1
    <3>2. \A i \in Prep!Repeated(s) : n # i + 1
      BY <2>4, RepeatedAre DEF Results, Tool
    <3> QED
      BY <3>1, <3>2, DoubledIs
  <2> DEFINE u == Prep!Without(t, gone)
  <2>8. u \in Talks /\ \E p \in [1 .. Len(u) -> 1 .. Len(t)] :
          /\ \A i \in 1 .. Len(t) : Went(1 .. Len(u), p, i) <=> i \notin gone
          /\ \A x \in 1 .. Len(u) : u[x] = t[p[x]]
    BY <2>6, WithoutMoves
  <2> HIDE DEF u, gone
  <2>9. \E x \in 1 .. Len(u) : u[x].text[1] = "warning"
    BY <2>5, <2>6, <2>7, <2>8 DEF Went
  <2>10. Prep!Unlooped(s) = u
    BY <2>1 DEF Prep!Unlooped, u, t, gone
  <2> QED
    BY <2>8, <2>9, <2>10 DEF Warns
<1> QED
  BY <1>2, <1>3

LEMMA WithoutWarns ==
  ASSUME NEW s, Warns(s), NEW gone,
         \E i \in 1 .. Len(s) : i \notin gone /\ s[i].text[1] = "warning"
  PROVE  Warns(Prep!Without(s, gone))
<1> DEFINE t == Prep!Without(s, gone)
<1>1. s \in Talks
  BY DEF Warns
<1>2. t \in Talks /\ \E p \in [1 .. Len(t) -> 1 .. Len(s)] :
        /\ \A i \in 1 .. Len(s) : Went(1 .. Len(t), p, i) <=> i \notin gone
        /\ \A x \in 1 .. Len(t) : t[x] = s[p[x]]
  <2>1. t \in Talks /\ \E p \in [1 .. Len(t) -> 1 .. Len(s)] :
          /\ Moves(t, s, 1 .. Len(t), p) /\ Whole(t, s, 1 .. Len(t), p)
          /\ \A i \in 1 .. Len(s) : Went(1 .. Len(t), p, i) <=> i \notin gone
          /\ \A x \in 1 .. Len(t) : t[x] = s[p[x]]
    BY <1>1, WithoutMoves, Zenon
  <2> HIDE DEF t
  <2> QED
    BY <2>1, Zenon
<1> HIDE DEF t
<1>3. \E x \in 1 .. Len(t) : t[x].text[1] = "warning"
  BY <1>2 DEF Went
<1>4. Warns(t)
  BY <1>2, <1>3 DEF Warns
<1> QED
  BY <1>4 DEF t

LEMMA CleanedWarns ==
  ASSUME NEW s, Warns(s)
  PROVE  Warns(Prep!Cleaned(s))
<1> DEFINE gone == {i \in DOMAIN s : s[i].role = "assistant" /\ s[i].calls = <<>>
                                     /\ s[i].text = Prep!Silent}
<1>1. Prep!Cleaned(s) = Prep!Without(s, gone)
  BY DEF Prep!Cleaned
<1>2. \A i \in gone : s[i].text[1] # "warning"
  <2>1. Prep!Silent[1] = "none"
    BY DEF Prep!Silent, Prep!Text
  <2> QED
    BY <2>1
<1> HIDE DEF gone
<1> QED
  BY <1>1, <1>2, WithoutWarns DEF Warns

LEMMA WithUserWarns ==
  ASSUME NEW s, Warns(s), NEW kind
  PROVE  Warns(Prep!WithUser(kind, s))
<1> DEFINE m == Prep!Message("user", "continue")
           t == Append(s, m)
<1>1. s \in Talks /\ Len(s) \in Nat
  BY TalkFacts DEF Warns
<1>2. m \in Messages
  BY MessageIs DEF Words
<1> HIDE DEF m
<1>3. /\ t \in Talks /\ Len(t) = Len(s) + 1
      /\ \A x \in 1 .. Len(s) : t[x] = s[x]
  BY <1>1, <1>2, AppendProperties DEF Talks
<1> HIDE DEF t
<1>4. Warns(t)
  BY <1>1, <1>3 DEF Warns
<1>5. Prep!WithUser(kind, s) = s \/ Prep!WithUser(kind, s) = t
  BY DEF Prep!WithUser, t, m
<1> QED
  BY <1>4, <1>5

LEMMA SeparatedWarns ==
  ASSUME NEW s, Warns(s), NEW kind
  PROVE  Warns(Prep!Separated(kind, s))
<1> DEFINE m == Prep!Message("assistant", "separator")
           n == Len(s)
           split  == {i \in 1 .. n - 1 : s[i].role = "tool" /\ s[i + 1].role = "user"}
           spaced == [k \in 1 .. 2 * n |-> IF k % 2 = 1 THEN s[(k + 1) \div 2] ELSE m]
           kept   == {k \in DOMAIN spaced : k % 2 = 1 \/ k \div 2 \in split}
           t      == Prep!Only(spaced, kept)
<1>1. s \in Talks /\ n \in Nat
  BY TalkFacts DEF Warns
<1>2. m \in Messages
  BY MessageIs DEF Words
<1>3. Prep!Separated(kind, s) = s \/ Prep!Separated(kind, s) = t
  BY DEF Prep!Separated
<1> HIDE DEF m
<1>4. \A k \in 1 .. 2 * n :
        /\ k % 2 = 1 => (k + 1) \div 2 \in 1 .. n
        /\ k % 2 # 1 => k \div 2 \in 1 .. n
  BY <1>1
<1>5. \A k \in 1 .. 2 * n : spaced[k] \in Messages
  BY <1>1, <1>2, <1>4, TalkFacts
<1>6. spaced \in Talks /\ Len(spaced) = 2 * n /\ DOMAIN spaced = 1 .. 2 * n
  <2>1. DOMAIN spaced = 1 .. 2 * n /\ spaced = [k \in 1 .. 2 * n |-> spaced[k]] /\ 2 * n \in Nat
    BY <1>1
  <2> HIDE DEF spaced
  <2> QED
    BY <1>5, <2>1, MadeSequence DEF Talks
<1>7. \A k \in 1 .. 2 * n : k % 2 = 1 => spaced[k] = s[(k + 1) \div 2] /\ k \in kept
  BY <1>6
<1> HIDE DEF spaced, kept
<1>8. t \in Talks /\ \E p \in [1 .. Len(t) -> 1 .. 2 * n] :
        /\ \A i \in 1 .. 2 * n : Went(1 .. Len(t), p, i) <=> i \in kept
        /\ \A x \in 1 .. Len(t) : t[x] = spaced[p[x]]
  BY <1>6, OnlyMoves
<1> HIDE DEF t
<1>9. PICK i \in 1 .. n : s[i].text[1] = "warning"
  BY DEF Warns
<1> DEFINE k == 2 * i - 1
<1>10. k \in 1 .. 2 * n /\ k % 2 = 1 /\ (k + 1) \div 2 = i
  BY <1>1
<1> HIDE DEF k
<1>11. spaced[k] = s[i] /\ k \in kept
  BY <1>7, <1>10
<1>12. \E x \in 1 .. Len(t) : t[x] = spaced[k]
  BY <1>8, <1>10, <1>11 DEF Went
<1>13. Warns(t)
  BY <1>8, <1>9, <1>11, <1>12 DEF Warns
<1> QED
  BY <1>3, <1>13

LEMMA UndoubledWarns ==
  ASSUME NEW s, Warns(s)
  PROVE  Warns(Prep!Undoubled(s))
<1> DEFINE gone == {i \in 2 .. Len(s) :
                     /\ s[i].role = s[i - 1].role /\ s[i].text = s[i - 1].text
                     /\ Prep!Plain(s[i]) /\ Prep!Plain(s[i - 1])}
           W == {i \in 1 .. Len(s) : s[i].text[1] = "warning"}
<1>1. s \in Talks /\ Len(s) \in Nat
  BY TalkFacts DEF Warns
<1>2. W \in SUBSET Nat /\ W # {}
  BY <1>1 DEF Warns
<1>3. PICK i \in W : \A k \in W : i <= k
  <2> HIDE DEF W
  <2> QED
    BY <1>2, LeastNat
<1>4. i \in 1 .. Len(s) /\ s[i].text[1] = "warning"
  OBVIOUS
<1>5. i \notin gone
  <2>1. ASSUME i \in gone PROVE FALSE
    <3>1. i \in 2 .. Len(s) /\ s[i].text = s[i - 1].text
      BY <2>1
    <3>2. i - 1 \in 1 .. Len(s)
      BY <1>1, <3>1
    <3>3. i - 1 \in W
      BY <1>4, <3>1, <3>2
    <3> HIDE DEF W
    <3> QED
      BY <1>1, <1>3, <1>4, <3>3
  <2> QED
    BY <2>1
<1>6. Prep!Undoubled(s) = s \/ Prep!Undoubled(s) = Prep!Without(s, gone)
  BY DEF Prep!Undoubled
<1> HIDE DEF gone, W
<1>7. Warns(Prep!Without(s, gone))
  BY <1>4, <1>5, WithoutWarns
<1> QED
  BY <1>6, <1>7

(* what becomes of a conversation whose calls and results are linked         *)
LEMMA ArrangedPairs ==
  ASSUME NEW s, Paired(s), NEW kind,
         NEW t, t = Prep!Undoubled(Prep!Separated(kind, Prep!WithUser(kind,
                      Prep!Cleaned(Prep!Unlooped(Prep!Flattened(kind, Prep!Prompted(s)))))))
  PROVE  Paired(t) \/ Warns(t)
<1> DEFINE a == Prep!Flattened(kind, Prep!Prompted(s))
           b == Prep!Unlooped(a)
           c == Prep!Cleaned(b)
           d == Prep!WithUser(kind, c)
           e == Prep!Separated(kind, d)
<1>1. Paired(a)
  BY PromptedPairs, FlattenedPairs
<1> HIDE DEF a
<1>2. Paired(b) \/ Warns(b)
  BY <1>1, UnloopedPairs
<1> HIDE DEF b
<1>3. Paired(c) \/ Warns(c)
  BY <1>2, CleanedPairs, CleanedWarns
<1> HIDE DEF c
<1>4. Paired(d) \/ Warns(d)
  BY <1>3, WithUserPairs, WithUserWarns
<1> HIDE DEF d
<1>5. Paired(e) \/ Warns(e)
  BY <1>4, SeparatedPairs, SeparatedWarns
<1> HIDE DEF e
<1>6. Paired(Prep!Undoubled(e)) \/ Warns(Prep!Undoubled(e))
  BY <1>5, UndoubledPairs, UndoubledWarns
<1> QED
  BY <1>6 DEF a, b, c, d, e

-----------------------------------------------------------------------------
(***************************************************************************)
(* Linkage: the ids are made short, and of the calls and results those stay *)
(* that answer each other.                                                 *)
(***************************************************************************)

(* message m came from n: it may have lost calls *)
Stems(m, n) ==
  /\ m.at = n.at /\ m.role = n.role /\ m.for = n.for
  /\ \E q \in [1 .. Len(m.calls) -> 1 .. Len(n.calls)] :
       /\ \A c \in 1 .. Len(m.calls) : m.calls[c] = n.calls[q[c]]
       /\ \A c, d \in 1 .. Len(m.calls) : q[c] = q[d] => c = d

(* t came from s: it may have lost messages *)
Derived(t, s) ==
  \E p \in [1 .. Len(t) -> 1 .. Len(s)] :
    /\ \A x \in 1 .. Len(t) : Stems(t[x], s[p[x]])
    /\ \A x, y \in 1 .. Len(t) : p[x] = p[y] => x = y

LEMMA StemsSame ==
  ASSUME NEW m \in Messages, NEW n \in Messages,
         m.at = n.at, m.role = n.role, m.for = n.for, m.calls = n.calls
  PROVE  Stems(m, n)
<1> DEFINE q == [c \in 1 .. Len(n.calls) |-> c]
<1>1. q \in [1 .. Len(m.calls) -> 1 .. Len(n.calls)]
  OBVIOUS
<1> QED
  BY <1>1 DEF Stems

LEMMA StemsOn ==
  ASSUME NEW l, NEW m, NEW n, Stems(l, m), Stems(m, n)
  PROVE  Stems(l, n)
<1>1. PICK q \in [1 .. Len(l.calls) -> 1 .. Len(m.calls)] :
        /\ \A c \in 1 .. Len(l.calls) : l.calls[c] = m.calls[q[c]]
        /\ \A c, d \in 1 .. Len(l.calls) : q[c] = q[d] => c = d
  BY DEF Stems
<1>2. PICK r \in [1 .. Len(m.calls) -> 1 .. Len(n.calls)] :
        /\ \A c \in 1 .. Len(m.calls) : m.calls[c] = n.calls[r[c]]
        /\ \A c, d \in 1 .. Len(m.calls) : r[c] = r[d] => c = d
  BY DEF Stems
<1> DEFINE z == [c \in 1 .. Len(l.calls) |-> r[q[c]]]
<1>3. z \in [1 .. Len(l.calls) -> 1 .. Len(n.calls)]
  BY <1>1, <1>2
<1>4. \A c \in 1 .. Len(l.calls) : z[c] = r[q[c]] /\ q[c] \in 1 .. Len(m.calls)
  BY <1>1
<1> HIDE DEF z
<1>5. ASSUME NEW c \in 1 .. Len(l.calls) PROVE l.calls[c] = n.calls[z[c]]
  <2>1. l.calls[c] = m.calls[q[c]]
    BY <1>1
  <2>2. m.calls[q[c]] = n.calls[r[q[c]]]
    BY <1>2, <1>4
  <2> QED
    BY <1>4, <2>1, <2>2
<1>6. ASSUME NEW c \in 1 .. Len(l.calls), NEW d \in 1 .. Len(l.calls), z[c] = z[d]
      PROVE  c = d
  <2>1. r[q[c]] = r[q[d]]
    BY <1>4, <1>6
  <2>2. q[c] = q[d]
    BY <1>2, <1>4, <2>1
  <2> QED
    BY <1>1, <2>2
<1>7. l.at = n.at /\ l.role = n.role /\ l.for = n.for
  BY DEF Stems
<1> QED
  BY <1>3, <1>5, <1>6, <1>7 DEF Stems

LEMMA DerivedOn ==
  ASSUME NEW u, NEW t, NEW s, Derived(u, t), Derived(t, s)
  PROVE  Derived(u, s)
<1>1. PICK p \in [1 .. Len(u) -> 1 .. Len(t)] :
        /\ \A x \in 1 .. Len(u) : Stems(u[x], t[p[x]])
        /\ \A x, y \in 1 .. Len(u) : p[x] = p[y] => x = y
  BY DEF Derived
<1>2. PICK r \in [1 .. Len(t) -> 1 .. Len(s)] :
        /\ \A x \in 1 .. Len(t) : Stems(t[x], s[r[x]])
        /\ \A x, y \in 1 .. Len(t) : r[x] = r[y] => x = y
  BY DEF Derived
<1> DEFINE z == [x \in 1 .. Len(u) |-> r[p[x]]]
<1>3. z \in [1 .. Len(u) -> 1 .. Len(s)]
  BY <1>1, <1>2
<1>4. \A x \in 1 .. Len(u) : z[x] = r[p[x]] /\ p[x] \in 1 .. Len(t)
  BY <1>1
<1> HIDE DEF z
<1>5. \A x \in 1 .. Len(u) : Stems(u[x], s[z[x]])
  <2>1. ASSUME NEW x \in 1 .. Len(u) PROVE Stems(u[x], s[z[x]])
    <3>1. Stems(u[x], t[p[x]]) /\ Stems(t[p[x]], s[z[x]])
      BY <1>1, <1>2, <1>4
    <3> QED
      BY <3>1, StemsOn
  <2> QED
    BY <2>1
<1>6. \A x, y \in 1 .. Len(u) : z[x] = z[y] => x = y
  BY <1>1, <1>2, <1>4
<1> QED
  BY <1>3, <1>5, <1>6 DEF Derived

LEMMA UsedDerived ==
  ASSUME NEW s \in Talks, NEW t \in Talks, Used(s), Derived(t, s)
  PROVE  Used(t)
<1>1. PICK p \in [1 .. Len(t) -> 1 .. Len(s)] :
        /\ \A x \in 1 .. Len(t) : Stems(t[x], s[p[x]])
        /\ \A x, y \in 1 .. Len(t) : p[x] = p[y] => x = y
  BY DEF Derived
<1>2. \A x \in 1 .. Len(t) :
        p[x] \in 1 .. Len(s) /\ t[x].role = s[p[x]].role /\ t[x].for = s[p[x]].for
  BY <1>1 DEF Stems
<1>3. Shaped(t)
  <2>1. ASSUME NEW i \in 1 .. Len(t), t[i].calls # <<>> PROVE t[i].role = "assistant"
    <3>1. PICK q \in [1 .. Len(t[i].calls) -> 1 .. Len(s[p[i]].calls)] : TRUE
      BY <1>1 DEF Stems
    <3>2. 1 \in 1 .. Len(t[i].calls)
      BY <2>1, TalkFacts
    <3>3. Len(s[p[i]].calls) # 0
      <4>1. q[1] \in 1 .. Len(s[p[i]].calls)
        BY <3>1, <3>2
      <4> QED
        BY <4>1
    <3>4. s[p[i]].calls # <<>>
      BY <1>2, <3>3, TalkFacts
    <3> QED
      BY <1>2, <3>4 DEF Used, Shaped
  <2> QED
    BY <2>1 DEF Shaped
<1>4. ASSUME NEW u \in Called(t)
      PROVE  \E w \in Called(s) : w[1] = p[u[1]] /\ IdAt(t, u) = IdAt(s, w)
  <2>1. u[1] \in 1 .. Len(t) /\ u[2] \in 1 .. Len(t[u[1]].calls) /\ u = <<u[1], u[2]>>
    BY <1>3, CallersAre
  <2>2. PICK q \in [1 .. Len(t[u[1]].calls) -> 1 .. Len(s[p[u[1]]].calls)] :
          \A c \in 1 .. Len(t[u[1]].calls) : t[u[1]].calls[c] = s[p[u[1]]].calls[q[c]]
    BY <1>1, <2>1 DEF Stems
  <2> DEFINE w == <<p[u[1]], q[u[2]]>>
  <2>3. w \in Called(s)
    BY <1>2, <2>1, <2>2, CalledFacts
  <2>4. IdAt(t, u) = IdAt(s, w)
    BY <2>1, <2>2 DEF IdAt
  <2> QED
    BY <2>3, <2>4
<1>5. ASSUME NEW u \in Called(t) PROVE IdAt(t, u)[2] # 0
  <2>1. PICK w \in Called(s) : IdAt(t, u) = IdAt(s, w)
    BY <1>4
  <2> QED
    BY <2>1 DEF Used
<1>6. ASSUME NEW u \in Called(t), NEW v \in Called(t), IdAt(t, u) = IdAt(t, v)
      PROVE  u = v
  <2>1. /\ u[1] \in 1 .. Len(t) /\ u[2] \in 1 .. Len(t[u[1]].calls) /\ u = <<u[1], u[2]>>
        /\ v[1] \in 1 .. Len(t) /\ v[2] \in 1 .. Len(t[v[1]].calls) /\ v = <<v[1], v[2]>>
    BY <1>3, CallersAre
  <2>2. u[1] = v[1]
    <3>1. PICK w \in Called(s) : w[1] = p[u[1]] /\ IdAt(t, u) = IdAt(s, w)
      BY <1>4
    <3>2. PICK z \in Called(s) : z[1] = p[v[1]] /\ IdAt(t, v) = IdAt(s, z)
      BY <1>4
    <3>3. w = z
      BY <1>6, <3>1, <3>2 DEF Used
    <3> QED
      BY <1>1, <2>1, <3>1, <3>2, <3>3
  <2> DEFINE i == u[1]
             j == p[i]
  <2>3. PICK q \in [1 .. Len(t[i].calls) -> 1 .. Len(s[j].calls)] :
          /\ \A c \in 1 .. Len(t[i].calls) : t[i].calls[c] = s[j].calls[q[c]]
          /\ \A c, d \in 1 .. Len(t[i].calls) : q[c] = q[d] => c = d
    BY <1>1, <2>1 DEF Stems
  <2>4. <<j, q[u[2]]>> \in Called(s) /\ <<j, q[v[2]]>> \in Called(s)
    BY <1>2, <2>1, <2>2, <2>3, CalledFacts
  <2>5. IdAt(t, u) = IdAt(s, <<j, q[u[2]]>>) /\ IdAt(t, v) = IdAt(s, <<j, q[v[2]]>>)
    BY <2>1, <2>2, <2>3 DEF IdAt
  <2>6. <<j, q[u[2]]>> = <<j, q[v[2]]>>
    BY <1>6, <2>4, <2>5 DEF Used
  <2>7. q[u[2]] = q[v[2]]
    BY <2>6
  <2>8. u[2] = v[2]
    BY <2>1, <2>2, <2>3, <2>7
  <2> QED
    BY <2>1, <2>2, <2>8
<1>7. ASSUME NEW i \in Results(t), NEW j \in Results(t), t[i].for = t[j].for, t[i].for[2] # 0
      PROVE  i = j
  <2>1. /\ i \in 1 .. Len(t) /\ j \in 1 .. Len(t) /\ p[i] \in Results(s) /\ p[j] \in Results(s)
        /\ t[i].for = s[p[i]].for /\ t[j].for = s[p[j]].for
    BY <1>2 DEF Results, Tool
  <2>2. p[i] = p[j]
    BY <1>7, <2>1 DEF Used
  <2> QED
    BY <1>1, <2>1, <2>2
<1> QED
  BY <1>3, <1>5, <1>6, <1>7 DEF Used

LEMMA OnlyDerives ==
  ASSUME NEW s \in Talks, NEW kept
  PROVE  Prep!Only(s, kept) \in Talks /\ Derived(Prep!Only(s, kept), s)
<1> DEFINE t == Prep!Only(s, kept)
<1>1. t \in Talks /\ \E p \in [1 .. Len(t) -> 1 .. Len(s)] :
        Picked(t, s, kept, Len(s), p)
  BY OnlyPicked DEF Talks
<1> HIDE DEF t
<1>2. PICK p \in [1 .. Len(t) -> 1 .. Len(s)] : Picked(t, s, kept, Len(s), p)
  BY <1>1
<1>3. \A x \in 1 .. Len(t) : Stems(t[x], s[p[x]])
  <2>1. ASSUME NEW x \in 1 .. Len(t) PROVE Stems(t[x], s[p[x]])
    <3>1. t[x] = s[p[x]] /\ s[p[x]] \in Messages
      BY <1>2, TalkFacts DEF Picked
    <3> QED
      BY <3>1, StemsSame
  <2> QED
    BY <2>1
<1>4. \A x, y \in 1 .. Len(t) : p[x] = p[y] => x = y
  <2>1. \A x, y \in 1 .. Len(t) : x < y => p[x] < p[y]
    BY <1>2 DEF Picked
  <2>2. \A x \in 1 .. Len(t) : x \in Nat /\ p[x] \in Nat
    BY <1>1, TalkFacts
  <2> QED
    BY <2>1, <2>2
<1>5. Derived(t, s)
  BY <1>3, <1>4 DEF Derived
<1> QED
  BY <1>1, <1>5 DEF t

LEMMA HushedDerives ==
  ASSUME NEW s \in Talks
  PROVE  /\ Prep!Hushed(s) \in Talks /\ Derived(Prep!Hushed(s), s)
         /\ Len(Prep!Hushed(s)) = Len(s)
         /\ \A i \in 1 .. Len(s) : Stems(Prep!Hushed(s)[i], s[i])
<1> DEFINE t == Prep!Hushed(s)
<1>1. Len(s) \in Nat /\ DOMAIN s = 1 .. Len(s)
  BY TalkFacts
<1>2. DOMAIN t = 1 .. Len(s) /\ t = [i \in 1 .. Len(s) |-> t[i]]
  BY <1>1 DEF Prep!Hushed
<1>3. ASSUME NEW i \in 1 .. Len(s)
      PROVE  t[i] \in Messages /\ Stems(t[i], s[i])
  <2> DEFINE still == Prep!Silent
  <2>1. t[i] = IF s[i].calls = <<>> THEN s[i]
               ELSE [s[i] EXCEPT !.text = still, !.parts = FALSE]
    BY <1>1 DEF Prep!Hushed
  <2>2. s[i] \in Messages
    BY TalkFacts
  <2>3. still \in Words \X Ids
    BY DEF Prep!Silent, Prep!Text, Prep!NoId, Words, Ids
  <2> HIDE DEF t, still
  <2>4. /\ t[i] \in Messages /\ t[i].at = s[i].at /\ t[i].role = s[i].role
        /\ t[i].for = s[i].for /\ t[i].calls = s[i].calls
    BY <2>1, <2>2, <2>3 DEF Messages
  <2> QED
    BY <2>2, <2>4, StemsSame
<1> HIDE DEF t
<1>4. t \in Talks /\ Len(t) = Len(s)
  BY <1>1, <1>2, <1>3, MadeSequence DEF Talks
<1>5. Derived(t, s)
  <2> DEFINE p == [i \in 1 .. Len(s) |-> i]
  <2>1. p \in [1 .. Len(t) -> 1 .. Len(s)]
    BY <1>4
  <2> QED
    BY <1>3, <1>4, <2>1 DEF Derived
<1> QED
  BY <1>3, <1>4, <1>5 DEF t

LEMMA AdjacentIs ==
  ASSUME NEW s \in Talks
  PROVE  LET t == Prep!Adjacent(s)
         IN /\ t \in Talks /\ Len(t) = Len(s) /\ Derived(t, s)
            /\ \A i \in 1 .. Len(s) :
                 /\ t[i].role = s[i].role /\ t[i].for = s[i].for
                 /\ \A c \in 1 .. Len(t[i].calls) :
                      t[i].calls[c].id \in {s[j].for : j \in Prep!Block(s, i)}
<1> DEFINE t == Prep!Adjacent(s)
<1>1. Len(s) \in Nat /\ DOMAIN s = 1 .. Len(s)
  BY TalkFacts
<1>2. DOMAIN t = 1 .. Len(s) /\ t = [i \in 1 .. Len(s) |-> t[i]]
  BY <1>1 DEF Prep!Adjacent
<1>3. ASSUME NEW i \in 1 .. Len(s)
      PROVE  /\ t[i] \in Messages /\ t[i].role = s[i].role /\ t[i].for = s[i].for
             /\ Stems(t[i], s[i])
             /\ \A c \in 1 .. Len(t[i].calls) :
                  t[i].calls[c].id \in {s[j].for : j \in Prep!Block(s, i)}
  <2> DEFINE kept == {c \in DOMAIN s[i].calls :
                        s[i].calls[c].id \in {s[j].for : j \in Prep!Block(s, i)}}
             calls == Prep!Only(s[i].calls, kept)
  <2>1. t[i] = [s[i] EXCEPT !.calls = calls]
    BY <1>1 DEF Prep!Adjacent
  <2>2. s[i] \in Messages /\ s[i].calls \in Seq(ToolCalls)
    BY TalkFacts
  <2>3. \A c \in kept : s[i].calls[c].id \in {s[j].for : j \in Prep!Block(s, i)}
    OBVIOUS
  <2> HIDE DEF t, kept
  <2>4. /\ calls \in Seq(ToolCalls)
        /\ \E q \in [1 .. Len(calls) -> 1 .. Len(s[i].calls)] :
             Picked(calls, s[i].calls, kept, Len(s[i].calls), q)
    BY <2>2, OnlyPicked
  <2> HIDE DEF calls
  <2>5. PICK q \in [1 .. Len(calls) -> 1 .. Len(s[i].calls)] :
             Picked(calls, s[i].calls, kept, Len(s[i].calls), q)
    BY <2>4
  <2>6. /\ t[i] \in Messages /\ t[i].at = s[i].at /\ t[i].role = s[i].role
        /\ t[i].for = s[i].for /\ t[i].calls = calls
    BY <2>1, <2>2, <2>4 DEF Messages
  <2>7. \A c \in 1 .. Len(calls) : calls[c] = s[i].calls[q[c]] /\ q[c] \in kept
    BY <2>5 DEF Picked
  <2>8. \A c, d \in 1 .. Len(calls) : q[c] = q[d] => c = d
    <3>1. \A c, d \in 1 .. Len(calls) : c < d => q[c] < q[d]
      BY <2>5 DEF Picked
    <3>2. \A c \in 1 .. Len(calls) : c \in Nat /\ q[c] \in Nat
      BY <2>2, <2>4, LenProperties
    <3> QED
      BY <3>1, <3>2
  <2>9. Stems(t[i], s[i])
    BY <2>5, <2>6, <2>7, <2>8 DEF Stems
  <2>10. \A c \in 1 .. Len(calls) : calls[c].id \in {s[j].for : j \in Prep!Block(s, i)}
    BY <2>3, <2>7
  <2> QED
    BY <2>6, <2>9, <2>10
<1> HIDE DEF t
<1>4. t \in Talks /\ Len(t) = Len(s)
  BY <1>1, <1>2, <1>3, MadeSequence DEF Talks
<1>5. Derived(t, s)
  <2> DEFINE p == [i \in 1 .. Len(s) |-> i]
  <2>1. p \in [1 .. Len(t) -> 1 .. Len(s)]
    BY <1>4
  <2> QED
    BY <1>3, <1>4, <2>1 DEF Derived
<1> QED
  BY <1>3, <1>4, <1>5 DEF t

LEMMA AnsweringIs ==
  ASSUME NEW s \in Talks, Shaped(s)
  PROVE  LET t == Prep!Answering(s)
             K == 1 .. Len(t)
         IN /\ t \in Talks /\ Derived(t, s) /\ Asked(t)
            /\ \E p : /\ Moves(t, s, K, p) /\ Whole(t, s, K, p)
                      /\ \A j \in Results(s) :
                           Went(K, p, j) <=> \E x \in Called(s) : IdAt(s, x) = s[j].for
<1> DEFINE kept == {i \in DOMAIN s : s[i].role = "tool" => s[i].for \in Prep!IdsIn(s)}
           t == Prep!Only(s, kept)
           K == 1 .. Len(t)
<1>1. Prep!Answering(s) = t
  BY DEF Prep!Answering
<1>2. \A i \in 1 .. Len(s) : i \in kept <=> (i \in Results(s) => s[i].for \in Prep!IdsIn(s))
  BY TalkFacts DEF Results, Tool
<1> HIDE DEF kept
<1>3. t \in Talks /\ \E p \in [K -> 1 .. Len(s)] :
        /\ Moves(t, s, K, p) /\ Whole(t, s, K, p)
        /\ \A i \in 1 .. Len(s) : Went(K, p, i) <=> i \in kept
  BY OnlyMoves
<1>4. Derived(t, s)
  BY OnlyDerives
<1> HIDE DEF t
<1>5. PICK p \in [K -> 1 .. Len(s)] :
        /\ Moves(t, s, K, p) /\ Whole(t, s, K, p)
        /\ \A i \in 1 .. Len(s) : Went(K, p, i) <=> i \in kept
  BY <1>3
<1>6. \A j \in Results(s) : Went(K, p, j) <=> \E x \in Called(s) : IdAt(s, x) = s[j].for
  <2>1. ASSUME NEW j \in Results(s)
        PROVE  Went(K, p, j) <=> \E x \in Called(s) : IdAt(s, x) = s[j].for
    <3>1. j \in 1 .. Len(s)
      BY DEF Results
    <3>2. Went(K, p, j) <=> s[j].for \in Prep!IdsIn(s)
      BY <1>2, <1>5, <3>1
    <3> QED
      BY <3>2, IdsInIs
  <2> QED
    BY <2>1
<1>7. Asked(t)
  <2>1. ASSUME NEW y \in Results(t) PROVE \E u \in Called(t) : Answers(t, y, u)
    <3>1. y \in K /\ p[y] \in Results(s) /\ t[y].for = s[p[y]].for
      BY <1>3, <1>5, MovesFacts
    <3>2. Went(K, p, p[y])
      BY <3>1 DEF Went
    <3>3. PICK w \in Called(s) : IdAt(s, w) = s[p[y]].for
      BY <1>6, <3>1, <3>2
    <3>4. w[1] \in 1 .. Len(s) /\ w[1] \notin Results(s) /\ w = <<w[1], w[2]>>
      BY CallersAre
    <3>5. PICK x \in K : p[x] = w[1]
      BY <1>2, <1>5, <3>4 DEF Went
    <3>6. <<x, w[2]>> \in Called(t)
      BY <1>3, <1>5, <3>4, <3>5, MovesFacts
    <3>7. IdAt(t, <<x, w[2]>>) = IdAt(s, w)
      BY <1>5, <3>4, <3>5 DEF IdAt, Moves
    <3> QED
      BY <2>1, <3>1, <3>3, <3>6, <3>7 DEF Answers
  <2> QED
    BY <2>1 DEF Asked
<1> QED
  BY <1>1, <1>3, <1>4, <1>5, <1>6, <1>7

LEMMA AdjacentAnswers ==
  ASSUME NEW s \in Talks, Used(s)
  PROVE  Prep!Adjacent(s) \in Talks /\ Used(Prep!Adjacent(s)) /\ Answered(Prep!Adjacent(s))
<1> DEFINE t == Prep!Adjacent(s)
<1>1. /\ t \in Talks /\ Len(t) = Len(s) /\ Derived(t, s)
      /\ \A i \in 1 .. Len(s) :
           /\ t[i].role = s[i].role /\ t[i].for = s[i].for
           /\ \A c \in 1 .. Len(t[i].calls) :
                t[i].calls[c].id \in {s[j].for : j \in Prep!Block(s, i)}
  BY AdjacentIs
<1> HIDE DEF t
<1>2. Used(t)
  BY <1>1, UsedDerived
<1>3. ASSUME NEW x \in Called(t)
      PROVE  \E j \in x[1] + 1 .. Len(t) : Answers(t, j, x) /\ Between(t, x[1], j)
  <2>1. x[1] \in 1 .. Len(s) /\ x[2] \in 1 .. Len(t[x[1]].calls)
    BY <1>1, <1>2, CallersAre DEF Used
  <2>2. PICK j \in Prep!Block(s, x[1]) : t[x[1]].calls[x[2]].id = s[j].for
    BY <1>1, <2>1
  <2>3. x[1] \in Nat /\ Len(s) \in Nat
    BY <2>1, TalkFacts
  <2>4. j \in x[1] + 1 .. Len(s) /\ Between(s, x[1], j)
    BY <2>2, <2>3, BlockIs
  <2>5. Between(t, x[1], j)
    <3>1. ASSUME NEW k \in x[1] + 1 .. j PROVE Tool(t, k)
      <4>1. k \in 1 .. Len(s) /\ Tool(s, k)
        BY <2>3, <2>4, <3>1 DEF Between
      <4> QED
        BY <1>1, <4>1 DEF Tool
    <3> QED
      BY <3>1 DEF Between
  <2>6. j \in 1 .. Len(t) /\ j \in x[1] + 1 .. j
    BY <1>1, <2>3, <2>4
  <2>7. j \in Results(t) /\ t[j].for = IdAt(t, x)
    BY <1>1, <2>2, <2>5, <2>6 DEF Results, Between, IdAt
  <2> QED
    BY <1>1, <2>4, <2>5, <2>7 DEF Answers
<1>4. Answered(t)
  BY <1>3 DEF Answered
<1> QED
  BY <1>1, <1>2, <1>4 DEF t

(* results without call, calls without result, and once more results         *)
LEMMA LinkedPairs ==
  ASSUME NEW s \in Talks, Used(s)
  PROVE  Paired(Prep!Linked(s)) /\ Derived(Prep!Linked(s), s)
<1> DEFINE a == Prep!Answering(s)
           d == Prep!Adjacent(a)
           l == Prep!Answering(d)
<1>1. a \in Talks /\ Derived(a, s) /\ Asked(a)
  BY AnsweringIs DEF Used
<1>2. Prep!Linked(s) = IF d = a THEN d ELSE l
  BY DEF Prep!Linked
<1> HIDE DEF a
<1>3. Used(a)
  BY <1>1, UsedDerived
<1>4. d \in Talks /\ Used(d) /\ Answered(d) /\ Derived(d, a)
  BY <1>1, <1>3, AdjacentAnswers, AdjacentIs
<1>5. Derived(d, s)
  BY <1>1, <1>4, DerivedOn
<1> HIDE DEF d
<1>6. CASE d = a
  <2>1. Paired(d)
    BY <1>1, <1>4, <1>6 DEF Paired
  <2> QED
    BY <1>2, <1>5, <1>6, <2>1
<1>7. CASE d # a
  <2> DEFINE K == 1 .. Len(l)
  <2>1. /\ l \in Talks /\ Derived(l, d) /\ Asked(l)
        /\ \E p : /\ Moves(l, d, K, p) /\ Whole(l, d, K, p)
                  /\ \A j \in Results(d) :
                       Went(K, p, j) <=> \E x \in Called(d) : IdAt(d, x) = d[j].for
    BY <1>4, AnsweringIs DEF Used
  <2> HIDE DEF l
  <2>2. PICK p : /\ Moves(l, d, K, p) /\ Whole(l, d, K, p)
                 /\ \A j \in Results(d) :
                      Went(K, p, j) <=> \E x \in Called(d) : IdAt(d, x) = d[j].for
    BY <2>1
  <2>3. Follow(d, K, p)
    BY <2>2 DEF Follow, Answers
  <2>4. Answered(l)
    BY <1>4, <2>1, <2>2, <2>3, AnsweredMoves
  <2>5. Used(l)
    BY <1>4, <2>1, UsedDerived
  <2>6. Derived(l, s)
    BY <1>5, <2>1, DerivedOn
  <2> QED
    BY <1>2, <1>7, <2>1, <2>4, <2>5, <2>6 DEF Paired
<1> QED
  BY <1>6, <1>7

(* whatever the ids were, once they are short the calls and results that are *)
(* left pair up                                                              *)
LEMMA LinkagePairs ==
  ASSUME NEW s, Prep!Renamed(s) \in Talks, Used(Prep!Renamed(s))
  PROVE  Paired(Prep!Linkage(s)) /\ Derived(Prep!Linkage(s), Prep!Renamed(s))
<1> DEFINE r == Prep!Renamed(s)
           h == Prep!Hushed(r)
           k == Prep!Known(h)
<1>1. r \in Talks /\ Used(r)
  OBVIOUS
<1>2. Prep!Linkage(s) = Prep!Linked(k)
  BY DEF Prep!Linkage
<1> HIDE DEF r
<1>3. h \in Talks /\ Derived(h, r)
  BY <1>1, HushedDerives
<1> HIDE DEF h
<1>4. k \in Talks /\ Derived(k, h)
  BY <1>3, OnlyDerives DEF Prep!Known
<1> HIDE DEF k
<1>5. Derived(k, r)
  BY <1>3, <1>4, DerivedOn
<1>6. Used(k)
  BY <1>1, <1>4, <1>5, UsedDerived
<1>7. Paired(Prep!Linked(k)) /\ Derived(Prep!Linked(k), k)
  BY <1>4, <1>6, LinkedPairs
<1>8. Derived(Prep!Linked(k), r)
  BY <1>5, <1>7, DerivedOn
<1> QED
  BY <1>2, <1>7, <1>8 DEF r

(* the ids are the client's *)
Unused(s) ==
  /\ Shaped(s)
  /\ \A x \in Called(s) : IdAt(s, x)[2] = 0
  /\ \A j \in Results(s) : s[j].for[2] = 0

LEMMA PrepCard == \A S : Prep!Cardinality(S) = Cardinality(S)
BY DEF Prep!Cardinality, Cardinality

(* a short id is new, and one that is short and free is kept                 *)
LEMMA ShortIs ==
  ASSUME NEW id \in Ids, NEW used, IsFiniteSet(used)
  PROVE  /\ Prep!Short(id, used) \in Ids /\ Prep!Short(id, used) \notin used
         /\ Prep!Short(id, used)[2] # 0
         /\ id[2] # 0 /\ id \notin used => Prep!Short(id, used) = id
<1> DEFINE name == id[1]
           n == Prep!Cardinality(used) + 1
           all == {<<name, k>> : k \in 1 .. n}
           want == IF id[2] = 0 THEN <<name, 1>> ELSE id
           fits(new) == new \notin used /\ \A k \in 1 .. new[2] - 1 : <<name, k>> \in used
           first == CHOOSE new \in all : fits(new)
<1>1. name \in Nat /\ id[2] \in Nat /\ Cardinality(used) \in Nat /\ n \in Nat
  BY PrepCard, FS_CardinalityType DEF Ids
<1>2. want \in Ids /\ want[2] # 0
  BY <1>1 DEF Ids
<1>3. CASE want \notin used
  <2>1. Prep!Short(id, used) = want
    BY <1>3 DEF Prep!Short
  <2> QED
    BY <1>2, <1>3, <2>1
<1>4. CASE want \in used
  <2>1. Prep!Short(id, used) = first
    <3>1. Prep!Short(id, used) = IF want \notin used THEN want ELSE first
      BY DEF Prep!Short
    <3> HIDE DEF want, first
    <3> QED
      BY <1>4, <3>1
  <2> DEFINE free == {k \in 1 .. n : <<name, k>> \notin used}
  <2>2. free # {}
    <3>1. ASSUME free = {} PROVE FALSE
      <4>1. all \subseteq used
        BY <3>1
      <4>0. IsFiniteSet(1 .. n) /\ Cardinality(1 .. n) = n
        <5>1. n \in Nat
          BY <1>1
        <5> HIDE DEF n
        <5> QED
          BY <5>1, FS_Interval
      <4> DEFINE f == [k \in 1 .. n |-> <<name, k>>]
      <4>2. f \in [1 .. n -> all]
        OBVIOUS
      <4>3. \A k, l \in 1 .. n : f[k] = f[l] => k = l
        OBVIOUS
      <4>4. \A y \in all : \E k \in 1 .. n : f[k] = y
        OBVIOUS
      <4> HIDE DEF f, all, n
      <4>5. f \in Bijection(1 .. n, all)
        BY <4>2, <4>3, <4>4 DEF Bijection, Injection, Surjection, IsInjective
      <4>7. Cardinality(all) = n
        BY <4>0, <4>5, FS_Bijection DEF ExistsBijection
      <4>8. Cardinality(all) <= Cardinality(used)
        BY <4>1, FS_Subset
      <4> QED
        BY <1>1, <4>7, <4>8, PrepCard DEF n
    <3> QED
      BY <3>1
  <2>3. PICK k \in free : \A l \in free : k <= l
    <3>1. free \in SUBSET Nat
      BY <1>1
    <3> HIDE DEF free
    <3> QED
      BY <2>2, <3>1, LeastNat
  <2>4. <<name, k>> \in all /\ fits(<<name, k>>)
    <3>1. k \in 1 .. n /\ <<name, k>> \notin used
      OBVIOUS
    <3>2. ASSUME NEW l \in 1 .. k - 1 PROVE <<name, l>> \in used
      <4>1. l \in 1 .. n /\ ~(k <= l)
        BY <1>1, <3>1
      <4>2. l \notin free
        BY <2>3, <4>1
      <4> QED
        BY <4>1, <4>2
    <3> QED
      BY <3>1, <3>2
  <2>5. \E new \in all : fits(new)
    BY <2>4
  <2> HIDE DEF fits, free, all
  <2>6. Prep!Short(id, used) \in all /\ fits(Prep!Short(id, used))
    BY <2>1, <2>5
  <2> USE DEF fits, all
  <2>7. PICK l \in 1 .. n : Prep!Short(id, used) = <<name, l>>
    BY <2>6
  <2>8. Prep!Short(id, used) \in Ids /\ Prep!Short(id, used)[2] # 0
    BY <1>1, <2>7 DEF Ids
  <2>9. id[2] # 0 => want = id
    OBVIOUS
  <2> QED
    BY <1>4, <2>6, <2>8, <2>9
<1> QED
  BY <1>3, <1>4

NameRecs == [at : Nat \X Nat, had : Ids, has : Ids]

Name(s, i, c, names) ==
  [at |-> <<i, c>>, had |-> s[i].calls[c].id,
   has |-> Prep!Short(s[i].calls[c].id, {n.has : n \in names})]

(* names are those of the calls at the places P *)
NamesOf(names, s, P) ==
  /\ names \in SUBSET NameRecs /\ IsFiniteSet(names)
  /\ \A x \in P : \E n \in names : n.at = x
  /\ \A n \in names : n.at \in P /\ n.had = IdAt(s, n.at) /\ n.has[2] # 0
  /\ \A n, m \in names : n.at = m.at \/ n.has = m.has => n = m
  /\ Used(s) => \A n \in names : n.has = n.had

(* one more call gets a name                                                 *)
LEMMA NameAdded ==
  ASSUME NEW s \in Talks, NEW P \in SUBSET Called(s), NEW names, NamesOf(names, s, P),
         NEW i, NEW c, <<i, c>> \in Called(s), <<i, c>> \notin P
  PROVE  NamesOf(names \union {Name(s, i, c, names)}, s, P \union {<<i, c>>})
<1> DEFINE id == s[i].calls[c].id
           used == {n.has : n \in names}
           new == Name(s, i, c, names)
           x == <<i, c>>
<1>1. i \in 1 .. Len(s) /\ c \in 1 .. Len(s[i].calls) /\ i \in Nat /\ c \in Nat
  <2>1. i \in 1 .. Len(s) /\ c \in 1 .. Len(s[i].calls)
    BY DEF Called
  <2> QED
    BY <2>1, TalkFacts
<1>2. id \in Ids /\ id = IdAt(s, x)
  BY <1>1, TalkFacts DEF IdAt
<1>3. IsFiniteSet(used)
  <2> DEFINE f == [n \in names |-> n.has]
  <2>1. f \in [names -> used] /\ \A u \in used : \E n \in names : f[n] = u
    OBVIOUS
  <2> HIDE DEF f, used
  <2>2. f \in Surjection(names, used)
    BY <2>1 DEF Surjection
  <2> QED
    BY <2>2, FS_Surjection DEF NamesOf
<1> HIDE DEF used, id
<1>4. /\ Prep!Short(id, used) \in Ids /\ Prep!Short(id, used) \notin used
      /\ Prep!Short(id, used)[2] # 0
      /\ id[2] # 0 /\ id \notin used => Prep!Short(id, used) = id
  BY <1>2, <1>3, ShortIs
<1>5. new.at = x /\ new.had = id /\ new.has = Prep!Short(id, used) /\ new \in NameRecs
  BY <1>1, <1>2, <1>4 DEF Name, NameRecs, used, id
<1> HIDE DEF new
<1>6. Used(s) => new.has = new.had
  <2>1. ASSUME Used(s) PROVE new.has = new.had
    <3>1. id[2] # 0
      BY <1>2, <2>1 DEF Used
    <3>2. id \notin used
      <4>1. ASSUME NEW n \in names, n.has = id PROVE FALSE
        <5>1. n.at \in P /\ IdAt(s, n.at) = id /\ n.at \in Called(s)
          BY <2>1, <4>1 DEF NamesOf
        <5>2. n.at = x
          BY <1>2, <2>1, <5>1 DEF Used
        <5> QED
          BY <5>1, <5>2
      <4> QED
        BY <4>1 DEF used
    <3> QED
      BY <1>4, <1>5, <3>1, <3>2
  <2> QED
    BY <2>1
<1>7. IsFiniteSet(names \union {new})
  BY FS_AddElement DEF NamesOf
<1>8. \A n \in names : n.at # x /\ n.has # new.has
  <2>1. \A n \in names : n.at \in P /\ n.has \in used
    BY DEF NamesOf, used
  <2>2. x \notin P
    OBVIOUS
  <2> HIDE DEF x
  <2> QED
    BY <1>4, <1>5, <2>1, <2>2
<1> HIDE DEF x
<1>9. NamesOf(names \union {new}, s, P \union {x})
  <2>1. names \union {new} \in SUBSET NameRecs
    BY <1>5 DEF NamesOf
  <2>2. \A y \in P \union {x} : \E n \in names \union {new} : n.at = y
    BY <1>5 DEF NamesOf
  <2>3. \A n \in names \union {new} :
          n.at \in P \union {x} /\ n.had = IdAt(s, n.at) /\ n.has[2] # 0
    BY <1>2, <1>4, <1>5 DEF NamesOf
  <2>4. \A n, m \in names \union {new} : n.at = m.at \/ n.has = m.has => n = m
    BY <1>5, <1>8 DEF NamesOf
  <2>5. Used(s) => \A n \in names \union {new} : n.has = n.had
    BY <1>6 DEF NamesOf
  <2> QED
    BY <1>7, <2>1, <2>2, <2>3, <2>4, <2>5 DEF NamesOf
<1> QED
  BY <1>9 DEF new, x

(* the recursion over the calls of a message, and the one over the messages  *)
Naming(names, s, i, f) ==
  [c \in 0 .. Len(s[i].calls) |->
     IF c = 0 THEN names ELSE f[c - 1] \union {Name(s, i, c, f[c - 1])}]

MessageNames(names, s, i) == CHOOSE f : f = Naming(names, s, i, f)

AllNaming(s, f) ==
  [i \in 0 .. Len(s) |->
     IF i = 0 THEN {} ELSE MessageNames(f[i - 1], s, i)[Len(s[i].calls)]]

AllNames(s) == CHOOSE f : f = AllNaming(s, f)

(* the names as a recursion over messages and over their calls               *)
LEMMA RenamingIs ==
  ASSUME NEW s
  PROVE  Prep!Renaming(s) = AllNames(s)[Len(s)]
BY DEF Prep!Renaming, AllNames, AllNaming, MessageNames, Naming, Name

NameSets == {T \in SUBSET NameRecs : IsFiniteSet(T)}

LEMMA NameMade ==
  ASSUME NEW s \in Talks, NEW i \in 1 .. Len(s), NEW c \in 1 .. Len(s[i].calls),
         NEW names \in NameSets
  PROVE  names \union {Name(s, i, c, names)} \in NameSets
<1> DEFINE id == s[i].calls[c].id
           used == {n.has : n \in names}
           new == Name(s, i, c, names)
<1>1. id \in Ids /\ i \in Nat /\ c \in Nat
  BY TalkFacts
<1>2. IsFiniteSet(used)
  <2> DEFINE f == [n \in names |-> n.has]
  <2>1. f \in [names -> used] /\ \A u \in used : \E n \in names : f[n] = u
    OBVIOUS
  <2> HIDE DEF f, used
  <2>2. f \in Surjection(names, used)
    BY <2>1 DEF Surjection
  <2> QED
    BY <2>2, FS_Surjection DEF NameSets
<1> HIDE DEF id, used
<1>3. Prep!Short(id, used) \in Ids
  BY <1>1, <1>2, ShortIs
<1>4. new \in NameRecs
  BY <1>1, <1>3 DEF Name, NameRecs, id, used
<1> HIDE DEF new
<1>5. IsFiniteSet(names \union {new})
  BY FS_AddElement DEF NameSets
<1>6. names \union {new} \in NameSets
  BY <1>4, <1>5 DEF NameSets
<1> QED
  BY <1>6 DEF new

LEMMA MessageNamesAre ==
  ASSUME NEW s \in Talks, NEW i \in 1 .. Len(s), NEW names \in NameSets
  PROVE  LET f == MessageNames(names, s, i)
         IN /\ f[0] = names
            /\ \A c \in 1 .. Len(s[i].calls) :
                 f[c] = f[c - 1] \union {Name(s, i, c, f[c - 1])}
<1> DEFINE N == Len(s[i].calls)
           V == NameSets
           step == [x \in (1 .. N) \X V |-> x[2] \union {Name(s, i, x[1], x[2])}]
<1>1. N \in Nat
  BY TalkFacts
<1>2. step \in [(1 .. N) \X V -> V]
  <2>1. ASSUME NEW x \in (1 .. N) \X V
        PROVE  x[2] \union {Name(s, i, x[1], x[2])} \in V
    <3>1. x[1] \in 1 .. Len(s[i].calls) /\ x[2] \in NameSets
      OBVIOUS
    <3> QED
      BY <3>1, NameMade
  <2> HIDE DEF V, N
  <2> QED
    BY <2>1
<1>3. PICK f \in [0 .. N -> V] : Recurs(f, N, names, step)
  <2> HIDE DEF N, step
  <2>1. \E f \in [0 .. N -> V] : Recurs(f, N, names, step)
    BY <1>1, <1>2, RecExists
  <2> QED
    BY <2>1
<1>4. f = Naming(names, s, i, f)
  <2>1. ASSUME NEW c \in 1 .. N
        PROVE  f[c] = f[c - 1] \union {Name(s, i, c, f[c - 1])}
    <3>1. c - 1 \in 0 .. N
      BY <1>1
    <3> HIDE DEF V, N, step
    <3>2. f[c - 1] \in V /\ <<c, f[c - 1]>> \in (1 .. N) \X V
      BY <1>3, <3>1
    <3>3. f[c] = step[<<c, f[c - 1]>>]
      BY <1>3 DEF Recurs
    <3> USE DEF step
    <3> QED
      BY <3>2, <3>3
  <2>2. \A c \in 0 .. N :
          f[c] = IF c = 0 THEN names ELSE f[c - 1] \union {Name(s, i, c, f[c - 1])}
    <3>1. \A c \in 0 .. N : c = 0 \/ c \in 1 .. N
      BY <1>1
    <3>2. f[0] = names
      BY <1>3 DEF Recurs
    <3>3. \A c \in 1 .. N : c # 0
      BY <1>1
    <3> HIDE DEF V, N, step
    <3> QED
      BY <2>1, <3>1, <3>2, <3>3
  <2>3. f = [c \in 0 .. N |-> f[c]]
    BY <1>3
  <2> HIDE DEF V, step
  <2> QED
    BY <2>2, <2>3 DEF Naming
<1> DEFINE g == MessageNames(names, s, i)
<1>5. g = Naming(names, s, i, g)
  BY <1>4 DEF MessageNames
<1> HIDE DEF g
<1>6. \A c \in 0 .. N :
        g[c] = IF c = 0 THEN names ELSE g[c - 1] \union {Name(s, i, c, g[c - 1])}
  BY <1>5 DEF Naming
<1>7. /\ g[0] = names
      /\ \A c \in 1 .. N : g[c] = g[c - 1] \union {Name(s, i, c, g[c - 1])}
  <2>1. 0 \in 0 .. N /\ \A c \in 1 .. N : c \in 0 .. N /\ c # 0
    BY <1>1
  <2> HIDE DEF N, V, step
  <2>2. g[0] = names
    BY <1>6, <2>1
  <2>3. ASSUME NEW c \in 1 .. N
        PROVE  g[c] = g[c - 1] \union {Name(s, i, c, g[c - 1])}
    <3>1. c \in 0 .. N /\ c # 0
      BY <2>1
    <3> QED
      BY <1>6, <3>1
  <2> QED
    BY <2>2, <2>3
<1> QED
  BY <1>7 DEF g

(* the places up to call c of message i *)
UpTo(s, i, c) == {x \in Called(s) : x[1] < i \/ (x[1] = i /\ x[2] <= c)}

LEMMA MessageIsNamed ==
  ASSUME NEW s \in Talks, NEW i \in 1 .. Len(s), NEW names,
         NamesOf(names, s, UpTo(s, i, 0))
  PROVE  NamesOf(MessageNames(names, s, i)[Len(s[i].calls)], s, UpTo(s, i + 1, 0))
<1> DEFINE N == Len(s[i].calls)
           g == MessageNames(names, s, i)
           F == {c \in Nat : c <= N => NamesOf(g[c], s, UpTo(s, i, c))}
<1>1. N \in Nat /\ i \in Nat
  BY TalkFacts
<1>2. /\ g[0] = names
      /\ \A c \in 1 .. N : g[c] = g[c - 1] \union {Name(s, i, c, g[c - 1])}
  <2>1. names \in NameSets
    BY DEF NamesOf, NameSets
  <2> QED
    BY <2>1, MessageNamesAre
<1> HIDE DEF g
<1>3. 0 \in F
  BY <1>2
<1>4. ASSUME NEW c \in Nat, c \in F PROVE c + 1 \in F
  <2>1. SUFFICES ASSUME c + 1 <= N PROVE NamesOf(g[c + 1], s, UpTo(s, i, c + 1))
    OBVIOUS
  <2> DEFINE x == <<i, c + 1>>
             P == UpTo(s, i, c)
  <2>2. c + 1 \in 1 .. N /\ (c + 1) - 1 = c /\ c <= N
    BY <1>1, <2>1
  <2>3. x \in Called(s) /\ x \notin P /\ P \in SUBSET Called(s)
    BY <2>2, CalledFacts DEF UpTo
  <2>4. UpTo(s, i, c + 1) = P \union {x}
    <3>1. ASSUME NEW y \in UpTo(s, i, c + 1) PROVE y \in P \union {x}
      <4>1. y \in Called(s) /\ y = <<y[1], y[2]>> /\ y[2] \in Nat
        BY DEF UpTo, Called
      <4>2. y \in P \/ (y[1] = i /\ y[2] = c + 1)
        BY <4>1 DEF UpTo
      <4> QED
        BY <4>1, <4>2
    <3>2. P \subseteq UpTo(s, i, c + 1)
      <4>1. \A y \in Called(s) : y[2] \in Nat
        BY DEF Called
      <4> QED
        BY <4>1 DEF UpTo
    <3>3. x \in UpTo(s, i, c + 1)
      BY <2>3 DEF UpTo
    <3> QED
      BY <3>1, <3>2, <3>3
  <2>5. NamesOf(g[c], s, P)
    BY <1>4, <2>2
  <2>6. g[c + 1] = g[c] \union {Name(s, i, c + 1, g[c])}
    BY <1>2, <2>2
  <2> HIDE DEF P
  <2>7. NamesOf(g[c] \union {Name(s, i, c + 1, g[c])}, s, P \union {<<i, c + 1>>})
    BY <2>3, <2>5, NameAdded
  <2> QED
    BY <2>4, <2>6, <2>7
<1>5. Nat \subseteq F
  <2> HIDE DEF F
  <2> QED
    BY <1>3, <1>4, NatInductionOnSets
<1>6. NamesOf(g[N], s, UpTo(s, i, N))
  BY <1>1, <1>5
<1>7. UpTo(s, i, N) = UpTo(s, i + 1, 0)
  <2>1. \A y \in Called(s) : /\ y[1] \in Nat /\ y[2] \in Nat \ {0}
                             /\ y[1] = i => y[2] <= N
    BY DEF Called
  <2> QED
    BY <1>1, <2>1 DEF UpTo
<1> QED
  BY <1>6, <1>7 DEF g

LEMMA AllNamesAre ==
  ASSUME NEW s \in Talks
  PROVE  LET f == AllNames(s)
         IN /\ f[0] = {}
            /\ \A i \in 1 .. Len(s) :
                 f[i] = MessageNames(f[i - 1], s, i)[Len(s[i].calls)]
<1> DEFINE N == Len(s)
           V == NameSets
           step == [x \in (1 .. N) \X V |-> MessageNames(x[2], s, x[1])[Len(s[x[1]].calls)]]
<1>1. N \in Nat
  BY TalkFacts
<1>2. step \in [(1 .. N) \X V -> V]
  <2>1. ASSUME NEW i \in 1 .. N, NEW names \in V
        PROVE  MessageNames(names, s, i)[Len(s[i].calls)] \in V
    <3> DEFINE g == MessageNames(names, s, i)
               M == Len(s[i].calls)
               F == {c \in Nat : c <= M => g[c] \in V}
    <3>1. M \in Nat
      BY TalkFacts
    <3>2. g[0] = names /\ \A c \in 1 .. M : g[c] = g[c - 1] \union {Name(s, i, c, g[c - 1])}
      BY MessageNamesAre
    <3> HIDE DEF g
    <3>3. 0 \in F
      BY <3>2
    <3>4. ASSUME NEW c \in Nat, c \in F PROVE c + 1 \in F
      <4>1. SUFFICES ASSUME c + 1 <= M PROVE g[c + 1] \in V
        OBVIOUS
      <4>2. c + 1 \in 1 .. M /\ (c + 1) - 1 = c /\ g[c] \in V
        BY <3>1, <3>4, <4>1
      <4>3. g[c + 1] = g[c] \union {Name(s, i, c + 1, g[c])}
        BY <3>2, <4>2
      <4>4. g[c] \union {Name(s, i, c + 1, g[c])} \in V
        BY <4>2, NameMade
      <4> QED
        BY <4>3, <4>4
    <3>5. Nat \subseteq F
      <4> HIDE DEF F
      <4> QED
        BY <3>3, <3>4, NatInductionOnSets
    <3> QED
      BY <3>1, <3>5 DEF g
  <2> HIDE DEF V, N
  <2> QED
    BY <2>1
<1>3. {} \in V
  BY FS_EmptySet DEF NameSets
<1>4. PICK f \in [0 .. N -> V] : Recurs(f, N, {}, step)
  <2> HIDE DEF N, step, V
  <2>1. \E f \in [0 .. N -> V] : Recurs(f, N, {}, step)
    BY <1>1, <1>2, <1>3, RecExists
  <2> QED
    BY <2>1
<1>5. f = AllNaming(s, f)
  <2>1. ASSUME NEW i \in 1 .. N
        PROVE  f[i] = MessageNames(f[i - 1], s, i)[Len(s[i].calls)]
    <3>1. i - 1 \in 0 .. N
      BY <1>1
    <3> HIDE DEF V, N, step
    <3>2. f[i - 1] \in V /\ <<i, f[i - 1]>> \in (1 .. N) \X V
      BY <1>4, <3>1
    <3>3. f[i] = step[<<i, f[i - 1]>>]
      BY <1>4 DEF Recurs
    <3> USE DEF step
    <3> QED
      BY <3>2, <3>3
  <2>2. \A i \in 0 .. N :
          f[i] = IF i = 0 THEN {} ELSE MessageNames(f[i - 1], s, i)[Len(s[i].calls)]
    <3>1. \A i \in 0 .. N : i = 0 \/ i \in 1 .. N
      BY <1>1
    <3>2. f[0] = {}
      BY <1>4 DEF Recurs
    <3>3. \A i \in 1 .. N : i # 0
      BY <1>1
    <3> HIDE DEF V, N, step
    <3> QED
      BY <2>1, <3>1, <3>2, <3>3
  <2>3. f = [i \in 0 .. N |-> f[i]]
    BY <1>4
  <2> HIDE DEF V, step
  <2> QED
    BY <2>2, <2>3 DEF AllNaming
<1> DEFINE g == AllNames(s)
<1>6. g = AllNaming(s, g)
  BY <1>5 DEF AllNames
<1> HIDE DEF g
<1>7. \A i \in 0 .. N :
        g[i] = IF i = 0 THEN {} ELSE MessageNames(g[i - 1], s, i)[Len(s[i].calls)]
  BY <1>6 DEF AllNaming
<1>8. /\ g[0] = {}
      /\ \A i \in 1 .. N : g[i] = MessageNames(g[i - 1], s, i)[Len(s[i].calls)]
  BY <1>1, <1>7
<1> QED
  BY <1>8 DEF g

(* Renaming gives every call an id of its own *)
LEMMA RenamingNames ==
  ASSUME NEW s \in Talks
  PROVE  NamesOf(Prep!Renaming(s), s, Called(s))
<1> DEFINE N == Len(s)
           g == AllNames(s)
           F == {i \in Nat : i <= N => NamesOf(g[i], s, UpTo(s, i + 1, 0))}
<1>1. N \in Nat
  BY TalkFacts
<1>2. /\ g[0] = {}
      /\ \A i \in 1 .. N : g[i] = MessageNames(g[i - 1], s, i)[Len(s[i].calls)]
  BY AllNamesAre
<1> HIDE DEF g
<1>3. 0 \in F
  <2>1. UpTo(s, 1, 0) = {}
    BY DEF UpTo, Called
  <2>2. NamesOf({}, s, {})
    BY FS_EmptySet DEF NamesOf
  <2> QED
    <3>1. NamesOf(g[0], s, UpTo(s, 0 + 1, 0))
      BY <1>2, <2>1, <2>2
    <3> QED
      BY <3>1
<1>4. ASSUME NEW i \in Nat, i \in F PROVE i + 1 \in F
  <2>1. SUFFICES ASSUME i + 1 <= N PROVE NamesOf(g[i + 1], s, UpTo(s, (i + 1) + 1, 0))
    OBVIOUS
  <2>2. i + 1 \in 1 .. N /\ (i + 1) - 1 = i /\ NamesOf(g[i], s, UpTo(s, i + 1, 0))
    BY <1>1, <1>4, <2>1
  <2>3. g[i + 1] = MessageNames(g[i], s, i + 1)[Len(s[i + 1].calls)]
    BY <1>2, <2>2
  <2> QED
    BY <2>2, <2>3, MessageIsNamed
<1>5. Nat \subseteq F
  <2> HIDE DEF F
  <2> QED
    BY <1>3, <1>4, NatInductionOnSets
<1>6. NamesOf(g[N], s, UpTo(s, N + 1, 0))
  BY <1>1, <1>5
<1>7. UpTo(s, N + 1, 0) = Called(s)
  <2>1. \A y \in Called(s) : y[1] < N + 1
    BY <1>1 DEF Called
  <2> QED
    BY <2>1 DEF UpTo
<1> QED
  BY <1>6, <1>7, RenamingIs DEF g

Rank(names, s, n) ==
  Prep!Cardinality({m \in {m \in names : m.had = n.had} : Prep!Precedes(m.at, n.at)})

Turn(s, i) ==
  Prep!Cardinality({j \in 1 .. i : s[j].role = "tool" /\ s[j].for = s[i].for})

LEMMA NewForIs ==
  ASSUME NEW names, NEW s, NEW i
  PROVE  \/ /\ Prep!NewFor(names, s, i) = s[i].for
            /\ ~\E n \in names : n.had = s[i].for /\ Rank(names, s, n) = Turn(s, i)
         \/ \E n \in names : /\ n.had = s[i].for /\ Rank(names, s, n) = Turn(s, i)
                             /\ Prep!NewFor(names, s, i) = n.has
<1> DEFINE queue == {n \in names : n.had = s[i].for}
           nth   == Prep!Cardinality({j \in 1 .. i : s[j].role = "tool" /\ s[j].for = s[i].for})
           mine  == {n \in queue :
                       Prep!Cardinality({m \in queue : Prep!Precedes(m.at, n.at)}) = nth}
<1>1. Prep!NewFor(names, s, i) = IF mine = {} THEN s[i].for ELSE (CHOOSE n \in mine : TRUE).has
  BY DEF Prep!NewFor
<1>2. nth = Turn(s, i)
  BY DEF Turn
<1>3. \A n \in queue :
        Prep!Cardinality({m \in queue : Prep!Precedes(m.at, n.at)}) = Rank(names, s, n)
  <2>1. ASSUME NEW n \in queue
        PROVE  Prep!Cardinality({m \in queue : Prep!Precedes(m.at, n.at)}) = Rank(names, s, n)
    <3>1. {m \in names : m.had = n.had} = queue
      BY <2>1
    <3> QED
      BY <3>1 DEF Rank
  <2> QED
    BY <2>1
<1>4. \A n \in names : n \in mine <=> n.had = s[i].for /\ Rank(names, s, n) = Turn(s, i)
  BY <1>2, <1>3
<1>5. mine \subseteq names
  OBVIOUS
<1> HIDE DEF mine
<1>6. CASE mine = {}
  BY <1>1, <1>4, <1>6
<1>7. CASE mine # {}
  <2> DEFINE n == CHOOSE n \in mine : TRUE
  <2>1. n \in mine /\ n \in names
    BY <1>5, <1>7
  <2>2. Prep!NewFor(names, s, i) = n.has
    BY <1>1, <1>7
  <2> HIDE DEF n
  <2> QED
    BY <1>4, <2>1, <2>2
<1> QED
  BY <1>6, <1>7

(* of two results for one id the later one has the greater turn *)
LEMMA TurnsGrow ==
  ASSUME NEW s \in Talks, NEW i \in Results(s), NEW j \in Results(s), i < j,
         s[i].for = s[j].for
  PROVE  Turn(s, i) # Turn(s, j)
<1> DEFINE A == {k \in 1 .. i : s[k].role = "tool" /\ s[k].for = s[i].for}
           B == {k \in 1 .. j : s[k].role = "tool" /\ s[k].for = s[j].for}
<1>1. i \in Nat /\ j \in Nat /\ Tool(s, j)
  BY TalkFacts DEF Results
<1>2. A \subseteq B /\ j \in B /\ j \notin A
  BY <1>1 DEF Tool
<1>3. IsFiniteSet(B)
  <2>1. B \subseteq 1 .. j /\ IsFiniteSet(1 .. j)
    BY <1>1, FS_Interval
  <2> HIDE DEF B
  <2> QED
    BY <2>1, FS_Subset
<1>4. Turn(s, i) = Cardinality(A) /\ Turn(s, j) = Cardinality(B)
  BY PrepCard DEF Turn
<1> HIDE DEF A, B
<1> QED
  BY <1>2, <1>3, <1>4, FS_Subset

(* names for the calls, and for results the name of their call: after        *)
(* renaming no two have one in common                                        *)
LEMMA RenamedUsed ==
  ASSUME NEW s \in Talks, Unused(s) \/ Used(s)
  PROVE  LET r == Prep!Renamed(s)
         IN /\ r \in Talks /\ Used(r) /\ Len(r) = Len(s)
            /\ \A i \in 1 .. Len(s) :
                 /\ r[i].at = s[i].at /\ r[i].role = s[i].role
                 /\ Len(r[i].calls) = Len(s[i].calls)
            /\ Used(s) => \A i \in Results(s) : r[i].for = s[i].for
<1> DEFINE names == Prep!Renaming(s)
           has(i, c) == (CHOOSE n \in names : n.at = <<i, c>>).has
           calls(i) == [c \in DOMAIN s[i].calls |-> [s[i].calls[c] EXCEPT !.id = has(i, c)]]
           for(i) == IF s[i].role = "tool" THEN Prep!NewFor(names, s, i) ELSE s[i].for
           r == Prep!Renamed(s)
<1>1. NamesOf(names, s, Called(s))
  BY RenamingNames
<1>2. Len(s) \in Nat /\ DOMAIN s = 1 .. Len(s)
  BY TalkFacts
<1>3. DOMAIN r = 1 .. Len(s) /\ r = [i \in 1 .. Len(s) |-> r[i]]
  BY <1>2 DEF Prep!Renamed
<1>4. \A i \in 1 .. Len(s) : r[i] = [s[i] EXCEPT !.calls = calls(i), !.for = for(i)]
  BY <1>2 DEF Prep!Renamed
<1> HIDE DEF names, r
<1>5. ASSUME NEW x \in Called(s)
      PROVE  \E n \in names : n.at = x /\ has(x[1], x[2]) = n.has
  <2>1. x = <<x[1], x[2]>>
    BY DEF Called
  <2> DEFINE n == CHOOSE n \in names : n.at = <<x[1], x[2]>>
  <2>2. \E m \in names : m.at = <<x[1], x[2]>>
    BY <1>1, <2>1 DEF NamesOf
  <2>3. n \in names /\ n.at = <<x[1], x[2]>>
    BY <2>2
  <2>4. has(x[1], x[2]) = n.has
    OBVIOUS
  <2> HIDE DEF n, has
  <2> QED
    BY <2>1, <2>3, <2>4
<1> HIDE DEF has
<1>6. ASSUME NEW i \in 1 .. Len(s)
      PROVE  /\ calls(i) \in Seq(ToolCalls) /\ Len(calls(i)) = Len(s[i].calls)
             /\ \A c \in 1 .. Len(s[i].calls) : calls(i)[c].id = has(i, c)
  <2> DEFINE f == calls(i)
             n == Len(s[i].calls)
  <2>1. n \in Nat /\ DOMAIN s[i].calls = 1 .. n
    BY TalkFacts
  <2>2. DOMAIN f = 1 .. n /\ f = [c \in 1 .. n |-> f[c]]
    BY <2>1
  <2>3. ASSUME NEW c \in 1 .. n PROVE f[c] \in ToolCalls /\ f[c].id = has(i, c)
    <3>1. s[i].calls[c] \in ToolCalls
      BY TalkFacts
    <3>2. <<i, c>> \in Called(s)
      BY CalledFacts
    <3>3. has(i, c) \in Ids
      <4>1. PICK m \in names : has(i, c) = m.has
        BY <1>5, <3>2
      <4> QED
        BY <1>1, <4>1 DEF NamesOf, NameRecs
    <3>4. f[c] = [s[i].calls[c] EXCEPT !.id = has(i, c)]
      BY <2>1
    <3> HIDE DEF f
    <3> QED
      BY <3>1, <3>3, <3>4 DEF ToolCalls
  <2> HIDE DEF f
  <2>4. f \in Seq(ToolCalls) /\ Len(f) = n
    BY <2>1, <2>2, <2>3, MadeSequence
  <2> QED
    BY <2>3, <2>4 DEF f
<1> HIDE DEF calls
<1>7. ASSUME NEW i \in 1 .. Len(s) PROVE for(i) \in Ids
  <2>1. s[i].for \in Ids
    BY TalkFacts DEF Messages
  <2>2. for(i) = s[i].for \/ \E n \in names : for(i) = n.has
    BY NewForIs
  <2> HIDE DEF for
  <2> QED
    BY <1>1, <2>1, <2>2 DEF NamesOf, NameRecs
<1>8. \A i \in Results(s) : for(i) = Prep!NewFor(names, s, i)
  BY DEF Results, Tool
<1> HIDE DEF for
<1>9. ASSUME NEW i \in 1 .. Len(s)
      PROVE  /\ r[i] \in Messages /\ r[i].at = s[i].at /\ r[i].role = s[i].role
             /\ r[i].calls = calls(i) /\ r[i].for = for(i)
  <2>1. s[i] \in Messages
    BY TalkFacts
  <2> QED
    BY <1>4, <1>6, <1>7, <2>1 DEF Messages
<1>10. r \in Talks /\ Len(r) = Len(s)
  BY <1>2, <1>3, <1>9, MadeSequence DEF Talks
<1>11. \A i \in 1 .. Len(s) : Len(r[i].calls) = Len(s[i].calls)
  BY <1>6, <1>9
<1>12. Called(r) = Called(s) /\ Results(r) = Results(s)
  BY <1>9, <1>10, <1>11 DEF Called, Results, Tool
<1>13. ASSUME NEW x \in Called(s)
       PROVE  \E n \in names : n.at = x /\ IdAt(r, x) = n.has
  <2>1. x[1] \in 1 .. Len(s) /\ x[2] \in 1 .. Len(s[x[1]].calls)
    BY DEF Called
  <2>2. IdAt(r, x) = has(x[1], x[2])
    BY <1>6, <1>9, <2>1 DEF IdAt
  <2> QED
    BY <1>5, <2>2
<1>14. Shaped(s)
  BY DEF Unused, Used
<1>15. Shaped(r)
  <2>1. ASSUME NEW i \in 1 .. Len(r), r[i].calls # <<>> PROVE r[i].role = "assistant"
    <3>1. Len(s[i].calls) # 0
      BY <1>10, <1>11, <2>1, TalkFacts
    <3> QED
      BY <1>9, <1>10, <1>14, <3>1, TalkFacts DEF Shaped
  <2> QED
    BY <2>1 DEF Shaped
<1>16. ASSUME NEW x \in Called(r) PROVE IdAt(r, x)[2] # 0
  <2>1. PICK n \in names : IdAt(r, x) = n.has
    BY <1>12, <1>13
  <2> QED
    BY <1>1, <2>1 DEF NamesOf
<1>17. ASSUME NEW x \in Called(r), NEW y \in Called(r), IdAt(r, x) = IdAt(r, y)
       PROVE  x = y
  <2>1. PICK n \in names : n.at = x /\ IdAt(r, x) = n.has
    BY <1>12, <1>13
  <2>2. PICK m \in names : m.at = y /\ IdAt(r, y) = m.has
    BY <1>12, <1>13
  <2>3. n.has = m.has
    BY <1>17, <2>1, <2>2
  <2>4. \A k, l \in names : k.has = l.has => k = l
    BY <1>1 DEF NamesOf
  <2>5. n = m
    BY <2>3, <2>4
  <2> QED
    BY <2>1, <2>2, <2>5
<1>18. ASSUME Used(s), NEW i \in Results(s) PROVE r[i].for = s[i].for
  <2>1. r[i].for = Prep!NewFor(names, s, i)
    BY <1>8, <1>9 DEF Results
  <2>2. CASE \E n \in names : n.had = s[i].for /\ Prep!NewFor(names, s, i) = n.has
    BY <1>1, <1>18, <2>1, <2>2 DEF NamesOf
  <2> QED
    BY <2>1, <2>2, NewForIs
<1>19. ASSUME NEW i \in Results(r), NEW j \in Results(r), r[i].for = r[j].for,
              r[i].for[2] # 0
       PROVE  i = j
  <2>1. i \in Results(s) /\ j \in Results(s)
    BY <1>12
  <2>2. CASE Used(s)
    BY <1>18, <1>19, <2>1, <2>2 DEF Used
  <2>3. CASE Unused(s)
    <3>1. r[i].for = Prep!NewFor(names, s, i) /\ r[j].for = Prep!NewFor(names, s, j)
      BY <1>8, <1>9, <2>1 DEF Results
    <3>2. r[i].for # s[i].for /\ r[j].for # s[j].for
      BY <1>19, <2>1, <2>3 DEF Unused
    <3>3. PICK n \in names :
            n.had = s[i].for /\ Rank(names, s, n) = Turn(s, i) /\ r[i].for = n.has
      BY <3>1, <3>2, NewForIs
    <3>4. PICK m \in names :
            m.had = s[j].for /\ Rank(names, s, m) = Turn(s, j) /\ r[j].for = m.has
      BY <3>1, <3>2, NewForIs
    <3>5. n = m
      <4>1. \A k, l \in names : k.has = l.has => k = l
        BY <1>1 DEF NamesOf
      <4>2. n.has = m.has
        BY <1>19, <3>3, <3>4
      <4> QED
        BY <4>1, <4>2
    <3>6. s[i].for = s[j].for /\ Turn(s, i) = Turn(s, j)
      BY <3>3, <3>4, <3>5
    <3>7. i \in Nat /\ j \in Nat
      BY <2>1, TalkFacts DEF Results
    <3> QED
      BY <2>1, <3>6, <3>7, TurnsGrow
  <2> QED
    BY <2>2, <2>3
<1>20. Used(r)
  BY <1>15, <1>16, <1>17, <1>19 DEF Used
<1> QED
  BY <1>9, <1>10, <1>11, <1>18, <1>20 DEF r

-----------------------------------------------------------------------------
(***************************************************************************)
(* The steps of a conversation: what the client says has the ids of the    *)
(* client, and what an attempt leaves to the next has short ones.          *)
(***************************************************************************)

(* the messages are told apart by their places *)
Apart(s)  == \A i, j \in 1 .. Len(s) : s[i].at = s[j].at => i = j
Placed(s) == \A i \in 1 .. Len(s) : s[i].at = i

LEMMA UsedLike ==
  ASSUME NEW s \in Talks, NEW t \in Talks, Used(s), Len(t) = Len(s),
         \A i \in 1 .. Len(s) : /\ t[i].role = s[i].role /\ t[i].calls = s[i].calls
                                /\ t[i].for = s[i].for \/ t[i].for[2] = 0
                                     \/ t[i].role # "tool"
  PROVE  Used(t)
<1>1. Called(t) = Called(s) /\ \A x \in Called(s) : IdAt(t, x) = IdAt(s, x)
  BY DEF Called, IdAt
<1>2. Results(t) = Results(s) /\ \A j \in Results(s) : t[j].for = s[j].for \/ t[j].for[2] = 0
  BY DEF Results, Tool
<1>3. Shaped(t)
  BY DEF Used, Shaped
<1> QED
  BY <1>1, <1>2, <1>3 DEF Used

(* An attempt leaves messages whose ids are short and apart, whatever became *)
(* of each of them.                                                          *)
LEMMA AfterUsed ==
  ASSUME NEW s \in Talks, Unused(s) \/ Used(s), Apart(s)
  PROVE  LET t == Prep!After(s) IN t \in Talks /\ Used(t) /\ Apart(t)
<1> DEFINE r == Prep!Renamed(s)
           l == Prep!Linkage(s)
           h == Prep!Hushed(r)
           t == Prep!After(s)
           same(i) == {j \in DOMAIN l : l[j].at = s[i].at}
           final(i) == IF same(i) # {} THEN l[CHOOSE j \in same(i) : TRUE] ELSE h[i]
<1>1. /\ r \in Talks /\ Used(r) /\ Len(r) = Len(s)
      /\ \A i \in 1 .. Len(s) :
           r[i].at = s[i].at /\ r[i].role = s[i].role
      /\ Used(s) => \A i \in Results(s) : r[i].for = s[i].for
  BY RenamedUsed
<1>2. l \in Talks /\ Derived(l, r)
  BY <1>1, LinkagePairs DEF Paired
<1>3. h \in Talks /\ Len(h) = Len(s) /\ \A i \in 1 .. Len(s) : Stems(h[i], r[i])
  BY <1>1, HushedDerives
<1>4. Len(s) \in Nat /\ DOMAIN s = 1 .. Len(s)
  BY TalkFacts
<1>5. /\ DOMAIN t = 1 .. Len(s) /\ t = [i \in 1 .. Len(s) |-> t[i]]
      /\ \A i \in 1 .. Len(s) :
           t[i] = IF s[i].parts THEN [s[i] EXCEPT !.calls = r[i].calls] ELSE final(i)
  BY <1>4 DEF Prep!After
<1> HIDE DEF r, l, h, t
<1>6. ASSUME NEW i \in 1 .. Len(s) PROVE final(i) \in Messages /\ Stems(final(i), r[i])
  <2>1. CASE same(i) = {}
    <3>1. final(i) = h[i]
      BY <2>1
    <3> HIDE DEF final
    <3> QED
      BY <1>3, <3>1, TalkFacts
  <2>2. CASE same(i) # {}
    <3> DEFINE j == CHOOSE j \in same(i) : TRUE
    <3>1. final(i) = l[j] /\ j \in same(i)
      BY <2>2
    <3>2. j \in 1 .. Len(l) /\ l[j].at = s[i].at
      BY <1>2, <3>1, TalkFacts
    <3> HIDE DEF j, final
    <3>3. PICK k \in 1 .. Len(r) : Stems(l[j], r[k])
      <4>1. PICK p \in [1 .. Len(l) -> 1 .. Len(r)] : \A x \in 1 .. Len(l) : Stems(l[x], r[p[x]])
        BY <1>2 DEF Derived
      <4> QED
        BY <3>2, <4>1
    <3>4. k \in 1 .. Len(s) /\ s[k].at = s[i].at
      BY <1>1, <3>2, <3>3 DEF Stems
    <3>5. k = i
      BY <3>4 DEF Apart
    <3> QED
      BY <1>2, <3>1, <3>2, <3>3, <3>5, TalkFacts
  <2> QED
    BY <2>1, <2>2
<1> HIDE DEF final
<1>7. ASSUME NEW i \in 1 .. Len(s)
      PROVE  /\ t[i] \in Messages /\ t[i].at = s[i].at /\ t[i].role = r[i].role
             /\ Stems([t[i] EXCEPT !.for = r[i].for], r[i])
             /\ t[i].for = r[i].for \/ t[i].for[2] = 0 \/ t[i].role # "tool"
  <2>0. s[i] \in Messages /\ r[i] \in Messages
    BY <1>1, TalkFacts
  <2>1. CASE s[i].parts
    <3>1. t[i] = [s[i] EXCEPT !.calls = r[i].calls]
      BY <1>5, <2>1
    <3>2. /\ t[i] \in Messages /\ t[i].at = s[i].at /\ t[i].role = r[i].role
          /\ t[i].for = s[i].for /\ t[i].calls = r[i].calls
      BY <1>1, <2>0, <3>1 DEF Messages
    <3> DEFINE u == [t[i] EXCEPT !.for = r[i].for]
    <3>3. /\ u \in Messages /\ u.at = r[i].at /\ u.role = r[i].role
          /\ u.for = r[i].for /\ u.calls = r[i].calls
      BY <1>1, <2>0, <3>2 DEF Messages
    <3> HIDE DEF u
    <3>4. Stems(u, r[i])
      BY <2>0, <3>3, StemsSame
    <3>5. t[i].role = "tool" => t[i].for = r[i].for \/ t[i].for[2] = 0
      <4>1. ASSUME t[i].role = "tool" PROVE i \in Results(s)
        BY <1>1, <3>2, <4>1 DEF Results, Tool
      <4> QED
        BY <1>1, <3>2, <4>1 DEF Unused
    <3> QED
      BY <3>2, <3>4, <3>5 DEF u
  <2>2. CASE ~s[i].parts
    <3>1. t[i] = final(i) /\ t[i] \in Messages /\ Stems(t[i], r[i])
      BY <1>5, <1>6, <2>2
    <3>2. t[i].at = s[i].at /\ t[i].role = r[i].role /\ t[i].for = r[i].for
      BY <1>1, <3>1 DEF Stems
    <3>3. [t[i] EXCEPT !.for = r[i].for] = t[i]
      BY <3>1, <3>2 DEF Messages
    <3> QED
      BY <3>1, <3>2, <3>3
  <2> QED
    BY <2>1, <2>2
<1>8. t \in Talks /\ Len(t) = Len(s)
  BY <1>4, <1>5, <1>7, MadeSequence DEF Talks
<1> DEFINE u == [i \in 1 .. Len(s) |-> [t[i] EXCEPT !.for = r[i].for]]
<1>9. ASSUME NEW i \in 1 .. Len(s)
      PROVE  /\ u[i] \in Messages /\ Stems(u[i], r[i])
             /\ u[i].role = t[i].role /\ u[i].calls = t[i].calls /\ u[i].for = r[i].for
  <2>1. r[i] \in Messages /\ r[i].for \in Ids /\ t[i] \in Messages
    BY <1>1, <1>7, TalkFacts DEF Messages
  <2>2. u[i] = [t[i] EXCEPT !.for = r[i].for]
    OBVIOUS
  <2> HIDE DEF u
  <2>3. /\ u[i] \in Messages /\ u[i].role = t[i].role /\ u[i].calls = t[i].calls
        /\ u[i].for = r[i].for
    BY <2>1, <2>2 DEF Messages
  <2>4. Stems(u[i], r[i])
    BY <1>7, <2>2
  <2> QED
    BY <2>3, <2>4
<1>10. DOMAIN u = 1 .. Len(s) /\ u = [i \in 1 .. Len(s) |-> u[i]]
  OBVIOUS
<1> HIDE DEF u
<1>11. u \in Talks /\ Len(u) = Len(s)
  BY <1>4, <1>9, <1>10, MadeSequence DEF Talks
<1>12. Derived(u, r)
  <2> DEFINE p == [i \in 1 .. Len(s) |-> i]
  <2>1. p \in [1 .. Len(u) -> 1 .. Len(r)] /\ \A i \in 1 .. Len(s) : p[i] = i
    BY <1>1, <1>11
  <2> HIDE DEF p
  <2> QED
    BY <1>9, <1>11, <2>1 DEF Derived
<1>13. Used(u)
  BY <1>1, <1>11, <1>12, UsedDerived
<1>14. Used(t)
  BY <1>7, <1>8, <1>9, <1>11, <1>13, UsedLike
<1>15. Apart(t)
  BY <1>7, <1>8 DEF Apart
<1> QED
  BY <1>8, <1>14, <1>15 DEF t

LEMMA DedupedKeeps ==
  ASSUME NEW s \in Talks, Unused(s), Apart(s)
  PROVE  LET t == Prep!Deduped(s) IN t \in Talks /\ Unused(t) /\ Apart(t)
<1> DEFINE t == Prep!Without(s, Prep!Doubled(s))
           K == 1 .. Len(t)
<1>1. Prep!Deduped(s) = s \/ Prep!Deduped(s) = t
  BY DEF Prep!Deduped
<1>2. t \in Talks /\ \E p \in [K -> 1 .. Len(s)] :
        /\ Moves(t, s, K, p) /\ Whole(t, s, K, p)
        /\ \A i \in 1 .. Len(s) : Went(K, p, i) <=> i \notin Prep!Doubled(s)
        /\ \A x \in K : t[x] = s[p[x]]
  BY WithoutMoves
<1> HIDE DEF t
<1>3. PICK p \in [K -> 1 .. Len(s)] : Moves(t, s, K, p) /\ \A x \in K : t[x] = s[p[x]]
  BY <1>2
<1>4. Shaped(t)
  BY <1>3 DEF Unused, Shaped
<1>5. \A u \in Called(t) : IdAt(t, u)[2] = 0
  <2>1. \A u \in Called(t) : /\ <<p[u[1]], u[2]>> \in Called(s)
                             /\ IdAt(t, u) = IdAt(s, <<p[u[1]], u[2]>>)
    BY <1>2, <1>3, MovesFacts
  <2> QED
    BY <2>1 DEF Unused
<1>6. \A j \in Results(t) : t[j].for[2] = 0
  BY <1>3 DEF Unused, Results, Tool
<1>7. Apart(t)
  <2>1. \A x, y \in K : p[x] = p[y] => x = y
    BY <1>2, <1>3, MovesFacts
  <2>2. ASSUME NEW x \in K, NEW y \in K, t[x].at = t[y].at PROVE x = y
    <3>1. p[x] \in 1 .. Len(s) /\ p[y] \in 1 .. Len(s) /\ s[p[x]].at = s[p[y]].at
      BY <1>3, <2>2
    <3>2. p[x] = p[y]
      BY <3>1 DEF Apart
    <3> QED
      BY <2>1, <3>2
  <2> QED
    BY <2>2 DEF Apart
<1> QED
  BY <1>1, <1>2, <1>4, <1>5, <1>6, <1>7 DEF Unused

(* a message the client adds *)
OfClient(m) ==
  /\ m \in Messages
  /\ m.calls # <<>> => m.role = "assistant"
  /\ \A c \in 1 .. Len(m.calls) : m.calls[c].id[2] = 0
  /\ m.role = "tool" => m.for[2] = 0

(* what the client adds has the client's ids                                 *)
LEMMA GrowTold ==
  ASSUME NEW s \in Talks, Unused(s), Placed(s), NEW m, OfClient(m)
  PROVE  LET t == Append(s, [m EXCEPT !.at = Len(s) + 1])
         IN t \in Talks /\ Unused(t) /\ Placed(t)
<1> DEFINE n == Len(s) + 1
           new == [m EXCEPT !.at = n]
           t == Append(s, new)
<1>1. Len(s) \in Nat
  BY TalkFacts
<1>2. /\ new \in Messages /\ new.at = n /\ new.role = m.role /\ new.calls = m.calls
      /\ new.for = m.for
  BY <1>1 DEF OfClient, Messages
<1> HIDE DEF new
<1>3. /\ t \in Talks /\ Len(t) = n /\ t[n] = new
      /\ \A i \in 1 .. Len(s) : t[i] = s[i]
  BY <1>1, <1>2, AppendProperties DEF Talks
<1> HIDE DEF t
<1>4. \A i \in 1 .. Len(t) : i \in 1 .. Len(s) \/ i = n
  BY <1>1, <1>3
<1> HIDE DEF n
<1>5. Shaped(t)
  BY <1>2, <1>3, <1>4 DEF OfClient, Unused, Shaped
<1>6. ASSUME NEW x \in Called(t) PROVE IdAt(t, x)[2] = 0
  <2>1. x[1] \in 1 .. Len(t) /\ x[2] \in 1 .. Len(t[x[1]].calls) /\ x = <<x[1], x[2]>>
    BY <1>3, <1>5, CallersAre
  <2>2. CASE x[1] \in 1 .. Len(s)
    <3>1. x \in Called(s) /\ IdAt(t, x) = IdAt(s, x)
      BY <1>3, <2>1, <2>2, CalledFacts DEF IdAt
    <3> QED
      BY <3>1 DEF Unused
  <2>3. CASE x[1] = n
    BY <1>2, <1>3, <2>1, <2>3 DEF OfClient, IdAt
  <2> QED
    BY <1>4, <2>1, <2>2, <2>3
<1>7. \A j \in Results(t) : t[j].for[2] = 0
  BY <1>2, <1>3, <1>4 DEF OfClient, Unused, Results, Tool
<1>8. Placed(t)
  BY <1>2, <1>3, <1>4 DEF Placed
<1> QED
  BY <1>3, <1>5, <1>6, <1>7, <1>8 DEF Unused, t, new, n

Prepared ==
  /\ said \in Talks /\ Unused(said) /\ Placed(said)
  /\ list \in Talks /\ (Unused(list) \/ Used(list)) /\ Apart(list)
  /\ Paired(Prep!Out) \/ Warns(Prep!Out)

LEMMA EmptyTalk ==
  /\ <<>> \in Talks /\ Unused(<<>>) /\ Placed(<<>>) /\ Apart(<<>>) /\ Paired(<<>>)
<1>1. <<>> \in Talks /\ Len(<<>>) = 0
  BY EmptySeq DEF Talks
<1>2. Called(<<>>) = {} /\ Results(<<>>) = {} /\ 1 .. 0 = {}
  BY <1>1 DEF Called, Results
<1>3. Paired(<<>>)
  BY <1>1, <1>2, NothingToPair
<1> QED
  BY <1>1, <1>2, <1>3 DEF Unused, Shaped, Placed, Apart

(* the ids said so far are finitely many *)
LEMMA FreshIs ==
  ASSUME said \in Talks
  PROVE  Prep!Fresh \in Nat
<1> DEFINE names == Prep!Renaming(said)
           D == {id[1] : id \in Prep!IdsIn(said)}
           E == {n.had[1] : n \in names}
           f == [n \in names |-> n.had[1]]
<1>1. NamesOf(names, said, Called(said))
  BY RenamingNames
<1> HIDE DEF names
<1>2. IsFiniteSet(names)
  BY <1>1 DEF NamesOf
<1>3. IsFiniteSet(E)
  <2>1. f \in [names -> E] /\ \A u \in E : \E n \in names : f[n] = u
    OBVIOUS
  <2> HIDE DEF f, E
  <2>2. f \in Surjection(names, E)
    BY <2>1 DEF Surjection
  <2> QED
    BY <1>2, <2>2, FS_Surjection
<1>4. D \subseteq E
  <2>1. ASSUME NEW id \in Prep!IdsIn(said) PROVE \E n \in names : n.had = id
    <3>1. PICK x \in Called(said) : IdAt(said, x) = id
      BY IdsInIs
    <3> QED
      BY <1>1, <3>1 DEF NamesOf
  <2> QED
    BY <2>1
<1> HIDE DEF D, E
<1>5. Cardinality(D) \in Nat
  BY <1>3, <1>4, FS_Subset, FS_CardinalityType
<1>6. Prep!Fresh = Cardinality(D) + 1
  BY PrepCard DEF Prep!Fresh, D
<1> QED
  BY <1>5, <1>6

(* the ids a model gives its calls are the client's *)
LEMMA TagsAre ==
  ASSUME said \in Talks, Unused(said), NEW n \in {1, 2}, NEW tags \in Prep!Tags(n)
  PROVE  DOMAIN tags = 1 .. n /\ \A i \in 1 .. n : tags[i] \in Ids /\ tags[i][2] = 0
<1>1. CASE tags = [i \in 1 .. n |-> Prep!Own(Prep!Fresh + i - 1)]
  BY <1>1, FreshIs DEF Prep!Own, Ids
<1>2. CASE n = 1 /\ tags \in {<<id>> : id \in Prep!IdsIn(said)}
  <2>1. PICK id \in Prep!IdsIn(said) : tags = <<id>>
    BY <1>2
  <2>2. PICK x \in Called(said) : IdAt(said, x) = id
    BY IdsInIs
  <2>3. id \in Ids /\ id[2] = 0
    BY <2>2, CallersAre DEF Unused
  <2> QED
    BY <1>2, <2>1, <2>3
<1> QED
  BY <1>1, <1>2 DEF Prep!Tags

LEMMA CallingIs ==
  ASSUME said \in Talks, Unused(said), NEW n \in {1, 2}, NEW tags \in Prep!Tags(n),
         NEW read \in Nat
  PROVE  OfClient(Prep!Calling(tags, read))
<1> DEFINE f == [i \in DOMAIN tags |-> [id |-> tags[i], nth |-> i, read |-> read]]
           m == Prep!Message("assistant", "words")
           c == Prep!Calling(tags, read)
<1>1. DOMAIN tags = 1 .. n /\ \A i \in 1 .. n : tags[i] \in Ids /\ tags[i][2] = 0
  BY TagsAre
<1>2. /\ DOMAIN f = 1 .. n /\ f = [i \in 1 .. n |-> f[i]]
      /\ \A i \in 1 .. n : f[i] \in ToolCalls /\ f[i].id[2] = 0
  BY <1>1 DEF ToolCalls
<1>3. c = [m EXCEPT !.calls = f]
  BY DEF Prep!Calling
<1> HIDE DEF f
<1>4. f \in Seq(ToolCalls) /\ Len(f) = n
  BY <1>2, MadeSequence
<1>5. m \in Messages /\ m.role = "assistant"
  BY MessageIs DEF Words
<1> HIDE DEF m, c
<1>6. c \in Messages /\ c.calls = f /\ c.role = "assistant"
  BY <1>3, <1>4, <1>5 DEF Messages
<1> QED
  BY <1>2, <1>4, <1>6 DEF OfClient, c

LEMMA SpokenIs ==
  ASSUME NEW role \in {"user", "assistant", "odd"}
  PROVE  OfClient(Prep!Message(role, "words"))
<1> DEFINE m == Prep!Message(role, "words")
<1>1. m \in Messages /\ m.role = role /\ m.calls = <<>>
  BY MessageIs DEF Words
<1> HIDE DEF m
<1>2. Len(m.calls) = 0 /\ 1 .. 0 = {}
  BY <1>1
<1> QED
  BY <1>1, <1>2 DEF OfClient, m

LEMMA ResultIs ==
  ASSUME NEW id \in Ids, id[2] = 0, NEW parts \in BOOLEAN
  PROVE  /\ OfClient([Prep!Message("tool", "words") EXCEPT !.for = id, !.parts = parts])
         /\ OfClient([Prep!Message("tool", "words") EXCEPT !.for = id])
<1> DEFINE m == Prep!Message("tool", "words")
           a == [m EXCEPT !.for = id, !.parts = parts]
           b == [m EXCEPT !.for = id]
<1>1. m \in Messages /\ m.role = "tool" /\ m.calls = <<>>
  BY MessageIs DEF Words
<1> HIDE DEF m
<1>2. /\ a \in Messages /\ a.role = "tool" /\ a.calls = <<>> /\ a.for = id
      /\ b \in Messages /\ b.role = "tool" /\ b.calls = <<>> /\ b.for = id
  BY <1>1 DEF Messages
<1> HIDE DEF a, b
<1>3. 1 .. Len(<<>>) = {}
  OBVIOUS
<1> QED
  BY <1>2, <1>3 DEF OfClient, a, b, m

LEMMA GrowPrepared ==
  ASSUME Prepared, NEW m, OfClient(m), Prep!Grow(m)
  PROVE  Prepared'
<1>1. /\ said' = Append(said, [m EXCEPT !.at = Len(said) + 1])
      /\ list' = <<>> /\ sent' = Prep!Nothing
  BY DEF Prep!Grow, Prep!Idling
<1>2. said' \in Talks /\ Unused(said') /\ Placed(said')
  BY <1>1, GrowTold DEF Prepared
<1>3. Prep!Out' = <<>>
  BY <1>1 DEF Prep!Out, Prep!Nothing
<1> QED
  BY <1>1, <1>2, <1>3, EmptyTalk DEF Prepared

LEMMA PreparedNext ==
  ASSUME Prepared, [Prep!Next]_(Prep!vars)
  PROVE  Prepared'
<1> USE DEF Prepared
<1>1. CASE UNCHANGED Prep!vars
  BY <1>1 DEF Prep!vars, Prep!Out
<1>2. CASE Prep!User
  BY <1>2, SpokenIs, GrowPrepared DEF Prep!User
<1>3. CASE Prep!Odd
  BY <1>3, SpokenIs, GrowPrepared DEF Prep!Odd
<1>4. CASE Prep!Say
  BY <1>4, SpokenIs, GrowPrepared DEF Prep!Say
<1>5. CASE Prep!Read
  <2>1. PICK tags \in Prep!Tags(1) : Prep!Grow(Prep!Calling(tags, 1))
    BY <1>5 DEF Prep!Read
  <2>2. OfClient(Prep!Calling(tags, 1))
    BY CallingIs
  <2> QED
    BY <2>1, <2>2, GrowPrepared
<1>6. CASE Prep!Call
  <2>1. PICK n \in {1, 2} : \E tags \in Prep!Tags(n) : Prep!Grow(Prep!Calling(tags, 0))
    BY <1>6 DEF Prep!Call
  <2>2. PICK tags \in Prep!Tags(n) : Prep!Grow(Prep!Calling(tags, 0))
    BY <2>1
  <2>3. OfClient(Prep!Calling(tags, 0))
    BY CallingIs
  <2> QED
    BY <2>2, <2>3, GrowPrepared
<1>7. CASE Prep!Result
  <2>1. PICK id \in Prep!IdsIn(said), parts \in BOOLEAN :
          Prep!Grow([Prep!Message("tool", "words") EXCEPT !.for = id, !.parts = parts])
    BY <1>7 DEF Prep!Result
  <2>2. PICK x \in Called(said) : IdAt(said, x) = id
    BY IdsInIs
  <2>3. id \in Ids /\ id[2] = 0
    BY <2>2, CallersAre DEF Unused
  <2> QED
    BY <2>1, <2>3, ResultIs, GrowPrepared
<1>8. CASE Prep!Stray
  <2>1. Prep!Forgotten \in Ids /\ Prep!Forgotten[2] = 0
    BY DEF Prep!Forgotten, Prep!Own, Ids
  <2> QED
    BY <1>8, <2>1, ResultIs, GrowPrepared DEF Prep!Stray
<1>9. CASE Prep!Request
  <2>1. list' = Prep!Deduped(said) /\ UNCHANGED <<said, sent>>
    BY <1>9 DEF Prep!Request
  <2>2. Apart(said)
    BY DEF Apart, Placed
  <2>3. list' \in Talks /\ Unused(list') /\ Apart(list')
    BY <2>1, <2>2, DedupedKeeps
  <2> QED
    BY <2>1, <2>3 DEF Prep!Out
<1>10. CASE Prep!Finish
  <2>1. list' = <<>> /\ Prep!Out' = <<>> /\ UNCHANGED said
    BY <1>10 DEF Prep!Finish, Prep!Out, Prep!Nothing
  <2> QED
    BY <2>1, EmptyTalk
<1>11. ASSUME NEW kind \in Prep!Kinds, Prep!Attempt(kind)
       PROVE  Prepared'
  <2>1. /\ Prep!Out' = Prep!Transformed(kind, list) /\ list' = Prep!After(list)
        /\ UNCHANGED said
    BY <1>11 DEF Prep!Attempt, Prep!Out
  <2>2. list' \in Talks /\ Used(list') /\ Apart(list')
    BY <2>1, AfterUsed
  <2>3. Paired(Prep!Linkage(list))
    BY RenamedUsed, LinkagePairs
  <2>4. Paired(Prep!Out') \/ Warns(Prep!Out')
    BY <2>1, <2>3, ArrangedPairs DEF Prep!Transformed
  <2> QED
    BY <2>1, <2>2, <2>4
<1> QED
  BY <1>1, <1>2, <1>3, <1>4, <1>5, <1>6, <1>7, <1>8, <1>9, <1>10, <1>11 DEF Prep!Next

LEMMA PreparedGoes ==
  ASSUME Prepared
  PROVE  CallsStayPaired
<1>1. CASE Paired(Prep!Out)
  <2>1. GoesWith(Prep!Out)
    BY <1>1, PairedGoesWith
  <2> QED
    BY <2>1, PrepCard DEF GoesWith, CallsStayPaired, Prep!CallsStayPaired
<1>2. CASE Warns(Prep!Out)
  <2>1. Prep!Warning
    BY <1>2, TalkFacts DEF Warns, Prep!Warning
  <2> QED
    BY <2>1 DEF CallsStayPaired, Prep!CallsStayPaired
<1> QED
  BY <1>1, <1>2 DEF Prepared

(* Whatever a client and a model said, and however often an attempt failed   *)
(* before: unless a loop of reads was warned of, a provider gets every call  *)
(* answered in the block of results that follows it, and no result but to a  *)
(* call just before (transformRequest, transforms.js:1207-1266).             *)
THEOREM CallsArePaired == Prep!Spec => []CallsStayPaired
<1>1. Prep!Init => Prepared
  BY EmptyTalk DEF Prep!Init, Prep!Out, Prep!Nothing, Prepared
<1>2. Prepared /\ [Prep!Next]_(Prep!vars) => Prepared'
  BY PreparedNext
<1>3. Prepared => CallsStayPaired
  BY PreparedGoes
<1> QED
  BY <1>1, <1>2, <1>3, PTL DEF Prep!Spec
=============================================================================
