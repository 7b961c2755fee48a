------------------------------ MODULE Ownership ------------------------------
(***************************************************************************)
(* Who gives back the memory that upstream payloads are charged for         *)
(* (lib/http-transport.js).  Code runs in a scope: that of a client response *)
(* or of a promise at the root, and below it helpers with a deadline,        *)
(* attempts and native operations.  Whatever reads an upstream body takes a  *)
(* lease on the shared budget, and the lease joins the set of the scope;     *)
(* scopes that end release their leases or hand them to their parent.        *)
(* Scopes nest as the callers nest them (Nesting).                          *)
(*                                                                         *)
(* A scope and a lease of the model are used once.                          *)
(***************************************************************************)
EXTENDS Naturals, FiniteSets, FiniteSetsExt

CONSTANTS
  Scopes,
  Leases,
  None,           \* no scope
  MaxRoots,       \* bound: client requests and background jobs
  MaxLease,       \* bytes one lease may be charged
  MaxRetained     \* bytes of the budget

ASSUME OwnershipAssumption ==
  /\ None \notin Scopes
  /\ MaxRoots \in Nat
  /\ MaxLease \in Nat
  /\ MaxRetained \in Nat

VARIABLES
  scope,          \* the store of each scope and how far its function is
  closed,         \* the scopes whose closed flag is set
  aborted,        \* the scopes whose controller has aborted
  lease,          \* each lease and the I/O that fills it
  budget          \* retainedBytes and leases of the retained budget

vars == <<scope, closed, aborted, lease, budget>>

Roots == {"response", "promise"}
Kinds == Roots \union {"helper", "attempt", "native"}

(* what calls withDeadline, withAttempt and nativeOperation where (a helper   *)
(* directly around a native operation only in tests/transport-deadline)      *)
Nesting ==
  (Roots \X {"helper", "attempt", "native"})
    \union {<<"helper", "attempt">>, <<"helper", "native">>, <<"attempt", "native">>}

(* running: the function is awaited; late: its deadline is over but it goes  *)
(* on; handed: the result and its release are the caller's.                  *)
(* An attempt shares the controller of its parent, a native operation its    *)
(* set of leases; both copy the parent's closed flag when they start.        *)
ScopeType ==
  [kind   : Kinds \union {"none"},
   phase  : {"free", "running", "late", "handed", "over"},
   parent : Scopes \union {None},
   within : SUBSET Scopes,              \* the scope and those around it
   ctl    : Scopes \union {None},       \* whose controller
   set    : Scopes \union {None}]       \* whose set of leases

LeaseType ==
  [phase    : {"free", "active", "settled"},   \* the I/O that fills it
   scope    : Scopes \union {None},
   bytes    : Nat,
   released : BOOLEAN,
   sets     : SUBSET Scopes]                   \* the sets it is in

TypeOK ==
  /\ scope \in [Scopes -> ScopeType]
  /\ closed \subseteq Scopes
  /\ aborted \subseteq Scopes
  /\ lease \in [Leases -> LeaseType]
  /\ budget \in [bytes : Nat, leases : Nat]

Init ==
  /\ scope = [s \in Scopes |->
                [kind |-> "none", phase |-> "free", parent |-> None, within |-> {},
                 ctl |-> None, set |-> None]]
  /\ closed = {}
  /\ aborted = {}
  /\ lease = [l \in Leases |->
                [phase |-> "free", scope |-> None, bytes |-> 0, released |-> FALSE,
                 sets |-> {}]]
  /\ budget = [bytes |-> 0, leases |-> 0]

-----------------------------------------------------------------------------
(* Leases                                                                  *)

Bytes    == [l \in Leases |-> lease[l].bytes]
In(s)    == {l \in Leases : s \in lease[l].sets}
Live(l)  == lease[l].phase # "free" /\ ~lease[l].released

(* the leases in ls are released; a lease released before is left alone      *)
Freed(ls) ==
  [l \in Leases |-> IF l \in ls /\ Live(l)
                    THEN [lease[l] EXCEPT !.released = TRUE, !.bytes = 0]
                    ELSE lease[l]]

(* mutant: a second release counts again *)
RefundedAgain(ls) ==
  [bytes  |-> budget.bytes - SumFunctionOnSet(Bytes, ls),
   leases |-> budget.leases - Cardinality(ls)]

Refunded(ls) ==
  LET live == {l \in ls : Live(l)}
  IN  [bytes  |-> budget.bytes - SumFunctionOnSet(Bytes, live),
       leases |-> budget.leases - Cardinality(live)]

Release(ls) == lease' = Freed(ls) /\ budget' = Refunded(ls)

(* the set of s is emptied: moved goes to other sets, the rest is released    *)
HandOver(s, moved, to) ==
  /\ lease' = [l \in Leases |->
                 [Freed(In(s) \ moved)[l] EXCEPT
                    !.sets = (@ \ {s}) \union (IF l \in moved THEN to ELSE {})]]
  /\ budget' = Refunded(In(s) \ moved)

(* a fresh one: scopes and leases have no names of their own *)
FreshLease == CHOOSE l \in Leases : lease[l].phase = "free"
FreshScope == CHOOSE s \in Scopes : scope[s].phase = "free"

(* collector and ownedLease, in code that runs in s; when s has closed or its *)
(* controller has aborted, they throw                                        *)
Acquire(l, s) ==
  /\ lease[l].phase = "free" /\ l = FreshLease
  /\ scope[s].phase \in {"running", "late"}
  /\ s \notin closed /\ scope[s].ctl \notin aborted
  /\ lease' = [lease EXCEPT ![l] =
       [phase |-> "active", scope |-> s, bytes |-> 0, released |-> FALSE,
        sets |-> {scope[s].set}]]
  /\ budget' = [budget EXCEPT !.leases = @ + 1]
  /\ UNCHANGED <<scope, closed, aborted>>

(* a chunk arrives; past a limit, or when the lease is released, it is thrown *)
(* away and the I/O fails                                                    *)
Retain(l) ==
  /\ lease[l].phase = "active" /\ ~lease[l].released
  /\ lease[l].bytes < MaxLease /\ budget.bytes < MaxRetained
  /\ lease' = [lease EXCEPT ![l].bytes = @ + 1]
  /\ budget' = [budget EXCEPT !.bytes = @ + 1]
  /\ UNCHANGED <<scope, closed, aborted>>

(* the body is complete and its payload goes on with the lease *)
Complete(l) ==
  /\ lease[l].phase = "active"
  /\ lease' = [lease EXCEPT ![l].phase = "settled"]
  /\ UNCHANGED <<scope, closed, aborted, budget>>

(* the I/O fails, is aborted, times out or has nothing left to keep *)
Discard(l) ==
  /\ lease[l].phase = "active"
  /\ lease' = [Freed({l}) EXCEPT ![l].phase = "settled"]
  /\ budget' = Refunded({l})
  /\ UNCHANGED <<scope, closed, aborted>>

-----------------------------------------------------------------------------
(* Scopes                                                                  *)

Running(s)  == scope[s].phase \in {"running", "late"}
Alone(s)    == \A c \in Scopes : scope[c].parent = s => scope[c].phase # "running"
Goto(s, phase) == scope' = [scope EXCEPT ![s].phase = phase]

Listeners(c, kinds) ==
  {d \in Scopes : /\ scope[d].kind \in kinds
                  /\ scope[d].phase = "running"
                  /\ c \in {scope[x].ctl : x \in scope[d].within}}

(* mutant: a native operation does not listen to its parent *)
ReachedHelpers(c) == {c} \union Listeners(c, {"helper"})

(* the controllers that abort with c: helpers and native operations listen   *)
(* to the controller around them while they run                              *)
Reached(c) == {c} \union Listeners(c, {"helper", "native"})

(* withOwnership where there is no scope yet *)
Own(s) ==
  /\ scope[s].phase = "free" /\ s = FreshScope
  /\ Cardinality({r \in Scopes : scope[r].kind \in Roots}) < MaxRoots
  /\ \E kind \in Roots :
       scope' = [scope EXCEPT ![s] =
         [kind |-> kind, phase |-> "running", parent |-> None, within |-> {s},
          ctl |-> s, set |-> s]]
  /\ UNCHANGED <<closed, aborted, lease, budget>>

(* a scope below p that starts with the given controller; a helper or native  *)
(* operation is not started once the parent has aborted                      *)
EnterWith(s, p, kind, ctl) ==
  /\ scope[s].phase = "free" /\ s = FreshScope
  /\ Running(p) /\ <<scope[p].kind, kind>> \in Nesting
  /\ kind \in {"helper", "native"} => scope[p].ctl \notin aborted
  /\ scope' = [scope EXCEPT ![s] =
       [kind |-> kind, phase |-> "running", parent |-> p,
        within |-> scope[p].within \union {s}, ctl |-> ctl,
        set |-> IF kind = "native" THEN scope[p].set ELSE s]]
  /\ closed' = closed \union {x \in {s} : kind # "helper" /\ p \in closed}
  /\ UNCHANGED <<aborted, lease, budget>>

(* mutant: a helper runs with the controller of its parent *)
EnterShared(s, p) ==
  \E kind \in Kinds : EnterWith(s, p, kind, IF kind = "native" THEN s ELSE scope[p].ctl)

(* withDeadline, withAttempt and nativeOperation below p *)
Enter(s, p) ==
  \E kind \in Kinds : EnterWith(s, p, kind, IF kind = "attempt" THEN scope[p].ctl ELSE s)

(* done: the response finished, closed or failed *)
Done(s) ==
  /\ s \notin closed
  /\ closed' = closed \union {s}
  /\ aborted' = aborted \union Reached(s)
  /\ HandOver(s, {}, {})

ResponseCloses(s) ==
  /\ scope[s].kind = "response"
  /\ Done(s)
  /\ UNCHANGED scope

(* the function of a root ends; a response may outlive it, and so may work    *)
(* the function no longer waits for                                          *)
ResponseEnds(s) ==
  /\ scope[s].kind = "response" /\ scope[s].phase = "running"
  /\ Goto(s, "over")
  /\ UNCHANGED <<closed, aborted, lease, budget>>

PromiseEnds(s) ==
  /\ scope[s].kind = "promise" /\ scope[s].phase = "running" /\ Alone(s)
  /\ \/ Goto(s, "handed") /\ UNCHANGED <<closed, aborted, lease, budget>>
     \/ Done(s) /\ Goto(s, "over")

(* the caller is finished with a result that was handed to it *)
CallerReleases(s) ==
  /\ scope[s].kind = "promise" /\ scope[s].phase = "handed"
  /\ Done(s)
  /\ Goto(s, "over")

(* the finally of withDeadline, its function being in the given phase *)
Returned(s, phase, moved) ==
  /\ Goto(s, phase)
  /\ closed' = closed \union {s}
  /\ aborted' = aborted \union Reached(scope[s].ctl)
  /\ HandOver(s, moved, {scope[scope[s].parent].set})

(* mutant: leases go to the parent, closed or not *)
HelperReturnsAnyway(s, completed, phase) ==
  Returned(s, phase, IF completed THEN In(s) ELSE {})

HelperReturns(s, completed, phase) ==
  Returned(s, phase, IF completed /\ scope[s].parent \notin closed THEN In(s) ELSE {})

(* the function of a helper returns or throws; it may return just before its *)
(* controller aborts                                                         *)
HelperEnds(s) ==
  /\ scope[s].kind = "helper" /\ scope[s].phase = "running" /\ Alone(s)
  /\ \E completed \in BOOLEAN : HelperReturns(s, completed, "over")

(* the deadline of a helper or the time limit of a native operation *)
Timeout(s) ==
  /\ scope[s].kind \in {"helper", "native"} /\ scope[s].phase = "running"
  /\ s \notin aborted
  /\ aborted' = aborted \union Reached(scope[s].ctl)
  /\ UNCHANGED <<scope, closed, lease, budget>>

(* an aborted helper rejects although its function has not ended *)
HelperAbandoned(s) ==
  /\ scope[s].kind = "helper" /\ scope[s].phase = "running"
  /\ scope[s].ctl \in aborted
  /\ HelperReturns(s, FALSE, "late")

LateHelperEnds(s) ==
  /\ scope[s].phase = "late" /\ Alone(s)
  /\ Goto(s, "over")
  /\ UNCHANGED <<closed, aborted, lease, budget>>

NativeEnds(s) ==
  /\ scope[s].kind = "native" /\ scope[s].phase = "running"
  /\ Goto(s, "over")
  /\ UNCHANGED <<closed, aborted, lease, budget>>

(* leases join the set of the parent, too *)
Kept(s) ==
  LET p == scope[s].parent
  IN  /\ p \notin closed
      /\ Goto(s, "handed")
      /\ lease' = [l \in Leases |->
           IF l \in In(s) THEN [lease[l] EXCEPT !.sets = @ \union {scope[p].set}]
           ELSE lease[l]]
      /\ UNCHANGED budget

(* mutant: leases of an attempt whose parent closed meanwhile are forgotten *)
AttemptEndsForgetting(s) ==
  /\ scope[s].kind = "attempt" /\ scope[s].phase = "running" /\ Alone(s)
  /\ \/ Kept(s)
     \/ /\ Goto(s, "over")
        /\ IF scope[s].parent \in closed THEN UNCHANGED <<lease, budget>> ELSE Release(In(s))
  /\ UNCHANGED <<closed, aborted>>

(* an attempt whose result or error holds a payload hands its leases to the  *)
(* parent, unless that has closed                                            *)
AttemptEnds(s) ==
  /\ scope[s].kind = "attempt" /\ scope[s].phase = "running" /\ Alone(s)
  /\ \/ Kept(s)
     \/ Goto(s, "over") /\ Release(In(s))
  /\ UNCHANGED <<closed, aborted>>

(* release() of an attempt's result or error: a retry replaces it *)
ResultReleased(s) ==
  /\ scope[s].kind = "attempt" /\ scope[s].phase = "handed"
  /\ Goto(s, "over")
  /\ lease' = [l \in Leases |->
       IF l \in In(s) THEN [Freed(In(s))[l] EXCEPT !.sets = @ \ {scope[scope[s].parent].set}]
       ELSE lease[l]]
  /\ budget' = Refunded(In(s))
  /\ UNCHANGED <<closed, aborted>>

IOEnds(l) == Complete(l) \/ Discard(l)

ScopeEnds(s) ==
  \/ ResponseEnds(s) \/ PromiseEnds(s) \/ HelperEnds(s) \/ HelperAbandoned(s)
  \/ LateHelperEnds(s) \/ NativeEnds(s) \/ AttemptEnds(s)

Next ==
  \/ \E l \in Leases : Retain(l) \/ IOEnds(l) \/ \E s \in Scopes : Acquire(l, s)
  \/ \E s \in Scopes :
       \/ Own(s) \/ ResponseCloses(s) \/ CallerReleases(s) \/ Timeout(s)
       \/ ScopeEnds(s) \/ ResultReleased(s)
       \/ \E p \in Scopes : Enter(s, p)

Spec == Init /\ [][Next]_vars

(* Upstream I/O has a time limit and the functions of scopes end.            *)
FairSpec ==
  /\ Spec
  /\ \A l \in Leases : WF_vars(IOEnds(l))
  /\ \A s \in Scopes : WF_vars(ScopeEnds(s))

-----------------------------------------------------------------------------
(* Properties                                                              *)

(* the scopes that will release what is in their set *)
Answers(s) ==
  \/ scope[s].kind \in Roots /\ s \notin closed
  \/ scope[s].kind \in {"helper", "attempt"} /\ scope[s].phase = "running"

(* No lease is lost: in whatever order attempts, helpers and their deadlines, *)
(* native operations and the client's response end, each lease that is not    *)
(* released is in the set of a scope that will release it.                    *)
LeasesHaveOwners ==
  \A l \in Leases : Live(l) => \E s \in lease[l].sets : Answers(s)

(* Releases are counted once although scopes, results and the I/O release the *)
(* same lease: the budget is charged what the live leases hold, no more and   *)
(* no less, and never more than it allows.                                    *)
BudgetExact ==
  LET live == {l \in Leases : Live(l)}
  IN  /\ budget.leases = Cardinality(live)
      /\ budget.bytes = SumFunctionOnSet(Bytes, live)
      /\ budget.bytes <= MaxRetained

(* http-transport.js:118: "Timing it out must never cancel the enclosing      *)
(* client request": the controller of a root aborts only when it is done.     *)
RequestOutlivesHelpers ==
  [][\A s \in aborted' \ aborted : scope[s].kind \in Roots => s \in closed']_vars

(* http-transport.js:119: "late fallback dispatches see abort": once a helper *)
(* has returned, nothing its function still runs takes a lease.               *)
NothingAfterDeadline ==
  [][\A l \in Leases :
       lease[l].phase = "free" /\ lease'[l].phase = "active"
       => \A h \in scope[lease'[l].scope].within :
            scope[h].kind = "helper" => scope[h].phase = "running"]_vars

(* When the client's response is over, everything retained for it is given    *)
(* back in the end, by attempts that were still running, too.                 *)
ClosedResponseGivesBack ==
  \A s \in Scopes :
    scope[s].kind = "response" /\ s \in closed
    ~> \A l \in Leases : ~(Live(l) /\ s \in scope[lease[l].scope].within)
=============================================================================
