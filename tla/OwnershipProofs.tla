--------------------------- MODULE OwnershipProofs ---------------------------
(***************************************************************************)
(* No lease is lost (LeasesHaveOwners), for any number of scopes, leases     *)
(* and roots.  The inductive invariant says how the scopes nest (Nested),    *)
(* that an abort has reached everything that still runs below it             *)
(* (AbortReaches), and that an attempt outlives what runs in it.  The budget *)
(* of leases and the counters of body admission are exact: they are sums of  *)
(* what is live, and each step changes one part of a sum.                    *)
(***************************************************************************)
EXTENDS Ownership, RequestBodies, Inductions, TLAPS

(* TypeOK without the counters of the budget, which no guard of the scopes    *)
(* reads                                                                     *)
Typed ==
  /\ scope \in [Scopes -> ScopeType]
  /\ closed \subseteq Scopes
  /\ aborted \subseteq Scopes
  /\ lease \in [Leases -> LeaseType]

Below == {"helper", "attempt", "native"}

(* what is fixed when a scope starts *)
RootsAlone ==
  \A s \in Scopes :
    scope[s].kind \in Roots =>
      scope[s].within = {s} /\ scope[s].ctl = s /\ scope[s].set = s

BelowParent ==
  \A s \in Scopes :
    scope[s].kind \in Below =>
      /\ scope[s].parent \in Scopes
      /\ scope[s].parent # s
      /\ <<scope[scope[s].parent].kind, scope[s].kind>> \in Nesting
      /\ scope[s].within = scope[scope[s].parent].within \union {s}
      /\ scope[s].ctl = IF scope[s].kind = "attempt"
                        THEN scope[scope[s].parent].ctl ELSE s
      /\ scope[s].set = IF scope[s].kind = "native"
                        THEN scope[scope[s].parent].set ELSE s

WithinClosed ==
  \A s \in Scopes : \A x \in scope[s].within :
    /\ scope[x].kind # "none"
    /\ scope[x].within \subseteq scope[s].within
    /\ scope[x].ctl \in scope[x].within

Started ==
  /\ \A s \in Scopes : (scope[s].phase = "free") <=> (scope[s].kind = "none")
  /\ \A s \in Scopes : scope[s].phase = "late" => scope[s].kind = "helper"
  /\ \A s \in aborted \union closed : scope[s].kind # "none"
  /\ \A s \in Scopes : scope[s].kind = "none" => scope[s].parent = None

Nested == RootsAlone /\ BelowParent /\ WithinClosed

(* who has closed or returned has aborted *)
ClosedAborted ==
  \A s \in Scopes :
    /\ (scope[s].kind \in Roots /\ s \in closed => s \in aborted)
    /\ (scope[s].kind = "helper" /\ scope[s].phase # "running"
          => s \in aborted /\ s \in closed)

Listening(s) ==
  \/ scope[s].kind = "helper"
  \/ scope[s].kind = "native" /\ scope[s].phase = "running"

AbortReaches ==
  \A s \in Scopes : Listening(s) =>
    \A x \in scope[s].within : scope[x].ctl \in aborted => s \in aborted

AttemptsWait ==
  \A s \in Scopes :
    (/\ scope[s].kind = "native" /\ scope[s].phase = "running"
     /\ scope[scope[s].parent].kind = "attempt")
    => scope[scope[s].parent].phase = "running"

IInv ==
  /\ Typed /\ Started /\ Nested
  /\ ClosedAborted /\ AbortReaches /\ AttemptsWait
  /\ LeasesHaveOwners

-----------------------------------------------------------------------------
(* Initial states, types                                                   *)

LEMMA InitInv == Init => IInv
<1> SUFFICES ASSUME Init PROVE IInv
  OBVIOUS
<1>1. Typed
  BY DEF Init, Typed, ScopeType, LeaseType, Kinds, Roots
<1>2. Started /\ Nested
  BY DEF Init, Started, Nested, RootsAlone, BelowParent, WithinClosed, Roots, Below
<1>3. ClosedAborted /\ AbortReaches /\ AttemptsWait
  BY DEF Init, ClosedAborted, AbortReaches, Listening, AttemptsWait, Roots
<1>4. LeasesHaveOwners
  BY DEF Init, LeasesHaveOwners, Live
<1> QED
  BY <1>1, <1>2, <1>3, <1>4 DEF IInv

LEMMA FreedType ==
  ASSUME Typed, NEW ls
  PROVE  Freed(ls) \in [Leases -> LeaseType]
BY DEF Typed, Freed, LeaseType

(* the scopes there are keep their places, and none starts running          *)
GoOn ==
  /\ Typed'
  /\ \A s \in Scopes :
       /\ scope'[s].kind = scope[s].kind
       /\ scope'[s].parent = scope[s].parent
       /\ scope'[s].within = scope[s].within
       /\ scope'[s].ctl = scope[s].ctl
       /\ scope'[s].set = scope[s].set
       /\ (scope'[s].phase = "free") <=> (scope[s].phase = "free")
       /\ scope'[s].phase = "running" => scope[s].phase = "running"

LEMMA GotoGoesOn ==
  ASSUME Typed, NEW s \in Scopes, scope[s].phase # "free",
         NEW phase \in {"late", "handed", "over"}, Goto(s, phase),
         closed' \subseteq Scopes, aborted' \subseteq Scopes, lease' \in [Leases -> LeaseType]
  PROVE  GoOn
<1>1. scope \in [Scopes -> ScopeType]
  BY DEF Typed
<1>2. \A x \in Scopes : scope'[x] = IF x = s THEN [scope[s] EXCEPT !.phase = phase]
                                    ELSE scope[x]
  BY <1>1 DEF Goto
<1>3. [scope[s] EXCEPT !.phase = phase] \in ScopeType
  BY <1>1 DEF ScopeType
<1>4. scope' \in [Scopes -> ScopeType]
  BY <1>1, <1>2, <1>3 DEF Goto
<1>5. ASSUME NEW x \in Scopes
      PROVE  /\ scope'[x].kind = scope[x].kind
             /\ scope'[x].parent = scope[x].parent
             /\ scope'[x].within = scope[x].within
             /\ scope'[x].ctl = scope[x].ctl
             /\ scope'[x].set = scope[x].set
             /\ (scope'[x].phase = "free") <=> (scope[x].phase = "free")
             /\ scope'[x].phase = "running" => scope[x].phase = "running"
  BY <1>1, <1>2 DEF ScopeType
<1> QED
  BY <1>4, <1>5 DEF GoOn, Typed

LEMMA NestedStays ==
  ASSUME Typed, Nested, GoOn
  PROVE  Nested'
<1>1. \A s \in Scopes : scope[s].within \subseteq Scopes
  BY DEF Typed, ScopeType
<1>2. RootsAlone'
  BY DEF Nested, RootsAlone, GoOn
<1>3. BelowParent'
  <2> SUFFICES ASSUME NEW s \in Scopes, scope[s].kind \in Below
               PROVE  /\ scope'[s].parent \in Scopes
                      /\ scope'[s].parent # s
                      /\ <<scope'[scope'[s].parent].kind, scope'[s].kind>> \in Nesting
                      /\ scope'[s].within = scope'[scope'[s].parent].within \union {s}
                      /\ scope'[s].ctl = IF scope'[s].kind = "attempt"
                                         THEN scope'[scope'[s].parent].ctl ELSE s
                      /\ scope'[s].set = IF scope'[s].kind = "native"
                                         THEN scope'[scope'[s].parent].set ELSE s
    BY DEF GoOn, BelowParent
  <2> DEFINE p == scope[s].parent
  <2>1. p \in Scopes
    BY DEF Nested, BelowParent
  <2>2. /\ p # s
        /\ <<scope[p].kind, scope[s].kind>> \in Nesting
        /\ scope[s].within = scope[p].within \union {s}
        /\ scope[s].ctl = IF scope[s].kind = "attempt" THEN scope[p].ctl ELSE s
        /\ scope[s].set = IF scope[s].kind = "native" THEN scope[p].set ELSE s
    BY DEF Nested, BelowParent
  <2>3. scope'[s].parent = p /\ scope'[s].kind = scope[s].kind
        /\ scope'[s].within = scope[s].within /\ scope'[s].ctl = scope[s].ctl
        /\ scope'[s].set = scope[s].set
    BY DEF GoOn
  <2>4. scope'[p].kind = scope[p].kind /\ scope'[p].within = scope[p].within
        /\ scope'[p].ctl = scope[p].ctl /\ scope'[p].set = scope[p].set
    BY <2>1 DEF GoOn
  <2> QED
    BY <2>1, <2>2, <2>3, <2>4
<1>4. WithinClosed'
  BY <1>1 DEF Nested, WithinClosed, GoOn
<1> QED
  BY <1>2, <1>3, <1>4 DEF Nested

(* what the controllers of an ancestor abort, aborts the scope *)
LEMMA AbortKeepsReaching ==
  ASSUME Typed, Started, Nested, ClosedAborted, AbortReaches, GoOn,
         aborted' = aborted \/ \E c \in Scopes : aborted' = aborted \union Reached(c)
  PROVE  AbortReaches'
<1> SUFFICES ASSUME NEW s \in Scopes, Listening(s)',
                    NEW x \in scope[s].within, scope[x].ctl \in aborted'
             PROVE  s \in aborted'
  BY DEF AbortReaches, Listening, GoOn, Typed, ScopeType
<1>1. x \in Scopes /\ scope[x].within \subseteq scope[s].within
      /\ scope[x].ctl \in scope[x].within /\ scope[x].within \subseteq Scopes
  BY DEF Nested, WithinClosed, Typed, ScopeType
<1>2. Listening(s)
  BY DEF Listening, GoOn
<1>3. CASE scope[x].ctl \in aborted
  BY <1>2, <1>3 DEF AbortReaches
<1>4. CASE scope[x].ctl \notin aborted
  <2>1. PICK c \in Scopes : aborted' = aborted \union Reached(c)
    BY <1>4
  <2>2. CASE scope[s].phase # "running"
    BY <1>2, <2>1, <2>2 DEF Listening, ClosedAborted
  <2>3. CASE scope[s].phase = "running"
    <3>1. CASE scope[x].ctl = c
      BY <1>2, <2>1, <2>3, <3>1 DEF Reached, Listeners, Listening
    <3>2. CASE scope[x].ctl # c
      <4> DEFINE e == scope[x].ctl
      <4>1. e \in Scopes /\ c \in {scope[y].ctl : y \in scope[e].within}
        BY <1>1, <1>4, <2>1, <3>2 DEF Reached, Listeners
      <4>2. scope[e].within \subseteq scope[s].within
        BY <1>1 DEF Nested, WithinClosed
      <4>3. c \in {scope[y].ctl : y \in scope[s].within}
        BY <4>1, <4>2
      <4> QED
        BY <1>2, <2>1, <2>3, <4>3 DEF Reached, Listeners, Listening
    <3> QED
      BY <3>1, <3>2
  <2> QED
    BY <2>2, <2>3
<1> QED
  BY <1>3, <1>4

-----------------------------------------------------------------------------
(* Facts about places                                                      *)

LEMMA NestingKinds ==
  ASSUME NEW j, NEW k, <<j, k>> \in Nesting
  PROVE  /\ j \in Roots \union {"helper", "attempt"}
         /\ k \in Below
         /\ k = "helper" => j \in Roots
         /\ k = "attempt" => j \in Roots \union {"helper"}
BY DEF Nesting, Roots, Below

LEMMA Parents ==
  ASSUME Typed, Nested, NEW s \in Scopes, scope[s].kind \in Below
  PROVE  /\ scope[s].parent \in Scopes
         /\ scope[s].parent # s
         /\ scope[scope[s].parent].kind \in Roots \union {"helper", "attempt"}
         /\ scope[s].kind = "helper" => scope[scope[s].parent].kind \in Roots
         /\ scope[s].kind = "attempt" => scope[scope[s].parent].kind \in Roots \union {"helper"}
         /\ scope[scope[s].parent].set = scope[s].parent
<1> DEFINE p == scope[s].parent
<1>1. p \in Scopes /\ p # s /\ <<scope[p].kind, scope[s].kind>> \in Nesting
  BY DEF Nested, BelowParent
<1>2. /\ scope[p].kind \in Roots \union {"helper", "attempt"}
      /\ scope[s].kind = "helper" => scope[p].kind \in Roots
      /\ scope[s].kind = "attempt" => scope[p].kind \in Roots \union {"helper"}
  BY <1>1, NestingKinds
<1>3. scope[p].set = p
  BY <1>1, <1>2 DEF Nested, RootsAlone, BelowParent, Below
<1> QED
  BY <1>1, <1>2, <1>3

LEMMA WithinItself ==
  ASSUME Nested, NEW s \in Scopes, scope[s].kind \in Kinds
  PROVE  /\ s \in scope[s].within
         /\ scope[s].kind \in Below => scope[s].parent \in scope[s].within
<1>1. scope[s].kind \in Roots \/ scope[s].kind \in Below
  BY DEF Kinds, Roots, Below
<1>2. CASE scope[s].kind \in Roots
  BY <1>2 DEF Nested, RootsAlone, Roots, Below
<1>3. CASE scope[s].kind \in Below
  <2> DEFINE p == scope[s].parent
  <2>1. p \in Scopes /\ <<scope[p].kind, scope[s].kind>> \in Nesting
        /\ scope[s].within = scope[p].within \union {s}
    BY <1>3 DEF Nested, BelowParent
  <2>2. scope[p].kind \in Roots \/ scope[p].kind \in Below
    BY <2>1, NestingKinds DEF Below
  <2>3. CASE scope[p].kind \in Roots
    BY <2>1, <2>3 DEF Nested, RootsAlone
  <2>4. CASE scope[p].kind \in Below
    BY <2>1, <2>4 DEF Nested, BelowParent
  <2> QED
    BY <2>1, <2>2, <2>3, <2>4
<1> QED
  BY <1>1, <1>2, <1>3

(* a lease keeps an owner when only s changes and those it owned are released *)
(* or go to another                                                          *)
LEMMA OwnersStay ==
  ASSUME LeasesHaveOwners, NEW s \in Scopes,
         lease \in [Leases -> LeaseType],
         closed' \subseteq closed \union {s},
         \A x \in Scopes \ {s} : /\ scope'[x].kind = scope[x].kind
                                 /\ scope'[x].phase = scope[x].phase,
         \A l \in Leases : Live(l)' =>
           /\ Live(l)
           /\ lease[l].sets \ {s} \subseteq lease'[l].sets
           /\ s \in lease[l].sets /\ Answers(s) => \E x \in lease'[l].sets : Answers(x)'
  PROVE  LeasesHaveOwners'
<1> SUFFICES ASSUME NEW l \in Leases, Live(l)'
             PROVE  \E x \in lease'[l].sets : Answers(x)'
  BY DEF LeasesHaveOwners
<1>1. PICK x \in lease[l].sets : Answers(x)
  BY DEF LeasesHaveOwners
<1>2. CASE x = s
  BY <1>1, <1>2
<1>3. CASE x # s
  <2>1. x \in Scopes /\ x \in lease'[l].sets
    BY <1>3 DEF LeaseType
  <2>2. Answers(x)'
    BY <1>1, <1>3, <2>1 DEF Answers
  <2> QED
    BY <2>1, <2>2
<1> QED
  BY <1>2, <1>3

-----------------------------------------------------------------------------
(* A new scope                                                             *)

(* a scope that starts below one whose controller has not aborted starts     *)
(* below none that has                                                       *)
LEMMA NoneAborted ==
  ASSUME Typed, Nested, AbortReaches, NEW p \in Scopes,
         scope[p].kind \in Roots \union {"helper", "attempt"},
         scope[p].ctl \notin aborted
  PROVE  \A x \in scope[p].within : scope[x].ctl \notin aborted
<1>1. ASSUME NEW q \in Scopes, scope[q].kind \in Roots \union {"helper"},
             scope[q].ctl \notin aborted
      PROVE  \A x \in scope[q].within : scope[x].ctl \notin aborted
  <2>1. CASE scope[q].kind \in Roots
    BY <1>1, <2>1 DEF Nested, RootsAlone
  <2>2. CASE scope[q].kind = "helper"
    <3>1. scope[q].ctl = q
      BY <2>2 DEF Nested, BelowParent, Below
    <3> QED
      BY <1>1, <2>2, <3>1 DEF AbortReaches, Listening
  <2> QED
    BY <1>1, <2>1, <2>2
<1>2. CASE scope[p].kind \in Roots \union {"helper"}
  BY <1>1, <1>2
<1>3. CASE scope[p].kind = "attempt"
  <2> DEFINE q == scope[p].parent
  <2>1. q \in Scopes /\ scope[q].kind \in Roots \union {"helper"}
    BY <1>3, Parents DEF Below
  <2>2. scope[p].within = scope[q].within \union {p} /\ scope[p].ctl = scope[q].ctl
    BY <1>3 DEF Nested, BelowParent, Below
  <2>3. \A x \in scope[q].within : scope[x].ctl \notin aborted
    BY <1>1, <2>1, <2>2
  <2> QED
    BY <2>2, <2>3
<1> QED
  BY <1>2, <1>3

(* nobody refers to a scope that has not started *)
LEMMA Unknown ==
  ASSUME Typed, Started, Nested, NEW s \in Scopes, scope[s].kind = "none"
  PROVE  /\ s \notin aborted /\ s \notin closed
         /\ \A y \in Scopes : s \notin scope[y].within
         /\ \A y \in Scopes : scope[y].kind \in Below => scope[y].parent # s
<1>1. s \notin aborted /\ s \notin closed
  BY DEF Started
<1>2. \A y \in Scopes : s \notin scope[y].within
  BY DEF Nested, WithinClosed
<1>3. ASSUME NEW y \in Scopes, scope[y].kind \in Below
      PROVE  scope[y].parent # s
  BY <1>3, Parents DEF Roots
<1> QED
  BY <1>1, <1>2, <1>3

LEMMA StartKeeps ==
  ASSUME IInv, NEW s \in Scopes, scope[s].phase = "free",
         NEW r \in ScopeType, r.kind \in Kinds, r.phase = "running",
         scope' = [scope EXCEPT ![s] = r],
         closed \subseteq closed', closed' \subseteq closed \union {s},
         aborted' = aborted, lease' = lease,
         r.kind \in Roots =>
           /\ r.within = {s} /\ r.ctl = s /\ r.set = s
           /\ closed' = closed,
         r.kind \in Below =>
           /\ r.parent \in Scopes /\ Running(r.parent)
           /\ <<scope[r.parent].kind, r.kind>> \in Nesting
           /\ r.within = scope[r.parent].within \union {s}
           /\ r.ctl = IF r.kind = "attempt" THEN scope[r.parent].ctl ELSE s
           /\ r.set = IF r.kind = "native" THEN scope[r.parent].set ELSE s,
         r.kind \in {"helper", "native"} => scope[r.parent].ctl \notin aborted
  PROVE  IInv'
<1>1. Typed /\ Started /\ Nested /\ AbortReaches
  BY DEF IInv
<1>2. scope[s].kind = "none"
  BY <1>1 DEF Started
<1>3. /\ s \notin aborted /\ s \notin closed
      /\ \A y \in Scopes : s \notin scope[y].within
      /\ \A y \in Scopes : scope[y].kind \in Below => scope[y].parent # s
  BY <1>1, <1>2, Unknown
<1>4. Typed'
  BY <1>1 DEF Typed
<1>5. scope'[s] = r /\ \A x \in Scopes \ {s} : scope'[x] = scope[x]
  BY <1>1 DEF Typed
<1>6. r.kind # "none" /\ (r.kind \in Roots \/ r.kind \in Below)
      /\ ~(r.kind \in Roots /\ r.kind \in Below)
  BY DEF Kinds, Roots, Below
<1>7. ASSUME NEW y \in Scopes \ {s}, NEW x \in scope[y].within
      PROVE  x \in Scopes /\ scope'[x] = scope[x]
  BY <1>1, <1>3, <1>5 DEF Typed, ScopeType
<1>8. ASSUME NEW y \in Scopes \ {s}, scope[y].kind \in Below
      PROVE  scope'[scope[y].parent] = scope[scope[y].parent]
  BY <1>1, <1>3, <1>5, <1>8 DEF Nested, BelowParent
<1>9. ASSUME r.kind \in Below
      PROVE  /\ r.parent \in Scopes \ {s}
             /\ scope[r.parent].kind \in Roots \union {"helper", "attempt"}
             /\ scope[r.parent].kind \in Kinds
             /\ r.parent \in scope[r.parent].within
  <2>1. r.parent \in Scopes \ {s}
    BY <1>9 DEF Running
  <2>2. scope[r.parent].kind \in Roots \union {"helper", "attempt"}
    BY <1>9, NestingKinds
  <2>3. scope[r.parent].kind \in Kinds
    BY <2>2 DEF Kinds
  <2> QED
    BY <1>1, <2>1, <2>2, <2>3, WithinItself
<1>10. Started'
  BY <1>1, <1>5, <1>6 DEF Started, Typed
<1>11. RootsAlone'
  BY <1>1, <1>5 DEF Nested, RootsAlone
<1>12. BelowParent'
  <2> SUFFICES ASSUME NEW y \in Scopes, scope'[y].kind \in Below
               PROVE  /\ scope'[y].parent \in Scopes
                      /\ scope'[y].parent # y
                      /\ <<scope'[scope'[y].parent].kind, scope'[y].kind>> \in Nesting
                      /\ scope'[y].within = scope'[scope'[y].parent].within \union {y}
                      /\ scope'[y].ctl = IF scope'[y].kind = "attempt"
                                         THEN scope'[scope'[y].parent].ctl ELSE y
                      /\ scope'[y].set = IF scope'[y].kind = "native"
                                         THEN scope'[scope'[y].parent].set ELSE y
    BY DEF BelowParent
  <2>1. CASE y = s
    BY <1>5, <1>9, <2>1
  <2>2. CASE y # s
    <3>1. scope'[y] = scope[y] /\ scope'[scope[y].parent] = scope[scope[y].parent]
      BY <1>5, <1>8, <2>2
    <3> QED
      BY <1>1, <3>1 DEF Nested, BelowParent
  <2> QED
    BY <2>1, <2>2
<1>13. WithinClosed'
  <2> SUFFICES ASSUME NEW y \in Scopes, NEW x \in scope'[y].within
               PROVE  /\ scope'[x].kind # "none"
                      /\ scope'[x].within \subseteq scope'[y].within
                      /\ scope'[x].ctl \in scope'[x].within
    BY DEF WithinClosed
  <2>1. CASE y # s
    <3>1. scope'[y] = scope[y] /\ x \in scope[y].within /\ scope'[x] = scope[x]
      BY <1>5, <1>7, <2>1
    <3> QED
      BY <1>1, <3>1 DEF Nested, WithinClosed
  <2>2. CASE y = s /\ r.kind \in Roots
    BY <1>5, <1>6, <2>2
  <2>3. CASE y = s /\ r.kind \in Below
    <3> DEFINE p == r.parent
    <3>1. p \in Scopes \ {s} /\ p \in scope[p].within
      BY <1>9, <2>3
    <3>2. scope'[s].within = scope[p].within \union {s}
      BY <1>5, <2>3
    <3>3. CASE x = s
      <4>1. scope[p].ctl \in scope[p].within
        BY <1>1, <3>1 DEF Nested, WithinClosed
      <4>2. r.ctl = s \/ r.ctl = scope[p].ctl
        BY <2>3
      <4> QED
        BY <1>5, <1>6, <2>3, <3>2, <3>3, <4>1, <4>2
    <3>4. CASE x # s
      <4>1. x \in scope[p].within /\ scope'[x] = scope[x]
        BY <1>7, <2>3, <3>1, <3>2, <3>4
      <4>2. scope[x].kind # "none" /\ scope[x].within \subseteq scope[p].within
            /\ scope[x].ctl \in scope[x].within
        BY <1>1, <3>1, <4>1 DEF Nested, WithinClosed
      <4> QED
        BY <2>3, <3>2, <4>1, <4>2
    <3> QED
      BY <3>3, <3>4
  <2> QED
    BY <1>6, <2>1, <2>2, <2>3
<1>14. ClosedAborted'
  <2>1. ASSUME NEW y \in Scopes \ {s} PROVE y \in closed' => y \in closed
    OBVIOUS
  <2>2. s \in closed' => r.kind \notin Roots
    BY <1>3
  <2>3. ClosedAborted
    BY DEF IInv
  <2>4. ASSUME NEW y \in Scopes
        PROVE  /\ scope'[y].kind \in Roots /\ y \in closed' => y \in aborted'
               /\ scope'[y].kind = "helper" /\ scope'[y].phase # "running"
                    => y \in aborted' /\ y \in closed'
    <3>1. CASE y = s
      BY <1>5, <2>2, <3>1
    <3>2. CASE y # s
      <4>1. scope'[y] = scope[y]
        BY <1>5, <3>2
      <4> QED
        BY <2>1, <2>3, <3>2, <4>1 DEF ClosedAborted
    <3> QED
      BY <3>1, <3>2
  <2> QED
    BY <2>4 DEF ClosedAborted
<1>15. AbortReaches'
  <2> SUFFICES ASSUME NEW y \in Scopes, Listening(y)', NEW x \in scope'[y].within,
                      scope'[x].ctl \in aborted
               PROVE  y \in aborted
    BY DEF AbortReaches
  <2>1. CASE y # s
    <3>1. scope'[y] = scope[y] /\ x \in scope[y].within /\ scope'[x] = scope[x]
      BY <1>5, <1>7, <2>1
    <3> QED
      BY <1>1, <3>1 DEF AbortReaches, Listening
  <2>2. CASE y = s
    <3>1. r.kind \in {"helper", "native"}
      BY <1>5, <2>2 DEF Listening
    <3> DEFINE p == r.parent
    <3>2. /\ p \in Scopes \ {s} /\ scope[p].ctl \notin aborted
          /\ scope[p].kind \in Roots \union {"helper", "attempt"}
          /\ scope'[s].within = scope[p].within \union {s} /\ scope'[s].ctl = s
      BY <1>5, <1>9, <3>1 DEF Below
    <3>3. \A z \in scope[p].within : scope[z].ctl \notin aborted
      BY <1>1, <3>2, NoneAborted
    <3>4. \A z \in scope[p].within : scope'[z].ctl \notin aborted
      BY <1>7, <3>2, <3>3
    <3> QED
      BY <1>3, <2>2, <3>2, <3>4
  <2> QED
    BY <2>1, <2>2
<1>16. AttemptsWait'
  <2> SUFFICES ASSUME NEW y \in Scopes, scope'[y].kind = "native",
                      scope'[y].phase = "running",
                      scope'[scope'[y].parent].kind = "attempt"
               PROVE  scope'[scope'[y].parent].phase = "running"
    BY DEF AttemptsWait
  <2>1. CASE y = s
    <3>1. r.kind \in Below
      BY <1>5, <2>1 DEF Below
    <3>2. r.parent \in Scopes \ {s} /\ Running(r.parent)
      BY <1>9, <3>1
    <3> QED
      BY <1>1, <1>5, <2>1, <3>2 DEF Running, Started
  <2>2. CASE y # s
    <3>1. scope'[y] = scope[y]
      BY <1>5, <2>2
    <3>2. scope'[scope[y].parent] = scope[scope[y].parent]
      BY <1>8, <2>2, <3>1 DEF Below
    <3> QED
      BY <3>1, <3>2 DEF IInv, AttemptsWait
  <2> QED
    BY <2>1, <2>2
<1>17. LeasesHaveOwners'
  <2>1. ~Answers(s)
    BY <1>2 DEF Answers, Roots
  <2> QED
    BY <1>1, <1>5, <2>1, OwnersStay DEF IInv, Typed, Live
<1> QED
  BY <1>1, <1>4, <1>10, <1>11, <1>12, <1>13, <1>14, <1>15, <1>16, <1>17 DEF IInv, Nested

LEMMA OwnKeeps ==
  ASSUME IInv, NEW s \in Scopes, Own(s)
  PROVE  IInv'
<1>1. PICK kind \in Roots :
        scope' = [scope EXCEPT ![s] =
          [kind |-> kind, phase |-> "running", parent |-> None, within |-> {s},
           ctl |-> s, set |-> s]]
  BY DEF Own
<1> DEFINE r == [kind |-> kind, phase |-> "running", parent |-> None, within |-> {s},
                 ctl |-> s, set |-> s]
<1>2. r \in ScopeType /\ r.kind \in Kinds /\ r.kind \notin Below
  BY DEF ScopeType, Kinds, Roots, Below
<1>3. closed' = closed /\ aborted' = aborted /\ lease' = lease /\ scope[s].phase = "free"
  BY DEF Own
<1>4. r.within = {s} /\ r.ctl = s /\ r.set = s /\ r.phase = "running"
  OBVIOUS
<1>5. scope' = [scope EXCEPT ![s] = r]
  BY <1>1
<1>6. r.kind \notin {"helper", "native"}
  BY <1>2 DEF Below
<1> HIDE DEF r
<1> QED
  BY <1>2, <1>3, <1>4, <1>5, <1>6, StartKeeps

LEMMA EnterKeeps ==
  ASSUME IInv, NEW s \in Scopes, NEW p \in Scopes, Enter(s, p)
  PROVE  IInv'
<1> DEFINE R(kind) ==
      [kind |-> kind, phase |-> "running", parent |-> p,
       within |-> scope[p].within \union {s},
       ctl    |-> IF kind = "attempt" THEN scope[p].ctl ELSE s,
       set    |-> IF kind = "native" THEN scope[p].set ELSE s]
<1>1. PICK kind \in Kinds :
        /\ EnterWith(s, p, kind, IF kind = "attempt" THEN scope[p].ctl ELSE s)
        /\ <<scope[p].kind, kind>> \in Nesting
        /\ kind \in {"helper", "native"} => scope[p].ctl \notin aborted
        /\ scope' = [scope EXCEPT ![s] = R(kind)]
        /\ closed' = closed \union {x \in {s} : kind # "helper" /\ p \in closed}
  BY DEF Enter, EnterWith
<1> DEFINE r == R(kind)
<1>2. scope \in [Scopes -> ScopeType]
  BY DEF IInv, Typed
<1>3. r \in ScopeType
  BY <1>2 DEF ScopeType
<1>4. /\ r.kind = kind /\ r.phase = "running" /\ r.parent = p
      /\ r.within = scope[p].within \union {s}
      /\ r.ctl = IF kind = "attempt" THEN scope[p].ctl ELSE s
      /\ r.set = IF kind = "native" THEN scope[p].set ELSE s
  OBVIOUS
<1>5. aborted' = aborted /\ lease' = lease /\ scope[s].phase = "free" /\ Running(p)
  BY <1>1 DEF EnterWith
<1>6. closed \subseteq closed' /\ closed' \subseteq closed \union {s}
  BY <1>1
<1>7. kind \notin Roots
  BY <1>1, NestingKinds DEF Roots, Below
<1>8. scope' = [scope EXCEPT ![s] = r]
  BY <1>1
<1> HIDE DEF r, R
<1> QED
  BY <1>1, <1>3, <1>4, <1>5, <1>6, <1>7, <1>8, StartKeeps

-----------------------------------------------------------------------------
(* Steps of the scopes there are                                           *)

(* only s moves on, and what it closes or leaves has aborted *)
OnlyMoves(s) ==
  /\ \A x \in Scopes \ {s} : scope'[x].phase = scope[x].phase
  /\ closed \subseteq closed' /\ closed' \subseteq closed \union {s}
  /\ scope[s].kind \in Roots /\ s \in closed' => s \in aborted'
  /\ (scope[s].kind = "helper" /\ scope'[s].phase # "running")
       => s \in aborted' /\ s \in closed'
  /\ scope'[s].phase = "late" => scope[s].kind = "helper"
  /\ (scope[s].kind = "attempt" /\ scope[s].phase = "running"
      /\ scope'[s].phase # "running") => Alone(s)

Aborts ==
  \/ aborted' = aborted
  \/ \E c \in Scopes : scope[c].kind # "none" /\ aborted' = aborted \union Reached(c)

LEMMA GoOnKeeps ==
  ASSUME IInv, NEW s \in Scopes, scope[s].phase # "free",
         GoOn, OnlyMoves(s), Aborts, LeasesHaveOwners'
  PROVE  IInv'
<1>1. Typed /\ Started /\ Nested /\ ClosedAborted /\ AbortReaches /\ AttemptsWait
  BY DEF IInv
<1>2. Typed'
  BY DEF GoOn
<1>3. \A x \in Scopes :
        /\ scope'[x].kind = scope[x].kind
        /\ scope'[x].parent = scope[x].parent
        /\ (scope'[x].phase = "free") <=> (scope[x].phase = "free")
  BY DEF GoOn
<1>4. aborted \subseteq aborted'
  BY DEF Aborts
<1>5. \A x \in aborted' \union closed' : x \in Scopes /\ scope[x].kind # "none"
  <2>1. scope[s].kind # "none"
    BY <1>1 DEF Started
  <2>2. \A x \in aborted : x \in Scopes /\ scope[x].kind # "none"
    BY <1>1 DEF Started, Typed
  <2>3. \A x \in closed : x \in Scopes /\ scope[x].kind # "none"
    BY <1>1 DEF Started, Typed
  <2>4. \A c \in Scopes : scope[c].kind # "none" =>
          \A x \in Reached(c) : x \in Scopes /\ scope[x].kind # "none"
    BY DEF Reached, Listeners
  <2>5. \A x \in aborted' : x \in Scopes /\ scope[x].kind # "none"
    BY <2>2, <2>4 DEF Aborts
  <2>6. \A x \in closed' : x \in Scopes /\ scope[x].kind # "none"
    BY <2>1, <2>3 DEF OnlyMoves
  <2> QED
    BY <2>5, <2>6
<1>6. Started'
  <2>1. \A x \in Scopes : (scope'[x].phase = "free") <=> (scope'[x].kind = "none")
    BY <1>1, <1>3 DEF Started
  <2>2. \A x \in Scopes : scope'[x].phase = "late" => scope'[x].kind = "helper"
    BY <1>1, <1>3 DEF Started, OnlyMoves
  <2>3. \A x \in aborted' \union closed' : scope'[x].kind # "none"
    BY <1>3, <1>5
  <2>4. \A x \in Scopes : scope'[x].kind = "none" => scope'[x].parent = None
    BY <1>1, <1>3 DEF Started
  <2> QED
    BY <2>1, <2>2, <2>3, <2>4 DEF Started
<1>7. Nested'
  BY <1>1, NestedStays
<1>8. ClosedAborted'
  <2> SUFFICES ASSUME NEW x \in Scopes
               PROVE  /\ scope[x].kind \in Roots /\ x \in closed' => x \in aborted'
                      /\ scope[x].kind = "helper" /\ scope'[x].phase # "running"
                           => x \in aborted' /\ x \in closed'
    BY <1>3 DEF ClosedAborted
  <2>1. CASE x = s
    BY <2>1 DEF OnlyMoves
  <2>2. CASE x # s
    BY <1>1, <1>4, <2>2 DEF ClosedAborted, OnlyMoves
  <2> QED
    BY <2>1, <2>2
<1>9. AbortReaches'
  BY <1>1, AbortKeepsReaching DEF Aborts
<1>10. AttemptsWait'
  <2> SUFFICES ASSUME NEW y \in Scopes, scope'[y].kind = "native",
                      scope'[y].phase = "running",
                      scope'[scope'[y].parent].kind = "attempt"
               PROVE  scope'[scope'[y].parent].phase = "running"
    BY DEF AttemptsWait
  <2> DEFINE p == scope[y].parent
  <2>1. scope[y].kind = "native" /\ scope[y].phase = "running" /\ scope'[y].parent = p
    BY DEF GoOn
  <2>2. p \in Scopes
    BY <1>1, <2>1, Parents DEF Below
  <2>3. scope[p].kind = "attempt"
    BY <1>3, <2>1, <2>2
  <2>4. scope[p].phase = "running"
    BY <1>1, <2>1, <2>3 DEF AttemptsWait
  <2>5. p = s => scope'[p].phase = "running"
    BY <2>1, <2>3, <2>4 DEF Alone, OnlyMoves
  <2>6. p # s => scope'[p].phase = "running"
    BY <2>2, <2>4 DEF OnlyMoves
  <2> QED
    BY <2>1, <2>5, <2>6
<1> QED
  BY <1>2, <1>6, <1>7, <1>8, <1>9, <1>10 DEF IInv

(* Nothing but the leases changes                                          *)
LEMMA LeaseStepKeeps ==
  ASSUME IInv, UNCHANGED <<scope, closed, aborted>>,
         lease' \in [Leases -> LeaseType], LeasesHaveOwners'
  PROVE  IInv'
<1>1. Typed'
  BY DEF IInv, Typed
<1>2. Started' /\ ClosedAborted'
  BY DEF IInv, Started, ClosedAborted
<1>3. Nested'
  BY DEF IInv, Nested, RootsAlone, BelowParent, WithinClosed
<1>4. AbortReaches' /\ AttemptsWait'
  BY DEF IInv, AbortReaches, AttemptsWait, Listening
<1> QED
  BY <1>1, <1>2, <1>3, <1>4 DEF IInv

LEMMA SameOwners ==
  ASSUME LeasesHaveOwners, UNCHANGED <<scope, closed, aborted>>,
         \A l \in Leases : Live(l)' => Live(l) /\ lease[l].sets \subseteq lease'[l].sets
  PROVE  LeasesHaveOwners'
BY DEF LeasesHaveOwners, Answers

-----------------------------------------------------------------------------
(* The actions                                                             *)

(* the scope whose set a new lease joins will release it: a root that is      *)
(* closed and a helper that has returned have aborted, which has reached the   *)
(* native operations below them                                              *)
LEMMA AcquireKeeps ==
  ASSUME IInv, NEW l \in Leases, NEW s \in Scopes, Acquire(l, s)
  PROVE  IInv'
<1>1. Typed /\ Started /\ Nested /\ ClosedAborted /\ AbortReaches /\ AttemptsWait
      /\ LeasesHaveOwners
  BY DEF IInv
<1>2. scope[s] \in ScopeType /\ scope[s].phase \in {"running", "late"}
      /\ s \notin closed /\ scope[s].ctl \notin aborted
  BY <1>1 DEF Acquire, Typed
<1> DEFINE r == [phase |-> "active", scope |-> s, bytes |-> 0, released |-> FALSE,
                 sets |-> {scope[s].set}]
<1>3. scope[s].kind \in Roots \union Below
  BY <1>1, <1>2 DEF Started, ScopeType, Kinds, Roots, Below
<1>4. scope[s].set \in Scopes /\ Answers(scope[s].set)
  <2>1. CASE scope[s].kind \in Roots
    BY <1>1, <1>2, <2>1 DEF Nested, RootsAlone, Answers
  <2>2. CASE scope[s].kind = "helper"
    BY <1>1, <1>2, <2>2 DEF Nested, BelowParent, Below, ClosedAborted, Answers
  <2>3. CASE scope[s].kind = "attempt"
    BY <1>1, <1>2, <2>3 DEF Nested, BelowParent, Below, Started, Answers
  <2>4. CASE scope[s].kind = "native"
    <3> DEFINE p == scope[s].parent
    <3>1. scope[s].phase = "running"
      BY <1>1, <1>2, <2>4 DEF Started
    <3>2. scope[s].set = scope[p].set /\ scope[s].ctl = s
          /\ scope[s].within = scope[p].within \union {s}
      BY <1>1, <2>4 DEF Nested, BelowParent, Below
    <3>3. p \in Scopes /\ scope[p].set = p
          /\ scope[p].kind \in Roots \union {"helper", "attempt"}
      BY <1>1, <2>4, Parents DEF Below
    <3>4. scope[p].kind \in Kinds
      BY <3>3 DEF Kinds
    <3>5. p \in scope[s].within
      BY <1>1, <3>2, <3>3, <3>4, WithinItself
    <3>6. scope[p].ctl \notin aborted
      BY <1>1, <1>2, <2>4, <3>1, <3>2, <3>5 DEF AbortReaches, Listening
    <3>7. CASE scope[p].kind \in Roots
      BY <1>1, <3>2, <3>3, <3>6, <3>7 DEF Nested, RootsAlone, ClosedAborted, Answers
    <3>8. CASE scope[p].kind = "helper"
      <4>1. scope[p].ctl = p
        BY <1>1, <3>3, <3>8 DEF Nested, BelowParent, Below
      <4> QED
        BY <1>1, <3>2, <3>3, <3>6, <3>8, <4>1 DEF ClosedAborted, Answers
    <3>9. CASE scope[p].kind = "attempt"
      BY <1>1, <2>4, <3>1, <3>2, <3>3, <3>9 DEF AttemptsWait, Answers
    <3> QED
      BY <3>3, <3>7, <3>8, <3>9
  <2> QED
    BY <1>3, <2>1, <2>2, <2>3, <2>4 DEF Below
<1>5. r \in LeaseType
  BY <1>4 DEF LeaseType
<1>6. lease' = [lease EXCEPT ![l] = r] /\ UNCHANGED <<scope, closed, aborted>>
  BY DEF Acquire
<1>7. r.sets = {scope[s].set}
  OBVIOUS
<1> HIDE DEF r
<1>8. lease' \in [Leases -> LeaseType] /\ lease'[l] = r
      /\ \A k \in Leases \ {l} : lease'[k] = lease[k]
  BY <1>1, <1>5, <1>6 DEF Typed
<1>9. LeasesHaveOwners'
  <2> SUFFICES ASSUME NEW k \in Leases, Live(k)'
               PROVE  \E x \in lease'[k].sets : Answers(x)'
    BY DEF LeasesHaveOwners
  <2>1. CASE k = l
    BY <1>4, <1>6, <1>7, <1>8, <2>1 DEF Answers
  <2>2. CASE k # l
    BY <1>1, <1>6, <1>8, <2>2 DEF LeasesHaveOwners, Live, Answers
  <2> QED
    BY <2>1, <2>2
<1> QED
  BY <1>6, <1>8, <1>9, LeaseStepKeeps

LEMMA IOKeeps ==
  ASSUME IInv, NEW l \in Leases, Retain(l) \/ IOEnds(l)
  PROVE  IInv'
<1>1. lease \in [Leases -> LeaseType] /\ LeasesHaveOwners
  BY DEF IInv, Typed
<1>2. CASE Retain(l)
  <2>1. \A k \in Leases : lease'[k] = IF k = l THEN [lease[l] EXCEPT !.bytes = @ + 1]
                                      ELSE lease[k]
    BY <1>1, <1>2 DEF Retain
  <2>2. [lease[l] EXCEPT !.bytes = @ + 1] \in LeaseType
    BY <1>1 DEF LeaseType
  <2>3. lease' \in [Leases -> LeaseType]
    BY <1>1, <1>2, <2>2 DEF Retain
  <2>4. \A k \in Leases : Live(k)' => Live(k) /\ lease[k].sets \subseteq lease'[k].sets
    BY <1>1, <2>1 DEF Live, LeaseType
  <2> QED
    BY <1>1, <1>2, <2>3, <2>4, SameOwners, LeaseStepKeeps DEF Retain
<1>3. CASE Complete(l)
  <2>1. \A k \in Leases : lease'[k] = IF k = l THEN [lease[l] EXCEPT !.phase = "settled"]
                                      ELSE lease[k]
    BY <1>1, <1>3 DEF Complete
  <2>2. [lease[l] EXCEPT !.phase = "settled"] \in LeaseType
    BY <1>1 DEF LeaseType
  <2>3. lease' \in [Leases -> LeaseType]
    BY <1>1, <1>3, <2>2 DEF Complete
  <2>4. \A k \in Leases : Live(k)' => Live(k) /\ lease[k].sets \subseteq lease'[k].sets
    BY <1>1, <1>3, <2>1 DEF Live, LeaseType, Complete
  <2> QED
    BY <1>1, <1>3, <2>3, <2>4, SameOwners, LeaseStepKeeps DEF Complete
<1>4. CASE Discard(l)
  <2> DEFINE F == Freed({l})
  <2>1. F \in [Leases -> LeaseType]
    BY FreedType DEF IInv
  <2>2. \A k \in Leases \ {l} : F[k] = lease[k]
    BY DEF Freed
  <2>3. F[l].released /\ lease' = [F EXCEPT ![l].phase = "settled"]
    <3>1. lease[l].phase = "active" /\ lease[l] \in LeaseType
      BY <1>1, <1>4 DEF Discard
    <3> QED
      BY <1>4, <3>1 DEF Discard, Freed, Live, LeaseType
  <2> HIDE DEF F
  <2>4. \A k \in Leases : lease'[k] = IF k = l THEN [F[l] EXCEPT !.phase = "settled"]
                                      ELSE F[k]
    BY <2>1, <2>3
  <2>5. [F[l] EXCEPT !.phase = "settled"] \in LeaseType
        /\ [F[l] EXCEPT !.phase = "settled"].released = F[l].released
    BY <2>1 DEF LeaseType
  <2>6. lease' \in [Leases -> LeaseType]
    BY <2>1, <2>3, <2>5
  <2>7. \A k \in Leases : Live(k)' => Live(k) /\ lease[k].sets \subseteq lease'[k].sets
    BY <2>2, <2>3, <2>4, <2>5 DEF Live
  <2>8. UNCHANGED <<scope, closed, aborted>>
    BY <1>4 DEF Discard
  <2> QED
    BY <1>1, <2>6, <2>7, <2>8, SameOwners, LeaseStepKeeps
<1> QED
  BY <1>2, <1>3, <1>4 DEF IOEnds

LEMMA HandedLeases ==
  ASSUME Typed, NEW s \in Scopes, NEW moved \in SUBSET Leases,
         NEW to \in SUBSET Scopes, HandOver(s, moved, to)
  PROVE  /\ lease' \in [Leases -> LeaseType]
         /\ \A l \in Leases : Live(l)' =>
              /\ Live(l)
              /\ lease[l].sets \ {s} \subseteq lease'[l].sets
              /\ s \in lease[l].sets => l \in moved /\ to \subseteq lease'[l].sets
<1> DEFINE F == Freed(In(s) \ moved)
<1>1. F \in [Leases -> LeaseType]
  BY FreedType
<1>2. \A l \in Leases :
        /\ F[l].phase = lease[l].phase /\ F[l].sets = lease[l].sets
        /\ (l \in In(s) \ moved /\ lease[l].phase # "free") => F[l].released
        /\ F[l].released \/ ~lease[l].released
  BY DEF Freed, Typed, LeaseType, Live
<1> DEFINE S(l) == (F[l].sets \ {s}) \union (IF l \in moved THEN to ELSE {})
<1>3. lease' = [l \in Leases |-> [F[l] EXCEPT !.sets = S(l)]]
  BY DEF HandOver
<1> HIDE DEF F
<1>4. ASSUME NEW l \in Leases
      PROVE  /\ lease'[l] = [F[l] EXCEPT !.sets = S(l)]
             /\ [F[l] EXCEPT !.sets = S(l)] \in LeaseType
             /\ lease'[l].sets = S(l)
             /\ lease'[l].phase = F[l].phase
             /\ lease'[l].released = F[l].released
  BY <1>1, <1>3 DEF LeaseType
<1>5. lease' \in [Leases -> LeaseType]
  BY <1>3, <1>4
<1>6. ASSUME NEW l \in Leases, Live(l)'
      PROVE  /\ Live(l)
             /\ lease[l].sets \ {s} \subseteq lease'[l].sets
             /\ s \in lease[l].sets => l \in moved /\ to \subseteq lease'[l].sets
  <2>1. lease[l].phase # "free" /\ ~F[l].released
    BY <1>2, <1>4, <1>6 DEF Live
  <2>2. Live(l) /\ l \notin In(s) \ moved
    BY <1>2, <2>1 DEF Live
  <2>3. lease'[l].sets = S(l) /\ F[l].sets = lease[l].sets
    BY <1>2, <1>4
  <2> QED
    BY <2>2, <2>3 DEF In
<1> QED
  BY <1>5, <1>6

(* done                                                                    *)
LEMMA DoneKeeps ==
  ASSUME IInv, NEW s \in Scopes, scope[s].kind \in Roots, Done(s),
         \/ UNCHANGED scope
         \/ scope[s].phase # "free" /\ Goto(s, "over")
  PROVE  IInv'
<1>1. Typed /\ Started /\ Nested /\ LeasesHaveOwners /\ scope[s].phase # "free"
  BY DEF IInv, Started, Roots
<1>2. HandOver(s, {}, {})
  BY DEF Done
<1>3. /\ lease' \in [Leases -> LeaseType]
      /\ \A l \in Leases : Live(l)' =>
           /\ Live(l) /\ lease[l].sets \ {s} \subseteq lease'[l].sets
           /\ s \notin lease[l].sets
  <2>1. {} \in SUBSET Leases /\ {} \in SUBSET Scopes
    OBVIOUS
  <2>2. /\ lease' \in [Leases -> LeaseType]
        /\ \A l \in Leases : Live(l)' =>
             /\ Live(l) /\ lease[l].sets \ {s} \subseteq lease'[l].sets
             /\ s \in lease[l].sets => l \in {} /\ {} \subseteq lease'[l].sets
    BY <1>1, <1>2, <2>1, HandedLeases
  <2> QED
    BY <2>2
<1>4. closed' = closed \union {s} /\ aborted' = aborted \union Reached(s)
  BY DEF Done
<1>5. closed' \subseteq Scopes /\ aborted' \subseteq Scopes /\ s \in aborted'
  BY <1>1, <1>4 DEF Typed, Reached, Listeners
<1>6. GoOn
  <2>1. CASE UNCHANGED scope
    BY <1>1, <1>3, <1>5, <2>1 DEF GoOn, Typed
  <2>2. CASE Goto(s, "over")
    BY <1>1, <1>3, <1>5, <2>2, GotoGoesOn
  <2> QED
    BY <2>1, <2>2
<1>7. \A x \in Scopes \ {s} : scope'[x].phase = scope[x].phase
  BY <1>1 DEF Goto, Typed
<1>8. scope[s].kind \notin {"helper", "attempt"}
  BY DEF Roots
<1>9. scope'[s].phase = "late" => FALSE
  <2>1. scope[s].phase # "late"
    BY <1>1, <1>8 DEF Started
  <2>2. CASE UNCHANGED scope
    BY <2>1, <2>2
  <2>3. CASE Goto(s, "over")
    BY <1>1, <2>3 DEF Goto, Typed, ScopeType
  <2> QED
    BY <2>2, <2>3
<1>10. OnlyMoves(s)
  BY <1>4, <1>5, <1>7, <1>8, <1>9 DEF OnlyMoves
<1>11. Aborts
  <2>1. scope[s].kind # "none"
    BY DEF Roots
  <2> QED
    BY <1>4, <2>1 DEF Aborts
<1>12. LeasesHaveOwners'
  <2>1. \A x \in Scopes \ {s} :
          scope'[x].kind = scope[x].kind /\ scope'[x].phase = scope[x].phase
    BY <1>6, <1>7 DEF GoOn
  <2> QED
    BY <1>1, <1>3, <1>4, <2>1, OwnersStay DEF Typed
<1> QED
  BY <1>1, <1>6, <1>10, <1>11, <1>12, GoOnKeeps

(* the function of a root or of a late helper, or a native operation, ends    *)
LEMMA EndKeeps ==
  ASSUME IInv, NEW s \in Scopes, NEW phase \in {"over", "handed"}, Goto(s, phase),
         scope[s].phase # "free", UNCHANGED <<closed, aborted, lease>>,
         \/ scope[s].kind \in Roots \union {"native"}
         \/ scope[s].phase = "late"
         \/ scope[s].kind = "attempt" /\ scope[s].phase = "handed"
  PROVE  IInv'
<1>1. Typed /\ Started /\ LeasesHaveOwners /\ ClosedAborted
  BY DEF IInv
<1>2. GoOn
  BY <1>1, GotoGoesOn DEF Typed
<1>3. \A x \in Scopes \ {s} : scope'[x].phase = scope[x].phase
  BY <1>1 DEF Goto, Typed
<1>4. scope'[s].phase = phase
  BY <1>1 DEF Goto, Typed, ScopeType
<1>5. scope[s].phase = "late" => scope[s].kind = "helper"
  BY <1>1 DEF Started
<1>6. scope[s].kind = "helper" => scope[s].phase = "late"
  BY DEF Roots
<1>7. scope[s].kind = "attempt" => scope[s].phase # "running"
  BY <1>5 DEF Roots
<1>8. OnlyMoves(s)
  BY <1>1, <1>3, <1>4, <1>5, <1>6, <1>7 DEF OnlyMoves, ClosedAborted
<1>9. Aborts
  BY DEF Aborts
<1>10. LeasesHaveOwners'
  <2>1. \A x \in Scopes \ {s} :
          scope'[x].kind = scope[x].kind /\ scope'[x].phase = scope[x].phase
    BY <1>2, <1>3 DEF GoOn
  <2>2. Answers(s) => Answers(s)'
    BY <1>2, <1>5, <1>6, <1>7 DEF Answers, GoOn, Roots
  <2>3. \A l \in Leases : Live(l)' <=> Live(l)
    BY DEF Live
  <2> QED
    BY <1>1, <2>1, <2>2, <2>3, OwnersStay DEF Typed
<1> QED
  BY <1>2, <1>8, <1>9, <1>10, GoOnKeeps

LEMMA TimeoutKeeps ==
  ASSUME IInv, NEW s \in Scopes, Timeout(s)
  PROVE  IInv'
<1>1. Typed /\ Started /\ Nested /\ ClosedAborted /\ LeasesHaveOwners
  BY DEF IInv
<1>2. /\ scope[s].kind \in {"helper", "native"} /\ scope[s].phase = "running"
      /\ aborted' = aborted \union Reached(scope[s].ctl)
      /\ UNCHANGED <<scope, closed, lease>>
  BY DEF Timeout
<1>3. scope[s].ctl = s
  BY <1>1, <1>2 DEF Nested, BelowParent, Below
<1>4. aborted' \subseteq Scopes
  BY <1>1, <1>2, <1>3 DEF Typed, Reached, Listeners
<1>5. GoOn
  BY <1>1, <1>2, <1>4 DEF GoOn, Typed
<1>6. OnlyMoves(s)
  BY <1>2 DEF OnlyMoves, Roots
<1>7. Aborts
  BY <1>2, <1>3 DEF Aborts
<1>8. LeasesHaveOwners'
  BY <1>1, <1>2 DEF LeasesHaveOwners, Live, Answers
<1> QED
  BY <1>2, <1>5, <1>6, <1>7, <1>8, GoOnKeeps

(* the finally of withDeadline: the parent is a root, which releases what it  *)
(* is handed until it is closed                                              *)
LEMMA HelperKeeps ==
  ASSUME IInv, NEW s \in Scopes, NEW completed \in BOOLEAN, NEW phase \in {"over", "late"},
         scope[s].kind = "helper", scope[s].phase = "running",
         HelperReturns(s, completed, phase)
  PROVE  IInv'
<1>1. Typed /\ Started /\ Nested /\ LeasesHaveOwners
  BY DEF IInv
<1>2. PICK p \in Scopes :
        /\ p = scope[s].parent /\ p # s /\ scope[p].kind \in Roots /\ scope[p].set = p
        /\ scope[s].ctl = s
  BY <1>1, Parents DEF Below, Nested, BelowParent
<1>3. PICK moved \in SUBSET Leases :
        moved = IF completed /\ p \notin closed THEN In(s) ELSE {}
  BY DEF In
<1>4. /\ Goto(s, phase) /\ closed' = closed \union {s}
      /\ aborted' = aborted \union Reached(s)
      /\ HandOver(s, moved, {p})
  BY <1>2, <1>3 DEF HelperReturns, Returned
<1>5. moved # {} => p \notin closed
  BY <1>3
<1>6. /\ lease' \in [Leases -> LeaseType]
      /\ \A l \in Leases : Live(l)' =>
           /\ Live(l) /\ lease[l].sets \ {s} \subseteq lease'[l].sets
           /\ s \in lease[l].sets => l \in moved /\ {p} \subseteq lease'[l].sets
  <2>1. {p} \in SUBSET Scopes
    OBVIOUS
  <2> QED
    BY <1>1, <1>3, <1>4, <2>1, HandedLeases, Zenon
<1>7. closed' \subseteq Scopes /\ aborted' \subseteq Scopes /\ s \in aborted'
  BY <1>1, <1>4 DEF Typed, Reached, Listeners
<1>8. GoOn
  BY <1>1, <1>4, <1>6, <1>7, GotoGoesOn
<1>9. \A x \in Scopes \ {s} : scope'[x].phase = scope[x].phase
  BY <1>1, <1>4 DEF Goto, Typed
<1>10. OnlyMoves(s)
  BY <1>4, <1>7, <1>9 DEF OnlyMoves, Roots
<1>11. Aborts
  BY <1>4 DEF Aborts
<1>12. LeasesHaveOwners'
  <2>1. \A x \in Scopes \ {s} :
          scope'[x].kind = scope[x].kind /\ scope'[x].phase = scope[x].phase
    BY <1>8, <1>9 DEF GoOn
  <2>2. p \notin closed => Answers(p)'
    BY <1>2, <1>4, <2>1 DEF Answers
  <2>3. \A l \in Leases : Live(l)' /\ s \in lease[l].sets =>
          p \in lease'[l].sets /\ Answers(p)'
    BY <1>2, <1>5, <1>6, <2>2
  <2> QED
    BY <1>1, <1>4, <1>6, <2>1, <2>3, OwnersStay DEF Typed
<1> QED
  BY <1>8, <1>10, <1>11, <1>12, GoOnKeeps

(* the parent is a root or a helper, and one that has not closed releases     *)
(* what it is handed                                                         *)
LEMMA AttemptKeeps ==
  ASSUME IInv, NEW s \in Scopes, AttemptEnds(s)
  PROVE  IInv'
<1>1. Typed /\ Started /\ Nested /\ ClosedAborted /\ LeasesHaveOwners
  BY DEF IInv
<1>2. /\ scope[s].kind = "attempt" /\ scope[s].phase = "running" /\ Alone(s)
      /\ closed' = closed /\ aborted' = aborted
  BY DEF AttemptEnds
<1>3. PICK p \in Scopes :
        /\ p = scope[s].parent /\ p # s /\ scope[p].set = p
        /\ scope[p].kind \in Roots \union {"helper"}
  BY <1>1, <1>2, Parents DEF Below
<1>4. PICK phase \in {"over", "handed"} : Goto(s, phase)
  BY DEF AttemptEnds, Kept
<1>5. \A x \in Scopes \ {s} : scope'[x].phase = scope[x].phase
  BY <1>1, <1>4 DEF Goto, Typed
<1>6. /\ lease' \in [Leases -> LeaseType]
      /\ \A l \in Leases : Live(l)' =>
           /\ Live(l) /\ lease[l].sets \subseteq lease'[l].sets
           /\ s \in lease[l].sets => p \in lease'[l].sets /\ p \notin closed
  <2>1. CASE /\ p \notin closed
             /\ lease' = [l \in Leases |->
                  IF l \in In(s) THEN [lease[l] EXCEPT !.sets = @ \union {scope[p].set}]
                  ELSE lease[l]]
    <3>1. ASSUME NEW l \in Leases
          PROVE  /\ [lease[l] EXCEPT !.sets = @ \union {scope[p].set}] \in LeaseType
                 /\ lease[l] \in LeaseType
      BY <1>1, <1>3 DEF Typed, LeaseType
    <3>2. lease' \in [Leases -> LeaseType]
      BY <2>1, <3>1
    <3>3. ASSUME NEW l \in Leases
          PROVE  /\ lease'[l].phase = lease[l].phase
                 /\ lease'[l].released = lease[l].released
                 /\ lease[l].sets \subseteq lease'[l].sets
                 /\ s \in lease[l].sets => p \in lease'[l].sets
      BY <1>1, <1>3, <2>1 DEF Typed, LeaseType, In
    <3> QED
      BY <2>1, <3>2, <3>3 DEF Live
  <2>2. CASE Release(In(s))
    <3>1. lease' \in [Leases -> LeaseType]
      BY <1>1, <2>2, FreedType DEF Release
    <3>2. ASSUME NEW l \in Leases, Live(l)'
          PROVE  Live(l) /\ lease'[l].sets = lease[l].sets /\ s \notin lease[l].sets
      BY <1>1, <2>2, <3>2 DEF Release, Freed, Live, In, Typed, LeaseType
    <3> QED
      BY <3>1, <3>2
  <2> QED
    BY <1>3, <2>1, <2>2 DEF AttemptEnds, Kept
<1>7. GoOn
  <2>1. closed' \subseteq Scopes /\ aborted' \subseteq Scopes /\ scope[s].phase # "free"
    BY <1>1, <1>2 DEF Typed
  <2> QED
    BY <1>1, <1>4, <1>6, <2>1, GotoGoesOn
<1>8. scope'[s].phase # "late"
  BY <1>1, <1>4 DEF Goto, Typed, ScopeType
<1>9. OnlyMoves(s)
  BY <1>2, <1>5, <1>8 DEF OnlyMoves, Roots
<1>10. Aborts
  BY <1>2 DEF Aborts
<1>11. LeasesHaveOwners'
  <2>1. \A x \in Scopes \ {s} :
          scope'[x].kind = scope[x].kind /\ scope'[x].phase = scope[x].phase
    BY <1>5, <1>7 DEF GoOn
  <2>2. p \notin closed => Answers(p)'
    BY <1>1, <1>2, <1>3, <2>1 DEF Answers, ClosedAborted
  <2> QED
    BY <1>1, <1>2, <1>6, <2>1, <2>2, OwnersStay DEF Typed
<1> QED
  BY <1>2, <1>7, <1>9, <1>10, <1>11, GoOnKeeps

LEMMA ResultReleasedKeeps ==
  ASSUME IInv, NEW s \in Scopes, ResultReleased(s)
  PROVE  IInv'
<1>1. Typed /\ Started /\ LeasesHaveOwners
  BY DEF IInv
<1>2. /\ scope[s].kind = "attempt" /\ scope[s].phase = "handed" /\ Goto(s, "over")
      /\ closed' = closed /\ aborted' = aborted
  BY DEF ResultReleased
<1> DEFINE F == Freed(In(s))
           S(l) == F[l].sets \ {scope[scope[s].parent].set}
<1>3. F \in [Leases -> LeaseType]
  BY <1>1, FreedType
<1>4. \A l \in Leases :
        /\ F[l].phase = lease[l].phase
        /\ (l \in In(s) /\ lease[l].phase # "free") => F[l].released
  BY <1>1 DEF Freed, Typed, LeaseType, Live
<1>5. lease' = [l \in Leases |-> IF l \in In(s) THEN [F[l] EXCEPT !.sets = S(l)]
                               ELSE lease[l]]
  BY DEF ResultReleased
<1> HIDE DEF F
<1>6. ASSUME NEW l \in Leases
      PROVE  /\ [F[l] EXCEPT !.sets = S(l)] \in LeaseType /\ lease[l] \in LeaseType
             /\ l \notin In(s) => lease'[l] = lease[l]
             /\ l \in In(s) => /\ lease'[l].phase = F[l].phase
                               /\ lease'[l].released = F[l].released
  BY <1>1, <1>3, <1>5 DEF Typed, LeaseType
<1>7. lease' \in [Leases -> LeaseType]
  BY <1>5, <1>6
<1>8. ASSUME NEW l \in Leases, Live(l)'
      PROVE  Live(l) /\ lease'[l].sets = lease[l].sets /\ s \notin lease[l].sets
  <2>1. l \notin In(s)
    BY <1>4, <1>6, <1>8 DEF Live
  <2> QED
    BY <1>6, <1>8, <2>1 DEF Live, In
<1>9. GoOn
  BY <1>1, <1>2, <1>7, GotoGoesOn DEF Typed
<1>10. \A x \in Scopes \ {s} : scope'[x].phase = scope[x].phase
  BY <1>1, <1>2 DEF Goto, Typed
<1>11. scope'[s].phase # "late"
  BY <1>1, <1>2 DEF Goto, Typed, ScopeType
<1>12. OnlyMoves(s)
  BY <1>2, <1>10, <1>11 DEF OnlyMoves, Roots
<1>13. LeasesHaveOwners'
  <2>1. \A x \in Scopes \ {s} :
          scope'[x].kind = scope[x].kind /\ scope'[x].phase = scope[x].phase
    BY <1>9, <1>10 DEF GoOn
  <2> QED
    BY <1>1, <1>2, <1>8, <2>1, OwnersStay DEF Typed
<1> QED
  BY <1>2, <1>9, <1>12, <1>13, GoOnKeeps DEF Aborts

LEMMA NextInv == IInv /\ [Next]_vars => IInv'
<1> SUFFICES ASSUME IInv, [Next]_vars PROVE IInv'
  OBVIOUS
<1>2. ASSUME NEW l \in Leases, Retain(l) \/ IOEnds(l) PROVE IInv'
  BY <1>2, IOKeeps
<1>3. ASSUME NEW l \in Leases, NEW s \in Scopes, Acquire(l, s) PROVE IInv'
  BY <1>3, AcquireKeeps
<1>4. ASSUME NEW s \in Scopes, Own(s) PROVE IInv'
  BY <1>4, OwnKeeps
<1>5. ASSUME NEW s \in Scopes, NEW p \in Scopes, Enter(s, p) PROVE IInv'
  BY <1>5, EnterKeeps
<1>6. ASSUME NEW s \in Scopes, Timeout(s) PROVE IInv'
  BY <1>6, TimeoutKeeps
<1>7. ASSUME NEW s \in Scopes, ResponseCloses(s) PROVE IInv'
  BY <1>7, DoneKeeps DEF ResponseCloses, Roots
<1>8. ASSUME NEW s \in Scopes, CallerReleases(s) PROVE IInv'
  BY <1>8, DoneKeeps DEF CallerReleases, Roots
<1>9. ASSUME NEW s \in Scopes, PromiseEnds(s) PROVE IInv'
  <2>1. scope[s].kind \in Roots /\ scope[s].phase # "free"
    BY <1>9 DEF PromiseEnds, Roots
  <2>2. CASE Done(s) /\ Goto(s, "over")
    BY <2>1, <2>2, DoneKeeps
  <2>3. CASE Goto(s, "handed") /\ UNCHANGED <<closed, aborted, lease, budget>>
    BY <2>1, <2>3, EndKeeps
  <2> QED
    BY <1>9, <2>2, <2>3 DEF PromiseEnds
<1>10. ASSUME NEW s \in Scopes, ResponseEnds(s) PROVE IInv'
  BY <1>10, EndKeeps DEF ResponseEnds, Roots
<1>11. ASSUME NEW s \in Scopes, LateHelperEnds(s) PROVE IInv'
  BY <1>11, EndKeeps DEF LateHelperEnds
<1>12. ASSUME NEW s \in Scopes, NativeEnds(s) PROVE IInv'
  BY <1>12, EndKeeps DEF NativeEnds
<1>13. ASSUME NEW s \in Scopes, HelperEnds(s) PROVE IInv'
  BY <1>13, HelperKeeps DEF HelperEnds
<1>14. ASSUME NEW s \in Scopes, HelperAbandoned(s) PROVE IInv'
  BY <1>14, HelperKeeps DEF HelperAbandoned
<1>15. ASSUME NEW s \in Scopes, AttemptEnds(s) PROVE IInv'
  BY <1>15, AttemptKeeps
<1>16. ASSUME NEW s \in Scopes, ResultReleased(s) PROVE IInv'
  BY <1>16, ResultReleasedKeeps
<1>17. ASSUME UNCHANGED vars PROVE IInv'
  <2>1. LeasesHaveOwners'
    BY <1>17 DEF IInv, vars, LeasesHaveOwners, Live, Answers
  <2>2. lease' \in [Leases -> LeaseType]
    BY <1>17 DEF IInv, Typed, vars
  <2> QED
    BY <1>17, <2>1, <2>2, LeaseStepKeeps DEF vars
<1> QED
  BY <1>2, <1>3, <1>4, <1>5, <1>6, <1>7, <1>8, <1>9, <1>10, <1>11, <1>12, <1>13, <1>14,
     <1>15, <1>16, <1>17 DEF Next, ScopeEnds

(* Whatever nests, times out, retries or closes, and in whatever order, every *)
(* lease that is charged to the budget is in the set of a scope that will     *)
(* release it (ownedLease, withDeadline, withAttempt, withOwnership).         *)
THEOREM LeasesAlwaysOwned == Spec => []LeasesHaveOwners
<1>1. IInv => LeasesHaveOwners
  BY DEF IInv
<1> QED
  BY InitInv, NextInv, <1>1, PTL DEF Spec

-----------------------------------------------------------------------------
(* Deadlines                                                               *)

LEMMA OwnController ==
  ASSUME Nested, NEW s \in Scopes, scope[s].kind \in {"helper", "native"}
  PROVE  scope[s].ctl = s /\ scope[s].kind \notin Roots
BY DEF Nested, BelowParent, Below, Roots

LEMMA ReachedRoots ==
  ASSUME NEW c, NEW s \in Reached(c), scope[s].kind \in Roots
  PROVE  s = c
BY DEF Reached, Listeners, Roots

(* A deadline never cancels the client's request: the controller of a root    *)
(* aborts only in its own done() (withDeadline, nativeOperation).             *)
THEOREM RequestsOutliveHelpers == Spec => RequestOutlivesHelpers
<1>1. ASSUME IInv, [Next]_vars, NEW s \in aborted' \ aborted, scope[s].kind \in Roots
      PROVE  s \in closed'
  <2>1. Nested
    BY <1>1 DEF IInv
  <2>2. ASSUME NEW x \in Scopes, Done(x) PROVE s \in closed'
    BY <1>1, <2>2, ReachedRoots DEF Done
  <2>3. ASSUME NEW x \in Scopes, scope[x].kind \in {"helper", "native"},
               aborted' = aborted \union Reached(scope[x].ctl)
        PROVE  FALSE
    BY <1>1, <2>1, <2>3, OwnController, ReachedRoots
  <2>4. ASSUME NEW x \in Scopes, ResponseCloses(x) \/ PromiseEnds(x) \/ CallerReleases(x)
        PROVE  s \in closed'
    BY <1>1, <2>2, <2>4 DEF ResponseCloses, PromiseEnds, CallerReleases
  <2>5. ASSUME NEW x \in Scopes, Timeout(x) \/ HelperEnds(x) \/ HelperAbandoned(x)
        PROVE  FALSE
    BY <2>3, <2>5 DEF Timeout, HelperEnds, HelperAbandoned, HelperReturns, Returned
  <2>6. ASSUME NEW l \in Leases, Retain(l) \/ IOEnds(l) PROVE FALSE
    BY <1>1, <2>6 DEF Retain, IOEnds, Complete, Discard
  <2>7. ASSUME NEW l \in Leases, NEW x \in Scopes, Acquire(l, x) PROVE FALSE
    BY <1>1, <2>7 DEF Acquire
  <2>8. ASSUME NEW x \in Scopes, NEW y \in Scopes, Own(x) \/ Enter(x, y) PROVE FALSE
    BY <1>1, <2>8 DEF Own, Enter, EnterWith
  <2>9. ASSUME NEW x \in Scopes,
               \/ ResponseEnds(x) \/ LateHelperEnds(x) \/ NativeEnds(x)
               \/ AttemptEnds(x) \/ ResultReleased(x)
        PROVE  FALSE
    BY <1>1, <2>9 DEF ResponseEnds, LateHelperEnds, NativeEnds, AttemptEnds, ResultReleased
  <2>10. CASE UNCHANGED vars
    BY <1>1, <2>10 DEF vars
  <2> QED
    BY <1>1, <2>4, <2>5, <2>6, <2>7, <2>8, <2>9, <2>10 DEF Next, ScopeEnds
<1>2. IInv /\ [Next]_vars =>
        [\A s \in aborted' \ aborted : scope[s].kind \in Roots => s \in closed']_vars
  BY <1>1
<1> QED
  BY InitInv, NextInv, <1>2, PTL DEF Spec, RequestOutlivesHelpers

(* a lease becomes active in no other way *)
LEMMA OnlyAcquired ==
  ASSUME IInv, [Next]_vars, NEW l \in Leases,
         lease[l].phase = "free", lease'[l].phase = "active"
  PROVE  \E s \in Scopes : Acquire(l, s)
<1>1. lease \in [Leases -> LeaseType]
  BY DEF IInv, Typed
<1>2. ASSUME NEW ls PROVE Freed(ls)[l].phase = "free" /\ Freed(ls)[l] \in LeaseType
  BY <1>1 DEF Freed, Live, LeaseType
<1>3. ASSUME NEW x \in Scopes, Done(x) PROVE FALSE
  BY <1>2, <1>3 DEF Done, HandOver, LeaseType
<1>4. ASSUME NEW x \in Scopes, HelperEnds(x) \/ HelperAbandoned(x) PROVE FALSE
  <2>1. PICK completed \in BOOLEAN, phase \in {"over", "late"} : HelperReturns(x, completed, phase)
    BY <1>4 DEF HelperEnds, HelperAbandoned
  <2>2. PICK moved : \E to : HandOver(x, moved, to)
    BY <2>1 DEF HelperReturns, Returned
  <2> QED
    BY <1>2, <2>2 DEF HandOver, LeaseType
<1>5. ASSUME NEW x \in Scopes, AttemptEnds(x) \/ ResultReleased(x) PROVE FALSE
  BY <1>1, <1>2, <1>5 DEF AttemptEnds, Kept, ResultReleased, Release, LeaseType
<1>6. ASSUME NEW k \in Leases, Retain(k) \/ IOEnds(k) PROVE FALSE
  <2>1. CASE Retain(k)
    BY <1>1, <2>1 DEF Retain, LeaseType
  <2>2. CASE Complete(k)
    BY <1>1, <2>2 DEF Complete, LeaseType
  <2>3. CASE Discard(k)
    BY <1>1, <1>2, <2>3 DEF Discard, LeaseType, Freed, Live
  <2> QED
    BY <1>6, <2>1, <2>2, <2>3 DEF IOEnds
<1>7. ASSUME NEW k \in Leases, NEW x \in Scopes, Acquire(k, x)
      PROVE  \E s \in Scopes : Acquire(l, s)
  BY <1>1, <1>7 DEF Acquire
<1>8. ASSUME lease' = lease PROVE FALSE
  BY <1>8
<1>9. ASSUME NEW x \in Scopes, NEW y \in Scopes,
             Own(x) \/ Enter(x, y) \/ Timeout(x)
      PROVE  FALSE
  BY <1>8, <1>9 DEF Own, Enter, EnterWith, Timeout
<1>10. ASSUME NEW x \in Scopes, ResponseEnds(x) \/ LateHelperEnds(x) \/ NativeEnds(x)
       PROVE  FALSE
  BY <1>8, <1>10 DEF ResponseEnds, LateHelperEnds, NativeEnds
<1>11. ASSUME NEW x \in Scopes, ResponseCloses(x) \/ PromiseEnds(x) \/ CallerReleases(x)
       PROVE  FALSE
  BY <1>3, <1>8, <1>11 DEF ResponseCloses, PromiseEnds, CallerReleases
<1> QED
  BY <1>4, <1>5, <1>6, <1>7, <1>8, <1>9, <1>10, <1>11 DEF Next, ScopeEnds, vars

(* Once a helper has returned, its deadline over or not, no attempt or native  *)
(* operation its function still runs takes a lease (withDeadline).            *)
THEOREM NothingTakenAfterDeadline == Spec => NothingAfterDeadline
<1>1. ASSUME IInv, [Next]_vars, NEW l \in Leases,
             lease[l].phase = "free", lease'[l].phase = "active",
             NEW h \in scope[lease'[l].scope].within, scope[h].kind = "helper"
      PROVE  scope[h].phase = "running"
  <2>1. PICK s \in Scopes : Acquire(l, s)
    BY <1>1, OnlyAcquired
  <2>2. Typed /\ Started /\ Nested /\ ClosedAborted /\ AbortReaches
    BY <1>1 DEF IInv
  <2>3. lease'[l].scope = s
    BY <2>1, <2>2 DEF Acquire, Typed
  <2>4. /\ scope[s].phase \in {"running", "late"} /\ scope[s].ctl \notin aborted
        /\ scope[s].kind \in Kinds /\ h \in scope[s].within /\ h \in Scopes
    BY <1>1, <2>1, <2>2, <2>3 DEF Acquire, Typed, Started, ScopeType
  <2>5. scope[h].ctl = h
    BY <1>1, <2>2, <2>4, OwnController
  <2>6. scope[h].ctl \notin aborted
    <3>1. CASE scope[s].kind # "native"
      <4>1. scope[s].kind \in Roots \union {"helper", "attempt"}
        BY <2>4, <3>1 DEF Kinds
      <4> QED
        BY <2>2, <2>4, <4>1, NoneAborted
    <3>2. CASE scope[s].kind = "native"
      <4>1. scope[s].phase = "running" /\ scope[s].ctl = s
        BY <2>2, <2>4, <3>2, OwnController DEF Started
      <4> QED
        BY <2>2, <2>4, <3>2, <4>1 DEF AbortReaches, Listening
    <3> QED
      BY <3>1, <3>2
  <2> QED
    BY <1>1, <2>2, <2>4, <2>5, <2>6 DEF ClosedAborted
<1>2. IInv /\ [Next]_vars =>
        [\A l \in Leases :
           lease[l].phase = "free" /\ lease'[l].phase = "active"
           => \A h \in scope[lease'[l].scope].within :
                scope[h].kind = "helper" => scope[h].phase = "running"]_vars
  BY <1>1
<1> QED
  BY InitInv, NextInv, <1>2, PTL DEF Spec, NothingAfterDeadline

-----------------------------------------------------------------------------
-----------------------------------------------------------------------------
(* The budget                                                              *)

LiveLeases == {l \in Leases : Live(l)}

BudgetInv ==
  /\ lease \in [Leases -> LeaseType]
  /\ \A l \in Leases : lease[l].phase = "free" => ~lease[l].released
  /\ budget \in [bytes : Nat, leases : Nat]
  /\ IsFiniteSet(LiveLeases)
  /\ BudgetExact

(* the leases in ls are released, and the others keep what they hold *)
LEMMA ReleaseExact ==
  ASSUME BudgetInv, NEW ls \in SUBSET Leases,
         budget' = Refunded(ls),
         lease' \in [Leases -> LeaseType],
         \A l \in Leases : lease'[l].phase = "free" => ~lease'[l].released,
         LiveLeases' = LiveLeases \ ls,
         \A l \in LiveLeases \ ls : lease'[l].bytes = lease[l].bytes
  PROVE  BudgetInv'
<1> DEFINE live == {l \in ls : Live(l)}
           rest == LiveLeases \ ls
<1>1. /\ live \in SUBSET LiveLeases /\ LiveLeases \ live = rest
      /\ IsFiniteSet(LiveLeases) /\ IsFiniteSet(live) /\ IsFiniteSet(rest)
  <2>1. live \in SUBSET LiveLeases /\ LiveLeases \ live = rest
    BY DEF LiveLeases
  <2> QED
    BY <2>1, FS_Subset DEF BudgetInv
<1>2. Bytes \in [Leases -> Nat] /\ Bytes' \in [Leases -> Nat]
  BY DEF BudgetInv, Bytes, LeaseType
<1>3. \A l \in LiveLeases : Bytes[l] \in Nat
  BY <1>2 DEF LiveLeases
<1>4. SumFunctionOnSet(Bytes, LiveLeases)
        = SumFunctionOnSet(Bytes, live) + SumFunctionOnSet(Bytes, rest)
  BY <1>1, <1>3, SumSplit
<1>5. /\ SumFunctionOnSet(Bytes, live) \in Nat
      /\ SumFunctionOnSet(Bytes, rest) \in Nat
  BY <1>1, <1>3, SumType
<1>6. Cardinality(rest) = Cardinality(LiveLeases) - Cardinality(live)
  <2>1. LiveLeases \ live = rest /\ LiveLeases \intersect live = live
    BY <1>1
  <2> HIDE DEF live, rest
  <2> QED
    BY <1>1, <2>1, FS_Difference
<1>7. Cardinality(LiveLeases) \in Nat /\ Cardinality(live) \in Nat /\ Cardinality(rest) \in Nat
  BY <1>1, FS_CardinalityType
<1>8. /\ budget.leases = Cardinality(LiveLeases)
      /\ budget.bytes = SumFunctionOnSet(Bytes, LiveLeases)
      /\ budget.bytes <= MaxRetained
  BY DEF BudgetInv, BudgetExact, LiveLeases
<1>9. /\ budget'.leases = Cardinality(rest)
      /\ budget'.bytes = SumFunctionOnSet(Bytes, rest)
      /\ budget'.bytes <= MaxRetained
      /\ budget' \in [bytes : Nat, leases : Nat]
  <2>1. budget' = [bytes |-> budget.bytes - SumFunctionOnSet(Bytes, live),
                   leases |-> budget.leases - Cardinality(live)]
    BY DEF Refunded
  <2> HIDE DEF live, rest
  <2> QED
    BY <2>1, <1>4, <1>5, <1>6, <1>7, <1>8, OwnershipAssumption
<1>10. SumFunctionOnSet(Bytes', rest) = SumFunctionOnSet(Bytes, rest)
  <2>1. \A l \in rest : Bytes'[l] = Bytes[l]
    BY DEF Bytes, LiveLeases
  <2> HIDE DEF rest
  <2> QED
    BY <1>1, <2>1, SumSame
<1>11. BudgetExact'
  BY <1>9, <1>10 DEF BudgetExact, LiveLeases
<1> QED
  BY <1>1, <1>9, <1>11 DEF BudgetInv

(* neither the live leases nor what they hold changes *)
LEMMA SameExact ==
  ASSUME BudgetInv, budget' = budget,
         lease' \in [Leases -> LeaseType],
         \A l \in Leases : lease'[l].phase = "free" => ~lease'[l].released,
         LiveLeases' = LiveLeases,
         \A l \in LiveLeases : lease'[l].bytes = lease[l].bytes
  PROVE  BudgetInv'
<1>1. IsFiniteSet(LiveLeases)
  BY DEF BudgetInv
<1>2. \A l \in LiveLeases : Bytes'[l] = Bytes[l]
  BY DEF Bytes, LiveLeases
<1>3. SumFunctionOnSet(Bytes', LiveLeases) = SumFunctionOnSet(Bytes, LiveLeases)
  BY <1>1, <1>2, SumSame
<1>4. BudgetExact'
  BY <1>3 DEF BudgetExact, LiveLeases, BudgetInv
<1> QED
  BY <1>1, <1>4 DEF BudgetInv

LEMMA AcquireExact ==
  ASSUME BudgetInv, NEW l \in Leases, NEW s \in Scopes, Acquire(l, s),
         lease' \in [Leases -> LeaseType]
  PROVE  BudgetInv'
<1>1. /\ l \notin LiveLeases /\ LiveLeases' = LiveLeases \union {l}
      /\ \A k \in Leases : lease'[k].phase = "free" => ~lease'[k].released
      /\ lease'[l].bytes = 0
      /\ \A k \in LiveLeases : lease'[k] = lease[k]
  BY DEF BudgetInv, Acquire, LiveLeases, Live
<1>2. /\ IsFiniteSet(LiveLeases) /\ IsFiniteSet(LiveLeases')
      /\ Cardinality(LiveLeases') = Cardinality(LiveLeases) + 1
      /\ Cardinality(LiveLeases) \in Nat
  BY <1>1, FS_AddElement, FS_CardinalityType DEF BudgetInv
<1>3. Bytes \in [Leases -> Nat] /\ Bytes' \in [Leases -> Nat]
  BY DEF BudgetInv, Bytes, LeaseType
<1>4. /\ \A k \in LiveLeases : Bytes'[k] = Bytes[k]
      /\ Bytes'[l] = 0
      /\ \A k \in LiveLeases \union {l} : Bytes'[k] \in Nat
  BY <1>1, <1>3 DEF Bytes, LiveLeases
<1>5. SumFunctionOnSet(Bytes', LiveLeases \union {l})
        = Bytes'[l] + SumFunctionOnSet(Bytes', LiveLeases)
  BY <1>1, <1>2, <1>4, SumAdd
<1>6. SumFunctionOnSet(Bytes', LiveLeases) = SumFunctionOnSet(Bytes, LiveLeases)
  BY <1>2, <1>4, SumSame
<1>7. /\ budget.leases = Cardinality(LiveLeases)
      /\ budget.bytes = SumFunctionOnSet(Bytes, LiveLeases)
      /\ budget.bytes <= MaxRetained
      /\ budget \in [bytes : Nat, leases : Nat]
  BY DEF BudgetInv, BudgetExact, LiveLeases
<1>8. budget' = [budget EXCEPT !.leases = @ + 1]
  BY DEF Acquire
<1>9. /\ budget' \in [bytes : Nat, leases : Nat]
      /\ budget'.leases = Cardinality(LiveLeases')
      /\ budget'.bytes = SumFunctionOnSet(Bytes', LiveLeases')
      /\ budget'.bytes <= MaxRetained
  BY <1>1, <1>2, <1>4, <1>5, <1>6, <1>7, <1>8
<1>10. BudgetExact'
  BY <1>9 DEF BudgetExact, LiveLeases
<1> QED
  BY <1>1, <1>2, <1>9, <1>10 DEF BudgetInv

LEMMA RetainExact ==
  ASSUME BudgetInv, NEW l \in Leases, Retain(l), lease' \in [Leases -> LeaseType]
  PROVE  BudgetInv'
<1>1. /\ l \in LiveLeases /\ LiveLeases' = LiveLeases
      /\ \A k \in Leases : lease'[k].phase = "free" => ~lease'[k].released
      /\ lease'[l].bytes = lease[l].bytes + 1
      /\ \A k \in LiveLeases \ {l} : lease'[k] = lease[k]
  BY DEF BudgetInv, Retain, LiveLeases, Live, LeaseType
<1>2. IsFiniteSet(LiveLeases) /\ IsFiniteSet(LiveLeases \ {l})
  BY FS_Subset DEF BudgetInv
<1>3. Bytes \in [Leases -> Nat] /\ Bytes' \in [Leases -> Nat]
  BY DEF BudgetInv, Bytes, LeaseType
<1>4. /\ \A k \in LiveLeases \ {l} : Bytes'[k] = Bytes[k]
      /\ Bytes'[l] = Bytes[l] + 1
      /\ \A k \in LiveLeases : Bytes[k] \in Nat /\ Bytes'[k] \in Nat
  BY <1>1, <1>3 DEF Bytes, LiveLeases
<1>5. /\ SumFunctionOnSet(Bytes, LiveLeases)
           = Bytes[l] + SumFunctionOnSet(Bytes, LiveLeases \ {l})
      /\ SumFunctionOnSet(Bytes', LiveLeases)
           = Bytes'[l] + SumFunctionOnSet(Bytes', LiveLeases \ {l})
  BY <1>1, <1>2, <1>4, SumRemove
<1>6. /\ SumFunctionOnSet(Bytes', LiveLeases \ {l}) = SumFunctionOnSet(Bytes, LiveLeases \ {l})
      /\ SumFunctionOnSet(Bytes, LiveLeases \ {l}) \in Nat
  BY <1>2, <1>4, SumSame, SumType
<1>7. /\ budget.leases = Cardinality(LiveLeases)
      /\ budget.bytes = SumFunctionOnSet(Bytes, LiveLeases)
      /\ budget.bytes < MaxRetained
      /\ budget' = [budget EXCEPT !.bytes = @ + 1]
      /\ budget \in [bytes : Nat, leases : Nat]
  BY DEF BudgetInv, BudgetExact, LiveLeases, Retain
<1>8. /\ budget' \in [bytes : Nat, leases : Nat]
      /\ budget'.leases = Cardinality(LiveLeases')
      /\ budget'.bytes = SumFunctionOnSet(Bytes', LiveLeases')
      /\ budget'.bytes <= MaxRetained
  BY <1>1, <1>4, <1>5, <1>6, <1>7, OwnershipAssumption
<1>9. BudgetExact'
  BY <1>8 DEF BudgetExact, LiveLeases
<1> QED
  BY <1>1, <1>2, <1>8, <1>9 DEF BudgetInv

LEMMA FreedLeases ==
  ASSUME BudgetInv, NEW ls \in SUBSET Leases
  PROVE  /\ Freed(ls) \in [Leases -> LeaseType]
         /\ \A l \in Leases :
              /\ Freed(ls)[l].phase = lease[l].phase
              /\ l \in ls /\ Live(l) => Freed(ls)[l].released
              /\ ~(l \in ls /\ Live(l)) => Freed(ls)[l] = lease[l]
<1>1. lease \in [Leases -> LeaseType]
  BY DEF BudgetInv
<1>2. ASSUME NEW l \in Leases, l \in ls /\ Live(l)
      PROVE  /\ Freed(ls)[l] \in LeaseType
             /\ Freed(ls)[l].phase = lease[l].phase
             /\ Freed(ls)[l].released
  BY <1>1, <1>2 DEF Freed, LeaseType
<1>3. ASSUME NEW l \in Leases, ~(l \in ls /\ Live(l))
      PROVE  Freed(ls)[l] = lease[l]
  BY <1>3 DEF Freed
<1>4. \A l \in Leases : Freed(ls)[l] \in LeaseType
  BY <1>1, <1>2, <1>3
<1>5. Freed(ls) \in [Leases -> LeaseType]
  BY <1>4 DEF Freed
<1> QED
  BY <1>2, <1>3, <1>5

LEMMA HandOverExact ==
  ASSUME BudgetInv, NEW s \in Scopes, NEW moved \in SUBSET In(s), NEW to, HandOver(s, moved, to),
         lease' \in [Leases -> LeaseType]
  PROVE  BudgetInv'
<1> DEFINE ls == In(s) \ moved
<1>1. ls \in SUBSET Leases
  BY DEF In
<1>2. \A l \in Leases :
        /\ lease'[l].phase = Freed(ls)[l].phase
        /\ lease'[l].released = Freed(ls)[l].released
        /\ lease'[l].bytes = Freed(ls)[l].bytes
  <2>1. lease' = [l \in Leases |->
           [Freed(ls)[l] EXCEPT !.sets = (@ \ {s}) \union (IF l \in moved THEN to ELSE {})]]
    BY DEF HandOver
  <2>2. \A l \in Leases : Freed(ls)[l] \in LeaseType
    BY <1>1, FreedLeases
  <2> HIDE DEF ls
  <2> QED
    BY <2>1, <2>2 DEF LeaseType
<1> HIDE DEF ls
<1>3. /\ \A l \in Leases : lease'[l].phase = "free" => ~lease'[l].released
      /\ LiveLeases' = LiveLeases \ ls
      /\ \A l \in LiveLeases \ ls : lease'[l].bytes = lease[l].bytes
  BY <1>1, <1>2, FreedLeases DEF LiveLeases, Live, BudgetInv
<1>4. budget' = Refunded(ls)
  BY DEF HandOver, ls
<1> QED
  BY <1>1, <1>3, <1>4, ReleaseExact

LEMMA DiscardExact ==
  ASSUME BudgetInv, NEW l \in Leases, Discard(l), lease' \in [Leases -> LeaseType]
  PROVE  BudgetInv'
<1>1. {l} \in SUBSET Leases
  OBVIOUS
<1>2. \A k \in Leases :
        /\ lease'[k].phase = IF k = l THEN "settled" ELSE Freed({l})[k].phase
        /\ lease'[k].released = Freed({l})[k].released
        /\ lease'[k].bytes = Freed({l})[k].bytes
  <2>1. lease' = [Freed({l}) EXCEPT ![l].phase = "settled"]
    BY DEF Discard
  <2>2. Freed({l}) \in [Leases -> LeaseType]
    BY <1>1, FreedLeases
  <2> QED
    BY <2>1, <2>2 DEF LeaseType
<1>3. lease[l].phase = "active" /\ budget' = Refunded({l})
  BY DEF Discard
<1>4. /\ \A k \in Leases : lease'[k].phase = "free" => ~lease'[k].released
      /\ LiveLeases' = LiveLeases \ {l}
      /\ \A k \in LiveLeases \ {l} : lease'[k].bytes = lease[k].bytes
  BY <1>1, <1>2, <1>3, FreedLeases DEF LiveLeases, Live, BudgetInv
<1> QED
  BY <1>1, <1>3, <1>4, ReleaseExact

LEMMA CompleteExact ==
  ASSUME BudgetInv, NEW l \in Leases, Complete(l), lease' \in [Leases -> LeaseType]
  PROVE  BudgetInv'
<1>1. \A k \in Leases :
        /\ lease'[k].phase = IF k = l THEN "settled" ELSE lease[k].phase
        /\ lease'[k].released = lease[k].released
        /\ lease'[k].bytes = lease[k].bytes
  BY DEF Complete, BudgetInv, LeaseType
<1>2. lease[l].phase = "active" /\ budget' = budget
  BY DEF Complete
<1>3. /\ \A k \in Leases : lease'[k].phase = "free" => ~lease'[k].released
      /\ LiveLeases' = LiveLeases
      /\ \A k \in LiveLeases : lease'[k].bytes = lease[k].bytes
  BY <1>1, <1>2 DEF LiveLeases, Live, BudgetInv
<1> QED
  BY <1>2, <1>3, SameExact

(* the leases of an attempt are kept, given back at its end, or later *)
LEMMA AttemptExact ==
  ASSUME BudgetInv, NEW s \in Scopes, AttemptEnds(s) \/ ResultReleased(s),
         lease' \in [Leases -> LeaseType]
  PROVE  BudgetInv'
<1> DEFINE ls == In(s)
<1>1. ls \in SUBSET Leases
  BY DEF In
<1>2. Freed(ls) \in [Leases -> LeaseType]
  BY <1>1, FreedLeases
<1>3. ASSUME budget' = Refunded(ls),
             \A l \in Leases : /\ lease'[l].phase = Freed(ls)[l].phase
                                /\ lease'[l].released = Freed(ls)[l].released
                                /\ lease'[l].bytes = Freed(ls)[l].bytes
      PROVE  BudgetInv'
  <2> HIDE DEF ls
  <2>1. /\ \A l \in Leases : lease'[l].phase = "free" => ~lease'[l].released
        /\ LiveLeases' = LiveLeases \ ls
        /\ \A l \in LiveLeases \ ls : lease'[l].bytes = lease[l].bytes
    BY <1>1, <1>3, FreedLeases DEF LiveLeases, Live, BudgetInv
  <2> QED
    BY <1>1, <1>3, <2>1, ReleaseExact
<1>4. CASE Kept(s)
  <2>1. \A l \in Leases : /\ lease'[l].phase = lease[l].phase
                           /\ lease'[l].released = lease[l].released
                           /\ lease'[l].bytes = lease[l].bytes
    BY <1>4 DEF Kept, BudgetInv, LeaseType
  <2>2. /\ \A l \in Leases : lease'[l].phase = "free" => ~lease'[l].released
        /\ LiveLeases' = LiveLeases
        /\ \A l \in LiveLeases : lease'[l].bytes = lease[l].bytes
    BY <2>1 DEF LiveLeases, Live, BudgetInv
  <2> QED
    BY <1>4, <2>2, SameExact DEF Kept
<1>5. CASE Release(In(s))
  BY <1>3, <1>5 DEF Release
<1>6. CASE ResultReleased(s)
  <2>1. \A l \in Leases :
          lease'[l] = IF l \in ls
                      THEN [Freed(ls)[l] EXCEPT !.sets = @ \ {scope[scope[s].parent].set}]
                      ELSE lease[l]
    BY <1>6 DEF ResultReleased
  <2>2. \A l \in Leases : l \notin ls => Freed(ls)[l] = lease[l]
    BY <1>1, FreedLeases
  <2>3. \A l \in Leases : /\ lease'[l].phase = Freed(ls)[l].phase
                           /\ lease'[l].released = Freed(ls)[l].released
                           /\ lease'[l].bytes = Freed(ls)[l].bytes
    <3> HIDE DEF ls
    <3> QED
      BY <1>2, <2>1, <2>2 DEF LeaseType
  <2>4. budget' = Refunded(ls)
    BY <1>6 DEF ResultReleased
  <2> QED
    BY <1>3, <2>3, <2>4
<1> QED
  BY <1>4, <1>5, <1>6 DEF AttemptEnds

LEMMA NextExact ==
  ASSUME IInv, BudgetInv, [Next]_vars
  PROVE  BudgetInv'
<1>1. lease' \in [Leases -> LeaseType]
  BY NextInv DEF IInv, Typed
<1>2. ASSUME NEW s \in Scopes, Done(s) PROVE BudgetInv'
  BY <1>1, <1>2, HandOverExact DEF Done
<1>3. ASSUME NEW s \in Scopes, HelperEnds(s) \/ HelperAbandoned(s) PROVE BudgetInv'
  <2>1. PICK completed \in BOOLEAN, phase \in {"over", "late"} : HelperReturns(s, completed, phase)
    BY <1>3 DEF HelperEnds, HelperAbandoned
  <2>2. PICK moved \in {In(s), {}} : HandOver(s, moved, {scope[scope[s].parent].set})
    BY <2>1 DEF HelperReturns, Returned
  <2>3. moved \in SUBSET In(s)
    BY <2>2
  <2> QED
    BY <1>1, <2>2, <2>3, HandOverExact
<1>4. ASSUME lease' = lease, budget' = budget PROVE BudgetInv'
  <2>1. LiveLeases' = LiveLeases
    BY <1>4 DEF LiveLeases, Live
  <2> QED
    BY <1>1, <1>4, <2>1, SameExact DEF BudgetInv
<1>5. ASSUME NEW l \in Leases, Retain(l) \/ IOEnds(l) \/ \E s \in Scopes : Acquire(l, s)
      PROVE  BudgetInv'
  BY <1>1, <1>5, RetainExact, CompleteExact, DiscardExact, AcquireExact DEF IOEnds
<1>6. ASSUME NEW s \in Scopes, ResponseCloses(s) \/ CallerReleases(s) \/ PromiseEnds(s)
      PROVE  BudgetInv'
  BY <1>2, <1>4, <1>6 DEF ResponseCloses, CallerReleases, PromiseEnds
<1>7. ASSUME NEW s \in Scopes, AttemptEnds(s) \/ ResultReleased(s) PROVE BudgetInv'
  BY <1>1, <1>7, AttemptExact
<1>8. ASSUME NEW s \in Scopes,
             Own(s) \/ Timeout(s) \/ ResponseEnds(s) \/ LateHelperEnds(s) \/ NativeEnds(s)
      PROVE  BudgetInv'
  BY <1>4, <1>8 DEF Own, Timeout, ResponseEnds, LateHelperEnds, NativeEnds
<1>9. ASSUME NEW s \in Scopes, NEW p \in Scopes, Enter(s, p) PROVE BudgetInv'
  BY <1>4, <1>9 DEF Enter, EnterWith
<1>10. CASE UNCHANGED vars
  BY <1>4, <1>10 DEF vars
<1> QED
  BY <1>3, <1>5, <1>6, <1>7, <1>8, <1>9, <1>10 DEF Next, ScopeEnds

(* What is charged to the budget is what the live leases hold, in number and  *)
(* in bytes, and never too much, although scopes, results and the I/O release *)
(* the same lease (retainedBudget, ownedLease, release).                      *)
THEOREM BudgetAlwaysExact == Spec => []BudgetExact
<1>1. Init => BudgetInv
  <2> SUFFICES ASSUME Init PROVE BudgetInv
    OBVIOUS
  <2>1. LiveLeases = {}
    BY DEF Init, LiveLeases, Live
  <2>2. /\ lease \in [Leases -> LeaseType]
        /\ \A l \in Leases : lease[l].phase = "free" => ~lease[l].released
        /\ budget \in [bytes : Nat, leases : Nat]
    BY DEF Init, LeaseType
  <2>3. BudgetExact
    <3>1. Cardinality(LiveLeases) = 0 /\ SumFunctionOnSet(Bytes, LiveLeases) = 0
      BY <2>1, SumEmpty, FS_EmptySet
    <3> QED
      BY <3>1, OwnershipAssumption DEF Init, BudgetExact, LiveLeases
  <2> QED
    BY <2>1, <2>2, <2>3, FS_EmptySet DEF BudgetInv
<1>2. IInv /\ BudgetInv /\ [Next]_vars => BudgetInv'
  BY NextExact
<1>3. BudgetInv => BudgetExact
  BY DEF BudgetInv
<1> QED
  BY InitInv, NextInv, <1>1, <1>2, <1>3, PTL DEF Spec

-----------------------------------------------------------------------------
BodyRecords ==
  [pc : {"idle", "reading", "handling", "answering", "done"},
   kind : {"none", "buffered", "passed"}, lease : {"none", "live", "released"},
   retained : Nat, received : Nat, writes : Nat]

(* what a request keeps it keeps by its lease, and a body that is passed      *)
(* through keeps what its writes have yet to send                            *)
BodySound(r) ==
  /\ req[r].pc = "idle" => req[r].lease = "none" /\ req[r].writes = 0
  /\ req[r].lease # "live" => req[r].retained = 0
  /\ req[r].lease = "none" => req[r].writes = 0
  /\ req[r].lease # "none" => req[r].kind # "none"
  /\ req[r].kind # "passed" => req[r].writes = 0
  /\ req[r].kind = "passed" /\ req[r].lease = "live" => req[r].retained = req[r].writes

(* the counters, when the requests in set have leases that keep bytes *)
Totals(slots, bytes, set, kept) ==
  /\ IsFiniteSet(set)
  /\ slots = Cardinality(set) /\ bytes = SumFunctionOnSet(kept, set)

BodiesInv ==
  /\ req \in [BodyRequests -> BodyRecords]
  /\ inflight \in Nat /\ retainedBytes \in Nat
  /\ Totals(inflight, retainedBytes, Body!Live, Body!Kept)
  /\ inflight <= BodySlots /\ retainedBytes <= BodyBytes
  /\ \A r \in BodyRequests : BodySound(r)

LEMMA BodySums ==
  /\ \A S : Body!Cardinality(S) = Cardinality(S)
  /\ \A f, S : Body!SumFunctionOnSet(f, S) = SumFunctionOnSet(f, S)
BY DEF Cardinality, Body!Cardinality, SumFunctionOnSet, Body!SumFunctionOnSet,
       FoldFunctionOnSet, Body!FoldFunctionOnSet, MapThenFoldSet, Body!MapThenFoldSet

(* A counter is what one request keeps and what the others do.               *)
LEMMA OneOf ==
  ASSUME NEW L, IsFiniteSet(L), NEW f, \A x \in L : f[x] \in Nat, NEW r
  PROVE  /\ IsFiniteSet(L \ {r})
         /\ Cardinality(L \ {r}) \in Nat /\ SumFunctionOnSet(f, L \ {r}) \in Nat
         /\ Cardinality(L) = Cardinality(L \ {r}) + (IF r \in L THEN 1 ELSE 0)
         /\ SumFunctionOnSet(f, L) =
              SumFunctionOnSet(f, L \ {r}) + (IF r \in L THEN f[r] ELSE 0)
<1>1. IsFiniteSet(L \ {r}) /\ Cardinality(L \ {r}) \in Nat
  BY FS_Subset, FS_CardinalityType
<1>2. SumFunctionOnSet(f, L \ {r}) \in Nat
  BY <1>1, SumType
<1>3. CASE r \in L
  <2>1. Cardinality(L \ {r}) = Cardinality(L) - 1 /\ Cardinality(L) \in Nat
    BY <1>3, FS_RemoveElement, FS_CardinalityType
  <2>2. SumFunctionOnSet(f, L) = f[r] + SumFunctionOnSet(f, L \ {r})
    BY <1>3, SumRemove
  <2> QED
    BY <1>1, <1>2, <1>3, <2>1, <2>2
<1>4. CASE r \notin L
  <2>1. L \ {r} = L
    BY <1>4
  <2> QED
    BY <1>1, <1>2, <1>4, <2>1
<1> QED
  BY <1>3, <1>4

(* One request moves on: the counters follow when they change by what its     *)
(* slot and its bytes do.                                                   *)
LEMMA OneBodyMoves ==
  ASSUME BodiesInv, NEW r \in BodyRequests, NEW x \in BodyRecords,
         req' = [req EXCEPT ![r] = x],
         inflight' = inflight - (IF req[r].lease = "live" THEN 1 ELSE 0)
                              + (IF x.lease = "live" THEN 1 ELSE 0),
         retainedBytes' = retainedBytes - req[r].retained + x.retained,
         inflight' <= BodySlots, retainedBytes' <= BodyBytes,
         x.lease # "live" => x.retained = 0
  PROVE  /\ req' \in [BodyRequests -> BodyRecords]
         /\ inflight' \in Nat /\ retainedBytes' \in Nat
         /\ Totals(inflight', retainedBytes', Body!Live', Body!Kept')
<1> DEFINE A == Body!Live \ {r}
<1>1. /\ \A y \in Body!Live : Body!Kept[y] \in Nat
      /\ \A y \in Body!Live' : Body!Kept'[y] \in Nat
      /\ Body!Live' \ {r} = A
      /\ \A y \in A : Body!Kept[y] = Body!Kept'[y]
      /\ r \in Body!Live <=> req[r].lease = "live"
      /\ r \in Body!Live' <=> x.lease = "live"
      /\ Body!Kept[r] = req[r].retained /\ Body!Kept'[r] = x.retained
      /\ req[r].retained \in Nat /\ x.retained \in Nat
      /\ req[r].lease # "live" => req[r].retained = 0
      /\ req' \in [BodyRequests -> BodyRecords]
  BY DEF BodiesInv, Body!Live, Body!Kept, BodyRecords, BodySound
<1>2. /\ IsFiniteSet(Body!Live)
      /\ inflight = Cardinality(Body!Live)
      /\ retainedBytes = SumFunctionOnSet(Body!Kept, Body!Live)
  BY DEF BodiesInv, Totals
<1> DEFINE L == Body!Live
           f == Body!Kept
           M == Body!Live'
           g == Body!Kept'
<1>3. /\ IsFiniteSet(A) /\ Cardinality(A) \in Nat /\ SumFunctionOnSet(f, A) \in Nat
      /\ inflight = Cardinality(A) + (IF r \in L THEN 1 ELSE 0)
      /\ retainedBytes = SumFunctionOnSet(f, A) + (IF r \in L THEN f[r] ELSE 0)
  <2> HIDE DEF L, f
  <2>1. IsFiniteSet(L) /\ \A y \in L : f[y] \in Nat
    BY <1>1, <1>2 DEF L, f
  <2> QED
    BY <1>2, <2>1, OneOf DEF L, f
<1>4. IsFiniteSet(M)
  <2>1. M \subseteq A \union {r}
    BY <1>1
  <2> QED
    BY <1>3, <2>1, FS_AddElement, FS_Subset
<1>5. SumFunctionOnSet(g, A) = SumFunctionOnSet(f, A)
  <2> HIDE DEF f, g, A
  <2>1. \A y \in A : f[y] = g[y]
    BY <1>1 DEF A, f, g
  <2> QED
    BY <1>3, <2>1, SumSame
<1>6. /\ Cardinality(M) = Cardinality(A) + (IF r \in M THEN 1 ELSE 0)
      /\ SumFunctionOnSet(g, M) = SumFunctionOnSet(g, A) + (IF r \in M THEN g[r] ELSE 0)
  <2> HIDE DEF M, g, A
  <2>1. \A y \in M : g[y] \in Nat
    BY <1>1 DEF M, g
  <2>2. M \ {r} = A
    BY <1>1 DEF M
  <2> QED
    BY <1>4, <2>1, <2>2, OneOf
<1>7. /\ inflight' = Cardinality(A) + (IF x.lease = "live" THEN 1 ELSE 0)
      /\ retainedBytes' = SumFunctionOnSet(f, A) + x.retained
  <2> HIDE DEF A, f
  <2>1. f[r] = req[r].retained
    BY <1>1 DEF f
  <2>2. CASE req[r].lease = "live"
    BY <1>1, <1>3, <2>1, <2>2
  <2>3. CASE req[r].lease # "live"
    BY <1>1, <1>3, <2>3
  <2> QED
    BY <2>2, <2>3
<1>8. inflight' = Cardinality(M) /\ retainedBytes' = SumFunctionOnSet(g, M)
  BY <1>1, <1>3, <1>5, <1>6, <1>7
<1> QED
  BY <1>1, <1>3, <1>4, <1>7, <1>8 DEF Totals

LEMMA OneBodySound ==
  ASSUME BodiesInv, NEW r \in BodyRequests, NEW x \in BodyRecords,
         req' = [req EXCEPT ![r] = x],
         inflight' = inflight - (IF req[r].lease = "live" THEN 1 ELSE 0)
                              + (IF x.lease = "live" THEN 1 ELSE 0),
         retainedBytes' = retainedBytes - req[r].retained + x.retained,
         inflight' <= BodySlots, retainedBytes' <= BodyBytes,
         BodySound(r)'
  PROVE  BodiesInv'
<1>1. x.lease # "live" => x.retained = 0
  BY DEF BodySound, BodiesInv
<1>2. \A y \in BodyRequests : BodySound(y)'
  <2> TAKE y \in BodyRequests
  <2>1. CASE y = r
    BY <2>1
  <2>2. CASE y # r
    <3>1. BodySound(y) /\ req'[y] = req[y]
      BY <2>2 DEF BodiesInv
    <3> QED
      BY <3>1 DEF BodySound
  <2> QED
    BY <2>1, <2>2
<1> QED
  BY <1>1, <1>2, OneBodyMoves DEF BodiesInv

LEMMA BodiesInitInv == Body!Init => BodiesInv
<1> SUFFICES ASSUME Body!Init PROVE BodiesInv
  OBVIOUS
<1>1. req \in [BodyRequests -> BodyRecords] /\ Body!Live = {}
  BY DEF Body!Init, Body!Idle, BodyRecords, Body!Live
<1>2. \A r \in BodyRequests : BodySound(r)
  BY DEF Body!Init, Body!Idle, BodySound
<1>3. Totals(inflight, retainedBytes, Body!Live, Body!Kept)
  BY <1>1, SumEmpty, FS_EmptySet DEF Body!Init, Totals
<1> QED
  BY <1>1, <1>2, <1>3, AdmissionAssumption DEF Body!Init, BodiesInv

LEMMA BodyGoes ==
  ASSUME BodiesInv, NEW r \in BodyRequests,
         NEW pc \in {"reading", "handling", "answering", "done"}, Body!Goes(r, pc)
  PROVE  BodiesInv'
<1> DEFINE x == [req[r] EXCEPT !.pc = pc]
<1>1. x \in BodyRecords /\ req' = [req EXCEPT ![r] = x]
  BY DEF Body!Goes, BodiesInv, BodyRecords
<1>2. BodySound(r)'
  BY DEF Body!Goes, BodiesInv, BodyRecords, BodySound
<1>3. x.lease = req[r].lease /\ x.retained = req[r].retained /\ req[r].retained \in Nat
  BY DEF BodiesInv, BodyRecords
<1>4. /\ inflight' = inflight /\ retainedBytes' = retainedBytes
      /\ inflight \in Nat /\ retainedBytes \in Nat
      /\ inflight <= BodySlots /\ retainedBytes <= BodyBytes
  BY DEF Body!Goes, BodiesInv
<1>5. /\ inflight' = inflight - (IF req[r].lease = "live" THEN 1 ELSE 0)
                              + (IF x.lease = "live" THEN 1 ELSE 0)
      /\ retainedBytes' = retainedBytes - req[r].retained + x.retained
  <2> HIDE DEF x
  <2> QED
    BY <1>3, <1>4
<1> QED
  BY <1>1, <1>2, <1>4, <1>5, OneBodySound

LEMMA BodyReleased ==
  ASSUME BodiesInv, NEW r \in BodyRequests, req[r].pc # "idle",
         NEW pc \in {"answering", "done"},
         Body!Released(r, [req[r] EXCEPT !.pc = pc])
  PROVE  BodiesInv'
<1> DEFINE next == [req[r] EXCEPT !.pc = pc]
           x == [next EXCEPT !.retained = 0,
                   !.lease = IF @ = "none" THEN "none" ELSE "released"]
<1>1. x \in BodyRecords /\ req' = [req EXCEPT ![r] = x]
  BY DEF Body!Released, BodiesInv, BodyRecords
<1>2. BodySound(r)'
  BY DEF Body!Released, BodiesInv, BodyRecords, BodySound
<1>3. /\ x.lease # "live" /\ x.retained = 0 /\ req[r].retained \in Nat
      /\ retainedBytes - req[r].retained \in Int
  BY DEF BodiesInv, BodyRecords
<1>4. /\ inflight' = inflight - (IF req[r].lease = "live" THEN 1 ELSE 0)
      /\ retainedBytes' = retainedBytes - req[r].retained
      /\ inflight \in Nat /\ retainedBytes \in Nat
      /\ inflight <= BodySlots /\ retainedBytes <= BodyBytes
  BY DEF Body!Released, BodiesInv
<1>5. /\ inflight' = inflight - (IF req[r].lease = "live" THEN 1 ELSE 0)
                              + (IF x.lease = "live" THEN 1 ELSE 0)
      /\ retainedBytes' = retainedBytes - req[r].retained + x.retained
      /\ inflight' <= BodySlots /\ retainedBytes' <= BodyBytes
  <2> HIDE DEF x
  <2> QED
    BY <1>3, <1>4, AdmissionAssumption
<1> QED
  BY <1>1, <1>2, <1>5, OneBodySound

LEMMA BodyAdmitted ==
  ASSUME BodiesInv, NEW r \in BodyRequests, NEW kind \in {"buffered", "passed"},
         Body!Admit(r, kind)
  PROVE  BodiesInv'
<1>1. CASE inflight >= BodySlots
  BY <1>1, BodyGoes DEF Body!Admit
<1>2. CASE ~(inflight >= BodySlots)
  <2> DEFINE x == [req[r] EXCEPT !.pc = "reading", !.kind = kind, !.lease = "live"]
  <2>1. x \in BodyRecords /\ req' = [req EXCEPT ![r] = x]
    BY <1>2 DEF Body!Admit, BodiesInv, BodyRecords
  <2>2. BodySound(r)'
    BY <1>2 DEF Body!Admit, BodiesInv, BodyRecords, BodySound
  <2>3. /\ x.lease = "live" /\ x.retained = 0 /\ req[r].retained = 0 /\ req[r].lease # "live"
    BY DEF BodiesInv, BodyRecords, BodySound, Body!Admit
  <2>4. /\ inflight' = inflight + 1 /\ retainedBytes' = retainedBytes
        /\ inflight \in Nat /\ retainedBytes \in Nat /\ retainedBytes <= BodyBytes
    BY <1>2 DEF Body!Admit, BodiesInv
  <2>5. /\ inflight' = inflight - (IF req[r].lease = "live" THEN 1 ELSE 0)
                                + (IF x.lease = "live" THEN 1 ELSE 0)
        /\ retainedBytes' = retainedBytes - req[r].retained + x.retained
        /\ inflight' <= BodySlots /\ retainedBytes' <= BodyBytes
    <3> HIDE DEF x
    <3> QED
      BY <1>2, <2>3, <2>4, AdmissionAssumption
  <2> QED
    BY <2>1, <2>2, <2>5, OneBodySound
<1> QED
  BY <1>1, <1>2

LEMMA BodyData ==
  ASSUME BodiesInv, NEW r \in BodyRequests, Body!Data(r)
  PROVE  BodiesInv'
<1>1. CASE ~Body!Fits(r)
  BY <1>1, BodyGoes DEF Body!Data
<1>2. CASE Body!Fits(r)
  <2> DEFINE x == IF req[r].kind = "buffered" THEN Body!Chunk(r)
                  ELSE [Body!Chunk(r) EXCEPT !.writes = @ + 1]
  <2>0. req[r] \in BodyRecords /\ BodySound(r) /\ req[r].pc = "reading" /\ req[r].lease = "live"
    BY DEF Body!Data, BodiesInv
  <2>6. /\ x.pc = req[r].pc /\ x.lease = req[r].lease /\ x.kind = req[r].kind
        /\ x.retained = req[r].retained + 1
        /\ x.writes = req[r].writes + (IF req[r].kind = "buffered" THEN 0 ELSE 1)
        /\ x \in BodyRecords
    <3>1. /\ Body!Chunk(r).pc = req[r].pc /\ Body!Chunk(r).lease = req[r].lease
          /\ Body!Chunk(r).kind = req[r].kind /\ Body!Chunk(r).writes = req[r].writes
          /\ Body!Chunk(r).retained = req[r].retained + 1
      BY <2>0 DEF Body!Chunk, BodyRecords
    <3>2. Body!Chunk(r) \in BodyRecords
      <4>1. req[r].retained + 1 \in Nat /\ req[r].received + 1 \in Nat
        BY <2>0 DEF BodyRecords
      <4> QED
        BY <2>0, <4>1 DEF Body!Chunk, BodyRecords
    <3>3. CASE req[r].kind = "buffered"
      BY <3>1, <3>2, <3>3 DEF BodyRecords
    <3>4. CASE req[r].kind # "buffered"
      BY <3>1, <3>2, <3>4 DEF BodyRecords
    <3> QED
      BY <3>3, <3>4
  <2>1. x \in BodyRecords /\ req' = [req EXCEPT ![r] = x]
    BY <1>2, <2>6 DEF Body!Data
  <2>2. BodySound(r)'
    <3>1. req'[r] = x
      BY <2>1 DEF BodiesInv
    <3> HIDE DEF x
    <3>2. req[r].kind \in {"buffered", "passed"}
      BY <2>0 DEF BodySound, BodyRecords
    <3> QED
      BY <2>0, <2>6, <3>1, <3>2 DEF BodySound, BodyRecords
  <2>3. /\ x.lease = "live" /\ x.retained = req[r].retained + 1
        /\ req[r].retained \in Nat /\ req[r].lease = "live"
    BY DEF BodiesInv, BodyRecords, Body!Chunk, Body!Data
  <2>4. /\ inflight' = inflight /\ retainedBytes' = retainedBytes + 1
        /\ inflight \in Nat /\ retainedBytes \in Nat /\ inflight <= BodySlots
        /\ retainedBytes < BodyBytes
    BY <1>2 DEF Body!Data, Body!Fits, BodiesInv
  <2>5. /\ inflight' = inflight - (IF req[r].lease = "live" THEN 1 ELSE 0)
                                + (IF x.lease = "live" THEN 1 ELSE 0)
        /\ retainedBytes' = retainedBytes - req[r].retained + x.retained
        /\ inflight' <= BodySlots /\ retainedBytes' <= BodyBytes
    <3> HIDE DEF x
    <3> QED
      BY <2>3, <2>4, AdmissionAssumption
  <2> QED
    BY <2>1, <2>2, <2>5, OneBodySound
<1> QED
  BY <1>1, <1>2

LEMMA BodyWritten ==
  ASSUME BodiesInv, NEW r \in BodyRequests, Body!Written(r)
  PROVE  BodiesInv'
<1> DEFINE n == IF req[r].lease = "live" THEN 1 ELSE 0
           x == [req[r] EXCEPT !.writes = @ - 1, !.retained = @ - n]
<1>1. /\ req[r] \in BodyRecords /\ req[r].writes > 0 /\ req[r].kind = "passed"
      /\ req[r].lease = "live" => req[r].retained = req[r].writes
      /\ req[r].lease # "live" => req[r].retained = 0
      /\ req[r].lease # "none" /\ req[r].pc # "idle"
  BY DEF Body!Written, BodiesInv, BodyRecords, BodySound
<1>2. x \in BodyRecords /\ req' = [req EXCEPT ![r] = x]
  <2>1. req[r].writes - 1 \in Nat /\ req[r].retained - n \in Nat
    BY <1>1 DEF BodyRecords
  <2>2. req' = [req EXCEPT ![r] = x]
    BY DEF Body!Written, BodiesInv, BodyRecords
  <2>3. x \in BodyRecords
    <3> HIDE DEF n
    <3> QED
      BY <1>1, <2>1 DEF BodyRecords
  <2> QED
    BY <2>2, <2>3
<1>3. BodySound(r)'
  <2>1. req'[r] = x
    BY <1>2 DEF BodiesInv
  <2>2. /\ x.pc = req[r].pc /\ x.lease = req[r].lease /\ x.kind = req[r].kind
        /\ x.writes = req[r].writes - 1 /\ x.retained = req[r].retained - n
    BY <1>1 DEF BodyRecords
  <2> HIDE DEF x
  <2> QED
    BY <1>1, <2>1, <2>2 DEF BodySound, BodyRecords
<1>4. /\ x.lease = req[r].lease /\ x.retained = req[r].retained - n
      /\ req[r].retained \in Nat
  BY <1>1 DEF BodyRecords
<1>5. /\ inflight' = inflight /\ retainedBytes' = retainedBytes - n
      /\ inflight \in Nat /\ retainedBytes \in Nat /\ inflight <= BodySlots
      /\ retainedBytes <= BodyBytes
  BY DEF Body!Written, BodiesInv
<1>6. /\ inflight' = inflight - (IF req[r].lease = "live" THEN 1 ELSE 0)
                              + (IF x.lease = "live" THEN 1 ELSE 0)
      /\ retainedBytes' = retainedBytes - req[r].retained + x.retained
      /\ inflight' <= BodySlots /\ retainedBytes' <= BodyBytes
  <2> HIDE DEF x
  <2> QED
    BY <1>4, <1>5, AdmissionAssumption
<1> QED
  BY <1>2, <1>3, <1>6, OneBodySound

LEMMA BodiesStep ==
  ASSUME BodiesInv, [Body!Next]_(Body!bodyVars)
  PROVE  BodiesInv'
<1>1. ASSUME NEW r \in BodyRequests, NEW kind \in {"buffered", "passed"},
             Body!Admit(r, kind)
      PROVE  BodiesInv'
  BY <1>1, BodyAdmitted
<1>2. ASSUME NEW r \in BodyRequests,
             Body!BodyEnds(r) \/ Body!BodyTimesOut(r) \/ Body!Answers(r)
      PROVE  BodiesInv'
  BY <1>2, BodyGoes DEF Body!BodyEnds, Body!BodyTimesOut, Body!Answers
<1>3. ASSUME NEW r \in BodyRequests, Body!Throws(r) \/ Body!Flushed(r) \/ Body!Lost(r)
      PROVE  BodiesInv'
  BY <1>3, BodyReleased DEF Body!Throws, Body!Flushed, Body!Lost
<1>4. CASE UNCHANGED Body!bodyVars
  <2>1. Body!Live' = Body!Live /\ Body!Kept' = Body!Kept
    BY <1>4 DEF Body!bodyVars, Body!Live, Body!Kept
  <2> QED
    BY <1>4, <2>1 DEF Body!bodyVars, BodiesInv, BodySound
<1> QED
  BY <1>1, <1>2, <1>3, <1>4, BodyData, BodyWritten DEF Body!Next

(* For any limits and any number of requests, whatever the order in which the *)
(* ends of a request release its lease: the counters of body admission are   *)
(* what the live leases hold, and within their limits.                       *)
THEOREM AdmissionIsExact == Body!Spec => []AdmissionExact
<1>1. BodiesInv => AdmissionExact
  <2>1. ASSUME BodiesInv, NEW r \in Body!Live, req[r].kind = "passed"
        PROVE  req[r].retained = req[r].writes
    BY <2>1 DEF BodiesInv, BodySound, Body!Live
  <2> QED
    BY <2>1, BodySums DEF BodiesInv, Totals, AdmissionExact, Body!AdmissionExact
<1> QED
  BY <1>1, BodiesInitInv, BodiesStep, PTL DEF Body!Spec
=============================================================================
