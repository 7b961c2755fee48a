--------------------------- MODULE ProviderHealth ---------------------------
(***************************************************************************)
(* What lib/scoring.js remembers of a provider's failures - a cooldown,    *)
(* saved with the scores, and a quota that is exhausted, saved at once -   *)
(* and the group requests of lib/routing.js that rank providers by it, try *)
(* them later, and set and clear it.  The order within the ranking is any, *)
(* but deferred providers come last: taskOrderedProviders, which may order *)
(* the whole list anew for a task (line 9309), is left out.                *)
(***************************************************************************)
EXTENDS Naturals, Sequences, SequencesExt, FiniteSets

CONSTANTS
  Providers, Requests,
  Bannable, \* bound: providers a user bans
  Long,     \* an hour and more: a rate limit, QUOTA_COOLDOWN_MS, a user's ban
  Short     \* COOLDOWN_MS and other times below an hour

VARIABLES
  left,     \* time left of a provider's cooldown
  saved,    \* the same in the scores file
  quota,    \* time left of a provider's quota entry
  deferred, \* providers whose cooldown a fallback may clear
  banned,   \* time left of what the user was told
  req       \* per request: the providers still to be tried

healthVars == <<left, saved, quota, deferred, banned, req>>

Idle == [at |-> "idle", list |-> <<>>, ban |-> {}, cooled |-> {}]
None == [p \in Providers |-> 0]

Init ==
  /\ left = None /\ saved = None /\ quota = None /\ banned = None
  /\ deferred = {}
  /\ req = [r \in Requests |-> Idle]

Cooling(p) == left[p] > 0

isQuotaDisabled(p) == quota[p] > 0

Listings(S) == UNION {SetToSeqs(T) : T \in SUBSET S}

(* mutant: what another request deferred is forgotten *)
DeferredAnew(touched, flagged) == flagged

(* the mark is on the provider, which all requests share *)
Deferred(touched, flagged) == (deferred \ touched) \union flagged

(* getProvidersForGroup, then, for some requests, the near-level fallback: what
   it adds comes last and keeps its cooldown until it is tried; if there is no
   other provider it is cleared at once.  The marks of what it looked at are
   set anew *)
Rank(r) ==
  /\ req[r].at = "idle"
  /\ \E primary \in Listings({p \in Providers : ~Cooling(p) /\ quota[p] = 0}) :
     \E extra \in Listings({p \in Providers : ~isQuotaDisabled(p)} \ ToSet(primary)) :
     \E flagged \in SUBSET ToSet(extra) :
       /\ primary \o extra # <<>>
       /\ {p \in ToSet(extra) : Cooling(p)} \subseteq flagged
       /\ req' = [req EXCEPT ![r] =
            [at |-> "pick", list |-> primary \o extra,
             ban |-> {p \in Providers : banned[p] > 0}, cooled |-> {}]]
       /\ IF primary # <<>>
          THEN /\ \E touched \in SUBSET ToSet(primary) :
                    /\ extra # <<>> => touched = ToSet(primary)
                    /\ deferred' = Deferred(touched \union ToSet(extra), flagged)
               /\ UNCHANGED <<left, saved>>
          ELSE /\ deferred' = Deferred(ToSet(extra), {})
               /\ left' = [p \in Providers |-> IF p \in flagged THEN 0 ELSE left[p]]
               /\ saved' = IF flagged # {} THEN left' ELSE saved
  /\ UNCHANGED <<quota, banned>>

(* the loop over the providers: the next one is asked, or skipped if it has
   been cooled since *)
Try(r) ==
  LET p == Head(req[r].list) IN
  /\ req[r].at = "pick"
  /\ \/ /\ req[r].list = <<>>
        /\ req' = [req EXCEPT ![r] = Idle] /\ UNCHANGED <<left, saved, deferred>>
     \/ /\ req[r].list # <<>> /\ p \in deferred /\ Cooling(p)
        /\ left' = [left EXCEPT ![p] = 0] /\ saved' = left'
        /\ deferred' = deferred \ {p}
        /\ req' = [req EXCEPT ![r].at = p, ![r].list = Tail(@)]
     \/ /\ req[r].list # <<>> /\ ~(p \in deferred /\ Cooling(p))
        /\ req' = [req EXCEPT ![r].at = IF Cooling(p) THEN "pick" ELSE p,
                              ![r].list = Tail(@)]
        /\ UNCHANGED <<left, saved, deferred>>
  /\ UNCHANGED <<quota, banned>>

(* the providers that were cooled while a request was under way *)
Cooled(requests, S) ==
  [r \in Requests |-> IF requests[r] = Idle THEN Idle
                      ELSE [requests[r] EXCEPT !.cooled = @ \union S]]

(* recordSuccess *)
Succeed(r) ==
  LET p == req[r].at IN
  /\ p \in Providers
  /\ left' = [left EXCEPT ![p] = 0] /\ saved' = left'
  /\ req' = [req EXCEPT ![r] = Idle]
  /\ UNCHANGED <<quota, deferred, banned>>

(* routeToProvider finds the quota exhausted, and may set another cooldown
   over it; then the loop records the failure, which saves, and may set one
   again, for the provider or with it for others of its account *)
Fail(r) ==
  LET p == req[r].at IN
  /\ p \in Providers
  /\ \E exhausted \in BOOLEAN, first \in {left[p], Short, Long} :
     \E then \in {first, Short, Long}, cooled \in SUBSET Providers :
       LET one == [left EXCEPT ![p] = IF exhausted /\ first = left[p] THEN Long ELSE first]
           two == [q \in Providers |-> IF q \in cooled THEN then ELSE one[q]] IN
       /\ quota' = IF exhausted THEN [quota EXCEPT ![p] = Long] ELSE quota
       /\ saved' = one
       /\ left' = two
       /\ req' = Cooled([req EXCEPT ![r].at = "pick"],
                        {q \in Providers : two[q] > 0 /\ (q = p \/ q \in cooled)})
  /\ UNCHANGED <<deferred, banned>>

(* a user's message bans a provider for some hours *)
Ban(p) ==
  /\ left' = [left EXCEPT ![p] = Long] /\ banned' = [banned EXCEPT ![p] = Long]
  /\ req' = Cooled(req, {p})
  /\ UNCHANGED <<saved, quota, deferred>>

Less(time) == [p \in Providers |-> IF time[p] > 0 THEN time[p] - 1 ELSE 0]
Tick ==
  /\ left' = Less(left) /\ saved' = Less(saved)
  /\ quota' = Less(quota) /\ banned' = Less(banned)
  /\ UNCHANGED <<deferred, req>>

Restart ==
  /\ left' = saved /\ deferred' = {}
  /\ req' = [r \in Requests |-> Idle]
  /\ UNCHANGED <<saved, quota, banned>>

Next ==
  \/ \E r \in Requests : Rank(r) \/ Try(r) \/ Succeed(r) \/ Fail(r)
  \/ \E p \in Bannable : Ban(p)
  \/ Tick \/ Restart

Spec == Init /\ [][Next]_healthVars

(***************************************************************************)
(* A provider is passed over only if it was cooled since the request chose *)
(* it: one that was cooling then has its cooldown cleared when it is tried,*)
(* whatever other requests that share the mark have done in between.       *)
(***************************************************************************)
SkippedIfCooledSince ==
  [][\A r \in Requests :
       req[r].at = "pick" /\ req'[r].at = "pick" /\ req'[r].list # req[r].list
         => Head(req[r].list) \in req[r].cooled]_healthVars

Asks(r, p) == req[r].at # p /\ req'[r].at = p

(***************************************************************************)
(* A request that comes after a user has banned a provider does not ask it *)
(* before the ban is over: the answer to the user says that other          *)
(* providers will be used.                                                 *)
(***************************************************************************)
BannedKeptAway ==
  [][\A r \in Requests, p \in Providers :
       Asks(r, p) /\ p \in req[r].ban => banned[p] = 0]_healthVars
=============================================================================
