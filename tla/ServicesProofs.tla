--------------------------- MODULE ServicesProofs ---------------------------
(***************************************************************************)
(* The services beside the answers.  For any routes, however they share    *)
(* keys, a half-open key is due, so no late answer clears a failure that is*)
(* not.  For any requests, hosted or not, and any bounds, a session        *)
(* remembers what was said on it, and the branches of a conversation stay  *)
(* apart.  However many rounds of hosted calls come before an answer, the  *)
(* client gets its calls with it.                                          *)
(***************************************************************************)
EXTENDS AccountAvailability, Conversations, Inductions

LEMMA KeysAreKeys ==
  /\ \A r \in Routes : KeysOf(r) \subseteq Keys
  /\ \A r \in Routes, s \in Scopes : keyOf[r][s] \in KeysOf(r)
  /\ AccountKeys \subseteq Keys
BY AvailabilityAssumption DEF KeysOf, AccountKeys

LEMMA InitType == Init => TypeOK
BY DEF Init, TypeOK, Health, Clear, Idle

LEMMA AnswerType ==
  ASSUME TypeOK, NEW q \in Requests, Answer(q)
  PROVE  TypeOK'
<1>1. req' \in [Requests -> {r \in [phase : {"idle", "picked", "sent"},
                                  route : Routes \union {NoRoute}] :
                               r.phase # "idle" => r.route \in Routes}]
  BY DEF Answer, Succeed, Observe, Release, Unobserved, Answered, TypeOK, Idle
<1>2. halfOpen' \subseteq Keys
  BY DEF Answer, Succeed, Observe, Release, Unobserved, TypeOK
<1>3. req[q].route \in Routes
  BY DEF Answer, Succeed, Observe, Release, Unobserved, Answered, TypeOK
<1>4. health' \in [Keys -> Health]
  <2>1. CASE Succeed(q)
    BY <2>1 DEF Succeed, TypeOK, Health, Clear
  <2>2. CASE Observe(q)
    BY <1>3, <2>2, KeysAreKeys DEF Observe, TypeOK, Health, Failures
  <2>3. CASE Release(q) \/ Unobserved(q)
    BY <2>3 DEF Release, Unobserved, TypeOK
  <2> QED
    BY <2>1, <2>2, <2>3 DEF Answer
<1> QED
  BY <1>1, <1>2, <1>4 DEF TypeOK

LEMMA NextType == TypeOK /\ [Next]_vars => TypeOK'
<1> SUFFICES ASSUME TypeOK, [Next]_vars PROVE TypeOK'
  OBVIOUS
<1>1. ASSUME NEW q \in Requests, Begin(q) PROVE TypeOK'
  <2>1. req[q].route \in Routes
    BY <1>1 DEF Begin, TypeOK
  <2>2. halfOpen' \subseteq Keys
    BY <1>1, <2>1, KeysAreKeys DEF Begin, TypeOK
  <2>3. req' \in [Requests -> {r \in [phase : {"idle", "picked", "sent"},
                                    route : Routes \union {NoRoute}] :
                                 r.phase # "idle" => r.route \in Routes}]
    BY <1>1, <2>1 DEF Begin, TypeOK, Idle
  <2> QED
    BY <1>1, <2>2, <2>3 DEF Begin, TypeOK
<1>2. ASSUME NEW q \in Requests, NEW r \in Routes, Pick(q, r) PROVE TypeOK'
  BY <1>2 DEF Pick, TypeOK
<1>3. ASSUME NEW k \in Keys, Elapse(k) PROVE TypeOK'
  BY <1>3 DEF Elapse, TypeOK, Health
<1>4. CASE Reset
  BY <1>4 DEF Reset, TypeOK, Health, Clear
<1>5. CASE Restart
  BY <1>5 DEF Restart, TypeOK, Idle
<1>6. CASE UNCHANGED vars
  BY <1>6 DEF vars, TypeOK
<1> QED
  BY <1>1, <1>2, <1>3, <1>4, <1>5, <1>6, AnswerType DEF Next

-----------------------------------------------------------------------------
(* Half-open keys                                                          *)

DueInv == TypeOK /\ HalfOpenIsDue

LEMMA InitDue == Init => DueInv
BY InitType DEF Init, DueInv, HalfOpenIsDue

(* who gets through has only due keys, or one that it may requalify *)
LEMMA EligibleIsDue ==
  ASSUME NEW r \in Routes, isEligible(r), NEW k \in KeysOf(r)
  PROVE  ~Cooling(k)
BY DEF isEligible, Requalifies, Cooling, AccountKeys

LEMMA AnswerDue ==
  ASSUME DueInv, NEW q \in Requests, Answer(q)
  PROVE  HalfOpenIsDue'
<1> USE DEF DueInv
<1>1. CASE Succeed(q)
  <2>1. ASSUME NEW k \in halfOpen' PROVE k \in halfOpen /\ health'[k] = health[k]
    BY <1>1, <2>1 DEF Succeed, TypeOK
  <2> QED
    BY <2>1 DEF HalfOpenIsDue, Cooling
<1>2. CASE Observe(q)
  <2>1. req[q].route \in Routes
    BY <1>2 DEF Observe, Answered, TypeOK
  <2>2. ASSUME NEW k \in halfOpen' PROVE k \in halfOpen /\ health'[k] = health[k]
    <3>1. k \in halfOpen /\ k \in Keys /\ k \notin KeysOf(req[q].route)
      BY <1>2, <2>2 DEF Observe, TypeOK
    <3>2. PICK f \in Failures :
            health' = [health EXCEPT ![keyOf[req[q].route][f.scope]] =
                         [kind |-> f.kind, until |-> f.until]]
      BY <1>2 DEF Observe
    <3>3. keyOf[req[q].route][f.scope] \in KeysOf(req[q].route)
      BY <2>1, KeysAreKeys DEF Failures
    <3> QED
      BY <3>1, <3>2, <3>3 DEF TypeOK
  <2> QED
    BY <2>2 DEF HalfOpenIsDue, Cooling
<1>3. CASE Release(q) \/ Unobserved(q)
  BY <1>3 DEF Release, Unobserved, HalfOpenIsDue, Cooling
<1> QED
  BY <1>1, <1>2, <1>3 DEF Answer

LEMMA NextDue == DueInv /\ [Next]_vars => DueInv'
<1> SUFFICES ASSUME DueInv, [Next]_vars PROVE DueInv'
  OBVIOUS
<1> USE DEF DueInv
<1>0. TypeOK'
  BY NextType
<1>1. ASSUME NEW q \in Requests, Begin(q) PROVE HalfOpenIsDue'
  <2>1. req[q].route \in Routes
    BY <1>1 DEF Begin, TypeOK
  <2>2. ASSUME NEW k \in halfOpen' PROVE health[k].kind # "clear" /\ ~Cooling(k)
    BY <1>1, <2>1, <2>2, EligibleIsDue DEF Begin, HalfOpenIsDue
  <2> QED
    BY <1>1, <2>2 DEF Begin, HalfOpenIsDue, Cooling
<1>2. ASSUME NEW q \in Requests, NEW r \in Routes, Pick(q, r) PROVE HalfOpenIsDue'
  BY <1>2 DEF Pick, HalfOpenIsDue, Cooling
<1>3. ASSUME NEW k \in Keys, Elapse(k) PROVE HalfOpenIsDue'
  BY <1>3 DEF Elapse, TypeOK, Health, HalfOpenIsDue, Cooling
<1>4. CASE Reset
  <2>1. ASSUME NEW k \in halfOpen' PROVE k \in halfOpen /\ health'[k] = health[k]
    BY <1>4, <2>1 DEF Reset, TypeOK
  <2>2. HalfOpenIsDue'
    BY <2>1 DEF HalfOpenIsDue, Cooling
  <2> QED
    BY <1>0, <2>2
<1>5. CASE Restart
  BY <1>0, <1>5 DEF Restart, HalfOpenIsDue
<1>6. CASE UNCHANGED vars
  BY <1>0, <1>6 DEF vars, HalfOpenIsDue, Cooling
<1> QED
  BY <1>0, <1>1, <1>2, <1>3, <1>4, <1>5, <1>6, AnswerDue DEF Next

(* A key is being probed only while a failure whose time is over is on       *)
(* record for it.                                                            *)
THEOREM ProbesAreDue == Spec => []HalfOpenIsDue
<1>1. DueInv => HalfOpenIsDue
  BY DEF DueInv
<1> QED
  BY <1>1, InitDue, NextDue, PTL DEF Spec

(* No late answer clears a failure whose time is not over.                   *)
LEMMA CooldownsAreKept ==
  DueInv /\ [Next]_vars => [LateAnswerKeepsCooldown]_vars
<1> SUFFICES ASSUME DueInv, [Next]_vars,
                    NEW q \in Requests, NEW k \in Keys, req[q].phase = "sent",
                    req'[q].phase = "idle", Cooling(k)
             PROVE  health'[k].kind # "clear"
  BY DEF LateAnswerKeepsCooldown
<1> USE DEF DueInv
<1>0. health[k].kind # "clear"
  BY DEF TypeOK, Health, Cooling
<1>1. CASE \E p \in Requests : Answer(p)
  <2>1. PICK p \in Requests : Answer(p)
    BY <1>1
  <2>2. CASE Succeed(p)
    BY <1>0, <2>2 DEF Succeed, HalfOpenIsDue
  <2>3. CASE Observe(p)
    BY <1>0, <2>3 DEF Observe, Failures, TypeOK
  <2>4. CASE Release(p) \/ Unobserved(p)
    BY <1>0, <2>4 DEF Release, Unobserved
  <2> QED
    BY <2>1, <2>2, <2>3, <2>4 DEF Answer
<1>2. CASE \E p \in Requests : Begin(p) \/ \E r \in Routes : Pick(p, r)
  BY <1>0, <1>2 DEF Begin, Pick
<1>3. CASE Reset \/ \E c \in Keys : Elapse(c)
  BY <1>3 DEF Reset, Elapse
<1>4. CASE Restart \/ UNCHANGED vars
  BY <1>0, <1>4 DEF Restart, vars
<1> QED
  BY <1>1, <1>2, <1>3, <1>4 DEF Next

-----------------------------------------------------------------------------
(* Dispatch                                                                *)

(* only Begin sends a request out *)
LEMMA SentByBegin ==
  ASSUME TypeOK, [Next]_vars, NEW q \in Requests,
         req[q].phase = "picked", req'[q].phase = "sent"
  PROVE  Begin(q)
<1>1. req[q] = req'[q] => FALSE
  OBVIOUS
<1>2. ASSUME NEW p \in Requests, Begin(p), p # q PROVE FALSE
  BY <1>1, <1>2 DEF Begin, TypeOK
<1>3. ASSUME NEW p \in Requests, NEW r \in Routes, Pick(p, r) PROVE FALSE
  BY <1>1, <1>3 DEF Pick, TypeOK
<1>4. ASSUME NEW p \in Requests, Answer(p) PROVE FALSE
  <2>1. Answered(p)
    BY <1>4 DEF Answer, Succeed, Observe, Release, Unobserved
  <2> QED
    BY <2>1 DEF Answered, TypeOK, Idle
<1>5. CASE Reset \/ \E k \in Keys : Elapse(k)
  BY <1>1, <1>5 DEF Reset, Elapse
<1>6. CASE Restart
  BY <1>6 DEF Restart, Idle
<1>7. CASE UNCHANGED vars
  BY <1>1, <1>7 DEF vars
<1> QED
  BY <1>2, <1>3, <1>4, <1>5, <1>6, <1>7 DEF Next

(* No request goes out on a route one of whose keys is cooling or probed,    *)
(* however long ago the route was ranked.                                    *)
LEMMA CoolingRoutesRest ==
  TypeOK /\ [Next]_vars => NoDispatchWhileCooling
<1> SUFFICES ASSUME TypeOK, [Next]_vars, NEW q \in Requests,
                    req[q].phase = "picked", req'[q].phase = "sent",
                    NEW k \in KeysOf(req[q].route),
                    Cooling(k) \/ k \in halfOpen
             PROVE  Requalifies(req[q].route, k)
  BY DEF NoDispatchWhileCooling
<1>1. Begin(q)
  BY SentByBegin
<1>2. isEligible(req[q].route)
  BY <1>1 DEF Begin, TypeOK, Idle
<1> QED
  BY <1>2 DEF isEligible, Cooling

(* A failure keeps its routes at rest until its time is over: no answer      *)
(* clears it, and no request goes out.                                       *)
THEOREM CooldownsAreHeld == Spec => CooldownsHold
<1>1. DueInv /\ [Next]_vars
        => [LateAnswerKeepsCooldown /\ NoDispatchWhileCooling]_vars
  BY CooldownsAreKept, CoolingRoutesRest DEF DueInv
<1> QED
  BY <1>1, InitDue, NextDue, PTL DEF Spec, CooldownsHold

-----------------------------------------------------------------------------
Messages == [of : Nat, is : {"input", "answer", "item"}]
Talks == Seq(Messages)
Tasks == {Resp!None} \union [is : {"named"}, by : Resp!Name]
         \union [is : {"session"}] \union [is : {"anchor"}, by : Messages]

Calls == [pc : {"idle", "asked", "answered", "returned", "over"},
          way : {"ws", "json", "sse"}, asked : Talks, task : Tasks,
          from : {Resp!None} \union [is : {"response"}, of : Turns],
          sends : Nat, dead : BOOLEAN,
          told : {"nothing", "text", "other", "empty", "error", "gone"}]

Entries == [id : Turns, messages : Talks, task : Tasks]

ResponsesType ==
  /\ session \in [open : BOOLEAN, talk : Talks, items : Talks, made : Nat]
  /\ active \in SUBSET Turns
  /\ stored \in Seq(Entries)
  /\ rCall \in [Turns -> Calls]

Once(s) == \A i, j \in 1 .. Len(s) : s[i] = s[j] => i = j

Holds(s, m) == \E i \in 1 .. Len(s) : s[i] = m

Seen(s, r) ==
  \E i, j \in 1 .. Len(s) :
    i < j /\ s[i] = Resp!Msg(r, "input") /\ s[j] = Resp!Msg(r, "answer")

(* a message is there for a reason *)
Present(m, calls, made) ==
  /\ m.is = "item"   => m.of <= made
  /\ m.is = "input"  => m.of \in Turns /\ calls[m.of].pc # "idle"
  /\ m.is = "answer" => m.of \in Turns /\ calls[m.of].pc \notin {"idle", "asked"}

(* the items that wait are apart from the conversation, and all messages     *)
(* differ; of a conversation that was not trimmed nothing is missing         *)
TalkSound(s, calls) ==
  /\ Once(s.talk) /\ Once(s.items)
  /\ \A i \in 1 .. Len(s.items) :
       /\ s.items[i].is = "item" /\ s.items[i].of <= s.made
       /\ ~Holds(s.talk, s.items[i])
  /\ \A i \in 1 .. Len(s.talk) : Present(s.talk[i], calls, s.made)
  /\ Len(s.talk) < MaxMessages =>
       \A r \in Turns \ HostedTurns :
         calls[r].way = "ws" =>
           /\ calls[r].pc # "idle" => Holds(s.talk, Resp!Msg(r, "input"))
           /\ calls[r].told = "text" => Seen(s.talk, r)

Of(s) == {s[i] : i \in 1 .. Len(s)}

(* a response that is remembered is over, and remembered once *)
StoredSound(s, calls) ==
  /\ \A e \in Of(s) : calls[e.id].pc = "over"
  /\ \A e, f \in Of(s) : e.id = f.id => e = f
  /\ \A q \in Turns : calls[q].pc = "over" => calls[q].sends = 0

ResponsesInv ==
  ResponsesType /\ TalkSound(session, rCall) /\ StoredSound(stored, rCall)

(* what no step of a request undoes; on a session, what its steps besides    *)
(* create and answer leave alone                                             *)
Onward(old, new) ==
  /\ new.way = old.way
  /\ old.pc # "idle" => new.pc # "idle"
  /\ old.pc \notin {"idle", "asked"} => new.pc \notin {"idle", "asked"}
  /\ old.pc = "over" => new.pc = "over"
  /\ new.pc = "over" => new.sends = 0
  /\ old.way = "ws" => (old.pc = "idle" => new.pc = "idle") /\ new.told = old.told

Remembering ==
  \A q \in Turns :
    rCall[q].pc = "idle" /\ rCall'[q].pc = "asked" /\ rCall[q].way = "ws" =>
      /\ Once(session'.talk)
      /\ Len(session'.talk) < MaxMessages =>
           \A r \in Turns \ HostedTurns :
             rCall[r].way = "ws" /\ rCall[r].told = "text" => Seen(session'.talk, r)

Apart ==
  \A e \in Of(stored) : e.id \in {f.id : f \in Of(stored')} => e \in Of(stored')

LEMMA MessageFacts ==
  /\ \A q \in Nat, kind \in {"input", "answer", "item"} :
       /\ Resp!Msg(q, kind) \in Messages
       /\ Resp!Msg(q, kind).of = q /\ Resp!Msg(q, kind).is = kind
BY DEF Resp!Msg, Messages

LEMMA ComingFacts ==
  ASSUME NEW way \in {"ws", "json", "sse"}
  PROVE  /\ Resp!Coming(way) \in Calls /\ Resp!Coming(way).pc = "idle"
         /\ Resp!Coming(way).way = way /\ Resp!Coming(way).sends = 0
         /\ Resp!Coming(way).told = "nothing"
BY EmptySeq DEF Resp!Coming, Calls, Talks, Tasks

LEMMA OverFacts ==
  ASSUME NEW c \in Calls
  PROVE  /\ Resp!Over(c) \in Calls /\ Resp!Over(c).pc = "over"
         /\ Resp!Over(c).way = c.way /\ Resp!Over(c).sends = 0
         /\ Resp!Over(c).told = c.told
<1>1. c.way \in {"ws", "json", "sse"} /\ c.told \in {"nothing", "text", "other", "empty", "error", "gone"}
  BY DEF Calls
<1>2. Resp!Over(c) = [Resp!Coming(c.way) EXCEPT !.pc = "over", !.told = c.told]
  BY DEF Resp!Over
<1> DEFINE new == Resp!Coming(c.way)
<1>3. new \in Calls /\ new.way = c.way /\ new.sends = 0
  BY <1>1, ComingFacts
<1> HIDE DEF new
<1>4. LET over == [new EXCEPT !.pc = "over", !.told = c.told] IN
      /\ over \in Calls /\ over.pc = "over" /\ over.way = c.way
      /\ over.sends = 0 /\ over.told = c.told
  BY <1>1, <1>3 DEF Calls
<1> QED
  BY <1>2, <1>4 DEF new

(* trimming keeps the end, and all of it unless it is as long as it may be *)
LEMMA LatestFacts ==
  ASSUME NEW s \in Talks
  PROVE  /\ Resp!Latest(s) \in Talks
         /\ s # <<>> => Resp!Latest(s) # <<>>
         /\ Len(Resp!Latest(s)) < MaxMessages => Resp!Latest(s) = s
         /\ \E k \in Nat :
              /\ Len(s) = Len(Resp!Latest(s)) + k
              /\ \A i \in 1 .. Len(Resp!Latest(s)) : Resp!Latest(s)[i] = s[i + k]
<1>1. Len(s) \in Nat /\ MaxMessages \in Nat /\ MaxMessages > 0
  BY LenProperties, ConversationsAssumption DEF Talks
<1>2. CASE Len(s) <= MaxMessages
  <2>1. Resp!Latest(s) = s
    BY <1>2 DEF Resp!Latest
  <2>2. \A i \in 1 .. Len(s) : s[i] = s[i + 0]
    BY <1>1
  <2> QED
    BY <1>1, <2>1, <2>2
<1>3. CASE Len(s) > MaxMessages
  <2> DEFINE k == Len(s) - MaxMessages
  <2>1. Resp!Latest(s) = SubSeq(s, k + 1, Len(s)) /\ k \in Nat
    BY <1>1, <1>3 DEF Resp!Latest
  <2>2. \A i \in (k + 1) .. Len(s) : s[i] \in Messages
    BY <1>1, <2>1, ElementOfSeq DEF Talks
  <2>3. k + 1 \in Int /\ Len(s) \in Int
    BY <1>1
  <2> HIDE DEF k
  <2>4. /\ SubSeq(s, k + 1, Len(s)) \in Seq(Messages)
        /\ Len(SubSeq(s, k + 1, Len(s))) = IF k + 1 <= Len(s) THEN Len(s) - (k + 1) + 1 ELSE 0
        /\ \A i \in 1 .. Len(s) - (k + 1) + 1 : SubSeq(s, k + 1, Len(s))[i] = s[k + 1 + i - 1]
    BY <2>2, <2>3, SubSeqProperties
  <2>5. Len(Resp!Latest(s)) = MaxMessages
    BY <1>1, <1>3, <2>1, <2>4 DEF k
  <2>6. \A i \in 1 .. MaxMessages : Resp!Latest(s)[i] = s[i + k]
    BY <1>1, <1>3, <2>1, <2>4 DEF k
  <2>7. Resp!Latest(s) \in Talks /\ Len(s) = MaxMessages + k
    BY <1>1, <2>1, <2>4 DEF Talks, k
  <2>8. Resp!Latest(s) # <<>>
    BY <1>1, <2>5
  <2>9. /\ Len(s) = Len(Resp!Latest(s)) + k
        /\ \A i \in 1 .. Len(Resp!Latest(s)) : Resp!Latest(s)[i] = s[i + k]
    BY <2>5, <2>6, <2>7
  <2>10. ~(Len(Resp!Latest(s)) < MaxMessages)
    BY <1>1, <2>5
  <2>11. k \in Nat
    BY <2>1
  <2> QED
    BY <2>7, <2>8, <2>9, <2>10, <2>11
<1> QED
  BY <1>1, <1>2, <1>3

LEMMA MergedIsLatest ==
  ASSUME NEW talk \in Talks, NEW new \in Talks, new # <<>>
  PROVE  /\ Resp!Merged(talk, new) \in Talks /\ Resp!Merged(talk, new) # <<>>
         /\ Len(Resp!Merged(talk, new)) < MaxMessages => Resp!Merged(talk, new) = talk \o new
         /\ \E k \in Nat :
              /\ Len(talk \o new) = Len(Resp!Merged(talk, new)) + k
              /\ \A i \in 1 .. Len(Resp!Merged(talk, new)) :
                   Resp!Merged(talk, new)[i] = (talk \o new)[i + k]
<1>1. talk \o new \in Talks /\ talk \o new # <<>> /\ Len(new) \in Nat
  BY ConcatProperties, LenProperties, EmptySeq DEF Talks
<1>2. CASE talk = <<>>
  <2>1. Resp!Merged(talk, new) = new /\ talk \o new = new
    BY <1>2, ConcatEmptySeq DEF Resp!Merged, Talks
  <2>2. \A i \in 1 .. Len(new) : new[i] = new[i + 0]
    BY <1>1
  <2> QED
    BY <1>1, <2>1, <2>2
<1>3. CASE talk # <<>>
  <2>1. Resp!Merged(talk, new) = Resp!Latest(talk \o new)
    BY <1>3 DEF Resp!Merged
  <2> QED
    BY <1>1, <2>1, LatestFacts
<1> QED
  BY <1>2, <1>3

(* steps that leave the conversation and what is remembered as they are *)
LEMMA Quiet ==
  ASSUME ResponsesInv,
         session' \in [open : BOOLEAN, talk : Talks, items : Talks, made : Nat],
         session'.talk = session.talk, session'.items = session.items,
         session'.made = session.made, stored' = stored,
         active' \in SUBSET Turns, rCall' \in [Turns -> Calls],
         \A q \in Turns : Onward(rCall[q], rCall'[q])
  PROVE  ResponsesInv' /\ Apart
<1>1. ResponsesType'
  BY DEF ResponsesInv, ResponsesType
<1>2. rCall \in [Turns -> Calls] /\ stored \in Seq(Entries)
  BY DEF ResponsesInv, ResponsesType
<1>3. \A i \in 1 .. Len(session.talk) : Present(session.talk[i], rCall', session.made)
  BY DEF ResponsesInv, TalkSound, Present, Onward
<1>4. \A r \in Turns : rCall'[r].way = "ws" =>
        /\ rCall[r].way = "ws" /\ rCall'[r].told = rCall[r].told
        /\ rCall'[r].pc # "idle" => rCall[r].pc # "idle"
  BY DEF Onward
<1>5. TalkSound(session', rCall')
  BY <1>3, <1>4 DEF ResponsesInv, TalkSound
<1>6. \A e \in Of(stored) : e.id \in Turns
  <2>1. \A i \in 1 .. Len(stored) : stored[i] \in Entries
    BY <1>2, ElementOfSeq
  <2> QED
    BY <2>1 DEF Of, Entries
<1>7. StoredSound(stored', rCall')
  BY <1>6 DEF ResponsesInv, StoredSound, Onward
<1>8. Apart
  BY DEF Apart
<1> QED
  BY <1>1, <1>5, <1>7, <1>8 DEF ResponsesInv

(* one request moves on *)
LEMMA OneMoves ==
  ASSUME ResponsesInv, NEW q \in Turns, NEW c \in Calls, Onward(rCall[q], c),
         rCall' = [rCall EXCEPT ![q] = c]
  PROVE  /\ rCall' \in [Turns -> Calls]
         /\ \A r \in Turns : Onward(rCall[r], rCall'[r])
<1>1. rCall \in [Turns -> Calls]
  BY DEF ResponsesInv, ResponsesType
<1>2. \A r \in Turns : Onward(rCall[r], rCall[r])
  BY DEF ResponsesInv, StoredSound, Onward
<1> QED
  BY <1>1, <1>2

LEMMA FinishedFacts ==
  ASSUME NEW c \in Calls, c.pc # "over"
  PROVE  LET d == Resp!Finished(c) IN
         /\ d \in Calls /\ d.way = c.way /\ d.told = c.told
         /\ d.pc = c.pc \/ (d.pc = "over" /\ c.pc = "returned" /\ d.sends = 0)
BY OverFacts DEF Resp!Finished

LEMMA ResponsesSent ==
  ASSUME ResponsesInv, NEW q \in Turns, Resp!Sent(q)
  PROVE  ResponsesInv' /\ Apart /\ Remembering
<1>1. rCall[q] \in Calls /\ rCall[q].sends > 0 /\ rCall[q].pc # "over"
  BY DEF Resp!Sent, ResponsesInv, ResponsesType, StoredSound
<1>2. PICK dead \in {rCall[q].dead, TRUE} :
        Resp!Settle(q, Resp!Finished([rCall[q] EXCEPT !.sends = @ - 1, !.dead = dead]))
  BY DEF Resp!Sent
<1> DEFINE b == [rCall[q] EXCEPT !.sends = @ - 1, !.dead = dead]
           c == Resp!Finished(b)
<1>3. b \in Calls /\ b.pc = rCall[q].pc /\ b.way = rCall[q].way /\ b.told = rCall[q].told
  <2>1. rCall[q].sends \in Nat /\ rCall[q].dead \in BOOLEAN
    BY <1>1 DEF Calls
  <2>2. rCall[q].sends - 1 \in Nat
    BY <1>1, <2>1
  <2>3. dead \in BOOLEAN
    BY <2>1, Zenon
  <2> QED
    BY <1>1, <2>2, <2>3 DEF Calls
<1> HIDE DEF b
<1>4. c \in Calls /\ Onward(rCall[q], c)
  BY <1>1, <1>3, FinishedFacts DEF Onward
<1>5. /\ rCall' = [rCall EXCEPT ![q] = c] /\ session' = session /\ stored' = stored
      /\ active' \in SUBSET Turns
  BY <1>2 DEF Resp!Settle, ResponsesInv, ResponsesType, b
<1> HIDE DEF c
<1>6. /\ rCall' \in [Turns -> Calls] /\ \A r \in Turns : Onward(rCall[r], rCall'[r])
  BY <1>4, <1>5, OneMoves
<1>7. session' \in [open : BOOLEAN, talk : Talks, items : Talks, made : Nat]
  BY <1>5 DEF ResponsesInv, ResponsesType
<1>8. ResponsesInv' /\ Apart
  BY <1>5, <1>6, <1>7, Quiet
<1>9. Remembering
  BY <1>6 DEF Remembering, Onward
<1> QED
  BY <1>8, <1>9

(* what a step of another request, or over HTTP, shows of a session *)
LEMMA QuietStep ==
  ASSUME ResponsesInv, NEW q \in Turns, NEW c \in Calls, Onward(rCall[q], c),
         rCall' = [rCall EXCEPT ![q] = c], session' = session, stored' = stored,
         active' \in SUBSET Turns
  PROVE  ResponsesInv' /\ Apart /\ Remembering
<1>1. /\ rCall' \in [Turns -> Calls] /\ \A r \in Turns : Onward(rCall[r], rCall'[r])
  BY OneMoves
<1>2. session' \in [open : BOOLEAN, talk : Talks, items : Talks, made : Nat]
  BY DEF ResponsesInv, ResponsesType
<1>3. ResponsesInv' /\ Apart
  BY <1>1, <1>2, Quiet
<1>4. Remembering
  BY <1>1 DEF Remembering, Onward
<1> QED
  BY <1>3, <1>4

LEMMA ResponsesStream ==
  ASSUME ResponsesInv, NEW q \in Turns, Resp!Stream(q)
  PROVE  ResponsesInv' /\ Apart /\ Remembering
<1> DEFINE c == Resp!Sends(rCall[q])
<1>1. rCall[q] \in Calls /\ rCall[q].pc = "asked"
  BY DEF Resp!Stream, ResponsesInv, ResponsesType
<1>2. c \in Calls /\ c.pc = "asked" /\ c.way = rCall[q].way /\ c.told = rCall[q].told
  BY <1>1 DEF Resp!Sends, Calls
<1>3. /\ rCall' = [rCall EXCEPT ![q] = c] /\ session' = session /\ stored' = stored
      /\ active' \in SUBSET Turns
  BY DEF Resp!Stream, ResponsesInv, ResponsesType
<1>4. Onward(rCall[q], c)
  BY <1>1, <1>2 DEF Onward
<1> HIDE DEF c
<1> QED
  BY <1>2, <1>3, <1>4, QuietStep

LEMMA ResponsesReturn ==
  ASSUME ResponsesInv, NEW q \in Turns, Resp!Return(q)
  PROVE  ResponsesInv' /\ Apart /\ Remembering
<1> DEFINE b == [rCall[q] EXCEPT !.pc = "returned"]
           c == Resp!Finished(b)
<1>1. /\ rCall[q] \in Calls /\ rCall[q].pc \in {"asked", "answered"}
      /\ Resp!Settle(q, c)
  BY DEF Resp!Return, ResponsesInv, ResponsesType
<1>2. /\ b \in Calls /\ b.pc = "returned" /\ b.way = rCall[q].way
      /\ b.told = rCall[q].told
  BY <1>1 DEF Calls
<1>3. /\ rCall' = [rCall EXCEPT ![q] = c] /\ session' = session /\ stored' = stored
      /\ active' \in SUBSET Turns
  BY <1>1 DEF Resp!Settle, ResponsesInv, ResponsesType
<1> HIDE DEF b
<1>4. c \in Calls /\ Onward(rCall[q], c)
  BY <1>1, <1>2, FinishedFacts DEF Onward
<1> HIDE DEF c
<1> QED
  BY <1>3, <1>4, QuietStep

LEMMA ResponsesDestroy ==
  ASSUME ResponsesInv, Resp!Cancel \/ Resp!Close
  PROVE  ResponsesInv' /\ Apart /\ Remembering
<1>1. rCall' = Resp!Destroyed(active) /\ stored' = stored /\ active' \in SUBSET Turns
  BY DEF Resp!Cancel, Resp!Close, ResponsesInv, ResponsesType
<1>2. /\ session' \in [open : BOOLEAN, talk : Talks, items : Talks, made : Nat]
      /\ session'.talk = session.talk /\ session'.items = session.items
      /\ session'.made = session.made
  BY DEF Resp!Cancel, Resp!Close, ResponsesInv, ResponsesType
<1>3. \A r \in Turns :
        /\ rCall'[r] \in Calls /\ rCall'[r].pc = rCall[r].pc
        /\ rCall'[r].way = rCall[r].way /\ rCall'[r].told = rCall[r].told
        /\ rCall'[r].sends = rCall[r].sends
  <2> SUFFICES ASSUME NEW r \in Turns
               PROVE  /\ rCall'[r] \in Calls /\ rCall'[r].pc = rCall[r].pc
                      /\ rCall'[r].way = rCall[r].way /\ rCall'[r].told = rCall[r].told
                      /\ rCall'[r].sends = rCall[r].sends
    OBVIOUS
  <2>1. rCall[r] \in Calls
    BY DEF ResponsesInv, ResponsesType
  <2>2. rCall'[r] = rCall[r] \/ rCall'[r] = [rCall[r] EXCEPT !.dead = TRUE]
    BY <1>1 DEF Resp!Destroyed
  <2> QED
    BY <2>1, <2>2 DEF Calls
<1>4. rCall' \in [Turns -> Calls]
  BY <1>1, <1>3 DEF Resp!Destroyed
<1>5. \A r \in Turns : Onward(rCall[r], rCall'[r])
  BY <1>3 DEF ResponsesInv, StoredSound, Onward
<1>6. ResponsesInv' /\ Apart
  BY <1>1, <1>2, <1>4, <1>5, Quiet
<1> QED
  BY <1>3, <1>6 DEF Remembering

LEMMA AskedFacts ==
  ASSUME ResponsesInv, NEW q \in Turns, NEW talk \in Talks, NEW name \in Resp!Name,
         NEW from \in {Resp!None} \union [is : {"response"}, of : Turns],
         rCall[q].way = "ws" \/ talk # <<>>, Resp!Asked(q, talk, name, from)
  PROVE  \E c \in Calls :
           /\ rCall' = [rCall EXCEPT ![q] = c]
           /\ c.pc = "asked" /\ c.way = rCall[q].way /\ c.told = rCall[q].told
           /\ rCall[q].pc = "idle"
<1> DEFINE task == Resp!TaskOf(name, rCall[q].way, talk)
           c == [rCall[q] EXCEPT !.pc = "asked", !.asked = talk, !.from = from, !.task = task]
<1>1. rCall[q] \in Calls /\ rCall \in [Turns -> Calls] /\ rCall[q].pc = "idle"
  BY DEF Resp!Asked, ResponsesInv, ResponsesType
<1>2. task \in Tasks
  <2>1. CASE name # Resp!None
    BY <2>1 DEF Resp!TaskOf, Tasks
  <2>2. CASE name = Resp!None /\ rCall[q].way = "ws"
    BY <2>2 DEF Resp!TaskOf, Tasks
  <2>3. CASE name = Resp!None /\ rCall[q].way # "ws"
    <3>1. Head(talk) \in Messages
      BY <2>3, HeadTailProperties DEF Talks
    <3> QED
      BY <2>3, <3>1 DEF Resp!TaskOf, Tasks
  <2> QED
    BY <2>1, <2>2, <2>3
<1>3. rCall' = [rCall EXCEPT ![q].pc = "asked", ![q].asked = talk,
                            ![q].from = from, ![q].task = task]
  BY DEF Resp!Asked
<1> HIDE DEF task
<1>4. c \in Calls /\ c.pc = "asked" /\ c.way = rCall[q].way /\ c.told = rCall[q].told
  BY <1>1, <1>2 DEF Calls
<1>5. rCall' = [rCall EXCEPT ![q] = c]
  BY <1>3
<1> HIDE DEF c
<1> QED
  BY <1>1, <1>4, <1>5

LEMMA ResponsesArrive ==
  ASSUME ResponsesInv, NEW q \in Turns, Resp!Arrive(q)
  PROVE  ResponsesInv' /\ Apart /\ Remembering
<1>1. /\ rCall[q].way # "ws" /\ session' = session /\ active' \in SUBSET Turns
      /\ stored' = stored /\ stored \in Seq(Entries)
  BY DEF Resp!Arrive, Resp!AfterLending, ResponsesInv, ResponsesType
<1>2. PICK name \in Resp!Name :
        \/ \E r \in Resp!Known :
             Resp!Asked(q, Resp!Merged(Resp!Entry(r).messages, <<Resp!Msg(q, "input")>>), name,
                        [is |-> "response", of |-> r])
        \/ Resp!Asked(q, <<Resp!Msg(q, "input")>>, name, Resp!None)
  BY DEF Resp!Arrive
<1>3. /\ <<Resp!Msg(q, "input")>> \in Talks /\ <<Resp!Msg(q, "input")>> # <<>>
  BY MessageFacts, ConversationsAssumption DEF Talks
<1>4. \E talk \in Talks, from \in {Resp!None} \union [is : {"response"}, of : Turns] :
        talk # <<>> /\ Resp!Asked(q, talk, name, from)
  <2>1. ASSUME NEW r \in Resp!Known
        PROVE  /\ [is |-> "response", of |-> r] \in [is : {"response"}, of : Turns]
               /\ Resp!Merged(Resp!Entry(r).messages, <<Resp!Msg(q, "input")>>) \in Talks
               /\ Resp!Merged(Resp!Entry(r).messages, <<Resp!Msg(q, "input")>>) # <<>>
    <3>1. Resp!ToSet(stored) \subseteq Entries
      BY <1>1, LenProperties DEF Resp!ToSet
    <3>2. \E e \in Resp!ToSet(stored) : e.id = r
      BY DEF Resp!Known
    <3>3. Resp!Entry(r) \in Entries /\ Resp!Entry(r).id = r
      BY <3>1, <3>2 DEF Resp!Entry
    <3>4. Resp!Entry(r).messages \in Talks /\ r \in Turns
      BY <3>3 DEF Entries
    <3> QED
      BY <1>3, <3>4, MergedIsLatest
  <2> QED
    BY <1>2, <1>3, <2>1
<1>5. PICK c \in Calls :
        /\ rCall' = [rCall EXCEPT ![q] = c]
        /\ c.pc = "asked" /\ c.way = rCall[q].way /\ c.told = rCall[q].told
        /\ rCall[q].pc = "idle"
  BY <1>4, AskedFacts
<1>6. Onward(rCall[q], c)
  BY <1>1, <1>5 DEF Onward
<1> QED
  BY <1>1, <1>5, <1>6, QuietStep

(* what is remembered last is remembered beside what was *)
LEMMA OfRemembered ==
  ASSUME NEW s \in Seq(Entries), NEW e \in Entries
  PROVE  /\ Append(s, e) \in Seq(Entries) /\ Tail(Append(s, e)) \in Seq(Entries)
         /\ Of(Append(s, e)) = Of(s) \union {e}
         /\ Of(Tail(Append(s, e))) \subseteq Of(s) \union {e}
<1> DEFINE t == Append(s, e)
<1>1. /\ t \in Seq(Entries) /\ t # <<>> /\ Len(t) = Len(s) + 1 /\ Len(s) \in Nat
      /\ \A i \in 1 .. Len(s) : t[i] = s[i]
      /\ t[Len(s) + 1] = e
  BY AppendProperties, LenProperties
<1> HIDE DEF t
<1>2. Of(t) = Of(s) \union {e}
  <2>1. \A i \in 1 .. Len(t) : t[i] \in Of(s) \union {e}
    BY <1>1 DEF Of
  <2>2. \A i \in 1 .. Len(s) : s[i] \in Of(t)
    BY <1>1 DEF Of
  <2>3. e \in Of(t)
    BY <1>1 DEF Of
  <2> QED
    BY <2>1, <2>2, <2>3 DEF Of
<1>3. /\ Tail(t) \in Seq(Entries) /\ Len(Tail(t)) = Len(t) - 1
      /\ \A i \in 1 .. Len(Tail(t)) : Tail(t)[i] = t[i + 1]
  BY <1>1, HeadTailProperties
<1>4. Of(Tail(t)) \subseteq Of(t)
  BY <1>1, <1>3 DEF Of
<1> QED
  BY <1>1, <1>2, <1>3, <1>4 DEF t

LEMMA ResponsesReply ==
  ASSUME ResponsesInv, NEW q \in Turns, Resp!Reply(q)
  PROVE  ResponsesInv' /\ Apart /\ Remembering
<1>1. /\ rCall[q].way # "ws" /\ rCall[q].pc = "asked" /\ rCall[q] \in Calls
      /\ session' = session /\ active' \in SUBSET Turns /\ stored \in Seq(Entries)
      /\ rCall \in [Turns -> Calls] /\ active' = active
  BY DEF Resp!Reply, ResponsesInv, ResponsesType
<1>2. PICK what \in {"text", "empty", "error", "gone"} :
        /\ rCall' = [rCall EXCEPT ![q] = [Resp!Over(@) EXCEPT !.told = what]]
        /\ \/ stored' = stored
           \/ stored' = Resp!Remembered(q, rCall[q].asked \o
                   IF what = "text" THEN <<Resp!Msg(q, "answer")>> ELSE <<>>)
  BY DEF Resp!Reply
<1> DEFINE c == [Resp!Over(rCall[q]) EXCEPT !.told = what]
<1>3. c \in Calls /\ c.pc = "over" /\ c.way = rCall[q].way /\ c.sends = 0
  <2>1. /\ Resp!Over(rCall[q]) \in Calls /\ Resp!Over(rCall[q]).pc = "over"
        /\ Resp!Over(rCall[q]).way = rCall[q].way /\ Resp!Over(rCall[q]).sends = 0
    BY <1>1, OverFacts
  <2> QED
    BY <2>1 DEF Calls
<1>4. rCall' = [rCall EXCEPT ![q] = c]
  BY <1>2
<1> HIDE DEF c
<1>5. Onward(rCall[q], c)
  BY <1>1, <1>3 DEF Onward
<1>6. CASE stored' = stored
  BY <1>1, <1>3, <1>4, <1>5, <1>6, QuietStep
<1>7. ASSUME NEW e \in Entries, e.id = q,
             stored' = IF Len(Append(stored, e)) > MaxStored
                       THEN Tail(Append(stored, e)) ELSE Append(stored, e)
      PROVE  ResponsesInv' /\ Apart /\ Remembering
  <2>1. stored' \in Seq(Entries) /\ Of(stored') \subseteq Of(stored) \union {e}
    BY <1>1, <1>7, OfRemembered
  <2>2. /\ rCall' \in [Turns -> Calls] /\ \A r \in Turns : Onward(rCall[r], rCall'[r])
    BY <1>3, <1>4, <1>5, OneMoves
  <2>3. rCall'[q].pc = "over" /\ \A r \in Turns : r # q => rCall'[r] = rCall[r]
    BY <1>1, <1>3, <1>4
  <2>4. \A f \in Of(stored) : f.id \in Turns /\ f.id # q /\ rCall[f.id].pc = "over"
    <3>1. \A i \in 1 .. Len(stored) : stored[i] \in Entries
      BY <1>1, ElementOfSeq
    <3>2. \A f \in Of(stored) : f.id \in Turns
      BY <3>1 DEF Of, Entries
    <3> QED
      BY <1>1, <3>2 DEF ResponsesInv, StoredSound
  <2>5. ResponsesType'
    BY <1>1, <2>1, <2>2 DEF ResponsesInv, ResponsesType
  <2>6. StoredSound(stored', rCall')
    BY <1>3, <1>7, <2>1, <2>2, <2>3, <2>4 DEF ResponsesInv, StoredSound, Onward
  <2>7. TalkSound(session', rCall')
    <3>1. \A i \in 1 .. Len(session.talk) : Present(session.talk[i], rCall', session.made)
      BY <2>2 DEF ResponsesInv, TalkSound, Present, Onward
    <3>2. \A r \in Turns : rCall'[r].way = "ws" =>
            /\ rCall[r].way = "ws" /\ rCall'[r].told = rCall[r].told
            /\ rCall'[r].pc # "idle" => rCall[r].pc # "idle"
      BY <2>2 DEF Onward
    <3> QED
      BY <1>1, <3>1, <3>2 DEF ResponsesInv, TalkSound
  <2>8. Apart
    BY <1>7, <2>1, <2>4 DEF Apart, ResponsesInv, StoredSound
  <2>9. Remembering
    BY <2>2 DEF Remembering, Onward
  <2> QED
    BY <2>5, <2>6, <2>7, <2>8, <2>9 DEF ResponsesInv
<1>8. CASE stored' = Resp!Remembered(q, rCall[q].asked \o
                   IF what = "text" THEN <<Resp!Msg(q, "answer")>> ELSE <<>>)
  <2> DEFINE said == rCall[q].asked \o
                   IF what = "text" THEN <<Resp!Msg(q, "answer")>> ELSE <<>>
             e == [id |-> q, messages |-> Resp!Latest(said), task |-> rCall[q].task]
  <2>1. said \in Talks
    <3>1. (IF what = "text" THEN <<Resp!Msg(q, "answer")>> ELSE <<>>) \in Talks
      BY MessageFacts, ConversationsAssumption DEF Talks
    <3>2. rCall[q].asked \in Talks
      BY <1>1 DEF Calls
    <3> QED
      BY <3>1, <3>2, ConcatProperties DEF Talks
  <2>2. Resp!Latest(said) \in Talks
    BY <2>1, LatestFacts
  <2>3. e \in Entries /\ e.id = q
    BY <1>1, <2>2 DEF Entries, Calls
  <2>4. stored' = IF Len(Append(stored, e)) > MaxStored
                  THEN Tail(Append(stored, e)) ELSE Append(stored, e)
    BY <1>8 DEF Resp!Remembered
  <2> HIDE DEF e, said
  <2> QED
    BY <1>7, <2>3, <2>4
<1> QED
  BY <1>2, <1>6, <1>8

LEMMA ResponsesAnswer ==
  ASSUME ResponsesInv, NEW q \in Turns, Resp!Answer(q)
  PROVE  ResponsesInv' /\ Apart /\ Remembering
<1>1. /\ rCall[q].way = "ws" /\ rCall[q].pc = "asked" /\ rCall[q] \in Calls
      /\ rCall \in [Turns -> Calls] /\ stored' = stored /\ active' = active
      /\ session \in [open : BOOLEAN, talk : Talks, items : Talks, made : Nat]
  BY DEF Resp!Answer, ResponsesInv, ResponsesType
<1>2. PICK what \in {"text", "other"} :
       /\ rCall' = [rCall EXCEPT ![q] = Resp!Ended(@, what)]
       /\ session' = IF what = "text" /\ q \notin HostedTurns
                     THEN [session EXCEPT !.talk = Append(@, Resp!Msg(q, "answer"))]
                     ELSE session
  BY DEF Resp!Answer
<1> DEFINE b == Resp!Sends(rCall[q])
           told == IF rCall[q].dead \/ ~session.open THEN b.told ELSE what
           c == [b EXCEPT !.pc = "answered", !.told = told]
<1>3. b \in Calls /\ b.way = "ws" /\ b.told = rCall[q].told
  BY <1>1 DEF Resp!Sends, Calls
<1>4. rCall' = [rCall EXCEPT ![q] = c]
  BY <1>2 DEF Resp!Ended
<1> HIDE DEF b
<1>5. told \in {"nothing", "text", "other", "empty", "error", "gone"}
      /\ (told = rCall[q].told \/ told = what)
  BY <1>3 DEF Calls
<1> HIDE DEF told
<1>6. c \in Calls /\ c.pc = "answered" /\ c.way = "ws" /\ c.told = told
  BY <1>3, <1>5 DEF Calls
<1> HIDE DEF c
<1>7. /\ rCall' \in [Turns -> Calls] /\ rCall'[q] = c
      /\ \A r \in Turns : r # q => rCall'[r] = rCall[r]
  BY <1>1, <1>4, <1>6
<1>8. StoredSound(stored', rCall')
  <2>1. \A i \in 1 .. Len(stored) : stored[i] \in Entries
    BY ElementOfSeq DEF ResponsesInv, ResponsesType
  <2>2. \A e \in Of(stored) : e.id \in Turns /\ e.id # q
    BY <1>1, <2>1 DEF Of, Entries, ResponsesInv, StoredSound
  <2> QED
    BY <1>1, <1>6, <1>7, <2>2 DEF ResponsesInv, StoredSound
<1>9. Apart /\ Remembering
  BY <1>1, <1>6, <1>7 DEF Apart, Remembering
<1>10. \A i \in 1 .. Len(session.talk) : Present(session.talk[i], rCall', session.made)
  BY <1>1, <1>6, <1>7 DEF ResponsesInv, TalkSound, Present
<1>11. CASE what = "text" /\ q \notin HostedTurns
  <2> DEFINE answer == Resp!Msg(q, "answer")
             talk == Append(session.talk, answer)
  <2>1. session' = [session EXCEPT !.talk = talk]
    BY <1>2, <1>11
  <2>2. answer \in Messages /\ answer.of = q /\ answer.is = "answer"
    BY MessageFacts, ConversationsAssumption
  <2> HIDE DEF answer
  <2>3. /\ talk \in Talks /\ Len(talk) = Len(session.talk) + 1 /\ Len(session.talk) \in Nat
        /\ \A i \in 1 .. Len(session.talk) : talk[i] = session.talk[i]
        /\ talk[Len(session.talk) + 1] = answer
    BY <1>1, <2>2, AppendProperties, LenProperties DEF Talks
  <2> HIDE DEF talk
  <2>4. /\ session' \in [open : BOOLEAN, talk : Talks, items : Talks, made : Nat]
        /\ session'.talk = talk /\ session'.items = session.items /\ session'.made = session.made
    BY <1>1, <2>1, <2>3
  <2>5. \A i \in 1 .. Len(session.talk) : session.talk[i] # answer
    BY <1>1, <2>2 DEF ResponsesInv, TalkSound, Present
  <2>6. Once(talk)
    BY <2>3, <2>5 DEF ResponsesInv, TalkSound, Once
  <2>7. \A i \in 1 .. Len(session.items) : ~Holds(talk, session.items[i])
    <3>1. \A i \in 1 .. Len(session.items) :
            session.items[i].is = "item" /\ ~Holds(session.talk, session.items[i])
      BY DEF ResponsesInv, TalkSound
    <3> SUFFICES ASSUME NEW i \in 1 .. Len(session.items),
                        NEW j \in 1 .. Len(talk), talk[j] = session.items[i]
                 PROVE  FALSE
      BY DEF Holds
    <3>2. j # Len(session.talk) + 1
      BY <2>2, <2>3, <3>1
    <3>3. j \in 1 .. Len(session.talk) /\ session.talk[j] = session.items[i]
      BY <2>3, <3>2
    <3> QED
      BY <3>1, <3>3 DEF Holds
  <2>8. \A i \in 1 .. Len(talk) : Present(talk[i], rCall', session.made)
    <3>1. Present(answer, rCall', session.made)
      BY <1>6, <1>7, <2>2 DEF Present
    <3> QED
      BY <1>10, <2>3, <3>1
  <2>9. ASSUME Len(talk) < MaxMessages, NEW r \in Turns \ HostedTurns, rCall'[r].way = "ws"
        PROVE  /\ rCall'[r].pc # "idle" => Holds(talk, Resp!Msg(r, "input"))
               /\ rCall'[r].told = "text" => Seen(talk, r)
    <3>1. Len(session.talk) < MaxMessages
      BY <2>3, <2>9, ConversationsAssumption
    <3>2. /\ rCall[r].way = "ws"
          /\ rCall'[r].pc # "idle" => rCall[r].pc # "idle"
          /\ rCall'[r].told = "text" => rCall[r].told = "text" \/ r = q
      BY <1>1, <1>5, <1>6, <1>7, <2>9
    <3>3. /\ rCall[r].pc # "idle" => Holds(session.talk, Resp!Msg(r, "input"))
          /\ rCall[r].told = "text" => Seen(session.talk, r)
      BY <3>1, <3>2 DEF ResponsesInv, TalkSound
    <3>4. Holds(session.talk, Resp!Msg(r, "input")) => Holds(talk, Resp!Msg(r, "input"))
      BY <2>3 DEF Holds
    <3>5. Seen(session.talk, r) => Seen(talk, r)
      BY <2>3 DEF Seen
    <3>6. r = q => Seen(talk, r)
      <4>1. SUFFICES ASSUME r = q PROVE Seen(talk, r)
        OBVIOUS
      <4>2. PICK i \in 1 .. Len(session.talk) : session.talk[i] = Resp!Msg(q, "input")
        BY <1>1, <3>3, <4>1 DEF Holds
      <4>3. /\ i \in 1 .. Len(talk) /\ talk[i] = Resp!Msg(r, "input")
            /\ Len(session.talk) + 1 \in 1 .. Len(talk) /\ i < Len(session.talk) + 1
            /\ talk[Len(session.talk) + 1] = Resp!Msg(r, "answer")
        BY <2>3, <4>1, <4>2 DEF answer
      <4> QED
        BY <4>3 DEF Seen
    <3> QED
      BY <3>2, <3>3, <3>4, <3>5, <3>6
  <2>10. TalkSound(session', rCall')
    BY <2>4, <2>6, <2>7, <2>8, <2>9 DEF ResponsesInv, TalkSound
  <2>11. ResponsesType'
    BY <1>1, <1>7, <2>4 DEF ResponsesInv, ResponsesType
  <2> QED
    BY <1>8, <1>9, <2>10, <2>11 DEF ResponsesInv
<1>12. CASE ~(what = "text" /\ q \notin HostedTurns)
  <2>1. session' = session
    BY <1>2, <1>12
  <2>2. \A r \in Turns \ HostedTurns :
          /\ rCall'[r].way = "ws" => rCall[r].way = "ws"
          /\ rCall'[r].pc # "idle" => rCall[r].pc # "idle"
          /\ rCall'[r].told = "text" => rCall[r].told = "text"
    BY <1>1, <1>5, <1>6, <1>7, <1>12
  <2>3. TalkSound(session', rCall')
    BY <1>10, <2>1, <2>2 DEF ResponsesInv, TalkSound
  <2>4. ResponsesType'
    BY <1>1, <1>7, <2>1 DEF ResponsesInv, ResponsesType
  <2> QED
    BY <1>8, <1>9, <2>3, <2>4 DEF ResponsesInv
<1> QED
  BY <1>11, <1>12

LEMMA ResponsesAddItem ==
  ASSUME ResponsesInv, Resp!AddItem
  PROVE  ResponsesInv' /\ Apart /\ Remembering
<1> DEFINE n == session.made + 1
           item == Resp!Msg(n, "item")
           items == Append(session.items, item)
<1>1. /\ session \in [open : BOOLEAN, talk : Talks, items : Talks, made : Nat]
      /\ session' = [session EXCEPT !.made = n, !.items = items]
      /\ rCall' = rCall /\ stored' = stored /\ active' = active
  BY DEF Resp!AddItem, ResponsesInv, ResponsesType
<1>2. n \in Nat /\ n = session.made + 1
  BY <1>1
<1> HIDE DEF n
<1>3. item \in Messages /\ item.of = n /\ item.is = "item"
  BY <1>2, MessageFacts
<1> HIDE DEF item
<1>4. /\ items \in Talks /\ Len(items) = Len(session.items) + 1 /\ Len(session.items) \in Nat
      /\ \A i \in 1 .. Len(session.items) : items[i] = session.items[i]
      /\ items[Len(session.items) + 1] = item
  BY <1>1, <1>3, AppendProperties, LenProperties DEF Talks
<1> HIDE DEF items
<1>5. /\ session' \in [open : BOOLEAN, talk : Talks, items : Talks, made : Nat]
      /\ session'.talk = session.talk /\ session'.items = items /\ session'.made = n
  BY <1>1, <1>2, <1>4
<1>6. /\ Once(session.talk) /\ Once(session.items)
      /\ \A i \in 1 .. Len(session.items) :
           /\ session.items[i].is = "item" /\ session.items[i].of <= session.made
           /\ ~Holds(session.talk, session.items[i])
      /\ \A i \in 1 .. Len(session.talk) : Present(session.talk[i], rCall, session.made)
      /\ session.talk \in Talks /\ session.made \in Nat
  BY <1>1 DEF ResponsesInv, TalkSound
<1>7. \A m \in Messages : Present(m, rCall, session.made) => Present(m, rCall, n) /\ m # item
  BY <1>2, <1>3, <1>6 DEF Present, Messages
<1>8. \A i \in 1 .. Len(session.talk) : session.talk[i] \in Messages
  BY <1>6, ElementOfSeq DEF Talks
<1>9. \A i \in 1 .. Len(session.talk) : Present(session.talk[i], rCall, n) /\ session.talk[i] # item
  BY <1>6, <1>7, <1>8
<1>10. \A i \in 1 .. Len(session.items) : session.items[i] # item /\ session.items[i].of <= n
  <2>1. \A i \in 1 .. Len(session.items) : session.items[i] \in Messages
    BY <1>1, ElementOfSeq DEF Talks
  <2> QED
    BY <1>2, <1>3, <1>6, <2>1 DEF Messages
<1>11. Once(items)
  BY <1>4, <1>6, <1>10 DEF Once
<1>12. \A i \in 1 .. Len(items) : items[i].is = "item" /\ items[i].of <= n /\ ~Holds(session.talk, items[i])
  <2>1. ~Holds(session.talk, item)
    BY <1>9 DEF Holds
  <2>2. \A i \in 1 .. Len(session.items) :
          items[i].is = "item" /\ items[i].of <= n /\ ~Holds(session.talk, items[i])
    BY <1>4, <1>6, <1>10
  <2>3. item.of <= n
    BY <1>2, <1>3
  <2>4. \A i \in 1 .. Len(items) : i \in 1 .. Len(session.items) \/ items[i] = item
    BY <1>4
  <2> QED
    BY <1>3, <2>1, <2>2, <2>3, <2>4
<1>13. TalkSound(session', rCall')
  BY <1>1, <1>5, <1>6, <1>9, <1>11, <1>12 DEF ResponsesInv, TalkSound
<1>14. ResponsesType'
  BY <1>1, <1>5 DEF ResponsesInv, ResponsesType
<1> QED
  BY <1>1, <1>13, <1>14 DEF ResponsesInv, Apart, Remembering

(* the conversation, the items that wait and the input, one after the other *)
Line(a, b, m, n, k, x) ==
  /\ n = Len(a) /\ k = Len(b) /\ Len(x) = n + k + 1
  /\ \A i \in 1 .. n : x[i] = a[i]
  /\ \A i \in 1 .. k : x[n + i] = b[i]
  /\ x[n + k + 1] = m

LEMMA Parts ==
  ASSUME NEW n \in Nat, NEW k \in Nat, NEW h \in 1 .. n + k + 1
  PROVE  \/ h \in 1 .. n
         \/ h - n \in 1 .. k /\ n + (h - n) = h
         \/ h = n + k + 1
OBVIOUS

LEMMA Joined ==
  ASSUME NEW a \in Talks, NEW b \in Talks, NEW m \in Messages,
         NEW n \in Nat, n = Len(a), NEW k \in Nat, k = Len(b),
         NEW x, x = a \o Append(b, m)
  PROVE  x \in Talks /\ Line(a, b, m, n, k, x)
<1>1. /\ Append(b, m) \in Talks /\ Len(Append(b, m)) = k + 1
      /\ \A i \in 1 .. k : Append(b, m)[i] = b[i]
      /\ Append(b, m)[k + 1] = m
  BY AppendProperties DEF Talks
<1>2. PICK new \in Talks : new = Append(b, m)
  BY <1>1
<1>3. /\ x \in Talks /\ Len(x) = n + (k + 1)
      /\ \A i \in 1 .. n + (k + 1) : x[i] = IF i <= n THEN a[i] ELSE new[i - n]
  BY <1>1, <1>2, ConcatProperties DEF Talks
<1>4. \A i \in 1 .. n : x[i] = a[i]
  BY <1>3
<1>5. \A i \in 1 .. k + 1 : x[n + i] = new[i]
  <2> SUFFICES ASSUME NEW i \in 1 .. k + 1 PROVE x[n + i] = new[i]
    OBVIOUS
  <2>1. n + i \in 1 .. n + (k + 1) /\ ~(n + i <= n) /\ (n + i) - n = i
    OBVIOUS
  <2> QED
    BY <1>3, <2>1
<1>6. \A i \in 1 .. k : x[n + i] = b[i]
  BY <1>1, <1>2, <1>5
<1>7. k + 1 \in 1 .. k + 1 /\ n + (k + 1) = n + k + 1
  OBVIOUS
<1>8. x[n + k + 1] = m
  BY <1>1, <1>2, <1>5, <1>7
<1> QED
  BY <1>3, <1>4, <1>6, <1>7, <1>8 DEF Line

LEMMA JoinedOnce ==
  ASSUME NEW a \in Talks, NEW b \in Talks, NEW m \in Messages, NEW x \in Talks,
         NEW n \in Nat, NEW k \in Nat, Line(a, b, m, n, k, x),
         Once(a), Once(b),
         \A i \in 1 .. k : ~Holds(a, b[i]) /\ b[i] # m,
         \A i \in 1 .. n : a[i] # m
  PROVE  Once(x)
<1> SUFFICES ASSUME NEW i \in 1 .. n + k + 1, NEW j \in 1 .. n + k + 1, x[i] = x[j], i < j
             PROVE  FALSE
  <2>1. Once(x) <=> \A i, j \in 1 .. n + k + 1 : x[i] = x[j] => i = j
    BY DEF Once, Line
  <2>2. \A i, j \in 1 .. n + k + 1 : i < j \/ j < i \/ i = j
    OBVIOUS
  <2> QED
    BY <2>1, <2>2
<1>1. \A h \in 1 .. n + k + 1 :
        \/ h \in 1 .. n
        \/ h - n \in 1 .. k /\ n + (h - n) = h
        \/ h = n + k + 1
  BY Parts
<1>2. /\ n = Len(a) /\ k = Len(b) /\ x[n + k + 1] = m
      /\ \A h \in 1 .. n : x[h] = a[h]
      /\ \A h \in 1 .. k : x[n + h] = b[h]
  BY DEF Line
<1>3. CASE j \in 1 .. n
  <2>1. i \in 1 .. n
    BY <1>2, <1>3
  <2>2. a[i] = a[j] /\ i # j
    BY <1>2, <1>3, <2>1
  <2> QED
    BY <1>2, <1>3, <2>1, <2>2 DEF Once
<1>4. CASE j - n \in 1 .. k /\ n + (j - n) = j
  <2>1. x[j] = b[j - n]
    BY <1>2, <1>4
  <2>2. CASE i \in 1 .. n
    BY <1>2, <1>4, <2>1, <2>2 DEF Holds
  <2>3. CASE i - n \in 1 .. k /\ n + (i - n) = i
    <3>1. x[i] = b[i - n]
      BY <1>2, <2>3
    <3>2. i - n = j - n
      BY <1>2, <1>4, <2>1, <2>3, <3>1 DEF Once
    <3> QED
      BY <1>2, <1>4, <2>3, <3>2
  <2> QED
    BY <1>2, <1>1, <2>2, <2>3
<1>5. CASE j = n + k + 1
  <2>1. CASE i \in 1 .. n
    BY <1>2, <1>5, <2>1
  <2>2. CASE i - n \in 1 .. k /\ n + (i - n) = i
    <3>1. x[i] = b[i - n]
      BY <1>2, <2>2
    <3> QED
      BY <1>2, <1>5, <2>2, <3>1
  <2> QED
    BY <1>2, <1>1, <1>5, <2>1, <2>2
<1> QED
  BY <1>1, <1>3, <1>4, <1>5

(* what is longer at the front holds the same, and in the same order *)
LEMMA HeldBefore ==
  ASSUME NEW a, NEW x, NEW n \in Nat, NEW h \in Nat, n = Len(a), Len(x) = n + h,
         \A i \in 1 .. n : x[i] = a[i]
  PROVE  /\ \A m : Holds(a, m) => Holds(x, m)
         /\ \A r : Seen(a, r) => Seen(x, r)
<1>1. \A i \in 1 .. Len(a) : i \in 1 .. Len(x) /\ x[i] = a[i]
  OBVIOUS
<1> QED
  BY <1>1 DEF Holds, Seen

LEMMA ResponsesCreate ==
  ASSUME ResponsesInv, NEW q \in Turns, Resp!Create(q)
  PROVE  ResponsesInv' /\ Apart /\ Remembering
<1>1. /\ session \in [open : BOOLEAN, talk : Talks, items : Talks, made : Nat]
      /\ session' = [Resp!TakenItems(session) EXCEPT
                       !.talk = Resp!Merged(@, Append(session.items, Resp!Msg(q, "input")))]
      /\ rCall[q].way = "ws" /\ stored' = stored /\ active' \in SUBSET Turns
      /\ rCall \in [Turns -> Calls]
  BY DEF Resp!Create, ResponsesInv, ResponsesType
<1>2. PICK c \in Calls :
        /\ rCall' = [rCall EXCEPT ![q] = c]
        /\ c.pc = "asked" /\ c.way = rCall[q].way /\ c.told = rCall[q].told
        /\ rCall[q].pc = "idle"
  <2>1. <<>> \in Talks
    BY EmptySeq DEF Talks
  <2>2. \E name \in Resp!Name : Resp!Asked(q, <<>>, name, Resp!None)
    BY DEF Resp!Create
  <2> QED
    BY <1>1, <2>1, <2>2, AskedFacts
<1>3. PICK input \in Messages :
        input = Resp!Msg(q, "input") /\ input.of = q /\ input.is = "input"
  BY MessageFacts, ConversationsAssumption
<1>4. PICK a \in Talks, b \in Talks : a = session.talk /\ b = session.items
  BY <1>1
<1>5. PICK n \in Nat : n = Len(a)
  BY LenProperties DEF Talks
<1>6. PICK k \in Nat : k = Len(b)
  BY LenProperties DEF Talks
<1>7. PICK new \in Talks : new = Append(b, input) /\ new # <<>>
  <2>1. Append(b, input) \in Talks /\ Append(b, input) # <<>>
    BY <1>3, AppendProperties DEF Talks
  <2> QED
    BY <2>1
<1>8. PICK x : x = a \o Append(b, input)
  OBVIOUS
<1>9. /\ x \in Talks /\ Len(x) = n + k + 1
      /\ \A i \in 1 .. n : x[i] = a[i]
      /\ \A i \in 1 .. k : x[n + i] = b[i]
      /\ x[n + k + 1] = input
      /\ Line(a, b, input, n, k, x)
  <2>1. x \in Talks /\ Line(a, b, input, n, k, x)
    BY <1>5, <1>6, <1>8, Joined
  <2> QED
    BY <2>1 DEF Line
<1>10. /\ Once(a) /\ Once(b)
       /\ \A i \in 1 .. k : ~Holds(a, b[i])
       /\ \A i \in 1 .. k : b[i].is = "item" /\ b[i].of <= session.made
       /\ \A i \in 1 .. n : Present(a[i], rCall, session.made)
  BY <1>5, <1>6, <1>4 DEF ResponsesInv, TalkSound
<1>11. \A i \in 1 .. n : a[i] # input
  BY <1>2, <1>3, <1>10 DEF Present
<1>12. \A i \in 1 .. k : b[i] # input
  BY <1>3, <1>10
<1>13. Once(x)
  <2>1. /\ Once(a) /\ Once(b)
        /\ \A i \in 1 .. k : ~Holds(a, b[i]) /\ b[i] # input
        /\ \A i \in 1 .. n : a[i] # input
    BY <1>10, <1>11, <1>12
  <2> QED
    BY <1>9, <2>1, JoinedOnce
<1>14. PICK s \in Talks :
         /\ s = Resp!Merged(a, new)
         /\ Len(s) < MaxMessages => s = x
         /\ \E d \in Nat : Len(x) = Len(s) + d /\ \A i \in 1 .. Len(s) : s[i] = x[i + d]
  <2>1. x = a \o new
    BY <1>7, <1>8
  <2>2. PICK s \in Talks : s = Resp!Merged(a, new)
    BY <1>7, MergedIsLatest
  <2>3. Len(s) < MaxMessages => s = x
    BY <1>7, <2>1, <2>2, MergedIsLatest
  <2>4. \E d \in Nat : Len(x) = Len(s) + d /\ \A i \in 1 .. Len(s) : s[i] = x[i + d]
    <3>1. \E d \in Nat :
            /\ Len(a \o new) = Len(Resp!Merged(a, new)) + d
            /\ \A i \in 1 .. Len(Resp!Merged(a, new)) :
                 Resp!Merged(a, new)[i] = (a \o new)[i + d]
      BY <1>7, MergedIsLatest
    <3> QED
      BY <2>1, <2>2, <3>1
  <2> QED
    BY <2>2, <2>3, <2>4
<1>15. PICK d \in Nat : Len(x) = Len(s) + d /\ \A i \in 1 .. Len(s) : s[i] = x[i + d]
  BY <1>14
<1>16. PICK l \in Nat : l = Len(s)
  BY LenProperties DEF Talks
<1>17. l + d = n + k + 1 /\ \A i \in 1 .. l : i + d \in 1 .. n + k + 1 /\ s[i] = x[i + d]
  <2>1. l + d = n + k + 1
    BY <1>9, <1>15, <1>16
  <2>2. \A i \in 1 .. l : i + d \in 1 .. n + k + 1
    BY <2>1
  <2> QED
    BY <1>15, <1>16, <2>1, <2>2
<1>18. /\ session' \in [open : BOOLEAN, talk : Talks, items : Talks, made : Nat]
       /\ session'.talk = s /\ session'.items = <<>> /\ session'.made = session.made
  <2>1. <<>> \in Talks
    BY EmptySeq DEF Talks
  <2>2. session' = [session EXCEPT !.items = <<>>, !.talk = s]
    BY <1>1, <1>3, <1>4, <1>7, <1>14 DEF Resp!TakenItems
  <2> QED
    BY <1>1, <2>1, <2>2
<1>19. /\ rCall' \in [Turns -> Calls] /\ rCall'[q] = c
       /\ \A r \in Turns : r # q => rCall'[r] = rCall[r]
  BY <1>1, <1>2
<1>20. Once(s)
  <2> SUFFICES ASSUME NEW i \in 1 .. l, NEW j \in 1 .. l, s[i] = s[j] PROVE i = j
    BY <1>16 DEF Once
  <2>1. i + d \in 1 .. Len(x) /\ j + d \in 1 .. Len(x) /\ x[i + d] = x[j + d]
    BY <1>9, <1>17
  <2>2. i + d = j + d
    BY <1>13, <2>1 DEF Once
  <2> QED
    BY <2>2
<1>21. \A i \in 1 .. n + k + 1 : Present(x[i], rCall', session.made)
  <2> SUFFICES ASSUME NEW i \in 1 .. n + k + 1 PROVE Present(x[i], rCall', session.made)
    OBVIOUS
  <2>1. CASE i \in 1 .. n
    <3>1. Present(a[i], rCall, session.made)
      BY <1>10, <2>1
    <3>2. Present(a[i], rCall', session.made)
      BY <1>2, <1>19, <3>1 DEF Present
    <3> QED
      BY <1>9, <2>1, <3>2
  <2>2. CASE i - n \in 1 .. k /\ n + (i - n) = i
    <3>1. x[i] = b[i - n]
      BY <1>9, <2>2
    <3>2. x[i].is = "item" /\ x[i].of <= session.made
      BY <1>10, <2>2, <3>1
    <3> QED
      BY <3>2 DEF Present
  <2>3. CASE i = n + k + 1
    BY <1>2, <1>3, <1>9, <1>19, <2>3 DEF Present
  <2>4. i \in 1 .. n \/ (i - n \in 1 .. k /\ n + (i - n) = i) \/ i = n + k + 1
    OBVIOUS
  <2> QED
    BY <2>1, <2>2, <2>3, <2>4
<1>22. \A i \in 1 .. Len(s) : Present(s[i], rCall', session.made)
  BY <1>16, <1>17, <1>21
<1>23. ASSUME Len(s) < MaxMessages, NEW r \in Turns \ HostedTurns, rCall[r].way = "ws"
       PROVE  /\ rCall'[r].pc # "idle" => Holds(s, Resp!Msg(r, "input"))
              /\ rCall[r].told = "text" => Seen(s, r)
  <2>1. s = x /\ Len(a) < MaxMessages
    <3>1. s = x
      BY <1>14, <1>23
    <3>2. l < MaxMessages /\ MaxMessages \in Nat /\ n <= l
      BY <1>9, <1>16, <1>23, <3>1, ConversationsAssumption
    <3> QED
      BY <1>5, <3>1, <3>2
  <2>2. /\ rCall[r].pc # "idle" => Holds(a, Resp!Msg(r, "input"))
        /\ rCall[r].told = "text" => Seen(a, r)
    BY <1>4, <1>23, <2>1 DEF ResponsesInv, TalkSound
  <2>3. /\ Holds(a, Resp!Msg(r, "input")) => Holds(x, Resp!Msg(r, "input"))
        /\ Seen(a, r) => Seen(x, r)
    <3>1. k + 1 \in Nat /\ Len(x) = n + (k + 1)
      BY <1>9
    <3> QED
      BY <1>5, <1>9, <3>1, HeldBefore
  <2>4. Holds(x, input)
    <3>1. n + k + 1 \in 1 .. Len(x)
      BY <1>9
    <3> QED
      BY <1>9, <3>1 DEF Holds
  <2> QED
    BY <1>3, <1>19, <2>1, <2>2, <2>3, <2>4
<1>24. \A r \in Turns : rCall'[r].way = rCall[r].way /\ rCall'[r].told = rCall[r].told
  BY <1>2, <1>19
<1>25. TalkSound(session', rCall')
  <2>1. \A i \in 1 .. Len(<<>>) : FALSE
    OBVIOUS
  <2>2. Once(<<>>)
    BY <2>1 DEF Once
  <2> QED
    BY <1>18, <1>20, <1>22, <1>23, <1>24, <2>1, <2>2 DEF TalkSound
<1>26. StoredSound(stored', rCall')
  <2>1. \A i \in 1 .. Len(stored) : stored[i] \in Entries
    BY ElementOfSeq DEF ResponsesInv, ResponsesType
  <2>2. \A e \in Of(stored) : e.id \in Turns /\ e.id # q
    BY <1>2, <2>1 DEF Of, Entries, ResponsesInv, StoredSound
  <2> QED
    BY <1>1, <1>2, <1>19, <2>2 DEF ResponsesInv, StoredSound
<1>27. ResponsesType'
  BY <1>1, <1>18, <1>19 DEF ResponsesInv, ResponsesType
<1>28. Remembering
  BY <1>18, <1>20, <1>23 DEF Remembering
<1> QED
  BY <1>1, <1>25, <1>26, <1>27, <1>28 DEF ResponsesInv, Apart

LEMMA ResponsesInitInv == Resp!Init => ResponsesInv
<1> SUFFICES ASSUME Resp!Init PROVE ResponsesInv
  OBVIOUS
<1>1. PICK mix \in Mixes : rCall = [q \in Turns |-> Resp!Coming(mix[q])]
  BY DEF Resp!Init
<1>2. \A q \in Turns : rCall[q] \in Calls /\ rCall[q].pc = "idle" /\ rCall[q].told = "nothing"
  BY <1>1, ConversationsAssumption, ComingFacts
<1>3. /\ session = [open |-> TRUE, talk |-> <<>>, items |-> <<>>, made |-> 0]
      /\ active = {} /\ stored = <<>> /\ <<>> \in Talks /\ Len(<<>>) = 0
  BY EmptySeq DEF Resp!Init, Talks
<1>4. ResponsesType
  BY <1>1, <1>2, <1>3, EmptySeq DEF ResponsesType
<1>5. TalkSound(session, rCall)
  BY <1>2, <1>3 DEF TalkSound, Once
<1>6. StoredSound(stored, rCall)
  BY <1>2, <1>3 DEF StoredSound, Of
<1> QED
  BY <1>4, <1>5, <1>6 DEF ResponsesInv

LEMMA ResponsesSteps ==
  ASSUME ResponsesInv, [Resp!Next]_(Resp!vars)
  PROVE  ResponsesInv' /\ [Apart]_(Resp!vars) /\ [Remembering]_(Resp!vars)
<1>1. CASE UNCHANGED Resp!vars
  BY <1>1 DEF ResponsesInv, ResponsesType, TalkSound, StoredSound, Resp!vars
<1>2. CASE Resp!Next /\ ~UNCHANGED Resp!vars
  BY <1>2, ResponsesAddItem, ResponsesDestroy, ResponsesCreate, ResponsesStream,
     ResponsesSent, ResponsesAnswer, ResponsesReturn, ResponsesArrive, ResponsesReply
  DEF Resp!Next, Resp!Done
<1> QED
  BY <1>1, <1>2

(* A session remembers: whatever the order in which its requests are made,   *)
(* answered, cancelled and left, a model that is asked has every answer the  *)
(* client was given behind the input it answers, and nothing twice.          *)
THEOREM SessionsRemember == Resp!Spec => TurnsRemembered
<1>1. ResponsesInv /\ [Resp!Next]_(Resp!vars)
        => ResponsesInv' /\ [Remembering]_(Resp!vars)
  BY ResponsesSteps
<1>2. ResponsesInv /\ ResponsesInv' /\ [Remembering]_(Resp!vars) =>
       [\A q \in Turns :
         rCall[q].pc = "idle" /\ rCall'[q].pc = "asked" /\ rCall[q].way = "ws" =>
           LET s == session'.talk
           IN /\ Resp!IsInjective(s)
              /\ Len(s) < MaxMessages =>
                   \A r \in Turns \ HostedTurns :
                     rCall[r].way = "ws" /\ rCall[r].told = "text" => Resp!Sees(s, r)]_(Resp!vars)
  <2> SUFFICES ASSUME ResponsesInv', Remembering
               PROVE  \A q \in Turns :
         rCall[q].pc = "idle" /\ rCall'[q].pc = "asked" /\ rCall[q].way = "ws" =>
           LET s == session'.talk
           IN /\ Resp!IsInjective(s)
              /\ Len(s) < MaxMessages =>
                   \A r \in Turns \ HostedTurns :
                     rCall[r].way = "ws" /\ rCall[r].told = "text" => Resp!Sees(s, r)
    OBVIOUS
  <2>1. DOMAIN session'.talk = 1 .. Len(session'.talk)
    BY LenProperties DEF ResponsesInv, ResponsesType, Talks
  <2>2. Once(session'.talk) => Resp!IsInjective(session'.talk)
    BY <2>1 DEF Once, Resp!IsInjective
  <2>3. \A r \in Turns : Seen(session'.talk, r) => Resp!Sees(session'.talk, r)
    BY <2>1 DEF Seen, Resp!Sees, Resp!At
  <2> QED
    BY <2>2, <2>3 DEF Remembering
<1> QED
  BY <1>1, <1>2, ResponsesInitInv, PTL
  DEF Resp!Spec, TurnsRemembered, Resp!TurnsRemembered

(* What is remembered of a response is the same for everyone who continues   *)
(* it, for as long as it is remembered.                                      *)
THEOREM BranchesStayApart == Resp!Spec => BranchesApart
<1>1. ResponsesInv /\ [Resp!Next]_(Resp!vars)
        => ResponsesInv' /\ [Apart]_(Resp!vars)
  BY ResponsesSteps
<1>2. ResponsesInv /\ ResponsesInv' /\ [Apart]_(Resp!vars) =>
       [\A e \in Resp!ToSet(stored) : e.id \in {f.id : f \in Resp!ToSet(stored')}
          => e \in Resp!ToSet(stored')]_(Resp!vars)
  <2> SUFFICES ASSUME ResponsesInv, ResponsesInv', Apart
               PROVE  \A e \in Resp!ToSet(stored) :
                        e.id \in {f.id : f \in Resp!ToSet(stored')}
                          => e \in Resp!ToSet(stored')
    OBVIOUS
  <2>1. Resp!ToSet(stored) = Of(stored)
    BY LenProperties DEF ResponsesInv, ResponsesType, Resp!ToSet, Of
  <2>2. Resp!ToSet(stored') = Of(stored')
    BY LenProperties DEF ResponsesInv, ResponsesType, Resp!ToSet, Of
  <2> QED
    BY <2>1, <2>2 DEF Apart
<1> QED
  BY <1>1, <1>2, ResponsesInitInv, PTL
  DEF Resp!Spec, BranchesApart, Resp!BranchesApart

-----------------------------------------------------------------------------
(* Hosted tools: the calls for the client.                                   *)

LEMMA HostedSets == \A seq : Hosted!ToSet(seq) = ToSet(seq)
BY DEF Hosted!ToSet, ToSet

LEMMA HostedMax == \A S : Hosted!Max(S) = Max(S)
BY DEF Hosted!Max, Max

(* what Merged does with one call *)
Adding ==
  [p \in Seq(ClientCalls) \X ClientCalls |->
     IF \E d \in ToSet(p[1]) : Hosted!Same(d, p[2]) THEN p[1] ELSE Append(p[1], p[2])]

LEMMA MergedIs ==
  ASSUME NEW calls \in Seq(ClientCalls), NEW pending \in Seq(ClientCalls)
  PROVE  Hosted!Merged(calls, pending) = Stepwise(Adding, calls, pending)
<1> DEFINE n == Len(pending)
           iter(h) == [T \in SUBSET (1..n) |->
                         IF T = {} THEN calls
                         ELSE IF \E d \in ToSet(h[T \ {Max(T)}]) : Hosted!Same(d, pending[Max(T)])
                         THEN h[T \ {Max(T)}]
                         ELSE Append(h[T \ {Max(T)}], pending[Max(T)])]
           it == CHOOSE h : h = iter(h)
<1>1. Adding \in [Seq(ClientCalls) \X ClientCalls -> Seq(ClientCalls)] /\ n \in Nat
  BY DEF Adding
<1>2. PICK g \in Values(n, Seq(ClientCalls)) : FoldsTo(g, Adding, calls, pending)
  <2>1. PICK V : V = Seq(ClientCalls)
    OBVIOUS
  <2>2. \E g \in Values(n, V) : FoldsTo(g, Adding, calls, pending)
    BY <1>1, <2>1, StepwiseIs
  <2> QED
    BY <2>1, <2>2
<1>3. ASSUME NEW T \in SUBSET (1..n)
      PROVE  g[T] = IF T = {} THEN calls
                    ELSE IF \E d \in ToSet(g[T \ {Max(T)}]) : Hosted!Same(d, pending[Max(T)])
                    THEN g[T \ {Max(T)}]
                    ELSE Append(g[T \ {Max(T)}], pending[Max(T)])
  <2>1. g[T] = IF T = {} THEN calls ELSE Adding[<<g[T \ {Max(T)}], pending[Max(T)]>>]
    BY <1>2 DEF FoldsTo
  <2>2. CASE T # {}
    <3>1. Max(T) \in 1..n
      BY <1>1, <2>2, MaxIn
    <3>2. g[T \ {Max(T)}] \in Seq(ClientCalls) /\ pending[Max(T)] \in ClientCalls
      <4>1. g \in [SUBSET (1..n) -> Seq(ClientCalls)] /\ T \ {Max(T)} \in SUBSET (1..n)
        BY <1>2 DEF Values
      <4> QED
        BY <3>1, <4>1
    <3> QED
      BY <2>1, <2>2, <3>2 DEF Adding
  <2> QED
    BY <2>1, <2>2
<1>4. g = iter(g)
  BY <1>2, <1>3 DEF Values
<1>5. it = iter(it)
  <2> HIDE DEF iter
  <2> QED
    BY <1>4
<1>6. \A T \in SUBSET (1..n) :
        it[T] = IF T = {} THEN calls
                ELSE IF \E d \in ToSet(it[T \ {Max(T)}]) : Hosted!Same(d, pending[Max(T)])
                THEN it[T \ {Max(T)}]
                ELSE Append(it[T \ {Max(T)}], pending[Max(T)])
  <2> HIDE DEF it
  <2> QED
    BY <1>5
<1>7. it[1..n] = g[1..n]
  <2> HIDE DEF it, n
  <2>1. it[{}] = g[{}]
    BY <1>3, <1>6
  <2>2. \A T \in SUBSET (1..n) :
          T # {} /\ it[T \ {Max(T)}] = g[T \ {Max(T)}] => it[T] = g[T]
    BY <1>3, <1>6
  <2> QED
    BY <1>1, <2>1, <2>2, FoldsAgree
<1>8. DOMAIN pending = 1..n
  OBVIOUS
<1>9. Hosted!Merged(calls, pending) = it[1..n]
  BY <1>8, HostedSets, HostedMax
  DEF Hosted!Merged, Hosted!FoldLeft, Hosted!MapThenFoldSet
<1> QED
  BY <1>2, <1>7, <1>9 DEF FoldsTo

(* every call is there, or one like it, and no two alike *)
Gathered(s, calls, pending) ==
  /\ s \in Seq(ClientCalls)
  /\ ToSet(s) \subseteq ToSet(calls) \union ToSet(pending)
  /\ \A c \in ToSet(calls) \union ToSet(pending) : \E d \in ToSet(s) : Hosted!Same(d, c)
  /\ \A i, j \in 1..Len(s) : i < j => ~Hosted!Same(s[i], s[j])

LEMMA SetAppend ==
  ASSUME NEW X, NEW seq \in Seq(X), NEW e \in X
  PROVE  ToSet(Append(seq, e)) = ToSet(seq) \union {e}
<1>1. /\ Append(seq, e) \in Seq(X) /\ Len(Append(seq, e)) = Len(seq) + 1
      /\ Append(seq, e)[Len(seq) + 1] = e
      /\ \A i \in 1..Len(seq) : Append(seq, e)[i] = seq[i]
      /\ \A i \in 1..(Len(seq) + 1) : i \in 1..Len(seq) \/ i = Len(seq) + 1
      /\ \A i \in 1..Len(seq) : i \in 1..(Len(seq) + 1)
      /\ Len(seq) + 1 \in 1..(Len(seq) + 1)
      /\ DOMAIN seq = 1..Len(seq) /\ DOMAIN Append(seq, e) = 1..(Len(seq) + 1)
  OBVIOUS
<1> QED
  BY <1>1 DEF ToSet

LEMMA SetConcat ==
  ASSUME NEW X, NEW s \in Seq(X), NEW t \in Seq(X)
  PROVE  s \o t \in Seq(X) /\ ToSet(s \o t) = ToSet(s) \union ToSet(t)
<1>1. PICK n, k, x : n = Len(s) /\ k = Len(t) /\ x = s \o t
  OBVIOUS
<1>2. /\ n \in Nat /\ k \in Nat /\ x \in Seq(X) /\ Len(x) = n + k
      /\ \A i \in 1..(n + k) : x[i] = IF i <= n THEN s[i] ELSE t[i - n]
  BY <1>1, ConcatProperties
<1>3. DOMAIN s = 1..n /\ DOMAIN t = 1..k /\ DOMAIN x = 1..(n + k)
  BY <1>1, <1>2
<1>4. \A i \in 1..n : i \in 1..(n + k) /\ x[i] = s[i]
  BY <1>2
<1>5. \A i \in 1..k : n + i \in 1..(n + k) /\ x[n + i] = t[i]
  <2> SUFFICES ASSUME NEW i \in 1..k PROVE n + i \in 1..(n + k) /\ x[n + i] = t[i]
    OBVIOUS
  <2>1. n + i \in 1..(n + k) /\ ~(n + i <= n) /\ (n + i) - n = i
    BY <1>2
  <2> QED
    BY <1>2, <2>1
<1>6. \A i \in 1..(n + k) : i \in 1..n \/ (i - n \in 1..k /\ n + (i - n) = i)
  BY <1>2
<1>7. ToSet(s) \union ToSet(t) \subseteq ToSet(x)
  BY <1>3, <1>4, <1>5 DEF ToSet
<1>8. ToSet(x) \subseteq ToSet(s) \union ToSet(t)
  <2> SUFFICES ASSUME NEW i \in 1..(n + k) PROVE x[i] \in ToSet(s) \union ToSet(t)
    BY <1>3 DEF ToSet
  <2> QED
    BY <1>3, <1>4, <1>5, <1>6 DEF ToSet
<1> QED
  BY <1>1, <1>2, <1>7, <1>8

LEMMA GatheredOn ==
  ASSUME NEW calls \in Seq(ClientCalls), NEW pending \in Seq(ClientCalls),
         NEW s, Gathered(s, calls, pending), NEW e \in ClientCalls
  PROVE  Gathered(Adding[<<s, e>>], calls, Append(pending, e))
<1>1. ToSet(Append(pending, e)) = ToSet(pending) \union {e}
  BY SetAppend
<1>2. s \in Seq(ClientCalls)
  BY DEF Gathered
<1>3. CASE \E d \in ToSet(s) : Hosted!Same(d, e)
  <2>1. Adding[<<s, e>>] = s
    BY <1>2, <1>3 DEF Adding
  <2> QED
    BY <1>1, <1>3, <2>1 DEF Gathered
<1>4. CASE ~ \E d \in ToSet(s) : Hosted!Same(d, e)
  <2>1. Adding[<<s, e>>] = Append(s, e)
    BY <1>2, <1>4 DEF Adding
  <2>2. PICK t : t = Append(s, e)
    OBVIOUS
  <2>3. t \in Seq(ClientCalls) /\ ToSet(t) = ToSet(s) \union {e}
    BY <1>2, <2>2, SetAppend
  <2>4. Hosted!Same(e, e)
    BY DEF Hosted!Same
  <2>5. \A i, j \in 1..Len(t) : i < j => ~Hosted!Same(t[i], t[j])
    <3> SUFFICES ASSUME NEW i \in 1..Len(t), NEW j \in 1..Len(t), i < j
                 PROVE  ~Hosted!Same(t[i], t[j])
      OBVIOUS
    <3>1. i \in 1..Len(s) /\ t[i] = s[i] /\ s[i] \in ToSet(s)
      BY <1>2, <2>2 DEF ToSet
    <3>2. CASE j \in 1..Len(s)
      <4>1. t[j] = s[j]
        BY <1>2, <2>2, <3>2
      <4> QED
        BY <3>1, <3>2, <4>1 DEF Gathered
    <3>3. CASE j = Len(s) + 1
      <4>1. t[j] = e
        BY <1>2, <2>2, <3>3
      <4> QED
        BY <1>4, <3>1, <4>1
    <3>4. Len(t) = Len(s) + 1 /\ Len(s) \in Nat
      BY <1>2, <2>2
    <3> QED
      BY <3>2, <3>3, <3>4
  <2> QED
    BY <1>1, <2>1, <2>2, <2>3, <2>4, <2>5 DEF Gathered
<1> QED
  BY <1>3, <1>4

LEMMA MergedGathers ==
  ASSUME NEW calls \in Seq(ClientCalls), Len(calls) \in 0..1,
         NEW pending \in Seq(ClientCalls)
  PROVE  Gathered(Hosted!Merged(calls, pending), calls, pending)
<1> DEFINE F == {s \in Seq(ClientCalls) : Gathered(Stepwise(Adding, calls, s), calls, s)}
<1>1. PICK V : V = Seq(ClientCalls)
  OBVIOUS
<1>2. calls \in V /\ Adding \in [V \X ClientCalls -> V]
  BY <1>1 DEF Adding
<1>3. <<>> \in F
  <2>1. Stepwise(Adding, calls, <<>>) = calls
    BY <1>2, StepwiseEmpty
  <2>2. ToSet(<<>>) = {} /\ <<>> \in Seq(ClientCalls)
    BY DEF ToSet
  <2>3. ASSUME NEW i \in 1..Len(calls), NEW j \in 1..Len(calls) PROVE ~(i < j)
    <3>1. PICK n \in 0..1 : n = Len(calls)
      OBVIOUS
    <3> QED
      BY <3>1
  <2> QED
    BY <2>1, <2>2, <2>3 DEF Gathered, Hosted!Same
<1>4. ASSUME NEW s \in Seq(ClientCalls), NEW e \in ClientCalls, s \in F
      PROVE  Append(s, e) \in F
  <2>1. GoesOnWith(Adding, calls, V, s, e)
    BY <1>2, StepwiseAppend
  <2>2. Gathered(Stepwise(Adding, calls, s), calls, s)
    BY <1>4
  <2>3. PICK acc : acc = Stepwise(Adding, calls, s)
    OBVIOUS
  <2>4. Gathered(Adding[<<acc, e>>], calls, Append(s, e))
    BY <2>2, <2>3, GatheredOn
  <2>5. Append(s, e) \in Seq(ClientCalls)
    OBVIOUS
  <2> QED
    BY <2>1, <2>3, <2>4, <2>5 DEF GoesOnWith
<1>5. pending \in F
  <2> HIDE DEF F
  <2> QED
    BY <1>3, <1>4, SeqInduction
<1> QED
  BY <1>5, MergedIs

-----------------------------------------------------------------------------
HostedCallType ==
  [pc : {"ask", "run", "wait", "answered", "failed"}, loop : Nat, todo : Seq(Hosted!Hosted),
   pending : Seq(ClientCalls), answer : Seq(ClientCalls), made : SUBSET ClientCalls]

(* until the answer, the calls that wait are the ones made; then they are in it *)
Kept(c) ==
  /\ c \in HostedCallType
  /\ c.pc # "answered" => c.made = ToSet(c.pending)
  /\ c.pc = "answered" =>
       /\ \A d \in c.made : \E e \in ToSet(c.answer) : Hosted!Same(e, d)
       /\ ToSet(c.answer) \subseteq c.made
       /\ \A i, j \in 1..Len(c.answer) : i < j => ~Hosted!Same(c.answer[i], c.answer[j])

HostedInv ==
  /\ hCall \in [HostedRequests -> HostedCallType]
  /\ \A r \in HostedRequests : Kept(hCall[r])

LEMMA HostedMoves ==
  ASSUME HostedInv, NEW r, NEW c, Kept(c), hCall' = [hCall EXCEPT ![r] = c]
  PROVE  HostedInv'
BY DEF HostedInv, Kept

LEMMA OfSeqOf ==
  ASSUME NEW X, NEW n \in Nat, NEW s \in Hosted!SeqOf(X, n)
  PROVE  s \in Seq(X) /\ Len(s) \in 0..n
BY DEF Hosted!SeqOf

LEMMA AnsweredKeeps ==
  ASSUME HostedInv, NEW r \in HostedRequests, Hosted!Answered(r)
  PROVE  HostedInv'
<1>1. PICK hosted \in Hosted!SeqOf(Hosted!Hosted, MaxHosted),
            calls \in Hosted!SeqOf(ClientCalls, 1) :
        /\ hCall[r].pc = "ask"
        /\ hCall' = [hCall EXCEPT ![r] = Hosted!After(@, hosted, calls)]
  BY DEF Hosted!Answered
<1>2. /\ hosted \in Seq(Hosted!Hosted)
      /\ calls \in Seq(ClientCalls) /\ Len(calls) \in 0..1
  <2>1. hosted \in Seq(Hosted!Hosted)
    BY HostedAssumption, OfSeqOf
  <2> QED
    BY <2>1, OfSeqOf
<1>3. PICK c : c = hCall[r]
  OBVIOUS
<1>4. c \in HostedCallType /\ c.pc = "ask" /\ c.made = ToSet(c.pending) /\ Kept(c)
  BY <1>1, <1>3 DEF HostedInv, Kept
<1>5. /\ c.pending \in Seq(ClientCalls) /\ c.answer \in Seq(ClientCalls) /\ c.loop \in Nat
      /\ c.made \in SUBSET ClientCalls
  BY <1>4 DEF HostedCallType
<1>6. ToSet(calls) \subseteq ClientCalls
  BY <1>2 DEF ToSet
<1>7. PICK made : made = c.made \union ToSet(calls)
  OBVIOUS
<1>8. made \in SUBSET ClientCalls /\ made = ToSet(calls) \union ToSet(c.pending)
  BY <1>4, <1>5, <1>6, <1>7
<1>9. CASE hosted = <<>>
  <2>1. PICK s : s = Hosted!Merged(calls, c.pending)
    OBVIOUS
  <2>2. Gathered(s, calls, c.pending)
    BY <1>2, <1>5, <2>1, MergedGathers
  <2>3. PICK d : d = [c EXCEPT !.pc = "answered", !.made = made, !.answer = s]
    OBVIOUS
  <2>8. Hosted!After(c, hosted, calls) = d
    BY <1>7, <1>9, <2>1, <2>3, HostedSets DEF Hosted!After
  <2>4. hCall' = [hCall EXCEPT ![r] = d]
    BY <1>1, <1>3, <2>8
  <2>5. s \in Seq(ClientCalls)
    BY <2>2 DEF Gathered
  <2>6. d \in HostedCallType /\ d.pc = "answered" /\ d.made = made /\ d.answer = s
    BY <1>4, <1>5, <1>8, <2>3, <2>5 DEF HostedCallType
  <2>7. Kept(d)
    BY <1>8, <2>2, <2>6 DEF Kept, Gathered
  <2> QED
    BY <2>4, <2>7, HostedMoves
<1>10. CASE hosted # <<>>
  <2>1. PICK s : s = c.pending \o calls
    OBVIOUS
  <2>2. s \in Seq(ClientCalls) /\ ToSet(s) = ToSet(c.pending) \union ToSet(calls)
    BY <1>2, <1>5, <2>1, SetConcat
  <2>3. PICK d : d = [c EXCEPT !.pc = "run", !.todo = hosted, !.made = made, !.pending = s]
    OBVIOUS
  <2>8. Hosted!After(c, hosted, calls) = d
    BY <1>7, <1>10, <2>1, <2>3, HostedSets DEF Hosted!After, Hosted!Pending
  <2>4. hCall' = [hCall EXCEPT ![r] = d]
    BY <1>1, <1>3, <2>8
  <2>5. d \in HostedCallType /\ d.pc = "run" /\ d.made = made /\ d.pending = s
    BY <1>2, <1>4, <1>5, <1>8, <2>2, <2>3 DEF HostedCallType
  <2>6. Kept(d)
    BY <1>8, <2>2, <2>5 DEF Kept
  <2> QED
    BY <2>4, <2>6, HostedMoves
<1> QED
  BY <1>9, <1>10

(* what moves besides the calls for the client *)
LEMMA OthersKeep ==
  ASSUME NEW c, Kept(c), c.pc # "answered", NEW d \in HostedCallType,
         d.pc # "answered", d.made = c.made, d.pending = c.pending
  PROVE  Kept(d)
BY DEF Kept

LEMMA ThroughKeeps ==
  ASSUME NEW c, Kept(c), c.pc # "answered"
  PROVE  Kept(Hosted!Through(c))
<1>1. c \in HostedCallType /\ c.todo \in Seq(Hosted!Hosted) /\ c.loop \in Nat
  BY DEF Kept, HostedCallType
<1>2. PICK d : d = Hosted!Through(c)
  OBVIOUS
<1>3. CASE Len(c.todo) > 1
  <2>1. PICK rest : rest = Tail(c.todo)
    OBVIOUS
  <2>2. rest \in Seq(Hosted!Hosted)
    BY <1>1, <1>3, <2>1
  <2>3. d = [c EXCEPT !.pc = "run", !.todo = rest]
    BY <1>2, <1>3, <2>1 DEF Hosted!Through
  <2>4. d \in HostedCallType /\ d.pc = "run" /\ d.made = c.made /\ d.pending = c.pending
    BY <1>1, <2>2, <2>3 DEF HostedCallType
  <2> QED
    BY <1>2, <2>4, OthersKeep
<1>4. CASE ~(Len(c.todo) > 1)
  <2>1. PICK pc \in {"ask", "failed"} : pc = IF c.loop + 1 = MaxLoops THEN "failed" ELSE "ask"
    OBVIOUS
  <2>2. d = [c EXCEPT !.pc = pc, !.loop = c.loop + 1, !.todo = <<>>]
    BY <1>2, <1>4, <2>1 DEF Hosted!Through
  <2>3. <<>> \in Seq(Hosted!Hosted) /\ c.loop + 1 \in Nat
    BY <1>1
  <2>4. d \in HostedCallType /\ d.pc = pc /\ d.made = c.made /\ d.pending = c.pending
    BY <1>1, <2>2, <2>3 DEF HostedCallType
  <2> QED
    BY <1>2, <2>1, <2>4, OthersKeep
<1> QED
  BY <1>3, <1>4

LEMMA FailsKeeps ==
  ASSUME NEW c, Kept(c), c.pc # "answered", NEW pc \in {"wait", "failed"}
  PROVE  Kept([c EXCEPT !.pc = pc])
<1>1. PICK d : d = [c EXCEPT !.pc = pc]
  OBVIOUS
<1>2. c \in HostedCallType
  BY DEF Kept
<1>3. d \in HostedCallType /\ d.pc = pc /\ d.made = c.made /\ d.pending = c.pending
  BY <1>1, <1>2 DEF HostedCallType
<1> QED
  BY <1>1, <1>3, OthersKeep

LEMMA HostedSteps ==
  ASSUME HostedInv, [Hosted!Next]_hostVars
  PROVE  HostedInv'
<1>1. ASSUME NEW r \in HostedRequests, Hosted!Fails(r) PROVE HostedInv'
  <2>1. PICK d : d = [hCall[r] EXCEPT !.pc = "failed"]
    OBVIOUS
  <2>2. hCall' = [hCall EXCEPT ![r] = d]
    BY <1>1, <2>1 DEF Hosted!Fails
  <2>3. Kept(hCall[r]) /\ hCall[r].pc # "answered"
    BY <1>1 DEF HostedInv, Hosted!Fails
  <2>4. Kept(d)
    BY <2>1, <2>3, FailsKeeps
  <2> QED
    BY <2>2, <2>4, HostedMoves
<1>2. ASSUME NEW r \in HostedRequests, Hosted!Returns(r) PROVE HostedInv'
  <2>1. Kept(hCall[r]) /\ hCall[r].pc # "answered"
    BY <1>2 DEF HostedInv, Hosted!Returns
  <2>2. Kept(Hosted!Through(hCall[r]))
    BY <2>1, ThroughKeeps
  <2>3. hCall' = [hCall EXCEPT ![r] = Hosted!Through(hCall[r])]
    BY <1>2 DEF Hosted!Returns
  <2> QED
    BY <2>2, <2>3, HostedMoves
<1>3. ASSUME NEW r \in HostedRequests, Hosted!Starts(r) PROVE HostedInv'
  <2>1. Kept(hCall[r]) /\ hCall[r].pc # "answered"
    BY <1>3 DEF HostedInv, Hosted!Starts
  <2>2. /\ Kept(Hosted!Through(hCall[r]))
        /\ Kept([hCall[r] EXCEPT !.pc = "wait"])
        /\ Kept([hCall[r] EXCEPT !.pc = "failed"])
    BY <2>1, ThroughKeeps, FailsKeeps
  <2>3. PICK c \in {Hosted!Through(hCall[r]), [hCall[r] EXCEPT !.pc = "wait"],
                    [hCall[r] EXCEPT !.pc = "failed"]} : hCall' = [hCall EXCEPT ![r] = c]
    BY <1>3 DEF Hosted!Starts
  <2>4. Kept(c)
    BY <2>2
  <2> QED
    BY <2>3, <2>4, HostedMoves
<1>4. ASSUME UNCHANGED hostVars PROVE HostedInv'
  BY <1>4 DEF HostedInv, hostVars, Kept
<1> QED
  BY <1>1, <1>2, <1>3, <1>4, AnsweredKeeps DEF Hosted!Next

LEMMA HostedInitInv == Hosted!Init => HostedInv
<1> SUFFICES ASSUME Hosted!Init PROVE HostedInv
  OBVIOUS
<1>1. PICK c : c = [pc |-> "ask", loop |-> 0, todo |-> <<>>,
                    pending |-> <<>>, answer |-> <<>>, made |-> {}]
  OBVIOUS
<1>2. hCall = [r \in HostedRequests |-> c]
  BY <1>1 DEF Hosted!Init
<1>3. c \in HostedCallType /\ c.pc = "ask" /\ c.made = {} /\ c.pending = <<>>
  BY <1>1 DEF HostedCallType
<1>4. ToSet(<<>>) = {}
  BY DEF ToSet
<1>5. Kept(c)
  BY <1>3, <1>4 DEF Kept
<1> QED
  BY <1>2, <1>3, <1>5 DEF HostedInv

(* The client gets each of its calls, however many rounds of hosted calls    *)
(* came before the answer, and no call twice (responses.js,                  *)
(* runChatCompletionWithProxyHostedVirtualTools).                            *)
THEOREM HostedCallsArrive == Hosted!Spec => []ClientCallsReachClient
<1>1. HostedInv => ClientCallsReachClient
  BY HostedSets DEF HostedInv, Kept, ClientCallsReachClient, Hosted!ClientCallsReachClient
<1>2. hostVars = Hosted!hostedVars
  BY DEF hostVars, Hosted!hostedVars
<1>3. HostedInv /\ [Hosted!Next]_Hosted!hostedVars => HostedInv'
  BY <1>2, HostedSteps DEF hostVars, Hosted!hostedVars
<1> QED
  BY <1>1, <1>3, HostedInitInv, PTL DEF Hosted!Spec
=============================================================================
