--------------------------- MODULE ChatCompletion ---------------------------
(***************************************************************************)
(* One chat request from its arrival to its answer: handleChatCompletion   *)
(* of lib/routing.js and the retries it makes.  The code retries by        *)
(* calling itself and returning what the call returns; each such call is a *)
(* round here, and the counters the code keeps in the request body are     *)
(* carried from round to round.  One attempt at a provider is one step     *)
(* that settles as Attempt promises.  Cooldowns, scores, context sizes and *)
(* what a provider says are choices.  The task runtime is installed, as    *)
(* llm-proxy.js always does.                                               *)
(***************************************************************************)
EXTENDS Naturals, FiniteSets

CONSTANTS
  Providers,
  Claude,        \* the direct Claude routes that stand in for each other
  MaxHidden,     \* hiddenContinuationMaxRetries
  Mixes          \* bound: the kinds of failure one request may meet

ASSUME ChatAssumption ==
  /\ Claude \subseteq Providers /\ Providers # {} /\ IsFiniteSet(Providers)
  /\ MaxHidden \in Nat \ {0}

VARIABLES
  body,          \* what the request body carries between rounds, and the mix
                 \* of failures in store for it
  round,         \* the round under way
  client         \* what was done to the client's response

vars == <<body, round, client>>

(* how an attempt may fail *)
Failures == {"local", "terminal", "budget", "continue", "recall", "reroute",
             "timeout", "context", "rate", "outage", "stall", "other"}

(* those the catch block looks at by name *)
Named == {"local", "terminal", "budget", "continue", "recall", "reroute",
          "timeout"}

(* those that come before the response's head is written *)
NeverDirty == {"budget", "continue", "recall", "reroute", "timeout"}

Fresh == [pc |-> "enter", todo |-> {}, now |-> {}, err |-> "none",
          dirty |-> FALSE, errs |-> 0, ctx |-> 0, outage |-> FALSE]

Init ==
  /\ \E group, long \in BOOLEAN, mix \in Mixes :
       body = [group |-> group, long |-> long, mix |-> mix, internal |-> FALSE,
               cooled |-> FALSE, hidden |-> 0, total |-> 0, recall |-> 0,
               reroute |-> 0, mid |-> 0, post |-> 0, emergency |-> 0,
               cohort |-> 0, direct |-> 0, model |-> 0]
  /\ round = Fresh
  /\ client = [head |-> 0, end |-> FALSE, late |-> FALSE, gone |-> FALSE]

(***************************************************************************)
(* The response.  writeHead throws on a response whose head was written    *)
(* and write fails on one that was ended; end() twice does nothing.        *)
(***************************************************************************)
Headed(c) == [c EXCEPT !.head = @ + 1, !.late = @ \/ c.end]
Ended(c)  == [c EXCEPT !.end = TRUE]
Answered(c) == Ended(Headed(c))

Finish(c) == client' = c /\ round' = [round EXCEPT !.pc = "done"]

Answer     == Finish(Answered(client)) /\ UNCHANGED body
EndQuietly == Finish(Ended(client)) /\ UNCHANGED body

(* mutant: the handler answers whatever happened to the response *)
AnswerAnyway == Answer

(* an error that leaves the core: the handler ends a response that was begun *)
(* and answers 429 or 503 on one that was not                                *)
Throw == IF client.head > 0 THEN EndQuietly ELSE Answer

(* return await handleChatCompletion(..., internal) with body b *)
Again(b) ==
  /\ body' = [b EXCEPT !.internal = TRUE]
  /\ round' = Fresh
  /\ UNCHANGED client

Stay(r) == round' = r /\ UNCHANGED <<body, client>>

(***************************************************************************)
(* Before the providers are tried.                                         *)
(***************************************************************************)

(* a ban command, an identity question, a request for approval, guidance to  *)
(* compact, no provider or no such model: the proxy answers itself           *)
AnswerItself == round.pc = "enter" /\ Answer

(* maybeApplyEmergencyContextCompaction: at most once; when it succeeds the  *)
(* messages may have become few                                              *)
Compacted(b) ==
  {[b EXCEPT !.emergency = 1, !.long = long] :
     long \in IF b.long THEN BOOLEAN ELSE {FALSE}}

(* the early check of a group request whose input comes near the best context *)
CompactEarly ==
  /\ round.pc = "enter" /\ body.group /\ body.long /\ body.emergency = 0
  /\ body' \in Compacted(body)
  /\ UNCHANGED <<round, client>>

(* no candidate fits: compact and start again.  The guidance or the 503 that *)
(* follows when compaction fails is AnswerItself.                            *)
CompactForFit ==
  /\ round.pc = "enter" /\ body.group /\ body.long /\ body.emergency = 0
  /\ \E b \in Compacted(body) : Again(b)

Gather ==
  /\ round.pc = "enter"
  /\ \E todo \in IF body.group THEN {Providers} ELSE {{p} : p \in Providers} :
       Stay([round EXCEPT !.pc = "pick", !.todo = todo])

(***************************************************************************)
(* The loop over the providers.                                            *)
(***************************************************************************)

(* the next provider of the list is skipped while it cools *)
Skip(p) ==
  /\ round.pc = "pick" /\ p \in round.todo
  /\ body.group \/ round.errs > 0
  /\ Stay([round EXCEPT !.todo = @ \ {p}])

(* An attempt is under way: at provider p, or the second one as a stream *)
Attempting(p) ==
  \/ round.pc = "pick" /\ p \in round.todo
  \/ round.pc = "fallback" /\ p \in round.now

(* the attempt answers the client: a stream, sendAsSSE or a plain response *)
Served(p) == Attempting(p) /\ Answer

(* The attempt fails.  A dirty one wrote the head and may have ended or      *)
(* destroyed the response.  Rerouting for a better assessed level is asked   *)
(* for at most twice; the timeout is that of a non-streaming try of a        *)
(* streaming request, and its late answer goes nowhere.  What the catch      *)
(* block does not look at by name goes on to be recorded.  Of what the       *)
(* second try throws only hidden continuation is looked at again.            *)
Fail(p, kind) ==
  /\ Attempting(p) /\ kind \in body.mix
  /\ kind = "reroute" => body.reroute < 2
  /\ kind = "timeout" => body.group /\ round.pc = "pick"
  /\ LET next == IF round.pc = "fallback"
                 THEN (IF kind = "continue" THEN "caught" ELSE "record")
                 ELSE (IF kind \in Named THEN "caught" ELSE "record")
         Failed(dirty) == [round EXCEPT !.pc = next, !.todo = @ \ {p},
                                        !.now = {p}, !.err = kind,
                                        !.dirty = dirty]
     IN \/ Stay(Failed(FALSE))
        \/ /\ kind \notin NeverDirty
           /\ \E c \in {Headed(client), Answered(client),
                        [Headed(client) EXCEPT !.gone = TRUE]} : client' = c
           /\ round' = Failed(TRUE)
           /\ UNCHANGED body

(***************************************************************************)
(* The catch block, in its order.                                          *)
(***************************************************************************)
Caught(kind) == round.pc = "caught" /\ round.err = kind

(* a local failure, a used-up model budget and a damaged task record leave  *)
(* the core; a terminal rejection is answered                               *)
CatchFatal ==
  \/ Caught("local") /\ Throw
  \/ Caught("budget") /\ Throw
  \/ Caught("terminal") /\ (IF round.dirty THEN EndQuietly ELSE Answer)

(* mutant: no ceiling over all providers *)
MayNudgeHere == body.hidden < MaxHidden

(* retryWithHiddenContinue: the request again with a hidden user message.    *)
(* Past the ceiling a larger total tells nothing more.                       *)
Ceiling  == 3 * MaxHidden
MayNudge == body.hidden < MaxHidden /\ body.total < Ceiling
Nudged   == [body EXCEPT !.hidden = @ + 1,
                         !.total = IF @ < Ceiling THEN @ + 1 ELSE @]

Nudge ==
  /\ Caught("continue")
  /\ MayNudge /\ Again(Nudged)

(* the limit is reached: text that reads like an answer is given as one, or  *)
(* the error is handled like any other.  The group path gives the next       *)
(* provider a clean budget.                                                  *)
NudgeLimit ==
  /\ Caught("continue")
  /\ ~MayNudge
  /\ \/ Answer
     \/ /\ round' = [round EXCEPT !.pc = "record"]
        /\ body' = [body EXCEPT !.hidden = IF body.group THEN 0 ELSE @]
        /\ UNCHANGED client

(* the provider asked for memories: recalled once per request *)
Recall ==
  /\ Caught("recall") /\ body.recall = 0
  /\ \/ Again([body EXCEPT !.recall = 1])
     \/ /\ body' = [body EXCEPT !.recall = 1]
        /\ round' = [round EXCEPT !.pc = "record"]
        /\ UNCHANGED client

(* only the group path starts again for an assessment marker *)
Reroute ==
  /\ Caught("reroute") /\ body.group
  /\ Again([body EXCEPT !.reroute = @ + 1])

(* the provider is marked stream-only and tried once more as a stream, when  *)
(* it speaks that protocol                                                   *)
StreamInstead ==
  /\ Caught("timeout")
  /\ \E pc \in {"fallback", "record"} : Stay([round EXCEPT !.pc = pc])

(* a second recall, and a marker on the direct path, are failures like others *)
CatchRest ==
  /\ \/ Caught("recall") /\ body.recall > 0
     \/ Caught("reroute") /\ ~body.group
  /\ Stay([round EXCEPT !.pc = "record"])

(* the head is out: no other provider can answer this request *)
EndDirty ==
  /\ round.pc = "record" /\ round.dirty
  /\ EndQuietly

(* mutant: the head that was sent is not looked at *)
CleanOrNot == round.pc = "record"

Clean == round.pc = "record" /\ ~round.dirty

(***************************************************************************)
(* A failure of the group path is noted, and the next provider follows.    *)
(***************************************************************************)
Noted ==
  [round EXCEPT !.pc = "pick", !.err = "none", !.now = {}, !.errs = @ + 1,
                !.ctx = @ + (IF round.err = "context" THEN 1 ELSE 0)]

RecordGroup ==
  /\ Clean /\ body.group
  /\ round' = Noted
  /\ body' \in {body} \union
       (IF round.err = "rate" /\ round.now \subseteq Claude
        THEN {[body EXCEPT !.cooled = TRUE]} ELSE {})
  /\ UNCHANGED client

(* compactMessagesAsync: it may fail, and leave few messages *)
Shorter(b) == {[b EXCEPT !.long = l] : l \in BOOLEAN}

(* the second context error: compact, and start again when that worked *)
MidCompact ==
  /\ Clean /\ body.group /\ round.err = "context" /\ Noted.ctx >= 2
  /\ body.mid < 2 /\ body.long
  /\ \/ \E b \in Shorter([body EXCEPT !.mid = @ + 1]) : Again(b)
     \/ /\ body' = [body EXCEPT !.mid = @ + 1]
        /\ round' = Noted /\ UNCHANGED client

(* every provider of the group failed *)
AllFailed == round.pc = "pick" /\ round.todo = {} /\ body.group

CohortCooled == body.cooled /\ body.cohort = 0

RetryCohort ==
  /\ AllFailed /\ CohortCooled
  /\ Again([body EXCEPT !.cohort = 1])

ContextProblem == 3 * round.ctx > round.errs

PostCompacting == [body EXCEPT !.post = @ + 1, !.mid = 0]

PostCompact ==
  /\ AllFailed /\ ~CohortCooled /\ ContextProblem /\ body.long /\ body.post < 2
  /\ \/ \E b \in Shorter(PostCompacting) : Again(b)
     \/ Answer

GiveUp ==
  /\ AllFailed /\ ~CohortCooled
  /\ ~(ContextProblem /\ body.long /\ body.post < 2)
  /\ Answer

(***************************************************************************)
(* The direct path: one provider for the model that was asked for.         *)
(***************************************************************************)
DirectOverflow ==
  /\ Clean /\ ~body.group /\ round.err = "context"
  /\ \/ body.emergency = 0 /\ body.long /\ \E b \in Compacted(body) : Again(b)
     \/ Answer

DirectNoted ==
  [round EXCEPT !.pc = "pick", !.err = "none", !.now = {}, !.errs = @ + 1,
                !.outage = @ \/ round.err \in {"rate", "outage"}]

(* equivalent Claude routes are appended once *)
RecordDirect ==
  /\ Clean /\ ~body.group /\ round.err # "context"
  /\ \/ round' = DirectNoted /\ UNCHANGED body
     \/ /\ round.err \in {"rate", "stall"} /\ round.now \subseteq Claude
        /\ body.direct = 0
        /\ \E more \in SUBSET (Claude \ round.now) :
             /\ more # {}
             /\ round' = [DirectNoted EXCEPT !.todo = more]
        /\ body' = [body EXCEPT !.direct = 1]
  /\ UNCHANGED client

DirectFailed == round.pc = "pick" /\ round.todo = {} /\ ~body.group

(* another model answers instead, when the one asked for is out of service *)
AnotherModel ==
  /\ DirectFailed /\ round.outage /\ body.model = 0 /\ ~body.internal
  /\ Again([body EXCEPT !.model = 1, !.group = TRUE])

DirectGiveUp == DirectFailed /\ Answer

Done == round.pc = "done" /\ UNCHANGED vars

Step ==
  \/ AnswerItself \/ CompactEarly \/ CompactForFit \/ Gather
  \/ \E p \in Providers : Skip(p) \/ Served(p)
  \/ \E p \in Providers, kind \in Failures : Fail(p, kind)
  \/ CatchFatal \/ Nudge \/ NudgeLimit \/ Recall \/ Reroute \/ StreamInstead
  \/ CatchRest \/ EndDirty
  \/ RecordGroup \/ MidCompact \/ RetryCohort \/ PostCompact \/ GiveUp
  \/ DirectOverflow \/ RecordDirect \/ AnotherModel \/ DirectGiveUp

Next == Step \/ Done

(* every await of a step settles: attempts are bounded by the transport's    *)
(* timeout and the stream watchdog                                           *)
Spec == Init /\ [][Next]_vars /\ WF_vars(Step)

-----------------------------------------------------------------------------
(* The head of the response is written once and nothing is written after its *)
(* end, whatever attempts, retries and guidance have touched the response.   *)
AnsweredOnce == client.head <= 1 /\ ~client.late

(* Once a provider's first byte went out no further provider is tried and    *)
(* the request does not start again: the client would get two answers mixed. *)
NoFailoverAfterFirstByte ==
  client.head > 0 => round.pc \in {"caught", "record", "done"}

(* Every request is answered or its connection is closed. *)
EveryRequestAnswered == <>(client.end \/ client.gone)
=============================================================================
