------------------------------ MODULE Responses ------------------------------
(***************************************************************************)
(* The Responses API of lib/responses.js: one WebSocket session whose      *)
(* requests share a conversation and run at the same time, and requests    *)
(* over HTTP that continue a remembered response.  A message is the        *)
(* request it belongs to and what it is; instructions are left out.  An    *)
(* answer of text stands for one of tool calls, too: appendAssistantTo-    *)
(* History remembers one message of either (lines 1660-1674).              *)
(***************************************************************************)
EXTENDS Naturals, Sequences, SequencesExt, FiniteSets

CONSTANTS
  Requests,      \* numbered in the order they come
  Hosted,        \* requests of Codex with tools the proxy hosts itself
  Names,         \* task ids a client may name
  MaxMessages,   \* MAX_RESPONSE_HISTORY_MESSAGES
  MaxStored,     \* MAX_RESPONSE_HISTORY
  Mixes,         \* bound: how the requests of one behaviour come
  MaxItems,      \* bound: items created ahead of a request
  MaxSends       \* bound: events of one response that wait for the socket

VARIABLES
  session,       \* open, the conversation, the pending items, their number
  active,        \* the responses of the session that can be cancelled
  stored,        \* responseHistory, the oldest first
  call           \* per request: how far it is and what it knows

vars == <<session, active, stored, call>>

(* an instance of Mixes: one session, or requests over HTTP *)
Apart == {[q \in Requests |-> "ws"]} \union [Requests -> {"json", "sse"}]

None == [is |-> "none"]
Msg(q, kind) == [of |-> q, is |-> kind]

Coming(way) ==
           [pc |-> "idle", way |-> way, asked |-> <<>>, task |-> None,
            from |-> None, sends |-> 0, dead |-> FALSE, told |-> "nothing"]

Init ==
  /\ session = [open |-> TRUE, talk |-> <<>>, items |-> <<>>, made |-> 0]
  /\ active = {}
  /\ stored = <<>>
  /\ \E mix \in Mixes : call = [q \in Requests |-> Coming(mix[q])]

(***************************************************************************)
(* mergeHistory and trimStoredMessages keep the latest messages, and tool  *)
(* results may lose the call they answer.                                  *)
(***************************************************************************)
Latest(s) == IF Len(s) <= MaxMessages THEN s
             ELSE SubSeq(s, Len(s) - MaxMessages + 1, Len(s))

Merged(talk, new) == IF talk = <<>> THEN new ELSE Latest(talk \o new)

(***************************************************************************)
(* Which task a request belongs to: the one it names, else that of its     *)
(* conversation id, else the first message it holds (handle of             *)
(* lib/task-runtime.js, resolveTaskIdentity).  What is remembered of the   *)
(* previous response does not include its task.                            *)
(***************************************************************************)
TaskOf(name, way, asked) ==
  IF name # None THEN [is |-> "named", by |-> name]
  ELSE IF way = "ws" THEN [is |-> "session"]
  ELSE [is |-> "anchor", by |-> Head(asked)]

Name == {None} \union {[is |-> "name", id |-> n] : n \in Names}

Asked(q, talk, name, from) ==
  /\ call[q].pc = "idle" /\ \A r \in Requests : r < q => call[r].pc # "idle"
  /\ call' = [call EXCEPT ![q].pc = "asked", ![q].asked = talk,
                         ![q].from = from,
                         ![q].task = TaskOf(name, call[q].way, talk)]

(***************************************************************************)
(* The WebSocket session.                                                  *)
(***************************************************************************)

(* conversation.item.create *)
AddItem ==
  /\ session.open /\ session.made < MaxItems
  /\ session' = [session EXCEPT !.made = @ + 1,
                   !.items = Append(@, Msg(session.made + 1, "item"))]
  /\ UNCHANGED <<active, stored, call>>

(* mutant: the items stay for the next request as well *)
KeptItems(s) == s

TakenItems(s) == [s EXCEPT !.items = <<>>]

(* response.create: merged into the conversation before anything is awaited *)
Create(q) ==
  /\ session.open /\ call[q].way = "ws"
  /\ session' = [TakenItems(session) EXCEPT
       !.talk = Merged(@, Append(session.items, Msg(q, "input")))]
  /\ \E name \in Name : Asked(q, <<>>, name, None)
  /\ active' = active \union {q}
  /\ UNCHANGED stored

(* send: an event waits for the socket's callback; none is sent to a         *)
(* response that was cancelled or a socket that is closed                    *)
Sends(c) == IF c.dead \/ ~session.open THEN c ELSE [c EXCEPT !.sends = @ + 1]

Stream(q) ==
  /\ call[q].way = "ws" /\ call[q].pc = "asked" /\ call[q].sends < MaxSends
  /\ ~call[q].dead /\ session.open
  /\ call' = [call EXCEPT ![q] = Sends(@)]
  /\ UNCHANGED <<session, active, stored>>

(* finish: once the handler is through and every event is out *)
Over(c) == [Coming(c.way) EXCEPT !.pc = "over", !.told = c.told]

Finished(c) == IF c.pc = "returned" /\ c.sends = 0 THEN Over(c) ELSE c

(* mutant: finish only tells that the events are out *)
LeftCancelled(c) == c.dead /\ c.pc = "returned"

Left(c) == c.pc = "over" \/ (c.dead /\ c.pc = "returned")

Settle(q, c) ==
  /\ call' = [call EXCEPT ![q] = c]
  /\ active' = IF Left(c) THEN active \ {q} ELSE active
  /\ UNCHANGED <<session, stored>>

Sent(q) ==
  /\ call[q].sends > 0
  /\ \E dead \in {call[q].dead, TRUE} :
       Settle(q, Finished([call[q] EXCEPT !.sends = @ - 1, !.dead = dead]))

(* MockResponse.end.  A cancelled response may still be ended when the answer *)
(* was there already; what it says is kept in the conversation.               *)
Ended(c, what) ==
  [Sends(c) EXCEPT !.pc = "answered",
                   !.told = IF c.dead \/ ~session.open THEN @ ELSE what]

Answer(q) ==
  /\ call[q].way = "ws" /\ call[q].pc = "asked"
  /\ \E what \in {"text", "other"} :
       /\ call' = [call EXCEPT ![q] = Ended(@, what)]
       /\ session' = IF what = "text" /\ q \notin Hosted
                     THEN [session EXCEPT !.talk = Append(@, Msg(q, "answer"))]
                     ELSE session
  /\ UNCHANGED <<active, stored>>

(* the handler returns: after an answer, or without one when it was cancelled *)
Return(q) ==
  /\ call[q].way = "ws"
  /\ call[q].pc = "answered" \/ (call[q].pc = "asked" /\ call[q].dead)
  /\ Settle(q, Finished([call[q] EXCEPT !.pc = "returned"]))

(* response.cancel, and the socket that closes or fails *)
Destroyed(S) == [q \in Requests |-> IF q \in S THEN [call[q] EXCEPT !.dead = TRUE]
                                    ELSE call[q]]

Cancel ==
  /\ session.open /\ active # {}
  /\ call' = Destroyed(active)
  /\ UNCHANGED <<session, active, stored>>

Close ==
  /\ session.open
  /\ session' = [session EXCEPT !.open = FALSE]
  /\ call' = Destroyed(active) /\ active' = {}
  /\ UNCHANGED stored

(***************************************************************************)
(* HTTP.  A previous response is copied out of what is remembered; one     *)
(* that is not found begins a new conversation.                            *)
(***************************************************************************)
Entry(q) == CHOOSE e \in ToSet(stored) : e.id = q
Known    == {e.id : e \in ToSet(stored)}

(* mutant: the conversation is handed out itself *)
LentItself(q, new) ==
  [i \in DOMAIN stored |->
     IF stored[i].id = q
     THEN [stored[i] EXCEPT !.messages = Merged(@, new)] ELSE stored[i]]

(* what is remembered, after a request took it up: cloneMessages *)
AfterLending(q, new) == stored

Arrive(q) ==
  /\ call[q].way # "ws"
  /\ \E name \in Name :
       \/ \E r \in Known :
            /\ Asked(q, Merged(Entry(r).messages, <<Msg(q, "input")>>), name,
                     [is |-> "response", of |-> r])
            /\ stored' = AfterLending(r, <<Msg(q, "input")>>)
       \/ /\ Asked(q, <<Msg(q, "input")>>, name, None)
          /\ UNCHANGED stored
  /\ UNCHANGED <<session, active>>

(* rememberResponseHistory *)
Remembered(q, messages) ==
  LET all == Append(stored, [id |-> q, messages |-> Latest(messages),
                             task |-> call[q].task])
  IN IF Len(all) > MaxStored THEN Tail(all) ELSE all

(* the answer of a plain request is remembered when it is well; that of an   *)
(* event stream in any case, unless the client went away before its end, and *)
(* that of a hosted loop in neither way when it failed                       *)
Reply(q) ==
  /\ call[q].way # "ws" /\ call[q].pc = "asked"
  /\ \E what \in {"text", "empty", "error", "gone"} :
       /\ call' = [call EXCEPT ![q] = [Over(@) EXCEPT !.told = what]]
       /\ stored' = IF what = "gone"
                       \/ (what = "error" /\ (call[q].way = "json" \/ q \in Hosted))
                    THEN stored
                    ELSE Remembered(q, call[q].asked \o
                           IF what = "text" THEN <<Msg(q, "answer")>> ELSE <<>>)
  /\ UNCHANGED <<session, active>>

Done ==
  /\ \A q \in Requests : call[q].pc \in {"idle", "over"}
  /\ UNCHANGED vars

Next ==
  \/ AddItem \/ Cancel \/ Close
  \/ \E q \in Requests : Create(q) \/ Stream(q) \/ Sent(q)
  \/ \E q \in Requests : Answer(q) \/ Return(q) \/ Arrive(q) \/ Reply(q)
  \/ Done

(* chat requests are answered (ChatCompletion) and ws calls back every send *)
Fairness ==
  /\ WF_vars(\E q \in Requests : Answer(q))
  /\ WF_vars(\E q \in Requests : Return(q))
  /\ WF_vars(\E q \in Requests : Sent(q))

Spec == Init /\ [][Next]_vars /\ Fairness

-----------------------------------------------------------------------------
At(s, m) == {i \in DOMAIN s : s[i] = m}

(* A model that is asked on a session sees, unless the conversation was       *)
(* trimmed, every earlier answer the client was given in full, after the      *)
(* input it answers, and each of them, like each item, once.                  *)
Sees(s, r) ==
  \E i \in At(s, Msg(r, "input")), j \in At(s, Msg(r, "answer")) : i < j

TurnsRemembered ==
  [][\A q \in Requests :
       call[q].pc = "idle" /\ call'[q].pc = "asked" /\ call[q].way = "ws" =>
         LET s == session'.talk
         IN /\ IsInjective(s)
            /\ Len(s) < MaxMessages =>
                 \A r \in Requests \ Hosted :
                   call[r].way = "ws" /\ call[r].told = "text" => Sees(s, r)]_vars

(* The conversation of a response that is remembered never changes, though   *)
(* several requests may continue it at once.                                 *)
BranchesApart ==
  [][\A e \in ToSet(stored) : e.id \in {f.id : f \in ToSet(stored')}
       => e \in ToSet(stored')]_vars

(* No response of a session stays among those that can be cancelled, with    *)
(* its events retained, when its request is through: a session whose client  *)
(* makes no further request comes to hold none.                              *)
ResponsesForgotten == []<>(active = {})

(* A request that continues a response belongs to the task of that response, *)
(* unless the client names another.                                          *)
ResumedInTask ==
  [][\A q \in Requests, r \in Known :
       call[q].pc = "idle" /\ call'[q].from = [is |-> "response", of |-> r] =>
         call'[q].task = Entry(r).task \/ call'[q].task.is = "named"]_vars
=============================================================================
