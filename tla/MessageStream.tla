---------------------------- MODULE MessageStream ----------------------------
(***************************************************************************)
(* AnthropicStreamResponse of lib/anthropic-gateway.js: what the proxy     *)
(* writes as chat completion chunks becomes the events of one Anthropic    *)
(* message.  Text may be held back while it looks like a private marker;   *)
(* tool calls are collected from fragments and from snapshots of the whole *)
(* message, and given out at the end.  The arguments of a call are its     *)
(* fragments, in order; every fragment tells the index of its call (one    *)
(* that does not is put down to its place in the chunk, line 787).         *)
(***************************************************************************)
EXTENDS Naturals, Sequences, FiniteSets, SequencesExt

CONSTANTS
  Calls,       \* the tool calls of the message; ids are the calls themselves
  MaxTexts     \* bound: the pieces of text

Fragments == <<"head", "tail">>
None == 0   \* no block, no index: both are counted from 1

VARIABLES
  given,     \* what was written: per call its index and fragments, snapshot
  res,       \* the translator: begun, held text, pending calls, finished
  out        \* the events the client got

vars == <<given, res, out>>

Init ==
  /\ given = [order |-> <<>>, sent |-> [c \in Calls |-> 0], whole |-> FALSE,
              texts |-> 0, reason |-> "none", over |-> FALSE]
  /\ res = [begun |-> FALSE, held |-> FALSE, text |-> None, next |-> 1,
            tools |-> {}, open |-> {}, finished |-> FALSE]
  /\ out = <<>>

Event(kind, index, what) == [kind |-> kind, index |-> index, what |-> what]

(* what a call of the translator changes: its state and the events it writes *)
Becomes(r, events) == res' = r /\ out' = out \o events

(***************************************************************************)
(* Blocks.                                                                 *)
(***************************************************************************)

(* _emitText: the first text opens the one text block *)
Texted(r, what) ==
  IF r.text = None
  THEN [r |-> [r EXCEPT !.text = r.next, !.next = @ + 1,
                        !.open = @ \union {r.next}],
        events |-> <<Event("open", r.next, "text"), Event("delta", r.next, <<what>>)>>]
  ELSE [r |-> r, events |-> <<Event("delta", r.text, <<what>>)>>]

Ascending(S) ==
  CHOOSE s \in SetToSeqs(S) : \A i, j \in DOMAIN s : i < j => s[i] < s[j]

(* _flushPendingTools: a call becomes a block, or text when it is not valid *)
Given(acc, t, valid) ==
  IF t.id \in valid
  THEN [r |-> [acc.r EXCEPT !.next = @ + 1, !.open = @ \union {acc.r.next}],
        events |-> acc.events \o
          <<Event("open", acc.r.next, t.id), Event("delta", acc.r.next, t.args)>>]
  ELSE LET e == Texted(acc.r, "help")
       IN [r |-> e.r, events |-> acc.events \o e.events]

ByKey(tools) ==
  LET keys == Ascending({t.key : t \in tools})
  IN [i \in DOMAIN keys |-> CHOOSE t \in tools : t.key = keys[i]]

Flush(r, valid) ==
  FoldLeft(LAMBDA acc, t : Given(acc, t, valid), [r |-> r, events |-> <<>>],
           ByKey(r.tools))

(* mutant: [DONE] and the end of the response each finish the message *)
FinishesAgain(r) == TRUE

MayFinish(r) == ~r.finished

(* _finish: held text, the calls, the end of every block, the reason *)
Closed(S) ==
  LET order == Ascending(S)
  IN [i \in DOMAIN order |-> Event("close", order[i], "")]

StopOf(reason, events) ==
  IF reason = "tool_use" /\ ~\E e \in ToSet(events) : e.what \in Calls
  THEN "end_turn" ELSE IF reason = "none" THEN "end_turn" ELSE reason

Finished(r, valid) ==
  LET t == IF r.held THEN Texted([r EXCEPT !.held = FALSE], "held")
           ELSE [r |-> r, events |-> <<>>]
      f == Flush(t.r, valid)
      before == t.events \o f.events
  IN IF MayFinish(r)
     THEN [r |-> [f.r EXCEPT !.tools = {}, !.open = {}, !.finished = TRUE],
           events |-> before \o Closed(f.r.open)
             \o <<Event("stop", None, StopOf(given.reason, before))>>]
     ELSE [r |-> r, events |-> <<>>]

(***************************************************************************)
(* What is written.                                                        *)
(***************************************************************************)
WriteHead ==
  /\ ~res.begun
  /\ Becomes([res EXCEPT !.begun = TRUE], <<Event("start", None, "")>>)
  /\ UNCHANGED given

Writing == res.begun /\ ~given.over

Text ==
  /\ Writing /\ ~given.whole /\ given.texts < MaxTexts
  /\ given' = [given EXCEPT !.texts = @ + 1]
  /\ \/ LET e == Texted([res EXCEPT !.held = FALSE], "text")
        IN Becomes(e.r, e.events)
     \/ Becomes([res EXCEPT !.held = TRUE], <<>>)

(* mutant: snapshots are matched by position *)
KeyByPosition(r, id, index, position) ==
  IF index # None THEN index ELSE position

(* _rememberToolDelta: by index, else by id, else by position *)
KeyOf(r, id, index, position) ==
  IF index # None THEN index
  ELSE IF \E t \in r.tools : t.id = id
  THEN (CHOOSE t \in r.tools : t.id = id).key
  ELSE position

Put(r, key, id, args) ==
  [r EXCEPT !.tools = {t \in @ : t.key # key}
                        \union {[key |-> key, id |-> id, args |-> args]}]

ArgsAt(r, key) ==
  LET at == {t \in r.tools : t.key = key}
  IN IF at = {} THEN <<>> ELSE (CHOOSE t \in at : TRUE).args

(* a fragment of a call: the calls' fragments may be mixed *)
Fragment(c) ==
  /\ Writing /\ ~given.whole /\ given.sent[c] < Len(Fragments)
  /\ LET order == IF c \in ToSet(given.order) THEN given.order
                  ELSE Append(given.order, c)
         index == CHOOSE i \in DOMAIN order : order[i] = c
         key   == KeyOf(res, c, index, index)
     IN /\ given' = [given EXCEPT !.order = order, !.sent[c] = @ + 1]
        /\ Becomes(Put(res, key, c,
                       Append(ArgsAt(res, key), Fragments[given.sent[c] + 1])),
                   <<>>)

Kept(r, order, i) == Put(r, KeyOf(r, order[i], None, i), order[i], Fragments)

(* choice.message: calls that were streamed, or calls if none was, in any    *)
(* order, whole and without index                                            *)
Snapshot ==
  /\ Writing /\ ~given.whole
  /\ \E S \in SUBSET (IF given.order = <<>> THEN Calls ELSE ToSet(given.order)) :
     \E order \in SetToSeqs(S) :
       /\ given' = [given EXCEPT !.whole = TRUE,
                      !.order = IF @ = <<>> THEN order ELSE @,
                      !.sent = [c \in Calls |-> IF c \in S THEN Len(Fragments) ELSE @[c]]]
       /\ Becomes(FoldLeft(LAMBDA r, i : Kept(r, order, i), res,
                           [i \in DOMAIN order |-> i]), <<>>)

FinishReason ==
  /\ Writing /\ given.reason = "none"
  /\ given' = [given EXCEPT !.reason = IF given.order = <<>> THEN "end_turn"
                                       ELSE "tool_use"]
  /\ UNCHANGED <<res, out>>

(* [DONE] *)
StreamDone ==
  /\ Writing
  /\ \E valid \in SUBSET Calls :
       LET f == Finished(res, valid) IN Becomes(f.r, f.events)
  /\ given' = [given EXCEPT !.over = TRUE]

(* end: of a stream with or without [DONE], also one that was broken off *)
End ==
  /\ res.begun /\ ~\E e \in ToSet(out) : e.kind = "end"
  /\ \E valid \in SUBSET Calls :
       LET f == Finished(res, valid)
       IN Becomes(f.r, Append(f.events, Event("end", None, "")))
  /\ given' = [given EXCEPT !.over = TRUE]

Ended == (\E e \in ToSet(out) : e.kind = "end") /\ UNCHANGED vars

Next ==
  \/ WriteHead \/ Text \/ Snapshot \/ FinishReason \/ StreamDone \/ End \/ Ended
  \/ \E c \in Calls : Fragment(c)

Spec == Init /\ [][Next]_vars

-----------------------------------------------------------------------------
Of(kind) == {i \in DOMAIN out : out[i].kind = kind}
Block(kind, n) == {i \in Of(kind) : out[i].index = n}

(* The client gets one well-formed message, however the answer came or broke *)
(* off: it starts once, every block that is opened is closed once and before *)
(* the one stop, what is added to a block comes in between, nothing follows  *)
(* the stop, and an ended message has one.                                   *)
WellFormed ==
  /\ \A i \in DOMAIN out : out[i].kind = "start" <=> i = 1
  /\ \A i \in Of("delta") :
       /\ \E j \in Block("open", out[i].index) : j < i
       /\ \A j \in Block("close", out[i].index) : i < j
  /\ \A i \in Of("stop") :
       /\ \A j \in DOMAIN out : j > i => out[j].kind = "end"
       /\ \A j \in Of("open") : Cardinality(Block("close", out[j].index)) = 1
       /\ \A j \in Of("close") : Cardinality(Block("open", out[j].index)) = 1
  /\ Of("end") # {} => Cardinality(Of("stop")) = 1

(* Every tool call of the answer is given once, with the arguments that were *)
(* sent for it, or explained when it is not valid, whatever mixture of       *)
(* fragments and snapshots it came in.                                       *)
CallsGivenOnce ==
  Of("stop") # {} =>
    LET helps == {i \in Of("delta") : out[i].what = <<"help">>}
        opens(c) == {i \in Of("open") : out[i].what = c}
    IN /\ Cardinality(helps) + Cardinality(UNION {opens(c) : c \in Calls})
            = Len(given.order)
       /\ \A c \in Calls : \A i \in opens(c) :
            /\ opens(c) = {i}
            /\ out[i + 1] = Event("delta", out[i].index,
                                  SubSeq(Fragments, 1, given.sent[c]))
=============================================================================
