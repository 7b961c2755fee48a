--------------------------- MODULE ResponseStream ---------------------------
(***************************************************************************)
(* MockResponse of lib/responses.js: the chunks of a chat completion       *)
(* become the events of one response.  Text is held back while it looks    *)
(* like a private marker, and for Codex until it is known that no tool is  *)
(* called; arguments of a call are its fragments, in order.  What the      *)
(* response said is remembered for the conversation.                       *)
(***************************************************************************)
EXTENDS Naturals, Sequences, FiniteSets, SequencesExt

CONSTANTS
  Calls,       \* ids of tool calls
  KindSets,    \* bound: which call is a function, a custom or a virtual one
  MaxTexts     \* bound: the pieces of text

Fragments == <<"head", "tail">>
Discovery == <<"discovery">>   \* the arguments a virtual call is given

VARIABLES
  given,       \* what was written
  mock,        \* the translator
  out,         \* the events the client got
  history      \* what the conversation remembers of the answer

vars == <<given, mock, out, history>>

Init ==
  /\ \E codex \in BOOLEAN, kinds \in KindSets :
       /\ ~codex => \A c \in Calls : kinds[c] # "virtual"
       /\ given = [codex |-> codex, kind |-> kinds, order |-> <<>>,
                   sent |-> [c \in Calls |-> 0], texts |-> 0, reason |-> "none"]
  /\ mock = [status |-> "none", said |-> <<>>, deferred |-> <<>>, held |-> <<>>,
             calls |-> <<>>, ended |-> FALSE]
  /\ out = <<>>
  /\ history = <<>>

Event(kind, item, index, what) ==
  [kind |-> kind, item |-> item, index |-> index, what |-> what]

(* steps of the translator pass on its state and the events so far *)
Step(m, events) == [m |-> m, events |-> events]

Becomes(step) == mock' = step.m /\ out' = out \o step.events

Saw(m) == m.calls # <<>>

(***************************************************************************)
(* Text.                                                                   *)
(***************************************************************************)

(* _emitText: the first text opens the message, always at index 0 *)
Emit(step, text) ==
  LET opened == IF step.m.said = <<>>
                THEN <<Event("added", "message", 0, <<>>)>> ELSE <<>>
  IN IF text = <<>> THEN step
     ELSE Step([step.m EXCEPT !.said = @ \o text],
               step.events \o opened \o <<Event("delta", "message", 0, text)>>)

(* mutant: what was held back stays, to be sent again *)
FlushAgain(step, text) == Emit(step, step.m.held \o text)

(* _emitSanitizedText with a flush *)
Flush(step, text) ==
  Emit(Step([step.m EXCEPT !.held = <<>>], step.events), step.m.held \o text)

(* and without: what may be the beginning of a marker stays *)
Sanitized(step, text) ==
  LET all == step.m.held \o text
  IN {Emit(Step([step.m EXCEPT !.held = SubSeq(all, n + 1, Len(all))], step.events),
           SubSeq(all, 1, n)) : n \in 0..Len(all)}

(* what Codex was not shown yet: dropped when a tool is called *)
Undeferred(step) ==
  LET empty == Step([step.m EXCEPT !.deferred = <<>>], step.events)
  IN IF Saw(step.m) THEN empty ELSE Flush(empty, step.m.deferred)

(***************************************************************************)
(* Tool calls.                                                             *)
(***************************************************************************)
Position(c) == CHOOSE i \in DOMAIN given'.order : given'.order[i] = c

(* mutant: the index of a call leaves no room for the message *)
IndexAlone(m, position) == position - 1

(* calls are numbered after the message, if there is one by now *)
OutputIndex(m, position) ==
  position - 1 + (IF m.said # <<>> THEN 1 ELSE 0)

(* _handleToolDeltas: the arguments of a virtual call are replaced, and those *)
(* of a custom call are not streamed                                          *)
ToolDelta(m, c, fragment) ==
  LET i    == Position(c)
      kind == given.kind[c]
      new  == [id |-> c, index |-> OutputIndex(m, i), done |-> FALSE,
               args |-> IF kind = "virtual" THEN Discovery ELSE <<>>]
      entry == IF i \in DOMAIN m.calls THEN m.calls[i] ELSE new
      calls == IF i \in DOMAIN m.calls THEN m.calls ELSE Append(m.calls, new)
      added == IF i \in DOMAIN m.calls THEN <<>>
               ELSE <<Event("added", c, new.index, <<>>)>>
  IN Step([m EXCEPT !.calls = IF kind = "virtual" THEN calls
                    ELSE [calls EXCEPT ![i].args = Append(@, fragment)]],
          IF kind = "function"
          THEN Append(added, Event("delta", c, entry.index, <<fragment>>))
          ELSE added)

IsDone(call) == call.done

(* _finalizeToolCalls *)
DoneEvents(calls) ==
  FoldLeft(LAMBDA acc, e : IF IsDone(e) THEN acc
                           ELSE Append(acc, Event("done", e.id, e.index, e.args)),
           <<>>, calls)

Finalized(step) ==
  Step([step.m EXCEPT !.calls = [i \in DOMAIN @ |-> [@[i] EXCEPT !.done = TRUE]]],
       step.events \o DoneEvents(step.m.calls))

(***************************************************************************)
(* What is written.                                                        *)
(***************************************************************************)
WriteHead ==
  /\ mock.status = "none" /\ ~mock.ended
  /\ \/ Becomes(Step([mock EXCEPT !.status = "ok"],
                     <<Event("created", "response", 0, <<>>)>>))
     \/ Becomes(Step([mock EXCEPT !.status = "error"], <<>>))
  /\ UNCHANGED <<given, history>>

Streaming == mock.status = "ok" /\ ~mock.ended /\ given.reason = "none"

Text ==
  /\ Streaming /\ given.texts < MaxTexts
  /\ given' = [given EXCEPT !.texts = @ + 1]
  /\ LET text == <<given'.texts>>
     IN IF given.codex
        THEN Becomes(Step([mock EXCEPT !.deferred = @ \o text], <<>>))
        ELSE \E step \in Sanitized(Step(mock, <<>>), text) : Becomes(step)
  /\ UNCHANGED history

Fragment(c) ==
  /\ Streaming /\ given.sent[c] < Len(Fragments)
  /\ given' = [given EXCEPT !.sent[c] = @ + 1,
                 !.order = IF c \in ToSet(@) THEN @ ELSE Append(@, c)]
  /\ Becomes(ToolDelta(mock, c, Fragments[given'.sent[c]]))
  /\ UNCHANGED history

Flushed(step) ==
  Flush(IF given.codex THEN Undeferred(step) ELSE step, <<>>)

(* _handleFinish: the message is done only for these two reasons *)
MessageDone(step) ==
  IF given'.reason \in {"stop", "tool_calls"} /\ step.m.said # <<>>
  THEN Step(step.m, Append(step.events, Event("done", "message", 0, step.m.said)))
  ELSE step

Finish ==
  /\ Streaming
  /\ \E reason \in IF given.order = <<>> THEN {"stop", "length"}
                   ELSE {"stop", "tool_calls"} :
       given' = [given EXCEPT !.reason = reason]
  /\ Becomes(Finalized(MessageDone(Flushed(Step(mock, <<>>)))))
  /\ UNCHANGED history

(* [DONE]: text that is deferred waits for the end unless a tool was called *)
StreamDone ==
  /\ mock.status = "ok" /\ ~mock.ended
  /\ LET kept == IF Saw(mock) THEN [mock EXCEPT !.deferred = <<>>] ELSE mock
     IN Becomes(Finalized(Flush(Step(kept, <<>>), <<>>)))
  /\ given' = [given EXCEPT !.reason = IF @ = "none" THEN "over" ELSE @]
  /\ UNCHANGED history

(* appendAssistantToHistory *)
Turn(m) ==
  LET calls == [i \in DOMAIN m.calls |-> [id |-> m.calls[i].id, args |-> m.calls[i].args]]
      text  == IF Saw(m) /\ given.codex THEN <<>> ELSE m.said
  IN IF calls # <<>> \/ text # <<>>
     THEN <<[text |-> text, calls |-> calls]>> ELSE <<>>

(* end, after the answer or where it broke off; a second end does nothing *)
End ==
  /\ mock.status # "none" /\ ~mock.ended
  /\ LET step == IF mock.status = "error"
                 THEN Step(mock, <<Event("error", "response", 0, <<>>)>>)
                 ELSE LET f == Finalized(Flushed(Step(mock, <<>>)))
                      IN Step(f.m, Append(f.events,
                           Event("completed", "response", 0,
                                 [text |-> f.m.said, calls |-> f.m.calls])))
     IN /\ Becomes(Step([step.m EXCEPT !.ended = TRUE], step.events))
        /\ history' = Turn(step.m)
  /\ UNCHANGED given

Ended == mock.ended /\ UNCHANGED vars

Next ==
  \/ WriteHead \/ Text \/ Finish \/ StreamDone \/ End \/ Ended
  \/ \E c \in Calls : Fragment(c)

Spec == Init /\ [][Next]_vars

-----------------------------------------------------------------------------
Of(kind)   == {i \in DOMAIN out : out[i].kind = kind}
About(item) == {i \in DOMAIN out : out[i].item = item}
Items       == {out[i].item : i \in Of("added")}

(* The events of a response are in order, however the answer ended: it is    *)
(* created first; an item is added once, then come its deltas, and it is     *)
(* done at most once; all its events carry its index, which is no other      *)
(* item's (responses.test.js:1052) unless text begins after a call; when the *)
(* response is completed, last and once, every call is done, and so is the   *)
(* message if a reason said so.                                              *)
EventsInOrder ==
  /\ out # <<>> => Of("created") \union Of("error") = {1}
  /\ \A item \in Items :
       /\ Cardinality(About(item) \cap Of("added")) = 1
       /\ Cardinality(About(item) \cap Of("done")) <= 1
       /\ \A i, j \in About(item) :
            /\ out[i].index = out[j].index
            /\ i < j => out[j].kind # "added" /\ out[i].kind # "done"
  /\ \A i, j \in Of("added") :
       i < j /\ out[j].item # "message" => out[i].index # out[j].index
  /\ given.codex => \A i, j \in Of("added") : i # j => out[i].index # out[j].index
  /\ mock.ended => Of("completed") \union Of("error") = {Len(out)}
  /\ Of("completed") # {} =>
       \A item \in Items : About(item) \cap Of("done") # {}
         \/ (item = "message" /\ given.reason \notin {"stop", "tool_calls"})

Deltas(item) ==
  FoldLeft(LAMBDA acc, e : IF e.item = item /\ e.kind = "delta"
                           THEN acc \o e.what ELSE acc, <<>>, out)

(* A completed response holds what was written: all the text, except that    *)
(* Codex is shown none beside a call, and every call once with its arguments;*)
(* the deltas add up to it, and the conversation remembers the same.         *)
ResponseComplete ==
  \A i \in Of("completed") :
    LET said  == out[i].what.text
        calls == out[i].what.calls
        all   == [n \in 1..given.texts |-> n]
    IN /\ said = IF given.codex /\ given.order # <<>> THEN <<>> ELSE all
       /\ Deltas("message") = said
       /\ [n \in DOMAIN calls |-> calls[n].id] = given.order
       /\ \A n \in DOMAIN calls :
            LET kind == given.kind[calls[n].id]
            IN /\ calls[n].args = IF kind = "virtual" THEN Discovery
                                  ELSE SubSeq(Fragments, 1, given.sent[calls[n].id])
               /\ kind = "function" => Deltas(calls[n].id) = calls[n].args
       /\ history = IF said = <<>> /\ calls = <<>> THEN <<>>
                    ELSE <<[text |-> said, calls |-> [n \in DOMAIN calls |->
                              [id |-> calls[n].id, args |-> calls[n].args]]]>>
=============================================================================
