--------------------------- MODULE ProviderStream ---------------------------
(***************************************************************************)
(* routeStreamToProviderImpl of lib/routing.js: an answer that a provider  *)
(* streams is held back until it looks sound, then let through chunk by    *)
(* chunk.  The chunks are those of the network: what each holds is its     *)
(* kind, and the nth chunk is the number n wherever its text goes.  No     *)
(* character is split between two (chunk.toString at line 7910 would spoil *)
(* it).                                                                    *)
(***************************************************************************)
EXTENDS Naturals, Sequences

CONSTANTS
  ChunkKinds,   \* the kinds of chunk the provider sends
  FlushAfter,   \* chunks with data before the first flush
  Terminated,   \* the stream ends with [DONE] in a chunk of its own
  MaxChunks     \* bound: the chunks of one answer

AllKinds == {"text", "bare", "tool", "call", "badcall", "telemetry", "mixed",
             "marker", "recall", "done"}

VARIABLES
  wire,      \* the provider's side: how many chunks came, and how it stands
  hold,      \* what was heard: data chunks, tools, text in the filter, buffer
  promise,   \* what became of the attempt
  client     \* the client's response and the chunks written to it

vars == <<wire, hold, promise, client>>

Init ==
  /\ wire = [state |-> "open", came |-> 0, done |-> FALSE]
  /\ hold = [data |-> 0, tools |-> "none", carried |-> <<>>, buffer |-> <<>>,
             heard |-> <<>>, blank |-> FALSE, mute |-> FALSE,
             rejected |-> FALSE]
  /\ promise = "running"
  /\ client = [head |-> FALSE, shut |-> FALSE, out |-> <<>>, made |-> FALSE]

(***************************************************************************)
(* Settling.  A promise settles once, whatever is called later.            *)
(***************************************************************************)
Settle(outcome) == IF promise = "running" THEN outcome ELSE promise

Reject ==
  /\ promise' = Settle(IF client.head THEN "broken" ELSE "refused")
  /\ UNCHANGED client

(* sendAsSSE writes an answer the proxy put together *)
ServeMade ==
  /\ promise' = Settle("served")
  /\ client' = [client EXCEPT !.head = TRUE, !.shut = TRUE, !.made = TRUE]

(* rejectInvalidStreamToolCall *)
RejectCall ==
  IF client.head
  THEN promise' = Settle("broken") /\ client' = [client EXCEPT !.shut = TRUE]
  ELSE promise' = Settle("refused") /\ UNCHANGED client

(***************************************************************************)
(* A chunk comes.  createStreamDifficultyMarkerFilter strips markers and   *)
(* may carry text over to a later chunk; what is left of such a chunk is a *)
(* blank line.                                                             *)
(***************************************************************************)
Carry(n) ==
  /\ hold' = [hold EXCEPT !.carried = Append(@, n), !.heard = Append(@, n),
                          !.blank = TRUE]
  /\ UNCHANGED <<promise, client>>

Strip ==
  /\ hold' = [hold EXCEPT !.blank = TRUE]
  /\ UNCHANGED <<promise, client>>

HasText(kind) == kind \in {"text", "mixed"}

(* the text that leaves the filter with this chunk *)
Given(kind, n) ==
  CASE HasText(kind) -> Append(hold.carried, n)
    [] kind \in {"call", "badcall", "done"} -> hold.carried
    [] OTHER -> <<>>

Counted(h) == [h EXCEPT !.data = IF @ < FlushAfter THEN @ + 1 ELSE @]

(* createStreamToolCallAccumulator: a call is pending until it is whole *)
ToolsAfter(kind) ==
  CASE kind = "tool" -> "pending"
    [] kind = "call" -> "whole"
    [] OTHER         -> hold.tools

Heard(kind, n) ==
  [(IF kind = "done" THEN hold ELSE Counted(hold)) EXCEPT
     !.tools = ToolsAfter(kind),
     !.carried = IF Given(kind, n) = <<>> THEN @ ELSE <<>>,
     !.heard = IF HasText(kind) THEN Append(@, n) ELSE @]

(* mutant: the provider is cut off, and nobody is told *)
RecalledSilently ==
  /\ hold' = [hold EXCEPT !.mute = TRUE, !.rejected = TRUE]
  /\ UNCHANGED <<promise, client>> /\ wire' = [wire EXCEPT !.state = "cut"]

(* the provider asks for memories before anything was flushed *)
Recalled ==
  /\ hold' = [hold EXCEPT !.mute = TRUE, !.rejected = TRUE]
  /\ Reject /\ wire' = [wire EXCEPT !.state = "cut"]

(* a whole call that is not valid; after a flush the provider is not cut off *)
BadCall(n) ==
  /\ hold' = [Heard("badcall", n) EXCEPT !.mute = TRUE, !.rejected = TRUE]
  /\ IF hold.rejected THEN UNCHANGED <<promise, client>> ELSE RejectCall
  /\ wire' = [wire EXCEPT !.came = n,
                          !.state = IF client.head THEN @ ELSE "cut"]

(* isStreamingTelemetryChunk looks at the first event of a chunk *)
Dropped(kind) == kind \in {"telemetry", "mixed"}

MayFlush(h) == h.data >= FlushAfter /\ h.tools = "none"

Buffered(h, text) == [h EXCEPT !.buffer = @ \o text, !.blank = TRUE]

Flushed(c, h) == [c EXCEPT !.head = TRUE, !.out = @ \o h.buffer]

(* mutant: the chunk that opens the flush is sent, those held before are not *)
DeliverThis(kind, n) ==
  LET text == Given(kind, n)
      h    == Heard(kind, n)
  IN IF hold.mute \/ Dropped(kind)
     THEN hold' = h /\ UNCHANGED client
     ELSE \/ /\ client.head \/ MayFlush(h)
             /\ hold' = h
             /\ client' = [client EXCEPT !.head = TRUE, !.out = @ \o text]
          \/ ~client.head /\ hold' = Buffered(h, text) /\ UNCHANGED client

(* The hold on text that may turn out to be a stall, or an imitated tool     *)
(* call, is a choice.                                                        *)
Deliver(kind, n) ==
  LET text == Given(kind, n)
      h    == Heard(kind, n)
  IN IF hold.mute \/ Dropped(kind)
     THEN hold' = h /\ UNCHANGED client
     ELSE IF client.head
     THEN hold' = h /\ client' = [client EXCEPT !.out = @ \o text]
     ELSE \/ hold' = Buffered(h, text) /\ UNCHANGED client
          \/ /\ MayFlush(h)
             /\ hold' = [h EXCEPT !.buffer = <<>>]
             /\ client' = Flushed(client, Buffered(h, text))

Chunk(kind) ==
  /\ wire.state = "open" /\ wire.came < MaxChunks /\ ~wire.done
  /\ LET n     == wire.came + 1
         after == [wire EXCEPT !.came = n, !.done = kind = "done"]
         late  == client.head \/ hold.rejected
     IN \/ kind = "recall" /\ ~late /\ Recalled
        \/ kind = "badcall" /\ BadCall(n)
        \/ /\ \/ kind = "marker"
              \/ kind = "recall" /\ late
           /\ Strip /\ wire' = after
        \/ HasText(kind) /\ Carry(n) /\ wire' = after
        \/ /\ kind \notin {"recall", "badcall", "marker"}
           /\ Deliver(kind, n) /\ wire' = after /\ UNCHANGED promise

(* a text that repeats itself is broken off: the response is closed if it    *)
(* was begun, and the provider's connection is cut                           *)
LoopAbort ==
  /\ wire.state = "open" /\ ~hold.mute /\ hold.data >= FlushAfter
  /\ hold' = [hold EXCEPT !.mute = TRUE]
  /\ client' = IF client.head THEN [client EXCEPT !.shut = TRUE] ELSE client
  /\ wire' = [wire EXCEPT !.state = "cut"]
  /\ UNCHANGED promise

(***************************************************************************)
(* The provider's answer ends.  After a cut this can still be, when all of *)
(* it had come.                                                            *)
(***************************************************************************)
Ending == wire.state # "closed" /\ wire' = [wire EXCEPT !.state = "closed"]

(* the text the filter still carried is given on *)
Tailed ==
  IF hold.carried = <<>> THEN hold
  ELSE [Counted(hold) EXCEPT !.carried = <<>>,
          !.buffer = IF client.head THEN @ ELSE @ \o hold.carried,
          !.blank = TRUE]

(* what is left in the buffer is flushed; with nothing in it the client is   *)
(* not answered, and the attempt counts as served                            *)
ServeHeld ==
  /\ promise' = Settle("served")
  /\ client' = IF Tailed.blank THEN [Flushed(client, Tailed) EXCEPT !.shut = TRUE]
               ELSE client

ServeRest ==
  /\ promise' = Settle("served")
  /\ client' = [client EXCEPT !.shut = TRUE, !.out = @ \o hold.carried]

EndWithCalls ==
  /\ hold.tools # "none"
  /\ \/ hold.tools = "pending" /\ RejectCall
     \/ ~client.head /\ ServeMade
     \/ client.head /\ ServeRest

(* An empty stream, and a single chunk that says too little, refuse.  Stalls, *)
(* artifacts, imitated tool calls and missing required tools may refuse any   *)
(* text held to the end, or have it answered in the proxy's words.            *)
EndWithText ==
  /\ hold.tools = "none"
  /\ \/ client.head /\ ServeRest
     \/ ~client.head /\ Reject
     \/ ~client.head /\ Tailed.data > 0 /\ Tailed.buffer # <<>> /\ ServeMade
     \/ /\ ~client.head
        /\ Tailed.data > 1 \/ (Tailed.data = 1 /\ Tailed.buffer # <<>>)
        /\ ServeHeld

EndJudged ==
  /\ wire.done \/ ~Terminated
  /\ hold' = [Tailed EXCEPT !.buffer = <<>>]
  /\ EndWithCalls \/ EndWithText

EndRejected == hold.rejected /\ UNCHANGED <<hold, promise, client>>

End ==
  /\ Ending
  /\ \/ EndRejected
     \/ ~hold.rejected /\ EndJudged

(* mutant: a broken connection counts as refused whatever was written *)
FailUnlooked == Ending /\ UNCHANGED <<hold, client>> /\ promise' = Settle("refused")

(* the transport fails: broken off, timed out, too large, the client is gone *)
Fail ==
  /\ Ending /\ UNCHANGED hold
  /\ promise' = Settle(IF client.head THEN "broken" ELSE "refused")
  /\ client' \in {client} \union
       (IF client.head THEN {[client EXCEPT !.shut = TRUE]} ELSE {})

Settled == wire.state = "closed" /\ UNCHANGED vars

Next ==
  \/ \E kind \in ChunkKinds : Chunk(kind)
  \/ LoopAbort \/ End \/ Fail \/ Settled

(* the response limit bounds what a provider can send, and the watchdog and  *)
(* the timeouts cut a connection that is silent                              *)
Spec == Init /\ [][Next]_vars /\ WF_vars(End \/ Fail)

-----------------------------------------------------------------------------
(* An attempt by stream keeps the promise of Attempt: in particular nothing  *)
(* that comes late touches the response of a request that went on to another *)
(* provider, and an attempt that counts as served has answered.              *)
A == INSTANCE Attempt WITH outcome <- promise, touched <- client.head,
                           closed <- client.shut

KeepsPromise == A!Spec

(* Every attempt settles: no order of chunks, rejections and cuts leaves the *)
(* request waiting for a provider.                                           *)
AttemptSettles == A!Settles

(* What the client gets is what the provider sent, from its beginning, in    *)
(* order and without gaps, however long it was held back; a stream that was  *)
(* served to its end, in the provider's words, is complete.                  *)
Prefix(s, t) == Len(s) <= Len(t) /\ s = SubSeq(t, 1, Len(s))

NothingLost ==
  /\ Prefix(client.out, hold.heard)
  /\ promise = "served" /\ ~client.made /\ ~hold.mute
       => client.out = hold.heard
=============================================================================
