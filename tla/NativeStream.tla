---------------------------- MODULE NativeStream ----------------------------
(***************************************************************************)
(* routeNativeStreamToProviderImpl of lib/routing.js: the same promise as  *)
(* ProviderStream's for providers that speak a protocol of their own.  The *)
(* adapter hands over chunks and returns, or throws.  When the request     *)
(* offers tools, nothing but tool calls goes out before the end.           *)
(***************************************************************************)
EXTENDS Naturals, Sequences

CONSTANT
  MaxChunks     \* bound: the chunks of one answer

Kinds == {"text", "tool", "call", "badcall", "blank"}

VARIABLES
  came,      \* how many chunks came
  hold,      \* what was heard and held back, and whether the request offers tools
  promise,   \* what became of the attempt
  client     \* the client's response and the text written to it

vars == <<came, hold, promise, client>>

Init ==
  /\ came = 0
  /\ \E offers \in BOOLEAN :
       hold = [tools |-> "none", useful |-> FALSE, carried |-> <<>>, buffer |-> <<>>,
               kept |-> FALSE, heard |-> <<>>, offers |-> offers]
  /\ promise = "running"
  /\ client = [head |-> FALSE, shut |-> FALSE, out |-> <<>>, made |-> FALSE]

(***************************************************************************)
(* processFilteredNativeChunk, without its error.  Whether text reads as   *)
(* useful is a choice; it stays useful.                                    *)
(***************************************************************************)
ToolsAfter(kind) ==
  CASE kind = "tool" -> "pending"
    [] kind = "call" -> "whole"
    [] OTHER         -> hold.tools

Taken(kind, text) ==
  {[hold EXCEPT !.tools = ToolsAfter(kind), !.carried = <<>>,
                !.useful = useful, !.buffer = @ \o text, !.kept = TRUE] :
     useful \in IF kind \in {"tool", "call"} \/ hold.useful THEN {TRUE}
                ELSE IF text # <<>> THEN BOOLEAN ELSE {FALSE}}

(* a call that is pending, or that the proxy will put differently, is held *)
MayFlush(h) ==
  /\ h.useful /\ h.tools # "pending"
  /\ ~h.offers \/ h.tools # "none"

Emptied(h) == [h EXCEPT !.buffer = <<>>, !.kept = FALSE]
Flushed(h) == [client EXCEPT !.head = TRUE, !.out = @ \o h.buffer]

Process(kind, text) ==
  UNION {{<<Emptied(h), Flushed(h)>> : f \in
            IF client.head \/ MayFlush(h) THEN {1} ELSE {}}
         \union
         {<<h, client>> : f \in
            IF client.head \/ (MayFlush(h) /\ h.tools = "none") THEN {} ELSE {1}}
         : h \in Taken(kind, text)}

(***************************************************************************)
(* The adapter hands over a chunk; the filter may carry its text.          *)
(***************************************************************************)
Heard(h, kind, n) ==
  [h EXCEPT !.heard = IF kind = "text" THEN Append(@, n) ELSE @]

Given(kind, n) ==
  CASE kind = "text" -> Append(hold.carried, n)
    [] kind = "call" -> hold.carried
    [] OTHER         -> <<>>

Running == promise = "running"

Chunk(kind) ==
  /\ Running /\ came < MaxChunks /\ kind # "badcall"
  /\ came' = came + 1 /\ UNCHANGED promise
  /\ \/ /\ kind = "text"
        /\ hold' = [Heard(hold, kind, came') EXCEPT
                      !.carried = Append(@, came'), !.kept = TRUE]
        /\ UNCHANGED client
     \/ \E r \in Process(kind, Given(kind, came')) :
          /\ hold' = [Heard(r[1], kind, came') EXCEPT
                        !.carried = IF Given(kind, came') = <<>>
                                    THEN hold.carried ELSE <<>>]
          /\ client' = r[2]

(***************************************************************************)
(* The catch block.  A response that was begun is ended with [DONE], or    *)
(* destroyed when the failure is the proxy's own or the answer too large.  *)
(***************************************************************************)
Throw ==
  /\ promise' = IF client.head THEN "broken" ELSE "refused"
  /\ client' = [client EXCEPT !.shut = client.head]

BadCall == Running /\ came < MaxChunks /\ Throw /\ UNCHANGED <<came, hold>>

Fail == Running /\ Throw /\ UNCHANGED <<came, hold>>

(***************************************************************************)
(* The adapter returns: the carried text goes the way of a chunk, open     *)
(* calls are validated, and what was held is judged.                       *)
(***************************************************************************)
Outcomes == IF hold.carried = <<>> THEN {<<hold, client>>}
            ELSE Process("text", hold.carried)

Refuse(r) == promise' = "refused" /\ client' = r[2]

Made(r) ==
  /\ promise' = "served"
  /\ client' = [r[2] EXCEPT !.head = TRUE, !.shut = TRUE, !.made = TRUE]

Rest(r) ==
  /\ promise' = "served"
  /\ client' = [r[2] EXCEPT !.head = TRUE, !.shut = TRUE,
                            !.out = @ \o r[1].buffer]

(* artifacts, imitated tool calls and stalls concern text that was held to   *)
(* the end; an answer without anything useful is refused                     *)
End ==
  /\ Running
  /\ \E r \in Outcomes :
       \/ r[2].head /\ Rest(r)
       \/ ~r[2].head /\ r[1].tools = "none" /\ (Refuse(r) \/ Made(r))
       \/ ~r[2].head /\ r[1].tools = "none" /\ r[1].useful /\ Rest(r)
       \/ ~r[2].head /\ r[1].tools # "none" /\ Made(r)
  /\ hold' = [Emptied(hold) EXCEPT !.carried = <<>>]
  /\ UNCHANGED came

(* an open call that is not valid in the end is an error after the tail *)
EndBadCall ==
  /\ Running /\ hold.tools = "pending" /\ Throw
  /\ UNCHANGED <<came, hold>>

Settled == ~Running /\ UNCHANGED vars

Next ==
  \/ \E kind \in Kinds : Chunk(kind)
  \/ BadCall \/ Fail \/ End \/ EndBadCall \/ Settled

(* an adapter returns or throws: its requests have timeouts *)
Spec == Init /\ [][Next]_vars /\ WF_vars(End \/ Fail)

-----------------------------------------------------------------------------
(* An attempt by native stream keeps the promise of Attempt as well. *)
A == INSTANCE Attempt WITH outcome <- promise, touched <- client.head,
                           closed <- client.shut

KeepsPromise == A!Spec

(* Every native attempt settles, whether its adapter returns or throws.      *)
AttemptSettles == A!Settles

Prefix(s, t) == Len(s) <= Len(t) /\ s = SubSeq(t, 1, Len(s))

(* The client gets what the provider wrote, in order and without gaps, and   *)
(* all of it when the attempt was served in the provider's words.            *)
NothingLost ==
  /\ Prefix(client.out, hold.heard)
  /\ promise = "served" /\ ~client.made => client.out = hold.heard
=============================================================================
