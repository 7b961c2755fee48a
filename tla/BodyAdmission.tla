--------------------------- MODULE BodyAdmission ---------------------------
(***************************************************************************)
(* Admission of request bodies (lib/http-body.js): a slot and the bytes a  *)
(* body keeps in memory are lent to a request and given back by whichever  *)
(* comes first, the handler's failure, the end of its response or the loss *)
(* of the connection.  A buffered request is read whole and then handled   *)
(* (llm-proxy.js); one passed through is written on as it arrives and      *)
(* keeps its bytes only until each write is done (codex-passthrough.js).   *)
(***************************************************************************)
EXTENDS Naturals, FiniteSets, FiniteSetsExt

CONSTANTS
  Requests,
  MaxInflight,   \* maxInflightRequests
  MaxRetained,   \* maxInflightBodyBytes, in chunks
  MaxBody        \* maxBytes of one body, in chunks

VARIABLES
  inflight,      \* inflightRequests
  retainedBytes, \* retainedBodyBytes
  req            \* per request: how far it is and its lease

bodyVars == <<inflight, retainedBytes, req>>

(* writes: chunks handed to the upstream whose callback is still to come *)
Idle == [pc |-> "idle", kind |-> "none", lease |-> "none", retained |-> 0,
         received |-> 0, writes |-> 0]

Init ==
  /\ inflight = 0 /\ retainedBytes = 0
  /\ req = [r \in Requests |-> Idle]

(* release: what the lease holds is given back once *)
Released(r, next) ==
  /\ inflight' = inflight - (IF req[r].lease = "live" THEN 1 ELSE 0)
  /\ retainedBytes' = retainedBytes - req[r].retained
  /\ req' = [req EXCEPT ![r] = [next EXCEPT !.retained = 0,
               !.lease = IF @ = "none" THEN "none" ELSE "released"]]

Goes(r, pc) == /\ req' = [req EXCEPT ![r].pc = pc]
               /\ UNCHANGED <<inflight, retainedBytes>>

(* a POST of a buffered route, or of the Codex backend: admit and
   bindResponse; at the limit it is answered 503 and holds no lease *)
Admit(r, kind) ==
  /\ req[r].pc = "idle"
  /\ IF inflight >= MaxInflight
     THEN Goes(r, "answering")
     ELSE /\ inflight' = inflight + 1
          /\ req' = [req EXCEPT ![r].pc = "reading", ![r].kind = kind,
                                ![r].lease = "live"]
          /\ UNCHANGED retainedBytes

Fits(r) == /\ req[r].received < MaxBody
           /\ retainedBytes < MaxRetained

Chunk(r) == [req[r] EXCEPT !.received = @ + 1, !.retained = @ + 1]

(* onData of readBody and of the passthrough; the lease of a connection
   that is lost meanwhile throws and nothing is kept *)
Data(r) ==
  /\ req[r].pc = "reading" /\ req[r].lease = "live"
  /\ IF ~Fits(r) THEN Goes(r, "answering")
     ELSE /\ retainedBytes' = retainedBytes + 1
          /\ req' = [req EXCEPT ![r] =
               IF req[r].kind = "buffered" THEN Chunk(r)
               ELSE [Chunk(r) EXCEPT !.writes = @ + 1]]
          /\ UNCHANGED inflight

(* a write's callback, in time or after the request it belongs to *)
(* mutant: the bytes of a late callback are given back as well *)
WrittenLate(r) ==
  /\ req[r].writes > 0 /\ retainedBytes > 0
  /\ retainedBytes' = retainedBytes - 1
  /\ req' = [req EXCEPT ![r].writes = @ - 1,
       ![r].retained = IF req[r].lease = "live" THEN @ - 1 ELSE @]
  /\ UNCHANGED inflight

Written(r) ==
  LET n == IF req[r].lease = "live" THEN 1 ELSE 0 IN
  /\ req[r].writes > 0
  /\ retainedBytes' = retainedBytes - n
  /\ req' = [req EXCEPT ![r].writes = @ - 1, ![r].retained = @ - n]
  /\ UNCHANGED inflight

BodyEnds(r) == req[r].pc = "reading" /\ Goes(r, "handling")

(* BodyTimeoutError: answered 408 *)
BodyTimesOut(r) == req[r].pc = "reading" /\ Goes(r, "answering")

(* the handler ends its response, or the upstream's has been passed on *)
Answers(r) ==
  /\ \/ req[r].pc = "handling"
     \/ req[r].pc = "reading" /\ req[r].kind = "passed"
  /\ Goes(r, "answering")

(* it throws: the lease is released before the 500 is sent *)
Throws(r) ==
  /\ req[r].pc = "handling" /\ req[r].kind = "buffered"
  /\ Released(r, [req[r] EXCEPT !.pc = "answering"])

(* finish of the response *)
(* mutant: nothing but a thrown error or a lost client releases the lease *)
FlushedOnly(r) == req[r].pc = "answering" /\ Goes(r, "done")

Flushed(r) ==
  /\ req[r].pc = "answering"
  /\ Released(r, [req[r] EXCEPT !.pc = "done"])

(* close of the response: the client has gone; the handler may go on *)
Lost(r) ==
  /\ req[r].pc \in {"reading", "handling", "answering"}
  /\ Released(r, [req[r] EXCEPT !.pc = "done"])

Next ==
  \E r \in Requests :
    \/ \E kind \in {"buffered", "passed"} : Admit(r, kind)
    \/ Data(r) \/ Written(r) \/ BodyEnds(r) \/ BodyTimesOut(r)
    \/ Answers(r) \/ Throws(r) \/ Flushed(r) \/ Lost(r)

Spec == Init /\ [][Next]_bodyVars

(* a timer bounds the reading, the deadline of the request its handling
   (Ownership), and what is answered reaches the client or loses it *)
Moves(r) == BodyTimesOut(r) \/ Answers(r) \/ Flushed(r)

(***************************************************************************)
(* Properties.                                                             *)
(***************************************************************************)

(* The counters are exactly what the live leases hold and stay within      *)
(* their limits, whatever the order in which a lease is released by the    *)
(* handler, the response and late write callbacks; a passed-through body   *)
(* keeps exactly the bytes of its writes under way.                        *)
Live == {r \in Requests : req[r].lease = "live"}
Kept == [r \in Requests |-> req[r].retained]

AdmissionExact ==
  /\ inflight = Cardinality(Live) /\ inflight <= MaxInflight
  /\ retainedBytes = SumFunctionOnSet(Kept, Live)
  /\ retainedBytes <= MaxRetained
  /\ \A r \in Live : req[r].kind = "passed" =>
                       req[r].retained = req[r].writes

(* A proxy at its limit of requests takes another again: every way a       *)
(* request can end, the refusals included, leads to the release of its     *)
(* slot.                                                                   *)
SlotsComeBack == \A r \in Requests : req[r].lease = "live" ~> req[r].lease # "live"
=============================================================================
