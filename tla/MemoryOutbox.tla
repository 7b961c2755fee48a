---------------------------- MODULE MemoryOutbox ----------------------------
(***************************************************************************)
(* The outbox between the memory of the proxy and its semantic graph:      *)
(* what is remembered is queued in Neo4j (lib/memory/neo4j-store.js) and a *)
(* drain of the process sends it to Graphiti in the background             *)
(* (lib/memory/semantic-sidecar.js).                                       *)
(***************************************************************************)
EXTENDS Naturals, Sequences, SequencesExt

CONSTANTS
  Items,
  Batch,        \* GRAPHITI_MCP_OUTBOX_BATCH
  MaxBatches,   \* GRAPHITI_MCP_OUTBOX_MAX_DRAIN_BATCHES
  MaxAttempts,  \* attempts after which an item has failed
  MaxPuts       \* bound: items queued in one behaviour

VARIABLES
  outbox,       \* per item: its status, attempts and when it may be tried
  queue,        \* the items by created_at, the time of what is remembered
  drain,        \* the sidecar of the running process
  owed,         \* requests that have queued an item and not yet called drainSoon
  puts,
  broken        \* Neo4j failed, or the process crashed, at some time

outboxVars == <<outbox, queue, drain, owed, puts, broken>>

Resting == [pc |-> "off", again |-> FALSE, timer |-> FALSE, soon |-> 0,
            work |-> <<>>, full |-> FALSE, batches |-> 0]

Init ==
  /\ outbox = [i \in Items |-> [status |-> "none", attempts |-> 0, next |-> "unset"]]
  /\ queue = <<>> /\ drain = Resting /\ owed = 0 /\ puts = 0 /\ broken = FALSE

(***************************************************************************)
(* Requests.                                                               *)
(***************************************************************************)

(* enqueueGraphitiOutbox: MERGE resets an item whatever is done with it;
   next_attempt_at is left as it is.  created_at is the time of the episode,
   which may be before that of items queued earlier *)
Put(i) ==
  /\ puts < MaxPuts /\ puts' = puts + 1
  /\ outbox' = [outbox EXCEPT ![i].status = "pending", ![i].attempts = 0]
  /\ LET others == Remove(queue, i) IN
     \E n \in 1..Len(others) + 1 : queue' = InsertAt(others, n, i)
  /\ owed' = owed + 1
  /\ UNCHANGED <<drain, broken>>

(* a later event of the same request cannot be queued: no drain is asked for *)
PutFails ==
  /\ owed > 0 /\ owed' = owed - 1 /\ broken' = TRUE
  /\ UNCHANGED <<outbox, queue, drain, puts>>

(* mutant: a drain under way is left alone *)
drainSoonUnlessDraining ==
  /\ owed > 0 /\ owed' = owed - 1
  /\ drain' = [drain EXCEPT !.timer = FALSE,
                            !.soon = IF drain.pc = "off" THEN @ + 1 ELSE @]
  /\ UNCHANGED <<outbox, queue, puts, broken>>

drainSoon ==
  /\ owed > 0 /\ owed' = owed - 1
  /\ drain' = IF drain.pc = "off"
              THEN [drain EXCEPT !.timer = FALSE, !.soon = @ + 1]
              ELSE [drain EXCEPT !.timer = FALSE, !.again = TRUE]
  /\ UNCHANGED <<outbox, queue, puts, broken>>

(***************************************************************************)
(* The drain.                                                              *)
(***************************************************************************)
Begun(d) == IF d.pc # "off" THEN [d EXCEPT !.again = TRUE]
            ELSE [d EXCEPT !.pc = "claiming", !.again = FALSE, !.batches = 0]

Soon ==
  /\ drain.soon > 0
  /\ drain' = Begun([drain EXCEPT !.soon = @ - 1])
  /\ UNCHANGED <<outbox, queue, owed, puts, broken>>

Later ==
  /\ drain.timer
  /\ drain' = Begun([drain EXCEPT !.timer = FALSE])
  /\ UNCHANGED <<outbox, queue, owed, puts, broken>>

Claimable(i) == outbox[i].status \in {"pending", "retry"} /\ outbox[i].next # "later"

(* claimGraphitiOutbox: the oldest that are due *)
Claim ==
  LET due  == SelectSeq(queue, Claimable)
      work == SubSeq(due, 1, IF Len(due) < Batch THEN Len(due) ELSE Batch) IN
  /\ drain.pc = "claiming"
  /\ outbox' = [i \in Items |-> IF i \in ToSet(work)
                 THEN [outbox[i] EXCEPT !.status = "processing", !.attempts = @ + 1]
                 ELSE outbox[i]]
  /\ drain' = [drain EXCEPT !.pc = "working", !.work = work,
                            !.full = Len(work) >= Batch, !.batches = @ + 1]
  /\ UNCHANGED <<queue, owed, puts, broken>>

Stops == [drain EXCEPT !.pc = "off", !.work = <<>>]

(* Neo4j fails while items are claimed or marked: the drain ends, what it
   has claimed stays as it is *)
DrainFails ==
  /\ drain.pc # "off" /\ drain' = Stops /\ broken' = TRUE
  /\ UNCHANGED <<outbox, queue, owed, puts>>

(* addEpisode and markGraphitiOutboxDone, or markGraphitiOutboxFailed *)
Send(ok) ==
  /\ drain.pc = "working" /\ drain.work # <<>>
  /\ LET i == Head(drain.work) IN
     outbox' = [outbox EXCEPT ![i] =
       IF ok THEN [@ EXCEPT !.status = "done"]
       ELSE [@ EXCEPT !.next = "later",
               !.status = IF outbox[i].attempts < MaxAttempts
                          THEN "retry" ELSE "failed"]]
  /\ drain' = [drain EXCEPT !.work = Tail(@)]
  /\ UNCHANGED <<queue, owed, puts, broken>>

(* the end of a batch: another one, or drainLater when it was full *)
EndBatch ==
  /\ drain.pc = "working" /\ drain.work = <<>>
  /\ drain' = IF drain.again \/ (drain.full /\ drain.batches < MaxBatches)
              THEN [drain EXCEPT !.pc = "claiming", !.again = FALSE]
              ELSE [Stops EXCEPT !.timer = @ \/ drain.full]
  /\ UNCHANGED <<outbox, queue, owed, puts, broken>>

(* the time of a retry comes; nothing is started by it *)
Due(i) ==
  /\ outbox[i].next = "later"
  /\ outbox' = [outbox EXCEPT ![i].next = "past"]
  /\ UNCHANGED <<queue, drain, owed, puts, broken>>

Crash ==
  /\ drain' = Resting /\ owed' = 0 /\ broken' = TRUE
  /\ UNCHANGED <<outbox, queue, puts>>

Next ==
  \/ \E i \in Items : Put(i) \/ Due(i)
  \/ PutFails \/ drainSoon \/ Soon \/ Later \/ Claim \/ DrainFails
  \/ \E ok \in BOOLEAN : Send(ok)
  \/ EndBatch \/ Crash

(* timers fire, and every await of a drain ends *)
Drains == drainSoon \/ Soon \/ Later \/ Claim \/ EndBatch \/ \E ok \in BOOLEAN : Send(ok)

(***************************************************************************)
(* Properties.                                                             *)
(***************************************************************************)

(* No wakeup is lost: an item that is queued, and has not failed before,   *)
(* is taken by a drain, whether it is queued before, during or after one   *)
(* and however many are queued ahead of it, as long as Neo4j answers and   *)
(* the process lives.                                                      *)
ItemsAreTried ==
  \A i \in Items : (outbox[i].status = "pending" /\ outbox[i].next = "unset")
                     ~> (outbox[i].status # "pending" \/ broken)
=============================================================================
