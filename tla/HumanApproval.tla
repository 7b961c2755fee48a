--------------------------- MODULE HumanApproval ---------------------------
(***************************************************************************)
(* The human sign-off in front of gated requests (lib/human-approval.js)   *)
(* and the two places of a chat completion that ask for it, before and     *)
(* after the assessment of the task (lib/routing.js).  A request's         *)
(* conversation and tools are its hash.  The gate, the shape and the kind  *)
(* of task are hashed as well (lines 156-158), but are taken from the      *)
(* record when there is one; that a request blocked again under others     *)
(* gets a further record is left out.  The records made so far are         *)
(* numbered, the number is the challenge.  A reply is stripped whole and   *)
(* nothing else is (stripApprovalExchange may take a later "continue" of   *)
(* the user for one, line 310).                                            *)
(***************************************************************************)
EXTENDS Naturals, Sequences, FiniteSets, FiniteSetsExt

CONSTANTS
  Hashes,       \* what a request asks: requestHash without the exchange
  SessionOf,    \* the session of each
  Calls,
  MaxRecords    \* bound: records made

VARIABLES
  record,       \* every record made: its hash, whether its time is over
  pending,      \* approvals.pending: the challenges in it
  byHash,       \* approvals.byRequestHash
  ask           \* per request: what it asks and how far it is

approvalVars == <<record, pending, byHash, ask>>

NoRecord == 0

(* gate: gateInfo finds none, one that the text of the request clears, or
   one that holds; by: where the token comes from *)
Gates == {"none", "cleared", "holds"}
Idle == [pc |-> "idle", hash |-> CHOOSE h \in Hashes : TRUE, token |-> NoRecord,
         by |-> "header", approvals |-> {}, told |-> NoRecord, gate |-> "none"]

Init ==
  /\ record = <<>> /\ pending = {} /\ byHash = [h \in Hashes |-> NoRecord]
  /\ ask = [c \in Calls |-> Idle]

(* cleanupExpired *)
Kept    == {k \in pending : ~record[k].over}
Indexed == [h \in Hashes |-> IF byHash[h] \in pending \ Kept THEN NoRecord ELSE byHash[h]]

(* existingPending *)
(* mutant: the pending approval of the conversation is taken for that of
   the request *)
ExistingOfSession(h) ==
  LET own == {k \in Kept : SessionOf[record[k].hash] = SessionOf[h]} IN
  IF own = {} THEN NoRecord ELSE Max(own)

Existing(h) == IF Indexed[h] \in Kept THEN Indexed[h] ELSE NoRecord

(* block(createPending(...)): the request is answered with the challenge *)
Block(c) ==
  LET h == ask[c].hash
      k == IF Existing(h) # NoRecord THEN Existing(h) ELSE Len(record) + 1 IN
  /\ k <= MaxRecords
  /\ record' = IF k <= Len(record) THEN record
               ELSE Append(record, [hash |-> h, over |-> FALSE])
  /\ pending' = Kept \union {k}
  /\ byHash' = [Indexed EXCEPT ![h] = k]
  /\ ask' = [ask EXCEPT ![c].pc = "blocked", ![c].told = k]

Pass(c, next) ==
  /\ pending' = Kept /\ byHash' = Indexed
  /\ ask' = [ask EXCEPT ![c] = next]
  /\ UNCHANGED record

(* extractApprovalToken: what the request carries, or, for a plain yes, the
   latest pending approval of its conversation *)
TokenOf(c) ==
  IF ask[c].by # "yes" THEN ask[c].token
  ELSE LET own == {k \in Kept : SessionOf[record[k].hash] = SessionOf[ask[c].hash]} IN
       IF own = {} THEN NoRecord ELSE Max(own)

(* a field of the body is taken from it, an exchange in the messages is
   stripped when its record is known, a header stays *)
Stripped(a, known) ==
  IF a.by = "field" \/ (a.by \in {"message", "yes"} /\ known)
  THEN [a EXCEPT !.token = NoRecord, !.by = "header"] ELSE a

(* mutant: the token of another request is accepted *)
MatchesAny(c, k) == TRUE

Matches(c, k) == record[k].hash = ask[c].hash

(* enforce; an allowed request goes on to where its caller says, an approved
   one is routed whatever its gate turns out to be *)
enforce(c, gate, approveOnly, on) ==
  LET t     == TokenOf(c)
      known == t \in Kept
      asked == Stripped(ask[c], known)
      goesOn == Pass(c, [asked EXCEPT !.pc = on, !.gate = gate])
      gated == IF known THEN gate # "none" ELSE gate = "holds" IN
  IF ~gated \/ (t = NoRecord /\ approveOnly) THEN goesOn
  ELSE IF ~known THEN Block(c)
  ELSE IF Matches(c, t)
       THEN Pass(c, [asked EXCEPT !.pc = "routed", !.gate = "holds",
                                  !.approvals = @ \union {t}])
  ELSE IF gate = "cleared" THEN goesOn
  ELSE Block(c)

(* a client asks; it may send any challenge it or another has been told *)
Arrive(c) ==
  /\ ask[c].pc = "idle"
  /\ \E h \in Hashes, t \in 0..Len(record),
        by \in {"header", "field", "message", "yes"} :
       /\ by = "yes" => t = NoRecord
       /\ ask' = [ask EXCEPT ![c] = [Idle EXCEPT !.pc = "first", !.hash = h,
                    !.token = t, !.by = by]]
  /\ UNCHANGED <<record, pending, byHash>>

(* the gate of the heuristic profile; when the task is to be assessed first,
   only an approval is looked for *)
First(c) ==
  /\ ask[c].pc = "first"
  /\ \E gate \in Gates, approveOnly \in BOOLEAN :
       enforce(c, gate, approveOnly, "assessing")

(* after the await of the assessment, the gate of the final profile *)
Final(c) ==
  /\ ask[c].pc = "assessing"
  /\ \E gate \in Gates : enforce(c, gate, FALSE, "routed")

Leave(c) ==
  /\ ask[c].pc \in {"blocked", "routed"}
  /\ ask' = [ask EXCEPT ![c] = Idle]
  /\ UNCHANGED <<record, pending, byHash>>

Expire(k) ==
  /\ k \in 1..Len(record) /\ ~record[k].over
  /\ record' = [record EXCEPT ![k].over = TRUE]
  /\ UNCHANGED <<pending, byHash, ask>>

(* approvals are in memory only *)
Restart ==
  /\ pending' = {} /\ byHash' = [h \in Hashes |-> NoRecord]
  /\ ask' = [c \in Calls |-> Idle]
  /\ UNCHANGED record

Next ==
  \/ \E c \in Calls : Arrive(c) \/ First(c) \/ Final(c) \/ Leave(c)
  \/ \E k \in 1..MaxRecords : Expire(k)
  \/ Restart

Spec == Init /\ [][Next]_approvalVars

(***************************************************************************)
(* Properties.                                                             *)
(***************************************************************************)

(* A request whose final gate holds is routed only with an approval of     *)
(* this very request: not by the token of another one, an expired one, a   *)
(* yes meant for another prompt of the conversation, or because the        *)
(* assessment changed what its token was checked against.                  *)
RoutedOnceApproved ==
  \A c \in Calls : (ask[c].pc = "routed" /\ ask[c].gate = "holds") =>
    \E k \in ask[c].approvals : record[k].hash = ask[c].hash

(* The challenge a blocked request is told is pending, not expired and of  *)
(* this request, so that answering with it can approve it.                 *)
PromptIsUsable ==
  [][\A c \in Calls :
       (ask[c].pc # "blocked" /\ ask'[c].pc = "blocked") =>
         LET k == ask'[c].told IN
         /\ k \in pending' /\ ~record'[k].over
         /\ record'[k].hash = ask'[c].hash]_approvalVars
=============================================================================
