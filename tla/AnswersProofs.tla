---------------------------- MODULE AnswersProofs ----------------------------
(***************************************************************************)
(* The answers of providers.  One chat request gets one answer, for any    *)
(* number of providers, any mix of failures and any limits on the retries: *)
(* what makes this inductive is which steps of a round can see a response  *)
(* that was begun.  For streams of any length and kinds of chunk, both     *)
(* kinds of stream keep the promise of Attempt, and lose no text.  For any *)
(* providers and requests, who is passed over was cooled since.            *)
(***************************************************************************)
EXTENDS ChatCompletion, ProviderAttempts, Naturals, Sequences,
        SequenceTheorems, FiniteSetTheorems, TLAPS

Pcs == {"enter", "pick", "fallback", "caught", "record", "done"}

ClientType == [head : Nat, end : BOOLEAN, late : BOOLEAN, gone : BOOLEAN]

RoundType ==
  [pc : Pcs, todo : SUBSET Providers, now : SUBSET Providers,
   err : Failures \union {"none"}, dirty : BOOLEAN, errs : Nat, ctx : Nat,
   outage : BOOLEAN]

ResponseTyped == client \in ClientType /\ round \in RoundType

(* The response is untouched until its head is written, and an attempt that  *)
(* wrote it is known as a dirty one.                                         *)
Untouched == client.head = 0 /\ ~client.end /\ ~client.late

DirtyIsBegun ==
  /\ client.head = 0 => ~client.end
  /\ round.pc # "done" => (round.dirty <=> client.head = 1)

(* A provider is only ever tried in a clean round. *)
TriedClean == round.pc \in {"enter", "pick", "fallback"} => ~round.dirty

(* What the request starts again for is refused before the first byte. *)
RefusedEarly == round.pc = "caught" /\ round.dirty => round.err \notin NeverDirty

IInv ==
  /\ ResponseTyped /\ AnsweredOnce
  /\ DirtyIsBegun /\ TriedClean /\ RefusedEarly

-----------------------------------------------------------------------------
(* In a clean round, and wherever the head is still to come, the response is *)
(* untouched.                                                                *)
LEMMA CleanIsUntouched ==
  ASSUME IInv, client.head = 0 \/ (round.pc # "done" /\ ~round.dirty)
  PROVE  Untouched
<1>1. client.head \in {0, 1} /\ ~client.late
  BY DEF IInv, ResponseTyped, ClientType, AnsweredOnce
<1>2. client.head = 0 => ~client.end
  BY DEF IInv, DirtyIsBegun
<1>3. client.head = 0
  BY <1>1 DEF IInv, DirtyIsBegun
<1> QED
  BY <1>1, <1>2, <1>3 DEF Untouched

(* Writing the head of an untouched response, ending or losing it afterwards. *)
Begun(c) == c \in ClientType /\ c.head = 1 /\ ~c.late

LEMMA HeadBegins ==
  ASSUME client \in ClientType, Untouched
  PROVE  Begun(Headed(client))
<1> DEFINE c == [client EXCEPT !.head = 1, !.late = FALSE]
<1>1. Begun(c)
  BY DEF Begun, ClientType
<1>2. client.head + 1 = 1
  BY DEF Untouched
<1>3. (client.late \/ client.end) = FALSE
  BY Zenon DEF Untouched
<1>4. Headed(client) = c
  BY <1>2, <1>3, Zenon DEF Headed
<1> QED
  BY <1>1, <1>4, Zenon

LEMMA EndBegun ==
  ASSUME NEW c, Begun(c)
  PROVE  Begun(Ended(c)) /\ Begun([c EXCEPT !.gone = TRUE])
BY DEF Begun, ClientType, Ended

(* The invariant holds again once the request is through. *)
LEMMA FinishKeeps ==
  ASSUME IInv, NEW c, Begun(c), Finish(c)
  PROVE  IInv'
<1>1. round' \in RoundType /\ round'.pc = "done" /\ client' = c
  BY DEF IInv, ResponseTyped, RoundType, Finish, Pcs
<1> QED
  BY <1>1 DEF IInv, ResponseTyped, AnsweredOnce, DirtyIsBegun, TriedClean, RefusedEarly,
              Begun

(* Answering an untouched response keeps the invariant. *)
LEMMA AnswerKeeps ==
  ASSUME IInv, Untouched, Answer
  PROVE  IInv'
<1>1. Begun(Answered(client))
  BY HeadBegins, EndBegun DEF IInv, ResponseTyped, Answered
<1> QED
  BY <1>1, FinishKeeps DEF Answer

(* Ending a response that was begun writes no second head. *)
LEMMA EndKeeps ==
  ASSUME IInv, client.head = 1, EndQuietly
  PROVE  IInv'
<1>1. Begun(client)
  BY DEF IInv, ResponseTyped, AnsweredOnce, Begun
<1> QED
  BY <1>1, EndBegun, FinishKeeps DEF EndQuietly

(* A step that leaves an untouched response alone and the round clean. *)
LEMMA CleanKeeps ==
  ASSUME IInv, Untouched, UNCHANGED client, round' \in RoundType, ~round'.dirty
  PROVE  IInv'
<1>1. ResponseTyped' /\ AnsweredOnce'
  BY DEF IInv, ResponseTyped, AnsweredOnce
<1>2. DirtyIsBegun'
  BY DEF DirtyIsBegun, Untouched
<1> QED
  BY <1>1, <1>2 DEF IInv, TriedClean, RefusedEarly

(* A round begins with an untouched response. *)
LEMMA AgainKeeps ==
  ASSUME IInv, Untouched, NEW b, Again(b)
  PROVE  IInv'
<1>1. Fresh \in RoundType /\ ~Fresh.dirty
  BY DEF Fresh, RoundType, Pcs
<1> QED
  BY <1>1, CleanKeeps DEF Again

(* A step from the catch block to the record of the failure. *)
LEMMA RecordKeeps ==
  ASSUME IInv, round.pc = "caught", UNCHANGED client,
         round' = [round EXCEPT !.pc = "record"]
  PROVE  IInv'
<1>1. /\ round' \in RoundType /\ round'.pc = "record"
      /\ round'.dirty = round.dirty
  BY DEF IInv, ResponseTyped, RoundType, Pcs
<1> QED
  BY <1>1 DEF IInv, ResponseTyped, AnsweredOnce, DirtyIsBegun, TriedClean, RefusedEarly

-----------------------------------------------------------------------------
(* An attempt fails: clean, or with its own head written. *)
LEMMA FailKeeps ==
  ASSUME IInv, NEW p \in Providers, NEW kind \in Failures, Fail(p, kind)
  PROVE  IInv'
<1> DEFINE next == IF round.pc = "fallback"
                   THEN (IF kind = "continue" THEN "caught" ELSE "record")
                   ELSE (IF kind \in Named THEN "caught" ELSE "record")
           Failed(dirty) == [round EXCEPT !.pc = next, !.todo = @ \ {p},
                                          !.now = {p}, !.err = kind,
                                          !.dirty = dirty]
<1>1. round \in RoundType /\ client \in ClientType
  BY DEF IInv, ResponseTyped
<1>2. Untouched /\ ~round.dirty
  BY CleanIsUntouched DEF IInv, TriedClean, Fail, Attempting
<1>3. \A dirty \in BOOLEAN :
        /\ Failed(dirty) \in RoundType
        /\ Failed(dirty).pc \in {"caught", "record"}
        /\ Failed(dirty).dirty = dirty
        /\ Failed(dirty).err = kind
  BY <1>1 DEF RoundType, Pcs
<1>4. CASE round' = Failed(FALSE) /\ client' = client
  BY <1>2, <1>3, <1>4, CleanKeeps
<1>5. CASE /\ kind \notin NeverDirty
           /\ client' \in {Headed(client), Answered(client),
                           [Headed(client) EXCEPT !.gone = TRUE]}
           /\ round' = Failed(TRUE)
  <2>1. Begun(client')
    BY <1>1, <1>2, <1>5, HeadBegins, EndBegun DEF Answered
  <2>2. /\ round' \in RoundType /\ round'.pc \in {"caught", "record"}
        /\ round'.dirty /\ round'.err = kind
    BY <1>3, <1>5
  <2> QED
    BY <1>5, <2>1, <2>2 DEF IInv, ResponseTyped, AnsweredOnce, DirtyIsBegun,
       TriedClean, RefusedEarly, Begun
<1> QED
  BY <1>4, <1>5 DEF Fail, Stay

(* The steps of the catch block: what is handed on keeps its head, what     *)
(* starts again was refused before its first byte.                          *)
LEMMA CatchKeeps ==
  ASSUME IInv,
         CatchFatal \/ Nudge \/ NudgeLimit \/ Recall \/ Reroute \/ StreamInstead \/ CatchRest
  PROVE  IInv'
<1>1. round.pc = "caught" /\ round \in RoundType
  BY DEF CatchFatal, Nudge, NudgeLimit, Recall, Reroute, StreamInstead, CatchRest,
         Caught, IInv, ResponseTyped
<1>2. round.err \in NeverDirty => Untouched
  BY <1>1, CleanIsUntouched DEF IInv, RefusedEarly
<1>3. CASE CatchFatal
  <2>1. CASE Throw
    <3>1. CASE client.head > 0
      <4>1. client.head = 1
        BY <3>1 DEF IInv, ResponseTyped, ClientType, AnsweredOnce
      <4> QED
        BY <2>1, <3>1, <4>1, EndKeeps DEF Throw
    <3>2. CASE ~(client.head > 0)
      <4>1. client.head = 0
        BY <3>2 DEF IInv, ResponseTyped, ClientType
      <4> QED
        BY <2>1, <3>2, <4>1, CleanIsUntouched, AnswerKeeps DEF Throw
    <3> QED
      BY <3>1, <3>2
  <2>2. CASE IF round.dirty THEN EndQuietly ELSE Answer
    <3>1. CASE round.dirty
      <4>1. client.head = 1
        BY <1>1, <3>1 DEF IInv, DirtyIsBegun
      <4> QED
        BY <2>2, <3>1, <4>1, EndKeeps
    <3>2. CASE ~round.dirty
      BY <1>1, <2>2, <3>2, CleanIsUntouched, AnswerKeeps
    <3> QED
      BY <3>1, <3>2
  <2> QED
    BY <1>3, <2>1, <2>2 DEF CatchFatal
<1>4. CASE Nudge
  BY <1>2, <1>4, AgainKeeps DEF Nudge, Caught, NeverDirty
<1>5. CASE NudgeLimit
  BY <1>1, <1>2, <1>5, AnswerKeeps, RecordKeeps DEF NudgeLimit, Caught, NeverDirty
<1>6. CASE Recall
  BY <1>1, <1>2, <1>6, AgainKeeps, RecordKeeps DEF Recall, Caught, NeverDirty
<1>7. CASE Reroute
  BY <1>2, <1>7, AgainKeeps DEF Reroute, Caught, NeverDirty
<1>8. CASE StreamInstead
  <2>1. PICK pc \in {"fallback", "record"} : Stay([round EXCEPT !.pc = pc])
    BY <1>8 DEF StreamInstead
  <2>2. Untouched /\ ~round.dirty
    BY <1>1, <1>2, <1>8 DEF StreamInstead, Caught, NeverDirty, IInv, RefusedEarly
  <2>3. round' \in RoundType /\ ~round'.dirty /\ UNCHANGED client
    BY <1>1, <2>1, <2>2 DEF Stay, RoundType, Pcs
  <2> QED
    BY <2>2, <2>3, CleanKeeps
<1>9. CASE CatchRest
  BY <1>1, <1>9, RecordKeeps DEF CatchRest, Stay
<1> QED
  BY <1>3, <1>4, <1>5, <1>6, <1>7, <1>8, <1>9

(* The steps of a clean round: candidates are gathered or skipped, a failure *)
(* is noted, the request starts again or is answered.                        *)
LEMMA RoundKeeps ==
  ASSUME IInv, round.pc # "done", ~round.dirty, Untouched,
         \/ AnswerItself \/ CompactEarly \/ CompactForFit \/ Gather
         \/ \E p \in Providers : Skip(p) \/ Served(p)
         \/ RecordGroup \/ MidCompact \/ RetryCohort \/ PostCompact \/ GiveUp
         \/ DirectOverflow \/ RecordDirect \/ AnotherModel \/ DirectGiveUp
  PROVE  IInv'
<1>1. round \in RoundType
  BY DEF IInv, ResponseTyped
<1>2. Noted \in RoundType /\ ~Noted.dirty
  <2> DEFINE n == round.errs + 1
             x == round.ctx + (IF round.err = "context" THEN 1 ELSE 0)
             r == [round EXCEPT !.pc = "pick", !.err = "none", !.now = {},
                                !.errs = n, !.ctx = x]
  <2>1. n \in Nat /\ x \in Nat
    BY <1>1 DEF RoundType
  <2>2. Noted = r
    BY Zenon DEF Noted
  <2> HIDE DEF n, x
  <2>3. r \in RoundType /\ ~r.dirty
    BY <1>1, <2>1 DEF RoundType, Pcs
  <2> QED
    BY <2>2, <2>3, Zenon
<1>3. DirectNoted \in RoundType /\ ~DirectNoted.dirty
  <2> DEFINE n == round.errs + 1
             x == round.outage \/ round.err \in {"rate", "outage"}
             r == [round EXCEPT !.pc = "pick", !.err = "none", !.now = {},
                                !.errs = n, !.outage = x]
  <2>1. n \in Nat
    BY <1>1 DEF RoundType
  <2>2. x \in BOOLEAN
    BY Zenon
  <2>3. DirectNoted = r
    BY Zenon DEF DirectNoted
  <2> HIDE DEF n, x
  <2>4. r \in RoundType /\ ~r.dirty
    BY <1>1, <2>1, <2>2 DEF RoundType, Pcs
  <2> QED
    BY <2>3, <2>4, Zenon
<1>4. CASE AnswerItself \/ GiveUp \/ DirectGiveUp
  BY <1>4, AnswerKeeps DEF AnswerItself, GiveUp, DirectGiveUp
<1>5. CASE CompactEarly
  BY <1>1, <1>5, CleanKeeps DEF CompactEarly
<1>6. CASE CompactForFit \/ RetryCohort \/ AnotherModel
  BY <1>6, AgainKeeps DEF CompactForFit, RetryCohort, AnotherModel
<1>7. CASE Gather
  <2>1. PICK todo \in (IF body.group THEN {Providers} ELSE {{p} : p \in Providers}) :
          Stay([round EXCEPT !.pc = "pick", !.todo = todo])
    BY <1>7 DEF Gather
  <2>2. todo \subseteq Providers
    BY <2>1
  <2>3. round' \in RoundType /\ ~round'.dirty /\ UNCHANGED client
    BY <1>1, <2>1, <2>2 DEF Stay, RoundType, Pcs
  <2> QED
    BY <2>3, CleanKeeps
<1>8. ASSUME NEW p \in Providers, Skip(p)
      PROVE  IInv'
  <2>1. round' \in RoundType /\ ~round'.dirty /\ UNCHANGED client
    BY <1>1, <1>8 DEF Skip, Stay, RoundType, Pcs
  <2> QED
    BY <2>1, CleanKeeps
<1>9. ASSUME NEW p \in Providers, Served(p)
      PROVE  IInv'
  BY <1>9, AnswerKeeps DEF Served
<1>10. CASE RecordGroup
  BY <1>2, <1>10, CleanKeeps DEF RecordGroup
<1>11. CASE MidCompact
  BY <1>2, <1>11, AgainKeeps, CleanKeeps DEF MidCompact
<1>12. CASE PostCompact
  BY <1>12, AgainKeeps, AnswerKeeps DEF PostCompact
<1>13. CASE DirectOverflow
  BY <1>13, AgainKeeps, AnswerKeeps DEF DirectOverflow
<1>14. CASE RecordDirect
  <2>1. CASE round' = DirectNoted /\ UNCHANGED client
    BY <1>3, <2>1, CleanKeeps
  <2>2. ASSUME NEW more \in SUBSET (Claude \ round.now), UNCHANGED client,
               round' = [DirectNoted EXCEPT !.todo = more]
        PROVE  IInv'
    <3>1. more \subseteq Providers
      BY <2>2, ChatAssumption
    <3>2. round' \in RoundType /\ ~round'.dirty
      BY <1>3, <2>2, <3>1 DEF RoundType
    <3> QED
      BY <2>2, <3>2, CleanKeeps
  <2> QED
    BY <1>14, <2>1, <2>2 DEF RecordDirect
<1> QED
  BY <1>4, <1>5, <1>6, <1>7, <1>8, <1>9, <1>10, <1>11, <1>12, <1>13, <1>14

-----------------------------------------------------------------------------
LEMMA InitHolds == Init => IInv
BY DEF Init, Fresh, IInv, ResponseTyped, ClientType, RoundType, Pcs, AnsweredOnce,
       DirtyIsBegun, TriedClean, RefusedEarly

LEMMA StepKeeps ==
  ASSUME IInv, [Next]_vars
  PROVE  IInv'
<1>1. CASE UNCHANGED vars
  BY <1>1 DEF vars, IInv, ResponseTyped, AnsweredOnce, DirtyIsBegun, TriedClean,
              RefusedEarly
<1>2. ASSUME NEW p \in Providers, NEW kind \in Failures, Fail(p, kind)
      PROVE  IInv'
  BY <1>2, FailKeeps
<1>3. CASE CatchFatal \/ Nudge \/ NudgeLimit \/ Recall \/ Reroute \/ StreamInstead
           \/ CatchRest
  BY <1>3, CatchKeeps
<1>4. CASE EndDirty
  <2>1. client.head = 1
    BY <1>4 DEF EndDirty, IInv, DirtyIsBegun
  <2> QED
    BY <1>4, <2>1, EndKeeps DEF EndDirty
<1>5. CASE \/ AnswerItself \/ CompactEarly \/ CompactForFit \/ Gather
           \/ \E p \in Providers : Skip(p) \/ Served(p)
           \/ RecordGroup \/ MidCompact \/ RetryCohort \/ PostCompact \/ GiveUp
           \/ DirectOverflow \/ RecordDirect \/ AnotherModel \/ DirectGiveUp
  <2>1. round.pc # "done" /\ ~round.dirty
    BY <1>5 DEF AnswerItself, CompactEarly, CompactForFit, Gather, Skip, Served,
       Attempting, RecordGroup, MidCompact, RetryCohort, PostCompact, GiveUp,
       DirectOverflow, RecordDirect, AnotherModel, DirectGiveUp, Clean, AllFailed,
       DirectFailed, IInv, TriedClean
  <2> QED
    BY <1>5, <2>1, CleanIsUntouched, RoundKeeps
<1> QED
  BY <1>1, <1>2, <1>3, <1>4, <1>5 DEF Next, Step, Done

(* One head for one request, whatever fails and is tried again: the          *)
(* invariant of the run "answers", for any number of providers and any limit *)
(* of hidden continuations.                                                  *)
THEOREM AnswerIsOne == Spec => []AnsweredOnce
<1>1. IInv => AnsweredOnce
  BY DEF IInv
<1> QED
  BY <1>1, InitHolds, StepKeeps, PTL DEF Spec

(* No provider is tried, and no round begun, after the first byte of an      *)
(* answer went out.                                                          *)
THEOREM FailoverIsClean == Spec => []NoFailoverAfterFirstByte
<1>1. IInv => NoFailoverAfterFirstByte
  BY CleanIsUntouched DEF IInv, ResponseTyped, RoundType, Pcs, TriedClean, Untouched,
     NoFailoverAfterFirstByte
<1> QED
  BY <1>1, InitHolds, StepKeeps, PTL DEF Spec

-----------------------------------------------------------------------------
Text == Seq(Nat)

LEMMA TextFacts ==
  /\ <<>> \in Text
  /\ \A s, t \in Text : s \o t \in Text
  /\ \A s \in Text : s \o <<>> = s /\ <<>> \o s = s
  /\ \A s \in Text, n \in Nat : Append(s, n) \in Text /\ Append(s, n) # <<>>
BY ConcatProperties, ConcatEmptySeq, AppendProperties DEF Text

LEMMA Regrouped == \A s, t, u \in Text : (s \o t) \o u = s \o (t \o u)
<1> DEFINE joined(s, t) == s \o t
<1>1. \A X : \A s, t, u \in Seq(X) : joined(joined(s, t), u) = joined(s, joined(t, u))
  BY ConcatAssociative, Zenon
<1> HIDE DEF joined
<1>2. \A s, t, u \in Text : joined(joined(s, t), u) = joined(s, joined(t, u))
  BY <1>1 DEF Text
<1> QED
  BY <1>2, Zenon DEF joined

LEMMA Appended ==
  ASSUME NEW s \in Text, NEW t \in Text, NEW n \in Nat
  PROVE  /\ Append(t, n) \in Text
         /\ Append(s \o t, n) = s \o Append(t, n)
<1>1. <<n>> \in Text /\ s \o t \in Text
  BY TextFacts DEF Text
<1>2. Append(s \o t, n) = (s \o t) \o <<n>> /\ Append(t, n) = t \o <<n>>
  BY <1>1, AppendIsConcat DEF Text
<1>3. (s \o t) \o <<n>> = s \o (t \o <<n>>)
  BY <1>1, Regrouped
<1> QED
  BY <1>2, <1>3, TextFacts

LEMMA Beginning ==
  ASSUME NEW s \in Text, NEW t \in Text
  PROVE  Stream!Prefix(s, s \o t) /\ Native!Prefix(s, s \o t)
<1>1. Len(s \o t) = Len(s) + Len(t) /\ Len(s) \in Nat /\ Len(t) \in Nat
  BY ConcatProperties, LenProperties DEF Text
<1>2. s = SubSeq(s \o t, 1, Len(s))
  <2>1. CASE Len(s) = 0
    <3>1. s = <<>>
      BY <2>1, EmptySeq DEF Text
    <3> QED
      BY <2>1, <3>1, SubSeqEmpty
  <2>2. CASE Len(s) > 0
    <3>1. SubSeq(s \o t, 1, Len(s)) = SubSeq(s, 1, Len(s))
      BY <1>1, <2>2, SubSeqOfConcat1 DEF Text
    <3> QED
      BY <3>1, SubSeqFull DEF Text
  <2> QED
    BY <1>1, <2>1, <2>2
<1> QED
  BY <1>1, <1>2 DEF Stream!Prefix, Native!Prefix

-----------------------------------------------------------------------------
(* Streams                                                                 *)

Held == [data : Nat, tools : {"none", "pending", "whole"}, carried : Text,
         buffer : Text, heard : Text, blank : BOOLEAN, mute : BOOLEAN,
         rejected : BOOLEAN]

Outcomes == {"running", "served", "refused", "broken"}

Response == [head : BOOLEAN, shut : BOOLEAN, out : Text, made : BOOLEAN]

StreamType ==
  /\ wire \in [state : {"open", "cut", "closed"}, came : Nat, done : BOOLEAN]
  /\ sHold \in Held
  /\ sPromise \in Outcomes
  /\ sClient \in Response

(* all that was heard was written, or is in the buffer or in the filter *)
Whole(h, c) == h.heard = (c.out \o h.buffer) \o h.carried

LEMMA StreamInitType == Stream!Init => StreamType
BY TextFacts DEF Stream!Init, StreamType, Held, Outcomes, Response

LEMMA HeardText ==
  ASSUME StreamType, NEW kind, NEW n \in Nat
  PROVE  /\ Stream!Given(kind, n) \in Text
         /\ Stream!Heard(kind, n) \in Held
         /\ Stream!Heard(kind, n).buffer = sHold.buffer
         /\ Stream!Heard(kind, n).blank = sHold.blank
         /\ Stream!Heard(kind, n).mute = sHold.mute
         /\ Stream!Heard(kind, n).rejected = sHold.rejected
         /\ Stream!Heard(kind, n).carried \in {sHold.carried, <<>>}
         /\ Stream!Given(kind, n) \o Stream!Heard(kind, n).carried =
              IF Stream!HasText(kind) THEN Append(sHold.carried, n) ELSE sHold.carried
         /\ Stream!Heard(kind, n).heard =
              IF Stream!HasText(kind) THEN Append(sHold.heard, n) ELSE sHold.heard
<1> DEFINE text == Stream!Given(kind, n)
           h    == Stream!Heard(kind, n)
           base == IF kind = "done" THEN sHold ELSE Stream!Counted(sHold)
<1>1. sHold \in Held /\ sHold.carried \in Text /\ sHold.heard \in Text
  BY DEF StreamType, Held
<1>2. text \in Text
  BY <1>1, TextFacts DEF Stream!Given
<1>3. /\ base \in Held
      /\ base.carried = sHold.carried /\ base.heard = sHold.heard
      /\ base.buffer = sHold.buffer /\ base.blank = sHold.blank
      /\ base.mute = sHold.mute /\ base.rejected = sHold.rejected
  BY <1>1 DEF Stream!Counted, Held
<1>4. Stream!ToolsAfter(kind) \in {"none", "pending", "whole"}
  BY <1>1 DEF Stream!ToolsAfter, Held
<1> HIDE DEF base
<1>5. h = [base EXCEPT !.tools = Stream!ToolsAfter(kind),
                       !.carried = IF text = <<>> THEN @ ELSE <<>>,
                       !.heard = IF Stream!HasText(kind) THEN Append(@, n) ELSE @]
  BY DEF Stream!Heard, base
<1> HIDE DEF h, text
<1>6. /\ h \in Held
      /\ h.carried = IF text = <<>> THEN sHold.carried ELSE <<>>
      /\ h.heard = IF Stream!HasText(kind) THEN Append(sHold.heard, n) ELSE sHold.heard
      /\ h.buffer = sHold.buffer /\ h.blank = sHold.blank
      /\ h.mute = sHold.mute /\ h.rejected = sHold.rejected
  BY <1>1, <1>3, <1>4, <1>5, TextFacts DEF Held
<1>7. text \o h.carried =
        IF Stream!HasText(kind) THEN Append(sHold.carried, n) ELSE sHold.carried
  <2>1. CASE Stream!HasText(kind)
    <3>1. text = Append(sHold.carried, n)
      BY <2>1 DEF Stream!Given, Stream!HasText, text
    <3> QED
      BY <1>1, <1>2, <1>6, <2>1, <3>1, TextFacts
  <2>2. CASE ~Stream!HasText(kind)
    <3>1. text = sHold.carried \/ text = <<>>
      BY <2>2 DEF Stream!Given, text
    <3> QED
      BY <1>1, <1>6, <2>2, <3>1, TextFacts
  <2> QED
    BY <2>1, <2>2
<1> QED
  BY <1>2, <1>6, <1>7 DEF h, text

(***************************************************************************)
(* What becomes of the promise and of the response.  Until the provider is  *)
(* cut off for what it said, the attempt runs while the connection does; a  *)
(* rejected provider is mute, and the response it broke is shut.  Text that *)
(* is held leaves a blank line, and a finished stream has left something.   *)
(***************************************************************************)
PromiseInv ==
  /\ wire.state # "closed" /\ ~sHold.rejected => sPromise = "running"
  /\ sHold.rejected => sHold.mute /\ sPromise \in {"refused", "broken"}
  /\ wire.state = "open" /\ sHold.mute => sHold.rejected
  /\ sPromise = "refused" => ~sClient.head
  /\ sPromise = "broken" /\ wire.state # "closed" => sClient.shut

BlankInv ==
  /\ sHold.blank \/ (sHold.buffer = <<>> /\ sHold.carried = <<>>)
  /\ wire.done => sHold.blank \/ sClient.head \/ sHold.rejected

(* nothing is lost on the way while the connection lasts *)
TextInv ==
  /\ sClient.head => sHold.buffer = <<>>
  /\ wire.state # "closed" /\ ~sHold.rejected => Whole(sHold, sClient)
  /\ \E rest \in Text : sHold.heard = sClient.out \o rest
  /\ wire.state = "closed" /\ sPromise = "served" /\ ~sClient.made /\ ~sHold.mute
       => sClient.out = sHold.heard

StreamInv == StreamType /\ PromiseInv /\ BlankInv

LEMMA StreamInitInv == Stream!Init => StreamInv /\ TextInv
<1> SUFFICES ASSUME Stream!Init PROVE StreamInv /\ TextInv
  OBVIOUS
<1>1. StreamInv
  BY StreamInitType DEF Stream!Init, StreamInv, PromiseInv, BlankInv
<1>2. TextInv
  BY TextFacts DEF Stream!Init, TextInv, Whole
<1> QED
  BY <1>1, <1>2

(* one chunk is delivered: what it says goes to the client or is held *)
LEMMA DeliverSteps ==
  ASSUME StreamInv, NEW kind, NEW n \in Nat, Stream!Deliver(kind, n)
  PROVE  /\ sHold' \in Held /\ sClient' \in Response
         /\ sHold'.rejected = sHold.rejected /\ sHold'.mute = sHold.mute
         /\ sClient'.shut = sClient.shut /\ sClient'.made = sClient.made
         /\ sClient' = sClient \/ sClient'.head
         /\ sHold.mute => sClient' = sClient
         /\ sHold'.blank \/ (sHold'.buffer = <<>> /\ sHold'.carried = <<>>)
         /\ kind = "done" => sHold'.blank \/ sClient'.head \/ sHold.mute
<1> DEFINE text == Stream!Given(kind, n)
           h    == Stream!Heard(kind, n)
           Good == /\ sHold' \in Held /\ sClient' \in Response
                   /\ sHold'.rejected = sHold.rejected /\ sHold'.mute = sHold.mute
                   /\ sClient'.shut = sClient.shut /\ sClient'.made = sClient.made
                   /\ sClient' = sClient \/ sClient'.head
                   /\ sHold.mute => sClient' = sClient
                   /\ sHold'.blank \/ (sHold'.buffer = <<>> /\ sHold'.carried = <<>>)
                   /\ kind = "done" => sHold'.blank \/ sClient'.head \/ sHold.mute
<1>1. /\ sHold \in Held /\ sClient \in Response
      /\ sHold.blank \/ (sHold.buffer = <<>> /\ sHold.carried = <<>>)
  BY DEF StreamInv, StreamType, BlankInv
<1>2. /\ text \in Text /\ h \in Held
      /\ h.buffer = sHold.buffer /\ h.blank = sHold.blank
      /\ h.mute = sHold.mute /\ h.rejected = sHold.rejected
      /\ h.carried \in {sHold.carried, <<>>}
  BY HeardText DEF StreamInv
<1>3. \/ sHold' = h /\ sClient' = sClient /\ (sHold.mute \/ kind # "done")
      \/ /\ ~sHold.mute /\ sClient.head /\ sHold' = h
         /\ sClient' = [sClient EXCEPT !.out = @ \o text]
      \/ /\ ~sHold.mute /\ sHold' = Stream!Buffered(h, text)
         /\ sClient' = sClient
      \/ /\ ~sHold.mute /\ sHold' = [h EXCEPT !.buffer = <<>>]
         /\ sClient' = Stream!Flushed(sClient, Stream!Buffered(h, text))
  BY DEF Stream!Deliver, Stream!Dropped
<1> HIDE DEF text, h
<1>4. CASE sHold' = h /\ sClient' = sClient /\ (sHold.mute \/ kind # "done")
  BY <1>1, <1>2, <1>4
<1>5. CASE /\ ~sHold.mute /\ sClient.head /\ sHold' = h
           /\ sClient' = [sClient EXCEPT !.out = @ \o text]
  <2>1. sClient.out \o text \in Text
    BY <1>1, <1>2, TextFacts DEF Response
  <2> QED
    BY <1>1, <1>2, <1>5, <2>1 DEF Response
<1>6. CASE /\ ~sHold.mute /\ sHold' = Stream!Buffered(h, text)
           /\ sClient' = sClient
  <2>1. h.buffer \o text \in Text
    BY <1>2, TextFacts DEF Held
  <2> QED
    BY <1>1, <1>2, <1>6, <2>1 DEF Stream!Buffered, Held
<1>7. CASE /\ ~sHold.mute /\ sHold' = [h EXCEPT !.buffer = <<>>]
           /\ sClient' = Stream!Flushed(sClient, Stream!Buffered(h, text))
  <2>1. h.buffer \o text \in Text
    BY <1>2, TextFacts DEF Held
  <2>2. sClient.out \o (h.buffer \o text) \in Text
    BY <1>1, <2>1, TextFacts DEF Response
  <2>3. sClient' = [sClient EXCEPT !.head = TRUE, !.out = @ \o (h.buffer \o text)]
    BY <1>2, <1>7 DEF Stream!Flushed, Stream!Buffered, Held
  <2>4. sClient' \in Response /\ sClient'.head
        /\ sClient'.shut = sClient.shut /\ sClient'.made = sClient.made
    BY <1>1, <2>2, <2>3 DEF Response
  <2>5. sHold' \in Held /\ sHold'.blank = h.blank /\ sHold'.carried = h.carried
        /\ sHold'.buffer = <<>>
        /\ sHold'.mute = h.mute /\ sHold'.rejected = h.rejected
    BY <1>2, <1>7, TextFacts DEF Held
  <2> QED
    BY <1>1, <1>2, <1>7, <2>4, <2>5
<1>8. Good
  BY <1>3, <1>4, <1>5, <1>6, <1>7
<1> QED
  BY <1>8

PromiseStep == [Stream!A!Next]_(Stream!A!attemptVars)

LEMMA RejectCallSteps ==
  ASSUME StreamInv, sPromise = "running", Stream!RejectCall
  PROVE  /\ sClient' \in Response /\ sPromise' \in {"refused", "broken"}
         /\ sPromise' = "refused" => ~sClient'.head
         /\ sPromise' = "broken" => sClient'.shut
         /\ sClient'.out = sClient.out /\ sClient'.made = sClient.made
         /\ sClient'.head = sClient.head
         /\ PromiseStep
<1>1. sClient \in Response
  BY DEF StreamInv, StreamType
<1>2. CASE sClient.head
  <2>1. sPromise' = "broken" /\ sClient' = [sClient EXCEPT !.shut = TRUE]
    BY <1>2 DEF Stream!RejectCall, Stream!Settle
  <2> QED
    BY <1>1, <1>2, <2>1
    DEF Response, PromiseStep, Stream!A!Next, Stream!A!Break
<1>3. CASE ~sClient.head
  <2>1. sPromise' = "refused" /\ sClient' = sClient
    BY <1>3 DEF Stream!RejectCall, Stream!Settle
  <2> QED
    BY <1>1, <1>3, <2>1
    DEF PromiseStep, Stream!A!Next, Stream!A!Refuse
<1> QED
  BY <1>2, <1>3

LEMMA ChunkSteps ==
  ASSUME StreamInv, NEW kind, Stream!Chunk(kind)
  PROVE  StreamInv' /\ PromiseStep
<1> DEFINE n     == wire.came + 1
           after == [wire EXCEPT !.came = n, !.done = kind = "done"]
<1>1. /\ wire \in [state : {"open", "cut", "closed"}, came : Nat, done : BOOLEAN]
      /\ sHold \in Held /\ sPromise \in Outcomes /\ sClient \in Response
      /\ wire.state = "open" /\ ~wire.done /\ n \in Nat
  BY DEF Stream!Chunk, StreamInv, StreamType
<1>2. /\ after \in [state : {"open", "cut", "closed"}, came : Nat, done : BOOLEAN]
      /\ after.state = "open" /\ (after.done <=> kind = "done")
  BY <1>1
<1> HIDE DEF n, after
<1>3. CASE Stream!Recalled /\ ~sClient.head /\ ~sHold.rejected
  <2>1. sPromise = "running"
    BY <1>1, <1>3 DEF StreamInv, PromiseInv
  <2>2. sPromise' = "refused" /\ sClient' = sClient
        /\ sHold' = [sHold EXCEPT !.mute = TRUE, !.rejected = TRUE]
        /\ wire' = [wire EXCEPT !.state = "cut"]
    BY <1>3, <2>1 DEF Stream!Recalled, Stream!Reject, Stream!Settle
  <2>3. StreamType'
    BY <1>1, <2>2 DEF StreamType, Held, Outcomes
  <2>4. PromiseInv' /\ BlankInv'
    BY <1>1, <1>3, <2>2 DEF PromiseInv, BlankInv, StreamInv, Held
  <2>5. PromiseStep
    BY <1>3, <2>1, <2>2 DEF PromiseStep, Stream!A!Next, Stream!A!Refuse
  <2> QED
    BY <2>3, <2>4, <2>5 DEF StreamInv
<1>4. CASE kind = "badcall" /\ Stream!BadCall(n)
  <2> DEFINE h == Stream!Heard("badcall", n)
  <2>1. h \in Held /\ h.buffer = sHold.buffer /\ h.blank = sHold.blank
        /\ h.carried \in {sHold.carried, <<>>}
    BY <1>1, HeardText DEF StreamInv
  <2>2. sHold' = [h EXCEPT !.mute = TRUE, !.rejected = TRUE]
    BY <1>4 DEF Stream!BadCall
  <2> HIDE DEF h
  <2>3. /\ sHold' \in Held /\ sHold'.mute /\ sHold'.rejected
        /\ sHold'.blank \/ (sHold'.buffer = <<>> /\ sHold'.carried = <<>>)
    BY <2>1, <2>2 DEF Held, StreamInv, BlankInv
  <2>4. /\ wire' \in [state : {"open", "cut", "closed"}, came : Nat, done : BOOLEAN]
        /\ wire'.state \in {"open", "cut"}
    BY <1>1, <1>4 DEF Stream!BadCall
  <2>5. CASE sHold.rejected
    <3>1. sPromise' = sPromise /\ sClient' = sClient
      BY <1>4, <2>5 DEF Stream!BadCall
    <3>2. StreamInv'
      BY <1>1, <2>3, <2>4, <2>5, <3>1 DEF StreamInv, StreamType, PromiseInv, BlankInv
    <3> QED
      BY <3>1, <3>2 DEF PromiseStep, Stream!A!attemptVars
  <2>6. CASE ~sHold.rejected
    <3>1. sPromise = "running" /\ Stream!RejectCall
      BY <1>1, <1>4, <2>6 DEF Stream!BadCall, StreamInv, PromiseInv
    <3>2. StreamInv'
      BY <1>1, <2>3, <2>4, <3>1, RejectCallSteps
      DEF StreamInv, StreamType, PromiseInv, BlankInv, Outcomes
    <3> QED
      BY <3>1, <3>2, RejectCallSteps
  <2> QED
    BY <2>5, <2>6
<1>5. CASE (Stream!Strip \/ Stream!Carry(n)) /\ wire' = after
  <2>1. sHold' \in Held /\ sHold'.blank
        /\ sHold'.rejected = sHold.rejected /\ sHold'.mute = sHold.mute
    <3>1. Append(sHold.carried, n) \in Text /\ Append(sHold.heard, n) \in Text
      BY <1>1, TextFacts DEF Held
    <3> QED
      BY <1>1, <1>5, <3>1 DEF Stream!Strip, Stream!Carry, Held
  <2>2. sPromise' = sPromise /\ sClient' = sClient
    BY <1>5 DEF Stream!Strip, Stream!Carry
  <2>3. StreamInv'
    BY <1>1, <1>2, <1>5, <2>1, <2>2 DEF StreamInv, StreamType, PromiseInv, BlankInv
  <2> QED
    BY <2>2, <2>3 DEF PromiseStep, Stream!A!attemptVars
<1>6. CASE Stream!Deliver(kind, n) /\ wire' = after /\ UNCHANGED sPromise
  <2>1. StreamInv'
    BY <1>1, <1>2, <1>6, DeliverSteps
    DEF StreamInv, StreamType, PromiseInv, BlankInv
  <2>2. CASE sClient' = sClient
    BY <1>6, <2>1, <2>2 DEF PromiseStep, Stream!A!attemptVars
  <2>3. CASE sClient'.head /\ ~sHold.mute
    <3>1. sPromise = "running"
      BY <1>1, <2>3 DEF StreamInv, PromiseInv
    <3> QED
      BY <1>1, <1>6, <2>1, <2>3, <3>1, DeliverSteps
      DEF PromiseStep, Stream!A!Next, Stream!A!Write
  <2> QED
    BY <1>1, <1>6, <2>1, <2>2, <2>3, DeliverSteps
<1>7. \/ Stream!Recalled /\ ~sClient.head /\ ~sHold.rejected
      \/ kind = "badcall" /\ Stream!BadCall(n)
      \/ (Stream!Strip \/ Stream!Carry(n)) /\ wire' = after
      \/ Stream!Deliver(kind, n) /\ wire' = after /\ UNCHANGED sPromise
  BY DEF Stream!Chunk, n, after
<1> QED
  BY <1>3, <1>4, <1>5, <1>6, <1>7

LEMMA LoopAbortSteps ==
  ASSUME StreamInv, Stream!LoopAbort
  PROVE  StreamInv' /\ PromiseStep
<1>1. /\ wire \in [state : {"open", "cut", "closed"}, came : Nat, done : BOOLEAN]
      /\ sHold \in Held /\ sPromise \in Outcomes /\ sClient \in Response
  BY DEF StreamInv, StreamType
<1>2. /\ sPromise = "running" /\ ~sHold.rejected /\ ~sHold.mute
      /\ wire.state = "open" /\ sPromise' = sPromise
  BY DEF Stream!LoopAbort, StreamInv, PromiseInv
<1>3. /\ wire' = [wire EXCEPT !.state = "cut"] /\ sHold' = [sHold EXCEPT !.mute = TRUE]
      /\ sClient' = IF sClient.head THEN [sClient EXCEPT !.shut = TRUE] ELSE sClient
  BY DEF Stream!LoopAbort
<1>4. StreamInv'
  BY <1>1, <1>2, <1>3
  DEF StreamInv, StreamType, PromiseInv, BlankInv, Held, Response
<1>5. PromiseStep
  <2>1. CASE sClient.head
    BY <1>1, <1>2, <1>3, <2>1
    DEF PromiseStep, Stream!A!Next, Stream!A!Close, Response
  <2>2. CASE ~sClient.head
    BY <1>2, <1>3, <2>2 DEF PromiseStep, Stream!A!attemptVars
  <2> QED
    BY <2>1, <2>2
<1> QED
  BY <1>4, <1>5

LEMMA TailedText ==
  ASSUME StreamType
  PROVE  /\ Stream!Tailed \in Held
         /\ Stream!Tailed.mute = sHold.mute /\ Stream!Tailed.rejected = sHold.rejected
         /\ Stream!Tailed.heard = sHold.heard
         /\ Stream!Tailed.carried = <<>>
         /\ sHold.blank => Stream!Tailed.blank
         /\ ~sClient.head => Stream!Tailed.buffer = sHold.buffer \o sHold.carried
         /\ Stream!Tailed.blank \/ sHold.carried = <<>>
<1>1. sHold \in Held
  BY DEF StreamType
<1>2. /\ sHold.buffer \o sHold.carried \in Text /\ <<>> \in Text
      /\ sHold.buffer \o <<>> = sHold.buffer
  BY <1>1, TextFacts DEF Held
<1>3. Stream!Counted(sHold) \in Held
  BY <1>1 DEF Stream!Counted, Held
<1> QED
  BY <1>1, <1>2, <1>3 DEF Stream!Tailed, Stream!Counted, Held

(* the provider's answer ends, judged now or rejected before; that a stream *)
(* ends with [DONE] makes a served one answered                             *)
LEMMA EndSteps ==
  ASSUME StreamInv, Stream!End
  PROVE  StreamInv' /\ (Terminated => PromiseStep)
<1>1. /\ wire \in [state : {"open", "cut", "closed"}, came : Nat, done : BOOLEAN]
      /\ sHold \in Held /\ sPromise \in Outcomes /\ sClient \in Response
      /\ wire.state # "closed" /\ wire' = [wire EXCEPT !.state = "closed"]
  BY DEF Stream!End, Stream!Ending, StreamInv, StreamType
<1>2. CASE Stream!EndRejected
  <2>1. sHold' = sHold /\ sPromise' = sPromise /\ sClient' = sClient
    BY <1>2 DEF Stream!EndRejected
  <2>2. StreamInv'
    BY <1>1, <2>1 DEF StreamInv, StreamType, PromiseInv, BlankInv
  <2> QED
    BY <2>1, <2>2 DEF PromiseStep, Stream!A!attemptVars
<1>3. CASE ~sHold.rejected /\ Stream!EndJudged
  <2>1. sPromise = "running" /\ (Terminated => wire.done)
    BY <1>1, <1>3 DEF StreamInv, PromiseInv, Stream!EndJudged
  <2>2. /\ sHold' \in Held /\ ~sHold'.rejected /\ sHold'.carried = <<>>
        /\ sHold'.buffer = <<>>
        /\ wire.done => sHold'.blank \/ sClient.head
    <3>1. sHold' = [Stream!Tailed EXCEPT !.buffer = <<>>]
      BY <1>3 DEF Stream!EndJudged
    <3> QED
      BY <1>3, <2>1, <3>1, TailedText, TextFacts DEF StreamInv, BlankInv, Held
  <2>3. CASE Stream!RejectCall
    BY <1>1, <2>1, <2>2, <2>3, RejectCallSteps
    DEF StreamInv, StreamType, PromiseInv, BlankInv, Outcomes
  <2>4. CASE ~sClient.head /\ Stream!Reject
    <3>1. sPromise' = "refused" /\ sClient' = sClient
      BY <2>1, <2>4 DEF Stream!Reject, Stream!Settle
    <3>2. PromiseStep
      BY <2>1, <2>4, <3>1 DEF PromiseStep, Stream!A!Next, Stream!A!Refuse
    <3> QED
      BY <1>1, <2>2, <2>4, <3>1, <3>2
      DEF StreamInv, StreamType, PromiseInv, BlankInv, Outcomes
  <2>5. CASE \/ Stream!ServeMade
             \/ sClient.head /\ Stream!ServeRest
             \/ ~sClient.head /\ Stream!ServeHeld
    <3>1. sPromise' = "served"
      BY <2>1, <2>5
      DEF Stream!ServeMade, Stream!ServeRest, Stream!ServeHeld, Stream!Settle
    <3>2. /\ sClient' \in Response
          /\ sClient.head => sClient'.head
          /\ Terminated => sClient'.head /\ sClient'.shut
      <4>1. CASE Stream!ServeMade
        BY <1>1, <4>1 DEF Stream!ServeMade, Response
      <4>2. CASE sClient.head /\ Stream!ServeRest
        <5>1. sClient.out \o sHold.carried \in Text
          BY <1>1, TextFacts DEF Response, Held
        <5> QED
          BY <1>1, <4>2, <5>1 DEF Stream!ServeRest, Response
      <4>3. CASE ~sClient.head /\ Stream!ServeHeld
        <5>1. /\ Stream!Tailed.buffer \in Text
              /\ Terminated => Stream!Tailed.blank
          BY <1>3, <2>1, <4>3, TailedText DEF StreamInv, BlankInv, Held
        <5>2. sClient.out \o Stream!Tailed.buffer \in Text
          BY <1>1, <5>1, TextFacts DEF Response
        <5>3. IF Stream!Tailed.blank
              THEN sClient' = [sClient EXCEPT !.head = TRUE, !.shut = TRUE,
                                              !.out = @ \o Stream!Tailed.buffer]
              ELSE sClient' = sClient
          BY <1>1, <4>3 DEF Stream!ServeHeld, Stream!Flushed, Response
        <5> QED
          BY <1>1, <4>3, <5>1, <5>2, <5>3 DEF Response
      <4> QED
        BY <2>5, <4>1, <4>2, <4>3
    <3>3. Terminated => PromiseStep
      BY <2>1, <3>1, <3>2 DEF PromiseStep, Stream!A!Next, Stream!A!Serve, Response
    <3> QED
      BY <1>1, <2>2, <3>1, <3>2, <3>3
      DEF StreamInv, StreamType, PromiseInv, BlankInv, Outcomes
  <2> QED
    BY <1>3, <2>3, <2>4, <2>5
    DEF Stream!EndJudged, Stream!EndWithCalls, Stream!EndWithText
<1> QED
  BY <1>2, <1>3 DEF Stream!End

LEMMA FailSteps ==
  ASSUME StreamInv, Stream!Fail
  PROVE  StreamInv' /\ PromiseStep
<1>1. /\ wire \in [state : {"open", "cut", "closed"}, came : Nat, done : BOOLEAN]
      /\ sHold \in Held /\ sPromise \in Outcomes /\ sClient \in Response
      /\ wire.state # "closed" /\ wire' = [wire EXCEPT !.state = "closed"]
      /\ sHold' = sHold
  BY DEF Stream!Fail, Stream!Ending, StreamInv, StreamType
<1>2. /\ sPromise' = IF sPromise = "running"
                     THEN IF sClient.head THEN "broken" ELSE "refused"
                     ELSE sPromise
      /\ \/ sClient' = sClient
         \/ sClient.head /\ sClient' = [sClient EXCEPT !.shut = TRUE]
  BY DEF Stream!Fail, Stream!Settle
<1>3. CASE sPromise = "running"
  <2>1. StreamInv'
    BY <1>1, <1>2, <1>3
    DEF StreamInv, StreamType, PromiseInv, BlankInv, Outcomes, Response
  <2>2. CASE sClient.head
    BY <1>1, <1>2, <1>3, <2>1, <2>2
    DEF PromiseStep, Stream!A!Next, Stream!A!Break, Response
  <2>3. CASE ~sClient.head
    BY <1>2, <1>3, <2>1, <2>3 DEF PromiseStep, Stream!A!Next, Stream!A!Refuse
  <2> QED
    BY <2>2, <2>3
<1>4. CASE sPromise # "running"
  <2>1. sHold.rejected /\ sPromise \in {"refused", "broken"}
    BY <1>1, <1>4 DEF StreamInv, PromiseInv
  <2>2. sClient' = sClient
    BY <1>1, <1>2, <2>1 DEF StreamInv, PromiseInv, Response
  <2>3. StreamInv'
    BY <1>1, <1>2, <1>4, <2>1, <2>2
    DEF StreamInv, StreamType, PromiseInv, BlankInv
  <2> QED
    BY <1>2, <1>4, <2>2, <2>3 DEF PromiseStep, Stream!A!attemptVars
<1> QED
  BY <1>3, <1>4

(* the text of the stream *)

LEMMA DeliverText ==
  ASSUME StreamInv, TextInv, wire.state = "open", NEW kind, kind # "mixed",
         NEW n \in Nat, Stream!Deliver(kind, n)
  PROVE  /\ sClient'.head => sHold'.buffer = <<>>
         /\ ~sHold'.rejected => Whole(sHold', sClient')
         /\ \E rest \in Text : sHold'.heard = sClient'.out \o rest
<1> DEFINE text == Stream!Given(kind, n)
           h    == Stream!Heard(kind, n)
           out  == sClient.out
           buf  == sHold.buffer
           car  == sHold.carried
           more == IF Stream!HasText(kind) THEN <<n>> ELSE <<>>
           Good == /\ sClient'.head => sHold'.buffer = <<>>
                   /\ ~sHold'.rejected => Whole(sHold', sClient')
                   /\ \E rest \in Text : sHold'.heard = sClient'.out \o rest
<1>1. /\ sHold \in Held /\ sClient \in Response
      /\ out \in Text /\ buf \in Text /\ car \in Text /\ sHold.heard \in Text
      /\ sClient.head => buf = <<>>
      /\ sHold.mute => sHold.rejected
  BY DEF StreamInv, StreamType, PromiseInv, TextInv, Held, Response
<1>2. /\ text \in Text /\ h \in Held
      /\ h.buffer = buf /\ h.mute = sHold.mute /\ h.rejected = sHold.rejected
      /\ text \o h.carried = IF Stream!HasText(kind) THEN Append(car, n) ELSE car
      /\ h.heard = IF Stream!HasText(kind) THEN Append(sHold.heard, n)
                   ELSE sHold.heard
  BY HeardText DEF StreamInv
<1>3. PICK rest \in Text : sHold.heard = out \o rest
  BY DEF TextInv
<1>4. \E tail \in Text : h.heard = out \o tail
  <2>1. Append(rest, n) \in Text /\ Append(out \o rest, n) = out \o Append(rest, n)
    BY <1>1, Appended
  <2> QED
    BY <1>2, <1>3, <2>1
<1>5. kind = "telemetry" => text = <<>>
  BY DEF Stream!Given, Stream!HasText
<1>6. h.carried \in Text
  BY <1>2 DEF Held
<1>14. out \in Text /\ buf \in Text /\ car \in Text /\ text \in Text
  BY <1>1, <1>2
<1>15. /\ (out \o buf) \o text = out \o (buf \o text)
       /\ ((out \o buf) \o text) \o h.carried = (out \o buf) \o (text \o h.carried)
       /\ Append((out \o buf) \o car, n) = (out \o buf) \o Append(car, n)
  <2> DEFINE joined(s, t) == s \o t
  <2>1. out \o buf \in Text
    BY <1>14, TextFacts
  <2>2. \A s, t, u \in Text : joined(joined(s, t), u) = joined(s, joined(t, u))
    BY Regrouped, Zenon
  <2>3. joined(out, buf) \in Text
    BY <2>1
  <2> HIDE DEF joined
  <2>4. joined(joined(out, buf), text) = joined(out, joined(buf, text))
    BY <1>14, <2>2
  <2>5. joined(joined(joined(out, buf), text), h.carried)
          = joined(joined(out, buf), joined(text, h.carried))
    BY <1>6, <1>14, <2>2, <2>3
  <2>6. Append((out \o buf) \o car, n) = (out \o buf) \o Append(car, n)
    BY <1>14, <2>1, Appended
  <2> QED
    BY <2>4, <2>5, <2>6 DEF joined
<1>7. ~sHold.rejected => h.heard = ((out \o buf) \o text) \o h.carried
  <2> SUFFICES ASSUME ~sHold.rejected
               PROVE  h.heard = ((out \o buf) \o text) \o h.carried
    OBVIOUS
  <2>1. sHold.heard = (out \o buf) \o car /\ out \o buf \in Text
    BY <1>1, TextFacts DEF TextInv, Whole
  <2>3. CASE Stream!HasText(kind)
    BY <1>2, <1>15, <2>1, <2>3
  <2>4. CASE ~Stream!HasText(kind)
    BY <1>2, <1>15, <2>1, <2>4
  <2> QED
    BY <2>3, <2>4
<1>8. \/ sHold' = h /\ sClient' = sClient /\ (sHold.mute \/ kind = "telemetry")
      \/ /\ ~sHold.mute /\ sClient.head /\ sHold' = h
         /\ sClient' = [sClient EXCEPT !.out = @ \o text]
      \/ /\ ~sHold.mute /\ ~sClient.head /\ sHold' = Stream!Buffered(h, text)
         /\ sClient' = sClient
      \/ /\ ~sHold.mute /\ ~sClient.head /\ sHold' = [h EXCEPT !.buffer = <<>>]
         /\ sClient' = Stream!Flushed(sClient, Stream!Buffered(h, text))
  BY DEF Stream!Deliver, Stream!Dropped
<1> HIDE DEF text, h
<1>9. CASE sHold' = h /\ sClient' = sClient /\ (sHold.mute \/ kind = "telemetry")
  <2>1. ~sHold.rejected => Whole(h, sClient)
    <3> SUFFICES ASSUME ~sHold.rejected PROVE Whole(h, sClient)
      OBVIOUS
    <3>1. (out \o buf) \o text = out \o buf
      BY <1>1, <1>5, <1>9, TextFacts
    <3> QED
      BY <1>2, <1>7, <3>1 DEF Whole
  <2> QED
    BY <1>1, <1>2, <1>4, <1>9, <2>1
<1>10. CASE /\ ~sHold.mute /\ sClient.head /\ sHold' = h
            /\ sClient' = [sClient EXCEPT !.out = @ \o text]
  <2>1. sClient'.out = out \o text /\ buf = <<>> /\ out \o text \in Text
    BY <1>1, <1>2, <1>10, TextFacts DEF Response
  <2>2. ~sHold.rejected
    BY <1>10 DEF StreamInv, PromiseInv
  <2>3. h.heard = (out \o text) \o h.carried
    BY <1>1, <1>7, <2>1, <2>2, TextFacts
  <2>4. (out \o text) \o buf = out \o text
    BY <2>1, TextFacts
  <2> QED
    BY <1>2, <1>6, <1>10, <2>1, <2>3, <2>4 DEF Whole
<1>11. CASE /\ ~sHold.mute /\ ~sClient.head /\ sHold' = Stream!Buffered(h, text)
            /\ sClient' = sClient
  <2>1. ~sHold.rejected
    BY <1>11 DEF StreamInv, PromiseInv
  <2>2. sHold'.buffer = buf \o text /\ sHold'.heard = h.heard
        /\ sHold'.carried = h.carried /\ buf \o text \in Text
    BY <1>1, <1>2, <1>11, TextFacts DEF Stream!Buffered, Held
  <2> QED
    BY <1>4, <1>7, <1>11, <1>15, <2>1, <2>2 DEF Whole
<1>12. CASE /\ ~sHold.mute /\ ~sClient.head /\ sHold' = [h EXCEPT !.buffer = <<>>]
            /\ sClient' = Stream!Flushed(sClient, Stream!Buffered(h, text))
  <2>1. ~sHold.rejected
    BY <1>12 DEF StreamInv, PromiseInv
  <2>2. Stream!Buffered(h, text).buffer = buf \o text /\ buf \o text \in Text
    BY <1>1, <1>2, TextFacts DEF Stream!Buffered, Held
  <2>3. sClient'.out = out \o (buf \o text)
    BY <1>1, <1>12, <2>2 DEF Stream!Flushed, Response
  <2>4. sHold'.buffer = <<>> /\ sHold'.heard = h.heard /\ sHold'.carried = h.carried
    BY <1>2, <1>12 DEF Held
  <2>5. out \o (buf \o text) \in Text
    BY <1>14, <2>2, TextFacts
  <2>6. sClient'.out \o sHold'.buffer = sClient'.out
    BY <2>3, <2>4, <2>5, TextFacts
  <2> QED
    BY <1>6, <1>7, <1>15, <2>1, <2>3, <2>4, <2>5, <2>6 DEF Whole
<1>13. Good
  BY <1>8, <1>9, <1>10, <1>11, <1>12
<1> QED
  BY <1>13

LEMMA ChunkText ==
  ASSUME StreamInv, TextInv, NEW kind, kind # "mixed", Stream!Chunk(kind)
  PROVE  TextInv'
<1> DEFINE n == wire.came + 1
<1>1. /\ sHold \in Held /\ sClient \in Response /\ n \in Nat
      /\ wire.state = "open" /\ wire'.state # "closed"
  <2>1. /\ wire \in [state : {"open", "cut", "closed"}, came : Nat, done : BOOLEAN]
        /\ sHold \in Held /\ sClient \in Response
    BY DEF StreamInv, StreamType
  <2>2. wire.state = "open"
    BY DEF Stream!Chunk
  <2>3. CASE Stream!Recalled \/ Stream!BadCall(n)
    <3>1. wire'.state \in {wire.state, "cut"}
      BY <2>1, <2>3 DEF Stream!Recalled, Stream!BadCall
    <3> QED
      BY <2>1, <2>2, <3>1
  <2>4. CASE wire' = [wire EXCEPT !.came = n, !.done = kind = "done"]
    BY <2>1, <2>2, <2>4
  <2> QED
    BY <2>1, <2>2, <2>3, <2>4 DEF Stream!Chunk
<1>2. PICK rest \in Text : sHold.heard = sClient.out \o rest
  BY DEF TextInv
<1> HIDE DEF n
<1>3. CASE Stream!Recalled
  <2>1. sHold' = [sHold EXCEPT !.mute = TRUE, !.rejected = TRUE] /\ sClient' = sClient
    BY <1>3 DEF Stream!Recalled, Stream!Reject
  <2> QED
    BY <1>1, <2>1 DEF TextInv, Held
<1>4. CASE Stream!BadCall(n)
  <2> DEFINE h == Stream!Heard("badcall", n)
  <2>1. h \in Held /\ h.buffer = sHold.buffer /\ h.heard = sHold.heard
    BY <1>1, HeardText DEF StreamInv, Stream!HasText
  <2>2. sHold' = [h EXCEPT !.mute = TRUE, !.rejected = TRUE]
    BY <1>4 DEF Stream!BadCall
  <2>3. sClient'.out = sClient.out /\ sClient'.head = sClient.head
    BY <1>1, <1>4 DEF Stream!BadCall, Stream!RejectCall, Response
  <2> HIDE DEF h
  <2>4. sHold'.rejected /\ sHold'.buffer = sHold.buffer /\ sHold'.heard = sHold.heard
    BY <2>1, <2>2 DEF Held
  <2> QED
    BY <1>1, <2>3, <2>4 DEF TextInv
<1>5. CASE Stream!Strip
  BY <1>1, <1>5 DEF Stream!Strip, TextInv, Whole, Held
<1>6. CASE Stream!Carry(n)
  <2>1. /\ sHold'.carried = Append(sHold.carried, n)
        /\ sHold'.heard = Append(sHold.heard, n)
        /\ sHold'.buffer = sHold.buffer /\ sHold'.rejected = sHold.rejected
        /\ sClient' = sClient
    BY <1>1, <1>6 DEF Stream!Carry, Held
  <2>2. sClient.out \in Text /\ sHold.buffer \in Text /\ sHold.carried \in Text
        /\ sClient.out \o sHold.buffer \in Text
    BY <1>1, TextFacts DEF Held, Response
  <2>3. ~sHold.rejected => Whole(sHold', sClient')
    <3>1. Append((sClient.out \o sHold.buffer) \o sHold.carried, n)
            = (sClient.out \o sHold.buffer) \o Append(sHold.carried, n)
      <4>1. n \in Nat
        BY <1>1
      <4> QED
        BY <2>2, <4>1, Appended
    <3> QED
      BY <1>1, <2>1, <3>1 DEF TextInv, Whole
  <2>4. sHold'.heard = sClient.out \o Append(rest, n) /\ Append(rest, n) \in Text
    <3>1. n \in Nat /\ sClient.out \in Text
      BY <1>1, <2>2
    <3>2. Append(rest, n) \in Text
          /\ Append(sClient.out \o rest, n) = sClient.out \o Append(rest, n)
      BY <3>1, Appended
    <3> QED
      BY <1>2, <2>1, <3>2
  <2> QED
    BY <1>1, <2>1, <2>3, <2>4 DEF TextInv
<1>7. CASE Stream!Deliver(kind, n)
  BY <1>1, <1>7, DeliverText DEF TextInv
<1> QED
  BY <1>3, <1>4, <1>5, <1>6, <1>7 DEF Stream!Chunk, n

LEMMA EndText ==
  ASSUME StreamInv, TextInv, Stream!End
  PROVE  TextInv'
<1> DEFINE out  == sClient.out
           held == sHold.buffer \o sHold.carried
<1>1. /\ sHold \in Held /\ sClient \in Response /\ out \in Text
      /\ sHold.buffer \in Text /\ sHold.carried \in Text /\ held \in Text
      /\ wire.state # "closed" /\ wire'.state = "closed"
  BY TextFacts DEF Stream!End, Stream!Ending, StreamInv, StreamType, Held, Response
<1>2. CASE Stream!EndRejected
  BY <1>1, <1>2 DEF Stream!EndRejected, TextInv, StreamInv, PromiseInv
<1>3. CASE ~sHold.rejected /\ Stream!EndJudged
  <2>1. sHold'.heard = sHold.heard /\ sHold'.buffer = <<>>
    <3>1. sHold' = [Stream!Tailed EXCEPT !.buffer = <<>>]
      BY <1>3 DEF Stream!EndJudged
    <3> QED
      BY <3>1, TailedText DEF StreamInv, Held
  <2>2. sHold.heard = out \o held
    <3>1. sHold.heard = (out \o sHold.buffer) \o sHold.carried
      BY <1>1, <1>3 DEF TextInv, Whole
    <3>2. (out \o sHold.buffer) \o sHold.carried = out \o (sHold.buffer \o sHold.carried)
      BY <1>1, Regrouped, Zenon
    <3> QED
      BY <3>1, <3>2
  <2>3. sPromise = "running"
    BY <1>1, <1>3 DEF StreamInv, PromiseInv
  <2>4. CASE (Stream!RejectCall \/ Stream!Reject)
    <3>1. sPromise' # "served" /\ sClient'.out = out
      BY <1>1, <2>3, <2>4 DEF Stream!RejectCall, Stream!Reject, Stream!Settle, Response
    <3> QED
      BY <1>1, <2>1, <2>2, <3>1 DEF TextInv
  <2>5. CASE Stream!ServeMade
    <3>1. sClient'.made /\ sClient'.out = out
      BY <1>1, <2>5 DEF Stream!ServeMade, Response
    <3> QED
      BY <1>1, <2>1, <2>2, <3>1 DEF TextInv
  <2>6. CASE sClient.head /\ Stream!ServeRest
    <3>1. sHold.buffer = <<>> /\ sClient'.out = out \o sHold.carried
      BY <1>1, <2>6 DEF Stream!ServeRest, TextInv, Response
    <3>2. sClient'.out = out \o held
      BY <1>1, <3>1, TextFacts
    <3>3. sHold'.heard = sClient'.out
      BY <2>1, <2>2, <3>2
    <3>4. sHold'.heard = sClient'.out \o <<>> /\ <<>> \in Text
      <4>1. out \o held \in Text
        BY <1>1, TextFacts
      <4> QED
        BY <2>1, <2>2, <3>3, <4>1, TextFacts
    <3> QED
      BY <1>1, <2>1, <3>3, <3>4 DEF TextInv
  <2>7. CASE ~sClient.head /\ Stream!ServeHeld
    <3>1. Stream!Tailed.buffer = held
      BY <2>7, TailedText DEF StreamInv
    <3>2. sClient'.out = out \o held
      <4>1. CASE Stream!Tailed.blank
        BY <1>1, <2>7, <3>1, <4>1 DEF Stream!ServeHeld, Stream!Flushed, Response
      <4>2. CASE ~Stream!Tailed.blank
        <5>1. sHold.buffer = <<>> /\ sHold.carried = <<>>
          BY <4>2, TailedText DEF StreamInv, BlankInv
        <5>2. sClient' = sClient
          BY <2>7, <4>2 DEF Stream!ServeHeld
        <5> QED
          BY <1>1, <5>1, <5>2, TextFacts
      <4> QED
        BY <4>1, <4>2
    <3>3. sHold'.heard = sClient'.out
      BY <2>1, <2>2, <3>2
    <3>4. sHold'.heard = sClient'.out \o <<>> /\ <<>> \in Text
      <4>1. out \o held \in Text
        BY <1>1, TextFacts
      <4> QED
        BY <2>1, <2>2, <3>3, <4>1, TextFacts
    <3> QED
      BY <1>1, <2>1, <3>3, <3>4 DEF TextInv
  <2> QED
    BY <1>3, <2>4, <2>5, <2>6, <2>7
    DEF Stream!EndJudged, Stream!EndWithCalls, Stream!EndWithText
<1> QED
  BY <1>2, <1>3 DEF Stream!End

LEMMA OtherText ==
  ASSUME StreamInv, TextInv, Stream!LoopAbort \/ Stream!Fail \/ UNCHANGED Stream!vars
  PROVE  TextInv'
<1>1. /\ sHold \in Held /\ sClient \in Response
  BY DEF StreamInv, StreamType
<1>2. CASE Stream!LoopAbort
  <2>1. /\ sHold'.heard = sHold.heard /\ sHold'.buffer = sHold.buffer
        /\ sHold'.carried = sHold.carried /\ sHold'.rejected = sHold.rejected
        /\ sClient'.head = sClient.head /\ sClient'.out = sClient.out
        /\ wire.state # "closed" /\ wire'.state # "closed"
    BY <1>1, <1>2
    DEF Stream!LoopAbort, Held, Response, StreamInv, StreamType
  <2> QED
    BY <2>1 DEF TextInv, Whole
<1>3. CASE Stream!Fail
  <2>1. /\ sHold' = sHold /\ sClient'.head = sClient.head /\ sClient'.out = sClient.out
        /\ wire'.state = "closed" /\ sPromise' # "served"
    BY <1>1, <1>3
    DEF Stream!Fail, Stream!Ending, Stream!Settle, Response,
        StreamInv, StreamType, PromiseInv
  <2> QED
    BY <2>1 DEF TextInv
<1>4. CASE UNCHANGED Stream!vars
  BY <1>4 DEF Stream!vars, TextInv, Whole
<1> QED
  BY <1>2, <1>3, <1>4

LEMMA StreamTextSteps ==
  ASSUME StreamInv, TextInv, "mixed" \notin ChunkKinds, [Stream!Next]_Stream!vars
  PROVE  TextInv'
<1>1. ASSUME NEW kind \in ChunkKinds, Stream!Chunk(kind) PROVE TextInv'
  BY <1>1, ChunkText
<1> QED
  BY <1>1, EndText, OtherText DEF Stream!Next, Stream!Settled

LEMMA StreamSteps ==
  ASSUME StreamInv, [Stream!Next]_Stream!vars
  PROVE  StreamInv' /\ (Terminated => PromiseStep)
<1>1. CASE UNCHANGED Stream!vars
  BY <1>1
  DEF Stream!vars, StreamInv, StreamType, PromiseInv, BlankInv,
      PromiseStep, Stream!A!attemptVars
<1>2. CASE Stream!Settled
  BY <1>1, <1>2 DEF Stream!Settled
<1> QED
  BY <1>1, <1>2, ChunkSteps, LoopAbortSteps, EndSteps, FailSteps DEF Stream!Next

(* An attempt by stream keeps the promise of Attempt: it settles once, and   *)
(* nothing that comes late touches a response that is no longer its own.     *)
THEOREM StreamKeepsPromise ==
  ASSUME Terminated
  PROVE  Stream!Spec => Stream!KeepsPromise
<1>1. Stream!Init => Stream!A!Init
  BY DEF Stream!Init, Stream!A!Init
<1>2. StreamInv /\ [Stream!Next]_Stream!vars => StreamInv'
  BY StreamSteps
<1>3. StreamInv /\ [Stream!Next]_Stream!vars => [Stream!A!Next]_(Stream!A!attemptVars)
  BY StreamSteps DEF PromiseStep
<1>4. Stream!Init => StreamInv
  BY StreamInitInv
<1> QED
  BY <1>1, <1>2, <1>3, <1>4, PTL DEF Stream!Spec, Stream!KeepsPromise, Stream!A!Spec


(* The client gets what the provider sent, from the beginning and without    *)
(* gaps, and all of it when it was served in the provider's words, unless    *)
(* telemetry shares a chunk with it.                                         *)
THEOREM StreamLosesNothing ==
  ASSUME "mixed" \notin ChunkKinds
  PROVE  Stream!Spec => []Stream!NothingLost
<1>1. Stream!Init => StreamInv /\ TextInv
  BY StreamInitInv
<1>2. StreamInv /\ TextInv /\ [Stream!Next]_Stream!vars => StreamInv' /\ TextInv'
  BY StreamSteps, StreamTextSteps
<1>3. StreamInv /\ TextInv => Stream!NothingLost
  <2> SUFFICES ASSUME StreamInv, TextInv PROVE Stream!NothingLost
    OBVIOUS
  <2>1. sClient.out \in Text
    BY DEF StreamInv, StreamType, Response
  <2>2. Stream!Prefix(sClient.out, sHold.heard)
    BY <2>1, Beginning DEF TextInv
  <2>3. sPromise = "served" => wire.state = "closed"
    BY DEF StreamInv, PromiseInv
  <2> QED
    BY <2>2, <2>3 DEF TextInv, Stream!NothingLost
<1> QED
  BY <1>1, <1>2, <1>3, PTL DEF Stream!Spec

-----------------------------------------------------------------------------
(* Native streams                                                          *)

NativeHeld == [tools : {"none", "pending", "whole"}, useful : BOOLEAN, carried : Text,
               buffer : Text, kept : BOOLEAN, heard : Text, offers : BOOLEAN]

(* an attempt that still runs has neither shut the response nor lost text;   *)
(* what a served one was given in the provider's words is all that was heard *)
NativeInv ==
  /\ came \in Nat
  /\ nHold \in NativeHeld
  /\ nPromise \in Outcomes
  /\ nClient \in Response
  /\ nPromise = "running" => ~nClient.shut /\ Whole(nHold, nClient)
  /\ \E rest \in Text : nHold.heard = nClient.out \o rest
  /\ nPromise = "served" /\ ~nClient.made => nClient.out = nHold.heard

NativeStep == [Native!A!Next]_(Native!A!attemptVars)

LEMMA NativeInitInv == Native!Init => NativeInv
BY TextFacts DEF Native!Init, NativeInv, NativeHeld, Outcomes, Response, Whole

(* text is held behind what is held already, or all of it is written *)
LEMMA Processed ==
  ASSUME NativeInv, NEW kind, NEW text \in Text, NEW r \in Native!Process(kind, text)
  PROVE  /\ r[1] \in NativeHeld /\ r[2] \in Response
         /\ r[1].heard = nHold.heard /\ r[1].carried = <<>>
         /\ r[2].shut = nClient.shut /\ r[2].made = nClient.made
         /\ r[2] = nClient \/ r[2].head
         /\ nClient.head => r[2].head
         /\ r[2].out \o r[1].buffer = (nClient.out \o nHold.buffer) \o text
<1> DEFINE Good == /\ r[1] \in NativeHeld /\ r[2] \in Response
                   /\ r[1].heard = nHold.heard /\ r[1].carried = <<>>
                   /\ r[2].shut = nClient.shut /\ r[2].made = nClient.made
                   /\ r[2] = nClient \/ r[2].head
                   /\ nClient.head => r[2].head
                   /\ r[2].out \o r[1].buffer = (nClient.out \o nHold.buffer) \o text
<1>1. /\ nHold \in NativeHeld /\ nClient \in Response
      /\ nClient.out \in Text /\ nHold.buffer \in Text
  BY DEF NativeInv, NativeHeld, Response
<1>2. PICK h \in Native!Taken(kind, text) :
        \/ r = <<Native!Emptied(h), Native!Flushed(h)>>
        \/ r = <<h, nClient>> /\ ~nClient.head
  BY DEF Native!Process
<1>3. PICK useful \in BOOLEAN :
        h = [nHold EXCEPT !.tools = Native!ToolsAfter(kind), !.carried = <<>>,
                          !.useful = useful, !.buffer = @ \o text, !.kept = TRUE]
  BY <1>2 DEF Native!Taken
<1>4. Native!ToolsAfter(kind) \in {"none", "pending", "whole"}
  BY <1>1 DEF Native!ToolsAfter, NativeHeld
<1>5. /\ nHold.buffer \o text \in Text
      /\ nClient.out \o (nHold.buffer \o text) \in Text
      /\ (nClient.out \o nHold.buffer) \o text = nClient.out \o (nHold.buffer \o text)
  BY <1>1, TextFacts, Regrouped
<1>6. /\ h \in NativeHeld /\ h.heard = nHold.heard /\ h.carried = <<>>
      /\ h.buffer = nHold.buffer \o text
  BY <1>1, <1>3, <1>4, <1>5, TextFacts DEF NativeHeld
<1>7. CASE r = <<Native!Emptied(h), Native!Flushed(h)>>
  <2>1. /\ r[1] = [h EXCEPT !.buffer = <<>>, !.kept = FALSE]
        /\ r[2] = [nClient EXCEPT !.head = TRUE, !.out = @ \o h.buffer]
    BY <1>7 DEF Native!Emptied, Native!Flushed
  <2>2. /\ r[1] \in NativeHeld /\ r[1].heard = h.heard /\ r[1].carried = h.carried
        /\ r[1].buffer = <<>>
    BY <1>6, <2>1, TextFacts DEF NativeHeld
  <2>3. /\ r[2] \in Response /\ r[2].head /\ r[2].out = nClient.out \o h.buffer
        /\ r[2].shut = nClient.shut /\ r[2].made = nClient.made
    <3>1. PICK t \in Text : t = nClient.out \o h.buffer
      BY <1>5, <1>6
    <3>2. r[2] = [nClient EXCEPT !.head = TRUE, !.out = t]
      BY <2>1, <3>1
    <3>3. nClient \in Response
      BY <1>1
    <3> QED
      BY <3>1, <3>2, <3>3 DEF Response
  <2>4. r[2].out \o r[1].buffer = r[2].out
    BY <1>5, <1>6, <2>2, <2>3, TextFacts
  <2>5. Good
    BY <1>5, <1>6, <2>2, <2>3, <2>4
  <2> QED
    BY <2>5
<1>8. CASE r = <<h, nClient>> /\ ~nClient.head
  <2>1. Good
    BY <1>1, <1>5, <1>6, <1>8
  <2> QED
    BY <2>1
<1> QED
  BY <1>2, <1>7, <1>8

LEMMA NativeThrow ==
  ASSUME NativeInv, nPromise = "running", Native!Throw, UNCHANGED <<came, nHold>>
  PROVE  NativeInv' /\ NativeStep
<1>1. nClient \in Response /\ nClient.head \in BOOLEAN /\ ~nClient.shut
  BY DEF NativeInv, Response
<1>2. /\ nClient' = [nClient EXCEPT !.shut = nClient.head]
      /\ nPromise' = IF nClient.head THEN "broken" ELSE "refused"
  BY DEF Native!Throw
<1>3. /\ nClient' \in Response /\ nClient'.out = nClient.out
      /\ nClient'.head = nClient.head /\ nClient'.shut = nClient.head
      /\ nPromise' \in {"broken", "refused"}
  BY <1>1, <1>2 DEF Response
<1>4. NativeInv'
  <2>1. PICK rest \in Text : nHold.heard = nClient.out \o rest
    BY DEF NativeInv
  <2>2. nHold' = nHold /\ came' = came
    OBVIOUS
  <2>3. nHold'.heard = nClient'.out \o rest
    BY <1>3, <2>1, <2>2
  <2>4. nHold' \in NativeHeld /\ came' \in Nat /\ nPromise' \in Outcomes
    BY <1>3, <2>2 DEF NativeInv, Outcomes
  <2>5. \E r \in Text : nHold'.heard = nClient'.out \o r
    BY <2>3
  <2>6. nPromise' # "running" /\ nPromise' # "served" /\ nClient' \in Response
    BY <1>3
  <2>7. (nPromise = "running" => ~nClient.shut /\ Whole(nHold, nClient))'
    BY <2>6
  <2>8. (nPromise = "served" /\ ~nClient.made => nClient.out = nHold.heard)'
    BY <2>6
  <2>9. (\E r \in Text : nHold.heard = nClient.out \o r)'
    BY <2>5
  <2>10. (came \in Nat /\ nHold \in NativeHeld /\ nPromise \in Outcomes /\ nClient \in Response)'
    BY <2>4, <2>6
  <2> QED
    BY <2>7, <2>8, <2>9, <2>10, Zenon DEF NativeInv
<1>5. NativeStep
  <2>1. CASE nClient.head
    <3>1. Native!A!Break
      BY <1>2, <1>3, <2>1 DEF Native!A!Break
    <3> QED
      BY <3>1 DEF NativeStep, Native!A!Next
  <2>2. CASE ~nClient.head
    <3>1. nClient.shut = FALSE /\ nClient.head = FALSE
      BY <1>1, <2>2 DEF Response
    <3>2. nClient'.shut = nClient.shut /\ nClient'.head = nClient.head
      BY <1>3, <3>1
    <3>3. Native!A!Refuse
      BY <1>2, <2>2, <3>2 DEF Native!A!Refuse
    <3> QED
      BY <3>3 DEF NativeStep, Native!A!Next
  <2> QED
    BY <2>1, <2>2
<1> QED
  BY <1>4, <1>5

LEMMA NativeChunk ==
  ASSUME NativeInv, NEW kind, Native!Chunk(kind)
  PROVE  NativeInv' /\ NativeStep
<1> DEFINE n    == came + 1
           out  == nClient.out
           buf  == nHold.buffer
           car  == nHold.carried
           text == Native!Given(kind, n)
<1>1. /\ n \in Nat /\ nHold \in NativeHeld /\ nClient \in Response
      /\ nPromise = "running" /\ nPromise' = nPromise /\ came' = n
      /\ ~nClient.shut /\ nHold.heard = (out \o buf) \o car
  <2>1. nPromise = "running" /\ came' = came + 1 /\ nPromise' = nPromise
    BY DEF Native!Chunk, Native!Running
  <2>2. came \in Nat /\ nHold \in NativeHeld /\ nClient \in Response
    BY DEF NativeInv
  <2>3. ~nClient.shut
    BY <2>1 DEF NativeInv
  <2>4. nHold.heard = (out \o buf) \o car
    BY <2>1 DEF NativeInv, Whole
  <2> QED
    BY <2>1, <2>2, <2>3, <2>4
<1>2. /\ out \in Text /\ buf \in Text /\ car \in Text /\ nHold.heard \in Text
      /\ out \o buf \in Text
  BY <1>1, TextFacts DEF NativeHeld, Response
<1>3. PICK rest \in Text : nHold.heard = out \o rest
  BY DEF NativeInv
<1> HIDE DEF n
<1>4. CASE /\ kind = "text"
           /\ nHold' = [Native!Heard(nHold, kind, n) EXCEPT
                          !.carried = Append(@, n), !.kept = TRUE]
           /\ UNCHANGED nClient
  <2>1. Append(car, n) \in Text /\ Append(nHold.heard, n) \in Text
    BY <1>1, <1>2, TextFacts
  <2>2. nHold' = [nHold EXCEPT !.heard = Append(@, n), !.carried = Append(@, n),
                               !.kept = TRUE]
    BY <1>1, <1>4 DEF Native!Heard, NativeHeld
  <2>3. /\ nHold' \in NativeHeld /\ nHold'.heard = Append(nHold.heard, n)
        /\ nHold'.carried = Append(car, n) /\ nHold'.buffer = buf
    BY <1>1, <2>1, <2>2 DEF NativeHeld
  <2>4. Append((out \o buf) \o car, n) = (out \o buf) \o Append(car, n)
    BY <1>1, <1>2, Appended
  <2>5. /\ Append(rest, n) \in Text
        /\ Append(out \o rest, n) = out \o Append(rest, n)
    BY <1>1, <1>2, Appended
  <2>6. NativeInv'
    BY <1>1, <1>3, <1>4, <2>3, <2>4, <2>5 DEF NativeInv, Whole
  <2> QED
    BY <1>1, <1>4, <2>6 DEF NativeStep, Native!A!attemptVars
<1>5. CASE \E r \in Native!Process(kind, text) :
             /\ nHold' = [Native!Heard(r[1], kind, n) EXCEPT
                            !.carried = IF text = <<>> THEN car ELSE <<>>]
             /\ nClient' = r[2]
  <2>1. PICK r \in Native!Process(kind, text) :
          /\ nHold' = [Native!Heard(r[1], kind, n) EXCEPT
                         !.carried = IF text = <<>> THEN car ELSE <<>>]
          /\ nClient' = r[2]
    BY <1>5
  <2>2. text \in Text
    BY <1>1, <1>2, TextFacts DEF Native!Given
  <2> DEFINE after == IF text = <<>> THEN car ELSE <<>>
             now  == IF kind = "text" THEN Append(nHold.heard, n) ELSE nHold.heard
  <2>3. text \o after = IF kind = "text" THEN Append(car, n) ELSE car
    <3>1. CASE kind = "text"
      <4>1. text = Append(car, n)
        BY <3>1 DEF Native!Given
      <4> QED
        BY <1>1, <1>2, <3>1, <4>1, TextFacts
    <3>2. CASE kind # "text"
      <4>1. text = car \/ text = <<>>
        BY <3>2 DEF Native!Given
      <4> QED
        BY <1>2, <3>2, <4>1, TextFacts
    <3> QED
      BY <3>1, <3>2
  <2>4. after \in Text /\ now \in Text
    BY <1>1, <1>2, TextFacts
  <2>12. now = IF kind = "text" THEN Append(nHold.heard, n) ELSE nHold.heard
    OBVIOUS
  <2> HIDE DEF text, after, now
  <2>5. now = ((out \o buf) \o text) \o after
    <3>1. ((out \o buf) \o text) \o after = (out \o buf) \o (text \o after)
      <4>1. out \o buf \in Text /\ text \in Text /\ after \in Text
        BY <1>2, <2>2, <2>4
      <4> QED
        BY <4>1, Regrouped
    <3>2. Append((out \o buf) \o car, n) = (out \o buf) \o Append(car, n)
      BY <1>1, <1>2, Appended
    <3> QED
      BY <1>1, <2>3, <2>12, <3>1, <3>2
  <2>6. /\ r[1] \in NativeHeld /\ r[2] \in Response
        /\ r[1].heard = nHold.heard
        /\ r[2].shut = nClient.shut
        /\ r[2] = nClient \/ r[2].head
        /\ r[2].out \o r[1].buffer = (out \o buf) \o text
    BY <2>1, <2>2, Processed
  <2>7. /\ nHold' \in NativeHeld /\ nHold'.heard = now
        /\ nHold'.carried = after /\ nHold'.buffer = r[1].buffer
    BY <2>1, <2>4, <2>6 DEF Native!Heard, NativeHeld, now, after
  <2>8. Whole(nHold', nClient')
    BY <2>1, <2>5, <2>6, <2>7 DEF Whole
  <2>9. /\ nClient'.out \in Text /\ nHold'.buffer \o nHold'.carried \in Text
        /\ nHold'.heard = nClient'.out \o (nHold'.buffer \o nHold'.carried)
    <3>1. nClient'.out \in Text /\ nHold'.buffer \in Text /\ nHold'.carried \in Text
      BY <2>1, <2>6, <2>7 DEF NativeHeld, Response
    <3> QED
      BY <2>8, <3>1, TextFacts, Regrouped DEF Whole
  <2>10. NativeInv'
    BY <1>1, <2>1, <2>6, <2>7, <2>8, <2>9 DEF NativeInv
  <2>11. NativeStep
    BY <1>1, <2>1, <2>6
    DEF NativeStep, Native!A!Next, Native!A!Write, Native!A!attemptVars
  <2> QED
    BY <2>10, <2>11
<1> QED
  BY <1>1, <1>4, <1>5 DEF Native!Chunk

LEMMA NativeEnd ==
  ASSUME NativeInv, Native!End
  PROVE  NativeInv' /\ NativeStep
<1> DEFINE out  == nClient.out
           buf  == nHold.buffer
           car  == nHold.carried
<1>1. /\ nHold \in NativeHeld /\ nClient \in Response /\ came \in Nat
      /\ nPromise = "running" /\ came' = came
      /\ nHold' = [nHold EXCEPT !.buffer = <<>>, !.kept = FALSE, !.carried = <<>>]
  BY DEF Native!End, Native!Running, Native!Emptied, NativeInv, NativeHeld
<1>2. ~nClient.shut /\ nHold.heard = (out \o buf) \o car
  BY <1>1 DEF NativeInv, Whole
<1>3. /\ out \in Text /\ buf \in Text /\ car \in Text /\ nHold.heard \in Text
      /\ out \o buf \in Text
  BY <1>1, TextFacts DEF NativeHeld, Response
<1>4. nHold' \in NativeHeld /\ nHold'.heard = nHold.heard
  BY <1>1, TextFacts DEF NativeHeld
<1>5. PICK r \in Native!Outcomes :
        \/ r[2].head /\ Native!Rest(r)
        \/ ~r[2].head /\ (Native!Refuse(r) \/ Native!Made(r))
        \/ ~r[2].head /\ Native!Rest(r)
  BY DEF Native!End
<1>6. /\ r[1] \in NativeHeld /\ r[2] \in Response
      /\ ~r[2].shut
      /\ r[2] = nClient \/ r[2].head
      /\ nHold.heard = r[2].out \o r[1].buffer
  <2>1. CASE car = <<>>
    <3>1. r[1] = nHold /\ r[2] = nClient
      BY <1>5, <2>1 DEF Native!Outcomes
    <3>2. nHold.heard = out \o buf
      BY <1>2, <1>3, <2>1, TextFacts
    <3> QED
      BY <1>1, <1>2, <3>1, <3>2
  <2>2. CASE car # <<>>
    <3>1. r \in Native!Process("text", car)
      BY <1>5, <2>2 DEF Native!Outcomes
    <3> QED
      BY <1>2, <1>3, <3>1, Processed
  <2> QED
    BY <2>1, <2>2
<1>7. r[2].out \in Text /\ r[1].buffer \in Text
  BY <1>6 DEF NativeHeld, Response
<1>8. CASE Native!Refuse(r) /\ ~r[2].head
  <2>1. nPromise' = "refused" /\ nClient' = nClient /\ ~nClient.head
    BY <1>6, <1>8 DEF Native!Refuse
  <2>2. NativeInv'
    <3>1. \E rest \in Text : nHold'.heard = nClient'.out \o rest
      BY <1>4, <1>6, <1>7, <1>8, <2>1
    <3> QED
      BY <1>1, <1>4, <2>1, <3>1 DEF NativeInv, Outcomes
  <2> QED
    BY <1>1, <2>1, <2>2 DEF NativeStep, Native!A!Next, Native!A!Refuse
<1>9. CASE Native!Made(r)
  <2>1. /\ nPromise' = "served" /\ nClient' \in Response
        /\ nClient'.head /\ nClient'.shut /\ nClient'.made /\ nClient'.out = r[2].out
    BY <1>6, <1>9 DEF Native!Made, Response
  <2>2. NativeInv'
    <3>1. \E rest \in Text : nHold'.heard = nClient'.out \o rest
      BY <1>4, <1>6, <1>7, <2>1
    <3> QED
      BY <1>1, <1>4, <2>1, <3>1 DEF NativeInv, Outcomes
  <2> QED
    BY <1>1, <2>1, <2>2 DEF NativeStep, Native!A!Next, Native!A!Serve, Response
<1>10. CASE Native!Rest(r)
  <2>1. /\ nPromise' = "served" /\ nClient' \in Response
        /\ nClient'.head /\ nClient'.shut /\ nClient'.out = r[2].out \o r[1].buffer
    <3>1. r[2].out \o r[1].buffer \in Text
      BY <1>7, TextFacts
    <3> QED
      BY <1>6, <1>10, <3>1 DEF Native!Rest, Response
  <2>2. NativeInv'
    <3>1. nHold'.heard = nClient'.out /\ nClient'.out \in Text
      BY <1>3, <1>4, <1>6, <2>1
    <3>2. nHold'.heard = nClient'.out \o <<>> /\ <<>> \in Text
      BY <3>1, TextFacts
    <3> QED
      BY <1>1, <1>4, <2>1, <3>1, <3>2 DEF NativeInv, Outcomes
  <2> QED
    BY <1>1, <2>1, <2>2 DEF NativeStep, Native!A!Next, Native!A!Serve, Response
<1> QED
  BY <1>5, <1>8, <1>9, <1>10

LEMMA NativeSteps ==
  ASSUME NativeInv, [Native!Next]_Native!vars
  PROVE  NativeInv' /\ NativeStep
<1>1. CASE UNCHANGED Native!vars
  BY <1>1 DEF Native!vars, NativeInv, Whole, NativeStep, Native!A!attemptVars
<1>2. CASE Native!BadCall \/ Native!Fail \/ Native!EndBadCall
  BY <1>2, NativeThrow DEF Native!BadCall, Native!Fail, Native!EndBadCall, Native!Running
<1> QED
  BY <1>1, <1>2, NativeChunk, NativeEnd DEF Native!Next, Native!Settled

(* The same for an attempt by native stream.                                 *)
THEOREM NativeKeepsPromise == Native!Spec => Native!KeepsPromise
<1>1. Native!Init => Native!A!Init
  BY DEF Native!Init, Native!A!Init
<1>2. NativeInv /\ [Native!Next]_Native!vars => NativeInv'
  BY NativeSteps
<1>3. NativeInv /\ [Native!Next]_Native!vars => [Native!A!Next]_(Native!A!attemptVars)
  BY NativeSteps DEF NativeStep
<1> QED
  BY <1>1, <1>2, <1>3, NativeInitInv, PTL
  DEF Native!Spec, Native!KeepsPromise, Native!A!Spec

THEOREM NativeLosesNothing == Native!Spec => []Native!NothingLost
<1>1. NativeInv /\ [Native!Next]_Native!vars => NativeInv'
  BY NativeSteps
<1>2. NativeInv => Native!NothingLost
  <2> SUFFICES ASSUME NativeInv PROVE Native!NothingLost
    OBVIOUS
  <2>1. nClient.out \in Text
    BY DEF NativeInv, Response
  <2>2. Native!Prefix(nClient.out, nHold.heard)
    BY <2>1, Beginning DEF NativeInv
  <2> QED
    BY <2>2 DEF NativeInv, Native!NothingLost
<1> QED
  BY <1>1, <1>2, NativeInitInv, PTL DEF Native!Spec

(* Both kinds of stream implement Attempt, the interface ChatCompletion is   *)
(* written against: the promise of every attempt is kept in every order of   *)
(* chunks, rejections, cuts and failures.                                    *)
THEOREM AttemptsKeepPromise ==
  ASSUME Terminated
  PROVE  Stream!Spec /\ Native!Spec => KeepsPromise
BY StreamKeepsPromise, NativeKeepsPromise, PTL DEF KeepsPromise

(* Neither kind of stream loses, repeats or reorders text on its way through *)
(* filter, buffer and response.                                              *)
THEOREM AttemptsLoseNothing ==
  ASSUME "mixed" \notin ChunkKinds
  PROVE  Stream!Spec /\ Native!Spec => []NothingLost
BY StreamLosesNothing, NativeLosesNothing, PTL DEF NothingLost

-----------------------------------------------------------------------------
(* the requests that rank providers, and the cooldowns they rank them by *)
Lists == Seq(Ranked)

HealthReq == [at : {"idle", "pick"} \union Ranked, list : Lists,
              ban : SUBSET Ranked, cooled : SUBSET Ranked]

HealthType ==
  /\ left \in [Ranked -> Nat] /\ saved \in [Ranked -> Nat]
  /\ deferred \in SUBSET Ranked
  /\ req \in [Groups -> HealthReq]
  /\ banned \in [Ranked -> Nat]

(* a provider still to be tried that is cooling is marked, or was cooled since *)
Excused(r, time, marked, request) ==
  \A i \in 1 .. Len(request[r].list) :
    LET p == request[r].list[i] IN
    time[p] > 0 /\ p \notin marked => p \in request[r].cooled

HealthInv ==
  HealthType /\ \A r \in Groups : Excused(r, left, deferred, req)

LEMMA IdleIsHealthy == Health!Idle \in HealthReq
BY EmptySeq DEF Health!Idle, HealthReq, Lists

LEMMA HealthInitInv == Health!Init => HealthInv
<1> SUFFICES ASSUME Health!Init PROVE HealthInv
  OBVIOUS
<1>1. Health!None \in [Ranked -> Nat]
  BY DEF Health!None
<1>2. Health!Idle \in HealthReq
  BY IdleIsHealthy
<1>3. HealthType
  BY <1>1, <1>2 DEF Health!Init, HealthType
<1>4. \A r \in Groups : Len(req[r].list) = 0
  BY DEF Health!Init, Health!Idle
<1> QED
  BY <1>3, <1>4 DEF HealthInv, Excused

LEMMA SameCardinality ==
  ASSUME NEW T
  PROVE  Health!Cardinality(T) = Cardinality(T)
BY DEF Health!Cardinality, Cardinality

LEMMA ListingsAreLists ==
  ASSUME NEW S \in SUBSET Ranked, NEW s \in Health!Listings(S)
  PROVE  s \in Seq(S) /\ s \in Lists
<1>1. PICK T \in SUBSET S : s \in Health!SetToSeqs(T)
  BY DEF Health!Listings
<1>2. IsFiniteSet(T)
  BY <1>1, AttemptsAssumption, FS_Subset
<1>3. Cardinality(T) \in Nat
  BY <1>2, FS_CardinalityType
<1>4. s \in [1 .. Cardinality(T) -> T]
  BY <1>1, SameCardinality DEF Health!SetToSeqs
<1>5. s \in [1 .. Cardinality(T) -> S] /\ s \in [1 .. Cardinality(T) -> Ranked]
  BY <1>1, <1>4
<1> QED
  BY <1>3, <1>5 DEF Lists

Passed ==
  \A r \in Groups :
    req[r].at = "pick" /\ req'[r].at = "pick" /\ req'[r].list # req[r].list
      => Head(req[r].list) \in req[r].cooled

(* what other requests do to cooldowns and marks excuses them still *)
LEMMA StillExcused ==
  ASSUME NEW r, NEW time, NEW marked, NEW requests,
         Excused(r, left, deferred, req),
         requests[r].list = req[r].list,
         req[r].cooled \subseteq requests[r].cooled,
         req[r].list \in Lists,
         \A p \in Ranked : time[p] > 0 /\ p \notin marked =>
            (left[p] > 0 /\ p \notin deferred) \/ p \in requests[r].cooled
  PROVE  Excused(r, time, marked, requests)
<1> SUFFICES ASSUME NEW i \in 1 .. Len(requests[r].list),
                    time[requests[r].list[i]] > 0, requests[r].list[i] \notin marked
             PROVE  requests[r].list[i] \in requests[r].cooled
  BY DEF Excused
<1>1. i \in 1 .. Len(req[r].list) /\ req[r].list[i] \in Ranked
  BY DEF Lists
<1> QED
  BY <1>1 DEF Excused

(* nor does it matter to the rest of a list that its first provider is tried *)
LEMMA RestExcused ==
  ASSUME NEW r, NEW time, NEW marked, NEW requests,
         Excused(r, left, deferred, req),
         req[r].list \in Lists, req[r].list # <<>>,
         requests[r].list = Tail(req[r].list),
         req[r].cooled \subseteq requests[r].cooled,
         \A p \in Ranked : time[p] > 0 /\ p \notin marked => left[p] > 0 /\ p \notin deferred
  PROVE  Excused(r, time, marked, requests)
<1> SUFFICES ASSUME NEW i \in 1 .. Len(Tail(req[r].list)),
                    time[Tail(req[r].list)[i]] > 0, Tail(req[r].list)[i] \notin marked
             PROVE  Tail(req[r].list)[i] \in requests[r].cooled
  BY DEF Excused
<1>1. /\ i + 1 \in 1 .. Len(req[r].list)
      /\ Tail(req[r].list)[i] = req[r].list[i + 1]
  BY HeadTailProperties, LenProperties DEF Lists
<1>2. req[r].list[i + 1] \in Ranked
  BY <1>1, ElementOfSeq DEF Lists
<1>3. left[req[r].list[i + 1]] > 0 /\ req[r].list[i + 1] \notin deferred
  BY <1>1, <1>2
<1>4. req[r].list[i + 1] \in req[r].cooled
  BY <1>1, <1>3 DEF Excused
<1> QED
  BY <1>1, <1>4

LEMMA NoneLeft ==
  ASSUME NEW r, NEW time, NEW marked, NEW requests, requests[r] = Health!Idle
  PROVE  Excused(r, time, marked, requests)
BY DEF Excused, Health!Idle

(* a request ranks its providers: the first ones, the fallbacks, the marked *)
Ranking(r, primary, extra, flagged) ==
  /\ {p \in Health!ToSet(extra) : Health!Cooling(p)} \subseteq flagged
  /\ req' = [req EXCEPT ![r] =
       [at |-> "pick", list |-> primary \o extra,
        ban |-> {p \in Ranked : banned[p] > 0}, cooled |-> {}]]
  /\ IF primary # <<>>
     THEN /\ \E touched \in SUBSET Health!ToSet(primary) :
               /\ extra # <<>> => touched = Health!ToSet(primary)
               /\ deferred' = Health!Deferred(touched \union Health!ToSet(extra), flagged)
          /\ UNCHANGED <<left, saved>>
     ELSE /\ deferred' = Health!Deferred(Health!ToSet(extra), {})
          /\ left' = [p \in Ranked |-> IF p \in flagged THEN 0 ELSE left[p]]
          /\ saved' = IF flagged # {} THEN left' ELSE saved

LEMMA HealthRank ==
  ASSUME HealthInv, NEW r \in Groups, Health!Rank(r)
  PROVE  HealthInv' /\ Passed
<1> DEFINE Extras(listed) ==
             Health!Listings({p \in Ranked : ~Health!isQuotaDisabled(p)}
                             \ Health!ToSet(listed))
<1>0. PICK primary \in Health!Listings({p \in Ranked : ~Health!Cooling(p) /\ quota[p] = 0}) :
        \E extra \in Extras(primary) : \E flagged \in SUBSET Health!ToSet(extra) :
          Ranking(r, primary, extra, flagged)
  BY Zenon DEF Health!Rank, Ranking
<1>1. PICK extra \in Extras(primary) :
        \E flagged \in SUBSET Health!ToSet(extra) : Ranking(r, primary, extra, flagged)
  BY <1>0
<1>1a. PICK flagged \in SUBSET Health!ToSet(extra) : Ranking(r, primary, extra, flagged)
  BY <1>1
<1>2. /\ {p \in Health!ToSet(extra) : Health!Cooling(p)} \subseteq flagged
      /\ req' = [req EXCEPT ![r] =
           [at |-> "pick", list |-> primary \o extra,
            ban |-> {p \in Ranked : banned[p] > 0}, cooled |-> {}]]
      /\ primary # <<>> =>
           /\ \E touched \in SUBSET Health!ToSet(primary) :
                deferred' = Health!Deferred(touched \union Health!ToSet(extra), flagged)
           /\ left' = left /\ saved' = saved
      /\ primary = <<>> =>
           /\ deferred' = Health!Deferred(Health!ToSet(extra), {})
           /\ left' = [p \in Ranked |-> IF p \in flagged THEN 0 ELSE left[p]]
           /\ saved' = IF flagged # {} THEN left' ELSE saved
  BY <1>1a DEF Ranking
<1>3. /\ primary \in Seq({p \in Ranked : left[p] = 0}) /\ primary \in Lists
      /\ extra \in Lists
  <2>1. primary \in Seq({p \in Ranked : ~Health!Cooling(p) /\ quota[p] = 0}) /\ primary \in Lists
    BY ListingsAreLists
  <2>2. {p \in Ranked : ~Health!Cooling(p) /\ quota[p] = 0} \subseteq {p \in Ranked : left[p] = 0}
    BY DEF HealthInv, HealthType, Health!Cooling
  <2>3. extra \in Lists
    BY ListingsAreLists
  <2> QED
    BY <2>1, <2>2, <2>3
<1>4. Health!ToSet(extra) \subseteq Ranked /\ Health!ToSet(primary) \subseteq Ranked
  BY <1>3 DEF Health!ToSet, Lists
<1>5. primary \o extra \in Lists
  BY <1>3, ConcatProperties DEF Lists
<1>6. banned' = banned
  BY DEF Health!Rank
<1>7. HealthType'
  <2>1. left' \in [Ranked -> Nat] /\ saved' \in [Ranked -> Nat]
    <3>1. left \in [Ranked -> Nat] /\ saved \in [Ranked -> Nat]
      BY DEF HealthInv, HealthType
    <3>2. CASE primary = <<>>
      BY <1>2, <3>1, <3>2
    <3>3. CASE primary # <<>>
      BY <1>2, <3>1, <3>3
    <3> QED
      BY <3>2, <3>3
  <2>2. deferred' \in SUBSET Ranked
    BY <1>2, <1>4 DEF HealthInv, HealthType, Health!Deferred
  <2>3. req' \in [Groups -> HealthReq]
    BY <1>2, <1>5 DEF HealthInv, HealthType, HealthReq
  <2> QED
    BY <2>1, <2>2, <2>3, <1>6 DEF HealthInv, HealthType, HealthReq
<1>8. \A p \in Ranked : left'[p] > 0 => left'[p] = left[p] /\ left[p] > 0
  BY <1>2 DEF HealthInv, HealthType
<1>9. \A p \in Ranked : left'[p] > 0 /\ p \notin deferred' => p \notin deferred
  <2> SUFFICES ASSUME NEW p \in Ranked, left'[p] > 0, p \in deferred
               PROVE  p \in deferred'
    OBVIOUS
  <2>1. left[p] > 0 /\ (p \in Health!ToSet(extra) => p \in flagged)
    BY <1>2, <1>8 DEF Health!Cooling
  <2>2. p \notin Health!ToSet(primary)
    <3>1. p \notin {q \in Ranked : left[q] = 0}
      BY <2>1 DEF HealthInv, HealthType
    <3> QED
      BY <1>3, <3>1, ElementOfSeq, LenProperties DEF Health!ToSet
  <2>3. CASE primary # <<>>
    BY <1>2, <2>1, <2>2, <2>3 DEF Health!Deferred
  <2>4. CASE primary = <<>>
    <3>1. p \notin flagged
      BY <1>2, <2>1, <2>4
    <3> QED
      BY <1>2, <2>1, <2>4, <3>1 DEF Health!Deferred
  <2> QED
    BY <2>3, <2>4
<1>10. \A q \in Groups : q # r => Excused(q, left', deferred', req')
  <2> SUFFICES ASSUME NEW q \in Groups, q # r PROVE Excused(q, left', deferred', req')
    OBVIOUS
  <2>1. req'[q] = req[q]
    BY <1>2 DEF HealthInv, HealthType
  <2>2. Excused(q, left, deferred, req) /\ req[q].list \in Lists
    BY DEF HealthInv, HealthType, HealthReq
  <2> QED
    BY <1>8, <1>9, <2>1, <2>2, StillExcused
<1>11. Excused(r, left', deferred', req')
  <2> SUFFICES ASSUME NEW i \in 1 .. Len(primary \o extra),
                      left'[(primary \o extra)[i]] > 0, (primary \o extra)[i] \notin deferred'
               PROVE  FALSE
    BY <1>2 DEF Excused, HealthInv, HealthType
  <2> DEFINE p == (primary \o extra)[i]
  <2>1. i \in Nat /\ (p \in {q \in Ranked : left[q] = 0} \/ p \in Health!ToSet(extra))
    <3>1. Len(primary) \in Nat /\ Len(extra) \in Nat /\ Len(primary \o extra) = Len(primary) + Len(extra)
      BY <1>3, ConcatProperties, LenProperties DEF Lists
    <3>2. CASE i <= Len(primary)
      BY <1>3, <3>1, <3>2, ConcatProperties, ElementOfSeq DEF Lists
    <3>3. CASE i > Len(primary)
      <4>1. i - Len(primary) \in 1 .. Len(extra) /\ p = extra[i - Len(primary)]
        BY <1>3, <3>1, <3>3, ConcatProperties DEF Lists
      <4>2. DOMAIN extra = 1 .. Len(extra)
        BY <1>3, LenProperties DEF Lists
      <4> QED
        BY <3>1, <4>1, <4>2 DEF Health!ToSet
    <3> QED
      BY <3>1, <3>2, <3>3
  <2>2. p \in Ranked /\ left[p] > 0
    BY <1>4, <1>8, <2>1
  <2>3. p \in Health!ToSet(extra) /\ p \in flagged
    BY <1>2, <2>1, <2>2 DEF Health!Cooling
  <2>4. primary # <<>> => p \in deferred'
    BY <1>2, <2>3 DEF Health!Deferred
  <2>5. primary = <<>> => left'[p] = 0
    BY <1>2, <2>2, <2>3
  <2> QED
    BY <2>4, <2>5
<1>12. Passed
  <2>1. req[r].at = "idle"
    BY DEF Health!Rank
  <2>2. \A q \in Groups : q # r => req'[q] = req[q]
    BY <1>2 DEF HealthInv, HealthType
  <2> QED
    BY <2>1, <2>2 DEF Passed
<1> QED
  BY <1>7, <1>10, <1>11, <1>12 DEF HealthInv

LEMMA HealthTry ==
  ASSUME HealthInv, NEW r \in Groups, Health!Try(r)
  PROVE  HealthInv' /\ Passed
<1> DEFINE p == Head(req[r].list)
<1>1. banned' = banned /\ req[r] \in HealthReq /\ req[r].at = "pick"
  BY DEF HealthInv, HealthType, HealthReq, Health!Try
<1>2. req[r].list # <<>> =>
        /\ p \in Ranked /\ Tail(req[r].list) \in Lists
        /\ p = req[r].list[1] /\ 1 \in 1 .. Len(req[r].list)
  BY <1>1, HeadTailProperties, LenProperties DEF HealthReq, Lists
<1>3. \A q \in Groups : Excused(q, left, deferred, req) /\ req[q].list \in Lists
  BY DEF HealthInv, HealthType, HealthReq
<1>4. CASE /\ req[r].list = <<>> /\ req' = [req EXCEPT ![r] = Health!Idle]
           /\ UNCHANGED <<left, saved, deferred>>
  <2>1. HealthType'
    BY <1>1, <1>4, IdleIsHealthy DEF HealthInv, HealthType
  <2>2. req'[r] = Health!Idle /\ \A q \in Groups : q # r => req'[q] = req[q]
    BY <1>4 DEF HealthInv, HealthType
  <2>3. \A q \in Groups : Excused(q, left', deferred', req')
    BY <1>3, <1>4, <2>2, NoneLeft, StillExcused
  <2>4. Passed
    BY <2>2 DEF Passed, Health!Idle
  <2> QED
    BY <2>1, <2>3, <2>4 DEF HealthInv
<1>5. CASE /\ req[r].list # <<>> /\ p \in deferred
           /\ left' = [left EXCEPT ![p] = 0] /\ saved' = left'
           /\ deferred' = deferred \ {p}
           /\ req' = [req EXCEPT ![r].at = p, ![r].list = Tail(@)]
  <2>1. /\ req'[r].list = Tail(req[r].list) /\ req'[r].cooled = req[r].cooled
        /\ req'[r].at = p /\ \A q \in Groups : q # r => req'[q] = req[q]
    BY <1>1, <1>5 DEF HealthInv, HealthType, HealthReq
  <2>2. \A q \in Ranked : left'[q] > 0 /\ q \notin deferred' => left[q] > 0 /\ q \notin deferred
    BY <1>2, <1>5 DEF HealthInv, HealthType
  <2>3. HealthType'
    <3>1. [req[r] EXCEPT !.at = p, !.list = Tail(@)] \in HealthReq
      BY <1>1, <1>2, <1>5 DEF HealthReq
    <3>2. req' = [req EXCEPT ![r] = [req[r] EXCEPT !.at = p, !.list = Tail(@)]]
      BY <1>5
    <3> HIDE DEF p
    <3> QED
      BY <1>1, <1>2, <1>5, <3>1, <3>2 DEF HealthInv, HealthType
  <2>4. \A q \in Groups : q # r => Excused(q, left', deferred', req')
    BY <1>3, <2>1, <2>2, StillExcused
  <2>5. Excused(r, left', deferred', req')
    BY <1>3, <1>5, <2>1, <2>2, RestExcused
  <2>6. Passed
    BY <1>2, <1>5, <2>1, AttemptsAssumption DEF Passed
  <2> QED
    BY <2>3, <2>4, <2>5, <2>6 DEF HealthInv
<1>6. CASE /\ req[r].list # <<>> /\ ~(p \in deferred /\ Health!Cooling(p))
           /\ req' = [req EXCEPT ![r].at = IF Health!Cooling(p) THEN "pick" ELSE p,
                                 ![r].list = Tail(@)]
           /\ UNCHANGED <<left, saved, deferred>>
  <2>1. /\ req'[r].list = Tail(req[r].list) /\ req'[r].cooled = req[r].cooled
        /\ req'[r].at = (IF Health!Cooling(p) THEN "pick" ELSE p)
        /\ \A q \in Groups : q # r => req'[q] = req[q]
    BY <1>1, <1>6 DEF HealthInv, HealthType, HealthReq
  <2>2. HealthType'
    <3> DEFINE at == IF Health!Cooling(p) THEN "pick" ELSE p
    <3>1. [req[r] EXCEPT !.at = at, !.list = Tail(@)] \in HealthReq
      BY <1>1, <1>2, <1>6 DEF HealthReq
    <3>2. req' = [req EXCEPT ![r] = [req[r] EXCEPT !.at = at, !.list = Tail(@)]]
      BY <1>6
    <3> HIDE DEF at
    <3> QED
      BY <1>1, <1>6, <3>1, <3>2 DEF HealthInv, HealthType
  <2>3. \A q \in Groups : q # r => Excused(q, left', deferred', req')
    <3>1. \A q \in Ranked : left'[q] > 0 /\ q \notin deferred' => left[q] > 0 /\ q \notin deferred
      BY <1>6
    <3> QED
      BY <1>3, <2>1, <3>1, StillExcused
  <2>4. Excused(r, left', deferred', req')
    <3>1. \A q \in Ranked : left'[q] > 0 /\ q \notin deferred' => left[q] > 0 /\ q \notin deferred
      BY <1>6
    <3> QED
      BY <1>3, <1>6, <2>1, <3>1, RestExcused
  <2>5. left[p] > 0 => p \in req[r].cooled
    BY <1>2, <1>3, <1>6 DEF Excused, Health!Cooling
  <2>6. Passed
    BY <1>2, <1>6, <2>1, <2>5, AttemptsAssumption DEF Passed, Health!Cooling
  <2> QED
    BY <2>2, <2>3, <2>4, <2>6 DEF HealthInv
<1> QED
  BY <1>4, <1>5, <1>6 DEF Health!Try

(* the requests under way take note of what is cooled *)
LEMMA CooledNoted ==
  ASSUME NEW requests \in [Groups -> HealthReq], NEW S \in SUBSET Ranked
  PROVE  /\ Health!Cooled(requests, S) \in [Groups -> HealthReq]
         /\ \A r \in Groups :
              LET new == Health!Cooled(requests, S)[r] IN
              \/ new = Health!Idle /\ requests[r] = Health!Idle
              \/ /\ new.at = requests[r].at /\ new.list = requests[r].list
                 /\ new.cooled = requests[r].cooled \union S
<1>1. Health!Idle \in HealthReq
  BY IdleIsHealthy
<1>2. \A r \in Groups :
        /\ requests[r] \in HealthReq
        /\ [requests[r] EXCEPT !.cooled = @ \union S] \in HealthReq
  BY DEF HealthReq
<1> QED
  BY <1>1, <1>2 DEF Health!Cooled, HealthReq

(* whoever is cooled, every request under way has noted it *)
LEMMA ExcusedByNote ==
  ASSUME HealthInv, NEW requests \in [Groups -> HealthReq],
         \A r \in Groups : requests[r].list = req[r].list /\ requests[r].cooled = req[r].cooled,
         NEW S \in SUBSET Ranked, NEW time,
         \A p \in Ranked : time[p] > 0 => left[p] > 0 \/ p \in S
  PROVE  \A r \in Groups : Excused(r, time, deferred, Health!Cooled(requests, S))
<1> SUFFICES ASSUME NEW r \in Groups
             PROVE  Excused(r, time, deferred, Health!Cooled(requests, S))
  OBVIOUS
<1>1. CASE Health!Cooled(requests, S)[r] = Health!Idle
  BY <1>1, NoneLeft
<1>2. CASE /\ Health!Cooled(requests, S)[r].list = requests[r].list
           /\ Health!Cooled(requests, S)[r].cooled = requests[r].cooled \union S
  <2>1. Excused(r, left, deferred, req) /\ req[r].list \in Lists
    BY DEF HealthInv, HealthType, HealthReq
  <2> QED
    BY <1>2, <2>1, StillExcused
<1> QED
  BY <1>1, <1>2, CooledNoted

(* what a failure of a request's provider cools *)
Failing(r, exhausted, first, then, cooled) ==
  LET p   == req[r].at
      one == [left EXCEPT ![p] = IF exhausted /\ first = left[p] THEN Long ELSE first]
      two == [q \in Ranked |-> IF q \in cooled THEN then ELSE one[q]] IN
  /\ quota' = IF exhausted THEN [quota EXCEPT ![p] = Long] ELSE quota
  /\ saved' = one
  /\ left' = two
  /\ req' = Health!Cooled([req EXCEPT ![r].at = "pick"],
                          {q \in Ranked : two[q] > 0 /\ (q = p \/ q \in cooled)})

LEMMA HealthFail ==
  ASSUME HealthInv, NEW r \in Groups, Health!Fail(r)
  PROVE  HealthInv' /\ Passed
<1> DEFINE p == req[r].at
           fresh == [req EXCEPT ![r].at = "pick"]
<1>1. PICK exhausted \in BOOLEAN, first \in {left[p], Short, Long} :
        \E then \in {first, Short, Long}, cooled \in SUBSET Ranked :
          Failing(r, exhausted, first, then, cooled)
  BY Zenon DEF Health!Fail, Failing
<1>2. PICK then \in {first, Short, Long}, cooled \in SUBSET Ranked :
        Failing(r, exhausted, first, then, cooled)
  BY <1>1
<1>2a. /\ saved' = [left EXCEPT ![p] = IF exhausted /\ first = left[p] THEN Long ELSE first]
       /\ left' = [q \in Ranked |-> IF q \in cooled THEN then ELSE saved'[q]]
       /\ req' = Health!Cooled(fresh, {q \in Ranked : left'[q] > 0 /\ (q = p \/ q \in cooled)})
  BY <1>2 DEF Failing
<1> DEFINE S == {q \in Ranked : left'[q] > 0 /\ (q = p \/ q \in cooled)}
<1>3. /\ p \in Ranked /\ deferred' = deferred /\ banned' = banned
      /\ req \in [Groups -> HealthReq] /\ left \in [Ranked -> Nat]
  BY DEF Health!Fail, HealthInv, HealthType, HealthReq
<1>4. first \in Nat /\ then \in Nat
  BY <1>2, <1>3, AttemptsAssumption
<1>5. saved' \in [Ranked -> Nat] /\ left' \in [Ranked -> Nat]
  BY <1>2a, <1>3, <1>4, AttemptsAssumption
<1>6. \A q \in Ranked : left'[q] > 0 => left[q] > 0 \/ q \in S
  BY <1>2a, <1>3
<1>7. /\ fresh \in [Groups -> HealthReq]
      /\ \A q \in Groups : fresh[q].list = req[q].list /\ fresh[q].cooled = req[q].cooled
      /\ \A q \in Groups : fresh[q] # req[q] => q = r
  BY <1>3 DEF HealthReq
<1>8. req' = Health!Cooled(fresh, S)
  BY <1>2a
<1>9. \A q \in Groups : Excused(q, left', deferred, Health!Cooled(fresh, S))
  BY <1>6, <1>7, ExcusedByNote
<1>10. req' \in [Groups -> HealthReq]
  BY <1>7, <1>8, CooledNoted
<1>11. HealthType'
  BY <1>3, <1>5, <1>10 DEF HealthInv, HealthType
<1>12. \A q \in Groups : req'[q].list = req[q].list \/ req'[q] = Health!Idle
  <2> S \in SUBSET Ranked
    OBVIOUS
  <2> HIDE DEF S, fresh
  <2>1. \A q \in Groups :
          \/ Health!Cooled(fresh, S)[q] = Health!Idle
          \/ Health!Cooled(fresh, S)[q].list = fresh[q].list
    BY <1>7, CooledNoted
  <2> QED
    BY <1>7, <1>8, <2>1
<1>13. Passed
  BY <1>12 DEF Passed, Health!Idle
<1> QED
  BY <1>3, <1>8, <1>9, <1>11, <1>13 DEF HealthInv

LEMMA HealthBan ==
  ASSUME HealthInv, NEW p \in Bannable, Health!Ban(p)
  PROVE  HealthInv' /\ Passed
<1>1. /\ left' = [left EXCEPT ![p] = Long] /\ banned' = [banned EXCEPT ![p] = Long]
      /\ req' = Health!Cooled(req, {p}) /\ saved' = saved /\ deferred' = deferred
  BY DEF Health!Ban
<1>2. req \in [Groups -> HealthReq] /\ p \in Ranked
  BY AttemptsAssumption DEF HealthInv, HealthType, HealthReq
<1>3. req' \in [Groups -> HealthReq]
  BY <1>1, <1>2, CooledNoted
<1>4. HealthType'
  BY <1>1, <1>3, AttemptsAssumption DEF HealthInv, HealthType, HealthReq
<1>5. \A q \in Ranked : left'[q] > 0 => left[q] > 0 \/ q \in {p}
  BY <1>1, <1>2 DEF HealthInv, HealthType
<1>6. \A q \in Groups : Excused(q, left', deferred, Health!Cooled(req, {p}))
  BY <1>2, <1>5, ExcusedByNote
<1>7. \A q \in Groups : req'[q].list = req[q].list \/ req'[q] = Health!Idle
  BY <1>1, <1>2, CooledNoted
<1>8. Passed
  BY <1>7 DEF Passed, Health!Idle
<1> QED
  BY <1>1, <1>4, <1>6, <1>8 DEF HealthInv

LEMMA HealthSucceed ==
  ASSUME HealthInv, NEW r \in Groups, Health!Succeed(r)
  PROVE  HealthInv' /\ Passed
<1> DEFINE p == req[r].at
<1>1. /\ p \in Ranked /\ left' = [left EXCEPT ![p] = 0] /\ saved' = left'
      /\ req' = [req EXCEPT ![r] = Health!Idle]
      /\ banned' = banned /\ deferred' = deferred
  BY DEF Health!Succeed
<1>2. HealthType'
  BY <1>1, IdleIsHealthy DEF HealthInv, HealthType
<1>3. req'[r] = Health!Idle /\ \A q \in Groups : q # r => req'[q] = req[q]
  BY <1>1 DEF HealthInv, HealthType
<1>4. \A q \in Ranked : left'[q] > 0 => left[q] > 0
  BY <1>1 DEF HealthInv, HealthType
<1>5. \A q \in Groups : Excused(q, left, deferred, req) /\ req[q].list \in Lists
  BY DEF HealthInv, HealthType, HealthReq
<1>6. \A q \in Groups : q # r => Excused(q, left', deferred', req')
  BY <1>1, <1>3, <1>4, <1>5, StillExcused
<1>7. Passed
  BY <1>3 DEF Passed, Health!Idle
<1> QED
  BY <1>2, <1>3, <1>6, <1>7, NoneLeft DEF HealthInv

LEMMA HealthTime ==
  ASSUME HealthInv, Health!Tick \/ Health!Restart
  PROVE  HealthInv' /\ Passed
<1>1. CASE Health!Tick
  <2>1. /\ left' = Health!Less(left) /\ saved' = Health!Less(saved)
        /\ banned' = Health!Less(banned) /\ deferred' = deferred /\ req' = req
    BY <1>1 DEF Health!Tick
  <2>2. \A time \in [Ranked -> Nat] :
          /\ Health!Less(time) \in [Ranked -> Nat]
          /\ \A p \in Ranked : Health!Less(time)[p] > 0 => time[p] > 0
    BY DEF Health!Less
  <2>3. HealthType' /\ \A p \in Ranked : left'[p] > 0 => left[p] > 0
    BY <2>1, <2>2 DEF HealthInv, HealthType
  <2>4. \A q \in Groups : Excused(q, left, deferred, req) /\ req[q].list \in Lists
    BY DEF HealthInv, HealthType, HealthReq
  <2>5. \A q \in Groups : Excused(q, left', deferred', req')
    BY <2>1, <2>3, <2>4, StillExcused
  <2> QED
    BY <2>1, <2>3, <2>5 DEF HealthInv, Passed
<1>2. CASE Health!Restart
  <2>1. /\ left' = saved /\ saved' = saved /\ banned' = banned /\ deferred' = {}
        /\ req' = [r \in Groups |-> Health!Idle]
    BY <1>2 DEF Health!Restart
  <2>2. HealthType'
    BY <2>1, IdleIsHealthy DEF HealthInv, HealthType
  <2>3. \A q \in Groups : req'[q] = Health!Idle
    BY <2>1
  <2> QED
    BY <2>2, <2>3, NoneLeft DEF HealthInv, Passed, Health!Idle
<1> QED
  BY <1>1, <1>2

LEMMA HealthSteps ==
  ASSUME HealthInv, [Health!Next]_(Health!healthVars)
  PROVE  HealthInv' /\ [Passed]_(Health!healthVars)
<1>1. CASE UNCHANGED Health!healthVars
  BY <1>1 DEF HealthInv, HealthType, Excused, Health!healthVars
<1>2. CASE Health!Next
  BY <1>2, HealthRank, HealthTry, HealthSucceed, HealthFail, HealthBan, HealthTime
  DEF Health!Next
<1> QED
  BY <1>1, <1>2

(* A provider that a request passes over was cooled after the request chose  *)
(* it: whatever ranks, clears, cools or restarts in between, a mark that was *)
(* needed is still there when the provider's turn comes.                     *)
THEOREM SkipsAreExcused == Health!Spec => SkippedIfCooledSince
<1>1. HealthInv /\ [Health!Next]_(Health!healthVars)
        => HealthInv' /\ [Passed]_(Health!healthVars)
  BY HealthSteps
<1>2. [Passed]_(Health!healthVars) <=>
       [\A r \in Groups :
          req[r].at = "pick" /\ req'[r].at = "pick" /\ req'[r].list # req[r].list
            => Head(req[r].list) \in req[r].cooled]_(Health!healthVars)
  BY DEF Passed
<1> QED
  BY <1>1, <1>2, HealthInitInv, PTL
  DEF Health!Spec, SkippedIfCooledSince, Health!SkippedIfCooledSince
=============================================================================
