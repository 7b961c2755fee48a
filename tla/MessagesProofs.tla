--------------------------- MODULE MessagesProofs ---------------------------
(***************************************************************************)
(* The messages of Anthropic clients, for any finite set of tool calls and *)
(* any number of pieces of text, however the answer comes and wherever it  *)
(* breaks off.  The invariant says what the events so far have to do with  *)
(* the translator, and the calls it collected with what was written; a     *)
(* lemma for each helper of the translator says how it keeps that.  The    *)
(* order the calls are given in is that of their keys: Ascending and ByKey *)
(* are shown to list each of them once.                                    *)
(***************************************************************************)
EXTENDS AnswerStreams, Inductions

-----------------------------------------------------------------------------
(* Places in a longer sequence, and the parts of a call's arguments.         *)

LEMMA Places ==
  ASSUME NEW n \in Nat, n >= 1
  PROVE  /\ \A i \in 2..n : i \in 2..(n + 1) /\ i \in 1..n /\ i < n + 1
         /\ n + 1 \in 2..(n + 1)
         /\ \A i \in 2..(n + 1) : i \in 2..n \/ i = n + 1
OBVIOUS

Parts == <<"head", "tail">>

LEMMA PartsFacts ==
  Parts \in Seq({"head", "tail"}) /\ Len(Parts) = 2
BY DEF Parts

-----------------------------------------------------------------------------
(* Messages of Anthropic.  A draft is what the client got before the message *)
(* is finished: every block in it is open, was opened once, and before       *)
(* anything was added to it.                                                 *)

Letters == {"head", "tail", "text", "held", "help"}
Tool    == [key : Nat, id : Calls, args : Seq({"head", "tail"})]

MsgEvents ==
  [kind : {"start", "open", "delta", "close", "stop", "end"}, index : Nat,
   what : Calls \union {"text", "", "end_turn", "tool_use"} \union Seq(Letters)]

Translators ==
  [begun : BOOLEAN, held : BOOLEAN, text : Nat, next : Nat, tools : SUBSET Tool,
   open : SUBSET Nat, finished : BOOLEAN]

Opens(e, n) == e.kind = "open" /\ e.index = n

Started(o) ==
  o \in Seq(MsgEvents) /\ Len(o) >= 1 /\ o[1].kind = "start"

InBlocks(o, open) ==
  \A i \in 2..Len(o) : o[i].kind \in {"open", "delta"} /\ o[i].index \in open

OpenedOnce(o) ==
  \A i, j \in 2..Len(o) : o[i].kind = "open" /\ Opens(o[j], o[i].index) => i = j

AllOpened(o, open) ==
  \A n \in open : \E i \in 2..Len(o) : Opens(o[i], n)

OpenedBefore(o) ==
  \A i \in 2..Len(o) :
    o[i].kind = "delta" => \E j \in 2..Len(o) : j < i /\ Opens(o[j], o[i].index)

Counts(r) ==
  /\ r \in Translators /\ r.next >= 1
  /\ \A n \in r.open : n >= 1 /\ n < r.next
  /\ r.text # 0 => r.text \in r.open

Draft(r, o) ==
  /\ Started(o) /\ InBlocks(o, r.open) /\ OpenedOnce(o)
  /\ AllOpened(o, r.open) /\ OpenedBefore(o) /\ Counts(r)

(* which calls were given or explained, and that their arguments come next *)
IsHelp(e)  == e.kind = "delta" /\ e.what = <<"help">>
IsGift(e)  == e.kind = "open" /\ e.what \in Calls
Quiet(d)   == \A k \in 1..Len(d) : ~IsHelp(d[k]) /\ ~IsGift(d[k])
Helps(o)   == {i \in 1..Len(o) : IsHelp(o[i])}
Givings(o) == {i \in 1..Len(o) : IsGift(o[i])}

Gives(o, i, t) ==
  o[i].what = t.id /\ o[i + 1] = Message!Event("delta", o[i].index, t.args)

Handled(o, s) ==
  /\ Cardinality(Helps(o)) + Cardinality(Givings(o)) = Len(s)
  /\ IsFiniteSet(Helps(o)) /\ IsFiniteSet(Givings(o))
  /\ \A i \in Givings(o) : i + 1 \in 1..Len(o) /\ \E k \in 1..Len(s) : Gives(o, i, s[k])
  /\ \A i, j \in Givings(o) : o[i].what = o[j].what => i = j

JoinedTo(p, o, d) ==
  /\ p \in Seq(MsgEvents) /\ Len(o) \in Nat /\ Len(d) \in Nat /\ Len(p) = Len(o) + Len(d)
  /\ \A i \in 1..Len(o) : i \in 1..Len(p) /\ p[i] = o[i]
  /\ \A j \in 1..Len(d) : Len(o) + j \in 1..Len(p) /\ p[Len(o) + j] = d[j]
  /\ \A i \in 1..Len(p) : i \in 1..Len(o) \/ \E j \in 1..Len(d) : i = Len(o) + j

LEMMA JoinedEvents ==
  ASSUME NEW o \in Seq(MsgEvents), NEW d \in Seq(MsgEvents)
  PROVE  JoinedTo(o \o d, o, d)
<1>1. PICK p, n, k : p = o \o d /\ n = Len(o) /\ k = Len(d)
  OBVIOUS
<1>2. /\ p \in Seq(MsgEvents) /\ n \in Nat /\ k \in Nat /\ Len(p) = n + k
      /\ \A i \in 1..(n + k) : p[i] = IF i <= n THEN o[i] ELSE d[i - n]
  BY <1>1, ConcatProperties
<1>3. \A i \in 1..n : i \in 1..(n + k) /\ p[i] = o[i]
  BY <1>2
<1>4. ASSUME NEW j \in 1..k PROVE n + j \in 1..(n + k) /\ p[n + j] = d[j]
  <2>1. n + j \in 1..(n + k) /\ ~(n + j <= n) /\ (n + j) - n = j
    BY <1>2
  <2> QED
    BY <1>2, <2>1
<1>5. ASSUME NEW i \in 1..(n + k), i \notin 1..n PROVE \E j \in 1..k : i = n + j
  <2>1. i - n \in 1..k /\ i = n + (i - n)
    BY <1>2, <1>5
  <2> QED
    BY <2>1
<1> QED
  BY <1>1, <1>2, <1>3, <1>4, <1>5 DEF JoinedTo

(* one event more *)
GrownBy(p, o, e, n) ==
  /\ Started(p) /\ n \in Nat /\ n >= 1 /\ Len(p) = n + 1 /\ p[n + 1] = e
  /\ \A i \in 2..n : i \in 2..(n + 1) /\ i < n + 1 /\ p[i] = o[i]
  /\ n + 1 \in 2..(n + 1)
  /\ \A i \in 2..(n + 1) : i \in 2..n \/ i = n + 1

LEMMA DraftGrows ==
  ASSUME NEW o, Started(o), NEW e \in MsgEvents
  PROVE  GrownBy(o \o <<e>>, o, e, Len(o))
<1> DEFINE n == Len(o)
           p == o \o <<e>>
<1>1. o \in Seq(MsgEvents) /\ n >= 1 /\ n \in Nat
  BY DEF Started
<1>2. PICK d : d = <<e>>
  OBVIOUS
<1>3. d \in Seq(MsgEvents) /\ Len(d) = 1 /\ d[1] = e /\ 1 \in 1..Len(d)
  BY <1>2
<1>4. JoinedTo(p, o, d)
  BY <1>1, <1>2, <1>3, JoinedEvents
<1>5. /\ p \in Seq(MsgEvents) /\ Len(p) = n + 1 /\ p[n + 1] = e
      /\ \A i \in 1..n : p[i] = o[i]
  BY <1>1, <1>3, <1>4 DEF JoinedTo
<1> HIDE DEF n, p
<1>6. p[1] = o[1]
  BY <1>1, <1>5
<1>7. GrownBy(p, o, e, n)
  BY <1>1, <1>5, <1>6, Places DEF Started, GrownBy
<1> QED
  BY <1>7 DEF n, p

(* an event that adds to an open block *)
LEMMA DraftAdds ==
  ASSUME NEW r, NEW o, Draft(r, o), NEW e \in MsgEvents,
         e.kind = "delta", e.index \in r.open
  PROVE  Draft(r, o \o <<e>>)
<1>1. PICK p, n : p = o \o <<e>> /\ n = Len(o)
  OBVIOUS
<1>2. /\ Started(o) /\ InBlocks(o, r.open) /\ OpenedOnce(o)
      /\ AllOpened(o, r.open) /\ OpenedBefore(o) /\ Counts(r)
  BY DEF Draft
<1>3. /\ Started(p) /\ n \in Nat /\ n >= 1 /\ Len(p) = n + 1 /\ p[n + 1] = e
      /\ \A i \in 2..n : i \in 2..(n + 1) /\ i < n + 1 /\ p[i] = o[i]
      /\ n + 1 \in 2..(n + 1)
      /\ \A i \in 2..(n + 1) : i \in 2..n \/ i = n + 1
  <2>1. GrownBy(p, o, e, n)
    BY <1>1, <1>2, DraftGrows
  <2> QED
    BY <2>1 DEF GrownBy
<1>4. InBlocks(p, r.open)
  BY <1>1, <1>2, <1>3 DEF InBlocks
<1>5. OpenedOnce(p)
  BY <1>1, <1>2, <1>3 DEF OpenedOnce, Opens
<1>6. AllOpened(p, r.open)
  BY <1>1, <1>2, <1>3 DEF AllOpened
<1>7. OpenedBefore(p)
  <2> SUFFICES ASSUME NEW i \in 2..(n + 1), p[i].kind = "delta"
               PROVE  \E j \in 2..(n + 1) : j < i /\ Opens(p[j], p[i].index)
    BY <1>3 DEF OpenedBefore
  <2>1. CASE i \in 2..n
    <3>1. PICK j \in 2..n : j < i /\ Opens(o[j], o[i].index)
      BY <1>1, <1>2, <1>3, <2>1 DEF OpenedBefore
    <3> QED
      BY <1>3, <2>1, <3>1
  <2>2. CASE i = n + 1
    <3>1. PICK j \in 2..n : Opens(o[j], e.index)
      BY <1>1, <1>2 DEF AllOpened
    <3> QED
      BY <1>3, <2>2, <3>1
  <2> QED
    BY <1>3, <2>1, <2>2
<1> QED
  BY <1>1, <1>2, <1>3, <1>4, <1>5, <1>6, <1>7 DEF Draft

(* a block is opened *)
LEMMA DraftOpens ==
  ASSUME NEW r, NEW o, Draft(r, o), NEW e \in MsgEvents, e.kind = "open", e.index = r.next,
         NEW s \in Translators, s.open = r.open \union {r.next}, s.next = r.next + 1,
         s.text \in {r.text, r.next}
  PROVE  Draft(s, o \o <<e>>)
<1>1. PICK p, n : p = o \o <<e>> /\ n = Len(o)
  OBVIOUS
<1>2. /\ Started(o) /\ InBlocks(o, r.open) /\ OpenedOnce(o)
      /\ AllOpened(o, r.open) /\ OpenedBefore(o) /\ Counts(r)
  BY DEF Draft
<1>3. /\ Started(p) /\ n \in Nat /\ n >= 1 /\ Len(p) = n + 1 /\ p[n + 1] = e
      /\ \A i \in 2..n : i \in 2..(n + 1) /\ i < n + 1 /\ p[i] = o[i]
      /\ n + 1 \in 2..(n + 1)
      /\ \A i \in 2..(n + 1) : i \in 2..n \/ i = n + 1
  <2>1. GrownBy(p, o, e, n)
    BY <1>1, <1>2, DraftGrows
  <2> QED
    BY <2>1 DEF GrownBy
<1>4. r.next \in Nat /\ \A b \in r.open : b \in Nat /\ b >= 1 /\ b < r.next /\ b # r.next
  BY <1>2 DEF Counts, Translators
<1>5. InBlocks(p, s.open)
  BY <1>1, <1>2, <1>3 DEF InBlocks
<1>6. OpenedOnce(p)
  <2> SUFFICES ASSUME NEW i \in 2..(n + 1), NEW j \in 2..(n + 1), p[i].kind = "open",
                      p[j].kind = "open", p[j].index = p[i].index
               PROVE  i = j
    BY <1>3 DEF OpenedOnce, Opens
  <2>1. \A k \in 2..n : o[k].index \in r.open
    BY <1>1, <1>2 DEF InBlocks
  <2>2. i \in 2..n <=> j \in 2..n
    BY <1>3, <1>4, <2>1
  <2>3. CASE i \in 2..n
    BY <1>1, <1>2, <1>3, <2>2, <2>3 DEF OpenedOnce, Opens
  <2> QED
    BY <1>3, <2>2, <2>3
<1>7. AllOpened(p, s.open)
  <2>1. Opens(p[n + 1], r.next)
    BY <1>3 DEF Opens
  <2> QED
    BY <1>1, <1>2, <1>3, <2>1 DEF AllOpened
<1>8. OpenedBefore(p)
  <2> SUFFICES ASSUME NEW i \in 2..(n + 1), p[i].kind = "delta"
               PROVE  \E j \in 2..(n + 1) : j < i /\ Opens(p[j], p[i].index)
    BY <1>3 DEF OpenedBefore
  <2>1. i \in 2..n
    BY <1>3
  <2>2. PICK j \in 2..n : j < i /\ Opens(o[j], o[i].index)
    BY <1>1, <1>2, <1>3, <2>1 DEF OpenedBefore
  <2> QED
    BY <1>3, <2>1, <2>2
<1>9. Counts(s)
  BY <1>2, <1>4 DEF Counts
<1> QED
  BY <1>1, <1>3, <1>5, <1>6, <1>7, <1>8, <1>9 DEF Draft

LEMMA HandledStays ==
  ASSUME NEW o \in Seq(MsgEvents), NEW s, Handled(o, s),
         NEW d \in Seq(MsgEvents), Quiet(d)
  PROVE  Handled(o \o d, s)
<1>1. PICK p : p = o \o d
  OBVIOUS
<1>2. JoinedTo(p, o, d)
  BY <1>1, JoinedEvents
<1>3. \A i \in 1..Len(p) : \/ i \in 1..Len(o) /\ p[i] = o[i]
                           \/ ~IsHelp(p[i]) /\ ~IsGift(p[i])
  BY <1>2 DEF JoinedTo, Quiet
<1>4. Helps(p) = Helps(o)
  BY <1>2, <1>3 DEF JoinedTo, Helps
<1>5. Givings(p) = Givings(o)
  BY <1>2, <1>3 DEF JoinedTo, Givings
<1>6. \A i \in Givings(o) :
        /\ i \in 1..Len(o) /\ i + 1 \in 1..Len(o)
        /\ \E k \in 1..Len(s) : Gives(o, i, s[k])
  BY DEF Handled, Givings
<1>7. \A i \in Givings(o) :
        /\ p[i] = o[i] /\ p[i + 1] = o[i + 1] /\ i + 1 \in 1..Len(p)
  BY <1>2, <1>6 DEF JoinedTo
<1>8. \A i \in Givings(o) : \E k \in 1..Len(s) : Gives(p, i, s[k])
  BY <1>6, <1>7 DEF Gives
<1> QED
  BY <1>1, <1>4, <1>5, <1>7, <1>8 DEF Handled

LEMMA MoreTools ==
  ASSUME NEW s \in Seq(Tool), NEW t \in Tool
  PROVE  /\ Append(s, t) \in Seq(Tool) /\ Len(s) \in Nat
         /\ Len(Append(s, t)) = Len(s) + 1
         /\ Append(s, t)[Len(s) + 1] = t /\ Len(s) + 1 \in 1..Len(Append(s, t))
         /\ \A i \in 1..Len(s) : i \in 1..Len(Append(s, t)) /\ Append(s, t)[i] = s[i]
         /\ \A i \in 1..Len(Append(s, t)) : i \in 1..Len(s) \/ i = Len(s) + 1
OBVIOUS

(* a call that is explained *)
LEMMA HandledHelps ==
  ASSUME NEW o \in Seq(MsgEvents), NEW s \in Seq(Tool), Handled(o, s),
         NEW e \in MsgEvents, IsHelp(e), NEW t \in Tool
  PROVE  Handled(o \o <<e>>, Append(s, t))
<1>1. PICK p, d, n, q : p = o \o <<e>> /\ d = <<e>> /\ n = Len(o) /\ q = Append(s, t)
  OBVIOUS
<1>2. d \in Seq(MsgEvents) /\ Len(d) = 1 /\ d[1] = e /\ 1 \in 1..Len(d)
  BY <1>1
<1>3. JoinedTo(p, o, d)
  BY <1>1, <1>2, JoinedEvents
<1>4. /\ n \in Nat /\ Len(p) = n + 1 /\ p[n + 1] = e /\ n + 1 \in 1..Len(p)
      /\ \A i \in 1..n : i \in 1..Len(p) /\ p[i] = o[i]
      /\ \A i \in 1..Len(p) : i \in 1..n \/ i = n + 1
  <2>1. \A j \in 1..Len(d) : j = 1
    BY <1>2
  <2> QED
    BY <1>1, <1>2, <1>3, <2>1 DEF JoinedTo
<1>5. ~IsGift(e) /\ n + 1 \notin 1..n
  BY <1>4 DEF IsHelp, IsGift
<1>6. Helps(p) = Helps(o) \union {n + 1} /\ n + 1 \notin Helps(o)
  BY <1>1, <1>4, <1>5 DEF Helps
<1>7. Givings(p) = Givings(o)
  BY <1>1, <1>4, <1>5 DEF Givings
<1>8. /\ IsFiniteSet(Helps(o)) /\ IsFiniteSet(Givings(o))
      /\ Cardinality(Helps(o)) + Cardinality(Givings(o)) = Len(s)
  BY DEF Handled
<1>9. IsFiniteSet(Helps(p)) /\ Cardinality(Helps(p)) = Cardinality(Helps(o)) + 1
  BY <1>6, <1>8, FS_AddElement
<1>10. Cardinality(Helps(o)) \in Nat /\ Cardinality(Givings(o)) \in Nat
  BY <1>8, FS_CardinalityType
<1>11. /\ Len(q) = Len(s) + 1 /\ Len(s) \in Nat
       /\ \A i \in 1..Len(s) : i \in 1..Len(q) /\ q[i] = s[i]
  BY <1>1, MoreTools
<1>12. Cardinality(Helps(p)) + Cardinality(Givings(p)) = Len(q)
  BY <1>7, <1>8, <1>9, <1>10, <1>11
<1>13. \A i \in Givings(o) :
         /\ i \in 1..n /\ i + 1 \in 1..n
         /\ \E k \in 1..Len(s) : Gives(o, i, s[k])
  BY <1>1 DEF Handled, Givings
<1>14. ASSUME NEW i \in Givings(o)
       PROVE  p[i] = o[i] /\ p[i + 1] = o[i + 1] /\ i + 1 \in 1..Len(p)
  <2>1. i \in 1..n /\ i + 1 \in 1..n
    BY <1>13
  <2> QED
    BY <1>4, <2>1
<1>15. \A i \in Givings(o) : \E k \in 1..Len(q) : Gives(p, i, q[k])
  BY <1>11, <1>13, <1>14 DEF Gives
<1>16. \A i, j \in Givings(p) : p[i].what = p[j].what => i = j
  BY <1>7, <1>14 DEF Handled
<1> QED
  BY <1>1, <1>7, <1>8, <1>9, <1>12, <1>14, <1>15, <1>16 DEF Handled

(* a call that is given, with its arguments *)
LEMMA HandledGives ==
  ASSUME NEW o \in Seq(MsgEvents), NEW s \in Seq(Tool), Handled(o, s), NEW t \in Tool,
         \A k \in 1..Len(s) : s[k].id # t.id,
         NEW e \in MsgEvents, e.kind = "open", e.what = t.id,
         NEW f \in MsgEvents, f = Message!Event("delta", e.index, t.args), ~IsHelp(f)
  PROVE  Handled(o \o <<e, f>>, Append(s, t))
<1>1. PICK p, d, n, q : p = o \o <<e, f>> /\ d = <<e, f>> /\ n = Len(o) /\ q = Append(s, t)
  OBVIOUS
<1>2. /\ d \in Seq(MsgEvents) /\ Len(d) = 2 /\ d[1] = e /\ d[2] = f
      /\ 1 \in 1..Len(d) /\ 2 \in 1..Len(d)
  BY <1>1
<1>3. JoinedTo(p, o, d)
  BY <1>1, <1>2, JoinedEvents
<1>4. /\ n \in Nat /\ Len(p) = n + 2 /\ p[n + 1] = e /\ p[n + 2] = f
      /\ n + 1 \in 1..Len(p) /\ n + 2 \in 1..Len(p)
      /\ \A i \in 1..n : i \in 1..Len(p) /\ p[i] = o[i]
      /\ \A i \in 1..Len(p) : i \in 1..n \/ i = n + 1 \/ i = n + 2
  <2>1. \A j \in 1..Len(d) : j = 1 \/ j = 2
    BY <1>2
  <2> QED
    BY <1>1, <1>2, <1>3, <2>1 DEF JoinedTo
<1>5. IsGift(e) /\ ~IsHelp(e) /\ ~IsGift(f) /\ n + 1 \notin 1..n /\ (n + 1) + 1 = n + 2
  BY <1>4 DEF IsHelp, IsGift, Message!Event, Tool
<1>6. Helps(p) = Helps(o)
  BY <1>1, <1>4, <1>5 DEF Helps
<1>7. Givings(p) = Givings(o) \union {n + 1} /\ n + 1 \notin Givings(o)
  BY <1>1, <1>4, <1>5 DEF Givings
<1>8. /\ IsFiniteSet(Helps(o)) /\ IsFiniteSet(Givings(o))
      /\ Cardinality(Helps(o)) + Cardinality(Givings(o)) = Len(s)
  BY DEF Handled
<1>9. IsFiniteSet(Givings(p)) /\ Cardinality(Givings(p)) = Cardinality(Givings(o)) + 1
  BY <1>7, <1>8, FS_AddElement
<1>10. Cardinality(Helps(o)) \in Nat /\ Cardinality(Givings(o)) \in Nat
  BY <1>8, FS_CardinalityType
<1>11. /\ Len(q) = Len(s) + 1 /\ Len(s) \in Nat
       /\ q[Len(s) + 1] = t /\ Len(s) + 1 \in 1..Len(q)
       /\ \A i \in 1..Len(s) : i \in 1..Len(q) /\ q[i] = s[i]
  BY <1>1, MoreTools
<1>12. Cardinality(Helps(p)) + Cardinality(Givings(p)) = Len(q)
  <2>1. PICK h, g, l : h = Cardinality(Helps(o)) /\ g = Cardinality(Givings(o)) /\ l = Len(s)
    OBVIOUS
  <2>2. Cardinality(Helps(p)) = h /\ Cardinality(Givings(p)) = g + 1 /\ Len(q) = l + 1
    BY <1>6, <1>9, <1>11, <2>1
  <2>3. h \in Nat /\ g \in Nat /\ l \in Nat /\ h + g = l
    BY <1>8, <1>10, <1>11, <2>1
  <2>4. h + (g + 1) = l + 1
    BY <2>3
  <2> QED
    BY <2>2, <2>4
<1>13. \A i \in Givings(o) :
         /\ i \in 1..n /\ i + 1 \in 1..n
         /\ \E k \in 1..Len(s) : Gives(o, i, s[k])
  BY <1>1 DEF Handled, Givings
<1>14. ASSUME NEW i \in Givings(o)
       PROVE  p[i] = o[i] /\ p[i + 1] = o[i + 1] /\ i + 1 \in 1..Len(p)
  <2>1. i \in 1..n /\ i + 1 \in 1..n
    BY <1>13
  <2> QED
    BY <1>4, <2>1
<1>15. ASSUME NEW i \in Givings(o) PROVE \E k \in 1..Len(q) : Gives(p, i, q[k])
  <2>1. PICK k \in 1..Len(s) : Gives(o, i, s[k])
    BY <1>13
  <2>2. k \in 1..Len(q) /\ q[k] = s[k]
    BY <1>11
  <2>3. Gives(p, i, s[k])
    BY <1>14, <2>1 DEF Gives
  <2> QED
    BY <2>2, <2>3
<1>16. Gives(p, n + 1, q[Len(s) + 1]) /\ (n + 1) + 1 \in 1..Len(p)
  BY <1>4, <1>5, <1>11 DEF Gives
<1>17. \A i \in Givings(o) : p[i].what # e.what
  BY <1>13, <1>14 DEF Gives
<1>18. \A i, j \in Givings(p) : p[i].what = p[j].what => i = j
  <2>1. \A i, j \in Givings(o) : o[i].what = o[j].what => i = j
    BY DEF Handled
  <2> QED
    BY <1>4, <1>7, <1>14, <1>17, <2>1
<1>19. \A i \in Givings(p) : i + 1 \in 1..Len(p) /\ \E k \in 1..Len(q) : Gives(p, i, q[k])
  BY <1>7, <1>11, <1>14, <1>15, <1>16
<1>20. IsFiniteSet(Helps(p))
  BY <1>6, <1>8
<1> QED
  BY <1>1, <1>9, <1>12, <1>18, <1>19, <1>20 DEF Handled

(* a sequence of two events is one, then the other *)
LEMMA OneByOne ==
  ASSUME NEW X, NEW o \in Seq(X), NEW e \in X, NEW f \in X
  PROVE  <<e, f>> \in Seq(X) /\ o \o <<e, f>> = (o \o <<e>>) \o <<f>>
<1>1. PICK a, b, c : a = <<e>> /\ b = <<f>> /\ c = <<e, f>>
  OBVIOUS
<1>2. /\ a \in Seq(X) /\ b \in Seq(X) /\ c \in Seq(X) /\ Len(a) = 1 /\ Len(b) = 1 /\ Len(c) = 2
      /\ a[1] = e /\ b[1] = f /\ c[1] = e /\ c[2] = f
  BY <1>1
<1>3. a \o b = c
  <2>1. PICK d : d = a \o b
    OBVIOUS
  <2>2. d \in Seq(X) /\ Len(d) = 2 /\ d[1] = e /\ d[2] = f
    BY <1>2, <2>1, ConcatProperties
  <2>3. \A i \in 1..2 : i = 1 \/ i = 2
    OBVIOUS
  <2>4. \A i \in 1..2 : d[i] = c[i]
    BY <1>2, <2>2, <2>3
  <2>5. d = c
    BY <1>2, <2>2, <2>4
  <2> QED
    BY <2>1, <2>5
<1>4. (o \o a) \o b = o \o (a \o b)
  BY <1>2, ConcatAssociative
<1> QED
  BY <1>1, <1>2, <1>3, <1>4

LEMMA InTurn ==
  ASSUME NEW X, NEW o \in Seq(X), NEW a \in Seq(X), NEW b \in Seq(X)
  PROVE  a \o b \in Seq(X) /\ o \o (a \o b) = (o \o a) \o b
<1>1. (o \o a) \o b = o \o (a \o b)
  BY ConcatAssociative
<1>2. a \o b \in Seq(X)
  OBVIOUS
<1> QED
  BY <1>1, <1>2

(* the translators that opened the next block *)
LEMMA Opened ==
  ASSUME NEW r \in Translators, NEW q,
         \/ q = [r EXCEPT !.next = @ + 1, !.open = @ \union {r.next}]
         \/ q = [r EXCEPT !.text = r.next, !.next = @ + 1, !.open = @ \union {r.next}]
  PROVE  /\ q \in Translators /\ q.open = r.open \union {r.next} /\ q.next = r.next + 1
         /\ q.text \in {r.text, r.next} /\ q.tools = r.tools /\ q.held = r.held
         /\ q.begun = r.begun /\ q.finished = r.finished
<1>1. /\ r.begun \in BOOLEAN /\ r.held \in BOOLEAN /\ r.text \in Nat /\ r.next \in Nat
      /\ r.tools \in SUBSET Tool /\ r.open \in SUBSET Nat /\ r.finished \in BOOLEAN
      /\ r = [begun |-> r.begun, held |-> r.held, text |-> r.text, next |-> r.next,
              tools |-> r.tools, open |-> r.open, finished |-> r.finished]
  BY DEF Translators
<1>2. PICK x \in {r.text, r.next} :
        q = [begun |-> r.begun, held |-> r.held, text |-> x, next |-> r.next + 1,
             tools |-> r.tools, open |-> r.open \union {r.next}, finished |-> r.finished]
  BY <1>1
<1>3. x \in Nat /\ r.next + 1 \in Nat /\ r.open \union {r.next} \in SUBSET Nat
  BY <1>1
<1> QED
  BY <1>1, <1>2, <1>3 DEF Translators

LEMMA WordEvents ==
  ASSUME NEW n \in Nat, NEW w \in Letters
  PROVE  /\ Message!Event("open", n, "text") \in MsgEvents
         /\ Message!Event("delta", n, <<w>>) \in MsgEvents
         /\ ~IsHelp(Message!Event("open", n, "text")) /\ ~IsGift(Message!Event("open", n, "text"))
         /\ ~IsGift(Message!Event("delta", n, <<w>>))
         /\ IsHelp(Message!Event("delta", n, <<w>>)) <=> w = "help"
<1>1. <<w>> \in Seq(Letters) /\ <<w>>[1] = w /\ <<"help">>[1] = "help"
  OBVIOUS
<1>2. "text" \notin Calls
  BY StreamsAssumption
<1> QED
  BY <1>1, <1>2 DEF Message!Event, MsgEvents, IsHelp, IsGift

TextedAs(r, o, what, s, t, e) ==
  /\ e.events \in Seq(MsgEvents) /\ Draft(e.r, o \o e.events)
  /\ e.r.tools = r.tools /\ e.r.held = r.held /\ e.r.begun = r.begun
  /\ e.r.finished = r.finished
  /\ what = "help" => Handled(o \o e.events, Append(s, t))
  /\ what # "help" => Handled(o \o e.events, s)

LEMMA Texts ==
  ASSUME NEW r, NEW o, Draft(r, o), NEW what \in Letters,
         NEW s \in Seq(Tool), NEW t, what = "help" => t \in Tool, Handled(o, s)
  PROVE  TextedAs(r, o, what, s, t, Message!Texted(r, what))
<1>1. Started(o) /\ Counts(r) /\ o \in Seq(MsgEvents)
  BY DEF Draft, Started
<1>2. r \in Translators /\ r.next \in Nat /\ r.next >= 1 /\ r.text \in Nat
  BY <1>1 DEF Counts, Translators
<1>3. ASSUME NEW n \in Nat, NEW q, NEW u, u \in Seq(MsgEvents), Draft(q, u), Handled(u, s),
             n \in q.open, NEW d, d = Message!Event("delta", n, <<what>>)
      PROVE  /\ d \in MsgEvents /\ Draft(q, u \o <<d>>)
             /\ what = "help" => Handled(u \o <<d>>, Append(s, t))
             /\ what # "help" => Handled(u \o <<d>>, s)
  <2>1. d \in MsgEvents /\ ~IsGift(d) /\ (IsHelp(d) <=> what = "help")
    BY <1>3, WordEvents
  <2>2. Draft(q, u \o <<d>>)
    BY <1>3, <2>1, DraftAdds DEF Message!Event
  <2>3. what = "help" => Handled(u \o <<d>>, Append(s, t))
    BY <1>3, <2>1, HandledHelps
  <2>4. ASSUME what # "help" PROVE Handled(u \o <<d>>, s)
    <3>1. PICK c : c = <<d>>
      OBVIOUS
    <3>2. c \in Seq(MsgEvents) /\ Quiet(c)
      BY <2>1, <2>4, <3>1 DEF Quiet
    <3> QED
      BY <1>3, <3>1, <3>2, HandledStays
  <2> QED
    BY <2>1, <2>2, <2>3, <2>4
<1>4. CASE r.text = 0
  <2>1. PICK q, a, d :
          /\ q = [r EXCEPT !.text = r.next, !.next = @ + 1, !.open = @ \union {r.next}]
          /\ a = Message!Event("open", r.next, "text")
          /\ d = Message!Event("delta", r.next, <<what>>)
    OBVIOUS
  <2>2. Message!Texted(r, what) = [r |-> q, events |-> <<a, d>>]
    BY <1>4, <2>1 DEF Message!Texted, Message!None
  <2>3. /\ q \in Translators /\ q.open = r.open \union {r.next} /\ q.next = r.next + 1
        /\ q.text \in {r.text, r.next} /\ q.tools = r.tools /\ q.held = r.held
        /\ q.begun = r.begun /\ q.finished = r.finished
    BY <1>2, <2>1, Opened
  <2>4. a \in MsgEvents /\ ~IsHelp(a) /\ ~IsGift(a) /\ a.kind = "open" /\ a.index = r.next
    BY <1>2, <2>1, WordEvents DEF Message!Event
  <2>5. PICK u : u = o \o <<a>>
    OBVIOUS
  <2>6. Draft(q, u)
    BY <2>3, <2>4, <2>5, DraftOpens
  <2>7. Handled(u, s)
    <3>1. PICK c : c = <<a>>
      OBVIOUS
    <3>2. c \in Seq(MsgEvents) /\ Quiet(c)
      BY <2>4, <3>1 DEF Quiet
    <3> QED
      BY <1>1, <2>5, <3>1, <3>2, HandledStays
  <2>8. u \in Seq(MsgEvents)
    BY <2>6 DEF Draft, Started
  <2>9. /\ d \in MsgEvents /\ Draft(q, u \o <<d>>)
        /\ what = "help" => Handled(u \o <<d>>, Append(s, t))
        /\ what # "help" => Handled(u \o <<d>>, s)
    <3>1. PICK n : n = r.next
      OBVIOUS
    <3>2. n \in Nat /\ n \in q.open /\ d = Message!Event("delta", n, <<what>>)
      BY <1>2, <2>1, <2>3, <3>1
    <3> QED
      BY <1>3, <2>6, <2>7, <2>8, <3>2
  <2>10. o \o <<a, d>> = u \o <<d>> /\ <<a, d>> \in Seq(MsgEvents)
    <3>1. o \in Seq(MsgEvents) /\ a \in MsgEvents /\ d \in MsgEvents
      BY <1>1, <2>4, <2>9
    <3>2. o \o <<a, d>> = (o \o <<a>>) \o <<d>> /\ <<a, d>> \in Seq(MsgEvents)
      BY <3>1, OneByOne
    <3> QED
      BY <2>5, <3>2
  <2>11. PICK g, y : g = Message!Texted(r, what) /\ y = <<a, d>>
    OBVIOUS
  <2>12. g.r = q /\ g.events = y /\ o \o y = u \o <<d>> /\ y \in Seq(MsgEvents)
    <3>1. g = [r |-> q, events |-> y]
      BY <2>2, <2>11, Zenon
    <3>2. g.r = q /\ g.events = y
      BY <3>1
    <3> QED
      BY <2>10, <2>11, <3>2
  <2>13. TextedAs(r, o, what, s, t, g)
    BY <2>3, <2>9, <2>12 DEF TextedAs
  <2> QED
    BY <2>11, <2>13
<1>5. CASE r.text # 0
  <2>1. PICK d : d = Message!Event("delta", r.text, <<what>>)
    OBVIOUS
  <2>2. Message!Texted(r, what) = [r |-> r, events |-> <<d>>]
    BY <1>5, <2>1 DEF Message!Texted, Message!None
  <2>3. r.text \in r.open
    BY <1>1, <1>5 DEF Counts
  <2>4. /\ d \in MsgEvents /\ Draft(r, o \o <<d>>)
        /\ what = "help" => Handled(o \o <<d>>, Append(s, t))
        /\ what # "help" => Handled(o \o <<d>>, s)
    BY <1>1, <1>2, <1>3, <2>1, <2>3
  <2>5. <<d>> \in Seq(MsgEvents)
    BY <2>4
  <2> QED
    BY <2>2, <2>4, <2>5 DEF TextedAs
<1> QED
  BY <1>4, <1>5

(* what flushing has made of a translator, after the calls s *)
Flushed(r, o, acc, s) ==
  /\ acc.events \in Seq(MsgEvents) /\ Draft(acc.r, o \o acc.events)
  /\ Handled(o \o acc.events, s)
  /\ acc.r.held = r.held /\ acc.r.begun = r.begun /\ acc.r.finished = r.finished

LEMMA FlushesOn ==
  ASSUME NEW r, NEW o \in Seq(MsgEvents), NEW acc, NEW s \in Seq(Tool),
         Flushed(r, o, acc, s), NEW t \in Tool, \A k \in 1..Len(s) : s[k].id # t.id,
         NEW valid
  PROVE  Flushed(r, o, Message!Given(acc, t, valid), Append(s, t))
<1>1. PICK u, x : x = acc.events /\ u = o \o x
  OBVIOUS
<1>2. /\ x \in Seq(MsgEvents) /\ u \in Seq(MsgEvents)
      /\ Draft(acc.r, u) /\ Handled(u, s)
  <2>1. x \in Seq(MsgEvents) /\ Draft(acc.r, u) /\ Handled(u, s)
    BY <1>1 DEF Flushed
  <2> QED
    BY <1>1, <2>1, ConcatProperties
<1>3. CASE t.id \in valid
  <2>1. PICK q, a, d :
          /\ q = [acc.r EXCEPT !.next = @ + 1, !.open = @ \union {acc.r.next}]
          /\ a = Message!Event("open", acc.r.next, t.id)
          /\ d = Message!Event("delta", acc.r.next, t.args)
    OBVIOUS
  <2>2. Message!Given(acc, t, valid) = [r |-> q, events |-> acc.events \o <<a, d>>]
    BY <1>3, <2>1 DEF Message!Given
  <2>3. acc.r \in Translators /\ acc.r.next \in Nat
    BY <1>2 DEF Draft, Counts, Translators
  <2>4. /\ q \in Translators /\ q.open = acc.r.open \union {acc.r.next}
        /\ q.next = acc.r.next + 1 /\ q.text \in {acc.r.text, acc.r.next}
        /\ q.held = acc.r.held /\ q.begun = acc.r.begun /\ q.finished = acc.r.finished
    BY <2>1, <2>3, Opened
  <2>5. /\ a \in MsgEvents /\ a.kind = "open" /\ a.index = acc.r.next /\ a.what = t.id
    BY <2>1, <2>3 DEF Message!Event, MsgEvents, Tool
  <2>6. d \in MsgEvents /\ ~IsHelp(d) /\ d.kind = "delta" /\ d.index = acc.r.next
    <3>1. t.args \in Seq({"head", "tail"})
      BY DEF Tool
    <3>2. t.args # <<"help">>
      <4>1. <<"help">>[1] = "help" /\ 1 \in 1..Len(<<"help">>)
        OBVIOUS
      <4>2. \A i \in 1..Len(t.args) : t.args[i] # "help"
        BY <3>1
      <4> QED
        BY <4>1, <4>2
    <3>3. t.args \in Seq(Letters)
      BY <3>1 DEF Letters
    <3> QED
      BY <2>1, <2>3, <3>2, <3>3 DEF Message!Event, MsgEvents, IsHelp
  <2>7. Draft(q, (u \o <<a>>) \o <<d>>)
    <3>1. Draft(q, u \o <<a>>)
      BY <1>2, <2>4, <2>5, DraftOpens
    <3> QED
      BY <2>4, <2>6, <3>1, DraftAdds
  <2>8. Handled(u \o <<a, d>>, Append(s, t))
    BY <1>2, <2>1, <2>5, <2>6, HandledGives
  <2>9. u \o <<a, d>> = (u \o <<a>>) \o <<d>>
    <3>1. u \in Seq(MsgEvents) /\ a \in MsgEvents /\ d \in MsgEvents
      BY <1>2, <2>5, <2>6
    <3> QED
      BY <3>1, OneByOne
  <2>10. PICK y : y = acc.events \o <<a, d>> /\ y \in Seq(MsgEvents) /\ o \o y = u \o <<a, d>>
    <3>1. PICK c : c = <<a, d>>
      OBVIOUS
    <3>2. c \in Seq(MsgEvents)
      BY <2>5, <2>6, <3>1, OneByOne
    <3>3. x \o c \in Seq(MsgEvents) /\ o \o (x \o c) = (o \o x) \o c
      <4>1. x \in Seq(MsgEvents)
        BY <1>2
      <4> QED
        BY <3>2, <4>1, InTurn
    <3> QED
      BY <1>1, <3>1, <3>2, <3>3
  <2>11. PICK g : g = Message!Given(acc, t, valid)
    OBVIOUS
  <2>12. g.r = q /\ g.events = y
    BY <2>2, <2>10, <2>11
  <2>13. /\ q.held = r.held /\ q.begun = r.begun /\ q.finished = r.finished
         /\ Draft(q, o \o y) /\ Handled(o \o y, Append(s, t))
    BY <2>4, <2>7, <2>8, <2>9, <2>10 DEF Flushed
  <2> QED
    BY <2>10, <2>11, <2>12, <2>13 DEF Flushed
<1>4. CASE t.id \notin valid
  <2>1. PICK e : e = Message!Texted(acc.r, "help")
    OBVIOUS
  <2>2. Message!Given(acc, t, valid) = [r |-> e.r, events |-> acc.events \o e.events]
    BY <1>4, <2>1 DEF Message!Given
  <2>3. TextedAs(acc.r, u, "help", s, t, e)
    BY <1>2, <2>1, Texts DEF Letters
  <2>4. PICK z : /\ z = acc.events \o e.events /\ z \in Seq(MsgEvents)
                 /\ o \o z = u \o e.events
    <3>1. e.events \in Seq(MsgEvents)
      BY <2>3 DEF TextedAs
    <3>2. PICK y : y = e.events
      OBVIOUS
    <3>3. x \o y \in Seq(MsgEvents) /\ o \o (x \o y) = (o \o x) \o y
      <4>1. y \in Seq(MsgEvents) /\ x \in Seq(MsgEvents)
        BY <1>2, <3>1, <3>2
      <4> QED
        BY <4>1, InTurn
    <3> QED
      BY <1>1, <3>2, <3>3
  <2>5. PICK g : g = Message!Given(acc, t, valid)
    OBVIOUS
  <2>6. g.r = e.r /\ g.events = z
    <3>1. g = [r |-> e.r, events |-> z]
      BY <2>2, <2>4, <2>5, Zenon
    <3> QED
      BY <3>1
  <2>7. /\ e.r.held = r.held /\ e.r.begun = r.begun /\ e.r.finished = r.finished
        /\ Draft(e.r, o \o z) /\ Handled(o \o z, Append(s, t))
    BY <2>3, <2>4 DEF TextedAs, Flushed
  <2> QED
    BY <2>4, <2>5, <2>6, <2>7 DEF Flushed
<1> QED
  BY <1>3, <1>4

-----------------------------------------------------------------------------
(* Numbers in ascending order.                                               *)

LEMMA MessageCard == \A S : Message!Cardinality(S) = Cardinality(S)
BY DEF Message!Cardinality, Cardinality

Enumerates(f, T) ==
  /\ f \in [1..Cardinality(T) -> T]
  /\ \A i, j \in 1..Cardinality(T) : i < j => f[i] < f[j]

LEMMA Enumerable ==
  ASSUME NEW n \in Nat, NEW S \in SUBSET (1..n)
  PROVE  \E f : Enumerates(f, S)
<1> DEFINE R == 1..n
           F == {T \in SUBSET R : \E f : Enumerates(f, T)}
<1>1. IsFiniteSet(R)
  BY FS_Interval
<1>2. ASSUME NEW T \in SUBSET R, \A U \in SUBSET T : U # T => U \in F
      PROVE  T \in F
  <2>1. CASE T = {}
    <3>1. Cardinality(T) = 0 /\ 1..0 = {}
      BY <2>1, FS_EmptySet
    <3>2. PICK f : f = [i \in 1..0 |-> 0]
      OBVIOUS
    <3>3. f \in [1..0 -> T]
      BY <3>1, <3>2
    <3>4. Enumerates(f, T)
      BY <3>1, <3>3 DEF Enumerates
    <3> QED
      BY <3>4
  <2>2. CASE T # {}
    <3>1. PICK m, U : m = Max(T) /\ U = T \ {m}
      OBVIOUS
    <3>2. m \in T /\ \A k \in T : k <= m
      BY <2>2, <3>1, MaxIn
    <3>3. U \in SUBSET T /\ U # T /\ m \notin U /\ T = U \union {m}
      BY <3>1, <3>2
    <3>4. PICK f : Enumerates(f, U)
      BY <1>2, <3>3
    <3>5. IsFiniteSet(T) /\ IsFiniteSet(U)
      BY <1>1, <3>3, FS_Subset
    <3>6. PICK c \in Nat : c = Cardinality(U) /\ Cardinality(T) = c + 1
      BY <3>3, <3>5, FS_AddElement, FS_CardinalityType
    <3>7. f \in [1..c -> U] /\ \A i, j \in 1..c : i < j => f[i] < f[j]
      BY <3>4, <3>6 DEF Enumerates
    <3>8. PICK g : g = [i \in 1..(c + 1) |-> IF i = c + 1 THEN m ELSE f[i]]
      OBVIOUS
    <3>9. \A i \in 1..(c + 1) : i = c + 1 \/ (i \in 1..c /\ i < c + 1)
      OBVIOUS
    <3>10. g \in [1..(c + 1) -> T]
      BY <3>2, <3>3, <3>7, <3>8, <3>9
    <3>11. \A k \in U : k < m
      BY <3>2, <3>3
    <3>12. ASSUME NEW i \in 1..(c + 1), NEW j \in 1..(c + 1), i < j PROVE g[i] < g[j]
      <4>1. i \in 1..c /\ g[i] = f[i] /\ f[i] \in U
        BY <3>7, <3>8, <3>9, <3>12
      <4>2. CASE j = c + 1
        BY <3>8, <3>11, <4>1, <4>2
      <4>3. CASE j \in 1..c
        <5>1. g[j] = f[j]
          BY <3>8, <4>3
        <5> QED
          BY <3>7, <3>12, <4>1, <4>3, <5>1
      <4> QED
        BY <3>9, <4>2, <4>3
    <3>13. Enumerates(g, T)
      BY <3>6, <3>10, <3>12 DEF Enumerates
    <3> QED
      BY <3>13
  <2> QED
    BY <2>1, <2>2
<1>3. SUBSET R \subseteq F
  <2> HIDE DEF F, R
  <2> QED
    BY <1>1, <1>2, SubsetInduction
<1> QED
  BY <1>3

(* each of them once *)
Lists(s, S) ==
  /\ s \in [1..Cardinality(S) -> S]
  /\ \A i, j \in 1..Cardinality(S) : s[i] = s[j] => i = j
  /\ \A x \in S : \E i \in 1..Cardinality(S) : s[i] = x

LEMMA AscendingLists ==
  ASSUME NEW n \in Nat, NEW S \in SUBSET (1..n)
  PROVE  Lists(Message!Ascending(S), S) /\ Cardinality(S) \in Nat
<1>1. IsFiniteSet(S) /\ Cardinality(S) \in Nat
  <2>1. IsFiniteSet(1..n)
    BY FS_Interval
  <2> QED
    BY <2>1, FS_Subset, FS_CardinalityType
<1>2. PICK c \in Nat : c = Cardinality(S)
  BY <1>1
<1>3. Message!SetToSeqs(S) = {f \in [1..c -> S] : \A i, j \in 1..c : i # j => f[i] # f[j]}
  BY <1>2, MessageCard DEF Message!SetToSeqs
<1>4. PICK f : Enumerates(f, S)
  BY Enumerable
<1>5. f \in [1..c -> S] /\ \A i, j \in 1..c : i < j => f[i] < f[j]
  BY <1>2, <1>4 DEF Enumerates
<1>6. \A i, j \in 1..c : i # j => f[i] # f[j]
  <2> SUFFICES ASSUME NEW i \in 1..c, NEW j \in 1..c, i # j PROVE f[i] # f[j]
    OBVIOUS
  <2>1. f[i] \in S /\ f[j] \in S
    BY <1>5
  <2>2. i < j \/ j < i
    OBVIOUS
  <2>3. f[i] < f[j] \/ f[j] < f[i]
    BY <1>5, <2>2
  <2>4. f[i] \in Nat /\ f[j] \in Nat
    <3>1. \A x \in S : x \in Nat
      OBVIOUS
    <3> QED
      BY <2>1, <3>1
  <2> QED
    BY <2>3, <2>4
<1>7. f \in Message!SetToSeqs(S) /\ DOMAIN f = 1..c
  BY <1>3, <1>5, <1>6
<1>8. \E s \in Message!SetToSeqs(S) : \A i, j \in DOMAIN s : i < j => s[i] < s[j]
  BY <1>5, <1>7
<1>9. PICK s : s = Message!Ascending(S)
  OBVIOUS
<1>10. s \in Message!SetToSeqs(S)
  BY <1>8, <1>9 DEF Message!Ascending
<1>11. s \in [1..c -> S] /\ \A i, j \in 1..c : i # j => s[i] # s[j]
  BY <1>3, <1>10
<1>12. s \in Injection(1..c, S)
  BY <1>11 DEF Injection, IsInjective
<1>13. Cardinality(1..c) = c
  BY FS_Interval
<1>14. s \in Surjection(1..c, S)
  BY <1>1, <1>2, <1>12, <1>13, FS_Injection
<1>15. \A x \in S : \E i \in 1..c : s[i] = x
  BY <1>14 DEF Surjection
<1> QED
  BY <1>1, <1>2, <1>9, <1>11, <1>15 DEF Lists

-----------------------------------------------------------------------------
(* Flushing.                                                                 *)

Accs == [r : Translators, events : Seq(MsgEvents)]

Giving(valid) == [p \in Accs \X Tool |-> Message!Given(p[1], p[2], valid)]

LEMMA TextedType ==
  ASSUME NEW r \in Translators, NEW what \in Letters
  PROVE  /\ Message!Texted(r, what).r \in Translators
         /\ Message!Texted(r, what).events \in Seq(MsgEvents)
<1>1. PICK n, k : n = r.next /\ k = r.text /\ n \in Nat /\ k \in Nat
  BY DEF Translators
<1>2. PICK a, d, e :
        /\ a = Message!Event("open", n, "text") /\ d = Message!Event("delta", n, <<what>>)
        /\ e = Message!Event("delta", k, <<what>>)
  OBVIOUS
<1>3. a \in MsgEvents /\ d \in MsgEvents /\ e \in MsgEvents
  BY <1>1, <1>2, WordEvents
<1>4. <<a, d>> \in Seq(MsgEvents) /\ <<e>> \in Seq(MsgEvents)
  BY <1>3
<1>5. PICK q : q = [r EXCEPT !.text = r.next, !.next = @ + 1, !.open = @ \union {r.next}]
  OBVIOUS
<1>6. q \in Translators
  BY <1>5, Opened
<1>7. Message!Texted(r, what) = IF r.text = 0 THEN [r |-> q, events |-> <<a, d>>]
                                ELSE [r |-> r, events |-> <<e>>]
  BY <1>1, <1>2, <1>5 DEF Message!Texted, Message!None
<1> QED
  BY <1>4, <1>6, <1>7

LEMMA GivenType ==
  ASSUME NEW acc \in Accs, NEW t \in Tool, NEW valid
  PROVE  Message!Given(acc, t, valid) \in Accs
<1>1. PICK r, x : r = acc.r /\ x = acc.events /\ r \in Translators /\ x \in Seq(MsgEvents)
  BY DEF Accs
<1>2. CASE t.id \in valid
  <2>1. PICK n, q, a, d :
          /\ n = r.next
          /\ q = [r EXCEPT !.next = @ + 1, !.open = @ \union {r.next}]
          /\ a = Message!Event("open", n, t.id)
          /\ d = Message!Event("delta", n, t.args)
    OBVIOUS
  <2>2. q \in Translators
    BY <1>1, <2>1, Opened
  <2>3. n \in Nat /\ t.id \in Calls /\ t.args \in Seq(Letters)
    BY <1>1, <2>1 DEF Translators, Tool, Letters
  <2>4. a \in MsgEvents /\ d \in MsgEvents
    BY <2>1, <2>3 DEF MsgEvents, Message!Event
  <2>5. PICK c : c = <<a, d>> /\ c \in Seq(MsgEvents)
    BY <1>1, <2>4, OneByOne
  <2>6. x \o c \in Seq(MsgEvents)
    BY <1>1, <2>5, InTurn
  <2>7. Message!Given(acc, t, valid) = [r |-> q, events |-> x \o c]
    BY <1>1, <1>2, <2>1, <2>5 DEF Message!Given
  <2> QED
    BY <2>2, <2>6, <2>7 DEF Accs
<1>3. CASE t.id \notin valid
  <2>1. PICK q, c : q = Message!Texted(r, "help").r /\ c = Message!Texted(r, "help").events
    OBVIOUS
  <2>2. q \in Translators /\ c \in Seq(MsgEvents)
    BY <1>1, <2>1, TextedType DEF Letters
  <2>3. x \o c \in Seq(MsgEvents)
    BY <1>1, <2>2, InTurn
  <2>4. Message!Given(acc, t, valid) = [r |-> q, events |-> x \o c]
    BY <1>1, <1>3, <2>1 DEF Message!Given
  <2> QED
    BY <2>2, <2>3, <2>4 DEF Accs
<1> QED
  BY <1>2, <1>3

LEMMA GivingType == \A valid : Giving(valid) \in [Accs \X Tool -> Accs]
<1> SUFFICES ASSUME NEW valid PROVE Giving(valid) \in [Accs \X Tool -> Accs]
  OBVIOUS
<1>1. ASSUME NEW p \in Accs \X Tool PROVE Message!Given(p[1], p[2], valid) \in Accs
  <2>1. p[1] \in Accs /\ p[2] \in Tool
    OBVIOUS
  <2> QED
    BY <2>1, GivenType
<1> QED
  BY <1>1 DEF Giving

LEMMA MessageMax == \A S : Message!Max(S) = Max(S)
BY DEF Message!Max, Max

Unflushed(r) == [r |-> r, events |-> <<>>]

LEMMA FlushIs ==
  ASSUME NEW r \in Translators, NEW valid, NEW seq \in Seq(Tool),
         Message!ByKey(r.tools) = seq
  PROVE  Message!Flush(r, valid) = Stepwise(Giving(valid), Unflushed(r), seq)
<1> DEFINE n == Len(seq)
           base == Unflushed(r)
           step == Giving(valid)
           iter(h) == [T \in SUBSET (1..n) |->
                         IF T = {} THEN [r |-> r, events |-> <<>>]
                         ELSE Message!Given(h[T \ {Max(T)}], seq[Max(T)], valid)]
           it == CHOOSE h : h = iter(h)
<1>1. step \in [Accs \X Tool -> Accs] /\ base \in Accs /\ n \in Nat
  <2>1. <<>> \in Seq(MsgEvents)
    OBVIOUS
  <2>2. base \in Accs
    BY <2>1 DEF Accs, Unflushed
  <2>3. step \in [Accs \X Tool -> Accs]
    BY GivingType
  <2>4. n \in Nat
    OBVIOUS
  <2> HIDE DEF step, base, n
  <2> QED
    BY <2>2, <2>3, <2>4
<1>2. PICK g \in Values(n, Accs) : FoldsTo(g, step, base, seq)
  <2> HIDE DEF step, base
  <2>1. \E g \in Values(n, Accs) : FoldsTo(g, step, base, seq)
    BY <1>1, StepwiseIs
  <2> QED
    BY <2>1
<1>3. ASSUME NEW T \in SUBSET (1..n)
      PROVE  g[T] = IF T = {} THEN [r |-> r, events |-> <<>>]
                    ELSE Message!Given(g[T \ {Max(T)}], seq[Max(T)], valid)
  <2>1. g[T] = IF T = {} THEN base ELSE step[<<g[T \ {Max(T)}], seq[Max(T)]>>]
    BY <1>2 DEF FoldsTo
  <2>2. CASE T # {}
    <3>1. Max(T) \in 1..n
      BY <1>1, <2>2, MaxIn
    <3>2. g[T \ {Max(T)}] \in Accs /\ seq[Max(T)] \in Tool
      <4>1. g \in [SUBSET (1..n) -> Accs] /\ T \ {Max(T)} \in SUBSET (1..n)
        BY <1>2 DEF Values
      <4> QED
        BY <3>1, <4>1
    <3>3. PICK x, t : x = g[T \ {Max(T)}] /\ t = seq[Max(T)]
      OBVIOUS
    <3>4. step[<<x, t>>] = Message!Given(x, t, valid)
      BY <3>2, <3>3 DEF Giving
    <3> QED
      BY <2>1, <2>2, <3>3, <3>4
  <2> QED
    BY <2>1, <2>2 DEF Unflushed
<1>4. g = iter(g)
  BY <1>2, <1>3 DEF Values
<1>5. it = iter(it)
  <2> HIDE DEF iter
  <2> QED
    BY <1>4
<1>6. \A T \in SUBSET (1..n) :
        it[T] = IF T = {} THEN [r |-> r, events |-> <<>>]
                ELSE Message!Given(it[T \ {Max(T)}], seq[Max(T)], valid)
  <2> HIDE DEF it
  <2> QED
    BY <1>5
<1>7. it[1..n] = g[1..n]
  <2> HIDE DEF it, n
  <2>1. it[{}] = g[{}]
    BY <1>3, <1>6
  <2>2. \A T \in SUBSET (1..n) :
          T # {} /\ it[T \ {Max(T)}] = g[T \ {Max(T)}] => it[T] = g[T]
    BY <1>3, <1>6
  <2> QED
    BY <1>1, <2>1, <2>2, FoldsAgree
<1>8. DOMAIN seq = 1..n
  OBVIOUS
<1>9. Message!Flush(r, valid) = it[1..n]
  BY <1>8, MessageMax DEF Message!Flush, Message!FoldLeft, Message!MapThenFoldSet
<1> QED
  BY <1>2, <1>7, <1>9 DEF FoldsTo

OfOthers(s) == \A i, j \in 1..Len(s) : s[i].id = s[j].id => i = j

LEMMA FlushesAll ==
  ASSUME NEW r, NEW o, Draft(r, o), Handled(o, <<>>), NEW valid,
         NEW seq \in Seq(Tool), OfOthers(seq)
  PROVE  Flushed(r, o, Stepwise(Giving(valid), Unflushed(r), seq), seq)
<1> DEFINE fold(s) == Stepwise(Giving(valid), Unflushed(r), s)
           F == {s \in Seq(Tool) : OfOthers(s) => Flushed(r, o, fold(s), s)}
<1>1. o \in Seq(MsgEvents) /\ r \in Translators
  BY DEF Draft, Started, Counts
<1>2. PICK base, step : base = Unflushed(r) /\ step = Giving(valid)
  OBVIOUS
<1>3. base \in Accs /\ step \in [Accs \X Tool -> Accs]
  <2>1. <<>> \in Seq(MsgEvents)
    OBVIOUS
  <2>2. base \in Accs
    BY <1>1, <1>2, <2>1 DEF Accs, Unflushed
  <2> QED
    BY <1>2, <2>2, GivingType
<1>4. <<>> \in F
  <2>1. fold(<<>>) = base
    BY <1>2, <1>3, StepwiseEmpty
  <2>2. PICK z : z = <<>> /\ z \in Seq(MsgEvents)
    <3>1. <<>> \in Seq(MsgEvents)
      OBVIOUS
    <3> QED
      BY <3>1
  <2>3. o \o z = o
    BY <1>1, <2>2, ConcatEmptySeq
  <2>4. base.r = r /\ base.events = z
    BY <1>2, <2>2 DEF Unflushed
  <2>5. Flushed(r, o, base, <<>>)
    BY <2>2, <2>3, <2>4 DEF Flushed
  <2>6. <<>> \in Seq(Tool)
    OBVIOUS
  <2> QED
    BY <2>1, <2>5, <2>6
<1>5. ASSUME NEW s \in Seq(Tool), NEW t \in Tool, s \in F PROVE Append(s, t) \in F
  <2>1. PICK q : q = Append(s, t)
    OBVIOUS
  <2>2. /\ q \in Seq(Tool) /\ Len(s) \in Nat /\ Len(q) = Len(s) + 1
        /\ q[Len(s) + 1] = t /\ Len(s) + 1 \in 1..Len(q)
        /\ \A i \in 1..Len(s) : i \in 1..Len(q) /\ q[i] = s[i]
    BY <2>1, MoreTools
  <2>3. SUFFICES ASSUME OfOthers(q) PROVE Flushed(r, o, fold(q), q)
    BY <2>1, <2>2
  <2>4. OfOthers(s)
    BY <2>2, <2>3 DEF OfOthers
  <2>5. \A k \in 1..Len(s) : s[k].id # t.id
    BY <2>2, <2>3 DEF OfOthers
  <2>6. Flushed(r, o, fold(s), s)
    BY <1>5, <2>4
  <2>7. GoesOnWith(step, base, Accs, s, t)
    BY <1>3, StepwiseAppend
  <2>8. PICK acc : acc = fold(s)
    OBVIOUS
  <2>9. acc \in Accs /\ fold(q) = step[<<acc, t>>]
    BY <1>2, <2>1, <2>7, <2>8 DEF GoesOnWith
  <2>10. fold(q) = Message!Given(acc, t, valid)
    BY <1>2, <2>9 DEF Giving
  <2>11. Flushed(r, o, acc, s)
    BY <2>6, <2>8
  <2>12. Flushed(r, o, Message!Given(acc, t, valid), Append(s, t))
    BY <1>1, <2>5, <2>11, FlushesOn
  <2> QED
    BY <2>1, <2>10, <2>12
<1>6. Seq(Tool) \subseteq F
  <2> HIDE DEF F
  <2> QED
    BY <1>4, <1>5, SeqInduction
<1> QED
  BY <1>6

-----------------------------------------------------------------------------
(* The calls a message has collected.                                        *)

MsgGivens ==
  [order : Seq(Calls), sent : [Calls -> 0..2], whole : BOOLEAN, texts : Nat,
   reason : {"none", "end_turn", "tool_use"}, over : BOOLEAN]

PendingAt(order, sent, i) ==
  [key |-> i, id |-> order[i], args |-> SubSeq(Parts, 1, sent[order[i]])]

Pending(order, sent) == {PendingAt(order, sent, i) : i \in 1..Len(order)}

OnceEach(order) == \A i, j \in 1..Len(order) : order[i] = order[j] => i = j

LEMMA PartTypes ==
  ASSUME NEW k \in 0..2
  PROVE  /\ SubSeq(Parts, 1, k) \in Seq({"head", "tail"}) /\ Len(SubSeq(Parts, 1, k)) = k
         /\ \A i \in 1..k : SubSeq(Parts, 1, k)[i] = Parts[i]
<1>1. PICK p : p = Parts
  OBVIOUS
<1>2. p \in Seq({"head", "tail"}) /\ Len(p) = 2
  BY <1>1 DEF Parts
<1>3. SubSeq(p, 1, k) \in Seq({"head", "tail"}) /\ Len(SubSeq(p, 1, k)) = k
  BY <1>2
<1>4. \A i \in 1..k : SubSeq(p, 1, k)[i] = p[i]
  BY <1>2
<1> QED
  BY <1>1, <1>3, <1>4

LEMMA PendingTypes ==
  ASSUME NEW order \in Seq(Calls), NEW sent \in [Calls -> 0..2]
  PROVE  /\ Pending(order, sent) \in SUBSET Tool
         /\ \A t \in Pending(order, sent) :
              t.key \in 1..Len(order) /\ t = PendingAt(order, sent, t.key)
         /\ \A i \in 1..Len(order) :
              /\ PendingAt(order, sent, i) \in Pending(order, sent)
              /\ PendingAt(order, sent, i).key = i /\ PendingAt(order, sent, i).id = order[i]
<1>1. ASSUME NEW i \in 1..Len(order)
      PROVE  /\ PendingAt(order, sent, i) \in Tool
             /\ PendingAt(order, sent, i).key = i /\ PendingAt(order, sent, i).id = order[i]
  <2>1. i \in Nat /\ order[i] \in Calls /\ sent[order[i]] \in 0..2
    OBVIOUS
  <2>2. SubSeq(Parts, 1, sent[order[i]]) \in Seq({"head", "tail"})
    BY <2>1, PartTypes
  <2> QED
    BY <2>1, <2>2 DEF PendingAt, Tool
<1> QED
  BY <1>1 DEF Pending

(* in the order of their keys each of them comes once *)
Ordered(s, order, sent) ==
  /\ s \in Seq(Tool) /\ Len(s) = Len(order) /\ OfOthers(s)
  /\ \A k \in 1..Len(s) : s[k].id \in Calls /\ s[k].args = SubSeq(Parts, 1, sent[s[k].id])

LEMMA ByKeyOrders ==
  ASSUME NEW order \in Seq(Calls), NEW sent \in [Calls -> 0..2], OnceEach(order)
  PROVE  Ordered(Message!ByKey(Pending(order, sent)), order, sent)
<1>1. PICK n, tools, keys : /\ n = Len(order) /\ tools = Pending(order, sent)
                            /\ keys = Message!Ascending(1..n)
  OBVIOUS
<1>2. n \in Nat /\ 1..n \in SUBSET (1..n) /\ Cardinality(1..n) = n
  <2>1. n \in Nat
    BY <1>1
  <2> QED
    BY <2>1, FS_Interval
<1>3. {t.key : t \in tools} = 1..n
  BY <1>1, PendingTypes
<1>4. Lists(keys, 1..n)
  BY <1>1, <1>2, AscendingLists
<1>5. keys \in [1..n -> 1..n] /\ \A i, j \in 1..n : keys[i] = keys[j] => i = j
  BY <1>2, <1>4 DEF Lists
<1>6. PICK s : s = [i \in 1..n |-> CHOOSE t \in tools : t.key = keys[i]]
  OBVIOUS
<1>7. Message!ByKey(tools) = s
  <2>1. PICK K : K = {t.key : t \in tools}
    OBVIOUS
  <2>2. keys = Message!Ascending(K) /\ DOMAIN keys = 1..n
    BY <1>1, <1>3, <1>5, <2>1
  <2>3. Message!ByKey(tools) =
          [i \in DOMAIN Message!Ascending(K) |->
             CHOOSE t \in tools : t.key = Message!Ascending(K)[i]]
    BY <2>1 DEF Message!ByKey
  <2>4. Message!ByKey(tools) = [i \in 1..n |-> CHOOSE t \in tools : t.key = keys[i]]
    BY <2>2, <2>3, Zenon
  <2> QED
    BY <1>6, <2>4
<1>8. ASSUME NEW i \in 1..n PROVE s[i] = PendingAt(order, sent, keys[i]) /\ s[i] \in tools
  <2>1. keys[i] \in 1..n
    BY <1>5
  <2>2. \E t \in tools : t.key = keys[i]
    BY <1>1, <2>1, PendingTypes
  <2>3. s[i] \in tools /\ s[i].key = keys[i]
    BY <1>6, <2>2
  <2> QED
    BY <1>1, <2>3, PendingTypes
<1>9. tools \in SUBSET Tool
  BY <1>1, PendingTypes
<1>10. s \in Seq(Tool) /\ Len(s) = n
  <2>1. \A i \in 1..n : s[i] \in Tool
    BY <1>8, <1>9
  <2> QED
    BY <1>2, <1>6, <2>1
<1>11. ASSUME NEW i \in 1..n
       PROVE  s[i].id = order[keys[i]] /\ s[i].args = SubSeq(Parts, 1, sent[s[i].id])
  <2>1. PICK t : t = s[i] /\ t = PendingAt(order, sent, keys[i])
    BY <1>8
  <2>2. PICK a : a = SubSeq(Parts, 1, sent[order[keys[i]]])
    OBVIOUS
  <2>3. t = [key |-> keys[i], id |-> order[keys[i]], args |-> a]
    BY <2>1, <2>2, Zenon DEF PendingAt
  <2>4. t.id = order[keys[i]] /\ t.args = a
    BY <2>3
  <2> QED
    BY <2>1, <2>2, <2>4
<1>12. \A i, j \in 1..n : s[i].id = s[j].id => i = j
  <2> SUFFICES ASSUME NEW i \in 1..n, NEW j \in 1..n, s[i].id = s[j].id PROVE i = j
    OBVIOUS
  <2>1. order[keys[i]] = order[keys[j]] /\ keys[i] \in 1..n /\ keys[j] \in 1..n
    BY <1>5, <1>11
  <2> QED
    BY <1>1, <1>5, <2>1 DEF OnceEach
<1>13. \A i \in 1..n : s[i].id \in Calls
  BY <1>1, <1>5, <1>11
<1> QED
  BY <1>1, <1>7, <1>10, <1>11, <1>12, <1>13 DEF Ordered, OfOthers

-----------------------------------------------------------------------------
(* A message that is finished.                                               *)

Closes(e, n) == e.kind = "close" /\ e.index = n

(* it stops at n, and only its end may follow *)
Stopped(o, n) ==
  /\ o \in Seq(MsgEvents) /\ n \in 2..Len(o) /\ o[1].kind = "start"
  /\ \A i \in 2..Len(o) : i < n => o[i].kind \in {"open", "delta", "close"}
  /\ \A i \in 2..Len(o) : i > n => o[i].kind = "end"
  /\ o[n].kind = "stop"

AddedWithin(o) ==
  \A i \in 2..Len(o) : o[i].kind = "delta" =>
    /\ \E j \in 2..Len(o) : j < i /\ Opens(o[j], o[i].index)
    /\ \A j \in 2..Len(o) : Closes(o[j], o[i].index) => i < j

Paired(o) ==
  /\ \A i \in 2..Len(o) : o[i].kind = "open" =>
       \E j \in 2..Len(o) : \A k \in 2..Len(o) : Closes(o[k], o[i].index) <=> k = j
  /\ \A i \in 2..Len(o) : o[i].kind = "close" =>
       \E j \in 2..Len(o) : \A k \in 2..Len(o) : Opens(o[k], o[i].index) <=> k = j

Whole(o, n) == Stopped(o, n) /\ AddedWithin(o) /\ Paired(o)

ClosesAll(d, S) ==
  /\ d \in Seq(MsgEvents) /\ Quiet(d)
  /\ \A k \in 1..Len(d) : d[k].kind = "close" /\ d[k].index \in S
  /\ \A x \in S : \E k \in 1..Len(d) : d[k].index = x
  /\ \A k, l \in 1..Len(d) : d[k].index = d[l].index => k = l

LEMMA CloseEvents ==
  ASSUME NEW n \in Nat, NEW e, e = Message!Event("close", n, "")
  PROVE  e \in MsgEvents /\ e.kind = "close" /\ e.index = n
BY DEF Message!Event, MsgEvents

LEMMA ClosedIs ==
  ASSUME NEW n \in Nat, NEW S \in SUBSET (1..n)
  PROVE  ClosesAll(Message!Closed(S), S)
<1>1. PICK s, c : s = Message!Ascending(S) /\ c = Cardinality(S)
  OBVIOUS
<1>2. Lists(s, S) /\ c \in Nat
  BY <1>1, AscendingLists
<1>3. /\ s \in [1..c -> S] /\ \A i, j \in 1..c : s[i] = s[j] => i = j
      /\ \A x \in S : \E i \in 1..c : s[i] = x
  BY <1>1, <1>2 DEF Lists
<1>4. PICK d : d = Message!Closed(S)
  OBVIOUS
<1>5. d = [i \in 1..c |-> Message!Event("close", s[i], "")]
  <2>1. DOMAIN s = 1..c
    BY <1>3
  <2>2. d = [i \in DOMAIN s |-> Message!Event("close", s[i], "")]
    BY <1>1, <1>4 DEF Message!Closed
  <2> QED
    BY <2>1, <2>2
<1>6. ASSUME NEW i \in 1..c
      PROVE  d[i] \in MsgEvents /\ d[i].kind = "close" /\ d[i].index = s[i]
  <2>1. s[i] \in S /\ s[i] \in Nat
    <3>1. \A x \in S : x \in Nat
      OBVIOUS
    <3> QED
      BY <1>3, <3>1
  <2>2. d[i] = Message!Event("close", s[i], "")
    BY <1>5
  <2> QED
    BY <2>1, <2>2, CloseEvents
<1>7. d \in Seq(MsgEvents) /\ Len(d) = c
  <2>1. \A i \in 1..c : d[i] \in MsgEvents
    BY <1>6
  <2>2. DOMAIN d = 1..c /\ d = [i \in 1..c |-> d[i]]
    BY <1>5
  <2>3. d \in [1..c -> MsgEvents]
    BY <2>1, <2>2, Zenon
  <2> QED
    BY <1>2, <2>3
<1>8. Quiet(d)
  <2>1. \A i \in 1..c : d[i].kind = "close"
    BY <1>6
  <2> QED
    BY <1>7, <2>1 DEF Quiet, IsHelp, IsGift
<1>9. \A k \in 1..c : d[k].kind = "close" /\ d[k].index \in S
  BY <1>3, <1>6
<1>10. \A x \in S : \E k \in 1..c : d[k].index = x
  BY <1>3, <1>6
<1>11. \A k, l \in 1..c : d[k].index = d[l].index => k = l
  BY <1>3, <1>6
<1> QED
  BY <1>4, <1>7, <1>8, <1>9, <1>10, <1>11 DEF ClosesAll

Ends(p, o, d, e, m, c) ==
  /\ p \in Seq(MsgEvents) /\ m \in Nat /\ m >= 1 /\ c \in Nat
  /\ m = Len(o) /\ c = Len(d) /\ Len(p) = m + c + 1
  /\ p[1] = o[1]
  /\ \A i \in 2..m : i \in 2..Len(p) /\ p[i] = o[i] /\ i < m + 1
  /\ \A k \in 1..c : m + k \in 2..Len(p) /\ p[m + k] = d[k]
  /\ m + c + 1 \in 2..Len(p) /\ p[m + c + 1] = e
  /\ \A i \in 2..Len(p) : i \in 2..m \/ (\E k \in 1..c : i = m + k) \/ i = m + c + 1

LEMMA EndsAre ==
  ASSUME NEW o \in Seq(MsgEvents), Len(o) >= 1, NEW d \in Seq(MsgEvents), NEW e \in MsgEvents
  PROVE  Ends((o \o d) \o <<e>>, o, d, e, Len(o), Len(d))
<1>1. PICK u, p, f, m, c :
        u = o \o d /\ f = <<e>> /\ p = u \o f /\ m = Len(o) /\ c = Len(d)
  OBVIOUS
<1>2. f \in Seq(MsgEvents) /\ Len(f) = 1 /\ f[1] = e
  BY <1>1
<1>3. u \in Seq(MsgEvents) /\ JoinedTo(u, o, d)
  BY <1>1, JoinedEvents DEF JoinedTo
<1>4. JoinedTo(p, u, f)
  BY <1>1, <1>2, <1>3, JoinedEvents
<1>5. /\ m \in Nat /\ m >= 1 /\ c \in Nat /\ Len(u) = m + c /\ Len(p) = m + c + 1
      /\ p \in Seq(MsgEvents)
  BY <1>1, <1>2, <1>3, <1>4 DEF JoinedTo
<1>6. ASSUME NEW i \in 1..m PROVE p[i] = o[i]
  <2>1. i \in 1..(m + c)
    BY <1>5
  <2>2. u[i] = o[i]
    BY <1>1, <1>3 DEF JoinedTo
  <2>3. p[i] = u[i]
    BY <1>4, <1>5, <2>1 DEF JoinedTo
  <2> QED
    BY <2>2, <2>3
<1>7. ASSUME NEW k \in 1..c PROVE m + k \in 2..Len(p) /\ p[m + k] = d[k]
  <2>1. m + k \in 1..(m + c) /\ m + k \in 2..(m + c + 1)
    BY <1>5
  <2>2. u[m + k] = d[k]
    BY <1>1, <1>3 DEF JoinedTo
  <2>3. p[m + k] = u[m + k]
    BY <1>4, <1>5, <2>1 DEF JoinedTo
  <2> QED
    BY <1>5, <2>1, <2>2, <2>3
<1>8. m + c + 1 \in 2..Len(p) /\ p[m + c + 1] = e
  <2>1. m + c + 1 \in 2..(m + c + 1) /\ 1 \in 1..1 /\ (m + c) + 1 = m + c + 1
    BY <1>5
  <2>2. p[(m + c) + 1] = f[1]
    BY <1>2, <1>4, <1>5, <2>1 DEF JoinedTo
  <2> QED
    BY <1>2, <1>5, <2>1, <2>2
<1>9. ASSUME NEW i \in 2..Len(p), i \notin 2..m, i # m + c + 1
      PROVE  \E k \in 1..c : i = m + k
  <2>1. i - m \in 1..c /\ i = m + (i - m)
    BY <1>5, <1>9
  <2> QED
    BY <2>1
<1>10. \A i \in 2..m : i \in 2..Len(p) /\ p[i] = o[i] /\ i < m + 1
  BY <1>5, <1>6
<1>11. p[1] = o[1]
  BY <1>5, <1>6
<1> QED
  BY <1>1, <1>5, <1>7, <1>8, <1>9, <1>10, <1>11 DEF Ends

LEMMA Finishes ==
  ASSUME NEW r, NEW o, Draft(r, o), NEW e \in MsgEvents, e.kind = "stop",
         NEW d, d = Message!Closed(r.open)
  PROVE  Whole((o \o d) \o <<e>>, Len(o) + Len(d) + 1)
<1>1. PICK p, m, c : p = (o \o d) \o <<e>> /\ m = Len(o) /\ c = Len(d)
  OBVIOUS
<1>2. /\ Started(o) /\ InBlocks(o, r.open) /\ OpenedOnce(o)
      /\ AllOpened(o, r.open) /\ OpenedBefore(o) /\ Counts(r)
  BY DEF Draft
<1>3. PICK n, S : n = r.next /\ S = r.open /\ n \in Nat /\ S \in SUBSET (1..n)
  BY <1>2 DEF Counts, Translators
<1>4. /\ d \in Seq(MsgEvents)
      /\ \A k \in 1..c : d[k].kind = "close" /\ d[k].index \in S
      /\ \A x \in S : \E k \in 1..c : d[k].index = x
      /\ \A k, l \in 1..c : d[k].index = d[l].index => k = l
  <2>1. ClosesAll(Message!Closed(S), S)
    BY <1>3, ClosedIs
  <2>2. ClosesAll(d, S)
    BY <1>3, <2>1
  <2> QED
    BY <1>1, <2>2 DEF ClosesAll
<1>5. Ends(p, o, d, e, m, c)
  BY <1>1, <1>2, <1>4, EndsAre DEF Started
<1>6. /\ p \in Seq(MsgEvents) /\ m \in Nat /\ m >= 1 /\ c \in Nat /\ Len(p) = m + c + 1
      /\ p[1] = o[1]
      /\ \A i \in 2..m : i \in 2..Len(p) /\ p[i] = o[i] /\ i < m + 1
      /\ \A k \in 1..c : m + k \in 2..Len(p) /\ p[m + k] = d[k]
      /\ m + c + 1 \in 2..Len(p) /\ p[m + c + 1] = e
      /\ \A i \in 2..Len(p) : i \in 2..m \/ (\E k \in 1..c : i = m + k) \/ i = m + c + 1
  BY <1>5 DEF Ends
<1>7. \A i \in 2..m : p[i].kind \in {"open", "delta"} /\ p[i].index \in S
  BY <1>1, <1>2, <1>3, <1>6 DEF InBlocks
<1>8. \A k \in 1..c : p[m + k].kind = "close" /\ p[m + k].index \in S
  <2> SUFFICES ASSUME NEW k \in 1..c
               PROVE  p[m + k].kind = "close" /\ p[m + k].index \in S
    OBVIOUS
  <2>1. p[m + k] = d[k]
    BY <1>6
  <2> QED
    BY <1>4, <2>1
<1>9. Stopped(p, m + c + 1)
  <2>1. \A i \in 2..Len(p) : i < m + c + 1 => p[i].kind \in {"open", "delta", "close"}
    <3> SUFFICES ASSUME NEW i \in 2..Len(p), i < m + c + 1
                 PROVE  p[i].kind \in {"open", "delta", "close"}
      OBVIOUS
    <3>1. i \in 2..m \/ (\E k \in 1..c : i = m + k)
      BY <1>6
    <3>2. CASE i \in 2..m
      BY <1>7, <3>2
    <3>3. CASE \E k \in 1..c : i = m + k
      BY <1>8, <3>3
    <3> QED
      BY <3>1, <3>2, <3>3
  <2>2. \A i \in 2..Len(p) : ~(i > m + c + 1)
    BY <1>6
  <2> QED
    BY <1>2, <1>6, <2>1, <2>2 DEF Stopped, Started
<1>10. \A x \in S : \E j \in 2..Len(p) : \A k \in 2..Len(p) : Closes(p[k], x) <=> k = j
  <2> SUFFICES ASSUME NEW x \in S
               PROVE  \E j \in 2..Len(p) : \A k \in 2..Len(p) : Closes(p[k], x) <=> k = j
    OBVIOUS
  <2>1. PICK l \in 1..c : d[l].index = x
    BY <1>4
  <2>2. m + l \in 2..Len(p) /\ Closes(p[m + l], x)
    BY <1>4, <1>6, <2>1 DEF Closes
  <2>3. ASSUME NEW k \in 2..Len(p), Closes(p[k], x) PROVE k = m + l
    <3>1. k \notin 2..m /\ k # m + c + 1
      BY <1>6, <1>7, <2>3 DEF Closes
    <3>2. PICK j \in 1..c : k = m + j
      BY <1>6, <3>1
    <3>3. d[j].index = d[l].index
      BY <1>6, <2>1, <2>3, <3>2 DEF Closes
    <3> QED
      BY <1>4, <3>2, <3>3
  <2> QED
    BY <2>2, <2>3
<1>11. \A x \in S : \E j \in 2..Len(p) : \A k \in 2..Len(p) : Opens(p[k], x) <=> k = j
  <2> SUFFICES ASSUME NEW x \in S
               PROVE  \E j \in 2..Len(p) : \A k \in 2..Len(p) : Opens(p[k], x) <=> k = j
    OBVIOUS
  <2>1. PICK j \in 2..m : Opens(o[j], x)
    BY <1>1, <1>2, <1>3 DEF AllOpened
  <2>2. ASSUME NEW k \in 2..Len(p), Opens(p[k], x) PROVE k = j
    <3>1. k \in 2..m
      BY <1>6, <1>8, <2>2 DEF Opens
    <3>2. Opens(o[k], o[j].index) /\ o[j].kind = "open"
      BY <1>6, <2>1, <2>2, <3>1 DEF Opens
    <3> QED
      BY <1>1, <1>2, <2>1, <3>1, <3>2 DEF OpenedOnce
  <2>3. j \in 2..Len(p) /\ Opens(p[j], x)
    BY <1>6, <2>1
  <2> QED
    BY <2>2, <2>3
<1>12. Paired(p)
  <2>1. \A i \in 2..Len(p) : p[i].kind \in {"open", "close"} => p[i].index \in S
    BY <1>6, <1>7, <1>8
  <2> QED
    BY <1>10, <1>11, <2>1 DEF Paired
<1>13. AddedWithin(p)
  <2> SUFFICES ASSUME NEW i \in 2..Len(p), p[i].kind = "delta"
               PROVE  /\ \E j \in 2..Len(p) : j < i /\ Opens(p[j], p[i].index)
                      /\ \A j \in 2..Len(p) : Closes(p[j], p[i].index) => i < j
    BY DEF AddedWithin
  <2>1. i \in 2..m
    BY <1>6, <1>8
  <2>2. PICK j \in 2..m : j < i /\ Opens(o[j], o[i].index)
    BY <1>1, <1>2, <1>6, <2>1 DEF OpenedBefore
  <2>3. j \in 2..Len(p) /\ j < i /\ Opens(p[j], p[i].index)
    BY <1>6, <2>1, <2>2
  <2>4. ASSUME NEW k \in 2..Len(p), Closes(p[k], p[i].index) PROVE i < k
    <3>1. k \notin 2..m
      BY <1>7, <2>4 DEF Closes
    <3> QED
      BY <1>6, <2>1, <3>1
  <2> QED
    BY <2>3, <2>4
<1> QED
  BY <1>1, <1>9, <1>12, <1>13 DEF Whole

(* its end may follow *)
LEMMA WholeEnds ==
  ASSUME NEW o, NEW n, Whole(o, n), n = Len(o), NEW e \in MsgEvents, e.kind = "end"
  PROVE  Whole(o \o <<e>>, n)
<1>1. PICK p, d, m : p = o \o <<e>> /\ d = <<e>> /\ m = Len(o)
  OBVIOUS
<1>2. Stopped(o, n) /\ AddedWithin(o) /\ Paired(o) /\ o \in Seq(MsgEvents)
  BY DEF Whole, Stopped
<1>3. d \in Seq(MsgEvents) /\ Len(d) = 1 /\ d[1] = e
  BY <1>1
<1>4. JoinedTo(p, o, d)
  BY <1>1, <1>2, <1>3, JoinedEvents
<1>5. /\ p \in Seq(MsgEvents) /\ m \in Nat /\ m >= 2 /\ n = m /\ Len(p) = m + 1 /\ p[m + 1] = e
      /\ \A i \in 1..m : p[i] = o[i]
  BY <1>1, <1>2, <1>3, <1>4 DEF JoinedTo, Stopped
<1>6. /\ p[1] = o[1]
      /\ \A i \in 2..m : i \in 2..(m + 1) /\ p[i] = o[i]
      /\ m + 1 \in 2..(m + 1)
      /\ \A i \in 2..(m + 1) : i \in 2..m \/ i = m + 1
  BY <1>5
<1>7. Stopped(p, n)
  BY <1>1, <1>2, <1>5, <1>6 DEF Stopped
<1>8. ASSUME NEW x PROVE ~Opens(e, x) /\ ~Closes(e, x)
  BY DEF Opens, Closes
<1>9. AddedWithin(p)
  BY <1>1, <1>2, <1>5, <1>6, <1>8 DEF AddedWithin
<1>10. Paired(p)
  <2>1. ASSUME NEW i \in 2..(m + 1), p[i].kind = "open"
        PROVE  \E j \in 2..(m + 1) : \A k \in 2..(m + 1) : Closes(p[k], p[i].index) <=> k = j
    <3>1. i \in 2..m
      BY <1>5, <1>6, <2>1
    <3>2. PICK j \in 2..m : \A k \in 2..m : Closes(o[k], o[i].index) <=> k = j
      BY <1>1, <1>2, <1>6, <2>1, <3>1 DEF Paired
    <3>3. PICK x : x = p[i].index /\ x = o[i].index
      BY <1>6, <3>1
    <3>4. \A k \in 2..m : Closes(p[k], x) <=> k = j
      BY <1>6, <3>2, <3>3
    <3>5. ~Closes(p[m + 1], x) /\ m + 1 # j
      BY <1>5, <1>8
    <3>6. \A k \in 2..(m + 1) : Closes(p[k], x) <=> k = j
      BY <1>6, <3>4, <3>5
    <3>7. j \in 2..(m + 1)
      BY <1>6
    <3> QED
      BY <3>3, <3>6, <3>7, Zenon
  <2>2. ASSUME NEW i \in 2..(m + 1), p[i].kind = "close"
        PROVE  \E j \in 2..(m + 1) : \A k \in 2..(m + 1) : Opens(p[k], p[i].index) <=> k = j
    <3>1. i \in 2..m
      BY <1>5, <1>6, <2>2
    <3>2. PICK j \in 2..m : \A k \in 2..m : Opens(o[k], o[i].index) <=> k = j
      BY <1>1, <1>2, <1>6, <2>2, <3>1 DEF Paired
    <3>3. PICK x : x = p[i].index /\ x = o[i].index
      BY <1>6, <3>1
    <3>4. \A k \in 2..m : Opens(p[k], x) <=> k = j
      BY <1>6, <3>2, <3>3
    <3>5. ~Opens(p[m + 1], x) /\ m + 1 # j
      BY <1>5, <1>8
    <3>6. \A k \in 2..(m + 1) : Opens(p[k], x) <=> k = j
      BY <1>6, <3>4, <3>5
    <3>7. j \in 2..(m + 1)
      BY <1>6
    <3> QED
      BY <3>3, <3>6, <3>7, Zenon
  <2>3. Len(p) = m + 1
    BY <1>5
  <2> QED
    BY <2>1, <2>2, <2>3 DEF Paired
<1> QED
  BY <1>1, <1>7, <1>9, <1>10 DEF Whole

-----------------------------------------------------------------------------
(* What is written for the calls: the tools are the first m of an order.     *)

PendingTo(order, sent, m) == {PendingAt(order, sent, i) : i \in 1..m}

(* only the tools change *)
Collects(q, r, tools) ==
  /\ q \in Translators /\ q.tools = tools
  /\ q.begun = r.begun /\ q.held = r.held /\ q.text = r.text /\ q.next = r.next
  /\ q.open = r.open /\ q.finished = r.finished

LEMMA CollectsTools ==
  ASSUME NEW r \in Translators, NEW tools \in SUBSET Tool,
         NEW q, q = [r EXCEPT !.tools = tools]
  PROVE  Collects(q, r, tools)
<1>1. /\ r.begun \in BOOLEAN /\ r.held \in BOOLEAN /\ r.text \in Nat /\ r.next \in Nat
      /\ r.open \in SUBSET Nat /\ r.finished \in BOOLEAN
      /\ r = [begun |-> r.begun, held |-> r.held, text |-> r.text, next |-> r.next,
              tools |-> r.tools, open |-> r.open, finished |-> r.finished]
  BY DEF Translators
<1>2. q = [begun |-> r.begun, held |-> r.held, text |-> r.text, next |-> r.next,
           tools |-> tools, open |-> r.open, finished |-> r.finished]
  BY <1>1
<1>3. q \in Translators
  BY <1>1, <1>2 DEF Translators
<1> QED
  BY <1>2, <1>3 DEF Collects

LEMMA PutCollects ==
  ASSUME NEW r \in Translators, NEW k \in Nat, NEW c \in Calls,
         NEW a \in Seq({"head", "tail"}), NEW q, q = Message!Put(r, k, c, a)
  PROVE  Collects(q, r, {t \in r.tools : t.key # k} \union {[key |-> k, id |-> c, args |-> a]})
<1>1. PICK tools : tools = {t \in r.tools : t.key # k}
                             \union {[key |-> k, id |-> c, args |-> a]}
  OBVIOUS
<1>2. r.tools \in SUBSET Tool
  BY DEF Translators
<1>3. tools \in SUBSET Tool
  <2>1. [key |-> k, id |-> c, args |-> a] \in Tool
    BY DEF Tool
  <2> QED
    BY <1>1, <1>2, <2>1
<1>4. q = [r EXCEPT !.tools = tools]
  BY <1>1 DEF Message!Put
<1> QED
  BY <1>1, <1>3, <1>4, CollectsTools

LEMMA PutsAt ==
  ASSUME NEW r \in Translators, NEW order \in Seq(Calls), OnceEach(order),
         NEW sent \in [Calls -> 0..2], NEW m \in 0..Len(order), NEW k \in 1..Len(order),
         k <= m + 1, NEW n \in 0..Len(order), n = IF k <= m THEN m ELSE k,
         NEW j \in 0..2, r.tools = PendingTo(order, sent, m),
         NEW q, q = Message!Put(r, k, order[k], SubSeq(Parts, 1, j))
  PROVE  Collects(q, r, PendingTo(order, [sent EXCEPT ![order[k]] = j], n))
<1>1. PICK to, t, a : to = [sent EXCEPT ![order[k]] = j] /\ a = SubSeq(Parts, 1, j)
                      /\ t = [key |-> k, id |-> order[k], args |-> a]
  OBVIOUS
<1>2. order[k] \in Calls /\ k \in Nat /\ a \in Seq({"head", "tail"}) /\ m \in Nat
  BY <1>1, PartTypes
<1>3. Collects(q, r, {u \in r.tools : u.key # k} \union {t})
  BY <1>1, <1>2, PutCollects
<1>4. t = PendingAt(order, to, k)
  BY <1>1, <1>2 DEF PendingAt
<1>5. ASSUME NEW i \in 1..Len(order), i # k
      PROVE  PendingAt(order, to, i) = PendingAt(order, sent, i)
  <2>1. order[i] # order[k] /\ order[i] \in Calls
    BY <1>5 DEF OnceEach
  <2>2. to[order[i]] = sent[order[i]]
    BY <1>1, <2>1
  <2> QED
    BY <2>2 DEF PendingAt
<1>6. \A i : PendingAt(order, sent, i).key = i
  BY DEF PendingAt
<1>7. \A i \in 1..m : i \in 1..n /\ i \in 1..Len(order)
  BY <1>2
<1>8. \A i \in 1..n : i = k \/ (i \in 1..m /\ i # k)
  BY <1>2
<1>9. k \in 1..n
  BY <1>2
<1>10. {u \in r.tools : u.key # k} \union {t} = PendingTo(order, to, n)
  <2>1. ASSUME NEW u \in r.tools, u.key # k PROVE u \in PendingTo(order, to, n)
    <3>1. PICK i \in 1..m : u = PendingAt(order, sent, i)
      BY <2>1 DEF PendingTo
    <3>2. i # k
      BY <1>6, <2>1, <3>1
    <3>3. u = PendingAt(order, to, i) /\ i \in 1..n
      BY <1>5, <1>7, <3>1, <3>2
    <3> QED
      BY <3>3 DEF PendingTo
  <2>2. t \in PendingTo(order, to, n)
    BY <1>4, <1>9 DEF PendingTo
  <2>3. ASSUME NEW i \in 1..n, i # k
        PROVE  PendingAt(order, to, i) \in r.tools /\ PendingAt(order, to, i).key # k
    <3>1. i \in 1..m /\ i \in 1..Len(order)
      BY <1>7, <1>8, <2>3
    <3>2. PendingAt(order, to, i) = PendingAt(order, sent, i)
      BY <1>5, <2>3, <3>1
    <3>3. PendingAt(order, sent, i) \in r.tools
      BY <3>1 DEF PendingTo
    <3> QED
      BY <1>6, <2>3, <3>2, <3>3
  <2> QED
    BY <1>4, <2>1, <2>2, <2>3 DEF PendingTo
<1> QED
  BY <1>1, <1>3, <1>10

(* the key of a call that is pending, and of one that is not *)
KeyAt(r, order, m, k, i) ==
  /\ k <= m => Message!KeyOf(r, order[k], Message!None, i) = k
  /\ k > m => Message!KeyOf(r, order[k], Message!None, i) = i

LEMMA KeysAre ==
  ASSUME NEW r, NEW order \in Seq(Calls), OnceEach(order), NEW sent, NEW m \in 0..Len(order),
         r.tools = PendingTo(order, sent, m), NEW k \in 1..Len(order), NEW i
  PROVE  KeyAt(r, order, m, k, i)
<1>1. \A l : PendingAt(order, sent, l).key = l /\ PendingAt(order, sent, l).id = order[l]
  BY DEF PendingAt
<1>2. \A l \in 1..m : l \in 1..Len(order)
  OBVIOUS
<1>3. ASSUME NEW t \in r.tools, t.id = order[k] PROVE t.key = k /\ k <= m
  <2>1. PICK l \in 1..m : t = PendingAt(order, sent, l)
    BY <1>3 DEF PendingTo
  <2>2. order[l] = order[k] /\ t.key = l
    BY <1>1, <1>3, <2>1
  <2>3. l = k
    BY <1>2, <2>2 DEF OnceEach
  <2> QED
    BY <2>2, <2>3
<1>4. ASSUME k <= m PROVE \E t \in r.tools : t.id = order[k]
  <2>1. PendingAt(order, sent, k) \in r.tools
    BY <1>4 DEF PendingTo
  <2> QED
    BY <1>1, <2>1
<1>5. ASSUME k <= m PROVE Message!KeyOf(r, order[k], Message!None, i) = k
  <2>1. PICK t : t = CHOOSE u \in r.tools : u.id = order[k]
    OBVIOUS
  <2>2. t \in r.tools /\ t.id = order[k]
    BY <1>4, <1>5, <2>1
  <2>3. Message!KeyOf(r, order[k], Message!None, i) = t.key
    BY <1>4, <1>5, <2>1 DEF Message!KeyOf
  <2> QED
    BY <1>3, <2>2, <2>3
<1>6. ASSUME k > m PROVE Message!KeyOf(r, order[k], Message!None, i) = i
  <2>1. ~\E t \in r.tools : t.id = order[k]
    BY <1>3, <1>6
  <2> QED
    BY <2>1 DEF Message!KeyOf
<1> QED
  BY <1>5, <1>6 DEF KeyAt

-----------------------------------------------------------------------------
(* A snapshot.                                                               *)

Keeping(order) ==
  [p \in Translators \X (1..Len(order)) |-> Message!Kept(p[1], order, p[2])]

LEMMA KeptTypes ==
  ASSUME NEW r \in Translators, NEW order \in Seq(Calls), NEW i \in 1..Len(order)
  PROVE  Message!Kept(r, order, i) \in Translators
<1>1. PICK k, c, a : /\ k = Message!KeyOf(r, order[i], Message!None, i)
                     /\ c = order[i] /\ a = Message!Fragments
  OBVIOUS
<1>2. c \in Calls /\ a \in Seq({"head", "tail"}) /\ i \in Nat
  BY <1>1 DEF Message!Fragments
<1>3. k \in Nat
  <2>1. CASE \E t \in r.tools : t.id = c
    <3>1. PICK t : t = CHOOSE u \in r.tools : u.id = c
      OBVIOUS
    <3>2. t \in r.tools
      BY <2>1, <3>1
    <3>3. r.tools \in SUBSET Tool
      BY DEF Translators
    <3>4. t.key \in Nat
      BY <3>2, <3>3 DEF Tool
    <3>5. k = t.key
      BY <1>1, <2>1, <3>1 DEF Message!KeyOf
    <3> QED
      BY <3>4, <3>5
  <2>2. CASE ~\E t \in r.tools : t.id = c
    BY <1>1, <1>2, <2>2 DEF Message!KeyOf
  <2> QED
    BY <2>1, <2>2
<1>4. PICK q : q = Message!Put(r, k, c, a)
  OBVIOUS
<1>5. q \in Translators
  BY <1>2, <1>3, <1>4, PutCollects DEF Collects
<1> QED
  BY <1>1, <1>4, <1>5 DEF Message!Kept

LEMMA KeepingType ==
  ASSUME NEW order \in Seq(Calls)
  PROVE  Keeping(order) \in [Translators \X (1..Len(order)) -> Translators]
<1>1. ASSUME NEW p \in Translators \X (1..Len(order))
      PROVE  Message!Kept(p[1], order, p[2]) \in Translators
  <2>1. p[1] \in Translators /\ p[2] \in 1..Len(order)
    OBVIOUS
  <2> QED
    BY <2>1, KeptTypes
<1> QED
  BY <1>1 DEF Keeping

KeptAll(r, order, seq) ==
  Message!FoldLeft(LAMBDA q, i : Message!Kept(q, order, i), r, seq)

LEMMA KeptIs ==
  ASSUME NEW r \in Translators, NEW order \in Seq(Calls), NEW seq \in Seq(1..Len(order))
  PROVE  KeptAll(r, order, seq) = Stepwise(Keeping(order), r, seq)
<1> DEFINE n == Len(seq)
           step == Keeping(order)
           X == 1..Len(order)
           iter(h) == [T \in SUBSET (1..n) |->
                         IF T = {} THEN r
                         ELSE Message!Kept(h[T \ {Max(T)}], order, seq[Max(T)])]
           it == CHOOSE h : h = iter(h)
<1>1. step \in [Translators \X X -> Translators] /\ n \in Nat
  <2>1. step \in [Translators \X X -> Translators]
    BY KeepingType
  <2>2. n \in Nat
    OBVIOUS
  <2> QED
    BY <2>1, <2>2
<1>2. PICK g \in Values(n, Translators) : FoldsTo(g, step, r, seq)
  <2> HIDE DEF step, X
  <2>1. seq \in Seq(X)
    BY DEF X
  <2>2. \E g \in Values(n, Translators) : FoldsTo(g, step, r, seq)
    BY <1>1, <2>1, StepwiseIs
  <2> QED
    BY <2>2
<1>3. ASSUME NEW T \in SUBSET (1..n)
      PROVE  g[T] = IF T = {} THEN r ELSE Message!Kept(g[T \ {Max(T)}], order, seq[Max(T)])
  <2>1. g[T] = IF T = {} THEN r ELSE step[<<g[T \ {Max(T)}], seq[Max(T)]>>]
    BY <1>2 DEF FoldsTo
  <2>2. CASE T # {}
    <3>1. Max(T) \in 1..n
      BY <1>1, <2>2, MaxIn
    <3>2. g[T \ {Max(T)}] \in Translators /\ seq[Max(T)] \in X
      <4>1. g \in [SUBSET (1..n) -> Translators] /\ T \ {Max(T)} \in SUBSET (1..n)
        BY <1>2 DEF Values
      <4> QED
        BY <3>1, <4>1
    <3>3. PICK x, t : x = g[T \ {Max(T)}] /\ t = seq[Max(T)]
      OBVIOUS
    <3>4. step[<<x, t>>] = Message!Kept(x, order, t)
      BY <3>2, <3>3 DEF Keeping
    <3> QED
      BY <2>1, <2>2, <3>3, <3>4
  <2> QED
    BY <2>1, <2>2
<1>4. g = iter(g)
  BY <1>2, <1>3 DEF Values
<1>5. it = iter(it)
  <2> HIDE DEF iter
  <2> QED
    BY <1>4
<1>6. \A T \in SUBSET (1..n) :
        it[T] = IF T = {} THEN r ELSE Message!Kept(it[T \ {Max(T)}], order, seq[Max(T)])
  <2> HIDE DEF it
  <2> QED
    BY <1>5
<1>7. it[1..n] = g[1..n]
  <2> HIDE DEF it, n
  <2>1. it[{}] = g[{}]
    BY <1>3, <1>6
  <2>2. \A T \in SUBSET (1..n) :
          T # {} /\ it[T \ {Max(T)}] = g[T \ {Max(T)}] => it[T] = g[T]
    BY <1>3, <1>6
  <2> QED
    BY <1>1, <2>1, <2>2, FoldsAgree
<1>8. DOMAIN seq = 1..n
  OBVIOUS
<1>9. KeptAll(r, order, seq) = it[1..n]
  BY <1>8, MessageMax DEF KeptAll, Message!FoldLeft, Message!MapThenFoldSet
<1> QED
  BY <1>2, <1>7, <1>9 DEF FoldsTo

SentTo(order, sent, n) ==
  [c \in Calls |-> IF \E i \in 1..n : order[i] = c THEN 2 ELSE sent[c]]

Counting(s) == \A i \in 1..Len(s) : s[i] = i

LEMMA CountsOn ==
  ASSUME NEW n \in Nat, NEW s \in Seq(1..n), NEW t \in 1..n, Counting(Append(s, t))
  PROVE  /\ Counting(s) /\ t = Len(s) + 1 /\ Len(s) \in Nat
         /\ Len(Append(s, t)) = Len(s) + 1
<1>1. PICK q : q = Append(s, t)
  OBVIOUS
<1>2. /\ Len(q) = Len(s) + 1 /\ q[Len(s) + 1] = t /\ Len(s) \in Nat
      /\ \A i \in 1..Len(s) : q[i] = s[i] /\ i \in 1..Len(q)
  BY <1>1
<1>3. Len(s) + 1 \in 1..Len(q)
  BY <1>2
<1> QED
  BY <1>1, <1>2, <1>3 DEF Counting

LEMMA WholeParts == Message!Fragments = SubSeq(Parts, 1, 2)
<1>1. PICK p, q : p = Parts /\ q = SubSeq(p, 1, 2)
  OBVIOUS
<1>2. p \in Seq({"head", "tail"}) /\ Len(p) = 2
  BY <1>1 DEF Parts
<1>3. q = p
  BY <1>1, <1>2
<1> QED
  BY <1>1, <1>3 DEF Parts, Message!Fragments

(* one call of a snapshot: where it is, or next *)
LEMMA KeepsOne ==
  ASSUME NEW q \in Translators, NEW order \in Seq(Calls), OnceEach(order),
         NEW sent \in [Calls -> 0..2], NEW m \in 0..Len(order), q.tools = PendingTo(order, sent, m),
         NEW k \in 1..Len(order), NEW i, k <= m \/ (k = m + 1 /\ i = k),
         NEW n \in 0..Len(order), n = IF k <= m THEN m ELSE k,
         NEW from, from[i] = order[k]
  PROVE  Collects(Message!Kept(q, from, i), q,
                  PendingTo(order, [sent EXCEPT ![order[k]] = 2], n))
<1>1. Message!KeyOf(q, from[i], Message!None, i) = k
  <2>1. k \in Nat /\ m \in Nat
    OBVIOUS
  <2>2. k <= m \/ (k > m /\ i = k)
    BY <2>1
  <2>3. /\ k <= m => Message!KeyOf(q, order[k], Message!None, i) = k
        /\ k > m => Message!KeyOf(q, order[k], Message!None, i) = i
    <3>1. KeyAt(q, order, m, k, i)
      BY KeysAre
    <3> QED
      BY <3>1 DEF KeyAt
  <2>4. Message!KeyOf(q, order[k], Message!None, i) = k
    BY <2>2, <2>3
  <2> QED
    BY <2>4
<1>2. Message!Kept(q, from, i) = Message!Put(q, k, order[k], SubSeq(Parts, 1, 2))
  BY <1>1, WholeParts DEF Message!Kept
<1>3. k <= m + 1 /\ 2 \in 0..2
  OBVIOUS
<1> QED
  BY <1>2, <1>3, PutsAt

LEMMA CollectsOn ==
  ASSUME NEW r, NEW q, NEW p, NEW S, NEW T, Collects(q, r, S), Collects(p, q, T)
  PROVE  Collects(p, r, T)
BY DEF Collects

LEMMA SentNext ==
  ASSUME NEW order \in Seq(Calls), NEW sent \in [Calls -> 0..2], NEW n \in Nat,
         n + 1 \in 1..Len(order)
  PROVE  /\ SentTo(order, sent, n) \in [Calls -> 0..2]
         /\ SentTo(order, sent, n + 1) = [SentTo(order, sent, n) EXCEPT ![order[n + 1]] = 2]
<1>1. SentTo(order, sent, n) \in [Calls -> 0..2]
  BY DEF SentTo
<1>2. ASSUME NEW c \in Calls
      PROVE  (\E i \in 1..(n + 1) : order[i] = c) <=> (\E i \in 1..n : order[i] = c) \/ order[n + 1] = c
  <2>1. \A i \in 1..(n + 1) : i \in 1..n \/ i = n + 1
    OBVIOUS
  <2>2. n + 1 \in 1..(n + 1) /\ \A i \in 1..n : i \in 1..(n + 1)
    OBVIOUS
  <2> QED
    BY <2>1, <2>2
<1>3. \A c \in Calls : SentTo(order, sent, n + 1)[c]
                         = IF order[n + 1] = c THEN 2 ELSE SentTo(order, sent, n)[c]
  BY <1>2 DEF SentTo
<1>4. SentTo(order, sent, n + 1) = [c \in Calls |-> SentTo(order, sent, n + 1)[c]]
  BY DEF SentTo
<1>5. SentTo(order, sent, n) = [c \in Calls |-> SentTo(order, sent, n)[c]]
  BY DEF SentTo
<1> QED
  BY <1>1, <1>3, <1>4, <1>5

LEMMA Snapshots ==
  ASSUME NEW r \in Translators, NEW old \in Seq(Calls), OnceEach(old),
         NEW sent \in [Calls -> 0..2], r.tools = Pending(old, sent),
         NEW order \in Seq(Calls), OnceEach(order),
         NEW all \in Seq(Calls), all = IF old = <<>> THEN order ELSE old,
         old # <<>> => \A i \in 1..Len(order) : \E k \in 1..Len(old) : old[k] = order[i],
         NEW seq, seq = [i \in DOMAIN order |-> i]
  PROVE  Collects(KeptAll(r, order, seq), r, Pending(all, SentTo(order, sent, Len(order))))
<1> DEFINE N == Len(order)
           X == 1..N
           known(n) == IF old = <<>> THEN n ELSE Len(all)
           fold(s) == Stepwise(Keeping(order), r, s)
           At(q, n) == Collects(q, r, PendingTo(all, SentTo(order, sent, n), known(n)))
           F == {s \in Seq(X) : Counting(s) => At(fold(s), Len(s))}
<1>1. N \in Nat /\ Len(all) \in Nat /\ OnceEach(all)
  OBVIOUS
<1>2. PICK step : step = Keeping(order)
  OBVIOUS
<1>3. step \in [Translators \X X -> Translators]
  BY <1>2, KeepingType
<1>4. <<>> \in F
  <2>1. fold(<<>>) = r
    <3> HIDE DEF X
    <3> QED
      BY <1>2, <1>3, StepwiseEmpty
  <2>2. SentTo(order, sent, 0) = sent
    <3>1. \A c \in Calls : ~\E i \in 1..0 : order[i] = c
      OBVIOUS
    <3> QED
      BY <3>1 DEF SentTo
  <2>3. PendingTo(all, sent, known(0)) = Pending(old, sent)
    <3>1. CASE old = <<>>
      <4>1. Len(old) = 0 /\ known(0) = 0 /\ 1..0 = {}
        BY <3>1
      <4> QED
        BY <4>1 DEF Pending, PendingTo
    <3>2. CASE old # <<>>
      BY <3>2 DEF Pending, PendingTo
    <3> QED
      BY <3>1, <3>2
  <2>4. Collects(r, r, r.tools)
    BY DEF Collects
  <2>5. At(r, 0)
    BY <2>2, <2>3, <2>4
  <2>6. Len(<<>>) = 0 /\ <<>> \in Seq(X)
    OBVIOUS
  <2> HIDE DEF At, fold, X
  <2> QED
    BY <2>1, <2>5, <2>6
<1>5. ASSUME NEW s \in Seq(X), NEW t \in X, s \in F PROVE Append(s, t) \in F
  <2>1. PICK u : u = Append(s, t) /\ u \in Seq(X)
    <3>1. Append(s, t) \in Seq(X)
      <4> HIDE DEF X
      <4> QED
        OBVIOUS
    <3> QED
      BY <3>1
  <2>2. SUFFICES ASSUME Counting(u) PROVE At(fold(u), Len(u))
    BY <2>1
  <2>3. PICK n \in Nat : n = Len(s) /\ t = n + 1 /\ Len(u) = n + 1 /\ Counting(s)
    BY <1>1, <2>1, <2>2, CountsOn
  <2>4. PICK q : q = fold(s)
    OBVIOUS
  <2>5. At(q, n)
    BY <1>5, <2>3, <2>4
  <2>6. fold(u) = Message!Kept(q, order, t)
    <3>1. GoesOnWith(step, r, Translators, s, t)
      <4> HIDE DEF X
      <4> QED
        BY <1>3, StepwiseAppend
    <3>2. q \in Translators /\ fold(u) = step[<<q, t>>]
      BY <1>2, <2>1, <2>4, <3>1 DEF GoesOnWith
    <3> QED
      BY <1>2, <3>2 DEF Keeping
  <2>7. PICK from, to, m, p : /\ from = SentTo(order, sent, n) /\ to = SentTo(order, sent, n + 1)
                              /\ m = known(n) /\ p = known(n + 1)
    OBVIOUS
  <2>8. n + 1 \in 1..N
    BY <2>3
  <2>9. from \in [Calls -> 0..2] /\ to = [from EXCEPT ![order[t]] = 2]
    BY <2>3, <2>7, <2>8, SentNext
  <2>10. PICK k \in 1..Len(all) : all[k] = order[t] /\ (old = <<>> => k = t)
    BY <2>3, <2>8
  <2>11. m \in 0..Len(all) /\ p \in 0..Len(all)
    BY <1>1, <2>3, <2>7, <2>8
  <2>12. /\ k <= m \/ (k = m + 1 /\ t = k)
         /\ p = IF k <= m THEN m ELSE k
    <3>1. CASE old = <<>>
      BY <2>3, <2>7, <2>10, <3>1
    <3>2. CASE old # <<>>
      BY <1>1, <2>7, <2>10, <3>2
    <3> QED
      BY <3>1, <3>2
  <2>13. Collects(q, r, PendingTo(all, from, m))
    BY <2>5, <2>7
  <2>14. q \in Translators /\ q.tools = PendingTo(all, from, m)
    BY <2>13 DEF Collects
  <2>15. Collects(Message!Kept(q, order, t), q, PendingTo(all, [from EXCEPT ![all[k]] = 2], p))
    BY <1>1, <2>9, <2>10, <2>11, <2>12, <2>14, KeepsOne
  <2>16. Collects(Message!Kept(q, order, t), r, PendingTo(all, to, p))
    BY <2>9, <2>10, <2>13, <2>15, CollectsOn
  <2> QED
    BY <2>3, <2>6, <2>7, <2>16
<1>6. Seq(X) \subseteq F
  <2> HIDE DEF F, X
  <2> QED
    BY <1>4, <1>5, SeqInduction
<1>7. seq \in Seq(X) /\ Len(seq) = N /\ Counting(seq)
  BY <1>1 DEF Counting
<1>8. At(fold(seq), N)
  <2> HIDE DEF At, fold, X
  <2> QED
    BY <1>6, <1>7
<1>9. known(N) = Len(all)
  OBVIOUS
<1>10. KeptAll(r, order, seq) = fold(seq)
  BY <1>7, KeptIs
<1> QED
  BY <1>8, <1>9, <1>10 DEF Pending, PendingTo

-----------------------------------------------------------------------------
(* A fragment.                                                               *)

LEMMA MorePart ==
  ASSUME NEW k \in 0..1
  PROVE  Append(SubSeq(Parts, 1, k), Parts[k + 1]) = SubSeq(Parts, 1, k + 1)
<1>1. PICK n \in 1..2 : n = k + 1 /\ n - 1 = k
  OBVIOUS
<1>2. SubSeq(Parts, 1, n) = SubSeq(Parts, 1, n - 1) \o <<Parts[n]>>
  <2>1. 1 \in 1..Len(Parts) /\ n \in 1..Len(Parts) /\ Parts \in Seq({"head", "tail"})
    BY PartsFacts
  <2> QED
    BY <2>1, SubSeqRecursiveSecond
<1>3. SubSeq(Parts, 1, k) \in Seq({"head", "tail"}) /\ Parts[n] \in {"head", "tail"}
  BY PartTypes, PartsFacts
<1>4. \A s \in Seq({"head", "tail"}), w \in {"head", "tail"} : s \o <<w>> = Append(s, w)
  OBVIOUS
<1> QED
  BY <1>1, <1>2, <1>3, <1>4

LEMMA FragmentCollects ==
  ASSUME NEW r \in Translators, NEW old \in Seq(Calls), NEW sent \in [Calls -> 0..2],
         r.tools = Pending(old, sent), NEW order \in Seq(Calls), OnceEach(order),
         NEW k \in 1..Len(order), NEW c, c = order[k], sent[c] < 2,
         \/ order = old
         \/ order = Append(old, c) /\ k = Len(order) /\ sent[c] = 0
  PROVE  Collects(Message!Put(r, Message!KeyOf(r, c, k, k), c,
                    Append(Message!ArgsAt(r, Message!KeyOf(r, c, k, k)),
                           Message!Fragments[sent[c] + 1])),
                  r, Pending(order, [sent EXCEPT ![c] = @ + 1]))
<1>1. PICK m \in 0..Len(order) :
        /\ r.tools = PendingTo(order, sent, m) /\ k <= m + 1
        /\ Len(order) = IF k <= m THEN m ELSE k
        /\ k > m => sent[c] = 0
  <2>1. CASE order = old
    <3>1. r.tools = PendingTo(order, sent, Len(order))
      BY <2>1 DEF Pending, PendingTo
    <3>2. Len(order) \in 0..Len(order) /\ k <= Len(order) /\ ~(k > Len(order))
      OBVIOUS
    <3> QED
      BY <3>1, <3>2
  <2>2. CASE order = Append(old, c) /\ k = Len(order) /\ sent[c] = 0
    <3>1. /\ Len(order) = Len(old) + 1 /\ Len(old) \in Nat
          /\ \A i \in 1..Len(old) : order[i] = old[i]
      BY <2>2
    <3>2. \A i \in 1..Len(old) : PendingAt(order, sent, i) = PendingAt(old, sent, i)
      BY <3>1 DEF PendingAt
    <3>3. r.tools = PendingTo(order, sent, Len(old))
      BY <3>2 DEF Pending, PendingTo
    <3>4. Len(old) \in 0..Len(order) /\ k <= Len(old) + 1 /\ ~(k <= Len(old))
      BY <2>2, <3>1
    <3> QED
      BY <2>2, <3>3, <3>4
  <2> QED
    BY <2>1, <2>2
<1>2. c \in Calls /\ sent[c] \in 0..1 /\ k # 0
  OBVIOUS
<1>3. Message!KeyOf(r, c, k, k) = k
  BY <1>2 DEF Message!KeyOf, Message!None
<1>4. PICK a : a = SubSeq(Parts, 1, sent[c])
  OBVIOUS
<1>5. Message!ArgsAt(r, k) = a
  <2>1. PICK at : at = {t \in r.tools : t.key = k}
    OBVIOUS
  <2>2. \A i : PendingAt(order, sent, i).key = i
    BY DEF PendingAt
  <2>3. CASE k <= m
    <3>1. PendingAt(order, sent, k) \in r.tools
      BY <1>1, <2>3 DEF PendingTo
    <3>2. \A t \in r.tools : t.key = k => t = PendingAt(order, sent, k)
      BY <1>1, <2>2 DEF PendingTo
    <3>3. at = {PendingAt(order, sent, k)}
      BY <2>1, <2>2, <3>1, <3>2
    <3>4. PICK t : t = CHOOSE u \in at : TRUE
      OBVIOUS
    <3>5. t = PendingAt(order, sent, k) /\ at # {}
      BY <3>3, <3>4
    <3>6. t.args = a
      BY <1>4, <3>5 DEF PendingAt
    <3> QED
      BY <2>1, <3>4, <3>5, <3>6 DEF Message!ArgsAt
  <2>4. CASE k > m
    <3>1. \A t \in r.tools : t.key # k
      <4>1. \A i \in 1..m : i # k
        BY <2>4
      <4> QED
        BY <1>1, <2>2, <4>1 DEF PendingTo
    <3>2. at = {}
      BY <2>1, <3>1
    <3>3. Message!ArgsAt(r, k) = <<>>
      BY <2>1, <3>2 DEF Message!ArgsAt
    <3>4. a = <<>>
      <4>1. a \in Seq({"head", "tail"}) /\ Len(a) = 0
        BY <1>1, <1>2, <1>4, <2>4, PartTypes
      <4> QED
        BY <4>1
    <3> QED
      BY <3>3, <3>4
  <2> QED
    BY <2>3, <2>4
<1>6. Message!Fragments = Parts
  BY DEF Message!Fragments, Parts
<1>7. Append(a, Message!Fragments[sent[c] + 1]) = SubSeq(Parts, 1, sent[c] + 1)
  BY <1>2, <1>4, <1>6, MorePart
<1>8. PICK j : j = sent[c] + 1 /\ j \in 0..2
  BY <1>2
<1>9. PICK q : q = Message!Put(r, k, order[k], SubSeq(Parts, 1, j))
  OBVIOUS
<1>10. Collects(q, r, PendingTo(order, [sent EXCEPT ![order[k]] = j], Len(order)))
  <2>1. Len(order) \in 0..Len(order)
    OBVIOUS
  <2> QED
    BY <1>1, <1>8, <1>9, <2>1, PutsAt
<1>11. [sent EXCEPT ![order[k]] = j] = [sent EXCEPT ![c] = @ + 1]
  BY <1>2, <1>8
<1>12. Message!Put(r, Message!KeyOf(r, c, k, k), c,
                    Append(Message!ArgsAt(r, Message!KeyOf(r, c, k, k)),
                           Message!Fragments[sent[c] + 1])) = q
  BY <1>3, <1>5, <1>7, <1>8, <1>9
<1>13. PICK to : to = [sent EXCEPT ![c] = @ + 1]
  OBVIOUS
<1>14. Pending(order, to) = PendingTo(order, to, Len(order))
  BY DEF Pending, PendingTo
<1>15. Collects(q, r, Pending(order, to))
  BY <1>10, <1>11, <1>13, <1>14
<1> QED
  BY <1>12, <1>13, <1>15

-----------------------------------------------------------------------------
(* Finishing.                                                                *)

FinishedAs(r, o, f, order, sent) ==
  /\ f.events \in Seq(MsgEvents)
  /\ f.r.finished = TRUE /\ f.r.begun = r.begun
  /\ Whole(o \o f.events, Len(o \o f.events))
  /\ \E s : Ordered(s, order, sent) /\ Handled(o \o f.events, s)

StopEvents == {e \in MsgEvents : e.kind = "stop"}

LEMMA StopIs ==
  ASSUME NEW reason \in {"none", "end_turn", "tool_use"}, NEW d
  PROVE  Message!Event("stop", Message!None, Message!StopOf(reason, d)) \in StopEvents
<1>1. PICK w : w = Message!StopOf(reason, d)
  OBVIOUS
<1>2. w \in {"end_turn", "tool_use"}
  BY <1>1 DEF Message!StopOf
<1> QED
  BY <1>1, <1>2 DEF Message!Event, Message!None, MsgEvents, StopEvents

LEMMA Unheld ==
  ASSUME NEW r, NEW o, Draft(r, o), NEW b \in BOOLEAN, NEW q, q = [r EXCEPT !.held = b]
  PROVE  /\ Draft(q, o) /\ q.tools = r.tools /\ q.begun = r.begun /\ q.finished = r.finished
         /\ q.held = b
<1>1. r \in Translators
  BY DEF Draft, Counts
<1>2. /\ r.begun \in BOOLEAN /\ r.text \in Nat /\ r.next \in Nat
      /\ r.tools \in SUBSET Tool /\ r.open \in SUBSET Nat /\ r.finished \in BOOLEAN
      /\ r = [begun |-> r.begun, held |-> r.held, text |-> r.text, next |-> r.next,
              tools |-> r.tools, open |-> r.open, finished |-> r.finished]
  BY <1>1 DEF Translators
<1>3. q = [begun |-> r.begun, held |-> b, text |-> r.text, next |-> r.next,
           tools |-> r.tools, open |-> r.open, finished |-> r.finished]
  BY <1>2
<1>4. q \in Translators
  BY <1>2, <1>3 DEF Translators
<1>5. /\ q.tools = r.tools /\ q.begun = r.begun /\ q.finished = r.finished /\ q.held = b
      /\ q.open = r.open /\ q.next = r.next /\ q.text = r.text
  BY <1>3
<1>6. Draft(q, o)
  BY <1>4, <1>5 DEF Draft, Counts
<1> QED
  BY <1>5, <1>6

LEMMA TurnsOf ==
  ASSUME NEW o \in Seq(MsgEvents), NEW x \in Seq(MsgEvents), NEW y \in Seq(MsgEvents)
  PROVE  /\ x \o y \in Seq(MsgEvents) /\ o \o x \in Seq(MsgEvents)
         /\ o \o (x \o y) = (o \o x) \o y
BY InTurn, ConcatProperties

(* held text, the calls, the end of every block and the reason *)
LEMMA MessageFinishes ==
  ASSUME NEW r, NEW o, Draft(r, o), Handled(o, <<>>), ~r.finished,
         NEW order \in Seq(Calls), NEW sent \in [Calls -> 0..2], OnceEach(order),
         r.tools = Pending(order, sent), given.reason \in {"none", "end_turn", "tool_use"},
         NEW valid, NEW g, g = Message!Finished(r, valid)
  PROVE  FinishedAs(r, o, g, order, sent)
<1>1. PICK t : t = IF r.held THEN Message!Texted([r EXCEPT !.held = FALSE], "held")
                   ELSE [r |-> r, events |-> <<>>]
  OBVIOUS
<1>2. PICK z : z = <<>> /\ z \in Seq(Tool) /\ z \in Seq(MsgEvents)
  <2>1. <<>> \in Seq(Tool) /\ <<>> \in Seq(MsgEvents)
    OBVIOUS
  <2> QED
    BY <2>1
<1>3. o \in Seq(MsgEvents)
  BY DEF Draft, Started
<1>4. /\ t.events \in Seq(MsgEvents) /\ Draft(t.r, o \o t.events)
      /\ t.r.tools = r.tools /\ t.r.begun = r.begun /\ t.r.finished = r.finished
      /\ Handled(o \o t.events, z)
  <2>1. CASE r.held
    <3>1. PICK q : q = [r EXCEPT !.held = FALSE]
      OBVIOUS
    <3>2. /\ Draft(q, o) /\ q.tools = r.tools /\ q.begun = r.begun
          /\ q.finished = r.finished
      BY <3>1, Unheld
    <3>3. t = Message!Texted(q, "held")
      BY <1>1, <2>1, <3>1
    <3>4. TextedAs(q, o, "held", z, z, t)
      BY <1>2, <3>2, <3>3, Texts DEF Letters
    <3> QED
      BY <3>2, <3>4 DEF TextedAs
  <2>2. CASE ~r.held
    <3>1. t = [r |-> r, events |-> z]
      BY <1>1, <1>2, <2>2
    <3>2. t.r = r /\ t.events = z
      BY <3>1
    <3>3. o \o z = o
      BY <1>2, <1>3, ConcatEmptySeq
    <3> QED
      BY <1>2, <3>2, <3>3
  <2> QED
    BY <2>1, <2>2
<1>5. PICK u, seq : u = o \o t.events /\ seq = Message!ByKey(r.tools)
  OBVIOUS
<1>6. Ordered(seq, order, sent)
  BY <1>5, ByKeyOrders
<1>7. PICK f : f = Message!Flush(t.r, valid)
  OBVIOUS
<1>8. Flushed(t.r, u, f, seq)
  <2>1. seq \in Seq(Tool) /\ OfOthers(seq)
    BY <1>6 DEF Ordered
  <2>2. t.r \in Translators
    BY <1>4 DEF Draft, Counts
  <2>3. f = Stepwise(Giving(valid), Unflushed(t.r), seq)
    BY <1>4, <1>5, <1>7, <2>1, <2>2, FlushIs
  <2> QED
    BY <1>2, <1>4, <1>5, <2>1, <2>3, FlushesAll
<1>9. PICK x, y, b : x = t.events /\ y = f.events /\ b = x \o y
  OBVIOUS
<1>10. PICK v : v = u \o y
  OBVIOUS
<1>11. /\ x \in Seq(MsgEvents) /\ y \in Seq(MsgEvents) /\ Draft(f.r, v) /\ Handled(v, seq)
       /\ f.r.begun = r.begun
  BY <1>4, <1>8, <1>9, <1>10 DEF Flushed
<1>12. b \in Seq(MsgEvents) /\ o \o b = v
  <2>1. x \o y \in Seq(MsgEvents) /\ o \o (x \o y) = (o \o x) \o y
    BY <1>3, <1>11, TurnsOf
  <2> QED
    BY <1>5, <1>9, <1>10, <2>1
<1>13. PICK d, e : /\ d = Message!Closed(f.r.open)
                   /\ e = Message!Event("stop", Message!None, Message!StopOf(given.reason, b))
  OBVIOUS
<1>14. e \in MsgEvents /\ e.kind = "stop"
  BY <1>13, StopIs DEF StopEvents
<1>15. d \in Seq(MsgEvents) /\ Quiet(d)
  <2>1. PICK n, S : n = f.r.next /\ S = f.r.open /\ n \in Nat /\ S \in SUBSET (1..n)
    <3>1. f.r \in Translators /\ \A k \in f.r.open : k >= 1 /\ k < f.r.next
      BY <1>11 DEF Draft, Counts
    <3>2. f.r.next \in Nat /\ f.r.open \in SUBSET Nat
      BY <3>1 DEF Translators
    <3>3. f.r.open \in SUBSET (1..f.r.next)
      BY <3>1, <3>2
    <3> QED
      BY <3>2, <3>3
  <2>2. ClosesAll(Message!Closed(S), S)
    BY <2>1, ClosedIs
  <2> QED
    BY <1>13, <2>1, <2>2 DEF ClosesAll
<1>16. PICK p : p = (v \o d) \o <<e>>
  OBVIOUS
<1>17. Whole(p, Len(v) + Len(d) + 1)
  BY <1>11, <1>13, <1>14, <1>16, Finishes
<1>18. v \in Seq(MsgEvents) /\ v \o d \in Seq(MsgEvents) /\ <<e>> \in Seq(MsgEvents)
  <2>1. v \in Seq(MsgEvents)
    BY <1>11 DEF Draft, Started
  <2> QED
    BY <1>14, <1>15, <2>1, ConcatProperties
<1>19. Len(p) = Len(v) + Len(d) + 1
  <2>1. PICK a, h, k : a = v \o d /\ h = <<e>> /\ k = Len(d)
    OBVIOUS
  <2>2. Len(a) = Len(v) + k
    BY <1>15, <1>18, <2>1, ConcatProperties
  <2>3. Len(p) = Len(a) + Len(h)
    BY <1>16, <1>18, <2>1, ConcatProperties
  <2>4. Len(h) = 1
    BY <2>1
  <2> QED
    BY <2>1, <2>2, <2>3, <2>4
<1>20. Handled(p, seq)
  <2>1. Handled(v \o d, seq)
    BY <1>11, <1>15, <1>18, HandledStays
  <2>2. PICK h : h = <<e>>
    OBVIOUS
  <2>3. h \in Seq(MsgEvents) /\ Quiet(h)
    BY <1>14, <2>2 DEF Quiet, IsHelp, IsGift
  <2> QED
    BY <1>16, <1>18, <2>1, <2>2, <2>3, HandledStays
<1>21. PICK c : c = (b \o d) \o <<e>> /\ c \in Seq(MsgEvents) /\ o \o c = p
  <2>1. PICK a, h, w : a = b \o d /\ h = <<e>> /\ w = v \o d
    OBVIOUS
  <2>2. a \in Seq(MsgEvents) /\ o \o a = w
    <3>1. b \o d \in Seq(MsgEvents) /\ o \o (b \o d) = (o \o b) \o d
      BY <1>3, <1>12, <1>15, TurnsOf, Zenon
    <3> QED
      BY <1>12, <2>1, <3>1
  <2>3. a \o h \in Seq(MsgEvents) /\ o \o (a \o h) = w \o h
    <3>1. h \in Seq(MsgEvents)
      BY <1>18, <2>1
    <3>2. a \o h \in Seq(MsgEvents) /\ o \o (a \o h) = (o \o a) \o h
      <4>1. o \in Seq(MsgEvents) /\ a \in Seq(MsgEvents)
        BY <1>3, <2>2
      <4> QED
        BY <3>1, <4>1, TurnsOf
    <3> QED
      BY <2>2, <3>2
  <2> QED
    BY <1>16, <2>1, <2>3
<1>22. PICK q : q = [f.r EXCEPT !.tools = {}, !.open = {}, !.finished = TRUE]
  OBVIOUS
<1>23. Message!Finished(r, valid) = [r |-> q, events |-> c]
  <2>1. Message!MayFinish(r)
    BY DEF Message!MayFinish
  <2>2. Message!Finished(r, valid) =
          [r |-> [f.r EXCEPT !.tools = {}, !.open = {}, !.finished = TRUE],
           events |-> b \o Message!Closed(f.r.open)
             \o <<Message!Event("stop", Message!None, Message!StopOf(given.reason, b))>>]
    BY <1>1, <1>7, <1>9, <2>1, Zenon DEF Message!Finished
  <2> QED
    BY <1>13, <1>21, <1>22, <2>2, Zenon
<1>25. g.r = q /\ g.events = c
  BY <1>23
<1>26. q.finished = TRUE /\ q.begun = r.begun
  <2>1. f.r \in Translators
    BY <1>11 DEF Draft, Counts
  <2> QED
    BY <1>11, <1>22, <2>1 DEF Translators
<1> QED
  BY <1>6, <1>17, <1>19, <1>20, <1>21, <1>25, <1>26 DEF FinishedAs

-----------------------------------------------------------------------------
(* The invariant.  A message is not begun, or a draft of which no call was   *)
(* given, or whole and every call that was written given or explained.       *)

GivenSound(g) ==
  /\ g \in MsgGivens /\ OnceEach(g.order)
  /\ \A c \in Calls : (\A i \in 1..Len(g.order) : g.order[i] # c) => g.sent[c] = 0

MsgReady(g, r, o) ==
  /\ ~r.begun /\ o = <<>> /\ ~g.over /\ g.order = <<>>
  /\ r = [begun |-> FALSE, held |-> FALSE, text |-> 0, next |-> 1,
          tools |-> {}, open |-> {}, finished |-> FALSE]

MsgOpen(g, r, o) ==
  /\ r.begun /\ ~r.finished /\ ~g.over
  /\ Draft(r, o) /\ Handled(o, <<>>) /\ r.tools = Pending(g.order, g.sent)

MsgOver(g, r, o) ==
  /\ r.begun /\ r.finished /\ g.over
  /\ \E n : Whole(o, n)
  /\ \E s : Ordered(s, g.order, g.sent) /\ Handled(o, s)

MsgInv ==
  /\ GivenSound(given)
  /\ MsgReady(given, res, out) \/ MsgOpen(given, res, out) \/ MsgOver(given, res, out)

LEMMA GivenParts ==
  ASSUME NEW g \in MsgGivens
  PROVE  /\ g.order \in Seq(Calls) /\ g.sent \in [Calls -> 0..2] /\ g.whole \in BOOLEAN
         /\ g.texts \in Nat /\ g.reason \in {"none", "end_turn", "tool_use"}
         /\ g.over \in BOOLEAN
BY DEF MsgGivens

LEMMA MessageStarts == Message!Init => MsgInv
<1> SUFFICES ASSUME Message!Init PROVE MsgInv
  OBVIOUS
<1>1. given = [order |-> <<>>, sent |-> [c \in Calls |-> 0], whole |-> FALSE,
               texts |-> 0, reason |-> "none", over |-> FALSE]
  BY DEF Message!Init
<1>2. PICK z : z = <<>> /\ z \in Seq(Calls) /\ Len(z) = 0
  <2>1. <<>> \in Seq(Calls) /\ Len(<<>>) = 0
    OBVIOUS
  <2> QED
    BY <2>1
<1>3. /\ given.order = z /\ given.sent = [c \in Calls |-> 0] /\ ~given.over
      /\ given \in MsgGivens
  BY <1>1, <1>2 DEF MsgGivens
<1>4. GivenSound(given)
  BY <1>2, <1>3 DEF GivenSound, OnceEach
<1>5. MsgReady(given, res, out)
  BY <1>2, <1>3 DEF Message!Init, Message!None, MsgReady
<1> QED
  BY <1>4, <1>5 DEF MsgInv

(* what is written leaves the rest of what was given *)
LEMMA GivenChanges ==
  ASSUME NEW g \in MsgGivens, NEW h,
         \/ h = [g EXCEPT !.texts = @ + 1]
         \/ h = [g EXCEPT !.over = TRUE]
         \/ \E x \in {"end_turn", "tool_use"} : h = [g EXCEPT !.reason = x]
  PROVE  /\ h \in MsgGivens /\ h.order = g.order /\ h.sent = g.sent
         /\ h = [g EXCEPT !.over = TRUE] \/ h.over = g.over
<1>1. /\ g.order \in Seq(Calls) /\ g.sent \in [Calls -> 0..2] /\ g.whole \in BOOLEAN
      /\ g.texts \in Nat /\ g.reason \in {"none", "end_turn", "tool_use"}
      /\ g.over \in BOOLEAN
      /\ g = [order |-> g.order, sent |-> g.sent, whole |-> g.whole, texts |-> g.texts,
              reason |-> g.reason, over |-> g.over]
  BY DEF MsgGivens
<1>2. CASE h = [g EXCEPT !.texts = @ + 1]
  <2>1. h = [order |-> g.order, sent |-> g.sent, whole |-> g.whole, texts |-> g.texts + 1,
             reason |-> g.reason, over |-> g.over]
    BY <1>1, <1>2
  <2>2. g.texts + 1 \in Nat
    BY <1>1
  <2> QED
    BY <1>1, <2>1, <2>2 DEF MsgGivens
<1>3. CASE h = [g EXCEPT !.over = TRUE]
  <2>1. h = [order |-> g.order, sent |-> g.sent, whole |-> g.whole, texts |-> g.texts,
             reason |-> g.reason, over |-> TRUE]
    BY <1>1, <1>3
  <2> QED
    BY <1>1, <1>3, <2>1 DEF MsgGivens
<1>4. ASSUME NEW x \in {"end_turn", "tool_use"}, h = [g EXCEPT !.reason = x]
      PROVE  /\ h \in MsgGivens /\ h.order = g.order /\ h.sent = g.sent
             /\ h = [g EXCEPT !.over = TRUE] \/ h.over = g.over
  <2>1. h = [order |-> g.order, sent |-> g.sent, whole |-> g.whole, texts |-> g.texts,
             reason |-> x, over |-> g.over]
    BY <1>1, <1>4
  <2> QED
    BY <1>1, <2>1 DEF MsgGivens
<1> QED
  BY <1>2, <1>3, <1>4

LEMMA MessageBegins ==
  ASSUME MsgInv, Message!WriteHead
  PROVE  MsgInv'
<1>1. PICK e : e = Message!Event("start", Message!None, "")
  OBVIOUS
<1>2. /\ given' = given /\ ~res.begun /\ res' = [res EXCEPT !.begun = TRUE]
      /\ out' = out \o <<e>>
  BY <1>1 DEF Message!WriteHead, Message!Becomes
<1>3. GivenSound(given) /\ MsgReady(given, res, out)
  BY <1>2 DEF MsgInv, MsgOpen, MsgOver
<1>4. PICK r, o : r = res' /\ o = out'
  OBVIOUS
<1>5. r = [begun |-> TRUE, held |-> FALSE, text |-> 0, next |-> 1,
           tools |-> {}, open |-> {}, finished |-> FALSE]
  BY <1>2, <1>3, <1>4 DEF MsgReady
<1>6. e \in MsgEvents /\ e.kind = "start"
  BY <1>1 DEF Message!Event, Message!None, MsgEvents
<1>7. o = <<e>>
  <2>1. PICK d : d = <<e>> /\ d \in Seq(MsgEvents)
    <3>1. <<e>> \in Seq(MsgEvents)
      BY <1>6
    <3> QED
      BY <3>1
  <2>2. <<>> \o d = d
    BY <2>1, ConcatEmptySeq
  <2> QED
    BY <1>2, <1>3, <1>4, <2>1, <2>2 DEF MsgReady
<1>8. o \in Seq(MsgEvents) /\ Len(o) = 1 /\ o[1] = e /\ 2..Len(o) = {} /\ 1..Len(o) = {1}
  BY <1>6, <1>7
<1>9. /\ r \in Translators /\ r.open = {} /\ r.text = 0 /\ r.next = 1 /\ r.tools = {}
      /\ r.begun /\ ~r.finished
  BY <1>5 DEF Translators
<1>10. Draft(r, o)
  BY <1>6, <1>8, <1>9
     DEF Draft, Started, InBlocks, OpenedOnce, AllOpened, OpenedBefore, Counts
<1>11. Handled(o, <<>>)
  <2>1. Helps(o) = {} /\ Givings(o) = {}
    BY <1>6, <1>8 DEF Helps, Givings, IsHelp, IsGift
  <2>2. Len(<<>>) = 0
    OBVIOUS
  <2> QED
    BY <2>1, <2>2, FS_EmptySet DEF Handled
<1>12. r.tools = Pending(given.order, given.sent)
  <2>1. given.order = <<>>
    BY <1>3 DEF MsgReady
  <2>2. 1..Len(given.order) = {}
    BY <2>1
  <2> QED
    BY <1>9, <2>2 DEF Pending
<1>13. MsgOpen(given, r, o)
  BY <1>3, <1>9, <1>10, <1>11, <1>12 DEF MsgReady, MsgOpen
<1> QED
  BY <1>2, <1>3, <1>4, <1>13 DEF MsgInv

(* what is not begun or is over writes no more *)
LEMMA MessageWriting ==
  ASSUME MsgInv, Message!Writing
  PROVE  GivenSound(given) /\ MsgOpen(given, res, out) /\ given \in MsgGivens
BY DEF MsgInv, Message!Writing, MsgReady, MsgOver, GivenSound

LEMMA MessageTexts ==
  ASSUME MsgInv, Message!Text
  PROVE  MsgInv'
<1>1. /\ GivenSound(given) /\ MsgOpen(given, res, out) /\ given \in MsgGivens
      /\ given' = [given EXCEPT !.texts = @ + 1]
  BY MessageWriting DEF Message!Text
<1>2. /\ given' \in MsgGivens /\ given'.order = given.order /\ given'.sent = given.sent
      /\ ~given'.over
  <2>1. PICK g, h : g = given /\ h = given'
    OBVIOUS
  <2>2. /\ h \in MsgGivens /\ h.order = g.order /\ h.sent = g.sent
        /\ h = [g EXCEPT !.over = TRUE] \/ h.over = g.over
    BY <1>1, <2>1, GivenChanges
  <2>3. h.over = g.over
    BY <1>1, <2>1 DEF MsgGivens
  <2> QED
    BY <1>1, <2>1, <2>2, <2>3 DEF MsgOpen
<1>3. GivenSound(given')
  BY <1>1, <1>2 DEF GivenSound
<1>4. /\ Draft(res, out) /\ Handled(out, <<>>) /\ res.begun /\ ~res.finished
      /\ res.tools = Pending(given.order, given.sent)
  BY <1>1 DEF MsgOpen
<1>5. CASE \E e : /\ e = Message!Texted([res EXCEPT !.held = FALSE], "text")
                  /\ res' = e.r /\ out' = out \o e.events
  <2>1. PICK q, e : /\ q = [res EXCEPT !.held = FALSE] /\ e = Message!Texted(q, "text")
                    /\ res' = e.r /\ out' = out \o e.events
    BY <1>5
  <2>2. /\ Draft(q, out) /\ q.tools = res.tools /\ q.begun = res.begun
        /\ q.finished = res.finished
    BY <1>4, <2>1, Unheld
  <2>3. PICK z : z = <<>> /\ z \in Seq(Tool)
    <3>1. <<>> \in Seq(Tool)
      OBVIOUS
    <3> QED
      BY <3>1
  <2>4. TextedAs(q, out, "text", z, z, e)
    BY <1>4, <2>1, <2>2, <2>3, Texts DEF Letters
  <2>5. MsgOpen(given', res', out')
    BY <1>2, <1>4, <2>1, <2>2, <2>3, <2>4 DEF TextedAs, MsgOpen
  <2> QED
    BY <1>3, <2>5 DEF MsgInv
<1>6. CASE res' = [res EXCEPT !.held = TRUE] /\ out' = out \o <<>>
  <2>1. out' = out
    <3>1. out \in Seq(MsgEvents)
      BY <1>4 DEF Draft, Started
    <3> QED
      BY <1>6, <3>1, ConcatEmptySeq
  <2>2. /\ Draft(res', out) /\ res'.tools = res.tools /\ res'.begun = res.begun
        /\ res'.finished = res.finished
    BY <1>4, <1>6, Unheld
  <2>3. MsgOpen(given', res', out')
    BY <1>2, <1>4, <2>1, <2>2 DEF MsgOpen
  <2> QED
    BY <1>3, <2>3 DEF MsgInv
<1> QED
  BY <1>5, <1>6 DEF Message!Text, Message!Becomes

LEMMA MessageReasons ==
  ASSUME MsgInv, Message!FinishReason
  PROVE  MsgInv'
<1>1. /\ GivenSound(given) /\ MsgOpen(given, res, out) /\ given \in MsgGivens
      /\ res' = res /\ out' = out
  BY MessageWriting DEF Message!FinishReason
<1>2. PICK x \in {"end_turn", "tool_use"} : given' = [given EXCEPT !.reason = x]
  BY DEF Message!FinishReason
<1>3. /\ given' \in MsgGivens /\ given'.order = given.order /\ given'.sent = given.sent
      /\ ~given'.over
  <2>1. PICK g, h : g = given /\ h = given'
    OBVIOUS
  <2>2. h \in MsgGivens /\ h.order = g.order /\ h.sent = g.sent
    BY <1>1, <1>2, <2>1, GivenChanges
  <2>3. h.over = g.over
    BY <1>1, <1>2, <2>1 DEF MsgGivens
  <2> QED
    BY <1>1, <2>1, <2>2, <2>3 DEF MsgOpen
<1>4. GivenSound(given')
  BY <1>1, <1>3 DEF GivenSound
<1>5. MsgOpen(given', res', out')
  BY <1>1, <1>3 DEF MsgOpen
<1> QED
  BY <1>4, <1>5 DEF MsgInv

(* the calls that were written are collected *)
LEMMA MessageCollects ==
  ASSUME MsgOpen(given, res, out), GivenSound(given'), ~given'.over, out' = out,
         Collects(res', res, Pending(given'.order, given'.sent))
  PROVE  MsgInv'
<1>1. /\ Draft(res, out) /\ Handled(out, <<>>) /\ res.begun /\ ~res.finished
  BY DEF MsgOpen
<1>2. /\ res' \in Translators /\ res'.open = res.open /\ res'.text = res.text
      /\ res'.next = res.next /\ res'.begun = res.begun /\ res'.finished = res.finished
      /\ res'.tools = Pending(given'.order, given'.sent)
  BY DEF Collects
<1>3. Draft(res', out)
  BY <1>1, <1>2 DEF Draft, Counts
<1>4. MsgOpen(given', res', out')
  BY <1>1, <1>2, <1>3 DEF MsgOpen
<1> QED
  BY <1>4 DEF MsgInv

LEMMA InOrderOf ==
  ASSUME NEW order \in Seq(Calls)
  PROVE  \A c : c \in Message!ToSet(order) <=> \E i \in 1..Len(order) : order[i] = c
<1>1. DOMAIN order = 1..Len(order)
  OBVIOUS
<1> QED
  BY <1>1 DEF Message!ToSet

LEMMA GivenFields ==
  ASSUME NEW order \in Seq(Calls), NEW sent \in [Calls -> 0..2], NEW g \in MsgGivens,
         NEW whole \in BOOLEAN, NEW h,
         h = [order |-> order, sent |-> sent, whole |-> whole, texts |-> g.texts,
              reason |-> g.reason, over |-> g.over]
  PROVE  h \in MsgGivens /\ h.order = order /\ h.sent = sent /\ h.over = g.over
BY GivenParts DEF MsgGivens

(* what a fragment writes *)
Wrote(g, h, order, c) ==
  /\ GivenSound(h) /\ ~h.over /\ h.order = order /\ h.sent = [g.sent EXCEPT ![c] = @ + 1]
  /\ order \in Seq(Calls) /\ OnceEach(order)
  /\ \/ order = g.order /\ \E i \in 1..Len(order) : order[i] = c
     \/ order = Append(g.order, c) /\ g.sent[c] = 0

LEMMA WrittenPart ==
  ASSUME NEW g, GivenSound(g), ~g.over, NEW c \in Calls, g.sent[c] < 2,
         NEW order, order = IF c \in Message!ToSet(g.order) THEN g.order ELSE Append(g.order, c),
         NEW h, h = [g EXCEPT !.order = order, !.sent[c] = @ + 1]
  PROVE  Wrote(g, h, order, c)
<1>1. /\ g.order \in Seq(Calls) /\ g.sent \in [Calls -> 0..2] /\ g.whole \in BOOLEAN
      /\ g.texts \in Nat /\ g.reason \in {"none", "end_turn", "tool_use"}
      /\ g.over \in BOOLEAN /\ OnceEach(g.order) /\ g \in MsgGivens
      /\ \A x \in Calls : (\A i \in 1..Len(g.order) : g.order[i] # x) => g.sent[x] = 0
  BY GivenParts DEF GivenSound
<1>2. g = [order |-> g.order, sent |-> g.sent, whole |-> g.whole, texts |-> g.texts,
           reason |-> g.reason, over |-> g.over]
  BY <1>1 DEF MsgGivens
<1>3. PICK sent : sent = [g.sent EXCEPT ![c] = @ + 1]
  OBVIOUS
<1>4. h = [order |-> order, sent |-> sent, whole |-> g.whole, texts |-> g.texts,
           reason |-> g.reason, over |-> g.over]
  BY <1>2, <1>3
<1>5. sent \in [Calls -> 0..2]
  <2>1. g.sent[c] + 1 \in 0..2
    BY <1>1
  <2> QED
    BY <1>1, <1>3, <2>1
<1>6. PICK old, n : old = g.order /\ n = Len(old)
  OBVIOUS
<1>7. \/ order = old /\ \E i \in 1..Len(order) : order[i] = c
      \/ order = Append(old, c) /\ \A i \in 1..Len(old) : old[i] # c
  <2>1. c \in Message!ToSet(old) <=> \E i \in 1..Len(old) : old[i] = c
    BY <1>1, <1>6, InOrderOf
  <2> QED
    BY <1>6, <2>1
<1>8. order \in Seq(Calls)
  BY <1>1, <1>6, <1>7
<1>9. OnceEach(order) /\ \A i \in 1..Len(old) : \E j \in 1..Len(order) : order[j] = old[i]
  <2>1. CASE order = old
    BY <1>1, <1>6, <2>1
  <2>2. CASE order = Append(old, c) /\ \A i \in 1..Len(old) : old[i] # c
    <3>1. /\ Len(order) = n + 1 /\ order[n + 1] = c /\ n \in Nat
          /\ \A i \in 1..n : order[i] = old[i] /\ i \in 1..Len(order)
      BY <1>1, <1>6, <2>2
    <3>2. \A i \in 1..(n + 1) : i \in 1..n \/ i = n + 1
      BY <3>1
    <3>3. OnceEach(order)
      BY <1>1, <1>6, <2>2, <3>1, <3>2 DEF OnceEach
    <3> QED
      BY <1>6, <3>1, <3>3
  <2> QED
    BY <1>7, <2>1, <2>2
<1>10. \E i \in 1..Len(order) : order[i] = c
  <2>1. CASE order = Append(old, c)
    <3>1. Len(order) = n + 1 /\ order[n + 1] = c /\ n \in Nat
      BY <1>1, <1>6, <2>1
    <3>2. n + 1 \in 1..Len(order)
      BY <3>1
    <3> QED
      BY <3>1, <3>2
  <2> QED
    BY <1>7, <2>1
<1>11. \A x \in Calls : (\A i \in 1..Len(order) : order[i] # x) => sent[x] = 0
  <2> SUFFICES ASSUME NEW x \in Calls, \A i \in 1..Len(order) : order[i] # x PROVE sent[x] = 0
    OBVIOUS
  <2>1. x # c /\ \A i \in 1..Len(old) : old[i] # x
    BY <1>9, <1>10
  <2> QED
    BY <1>1, <1>3, <1>6, <2>1
<1>12. h \in MsgGivens /\ h.order = order /\ h.sent = sent /\ ~h.over
  <2>1. PICK a, b : a = order /\ b = g.whole /\ a \in Seq(Calls) /\ b \in BOOLEAN
    BY <1>1, <1>8
  <2>2. PICK w : w = [order |-> a, sent |-> sent, whole |-> b, texts |-> g.texts,
                      reason |-> g.reason, over |-> g.over]
    OBVIOUS
  <2>3. w \in MsgGivens /\ w.order = a /\ w.sent = sent /\ w.over = g.over
    <3>1. g \in MsgGivens /\ a \in Seq(Calls) /\ b \in BOOLEAN
      BY <1>1, <2>1
    <3> QED
      BY <1>5, <2>2, <3>1, GivenFields
  <2>4. h = w
    BY <1>4, <2>1, <2>2, Zenon
  <2> QED
    BY <2>1, <2>3, <2>4, Zenon
<1>13. GivenSound(h)
  BY <1>9, <1>11, <1>12 DEF GivenSound
<1>14. order = old \/ (order = Append(old, c) /\ g.sent[c] = 0)
  BY <1>1, <1>6, <1>7
<1> QED
  BY <1>3, <1>6, <1>7, <1>8, <1>9, <1>12, <1>13, <1>14 DEF Wrote

LEMMA MessageFragments ==
  ASSUME MsgInv, NEW c \in Calls, Message!Fragment(c)
  PROVE  MsgInv'
<1>1. /\ GivenSound(given) /\ MsgOpen(given, res, out) /\ given \in MsgGivens
      /\ ~given.over
  BY MessageWriting DEF Message!Fragment, Message!Writing
<1>2. PICK order, k : /\ order = IF c \in Message!ToSet(given.order) THEN given.order
                                 ELSE Append(given.order, c)
                      /\ k = CHOOSE i \in DOMAIN order : order[i] = c
  OBVIOUS
<1>3. /\ given' = [given EXCEPT !.order = order, !.sent[c] = @ + 1]
      /\ res' = Message!Put(res, Message!KeyOf(res, c, k, k), c,
                    Append(Message!ArgsAt(res, Message!KeyOf(res, c, k, k)),
                           Message!Fragments[given.sent[c] + 1]))
      /\ out' = out \o <<>>
  BY <1>2 DEF Message!Fragment, Message!Becomes
<1>4. given.order \in Seq(Calls) /\ given.sent \in [Calls -> 0..2] /\ given.sent[c] < 2
  <2>1. Len(Message!Fragments) = 2
    <3>1. Message!Fragments = Parts
      BY DEF Message!Fragments, Parts
    <3> QED
      BY <3>1, PartsFacts
  <2> QED
    BY <1>1, <2>1, GivenParts DEF Message!Fragment
<1>5. /\ GivenSound(given') /\ ~given'.over /\ given'.order = order
      /\ given'.sent = [given.sent EXCEPT ![c] = @ + 1]
      /\ order \in Seq(Calls) /\ OnceEach(order)
      /\ \/ order = given.order /\ \E i \in 1..Len(order) : order[i] = c
         \/ order = Append(given.order, c) /\ given.sent[c] = 0
  <2>1. PICK g, h : g = given /\ h = given'
    OBVIOUS
  <2>2. Wrote(g, h, order, c)
    BY <1>1, <1>2, <1>3, <1>4, <2>1, WrittenPart
  <2> QED
    BY <2>1, <2>2 DEF Wrote
<1>6. /\ k \in 1..Len(order) /\ order[k] = c
      /\ \/ order = given.order
         \/ order = Append(given.order, c) /\ k = Len(order) /\ given.sent[c] = 0
  <2>1. \E i \in 1..Len(order) : order[i] = c
    <3>1. CASE order = Append(given.order, c)
      <4>1. Len(order) \in 1..Len(order) /\ order[Len(order)] = c
        BY <1>4, <3>1
      <4> QED
        BY <4>1
    <3> QED
      BY <1>5, <3>1
  <2>2. DOMAIN order = 1..Len(order)
    BY <1>5
  <2>3. k \in 1..Len(order) /\ order[k] = c
    BY <1>2, <2>1, <2>2
  <2>4. CASE order = Append(given.order, c)
    <3>1. Len(order) \in 1..Len(order) /\ order[Len(order)] = c
      BY <1>4, <2>4
    <3>2. k = Len(order)
      BY <1>5, <2>3, <3>1 DEF OnceEach
    <3> QED
      BY <1>5, <2>3, <3>2
  <2> QED
    BY <1>5, <2>3, <2>4
<1>7. res \in Translators /\ res.tools = Pending(given.order, given.sent)
      /\ out \in Seq(MsgEvents)
  BY <1>1 DEF MsgOpen, Draft, Counts, Started
<1>8. Collects(res', res, Pending(order, given'.sent))
  <2>1. PICK q : q = res'
    OBVIOUS
  <2>2. PICK sent : sent = given.sent
    OBVIOUS
  <2>3. Collects(q, res, Pending(order, [sent EXCEPT ![c] = @ + 1]))
    BY <1>3, <1>4, <1>5, <1>6, <1>7, <2>1, <2>2, FragmentCollects
  <2> QED
    BY <1>5, <2>1, <2>2, <2>3
<1>9. out' = out
  BY <1>3, <1>7, ConcatEmptySeq
<1> QED
  BY <1>1, <1>5, <1>8, <1>9, MessageCollects

-----------------------------------------------------------------------------
LEMMA StreamCloses ==
  ASSUME MsgInv, Message!StreamDone
  PROVE  MsgInv'
<1>1. /\ GivenSound(given) /\ MsgOpen(given, res, out) /\ given \in MsgGivens
      /\ given' = [given EXCEPT !.over = TRUE]
  BY MessageWriting DEF Message!StreamDone
<1>2. PICK valid, f : /\ f = Message!Finished(res, valid)
                      /\ res' = f.r /\ out' = out \o f.events
  BY DEF Message!StreamDone, Message!Becomes
<1>3. /\ Draft(res, out) /\ Handled(out, <<>>) /\ res.begun /\ ~res.finished
      /\ res.tools = Pending(given.order, given.sent)
  BY <1>1 DEF MsgOpen
<1>4. /\ given.order \in Seq(Calls) /\ given.sent \in [Calls -> 0..2]
      /\ OnceEach(given.order) /\ given.reason \in {"none", "end_turn", "tool_use"}
  BY <1>1, GivenParts DEF GivenSound
<1>5. FinishedAs(res, out, f, given.order, given.sent)
  BY <1>2, <1>3, <1>4, MessageFinishes
<1>6. /\ given' \in MsgGivens /\ given'.order = given.order /\ given'.sent = given.sent
      /\ given'.over
  <2>1. PICK g, h : g = given /\ h = given'
    OBVIOUS
  <2>2. h \in MsgGivens /\ h.order = g.order /\ h.sent = g.sent
    BY <1>1, <2>1, GivenChanges
  <2>3. h.over
    BY <1>1, <2>1 DEF MsgGivens
  <2> QED
    BY <2>1, <2>2, <2>3
<1>7. GivenSound(given')
  BY <1>1, <1>6 DEF GivenSound
<1>8. MsgOver(given', res', out')
  BY <1>2, <1>3, <1>5, <1>6 DEF FinishedAs, MsgOver
<1> QED
  BY <1>7, <1>8 DEF MsgInv

LEMMA OneEvent ==
  ASSUME NEW e \in MsgEvents
  PROVE  /\ <<e>> \in Seq(MsgEvents) /\ Len(<<e>>) = 1 /\ <<e>>[1] = e
         /\ \A k \in 1..Len(<<e>>) : k = 1
OBVIOUS

LEMMA EndEvents ==
  ASSUME NEW e, e = Message!Event("end", Message!None, "")
  PROVE  /\ e \in MsgEvents /\ e.kind = "end" /\ <<e>> \in Seq(MsgEvents) /\ Quiet(<<e>>)
<1>1. e \in MsgEvents /\ e.kind = "end"
  BY DEF Message!Event, Message!None, MsgEvents
<1>2. PICK d : d = <<e>>
  OBVIOUS
<1>3. d \in Seq(MsgEvents) /\ Quiet(d)
  <2>1. /\ Len(d) = 1 /\ d[1] = e /\ d \in Seq(MsgEvents)
        /\ \A k \in 1..Len(d) : k = 1
    BY <1>1, <1>2, OneEvent
  <2> QED
    BY <1>1, <2>1 DEF Quiet, IsHelp, IsGift
<1> QED
  BY <1>1, <1>2, <1>3

(* the end of a message that is whole *)
LEMMA WholeAndEnds ==
  ASSUME NEW o, NEW n, Whole(o, n), n = Len(o), NEW s, Handled(o, s),
         NEW e, e = Message!Event("end", Message!None, "")
  PROVE  (\E k : Whole(o \o <<e>>, k)) /\ Handled(o \o <<e>>, s)
<1>1. /\ e \in MsgEvents /\ e.kind = "end" /\ <<e>> \in Seq(MsgEvents) /\ Quiet(<<e>>)
  BY EndEvents
<1>2. o \in Seq(MsgEvents)
  BY DEF Whole, Stopped
<1>3. Whole(o \o <<e>>, n)
  BY <1>1, WholeEnds
<1>4. PICK d : d = <<e>>
  OBVIOUS
<1>5. Handled(o \o d, s)
  BY <1>1, <1>2, <1>4, HandledStays
<1> QED
  BY <1>3, <1>4, <1>5

LEMMA MessageEnds ==
  ASSUME MsgInv, Message!End
  PROVE  MsgInv'
<1>1. PICK valid, f, e : /\ f = Message!Finished(res, valid)
                         /\ e = Message!Event("end", Message!None, "")
                         /\ res' = f.r /\ out' = out \o Append(f.events, e)
  BY DEF Message!End, Message!Becomes
<1>2. /\ given' = [given EXCEPT !.over = TRUE] /\ res.begun /\ GivenSound(given)
      /\ MsgOpen(given, res, out) \/ MsgOver(given, res, out)
  BY DEF Message!End, MsgInv, MsgReady
<1>3. /\ given \in MsgGivens /\ given.order \in Seq(Calls) /\ given.sent \in [Calls -> 0..2]
      /\ OnceEach(given.order) /\ given.reason \in {"none", "end_turn", "tool_use"}
  BY <1>2, GivenParts DEF GivenSound
<1>4. /\ given' \in MsgGivens /\ given'.order = given.order /\ given'.sent = given.sent
      /\ given'.over
  <2>1. PICK g, h : g = given /\ h = given'
    OBVIOUS
  <2>2. h \in MsgGivens /\ h.order = g.order /\ h.sent = g.sent
    BY <1>2, <1>3, <2>1, GivenChanges
  <2>3. h.over
    BY <1>2, <1>3, <2>1 DEF MsgGivens
  <2> QED
    BY <2>1, <2>2, <2>3
<1>5. GivenSound(given')
  BY <1>2, <1>4 DEF GivenSound
<1>6. /\ e \in MsgEvents /\ e.kind = "end" /\ <<e>> \in Seq(MsgEvents) /\ Quiet(<<e>>)
  BY <1>1, EndEvents
<1>7. CASE MsgOpen(given, res, out)
  <2>1. /\ Draft(res, out) /\ Handled(out, <<>>) /\ ~res.finished
        /\ res.tools = Pending(given.order, given.sent)
    BY <1>7 DEF MsgOpen
  <2>2. FinishedAs(res, out, f, given.order, given.sent)
    BY <1>1, <1>3, <2>1, MessageFinishes
  <2>3. PICK s, x, o : /\ x = f.events /\ o = out \o x
                       /\ Ordered(s, given.order, given.sent) /\ Handled(o, s)
    BY <2>2 DEF FinishedAs
  <2>4. /\ x \in Seq(MsgEvents) /\ Whole(o, Len(o)) /\ f.r.finished /\ f.r.begun = res.begun
    BY <2>2, <2>3 DEF FinishedAs
  <2>5. out' = o \o <<e>>
    <3>1. out \in Seq(MsgEvents)
      BY <2>1 DEF Draft, Started
    <3>2. Append(x, e) = x \o <<e>>
      BY <1>6, <2>4
    <3>3. out \o (x \o <<e>>) = (out \o x) \o <<e>>
      BY <1>6, <2>4, <3>1, TurnsOf
    <3> QED
      BY <1>1, <2>3, <3>2, <3>3
  <2>6. (\E k : Whole(o \o <<e>>, k)) /\ Handled(o \o <<e>>, s)
    BY <1>1, <2>3, <2>4, WholeAndEnds
  <2>7. MsgOver(given', res', out')
    BY <1>1, <1>2, <1>4, <2>3, <2>4, <2>5, <2>6 DEF MsgOver
  <2> QED
    BY <1>5, <2>7 DEF MsgInv
<1>8. CASE MsgOver(given, res, out)
  <2>1. res.finished /\ res.begun
    BY <1>8 DEF MsgOver
  <2>2. f.r = res /\ f.events = <<>>
    BY <1>1, <2>1 DEF Message!Finished, Message!MayFinish
  <2>3. PICK n, s : /\ Whole(out, n) /\ Ordered(s, given.order, given.sent)
                    /\ Handled(out, s)
    BY <1>8 DEF MsgOver
  <2>4. out \in Seq(MsgEvents) /\ n \in 2..Len(out) /\ \A i \in 2..Len(out) : i > n => out[i].kind = "end"
    BY <2>3 DEF Whole, Stopped
  <2>5. n = Len(out)
    <3>1. \A i \in 1..Len(out) : out[i].kind # "end"
      <4>1. DOMAIN out = 1..Len(out)
        BY <2>4
      <4> QED
        BY <4>1 DEF Message!End, Message!ToSet
    <3>2. n # Len(out) => Len(out) \in 2..Len(out) /\ Len(out) > n
      BY <2>4
    <3> QED
      BY <2>4, <3>1, <3>2
  <2>6. out' = out \o <<e>>
    <3>1. PICK d : d = Append(<<>>, e)
      OBVIOUS
    <3>2. d = <<e>>
      BY <3>1
    <3>3. Append(f.events, e) = d
      BY <2>2, <3>1, Zenon
    <3> QED
      BY <1>1, <3>2, <3>3, Zenon
  <2>7. (\E k : Whole(out \o <<e>>, k)) /\ Handled(out \o <<e>>, s)
    BY <1>1, <2>3, <2>5, WholeAndEnds
  <2>8. MsgOver(given', res', out')
    BY <1>1, <1>4, <2>1, <2>2, <2>3, <2>6, <2>7 DEF MsgOver
  <2> QED
    BY <1>5, <2>8 DEF MsgInv
<1> QED
  BY <1>2, <1>7, <1>8

-----------------------------------------------------------------------------
(* An order of a set of calls has each of them once.                         *)
OrderOfSet(order, S) ==
  /\ order \in Seq(Calls) /\ OnceEach(order)
  /\ \A c : c \in S <=> \E i \in 1..Len(order) : order[i] = c

LEMMA OrdersOf ==
  ASSUME NEW S \in SUBSET Calls, NEW order \in Message!SetToSeqs(S)
  PROVE  OrderOfSet(order, S)
<1>1. IsFiniteSet(S)
  BY StreamsAssumption, FS_Subset
<1>2. PICK n \in Nat : n = Cardinality(S)
  BY <1>1, FS_CardinalityType
<1>3. order \in [1..n -> S] /\ \A i, j \in 1..n : i # j => order[i] # order[j]
  <2>1. Message!SetToSeqs(S) = {f \in [1..n -> S] : \A i, j \in 1..n : i # j => f[i] # f[j]}
    BY <1>2, MessageCard DEF Message!SetToSeqs
  <2> QED
    BY <2>1
<1>4. order \in Injection(1..n, S)
  BY <1>3 DEF Injection, IsInjective
<1>5. Cardinality(1..n) = n
  BY <1>2, FS_Interval
<1>6. order \in Surjection(1..n, S)
  BY <1>1, <1>2, <1>4, <1>5, FS_Injection
<1>7. \A c \in S : \E i \in 1..n : order[i] = c
  BY <1>6 DEF Surjection
<1>8. order \in Seq(Calls) /\ Len(order) = n
  <2>1. order \in [1..n -> Calls]
    BY <1>3
  <2> QED
    BY <1>2, <2>1
<1>9. \A i \in 1..n : order[i] \in S
  BY <1>3
<1>10. OnceEach(order)
  BY <1>3, <1>8 DEF OnceEach
<1> QED
  BY <1>7, <1>8, <1>9, <1>10 DEF OrderOfSet

(* what a snapshot writes *)
Snapped(g, h, order) ==
  LET all == IF g.order = <<>> THEN order ELSE g.order
  IN /\ GivenSound(h) /\ ~h.over /\ h.order = all
     /\ h.sent = SentTo(order, g.sent, Len(order))
     /\ all \in Seq(Calls) /\ OnceEach(all)
     /\ g.order # <<>> =>
          \A i \in 1..Len(order) : \E k \in 1..Len(g.order) : g.order[k] = order[i]

LEMMA WrittenWhole ==
  ASSUME NEW g, GivenSound(g), ~g.over,
         NEW S, S \in SUBSET (IF g.order = <<>> THEN Calls ELSE Message!ToSet(g.order)),
         NEW order, OrderOfSet(order, S),
         NEW h, h = [g EXCEPT !.whole = TRUE, !.order = IF @ = <<>> THEN order ELSE @,
                       !.sent = [c \in Calls |-> IF c \in S THEN Len(Message!Fragments) ELSE @[c]]]
  PROVE  Snapped(g, h, order)
<1>1. /\ g.order \in Seq(Calls) /\ g.sent \in [Calls -> 0..2]
      /\ g.texts \in Nat /\ g.reason \in {"none", "end_turn", "tool_use"}
      /\ g.over \in BOOLEAN /\ OnceEach(g.order) /\ g \in MsgGivens
      /\ \A x \in Calls : (\A i \in 1..Len(g.order) : g.order[i] # x) => g.sent[x] = 0
  BY GivenParts DEF GivenSound
<1>2. g = [order |-> g.order, sent |-> g.sent, whole |-> g.whole, texts |-> g.texts,
           reason |-> g.reason, over |-> g.over]
  BY <1>1 DEF MsgGivens
<1>3. PICK all, to : /\ all = IF g.order = <<>> THEN order ELSE g.order
                     /\ to = [c \in Calls |-> IF c \in S THEN Len(Message!Fragments) ELSE g.sent[c]]
  OBVIOUS
<1>4. h = [order |-> all, sent |-> to, whole |-> TRUE, texts |-> g.texts,
           reason |-> g.reason, over |-> g.over]
  BY <1>2, <1>3
<1>5. /\ order \in Seq(Calls) /\ OnceEach(order)
      /\ \A c : c \in S <=> \E i \in 1..Len(order) : order[i] = c
  BY DEF OrderOfSet
<1>6. Len(Message!Fragments) = 2
  <2>1. Message!Fragments = Parts
    BY DEF Message!Fragments, Parts
  <2> QED
    BY <2>1, PartsFacts
<1>7. to = SentTo(order, g.sent, Len(order))
  BY <1>3, <1>5, <1>6 DEF SentTo
<1>8. to \in [Calls -> 0..2]
  BY <1>1, <1>3, <1>6
<1>9. all \in Seq(Calls) /\ OnceEach(all)
  BY <1>1, <1>3, <1>5
<1>10. g.order # <<>> => \A i \in 1..Len(order) : \E k \in 1..Len(g.order) : g.order[k] = order[i]
  <2> SUFFICES ASSUME g.order # <<>>, NEW i \in 1..Len(order)
               PROVE  \E k \in 1..Len(g.order) : g.order[k] = order[i]
    OBVIOUS
  <2>1. order[i] \in S
    BY <1>5
  <2>2. order[i] \in Message!ToSet(g.order)
    BY <2>1
  <2> QED
    BY <1>1, <2>2, InOrderOf
<1>11. h \in MsgGivens /\ h.order = all /\ h.sent = to /\ h.over = g.over
  <2>1. PICK a, b : a = all /\ b = TRUE /\ a \in Seq(Calls) /\ b \in BOOLEAN
    BY <1>9
  <2>2. PICK w : w = [order |-> a, sent |-> to, whole |-> b, texts |-> g.texts,
                      reason |-> g.reason, over |-> g.over]
    OBVIOUS
  <2>3. w \in MsgGivens /\ w.order = a /\ w.sent = to /\ w.over = g.over
    <3>1. g \in MsgGivens /\ a \in Seq(Calls) /\ b \in BOOLEAN
      BY <1>1, <2>1
    <3> QED
      BY <1>8, <2>2, <3>1, GivenFields
  <2>4. h = w
    BY <1>4, <2>1, <2>2, Zenon
  <2> QED
    BY <2>1, <2>3, <2>4, Zenon
<1>12. \A c \in Calls : (\A i \in 1..Len(all) : all[i] # c) => to[c] = 0
  <2> SUFFICES ASSUME NEW c \in Calls, \A i \in 1..Len(all) : all[i] # c PROVE to[c] = 0
    OBVIOUS
  <2>1. c \notin S
    <3>1. CASE g.order = <<>>
      BY <1>3, <1>5, <3>1
    <3>2. CASE g.order # <<>>
      <4>1. c \in S => c \in Message!ToSet(g.order)
        BY <3>2
      <4> QED
        BY <1>1, <1>3, <3>2, <4>1, InOrderOf
    <3> QED
      BY <3>1, <3>2
  <2>2. \A i \in 1..Len(g.order) : g.order[i] # c
    <3>1. CASE g.order = <<>>
      <4>1. 1..Len(g.order) = {}
        BY <3>1
      <4> QED
        BY <4>1
    <3>2. CASE g.order # <<>>
      BY <1>3, <3>2
    <3> QED
      BY <3>1, <3>2
  <2> QED
    BY <1>1, <1>3, <2>1, <2>2
<1>13. GivenSound(h)
  BY <1>9, <1>11, <1>12 DEF GivenSound
<1> QED
  BY <1>3, <1>7, <1>9, <1>10, <1>11, <1>13 DEF Snapped

LEMMA MessageSnapshots ==
  ASSUME MsgInv, Message!Snapshot
  PROVE  MsgInv'
<1>1. /\ GivenSound(given) /\ MsgOpen(given, res, out) /\ given \in MsgGivens
      /\ ~given.over
  BY MessageWriting DEF Message!Snapshot, Message!Writing
<1>2. PICK S, order, seq :
        /\ S \in SUBSET (IF given.order = <<>> THEN Calls ELSE Message!ToSet(given.order))
        /\ order \in Message!SetToSeqs(S) /\ seq = [i \in DOMAIN order |-> i]
        /\ given' = [given EXCEPT !.whole = TRUE,
                      !.order = IF @ = <<>> THEN order ELSE @,
                      !.sent = [c \in Calls |-> IF c \in S THEN Len(Message!Fragments) ELSE @[c]]]
        /\ res' = KeptAll(res, order, seq) /\ out' = out \o <<>>
  BY DEF Message!Snapshot, Message!Becomes, KeptAll
<1>3. given.order \in Seq(Calls) /\ given.sent \in [Calls -> 0..2] /\ OnceEach(given.order)
  BY <1>1, GivenParts DEF GivenSound
<1>4. OrderOfSet(order, S)
  <2>1. S \in SUBSET Calls
    <3>1. \A c \in Message!ToSet(given.order) : c \in Calls
      BY <1>3, InOrderOf
    <3> QED
      BY <1>2, <3>1
  <2> QED
    BY <1>2, <2>1, OrdersOf
<1>5. PICK g, h : g = given /\ h = given'
  OBVIOUS
<1>6. Snapped(g, h, order)
  BY <1>1, <1>2, <1>4, <1>5, WrittenWhole
<1>7. PICK all : all = IF g.order = <<>> THEN order ELSE g.order
  OBVIOUS
<1>8. /\ GivenSound(h) /\ ~h.over /\ h.order = all /\ h.sent = SentTo(order, g.sent, Len(order))
      /\ all \in Seq(Calls) /\ OnceEach(all)
      /\ g.order # <<>> =>
           \A i \in 1..Len(order) : \E k \in 1..Len(g.order) : g.order[k] = order[i]
  BY <1>6, <1>7 DEF Snapped
<1>9. res \in Translators /\ res.tools = Pending(given.order, given.sent)
      /\ out \in Seq(MsgEvents)
  BY <1>1 DEF MsgOpen, Draft, Counts, Started
<1>10. order \in Seq(Calls) /\ OnceEach(order)
  BY <1>4 DEF OrderOfSet
<1>11. Collects(KeptAll(res, order, seq), res, Pending(all, SentTo(order, g.sent, Len(order))))
  <2>1. PICK old, sent : old = g.order /\ sent = g.sent
    OBVIOUS
  <2>2. Collects(KeptAll(res, order, seq), res, Pending(all, SentTo(order, sent, Len(order))))
    BY <1>2, <1>3, <1>5, <1>7, <1>8, <1>9, <1>10, <2>1, Snapshots
  <2> QED
    BY <2>1, <2>2
<1>12. Collects(res', res, Pending(given'.order, given'.sent))
  BY <1>2, <1>5, <1>8, <1>11
<1>13. out' = out
  BY <1>2, <1>9, ConcatEmptySeq
<1>14. GivenSound(given') /\ ~given'.over
  BY <1>5, <1>8
<1> QED
  BY <1>1, <1>12, <1>13, <1>14, MessageCollects

-----------------------------------------------------------------------------
LEMMA MessageKept == MsgInv /\ [Message!Next]_mVars => MsgInv'
<1> SUFFICES ASSUME MsgInv, [Message!Next]_mVars PROVE MsgInv'
  OBVIOUS
<1>1. CASE Message!WriteHead
  BY <1>1, MessageBegins
<1>2. CASE Message!Text
  BY <1>2, MessageTexts
<1>3. CASE Message!Snapshot
  BY <1>3, MessageSnapshots
<1>4. CASE Message!FinishReason
  BY <1>4, MessageReasons
<1>5. CASE Message!StreamDone
  BY <1>5, StreamCloses
<1>6. CASE Message!End
  BY <1>6, MessageEnds
<1>7. ASSUME NEW c \in Calls, Message!Fragment(c) PROVE MsgInv'
  BY <1>7, MessageFragments
<1>8. CASE Message!Ended \/ UNCHANGED mVars
  <2>1. given' = given /\ res' = res /\ out' = out
    BY <1>8 DEF Message!Ended, Message!vars, mVars
  <2> QED
    BY <2>1 DEF MsgInv
<1> QED
  BY <1>1, <1>2, <1>3, <1>4, <1>5, <1>6, <1>7, <1>8 DEF Message!Next

-----------------------------------------------------------------------------
(* Theorems.                                                                 *)

KindIn(o, kind) == {i \in DOMAIN o : o[i].kind = kind}
BlockIn(o, kind, n) == {i \in KindIn(o, kind) : o[i].index = n}

Formed(o) ==
  /\ \A i \in DOMAIN o : o[i].kind = "start" <=> i = 1
  /\ \A i \in KindIn(o, "delta") :
       /\ \E j \in BlockIn(o, "open", o[i].index) : j < i
       /\ \A j \in BlockIn(o, "close", o[i].index) : i < j
  /\ \A i \in KindIn(o, "stop") :
       /\ \A j \in DOMAIN o : j > i => o[j].kind = "end"
       /\ \A j \in KindIn(o, "open") : Cardinality(BlockIn(o, "close", o[j].index)) = 1
       /\ \A j \in KindIn(o, "close") : Cardinality(BlockIn(o, "open", o[j].index)) = 1
  /\ KindIn(o, "end") # {} => Cardinality(KindIn(o, "stop")) = 1

LEMMA FormedIs == Formed(out) => WellFormed
<1>1. \A kind : Message!Of(kind) = KindIn(out, kind)
  BY DEF Message!Of, KindIn
<1>2. \A kind, n : Message!Block(kind, n) = BlockIn(out, kind, n)
  BY <1>1 DEF Message!Block, BlockIn
<1> QED
  BY <1>1, <1>2, MessageCard DEF WellFormed, Message!WellFormed, Formed

(* all but the first of the events are after it *)
KindsOf(o) ==
  /\ DOMAIN o = 1..Len(o) /\ Len(o) \in Nat /\ Len(o) >= 1 /\ o[1].kind = "start"
  /\ \A i \in DOMAIN o : i = 1 \/ i \in 2..Len(o)
  /\ \A i \in 2..Len(o) : i \in DOMAIN o /\ i # 1
  /\ \A kind : \A i \in KindIn(o, kind) : kind # "start" => i \in 2..Len(o) /\ o[i].kind = kind
  /\ \A kind, n : \A i \in BlockIn(o, kind, n) :
       kind # "start" => i \in 2..Len(o) /\ o[i].kind = kind /\ o[i].index = n
  /\ \A kind, n : \A i \in 2..Len(o) :
       o[i].kind = kind /\ o[i].index = n => i \in BlockIn(o, kind, n)

LEMMA KindsAre ==
  ASSUME NEW o, Started(o)
  PROVE  KindsOf(o)
<1>1. /\ o \in Seq(MsgEvents) /\ Len(o) >= 1 /\ o[1].kind = "start"
      /\ DOMAIN o = 1..Len(o) /\ Len(o) \in Nat
  BY DEF Started
<1>2. \A i \in DOMAIN o : i = 1 \/ i \in 2..Len(o)
  BY <1>1
<1>3. \A i \in 2..Len(o) : i \in DOMAIN o /\ i # 1
  BY <1>1
<1>4. \A kind : \A i \in KindIn(o, kind) : kind # "start" => i \in 2..Len(o) /\ o[i].kind = kind
  BY <1>1, <1>2 DEF KindIn
<1>5. \A kind, n : \A i \in BlockIn(o, kind, n) :
        kind # "start" => i \in 2..Len(o) /\ o[i].kind = kind /\ o[i].index = n
  BY <1>4 DEF BlockIn
<1>6. \A kind, n : \A i \in 2..Len(o) :
        o[i].kind = kind /\ o[i].index = n => i \in BlockIn(o, kind, n)
  BY <1>3 DEF KindIn, BlockIn
<1> QED
  BY <1>1, <1>2, <1>3, <1>4, <1>5, <1>6 DEF KindsOf

LEMMA DraftFormed ==
  ASSUME NEW r, NEW o, Draft(r, o)
  PROVE  Formed(o) /\ KindIn(o, "stop") = {}
<1>1. /\ Started(o) /\ InBlocks(o, r.open) /\ OpenedBefore(o)
  BY DEF Draft
<1>2. KindsOf(o)
  BY <1>1, KindsAre
<1>3. \A i \in 2..Len(o) : o[i].kind \in {"open", "delta"}
  BY <1>1 DEF InBlocks
<1>4. KindIn(o, "stop") = {} /\ KindIn(o, "end") = {} /\ \A n : BlockIn(o, "close", n) = {}
  BY <1>2, <1>3 DEF KindsOf
<1>5. \A i \in DOMAIN o : o[i].kind = "start" <=> i = 1
  BY <1>2, <1>3 DEF KindsOf
<1>6. ASSUME NEW i \in KindIn(o, "delta")
      PROVE  \E j \in BlockIn(o, "open", o[i].index) : j < i
  <2>1. i \in 2..Len(o) /\ o[i].kind = "delta"
    BY <1>2 DEF KindsOf
  <2>2. PICK j \in 2..Len(o) : j < i /\ Opens(o[j], o[i].index)
    BY <1>1, <2>1 DEF OpenedBefore
  <2>3. j \in BlockIn(o, "open", o[i].index)
    BY <1>2, <2>2 DEF KindsOf, Opens
  <2> QED
    BY <2>2, <2>3
<1> QED
  BY <1>4, <1>5, <1>6 DEF Formed

LEMMA OneInBlock ==
  ASSUME NEW B, NEW j \in B, \A k \in B : k = j
  PROVE  Cardinality(B) = 1
<1>1. B = {j}
  OBVIOUS
<1> QED
  BY <1>1, FS_Singleton

LEMMA WholeFormed ==
  ASSUME NEW o, NEW n, Whole(o, n)
  PROVE  Formed(o)
<1>1. /\ o \in Seq(MsgEvents) /\ n \in 2..Len(o) /\ o[1].kind = "start"
      /\ \A i \in 2..Len(o) : i < n => o[i].kind \in {"open", "delta", "close"}
      /\ \A i \in 2..Len(o) : i > n => o[i].kind = "end"
      /\ o[n].kind = "stop"
      /\ AddedWithin(o) /\ Paired(o)
  BY DEF Whole, Stopped
<1>2. KindsOf(o)
  <2>1. Started(o)
    BY <1>1 DEF Started
  <2> QED
    BY <2>1, KindsAre
<1>3. \A i \in 2..Len(o) : i < n \/ i = n \/ i > n
  BY <1>1
<1>4. \A i \in 2..Len(o) : o[i].kind # "start" /\ (o[i].kind = "stop" => i = n)
  BY <1>1, <1>3
<1>5. \A i \in DOMAIN o : o[i].kind = "start" <=> i = 1
  BY <1>2, <1>4 DEF KindsOf
<1>6. \A i \in KindIn(o, "stop") : i = n
  BY <1>2, <1>4 DEF KindsOf
<1>7. Cardinality(KindIn(o, "stop")) = 1
  <2>1. n \in KindIn(o, "stop")
    BY <1>1, <1>2 DEF KindsOf, KindIn
  <2> QED
    BY <1>6, <2>1, OneInBlock
<1>8. \A j \in DOMAIN o : j > n => o[j].kind = "end"
  <2>1. ~(1 > n)
    BY <1>1
  <2> QED
    BY <1>1, <1>2, <2>1 DEF KindsOf
<1>9. ASSUME NEW i \in KindIn(o, "delta")
      PROVE  /\ \E j \in BlockIn(o, "open", o[i].index) : j < i
             /\ \A j \in BlockIn(o, "close", o[i].index) : i < j
  <2>1. i \in 2..Len(o) /\ o[i].kind = "delta"
    BY <1>2 DEF KindsOf
  <2>2. /\ \E j \in 2..Len(o) : j < i /\ Opens(o[j], o[i].index)
        /\ \A j \in 2..Len(o) : Closes(o[j], o[i].index) => i < j
    BY <1>1, <2>1 DEF AddedWithin
  <2>3. \E j \in BlockIn(o, "open", o[i].index) : j < i
    BY <1>2, <2>2 DEF KindsOf, Opens
  <2>4. \A j \in BlockIn(o, "close", o[i].index) : i < j
    BY <1>2, <2>2 DEF KindsOf, Closes
  <2> QED
    BY <2>3, <2>4
<1>10. ASSUME NEW i \in KindIn(o, "open")
       PROVE  Cardinality(BlockIn(o, "close", o[i].index)) = 1
  <2>1. i \in 2..Len(o) /\ o[i].kind = "open"
    BY <1>2 DEF KindsOf
  <2>2. PICK j \in 2..Len(o) : \A k \in 2..Len(o) : Closes(o[k], o[i].index) <=> k = j
    BY <1>1, <2>1 DEF Paired
  <2>3. j \in BlockIn(o, "close", o[i].index)
    BY <1>2, <2>2 DEF KindsOf, Closes
  <2>4. \A k \in BlockIn(o, "close", o[i].index) : k = j
    BY <1>2, <2>2 DEF KindsOf, Closes
  <2> QED
    BY <2>3, <2>4, OneInBlock
<1>11. ASSUME NEW i \in KindIn(o, "close")
       PROVE  Cardinality(BlockIn(o, "open", o[i].index)) = 1
  <2>1. i \in 2..Len(o) /\ o[i].kind = "close"
    BY <1>2 DEF KindsOf
  <2>2. PICK j \in 2..Len(o) : \A k \in 2..Len(o) : Opens(o[k], o[i].index) <=> k = j
    BY <1>1, <2>1 DEF Paired
  <2>3. j \in BlockIn(o, "open", o[i].index)
    BY <1>2, <2>2 DEF KindsOf, Opens
  <2>4. \A k \in BlockIn(o, "open", o[i].index) : k = j
    BY <1>2, <2>2 DEF KindsOf, Opens
  <2> QED
    BY <2>3, <2>4, OneInBlock
<1> QED
  BY <1>5, <1>6, <1>7, <1>8, <1>9, <1>10, <1>11 DEF Formed

LEMMA EmptyFormed == Formed(<<>>) /\ KindIn(<<>>, "stop") = {}
<1>1. PICK o : o = <<>>
  OBVIOUS
<1>2. DOMAIN o = {}
  BY <1>1
<1>3. \A kind : KindIn(o, kind) = {}
  BY <1>2 DEF KindIn
<1> QED
  BY <1>1, <1>2, <1>3 DEF Formed

LEMMA MessageFormed == MsgInv => WellFormed
<1> SUFFICES ASSUME MsgInv PROVE Formed(out)
  BY FormedIs
<1>1. CASE MsgReady(given, res, out)
  BY <1>1, EmptyFormed DEF MsgReady
<1>2. CASE MsgOpen(given, res, out)
  BY <1>2, DraftFormed DEF MsgOpen
<1>3. CASE MsgOver(given, res, out)
  BY <1>3, WholeFormed DEF MsgOver
<1> QED
  BY <1>1, <1>2, <1>3 DEF MsgInv

(* For any tool calls and any number of pieces of text, in whatever mixture  *)
(* of fragments and snapshots they come and wherever the answer breaks off:  *)
(* an Anthropic client gets one well-formed message (anthropic-gateway.js,   *)
(* AnthropicStreamResponse).                                                 *)
THEOREM MessagesAreWellFormed == Message!Spec => []WellFormed
<1>1. MsgInv /\ [Message!Next]_Message!vars => MsgInv'
  BY MessageKept DEF Message!vars, mVars
<1> QED
  BY <1>1, MessageStarts, MessageFormed, PTL DEF Message!Spec

HelpsIn(o)    == {i \in KindIn(o, "delta") : o[i].what = <<"help">>}
OpensIn(o, c) == {i \in KindIn(o, "open") : o[i].what = c}

GivenOnce(o, order, sent) ==
  /\ Cardinality(HelpsIn(o)) + Cardinality(UNION {OpensIn(o, c) : c \in Calls}) = Len(order)
  /\ \A c \in Calls : \A i \in OpensIn(o, c) :
       /\ OpensIn(o, c) = {i}
       /\ o[i + 1] = Message!Event("delta", o[i].index, SubSeq(Parts, 1, sent[c]))

LEMMA GivenOnceIs ==
  ASSUME KindIn(out, "stop") = {} \/ GivenOnce(out, given.order, given.sent)
  PROVE  CallsGivenOnce
<1>1. \A kind : Message!Of(kind) = KindIn(out, kind)
  BY DEF Message!Of, KindIn
<1>2. Message!Fragments = Parts
  BY DEF Message!Fragments, Parts
<1>3. CASE KindIn(out, "stop") = {}
  BY <1>1, <1>3 DEF CallsGivenOnce, Message!CallsGivenOnce
<1>4. CASE GivenOnce(out, given.order, given.sent)
  <2>1. {i \in Message!Of("delta") : out[i].what = <<"help">>} = HelpsIn(out)
    BY <1>1 DEF HelpsIn
  <2>2. \A c : {i \in Message!Of("open") : out[i].what = c} = OpensIn(out, c)
    BY <1>1 DEF OpensIn
  <2>3. UNION {{i \in Message!Of("open") : out[i].what = c} : c \in Calls}
          = UNION {OpensIn(out, c) : c \in Calls}
    BY <2>2
  <2>4. Cardinality(HelpsIn(out)) + Cardinality(UNION {OpensIn(out, c) : c \in Calls})
          = Len(given.order)
    BY <1>4 DEF GivenOnce
  <2>5. Message!Cardinality({i \in Message!Of("delta") : out[i].what = <<"help">>})
          + Message!Cardinality(UNION {{i \in Message!Of("open") : out[i].what = c} : c \in Calls})
          = Len(given.order)
    BY <2>1, <2>3, <2>4, MessageCard
  <2>6. ASSUME NEW c \in Calls, NEW i \in {k \in Message!Of("open") : out[k].what = c}
        PROVE  /\ {k \in Message!Of("open") : out[k].what = c} = {i}
               /\ out[i + 1] = Message!Event("delta", out[i].index,
                                 SubSeq(Message!Fragments, 1, given.sent[c]))
    <3>1. i \in OpensIn(out, c)
      BY <2>2, <2>6
    <3>2. /\ OpensIn(out, c) = {i}
          /\ out[i + 1] = Message!Event("delta", out[i].index, SubSeq(Parts, 1, given.sent[c]))
      BY <1>4, <3>1 DEF GivenOnce
    <3> QED
      BY <1>2, <2>2, <3>2
  <2> QED
    BY <2>5, <2>6 DEF CallsGivenOnce, Message!CallsGivenOnce
<1> QED
  BY <1>3, <1>4

(* one block is opened for each call that is given *)
LEMMA HandledOnce ==
  ASSUME NEW o, DOMAIN o = 1..Len(o), NEW s, NEW order, NEW sent,
         Handled(o, s), Ordered(s, order, sent)
  PROVE  GivenOnce(o, order, sent)
<1>1. HelpsIn(o) = Helps(o)
  BY DEF HelpsIn, KindIn, Helps, IsHelp
<1>2. \A c \in Calls : \A i \in OpensIn(o, c) : i \in Givings(o) /\ o[i].what = c
  BY DEF OpensIn, KindIn, Givings, IsGift
<1>3. \A i \in Givings(o) : o[i].what \in Calls /\ i \in OpensIn(o, o[i].what)
  BY DEF OpensIn, KindIn, Givings, IsGift
<1>4. UNION {OpensIn(o, c) : c \in Calls} = Givings(o)
  <2>1. \A i \in UNION {OpensIn(o, c) : c \in Calls} : i \in Givings(o)
    BY <1>2
  <2>2. \A i \in Givings(o) : i \in UNION {OpensIn(o, c) : c \in Calls}
    BY <1>3
  <2> QED
    BY <2>1, <2>2
<1>5. /\ Cardinality(Helps(o)) + Cardinality(Givings(o)) = Len(s)
      /\ \A i \in Givings(o) : \E k \in 1..Len(s) : Gives(o, i, s[k])
      /\ \A i, j \in Givings(o) : o[i].what = o[j].what => i = j
  BY DEF Handled
<1>6. /\ Len(s) = Len(order)
      /\ \A k \in 1..Len(s) : s[k].id \in Calls /\ s[k].args = SubSeq(Parts, 1, sent[s[k].id])
  BY DEF Ordered
<1>7. ASSUME NEW c \in Calls, NEW i \in OpensIn(o, c)
      PROVE  /\ OpensIn(o, c) = {i}
             /\ o[i + 1] = Message!Event("delta", o[i].index, SubSeq(Parts, 1, sent[c]))
  <2>1. i \in Givings(o) /\ o[i].what = c
    BY <1>2, <1>7
  <2>2. \A j \in OpensIn(o, c) : j = i
    BY <1>2, <1>5, <2>1
  <2>3. PICK k \in 1..Len(s) : Gives(o, i, s[k])
    BY <1>5, <2>1
  <2>4. s[k].id = c /\ s[k].args = SubSeq(Parts, 1, sent[c])
    BY <1>6, <2>1, <2>3 DEF Gives
  <2> QED
    BY <1>7, <2>2, <2>3, <2>4 DEF Gives
<1> QED
  BY <1>1, <1>4, <1>5, <1>6, <1>7 DEF GivenOnce

LEMMA MessageGives == MsgInv => CallsGivenOnce
<1> SUFFICES ASSUME MsgInv PROVE CallsGivenOnce
  OBVIOUS
<1>1. CASE MsgReady(given, res, out)
  BY <1>1, EmptyFormed, GivenOnceIs DEF MsgReady
<1>2. CASE MsgOpen(given, res, out)
  BY <1>2, DraftFormed, GivenOnceIs DEF MsgOpen
<1>3. CASE MsgOver(given, res, out)
  <2>1. PICK s : Ordered(s, given.order, given.sent) /\ Handled(out, s)
    BY <1>3 DEF MsgOver
  <2>2. DOMAIN out = 1..Len(out)
    BY <1>3 DEF MsgOver, Whole, Stopped
  <2> QED
    BY <2>1, <2>2, HandledOnce, GivenOnceIs
<1> QED
  BY <1>1, <1>2, <1>3 DEF MsgInv

(* Each tool call that was written is given once, with the arguments that    *)
(* were sent for it and right after its block is opened, or explained in     *)
(* text, for any calls and in whatever mixture of fragments and snapshots    *)
(* (anthropic-gateway.js, _rememberToolDelta, _flushPendingTools).           *)
THEOREM CallsAreGivenOnce == Message!Spec => []CallsGivenOnce
<1>1. MsgInv /\ [Message!Next]_Message!vars => MsgInv'
  BY MessageKept DEF Message!vars, mVars
<1> QED
  BY <1>1, MessageStarts, MessageGives, PTL DEF Message!Spec
=============================================================================
