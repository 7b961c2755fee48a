---------------------------- MODULE EventsProofs ----------------------------
(***************************************************************************)
(* The events of a response, for any number of pieces of text, any calls   *)
(* of any kind, and wherever the answer ends: they come in order, and what *)
(* completes the response is what was written.  The invariant says what    *)
(* the events so far, the translator and what was written have to do with  *)
(* each other; a lemma for each helper of the translator says how a step   *)
(* of several events keeps that.                                           *)
(***************************************************************************)
EXTENDS AnswerStreams, Inductions

-----------------------------------------------------------------------------
(* Events of a response.  A log is what the client got before the answer is  *)
(* completed: which items are in it, which of them are done, and at which    *)
(* index.                                                                    *)

Items  == Calls \union {"message"}
Words  == Nat \union {"head", "tail", "discovery"}
Spoken == Seq(Words)
Entry  == [id : Calls, index : Nat, done : BOOLEAN, args : Spoken]

Mocks ==
  [status : {"none", "ok", "error"}, said : Spoken, deferred : Spoken, held : Spoken,
   calls : Seq(Entry), ended : BOOLEAN]

Reasons == {"none", "stop", "tool_calls", "length", "over"}

Givens ==
  [codex : BOOLEAN, kind : [Calls -> {"function", "custom", "virtual"}], order : Seq(Calls),
   sent : [Calls -> 0..2], texts : Nat, reason : Reasons]

LogEvents ==
  [kind : {"created", "added", "delta", "done"}, item : Items \union {"response"},
   index : Nat, what : Spoken]

(* after the first, every event is about an item that is in the log *)
LogTyped(o) ==
  /\ o \in Seq(LogEvents) /\ Len(o) >= 1
  /\ o[1].kind = "created" /\ o[1].item = "response"

About(o, here, over, at) ==
  \A i \in 2..Len(o) :
    /\ o[i].kind \in {"added", "delta", "done"} /\ o[i].item \in here
    /\ o[i].index = at[o[i].item]
    /\ o[i].kind = "done" => o[i].item \in over

Added(o, here) ==
  \A x \in here : \E i \in 2..Len(o) : o[i].item = x /\ o[i].kind = "added"

Closed(o, over) ==
  \A x \in over : \E i \in 2..Len(o) : o[i].item = x /\ o[i].kind = "done"

(* an item is added first, and done last *)
Framed(o) ==
  \A i, j \in 2..Len(o) :
    i < j /\ o[i].item = o[j].item => o[j].kind # "added" /\ o[i].kind # "done"

Distinct(o, apart) ==
  \A i, j \in 2..Len(o) :
    i < j /\ o[i].kind = "added" /\ o[j].kind = "added" /\ (o[j].item # "message" \/ apart)
      => o[i].index # o[j].index

Log(o, here, over, at, apart) ==
  /\ here \subseteq Items /\ over \subseteq here /\ at \in [Items -> Nat]
  /\ LogTyped(o) /\ About(o, here, over, at)
  /\ Added(o, here) /\ Closed(o, over) /\ Framed(o) /\ Distinct(o, apart)

(* what the deltas of an item say *)
Told == {e \in [kind : {"created", "added", "delta", "done", "completed"},
                item : Items \union {"response"}, index : Nat,
                what : Spoken \union [text : Spoken, calls : Seq(Entry)]] :
           e.kind = "delta" => e.what \in Spoken}

Telling(item) ==
  [p \in Spoken \X Told |->
     IF p[2].item = item /\ p[2].kind = "delta" THEN p[1] \o p[2].what ELSE p[1]]

Say(o, item) == Stepwise(Telling(item), <<>>, o)

-----------------------------------------------------------------------------
(* What the translator holds against what was written.                       *)

Ids(m) == {m.calls[i].id : i \in DOMAIN m.calls}
Here(m) == Ids(m) \union (IF m.said # <<>> THEN {"message"} ELSE {})
At(m) ==
  [x \in Items |->
     IF x \in Ids(m) THEN m.calls[CHOOSE i \in DOMAIN m.calls : m.calls[i].id = x].index
     ELSE 0]

Parts == <<"head", "tail">>
ArgsOf(g, c) ==
  IF g.kind[c] = "virtual" THEN <<"discovery">> ELSE SubSeq(Parts, 1, g.sent[c])

Numbered(g, m) ==
  /\ Len(m.calls) = Len(g.order)
  /\ \A i \in 1..Len(g.order) :
       /\ m.calls[i].id = g.order[i] /\ m.calls[i].args = ArgsOf(g, g.order[i])
       /\ m.calls[i].index <= i
       /\ m.said = <<>> => m.calls[i].index = i - 1
  /\ \A i, j \in 1..Len(g.order) : g.order[i] = g.order[j] => i = j
  /\ \A c \in Calls : g.sent[c] = 0 <=> \A i \in 1..Len(g.order) : g.order[i] # c

Saying(g, m, o) ==
  /\ Say(o, "message") = m.said
  /\ \A c \in Calls : g.kind[c] = "function" => Say(o, c) = SubSeq(Parts, 1, g.sent[c])

Mid(g, m, o, over) ==
  /\ g \in Givens /\ m \in Mocks
  /\ Numbered(g, m) /\ Saying(g, m, o)
  /\ g.codex /\ m.said # <<>> => m.calls = <<>>
  /\ Log(o, Here(m), over, At(m), g.codex)

All(n) == [i \in 1..n |-> i]

Worded(g, m) ==
  /\ ~g.codex => m.deferred = <<>> /\ m.said \o m.held = All(g.texts)
  /\ g.codex =>
       /\ m.held = <<>>
       /\ g.order # <<>> => m.said = <<>>
       /\ g.order = <<>> => m.said \o m.deferred = All(g.texts)
       /\ g.reason = "none" => m.said = <<>>
  /\ g.reason # "none" => m.held = <<>>
  /\ g.reason \notin {"none", "over"} => m.deferred = <<>>

MessageOver(g, m) == g.reason \in {"stop", "tool_calls"} /\ m.said # <<>>

Over(g, m) ==
  (IF g.reason = "none" THEN {} ELSE Ids(m))
    \union (IF MessageOver(g, m) THEN {"message"} ELSE {})

Running(g, m, o) ==
  /\ m.status = "ok" /\ ~m.ended
  /\ Mid(g, m, o, Over(g, m)) /\ Worded(g, m)
  /\ \A i \in DOMAIN m.calls : m.calls[i].done <=> g.reason # "none"

Grown(q, o, e) ==
  /\ LogTyped(q) /\ Len(o) \in Nat /\ Len(o) >= 1 /\ Len(q) = Len(o) + 1
  /\ q[Len(o) + 1] = e
  /\ \A i \in 1..Len(o) : q[i] = o[i]

LEMMA Longer ==
  ASSUME NEW o, LogTyped(o), NEW e \in LogEvents
  PROVE  Grown(Append(o, e), o, e)
<1>1. o \in Seq(LogEvents) /\ Len(o) \in Nat /\ Len(o) >= 1
  BY DEF LogTyped
<1>2. PICK q : q = Append(o, e)
  OBVIOUS
<1>3. /\ q \in Seq(LogEvents) /\ Len(q) = Len(o) + 1 /\ q[Len(o) + 1] = e
      /\ \A i \in 1..Len(o) : q[i] = o[i]
  BY <1>1, <1>2, AppendProperties
<1> QED
  BY <1>1, <1>2, <1>3 DEF LogTyped, Grown

(* places of the longer log *)
LEMMA Places ==
  ASSUME NEW n \in Nat, n >= 1
  PROVE  /\ \A i \in 2..n : i \in 2..(n + 1) /\ i \in 1..n /\ i < n + 1
         /\ n + 1 \in 2..(n + 1)
         /\ \A i \in 2..(n + 1) : i \in 2..n \/ i = n + 1
OBVIOUS

LEMMA LogAdds ==
  ASSUME NEW o, NEW here, NEW over, NEW at, NEW apart, Log(o, here, over, at, apart),
         NEW e \in LogEvents, e.kind = "added", e.item \in Items \ here,
         NEW to \in [Items -> Nat], \A y \in here : to[y] = at[y], to[e.item] = e.index,
         e.item # "message" \/ apart => \A y \in here : at[y] # e.index
  PROVE  Log(Append(o, e), here \union {e.item}, over, to, apart)
<1>1. PICK q, n : q = Append(o, e) /\ n = Len(o)
  OBVIOUS
<1>2. /\ LogTyped(o) /\ About(o, here, over, at) /\ Added(o, here) /\ Closed(o, over)
      /\ Framed(o) /\ Distinct(o, apart) /\ here \subseteq Items /\ over \subseteq here
  BY DEF Log
<1>3. /\ LogTyped(q) /\ n \in Nat /\ n >= 1 /\ Len(q) = n + 1 /\ q[n + 1] = e
      /\ \A i \in 1..n : q[i] = o[i]
  <2>1. Grown(q, o, e)
    BY <1>1, <1>2, Longer
  <2> QED
    BY <1>1, <2>1 DEF Grown
<1>4. /\ \A i \in 2..n : i \in 2..(n + 1) /\ i \in 1..n /\ i < n + 1 /\ q[i] = o[i]
      /\ n + 1 \in 2..(n + 1)
      /\ \A i \in 2..(n + 1) : i \in 2..n \/ i = n + 1
  BY <1>3, Places
<1>5. \A i \in 2..n : o[i].item \in here /\ o[i].item # e.item /\ o[i].index = at[o[i].item]
  BY <1>1, <1>2 DEF About
<1>6. About(q, here \union {e.item}, over, to)
  BY <1>1, <1>2, <1>3, <1>4 DEF About
<1>7. Added(q, here \union {e.item})
  BY <1>1, <1>2, <1>3, <1>4 DEF Added
<1>8. Closed(q, over)
  BY <1>1, <1>2, <1>3, <1>4 DEF Closed
<1>9. Framed(q)
  <2> SUFFICES ASSUME NEW i \in 2..(n + 1), NEW j \in 2..(n + 1), i < j, q[i].item = q[j].item
               PROVE  q[j].kind # "added" /\ q[i].kind # "done"
    BY <1>3 DEF Framed
  <2>1. i \in 2..n
    BY <1>3, <1>4
  <2>2. j \in 2..n
    BY <1>3, <1>4, <1>5, <2>1
  <2> QED
    BY <1>1, <1>2, <1>4, <2>1, <2>2 DEF Framed
<1>10. Distinct(q, apart)
  <2> SUFFICES ASSUME NEW i \in 2..(n + 1), NEW j \in 2..(n + 1), i < j,
                      q[i].kind = "added", q[j].kind = "added", q[j].item # "message" \/ apart
               PROVE  q[i].index # q[j].index
    BY <1>3 DEF Distinct
  <2>1. i \in 2..n
    BY <1>3, <1>4
  <2>2. CASE j \in 2..n
    BY <1>1, <1>2, <1>4, <2>1, <2>2 DEF Distinct
  <2>3. CASE j = n + 1
    BY <1>3, <1>4, <1>5, <2>1, <2>3
  <2> QED
    BY <1>4, <2>2, <2>3
<1> QED
  BY <1>1, <1>2, <1>3, <1>6, <1>7, <1>8, <1>9, <1>10 DEF Log

(* a delta, or the end, of an item that is in the log and not done *)
LEMMA LogGoesOn ==
  ASSUME NEW o, NEW here, NEW over, NEW at, NEW apart, Log(o, here, over, at, apart),
         NEW e \in LogEvents, e.kind \in {"delta", "done"}, e.item \in here \ over,
         e.index = at[e.item],
         NEW past, past = over \union (IF e.kind = "done" THEN {e.item} ELSE {})
  PROVE  Log(Append(o, e), here, past, at, apart)
<1>1. PICK q, n : q = Append(o, e) /\ n = Len(o)
  OBVIOUS
<1>2. /\ LogTyped(o) /\ About(o, here, over, at) /\ Added(o, here) /\ Closed(o, over)
      /\ Framed(o) /\ Distinct(o, apart) /\ here \subseteq Items /\ over \subseteq here
      /\ at \in [Items -> Nat]
  BY DEF Log
<1>3. /\ LogTyped(q) /\ n \in Nat /\ n >= 1 /\ Len(q) = n + 1 /\ q[n + 1] = e
      /\ \A i \in 1..n : q[i] = o[i]
  <2>1. Grown(q, o, e)
    BY <1>1, <1>2, Longer
  <2> QED
    BY <1>1, <2>1 DEF Grown
<1>4. /\ \A i \in 2..n : i \in 2..(n + 1) /\ i \in 1..n /\ i < n + 1 /\ q[i] = o[i]
      /\ n + 1 \in 2..(n + 1)
      /\ \A i \in 2..(n + 1) : i \in 2..n \/ i = n + 1
  BY <1>3, Places
<1>5. \A i \in 2..n : o[i].kind = "done" => o[i].item # e.item
  BY <1>1, <1>2 DEF About
<1>6. About(q, here, past, at)
  BY <1>1, <1>2, <1>3, <1>4 DEF About
<1>7. Added(q, here)
  BY <1>1, <1>2, <1>3, <1>4 DEF Added
<1>8. Closed(q, past)
  BY <1>1, <1>2, <1>3, <1>4 DEF Closed
<1>9. Framed(q)
  <2> SUFFICES ASSUME NEW i \in 2..(n + 1), NEW j \in 2..(n + 1), i < j, q[i].item = q[j].item
               PROVE  q[j].kind # "added" /\ q[i].kind # "done"
    BY <1>3 DEF Framed
  <2>1. i \in 2..n
    BY <1>3, <1>4
  <2>2. CASE j \in 2..n
    BY <1>1, <1>2, <1>4, <2>1, <2>2 DEF Framed
  <2>3. CASE j = n + 1
    BY <1>3, <1>4, <1>5, <2>1, <2>3
  <2> QED
    BY <1>4, <2>2, <2>3
<1>10. Distinct(q, apart)
  <2> SUFFICES ASSUME NEW i \in 2..(n + 1), NEW j \in 2..(n + 1), i < j,
                      q[i].kind = "added", q[j].kind = "added", q[j].item # "message" \/ apart
               PROVE  q[i].index # q[j].index
    BY <1>3 DEF Distinct
  <2>1. i \in 2..n
    BY <1>3, <1>4
  <2>2. j \in 2..n
    BY <1>3, <1>4
  <2> QED
    BY <1>1, <1>2, <1>4, <2>1, <2>2 DEF Distinct
<1>11. past \subseteq here
  BY <1>2
<1> QED
  BY <1>1, <1>2, <1>3, <1>6, <1>7, <1>8, <1>9, <1>10, <1>11 DEF Log

LEMMA LogMoved ==
  ASSUME NEW o, NEW here, NEW over, NEW at, NEW apart, Log(o, here, over, at, apart),
         NEW to \in [Items -> Nat], \A y \in here : to[y] = at[y]
  PROVE  Log(o, here, over, to, apart)
<1>1. About(o, here, over, to)
  BY DEF Log, About
<1> QED
  BY <1>1 DEF Log

LEMMA LogStarts ==
  ASSUME NEW e \in LogEvents, e.kind = "created", e.item = "response", NEW apart,
         NEW at \in [Items -> Nat]
  PROVE  Log(<<e>>, {}, {}, at, apart)
<1>1. PICK q : q = <<e>>
  OBVIOUS
<1>2. q \in Seq(LogEvents) /\ Len(q) = 1 /\ q[1] = e /\ 2..Len(q) = {}
  BY <1>1
<1> QED
  BY <1>1, <1>2 DEF Log, LogTyped, About, Added, Closed, Framed, Distinct

-----------------------------------------------------------------------------
(* What is said.                                                             *)

LEMMA TellingType ==
  ASSUME NEW x
  PROVE  <<>> \in Spoken /\ Telling(x) \in [Spoken \X Told -> Spoken]
<1>1. \A p \in Spoken \X Told : p[1] \in Spoken /\ (p[2].kind = "delta" => p[2].what \in Spoken)
  BY DEF Told
<1>2. \A s, t \in Spoken : s \o t \in Spoken
  BY DEF Spoken
<1>3. <<>> \in Spoken
  BY DEF Spoken
<1> QED
  BY <1>1, <1>2, <1>3 DEF Telling

LEMMA LogIsTold == LogEvents \subseteq Told /\ \A o \in Seq(LogEvents) : o \in Seq(Told)
<1>1. ASSUME NEW e \in LogEvents PROVE e \in Told
  <2>1. PICK W : W = Spoken \union [text : Spoken, calls : Seq(Entry)]
    OBVIOUS
  <2>2. e.what \in Spoken /\ Spoken \subseteq W
    BY <2>1 DEF LogEvents
  <2>5. e.kind \in {"created", "added", "delta", "done"}
    BY DEF LogEvents
  <2>4. /\ e = [kind |-> e.kind, item |-> e.item, index |-> e.index, what |-> e.what]
        /\ e.item \in Items \union {"response"} /\ e.index \in Nat
    BY DEF LogEvents
  <2>6. e.kind \in {"created", "added", "delta", "done", "completed"}
    BY <2>5
  <2>3. e \in [kind : {"created", "added", "delta", "done", "completed"},
               item : Items \union {"response"}, index : Nat, what : W]
    BY <2>2, <2>4, <2>6
  <2> QED
    BY <2>1, <2>2, <2>3 DEF Told
<1> QED
  BY <1>1

LEMMA SayNothing == \A x : Say(<<>>, x) = <<>>
<1> SUFFICES ASSUME NEW x PROVE Say(<<>>, x) = <<>>
  OBVIOUS
<1>1. PICK V, step : V = Spoken /\ step = Telling(x)
  OBVIOUS
<1>2. <<>> \in V /\ step \in [V \X Told -> V]
  BY <1>1, TellingType
<1>3. Stepwise(step, <<>>, <<>>) = <<>>
  BY <1>2, StepwiseEmpty
<1> QED
  BY <1>1, <1>3 DEF Say

LEMMA SayAppend ==
  ASSUME NEW o \in Seq(Told), NEW e \in Told, NEW x
  PROVE  /\ Say(o, x) \in Spoken
         /\ Say(Append(o, e), x) =
              IF e.item = x /\ e.kind = "delta" THEN Say(o, x) \o e.what ELSE Say(o, x)
<1>1. PICK V, step : V = Spoken /\ step = Telling(x)
  OBVIOUS
<1>2. <<>> \in V /\ step \in [V \X Told -> V]
  BY <1>1, TellingType
<1>3. GoesOnWith(step, <<>>, V, o, e)
  BY <1>2, StepwiseAppend
<1>4. PICK s : s = Say(o, x)
  OBVIOUS
<1>5. s \in Spoken /\ Say(Append(o, e), x) = Telling(x)[<<s, e>>]
  BY <1>1, <1>3, <1>4 DEF GoesOnWith, Say
<1>6. <<s, e>> \in Spoken \X Told
  BY <1>5
<1>7. Telling(x)[<<s, e>>] =
        IF e.item = x /\ e.kind = "delta" THEN s \o e.what ELSE s
  BY <1>6 DEF Telling
<1> QED
  BY <1>4, <1>5, <1>7

LEMMA SayAgain ==
  ASSUME NEW o \in Seq(Told), NEW d \in Seq(Told), NEW x,
         \A i \in 1..Len(d) : d[i].kind # "delta"
  PROVE  Say(o \o d, x) = Say(o, x)
<1> DEFINE Still(s) == \A i \in 1..Len(s) : s[i].kind # "delta"
           F == {s \in Seq(Told) : Still(s) => Say(o \o s, x) = Say(o, x)}
<1>1. <<>> \in F
  <2>1. o \o <<>> = o
    OBVIOUS
  <2> QED
    BY <2>1
<1>2. ASSUME NEW s \in Seq(Told), NEW e \in Told, s \in F PROVE Append(s, e) \in F
  <2>1. PICK t, n : t = Append(s, e) /\ n = Len(s)
    OBVIOUS
  <2>2. /\ t \in Seq(Told) /\ n \in Nat /\ Len(t) = n + 1 /\ t[n + 1] = e
        /\ \A i \in 1..n : t[i] = s[i]
    BY <2>1, AppendProperties
  <2>3. SUFFICES ASSUME Still(t) PROVE Say(o \o t, x) = Say(o, x)
    BY <2>1, <2>2
  <2>4. Still(s) /\ e.kind # "delta"
    <3>1. n + 1 \in 1..(n + 1) /\ \A i \in 1..n : i \in 1..(n + 1)
      BY <2>2
    <3> QED
      BY <2>1, <2>2, <2>3, <3>1
  <2>5. PICK l : l = o \o s
    OBVIOUS
  <2>6. l \in Seq(Told) /\ o \o t = Append(l, e)
    BY <2>1, <2>5
  <2>7. Say(Append(l, e), x) = Say(l, x)
    BY <2>4, <2>6, SayAppend
  <2> QED
    BY <1>2, <2>4, <2>5, <2>6, <2>7
<1>3. d \in F
  <2> HIDE DEF F
  <2> QED
    BY <1>1, <1>2, SeqInduction
<1> QED
  BY <1>3

LEMMA LogSays ==
  ASSUME NEW o, LogTyped(o), NEW e \in LogEvents, NEW x
  PROVE  /\ Say(o, x) \in Spoken
         /\ Say(Append(o, e), x) =
              IF e.item = x /\ e.kind = "delta" THEN Say(o, x) \o e.what ELSE Say(o, x)
<1>1. o \in Seq(Told) /\ e \in Told
  BY LogIsTold DEF LogTyped
<1> QED
  BY <1>1, SayAppend

-----------------------------------------------------------------------------
(* Steps of the translator.                                                  *)

LEMMA ConcatAppend ==
  ASSUME NEW X, NEW s \in Seq(X), NEW t \in Seq(X), NEW x \in X
  PROVE  s \o Append(t, x) = Append(s \o t, x)
OBVIOUS

LEMMA Chain ==
  ASSUME NEW X, NEW a \in Seq(X), NEW b \in Seq(X), NEW x \in X, NEW y \in X
  PROVE  /\ a \o (b \o <<x>>) = Append(a \o b, x)
         /\ a \o ((b \o <<>>) \o <<y>>) = Append(a \o b, y)
         /\ a \o ((b \o <<x>>) \o <<y>>) = Append(Append(a \o b, x), y)
<1>1. \A s \in Seq(X), z \in X : s \o <<z>> = Append(s, z) /\ Append(s, z) \in Seq(X)
  OBVIOUS
<1>2. ASSUME NEW s \in Seq(X), NEW t \in Seq(X), NEW z \in X
      PROVE  s \o Append(t, z) = Append(s \o t, z) /\ s \o t \in Seq(X)
  OBVIOUS
<1>3. b \o <<>> = b
  OBVIOUS
<1>4. PICK c \in Seq(X) : c = Append(b, x)
  BY <1>1
<1>5. a \o c = Append(a \o b, x)
  BY <1>2, <1>4
<1>6. a \o Append(b, y) = Append(a \o b, y)
  BY <1>2
<1>7. a \o Append(c, y) = Append(a \o c, y)
  BY <1>2
<1>8. b \o <<x>> = c /\ c \o <<y>> = Append(c, y) /\ b \o <<y>> = Append(b, y)
  BY <1>1, <1>4
<1> QED
  BY <1>3, <1>5, <1>6, <1>7, <1>8

LEMMA MockFacts ==
  ASSUME NEW m \in Mocks
  PROVE  /\ m.said \in Spoken /\ m.deferred \in Spoken /\ m.held \in Spoken
         /\ m.calls \in Seq(Entry) /\ m.ended \in BOOLEAN /\ m.status \in {"none", "ok", "error"}
BY DEF Mocks

Apart(m) == \A i, j \in DOMAIN m.calls : m.calls[i].id = m.calls[j].id => i = j

AtKnown(m) ==
  /\ At(m) \in [Items -> Nat] /\ At(m)["message"] = 0
  /\ \A i \in DOMAIN m.calls : At(m)[m.calls[i].id] = m.calls[i].index

LEMMA AtFacts ==
  ASSUME NEW m \in Mocks, Apart(m)
  PROVE  AtKnown(m) /\ Ids(m) \subseteq Calls /\ "message" \notin Ids(m)
<1>1. m.calls \in Seq(Entry)
  BY MockFacts
<1>2. \A i \in DOMAIN m.calls : m.calls[i].id \in Calls /\ m.calls[i].index \in Nat
  <2>1. \A i \in DOMAIN m.calls : m.calls[i] \in Entry
    BY <1>1
  <2> QED
    BY <2>1 DEF Entry
<1>3. Ids(m) \subseteq Calls /\ "message" \notin Ids(m) /\ Calls \subseteq Items /\ "message" \in Items
  BY <1>2, StreamsAssumption DEF Ids, Items
<1>4. \A x \in Ids(m) : LET i == CHOOSE i \in DOMAIN m.calls : m.calls[i].id = x
                        IN i \in DOMAIN m.calls /\ m.calls[i].id = x
  BY DEF Ids
<1>5. At(m) \in [Items -> Nat]
  BY <1>2, <1>4 DEF At
<1>6. At(m)["message"] = 0
  BY <1>3 DEF At
<1>7. ASSUME NEW i \in DOMAIN m.calls PROVE At(m)[m.calls[i].id] = m.calls[i].index
  <2>1. m.calls[i].id \in Ids(m) /\ m.calls[i].id \in Items
    BY <1>2 DEF Ids, Items
  <2>2. (CHOOSE j \in DOMAIN m.calls : m.calls[j].id = m.calls[i].id) = i
    BY <1>4, <2>1 DEF Apart
  <2> QED
    BY <2>1, <2>2 DEF At
<1> QED
  BY <1>3, <1>5, <1>6, <1>7 DEF AtKnown

LEMMA NumberedApart ==
  ASSUME NEW g, NEW m \in Mocks, Numbered(g, m)
  PROVE  Apart(m)
<1>1. DOMAIN m.calls = 1..Len(g.order)
  <2>1. DOMAIN m.calls = 1..Len(m.calls)
    BY MockFacts
  <2> QED
    BY <2>1 DEF Numbered
<1> QED
  BY <1>1 DEF Numbered, Apart

(* what the client does not see yet may change *)
LEMMA MidAside ==
  ASSUME NEW g, NEW m, NEW o, NEW over, Mid(g, m, o, over),
         NEW d \in Mocks, d.said = m.said, d.calls = m.calls
  PROVE  Mid(g, d, o, over)
<1>1. At(d) = At(m) /\ Here(d) = Here(m)
  BY DEF At, Here, Ids
<1>2. Numbered(g, d) /\ Saying(g, d, o)
  BY DEF Mid, Numbered, Saying
<1> QED
  BY <1>1, <1>2 DEF Mid

Emitted(g, m, o, text, over, s) ==
  /\ s.m = [m EXCEPT !.said = m.said \o text]
  /\ s.events \in Seq(LogEvents)
  /\ Mid(g, s.m, o \o s.events, over)

LEMMA EmitMid ==
  ASSUME NEW g, NEW m, NEW b \in Seq(LogEvents), NEW v \in Seq(LogEvents), NEW over,
         Mid(g, m, b \o v, over), NEW text \in Spoken,
         "message" \notin over \/ text = <<>>,
         g.codex => m.calls = <<>> \/ text = <<>>
  PROVE  Emitted(g, m, b, text, over, Events!Emit(Events!Step(m, v), text))
<1>1. PICK o : o = b \o v
  OBVIOUS
<1>2. PICK s : s = Events!Emit(Events!Step(m, v), text)
  OBVIOUS
<1>3. m \in Mocks /\ m.said \in Spoken /\ Mid(g, m, o, over)
  BY <1>1, MockFacts DEF Mid
<1>4. CASE text = <<>>
  <2>1. m.said \o text = m.said
    BY <1>3, <1>4 DEF Spoken
  <2>2. [m EXCEPT !.said = m.said] = m
    BY <1>3 DEF Mocks
  <2>3. s.m = m /\ s.events = v
    BY <1>2, <1>4 DEF Events!Emit, Events!Step
  <2> QED
    BY <1>1, <1>2, <1>3, <2>1, <2>2, <2>3 DEF Emitted
<1>5. CASE text # <<>>
  <2>1. PICK d : d = [m EXCEPT !.said = m.said \o text]
    OBVIOUS
  <2>2. /\ d \in Mocks /\ d.said = m.said \o text /\ d.calls = m.calls
        /\ d.said \in Spoken /\ d.said # <<>>
    <3>1. m.said \o text \in Spoken /\ m.said \o text # <<>>
      BY <1>3, <1>5 DEF Spoken
    <3> QED
      BY <1>3, <2>1, <3>1 DEF Mocks
  <2>3. PICK first : first = Events!Event("added", "message", 0, <<>>)
    OBVIOUS
  <2>4. PICK delta : delta = Events!Event("delta", "message", 0, text)
    OBVIOUS
  <2>5. /\ first \in LogEvents /\ first.kind = "added" /\ first.item = "message" /\ first.index = 0
        /\ delta \in LogEvents /\ delta.kind = "delta" /\ delta.item = "message"
        /\ delta.index = 0 /\ delta.what = text
    <3>1. <<>> \in Spoken
      BY DEF Spoken
    <3> QED
      BY <2>3, <2>4, <3>1 DEF Events!Event, LogEvents, Items
  <2>6. Numbered(g, m) /\ Apart(m)
    BY <1>3, NumberedApart DEF Mid
  <2>7. AtKnown(m) /\ Ids(m) \subseteq Calls /\ "message" \notin Ids(m)
    BY <1>3, <2>6, AtFacts
  <2>8. /\ At(d) = At(m) /\ Here(d) = Ids(m) \union {"message"}
        /\ "message" \notin over
    BY <1>5, <2>2 DEF At, Here, Ids
  <2>19. /\ delta \in LogEvents /\ delta.kind \in {"delta", "done"}
         /\ delta.item \in (Ids(m) \union {"message"}) \ over
         /\ delta.index = At(m)[delta.item]
         /\ over = over \union (IF delta.kind = "done" THEN {delta.item} ELSE {})
    BY <2>5, <2>7, <2>8 DEF AtKnown
  <2>9. PICK w \in Seq(LogEvents) :
          /\ s.m = d /\ s.events = (v \o w) \o <<delta>>
          /\ w = IF m.said = <<>> THEN <<first>> ELSE <<>>
    <3>1. PICK w : w = IF m.said = <<>> THEN <<first>> ELSE <<>>
      OBVIOUS
    <3>2. w \in Seq(LogEvents)
      BY <2>5, <3>1
    <3>3. s.m = d /\ s.events = (v \o w) \o <<delta>>
      BY <1>2, <1>5, <2>1, <2>3, <2>4, <3>1 DEF Events!Emit, Events!Step
    <3> QED
      BY <3>1, <3>2, <3>3
  <2>10. PICK q : q = b \o ((v \o w) \o <<delta>>)
    OBVIOUS
  <2>11. ASSUME m.said = <<>>
        PROVE  /\ Log(q, Here(d), over, At(d), g.codex)
               /\ \A x : Say(q, x) = IF x = "message" THEN Say(o, x) \o text ELSE Say(o, x)
    <3>1. PICK l : l = Append(o, first)
      OBVIOUS
    <3>2. q = Append(l, delta)
      BY <1>1, <2>5, <2>9, <2>10, <2>11, <3>1, Chain
    <3>3. Log(o, Ids(m), over, At(m), g.codex)
      BY <1>3, <2>11 DEF Mid, Here
    <3>4. Log(l, Ids(m) \union {"message"}, over, At(m), g.codex)
      <4>1. g.codex => Ids(m) = {}
        <5>1. g.codex => m.calls = <<>>
          BY <1>5
        <5>2. m.calls = <<>> => DOMAIN m.calls = {}
          OBVIOUS
        <5> QED
          BY <5>1, <5>2 DEF Ids
      <4>2. "message" \in Items \ Ids(m)
        BY <2>7 DEF Items
      <4> QED
        BY <2>5, <2>7, <3>1, <3>3, <4>1, <4>2, LogAdds DEF AtKnown
    <3>5. Log(q, Ids(m) \union {"message"}, over, At(m), g.codex)
      BY <2>19, <3>2, <3>4, LogGoesOn
    <3>6. LogTyped(o) /\ LogTyped(l)
      BY <3>3, <3>4 DEF Log
    <3>7. \A x : Say(l, x) = Say(o, x)
      BY <2>5, <3>1, <3>6, LogSays
    <3>8. \A x : Say(q, x) = IF x = "message" THEN Say(l, x) \o text ELSE Say(l, x)
      BY <2>5, <3>2, <3>6, LogSays
    <3> QED
      BY <2>8, <3>5, <3>7, <3>8
  <2>12. ASSUME m.said # <<>>
        PROVE  /\ Log(q, Here(d), over, At(d), g.codex)
               /\ \A x : Say(q, x) = IF x = "message" THEN Say(o, x) \o text ELSE Say(o, x)
    <3>1. q = Append(o, delta)
      BY <1>1, <2>5, <2>9, <2>10, <2>12, Chain
    <3>2. Log(o, Ids(m) \union {"message"}, over, At(m), g.codex)
      BY <1>3, <2>12 DEF Mid, Here
    <3>3. Log(q, Ids(m) \union {"message"}, over, At(m), g.codex)
      BY <2>19, <3>1, <3>2, LogGoesOn
    <3>4. LogTyped(o)
      BY <3>2 DEF Log
    <3>5. \A x : Say(q, x) = IF x = "message" THEN Say(o, x) \o text ELSE Say(o, x)
      BY <2>5, <3>1, <3>4, LogSays
    <3> QED
      BY <2>8, <3>3, <3>5
  <2>13. /\ Log(q, Here(d), over, At(d), g.codex)
         /\ \A x : Say(q, x) = IF x = "message" THEN Say(o, x) \o text ELSE Say(o, x)
    BY <2>8, <2>11, <2>12
  <2>14. Numbered(g, d)
    BY <2>2, <2>6 DEF Numbered
  <2>15. Saying(g, d, q)
    <3>1. \A c \in Calls : c # "message"
      BY StreamsAssumption
    <3> QED
      BY <1>3, <2>2, <2>13, <3>1 DEF Mid, Saying
  <2>16. g.codex => d.calls = <<>>
    BY <1>5, <2>2
  <2>17. Mid(g, d, q, over)
    BY <1>3, <2>2, <2>13, <2>14, <2>15, <2>16 DEF Mid
  <2>18. s.events \in Seq(LogEvents)
    BY <2>5, <2>9
  <2> QED
    BY <1>2, <2>1, <2>9, <2>10, <2>17, <2>18 DEF Emitted
<1> QED
  BY <1>4, <1>5

(* b is the log before the step, v the events of the step so far *)
LEMMA FlushMid ==
  ASSUME NEW g, NEW m, NEW b \in Seq(LogEvents), NEW v \in Seq(LogEvents), NEW over,
         Mid(g, m, b \o v, over), NEW text \in Spoken,
         "message" \notin over \/ m.held \o text = <<>>,
         g.codex => m.calls = <<>> \/ m.held \o text = <<>>
  PROVE  Emitted(g, [m EXCEPT !.held = <<>>], b, m.held \o text, over,
                 Events!Flush(Events!Step(m, v), text))
<1>1. PICK d : d = [m EXCEPT !.held = <<>>]
  OBVIOUS
<1>2. m \in Mocks /\ m.held \in Spoken
  BY MockFacts DEF Mid
<1>3. d \in Mocks /\ d.said = m.said /\ d.calls = m.calls
  <2>1. <<>> \in Spoken
    BY DEF Spoken
  <2> QED
    BY <1>1, <1>2, <2>1 DEF Mocks
<1>4. Mid(g, d, b \o v, over)
  BY <1>3, MidAside
<1>5. PICK t : t = m.held \o text
  OBVIOUS
<1>6. t \in Spoken
  BY <1>2, <1>5 DEF Spoken
<1>7. Emitted(g, d, b, t, over, Events!Emit(Events!Step(d, v), t))
  BY <1>3, <1>4, <1>5, <1>6, EmitMid
<1>8. Events!Flush(Events!Step(m, v), text) = Events!Emit(Events!Step(d, v), t)
  BY <1>1, <1>5 DEF Events!Flush, Events!Step
<1> QED
  BY <1>1, <1>5, <1>7, <1>8

AllText(g) == IF g.codex /\ g.order # <<>> THEN <<>> ELSE All(g.texts)

AllFlushed(g, m, o, over, s) ==
  /\ s.m \in Mocks /\ s.m.held = <<>> /\ s.m.deferred = <<>> /\ s.m.said = AllText(g)
  /\ s.m.calls = m.calls /\ s.m.status = m.status /\ s.m.ended = m.ended
  /\ m.held = <<>> /\ m.deferred = <<>> => s.m.said = m.said
  /\ s.events \in Seq(LogEvents)
  /\ Mid(g, s.m, o \o s.events, over)

LEMMA FlushedMid ==
  ASSUME NEW g, NEW m, NEW b \in Seq(LogEvents), NEW v \in Seq(LogEvents), NEW over,
         Mid(g, m, b \o v, over), Worded(g, m), g.codex = written.codex,
         "message" \notin over \/ (m.held = <<>> /\ m.deferred = <<>>)
  PROVE  AllFlushed(g, m, b, over, Events!Flushed(Events!Step(m, v)))
<1>1. /\ m \in Mocks /\ m.held \in Spoken /\ m.deferred \in Spoken /\ m.said \in Spoken
      /\ Numbered(g, m) /\ m.calls \in Seq(Entry) /\ g \in Givens
  BY MockFacts DEF Mid
<1>2. <<>> \in Spoken /\ \A t \in Spoken : t \o <<>> = t
  BY DEF Spoken
<1>3. m.calls # <<>> <=> g.order # <<>>
  <2>1. g.order \in Seq(Calls) /\ Len(m.calls) = Len(g.order)
    BY <1>1 DEF Givens, Numbered
  <2> QED
    BY <1>1, <2>1
<1>4. CASE ~g.codex
  <2>1. m.deferred = <<>> /\ m.said \o m.held = All(g.texts)
    BY <1>4 DEF Worded
  <2>2. PICK s : s = Events!Flush(Events!Step(m, v), <<>>)
    OBVIOUS
  <2>3. PICK d : d = [m EXCEPT !.held = <<>>]
    OBVIOUS
  <2>4. m.held \o <<>> = m.held
    BY <1>1, <1>2
  <2>5. Emitted(g, d, b, m.held, over, s)
    <3>1. Emitted(g, d, b, m.held \o <<>>, over, s)
      BY <1>2, <1>4, <2>1, <2>2, <2>3, <2>4, FlushMid
    <3> QED
      BY <2>4, <3>1
  <2>6. /\ d \in Mocks /\ d.said = m.said /\ d.held = <<>> /\ d.deferred = <<>>
        /\ d.calls = m.calls /\ d.status = m.status /\ d.ended = m.ended
    BY <1>1, <1>2, <2>1, <2>3 DEF Mocks
  <2>7. s.m = [d EXCEPT !.said = m.said \o m.held]
    BY <2>5, <2>6 DEF Emitted
  <2>8. m.said \o m.held \in Spoken
    BY <1>1 DEF Spoken
  <2>9. /\ s.m \in Mocks /\ s.m.said = All(g.texts) /\ s.m.held = <<>> /\ s.m.deferred = <<>>
        /\ s.m.calls = m.calls /\ s.m.status = m.status /\ s.m.ended = m.ended
    BY <2>1, <2>6, <2>7, <2>8 DEF Mocks
  <2>10. m.held = <<>> => s.m.said = m.said
    BY <1>1, <1>2, <2>1, <2>9
  <2>11. Events!Flushed(Events!Step(m, v)) = s
    BY <1>4, <2>2 DEF Events!Flushed
  <2> QED
    BY <1>4, <2>5, <2>9, <2>10, <2>11 DEF AllFlushed, Emitted, AllText
<1>5. CASE g.codex /\ g.order # <<>>
  <2>1. m.held = <<>> /\ m.said = <<>>
    BY <1>5 DEF Worded
  <2>2. PICK d : d = [m EXCEPT !.deferred = <<>>]
    OBVIOUS
  <2>3. /\ d \in Mocks /\ d.said = m.said /\ d.held = <<>> /\ d.deferred = <<>>
        /\ d.calls = m.calls /\ d.status = m.status /\ d.ended = m.ended
    BY <1>1, <1>2, <2>1, <2>2 DEF Mocks
  <2>4. Mid(g, d, b \o v, over)
    BY <2>3, MidAside
  <2>5. Events!Undeferred(Events!Step(m, v)) = Events!Step(d, v)
    BY <1>3, <1>5, <2>2 DEF Events!Undeferred, Events!Saw, Events!Step
  <2>6. PICK s : s = Events!Flush(Events!Step(d, v), <<>>)
    OBVIOUS
  <2>7. d.held \o <<>> = <<>>
    BY <2>3
  <2>8. Emitted(g, [d EXCEPT !.held = <<>>], b, d.held \o <<>>, over, s)
    BY <1>2, <2>4, <2>6, <2>7, FlushMid
  <2>9. [d EXCEPT !.held = <<>>] = d
    BY <2>3 DEF Mocks
  <2>10. s.m = [d EXCEPT !.said = d.said \o <<>>] /\ d.said \o <<>> = d.said
    BY <1>2, <2>3, <2>7, <2>8, <2>9, MockFacts DEF Emitted
  <2>11. s.m = d
    BY <2>3, <2>10 DEF Mocks
  <2>12. Events!Flushed(Events!Step(m, v)) = s
    BY <1>5, <2>5, <2>6 DEF Events!Flushed
  <2> QED
    BY <1>5, <2>1, <2>3, <2>8, <2>11, <2>12 DEF AllFlushed, Emitted, AllText
<1>6. CASE g.codex /\ g.order = <<>>
  <2>1. m.held = <<>> /\ m.said \o m.deferred = All(g.texts) /\ m.calls = <<>>
    BY <1>3, <1>6 DEF Worded
  <2>2. PICK d : d = [m EXCEPT !.deferred = <<>>]
    OBVIOUS
  <2>3. /\ d \in Mocks /\ d.said = m.said /\ d.held = <<>> /\ d.deferred = <<>>
        /\ d.calls = m.calls /\ d.status = m.status /\ d.ended = m.ended
    BY <1>1, <1>2, <2>1, <2>2 DEF Mocks
  <2>4. Mid(g, d, b \o v, over)
    BY <2>3, MidAside
  <2>5. PICK t : t = Events!Flush(Events!Step(d, v), m.deferred)
    OBVIOUS
  <2>6. Events!Undeferred(Events!Step(m, v)) = t
    BY <1>3, <1>6, <2>2, <2>5 DEF Events!Undeferred, Events!Saw, Events!Step
  <2>7. d.held \o m.deferred = m.deferred
    BY <1>1, <2>3 DEF Spoken
  <2>8. [d EXCEPT !.held = <<>>] = d
    BY <2>3 DEF Mocks
  <2>9. Emitted(g, d, b, m.deferred, over, t)
    <3>1. Emitted(g, [d EXCEPT !.held = <<>>], b, d.held \o m.deferred, over, t)
      BY <1>1, <2>1, <2>3, <2>4, <2>5, <2>7, FlushMid
    <3> QED
      BY <2>7, <2>8, <3>1
  <2>10. m.said \o m.deferred \in Spoken
    BY <1>1 DEF Spoken
  <2>11. /\ t.m \in Mocks /\ t.m.said = All(g.texts) /\ t.m.held = <<>> /\ t.m.deferred = <<>>
         /\ t.m.calls = m.calls /\ t.m.status = m.status /\ t.m.ended = m.ended
    <3>1. t.m = [d EXCEPT !.said = m.said \o m.deferred]
      BY <2>3, <2>9 DEF Emitted
    <3> QED
      BY <2>1, <2>3, <2>10, <3>1 DEF Mocks
  <2>12. t.events \in Seq(LogEvents) /\ Mid(g, t.m, b \o t.events, over)
    BY <2>9 DEF Emitted
  <2>13. t = Events!Step(t.m, t.events)
    BY <2>5 DEF Events!Flush, Events!Emit, Events!Step
  <2>14. PICK s : s = Events!Flush(t, <<>>)
    OBVIOUS
  <2>15. Emitted(g, t.m, b, <<>>, over, s)
    <3>1. t.m.held \o <<>> = <<>>
      BY <2>11
    <3>2. PICK u, w : u = t.m /\ w = t.events
      OBVIOUS
    <3>3. s = Events!Flush(Events!Step(u, w), <<>>)
      BY <2>13, <2>14, <3>2
    <3>4. Emitted(g, [u EXCEPT !.held = <<>>], b, u.held \o <<>>, over, s)
      BY <1>2, <2>11, <2>12, <3>1, <3>2, <3>3, FlushMid
    <3>5. [u EXCEPT !.held = <<>>] = u
      BY <2>11, <3>2 DEF Mocks
    <3> QED
      BY <3>1, <3>2, <3>4, <3>5
  <2>16. s.m = t.m
    <3>1. s.m = [t.m EXCEPT !.said = t.m.said \o <<>>] /\ t.m.said \o <<>> = t.m.said
      BY <1>2, <2>11, <2>15, MockFacts DEF Emitted
    <3> QED
      BY <2>11, <3>1 DEF Mocks
  <2>17. Events!Flushed(Events!Step(m, v)) = s
    BY <1>6, <2>6, <2>14 DEF Events!Flushed
  <2>18. m.held = <<>> /\ m.deferred = <<>> => t.m.said = m.said
    BY <1>1, <1>2, <2>1, <2>11
  <2> QED
    BY <1>6, <2>11, <2>15, <2>16, <2>17, <2>18 DEF AllFlushed, Emitted, AllText
<1> QED
  BY <1>4, <1>5, <1>6

-----------------------------------------------------------------------------
(* The calls are done.                                                       *)

DoneOf(e) == Events!Event("done", e.id, e.index, e.args)

(* what DoneEvents does with one call *)
Doing ==
  [p \in Seq(LogEvents) \X Entry |->
     IF p[2].done THEN p[1] ELSE Append(p[1], DoneOf(p[2]))]

LEMMA DoneOfType ==
  ASSUME NEW e \in Entry
  PROVE  /\ DoneOf(e) \in LogEvents /\ DoneOf(e).kind = "done" /\ DoneOf(e).item = e.id
         /\ DoneOf(e).index = e.index
BY DEF DoneOf, Events!Event, LogEvents, Entry, Items

LEMMA DoingType == Doing \in [Seq(LogEvents) \X Entry -> Seq(LogEvents)]
<1>1. ASSUME NEW p \in Seq(LogEvents) \X Entry
      PROVE  (IF p[2].done THEN p[1] ELSE Append(p[1], DoneOf(p[2]))) \in Seq(LogEvents)
  <2>1. p[1] \in Seq(LogEvents) /\ DoneOf(p[2]) \in LogEvents
    BY DoneOfType
  <2> QED
    BY <2>1
<1> QED
  BY <1>1 DEF Doing

LEMMA EventsMax == \A S : Events!Max(S) = Max(S)
BY DEF Events!Max, Max

LEMMA DoneEventsIs ==
  ASSUME NEW seq \in Seq(Entry)
  PROVE  Events!DoneEvents(seq) = Stepwise(Doing, <<>>, seq)
<1> DEFINE n == Len(seq)
           iter(h) == [T \in SUBSET (1..n) |->
                         IF T = {} THEN <<>>
                         ELSE IF Events!IsDone(seq[Max(T)]) THEN h[T \ {Max(T)}]
                         ELSE Append(h[T \ {Max(T)}],
                                     Events!Event("done", seq[Max(T)].id, seq[Max(T)].index,
                                                  seq[Max(T)].args))]
           it == CHOOSE h : h = iter(h)
<1>1. Doing \in [Seq(LogEvents) \X Entry -> Seq(LogEvents)] /\ <<>> \in Seq(LogEvents) /\ n \in Nat
  BY DoingType
<1>2. PICK g \in Values(n, Seq(LogEvents)) : FoldsTo(g, Doing, <<>>, seq)
  <2>1. PICK V : V = Seq(LogEvents)
    OBVIOUS
  <2>2. \E g \in Values(n, V) : FoldsTo(g, Doing, <<>>, seq)
    BY <1>1, <2>1, StepwiseIs
  <2> QED
    BY <2>1, <2>2
<1>3. ASSUME NEW T \in SUBSET (1..n)
      PROVE  g[T] = IF T = {} THEN <<>>
                    ELSE IF Events!IsDone(seq[Max(T)]) THEN g[T \ {Max(T)}]
                    ELSE Append(g[T \ {Max(T)}],
                                Events!Event("done", seq[Max(T)].id, seq[Max(T)].index,
                                             seq[Max(T)].args))
  <2>1. g[T] = IF T = {} THEN <<>> ELSE Doing[<<g[T \ {Max(T)}], seq[Max(T)]>>]
    BY <1>2 DEF FoldsTo
  <2>2. CASE T # {}
    <3>1. Max(T) \in 1..n
      BY <1>1, <2>2, MaxIn
    <3>2. g[T \ {Max(T)}] \in Seq(LogEvents) /\ seq[Max(T)] \in Entry
      <4>1. g \in [SUBSET (1..n) -> Seq(LogEvents)] /\ T \ {Max(T)} \in SUBSET (1..n)
        BY <1>2 DEF Values
      <4> QED
        BY <3>1, <4>1
    <3> QED
      BY <2>1, <2>2, <3>2 DEF Doing, DoneOf, Events!IsDone
  <2> QED
    BY <2>1, <2>2
<1>4. g = iter(g)
  BY <1>2, <1>3 DEF Values
<1>5. it = iter(it)
  <2> HIDE DEF iter
  <2> QED
    BY <1>4
<1>6. \A T \in SUBSET (1..n) :
        it[T] = IF T = {} THEN <<>>
                ELSE IF Events!IsDone(seq[Max(T)]) THEN it[T \ {Max(T)}]
                ELSE Append(it[T \ {Max(T)}],
                            Events!Event("done", seq[Max(T)].id, seq[Max(T)].index,
                                         seq[Max(T)].args))
  <2> HIDE DEF it
  <2> QED
    BY <1>5
<1>7. it[1..n] = g[1..n]
  <2> HIDE DEF it, n
  <2>1. it[{}] = g[{}]
    BY <1>3, <1>6
  <2>2. \A T \in SUBSET (1..n) :
          T # {} /\ it[T \ {Max(T)}] = g[T \ {Max(T)}] => it[T] = g[T]
    BY <1>3, <1>6
  <2> QED
    BY <1>1, <2>1, <2>2, FoldsAgree
<1>8. DOMAIN seq = 1..n
  OBVIOUS
<1>9. Events!DoneEvents(seq) = it[1..n]
  BY <1>8, EventsMax DEF Events!DoneEvents, Events!FoldLeft, Events!MapThenFoldSet
<1> QED
  BY <1>2, <1>7, <1>9 DEF FoldsTo

LEMMA DoneEventsSteps ==
  ASSUME NEW seq \in Seq(Entry), NEW e \in Entry
  PROVE  /\ Events!DoneEvents(seq) \in Seq(LogEvents)
         /\ Events!DoneEvents(Append(seq, e)) =
              IF e.done THEN Events!DoneEvents(seq)
              ELSE Append(Events!DoneEvents(seq), DoneOf(e))
<1>1. Append(seq, e) \in Seq(Entry)
  OBVIOUS
<1>2. PICK V, step : V = Seq(LogEvents) /\ step = Doing
  OBVIOUS
<1>3. <<>> \in V /\ step \in [V \X Entry -> V]
  BY <1>2, DoingType
<1>4. GoesOnWith(step, <<>>, V, seq, e)
  BY <1>3, StepwiseAppend
<1>5. Events!DoneEvents(seq) = Stepwise(Doing, <<>>, seq)
  BY DoneEventsIs
<1>6. Events!DoneEvents(Append(seq, e)) = Stepwise(Doing, <<>>, Append(seq, e))
  BY <1>1, DoneEventsIs
<1> QED
  BY <1>2, <1>4, <1>5, <1>6 DEF Doing, GoesOnWith

(* all of the calls, or none of them *)
DoneAll(seq, d) ==
  /\ (\A i \in 1..Len(seq) : seq[i].done) => d = <<>>
  /\ (\A i \in 1..Len(seq) : ~seq[i].done) =>
       Len(d) = Len(seq) /\ \A i \in 1..Len(seq) : d[i] = DoneOf(seq[i])

LEMMA DoneEventsFacts ==
  ASSUME NEW seq \in Seq(Entry)
  PROVE  Events!DoneEvents(seq) \in Seq(LogEvents) /\ DoneAll(seq, Events!DoneEvents(seq))
<1> DEFINE F == {s \in Seq(Entry) : /\ Events!DoneEvents(s) \in Seq(LogEvents)
                                    /\ DoneAll(s, Events!DoneEvents(s))}
<1>1. <<>> \in F
  <2>1. <<>> \in Seq(Entry) /\ <<>> \in Seq(LogEvents)
    OBVIOUS
  <2>2. Events!DoneEvents(<<>>) = Stepwise(Doing, <<>>, <<>>)
    BY <2>1, DoneEventsIs
  <2>3. PICK V : V = Seq(LogEvents)
    OBVIOUS
  <2>4. Stepwise(Doing, <<>>, <<>>) = <<>>
    <3>1. <<>> \in V /\ Doing \in [V \X Entry -> V]
      BY <2>3, DoingType
    <3> QED
      BY <3>1, StepwiseEmpty
  <2>5. DoneAll(<<>>, <<>>)
    <3>1. PICK z : z = <<>>
      OBVIOUS
    <3>2. Len(z) = 0
      BY <3>1
    <3>3. DoneAll(z, z)
      BY <3>1, <3>2 DEF DoneAll
    <3> QED
      BY <3>1, <3>3
  <2> QED
    BY <2>1, <2>2, <2>4, <2>5
<1>2. ASSUME NEW s \in Seq(Entry), NEW e \in Entry, s \in F PROVE Append(s, e) \in F
  <2>1. PICK t, n : t = Append(s, e) /\ n = Len(s)
    OBVIOUS
  <2>2. /\ t \in Seq(Entry) /\ n \in Nat /\ Len(t) = n + 1 /\ t[n + 1] = e
        /\ \A i \in 1..n : t[i] = s[i]
    BY <2>1, AppendProperties
  <2>3. PICK d : d = Events!DoneEvents(s)
    OBVIOUS
  <2>4. /\ d \in Seq(LogEvents) /\ DoneAll(s, d)
        /\ Events!DoneEvents(t) = IF e.done THEN d ELSE Append(d, DoneOf(e))
    BY <1>2, <2>1, <2>3, DoneEventsSteps
  <2>5. n + 1 \in 1..(n + 1) /\ \A i \in 1..n : i \in 1..(n + 1)
    BY <2>2
  <2>6. \A i \in 1..(n + 1) : i \in 1..n \/ i = n + 1
    BY <2>2
  <2>7. DoneOf(e) \in LogEvents
    BY DoneOfType
  <2>8. CASE e.done
    <3>1. Events!DoneEvents(t) = d
      BY <2>4, <2>8
    <3>2. ~ \A i \in 1..(n + 1) : ~t[i].done
      BY <2>2, <2>5, <2>8
    <3>3. (\A i \in 1..(n + 1) : t[i].done) => d = <<>>
      BY <2>1, <2>2, <2>4, <2>5 DEF DoneAll
    <3> QED
      BY <2>1, <2>2, <2>4, <3>1, <3>2, <3>3 DEF DoneAll
  <2>9. CASE ~e.done
    <3>1. PICK u : u = Append(d, DoneOf(e))
      OBVIOUS
    <3>2. Events!DoneEvents(t) = u /\ u \in Seq(LogEvents)
      BY <2>4, <2>7, <2>9, <3>1
    <3>3. ~ \A i \in 1..(n + 1) : t[i].done
      BY <2>2, <2>5, <2>9
    <3>4. ASSUME \A i \in 1..(n + 1) : ~t[i].done
          PROVE  Len(u) = n + 1 /\ \A i \in 1..(n + 1) : u[i] = DoneOf(t[i])
      <4>1. Len(d) = n /\ \A i \in 1..n : d[i] = DoneOf(s[i])
        BY <2>1, <2>2, <2>4, <2>5, <3>4 DEF DoneAll
      <4>2. Len(u) = n + 1 /\ u[n + 1] = DoneOf(e) /\ \A i \in 1..n : u[i] = d[i]
        BY <2>4, <2>7, <3>1, <4>1
      <4> QED
        BY <2>2, <2>6, <4>1, <4>2
    <3> QED
      BY <2>1, <2>2, <3>2, <3>3, <3>4 DEF DoneAll
  <2> QED
    BY <2>8, <2>9
<1>3. Seq(Entry) \subseteq F
  <2> HIDE DEF F
  <2> QED
    BY <1>1, <1>2, SeqInduction
<1> QED
  BY <1>3

(* events that end items of the log, each another *)
Ending(d, here, over, at) ==
  /\ d \in Seq(LogEvents)
  /\ \A i \in 1..Len(d) :
       d[i].kind = "done" /\ d[i].item \in here \ over /\ d[i].index = at[d[i].item]
  /\ \A i, j \in 1..Len(d) : d[i].item = d[j].item => i = j

ItemsOf(d) == {d[i].item : i \in 1..Len(d)}

LEMMA LogEnds ==
  ASSUME NEW o, NEW here, NEW over, NEW at, NEW apart, Log(o, here, over, at, apart),
         NEW d, Ending(d, here, over, at)
  PROVE  Log(o \o d, here, over \union ItemsOf(d), at, apart)
<1> DEFINE F == {s \in Seq(LogEvents) :
                   Ending(s, here, over, at) =>
                     Log(o \o s, here, over \union ItemsOf(s), at, apart)}
<1>1. o \in Seq(LogEvents)
  BY DEF Log, LogTyped
<1>2. <<>> \in F
  <2>1. o \o <<>> = o
    BY <1>1
  <2>2. over \union ItemsOf(<<>>) = over /\ <<>> \in Seq(LogEvents)
    BY DEF ItemsOf
  <2>3. Log(o \o <<>>, here, over \union ItemsOf(<<>>), at, apart)
    BY <2>1, <2>2
  <2> QED
    BY <2>2, <2>3
<1>3. ASSUME NEW s \in Seq(LogEvents), NEW e \in LogEvents, s \in F PROVE Append(s, e) \in F
  <2>1. PICK t, n : t = Append(s, e) /\ n = Len(s)
    OBVIOUS
  <2>2. /\ t \in Seq(LogEvents) /\ n \in Nat /\ Len(t) = n + 1 /\ t[n + 1] = e
        /\ \A i \in 1..n : t[i] = s[i]
    BY <2>1, AppendProperties
  <2>3. SUFFICES ASSUME Ending(t, here, over, at)
                 PROVE  Log(o \o t, here, over \union ItemsOf(t), at, apart)
    BY <2>1, <2>2
  <2>4. n + 1 \in 1..(n + 1) /\ \A i \in 1..n : i \in 1..(n + 1) /\ i # n + 1
    BY <2>2
  <2>5. \A i \in 1..(n + 1) : i \in 1..n \/ i = n + 1
    BY <2>2
  <2>6. Ending(s, here, over, at)
    BY <2>1, <2>2, <2>3, <2>4 DEF Ending
  <2>7. PICK l, past : l = o \o s /\ past = over \union ItemsOf(s)
    OBVIOUS
  <2>8. Log(l, here, past, at, apart)
    BY <1>3, <2>6, <2>7
  <2>9. /\ e.kind = "done" /\ e.item \in here /\ e.item \notin over /\ e.index = at[e.item]
        /\ \A i \in 1..n : s[i].item # e.item
    BY <2>2, <2>3, <2>4 DEF Ending
  <2>10. e.item \in here \ past
    BY <2>1, <2>7, <2>9 DEF ItemsOf
  <2>11. PICK then : then = past \union {e.item}
    OBVIOUS
  <2>12. Log(Append(l, e), here, then, at, apart)
    BY <2>8, <2>9, <2>10, <2>11, LogGoesOn
  <2>13. Append(l, e) = o \o t
    <3>1. o \o Append(s, e) = Append(o \o s, e)
      BY <1>1, ConcatAppend
    <3> QED
      BY <2>1, <2>7, <3>1
  <2>14. then = over \union ItemsOf(t)
    BY <2>1, <2>2, <2>4, <2>5, <2>7, <2>11 DEF ItemsOf
  <2> QED
    BY <2>12, <2>13, <2>14
<1>4. d \in F
  <2>1. d \in Seq(LogEvents)
    BY DEF Ending
  <2> HIDE DEF F
  <2> QED
    BY <1>2, <1>3, <2>1, SeqInduction
<1> QED
  BY <1>4

FinalMock(m, d) ==
  /\ d \in Mocks /\ d.said = m.said /\ d.deferred = m.deferred /\ d.held = m.held
  /\ d.status = m.status /\ d.ended = m.ended /\ Len(d.calls) = Len(m.calls)
  /\ \A i \in 1..Len(m.calls) :
       /\ d.calls[i].id = m.calls[i].id /\ d.calls[i].args = m.calls[i].args
       /\ d.calls[i].index = m.calls[i].index /\ d.calls[i].done

LEMMA FinalMockIs ==
  ASSUME NEW m \in Mocks
  PROVE  FinalMock(m, [m EXCEPT !.calls = [i \in DOMAIN @ |-> [@[i] EXCEPT !.done = TRUE]]])
<1>1. PICK q, n : q = m.calls /\ n = Len(q)
  OBVIOUS
<1>2. q \in Seq(Entry) /\ n \in Nat /\ DOMAIN q = 1..n
  BY <1>1, MockFacts
<1>3. PICK r : r = [i \in 1..n |-> [q[i] EXCEPT !.done = TRUE]]
  OBVIOUS
<1>4. ASSUME NEW i \in 1..n
      PROVE  /\ r[i] \in Entry /\ r[i].id = q[i].id /\ r[i].args = q[i].args
             /\ r[i].index = q[i].index /\ r[i].done
  <2>1. q[i] \in Entry
    BY <1>2
  <2>2. PICK e : e = [q[i] EXCEPT !.done = TRUE]
    OBVIOUS
  <2>3. e \in Entry /\ e.id = q[i].id /\ e.args = q[i].args /\ e.index = q[i].index /\ e.done
    BY <2>1, <2>2 DEF Entry
  <2> QED
    BY <1>3, <2>2, <2>3
<1>5. r \in Seq(Entry) /\ Len(r) = n
  BY <1>2, <1>3, <1>4
<1>6. PICK d : d = [m EXCEPT !.calls = r]
  OBVIOUS
<1>7. [m EXCEPT !.calls = [i \in DOMAIN @ |-> [@[i] EXCEPT !.done = TRUE]]] = d
  BY <1>1, <1>2, <1>3, <1>6
<1>8. /\ d \in Mocks /\ d.calls = r /\ d.said = m.said /\ d.deferred = m.deferred
      /\ d.held = m.held /\ d.status = m.status /\ d.ended = m.ended
  BY <1>5, <1>6 DEF Mocks
<1> QED
  BY <1>1, <1>4, <1>5, <1>7, <1>8 DEF FinalMock

(* all the calls are done after it *)
AllDone(g, m, o, over, s) ==
  /\ FinalMock(m, s.m) /\ s.events \in Seq(LogEvents)
  /\ Ids(s.m) = Ids(m) /\ Mid(g, s.m, o \o s.events, over \union Ids(m))

LEMMA FinalizedMid ==
  ASSUME NEW g, NEW m, NEW b \in Seq(LogEvents), NEW v \in Seq(LogEvents), NEW over,
         Mid(g, m, b \o v, over),
         \/ Ids(m) \subseteq over /\ \A i \in DOMAIN m.calls : m.calls[i].done
         \/ Ids(m) \intersect over = {} /\ \A i \in DOMAIN m.calls : ~m.calls[i].done
  PROVE  AllDone(g, m, b, over, Events!Finalized(Events!Step(m, v)))
<1>1. PICK o, n, s : /\ o = b \o v /\ n = Len(m.calls)
                     /\ s = Events!Finalized(Events!Step(m, v))
  OBVIOUS
<1>2. /\ m \in Mocks /\ m.calls \in Seq(Entry) /\ n \in Nat /\ DOMAIN m.calls = 1..n
      /\ Mid(g, m, o, over)
  BY <1>1, MockFacts DEF Mid
<1>3. PICK w : w = Events!DoneEvents(m.calls)
  OBVIOUS
<1>4. w \in Seq(LogEvents) /\ DoneAll(m.calls, w)
  BY <1>2, <1>3, DoneEventsFacts
<1>5. PICK d : d = s.m
  OBVIOUS
<1>6. FinalMock(m, d) /\ s.events = v \o w
  <2>1. d = [m EXCEPT !.calls = [i \in DOMAIN @ |-> [@[i] EXCEPT !.done = TRUE]]]
    BY <1>1, <1>5 DEF Events!Finalized, Events!Step
  <2>2. s.events = v \o w
    BY <1>1, <1>3 DEF Events!Finalized, Events!Step
  <2> QED
    BY <1>2, <2>1, <2>2, FinalMockIs
<1>21. d \in Mocks /\ d.said = m.said /\ Len(d.calls) = n
  BY <1>1, <1>6 DEF FinalMock
<1>22. d.calls \in Seq(Entry)
  BY <1>21, MockFacts
<1>23. DOMAIN d.calls = 1..n
  BY <1>21, <1>22
<1>7. /\ d \in Mocks /\ d.said = m.said /\ d.calls \in Seq(Entry) /\ DOMAIN d.calls = 1..n
      /\ \A i \in 1..n : /\ d.calls[i].id = m.calls[i].id /\ d.calls[i].args = m.calls[i].args
                         /\ d.calls[i].index = m.calls[i].index
  BY <1>1, <1>6, <1>21, <1>22, <1>23 DEF FinalMock
<1>8. Numbered(g, m) /\ Apart(m)
  BY <1>2, NumberedApart DEF Mid
<1>9. Numbered(g, d) /\ Apart(d)
  <2>1. Numbered(g, d)
    <3>1. Len(g.order) = n
      BY <1>1, <1>8 DEF Numbered
    <3>2. \A i \in 1..n :
            /\ d.calls[i].id = g.order[i] /\ d.calls[i].args = ArgsOf(g, g.order[i])
            /\ d.calls[i].index <= i
            /\ d.said = <<>> => d.calls[i].index = i - 1
      BY <1>7, <1>8, <3>1 DEF Numbered
    <3> QED
      BY <1>8, <1>21, <3>1, <3>2 DEF Numbered
  <2> QED
    BY <1>7, <2>1, NumberedApart
<1>10. Ids(d) = Ids(m) /\ Here(d) = Here(m)
  <2>1. \A x : x \in Ids(m) <=> \E i \in 1..n : m.calls[i].id = x
    BY <1>2 DEF Ids
  <2>2. \A x : x \in Ids(d) <=> \E i \in 1..n : d.calls[i].id = x
    BY <1>7 DEF Ids
  <2>4. ASSUME NEW x PROVE x \in Ids(d) <=> x \in Ids(m)
    BY <1>7, <2>1, <2>2
  <2>3. Ids(d) = Ids(m)
    BY <2>4, Zenon
  <2> QED
    BY <1>7, <2>3 DEF Here
<1>11. AtKnown(m) /\ AtKnown(d)
  BY <1>2, <1>7, <1>8, <1>9, AtFacts
<1>12. \A y \in Here(m) : At(d)[y] = At(m)[y]
  <2>1. \A y \in Ids(m) : At(d)[y] = At(m)[y]
    <3> SUFFICES ASSUME NEW y \in Ids(m) PROVE At(d)[y] = At(m)[y]
      OBVIOUS
    <3>1. PICK i \in DOMAIN m.calls : y = m.calls[i].id
      BY DEF Ids
    <3>2. i \in DOMAIN d.calls /\ d.calls[i].id = y /\ d.calls[i].index = m.calls[i].index
      BY <1>2, <1>7, <3>1
    <3>3. At(m)[y] = m.calls[i].index /\ At(d)[y] = d.calls[i].index
      BY <1>11, <3>1, <3>2 DEF AtKnown
    <3> QED
      BY <3>2, <3>3
  <2> QED
    BY <1>11, <2>1 DEF Here, AtKnown
<1>13. Log(o, Here(m), over, At(m), g.codex) /\ At(d) \in [Items -> Nat]
  BY <1>2, <1>11 DEF Mid, AtKnown
<1>14. Log(o, Here(d), over, At(d), g.codex)
  BY <1>10, <1>12, <1>13, LogMoved
<1>15. Log(o \o w, Here(d), over \union Ids(m), At(d), g.codex)
  <2>1. CASE Ids(m) \subseteq over /\ \A i \in DOMAIN m.calls : m.calls[i].done
    <3>1. w = <<>>
      BY <1>1, <1>2, <1>4, <2>1 DEF DoneAll
    <3>2. o \o w = o /\ over \union Ids(m) = over
      BY <2>1, <3>1, <1>14 DEF Log, LogTyped
    <3> QED
      BY <1>14, <3>2
  <2>2. CASE Ids(m) \intersect over = {} /\ \A i \in DOMAIN m.calls : ~m.calls[i].done
    <3>1. Len(w) = n /\ \A i \in 1..n : w[i] = DoneOf(m.calls[i])
      BY <1>1, <1>2, <1>4, <2>2 DEF DoneAll
    <3>2. \A i \in 1..n : /\ w[i].kind = "done" /\ w[i].item = m.calls[i].id
                          /\ w[i].index = m.calls[i].index
      BY <1>2, <3>1, DoneOfType
    <3>3. \A i \in 1..n : m.calls[i].id \in Ids(m) /\ At(d)[m.calls[i].id] = m.calls[i].index
      BY <1>2, <1>7, <1>11 DEF Ids, AtKnown
    <3>4. Ending(w, Here(d), over, At(d))
      <4>1. \A i \in 1..n : w[i].item \in Here(d) \ over
        BY <1>10, <2>2, <3>2, <3>3 DEF Here
      <4>2. \A i, j \in 1..n : w[i].item = w[j].item => i = j
        BY <1>2, <1>8, <3>2 DEF Apart
      <4> QED
        BY <1>4, <3>1, <3>2, <3>3, <4>1, <4>2 DEF Ending
    <3>5. ItemsOf(w) = Ids(m)
      BY <1>2, <3>1, <3>2 DEF ItemsOf, Ids
    <3> QED
      BY <1>14, <3>4, <3>5, LogEnds
  <2> QED
    BY <2>1, <2>2
<1>16. Saying(g, d, o \o w)
  <2>1. \A i \in 1..Len(w) : w[i].kind # "delta"
    <3>1. CASE \A i \in DOMAIN m.calls : m.calls[i].done
      <4>1. w = <<>>
        BY <1>1, <1>2, <1>4, <3>1 DEF DoneAll
      <4> QED
        BY <4>1
    <3>2. CASE \A i \in DOMAIN m.calls : ~m.calls[i].done
      <4>1. Len(w) = n /\ \A i \in 1..n : w[i] = DoneOf(m.calls[i])
        BY <1>1, <1>2, <1>4, <3>2 DEF DoneAll
      <4> QED
        BY <1>2, <4>1, DoneOfType
    <3> QED
      BY <3>1, <3>2
  <2>2. o \in Seq(Told) /\ w \in Seq(Told)
    BY <1>4, <1>14, LogIsTold DEF Log, LogTyped
  <2>3. \A x : Say(o \o w, x) = Say(o, x)
    BY <2>1, <2>2, SayAgain
  <2> QED
    BY <1>2, <1>7, <2>3 DEF Mid, Saying
<1>17. g.codex /\ d.said # <<>> => d.calls = <<>>
  <2>1. m.calls = <<>> => d.calls = <<>>
    BY <1>1, <1>2, <1>6, <1>7 DEF FinalMock
  <2> QED
    BY <1>2, <1>7, <2>1 DEF Mid
<1>18. Mid(g, d, o \o w, over \union Ids(m))
  BY <1>2, <1>7, <1>9, <1>15, <1>16, <1>17 DEF Mid
<1>19. b \o (v \o w) = o \o w
  BY <1>1, <1>4
<1>20. v \o w \in Seq(LogEvents)
  BY <1>4
<1> QED
  BY <1>1, <1>5, <1>6, <1>10, <1>18, <1>19, <1>20 DEF AllDone

-----------------------------------------------------------------------------
(* A fragment of a call.                                                     *)

LEMMA PartsFacts == Parts \in Seq(Words) /\ Len(Parts) = 2 /\ \A i \in 1..2 : Parts[i] \in Words
<1>1. "head" \in Words /\ "tail" \in Words
  BY DEF Words
<1> QED
  BY <1>1 DEF Parts

LEMMA PartsTo ==
  ASSUME NEW k \in 0..2
  PROVE  SubSeq(Parts, 1, k) \in Spoken
<1>1. \A i \in 1..k : Parts[i] \in Words
  BY PartsFacts
<1>2. k \in Int /\ 1 \in Int
  OBVIOUS
<1> QED
  BY <1>1, <1>2, SubSeqProperties DEF Spoken

LEMMA PartsGrow ==
  ASSUME NEW k \in 0..2, k < 2
  PROVE  /\ SubSeq(Parts, 1, k) \in Spoken /\ SubSeq(Parts, 1, k + 1) \in Spoken
         /\ Parts[k + 1] \in Words /\ <<Parts[k + 1]>> \in Spoken
         /\ Append(SubSeq(Parts, 1, k), Parts[k + 1]) = SubSeq(Parts, 1, k + 1)
         /\ SubSeq(Parts, 1, k) \o <<Parts[k + 1]>> = SubSeq(Parts, 1, k + 1)
<1>1. PICK n \in 1..2 : n = k + 1
  OBVIOUS
<1>2. Parts[n] \in Words /\ SubSeq(Parts, 1, k) \in Spoken /\ SubSeq(Parts, 1, n) \in Spoken
  BY PartsFacts, PartsTo
<1>3. SubSeq(Parts, 1, n) = SubSeq(Parts, 1, n - 1) \o <<Parts[n]>>
  <2>1. 1 \in 1..Len(Parts) /\ n \in 1..Len(Parts) /\ Parts \in Seq(Words)
    BY PartsFacts
  <2> QED
    BY <2>1, SubSeqRecursiveSecond
<1>4. n - 1 = k
  BY <1>1
<1>5. \A s \in Spoken, w \in Words : s \o <<w>> = Append(s, w) /\ <<w>> \in Spoken
  BY DEF Spoken
<1> QED
  BY <1>1, <1>2, <1>3, <1>4, <1>5

EventsTold(g) ==
  /\ g.codex \in BOOLEAN /\ g.kind \in [Calls -> {"function", "custom", "virtual"}]
  /\ g.order \in Seq(Calls) /\ g.sent \in [Calls -> 0..2] /\ g.texts \in Nat
  /\ g.reason \in Reasons

LEMMA GivenFacts == \A g \in Givens : EventsTold(g)
BY DEF Givens, EventsTold

(* g before and h after the nth fragment of c, at place i *)
Asked(g, h, c, i) ==
  /\ h \in Givens /\ h.codex = g.codex /\ h.kind = g.kind /\ h.texts = g.texts
  /\ h.reason = g.reason
  /\ h.sent[c] = g.sent[c] + 1 /\ \A d \in Calls \ {c} : h.sent[d] = g.sent[d]
  /\ i \in 1..Len(h.order) /\ h.order[i] = c
  /\ \/ h.order = g.order
     \/ /\ g.order \in Seq(Calls) /\ h.order = Append(g.order, c) /\ i = Len(g.order) + 1
        /\ \A j \in 1..Len(g.order) : g.order[j] # c

LEMMA AskedIs ==
  ASSUME NEW c \in Calls, NEW m, Numbered(written, m), written \in Givens,
         written.sent[c] < 2,
         written' = [written EXCEPT !.sent[c] = @ + 1,
                       !.order = IF c \in Events!ToSet(@) THEN @ ELSE Append(@, c)]
  PROVE  Asked(written, written', c, Events!Position(c))
<1>1. PICK g, h, i : g = written /\ h = written' /\ i = Events!Position(c)
  OBVIOUS
<1>2. g \in Givens /\ EventsTold(g)
  BY <1>1, GivenFacts
<1>3. PICK ord \in Seq(Calls) :
        ord = IF c \in Events!ToSet(g.order) THEN g.order ELSE Append(g.order, c)
  <2>1. g.order \in Seq(Calls) /\ Append(g.order, c) \in Seq(Calls)
    BY <1>2 DEF EventsTold
  <2> QED
    BY <2>1
<1>4. PICK sent \in [Calls -> 0..2] : sent = [g.sent EXCEPT ![c] = @ + 1]
  <2>1. g.sent[c] + 1 \in 0..2
    BY <1>1, <1>2 DEF EventsTold
  <2> QED
    BY <1>2, <2>1 DEF EventsTold
<1>5. h = [g EXCEPT !.sent = sent, !.order = ord]
  BY <1>1, <1>3, <1>4
<1>6. /\ h \in Givens /\ h.codex = g.codex /\ h.kind = g.kind /\ h.texts = g.texts
      /\ h.reason = g.reason /\ h.sent = sent /\ h.order = ord
  BY <1>2, <1>5 DEF Givens
<1>7. i = CHOOSE j \in DOMAIN ord : ord[j] = c
  BY <1>1, <1>6 DEF Events!Position
<1>8. DOMAIN ord = 1..Len(ord) /\ g.order \in Seq(Calls) /\ DOMAIN g.order = 1..Len(g.order)
  BY <1>2, <1>3 DEF EventsTold
<1>9. c \in Events!ToSet(g.order) <=> \E j \in 1..Len(g.order) : g.order[j] = c
  BY <1>8 DEF Events!ToSet
<1>10. CASE c \in Events!ToSet(g.order)
  <2>1. ord = g.order
    BY <1>3, <1>10
  <2>2. i \in 1..Len(ord) /\ ord[i] = c
    BY <1>7, <1>8, <1>9, <1>10, <2>1
  <2> QED
    BY <1>1, <1>2, <1>4, <1>6, <2>1, <2>2 DEF Asked, EventsTold
<1>11. CASE c \notin Events!ToSet(g.order)
  <2>1. ord = Append(g.order, c)
    BY <1>3, <1>11
  <2>2. PICK n : n = Len(g.order)
    OBVIOUS
  <2>3. /\ n \in Nat /\ Len(ord) = n + 1 /\ ord[n + 1] = c
        /\ \A j \in 1..n : ord[j] = g.order[j]
    BY <1>8, <2>1, <2>2, AppendProperties
  <2>4. n + 1 \in 1..(n + 1) /\ \A j \in 1..(n + 1) : j \in 1..n \/ j = n + 1
    BY <2>3
  <2>5. \A j \in DOMAIN ord : ord[j] = c => j = n + 1
    BY <1>8, <1>9, <1>11, <2>2, <2>3, <2>4
  <2>6. i = n + 1
    BY <1>7, <1>8, <2>3, <2>4, <2>5
  <2> QED
    BY <1>1, <1>2, <1>4, <1>6, <1>8, <1>9, <1>11, <2>1, <2>2, <2>3, <2>4, <2>6
    DEF Asked, EventsTold
<1> QED
  BY <1>10, <1>11

(* the calls q before and r after it *)
Called(g, m, h, c, i, r) ==
  /\ r \in Seq(Entry) /\ Len(r) = Len(h.order)
  /\ \A k \in 1..Len(m.calls) :
       /\ r[k].id = m.calls[k].id /\ r[k].index = m.calls[k].index
       /\ r[k].done = m.calls[k].done
       /\ k # i => r[k].args = m.calls[k].args
  /\ r[i].id = c /\ r[i].args = ArgsOf(h, c)
  /\ h.order # g.order =>
       r[i].index = Len(g.order) + (IF m.said = <<>> THEN 0 ELSE 1) /\ ~r[i].done

LEMMA CalledNumbered ==
  ASSUME NEW g, NEW m, NEW h, NEW c \in Calls, NEW i, NEW r, NEW d \in Mocks,
         g \in Givens, m \in Mocks, Numbered(g, m), Asked(g, h, c, i),
         Called(g, m, h, c, i, r), d.calls = r, d.said = m.said
  PROVE  Numbered(h, d)
<1>1. PICK n : n = Len(g.order)
  OBVIOUS
<1>2. /\ n \in Nat /\ Len(m.calls) = n /\ EventsTold(g) /\ EventsTold(h)
      /\ r \in Seq(Entry) /\ Len(r) = Len(h.order)
  BY <1>1, GivenFacts DEF Asked, Called, Numbered, EventsTold
<1>3. /\ \A k \in 1..n : h.order[k] = g.order[k]
      /\ \A k \in 1..Len(h.order) : k \in 1..n \/ (k = i /\ k = n + 1 /\ h.order # g.order)
      /\ Len(h.order) = n \/ Len(h.order) = n + 1
  <2>1. CASE h.order = g.order
    BY <1>1, <2>1
  <2>2. CASE h.order = Append(g.order, c) /\ i = n + 1 /\ g.order \in Seq(Calls)
    <3>1. Len(h.order) = n + 1 /\ \A k \in 1..n : h.order[k] = g.order[k]
      BY <1>1, <2>2
    <3>2. h.order # g.order
      BY <1>1, <1>2, <3>1
    <3>3. \A k \in 1..(n + 1) : k \in 1..n \/ k = n + 1
      BY <1>2
    <3> QED
      BY <2>2, <3>1, <3>2, <3>3
  <2> QED
    BY <1>1, <2>1, <2>2 DEF Asked
<1>4. \A k \in 1..Len(h.order) : r[k].id = h.order[k]
  BY <1>1, <1>2, <1>3 DEF Asked, Called, Numbered
<1>5. \A k, j \in 1..Len(h.order) : h.order[k] = h.order[j] => k = j
  <2>1. CASE h.order = g.order
    BY <1>1, <2>1 DEF Numbered
  <2>2. CASE h.order # g.order
    <3>1. i = n + 1 /\ \A j \in 1..n : g.order[j] # c
      BY <1>1, <2>2 DEF Asked
    <3>2. \A k, j \in 1..n : g.order[k] = g.order[j] => k = j
      BY <1>1 DEF Numbered
    <3>3. h.order[i] = c
      BY DEF Asked
    <3> QED
      BY <1>3, <3>1, <3>2, <3>3
  <2> QED
    BY <2>1, <2>2
<1>6. \A k \in 1..Len(h.order) : r[k].args = ArgsOf(h, h.order[k])
  <2> SUFFICES ASSUME NEW k \in 1..Len(h.order) PROVE r[k].args = ArgsOf(h, h.order[k])
    OBVIOUS
  <2>1. CASE k = i
    BY <2>1 DEF Called, Asked
  <2>2. CASE k # i
    <3>1. k \in 1..n /\ h.order[k] # c /\ i \in 1..Len(h.order) /\ h.order[i] = c
      BY <1>3, <1>5, <2>2 DEF Asked
    <3>2. h.order[k] \in Calls /\ h.kind = g.kind
      BY <1>2, <3>1 DEF EventsTold, Asked
    <3>3. h.sent[h.order[k]] = g.sent[h.order[k]]
      BY <3>1, <3>2 DEF Asked
    <3>4. r[k].args = m.calls[k].args
      BY <1>2, <2>2, <3>1 DEF Called
    <3>5. m.calls[k].args = ArgsOf(g, g.order[k])
      BY <1>1, <3>1 DEF Numbered
    <3> QED
      BY <1>3, <3>1, <3>2, <3>3, <3>4, <3>5 DEF ArgsOf
  <2> QED
    BY <2>1, <2>2
<1>7. \A k \in 1..Len(h.order) : r[k].index <= k /\ (d.said = <<>> => r[k].index = k - 1)
  <2> SUFFICES ASSUME NEW k \in 1..Len(h.order)
               PROVE  r[k].index <= k /\ (d.said = <<>> => r[k].index = k - 1)
    OBVIOUS
  <2>1. CASE k \in 1..n
    BY <1>1, <1>2, <2>1 DEF Called, Numbered
  <2>2. CASE k = i /\ k = n + 1 /\ h.order # g.order
    <3>1. r[k].index = n + (IF m.said = <<>> THEN 0 ELSE 1)
      BY <1>1, <2>2 DEF Called
    <3> QED
      BY <1>2, <2>2, <3>1
  <2> QED
    BY <1>3, <2>1, <2>2
<1>8. \A x \in Calls : h.sent[x] = 0 <=> \A k \in 1..Len(h.order) : h.order[k] # x
  <2> SUFFICES ASSUME NEW x \in Calls
               PROVE  h.sent[x] = 0 <=> \A k \in 1..Len(h.order) : h.order[k] # x
    OBVIOUS
  <2>1. CASE x = c
    <3>1. h.sent[x] # 0
      BY <1>2, <2>1 DEF Asked, EventsTold
    <3> QED
      BY <2>1, <3>1 DEF Asked
  <2>2. CASE x # c
    <3>1. h.sent[x] = g.sent[x]
      BY <2>2 DEF Asked
    <3>2. g.sent[x] = 0 <=> \A k \in 1..n : g.order[k] # x
      BY <1>1 DEF Numbered
    <3>3. \A k \in 1..n : k \in 1..Len(h.order)
      BY <1>2, <1>3
    <3>4. h.order[i] = c
      BY DEF Asked
    <3> QED
      BY <1>3, <2>2, <3>1, <3>2, <3>3, <3>4
  <2> QED
    BY <2>1, <2>2
<1> QED
  BY <1>2, <1>4, <1>5, <1>6, <1>7, <1>8 DEF Numbered

(* the log l before and q after it *)
Heard(g, h, c, i, r, l, q) ==
  LET added == Events!Event("added", c, r[i].index, <<>>)
      grown == IF h.order = g.order THEN l ELSE Append(l, added)
      delta == Events!Event("delta", c, r[i].index, <<Parts[h.sent[c]]>>)
  IN q = IF g.kind[c] = "function" THEN Append(grown, delta) ELSE grown

LEMMA CalledMid ==
  ASSUME NEW g, NEW m, NEW h, NEW c \in Calls, NEW i, NEW r, NEW d \in Mocks,
         NEW l, NEW q, Mid(g, m, l, {}), Asked(g, h, c, i), g.sent[c] < 2,
         Called(g, m, h, c, i, r), d.calls = r, d.said = m.said,
         g.codex => m.said = <<>>, Heard(g, h, c, i, r, l, q)
  PROVE  Mid(h, d, q, {})
<1>1. /\ g \in Givens /\ h \in Givens /\ m \in Mocks /\ Numbered(g, m)
      /\ EventsTold(g) /\ EventsTold(h) /\ Saying(g, m, l)
      /\ Log(l, Here(m), {}, At(m), g.codex) /\ LogTyped(l)
      /\ h.codex = g.codex /\ h.kind = g.kind
  BY GivenFacts DEF Mid, Asked, Log
<1>2. Numbered(h, d)
  BY <1>1, CalledNumbered
<1>3. Apart(m) /\ Apart(d)
  BY <1>1, <1>2, NumberedApart
<1>4. AtKnown(m) /\ AtKnown(d) /\ "message" \notin Ids(m) /\ "message" \notin Ids(d)
  BY <1>1, <1>3, AtFacts
<1>5. PICK n : n = Len(g.order)
  OBVIOUS
<1>6. /\ n \in Nat /\ Len(m.calls) = n /\ DOMAIN m.calls = 1..n
      /\ r \in Seq(Entry) /\ Len(r) = Len(h.order) /\ DOMAIN r = 1..Len(h.order)
      /\ i \in 1..Len(h.order)
  BY <1>1, <1>5, MockFacts DEF Called, Asked, Numbered, EventsTold
<1>7. /\ Len(h.order) = n \/ Len(h.order) = n + 1
      /\ \A k \in 1..n : k \in 1..Len(h.order)
      /\ \A k \in 1..Len(h.order) : k \in 1..n \/ k = i
      /\ h.order = g.order => i \in 1..n
  <2>1. CASE h.order = g.order
    BY <1>5, <1>6, <2>1
  <2>2. CASE h.order # g.order
    <3>1. h.order = Append(g.order, c) /\ i = n + 1 /\ g.order \in Seq(Calls)
      BY <1>5, <2>2 DEF Asked
    <3>2. Len(h.order) = n + 1
      BY <1>5, <3>1
    <3> QED
      BY <1>6, <2>2, <3>1, <3>2
  <2> QED
    BY <2>1, <2>2
<1>8. c \in Items /\ c # "message"
  BY StreamsAssumption DEF Items
<1>9. ASSUME NEW x PROVE x \in Ids(d) <=> x \in Ids(m) \union {c}
  <2>1. x \in Ids(m) <=> \E k \in 1..n : m.calls[k].id = x
    BY <1>6 DEF Ids
  <2>2. x \in Ids(d) <=> \E k \in 1..Len(h.order) : r[k].id = x
    BY <1>6 DEF Ids
  <2>3. \A k \in 1..n : r[k].id = m.calls[k].id
    BY <1>6 DEF Called
  <2>4. r[i].id = c
    BY DEF Called
  <2> QED
    BY <1>6, <1>7, <2>1, <2>2, <2>3, <2>4
<1>10. Ids(d) = Ids(m) \union {c}
  BY <1>9, Zenon
<1>11. Here(d) = Here(m) \union {c}
  BY <1>10 DEF Here
<1>12. \A y \in Here(m) : At(d)[y] = At(m)[y]
  <2>1. ASSUME NEW k \in 1..n PROVE At(d)[m.calls[k].id] = At(m)[m.calls[k].id]
    <3>1. r[k].id = m.calls[k].id /\ r[k].index = m.calls[k].index
      BY <1>6 DEF Called
    <3>2. k \in DOMAIN d.calls /\ k \in DOMAIN m.calls
      BY <1>6, <1>7
    <3> QED
      BY <1>4, <3>1, <3>2 DEF AtKnown
  <2>2. \A y \in Ids(m) : \E k \in 1..n : y = m.calls[k].id
    BY <1>6 DEF Ids
  <2> QED
    BY <1>4, <2>1, <2>2 DEF Here, AtKnown
<1>13. At(d)[c] = r[i].index /\ r[i].index \in Nat
  <2>1. i \in DOMAIN d.calls /\ d.calls[i].id = c /\ r[i] \in Entry
    BY <1>6 DEF Called
  <2> QED
    BY <1>4, <2>1 DEF AtKnown, Entry
<1>14. PICK added : added = Events!Event("added", c, r[i].index, <<>>)
  OBVIOUS
<1>15. PICK delta : delta = Events!Event("delta", c, r[i].index, <<Parts[h.sent[c]]>>)
  OBVIOUS
<1>16. /\ g.sent[c] \in 0..2 /\ h.sent[c] = g.sent[c] + 1
  BY <1>1 DEF Asked, EventsTold
<1>17. <<Parts[h.sent[c]]>> \in Spoken /\ <<>> \in Spoken
  BY <1>16, PartsGrow DEF Spoken
<1>18. /\ added \in LogEvents /\ added.kind = "added" /\ added.item = c
       /\ added.index = r[i].index
       /\ delta \in LogEvents /\ delta.kind = "delta" /\ delta.item = c
       /\ delta.index = r[i].index /\ delta.what = <<Parts[h.sent[c]]>>
  BY <1>8, <1>13, <1>14, <1>15, <1>17 DEF Events!Event, LogEvents
<1>19. PICK t : t = IF h.order = g.order THEN l ELSE Append(l, added)
  OBVIOUS
<1>20. q = IF g.kind[c] = "function" THEN Append(t, delta) ELSE t
  BY <1>14, <1>15, <1>19 DEF Heard
<1>21. Log(t, Here(d), {}, At(d), g.codex) /\ \A x : Say(t, x) = Say(l, x)
  <2>1. CASE h.order = g.order
    <3>1. m.calls[i].id = c
      BY <1>6, <1>7, <2>1 DEF Called
    <3>2. c \in Here(m)
      BY <1>6, <1>7, <2>1, <3>1 DEF Ids, Here
    <3>3. Here(d) = Here(m)
      BY <1>11, <3>2
    <3> QED
      BY <1>1, <1>4, <1>12, <1>19, <2>1, <3>3, LogMoved DEF AtKnown
  <2>2. CASE h.order # g.order
    <3>1. /\ i = n + 1 /\ \A j \in 1..n : g.order[j] # c
          /\ r[i].index = n + (IF m.said = <<>> THEN 0 ELSE 1)
      BY <1>5, <2>2 DEF Asked, Called
    <3>2. \A k \in 1..n : /\ m.calls[k].id = g.order[k] /\ m.calls[k].index <= k
                          /\ m.said = <<>> => m.calls[k].index = k - 1
      BY <1>1, <1>5 DEF Numbered
    <3>3. \A k \in 1..n : /\ At(m)[m.calls[k].id] = m.calls[k].index
                          /\ m.calls[k].index \in Nat
      <4>1. \A k \in 1..n : m.calls[k] \in Entry
        BY <1>1, <1>6, MockFacts
      <4> QED
        BY <1>4, <1>6, <4>1 DEF AtKnown, Entry
    <3>4. \A y \in Ids(m) : \E k \in 1..n : y = m.calls[k].id
      BY <1>6 DEF Ids
    <3>5. c \in Items \ Here(m)
      BY <1>8, <3>1, <3>2, <3>4 DEF Here
    <3>6. ASSUME NEW y \in Here(m) PROVE At(m)[y] # r[i].index
      <4>1. CASE y \in Ids(m)
        <5>1. PICK k \in 1..n : y = m.calls[k].id
          BY <3>4, <4>1
        <5> QED
          BY <1>6, <3>1, <3>2, <3>3, <5>1
      <4>2. CASE y = "message" /\ m.said # <<>>
        BY <1>4, <1>6, <3>1, <4>2 DEF AtKnown
      <4> QED
        BY <4>1, <4>2 DEF Here
    <3>7. Log(Append(l, added), Here(m) \union {added.item}, {}, At(d), g.codex)
      BY <1>1, <1>4, <1>12, <1>13, <1>18, <3>5, <3>6, LogAdds DEF AtKnown
    <3>8. \A x : Say(Append(l, added), x) = Say(l, x)
      BY <1>1, <1>18, LogSays
    <3> QED
      BY <1>11, <1>18, <1>19, <2>2, <3>7, <3>8
  <2> QED
    BY <2>1, <2>2
<1>22. /\ Log(q, Here(d), {}, At(d), g.codex)
       /\ \A x : Say(q, x) = IF x = c /\ g.kind[c] = "function"
                             THEN Say(l, x) \o <<Parts[h.sent[c]]>> ELSE Say(l, x)
  <2>1. CASE g.kind[c] = "function"
    <3>1. q = Append(t, delta)
      BY <1>20, <2>1
    <3>2. Log(q, Here(d), {}, At(d), g.codex)
      BY <1>11, <1>13, <1>18, <1>21, <3>1, LogGoesOn
    <3>3. LogTyped(t)
      BY <1>21 DEF Log
    <3>4. \A x : Say(q, x) = IF x = c THEN Say(t, x) \o <<Parts[h.sent[c]]>> ELSE Say(t, x)
      <4>1. SUFFICES ASSUME NEW x
                     PROVE  Say(Append(t, delta), x) =
                              IF x = c THEN Say(t, x) \o <<Parts[h.sent[c]]>> ELSE Say(t, x)
        BY <3>1
      <4> QED
        BY <1>18, <3>3, LogSays
    <3> QED
      BY <1>21, <2>1, <3>2, <3>4
  <2>2. CASE g.kind[c] # "function"
    BY <1>20, <1>21, <2>2
  <2> QED
    BY <2>1, <2>2
<1>23. Saying(h, d, q)
  <2>1. Say(q, "message") = d.said
    BY <1>1, <1>8, <1>22 DEF Saying
  <2>2. ASSUME NEW x \in Calls, h.kind[x] = "function"
        PROVE  Say(q, x) = SubSeq(Parts, 1, h.sent[x])
    <3>1. Say(l, x) = SubSeq(Parts, 1, g.sent[x])
      BY <1>1, <2>2 DEF Saying
    <3>2. CASE x = c
      <4>1. Say(q, x) = SubSeq(Parts, 1, g.sent[c]) \o <<Parts[g.sent[c] + 1]>>
        BY <1>1, <1>16, <1>22, <2>2, <3>1, <3>2
      <4> QED
        BY <1>16, <3>2, <4>1, PartsGrow
    <3>3. CASE x # c
      <4>1. h.sent[x] = g.sent[x]
        BY <3>3 DEF Asked
      <4> QED
        BY <1>22, <3>1, <3>3, <4>1
    <3> QED
      BY <3>2, <3>3
  <2> QED
    BY <2>1, <2>2 DEF Saying
<1> QED
  BY <1>1, <1>2, <1>22, <1>23 DEF Mid

-----------------------------------------------------------------------------
(* The properties, of any log.                                               *)

OfKind(o, kind) == {i \in DOMAIN o : o[i].kind = kind}
AboutItem(o, item) == {i \in DOMAIN o : o[i].item = item}
ItemsIn(o) == {o[i].item : i \in OfKind(o, "added")}

OnceIn(o, item) ==
  /\ Events!Cardinality(AboutItem(o, item) \cap OfKind(o, "added")) = 1
  /\ Events!Cardinality(AboutItem(o, item) \cap OfKind(o, "done")) <= 1
  /\ \A i, j \in AboutItem(o, item) :
       /\ o[i].index = o[j].index
       /\ i < j => o[j].kind # "added" /\ o[i].kind # "done"

OrderOf(o, g, ended) ==
  /\ o # <<>> => OfKind(o, "created") \union OfKind(o, "error") = {1}
  /\ \A item \in ItemsIn(o) : OnceIn(o, item)
  /\ \A i, j \in OfKind(o, "added") :
       i < j /\ o[j].item # "message" => o[i].index # o[j].index
  /\ g.codex => \A i, j \in OfKind(o, "added") : i # j => o[i].index # o[j].index
  /\ ended => OfKind(o, "completed") \union OfKind(o, "error") = {Len(o)}
  /\ OfKind(o, "completed") # {} =>
       \A item \in ItemsIn(o) : AboutItem(o, item) \cap OfKind(o, "done") # {}
         \/ (item = "message" /\ g.reason \notin {"stop", "tool_calls"})

LEMMA OrderIs == EventsInOrder <=> OrderOf(events, written, mock.ended)
BY DEF EventsInOrder, Events!EventsInOrder, OrderOf, OnceIn, ItemsIn, OfKind, AboutItem,
       Events!Of, Events!About, Events!Items

LEMMA EventsCard == \A S : Events!Cardinality(S) = Cardinality(S)
BY DEF Events!Cardinality, Cardinality

LEMMA AtMostOne ==
  ASSUME NEW S, \A x, y \in S : x = y
  PROVE  Cardinality(S) <= 1 /\ (S # {} => Cardinality(S) = 1)
<1>1. CASE S = {}
  BY <1>1, FS_EmptySet
<1>2. CASE S # {}
  <2>1. PICK x : S = {x}
    BY <1>2
  <2> QED
    BY <1>2, <2>1, FS_Singleton
<1> QED
  BY <1>1, <1>2

(* the log l, or l and the completion after it *)
LogOrMore(o, l) ==
  /\ DOMAIN o = 1..Len(o) /\ Len(o) \in {Len(l), Len(l) + 1}
  /\ \A i \in 1..Len(l) : o[i] = l[i]
  /\ Len(o) = Len(l) + 1 =>
       o[Len(l) + 1].kind = "completed" /\ o[Len(l) + 1].item = "response"

LEMMA InOrder ==
  ASSUME NEW l, NEW here, NEW over, NEW at, NEW g, NEW o, NEW ended,
         Log(l, here, over, at, g.codex), LogOrMore(o, l),
         ended => Len(o) = Len(l) + 1,
         Len(o) = Len(l) + 1 =>
           \A x \in here : x \in over \/ (x = "message" /\ g.reason \notin {"stop", "tool_calls"})
  PROVE  OrderOf(o, g, ended)
<1>1. PICK n : n = Len(l)
  OBVIOUS
<1>2. /\ n \in Nat /\ n >= 1 /\ l[1].kind = "created" /\ l[1].item = "response"
      /\ About(l, here, over, at) /\ Added(l, here) /\ Closed(l, over)
      /\ Framed(l) /\ Distinct(l, g.codex) /\ here \subseteq Items
  BY <1>1 DEF Log, LogTyped
<1>3. PICK k : k = Len(o)
  OBVIOUS
<1>21. /\ DOMAIN o = 1..k /\ k \in Nat /\ (k = n \/ k = n + 1)
       /\ \A i \in 1..n : o[i] = l[i]
       /\ k = n + 1 => o[n + 1].kind = "completed" /\ o[n + 1].item = "response"
  <2>1. /\ DOMAIN o = 1..k /\ k \in {n, n + 1}
        /\ \A i \in 1..n : o[i] = l[i]
        /\ k = n + 1 => o[n + 1].kind = "completed" /\ o[n + 1].item = "response"
    BY <1>1, <1>3 DEF LogOrMore
  <2> QED
    BY <1>2, <2>1
<1>22. 1 \in 1..n /\ \A i \in 2..n : i \in 1..k /\ i \in 1..n /\ i # 1
  BY <1>2, <1>21
<1>23. /\ \A i \in 1..k : i \in Nat /\ (i = 1 \/ i \in 2..n \/ (i = n + 1 /\ k = n + 1))
       /\ 1 \in 1..k
  BY <1>2, <1>21
<1>4. /\ 1 \in DOMAIN o /\ \A i \in 2..n : i \in DOMAIN o /\ i \in 1..n /\ i # 1
      /\ \A i \in DOMAIN o : i = 1 \/ i \in 2..n \/ (i = n + 1 /\ k = n + 1)
      /\ \A i \in DOMAIN o : i \in Nat
  BY <1>21, <1>22, <1>23
<1>5. "response" \notin Items
  BY StreamsAssumption DEF Items
<1>6. o[1].kind = "created" /\ o[1].item = "response"
  BY <1>2, <1>21, <1>22
<1>7. \A i \in 2..n : /\ o[i].kind \in {"added", "delta", "done"} /\ o[i].item \in here
                      /\ o[i].index = at[o[i].item]
                      /\ o[i].kind = "done" => o[i].item \in over
                      /\ o[i].item # "response"
  BY <1>1, <1>2, <1>21, <1>22, <1>5 DEF About
<1>8. \A i, j \in 2..n : i < j /\ o[i].item = o[j].item => o[j].kind # "added" /\ o[i].kind # "done"
  BY <1>1, <1>2, <1>21, <1>22 DEF Framed
<1>9. \A i, j \in 2..n :
        i < j /\ o[i].kind = "added" /\ o[j].kind = "added"
          /\ (o[j].item # "message" \/ g.codex)
            => o[i].index # o[j].index
  BY <1>1, <1>2, <1>21, <1>22 DEF Distinct
<1>10. \A x \in here : \E i \in 2..n : o[i].item = x /\ o[i].kind = "added"
  BY <1>1, <1>2, <1>21, <1>22 DEF Added
<1>11. \A x \in over : \E i \in 2..n : o[i].item = x /\ o[i].kind = "done"
  BY <1>1, <1>2, <1>21, <1>22 DEF Closed
<1>12. /\ OfKind(o, "created") = {1} /\ OfKind(o, "error") = {}
       /\ OfKind(o, "completed") = IF k = n + 1 THEN {n + 1} ELSE {}
       /\ \A a \in {"added", "done"} : OfKind(o, a) = {i \in 2..n : o[i].kind = a}
  <2>1. OfKind(o, "created") = {1} /\ OfKind(o, "error") = {}
    BY <1>4, <1>21, <1>6, <1>7 DEF OfKind
  <2>2. OfKind(o, "completed") = IF k = n + 1 THEN {n + 1} ELSE {}
    <3>1. k = n + 1 => n + 1 \in DOMAIN o
      BY <1>2, <1>21
    <3> QED
      BY <1>4, <1>21, <1>6, <1>7, <3>1 DEF OfKind
  <2>3. OfKind(o, "added") = {i \in 2..n : o[i].kind = "added"}
    BY <1>4, <1>21, <1>6, <1>7 DEF OfKind
  <2>4. OfKind(o, "done") = {i \in 2..n : o[i].kind = "done"}
    BY <1>4, <1>21, <1>6, <1>7 DEF OfKind
  <2> QED
    BY <2>1, <2>2, <2>3, <2>4
<1>13. \A x \in here : AboutItem(o, x) = {i \in 2..n : o[i].item = x}
  <2>1. \A x \in here : x # "response"
    BY <1>2, <1>5
  <2> QED
    BY <1>4, <1>21, <1>6, <1>7, <2>1 DEF AboutItem
<1>14. ItemsIn(o) \subseteq here
  BY <1>7, <1>12 DEF ItemsIn
<1>15. \A i, j \in 2..n : i < j \/ j < i \/ i = j
  BY <1>2
<1>16. ASSUME NEW x \in here PROVE OnceIn(o, x)
  <2>1. PICK A, B : /\ A = AboutItem(o, x) \cap OfKind(o, "added")
                    /\ B = AboutItem(o, x) \cap OfKind(o, "done")
    OBVIOUS
  <2>2. /\ A = {i \in 2..n : o[i].item = x /\ o[i].kind = "added"}
        /\ B = {i \in 2..n : o[i].item = x /\ o[i].kind = "done"}
    BY <1>12, <1>13, <2>1
  <2>3. \A i, j \in A : i = j
    BY <1>8, <1>15, <2>2
  <2>4. \A i, j \in B : i = j
    BY <1>8, <1>15, <2>2
  <2>5. A # {}
    BY <1>10, <2>2
  <2>6. Cardinality(A) = 1 /\ Cardinality(B) <= 1
    BY <2>3, <2>4, <2>5, AtMostOne
  <2>7. \A i, j \in AboutItem(o, x) :
          /\ o[i].index = o[j].index
          /\ i < j => o[j].kind # "added" /\ o[i].kind # "done"
    BY <1>7, <1>8, <1>13
  <2> QED
    BY <2>1, <2>6, <2>7, EventsCard DEF OnceIn
<1>17. g.codex => \A i, j \in OfKind(o, "added") : i # j => o[i].index # o[j].index
  BY <1>9, <1>12, <1>15
<1>18. \A i, j \in OfKind(o, "added") :
         i < j /\ o[j].item # "message" => o[i].index # o[j].index
  BY <1>9, <1>12
<1>19. ended => OfKind(o, "completed") \union OfKind(o, "error") = {Len(o)}
  BY <1>1, <1>3, <1>12
<1>20. OfKind(o, "completed") # {} =>
         \A item \in ItemsIn(o) : AboutItem(o, item) \cap OfKind(o, "done") # {}
           \/ (item = "message" /\ g.reason \notin {"stop", "tool_calls"})
  <2>1. OfKind(o, "completed") # {} => Len(o) = Len(l) + 1
    BY <1>1, <1>3, <1>12
  <2>2. \A x \in over : x \in here => AboutItem(o, x) \cap OfKind(o, "done") # {}
    <3> SUFFICES ASSUME NEW x \in here, x \in over
                 PROVE  AboutItem(o, x) \cap OfKind(o, "done") # {}
      OBVIOUS
    <3>1. PICK i \in 2..n : o[i].item = x /\ o[i].kind = "done"
      BY <1>11
    <3>2. i \in AboutItem(o, x) /\ i \in OfKind(o, "done")
      BY <1>12, <1>13, <3>1
    <3> QED
      BY <3>2
  <2> QED
    BY <1>14, <2>1, <2>2
<1> QED
  BY <1>12, <1>14, <1>16, <1>17, <1>18, <1>19, <1>20 DEF OrderOf

-----------------------------------------------------------------------------
DeltasOf(o, item) ==
  Events!FoldLeft(LAMBDA acc, e : IF e.item = item /\ e.kind = "delta"
                                  THEN acc \o e.what ELSE acc, <<>>, o)

LEMMA DeltasAre ==
  ASSUME NEW seq \in Seq(Told), NEW item
  PROVE  DeltasOf(seq, item) = Say(seq, item)
<1> DEFINE n == Len(seq)
           iter(h) == [T \in SUBSET (1..n) |->
                         IF T = {} THEN <<>>
                         ELSE IF seq[Max(T)].item = item /\ seq[Max(T)].kind = "delta"
                         THEN h[T \ {Max(T)}] \o seq[Max(T)].what
                         ELSE h[T \ {Max(T)}]]
           it == CHOOSE h : h = iter(h)
<1>1. PICK step : step = Telling(item)
  OBVIOUS
<1>2. step \in [Spoken \X Told -> Spoken] /\ <<>> \in Spoken /\ n \in Nat
  <2>1. n \in Nat
    OBVIOUS
  <2> QED
    BY <1>1, <2>1, TellingType
<1>10. PICK g \in Values(n, Spoken) : FoldsTo(g, step, <<>>, seq)
  BY <1>2, StepwiseIs
<1>3. ASSUME NEW T \in SUBSET (1..n)
      PROVE  g[T] = IF T = {} THEN <<>>
                    ELSE IF seq[Max(T)].item = item /\ seq[Max(T)].kind = "delta"
                    THEN g[T \ {Max(T)}] \o seq[Max(T)].what
                    ELSE g[T \ {Max(T)}]
  <2>1. g[T] = IF T = {} THEN <<>> ELSE step[<<g[T \ {Max(T)}], seq[Max(T)]>>]
    BY <1>10 DEF FoldsTo
  <2>2. CASE T # {}
    <3>1. Max(T) \in 1..n
      BY <1>2, <2>2, MaxIn
    <3>2. g[T \ {Max(T)}] \in Spoken /\ seq[Max(T)] \in Told
      <4>1. g \in [SUBSET (1..n) -> Spoken] /\ T \ {Max(T)} \in SUBSET (1..n)
        BY <1>10 DEF Values
      <4> QED
        BY <3>1, <4>1
    <3> QED
      BY <1>1, <2>1, <2>2, <3>2 DEF Telling
  <2> QED
    BY <2>1, <2>2
<1>4. g = iter(g)
  BY <1>10, <1>3 DEF Values
<1>5. it = iter(it)
  <2> HIDE DEF iter
  <2> QED
    BY <1>4
<1>6. \A T \in SUBSET (1..n) :
        it[T] = IF T = {} THEN <<>>
                ELSE IF seq[Max(T)].item = item /\ seq[Max(T)].kind = "delta"
                THEN it[T \ {Max(T)}] \o seq[Max(T)].what
                ELSE it[T \ {Max(T)}]
  <2> HIDE DEF it
  <2> QED
    BY <1>5
<1>7. it[1..n] = g[1..n]
  <2> HIDE DEF it, n
  <2>1. it[{}] = g[{}]
    BY <1>3, <1>6
  <2>2. \A T \in SUBSET (1..n) :
          T # {} /\ it[T \ {Max(T)}] = g[T \ {Max(T)}] => it[T] = g[T]
    BY <1>3, <1>6
  <2> QED
    BY <1>2, <2>1, <2>2, FoldsAgree
<1>8. DOMAIN seq = 1..n
  OBVIOUS
<1>9. DeltasOf(seq, item) = it[1..n]
  BY <1>8, EventsMax DEF DeltasOf, Events!FoldLeft, Events!MapThenFoldSet
<1> QED
  BY <1>1, <1>10, <1>7, <1>9 DEF FoldsTo, Say

(* a response is completed with all of this *)
CompleteOf(o, g, hist, i) ==
  LET said  == o[i].what.text
      calls == o[i].what.calls
      all   == [n \in 1..g.texts |-> n]
  IN /\ said = IF g.codex /\ g.order # <<>> THEN <<>> ELSE all
     /\ DeltasOf(o, "message") = said
     /\ [n \in DOMAIN calls |-> calls[n].id] = g.order
     /\ \A n \in DOMAIN calls :
          LET kind == g.kind[calls[n].id]
          IN /\ calls[n].args = IF kind = "virtual" THEN Events!Discovery
                                ELSE SubSeq(Events!Fragments, 1, g.sent[calls[n].id])
             /\ kind = "function" => DeltasOf(o, calls[n].id) = calls[n].args
     /\ hist = IF said = <<>> /\ calls = <<>> THEN <<>>
               ELSE <<[text |-> said, calls |-> [n \in DOMAIN calls |->
                         [id |-> calls[n].id, args |-> calls[n].args]]]>>

LEMMA CompleteIs ==
  ResponseComplete <=>
    \A i \in OfKind(events, "completed") : CompleteOf(events, written, history, i)
BY DEF ResponseComplete, Events!ResponseComplete, CompleteOf, OfKind, Events!Of,
       Events!Deltas, DeltasOf

LEMMA Completes ==
  ASSUME NEW g, NEW m, NEW l, NEW over, Mid(g, m, l, over), g.codex = written.codex,
         m.said = AllText(g), NEW e,
         e = Events!Event("completed", "response", 0, [text |-> m.said, calls |-> m.calls])
  PROVE  CompleteOf(Append(l, e), g, Events!Turn(m), Len(l) + 1)
<1>1. PICK o, n : o = Append(l, e) /\ n = Len(l)
  OBVIOUS
<1>2. /\ m \in Mocks /\ g \in Givens /\ Numbered(g, m) /\ Saying(g, m, l)
      /\ m.calls \in Seq(Entry) /\ m.said \in Spoken /\ EventsTold(g)
      /\ l \in Seq(LogEvents) /\ l \in Seq(Told)
  BY MockFacts, GivenFacts, LogIsTold DEF Mid, Log, LogTyped
<1>3. e \in Told /\ e.kind = "completed" /\ e.what.text = m.said /\ e.what.calls = m.calls
  <2>1. PICK w : w = [text |-> m.said, calls |-> m.calls]
    OBVIOUS
  <2>2. w \in Spoken \union [text : Spoken, calls : Seq(Entry)] /\ w.text = m.said
        /\ w.calls = m.calls
    BY <1>2, <2>1
  <2>3. e = [kind |-> "completed", item |-> "response", index |-> 0, what |-> w]
    BY <2>1 DEF Events!Event
  <2> QED
    BY <2>2, <2>3 DEF Told
<1>4. o \in Seq(Told) /\ o[n + 1] = e
  BY <1>1, <1>2, <1>3
<1>5. \A x : Say(o, x) = Say(l, x) /\ DeltasOf(o, x) = Say(o, x)
  BY <1>1, <1>2, <1>3, <1>4, SayAppend, DeltasAre
<1>6. DOMAIN m.calls = 1..Len(g.order)
  BY <1>2 DEF Numbered
<1>7. \A k \in DOMAIN m.calls : /\ m.calls[k].id = g.order[k] /\ m.calls[k].id \in Calls
                                /\ m.calls[k].args = ArgsOf(g, m.calls[k].id)
  BY <1>2, <1>6 DEF Numbered, EventsTold
<1>8. [k \in DOMAIN m.calls |-> m.calls[k].id] = g.order
  <2>1. PICK ord \in Seq(Calls) : ord = g.order
    BY <1>2 DEF EventsTold
  <2>2. DOMAIN ord = DOMAIN m.calls
    BY <1>6, <2>1
  <2>3. ord = [k \in DOMAIN ord |-> ord[k]]
    BY <2>1
  <2> QED
    BY <1>7, <2>1, <2>2, <2>3
<1>9. ASSUME NEW k \in DOMAIN m.calls
      PROVE  /\ m.calls[k].args = IF g.kind[m.calls[k].id] = "virtual" THEN Events!Discovery
                                  ELSE SubSeq(Events!Fragments, 1, g.sent[m.calls[k].id])
             /\ g.kind[m.calls[k].id] = "function" =>
                  DeltasOf(o, m.calls[k].id) = m.calls[k].args
  <2>1. PICK c \in Calls : c = m.calls[k].id
    BY <1>7
  <2>2. m.calls[k].args = IF g.kind[c] = "virtual" THEN <<"discovery">>
                          ELSE SubSeq(Parts, 1, g.sent[c])
    BY <1>7, <2>1 DEF ArgsOf
  <2>3. g.kind[c] = "function" => DeltasOf(o, c) = SubSeq(Parts, 1, g.sent[c])
    BY <1>2, <1>5 DEF Saying
  <2>4. Events!Fragments = Parts /\ Events!Discovery = <<"discovery">>
    BY DEF Parts, Events!Discovery, Events!Fragments
  <2> QED
    BY <2>1, <2>2, <2>3, <2>4
<1>10. m.said = IF g.codex /\ g.order # <<>> THEN <<>> ELSE [k \in 1..g.texts |-> k]
  BY DEF AllText, All
<1>11. DeltasOf(o, "message") = m.said
  BY <1>2, <1>5 DEF Saying
<1>12. Events!Turn(m) =
         IF m.said = <<>> /\ m.calls = <<>> THEN <<>>
         ELSE <<[text |-> m.said, calls |-> [k \in DOMAIN m.calls |->
                   [id |-> m.calls[k].id, args |-> m.calls[k].args]]]>>
  <2>1. PICK cs : cs = [k \in DOMAIN m.calls |->
                          [id |-> m.calls[k].id, args |-> m.calls[k].args]]
    OBVIOUS
  <2>2. cs # <<>> <=> m.calls # <<>>
    <3>1. DOMAIN cs = DOMAIN m.calls
      BY <2>1
    <3>2. m.calls = <<>> => cs = <<>>
      BY <2>1
    <3>3. m.calls # <<>> => cs # <<>>
      <4>1. m.calls # <<>> => 1 \in DOMAIN m.calls
        BY <1>2
      <4>2. 1 \notin DOMAIN <<>>
        OBVIOUS
      <4> QED
        BY <3>1, <4>1, <4>2
    <3> QED
      BY <3>2, <3>3
  <2>3. (IF m.calls # <<>> /\ g.codex THEN <<>> ELSE m.said) = m.said
    BY DEF Mid
  <2>4. Events!Turn(m) = IF cs # <<>> \/ m.said # <<>>
                         THEN <<[text |-> m.said, calls |-> cs]>> ELSE <<>>
    BY <2>1, <2>3 DEF Events!Turn, Events!Saw
  <2> QED
    BY <2>1, <2>2, <2>4
<1>13. o[n + 1] = e /\ o[n + 1].what.text = m.said /\ o[n + 1].what.calls = m.calls
  BY <1>3, <1>4
<1>14. CompleteOf(o, g, Events!Turn(m), n + 1)
  BY <1>8, <1>9, <1>10, <1>11, <1>12, <1>13 DEF CompleteOf
<1> QED
  BY <1>1, <1>14

-----------------------------------------------------------------------------
(* Steps of the translator keep what it holds and what was written together. *)

Fresh(g, m, o) ==
  /\ g.order = <<>> /\ g.sent = [c \in Calls |-> 0] /\ g.texts = 0 /\ g.reason = "none"
  /\ m = [status |-> "none", said |-> <<>>, deferred |-> <<>>, held |-> <<>>,
          calls |-> <<>>, ended |-> FALSE]
  /\ o = <<>>

Refused(m, o) == m.status = "error" /\ ~m.ended /\ o = <<>>

Closing(g, m, o, remembered) ==
  /\ m.ended /\ OrderOf(o, g, TRUE)
  /\ \A i \in OfKind(o, "completed") : CompleteOf(o, g, remembered, i)

Along(g, m, o, remembered) ==
  /\ g \in Givens /\ m \in Mocks
  /\ Fresh(g, m, o) \/ Refused(m, o) \/ Running(g, m, o) \/ Closing(g, m, o, remembered)

(* The inductive invariant. *)
EventsInv == Along(written, mock, events, history)

LEMMA EventsBegin == Events!Init => EventsInv
<1> SUFFICES ASSUME Events!Init PROVE EventsInv
  OBVIOUS
<1>1. PICK codex \in BOOLEAN, kinds \in KindSets :
        written = [codex |-> codex, kind |-> kinds, order |-> <<>>,
                   sent |-> [c \in Calls |-> 0], texts |-> 0, reason |-> "none"]
  BY DEF Events!Init
<1>2. kinds \in [Calls -> {"function", "custom", "virtual"}]
  BY StreamsAssumption
<1>3. written \in Givens
  <2>1. PICK none : none = <<>>
    OBVIOUS
  <2>2. none \in Seq(Calls)
    BY <2>1
  <2>3. PICK sent : sent = [c \in Calls |-> 0]
    OBVIOUS
  <2>4. sent \in [Calls -> 0..2]
    BY <2>3
  <2>5. written = [codex |-> codex, kind |-> kinds, order |-> none, sent |-> sent,
                   texts |-> 0, reason |-> "none"]
    BY <1>1, <2>1, <2>3
  <2> QED
    BY <1>2, <2>2, <2>4, <2>5 DEF Givens, Reasons
<1>4. mock \in Mocks
  <2>1. <<>> \in Spoken /\ <<>> \in Seq(Entry)
    BY DEF Spoken
  <2> QED
    BY <2>1 DEF Events!Init, Mocks
<1>5. Fresh(written, mock, events)
  BY <1>1 DEF Events!Init, Fresh
<1> QED
  BY <1>3, <1>4, <1>5 DEF EventsInv, Along

LEMMA FreshRuns ==
  ASSUME NEW g \in Givens, NEW m, NEW d \in Mocks, NEW e, Fresh(g, m, <<>>),
         d = [m EXCEPT !.status = "ok"], e = Events!Event("created", "response", 0, <<>>)
  PROVE  Running(g, d, <<e>>)
<1>1. /\ d.status = "ok" /\ d.said = <<>> /\ d.deferred = <<>> /\ d.held = <<>>
      /\ d.calls = <<>> /\ ~d.ended
  BY DEF Fresh
<1>2. /\ g.order = <<>> /\ g.sent = [c \in Calls |-> 0] /\ g.texts = 0 /\ g.reason = "none"
  BY DEF Fresh
<1>3. PICK none : none = <<>>
  OBVIOUS
<1>4. none \in Spoken /\ Len(none) = 0 /\ DOMAIN none = {} /\ none \o none = none
  BY <1>3 DEF Spoken
<1>5. e \in LogEvents /\ e.kind = "created" /\ e.item = "response"
  BY <1>3, <1>4 DEF Events!Event, LogEvents
<1>6. Numbered(g, d)
  BY <1>1, <1>2, <1>3, <1>4 DEF Numbered
<1>7. Apart(d) /\ At(d) \in [Items -> Nat] /\ Ids(d) = {} /\ Here(d) = {}
  <2>1. Apart(d)
    BY <1>1, <1>3, <1>4 DEF Apart
  <2>2. AtKnown(d)
    BY <2>1, AtFacts
  <2> QED
    BY <1>1, <1>3, <1>4, <2>1, <2>2 DEF AtKnown, Ids, Here
<1>8. Log(<<e>>, {}, {}, At(d), g.codex)
  BY <1>5, <1>7, LogStarts
<1>9. ASSUME NEW x PROVE Say(<<e>>, x) = <<>>
  <2>1. <<>> \in Seq(Told) /\ e \in Told /\ Append(<<>>, e) = <<e>>
    BY <1>5, LogIsTold
  <2>2. PICK s : s = <<e>>
    OBVIOUS
  <2>3. Say(Append(<<>>, e), x) =
          IF e.item = x /\ e.kind = "delta" THEN Say(<<>>, x) \o e.what ELSE Say(<<>>, x)
    BY <2>1, SayAppend
  <2> QED
    BY <1>5, <2>1, <2>3, SayNothing
<1>10. Saying(g, d, <<e>>)
  <2>1. SubSeq(Parts, 1, 0) = <<>>
    BY PartsFacts
  <2>2. \A c \in Calls : g.sent[c] = 0
    BY <1>2
  <2> QED
    BY <1>1, <1>9, <2>1, <2>2 DEF Saying
<1>11. Over(g, d) = {}
  BY <1>2 DEF Over, MessageOver
<1>12. Mid(g, d, <<e>>, {})
  BY <1>1, <1>6, <1>7, <1>8, <1>10 DEF Mid
<1>13. Worded(g, d)
  <2>1. All(0) = <<>>
    BY DEF All
  <2> QED
    BY <1>1, <1>2, <1>3, <1>4, <2>1 DEF Worded
<1> QED
  BY <1>1, <1>3, <1>4, <1>11, <1>12, <1>13 DEF Running

LEMMA WritingHead == ASSUME EventsInv, Events!WriteHead PROVE EventsInv'
<1>1. mock.status = "none" /\ ~mock.ended /\ written' = written
  BY DEF Events!WriteHead
<1>2. written \in Givens /\ mock \in Mocks /\ Fresh(written, mock, events)
  BY <1>1 DEF EventsInv, Along, Refused, Running, Closing
<1>3. events = <<>>
  BY <1>2 DEF Fresh
<1>4. CASE Events!Becomes(Events!Step([mock EXCEPT !.status = "ok"],
                          <<Events!Event("created", "response", 0, <<>>)>>))
  <2>1. PICK e : e = Events!Event("created", "response", 0, <<>>)
    OBVIOUS
  <2>2. mock' = [mock EXCEPT !.status = "ok"] /\ events' = <<>> \o <<e>>
    BY <1>3, <1>4, <2>1 DEF Events!Becomes, Events!Step
  <2>3. events' = <<e>>
    BY <2>2
  <2>4. mock' \in Mocks
    BY <1>2, <2>2 DEF Mocks
  <2>5. Fresh(written, mock, <<>>)
    BY <1>2, <1>3
  <2>6. Running(written, mock', <<e>>)
    BY <1>2, <2>1, <2>2, <2>4, <2>5, FreshRuns
  <2> QED
    BY <1>1, <1>2, <2>3, <2>4, <2>6 DEF EventsInv, Along
<1>5. CASE Events!Becomes(Events!Step([mock EXCEPT !.status = "error"], <<>>))
  <2>1. mock' = [mock EXCEPT !.status = "error"] /\ events' = <<>> \o <<>>
    BY <1>3, <1>5 DEF Events!Becomes, Events!Step
  <2>2. mock' \in Mocks /\ mock'.status = "error" /\ ~mock'.ended /\ events' = <<>>
    BY <1>1, <1>2, <2>1 DEF Mocks
  <2> QED
    BY <1>1, <1>2, <2>2 DEF EventsInv, Along, Refused
<1> QED
  BY <1>4, <1>5 DEF Events!WriteHead

(* what was written and is not yet with the client, or not of a call *)
LEMMA MidGiven ==
  ASSUME NEW g, NEW m, NEW o, NEW over, Mid(g, m, o, over),
         NEW h \in Givens, h.codex = g.codex, h.kind = g.kind, h.order = g.order,
         h.sent = g.sent
  PROVE  Mid(h, m, o, over)
<1>1. Numbered(h, m) /\ Saying(h, m, o)
  BY DEF Mid, Numbered, ArgsOf, Saying
<1> QED
  BY <1>1 DEF Mid

LEMMA AllGrow ==
  ASSUME NEW n \in Nat
  PROVE  /\ All(n) \in Spoken /\ <<n + 1>> \in Spoken /\ All(n) \o <<n + 1>> = All(n + 1)
<1>1. \A i \in 1..n : i \in Words
  BY DEF Words
<1>2. All(n) \in Spoken /\ Len(All(n)) = n
  BY <1>1 DEF All, Spoken
<1>3. n + 1 \in Words
  BY DEF Words
<1>4. PICK a, b, x : a = All(n) /\ b = <<n + 1>> /\ x = n + 1
  OBVIOUS
<1>5. a \in Seq(Words) /\ b \in Seq(Words) /\ Len(a) = n /\ Len(b) = 1 /\ b[1] = x
  BY <1>2, <1>3, <1>4 DEF Spoken
<1>6. PICK c : c = a \o b
  OBVIOUS
<1>7. /\ c \in Seq(Words) /\ Len(c) = n + 1
      /\ \A i \in 1..(n + 1) : c[i] = IF i <= n THEN a[i] ELSE b[i - n]
  <2>1. /\ a \o b \in Seq(Words) /\ Len(a \o b) = Len(a) + Len(b)
        /\ \A i \in 1..(Len(a) + Len(b)) :
             (a \o b)[i] = IF i <= Len(a) THEN a[i] ELSE b[i - Len(a)]
    BY <1>5, ConcatProperties, Zenon
  <2>2. c \in Seq(Words) /\ Len(c) = n + 1
    BY <1>5, <1>6, <2>1
  <2>3. \A i \in 1..(n + 1) : c[i] = IF i <= n THEN a[i] ELSE b[i - n]
    BY <1>5, <1>6, <2>1
  <2> QED
    BY <2>2, <2>3
<1>8. \A i \in 1..(n + 1) : c[i] = i
  <2>1. \A i \in 1..n : c[i] = a[i] /\ a[i] = i
    BY <1>4, <1>7 DEF All
  <2>2. c[n + 1] = x
    BY <1>5, <1>7
  <2>3. \A i \in 1..(n + 1) : i \in 1..n \/ i = n + 1
    OBVIOUS
  <2> QED
    BY <1>4, <2>1, <2>2, <2>3
<1>9. c = All(n + 1)
  <2>1. DOMAIN c = 1..(n + 1) /\ c = [i \in DOMAIN c |-> c[i]]
    BY <1>7
  <2> QED
    BY <1>8, <2>1 DEF All
<1> QED
  BY <1>2, <1>4, <1>5, <1>6, <1>9 DEF Spoken

(* of what was held back and what comes, the first n words are said *)
LEMMA Cut ==
  ASSUME NEW S, NEW said \in Seq(S), NEW all \in Seq(S), NEW n \in 0..Len(all)
  PROVE  /\ SubSeq(all, 1, n) \in Seq(S) /\ SubSeq(all, n + 1, Len(all)) \in Seq(S)
         /\ (said \o SubSeq(all, 1, n)) \o SubSeq(all, n + 1, Len(all)) = said \o all
<1>1. PICK a, b, k : a = SubSeq(all, 1, n) /\ b = SubSeq(all, n + 1, k) /\ k = Len(all)
  OBVIOUS
<1>2. k \in Nat /\ n \in 0..k /\ \A i \in 1..k : all[i] \in S
  BY <1>1
<1>3. a \in Seq(S)
  <2>1. 1 \in Int /\ n \in Int /\ \A i \in 1..n : all[i] \in S
    BY <1>2
  <2> QED
    BY <1>1, <2>1, SubSeqProperties
<1>4. b \in Seq(S)
  <2>1. n + 1 \in Int /\ k \in Int /\ \A i \in (n + 1)..k : all[i] \in S
    BY <1>2
  <2> QED
    BY <1>1, <2>1, SubSeqProperties
<1>5. a \o b = all
  <2>1. 1 \in 1..(Len(all) + 1) /\ n \in (1 - 1)..Len(all) /\ Len(all) \in n..Len(all)
    BY <1>1, <1>2
  <2>2. SubSeq(all, 1, n) \o SubSeq(all, n + 1, Len(all)) = SubSeq(all, 1, Len(all))
    BY <2>1, ConcatAdjacentSubSeq
  <2> QED
    BY <1>1, <2>2, SubSeqFull
<1>6. (said \o a) \o b = said \o (a \o b)
  BY <1>3, <1>4
<1> QED
  BY <1>1, <1>3, <1>4, <1>5, <1>6, Zenon

LEMMA ConcatSpoken ==
  ASSUME NEW a \in Spoken, NEW b \in Spoken, NEW c \in Spoken
  PROVE  a \o b \in Spoken /\ (a \o b) \o c = a \o (b \o c) /\ a \o <<>> = a
BY ConcatProperties, ConcatAssociative, ConcatEmptySeq DEF Spoken

(* nothing more is written of an answer once it has a reason *)
LEMMA StreamingRuns ==
  ASSUME EventsInv, mock.status = "ok", ~mock.ended
  PROVE  /\ written \in Givens /\ mock \in Mocks /\ Running(written, mock, events)
         /\ events \in Seq(LogEvents) /\ events \o <<>> = events
<1>1. written \in Givens /\ mock \in Mocks /\ Running(written, mock, events)
  <2>1. ~Fresh(written, mock, events)
    BY DEF Fresh
  <2>2. ~Refused(mock, events)
    BY DEF Refused
  <2>3. ~Closing(written, mock, events, history)
    BY DEF Closing
  <2> QED
    BY <2>1, <2>2, <2>3 DEF EventsInv, Along
<1>2. events \in Seq(LogEvents)
  BY <1>1 DEF Running, Mid, Log, LogTyped
<1> QED
  BY <1>1, <1>2

LEMMA Texting == ASSUME EventsInv, Events!Text PROVE EventsInv'
<1>1. /\ mock.status = "ok" /\ ~mock.ended /\ written.reason = "none"
      /\ written' = [written EXCEPT !.texts = @ + 1]
  BY DEF Events!Text, Events!Streaming
<1>2. /\ written \in Givens /\ mock \in Mocks /\ Running(written, mock, events)
      /\ events \in Seq(LogEvents) /\ events \o <<>> = events
  BY <1>1, StreamingRuns
<1>3. PICK g, h : g = written /\ h = written'
  OBVIOUS
<1>4. /\ EventsTold(g) /\ h \in Givens /\ h.codex = g.codex /\ h.kind = g.kind
      /\ h.order = g.order /\ h.sent = g.sent /\ h.reason = "none" /\ h.texts = g.texts + 1
      /\ g.reason = "none"
  <2>1. EventsTold(g)
    BY <1>2, <1>3, GivenFacts
  <2>2. g \in Givens /\ h = [g EXCEPT !.texts = g.texts + 1] /\ g.texts + 1 \in Nat
    BY <1>1, <1>2, <1>3, <2>1 DEF EventsTold
  <2> QED
    BY <1>1, <1>3, <2>1, <2>2 DEF Givens
<1>5. PICK text : text = <<h.texts>>
  OBVIOUS
<1>6. text \in Spoken
  BY <1>4, <1>5, AllGrow DEF EventsTold
<1>13. All(g.texts) \o text = All(h.texts)
  BY <1>4, <1>5, AllGrow DEF EventsTold
<1>7. Over(g, mock) = {} /\ \A m : Over(h, m) = {}
  BY <1>4 DEF Over, MessageOver
<1>8. Mid(h, mock, events, {}) /\ Worded(g, mock) /\ \A i \in DOMAIN mock.calls : ~mock.calls[i].done
  <2>1. Mid(g, mock, events, {})
    BY <1>2, <1>3, <1>7 DEF Running
  <2> QED
    BY <1>2, <1>3, <1>4, <2>1, MidGiven DEF Running
<1>9. PICK said \in Spoken, deferred \in Spoken, held \in Spoken :
        said = mock.said /\ deferred = mock.deferred /\ held = mock.held
  BY <1>2, MockFacts
<1>10. CASE g.codex
  <2>1. mock' = [mock EXCEPT !.deferred = deferred \o text] /\ events' = events \o <<>>
    BY <1>3, <1>5, <1>9, <1>10 DEF Events!Text, Events!Becomes, Events!Step
  <2>2. deferred \o text \in Spoken
    BY <1>6, ConcatSpoken
  <2>3. /\ mock' \in Mocks /\ mock'.said = said /\ mock'.calls = mock.calls
        /\ mock'.held = held /\ mock'.deferred = deferred \o text
        /\ mock'.status = "ok" /\ ~mock'.ended
    BY <1>1, <1>2, <1>9, <2>1, <2>2 DEF Mocks
  <2>4. Mid(h, mock', events, {})
    BY <1>8, <1>9, <2>3, MidAside
  <2>5. Worded(h, mock')
    <3>1. said = <<>> /\ held = <<>>
      BY <1>4, <1>8, <1>9, <1>10 DEF Worded
    <3>2. h.order = <<>> => said \o (deferred \o text) = All(h.texts)
      <4>1. (said \o deferred) \o text = said \o (deferred \o text)
        BY <1>6 DEF Spoken
      <4> QED
        BY <1>4, <1>8, <1>9, <1>10, <1>13, <4>1 DEF Worded
    <3> QED
      BY <1>4, <1>10, <2>3, <3>1, <3>2 DEF Worded
  <2>6. Running(h, mock', events)
    BY <1>4, <1>7, <1>8, <2>3, <2>4, <2>5 DEF Running
  <2> QED
    BY <1>2, <1>3, <1>4, <2>1, <2>3, <2>6 DEF EventsInv, Along
<1>11. CASE ~g.codex
  <2>1. \E step \in Events!Sanitized(Events!Step(mock, <<>>), text) : Events!Becomes(step)
    BY <1>3, <1>5, <1>11 DEF Events!Text
  <2>2. PICK all : all = held \o text
    OBVIOUS
  <2>3. PICK n \in 0..Len(all) :
          Events!Becomes(Events!Emit(
            Events!Step([mock EXCEPT !.held = SubSeq(all, n + 1, Len(all))], <<>>),
            SubSeq(all, 1, n)))
    BY <1>9, <2>1, <2>2 DEF Events!Sanitized, Events!Step
  <2>4. PICK a, b : a = SubSeq(all, 1, n) /\ b = SubSeq(all, n + 1, Len(all))
    OBVIOUS
  <2>5. all \in Spoken
    BY <1>6, <2>2 DEF Spoken
  <2>6. a \in Spoken /\ b \in Spoken /\ (said \o a) \o b = said \o all
    BY <2>4, <2>5, Cut DEF Spoken
  <2>7. PICK d : d = [mock EXCEPT !.held = b]
    OBVIOUS
  <2>8. /\ d \in Mocks /\ d.said = said /\ d.calls = mock.calls /\ d.held = b
        /\ d.deferred = deferred /\ d.status = "ok" /\ ~d.ended
    BY <1>1, <1>2, <1>9, <2>6, <2>7 DEF Mocks
  <2>9. Mid(h, d, events \o <<>>, {})
    BY <1>2, <1>8, <1>9, <2>8, MidAside
  <2>10. PICK s : s = Events!Emit(Events!Step(d, <<>>), a)
    OBVIOUS
  <2>11. Emitted(h, d, events, a, {}, s)
    <3>1. <<>> \in Seq(LogEvents)
      OBVIOUS
    <3> QED
      BY <1>2, <1>4, <1>11, <2>6, <2>9, <2>10, <3>1, EmitMid
  <2>12. mock' = s.m /\ events' = events \o s.events
    BY <2>3, <2>4, <2>7, <2>10 DEF Events!Becomes
  <2>13. mock' = [d EXCEPT !.said = said \o a] /\ said \o a \in Spoken
    BY <1>9, <2>6, <2>8, <2>11, <2>12, ConcatSpoken DEF Emitted
  <2>14. /\ mock' \in Mocks /\ mock'.said = said \o a /\ mock'.calls = mock.calls
         /\ mock'.held = b /\ mock'.deferred = deferred
         /\ mock'.status = "ok" /\ ~mock'.ended
    BY <2>8, <2>13 DEF Mocks
  <2>15. Mid(h, mock', events', {})
    BY <2>11, <2>12 DEF Emitted
  <2>16. mock'.said \o mock'.held = All(h.texts) /\ deferred = <<>>
    <3>1. (said \o held) \o text = said \o all
      BY <1>6, <2>2 DEF Spoken
    <3>2. said \o held = All(g.texts) /\ deferred = <<>>
      BY <1>8, <1>9, <1>11 DEF Worded
    <3> QED
      BY <1>13, <2>6, <2>14, <3>1, <3>2
  <2>17. Worded(h, mock')
    BY <1>4, <1>11, <2>14, <2>16 DEF Worded
  <2>18. Running(h, mock', events')
    BY <1>4, <1>7, <1>8, <2>14, <2>15, <2>17 DEF Running
  <2> QED
    BY <1>3, <1>4, <2>14, <2>18 DEF EventsInv, Along
<1>12. g.codex \in BOOLEAN
  BY <1>4 DEF EventsTold
<1> QED
  BY <1>10, <1>11

(* the calls q after a new one was taken down, before its fragment *)
Noted(g, m, h, c, i, q) ==
  /\ q \in Seq(Entry) /\ Len(q) = Len(h.order) /\ i \in 1..Len(q)
  /\ \A k \in 1..Len(m.calls) : k \in 1..Len(q) /\ q[k] = m.calls[k]
  /\ q[i].id = c /\ q[i].args = ArgsOf(g, c)
  /\ h.order # g.order =>
       q[i].index = Len(g.order) + (IF m.said = <<>> THEN 0 ELSE 1) /\ ~q[i].done

NewCall(m, c, i) ==
  [id |-> c, index |-> Events!OutputIndex(m, i), done |-> FALSE,
   args |-> IF written.kind[c] = "virtual" THEN Events!Discovery ELSE <<>>]

LEMMA Noting ==
  ASSUME NEW g, NEW m \in Mocks, NEW h, NEW c \in Calls, NEW i, g \in Givens,
         Numbered(g, m), Asked(g, h, c, i), g.kind = written.kind
  PROVE  /\ i \in DOMAIN m.calls <=> h.order = g.order
         /\ Noted(g, m, h, c, i, IF i \in DOMAIN m.calls THEN m.calls
                                 ELSE Append(m.calls, NewCall(m, c, i)))
         /\ i \notin DOMAIN m.calls =>
              Append(m.calls, NewCall(m, c, i))[i] = NewCall(m, c, i)
<1>1. PICK calls, n : calls = m.calls /\ n = Len(calls)
  OBVIOUS
<1>2. /\ calls \in Seq(Entry) /\ n \in Nat /\ DOMAIN calls = 1..n /\ Len(g.order) = n
      /\ EventsTold(g)
  BY <1>1, MockFacts, GivenFacts DEF Numbered
<1>3. CASE h.order = g.order
  <2>1. i \in 1..n /\ g.order[i] = c
    BY <1>2, <1>3 DEF Asked
  <2>2. calls[i].id = c /\ calls[i].args = ArgsOf(g, c)
    BY <1>1, <1>2, <2>1 DEF Numbered
  <2> QED
    BY <1>1, <1>2, <1>3, <2>1, <2>2 DEF Noted
<1>4. CASE h.order # g.order
  <2>1. /\ g.order \in Seq(Calls) /\ h.order = Append(g.order, c) /\ i = n + 1
        /\ \A j \in 1..n : g.order[j] # c
    BY <1>2, <1>4 DEF Asked
  <2>2. i \notin 1..n /\ i \in 1..(n + 1) /\ i \in Nat /\ Len(h.order) = n + 1
    BY <1>2, <2>1
  <2>3. PICK new : new = NewCall(m, c, i)
    OBVIOUS
  <2>4. PICK at : at = Events!OutputIndex(m, i)
    OBVIOUS
  <2>5. at \in Nat /\ at = n + (IF m.said = <<>> THEN 0 ELSE 1)
    BY <1>2, <2>1, <2>4 DEF Events!OutputIndex
  <2>6. g.sent[c] = 0
    BY <1>2, <2>1 DEF Numbered
  <2>7. SubSeq(Parts, 1, 0) = <<>>
    BY PartsFacts
  <2>8. PICK args \in Spoken : args = ArgsOf(g, c)
    <3>1. "discovery" \in Words
      BY DEF Words
    <3>2. <<"discovery">> \in Spoken /\ <<>> \in Spoken
      BY <3>1 DEF Spoken
    <3>3. ArgsOf(g, c) \in Spoken
      BY <2>6, <2>7, <3>2 DEF ArgsOf
    <3> QED
      BY <3>3
  <2>9. args = IF written.kind[c] = "virtual" THEN Events!Discovery ELSE <<>>
    BY <2>6, <2>7, <2>8 DEF ArgsOf, Events!Discovery
  <2>10. new = [id |-> c, index |-> at, done |-> FALSE, args |-> args]
    BY <2>3, <2>4, <2>9 DEF NewCall
  <2>11. new \in Entry /\ new.id = c /\ new.index = at /\ ~new.done /\ new.args = args
    BY <2>5, <2>10 DEF Entry
  <2>12. PICK q : q = Append(calls, new)
    OBVIOUS
  <2>13. q \in Seq(Entry) /\ Len(q) = n + 1 /\ q[n + 1] = new /\ \A k \in 1..n : q[k] = calls[k]
    BY <1>1, <1>2, <2>11, <2>12, AppendProperties
  <2>14. \A k \in 1..n : k \in 1..(n + 1)
    BY <1>2
  <2>15. Noted(g, m, h, c, i, q)
    BY <1>1, <1>2, <2>1, <2>2, <2>5, <2>8, <2>11, <2>13, <2>14 DEF Noted
  <2> QED
    BY <1>1, <1>2, <1>4, <2>1, <2>2, <2>3, <2>12, <2>13, <2>15
<1> QED
  BY <1>3, <1>4

(* and with it *)
WithPart(g, h, c, i, q) ==
  IF g.kind[c] = "virtual" THEN q ELSE [q EXCEPT ![i].args = Append(@, Parts[h.sent[c]])]

LEMMA Changed ==
  ASSUME NEW S, NEW q \in Seq(S), NEW i \in 1..Len(q), NEW f \in S,
         NEW r, r = [q EXCEPT ![i] = f]
  PROVE  /\ r \in Seq(S) /\ Len(r) = Len(q) /\ r[i] = f
         /\ \A k \in 1..Len(q) : k # i => r[k] = q[k]
BY ExceptSeq

LEMMA NotedCalled ==
  ASSUME NEW g, NEW m \in Mocks, NEW h, NEW c \in Calls, NEW i, g \in Givens, NEW q,
         Numbered(g, m), Asked(g, h, c, i), g.sent[c] < 2, Noted(g, m, h, c, i, q), NEW r,
         r = WithPart(g, h, c, i, q)
  PROVE  /\ Called(g, m, h, c, i, r) /\ r[i].index = q[i].index
         /\ \A k \in 1..Len(q) : r[k].done = q[k].done
<1>1. PICK n : n = Len(q)
  OBVIOUS
<1>2. /\ q \in Seq(Entry) /\ n \in Nat /\ DOMAIN q = 1..n /\ i \in 1..n /\ n = Len(h.order)
      /\ \A k \in 1..Len(m.calls) : k \in 1..n /\ q[k] = m.calls[k]
      /\ q[i].id = c /\ q[i].args = ArgsOf(g, c) /\ q[i] \in Entry
      /\ h.order # g.order =>
           q[i].index = Len(g.order) + (IF m.said = <<>> THEN 0 ELSE 1) /\ ~q[i].done
  <2>1. /\ q \in Seq(Entry) /\ i \in 1..n /\ n = Len(h.order)
        /\ \A k \in 1..Len(m.calls) : k \in 1..n /\ q[k] = m.calls[k]
        /\ q[i].id = c /\ q[i].args = ArgsOf(g, c)
        /\ h.order # g.order =>
             q[i].index = Len(g.order) + (IF m.said = <<>> THEN 0 ELSE 1) /\ ~q[i].done
    BY <1>1 DEF Noted
  <2>2. n \in Nat /\ DOMAIN q = 1..n /\ \A k \in 1..n : q[k] \in Entry
    <3>1. q \in Seq(Entry)
      BY DEF Noted
    <3> QED
      BY <1>1, <3>1, LenProperties, ElementOfSeq
  <2> QED
    BY <2>1, <2>2
<1>3. /\ g.sent[c] \in 0..2 /\ h.sent[c] = g.sent[c] + 1 /\ h.kind = g.kind
  BY GivenFacts DEF Asked, EventsTold
<1>4. CASE g.kind[c] = "virtual"
  <2>1. ArgsOf(h, c) = ArgsOf(g, c) /\ r = q
    BY <1>3, <1>4 DEF ArgsOf, WithPart
  <2> QED
    BY <1>1, <1>2, <2>1 DEF Called
<1>5. CASE g.kind[c] # "virtual"
  <2>1. PICK e, word : e = q[i] /\ word = Parts[h.sent[c]]
    OBVIOUS
  <2>2. Append(e.args, word) = ArgsOf(h, c) /\ Append(e.args, word) \in Spoken
    <3>1. e.args = SubSeq(Parts, 1, g.sent[c]) /\ ArgsOf(h, c) = SubSeq(Parts, 1, g.sent[c] + 1)
      BY <1>2, <1>3, <1>5, <2>1 DEF ArgsOf
    <3> QED
      BY <1>3, <2>1, <3>1, PartsGrow
  <2>3. PICK f : f = [e EXCEPT !.args = Append(e.args, word)]
    OBVIOUS
  <2>4. f \in Entry /\ f.id = c /\ f.index = e.index /\ f.done = e.done /\ f.args = ArgsOf(h, c)
    BY <1>2, <2>1, <2>2, <2>3 DEF Entry
  <2>5. r = [q EXCEPT ![i] = f]
    BY <1>2, <1>5, <2>1, <2>3 DEF WithPart
  <2>6. /\ r \in Seq(Entry) /\ Len(r) = n /\ r[i] = f
        /\ \A k \in 1..n : k # i => r[k] = q[k]
    <3>1. i \in 1..Len(q) /\ f \in Entry /\ q \in Seq(Entry)
      BY <1>1, <1>2, <2>4
    <3>2. /\ r \in Seq(Entry) /\ Len(r) = Len(q) /\ r[i] = f
          /\ \A k \in 1..Len(q) : k # i => r[k] = q[k]
      BY <2>5, <3>1, Changed
    <3> QED
      BY <1>1, <3>2
  <2>7. \A k \in 1..n : /\ r[k].id = q[k].id /\ r[k].index = q[k].index
                        /\ r[k].done = q[k].done
    <3> SUFFICES ASSUME NEW k \in 1..n
                 PROVE  r[k].id = q[k].id /\ r[k].index = q[k].index /\ r[k].done = q[k].done
      OBVIOUS
    <3>1. CASE k = i
      BY <1>2, <2>1, <2>4, <2>6, <3>1
    <3>2. CASE k # i
      BY <2>6, <3>2
    <3> QED
      BY <3>1, <3>2
  <2>8. /\ \A k \in 1..Len(m.calls) :
             /\ r[k].id = m.calls[k].id /\ r[k].index = m.calls[k].index
             /\ r[k].done = m.calls[k].done /\ (k # i => r[k].args = m.calls[k].args)
    BY <1>2, <2>6, <2>7
  <2>9. r[i].id = c /\ r[i].args = ArgsOf(h, c) /\ r[i].index = q[i].index /\ r[i].done = q[i].done
    BY <2>1, <2>4, <2>6
  <2> QED
    BY <1>1, <1>2, <2>6, <2>7, <2>8, <2>9 DEF Called
<1> QED
  BY <1>4, <1>5

LEMMA Fragmenting ==
  ASSUME EventsInv, NEW c \in Calls, Events!Fragment(c)
  PROVE  EventsInv'
<1>1. /\ mock.status = "ok" /\ ~mock.ended /\ written.reason = "none"
      /\ written.sent[c] < 2
      /\ written' = [written EXCEPT !.sent[c] = @ + 1,
                       !.order = IF c \in Events!ToSet(@) THEN @ ELSE Append(@, c)]
      /\ Events!Becomes(Events!ToolDelta(mock, c, Parts[written'.sent[c]]))
  BY DEF Events!Fragment, Events!Streaming, Events!Fragments, Parts
<1>2. /\ written \in Givens /\ mock \in Mocks /\ Running(written, mock, events)
      /\ events \in Seq(LogEvents) /\ events \o <<>> = events
  BY <1>1, StreamingRuns
<1>3. PICK g, h, m, l, i : /\ g = written /\ h = written' /\ m = mock /\ l = events
                           /\ i = Events!Position(c)
  OBVIOUS
<1>4. Over(g, m) = {} /\ Over(g, m) = {}
  BY <1>1, <1>3 DEF Over, MessageOver
<1>5. /\ Mid(g, m, l, {}) /\ Numbered(g, m) /\ Worded(g, m)
      /\ \A k \in DOMAIN m.calls : ~m.calls[k].done
  BY <1>1, <1>2, <1>3, <1>4 DEF Running, Mid
<1>6. Asked(g, h, c, i)
  BY <1>1, <1>2, <1>3, <1>5, AskedIs
<1>7. PICK q : q = IF i \in DOMAIN m.calls THEN m.calls ELSE Append(m.calls, NewCall(m, c, i))
  OBVIOUS
<1>8. /\ i \in DOMAIN m.calls <=> h.order = g.order
      /\ Noted(g, m, h, c, i, q)
      /\ i \notin DOMAIN m.calls =>
           Append(m.calls, NewCall(m, c, i))[i] = NewCall(m, c, i)
  BY <1>2, <1>3, <1>5, <1>6, <1>7, Noting
<1>9. PICK r : r = WithPart(g, h, c, i, q)
  OBVIOUS
<1>10. /\ Called(g, m, h, c, i, r) /\ r[i].index = q[i].index
       /\ \A k \in 1..Len(q) : r[k].done = q[k].done
  <2>1. g \in Givens /\ m \in Mocks /\ g.sent[c] < 2
    BY <1>1, <1>2, <1>3
  <2> QED
    BY <1>5, <1>6, <1>8, <1>9, <2>1, NotedCalled
<1>11. PICK at : at = q[i].index
  OBVIOUS
<1>12. PICK added, delta : /\ added = Events!Event("added", c, at, <<>>)
                           /\ delta = Events!Event("delta", c, at, <<Parts[h.sent[c]]>>)
  OBVIOUS
<1>13. PICK w : w = IF h.order = g.order THEN <<>> ELSE <<added>>
  OBVIOUS
<1>14. PICK d : d = [m EXCEPT !.calls = r]
  OBVIOUS
<1>15. /\ mock' = d
       /\ events' = l \o (IF g.kind[c] = "function" THEN Append(w, delta) ELSE w)
  <2>1. PICK step : step = Events!ToolDelta(m, c, Parts[h.sent[c]])
    OBVIOUS
  <2>2. mock' = step.m /\ events' = l \o step.events
    BY <1>1, <1>3, <2>1 DEF Events!Becomes
  <2>3. step.m = d
    <3>1. CASE i \in DOMAIN m.calls
      BY <1>3, <1>7, <1>9, <1>14, <2>1, <3>1 DEF Events!ToolDelta, Events!Step, WithPart
    <3>2. CASE i \notin DOMAIN m.calls
      BY <1>3, <1>7, <1>9, <1>14, <2>1, <3>2
      DEF Events!ToolDelta, Events!Step, NewCall, WithPart
    <3> QED
      BY <3>1, <3>2
  <2>4. step.events = IF g.kind[c] = "function" THEN Append(w, delta) ELSE w
    <3>1. CASE i \in DOMAIN m.calls
      <4>1. w = <<>> /\ at = m.calls[i].index
        BY <1>7, <1>8, <1>11, <1>13, <3>1
      <4> QED
        BY <1>3, <1>12, <2>1, <3>1, <4>1 DEF Events!ToolDelta, Events!Step
    <3>2. CASE i \notin DOMAIN m.calls
      <4>1. q[i] = NewCall(m, c, i)
        BY <1>7, <1>8, <3>2
      <4>2. w = <<added>> /\ at = Events!OutputIndex(m, i)
        BY <1>8, <1>11, <1>13, <3>2, <4>1 DEF NewCall
      <4> QED
        BY <1>3, <1>12, <2>1, <3>2, <4>2 DEF Events!ToolDelta, Events!Step
    <3> QED
      BY <3>1, <3>2
  <2> QED
    BY <2>2, <2>3, <2>4
<1>16. /\ r \in Seq(Entry) /\ Len(r) = Len(h.order) /\ Len(q) = Len(h.order) /\ DOMAIN r = 1..Len(q)
  BY <1>8, <1>10 DEF Called, Noted
<1>17. /\ d \in Mocks /\ d.calls = r /\ d.said = m.said /\ d.held = m.held
       /\ d.deferred = m.deferred /\ d.status = "ok" /\ ~d.ended
  BY <1>1, <1>2, <1>3, <1>14, <1>16 DEF Mocks
<1>18. added \in LogEvents /\ delta \in LogEvents
  <2>1. c \in Items
    BY DEF Items
  <2>2. at \in Nat
    <3>1. q[i] \in Entry
      BY <1>8 DEF Noted
    <3> QED
      BY <1>11, <3>1 DEF Entry
  <2>3. <<Parts[h.sent[c]]>> \in Spoken /\ <<>> \in Spoken
    <3>1. g.sent[c] \in 0..2 /\ g.sent[c] < 2 /\ h.sent[c] = g.sent[c] + 1
      BY <1>1, <1>2, <1>3, <1>6, GivenFacts DEF Asked, EventsTold
    <3> QED
      BY <3>1, PartsGrow DEF Spoken
  <2> QED
    BY <1>12, <2>1, <2>2, <2>3 DEF Events!Event, LogEvents
<1>19. Heard(g, h, c, i, r, l, events')
  <2>1. /\ l \o <<>> = l /\ l \o <<added>> = Append(l, added)
        /\ l \o Append(<<>>, delta) = Append(l, delta)
        /\ l \o Append(<<added>>, delta) = Append(Append(l, added), delta)
    <3>1. <<>> \in Seq(LogEvents) /\ <<added>> \in Seq(LogEvents) /\ l \in Seq(LogEvents)
      BY <1>2, <1>3, <1>18
    <3>2. l \o <<>> = l /\ l \o <<added>> = Append(l, added)
      BY <1>18, <3>1
    <3>3. \A t \in Seq(LogEvents) : l \o Append(t, delta) = Append(l \o t, delta)
      BY <1>18, <3>1, ConcatAppend
    <3> QED
      BY <3>1, <3>2, <3>3
  <2>2. /\ added = Events!Event("added", c, r[i].index, <<>>)
        /\ delta = Events!Event("delta", c, r[i].index, <<Parts[h.sent[c]]>>)
    BY <1>10, <1>11, <1>12
  <2>3. events' = IF g.kind[c] = "function"
                  THEN Append(IF h.order = g.order THEN l ELSE Append(l, added), delta)
                  ELSE IF h.order = g.order THEN l ELSE Append(l, added)
    BY <1>13, <1>15, <2>1
  <2> QED
    BY <2>2, <2>3 DEF Heard
<1>20. Mid(h, d, events', {})
  <2>1. g.codex => m.said = <<>>
    BY <1>1, <1>3, <1>5 DEF Worded
  <2> QED
    BY <1>1, <1>3, <1>5, <1>6, <1>10, <1>17, <1>19, <2>1, CalledMid
<1>21. h \in Givens /\ h.codex = g.codex /\ h.texts = g.texts /\ h.reason = "none" /\ g.reason = "none"
  BY <1>1, <1>3, <1>6 DEF Asked
<1>22. Worded(h, d)
  <2>1. h.order # <<>>
    BY <1>6 DEF Asked
  <2> QED
    BY <1>5, <1>17, <1>21, <2>1 DEF Worded
<1>23. \A k \in DOMAIN d.calls : ~d.calls[k].done
  <2> SUFFICES ASSUME NEW k \in DOMAIN d.calls PROVE ~d.calls[k].done
    OBVIOUS
  <2>1. k \in 1..Len(q) /\ d.calls[k].done = q[k].done
    BY <1>10, <1>16, <1>17
  <2>2. CASE i \in DOMAIN m.calls
    BY <1>5, <1>7, <1>16, <2>1, <2>2
  <2>3. CASE i \notin DOMAIN m.calls
    <3>1. Len(m.calls) = Len(g.order) /\ i = Len(g.order) + 1 /\ ~q[i].done /\ Len(q) = Len(g.order) + 1
      <4>1. h.order # g.order
        BY <1>8, <2>3
      <4>2. g.order \in Seq(Calls) /\ h.order = Append(g.order, c) /\ i = Len(g.order) + 1
        BY <1>6, <4>1 DEF Asked
      <4>3. Len(h.order) = Len(g.order) + 1
        BY <4>2
      <4> QED
        BY <1>5, <1>8, <1>16, <4>1, <4>2, <4>3 DEF Noted, Numbered
    <3>2. DOMAIN m.calls = 1..Len(m.calls) /\ Len(m.calls) \in Nat
      BY <1>2, <1>3, MockFacts
    <3>3. k \in DOMAIN m.calls \/ k = i
      BY <2>1, <3>1, <3>2
    <3>4. \A j \in DOMAIN m.calls : q[j] = m.calls[j]
      BY <1>8, <3>2 DEF Noted
    <3> QED
      BY <1>5, <2>1, <3>1, <3>3, <3>4
  <2> QED
    BY <2>2, <2>3
<1>24. Over(h, d) = {}
  BY <1>21 DEF Over, MessageOver
<1>25. Running(h, d, events')
  BY <1>17, <1>20, <1>21, <1>22, <1>23, <1>24 DEF Running
<1> QED
  BY <1>3, <1>15, <1>17, <1>21, <1>25 DEF EventsInv, Along

(* the calls are done, and the message is if a reason said so *)
LEMMA Finishing == ASSUME EventsInv, Events!Finish PROVE EventsInv'
<1>1. mock.status = "ok" /\ ~mock.ended /\ written.reason = "none"
  BY DEF Events!Finish, Events!Streaming
<1>2. PICK reason \in {"stop", "tool_calls", "length"} :
        written' = [written EXCEPT !.reason = reason]
  BY DEF Events!Finish
<1>3. /\ written \in Givens /\ mock \in Mocks /\ Running(written, mock, events)
      /\ events \in Seq(LogEvents) /\ events \o <<>> = events
  BY <1>1, StreamingRuns
<1>4. PICK g, h, m, l : g = written /\ h = written' /\ m = mock /\ l = events
  OBVIOUS
<1>5. /\ h \in Givens /\ h.codex = g.codex /\ h.kind = g.kind /\ h.texts = g.texts
      /\ h.order = g.order /\ h.sent = g.sent /\ h.reason = reason
  BY <1>2, <1>3, <1>4 DEF Givens, Reasons
<1>6. Over(g, m) = {}
  BY <1>1, <1>4 DEF Over, MessageOver
<1>7. /\ Mid(g, m, l, {}) /\ Worded(g, m) /\ g.codex = written.codex /\ l \in Seq(LogEvents)
      /\ \A k \in DOMAIN m.calls : ~m.calls[k].done
  BY <1>1, <1>3, <1>4, <1>6 DEF Running
<1>8. PICK none : none = <<>>
  OBVIOUS
<1>9. none \in Seq(LogEvents) /\ l \o none = l
  BY <1>7, <1>8
<1>10. PICK f : f = Events!Flushed(Events!Step(m, none))
  OBVIOUS
<1>11. AllFlushed(g, m, l, {}, f)
  BY <1>7, <1>9, <1>10, FlushedMid
<1>12. PICK fm, v : fm = f.m /\ v = f.events
  OBVIOUS
<1>13. /\ fm \in Mocks /\ fm.held = <<>> /\ fm.deferred = <<>> /\ fm.said = AllText(g)
       /\ fm.calls = m.calls /\ fm.status = m.status /\ fm.ended = m.ended
       /\ v \in Seq(LogEvents) /\ Mid(g, fm, l \o v, {})
  BY <1>11, <1>12 DEF AllFlushed
<1>14. Mid(h, fm, l \o v, {})
  BY <1>5, <1>13, MidGiven
<1>15. Ids(fm) \subseteq Calls /\ "message" \notin Ids(fm)
  <2>1. Apart(fm)
    BY <1>13, NumberedApart DEF Mid
  <2> QED
    BY <1>13, <2>1, AtFacts
<1>16. PICK e : e = Events!Event("done", "message", 0, fm.said)
  OBVIOUS
<1>17. PICK over : over = IF MessageOver(h, fm) THEN {"message"} ELSE {}
  OBVIOUS
<1>18. PICK w : w = IF MessageOver(h, fm) THEN Append(v, e) ELSE v
  OBVIOUS
<1>19. w \in Seq(LogEvents) /\ Mid(h, fm, l \o w, over)
  <2>1. CASE MessageOver(h, fm)
    <3>1. fm.said # <<>> /\ fm.said \in Spoken
      BY <1>13, <2>1, MockFacts DEF MessageOver
    <3>2. e \in LogEvents /\ e.kind = "done" /\ e.item = "message" /\ e.index = 0
      BY <1>16, <3>1 DEF Events!Event, LogEvents, Items
    <3>3. l \o w = Append(l \o v, e) /\ w \in Seq(LogEvents)
      BY <1>7, <1>13, <1>18, <2>1, <3>2, ConcatAppend
    <3>4. PICK o : o = l \o v
      OBVIOUS
    <3>5. Log(o, Here(fm), {}, At(fm), h.codex) /\ LogTyped(o)
      BY <1>14, <3>4 DEF Mid, Log
    <3>6. "message" \in Here(fm) /\ At(fm)["message"] = 0
      <4>1. Apart(fm)
        BY <1>13, NumberedApart DEF Mid
      <4> QED
        BY <1>13, <3>1, <4>1, AtFacts DEF Here, AtKnown
    <3>7. over = {} \union {e.item}
      BY <1>17, <2>1, <3>2
    <3>8. Log(Append(o, e), Here(fm), over, At(fm), h.codex)
      BY <3>2, <3>5, <3>6, <3>7, LogGoesOn
    <3>9. Saying(h, fm, Append(o, e))
      <4>1. \A x : Say(Append(o, e), x) = Say(o, x)
        BY <3>2, <3>5, LogSays
      <4> QED
        BY <1>14, <3>4, <4>1 DEF Mid, Saying
    <3>10. Mid(h, fm, Append(o, e), over)
      BY <1>14, <3>8, <3>9 DEF Mid
    <3> QED
      BY <3>3, <3>4, <3>10
  <2>2. CASE ~MessageOver(h, fm)
    BY <1>13, <1>14, <1>17, <1>18, <2>2
  <2> QED
    BY <2>1, <2>2
<1>20. PICK s : s = Events!Finalized(Events!Step(fm, w))
  OBVIOUS
<1>21. Events!MessageDone(f) = Events!Step(fm, w)
  <2>1. MessageOver(h, fm) <=> written'.reason \in {"stop", "tool_calls"} /\ f.m.said # <<>>
    BY <1>4, <1>12 DEF MessageOver
  <2>2. f = Events!Step(fm, v)
    <3>1. \E x, y : f = Events!Step(x, y)
      <4>1. \A t, x : (\E a, b : t = Events!Step(a, b)) =>
                        \E a, b : Events!Emit(t, x) = Events!Step(a, b)
        BY DEF Events!Emit
      <4> QED
        BY <1>10, <4>1 DEF Events!Flushed, Events!Flush, Events!Undeferred
    <3> QED
      BY <1>12, <3>1 DEF Events!Step
  <2> QED
    BY <1>12, <1>16, <1>18, <2>1, <2>2 DEF Events!MessageDone, Events!Step
<1>22. mock' = s.m /\ events' = l \o s.events
  BY <1>4, <1>8, <1>10, <1>20, <1>21 DEF Events!Finish, Events!Becomes
<1>23. AllDone(h, fm, l, over, s)
  <2>1. Ids(fm) \intersect over = {}
    BY <1>15, <1>17
  <2>2. \A k \in DOMAIN fm.calls : ~fm.calls[k].done
    BY <1>7, <1>13
  <2> QED
    BY <1>7, <1>19, <1>20, <2>1, <2>2, FinalizedMid
<1>24. PICK d : d = s.m
  OBVIOUS
<1>25. /\ d \in Mocks /\ d.said = AllText(g) /\ d.deferred = <<>> /\ d.held = <<>>
       /\ d.status = "ok" /\ ~d.ended /\ Ids(d) = Ids(fm)
       /\ \A k \in DOMAIN d.calls : d.calls[k].done
  <2>1. FinalMock(fm, d) /\ Ids(d) = Ids(fm)
    BY <1>23, <1>24 DEF AllDone
  <2>2. DOMAIN d.calls = 1..Len(fm.calls)
    <3>1. d \in Mocks /\ Len(d.calls) = Len(fm.calls)
      BY <2>1 DEF FinalMock
    <3> QED
      BY <3>1, MockFacts
  <2> QED
    BY <1>1, <1>4, <1>13, <2>1, <2>2 DEF FinalMock
<1>26. over \union Ids(fm) = Over(h, d)
  BY <1>5, <1>13, <1>17, <1>25 DEF Over, MessageOver
<1>27. Mid(h, d, events', Over(h, d))
  BY <1>22, <1>23, <1>24, <1>26 DEF AllDone
<1>28. Worded(h, d)
  <2>1. AllText(g) = AllText(h) /\ d.said = AllText(h) /\ h.reason # "none"
    BY <1>5, <1>25 DEF AllText
  <2>2. d.said \in Spoken /\ d.said \o <<>> = d.said
    BY <1>25, MockFacts, ConcatSpoken
  <2> QED
    BY <1>25, <2>1, <2>2 DEF Worded, AllText
<1>29. Running(h, d, events')
  BY <1>5, <1>25, <1>27, <1>28 DEF Running
<1> QED
  BY <1>4, <1>5, <1>22, <1>24, <1>25, <1>29 DEF EventsInv, Along

(* of a stream that is over, what was held back is said; what is deferred is *)
(* not, and not kept beside a call                                           *)
LEMMA StreamEnding == ASSUME EventsInv, Events!StreamDone PROVE EventsInv'
<1>1. /\ mock.status = "ok" /\ ~mock.ended
      /\ written' = [written EXCEPT !.reason = IF @ = "none" THEN "over" ELSE @]
  BY DEF Events!StreamDone
<1>2. /\ written \in Givens /\ mock \in Mocks /\ Running(written, mock, events)
      /\ events \in Seq(LogEvents) /\ events \o <<>> = events
  BY <1>1, StreamingRuns
<1>3. PICK g, h, m, l : g = written /\ h = written' /\ m = mock /\ l = events
  OBVIOUS
<1>4. /\ EventsTold(g) /\ h \in Givens /\ h.codex = g.codex /\ h.kind = g.kind
      /\ h.texts = g.texts /\ h.order = g.order /\ h.sent = g.sent
      /\ h.reason = IF g.reason = "none" THEN "over" ELSE g.reason
  <2>1. g \in Givens /\ EventsTold(g)
    BY <1>2, <1>3, GivenFacts
  <2>2. PICK reason : reason = IF g.reason = "none" THEN "over" ELSE g.reason
    OBVIOUS
  <2>3. reason \in Reasons
    BY <2>1, <2>2 DEF EventsTold, Reasons
  <2>4. h = [g EXCEPT !.reason = reason]
    BY <1>1, <1>3, <2>2
  <2> QED
    BY <2>1, <2>2, <2>3, <2>4 DEF Givens
<1>5. PICK over : over = Over(g, m)
  OBVIOUS
<1>6. /\ Mid(g, m, l, over) /\ Worded(g, m) /\ l \in Seq(LogEvents)
      /\ \A k \in DOMAIN m.calls : m.calls[k].done <=> g.reason # "none"
  BY <1>2, <1>3, <1>5 DEF Running
<1>7. PICK said \in Spoken, deferred \in Spoken, held \in Spoken :
        said = m.said /\ deferred = m.deferred /\ held = m.held
  BY <1>2, <1>3, MockFacts
<1>8. PICK none : none = <<>>
  OBVIOUS
<1>9. none \in Seq(LogEvents) /\ l \o none = l /\ none \in Spoken
  BY <1>6, <1>8 DEF Spoken
<1>10. PICK kept : kept = IF Events!Saw(m) THEN [m EXCEPT !.deferred = <<>>] ELSE m
  OBVIOUS
<1>11. /\ kept \in Mocks /\ kept.said = said /\ kept.calls = m.calls /\ kept.held = held
       /\ kept.deferred = (IF Events!Saw(m) THEN <<>> ELSE deferred)
       /\ kept.status = "ok" /\ ~kept.ended
  BY <1>1, <1>2, <1>3, <1>7, <1>8, <1>9, <1>10 DEF Mocks
<1>12. Mid(h, kept, l \o none, over)
  <2>1. Mid(g, kept, l, over)
    BY <1>6, <1>7, <1>11, MidAside
  <2> QED
    BY <1>4, <1>9, <2>1, MidGiven
<1>13. held \o none = held
  BY <1>7, <1>8, ConcatSpoken
<1>14. "message" \in over => held = <<>>
  <2>1. ASSUME "message" \in over, g.reason = "none" PROVE FALSE
    BY <1>5, <2>1 DEF Over, MessageOver
  <2> QED
    BY <1>6, <1>7, <2>1 DEF Worded
<1>15. h.codex => held = <<>>
  BY <1>4, <1>6, <1>7 DEF Worded
<1>16. PICK f : f = Events!Flush(Events!Step(kept, none), none)
  OBVIOUS
<1>17. PICK d0 : d0 = [kept EXCEPT !.held = <<>>]
  OBVIOUS
<1>18. Emitted(h, d0, l, held, over, f)
  <2>1. "message" \notin over \/ kept.held \o none = <<>>
    BY <1>11, <1>13, <1>14
  <2>2. h.codex => kept.calls = <<>> \/ kept.held \o none = <<>>
    BY <1>11, <1>13, <1>15
  <2>3. Emitted(h, [kept EXCEPT !.held = <<>>], l, kept.held \o none, over, f)
    BY <1>6, <1>9, <1>12, <1>16, <2>1, <2>2, FlushMid
  <2> QED
    BY <1>11, <1>13, <1>17, <2>3
<1>19. PICK fm, v : fm = f.m /\ v = f.events
  OBVIOUS
<1>20. said \o held \in Spoken
  BY <1>7, ConcatSpoken
<1>21. /\ d0 \in Mocks /\ d0.said = said /\ d0.calls = m.calls /\ d0.held = <<>>
       /\ d0.deferred = kept.deferred /\ d0.status = "ok" /\ ~d0.ended
  BY <1>8, <1>9, <1>11, <1>17 DEF Mocks
<1>22. /\ fm = [d0 EXCEPT !.said = said \o held] /\ v \in Seq(LogEvents)
       /\ Mid(h, fm, l \o v, over)
  BY <1>18, <1>19, <1>21 DEF Emitted
<1>23. /\ fm \in Mocks /\ fm.said = said \o held /\ fm.calls = m.calls /\ fm.held = <<>>
       /\ fm.deferred = kept.deferred /\ fm.status = "ok" /\ ~fm.ended
  BY <1>20, <1>21, <1>22 DEF Mocks
<1>24. PICK s : s = Events!Finalized(Events!Step(fm, v))
  OBVIOUS
<1>25. f = Events!Step(fm, v)
  <2>1. \E x, y : f = Events!Step(x, y)
    <3>1. \A t, x : (\E a, b : t = Events!Step(a, b)) =>
                      \E a, b : Events!Emit(t, x) = Events!Step(a, b)
      BY DEF Events!Emit
    <3> QED
      BY <1>16, <3>1 DEF Events!Flush
  <2> QED
    BY <1>19, <2>1 DEF Events!Step
<1>26. mock' = s.m /\ events' = l \o s.events
  BY <1>3, <1>8, <1>10, <1>16, <1>24, <1>25 DEF Events!StreamDone, Events!Becomes
<1>27. Ids(fm) = Ids(m) /\ "message" \notin Ids(fm)
  <2>1. Ids(fm) = Ids(m)
    BY <1>23 DEF Ids
  <2>2. Apart(fm)
    BY <1>22, <1>23, NumberedApart DEF Mid
  <2> QED
    BY <1>23, <2>1, <2>2, AtFacts
<1>28. AllDone(h, fm, l, over, s)
  <2>1. CASE g.reason = "none"
    <3>1. Ids(fm) \intersect over = {}
      BY <1>5, <2>1 DEF Over, MessageOver
    <3>2. \A k \in DOMAIN fm.calls : ~fm.calls[k].done
      BY <1>6, <1>23, <2>1
    <3> QED
      BY <1>6, <1>22, <1>24, <3>1, <3>2, FinalizedMid
  <2>2. CASE g.reason # "none"
    <3>1. Ids(fm) \subseteq over
      BY <1>5, <1>27, <2>2 DEF Over
    <3>2. \A k \in DOMAIN fm.calls : fm.calls[k].done
      BY <1>6, <1>23, <2>2
    <3> QED
      BY <1>6, <1>22, <1>24, <3>1, <3>2, FinalizedMid
  <2> QED
    BY <2>1, <2>2
<1>29. PICK d : d = s.m
  OBVIOUS
<1>30. /\ d \in Mocks /\ d.said = said \o held /\ d.deferred = kept.deferred /\ d.held = <<>>
       /\ d.status = "ok" /\ ~d.ended /\ Ids(d) = Ids(m)
       /\ \A k \in DOMAIN d.calls : d.calls[k].done
  <2>1. FinalMock(fm, d) /\ Ids(d) = Ids(fm)
    BY <1>28, <1>29 DEF AllDone
  <2>2. DOMAIN d.calls = 1..Len(fm.calls)
    <3>1. d \in Mocks /\ Len(d.calls) = Len(fm.calls)
      BY <2>1 DEF FinalMock
    <3> QED
      BY <3>1, MockFacts
  <2> QED
    BY <1>23, <1>27, <2>1, <2>2 DEF FinalMock
<1>31. g.reason # "none" => held = <<>> /\ d.said = said
  <2>1. g.reason # "none" => held = <<>>
    BY <1>6, <1>7 DEF Worded
  <2>2. said \o <<>> = said
    BY <1>7, ConcatSpoken
  <2> QED
    BY <1>30, <2>1, <2>2
<1>32. over \union Ids(fm) = Over(h, d)
  <2>1. CASE g.reason = "none"
    BY <1>4, <1>5, <1>27, <1>30, <2>1 DEF Over, MessageOver
  <2>2. CASE g.reason # "none"
    BY <1>4, <1>5, <1>7, <1>27, <1>30, <1>31, <2>2 DEF Over, MessageOver
  <2> QED
    BY <2>1, <2>2
<1>33. Mid(h, d, events', Over(h, d))
  BY <1>26, <1>28, <1>29, <1>32 DEF AllDone
<1>34. Worded(h, d)
  <2>1. d.said \in Spoken /\ d.said \o <<>> = d.said
    BY <1>30, MockFacts, ConcatSpoken
  <2>2. g.codex => d.said = said
    <3>1. said \o <<>> = said
      BY <1>7, ConcatSpoken
    <3> QED
      BY <1>4, <1>15, <1>30, <3>1
  <2>3. h.order = <<>> => kept.deferred = deferred
    <3>1. Len(m.calls) = Len(g.order) /\ m.calls \in Seq(Entry)
      BY <1>6, MockFacts DEF Mid, Numbered
    <3>2. g.order = <<>> => m.calls = <<>>
      BY <3>1
    <3> QED
      BY <1>4, <1>11, <3>2 DEF Events!Saw
  <2>4. h.reason # "none" /\ (h.reason \notin {"none", "over"} => deferred = <<>>)
    BY <1>4, <1>6, <1>7 DEF Worded
  <2>5. ~h.codex => deferred = <<>> /\ said \o held = All(h.texts)
    BY <1>4, <1>6, <1>7 DEF Worded
  <2>6. h.codex => /\ h.order # <<>> => said = <<>>
                   /\ h.order = <<>> => said \o deferred = All(h.texts)
    BY <1>4, <1>6, <1>7 DEF Worded
  <2>7. deferred = <<>> => d.deferred = <<>>
    BY <1>11, <1>30
  <2> QED
    BY <1>4, <1>30, <2>1, <2>2, <2>3, <2>4, <2>5, <2>6, <2>7 DEF Worded
<1>35. h.reason # "none"
  BY <1>4
<1>36. Running(h, d, events')
  BY <1>30, <1>33, <1>34, <1>35 DEF Running
<1> QED
  BY <1>3, <1>4, <1>26, <1>29, <1>30, <1>36 DEF EventsInv, Along

LEMMA ErrorAlone ==
  ASSUME NEW e, e.kind = "error", NEW g, NEW remembered
  PROVE  OrderOf(<<e>>, g, TRUE) /\ \A i \in OfKind(<<e>>, "completed") : CompleteOf(<<e>>, g, remembered, i)
<1>1. PICK o : o = <<e>>
  OBVIOUS
<1>2. DOMAIN o = {1} /\ Len(o) = 1 /\ o[1] = e
  BY <1>1
<1>3. /\ OfKind(o, "created") = {} /\ OfKind(o, "added") = {} /\ OfKind(o, "completed") = {}
      /\ OfKind(o, "error") = {1} /\ ItemsIn(o) = {}
  BY <1>2 DEF OfKind, ItemsIn
<1> QED
  BY <1>1, <1>2, <1>3 DEF OrderOf

LEMMA RefusalEnds == ASSUME EventsInv, Events!End, mock.status = "error" PROVE EventsInv'
<1>1. /\ ~mock.ended /\ written' = written
      /\ mock' = [mock EXCEPT !.ended = TRUE]
      /\ events' = events \o <<Events!Event("error", "response", 0, <<>>)>>
  BY DEF Events!End, Events!Becomes, Events!Step
<1>2. written \in Givens /\ mock \in Mocks /\ events = <<>>
  <2>1. ~Running(written, mock, events) /\ ~Closing(written, mock, events, history)
    BY <1>1 DEF Running, Closing
  <2> QED
    BY <2>1 DEF EventsInv, Along, Fresh, Refused
<1>3. PICK e : e = Events!Event("error", "response", 0, <<>>)
  OBVIOUS
<1>4. e.kind = "error" /\ events' = <<e>>
  BY <1>1, <1>2, <1>3 DEF Events!Event
<1>5. mock' \in Mocks /\ mock'.ended
  BY <1>1, <1>2 DEF Mocks
<1>6. Closing(written, mock', <<e>>, history')
  BY <1>4, <1>5, ErrorAlone DEF Closing
<1> QED
  BY <1>1, <1>2, <1>4, <1>5, <1>6 DEF EventsInv, Along

LEMMA AnswerEnds == ASSUME EventsInv, Events!End, mock.status # "error" PROVE EventsInv'
<1>1. mock.status = "ok" /\ ~mock.ended /\ written' = written
  <2>1. mock.status \in {"none", "ok", "error"}
    BY MockFacts DEF EventsInv, Along
  <2> QED
    BY <2>1 DEF Events!End
<1>2. /\ written \in Givens /\ mock \in Mocks /\ Running(written, mock, events)
      /\ events \in Seq(LogEvents) /\ events \o <<>> = events
  BY <1>1, StreamingRuns
<1>3. PICK g, m, l, over : g = written /\ m = mock /\ l = events /\ over = Over(g, m)
  OBVIOUS
<1>4. /\ g \in Givens /\ Mid(g, m, l, over) /\ Worded(g, m) /\ g.codex = written.codex
      /\ l \in Seq(LogEvents) /\ \A k \in DOMAIN m.calls : m.calls[k].done <=> g.reason # "none"
  BY <1>2, <1>3 DEF Running
<1>5. PICK none : none = <<>>
  OBVIOUS
<1>6. none \in Seq(LogEvents) /\ l \o none = l
  BY <1>4, <1>5
<1>7. PICK f : f = Events!Flushed(Events!Step(m, none))
  OBVIOUS
<1>8. "message" \in over => m.held = <<>> /\ m.deferred = <<>>
  <2>1. Ids(m) \subseteq Calls /\ "message" \notin Ids(m)
    <3>1. Apart(m) /\ m \in Mocks
      BY <1>4, NumberedApart DEF Mid
    <3> QED
      BY <3>1, AtFacts
  <2>2. "message" \in over => g.reason \in {"stop", "tool_calls"}
    BY <1>3, <2>1 DEF Over, MessageOver
  <2> QED
    BY <1>4, <2>2 DEF Worded
<1>9. AllFlushed(g, m, l, over, f)
  BY <1>4, <1>6, <1>7, <1>8, FlushedMid
<1>10. PICK fm, v : fm = f.m /\ v = f.events
  OBVIOUS
<1>11. /\ fm \in Mocks /\ fm.held = <<>> /\ fm.deferred = <<>> /\ fm.said = AllText(g)
       /\ fm.calls = m.calls /\ v \in Seq(LogEvents) /\ Mid(g, fm, l \o v, over)
       /\ m.held = <<>> /\ m.deferred = <<>> => fm.said = m.said
  BY <1>9, <1>10 DEF AllFlushed
<1>12. PICK s : s = Events!Finalized(Events!Step(fm, v))
  OBVIOUS
<1>13. f = Events!Step(fm, v)
  <2>1. \E x, y : f = Events!Step(x, y)
    <3>1. \A t, x : (\E a, b : t = Events!Step(a, b)) =>
                      \E a, b : Events!Emit(t, x) = Events!Step(a, b)
      BY DEF Events!Emit
    <3> QED
      BY <1>7, <3>1 DEF Events!Flushed, Events!Flush, Events!Undeferred
  <2> QED
    BY <1>10, <2>1 DEF Events!Step
<1>14. Ids(fm) = Ids(m) /\ "message" \notin Ids(fm)
  <2>1. Ids(fm) = Ids(m)
    BY <1>11 DEF Ids
  <2>2. Apart(fm)
    BY <1>11, NumberedApart DEF Mid
  <2> QED
    BY <1>11, <2>1, <2>2, AtFacts
<1>15. AllDone(g, fm, l, over, s)
  <2>1. CASE g.reason = "none"
    <3>1. Ids(fm) \intersect over = {}
      BY <1>3, <2>1 DEF Over, MessageOver
    <3>2. \A k \in DOMAIN fm.calls : ~fm.calls[k].done
      BY <1>4, <1>11, <2>1
    <3> QED
      BY <1>4, <1>11, <1>12, <3>1, <3>2, FinalizedMid
  <2>2. CASE g.reason # "none"
    <3>1. Ids(fm) \subseteq over
      BY <1>3, <1>14, <2>2 DEF Over
    <3>2. \A k \in DOMAIN fm.calls : fm.calls[k].done
      BY <1>4, <1>11, <2>2
    <3> QED
      BY <1>4, <1>11, <1>12, <3>1, <3>2, FinalizedMid
  <2> QED
    BY <2>1, <2>2
<1>16. PICK d, w, past : d = s.m /\ w = s.events /\ past = over \union Ids(fm)
  OBVIOUS
<1>17. /\ d \in Mocks /\ d.said = AllText(g) /\ Ids(d) = Ids(fm)
       /\ w \in Seq(LogEvents) /\ Mid(g, d, l \o w, past)
  BY <1>11, <1>15, <1>16 DEF AllDone, FinalMock
<1>18. PICK e : e = Events!Event("completed", "response", 0, [text |-> d.said, calls |-> d.calls])
  OBVIOUS
<1>19. /\ mock' = [d EXCEPT !.ended = TRUE] /\ events' = l \o Append(w, e)
       /\ history' = Events!Turn(d)
  BY <1>1, <1>3, <1>5, <1>7, <1>12, <1>13, <1>16, <1>18
  DEF Events!End, Events!Becomes, Events!Step
<1>20. PICK o : o = l \o w
  OBVIOUS
<1>21. o \in Seq(LogEvents)
  BY <1>4, <1>17, <1>20
<1>22. e \in Told /\ e.kind = "completed" /\ e.item = "response"
  <2>1. PICK what : what = [text |-> d.said, calls |-> d.calls]
    OBVIOUS
  <2>2. what \in Spoken \union [text : Spoken, calls : Seq(Entry)]
    BY <1>17, <2>1, MockFacts
  <2>3. e = [kind |-> "completed", item |-> "response", index |-> 0, what |-> what]
    BY <1>18, <2>1 DEF Events!Event
  <2> QED
    BY <2>2, <2>3 DEF Told
<1>23. events' = Append(o, e)
  <2>1. l \in Seq(Told) /\ w \in Seq(Told)
    BY <1>4, <1>17, LogIsTold
  <2> QED
    BY <1>19, <1>20, <1>22, <2>1, ConcatAppend
<1>24. PICK q : q = Append(o, e)
  OBVIOUS
<1>25. LogOrMore(q, o) /\ Len(q) = Len(o) + 1
  <2>1. o \in Seq(Told)
    BY <1>21, LogIsTold
  <2>2. PICK n : n = Len(o)
    OBVIOUS
  <2>3. /\ n \in Nat /\ Len(q) = n + 1 /\ DOMAIN q = 1..(n + 1) /\ q[n + 1] = e
        /\ \A i \in 1..n : q[i] = o[i]
    BY <1>22, <1>24, <2>1, <2>2, AppendProperties, LenProperties
  <2> QED
    BY <1>22, <2>2, <2>3 DEF LogOrMore
<1>26. Log(o, Here(d), past, At(d), g.codex)
  BY <1>17, <1>20 DEF Mid
<1>27. \A x \in Here(d) : x \in past \/ (x = "message" /\ g.reason \notin {"stop", "tool_calls"})
  <2>1. \A x \in Ids(d) : x \in past
    BY <1>16, <1>17
  <2>2. ASSUME d.said # <<>>, g.reason \in {"stop", "tool_calls"} PROVE "message" \in past
    <3>1. m.held = <<>> /\ m.deferred = <<>>
      BY <1>4, <2>2 DEF Worded
    <3>2. m.said # <<>>
      BY <1>11, <1>17, <2>2, <3>1
    <3> QED
      BY <1>3, <1>16, <2>2, <3>2 DEF Over, MessageOver
  <2> QED
    BY <2>1, <2>2 DEF Here
<1>28. OrderOf(q, g, TRUE)
  BY <1>25, <1>26, <1>27, InOrder
<1>29. CompleteOf(q, g, Events!Turn(d), Len(o) + 1)
  <2>1. Mid(g, d, o, past)
    BY <1>17, <1>20
  <2> QED
    BY <1>4, <1>17, <1>18, <1>24, <2>1, Completes
<1>30. \A i \in OfKind(q, "completed") : i = Len(o) + 1
  <2>1. ASSUME NEW i \in OfKind(q, "completed"), i \in 1..Len(o) PROVE FALSE
    <3>1. q[i] = o[i] /\ q[i].kind = "completed"
      BY <1>25, <2>1 DEF LogOrMore, OfKind
    <3>2. o[i] \in LogEvents
      BY <1>21, <2>1
    <3> QED
      BY <3>1, <3>2 DEF LogEvents
  <2>2. PICK n : n = Len(o)
    OBVIOUS
  <2>3. n \in Nat
    BY <1>21, <2>2
  <2>4. DOMAIN q = 1..(n + 1)
    BY <1>25, <2>2 DEF LogOrMore
  <2>5. \A i \in 1..(n + 1) : i \in 1..n \/ i = n + 1
    BY <2>3
  <2> QED
    BY <2>1, <2>2, <2>4, <2>5 DEF OfKind
<1>31. mock' \in Mocks /\ mock'.ended
  BY <1>17, <1>19 DEF Mocks
<1>32. Closing(g, mock', q, history')
  BY <1>19, <1>28, <1>29, <1>30, <1>31 DEF Closing
<1> QED
  BY <1>1, <1>3, <1>4, <1>23, <1>24, <1>31, <1>32 DEF EventsInv, Along

-----------------------------------------------------------------------------
LEMMA EventsKept == EventsInv /\ [Events!Next]_eVars => EventsInv'
<1> SUFFICES ASSUME EventsInv, [Events!Next]_eVars PROVE EventsInv'
  OBVIOUS
<1>1. CASE Events!WriteHead
  BY <1>1, WritingHead
<1>2. CASE Events!Text
  BY <1>2, Texting
<1>3. CASE Events!Finish
  BY <1>3, Finishing
<1>4. CASE Events!StreamDone
  BY <1>4, StreamEnding
<1>5. CASE Events!End
  BY <1>5, RefusalEnds, AnswerEnds
<1>6. ASSUME NEW c \in Calls, Events!Fragment(c) PROVE EventsInv'
  BY <1>6, Fragmenting
<1>7. CASE Events!Ended \/ UNCHANGED eVars
  <2>1. written' = written /\ mock' = mock /\ events' = events /\ history' = history
    BY <1>7 DEF Events!Ended, Events!vars, eVars
  <2> QED
    BY <2>1 DEF EventsInv
<1> QED
  BY <1>1, <1>2, <1>3, <1>4, <1>5, <1>6, <1>7 DEF Events!Next

LEMMA NothingYet ==
  ASSUME NEW g, NEW remembered
  PROVE  /\ OrderOf(<<>>, g, FALSE)
         /\ \A i \in OfKind(<<>>, "completed") : CompleteOf(<<>>, g, remembered, i)
<1>1. PICK o : o = <<>>
  OBVIOUS
<1>2. DOMAIN o = {}
  BY <1>1
<1>3. ItemsIn(o) = {} /\ \A kind : OfKind(o, kind) = {}
  BY <1>2 DEF OfKind, ItemsIn
<1>4. OrderOf(o, g, FALSE)
  BY <1>1, <1>3 DEF OrderOf
<1> QED
  BY <1>1, <1>3, <1>4

LEMMA EventsKeep == EventsInv => EventsInOrder /\ ResponseComplete
<1> SUFFICES ASSUME EventsInv
             PROVE  /\ OrderOf(events, written, mock.ended)
                    /\ \A i \in OfKind(events, "completed") :
                         CompleteOf(events, written, history, i)
  BY OrderIs, CompleteIs
<1>1. mock \in Mocks /\ mock.ended \in BOOLEAN
  BY MockFacts DEF EventsInv, Along
<1>2. CASE events = <<>> /\ ~mock.ended
  BY <1>1, <1>2, NothingYet
<1>3. CASE Running(written, mock, events)
  <2>1. /\ events \in Seq(LogEvents) /\ ~mock.ended
        /\ Log(events, Here(mock), Over(written, mock), At(mock), written.codex)
    BY <1>3 DEF Running, Mid, Log, LogTyped
  <2>2. PICK n, o : n = Len(events) /\ o = events
    OBVIOUS
  <2>3. n \in Nat /\ DOMAIN o = 1..n /\ n # n + 1 /\ \A i \in 1..n : o[i] \in LogEvents
    BY <2>1, <2>2
  <2>4. LogOrMore(o, o) /\ Len(o) # Len(o) + 1
    BY <2>2, <2>3 DEF LogOrMore
  <2>5. OrderOf(o, written, FALSE)
    BY <2>1, <2>2, <2>4, InOrder
  <2>6. OfKind(o, "completed") = {}
    BY <2>3 DEF OfKind, LogEvents
  <2> QED
    BY <1>1, <2>1, <2>2, <2>5, <2>6
<1>4. CASE Closing(written, mock, events, history)
  BY <1>1, <1>4 DEF Closing
<1> QED
  BY <1>2, <1>3, <1>4 DEF EventsInv, Along, Fresh, Refused

(* The events of a response stay in order (EventsInOrder).                   *)
THEOREM EventsStayInOrder == Events!Spec => []EventsInOrder
<1>1. EventsInv /\ [Events!Next]_Events!vars => EventsInv'
  BY EventsKept DEF Events!vars, eVars
<1> QED
  BY <1>1, EventsBegin, EventsKeep, PTL DEF Events!Spec

(* A completed response holds what was written, and so does the conversation *)
(* (ResponseComplete).                                                       *)
THEOREM ResponsesAreComplete == Events!Spec => []ResponseComplete
<1>1. EventsInv /\ [Events!Next]_Events!vars => EventsInv'
  BY EventsKept DEF Events!vars, eVars
<1> QED
  BY <1>1, EventsBegin, EventsKeep, PTL DEF Events!Spec
=============================================================================
