--------------------------- MODULE WindsurfStream ---------------------------
(***************************************************************************)
(* streamWindsurfCloud of lib/windsurf-cloud.js: an HTTP/2 stream of       *)
(* Connect frames, cut into chunks anywhere, becomes chat completion       *)
(* chunks.  The arguments of a tool call come in pieces or as snapshots,   *)
(* and nothing in a frame tells which: they are merged by what they say.   *)
(* A frame counts as two halves, so that a chunk can end within one.       *)
(***************************************************************************)
EXTENDS Naturals, Sequences, FiniteSets, SequencesExt

CONSTANTS
  Calls,       \* ids of tool calls
  Plans,       \* per call its arguments and how they are sent: <<args, style>>
  MaxFrames,   \* bound: frames before the trailer
  AnyPieces    \* arguments are cut anywhere, also where a piece repeats the start

(* arguments are sequences of tokens; these are the texts that parse *)
Empty   == <<"{", "}">>
Flat    == <<"{", "a", "}">>
Fuller  == <<"{", "a", "c", "}">>
Nested  == <<"{", "b", "{", "a", "}", "}">>
Objects == {Empty, Flat, Fuller, Nested}

KeysOf(object) ==
  IF object = Nested THEN {"b"} ELSE ToSet(object) \ {"{", "}"}

(* an instance of Plans: an object within an object, cut anywhere *)
OnePlan == {[c \in Calls |-> <<Nested, "pieces">>]}

NoCall == "none"

VARIABLES
  provider,   \* what each call's arguments are, how they are sent, how much was
              \* sent, and the first snapshot that had a key
  frames,     \* the frames of the answer, as far as the provider wrote them
  got,        \* halves of frames that came
  parser,     \* the frame parser
  settled,    \* the promise
  out         \* chunks the client got

vars == <<provider, frames, got, parser, settled, out>>

Init ==
  /\ \E plan \in Plans :
       provider = [args |-> [c \in Calls |-> plan[c][1]],
                   style |-> [c \in Calls |-> plan[c][2]],
                   told |-> [c \in Calls |-> 0],
                   first |-> [c \in Calls |-> <<>>], state |-> "writing"]
  /\ frames = <<>> /\ got = 0
  /\ parser = [finished |-> FALSE, current |-> NoCall, order |-> <<>>,
               merged |-> [c \in Calls |-> <<>>],
               given  |-> [c \in Calls |-> <<>>]]
  /\ settled = "no"
  /\ out = <<>>

(***************************************************************************)
(* mergeWindsurfToolArguments.                                             *)
(***************************************************************************)

(* mutant: any piece that parses replaces what there is *)
ResentIfParsed(prev, next) == next \in Objects

(* next is a fuller version of the object that prev is *)
Resent(prev, next) ==
  /\ next \in Objects
  /\ prev \in Objects /\ KeysOf(prev) \subseteq KeysOf(next)

Merge(prev, next) ==
  CASE next = <<>> \/ prev = <<>> -> prev \o next
    [] prev \o next \in Objects   -> prev \o next
    [] IsPrefix(next, prev)       -> prev
    [] IsPrefix(prev, next) \/ Resent(prev, next) -> next
    [] OTHER                      -> prev \o next

(***************************************************************************)
(* createOpenAIStreamFrameParser.  pushed is the parser with the chunks    *)
(* that one push gives.                                                    *)
(***************************************************************************)
Chunk(kind, index, id, what) ==
  [kind |-> kind, index |-> index, id |-> id, what |-> what]

(* toolIndex: calls are counted as they are first given *)
Numbered(p, c) ==
  [p EXCEPT !.order = IF c \in ToSet(@) THEN @ ELSE Append(@, c)]

IndexOf(p, c) == CHOOSE i \in DOMAIN p.order : p.order[i] = c

(* argumentDeltaFor: nothing until the whole parses and has keys, then what  *)
(* was added at its end; nothing of a version that replaces what was given   *)
Fresh(merged, given) ==
  IF merged \notin Objects THEN <<>>
  ELSE IF given = <<>> THEN IF KeysOf(merged) = {} THEN <<>> ELSE merged
  ELSE IF IsPrefix(given, merged)
       THEN SubSeq(merged, Len(given) + 1, Len(merged))
       ELSE <<>>

WithDelta(pushed, frame) ==
  LET c      == IF frame.id = NoCall THEN pushed.p.current ELSE frame.id
      merged == Merge(pushed.p.merged[c], frame.what)
      fresh  == IF frame.what = <<>> THEN <<>>
                ELSE Fresh(merged, pushed.p.given[c])
      read   == [pushed.p EXCEPT !.current = c, !.merged[c] = merged,
                                 !.given[c] = @ \o fresh]
      p      == Numbered(read, c)
  IN IF frame.id = NoCall /\ fresh = <<>>
     THEN [pushed EXCEPT !.p = read]
     ELSE [p |-> p, chunks |-> Append(pushed.chunks,
              Chunk("call", IndexOf(p, c), frame.id, fresh))]

(* mutant: an empty object is not given at the end either *)
WithoutEmpty(p, c) == p.merged[c] \in Objects \ {Empty} /\ p.given[c] = <<>>

Unflushed(p, c) == p.merged[c] \in Objects /\ p.given[c] = <<>>

(* finish: arguments that parse and were not given, then the reason.  Calls  *)
(* are flushed in the order of their indices, which no client can tell from  *)
(* that of their first arguments                                             *)
Finish(pushed) ==
  LET Flush(acc, c) ==
        IF Unflushed(acc.p, c)
        THEN [p |-> [acc.p EXCEPT !.given[c] = acc.p.merged[c]],
              chunks |-> Append(acc.chunks,
                 Chunk("call", IndexOf(acc.p, c), NoCall, acc.p.merged[c]))]
        ELSE acc
      f == FoldLeft(Flush, pushed, pushed.p.order)
  IN IF pushed.p.finished THEN pushed
     ELSE [p |-> [f.p EXCEPT !.finished = TRUE],
           chunks |-> Append(f.chunks,
             Chunk("finish", 0, NoCall,
                   IF pushed.p.current # NoCall THEN "tool_calls" ELSE "stop"))]

Framed(pushed, frame) ==
  CASE frame.kind = "text"  -> [pushed EXCEPT !.chunks =
                                  Append(@, Chunk("text", 0, NoCall, frame.what))]
    [] frame.kind = "delta" -> WithDelta(pushed, frame)
    [] OTHER                -> Finish(pushed)

(***************************************************************************)
(* The provider writes frames, then a trailer, and ends the stream; or it  *)
(* ends it early, within a frame or not.  It neither hears nor heeds how   *)
(* far they came, so it has written all of them when the first chunk comes.*)
(***************************************************************************)
Frame(kind, id, what) == [kind |-> kind, id |-> id, what |-> what]

Writes(frame) ==
  /\ provider.state = "writing" /\ Len(frames) < MaxFrames
  /\ frames' = Append(frames, frame)
  /\ UNCHANGED <<got, parser, settled, out>>

WriteText == Writes(Frame("text", NoCall, Len(frames))) /\ UNCHANGED provider

(* pieces in order, or snapshots that gain keys and may repeat *)
Pieces(c) ==
  LET all == provider.args[c]
      n   == provider.told[c]
  IN IF provider.style[c] = "snapshots"
     THEN {<<s, Len(s)>> : s \in {s \in Objects : KeysOf(s) \subseteq KeysOf(all)
                                                  /\ Len(s) >= n}}
     ELSE {<<SubSeq(all, n + 1, m), m>> : m \in
             {m \in n+1..Len(all) :
                \/ n = 0 \/ AnyPieces
                \/ ~IsPrefix(SubSeq(all, n + 1, m), SubSeq(all, 1, n))}}

(* the first snapshot of c that has a key, once piece is sent *)
FirstWithKey(c, piece) ==
  IF provider.style[c] = "snapshots" /\ provider.first[c] = <<>> /\ piece # Empty
  THEN piece ELSE provider.first[c]

Announced(c) == \E i \in DOMAIN frames : frames[i].id = c

(* the id comes with the first delta of a call, and whenever calls change *)
WriteDelta(c) ==
  LET deltas == SelectSeq(frames, LAMBDA f : f.kind = "delta")
      last   == IF \E i \in DOMAIN deltas : deltas[i].id # NoCall
                THEN deltas[CHOOSE i \in DOMAIN deltas :
                       /\ deltas[i].id # NoCall
                       /\ \A j \in DOMAIN deltas : j > i => deltas[j].id = NoCall].id
                ELSE NoCall
  IN \/ /\ ~Announced(c) /\ Writes(Frame("delta", c, <<>>))   \* its name
        /\ UNCHANGED provider
     \/ \E piece \in Pieces(c), id \in {c, NoCall} :
          /\ id = NoCall => last = c
          /\ Writes(Frame("delta", id, piece[1]))
          /\ provider' = [provider EXCEPT !.told[c] = piece[2],
                                          !.first[c] = FirstWithKey(c, piece[1])]

WriteTrailer ==
  /\ provider.state = "writing"
  /\ \E kind \in {"trailer", "error"} :
       frames' = Append(frames, Frame(kind, NoCall, <<>>))
  /\ provider' = [provider EXCEPT !.state = "ended"]
  /\ UNCHANGED <<got, parser, settled, out>>

EndEarly ==
  /\ provider.state = "writing"
  /\ \E how \in {"ended", "cut"} :
       /\ how = "cut" => frames # <<>>
       /\ provider' = [provider EXCEPT !.state = how]
  /\ UNCHANGED <<frames, got, parser, settled, out>>

Halves == 2 * Len(frames) - (IF provider.state = "cut" THEN 1 ELSE 0)

(***************************************************************************)
(* The stream's events.  A slow client delays them, no more.               *)
(***************************************************************************)
Reject == settled' = "rejected" /\ UNCHANGED <<provider, frames, parser, out>>

Running == settled = "no"

(* a chunk: the frames that are complete by now; an error trailer throws and *)
(* takes what the same push had given so far with it                         *)
Data ==
  /\ Running /\ provider.state # "writing"
  /\ \E upto \in got+1..Halves :
       LET whole == SubSeq(frames, got \div 2 + 1, upto \div 2)
           push  == FoldLeft(Framed, [p |-> parser, chunks |-> <<>>], whole)
       IN /\ got' = upto
          /\ IF \E f \in ToSet(whole) : f.kind = "error"
             THEN Reject
             ELSE /\ parser' = push.p
                  /\ out' = out \o push.chunks
                  /\ UNCHANGED <<provider, frames, settled>>

(* mutant: an incomplete frame at the end is dropped *)
AnyRemainder(halves) == TRUE

NoRemainder(halves) == halves % 2 = 0

(* end: everything came *)
End ==
  /\ Running
  /\ provider.state \in {"ended", "cut"} /\ got = Halves
  /\ UNCHANGED got
  /\ IF NoRemainder(got)
     THEN LET f == Finish([p |-> parser, chunks |-> <<>>])
          IN /\ parser' = f.p
             /\ out' = out \o Append(f.chunks, Chunk("done", 0, NoCall, <<>>))
             /\ settled' = "resolved"
             /\ UNCHANGED <<provider, frames>>
     ELSE Reject

(* error, aborted, close, a status, the deadline, the client: at any time *)
Break == Running /\ Reject /\ UNCHANGED got

Done == ~Running /\ UNCHANGED vars

Next ==
  \/ WriteText \/ WriteTrailer \/ EndEarly
  \/ \E c \in Calls : WriteDelta(c)
  \/ Data \/ End \/ Break \/ Done

Spec == Init /\ [][Next]_vars

-----------------------------------------------------------------------------
Kinds(kind) == SelectSeq(out, LAMBDA e : e.kind = kind)

(* However frames are cut into chunks, the client gets their text in order;  *)
(* an answer that is served is whole and ends with one finish and one [DONE],*)
(* and nothing is taken for the end before the end.                          *)
ServedWhole ==
  LET texts == SelectSeq(frames, LAMBDA f : f.kind = "text")
      said  == Kinds("text")
  IN /\ Len(said) <= Len(texts)
     /\ \A i \in DOMAIN said : said[i].what = texts[i].what
     /\ Len(Kinds("finish")) <= 1
     /\ settled = "resolved" =>
          /\ Len(said) = Len(texts) /\ provider.state = "ended"
          /\ \A f \in ToSet(frames) : f.kind # "error"
          /\ [i \in {1, 2} |-> out[Len(out) - 2 + i].kind] = <<"finish", "done">>

ArgumentsOf(i) ==
  FoldLeft(LAMBDA acc, e : IF e.index = i THEN acc \o e.what ELSE acc,
           <<>>, Kinds("call"))

(* A call whose arguments were sent completely has exactly these arguments   *)
(* when the stream ends, whether they came in pieces or in snapshots         *)
(* (windsurf-cloud.js:820: "keep accumulating instead of discarding the      *)
(* in-progress arguments"), and the client got them under one index that is  *)
(* the call's alone; but of snapshots that went on to gain keys it got the   *)
(* first that had any, for what was given is not taken back (lines 954-960). *)
ArgumentsArrive ==
  settled = "resolved" =>
    \A c \in Calls :
      LET at == {e.index : e \in {e \in ToSet(Kinds("call")) : e.id = c}}
      IN /\ Announced(c) => Cardinality(at) = 1
         /\ \A i \in at : \A e \in ToSet(Kinds("call")) :
              e.index = i => e.id \in {c, NoCall}
         /\ provider.told[c] = Len(provider.args[c]) =>
              /\ parser.merged[c] = provider.args[c]
              /\ \A i \in at : ArgumentsOf(i) =
                   IF provider.first[c] = <<>> THEN provider.args[c]
                   ELSE provider.first[c]
=============================================================================
