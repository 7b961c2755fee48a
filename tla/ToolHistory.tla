---------------------------- MODULE ToolHistory ----------------------------
(***************************************************************************)
(* The conversation of a request on its way to a provider: the early       *)
(* removal of repeated reads (dedupeConsecutiveIdempotentToolCalls of      *)
(* lib/routing.js) and transformRequest of lib/transforms.js.  A provider  *)
(* refuses a conversation whose tool calls and results do not pair up, so  *)
(* they are renamed, filtered and rearranged - and an attempt changes the  *)
(* messages the next attempt starts from, for they are the same objects.   *)
(* Every call has an id (one without is passed over, line 1130) and at     *)
(* most one result; the compaction for a provider's context                *)
(* (POST-COMPACT, transforms.js:959-1002) is left out.                     *)
(***************************************************************************)
EXTENDS Naturals, Sequences, FiniteSets, SequencesExt

CONSTANTS
  Clients,      \* what clients do: a subset of AllClients
  LoopAt,       \* identical reads that call for a warning (5)
  FlatAbove,    \* calls and results a windsurf provider takes as such (12)
  DedupFrom,    \* messages from which reads are deduplicated early (4)
  MaxMessages,  \* bound: messages of a conversation
  MaxAttempts   \* bound: attempts of a request

AllClients == {"repeat", "parts", "odd", "forget"}
Kinds == {"openai", "claude", "windsurf"}

VARIABLES
  said,    \* the conversation as the client sends it
  list,    \* the messages of the request under way
  sent,    \* what the last attempt gave its provider, and the provider's kind
  turn     \* attempts of the request so far; Idle when there is none

vars == <<said, list, sent, turn>>

(* An id is a name and a generation: 0 as the client gave it, n for the nth  *)
(* of the nine-letter ids made from the name.                                *)
Own(name) == <<name, 0>>
NoId == <<0, 1>>
Forgotten == Own(0)   \* a call the client has no more

Text(word) == <<word, NoId>>

Message(role, text) ==
  [at |-> 0, role |-> role, text |-> Text(text), parts |-> FALSE, calls |-> <<>>,
   for |-> NoId]

Silent == Text("none")
Idle   == MaxAttempts + 1
Nothing == [to |-> "nobody", messages |-> <<>>]

Init == said = <<>> /\ list = <<>> /\ sent = Nothing /\ turn = Idle

(* what s has at the places that are kept, in order *)
Only(s, kept) ==
  LET some[n \in 0 .. Len(s)] ==
        IF n = 0 THEN <<>>
        ELSE IF n \in kept THEN Append(some[n - 1], s[n]) ELSE some[n - 1]
  IN some[Len(s)]

Without(s, gone) == Only(s, (DOMAIN s) \ gone)
IdsOf(m) == {m.calls[i].id : i \in DOMAIN m.calls}
IdsIn(s) == UNION {IdsOf(s[i]) : i \in DOMAIN s}

(* the results that follow message i without a break *)
Block(s, i) ==
  {j \in i + 1 .. Len(s) : \A k \in i + 1 .. j : s[k].role = "tool"}

(***************************************************************************)
(* Repeated reads.                                                         *)
(***************************************************************************)

(* the messages with one idempotent call *)
Reads(s) == {i \in DOMAIN s : Len(s[i].calls) = 1 /\ s[i].calls[1].read # 0}

Found(s, i) == {j \in i + 1 .. i + 3 : j <= Len(s) /\ s[j].role = "tool"
                                       /\ s[j].for = s[i].calls[1].id}

Earliest(S) == {i \in S : \A j \in S : i <= j}

(* the reads that the next read repeats with nothing but results in between *)
Repeated(s) ==
  LET SameNext(i, j) ==
        /\ i < j /\ \A k \in Reads(s) : k <= i \/ j <= k
        /\ s[i].calls[1].read = s[j].calls[1].read
        /\ LET answer == Earliest(Found(s, i))
               from   == IF answer = {} THEN i ELSE CHOOSE k \in answer : TRUE
           IN \A k \in from + 1 .. j - 1 : s[k].role = "tool"
  IN {i \in Reads(s) : \E j \in Reads(s) : SameNext(i, j)}

Doubled(s) == Repeated(s) \union UNION {Earliest(Found(s, i)) : i \in Repeated(s)}

Deduped(s) == IF Len(s) < DedupFrom THEN s ELSE Without(s, Doubled(s))

(***************************************************************************)
(* transformRequest, in its order.                                         *)
(***************************************************************************)

(* a nine-letter id not used yet *)
Short(id, used) ==
  LET want == IF id[2] = 0 THEN <<id[1], 1>> ELSE id
  IN IF want \notin used THEN want
     ELSE CHOOSE new \in {<<id[1], k>> : k \in 1 .. Cardinality(used) + 1} :
            /\ new \notin used
            /\ \A k \in 1 .. new[2] - 1 : <<id[1], k>> \in used

(* the calls get their ids one by one; each remembers the id it had *)
Renaming(s) ==
  LET Named(names, i) ==
        LET more[c \in 0 .. Len(s[i].calls)] ==
              IF c = 0 THEN names
              ELSE more[c - 1] \union
                     {[at |-> <<i, c>>, had |-> s[i].calls[c].id,
                       has |-> Short(s[i].calls[c].id, {n.has : n \in more[c - 1]})]}
        IN more[Len(s[i].calls)]
      names[i \in 0 .. Len(s)] == IF i = 0 THEN {} ELSE Named(names[i - 1], i)
  IN names[Len(s)]

Precedes(p, q) == p[1] < q[1] \/ (p[1] = q[1] /\ p[2] <= q[2])

(* mutant: the last call that had an id gets all results for it *)
NewForLast(names, s, i) ==
  LET queue == {n \in names : n.had = s[i].for}
  IN IF queue = {} THEN s[i].for
     ELSE (CHOOSE n \in queue : \A m \in queue : Precedes(m.at, n.at)).has

(* the nth result for an id is taken for the nth call that had it *)
NewFor(names, s, i) ==
  LET queue == {n \in names : n.had = s[i].for}
      nth   == Cardinality({j \in 1 .. i : s[j].role = "tool" /\ s[j].for = s[i].for})
      mine  == {n \in queue : Cardinality({m \in queue : Precedes(m.at, n.at)}) = nth}
  IN IF mine = {} THEN s[i].for ELSE (CHOOSE n \in mine : TRUE).has

Renamed(s) ==
  LET names == Renaming(s)
  IN [i \in DOMAIN s |->
        [s[i] EXCEPT
           !.calls = [c \in DOMAIN s[i].calls |->
                        [s[i].calls[c] EXCEPT
                           !.id = (CHOOSE n \in names : n.at = <<i, c>>).has]],
           !.for = IF s[i].role = "tool" THEN NewFor(names, s, i) ELSE @]]

(* no text beside calls *)
Hushed(s) ==
  [i \in DOMAIN s |-> IF s[i].calls = <<>> THEN s[i]
                      ELSE [s[i] EXCEPT !.text = Silent, !.parts = FALSE]]

Known(s) == Only(s, {i \in DOMAIN s : s[i].role # "odd"})

Answering(s) == Only(s, {i \in DOMAIN s : s[i].role = "tool" => s[i].for \in IdsIn(s)})

(* calls whose result does not follow at once are dropped *)
Adjacent(s) ==
  [i \in DOMAIN s |->
     [s[i] EXCEPT !.calls =
        Only(@, {c \in DOMAIN @ : @[c].id \in {s[j].for : j \in Block(s, i)}})]]

(* mutant: results of calls that were dropped stay *)
LinkedOnce(s) == Adjacent(Answering(s))

Linked(s) ==
  LET kept == Adjacent(Answering(s))
  IN IF kept = Answering(s) THEN kept ELSE Answering(kept)

(* the proxy's instructions come first *)
Prompted(s) == IF s = <<>> THEN s ELSE <<Message("system", "prompt")>> \o s

(* windsurf: calls and results become text *)
Events(s) == Cardinality({i \in DOMAIN s : s[i].role = "tool"})
             + Len(FlattenSeq([i \in DOMAIN s |-> s[i].calls]))

Flattened(kind, s) ==
  IF kind # "windsurf" \/ Events(s) <= FlatAbove THEN s
  ELSE [i \in DOMAIN s |->
          IF s[i].calls # <<>>
          THEN [s[i] EXCEPT !.calls = <<>>, !.text = Text("calls")]
          ELSE IF s[i].role = "tool"
          THEN [s[i] EXCEPT !.role = "user", !.text = <<"result", s[i].for>>,
                            !.for = NoId]
          ELSE s[i]]

(* Reads that still repeat.  The warning is put in before the messages       *)
(* counted earlier are taken out.                                            *)
Runs(s) == {r \in {s[i].calls[1].read : i \in Repeated(s)} :
              Cardinality({i \in Repeated(s) : s[i].calls[1].read = r}) + 1 >= LoopAt}

Warned(s) ==
  LET users == {i \in DOMAIN s : s[i].role = "user"}
  IN IF Runs(s) # {} /\ \E i \in users : i > 1
     THEN InsertAt(s, CHOOSE i \in users : \A j \in users : j <= i,
                   Message("assistant", "warning"))
     ELSE s

Unlooped(s) == Without(Warned(s), Doubled(s))

Cleaned(s) ==
  Without(s, {i \in DOMAIN s : s[i].role = "assistant" /\ s[i].calls = <<>>
                               /\ s[i].text = Silent})

(* Anthropic wants a user's turn *)
WithUser(kind, s) ==
  IF kind = "claude" /\ ~\E i \in DOMAIN s : s[i].role = "user"
  THEN Append(s, Message("user", "continue")) ELSE s

(* others want an assistant's turn between a result and a user *)
Separated(kind, s) ==
  LET answered == {s[i].for : i \in {i \in DOMAIN s : s[i].role = "tool"}}
      split  == {i \in 1 .. Len(s) - 1 : s[i].role = "tool" /\ s[i + 1].role = "user"}
      spaced == [k \in 1 .. 2 * Len(s) |->
                   IF k % 2 = 1 THEN s[(k + 1) \div 2]
                   ELSE Message("assistant", "separator")]
  IN IF kind = "claude" \/ ~(IdsIn(s) \subseteq answered) THEN s
     ELSE Only(spaced, {k \in DOMAIN spaced : k % 2 = 1 \/ k \div 2 \in split})

Plain(m) == m.role # "tool" /\ m.calls = <<>> /\ ~m.parts
            /\ m.text[1] \notin {"none", "continue", "separator"}

Undoubled(s) ==
  IF Len(s) <= 3 THEN s
  ELSE Without(s, {i \in 2 .. Len(s) :
                     /\ s[i].role = s[i - 1].role /\ s[i].text = s[i - 1].text
                     /\ Plain(s[i]) /\ Plain(s[i - 1])})

Linkage(s) == Linked(Known(Hushed(Renamed(s))))

Transformed(kind, s) ==
  Undoubled(Separated(kind, WithUser(kind, Cleaned(Unlooped(
    Flattened(kind, Prompted(Linkage(s))))))))

(* What an attempt leaves behind.  A message whose content is a list of      *)
(* parts was copied first: of it only the calls are the same objects.        *)
After(s) ==
  LET renamed == Renamed(s)
      linked  == Linkage(s)
      Final(i) ==
        LET same == {j \in DOMAIN linked : linked[j].at = s[i].at}
        IN IF same # {} THEN linked[CHOOSE j \in same : TRUE] ELSE Hushed(renamed)[i]
  IN [i \in DOMAIN s |->
        IF s[i].parts THEN [s[i] EXCEPT !.calls = renamed[i].calls] ELSE Final(i)]

-----------------------------------------------------------------------------
(***************************************************************************)
(* Client and model make the conversation.  A model that was spoken to     *)
(* answers; a user may interrupt its calls; results come late or never.    *)
(***************************************************************************)
Idling == turn = Idle /\ list' = <<>> /\ sent' = Nothing /\ UNCHANGED turn

Grow(m) == /\ Len(said) < MaxMessages
           /\ said' = Append(said, [m EXCEPT !.at = Len(said) + 1])
           /\ Idling

Fresh == Cardinality({id[1] : id \in IdsIn(said)}) + 1

(* the ids for n calls: new ones, or one the model has used before *)
Tags(n) ==
  {[i \in 1 .. n |-> Own(Fresh + i - 1)]} \union
    IF "repeat" \in Clients /\ n = 1 THEN {<<id>> : id \in IdsIn(said)} ELSE {}

Calling(tags, read) ==
  [Message("assistant", "words") EXCEPT
     !.calls = [i \in DOMAIN tags |-> [id |-> tags[i], nth |-> i, read |-> read]]]

(* the model speaks when it was spoken to *)
Spoken == said # <<>> /\ Last(said).calls = <<>>

User == Grow(Message("user", "words"))
Odd  == "odd" \in Clients /\ Spoken /\ Grow(Message("odd", "words"))
Say  == Spoken /\ Last(said).role # "assistant" /\ Grow(Message("assistant", "words"))
Read == Spoken /\ \E tags \in Tags(1) : Grow(Calling(tags, 1))
Call == Spoken /\ \E n \in {1, 2} : \E tags \in Tags(n) : Grow(Calling(tags, 0))

(* calls that have fewer results than there are calls of that id *)
Open(id) ==
  Cardinality({i \in DOMAIN said : said[i].for = id}) <
    Cardinality({i \in DOMAIN said : id \in IdsOf(said[i])})

Result ==
  \E id \in IdsIn(said) :
    /\ Open(id)
    /\ \E parts \in {FALSE} \union (IF "parts" \in Clients THEN {TRUE} ELSE {}) :
         Grow([Message("tool", "words") EXCEPT !.for = id, !.parts = parts])

(* the client has forgotten the beginning, with the call of this result *)
Stray == "forget" \in Clients /\ said = <<>>
         /\ Grow([Message("tool", "words") EXCEPT !.for = Forgotten])

(* a request: the conversation as it is, after a user's turn or a result *)
Request ==
  /\ turn = Idle /\ said # <<>> /\ Last(said).role \in {"user", "tool"}
  /\ list' = Deduped(said) /\ turn' = 0
  /\ UNCHANGED <<said, sent>>

(* an attempt with a provider, the first or after one that failed *)
Attempt(kind) ==
  /\ turn < MaxAttempts /\ turn' = turn + 1
  /\ sent' = [to |-> kind, messages |-> Transformed(kind, list)]
  /\ list' = After(list)
  /\ UNCHANGED said

Finish == turn \in 1 .. MaxAttempts /\ turn' = Idle
          /\ list' = <<>> /\ sent' = Nothing /\ UNCHANGED said

Next ==
  \/ User \/ Odd \/ Say \/ Read \/ Call \/ Result \/ Stray \/ Request \/ Finish
  \/ \E kind \in Kinds : Attempt(kind)

Spec == Init /\ [][Next]_vars

-----------------------------------------------------------------------------
Out == sent.messages

(* the warning of a read loop, whose insertion shifts what is taken out     *)
Warning == \E i \in DOMAIN Out : Out[i].text[1] = "warning"

(* A provider gets every call answered in the block of results that follows *)
(* it, no id twice, and no result but to a call just before (transforms.js: *)
(* 1228, "OpenAI/Anthropic require each assistant tool_call to be answered   *)
(* by tool messages in the contiguous tool block immediately following").   *)
CallsStayPaired ==
  ~Warning =>
    \A i \in DOMAIN Out :
      /\ IdsOf(Out[i]) \subseteq {Out[j].for : j \in Block(Out, i)}
      /\ Cardinality(IdsOf(Out[i])) = Len(Out[i].calls)
      /\ Out[i].role = "tool" =>
           \E k \in 1 .. i - 1 : i \in Block(Out, k) /\ Out[i].for \in IdsOf(Out[k])

(* the calls of a conversation with the results that follow them *)
Exchanges(s) ==
  {x \in UNION {{i} \X (DOMAIN s[i].calls) \X Block(s, i) : i \in DOMAIN s} :
     s[x[3]].for = s[x[1]].calls[x[2]].id}

(* the call and its result reached the provider, as such or as text *)
Reached(i, c, j) ==
  \E k, l \in DOMAIN Out :
    /\ Out[k].at = said[i].at /\ Out[l].at = said[j].at
    /\ \/ /\ l \in Block(Out, k)
          /\ \E d \in DOMAIN Out[k].calls :
               Out[k].calls[d].nth = c /\ Out[k].calls[d].id = Out[l].for
       \/ Out[k].text[1] = "calls"

(* the same read is called again later *)
ReadAgain(i) ==
  \E k \in i + 1 .. Len(said) : \E c \in DOMAIN said[k].calls :
    said[k].calls[c].read = said[i].calls[1].read /\ said[i].calls[1].read # 0

(* an earlier call of the same id has had no result *)
Shifted(i, c, j) ==
  Cardinality({k \in 1 .. i - 1 : said[i].calls[c].id \in IdsOf(said[k])}) #
    Cardinality({k \in 1 .. j - 1 : said[k].for = said[j].for})

Missing ==
  IF turn \notin 1 .. MaxAttempts \/ Warning THEN {}
  ELSE {x \in Exchanges(said) : ~Reached(x[1], x[2], x[3]) /\ ~ReadAgain(x[1])}

(* What a tool answered reaches the provider, on the first attempt and on    *)
(* every later one, unless a later call repeats the read (routing.js:7058),  *)
(* an earlier call with the same id was left unanswered, or - on a later     *)
(* attempt - the result is a list of parts.                                  *)
ExchangesStay ==
  \A x \in Missing : Shifted(x[1], x[2], x[3]) \/ (said[x[3]].parts /\ turn > 1)

(* The linkage of calls and results is preserved (transforms.js:1119, "Keep  *)
(* tool call IDs short and alphanumeric while preserving call/result         *)
(* linkage").                                                                *)
LinkageKept == Missing = {}
=============================================================================
