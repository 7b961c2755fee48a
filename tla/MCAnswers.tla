------------------------------ MODULE MCAnswers ------------------------------
(***************************************************************************)
(* The parts an answer passes through, each checked by itself: the first   *)
(* state chooses the part, and the variables of the others stand still.    *)
(* Two providers, one of them a direct Claude route, and failures in mixes:*)
(* nudges with compaction and rate limits; recall, reroutes and timeouts   *)
(* with context errors; the fatal ones with outages and stalls.            *)
(***************************************************************************)
EXTENDS ChatCompletion, ProviderAttempts, AnswerStreams

CONSTANTS p1, p2, r1, r2, c1, c2

AllMixes == {{"continue", "context", "rate"},
             {"recall", "reroute", "timeout", "continue", "context"},
             {"local", "terminal", "budget", "rate", "outage", "stall", "other"}}

(* chunks that hold one event; "mixed" is in FindLostText.cfg *)
WholeKinds == {"text", "bare", "tool", "call", "badcall", "telemetry",
               "marker", "recall", "done"}

VARIABLES
  part,                               \* the part that moves
  sender, frames, got, parser, settled, chunks  \* WindsurfStream

(* one call in pieces and one as snapshots, which may gain a key in between *)
TwoPlans ==
  {[c \in {c1, c2} |-> IF c = c1 THEN <<<<"{", "b", "{", "a", "}", "}">>, "pieces">>
                                 ELSE <<<<"{", "}">>, "snapshots">>],
   [c \in {c1, c2} |-> IF c = c1 THEN <<<<"{", "a", "c", "}">>, "snapshots">>
                                 ELSE <<<<"{", "a", "}">>, "pieces">>]}

Wind == INSTANCE WindsurfStream
  WITH provider <- sender, out <- chunks, Plans <- TwoPlans,
       MaxFrames <- 3, AnyPieces <- FALSE

KindMixes == {[c \in {c1, c2} |-> "function"],
              [c \in {c1, c2} |-> IF c = c1 THEN "custom" ELSE "virtual"],
              [c \in {c1, c2} |-> IF c = c1 THEN "function" ELSE "custom"]}

wVars == <<sender, frames, got, parser, settled, chunks>>
all   == <<part, vars, sVars, nVars, mVars, hVars, wVars, eVars>>

Start ==
  /\ part \in {"chat", "stream", "native", "message", "health", "windsurf", "events"}
  /\ Init /\ Stream!Init /\ Native!Init /\ Message!Init /\ Health!Init
  /\ Wind!Init /\ Events!Init
  /\ part # "native" => ~nHold.offers
  /\ part # "windsurf" => sender.style[c1] = "pieces"
  /\ part # "events" => written.codex /\ \A c \in {c1, c2} : written.kind[c] = "function"
  /\ part # "chat" => body.group /\ body.long /\ body.mix = CHOOSE m \in Mixes : TRUE

Chats(move)    == /\ part = "chat" /\ move
                  /\ UNCHANGED <<part, sVars, nVars, mVars, hVars, wVars, eVars>>
Streams(move)  == /\ part = "stream" /\ move
                  /\ UNCHANGED <<part, vars, nVars, mVars, hVars, wVars, eVars>>
Natives(move)  == /\ part = "native" /\ move
                  /\ UNCHANGED <<part, vars, sVars, mVars, hVars, wVars, eVars>>
Messages(move) == /\ part = "message" /\ move
                  /\ UNCHANGED <<part, vars, sVars, nVars, hVars, wVars, eVars>>
Healths(move)  == /\ part = "health" /\ move
                  /\ UNCHANGED <<part, vars, sVars, nVars, mVars, wVars, eVars>>
Winds(move)    == /\ part = "windsurf" /\ move
                  /\ UNCHANGED <<part, vars, sVars, nVars, mVars, hVars, eVars>>
Answers(move)  == /\ part = "events" /\ move
                  /\ UNCHANGED <<part, vars, sVars, nVars, mVars, hVars, wVars>>

Run ==
  /\ Start
  /\ [][\/ Chats(Next) \/ Streams(Stream!Next) \/ Natives(Native!Next)
        \/ Messages(Message!Next) \/ Healths(Health!Next)
        \/ Winds(Wind!Next) \/ Answers(Events!Next)]_all
  /\ WF_all(Chats(Step))
  /\ WF_all(Streams(Stream!End \/ Stream!Fail))
  /\ WF_all(Natives(Native!End \/ Native!Fail))

-----------------------------------------------------------------------------
(* Every attempt at a provider settles, and every chat request is answered,  *)
(* or its client is gone.                                                    *)
RequestAnswered ==
  /\ part = "chat"   => EveryRequestAnswered
  /\ part = "stream" => Stream!AttemptSettles
  /\ part = "native" => Native!AttemptSettles

(* However the frames of a Windsurf stream are cut into chunks: an answer    *)
(* that is served has all the text in order and ends once, and each call     *)
(* sent completely has its arguments, which the client got under one index   *)
(* of its own; of snapshots that gained keys it got the first that had any   *)
(* (windsurf-cloud.js, createOpenAIStreamFrameParser, argumentDeltaFor).     *)
FramesArriveWhole == Wind!ArgumentsArrive /\ Wind!ServedWhole
=============================================================================
