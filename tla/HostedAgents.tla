---------------------------- MODULE HostedAgents ----------------------------
(***************************************************************************)
(* The tools the proxy hosts itself for a Codex client                     *)
(* (runChatCompletionWithProxyHostedVirtualTools of lib/responses.js): the *)
(* model is asked again with the results of its hosted calls until an      *)
(* answer has none, and its other calls go to the client with that answer. *)
(* A hosted call either asks a sub-agent, which takes from the budget all  *)
(* requests of the task share, or works on what the proxy remembers of     *)
(* agents and threads; what it remembers is left out.                      *)
(***************************************************************************)
EXTENDS Naturals, Sequences, SequencesExt, FiniteSets

CONSTANTS
  Requests,       \* requests of one task
  Roles,          \* roles of sub-agents
  ClientCalls,    \* calls for the client: an id and what they say
  MaxAgents,      \* policy.maxAgents
  MaxIterations,  \* policy.maxIterationsPerRole
  MaxLoops,       \* MAX_PROXY_HOSTED_VIRTUAL_LOOPS
  MaxHosted       \* bound: hosted calls in one answer

VARIABLES
  iterations,     \* per role: how often an agent of it was reserved
  call            \* per request: how far it is

hostedVars == <<iterations, call>>

Local  == "local"
Hosted == Roles \union {Local}

Init ==
  /\ iterations = [a \in Roles |-> 0]
  /\ call = [r \in Requests |->
       [pc |-> "ask", loop |-> 0, todo |-> <<>>,
        pending |-> <<>>, answer |-> <<>>, made |-> {}]]

(* a call that is there already, by its id or by what it says, is not added *)
Same(c, d) == c.id = d.id \/ c.says = d.says
Merged(calls, pending) ==
  FoldLeft(LAMBDA s, c : IF \E d \in ToSet(s) : Same(d, c) THEN s ELSE Append(s, c),
           calls, pending)

(* mutant: only the calls beside the last hosted ones are kept *)
LastPending(pending, calls) == calls

Pending(pending, calls) == pending \o calls

(* the model's answer is the last one, or its hosted calls are run *)
After(c, hosted, calls) ==
  IF hosted = <<>>
  THEN [c EXCEPT !.pc = "answered", !.made = @ \union ToSet(calls),
                 !.answer = Merged(calls, c.pending)]
  ELSE [c EXCEPT !.pc = "run", !.todo = hosted, !.made = @ \union ToSet(calls),
                 !.pending = Pending(@, calls)]

Answered(r) ==
  \E hosted \in SeqOf(Hosted, MaxHosted), calls \in SeqOf(ClientCalls, 1) :
    /\ call[r].pc = "ask"
    /\ call' = [call EXCEPT ![r] = After(@, hosted, calls)]
    /\ UNCHANGED iterations

(* a status of 400 or more, an answer that cannot be read, an exception *)
Fails(r) ==
  /\ call[r].pc \in {"ask", "wait"}
  /\ call' = [call EXCEPT ![r].pc = "failed"] /\ UNCHANGED iterations

(* after the last hosted call the model is asked again, MaxLoops times *)
Through(c) ==
  IF Len(c.todo) > 1 THEN [c EXCEPT !.pc = "run", !.todo = Tail(@)]
  ELSE [c EXCEPT !.pc = IF c.loop + 1 = MaxLoops THEN "failed" ELSE "ask",
                 !.loop = @ + 1, !.todo = <<>>]

(* reserveAgent, in a transaction of the task *)
MayReserve(role) ==
  /\ iterations[role] = 0
       => Cardinality({a \in Roles : iterations[a] > 0}) < MaxAgents
  /\ iterations[role] < MaxIterations

(* the next hosted call; a budget that is exhausted ends the whole request *)
Starts(r) ==
  LET do == Head(call[r].todo) IN
  /\ call[r].pc = "run"
  /\ \/ /\ do = Local
        /\ call' = [call EXCEPT ![r] = Through(@)] /\ UNCHANGED iterations
     \/ /\ do # Local /\ MayReserve(do)
        /\ iterations' = [iterations EXCEPT ![do] = @ + 1]
        /\ call' = [call EXCEPT ![r].pc = "wait"]
     \/ /\ do # Local /\ ~MayReserve(do)
        /\ call' = [call EXCEPT ![r].pc = "failed"] /\ UNCHANGED iterations

(* the sub-agent's answer, or its failure, is the result of the call *)
Returns(r) ==
  /\ call[r].pc = "wait"
  /\ call' = [call EXCEPT ![r] = Through(@)] /\ UNCHANGED iterations

Next == \E r \in Requests : Answered(r) \/ Fails(r) \/ Starts(r) \/ Returns(r)

Spec == Init /\ [][Next]_hostedVars

(***************************************************************************)
(* Every call for the client the model made on the way reaches the client  *)
(* with the answer, also those made beside hosted calls several questions  *)
(* before; and the client is given no other call.                          *)
(***************************************************************************)
ClientCallsReachClient ==
  \A r \in Requests : call[r].pc = "answered" =>
    /\ \A c \in call[r].made : \E d \in ToSet(call[r].answer) : Same(d, c)
    /\ ToSet(call[r].answer) \subseteq call[r].made
    /\ \A i, j \in 1..Len(call[r].answer) : i < j =>
         ~Same(call[r].answer[i], call[r].answer[j])
=============================================================================
