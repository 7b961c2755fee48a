------------------------------- MODULE MCKept -------------------------------
(***************************************************************************)
(* What is kept beyond a request: the records of tasks behind the writer   *)
(* lock, between processes of one PID namespace or two of which one has    *)
(* closed the store or crashed before the others start; one such record,   *)
(* with an oversized primary request and a worker's that compete for its   *)
(* one slot; the outbox in Neo4j; the provider file of the discovery       *)
(* daemon; and the conversation a client goes on with, made ready for      *)
(* attempt after attempt.  The first state chooses which is checked; the   *)
(* variables of the others stand still.                                    *)
(***************************************************************************)
EXTENDS MCTaskRouting, MCWriterLock, ProviderFile, Preparations

CONSTANTS e1, e2, g1, g2

(* the oversized primary request q1 may try three times, the worker's q3 once *)
PrimaryThrice == [q \in Requests |-> IF q = q3 THEN 1 ELSE 3]

VARIABLES
  part,                                     \* the part that moves
  outbox, queue, drain, owed, puts, broken  \* MemoryOutbox

Outbox == INSTANCE MemoryOutbox
  WITH Items <- {e1, e2}, Batch <- 2, MaxBatches <- 1, MaxAttempts <- 2, MaxPuts <- 3

oVars == <<outbox, queue, drain, owed, puts, broken>>
hVars == <<said, list, sent, turn>>
all   == <<part, lockVars, vars, oVars, dVars, hVars>>

Start ==
  /\ part \in {"locks", "tasks", "outbox", "discovery", "conversation"}
  /\ AfterThird /\ Init /\ Outbox!Init /\ Disc!Init /\ Prep!Init
  /\ part # "discovery" => keyed = {}
  /\ part # "locks" => namespaceOf = OneNamespace /\ Before("closed")

Only(p, move) == part = p /\ UNCHANGED part /\ move
Locks(move)   == Only("locks", move) /\ UNCHANGED <<vars, oVars, dVars, hVars>>
Tasks(move)   == Only("tasks", move) /\ UNCHANGED <<lockVars, oVars, dVars, hVars>>
Queues(move)  == Only("outbox", move) /\ UNCHANGED <<lockVars, vars, dVars, hVars>>
Scans(move)   == Only("discovery", move) /\ UNCHANGED <<lockVars, vars, oVars, hVars>>
Talks(move)   == Only("conversation", move)
                   /\ UNCHANGED <<lockVars, vars, oVars, dVars>>

Run ==
  /\ Start
  /\ [][\/ Locks(LockNext) \/ Tasks(Next)
        \/ Queues(Outbox!Next) \/ Scans(Disc!Next) \/ Talks(Prep!Next)]_all
  /\ \A p \in Processes : WF_all(Locks(Open(p) /\ Aside))
  /\ WF_all(Tasks(\E r \in Requests : Step(r)))
  /\ WF_all(Queues(Outbox!Drains))

-----------------------------------------------------------------------------
(* What is queued is tried by a drain, whenever it is queued.                *)
ItemsAreTried == Outbox!ItemsAreTried
=============================================================================
