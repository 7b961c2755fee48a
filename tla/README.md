# Verification of the LLM proxy

TLA+ models of the parts of the proxy where concurrent requests, several
processes, crashes and timeouts meet shared state; TLC configurations that
check them on small instances; and TLAPS proofs of their main properties for
instances of any size. Paths below are relative to the repository root.

## 1. The system and its parts

The proxy (`llm-proxy.js`, `lib/routing.js`) serves OpenAI, Responses and
Anthropic requests from many upstream routes. One Node.js process handles all
requests: handlers interleave at every `await`, and code between two awaits is
atomic. State directories can be opened by several processes. "Modelled" below
names the module; the rest is inventory.

| Part | State it keeps | Operations | Hard behaviour | What makes it correct | Module |
|---|---|---|---|---|---|
| Task routing, `lib/task-routing.js` | one record per task: model slots, pins, failed routes, reservations, history | `acquire`, `recordFailure`, each one store transaction | requests of one task decide on a record that others change before they commit | three-model ceiling, complete history, no failed route, primary stays on its model | TaskRecord |
| Dispatch, `lib/task-runtime.js` `beforeDispatch`/`recordFailure`, `lib/routing.js` `guardedDispatch` | per request: attempted routes, too small routes, last error | look, acquire, attempt, fail over, overflow, compact | stale candidate lists, retry loops | every request ends, failover never returns to a failed route | TaskRouting |
| Chat completion, `lib/routing.js` `handleChatCompletion` | per request: counters carried between rounds, providers tried, the response | answer itself, compact, try providers, nudge, recall, reroute, retry, give up | retries nested in retries, failure after the first byte, races with timers | one answer, no failover after the first byte, an end | ChatCompletion |
| Streams of providers, `routeStreamToProviderImpl`, `routeNativeStreamToProviderImpl` | what was heard, held in the filter, buffered, written | chunk, flush, reject, break off, end | each chunk passes two filters and a buffer; the stream may fail at any of them | nothing lost, an attempt keeps its promise and settles | ProviderStream, NativeStream, Attempt |
| Anthropic streams, `lib/anthropic-gateway.js` `AnthropicStreamResponse` | held text, pending calls, open blocks | text, fragment, snapshot, finish | fragments and snapshots of several calls, two ways to end | a well-formed message, each call once | MessageStream |
| Windsurf streams, `lib/windsurf-cloud.js` `streamWindsurfCloud` | bytes of an unfinished frame, arguments merged and given per call | chunk, end, break off | frames cut anywhere, pieces and snapshots that look alike, several ways to end | what is served is whole, arguments arrive | WindsurfStream |
| Events of a response, `lib/responses.js` `MockResponse` | text held and deferred, items with their indices, calls | text, fragment, finish, `[DONE]`, end | text that turns out to stand beside a call, two ways to end | events in order, the response complete | ResponseStream |
| Account availability, `lib/account-availability.js`, `lib/upstream-failure.js` | failures per credential, account, quota bucket, model and route (disk); half-open keys (memory) | `isEligible`, `beginHalfOpen`, `observe`, `recordSuccess`, `releaseProbe`, resets | keys shared by routes, late answers, expiry during an await, restart | cooldowns are kept, probes are due and end | AccountAvailability |
| Scoring, `lib/scoring.js` and the group requests of `lib/routing.js` | cooldown per provider, quota list, their files | rank, defer, try, cool, clear, ban | a flag on the provider shared by requests, late successes | who was cooled in the meantime is not asked | ProviderHealth |
| Task store, `lib/task-store.js` | `state.lock` with owner, inode and lease; record files | open, heartbeat, `get`, `updateSync`, `close` | processes interleave between system calls, crash, stall; inodes are reused | one writer, atomic updates, a crashed owner is replaced | WriterLock, TaskRegister |
| HTTP transport, `lib/http-transport.js` | ownership scopes, leases of retained bytes, budget, abort controllers | `withOwnership`, `withDeadline`, `withAttempt`, `nativeOperation`, collectors | deadlines, lost races, double releases, clients that go away | nothing leaks or is refunded twice, a helper's deadline stays its own | Ownership |
| Request body admission, `lib/http-body.js`, `lib/codex-passthrough.js` | request slots, retained body bytes | admit, retain, unretain, release | late write callbacks, double release, deadlines | slots and bytes return exactly once | BodyAdmission |
| Responses API, `lib/responses.js` | a session's conversation, pending items and active responses; remembered responses | create, append, cancel, close; continue over HTTP | concurrent requests on one conversation, socket callbacks against handlers | turns remembered, branches apart, responses forgotten | Responses |
| Hosted tools, `lib/responses.js`, `reserveAgent` | calls collected over rounds; agents per role | ask again, run hosted calls, reserve | budgets, calls of several rounds | every call for the client reaches it | HostedAgents |
| Human approval, `lib/human-approval.js` | pending approvals by challenge and by request | request, approve, expire | judged twice around an assessment, tokens of several sources, restart | only what was approved is routed | HumanApproval |
| Semantic memory, `lib/memory/` | outbox items in Neo4j with status and attempts | queue, claim, send, mark, drain | crash between claim and mark, queueing during a drain | every item is tried | MemoryOutbox |
| State retention, `lib/state-retention.js`, `lib/state.js` | bounded stores and their bytes | set, get, delete, write through, expire, evict | eviction of entries in use | the bytes are those of the entries | StateRetention |
| Discovery, `llm-discovery.js`, `lib/providers.js` | `providers.json`; the daemon's scan; the proxy's providers | test, scan, write, reload | a file written in place while it is watched, scans merged with it | a dead provider is revived by a probe only | Discovery |
| Preparation of conversations, `lib/transforms.js`, early removal of repeated reads in `lib/routing.js` | the messages of a request, shared by its attempts | deduplicate, rename, filter, flatten, warn, separate | filters that follow one another, messages copied or changed in place | calls and results stay together, on every attempt | ToolHistory |
| Copilot token, context store, compaction, policy, adapters, catalog, metrics, logins, server | see `PROJECT.json` | | text, I/O, reports | | not modelled |

How they interact. A chat request (`ChatCompletion`), its own or one made for a
Responses (`Responses`, `HostedAgents`) or Anthropic client (`MessageStream`), has
its body admitted (`BodyAdmission`), may wait for a human (`HumanApproval`) and
then tries providers. Each try enters `guardedDispatch`, which calls
`beforeDispatch`: that reads the task's record and the account availability, ranks
routes, awaits, and commits with `acquire` inside one transaction of the task
store; the last step of the dispatch is `beginHalfOpen`. The attempt prepares
the conversation for its provider (`ToolHistory`), runs in a
`withAttempt` scope below the scope of the client's response and answers through
one of the streams; its outcome is reported to `recordFailure`, to `observe`,
`recordSuccess` or `releaseProbe`, and to the scores (`ProviderHealth`). Every
module takes what the others do as a nondeterministic choice, with two
exceptions that are checked: TaskRouting treats a transaction as one atomic step,
and `RegisterImplemented` states when the store justifies that; ChatCompletion
treats an attempt as one step, and both streams are shown to implement the
promise, Attempt, that it rests on.

## 2. Modules

**TaskRecord** is the record of a task and, as functions on it, what `acquire`
and `recordFailure` compute: `Settled` (history, pruning of slots), `Recovered`
(the primary role forgets failures), `Viable`, `Kept`, `Displaced`, `Acquirable`,
`HasSlot`, `Allocated`, `FailureRecorded`. Where the code takes the first
candidate of a ranked list, any that fits may be taken.

**TaskRouting** puts concurrent requests around the record. `Look` is
`beforeDispatch` up to the await, `AcquireKept`, `AcquireMoved` and
`AcquireRefused` are the outcomes of `acquire`, which work on the record as it is
by then, and `Succeed`, `Fail`, `Overflow`, `Abandon` are the answers. `Compact` is the one
compaction of a request that needs a larger context, after a refusal or a dispatch
that was abandoned. Which routes may fit a request is a constant (`routesFor`), as
roles differ in what is compatible with them.

**WriterLock** is `createTaskStore`, one action per system call of the opening
sequence (`Exists`, `Stat`, `Read`, `Judge`, `Recheck`, `Unlink`, `Create`,
`WriteOwner`), of an update (`Get`, `AssertOwned`, `Rename`), the heartbeat and closing.
`Crash` may follow any system call; `Expire` is a lease that runs out, of a live
process as well as of a dead one. Who shares a PID namespace with whom is part of
the state (`namespaceOf`) that no step changes, so that one run has both cases.
**TaskRegister** is what the store promises: a
record to which each update is added once, for as long as it is guarded; WriterLock
implements it (`UpdatesAreAtomic`) with any number of processes. The guard is that
all are of one namespace and that no start has unlinked a lock other than the one it
judged, which the history variable `outrun` remembers.

**AccountAvailability** has the records, the half-open keys and requests that pick
a route, begin and are answered. Each failure kind `classifyUpstreamFailure` returns
for a recorded kind is a choice of `Failures`; `Elapse` is the passing of a
deadline, `Restart` loses the half-open keys.

**Ownership** has the scopes (kind, controller, set of leases), the leases and the
budget. An attempt shares the controller of its parent, a native operation its set;
both copy the parent's closed flag, as object spread does in the code. `Done` is
`done()`, `HelperReturns` the `finally` of `withDeadline`, `AttemptEnds` that of
`withAttempt`; `Reached` is the propagation of an abort along listeners. Responses
end while work below them goes on, as after the `Promise.race` of
`lib/routing.js:9396`.

A request's scope, for which `BudgetExact` counts, is one response or background
job. **BodyAdmission** is the other account of memory: a slot and the bytes of a
body, for requests that are read whole and for those that are passed through as
they arrive, whose bytes come back with each write's callback.

**ChatCompletion** is `handleChatCompletion`. The code retries by calling itself;
each call is a round, and `body` is what one round hands to the next (`Again`).
`Try` settles an attempt as Attempt promises; `Caught` and `CatchRest` are the
branches of the catch block in the order the code has them; `RetryCohort`,
`MidCompact`, `PostCompact` and `GiveUp` are what follows when all providers of the
group have failed, and the `Direct...` actions are the same for a client that
named its model. **Attempt** promises that an attempt settles once and that a
refused one has not touched the response.

**ProviderStream** and **NativeStream** read the answer chunk by chunk: `Deliver` is
the order in which the code strips, buffers, flushes and writes; a native stream
has been given tools or not (`offers`), which decides whether an answer without
text is empty. The nth chunk is
the number n wherever its text goes, so loss, repetition and order can be told.
**MessageStream** turns what was written into the events of one Anthropic message;
`KeyOf` is how fragments with and without ids and indices find their call.
**ResponseStream** does the same for the events of a response: `Sanitized` gives what
no longer looks like a private marker, `Undeferred` what Codex is shown once no tool
was called, `ToolDelta` numbers a call and takes a fragment. **WindsurfStream** is
the source of such chunks at a provider of Connect frames: the server writes frames,
`Data` pushes those that are whole through the parser (`Framed`), and `Merge` joins
the arguments of a call, which come as pieces or as snapshots.

**ProviderHealth** has cooldowns, the quota list and their files, with the requests
of a group: `Rank` fixes the order and sets the flag by which the near-level
fallback may clear a cooldown, `Try` reads it later.

**Responses** has one WebSocket session whose requests run at the same time, and
HTTP requests that continue a remembered response (`Arrive`, `Reply`). `Create`,
`Stream`, `Sent`, `Answer` and `Return` are the events of a response, its socket
callbacks and its handler, in any order the code allows. **HostedAgents** is the
loop around a chat completion that runs hosted calls and keeps the others.

**HumanApproval** asks twice, `First` before the assessment and `Final` after it;
`Matches` compares a token with the record it is for. **MemoryOutbox** has the
outbox, the drain (`Claim`, `Send`, `EndBatch`), its wishes to drain again, and a
`Crash`. **StateRetention** has the entries with their order and leases; a `Write`
goes through a value a request still holds. **Discovery** interleaves the daemon
(`Test`, `Scanned`, the two halves `Empty` and `Fill` of a write in place) with the
proxy's debounced reload.

**ToolHistory** is the conversation of a request. `Request` removes repeated reads
(`Deduped`); `Attempt` gives a provider what the steps of `transformRequest` make of
it, in their order (`Transformed`), and leaves to the next attempt what they change
in place (`After`). An id is a name with a generation, 0 for the client's own and n
for the nth of the short ids made from it. Client and model may reuse ids, leave
calls unanswered, answer late, send results as lists of parts, and forget the
beginning of the conversation; each message remembers its place (`at`, `nth`) so
that properties can tell it from its like.

**ProviderAttempts**, **AnswerStreams**, **Approvals**, **Preparations**, **ProviderFile**,
**Conversations** and **RequestBodies** add no behaviour. Each
declares the constants and variables of modules above, with what is assumed of the
constants, and names their properties, so that the runs, which combine several of
them, and the theorems speak of the same formulas: ProviderAttempts has both streams
and ProviderHealth, AnswerStreams MessageStream and ResponseStream, Conversations
Responses and HostedAgents, the others HumanApproval, ToolHistory, Discovery and
BodyAdmission.

The `MC` modules give the constants their values. Five of them check several
modules in one run: the first state chooses which part moves, and the variables of
the others stand still, so that the parts are checked one by one and not in each
other's product. The `Proofs` modules hold the theorems,
**Inductions** the induction principles they share. Operators marked "mutant"
in the modules are plausible mistakes in the code; each is used to confirm that a
property notices it, and none is part of a specification.

## 3. What is checked

Runs that pass:

| Run | Instance | Shows |
|---|---|---|
| `routing` | 4 routes of 3 models, one of which has two, two primary requests with two attempts, one worker request that fits the second of the two, 2 slots, log of 2 reservations; 2 approvals; 2 stores | `HistoryComplete`; `SlotReleasedOnFailureOnly`: the three ways a model loses its slot, the failure of a sibling route and the cut log among them; `FailedRoutesStayOut`: a candidate list that is out of date never brings a failed route back; `PrimaryMovesOnFailureOnly`; `FurtherPrimaryOnlyAfterAllFailed`; `RoutedOnceApproved`, `PromptIsUsable`; `BytesExact` |
| `answers` | chat completion with 2 providers, one of them a Claude route, in three mixes of failures; streams and messages of up to 5 chunks; 3 frames and a trailer of a Windsurf stream; a response of 3 texts and 2 calls; cooldowns with 2 requests | `AnsweredOnce`, `NoFailoverAfterFirstByte`, `RequestAnswered`, also that an attempt settles; `KeepsPromise` (refinement of Attempt by both streams); `NothingLost` for streams of OpenAI and native providers; `FramesArriveWhole`: the text of a Windsurf stream and the arguments of its calls; `WellFormed` and `CallsGivenOnce` for the messages of Anthropic clients; `EventsInOrder` and `ResponseComplete` for the events of a response; `SkippedIfCooledSince` |
| `services` | 3 requests on 2 routes sharing account and bucket; 3 requests of a session or over HTTP; 3 client calls and two roles of agents | `HalfOpenIsDue`, `CooldownsHold`; `TurnsRemembered`, `BranchesApart`, `ResponsesForgotten`; `ClientCallsReachClient` |
| `ownership` | 3 scopes, 2 leases, one root; 3 bodies, 2 slots | `LeasesHaveOwners`, `BudgetExact`, `RequestOutlivesHelpers`, `NothingAfterDeadline`; `AdmissionExact`; `MemoryComesBack` for payloads and bodies |
| `kept` | 3 processes of one or two PID namespaces with an update each, one of which has closed the store or crashed before the others start; 2 inode numbers; a task of 2 routes and 1 slot with an oversized primary request and a worker; an outbox of 2 items; 2 seeds, 2 endpoints; conversations of 6 messages, two attempts with providers of three kinds, warnings from 2 reads, windsurf texts from 3 events | `UpdatesAreAtomic` (refinement of TaskRegister), `LockIsKept`, `CrashedLockIsTaken`; `SlotsBounded` when roles compete for the slot, `EveryRequestEnds` through failovers, overflows and compaction; `ItemsAreTried`; `RevivedByProofOnly`; `CallsStayPaired`, `ExchangesStay` |

Runs that show where the code and what the repository says of it differ (each
checks one property, which TLC finds violated):

| Run | What happens |
|---|---|
| `find_displaced` | Two starts find the lock of a dead third process. The slower has compared the inode, the faster replaces the lock, and the slower then unlinks by name the lock of the faster, healthy one. |
| `find_probe_for_good` | A probe that ends in a client abort, a local failure or an unrecorded status leaves its keys half open until a restart. |
| `find_lost_text` | A network chunk whose first event is telemetry is dropped with the text of its later events. |
| `find_lineage_lost` | What is remembered of a response has no task id, so a request over HTTP that continues it is placed in a task by its first message. |
| `find_ban_lifted` | A user's ban is a cooldown like any other: the near-level fallback, or a success of another request that comes late, clears it. |
| `find_pieces_lost` | The second of three pieces of a call's arguments is a lone `{`. It is a prefix of what has come, is taken for a repetition and dropped, and the arguments no longer parse. |
| `find_result_lost` | A result whose content is a list of parts is copied before ids are shortened, its call is changed in place. The second attempt no longer finds the one with the other and drops both. |

Observations no run is devoted to, since no text of the repository says
otherwise or the case is outside the bounds of a run.

Routing and the store. After one failure `acquire` keeps slots only for models
with a reservation on a route that did not fail, and `recordFailure` releases the
model of the last reservation of the failed route, so a role on a healthy route of
the same model loses its slot (`task-routing.js:254`; the comment at 248 can be read
either way): both are among the ways `SlotReleasedOnFailureOnly` lists, and `routing`
reaches them. A request that overflowed, was compacted and gets its route again
finds it among the attempted ones and throws the error that compaction has reset
(`routing.js:9945`). Once the reservation log is cut, a routine `acquire` after a
failure drops the slot of a healthy model whose reservation is gone, which `routing`
reaches, too (the third way). A
crash between `openSync(lock, "wx")` and the writing of the owner leaves an empty
lock that every later start refuses (`task-store.js:68`); `CrashedLockIsTaken` is
about locks whose owner was written. Within a PID namespace the race of
`find_displaced` is the only way a working process loses its lock (`LockIsKept`), and
until it happens no update is lost, with any number of processes. Across PID
namespaces a
writer that stalls between its last check and its rename, while its lease runs out,
overwrites the update of the process that took over: `UpdatesAreAtomic` is claimed
for one namespace only.

Answers. A retry within a group shortens a longer cooldown (`routing.js:9516`). An
event or a private marker that two network chunks share passes the filters, and a
tail that is flushed lacks its blank line. A stream of telemetry only, without
`[DONE]`, leaves its client unanswered, hence `Terminated` in the `answers` run. An
empty data line finishes an Anthropic message early
(`anthropic-gateway.js:648`). A cooldown set after the last save is lost at a
restart. A Windsurf stream that ends between two frames without a trailer counts as
complete; the chunk that brings an error trailer is dropped with the text before it;
a fuller version of arguments that were already given reaches the client only of a
plain answer, so that a client of deltas keeps the first snapshot that had a key
(`windsurf-cloud.js:954`; `FramesArriveWhole` says exactly this); and the idle timer runs while a slow client is awaited.

Responses. Text that begins after a call gets the output index of the first call, and
a message that ends for its length is never marked done. An answer that breaks off is reported as completed; a handler that
throws sends no final event; the answers of hosted rounds do not enter the
session's conversation (`responses.js:2391`). Client calls without ids count as the
same when they say the same (`responses.js:2226`), and two requests that write to
one virtual thread may lose an exchange.

Conversations. A read that was answered is removed when it is repeated, also when
the repetition has no answer (`routing.js:7058`). The warning against a read loop is
inserted before the messages counted earlier are taken out, so what is taken out is
shifted by one (`transforms.js:1800`); it needs a loop of five that the early removal
has missed, and the properties leave such conversations aside (`Warning`). When a
call without result comes before another of the same id, the result goes to the
wrong one (`transforms.js:1154`), which `ExchangesStay` excludes (`Shifted`).

Approval, memory, discovery. A plain "yes" approves the newest pending record, and
an approved record stays usable until it expires. An item queued again while it is
being sent is marked done with its old content; a failed one is tried again only
when some later request starts a drain; a crash leaves one in processing. While
`providers.json` is torn the proxy falls back on its seed, in which all are alive,
and a seed missing from the file is alive between the incremental and the final
write.

**Bounds.** `MaxSlots` is 1 or 2 for the code's 3, with one more model than slots, so
that the ceiling is reached and exceeded by the next candidate; `ReservationLog` is
2 for the code's 100 where truncation matters and 100 where it must not.
`MaxAttempts` lets a request fail over often enough to meet a route another request
failed on meanwhile and to run out of routes. Roles of hidden helpers, which have a
ledger of their own, are covered by the proofs and not by the runs (`HiddenRoles` is
empty). The third process has come and gone before the other two start (`AfterThird`),
so that they find no lock, or a dead process's in their own or another namespace, and
race for it, one of them possibly outrun; the inode numbers are fewer than the locks
created, so they are reused. With three processes from the start, all without a lock
(a million states), TLC finds the same properties true; the proofs are for any number. Two routes with shared and
separate keys and three requests give a probe, a late answer and a bystander. Three
scopes below one root nest to the full depth (response, helper, attempt or native;
response, attempt, native), and two leases let one be handed up while another is
released. Three bodies compete for two slots and two chunks. The mixes of a chat
request bring together the failures that answer each other (nudges with compaction
and rate limits; recall, reroutes and timeouts with context errors; fatal ones with
outages and stalls); `MaxHidden` is 1. Arguments come in pieces, or as snapshots that
may repeat and gain keys. Three frames, each of which a chunk may cut in two, hold two calls
or a call in three pieces; pieces that repeat the beginning of their object are left
to `find_pieces_lost`. Three texts stand before, between and after two calls of two
fragments. Five chunks with a flush after three leave
one before and one after every decision of a stream. Two calls of two fragments with
two texts interleave in every way. Five messages and two remembered responses make
three requests trim the one and evict the other. Three sizes, one larger than the
budget, two stores and two keys make every eviction happen. Six messages hold two exchanges and a repetition, with
`LoopAt` 2 for the code's 5 and `FlatAbove` 2 for its 12, so that the loop and the
flattening are reached; two attempts show what the first leaves behind. Symmetry (the
two keys; and `c` and `d` with their models, the two stores and the two callers, each
pair exchanged with the others, `Alike`) is used in `routing` only, which has no
liveness property.

**Deadlock.** It is checked where `Done` marks the legitimate end: routing, answers
and chat completion, the Responses session; the approvals of `routing` may rest.
It is switched off in `kept`, `services` and `ownership`, where all processes may
have closed, crashed or been refused, where scopes, leases and records are used
up, and where client and model may stop.

**Fairness.** The event loop resumes what waits, timers fire and every upstream
attempt has a deadline; clients, users and operators owe nothing. `TaskRouting`,
`ChatCompletion`, the streams: some handler goes on (that suffices, as each has only
finitely much to do). `WriterLock`: a process that
opens the store runs on, since the constructor is synchronous; nothing is assumed of
updates, heartbeats, crashes and leases. `AccountAvailability`: requests are answered
and time passes. `Ownership`: I/O ends, having a time limit, and functions of scopes
end; clients need not go away, deadlines need not fire, and results need not be
released by their callers. `BodyAdmission`: a body ends or times out, its handler
returns or throws and its response ends or is lost. `Responses`: handlers return and
sockets call back. `MemoryOutbox`: a drain that has begun goes on, as long as Neo4j
answers and nothing crashes. In the combined runs the fairness is that of the part
that moves.

## 4. What is proved

For all values of the constants under the named assumptions of each module, which
TLC evaluates in the runs: `RecordAssumption`, `RequestAssumption`,
`LockAssumption`, `AvailabilityAssumption`, `OwnershipAssumption`,
`ChatAssumption`, `AttemptsAssumption` (the providers are finite in number, and
"pick" is none of them), `StreamsAssumption` (an answer has finitely many calls, and
no call has the id of the message, of the response or of its text),
`ApprovalsAssumption` (there is something to ask), `AdmissionAssumption`,
`HostedAssumption` and `RetentionAssumption` (limits are numbers), `DaemonAssumption`
and `ConversationsAssumption` (requests are numbered, a conversation may hold a
message). A further hypothesis of a theorem is named below.

Each module of theorems treats the components of a part of the system:

- **RoutingProofs**, the task record. `SlotsBounded` is inductive with the types and
  the finiteness of the ledgers; each operator of TaskRecord has a lemma on the
  cardinalities it leaves (`SlotsAlwaysBounded`). `HistoryAlwaysComplete` and
  `HistoryNeverShrinks` need that pins and reservations are remembered too. The
  action properties rest on what each operator leaves alone (`...Keeps`):
  `FailedRoutesAreNotGiven`, since `Viable` is computed from the record as it is at
  the commit; `PrimaryMovesAreFailovers`, from the invariant that a primary request
  never ranks under the event of a specialist (`NoSpecialist`);
  `FurtherPrimaryIsLastResort`, from the invariant that the pinned primary model is
  among those tried (`PinTried`). `SlotsReleasedOnFailure` has no hypothesis on the
  routes of a model or on the length of the log: of the operators that make up an
  acquire only `Recovered` and `Displaced` take slots away, each by its way
  (`RecoveredReleases`, `DisplacedReleases`), and of the answers only a failure does
  (`SlotSteps`).
  Human approval: `GatesHold` and `PromptsCanBeAnswered`, by `ApprovalInv`: what
  approved a request is a record of what it asks, a request that went past a gate
  that holds was approved, and the index finds records of the request it is asked
  for.
  Preparation of conversations: `CallsArePaired`, by `Prepared`. What the client said
  has the client's ids (`Unused`), what an attempt leaves to the next has short ones,
  no two alike (`Used`, `AfterUsed`), and renaming makes of either a conversation of
  the second kind (`RenamedUsed`: names are given one by one, and the nth result for
  an id takes the nth). From there each filter has an account of its own: it derives
  messages from messages (`Derived`) or moves them (`Moves`) with nothing coming in
  between (`Whole`) and a call never parted from its results (`Together`), and each
  of the seven that follow the linkage keeps what pairs up paired (`Paired`), unless a
  warning comes in, whose insertion shifts what is then taken out (`Warns`).
- **OwnershipProofs**. `LeasesAlwaysOwned`, `RequestsOutliveHelpers` and
  `NothingTakenAfterDeadline`, for any nesting depth the callers use. `IInv` says how
  scopes nest (`Nested`), that who closed or returned has aborted
  (`ClosedAborted`), that an abort has reached every listener below
  (`AbortReaches`) and that an attempt outlives the native operations in it
  (`AttemptsWait`). Without the last two a native operation, which cannot see its
  parent's closed flag change, could put a lease into a set nobody empties any more.
  `BudgetAlwaysExact`: the counters are sums over the live leases, and each helper of
  Ownership has a lemma on the leases it releases and hands over (`BudgetInv`).
  `AdmissionIsExact`, by `BodiesInv`: the counters are sums over the requests
  with a lease, and a body that is passed through keeps what its writes have yet to
  send (`BodySound`); each action moves one request, whose part is taken out of the
  sum and put back (`OneBodyMoves`).
- **ServicesProofs**. `ProbesAreDue` and `CooldownsAreHeld`, by `DueInv`: a half-open
  key has a record that is due. That invariant is why a late success cannot clear a
  newer failure: `observe` has ended the probe. And only `Begin` sends a request, which
  looks at the keys again.
  `SessionsRemember` and `BranchesStayApart`, by `ResponsesInv`: the messages of a
  conversation and the items that wait all differ, each is there for a reason
  (`Present`), a conversation that was not trimmed holds the input of each request
  that was made and the answer of each that was given one, in this order, and what is
  remembered belongs to requests that are over, once each. `HostedCallsArrive`: in
  whatever rounds the calls of an answer come, merging them one by one keeps each
  of them or one that says the same, and no two alike.
- **KeptProofs**, what outlives a request. `RevivedByProof`, by `DiscoveryInv`:
  whatever the file or the scan under way says is alive was proven, is never probed,
  or is alive to the proxy already (`Right`), and verdicts a scan may reuse were so
  when it began. `BytesAreExact`: entries that are held, listed and counted are the
  same, each once, through evictions by two limits and over several stores.
  `TokensAgree`, from the invariant `InodeInv`: a descriptor of the lock that is open
  keeps its inode number from being handed out. `LocksAreKept`, for any number
  of processes in any namespaces, from `SightInv`: the token is written before anyone
  finds it, and who takes over has seen the owner dead where it can tell, and the
  lease run out where it cannot, and both stay so until the lock is unlinked. Then
  either the lock is still that owner's, or its taker was outrun.
  `RegisterImplemented` is the refinement of TaskRegister, for any number of processes.
  Its invariant `GuardInv` adds to these that, until the guard falls, whoever holds a
  descriptor of a lock has the lock itself (`HoldersHold`), so that there is one at
  most, and that what it read is the record on disk (`ReadsCurrent`). The step it turns
  on is an unlinking that is not outrun: its lock is a dead process's, hence nobody's
  who works (`NoHolderToDisplace`).
- **AnswersProofs**. `AnswerIsOne` and `FailoverIsClean`, for any providers,
  budgets and mixes of failures. The invariant ties the state of the response to
  the point the round has reached: the head is written only by a served or broken
  attempt or by the request's own answer, and after each of them the round leaves
  the loops. `AttemptsKeepPromise`: both kinds of stream implement Attempt, the
  initial states and every step (`StreamKeepsPromise`, `NativeKeepsPromise`). Its
  invariant says how the promise, the connection and the response go together: an
  attempt that runs has an open connection or is about to settle, a refused one has
  not written the head, and text that is held leaves a mark by which the end finds it
  (`PromiseInv`, `BlankInv`). Streams over HTTP have the hypothesis `Terminated`,
  since one of telemetry only never settles. `AttemptsLoseNothing`: what was heard is
  what the client has, what is buffered and what the filter carries, in this order
  (`Whole`, `TextInv`, `NativeInv`), for streams without a chunk that brings text
  behind telemetry, the case of `find_lost_text`. `SkipsAreExcused`: whichever
  provider on a request's list has a cooldown and no mark was cooled since the
  request ranked it (`Excused`), though others mark, clear and cool meanwhile.
- **EventsProofs**. `EventsStayInOrder` and `ResponsesAreComplete`, by `EventsInv`,
  which relates four things: what was written, what the translator holds, the log of
  items the events so far amount to (which are added, which done, at which index),
  and the conversation. A lemma for each helper says how a step of several
  events moves the log; that the calls are done one after the other is an induction
  over them. What is held, deferred or dropped is accounted for word by word.
- **MessagesProofs**. `MessagesAreWellFormed` and `CallsAreGivenOnce`, by `MsgInv`: a
  message is not begun, or a draft whose open blocks are those the translator knows
  and whose pending calls are those that were written (`Draft`, `Pending`), or whole
  (`Whole`). That a fragment or a snapshot finds its call, by index, by id or by
  position, follows from the key of a call being its place in the order of arrival;
  `Ascending` and `ByKey` are shown to list each pending call once, so that the
  end gives or explains each once (`Handled`).

**Inductions** is what the last modules and the sums rest on. The library's
induction theorems take an operator as a parameter, which the provers cannot
instantiate, so induction is done on sets: the strict subset ordering of a finite set
is well founded, hence what holds of a set whenever it holds of the smaller ones holds
of every finite set (`SubsetInduction`). From this come what adding, removing and
changing one element does to a sum (`SumAdd`, `SumRemove`, `SumSame`), that the
fold of a sequence is reached stepwise (`StepwiseIs`, `StepwiseAppend`), and that a
recursion over numbers has a function that obeys it (`RecExists`).

Where an invariant is not the property itself, TLC checked it on an instance before
it was proved.

Only model-checked: liveness and whatever rests on fairness, which TLAPS does not
treat here (`RequestAnswered`, `EveryRequestEnds`,
`CrashedLockIsTaken`, `ItemsAreTried`, `ResponsesForgotten`,
`MemoryComesBack`); `ExchangesStay`, which follows single calls and results from
the client's words to the provider's through both attempts, by what each filter must
not take, where `CallsStayPaired` only needs what it may take; and
`FramesArriveWhole`, which is about a finite set of argument texts and of ways to send
them and, as `find_pieces_lost` shows, not true of any.

## 5. What is not modelled

Ranking, tiers and prompt fitting are choices; texts, formats and prices do not
appear. Of the modelled parts: identities of tasks and effort selection of the task
runtime; the record limit, corrupt files and the old lock format of the store; which
status or message becomes which failure kind; sockets, back-pressure and the limits
on requests and native operations of the transport, and leases taken outside any
scope; the assessment of a task, recalled memory and statistics of a chat
completion; the filters' handling of text beyond what they carry over and give; the
translation of items, events and plain answers between formats; the scores; models
beyond the seed in discovery; recall and search of the memory; what the proxy
remembers of virtual agents and threads; prompts, schemas, media and the fitting of
sizes in `transformRequest`, and the omission of old history for Windsurf. The session's compaction cache
(`routing.js:9010`) is not used while the task runtime is installed, nor is the
compaction for a provider's context (`transforms.js:959`) modelled, and phases of a
flow advance only through `recordGateEvidence`, which nothing calls. Components that
are left out altogether are listed in `PROJECT.json` with the reason.

Cases of the modelled parts that do not occur in the models: two scans of the
discovery at once, when one takes longer than the two hours to the next
(`llm-discovery.js:1325`); fragments of calls without an index
(`anthropic-gateway.js:787`); a character split between two network chunks
(`routing.js:7910`); the order a task gives the whole list of providers, deferred ones
included (`routing.js:9309`); a conversation with two results for a call or a call
without an id (`transforms.js:1130`); a request blocked again under another gate, shape
or kind, which gets a second record (`human-approval.js:156`), and a later "continue"
taken for the reply to an approval (`human-approval.js:310`); the larger context that a
request asked for once, which the next dispatch of it remembers (`contextUpgrade`).

## 6. Plan

1. Compaction (`lib/compaction.js`): tool calls and their results stay together when
   a conversation is cut and summarised, composed with ToolHistory.
2. The ranking levels of `lib/routing-policy.js`, against the order they promise.
3. The composition of TaskRouting with AccountAvailability, in which eligibility is
   no longer a free choice.
4. Proofs: `ExchangesStay`, along the filters of `CallsArePaired`; that the verdicts of `RevivedByProof` survive a restart of the proxy.
