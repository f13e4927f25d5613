# A TLA+ verification of hermes-engine

hermes-engine is a FastAPI backend for LLM agents.  One process runs one
asyncio event loop: handlers and background tasks interleave only where they
`await`, and share module globals (circuit breakers, caches, the event bus, the
MCP bridge, the scheduler) and a few SQLite files.  What is hard about it is
what happens between the two halves of a handler that waits for a provider, a
receiver or a client; that is what the modules here are about.

## 1. Inventory

| Component | State | Operations | Interacts with | What makes it correct |
|---|---|---|---|---|
| Circuit breaker (`shared/circuit_breaker.py`) | per provider: state, failures, opened_at | allow_request, record_success, record_failure | every turn and the fallback chain | trips at the threshold, rests the whole timeout, recovers |
| Agent engine (`agent/engine.py`), fallbacks (`provider/fallback.py`, `provider/model_fallback.py`) | none of its own | run_turn, run_turn_stream, the two chains | breakers, registry, compressor, adapters | every turn ends; results are recorded with the right circuit |
| Sub-agents (`shared/subagent.py`) | a semaphore | run_subagent (with timeout), run_subagents_parallel | engine | cancellation leaves nothing inconsistent |
| Conversations (`conversation/`), chat endpoints (`shared/session_router.py`, `agent/router.py`) | tables conversations, messages | create, update, delete, add/get messages, chat, stream, close | engine, cleaner | counts agree, questions are kept, the model sees the question |
| Data cleaner (`shared/data_cleaner.py`) | none | _clean | conversations, memories | removes only what is old, and all of it |
| Webhook retries (`gateway/retry.py`) | table webhook_retries | enqueue, process, the loop in `main.py` | receivers | bounded, final, and every record settles |
| Memory (`memory/`, `shared/memory_synthesizer.py`) | table memories, a global message count | CRUD, search, archive, grade, consolidate, synthesize | chat endpoints (after a turn), cleaner | one interval of messages, one curation; the curator touches neither what is gone nor what is important |
| Skills (`skill/`) | markdown files, a cache per request | create, patch, delete, scan, match | chat endpoints | a skill that was made can be reached under the name it is loaded with |
| Context building (`shared/context_*.py`, `_prepare_messages`, `provider/base.py`) | none | build, recall, compress, prepare, split | engine, adapters | the newest messages and the instructions reach the model |
| Request pipeline (`main.py`, `shared/idempotency.py`) | hit lists per address, stored responses | the middlewares | every handler | at most the limit per window; nothing runs again once its key is answered |
| Lifespan (`main.py`, `shared/plugin.py`) | the switches, background tasks, plugins | start-up, shutdown | all background tasks | what the settings ask for runs; a shutdown cleans up everything |
| Scheduler (`shared/scheduler.py`) | task map, the loop | add, remove, tick, start, stop | requests, backups, lifespan | registered tasks fire |
| Model catalogue (`provider/router.py`, `shared/model_cache.py`, `shared/response_cache.py`) | two caches | list, refresh | adapters | what is confirmed is young; a refresh takes effect |
| Compatibility API (`api_compat/`), adapters (`provider/`) | the registry | stream, answer, route | engine, SDKs | what precedes the finishing chunk is all there was, in order |
| Event bus (`shared/event.py`) | subscribers, sockets, a Redis channel | publish, subscribe, listener | every router | each live socket gets each event once |
| MCP bridge (`mcp/`) | connections: client, tools, healthy | add, remove, list, call, check, close | requests, shutdown | no client is left open without an attempt to close it |
| Tool calls (`tools/approval.py`, `tools/router.py`, `tools/executor.py`) | pending tokens | execute, approve, execute-multiple | handlers | a token runs one tool once, in time |
| Migrations and connections (`shared/migrations.py`, `shared/sqlite_base.py`) | _schema_version, a connection per thread | open, migrate | every store | the version is never ahead of the schema |
| Accounts, operations, tools of the operating system | - | - | - | rows, files and processes: not modelled |

The hard behaviours, each at its line, are the `hazards` of `PROJECT.json`.

## 2. Plan

Modules, in the order of their importance to what the engine does:

1. **AgentTurn**, on **CircuitBreaker**, implementing **BreakerLifecycle** - done,
   with proofs in **AgentTurn_proofs**.
2. **Sessions** - done, with proofs in **Sessions_proofs**.
3. **RetryQueue** - done, with proofs in **RetryQueue_proofs**.
4. **Memory**, **Skills** and **Context** - done: what surrounds a turn.  They
   share no state and are checked side by side in **MCKnowledge**.
5. **Pipeline**, **Tools**, **ModelCatalog**, **Compat**, **EventBus**,
   **McpBridge** and **Migrations** - done: one module per component of the server.
6. **Scheduler**, and **Lifespan** which extends it - done: `main.py` creates the
   scheduler's loop, registers a task with it and stops it.  These and the modules
   of 5 are checked side by side in **MCServer**.

**Selection** is the list comprehension that five of these modules filter lists with
(and the orders of a set); what it returns is proved in **Selection_proofs**.  The
proofs about what is checked together are kept together: **Requests_proofs**
(Pipeline, Tools, ModelCatalog, Compat), **Process_proofs** (Lifespan, McpBridge,
EventBus, Migrations), **Knowledge_proofs** (Memory, Skills, Context), and
**Server_proofs**, which joins the first two to the specification of `server`.

Left to prove: nothing that the passing runs check as an invariant or as an action
property.  What is left to TLC is named at the end of section 5.

## 3. Modules and code

### CircuitBreaker, AgentTurn, BreakerLifecycle

`CircuitBreaker` is the record of one breaker and one operator per method; the
methods hold a lock and are indivisible.  The code reads the clock only in
`time.time() - opened_at >= reset_timeout`, so the record keeps the difference,
`elapsed`, capped at the timeout, and `Older` is one tick.  `failures` is only
compared with the threshold and capped there.

`AgentTurn` has slots for turns.  A slot is suspended in one of five awaits: the
compressor's call, the primary call, a call of the model fallback, a call of the
fallback chain, an open stream.  An action is what the code does from one await
to the next, so asking the circuit and sending the call are one step, and
recording a result and asking the next entry of the chain are one step.

| Action | Code |
|---|---|
| `Start`, `CompressReturns`, `PassBreaker`, `Admit` | `run_turn` up to `await provider.chat_completion` |
| `CallSucceeds`, `CallFails` | its `try`/`except` |
| `ModelReturns` | `try_model_fallback` |
| `TryChain`, `ChainSucceeds`, `ChainFails` | `try_with_fallback` |
| `StreamEnds` | `run_turn_stream` |
| `TimeOut` | `asyncio.wait_for` in `run_subagent` |
| `Tick`, `Flip` | the clock; a provider stops or starts answering |

Two observers, `probe` and `waited`, remember of an admitted call whether its
circuit was HALF_OPEN and how long ago it was admitted.  They guard nothing.  A
call succeeds exactly while its provider is up, where `up` means answering within
every timeout.  A `ServiceError` and any other exception are told apart because
the handlers do; today's adapters raise only the latter.

`BreakerLifecycle` is the promise: CLOSED, OPEN, HALF_OPEN, an opening lasts its
whole rest, only a rested circuit is probed.  `AgentTurn` maps `state` and
`elapsed` to it.  One step of a turn may move several circuits (a chain entry's
failure opens one while the walk asks others), so an abstract step is a set of
independent moves.

### Sessions

Rows, messages, and the requests in flight.  The chat endpoints are split at the
model call and nowhere else: `SessionChat` (both session endpoints) loads or
creates the conversation, builds the history and stores the question;
`AgentChat` stores nothing yet; `ChatReturns` stores what is left;
`ChatFails` is an error or a crash.  `Close` reads the metadata and
`CloseReturns` writes it back.  `Day` and `Clean` are the clock and the data
cleaner; ages are in days, and a request sees one midnight at most.
`First80[t]` is what the dedupe compares of a text, so two texts may be different
and have the same head.  A body may be without a message of the user: then nothing is
stored and `updated_at` stays (`Questions`).  Foreign keys are on in the store's connections (an insert without a
row fails) and off in the cleaner's.

The history is the window that was loaded and what `Select` leaves of the body: the
messages whose heads are not among the loaded ones.  `ModelSeesTheQuestion` is what is
true of that; the run `appends` shows what is not.

### RetryQueue

Rows of `webhook_retries`, the batch a pass has read, and the sleep of
`_retry_loop`.  A pass suspends in a POST (`Posting`) and, once a delivered record is
marked and committed, while the `async with` closes the client (`Closing`): `Delivered`
runs up to there and `ClientCloses` goes on to the next POST.  Faults: `CloseFails`
(the closing raises, inside the same `try`: the delivered record is counted as a failed
attempt, and given up when that was its last), `Crash` (and restart), `MarkFails` (the UPDATE or its
commit raises into the `except` meant for failed deliveries; after a failed
commit the second commit writes both updates), `Abort` (a write in that `except`
raises, the pass ends, the loop swallows it).  The observers `posts`, `lost` and
`answered` count what receivers saw.

### Memory

`Memory` has the rows of the table memories and the count of the one `Curator`
that all requests share.  A row keeps what some statement tests: scope,
importance, whether and by whom it is summarised, how often it was read (nothing
asks beyond "more than once"), and two ages in one unit, since the code compares
them with 30 and 90 days.  `Never` is a NULL `last_accessed_at`.  A chat handler is
split at its model calls and nowhere else:

| Action | Code |
|---|---|
| `AgentAnswered`, `Synthesized`, `AgentCurates` | `chat` of `agent/router.py` after its turn |
| `RecordAndCurate`, `SessionStream` | the other three chat endpoints |
| `AutoCurate`, `RunFrom`, `Consolidate` | `should_run`, `run`, and its continuation after the model's answer |
| `CreateMemory`, `GetMemory`, `UpdateMemory`, `DeleteMemory`, `RunCurator` | `memory/router.py` |
| `CleanMemories`, `PassTime`, `Crash` | the data cleaner, the clock, the process |

`Enabled` is the switch that `should_run` asks.  The answer of a consolidation may name
any ids, the described ones or not.  `Crash` may come between the INSERT and the read-back
of an add, whatever the row holds.

`Added` and `Updated` include the read-back of `add_memory` and `update_memory`,
because `get_memory` counts it as an access and the grading asks for accesses.

### Skills

`files` maps stems to files.  A name is a short sequence over six characters, which
is the least on which the three conversions differ: `Slug` (the creator, also for
deletion), `PatchStem` (the patcher) and the stem itself (the loader).  Each REST
request has a service with an empty cache, hence `NewCache`.

### Context

The journey of the message list: `StartTurn` builds the context, `Compress` takes
the middle out or leaves the list as it was, `Prepare` prepends the prompt,
`Send` is the adapter: OpenAI's sends the list as it is (`messages`), those of Anthropic
and Gemini what `split_system_messages` makes of it (`given`); `RecentSurvive` looks at
both, after the split.  Every sequence of roles up to `MaxMessages` is tried.

### Pipeline

Two middlewares around an abstract handler: `Admit` is the limiter with its sweep,
`Replay`, `Run`, `Body` the idempotency store; an answer is `Chunks` body events, each
stored before it is forwarded, and `Break` cuts it.  `admitted` and `answered` observe.

### Tools

`AskApproval` and `ApproveTool` are the two halves of a gated call, `StartCalls`
and `HandlerEnds` the executor, sequential or concurrent.

### ModelCatalog

`models` is the cache of lists and `responses` the cache of answers around it.  A
GET asks provider after provider (`AskProvider`, `ListArrives`); everything else may
come in between.  The middleware's path prefix covers POST `/refresh` as well: `refreshes` is the
age of the answer it keeps, and with its hash `RefreshNotModified` answers 304 and clears
nothing.  The contents of a list are left out: `stale` observes that the
provider was asked for it before a refresh.

### Compat

The stream of `/v1/chat/completions` from its opening chunk to `[DONE]`, over
`run_turn_stream` and an adapter that yields pieces, fails or breaks off; and the
plain answer, where the shapes that the adapters return meet the conversion.

### EventBus

In memory, a publisher's `gather` over one send per socket; with Redis, a channel
and one listener that sends in turn.  A client may vanish or be slow (its send never
ends).  A send to a socket that has vanished raises or not (`Raised`), and one that raised
removes it.  Ids of sockets and events are used once.

### Scheduler and Lifespan

`Scheduler` is the dictionary, and the loop as the iterator sees it: its size at
the start of the tick, what is left, what was returned.  `Lifespan` is `main.py`
step by step under every combination of the switches; `CleanedUp` says what each
cleanup does to the tasks and plugins.  `StopLoop` and `CreateLoop` of `Scheduler` are
parts of its actions.

### McpBridge

Connection objects outlive the map: a request holds on to its own.  `CloseBegins`
and `CloseEnds` are the two halves of `close`, and `CloseFails` is an `aclose` that raises:
it is logged, the reference stays ("failed"), and nobody calls it again.  `NextServer` is one step of the
iteration over the live map, which raises when its size has changed.

### Migrations

An opening of a store statement by statement: `InitTables`, `ReadVersion`,
`RunStatement`, `SetVersion`.  `OpeningFails` is an error or a crash at any of them.
`given` is the order in which a store lists its migrations.  This is `MigrationRunner` as
it is written.  Both stores of the repository give it a single migration with an empty
script (`conversation/store.py:58-61`, `memory/store.py:75-78`); what several versions
bring up is what the next migration will meet.

### MCKnowledge and MCServer

Components that share no state would multiply their states for nothing.  Both modules
have a variable `part`, chosen at the start, and only the actions of that part are
taken: the states add up.  A property is about its own part, and holds in the others
by what their Init says of it.

## 4. Runs

| Run | Shows | Bounds |
|---|---|---|
| `turns` | circuits are consistent in every interleaving and implement the lifecycle; every turn ends, whichever calls fail | 2 turns, 2 providers and an unregistered name, chain of all three, one fallback model, threshold 2, rest of 2 ticks |
| `recovery` | a recovered provider's circuit closes | 3 turns, one provider, no chain |
| `sessions` | counts, questions and rows stay consistent; a message is left out only for a loaded one that begins like it | 1 conversation, 2 requests, 3 texts of which two have the same head, 3 bodies (one without a question), window 1, TTL 1 day, new messages below 3 |
| `retry` | posts accounted, settled is final, every record settles | 3 records, 3 attempts, batch of 2, delays up to 3 ticks, 2 faults |
| `knowledge` | one curation per interval and none forgotten; consolidation and grading keep what they should; made skills are reached; newest messages and instructions reach the model | 1 memory, 2 turns, interval 2, 4 messages, ages up to 2; 6 names; requests of up to 6 messages, 2 kept |
| `server` | the components around the chat, each on its own (below) | 2 of each actor; limits, lifetimes and windows of 1 or 2 |
| `startup` | a violation: with cron off the server does not start | every combination of 6 switches |
| `refresh` | a violation: a refresh does not take | 1 provider, 2 requests |
| `probes` | a violation: HALF_OPEN is not limited to `half_open_max` | as `turns`, chain of two |
| `fallback` | a violation: the chain is not used when the primary fails | as `turns`, chain of two |
| `orphans` | a violation: cleaning leaves messages behind | as `sessions` |
| `appends` | a violation: a repeated message is not sent to the model | as `sessions` |

The properties of `server`, by part: at most `MaxHits` requests of an address in a
window, whatever the sweep drops (`AtMostMaxHits`); a stored body is whole once nobody
writes it, unless its request broke off (`StoredBodyIsWhole`; of the status, and of an entry whose stream broke off, it says
nothing), and no request starts
to run under a key that was answered within its lifetime (`NoRunAfterAnswer`); a token
runs one tool once and in time (`ApprovedOnce`); the two lifetimes add up and never
renew each other (`ConfirmationsExpire`); before a stream's finishing chunk come all the
provider's pieces in order, and the engine's error after them (`FinishedMeansWhole`; on the
wire that error is text like any other, followed by "stop", so this is not a way to tell
a cut answer from a whole one); events reach a socket at most once, and at least once
unless it vanishes (`AtMostOnce`, `EveryoneIsServed`); a shutdown tries every cleanup
(`ShutdownIsComplete`), a server begins to serve with the retry loop and, as its settings
ask, the cleaner, the hot reload, the cron loop and the backup task (`ServesWithItsTasks`;
the Redis listener is not among them: `main.py:253-257` logs that it could not start and
goes on), and a registered task fires as long as the loop is alive (`TasksFire`; a
dictionary changed during a tick kills the loop, and that is exempt); no client of a
removed server stays open without an attempt to close it (`ClientsAreClosed`; one whose
`aclose` raised is out of everyone's reach and counts as failed); and the schema is complete for whoever gets a store
(`VersionMeansApplied`, `OpenMeansComplete`).

Why the bounds are enough.  Two turns are the fewest that can disagree about a
circuit and three let a late failure meet a probe and a fresh call; a threshold
of two separates "one more" from "enough"; a rest of two ticks has an inside.
Two providers and a skipped name exercise every branch of the chain, and the
chain comes back to the provider whose circuit refused, which another turn may have
closed or opened meanwhile.  The theorems
below cover the other values.  One conversation suffices because conversations
share nothing; the window of one is exceeded at once.  A TTL of one day is the
least there is, hence the one that comes closest to a waiting request: a row is
cleaned after its second midnight, and a request sees one at most.  Three texts give
a question, one with the same head and a different one.  Three records and batches of two leave one behind, and two
faults can hit the same record twice.  `Room` (Sessions), `MaxRecords` and
`MaxFaults` (RetryQueue), `MaxRecorded` (Memory), `MaxMessages` (Context), `MaxCalls`
(Tools) and `MaxPieces` (Compat) are the only bounds that stop something the code
would go on doing, together with the ids that are used once: memories, tokens, events,
sockets and connection objects.

One memory is enough for the curator because its statements treat rows one by one;
two turns let one pass wait for the model while another starts, and four messages
are two intervals.  Requests of six messages with two kept have a middle of one or
more with and without a leading system message.  A second known address
starts the sweeps.  Two versions, two statements and two openings let one
opening set the version back under the other.

Fairness.  `AgentTurn` assumes that time passes and that every call returns or
raises, which the HTTP clients' timeouts give.  Nothing obliges users to
send requests or providers to recover: `RecoveredProviderCloses` has both as its
premise.  `RetryQueue` assumes that time passes, that the loop's task is resumed
and that a POST ends, which httpx's ten seconds give; faults are finite in
number.  Sessions has no liveness property and no fairness.
`Memory` assumes that a handler which waits for a model is resumed: the providers'
clients have timeouts.  `EventBus` assumes that tasks that can run do, and that sends
to clients that read end; a slow client's send gets no fairness, as nothing in the
code bounds it.  `Lifespan` assumes that the loop runs and that cleanups end; the
scheduler's actions are awaited without a limit, and `TasksFire` is about those that end.
Requests, clients, refreshes, crashes and the shutdown are never obliged to happen.

What the violations mean.  `half_open_max` is never read.  A failing primary
call goes to other models of the same provider, never to the other providers.
The cleaner's connection lacks `PRAGMA foreign_keys`.  The dedupe of the
history compares the new messages with everything loaded, so asking the same
thing twice, or repeating a word the assistant used as a whole answer, sends the
model a history without the new message; and since it compares 80 characters, so does a
long question that begins like an earlier one.  `lifespan` binds `_asyncio` inside the branch
of the cron switch and uses it outside.  A list of models that was asked for before
a refresh is cached after it.  Known and not checked, because no
document denies it: the close endpoint overwrites metadata changed while its
summary was written; a stream's answer is never stored; a late failure of an
ordinary call reopens a HALF_OPEN circuit; model fallback, compressor and streams
call a provider whatever its circuit says; a delivery whose result cannot be
written, or whose client cannot be closed, counts as failed; an error, or half of a
stream, is replayed as a 200 under its idempotency key.

Met while modelling, and part of the model where it has a place there:

- Memory: the second statement of the grading looks only at the scope "active", which
  only clients give (the default is "general"), so hardly anything becomes stale.  The
  consolidation overwrites a summary a client wrote meanwhile.  `session_chat_stream`
  counts messages and never curates.  A memory whose `add_memory` died before its
  read-back is archived whatever its importance, as `ImportantStayOut` says.
- Skills: no skill ever reaches the context of a turn, since the search looks in a
  cache that is empty (`context_builder.py:100`).  `MadeSkillsAreReached` is about the names
  that skills are loaded with, which are slugs, and not about the spellings they were made
  with: the patcher says that it names files "same as creator" (`patcher.py:38`), but turns
  blanks and slashes into underscores, so "My Skill" is created as `my-skill.md` and a patch
  of "My Skill" is a 404.
- Context: a client's system message that is not the first may be compressed away,
  and a client's own system message displaces the context that was found.
- Pipeline: the comment on the order of the middlewares (`main.py:461`) is the
  reverse of what happens.  A response is replayed as 200 whatever its status was.
- Tools: what runs after an approval has the arguments of the approving request;
  `execute-multiple` does not ask the gate; an unknown tool in a sequence loses the
  results before it; expired tokens are dropped only when used.
- ModelCatalog: the ETag is never sent to a client, and a failed fetch is cached as an
  empty list.  A refresh that a client repeats with the hash of its answer is a 304 and
  refreshes nothing.
- Compat: the OpenAI adapter's `tool_calls` are dropped by the conversion; an exception
  of an SDK that is not among `_STREAMABLE_ERRORS` cuts the stream without a word.
- EventBus: a stopped Redis listener is never started again.  A publisher whose Redis
  connection is lost gets the error after its change is made.
- Scheduler: every task fires in every tick, so the daily backup is made each minute;
  registering or removing a task during a tick ends the loop for good.
- Lifespan: plugins are loaded and deactivated but never activated; cleaner, retry loop
  and hot reload are cancelled with the event loop, not cleaned up.
- McpBridge: a server replaced under its name keeps its client for ever, and so does one
  whose `aclose` raised; a server noted as unhealthy is passed over until it is probed.
- Migrations: the version may be set back by a slower opening, and its scripts run again.

## 5. Proofs

The eight `_proofs` modules are checked by TLAPS, for all values of the constants that
satisfy the named assumptions.  Every invariant and every action property that a
passing run checks is stated by a theorem.

The assumptions say that bounds and lifetimes are numbers of the size the code gives
them (`BreakerAssumption`, `TurnAssumption`, `RetryAssumption`, `SessionAssumption`, ...),
and of four sets that they are finite: `Sockets`, `TaskNames`, `Servers` and `Versions`,
which stand for the entries of dictionaries and lists in memory.

*Lists.*  What a list comprehension keeps takes induction over lists.  The library's
rules have the property as an operator, which no installed prover can instantiate; the
rules `NatInduction1` and `ListInduction` have it as the set of what has the property,
and are proved from the fact that every non-empty set of numbers has a least element.
From them: `Select` is
well defined and obeys its two equations (`SelectEmpty`, `SelectAppend`), holds what
was asked for and nothing else (`SelectElements`), keeps the order (`SelectOrdered`),
and leaves a list alone when all of it is kept (`SelectAll`).  This is why the models use
`Select` and not the `SelectSeq` of the library.

*Circuits.*  `TypeCorrect`, `ClosedBelowThreshold`, `OpeningsRestFully`,
`OpenCircuitsAreQuiet`, `TurnsImplementLifecycle`, from `BreakerAssumption` and
`TurnAssumption`.  The inductive invariant adds to the types that every circuit is
sound by itself: closed below the threshold, resting only when OPEN.  Each
operator of `CircuitBreaker` keeps a circuit sound and is one move of the
lifecycle or none; a step of a turn changes each circuit by such operators
(lemmas on the fates of a circuit), so the walk down a chain of any length needs
no induction.  `OpenIsQuiet` needs the ages of admitted calls and of openings to be
advanced by the same `Tick`.

*Retries.*  `TypeCorrect`, `EveryPostAccounted`, `DeliveredIsAnswered`,
`SettledForGood`, from `RetryAssumption`.  The accounting is not inductive by
itself: a pass works from what it read, so the invariant adds `BatchIsFresh` (what
is still to handle has the attempt that was read, and is pending or the record whose client
is closing), `AttemptsLeft`, and `ClosingCounted` (the post of that record is one more than
those recorded and lost).  `OneInHand` says that one record at a time is in flight; an
answer then moves one post from under way to recorded, and an abandoned pass moves
it to lost.

*Sessions.*  `CountsAlwaysAgree`, `QuestionsAreKept`, `SessionsKeepTheirRow`, from
`SessionAssumption`.  `CountsAgree` needs `NewIsNew`: an id without a row counts
nothing, so the row an insert makes again starts right.  That a waiting request
keeps its row is not inductive, because the cleaner goes by age; `InUse` adds that
the conversation of a request that has stored its question is never older than the
request.  A midnight ages both, storing only makes the conversation younger, and a
request is at most one day old, which a TTL of at least one day never exceeds.
Most actions are `Gentle` (they take no row, age none and only append), and one
lemma covers those; deleting, a midnight and the cleaner have proofs of their own.
An `AgentChat` is not `Asking`: it stores nothing before its answer, and the cleaner
may take its row.

`ModelsSeeTheQuestion` and `SessionsWellTyped` speak of the history.  A history is the
window that was loaded and, of the body, what has no head in common with it; by
`SelectElements` each message of the body is among the latter, or its head is one of the
former.  Nothing changes a history
once it is sent, so `HistoriesOK` is inductive beside `IInv`.

*Memories.*  `CurationsAreEarned`, `ImportantMemoriesStayOut`, `ArchiveIsKept`, from
`MemoryAssumption`.  `KeptRow` says what the statements of a pass may do to a row:
the archive is left alone, and an important memory enters it only if nobody has ever
read it.  It is transitive, so a pass is one `KeptRow` from end to end, whatever it
started from; this alone gives `ArchiveIsKept`.  `ReadOnce` adds that a memory has
been read unless its add died before the read-back, which leaves the grading nothing
important to archive but those.  `CurationsEarned` is inductive with its types: a
curation adds `Interval` on one side and the reset takes at least as much away.  `MemoriesWellTyped` adds the places of the handlers and
the bound on what is recorded.

*Skills.*  `MadeSkillsHaveOneName`, for any set of names over the six characters.
`GoodSlug` says what the creator makes of a name: lower-case letters and single dashes, none
at either end.  `SlugIsGood` shows it of every name, from the order in which `Select`
leaves the places that are kept; `GoodSlugStays` shows that creator and patcher leave
such a name alone.  Patching writes files that the invariant speaks of only under
names that were there.

*Context.*  `RecentMessagesSurvive`, `InstructionsAlwaysSurvive`, `ContextWellTyped`,
for any number of messages, any `KeepLast` and any limits.  The invariant goes along
with the five steps: compression keeps the end of the list and the first message when that is
a system message (`CompressedKeeps`), the prompt is prepended only where no system
message is left and carries the whole context (`Instructs`), and the split by `Select`
takes the last system message there is (`SelectLast`).  What is true of the end of a list
is true of what `Select` keeps of it, so the recent messages end the split list too.

*Pipeline.*  `NoAddressExceedsItsLimit`: the limiter's lists and the observer's are
different (a sweep drops lists, and an admission drops what has left the window), so the invariant says
that they agree within the window (`HitsAgree`) and that a list is ordered by age, so that
a list whose last hit is old has only old ones.  `StoredBodiesAreWhole` and
`NoSecondRun`: requests under one key overwrite each other's entry, so the invariant
says of an entry that is not whole that the request that wrote it last is still
capturing exactly that much (`PartsAreHeld`), and of a key that was answered within
`KeyTTL` that it has an entry as old as the answer (`AnswersAreStored`).

*Approvals.*  `ApprovedAtMostOnce`, for any tools, tokens and lifetimes.  The invariant
adds `NotBefore`: only a token that has been used up has started a tool, and an approval
takes a pending token to one that is dropped, from which no step leads back.

*Catalogue.*  `ConfirmationsAreOfTheirTime`.  A request that collects lists takes only
lists that were within `ModelTTL` when it came in (`CollectsFresh`), and from then on the
answer and its oldest list age together (`AgesTogether`), so neither cache can extend the
other.

*Streams.*  `FinishedStreamsAreWhole`, for streams of any length.  The invariant is the
property at every moment instead of at the end: what the client has is what the provider
has sent, and the error after it if it failed.

*MCP clients.*  `ClientsAreAlwaysClosed`.  The property says of a client that is open or
being closed that someone still answers for it; the invariant adds `NobodyUses` (no request is left
when the shutdown begins, so none opens a client behind it) and `MapIsClosed`
(while `close_all` goes through the servers, what it has dealt with is closed).

*Events.*  `EventsComeOnce`.  Over Redis an event is sent long after it was published,
so the invariant says of each place an event can be in what is known there: in the
channel it is for nobody yet and waits once, under way it goes only to sockets that it is
for and has not reached, and the sockets the listener has still to come to are distinct.

*Migrations.*  `VersionsAreApplied`, `OpenStoresAreComplete`.  Another opening may set the
version back at any time, so nothing can be concluded from the version itself.
What an opening has still to run is exactly what is newer than the version
it has read or written, in order (`Plan`), and all up to that version has run (`UpTo`).
That the sorted list has this shape, whatever order a store lists its
migrations in, comes from `SelectElements` and `SelectOrdered`.

*Lifespan.*  `ShutdownsAreComplete`, `ServersHaveTheirTasks`, for every setting of the
switches.  The invariant says how far start-up and clean-up are at each phase, and
`LoopHasStarted`: a clean-up begins after the scheduler's coroutine has run, so the loop
cannot set `running` again once it was told to stop.

*Together.*  `KnowledgeWellTyped` and `ServerWellTyped` are the type invariants that the
runs check.  `ServerIsItsComponents` says that a behaviour of `MCServer` is one of each of the
eight components: an action of one part leaves the variables of the others alone.  So
every theorem about a component holds of the server that the run checks.

Only model-checked is liveness, since TLAPS does not reason about fairness or
`ENABLED`: `EveryTurnEnds`, `RecoveredProviderCloses`, `EveryRecordSettles`,
`CountedAreCurated`, `EveryoneIsServed`, `TasksFire`.

## 6. Not modelled

What `PROJECT.json` lists as `not_modelled`: accounts and auditing (single statements
on rows that nothing else reads), operations (copying a database file, polling a
time stamp, logging), and terminals, browser and built-in tools (processes and files of the
operating system).  To the models these are awaits that end.

Inside modelled components: the wording of prompts and errors, parsing of
configuration strings, titles, pagination, logging, full-text search, the semaphore of
the sub-agents (it only delays a start, and nothing here nests sub-agents), the wire
formats of the providers, and callbacks of the event bus inside the process, which
nothing registers.
