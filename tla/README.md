# A TLA+ verification of the Engineering Memory Agent

The Engineering Memory Agent (EMA) is a FastAPI service that distils engineering
knowledge into *memories* in PostgreSQL. Content arrives from chat, uploads and
webhooks; an LLM summarises it, grades it against what is stored and decides
between insert, merge and conflict; people resolve conflicts; unattended
patrols and event analyses read the store and propose changes. It runs as one
process with one asyncio event loop (`docs/deployment.md`, "单实例部署约束").

This directory holds models of the parts where interleaving, partial failure
and restarts matter, the TLC configurations that check them, and TLAPS proofs.
Sources are named relative to `src/`; `be/` stands for `backend/`.

## 1. Inventory

### Components, their state and operations

| Component | State | Operations | Right when |
|---|---|---|---|
| Memory store `be/service/memory.py` | `memories` rows: `content_hash`, `meta.prior_hashes`, summary, `deleted_at` | `write_memory` (gate, grade, conflict test, insert, merge), delete | live hashes unique; what the gate recognises is really held; hashes are forgotten only with their row |
| Conflict queue `be/service/conflicts.py`, `resolve_conflict` in `memory.py` | `pending_conflicts` rows, with two partial unique indexes | enqueue from ingestion or patrol, resolve (four resolutions), merge at once, reopen | open conflicts are never stacked; an arbitration keeps its survivor; a resolution on record has happened |
| Provider resilience `be/shared/resilience.py`, `be/service/llm_service.py`, `embedding_service.py` | a breaker per provider: `_failures`, `_open_until` | retrying calls, streams, failover to a second provider | no call during a cooldown; a stream is never restarted under the reader; recovery is tried |
| Usage accounting `be/service/usage.py` | `_pending`, failure counter, `llm_usage` | `record_call`, flush loop, requeue, final flush | nothing vanishes silently; order; bounded memory |
| Webhook intake `be/api/routes/webhook_routes.py` | intake slots, `webhook_logs` | receive, process, record outcome | slots come back on every path; 'received' is never a dead end |
| Event analysis `be/runner/event_analysis.py` | `_cooldowns`, `_event_slots`, `_postmortem_triggers` | gate, analyse, trigger a postmortem | once per entity and window; a skipped event silences nobody |
| Scenario runs `be/runner/scenarios/` | `_scenario_slots`, `scenario_runs` | execute, save as memory | slots come back; one memory per run |
| Patrol runs and scheduler `be/runner/patrol.py`, `scheduler.py`, startup and shutdown in `be/main.py` | `patrol_logs`, one marker per polling loop | poll, catch up, trigger by hand, sweep, cancel | no slot lost or run twice over restarts; no row 'running' for ever |
| Agent graph `be/agent/`, `be/runner/agent_service.py`, `be/api/routes/agent_routes.py` | checkpointed conversation state, chat slots, auto-memory throttle | LLM step, tools, approvals, conflict interrupt, compaction, auto-memory | bounded steps; a declined write never happens, an approved one once; what is sent is accepted, what is shown happened |
| Rate limiter and authentication `be/api/ratelimit.py`, `auth.py` | token buckets | take, refill, prune, refuse | quota over every interval, pruning included; honest Retry-After |
| Ingestion `be/service/ingestion/` | `entities`, `memory_entities`, a semaphore | chunk, extract, normalise, backfill | chunks cover the text; no mention is lost in silence |
| Retrieval `be/service/retrieval/` | `chunks`, recall counts | ingest, recall, fuse, rerank | nothing present is missed; an outage is not "nothing relevant" |
| Read routes `be/api/routes/` | none | entity pages, statistics, usage summaries, listings | answers agree with the tables and with one another |
| Evaluations `evals/` | reports, `floors.json` | run, gate, recalibrate | a pass compares one known channel; a drop is not hidden by spread |
| Connectors, prompts, configuration, metrics, frontend | no shared state of their own | | |

### How they interact

* Webhook intake, chat (through the agent's tools), uploads and scenario runs
  call `write_memory`; an unattended conflict goes to `persist_pending_conflict`,
  an attended one to the agent's interrupt and straight to `resolve_conflict`.
* Patrol findings become conflicts through `persist_patrol_conflict`, or merges
  through an immediate resolution.
* Every LLM call passes a breaker and leaves one observation in the usage buffer.
* A processed webhook may start an event analysis, and its verdict a postmortem
  scenario; each stage has slots of its own.
* Every request to `/api` passes the rate limiter and the key check; a chat then
  takes an agent slot. A run's checkpoint is the thread that the next request,
  an approval or a conflict resolution resumes; auto-memory follows a turn in
  the background.
* A written or merged memory schedules the normalisation of its entities; the
  entity pages, the agent's tool and the dashboard read what it links.
* Startup sweeps `patrol_logs`, checks for missed slots, starts the loops and the
  usage flusher; shutdown cancels them in that order and flushes once more.

### What is hard here

A coroutine gives up control at every `await`: between two database sessions of
one operation, during an LLM call, during a flush. What it read before may be
stale when it writes. There are no row locks and no retries of transactions;
protection comes from partial unique indexes, guards in `WHERE` clauses and
synchronous sections. Process-local state (slots, cooldowns, breakers, buffers,
markers) dies with the process while the database keeps what was committed.
`PROJECT.json` lists the single hazards by line, with the properties that watch
them; hazards without a property say why.

## 2. Modules

| Module | Models | Checked by | Proved in |
|---|---|---|---|
| `MemoryStore` | table and write path | `MCMemoryStore` | `MemoryProofs` |
| `ConflictQueue` (extends `MemoryStore`) | queue, resolution pipeline, over the same table | `MCConflictQueue` | `MemoryProofs` |
| `Resilience` | breakers, retry, streams, failover | `MCResilience` | `ClockProofs` |
| `UsageLog` | abstract: what recording usage promises | through `UsageBuffer` | |
| `UsageBuffer` (implements `UsageLog`) | buffer, flusher, purge, shutdown flush, summaries | `MCUsageBuffer` | `AccountsProofs` |
| `EventPipeline` | intake, event analysis, verdicts, scenario slots | `MCEventPipeline` | `EventPipelineProofs` |
| `PatrolRuns` | patrol runs, scheduler, restarts | `MCPatrolRuns` | `ClockProofs` |
| `AgentThread` | the agent graph on one thread, its requests and transcript | `MCAgentThread` | `AgentThreadProofs` |
| `Gateway` | rate limiter, key check, agent slots, streams, thread deletion | `MCGateway` | `GatewayProofs` |
| `Collections` | choice from a sequence, sums, shared by the others | through them | `CollectionsProofs` |
| `Chunking` | chunk strategies as operators | through `Documents` | `IngestionProofs` |
| `Documents` (extends `Chunking`) | document ingestion and the searches | `MCDocuments` | `IngestionProofs` |
| `Entities` | extraction, normalisation, backfill | through `EntityPages` | `IngestionProofs` |
| `EntityPages` (extends `Entities`) | entity pages, tool and statistics | `MCEntities` | `IngestionProofs` |
| `EvalMetrics` | scores of labelled items as operators | through `EvalGate` | `AccountsProofs` |
| `EvalGate` (extends `EvalMetrics`) | evaluation runs, gate, recalibration | `MCEvalGate` | `AccountsProofs` |

Two conventions hold throughout. One action is what the code does between two
awaits on which another coroutine can run and matter: normally one database
session, with the synchronous code around it. And a variable marked *history*
in its declaration has no counterpart in the code; no guard reads it.

Names ending in `_Something` next to a definition (`MergedRow_PriorReadAfresh`,
`Marked_BeforeApply`, ...) are plausible mistakes in that definition. Nothing uses
them in the specification; they document which mistake each property notices
(`PROJECT.json`, "mutants").

### MemoryStore

`mem` is the table, `wr[w]` the locals of a coroutine inside `write_memory`. A
content stands for its hash. A summary is the set `holds` of contents whose text
went into it, and `lost` remembers those whose merge by the LLM failed. `Gate`
answers duplicates; `FindSimilar` chooses the closest live row and a grade (the
real distances are data, so every choice is possible); `MergeCommit`,
`InsertCommit`, `InsertRejected` and `RaceLookup` are the sessions that follow.
`MergedRow` builds the row from the *snapshot* taken by `_find_similar`, as the
code does, and `MergeCommit` writes it whatever the row has become meanwhile,
including deleted. `IndexAllows` is the partial unique index over live rows.
Seeds are rows written directly, with a NULL hash (`evals/seed.py`).

### ConflictQueue

`q` is `pending_conflicts`, `cl[r]` a request or agent turn. An ingestion case
has a writer's content and no `peer`; a patrol case names two stored rows.
`QueueAllows` is the conjunction of the two partial unique indexes. A resolution
takes the sessions the code takes: `LoadConflict`, `CheckSurvivor`, one of
`KeepExisting`, `KeepBothStored`, `KeepBothInsert` or `ReadSurvivor` followed by
`WriteResolved` (or its refusal by the rowcount guard, or its rejection by the
index and `ResolveRace`), and `MarkResolved`. `Crash` ends a request between any
two of them. Writers of `MemoryStore` run meanwhile; their conflicts reach the
queue or are resolved by the agent (`AgentResolve`). A write that loses a hash
race to one of them is rolled back, the deletion of the loser with it, and its
request goes on with the outcome "duplicate", which `MarkResolved` records like
any other; `raced` in the queue's row is history and remembers it.

### Resilience

A call consults the breaker once (`Enter`), tries up to `AttemptLimit` times and
reports one outcome; a stream reports what happened to its body. `left` is what
remains of `_open_until`, so the clock needs no bound. `RecordFailure` counts
while the breaker is open as well, because the code does: calls admitted before
the trip may trip it again. `GiveUp` is the fallback provider's `except` clause.
The embedding providers share the code and the shape.

### UsageLog and UsageBuffer

`UsageLog` is the promise: an observation waits, is taken into one batch with
all the others that wait, and comes out written in order, waiting again, or
given up; only a batch in doubt may be written again, and a full buffer gives up
its oldest. `UsageBuffer` is the code: `pending` is `_pending`, `inflight` the
batch that lives only in a local variable of `flush_usage_buffer`, `flusher` the
position of the loop and then of the shutdown code, `table` the `llm_usage`
rows, `due` the day of the next purge. An error may come before or after the
COMMIT took effect. The refinement mapping reads the identities off the four
(`Log`, at the end of the module). `Summary`, `Totals`, `GetTrace` and
`GetSamples` are the read side with the price table.

### EventPipeline

A delivery is one background task. `slots` are the three counters; `cool` and
`draftCool` the two windows in ticks left. `began` is history: the window opened
by the last analysis that really started. `Conclude` chooses the verdict or its
absence, `Push` sends the card, `FinishAnalysis` persists the record and decides
on a postmortem, `NotifyPostmortem` tells of it; each can fail, and a statement
that fails may have taken effect. `SendFeishuMessage` keeps apart what the webhook
answered and what readers got to see: a 2xx counts as sent whatever code is in its
body, and a request that times out may have been delivered. `analysis` is the
column of `webhook_logs`; `answered`, `shown` and `unsaid` are history. `Restart`
kills all tasks and forgets all process-local state at any moment.

### PatrolRuns

One patrol type (types do not interact: every query filters by type; the sweep
is per row). Time is counted in ticks; the local clock shows `now` plus the UTC
offset in force (`Offset`), and the slots are the multiples of `Period` on it. A
slot the code holds is kept as the moment it was computed at, because
`PreviousSlotAt` uses the offset of that moment: after a change of the offset the
same local slot is another instant. `MarkStale`, `CatchUp` and
`Seed` are the startup in its order, each of which can fail or be overtaken by
the clock; `Fire` is a poll that sees a new slot; `Check` and `Insert` are the
overlap guard and the row in their two sessions; `Abort` is a write that fails
or is cancelled, and may have been committed. `Die` ends the process at any
point. The terminal statuses are one value, "over": nothing here depends on
which it is.

### AgentThread

`msgs` is the checkpointed conversation, `node` the node to run next or what the
thread waits for, `force` the checkbox, `captures` the background tasks of
auto-memory. Each node of `agent/graph.py` is an action; a cancelled node leaves
no update. `Request` and `FinalPrompt` compute what a provider is sent (window,
summary, merged system messages, cut calls), `ToAnthropic` its second form, for
every budget; `Displayed` and `Panel` compute the transcript, `LivePanel` what the live
reply and the stream's `meta` event list, which is taken from all messages of the
thread. A verdict (`Verdicts`) names any of the calls of a batch and approves any
of those it names; when it approves all it names, the whole batch runs, and
`Unnamed` are the calls that run without having been named. The calls of one
message are a set: nothing depends on their order. `ran`, `forced`,
`excused`, `cleared` and `captured` are history. The requests of a thread come one
after the other, as the chat page sends them; the routes do not see to it, and
runs that overlap on one checkpoint are not modelled.

### Gateway

`buckets` counts tokens in fractions; `request[r]` is a request past the limiter,
`slots` the counter of `SlotLimiter`. A stream may be abandoned before its body
starts, be interrupted by its timeout at any yield, or end; `rows` are the tables
a thread leaves entries in, deleted statement by statement. What a run does is
`AgentThread`'s matter. `admitted` and `promise` are history.

### Chunking and Documents

Prose is a sequence of characters, code a sequence of lines with the ranges of its
statements; `ChunkText` and `ChunkCode` are the code's recursion as recursive
functions over bounded depth. `rows` is `chunks` with its unique index, `ingest` two
overlapping ingestions, `search` one search whose channels read the table at
different times. The vector index is approximate (HNSW): each of its scans may
overlook near rows, which `missed` remembers. Hybrid fusion is exact in fractions
(`Share`); reranking may fail for any subset of the candidates.

### Entities and EntityPages

`queue` is `_normalization_tasks` under the semaphore, each task one mention at
a time (`Look`, `InsertEntity`, `Link`), any of which may fail; `backfill` is
`normalize_all_existing`; `update` a merge between its read and its write. `lost`
is history and holds the mentions whose normalisation failed, which is logged,
`killed` those whose task died with the process, which is not. `Like` and
`Matches` are ILIKE, of a name as a pattern and of a part of a name. The candidate
search takes its approximate index as exact: an overlooked row only makes it
offer another close one or none, as the LLM's verdicts may.
`EntityPages` adds no state: the answers of the routes, the agent's tool and the
dashboard are functions of the tables, with their LIMITs (`Lists` is the set of all
answers that rows of equal rank allow), taken in one state each (the routes send
their statements one by one, so a page may be older in one part than in another).

### EvalMetrics and EvalGate

A run of the evaluation turns each item's output, its failure or its judge's
failure into scores; `disk` holds the reports with their channel, `floors` the
thresholds. `GateRuns` and `GateReports` aggregate a selection of reports and
compare the lower end of the confidence interval with the floors; `Recalibrated`
derives floors. The interval's square root is avoided by comparing squares.

## 3. Runs

| Run | Instance | Shows |
|---|---|---|
| `memory_store` | 2 writers, 3 rows (1 seed), 2 hashes | `LiveHashUnique`, `GatedContentHeld`, `GateForgetsOnlyByDeleteOrStaleMerge` |
| `conflict_queue` | 2 rows (1 seed), 2 hashes, 1 writer, 2 conflicts, 2 clients | `OpenConflictUnique`, `LoserGoneUnlessRaced`, `ArbitrationKeepsSurvivor` |
| `resilience` | 3 calls, threshold 2, cooldown 1, 2 attempts | `NoAdmissionDuringCooldown`, `NoFailoverAfterToken`, `PrimaryReadmitted` |
| `usage_buffer` | 3 calls over 2 days, buffer of 1, 2 attempts | `ImplementsLog` (refinement), `ReadsFaithful`, `EventuallySettled` |
| `event_pipeline` | 2 deliveries, 1 manual run, 1 key, caps 1, windows 2 and 3 | `SlotsAccounted`, `CooldownBacked`, `ReceivedInHand`, `OncePerWindow`, `VerdictsAgree` |
| `patrol_runs` | 3 runs, 2 ticks, 3 slots, 1 change of the offset, 2 stops | `RunningInHand`, `SlotServedOnce`, `RowsTerminate` |
| `agent_thread` | 2 user messages, 2 model calls per turn, 1 stop | `RequestAccepted`, `OnlyApprovedRan`, `ForcedHandled`, `CaptureComplements`, `ReplyFaithful`, `ComesToRest` |
| `gateway` | 2 requests, 2 keys, 1 slot, 4 ticks, 1 bucket kept | `LimitsHeld`, `RetryHonest`, `DeletedMeansGone`, `SlotsReturn` |
| `documents` | 2 documents, 4 sources, 2 ingestions, 1 edit, 1 search | `DocumentCovered`, `FusionDominance`, `OutageKeepsRecall`, `NothingMissed` |
| `entities` | 2 memories, 4 mentions, 2 writes, 1 failure, 1 backfill | `UnlinkedOnlyByFailureOrRestart`, `PagesTruthful`, `BackfillRepairs` |
| `eval_gate` | 2 runs, 3 reports, 2 channels | `FreshFloorsPass`, `PassMeansComparable`, `SustainedDropFails` |
| `patrol_race` | as `conflict_queue`, with 3 rows, 2 writers, 1 conflict, 1 client | finding: `ResolvedMeansLoserGone` is violated |

### Why these bounds

* **memory_store.** Every race of the write path is between two writers, or a
  writer and a deletion, over one row; the third row lets both insert while the
  seed, whose NULL hash takes another branch of `_record_prior_hash`, stays.
* **conflict_queue.** Two rows make one patrol pair in both orders, two conflicts
  allow a stacked duplicate, two clients the double click. `LoadBound` caps
  requests, writers and used queue slots together at three. The `VIEW` leaves
  out only what no later guard and no property of the run reads (listed in
  `MCConflictQueue`). `patrol_race` needs a third row, for the writer that wins
  the hash race against the arbitration.
* **resilience.** Three calls are one more than the threshold: two trip a breaker,
  the third brings the late failure or success that meets it open, and the first
  two, admitted again after the cooldown or late themselves, trip it once more,
  so that `PrimaryReadmitted` is about a cooldown that is prolonged as well. A
  cooldown of one tick suffices: what matters is whether an outcome comes before
  or after it. The run has about 360,000 states.
* **usage_buffer.** Three rows overflow a buffer of one while a batch is in
  flight, and outlive two failed flushes each; two days let the purge release a
  sample. The calls differ in scenario, provider, price rule, status and trace,
  two of them share a group. `Calls` bounds recordings, so `EventuallySettled`
  speaks of behaviours in which recording pauses at some point.
* **event_pipeline.** Two deliveries of one key exceed either cap and meet in one
  window, a manual run can occupy the scenario slot; verdicts lie on both sides
  of both severity thresholds. Delivery names are interchangeable (`SYMMETRY`).
  With 2.5 million states it is the largest run.
* **patrol_runs.** One catch-up, one cron and one manual run can overlap; two
  stops allow a catch-up killed by a second crash and caught up again. Two ticks
  at a period of two pass three slots, one of which comes again after the end of
  summer time (`MCOffset`). `MaxRuns`, `MaxNow` and `MaxStops` bound it.
* **agent_thread.** Two messages are the least in which one turn can harm the
  next; two model calls reach the step limit; the model answers in words or
  with one safe and two gated calls, so a batch can be approved, or named, in
  part. One timeout or crash (`MaxStops`).
* **gateway.** Two concurrent requests compete for one slot; two keys, of which
  one is refused by the key check, with one bucket kept force pruning; four
  ticks exceed the idle timeout. `MaxTime`, `MaxAdmitted` bound the histories.
* **documents.** The sources hold every separator, an overlap and code of both
  parses, with chunks of three characters; beside them every text of up to five
  characters is chunked. One edit between two ingestions and one search suffice
  for each order of commits and channel reads. A query recalls the two nearest
  rows (`MinRecall` and `TopKs`, for the 20 and 10 of the code), fewer than a text
  has chunks, so rows do drop out of the recall; a scan overlooks at most one near
  row (`MaxMissed`). Documents and ingestions are interchangeable.
* **entities.** Two names of one thing, another thing, and a name that is no
  string, claimed to be related by known and by unknown types; two writes make a
  merge over a stale row or a burst over a semaphore of one. The pages, their
  recent memories and the dashboard list one row and the tool two, so each list
  can be cut (`PageSize`, `RecentSize`, `TopSize`, `ToolSize`, for 20, 5, 10 and 10).
  One name is part of another, for the searches.
  `MaxWrites`, `MaxFailures`, `MaxBackfills` bound it; memories are interchangeable.
* **eval_gate.** Two runs are the least with a spread; channels are
  interchangeable; `MaxReports` and a grid of `Grid` steps bound the scores.

Symmetry sets are used only in runs without liveness properties. Deadlock is
left unchecked where the bounds or a closed process end the behaviour:
`usage_buffer`, `patrol_runs`, `agent_thread`, `gateway`, `documents`, `entities`,
`eval_gate`.

### Fairness

* `BreakerFairSpec` (`Resilience`): the clock ticks, every SDK call has a timeout, and new
  calls keep coming. Without traffic nobody would ask the primary again.
* `UsageBuffer!FairSpec`: the event loop runs the flusher and database awaits end.
* `PatrolRuns!FairSpec`: one weak fairness for all steps of startup, exit, runs
  and cancellation together: if some can be taken, some is. It relies on
  `PATROL_TIMEOUT`, on database timeouts, and on an operator who restarts the
  service. Crashes and triggers are not fair.
* `AgentThread!FairSpec`: the graph takes its next node and a capture task its
  next step. People answer or not: a thread that waits for a human is at rest.
* `Gateway!Fairness`: handlers that can run do, and `asyncio.timeout` ends a run.
  That a stream's body is ever started is not assumed.

### The refinement

`ImplementsLog` is `UsageLog!Spec` under the mapping at the end of `UsageBuffer`.
Every step of the buffer is a step of the log or leaves it alone: `Record` is
`Observe` (with the overflow that gives up the oldest), a flush is `Take`, then
`Written` or `Doubted`, a purge stutters. It says in one formula what five
invariants would say apart, and over all histories: nothing vanishes unlogged,
order is kept, duplicates need a doubtful INSERT, only the oldest is dropped,
and nothing is recorded once closed.

### Divergences between code and text

`patrol_race` is checked as a run. The comment at `conflicts.py:384` reads two live
memories of a resolved pair as "keep both" and suppresses the pair for good. But
when the write of an overwrite or a merge loses a content-hash race, it is rolled
back with the loser's deletion and answered "duplicate" (`memory.py:692`), and the
conflict is marked resolved as if it had happened (`conflicts.py:211`): both live,
nobody chose it, and the contradiction is not queued again. The
following were met while modelling; the models follow the code, and no property
is claimed against it.

* *Failed merge.* A failed LLM merge still moves the content hash
  (`memory.py:377`), so a retry of the lost content is answered "duplicate",
  though the docstring promises the memory unchanged (`memory.py:370`).
* *Survivor race.* `keep_existing` deletes the loser without a second look at the
  survivor (`memory.py:753`, `:773`): both rows of a pair can be gone.
* *Forgotten hashes.* A patrol pair's loser takes its `prior_hashes` with it
  (`conflicts.py:338`, `memory.py:853`), against the comment at `memory.py:215`.
* *Growing buffer.* `_requeue_failed_rows` ignores `usage_buffer_max`
  (`usage.py:351`), against "still caps memory growth" (`usage.py:266`). Rows
  whose final flush at shutdown fails are lost (`main.py:280`). `llm_usage` rows
  are dated by their flush. Cancelled and abandoned streams record no usage.
* *Burned draft.* A postmortem refused for lack of a slot keeps its six-hour
  window (`event_analysis.py:457`).
* *Write races.* A writer past the gate may insert a hash a concurrent merge has
  moved into another row's `prior_hashes` (`memory.py:85`); the loser of an insert
  race whose winner is gone ends in `RuntimeError` (`memory.py:591`); resolving a
  conflict whose memory was deleted writes into the deleted row (`memory.py:670`);
  a patrol conflict whose survivor is deleted can be resolved by nothing
  destructive (`memory.py:769`). The second of two clicks on "save as memory" is
  answered "duplicate" and overwrites `save_action` (`scenario_routes.py:170`).
* *Notifications.* `notified` says only that the webhook answered with a 2xx:
  Feishu's own code in the body is not read, so the card may not be there, and a
  request that timed out may be delivered and recorded as not notified
  (`notification.py:67`).
* *Patrols.* After a change of the UTC offset the loop fires the same local slot a
  second time (`scheduler.py:196`), against "once per day" (`scheduler.py:123`);
  `SlotServedOnce` is therefore about slots told by one offset.
  Overlap guard and insert are two sessions (`patrol.py:163`); a skipped
  trigger has answered with an id that has no row (`patrol_routes.py:97`);
  `patrol_weekly_hour + 2` raises for hours 22 and 23 (`main.py:244`). Nothing
  sweeps `scenario_runs`: a killed run stays 'running'.
* *Agent.* After the marker of a timeout on a thread without a stored persona,
  no persona is added (`nodes.py:1031`), and Anthropic is sent a message of role
  system: `RequestAccepted` excepts such threads. A turn without an assistant
  message puts its sources on an earlier turn's answer (`agent_routes.py:303`).
  With `MAX_AGENT_STEPS=1` a ticked checkbox asks for its write and never runs it
  (`graph.py:44`; nothing validates the setting, `config.py:327`): the proof of
  `ForcedHandled` found this, and the property excepts that limit. A batch verdict
  that names only some calls and approves those runs the whole batch, unnamed
  gated calls included (`nodes.py:1563`), against "check if ALL calls were
  approved" there; `OnlyApprovedRan` counts them as cleared, and says that nothing
  else runs. Stale or alien ids in a verdict are not modelled. The live reply and
  the `meta` event list the tools of earlier turns too (`agent_routes.py:537`,
  `:712`); the transcript read later does not.
* *Entities.* A restart drops the queued normalisations without a log
  (`memory.py:525` catches `Exception` only), against `memory.py:494`; a backfill
  finds them. A page's `memory_count` and its related entities count deleted
  memories, its breakdown, its recent memories and the dashboard do not; the
  relation shown between two entities is the strongest of *all* relations of the
  memories they share (`entity_routes.py:239`). An overwrite keeps the links of
  the old content. `check_normalization_gaps` misses a memory linked in part.
  Results of `ingest_repo` that are conflicts are dropped (`ingestion.py:123`).
* *Documents.* Chunks of an edited document's old text remain; `write_chunks`
  counts rows the index skipped; the overlap is re-applied at every level of the
  recursion (`chunk.py:44`); a function longer than `max_lines` is cut, against
  `tools.py:377`.
* *Gateway.* The "hard cap" on buckets (`ratelimit.py:83`) is exceeded when none
  has expired; pruning refills a bucket whose window is longer than the idle
  timeout; a stream whose body never starts keeps its slot (`agent_routes.py:602`).
* *Evaluations.* The gate is not monotone in spread: runs that each meet the
  threshold can fail together, against `multi_run_gate.py:20`. Floors are clamped
  at zero although the interval may reach below (`multi_run_gate.py:247`).
  Recalibration replaces all thresholds by those of the suites rerun, against
  `recalibrate.py:43`; a metric of two suites gets the last one's floor. An item
  that errors is in no confusion cell and can raise F1. Greedy matching makes
  entity scores depend on order. The baseline has no provenance, so the channel
  check passes over it.

## 4. Proofs

The theorems hold for every value of the constants under the assumptions named
in the modules (`ConstantsAssumption`, `ParametersAssumption`,
`GatewayAssumption`, ...), which TLC evaluates in the runs. Each module states
one inductive invariant per component, proves that every action keeps it, one
lemma per action or group of actions, and draws the properties from it. Every
invariant and every action property that a run checks is a theorem, except the
one that a run shows violated; what stays with TLC is liveness (last paragraph).

**MemoryProofs**, `MemoryStore`. `IInv == TypeOK /\ LiveHashUnique /\ RowsSound /\
SnapshotsSound`. `GatedContentHeld` alone is not inductive: a merge writes what
its snapshot says, and may write into a deleted row, so soundness has to hold of
snapshots in flight and of all rows. Two lemmas carry the step proof: a writer
that moves without touching the table (`WriterMoves`) and one row written
(`RowWritten`). From `IInv` follow `TypeCorrect`, `HashesStayUnique`,
`GateIsHonest` and the action property `GateForgetting`.

**ClockProofs**, `Resilience`. `TypeCorrect`, where the counter stays *below* the threshold,
then `CooldownHolds`: an unexpired cooldown belongs to an open breaker and adds
up with the time since the last trip. The property is about when a call is
admitted, and that invariant is what a late success must not disturb.
`CooldownRespected` follows. `YieldedStaysPut` (no failover after a token) rests on
`TokenInBody`: only a stream whose body is being read has yielded, and there
`GiveUp` raises to the caller.

**MemoryProofs**, `ConflictQueue`. `QIInv` adds to types and uniqueness what is true of each
queue row (`SlotSound`) and each request (`ClientSound`): the case it works on is
the one it was loaded from and names rows that exist, and a request about to
record a destructive resolution has dropped the loser. The proof of the last
part is how `patrol_race` was found: the write that lost its race reaches
`MarkResolved` with the loser still live, so the invariant holds but for rows
`raced`, which `LoserGone` says. `SurvivorKept` is the action property; it needs
that the two sides of a case are different rows.

**EventPipelineProofs.** `PInv` has one part per stage of a delivery (`Early`,
`Judged`, `Closed`): what has been stored, sent, drafted and recorded by the time
its task is at a given place. `SlotsHeld` relates each counter to the finite set
of tasks that hold a slot, and `WindowsBacked` says that the windows are exactly
those of the analyses that began. A record's `notified` is tied to
`answered` alone: nothing the task knows tells whether the card was shown. From
these follow the four invariants and `AnalysedOncePerWindow`.

**ClockProofs**, `PatrolRuns`. `SlotServedOnce` speaks of rows, but a run may serve a slot
before it has one, so `SlotsUnique` is about runs that have a row *or may still
get one*; what keeps a catch-up from taking a slot twice is `SlotsCovered`: the
slot the scheduler knows of was given up, has a run since, or has its run under
way. `Lifecycle` says that no task runs before the sweep is over. Nothing is assumed
of the offset, so slots may come again or go back; only between two moments with
one offset throughout do they grow (`SlotMonotone`, `SlotBetween`), and the part "at
most once" is stated for those (`SameSlot`). The part "at least once" needs no such
condition.

**GatewayProofs.** `LimitsHeld` counts requests over every interval. `Budget` makes
it inductive: what was let through since any moment, plus what the bucket still
offers, comes out of a full bucket and the refill; a pruned bucket counts as
full, which needs the assumption that no window is longer than the idle timeout
(true of both tiers; see Divergences for what a longer one does). `Promised` ties
a 429 to the tokens there will be. `RunsInv` holds the slots and, for a deletion,
that what it has not reached it still has to do. `LimitsAlwaysHeld`,
`RetryAlwaysHonest` and `DeletedAlwaysGone` follow.

**CollectionsProofs.** What `Chosen` and `Total` do, for every sequence and finite
set. A choice is an increasing selection of positions (`Selects`); a sum is taken
apart by its first argument, over two sets, and by groups (`GroupOf`). The
library's induction theorems take an operator, which the provers cannot
instantiate, so `NatInSet` is derived from well-foundedness (a set of numbers has
a least one) and applied to the set of arguments for which a claim holds; sums
are inductions over the number of their arguments. All later recursions
(`Passed` of Gateway, matching of EvalMetrics, the chunkers) are proved so.

**AccountsProofs**, `UsageBuffer`. `LogImplemented` is the refinement: initial states
map to initial states and each step to one of `UsageLog` or to a stutter, under
`UInv` (batch before buffer, each in recording order; a row written without doubt
is older than all that follows). `ReadsAlwaysFaithful` has three parts.
`TracesAlwaysReplay` and `ErrorsAlwaysSampled` follow from `UInv`.
`SummariesAlwaysAddUp` is about sums: `EstimateCost` is linear in the tokens of one
provider and model, so the cost of a group is the sum of the costs of its calls,
and a sum over the lines of a summary, each over its groups, each over its rows,
is the sum over the rows. That a group has one model and one provider is what
makes it true; grouping by the key and the model alone is the mutant.

**AccountsProofs**, `EvalGate`. `GateInv` says what survives later reports, gates and
recalibrations: the runs kept to be compared have not failed (`RunsSound`), a pass
is still one on the reports it was given (`VerdictSound`), and the floors are
still what `derive_floors` makes of the reports they came from (`FloorsSound`).
That a report added to the disk changes none of it is `ReportAdds`: the aggregate
is restated as a function of the disk (`SampleOn`, `FailuresOn`). `FreshFloorsPass`
then needs that the interval's lower end is monotone in the floor it is compared
with, `SustainedDropFails` that the mean of values below a floor is below it,
whatever the spread. The scores are shown to be natural numbers, for all answers
and verdicts, from what `EvalGateAssumption` says of the labels.

**AgentThreadProofs.** `OnlyApprovedRan` looks back at executions, so `BatchSound`
says of the answer under judgement that, when its tools run, each gated call it
still carries has been cleared: approved, or left unnamed by a verdict that
approved all it named. A partial approval keeps the message's place
(`AnswerKept`) and drops the rest. `ForcedHandled` needs `ForceSound` (the flag is
up only before the first answer of its own turn, and the write it asks for has
not run) and `Owing`, the write still to come. `CaptureComplements` compares what
auto-memory reads in the messages with what was executed; `SettledSound` says that
the two agree while the turn runs, `CapturesSound` that they cannot drift apart
once it is over. The lemmas on conversations (`TurnGrows`, `ManyMore`,
`SettledKept`) and on the latest of some places (`LatestAmong`) are stated once.
`RequestsAlwaysAccepted` and `RepliesAlwaysFaithful` are about the whole
conversation. `TalkInv` adds to that invariant that the thread is *woven*
(`ResultsSound`: a result stands after the message that asked for it with only
results of the same message between, none twice), that the step counter is the
number of this turn's answers (`StepsSound`), where turns begin and end
(`TurnSound`), and that what ran in a turn is told in it (`Told`). Windows,
compaction and the cut of unanswered calls choose messages in their order
(`Draws`, `Keeps`), and of any such choice of a woven thread the request is well
formed, for OpenAI's form and for Anthropic's (`Sendable`).

**IngestionProofs**, `Entities`. `EInv` adds two things to types and
`UnlinkedOnlyByFailureOrRestart`. A task past its search has a mention in hand and,
when about to link, a row of a close name (`TasksSound`), which holds on because
rows are only added or renamed, never moved (`EntitiesGrow`). And while nothing has
failed since the backfill began, every mention of a live memory is linked or
pending, so that the ghosts `lost` and `killed` are not needed to account for it
(`CleanSound`). `StillAccounted` says once what a step must not disturb; a lemma per
action shows that it does not. That a backfill covers all memories with entities
(`BackfillCovers`) is the pigeonhole of its order being without repetition. From
`EInv` follow `UnlinkedOnlyByFailureOrRestartAlways` and, when the backfill's list
runs empty, `BackfillAlwaysRepairs`.

**IngestionProofs**, `EntityPages`. That the pages agree is set theory over the
tables, for every state that `EInv` allows and every LIMIT: of any two answers a
cut list allows (`ListsAre`), what both list agrees, and what one leaves out has no
more memories than what it lists. That no relation is hidden needs
`ClaimsSound` as well: a relation is between mentions of its own memory, also in a
merge that is under way, because a merge keeps the names of both sides
(`MergedIs`). `PagesAssumption` is that a name a pattern is ILIKE is also found by
the search for that pattern. A name is not assumed to match itself: one with a
backslash need not.

**IngestionProofs**, `Documents`. `DInv == RInv /\ SInv`. `RInv`: no content twice
in a document, and of an ingestion under way each chunk is in the table or on its
way (`Gathers`), which concurrent inserts do not disturb because rows are only added
(`RowsGrow`). `SInv`: rankings are of rows of the table and repeat none, and each
row near to the query that was there at the start is among the candidates, was
overlooked by the index, or has as many others at least as near as are recalled
(`Covers`); the last is a count, and the table only grows, so it stays true.
`ByScore` is a stable sort defined by counting; that it is a permutation in that
order (`ByScoreSorts`) is proved by counting too. `FusionAlwaysDominates` follows
from it and from shares that fall with the rank (`ShareFalls`; above rank 4 the
model's shares are rounded, and fall all the same). `OutagesAlwaysKeepRecall`,
`NothingEverMissed` and `DocumentsAlwaysCovered` are drawn from `DInv`;
`SimilarityAssumption` is that similarities are integers.

**IngestionProofs**, `Chunking`. `DocumentCovered` says of every text of up to five
characters that it can be read off its chunks; `EveryTextKept` says it of all
texts, limits and overlaps. Chunks `Spell` a text if it can be cut into as many
parts as there are chunks, each the chunk itself (exact: a cut without overlap) or
its end (with one). Cutting at the separators spells a text (`Parts`), gathering
parts spells what they spell, with a finer split of what is too long (`Gathered`),
and an overlap stands before what a chunk adds (`Overlapped`); a chunk split again
because of its overlap still ends with what it added. By induction over the
separators `SplitRecursive` spells its text, and `ReadUpTo`, which the run
evaluates, finds the cuts. `EveryLineKept` is the same question for code, with a
simpler answer: the lines in the chunks and in the rest are those passed so far
(`Sweeps`), for whatever ranges the parser reports, nested or out of order.

**Only model-checked.** Liveness under fairness (`PrimaryReadmitted`,
`EventuallySettled`, `RowsTerminate`, `ComesToRest`, `SlotsReturn`), which is out of
the prover's reach, as ENABLED is. `ResolvedMeansLoserGone` is false (`patrol_race`),
and `LoserGone` proves what is left of it. Of `UsageLog` nothing is proved on its
own: `LogImplemented` carries over what its actions say.

## 5. Plan

What could come next, in order of worth:

1. **Modules.** The life of a scenario run up to `save_run_as_memory`, with the
   row it leaves; the embedding pool; the walk of a Git repository.
2. **An abstract content gate** (contents recognised, growing by writes and
   shrinking by deletions) that `MemoryStore` implements up to stale merges.

## 6. Not modelled

Connectors, prompts, configuration, logging and metrics keep no state that
interleaves. The frontend is outside. The quality of what an LLM or an embedding
returns is data: where it steers control, the models allow every outcome.
Signature checks answer before any state changes. Of the embedding service only
the breaker it shares with the other providers is modelled. Vendor-specific
retries (`chat_raw_stream` of Anthropic is tried once, `chat_json` asks again
after empty content) and the semantic retry of `structured.py` are not told
apart in `Resilience`. Of the evaluations, the retrieval, task and end-to-end
suites, the experiments, the prompts of the judges and the reports' layout are
left out. `save_run_as_memory`, the dismissal of findings, the parsing of patrol
reports and the listings of memories, chunks and runs are not modelled.
