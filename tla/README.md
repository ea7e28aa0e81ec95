# A verification project for StockNewsAgent

The repository is an agent platform: a FastAPI service that answers a task by
letting a language model call tools over PostgreSQL data, a command-line client,
and a job that loads the data. This directory holds TLA+ models of its core
logic, TLC configurations that check them on small instances, and theorems
about them with proofs for TLAPS. Paths below are relative to `src/`.

## 1. Inventory of the system

| Component | Source | State | Operations | What makes it correct |
|---|---|---|---|---|
| compaction | `service/compaction.py` | none (pure) | `should_compact`, `compact_messages` | a compacted conversation is one the provider accepts and the model can go on with |
| agent loop | `service/loop.py` | `messages`, `cumulative_input`, `compactions`, the round and the call being served | one coroutine per run, `run_agent` | bounded model calls, every call answered in order, frames dropped, an end |
| dataset registry | `service/datasets.py` | `_frames`, `_counter` of one run | `put`, `get`, `describe`, `clear` | a handle the model was given stays usable to the end of the run and no longer |
| tools | `service/tools.py` | none of its own (DB, registry, the threads of the default executor) | `dispatch` and ten tools | every outcome is a result or an error the model can read; a result is about what was asked for |
| service | `service/main.py` | a queue and a task per stream | `/run`, `/run/stream`, `/traces`, `/healthz`, lifespan | each event delivered once and in order, the right end, no run left behind, an orderly shutdown |
| telemetry | `service/telemetry.py` | none (writes `traces`) | LiteLLM success and failure callbacks | one row per model call, never an effect on the run |
| pool | `service/db.py` | the asyncpg pool | `init_pool`, `close_pool`, `pool` | at most 10 connections, no one waits for ever, no one finds it closed |
| client | `agent.py` | lines read, exit status | plain run, `--trace`, `--trace-only` | the exit status tells what happened |
| ingestion | `ingest/ingest.py` | six tables, one transaction | six guarded stages | a table is loaded or not, exit status 0 means loaded |
| schema | `db/01-schema.sql` | tables | keys, `traces` | re-inserting a row is no change |
| deployment | `docker-compose.yml` | containers | start order | the agent starts on loaded data |

How they interact. A client posts a task. `/run/stream` creates the run as a
task on the same event loop, takes the events the run puts on a queue through
`on_event`, and yields them as lines; it also polls whether the client is still
there, and cancels the run if not. `POST /run` awaits the run and never looks at
its client. A run calls LiteLLM, dispatches the tool calls of the reply one
after the other, each under a 30 s `wait_for`, inserts a `traces` row after
each, and appends the results to the conversation. LiteLLM's logging callback
inserts a `traces` row for each model call, beside the run. Before a model call
the run may compact the conversation. The tools of all runs, the two kinds of
INSERT and `GET /traces` share one pool of connections; the ARIMA fits of all
runs share the threads of asyncio's default executor. Ingestion is run by each
`docker compose up`, before an agent is started and beneath one that is up
already; it shares only the tables.

What is hard here: the interleavings of run, generator and client at their
awaits; cancellation racing the end of a tool; timeouts racing answers, and a
thread that outlives its timeout; rows that are written late, out of order or
not at all; everybody waiting for a connection; compaction of a conversation
that was compacted before; a transaction that is committed on the way out of an
error; restarts of a job that trusts what it finds; a shutdown while all of this
is going on. `PROJECT.json` lists these as hazards, each at its line, with the
properties that cover it.

## 2. Modules

| Module | Models | Uses |
|---|---|---|
| `Compaction` | the algorithms of `compaction.py` | - |
| `DatasetStore` | abstract: what a run may count on of its registry | - |
| `RunOutline` | abstract: a run as the rest of the service sees it | - |
| `AgentLoop` | `run_agent`; the tools only by how they may end | `Compaction`; implements `DatasetStore`, `RunOutline` |
| `Datasets` | `load_prices` and the `dataset_` tools on the registries of several runs, the executor's threads | implements `DatasetStore` |
| `Headlines` | `headline_search` and `headline_topic_frequency` | - |
| `StreamContract` | abstract: what `/run/stream` promises | - |
| `RunStream` | `/run/stream`, its run and the streaming client | `AgentLoop`; implements `StreamContract` |
| `Traces` | the `traces` rows of a run, telemetry's and the loop's, and what `GET /traces` replays | `AgentLoop` |
| `Service` | lifespan, requests, runs, the pool and its users | `RunOutline` |
| `Ingest` | `ingest.py` and its transactions | - |
| `Startup` | the conditions of `docker-compose.yml` around the job | `Ingest` |
| `MCAgentLoop`, `MCRunStream`, `MCTraces`, `MCDatasets`, `MCHeadlines` | small instances; `Service` and `Startup` are instantiated by their cfg alone | |
| `CompactionProofs`, `AgentLoopProofs`, `DatasetsProofs`, `HeadlinesProofs`, `ServiceProofs` | theorems about the module of that name | |
| `RunStreamProofs`, `TracesProofs` | theorems about the compositions with `AgentLoop` | `AgentLoopProofs` |
| `IngestProofs` | theorems about `Ingest` and about `Startup` | |

How they fit together: `AgentLoop` is the run in full. `RunStream` and `Traces`
extend it, so that each of their steps is a step of the loop or beside it.
Several runs at once would be out of reach with conversations in the state, so
`Service` composes runs by their `RunOutline` and `Datasets` by their tool
calls; that `AgentLoop` implements the outline, and both it and `Datasets`
implement `DatasetStore`, is checked and proved, and ties the three together.

**Compaction.** A message keeps its role, the ids it calls and answers, whether
it has a thinking block, its estimated tokens, and the *topics* its text shows:
the system prompt, how the task opens (100 characters) and the rest of it, a
summary's preamble, a dataset handle, or other work. A summary quotes the first
100 or 200 characters of a message, or its last 200, so what a message's opening
and ending show is kept apart from what it shows at all. The prompt's
instructions and a long task's rest stand in neither: one compaction loses them.
This is enough to see what a summary forgets, and there are no strings. Call ids are pairs of turn and place: the ids of one conversation are
assumed distinct, as a provider makes them.

**AgentLoop.** `pc` is the await at which the coroutine is suspended; each action
is the code from one await to the next. A tool's end (`ToolReturns`) and the
moment `wait_for` resumes (`ToolResumes`) are apart, because a cancellation in
between is lost: Python 3.11's `wait_for`, which the containers run, returns the
result of an inner task that is done. A timeout takes two steps as well: the
timer makes `wait_for` cancel the tool (`ToolTimesOut`), and 3.11's awaits it
until it has ended (`ToolStops`); a cancellation of the run does the same
(`CancelsTool`). A tool may return, fail, load a frame, load a frame whose
`describe` then fails (`leak`), or hang. The model may reply
with any number of calls, with or without a thinking block, or fail. The INSERT
of the trace may fail. `Finish` is the `finally` clause.

**Datasets.** A frame is what the tools' conditions look at: its number of rows
and, per column, whether it is numeric and how many leading values are null (what
`LAG` and `rolling` leave). Each tool is one action, and so is each end of an
await: `FetchEnds` for the query, `FitEnds` for the thread, `ToolCancelled` and
`ToolStops` for `wait_for`. `queue` and `running` are the executor: giving a call up cancels a
fit nobody has begun, which a thread then drops, and leaves one that has begun.
A reply says which tool answered about which handle, from how many values
(`size`), with how many raw rows (`shown`). pandas, statsmodels and the executor
are external.

**Headlines.** A headline is a source, a time in half days (so that midnight can
be told from noon), a ticker and a rank. Each of the four queries has its own
translation of its WHERE clause: `AbcMatches` and `USMatches` are the search's,
`CountAbcMatches` and `CountUSMatches` the counts', which the code writes a
second time. The rows of the counts are a list, as `parts` is. `ORDER BY ... LIMIT` is any set of top rows, because ties
come in any order. The tables are chosen at the start and do not change.

**RunStream.** `gen` is the await or yield at which the generator is suspended.
Its queue is the part of `events` after `taken`. The run is the `LoopStep` of
`AgentLoop`; its `RequestCancel` is replaced by the generator's own `CancelRun`.
`ResponseCancelled` and `CancelAgain` are Starlette's and anyio's part: the
response may be cancelled on a disconnect, at any await, but need not be.
`wait_for(queue.get(), 0.5)` is two awaits: in `take` an event was there and `get`
returns at once; in `get` the queue was empty, and timer and next event race. The
client's connection may be refused (`RequestRefused`) or lost at any time
(`ConnectionLost`), which is what its exit status has to tell from an answer: 0
is an answer, 1 what `main` does not catch, 130 an interrupt, and 2 a failed run,
a refused request or a stream that ended without a result.

**Traces.** `ResponseArrives` is LiteLLM scheduling the hook before
`acompletion` returns; `WriteEnds` is the end of that row's INSERT, at any later
moment, also after the run. `LoopDoes` is a step of `AgentLoop`; one that inserts
a `tool_call` row appends it to `table`, whose order is that of the ids.
`ReplayedBefore` is the `ORDER BY` of `GET /traces`. For `acompletion` LiteLLM
runs the asynchronous hooks only; the synchronous ones are not modelled.

**Service.** A user of the pool is a run's tool, a run's INSERT, a callback or a
reader of a trace; it waits, holds a connection for one statement, and gives it
back when the statement ends, the tool times out or the run is cancelled; that
a cancelled tool gives its connection back at once is assumed.
asyncpg's order among those who wait is left open. uvicorn's part (no new
requests after SIGTERM, the lifespan ends after the last handler, SIGKILL at any
moment) is external.

**Ingest** and **Startup.** A stage's table is the set of rows of its file,
because every insert is `ON CONFLICT DO NOTHING` on a natural key. `written` is
what the open transaction has inserted, `stored` what is committed. `spoilt` is a
history variable: the batch tables an exception of the client cut short.
`Startup` adds `up`, `agent` and `demo`, and drives the job's own actions.

Each module also holds some operators whose comment starts with "Mutant": the
code with a plausible mistake. They are not used by the specifications. Each
property is shown to fail when its mutant takes the place of the definition it
is made from.

## 3. What is checked

| Run | Question | Properties | Distinct states |
|---|---|---|---|
| `run` | one run, three parallel calls, loads, leaks, timeouts, failing INSERTs, a cancellation anywhere | `TypeOK` `HandlesAreLive` `BudgetBound` `TranscriptInOrder` `TraceMatchesEvents` `NoToolUnrecorded` `ImplementsStore` `ImplementsOutline` `RunTerminates` | 620 k |
| `compaction` | three rounds of up to three calls, with a compaction due before each round but the first | `Paired` `RequestWellFormed` `FreshResultsReachTheModel` `OrphanBackstopUnreachable` `OneCompactionRemembers` | 2.8 M |
| `stream` | handler, run and client interleaved, with connections refused or lost; peers that may hang | `StreamTypeOK` `NoRunOutlivesItsStream` `ExitStatusIsHonest` `ImplementsContract` `EveryStreamEnds` `DisconnectEndsTheRun` | 139 k |
| `tools` | two runs load, derive, sample and fit, and share one thread | `TypeOK` `NoBulkRows` `RepliesAreGrounded` `HandlesAreStable` `ImplementsStore` | 822 k |
| `traces` | one run beside callbacks whose rows come late, in any order or not at all | `EveryCallIsAccounted` `ReplayInOrder` `EveryStepIsTraced` | 32 k |
| `headlines` | every table of up to five headlines, every source, ticker, range and limit | `SearchReturnsTheBest` `FrequencyAgreesWithSearch` | 211 k |
| `service` | two runs, their telemetry and `GET /traces` share one connection; timeouts, clients that leave, shutdown, kill | `ConnectionsAreAccounted` `NoRunWithoutPool` `EveryRunEnds` `ShutdownCompletes` | 336 k |
| `startup` | three starts of the job with errors and kills at every step, inside of ups and downs | `TypeOK` `AllOrNothing` `ExitZeroMeansLoaded` `ForcedRunHeals` `AgentServesLoadedData` | 6.5 k |

Bounds, and why they are enough.

- `MaxRoundsWithToolCalls` 2 or 3, `MaxCalls` 2 or 3 (`BudgetBound` and the
  pairing are proved for every value). In `compaction` the preserved tail is 3
  messages: the raw cut falls before, into and behind a group of three results,
  and into a tail that holds the end of one group and a whole other one. The
  trigger is 1 and each call reads 1, so every head but the first is past the
  trigger and the floor decides. Runs compact twice, at the heads of the second
  and the third round, so a summary is summarised, and the third round and the
  synthesis send requests afterwards. `OneCompactionRemembers` speaks of the
  states before the second one.
- `run` uses a budget of 2. Budgets of 0 and below are not run: `BudgetBound` is
  proved for every integer.
- Weights 1 to 3 against a floor of 2 to 5, so that the floor is reached in some
  histories and not in others.
- One cancellation per run; in `RunStream` a lost one may be repeated.
- In `stream` one round of up to three calls and the synthesis give two model
  calls and up to five events; more rounds repeat the same awaits of the
  generator. The trigger is out of reach (100 tokens): the stream does not see compaction, and `compaction` checks it. In `traces` no reply shows
  anything, for the same reason.
- `tools`: three calls per run (`MaxToolCalls`) make a frame, a frame derived
  from it and a fit of either, or a fit after an abandoned one. One thread is
  the smallest executor, in which an abandoned fit blocks the others. Queries
  return 0, 1 or 4 rows, so that a frame is refused, too short for a return, and
  long enough; windows 0 and 3 are one that is raised to 2 and one that reaches
  past the gap; sample sizes 0 and 3 lie on both sides of the cap. The settings
  are `HEAD_ROWS` 1 and `SAMPLE_MAX` 2; negative and unparsable ones are covered
  by the theorems (`RepliesAreSmall`), not by the run. The two runs are
  interchangeable, so the run uses their symmetry, which is sound for its
  invariants and for action properties that say the same of every run.
- `headlines`: two days, ties of rank within and across the corpora, one headline
  on the midnight after the last day; limits below, at and above the cap.
- `service`: a pool of one connection is where everybody waits for everybody;
  `Rounds` 1 gives a round and the synthesis, `Parallel` 2 a second tool call
  after a row; `MaxReplays` 1 bounds `GET /traces`.
- `RowCount` 2 gives a batch that is not started, in part and complete;
  `MaxStarts` 3 gives a start after a failure and one after that. The theorems
  hold for every value.

No run switches deadlock checking off: an ended run, stream, job or process is a
named stuttering step.

### Refinement

- `ImplementsContract`: queue, polling, timeouts and cancellation together
  implement `StreamContract`: every event is delivered once and in order while
  the run goes on, then one terminal line of the right kind; a stream without
  one had lost its client. The mapping is `events`, `sent`, `outcome` and
  `client \notin {"gone", "cut"}`.
- `ImplementsStore`, of `AgentLoop` and of `Datasets` for each run: the registry
  is a `DatasetStore`. A handle is issued once, stays good while the run goes on,
  and goes with it. The mapping is the set of handles, the counter, and whether
  the run has ended.
- `ImplementsOutline`: a run with its timeouts, failures and lost cancellations
  is a `RunOutline`, the one `Service` composes. `pc` maps to the phase (`woken`
  and `stopping` are still `tool`, `synth` is `llm`), `modelCalls` to `asked`, the calls still to
  be served to `todo`.

### Fairness

Weak fairness is assumed only of what the code or its runtime schedules: a
coroutine that can go on is resumed, the timers of `wait_for` fire. That the
model call and the INSERT end (one way or the other) is assumed of LiteLLM and
PostgreSQL in `AgentLoop`'s `Fairness`, in `TracesFairness` and in `Service`'s,
because the code puts no timeout on them. Of a tool nothing is assumed until it is
cancelled: it may hang for ever, and `RunTerminates` and `EveryRunEnds` rest on
the 30 s timeout, which covers the wait for a connection as well. Once it is
cancelled it is assumed to end (`WF(ToolStops)`; in `RunStream`
`CancelledToolsEnd`). That is an assumption about asyncpg and asyncio, not about
this code: 3.11's `wait_for` awaits the tool it has cancelled, so a tool whose
cancellation hangs would hold its run for ever. `Service` makes the same
assumption by letting a tool time out in one step.

- `stream` runs under `HangingSpec`: fairness of handler and run, nothing of their
  peers. `DisconnectEndsTheRun` holds although the model, the INSERT and every tool
  that is not cancelled hang; it says so (`CancelledToolsEnd => ...`) and excepts
  a cancellation that `wait_for` swallowed (`cancel = "lost"`). `EveryStreamEnds`
  needs the other peers, too: it is `PeerFairness => ...`.
- `tools` checks safety only and assumes no fairness.
- `service` assumes that a free connection is given to a given waiter if this
  stays possible, not that the pool is first come, first served. With the bound
  on replays nobody is overtaken for ever; a service that is asked for traces
  without end could starve a run only if asyncpg were unfair. Nothing is assumed
  of tools, of clients, or that somebody stops the service.

A tool that blocks the event loop itself (pandas in `async def`) is outside of
this: nothing runs then.

### Where code and documents disagree

Four runs must be violated; see `findings` in `PROJECT.json`.

| Run | What the code does |
|---|---|
| `prompt` | the first compaction drops the system message from all later requests but for the 100 characters its timeline quotes |
| `task` | the second compaction drops even the opening of the user's task, which the first summary had quoted (what a task says beyond 200 characters is gone with the first) |
| `inclusive` | the midnight that ends the last day of a range is in it, and headlines known by day only are dated at midnight |
| `partial` | an ingestion that failed in an `executemany` commits a part of the table, which the next one takes for the whole, and the agent starts on it |

Smaller disagreements have a configuration beside these, to be run by hand; each
shows a behaviour that contradicts the quoted line.

| Configuration | The line | What the code does |
|---|---|---|
| `MCAgentLoop_floor.cfg` (`NoSummaryOfATinyHistory`) | `CompactionConfig`: "Don't pay the summary cost on a tiny history." | the floor is measured before the walk-back |
| `MCAgentLoop_thinking.cfg` (`ThinkingBackstopUnreachable`) | `compaction.py:228`: "so this should never fire" | it fires when replies have no thinking blocks; the conversation is then never compacted |
| `MCAgentLoop_logged.cfg` (`ToolInputLoggedBeforeExecution`) | `DECISIONS.md:62`: "every tool input is logged to `traces` before execution" | the row is written after the tool ran |
| `MCDatasets_rowcap.cfg` (`RowCapHolds`) | `DECISIONS.md:59`: "Loaders apply a generous RAM row cap" | the setting is read nowhere |
| `MCDatasets_orphan.cfg` (`TimedOutMeansCancelled`) | `loop.py:257`: the model is told that the tool "was cancelled" | a fit that has begun goes on in its thread |
| `MCTraces_holes.cfg` (`ReplayHasNoHoles`) | `main.py:201`: "every LLM call and tool call, in order" | while a run goes on a `tool_call` row may be there before the `llm_call` row it follows |
| `Service_shutdown.cfg` (`NoCallUntraced`) | `main.py:12`: "every LLM call writes a ``traces`` row" | a callback that waits for a connection when the pool closes loses its row |

## 4. What is proved

For all values of the constants, under `ConfigAssumption` (the settings are
integers, the weights naturals), `LoopAssumption`, `DatasetsAssumption`,
`HeadlinesAssumption`, `ServiceAssumption` and `IngestAssumption`.

Every safety invariant and every action property the runs check is proved, with
all the refinements they check.

- **`CompactionProofs`.** `CompactionKeepsTheTail` is the contract of
  `compact_messages`, for *any* conversation and setting: it changes nothing and
  says so, or puts one user message in place of a prefix and leaves the rest word
  for word, at least `preserve_recent` messages, and no more than the pairs
  require (every cut the walk-back passed over would have split one). It leaves
  no orphan (`WalkBackLeavesNoOrphan`). For conversations whose results stand
  behind their calls and whose ids are unique, a compaction keeps the pairs
  (`CompactionKeepsPairs`). If all calls are answered in place, it keeps that,
  too (`CompactionKeepsComplete`): the cut never falls into a group, because a
  tail that starts inside of one has an orphan. `LastTurnIsKept` is the reason
  for `FreshResultsReachTheModel`. A summary shows nothing the messages it
  replaces did not (`CompactionQuotes`), and what opened one of them
  (`CompactionRepeatsOpenings`).
- **`AgentLoopProofs`.** All safety properties of the runs `run` and
  `compaction`, and both refinements: `TypeCorrect`, `ResultsFollowCalls`,
  `RequestsAreWellFormed`, `FreshResultsAreSeen`, `OrphanBackstopNeverFires`,
  `ModelCallsAreBounded`, `NamedHandlesAreHeld`, `EventsAreATranscript`,
  `TracesTellTheRun`, `EveryToolIsRecorded`, `FirstCompactionRemembers`, `RunKeepsItsHandles`,
  `RunFollowsItsOutline`; and `FramesDoNotOutliveTheRun`. Beyond the runs:
  `HandlesAreNeverReused`, step by step; `CancellationBites`: a pending
  cancellation lets the run call no model and say nothing more, and ends it, at
  once or when the tool it awaits has stopped, unless that tool is done first; and `RunIsBounded`: a
  rank that starts at `MostSteps` and falls with every step.
- **`RunStreamProofs`.** `StreamTypeCorrect`, `NoRunIsLeftBehind`,
  `ExitStatusTellsTheOutcome`, and `StreamImplementsContract`: every step of
  handler, run and client is a step of `StreamContract` or a stutter. A streamed
  run is *not* a behaviour of `AgentLoop`, because its handler may repeat a
  cancellation that was lost. `StreamedRunsAreRuns`, `StreamKeepsItsHandles`,
  `StreamFollowsTheOutline`, `StreamedRunIsBounded` and
  `StreamedCancellationBites` carry over what is proved of a run, and
  `ClientSeesTheTranscript` joins the two ends: what `agent.py --trace` prints is
  an ordered transcript: in full and with the result when it exits with 0, in
  full and with the error when it exits with 2 on a connection that held, and
  without a result when its request was refused or its connection lost.
- **`TracesProofs`.** `RowsAreAccounted` and `ReplayFollowsTheRun`: in whatever
  order rows are written, or not, the table accounts for each model call, and
  the `ORDER BY` of `GET /traces` gives the order of the run.
  `TraceMissesNothing`: a step that was announced is in the table, on its way, or
  given up with a warning, so that a replay is complete once nothing is under way
  and nothing failed. `TracedRunIsARun`, and `TraceIsBounded`.
- **`DatasetsProofs`.** `DatasetsTypeCorrect`, `RegistriesKeepTheirPromise`,
  `HandlesStandForTheirFrames`, `RepliesAreSmall`, `RepliesFollowTheirCalls`: the safety of the run `tools`, for any number of
  runs, threads and rows. `EveryFitIsPendingOnce`: whatever is given up, queued
  or abandoned, no more fits run than there are threads, and a run that awaits a
  fit awaits one that is pending, once.
- **`HeadlinesProofs`.** `SearchLosesNothing`, by a lemma about sets with a rank
  (`TopOfTops`: a top of the union of a top of each part is a top of the union);
  `FrequenciesAgree`: the clauses of each count select what the search's do
  (`SameRows`), and the buckets of each table add up to that, by an induction
  over the fold (below); and
  `HeadlinesTypeCorrect`.
- **`ServiceProofs`.** For a pool of any size and any number of runs:
  `ConnectionsStayAccounted`, `RunsHaveThePool`; `PoolNeverDeadlocks`: nobody
  waits for a second connection, and whoever waits can be served or waits for
  somebody who needs nothing more; `RunsKeepTheirOutline` and `RunsWearOut`, per
  run; `ShutdownLeavesCallbacksOnly`: when the pool is closed every request has
  been handled, and what is lost are rows of callbacks.
- **`IngestProofs`.** `IngestTypeCorrect`, `TablesAreAllOrNothing`,
  `SuccessMeansLoaded`, `ForceHeals`; `TablesAreFilledOnce`: a step fills one
  table at most, for good, and re-runs change nothing once all are complete;
  `EveryStartIsBounded`; of the composition `AgentFindsItsData`,
  `ExitStatusStaysHonest`, and `ComposeRunsTheJob`: what compose does around the
  job is a behaviour of `Ingest`.

The inductive invariants, and why they are needed:

- `TypeInv` adds to `TypeOK` where the loop variable and the call index stand at
  each await (`Control`): without it a step could leave their ranges.
- `PairInv` adds to `Paired` that every id in the conversation is of a past turn
  or a call of this one (`UsesPast`), so a new reply's ids are new, that ids are
  unique, and that the message whose calls are being served is still there
  (`CurrentCallsHeld`), so the next result has its call.
- `BlockInv` says where the results of the turn being served stand (`Serving`),
  and that at the head of a round the last turn is complete and last
  (`LastTurn`). `RequestWellFormed` speaks of the moments a request is sent; the
  invariant carries it through the half-served turns in between.
- `BudgetInv` counts: model calls equal rounds entered.
- `StoryInv` says that rows and failed rows together are the announced calls,
  and that all of these lie behind the call being served, so that the next row
  is a new one.
- `RecordedInv` adds to `NoToolUnrecorded` that no event is of a later turn
  (`EventTurns`), so that only the call being served may be without a row.
- `LiveInv` adds to `HandlesAreLive` that a message quotes only what it shows
  (`QuotesItself`), that each handle is named by one result at most
  (`NamedOnce`), and that a result on its way to the conversation names a frame
  nothing has named (`Unnamed`): a quote can only repeat a good handle.
- `RememberInv` keeps what a first compaction needs: before it how the
  task opens and each handle stand at the *opening* of a message, which is what
  a timeline quotes; afterwards some message shows them. It says nothing of a second compaction,
  where the run `task` shows the loss.
- `TranscriptInv` describes the events as groups of an `llm_call` and the calls
  it asked for (`Group`, `Round`, `Follows`); the last group has as many as were
  served.
- `StreamInv` keeps the run's `BudgetInv` and adds what the generator knows at
  each await: the lines sent are the events taken, and a terminal line is only
  behind all of them (`Lines`); a stream cut short has lost its client, and only
  then is a run cancelled (`CutShort`); the client has read no error line while
  it is still reading (`Reader`). The properties speak of ended streams, and
  none is inductive without `Lines`: the kind of the last line is fixed when it
  is sent, and the exit status when it is read, many steps later.
- `TableInv` builds on `TranscriptInv`, `StoryInv` and `BudgetInv` of the loop,
  which each step of `Traces` keeps because it is a step of the loop or leaves
  it alone (`LoopBeneath`). It adds why each row is in the table (`Due`), that
  the rows of one round's tool calls are in the order of the calls
  (`RowsInOrder`), and that the events are `Sorted` by what the `ORDER BY`
  looks at.
- `Types`, `FitsInv` and `GroundInv` of `Datasets`: a fit that is awaited is that
  of the run's last call, about the column it asked for (`Owned`), which is why
  an abandoned one cannot answer a later call; a reply is about a frame the run
  still holds.
- `RunsInv`, `PoolInv` and `StageInv` of `Service`: runs keep the shape of an
  outline; each user of the pool is where its run is (`Placed`); requests exist
  only between startup and the last handler's end.
- `LoadInv` says what the open transaction holds at each step (`Pending`) and
  that the stages behind are loaded (`Behind`); the guard's trust in a non-empty
  table is `AllOrNothing` itself, so the two are proved together. `ServedInv`
  adds the agent: nothing the job does later takes a row away (`TablesGrow`).

- `CancelInv` says that a pending cancellation finds the coroutine at an await,
  and that `outcome = "cancelled"` and a pending request at the end are the same
  thing. Without the first part the head of a round could call the model.
- `RunInv` gathers the loop's invariants for `RunStream`. A step there is one of
  the loop's or a cancellation (`StreamStepsItsRun`), and a cancellation changes
  nothing these invariants look at (`CancelKeepsRun`).
- `LoggedFirst` of `Traces`: the model's callback has been scheduled by the time
  the loop announces the call, which is why no announced step is forgotten.
- `ExecutorInv` of `Datasets` builds on `FitsInv`: calls are numbered per run, so
  that a new fit is not the one of an earlier call.
- `OpenInv` of `Service`: a connection is used while the pool is open, and when
  it begins to close only callbacks are left. `BoundedRuns`: no run has more to
  do than its outline's most.

The ranks. `StepsLeft` of `AgentLoop` counts the steps a run may still take: those
of the rounds left, three for each call still to be served, and one for a
cancellation. `StreamedStepsLeft` doubles it, for each step that loses a
cancellation pays for its repetition. `TracesLeft` adds the callbacks and INSERTs
to come, `MovesLeft` does the same for an outline, and `StartStepsLeft` for the
stages of a start. That a rank falls with *every* step (in `Service`, every
step of that run; in `Ingest`, every step but a new start) is what is left of
`RunTerminates`, `EveryStepIsTraced` and `EveryRunEnds` without fairness: nothing
goes round in circles.

The induction. `FrequencyAgreesWithSearch` adds up a fold over the buckets. The
library's induction theorems take an operator as a parameter and cannot be used;
`HeadlinesProofs` takes a minimal counterexample instead. `MapThenSumSet` chooses a
function with the recursion `Sums`. Two such functions agree (`SumsAgree`), since
the strict subsets of a finite set are well founded, and one smallest set on which
they differ gives the contradiction; the same argument adds an element to a sum.

Only model-checked: the six liveness properties `RunTerminates`,
`EveryStreamEnds`, `DisconnectEndsTheRun`, `EveryStepIsTraced`, `EveryRunEnds` and `ShutdownCompletes`. They rest on fairness,
and so on ENABLED, which the prover cannot handle; the ranks, `CancellationBites`,
`PoolNeverDeadlocks` and `EveryFitIsPendingOnce` are their safety parts.

## 5. What is not modelled

- `lookup_security` and `lookup_fundamentals` (one read each), the JSON schemas
  of `TOOL_DEFINITIONS`, `scalar` and `frame_records`, and what pandas and
  statsmodels compute.
- The plain client and `--trace-only` (one blocking request and printing),
  `/healthz`, the 400s and 404s.
- Telemetry's synchronous hooks, which `acompletion` does not run, and the
  extraction of the fields of a row.
- Text, prices of calls, latencies, JSON and HTTP formats, logging; prompts
  (`prompts.py`, constant text), build files, Dockerfiles, the lock file.
- Parsing of CSV rows: a file is the set of rows that pass its filter.
- A crash of the service beyond what `Service` says of it: a run keeps nothing
  that outlives it but its traces.
- LiteLLM, uvicorn, Starlette, asyncpg, psycopg, the executor's internals and
  docker compose are external: modelled by what the code relies on.

## 6. Plan

Done: all modules of section 2, and the proofs of section 4. What would add most
from here:

1. Conversations of several runs in `Service`, to see a compaction of one run
   beside the load of another; today the outline stands for both.
2. A `Headlines` whose tables change between the two queries of a search: the
   forced ingestion of `Startup` runs beneath an agent that answers.
3. `CancellationBites` for `Service`, whose runs may be left by their clients, and
   a rank for the calls of `Datasets`, where a queue of abandoned fits has to be
   counted.

## 7. How to run

    tlc -config MCAgentLoop_run.cfg MCAgentLoop
    tlc -config MCDatasets_tools.cfg MCDatasets
    tlc -config Service.cfg Service
    tlc -config Startup.cfg Startup
    tlapm AgentLoopProofs.tla
    tlapm TracesProofs.tla

`PROJECT.json` names module and configuration of each run, and maps each
definition to the lines of code it stands for.
