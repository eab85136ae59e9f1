# A TLA+ verification project for the RAG system

TLA+ models of the RAG system: the answer path of the proxy (chat API, answer
graph, retrieval, scoring, tools, caches, memory, circuit breakers), what stands
in front of it (middleware, sessions, keys), the writers of the ETL side
(extractors, chunker, batch and streaming ingestion, version store, event
stream), model evolution (training, gate, registry, canary, adapters) and the
administrative stores. TLC checks them on small instances; TLAPS proves the
safety properties of the core, of the chat service, of model evolution with
training and the gate, and of thirteen more components for every value of the
constants. Paths below are relative
to the repository.

`tlc -config MC_X.cfg <module>` runs a configuration (the module of each is in
the table of runs), `tlapm XProofs.tla` checks the proofs.

## 1. Inventory

The system has three programs that share stores. The **proxy** (`proxy/app`)
answers OpenAI-style chat requests: it retrieves from Qdrant, reranks, builds a
context, calls an LLM and checks the answer. The **ETL** (`etl`) fills Qdrant,
Neo4j and a version store on disk from Confluence, Jira and GitLab, as a batch
job or event by event. The **model evolution service** fine-tunes and deploys
models. `PROJECT.json` lists every part with its files; this section says what
the parts keep, do and must guarantee.

| Component | State | Operations | Interacts with | What is hard | What makes it correct |
|---|---|---|---|---|---|
| Agentic RAG graph (`core/orchestrator`) | the `RAGState` of one invocation: loop counters, flags, chunks, answer | eleven nodes, four loops | `chat.py`, LLM, SLM, Qdrant | loops that share `rewrite_count`; state keys the schema does not declare; exceptions in some nodes | every invocation ends, at a bounded number of LLM calls |
| Circuit breaker (`shared/circuit_breaker.py`), retries | state, failure count, half-open slots, time of opening | call, success, failure, state property | LLM adapters, retrieval, retries | outcomes that arrive after the state has changed; three calling protocols; cancelled tasks | state follows the count; few probes; it recovers |
| Version store and lake (`hash_versioning.py`, `live_vector_lake.py`, `qdrant_hybrid.py`) | WAL, hot files, cold history, points in Qdrant | sync, force, rollback, cleanup | `run_etl`, Qdrant | writes to three stores in sequence; swallowed store errors; crashes | the stores agree; rollback restores |
| Event pipeline (`event_pipeline.py`, `event_processor.py`, `stream_*`, `webhook_server.py`) | Redis stream, consumer group, worker life cycle, points in Qdrant | publish, read, process, acknowledge, start, stop | webhooks, Redis, Qdrant | two workers, kills, trimming, failed events, shutdown | no event lost or handled twice; an acknowledgement means something |
| Batch job and extractors (`run_etl.py`, `extractors/*`, `wal_manager.py`) | shared WAL file and lock, raw data, chunk file, per-thread copies of the WAL | extract, save, record last_run, collect, chunk, index, clean up, serve | sources, file system, the lake | three threads that rewrite one file; stale-lock removal; signals; crashes; time of the checkpoint | a checkpoint hides no change; runs converge; what a record hides is indexed or still on disk |
| Chat pipeline (`api/chat.py`, `main.py`) with caches and memory | requests, response cache, semantic buckets, conversations, tracker | direct, graph and streaming answers, cache, summarise, prune, shut down | everything in the proxy | conversations shared by concurrent requests, caches shared by users, cancellation, degradation in steps | an answer belongs to a request like the one it is given to; every request ends |
| Small language model (`llm/slm.py`) | one llama-server process and the handle to it | start, ask, restart, fall back, stop at exit | graph, retrieval | threads that find it missing or dead together; a reset outside the lock | one process, and none after exit |
| Retrieval (`retrieval.py`, `progressive_retrieval.py`, `rerank.py`, `context`) | service flags, cached scores, one question's candidates | route, search in stages, filter, rerank, evaluate, assemble | Qdrant, models, chat | outages at each call, scores cached over outages, cuts after the decision | no prompt without the notice unless two strong readable sources are in its context, or the question was routed as direct |
| Scoring (`confidence.py`) | alerts | score, calibrate, alert | chat, graph | falsy zeros, rounding, penalties below 0, contradictions | better support without more contradictions never scores lower; the threshold is optimal but for rounding |
| Tools (`tools/*`) | registry, provider lists, a running batch | discover, reload, execute with dependencies and retries | graph, chat | registry changes under a batch, timeouts, retries | each call gets one result, after those it needs |
| Gateway (`rate_limiter.py`, `middleware.py`, `rbac.py`, `files.py`, `minio_client.py`) | buckets, requests, objects | limit, authenticate, authorise, upload, download, delete | every endpoint | refill and cleanup over time, order of the layers | rate and Retry-After are kept |
| Sessions and keys (`auth/*`) | accounts, token pairs, login counters, keys, rotation record | register, log in, refresh, log out, issue, rotate, clean up | every endpoint | three statements per refresh, rotation that stops half way, restart | a refresh token buys once but for overlapping requests; a listed key works |
| Knowledge bases and tasks (`kb_manager.py`, `reindex_scheduler.py`, `task_scheduler.py`) | SQLite rows, Qdrant collections, tasks | create, delete, reindex, work | admin API, ETL | two stores without a transaction; a loop over an old list | books agree with the work done |
| Feedback and review (`hitl.py`, `feedback_store.py`, `enricher.py`) | rotated log, feedback rows, flags | log, rotate, review, enrich | chat, experts, training | two threads rotating one file | records stay in the order of the opens |
| Chunker (`semantic_chunker.py`) | one document's chunks | cut, overlap, merge, pack | ingestion | boundaries by rounded estimates; elements dropped or found twice | the text once, in order, but for named exceptions; over the limit by named amounts |
| Streaming-first ETL (`streaming_pipeline.py` and its stages) | one document's chunks, index, graph, cache | enrich, filter, build graph, embed, index | models, Qdrant, Neo4j | concurrent calls that each fail; outages; crashes | nothing is lost without a word |
| Embedding clients (`remote_embedder.py`, `remote_services.py`) | clients, health | encode, rerank, fall back | both sides | concurrent batches, unordered answers, retries | results in the order of the inputs |
| Source and file extractors (`extractors/*`) | a run's list and data, files and their documents | page, fetch, retry, save; parse | sources | lists that move under the offset; boundaries of sections | complete or reported |
| Model evolution (`model_registry`, `canary_controller`, `adapter_manager`) | registry file, traffic split, adapter | register, promote, roll back, split, load, reload | admin API, inference | processes over one file; late results; reload under a lock | one production model; phase and traffic agree; adapters settle |
| Training and gate (`export_training_datasets.py`, trainers, `eval_gate.py`) | data set files, jobs, baseline, results | export, split, train, measure, evaluate | registry, feedback | files rewritten between two reads; signs and tolerances | held-out data stay held out; a better model is not judged worse |
| Migrations (`db/migrations.py`), dead letters (`dlq.py`) | applied versions, schema, audit log; messages | upgrade, downgrade; add, retry, ack, nack, requeue | start-up, CLI; nobody yet | replicas and crashes between script and record; two statements per nack | records are explained; no message vanishes |
| WAL manager (`wal_manager.py`) | sections of checkpoints in a file, in Redis or behind the proxy | update, reset, vacuum | extractors, `run_etl` | a map read before the lock is taken; backends without a lock; writes of every section | what calls recorded stays recorded |
| Connection pool (`connection_pool.py`) | connections, idle ones, those in use, the lock | acquire, return, check, drain, close | nobody yet | methods with and without the lock; awaits with it held; cancellation | one user per connection, limits kept, nothing forgotten |
| Configuration, metrics, scripts | none that other parts decide on | | | | see section 7 |

Interactions modelled: threads of one process over a file (`EtlBatch`,
`WalManager`, `Feedback`), processes over a file (`ModelRegistry`), over a database
(`Migrations`, `DeadLetters`, `Knowledge`) and over a Redis stream and Qdrant
(`EventStream`), a job and its crashes over three stores (`VersionLake`), tasks
of one event loop (`CircuitBreaker`, `ConnectionPool`, `ChatService`, `Sessions`, `Gateway`,
`Tools`, `Embedding`, `Ingest`), threads with a lock (`AdapterManager`,
`LocalSlm`), phases of a job that pass files to each other (`EtlJob`), and a
graph runtime that runs one node at a time (`RagGraph`).

## 2. Plan

Done: the five modules of the core (`RagGraph`, `CircuitBreaker`, `VersionLake`,
`EventStream`, `EtlBatch`), all their safety properties proved; `ChatService`
with its abstract specification `AnswerService`, the refinement proved; the five
modules of model evolution with `LocalSlm`, `ConnectionPool` and `Tools` beside
them, proved; and sixteen more components that share no state with each other, ten
of them proved (section 5).

Left, for proving, in this order: `InPlace`; `GroundedAnswer`; `ScoresSound`, which
is arithmetic.
`TextCovered` and `ChunksAccounted` say what recursive operators compute and stay
with TLC. A component moves from `MC_Components`
to `Components`, with constants instead of values, when it is proved.

Left, for modelling: the composition of `VersionLake` and `EventStream`, which
write the same points by different rules (the stream bypasses the version
store), and the embedding cache.

## 3. Modules and the code

`PROJECT.json` maps each definition to its lines. A definition after a
comment "Variant:" is not the code: it is the same operation with a
plausible bug, and each property is checked to fail on one of them, so that the
property is known to depend on that code.

### RagGraph

One behaviour is one `RAGOrchestrator.invoke`. A step is a node that runs to
completion together with the edge that follows it; the variables are the state
keys that routing reads. `chunks` and `answer` are abstracted to what guards
distinguish (no chunks, average score below or from 0.6; no answer, blanks,
text). The SLM's and LLM's verdicts are free choices. An exception that a node
catches gives an update the node could also return; those that leave a node are
`generate_fails` and `node_raises`, and end the invocation (503 in `chat.py`).

The runtime is the LangGraph library, which is not in the repository. The model
takes the merge and the meaning of a non-dict result (`check_sufficiency` is
registered as a node and returns a string: no update) from
`tests/mocks/mock_langgraph.py:106-146`. `RAGState` declares fewer keys than the
nodes return, and whether such keys survive depends on the runtime (the mock
keeps them, a `StateGraph` drops them), so the model has both, chosen once by
`carryUndeclared`. The library's recursion limit is not modelled; it is what
turns an endless path into an error.

### CircuitBreaker

The methods of `CircuitBreaker` contain no await and are one step each. A
caller's request is in flight between admission and outcome. `call` is
`CircuitBreaker.call`; `_send_request` and `async_retry` only look at `.state`
and record outcomes themselves, the first once, the second per attempt.
Cooldown is a flag that time sets at some point. `unrecorded` is an outcome no
protocol records: cancellation, or an error type `_send_request` does not catch.
`failure_count` saturates at `CountCap`, beyond which the code does not
distinguish values. `round` is history: the callers admitted in this half-open
period.

### VersionLake

`sync_document` is a sequence of steps: compare with the hot file, save the hot
file, save the version WAL, upsert, delete, append to the cold history. `Crash`
can come before each and can leave the file being written torn. Chunks are their
hashes; since a hash covers the document's id, documents share nothing and one
suffices. `rollback_document` removes the hot file, then the WAL entry, and
syncs the snapshot with `force=True`. `run_cleanup` strips the texts. The cold
history kept by the version store itself is write-only and left out; the lake's
is `cold`. Assumed: pandas is installed, `keep_cold_storage` is on, parquet
files are not torn, and fewer than 100 history rows (the `tail(100)` of
`get_document_history` is not reached).

### EventStream

Events of one Confluence page; an event is its position in the stream. Variables
are the Redis state (`stream`, `trimmed`, `cursor`, `pend`, `acked`), each
worker's pipeline (`status`, `task`, `shutdown`, `signalled`, `batch`) and
Qdrant (`index`). Processing of one event is one step, because two workers never
hold the same event and the upserts of different versions do not overlap; a kill
in the middle leaves any part of its writes (`Midway`). All workers use the same
consumer name. The consumer coroutine never yields, so a signal's handler cannot
run while it loops: `stop` is disabled then. XADD's approximate trimming is
modelled as exact. The plain `StreamConsumer` that `run_etl` can start is a stub
that processes nothing and is not modelled.

### EtlBatch

Runs of `run_etl` follow each other. A run has a thread per configured source;
each reads its `last_run`, loads the whole WAL file into a copy of its own,
lists, skips or saves documents, rewrites the file from its copy, and finally
records the time in `last_run` through `WALManager` under the file lock. Time is
counted in changes at the sources, so a document's version is the time of its
last change and also stands for its hash. The file has three states, because
`open(..., "w")` truncates first: `Truncate` and `Dump` are separate steps, and
an unreadable file is read as an empty one, as the code does. `acquire` merges
lock, read and truncation: what other threads do in between is indistinguishable
from doing it before or after. The lock (`filelock`) is external: releasing
leaves the file, locking refreshes its age.

Differences between the extractors are kept: Confluence filters by date and
compares hashes; Jira filters only if the configured JQL does not contain the
word "updated" (`JqlFilters`), falls back to a top-level `last_run` that every
extractor writes, and skips every key seen once; GitLab returns every project
and writes the WAL before the data. `passed` and `missed` are history: documents
the run has passed over (a failure, an interruption, a change during the run, a
skipped issue) and those whose `last_run` has been recorded since. Not in the
module: deletions at the sources, which batch extraction never reports; the
Redis and proxy WAL backends and the other helpers of the WAL manager, which
`WalManager` has. The phases after extraction, and the flags that skip one, are in
`EtlJob`.

### AnswerService and ChatService

`AnswerService` is what the chat API promises: a request is asked, closed once,
and the answer it is closed with was generated for it or for a matching request.
`ChatService` implements it (`ImplementsAnswers`). A step of `ChatService` ends
where the code awaits: cache lookup, retrieval, generation, cache write, bucket
update, memory, response. Modes are plain, streamed, skipped retrieval and
pass-through; `Configurations` are the settings a process starts with. `heap`
holds the conversation objects, because a request keeps the object it got while
the store may have pruned or replaced it. A text is the request it was generated
for. The mapping: `topic` is the user, question and context of a request that has
started, `known` the generated answers, `given` the text of the reply. A request
matches another by equality of topics, or, with the semantic cache, by similarity
of questions, which is all that cache compares.

### ModelRegistry, CanaryController, AdapterManager, Training, EvalGate

The registry file is read, changed in memory and written through one temporary
name by each call, whose registry object is gone when it returns; `Torn` is a
half-written file, and metrics are left out. The canary controller is
single-threaded, with results that arrive after the split has changed. In the
adapter manager a section under the lock is one step, and the lock is a variable
because `reload_all` holds it while it loads and drains. `Training` has the export
and the jobs that read its files one by one; `EvalGate` the thresholds and the
comparison with the baseline. `MC_Evolution` has an instance of each of the five,
of `LocalSlm` and `ConnectionPool` (table below), through which a model is served,
and of `Tools`, which it calls.

### Components and MC_Components

`Components` holds the components that are proved about (`Sessions`, `ApiKeys`, `Gateway`,
`Knowledge`, `Feedback`, `Migrations`, `DeadLetters`, `EtlJob`, `WalManager`,
`Extractors`), with constants of its own for everything that can vary;
`MC_Components` extends it, adds the components that are only model-checked, as
instances with small values, and `MC_Components.cfg` gives the constants theirs.
In both, a variable `focus` chooses one component per behaviour and the variables
of the others stay `Off`.

Each module starts with a comment that names its files, its unit of atomicity
and its abstractions. In short:

| Module | One behaviour is | A step is | Abstracted |
|---|---|---|---|
| `Sessions` | requests to the auth endpoints | up to one database write | passwords and signatures are choices; time expires tokens and ages counters |
| `ApiKeys` | calls of key and rotation managers, restarts | an operation (they do not yield) | keys are numbers in creation order |
| `Gateway` | requests through the middleware stack to the file endpoints | a layer, or a call of the object store | credentials are names; tokens of a bucket are integers |
| `Knowledge` | admin calls, ETL workers, the reindex loop | a transaction | documents are counts |
| `Feedback` | threads logging, rotating | a file operation: exists, unlink, rename, move, open, write | records are numbered when the file is opened; `shutil.move` copying across file systems is left out |
| `Chunker` | one document | a stage | an element is its number of characters, and whether the search without markdownify misses it or finds it twice; no Cyrillic, no blank lines in it |
| `Ingest` | a run over documents | a stage, or an embedding call | model verdicts are choices |
| `Retrieval` | questions one after the other | a stage of the pipeline | rankings and scores are inputs, in hundredths |
| `Scoring` | calls of the scorers | a call | a text is lengths and counts of claims; the NLI model is there or not |
| `Tools` | registry changes and a batch of calls | a change, a start, an outcome | handlers return or fail |
| `Migrations` | upgrades and downgrades of managers | a script, a record | a script leaves nothing, part or all of its schema |
| `DeadLetters` | threads retrying one queue | a statement | payloads |
| `Extractors` | one run of one source's extractor | a request | items are names, an item's data the set of its parts |
| `FileExtractors` | a directory of files | a file, an image | a file is lines, some of them headings |
| `Training` | export and training jobs | a file written or read | a row is its record (interaction, chunk) with a text, a number, and a stratum |
| `EvalGate` | evaluations and promotions | a call | metrics are percentages |
| `EtlJob` | runs of the batch job with their flags, signals and crashes | a phase, or a document of it | a document is the version each store holds; a loop takes its documents in any order, as `glob` lists them in none |
| `LocalSlm` | threads asking the small model, deaths of its process | a section under the lock, or a check outside it | a reply is its kind |
| `ConnectionPool` | tasks acquiring, returning, checking, draining and closing; broken connections, cancellations | up to the next await | a connection is open, broken or shut |
| `WalManager` | threads calling the WAL manager over one of its backends, failures | a read or a write of the backend | a value is the call that wrote it; days are a flag |
| `Embedding` | calls of the clients | a request, an answer | a vector is the text it belongs to |

Where the code computes with floats that it rounds (`Scoring`, `EvalGate`,
`Retrieval`, `Gateway`), the modules use integers at the code's precision. A sum
that a float misses by its last bit is exact there; the inputs of the runs were
chosen so that `Scoring` gives what the Python functions give for them.

## 4. Runs

| Run | Configuration (module) | Distinct states | What it shows |
|---|---|---|---|
| `rag_graph` | `MC_RagGraph.cfg` (RagGraph) | 2 120 | at most `2 + REFLECTION_DEPTH + 1` generations; ends unless retrieval stays empty |
| `rag_graph_empty` | `MC_RagGraph_empty.cfg` (RagGraph) | violation | with empty retrieval the rewrite loop has no bound |
| `breaker` | `MC_CircuitBreaker.cfg` (MC_CircuitBreaker) | 5 080 | state follows count; recovery |
| `lake` | `MC_VersionLake.cfg` (MC_VersionLake) | 223 864 | undisturbed syncs are exact and catch up with a document that has chunks; history replays even when Qdrant refuses writes |
| `lake_lost_update` | `MC_VersionLake_lost.cfg` | violation | an update lost between version store and Qdrant is never repaired |
| `stream` | `MC_EventStream.cfg` (MC_EventStream) | 273 525 | no event lost unnoticed or handled twice; acknowledgements mean indexing; order kept when undisturbed |
| `stream_retry` | `MC_EventStream_retry.cfg` | violation | a failed event is never retried |
| `etl_batch` | `MC_EtlBatch.cfg` (EtlBatch) | 881 648 | checkpoints hide nothing but `missed`; records are on disk; the lock excludes unless stolen; runs converge |
| `etl_collect` | `MC_EtlBatch_collect.cfg` (EtlBatch) | violation | documents are collected by order of completion |
| `chat` | `MC_ChatService.cfg` (MC_ChatService) | 411 357 | the service implements `AnswerService`; questions and answers stay together; requests end |
| `evolution` | `MC_Evolution.cfg` (MC_Evolution) | 617 987 | one production version under overlapping writers and crashes; phase and traffic agree; adapters settle, calls return; held-out records stay held out; the gate is monotone; servers and connections have one owner; every tool call gets one result |
| `components` | `MC_Components.cfg` (MC_Components) | 1 425 024 | the property of each of sixteen components (below) |

`MC_Evolution` and `MC_Components` hold components that share no state; because
`focus` chooses one per behaviour, the run explores their sum and not their
product. The properties of `components`: `RefreshSpends`,
`KeysUsable`, `RateContract`, `KbBooks`, `BackupOrder`, `TextCovered` (the
chunker and the file extractors), `ChunksAccounted`, `GroundedAnswer`,
`RecordedInOrder`, `DeadLettersKept`, `ExtractionAccounted`,
`InPlace`, `ScoresSound` and `RecordsKept` (`RecordedIsKept` of the batch job and
`CheckpointsKept` of the WAL manager), each explained where it is defined. In
`evolution`, `OneOwner` is `OneServer` of the local model and `PoolSound` of the
connection pool.

The violation runs state what a comment or document of the repository says;
`findings` in `PROJECT.json` quotes the line.

**Bounds.** `RagGraph` uses the code's defaults (3, 2, 2, 2, 5) and every
switch on, so no bound is artificial; an invocation is explored in full.
`CircuitBreaker`: threshold 2 so that one failure is not enough, one half-open
slot, two guarded callers that compete for it and one of each other protocol,
one retry; the count is capped one above the threshold. `VersionLake`: two
chunks give every overlap of two versions (including empty ones, which the job passes over); two edits, one
fault, two operator actions (cleanup, rollback, recreation) allow each pair that
can interact. `EventStream`: three events, batches of two, a stream trimmed to
two, two workers of which one may die, two faults: a batch can be full, partial,
overtaken, trimmed before delivery and orphaned. `EtlBatch`: each choice of one or two
of the three sources with a document each, one change after the initial one, one
failure, signal or crash; runs repeat without bound, so that what a run leaves
behind meets the next. More documents per source than one, more changes and more
faults are covered by the proofs.
`ChatService`: two requests of two clients, one anonymous, two questions that are
similar and not equal, every mode, stores of one or two entries so that they
overflow, one fault. `MC_Evolution`: two processes, two training jobs, five admin
calls and a crash bring two versions into production one after the other and roll
back, with any two calls overlapping; the canary has
the percentages on each side of a phase; two threads, two releases and three
calls for the adapter manager; two exports and a job, so that one can rewrite what
the other reads; metrics on both sides of each threshold and of the tolerance; two
processes of the small model; a pool of two connections and a third to replace one;
three tools with a dependency cycle among them, two of which two providers define,
batches of three calls with a duplicate and one without its parameters.
`MC_Components`: two actors wherever a component
has concurrent ones, limits small enough to be reached (one login attempt, two
keys per user and three in all, so that the limit is met and a key makes room again, a burst of one,
two backups, three migrations, two retries), and
inputs chosen for their edges: equal texts in two documents, paragraphs that fill
a chunk exactly, two chunks whose rounded estimates fit and whose text does not, scores on both sides of each threshold and within the rounding of it, lists longer than a page, two runs of the
job, each under any of four command lines, three overlapping calls of the WAL manager
over the file and two over the backends without a lock.

**Deadlock** is checked in `RagGraph`, `CircuitBreaker` and `EtlBatch`. In
`VersionLake` a torn version WAL stops every later job, in `EventStream`
nothing happens once the events are used up and every worker waits, and in the
other runs every request, call or job allowed by the bounds has ended.

**Fairness.** `RagGraph`: the runtime keeps running nodes. `CircuitBreaker`:
time passes (`Cool`), requests keep coming, and a request in flight ends because
the clients have timeouts; nothing is assumed of cancellation, of readers of
`.state` or of the service. `VersionLake`: the job is scheduled again and a
running one goes on; edits, faults and operators are free. `EventStream`: a
stopped process is started again, its loop runs what is ready, its consumer goes
on. `EtlBatch`: weak fairness of `Work` as a whole (starting a run, a step of any
thread, ending it); it does not favour a thread. A thread cannot be starved for
ever, since each run's steps are finite. `ChatService`: the event loop runs
every coroutine that can go on, and awaited calls end, because the clients have
timeouts. `AdapterManager`: strong fairness of a thread's steps, since a free
lock is got by whoever keeps asking; requests need not end. The components of
`MC_Components` have safety properties only.

## 5. Proofs

| Theorem | Statement | For every |
|---|---|---|
| `RagGraphProofs!TypeCorrect` | `Spec => []TypeOK` | bound and switch |
| `RagGraphProofs!BoundedGenerations` | `Spec => []GenerationBudget` | bound and switch |
| `RagGraphProofs!LoopsInert` | `Spec => []UndeclaredLoopsInert` | bound and switch |
| `CircuitBreakerProofs!StateFollowsCount` | `Spec => []CountMatchesState` | finite set of callers, limits |
| `CircuitBreakerProofs!HalfOpenLimit` | `Spec => []ProbesLimited` | finite set of callers, limits |
| `VersionLakeProofs!TypeCorrect` | `Spec => []TypeOK` | set of chunks and versions, bounds |
| `VersionLakeProofs!IndexIsExact` | `Spec => []IndexMatchesStore` | the same |
| `VersionLakeProofs!HistoryIsExact` | `Spec => []HistoryReplays` | the same |
| `EventStreamProofs!TypeCorrect` | `Spec => []TypeOK` | set of workers and parts, limits |
| `EventStreamProofs!NoEmptyAck` | `Spec => []AckedUpdateWasIndexed` | the same |
| `EventStreamProofs!NoEventVanishes` | `Spec => []EventsAccountedFor` | the same |
| `EventStreamProofs!IndexIsCurrent` | `Spec => []IndexFollowsStream` | the same |
| `EtlBatchProofs!CheckpointsCover` | `Spec => []CheckpointCovers` | number of documents, sources, changes, faults, with or without the JQL filter |
| `EtlBatchProofs!RecordsAreOnDisk` | `Spec => []RecordedIsOnDisk` | the same |
| `EtlBatchProofs!LockIsExclusive` | `Spec => []LockExcludes` | the same |
| `ChatServiceProofs!AnswersPaired` | `Spec => []AnswersFollowQuestions` | set of requests, questions, configurations, sizes of the stores |
| `ChatServiceProofs!Refinement` | `Spec => ImplementsAnswers` | the same |
| `EvolutionProofs!RegistryIsSound` | `Spec => []OneProduction` | number of processes, versions, calls, crashes |
| `EvolutionProofs!CanaryIsSound` | `Spec => []PhaseMatchesSplit` | set of percentages |
| `EvolutionProofs!AdapterIsSound` | `Spec => []AdapterSettles` | set of threads, releases, calls |
| `EvolutionProofs!SplitHeldOut` | `Spec => []HeldOut` | log, feedback, fixtures, share kept, number of exports and jobs |
| `EvolutionProofs!GateIsMonotone` | `Spec => []GateMonotone` | thresholds of `GateAssumption`, reports, answers, tolerance |
| `EvolutionProofs!SharedIsOwned` | `Spec => []OneOwner` | set of threads, of tasks, of connections, limits of the pool |
| `EvolutionProofs!CallsAreAnswered` | `Spec => []OneResultPerCall` | finite set of tools, their sources, batches, limits |
| `ComponentsProofs!RefreshTokensAreSpent` | `Spec => []RefreshSpends` | set of users and requests, limits |
| `ComponentsProofs!KeysStayUsable` | `Spec => []KeysUsable` | set of users, limit per user, number of keys and rotations |
| `ComponentsProofs!LimitsAreKept` | `Spec => []RateContract` | rate, burst, cost and `max_age` of `RateAssumption`, keys, requests |
| `ComponentsProofs!BooksBalance` | `Spec => []KbBooks` | set of names and workers, number of tasks |
| `ComponentsProofs!LogsStayInOrder` | `Spec => []BackupOrder` | set of threads, number of backups |
| `ComponentsProofs!RecordsHaveNoGap` | `Spec => []RecordedInOrder` | number of migrations, managers, crashes |
| `ComponentsProofs!LettersAreKept` | `Spec => []DeadLettersKept` | set of threads, messages, retries |
| `ComponentsProofs!RecordsAreKept` | `Spec => []RecordsKept` | set of documents, sources, command lines; of threads, pipelines, backends |
| `ComponentsProofs!ExtractionIsAccounted` | `Spec => []ExtractionAccounted` | list of items, page size, number of attempts, failures, changes |

Every safety property of the runs other than `components` is proved, and nine of
the fourteen of `components`.

The assumptions are the named `ASSUME`s of the modules: bounds are naturals
(`Threshold`, `BatchSize`, `MaxLen`, `MaxClock` and `MAX_RETRIES` positive),
callers, workers, actors and parts are finite sets, a page has at least one part,
versions are sets of chunks, percentages are between 0 and 100, a question is
like itself, a small model is local, remote or none. One is about the
values: `RateAssumption` wants `RATE * (MAX_AGE + 1) >= BURST * COST`, that a
bucket which `cleanup_expired` may drop has had the time to fill up; the defaults
(one token a second, a burst of 10, 300 seconds) satisfy it by far, and without
it the contract does not hold. `GateAssumption` wants a threshold that fails a
version to bound its metric from below, as those the admin API passes do
(`admin.py:494`): a drop counts as a regression whatever the comparison says, so an
upper bound that fails would make the property false. `TrainingAssumption` wants
two rows in each list of fixtures, which the script has; `SourceAssumption` that
what the WAL knows of a source is at the source, and that a page has room;
`PoolAssumption` that `None`, which `acquire_sync` may put in the list, is not a
connection; `ToolsAssumption` that retries are naturals and that code registers
functions. TLC evaluates the assumptions in every run.

*RagGraph.* `GenerationBudget` is not inductive. The invariant is a ledger
(`LedgerInv`): the generations so far, and the one still owed when the current
node leads to `generate`, are paid for by the first answer, the tool loop, the
reflections, and the rewrites counted or about to be counted. It needs that the
caller's tool calls are served at most once (`ToolInv`), that a critique comes
only once (`CritiqueInv`) and that `rewrite` has run before any other node
(`RewriteInv`); `LoopBoundsOrdered` makes `rewrite_query` count every rewrite a
check asks for. For `UndeclaredLoopsInert` the same ledger has only the tool loop
(`InertInv`), since dropped flags stay false (`FlagsInv`).

*CircuitBreaker.* `CountMatchesState` is inductive with the types.
`ProbesLimited` needs `SlotInv`: the running calls of this half-open period are
no more than `_half_open_calls`, which is never decreased within a period.

*VersionLake.* While undisturbed, each program point of `sync_document` has a
fact about hot file, locals and Qdrant (`AtPoint`); at the point "idle" it is
the property. For `HistoryReplays` it is a fact about the cold history instead
(`HistoryAt`): between syncs the records replay to the hot file, within one they
do so together with the record still to be appended (`Logged`), whatever Qdrant
does. What one more record does to a replay is the lemma `ReplayAppend`.

*EventStream.* Acknowledged events are accepted ones, and every acknowledgement
of an update comes with a non-empty write; a page has at least one chunk. That no
event vanishes is kept as books (`Books`): each event before the group's cursor
is acknowledged, pending or trimmed before anyone read it, and only one of them
(`Delivered`), and the pending ones that neither failed nor were orphaned are in
exactly one worker's batch (`Held`). `IndexFollowsStream` adds that batches are
sorted, that workers which take turns acknowledge in stream order, and that the
index then is what the acknowledged part of the stream says (`Follows`: `Sorted`,
`InTurn`, `UpToDate`).

*EtlBatch.* The file may be overwritten at any time by a copy that some thread
took long ago, so the invariant claims of every copy that can still reach the
file what the property claims of the file (`Covered`, `Recorded`), with the one
exception of the entry a thread is about to record, which is covered by what the
thread has handled (`Handled`: on disk, missed, or passed over, which becomes
missed in the same step). During extraction each of the source's documents is
handled or still to do (`Extraction`). `Timed` says that no record is from the
future, so that a new change is newer than every record. Because a thread's
facts speak of its own documents and of monotone sets, steps of other threads
keep them (`Untouched`, `OtherThreads`), and each step only has to be shown for
its own thread (`ThreadStep`). `LockExcludes` needs only that a thread which
writes under the lock is its owner, or was robbed of it (`WriterOwns`).

*ChatService.* The text a request holds was generated for its topic or for one
that matches it (`Vouched`), and so was every entry of the cache and of the
semantic buckets (`Justified`). That gives the simulation: each step maps to a
step of `AnswerService` or to a stutter under the mapping of section 3
(`TopicMap`, `PhaseMap`, `GivenMap`). For `AnswersFollowQuestions`, in every
conversation object of the heap an answer directly follows its question (`Pairs`),
also in objects no store refers to any more, because a request may still append
to one; cutting a dialog at the front, which summarising and trimming do, keeps
that (`SuffixPaired`).

*ModelRegistry.* What the file holds was written from some process's copy, so
the claim is made of every copy, of the temporary file and of the file, unless it
is torn: at most one production version (`RegistryInv`). *CanaryController*: the
property is inductive once the configuration is known to be a record with a
percentage (`CanaryInv`). *AdapterManager*: a loading adapter has a thread in the
load callback (`SomeoneLoads`), a draining one a thread that is about to unload or
to load it (`SomeoneDrains`).

*Training.* Files carry the number of the export that wrote them. The training
rows of a file, of a job that has read one, and of the export being written are
of other records than the evaluation rows of the same number, whether those are on
disk or still to be written (`Fine`); a file the running export has not reached has a
smaller number (`NotYet`). Each record of the log makes one row (`BuiltDistinct`),
and that the split itself keeps the records of its sides apart is a fact about each
of its cases (one row, no stratum large enough, the shares of each stratum). *EvalGate.* Every recorded result is the verdict of its own metrics
against its own baseline (`GateInv`), and a verdict is monotone: a threshold or a
tolerance that the better metrics miss, the worse ones miss too.

*Sessions.* Rows are only ever marked or removed (`RowsOnlyRevoked`), a handler
that is about to mark or to store holds the number of a row (`SessionsTyped`), and
whoever carries a token after its first mark was counted by it (`Spends`).

*ApiKeys.* No two keys have one id (`Separate`) and every key has its hash in the
index (`Indexed`), usable or not, so removing the hashes of the old keys takes none
from another. The loop of
`cleanup_expired_keys` is a recursive function over the list; that it has a result,
and what that is after each round, follows by a set of round numbers that has no
least gap (`UpTo`, `Iterates`): what is kept is a part of what was there, in no
other key's place (`KeptFacts`). `rotate_api_keys` meets nobody twice
(`OrdersFacts`), and those served before the first user at the limit are below it
(`ServedFacts`).

*Gateway.* `RateContract` speaks of every stretch of time. The invariant
(`RateInv`) has one inequality per earlier request of a key: what has passed
since it, together with the tokens left in the bucket, fits the burst and what
the rate added up to the last refill (`Paid`). When the bucket is gone, the rate
alone has paid for what passed: `RateAssumption` is what makes dropping it safe.
What passed between any two requests (`Spread`) and the promise of `Retry-After`
(`Kept`) follow. Each step is linear once the products with the rate are named.

*Knowledge.* A worker at work has a running task that no other has (`WorkersHold`),
so that a completed task stays completed; what is written in `doc_count`
(`DocsBounded`), and what a worker has counted and is about to write
(`CountsBounded`), is no more than the completed tasks.
*Feedback.* A thread that has the file open holds a record no later than the last
one opened, and its place: the active file, a backup, or nowhere once unlinked.
What is on disk or about to be written in an older file was opened before what is
in a newer one (`FilesInv`); a shift moves a file into a gap (`Shifting`).
*DeadLetters.* The failures of a message are at least its count and the nacks that
have read it and not written it yet (`Counted`).
*LocalSlm.* The processes alive are the one the handle names, or one was `lost`
(`Owned`); after exit no thread is left that could start another.

*Migrations.* Records have no gap, and a record without its schema is explained
by the audit log, a crash or a downgrade about to remove it; an upgrade's list
leaves out nothing that is missing below it, a downgrade's is the newest part of
the records (`Sound`), and a downgrade runs alone (`Alone`). The first
and last version of a list exist by the well-foundedness of the subset relation
on its initial segments (`Least`, `Greatest`), which takes the place of an
induction.

*EtlJob.* A document whose raw data are gone was synced with the version
recorded, and nothing that may still be synced, the chunk file or the chunks in
memory, has only other versions of it (`Survives`); in each phase, a document the
run has not passed over is still in the loop's list or in its output (`Tracked`).

*WalManager.* A call works section by section, so it keeps the WAL and the
history alike in each section it was worked out for from what the WAL holds
(`Agreed`, `ResultAlike`), ages included, because `vacuum` decides by them; what
is stored over something else is disturbed. Over the file, whoever is between
read and write has the lock and read what the file held (`Locked`), so only a map,
which is read before, can be outdated.

*Extractors.* While nothing was deleted and no limit set, an item that has not
moved is dealt with, at hand, in the rest of the list that was read, or behind the
offset that is read next (`Awaits`); an insertion moves items away from the
offset's past, never into it. An item is recorded only after every required part
was got (`WalComplete`), because a step that may be left out is none of those
(`GoodSteps`).

*ConnectionPool.* Two halves that the steps touch separately. `PHand`: a
connection in a task's hands is in no other's and not on offer, nothing is offered
twice, and what counts as in use is in hand or a stray. `PList`: whoever is at an
await with the lock held is its only holder, and until an unlocked method changed
the list under it, the list is within its limit and has every open connection, and
what `close` and `drain` have passed is no longer open (`PBusy`). The loop of
`acquire_sync`, a recursive function, is described by a least counterexample in
place of an induction (`PurgedIs`), `list.remove` by the position it removes
(`FirstIs`, `FirstGone`).

*Tools.* `Listing`: a registered tool has its own name and is in the set of its
provider; unregistering takes out both, and registering over another provider's
tool adds to one set without taking from the other. `Layered`: the levels of a
batch hold every tool it knows, each in a later level than those it depends on.
The recursive function that peels the levels off has its values by the existence
of a loop's result (`Iterates`) and an induction up to its bound (`UpTo`), both
from a least counterexample. `Going`: levels before the current one are over, no
tool of a later one has started, a slot that runs or sleeps has an attempt left,
and not more of them than the semaphore admits. A batch keeps its levels and
dependencies from the start, so that no change of the registry reaches them.

`ComponentsProofs` and `EvolutionProofs` prove each component's invariant for its
own `Spec`; the last section of each lifts it: a behaviour whose `focus` is a
component is a behaviour of that component.

## 6. What is only model-checked

Liveness (`TerminatesWhenFound`, `RecoversWhenHealthy`, `CatchesUp`,
`AckedUnlessDisturbed`, `Converges`, `EveryRequestEnds`, `CallsReturn`) rests on
fairness, which the prover does not handle. Of `components`,
`TextCovered`, `ChunksAccounted`, `GroundedAnswer`, `InPlace` and
`ScoresSound` are checked by TLC and not proved; several of
them say what a recursive computation over a sequence returns, which would need
an induction over data that the installed provers cannot do. `TypeOK` is proved
of `RagGraph`, `VersionLake` and `EventStream`; the other proofs include the parts
of it they need. `ProbesLimited` and `UndeclaredLoopsInert` are proved and not
repeated in a run.

## 7. What is not modelled

The components with status `not_modelled` in `PROJECT.json`, with reasons: text
processing without state, formatting and parsing, verdicts of models (free
choices wherever a modelled component uses one), observation (metrics, tracing,
logging, health reports), on which no other decision rests, command-line tools
and dashboards, and code that nothing outside its own file uses (the timeout
manager, FLARE, live sources, the LLM router, two-stage
reranking). Within modelled components: the names and metrics of breakers, the
lengths of delays, signatures of webhooks and payload layouts.

Also left out, in modules that are otherwise complete: cancellation of guarded
callers of the breaker (`Cancellable`; section 8); the parts of a question that the
cache key does not have (`other_messages`, `lang`, `top_k`, `main.py:464`), so that
`AnswerService` says nothing of answers cached for another language or another
list of messages; a crash in the middle of a migration script (one that fails half
way is modelled); the `max_retries` a dead letter may bring of its own; listing
Confluence by CQL and GitLab by `project_ids` (`confluence.py:208`,
`gitlab.py:171`); in the chunker, scripts other than Latin and blank lines inside an
element.

Hazards the models do not reach: the LLM adapters take no half-open slot, so a
half-open circuit lets any number of them through (`base.py:188`), and a 400 or
401 counts as a failure of the backend (`base.py:246`); a document
that vanished at its source is never synced again (`run_etl.py:542`); the
stream consumer blocks the event loop that `stop()` needs
(`event_pipeline.py:229`); `RequestIdFilter` keeps the request id in a class
attribute, so concurrent requests log each other's (`logging.py:50`).

## 8. Observations on the code

Met while modelling, each where the module or its property says so; the four
that contradict a statement of the repository have a run of their own.

- A cancelled probe keeps its half-open slot (`circuit_breaker.py:277`): with a
  guarded caller in `Cancellable`, `RecoversWhenHealthy` fails.
- A document left without chunks (emptied, all filtered, chunking failed) is never
  passed to `sync_document` (`run_etl.py:541`): its points stay until it has chunks
  again.
- A rollback of the lake leaves newer chunks in Qdrant, and a registry rollback
  may restore a version that was rolled back before.
- A Jira issue recorded once is never extracted again, whatever changes.
- A cached answer carries no sources and so gets the notice that nothing was
  found.
- `Knowledge`: a knowledge base deleted for good leaves its collection to the
  next one of a name that maps to it. A pass of the reindex loop works from the
  list it read at its start.
- Two rotating threads can lose the newest backup, and a record opened before a
  rotation is written into the backup; what is left stays in the order of the opens.
- Two refreshes that select one refresh token before either marks it both get a
  pair: the `UPDATE` does not test `revoked` again, so "one-time use"
  (`user_db.py:335`, `jwt.py:587`) holds only for requests that do not overlap.
  `RefreshSpends` says exactly that. The blacklist of access tokens is written and
  never read, and so left out.
- `Embedding`: an answer that leaves a text out shifts the vectors after it.
- `Gateway`: 429 answers come from the outermost layer and carry no request id,
  security headers or audit entry; `cleanup_expired` has no caller, and would
  break the limit if `max_age * rate < burst`.
- `Scoring`: calibration rounds to three decimals and may pass a finer score
  (`RoundedPast`). With the NLI model the grounding is `entailment - 0.5 *
  contradiction` (`nli_evaluator.py:246`), so an answer with more supported claims can
  score lower than one with fewer, although the report counts only the supported ones;
  `verify_answer_claims` goes by word overlap even when the model is there.
- `EvalGate`: metrics that were not measured are passed over, and evaluating the
  production version overwrites the baseline.
- `Training`: the datasets carry no ids and are not deduplicated, so two talks that
  asked the same make equal rows, and one may be in the training file and the other
  in the evaluation file: `HeldOut` is about records, not texts. Full fine-tuning of the reranker measures on rows it trained on;
  a job can read files of two exports.
- `Migrations`: a failed or interrupted downgrade leaves a recorded version
  without its schema; a Neo4j migration without a driver is recorded.
- `EtlJob`: a document whose sync raises stops indexing for those after it; they
  stay in the raw data for the next run. One that a run passes over without an
  exception (chunking failed, collected under another source, a shutdown, a
  skipped phase) and then removes in
  its cleanup is not indexed until it changes: the named exception `excused` of
  `RecordedIsKept`.
- `LocalSlm`: `generate` resets the handle outside the lock (`slm.py:238`) and can
  drop a process another thread has just started, which then runs unowned: the
  named exception `lost` of `OneServer`.
- `WalManager`: concurrent `update_hash_state` calls keep one entry
  (`wal_manager.py:358`); over Redis and the proxy any two updates that overlap can
  undo each other, a reset removes nothing, and an update after a failed read
  starts from nothing: the keys in `disturbed` of `CheckpointsKept`.
- `ConnectionPool`: the methods without the lock can change the list while `close`
  goes through it, which then skips a connection (`bypassed`); a task cancelled
  while it waits to give its connection back never does (`strays`); `acquire_sync`
  without a factory fills the pool with `None`.
- `Chunker`: with markdownify the text before the first heading is in no chunk;
  without it a section is cut only at blank lines inside its elements, elements
  other than `p`, `ul`, `ol` and `table` are dropped and nested ones taken twice.
  `max_tokens`, "maximum number of tokens per chunk", is tested before the overlap
  is put in front (up to `overlap_tokens + 7` more), and the merge adds up estimates
  that were rounded down, without the separator, so a merged chunk may have two
  more. Packing equal chunks loses their access levels.
- `Ingest`: a document whose chunking fails is counted nowhere.
- `FileExtractors`: text before the first heading is dropped, a repeated heading
  in RST or AsciiDoc loses its later section, and an EPUB page inside `div` or
  `body` is emptied.
- `Retrieval`: a question routed as direct is put to the model with neither notice nor
  sources (`main.py:482`), the named exception `RoutedDirect` of `GroundedAnswer`; the chat
  endpoint, which finds no sources, adds it afterwards (`chat.py:486`, `chat.py:686`),
  but for a streamed one with `ALLOW_UNGROUNDED_GENERATION` off. Results of rewritten and expanded queries are searched and not
  used, and the neutral score of a reranker outage is cached for an hour.
