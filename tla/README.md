# chat-db in TLA+

chat-db answers questions in natural language with SQL: a FastAPI service
matches a question to columns of a registered database, has a language model
write the statement, validates it, runs it on the target database and streams
the answer to a browser. Around that sits a catalogue of the target's schema,
kept by extraction and sync jobs, described column by column by a learning run,
and mirrored into a vector store and a graph.

The modules here model the parts of it where order, failure and shared state
decide whether the program is correct. TLC checks them on small instances; TLAPS
proves their safety properties for every value of the constants. Paths below are
relative to the repository, lines are of the commit the modules were written
from.

To check: `tlc -config MCx.cfg MCx` for a run of `PROJECT.json`, `tlapm
xProofs.tla` for the proofs.

## 1. The system

Everything on the server runs in one asyncio process: coroutines interleave at
`await` only. State outlives a process in the application database (PostgreSQL),
Redis, Milvus and Neo4j.

| Component | State | Operations | Talks to |
|---|---|---|---|
| Gateway, `api/gateway.py` | `_query_store`, `_active_queries` (process memory); per request a deque, two events, a task | POST /query and its event stream, GET /query/{id}, session endpoints | pipeline (task), session memory, browser (SSE) |
| Single-step pipeline, `pipeline/single_step.py` with `semantic/`, `normalizer/`, `sql/` | local variables of one call, one prompt counter | match, normalise, generate, validate, execute, summarise | LLM, vector search, graph query, target database, gateway (progress callback) |
| Metadata tasks, `api/datasources.py`, `api/admin.py` | rows of `metadata_sync_logs` and `metadata_learning_logs` used as locks | trigger sync, activate, admin trigger, trigger learn, background tasks | extractor, catalogue, learning |
| Catalogue, `metadata/extractor.py`, `metadata/sync.py`, `metadata/models.py` | tables, columns, indexes, keys as rows | extract, diff, apply, refresh descriptions | target database, learning (same rows) |
| Learning, `learning/` | descriptions in the catalogue's rows, a log row; a semaphore and a counter per run | L0 comments, L1 splitting, patterns, key inference, L2 fan-out, verdict | LLM, target database, knowledge base |
| Knowledge base, `knowledge/` | one vector per described column, a graph per data source | refresh after learning, search, join paths, clean-up | Milvus, Neo4j, embedding service |
| Registry, `api/datasources.py` | `data_sources` rows, `is_active` | CRUD, activate, deactivate, test | catalogue, knowledge base |
| Session memory, `memory/session.py` | a Redis hash per session: turns, title, expiry | create, add turn, context, list, end | gateway |
| Browser store, `frontend/stores/chat.ts` | query state, abort controller, messages, sessions | send, cancel, confirm, switch, delete | gateway |
| Not called by the service | | `pipeline/multi_step.py`, `agents/`, `healing/`, `memory/summarizer.py`, `ResultCache` | |

What is hard about it, and what must hold:

- **Gateway.** A producer task and a generator share a deque; the server may
  destroy the generator at any suspension. Events must arrive in order, once,
  up to the closing ones; a question runs once at a time per session; the run
  and its stored answer survive the client.
- **Metadata tasks.** The lock is "read two log tables, later insert a row".
  What does it exclude, when can it be recovered, and do the logs tell the truth
  when a session is poisoned, the process dies or a slow task outlives its lock?
- **Catalogue.** The schema is read by four queries without a snapshot while it
  changes; it is applied in two commits, and learning writes into the same rows an
  await after it has read them. The stored schema must converge and keep what
  learning has written, and a description must follow the comment it was copied
  from, but where one of these gaps swallows the change: how far, exactly?
- **Learning.** Concurrent tasks with retries, a cap, a deadline, sessions that
  fail. Permits, calls and books must balance on every path; better sources of
  descriptions win; the verdict must be true when it is read.
- **Knowledge base and registry.** Vectors and graph are copies of rows that go
  on changing, made by several transactions of stores that may be down, for
  sources that are activated and deleted meanwhile. A complete copy must say what
  the rows said and no copy may lose its owner. The documents want one active source
  and no trace of a deleted one; the code has neither at every moment, so the question
  is which orders of steps leave two active, or a trace, and that no other does.
- **Chat.** The browser store changes at every await of six actions; an abort
  runs the catch of the aborted query; the server answers late, refuses, or
  forgets a conversation. The store must not believe in a query that is over, and a
  query's context must hold what its user has already read. Which orders can mix two
  conversations on show, and does every other keep them apart?
- **Plans.** A plan of tasks comes unchecked from a model: cycles must be refused,
  no other plan may be, and a failure must reach all that depends on it.
- **Pipeline.** Five places share a prompt budget, and refusals surface four
  stages later. A statement that was refused must not run, nor a regenerated one that
  has not passed itself; only where the check raises does a first one go on without
  a verdict. The answer and the progress must be about what ran.

## 2. Modules

| Module | Models | Proofs |
|---|---|---|
| `EventStream` | what POST /query promises: the abstract specification of the gateway | |
| `QueryStream` | handler, generator, pipeline task of the gateway | `QueryStreamProofs` |
| `Pipeline` | what the gateway expects of a question's pipeline: the abstract specification of `SingleStep` | |
| `SingleStep` | `run_single_step`, its matcher, normaliser, generator and validator | `SingleStepProofs` |
| `MetadataTasks` | the jobs of one data source and their mutex | `MetadataTasksProofs` |
| `SchemaSync` | what one job does to the catalogue | `SchemaSyncProofs` |
| `LearningRun` | the learning runs of one data source | `LearningRunProofs` |
| `Registry` | the rows of the data sources and the handlers that write them | `KnowledgeProofs` |
| `Knowledge` | vectors and graph of those sources, refresh and clean-up (extends `Registry`) | `KnowledgeProofs` |
| `SessionMemory` | the conversations on the server | `ChatStoreProofs` |
| `ChatStore` | the browser store against them (extends `SessionMemory`) | `ChatStoreProofs` |
| `MultiStep` | `execute_dag`: the sort and the run of a plan | `MultiStepProofs` |

`MCx` gives the constants of `x` values for TLC. Operators whose comment begins
with "Mutant:" are what a plausible mistake would make of the definition below
them; the specification does not use them, and with one of them in place the
property it is paired with in `PROJECT.json` fails.

How the modules fit: `QueryStream` implements `EventStream`. `SingleStep` is the
body of its pipeline task and implements `Pipeline`, which is all `QueryStream` knows
of that task: phases told in order, one vetted statement at most, one conclusion
that fits both. `MetadataTasks` is about which jobs overlap and sees a diff as a set of
tables; `SchemaSync` is about what a job writes and runs one job at a time;
`LearningRun` is the learn job seen from inside: each of its steps is a step of a
learning job of `MetadataTasks` (or none), with the stages of a run for the one step
`learn` of the job (`JobStage`). Its last stage is a refresh of
`Knowledge`, and `Commit` there stands for all the jobs that change a source's rows.
`ChatStore` reads the stream whose order and end `QueryStream` establishes, cut down
to the events the store acts on.

### QueryStream

`pc[q]` is where the request handler or generator of request `q` is suspended:
`admitted` (response not yet iterated), `yielding` and `pausing` (at a `yield`,
of an event or a keep-alive), `waiting` (in `wait_for`). An action is the code
between two suspensions. `AcceptQuery`/`RejectDuplicate` are lines 84-98,
`OpenStream` the generator's first steps up to the pipeline task's creation, `Resume`,
`WakeUp` and `KeepAlive` the ways to go round the loop 321-341, built from
`YieldNext`, `LoopTop`, `Block` and `CloseStream`; `ReportProgress` and
`FinishPipeline` are the task; `Disconnect` destroys a generator. The outcome is
announced without an `await` in between, so that is one step. `await
pipeline_task` in the `finally` block is reached after the task has set
`_pipeline_done` and never suspends: a disconnect never lands there, which is
the finding `gateway_key_leak`.

`buf` and `emitted` are sequences of kinds of events; `received` is a history.
The two-way wait is modelled with `bufReady`, so that a lost wakeup would show.

### SingleStep

One question. `llmCalls` counts prompts, `refused` remembers that one was
refused; `sql` is the first or the second statement; `safe` and `faulty` say which of
them `validate_sql` passes and refuses, and over one that is in neither it raises (it
converts the number of a LIMIT outside its `try`). What the rules decide is open, what
is done with it is not: `Check` goes on without a verdict (single_step.py:222), the
handler around the retry rejects (`Recheck`). The dry-run branch of the code is
unreachable, because the gateway always passes an executor, and so is the handler
around `match_semantic`, which catches everything itself; they have no action.
`Announced` is the gateway's choice of the
outcome event from an answer (`gateway.py:282-305`).

### MetadataTasks

A job is a chain: a request (`PostSync`, `Activate`, `AdminTrigger`,
`PostLearn`), the task it starts, and after an extraction the learning run that
follows. `syncLog`/`learnLog` are its log rows. Between any two awaits another
job may run. `DatabaseFails` poisons the session: there is no rollback, so the
`except` branch fails as well and the log stays `running` (`stuck`). A failure of
the *target* comes before the session is used, and marks the log failed. `Age`
makes a log 30 minutes old, `Crash` ends every job and keeps the rows.
`StoreFull` violates `uq_metadata_tables_ds_schema_table` if the source was
extracted before. `syncRivals` and `learnRivals` are histories: what was running when the
job's check began.

### SchemaSync

`target` is the schema of the target database, which `ChangeSchema` edits one
table at a time, at any moment. `tables`, `cols` and `parts` are the stored rows;
a part is the name of an index or a foreign key, since compute_diff compares only
names of those. `ReadTables`, `ReadColumns`, `ReadParts` are the queries of
`extract`; `StoreFull` inserts a full extraction; `Apply` is `compute_diff` and
`_apply_changes` up to the first commit; `Refresh` the second commit, `Settle` the
third. `End` is how a job leaves; `Interrupt` is a failure of the application
database or of the process. Learning reads rows without a description (`ReadComments`
for L0, `ReadBare` for L1 and L2), holds what it will write in `hand` and commits it
with `Save` at any later step, whatever the rows have become; a row that is gone fails
the commit. `missed` is a history: the columns whose comment changed in learning's hand,
or whose sync ended before its refresh. A changed table comment is `table_modified`, which
`enum_change_type` does not know: the insert of the change log fails and the job
ends stuck, with nothing stored.

### LearningRun

`pc[r]` is the stage of run `r`; `broken[r]` says that its session can no longer be
used. `StageFails` is an exception that `suppress` swallows, with or without
breaking the session; `RunFails` ends a run. `task[r][t]` is the L2 task for
table `t`: queued at the semaphore, reading its bare columns, calling (with
`attempt` prompts), in backoff, saving, returned or raised; `TableStep` takes it one
step. `Expire` is the job timeout. A commit that raises may have taken effect.
Stages read the columns and save later (`ReadComments`/`CopyComments`), so runs
that overlap see stale rows. `wrote` and `askers` are histories: which columns the
model described for a run, and which runs had asked about a column when the model's
first text for it was stored.

`RunStep` is any step of a run outside its tables; the fairness is stated with it.

### Registry and Knowledge

`ops[h]` is a handler between its first read and its end. What it loaded is what
its session believes: `was` is `is_active` at the load, and since the session
writes only what differs from that, a source that was active when loaded and has
been deactivated meanwhile stays inactive. `ListActive` is the query of the active
rows, `CommitActivate` the flush and commit, in which a row that is gone makes all
of it fail (`Write`). Two activations that overlap can leave both their sources active.
`made` remembers which handler made each source active and `rivals` which activations
were at work together, so `OnlyRivalsActive` can say that there is no other way, and
that an activation on its own ends it.

`catalogue[s]` holds the descriptions and keys of a source, `rev[s]` counts its
changes, and `mirrored` has for each store the `rev` its last complete build had
read. `jobs[r]` is a refresh: one read of the described columns, the vector build,
four reads of tables, columns and keys, the rebuild. The stores are called without
`await`, so within one process a build is one step; `RebuildGraph` may stop after any
of the five transactions (`Rebuild` is the sequence of graphs after each), and
`BuildVectors` does all or nothing. `DeleteSource` is `DeleteRow` with its cascade,
`CleanUp` what follows, each store in its own `try`. `spared` remembers, record by
record, what a store that failed had at a clean-up, what a restart left, and what a
refresh had still to write when the rows went (`Kept`, `Held`). Nodes
carry `data_source_id` only if a table or column statement has set it; `MERGE` for an edge creates bare nodes (`MergeKeys`).

### SessionMemory and ChatStore

A turn is the number of its query. `server[q]` is the query at the gateway:
accepted or refused, its context read (`ReadContext`), answered (`Answer`: the turn is
added, then `done` queued). Redis may fail at each, without a word; `wiped` remembers
the conversations that lost turns by that, by expiry or by deletion. A dedup key may
be kept after its query is over (`gateway_key_leak`), so a repetition of an earlier
query may be refused.

`queryState`, `controller`, `sessionId` and `messages` are the store's fields, with the
query that owns `_abortController` in place of the object. `client[q]` is one
`sendQuery`. Between two awaits an action is one step; `abort()` rejects at once what
the aborted query awaits, so its catch (`Rest`) belongs to the step of the action that
aborted it, and comes after what that action sets. That is why `Send` ends idle when
it had a query to abort. `Switch`, `New`, `Delete` and `Confirm` ask the server and go on
in an action of their own, after whatever came in between. `Created` drops a query sent
meanwhile without aborting it; that query's end then rests the store of the next.
`LoadShown` shows what its request was answered, whatever session is on show by then:
`late` has the requests the session has changed under, `overtaken` says that the turns
on show came from one. A query sent without a session keeps `None` as its own, and the
first response names the session on show, so the messages of two such queries can
end in one (`Begun`).

### MultiStep

`Count`, `Pop` and `ConcludeSort` are Kahn's algorithm, with the order among tasks that
are ready at once left open; `Run` takes the next task of the order, `Skip` or `Execute`.
A task is its place in the plan. `Unknown` among its dependencies is an identifier
the plan does not hold, a `KeyError`.

## 3. Runs

| Run | Instance | Shows |
|---|---|---|
| `gateway` | 3 requests of one key, at most 1 progress event | `EventsInOrder`, `NoLostWakeup`, `StatusMatchesStream`, `OneRunPerKey`; `ImplementsEventStream`; under fairness `StreamEnds`, `RunOutlivesClient` |
| `gateway_key_leak` | same | violated: the key of a lost stream is never released |
| `single_step` | 5 prompts, up to 6 matched columns | `NoRefusedRuns`, `AnswerHonest`, `ProgressTruthful`, `SmallQuestionsSpared`; `ImplementsPipeline` |
| `tasks` | 3 jobs, 1 table | `LateArrivalsWait`, `LogsTellTheTruth`, `OnlyStaleRewritten` |
| `tasks_stale_locks` | same | violated: two stale locks are never cleared |
| `tasks_sync_learn_race` | same | violated: a sync and a learning run at work together |
| `schema_sync` | 2 tables, 1 column, 1 part, 1 type, 1 comment, 3 schema changes | `CatalogueCurrent`, `CommentsFollowed`, `DescriptionsSurvive` |
| `schema_sync_scope` | same | violated: a scoped sync removes what is out of scope |
| `learning` | 2 runs, 2 tables, 2 permits, cap 1, 1 retry | `SourcesRanked`, `VerdictsHold`, `PermitsBalance`, `CapRespected`, `BooksMatch`, `OnlyRivalsRewrite`, and `LogsSettle` under fairness |
| `knowledge` | 2 sources, one of them learned, with 2 columns of 2 tables and 1 key; 2 handlers, 2 refreshes, 1 change of the rows | `OnlyRivalsActive`, `VectorsCurrent`, `GraphMirrors`, `NothingUnowned`, `GoneStaysGone` |
| `chat` | 2 queries of one text, 4 sessions, 2 other requests, 1 turn kept | `TurnsAreRecent`, `StateHasACause`, `HistoryOwn`, `ContextComplete`, and `Settles` under fairness |
| `plan` | every plan of up to 4 tasks | `RejectedIffCyclic`, `DependenciesFirst`, `FailuresSpread` |

Why the bounds are enough:

- `gateway`: three requests give a holder of the key, a loser and a successor.
  A second key adds nothing that the first does not (the proof covers any keys;
  an instance with two keys was run once). One progress event is what the
  generator can find queued, or not, at each of its steps; the proof covers any
  number.
- `tasks`: a race needs two jobs, two stale locks and their retry three. One
  table tells an empty catalogue from a full one and a diff from none.
- `schema_sync`: two tables are one in and one out of a scope, one listed and
  one torn; three changes create, drop and create again between two queries. One
  comment and none are the two a description can lag between; learning's read and
  commit may enclose any number of syncs.
  Tables are interchangeable and the run has no liveness property, so symmetry is
  sound.
- `learning`: two runs overlap at every stage and in every table task; with one
  call each the second table meets the cap, in either order; one retry reaches
  both ends of the loop. Three tasks on two permits, which queue, are covered by
  the proofs.
- `knowledge`: two handlers overlap as activations, deactivations and deletions of
  the same or different sources; two refreshes overlap or follow each other; one
  change of the rows falls before, between or after the reads of each. Only one
  source is learned: what a refresh does to another source's records is nothing,
  since every statement names the source. A column with and one without a
  description, and one text too long for the store, reach each branch of a build.
- `chat`: a query to abort and one that aborts; two more requests are two switches,
  a switch and a creation, and so on, in any overlap; with one turn kept, the
  second drops the first. Each of the up to four sessions can only come from a
  query or a request of its own.
- `plan`: four tasks make every chain, fork and diamond, cycles of one to four, and
  cycles beside tasks that could run.
- `single_step`: five is the configured cap and six columns pass it.

Runs with `CHECK_DEADLOCK FALSE` are of systems that stop: all requests answered,
all jobs over. `schema_sync` never stops, and is checked for deadlock.

### Fairness

- Gateway: asyncio resumes a ready coroutine (`OpenStream`, `Resume`), an event that
  is set or a timer that runs out ends a wait (`WakeUp`, `KeepAlive`), and a
  pipeline ends, because everything it awaits has a timeout: the LLM client
  (`llm_timeout`), vector search (15 s), target statements (30 s on the server,
  `db/connection.py:18-30`). No fairness on clients: none has to stay, leave or ask.
- `LearningRun`: weak fairness on the steps of each run and of each table task, for the
  same reasons; none on the start of a run, on failures or on the deadline.
- `ChatStore`: weak fairness on each query's way to the server, through the pipeline and
  back, or on the failure of the connection, as above. None on the user, on the
  other requests or on the time to live.
- The others state safety only. A job of `MetadataTasks` or `SchemaSync` that is stuck
  stays stuck, so no progress could be claimed; a question of `SingleStep` and a plan of
  `MultiStep` have no step that goes back, and a measure says so (section 4).

### Where the code differs from what it says

Each is a run with `expect: violation` and a finding in `PROJECT.json` with the
line it contradicts: the key leak, the stale locks, the race of sync and
learning, the scoped sync. Other differences, without a run that fails on them; where a
property is named, it says how far the difference goes:

- Two sources can be active. `team-spec/active/2026-06-05-db-connection-metadata/prd/prd.md:96`
  says "系统必须保证同一时刻全局仅一条配置为 `is_active = true`" (one at any moment; again
  at lines 153 and 209), but `activate_data_source` lists the active rows, and
  commits awaits later, with no constraint below it: two activations that
  overlap each leave their own source active, until the next one that overlaps
  neither (`OnlyRivalsActive`).
- A deleted source can leave records, and they can come back.
  `team-spec/active/2026-06-19-knowledge-base/prd/prd.md:103` says "数据源删除 →
  Milvus/Neo4j 即时清理，无孤儿" (cleaned at once, no orphans; also lines 80 and 149). A store
  that is down at that moment is only warned about, a restart loses the clean-up, and a
  refresh that has read the rows writes them after it; nothing tries again
  (`GoneStaysGone` says that these are all).
- A statement can run without a verdict. `single_step.py:222-223` passes over an exception
  of `validate_sql`, announces "安全校验通过" and goes on, where the comment at 226-227 has
  a statement run that "passes security". `security.py:30` converts the number of a
  LIMIT outside the `try` of `validate_sql`, which fails for more than 4300 digits
  (`NoRefusedRuns`, `ProgressTruthful`).
- A copied description can keep an old comment. The docstring of `_refresh_l0_descriptions`
  (`datasources.py:669-678`) has a sync refresh what came from a comment, but learning commits
  the comment it read an await earlier, and a sync that ends between its two commits
  never refreshes (`CommentsFollowed`).
- Two conversations can mix on show. `switchSession` shows what it had asked for even when
  the session on show has changed since, and two queries sent without a session
  share the session of the first response, while the server has them in two (`HistoryOwn`).
- A client that leaves before the event stream is first iterated takes the run with it,
  as the pipeline's task is only created there (`RunOutlivesClient` excepts it).
- `team-spec/active/2026-06-19-semantic-matching-pipeline/prd/prd.md:72` has
  the user confirm before a statement runs; `single_step.py:226-228` executes as soon
  as there is one, and shows the doubts next to the result.
- The same document, line 98, turns an exception of the normaliser into a doubt;
  the code passes over it.
- The pipeline takes the last five entries of the context for the last five
  turns, but a turn is two entries, so it gets two turns and a half.
- Line 86 of that document has a question that is over the prompt budget lose its
  summary only; the columns share the budget, and a question with more of them than
  `SmallQuestionsSpared` allows loses its statement.
- `orchestrator.py:225` isolates the stages of a learning run from each other's failures,
  but they share a session that is never rolled back: a stage that breaks it
  takes the later ones, and the log, with it (`LogsSettle` says how far).
- `VectorStore()` connects when it is constructed, outside the two `try` blocks of
  `cleanup_knowledge_base`: with Milvus down the graph is not cleaned either.
- `confirmQuery` shows that processing goes on, but nothing follows, and the store
  stays `running` until the user switches or creates a session
  (`StateHasACause` has to except it).
- A query that is cancelled or refused as a duplicate leaves its message at
  "思考中…".
- `connected_subgraph` follows one hop from the first table; its docstring promises
  the connected tables.
- The engines made for extraction and for queries are never in the connection
  manager, so `dispose_sync` has none of them to dispose.
- "一旦写入永不刷新" (a description is never rewritten): overlapping L2 runs
  overwrite each other's text. `OnlyRivalsRewrite` says how far: only a run that had
  asked about the column while it was bare, and never with text of another source.
- `fk_inference.py:224` deletes the inferred keys of a source before it looks for them
  again, and passes over a candidate whose query fails: a target that is down during
  the stage costs the keys an earlier run had found.
- A composite foreign key is extracted as one row per column, with one
  constraint name: its second row violates `uq_metadata_fks_table_constraint`, and
  such a source is never extracted. Parts here are distinct names.

## 4. Proofs

All theorems hold for every value of the constants under the assumptions their
modules name: `KeyAssumption`, `ProgressAssumption`, `BudgetAssumption`,
`NameAssumption`, `EditAssumption`, `CatalogueAssumption`, `SettingsAssumption`,
`KnowledgeAssumption`, `MemoryAssumption`, `PlanAssumption`. They
say what kind of thing each constant is (and that a context is no longer than what is
stored), and TLC evaluates them in every run.

Each module states an inductive invariant as a conjunction of named parts, and
its proof module has one lemma per action, one for the initial states, and one
theorem per property. The parts that are not properties of their own are there
because a property alone is not inductive:

- `StreamInv` (QueryStream) adds `Lifecycle` (handler, task and stored status advance
  together), `Emissions` (only heartbeats before the conclusion, then exactly the
  closing events) and `KeyOwnership` (who a held key is held for; without it
  nothing says that an admitted request finds its key free). From it follow
  `TypeCorrect`, `OrderPreserved`, `WakeupsKept`, `RunsExclusive`, `StatusAgrees`,
  `ClosesCleanly`, `ConclusionsFinal` and `GatewayImplementsEventStream`, where every
  action is shown to be a step of `EventStream` or a stutter.
- `StepInv` (SingleStep) adds `StageAgrees`, what each stage knows of the statement
  (a verdict, or that there is none),
  `ToldInTime`, what the client can have heard by then, and `ToldInOrder`, that no
  phase is told twice or late. With these each action is a step of `Pipeline` or a
  stutter (`SingleStepImplementsPipeline`).
- `TasksInv` (MetadataTasks) adds `JobLifecycle`, what a job has recorded and
  committed at each place, and `Noted`, that what was read of other jobs' logs
  stays true.
- `SyncInv` (SchemaSync) adds `TargetFits` (the target is a schema), `NoOrphans` (each
  stored row has its table, which the database's foreign keys demand anyway), `StageAgrees`
  (what has been read of a target that stands still equals it, stage by stage,
  until it is what is stored) and `RefreshPending` (the comments a refresh still
  has to copy are those of the rows), which carry `CatalogueCurrent` and
  `CommentsFollowed` across the steps of a sync; `HandFollows` says that what learning
  holds for a row is a guess or the row's present comment, unless the row is in
  `missed`, which carries it across the await; `GuessesInferred` that an
  inferred description is never empty, so learning does not touch it again.
- `LearningInv` (LearningRun) adds `BareColumnsShrink` (what earlier stages have
  left bare for later ones, and that it only shrinks, which is why stale reads of
  overlapping runs do no harm to `SourcesRanked`), `TaskLifecycle`,
  `CommitsAccounted`, `PendingVerdictsHold` and `HandsAgree`: a column in the hands of
  an L2 task was bare when the task took it, so either it still is or the task's run
  is among those that had asked when it ceased to be. That is what makes
  `OnlyRivalsRewrite` inductive. Permits, calls and books are cardinalities of finite
  sets, counted with the library's theorems. From the same invariant every step of a
  run is a step of `MetadataTasks` or a stutter (`LearningIsATask`); in particular the
  log leaves `running` with a verdict and never returns, which the mutual exclusion there
  takes for granted. The initial states are left out: there a learning job starts
  past its check.

- `KnowledgeInv` (Knowledge) adds, for the registry, `ActivationsAgree`: activations at work
  together are rivals, and an active row that an activation has not listed was made
  active by one of its rivals. This part is inductive by itself, and all that the
  knowledge base needs of a registry step is which sources go (`QuietStep`). `JobsAgree` says that what a refresh
  has read, table by table, is what the rows say for as long as their `rev` is the one it
  began with (`AsRead`), which is why four reads without a snapshot make a faithful
  rebuild; and that all a refresh in flight still holds of a source that is gone is in
  `spared`. `StoresAgree` says that no edge crosses sources, so that deleting the nodes
  of one leaves no half of an edge. `RebuildGraphs` follows the graph through the five
  transactions.
- `ChatInv` (ChatStore) adds, for the server, `MemoryAgrees`: an answered query is stored
  in its conversation until that is full or has lost turns, which is what a context is
  complete by. `ClientAgrees` says that a query arrives only where it was sent, and that
  what its user knew was answered there; `CallsAgree` that what a switch is about to show
  is of the session it names, and that this is the session on show for every request that is not
  `late`; `MessagesAgree` that no message is of a query still to be
  sent, so that sending one leaves `HistoryOwn` alone. The server's part is inductive by
  itself, and the store needs of a step of the server only that a query that has
  arrived stays where it is and an answer stays given (`Steady`).
- `PlanInv` (MultiStep) adds `SortAgrees`: a task's open dependencies are counted right,
  and no task of a knot is ever sorted; at an empty queue, the tasks that are left
  each wait for another, which is a knot. So the sort is right for plans of any size
  without an induction over plans. `RunAgrees` says which tasks the run has passed.

`SmallQuestionsSpared` needs the history `matched`, how many columns the question had.

Action properties, proved from the same invariants: `ConclusionIsFinal`,
`OnlyStaleRewritten`, `DescriptionsSurvive`, `SourcesStay` (a description never
changes its source), and four measures:

| Measure | Says | Safety half of |
|---|---|---|
| `StepsRunOut` (SingleStep) | every step of a question lowers a natural number | the end of a question |
| `WorkRunsOut` (LearningRun) | every step lowers the measure of a run or of a task, and raises none | `LogsSettle` |
| `PlanRunsOut` (MultiStep) | every step of the sort or the run of a plan lowers a natural number | the end of a plan |
| `DrainsOut` (QueryStream) | once its pipeline has ended, each step of a stream lowers its measure | `StreamEnds` |

They rule out retries and wakeups that go round for ever, for every value of the
constants. What is left to liveness is that the next step is taken, which needs
fairness and `ENABLED` and is out of the prover's reach: `StreamEnds`,
`RunOutlivesClient`, `LogsSettle` and `Settles` are only model-checked.

Proved and not in a run, so that the runs stay short: the type invariants,
`CleanClose`, `ConclusionIsFinal`, `ToldInOrder`, `SourcesStay`, `RunsAreJobs` and the four
measures. TLC has checked each of them on the instance of its module's run. No
module uses a recursive operator, and no property of the passing runs is without a proof but
the four of liveness.

## 5. Not modelled

`PROJECT.json` lists every component with its status. In short: rendering,
wiring, DDL, text patterns and arithmetic on data (normalisers, scores,
statistics) have no state that two steps share; LLM, vector search and graph
search appear by their outcomes; code without a caller (agents, healing,
profiles, result cache) is left out, except the plan executor, which is an algorithm
of its own. Within the modelled components:

- `QueryStream` leaves out the session history, which is `SessionMemory`, and the
  confirm and cancel endpoints, which change nothing.
- `SingleStep` leaves out what the statement says, and the engine that the gateway
  makes for each query and never disposes.
- `MetadataTasks` leaves out the deletion of a source under a running job, scoped
  syncs and the `table_modified` failure (the last two are in `SchemaSync`).
- `SchemaSync` leaves out schema whitelists, ordinal positions, primary-key flags,
  definitions of indexes and keys, and descriptions of tables.
- `LearningRun` leaves out descriptions of tables, pattern statistics and the rows
  of inferred keys; comments and columns stay as they are during a run.
- `Registry` leaves out update and test, which change nothing another step depends on,
  and unique names, a constraint of the table.
- `Knowledge` leaves out vectors and node properties other than the ones named, and
  search; a column that loses its description or its row keeps its vector, which
  is why `VectorsCurrent` speaks of the columns that are described.
- `SessionMemory` leaves out titles and the listing, `ChatStore` the sidebar, the
  progress steps and the wording of messages.
- `MultiStep` leaves out the results and the summary.

## 6. Plan

Done: the components of the table above. Left, most important first:

1. The rows of inferred keys in `LearningRun`, with what two overlapping
   replacements of them can leave.
2. `Registry` composed with the jobs of `MetadataTasks`: no job works for a deleted
   source.
3. `SchemaSync` as a refinement of the sync jobs of `MetadataTasks`, as `LearningRun`
   is of the learning jobs.
