# Formal models of the memory system

TLA+ models of the parts of this repository whose correctness depends on the
order of steps: the EverOS memory service under `memory/src/everos` and the
device that uploads to it under `bridge/firmware`. TLC checks the models on
small instances; TLAPS proves the theorems of the modules named `...Proofs.tla`
for every value of the constants.

    tlc -workers 2 -config cascade_exclusive.cfg MCCascade
    tlapm CascadeProofs.tla

## 1. The system

Markdown files under the memory root are the truth. Everything else is derived
from them or waits to become one of them.

    device  --POST /add-->  memorize  --episode .md-->  memory root
    (bridge)                  |  events                    |  watcher, scanner
                              v                            v
                            OME  --strategies, .md-->   cascade --> LanceDB
                                                                      |
                                                     search / get <---+

| component | source | state it keeps | operations | modelled in |
|---|---|---|---|---|
| device sync client | `bridge/firmware`, `agent_runtime.cpp` | memory.jsonl, cursor file | remember, syncNow, syncAll | `DeviceSync` |
| memorize | `service/memorize.py`, `_boundary.py`, `_session_lock.py` | unprocessed_buffer, memcell ledger, session locks | add, deferred add, flush | `Memorize` |
| cascade queue | `md_change_state.py` | one row per path: status, change, mtime, retries | upsert, claim, mark, recover, reset | `MdChangeState` |
| cascade scanner, watcher, worker | `memory/cascade` | sweep, events, tasks in flight | scan, notify, drain, handle | `Reconciler`, `Cascade` |
| cascade commands | `entrypoints/cli/commands/cascade.py` | none | sync, fix, rebuild | `Cascade` |
| cascade index maintenance | `worker.py` | per kind a dirty flag, two task slots, streaks, prune clock | schedule, optimize, prune, rebuild, flush | `CascadeOptimizer` |
| cascade backfill | `_backfill.py`, `_backfill_cmd.py` | none of its own; an OME engine while it replays | four phases, with probes of the OME lock | `Backfill` |
| OME engine | `infra/ome/engine.py`, `_dispatch`, `_stores`, `_background` | job store, run_record, run counter, file lock | start, emit, dispatch, retry, recover, stop | `OmeEngine` |
| OME gates | `gates.py`, `counter.py`, `idle_scanner.py`, `config_reloader.py` | counters, idle buckets | pass, tick, reload | not modelled (section 6) |
| topic clusters | `memory/cluster`, `trigger_profile_clustering.py` | cluster, cluster_member | file an episode | `Clusters` |
| reflection | `memory/reflection/orchestrator.py` | deprecation marks in file, index, cluster | select, merge, wait, deprecate | `Consolidation`; the wait, in `OmeEngine` |
| other strategies | `memory/strategies` | none | bodies of OME runs | a body is one step |
| knowledge service | `service/knowledge.py`, the two knowledge handlers | document directories, rows in two stores | create, replace, patch, delete | `Knowledge` |
| markdown store | `core/persistence/markdown` | daily-log files, a lock per path | append, patch the frontmatter | `DailyLog` |
| LanceDB store, root lock | `core/persistence/lancedb`, `locking.py`, `infra/persistence/lancedb` | tables, FTS indexes, version markers, two locks | verify, migrate, ensure, rebuild, upsert | `IndexStore` |
| search, get | `memory/search`, `memory/get` | none | queries | not modelled (section 6) |
| Milvus, llm, embedding, rerank, parsers | `infra/persistence/milvus`, `component` | none | external calls | no state |
| server shell, CLI, TUI | `entrypoints`, `core` | none | wiring | start and stop order only |
| other firmware | `firmware/genesis-mini` | modules, display | hardware I/O | not modelled |
| watchdog, sweep | `tools` | none | reports | not modelled |
| relay, plugins, demos, benchmarks | `memory/deploy`, `use-cases`, `benchmarks` | samples | | not modelled |

What makes each of them hard, and what "correct" means:

- **Cascade.** Three actors feed one queue (a watcher whose events may be lost,
  a scanner whose disk walk and queue read are two moments, commands in other
  processes). A handler reads a file, spends seconds on embeddings and writes
  the index later; the row may have been re-enqueued in between. Correct: a row
  that says *done* is true of the index, no claim is left without a worker, the
  retry budget holds, and the index converges once edits stop.
- **OME.** A run crosses a persistent job store, a coroutine and a record row,
  in separate transactions, with retries slept in memory and recovery after a
  crash running beside the scheduler. Correct: attempts of one task never
  overlap, a settled task stays settled, the run counter that a stop drains is
  exact, and strategies that wait for other runs do not starve them.
- **Intake.** The device gives up on a call that the service still works on;
  buffer and ledger are two tables; the lock is in the process. Correct: what
  was acknowledged is never lost and the cursor passes nothing unsaved.
- **Index maintenance.** Runner and rebuild loop of a table wait for each other
  across awaits, and a deadline on `await task` cancels the task. Correct: the
  two never commit side by side, a stop leaves nothing under way, no table is
  left without pruning, and one that fails for good is reported.
- **Consolidation.** Pipelines, clustering, the cascade and reflection change
  one daily-log file, its index rows and the clusters, each with its own lock
  or none. Correct: no append is lost, and every conversation that was told of
  is told of by some live episode, wherever a step fails.
- **Backfill.** A command that only probes the lock of the engine works beside
  a server that may start at any moment. Correct: no vector of an old text over
  a new one, no event lost, an exit code that tells the truth.
- **Knowledge.** The API finds a document's directory through a row that the
  cascade derives from the directory; a replacement hides the old directory
  where the cascade still sees it. Correct: an acknowledged document stays on
  disk, and the rows of the two stores agree with the files.
- **Index store.** Two processes open an index of an older build at once; a
  marker on disk tells later ones what is done; LanceDB calls may hang. Correct:
  no marker promises more than is done, whoever is up can read and write, and
  one hung call takes no other writer with it.
- **Gates** and **search** have hazards too: see section 6.

## 2. The modules

| module | what it is |
|---|---|
| `MdChangeState` | rows of the queue and every SQL statement that changes them, as operators on a row |
| `Reconciler` | the scanner's decision per path, as a set of decisions |
| `Cascade` | watcher, scanner, worker, commands and crashes over queue, disk and index |
| `Projection` | abstract: what queue rows that are done vouch for |
| `CascadeProperties`, `MCCascade` | properties, the refinement mapping to `Projection`; instances |
| `CascadeProofs` | theorems about `Cascade`, the refinement included |
| `CascadeOptimizer` | runners, rebuild loop, heartbeat and shutdown of index maintenance |
| `OptimizerProperties`, `MCOptimizer` | properties; instance |
| `OptimizerProofs` | theorems about `CascadeOptimizer` |
| `Delivery` | abstract: what the engine promises of one (strategy, event) task |
| `OmeEngine` | jobs, attempts, records, semaphore, recovery, waits, stop |
| `OmeProperties`, `MCOme` | properties, the refinement mapping to `Delivery`; instances |
| `OmeProofs` | theorems about `OmeEngine`, the refinement included |
| `Memorize` | requests under the session lock, over buffer and ledger |
| `DeviceSync` | the device's file, cursor and call in flight |
| `Intake` | both composed over the requests in flight, with other clients and faults |
| `Upload` | abstract: what device and service together promise of the lines |
| `IntakeProperties`, `MCIntake` | properties, the refinement mapping to `Upload`; instances |
| `IntakeProofs` | theorems about `Intake`, the refinement included |
| `DailyLog` | a daily-log file and the two writers of it |
| `Clusters` | the cluster tables and the strategy that files an episode |
| `EpisodeIndex` | the rows of the file's entries, the handler and the direct writes of reflection |
| `Consolidation` | the three composed with the pipelines and the reflection |
| `Journal` | abstract: what a reader of a daily-log file may rely on |
| `ConsolidationProperties`, `MCConsolidation` | properties, the refinement mapping to `Journal`; instance |
| `ConsolidationProofs` | theorems about `Consolidation`, the refinement included |
| `Backfill` | the backfill command, the strategies it replays, a server beside it |
| `BackfillProperties`, `MCBackfill` | properties; instance |
| `BackfillProofs` | theorems about `Backfill` |
| `Knowledge` | one document: directories, rows in both stores, the cascade, the API |
| `KnowledgeProperties`, `MCKnowledge` | properties; instances |
| `KnowledgeProofs` | theorems about `Knowledge` |
| `IndexStore` | processes that open and migrate the index; the write lock of a table |
| `Upserts` | abstract: what those who upsert into a table are promised |
| `IndexStoreProperties`, `MCIndexStore` | properties, the refinement mapping to `Upserts`; instance |
| `IndexStoreProofs` | theorems about `IndexStore`, the refinement included |

An action is one step between two awaits. Names follow the source;
`PROJECT.json` gives for every definition the lines it stands for. Operators
with an underscore, such as `MarkedDone_Unguarded`, are mutants: plausible bugs
that a property is checked to notice. They are used by no specification.

### The abstract specifications

Five small modules say what a component promises to those who cannot see how it
works; the detailed module implements each under a mapping of state functions,
which the run checks as a property and the proofs prove step by step.

| abstract | implemented by | property | mapping |
|---|---|---|---|
| `Projection` | `Cascade` | `Projects` | `file` is `disk`, `view` is `index`, `vouched[p]` the mtime of a done row, 0 for a deletion |
| `Delivery` | `OmeEngine` | `Delivers` | how far a task is, over all its runs |
| `Upload` | `Intake` | `Uploads` | `dated` are the seconds of the lines, 0 for a line without a date; `kept` is buffer and ledger; `Alike` are other clients' messages with an index of a batch |
| `Journal` | `Consolidation` | `Journaled` | `entries` and `replaced` are the file, `excused` is `omitted` |
| `Upserts` | `IndexStore` | `Atomic` | `calling` are the writers that are not idle, `told` those that had an answer |

### Cascade: state and abstraction

`disk[p]` is the version of a file, 0 when absent; a version number stands for
content and mtime together, so two versions differ by more than the scanner's
tolerance of 0.01 s. `row[p]` is the queue row. `index[p]` is the version whose
entries the index shows; `Torn` when the upsert of a new version and the delete
of the old entries were separated. `task[l][p]` is one `_process_one`
coroutine. A *lane* is a batch of `drain_once`: `asyncio.gather` is called
without `return_exceptions`, so when one task raises the others of its batch
run on while the next batch is claimed; two lanes of the daemon model this.

A claim is what the code makes of it: the rows are picked, updated and committed,
and read again by path, in three steps; what is read again is the batch, so a row
that another process claims in between lands in both. `crossed` is a history
variable: the paths that two batches have held at once.

`added` and `modified` are one change, since the code branches on `deleted`
only. Any batch of the right size may be claimed (lsn order is abstracted). The
walk of a sweep is one step, but the walk, the read of the queue and each
upsert are three. A sweep aborted by an `OSError` changes nothing. A stop, a
cancellation and a crash are the same step, `Die`: all three lose what is in
memory. `exists()` and `stat` in the watcher's callback are one step. The kinds
filter and deprecation propagation are left out; the scheduling of index
maintenance after a batch is `Schedule` in `CascadeOptimizer`.

### Index maintenance: state and abstraction

`task[k]` is the runner in a kind's task slot and `rebuild[k]` its rebuild slot,
by who awaits it: the loop, or a runner that fell back to a rebuild of its own.
`loop` is the rebuild loop. A task that ends and the wake-up of the one that
awaits it are one step, because asyncio appends the wake-up to its queue ahead
of any runner that is created later; that order is what keeps the loop from
looking at the slot again, so the model depends on it and `OneMaintainer` is
about it. A deadline is an action that is enabled while the wait lasts, and it
cancels what is awaited, as `asyncio.timeout` does around `await task`; two
deadlines that cannot be reached are excluded (`WaitTimesOut`). Clocks are
flags: `due` (the prune cadence has passed), `retry` (a rebuild's backoff is
over). Any beat may succeed, lose its race, or fail, which includes its own
deadline. Failure counters stop at the threshold they are compared with. The
supervisor's ladder of restarts is left out, since no loop body raises anything
but a cancellation, and so are the prune-staleness clock and `cascade sync`,
whose worker has no loops.

### OME: state and abstraction

A *run* is what one enqueued job leads to; `run[r].pc` goes from `queued`
(a job in the store) through the attempts to `done`, `dead` or `lost`.
`record` holds the rows of `run_record` by run and attempt, with the trimming
of the ring buffer. `active` is `_active_runs`. Time enters twice: `now` orders
`started_at`, and `LateRestart` says whether an engine starts later than
`crash_recovery_timeout_seconds` after the last attempt of its predecessor.
Every route passes its gate. Engine ids are fresh at each start, so restarting
one `OfflineEngine` object is not modelled. A strategy in `Waits` emits an
event and waits for its runs, as reflection does; the wait may time out.
`Die` is a crash, a failed start, or a stop whose drain timed out. The
dead-letter callback and tracing are left out. `emit` checks that the engine
is started before its awaits and enqueues after them; that gap is one step here.

### Intake: state and abstraction

Offsets count lines and a message is a record of session, timestamp, index in
its batch and body; buffer and cells are *sets* of messages, cells being
consecutive slices in timestamp order. `message_id` is the triple of session,
timestamp and index, as `gen_message_id` builds it. The boundary detector may
cut any prefix into one or two cells, or nothing; on a flush it leaves no tail.
Mode is chat: tool rows are dropped, and the user pipeline alone runs. Without
a model the service puts everything back, which is the case of no cut. The
three attempts of the detector are one step that succeeds or fails. The device
writes whole seconds (`agent_runtime.cpp:188`), so a line may have the second of the
dated line before it, and in a later batch its index too: then it has its id, and
the merge drops it. A line of another day or after a start has a new second. A cell
has one episode, that is, one speaking user. A call takes the free slot that
`CHOOSE` names, as slots are alike. `Fails` is any await that raises, and the
`asyncio.timeout` around the lock. A torn cursor is a smaller number.

### Consolidation: state and abstraction

`log` is one daily-log file: its entries, the entry count and the
`deprecated_entries` map of its frontmatter. `task[t]` is a write under way, with
the id it minted and the copy it read, since a writer reads, builds a new text
and replaces the file. `holder` has one lock per *writer instance*, because the
lock objects are attributes of the writer and the pipeline and the reflection
have one each. `row[i]` is an entry's row in the index, `fact[i]` how far the
facts of an entry have come, for the entries in `Watched` (the last one, which
is always one that a reflection could add); `members` and `rows` are the
cluster tables and `filing` the clustering run under the partition lock. `run[r]`
is a cycle with the steps of `ReflectionOrchestrator` in their order: select a
cluster, merge, wait for the facts of the merged episode, deprecate in the file,
the index, the cluster and the report. `omitted` is a history variable: the
memcells that an update was not told of (section 4).

A body is the set of memcells it tells of and the merge that made it. The choice
of clusters by geometry is any that the code could make. Two writers at work on
the file at the same moment are excluded by `MayCollide = FALSE` (see section 4).

### Backfill: state and abstraction

`row[i]` has a text version and, for each vector, the version it was made of, 0
for NULL. `bf` is the command: its phase, place, what it has scanned and what it
will answer. `queue[w]` counts the runs that the engine which is up has yet to end,
by what they do (file a memory, learn from a case): those in the job store, at
work (`filing` after the upsert) and asleep before the next attempt. A stop of the
engine, which an interrupt and a timeout lead to, loses all of them but the rows of
those at work, `orphans`: a job in the store names an engine that is gone, and a
failed attempt is a row that recovery does not look at. `dead` are memories whose
last attempt has raised, `drained` the flag of phase 2. `Poor` are the cases that
clustering leaves out for their quality. The sync of the SKILL.md files is a sweep,
claims and handlers that may fail (`change`, `claims`), and an interrupt leaves its
rows in processing. The OME file lock is `server` or `HoldsLock`: phase 1 only
probes it, so a server may come up behind the probe.
Rows of a broken shape, a missing capability (exit 2), the deletion of a SKILL.md,
the bound of 100 batches of a drain and the invocation of a single phase are left
out.

### Knowledge: state and abstraction

A directory's place is its category and the number of times a backup was made of
its name; `dir[place].inner` is what a backup that was moved *into* an existing
directory contains. `row`, `stored` and `found` are the three rows the cascade
derives. `dirty` are the files whose change is on its way to the queue: whatever
a call changes in a directory is noticed together. `Patient` says that a call
begins when the cascade is done with the one before. The document has one id and
one topic, which stands for all; its title is left out.

### Index store: state and abstraction

`at[p]` is how far a process has come in its start, with the tables and columns
that are left; `root` the lock of the memory root; `mark` the two version
markers; `table` and `idx` what is on disk. A LanceDB call that raises on the way
up ends the process, as a kill does: both are `Dies`. `Init` covers a root
without an index and those that older builds leave. The second half is one
server that is up and the tasks that write one table: `line` is the FIFO of the
`asyncio.Lock`, `hung` the calls that never return, and the deadline may fire at
any moment after a task has asked. A cancelled call has no later effect than
those that `Hang` allows. What two processes commit at once is left to LanceDB;
an operator who runs `cascade rebuild` starts nothing beside it, as the runbook
asks.

## 3. The runs

| run | asks | bounds | result |
|---|---|---|---|
| `cascade_exclusive` | Is a done row true, every claim held, every path in one handler, every retry in budget, `Projection` implemented, through edits, lost events, all commands and a crash? | 1 path, 2 versions, 3 lanes, 1 crash | 1.2 M states up to symmetry, holds |
| `cascade_faults` | Does a done row lie about a path that no two batches have held, when a statement of the worker raises, batches overlap, and `cascade fix --apply` drains beside the daemon? | 2 paths in one batch, 2 processes, 1 fault, until a crossing | @CF@ states up to symmetry, holds |
| `cascade_watched` | Does every path converge? | 1 path, 2 versions, 1 crash, fair worker and scanner | 0.5 M states, holds |
| `optimizer` | Do runner and rebuild loop exclude each other, does a stop leave nothing, do prunes go on, is a failing table reported? | 1 kind, threshold 5 and 3 backoffs as in the code | 24 k states, holds |
| `ome_recovery` | After deaths and restarts, and a call that raises, do attempts overlap, do rows stay RUNNING, is the counter exact? | 2 engines, 2 routes, 3 runs, 1 retry, 2 crashes, 1 fault | 4.0 M states, holds |
| `ome_waits` | Is `Delivery` implemented, and does every task settle, when a waiting strategy holds the only slot? | 1 engine, 1 slot, 3 runs, 1 crash, 1 fault | 0.11 M states, holds |
| `intake` | Is anything acknowledged lost, doubled without a fault, or never uploaded, and is `Upload` implemented? | 2 lines, batches of 2, 2 days, 2 requests, 1 client call, 1 fault | 1.0 M states, holds |
| `consolidation` | Are appends kept, is a conversation ever without a live episode, do deprecations reach the index, is `Journal` implemented? | 3 memcells, 2 pipelines, 1 cluster, 4 entries, 2 merges, 2 attempts, 1 fault | 2.1 M states up to symmetry, holds |
| `backfill` | Is the exit code true, is a memory left out or a skill unindexed in silence, a text taken back? | 2 rows, 2 cases, one of them poor, 1 cluster, 2 commands, 1 server start, 2 faults | 0.68 M states, holds |
| `knowledge` | Is acknowledged content kept, are rows true and without ghosts, are documents findable? | 2 categories, 2 texts, 3 calls, 1 fault | 1.3 M states up to symmetry, holds |
| `index_store` | Are the markers true, can whoever is up read and write, is an upsert atomic (`Upserts`), is a writer stuck behind a hung call? | 2 processes, 2 tables, 3 columns, 4 tasks | 71 k states, holds |
| `find_moved_topic` | Has every topic file a row in the search index? | 2 calls, no fault | violated |

Deadlock checking is off where an instance comes to rest when its bounds are
used up, in the optimizer run because a stopped worker is at rest, and in
`index_store` because a process that is up may have nothing to do.

### Why the bounds are enough

Paths do not interact except through the batch they share, so one path is enough
where nothing raises, and two where a batch does. Paths, and the lanes of one
process, are interchangeable, hence the symmetry of the two safety runs. Two
versions are the first case in which a handler's read is older than the disk.
Lanes: the daemon needs two for overlap and a command one of its own. The code's
12 total and 3 inline retries are scaled to 2 and 1 (in `cascade_faults`, which is
not about them, to 1 and 0); what matters is that a claim may use up more than is
left. `cascade_faults` follows a behaviour until two batches meet on a path
(`Uncrossed`), and lets no command run once a statement of the daemon has raised
(`OneTrouble`): either trouble alone crosses two batches, and `OnlyCrossingsLie`
is proved without these bounds. A waiting strategy and the one it waits for
need two slots; there is one in `ome_waits`, where the wait must time out, and
two in `ome_recovery`, where it may succeed. Three runs are an event, a child
and one run that recovery adds. Kinds share nothing but the order in which the
rebuild loop visits them, so the optimizer run has one; its invariants are
proved for any number. Two lines in a batch of two give a full batch, a batch
with a rest, and a batch whose indices shift after a rewind; two days separate a
retry from its first attempt; two requests put a retry or a flush beside a call
the device has given up on.

Four entries in `consolidation` are three memcells and one merge, so that an
episode arrives before, during and after the reflection of two others, or two
memcells and two merges, of which the second may be an update of the first. One
cycle runs at a time there; the theorems of section 5 are for any number. Two
rows, one with a subject, give the backfill a row with one vector missing and one
with two; an episode does no more than a case whose target is fixed; two commands
are an interrupted one and its repetition, and two faults an interrupt and one
handler or attempt that fails; one server
start falls between any two steps of either. In `index_store` the episode table has one text column and the case
table two, as in the code; a migration may thus stop between tables and between
columns of a table, and two writers with a rebuilder and a pruner are all who
queue for the lock of one table.

Not every bound is free of assumptions. `MayCollide = FALSE`, `Patient = TRUE`
(for `Findable`) and the hypothesis `~spilt` of `NeverLost` are needed: without
each of them TLC finds a counterexample, told in section 4. The last one takes
five calls and `MaxDepth = 2`, more than the run has.

### Properties worth a remark

- `DoneMeansIndexed` relates the row to the index *and* the disk; the row is
  the scanner's licence never to look at the path again. It holds because
  `mark_done` is conditional on the row still being `processing`, because a
  re-enqueue makes it `pending` first, and because recovery runs before the
  worker. It assumes one process at a time (the operator rule of the runbook).
- `TrueUnlessCrossed` is what is left of it when two processes, or two batches of
  one, work at once: a verdict that comes late, a scan that starts over and a
  command beside the daemon do no damage but where two batches hold one path, and
  section 4 says how they come to.
- `Projects` is `DoneMeansIndexed` step by step, and more: no step changes the
  index of a path while a done row vouches for it, the index only shows what
  the file has been, and nothing but an edit, a new verdict, or a reset of the
  queue ends what was vouched for. A rebuild that drops the tables before it
  resets the queue breaks it.
- `Converges` says where every path ends: synced, parked for the user, or, for a
  deleted file whose deletion fails each time, retried for ever. The only other
  end is `Masked`, the finding below.
- `ActiveCounts` is an equality: too low and a stop cuts runs off, too high and
  a stop waits for its deadline.
- `NoGhosts` bounds the RUNNING rows without a coroutine by the number of store
  calls that raised: a crash alone leaves none once a recovering engine is up
  that was started late enough.
- `OneMaintainer` names the owner of each rebuild. Runner and loop each test the
  other's slot once; that the loop may go ahead unchecked after its wait rests
  on the order of wake-ups.
- `PrunesGoOn` holds under cancellations: the runner that a deadline removes
  frees its slot in `finally`, and the heartbeat fills it again.
- `StuckIsReported` is about the two counters of `_KindOptimizerState`: the one
  the fallback resets is not the one behind the alert.
- `Delivers` is the refinement of `Delivery` under the mapping `Reached`: a
  success or a dead letter is final, only a lost task is resumed. A resumed
  `lost` task may be one that had succeeded without recording it; delivery is
  at least once, as the code says.
- `Retained` and `Uploads` say the same of two sides: the device's cursor and
  the 2xx answers never run ahead of what is stored, but for lines that share
  their second with a message that may have their id (section 4); nothing stored
  disappears or comes from nowhere, even when a request dies between its
  transactions. The second rests on the order "cells, then tail" as much as on
  the lock.
- `OnceWithoutFaults` is the part of "exactly once" that is true: without a
  fault a message is in one cell. It needs clients that do not repeat themselves
  (section 5), since what has been carved is not looked at again (section 4).
- `NothingForgotten` is about the order of four stores: the merged episode is
  appended before anything is deprecated, and only members that the cycle has
  fetched and merged are deprecated in the file, whatever joined the cluster or
  left it during the wait. Only what an update was not told of (`omitted`) goes.
- `Journaled` adds the steps to `NothingForgotten`: an entry never changes or
  goes, and at the moment at which a deprecation is written the entry it leads
  to is in the file, is not deprecated itself, and tells of what the old one told.
- `DeprecationsArrive` relates file and index although the handler upserts rows
  without their deprecation and reflection writes the index directly.
- `PrimariesEmbedded` is the exit code of a command, compared with rows that a
  server changed while the command was embedding.
- `EventsKept` is about what "drained" is worth: an engine that stops loses what
  sleeps between two attempts, so a wait that only looked at what is at work would
  report as done what nobody will do. With the flag down, or after an interrupt,
  it promises nothing: section 4.
- `SkillsFindable` needs the sync *before* the scan, which takes a cluster with a
  SKILL.md on disk for done.
- `NoGhosts` and `Truthful` of `Knowledge` are about the hidden backup, which
  the globs of the cascade match: its rows come and go with it.
- `MarkersTrue` is what every later start believes. It holds because the marker
  is written by the holder of the root lock, after the last table and only if
  none failed, so that a migration that is killed or raises starts over.
- `Serves` is about a process that was up before another one migrates: it could
  only miss an index if somebody dropped one with the marker written.
- `Atomic` is about `merge_insert`, which reads the table and writes it back: each
  upsert takes effect at one moment between its call and its answer, or not at
  all, although a caller may be cancelled at its deadline while the call lands.
- `NoWedge` assumes nothing of LanceDB: the deadline covers the look-up of the
  handle and the wait for the lock, as well as the call.

### Fairness

- Cascade: a down daemon is restarted, scanner and worker loops go on, handler
  calls end (their clients and the LanceDB locks carry deadlines). The claim is
  strongly fair: a sweep may take the rows of a pick away again and again, and
  SQLite serves the statement that waits. None for the
  watcher: an inotify queue may overflow and a failed upsert is only logged.
- Index maintenance: the heartbeat schedules every kind, and every await of a
  runner or of the loop ends, by its deadline at the latest. Nobody has to stop
  the worker, and no beat has to succeed.
- OME: some engine is started again, and every await of a run ends: the
  semaphore is FIFO, bodies and waits carry deadlines, backoffs are bounded.
- Intake: the device's loop calls `syncNow` at every interval, the event loop
  runs every handler. Failures are finitely many, which includes the device's
  8 s: where a call *always* takes longer, the upload never advances.
- Index store: the timers of `_locked` fire. Nothing else, since no call of
  LanceDB need return and nobody need start a process.

The other runs check safety only and assume no fairness.

## 4. What the code does otherwise than it says

A run shows, with the quoted line in `PROJECT.json`:

1. `find_moved_topic`: a topic whose digest equals its index row's is skipped,
   although the row names another path (`knowledge_topic.py:101`). A replacement
   makes two paths of one topic, because the globs of the cascade match the
   hidden backup: a topic of the same content is indexed at the backup, skipped
   at the new path, and deleted with the backup. The file is there, its queue
   row is done, and search does not find it, where `docs/knowledge.md:50` calls
   the index derived from the files.

Found while modelling, with TLC or by reading, and without a run of their own:

*Cascade.*

- `change_type` is called a hint (`tables/md_change_state.py:66`), and the worker
  obeys it (`worker.py:796`): a sweep whose walk missed a file that the watcher
  enqueues before the queue is read records a deletion *with the live file's
  mtime* (`reconciler.py:125`). The worker deletes without a look at the file,
  and later sweeps take it as up to date.
- `cascade sync` is "safe to run in parallel with a live everos server"
  (`docs/cascade_runbook.md:128`, and "already race-safe", `:363`). Claims are;
  results are not: neither the index write nor `mark_done`
  (`repos/md_change_state.py:285`) is tied to the claim, so a slow handler of
  the command overwrites the daemon's newer entries under a done row.
- "Each row lands in exactly one batch" (`repos/md_change_state.py:218`), because
  the UPDATE is conditional: but the batch is what the SELECT behind the commit
  returns (`:264`), and it asks for the paths of the pick in whatever status they
  are. With `cascade fix --apply` beside the daemon TLC finds a row in two batches
  after 21 steps, and 26 steps to a done row of which the index shows something
  else. `TrueUnlessCrossed` says that such a path is the only kind that suffers.
- A rebuild that is killed after `reset_all` and before the drop, and a file
  removed then, leave index rows that no queue row leads to, where
  `cascade.py:499` says that "every crash window converges".
- A second server on the same root recovers the claims of the first one
  (`orchestrator.py:177`) before the OME lock refuses it, and a row may then be
  in two handlers.
- `POST /quiesce` drains beside the run loop, then stops it. A batch of the loop
  that is under way is cancelled and its rows stay in `processing`, which
  `pending_after` does not count, while the answer promises a complete
  projection; and `quiesced` is true on a second call too, where the docstring
  (`routes/cascade.py:71`) says false.
- The rebuild loop: a runner parked on a rebuild for 180 s cancels it
  (`worker.py:936`), although the rebuild may take 300 s (`:183`). The
  cancellation ends the loop (`:1258`); the supervisor passes it on (`:545`) and
  the last-resort observer ignores cancelled tasks (`:567`), so nothing is
  logged and no index is rebuilt until the next start.

*OME and intake.*

- `wait_for_event` says that it waits for all runs (`engine.py:881`): FAILED
  counts as terminal (`run_record.py:79`) and a run without a row is not seen
  (`engine.py:906`), so reflection may deprecate before the new facts exist.
- Deduplication of a repeated payload sees the buffer only
  (`_boundary.py:140`, `:447`): what has been carved is stored again, where
  `id_gen.py:5` promises that ids make a repetition harmless.
- The ids of different messages may be the same (`id_gen.py:17`): the device writes
  whole seconds and the index starts at 0 in every batch, so an answer in the
  second of its question, uploaded after it, gets its id. It is dropped as a
  repetition (`_boundary.py:447`) while the 2xx moves the cursor over it: a line is
  lost without any fault, where `id_gen.py:5` speaks of retries of the same payload
  alone. TLC finds a passed line that is not stored in 16 steps.

*Consolidation.*

- The pipeline's and the reflection's `MarkdownWriter` have lock objects of
  their own (`service/memorize.py`, `strategies/reflect_episodes.py:42`), so the
  "lock of the path" does not exclude them. With `MayCollide = TRUE` two entries
  get one id and `AppendsKept` fails. The reflection strategy is off by default.
- An episode that is filed before it is indexed is a member that the cycle does
  not fetch: the model is not told of it and the file is not patched, but every
  target is marked in the index (`reflection/orchestrator.py:855`), and if its row
  has come by then the episode is hidden from every search although no other tells
  of it, and the handler has no reason to correct the row. TLC finds this within
  the bounds of the run and without a fault, for an invariant that a row be
  deprecated only if the file says so; the docstring (`:824`) calls the targets
  "safe to deprecate".
- An update is told of one merged episode, the first (`:638`), and all are
  deprecated. Two cycles that overlap can leave two in a cluster, and a memcell
  of the second is then told of by no live entry; TLC's simulation finds it with
  two reflectors and three merges. `omitted` holds such memcells.
- Two cycles of one owner may also leave the index and the file apart: the first
  patches an episode and raises before it changes the cluster; the second has not
  fetched that episode, marks its row as deprecated by its own merged one, and
  does not patch the file. TLC finds this with two reflectors.
- A row that the cascade creates after the reflection wrote its index step
  (`reflection/orchestrator.py:834`) gets its deprecation from the file; the
  facts of the episode do not, since their file has no `deprecated_entries`
  (`_daily_log_base.py:213` calls the file "the source of truth").
- The clustering run writes back the members it has read, and so puts a member
  back that a reflection has removed meanwhile.

*Backfill.*

- An engine that stops after its wait of 300 s (`_backfill.py:1241`), or at an
  interrupt, loses the runs that are queued or asleep before a retry: their jobs
  name an engine id that never comes back (`engine.py:106`, "no_engine_for_runner"),
  and a FAILED row is not recovered (`crash_recovery.py`). The command goes on to
  phase 3 and ends with 0; the flag `drained` is only logged. The next command
  emits for the memories again, so nothing is lost for good.
- "Running sync unconditionally, before the scan, guarantees those orphans get
  picked up" (`_backfill.py:1523`): not those whose handler fails, which the drain
  swallows (`worker.py:831`), nor those that an interrupt left in `processing`, which
  no sweep enqueues (`reconciler.py:97`) and only a server recovers
  (`orchestrator.py:177`). The scan takes their clusters for done, and the exit code
  is 0.
- Phase 2 is "idempotent" (`_backfill.py:1170`), but a repetition after an
  interrupt may file a memory a second time, into another cluster.
- A row whose text the server changes during phase 1 may end with the vector of
  the old text (`_backfill.py:457` says "concurrent-safe"), until its file
  changes again.
- A subject that cannot be embedded is neither counted nor logged
  (`_backfill.py:677` against `:685` and `_backfill_cmd.py:98`).
- Phase 3 emits events without the body of the case (`_backfill.py:1439`,
  `events.py:126`); phase 1 probes the lock and ends with 3
  (`_backfill.py:829`) where the hint says that it runs beside the server
  (`_backfill_cmd.py:151`); a cluster whose first skill was written before an
  interrupt never gets the skills of its other cases; episodes that a
  reflection took out of their cluster are replayed into one.

*Knowledge.*

- A writer that raises in the middle of a replacement has made a new directory,
  and the restore moves the backup *into* it ("old data preserved on failure"):
  the document's files are then one level too deep for every reader. `NeverLost`
  counts them as kept.
- A replacement backs up the directory that the row leads to, and its writer
  clears the one of the new category (`knowledge.py:618`,
  `knowledge_writer.py:234`). The two may differ: after a replacement that stopped
  before it removed its backup, and an index row that was lost with it, a `PATCH`
  makes the row lead to the backup; the next replacement then clears the
  acknowledged directory without having saved it, and when it fails nothing is
  left. `spilt` remembers such a step, and `NeverLost` holds up to it.
- After a SQLite failure behind a successful index write the digests are equal
  and nothing repairs the SQLite row, `cascade fix` included.
- A `PATCH` before the cascade has made the row writes an empty summary, and a
  `DELETE` without a row answers 0 and leaves the directory. `Findable` needs
  `Patient`. A patch that is interrupted between the move and
  the rewrite of the topics leaves topics that name the old category.
- Two replacements of one document at once are not excluded by anything.

*Index store.*

- "Deadline on every read" (`lancedb/repository.py`): `count_where`,
  `sparse_search`, `dense_search` and `scan` of `backends/lancedb.py:119-229`
  have none, and neither have the steps of a migration, for which another
  process waits 30 minutes before it gives up.
- The write lock of a table is in the process. `cascade.py:143` says that a
  command "interleaves safely" with the server, `repository.py` that two writers
  "lose updates".
- `cascade rebuild` probes the OME lock once, and a server that starts takes it
  only after it has opened the index: it can hold handles of dropped tables.
- Two processes that create a table or an index at once: one of the starts ends
  with an error.

*Gates* (read, not modelled).

- An edit of `ome.toml` between the first load and the start of the watch is
  missed (`config_reloader.py:229`); one invalid field makes the whole file
  skipped (`:248`), `enabled = false` included, though an "emergency-stop must
  never be blocked by a typo in another field" (`:175`); an override that is
  removed is not reset; a recovered run of a disabled strategy is enqueued.
- The pass of a counter is used up although a later gate or the job store
  raises; a cron tick is lost when the scheduler is late or the stored job names
  an engine that is gone.

*Search* (read, not modelled): recall and the fetch of the episodes are two
reads; while a reflection deprecates between them, neither the old episode nor
the merged one may be found.

Smaller ones:

- A restart within `crash_recovery_timeout_seconds` leaves RUNNING rows that no
  later scan of that engine looks at (`crash_recovery.py:50`), where
  `_dispatch/runner.py:15` promises that "crash recovery on next start" takes
  them up. `Delivers` allows it: such a task is lost, and may be resumed.
- The wait of the rebuild loop behind a runner (`worker.py:1228`) is meant to
  skip a sweep "rather than rebuild concurrently with an optimize that is still
  running", and cancels that optimize.
- `wait_idle` (`engine.py:487`) reports idle although an event dispatched after
  the last run has raised the counter again before the waiter runs.
- `fix --apply` leaves exhausted rows: they are `retryable = false`
  (`worker.py:134`) and the reset wants `true` (`md_change_state.py:408`).
- A failing deletion is enqueued again by every sweep (`reconciler.py:123`),
  against the budget that `worker.py:25` states.
- When `mark_done` itself raises, the row stays in `processing` until a restart
  or a new edit (`worker.py:651`, `architecture.md:108`).

## 5. What is proved

For every set of paths, batch size, set of commands, retry bound and number of
crashes (`CascadeProofs`), for every set of kinds, alert threshold and backoff
schedule (`OptimizerProofs`), for every set of commands, tables, columns and
writers (`IndexStoreProofs`), for every set of clients, requests, sessions and
batches, days, lines and faults (`IntakeProofs`), for every finite set of rows,
memories, faults and versions of a text (`BackfillProofs`), for every set of
categories and texts, depth of backups and number of calls and faults
(`KnowledgeProofs`), and for every set of engines and strategies, every routing,
retry budget, number of slots and records, events, runs, crashes and faults
(`OmeProofs`), and for every set of pipelines, reflections, memcells and clusters,
number of attempts and bound on entries, merges and faults
(`ConsolidationProofs`):

| theorem | property | hypotheses |
|---|---|---|
| `RetryBudgetHolds` | `RetryBudget` | none |
| `DoneRowsAreTrue` | `DoneMeansIndexed` | `Exclusive`, `StoreFaults = 0` |
| `HandlersExclude` | `OneHandlerPerPath` | `Exclusive`, `StoreFaults = 0` |
| `ClaimsHaveTasks` | `NoOrphanClaim` | `Exclusive`, `StoreFaults = 0` |
| `OnlyCrossingsLie` | `TrueUnlessCrossed` | `"rebuild" \notin Commands` |
| `MaintenanceExcludes` | `OneMaintainer` | none |
| `StopLeavesNothing` | `StopIsQuiet` | none |
| `MarkersAreTrue` | `MarkersTrue` | none |
| `ServesAlways` | `Serves` | none |
| `CascadeProjects` | `Projects` | `Exclusive`, `StoreFaults = 0` |
| `UpsertsAreAtomic` | `Atomic` | none |
| `IntakeUploads` | `Uploads` | none |
| `MessagesOnce` | `OnceWithoutFaults` | `LinesApart`, `OneCall` |
| `LinesOnce` | the same of the device's lines | `LinesApart` |
| `EpisodesAreWritten` | `EpisodesFollow` | none |
| `AcknowledgedIsStored` | `Retained` | none |
| `ExitZeroIsEarned` | `PrimariesEmbedded` | none |
| `NoTextGoesBack` | `TextsAdvance` | none |
| `NoEventIsLost` | `EventsKept` | none |
| `SkillsAreIndexed` | `SkillsFindable` | none |
| `RowsHaveFiles` | `NoGhosts` of knowledge | none |
| `FoundIsTrue` | `Truthful` | none |
| `DocumentsAreKept` | `NeverLost` | none |
| `DocumentIsFound` | `Findable` | `Patient` |
| `TasksDoNotOverlap` | `OneRunPerTask` | none |
| `CountIsExact` | `ActiveCounts` | none |
| `CrashesLeaveNoGhosts` | `NoGhosts` of the engine | `LateRestart` |
| `EngineDelivers` | `Delivers` | none |
| `AppendsAreKept` | `AppendsKept` | `~MayCollide` |
| `ConsolidationForgetsNothing` | `NothingForgotten` | `~MayCollide` |
| `DeprecationsDoArrive` | `DeprecationsArrive` | `~MayCollide`, `OneCycle` |
| `FileIsAJournal` | `Journaled` | `~MayCollide` |

The type invariants are theorems as well (`TypeCorrect`, `OptimizerTypes`), that of
consolidation under `~MayCollide`; the runs spend their time on those of the
engine, the intake and the knowledge service alone. Two more theorems state what
no run checks by itself: `StoredStays` (no step drops what is stored), with no
hypothesis, and `AcknowledgedRowsAreKept` (`Kept`), which `Atomic` implies.

They rest on the named assumptions `CascadeAssumption`, `OptimizerAssumption`,
`StoreAssumption`, `IntakeAssumption`, `ClientAssumption`, `BackfillAssumption`,
`KnowledgeAssumption`, `NoneAssumption`, `OmeAssumption`, `DailyLogAssumption`,
`ConsolidationAssumption` and those of the modules these extend. The hypotheses
are real: without `Exclusive` the stale handler of `cascade sync` (section 4) is a
counterexample, and with store faults two batches overlap. `OnlyCrossingsLie` has
neither of the two; it is for the commands other than `rebuild`, which takes the
rows away under a handler of another process. `LinesApart` says that no other
client sends the body of a line of the device, and `OneCall` that the other
clients call once, with no body twice; a client that repeats a batch is stored
twice, without any fault (`_boundary.py:140`, section 4), so `MessagesOnce` cannot
do without it, and `LinesOnce` says what is left for the device when others do
repeat themselves. In the run `intake` there is one client call. `LateRestart` excludes the
restart within the recovery timeout (section 4). `OmeAssumption` says that no
strategy is twice among the routes of an event: `registry.py:38` refuses a second
strategy of one name, and an event with one twice would start it twice.
`~MayCollide` keeps the two writer instances of the episode files from
overlapping, which is what section 4 shows the program not to ensure. `OneCycle`
says that an owner has one cycle at a time: a run of the strategy makes one for
each owner, and the next is due a week later, but nothing refuses a second run
that is started by hand; with two, TLC finds the index and the file apart
(section 4).

*The argument for cascade.* `DoneMeansIndexed` is not inductive: a task about to
mark its row done must already have indexed what the row promises. `IInv` adds:

- `MtimesKnown`: no row, notice or sweep holds an mtime from the future;
- `OneWorker`: at most one process is up, only its sweep and its batch are
  live, and a process that rebuilds has no task;
- `ResetIsEmpty`: between `reset_all` and the drop there is no row, so nothing
  can be done falsely;
- `Claims`: a task past its claim either still holds the row in `processing`
  with the claimed content, or the row was re-enqueued and the conditional mark
  will not touch it; and a task about to mark has indexed what it read.

`Claims` and the truth of a done row are said of each path on its own (`Sound(p)`),
and `CInv` asks for them where no two batches have met: it holds of any number of
processes, because each step of a claim, a mark or a sweep keeps `Sound(p)` or puts
`p` into `crossed`, and gives `OnlyCrossingsLie`. `IInv` is `CInv`, one worker, and
`crossed = {}`, which one worker with `OnePhase` (the tasks of a batch are claimed
together) ensures. One lemma per action shows that they are preserved;
`HandlersExclude` and `ClaimsHaveTasks` follow from `IInv`. `RetryBudgetHolds` uses
a smaller one, `BudgetInv`: a task's copy of the count is below the total budget
when it enters and adds at most one claim of inline retries. `CascadeProjects`
follows from `IInv` and from what `DoubtStep` says of the steps of watcher, scanner
and commands: they take vouchers back and never give one. Only a mark gives one
(`VerdictVouches`), of a task that has indexed what it read; only a handler or a
drop changes the index, while a claim or an empty queue vouches for nothing
(`HandlerShows`, from `Claims` and `ResetIsEmpty`).

*The argument for maintenance.* `OneMaintainer` does not say why a runner that
leaves its throttle interval meets no rebuild of the loop. `Aside` does: beside
such a rebuild a runner has not begun or is parked. `StopIsQuiet` is about the
moment after the flush, which waits for the tasks it found; `Quiet` says that
from the cancellation of the loop on nothing else is under way, since nobody
schedules a runner any more and no loop is left to claim a rebuild slot.
`EndKeeps`, `AfterBeatKeeps` and `BeginBeatKeeps` treat the three ways in which
a runner goes on, and the steps cite them.

*The argument for the index store.* Neither `MarkersTrue` nor `Serves` mentions how
far a process has come, so `IInv` says for each place in the start what has been
established there: the tables of `todo` are still to be done and the others are (`Altered`,
`Reindexed`, `Clean`, `Indexed`), and which markers are written (`Marked`). `Held`
makes the migrating process the only one, which is why no marker is written
under the feet of another migration; `Alone` keeps a rebuild to itself. The
proof separates what a step does for its own process (`Sound(p)`) from what it
may not do to the others: `Forward` (markers, nullable columns and new indexes
only ever come true) and `Stays` (tables and indexes do not go away) carry
`Sound(q)` over (`OtherSound`). The step that does violate `Stays`, a dropped
index, happens only while the FTS marker is unwritten, when nobody can be up.
`Kept` is about the lock of a table, whose queue the deadline, a crash and a rebuild
cut short in different places. `Queued` says that the queue holds each task that
wants the lock, once, and nobody else (`Leaving`: who leaves takes nobody's place);
`Turn`, that only its first works and that a call which is not hung would write back
what the table has. A hung call may have landed, but it ends by its deadline only,
and what it has read is then forgotten. `UpsertsAreAtomic` maps each step of a task from
there: what a call writes back is what the table has and its own row, so that
the moment of `Succeed`, or of `Land` for a call that hangs, is the moment of the
write, and the drop of a rebuild meets no call.

*The argument for intake.* A request reads the buffer, spends seconds with the
model and writes the buffer whole, so it must be shown that nobody has added to
it between. `Locked` says that at most one request of a session is past its lock,
and `Holds(r)`, for each place of a request, that what lies in the buffer is in
its hands or already in the ledger: `StoredStays` follows. Each step is
proved for its own request, and the others keep what they have because a step
takes nothing from them (`Keeps`, with the lemma `RequestStep`).
For `Retained` the promise is followed along the wire: `Flying`, the call in
flight brings every dated line of its batch; `Saved`, for what the cursor has passed
there is a message that may have its id. What such a message is needs to know where
things come from: `Sourced` says that whatever is stored, or in the hands of a
request, is a line with its second or another client's message (`NewsStep`: all
that is new in a step is the one or the other). `EpisodesFollow` comes from `Unfailed`: a cell without its
episode has a request at work on it.
For `IntakeUploads`, `UploadStep` sorts the steps into those that write a line, those that move the
cursor and those that store.
`MessagesOnce` and `LinesOnce` are about one body at a time. `Placed(x)` says that it is
in one cell, in the buffer of one session, or in the hands of one request, and in
cell and buffer at once only while the request that carved it moves it; `Whole(x)`,
that it has no twin in a buffer or a request and that the cells that a request has
cut are disjoint; `Nowhere(x)`, that nobody has it. As
long as nothing fails, a body that was not sent is nowhere, and one that was sent
is not sent again (`Ahead`: the batch in flight ends behind the cursor). Each place
of a request has a lemma (`WriteSound`, `InsertSound`, `DetectSound` and so on); none of
them knows who sent the body, so that the two theorems differ in `Single` alone,
the set of bodies of which nobody sends a second copy.

*The argument for the backfill.* `PrimariesEmbedded` is about the moment of the
exit. `Vectors` says before it that, as long as no row has failed, each row that
the command has read has its vector or is still to be written with one; `Counts`
bounds the failures that the exit code is made of. `Events` says of a memory
that phase 2 has seen that it has what it can get (`Good`), that a run for it is in
the queue of an engine which is up for phase 2 (`Due`), or that it is still to be
emitted, as long as the command has waited and not ended badly. It rests on `Alone`:
the lock keeps server and command apart, and without either nothing runs; so that
only the command's own wait ends a run without a result. `Skills` says that behind
the sweep no SKILL.md is without a row, and that a row which is done is in the index.
`TextsAdvance` is an action property of the one lemma `RowsMove`.

*The argument for knowledge.* Three invariants over one set of shapes (`Shapes`:
what a call, a task and a directory hold at each of their places). `Backed` is
about the rows, and holds with any overlap of calls and cascade: whatever a task
has found out is still so or its file is dirty again (`Fresh`), and a row whose
file is gone, or that is no longer true, has a pending file or a task that will
notice. One lemma, `Changes`, says of every step on disk that what it changes is
in the queue; the rest follows for all calls at once. `Aside` is about a writer:
when it clears a directory that its call has backed up there is nothing left to
clear, and what it has written is whole when it acknowledges. With `HasIsKept`
and a lemma per kind of move it gives `NeverLost`. `Tidy` is for a history
without replacement and fault: there is one directory, the category in a file is
that of its place but between two steps of a patch, and a row of another place
has another category, so that no digest is equal by accident (`TidyCompare`).

*The argument for the engine.* A task may have several runs, because recovery
makes a new one for each row that it finds RUNNING. What keeps them apart is the
row: a *claim* is a row that is RUNNING or that a recovery has in hand. `OneClaim`
says that a task has one claim at most, `LiveClaim` that beside a live run it is
the row of that run's own attempt, and not in the hands of a recovery, and
`Final` that beside a run with a result there is no live run, no claim and no
second result. With them `OneRunPerTask` is inductive. The lemma `Kinds` sorts all
actions into eight shapes of step, and each invariant is proved per shape; most
shapes keep the tokens for one reason (`TokensKept`). `Counts` relates the counter
to the set of live runs by cardinality. `Haunts` is `NoGhosts` while a recovery is
under way: the RUNNING rows without a coroutine that its scan has not picked
are no more than the faults. For `Delivers`, `ReachedIs` says that any run of a task
that is live or has a result tells how far the task is, which is what the tokens
are for; each shape of step then maps to an action of `Delivery` or to a stutter.

*The argument for consolidation.* The file is the ground of it: `Alone` says that one
task is between its read and its replacement and that what it has read is the
file, so that every replacement is an append or a patch (`Appends`, `Patches`) and
the file only grows (`Grows`). `NothingForgotten` could fail in one place, the
patch, and holds there because of what a cycle has gathered: `Sound(r)` follows it
from the fetch to the patch (what it deprecates it has fetched, what it has
fetched its merged episode tells of, or `omitted` has it), and `Owned` says that
the merged episode itself cannot be deprecated meanwhile: no cluster, no snapshot
of the clustering and no other cycle knows of it before its own cycle adds it
(`Loose`). That the clustering never files a merged episode is why `Filed` speaks
of the bodies of what is due. The steps that leave the file alone share
`CalmKeeps`, `RestKeeps` and `CycleKeeps`. `DeprecationsArrive` needs a second
invariant beside it: `Handling` (what the handler has read and is about to build is
all that the file has, and no deprecated entry is without a row once there are
rows), `Covered` (what is deprecated of its cluster the cycle has fetched) and
`Agrees` (when the cycle marks the rows, the file says the same of each of its
targets or nothing). `FileIsAJournal` needs the first invariant only: an append
of the model is one of the journal because entry and number agree (`Numbered`), a
patch leads where it must because of `Sound` and `Owned` (`PatchJournals`), and no other
step touches the file (`OutsideUnseen`, `CycleUnseen`).

*Only model-checked.* Liveness under fairness (`Converges`, `PrunesGoOn`,
`StuckIsReported`, `Settles`, `Uploaded`, `NoWedge`) is beyond the prover, as is
everything about ENABLED, and the one violation of section 4 is a run's alone.
Every other property of a passing run is a theorem. That `Cascade` is left with
what `Exclusive` and `StoreFaults = 0` exclude is not for want of a proof: section 4
has the counterexamples.

## 6. Plan

Done: cascade, its index maintenance, the index store, intake, backfill,
knowledge, consolidation and the OME engine, with proofs, and abstract
specifications of cascade, engine, intake, consolidation and the write path of a
table. What would come next:

1. **`Cascade`, more of it**: the `/quiesce` route as an action, a second server
   as a constant.
2. **Abstract specifications** of the knowledge service (a document that is
   replaced at one moment, or not) and of the backfill.

Not modelled, and why:

- *Gates, counters, idle scan, cron, reload*: no strategy uses a counter or an
  idle gate as shipped, and every route passes its gate in `OmeEngine`. What was
  read is in section 4.
- *Search and get*: no state; their one hazard needs the reader beside the whole
  of `Consolidation`, which is beyond TLC at the present bounds.
- *Milvus, index router, model clients, parsers, adapters*: calls of services,
  and conversions.
- *Server shell, CLI, TUI, plugins, benchmarks, relay, watchdog, sweep, the rest
  of the firmware*: wiring, interfaces, samples and hardware I/O, about half of
  the lines of the repository.
- *Inside what is modelled*: a torn append on the SD card,
  agent mode of `memorize`, two replacements of one document, LanceDB's own
  commits.

`MdChangeState`, `Reconciler` and `Cascade` compose by EXTENDS, as do
`DeviceSync`, `Memorize` and `Intake`, and `DailyLog`, `EpisodeIndex` and
`Consolidation`, which takes `Clusters` by INSTANCE; the abstract specifications
are met by INSTANCE in the modules of properties; `CascadeOptimizer` shares nothing
with `Cascade` but the moment at
which a batch schedules it. `Backfill`, `Knowledge` and `IndexStore` stand alone.
No module declares a recursive operator.
