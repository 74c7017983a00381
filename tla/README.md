# DevLake, modelled in TLA+

Specifications of the parts of this repository whose correctness depends on the
order of steps: which modules model which code, what TLC checks, what TLAPS
proves, and what is left out. Paths below are under `src/backend/`.

## The system

DevLake collects data from tools (Jira, GitHub, ...) with *pipelines*. A pipeline
has a *plan*: rows of tasks, the tasks of a row run in parallel, the rows one
after the other. Pipelines are created by users or by *blueprints* on a cron
schedule, wait in the database, and are run by one server process.

| part | state | operations | hard behaviour | what makes it correct |
|---|---|---|---|---|
| pipeline queue (`server/services/pipeline.go`, `pipeline_helper.go`) | tables `_devlake_pipelines`, `_devlake_tasks`, labels; `cronLocker`; a semaphore; `runningParallelLabels` | create, cancel, rerun, the dequeuing loop, restart | selection and marking are two steps, handlers in between; no transactions; crashes | labels exclude, the limit holds, one run per pipeline, statuses follow their life cycle, nothing waits for ever |
| pipeline runner (`pipeline_runner.go`, `core/runner/run_pipeline.go`) | a goroutine per pipeline: rows, last error | run a row, join it, compute and save the status | cancellations and errors in a row, database errors between rows | rows in order, COMPLETED is earned, the status is computed when all is done |
| tasks (`task.go`, `task_runner.go`, `core/runner/run_task.go`) | the registry `runningTasks`, a context per task | register, run, cancel, remove | a cancellation before registration; a task started twice | a task runs once; a cancelled task ends the run |
| worker scheduler, async client, collectors (`helpers/pluginhelper/api`) | a pool of workers, a wait group, errors, a rate ticker; the raw table | submit, next page, retry, wait | submission from inside a worker, errors recorded late, retries, cancellation | nil means that every page is stored, once; nothing is left behind; `Execute` returns |
| GraphQL client and collector | remaining rate, a condition variable, a lock held over retries; raw and tool table | query, renew the rate, fetch the next page, extract | lost wake-ups, errors of queries, goroutines that share a batch | nil means collected and extracted; waiters are woken |
| batch saving | slots, index and count per record type | add, flush, close | the limit, equal keys, callers without a lock | the table has the records added and no outdated ones |
| stateful collector and extractor | `LatestSuccessStart`, `TimeAfter`, raw and tool table | list, details, save the state, extract | failure between any two steps, records that change meanwhile | what the state promises is in the raw table; unfinished records get finished |
| migrator (`core/migration`) | script history, executed, pending | load, register, execute | errors and crashes between a script and its record, overlapping executions | in order, not again |
| start of the server (`server/services/init.go`, `locking.go`, `server/api/api.go`) | the lock, the gate of the API, the services | lock, migrate, confirm, start the services | two processes, confirmations, crashes anywhere | one process migrates, one loop runs pipelines, the server gets ready |
| blueprints and cron, projects | blueprints, cron managers and their jobs | save, reload, enable | concurrent reloads, a cron that is replaced | a job for each enabled blueprint |
| instance lock, temporal worker, notification, push API, Python plugins, data sources, web interface, dashboards | | | | see `PROJECT.json` |

The parts interact through the database (a pipeline's status is the queue), through
`cronLocker` (create, cancel, rerun and the selection exclude each other, the
update that follows the selection does not), and through the registry of tasks
(cancellation of what runs). A task calls a plugin, which uses the collectors;
for the pipeline a plugin is something that returns nil or an error, or panics.
The collectors stand on the scheduler, which runs their requests, and leave
their pages in raw tables; extractors turn these into the tool layer through the
batches; the state manager decides from the last success whether the next
collection may be incremental. The start of the server hands the database over to
the services: the cron of blueprints, and the loop of the pipeline service.

## Modules

| module | what it is |
|---|---|
| `PipelineService` | the pipeline queue, the runner and the tasks, in standalone mode |
| `LabelLocks` | the abstract specification of `parallel/` labels and the limit |
| `PipelineServiceProofs`, `PipelineTaskProofs` | theorems about `PipelineService`: the queue and runs, tasks |
| `ParallelLabels` | the slice `runningParallelLabels`, one element at a time |
| `WorkerScheduler` | the pool, `SubmitBlocking`, `NextTick`, `WaitAsync` and the errors |
| `ApiCollector` | `ApiCollector.Execute` and `DoAsync` on top of `WorkerScheduler`: inputs, four kinds of paging, retries |
| `GraphqlAsyncClient` | queries under a lock and a rate limit, its renewal, `NextTick`, `Wait` |
| `BatchSave` | a batch and the divider that makes it |
| `GraphqlCollector` | `GraphqlCollector.Execute`, which composes the two |
| `CollectorState` | many runs of the collector for finalizable entities and of its extractor, with the saved state |
| `Migrator` | the scripts and their history |
| `BlueprintCron` | blueprints, cron managers, `ReloadBlueprints` |
| `Server` | the start of the server, confirmations and handlers of blueprints: composes the two |
| `ParallelLabelsProofs` | theorems about `ParallelLabels` |
| `ApiCollectorProofs` | theorems about `ApiCollector`: the wait group, pages |
| `GraphqlCollectorProofs` | theorems about `GraphqlCollector`: the wait group, pages, batch and tool table |
| `ServerProofs`, `ServerCronProofs` | theorems about `Server`: migrations, blueprints |
| `CollectorStateProofs` | theorems about `CollectorState` |
| `MC...` | values of the constants for TLC |

### PipelineService

| variable | code |
|---|---|
| `pstatus`, `plabels`, `began` | `status`, the `parallel/` labels and `began_at # NULL` of a pipeline's rows |
| `tasks` | `status` of the rows of `_devlake_tasks`; a task is (pipeline, row, column, attempt), and a higher attempt has a higher id |
| `cron` | the handler that holds `cronLocker`, with what it loaded |
| `dq`, `sema`, `held` | `RunPipelineInQueue`: its place, its permits, `runningParallelLabels` |
| `pc`, `on`, `frame` | a goroutine of `runPipeline`: place, pipeline, locals |
| `jobs` | the goroutines of `RunTasksStandalone`, with context and result |
| `registry` | `runningTasks` |

Actions are named after the functions: `CreateDbPipeline`, `CancelPipeline` (then
`CancelSavePipeline`, `CancelSaveTasks`, or `CancelOneTask` for each),
`RerunPipeline` and `RerunMark`; `DequeueAcquire/Select/Mark/Start`;
`RunLoad/Row/Join/RowsDone/Compute/Save/Release`; `TaskStart/Refused/End`. Failures
are actions or disjuncts too: `RunDbError` and the disjuncts with `DbError` (an
error of a statement), `Crash` (the process ends and is started again, which runs
`pipelineServiceInit`), `DequeuePanics` and `RunPanics` (panics that nothing
recovers).

Steps that are merged, and why nothing is lost:

- `CreateDbPipeline` is one step. It holds `cronLocker` throughout, and the only
  readers of waiting pipelines, the loop's query and the other handlers, need the
  lock too. An error in the middle is the same step with a prefix of the inserts;
  a crash in the middle is that outcome followed by `Crash`. The same holds for the
  part of `RerunPipeline` before its last statement: nothing else touches the tasks
  of a pipeline that has ended, and the loop does not select it.
- `runningTasks.Add` and the update to RUNNING (`TaskStart`): a cancellation
  between the two cancels a context the plugin has not seen yet; the same
  happens when it comes just after. The final update of the task, and `Remove`
  (`TaskEnd`): a cancellation in between cancels a context nobody reads any more.
- `RunLoad` is three reads. The one writer in between is `CancelPipeline`, whose
  two updates are separate actions: what the reads can see is what one of the
  moments between the updates shows.
- The labels are given up and then the permit is returned (`RunRelease`): the
  loop can look at neither while it lacks the permit.
- The query reads `runningParallelLabels` without its lock, in many steps. Where
  `ParallelLabels` shows that no label is missed (`ReadIsExact`: there are two labels at most,
  or the limit is two at most; `LabelsStillExclude`), the query is given the labels held.
  Otherwise, while labels are being removed, it is given any part of them
  (`LabelsRead`).

Data left out: `message`, `spent_seconds`, `stage`, `finished_tasks`,
`total_tasks`, logs, notifications. `finished_at is null` (which tasks
`CancelPipeline` cancels) is abstracted to "not completed": the additional ones
are not registered, and `CancelTask` skips them.

### ParallelLabels

The loop reads the slice under `cronLocker`, while `utils.SliceRemove`, called under
`runningParallelLabelLock`, moves its elements in place. The module has the
array under the slice, the header that the reader copied, the reader's index and
the remover's indices. The reader is the loop, which is also the only one to append,
so an append never meets a read; it excludes removals by the lock.

### WorkerScheduler and ApiCollector

| variable | code |
|---|---|
| `waitGroup`, `workerErrors`, `canceled` | the fields of the scheduler, the kind of each error, its context |
| `unrecorded` | errors of tasks between their deferred `Done` and the pool's panic handler |
| `pool` | each worker: idle, a task that begins, one that waits for a tick or for the answer (`armed`), one that submits from inside (`blocked`) |
| `ticks` | goroutines of `NextTick`: the pages they still submit |
| `mode`, `iterates`, `asked`, `todo` | which paging `exec` chooses; `Input`, and what the iterator has left |
| `main`, `chains` | the place of `Execute`, and of the loop of `fetchPagesUndetermined` |
| `rows` | rows of the raw table |

A task is a request: `TaskBegins` is its look at `HasError`, `TaskIsCanceled`,
`RequestFails` (with `Retry` or for good), `RequestIgnored`, `HandlerFails` and
`HandlerStores` what may come of it. The goroutine of a subtask and those of
`NextTick` submit in two steps (`MainChecks`, `MainSubmits`; `TickChecks`,
`TickSubmits`), the look at `HasError` with `Add`, and the worker's start.
Request, insertion and the call of `NextTick` are one step of the worker, because
they touch no state that others change but the error list, which the task has
looked at before, and `NextTick`'s `Add` comes before the task's `Done` in the code
too. `HandlerFails` is a failure before the insertion or, where the handler then asks for the
number of pages or for the next page's data, one after it. A look at the error list without its lock is a look before or after the
append: the slice only grows.

### GraphqlAsyncClient, BatchSave and GraphqlCollector

A goroutine `f` (0 is the subtask's) is (`at[f]`) waiting for the
lock, looking at the rate, between the look and the wait (`drowsy`), waiting, in the
loop of retries, charging the rate, storing the row, parsing it, adding its results
(`left[f]`) to the batch one by one (two steps,
`AddSlot` up to the assignment and `AddCount` from the increment on), and in the
handler. `Results[k]` is what the parser makes of the answer for page k, any number of
records, and `Final` has the pages for which it returns `ErrFinishCollect`: no page that
follows is asked for. A page is answered once, so this stands for an answer with errors
too if the parser can deal with them (`tolerant`, for `ResponseParserWithDataErrors`);
without such a parser an answer with errors fails (`QueryRefused`). A client that was given no
`getRateRemaining` (`renews` is FALSE) has the rate 0, and its queries wait for ever; the
one caller in the repository (`plugins/github_graphql/impl/impl.go:166`) gives it. `updateRateRemaining` takes no lock: `RenewRate` comes at any moment, and
`Charge` writes back what `QueryAnswers` has read. `RenewPanics` and `BatchPanics` are
panics that nothing recovers and end the process. `typed`, `slots`, `current` and
`index` are `d.batches[type]` and the fields of the batch, `table` is the tool table
as far as it is of this collection. `ForType` deletes the outdated rows, and the first
record calls it: a collection whose pages have no record at all leaves what an earlier
run has extracted, though it deleted the raw rows, and returns nil
(`NilMeansExtracted` says so). In an incremental collection `Begin` is
`ExtractExistRawData`, which runs before any other goroutine exists.

### CollectorState

| variable | code |
|---|---|
| `state` | the row of `_devlake_collector_latest_state`: `LatestSuccessStart`, `TimeAfter` |
| `raw`, `last`, `tool` | the versions of each record in the raw table, the one in the row with the highest id, the one in the tool layer |
| `run` | the manager and its two collectors, then the extractor: place, arguments, pages to read, answers not yet inserted, cursor |
| `clock`, `born`, `closed` | the data source, which is external |
| `torn`, `run.due`, `run.missed` | history the properties need, no action depends on it |

`Begin` is the construction of the manager and of both collectors up to the first
request; `FetchPage` the answer for a page of the list with `ResponseParser`, and
`StorePage` its insertion, in any order between fetchers: of a record that moves from one
page to another the older version may come last; `FetchDetail` a record of the
cursor; `SaveState` the end of `Execute`; `Extract`/`ExtractFails` the extractor. How pages
are fetched at the same time and retried is `ApiCollector`. An extraction is one
step since the tool layer is not read before the next run; its failures are any
part of its rows. Two runs on one scope at a time are left out: a blueprint has
one pipeline pending, and its tasks have different scopes.

### Migrator, BlueprintCron and Server

| variable | code |
|---|---|
| `history`, `executed`, `pending` | `_devlake_migration_history`, the fields of the migrator |
| `migrating`, `starting` | each goroutine in `ExecuteMigration`: in `Execute` with the rest of its range; between the new cron manager and `RunPipelineInQueue` |
| `crons`, `reloading` | cron managers so far, the last one is `cronManager`; calls of `ReloadBlueprints` |
| `enabled`, `version` | the blueprints in the database, and how often each was changed |
| `process`, `loaded` | server processes: off, waiting for the lock, in `Init`, serving; what `NewMigrator` has read |
| `consumers` | how often `RunPipelineInQueue` was started in this process |
| `unsynced`, `stale`, `overlapping` | history and assumptions of the properties |

What is in memory is that of the process with the lock: nobody else gets further
than the lock. `LockDb` is the lock with what follows it in `Init` up to the choice,
all of it local to the process. The lock's two seconds may pass whenever
somebody else holds it (`LockTimeout`). `ReloadBlueprints` is its query, the removal of
the entries, the stop, an `AddJob` each, and the start; the cron's own lock makes each
of these atomic. `AddJob` does not fail in the model: it parses the cron expression with the
parser that `blueprint.go:146` has used before either of the two writers saved it, and
`PatchProject` leaves it alone. (An expression that somebody writes into the table by hand
would leave the cron stopped, with a part of its jobs.) `ResetPipelines` writes what `PipelineService!Restart` does to the
statuses, which is why the statuses are not here.

## Runs

| run | expected | question |
|---|---|---|
| `pipeline_queue` | pass | Do labels, limit and ownership of RUNNING hold with three goroutines, two permits, overlapping labels, reruns and a crash? Is `QueueInv` kept, and `LabelLocks` implemented? |
| `pipeline_rows` | pass | Are rows in order, over reruns and a crash, is each cell run once, is COMPLETED earned, is everything that waits or runs eventually settled? |
| `pipeline_cancel` | pass | Does a cancelled task end the run, whatever else fails? |
| `pipeline_errors` | pass | Do partial creations, partial reruns and errors in a run break single runs or the life cycle, and is one pipeline of a blueprint pending at a time as long as nothing of it is rerun? |
| `labels_two` | pass | Is the unlocked read of the labels harmless while two are held? |
| `cancel_sticks` | violation | Does a cancelled pipeline stay cancelled? |
| `collect` | pass | When `Execute` returns, is all of it over, is nil only returned with every page stored, none of them twice, and does it return? |
| `wait_loses_error` | violation | Does `WaitAsync` report a task that failed? |
| `graphql` | pass | The same for GraphQL, with the rate limit, and with the records that pages leave in the tool table |
| `graphql_lost_query` | violation | Does `Query` report a query that failed for good? |
| `collector_state` | pass | Is what the saved state promises in the raw table, are unfinished records read again, and is a closed record closed in the end? |
| `server` | pass | Are migrations in order and not repeated, is there one loop, do all enabled blueprints get their jobs, and does the server get ready? |

The violations are disagreements between the code and what its comments or
messages say; `PROJECT.json` quotes them. In short: the loop selects a pipeline
under the lock and marks it after, so a cancellation in between is undone
(`cancel_sticks`). Cancelled and rerun at that moment, a pipeline is run twice at
a time, and the first to finish finds the other's task running, gives up and
leaves the pipeline RUNNING: `ComputedOnTime` fails as soon as `Ops` has both
"cancel" and "rerun". The `Done` of a task that fails comes before its error is recorded, so
`WaitAsync` may return nil (`wait_loses_error`). The error of a GraphQL query is
assigned to an inner variable, and a query that failed at every retry is an
empty answer (`graphql_lost_query`).

More of what the models show, each by changing one line of a configuration:

- a database error in `RunPipeline` leaves tasks waiting and none failed, which is
  COMPLETED without SkipOnFail, against `pipeline_runner.go:148`;
- an old attempt of a task can be rerun while the newer one waits, and both
  run (`ReplacedIsSettled` with "rerunTask" in `Ops` and three attempts);
- `SkipOnFail` swallows a cancellation, and the later rows run (`CancelEndsRun` with
  `SkipOnFail = {1}`);
- with three labels in the slice the unlocked read can miss one, and with three permits
  two pipelines that share it then run together (`SharedLabelsExclude` with three labels);
- an iterator that fails ends `Execute` with requests under way, which insert rows
  later (`FetchFails`; `NothingLeftBehind` of `ApiCollector` with "fetch error" as a return);
- a cancellation between `NextTick` and its goroutine leaves the wait group of the GraphQL
  client above zero, and `Execute` never returns (`CollectionEnds` without `canceled`);
  several inputs with pages share a batch without a lock (`NilMeansExtracted` without
  `OneAtATime`, and `BatchIsDistinct` too with the records r1 and r2 on the first page of
  input 1 and r2 on the second);
- two goroutines run one task after a cancellation, a rerun and a cancellation
  (against `task_runner.go:49`);
- pages in sequence with as many inputs as workers deadlock, which the comment of
  `SubmitBlocking` warns of: `CollectionEnds` has a premise for it (drop the
  premise). The premise is not about the code: it names the inputs for
  which it ends;
- a refresh that fails after it deleted the rows is followed by an incremental run
  that does not collect them again, and a list read by several fetchers misses a
  record when another one is created (`RawIsComplete` without `~torn`). The plugins
  that use this collector read with a concurrency of 10;
- overlapping confirmations start the services twice (`OneConsumer` without
  `overlapping`); a process that waited for the lock repeats scripts and then
  fails at their records until it is restarted (`NotAgain` without `stale`);
  services that fail to start after the last script leave the API open and no
  loop (`Stuck`);
- a job of a blueprint that was disabled or changed by `PatchProject` stays in the
  cron until the next reload (`ScheduleMatches` without `unsynced`); with more than
  one page of blueprints the oldest are not scheduled at all (`FirstPage`).

Most of these are hazards of `PROJECT.json` that no property covers, each with a note
there: the code has them, so a property that forbade them would be false, and the
properties that are checked have premises that leave them out.

`BlueprintExclusive` is about pipelines that were not rerun, without cancellations: `RerunPipeline`
does not look at the blueprint, and the race above brings a cancelled pipeline
back after its blueprint got a new one.

Bounds, and why they are enough. Two pipelines show every interference between
runs, and four are needed for the chain of labels 1-2-3 with one pipeline that
has none and overtakes. Two permits and three goroutines let a third run be started
wrongly. A plan of two rows with two tasks in the first has each case of the join;
`MaxAttempts` is two, and with it the number
of reruns is finite. `MaxFaults` counts crashes and database errors. The runs that
combine all operations are too large (over 15 million states), so each takes the
operations its question is about: labels and statuses do not depend on errors in
other statements than those of `pipeline_errors`, and the
theorems below hold for all operations at once. `CHECK_DEADLOCK FALSE` is in every
configuration since the requests are bounded: when nothing waits the loop rests, and
a collection, a scope or a server has nothing more to do.

- `collect`: three workers are enough for one that submits from inside, one that
  retries and one that fails; an input of three pages has a first, a middle and a
  last one in each kind of paging, a second input shows what one does to the
  other, and two chains of pages per input overtake one another. `MaxTicks`
  bounds the goroutines that wait at a time, and four are enough for all that these
  inputs cause. Two faults: what fails twice is a request with one retry.
- `graphql`: an input has a page without records, one that has a record twice, one with
  that record and another, which ends the paging, and one behind it; a second
  input has one page. A batch of two slots is empty, half full and full. The server
  grants one query at a time (`MaxRate`), so the rate runs out between any two of them.
  `MaxTicks` as before.
- `collector_state`: two records on pages of one are enough for a list that shifts
  under two fetchers; three times tell before, at and after the last success and
  `TimeAfter`. Runs are not bounded, failing ones are.
- `server`: two scripts, any of them executed before; two processes; two handlers
  that confirm or change blueprints with the main goroutine; two changes of two
  blueprints of which one fits on the page; one error or crash.

Where cancellations are allowed `SingleRun` and `RunningIsOwned` do not hold, because
of the race above, and are not claimed: `pipeline_cancel` checks what survives it,
and `QueueInv` is proved for all operations.

Fairness (`FairSpec`): handlers, the loop and goroutines go on (weak fairness); plugins
return, which is an assumption about them. The selection competes for `cronLocker`
with handlers, and is strongly fair because a `sync.Mutex` hands itself over to
a waiter that starves for a millisecond. Requests, crashes and errors are not fair.
In `collect` and `graphql` every goroutine goes on and every request has an answer,
which the client's timeout provides. The renewal of the rate grants something
again and again, as the server's periods end; who was woken by a renewal gets to
its look at the rate before it is used up again at some time, because renewals are
minutes apart: this is strong fairness of a look that finds something. In
`collector_state` runs are started again and those that do not fail end: the
blueprint's schedule. In `server` processes are started again, goroutines go on, and somebody
confirms while that is asked for.

## Proofs

Each theorem is about every value of the constants: any number of pipelines, plans,
labels, permits, workers, inputs, pages, scripts, processes and blueprints. Its
assumptions are those the modules name (`CountsAssumption`, `RequestAssumption`, ...),
which TLC evaluates in every run, and those written in the theorem. An inductive
invariant is checked by TLC before it is proved.

### The queue (`PipelineServiceProofs`), for all operations

- `TypeCorrect`: `Spec => []TypeOK`.
- `QueueCorrect`: `Spec => []QueueInv`, the inductive invariant. Neither mutual
  exclusion of labels nor the limit is inductive. What makes them so: where the read of
  the labels is exact (`ReadIsExact`, two labels or two permits at most), the labels of
  whoever runs are in `held` (`LabelsHeld`), and the pipeline the loop has in hand wants
  none of the held ones (`ChosenIsFree`), and stays so because only the loop adds
  labels; both are rows of the database, so that their labels are
  fixed (`RowsExist`, with the lemma `RowsAreKept`); and semaphore, live goroutines and the
  loop's own permit add up to the limit (`PermitsAccounted`). Note that
  `ChosenIsFree` is not disturbed by a cancellation of the pipeline in hand.
- `LabelsExclude`, which assumes `ReadIsExact`, and `ParallelIsBounded`, which does not,
  follow from it. From three labels and three permits on the exclusion is false of the
  code, as `ParallelLabels` shows.
- `LabelLocksImplemented`: under `ReadIsExact` the service implements `LabelLocks`. `QueueSteps` sorts the
  steps into start, release, restart and quiet ones; each maps to `Start`, `Finish`,
  `Restart` or a stutter.

### Runs of a pipeline (`PipelineServiceProofs`)

`RunInv` adds three parts to `TypeOK` and `QueueInv`. `OwnInv`: a pipeline has one goroutine at
most (`SingleRun`), and while it has one, or the loop is about to start it, its status
is a running one (`BusyIsRunning`); the pipeline the loop has chosen has nobody and waits
(`HandIsIdle`, `HandIsWaiting`); one that is being rerun has ended (`RerunHasEnded`).
`FrameInv`: the tasks in the frame of a goroutine are of its pipeline, and it never saves
RUNNING. `JobsInv`: the jobs of a goroutine are those of the row it waits for, one a task
(`JobsPlaced`, `JobsDistinct`), with results that fit (`DoneWell`). From it:

| theorem | property | assumes |
|---|---|---|
| `RunOnce` | `SingleRun` | `NoRevival` |
| `RowsOneByOne` | `RowBarrier` | `NoRevival` |
| `CancelStops` | `CancelEndsRun` | `NoRevival`, `SkipOnFail = {}` |
| `LifecycleKept` | `StatusLifecycle` | `NoCancel` |
| `BlueprintRunsOnce` | `BlueprintExclusive` | `NoCancel` |

`NoCancel` says that `Ops` has no "cancel", and `NoRevival` that it has not both "cancel" and
one of "rerun" and "rerunTask": together they start a pipeline twice (see
`cancel_sticks`). All other operations and faults may be there. `SkipOnFail` swallows
a cancellation, as said above, hence the premise of `CancelStops`.

### Tasks of a pipeline (`PipelineTaskProofs`)

`TaskInv` relates tables and goroutines: the table has tasks of the plan's rows only
(`RowsOfPlan`); an attempt that has a later one is settled (`ReplacedIsSettled`); the task of a
job is RUNNING exactly as long as the job and its entry in the registry are there
(`JobsState`); what the frame still has to run waits (`ToRunState`, `RunsState`); the rows
before the current one are completed (`EarlierRowsCompleted`); and a pipeline with a running
task has a goroutine (`PipelineIsOwned`). It gives `RunningHasOwner`,
`ReplacedStaysSettled`, `EarlierRowsFirst`, `ComputesOnTime` and `CompletionIsEarned`, all
of them under `PlainOps`: nothing but reruns of whole pipelines and crashes. That premise is what the code can keep:

- with "cancel" added, TLC finds each of the five properties violated;
- with "dbError" added, all but `ReplacedIsSettled`;
- with "rerunTask" added, `EarlierRowsCompleted`, and with a fourth attempt `ReplacedIsSettled`
  also: a run that fails in an earlier row leaves the replacement of a task in a later one
  waiting, and the old attempt may be rerun beside it.

### The labels as a slice (`ParallelLabelsProofs`)

The loop reads `runningParallelLabels` without the lock while `SliceRemove` moves its
elements. `AtMostTwo` is the premise of both theorems: there are two labels at most, or
the limit is two at most. With three labels and three permits TLC finds
`SharedLabelsExclude` violated, so the premise cannot go.

- `SliceMatches` (`SliceIsHeld`): unless a removal is under way, the slice has the labels of
  what runs, each of them once. While one is, what it has moved and what it has still to
  look at are the removed labels and those held (`RemovalIsSound`).
- `LabelsStillExclude` (`SharedLabelsExclude`): no two pipelines with a common label run.
  The inductive invariant `LabelInv` needs that each held label was seen by the reader or
  is ahead of it (`NothingMissed`). A removal disturbs that only when it writes an element
  over one that is held. If there are two labels, only the second element of two ever
  moves, over the first, which is removed, and it stays at the second place as well
  (`Overwritten`); if the limit is two, the loop has one permit and the pipeline whose labels
  are removed the other, so nothing is held (`PermitsAccounted`).

### The collector (`ApiCollectorProofs`), for all kinds of paging

- `TypeCorrect`, and `WaitGroupCounts` (`Counted`): the wait group is the number of busy
  workers, of errors not yet recorded, of goroutines of `NextTick` and of chains. The
  proof has a lemma for each way a step moves one unit from one of the four to another.
- `NothingIsLeftBehind`: when `Execute` has returned nobody is at work, since the wait
  returns at zero only.
- `StoredAtMostOnce` and `NilMeansAllStored`, from `PagesInv`; the second is about a nil
  with no error recorded or still to be recorded, since nil alone does not say that
  nothing failed (`wait_loses_error`), and about inputs without an ignored response. A page is due where the
  request stands that it will come with, itself or through the requests that follow it.
  `OnePlaceEach`: each page is due at one place at most (the iterator, the subtask, a
  worker, a goroutine of `NextTick`), or in the raw table. `NoneLost`: a page that is wanted
  is at one of them unless there is an error. The four kinds of paging differ in which
  pages a request brings (`Brings`), and the lemmas about it are what the steps need.

### The GraphQL collector (`GraphqlCollectorProofs`)

`Steps` sorts all steps into a few classes by what they do to goroutines, pages and the
batch: moves within a query, its answer, the insertion of the row, a page that is given
up, a record that is added, the end of an input, the page that follows, and the steps of
`Execute`. Each class keeps `CoreInv`:

- `CountInv`: the wait group is no less than the queries under way and the goroutines of
  `NextTick` together (`Running`). It may be more, since a goroutine that a cancellation
  ends keeps its count; then `Execute` does not return, which is no safety property.
- `ChainInv`: an input has one goroutine at most, the raw table has the pages before
  its page once and no later one (`RowsUpTo`), and an input nobody fetches is complete unless
  something was `Lost`. This count above the goroutines is one of the ways to lose.

It gives `NothingIsLeftBehind` and `NilMeansAllCollected`, whatever fails and whoever
cancels. For what the pages leave in the tool table goroutines share a batch without a
lock, and the theorems have the premise of their properties, `OneAtATime`; with it at most
one goroutine is under way (`Sole`). `BatchInv`: the valid slots have records, no two of
them the same, and the index is what is in them, or one more between the two steps of
`Add`. It gives `NoDuplicateInBatch`. `TableInv`: table and index together are the records
of the rows that were added, with what an incremental collection has extracted again; it
gives `NilMeansAllExtracted`, since `Close` writes what the index has. The records that a
goroutine has still to add are not there yet (`left`); with them the table and the index
are complete.

### The start of the server (`ServerProofs`, `ServerCronProofs`)

`ExecutionInv` is about migrations. Whoever waits for the lock, has it, or executes, has
a view of the history that is old at most: a prefix of it (`Views`); if it was not old when
the lock was taken it is exact (`Fresh`). Without a process that has the lock nobody is
at work (`Resting`), and a goroutine does one thing after the other (`Turns`). If
confirmations do not overlap there is one executor, its range is what is pending, and
nothing is pending when the services start (`Alone`). It gives `AppliedInOrder`,
`NotAppliedAgain` and `StartedOnce`, under the premises that the properties themselves
have (`stale`, `overlapping`).
`CronInv` is about blueprints. `KeptInv`: there is a cron for each consumer, and the last
one has a job for each blueprint that was there all the time, or a reload still brings it.
`AloneInv`: a reload that nothing disturbed has its cron to itself, and this has the jobs
that were added so far. `SyncInv`: after it the last cron is right until something is
changed. It gives `NobodyForgotten` and `JobsMatch`.

### The stateful collector (`CollectorStateProofs`)

`CompleteInv`: while the list is read, a record that it wants and that is not in the raw
table is on a page still ahead of a fetcher, unless it was missed (`ListInv`); what was
due when the list ended is there, or missed (`DetailsInv`); and the raw table has what the
saved state promises (`RawIsComplete`, which is `PromiseKept`), as long as no refresh was
broken off and no record moved under several fetchers (`~torn`). An answer that waits
for its insertion counts as ahead of its fetcher. `FreshInv`: a record of the
tool layer that was closed before the run began is in the cursor still, or was read closed
(`DetailsRefreshed`). `TypeCorrect` as before.

### Only model-checked

- Liveness (`EventuallySettled`, `CollectionEnds`, `EventuallyFinal`, `EventuallyReady`): fairness and
  ENABLED are out of the prover's reach. So are the three violations, which are
  behaviours and not theorems.
- What the theorems leave out by a premise: the runs of `PipelineService` with those
  operations that the premise names are checked as far as the properties hold there
  (`pipeline_cancel`, `pipeline_errors`).

## Not modelled

- The temporal mode: workflows run by a server outside of the repository.
- Subtasks inside a task and its progress channel, notifications: they change no
  status. What can go wrong there is listed under the hazards.
- The calculation of the rate and of the number of workers, `MinTickInterval`, HTTP
  itself: the pace of requests only.
- Panics while a URL or a query is built, which are mistakes of a plugin, and
  `InputStep` greater than one, which puts more into a query.
- The making and merging of plans and the firing of the cron, whose effect is
  `CreateDbPipeline`.
- In `CollectorState`, APIs that filter by the creation date: they need no early
  stop. Collections whose entity has no final state have no second collector.
- A database connection that is lost with the lock while the process lives.
- Convertors and enrichers, which are the loop of the extractor over other tables;
  and everything else that `PROJECT.json` lists as `not_modelled`, with the reason.

## Plan

1. (done) `PipelineService`, `LabelLocks`, `ParallelLabels`; the queue's theorems.
2. (done) `WorkerScheduler`, `ApiCollector`; `GraphqlAsyncClient`, `BatchSave`,
   `GraphqlCollector`; `CollectorState`; `Migrator`, `BlueprintCron`, `Server`.
3. (done) Proofs: each safety invariant and each action property of the passing runs is
   stated by a theorem, and so is the refinement of `LabelLocks`.
4. Proofs left: the task properties that survive "dbError" or "rerunTask" (see above), under
   those premises; the statuses that `ResetPipelines` writes, as a refinement of
   `PipelineService!Restart`.
5. Left for another time: the progress channel with its registry, plan merging against a
   reference definition.
