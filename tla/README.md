# Verification of Nowcast-in-a-Box

TLA+ specifications of Nowcast-in-a-Box (NiB), the TLC configurations that check
them on small instances, and TLAPS proofs that hold for every instance. Paths are
relative to the repository.

NiB is a local service. A Go **Handler** (`handler/`) admits packages from a
browser, runs their stages (ingestion, models, diagnostics) as Docker Compose
projects, and serves the runs. The containers are Python (`ingestion/`,
`containers/models`, `adapters/`, `diagnostics/`) and share nothing but the
directory of the run. `nib_verify` (`diagnostics/verification`) scores forecasts
with a runner, a store and a review server of its own; the Handler never calls
that server.

## Inventory

| component | state | operations | what is hard | what makes it correct |
|---|---|---|---|---|
| Handler execution (`jobs.go`, `recovery.go`, `diagnostics_retry.go`, `lifecycle.go: requestShutdown`) | `jobs` under `jobsMu`; `stopping`; `executionMu`; `recoveryMu`; `runs/<id>/job.json`, `compose-*.yaml`, `logs/diagnostics-*/status.json`, `manifest.json`; Docker projects | create, poll, execute a job or a batch, retry diagnostics, reconcile, stop, restart | three locks, stale snapshots, containers that outlive the process, failing writes | one execution at a time, also across a crash; one run per key; final outcomes; a quiet stop |
| Handler lifecycle (`lifecycle.go`, `singleton*.go`, `run.go`, `process_*.go`) | `lifecycle.lock`, `running.lock`, two listeners, `session.json` | serve, start, restart, stop, force stop, uninstall | two launches, a stop racing an exit or a replacement, deaths that leave a session behind | one Handler, and the record names it; a stop that succeeds leaves nobody |
| Resource preparation (`resources.go`, `images.go`) | `preparingResources` and the snapshot under `resourcesMu`, weights, `.partial` files | prepare, refresh, copy a weight | a goroutine beside requests, copies that fail or are killed | a weight appears whole or not at all; what is shown as ready is |
| Settings, configuration, package admission | files | parse, validate | sequential | rejects what it should |
| Run listing, diagnostics viewer | none of their own | read | reads beside writers | shows what is on record |
| Run directory, diagnostics container (`utils/stored_fields.py`, `diagnostics/__main__.py`, `handler/diagnostics_server.py`) | arrays, `manifest.json`, outputs of attempts | create a run, add a forecast, draw, score, report | containers killed between files, a manifest held from the start, several attempts | what is registered is whole; a report has its request's attempts; nothing on record goes away |
| Verification runner (`runner/executor.py`, `runner/lock.py`, `store/db.py`) | pid file, SQLite `task` and quantity tables | acquire, run tasks, commit, release | stale lock, two passes inside `acquire`, crash between commit and "done" | a live pass keeps the others out; what is recorded is complete, also when two passes work at once |
| Verification server (`server/jobs.py`, `server/app.py`) | job registry, progress lines, cache of aggregates | submit, poll, prune, query | fields read without the lock, lines cut under a cursor, a stale cache | a page sees each line once and stops with a result; an answer is of its time |
| Verification config library (`server/library.py`, `config/schema.py`, config commands of `cli.py`) | one JSON file per config, one `.tmp` path | create, overwrite, edit roster and metrics, retire, delete | read, check and write without a lock; one spare path; deletion under a running pass | rows are of the ruler in place; what was measured is never renamed |
| Verification core (`core/planner.py`, `core/regrid.py`, `core/quantities.py`, `core/metrics.py`) | none | pure | horizons, rosters, holes, windows | what is planned is run; a hole is never a number |
| Verification access (`access/`) | none shared | list, serve, check | gaps and errors across HTTP, times off the cadence | a remote provider answers as a local one; what is listed is served |
| Verification catalog (`catalog/`) | none | discover, match | optional keys, overlapping roots | page and planner judge a pair alike; an offered pair fits its ruler |
| Verification queries and reports (`query/`, `report/`) | none | translate, sum, draw | plans wider than the rows | an answer has every row once; a gap is shown as one |
| Ingestion (`ingestion/`) | files of one container | list, check, read a window | windows across days, duplicates, holes | a window reads as it is listed |
| Models, weights (`containers/models`, `adapters/*/model*`, `utils/weights.py`) | weights, the run directory | fetch, predict, register | failed downloads, few frames | a model runs on the pinned weights |
| Data adapters (`adapters/`, `interfaces/`, `utils/paths.py`) | archives they read, one output store | validate, find files, crop, write | several generations, segments, late arrivals | what is loaded is what was asked for |
| Demo, visualization, launchers, scripts | files | generate, render | sequential | -- |

`PROJECT.json` lists every component with its sources, what is left out, and every
hazard at its line, with the properties that would notice it.

## What is modelled

| module | what it is |
|---|---|
| `Execution` | the Handler's execution resource, all of it |
| `SerialExecution` | the abstract promise: executions begin one at a time, each once |
| `Execution_proofs` | type correctness of `Execution`; its inductive invariant and what follows from it |
| `ExecutionRecords_proofs` | what `job.json` and the run directories come to say; that `Execution` implements `SerialExecution` |
| `RunLock` | the pid file of the verification root, with the processes that die holding it |
| `Verification` | passes over tasks under `RunLock`, the store they commit to, the config they work for |
| `Verification_proofs` | the lock's invariants; that passes use it as specified; completeness of a pass |
| `ConfigLibrary` | one config's file and its spare file, requests, commands, passes and rows |
| `JobRegistry` | the server's jobs, their threads, and the pages that poll them |
| `AggregateCache` | the server's memory of aggregations beside the store's files |
| `StoredRun` | the directory of a run as ingestion, models and diagnostics fill it |
| `StoredRun_proofs` | what is registered is whole, reports are exact, nothing on record is lost |
| `Catalog`, `Planning` | manifests, pairs, rulers; run configs, the plan, the tasks that are run |
| `Algorithms_proofs` | the laws of catalog, plan, queries, access service, common grid and adapters for all inputs |
| `Queries` | filters, sums, meshes, charts |
| `Scores` | wire format, common grid, additive quantities, metrics |
| `Providers` | four providers, the HTTP service and client, the checklist |
| `Adapters`, `ZarrOutput` | requests, the files read for them, the output store |
| `Samples` | sample windows, a model's frames, weights |
| `Lifecycle` | one Handler per installation: commands, locks, listeners, session file |
| `Resources` | the preparation of a selection: snapshot, goroutine, weights |
| `ConfigLibrary_proofs`, `Server_proofs` | the config file, its edits and rows; what a page sees of a job, how current a cached answer is |
| `Handler_proofs` | one Handler per installation; the weights it shows |
| `MC_Execution`, `MC_Verification`, `MC_ConfigLibrary`, `MC_Services`, `MC_Files`, `MC_Algorithms` and their `.cfg` files | small instances for TLC |
| `MC_Access`, `MC_Adapters`, `MC_ZarrOutput`, `MC_Samples` | the small inputs of the sequential modules, used by `MC_Algorithms` |

Operators whose name ends in `Slip` are plausible mistakes in the definition they
precede; no specification uses them. They serve to see that each property is
violated when the code is wrong in that way (`mutants` in `PROJECT.json`).

### `Execution`

Three parts of the state survive differently. *Memory* (`mem` = `s.jobs`,
`stopping`, the owners of the locks, the goroutines' positions) is lost by
`Restart`. *The runs directory* (`disk` = the status in `job.json`, `composed` =
which `compose-<stage>.yaml` exist, `opStatus`/`opInstance`/`opRun` =
`status.json`, `report` = the report entries of `manifest.json`) and *Docker*
(`live`, `liveOp` = projects with a container that is neither exited nor dead;
`cli`, `cliOp` = `compose up` commands whose container does not exist yet) are
not. Only the goroutine that owns `executionMu` has a position in a job, so the
position (`sample`, `step`, `lapsed`, `completed`, `current`) is one set of
variables.

| code | actions |
|---|---|
| `reconcileExecutions` | `ReconcileBegins` (lock `recoveryMu`, snapshot the running jobs, release `jobsMu`), then `Quiet`, `SomethingListed` (list projects, ask Docker) in the step that ends it |
| `handleCreateJob` | `CreateReconciles`; `CreateBlocked`, `CreateUnverified`, `CreateCleared`; then under `jobsMu` `AdmissionRefused`, `AdmissionRecalled` (a key of an earlier process), `AdmissionQueued`, `AdmissionStranded` (`package.zip` cannot be written) |
| `handleJob` | `Poll` |
| `executeJob`, `executeBatchJob` | `JobLocks`, `HolderReconciles`, `JobRefused`, `JobCleared`, `StageAnnounced`, `StageLaunched`, `StageUnlaunched`, `StageReturns`, `JobReports`, `JobDiagnoses`, `JobUnprepared`, `JobConcludes`, `Releases` |
| `executeDiagnostics` | `DiagnosticsReturn` |
| `handleRetryDiagnostics` | `RetryLocks`, `HolderReconciles`, `RequestRefused`, `RequestCleared`, `RetryDeclined`, `RetryDiagnoses`, `DiagnosticsReturn`, `Releases` |
| `requestShutdown` | `StopLocks`, `HolderReconciles`, `RequestRefused`, `RequestCleared`, `StopDecides`, `Releases` |
| the process ends, `NewServer` | `Restart` |
| Docker and the diagnostics container (external) | `StageStarts`, `StageExits`, `DiagnosticsStart`, `DiagnosticsRegister`, `DiagnosticsExit` |

Abstractions:

- The package and the key of a run never change, so they are chosen in `Init`.
- Reconciliation is two steps: the snapshot, and the listing together with
  `docker ps`. While the owner of `executionMu` reconciles, nobody can launch
  anything between those two; while a create does, an answer that comes out
  differently starts no container, since its job reconciles again.
- Docker's created, running, paused and restarting states are all `live`.
- The errors a stage can meet before its docker command are one outcome
  (`StageUnlaunched`); those after it are another (`StageReturns`).
- `MayHoldForecast` allows a retry on every run that launched a model, more than
  the registered forecasts would.
- `JobRefused` and `RequestRefused` need no live project: the listing itself, a
  `status.json` or Docker may be unreadable.
- One retry and one stop stand for all: a second one finds `executionMu` taken
  (`TryLock`) and is answered 409 without effect.
- The invalid-start record of a CMA radar batch, which skips a window without
  launching anything, is the failed-window path of `StageOutcome`.
- An unfinished `docker` command of a killed Handler is gone, unless
  `OrphanedCLI` lets it create its container later.

Bounds: `MaxInstance` (restarts), `MaxSamples` and `MaxModels` (stages of a
package). Faults are switches, each named after the write or process it concerns:
`JobWriteFaults`, `OpWriteFaults`, `OrphanedCLI`.

### `RunLock`

| code (`runner/lock.py`) | actions |
|---|---|
| `acquire` | `Enters`; `Creates` (`O_CREAT`, `O_EXCL`: to `write`, or to `read` if a file is there); `Refused` (its pid is alive); `FindsStale`; `UnlinksStale` (the loop's second turn is its last); `Writes` |
| `release` | `Releases` |
| the operating system | `ProcessStarts`, `ProcessDies` |

`file` is the file at the path, named by the pass that created it, and `text` is
the pid in it. Another pass may unlink a file that is still open; then what its
creator writes goes nowhere, as on POSIX. `PidOf` may give two processes that do
not live together one pid. Nothing in the code keeps two passes from being inside
`acquire` at once, and nothing in the model does: one may then unlink the file the
other has just created and not filled, and both hold the lock (`takeover`). Two
history variables record such meetings: `met`, the passes that were inside
`acquire` together with one that still is, and `taken`, the passes at work whose
file was unlinked by one they met, or by the release of one whose own file was
taken. What the lock promises is stated with them (`ExclusiveUnlessTaken`): two
holders at once only where a file was taken, and a pass that comes when another
already holds the lock never takes its file. Left out: an error that is not about the file's
existence (a full disk, a path that cannot be unlinked), and Windows, where an
open file cannot be unlinked.

### `Verification`

| code | actions |
|---|---|
| `ConfigLibrary.create`, `delete`; `Store.delete_group` | `ConfigCreated`; `ConfigDeleted`, then `GroupPurged` |
| `add_metrics`, `save` | `MetricsDrafted` (read, append), `MetricsChecked` or `MetricsUnwritten` (compare with the file), `MetricsWritten` |
| `start_run`, `cmd_run` | `RunAsked` (read the config, `busy`), `RunStarts` (`submit`) |
| `SingleInstanceLock` | `RunLocks`, `RunEnds` |
| `run_tasks` | `TaskSkipped`, `TaskBegins`, `TaskDone`, `TaskUnavailable`, `TaskFails`, `PassRecorded` |
| `_run_one` | `TaskCommits` |
| a process is killed | `Dies` |

Each action of the runner ends with a commit of the store or an operation on a
file, so whatever others do falls between actions. `config` and `want[c]` are the
quantities a config asks for: the rows of its families, levels and windows.
`Covers` is `covers_quantities`, which counts the rows of a task.

Abstractions: one config, since the tables are keyed by it and only the lock is
shared; the tasks of a pass come in any order, a superset of the plan's; a pass
reads no field, it just succeeds, is unavailable or fails (what one task makes of
two fields is `Scores!RunOne`, of a provider's answer `Providers!Task`); a
deletion whose rows are still there is not followed by a second one; `submit` and
the beginning of `acquire` are one step (a request in between finds the server
idle, as one before it would); an error of the store itself ends the pass
(`RunEnds` at any point). Statistics, observation gaps and the contents of
`run_record` are left out. `purged`, `undone` and `touched` are history: the passes
under which the rows were deleted, the tasks a pass could not do, and those behind
it that another pass at work has written to since. Since two passes may work at
once, what a recorded pass leaves is stated with them (`PassIsComplete`): every row
of every task that was done is there, whoever else was at work, and the state of
the task is the one it gave unless it was touched. That is what `lock.py:3` expects
of two executors, that they "would double-count nothing" but "the task table would
flip between states". `MaxChanges` bounds how often the config file is written or
deleted. How a config is written is `ConfigLibrary`, where a pass is one commit;
here a pass is task by task and a config is written at once.

### `ConfigLibrary`

| code | actions |
|---|---|
| `POST /api/configs` (`create`) | `CreateAsked`; with `overwrite` over a file `OverwriteAsked`, which goes through `save` |
| roster, retire and metrics requests | `EditAsked`: read the file, then `WithMember`, `Retired` or `WithMetric` of what was read |
| `save` | `SaveAccepts`, `SaveDeclines`: a second read, `Allows` |
| `_write` | `SpareOpened` (truncates `<id>.json.tmp`), `Filled`, `Renamed`, `RenameFails` (another writer has renamed it) |
| `DELETE` | `DeleteAsked` (unlink), `Purged` (`delete_group`) |
| a pass of the config | `PassAsked`, `PassCommits` (rows of the ruler it read) |
| `nib_verify config create --force`, `roster add`, `roster retire` | `ToolAsked`, `PathOpened`, `Filled`: in place, without the spare file |
| the server is killed | `Dies` |

A file is missing, torn, or holds a config; a writer keeps its handle when another
renames the file under it. Nothing in the server orders requests, so each promise
of the library is stated with the use it rests on, the value of `mode`: `serial`
(a request or pass at a time, kills anywhere), `overwrite` (with overwriting
creations), `edits` (retirements, new metrics and passes that overlap), `tools`
(commands among the requests) and `free` (anything at any time; no run has it,
since no promise is left then but the types). `PurgeFaults` lets a deletion die
between the file and the rows, which leaves rows of a ruler that a later config of
that name need not have; the run excludes it.

### `JobRegistry`, `AggregateCache`

| code (`server/jobs.py`, `server/app.py`, `static/app.js`) | actions |
|---|---|
| `start_run` | `FoundIdle` (`busy`), `Submitted` (`submit` with `_prune_locked` and the new thread) |
| `runner` | `LockTaken`, `WorkReports` (`report`), `WorkReturns`, `WorkRaises`, `SaysDone`, `SaysFailed`, `SaysWhy`, `Ends` |
| `GET /api/jobs/{id}`, `view`, `watchRun` | `Watches`, `AsksState`, `AsksInVain`, `ReadsLines`, `ReadsCursor`, `ReadsResult` |
| `_aggregate` | `RequestOpens`, `Stamped`, `Looked`, `Touched`, `TouchFails`, `Built`, `Trimmed` |
| commits, the last close of the store | `RowsCommitted`, `SameSizeCommitted`, `StoreClosed` |

A view takes no lock: its fields are read one after another while the thread goes
on. Lines are numbers, so a job keeps how many it reported and how many of those
it cut. The content of the store is a version number; the sizes of its two files
are the stamp the cache is kept under. `grows` says whether the files grow with
every commit. Where they do not (a forced pass that replaces rows by rows of the
same size, or a log that is written over), a stale answer is possible, so
`AnswerIsCurrent` is claimed for files that grow.

### `Lifecycle`

| code (`run.go`, `lifecycle.go`, `singleton.go`) | actions |
|---|---|
| `Main`, `singletonLock("lifecycle")` | `Invoked`, `TakesLifecycle`, `GivesUp`, `CommandEnds` |
| `discoverSession`, `ensureSingleton`, `prepareStartAddress` | `ReadsSession`, `FindsNobody`, `FindsTrouble`, `FindsHandler`, `PreparesAddress`, `GoesWithout` |
| `stopRecordedInstance`, `removeSession`, `requestShutdown` | `AsksRecorded`, `Posts`, `SeesExit`, `DropsSession`, `RemovesSession`, `BorrowsRunning`, `WaitsTooLong` |
| `stopUnidentified` | `Identifies`, `Terminates`, `Outlasts`, `Kills` |
| `uninstallInstance` | `Empties`, after the steps of a stop |
| `serve` | `TakesRunning`, `ListensApi`, `ListensReview`, `SavesSession`, `Registers`; `Works`, `Signalled`, `ServeFails`, `ShutsApi`, `ShutsReview`; the deferred `WithdrawsSession`, `UnrecordsSession`, `ClosesListeners`, `ReleasesRunning` |
| the computer (external) | `CommandDies`, `OtherListens`, `OtherCloses`, `CacheCleared` |

A command and the Handler it becomes are one process; the kernel takes back the
locks and listeners of a process that dies (`Unheld`), its session file stays.
Reading the session and removing it are two steps, as are the look for the
listener of a port and the signal's effect. A probe of a Handler may fail, whose
answer takes longer than two seconds; a Handler with work (`busy`) refuses a stop.
What a launch compares (its own binary with the recorded one, whether the recorded
config file is there) may come out either way. Deadlines are choices: a waiting
step may give up at any time while what it waits for has not come. The macOS
branches, where launchd keeps the process, and the session files of releases
before the singleton are left out; registering the URL scheme only succeeds or
fails. `cleared` is a history variable: the user has emptied the cache directory,
which is where the session is, so that nothing names the Handler that runs.

### `Resources`

| code (`resources.go`, `images.go`) | actions |
|---|---|
| `handlePrepareResources` | `Prepares` |
| `RefreshResources` (after the start, after a pull) | `Refreshes` |
| `prepareExecution` | `Inspects`, `Inspected`, `WeightEmbedded`, `WeightChecked`, `WeightThere`, `WeightFails`, `Settles` |
| `copyWeight` | `CopyOpens`, `CopyReads`, `CopyEnds`, `CopyPlaces`, and `CopyFails` at every step |
| the Handler dies, the next one starts | `HandlerRestarts` |
| Docker, the user (external) | `ImageChanges`, `DockerChanges`, `SourceChanges` |

`resourcesMu` makes each request one step; the goroutine works without it and takes
it to update an item. A weight file is pinned or other (which includes no file),
and a copy is a part, then pinned or wrong: it reads its source in two steps, so
that a source which changes meanwhile gives a wrong one. Weights that are in place
are not changed by anybody else. The counts of bytes, and the group of the
diagnostics image, which is one item set at once, are left out.

### `StoredRun`

| code | actions |
|---|---|
| the Handler (external here; `Execution` has it in full) | `StageStarts`, `BatchPublished` (the parent manifest of a batch), `DiagnosticsStart`, `Killed`, `HandlerDies` |
| `create_run`, `write_cube`, `add_forecast` | `StageDeclines`, `CubeOpened`, `CubeFilled`, `CubeFails`, `RunCreated`, `ForecastAdded` |
| `diagnostics/__main__.py` `main`, `_batch_main`, `write_report` | `RequestRead`, `RequestDeclined`, `OutputMade`, `OutputWritten`, `AttemptEnds`, `AttemptFails`, `ReportWritten` |
| `diagnostics_server.py` | `Shown`: the record the result page chooses |

A container may be killed between any two operations on files. A manifest is
written beside itself and renamed, so it is never torn; an array is. The parent
manifest of a batch is read once, at the start of `_batch_main`, and written at
the end, while the attempts write to the manifests of their windows.

### Sequential components

These keep no state: they are operators, and their properties compare two
computations of the code that must agree, or a result with what the request
describes.

| module | code | what is checked |
|---|---|---|
| `Catalog` | `packages.discover`, `runs.discover`, `ruler_defaults`, `check_pair`, the pairs of `catalog_payload`, `_validate_against_catalog` | `TakenOnce`, `SameScale`, `FillingKeeps` |
| `Planning` | `RunConfig`, `leads_within_horizon`, `plan`, `_coverage`, `planned_runs`, `runs_for`, `run_tasks`' choice of tasks, `available_leads` | `PairFitsRuler`, `ExecutesThePlan`, `CoverageIsExact`, `OfferedIsPlanned` |
| `Queries` | `_filters_from_query`, `_translate`, `_build_where`, `sum_rows`, `query_scores`, `task_axes`, `mesh_for`, `from_query`, `chart_panels`, `_runs`, `_x_ticks` | `AnswersTheQuestion`, `ShowsThePlan`, `ShowsTheAnswer` |
| `Scores` | `encode_field`, `decode_field`, `target_coords`, `regrid`, `align_pair`, the families of `quantities.py`, `box_sum`, `_run_one`, the scores of `metrics.py` | `HolesStay`, `FamiliesAgree` |
| `Providers` | `SyntheticAccess`, `ReplayAccess`, `RunAccess`; the service `mockfeed.py` and the client `http.py`; `check_provider`; `run_tasks`' treatment of an answer | `RemoteAgrees`, `ListedIsServed`, `CheckerDecides`, `NotesObservation` |
| `Adapters` | `request_from_mapping`, `validate_request`, `resolve_data_dir`, the file selection and crops of Himawari, FY-4B, GK2A, MTG, CMA radar, SEVIR and the mlcast stores | `LoadsTheRequest`, `ArrivalsKeep`, `WindowIsIts` |
| `ZarrOutput` | `zarr_options_from_config`, `build_satellite_dataset`, `write_satellite_zarr`, `write_cma_zarr` | `StoresTheBundle` |
| `Samples` | listing, check and read of SEVIR and radar windows; `_latest` and the lead times of the adapters' models; `ensure_weights` | `SevirAgrees`, `CmaAgrees`, `RunsOnThePin` |

Abstractions of these modules:

- A value a document may leave out is a set of at most one element; names, units,
  profiles, shapes and paths are model values.
- Times are small integers: hours of which `Day` = 2 make a day (`Queries`), ticks
  of half a minute (`Adapters`, `DayTicks` = 20), cadences (`Samples`, days of
  four). Windows have 3 + 2 frames instead of 6 + 20, and six hours are 6 units of
  a day of 20 (`Planning`).
- Numbers are integers and interpolation is exact on the inputs chosen, so
  rounding errors are out. A fraction is a pair, NaN the empty set.
- What a pixel decodes to, the layout of a chart, the text of a message, and
  projected coordinate systems are left out.

### Properties

| property | hazard it is about |
|---|---|
| `OneExecution` | two executions with container work, e.g. over containers a crash left behind |
| `ExecutionsAreSerial` | refinement of `SerialExecution`: also no execution resumed or started twice |
| `StopIsQuiet` | a stop accepted between a create's reconciliation and its admission, or over a queued job |
| `KeyNamesOneRun` | a key retried after a restart |
| `PackageActiveOnce` | two creates of one package |
| `RecordAgrees` | a poll that writes "interrupted" over a run just admitted |
| `OutcomeIsFinal` | a recorded outcome rewritten by a later process, poll or request |
| `SucceededIsComplete` | a batch that went on past a failure and still says succeeded |
| `ReportIsOwn` | a later operation that adopts an earlier attempt's report |
| `QueuedJobEnds` | a job that waits for ever, or whose goroutine returns without an outcome |
| `ExclusiveUnlessTaken` | two passes on one store, over a file a dead process left, or where the later one did not meet the earlier in `acquire` |
| `LockIsExclusive` | the same without the exception, as `lock.py:19` has it; it fails |
| `RefusedOnlyByHolder` | a dead process that blocks the next run; a run that gives up without having met another |
| `FileInv` | a pid file that names a process which does not hold the lock, when passes race inside `acquire` |
| `PassIsComplete` | a pass that skips a task which a crash, a failure, an older config, a deletion or another pass at work left incomplete |
| `HandlerIsRecorded` | an exit, a stop or an uninstall that removes the session file of the Handler that came after; two Handlers at once |
| `StoppedIsSilent` | a stop that reports success over a Handler that is slow, starting or not on record |
| `WeightsAreShown` | a half or wrong copy at a weight's path after a failure, a kill or a changing source; an item that stays "preparing", or is "ready" over another file |
| `FileIsWhole` | a writer that dies between opening, filling and renaming |
| `RulerKept`, `RowsUnderRuler` | a check of one file and a write over another; deletions, re-creations and passes that outlive them |
| `EditsKept` | an overwriting creation that drops a metric; an edit that changes what stored rows were computed with |
| `LinesInOrder` | lines cut away under a page's cursor, between two reads of one view |
| `DoneHasResult` | a state published before the result a page reads |
| `PageStops` | a page that polls a job which never ends, or which was pruned |
| `AnswerIsCurrent` | a value kept under a stamp that is newer or older than what it was built from |
| `RegisteredIsWhole` | a manifest that names an array or an output a killed container left torn |
| `ReportIsExact` | an attempt counted twice, or under another request, or lost from a report |
| `RecordStays` | a manifest held from the start and written over later records |
| `PairsFitRuler` | a pair the page offers and the planner rejects, or the other way round; a step or unit that differs from the ruler's without a warning, since it is looked up in two places |
| `PlanIsExecuted` | a plan, an offer and an execution that each judge horizon, roster and cadence |
| `AnswerIsTheSelection`, `ViewsShowAnswer` | a row in two records or in none; a failed run that disappears from an axis; a line over a gap |
| `HoleStaysHole`, `ScoresAgree` | a missing point scored as a number; families that count different points |
| `RemoteIsDirect`, `ListedIsServed`, `ChecklistDecides` | an error taken for an empty archive; a listed time that is refused; a faulty provider that conforms |
| `LoadFits` | a file of another time, channel or generation; a late file that changes another time's field |
| `OutputFits` | a store that says it is complete and is not; one replaced that nobody asked to replace |
| `FilesAgree` | a run or package found twice, or not at all, under roots that overlap; a window that lists but does not read, or reads other frames; a weight that is not the pinned one |

## Runs

| run | instance | shows |
|---|---|---|
| `admission` | 2 jobs, a package without and one with a model, 1 key, 2 creates, 1 restart | `KeyNamesOneRun`, `PackageActiveOnce`, `RecordAgrees`, `OutcomeIsFinal` |
| `serial` | 2 jobs, 1 operation, 1 restart, failing `job.json` writes | `OneExecution`, `StopIsQuiet` |
| `reports` | a batch of two windows with diagnostics, 2 operations, 1 restart | `ExecutionsAreSerial`, `SucceededIsComplete`, `ReportIsOwn` |
| `progress` | 2 jobs, 1 operation, fairness | `QueuedJobEnds` |
| `job_fault` | `JobWriteFaults` | `PackageActiveOnce` is violated |
| `passes` | a server thread and a command, inside `acquire` and at work together at will, 2 tasks, 2 quantities, 2 changes of the config: its creation, then an edit or the deletion | `RefusedOnlyByHolder`, `PassIsComplete` |
| `files` | passes: two server threads and a command inside `acquire` at will; lifecycle: 3 commands of `start`, `restart`, `stop -force`, `uninstall` at one address; resources: a model with a weight file and one without, selections of 2 | `FileInv`, `ExclusiveUnlessTaken`, `HandlerIsRecorded`, `StoppedIsSilent`, `WeightsAreShown` |
| `takeover` | two threads of one server | `LockIsExclusive` is violated |
| `configs` | 2 requests, 2 rulers, 2 names, 2 variables, 2 metrics, 2 days, modes without `free` | `FileIsWhole`, `RowsUnderRuler`, `RulerKept`, `EditsKept` |
| `services` | jobs: 2 requests, 2 jobs of 2 lines, a page, `MAX_LINES` = 1, `MAX_JOBS` = 0; cache: 2 threads, 2 queries, 1 entry, 2 commits; run: 1 model, 2 windows, 2 diagnostics requests | `LinesInOrder`, `DoneHasResult`, `PageStops`, `AnswerIsCurrent`, `RegisteredIsWhole`, `ReportIsExact`, `RecordStays` |
| `algorithms` | every input of the sets in `MC_Algorithms` and `MC_Access`, `MC_Adapters`, `MC_ZarrOutput`, `MC_Samples`: some 300,000 | the twelve properties of the sequential modules |
| `gap` | every provider of `MC_Access`, all leads | `GapIsObservation` is violated |

Two jobs are enough for every pair that can conflict, a third would wait like the
second; two creates make one decide after the other's reconciliation; one restart
puts work of two processes side by side; two windows and one model give a batch a
first, a last and a middle stage; two operations give a report and a later
attempt. The symmetry of jobs, operations and creates is used in the runs that
check safety and not in `progress`; in `passes` that of tasks, which are taken in
any order.

For the passes, two tasks are enough for one that is behind a pass and one that is
before it; two quantities tell a partial set of rows from a whole one; a server
and a command die independently; two changes of the config give one that grows and
one that goes while passes work for the first (a second creation would only start
the same passes over); a third pass in `files` makes the stale file, its first
finder and its second finder three different passes.

For a config, two requests give a reader and a writer between any two of the
other's steps; two rulers and two metrics tell a replaced one from one that is
kept, and two days an earlier retirement from a later one. For the registry, a
bound of one line makes every third line cut the front, and a bound of no job
makes each submission prune what is over. An entry of the cache is dropped when
the second query comes. `services` explores its three parts side by side, not as a
product: they have no state in common, and `part` says which one moves; so does
`files`. There three commands give a Handler, one that replaces or stops it and one
that comes after; they are interchangeable, and `serve` and plain `stop` only take
part of the steps that `start` and `stop -force` take. Two models give a first
and a last item, and one model twice an item that updates do not reach.

For the sequential modules the inputs are chosen so that each alternative of the
code is met on both sides: absent and present keys, equal and different units,
leads within and beyond a horizon, both ends of a range, missing points on either
side, times on and off the cadence, files of two generations, windows that cross
midnight or the end of an archive, a disk that is full
before, at and after each time of a store.

Deadlock is checked in every run of `Execution`: the Handler can always serve
another request. It is not in those of `Verification` (a process lives once and
all may be dead), `services`, `configs` and `files` (what may be asked is bounded, a process
lives once) and
`algorithms` (an input is picked, and that is all).

The three violations are disagreements with what the repository says, quoted in
`PROJECT.json`:

- `job_fault`: a failed `job.json` write marks a job failed in memory, but its
  goroutine goes on. The package can be admitted again, and then the first job is
  set running again.
- `takeover`: a pass finds the file that another has created and not yet filled,
  unlinks it as stale and creates its own; both hold the lock. The server lets two
  requests get there because `busy` and `submit` are two critical sections.
- `gap`: a forecast that a mock, replay or HTTP provider lacks is noted as a gap
  of the observations, since only a stored run raises the class that tells the two
  apart.

Met while modelling, in the models where it says so and without a run:

- With `OpWriteFaults`, an operation whose final `status.json` cannot be written
  stays exempt from reconciliation; with `OrphanedCLI`, the docker command of a
  killed Handler may not have reached the daemon when the next one asks it. In
  both cases `OneExecution` fails (`Execution`).
- A create whose snapshot was taken before a job was announced is refused over the
  Handler's own execution (`Execution`).
- Two metric edits that overlap may lose one (`Verification`, `ConfigLibrary` in
  mode `edits`); the command that retires a member may move the day to a later one
  (`ConfigLibrary` in mode `tools`).
- `delete_group` leaves the rows of `run_record` (not modelled).
- A list of exactly two leads or times becomes a range (`Queries!AsRange`),
  although the comment at `server/app.py:803` has `lead=10,60` as two leads; `task_axes` ignores lists
  (`Queries!TaskAxes`).
- A run file that cannot be read or decoded ends the discovery of all runs, since
  `runs.py:290` catches only `RunConfigError`; a package manifest in that state is
  reported and the others are found (`Catalog!DiscoverRuns`).
- The radar's writer removes the old store before it has checked the new data
  (`ZarrOutput`); SEVIR ignores the number of history steps, and MTG accepts a
  repeat cycle with chunks missing (`Adapters`).
- `stop -force` probes that a Handler answers and then looks for the process that
  listens: another service that takes the port in between is ended, although the
  comment at `lifecycle.go:316` rules it out (`Lifecycle!Terminates`).
- A preparation of no model ends with the group "ready" and no items
  (`Resources!Finished`); of a model named twice the second item stays "missing"
  over a weight that was copied, since an update goes to the first item of its kind
  and id (`Resources!Updated`).
- An entry of the cache may be dropped between the look and the read: the request
  is answered 404 (`AggregateCache!TouchFails`).

### Fairness

`progress` assumes weak fairness of the owner of `executionMu` and of a create
that has begun to reconcile (Go runs every goroutine; docker commands carry
timeouts of 30 minutes and 15 seconds) and strong fairness of taking `executionMu`
and `recoveryMu`: a Go mutex in starvation mode hands itself to its waiters in
turn, and `TryLock` fails meanwhile. Nothing is assumed of Docker, of clients,
of stops, retries or polls.

`services` assumes weak fairness of the thread of each job (Python runs every
thread, and a pass over finitely many tasks returns or raises) and of the page's
timer (`watchRun` polls until it sees an end). Requests, commits and containers
are not fair.

## Proofs

`Execution_proofs` proves `TypeCorrect` (`Spec => []TypeOK`), from
`ExecutionAssumption` alone: whatever writes fail. The strengthening is
`PositionInv`, since `step + 1` stays within `MaxModels` only because a job is at
a stage its package has.

It proves, under `Dependable` (a final `status.json` is
written, a killed Handler's docker commands die with it; without either
`OneExecution` fails):

- `InvariantHolds`: `ExecutionInv` is an invariant. `job.json` writes may fail.
- `OneExecutionHolds` and `StopIsQuietHolds`, from it.

Why the invariant is what it is. `OneExecution` alone is not inductive: a job
starts its work after a reconciliation that skipped exempt projects, so one must
know that nothing exempt can be live then. `OwnerInv` says that only the owner of
`executionMu` is ever "running" in memory and that its own reconciliation has an
empty snapshot. `RecordedInv` says that whatever Docker has is named by a file the
listing reads. `ExemptInv` says that a live operation of this instance still
marked running is the current one, and that only the owner has a docker command
under way. With these a quiet reconciliation means that no container is left
(`QuietIsEmpty`), which gives `AloneInv` past it; `LiveInv` carries "one
execution" through the time when nobody owns the lock; `StopInv` is the same
argument for a stop. Each part has its lemma, with a step per action.

Of the lock, `Verification_proofs` proves `FileNamesItsHolder`,
`ExclusiveUnlessTakenHolds` and, for pids that are not used again (`FreshPids`),
`RefusedOnlyByHolderHolds`. None of them assumes anything of how many passes are
inside `acquire`. Exclusion is not inductive: `FileInv` says that a pid in the file
is its creator's, who holds the lock or is dead, and `OwnerInv` follows the file
through `acquire`. A pass about to unlink has met the owner of whatever is at the
path by then: the pid it read was not that of a live holder, so an owner has not
written its pid yet or came since, and either way both were inside; hence an unlink of a live pass's file puts that
pass in `taken`, and who is at work and not in `taken` still has the file at the path,
of which there is one (`ExclusiveWhileNoneTaken`). A pass that met nobody finds on its
second turn no file, or its own.

Of the passes it proves that every step of a pass is a step of the lock or
leaves it alone (`PassesUseTheLock`: `Spec => LockSpec`), so that exclusion carries
over (`PassesExclude`); `VerificationTyped`; and `RecordedPassIsComplete`. The
invariant of the last is `WorkInv`: a pass is at work exactly while it holds the
lock or believes so, and the tasks it has behind it are settled. Another pass at
work at the same time cannot undo that: rows are only ever added, and a task whose
state it changes is recorded as touched (`PassesSpareOthers`). A deletion, which
takes no lock, marks the pass as purged.

`Server_proofs` proves `LinesInOrderHolds` and `DoneHasResultHolds` for any number of
jobs, pages, starting requests and lines. Neither is inductive: `InOrder` adds that
the last line a page shows is at most `cut + cursor` while it is between two views
and at most `cut + after` while it is in one, and never beyond what was reported,
which holds although a cut moves lines away under the cursor because cut lines are
counted in `cut`; `HasResult` and `JobsSound` add that a job that returned or says
done has its result and that a page which asks again has not read "done". Each
read of a view is a lemma about that view alone.

It also proves `AnswerIsCurrentHolds`, for any number of threads, queries and
commits and any limit of the cache. The property is conditional on files that grow
with every commit (`grows`, see `AggregateCache` above). Then the
sum of the two sizes counts the commits (`StampCounts`), so that a value kept under
a stamp is at least as new as the stamp (`EntryFresh`), and a request, whose stamp
is never below what the store had when it came, is answered by something at least
that new (`AskerFresh`), whether it built it or found it.

### Records of jobs

`ExecutionRecords_proofs` is about what stays on disk. Four results need no
assumption beyond that on the constants: `KeyNamesOneRunHolds`,
`OutcomeIsFinalHolds`, `ReportIsOwnHolds` and `SucceededIsCompleteHolds` hold
whatever writes fail and however often the Handler restarts. `RecordAgreesHolds` and
`PackageActiveOnceHolds` assume that `job.json` can be written (`~JobWriteFaults`);
the run `job_fault` shows that the latter fails otherwise.

`HistoryInv` is what they share: what memory or a run directory says of a job,
`job.json` has said before (`KnownInv`), it calls the owner queued or running until
the owner is over (`HeldInv`), and a queued job has left no trace and holds
`executionMu` at most at its first stage (`QueuedInv`). A key is in one record
because only an admission makes a record, which looks for the key in all the others:
every other write is of a job that `KnownInv` says is recorded. For `SucceededIsComplete` one must know where the owner
is: `ProgressInv` says that a job which nothing has failed has launched every stage
before its position, so that a job which reports has launched all of them, and
`DiagnosedInv` that it concludes from its own operation, which succeeded unless
something lapsed.

`ExecutionsAreSerialHolds` is the refinement: under `Dependable`,
`Execution` implements `SerialExecution` under the mapping `executionState`. Each
step is taken to a step of the abstract specification or to a stutter:
admission to `Submit` (and to `End` where the job cannot start), the clearance of a
job and of a retry to `Begin`, and of the others those that change the state of an
execution to `End` (`OthersSettle`). `Begin` requires that nothing runs and that what
begins has not begun before; the first follows from `ExecutionInv`, the second from
`HistoryInv` for a job and `DiagnosedInv` for an operation. What restarts do is the point: one process death
ends every execution at once, so `End` takes a set.

### Config library

`ConfigLibrary_proofs` proves `LibraryTypeCorrect`, `FileIsWholeHolds`,
`RulerKeptHolds`, `EditsKeptHolds` and, if no deletion dies between the file and the
rows (`~PurgeFaults`), `RowsUnderRulerHolds`, for any requests, names, metrics and
days. Without `~PurgeFaults` a config created again under the name finds rows of the
old ruler, and the theorem would be false.

The properties name the modes they rest on, and so does the invariant. `RequestsSound`
says which requests can be under way at once: one, or edits and passes. `RulersSound` is
about everything that is or may still get into the file without another comparison:
the file, the drafts of requests past their comparison and the spare file of those
who will rename it (`Written`), with the rows and what passes will add to them
(`Measured`). All of it has one ruler, and without a file there are no rows but those
a deletion is about to remove, and no pass. That overlapping edits may fill and rename
each other's spare file, because they share its path, does not matter for the
ruler; for the file being whole it does, which is why `FileIsWhole` and `EditsKept`
are stated of requests one at a time, where `WritersSound` says what each writer
finds at the spare path.

### The Handler around its jobs

`Handler_proofs` proves `HandlerIsRecordedHolds` and `StoppedIsSilentHolds` from
`LifecycleAssumption` alone (the two values that stand for no process and for a
process that is not the Handler's are no processes), for any number of commands and
addresses. `LifecycleInv` consists of the locks (`LocksInv`), the listeners
(`ListensInv`), the session file (`SessionInv`), what a command says at its end
(`EndInv`) and, the part that took finding, `SeenInv`: what a command that has read a
session may rely on at each later step, while the Handler it has read of goes on by
itself, exits, dies, or has its pid taken by another process. A command reads once
and asks, waits, terminates, kills and removes many steps later. It may still rely
on what it read because it holds `lifecycle.lock`, without which nobody else begins
to serve; `Reliable` is that fact, step by step. One lemma per action carries it, and
the lemmas above them say what kind of change an action is: of a command that only
moves, of a process that goes away, of one that only closes.

`WeightsAreShownHolds` is proved for models, images and selections of any length, and
for a Handler that dies anywhere. `ResourcesInv` says that an item calls itself
preparing only while the goroutine copies the weight at the head of its list, and is
then the first one with this id (`ItemsInv`: only the first is ever updated), and that what the goroutine found before it let go of `resourcesMu`
is true when it takes it again (`PrepInv`).

Both invariants were checked with TLC before they were proved, that of `Lifecycle`
on three commands of all six kinds and two addresses (6.6 million states), and the
proofs fail for models with a mistake put in.

### Run directory

`StoredRun_proofs` proves `RegisteredIsWholeHolds`, `ReportIsExactHolds` and
`RecordStaysHolds` from `StoredRunAssumption` alone: finitely many models, none of
which is named as an input, and any number of windows and requests. Containers and
the Handler may be killed between any two operations on files. `StoredRunTypeCorrect`
is the type invariant.

None of the three is inductive. A manifest registers an array by its name long after
the array was written, and a report counts what many earlier steps put on record.
`RunInv` says, beside the types:

- `StagesInv`: what the Handler still has to run. An ingestion finds a directory
  without a manifest, and no other ingestion of that window is left, so that
  `create_run` never replaces a manifest that something refers to; once a batch has
  its parent manifest no stage is left.
- `StageBoxInv`: what the container of a stage has written by the step it is at, and
  that the manifest a model read when it began is still the one in place.
- `ArraysWhole`: the first half of `RegisteredIsWhole`.
- `RecordsInv`: each record names its request, no attempt is on record twice, a good
  one has its output whole, and each report is exact.
- `RequestInv`: the results a request has so far are its first jobs, in order, and of
  this request there is on record nothing else. A single run has all of them on
  record; a batch works on a copy of the manifest it read first (`held`), which has
  everything the manifest on disk has (`Extends`), and adds at the end what is missing.

The argument separates the steps of stages, which touch no record of an attempt and
save only arrays that are whole (`StageStep`), from those of a request, which touch
no array and renew a manifest by what continues it (`RequestStep`); `RunStep` joins
them. The batch's end is the hard part: `Completed` adds to the records it kept the
results that are not among them, chosen by id, and `Named` gives all of them the name
of the request. `Completing` shows that each result is then on record exactly once,
by counting places from the front (`Place`), and `Reported` that the report is of
these. For a proof without induction over data, the lists of `StoredRun` are
functions of the position, and one that filters takes the k-th of the places it keeps.

`RecordStays` is about steps, and uses the invariant before and after each. Of each
kind, model and window the page shows the newest good attempt; a continuation of the
records has the old one still, with its status, so there is one to show that is not
older (`NothingIsLost`).

### Sequential components

`Algorithms_proofs` states the properties of the operators as laws for every input the
code lets through, then shows that the inputs of the run are such.

| law | holds for | because |
|---|---|---|
| `PairFitsRulerHolds` | any catalog of packages, whose field specs may be anything | an id names the first package that has it, which is the package meant while no id is given twice (`IdNamesPackage`); matching and the ruler look a unit up in different ways, by name and by the first field that fills (`UnitsAgree`) |
| `FillingKeepsHolds` | any ruler and package | a blank is filled once |
| `ExecutesThePlanHolds` | configs with positive steps and leads, as the schema has them; any runs that were read strictly, with at most one start and horizon; any catalog | a run is used or has a reason against it (`ReasonsDecide`), and the executor reads the same horizon and roster |
| `OfferedIsPlannedHolds`, `CoverageIsExactHolds` | the same; for coverage, no lead beyond the window that is asked past the last init time | the largest valid time of a finite plan is inside the window |
| `RemoteAgreesHolds` | every provider of the four kinds and every request | the answer of each is one of four shapes, and codes and bodies keep these apart |
| `HolesStayHolds` | fields whose axes increase, of any size and data, and grids as `TargetCoords` makes them (`TargetsAreGrids`); the two fields have one variable, unit and time | in the span of an axis an output point is made of one or two places, and interpolation gives a value exactly if these have one (`NearOnAxis`) |
| `AnswersTheQuestionHolds` | any table of rows with times in range, any query, any expansion | each filter is on a column of its own (`Translated`), so the rows it selects are those the page means |
| `LoadsTheRequestHolds` | every well-formed request, valid or not, of each source, and any archive of its files, finite where segments or stores are counted (`IsLoadRequest`, `IsArchive`) | but for SEVIR a load is whole or nothing (`LoadsTheWhole`), and whether a field is there depends on its own time and channel |
| `WindowIsItsHolds` | the same | SEVIR takes a row that is the only one with its start; a slice from the first place of a box to the last has only places in the box, since coordinates run one way (`SliceIsBetween`) |
| `ArrivalsKeepHolds` | the same, and any file that arrives | a satellite's field reads no file of another time (`OtherFieldsStay`); of mosaics of one time the newest is read (`MosaicsStay`) |

Much here is "the first package with this id", "the last place before". That a set of
places has a first one usually is an induction; the proofs take it from the library's
theorem that < on the naturals is well founded (`FirstPlace`), and the last one by
counting from the other end (`LastPlace`). The theorems named `Run...` have
`MC_Spec => []P` for the property P of the run: `InputInv` says that what was picked is in
the set it was picked from, and each proof shows the hypotheses of the law for the sets of
the instance, so the instance is among what the laws are about.

### Only model-checked

- `ViewsShowAnswer` and `OutputFits`, and of `FilesAgree` the windows and the runs found
  once: they are about sorted and flattened sequences, which the community modules define
  by recursion or by a choice among all permutations.
- `ScoresAgree`: sums over frames, folds whose equality is an induction over the points.
- `ListedIsServed` and `ChecklistDecides`: the positions of a time in a sorted list.
- `QueuedJobEnds` and `PageStops`: liveness under fairness, and `ENABLED`, are out of
  the prover's reach.

## Not modelled

| part | why |
|---|---|
| the Handler under macOS' launchd, registration of the URL scheme, the resource manifest, candidates of a pull | one platform's service manager; parsing; a loop over names |
| Handler settings and configuration, package admission | sequential parsing of one request, decided before the modelled admission |
| run listing, one-shot diagnostics | read-only, or outside the server and its locks |
| the numbers: decoding of pixels, networks, reprojection, floating-point rounding | no discrete state; what could be wrong is in data a model leaves out |
| visualization, SVG, the browser's layout, text of messages | wording and drawing |
| demo data, launchers, installers, schemas | scripts that run once |
| migrations and `run_record` of the store, upload of a workspace | one statement or one request each, nothing else depends on them |
| the Atlas archives, satpy readers | third-party formats |

## Plan

What the plan of this project named is modelled, checked and proved. What would come
next, in this order:

1. The laws of the sequential modules for inputs of any length, once a prover with
   induction over data can be used.
2. macOS, where launchd keeps the Handler, as another way to begin and end `ServeStep` in
   `Lifecycle`.
3. Package admission, as one more guard of `Execution`'s admission.
