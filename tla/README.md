# Verification of the building change detection backend

TLA+ specifications of the parts of the backend (`src/backend/src`) in which several processes,
threads or users change one state, TLC models that check them on small instances, and TLAPS proofs
of theorems for every instance. Paths below are relative to `src/backend/src` unless they start
with `src/`. `PROJECT.json` names the source lines behind each definition.

## 1. The system

A FastAPI process takes requests from a React frontend and a QGIS plugin. Detections over an area
of interest compare two dated Esri Wayback mosaics with a neural network; a *temporal project*
chains such pairs over a list of releases. Long work runs in Celery workers. State is in
PostgreSQL (jobs, runs, a copy of projects), in JSON files below a runtime cache directory
(projects, cached responses, caches) and in the broker.

| Component | State | Operations | Interacts with | Hard because | Correct when |
|---|---|---|---|---|---|
| Jobs (`jobs/service.py`, `jobs/tasks.py`, `repositories/job_repository.py`, `db/session.py`) | `jobs` rows, broker queue, revoked sets | start, cancel, deliver, check, progress, complete, fail | API threads, broker, workers, every pipeline through its progress callback | transactions overlap; messages are redelivered or never sent; processes die | stamps agree with the status, a cancel is never lost and stops the work, a settled job stays settled |
| Metadata cache (`domain/wayback_metadata_cache.py`, `services/processing.py`) | one file and one lock directory per key | look, query, write under one lock | all workers and API threads on one host | holders die or are slow; readers time out; entries expire while they are read | lock excludes, a fresh entry is not lost, every caller returns |
| Tile preflight cache (`domain/wayback_tile_preflight_cache.py`, `services/processing.py`) | the same | look, check tiles *without* the lock, look again, write; stale sweep; cleanup of all locks | the same, and every launch and task start | in addition locks are deleted by others | the same |
| Temporal projects (`services/temporal_projects.py`) | `project.json`, `additions.geojson` per milestone, cached pair responses | run, import override, edit milestones, delete responses | pipeline, request cleanup, exports, Postgres copy | every party loads all and writes all; runs fail in part and stop half-way; results are reused | kept and recomputed milestones fit together, growth adds up, nobody's edit is lost |
| Result exports (`api/routes/temporal_projects.py`, `services/temporal_exports.py`) | job table in memory, an export file with a metadata file, a manifest shared by all formats | create, run, poll, download, look up cached | project files | threads and processes share three files; saves of the project come in between | an answer shows the project as it was during the request, every job settles |
| Project files and rows (`services/temporal_projects.py`, `repositories/temporal_project_repository.py`, `repositories/payload_storage.py`) | `project.json`, its compact metadata, the registry, rows, payload files | save, change and record, refresh the bundle, load and repair | every run, edit and export | written twice, partly in place, files first and rows later | files, metadata and rows tell of the same save, a project stays listed |
| Wayback tiles (`domain/wayback.py`, `domain/mosaic.py`, `domain/wayback_tile_cache.py`, `services/processing.py`) | preflight windows, workers, batches of a thread pool, the tile cache, the mosaic of a zoom | choose the zoom, select tiles, download with retries, reuse | preflight cache, the two remote services | checks and attempts fail one by one; concurrency adapts; a mosaic is reused by what its metadata says | a reusable mosaic has every tile there is, and is reused |
| Wayback mosaics (`domain/mosaic.py`, `domain/inference_reference_imagery.py`, `services/wayback_mosaic_cleanup.py`) | lock directory, mosaic, canonical COG with mask and metadata | fetch or reuse, promote to a COG, compact | every detection, reference imagery | files are read by path without a lock; requests stop anywhere | what a request was given stays until it has read it, a noted COG is whole |
| Reference imagery (`services/temporal_reference_imagery.py`, `domain/reference_imagery_cache.py`, `services/temporal_projects.py`) | canonical COGs, the project's path to one, the milestone's reference | build, complete, save, repair, load | projects, mosaics, cached responses | three ways of linking, done by remove and make; the key does not tell rasters apart | a COG is of its key, a project shows what it refers to |
| Request cleanup (`services/request_cleanup.py`) | request directories | audit, delete | runs, reference imagery | check, then delete | nothing in use is deleted |
| Pipeline (`services/processing.py`, `domain/…`) | files of one request | fetch, infer, vectorize, publish | all of the above | numeric and geometric | out of reach of a finite model |
| Frontend, QGIS plugin | their own | edit milestones, poll | HTTP API | | |

`PROJECT.json` lists the remaining parts (configuration, validation, deployment, the vendored
network) and, under `hazards`, each place where the code can go wrong in a way a test would hardly
reach, with the properties that cover it or the reason why none does yet.

## 2. The modules

    JobRepository  <-EXTENDS-  JobLifecycle  <-EXTENDS-  MCJobLifecycle, JobLifecycleProofs
    LockedCacheFile  <-  MetadataCache   <-  MCMetadataCache,  CacheProofs
                     <-  PreflightCache  <-  MCPreflightCache, CacheProofs
    LookAside  <-INSTANCE-  MetadataCache
    TemporalProject  <-  MCTemporalProject, TemporalProjectProofs
    ProjectRecords   <-  MCProjectRecords,  ProjectRecordsProofs
    ExportCache  <-  MCExportCache
                 <-  ExportJobs  <-  MCExportJobs, ExportProofs
    WaybackTiles      <-  MCWaybackTiles,     WaybackTilesProofs
    WaybackMosaics    <-  MCWaybackMosaics,   WaybackMosaicsProofs
    ReferenceImagery  <-  MCReferenceImagery, ReferenceImageryProofs

A definition under a comment `Mutant:` is a plausible bug of the definition that follows it. It is
no part of any specification; it serves to see that a property can fail.

### JobRepository and JobLifecycle

`JobRepository` has one operator per `mark_*` function, on a row of eight columns, and `Flushed`:
SQLAlchemy sends only the columns that differ from the loaded record, without a version check, so
two overlapping transactions merge column by column under READ COMMITTED. Row locks of PostgreSQL
make the flush of two transactions sequential, which is why the commit is one step.

`JobLifecycle` composes the rows with the other actors:

| Variable | In the program |
|---|---|
| `row` | the `jobs` table |
| `tx` | the open session of an actor: the record as loaded and as it will be committed |
| `start` | where `start_temporal_project_job` / `start_detection_job` is |
| `queue`, `deliveries` | messages ready in the broker, times delivered |
| `revoked` | the set each worker process keeps of revoked task ids |
| `wk` | program counter, phase, progress and outcome of the task a worker runs (pool "solo") |
| `returned` | what the last task function for the job returned |

Each transaction is a load and a commit, with every other actor's steps between them. A task is
prepare, start, then phases with *check* (`_cancel_if_requested`) and *update*
(`update_job_progress`) before each; a progress report from the pipeline passes through the same
two. Details that matter and are modelled: the cancelled mark of `_cancel_if_requested` is rolled
back by the exception it raises in the same session; a catch-all around tiled inference swallows
that exception (`CheckSwallowed`); the revoke is sent inside the cancel's transaction, and only
when the row knows its task id; `send_task` may raise after the broker took the message; with late
acknowledgement a message comes again after the visibility timeout or when the worker dies; the
database may fail at any task step, also while a failure is recorded.

Left out: the text columns (stage, message, error code), which no guard reads; the legacy spelling
`complete`, read as `completed`; refusal of a job when Redis or the workers are unreachable before a
row exists; worker prefetch (a prefetched message is one still in `queue`). A revoke reaches an
arbitrary subset of the workers, since a broadcast may miss some.

### LockedCacheFile, MetadataCache, PreflightCache

`LockedCacheFile` is what the two caches share: one entry (who wrote it, whether it is in its
TTL), the lock directory, and per caller its place, whether it is between `mkdir` and `rmtree`,
and its answer. Its steps are those of the file system that other processes can see: `mkdir`,
`rmtree`, the read, the `unlink` of a file found unusable (which removes whatever is at the path by
then), `os.replace` of the new file. A read is one step: the file is opened once and parsed from
memory. A lock wait may time out (`Stuck`) when the directory has no live owner, or with the fault
`stall` when its holder takes longer than 120 s.

`MetadataCache` holds the lock over the query and goes on without it after a timeout or an
exception (`LookupAlone`, which writes nothing). `PreflightCache` has the double lock: a miss is
answered outside the lock, and the caller looks again under it before it writes. It adds the lock
sweep (`StaleLook`, `StaleDelete`) and the cleanup of all locks that `start_temporal_project_job`
and `run_temporal_project_job` perform whoever holds them (`Cleanup`). Two history variables say how
far its properties hold: `removed` (a lock was removed while its holder was at work) and `misled` (a
caller handled the entry beside one that may write it, or could not read a fresh one).

`LookAside` is the abstract specification of such a cache: an entry, an answer per caller, and no
lock, file or deadline. `MetadataCache` implements it under the mapping that keeps entry and answers
and forgets where a caller is but for how it ended (`ImplementsLookAside`). `PreflightCache` does not
implement it: a caller there gives its own answer up for the one it finds when it looks again.

The names of `PreflightCache` are apart from those of `MetadataCache` (`PreflightSpec`,
`TimeOutReading`, ...), so that one module proves things about both.

One key is modelled, since keys share nothing but the two cleanups, which treat them alike.
Each caller asks once; more requests are more callers.

### TemporalProject

One project: `stored` (`project.json`: per release its milestone), `additions` (the
`additions.geojson` files, the only part kept outside it), `cache` (responses of pairs in
`request_cache_dir`), `run` (the run in progress with its own copy of the project) and `draft` (the
copy an editor loaded). A footprint is a set of cells; union and difference stand for the geometric
operations. A pair is a pair of releases, because the rest of its hash (AOI, threshold, backend) is
fixed within one behaviour. The AOI is admissible. A milestone is *paired* when a pair gave it its
outputs, *unpaired* when it failed or has outputs of an import alone. The history `disturbed` says
that a run was interrupted or overlapped by an edit, or that an unpaired milestone was removed.

| Action | Code |
|---|---|
| `StartRun` | `run_temporal_project` up to its loop: load, validate, recompute the baseline, plan (`_plan_temporal_milestone_runs`): milestones before the first one that is not reusable are kept |
| `PairSucceeds`, `PairFails` | one iteration: the cached response or a detection, `_apply_pair_response_to_milestone`, `_recompute_project_outputs_from_index`; or the error status and `continue` |
| `SaveFiles`, `SaveProject` | `_refresh_project_bundle` writes additions files, then `_save_project` writes `project.json`; afterwards the request cleanup may delete the response |
| `FinishRun` | the last save; requests of complete milestones are cleaned up |
| `Interrupt` | cancellation, an exception or the death of the worker: what was not saved is gone |
| `LoadForEdit`, `ImportOverride`, `AddMilestone`, `RemoveMilestone` | `import_temporal_override`, and `save_temporal_project` with the edits the frontend makes |

Abstracted: a load reads `project.json` and the additions files in one step, and so do an edit's
and the run's last save; `ProjectRecords` has the writes apart. Not modelled: results above
`temporal_derived_geometry_max_features`, `publish_completed_tiled_request`, removal of the baseline.

### ProjectRecords

How a project is put on disk and in the database, with the data of a save reduced to the operation
that made it. `json`, `compact`, `temp` and `registry` are the files, `row`, `layers` and `payload`
the database side with `holder`, the transaction that has the rows locked. An operation is a *save*
(`save_temporal_project`: registry, `project.json` in place, compact metadata, then the repository's
second write of the files and its transaction), a *change* (run or import, the same after a load), a
*bundle* (the refresh that writes files only) or a *repair* (a load that writes back). Every write is
a step of its own; opening a file for writing empties it. Operations stop anywhere. `doubt` and
`unlisted` are histories of what overlapping or stopped operations left unsettled, so that the
properties speak of what one operation that goes through alone restores.

### ExportCache and ExportJobs

`ExportCache` is one project in one format. A version number stands for the size and mtime that the
fingerprints compare. `FastLookup` is the look at metadata, manifest and versions before a load;
`Load` ... `WriteMetadata` are the steps of `build_temporal_results_export_file` with the manifest's
temporary file of a fixed name; `SaveLayers`, `SaveOpens`, `SaveWrites` are a save of the project.
The history `since` collects, per request, what the project was since it began; `crossed` says that a
save met a build.

`ExportJobs` composes it with the job table of `api/routes/temporal_projects.py`, the executor of
`Threads` threads and the browsers, which create a job, poll and follow the link. A restart of the
process loses records and threads, and every client then meets a missing job.

### WaybackTiles

One release and one area. `CheckWindow` is a window of `preflight_wayback_tile_availability` with the
reduction of the workers; `ChooseZoom` the loop of `_resolve_release_for_aoi` with its fallback;
`Select`, `Look` and `Submit` what a run or a prefetch asks of `download_wayback_mosaic`; `StartTile`,
`Answered` and `AttemptFails` a thread of the pool in `_download_tile_with_retries`; `Collect` and
`EndBatch` the caller's loop with the lower concurrency; `Publish` the metadata of the mosaic. What
the tilemap service says of a tile is taken to be what the tile service answers. Both `HTTPError` and
a refused connection are an `OSError`, which the first `except` clause catches, so there is one kind
of failed attempt, a timeout or not. The release has a number and the preflight is enabled. Requests
come one after the other; `WaybackMosaics` has them at once.

### WaybackMosaics and ReferenceImagery

`WaybackMosaics` has runs and prefetches for one release over one range of tiles, the runs for areas
with that range. Each asks for a *list* of available tiles, and a mosaic is reused by its list, never
by the area (`Matches`, `_cached_metadata_matches_request`). Requests of one area may have different
lists: the tiles that the area meets (`processing.py:179`) after an incomplete preflight, those of
them that are available after a complete one, and for a prefetch all of the range that are available,
or `AnyList` where its preflight was incomplete. Areas may have one list between them. So a list is
an input of `Start` and `Prefetch` and is not tied to the area. Without a list a download notes what
it found. A download is one step under the lock directory.

`Validate` is the look at the COG with its mask; `MakeMask`, `WriteMask`, `MoveMask`, `CheckMask` make
a mask through its temporary file of one name. `OpenCog`, `WriteCog`, `ReplaceCog`, `CleanTemp`,
`NoteCog` make the COG through that of its own. Each of these files is opened after the one with that
name was unlinked, whoever writes it, may fail to be written, and is moved by name. Making either
counts for `met`, the history of the areas with two makers at once. `ScanReferences` and
`RemoveRasters` are the compaction. A mosaic is known by the request that made it, so a reader that
meets another is seen (`image`, `mask`).

`ReferenceImagery` has one milestone of each project. A canonical COG is at the path of its key: the
area it was cut to and the bounds of the raster (`Keys`; the release, the zoom and the version do not
vary). The raster is that of a *detection*, known by the area it was made for (`from`, `detected`):
a save builds from the response that the milestone names and cuts it to the area the project has by
then. `image` therefore says both (`Cut(a, d)`), the key has the bounds of `d` only (`BoundsOf`: those
of its tiles), and an area may have several canonical COGs. The project's path is materialized from a
canonical COG; a path holds a file or a symbolic link, a file may have several paths.

| Action | Code |
|---|---|
| `BeginBuild` | a save with a cached response (`_hydrate_reference_imagery`): of a run, or of a client that sends any area with the pair hash it has |
| `BeginSave` | a save where no raster is there, with the reference that is sent, or none |
| `BeginRepair`, `BeginLoad` | a repair that persists; an export, which builds and saves nothing |
| `EnsureCog` | the COG under the key is kept if it was made of this raster, or replaced |
| `FindCog` | `_ensure_temporal_project_reference_imagery_from_canonical_cache`: an incomplete reference is completed from the single match in the cache |
| `Materialize`, `LinkCog` | `materialize_reference_imagery_cog`: resolve, remove, then one way after the other |
| `NoteCog`, `Save` | the metadata beside the COG; `project.json` |
| `Stop` | a process that is killed, or an exception, between two steps |

`doubt` has the projects that a stop, a failure or a dropped reference left without certainty until
the next save that builds; `crossed` those for which another build put a COG of another raster under
their key after their `EnsureCog` and before their link; `met` says that two operations on one
project overlapped. A raster is taken to come with a mask. `FindCog` may go on without a match even
where the model has a single one, because the COGs that detections promote (`WaybackMosaics`) are in
the same directory and make it ambiguous; that the match is one of those is left out.

## 3. The runs

| Run | Instance | Shows |
|---|---|---|
| `jobs_safety` | 1 detection job, 2 workers, late acks, redelivery and ambiguous sends, 1 cancel, 2 deliveries | types; stamps agree with the status (`StampsCoherent`); a committed cancel flag stays (`CancelIsSticky`); a task writes at most once over it (`AtMostOneLateWrite`) |
| `jobs_live` | 1 temporal job, 1 worker, crashes of both processes and of the database, fairness | a cancel stops the work (`CancelStopsWork`); a sent task returns or is dropped (`SentTaskReturns`); only API transactions take a job out of a terminal status (`TasksNeverRevive`) |
| `metadata_cache` | 3 callers, crashes, slow holders, expiry, failing writes, fairness | `ImplementsLookAside`, `TimeoutsNeverSteal`, `EveryCallerReturns` |
| `preflight_cache` | 3 callers, every fault at once, fairness | `ShortLockExcludes` until a held lock is removed; `FreshPreflightStays` until then or a caller is misled; `EveryPreflightReturns` |
| `temporal_run` | releases 0..2, 2 of them listed, 1 cell, 3 runs, 3 edits, every fault | `RunLeavesChain`, `GrowthAddsUp` |
| `temporal_override_lost` | 2 milestones, 1 run, 1 edit that overlaps it | *violated*: an imported override is erased by the run |
| `project_records` | 2 projects, 3 operations, 2 at a time, stops | `FilesAgree`, `RowsAgree`, `StaysListed` |
| `export_cache` | 3 builds, 1 save, crashes, interrupted saves, failing builders | `ServedWasCurrent`, `AloneSucceeds` |
| `export_jobs` | 2 jobs, 1 thread, 1 save, a restart, fairness | `LinksLead`: a link is followed to a file; `EveryJobSettles` |
| `wayback_tiles` | 2 zooms with 3 and 1 tiles, 2 requests, 2 attempts, batches of 1 and 2 tiles, fairness | `ReusableIsWhole`, `ZoomJustified`, `MosaicReused`, `EveryRequestEnds` |
| `wayback_mosaics` | 2 runs or prefetches, 2 areas, 2 lists, failing writes, stops, a compaction, fairness | `MosaicStays`, `CanonicalSound`, `EveryRequestEnds` |
| `reference_imagery` | 2 projects, 3 areas, 2 of them with the same tiles, 3 operations, hard links by default | `CanonicalOwn`, `ReferenceShown` |

Why the bounds are enough to be interesting. Jobs do not share rows, messages or revoked ids, so one
job with two workers has every conflict of a row; two deliveries are needed for two concurrent
executions, and one cancel can fall between any two steps of either. Three callers of a cache allow
one to die, one to hold and one to wait. Three runs allow a first result, a run that stops half-way
and a run on what that left; two listed milestones and one that can be inserted between them or
removed give a kept prefix, a recomputed middle and a successor, and three edits the removal of a
milestone whose outputs came from an import, which two edits do not reach. One cell is enough
because the operations on footprints work on each cell by itself; more cells, milestones and runs
are left to the theorems. Three operations on a project are one that leaves doubt, one that overlaps
it and one that settles it. Three builds are two that race and one that finds what they left, and
one save can fall anywhere between them. Two requests for a mosaic suffice because reuse,
replacement for another list, a stop followed by another request and overlap all take two; its names
of requests, areas and lists are interchangeable, and `NamedInOrder` has the first request called
`r1`, its area `a1` and its list `l1`. Three areas of imagery, of which two have the same tiles, are
an area, one whose raster has the same key and one whose raster has not; the states after two
operations on a project have met are not searched (`NotMet`), as the properties say nothing of them. Three
tiles at the upper zoom, two of them in the area, give a full and a partial window, a batch that
lowers the concurrency for the next, and a prefetch that asks for more than a run. Where workers,
builders, operations or projects are interchangeable, symmetry is used, in runs without liveness
properties.

Deadlock is not checked because each instance really stops: every job settled and the bounds used
up, every caller returned, no run or edit left.

### Fairness

`JobLifecycle!Fairness` is weak fairness of the API threads between their steps, of the broker's
delivery to an idle worker, and of a running task. None is assumed of cancels, crashes, timeouts or
redeliveries. A pipeline need not end: `CancelStopsWork` holds even when it reports forever. The
exception is `SentTaskReturns`, a statement *under the hypothesis* `PipelinesEnd`, strong fairness
of the pipeline's response, because a progress report that repeats forever would otherwise be
a fair behaviour; detection loops over finite lists of tiles and pairs. The caches assume weak
fairness of each caller's steps: threads run, and the deadline in the polling loop passes. The export
jobs assume it of the threads of the executor, `WaybackMosaics` of each request (its wait for the
lock has a deadline), `WaybackTiles` of the one request there is: a check or an attempt ends, since
each has connect and read timeouts. No fairness is assumed of stops, restarts, saves or cancellations.

### What the violated run says

`findings` quotes the test that says otherwise: a run overwrites an override that was imported while
it was in progress, because it holds the whole project from its start and writes it back whole.

Several properties hold only up to a history variable (`crossed`, `met`, `misled`, `removed`,
`doubt`, `unlisted`, `compacted`). Each marks a place where the code really loses the property; the
entry under `hazards` says which. Seen while modelling and in no run:

- A job cancelled at a phase boundary keeps the status `cancel_requested`, because the mark and the
  exception share a transaction (`jobs/tasks.py:111`); a fast task may settle between the load and
  the commit of `mark_job_enqueued`, and its job is then `queued` again (`jobs/service.py:168`).
- `domain/mosaic.py:825` (`except requests.HTTPError`) is never reached, since an `HTTPError` is an
  `OSError` and the clause before it takes those: throttled requests are not counted as such, and a
  status that cannot succeed is tried again. Likewise every caught error of a tile check counts as a
  connection error (`domain/wayback.py:513`).
- Removing a milestone whose outputs come from an import alone leaves its cells in the cumulative
  footprints of later milestones: `save_temporal_project` does not recompute them
  (`services/temporal_projects.py:6150`), and the next run keeps those milestones as reusable
  (`services/temporal_projects.py:5250`). `GrowthAddsUp` came out false for this when its proof was
  attempted; it now says so through `disturbed`.
- A save builds the reference imagery from the raster of the last detection and keys it with the area
  the project has by then (`services/temporal_projects.py:3549`,
  `services/temporal_reference_imagery.py:339`). After an edit of the area that keeps the pair hashes,
  the COG under the new area's key is cut from the old area's raster, on the old raster's bounds. Two
  detections with the same bounds share a key whatever their rasters; between its `EnsureCog` and its
  link a project may be given the raster of the other (`crossed`), and a repair or a save without a
  raster takes whatever raster is under the key it finds.
- Two requests for one area do not ask for one mosaic: after a preflight that was incomplete for one of
  them, or a prefetch, their lists differ, and the second removes the mosaic that the first still
  reads without a lock (`domain/mosaic.py:951`).
- Where the project's path is a symbolic link, because that way is configured or the one configured
  does not work, a build or a repair after the project's area has changed resolves the path first
  and removes or replaces the canonical COG it leads to
  (`domain/reference_imagery_cache.py:203`).
- A message that is delivered again while its task runs, or that the broker took although
  `send_task` raised, lets a second task write `running` over a job that is settled.
- The prefetch of imagery (off by default) asks for the tiles of the bounding box
  (`services/temporal_projects.py:5046`), the run for those of the area: where the two differ, the
  prefetched mosaic is removed with the tile cache of its zoom, and downloaded again.

## 4. The proofs

All theorems hold for every value of the constants under the named assumptions of the module: sets
of any size, any bound, any set of faults unless the theorem names one. TLC found the invariants
below to hold on small instances before they were proved.

**JobLifecycleProofs**: `TypeCorrect`, `StampsStayCoherent`, `CancelRequestsStick`,
`TasksStopAtNextCheck`, `SettledJobsStay`. Types are not inductive alone, since marking a row needs
the row to exist: `RowsExist` ties rows to start calls, messages, tasks and transactions. The stamps
need more, because a commit merges a record made from an *old* row into the present one. Every step
either leaves table and transactions alone, creates a row, loads and marks, commits or rolls back
(`StepIsDbStep`); marks only set stamps (`MarksAreSafe`); so a row never falls below a record
someone loaded (`TxOrdered`), and the merge of a coherent record over a row above its origin
is coherent (`FlushedCoherent`). `CancelRequestsStick` is the same order on one stamp.
`TasksStopAtNextCheck` adds `LateInv`: after a write over a cancel request a task is at a place from
which a check comes before any further write but the settling one. `SettledJobsStay`
(`TasksNeverRevive`) needs to know what each open transaction is going to write (`Intent`) and that
one task at most has the job (`Single`); then nobody but that task settles the job between its first
look and its last write (`Unsettled`). `Single` is where the hypotheses come from: with late
acknowledgement and a visibility timeout, or a send that raises after the broker took the message,
two tasks have one job, and the property is false.

**CacheProofs**, the metadata cache: `MetadataTypes`, `MetadataLockIsExclusive`,
`MetadataTimeoutsNeverSteal`, `MetadataFreshEntryStays`, `MetadataImplementsLookAside`. A caller is
between `mkdir` and `rmtree` exactly at the places that touch the file (`Placed`), the directory is
there while one is (`Held`), and whoever is about to unlink or write has seen the entry unusable and
nobody has written since (`SeenStale`). For the refinement, `Answers` adds that a caller has no answer
before its lookup and its own when it writes; each step is then a step of `LookAside` or a stutter
(`StepImplements`). The last two theorems assume that good files are readable (no `read_error`), for
an unreadable file is unlinked. The preflight cache: `PreflightTypes`, `PreflightLockIsExclusive` and
`PreflightFreshEntryStays`, with any faults: the conditions under which the code loses the property
are in the property, as `removed` and `misled`. The invariant is that of the metadata cache while
neither is set, with the readers that came in without the lock (`LateReader`).

**TemporalProjectProofs**: `TemporalTypes`, `TemporalChain` (`RunLeavesChain`), `TemporalGrowth`
(`GrowthAddsUp`), `TemporalOverridesSurvive`. The chain is an invariant of the run's own copy alone
(`Chain`), which is why edits, interruptions and lost responses cannot break it: every milestone
before the present one has failed or starts at the last complete one, and those after it are neither
failed nor pending. Growth relates three copies (`Growing`). At rest (`AtRest`), a paired milestone
whose pair starts at the baseline or at another paired one contains that one's footprint and has
the rest in its additions file, as long as only pending milestones stand between; a run carries this
for the milestones behind the present one (`AddedBehind`), in memory or in the files, whichever is
newer (`FilesOver`). That a kept milestone still fits when milestones were inserted, removed or given
an override is the case distinction on `Paired`; with a removed import it does not, see section 3.
`TemporalOverridesSurvive` (without overlap) follows from the run's copy having the overrides of
`project.json` and the editor's copy *being* `project.json` (`CopiesInv`). With overlap the property
is violated (`temporal_override_lost`), so the hypothesis marks exactly what the code relies on.

**ProjectRecordsProofs**: `RecordTypes`, `ProjectsStayListed`, `FilesSettle`, `RowsSettle`. `Staged`
says at which places an operation has loaded, is in its first or second writing of the files, or in its
transaction. `ListInv`: while no two listings overlapped or stopped, the one at work has loaded every
project that has files or is being saved (`Known`), and otherwise the registry lists them.
`SettledInv`: an operation that has met no other is alone on its project (`Alone`), and the copies it
has passed are its own (`FilesStage`, `RowsStage`); a project without operations that nothing left in
doubt has equal copies.

**ExportProofs**: of `ExportCache`, `CacheTypesHold`, `AloneBuildsSucceed` and `ServedIsCurrent`
(`ServedWasCurrent`); of `ExportJobs`, `JobTypesHold` and `LinksLeadToFiles`. The fingerprints are
evidence because a save gives `project.json` a version no earlier key has (`Dated`); so, until a save
meets a build, what is cached under the versions on disk was made from them, and every build between
its load and its answer has seen what is there (`Current`). A build that met no other is the only one
between its load and its last write (`Single`), so the shared temporary manifest is there when it is
moved. `Linked`: a job that succeeded has a file behind its link, whatever the cache was before.

**WaybackTilesProofs**: `TileTypes`, `ReusableMosaicsWhole`, `ZoomIsJustified`, `MosaicIsReused`.
`Preflight`: a zoom checked without a failure knows every tile the service has in the windows behind
it. `Accounted`: every wanted tile the service has is still to be asked for, in the batch or pasted,
unless an attempt failed. `Made`: a reusable mosaic has every tile of the area the service has, and
says of itself what the next run will compare. `Staffed` and `Pool` bound workers and threads. The
settings, windows and tiles are arbitrary.

**WaybackMosaicsProofs**: `MosaicTypes`, `MosaicIsKept` (`MosaicStays`), `CanonicalIsSound`
(`CanonicalSound`). `Kept`: one request at a time looks and downloads (`LockedAt`), and while nobody
has looked with a list that the mosaic does not have, a request between its answer and its read has
a mosaic that the others reuse and do not replace (`Promised`, `KeptFor`). `Sound`: while one request
at a time makes the COG or the mask of an area, the temporary file is its own, so that what it moves
into place is whole (`CogAt`), and a mask that exists is whole and belongs to the COG (`AreaSound`).

**ReferenceImageryProofs**: `ImageryTypes`, for any way of materializing; `CanonicalIsOwn`
(`CanonicalOwn`) and `ReferenceIsShown` (`ReferenceShown`), for a configured way that works and is a
hard link or a copy. Paths then hold files only and resolve to themselves (`Plain`), a COG is of the
key it is under (`Own`), the file an operation is going to make is nowhere yet (`New`), and one
operation at a time is on a project (`Alone`). Since the key does not tell rasters apart, the rest is
about single operations (`OnItsWay`): after `EnsureCog` the raster under its key is its own unless the
project is in `crossed`, the project's path is empty before the link and shows the key and the raster
after it, and a load that met no doubt works on what the milestone says. A project without operations
shows what it refers to (`Shows`), one with an operation is at it (`Linking`). `PartsMove` is the frame:
a step on one project leaves all others as they are (`Left`), but for a COG it replaces with one of
the same key (`Replaced`). With symbolic links `CanonicalOwn` is false; section 3 says how.

The assumptions on constants only keep names apart (a worker from an API thread, a project from an
area, an entry's author from "nobody") and say that bounds are naturals, that the raster of a detection has
bounds, and that settings are ones the configuration admits.

Only model-checked: liveness (`CancelStopsWork`, `SentTaskReturns`, `EveryCallerReturns`,
`EveryPreflightReturns`, `EveryJobSettles`, `EveryRequestEnds`), because neither reasoning from
fairness nor ENABLED is within the prover's reach. Every other property of a passing run is a
theorem, under the hypotheses named above.

## 5. Plan

Every component with state shared between processes, threads or requests has its module, and every
safety and action property of a run its theorem. What is left, in order:

1. `TemporalProject` completed: large results without a cumulative footprint,
   `publish_completed_tiled_request`, removal of the baseline; and the proofs of `Chain` and `Growing`
   carried over to it.
2. `TimelineSpec`, an abstract specification of a project without overlap, interruption and failure:
   a chain of complete milestones whose footprints are the unions of what they and their
   predecessors claim, to be implemented by `TemporalProject`, with the refinement proved.
3. `ReferenceImagery` where the way falls back to a symbolic link: what does hold there.
4. The audit of `request_cleanup.py` against the readers in `WaybackMosaics`.

Each module has one passing run, and the runs of a component whose questions a later one also
answers are merged.

## 6. Not modelled

Inference, rasters, vectorization and geometry: computations on rasters and reals. HTTP parsing,
configuration, formats of exports, QGIS files, logs and timings: no state shared between
steps. `services/request_cleanup.py` file by file: `TemporalProject` has its effect on cached
responses and `WaybackMosaics` the end of a request's files. The list of releases
(`domain/wayback_release_cache.py`) is one file read and replaced in single steps. The metadata
queries of `domain/wayback.py` are an answer or an exception. Of the imagery: the copy of a mosaic
into the request's directory (off by default), the alignment of a pair, repairs that take the COG of
another project, the rendering of tiles, a release without a number and a disabled preflight. The
frontend beyond the edits it makes of the list of milestones and its polling of exports, and the
QGIS plugin, a client of the same API. The vendored network, deployment, and scripts run by hand; one
of them, `src/backend/scripts/mark_stale_jobs_failed.py`, settles job rows left running, which
`JobLifecycle` does not include.
