# landsat-lst: a verification project

`landsat-lst` builds land-surface-temperature tiles from Landsat scenes. A fleet run
drives many tiles through four stages on rented machines: the **offsets** stage (resolve
the scenes, reduce a climatology, estimate per-scene offsets), a **merge** in the driver
process, the **composite** (one unit per row band) and the **export** of two COGs. One
driver process polls an object store and a control plane; workers are plain processes that
take units off an array and publish artifacts at keys which are functions of their index.
Nothing but the bucket is shared, nothing is locked, and completion is "the key is listed".
These modules state what that protocol promises, what the tile is that it produces, and
what is published of it; they check it on small instances with TLC and prove part of it for
every instance with TLAPS.

## 1. The system

| Component | State it keeps | Operations | Talks to | What makes it correct |
|---|---|---|---|---|
| Fleet driver, capacity (`fleet_driver.FleetDriver`) | `_live` waves, `_wave_no`, the census, the ghost ledger; wave records in the bucket | adopt, take census, retire, reap, flush, submit with retries | backend, bucket | the run never holds more workers than `fleet_max_vms`; whatever may run is recorded and charged; a stranded wave does not block the run for ever |
| Fleet driver, tiles (`TileTrack`, `PollIndex`) | stage of each tile, buffered demands, the poll's listing; submission records per tile, stage and round | refresh, step, demand, flush, settle, abandon | bucket, capacity half | no stage is submitted beyond its barrier rounds; running work is not repeated; the run ends; a tile is failed only for what is missing |
| Backend (`fleet_backend`, `batch`) | arrays, workers | submit, census, probe, cancel | Coiled | names are unique while they run; a census never invents workers |
| Workers (`shard_tasks`) | `items.json`, `plan.json`, blocks, partials, bands, export claim, COGs | resolve, climatology, barrier, offsets, composite, claim, export | bucket only | a tile is made from one scene set; lost units can be asked for again; the last band leads to an export |
| Single-tile driver (`shard_driver`) | one `StageMachine` per stage, submission records | bootstrap, run rounds, adopt, watch, overlap, await export | bucket, Coiled | drivers that follow one another do not collide, give up early or hang |
| Offsets cache (`offsets`, ADR-012) | one record per scene set | read, write, merge partials | bucket | a record is used for the scenes it was computed from |
| Staging (`staging`) | decoded blocks between phases A and B | stage, read, sweep | bucket | a batch is read as it was staged, chunk for chunk |
| Heartbeats (`progress`, `watch`, `runs`) | one state object per attempt, a pointer | beat, finish, classify, watch | bucket | the pointer is a verdict; a retry keeps the evidence of the attempts before it |
| Per-tile batch (`batch`, `job`, `manifest`) | tasks of one VM per tile, run manifest | submit, retry, skip, upload, reconcile | Coiled, bucket | the two COGs of a tile match; done means both are there |
| Gates (`quota`) | none | identity, write access of every writer, balance, price | Coiled, AWS | a run they let through can write and be paid for |
| Launch (`cli`, `fleet_driver`, `fleet_backend`) | run manifest, plans | preflight, drive, resume, plan, flush | gates, bucket | the width a run was launched with stays its width |
| Plan arithmetic (`shards`, `budgets`) | none | blocks, weights, balanced groups, batches, bands, deadlines | | partitions cover and do not overlap; deadlines cover the queue |
| Pixels (`pipeline`, `kernels`, `masks`, `normalization`, `encoding`, `qa`) | none | load, mask, destripe, composite, encode | STAC | shards and one process compute the same tile |
| COGs (`cog`) | intermediates | products, merge, statistics, coverage tags | bucket | bands laid together are the tile |
| Gap mask (`ged*`, `scripts/fetch_ged_granules`, `scripts/build_ged_gap_mask`) | inventory, granules, artifact, pinned digest | list, download, build, verify, mask | LP DAAC, wheel | every tile is masked by every gap near it, and nothing is masked silently |
| Catalog (`catalog/*`) | tree of COGs, items, collection, parquet | scan, build, place, publish | bucket | what is published points at what exists and describes it |
| Tiling, tokens, publication check, instruments, scripts | files beside a run | | | not modelled |

What is hard here: the driver may be killed between a record and the submission it
announces; an answer may be lost although the array started; the control plane may be
silent, or list an array late; listings are older than the decisions taken on them; a unit
that is merely slow is asked for again while its first worker runs; workers wait in process
for peers that may be queued or dead; every error in a bookkeeping object is swallowed by
design; a tile is two objects and a catalog many, written without a commit; and the same
pixels are cut three ways (blocks, scene batches, bands) and have to come together again. `PROJECT.json` lists these places line by line under `hazards`.

## 2. Modules

| Module | Models | Depends on |
|---|---|---|
| `Widths` | the sum of a family of bounded numbers, as the size of a set | |
| `Counting` | lemmas: that sum (type, update, monotonicity, zero), least and largest elements, functions defined by recursion on a number, products and quotients | `Widths` |
| `WorkerPool` | abstract: width is set aside before an array starts, within a cap | `Widths` |
| `FleetCapacity` | the capacity half of the fleet driver | `Widths`, `WorkerPool` |
| `FleetCapacityProofs` | theorems about it: types, the cap, charges, records, names; it implements `WorkerPool`; releases are earned | `FleetCapacity`, `Counting` |
| `FleetTile` | the barrier half of the fleet driver | |
| `FleetTileProofs` | theorems about it | `FleetTile` |
| `TileShards` | the workers of one tile | |
| `TileShardsProofs` | theorems about it | `TileShards` |
| `TileRun` | one task of a per-tile batch, its retries, heartbeat, records and readers | |
| `TileRunProofs` | theorems about it | `TileRun`, `Counting` |
| `DriveTile` | the driver of one sharded tile, killed and resumed | |
| `DriveTileProofs` | theorems about it | `DriveTile`, `Counting` |
| `Shards` | how a tile is cut and who owns each piece | |
| `Budgets` | what a stage may take and what a wave is given | `Shards` |
| `Quota` | identities, write probes, balances | |
| `Launch` | a fleet run from the shell to its waves | `Budgets`, `Quota` |
| `LaunchProofs` | theorems about its gates, how it cuts a tile and the deadlines of its waves | `Launch`, `Counting` |
| `Ged` | granules, cells, the artifact and the mask of a tile | `Shards` |
| `GedArchive` | how the artifact is fetched, built and packaged | `Ged` |
| `Raster` | from items to a composite, as one process computes it | `Ged` |
| `Cog` | from a composite to two finished COGs | `Raster` |
| `TileData` | what the shards of a tile compute, beside the same from one process | `Cog`, `GedArchive` |
| `Catalog` | builds and publishes, file by file | |
| `PublishedProofs` | theorems about what is shipped: the catalog and the packaged gap mask | `Catalog`, `GedArchive`, `Counting` |
| `MCLaunch`, `MCTileData`, `MCCatalog` | the inputs of small instances | |

### FleetCapacity

A wave is `<<stage, number>>`, which is the `submission_identity` of the code. The process
is at one of the places of `run()`: `observe` (listing and census), `retire`, `reap`,
`admit` (the flush loop, walking `WAVE_STAGES` with `stage`), `submit` (inside
`_submit_with_retries`), or `down`. `wv` is `_live`, `rec` the wave records, `workers` the
arrays that are really up, `hidden` those the control plane does not list yet. `Adopt` is
`adopt_live_waves`, which then observes and retires once before the loop (`adopting`).
`Retire` is `_retire` with its evidence refresh: the five rules of `_discharge_reason` are
the sets `dead`, `CensusAbsent`, `ArrayEnded`, `StrandedUnconfirmed` and their complement.
`InFlight` is the one capacity rule. `Flush` numbers, sizes, charges and records a wave in
one step, because nothing the model lets fail lies between; `SubmitAcknowledged`,
`SubmitFails` and `SubmitAborts` are the outcomes of one attempt, and a failed attempt may
have started its array. `Crash` drops everything held in memory. Time is reduced to the
horizons the code compares it with: past the deadline, past a further boot, past a grace,
past the ghost's TTL.

Three constants say what may go wrong around the driver: `Outage` (no census, a reap not
heard, worker details unreadable), `CensusLag` (a new array is not listed yet) and
`StoreFails` (a record's write or a listing fails; the code logs and goes on).

### FleetTile

`seen` is the listing a poll judges by (`PollIndex`), `art` the bucket. `Step` is
`TileTrack.step`, one action per `_step_*`: bootstrap, offsets (with the overlapped
composite demand), merge, composite, export. `Wanted`, `Held`, `IsLive`, `BudgetSpent` and
`Exhausted` are the parts of `_demand`. A wave is a set of `<<tile, unit>>` and the
submission records name it per round. `Census` and `EndPoll` are the two ends of a poll
around the steps; `CeilingReached`, `Abandon` and the last `EndPoll` end the run. Workers
publish, are lost, or claim the export. Here capacity is abstract: a stage that could be
flushed may be passed over. The census is taken to be truthful about arrays that ended
(its lag is the subject of `FleetCapacity`).

### TileShards

`Worker` machines share `queue`, the units the tile's running waves still hold. A task is
at a named place, with the plan it read (`cut`), the items it loaded (`scenes`) and what
its arrays are made from (`uses`). Every read and write of a shared object is a step of its
own: `ReadPlan` and `ReadItems` are the two requests of `load_context`; `LookForPlan`,
`WriteItems`, `WritePlan` are `resolve_tile_plan` around its query of the live catalog;
`CheckBlocks`/`PublishBlocks` and `CheckBand`/`WriteBand` are the check-own-output-first rule;
`PassBarrier` is `wait_for_blocks` and the assembly after it; `Claim`, `Sign`, `Export` are
`claim_export`. `Stop` is a killed machine, a raised exception, or a bounded wait that
expired. `Submit` and `Merge` are the driver, reduced to what the tile's workers see of it.
An artifact is the set of scene sets it mixes. Two plans are taken to cut the tile into
groups of the same indexes.

### TileRun

`task` is what Coiled holds of a tile, `proc` the main thread of each process it starts,
`beat` the state a heartbeat thread has taken under its lock and not yet stored. `Number`
is `resolve_attempt`, `CheckCogs` the skip of a tile that is there, `ResolveItems` to
`UploadLst` the work, `FailsForGood` and `FailsTransiently` the two exits of
`_process_distributed`, `LeaveHeartbeat`, `WritePointer`, `UploadLog`, `Exit` the way out.
The cache is keyed by the scene set, and a process knows from which scenes and offsets its
rasters come. `Verdict` and `Manifest` are `reconcile_run`, which may be run at any moment;
`WatchList` and `WatchRead` are one poll of `watch`, which keeps bodies between polls under
the modification times its listing gave. Those are whole seconds in S3, so a write may give
an object the time it already had (`Rewritten`): the watcher then goes on serving what it
read before, and `blurred` says that this happened. It holds the body of the key it
listed last, since a key that gave way to another one is not listed again. With `BucketFails` every write under the run
prefix may be dropped and a heartbeat may hang in one.

### DriveTile

`StartOffsets` and `SeePlan` are `ensure_started` and the wait for the plan. A submission is
two records around an array that may start although its answer is lost (`StartRound`,
`SubmitAnswers`, `SubmitRaises`); `StageOf` and `RoundOf` say whose it is, because the hook
of the offsets barrier makes one for the composite. `Check`, `Adopt`, `StartRound`, `Watch`,
`Hook` and `Probe` are the states of `StageMachine.run` with its step limit; `Hook` starts the
composite early once `Needed` partials are there (`_overlap_ready`), at most once per driver;
`Merge` and `AwaitExport` are what follows. `Killed` and `DriverBegins` replace the driver at
any point. A write of a record may be dropped (`Records`) and a read may miss records and
find an older one or none (`Finds`), as `_record_submission` and `_submission_records`
swallow their errors; `unread` and `unwritten` remember the stages. Time is the age of a
record and what is left of the deadline in hand.

### Shards, Budgets, Quota, Launch

`Shards` translates the cut: block spans from a memory bound, weights of blocks from the
footprints over them, `balance_by_weight` with its dynamic program, partitions of batches,
block-aligned band edges, and the group of each unit. `Budgets` adds the terms of each
stage and `wave_deadline_s`. `Quota` is `preflight_write_access` for every identity a run
writes as, and `preflight_credits` over what either endpoint of Coiled answers. `Launch`
puts them in order: the shell asks the gates, the driver asks them again of a world that
may have changed, publishes roster and width, dies and is resumed under other settings,
plans tiles and flushes waves. Its properties hold the cut and the deadlines against
references written another way: exact ownership of every pixel, block, scene and row; the
lightest of all contiguous splits; a simulation of workers taking units off the wave's list.

### Ged, GedArchive, Raster, Cog, TileData

`Raster` is the program's arithmetic on a tile one pixel wide: which items, grouped by solar
day, the first covering item winning; quality bits; counts to temperatures; land and gaps;
monthly climatologies, scene offsets with their floors and limits; the P95 and the counts;
the encoded numbers. Temperatures are integers in units small enough for two medians and a
percentile to be exact. `Cog` makes the two products and their tags. `Ged` gives the mask
of some rows of a tile from whichever source a process resolves, and `GedArchive` the life
of the packaged artifact. `TileData` lets shards do the same in pieces: blocks read in turns as wide as a buffer
allows and staged in time chunks (`StagedCounts`), chunks put back into scene batches by
position (`StagedBatch`), the climatology assembled from
published blocks, partials merged and joined by time, bands composited with a window of
both masks and laid together. `ProcessTile`, `ComputeTileOffsets` and `CogExport` are the
local path of the code, which the properties hold the sharded path against. `InGap` says of
the globe what the mask says of windows and granules; `WheelMasksEveryTile` compares the two
and is stated in `GedArchive`, which has a specification of its own (`SpecArchive`). Every
step of `TileData` takes a step of that one or leaves its variables alone.

### Catalog

`Export` is a worker replacing a COG; `BuildCatalog` scans and fixes the order of files,
`WriteBegins` and `WriteEnds` are `place_file` (a COG is there torn between the two) and the
other writes; `PublishCatalog` lists the bucket once and walks the tree, `Upload` sends one
file. `Dies` ends either command anywhere. A file is what it says: a version, the versions
an item describes, the items a collection links. What a command has still to do is a set,
worked through in the order of `BuildOrder` or `Walk`: a phase for each kind of file, and
within a phase tile by tile.

## 3. Runs

| Run | What it shows | Instance |
|---|---|---|
| `capacity` | the cap holds, running arrays are charged, the driver refines `WorkerPool`, stranded waves are settled | 2 stages of 1 wave, cap 2, waves of 1 or 2 units, 1 attempt, reliable surroundings |
| `lagging` | records precede workers, names are free, released width is earned or ghosted | 1 stage of 2 waves, cap 1, outages and census lag |
| `tile` | round budget; running work repeated only when its wave is stranded | 1 tile, 1 unit per stage, 2 rounds, 3 waves |
| `tile_ends` | the run ends with every tile completed or failed | the same, 1 round |
| `shards` | one scene set; plan and items belong together; last band is claimed; owed blocks are asked for | 3 machines, 3 offsets units, 2 of them with scenes, 2 bands, 2 scene sets, 2 rounds |
| `tile_run` | the COGs match each other and their offsets; done means stored; the pointer is a verdict; evidence is kept; a manifest only grows; nothing hangs; a body a watcher serves is the stored one, or was replaced within its second | 1 retry, 2 scene sets, failing bucket, a watcher |
| `drive_tile` | one fresh array; no stage given up early | 2 drivers, 2 rounds, 1 attempt, deadline 1, 1 unit, 1 failing read or write of a record |
| `driver_ends` | the driver ends; the composite is started on the share of partials asked for | 2 drivers, 2 rounds, 2 attempts, 2 units of which 60 percent, hence both, are needed; records kept |
| `launch` | a run that starts can write and can be paid; every piece has one owner; splits are the lightest; deadlines cover the queue | 2 tiles, widths 2 to 4, 1 to 7 scenes, 4 identities |
| `tile_data` | merged offsets are the tile's; bands make the tile's COGs; the packaged mask covers every gap | 6 rows, factor 2, 3 to 6 steps of 8 kinds in chunks of 2, 4 land masks, 3 collections |
| `catalog` | links always resolve; after a publish items describe the COGs beside them | 2 tiles, one COG exported twice |
| `lost_record` | violation: a first record without an array blocks every later driver | as `drive_tile`, records kept |

**Why the bounds are enough.** Two concurrent waves against a cap either of them fills are
what an over-run needs, and two units against one machine give partial landings. A tile with
one unit per stage meets every branch of `_demand`; two rounds and three waves let a
resumed driver meet a record of each round. In `TileShards` three machines hold a resolver,
a reader and a late copy at once, fewer machines than queued work makes waiting behind a
queue happen, and two bands are the least for which "last to finish" differs from "last
index". In `TileRun` one retry is the least that has an earlier attempt to contradict, two
scene sets the least that can be mixed. In `DriveTile` a second driver meets everything the
first one left, a second round makes "the last record" differ from "the first", and a
deadline of one tick has both fresh records and expired ones, and records renewed by an answer.
One failure is enough to drop a record or to miss one; the array an attempt may have started
is told from the recorded one with a single attempt, and `driver_ends` has two. The overlap
needs more than one unit, since with one the barrier ends before it could begin: of the two in
`driver_ends` the first is not enough, the second ends the barrier or lets the composite start
in the poll that has not seen it, and a round may be asked for again with one of them missing.
`MCLaunch` has widths, shapes and footprints that do not divide evenly, a
resumed shell whose width differs, every identity weak in every operation, and accounts that
can pay for one tile, just for two, or not quite, with a source that gives a figure, one that
only says yes or no, and pages that break off. In
`MCTileData` items come in twos within a day and in no order, some footprints miss a whole
band, a cap of `MaxScenes` cuts the answer, five steps make two batches of which the first
holds two chunks, a block of two pixels is read in two turns and one of a pixel in one, plans carry truncated times, and the globe of
8 by 8 cells has one tile at the north pole and one near the south pole on either side of the antimeridian,
granules stored upside down or mirrored, and a core granule the collection lacks. In
`Catalog` two tiles tell a restricted build from a full one, and the COG exported twice is
the one whose item can go stale.

Named bounds, which the code does not have: `MaxWaves` and `MaxUnits` (`FleetCapacity`,
`FleetTile`), `Drivers` and `Failures` (`DriveTile`), `MaxHeadroom` (`Launch`), `MaxVersion` (`Catalog`).
`Rounds`, `SubmitRetries`, `Retries`, `MaxScenes` and the cap are the settings.

**Deadlock** is checked for `FleetCapacity`, whose driver can always be restarted. The other
runs do not check it, because the system they model really stops: a run that ended, a tile
that is built or given up, a task that is done, a plan with nothing more to flush, a catalog
that is published and whose COGs are final. That a step is possible where one must be is stated
instead, in `RunEnds`, `DriverEnds` and `NothingIsStuck`.

**Fairness.** `FleetCapacity`: a driver that is up keeps stepping, and for every wave the
world moves on, by a clock or by a reap that was heard and takes effect; in the instance every
reap is heard. `FleetTile`: a driver that is up keeps polling; clocks
and flushes are strongly fair, because a flush is enabled only at its place in a poll, and
capacity (the other module) gives headroom again and again. `DriveTile`: the driver's loop
and the clock are weakly fair. No fairness is given to workers, to a dead driver, or to
giving up: nothing in the code makes a worker publish, so `RunEnds`, `StrandedIsSettled` and
`DriverEnds` hold when none ever does.

**Mutants.** Beside the definitions they break stand operators such as `InFlightByCensus`,
`KeepItems`, `SinceFirstRecord` or `WalkFilesFirst`, each a plausible mistake in that code;
each property of a passing run fails under one of them.

### Findings

- `lost_record`: `ensure_started` starts nothing when the stage has a record of any age, and
  then waits for a plan instead of entering the barrier in which an old record would expire.
  A driver that dies between its first record and the submission therefore makes every
  later driver of the run fail without submitting, where the docstring
  (`shard_driver.py:499-502`) and ADR-016 promise one barrier timeout of waiting.

Seen on the way, without a run of their own. The first group shows by the constants of a
module, with a property that is stated there:

- `UnreadFailsNoTile` (`DriveTile`, `Failures = 1`) is violated: `StageMachine.run` reads the
  records in its `check` state and once more in `adopt`, where it takes the last without asking
  whether there is one. A listing that fails or a body that cannot be parsed in between ends
  the barrier with an `IndexError` (`shard_driver.py:620`), where the docstring
  (`shard_driver.py:462-467`) says that failing a tile for an unreadable record would be worse
  than submitting twice.
- `CachedIsCurrent` (`TileRun`) is violated: the watcher reads a body again when its
  modification time differs (`watch.py:487`), which S3 tells in whole seconds
  (`storage.py:447`). A state replaced within its second is served as it was, until it is
  written again; a final state never is.
- `AsksForEveryBlock` (`TileShards`, `SceneShards < RefShards`) is violated: the offsets barrier
  knows partials only, and a unit past `scene_shards` owns blocks all others wait for
  (`shards.py:399-403`); once it is lost no round asks for it.
- `Repeats = TRUE` violates `OneSceneSet`: `resolve_tile_plan` is a read, a long query and two
  unconditional writes, and a barrier round asks again for a shard 0 that may still run
  (`shard_tasks.py:15-17`). The run `shards` and two theorems suppose one resolver at a time.
- `CensusLag = TRUE` violates `SafetyC`: a wave is discharged as `census_absent` by any
  census that does not list it, and a cluster without worker records is not listed.
- `Outage = TRUE` takes the cap past twice its value with three waves: ghost charges expire
  while their workers run, and nothing bounds how many waves pass through the ledger. With room
  under the cap it also violates `StrandedIsSettled`: a wave whose reaps are never heard keeps
  its width, because a run is abandoned only when no headroom is left.
- `ListingFails = TRUE` violates `RoundBudget`: a failed shared listing reads as no
  submission records, so spent rounds are minted again; with it or `RecordFails` a run need
  not end.
- `HardLinks = TRUE` violates `ItemsDescribeTheCogs`: `LocalStorage.upload` rewrites a COG in
  place, and so the catalog's hard link to it (`storage.py:269-272`, `scan.py:174-181`),
  so the catalog drifts from its files, which `scan.py:8-9` rules out.

Fleet and shards:

- The poll lists the bucket before it asks which arrays died, so a tile whose last unit
  landed in between is failed although its artifacts are there.
- The merge writes through a cache that never raises; a lost record leaves the composite
  nothing to read.
- A stranded wave released by rule 5 in degraded mode is never asked to stop, because
  `_retire` runs before `_reap_stranded`; buffered demands are not dropped when their units
  land.
- A wave with fewer workers than a tile's offsets units lets its workers wait for blocks
  that are queued behind them, until `shard_block_wait_s`.
- The hook of the overlap swallows a failed submission. A read of the records that misses the
  newest one lets a second array start while the first is fresh, which `_submission_records`
  accepts; `OneFreshArray` sets such a stage aside by name (`unread`) and no other.

One tile:

- A failure that is final writes the pointer and then exits with 1, which makes Coiled
  retry it (`cli.py:312-314` against `runs.py:118-126`); a transient one counts as failed
  while its retry is pending.
- `watch` never returns when the last attempt dies in mid-phase (`cli.py:1402` says it does).
- A late heartbeat write can replace the terminal state of its own attempt.
- With `--force`, a task whose retries end between two uploads leaves COGs of two runs.
- `_rebuild_job` (`batch.py:1280-1289`) drops `max_scenes`; the submission record is written
  after the array exists.
- Coarse production loads pass a geobox without `resolution_factor` (`pipeline.py:830`,
  `:927`), so they sample nearest, not as the docstring of `load_scenes` says.
- `qa_count` is a byte and wraps at 256 observations in a month.
- Reads with `fail_on_error=False` may cache an estimate made without scenes that failed.

Around a run:

- The cap on billing pages can under-count what was spent (`quota.py:612-654`).
- `tiles_intersecting_bbox` (`tiling.py:908-933`) misses tiles when the box is not aligned
  to the grid.
- A core granule that upstream lacks is served from the artifact, where its absence is
  recorded, and refused from a directory of granules.

## 4. Theorems

The theorems hold for every value of the constants that satisfies the named assumptions of
the modules: any number of waves, units, tiles, rounds, retries, drivers, machines and
exports, and any length of behaviour. Each proof has the same outline: an inductive
invariant, a lemma for every action that could disturb it, one lemma for `Next`, and a
temporal step. What follows says for each module what is proved, under what, and which
facts had to be added before an invariant was inductive.

**`FleetCapacityProofs`**

- `TypeCorrect`: `Spec => []TypeOK`. The invariant adds that a process inside a submission
  is at a stage with a number (`SubmitOK`).
- `CapHolds`: `Reliable => (Spec => []SafetyC)`, where `Reliable` is no outage, no census
  lag and no failing record. `SafetyC` is not inductive: a step that starts an array needs
  to know its width was set aside. `CapInv` strengthens it with `UpIsRecorded` (an array up
  is no wider than its record), `LiveIsRecorded` (memory agrees with the records),
  `UpIsLive` (what is up is charged while a driver is), `NumbersAhead` (numbers of the
  records are taken), `CensusCovers` (a census of zero means nothing is up while `_retire`
  reads it), `CurrentIsLive` and `ReservedWithinCap` (the widths of arrays that are up, and of the
  one being submitted, sum to at most the cap). The step that matters is `Flush`: headroom
  is at least the sum of charges, each of which covers a reserved width.
- `ChargesHold`: `Reliable => (Spec => []ChargeCoversRunning)`, from the same invariant.
- `RecordsPrecedeWorkers` and `NamesAreFree`: `~StoreFails => ...`, whatever the control
  plane does, from a second invariant `NameInv` (arrays have records, and the numbers of
  recorded waves are behind the counters).
- `DriverIsPool`: `Reliable => (Spec => ImplementsPool)`. The driver refines `WorkerPool`
  under the map of `workers` and `Reserved`: its initial states are the pool's, `Flush` is a
  reservation, an attempt that starts its array is the pool's start, whatever the caller
  learns of it, and every other step is a shrink or a stutter. `CapInv` supplies that the
  array starts at the width its record reserved.
- `ReleasesAreEarned`: `Spec => ReleaseIsEarned`, with no assumption on the surroundings:
  from `AbsenceIsSafe`, what the process may conclude from a census while it retires.

**`FleetTileProofs`**

- `TrackTypes`: `Spec => []TypeOK`.
- `RoundsAreBudgeted`: `~ListingFails /\ ~RecordFails => (Spec => []RoundBudget)`. The bound
  of what was submitted follows from the bound of what is on record only if nothing is
  submitted off the record. `BudgetInv` says that: records of a stage are a prefix of its
  rounds (`InOrder`), a listing is of that prefix (`RoundsListed`), a buffered demand is for
  the round after the last (`NextBuffered`), and each wave that carries a tile has its
  record (`OnRecord`).
- `RepeatsAreEarned`: `~ListingFails => (Spec => OnlyStrandedWorkIsRepeated)`. `WorkInv` says
  that waves are numbered in order and run no more than they were given, that what a process
  submits is charged, that a listing is never ahead of the bucket (`Published`), that a wave
  whose tiles think it over runs nothing (`Discharged`), and that a buffered unit is carried
  by stranded waves only (`BufferedIsFree`): the demand and its submission are polls apart, and
  this is what has to survive every step between.

**`TileShardsProofs`**

- `ShardTypes` and `LastBandClaims`: no assumption. Types rest on what a task must hold at
  each place (`Well`). A worker publishes its band before it looks for the others, so the one
  whose band completes the set still has its look ahead and finds all of it.
- `RoundsAskForBlocks`: `Spec => AsksForOwedBlocks`, for any two widths. The round is made from the
  partials, so what has to survive every step is that no partial is there while a block is
  missing: a shard publishes its partial only past a barrier that has seen all blocks, and
  blocks are never taken back.
- `PlanIsFrozen` and `TileIsOfOneSceneSet`: `~Repeats => ...`, that is, with one resolver at
  a time. `PlanInv`: shard 0 is queued or run at most once (`OneOwner`); a resolver between
  its two writes has written the items of the plan it is about to write (`Resolving`); what
  a task read of the plan or items is what they still are (`Follows`); every artifact
  is made from the scene set of the plan (`FromPlan`).

**`TileRunProofs`**

- One invariant, `RunInv`, orders the processes of a task: Coiled starts one only when the
  one before it is gone (`OneProcess`), each numbers itself just past what those before it
  left (`HasAttempt`, `ArtifactsBehind`), and a heartbeat holds a state of its own attempt
  (`BeatsOwn`). `TypeOK` is not inductive without it, because the next attempt is in range only by
  that count. `RunTypes` follows.
- `RastersOwnOffsets`, `DoneTasksHaveCogs`, `PointersAreVerdicts`, and `RastersMatch` with
  `~Forced`: from `MadeInv`, which adds from which scenes and offsets a running process has
  made what it uploads and what it found of the COGs.
- `EvidenceSurvives`: `~ListingFails => ...`, from `OwnInv`: what lies under the attempt of a
  process that runs was written by that process. `WatcherIsOfItsSecond` and `ManifestsGrow`
  need no assumption.

**`DriveTileProofs`**

- `OneArrayIsFresh` and `GivenUpWhenOverdue`: no assumption, and any number of records dropped
  when written or missed when read. `DriveInv`: of the arrays of a stage only that of the newest
  record may be within its deadline (`OnlyNewestIsFresh`), whoever is about to submit has seen
  that one expire (`Ready`), and the time a driver has left of a deadline is never less than what
  the record has left, while it watches that record's round (`Pace`). The last is what a
  resumed driver needs, for it measures from its own start; it holds of a stage whose records
  were kept (`Kept`), the others of all that were not misread.
- `OverlapEarned`: `Spec => []OverlapIsEarned`, for any number of units and any share of them,
  whatever is read of the records: a composite that is recorded or started has `Needed`
  partials behind it, or the whole offsets stage (`Earned`).

**`LaunchProofs`**

- `EveryPieceIsOwned`: `Spec => []EveryPieceHasAnOwner`, for every grid, number of scenes,
  set of footprints and width, and whatever shell resumes the run.
- `SplitsAreLightest`: `Spec => []LightestSplit`: the dynamic program of `balance_by_weight`,
  and its walk back over the table, find a split no other undercuts.
- Both follow from one invariant. `WidthIsKept`: a driver works at the width the manifest
  carries, and nothing is planned before there is one, which is what
  a resume by a shell with other settings could break. `PlansAreSound`: each plan is
  `WellPlanned` for that width. All the rest is about one plan.
- A cut (`IsCut`) of so many things into n runs is the function of where each run ends; a cut
  gives every thing one run (`CutOwns`) and every run a unit (`CutGivesUnits`). One lemma each
  says that `RunEnds`, `BandEdges`, `BalanceByLand`, `BalanceByWeight` and `SceneBatches`
  make a cut; `BlocksTile` says that a row of blocks and a column of blocks meet in one.
- What a recursive function of these computes is proved without the library's induction:
  `UpTo` is induction with a set in the place of the property, from the least counterexample,
  and `Recursion` gives a function from its first value and a step whose values may be of
  another kind at each place. The lightest split takes three inductions more: rows of the
  table hold reachable weights (`WeightsAreReached`), the walk back starts each run later than
  the one before (`CutsFromTheLast`), and no set of cuts has a heaviest group below the
  last row (`EverySplitIsHeavier`).

- `DeadlinesAreEnough`: `Spec => []DeadlineCoversTheQueue`, for every mix of tiles, queue depth
  and number of machines. `UnitsFit`: no unit of a stage takes more than the work its tile is
  budgeted, because the widest share is what the budget is made of and the slowest group is
  within it. `TakeFits` and `QueueFits` carry through the queue, one unit at a time, that what
  the workers have taken is no more than the units gone, and that none has taken more than
  the rounds and a tail: a worker can only be first free when it is below the average.
  `RoundsAreEnough` bounds the rounds by the queue depth, `FlushIsCovered` puts the two
  together where a wave gets its deadline, and `JobsAreTiles` keeps demands to tiles of the roster.
- `AdmittedRunsMayWrite`: `Spec => []WritersMayWrite`: `WriterSpecs` probes every identity a
  run writes as, whichever of them coincide (`WritersAreProbed`), and what a gate was
  shown stays with it until the driver asks again (`ShownToWrite`).
- `AdmittedRunsCanBePaid`: `(Spec => []RunsCanBePaid)` when every account is `Honest`: nothing is
  charged after the pages that are read, an endpoint's figure is no more than is left, and a
  person types no more than the limit. The gate reads at most so many pages and believes the
  other two, so an account of more activity passes with money it has spent. What was spent is
  meant of the window of days that is asked for: `quota.py:45-53` says which way that is wrong. What is read covers what was spent page by page, credits among the debits left out
  (`DebitsCover`, `SpendIsSeen`); each source, whichever of them fail, gives nothing or the truth
  (`BalanceIsTrue`); the price of a run with its safety factor is that of each tile with its
  own (`NeededOfRun`); and no step passes the gate by (`ShownToPay`).

**`PublishedProofs`**

- `LinksAlwaysResolve`: `Spec => []LinksResolve`. `LinkInv`: what a build has no more to
  write is in the tree and says what its scan said (`WrittenSoFar`); the collection of a tree
  whose build returned links tiles that are all there (`TreeClosed`); what a publish has no more
  to send is in the bucket (`SentSoFar`). With the walk's order the collection is sent when
  no file of a tile is left (`CollectionIsLate`).
- `PublishedItemsAreTrue`: `~HardLinks => (Spec => []ItemsDescribeTheCogs)`. `ItemsInv` adds
  that the tree agrees with itself once built (`TreeRight`) and the bucket with the tree as
  far as a publish got (`SentRight`), where a COG that was skipped has the length, and so the
  contents, of the one in the tree, and metadata is never skipped.
- `PackagedMasksAreTrue`: `SpecArchive => []WheelMasksEveryTile`, for every collection of
  granules, every globe that is whole granules wide and high, and any production tiles on it. `ArchiveInv`:
  whatever was downloaded is the collection's (`Taken`); an artifact knows the gaps of what it
  was built from and, as absent, only what the collection lacks (`Sound`); what was committed is
  sound, pinned and lacks nothing. Then geometry: a gap of one granule, turned around the
  globe or not, lies in the granule its cell names (`GranuleOfGap`); every cell within the buffer of
  a row of a tile is in the padded window (`WindowReaches`), and every cell of the window is in
  a granule the tile needs, which the artifact has read or the collection lacks (`WindowNeeds`,
  `NeededIsRead`); so the dilation finds every gap in reach and nothing else (`DilationIsTrue`).

**The assumptions are needed.** TLC finds the property violated under `CensusLag` or
`Outage` (cap), `ListingFails` (round budget, kept evidence), `Repeats` (one scene set),
`Forced` (matching COGs) and `HardLinks` (items); the states are described under
Findings. `MCLaunch` assumes that its own accounts are `Honest`, so that TLC evaluates that hypothesis. Every other condition is an `ASSUME` of the module that declares the constant:
counts are positive, a marker for "nothing" is none of the values it stands beside, and a tile
that is planned has a grid and at least one scene (`resolve_items` raises when there is none);
the workers always have a profile (`settings.aws_profile` is a string).

**Checked, not proved.** `StrandedIsSettled`, `RunEnds` and `DriverEnds` are liveness, and
`NothingIsStuck` speaks of `ENABLED`; both are out of the prover's reach. `OffsetsAreTheTiles`
and `BandsMakeTheTile` compare two ways through medians, percentiles and merges of sequences
of scenes, whose values only induction over the data would give: of these TLC checks
instances. Everything else the runs check is a theorem. No module declares a recursive
operator, and `Widths` defines a sum as a cardinality so that its lemmas need no induction.

## 5. What is left out

About 30 % of the implementation's lines are mapped. Most of the rest are instruments, the
cost model, profiling, the other commands of the CLI and text. `PROJECT.json` says for each
component whether it is modelled and why not. Left out of the parts that are:

- **Fleet.** Two drivers of one run at the same time; skew between the clocks of driver and
  bucket; backends that cannot be enumerated; the local and in-memory backends; reading
  climatology blocks one by one; heartbeats of shards.
- **Launch.** The gates a resume asks are reduced to pass or refuse, without memory; the last
  flushed wave is all that is kept; a second `shard fleet` under an existing run id is not
  modelled. `DeadlineCoversTheQueue` does not speak of offsets waves narrower than their
  unit list, which wait for each other (`shard_tasks.py:832`), nor of waves holding a tile
  without a plan, whose deadline is a guess (`fleet_driver.py:142-150`). What an account
  really spent is known only up to the cap on pages.
- **One tile.** Tiles are a pixel wide, so the writing by longitude groups and
  `_load_by_column` are not seen; a resolution factor of 1 is not run; the quotients
  `int(i * step)` are taken exact; reads are deterministic; reprojection, dask and retries of
  requests are left out. The loader (solar days, first covering item, the stamp of the
  earliest) is external and modelled from how the code uses it, as are overviews and
  `cog_translate`. `BandsMakeTheTile` speaks of tiles all of whose bands composite.
- **Gap mask.** The collection is closed while an archive is made; packaging is the human
  commit `ged.py:104-109` prescribes, of a build that lists nothing as missing. The build
  script writes its artifact before it refuses an incomplete one, so a partial one may lie
  in the package until the pin refuses it. Labels of why a granule is absent and the schema of the inventory
  are left out.
- **Catalog.** The source is quiescent during a build; assets are placed; only a tree whose
  build returned is published; versions of a COG differ in size, those of a parquet
  of as many items do not; objects are never deleted. That `pystac` saves children before parents is
  external. Thumbnail, markdown, item formatting and the validator are left out, and a first
  publish sends `catalog.json` before the collection it links.
- **Not modelled at all.** SAS tokens (a late refresh is a failed read, which the models
  allow anyway), tiling and projection, the publication check, instruments, other scripts.

## 6. Plan

1. done: `FleetCapacity`, `WorkerPool`, `FleetTile`, `TileShards`, and the proofs of the cap.
2. done: the per-tile batch and its readers (`TileRun`), the single-tile driver
   (`DriveTile`), plan arithmetic, deadlines and gates (`Launch`), pixels, gap mask and COGs
   (`TileData`), the catalog.
3. `FleetRun`: several tiles sharing waves under the real capacity rule, composing the two
   halves of the driver; the mutual wait of a wave narrower than a tile, with time; both
   drivers against one abstract barrier.
4. done: proofs of the capacity half and its refinement of `WorkerPool`, of the barriers, the
   workers of a tile, the per-tile batch, the single-tile driver, the cut of a tile, its
   deadlines, the gates, the catalog and the packaged gap mask.
5. Proofs that merging offsets and laying bands together loses nothing, from lemmas about
   sorted sequences and their medians.
