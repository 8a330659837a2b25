------------------------------- MODULE Launch -------------------------------
(***************************************************************************)
(* A fleet run from the command line to its waves: the gates, asked by the *)
(* shell and again by the driver; the manifest; a driver that dies and is  *)
(* resumed; the plan of each tile; and the waves the driver flushes, with  *)
(* the deadline it gives them.                                             *)
(***************************************************************************)
EXTENDS Budgets, Quota

CONSTANTS
  Tiles,          \* every tile a run may name
  Rosters,        \* the sequences of tiles runs are started for
  Shells,         \* environments the driver may be launched from
  Permissions,    \* what each identity may do
  Accounts,       \* what Coiled may answer; each holds its true limit
  Configured,     \* offsets widths the shells may be configured with, 0 for none
  Ground,         \* for each tile: [shape, land, factor, footprints] it may have
  OffsetsVcpus, CompositeVcpus,   \* of one machine
  OffsetsHours, CompositeHours,   \* of one machine for a whole tile
  MaxHeadroom     \* bound: machines the cap may leave a wave

\* No scene at all is an error before there is a plan (pipeline.resolve_items).
ASSUME LaunchAssumption ==
  /\ \A t \in Tiles : \A ground \in Ground[t] :
       /\ ground.shape \in (Nat \ {0}) \X (Nat \ {0}) /\ ground.factor \in Nat \ {0}
       /\ ground.footprints \in Seq(Int \X Int \X Int \X Int) /\ ground.footprints # <<>>
  /\ Configured \subseteq Nat /\ Rosters \subseteq Seq(Tiles)
  /\ {OffsetsVcpus, CompositeVcpus, OffsetsHours, CompositeHours} \subseteq Nat
  /\ MaxHeadroom \in Nat \ {0}
  /\ Accounts \subseteq
       [endpoint : [up : BOOLEAN, has_quota : BOOLEAN \cup {None}, remaining : Int \cup {None}],
        pages : Seq(Seq(Int)), broken : Nat, limit : Int, operator : Int \cup {None}]

VARIABLES
  gate,      \* where the run stands, and what its gates have been shown
  manifest,  \* the published roster and width, None before
  plans,     \* the published plan of each tile, None before
  wave       \* the wave the last step flushed, or None

vars == <<gate, manifest, plans, wave>>

Init ==
  /\ gate = [at |-> "idle"]
  /\ manifest = None
  /\ plans = [t \in Tiles |-> None]
  /\ wave = None

-----------------------------------------------------------------------------
(* The gates.                                                              *)

Refused == [at |-> "refused"]

\* The workers always write S3.
RequireSharedStorage(storage) == storage = "s3"

\* Before there is a plan each fleet is priced at the widths projected for it.
RunFleets ==
  <<<<AutoOffsets, OffsetsVcpus, VmBoot + Resolve + OffsetsHours \div AutoOffsets>>,
    <<AutoComposite, CompositeVcpus, VmBoot + CompositeHours \div AutoComposite>>>>

EstimateRunCredits == CreditsForFleets(RunFleets)

\* shard fleet: what it is asked for is fixed here; no run is named yet.
ShardFleet ==
  /\ gate.at = "idle"
  /\ \E jobs \in Rosters, shell \in Shells, acked \in BOOLEAN, storage \in {"s3", "local"} :
       gate' = IF RequireSharedStorage(storage)
               THEN [at |-> "identity", by |-> "shell", jobs |-> jobs, shell |-> shell, acked |-> acked]
               ELSE Refused
  /\ UNCHANGED <<manifest, plans, wave>>

\* Who am I is asked as the driver; then every writer probes.
PreflightWriters ==
  /\ gate.at = "identity"
  /\ \E answers \in BOOLEAN, allows \in Permissions :
       gate' = IF PreflightIdentity(answers) /\ PreflightWriteAccess(gate.shell, allows)
               THEN [at |-> "credits", by |-> gate.by, jobs |-> gate.jobs, shell |-> gate.shell,
                     acked |-> gate.acked, allows |-> allows] ELSE Refused
  /\ UNCHANGED <<manifest, plans, wave>>

\* A mutant: one tile's estimate, for the run.
PriceOfOneTile(jobs) == EstimateRunCredits

\* CoiledFleetBackend.preflight: one tile's estimate, for every tile.
Price(jobs) == EstimateRunCredits * Len(jobs)

PreflightBalance ==
  /\ gate.at = "credits"
  /\ \E account \in Accounts :
       gate' = IF PreflightCredits(account, gate.acked, Price(gate.jobs))
               THEN [at |-> "passed", by |-> gate.by, jobs |-> gate.jobs, shell |-> gate.shell,
                     acked |-> gate.acked, allows |-> gate.allows, account |-> account] ELSE Refused
  /\ UNCHANGED <<manifest, plans, wave>>

\* The driver asks everything again, of a world that may have changed.
AskAgain ==
  /\ gate.at = "passed" /\ gate.by = "shell"
  /\ gate' = [at |-> "identity", by |-> "driver", jobs |-> gate.jobs,
              shell |-> gate.shell, acked |-> gate.acked]
  /\ UNCHANGED <<manifest, plans, wave>>

\* drive_fleet: the roster and the width are published before anything starts.
\* What the gates read is logged and let go.
WriteManifest ==
  /\ gate.at = "passed" /\ gate.by = "driver"
  /\ \E configured \in Configured :
       LET units == OffsetsFleetUnits(configured)
       IN  /\ manifest' = [jobs |-> gate.jobs, units |-> units]
           /\ gate' = [at |-> "driving", units |-> units]
  /\ UNCHANGED <<plans, wave>>

Die ==
  /\ gate.at = "driving"
  /\ gate' = [at |-> "down"]
  /\ wave' = None
  /\ UNCHANGED <<manifest, plans>>

\* A mutant: the width is derived again, under the settings of this shell.
WidthOfTheShell(configured) == OffsetsFleetUnits(configured)
ReadManifest(configured) == manifest.units

\* resume_fleet, from a shell with its own settings.  The gates have no memory:
\* they pass as they may have at first, or refuse and leave the run as it is.
Resume ==
  /\ gate.at = "down"
  /\ \E configured \in Configured : gate' = [at |-> "driving", units |-> ReadManifest(configured)]
  /\ wave' = None
  /\ UNCHANGED <<manifest, plans>>

-----------------------------------------------------------------------------
(* Plans and waves.                                                        *)

\* A worker reads its tile's window in the manifest, or does nothing.
JobForToken(t) == t \in ToSet(manifest.jobs)

\* Shard 0 publishes the plan, for the width its command carries.
Plan(t) ==
  /\ gate.at = "driving"
  /\ JobForToken(t) /\ plans[t] = None
  /\ \E ground \in Ground[t], weighted \in BOOLEAN :
       plans' = [plans EXCEPT ![t] =
                   ResolveTilePlan(ground.shape, ground.land, ground.factor,
                                   Len(ground.footprints), ground.footprints,
                                   gate.units, weighted)]
  /\ wave' = None
  /\ UNCHANGED <<gate, manifest>>

ArtifactsOf(stage, plan) ==
  CASE stage = "offsets" -> plan.scene_shards
    [] stage = "composite" -> plan.band_shards
    [] stage = "export" -> 1

\* What a tile demands of a stage: its whole width, and its terms.
Demand(stage, t) ==
  IF plans[t] = None THEN [units |-> gate.units, terms |-> BootstrapBudget]
  ELSE [units |-> ArtifactsOf(stage, plans[t]), terms |-> StageBudget(stage, plans[t])]

\* submit_fleet_stage: one array; the units beyond its workers queue.
SubmitFleetStage(stage, units, maxWorkers) ==
  [stage |-> stage, units |-> units, workers |-> Higher(1, Lower(maxWorkers, Len(units)))]

\* One list of units, tile after tile.
UnitList(jobs, demand) ==
  LET list[k \in 0..Len(jobs)] ==
        IF k = 0 THEN <<>>
        ELSE list[k - 1] \o (IF jobs[k] \in DOMAIN demand
                               THEN [i \in 1..demand[jobs[k]].units |-> <<jobs[k], i - 1>>]
                               ELSE <<>>)
  IN  list[Len(jobs)]

\* Every tile that can demands the whole stage; one unit list, one deadline.
Flush(stage) ==
  LET asking == {t \in ToSet(manifest.jobs) : stage = "offsets" \/ plans[t] # None}
      demand == Tabulated([t \in asking |-> Demand(stage, t)])
      units == UnitList(manifest.jobs, demand)
      boot == Max({demand[t].terms.boot : t \in asking})
      work == Max({demand[t].terms.work : t \in asking})
  IN  /\ gate.at = "driving"
      /\ asking # {}
      /\ wave = None   \* bound: a flush reads nothing of the one before it
      /\ \E headroom \in 1..MaxHeadroom :
           LET array == SubmitFleetStage(stage, units, Higher(1, Lower(Len(units), headroom)))
           IN  wave' = [stage |-> array.stage, units |-> array.units, workers |-> array.workers,
                        planned  |-> {t \in asking : plans[t] # None},
                        deadline |-> WaveDeadline(boot, work, Len(units), array.workers)]
      /\ UNCHANGED <<gate, manifest, plans>>

Next ==
  \/ ShardFleet \/ PreflightWriters \/ PreflightBalance \/ AskAgain
  \/ WriteManifest \/ Die \/ Resume
  \/ \E t \in Tiles : Plan(t)
  \/ \E stage \in {"offsets", "composite", "export"} : Flush(stage)

Spec == Init /\ [][Next]_vars

-----------------------------------------------------------------------------
(* Properties.                                                             *)

\* A run starts only when the driver and its workers, each under the identity
\* it really uses, may write, read, list and delete, whatever shell asked and
\* however the identities coincide.  (quota.preflight_write_access, writer_specs;
\* job._worker_environ)
WritersMayWrite ==
  gate.at = "passed" =>
    \A identity \in {DriverIdentity(gate.shell), WorkerIdentity(gate.shell)} :
      Operations \subseteq gate.allows[identity]

\* All that was spent, on every page there is.
TrueSpend(account) == SumOf([k \in 1..Len(account.pages) |-> SumOf(account.pages[k])])

\* A run starts only when the account can pay for all its tiles or a person has
\* vouched for it; Coiled's own refusal is final.  (quota.preflight_credits)
RunsCanBePaid ==
  gate.at = "passed" =>
    /\ \/ gate.acked
       \/ gate.account.limit - TrueSpend(gate.account)
            >= Needed(EstimateRunCredits) * Len(gate.jobs)
    /\ ~(gate.account.endpoint.up /\ gate.account.endpoint.has_quota = FALSE)

\* An account that keeps to what the gate supposes: nothing is charged after the
\* pages that are read, an endpoint that gives a figure gives no more than is
\* left, and a person types no more than the limit.
Honest(account) ==
  /\ \A k \in (PagesRead(account) + 1)..Len(account.pages) : account.pages[k] = <<>>
  /\ account.endpoint.remaining # None =>
       account.endpoint.remaining <= account.limit - TrueSpend(account)
  /\ account.operator # None => account.operator <= account.limit

\* The parts of the property after them.
Once(S) == Cardinality(S) = 1

BlocksTileTheGrid(plan) ==
  \A y \in 0..(plan.coarse[1] - 1), x \in 0..(plan.coarse[2] - 1) :
    Once({i \in DOMAIN plan.blocks :
            y \in Rows(plan.blocks[i]) /\ x \in Columns(plan.blocks[i])})

UnitsOwn(pieces, group) ==
  \A p \in 0..(pieces - 1) : Once({u \in DOMAIN group : p \in group[u]})

BatchesHoldTheScenes(plan) ==
  \A s \in 0..(plan.scenes - 1) :
    Once({i \in DOMAIN plan.batches : s \in Indexes(plan.batches[i])})

BandsCoverTheRows(bands, height) ==
  /\ bands[1][1] = 0 /\ bands[Len(bands)][2] = height
  /\ \A i \in DOMAIN bands : bands[i][1] < bands[i][2] /\ bands[i][1] % CogBlocksize = 0
  /\ \A i \in 2..Len(bands) : bands[i][1] = bands[i - 1][2]

Owned(plan, units) ==
  /\ BlocksTileTheGrid(plan)
  /\ UnitsOwn(Len(plan.blocks), Tabulated([u \in 0..(units - 1) |-> ClimatologyGroup(plan, u)]))
  /\ UnitsOwn(Len(plan.batches), Tabulated([u \in 0..(units - 1) |-> OffsetsGroup(plan, u)]))
  /\ BatchesHoldTheScenes(plan)
  /\ BandsCoverTheRows(plan.bands, plan.native[1])

\* Every pixel lies in one block, every block and batch is owned by one unit
\* of the fleet the run was launched with, whatever shell resumed it since,
\* every scene is in one batch, and the bands follow each other from the first
\* row to the last on block boundaries.  (shards.block_spans, band_edges,
\* partition, stage_shard_counts; fleet_driver.read_manifest)
EveryPieceHasAnOwner ==
  \A t \in DOMAIN plans : plans[t] # None => Owned(plans[t], manifest.units)

\* The weight of the heaviest group between the cuts.
Heaviest(prefix, cuts, count) ==
  LET ends == cuts \cup {0, count}
  IN  Max({prefix[e] - prefix[Max({s \in ends : s < e})] : e \in ends \ {0}})

SplitIsLightest(plan) ==
  LET count == Len(plan.weights)
      prefix == Prefix(plan.weights)
      used == {g[2] : g \in Range(ClimatologyGroups(plan))} \ {count}
  IN  /\ Cardinality(used) = plan.ref_shards - 1
      /\ \A cuts \in kSubset(plan.ref_shards - 1, 1..(count - 1)) :
           Heaviest(prefix, used, count) <= Heaviest(prefix, cuts, count)

\* No contiguous split of the blocks has a lighter heaviest group than the one
\* the plan's readers use: a reference search over every set of cuts.
\* (shards.balance_by_weight: "among every possible contiguous split, choose
\* one whose heaviest group has the least total weight")
LightestSplit ==
  \A t \in DOMAIN plans : plans[t] # None /\ plans[t].weights # NoWeights =>
    SplitIsLightest(plans[t])

\* What unit i takes at the measured pace.  An offsets unit waits for the
\* slowest of its peers before phase B; a band waits for the offsets' tail.
UnitTicks(plan, stage, i) ==
  LET slowest == Max(Widths(ClimatologyGroups(plan)))
      scenes == Cardinality(UNION {Indexes(plan.batches[b + 1]) : b \in OffsetsGroup(plan, i)})
  IN  CASE stage = "offsets" ->
             Resolve + PhaseBTicks(plan, scenes) + ClimatologyTicks(plan, slowest)
        [] stage = "composite" ->
             PhaseBTicks(plan, WidestSceneShare(plan)) + BandTicks(plan, Width(plan.bands[i + 1]))
        [] stage = "export" -> 3 * plan.native[1] * plan.native[2] * ExportPace

\* A worker takes the next unit of the list as soon as it is free.
Take(load, ticks) ==
  LET free == CHOOSE m \in DOMAIN load : \A n \in DOMAIN load : load[m] <= load[n]
  IN  [load EXCEPT ![free] = @ + ticks]

Makespan(w, known) ==
  LET ticks == Tabulated([unit \in ToSet(w.units) |->
                            UnitTicks(known[unit[1]], w.stage, unit[2])])
      loads[k \in 0..Len(w.units)] ==
        IF k = 0 THEN [m \in 1..w.workers |-> 0] ELSE Take(loads[k - 1], ticks[w.units[k]])
  IN  Max(Range(loads[Len(w.units)]))

\* A wave whose boot and units all take Safety times what was measured still
\* ends before its deadline, however deep its queue and however unlike its
\* tiles.  An offsets wave is held to it when it has a worker for every unit:
\* its units wait for each other; a wave flushed for a tile without a plan is
\* not, its deadline is a guess.  (budgets.wave_deadline_s and the budgets)
DeadlineCoversTheQueue ==
  wave # None /\ BarrierTimeout = NoOverride =>
    \/ \E k \in DOMAIN wave.units : wave.units[k][1] \notin wave.planned
    \/ wave.stage = "offsets" /\ wave.workers < Len(wave.units)
    \/ Safety * (VmBoot + Makespan(wave, plans)) <= wave.deadline

=============================================================================
