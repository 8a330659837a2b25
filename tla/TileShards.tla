----------------------------- MODULE TileShards -----------------------------
(***************************************************************************)
(* The workers of one tile (shard_tasks), and what they read and write in  *)
(* the bucket on the way to its COGs.  A worker is a booted machine that   *)
(* takes a unit off its wave's queue, runs run_offsets_stage,              *)
(* run_composite_shard or run_export_merge, and takes the next one.        *)
(*                                                                         *)
(* Pixels are abstracted to the scene sets they were made from: an         *)
(* artifact is the set of the scene sets it mixes, and is absent while     *)
(* that set is empty.  The catalog is live, so a query may answer any      *)
(* scene set.  Objects are read and written one at a time; a worker may    *)
(* stop anywhere, killed or at the end of one of its bounded waits.        *)
(***************************************************************************)
EXTENDS Integers, FiniteSets

CONSTANTS
    Worker,         \* machines the tile's waves may hold at once
    SceneSet,       \* what the live catalog may answer
    None,
    FleetUnits,     \* shards.offsets_fleet_units
    RefShards,      \* plan.ref_shards: groups of climatology blocks
    SceneShards,    \* plan.scene_shards: groups of scenes
    Bands,          \* len(plan.bands)
    Rounds,         \* settings.shard_barrier_rounds
    Repeats         \* a unit may be asked for again while a worker still runs it

ASSUME ShardAssumption ==
    /\ None \notin SceneSet
    /\ FleetUnits \in Nat \ {0}
    /\ RefShards \in 1 .. FleetUnits
    /\ SceneShards \in 1 .. FleetUnits
    /\ Bands \in Nat \ {0}
    /\ Rounds \in Nat \ {0}
    /\ Repeats \in BOOLEAN

Stage == {"offsets", "composite", "export"}
Index(s) ==
    CASE s = "offsets" -> 0 .. FleetUnits - 1
      [] s = "composite" -> 0 .. Bands - 1
      [] s = "export" -> {0}
Unit == UNION {{s} \X Index(s) : s \in Stage}

ASSUME NoneAssumption == None \notin Unit

RefShard == 0 .. RefShards - 1
SceneShard == 0 .. SceneShards - 1
Band == 0 .. Bands - 1

Place == {"idle", "resolve", "items", "plan", "read", "open", "reduce", "publish",
          "barrier", "partial", "check", "record", "band", "claim", "sign", "export"}

\* The task of one machine: where it is, the plan it read (cut), the items it
\* loaded (scenes), and what the arrays it is about to write are made from.
Task == [unit : Unit \cup {None}, at : Place, cut : SceneSet \cup {None},
         scenes : SceneSet \cup {None}, uses : SUBSET SceneSet]
Idle == [unit |-> None, at |-> "idle", cut |-> None, scenes |-> None, uses |-> {}]

\* A phase-B partial: the time axis it names, and what it was made from.
Partial == [times : SceneSet \cup {None}, uses : SUBSET SceneSet]
NoPartial == [times |-> None, uses |-> {}]

VARIABLES
    queue,      \* units the running waves still hold
    rounds,     \* submission records of each stage
    task,       \* what each worker is doing
    items,      \* bucket: items.json
    plan,       \* bucket: plan.json
    ref,        \* bucket: each shard's climatology blocks
    partial,    \* bucket: each shard's scene partial
    record,     \* bucket: the offset cache, one record per scene set
    band,       \* bucket: each row band
    claimed,    \* bucket: the export claim
    cog,        \* bucket: the tile's COGs
    failed,     \* the driver gave the tile up
    lost        \* a worker stopped between publishing a band and claiming

driverVars == <<queue, rounds, failed>>
planVars == <<items, plan>>
offsetVars == <<ref, partial, record>>
exportVars == <<band, claimed, cog>>
vars == <<driverVars, task, planVars, offsetVars, exportVars, lost>>

TypeOK ==
    /\ queue \in SUBSET Unit
    /\ rounds \in [Stage -> 0 .. Rounds]
    /\ task \in [Worker -> Task]
    /\ items \in SceneSet \cup {None}
    /\ plan \in SceneSet \cup {None}
    /\ ref \in [RefShard -> SUBSET SceneSet]
    /\ partial \in [SceneShard -> Partial]
    /\ record \in [SceneSet -> SUBSET SceneSet]
    /\ band \in [Band -> SUBSET SceneSet]
    /\ claimed \in BOOLEAN
    /\ cog \in SUBSET SceneSet
    /\ failed \in BOOLEAN
    /\ lost \in BOOLEAN

Init ==
    /\ queue = {}
    /\ rounds = [s \in Stage |-> 0]
    /\ task = [w \in Worker |-> Idle]
    /\ items = None
    /\ plan = None
    /\ ref = [i \in RefShard |-> {}]
    /\ partial = [i \in SceneShard |-> NoPartial]
    /\ record = [s \in SceneSet |-> {}]
    /\ band = [i \in Band |-> {}]
    /\ claimed = FALSE
    /\ cog = {}
    /\ failed = FALSE
    /\ lost = FALSE

-----------------------------------------------------------------------------
(* The driver, reduced to what the tile's workers can see of it.           *)

BlocksComplete == \A i \in RefShard : ref[i] # {}
PartialsComplete == \A i \in SceneShard : partial[i] # NoPartial
BandsComplete == \A i \in Band : band[i] # {}
Merged == plan # None /\ record[plan] # {}

\* A bug: the barrier asks only for shards that have published their blocks.
MissingPartials(s) ==
    CASE s = "offsets" -> IF plan = None THEN Index(s) ELSE
                          {i \in SceneShard : partial[i] = NoPartial /\ (i \in RefShard => ref[i] # {})}
      [] s = "composite" -> {i \in Band : band[i] = {}}
      [] s = "export" -> IF cog = {} THEN {0} ELSE {}

\* _expected_keys and _missing, once the plan names the units; before that the
\* whole fused fleet is asked for.
Missing(s) ==
    CASE s = "offsets" -> IF plan = None THEN Index(s) ELSE {i \in SceneShard : partial[i] = NoPartial}
      [] s = "composite" -> {i \in Band : band[i] = {}}
      [] s = "export" -> IF cog = {} THEN {0} ELSE {}

\* The stages the tile may ask for now.  The composite overlaps the offsets
\* from the first partial on.
Open(s) ==
    CASE s = "offsets" -> ~Merged
      [] s = "composite" -> plan # None /\ (Merged \/ \E i \in SceneShard : partial[i] # NoPartial)
      [] s = "export" -> Merged /\ BandsComplete

Running(s) == {u \in queue \cup {task[w].unit : w \in Worker} : u # None /\ u[1] = s}

\* A bug: the last barrier round is not counted.
RoundOver(s) == rounds[s] <= Rounds

RoundLeft(s) == rounds[s] < Rounds

\* TileTrack._demand and the wave it becomes.  Unless Repeats, a wave is
\* repeated only when its array has ended.
Submit(s) ==
    /\ ~failed
    /\ Open(s)
    /\ Missing(s) # {}
    /\ RoundLeft(s)
    /\ Repeats \/ Running(s) = {}
    /\ rounds' = [rounds EXCEPT ![s] = @ + 1]
    /\ queue' = queue \cup ({s} \X Missing(s))
    /\ UNCHANGED <<task, planVars, offsetVars, exportVars, failed, lost>>

\* A wave's array is reaped or preempted: the units nobody has taken are gone.
EndArray(s) ==
    /\ \E u \in queue : u[1] = s
    /\ queue' = {u \in queue : u[1] # s}
    /\ UNCHANGED <<rounds, failed, task, planVars, offsetVars, exportVars, lost>>

\* merge_offsets: every scene of the planned axis exactly once, or it raises
\* and the tile is failed.
Merge ==
    /\ ~failed
    /\ plan # None /\ ~Merged
    /\ PartialsComplete
    /\ IF \A i \in SceneShard : partial[i].times = plan
         THEN /\ record' = [record EXCEPT ![plan] = UNION {partial[i].uses : i \in SceneShard}]
              /\ UNCHANGED failed
         ELSE /\ failed' = TRUE
              /\ UNCHANGED record
    /\ UNCHANGED <<queue, rounds, task, planVars, ref, partial, exportVars, lost>>

-----------------------------------------------------------------------------
(* A worker, any stage.                                                    *)

At(w, place) == task[w].at = place
StageOf(w) == task[w].unit[1]
IndexOf(w) == task[w].unit[2]
Goes(w, place) == task' = [task EXCEPT ![w].at = place]
Leaves(w) == task' = [task EXCEPT ![w] = Idle]

Take(w) ==
    /\ At(w, "idle")
    /\ \E u \in queue :
         /\ queue' = queue \ {u}
         /\ task' = [task EXCEPT ![w].unit = u,
                                 ![w].at = IF u[1] = "offsets" THEN "resolve" ELSE "read"]
    /\ UNCHANGED <<rounds, planVars, offsetVars, exportVars, failed, lost>>

\* load_context reads the plan, then the items, in two requests.  A worker of
\* the fused stage first waits for the plan.
ReadPlan(w) ==
    /\ At(w, "read")
    /\ plan # None
    /\ task' = [task EXCEPT ![w].cut = plan, ![w].at = "open"]
    /\ UNCHANGED <<driverVars, planVars, offsetVars, exportVars, lost>>

ReadItems(w) ==
    /\ At(w, "open")
    /\ items # None
    /\ task' = [task EXCEPT ![w].scenes = items,
                            ![w].at = CASE StageOf(w) = "offsets" -> "reduce"
                                        [] StageOf(w) = "composite" -> "check"
                                        [] StageOf(w) = "export" -> "export"]
    /\ UNCHANGED <<driverVars, planVars, offsetVars, exportVars, lost>>

\* The machine is killed, the task raises, or one of its waits expires.
Stop(w) ==
    /\ ~At(w, "idle")
    /\ lost' = (lost \/ task[w].at \in {"claim", "sign"})
    /\ Leaves(w)
    /\ UNCHANGED <<driverVars, planVars, offsetVars, exportVars>>

-----------------------------------------------------------------------------
(* run_offsets_stage: resolve, climatology, the barrier, offsets.          *)

\* A bug: any shard of the fleet may resolve, not only the first.
ResolvesAny(i) == i < FleetUnits

\* Which shards may resolve the tile: exactly one of them.
Resolves(i) == i = 0

LookForPlan(w) ==
    /\ At(w, "resolve")
    /\ IF Resolves(IndexOf(w)) /\ plan = None
         THEN \E s \in SceneSet : task' = [task EXCEPT ![w].cut = s, ![w].at = "items"]
         ELSE Goes(w, "read")
    /\ UNCHANGED <<driverVars, planVars, offsetVars, exportVars, lost>>

\* A bug: items already in the bucket are left alone, as every other artifact is.
KeepItems(w) ==
    /\ At(w, "items")
    /\ items' = IF items = None THEN task[w].cut ELSE items
    /\ Goes(w, "plan")
    /\ UNCHANGED <<driverVars, plan, offsetVars, exportVars, lost>>

\* resolve_tile_plan publishes the items first: a reader that finds the plan
\* may load it.
WriteItems(w) ==
    /\ At(w, "items")
    /\ items' = task[w].cut
    /\ Goes(w, "plan")
    /\ UNCHANGED <<driverVars, plan, offsetVars, exportVars, lost>>

WritePlan(w) ==
    /\ At(w, "plan")
    /\ plan' = task[w].cut
    /\ Goes(w, "read")
    /\ UNCHANGED <<driverVars, items, offsetVars, exportVars, lost>>

\* run_climatology_shard skips blocks that are published, as does a shard past
\* the clamped count.
CheckBlocks(w) ==
    /\ At(w, "reduce")
    /\ Goes(w, IF IndexOf(w) \in RefShard /\ ref[IndexOf(w)] = {} THEN "publish" ELSE "barrier")
    /\ UNCHANGED <<driverVars, planVars, offsetVars, exportVars, lost>>

PublishBlocks(w) ==
    /\ At(w, "publish")
    /\ ref' = [ref EXCEPT ![IndexOf(w)] = {task[w].scenes}]
    /\ Goes(w, "barrier")
    /\ UNCHANGED <<driverVars, planVars, partial, record, exportVars, lost>>

\* wait_for_blocks, and past it run_offsets_shard up to the assembled
\* climatology.
PassBarrier(w) ==
    /\ At(w, "barrier")
    /\ BlocksComplete
    /\ IF IndexOf(w) \in SceneShard /\ partial[IndexOf(w)] = NoPartial
         THEN task' = [task EXCEPT ![w].at = "partial",
                                   ![w].uses = {task[w].scenes} \cup UNION {ref[i] : i \in RefShard}]
         ELSE Leaves(w)
    /\ UNCHANGED <<driverVars, planVars, offsetVars, exportVars, lost>>

WritePartial(w) ==
    /\ At(w, "partial")
    /\ partial' = [partial EXCEPT ![IndexOf(w)] =
                      [times |-> task[w].scenes, uses |-> task[w].uses]]
    /\ Leaves(w)
    /\ UNCHANGED <<driverVars, planVars, ref, record, exportVars, lost>>

-----------------------------------------------------------------------------
(* run_composite_shard, claim_export and run_export_merge.                 *)

CheckBand(w) ==
    /\ At(w, "check")
    /\ IF band[IndexOf(w)] = {} THEN Goes(w, "record") ELSE Leaves(w)
    /\ UNCHANGED <<driverVars, planVars, offsetVars, exportVars, lost>>

\* _tile_offsets waits for the record of the scene set the plan names.
UseRecord(w) ==
    /\ At(w, "record")
    /\ record[task[w].cut] # {}
    /\ task' = [task EXCEPT ![w].at = "band",
                            ![w].uses = record[task[w].cut] \cup {task[w].scenes}]
    /\ UNCHANGED <<driverVars, planVars, offsetVars, exportVars, lost>>

WriteBand(w) ==
    /\ At(w, "band")
    /\ band' = [band EXCEPT ![IndexOf(w)] = task[w].uses]
    /\ Goes(w, "claim")
    /\ UNCHANGED <<driverVars, planVars, offsetVars, claimed, cog, lost>>

\* A bug: the worker of the last row band claims, not the last to finish.
ClaimsTheLastIndex(i) == BandsComplete /\ ~claimed /\ i = Bands - 1

\* Whether claim_export goes on to sign: this worker saw every band, and
\* nobody has claimed.
MayClaim(i) == BandsComplete /\ ~claimed

Claim(w) ==
    /\ At(w, "claim")
    /\ IF MayClaim(IndexOf(w)) THEN Goes(w, "sign") ELSE Leaves(w)
    /\ UNCHANGED <<driverVars, planVars, offsetVars, exportVars, lost>>

\* The claim is a plain write, not a lock.
Sign(w) ==
    /\ At(w, "sign")
    /\ claimed' = TRUE
    /\ Goes(w, "export")
    /\ UNCHANGED <<driverVars, planVars, offsetVars, band, cog, lost>>

Export(w) ==
    /\ At(w, "export")
    /\ BandsComplete
    /\ cog' = IF cog = {} THEN UNION {band[i] : i \in Band} ELSE cog
    /\ Leaves(w)
    /\ UNCHANGED <<driverVars, planVars, offsetVars, band, claimed, lost>>

-----------------------------------------------------------------------------

Offsets(w) ==
    \/ LookForPlan(w) \/ WriteItems(w) \/ WritePlan(w)
    \/ CheckBlocks(w) \/ PublishBlocks(w) \/ PassBarrier(w) \/ WritePartial(w)
Composite(w) ==
    CheckBand(w) \/ UseRecord(w) \/ WriteBand(w) \/ Claim(w) \/ Sign(w) \/ Export(w)

Next ==
    \/ \E s \in Stage : Submit(s) \/ EndArray(s)
    \/ Merge
    \/ \E w \in Worker : Take(w) \/ ReadPlan(w) \/ ReadItems(w) \/ Stop(w)
    \/ \E w \in Worker : Offsets(w) \/ Composite(w)

Spec == Init /\ [][Next]_vars

-----------------------------------------------------------------------------
(* Properties.                                                             *)

Artifacts ==
    {record[s] : s \in SceneSet} \cup {band[i] : i \in Band} \cup {cog}
    \cup {ref[i] : i \in RefShard} \cup {partial[i].uses : i \in SceneShard}

\* A tile is made from one scene set: whatever is killed and asked for again,
\* its climatology, offsets, bands and COGs all go back to one answer of the
\* live catalog (run_offsets_stage: "Exactly one process may do this").
OneSceneSet == Cardinality(UNION Artifacts) <= 1

\* A plan in the bucket is the plan of the items in the bucket, through the
\* death of the shard that resolves and its repetition (resolve_tile_plan,
\* "Items first").
FrozenTogether == plan # None => items = plan

\* When every band is published and no worker stopped between its band and
\* its claim, either the export is claimed or somebody is about to: whichever
\* worker finished last sees all the bands (claim_export).
LastBandIsClaimed ==
    BandsComplete /\ ~lost => claimed \/ \E w \in Worker : task[w].at \in {"claim", "sign"}

\* A barrier round of the offsets stage asks again for every missing block whose
\* owner also owes a scene partial, though the round knows partials only: no shard
\* passes the barrier while a block is missing, so none of them has a partial
\* (_expected_keys, wait_for_blocks).
AsksForOwedBlocks ==
    [][plan # None /\ rounds'["offsets"] > rounds["offsets"] =>
         \A i \in RefShard \cap SceneShard : ref[i] = {} => <<"offsets", i>> \in queue']_vars

\* A barrier round of the offsets stage asks again for every shard whose
\* climatology blocks nobody has published ("resubmits only the indexes that are
\* still missing").  The two counts are clamped apart (stage_shard_counts): a
\* shard past scene_shards may own blocks that everybody waits for, and the code
\* does not ask for it: README.md, findings.
AsksForEveryBlock ==
    [][plan # None /\ rounds'["offsets"] > rounds["offsets"] =>
         \A i \in RefShard : ref[i] = {} => <<"offsets", i>> \in queue']_vars
=============================================================================
