------------------------------ MODULE TileData ------------------------------
(***************************************************************************)
(* What the shards of one tile do to its pixels.  The gap mask's artifact  *)
(* is made first (GedArchive).  Then a plan cuts the tile, climatology     *)
(* shards publish blocks and stage the counts they read, once every block  *)
(* is there offsets shards estimate scenes from the stage, the driver      *)
(* merges their partials, composite shards apply the merged offsets to     *)
(* bands of rows, and the export lays the bands together.  TileShards      *)
(* models who runs when and what is lost; this module, what is computed.   *)
(***************************************************************************)
EXTENDS Cog, GedArchive

CONSTANTS
  Factor,           \* settings.destripe_offset_resolution_factor
  ReadBuffer,       \* counts one read of phase A may hold
  Grounds,          \* [items, land, legacy] tried where the wheel masks
  LocalGrounds      \* ... and where the mask's source is another, or none

ASSUME RasterAssumption ==
  /\ Factor \in Nat \ {0, 1}
  /\ ReadBuffer \in Nat
  /\ TileRows % Factor = 0
  /\ TileCell \in ProductionTiles

VARIABLES
  ground,    \* what the catalog answered, where land is, and the mask's source
  plan,      \* what shard 0 published
  stage,     \* staged counts, by block and time chunk
  ref,       \* published climatology blocks
  partials,  \* published offsets partials, by shard
  record,    \* the merged offsets
  bands,     \* published slabs
  tile       \* the two COGs of the export

tileVars == <<ground, plan, stage, ref, partials, record, bands, tile>>
vars == <<tileVars, archiveVars>>

Coarse == CoarseGrid(TileRows, Factor)
Block(b) == Rows(plan.blocks[b + 1])
AllBlocks == 0..(Len(plan.blocks) - 1)
AxisOf(stack) == SetToSortSeq(Times(stack), <)

\* load_context: what a shard reads of the plan, Failed when its axis cannot
\* be recovered.
Axis == UpgradeLegacySceneTimes(plan.scene_times, ground.items)

\* stage_batches: one staged object holds one source time chunk.
StageBatches ==
  LET lengths == TimeChunks(plan.scenes)
  IN  Ranges([i \in 0..Len(lengths) |-> Lower(i * TimeChunk, plan.scenes)])

\* staging_block_reader decodes whole batches together until the buffer is full.
\* The first batch of the read that batch c of a block is decoded in:
FirstOfRead(b) ==
  LET room == Higher(1, ReadBuffer \div Cardinality(Block(b)))
      spans == StageBatches
      first[c \in DOMAIN spans] ==
        IF c = 1 THEN 1
        ELSE IF spans[c - 1][2] - spans[first[c - 1]][1] >= room THEN c ELSE first[c - 1]
  IN  Tabulated(first)

\* A mutant: every object of a read holds what the first one should.
SliceOfFirst(chunk, from, to) == [j \in 0..(to - from - 1) |-> chunk[j]]

\* The part of what was read together that one object holds, by position.
Slice(chunk, from, to) == [j \in 0..(to - from - 1) |-> chunk[from + j]]

StagedCounts(b, scenes) ==
  LET first == FirstOfRead(b)
      spans == StageBatches
      lo(c) == spans[first[c]][1]
      hi(c) == Max({spans[d][2] : d \in {d \in DOMAIN spans : first[d] = first[c]}})
      chunk(c) == [j \in 0..(hi(c) - lo(c) - 1) |-> scenes[lo(c) + j + 1]]
  IN  [c \in DOMAIN spans |-> Slice(chunk(c), spans[c][1] - lo(c), spans[c][2] - lo(c))]

Init ==
  /\ InitArchive
  /\ ground = None /\ plan = None /\ record = None /\ tile = None
  /\ stage = <<>> /\ ref = <<>> /\ partials = <<>> /\ bands = <<>>

\* Shard 0 asks the catalog once and cuts the tile on its coarse grid.  A
\* worker has the wheel alone; a developer's machine has what was fetched and
\* built there as well.  A plan found may be one that wrote whole seconds.
Resolve ==
  /\ plan = None
  /\ \E local \in BOOLEAN :
     \E g \in IF local \/ wheel = Unpublished THEN LocalGrounds ELSE Grounds :
       LET items == ResolveItems(g.items)
           stack == LoadScenes(items, Coarse)
           footprint(i) == <<Min(i.rows) \div Factor, Max(i.rows) \div Factor + 1, 0, 1>>
       IN  /\ items # Failed
           /\ ground' = [items |-> items, land |-> g.land,
                         source |-> IF local THEN FromMachine ELSE FromWheel]
           /\ plan' = ResolveTilePlan(
                        <<TileRows \div Factor, 1>>,
                        {<<k, 0>> : k \in {k \in Pixels(Coarse) : Coarse.row[k] \in g.land}}, Factor,
                        Cardinality(Times(stack)), [i \in DOMAIN items |-> footprint(items[i])],
                        0, TRUE)
                      @@ [scene_times |-> TimesIso(AxisOf(stack), g.legacy),
                          scene_ids   |-> DOMAIN items]
  /\ UNCHANGED <<stage, ref, partials, record, bands, tile, archiveVars>>

\* run_climatology_shard: each land block is decoded to counts, staged chunk
\* by chunk, and reduced from the counts; the block is published after.
ClimatologyShard(u) ==
  LET mask == LandMask(Coarse, ground.land)
      dn == DnStack(LoadScenes(ground.items, Coarse), mask)
      time == AxisOf(dn)
      group == ClimatologyGroup(plan, u)
      onLand == {b \in group : plan.has_land[b + 1]}
      counts(b) == [i \in DOMAIN time |-> Restrict(dn[time[i]], Block(b))]
      staged == Tabulated([b \in onLand |-> StagedCounts(b, counts(b))])
  IN  /\ Axis # Failed
      /\ group # {}
      /\ ~(group \subseteq DOMAIN ref)
      /\ stage' = [s \in onLand \X DOMAIN StageBatches |-> staged[s[1]][s[2]]] @@ stage
      /\ ref' = [b \in group |-> Climatology(CelsiusStack(dn), Block(b),
                                              plan.has_land[b + 1])] @@ ref
      /\ UNCHANGED <<ground, plan, partials, record, bands, tile, archiveVars>>

\* staged_batch_reader: a batch of scenes, by position, from the staged chunks
\* that lie within it, NaN where no land block was staged.
StagedBatch(batch) ==
  LET block(k) == CHOOSE b \in AllBlocks : k \in Block(b)
      wanted == {c \in DOMAIN StageBatches :
                   batch[1] <= StageBatches[c][1] /\ StageBatches[c][2] <= batch[2]}
      from(c) == StageBatches[c][1] - batch[1]
      chunk(j) == CHOOSE c \in wanted : j \in from(c)..(StageBatches[c][2] - batch[1] - 1)
  IN  [j \in 0..(Width(batch) - 1) |-> Tabulated([k \in Pixels(Coarse) |->
         IF plan.has_land[block(k) + 1]
           THEN ConvertToCelsius(stage[block(k), chunk(j)][j - from(chunk(j))][k]) ELSE NaN])]

\* _assemble_ref: the whole climatology, by month, from the published blocks.
AssembledRef ==
  [m \in UNION {DOMAIN ref[b] : b \in AllBlocks} |-> Tabulated([k \in Pixels(Coarse) |->
     ref[CHOOSE b \in AllBlocks : k \in Block(b)][m][k]])]

\* run_offsets_shard, past wait_for_blocks; its answers carry their times.
OffsetsShard(u) ==
  LET batches == {plan.batches[b + 1] : b \in OffsetsGroup(plan, u)}
      time == AxisOf(LoadScenes(ground.items, Coarse))
      read == Tabulated([b \in batches |-> StagedBatch(b)])
      taken == UNION {Indexes(b) : b \in batches}
      index(t) == CHOOSE i \in taken : time[i + 1] = t
      batch(t) == CHOOSE b \in batches : index(t) \in Indexes(b)
  IN  /\ Axis # Failed
      /\ batches # {}
      /\ AllBlocks \subseteq DOMAIN ref
      /\ u \notin DOMAIN partials
      /\ record = None
      /\ partials' = (u :> OffsetsByScene([t \in {time[i + 1] : i \in taken} |->
                                             read[batch(t)][index(t) - batch(t)[1]]], AssembledRef)) @@ partials
      /\ UNCHANGED <<ground, plan, stage, ref, record, bands, tile, archiveVars>>

\* The driver, once every partial it expects is listed; the stage is swept.
MergeOffsets ==
  /\ Axis # Failed
  /\ record = None
  /\ DOMAIN partials = 0..(plan.scene_shards - 1)
  /\ record' = MergeScenePartials({partials[u] : u \in DOMAIN partials}, Range(Axis))
  /\ stage' = <<>>
  /\ UNCHANGED <<ground, plan, ref, partials, bands, tile, archiveVars>>

\* run_composite_shard publishes the slab of each product, or raises.
CompositeShard(i) ==
  LET band == CompositeBand(plan.bands[i], ground.items, ground.land, ground.source, Factor, record)
  IN  /\ record \notin {None, Failed}
      /\ i \notin DOMAIN bands
      /\ band # Failed
      /\ bands' = (i :> [lst_p95  |-> WriteIntermediate(LstProduct(band)),
                         qa_count |-> WriteIntermediate(QaProduct(band))]) @@ bands
      /\ UNCHANGED <<ground, plan, stage, ref, partials, record, tile, archiveVars>>

\* The products' headers come from a stand-in of one pixel.
PlaceholderNative == [lst_p95 |-> (0 :> 0), qa_count |-> (0 :> [m \in Months |-> 0])]
TileAttrs(items) == [scene_count |-> Cardinality(items)]

\* run_export_merge.
Export ==
  LET slabs(product) == [i \in DOMAIN plan.bands |-> bands[i][product]]
      cog(name, product) ==
        FinishProduct(MergeBands(slabs(name), plan.bands), product, TileAttrs(plan.scene_ids))
  IN  /\ tile = None
      /\ DOMAIN bands = DOMAIN plan.bands
      /\ tile' = [lst_p95  |-> cog("lst_p95", LstProduct(PlaceholderNative)),
                  qa_count |-> cog("qa_count", QaProduct(PlaceholderNative))]
      /\ UNCHANGED <<ground, plan, stage, ref, partials, record, bands, archiveVars>>

Next ==
  \/ plan = None /\ NextArchive /\ UNCHANGED tileVars
  \/ Resolve
  \/ /\ plan # None
     /\ \/ \E u \in 0..(OffsetsFleetUnits(0) - 1) : ClimatologyShard(u) \/ OffsetsShard(u)
        \/ MergeOffsets
        \/ \E i \in DOMAIN plan.bands : CompositeShard(i)
        \/ Export

Spec == Init /\ [][Next]_vars

-----------------------------------------------------------------------------
(* Properties.                                                             *)

\* The offsets merged from shards that read what other shards staged are
\* those one process estimates from the whole tile, scene for scene, with the
\* same counts.  (shard_tasks.run_offsets_shard, staging.staged_batch_reader,
\* offsets.merge_scene_partials)
OffsetsAreTheTiles ==
  record # None => record = ComputeTileOffsets(ground.items, ground.land, TileRows, Factor)

\* The COGs laid together from bands are those one process writes, pixels and
\* tags, though a band may lack scenes the tile has and sees only its own rows
\* of both masks; and where one process refuses, some band did.
\* (shard_tasks.run_composite_shard, normalization.debias_with_offsets,
\* cog.merge_bands, cog.finish_product)
BandsMakeTheTile ==
  tile # None =>
    LET native == ProcessTile(ground.items, ground.land, ground.source, TileRows, Factor)
    IN  native # Failed /\ tile = CogExport(native, TileAttrs(DOMAIN ground.items))

=============================================================================
