------------------------------- MODULE Shards -------------------------------
(***************************************************************************)
(* Where one tile is cut (shards.py), and the planner and the shards that  *)
(* read the cut (shard_tasks.py).  Everything here is arithmetic on index  *)
(* ranges: positions are 0-based and a range <<start, stop>> is half open, *)
(* as in the source, while a sequence of ranges is indexed from 1.         *)
(***************************************************************************)
EXTENDS Integers, FiniteSets, Sequences, FiniteSetsExt, SequencesExt, TLC

CONSTANTS
  ClimatologyVms, OffsetVms, CompositeVms,  \* configured widths, 0 when unset
  AutoOffsets, AutoComposite,               \* the widths projection.py derives
  SmallestEdge,    \* the block edge the search starts from
  UnitMemory,      \* pixel-scenes one block may hold in memory
  SourceChunk,     \* spatial chunk of the coarse stack
  TimeChunk,       \* scenes in one chunk of the coarse stack
  SceneBatch,      \* scenes phase B asks for at a time
  CogBlocksize     \* rows of one block of the published raster

ASSUME CutsArePositive ==
  /\ {ClimatologyVms, OffsetVms, CompositeVms} \subseteq Nat
  /\ {AutoOffsets, AutoComposite, SmallestEdge, UnitMemory, SourceChunk,
      TimeChunk, SceneBatch, CogBlocksize} \subseteq Nat \ {0}

Ceiling(a, b) == (a + b - 1) \div b
Lower(a, b) == Min({a, b})
Higher(a, b) == Max({a, b})
Or(configured, auto) == IF configured # 0 THEN configured ELSE auto
Width(range) == range[2] - range[1]
Indexes(range) == range[1]..(range[2] - 1)
Rows(block) == block[1]..(block[2] - 1)
Columns(block) == block[3]..(block[4] - 1)
Tabulated(f) == CHOOSE g \in {f} : g = f    \* f itself; TLC then computes each value once
Ranges(ends) ==
  Tabulated([i \in DOMAIN ends \ {0} |-> <<ends[i - 1], ends[i]>>])

-----------------------------------------------------------------------------
(* The cuts.                                                               *)

\* Blocks <<y0, y1, x0, x1>>, row by row, clipped at the grid's edge.
BlockSpans(shape, edge) ==
  LET across == Ceiling(shape[2], edge)
  IN  [i \in 1..(Ceiling(shape[1], edge) * across) |->
         LET y == ((i - 1) \div across) * edge
             x == ((i - 1) % across) * edge
         IN  <<y, Lower(y + edge, shape[1]), x, Lower(x + edge, shape[2])>>]

\* n contiguous runs of count things; the earliest take the remainder.
RunEnds(count, n) == [i \in 0..n |-> i * (count \div n) + Lower(i, count % n)]
Partition(count, n) == Ranges(RunEnds(count, n))

\* Row bands on chunk boundaries; the last one is clipped to the raster.
BandEdges(height, n, chunk) ==
  LET ends == RunEnds(Ceiling(height, chunk), n)
  IN  Ranges([i \in 0..n |-> Lower(ends[i] * chunk, height)])

Prefix(weights) ==
  LET sum[i \in 0..Len(weights)] == IF i = 0 THEN 0 ELSE sum[i - 1] + weights[i]
  IN  Tabulated(sum)

\* A mutant: a group is closed as soon as it has its share of the weight.
BalanceBySharing(weights, n) ==
  LET count == Len(weights)
      prefix == Prefix(weights)
      ends[k \in 0..n] ==
        IF k = 0 THEN 0
        ELSE IF k = n THEN count
        ELSE Min({end \in (ends[k - 1] + 1)..(count - (n - k)) :
                    end = count - (n - k) \/ prefix[end] * n >= prefix[count] * k})
  IN  Ranges(ends)

\* The contiguous split whose heaviest group is lightest; of several, the one
\* whose last cuts come earliest.
BalanceByWeight(weights, n) ==
  LET count == Len(weights)
      prefix == Prefix(weights)
      unreachable == prefix[count] + 1
      cost(fewer, start, end) == Higher(fewer[start], prefix[end] - prefix[start])
      lightest[groups \in 0..n] ==
        IF groups = 0 THEN [end \in 0..count |-> IF end = 0 THEN 0 ELSE unreachable]
        ELSE LET fewer == lightest[groups - 1]
             IN  Tabulated([end \in 0..count |->
                   Min({unreachable} \cup
                       {cost(fewer, start, end) : start \in (groups - 1)..(end - 1)})])
      best == Tabulated(lightest)
      cut(groups, end) ==
        Min({start \in (groups - 1)..(end - 1) :
               cost(best[groups - 1], start, end) = best[groups][end]})
      ends[groups \in 0..n] ==
        IF groups = n THEN count ELSE cut(groups + 1, ends[groups + 1])
  IN  IF prefix[count] = 0 THEN Partition(count, n) ELSE Ranges(ends)

\* The split of a plan without weights: cut where the land seen so far
\* reaches the group's share, leaving every later group a block.
BalanceByLand(hasLand, n) ==
  LET count == Len(hasLand)
      prefix == Prefix([i \in 1..count |-> IF hasLand[i] THEN 1 ELSE 0])
      ends[k \in 0..n] ==
        IF k = 0 THEN 0
        ELSE IF k = n THEN count
        ELSE LET ceiling == count - (n - k)
             IN  Min({end \in (ends[k - 1] + 1)..ceiling :
                        end = ceiling \/ prefix[end] * n >= prefix[count] * k})
  IN  IF prefix[count] = 0 THEN Partition(count, n) ELSE Ranges(ends)

\* Scenes whose footprint touches a land block.  A footprint is a closed
\* rectangle <<y0, y1, x0, x1>> on the grid's lines, so an edge counts.
BlockSceneWeights(blocks, hasLand, footprints) ==
  LET touches(f, b) == /\ f[1] <= b[2] /\ b[1] <= f[2]
                       /\ f[3] <= b[4] /\ b[3] <= f[4]
  IN  [i \in DOMAIN blocks |->
         IF hasLand[i] THEN Cardinality({j \in DOMAIN footprints : touches(footprints[j], blocks[i])})
                       ELSE 0]

-----------------------------------------------------------------------------
(* Sizes read off the coarse stack.                                        *)

TimeChunks(scenes) ==
  [i \in 1..Ceiling(scenes, TimeChunk) |-> Lower(TimeChunk, scenes - (i - 1) * TimeChunk)]

\* Whole time chunks, gathered until a batch is full.
SceneBatches(scenes) ==
  LET chunks == TimeChunks(scenes)
      gather(acc, length) ==
        LET pos == acc.pos + length
        IN  IF pos - acc.start >= SceneBatch
              THEN [out |-> Append(acc.out, <<acc.start, pos>>), start |-> pos, pos |-> pos]
              ELSE [acc EXCEPT !.pos = pos]
      read[k \in 0..Len(chunks)] ==
        IF k = 0 THEN [out |-> <<>>, start |-> 0, pos |-> 0] ELSE gather(read[k - 1], chunks[k])
      all == read[Len(chunks)]
  IN  IF all.start < scenes THEN Append(all.out, <<all.start, scenes>>) ELSE all.out

\* The largest doubling of the smallest edge that fits the grid and the
\* memory, and never less than a source chunk.
IoBlockEdge(shape, scenes) ==
  LET largest == Lower(shape[1], shape[2])
      fits(edge) == edge <= largest /\ edge * edge * scenes <= UnitMemory
      edges == {e \in SmallestEdge..Higher(SmallestEdge, largest) :
                  \E k \in 0..largest : e = SmallestEdge * (2 ^ k)}
      edge == Max({SmallestEdge} \cup {e \in edges : \A d \in edges :
                     SmallestEdge < d /\ d <= e => fits(d)})
  IN  Higher(edge, Lower(Lower(SourceChunk, Higher(shape[1], shape[2])), largest))

-----------------------------------------------------------------------------
(* The widths, and the plan.                                               *)

\* Under the width a shell has configured.
OffsetsFleetUnits(configured) == Or(configured, AutoOffsets)

\* units is the width of the fleet already started, 0 when there is none.
StageShardCounts(units, blocks, batches, blockRows) ==
  LET pick(configured, auto, available) == Higher(1, Lower(Or(configured, auto), available))
  IN  [ref   |-> pick(Or(units, ClimatologyVms), AutoOffsets, blocks),
       scene |-> pick(Or(units, OffsetVms), AutoOffsets, batches),
       band  |-> pick(CompositeVms, AutoComposite, blockRows)]

NoWeights == <<>>

\* The plan of a tile whose coarse grid has the given shape and land pixels,
\* whose published raster is factor times finer, whose stack has that many time
\* steps and whose scenes have the given footprints.  A plan may predate block
\* weights (weighted = FALSE).
ResolveTilePlan(shape, land, factor, scenes, footprints, units, weighted) ==
  LET height == shape[1] * factor
      edge == IoBlockEdge(shape, scenes)
      blocks == BlockSpans(shape, edge)
      hasLand == [i \in DOMAIN blocks |->
                    \E p \in land : p[1] \in Rows(blocks[i]) /\ p[2] \in Columns(blocks[i])]
      batches == SceneBatches(scenes)
      counts == StageShardCounts(units, Len(blocks), Len(batches), height \div CogBlocksize)
  IN  [scenes |-> scenes, coarse |-> shape, native |-> <<height, shape[2] * factor>>,
       blocks |-> blocks, has_land |-> hasLand,
       weights |-> IF weighted THEN BlockSceneWeights(blocks, hasLand, footprints)
                               ELSE NoWeights,
       batches |-> batches, bands |-> BandEdges(height, counts.band, CogBlocksize),
       ref_shards |-> counts.ref, scene_shards |-> counts.scene, band_shards |-> counts.band]

\* The phase-A split every reader of a plan agrees on.
ClimatologyGroups(plan) ==
  IF plan.weights # NoWeights THEN BalanceByWeight(plan.weights, plan.ref_shards)
                              ELSE BalanceByLand(plan.has_land, plan.ref_shards)

\* What shard index i of a stage owns: blocks by number, batches by number.
\* An index past the plan's count owns nothing.
ClimatologyGroup(plan, i) ==
  IF i < plan.ref_shards THEN Indexes(ClimatologyGroups(plan)[i + 1]) ELSE {}
OffsetsGroup(plan, i) ==
  IF i < plan.scene_shards
    THEN Indexes(Partition(Len(plan.batches), plan.scene_shards)[i + 1]) ELSE {}

=============================================================================
