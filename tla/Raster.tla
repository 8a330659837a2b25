------------------------------- MODULE Raster -------------------------------
(***************************************************************************)
(* From the items of a catalog to the pixels of a composite (pipeline.py,  *)
(* qa.py, normalization.py, encoding.py), on a tile one pixel wide.  An    *)
(* item is [time, rows, dn, clear]: when it was taken, the rows its        *)
(* footprint covers, the thermal count of each and the rows the QA band    *)
(* calls clear.  A grid is [row, extent]: the tile row each of its pixels  *)
(* samples and the rows it spans.  A stack is a function of time, then of  *)
(* grid pixel; times are ticks, of which a second holds several.           *)
(* Temperatures are integers, a degree being Degree units, fine enough     *)
(* that two medians and a P95 stay exact.                                  *)
(***************************************************************************)
EXTENDS Ged

CONSTANTS
  TileCell,                   \* the tile; the cell of its first pixel
  Second, Day, MonthLength,   \* ticks
  Months,
  MaxScenes,                  \* ProcessingJob.max_scenes
  Zero, Coldest, Hottest,     \* the DN of 0 degrees; settings.lst_valid_min, _max
  MaxOffset,                  \* settings.destripe_max_offset_c, in degrees
  MinSamples, MinPixels,      \* the sparse floors of a coarse and a native estimate
  LeastTrusted, HotThreshold, \* LST_MIN_TRUSTED_C, settings.ged_gap_hot_threshold_c
  EncodedZero, EncodedMax,    \* degrees DN 0 stands for; the largest DN
  NaN, Nodata

ASSUME TimesNest == /\ {Second, Day, MonthLength, MaxScenes} \subseteq Nat \ {0}
                    /\ Day % Second = 0 /\ MonthLength % Day = 0

Degree == 80
QaWidth == 256    \* qa_count is a uint8

MonthOf(time) == time \div MonthLength + 1
Times(stack) == DOMAIN stack
Pixels(grid) == DOMAIN grid.row
Each(grid, Value(_)) == Tabulated([k \in Pixels(grid) |-> Value(k)])

RowSlice(rows) ==
  [row |-> Tabulated([k \in 0..(Width(rows) - 1) |-> rows[1] + k]), extent |-> Indexes(rows)]
\* The coarse load names a grid and no factor, so each pixel is its nearest source.
CoarseGrid(height, factor) ==
  [row |-> Tabulated([k \in 0..(height \div factor - 1) |-> k * factor + factor \div 2]),
   extent |-> 0..(height - 1)]

-----------------------------------------------------------------------------
(* The scenes of a job, and its time axis.                                 *)

\* Spread evenly over the window by date, and only if there are too many.
SampleScenes(items) ==
  LET ordered == SortSeq(items, LAMBDA a, b : a.time < b.time)
  IN  IF Len(items) <= MaxScenes THEN items
      ELSE [i \in 1..MaxScenes |-> ordered[((i - 1) * Len(items)) \div MaxScenes + 1]]

ResolveItems(answer) == IF answer = <<>> THEN Failed ELSE SampleScenes(answer)

\* The stored axis; planners of before wrote whole seconds.
TimesIso(times, legacy) ==
  [i \in DOMAIN times |-> [fraction |-> ~legacy,
                           at |-> IF legacy THEN times[i] \div Second ELSE times[i]]]

\* The axis a plan means.  A second is that of its earliest item; two steps
\* in one second, and a second no item was taken in, are refused.
UpgradeLegacySceneTimes(stored, items) ==
  LET stamps == {items[i].time : i \in DOMAIN items}
      matches(i) == {t \in stamps : t \div Second = stored[i].at}
  IN  IF \E i \in DOMAIN stored : stored[i].fraction
        THEN [i \in DOMAIN stored |-> stored[i].at]
      ELSE IF \/ \E i, j \in DOMAIN stored : i # j /\ stored[i] = stored[j]
              \/ \E i \in DOMAIN stored : matches(i) = {}
        THEN Failed
        ELSE [i \in DOMAIN stored |-> Min(matches(i))]

-----------------------------------------------------------------------------
(* Reading.                                                                *)

\* The loader makes one time step of a day's items, stamped by the earliest;
\* a pixel is the first item's that covers it.  A step that misses the grid
\* altogether is not in the stack.
LoadScenes(items, grid) ==
  LET day(t) == {i \in DOMAIN items : items[i].time \div Day = t \div Day}
      first(some) == CHOOSE i \in some : \A j \in some : items[i].time <= items[j].time
      steps == {items[first(day(items[i].time))].time : i \in DOMAIN items}
      pixel(t, row) ==
        LET covering == {i \in day(t) : row \in items[i].rows}
            i == first(covering)
        IN  IF covering = {} THEN [dn |-> 0, clear |-> TRUE]
            ELSE [dn |-> items[i].dn[row], clear |-> row \in items[i].clear]
  IN  [t \in {t \in steps : \E i \in day(t) : items[i].rows \cap grid.extent # {}} |->
         Each(grid, LAMBDA k : pixel(t, grid.row[k]))]

ConvertToCelsius(dn) ==
  IF dn # 0 /\ dn - Zero \in Coldest..Hottest THEN (dn - Zero) * Degree ELSE NaN

LandMask(grid, land) == Each(grid, LAMBDA k : grid.row[k] \in land)

\* QA mask, conversion with its clamp, land mask.
CelsiusOf(data, mask) ==
  [t \in Times(data) |-> Tabulated([k \in DOMAIN mask |->
     IF data[t][k].clear /\ mask[k] THEN ConvertToCelsius(data[t][k].dn) ELSE NaN])]

\* The same observations carried as counts, 0 where there is none.
DnStack(data, mask) ==
  [t \in Times(data) |-> Tabulated([k \in DOMAIN mask |->
     IF data[t][k].clear /\ mask[k] /\ ConvertToCelsius(data[t][k].dn) # NaN
       THEN data[t][k].dn ELSE 0])]
CelsiusStack(dn) == [t \in Times(dn) |-> [k \in DOMAIN dn[t] |-> ConvertToCelsius(dn[t][k])]]

-----------------------------------------------------------------------------
(* Reductions that skip NaN.                                               *)

Observed(f) == {x \in DOMAIN f : f[x] # NaN}

\* The value with k smaller or equal ones before it in order.
Ranked(f, k) ==
  CHOOSE v \in {f[x] : x \in Observed(f)} :
    /\ Cardinality({x \in Observed(f) : f[x] < v}) <= k
    /\ k < Cardinality({x \in Observed(f) : f[x] <= v})

NanMedian(f) ==
  LET n == Cardinality(Observed(f))
  IN  IF n = 0 THEN NaN ELSE (Ranked(f, (n - 1) \div 2) + Ranked(f, n \div 2)) \div 2

\* The linear quantile at 0.95: position 19(n - 1) / 20 of the sorted values.
NanP95(f) ==
  LET n == Cardinality(Observed(f))
      below == (19 * (n - 1)) \div 20
      share == (19 * (n - 1)) % 20
      a == Ranked(f, below)
      b == Ranked(f, Lower(below + 1, n - 1))
  IN  IF n = 0 THEN NaN ELSE a + ((b - a) * share) \div 20

-----------------------------------------------------------------------------
(* Destriping.                                                             *)

\* Phase A on one block of pixels: per month and pixel, the median over time.
\* A block without land is NaN and is never read.
Climatology(lst, pixels, hasLand) ==
  [m \in {MonthOf(t) : t \in Times(lst)} |-> Tabulated([k \in pixels |->
     IF hasLand THEN NanMedian([t \in {t \in Times(lst) : MonthOf(t) = m} |-> lst[t][k]])
                ELSE NaN])]

\* Phase B on some scenes: each one's median anomaly, and its observations.
OffsetsByScene(lst, ref) ==
  LET anomaly(t) == [k \in DOMAIN lst[t] |->
                       IF lst[t][k] = NaN \/ ref[MonthOf(t)][k] = NaN
                         THEN NaN ELSE lst[t][k] - ref[MonthOf(t)][k]]
  IN  [offset  |-> Tabulated([t \in Times(lst) |-> NanMedian(anomaly(t))]),
       n_valid |-> Tabulated([t \in Times(lst) |-> Cardinality(Observed(lst[t]))])]

SceneOffsets(lst, mask) ==
  LET pixels == DOMAIN mask
  IN  OffsetsByScene(lst, Climatology(lst, pixels, \E k \in pixels : mask[k]))

\* Partial estimates joined by time: every step once, and no other.
MergeScenePartials(partials, axis) ==
  LET claims(t) == {p \in partials : t \in DOMAIN p.offset}
      of(t) == CHOOSE p \in partials : p \in claims(t)
  IN  IF \/ \E p \in partials : ~(DOMAIN p.offset \subseteq axis)
         \/ \E t \in axis : Cardinality(claims(t)) # 1
        THEN Failed
        ELSE [offset  |-> Tabulated([t \in axis |-> of(t).offset[t]]),
              n_valid |-> Tabulated([t \in axis |-> of(t).n_valid[t]])]

RejectionFloor(factor) == IF factor > 1 THEN MinSamples ELSE MinPixels

SceneKeep(record, t, floor) ==
  /\ record.offset[t] # NaN
  /\ record.n_valid[t] >= floor
  /\ record.offset[t] \in (-MaxOffset * Degree)..(MaxOffset * Degree)

\* A mutant: the k-th step of the stack takes the k-th offset of the record.
DebiasByPosition(lst, record, factor) ==
  LET nth(T, t) == CHOOSE u \in DOMAIN record.offset :
                     Cardinality({x \in DOMAIN record.offset : x < u}) = Cardinality({x \in T : x < t})
      kept == {t \in Times(lst) : SceneKeep(record, nth(Times(lst), t), RejectionFloor(factor))}
  IN  IF kept = {} THEN Failed
      ELSE [t \in kept |-> Tabulated([k \in DOMAIN lst[t] |->
              IF lst[t][k] = NaN THEN NaN ELSE lst[t][k] - record.offset[nth(Times(lst), t)]])]

\* Rejection and subtraction, joined to the stack by time.
DebiasWithOffsets(lst, record, factor) ==
  LET kept == {t \in Times(lst) : SceneKeep(record, t, RejectionFloor(factor))}
  IN  IF ~(Times(lst) \subseteq DOMAIN record.offset) \/ kept = {} THEN Failed
      ELSE [t \in kept |-> Tabulated([k \in DOMAIN lst[t] |->
              IF lst[t][k] = NaN THEN NaN ELSE lst[t][k] - record.offset[t]])]

\* One process estimates from a coarse stack of the same scenes, or, when
\* there is none, from the stack itself.
SeasonalDebias(lst, mask, coarse, coarseMask, factor) ==
  IF factor = 1 THEN DebiasWithOffsets(lst, SceneOffsets(lst, mask), factor)
  ELSE IF Times(coarse) # Times(lst) THEN Failed
  ELSE DebiasWithOffsets(lst, SceneOffsets(coarse, coarseMask), factor)

-----------------------------------------------------------------------------
(* The composite, and what is masked after it.                             *)

\* P95 per pixel, missing where nothing was seen or the value cannot be
\* trusted; observations per month, a month with none counting 0.
CompositeGraph(lst, mask) ==
  [lst_p95 |-> Tabulated([k \in DOMAIN mask |->
     LET seen == [t \in Times(lst) |-> lst[t][k]]
         p95 == NanP95(seen)
     IN  IF Observed(seen) = {} \/ p95 < LeastTrusted * Degree THEN Nodata ELSE p95]),
   qa_count |-> Tabulated([k \in DOMAIN mask |-> Tabulated([m \in Months |->
     Cardinality({t \in Times(lst) : MonthOf(t) = m /\ lst[t][k] # NaN}) % QaWidth])])]

\* Land mask, then the gap mask on what is implausibly hot; counts keep gaps.
MaskComposite(composite, mask, gap) ==
  [lst_p95 |-> Tabulated([k \in DOMAIN mask |->
     CASE ~mask[k] -> NaN
       [] mask[k] /\ composite.lst_p95[k] = Nodata -> Nodata
       [] OTHER -> IF gap[k] /\ composite.lst_p95[k] >= HotThreshold * Degree
                     THEN NaN ELSE composite.lst_p95[k]]),
   qa_count |-> Tabulated([k \in DOMAIN mask |->
     IF mask[k] THEN composite.qa_count[k] ELSE [m \in Months |-> 0]])]

\* Out of range becomes fill, never the nearest count.
EncodeLst(value) ==
  IF value \in {NaN, Nodata} THEN 0
  ELSE LET above == value - EncodedZero * Degree
       IN  IF above \in Degree..(EncodedMax * Degree) THEN above \div Degree ELSE 0

EncodeNative(composite) ==
  [composite EXCEPT !.lst_p95 = Tabulated([k \in DOMAIN @ |-> EncodeLst(@[k])])]

\* What becomes of a de-biased stack, on a band and on a whole tile alike.
Finished(lst, grid, mask, source) ==
  LET gap == GapMask(TileCell, grid.extent, source)
  IN  IF lst = Failed \/ gap = Failed THEN Failed
      ELSE EncodeNative(MaskComposite(CompositeGraph(lst, mask), mask,
                                      Each(grid, LAMBDA k : gap[grid.row[k]])))

\* A band of a tile's rows under the merged offsets.
CompositeBand(rows, items, land, source, factor, record) ==
  LET grid == RowSlice(rows)
      mask == LandMask(grid, land)
      lst == CelsiusOf(LoadScenes(items, grid), mask)
  IN  Finished(DebiasWithOffsets(lst, record, factor), grid, mask, source)

\* The estimate one process makes of a whole tile.
ComputeTileOffsets(items, land, height, factor) ==
  LET grid == CoarseGrid(height, factor)
      mask == LandMask(grid, land)
  IN  SceneOffsets(CelsiusOf(LoadScenes(items, grid), mask), mask)

ProcessTile(items, land, source, height, factor) ==
  LET native == RowSlice(<<0, height>>)
      coarse == CoarseGrid(height, factor)
      mask == LandMask(native, land)
      coarseMask == LandMask(coarse, land)
      lst == CelsiusOf(LoadScenes(items, native), mask)
  IN  Finished(SeasonalDebias(lst, mask, CelsiusOf(LoadScenes(items, coarse), coarseMask),
                              coarseMask, factor),
               native, mask, source)

=============================================================================
