-------------------------------- MODULE Cog --------------------------------
(***************************************************************************)
(* From composited rows to a finished COG (cog.py).  An intermediate raster*)
(* is [rows, nodata]: for each row, one value per band, and the value its  *)
(* header calls missing.  A finished one also carries its tags: what the   *)
(* tile was made of, each band's statistics, and the log of its coverage.  *)
(* Statistics are kept as exact fractions <<numerator, denominator>>.      *)
(***************************************************************************)
EXTENDS Raster

LstFillValue == 0

-----------------------------------------------------------------------------
(* Products.  Counts arrive with the nodata of the stack they were read    *)
(* from; no observation is data, so it is taken off (NaN: no nodata).      *)

LstProduct(native) ==
  [rows |-> Tabulated([k \in DOMAIN native.lst_p95 |-> <<native.lst_p95[k]>>]),
   nodata |-> LstFillValue, coverage |-> FALSE]

QaProduct(native) ==
  [rows |-> Tabulated([k \in DOMAIN native.qa_count |->
              [m \in 1..Cardinality(Months) |-> native.qa_count[k][m]]]),
   nodata |-> NaN, coverage |-> TRUE]

WriteIntermediate(product) == [rows |-> product.rows, nodata |-> product.nodata]

\* Slabs laid at the rows they claim, under the header of the first.
MergeBands(slabs, windows) ==
  LET bands(slab) == {Len(slab.rows[k]) : k \in DOMAIN slab.rows}
      owner(r) == CHOOSE i \in DOMAIN windows : r \in Indexes(windows[i])
  IN  IF \/ DOMAIN slabs # DOMAIN windows
         \/ \E i \in DOMAIN slabs : \/ bands(slabs[i]) # bands(slabs[1])
                                    \/ Cardinality(DOMAIN slabs[i].rows) # Width(windows[i])
        THEN Failed
        ELSE [rows |-> Tabulated([r \in 0..(windows[Len(windows)][2] - 1) |->
                         slabs[owner(r)].rows[r - windows[owner(r)][1]]]),
              nodata |-> slabs[1].nodata]

-----------------------------------------------------------------------------
(* Statistics, in one walk of the raster's blocks.                         *)

NoMoments == [total |-> 0, valid |-> 0, sum |-> 0, sumsq |-> 0, seen |-> {}]

\* One block of one band folded in; seen holds its least and greatest value.
UpdateMoments(moments, values, nodata) ==
  LET valid == SelectSeq(values, LAMBDA v : v # nodata)
      extremes == moments.seen \cup Range(valid)
  IN  [total |-> moments.total + Len(values),
       valid |-> moments.valid + Len(valid),
       sum   |-> FoldLeft(+, moments.sum, valid),
       sumsq |-> FoldLeft(LAMBDA s, v : s + v * v, moments.sumsq, valid),
       seen  |-> IF extremes = {} THEN {} ELSE {Min(extremes), Max(extremes)}]

\* A band without a valid pixel has all its tags, and they are 0.
StatisticsTags(m) ==
  IF m.valid = 0
    THEN [minimum |-> 0, maximum |-> 0, mean |-> <<0, 1>>, variance |-> <<0, 1>>,
          valid_percent |-> <<0, 1>>]
    ELSE [minimum |-> Min(m.seen), maximum |-> Max(m.seen), mean |-> <<m.sum, m.valid>>,
          variance |-> <<m.valid * m.sumsq - m.sum * m.sum, m.valid * m.valid>>,
          valid_percent |-> <<100 * m.valid, m.total>>]

BlockWindows(rows) ==
  LET height == Cardinality(DOMAIN rows)
  IN  [b \in 1..Ceiling(height, CogBlocksize) |->
         [j \in 1..Lower(CogBlocksize, height - (b - 1) * CogBlocksize) |->
            rows[(b - 1) * CogBlocksize + j - 1]]]

\* Each band's tags, and how many pixels have each total over the bands.
EmbedStatistics(rows, nodata) ==
  LET walk == BlockWindows(rows)
      moments(b) == FoldLeft(LAMBDA m, block : UpdateMoments(m, [j \in DOMAIN block |-> block[j][b]], nodata),
                             NoMoments, walk)
      total(row) == FoldLeft(+, 0, row)
      tally(h, block) == [n \in DOMAIN h |-> h[n] + Cardinality({j \in DOMAIN block : total(block[j]) = n})]
      totals == {total(rows[r]) : r \in DOMAIN rows}
  IN  [tags |-> [b \in DOMAIN rows[0] |-> StatisticsTags(moments(b))],
       histogram |-> FoldLeft(tally, [n \in 0..Max(totals) |-> 0], walk)]

\* The order statistics of a histogram; the median is doubled to stay whole.
CoverageSummary(histogram) ==
  LET bins == DOMAIN histogram
      upTo(n) == FoldLeft(LAMBDA s, i : s + histogram[i - 1], 0, [i \in 1..(n + 1) |-> i])
      pixels == upTo(Max(bins))
      reached(k) == Min({n \in bins : upTo(n) >= k})
      half == pixels \div 2
      populated == {n \in bins : histogram[n] # 0}
  IN  [min |-> Min(populated), max |-> Max(populated),
       median |-> IF pixels % 2 = 1 THEN 2 * reached(half + 1)
                                    ELSE reached(half) + reached(half + 1),
       zero_frac |-> <<histogram[0], pixels>>]

-----------------------------------------------------------------------------
(* The finished COG.                                                       *)

\* The header is the product's, whatever the intermediate inherited.
FinishProduct(raster, product, attrs) ==
  LET statistics == EmbedStatistics(raster.rows, product.nodata)
  IN  [rows |-> raster.rows, nodata |-> product.nodata, attrs |-> attrs,
       tags |-> statistics.tags,
       coverage |-> IF product.coverage THEN CoverageSummary(statistics.histogram) ELSE None]

\* The two COGs of a tile one process composites.
CogExport(native, attrs) ==
  LET finish(product) == FinishProduct(WriteIntermediate(product), product, attrs)
  IN  [lst_p95 |-> finish(LstProduct(native)), qa_count |-> finish(QaProduct(native))]

=============================================================================
