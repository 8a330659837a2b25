-------------------------------- MODULE Ged --------------------------------
(***************************************************************************)
(* Where the emissivity beneath a pixel was interpolated (ged.py).  The    *)
(* ASTER GED is an archive of granules, files that count observations in   *)
(* square cells; a cell nobody observed is a gap.  A build scans an archive*)
(* into one artifact, the gap cells of the globe and what it consumed; a   *)
(* mask reads an artifact or the granules themselves.  Cells are <<row,    *)
(* column>> of the globe, rows from the north, columns from the west; a    *)
(* window of them is <<row0, row1, col0, col1>>, half open.                *)
(***************************************************************************)
EXTENDS Shards

CONSTANTS
  GranuleCells,            \* cells along the edge of a granule
  GlobalRows, GlobalCols,  \* cells of the globe
  CellRows,                \* rows of a tile that lie in one cell
  BufferCells,             \* settings.ged_gap_buffer_cells
  FormatVersion,           \* ARTIFACT_FORMAT_VERSION
  Failed                   \* an exception, where a value was asked for

ASSUME GlobeIsWhole ==
  /\ {GranuleCells, GlobalRows, GlobalCols, CellRows} \subseteq Nat \ {0}
  /\ GlobalRows % (2 * GranuleCells) = 0 /\ GlobalCols % (2 * GranuleCells) = 0
  /\ BufferCells \in Nat

None == <<>>
NumobsAbsent == -1
Top == GlobalRows \div (2 * GranuleCells)    \* the north pole, in granules
Left == GlobalCols \div (2 * GranuleCells)   \* how far west the globe begins
Edge == 0..(GranuleCells - 1)
Cells(window) == Rows(window) \X Columns(window)

-----------------------------------------------------------------------------
(* Granules.  An archive is a function from names to files, a file         *)
(* [numobs, north_up, west_left]: its rows and columns as stored.          *)

\* A name carries the north edge and the west edge, in degrees of a granule.
GranuleName(grow, gcol) == <<Top - grow, (gcol % (2 * Left)) - Left>>

ReadGranuleNumobs(file) ==
  [p \in Edge \X Edge |->
     file.numobs[<<IF file.north_up THEN p[1] ELSE GranuleCells - 1 - p[1],
                   IF file.west_left THEN p[2] ELSE GranuleCells - 1 - p[2]>>]]

\* A granule of the grid, and whether it overlaps the core of a window.
GranuleAt(grow, gcol, core) ==
  LET row == grow * GranuleCells
      col == gcol * GranuleCells
  IN  [name |-> GranuleName(grow, gcol), row |-> row, col |-> col,
       core |-> /\ row < core[2] /\ row + GranuleCells > core[1]
                /\ col < core[4] /\ col + GranuleCells > core[3]]

\* Every granule a window touches.
GranulesForWindow(window, core) ==
  {GranuleAt(cell[1] \div GranuleCells, cell[2] \div GranuleCells, core) :
     cell \in Cells(window)}

\* One missing granule of the core would leave pixels unmasked.
GranulesServe(archive, window, core) ==
  \A g \in GranulesForWindow(window, core) : g.core => g.name \in DOMAIN archive

\* Observations of each cell of a window.  A missing granule of the margin
\* counts nothing.
NumobsWindow(archive, window, core) ==
  LET needed == GranulesForWindow(window, core)
      over(p) == CHOOSE g \in needed : p[1] - g.row \in Edge /\ p[2] - g.col \in Edge
      numobs(p) ==
        LET g == over(p)
        IN  IF g.name \in DOMAIN archive
              THEN ReadGranuleNumobs(archive[g.name])[<<p[1] - g.row, p[2] - g.col>>]
              ELSE NumobsAbsent
  IN  [p \in Cells(window) |-> numobs(p)]

CellsFromGranules(archive, window, core) ==
  LET numobs == NumobsWindow(archive, window, core)
  IN  {p \in Cells(window) : numobs[p] = 0}

-----------------------------------------------------------------------------
(* The artifact.                                                           *)

\* Whatever decides which tiles are served, and how.  A digest stands for
\* the file it was taken of.
CanonicalContent(gaps, consumed, absent) == <<FormatVersion, gaps, consumed, absent>>

\* Every granule of an archive, and the expected ones that are missing though
\* the collection is not known to lack them.
BuildArtifact(archive, expected, absent) ==
  LET gapsOf(name) ==
        LET row == (Top - name[1]) * GranuleCells
            col == (name[2] + Left) * GranuleCells
            numobs == ReadGranuleNumobs(archive[name])
        IN  {<<p[1] + row, p[2] + col>> : p \in {p \in Edge \X Edge : numobs[p] = 0}}
      gaps == UNION {gapsOf(name) : name \in DOMAIN archive}
  IN  IF DOMAIN archive = {} THEN Failed
      ELSE [version |-> FormatVersion, gaps |-> gaps, consumed |-> archive,
            absent |-> absent, missing |-> (expected \ DOMAIN archive) \ absent,
            content |-> CanonicalContent(gaps, archive, absent)]

\* Refused: another layout, an edited file, and a build that is not the one
\* the code pins (GED_ARTIFACT_CONTENT_SHA256), if it pins one.
LoadArtifact(artifact, pinned) ==
  IF \/ artifact.version # FormatVersion
     \/ CanonicalContent(artifact.gaps, artifact.consumed, artifact.absent) # artifact.content
     \/ pinned # None /\ artifact.content # pinned
    THEN Failed ELSE artifact

\* A granule the build never read looks like one without gaps, so a core one
\* is refused unless the collection has none.
ArtifactServes(artifact, pinned, window, core) ==
  /\ LoadArtifact(artifact, pinned) # Failed
  /\ \A g \in GranulesForWindow(window, core) :
       g.core => g.name \in DOMAIN artifact.consumed \cup artifact.absent

\* Columns wrap.
CellsFromArtifact(artifact, window) ==
  {p \in Cells(window) :
     \E shift \in {0, GlobalCols, -GlobalCols} : <<p[1], p[2] - shift>> \in artifact.gaps}

-----------------------------------------------------------------------------
(* The mask.                                                               *)

DilateCells(cells, window, buffer) ==
  {p \in Cells(window) : \E q \in cells : /\ p[1] - q[1] \in -buffer..buffer
                                          /\ p[2] - q[2] \in -buffer..buffer}

\* A tile is named by the cell of its first pixel; it is one pixel wide.
CellRow(tile, row) == tile[1] + row \div CellRows

\* The cells some rows of a tile lie in, and the same with a margin the
\* buffer can reach from: rows stop at the poles, columns go round.
CellWindow(tile, rows, buffer) ==
  LET core == <<CellRow(tile, Min(rows)), CellRow(tile, Max(rows)) + 1, tile[2], tile[2] + 1>>
  IN  [core   |-> core,
       padded |-> <<Higher(core[1] - buffer, 0), Lower(core[2] + buffer, GlobalRows),
                    core[3] - buffer, core[4] + buffer>>]

\* A process sees [artifact, packaged, dir, pinned], each None or there.  The
\* configured artifact first, then the packaged one, then the granules;
\* never silence.
ResolveSource(source) ==
  CASE source.artifact # None -> [kind |-> "artifact", of |-> source.artifact]
    [] source.artifact = None /\ source.packaged # None ->
         [kind |-> "artifact", of |-> source.packaged]
    [] source.artifact = None /\ source.packaged = None /\ source.dir # None ->
         [kind |-> "granules", of |-> source.dir]
    [] OTHER -> [kind |-> "none"]

\* The region of a tile's rows that is a gap or lies within the buffer of one.
GapMask(tile, rows, source) ==
  LET window == CellWindow(tile, rows, BufferCells)
      from == ResolveSource(source)
      served == CASE from.kind = "artifact" ->
                       ArtifactServes(from.of, source.pinned, window.padded, window.core)
                  [] from.kind = "granules" -> GranulesServe(from.of, window.padded, window.core)
                  [] OTHER -> FALSE
      cells == IF from.kind = "artifact" THEN CellsFromArtifact(from.of, window.padded)
               ELSE CellsFromGranules(from.of, window.padded, window.core)
      dilated == DilateCells(cells, window.padded, BufferCells)
  IN  IF ~served THEN Failed
      ELSE Tabulated([row \in rows |-> <<CellRow(tile, row), tile[2]>> \in dilated])

=============================================================================
