----------------------------- MODULE GedArchive -----------------------------
(***************************************************************************)
(* How the gap mask's artifact comes to be packaged.  One script asks the  *)
(* catalog what the collection holds and downloads what the production     *)
(* tiles need of it (fetch_ged_granules.py), another builds the artifact   *)
(* from whatever was downloaded (build_ged_gap_mask.py); both judge the    *)
(* archive by ged_coverage.py.  A build accepted as complete is committed  *)
(* with its content pinned.  Either script may be run, and die, at any     *)
(* point.  The collection is closed: it does not change in between.        *)
(***************************************************************************)
EXTENDS Ged

CONSTANTS
  TileRows,           \* rows of a tile
  ProductionTiles,    \* the tiles generate_jobs() submits
  Collections         \* archives AG100 may turn out to be

\* A tile lies on the globe, and granules are named for places on it.
ASSUME ArchiveAssumption ==
  /\ TileRows \in Nat \ {0}
  /\ \A tile \in ProductionTiles :
       /\ tile \in (0..(GlobalRows - 1)) \X (0..(GlobalCols - 1))
       /\ CellRow(tile, TileRows - 1) < GlobalRows
  /\ \A upstream \in Collections :
       /\ IsFiniteSet(DOMAIN upstream)
       /\ DOMAIN upstream \subseteq ((1 - Top)..Top) \X (-Left..(Left - 1))

VARIABLES
  collection,   \* every granule upstream
  inventory,    \* ged_upstream_inventory.json: [names, hits], or None
  archive,      \* settings.ged_dir
  artifact,     \* what the last build wrote, or None
  wheel         \* the committed package: [packaged, pinned]

archiveVars == <<collection, inventory, archive, artifact, wheel>>

Unpublished == [packaged |-> None, pinned |-> None]

-----------------------------------------------------------------------------
(* Coverage.                                                               *)

GranulesForTile(tile) ==
  LET window == CellWindow(tile, 0..(TileRows - 1), BufferCells)
  IN  GranulesForWindow(window.padded, window.core)

\* Margins included: the dilation reads them.
ExpectedGranules == UNION {{g.name : g \in GranulesForTile(tile)} : tile \in ProductionTiles}

\* A mutant: a listing that was cut short is as good as any.
ListingIsNotEmpty(names, hits) == names # {}

\* An inventory authorizes absences only if it lists all the catalog has.
ValidateInventory(names, hits) == names # {} /\ Cardinality(names) = hits

\* What a source holds, and what it knows the collection to lack.
SourceManifests(source) ==
  IF source.artifact # None
    THEN LET data == LoadArtifact(source.artifact, source.pinned)
         IN  [held |-> DOMAIN data.consumed, absent |-> data.absent]
    ELSE [held |-> DOMAIN source.dir, absent |-> {}]

\* Missing granules that cannot be fetched.  An artifact's word is taken
\* unless the inventory at hand contradicts it.
EstablishedAbsences(source, missing, embedded, listed) ==
  LET unlisted == missing \ listed.names
  IN  CASE source.artifact = None /\ listed = None -> {}
        [] source.artifact = None /\ listed # None -> unlisted
        [] source.artifact # None /\ listed = None -> missing \cap embedded
        [] OTHER -> IF unlisted = missing \cap embedded THEN unlisted ELSE Failed

BuildReport(source, listed) ==
  LET manifests == SourceManifests(source)
      missing == ExpectedGranules \ manifests.held
      absent == EstablishedAbsences(source, missing, manifests.absent, listed)
  IN  [expected |-> ExpectedGranules, missing |-> missing, absent |-> absent,
       fetchable |-> missing \ absent]

Complete(report) == report.fetchable = {}

-----------------------------------------------------------------------------

Granules == [artifact |-> None, packaged |-> None, dir |-> archive, pinned |-> None]

InitArchive ==
  /\ collection \in Collections
  /\ inventory = None /\ archive = None /\ artifact = None /\ wheel = Unpublished

\* A query may return fewer records than the catalog says it has.
FetchInventory ==
  /\ \E names \in SUBSET DOMAIN collection :
       /\ ValidateInventory(names, Cardinality(DOMAIN collection))
       /\ inventory' = [names |-> names, hits |-> Cardinality(DOMAIN collection)]
  /\ UNCHANGED <<collection, archive, artifact, wheel>>

\* Downloads run in threads; any of them may be missing when the script ends.
Download ==
  /\ inventory # None
  /\ \E got \in SUBSET BuildReport(Granules, inventory).fetchable :
       /\ got # {}
       /\ archive' = [name \in got \cup DOMAIN archive |->
                        IF name \in got THEN collection[name] ELSE archive[name]]
  /\ UNCHANGED <<collection, inventory, artifact, wheel>>

\* Complete or not, with an inventory or without, the artifact is written.
Build ==
  /\ LET report == BuildReport(Granules, inventory)
         built == BuildArtifact(archive, report.expected, report.absent)
     IN  built # Failed /\ artifact' = built
  /\ UNCHANGED <<collection, inventory, archive, wheel>>

\* The commit that packages an accepted build and pins its content.
Package ==
  /\ artifact # None
  /\ artifact.missing = {}
  /\ wheel' = [packaged |-> artifact, pinned |-> artifact.content]
  /\ UNCHANGED <<collection, inventory, archive, artifact>>

NextArchive == FetchInventory \/ Download \/ Build \/ Package

SpecArchive == InitArchive /\ [][NextArchive]_archiveVars

-----------------------------------------------------------------------------

\* The rows of a tile that lie within the buffer of a gap of the collection,
\* said of the globe without windows or granules.
InGap(tile, row) ==
  \E name \in DOMAIN collection : \E p \in Edge \X Edge :
    LET numobs == ReadGranuleNumobs(collection[name])
        south == CellRow(tile, row) - (p[1] + (Top - name[1]) * GranuleCells)
        east == tile[2] - (p[2] + (name[2] + Left) * GranuleCells)
    IN  /\ numobs[p] = 0
        /\ south \in -BufferCells..BufferCells
        /\ \E turn \in -1..1 : east + turn * GlobalCols \in -BufferCells..BufferCells

\* What a worker can read, with no repository and no granules; and what the
\* machine the scripts ran on can.
FromWheel == [artifact |-> None, packaged |-> wheel.packaged, dir |-> None,
              pinned |-> wheel.pinned]
FromMachine == [FromWheel EXCEPT !.artifact = artifact, !.dir = archive]

\* A packaged artifact masks every production tile, refusing none, and
\* exactly where a cell of the collection within the buffer is a gap, across
\* the antimeridian and at the poles too; and it reports itself complete.
\* (ged.build_artifact, ged._cells_from_artifact, ged_coverage.build_report)
WheelMasksEveryTile ==
  wheel # Unpublished =>
    /\ \A t \in ProductionTiles :
         GapMask(t, 0..(TileRows - 1), FromWheel) = [row \in 0..(TileRows - 1) |-> InGap(t, row)]
    /\ Complete(BuildReport([FromWheel EXCEPT !.artifact = wheel.packaged], None))

=============================================================================
