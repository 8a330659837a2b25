------------------------------ MODULE Catalog ------------------------------
(***************************************************************************)
(* From finished COGs to a published catalog (catalog/__init__.py, scan.py,*)
(* items.py, parquet.py, publish.py).  Workers export COGs into a source;  *)
(* an operator builds a tree from it, file by file, and publishes the tree,*)
(* file by file, over what an earlier publish left.  Either command may    *)
(* die between two files and be run again.  A COG is its version, an item  *)
(* the versions it describes, the collection the items it links.  Markdown *)
(* and the thumbnail are left out: one is always sent, and the other is a  *)
(* table of its own like the mirror.                                       *)
(***************************************************************************)
EXTENDS Integers, FiniteSets, Functions

CONSTANTS
  Tile,         \* tile names
  Place,        \* where a name comes among them
  HardLinks,    \* the source is a local directory on the tree's file system
  MaxVersion    \* bound: how often each COG is exported

Assets == {"lst_p95", "qa_count"}
Cogs == Tile \X Assets
ASSUME CatalogAssumption ==
  /\ Place \in Injection(Tile, Nat)
  /\ HardLinks \in BOOLEAN
  /\ MaxVersion \in [Cogs -> Nat]

ItemOf(t) == <<t, "item">>
Collection == <<"", "collection">>
Mirror == <<"", "items.parquet">>
RootCatalog == <<"", "catalog">>
TileFiles(t) == {ItemOf(t)} \cup {<<t, a>> : a \in Assets}
FilesOf(tiles) == {Mirror, Collection, RootCatalog} \cup UNION {TileFiles(t) : t \in tiles}
Metadata == {ItemOf(t) : t \in Tile} \cup {Collection, RootCatalog}

VARIABLES
  source,      \* version of each finished COG, 0 where there is none
  tree,        \* the files of the local catalog
  remote,      \* the objects under the published prefix
  command,     \* the command that runs: what it has still to write, in order
  complete     \* how far the commands got: "torn", "built", "published"

vars == <<source, tree, remote, command, complete>>

Nothing == [f \in {} |-> 0]
Idle == [name |-> "idle", todo |-> {}, items |-> Nothing]
Torn == -1     \* a file that was replaced but not written to its end

\* A file written over what was there.
Put(files, f, contents) ==
  [g \in DOMAIN files \cup {f} |-> IF g = f THEN contents ELSE files[g]]

\* A command works through its files phase by phase, and within one tile by
\* tile: a tile's item, then its COGs.
Kinds == [item |-> 0, lst_p95 |-> 1, qa_count |-> 2]
Earlier(phase, f, g) ==
  \/ phase[f] < phase[g]
  \/ /\ phase[f] = phase[g]
     /\ \/ Place[f[1]] < Place[g[1]]
        \/ f[1] = g[1] /\ Kinds[f[2]] < Kinds[g[2]]
IsFirst(phase, f) ==
  f \in command.todo /\ \A g \in command.todo \ {f} : Earlier(phase, f, g)

-----------------------------------------------------------------------------
(* What is built.                                                          *)

\* scan_source: a tile with one asset stops the build, whatever the build is
\* restricted to; otherwise the complete tiles asked for.
Half(t) == Cardinality({a \in Assets : source[t, a] > 0}) = 1
ScanSource(wanted) ==
  IF \E t \in Tile : Half(t) THEN {}
  ELSE {t \in wanted : \A a \in Assets : source[t, a] > 0}
BuildItem(t) == [a \in Assets |-> source[t, a]]

\* The order of build_catalog: COGs, mirror, and, as pystac saves children
\* before parents, items, collection, catalog.
BuildOrder ==
  [f \in FilesOf(Tile) |->
     CASE f \in Cogs -> 1 [] f = Mirror -> 2 [] f = Collection -> 4 [] f = RootCatalog -> 5
       [] OTHER -> 3]

\* What a finished file says: all of them come from the items of one scan.
Contents(f, items) ==
  CASE f \in Cogs -> items[f[1]][f[2]]
    [] f[2] = "item" -> items[f[1]]
    [] OTHER -> items

-----------------------------------------------------------------------------
(* What is published.                                                      *)

\* Two versions of a COG differ in length; an edit of a table may leave its own.
Size(f, contents) == IF f \in Cogs THEN contents ELSE Cardinality(DOMAIN contents)

\* A mutant: metadata of an unchanged length is skipped like any file.
SizeDecides == {}
AlwaysUpload == Metadata

\* A mutant: directories are walked after the files beside them.
WalkFilesFirst ==
  [f \in FilesOf(Tile) |->
     CASE f = RootCatalog -> 1 [] f = Collection -> 2 [] f = Mirror -> 3 [] OTHER -> 4]

\* sorted(rglob): upper case first, so tile directories precede
\* collection.json, and each holds its item before its COGs.
Walk ==
  [f \in FilesOf(Tile) |->
     CASE f = RootCatalog -> 1 [] f = Collection -> 3 [] f = Mirror -> 4 [] OTHER -> 2]

PlanUploads ==
  {f \in DOMAIN tree :
    \/ f \in AlwaysUpload
    \/ f \notin DOMAIN remote
    \/ Size(f, remote[f]) # Size(f, tree[f])}

-----------------------------------------------------------------------------
(* Steps.                                                                  *)

Init ==
  /\ source = [c \in Cogs |-> 0]
  /\ tree = Nothing /\ remote = Nothing
  /\ command = Idle /\ complete = "torn"

\* A worker's export replaces one COG; none runs while the catalog is built.
\* LocalStorage.upload rewrites the file in place, and so its hard link too.
Export(c) ==
  /\ command.name \in {"idle", "publish"}
  /\ source[c] < MaxVersion[c]
  /\ source' = [source EXCEPT ![c] = @ + 1]
  /\ tree' = IF HardLinks /\ c \in DOMAIN tree /\ tree[c] # Torn
              THEN [tree EXCEPT ![c] = source'[c]] ELSE tree
  /\ UNCHANGED <<remote, command, complete>>

\* Everything that can refuse a build comes before its first write.
BuildCatalog(wanted) ==
  LET pairs == ScanSource(wanted)
  IN  /\ command = Idle
      /\ pairs # {}
      /\ command' = [name |-> "build", todo |-> FilesOf(pairs),
                     items |-> [t \in pairs |-> BuildItem(t)]]
      /\ complete' = "torn"
      /\ UNCHANGED <<source, tree, remote>>

\* place_file leaves a destination of the right size alone, and else unlinks
\* and rewrites it; every other file is rewritten.
InPlace(f) == f \in Cogs \cap DOMAIN tree /\ Size(f, tree[f]) = command.items[f[1]][f[2]]

WriteBegins ==
  /\ command.name = "build"
  /\ \E f \in Cogs : /\ IsFirst(BuildOrder, f) /\ ~InPlace(f)
                     /\ tree' = Put(tree, f, Torn)
  /\ command' = [command EXCEPT !.name = "write"]
  /\ UNCHANGED <<source, remote, complete>>

WriteEnds ==
  \E f \in FilesOf(Tile) :
     /\ IsFirst(BuildOrder, f)
     /\ \/ command.name = "write"
        \/ command.name = "build" /\ (f \notin Cogs \/ InPlace(f))
     /\ tree' = IF command.name = "build" /\ InPlace(f) THEN tree
                ELSE Put(tree, f, Contents(f, command.items))
     /\ command' = [command EXCEPT !.name = "build", !.todo = @ \ {f}]
     /\ UNCHANGED <<source, remote, complete>>

BuildReturns ==
  /\ command.name = "build" /\ command.todo = {}
  /\ command' = Idle
  /\ complete' = "built"
  /\ UNCHANGED <<source, tree, remote>>

\* The bucket is listed once; what it holds of the right size is not sent.
\* An operator publishes a tree whose build returned.
PublishCatalog ==
  /\ command = Idle
  /\ complete \in {"built", "published"}
  /\ command' = [name |-> "publish", todo |-> PlanUploads, items |-> Nothing]
  /\ complete' = "built"
  /\ UNCHANGED <<source, tree, remote>>

Upload ==
  /\ command.name = "publish"
  /\ \E f \in FilesOf(Tile) :
        /\ IsFirst(Walk, f)
        /\ remote' = Put(remote, f, tree[f])
        /\ command' = [command EXCEPT !.todo = @ \ {f}]
  /\ UNCHANGED <<source, tree, complete>>

PublishReturns ==
  /\ command.name = "publish" /\ command.todo = {}
  /\ command' = Idle
  /\ complete' = "published"
  /\ UNCHANGED <<source, tree, remote>>

\* The process dies; files and objects stay as they are.
Dies ==
  /\ command # Idle
  /\ command' = Idle
  /\ UNCHANGED <<source, tree, remote, complete>>

Next ==
  \/ \E c \in Cogs : Export(c)
  \/ \E wanted \in SUBSET Tile : BuildCatalog(wanted)
  \/ WriteBegins \/ WriteEnds \/ BuildReturns
  \/ PublishCatalog \/ Upload \/ PublishReturns
  \/ Dies

Spec == Init /\ [][Next]_vars

-----------------------------------------------------------------------------
(* Properties.                                                             *)

\* A reader who follows the published collection finds every item it links
\* and both COGs of each, at every moment of every publish and wherever one
\* died.  (publish._walk, plan_uploads, build_catalog)
LinksResolve ==
  Collection \in DOMAIN remote =>
    \A t \in DOMAIN remote[Collection] :
      TileFiles(t) \subseteq DOMAIN remote

\* Once a publish has returned, every item the published collection links
\* describes the very COGs published beside it, whatever builds and publishes
\* died before and whichever tiles they were restricted to.
\* (scan.place_file, plan_uploads, _ALWAYS_UPLOAD)
ItemsDescribeTheCogs ==
  complete = "published" =>
    \A t \in DOMAIN remote[Collection] : \A a \in Assets :
      remote[ItemOf(t)][a] = remote[<<t, a>>]

=============================================================================
