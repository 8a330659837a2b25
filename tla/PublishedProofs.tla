-------------------------- MODULE PublishedProofs --------------------------
(***************************************************************************)
(* What holds of what is shipped.  Of a published catalog: for any set of  *)
(* tiles, any number of exports, and builds and publishes that die         *)
(* anywhere and are repeated.  Of a packaged gap mask: for any collection  *)
(* of granules, any globe cut into them, any production tiles, and         *)
(* downloads and builds that die anywhere.                                 *)
(***************************************************************************)
EXTENDS Catalog, GedArchive, Counting

-----------------------------------------------------------------------------
(* The catalog.                                                            *)

File == FilesOf(Tile)
Scan == UNION {[tiles -> [Assets -> Nat]] : tiles \in SUBSET Tile}
Command == [name : {"idle", "build", "write", "publish"}, todo : SUBSET File, items : Scan]

Types ==
    /\ source \in [Cogs -> Nat]
    /\ DOMAIN tree \subseteq File
    /\ command \in Command
    /\ complete \in {"torn", "built", "published"}

Building == command.name \in {"build", "write"}
Publishing == command.name = "publish"

\* A tree is torn while it is built, and not yet published while it is sent.
Stages == /\ Building => complete = "torn"
          /\ Publishing => complete = "built"

\* What a build has no more to write is written, and says what the scan said.
WrittenSoFar ==
    Building => \A f \in FilesOf(DOMAIN command.items) \ command.todo :
                    f \in DOMAIN tree /\ tree[f] = Contents(f, command.items)

\* The collection of a tree whose build returned links tiles that are all there.
TreeClosed ==
    complete # "torn" => /\ Collection \in DOMAIN tree
                         /\ DOMAIN tree[Collection] \subseteq Tile
                         /\ \A t \in DOMAIN tree[Collection] : TileFiles(t) \subseteq DOMAIN tree

\* What a publish has no more to send is in the bucket.
SentSoFar == Publishing => DOMAIN tree \ command.todo \subseteq DOMAIN remote

LinkInv == Types /\ Stages /\ WrittenSoFar /\ TreeClosed /\ SentSoFar /\ LinksResolve

\* The files of a catalog, told apart.
LEMMA Names ==
    /\ Collection \in File /\ Collection \notin Cogs /\ Collection \in Metadata
    /\ Collection # Mirror /\ Collection # RootCatalog /\ Mirror # RootCatalog
    /\ Mirror \notin Cogs /\ RootCatalog \notin Cogs
    /\ \A t \in Tile : /\ ItemOf(t) \in File /\ ItemOf(t) \notin Cogs /\ ItemOf(t) \in Metadata
                       /\ ItemOf(t) # Collection /\ ItemOf(t) # Mirror
                       /\ ItemOf(t) # RootCatalog /\ ItemOf(t)[1] = t
                       /\ ItemOf(t)[2] = "item" /\ TileFiles(t) \subseteq File
                       /\ \A a \in Assets : /\ <<t, a>> \in Cogs /\ <<t, a>> \in TileFiles(t)
                                            /\ <<t, a>>[1] = t /\ <<t, a>>[2] = a
                       /\ ItemOf(t) \in TileFiles(t)
    /\ \A f \in File : f \in Cogs \/ f \in Metadata \/ f = Mirror
    /\ Cogs \subseteq File
<1>1. \A t \in Tile : TileFiles(t) \subseteq File
  BY DEF File, FilesOf
<1>2. \A t \in Tile : ItemOf(t) \in TileFiles(t) /\ \A a \in Assets : <<t, a>> \in TileFiles(t)
  BY DEF TileFiles
<1>3. Collection \in File /\ Mirror \in File /\ RootCatalog \in File
  BY DEF File, FilesOf
<1>4. Collection # Mirror /\ Collection # RootCatalog /\ Mirror # RootCatalog
  BY DEF Collection, Mirror, RootCatalog
<1>5. Collection \notin Cogs /\ Mirror \notin Cogs /\ RootCatalog \notin Cogs
  BY DEF Collection, Mirror, RootCatalog, Cogs, Assets
<1>6. ASSUME NEW t \in Tile
      PROVE  /\ ItemOf(t) \notin Cogs /\ ItemOf(t) # Collection /\ ItemOf(t) # Mirror
             /\ ItemOf(t) # RootCatalog
             /\ ItemOf(t)[1] = t /\ ItemOf(t)[2] = "item"
  BY DEF ItemOf, Collection, Mirror, RootCatalog, Cogs, Assets
<1>7. \A t \in Tile, a \in Assets : <<t, a>> \in Cogs /\ <<t, a>>[1] = t /\ <<t, a>>[2] = a
  BY DEF Cogs
<1>8. Collection \in Metadata /\ RootCatalog \in Metadata /\ \A t \in Tile : ItemOf(t) \in Metadata
  BY DEF Metadata
<1>9. Cogs \subseteq File
  <2> SUFFICES ASSUME NEW f \in Cogs PROVE f \in File
    OBVIOUS
  <2>1. PICK t \in Tile, a \in Assets : f = <<t, a>>
    BY DEF Cogs
  <2> QED
    BY <1>1, <1>2, <2>1
<1>10. \A f \in File : f \in Cogs \/ f \in Metadata \/ f = Mirror
  BY <1>7, <1>8 DEF File, FilesOf, TileFiles
<1> QED
  BY <1>1, <1>2, <1>3, <1>4, <1>5, <1>6, <1>7, <1>8, <1>9, <1>10

\* The collection is sent after the files of every tile.
LEMMA CollectionIsLate ==
    ASSUME IsFirst(Walk, Collection), NEW t \in Tile
    PROVE  TileFiles(t) \cap command.todo = {}
<1> SUFFICES ASSUME NEW f \in TileFiles(t), f \in command.todo PROVE FALSE
  OBVIOUS
<1>1. f \in File /\ f # Collection /\ f # Mirror /\ f # RootCatalog
  <2>1. f = ItemOf(t) \/ \E a \in Assets : f = <<t, a>>
    BY DEF TileFiles
  <2> QED
    BY <2>1, Names
<1>2. Walk[f] = 2 /\ Walk[Collection] = 3
  BY <1>1, Names DEF Walk, File
<1>3. Earlier(Walk, Collection, f)
  BY <1>1 DEF IsFirst
<1> QED
  BY <1>2, <1>3 DEF Earlier

\* A step of a command that sets what is left of it.
LEMMA CommandType ==
    ASSUME Types, NEW name \in {"idle", "build", "write", "publish"}, NEW todo \in SUBSET File
    PROVE  /\ [command EXCEPT !.name = name] \in Command
           /\ [command EXCEPT !.todo = todo] \in Command
           /\ [command EXCEPT !.name = name, !.todo = todo] \in Command
BY DEF Types, Command

LEMMA IdleType == Idle \in Command /\ Nothing \in Scan
<1>1. Nothing \in [{} -> [Assets -> Nat]] /\ {} \in SUBSET Tile
  BY DEF Nothing
<1> HIDE DEF Nothing
<1>2. Nothing \in Scan
  BY <1>1 DEF Scan
<1> QED
  BY <1>2 DEF Idle, Command

LEMMA ScanType ==
    ASSUME Types
    PROVE  DOMAIN command.items \subseteq Tile
<1>1. command.items \in Scan
  BY DEF Types, Command
<1>2. PICK tiles \in SUBSET Tile : command.items \in [tiles -> [Assets -> Nat]]
  BY <1>1 DEF Scan
<1> QED
  BY <1>2

LEMMA InitLinks == Init => LinkInv
<1> SUFFICES ASSUME Init PROVE LinkInv
  OBVIOUS
<1>1. Types
  BY IdleType DEF Init, Types, Nothing
<1>2. Stages /\ WrittenSoFar /\ TreeClosed /\ SentSoFar
  BY DEF Init, Stages, WrittenSoFar, TreeClosed, SentSoFar, Building, Publishing, Idle
<1>3. LinksResolve
  BY DEF Init, LinksResolve, Nothing
<1> QED
  BY <1>1, <1>2, <1>3 DEF LinkInv

\* An export changes no file of the tree but a COG, and adds none.
LEMMA ExportShape ==
    ASSUME Types, NEW c \in Cogs, Export(c)
    PROVE  /\ source' \in [Cogs -> Nat] /\ ~Building
           /\ DOMAIN tree' = DOMAIN tree
           /\ \A f \in DOMAIN tree : f \notin Cogs \/ ~HardLinks => tree'[f] = tree[f]
           /\ UNCHANGED <<remote, command, complete>>
<1>1. source' = [source EXCEPT ![c] = source[c] + 1] /\ source[c] \in Nat
  BY DEF Export, Types
<1>2. source' \in [Cogs -> Nat]
  BY <1>1 DEF Types
<1>3. tree' = tree \/ (HardLinks /\ \E v : tree' = [tree EXCEPT ![c] = v])
  BY DEF Export
<1>4. /\ DOMAIN tree' = DOMAIN tree
      /\ \A f \in DOMAIN tree : f \notin Cogs \/ ~HardLinks => tree'[f] = tree[f]
  BY <1>3
<1> QED
  BY <1>2, <1>4 DEF Export, Building

\* What each file says, by its kind.
LEMMA ContentsOf ==
    ASSUME NEW items
    PROVE  /\ \A f \in Cogs : Contents(f, items) = items[f[1]][f[2]]
           /\ \A t \in Tile : Contents(ItemOf(t), items) = items[t]
           /\ Contents(Collection, items) = items
<1>1. ASSUME NEW f \in Cogs PROVE Contents(f, items) = items[f[1]][f[2]]
  <2>1. f[2] \in Assets /\ f[2] # "item"
    BY DEF Cogs, Assets
  <2> QED
    BY <2>1 DEF Contents
<1>2. ASSUME NEW t \in Tile PROVE Contents(ItemOf(t), items) = items[t]
  BY Names DEF Contents
<1>3. Contents(Collection, items) = items
  <2>1. Collection[2] # "item"
    BY DEF Collection
  <2> QED
    BY <2>1, Names DEF Contents
<1> QED
  BY <1>1, <1>2, <1>3

\* What a step of a build does to the one file it writes, of those it has still to
\* write, and what it leaves alone.
Writes(f) ==
    /\ f \in command.todo
    /\ DOMAIN tree' \subseteq DOMAIN tree \cup {f} /\ DOMAIN tree \subseteq DOMAIN tree'
    /\ \A g \in DOMAIN tree : g # f => tree'[g] = tree[g]
    /\ command' \in Command /\ command'.items = command.items
    /\ command'.name \in {"build", "write"}
    /\ \/ command'.todo = command.todo
       \/ /\ command'.todo = command.todo \ {f}
          /\ f \in DOMAIN tree' /\ tree'[f] = Contents(f, command.items)
    /\ UNCHANGED <<source, remote, complete>>

LEMMA WriteShape ==
    ASSUME Types, WriteBegins \/ WriteEnds
    PROVE  Building /\ \E f \in File : Writes(f)
<1>1. command \in Command
  BY DEF Types
<1>2. CASE WriteBegins
  <2>1. PICK f \in Cogs : IsFirst(BuildOrder, f) /\ tree' = Put(tree, f, Torn)
    BY <1>2 DEF WriteBegins
  <2>2. f \in File /\ f \in command.todo
    BY <2>1, Names DEF IsFirst
  <2>3. /\ command' \in Command /\ command'.items = command.items
        /\ command'.name = "write" /\ command'.todo = command.todo
    BY <1>1, <1>2 DEF WriteBegins, Command
  <2>4. DOMAIN tree' = DOMAIN tree \cup {f} /\ \A g \in DOMAIN tree : g # f => tree'[g] = tree[g]
    BY <2>1 DEF Put
  <2>5. Writes(f)
    BY <1>2, <2>2, <2>3, <2>4 DEF WriteBegins, Writes
  <2> QED
    BY <1>2, <2>2, <2>5 DEF WriteBegins, Building
<1>3. CASE WriteEnds
  <2>1. PICK f \in File :
          /\ IsFirst(BuildOrder, f)
          /\ \/ command.name = "write"
             \/ command.name = "build" /\ (f \notin Cogs \/ InPlace(f))
          /\ tree' = IF command.name = "build" /\ InPlace(f) THEN tree
                     ELSE Put(tree, f, Contents(f, command.items))
          /\ command' = [command EXCEPT !.name = "build", !.todo = @ \ {f}]
    BY <1>3 DEF WriteEnds, File
  <2>2. f \in command.todo /\ Building
    BY <2>1 DEF IsFirst, Building
  <2>3. /\ command' \in Command /\ command'.items = command.items
        /\ command'.name = "build" /\ command'.todo = command.todo \ {f}
    BY <1>1, <2>1 DEF Command
  <2>4. /\ DOMAIN tree' = DOMAIN tree \cup {f}
        /\ \A g \in DOMAIN tree : g # f => tree'[g] = tree[g]
        /\ tree'[f] = Contents(f, command.items)
    <3>1. CASE command.name = "build" /\ InPlace(f)
      <4>1. f \in Cogs /\ f \in DOMAIN tree /\ tree[f] = command.items[f[1]][f[2]]
        BY <3>1 DEF InPlace, Size
      <4> QED
        BY <2>1, <3>1, <4>1, ContentsOf
    <3>2. CASE ~(command.name = "build" /\ InPlace(f))
      BY <2>1, <3>2 DEF Put
    <3> QED
      BY <3>1, <3>2
  <2>5. Writes(f)
    BY <1>3, <2>2, <2>3, <2>4 DEF WriteEnds, Writes
  <2> QED
    BY <2>2, <2>5
<1> QED
  BY <1>2, <1>3

\* What a publish does with the first of the files it has still to send.
Sends(f) ==
    /\ IsFirst(Walk, f)
    /\ DOMAIN remote' = DOMAIN remote \cup {f} /\ remote'[f] = tree[f]
    /\ \A g \in DOMAIN remote : g # f => remote'[g] = remote[g]
    /\ command' \in Command /\ command'.items = command.items
    /\ command'.name = "publish" /\ command'.todo = command.todo \ {f}
    /\ UNCHANGED <<source, tree, complete>>

LEMMA UploadShape ==
    ASSUME Types, Upload
    PROVE  Publishing /\ \E f \in File : Sends(f)
<1>1. command \in Command
  BY DEF Types
<1>2. PICK f \in File : /\ IsFirst(Walk, f) /\ remote' = Put(remote, f, tree[f])
                        /\ command' = [command EXCEPT !.todo = @ \ {f}]
  BY DEF Upload, File
<1>3. /\ command' \in Command /\ command'.items = command.items
      /\ command'.name = "publish" /\ command'.todo = command.todo \ {f}
  BY <1>1, <1>2 DEF Upload, Command
<1>4. /\ DOMAIN remote' = DOMAIN remote \cup {f} /\ remote'[f] = tree[f]
      /\ \A g \in DOMAIN remote : g # f => remote'[g] = remote[g]
  BY <1>2 DEF Put
<1>5. Sends(f)
  BY <1>2, <1>3, <1>4 DEF Upload, Sends
<1> QED
  BY <1>5 DEF Upload, Publishing

\* What the scan found of the wanted tiles.
LEMMA BuildShape ==
    ASSUME Types, NEW wanted \in SUBSET Tile, BuildCatalog(wanted)
    PROVE  /\ command' \in Command /\ command'.name = "build" /\ complete' = "torn"
           /\ command'.todo = FilesOf(DOMAIN command'.items)
           /\ UNCHANGED <<source, tree, remote>>
<1> DEFINE pairs == ScanSource(wanted)
           items == [t \in pairs |-> BuildItem(t)]
<1>1. pairs \in SUBSET Tile
  BY DEF ScanSource
<1>2. command' = [name |-> "build", todo |-> FilesOf(pairs), items |-> items]
  BY DEF BuildCatalog
<1>3. \A t \in Tile : BuildItem(t) \in [Assets -> Nat]
  <2>1. \A t \in Tile, a \in Assets : source[t, a] \in Nat
    BY DEF Types, Cogs
  <2> QED
    BY <2>1 DEF BuildItem
<1>4. items \in Scan
  <2>1. items \in [pairs -> [Assets -> Nat]]
    BY <1>1, <1>3
  <2> HIDE DEF pairs, items
  <2> QED
    BY <1>1, <2>1 DEF Scan
<1>5. FilesOf(pairs) \subseteq File
  BY <1>1 DEF File, FilesOf
<1>6. DOMAIN items = pairs
  OBVIOUS
<1> HIDE DEF pairs, items
<1> QED
  BY <1>2, <1>4, <1>5, <1>6 DEF BuildCatalog, Command

\* A step of a build or its first leaves what readers see alone.
LEMMA BuildingLinks ==
    ASSUME LinkInv, NEW wanted \in SUBSET Tile, BuildCatalog(wanted)
    PROVE  LinkInv'
<1>1. Types' /\ command'.name = "build" /\ complete' = "torn"
  BY BuildShape DEF LinkInv, Types
<1>2. Stages' /\ TreeClosed' /\ SentSoFar'
  BY <1>1 DEF Stages, TreeClosed, SentSoFar, Building, Publishing
<1>3. WrittenSoFar'
  <2>1. command'.todo = FilesOf(DOMAIN command'.items)
    BY BuildShape DEF LinkInv
  <2> QED
    BY <2>1 DEF WrittenSoFar
<1>4. LinksResolve'
  BY BuildShape DEF LinkInv, LinksResolve
<1> QED
  BY <1>1, <1>2, <1>3, <1>4 DEF LinkInv

LEMMA WritingLinks ==
    ASSUME LinkInv, WriteBegins \/ WriteEnds
    PROVE  LinkInv'
<1>1. Types /\ Building /\ complete = "torn"
  BY WriteShape DEF LinkInv, Stages
<1>2. PICK f \in File : Writes(f)
  BY <1>1, WriteShape
<1>3. Types'
  BY <1>1, <1>2 DEF Types, Writes
<1>4. complete' = "torn" /\ command'.name \in {"build", "write"}
  BY <1>1, <1>2 DEF Writes
<1>5. Stages' /\ TreeClosed' /\ SentSoFar'
  BY <1>4 DEF Stages, TreeClosed, SentSoFar, Building, Publishing
<1>6. WrittenSoFar'
  <2> SUFFICES ASSUME NEW g \in FilesOf(DOMAIN command'.items) \ command'.todo
               PROVE  g \in DOMAIN tree' /\ tree'[g] = Contents(g, command'.items)
    BY DEF WrittenSoFar
  <2>1. g \in FilesOf(DOMAIN command.items) /\ command'.items = command.items
    BY <1>2 DEF Writes
  <2>2. CASE g = f
    BY <1>2, <2>1, <2>2 DEF Writes
  <2>3. CASE g # f
    <3>1. g \notin command.todo
      BY <1>2, <2>3 DEF Writes
    <3>2. g \in DOMAIN tree /\ tree[g] = Contents(g, command.items)
      BY <1>1, <2>1, <3>1 DEF LinkInv, WrittenSoFar
    <3> QED
      BY <1>2, <2>1, <2>3, <3>2 DEF Writes
  <2> QED
    BY <2>2, <2>3
<1>7. LinksResolve'
  BY <1>2 DEF LinkInv, LinksResolve, Writes
<1> QED
  BY <1>3, <1>5, <1>6, <1>7 DEF LinkInv

\* A build that returns has written every file of the tiles it scanned.
LEMMA BuiltFrom ==
    ASSUME Types, WrittenSoFar, BuildReturns
    PROVE  /\ Collection \in DOMAIN tree /\ tree[Collection] = command.items
           /\ DOMAIN tree[Collection] \subseteq Tile
           /\ \A t \in DOMAIN tree[Collection] :
                 /\ TileFiles(t) \subseteq DOMAIN tree
                 /\ tree[ItemOf(t)] = tree[Collection][t]
                 /\ \A a \in Assets : tree[<<t, a>>] = tree[Collection][t][a]
<1> DEFINE items == command.items
<1>1. \A f \in FilesOf(DOMAIN items) : f \in DOMAIN tree /\ tree[f] = Contents(f, items)
  BY DEF BuildReturns, WrittenSoFar, Building
<1>2. DOMAIN items \subseteq Tile
  BY ScanType
<1>3. /\ Collection \in FilesOf(DOMAIN items)
      /\ \A t \in DOMAIN items : TileFiles(t) \subseteq FilesOf(DOMAIN items)
  BY DEF FilesOf
<1> HIDE DEF items
<1>4. Collection \in DOMAIN tree /\ tree[Collection] = items
  BY <1>1, <1>3, ContentsOf
<1>5. ASSUME NEW t \in DOMAIN items
      PROVE  /\ TileFiles(t) \subseteq DOMAIN tree
             /\ tree[ItemOf(t)] = items[t]
             /\ \A a \in Assets : tree[<<t, a>>] = items[t][a]
  <2>1. t \in Tile
    BY <1>2
  <2>2. TileFiles(t) \subseteq DOMAIN tree
    BY <1>1, <1>3
  <2>3. tree[ItemOf(t)] = items[t]
    BY <1>1, <1>3, <2>1, Names, ContentsOf
  <2>4. ASSUME NEW a \in Assets PROVE tree[<<t, a>>] = items[t][a]
    <3>1. /\ <<t, a>> \in Cogs /\ <<t, a>> \in TileFiles(t)
          /\ <<t, a>>[1] = t /\ <<t, a>>[2] = a
      BY <2>1, Names
    <3>2. tree[<<t, a>>] = Contents(<<t, a>>, items)
      BY <1>1, <1>3, <3>1
    <3>3. Contents(<<t, a>>, items) = items[t][a]
      BY <3>1, ContentsOf
    <3> QED
      BY <3>2, <3>3
  <2> QED
    BY <2>2, <2>3, <2>4
<1> QED
  BY <1>2, <1>4, <1>5 DEF items

LEMMA ReturningLinks ==
    ASSUME LinkInv, BuildReturns
    PROVE  LinkInv'
<1>1. Types' /\ Stages' /\ WrittenSoFar' /\ SentSoFar'
  BY IdleType DEF LinkInv, BuildReturns, Types, Stages, WrittenSoFar, SentSoFar,
                  Building, Publishing, Idle
<1>2. TreeClosed'
  BY BuiltFrom DEF LinkInv, BuildReturns, TreeClosed
<1>3. LinksResolve'
  BY DEF LinkInv, BuildReturns, LinksResolve
<1> QED
  BY <1>1, <1>2, <1>3 DEF LinkInv

\* What a publish has nothing to do for: a COG that is there already.
LEMMA LeftAlone ==
    ASSUME Types, NEW f \in DOMAIN tree \ PlanUploads, f # Mirror
    PROVE  f \in DOMAIN remote /\ remote[f] = tree[f]
<1>1. f \in File /\ f \notin Metadata /\ f \in DOMAIN remote /\ Size(f, remote[f]) = Size(f, tree[f])
  BY DEF Types, PlanUploads, AlwaysUpload
<1>2. f \in Cogs
  BY <1>1, Names
<1> QED
  BY <1>1, <1>2 DEF Size

\* The command a publish is, from its first step to its last.
LEMMA PublishShape ==
    ASSUME Types, PublishCatalog
    PROVE  /\ command' \in Command /\ command'.name = "publish" /\ command'.todo = PlanUploads
           /\ complete # "torn" /\ complete' = "built" /\ UNCHANGED <<source, tree, remote>>
<1>1. PlanUploads \subseteq File
  BY DEF PlanUploads, Types
<1> QED
  BY <1>1, IdleType DEF PublishCatalog, Command

LEMMA PublishingLinks ==
    ASSUME LinkInv, PublishCatalog
    PROVE  LinkInv'
<1> USE PublishShape DEF LinkInv
<1>1. Types'
  BY DEF Types
<1>2. Stages' /\ WrittenSoFar'
  BY DEF Stages, WrittenSoFar, Building, Publishing
<1>3. TreeClosed' /\ LinksResolve'
  BY DEF TreeClosed, LinksResolve
<1>4. SentSoFar'
  BY DEF SentSoFar, PlanUploads
<1> QED
  BY <1>1, <1>2, <1>3, <1>4

LEMMA UploadingLinks ==
    ASSUME LinkInv, Upload
    PROVE  LinkInv'
<1>1. Types /\ Publishing /\ complete = "built"
  BY UploadShape DEF LinkInv, Stages
<1>2. PICK f \in File : Sends(f)
  BY <1>1, UploadShape
<1>3. Types'
  BY <1>1, <1>2 DEF Types, Sends
<1>4. Stages' /\ WrittenSoFar'
  BY <1>1, <1>2 DEF Stages, WrittenSoFar, Building, Publishing, Sends
<1>5. TreeClosed'
  BY <1>2 DEF LinkInv, TreeClosed, Sends
<1>6. SentSoFar'
  BY <1>1, <1>2 DEF LinkInv, SentSoFar, Sends
<1>7. LinksResolve'
  <2> SUFFICES ASSUME Collection \in DOMAIN remote', NEW t \in DOMAIN remote'[Collection]
               PROVE  TileFiles(t) \subseteq DOMAIN remote'
    BY DEF LinksResolve
  <2>1. DOMAIN remote \subseteq DOMAIN remote'
    BY <1>2 DEF Sends
  <2>2. CASE f = Collection
    <3>1. t \in DOMAIN tree[Collection] /\ IsFirst(Walk, Collection)
      BY <1>2, <2>2 DEF Sends
    <3>2. t \in Tile /\ TileFiles(t) \subseteq DOMAIN tree
      BY <1>1, <3>1 DEF LinkInv, TreeClosed
    <3>3. TileFiles(t) \cap command.todo = {}
      BY <3>1, <3>2, CollectionIsLate
    <3> QED
      BY <1>1, <2>1, <3>2, <3>3 DEF LinkInv, SentSoFar
  <2>3. CASE f # Collection
    <3>1. Collection \in DOMAIN remote /\ remote'[Collection] = remote[Collection]
      BY <1>2, <2>3 DEF Sends
    <3> QED
      BY <2>1, <3>1 DEF LinkInv, LinksResolve
  <2> QED
    BY <2>2, <2>3
<1> QED
  BY <1>3, <1>4, <1>5, <1>6, <1>7 DEF LinkInv

LEMMA ExportLinks ==
    ASSUME LinkInv, NEW c \in Cogs, Export(c)
    PROVE  LinkInv'
<1> USE ExportShape DEF LinkInv
<1>1. Types'
  BY DEF Types
<1>2. Stages' /\ WrittenSoFar' /\ SentSoFar' /\ LinksResolve'
  BY DEF Stages, WrittenSoFar, SentSoFar, LinksResolve, Building, Publishing
<1>3. TreeClosed'
  BY Names DEF TreeClosed
<1> QED
  BY <1>1, <1>2, <1>3

\* A publish returns, or any command dies.
LEMMA EndingLinks ==
    ASSUME LinkInv, PublishReturns \/ Dies
    PROVE  LinkInv'
<1>1. command' = Idle /\ UNCHANGED <<source, tree, remote>>
  BY DEF PublishReturns, Dies
<1>2. complete' = complete \/ (Publishing /\ complete' = "published")
  BY DEF PublishReturns, Dies, Publishing
<1>3. Types' /\ Stages' /\ WrittenSoFar' /\ SentSoFar'
  BY <1>1, <1>2, IdleType
     DEF LinkInv, Types, Stages, WrittenSoFar, SentSoFar, Building, Publishing, Idle
<1>4. TreeClosed' /\ LinksResolve'
  BY <1>1, <1>2 DEF LinkInv, TreeClosed, LinksResolve, Stages
<1> QED
  BY <1>3, <1>4 DEF LinkInv

LEMMA LinksStep == LinkInv /\ [Next]_vars => LinkInv'
<1> SUFFICES ASSUME LinkInv, [Next]_vars PROVE LinkInv'
  OBVIOUS
<1>1. ASSUME NEW c \in Cogs, Export(c) PROVE LinkInv'
  BY <1>1, ExportLinks
<1>2. ASSUME NEW wanted \in SUBSET Tile, BuildCatalog(wanted) PROVE LinkInv'
  BY <1>2, BuildingLinks
<1>3. CASE WriteBegins \/ WriteEnds
  BY <1>3, WritingLinks
<1>4. CASE BuildReturns
  BY <1>4, ReturningLinks
<1>5. CASE PublishCatalog
  BY <1>5, PublishingLinks
<1>6. CASE Upload
  BY <1>6, UploadingLinks
<1>7. CASE PublishReturns \/ Dies
  BY <1>7, EndingLinks
<1>8. CASE UNCHANGED vars
  BY <1>8 DEF vars, LinkInv, Types, Stages, WrittenSoFar, TreeClosed, SentSoFar, LinksResolve,
              Building, Publishing
<1> QED
  BY <1>1, <1>2, <1>3, <1>4, <1>5, <1>6, <1>7, <1>8 DEF Next

\* At every moment of every publish, and wherever one died, a reader of the
\* published collection finds all it links: publish_catalog sends a tile's
\* files before the collection, build_catalog leaves no collection with a tile
\* short of a file, and nothing deletes an object.
THEOREM LinksAlwaysResolve == Spec => []LinksResolve
<1>1. LinkInv => LinksResolve
  BY DEF LinkInv
<1> QED
  BY <1>1, InitLinks, LinksStep, PTL DEF Spec

-----------------------------------------------------------------------------
(* What the published items say.                                           *)

\* The files of a tree whose build returned say the same.
TreeRight ==
    complete # "torn" =>
      \A t \in DOMAIN tree[Collection] :
         /\ tree[ItemOf(t)] = tree[Collection][t]
         /\ \A a \in Assets : tree[<<t, a>>] = tree[Collection][t][a]

\* What a publish has no more to send is in the bucket as it is in the tree.
SentRight ==
    Publishing =>
      \A f \in DOMAIN tree \ command.todo : f # Mirror => remote[f] = tree[f]

ItemsInv == LinkInv /\ TreeRight /\ SentRight /\ ItemsDescribeTheCogs

LEMMA InitItems == Init => ItemsInv
BY InitLinks DEF Init, ItemsInv, TreeRight, SentRight, ItemsDescribeTheCogs, Publishing, Idle

\* A step of a build: the tree is torn, and nothing is being sent.
LEMMA TornItems ==
    ASSUME LinkInv', Building'
    PROVE  ItemsInv'
BY DEF LinkInv, Stages, ItemsInv, TreeRight, SentRight, ItemsDescribeTheCogs, Building, Publishing

LEMMA ReturningItems ==
    ASSUME ItemsInv, BuildReturns
    PROVE  ItemsInv'
<1>1. LinkInv'
  BY ReturningLinks DEF ItemsInv
<1>2. TreeRight'
  BY BuiltFrom DEF ItemsInv, LinkInv, BuildReturns, TreeRight
<1>3. SentRight' /\ ItemsDescribeTheCogs'
  BY DEF BuildReturns, SentRight, ItemsDescribeTheCogs, Publishing, Idle
<1> QED
  BY <1>1, <1>2, <1>3 DEF ItemsInv

LEMMA PublishingItems ==
    ASSUME ItemsInv, PublishCatalog
    PROVE  ItemsInv'
<1>1. LinkInv'
  BY PublishingLinks DEF ItemsInv
<1>2. TreeRight' /\ ItemsDescribeTheCogs'
  BY PublishShape DEF ItemsInv, LinkInv, TreeRight, ItemsDescribeTheCogs
<1>3. SentRight'
  BY PublishShape, LeftAlone DEF ItemsInv, LinkInv, SentRight
<1> QED
  BY <1>1, <1>2, <1>3 DEF ItemsInv

LEMMA UploadingItems ==
    ASSUME ItemsInv, Upload
    PROVE  ItemsInv'
<1>1. LinkInv' /\ Publishing /\ complete = "built"
  BY UploadingLinks, UploadShape DEF ItemsInv, LinkInv, Stages
<1>2. PICK f \in File : Sends(f)
  BY UploadShape DEF ItemsInv, LinkInv
<1>3. TreeRight' /\ ItemsDescribeTheCogs'
  BY <1>1, <1>2 DEF ItemsInv, TreeRight, ItemsDescribeTheCogs, Sends
<1>4. SentRight'
  <2> SUFFICES ASSUME NEW g \in DOMAIN tree' \ command'.todo, g # Mirror
               PROVE  remote'[g] = tree'[g]
    BY DEF SentRight
  <2>1. CASE g = f
    BY <1>2, <2>1 DEF Sends
  <2>2. CASE g # f
    <3>1. g \in DOMAIN tree \ command.todo
      BY <1>2, <2>2 DEF Sends
    <3>2. g \in DOMAIN remote /\ remote[g] = tree[g]
      BY <1>1, <3>1 DEF ItemsInv, LinkInv, SentSoFar, SentRight
    <3> QED
      BY <1>2, <2>2, <3>2 DEF Sends
  <2> QED
    BY <2>1, <2>2
<1> QED
  BY <1>1, <1>3, <1>4 DEF ItemsInv

LEMMA ExportItems ==
    ASSUME ~HardLinks, ItemsInv, NEW c \in Cogs, Export(c)
    PROVE  ItemsInv'
<1>1. LinkInv'
  BY ExportLinks DEF ItemsInv
<1>2. UNCHANGED <<tree, remote, command, complete>>
  BY DEF Export
<1> QED
  BY <1>1, <1>2 DEF ItemsInv, TreeRight, SentRight, ItemsDescribeTheCogs, Publishing

\* A publish that returns has nothing more to send.
LEMMA PublishedItems ==
    ASSUME ItemsInv, PublishReturns
    PROVE  ItemsInv'
<1>1. LinkInv'
  BY EndingLinks DEF ItemsInv
<1>2. Publishing /\ command.todo = {} /\ complete = "built" /\ UNCHANGED <<source, tree, remote>>
  BY DEF PublishReturns, Publishing, ItemsInv, LinkInv, Stages
<1>3. \A f \in DOMAIN tree : f # Mirror => remote[f] = tree[f]
  BY <1>2 DEF ItemsInv, SentRight
<1>4. TreeRight' /\ SentRight'
  BY <1>2 DEF PublishReturns, ItemsInv, TreeRight, SentRight, Publishing, Idle
<1>5. ItemsDescribeTheCogs'
  <2>1. remote[Collection] = tree[Collection]
    BY <1>2, <1>3, Names DEF ItemsInv, LinkInv, TreeClosed
  <2> SUFFICES ASSUME NEW t \in DOMAIN tree[Collection], NEW a \in Assets
               PROVE  remote[ItemOf(t)][a] = remote[<<t, a>>]
    BY <1>2, <2>1 DEF ItemsDescribeTheCogs
  <2>2. t \in Tile /\ TileFiles(t) \subseteq DOMAIN tree
    BY <1>2 DEF ItemsInv, LinkInv, TreeClosed
  <2>3. remote[ItemOf(t)] = tree[ItemOf(t)]
    BY <1>3, <2>2, Names
  <2>4. <<t, a>> \in TileFiles(t) /\ <<t, a>> # Mirror
    BY <2>2, Names
  <2>5. remote[<<t, a>>] = tree[<<t, a>>]
    BY <1>3, <2>2, <2>4
  <2>6. tree[ItemOf(t)][a] = tree[<<t, a>>]
    BY <1>2 DEF ItemsInv, TreeRight
  <2> QED
    BY <2>3, <2>5, <2>6
<1> QED
  BY <1>1, <1>4, <1>5 DEF ItemsInv

LEMMA DyingItems ==
    ASSUME ItemsInv, Dies
    PROVE  ItemsInv'
<1>1. LinkInv'
  BY EndingLinks DEF ItemsInv
<1> QED
  BY <1>1 DEF Dies, ItemsInv, TreeRight, SentRight, ItemsDescribeTheCogs, Publishing, Idle

LEMMA ItemsStep == ~HardLinks => (ItemsInv /\ [Next]_vars => ItemsInv')
<1> SUFFICES ASSUME ~HardLinks, ItemsInv, [Next]_vars PROVE ItemsInv'
  OBVIOUS
<1>1. ASSUME NEW c \in Cogs, Export(c) PROVE ItemsInv'
  BY <1>1, ExportItems
<1>2. ASSUME NEW wanted \in SUBSET Tile, BuildCatalog(wanted) PROVE ItemsInv'
  <2>1. LinkInv' /\ Building' /\ complete' = "torn"
    BY <1>2, BuildingLinks, BuildShape DEF ItemsInv, LinkInv, Building
  <2> QED
    BY <2>1, TornItems
<1>3. CASE WriteBegins \/ WriteEnds
  <2>1. LinkInv' /\ Building'
    BY <1>3, WritingLinks, WriteShape DEF ItemsInv, LinkInv, Building, Writes
  <2> QED
    BY <2>1, TornItems
<1>4. CASE BuildReturns
  BY <1>4, ReturningItems
<1>5. CASE PublishCatalog
  BY <1>5, PublishingItems
<1>6. CASE Upload
  BY <1>6, UploadingItems
<1>7. CASE PublishReturns
  BY <1>7, PublishedItems
<1>8. CASE Dies
  BY <1>8, DyingItems
<1>9. CASE UNCHANGED vars
  <2>1. LinkInv'
    BY <1>9, LinksStep DEF ItemsInv
  <2> QED
    BY <1>9, <2>1 DEF vars, ItemsInv, TreeRight, SentRight, ItemsDescribeTheCogs, Publishing
<1> QED
  BY <1>1, <1>2, <1>3, <1>4, <1>5, <1>6, <1>7, <1>8, <1>9 DEF Next

\* Once a publish has returned, every published item describes the COGs beside
\* it, whatever died before: the publish sends all metadata and every COG whose
\* length differs, of a tree written from one scan.  A tree hard linked to its
\* source is out of it: a later export rewrites its COGs under its items.
THEOREM PublishedItemsAreTrue == ~HardLinks => (Spec => []ItemsDescribeTheCogs)
<1> SUFFICES ASSUME ~HardLinks PROVE Spec => []ItemsDescribeTheCogs
  OBVIOUS
<1>1. ItemsInv => ItemsDescribeTheCogs
  BY DEF ItemsInv
<1>2. ItemsInv /\ [Next]_vars => ItemsInv'
  BY ItemsStep
<1> QED
  BY <1>1, <1>2, InitItems, PTL DEF Spec

-----------------------------------------------------------------------------
(* The artifact.                                                           *)

\* What an archive holds of the collection is what the collection holds.
Taken(held, upstream) ==
    /\ DOMAIN held \subseteq DOMAIN upstream
    /\ \A name \in DOMAIN held : held[name] = upstream[name]

\* The cell of the globe that p is in granule name.
GapCell(name, p) ==
    <<p[1] + (Top - name[1]) * GranuleCells, p[2] + (name[2] + Left) * GranuleCells>>

\* The granule's file counts nothing at p.
IsGap(file, p) == p \in Edge \X Edge /\ ReadGranuleNumobs(file)[p] = 0

\* An artifact was built from part of the collection, and knows what it lacks.
Sound(built, upstream) ==
    /\ built # Failed /\ built # None
    /\ built.version = FormatVersion
    /\ built.content = CanonicalContent(built.gaps, built.consumed, built.absent)
    /\ Taken(built.consumed, upstream)
    /\ built.absent \cap DOMAIN upstream = {}
    /\ built.missing = (ExpectedGranules \ DOMAIN built.consumed) \ built.absent
    /\ \A c : c \in built.gaps <=>
                 \E name \in DOMAIN built.consumed :
                    \E p : IsGap(built.consumed[name], p) /\ c = GapCell(name, p)

\* Whatever is on disk was taken from the collection, and what was committed
\* lacks nothing a tile needs.
ArchiveInv ==
    /\ collection \in Collections
    /\ inventory # None => inventory.names = DOMAIN collection
    /\ Taken(archive, collection)
    /\ artifact # None => Sound(artifact, collection)
    /\ wheel # Unpublished => /\ Sound(wheel.packaged, collection)
                              /\ wheel.packaged.missing = {}
                              /\ wheel.pinned = wheel.packaged.content

\* A build of what was taken from the collection is sound.
LEMMA BuildIsSound ==
    ASSUME NEW held, NEW absent, NEW upstream, Taken(held, upstream),
           absent \cap DOMAIN upstream = {},
           BuildArtifact(held, ExpectedGranules, absent) # Failed
    PROVE  Sound(BuildArtifact(held, ExpectedGranules, absent), upstream)
<1> DEFINE built == BuildArtifact(held, ExpectedGranules, absent)
           gapsOf(name) ==
             LET row == (Top - name[1]) * GranuleCells
                 col == (name[2] + Left) * GranuleCells
                 numobs == ReadGranuleNumobs(held[name])
             IN  {<<p[1] + row, p[2] + col>> : p \in {p \in Edge \X Edge : numobs[p] = 0}}
           gaps == UNION {gapsOf(name) : name \in DOMAIN held}
           missing == (ExpectedGranules \ DOMAIN held) \ absent
           content == CanonicalContent(gaps, held, absent)
<1>1. \A c : c \in gaps <=> \E name \in DOMAIN held :
                               \E p : IsGap(held[name], p) /\ c = GapCell(name, p)
  <2>1. \A name : \A c : c \in gapsOf(name) <=> \E p : IsGap(held[name], p) /\ c = GapCell(name, p)
    BY DEF IsGap, GapCell
  <2> HIDE DEF gapsOf
  <2> QED
    BY <2>1
<1>2. built = [version |-> FormatVersion, gaps |-> gaps, consumed |-> held, absent |-> absent,
               missing |-> missing, content |-> content]
  BY DEF BuildArtifact
<1> HIDE DEF gaps, missing, content, built
<1>3. built # None
  <2>1. DOMAIN built = {"version", "gaps", "consumed", "absent", "missing", "content"}
    BY <1>2
  <2> QED
    BY <2>1 DEF None
<1>4. /\ built.version = FormatVersion /\ built.gaps = gaps /\ built.consumed = held
      /\ built.absent = absent /\ built.missing = missing /\ built.content = content
  BY <1>2
<1>5. built # Failed
  BY DEF built
<1> SUFFICES Sound(built, upstream)
  BY DEF built
<1> QED
  BY <1>1, <1>3, <1>4, <1>5 DEF Sound, missing, content

\* What a report of an archive calls absent, the collection lacks.
LEMMA AbsencesAreReal ==
    ASSUME ArchiveInv
    PROVE  LET report == BuildReport(Granules, inventory)
           IN  /\ report.expected = ExpectedGranules
               /\ report.absent \cap DOMAIN collection = {}
               /\ inventory # None => report.fetchable \subseteq DOMAIN collection
<1> DEFINE report == BuildReport(Granules, inventory)
           manifests == SourceManifests(Granules)
           missing == ExpectedGranules \ manifests.held
           absent == EstablishedAbsences(Granules, missing, manifests.absent, inventory)
<1>1. report = [expected |-> ExpectedGranules, missing |-> missing, absent |-> absent,
                fetchable |-> missing \ absent]
  BY DEF BuildReport
<1> HIDE DEF missing, manifests
<1>2. absent = IF inventory = None THEN {} ELSE missing \ inventory.names
  BY DEF EstablishedAbsences, Granules
<1>3. inventory # None => absent = missing \ DOMAIN collection
  BY <1>2 DEF ArchiveInv
<1> HIDE DEF absent
<1>4. absent \cap DOMAIN collection = {}
  BY <1>2, <1>3
<1>5. inventory # None => missing \ absent \subseteq DOMAIN collection
  BY <1>3
<1>6. report.expected = ExpectedGranules /\ report.absent = absent /\ report.fetchable = missing \ absent
  BY <1>1
<1> QED
  BY <1>4, <1>5, <1>6

\* No step of the scripts, run in any order and cut short anywhere, loses it.
LEMMA ArchiveStays == ArchiveInv /\ [NextArchive]_archiveVars => ArchiveInv'
<1> SUFFICES ASSUME ArchiveInv, [NextArchive]_archiveVars PROVE ArchiveInv'
  OBVIOUS
<1>1. CASE FetchInventory
  <2>1. PICK names \in SUBSET DOMAIN collection :
          /\ ValidateInventory(names, Cardinality(DOMAIN collection))
          /\ inventory' = [names |-> names, hits |-> Cardinality(DOMAIN collection)]
    BY <1>1 DEF FetchInventory
  <2>2. IsFiniteSet(DOMAIN collection)
    BY ArchiveAssumption DEF ArchiveInv
  <2>3. names = DOMAIN collection
    BY <2>1, <2>2, FS_Subset DEF ValidateInventory
  <2>4. inventory'.names = names
    BY <2>1
  <2>5. UNCHANGED <<collection, archive, artifact, wheel>>
    BY <1>1 DEF FetchInventory
  <2> QED
    BY <2>3, <2>4, <2>5 DEF ArchiveInv
<1>2. CASE Download
  <2>1. PICK got \in SUBSET BuildReport(Granules, inventory).fetchable :
          archive' = [name \in got \cup DOMAIN archive |->
                        IF name \in got THEN collection[name] ELSE archive[name]]
    BY <1>2 DEF Download
  <2>2. got \subseteq DOMAIN collection
    BY <1>2, <2>1, AbsencesAreReal DEF Download
  <2>3. Taken(archive', collection)
    BY <2>1, <2>2 DEF ArchiveInv, Taken
  <2>4. UNCHANGED <<collection, inventory, artifact, wheel>>
    BY <1>2 DEF Download
  <2> QED
    BY <2>3, <2>4 DEF ArchiveInv
<1>3. CASE Build
  <2> DEFINE report == BuildReport(Granules, inventory)
             built == BuildArtifact(archive, report.expected, report.absent)
  <2>1. built # Failed /\ artifact' = built /\ UNCHANGED <<collection, inventory, archive, wheel>>
    BY <1>3 DEF Build
  <2>2. report.expected = ExpectedGranules /\ report.absent \cap DOMAIN collection = {}
    BY AbsencesAreReal
  <2>3. Taken(archive, collection)
    BY DEF ArchiveInv
  <2> HIDE DEF report
  <2>4. Sound(built, collection)
    BY <2>1, <2>2, <2>3, BuildIsSound
  <2> HIDE DEF built
  <2> QED
    BY <2>1, <2>4 DEF ArchiveInv
<1>4. CASE Package
  <2>1. /\ artifact # None /\ artifact.missing = {}
        /\ wheel' = [packaged |-> artifact, pinned |-> artifact.content]
        /\ UNCHANGED <<collection, inventory, archive, artifact>>
    BY <1>4 DEF Package
  <2>2. wheel'.packaged = artifact /\ wheel'.pinned = artifact.content
    BY <2>1
  <2> QED
    BY <2>1, <2>2 DEF ArchiveInv
<1>5. CASE UNCHANGED archiveVars
  BY <1>5 DEF archiveVars, ArchiveInv
<1> QED
  BY <1>1, <1>2, <1>3, <1>4, <1>5 DEF NextArchive

-----------------------------------------------------------------------------
(* The globe.                                                              *)

\* A granule is named for its north-west corner.
GranuleNames == ((1 - Top) .. Top) \X (-Left .. (Left - 1))

\* The globe is so many granules high and wide.
LEMMA GlobeIs ==
    /\ GranuleCells \in Nat \ {0} /\ Top \in Nat /\ Left \in Nat \ {0}
    /\ GlobalRows \in Nat \ {0} /\ GlobalCols \in Nat \ {0}
    /\ CellRows \in Nat \ {0} /\ BufferCells \in Nat /\ TileRows \in Nat \ {0}
    /\ GlobalRows = (2 * Top) * GranuleCells /\ GlobalCols = (2 * Left) * GranuleCells
<1> DEFINE g == GranuleCells
           two == 2 * g
<1>1. /\ g \in Nat \ {0} /\ GlobalRows \in Nat \ {0} /\ GlobalCols \in Nat \ {0}
      /\ CellRows \in Nat \ {0} /\ BufferCells \in Nat /\ TileRows \in Nat \ {0}
      /\ GlobalRows % two = 0 /\ GlobalCols % two = 0
      /\ Top = GlobalRows \div two /\ Left = GlobalCols \div two
  BY GlobeIsWhole, ArchiveAssumption DEF Top, Left
<1> HIDE DEF g
<1>2. two \in Nat \ {0}
  BY <1>1
<1> HIDE DEF two
<1>3. /\ Top \in Nat /\ two * Top + (GlobalRows % two) = GlobalRows
      /\ Left \in Nat /\ two * Left + (GlobalCols % two) = GlobalCols
  BY <1>1, <1>2
<1>4. two * Top = (2 * Top) * g /\ two * Left = (2 * Left) * g
  BY <1>1, <1>3 DEF two
<1>5. GlobalRows = (2 * Top) * g /\ GlobalCols = (2 * Left) * g
  BY <1>1, <1>2, <1>3, <1>4
<1>6. Left # 0
  <2> SUFFICES ASSUME Left = 0 PROVE FALSE
    OBVIOUS
  <2>1. (2 * 0) * g = 0
    BY <1>1
  <2> QED
    BY <1>1, <1>5, <2>1
<1> QED
  BY <1>1, <1>3, <1>5, <1>6 DEF g

\* Wherever a gap lies from the antimeridian, its granule is the one its cell
\* is in.
LEMMA GranuleOfGap ==
    ASSUME NEW name \in GranuleNames, NEW p \in Edge \X Edge, NEW turn \in -1 .. 1
    PROVE  LET cell == GapCell(name, p)
               col == cell[2] - turn * GlobalCols
           IN  /\ cell[1] \in 0 .. (GlobalRows - 1) /\ cell[2] \in Int /\ col \in Int
               /\ GranuleName(cell[1] \div GranuleCells, col \div GranuleCells) = name
<1> DEFINE g == GranuleCells
           i == Top - name[1]
           j == name[2] + Left
           k == j - turn * (2 * Left)
           row == p[1] + i * g
           col == (p[2] + j * g) - turn * GlobalCols
<1>1. /\ g \in Nat \ {0} /\ Top \in Nat /\ Left \in Nat \ {0}
      /\ GlobalRows = (2 * Top) * g /\ GlobalCols = (2 * Left) * g
      /\ GlobalRows \in Nat /\ GlobalCols \in Nat
  BY GlobeIs
<1>2. /\ name = <<name[1], name[2]>>
      /\ name[1] \in (1 - Top) .. Top /\ name[2] \in -Left .. (Left - 1)
      /\ p[1] \in 0 .. (g - 1) /\ p[2] \in 0 .. (g - 1)
  BY DEF GranuleNames, Edge
<1>3. i \in 0 .. (2 * Top - 1) /\ j \in 0 .. (2 * Left - 1) /\ k \in Int /\ turn \in Int
  BY <1>1, <1>2
<1>4. GapCell(name, p)[1] = row /\ GapCell(name, p)[2] - turn * GlobalCols = col
      /\ GapCell(name, p)[2] = p[2] + j * g
  <2> DEFINE across == p[2] + j * g
  <2>1. GapCell(name, p) = <<row, across>>
    BY DEF GapCell
  <2>2. col = across - turn * GlobalCols
    OBVIOUS
  <2> HIDE DEF row, across, col
  <2>3. GapCell(name, p)[1] = row /\ GapCell(name, p)[2] = across
    BY <2>1
  <2> QED
    BY <2>2, <2>3 DEF across
<1> HIDE DEF g, i, j
<1>5. i * g \in Int /\ j * g \in Int /\ turn * GlobalCols \in Int
  BY <1>1, <1>3
<1>6. row \in Int /\ i * g <= row /\ row < i * g + g
  BY <1>1, <1>2, <1>5
<1>7. row \in 0 .. (GlobalRows - 1)
  <2>1. (i + 1) * g <= (2 * Top) * g /\ (i + 1) * g = i * g + g
    BY <1>1, <1>3, TimesMonotone
  <2>2. 0 <= i * g
    BY <1>1, <1>3
  <2>3. 0 <= row /\ row < (2 * Top) * g
    BY <1>1, <1>2, <1>5, <1>6, <2>1, <2>2
  <2> QED
    BY <1>1, <1>6, <2>3
<1>8. row \div g = i
  <2> HIDE DEF row
  <2> QED
    BY <1>1, <1>3, <1>6, QuotientIs
<1>9. col \div g = k
  <2>1. k * g = j * g - turn * GlobalCols
    <3>1. k * g = j * g - (turn * (2 * Left)) * g
      BY <1>1, <1>3
    <3>2. (turn * (2 * Left)) * g = turn * ((2 * Left) * g)
      BY <1>1, <1>3
    <3> QED
      BY <1>1, <3>1, <3>2
  <2>2. col \in Int /\ k * g <= col /\ col < k * g + g
    BY <1>1, <1>2, <1>5, <2>1
  <2> HIDE DEF col, k
  <2> QED
    BY <1>1, <1>3, <2>2, QuotientIs
<1>10. k % (2 * Left) = j
  <2>1. turn = -1 \/ turn = 0 \/ turn = 1
    OBVIOUS
  <2>2. k = j + 2 * Left \/ k = j \/ k = j - 2 * Left
    BY <1>1, <1>3, <2>1
  <2> DEFINE w == 2 * Left
  <2>3. w \in Nat \ {0} /\ j \in 0 .. (w - 1) /\ (k = j + w \/ k = j \/ k = j - w)
    BY <1>1, <1>3, <2>2
  <2> HIDE DEF w, k
  <2>4. k \in Int
    BY <1>3
  <2>5. \E q \in -1 .. 1 : k = w * q + j
    <3>1. w * (-1) = -w /\ w * 0 = 0 /\ w * 1 = w
      BY <2>3
    <3> QED
      BY <2>3, <3>1
  <2>6. k % w = j
    BY <2>3, <2>4, <2>5
  <2> QED
    BY <2>6 DEF w
<1>11. GranuleName(row \div g, col \div g) = name
  <2>1. GranuleName(i, k) = <<Top - i, j - Left>>
    BY <1>10 DEF GranuleName
  <2>2. Top - i = name[1] /\ j - Left = name[2]
    BY <1>1, <1>2 DEF i, j
  <2> QED
    BY <1>2, <1>8, <1>9, <2>1, <2>2
<1>12. GapCell(name, p)[2] \in Int /\ col \in Int
  BY <1>1, <1>2, <1>4, <1>5
<1> QED
  BY <1>4, <1>7, <1>11, <1>12 DEF g

-----------------------------------------------------------------------------
(* The window of a tile.                                                   *)

\* A tile is one read, of all its rows.
TheRows == 0 .. (TileRows - 1)
WindowOf(t) == CellWindow(t, TheRows, BufferCells)

\* Whatever can reach a row of a tile lies in the window of the tile.
LEMMA WindowReaches ==
    ASSUME NEW t \in ProductionTiles, NEW row \in TheRows
    PROVE  LET here == CellRow(t, row)
           IN  /\ here \in Int /\ t[2] \in Int
               /\ \A q \in (0 .. (GlobalRows - 1)) \X Int :
                     here - q[1] \in -BufferCells .. BufferCells
                     /\ t[2] - q[2] \in -BufferCells .. BufferCells
                        => q \in Cells(WindowOf(t).padded)
               /\ <<here, t[2]>> \in Cells(WindowOf(t).padded)
<1> DEFINE b == BufferCells
           top == t[1] + 0 \div CellRows
           last == t[1] + (TileRows - 1) \div CellRows
           here == t[1] + row \div CellRows
           high == Higher(top - b, 0)
           low == Lower(last + 1 + b, GlobalRows)
           west == t[2] - b
           east == (t[2] + 1) + b
<1>1. /\ b \in Nat /\ CellRows \in Nat \ {0} /\ TileRows \in Nat \ {0} /\ GlobalRows \in Nat
      /\ t[1] \in 0 .. (GlobalRows - 1) /\ t[2] \in Int /\ last < GlobalRows /\ row \in 0 .. (TileRows - 1)
  BY GlobeIs, ArchiveAssumption DEF CellRow, TheRows
<1>2. Min(TheRows) = 0 /\ Max(TheRows) = TileRows - 1
  <2>1. TheRows \in SUBSET (0 .. (TileRows - 1)) /\ TheRows # {} /\ 0 \in TheRows /\ TileRows - 1 \in TheRows
    <3>1. TileRows - 1 \in Nat
      BY <1>1
    <3>2. 0 \in TheRows /\ TileRows - 1 \in TheRows
      BY <3>1 DEF TheRows
    <3>3. TheRows \in SUBSET (0 .. (TileRows - 1))
      BY DEF TheRows
    <3> QED
      BY <3>2, <3>3
  <2>2. \A m : m \in TheRows /\ (\A y \in TheRows : m <= y) => m = 0
    BY <2>1
  <2>3. \A y \in TheRows : 0 <= y
    BY DEF TheRows
  <2>4. Min(TheRows) = 0
    BY <2>1, <2>2, <2>3 DEF Min
  <2>5. Max(TheRows) \in TheRows /\ TileRows - 1 <= Max(TheRows)
    <3>1. TileRows - 1 \in Nat
      BY <1>1
    <3> QED
      BY <2>1, <3>1, MaxOf
  <2>6. Max(TheRows) = TileRows - 1
    BY <1>1, <2>5 DEF TheRows
  <2> QED
    BY <2>4, <2>6
<1>3. WindowOf(t).padded = <<high, low, west, east>>
  BY <1>2 DEF WindowOf, CellWindow, CellRow
<1>4. here \in Int /\ top \in Int /\ last \in Int /\ top <= here /\ here <= last /\ top = t[1]
  <2>1. 0 \div CellRows = 0
    BY <1>1
  <2> DEFINE m == TileRows - 1
             k == row \div CellRows
             l == m \div CellRows
  <2>0. m \in Nat /\ row \in Nat /\ row <= m
    BY <1>1
  <2> HIDE DEF m
  <2>2. /\ k \in Nat /\ l \in Nat /\ m \in Nat /\ row \in Nat /\ row <= m
        /\ CellRows * k + (row % CellRows) = row /\ (row % CellRows) \in 0 .. (CellRows - 1)
        /\ CellRows * l + (m % CellRows) = m /\ (m % CellRows) \in 0 .. (CellRows - 1)
    BY <1>1, <2>0
  <2> HIDE DEF k, l
  <2>3. k <= l
    <3> SUFFICES ASSUME l < k PROVE FALSE
      BY <2>2
    <3>1. (l + 1) * CellRows <= k * CellRows /\ (l + 1) * CellRows = l * CellRows + CellRows
      BY <1>1, <2>2, TimesMonotone
    <3>2. l * CellRows = CellRows * l /\ k * CellRows = CellRows * k
      BY <1>1, <2>2
    <3>3. CellRows * l \in Int /\ CellRows * k \in Int
      BY <1>1, <2>2
    <3> QED
      BY <1>1, <2>2, <3>1, <3>2, <3>3
  <2>4. here = t[1] + k /\ last = t[1] + l /\ top = t[1] + 0
    BY <2>1 DEF k, l, m
  <2> HIDE DEF here, last, top
  <2> QED
    BY <1>1, <2>2, <2>3, <2>4
<1>5. CellRow(t, row) = here
  BY DEF CellRow
<1> HIDE DEF here, top, last
<1>6. /\ high = IF top - b <= 0 THEN 0 ELSE top - b
      /\ low = IF last + 1 + b <= GlobalRows THEN last + 1 + b ELSE GlobalRows
  <2> DEFINE x == top - b
             y == last + 1 + b
  <2>1. x \in Int /\ y \in Int /\ GlobalRows \in Int /\ 0 \in Int
    BY <1>1, <1>4
  <2> HIDE DEF x, y
  <2>2. /\ Higher(x, 0) = IF x <= 0 THEN 0 ELSE x
        /\ Lower(y, GlobalRows) = IF y <= GlobalRows THEN y ELSE GlobalRows
    BY <2>1, LeastAndMost DEF Higher, Lower
  <2> QED
    BY <2>2 DEF x, y
<1>7. Cells(WindowOf(t).padded) = (high .. (low - 1)) \X (west .. (east - 1))
  BY <1>3 DEF Cells, Rows, Columns
<1> HIDE DEF high, low
<1>8. ASSUME NEW q \in (0 .. (GlobalRows - 1)) \X Int,
             here - q[1] \in -b .. b, t[2] - q[2] \in -b .. b
      PROVE  q \in (high .. (low - 1)) \X (west .. (east - 1))
  <2>1. q = <<q[1], q[2]>> /\ q[1] \in 0 .. (GlobalRows - 1) /\ q[2] \in Int
    OBVIOUS
  <2>2. q[1] \in high .. (low - 1)
    BY <1>1, <1>4, <1>6, <1>8, <2>1
  <2>3. q[2] \in west .. (east - 1)
    BY <1>1, <1>8, <2>1
  <2> QED
    BY <2>1, <2>2, <2>3
<1>9. <<here, t[2]>> \in (high .. (low - 1)) \X (west .. (east - 1))
  <2>1. here \in 0 .. (GlobalRows - 1)
    BY <1>1, <1>4
  <2>2. here - here \in -b .. b /\ t[2] - t[2] \in -b .. b
    BY <1>1, <1>4
  <2>3. here \in high .. (low - 1) /\ t[2] \in west .. (east - 1)
    BY <1>1, <1>4, <1>6, <2>1
  <2> QED
    BY <2>3
<1> HIDE DEF west, east
<1> QED
  BY <1>1, <1>4, <1>5, <1>7, <1>8, <1>9

-----------------------------------------------------------------------------
(* The mask.                                                               *)

\* An artifact that lacks nothing the tiles need, of a collection like AG100.
Accepted(built) ==
    /\ collection \in Collections
    /\ Sound(built, collection) /\ built.missing = {}

\* A cell of a window is in one of the granules the window needs.
LEMMA WindowNeeds ==
    ASSUME NEW window, NEW core, NEW cell \in Cells(window)
    PROVE  \E g \in GranulesForWindow(window, core) :
              g.name = GranuleName(cell[1] \div GranuleCells, cell[2] \div GranuleCells)
<1> DEFINE g == GranuleAt(cell[1] \div GranuleCells, cell[2] \div GranuleCells, core)
<1>1. g \in GranulesForWindow(window, core)
  BY DEF GranulesForWindow
<1>2. g.name = GranuleName(cell[1] \div GranuleCells, cell[2] \div GranuleCells)
  BY DEF GranuleAt
<1> QED
  BY <1>1, <1>2

\* What a tile's window needs is expected, and an artifact that lacks nothing
\* has read it or knows that the collection has not.
LEMMA NeededIsRead ==
    ASSUME NEW t \in ProductionTiles, NEW built, Accepted(built),
           NEW g \in GranulesForWindow(WindowOf(t).padded, WindowOf(t).core)
    PROVE  /\ g.name \in DOMAIN built.consumed \cup built.absent
           /\ g.name \in DOMAIN collection => g.name \in DOMAIN built.consumed
<1>1. g \in GranulesForTile(t)
  BY DEF GranulesForTile, WindowOf, TheRows
<1>2. g.name \in ExpectedGranules
  BY <1>1 DEF ExpectedGranules
<1>3. /\ (ExpectedGranules \ DOMAIN built.consumed) \ built.absent = {}
      /\ built.absent \cap DOMAIN collection = {}
  BY DEF Accepted, Sound
<1> QED
  BY <1>2, <1>3

\* No production tile is refused.
LEMMA TilesAreServed ==
    ASSUME NEW t \in ProductionTiles, NEW built, Accepted(built)
    PROVE  ArtifactServes(built, built.content, WindowOf(t).padded, WindowOf(t).core)
<1>1. LoadArtifact(built, built.content) = built
  BY DEF LoadArtifact, Accepted, Sound
<1>2. built # Failed
  BY DEF Accepted, Sound
<1> QED
  BY <1>1, <1>2, NeededIsRead DEF ArtifactServes

\* The gaps of a tile's window and whatever the buffer adds to them.
Dilated(t, built) ==
    DilateCells(CellsFromArtifact(built, WindowOf(t).padded), WindowOf(t).padded, BufferCells)

\* What the dilation reaches is within the buffer of a gap, and the other way.
LEMMA DilationIsTrue ==
    ASSUME NEW t \in ProductionTiles, NEW row \in TheRows, NEW built, Accepted(built)
    PROVE  <<CellRow(t, row), t[2]>> \in Dilated(t, built) <=> InGap(t, row)
<1> DEFINE here == CellRow(t, row)
           east == t[2]
           b == BufferCells
           padded == WindowOf(t).padded
           width == GlobalCols
<1>1. /\ here \in Int /\ east \in Int
      /\ \A q \in (0 .. (GlobalRows - 1)) \X Int :
            here - q[1] \in -b .. b /\ east - q[2] \in -b .. b => q \in Cells(padded)
      /\ <<here, east>> \in Cells(padded)
  BY WindowReaches
<1>2. b \in Nat /\ width \in Nat
  BY GlobeIs
<1>3. /\ \A c : c \in built.gaps <=>
                   \E name \in DOMAIN built.consumed :
                      \E p : IsGap(built.consumed[name], p) /\ c = GapCell(name, p)
      /\ DOMAIN built.consumed \subseteq DOMAIN collection
      /\ \A name \in DOMAIN built.consumed : built.consumed[name] = collection[name]
  BY DEF Accepted, Sound, Taken
<1>4. DOMAIN collection \subseteq GranuleNames
  BY ArchiveAssumption DEF Accepted, GranuleNames
<1>5. InGap(t, row) <=>
        \E name \in DOMAIN collection : \E p \in Edge \X Edge :
           /\ ReadGranuleNumobs(collection[name])[p] = 0
           /\ here - GapCell(name, p)[1] \in -b .. b
           /\ \E turn \in -1 .. 1 : (east - GapCell(name, p)[2]) + turn * width \in -b .. b
  BY DEF InGap, GapCell
<1>6. <<here, east>> \in Dilated(t, built) <=>
        \E q \in Cells(padded) :
           /\ \E shift \in {0, width, -width} : <<q[1], q[2] - shift>> \in built.gaps
           /\ here - q[1] \in -b .. b /\ east - q[2] \in -b .. b
  BY <1>1 DEF Dilated, DilateCells, CellsFromArtifact
<1> HIDE DEF here, east, b, padded, width
<1>7. ASSUME <<here, east>> \in Dilated(t, built) PROVE InGap(t, row)
  <2>1. PICK q \in Cells(padded), shift \in {0, width, -width} :
          /\ <<q[1], q[2] - shift>> \in built.gaps
          /\ here - q[1] \in -b .. b /\ east - q[2] \in -b .. b
    BY <1>6, <1>7
  <2>2. PICK name \in DOMAIN built.consumed, p \in Edge \X Edge :
          IsGap(built.consumed[name], p) /\ <<q[1], q[2] - shift>> = GapCell(name, p)
    BY <1>3, <2>1 DEF IsGap
  <2>3. /\ name \in DOMAIN collection /\ p \in Edge \X Edge
        /\ ReadGranuleNumobs(collection[name])[p] = 0
    BY <1>3, <2>2 DEF IsGap
  <2>4. GapCell(name, p)[1] = q[1] /\ GapCell(name, p)[2] = q[2] - shift
    BY <2>2
  <2>5. q[2] \in Int
    BY DEF padded, Cells, Columns
  <2>6. \E turn \in -1 .. 1 : turn * width = -shift
    BY <1>2
  <2>7. PICK turn \in -1 .. 1 : turn * width = -shift
    BY <2>6
  <2>8. (east - GapCell(name, p)[2]) + turn * width = east - q[2]
    BY <1>1, <1>2, <2>4, <2>5, <2>7
  <2> QED
    BY <1>5, <2>1, <2>3, <2>4, <2>8
<1>8. ASSUME InGap(t, row) PROVE <<here, east>> \in Dilated(t, built)
  <2>1. PICK name \in DOMAIN collection, p \in Edge \X Edge, turn \in -1 .. 1 :
          /\ ReadGranuleNumobs(collection[name])[p] = 0
          /\ here - GapCell(name, p)[1] \in -b .. b
          /\ (east - GapCell(name, p)[2]) + turn * width \in -b .. b
    BY <1>5, <1>8
  <2> DEFINE cell == GapCell(name, p)
             col == cell[2] - turn * width
             q == <<cell[1], col>>
             shift == -(turn * width)
  <2>2. /\ cell[1] \in 0 .. (GlobalRows - 1) /\ cell[2] \in Int /\ col \in Int
        /\ GranuleName(cell[1] \div GranuleCells, col \div GranuleCells) = name
    BY <1>4, <2>1, GranuleOfGap DEF width
  <2>3. cell = <<cell[1], cell[2]>>
    BY DEF GapCell
  <2>4. turn * width \in Int /\ shift \in {0, width, -width}
    BY <1>2
  <2> HIDE DEF cell
  <2>5. east - col = (east - cell[2]) + turn * width /\ col - shift = cell[2]
    BY <1>1, <2>2, <2>4
  <2> HIDE DEF col, shift
  <2>6. here - q[1] \in -b .. b /\ east - q[2] \in -b .. b
    BY <2>1, <2>5 DEF cell
  <2>7. q \in Cells(padded)
    BY <1>1, <2>2, <2>6
  <2>8. PICK g \in GranulesForWindow(padded, WindowOf(t).core) :
          g.name = GranuleName(q[1] \div GranuleCells, q[2] \div GranuleCells)
    BY <2>7, WindowNeeds
  <2>9. g.name = name
    BY <2>2, <2>8
  <2>10. name \in DOMAIN built.consumed
    BY <2>1, <2>8, <2>9, NeededIsRead DEF padded
  <2>11. IsGap(built.consumed[name], p)
    BY <1>3, <2>1, <2>10 DEF IsGap
  <2>12. cell \in built.gaps
    BY <1>3, <2>10, <2>11 DEF cell
  <2>13. <<q[1], q[2] - shift>> \in built.gaps
    BY <2>3, <2>5, <2>12
  <2> HIDE DEF q
  <2> QED
    BY <1>6, <2>4, <2>6, <2>7, <2>13
<1> QED
  BY <1>7, <1>8 DEF here, east

\* An accepted artifact, packaged and pinned, masks a tile truly.
LEMMA MaskIsTrue ==
    ASSUME NEW t \in ProductionTiles, NEW built, Accepted(built)
    PROVE  GapMask(t, TheRows, [artifact |-> None, packaged |-> built, dir |-> None,
                                pinned |-> built.content])
             = [row \in TheRows |-> InGap(t, row)]
<1> DEFINE settled == [artifact |-> None, packaged |-> built, dir |-> None, pinned |-> built.content]
           from == ResolveSource(settled)
           window == WindowOf(t)
           mask == [row \in TheRows |-> <<CellRow(t, row), t[2]>> \in Dilated(t, built)]
<1>1. built # None
  BY DEF Accepted, Sound
<1>2. from = [kind |-> "artifact", of |-> built]
  BY <1>1 DEF ResolveSource
<1>3. from.kind = "artifact" /\ from.of = built /\ settled.pinned = built.content
  BY <1>2
<1> HIDE DEF from, settled
<1>4. GapMask(t, TheRows, settled) = Tabulated(mask)
  <2>1. ArtifactServes(from.of, settled.pinned, window.padded, window.core)
    BY <1>3, TilesAreServed
  <2> QED
    BY <1>3, <2>1 DEF GapMask, WindowOf, Dilated, from
<1>5. Tabulated(mask) = mask
  BY DEF Tabulated
<1>6. mask = [row \in TheRows |-> InGap(t, row)]
  <2>1. ASSUME NEW row \in TheRows
        PROVE  (<<CellRow(t, row), t[2]>> \in Dilated(t, built)) = InGap(t, row)
    <3>1. <<CellRow(t, row), t[2]>> \in Dilated(t, built) <=> InGap(t, row)
      BY DilationIsTrue
    <3>2. InGap(t, row) \in BOOLEAN
      BY DEF InGap
    <3> QED
      BY <3>1, <3>2
  <2> QED
    BY <2>1
<1> QED
  BY <1>4, <1>5, <1>6 DEF settled

\* It reports itself complete.
LEMMA ReportIsComplete ==
    ASSUME NEW built, Accepted(built)
    PROVE  Complete(BuildReport([artifact |-> built, packaged |-> built, dir |-> None,
                                 pinned |-> built.content], None))
<1> DEFINE settled == [artifact |-> built, packaged |-> built, dir |-> None, pinned |-> built.content]
           manifests == SourceManifests(settled)
           missing == ExpectedGranules \ manifests.held
           absent == EstablishedAbsences(settled, missing, manifests.absent, None)
<1>1. /\ built # None /\ LoadArtifact(built, built.content) = built
      /\ (ExpectedGranules \ DOMAIN built.consumed) \ built.absent = {}
  BY DEF LoadArtifact, Accepted, Sound
<1>2. settled.artifact = built /\ settled.pinned = built.content
  OBVIOUS
<1> HIDE DEF settled
<1>3. manifests = [held |-> DOMAIN built.consumed, absent |-> built.absent]
  BY <1>1, <1>2 DEF SourceManifests
<1>4. manifests.held = DOMAIN built.consumed /\ manifests.absent = built.absent
  BY <1>3
<1> HIDE DEF manifests
<1>5. absent = missing \cap built.absent
  BY <1>1, <1>2, <1>4 DEF EstablishedAbsences
<1>6. BuildReport(settled, None) =
        [expected |-> ExpectedGranules, missing |-> missing, absent |-> absent,
         fetchable |-> missing \ absent]
  BY DEF BuildReport, manifests
<1>7. missing \ absent = {}
  BY <1>1, <1>4, <1>5
<1> HIDE DEF missing, absent
<1>8. BuildReport(settled, None).fetchable = {}
  BY <1>6, <1>7
<1> QED
  BY <1>8 DEF Complete, settled

\* Whatever the scripts did, in any order, died in and repeated: a package that
\* was committed masks every production tile where the collection has a gap
\* within the buffer and nowhere else, for every collection and any tiles of any
\* globe.  (ged.gap_mask_for_geobox, fetch_ged_granules, build_ged_gap_mask)
THEOREM PackagedMasksAreTrue == SpecArchive => []WheelMasksEveryTile
<1>1. InitArchive => ArchiveInv
  BY DEF InitArchive, ArchiveInv, Taken, None, Unpublished
<1>2. ArchiveInv => WheelMasksEveryTile
  <2> SUFFICES ASSUME ArchiveInv, wheel # Unpublished
               PROVE  WheelMasksEveryTile
    BY DEF WheelMasksEveryTile
  <2> DEFINE built == wheel.packaged
  <2>1. Accepted(built) /\ wheel.pinned = built.content
    BY DEF ArchiveInv, Accepted
  <2>2. /\ FromWheel = [artifact |-> None, packaged |-> built, dir |-> None,
                        pinned |-> built.content]
        /\ [FromWheel EXCEPT !.artifact = wheel.packaged] =
              [artifact |-> built, packaged |-> built, dir |-> None, pinned |-> built.content]
    BY <2>1 DEF FromWheel
  <2> HIDE DEF built
  <2>3. \A t \in ProductionTiles :
          GapMask(t, TheRows, FromWheel) = [row \in TheRows |-> InGap(t, row)]
    BY <2>1, <2>2, MaskIsTrue
  <2>4. Complete(BuildReport([FromWheel EXCEPT !.artifact = wheel.packaged], None))
    BY <2>1, <2>2, ReportIsComplete
  <2> QED
    BY <2>3, <2>4 DEF WheelMasksEveryTile, TheRows
<1> QED
  BY <1>1, <1>2, ArchiveStays, PTL DEF SpecArchive
=============================================================================
