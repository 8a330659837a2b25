----------------------------- MODULE MCTileData -----------------------------
(***************************************************************************)
(* Six rows, read coarsely at rows 1, 3 and 5, and three to six steps of   *)
(* two months: whole or partial footprints, one or two items a step, warm  *)
(* or cold by a few degrees, with clouds, a fill and a hot row; the catalog*)
(* answers in no order, at times with more items than the cap.  Steps come *)
(* two to a chunk, so a batch of phase B holds two chunks, a chunk and a   *)
(* part of one or that part alone, and phase A reads a block of two pixels *)
(* in two turns and one of a pixel in one.  A globe of 8 by 8 cells in 16  *)
(* granules, one production tile at the north pole and one near the south  *)
(* pole, on either side of the antimeridian.                               *)
(***************************************************************************)
EXTENDS TileData

All == 0..5
Warmth == <<30, 33, 28, 40, 31, 36>>

\* An item's counts: the ground's warmth and its bias, row by row.
Item(month, tick, rows, bias, clear, hotRow) ==
  [time |-> (month - 1) * MonthLength + tick, rows |-> rows, clear |-> clear,
   dn |-> [r \in All |-> Zero + bias + Warmth[r + 1] + (IF r = hotRow THEN 45 ELSE 0)]]

\* What a day of the month may bring.
Kinds(day) ==
  <<<<Item(1, day, All, 0, All, 5)>>,
   <<Item(1, day, All, 6, {0, 1, 4, 5}, 0)>>,
   <<Item(1, day + 13, 4..5, 4, All, 9), Item(1, day + 3, 0..4, -3, All, 9)>>,
   <<Item(2, day + 5, 2..5, 2, {2, 3, 5}, 4)>>,
   <<Item(2, day, All, 25, All, 9)>>,
   <<Item(2, day + 7, 4..5, -4, All, 9), Item(2, day + 6, 2..3, -5, All, 9)>>,
   <<Item(2, day, All, -90, {1, 5}, 9)>>,
   <<Item(1, day, 0..3, 1, {}, 9)>>>>

\* Two days of any kind, and how the month goes on.
Tails == {Kinds(300)[7], Kinds(300)[3] \o Kinds(500)[1] \o Kinds(400)[4],
          Kinds(300)[6] \o Kinds(400)[2] \o Kinds(600)[5] \o Kinds(500)[8]}
Answer(a, b, c) == c \o a \o b
Lands == {All, {0, 1, 2}, {1, 2, 4, 5}, {}}
Ground(items, land) == [items |-> items, land |-> land, legacy |-> 3 \notin land]

MCGrounds ==
  {Ground(Answer(k[1], k[2], k[3]), land) :
     k \in Range(Kinds(100)) \X Range(Kinds(200)) \X Tails, land \in Lands}
MCLocalGrounds ==
  {Ground(<<Item(1, 300, All, 0, All, 5), Item(2, 105, All, 6, All, 4)>>, All)}

\* A granule whose cells all have observations but some, stored some way up.
File(gaps, northUp, westLeft) ==
  [numobs |-> [p \in Edge \X Edge |-> IF p \in gaps THEN 0 ELSE 7],
   north_up |-> northUp, west_left |-> westLeft]
Full == File({}, TRUE, TRUE)

\* Cores of both tiles and gaps east and west of the antimeridian; a gap at
\* the pole in a file stored south up; a core granule upstream never had.
MCCollections ==
  {(<<2, -2>> :> Full) @@ (<<1, -2>> :> Full) @@ (<<1, 1>> :> File({<<1, 1>>}, TRUE, TRUE))
     @@ (<<0, 1>> :> Full) @@ (<<-1, -2>> :> File({<<1, 1>>}, TRUE, FALSE)),
   (<<2, -2>> :> File({<<1, 0>>}, FALSE, TRUE)) @@ (<<1, -2>> :> Full)
     @@ (<<0, 1>> :> Full) @@ (<<-1, 1>> :> File({<<0, 0>>}, FALSE, FALSE)),
   (<<2, -2>> :> File({<<0, 0>>}, TRUE, FALSE)) @@ (<<0, 0>> :> File({<<0, 0>>}, TRUE, TRUE))}

MCTileCell == <<0, 0>>
MCProductionTiles == {<<0, 0>>, <<5, 7>>}

\* A cfg takes no negative number.
MCColdest == -20
MCLeastTrusted == -19
MCEncodedZero == -20

=============================================================================
