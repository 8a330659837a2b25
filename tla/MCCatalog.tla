----------------------------- MODULE MCCatalog -----------------------------
(***************************************************************************)
(* Two tiles; the first is composited a second time and its LST changes.   *)
(***************************************************************************)
EXTENDS Catalog

MCTile == {"N40W075", "S10E020"}
MCPlace == [t \in MCTile |-> IF t = "N40W075" THEN 1 ELSE 2]
MCMaxVersion == [c \in Cogs |-> IF c = <<"N40W075", "lst_p95">> THEN 2 ELSE 1]

=============================================================================
