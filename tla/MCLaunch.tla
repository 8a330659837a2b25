------------------------------ MODULE MCLaunch ------------------------------
(***************************************************************************)
(* Shells, permissions, accounts and ground for a small instance of Launch.*)
(***************************************************************************)
EXTENDS Launch

MCTiles == {"a", "b"}
MCRosters == {<<"a">>, <<"a", "b">>}

MCShells == [key : BOOLEAN, profile : {None, "lst", "other"}]

\* Everyone may do everything, but for one identity and one operation.
MCPermissions ==
  {[id \in {"key", "default", "lst", "other"} |->
      IF id = weak THEN Operations \ {op} ELSE Operations] :
     weak \in {"key", "default", "lst", "other", None}, op \in Operations}

\* One tile is asked 48 of: the limit pays for two of them, less 6.  The last
\* account has spent 7 and is one short of two tiles.
MCAccounts ==
  {[endpoint |-> [up |-> up, has_quota |-> quota, remaining |-> None],
    pages |-> pages, broken |-> broken, limit |-> 102, operator |-> operator] :
     up \in BOOLEAN, quota \in {TRUE, FALSE, None}, broken \in 0..2, operator \in {102, None},
     pages \in {<<>>, <<<<2>>, <<4, 1>>>>, <<<<4>>, <<3>>, <<>>>>, <<<<1, -2>>, <<3>>>>}}
  \cup
  {[endpoint |-> [up |-> TRUE, has_quota |-> TRUE, remaining |-> 95],
    pages |-> <<<<2>>, <<4, 1>>>>, broken |-> broken, limit |-> 102, operator |-> None] :
     broken \in 0..1}

\* What the theorem on RunsCanBePaid supposes of them.
ASSUME MCAccountsAssumption == \A account \in MCAccounts : Honest(account)

\* Footprints run over the grid's edge, as scenes do.
West == <<-1, 6, -1, 1>>
East == <<-1, 6, 3, 7>>
North == <<-2, 1, -1, 7>>
All == <<-1, 6, -1, 7>>

MCGround ==
  ("a" :> [shape : {<<4, 4>>, <<5, 6>>, <<2, 5>>},
           land : {{}, {<<0, 0>>}, {<<0, 0>>, <<1, 3>>}, (0..4) \X (0..5)},
           factor : {2, 3},
           footprints : {<<All>>, <<West, West, East>>, <<All, North, West, North, East>>,
                         <<North, East, East, All, East, West, East>>}])
  @@
  ("b" :> [shape : {<<4, 5>>}, land : {{<<0, 0>>, <<3, 4>>}}, factor : {2},
           footprints : {<<All, West, East>>, <<East, East, East, West, All>>}])

=============================================================================
