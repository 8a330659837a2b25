------------------------------- MODULE Widths -------------------------------
(***************************************************************************)
(* The sum of a function's values, as the number of unit slots under it:   *)
(* how many workers, charges or ghosts a map from identities to widths     *)
(* holds.                                                                  *)
(***************************************************************************)
EXTENDS Integers, FiniteSets

\* One slot per unit of width; m bounds the width of any one name.
SlotsOf(A, m, f) == {s \in A \X (1 .. m) : s[2] <= f[s[1]]}

Total(A, m, f) == Cardinality(SlotsOf(A, m, f))
=============================================================================
