----------------------------- MODULE WorkerPool -----------------------------
(***************************************************************************)
(* What a consolidated run promises about the machines it bills, with no   *)
(* driver, bucket or control plane in sight (SAFETY-C of docs/adr/018):    *)
(* width is set aside for an array before the array is started, an array   *)
(* is never wider than what was set aside for it, and what is set aside    *)
(* never passes the cap.  FleetCapacity is shown to implement it.          *)
(***************************************************************************)
EXTENDS Widths

CONSTANTS
    Array,      \* the names an array can be started under
    Cap,        \* settings.fleet_max_vms
    MaxWidth    \* bound: the widest array

VARIABLES
    reserved,   \* width set aside for each array, 0 when there is none
    up          \* workers up under each name

poolVars == <<reserved, up>>

PoolInit ==
    /\ reserved = [a \in Array |-> 0]
    /\ up = [a \in Array |-> 0]

\* Width is set aside for an idle name, within the cap.
Reserve(a) ==
    /\ reserved[a] = 0
    /\ \E n \in 1 .. MaxWidth : reserved' = [reserved EXCEPT ![a] = n]
    /\ Total(Array, MaxWidth, reserved') <= Cap
    /\ UNCHANGED up

\* The array starts, at no more than the width set aside for it.
Start(a) ==
    /\ up[a] = 0
    /\ up' = [up EXCEPT ![a] = reserved[a]]
    /\ UNCHANGED reserved

\* Workers go away, and width may be given back for any name that has none.
Shrink ==
    /\ up' \in [Array -> 0 .. MaxWidth]
    /\ \A a \in Array : up'[a] <= up[a]
    /\ reserved' \in [Array -> 0 .. MaxWidth]
    /\ \A a \in Array : \/ reserved'[a] = reserved[a]
                        \/ up'[a] = 0 /\ reserved'[a] = 0

PoolNext == (\E a \in Array : Reserve(a) \/ Start(a)) \/ Shrink

PoolSpec == PoolInit /\ [][PoolNext]_poolVars

-----------------------------------------------------------------------------

PoolTypeOK ==
    /\ reserved \in [Array -> 0 .. MaxWidth]
    /\ up \in [Array -> 0 .. MaxWidth]

\* Every worker is inside a width that was set aside for its array.
UpWithinReserved == \A a \in Array : up[a] <= reserved[a]

\* No more workers are up than the cap.
UpWithinCap == Total(Array, MaxWidth, up) <= Cap
=============================================================================
