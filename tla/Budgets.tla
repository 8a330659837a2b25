------------------------------ MODULE Budgets -------------------------------
(***************************************************************************)
(* How long a stage, and a wave of many units, may run (budgets.py).  Time *)
(* is in ticks; a rate of the code (megabytes a second) is here a pace:    *)
(* ticks one pixel of one scene takes.                                     *)
(***************************************************************************)
EXTENDS Shards

CONSTANTS
  VmBoot, Resolve, PlanWait, Safety,
  OffsetsPace, CompositePace, ExportPace,
  BarrierTimeout,   \* an operator's override of every deadline, or NoOverride
  NoOverride

ASSUME BudgetsArePositive ==
  /\ {VmBoot, Resolve, PlanWait, OffsetsPace, CompositePace, ExportPace} \subseteq Nat
  /\ Safety \in Nat \ {0}
  /\ BarrierTimeout \in Nat \cup {NoOverride}
  /\ NoOverride \notin Nat

Widths(ranges) == {Width(ranges[i]) : i \in DOMAIN ranges}

\* The widest phase-A share of the blocks, under today's split and the old.
WidestBlockShare(plan) ==
  Max(Widths(ClimatologyGroups(plan)) \cup Widths(BalanceByLand(plan.has_land, plan.ref_shards)))

\* The most scenes one phase-B shard reads: its batches are contiguous.
WidestSceneShare(plan) ==
  Max({Width(<<plan.batches[g[1] + 1][1], plan.batches[g[2]][2]>>) :
         g \in ToSet(Partition(Len(plan.batches), plan.scene_shards))})

WidestBandShare(plan) == Max(Widths(plan.bands))

CoarsePixels(plan) == plan.coarse[1] * plan.coarse[2] * plan.scenes
NativePixels(plan) == plan.native[1] * plan.native[2] * plan.scenes

ClimatologyTicks(plan, blocks) ==
  (CoarsePixels(plan) * OffsetsPace * blocks) \div Len(plan.blocks)
PhaseBTicks(plan, scenes) == (CoarsePixels(plan) * OffsetsPace * scenes) \div plan.scenes
BandTicks(plan, rows) == (NativePixels(plan) * CompositePace * rows) \div plan.native[1]

\* A budget keeps the cold start, paid once by a machine, apart from the work of
\* one unit.
Budget(work) == [boot |-> VmBoot, work |-> work]

OffsetsBudget(plan) ==
  Budget(Resolve + ClimatologyTicks(plan, WidestBlockShare(plan))
                 + PhaseBTicks(plan, WidestSceneShare(plan)))

\* A band is started while phase B still runs, and waits for its record.
CompositeBudget(plan) ==
  Budget(PhaseBTicks(plan, WidestSceneShare(plan)) + BandTicks(plan, WidestBandShare(plan)))

\* Three passes over the output: downloaded, merged, translated.
ExportBudget(plan) == Budget(3 * plan.native[1] * plan.native[2] * ExportPace)

StageBudget(stage, plan) ==
  CASE stage = "offsets" -> OffsetsBudget(plan)
    [] stage = "composite" -> CompositeBudget(plan)
    [] stage = "export" -> ExportBudget(plan)

\* Before there is a plan: a resolve, and the wait of its peers for it.
BootstrapBudget == Budget(Resolve + PlanWait)

\* A mutant: every unit of a wave is given a worker of its own.
OneRound(units, workers) == 1

QueueDepth(units, workers) == Higher(1, Ceiling(Higher(1, units), Higher(1, workers)))

\* The deadline of a wave: one boot, the queue's rounds and one tail.
WaveDeadline(boot, unitWork, units, workers) ==
  IF BarrierTimeout # NoOverride THEN BarrierTimeout
  ELSE (boot + (QueueDepth(units, workers) + 1) * unitWork) * Safety

=============================================================================
