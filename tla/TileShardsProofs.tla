-------------------------- MODULE TileShardsProofs --------------------------
(***************************************************************************)
(* What holds of the workers of one tile whatever the plan's group counts, *)
(* the number of machines and the answers of the live catalog.             *)
(***************************************************************************)
EXTENDS TileShards, FiniteSetTheorems, TLAPS

\* What one machine may do on its own.
Works(w) ==
    Take(w) \/ ReadPlan(w) \/ ReadItems(w) \/ Stop(w) \/ Offsets(w) \/ Composite(w)

-----------------------------------------------------------------------------
(* Types.  TypeOK is not inductive: a worker writes the scenes it loaded   *)
(* and the plan it read, which are there because of the place it is at.    *)

OffsetsPlace == {"resolve", "items", "plan", "reduce", "publish", "barrier", "partial"}
CompositePlace == {"check", "record", "band", "claim", "sign"}

\* The places before a worker has read the plan, and before it has loaded the items.
Unplanned == {"idle", "resolve", "items", "plan", "read"}
Unloaded == Unplanned \cup {"open"}

\* A task is at a place its unit can be at, with what it must have by then.
Well(t) ==
    /\ t.at = "idle" <=> t.unit = None
    /\ t.at \in OffsetsPlace => t.unit[1] = "offsets"
    /\ t.at \in CompositePlace => t.unit[1] = "composite"
    /\ t.at = "publish" => t.unit[2] \in RefShard
    /\ t.at = "partial" => t.unit[2] \in SceneShard
    /\ t.at \in {"items", "plan"} \/ t.at \notin Unplanned => t.cut \in SceneSet
    /\ t.at \notin Unloaded => t.scenes \in SceneSet

WorkInv == TypeOK /\ \A w \in Worker : Well(task[w])

\* A unit is a stage and an index of it.
LEMMA UnitShape ==
    ASSUME NEW u \in Unit
    PROVE  /\ u # None
           /\ u[1] \in Stage
           /\ u[2] \in Index(u[1])
           /\ u = <<u[1], u[2]>>
BY NoneAssumption DEF Unit

\* A worker without a unit is at a place it may be at.
LEMMA IdleWell == Idle \in Task /\ Well(Idle)
BY DEF Idle, Task, Place, Well, OffsetsPlace, CompositePlace, Unplanned, Unloaded

\* The clamped counts name shards of the fleet.
LEMMA ShardsOfFleet ==
    /\ RefShard \subseteq Index("offsets") /\ SceneShard \subseteq Index("offsets")
    /\ Band = Index("composite") /\ 0 \in Index("export")
    /\ Index("offsets") \subseteq Nat
BY ShardAssumption DEF RefShard, SceneShard, Band, Index

\* What the driver asks for are units.
LEMMA MissingAreUnits == ASSUME NEW s \in Stage PROVE {s} \X Missing(s) \subseteq Unit
<1>1. Missing(s) \subseteq Index(s)
  BY ShardsOfFleet DEF Stage, Missing
<1> QED
  BY <1>1 DEF Unit

\* Whatever a worker does, its own task stays well placed and no other moves.
LEMMA MoveType ==
    ASSUME WorkInv, NEW w \in Worker, Works(w)
    PROVE  \E t \in Task : Well(t) /\ task' = [task EXCEPT ![w] = t]
<1> USE DEF Well, At, Goes, StageOf, IndexOf, OffsetsPlace, CompositePlace, Unplanned, Unloaded
<1>1. task[w] \in Task /\ Well(task[w]) /\ task \in [Worker -> Task]
  BY DEF WorkInv, TypeOK
<1>2. task[w].at # "idle" => /\ task[w].unit \in Unit
                             /\ task[w].unit[1] \in Stage
                             /\ task[w].unit[2] \in Index(task[w].unit[1])
  BY <1>1, UnitShape DEF Task
<1>3. CASE Leaves(w)
  BY <1>3, IdleWell DEF Leaves
<1>4. CASE Take(w)
  <2>1. PICK u \in queue : task' = [task EXCEPT ![w].unit = u,
                                 ![w].at = IF u[1] = "offsets" THEN "resolve" ELSE "read"]
    BY <1>4 DEF Take
  <2>2. u \in Unit /\ u # None /\ u[1] \in Stage
    BY UnitShape DEF WorkInv, TypeOK
  <2> DEFINE t == [task[w] EXCEPT !.unit = u, !.at = IF u[1] = "offsets" THEN "resolve" ELSE "read"]
  <2>3. task' = [task EXCEPT ![w] = t]
    BY <1>1, <2>1
  <2>4. t \in Task
    BY <1>1, <2>2 DEF Task, Place
  <2>5. Well(t)
    BY <1>1, <2>2 DEF Task
  <2> HIDE DEF t
  <2> QED
    BY <2>3, <2>4, <2>5
<1>5. CASE ReadPlan(w)
  <2>1. plan \in SceneSet
    BY <1>5 DEF WorkInv, TypeOK, ReadPlan
  <2> DEFINE t == [task[w] EXCEPT !.cut = plan, !.at = "open"]
  <2>2. t \in Task /\ Well(t)
    BY <1>1, <1>5, <2>1 DEF Task, Place, ReadPlan
  <2> QED
    BY <1>1, <1>5, <2>2 DEF ReadPlan
<1>6. CASE ReadItems(w)
  <2>1. items \in SceneSet
    BY <1>6 DEF WorkInv, TypeOK, ReadItems
  <2> DEFINE at == CASE StageOf(w) = "offsets" -> "reduce"
                     [] StageOf(w) = "composite" -> "check"
                     [] StageOf(w) = "export" -> "export"
  <2>2. /\ at \in {"reduce", "check", "export"}
        /\ at = "reduce" => task[w].unit[1] = "offsets"
        /\ at = "check" => task[w].unit[1] = "composite"
    BY <1>2, <1>6 DEF ReadItems, Stage
  <2>3. task' = [task EXCEPT ![w].scenes = items, ![w].at = at]
    BY <1>6 DEF ReadItems
  <2> HIDE DEF at
  <2> DEFINE t == [task[w] EXCEPT !.scenes = items, !.at = at]
  <2>4. t \in Task /\ Well(t)
    BY <1>1, <1>6, <2>1, <2>2 DEF Task, Place, ReadItems
  <2>5. task' = [task EXCEPT ![w] = t]
    BY <1>1, <2>3
  <2> HIDE DEF t
  <2> QED
    BY <2>4, <2>5
<1>7. CASE LookForPlan(w)
  <2>1. ASSUME NEW s \in SceneSet, task' = [task EXCEPT ![w].cut = s, ![w].at = "items"]
        PROVE  \E t \in Task : Well(t) /\ task' = [task EXCEPT ![w] = t]
    <3> DEFINE t == [task[w] EXCEPT !.cut = s, !.at = "items"]
    <3>1. t \in Task /\ Well(t)
      BY <1>1, <1>7 DEF Task, Place, LookForPlan
    <3> QED
      BY <1>1, <2>1, <3>1
  <2>2. ASSUME Goes(w, "read")
        PROVE  \E t \in Task : Well(t) /\ task' = [task EXCEPT ![w] = t]
    <3> DEFINE t == [task[w] EXCEPT !.at = "read"]
    <3>1. t \in Task /\ Well(t)
      BY <1>1, <1>7 DEF Task, Place, LookForPlan
    <3> QED
      BY <1>1, <2>2, <3>1
  <2> QED
    BY <1>7, <2>1, <2>2 DEF LookForPlan
<1>8. CASE \E at \in Place : /\ Goes(w, at)
                             /\ Well([task[w] EXCEPT !.at = at])
  <2>1. PICK at \in Place : Goes(w, at) /\ Well([task[w] EXCEPT !.at = at])
    BY <1>8
  <2> DEFINE t == [task[w] EXCEPT !.at = at]
  <2>2. t \in Task /\ task' = [task EXCEPT ![w] = t] /\ Well(t)
    BY <1>1, <2>1 DEF Task
  <2> QED
    BY <2>2
<1>9. ASSUME NEW at \in Place, NEW u \in SUBSET SceneSet,
             task' = [task EXCEPT ![w].at = at, ![w].uses = u],
             Well([task[w] EXCEPT !.at = at, !.uses = u])
      PROVE  \E t \in Task : Well(t) /\ task' = [task EXCEPT ![w] = t]
  <2> DEFINE t == [task[w] EXCEPT !.at = at, !.uses = u]
  <2>1. t \in Task /\ task' = [task EXCEPT ![w] = t] /\ Well(t)
    BY <1>1, <1>9 DEF Task
  <2> QED
    BY <2>1
<1>10. CASE \/ WriteItems(w) \/ WritePlan(w) \/ CheckBlocks(w) \/ PublishBlocks(w)
            \/ CheckBand(w) \/ WriteBand(w) \/ Claim(w) \/ Sign(w)
  BY <1>1, <1>3, <1>8, <1>10
     DEF WriteItems, WritePlan, CheckBlocks, PublishBlocks, CheckBand, WriteBand, Claim, Sign,
         Task, Place
<1>11. CASE PassBarrier(w)
  <2>1. /\ {task[w].scenes} \cup UNION {ref[i] : i \in RefShard} \in SUBSET SceneSet
        /\ task[w].at = "barrier"
    BY <1>1, <1>11 DEF WorkInv, TypeOK, PassBarrier
  <2> DEFINE u == {task[w].scenes} \cup UNION {ref[i] : i \in RefShard}
             holds == IndexOf(w) \in SceneShard /\ partial[IndexOf(w)] = NoPartial
  <2>2. CASE holds
    <3>1. task' = [task EXCEPT ![w].at = "partial", ![w].uses = u]
      BY <1>11, <2>2 DEF PassBarrier
    <3>2. task[w].unit[2] \in SceneShard
      BY <2>2 DEF IndexOf
    <3>3. Well([task[w] EXCEPT !.at = "partial", !.uses = u])
      BY <1>1, <2>1, <3>2 DEF Task
    <3> QED
      BY <1>9, <2>1, <3>1, <3>3 DEF Place
  <2>3. CASE ~holds
    BY <1>3, <1>11, <2>3 DEF PassBarrier
  <2> QED
    BY <2>2, <2>3
<1>12. CASE UseRecord(w)
  <2>1. /\ record[task[w].cut] \cup {task[w].scenes} \in SUBSET SceneSet
        /\ task[w].at = "record"
    BY <1>1, <1>12 DEF WorkInv, TypeOK, UseRecord
  <2> DEFINE u == record[task[w].cut] \cup {task[w].scenes}
  <2>2. task' = [task EXCEPT ![w].at = "band", ![w].uses = u]
    BY <1>12 DEF UseRecord
  <2>3. Well([task[w] EXCEPT !.at = "band", !.uses = u])
    BY <1>1, <2>1 DEF Task
  <2> QED
    BY <1>9, <2>1, <2>2, <2>3 DEF Place
<1>13. CASE Stop(w) \/ WritePartial(w) \/ Export(w)
  BY <1>3, <1>13 DEF Stop, WritePartial, Export
<1> QED
  BY <1>4, <1>5, <1>6, <1>7, <1>10, <1>11, <1>12, <1>13 DEF Works, Offsets, Composite

\* What a worker writes to the bucket has the bucket's types.
LEMMA StoreType ==
    ASSUME WorkInv, NEW w \in Worker, Works(w)
    PROVE  /\ queue' \in SUBSET Unit /\ UNCHANGED <<rounds, record, failed>>
           /\ items' \in SceneSet \cup {None} /\ plan' \in SceneSet \cup {None}
           /\ ref' \in [RefShard -> SUBSET SceneSet]
           /\ partial' \in [SceneShard -> Partial]
           /\ band' \in [Band -> SUBSET SceneSet]
           /\ claimed' \in BOOLEAN /\ cog' \in SUBSET SceneSet /\ lost' \in BOOLEAN
<1> USE DEF TypeOK, driverVars, planVars, offsetVars, exportVars
<1>1. TypeOK /\ task[w] \in Task /\ Well(task[w])
  BY DEF WorkInv
<1>2. CASE Take(w)
  BY <1>1, <1>2 DEF Take
<1>3. CASE \/ ReadPlan(w) \/ ReadItems(w) \/ LookForPlan(w) \/ CheckBlocks(w) \/ PassBarrier(w)
           \/ CheckBand(w) \/ UseRecord(w) \/ Claim(w)
  BY <1>1, <1>3 DEF ReadPlan, ReadItems, LookForPlan, CheckBlocks, PassBarrier, CheckBand,
                    UseRecord, Claim
<1>4. CASE Stop(w)
  BY <1>1, <1>4 DEF Stop
<1>5. CASE WriteItems(w) \/ WritePlan(w)
  BY <1>1, <1>5 DEF WriteItems, WritePlan, Task
<1>6. CASE PublishBlocks(w)
  <2>1. {task[w].scenes} \in SUBSET SceneSet
    BY <1>1, <1>6 DEF PublishBlocks, At, Well, Unloaded, Unplanned
  <2> QED
    BY <1>1, <1>6, <2>1 DEF PublishBlocks
<1>7. CASE WritePartial(w)
  <2>1. [times |-> task[w].scenes, uses |-> task[w].uses] \in Partial
    BY <1>1 DEF Task, Partial
  <2> QED
    BY <1>1, <1>7, <2>1 DEF WritePartial
<1>8. CASE WriteBand(w)
  <2>1. task[w].uses \in SUBSET SceneSet
    BY <1>1 DEF Task
  <2> QED
    BY <1>1, <1>8, <2>1 DEF WriteBand
<1>9. CASE Sign(w)
  BY <1>1, <1>9 DEF Sign
<1>10. CASE Export(w)
  <2>1. UNION {band[i] : i \in Band} \in SUBSET SceneSet
    BY <1>1
  <2> QED
    BY <1>1, <1>10, <2>1 DEF Export
<1> QED
  BY <1>2, <1>3, <1>4, <1>5, <1>6, <1>7, <1>8, <1>9, <1>10 DEF Works, Offsets, Composite

\* The driver's steps keep every type, and move no worker.
LEMMA DriverType ==
    ASSUME WorkInv, NEW s \in Stage, Submit(s) \/ EndArray(s) \/ Merge
    PROVE  TypeOK' /\ task' = task
<1> USE DEF TypeOK, planVars, offsetVars, exportVars
<1>1. TypeOK
  BY DEF WorkInv
<1>2. CASE Submit(s)
  <2>1. rounds[s] + 1 \in 0 .. Rounds
    BY <1>1, <1>2, ShardAssumption DEF Submit, RoundLeft
  <2> QED
    BY <1>1, <1>2, <2>1, MissingAreUnits DEF Submit
<1>3. CASE EndArray(s)
  BY <1>1, <1>3 DEF EndArray
<1>4. CASE Merge
  <2>1. UNION {partial[i].uses : i \in SceneShard} \in SUBSET SceneSet
    BY <1>1 DEF Partial
  <2>2. plan \in SceneSet
    BY <1>1, <1>4 DEF Merge
  <2> QED
    BY <1>1, <1>4, <2>1, <2>2 DEF Merge
<1> QED
  BY <1>2, <1>3, <1>4

\* At the start every worker is idle.
LEMMA InitWork == Init => WorkInv
<1> SUFFICES ASSUME Init PROVE WorkInv
  OBVIOUS
<1>1. rounds \in [Stage -> 0 .. Rounds]
  BY ShardAssumption DEF Init
<1>2. partial \in [SceneShard -> Partial]
  BY DEF Init, NoPartial, Partial
<1> QED
  BY <1>1, <1>2, IdleWell DEF Init, WorkInv, TypeOK

\* Every step takes a worker to a place its unit can be at.
LEMMA NextWork == WorkInv /\ [Next]_vars => WorkInv'
<1> SUFFICES ASSUME WorkInv, [Next]_vars PROVE WorkInv'
  OBVIOUS
<1>1. CASE \E s \in Stage : Submit(s) \/ EndArray(s)
  BY <1>1, DriverType DEF WorkInv, Well
<1>2. CASE Merge
  <2>1. "offsets" \in Stage
    BY DEF Stage
  <2> QED
    BY <1>2, <2>1, DriverType DEF WorkInv, Well
<1>3. CASE \E w \in Worker : Works(w)
  <2>1. PICK w \in Worker : Works(w)
    BY <1>3
  <2>2. PICK t \in Task : Well(t) /\ task' = [task EXCEPT ![w] = t]
    BY <2>1, MoveType
  <2>3. TypeOK'
    BY <2>1, <2>2, StoreType DEF WorkInv, TypeOK
  <2>4. \A v \in Worker : task'[v] = IF v = w THEN t ELSE task[v]
    BY <2>2 DEF WorkInv, TypeOK
  <2>5. ASSUME NEW v \in Worker PROVE Well(task[v])'
    <3>1. Well(task'[v])
      BY <2>2, <2>4 DEF WorkInv
    <3> QED
      BY <3>1 DEF Well
  <2> QED
    BY <2>3, <2>5 DEF WorkInv
<1>4. CASE UNCHANGED vars
  BY <1>4 DEF vars, driverVars, planVars, offsetVars, exportVars, WorkInv, TypeOK, Well
<1> QED
  BY <1>1, <1>2, <1>3, <1>4 DEF Next, Works

\* Workers are always at a place their unit can be at.
LEMMA AlwaysWork == Spec => []WorkInv
<1> QED
  BY InitWork, NextWork, PTL DEF Spec

\* Every variable of the tile's workers keeps its type: no worker writes blocks,
\* partials or bands without the scenes they stand for.
THEOREM ShardTypes == Spec => []TypeOK
<1>1. WorkInv => TypeOK
  BY DEF WorkInv
<1> QED
  BY <1>1, AlwaysWork, PTL

-----------------------------------------------------------------------------
(* The export claim.                                                       *)

\* At the start no band is published.
LEMMA InitClaimed == Init => LastBandIsClaimed
<1> SUFFICES ASSUME Init PROVE ~BandsComplete
  BY DEF LastBandIsClaimed
<1>1. 0 \in Band /\ band[0] = {}
  BY ShardAssumption DEF Init, Band
<1> QED
  BY <1>1 DEF BandsComplete

\* A step that publishes no band, unclaims nothing and takes no machine away
\* from its claim keeps the promise.
LEMMA ClaimKept ==
    ASSUME LastBandIsClaimed, band' = band, claimed => claimed', lost => lost',
           \A w \in Worker : task[w].at \in {"claim", "sign"} => task'[w].at \in {"claim", "sign"}
    PROVE  LastBandIsClaimed'
BY DEF LastBandIsClaimed, BandsComplete

\* The worker that completes the bands goes on to the claim.
LEMMA NextClaimed == WorkInv /\ LastBandIsClaimed /\ [Next]_vars => LastBandIsClaimed'
<1> SUFFICES ASSUME WorkInv, LastBandIsClaimed, [Next]_vars PROVE LastBandIsClaimed'
  OBVIOUS
<1> USE DEF driverVars, planVars, offsetVars, exportVars
<1>1. CASE \E s \in Stage : Submit(s) \/ EndArray(s)
  BY <1>1, ClaimKept DEF Submit, EndArray
<1>2. CASE Merge
  BY <1>2, ClaimKept DEF Merge
<1>3. ASSUME NEW w \in Worker, Works(w) PROVE LastBandIsClaimed'
  <2> USE DEF At, Goes, Leaves
  <2>1. task \in [Worker -> Task] /\ \A v \in Worker \ {w} : task'[v] = task[v]
    <3>1. task \in [Worker -> Task]
      BY DEF WorkInv, TypeOK
    <3>2. \E t \in Task : task' = [task EXCEPT ![w] = t]
      BY <1>3, MoveType
    <3> QED
      BY <3>1, <3>2
  <2>2. ASSUME task[w].at \notin {"claim", "sign"}, band' = band, claimed => claimed', lost => lost'
        PROVE  LastBandIsClaimed'
    BY <2>1, <2>2, ClaimKept
  <2>3. CASE \/ Take(w) \/ ReadPlan(w) \/ ReadItems(w) \/ LookForPlan(w) \/ WriteItems(w)
             \/ WritePlan(w) \/ CheckBlocks(w) \/ PublishBlocks(w) \/ PassBarrier(w)
             \/ WritePartial(w) \/ CheckBand(w) \/ UseRecord(w) \/ Export(w)
    BY <2>2, <2>3 DEF Take, ReadPlan, ReadItems, LookForPlan, WriteItems, WritePlan, CheckBlocks,
                      PublishBlocks, PassBarrier, WritePartial, CheckBand, UseRecord, Export
  <2>4. CASE Stop(w)
    <3>1. CASE task[w].at \in {"claim", "sign"}
      BY <2>4, <3>1 DEF Stop, LastBandIsClaimed
    <3>2. CASE task[w].at \notin {"claim", "sign"}
      BY <2>2, <2>4, <3>2 DEF Stop
    <3> QED
      BY <3>1, <3>2
  <2>5. CASE WriteBand(w)
    BY <2>1, <2>5 DEF WriteBand, LastBandIsClaimed
  <2>6. CASE Claim(w)
    <3>1. CASE MayClaim(IndexOf(w))
      <4>1. task'[w].at = "sign"
        BY <2>1, <2>6, <3>1 DEF Claim, Task
      <4> QED
        BY <4>1 DEF LastBandIsClaimed
    <3>2. CASE ~MayClaim(IndexOf(w))
      BY <2>6, <3>2 DEF Claim, MayClaim, LastBandIsClaimed, BandsComplete
    <3> QED
      BY <3>1, <3>2
  <2>7. CASE Sign(w)
    BY <2>7 DEF Sign, LastBandIsClaimed
  <2> QED
    BY <1>3, <2>3, <2>4, <2>5, <2>6, <2>7 DEF Works, Offsets, Composite
<1>4. CASE UNCHANGED vars
  <2>1. band' = band /\ claimed' = claimed /\ lost' = lost /\ task' = task
    BY <1>4 DEF vars
  <2> QED
    BY <2>1, ClaimKept
<1> QED
  BY <1>1, <1>2, <1>3, <1>4 DEF Next, Works

\* Once every row band is published the export is claimed, or somebody is about
\* to claim it, unless a worker stopped between its band and its claim: for any
\* number of bands and machines, and even when units are asked for while
\* another worker runs them (claim_export).
THEOREM LastBandClaims == Spec => []LastBandIsClaimed
<1> QED
  BY AlwaysWork, InitClaimed, NextClaimed, PTL DEF Spec

-----------------------------------------------------------------------------
(* The climatology barrier.                                                *)

\* Somebody passed the barrier.
Passed ==
    \/ \E i \in SceneShard : partial[i] # NoPartial
    \/ \E w \in Worker : task[w].at = "partial"

PassedInOrder == Passed => BlocksComplete

\* At the start no shard has passed the barrier.
LEMMA InitPassed == Init => PassedInOrder
BY DEF Init, PassedInOrder, Passed, Idle

\* Blocks are never taken back, so what lets nobody else past keeps the order.
LEMMA PassedKept ==
    ASSUME PassedInOrder, ref' = ref, Passed' => Passed
    PROVE  PassedInOrder'
BY DEF PassedInOrder, BlocksComplete

\* No step lets a shard past the barrier before all blocks are published.
LEMMA NextPassed == WorkInv /\ PassedInOrder /\ [Next]_vars => PassedInOrder'
<1> SUFFICES ASSUME WorkInv, PassedInOrder, [Next]_vars PROVE PassedInOrder'
  OBVIOUS
<1> USE DEF driverVars, planVars, offsetVars, exportVars
<1>1. CASE \E s \in Stage : Submit(s) \/ EndArray(s)
  BY <1>1, PassedKept DEF Submit, EndArray, Passed
<1>2. CASE Merge
  BY <1>2, PassedKept DEF Merge, Passed
<1>3. ASSUME NEW w \in Worker, Works(w) PROVE PassedInOrder'
  <2> USE DEF At, Goes, Leaves
  <2>1. task \in [Worker -> Task] /\ \A v \in Worker \ {w} : task'[v] = task[v]
    <3>1. task \in [Worker -> Task]
      BY DEF WorkInv, TypeOK
    <3>2. \E t \in Task : task' = [task EXCEPT ![w] = t]
      BY <1>3, MoveType
    <3> QED
      BY <3>1, <3>2
  <2>2. ASSUME ref' = ref, partial' = partial, task'[w].at # "partial"
        PROVE  PassedInOrder'
    <3>1. Passed' => Passed
      BY <2>1, <2>2 DEF Passed
    <3> QED
      BY <2>2, <3>1, PassedKept
  <2>3. CASE Take(w)
    <3>1. task'[w].at # "partial"
      BY <2>1, <2>3 DEF Take, Task
    <3> QED
      BY <2>2, <2>3, <3>1 DEF Take
  <2>31. CASE ReadItems(w)
    <3>1. task[w].unit \in Unit
      BY <2>1, <2>31 DEF ReadItems, WorkInv, Well, Task
    <3>2. StageOf(w) \in {"offsets", "composite", "export"}
      BY <3>1, UnitShape DEF StageOf, Stage
    <3>3. task'[w].at # "partial"
      BY <2>1, <2>31, <3>2 DEF ReadItems, Task
    <3> QED
      BY <2>2, <2>31, <3>3 DEF ReadItems
  <2>4. CASE \/ ReadPlan(w) \/ LookForPlan(w) \/ WriteItems(w) \/ WritePlan(w) \/ CheckBlocks(w)
             \/ CheckBand(w) \/ UseRecord(w) \/ WriteBand(w) \/ Claim(w) \/ Sign(w) \/ Export(w)
             \/ Stop(w)
    <3>1. ASSUME LookForPlan(w) \/ ReadPlan(w) \/ UseRecord(w)
          PROVE  task'[w].at # "partial"
      BY <2>1, <3>1 DEF LookForPlan, ReadPlan, UseRecord, Task
    <3>2. ASSUME Leaves(w)
          PROVE  task'[w].at # "partial"
      BY <2>1, <3>2 DEF Idle
    <3>3. ASSUME \/ WriteItems(w) \/ WritePlan(w) \/ CheckBlocks(w) \/ CheckBand(w)
                 \/ WriteBand(w) \/ Claim(w) \/ Sign(w)
          PROVE  task'[w].at # "partial"
      BY <2>1, <3>2, <3>3 DEF WriteItems, WritePlan, CheckBlocks, CheckBand, WriteBand, Claim, Sign,
                              Task
    <3>4. ASSUME Export(w) \/ Stop(w)
          PROVE  task'[w].at # "partial"
      BY <3>2, <3>4 DEF Export, Stop
    <3>5. task'[w].at # "partial"
      BY <2>4, <3>1, <3>3, <3>4
    <3>6. ref' = ref /\ partial' = partial
      BY <2>4 DEF ReadPlan, LookForPlan, WriteItems, WritePlan, CheckBlocks, CheckBand,
                  UseRecord, WriteBand, Claim, Sign, Export, Stop
    <3> QED
      BY <2>2, <3>5, <3>6
  <2>5. CASE PublishBlocks(w)
    <3>1. task'[w].at # "partial" /\ partial' = partial
      BY <2>1, <2>5 DEF PublishBlocks, Task
    <3>2. Passed' => Passed
      BY <2>1, <3>1 DEF Passed
    <3>3. BlocksComplete => BlocksComplete'
      BY <2>5 DEF PublishBlocks, BlocksComplete, WorkInv, TypeOK
    <3> QED
      BY <3>2, <3>3 DEF PassedInOrder
  <2>6. CASE PassBarrier(w)
    BY <2>6 DEF PassBarrier, PassedInOrder, BlocksComplete
  <2>7. CASE WritePartial(w)
    <3>1. BlocksComplete
      BY <2>7 DEF WritePartial, PassedInOrder, Passed
    <3> QED
      BY <2>7, <3>1 DEF WritePartial, PassedInOrder, BlocksComplete
  <2> QED
    BY <1>3, <2>3, <2>31, <2>4, <2>5, <2>6, <2>7 DEF Works, Offsets, Composite
<1>4. CASE UNCHANGED vars
  BY <1>4, PassedKept DEF vars, Passed
<1> QED
  BY <1>1, <1>2, <1>3, <1>4 DEF Next, Works

\* A barrier round of the offsets stage asks again for every missing block whose
\* owner owes a scene partial too, whatever the two clamped counts are.  A shard
\* past scene_shards that owns blocks is outside the round (_expected_keys), and
\* nothing is claimed of it.
THEOREM RoundsAskForBlocks == Spec => AsksForOwedBlocks
<1>1. ASSUME WorkInv, PassedInOrder, [Next]_vars
      PROVE  [plan # None /\ rounds'["offsets"] > rounds["offsets"] =>
                \A i \in RefShard \cap SceneShard :
                    ref[i] = {} => <<"offsets", i>> \in queue']_vars
  <2> SUFFICES ASSUME plan # None, rounds'["offsets"] > rounds["offsets"],
                      NEW i \in RefShard \cap SceneShard, ref[i] = {}
               PROVE  <<"offsets", i>> \in queue'
    OBVIOUS
  <2>1. rounds \in [Stage -> Nat]
    BY <1>1, ShardAssumption DEF WorkInv, TypeOK
  <2>2. "offsets" \in Stage /\ rounds' # rounds
    BY <2>1 DEF Stage
  <2>3. PICK s \in Stage : Submit(s)
    BY <1>1, <2>1, <2>2 DEF Next, Works, EndArray, Merge, Take, ReadPlan, ReadItems, Stop, Offsets,
       Composite, LookForPlan, WriteItems, WritePlan, CheckBlocks, PublishBlocks, PassBarrier,
       WritePartial, CheckBand, UseRecord, WriteBand, Claim, Sign, Export, driverVars, vars
  <2>4. s = "offsets"
    BY <2>1, <2>2, <2>3 DEF Submit
  <2>5. partial[i] = NoPartial
    BY <1>1 DEF PassedInOrder, Passed, BlocksComplete
  <2>6. i \in Missing("offsets")
    BY <2>5 DEF Missing
  <2> QED
    BY <2>3, <2>4, <2>6 DEF Submit
<1> QED
  BY <1>1, AlwaysWork, InitPassed, NextPassed, PTL DEF Spec, AsksForOwedBlocks

-----------------------------------------------------------------------------
(* One scene set.  While no running unit is asked for again, the shard that*)
(* resolves the tile is alone from when it finds no plan to the moment     *)
(* it has written one, and all that is made afterwards is made from it.    *)

\* No two machines hold one unit, and no unit is both held and queued.
OneOwner ==
    \A w \in Worker : task[w].unit # None =>
        /\ task[w].unit \notin queue
        /\ \A v \in Worker \ {w} : task[v].unit # task[w].unit

\* The resolver is the first shard; until it writes the plan there is none.
Resolving(t) ==
    t.at \in {"items", "plan"} =>
        t.unit = <<"offsets", 0>> /\ plan = None /\ (t.at = "plan" => items = t.cut)

\* A task that has read the plan, or loaded the items, has the plan's scene set.
Follows(t) ==
    /\ t.at \notin Unplanned => plan # None /\ t.cut = plan
    /\ t.at \notin Unloaded => t.scenes = plan
    /\ t.uses \subseteq {plan}

\* So does everything in the bucket; before there is a plan there is nothing.
FromPlan ==
    /\ \A s \in SceneSet : record[s] \subseteq {plan}
    /\ \A i \in RefShard : ref[i] \subseteq {plan}
    /\ \A i \in SceneShard : partial[i].uses \subseteq {plan}
    /\ \A i \in Band : band[i] \subseteq {plan}
    /\ cog \subseteq {plan}

PlanInv ==
    /\ OneOwner
    /\ FrozenTogether
    /\ \A w \in Worker : Resolving(task[w]) /\ Follows(task[w])
    /\ FromPlan

\* At the start there is no plan.
LEMMA InitPlan == Init => PlanInv
BY DEF Init, PlanInv, OneOwner, FrozenTogether, Resolving, Follows, FromPlan, Idle, NoPartial,
       Unplanned, Unloaded

\* A set of scene sets that mixes nothing but a plan that is not there is empty.
LEMMA NothingYet ==
    ASSUME plan = None, NEW uses \in SUBSET SceneSet, uses \subseteq {plan}
    PROVE  uses = {}
BY ShardAssumption

\* A step that leaves the plan, the items and the queue alone.
LEMMA PlanKept ==
    ASSUME WorkInv, PlanInv, NEW w \in Worker, NEW t \in Task, task' = [task EXCEPT ![w] = t],
           t.unit \in {task[w].unit, None}, Resolving(t), Follows(t),
           queue' = queue, UNCHANGED planVars, FromPlan'
    PROVE  PlanInv'
<1> USE DEF planVars
<1>1. \A v \in Worker : task'[v] = IF v = w THEN t ELSE task[v]
  BY DEF WorkInv, TypeOK
<1>2. OneOwner'
  BY <1>1 DEF PlanInv, OneOwner
<1>3. FrozenTogether'
  BY DEF PlanInv, FrozenTogether
<1>4. ASSUME NEW v \in Worker PROVE Resolving(task[v])' /\ Follows(task[v])'
  BY <1>1 DEF PlanInv, Resolving, Follows
<1> QED
  BY <1>2, <1>3, <1>4 DEF PlanInv

\* The driver's steps.  A wave asks only for units nobody holds.
LEMMA DriverPlan ==
    ASSUME ~Repeats, WorkInv, PlanInv, NEW s \in Stage, Submit(s) \/ EndArray(s) \/ Merge
    PROVE  PlanInv'
<1> USE DEF planVars, offsetVars, exportVars
<1>1. UNCHANGED <<task, items, plan, ref, partial, band, cog>>
  BY DEF Submit, EndArray, Merge
<1>2. \A w \in Worker : Resolving(task[w])' /\ Follows(task[w])'
  BY <1>1 DEF PlanInv, Resolving, Follows
<1>3. FrozenTogether'
  BY <1>1 DEF PlanInv, FrozenTogether
<1>4. OneOwner'
  <2>1. CASE Submit(s)
    <3>1. \A w \in Worker : task[w].unit # None => task[w].unit[1] # s
      BY <2>1 DEF Submit, Running
    <3>2. \A u \in {s} \X Missing(s) : u[1] = s
      OBVIOUS
    <3> QED
      BY <1>1, <2>1, <3>1, <3>2 DEF Submit, PlanInv, OneOwner
  <2>2. CASE EndArray(s)
    BY <1>1, <2>2 DEF EndArray, PlanInv, OneOwner
  <2>3. CASE Merge
    BY <1>1, <2>3 DEF Merge, PlanInv, OneOwner
  <2> QED
    BY <2>1, <2>2, <2>3
<1>5. FromPlan'
  <2>1. CASE Merge
    <3>1. UNION {partial[i].uses : i \in SceneShard} \subseteq {plan}
      BY DEF PlanInv, FromPlan
    <3>2. \A x \in SceneSet : record'[x] \subseteq {plan}
      BY <2>1, <3>1 DEF Merge, PlanInv, FromPlan, WorkInv, TypeOK
    <3> QED
      BY <1>1, <3>2 DEF PlanInv, FromPlan
  <2>2. CASE Submit(s) \/ EndArray(s)
    BY <1>1, <2>2 DEF Submit, EndArray, PlanInv, FromPlan
  <2> QED
    BY <2>1, <2>2
<1> QED
  BY <1>2, <1>3, <1>4, <1>5 DEF PlanInv

\* Taking a unit off the queue keeps it with one owner.
LEMMA TakePlan ==
    ASSUME WorkInv, PlanInv, NEW w \in Worker, Take(w)
    PROVE  PlanInv'
<1> USE DEF planVars, offsetVars, exportVars
<1>1. PICK u \in queue :
        /\ queue' = queue \ {u}
        /\ task' = [task EXCEPT ![w].unit = u,
                                ![w].at = IF u[1] = "offsets" THEN "resolve" ELSE "read"]
  BY DEF Take
<1>2. task[w] \in Task /\ task \in [Worker -> Task]
  BY DEF WorkInv, TypeOK
<1>3. /\ \A v \in Worker \ {w} : task'[v] = task[v]
      /\ task'[w].unit = u /\ task'[w].at \in {"resolve", "read"} /\ task'[w].uses = task[w].uses
  BY <1>1, <1>2 DEF Task
<1>4. UNCHANGED <<planVars, offsetVars, exportVars>>
  BY DEF Take
<1>5. OneOwner'
  <2>1. \A v \in Worker \ {w} : task'[v].unit # None =>
           /\ task[v].unit \notin queue'
           /\ task[v].unit # u
           /\ \A x \in Worker \ {v} : task[x].unit # task[v].unit
    BY <1>1, <1>3 DEF PlanInv, OneOwner
  <2>2. ASSUME NEW v \in Worker, task'[v].unit # None
        PROVE  /\ task'[v].unit \notin queue'
               /\ \A x \in Worker \ {v} : task'[x].unit # task'[v].unit
    <3>1. CASE v = w
      <4>1. task'[v].unit = u /\ u \notin queue'
        BY <1>1, <1>3, <3>1
      <4>2. \A x \in Worker \ {w} : task'[x].unit # u
        <5>1. u # None
          BY <2>2, <4>1
        <5> QED
          BY <1>3, <2>1, <5>1
      <4> QED
        BY <3>1, <4>1, <4>2
    <3>2. CASE v # w
      BY <1>3, <2>1, <2>2, <3>2
    <3> QED
      BY <3>1, <3>2
  <2> QED
    BY <2>2 DEF OneOwner
<1>6. FrozenTogether' /\ FromPlan'
  BY <1>4 DEF PlanInv, FrozenTogether, FromPlan
<1>7. ASSUME NEW v \in Worker PROVE Resolving(task[v])' /\ Follows(task[v])'
  BY <1>3, <1>4 DEF PlanInv, Resolving, Follows, Unplanned, Unloaded
<1> QED
  BY <1>5, <1>6, <1>7 DEF PlanInv

\* The resolver is alone: its items, and then its plan, are the only ones.
LEMMA ResolverPlan ==
    ASSUME WorkInv, PlanInv, NEW w \in Worker, WriteItems(w) \/ WritePlan(w)
    PROVE  PlanInv'
<1> USE DEF planVars, offsetVars, exportVars, At, Goes
<1>1. task[w] \in Task /\ task \in [Worker -> Task] /\ Well(task[w])
  BY DEF WorkInv, TypeOK
<1>2. /\ plan = None /\ task[w].unit = <<"offsets", 0>> /\ task[w].cut \in SceneSet
      /\ task[w].at \in {"items", "plan"}
  BY <1>1 DEF WriteItems, WritePlan, PlanInv, Resolving, Well
<1>3. <<"offsets", 0>> \in Unit
  BY ShardAssumption DEF Unit, Stage, Index
<1>4. /\ \A v \in Worker \ {w} : task'[v] = task[v]
      /\ task'[w].unit = task[w].unit /\ task'[w].cut = task[w].cut
      /\ task'[w].uses = task[w].uses
      /\ task'[w].at = IF task[w].at = "items" THEN "plan" ELSE "read"
  BY <1>1, <1>2 DEF Task, WriteItems, WritePlan
<1>5. \A v \in Worker \ {w} : task[v].at \notin {"items", "plan"} /\ task[v].at \in Unplanned
  BY <1>2, <1>3, NoneAssumption DEF PlanInv, OneOwner, Resolving, Follows
<1>6. OneOwner'
  <2>1. queue' = queue
    BY DEF WriteItems, WritePlan, driverVars
  <2>2. \A v \in Worker : task'[v].unit = task[v].unit
    BY <1>4
  <2> QED
    BY <2>1, <2>2 DEF PlanInv, OneOwner
<1>7. /\ \A v \in Worker : task[v].uses = {}
      /\ \A s \in SceneSet : record[s] = {}
      /\ \A i \in RefShard : ref[i] = {}
      /\ \A i \in SceneShard : partial[i].uses = {}
      /\ \A i \in Band : band[i] = {}
      /\ cog = {}
  <2>1. /\ \A v \in Worker : task[v].uses \in SUBSET SceneSet
        /\ \A i \in SceneShard : partial[i].uses \in SUBSET SceneSet
    BY DEF WorkInv, TypeOK, Task, Partial
  <2> QED
    BY <1>2, <2>1, NothingYet DEF WorkInv, TypeOK, PlanInv, Follows, FromPlan
<1>8. FromPlan'
  BY <1>7 DEF WriteItems, WritePlan, FromPlan
<1>9. FrozenTogether'
  BY <1>1, <1>2 DEF WriteItems, WritePlan, PlanInv, FrozenTogether, Resolving
<1>10. \A v \in Worker : Follows(task[v])'
  BY <1>2, <1>4, <1>5, <1>7 DEF Follows, Unplanned, Unloaded
<1>11. \A v \in Worker : Resolving(task[v])'
  <2>1. task[w].at = "items" => plan' = plan /\ items' = task[w].cut
    BY DEF WriteItems, WritePlan
  <2> QED
    BY <1>2, <1>4, <1>5, <2>1 DEF Resolving
<1> QED
  BY <1>6, <1>8, <1>9, <1>10, <1>11 DEF PlanInv

\* The other steps of a worker: it reads the plan, the items, the blocks and
\* the record, and what it makes from them goes back to the plan it read.
LEMMA WorkerPlan ==
    ASSUME WorkInv, PlanInv, NEW w \in Worker, Works(w)
    PROVE  PlanInv'
<1> USE DEF planVars, offsetVars, exportVars, driverVars, At, Goes, Unplanned, Unloaded
<1>1. /\ task[w] \in Task /\ task \in [Worker -> Task] /\ Well(task[w])
      /\ Resolving(task[w]) /\ Follows(task[w]) /\ FrozenTogether
  BY DEF WorkInv, TypeOK, PlanInv
<1>2. PICK t \in Task : Well(t) /\ task' = [task EXCEPT ![w] = t]
  BY MoveType
<1>3. task'[w] = t
  BY <1>1, <1>2
<1>4. CASE Take(w)
  BY <1>4, TakePlan
<1>5. CASE WriteItems(w) \/ WritePlan(w)
  BY <1>5, ResolverPlan
<1>6. ASSUME t.unit \in {task[w].unit, None}, Resolving(t), Follows(t), queue' = queue,
             UNCHANGED planVars, FromPlan'
      PROVE  PlanInv'
  BY <1>2, <1>6, PlanKept
<1>7. ASSUME t = Idle, queue' = queue, UNCHANGED planVars, FromPlan'
      PROVE  PlanInv'
  BY <1>6, <1>7 DEF Idle, Resolving, Follows
<1>8. ASSUME UNCHANGED <<planVars, offsetVars, exportVars>> PROVE FromPlan'
  BY <1>8 DEF PlanInv, FromPlan
<1>9. CASE ReadPlan(w)
  <2>1. t = [task[w] EXCEPT !.cut = plan, !.at = "open"]
    BY <1>1, <1>3, <1>9 DEF ReadPlan
  <2>2. t.unit = task[w].unit /\ Resolving(t) /\ Follows(t)
    BY <1>1, <1>9, <2>1 DEF ReadPlan, Resolving, Follows, Task
  <2> QED
    BY <1>6, <1>8, <1>9, <2>2 DEF ReadPlan
<1>10. CASE ReadItems(w)
  <2>1. task[w].unit \in Unit
    BY <1>1, <1>10 DEF ReadItems, Well, Task
  <2>2. StageOf(w) \in {"offsets", "composite", "export"}
    BY <2>1, UnitShape DEF StageOf, Stage
  <2>3. /\ t.unit = task[w].unit /\ t.cut = task[w].cut /\ t.uses = task[w].uses
        /\ t.scenes = items /\ t.at \in {"reduce", "check", "export"}
    BY <1>1, <1>3, <1>10, <2>2 DEF ReadItems, Task
  <2>4. Resolving(t) /\ Follows(t)
    BY <1>1, <1>10, <2>3 DEF ReadItems, Resolving, Follows, FrozenTogether
  <2> QED
    BY <1>6, <1>8, <1>10, <2>3, <2>4 DEF ReadItems
<1>11. CASE LookForPlan(w)
  <2>1. task[w].unit \in Unit /\ task[w].unit[1] = "offsets"
    BY <1>1, <1>11 DEF LookForPlan, Well, Task, OffsetsPlace
  <2>2. Resolves(IndexOf(w)) => task[w].unit = <<"offsets", 0>>
    BY <2>1, UnitShape DEF Resolves, IndexOf
  <2>3. /\ t.unit = task[w].unit /\ t.uses = task[w].uses
        /\ \/ t.at = "read"
           \/ t.at = "items" /\ plan = None /\ Resolves(IndexOf(w))
    <3>1. CASE Goes(w, "read")
      BY <1>1, <1>3, <3>1 DEF Task
    <3>2. CASE /\ Resolves(IndexOf(w)) /\ plan = None
               /\ \E s \in SceneSet : task' = [task EXCEPT ![w].cut = s, ![w].at = "items"]
      <4>1. PICK s \in SceneSet : task' = [task EXCEPT ![w].cut = s, ![w].at = "items"]
        BY <3>2
      <4>2. t = [task[w] EXCEPT !.cut = s, !.at = "items"]
        BY <1>1, <1>3, <4>1
      <4> QED
        BY <1>1, <3>2, <4>2 DEF Task
    <3> QED
      BY <1>11, <3>1, <3>2 DEF LookForPlan, Resolves
  <2>4. Resolving(t) /\ Follows(t)
    BY <1>1, <2>2, <2>3 DEF Resolving, Follows
  <2> QED
    BY <1>6, <1>8, <1>11, <2>3, <2>4 DEF LookForPlan
<1>12. ASSUME NEW at \in Place, Goes(w, at), queue' = queue, UNCHANGED planVars, FromPlan',
              at \notin {"items", "plan"}, task[w].at \notin Unloaded
       PROVE  PlanInv'
  <2>1. /\ t.unit = task[w].unit /\ t.cut = task[w].cut /\ t.uses = task[w].uses
        /\ t.scenes = task[w].scenes /\ t.at = at
    BY <1>1, <1>3, <1>12 DEF Task
  <2>2. Resolving(t) /\ Follows(t)
    BY <1>1, <1>12, <2>1 DEF Resolving, Follows
  <2> QED
    BY <1>6, <1>12, <2>1, <2>2
<1>13. ASSUME Leaves(w) PROVE t = Idle
  BY <1>1, <1>3, <1>13 DEF Leaves
<1>14. CASE CheckBlocks(w) \/ CheckBand(w) \/ Claim(w)
  BY <1>7, <1>8, <1>12, <1>13, <1>14 DEF CheckBlocks, CheckBand, Claim, Place
<1>15. CASE Sign(w)
  BY <1>12, <1>15 DEF Sign, Place, PlanInv, FromPlan
<1>16. CASE PublishBlocks(w)
  <2>1. {task[w].scenes} \subseteq {plan}
    BY <1>1, <1>16 DEF PublishBlocks, Follows
  <2>2. \A i \in RefShard : ref'[i] \subseteq {plan}
    BY <1>16, <2>1 DEF PublishBlocks, WorkInv, TypeOK, PlanInv, FromPlan
  <2>3. FromPlan'
    BY <1>16, <2>2 DEF PublishBlocks, PlanInv, FromPlan
  <2> QED
    BY <1>12, <1>16, <2>3 DEF PublishBlocks, Place
<1>17. ASSUME NEW at \in Place, NEW u, task' = [task EXCEPT ![w].at = at, ![w].uses = u],
              u \subseteq {plan}, at \notin {"items", "plan"}, task[w].at \notin Unloaded,
              queue' = queue, UNCHANGED <<planVars, offsetVars, exportVars>>
       PROVE  PlanInv'
  <2>1. /\ t.unit = task[w].unit /\ t.cut = task[w].cut /\ t.uses = u
        /\ t.scenes = task[w].scenes /\ t.at = at
    BY <1>1, <1>3, <1>17 DEF Task
  <2>2. Resolving(t) /\ Follows(t)
    BY <1>1, <1>17, <2>1 DEF Resolving, Follows
  <2> QED
    BY <1>6, <1>8, <1>17, <2>1, <2>2
<1>18. CASE PassBarrier(w)
  <2> DEFINE u == {task[w].scenes} \cup UNION {ref[i] : i \in RefShard}
  <2>1. u \subseteq {plan}
    BY <1>1, <1>18 DEF PassBarrier, Follows, PlanInv, FromPlan
  <2>2. \/ Leaves(w)
        \/ task' = [task EXCEPT ![w].at = "partial", ![w].uses = u]
    BY <1>18 DEF PassBarrier
  <2> HIDE DEF u
  <2> QED
    BY <1>7, <1>8, <1>13, <1>17, <1>18, <2>1, <2>2 DEF PassBarrier, Place
<1>19. CASE UseRecord(w)
  <2> DEFINE u == record[task[w].cut] \cup {task[w].scenes}
  <2>1. u \subseteq {plan}
    <3>1. task[w].cut \in SceneSet
      BY <1>1, <1>19 DEF UseRecord, Well
    <3> QED
      BY <1>1, <1>19, <3>1 DEF UseRecord, Follows, PlanInv, FromPlan
  <2>2. task' = [task EXCEPT ![w].at = "band", ![w].uses = u]
    BY <1>19 DEF UseRecord
  <2> HIDE DEF u
  <2> QED
    BY <1>17, <1>19, <2>1, <2>2 DEF UseRecord, Place
<1>20. CASE WritePartial(w)
  <2>1. \A i \in SceneShard : partial'[i].uses \subseteq {plan}
    BY <1>1, <1>20 DEF WritePartial, WorkInv, TypeOK, Follows, PlanInv, FromPlan
  <2>2. FromPlan'
    BY <1>20, <2>1 DEF WritePartial, PlanInv, FromPlan
  <2> QED
    BY <1>7, <1>13, <1>20, <2>2 DEF WritePartial
<1>21. CASE WriteBand(w)
  <2>1. \A i \in Band : band'[i] \subseteq {plan}
    BY <1>1, <1>21 DEF WriteBand, WorkInv, TypeOK, Follows, PlanInv, FromPlan
  <2>2. FromPlan'
    BY <1>21, <2>1 DEF WriteBand, PlanInv, FromPlan
  <2> QED
    BY <1>12, <1>21, <2>2 DEF WriteBand, Place
<1>22. CASE Export(w)
  <2>1. FromPlan'
    BY <1>22 DEF Export, PlanInv, FromPlan
  <2> QED
    BY <1>7, <1>13, <1>22, <2>1 DEF Export
<1>23. CASE Stop(w)
  BY <1>7, <1>8, <1>13, <1>23 DEF Stop
<1> QED
  BY <1>4, <1>5, <1>9, <1>10, <1>11, <1>14, <1>15, <1>16, <1>18, <1>19, <1>20, <1>21, <1>22, <1>23
     DEF Works, Offsets, Composite

\* Every step keeps to the one plan.
LEMMA NextPlan == ~Repeats /\ WorkInv /\ PlanInv /\ [Next]_vars => PlanInv'
<1> SUFFICES ASSUME ~Repeats, WorkInv, PlanInv, [Next]_vars PROVE PlanInv'
  OBVIOUS
<1>1. CASE \E s \in Stage : Submit(s) \/ EndArray(s)
  BY <1>1, DriverPlan
<1>2. CASE Merge
  <2>1. "offsets" \in Stage
    BY DEF Stage
  <2> QED
    BY <1>2, <2>1, DriverPlan
<1>3. CASE \E w \in Worker : Works(w)
  BY <1>3, WorkerPlan
<1>4. CASE UNCHANGED vars
  BY <1>4 DEF vars, driverVars, planVars, offsetVars, exportVars, PlanInv, OneOwner, FrozenTogether,
              Resolving, Follows, FromPlan
<1> QED
  BY <1>1, <1>2, <1>3, <1>4 DEF Next, Works

\* While running units are not asked for again there is one plan.
LEMMA AlwaysPlan == ~Repeats => (Spec => []PlanInv)
<1> SUFFICES ASSUME ~Repeats PROVE Spec => []PlanInv
  OBVIOUS
<1> QED
  BY InitPlan, NextPlan, AlwaysWork, PTL DEF Spec

\* While no unit is asked for that a worker still runs, a plan in the bucket is
\* the plan of the items in the bucket, through the death of the shard that
\* resolves and its repetition (resolve_tile_plan, "Items first").
THEOREM PlanIsFrozen == ~Repeats => (Spec => []FrozenTogether)
<1>1. PlanInv => FrozenTogether
  BY DEF PlanInv
<1> QED
  BY <1>1, AlwaysPlan, PTL

\* While no unit is asked for that a worker still runs, a tile's climatology,
\* offsets, bands and COGs all go back to one answer of the live catalog, for any number of
\* machines and shards, whatever is killed and asked for again
\* (run_offsets_stage: "Exactly one process may do this").
THEOREM TileIsOfOneSceneSet == ~Repeats => (Spec => []OneSceneSet)
<1>1. ASSUME PlanInv PROVE OneSceneSet
  <2>1. UNION Artifacts \subseteq {plan}
    BY <1>1 DEF PlanInv, FromPlan, Artifacts
  <2>2. IsFiniteSet({plan}) /\ Cardinality({plan}) = 1
    BY FS_Singleton
  <2>3. Cardinality(UNION Artifacts) \in Nat /\ Cardinality(UNION Artifacts) <= 1
    <3>1. /\ IsFiniteSet(UNION Artifacts)
          /\ Cardinality(UNION Artifacts) <= Cardinality({plan})
      BY <2>1, <2>2, FS_Subset
    <3> QED
      BY <2>2, <3>1, FS_CardinalityType
  <2> QED
    BY <2>3 DEF OneSceneSet
<1> QED
  BY <1>1, AlwaysPlan, PTL
=============================================================================
