----------------------------- MODULE FleetTile ------------------------------
(***************************************************************************)
(* The barrier half of the fleet driver (fleet_driver.TileTrack, PollIndex *)
(* and the batching of FleetDriver): how each tile of a run walks through  *)
(* offsets, merge, composite and export, when it asks for units, and how   *)
(* what it asks for becomes a wave.                                        *)
(*                                                                         *)
(* A poll lists the run's prefix once, asks which arrays are gone, steps   *)
(* every tile against that listing, then flushes the buffered demands.     *)
(* The bucket moves on meanwhile, and the driver may be killed anywhere.   *)
(* Capacity, which decides whether a flush finds headroom, is modelled by  *)
(* FleetCapacity; here a stage that could be flushed may be passed over.   *)
(*                                                                         *)
(* A wave's clock is "fresh", past the deadline its records carry          *)
(* ("overdue"), or past a further boot ("stranded").  The horizons are     *)
(* crossed between the steps of a poll, not within them.                   *)
(***************************************************************************)
EXTENDS Integers, FiniteSets

CONSTANTS
    Tile,           \* the roster
    FleetUnits,     \* shards.offsets_fleet_units, fixed before a plan exists
    Scenes,         \* plan.scene_shards: partials the offsets stage leaves
    Bands,          \* len(plan.bands)
    OverlapAt,      \* partials that start the composite early
    Rounds,         \* settings.shard_barrier_rounds
    MaxWaves,       \* bound: waves submitted in the run
    ListingFails,   \* a shared listing may fail
    RecordFails     \* a tile's submission record may fail to be written

ASSUME TileAssumption ==
    /\ IsFiniteSet(Tile)
    /\ FleetUnits \in Nat \ {0}
    /\ Scenes \in 1 .. FleetUnits
    /\ Bands \in Nat \ {0}
    /\ OverlapAt \in 1 .. Scenes
    /\ Rounds \in Nat \ {0}
    /\ MaxWaves \in Nat \ {0}
    /\ ListingFails \in BOOLEAN
    /\ RecordFails \in BOOLEAN

Stage == {"offsets", "composite", "export"}

\* WAVE_STAGES, the order in which a poll tries to flush them.
Turn(s) == CASE s = "offsets" -> 1 [] s = "composite" -> 2 [] s = "export" -> 3

Phase == {"offsets", "merge", "composite", "export", "done", "failed"}
Terminal == {"done", "failed"}

Index == 1 .. (FleetUnits + Bands)
Wave == Stage \X (1 .. MaxWaves)
Unit == Tile \X Index
Horizon == {"fresh", "overdue", "stranded"}

\* _expected_keys: the units that leave an artifact, once a plan names them.
Expected(s) ==
    CASE s = "offsets" -> 1 .. Scenes [] s = "composite" -> 1 .. Bands [] s = "export" -> {1}

\* What a tile asks for: the units, and the barrier round they belong to.
Demand == [indexes : SUBSET Index, round : 0 .. Rounds]
NoDemand == [indexes |-> {}, round |-> 0]

VARIABLES
    pc,         \* where the driver process is in run()
    at,         \* the flush loop's place in WAVE_STAGES
    ready,      \* tiles still to step in this poll
    phase,      \* track.stage, or how its outcome ended
    planRead,   \* tiles whose plan the driver holds
    overlapped, \* tiles whose composite was demanded from inside the offsets stage
    lapsed,     \* tiles whose export claim has had its time
    watched,    \* a tile has looked for its COGs, so their prefix is listed too
    seen,       \* the listing: artifacts of each tile and stage
    seenRounds, \* the listing: submission records of each tile and stage
    buffer,     \* _buffer: demands waiting for a wave
    live,       \* _live: waves the driver charges
    dead,       \* _dead_identities
    plan,       \* bucket: tiles whose plan is published
    art,        \* bucket: artifacts of each tile and stage
    merged,     \* bucket: tiles whose offsets record is written
    claimed,    \* bucket: tiles whose export is claimed
    rec,        \* bucket: the wave each round's submission record names, 0 if none
    units,      \* bucket: the units in each wave's record
    running,    \* substrate: units each array has not finished
    exporting,  \* substrate: arrays running a tile's export under its claim
    clk         \* which of its horizons each wave has passed

driverVars == <<pc, at, ready, phase, planRead, overlapped, lapsed, watched, seen,
                seenRounds, buffer, live, dead>>
bucketVars == <<plan, art, merged, claimed, rec, units>>
substrateVars == <<running, exporting>>
vars == <<driverVars, bucketVars, substrateVars, clk>>

TypeOK ==
    /\ pc \in {"down", "list", "census", "step", "flush", "submit", "ended"}
    /\ at \in 1 .. 4
    /\ ready \in SUBSET Tile
    /\ phase \in [Tile -> Phase]
    /\ planRead \in SUBSET Tile
    /\ overlapped \in SUBSET Tile
    /\ lapsed \in SUBSET Tile
    /\ watched \in BOOLEAN
    /\ seen \in [Tile -> [Stage -> SUBSET Index]]
    /\ seenRounds \in [Tile -> [Stage -> 0 .. Rounds]]
    /\ buffer \in [Stage -> [Tile -> Demand]]
    /\ live \in SUBSET Wave
    /\ dead \in SUBSET Wave
    /\ plan \in SUBSET Tile
    /\ art \in [Tile -> [Stage -> SUBSET Index]]
    /\ merged \in SUBSET Tile
    /\ claimed \in SUBSET Tile
    /\ rec \in [Tile -> [Stage -> [1 .. Rounds -> 0 .. MaxWaves]]]
    /\ units \in [Wave -> SUBSET Unit]
    /\ running \in [Wave -> SUBSET Unit]
    /\ exporting \in SUBSET (Wave \X Tile)
    /\ clk \in [Wave -> Horizon]

-----------------------------------------------------------------------------
(* The driver process.                                                     *)

NothingListed == [t \in Tile |-> [s \in Stage |-> {}]]
NoRounds == [t \in Tile |-> [s \in Stage |-> 0]]

Init ==
    /\ pc = "down"
    /\ at = 1
    /\ ready = {}
    /\ phase = [t \in Tile |-> "offsets"]
    /\ planRead = {}
    /\ overlapped = {}
    /\ lapsed = {}
    /\ watched = FALSE
    /\ seen = NothingListed
    /\ seenRounds = NoRounds
    /\ buffer = [s \in Stage |-> [t \in Tile |-> NoDemand]]
    /\ live = {}
    /\ dead = {}
    /\ plan = {}
    /\ art = NothingListed
    /\ merged = {}
    /\ claimed = {}
    /\ rec = [t \in Tile |-> [s \in Stage |-> [r \in 1 .. Rounds |-> 0]]]
    /\ units = [w \in Wave |-> {}]
    /\ running = [w \in Wave |-> {}]
    /\ exporting = {}
    /\ clk = [w \in Wave |-> "fresh"]

\* What a process that starts knows of the tiles: nothing.
Forgotten ==
    /\ at' = 1
    /\ ready' = {}
    /\ phase' = [t \in Tile |-> "offsets"]
    /\ planRead' = {}
    /\ overlapped' = {}
    /\ lapsed' = {}
    /\ watched' = FALSE
    /\ seen' = NothingListed
    /\ seenRounds' = NoRounds
    /\ buffer' = [s \in Stage |-> [t \in Tile |-> NoDemand]]
    /\ dead' = {}

Recorded == {w \in Wave : units[w] # {}}

\* drive_fleet or resume_fleet: every recorded wave is adopted, every tile
\* starts over at its first stage.
Adopt ==
    /\ pc = "down"
    /\ pc' = "list"
    /\ live' = Recorded
    /\ Forgotten
    /\ UNCHANGED <<bucketVars, substrateVars, clk>>

Crash ==
    /\ pc \notin {"down", "ended"}
    /\ pc' = "down"
    /\ live' = {}
    /\ Forgotten
    /\ UNCHANGED <<bucketVars, substrateVars, clk>>

-----------------------------------------------------------------------------
(* A poll: the listing, the census, then every tile.                       *)

\* Only the rounds whose wave this driver still charges.
RoundsCharged(t, s) ==
    Cardinality({r \in 1 .. Rounds : rec[t][s][r] # 0 /\ <<s, rec[t][s][r]>> \in live})

RoundsOf(t, s) == Cardinality({r \in 1 .. Rounds : rec[t][s][r] # 0})

\* index.refresh: one listing of the run's prefix and, once watched, one of the
\* COGs'.  A listing that fails is served as an empty one.
Refresh ==
    /\ pc = "list"
    /\ pc' = "census"
    /\ \E runFails, cogsFail \in BOOLEAN :
          /\ ListingFails \/ ~(runFails \/ cogsFail)
          /\ seen' = [t \in Tile |-> [s \in Stage |->
                        IF (IF s = "export" THEN cogsFail ELSE runFails) THEN {} ELSE art[t][s]]]
          /\ seenRounds' = IF runFails THEN NoRounds
                           ELSE [t \in Tile |-> [s \in Stage |-> RoundsOf(t, s)]]
    /\ UNCHANGED <<at, ready, phase, planRead, overlapped, lapsed, watched, buffer, live, dead,
                   bucketVars, substrateVars, clk>>

\* An array whose units are all finished or lost is gone.
Gone(w) == running[w] = {} /\ ~ \E t \in Tile : <<w, t>> \in exporting

\* Every unit of the wave is listed, or has nothing to publish.
Landed(w) ==
    \A u \in units[w] : /\ u[1] \in planRead
                        /\ u[2] \in seen[u[1]][w[1]] \/ u[2] \notin Expected(w[1])

\* take_census, _probe and _retire: arrays found gone are discharged and their
\* records declared dead; without a census, a wave that has landed is too old to
\* charge.  A control plane may miss an array that is gone, never invent one.
Census ==
    /\ pc = "census"
    /\ pc' = "step"
    /\ \E found \in SUBSET {w \in live : Gone(w)}, landed \in SUBSET {w \in live : Landed(w)} :
          /\ live' = live \ (found \cup landed)
          /\ dead' = dead \cup found
    /\ ready' = {t \in Tile : phase[t] \notin Terminal}
    /\ UNCHANGED <<at, phase, planRead, overlapped, lapsed, watched, seen, seenRounds, buffer,
                   bucketVars, substrateVars, clk>>

\* _settle_stragglers.
SettleStragglers ==
    phase' = [t \in Tile |-> IF phase[t] \in Terminal THEN phase[t] ELSE "failed"]

\* _abandon_stranded, when every wave holding capacity is stranded.
Abandon ==
    /\ pc = "step"
    /\ ready = {t \in Tile : phase[t] \notin Terminal}
    /\ live # {} /\ \A w \in live : clk[w] = "stranded"
    /\ SettleStragglers
    /\ pc' = "ended"
    /\ ready' = {}
    /\ UNCHANGED <<at, planRead, overlapped, lapsed, watched, seen, seenRounds, buffer, live, dead,
                   bucketVars, substrateVars, clk>>

-----------------------------------------------------------------------------
(* One tile's step.                                                        *)

Missing(t, s) == Expected(s) \ seen[t][s]

\* Units of waves inside their deadline only, and units of every wave.
HeldInTime(t, s) ==
    {i \in Index : \E w \in live : w[1] = s /\ clk[w] = "fresh" /\ <<t, i>> \in units[w]}
HeldForever(t, s) == {i \in Index : \E w \in live : w[1] = s /\ <<t, i>> \in units[w]}

\* _publish_held_units: units a live wave carries, stranded waves left out.
Held(t, s) ==
    {i \in Index : \E w \in live : w[1] = s /\ clk[w] # "stranded" /\ <<t, i>> \in units[w]}

\* The submission record of the latest round listed, and whether it still lives.
Latest(t, s) == <<s, rec[t][s][seenRounds[t][s]]>>
IsLive(t, s) ==
    seenRounds[t][s] > 0 /\ Latest(t, s) \notin dead /\ clk[Latest(t, s)] = "fresh"

\* _demand: nothing is wanted while a wave holds the units or a record lives.
Wanted(t, s, indexes) == IF IsLive(t, s) THEN {} ELSE indexes \ Held(t, s)

\* One round more than the budget.
BudgetOverrun(t, s) == seenRounds[t][s] > Rounds

BudgetSpent(t, s) == seenRounds[t][s] >= Rounds

Exhausted(t, s, indexes) == Wanted(t, s, indexes) # {} /\ BudgetSpent(t, s)

\* _buffer_demand: a tile's newer demand replaces its older one.
Buffered(b, t, s, indexes) ==
    IF Wanted(t, s, indexes) = {} \/ BudgetSpent(t, s) THEN b
    ELSE [b EXCEPT ![s][t] = [indexes |-> Wanted(t, s, indexes),
                              round |-> seenRounds[t][s] + 1]]

Failing(t, fails) == IF fails THEN [phase EXCEPT ![t] = "failed"] ELSE phase

Stepping(t) == pc = "step" /\ t \in ready

\* The tile's turn is over with this demand: buffered, not wanted, or one round
\* too many.
Asks(t, s, indexes) ==
    /\ buffer' = Buffered(buffer, t, s, indexes)
    /\ phase' = Failing(t, Exhausted(t, s, indexes))
    /\ ready' = ready \ {t}

\* _advance, which lets the tile step on within the same poll.
Advances(t, next) ==
    /\ phase' = [phase EXCEPT ![t] = next]
    /\ UNCHANGED <<ready, buffer>>

\* _step_offsets before shard 0 has published a plan: the whole fleet is wanted.
StepBootstrap(t) ==
    /\ Stepping(t) /\ phase[t] = "offsets"
    /\ t \notin planRead \cup plan
    /\ Asks(t, "offsets", 1 .. FleetUnits)
    /\ UNCHANGED <<pc, at, planRead, overlapped, lapsed, watched, seen, seenRounds, live, dead,
                   bucketVars, substrateVars, clk>>

\* _overlap_ready: enough partials for the composite to start early, once.
Overlaps(t) ==
    /\ t \notin overlapped
    /\ Cardinality(seen[t]["offsets"] \cap Expected("offsets")) >= OverlapAt
    /\ Missing(t, "composite") # {}

\* _step_offsets with partials missing.
StepOffsets(t) ==
    /\ Stepping(t) /\ phase[t] = "offsets"
    /\ t \in planRead \cup plan
    /\ planRead' = planRead \cup {t}
    /\ LET missing == Missing(t, "offsets")
           bands == Missing(t, "composite")
           early == IF Overlaps(t) THEN Buffered(buffer, t, "composite", bands) ELSE buffer
       IN  /\ missing # {}
           /\ buffer' = Buffered(early, t, "offsets", missing)
           /\ phase' = Failing(t, \/ Exhausted(t, "offsets", missing)
                                  \/ Overlaps(t) /\ Exhausted(t, "composite", bands))
           /\ overlapped' = IF early = buffer THEN overlapped ELSE overlapped \cup {t}
    /\ ready' = ready \ {t}
    /\ UNCHANGED <<pc, at, lapsed, watched, seen, seenRounds, live, dead,
                   bucketVars, substrateVars, clk>>

OffsetsDone(t) ==
    /\ Stepping(t) /\ phase[t] = "offsets"
    /\ t \in planRead \cup plan
    /\ planRead' = planRead \cup {t}
    /\ Missing(t, "offsets") = {}
    /\ Advances(t, "merge")
    /\ UNCHANGED <<pc, at, overlapped, lapsed, watched, seen, seenRounds, live, dead,
                   bucketVars, substrateVars, clk>>

\* _step_merge: merge_offsets writes the offsets record, or raises, which fails
\* the tile.  OffsetCache.write swallows its errors, so the tile may also go on
\* without a record.
StepMerge(t) ==
    /\ Stepping(t) /\ phase[t] = "merge"
    /\ \/ /\ merged' \in {merged, merged \cup {t}}
          /\ Advances(t, "composite")
       \/ /\ phase' = [phase EXCEPT ![t] = "failed"]
          /\ ready' = ready \ {t}
          /\ UNCHANGED <<merged, buffer>>
    /\ UNCHANGED <<pc, at, planRead, overlapped, lapsed, watched, seen, seenRounds, live, dead,
                   plan, art, claimed, rec, units, substrateVars, clk>>

StepComposite(t) ==
    /\ Stepping(t) /\ phase[t] = "composite"
    /\ IF Missing(t, "composite") = {}
         THEN Advances(t, "export") /\ lapsed' = lapsed \ {t}
         ELSE Asks(t, "composite", Missing(t, "composite")) /\ UNCHANGED lapsed
    /\ UNCHANGED <<pc, at, planRead, overlapped, watched, seen, seenRounds, live, dead,
                   bucketVars, substrateVars, clk>>

\* cog_exists: from the listing once the prefix is watched, from the bucket before.
CogsSeen(t) == 1 \in (IF watched THEN seen[t]["export"] ELSE art[t]["export"])

\* _step_export: the tile is built, its claim still has time, or an export is wanted.
StepExport(t) ==
    /\ Stepping(t) /\ phase[t] = "export"
    /\ IF CogsSeen(t)
         THEN /\ phase' = [phase EXCEPT ![t] = "done"]
              /\ ready' = ready \ {t}
              /\ UNCHANGED buffer
         ELSE Asks(t, "export", IF t \in lapsed THEN {1} ELSE {})
    /\ UNCHANGED <<pc, at, planRead, overlapped, lapsed, watched, seen, seenRounds, live, dead,
                   bucketVars, substrateVars, clk>>

Step(t) ==
    \/ StepBootstrap(t) \/ StepOffsets(t) \/ OffsetsDone(t)
    \/ StepMerge(t) \/ StepComposite(t) \/ StepExport(t)

-----------------------------------------------------------------------------
(* Waves.                                                                  *)

\* Every tile has been stepped; the stages are tried in turn.
Flushing == pc = "flush" \/ (pc = "step" /\ ready = {})

Asking(s) == {t \in Tile : buffer[s][t].indexes # {}}
WavesOf(s) == {n \in 1 .. MaxWaves : units[<<s, n>>] # {}}

\* _flush up to the submission: one wave for every buffered demand of the stage,
\* each tile's record of its round, and the wave's own record.
Flush(s) ==
    /\ Flushing /\ at <= Turn(s)
    /\ Asking(s) # {}
    /\ Cardinality(Recorded) < MaxWaves
    /\ \E n \in 1 .. MaxWaves :
          /\ n = Cardinality(WavesOf(s)) + 1
          /\ units' = [units EXCEPT ![<<s, n>>] =
                          {u \in Unit : u[2] \in buffer[s][u[1]].indexes}]
          /\ live' = live \cup {<<s, n>>}
          /\ \E unwritten \in SUBSET Asking(s) :
                /\ RecordFails \/ unwritten = {}
                /\ rec' = [t \in Tile |->
                             IF t \in Asking(s) \ unwritten
                               THEN [rec[t] EXCEPT ![s][buffer[s][t].round] = n]
                               ELSE rec[t]]
    /\ buffer' = [buffer EXCEPT ![s] = [t \in Tile |-> NoDemand]]
    /\ pc' = "submit"
    /\ at' = Turn(s)
    /\ UNCHANGED <<ready, phase, planRead, overlapped, lapsed, watched, seen, seenRounds, dead,
                   plan, art, merged, claimed, substrateVars, clk>>

\* _submit_with_retries: the array starts, whether or not its answer comes back,
\* or no attempt starts one.
Submit ==
    /\ pc = "submit"
    /\ \E s \in Stage :
          /\ Turn(s) = at
          /\ LET w == <<s, Cardinality(WavesOf(s))>>
             IN  running' = [running EXCEPT ![w] = units[w]] \/ UNCHANGED running
    /\ pc' = "flush"
    /\ at' = at + 1
    /\ UNCHANGED <<ready, phase, planRead, overlapped, lapsed, watched, seen, seenRounds, buffer,
                   live, dead, bucketVars, exporting, clk>>

\* The stages not flushed had nothing buffered, were inside their batching
\* window, or found no headroom.  The run ends when every tile has an outcome;
\* otherwise the listing is not read again before the next poll replaces it.
EndPoll ==
    /\ Flushing
    /\ pc' = IF \A t \in Tile : phase[t] \in Terminal THEN "ended" ELSE "list"
    /\ at' = 1
    /\ seen' = NothingListed
    /\ seenRounds' = NoRounds
    /\ watched' = (watched \/ \E t \in Tile : phase[t] \in {"export", "done"})
    /\ UNCHANGED <<ready, phase, planRead, overlapped, lapsed, buffer, live, dead,
                   bucketVars, substrateVars, clk>>

\* The poll ceiling: every tile without an outcome is failed.
CeilingReached ==
    /\ pc = "list"
    /\ SettleStragglers
    /\ pc' = "ended"
    /\ UNCHANGED <<at, ready, planRead, overlapped, lapsed, watched, seen, seenRounds, buffer,
                   live, dead, bucketVars, substrateVars, clk>>

-----------------------------------------------------------------------------
(* The workers and the clock.                                              *)

\* Shard 0 of the offsets stage resolves the tile and publishes its plan.
PublishPlan(w, t) ==
    /\ w[1] = "offsets" /\ <<t, 1>> \in running[w]
    /\ t \notin plan
    /\ plan' = plan \cup {t}
    /\ UNCHANGED <<driverVars, art, merged, claimed, rec, units, substrateVars, clk>>

\* What a unit waits for before it computes.
InputsReady(s, t) ==
    CASE s = "offsets" -> t \in plan
      [] s = "composite" -> t \in merged
      [] s = "export" -> Expected("composite") \subseteq art[t]["composite"]

\* A unit publishes its artifact, or finds it there and exits.  The worker that
\* writes a tile's last band claims the export, unless the claim fails.
Publish(w, t, i) ==
    LET s == w[1]
        last == /\ s = "composite"
                /\ i \notin art[t][s]
                /\ Expected(s) \subseteq art[t][s] \cup {i}
                /\ t \notin claimed
    IN  /\ <<t, i>> \in running[w]
        /\ i \in Expected(s)
        /\ InputsReady(s, t)
        /\ art' = [art EXCEPT ![t][s] = @ \cup {i}]
        /\ running' = [running EXCEPT ![w] = @ \ {<<t, i>>}]
        /\ \/ /\ last
              /\ claimed' = claimed \cup {t}
              /\ exporting' = exporting \cup {<<w, t>>}
           \/ UNCHANGED <<claimed, exporting>>
        /\ UNCHANGED <<driverVars, plan, merged, rec, units, clk>>

\* A unit ends without an artifact: preempted, failed, out of time for its
\* inputs, or past the plan's shard count.
Lose(w, t, i) ==
    /\ <<t, i>> \in running[w]
    /\ running' = [running EXCEPT ![w] = @ \ {<<t, i>>}]
    /\ UNCHANGED <<driverVars, bucketVars, exporting, clk>>

\* The claiming worker exports the tile, or is preempted before it does.
ClaimedExport(w, t) ==
    /\ <<w, t>> \in exporting
    /\ exporting' = exporting \ {<<w, t>>}
    /\ art' = [art EXCEPT ![t]["export"] = {1}] \/ UNCHANGED art
    /\ UNCHANGED <<driverVars, plan, merged, claimed, rec, units, running, clk>>

\* A horizon is crossed while something still depends on it: the charge of a live
\* wave, or the record a tile's next demand would look at.
Timed(w) ==
    \/ w \in live /\ clk[w] # "stranded"
    \/ /\ clk[w] = "fresh" /\ w \notin dead
       /\ \E t \in Tile : RoundsOf(t, w[1]) > 0 /\ rec[t][w[1]][RoundsOf(t, w[1])] = w[2]

ClockRuns(w) ==
    /\ pc # "step"
    /\ Timed(w)
    /\ clk' = [clk EXCEPT ![w] = IF @ = "fresh" THEN "overdue" ELSE "stranded"]
    /\ UNCHANGED <<driverVars, bucketVars, substrateVars>>

\* shard_export_claim_fallback_s passes.
ClaimLapses(t) ==
    /\ pc # "step"
    /\ phase[t] = "export" /\ t \notin lapsed
    /\ lapsed' = lapsed \cup {t}
    /\ UNCHANGED <<pc, at, ready, phase, planRead, overlapped, watched, seen, seenRounds, buffer,
                   live, dead, bucketVars, substrateVars, clk>>

Clocks == (\E w \in Wave : ClockRuns(w)) \/ (\E t \in Tile : ClaimLapses(t))

Poll ==
    \/ Refresh \/ Census \/ Submit \/ EndPoll
    \/ \E t \in Tile : Step(t)

\* What happens after the run has ended is not followed.
World ==
    /\ pc # "ended"
    /\ \/ \E w \in Wave, t \in Tile :
             PublishPlan(w, t) \/ ClaimedExport(w, t)
             \/ \E i \in Index : Publish(w, t, i) \/ Lose(w, t, i)
       \/ Clocks

Next ==
    \/ Adopt \/ Crash \/ Poll \/ Abandon \/ CeilingReached
    \/ \E s \in Stage : Flush(s)
    \/ World

Spec == Init /\ [][Next]_vars

\* A driver that is up keeps polling, the clocks run on across its polls, and
\* stages that ask for units again and again find headroom in the end.  Nothing
\* makes a worker publish, and nothing makes the driver give up.
Fairness ==
    /\ WF_vars(Poll)
    /\ SF_vars(\E s \in Stage : Flush(s))
    /\ SF_vars(Clocks /\ pc # "ended")

FairSpec == Spec /\ Fairness

-----------------------------------------------------------------------------
(* Properties.                                                             *)

Carries(w, t) == \E i \in Index : <<t, i>> \in units[w]

\* The round budget is the tile's, not a driver's: however often the driver is
\* killed and resumed, no tile's stage is submitted in more waves than it has
\* barrier rounds.
RoundBudget ==
    \A t \in Tile, s \in Stage : Cardinality({n \in 1 .. MaxWaves : Carries(<<s, n>>, t)}) <= Rounds

\* A unit that some array is still running is submitted again only once that
\* array's wave is stranded, past the deadline its queue depth was given and a
\* further boot, whichever driver submitted it.
OnlyStrandedWorkIsRepeated ==
    [][\A s \in Stage : \A m, n \in 1 .. MaxWaves :
          units[<<s, n>>] = {} /\ units'[<<s, n>>] \cap running[<<s, m>>] # {}
             => clk[<<s, m>>] = "stranded"]_vars

\* A driver that is not killed brings its run to an end, with every tile either
\* completed or failed, even when no worker ever publishes anything.
RunEnds ==
    pc = "list" ~> \/ pc = "down"
                   \/ pc = "ended" /\ \A t \in Tile : phase[t] \in Terminal
=============================================================================
