---------------------------- MODULE DriveTile ----------------------------
(***************************************************************************)
(* The driver of one sharded tile (shard_driver.py): the fused offsets     *)
(* fleet, the wait for its plan, one StageMachine per barrier, the overlap *)
(* of the composite, the merge and the claimed export.  Drivers are killed *)
(* and resumed over one bucket, and its records of submissions may be lost *)
(* when they are written and missed when they are read.                    *)
(*                                                                         *)
(* Time is told by the age of a submission record and by what is left of a *)
(* driver's deadline; every deadline is Deadline ticks long.               *)
(***************************************************************************)
EXTENDS Naturals, FiniteSets, FiniteSetsExt

CONSTANTS
    Drivers,        \* bound: runs of drive_tile or resume_tile, one after another
    Rounds,         \* settings.shard_barrier_rounds
    Retries,        \* settings.shard_submit_retries
    Deadline,       \* every stage budget, in ticks
    Units,          \* scene shards of the offsets stage
    Overlap,        \* settings.shard_composite_overlap, in percent
    Failures        \* bound: reads and writes of submission records that fail

ASSUME DriveTileAssumption ==
    /\ {Drivers, Rounds, Retries, Deadline, Units} \subseteq Nat \ {0}
    /\ Overlap \in 0 .. 100
    /\ Failures \in Nat

Stage == {"offsets", "composite", "export"}
Round == 1 .. Rounds
Unit(s) == IF s = "offsets" THEN 1 .. Units ELSE {1}

VARIABLES
    drv,        \* the driver: place (STAGE_STATES, the bootstrap before and what
                \* follows), stage, round, ticks left, attempts, cluster, steps,
                \* composite_started, why
    begun,      \* drivers begun so far
    rec,        \* stage -> round -> age of its record, or NoRecord
    known,      \* stage -> rounds whose record names a cluster
    array,      \* stage -> round -> "none", "running" or "stopped"
    carries,    \* stage -> round -> units the array was given, none once it stopped
    plan,       \* plan.json is in the bucket
    art,        \* stage -> units whose artifacts are
    merged,     \* so is the offset record
    failed,     \* reads and writes of records that failed so far
    unread,     \* stages a driver found an older record of than there was
    unwritten   \* stages a record of which was dropped

bucket == <<rec, known, plan, art, merged>>
fleet == <<array, carries>>
lapses == <<failed, unread, unwritten>>
records == <<rec, known, lapses>>
vars == <<drv, begun, bucket, fleet, lapses>>

NoRecord == Deadline + 1
Off == [at |-> "off", stage |-> "offsets", round |-> 1, left |-> 0, tries |-> 0,
        cluster |-> 0, steps |-> 0, early |-> FALSE, why |-> ""]

Init ==
    /\ drv = Off
    /\ begun = 0
    /\ rec = [s \in Stage |-> [r \in Round |-> NoRecord]]
    /\ known = [s \in Stage |-> {}]
    /\ array = [s \in Stage |-> [r \in Round |-> "none"]]
    /\ carries = [s \in Stage |-> [r \in Round |-> {}]]
    /\ plan = FALSE
    /\ art = [s \in Stage |-> {}]
    /\ merged = FALSE
    /\ failed = 0
    /\ unread = {}
    /\ unwritten = {}

\* _missing, of the keys _expected_keys names.
Missing(s) == Unit(s) \ art[s]

\* The newest round on record, 0 for none.
Recorded(s) == {r \in Round : rec[s][r] # NoRecord}
Latest(s) == Max({0} \cup Recorded(s))

\* _submission_records, of which a driver uses the newest: a listing that fails
\* or a body that cannot be parsed yields no record.
Fallible == failed < Failures /\ failed' = failed + 1

Finds(s, r) ==
    \/ r = Latest(s) /\ UNCHANGED lapses
    \/ /\ r \in ({0} \cup Recorded(s)) \ {Latest(s)}
       /\ Fallible
       /\ unread' = unread \cup {s}
       /\ UNCHANGED unwritten

IsLiveOnceKnown(s, r) == r \in known[s] /\ rec[s][r] < Deadline
IsLive(s, r) == r # 0 /\ rec[s][r] < Deadline

Over == {"off", "done", "failed"}
At(place) == drv.at = place
Goes(place) == drv' = [drv EXCEPT !.at = place]
Fails(why) == drv' = [Off EXCEPT !.at = "failed", !.stage = drv.stage, !.why = why]
\* A barrier is entered at its first check.
Enters(s) == drv' = [Off EXCEPT !.at = "check", !.stage = s]

----------------------------------------------------------------------------
(* The bootstrap.                                                          *)

\* drive_tile, resume_tile: nothing before the plan can be resumed, so what
\* starts then is a drive with the token of the run.
DriverBegins ==
    /\ drv.at \in Over /\ begun < Drivers
    /\ begun' = begun + 1
    /\ drv' = [Off EXCEPT !.at = "begin"]
    /\ UNCHANGED <<bucket, fleet, lapses>>

\* Killed, or ended by an error of the bucket that nothing catches.
Killed ==
    /\ drv.at \notin Over
    /\ drv' = Off
    /\ UNCHANGED <<begun, bucket, fleet, lapses>>

\* ensure_started: the first round of the fused fleet unless it has a record of
\* any age, then the wait for the plan its shard 0 writes.
NeedsOffsets == ~plan \/ Missing("offsets") # {}
AfterStart ==
    IF plan THEN Enters("offsets") ELSE drv' = [drv EXCEPT !.at = "plan", !.left = Deadline]

StartOffsets ==
    /\ At("begin")
    /\ IF ~NeedsOffsets THEN AfterStart /\ UNCHANGED lapses
       ELSE \E r \in 0 .. Rounds :
            /\ Finds("offsets", r)
            /\ IF r = 0 THEN drv' = [drv EXCEPT !.at = "first", !.round = 1] ELSE AfterStart
    /\ UNCHANGED <<begun, bucket, fleet>>

\* _wait_for_plan.
SeePlan ==
    /\ At("plan")
    /\ IF plan THEN Enters("offsets")
       ELSE drv.left = 0 /\ Fails("no plan")
    /\ UNCHANGED <<begun, bucket, fleet, lapses>>

----------------------------------------------------------------------------
(* A submission: _start_round.                                             *)

STEPS == 4 * Rounds + 4
Looping == drv.steps < STEPS
Stepped == drv.steps + 1

\* The overlap submits the first round of another stage.
Overlapping == {"early", "overlapping"}
StageOf == IF drv.at \in Overlapping THEN "composite" ELSE drv.stage
RoundOf == IF drv.at \in Overlapping THEN 1 ELSE drv.round

\* _record_submission: before the array, and again once its cluster is known.  A
\* write that fails is logged and dropped.
RecordedNow(s, r) == [rec EXCEPT ![s][r] = 0]

Records(s, r, clusters) ==
    \/ /\ rec' = RecordedNow(s, r)
       /\ known' = [known EXCEPT ![s] = clusters]
       /\ UNCHANGED lapses
    \/ /\ Fallible
       /\ unwritten' = unwritten \cup {s}
       /\ UNCHANGED <<rec, known, unread>>

StartRound ==
    /\ drv.at \in {"first", "submit", "early"}
    /\ IF At("submit") /\ ~Looping THEN Goes("check") /\ UNCHANGED records
       ELSE /\ Records(StageOf, RoundOf, known[StageOf] \ {RoundOf})
            /\ drv' = [drv EXCEPT
                   !.at = CASE At("first") -> "starting"
                            [] At("submit") -> "submitting"
                            [] At("early") -> "overlapping",
                   !.steps = IF At("submit") THEN Stepped ELSE @]
    /\ UNCHANGED <<begun, plan, art, merged, fleet>>

Submitting == {"starting", "submitting", "overlapping"}

\* Where a submission that went through leaves the driver: a barrier opens its
\* round with a deadline of its own.
AfterSubmission(r) ==
    drv' = [drv EXCEPT
        !.tries = 0,
        !.at = CASE At("starting") -> IF plan THEN "check" ELSE "plan"
                 [] At("submitting") -> "watch"
                 [] At("overlapping") -> "probe",
        !.left = CASE At("starting") -> IF plan THEN 0 ELSE Deadline
                   [] At("submitting") -> Deadline
                   [] At("overlapping") -> @,
        !.cluster = IF At("submitting") THEN r ELSE @,
        !.early = @ \/ At("overlapping")]

\* The units of a round: all of them for a first round made outside a barrier.
Asked == IF At("submitting") THEN Missing(StageOf) ELSE Unit(StageOf)

\* batch_run refuses a name that a running cluster has.
Free == array[StageOf][RoundOf] # "running"

Starts ==
    /\ array' = [array EXCEPT ![StageOf][RoundOf] = "running"]
    /\ carries' = [carries EXCEPT ![StageOf][RoundOf] = Asked]

SubmitAnswers ==
    /\ drv.at \in Submitting /\ Free
    /\ Starts
    /\ Records(StageOf, RoundOf, known[StageOf] \cup {RoundOf})
    /\ AfterSubmission(RoundOf)
    /\ UNCHANGED <<begun, plan, art, merged>>

\* An attempt that raises, terminally or for the last time, ends the driver; the
\* overlap hook swallows it.
GivesUp ==
    IF At("overlapping") THEN drv' = [drv EXCEPT !.at = "probe", !.tries = 0]
    ELSE Fails("not submitted")

\* The attempts of one submission are numbered from zero.
TriesAgain == drv.tries + 1 < Retries

SubmitRaises ==
    /\ drv.at \in Submitting
    /\ \/ GivesUp
       \/ TriesAgain /\ drv' = [drv EXCEPT !.tries = @ + 1]
    /\ \/ Free /\ Starts      \* the answer was lost
       \/ UNCHANGED fleet
    /\ UNCHANGED <<begun, bucket, lapses>>

----------------------------------------------------------------------------
(* StageMachine.run.                                                       *)

Settles ==
    IF drv.stage = "export" THEN drv' = [Off EXCEPT !.at = "done"]
    ELSE drv' = [Off EXCEPT !.stage = drv.stage,
                    !.at = IF drv.stage = "offsets" THEN "merge" ELSE "claim",
                    !.left = IF drv.stage = "offsets" THEN 0 ELSE Deadline]

\* The budget is read back from the records, whoever wrote them.
Check ==
    LET s == drv.stage IN
    /\ At("check")
    /\ IF Missing(s) = {} THEN Settles /\ UNCHANGED lapses
       ELSE IF ~Looping THEN Fails("exhausted") /\ UNCHANGED lapses
       ELSE \E r \in 0 .. Rounds :
            /\ Finds(s, r)
            /\ IF IsLive(s, r)
               THEN drv' = [drv EXCEPT !.at = "adopt", !.steps = Stepped]
               ELSE IF r + 1 \notin Round THEN Fails("exhausted")
               ELSE drv' = [drv EXCEPT !.at = "submit", !.steps = Stepped, !.round = r + 1]
    /\ UNCHANGED <<begun, bucket, fleet>>

\* What is left to an adopted round: of its own record, not of the first one's.
SinceFirstRecord(s, r) == Deadline - Min({Deadline, rec[s][1]})
SinceItsRecord(s, r) == Deadline - Min({Deadline, rec[s][r]})

\* The records are read a second time, and the last of none is an IndexError.
Adopt ==
    LET s == drv.stage IN
    /\ At("adopt")
    /\ IF ~Looping THEN Goes("check") /\ UNCHANGED lapses
       ELSE \E r \in 0 .. Rounds :
            /\ Finds(s, r)
            /\ IF r = 0 THEN Fails("unread")
               ELSE drv' = [drv EXCEPT !.at = "watch", !.steps = Stepped,
                               !.left = SinceItsRecord(s, r),
                               !.cluster = IF r \in known[s] THEN r ELSE 0]
    /\ UNCHANGED <<begun, bucket, fleet>>

\* _watch: a listing, then the hook the offsets barrier has.
Watch ==
    LET s == drv.stage IN
    /\ At("watch")
    /\ IF Missing(s) = {} THEN Settles
       ELSE Goes(IF s = "offsets" THEN "hook" ELSE "probe")
    /\ UNCHANGED <<begun, bucket, fleet, lapses>>

\* _overlap_ready: the share of the scene partials that must be there.
Needed == Max({1, (Overlap * Units + 99) \div 100})
FirstIsEnough == art["offsets"] # {}
OverlapReady == Cardinality(art["offsets"]) >= Needed

\* _overlap, once per driver and over a listing of its own; whatever it raises
\* is swallowed.
Hook ==
    /\ At("hook")
    /\ \/ (drv.early \/ ~OverlapReady) /\ Goes("probe") /\ UNCHANGED lapses
       \/ ~drv.early /\ OverlapReady /\ \E r \in 0 .. Rounds :
              Finds("composite", r) /\ Goes(IF r = 0 THEN "early" ELSE "probe")
       \/ ~drv.early /\ Fallible /\ Goes("probe") /\ UNCHANGED <<unread, unwritten>>
    /\ UNCHANGED <<begun, bucket, fleet>>

\* _check_fleet_alive: a cluster that is gone is checked against the bucket once
\* more; a probe may also know nothing.
StillMissing(s) == Missing(s) # {}

\* The deadline of the round in hand.
ExpiredOnceSubmitted == drv.left = 0 /\ drv.cluster # 0
Expired == drv.left = 0

Probe ==
    LET s == drv.stage
        dead == drv.cluster # 0 /\ array[s][drv.cluster] = "stopped"
    IN
    /\ At("probe")
    /\ \/ dead /\ StillMissing(s) /\ Fails("killed")
       \/ IF Expired
          THEN drv' = [drv EXCEPT !.at = "check", !.steps = Stepped]
          ELSE Goes("watch")
    /\ UNCHANGED <<begun, bucket, fleet, lapses>>

\* merge_offsets runs in the driver, and the composite barrier follows.
Merge ==
    /\ At("merge")
    /\ merged' = TRUE
    /\ Enters("composite")
    /\ UNCHANGED <<begun, rec, known, plan, art, fleet, lapses>>

\* _await_export: the claim of a worker is waited for, then the stage submitted.
AwaitExport ==
    /\ At("claim")
    /\ IF Missing("export") = {}
       THEN drv' = [Off EXCEPT !.at = "done"]
       ELSE drv.left = 0 /\ Enters("export")
    /\ UNCHANGED <<begun, bucket, fleet, lapses>>

----------------------------------------------------------------------------
(* The fleet and the clock.                                                *)

\* Workers of one array; the last composite worker may run the export as well.
InputsReady(s, u) ==
    CASE s = "offsets" -> plan
      [] s = "composite" -> merged
      [] s = "export" -> Missing("composite") = {}

Publish(s, r, u) ==
    /\ array[s][r] = "running" /\ u \in carries[s][r] \cap Missing(s)
    /\ IF s = "offsets" /\ ~plan
       THEN u = 1 /\ plan' = TRUE /\ UNCHANGED art
       ELSE /\ InputsReady(s, u)
            /\ \/ art' = [art EXCEPT ![s] = @ \cup {u}]
               \/ /\ s = "composite" /\ Missing(s) = {u}
                  /\ art' = [art EXCEPT ![s] = @ \cup {u}, !["export"] = {1}]
            /\ UNCHANGED plan
    /\ UNCHANGED <<drv, begun, rec, known, merged, fleet, lapses>>

ArrayStops(s, r) ==
    /\ array[s][r] = "running"
    /\ array' = [array EXCEPT ![s][r] = "stopped"]
    /\ carries' = [carries EXCEPT ![s][r] = {}]
    /\ UNCHANGED <<drv, begun, bucket, lapses>>

Tick ==
    /\ rec' = [s \in Stage |-> [r \in Round |->
                  IF rec[s][r] < Deadline THEN rec[s][r] + 1 ELSE rec[s][r]]]
    /\ drv' = [drv EXCEPT !.left = IF @ > 0 THEN @ - 1 ELSE 0]
    /\ UNCHANGED <<begun, known, plan, art, merged, fleet, lapses>>

DriverStep ==
    \/ StartOffsets \/ SeePlan \/ StartRound \/ SubmitAnswers \/ SubmitRaises
    \/ Check \/ Adopt \/ Watch \/ Hook \/ Probe
    \/ Merge \/ AwaitExport

Next ==
    \/ DriverBegins \/ Killed \/ DriverStep
    \/ \E s \in Stage, r \in Round : ArrayStops(s, r) \/ \E u \in Unit(s) : Publish(s, r, u)
    \/ Tick

Spec == Init /\ [][Next]_vars

FairSpec == Spec /\ WF_vars(Tick) /\ WF_vars(DriverStep)

----------------------------------------------------------------------------
\* A stage whose bookkeeping was kept is given up only when its rounds are spent,
\* counted over all drivers, and the last of them has had the whole of its
\* deadline: what cost a night when round 2 was judged by the deadline of round 1
\* (StageMachine.run).
GivenUpIsOverdue ==
    [][drv.why # "exhausted" /\ drv'.why = "exhausted" /\ drv.stage \notin unread' \cup unwritten =>
             LET s == drv.stage IN Latest(s) = Rounds /\ rec[s][Rounds] = Deadline]_vars

\* Drivers that follow one another never have two arrays of a stage running
\* whose records are both fresh: a resumed driver adopts (ensure_started, Adopt).
\* It takes a read that missed the newest record to break this, never a record
\* that was dropped.
OneFreshArray ==
    \A s \in Stage \ unread :
        Cardinality({r \in Round : array[s][r] = "running" /\ rec[s][r] < Deadline}) <= 1

\* The composite fleet is booted on evidence: neither recorded nor started before
\* the share of scene partials that is asked for is in the bucket (_overlap_ready).
OverlapIsEarned ==
    (\E r \in Round : rec["composite"][r] # NoRecord \/ array["composite"][r] # "none") =>
        Cardinality(art["offsets"]) >= Needed

\* A driver that is not killed comes to an end, even if no worker publishes.
DriverEnds == At("begin") ~> drv.at \in Over

\* A record of an array that never ran costs the next driver one barrier timeout
\* (shard_driver.py:499-502): after a whole wait it is submitted again.
RecordCostsOneWait ==
    drv.why = "no plan" => \E r \in Round : array["offsets"][r] # "none"

\* A driver that cannot read its bookkeeping "behaves as it did before this
\* existed -- it submits"; it does not fail the tile (_submission_records).
\* The code does not keep this: README.md, findings.
UnreadFailsNoTile == drv.why # "unread"
============================================================================
