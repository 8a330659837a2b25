--------------------------- MODULE FleetCapacity ---------------------------
(***************************************************************************)
(* The capacity half of the fleet driver (fleet_driver.FleetDriver): which *)
(* waves it believes hold workers, how it charges them against             *)
(* fleet_max_vms, and the evidence on which it gives a charge back.        *)
(*                                                                         *)
(* One driver process runs the poll loop of run().  Around it run the      *)
(* substrate (arrays of workers that stop, are preempted or hang, a        *)
(* control plane that may not answer), the bucket, and the clock.  The     *)
(* driver can be killed between any two of its steps and resumed from the  *)
(* wave records it left behind.                                            *)
(*                                                                         *)
(* A wave is named <<stage, number>>, its submission_identity.  Time is    *)
(* reduced to the horizons the code compares it with: a wave's clock is    *)
(* "fresh", past its deadline ("overdue"), or past a further boot without  *)
(* a sign of life ("stranded").                                            *)
(***************************************************************************)
EXTENDS Widths

CONSTANTS
    NStages,        \* how many stages a poll tries to flush, in order (WAVE_STAGES)
    MaxWaves,       \* bound: wave numbers per stage
    MaxVms,         \* settings.fleet_max_vms, the concurrency cap
    MaxUnits,       \* bound: units one wave may carry
    SubmitRetries,  \* settings.shard_submit_retries
    Outage,         \* the control plane may fail to answer, or to hear a reap
    CensusLag,      \* a new array may be missing from the census for a while
    StoreFails      \* a wave record's write, or its listing, may fail

ASSUME CapacityAssumption ==
    /\ NStages \in Nat \ {0}
    /\ MaxWaves \in Nat \ {0}
    /\ MaxVms \in Nat \ {0}
    /\ MaxUnits \in Nat \ {0}
    /\ SubmitRetries \in Nat \ {0}
    /\ Outage \in BOOLEAN
    /\ CensusLag \in BOOLEAN
    /\ StoreFails \in BOOLEAN

Max2(a, b) == IF a >= b THEN a ELSE b
Min2(a, b) == IF a <= b THEN a ELSE b

Stage == 1 .. NStages
Wave == Stage \X (1 .. MaxWaves)
MaxCharge == SubmitRetries * MaxVms

Horizon == {"fresh", "overdue", "stranded"}

\* One Wave object, or what its record in the bucket says of it.
WaveState ==
    [units : 0 .. MaxUnits,           \* len(units); 0 in the absent wave
     width : 0 .. MaxVms,             \* requested_workers
     attempts : 0 .. SubmitRetries,
     acknowledged : BOOLEAN,          \* a handle came back
     outstanding : 0 .. MaxUnits,     \* units absent at the last listing
     landed : 0 .. MaxUnits,          \* units the driver has noted as landed
     reap : {"no", "asked", "lapsed"}]  \* reap_requested_at, and its grace

\* A wave of u units on n workers, not yet asked for.
NewWave(u, n) ==
    [units |-> u, width |-> n, attempts |-> 0, acknowledged |-> FALSE,
     outstanding |-> u, landed |-> 0, reap |-> "no"]

NoWave == NewWave(0, 0)

VARIABLES
    pc,          \* where the driver process is in run()
    adopting,    \* inside adopt_live_waves()
    stage,       \* the stage the flush loop is at
    wv,          \* _live: the waves held in memory, NoWave elsewhere
    waveNo,      \* _wave_no
    censusKnown, \* _census is not None
    census,      \* _census.by_identity
    censusSeen,  \* _census_seen
    ghost,       \* _ghosts.entries: identity -> width, 0 when there is none
    rec,         \* bucket: the wave records
    todo,        \* bucket: units of each wave with no artifact yet
    workers,     \* substrate: live workers of each identity
    hidden,      \* substrate: arrays the control plane does not list yet
    reaped,      \* substrate: arrays asked to terminate
    clk          \* per wave, which horizons the time has passed

driverVars == <<pc, adopting, stage, wv, waveNo, censusKnown, census, censusSeen, ghost>>
substrateVars == <<workers, hidden, reaped>>
vars == <<driverVars, rec, todo, substrateVars, clk>>

\* "down" is every moment with no driver process, before the first one too.
Phase == {"down", "observe", "retire", "reap", "admit", "submit"}

TypeOK ==
    /\ pc \in Phase
    /\ adopting \in BOOLEAN
    /\ stage \in 1 .. (NStages + 1)
    /\ wv \in [Wave -> WaveState]
    /\ waveNo \in [Stage -> 0 .. MaxWaves]
    /\ censusKnown \in BOOLEAN
    /\ census \in [Wave -> 0 .. MaxVms]
    /\ censusSeen \in BOOLEAN
    /\ ghost \in [Wave -> 0 .. MaxCharge]
    /\ rec \in [Wave -> WaveState]
    /\ todo \in [Wave -> 0 .. MaxUnits]
    /\ workers \in [Wave -> 0 .. MaxVms]
    /\ hidden \in SUBSET Wave
    /\ reaped \in SUBSET Wave
    /\ clk \in [Wave -> Horizon]

-----------------------------------------------------------------------------
(* Capacity.                                                               *)

LiveIn(f) == {w \in Wave : f[w].units > 0}
Live == LiveIn(wv)

\* Wave.intent_charge: every attempt, at the width it asked for.
Charge(x) == Max2(1, x.attempts) * x.width

IntentCharge(f) ==
    Total(Wave, MaxCharge, [w \in Wave |-> IF f[w].units > 0 THEN Charge(f[w]) ELSE 0])

Running == Total(Wave, MaxVms, workers)
CensusTotal == Total(Wave, MaxVms, census)
GhostWidth(g) == Total(Wave, MaxCharge, g)

\* H(t) without the intent charge: the width a census happens to report.
InFlightByCensus(f, g) == IF censusKnown THEN CensusTotal ELSE GhostWidth(g)

\* FleetDriver.in_flight, the one capacity rule.
InFlight(f, g) ==
    IF censusKnown
      THEN Max2(IntentCharge(f), CensusTotal)
      ELSE IntentCharge(f) + GhostWidth(g)

Headroom(f, g) == Max2(0, MaxVms - InFlight(f, g))

-----------------------------------------------------------------------------
(* Records.  Evidence and reap requests are not read back from a record.   *)

Persisted(x) ==
    [units |-> x.units, width |-> x.width, attempts |-> x.attempts,
     acknowledged |-> x.acknowledged,
     outstanding |-> x.units, landed |-> 0, reap |-> "no"]

\* A driver that records a wave only once it holds a handle.
RecordAcknowledged(w, x) ==
    rec' = IF x.acknowledged THEN [rec EXCEPT ![w] = Persisted(x)] ELSE rec

\* _record_wave: published unless the write fails, which is only logged.
RecordWave(w, x) ==
    \/ rec' = [rec EXCEPT ![w] = Persisted(x)]
    \/ StoreFails /\ rec' = rec

Init ==
    /\ pc = "down"
    /\ adopting = TRUE
    /\ stage = 1
    /\ wv = [w \in Wave |-> NoWave]
    /\ waveNo = [s \in Stage |-> 0]
    /\ censusKnown = FALSE
    /\ census = [w \in Wave |-> 0]
    /\ censusSeen = FALSE
    /\ ghost = [w \in Wave |-> 0]
    /\ rec = [w \in Wave |-> NoWave]
    /\ todo = [w \in Wave |-> 0]
    /\ workers = [w \in Wave |-> 0]
    /\ hidden = {}
    /\ reaped = {}
    /\ clk = [w \in Wave |-> "fresh"]

-----------------------------------------------------------------------------
(* The driver.                                                             *)

ProcessEnds ==
    /\ pc' = "down"
    /\ adopting' = TRUE
    /\ stage' = 1
    /\ wv' = [w \in Wave |-> NoWave]
    /\ waveNo' = [s \in Stage |-> 0]
    /\ censusKnown' = FALSE
    /\ census' = [w \in Wave |-> 0]
    /\ censusSeen' = FALSE
    /\ ghost' = [w \in Wave |-> 0]

\* Only waves whose deadline has not passed are taken up.
AdoptedUnexpired(w) ==
    IF rec[w].units = 0 \/ clk[w] # "fresh" THEN NoWave
    ELSE [rec[w] EXCEPT !.attempts = Max2(1, @)]

\* A recorded wave is taken up again, whatever its deadline says.  attempts
\* reads back as at least 1.
Adopted(w) ==
    IF rec[w].units = 0 THEN NoWave
    ELSE [rec[w] EXCEPT !.attempts = Max2(1, @)]

\* The numbering of a stage starts over.
NumbersRestart(s, n) == n = 0

\* n is the highest number a record of stage s bears: none up to it is rebuilt.
NumbersTaken(s, n) ==
    /\ n # 0 => rec[<<s, n>>].units > 0
    /\ \A m \in 1 .. MaxWaves : rec[<<s, m>>].units > 0 => m <= n

\* drive_fleet or resume_fleet starts a process, and adopt_live_waves reads the
\* wave records.  A stage whose listing fails is logged and passed over.
Adopt ==
    /\ pc = "down"
    /\ \E unlisted \in SUBSET Stage :
          /\ StoreFails \/ unlisted = {}
          /\ wv' = [w \in Wave |-> IF w[1] \in unlisted THEN NoWave ELSE Adopted(w)]
          /\ waveNo' \in [Stage -> 0 .. MaxWaves]
          /\ \A s \in Stage : IF s \in unlisted THEN waveNo'[s] = 0
                                               ELSE NumbersTaken(s, waveNo'[s])
    /\ pc' = "observe"
    /\ UNCHANGED <<adopting, stage, censusKnown, census, censusSeen, ghost,
                   rec, todo, substrateVars, clk>>

\* index.refresh: the units each wave has not published.  A listing that fails
\* reads as an empty prefix, so every unit looks absent.
ListUnits(failed) ==
    wv' = [w \in Wave |-> [wv[w] EXCEPT !.outstanding = IF failed THEN wv[w].units
                                                                  ELSE todo[w]]]

\* fleet_worker_census: workers per identity.  An array the control plane does
\* not list yet is absent; one whose details cannot be read counts as a single
\* worker.
CensusReport(blind) ==
    [w \in Wave |-> IF w \in hidden THEN 0 ELSE IF w \in blind THEN 1 ELSE workers[w]]

\* take_census.  An unanswered census is unknown, never zero.
TakeCensus ==
    \/ /\ censusKnown' = TRUE
       /\ censusSeen' = TRUE
       /\ \E blind \in SUBSET {w \in Wave : workers[w] > 1} :
             /\ Outage \/ blind = {}
             /\ census' = CensusReport(blind)
    \/ /\ Outage
       /\ censusKnown' = FALSE
       /\ census' = [w \in Wave |-> 0]
       /\ UNCHANGED censusSeen

\* The two reads that open a poll, and adoption.  One step: no rule of _retire
\* uses the listing together with a census that answered.
Observe ==
    /\ pc = "observe"
    /\ \E failed \in BOOLEAN : ListUnits(failed)
    /\ TakeCensus
    /\ pc' = "retire"
    /\ UNCHANGED <<adopting, stage, waveNo, ghost, rec, todo, substrateVars, clk>>

\* _refresh_wave_evidence: a rising count of landed units is a sign of life,
\* stamped on the wave and republished, except while adopting.
Landed(w) == wv[w].units - wv[w].outstanding
Rising == {w \in Live : ~adopting /\ Landed(w) > wv[w].landed}
ClockSeen(w) == IF w \in Rising /\ clk[w] = "stranded" THEN "overdue" ELSE clk[w]

\* _probe: only a wave with a handle, and (outside adoption) only an overdue
\* one, is asked about.  The substrate answers or not, and does not lie.
ProbedDead(dead) ==
    dead \subseteq {w \in Live : /\ wv[w].acknowledged
                                 /\ adopting \/ clk[w] # "fresh"
                                 /\ workers[w] = 0}

\* _discharge_reason, as the sets of waves each rule releases.
CensusAbsent == {w \in Live : censusKnown /\ census[w] = 0}
ArrayEnded == {w \in Live : ~censusKnown /\ wv[w].outstanding = 0}
StrandedUnconfirmed ==
    {w \in Live : /\ ~censusKnown
                  /\ censusSeen
                  /\ wv[w].outstanding > 0
                  /\ ClockSeen(w) = "stranded"}

\* Width released on a guess is forgotten at once.
UnghostedRelease(dead) == {}

\* The waves _discharge gives to the ghost ledger instead of back to the cap.
Ghosted(dead) == StrandedUnconfirmed \ dead

Discharged(dead) == dead \cup CensusAbsent \cup ArrayEnded \cup StrandedUnconfirmed

\* _retire, with the evidence refresh it starts with and the _discharge of
\* every wave it releases.  Width released unconfirmed goes to the ghost ledger.
Retire ==
    /\ pc = "retire"
    /\ \E dead \in SUBSET Live :
          /\ ProbedDead(dead)
          /\ wv' = [w \in Wave |-> IF w \in Discharged(dead) THEN NoWave
                                   ELSE [wv[w] EXCEPT !.landed = Max2(@, Landed(w))]]
          /\ ghost' = [w \in Wave |->
                         IF w \in Ghosted(dead)
                           THEN Max2(ghost[w], Charge(wv[w]))
                           ELSE IF w \in Discharged(dead) THEN 0 ELSE ghost[w]]
    /\ clk' = [w \in Wave |-> ClockSeen(w)]
    /\ \E lost \in SUBSET Rising :
          /\ StoreFails \/ lost = {}
          /\ rec' = [w \in Wave |-> IF w \in Rising \ lost THEN Persisted(wv[w]) ELSE rec[w]]
    /\ adopting' = FALSE
    /\ pc' = IF adopting THEN "observe" ELSE "reap"
    /\ UNCHANGED <<stage, waveNo, censusKnown, census, censusSeen, todo, substrateVars>>

Stranded == {w \in Live : clk[w] = "stranded"}

\* Only a wave with a handle is asked to stop.
StrandedWithHandle == {w \in Stranded : wv[w].acknowledged}

\* The waves _reap_stranded asks the substrate to stop: all of them, by name.
ToReap == Stranded

\* The first ask that goes through is stamped, and gives its wave a boot's grace.
Asked(raised) ==
    [w \in Wave |-> IF w \in ToReap \ raised /\ wv[w].reap = "no"
                      THEN [wv[w] EXCEPT !.reap = "asked"] ELSE wv[w]]

\* _stalled: nothing the driver waits for can still give headroom back.
Stalled(f) ==
    /\ Live # {}
    /\ Live \subseteq Stranded
    /\ \A w \in Live : f[w].reap # "asked"
    /\ Headroom(f, ghost) = 0

\* _reap_stranded: every live stranded wave is asked to stop, again each poll.
\* An ask may raise, or be lost, or both happen to one that is acted on, and it
\* releases nothing.  A stalled run is abandoned.
ReapStranded ==
    /\ pc = "reap"
    /\ \E heard \in SUBSET ToReap : \E raised \in SUBSET ToReap :
          /\ Outage \/ (heard = ToReap /\ raised = {})
          /\ reaped' = reaped \cup {w \in heard : workers[w] > 0}
          /\ IF Stalled(Asked(raised))
               THEN ProcessEnds
               ELSE /\ pc' = "admit"
                    /\ stage' = 1
                    /\ wv' = Asked(raised)
                    /\ UNCHANGED <<adopting, waveNo, censusKnown, census, censusSeen, ghost>>
    /\ UNCHANGED <<rec, todo, workers, hidden, clk>>

\* No stage left to flush: each had nothing buffered, was inside its batching
\* window, or found no headroom.  The driver sleeps until the next poll.
Sleep ==
    /\ pc = "admit"
    /\ pc' = "observe"
    /\ stage' = 1
    /\ UNCHANGED <<adopting, wv, waveNo, censusKnown, census, censusSeen, ghost,
                   rec, todo, substrateVars, clk>>

\* _ready_to_flush and the head of _flush, for the next stage the loop does not
\* pass over: the wave is numbered, sized to the headroom, charged and recorded
\* before anything is submitted.
Flush(s) ==
    LET w == <<s, waveNo[s] + 1>>
    IN  /\ pc = "admit"
        /\ stage <= s
        /\ Headroom(wv, ghost) > 0
        /\ waveNo[s] < MaxWaves
        /\ \E u \in 1 .. MaxUnits :
              LET x == NewWave(u, Min2(u, Headroom(wv, ghost)))
              IN  /\ wv' = [wv EXCEPT ![w] = x]
                  /\ RecordWave(w, x)
                  /\ todo' = [todo EXCEPT ![w] = u]
        /\ clk' = [clk EXCEPT ![w] = "fresh"]
        /\ waveNo' = [waveNo EXCEPT ![s] = @ + 1]
        /\ stage' = s
        /\ pc' = "submit"
        /\ UNCHANGED <<adopting, censusKnown, census, censusSeen, ghost, substrateVars>>

\* The wave being submitted.
Current == <<stage, waveNo[stage]>>

\* submit starts an array unless one of that name is running
\* (unique_wave_names); the control plane may not list it at once.
StartArray ==
    /\ workers[Current] = 0
    /\ workers' = [workers EXCEPT ![Current] = wv[Current].width]
    /\ reaped' = reaped \ {Current}
    /\ \/ hidden' = hidden \ {Current}
       \/ CensusLag /\ hidden' = hidden \cup {Current}

StartNothing == UNCHANGED substrateVars

\* One attempt more than the settings allow.
LastAttemptLate(x) == x.attempts > SubmitRetries

LastAttempt(x) == x.attempts >= SubmitRetries

\* One attempt of _submit_with_retries that answers: the handle is kept and
\* the record rewritten.
SubmitAcknowledged ==
    /\ pc = "submit"
    /\ StartArray
    /\ LET x == [wv[Current] EXCEPT !.attempts = @ + 1, !.acknowledged = TRUE]
       IN  /\ wv' = [wv EXCEPT ![Current] = x]
           /\ RecordWave(Current, x)
    /\ pc' = "admit"
    /\ stage' = stage + 1
    /\ UNCHANGED <<adopting, waveNo, censusKnown, census, censusSeen, ghost, todo, clk>>

\* One attempt that raises a transient error: refused, failed, or started with
\* its answer lost.  The last one leaves the wave unacknowledged and charged.
SubmitFails ==
    /\ pc = "submit"
    /\ StartArray \/ StartNothing
    /\ LET x == [wv[Current] EXCEPT !.attempts = @ + 1]
       IN  /\ wv' = [wv EXCEPT ![Current] = x]
           /\ IF LastAttempt(x)
                THEN /\ RecordWave(Current, x)
                     /\ pc' = "admit"
                     /\ stage' = stage + 1
                ELSE UNCHANGED <<pc, stage, rec>>
    /\ UNCHANGED <<adopting, waveNo, censusKnown, census, censusSeen, ghost, todo, clk>>

\* One attempt that raises a terminal error: FleetAborted ends the run.
SubmitAborts ==
    /\ pc = "submit"
    /\ StartArray \/ StartNothing
    /\ ProcessEnds
    /\ UNCHANGED <<rec, todo, clk>>

\* The process is gone with everything it held in memory: killed between two
\* steps, at the poll ceiling, or done.
Crash ==
    /\ pc # "down"
    /\ ProcessEnds
    /\ UNCHANGED <<rec, todo, substrateVars, clk>>

-----------------------------------------------------------------------------
(* The substrate, the bucket and the clock.                                *)

\* An array with no worker left is neither listed late nor waiting to stop.
SetWorkers(w, n) ==
    /\ workers' = [workers EXCEPT ![w] = n]
    /\ hidden' = IF n = 0 THEN hidden \ {w} ELSE hidden
    /\ reaped' = IF n = 0 THEN reaped \ {w} ELSE reaped

\* A worker publishes a unit.  The array ends with its last unit.
UnitLands(w) ==
    /\ workers[w] > 0
    /\ todo[w] > 0
    /\ todo' = [todo EXCEPT ![w] = @ - 1]
    /\ SetWorkers(w, IF todo[w] = 1 THEN 0 ELSE workers[w])
    /\ UNCHANGED <<driverVars, rec, clk>>

\* Preemption, or an array that fails: some workers are gone for good.
WorkersStop(w) ==
    /\ workers[w] > 0
    /\ \E n \in 0 .. (workers[w] - 1) : SetWorkers(w, n)
    /\ UNCHANGED <<driverVars, rec, todo, clk>>

\* The substrate acts on a reap it heard.
ReapTakesEffect(w) ==
    /\ w \in reaped
    /\ SetWorkers(w, 0)
    /\ UNCHANGED <<driverVars, rec, todo, clk>>

\* The control plane starts listing an array.
Appears(w) ==
    /\ w \in hidden
    /\ hidden' = hidden \ {w}
    /\ UNCHANGED <<driverVars, rec, todo, workers, reaped, clk>>

\* Time passes a wave's deadline, or the boot after it with no sign of life.
ClockRuns(w) ==
    /\ wv[w].units > 0 \/ rec[w].units > 0
    /\ clk[w] # "stranded"
    /\ clk' = [clk EXCEPT ![w] = IF @ = "fresh" THEN "overdue" ELSE "stranded"]
    /\ UNCHANGED <<driverVars, rec, todo, substrateVars>>

\* Time passes the boot a reap request is given to show an effect.
GraceLapses(w) ==
    /\ wv[w].reap = "asked"
    /\ wv' = [wv EXCEPT ![w].reap = "lapsed"]
    /\ UNCHANGED <<pc, adopting, stage, waveNo, censusKnown, census, censusSeen, ghost,
                   rec, todo, substrateVars, clk>>

\* Time passes a ghost's fleet_ghost_ttl_s.
GhostExpires(w) ==
    /\ ghost[w] > 0
    /\ ghost' = [ghost EXCEPT ![w] = 0]
    /\ UNCHANGED <<pc, adopting, stage, wv, waveNo, censusKnown, census, censusSeen,
                   rec, todo, substrateVars, clk>>

Driver ==
    \/ Adopt \/ Observe \/ Retire \/ ReapStranded \/ Sleep
    \/ \E s \in Stage : Flush(s)
    \/ SubmitAcknowledged \/ SubmitFails

World(w) ==
    \/ UnitLands(w) \/ WorkersStop(w) \/ ReapTakesEffect(w) \/ Appears(w)
    \/ ClockRuns(w) \/ GraceLapses(w) \/ GhostExpires(w)

Next == Driver \/ SubmitAborts \/ Crash \/ \E w \in Wave : World(w)

Spec == Init /\ [][Next]_vars

\* The driver keeps stepping while it is up, and for every wave the world moves
\* on: time passes, or a substrate that heard a reap acts on it.  Nothing makes a
\* worker publish, a preemption happen, or a dead driver come back.
Fairness ==
    /\ WF_vars(Driver)
    /\ \A w \in Wave :
           WF_vars(ReapTakesEffect(w) \/ ClockRuns(w) \/ GraceLapses(w) \/ GhostExpires(w))

FairSpec == Spec /\ Fairness

-----------------------------------------------------------------------------
(* Properties.                                                             *)

\* SAFETY-C of docs/adr/018: the run never has more than fleet_max_vms workers
\* up, across every wave, retry, lost answer, crash and resume.
SafetyC == Running <= MaxVms

\* Every array a worker runs in has a wave record: a resumed driver finds it
\* even when the process died before, during or after the submission.
RecordedBeforeStarted == \A w \in Wave : workers[w] > 0 => rec[w].units > 0

\* From its first retirement on, a driver charges every array that is running,
\* at no less than the width that is up: nothing still billing is discharged.
ChargeCoversRunning ==
    pc \in {"reap", "admit", "submit"} =>
        \A w \in Wave : workers[w] > 0 => wv[w].units > 0 /\ workers[w] <= Charge(wv[w])

\* A new wave, in this driver or a resumed one, is never given the name of an
\* array that is still running (unique_wave_names would refuse its submission).
NameIsFree ==
    [][\A w \in Wave : wv[w].units = 0 /\ wv'[w].units > 0 /\ pc = "admit"
          => workers[w] = 0]_vars

\* Without a census, a wave's width is given back outright only when its array
\* is gone or has nothing left to compute; otherwise it is still charged through
\* the ghost ledger.
ReleaseIsEarned ==
    [][\A w \in Wave :
          (pc = "retire" /\ ~censusKnown /\ wv[w].units > 0 /\ wv'[w].units = 0)
             => workers[w] = 0 \/ todo[w] = 0 \/ ghost'[w] >= Charge(wv[w]) \/ pc' = "down"]_vars

\* A stranded wave does not keep its width for ever: again and again every wave
\* that was stranded is discharged or shows a sign of life, or the run ends.
StrandedIsSettled == []<>(Stranded = {} \/ pc = "down")

-----------------------------------------------------------------------------
(* The pool of machines this implements.  A name's width is set aside from *)
(* the wave record's writing to the end of its submission, and for as long *)
(* as the array has workers.                                               *)

Reserved ==
    [w \in Wave |-> IF workers[w] > 0 \/ (pc = "submit" /\ w = Current)
                     THEN rec[w].width ELSE 0]

Pool == INSTANCE WorkerPool WITH Array <- Wave, Cap <- MaxVms, MaxWidth <- MaxVms,
                                 reserved <- Reserved, up <- workers

\* With a control plane that answers and a bucket that takes its records, the
\* driver with its crashes, retries and resumes is a worker pool.
ImplementsPool == Pool!PoolSpec
=============================================================================
