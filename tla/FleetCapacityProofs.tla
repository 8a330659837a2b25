------------------------ MODULE FleetCapacityProofs ------------------------
(***************************************************************************)
(* Proofs about FleetCapacity, for every number of stages, waves, units,   *)
(* retries and every cap: its invariants; that it implements WorkerPool,   *)
(* step by step, in the machines it bills; and that it gives width back    *)
(* only on evidence.                                                       *)
(***************************************************************************)
EXTENDS FleetCapacity, Counting

-----------------------------------------------------------------------------
(* Arithmetic of the helpers.                                              *)

\* Max2 and Min2 are the maximum and the minimum of two integers.
LEMMA Max2Facts ==
    ASSUME NEW a \in Int, NEW b \in Int
    PROVE  /\ Max2(a, b) \in Int
           /\ Max2(a, b) >= a /\ Max2(a, b) >= b
           /\ Max2(a, b) = a \/ Max2(a, b) = b
           /\ Min2(a, b) \in Int
           /\ Min2(a, b) <= a /\ Min2(a, b) <= b
           /\ Min2(a, b) = a \/ Min2(a, b) = b
BY DEF Max2, Min2

\* A charge is a natural number, no smaller than the width it is for and no
\* larger than the bound MaxCharge: Wave.intent_charge.
LEMMA ChargeBounds ==
    ASSUME NEW x \in WaveState
    PROVE  /\ Charge(x) \in 0 .. MaxCharge
           /\ x.width <= Charge(x)
           /\ x.width \in 0 .. MaxCharge
<1> DEFINE a == Max2(1, x.attempts)
<1>1. /\ x.attempts \in 0 .. SubmitRetries
      /\ x.width \in 0 .. MaxVms
  BY DEF WaveState
<1>2. a \in 1 .. SubmitRetries
  BY <1>1, CapacityAssumption DEF Max2
<1>3. \A i \in Nat, r \in Nat, w \in Nat, v \in Nat :
         1 <= i /\ i <= r /\ w <= v => /\ w <= i * w /\ i * w <= r * v /\ w <= r * v
                                       /\ i * w \in Nat /\ r * v \in Nat
  OBVIOUS
<1> QED
  BY <1>1, <1>2, <1>3, CapacityAssumption DEF Charge, MaxCharge

-----------------------------------------------------------------------------
(* Type correctness.                                                       *)

\* The wave being submitted exists and has an attempt left.
SubmitOK ==
    pc = "submit" => /\ Current \in Wave
                     /\ wv[Current].attempts < SubmitRetries

TypeInv == TypeOK /\ SubmitOK

LEMMA InitType == Init => TypeInv
<1> SUFFICES ASSUME Init PROVE TypeInv
  OBVIOUS
<1>1. NoWave \in WaveState
  BY CapacityAssumption DEF NoWave, NewWave, WaveState
<1>2. 0 \in 0 .. MaxCharge
  BY CapacityAssumption DEF MaxCharge
<1>3. /\ adopting \in BOOLEAN /\ censusKnown \in BOOLEAN /\ censusSeen \in BOOLEAN
  BY DEF Init
<1>8. /\ pc \in Phase
      /\ stage \in 1 .. (NStages + 1)
      /\ waveNo \in [Stage -> 0 .. MaxWaves]
  BY CapacityAssumption DEF Init, Phase
<1>4. /\ wv \in [Wave -> WaveState]
      /\ rec \in [Wave -> WaveState]
  BY <1>1 DEF Init
<1>5. /\ census \in [Wave -> 0 .. MaxVms]
      /\ ghost \in [Wave -> 0 .. MaxCharge]
      /\ todo \in [Wave -> 0 .. MaxUnits]
      /\ workers \in [Wave -> 0 .. MaxVms]
  BY <1>2, CapacityAssumption DEF Init
<1>6. /\ hidden \in SUBSET Wave
      /\ reaped \in SUBSET Wave
      /\ clk \in [Wave -> Horizon]
  BY DEF Init, Horizon
<1>7. SubmitOK
  BY DEF Init, SubmitOK
<1> QED
  BY <1>3, <1>4, <1>5, <1>6, <1>7, <1>8 DEF TypeInv, TypeOK

\* The state a process leaves behind when it ends is well typed.
LEMMA EndsType ==
    ASSUME ProcessEnds
    PROVE  /\ pc' \in Phase /\ pc' # "submit"
           /\ adopting' \in BOOLEAN /\ censusKnown' \in BOOLEAN /\ censusSeen' \in BOOLEAN
           /\ stage' \in 1 .. (NStages + 1)
           /\ wv' \in [Wave -> WaveState]
           /\ waveNo' \in [Stage -> 0 .. MaxWaves]
           /\ census' \in [Wave -> 0 .. MaxVms]
           /\ ghost' \in [Wave -> 0 .. MaxCharge]
<1>1. NoWave \in WaveState
  BY CapacityAssumption DEF NoWave, NewWave, WaveState
<1>2. 0 \in 0 .. MaxCharge
  BY CapacityAssumption DEF MaxCharge
<1>3. adopting' \in BOOLEAN /\ censusKnown' \in BOOLEAN /\ censusSeen' \in BOOLEAN
  BY DEF ProcessEnds
<1>4. /\ pc' \in Phase /\ pc' # "submit"
      /\ stage' \in 1 .. (NStages + 1)
      /\ waveNo' \in [Stage -> 0 .. MaxWaves]
      /\ wv' \in [Wave -> WaveState]
      /\ census' \in [Wave -> 0 .. MaxVms]
      /\ ghost' \in [Wave -> 0 .. MaxCharge]
  BY <1>1, <1>2, CapacityAssumption DEF ProcessEnds, Phase
<1> QED
  BY <1>3, <1>4

\* A record reads back as a well-typed wave: Wave.as_dict, _record_wave.
LEMMA PersistedType == ASSUME NEW x \in WaveState PROVE Persisted(x) \in WaveState
BY CapacityAssumption DEF Persisted, WaveState

\* _record_wave keeps the records well typed.
LEMMA RecordType ==
    ASSUME TypeOK, NEW w, NEW x \in WaveState, RecordWave(w, x)
    PROVE  rec' \in [Wave -> WaveState]
BY PersistedType DEF RecordWave, TypeOK

\* A submission that starts an array, or none, keeps the substrate well typed.
LEMMA StartType ==
    ASSUME TypeOK, Current \in Wave, StartArray \/ StartNothing
    PROVE  /\ workers' \in [Wave -> 0 .. MaxVms]
           /\ hidden' \in SUBSET Wave
           /\ reaped' \in SUBSET Wave
<1>1. wv[Current].width \in 0 .. MaxVms
  BY DEF TypeOK, WaveState
<1>2. CASE StartArray
  BY <1>1, <1>2 DEF StartArray, TypeOK
<1>3. CASE StartNothing
  BY <1>3 DEF StartNothing, substrateVars, TypeOK
<1> QED
  BY <1>2, <1>3

\* So does any loss of workers.
LEMMA SetWorkersType ==
    ASSUME TypeOK, NEW w \in Wave, NEW n \in 0 .. MaxVms, SetWorkers(w, n)
    PROVE  /\ workers' \in [Wave -> 0 .. MaxVms]
           /\ hidden' \in SUBSET Wave
           /\ reaped' \in SUBSET Wave
BY DEF SetWorkers, TypeOK

LEMMA AdoptType == TypeInv /\ Adopt => TypeInv'
<1> SUFFICES ASSUME TypeInv, Adopt PROVE TypeInv'
  OBVIOUS
<1> USE DEF TypeInv
<1>1. NoWave \in WaveState
  BY CapacityAssumption DEF NoWave, NewWave, WaveState
<1>5. ASSUME NEW w \in Wave PROVE Adopted(w) \in WaveState
  <2>1. rec[w] \in WaveState
    BY DEF TypeOK
  <2>2. Max2(1, rec[w].attempts) \in 0 .. SubmitRetries
    BY <2>1, CapacityAssumption DEF WaveState, Max2
  <2>3. [rec[w] EXCEPT !.attempts = Max2(1, @)] \in WaveState
    BY <2>1, <2>2 DEF WaveState
  <2> QED
    BY <1>1, <2>3 DEF Adopted
<1>2. wv' \in [Wave -> WaveState]
  BY <1>1, <1>5 DEF Adopt
<1>3. /\ waveNo' \in [Stage -> 0 .. MaxWaves]
      /\ pc' = "observe"
      /\ UNCHANGED <<stage, census, ghost, rec, todo, workers, hidden, reaped, clk>>
      /\ UNCHANGED <<adopting, censusKnown, censusSeen>>
  BY DEF Adopt, substrateVars
<1>4. SubmitOK'
  BY <1>3 DEF SubmitOK
<1> QED
  BY <1>2, <1>3, <1>4 DEF TypeOK, Phase

LEMMA ObserveType == TypeInv /\ Observe => TypeInv'
<1> SUFFICES ASSUME TypeInv, Observe PROVE TypeInv'
  OBVIOUS
<1> USE DEF TypeInv
<1>1. wv' \in [Wave -> WaveState]
  <2>1. PICK failed \in BOOLEAN : ListUnits(failed)
    BY DEF Observe
  <2>2. ASSUME NEW w \in Wave, NEW n \in 0 .. MaxUnits
        PROVE  [wv[w] EXCEPT !.outstanding = n] \in WaveState
    BY SMTT(20) DEF WaveState, TypeOK
  <2>3. \A w \in Wave : wv[w].units \in 0 .. MaxUnits /\ todo[w] \in 0 .. MaxUnits
    BY DEF WaveState, TypeOK
  <2>4. CASE failed
    BY <2>1, <2>2, <2>3, <2>4 DEF ListUnits
  <2>5. CASE ~failed
    BY <2>1, <2>2, <2>3, <2>5 DEF ListUnits
  <2> QED
    BY <2>4, <2>5
<1>2. censusKnown' \in BOOLEAN /\ censusSeen' \in BOOLEAN
  BY DEF Observe, TakeCensus, CensusReport, TypeOK
<1>3. census' \in [Wave -> 0 .. MaxVms]
  BY CapacityAssumption DEF Observe, TakeCensus, CensusReport, TypeOK
<1>4. /\ pc' = "retire"
      /\ UNCHANGED <<adopting, stage, waveNo, ghost, rec, todo, workers, hidden, reaped, clk>>
  BY DEF Observe, substrateVars
<1>5. SubmitOK'
  BY <1>4 DEF SubmitOK
<1> QED
  BY <1>1, <1>2, <1>3, <1>4, <1>5 DEF TypeOK, Phase

LEMMA RetireType == TypeInv /\ Retire => TypeInv'
<1> SUFFICES ASSUME TypeInv, Retire PROVE TypeInv'
  OBVIOUS
<1> USE DEF TypeInv
<1>1. /\ NoWave \in WaveState
      /\ \A w \in Wave : wv[w] \in WaveState
      /\ \A w \in Wave : Charge(wv[w]) \in 0 .. MaxCharge
      /\ MaxCharge \in Nat
  BY ChargeBounds, CapacityAssumption DEF NoWave, NewWave, WaveState, TypeOK, MaxCharge
<1>2. PICK dead \in SUBSET Live :
        /\ wv' = [w \in Wave |-> IF w \in Discharged(dead) THEN NoWave
                                 ELSE [wv[w] EXCEPT !.landed = Max2(@, Landed(w))]]
        /\ ghost' = [w \in Wave |-> IF w \in Ghosted(dead)
                                      THEN Max2(ghost[w], Charge(wv[w]))
                                      ELSE IF w \in Discharged(dead) THEN 0 ELSE ghost[w]]
  BY DEF Retire
<1>3. wv' \in [Wave -> WaveState]
  <2>1. ASSUME NEW w \in Wave
        PROVE  [wv[w] EXCEPT !.landed = Max2(@, Landed(w))] \in WaveState
    BY <1>1, CapacityAssumption DEF WaveState, Landed, Max2
  <2> QED
    BY <1>1, <1>2, <2>1
<1>4. ghost' \in [Wave -> 0 .. MaxCharge]
  <2>1. \A w \in Wave : Max2(ghost[w], Charge(wv[w])) \in 0 .. MaxCharge
    BY <1>1 DEF TypeOK, Max2
  <2> QED
    BY <1>1, <1>2, <2>1 DEF TypeOK
<1>5. clk' \in [Wave -> Horizon]
  BY DEF Retire, ClockSeen, Horizon, TypeOK
<1>6. rec' \in [Wave -> WaveState]
  BY <1>1, PersistedType DEF Retire, TypeOK
<1>7. /\ pc' \in Phase /\ pc' # "submit"
      /\ UNCHANGED <<stage, waveNo, census, todo, workers, hidden, reaped>>
  BY DEF Retire, Phase, substrateVars
<1>8. adopting' \in BOOLEAN /\ censusKnown' \in BOOLEAN /\ censusSeen' \in BOOLEAN
  BY DEF Retire, TypeOK
<1> QED
  BY <1>3, <1>4, <1>5, <1>6, <1>7, <1>8 DEF TypeOK, SubmitOK

LEMMA ReapType == TypeInv /\ ReapStranded => TypeInv'
<1> SUFFICES ASSUME TypeInv, ReapStranded PROVE TypeInv'
  OBVIOUS
<1> USE DEF TypeInv
<1>1. \A raised : Asked(raised) \in [Wave -> WaveState]
  BY SMTT(20) DEF Asked, WaveState, TypeOK
<1>2. /\ reaped' \in SUBSET Wave
      /\ UNCHANGED <<rec, todo, workers, hidden, clk>>
  BY DEF ReapStranded, ToReap, Stranded, Live, LiveIn, TypeOK
<1>3. CASE ProcessEnds
  BY <1>2, <1>3, EndsType DEF TypeOK, SubmitOK
<1>4. CASE ~ProcessEnds
  <2>1. PICK raised :
          /\ pc' = "admit" /\ stage' = 1 /\ wv' = Asked(raised)
          /\ UNCHANGED <<adopting, waveNo, censusKnown, census, censusSeen, ghost>>
    BY <1>4 DEF ReapStranded
  <2>2. adopting' \in BOOLEAN /\ censusKnown' \in BOOLEAN /\ censusSeen' \in BOOLEAN
    BY <2>1 DEF TypeOK
  <2>3. pc' \in Phase /\ stage' \in 1 .. (NStages + 1)
    BY <2>1, CapacityAssumption DEF Phase
  <2> QED
    BY <1>1, <1>2, <2>1, <2>2, <2>3 DEF TypeOK, SubmitOK
<1> QED
  BY <1>3, <1>4

\* FleetDriver.in_flight is a number of workers, never less than what the waves
\* in memory are charged.
LEMMA InFlightType ==
    ASSUME TypeOK
    PROVE  /\ IsFiniteSet(Wave)
           /\ IntentCharge(wv) \in Nat
           /\ InFlight(wv, ghost) \in Nat
           /\ IntentCharge(wv) <= InFlight(wv, ghost)
           /\ Headroom(wv, ghost) \in 0 .. MaxVms
           /\ Headroom(wv, ghost) > 0 => Headroom(wv, ghost) + InFlight(wv, ghost) = MaxVms
<1>1. IsFiniteSet(Wave)
  <2>1. IsFiniteSet(1 .. NStages) /\ IsFiniteSet(1 .. MaxWaves)
    BY FS_Interval, CapacityAssumption
  <2> QED
    BY <2>1, FS_Product DEF Wave, Stage
<1>2. MaxCharge \in Nat /\ MaxVms \in Nat
  BY CapacityAssumption DEF MaxCharge
<1>3. IntentCharge(wv) \in Nat /\ CensusTotal \in Nat /\ GhostWidth(ghost) \in Nat
  BY <1>1, <1>2, TotalType DEF IntentCharge, CensusTotal, GhostWidth
<1>4. InFlight(wv, ghost) \in Nat /\ IntentCharge(wv) <= InFlight(wv, ghost)
  BY <1>3 DEF InFlight, Max2
<1> QED
  BY <1>1, <1>2, <1>3, <1>4 DEF Headroom, Max2

LEMMA FlushType == ASSUME NEW s \in Stage PROVE TypeInv /\ Flush(s) => TypeInv'
<1> SUFFICES ASSUME TypeInv, Flush(s) PROVE TypeInv'
  OBVIOUS
<1> USE DEF TypeInv
<1> DEFINE w == <<s, waveNo[s] + 1>>
           h == Headroom(wv, ghost)
           x(u) == NewWave(u, Min2(u, h))
<1>1. w \in Wave /\ waveNo[s] + 1 \in 0 .. MaxWaves
  BY CapacityAssumption DEF Flush, Wave, TypeOK
<1>2. PICK u \in 1 .. MaxUnits :
        /\ wv' = [wv EXCEPT ![w] = x(u)]
        /\ RecordWave(w, x(u))
        /\ todo' = [todo EXCEPT ![w] = u]
  BY DEF Flush
<1>3. x(u) \in WaveState /\ x(u).attempts < SubmitRetries
  <2>1. Min2(u, h) \in 0 .. MaxVms
    BY InFlightType DEF Min2
  <2> QED
    BY <2>1, CapacityAssumption DEF NewWave, WaveState
<1>4. rec' \in [Wave -> WaveState]
  BY <1>2, <1>3, RecordType
<1>5. wv' \in [Wave -> WaveState] /\ todo' \in [Wave -> 0 .. MaxUnits]
  BY <1>1, <1>2, <1>3 DEF TypeOK
<1>6. /\ clk' \in [Wave -> Horizon]
      /\ waveNo' \in [Stage -> 0 .. MaxWaves]
      /\ waveNo'[s] = waveNo[s] + 1 /\ stage' = s
      /\ pc' = "submit"
      /\ UNCHANGED <<census, ghost, workers, hidden, reaped>>
      /\ stage' \in 1 .. (NStages + 1)
  BY <1>1, CapacityAssumption, SMTT(20) DEF Flush, Horizon, TypeOK, Stage, substrateVars
<1>7. adopting' \in BOOLEAN /\ censusKnown' \in BOOLEAN /\ censusSeen' \in BOOLEAN
  BY DEF Flush, TypeOK
<1>8. Current' = w
  BY <1>6 DEF Current
<1>9. SubmitOK'
  <2>1. wv'[w] = x(u)
    BY <1>1, <1>2 DEF TypeOK
  <2> QED
    BY <1>1, <1>3, <1>8, <2>1 DEF SubmitOK
<1> QED
  BY <1>4, <1>5, <1>6, <1>7, <1>9 DEF TypeOK, Phase

LEMMA SubmitType == TypeInv /\ (SubmitAcknowledged \/ SubmitFails) => TypeInv'
<1> SUFFICES ASSUME TypeInv, SubmitAcknowledged \/ SubmitFails PROVE TypeInv'
  OBVIOUS
<1> USE DEF TypeInv
<1>1. /\ pc = "submit" /\ Current \in Wave
      /\ stage \in Stage
      /\ wv[Current] \in WaveState /\ wv[Current].attempts < SubmitRetries
      /\ UNCHANGED <<waveNo, census, ghost, todo, clk>>
  BY DEF SubmitAcknowledged, SubmitFails, SubmitOK, TypeOK, Current, Wave
<1>2. adopting' \in BOOLEAN /\ censusKnown' \in BOOLEAN /\ censusSeen' \in BOOLEAN
  BY DEF SubmitAcknowledged, SubmitFails, TypeOK
<1>3. /\ workers' \in [Wave -> 0 .. MaxVms]
      /\ hidden' \in SUBSET Wave
      /\ reaped' \in SUBSET Wave
  BY <1>1, StartType DEF SubmitAcknowledged, SubmitFails
<1>4. CASE SubmitAcknowledged
  <2> DEFINE y == [wv[Current] EXCEPT !.attempts = @ + 1]
             x == [y EXCEPT !.acknowledged = TRUE]
  <2>1. y \in WaveState
    BY <1>1, CapacityAssumption DEF WaveState
  <2>2. x \in WaveState
    BY <2>1 DEF WaveState
  <2>3. /\ wv' = [wv EXCEPT ![Current] = x]
        /\ RecordWave(Current, x)
        /\ pc' = "admit" /\ stage' = stage + 1
    BY <1>4 DEF SubmitAcknowledged
  <2>4. rec' \in [Wave -> WaveState] /\ wv' \in [Wave -> WaveState]
    BY <2>2, <2>3, RecordType DEF TypeOK
  <2>5. stage' \in 1 .. (NStages + 1) /\ pc' \in Phase /\ pc' # "submit"
    BY <1>1, <2>3, CapacityAssumption DEF Phase, Stage
  <2> QED
    BY <1>1, <1>2, <1>3, <2>4, <2>5 DEF TypeOK, SubmitOK
<1>5. CASE SubmitFails
  <2> DEFINE x == [wv[Current] EXCEPT !.attempts = @ + 1]
  <2>1. x \in WaveState /\ x.attempts = wv[Current].attempts + 1
    BY <1>1, CapacityAssumption DEF WaveState
  <2>2. /\ wv' = [wv EXCEPT ![Current] = x]
        /\ IF LastAttempt(x)
             THEN RecordWave(Current, x) /\ pc' = "admit" /\ stage' = stage + 1
             ELSE UNCHANGED <<pc, stage, rec>>
    BY <1>5 DEF SubmitFails
  <2>3. wv' \in [Wave -> WaveState] /\ wv'[Current] = x
    BY <1>1, <2>1, <2>2 DEF TypeOK
  <2>4. CASE LastAttempt(x)
    <3>1. rec' \in [Wave -> WaveState]
      BY <2>1, <2>2, <2>4, RecordType
    <3>2. stage' \in 1 .. (NStages + 1) /\ pc' \in Phase /\ pc' # "submit"
      BY <1>1, <2>2, <2>4, CapacityAssumption DEF Phase, Stage
    <3> QED
      BY <1>1, <1>2, <1>3, <2>3, <3>1, <3>2 DEF TypeOK, SubmitOK
  <2>5. CASE ~LastAttempt(x)
    <3>1. Current' = Current /\ UNCHANGED <<pc, stage, rec>>
      BY <1>1, <2>2, <2>5 DEF Current
    <3>2. x.attempts < SubmitRetries
      BY <2>1, <2>5, CapacityAssumption DEF LastAttempt, WaveState
    <3> QED
      BY <1>1, <1>2, <1>3, <2>3, <3>1, <3>2 DEF TypeOK, SubmitOK
  <2> QED
    BY <2>4, <2>5
<1> QED
  BY <1>4, <1>5

LEMMA WorldType == ASSUME NEW w \in Wave PROVE TypeInv /\ World(w) => TypeInv'
<1> SUFFICES ASSUME TypeInv, World(w) PROVE TypeInv'
  OBVIOUS
<1> USE DEF TypeInv
<1>1. CASE UnitLands(w)
  <2>1. PICK n \in 0 .. MaxVms : SetWorkers(w, n)
    BY <1>1, CapacityAssumption DEF UnitLands, TypeOK
  <2>2. todo' \in [Wave -> 0 .. MaxUnits]
    <3>1. todo[w] - 1 \in 0 .. MaxUnits /\ todo' = [todo EXCEPT ![w] = todo[w] - 1]
      BY <1>1, CapacityAssumption DEF UnitLands, TypeOK
    <3> QED
      BY <3>1 DEF TypeOK
  <2> QED
    BY <1>1, <2>1, <2>2, SetWorkersType DEF UnitLands, driverVars, TypeOK, SubmitOK, Current
<1>2. CASE WorkersStop(w) \/ ReapTakesEffect(w)
  <2>1. PICK n \in 0 .. MaxVms : SetWorkers(w, n)
    BY <1>2, CapacityAssumption DEF WorkersStop, ReapTakesEffect, TypeOK
  <2> QED
    BY <1>2, <2>1, SetWorkersType
       DEF WorkersStop, ReapTakesEffect, driverVars, TypeOK, SubmitOK, Current
<1>3. CASE Appears(w)
  BY <1>3 DEF Appears, driverVars, TypeOK, SubmitOK, Current
<1>4. CASE ClockRuns(w)
  BY <1>4 DEF ClockRuns, driverVars, substrateVars, TypeOK, SubmitOK, Current, Horizon
<1>5. CASE GraceLapses(w)
  <2>1. wv' \in [Wave -> WaveState]
    <3> DEFINE x == [wv[w] EXCEPT !.reap = "lapsed"]
    <3>1. x \in WaveState
      BY DEF TypeOK, WaveState
    <3>2. wv' = [wv EXCEPT ![w] = x]
      BY <1>5 DEF GraceLapses
    <3> QED
      BY <3>1, <3>2 DEF TypeOK
  <2>2. Current' = Current /\ \A v \in Wave : wv'[v].attempts = wv[v].attempts
    BY <1>5 DEF GraceLapses, TypeOK, WaveState, Current
  <2> QED
    BY <1>5, <2>1, <2>2 DEF GraceLapses, substrateVars, TypeOK, SubmitOK
<1>6. CASE GhostExpires(w)
  BY <1>6, CapacityAssumption
     DEF GhostExpires, substrateVars, TypeOK, SubmitOK, Current, MaxCharge
<1> QED
  BY <1>1, <1>2, <1>3, <1>4, <1>5, <1>6 DEF World

LEMMA NextType == TypeInv /\ [Next]_vars => TypeInv'
<1> SUFFICES ASSUME TypeInv, [Next]_vars PROVE TypeInv'
  OBVIOUS
<1>1. CASE Adopt \/ Observe \/ Retire \/ ReapStranded
  BY <1>1, AdoptType, ObserveType, RetireType, ReapType
<1>2. CASE Sleep
  BY <1>2, CapacityAssumption
     DEF Sleep, TypeInv, TypeOK, SubmitOK, Phase, substrateVars
<1>3. CASE \E s \in Stage : Flush(s)
  BY <1>3, FlushType
<1>4. CASE SubmitAcknowledged \/ SubmitFails
  BY <1>4, SubmitType
<1>5. CASE SubmitAborts
  BY <1>5, EndsType, StartType DEF SubmitAborts, TypeInv, TypeOK, SubmitOK
<1>6. CASE Crash
  BY <1>6, EndsType DEF Crash, TypeInv, TypeOK, SubmitOK, substrateVars
<1>7. CASE \E w \in Wave : World(w)
  BY <1>7, WorldType
<1>8. CASE UNCHANGED vars
  BY <1>8 DEF vars, driverVars, substrateVars, TypeInv, TypeOK, SubmitOK, Current
<1> QED
  BY <1>1, <1>2, <1>3, <1>4, <1>5, <1>6, <1>7, <1>8 DEF Next, Driver

\* Every variable of the capacity model keeps its type, for every number of
\* stages and units, every cap and every failure the environment may show.
THEOREM TypeCorrect == Spec => []TypeOK
<1>1. TypeInv => TypeOK
  BY DEF TypeInv
<1> QED
  BY <1>1, InitType, NextType, PTL DEF Spec

-----------------------------------------------------------------------------
(* The cap.  SafetyC is not inductive: it says nothing of width that is    *)
(* promised and not yet up.  CapInv adds why a promise is always visible:  *)
(* what runs is recorded, what is recorded is adopted, and what is adopted *)
(* is only let go when a census that answered no longer reports it.        *)

\* The environment the promise is made for: the control plane answers, lists an
\* array as soon as it starts, and the bucket takes the driver's records.
Reliable == ~Outage /\ ~CensusLag /\ ~StoreFails

\* Whatever is up is recorded, at a width that covers it.
UpIsRecorded ==
    \A w \in Wave : workers[w] > 0 => rec[w].units > 0 /\ workers[w] <= rec[w].width

\* A wave in memory is the one its record describes.
LiveIsRecorded ==
    \A w \in Wave : wv[w].units > 0 => rec[w].units > 0 /\ wv[w].width = rec[w].width

\* A driver that is up holds every wave that has workers.
UpIsLive == pc # "down" => \A w \in Wave : workers[w] > 0 => wv[w].units > 0

\* A driver that is up numbers past every record.
NumbersAhead ==
    pc # "down" => \A s \in Stage, n \in 1 .. MaxWaves :
                       rec[<<s, n>>].units > 0 => n <= waveNo[s]

\* A census in hand at retirement omits only arrays that are gone.
CensusCovers == pc = "retire" => censusKnown /\ \A w \in Wave : census[w] = 0 => workers[w] = 0

\* The wave being submitted is live.
CurrentIsLive == pc = "submit" => wv[Current].units > 0

\* Width set aside, up or about to be, is within the cap.
ReservedWithinCap == Total(Wave, MaxVms, Reserved) <= MaxVms

CapInv ==
    /\ TypeInv
    /\ hidden = {}
    /\ UpIsRecorded
    /\ LiveIsRecorded
    /\ UpIsLive
    /\ NumbersAhead
    /\ CensusCovers
    /\ CurrentIsLive
    /\ ReservedWithinCap

\* What is reserved for a wave is a width.
LEMMA ReservedType == ASSUME TypeOK, NEW w \in Wave PROVE Reserved[w] \in 0 .. MaxVms
BY CapacityAssumption DEF Reserved, TypeOK, WaveState

LEMMA InitCap == Init => CapInv
<1> SUFFICES ASSUME Init PROVE CapInv
  OBVIOUS
<1>1. TypeInv
  BY InitType
<1>2. \A w \in Wave : workers[w] = 0 /\ wv[w].units = 0
  BY DEF Init, NoWave, NewWave
<1>3. ReservedWithinCap
  <2>1. \A w \in Wave : Reserved[w] = 0
    BY <1>2 DEF Init, Reserved
  <2> QED
    BY <2>1, TotalEmpty, CapacityAssumption DEF ReservedWithinCap
<1>4. hidden = {} /\ UpIsRecorded /\ LiveIsRecorded
  BY <1>2 DEF Init, UpIsRecorded, LiveIsRecorded
<1>5. UpIsLive /\ NumbersAhead /\ CensusCovers /\ CurrentIsLive
  BY DEF Init, UpIsLive, NumbersAhead, CensusCovers, CurrentIsLive
<1> QED
  BY <1>1, <1>3, <1>4, <1>5 DEF CapInv

\* Most steps keep CapInv for the same reason: workers only go away, or come up
\* in the wave being submitted; records keep their widths; and a wave is only
\* dropped with its workers gone or with the whole process.
LEMMA CapKept ==
    ASSUME CapInv, TypeInv', hidden' = {},
           \A w \in Wave : \/ workers'[w] <= workers[w]
                           \/ pc = "submit" /\ w = Current /\ workers'[w] = wv[w].width,
           \A w \in Wave : /\ rec'[w].width = rec[w].width
                           /\ rec'[w].units > 0 <=> rec[w].units > 0,
           \A w \in Wave : \/ wv'[w].units = wv[w].units /\ wv'[w].width = wv[w].width
                           \/ wv'[w].units = 0 /\ (workers'[w] = 0 \/ pc' = "down"),
           pc' # "down" => pc # "down" /\ waveNo' = waveNo,
           pc' = "submit" => /\ pc = "submit" /\ Current' = Current
                             /\ wv'[Current].units = wv[Current].units,
           pc' = "retire" => CensusCovers'
    PROVE  CapInv'
<1> USE DEF CapInv
<1>1. \A w \in Wave : /\ workers[w] \in Nat /\ workers'[w] \in Nat
                      /\ rec[w].width \in Nat /\ wv[w].width \in Nat
                      /\ rec[w].units \in Nat /\ wv[w].units \in Nat
                      /\ rec'[w].units \in Nat /\ wv'[w].units \in Nat
  BY DEF TypeInv, TypeOK, WaveState
<1>2. UpIsRecorded'
  BY <1>1 DEF UpIsRecorded, LiveIsRecorded, CurrentIsLive
<1>3. LiveIsRecorded'
  BY <1>1 DEF LiveIsRecorded
<1>4. UpIsLive'
  BY <1>1 DEF UpIsLive, CurrentIsLive
<1>5. NumbersAhead'
  <2> SUFFICES ASSUME pc' # "down", NEW s \in Stage, NEW n \in 1 .. MaxWaves,
                      rec'[<<s, n>>].units > 0
               PROVE  n <= waveNo'[s]
    BY DEF NumbersAhead
  <2>1. <<s, n>> \in Wave
    BY DEF Wave
  <2>2. rec[<<s, n>>].units > 0
    BY <2>1
  <2> QED
    BY <2>2 DEF NumbersAhead
<1>6. CensusCovers' /\ CurrentIsLive'
  BY <1>1 DEF CensusCovers, CurrentIsLive
<1>7. ReservedWithinCap'
  <2> DEFINE reservedNext == Reserved'
  <2>1. ASSUME NEW w \in Wave
        PROVE  Reserved[w] \in Int /\ reservedNext[w] \in Int /\ reservedNext[w] <= Reserved[w]
    <3>1. Reserved[w] = IF workers[w] > 0 \/ (pc = "submit" /\ w = Current)
                          THEN rec[w].width ELSE 0
      BY DEF Reserved
    <3>2. reservedNext[w] = IF workers'[w] > 0 \/ (pc' = "submit" /\ w = Current')
                              THEN rec'[w].width ELSE 0
      BY DEF Reserved
    <3>3. workers'[w] > 0 \/ (pc' = "submit" /\ w = Current')
             => workers[w] > 0 \/ (pc = "submit" /\ w = Current)
      BY <1>1
    <3>4. rec'[w].width = rec[w].width /\ rec[w].width \in Nat
      BY <1>1
    <3> HIDE DEF reservedNext
    <3> QED
      BY <3>1, <3>2, <3>3, <3>4
  <2>3. Total(Wave, MaxVms, Reserved') <= Total(Wave, MaxVms, Reserved)
    BY <2>1, TotalMonotone, InFlightType, CapacityAssumption DEF TypeInv
  <2>4. Total(Wave, MaxVms, Reserved) \in Nat /\ Total(Wave, MaxVms, Reserved') \in Nat
    BY TotalType, InFlightType, CapacityAssumption DEF TypeInv
  <2> QED
    BY <2>3, <2>4, CapacityAssumption DEF ReservedWithinCap
<1> QED
  BY <1>2, <1>3, <1>4, <1>5, <1>6, <1>7

LEMMA AdoptCap == ASSUME Reliable PROVE CapInv /\ Adopt => CapInv'
<1> SUFFICES ASSUME CapInv, Adopt PROVE CapInv'
  OBVIOUS
<1>1. /\ TypeInv' /\ TypeInv /\ TypeOK
      /\ pc = "down" /\ pc' = "observe"
      /\ UNCHANGED <<rec, workers, hidden>>
  BY AdoptType DEF CapInv, TypeInv, Adopt, substrateVars
<1>2. \A w \in Wave : wv'[w] = Adopted(w)
  BY DEF Adopt, Reliable
<1>3. \A w \in Wave : /\ wv'[w].units > 0 <=> rec[w].units > 0
                      /\ rec[w].units > 0 => wv'[w].width = rec[w].width
  <2> SUFFICES ASSUME NEW w \in Wave
               PROVE  /\ wv'[w].units > 0 <=> rec[w].units > 0
                      /\ rec[w].units > 0 => wv'[w].width = rec[w].width
    OBVIOUS
  <2>1. rec[w] \in WaveState /\ rec[w].units \in Nat
    BY <1>1 DEF TypeOK, WaveState
  <2>2. CASE rec[w].units = 0
    <3>1. wv'[w] = NoWave
      BY <1>2, <2>2 DEF Adopted
    <3>2. wv'[w].units = 0
      BY <3>1 DEF NoWave, NewWave
    <3> QED
      BY <2>2, <3>2
  <2>3. CASE rec[w].units # 0
    <3>1. wv'[w] = [rec[w] EXCEPT !.attempts = Max2(1, @)]
      BY <1>2, <2>3 DEF Adopted
    <3> QED
      BY <2>1, <3>1 DEF WaveState
  <2> QED
    BY <2>2, <2>3
<1>4. UpIsRecorded' /\ LiveIsRecorded' /\ UpIsLive'
  BY <1>1, <1>3 DEF CapInv, UpIsRecorded, LiveIsRecorded, UpIsLive
<1>5. NumbersAhead'
  BY <1>1 DEF Adopt, Reliable, NumbersTaken, NumbersAhead
<1>6. CensusCovers' /\ CurrentIsLive'
  BY <1>1 DEF CensusCovers, CurrentIsLive
<1>7. ReservedWithinCap'
  <2>1. Reserved' = Reserved
    BY <1>1 DEF Reserved
  <2> QED
    BY <2>1 DEF CapInv, ReservedWithinCap
<1> QED
  BY <1>1, <1>4, <1>5, <1>6, <1>7 DEF CapInv

LEMMA ObserveCap == ASSUME Reliable PROVE CapInv /\ Observe => CapInv'
<1> SUFFICES ASSUME CapInv, Observe PROVE CapInv'
  OBVIOUS
<1>1. /\ TypeInv' /\ TypeOK
      /\ pc = "observe" /\ pc' = "retire"
      /\ UNCHANGED <<rec, workers, hidden, waveNo>>
      /\ hidden = {}
  BY ObserveType DEF CapInv, TypeInv, Observe, substrateVars
<1>2. \A w \in Wave : wv'[w].units = wv[w].units /\ wv'[w].width = wv[w].width
  BY <1>1 DEF Observe, ListUnits, TypeOK, WaveState
<1>3. CensusCovers'
  BY <1>1 DEF Observe, TakeCensus, CensusReport, Reliable, CensusCovers
<1>4. \A w \in Wave : workers'[w] <= workers[w]
  BY <1>1 DEF TypeOK
<1> QED
  BY <1>1, <1>2, <1>3, <1>4, CapKept

LEMMA RetireCap == ASSUME Reliable PROVE CapInv /\ Retire => CapInv'
<1> SUFFICES ASSUME CapInv, Retire PROVE CapInv'
  OBVIOUS
<1>1. /\ TypeInv' /\ TypeOK
      /\ pc = "retire" /\ pc' \in {"observe", "reap"}
      /\ UNCHANGED <<workers, hidden, waveNo>>
      /\ hidden = {}
  BY RetireType DEF CapInv, TypeInv, Retire, substrateVars
<1>2. PICK dead \in SUBSET Live :
        /\ ProbedDead(dead)
        /\ wv' = [w \in Wave |-> IF w \in Discharged(dead) THEN NoWave
                                 ELSE [wv[w] EXCEPT !.landed = Max2(@, Landed(w))]]
  BY DEF Retire
<1>3. \A w \in Wave : w \in Discharged(dead) => workers[w] = 0
  BY <1>1, <1>2 DEF CapInv, CensusCovers, Discharged, ProbedDead, CensusAbsent,
                    ArrayEnded, StrandedUnconfirmed
<1>4. \A w \in Wave : \/ wv'[w].units = wv[w].units /\ wv'[w].width = wv[w].width
                      \/ wv'[w].units = 0 /\ workers'[w] = 0
  BY <1>1, <1>2, <1>3 DEF NoWave, NewWave, TypeOK, WaveState
<1>5. \A w \in Wave : /\ rec'[w].width = rec[w].width
                      /\ rec'[w].units > 0 <=> rec[w].units > 0
  <2>1. PICK lost \in SUBSET Rising :
          rec' = [w \in Wave |-> IF w \in Rising \ lost THEN Persisted(wv[w]) ELSE rec[w]]
    BY DEF Retire
  <2>2. \A w \in Rising : wv[w].units > 0
    BY DEF Rising, Live, LiveIn
  <2> QED
    BY <2>1, <2>2 DEF CapInv, LiveIsRecorded, Persisted
<1>6. \A w \in Wave : workers'[w] <= workers[w]
  BY <1>1 DEF TypeOK
<1> QED
  BY <1>1, <1>4, <1>5, <1>6, CapKept

\* A process that ends leaves every promise it made in the bucket.
LEMMA EndsCap ==
    ASSUME CapInv, TypeInv', ProcessEnds, UNCHANGED rec, hidden' = {},
           \A w \in Wave : \/ workers'[w] <= workers[w]
                           \/ pc = "submit" /\ w = Current /\ workers'[w] = wv[w].width
    PROVE  CapInv'
<1>1. pc' = "down" /\ \A w \in Wave : wv'[w].units = 0
  BY DEF ProcessEnds, NoWave, NewWave
<1>2. \A w \in Wave : /\ rec'[w].width = rec[w].width
                      /\ rec'[w].units > 0 <=> rec[w].units > 0
  OBVIOUS
<1> QED
  BY <1>1, <1>2, CapKept

LEMMA ReapCap == CapInv /\ ReapStranded => CapInv'
<1> SUFFICES ASSUME CapInv, ReapStranded PROVE CapInv'
  OBVIOUS
<1>1. /\ TypeInv' /\ TypeOK /\ pc = "reap"
      /\ UNCHANGED <<rec, workers, hidden>>
      /\ hidden = {}
  BY ReapType DEF CapInv, TypeInv, ReapStranded
<1>2. \A w \in Wave : workers'[w] <= workers[w]
  BY <1>1 DEF TypeOK
<1>3. CASE ProcessEnds
  BY <1>1, <1>2, <1>3, EndsCap
<1>4. CASE ~ProcessEnds
  <2>1. PICK raised : pc' = "admit" /\ waveNo' = waveNo /\ wv' = Asked(raised)
    BY <1>4 DEF ReapStranded
  <2>2. \A w \in Wave : wv'[w].units = wv[w].units /\ wv'[w].width = wv[w].width
    BY <1>1, <2>1 DEF Asked, TypeOK, WaveState
  <2> QED
    BY <1>1, <1>2, <2>1, <2>2, CapKept
<1> QED
  BY <1>3, <1>4

\* The substrate's part of a submission, under its contract.
LEMMA StartCap ==
    ASSUME Reliable, CapInv, Current \in Wave, StartArray \/ StartNothing
    PROVE  /\ hidden' = {}
           /\ \A w \in Wave : \/ workers'[w] <= workers[w]
                              \/ w = Current /\ workers'[w] = wv[w].width
<1>1. TypeOK /\ hidden = {}
  BY DEF CapInv, TypeInv
<1>2. \A w \in Wave : workers[w] \in Nat
  BY <1>1 DEF TypeOK
<1>3. CASE StartArray
  BY <1>1, <1>2, <1>3 DEF StartArray, Reliable, TypeOK
<1>4. CASE StartNothing
  BY <1>1, <1>2, <1>4 DEF StartNothing, substrateVars
<1> QED
  BY <1>3, <1>4

LEMMA SubmitCap == ASSUME Reliable PROVE CapInv /\ (SubmitAcknowledged \/ SubmitFails) => CapInv'
<1> SUFFICES ASSUME CapInv, SubmitAcknowledged \/ SubmitFails PROVE CapInv'
  OBVIOUS
<1>1. /\ TypeInv' /\ TypeOK
      /\ pc = "submit" /\ pc' \in {"submit", "admit"}
      /\ Current \in Wave
      /\ UNCHANGED waveNo
      /\ StartArray \/ StartNothing
  BY SubmitType DEF CapInv, TypeInv, SubmitOK, SubmitAcknowledged, SubmitFails
<1>2. /\ hidden' = {}
      /\ \A w \in Wave : \/ workers'[w] <= workers[w]
                         \/ w = Current /\ workers'[w] = wv[w].width
  BY <1>1, StartCap
<1>3. wv[Current].units > 0 /\ rec[Current].units > 0 /\ wv[Current].width = rec[Current].width
  BY <1>1 DEF CapInv, CurrentIsLive, LiveIsRecorded
<1>4. PICK x : /\ x.units = wv[Current].units /\ x.width = wv[Current].width
               /\ wv' = [wv EXCEPT ![Current] = x]
               /\ RecordWave(Current, x) \/ rec' = rec
  <2> DEFINE y == [wv[Current] EXCEPT !.attempts = @ + 1]
             z == [y EXCEPT !.acknowledged = TRUE]
  <2>1. wv[Current] \in WaveState
    BY <1>1 DEF TypeOK
  <2>2. y.units = wv[Current].units /\ y.width = wv[Current].width
    BY <2>1 DEF WaveState
  <2>3. z.units = wv[Current].units /\ z.width = wv[Current].width
    BY <2>1 DEF WaveState
  <2>4. CASE SubmitAcknowledged
    BY <2>3, <2>4 DEF SubmitAcknowledged
  <2>5. CASE SubmitFails
    BY <2>2, <2>5 DEF SubmitFails
  <2> QED
    BY <2>4, <2>5
<1>5. \A w \in Wave : wv'[w].units = wv[w].units /\ wv'[w].width = wv[w].width
  BY <1>1, <1>4 DEF TypeOK
<1>6. \A w \in Wave : /\ rec'[w].width = rec[w].width
                      /\ rec'[w].units > 0 <=> rec[w].units > 0
  BY <1>1, <1>3, <1>4 DEF RecordWave, Persisted, TypeOK
<1>7. pc' = "submit" => Current' = Current
  BY <1>1 DEF SubmitAcknowledged, SubmitFails, Current
<1> QED
  BY <1>1, <1>2, <1>5, <1>6, <1>7, CapKept

\* A flush: the new wave's name is idle, and its width fits beside everything
\* already reserved because every reservation is charged.
LEMMA FlushCap == ASSUME Reliable, NEW s \in Stage PROVE CapInv /\ Flush(s) => CapInv'
<1> SUFFICES ASSUME CapInv, Flush(s) PROVE CapInv'
  OBVIOUS
<1> DEFINE w == <<s, waveNo[s] + 1>>
           h == Headroom(wv, ghost)
<1>1. /\ TypeInv' /\ TypeInv /\ TypeOK
      /\ w \in Wave
      /\ pc = "admit" /\ pc' = "submit" /\ h > 0
      /\ stage' = s /\ waveNo' = [waveNo EXCEPT ![s] = @ + 1]
      /\ UNCHANGED <<workers, hidden>>
  <2>1. TypeInv' /\ TypeInv /\ TypeOK
    BY FlushType DEF CapInv, TypeInv
  <2>2. w \in Wave
    BY <2>1, CapacityAssumption DEF TypeOK, Flush, Wave
  <2> QED
    BY <2>1, <2>2 DEF Flush, substrateVars
<1>2. PICK u \in 1 .. MaxUnits :
        LET x == NewWave(u, Min2(u, h))
        IN  wv' = [wv EXCEPT ![w] = x] /\ rec' = [rec EXCEPT ![w] = Persisted(x)]
  BY DEF Flush, RecordWave, Reliable
<1> DEFINE n == Min2(u, h)
<1>3. n \in 0 .. MaxVms /\ n <= h
  BY InFlightType, <1>1 DEF Min2
<1>4. /\ wv'[w].units = u /\ wv'[w].width = n
      /\ rec'[w].units = u /\ rec'[w].width = n
      /\ \A v \in Wave \ {w} : wv'[v] = wv[v] /\ rec'[v] = rec[v]
  BY <1>1, <1>2 DEF NewWave, Persisted, TypeOK
<1>5. Current' = w /\ waveNo'[s] = waveNo[s] + 1
  BY <1>1 DEF Current, TypeOK
<1>6. workers[w] = 0
  <2>1. rec[w].units \in Nat /\ workers[w] \in Nat /\ waveNo[s] \in Nat
    BY <1>1 DEF TypeOK, WaveState
  <2>2. ~(rec[w].units > 0)
    BY <1>1, <2>1 DEF CapInv, NumbersAhead, Wave
  <2> QED
    BY <1>1, <2>1, <2>2 DEF CapInv, UpIsRecorded
<1>7. UpIsRecorded' /\ UpIsLive'
  BY <1>1, <1>4, <1>6 DEF CapInv, UpIsRecorded, UpIsLive
<1>8. LiveIsRecorded' /\ CurrentIsLive' /\ CensusCovers'
  BY <1>1, <1>4, <1>5 DEF CapInv, LiveIsRecorded, CurrentIsLive, CensusCovers
<1>9. NumbersAhead'
  <2> SUFFICES ASSUME NEW t \in Stage, NEW k \in 1 .. MaxWaves, rec'[<<t, k>>].units > 0
               PROVE  k <= waveNo'[t]
    BY DEF NumbersAhead
  <2>1. <<t, k>> \in Wave /\ waveNo[t] \in Nat /\ waveNo'[t] \in Nat /\ waveNo'[t] >= waveNo[t]
    BY <1>1 DEF Wave, TypeOK
  <2>2. CASE <<t, k>> = w
    BY <1>5, <2>1, <2>2
  <2>3. CASE <<t, k>> # w
    <3>1. rec[<<t, k>>].units > 0
      BY <1>4, <2>1, <2>3
    <3>2. k <= waveNo[t]
      BY <1>1, <3>1 DEF CapInv, NumbersAhead
    <3> QED
      BY <2>1, <3>2
  <2> QED
    BY <2>2, <2>3
<1>10. ReservedWithinCap'
  <2> DEFINE was == Reserved
             now == Reserved'
             charge == [v \in Wave |-> IF wv[v].units > 0 THEN Charge(wv[v]) ELSE 0]
  <2>1. was[w] = 0 /\ now[w] = n
    BY <1>1, <1>4, <1>5, <1>6 DEF Reserved
  <2>2. \A v \in Wave : was[v] \in 0 .. MaxVms /\ (v # w => now[v] = was[v])
    BY <1>1, <1>4, <1>5, ReservedType DEF Reserved
  <2>3. \A v \in Wave : charge[v] \in Int /\ was[v] <= charge[v]
    <3> SUFFICES ASSUME NEW v \in Wave PROVE charge[v] \in Int /\ was[v] <= charge[v]
      OBVIOUS
    <3>1. /\ wv[v] \in WaveState /\ wv[v].width \in Nat
          /\ Charge(wv[v]) \in Nat /\ wv[v].width <= Charge(wv[v])
      BY <1>1, ChargeBounds DEF TypeOK, WaveState
    <3>2. was[v] = IF workers[v] > 0 THEN rec[v].width ELSE 0
      BY <1>1 DEF Reserved
    <3>3. workers[v] > 0 => wv[v].units > 0 /\ rec[v].width = wv[v].width
      BY <1>1 DEF CapInv, UpIsLive, LiveIsRecorded
    <3> HIDE DEF was
    <3> QED
      BY <3>1, <3>2, <3>3
  <2> HIDE DEF was, now, charge
  <2>4. IsFiniteSet(Wave) /\ MaxVms \in Nat /\ MaxCharge \in Nat /\ MaxVms <= MaxCharge
    <3>1. \A r \in Nat \ {0}, v \in Nat : r * v \in Nat /\ v <= r * v
      OBVIOUS
    <3> QED
      BY <3>1, InFlightType, <1>1, CapacityAssumption DEF MaxCharge
  <2>5. Total(Wave, MaxVms, now) = Total(Wave, MaxVms, was) + n
    BY <1>1, <1>3, <2>1, <2>2, <2>4, TotalAdds, SMTT(20)
  <2>6. Total(Wave, MaxVms, was) <= Total(Wave, MaxCharge, charge)
    BY <2>2, <2>3, <2>4, TotalMonotone
  <2>7. Total(Wave, MaxCharge, charge) = IntentCharge(wv)
    BY DEF IntentCharge, charge
  <2>8. Total(Wave, MaxVms, was) \in Nat
    BY <2>4, TotalType
  <2>9. IntentCharge(wv) + h <= MaxVms /\ IntentCharge(wv) \in Nat /\ h \in Nat
    BY <1>1, InFlightType
  <2>10. Total(Wave, MaxVms, now) <= MaxVms
    BY <1>3, <2>4, <2>5, <2>6, <2>7, <2>8, <2>9
  <2> QED
    BY <2>10 DEF ReservedWithinCap, now
<1> QED
  BY <1>1, <1>7, <1>8, <1>9, <1>10 DEF CapInv

LEMMA WorldCap == ASSUME NEW w \in Wave PROVE CapInv /\ World(w) => CapInv'
<1> SUFFICES ASSUME CapInv, World(w) PROVE CapInv'
  OBVIOUS
<1>1. /\ TypeInv' /\ TypeOK /\ hidden = {}
      /\ UNCHANGED <<pc, rec, waveNo, census, censusKnown, stage>>
  BY WorldType DEF CapInv, TypeInv, World, UnitLands, WorkersStop, ReapTakesEffect, Appears,
                   ClockRuns, GraceLapses, GhostExpires, driverVars
<1>2. hidden' = {} /\ \A v \in Wave : workers'[v] <= workers[v]
  <2>1. \A v \in Wave : workers[v] \in Nat
    BY <1>1 DEF TypeOK
  <2>2. CASE UNCHANGED <<workers, hidden>>
    BY <1>1, <2>1, <2>2
  <2>3. CASE \E n \in Int : n <= workers[w] /\ SetWorkers(w, n)
    BY <1>1, <2>1, <2>3 DEF SetWorkers, TypeOK
  <2>4. CASE Appears(w)
    BY <1>1, <2>4 DEF Appears
  <2>5. CASE UnitLands(w)
    BY <2>1, <2>3, <2>5 DEF UnitLands
  <2>6. CASE WorkersStop(w) \/ ReapTakesEffect(w)
    BY <2>1, <2>3, <2>6 DEF WorkersStop, ReapTakesEffect
  <2>7. CASE ClockRuns(w) \/ GraceLapses(w) \/ GhostExpires(w)
    BY <2>2, <2>7 DEF ClockRuns, GraceLapses, GhostExpires, substrateVars
  <2> QED
    BY <2>4, <2>5, <2>6, <2>7 DEF World
<1>3. \A v \in Wave : wv'[v].units = wv[v].units /\ wv'[v].width = wv[v].width
  <2>1. CASE GraceLapses(w)
    <3>1. wv' = [wv EXCEPT ![w] = [wv[w] EXCEPT !.reap = "lapsed"]]
      BY <2>1 DEF GraceLapses
    <3> QED
      BY <1>1, <3>1 DEF TypeOK, WaveState
  <2>2. CASE UNCHANGED wv
    BY <2>2
  <2> QED
    BY <2>1, <2>2 DEF World, UnitLands, WorkersStop, ReapTakesEffect, Appears,
                      ClockRuns, GhostExpires, driverVars
<1>4. Current' = Current
  BY <1>1 DEF Current
<1>5. pc' = "retire" => CensusCovers'
  BY <1>1, <1>2 DEF CapInv, CensusCovers, TypeOK, TypeInv
<1>6. (pc' = "submit" => Current \in Wave)
  BY <1>1 DEF CapInv, TypeInv, SubmitOK
<1> QED
  BY <1>1, <1>2, <1>3, <1>4, <1>5, <1>6, CapKept

LEMMA NextCap == ASSUME Reliable PROVE CapInv /\ [Next]_vars => CapInv'
<1> SUFFICES ASSUME CapInv, [Next]_vars PROVE CapInv'
  OBVIOUS
<1>0. TypeInv' /\ TypeOK /\ hidden = {}
  BY NextType DEF CapInv, TypeInv
<1>1. CASE Adopt \/ Observe \/ Retire \/ ReapStranded
  BY <1>1, AdoptCap, ObserveCap, RetireCap, ReapCap
<1>2. CASE Sleep
  <2>1. pc' = "observe" /\ pc = "admit" /\ UNCHANGED <<wv, waveNo, rec, workers, hidden>>
    BY <1>2 DEF Sleep, substrateVars
  <2>2. \A w \in Wave : workers'[w] <= workers[w]
    BY <1>0, <2>1 DEF TypeOK
  <2> QED
    BY <1>0, <2>1, <2>2, CapKept
<1>3. CASE \E s \in Stage : Flush(s)
  BY <1>3, FlushCap
<1>4. CASE SubmitAcknowledged \/ SubmitFails
  BY <1>4, SubmitCap
<1>5. CASE SubmitAborts
  <2>1. Current \in Wave /\ pc = "submit"
    BY <1>5 DEF SubmitAborts, CapInv, TypeInv, SubmitOK
  <2>2. /\ hidden' = {}
        /\ \A w \in Wave : \/ workers'[w] <= workers[w]
                           \/ w = Current /\ workers'[w] = wv[w].width
    BY <1>5, <2>1, StartCap DEF SubmitAborts
  <2> QED
    BY <1>0, <1>5, <2>1, <2>2, EndsCap DEF SubmitAborts
<1>6. CASE Crash
  <2>1. \A w \in Wave : workers'[w] <= workers[w]
    BY <1>0, <1>6 DEF Crash, substrateVars, TypeOK
  <2> QED
    BY <1>0, <1>6, <2>1, EndsCap DEF Crash, substrateVars
<1>7. CASE \E w \in Wave : World(w)
  BY <1>7, WorldCap
<1>8. CASE UNCHANGED vars
  <2>1. UNCHANGED <<pc, stage, wv, waveNo, censusKnown, census, rec, workers, hidden>>
    BY <1>8 DEF vars, driverVars, substrateVars
  <2>2. \A w \in Wave : workers'[w] <= workers[w]
    BY <1>0, <2>1 DEF TypeOK
  <2>3. Current' = Current
    BY <2>1 DEF Current
  <2>4. pc' = "retire" => CensusCovers'
    BY <2>1 DEF CapInv, CensusCovers
  <2> QED
    BY <1>0, <2>1, <2>2, <2>3, <2>4, CapKept
<1> QED
  BY <1>1, <1>2, <1>3, <1>4, <1>5, <1>6, <1>7, <1>8 DEF Next, Driver

LEMMA CapInvSafe == CapInv => SafetyC
<1> SUFFICES ASSUME CapInv PROVE SafetyC
  OBVIOUS
<1>1. TypeOK
  BY DEF CapInv, TypeInv
<1>2. \A w \in Wave : /\ workers[w] \in Int /\ Reserved[w] \in Int
                      /\ workers[w] <= Reserved[w]
  <2> SUFFICES ASSUME NEW w \in Wave
               PROVE  workers[w] \in Int /\ Reserved[w] \in Int /\ workers[w] <= Reserved[w]
    OBVIOUS
  <2>1. workers[w] \in Nat /\ Reserved[w] \in Nat
    BY <1>1, ReservedType DEF TypeOK
  <2>2. workers[w] > 0 => Reserved[w] = rec[w].width /\ workers[w] <= rec[w].width
    BY DEF CapInv, UpIsRecorded, Reserved
  <2> QED
    BY <2>1, <2>2
<1>3. IsFiniteSet(Wave) /\ MaxVms \in Nat
  BY <1>1, InFlightType, CapacityAssumption
<1>4. Total(Wave, MaxVms, workers) <= Total(Wave, MaxVms, Reserved)
  BY <1>2, <1>3, TotalMonotone
<1>5. Total(Wave, MaxVms, workers) \in Nat /\ Total(Wave, MaxVms, Reserved) \in Nat
  BY <1>3, TotalType
<1> QED
  BY <1>3, <1>4, <1>5 DEF CapInv, ReservedWithinCap, SafetyC, Running

\* SAFETY-C: with a control plane that answers truthfully and a bucket that
\* takes the driver's records, the run never has more workers up than
\* fleet_max_vms, whatever is preempted, retried, lost, reaped or resumed.
THEOREM CapHolds == Reliable => (Spec => []SafetyC)
<1> SUFFICES ASSUME Reliable PROVE Spec => []SafetyC
  OBVIOUS
<1>1. Init => CapInv
  BY InitCap
<1>2. CapInv /\ [Next]_vars => CapInv'
  BY NextCap
<1> QED
  BY <1>1, <1>2, CapInvSafe, PTL DEF Spec

\* The same invariant bounds what a driver charges from below: no array that is
\* running has been discharged.
THEOREM ChargesHold == Reliable => (Spec => []ChargeCoversRunning)
<1> SUFFICES ASSUME Reliable PROVE Spec => []ChargeCoversRunning
  OBVIOUS
<1>1. Init => CapInv
  BY InitCap
<1>2. CapInv /\ [Next]_vars => CapInv'
  BY NextCap
<1>3. CapInv => ChargeCoversRunning
  <2> SUFFICES ASSUME CapInv, pc # "down", NEW w \in Wave, workers[w] > 0
               PROVE  wv[w].units > 0 /\ workers[w] <= Charge(wv[w])
    BY DEF ChargeCoversRunning
  <2>1. wv[w] \in WaveState /\ workers[w] \in Nat
    BY DEF CapInv, TypeInv, TypeOK
  <2>2. wv[w].units > 0 /\ workers[w] <= wv[w].width
    BY DEF CapInv, UpIsLive, UpIsRecorded, LiveIsRecorded
  <2>3. wv[w].width <= Charge(wv[w]) /\ wv[w].width \in Nat /\ Charge(wv[w]) \in Nat
    BY <2>1, ChargeBounds DEF WaveState
  <2> QED
    BY <2>1, <2>2, <2>3
<1> QED
  BY <1>1, <1>2, <1>3, PTL DEF Spec

-----------------------------------------------------------------------------
(* Names.  These need a bucket that takes the records and nothing else: the*)
(* control plane may be silent, late or deaf.                              *)

NameInv ==
    /\ TypeInv
    /\ RecordedBeforeStarted
    /\ \A w \in Wave : wv[w].units > 0 => rec[w].units > 0
    /\ NumbersAhead
    /\ CurrentIsLive

\* Most steps start nothing new, take up no new wave and lose no record.
LEMMA NameKept ==
    ASSUME NameInv, TypeInv',
           \A w \in Wave : \/ workers'[w] > 0 => workers[w] > 0
                           \/ pc = "submit" /\ w = Current,
           \A w \in Wave : rec'[w].units > 0 <=> rec[w].units > 0,
           \A w \in Wave : wv'[w].units > 0 => wv[w].units > 0,
           pc' # "down" => pc # "down" /\ waveNo' = waveNo,
           pc' = "submit" => /\ pc = "submit" /\ Current' = Current
                             /\ wv'[Current].units = wv[Current].units
    PROVE  NameInv'
<1> USE DEF NameInv
<1>1. pc = "submit" => Current \in Wave /\ rec[Current].units > 0
  BY DEF TypeInv, SubmitOK, CurrentIsLive
<1>2. RecordedBeforeStarted'
  BY <1>1 DEF RecordedBeforeStarted
<1>3. NumbersAhead'
  <2> SUFFICES ASSUME pc' # "down", NEW s \in Stage, NEW n \in 1 .. MaxWaves,
                      rec'[<<s, n>>].units > 0
               PROVE  n <= waveNo'[s]
    BY DEF NumbersAhead
  <2>1. <<s, n>> \in Wave
    BY DEF Wave
  <2> QED
    BY <2>1 DEF NumbersAhead
<1>4. CurrentIsLive'
  BY DEF CurrentIsLive
<1> QED
  BY <1>2, <1>3, <1>4

\* A process that ends forgets its waves, not their records.
LEMMA EndsName ==
    ASSUME NameInv, TypeInv', ProcessEnds, UNCHANGED rec,
           \A w \in Wave : \/ workers'[w] > 0 => workers[w] > 0
                           \/ pc = "submit" /\ w = Current
    PROVE  NameInv'
<1>1. pc' = "down" /\ \A w \in Wave : wv'[w].units = 0
  BY DEF ProcessEnds, NoWave, NewWave
<1> QED
  BY <1>1, NameKept

LEMMA AdoptName == ASSUME ~StoreFails PROVE NameInv /\ Adopt => NameInv'
<1> SUFFICES ASSUME NameInv, Adopt PROVE NameInv'
  OBVIOUS
<1>1. /\ TypeInv' /\ TypeOK
      /\ pc' = "observe"
      /\ UNCHANGED <<rec, workers>>
  BY AdoptType DEF NameInv, TypeInv, Adopt, substrateVars
<1>2. \A w \in Wave : wv'[w] = Adopted(w)
  BY DEF Adopt
<1>3. ASSUME NEW w \in Wave, wv'[w].units > 0 PROVE rec'[w].units > 0
  <2>1. rec[w].units \in Nat
    BY <1>1 DEF TypeOK, WaveState
  <2>2. CASE rec[w].units = 0
    <3>1. wv'[w] = NoWave
      BY <1>2, <2>2 DEF Adopted
    <3>2. wv'[w].units = 0
      BY <3>1 DEF NoWave, NewWave
    <3> QED
      BY <1>3, <3>2
  <2> QED
    BY <1>1, <2>1, <2>2
<1>4. NumbersAhead'
  BY <1>1 DEF Adopt, NumbersTaken, NumbersAhead
<1>5. RecordedBeforeStarted' /\ CurrentIsLive'
  BY <1>1 DEF NameInv, RecordedBeforeStarted, CurrentIsLive
<1> QED
  BY <1>1, <1>3, <1>4, <1>5 DEF NameInv

LEMMA PollName ==
    ASSUME ~StoreFails
    PROVE  NameInv /\ (Observe \/ Retire \/ ReapStranded \/ Sleep) => NameInv'
<1> SUFFICES ASSUME NameInv, Observe \/ Retire \/ ReapStranded \/ Sleep PROVE NameInv'
  OBVIOUS
<1>1. TypeInv' /\ TypeOK
  BY NextType DEF NameInv, TypeInv, Next, Driver
<1>2. CASE Observe
  <2>1. /\ pc = "observe" /\ pc' = "retire" /\ UNCHANGED <<workers, rec, waveNo>>
        /\ \A w \in Wave : wv'[w].units = wv[w].units
    BY <1>1, <1>2 DEF Observe, ListUnits, substrateVars, TypeOK, WaveState
  <2> QED
    BY <1>1, <2>1, NameKept
<1>3. CASE Retire
  <2>1. /\ pc = "retire" /\ pc' \in {"observe", "reap"} /\ UNCHANGED <<workers, waveNo>>
    BY <1>3 DEF Retire, substrateVars
  <2>2. \A w \in Wave : wv'[w].units > 0 => wv[w].units > 0
    BY <1>1, <1>3 DEF Retire, NoWave, NewWave, TypeOK, WaveState
  <2>3. \A w \in Wave : rec'[w].units > 0 <=> rec[w].units > 0
    <3>1. PICK lost \in SUBSET Rising :
            rec' = [w \in Wave |-> IF w \in Rising \ lost THEN Persisted(wv[w]) ELSE rec[w]]
      BY <1>3 DEF Retire
    <3>2. \A w \in Rising : wv[w].units > 0
      BY DEF Rising, Live, LiveIn
    <3> QED
      BY <3>1, <3>2 DEF NameInv, Persisted
  <2> QED
    BY <1>1, <2>1, <2>2, <2>3, NameKept
<1>4. CASE ReapStranded
  <2>1. pc = "reap" /\ UNCHANGED <<workers, rec>>
    BY <1>4 DEF ReapStranded
  <2>2. CASE ProcessEnds
    BY <1>1, <2>1, <2>2, EndsName
  <2>3. CASE ~ProcessEnds
    <3>1. PICK raised : pc' = "admit" /\ waveNo' = waveNo /\ wv' = Asked(raised)
      BY <1>4, <2>3 DEF ReapStranded
    <3>2. \A w \in Wave : wv'[w].units = wv[w].units
      BY <1>1, <3>1 DEF Asked, TypeOK, WaveState
    <3> QED
      BY <1>1, <2>1, <3>1, <3>2, NameKept
  <2> QED
    BY <2>2, <2>3
<1>5. CASE Sleep
  <2>1. pc = "admit" /\ pc' = "observe" /\ UNCHANGED <<wv, waveNo, rec, workers>>
    BY <1>5 DEF Sleep, substrateVars
  <2> QED
    BY <1>1, <2>1, NameKept
<1> QED
  BY <1>2, <1>3, <1>4, <1>5

\* A flush: the number it takes is past every record, so its name is idle.
LEMMA FlushName ==
    ASSUME ~StoreFails, NEW s \in Stage
    PROVE  NameInv /\ Flush(s) =>
              NameInv' /\ \A w \in Wave : wv[w].units = 0 /\ wv'[w].units > 0 => workers[w] = 0
<1> SUFFICES ASSUME NameInv, Flush(s)
             PROVE  /\ NameInv'
                    /\ \A w \in Wave : wv[w].units = 0 /\ wv'[w].units > 0 => workers[w] = 0
  OBVIOUS
<1> DEFINE w == <<s, waveNo[s] + 1>>
<1>1. /\ TypeInv' /\ TypeOK
      /\ w \in Wave
      /\ pc = "admit" /\ pc' = "submit"
      /\ stage' = s /\ waveNo' = [waveNo EXCEPT ![s] = @ + 1]
      /\ UNCHANGED workers
  <2>1. TypeInv' /\ TypeOK
    BY FlushType DEF NameInv, TypeInv
  <2>2. w \in Wave
    BY <2>1, CapacityAssumption DEF TypeOK, Flush, Wave
  <2> QED
    BY <2>1, <2>2 DEF Flush, substrateVars
<1> DEFINE x(u) == NewWave(u, Min2(u, Headroom(wv, ghost)))
<1>2. PICK u \in 1 .. MaxUnits : /\ wv' = [wv EXCEPT ![w] = x(u)]
                                 /\ rec' = [rec EXCEPT ![w] = Persisted(x(u))]
  BY DEF Flush, RecordWave
<1>2a. x(u).units = u /\ u > 0
  BY DEF NewWave
<1> HIDE DEF x
<1>3. Current' = w /\ waveNo'[s] = waveNo[s] + 1
  BY <1>1 DEF Current, TypeOK
<1>4. workers[w] = 0
  <2>1. rec[w].units \in Nat /\ workers[w] \in Nat /\ waveNo[s] \in Nat
    BY <1>1 DEF TypeOK, WaveState
  <2>2. ~(rec[w].units > 0)
    BY <1>1, <2>1 DEF NameInv, NumbersAhead, Wave
  <2> QED
    BY <1>1, <2>1, <2>2 DEF NameInv, RecordedBeforeStarted
<1>5. /\ wv'[w].units > 0 /\ rec'[w].units > 0
      /\ \A v \in Wave \ {w} : wv'[v] = wv[v] /\ rec'[v] = rec[v]
  BY <1>1, <1>2, <1>2a DEF Persisted, TypeOK
<1>6. RecordedBeforeStarted' /\ CurrentIsLive'
  BY <1>1, <1>3, <1>5 DEF NameInv, RecordedBeforeStarted, CurrentIsLive
<1>7. \A v \in Wave : wv'[v].units > 0 => rec'[v].units > 0
  BY <1>5 DEF NameInv
<1>8. NumbersAhead'
  <2> SUFFICES ASSUME NEW t \in Stage, NEW k \in 1 .. MaxWaves, rec'[<<t, k>>].units > 0
               PROVE  k <= waveNo'[t]
    BY DEF NumbersAhead
  <2>1. <<t, k>> \in Wave /\ waveNo[t] \in Nat /\ waveNo'[t] \in Nat /\ waveNo'[t] >= waveNo[t]
    BY <1>1 DEF Wave, TypeOK
  <2>2. CASE <<t, k>> = w
    BY <1>3, <2>1, <2>2
  <2>3. CASE <<t, k>> # w
    <3>1. rec[<<t, k>>].units > 0
      BY <1>5, <2>1, <2>3
    <3>2. k <= waveNo[t]
      BY <1>1, <3>1 DEF NameInv, NumbersAhead
    <3> QED
      BY <2>1, <3>2
  <2> QED
    BY <2>2, <2>3
<1>9. \A v \in Wave : wv[v].units = 0 /\ wv'[v].units > 0 => workers[v] = 0
  BY <1>4, <1>5
<1> QED
  BY <1>1, <1>6, <1>7, <1>8, <1>9 DEF NameInv

LEMMA SubmitName == NameInv /\ (SubmitAcknowledged \/ SubmitFails) => NameInv'
<1> SUFFICES ASSUME NameInv, SubmitAcknowledged \/ SubmitFails PROVE NameInv'
  OBVIOUS
<1>1. /\ TypeInv' /\ TypeOK
      /\ pc = "submit" /\ pc' \in {"submit", "admit"}
      /\ Current \in Wave /\ wv[Current].units > 0 /\ rec[Current].units > 0
      /\ UNCHANGED waveNo
      /\ StartArray \/ StartNothing
  BY SubmitType DEF NameInv, TypeInv, SubmitOK, CurrentIsLive, SubmitAcknowledged, SubmitFails
<1>2. \A w \in Wave : \/ workers'[w] > 0 => workers[w] > 0
                      \/ pc = "submit" /\ w = Current
  BY <1>1 DEF StartArray, StartNothing, substrateVars, TypeOK
<1>3. PICK x : /\ x.units = wv[Current].units
               /\ wv' = [wv EXCEPT ![Current] = x]
               /\ RecordWave(Current, x) \/ rec' = rec
  <2> DEFINE y == [wv[Current] EXCEPT !.attempts = @ + 1]
             z == [y EXCEPT !.acknowledged = TRUE]
  <2>1. wv[Current] \in WaveState
    BY <1>1 DEF TypeOK
  <2>2. y.units = wv[Current].units /\ z.units = wv[Current].units
    BY <2>1 DEF WaveState
  <2>3. CASE SubmitAcknowledged
    BY <2>2, <2>3 DEF SubmitAcknowledged
  <2>4. CASE SubmitFails
    BY <2>2, <2>4 DEF SubmitFails
  <2> QED
    BY <2>3, <2>4
<1>4. \A w \in Wave : wv'[w].units = wv[w].units
  BY <1>1, <1>3 DEF TypeOK
<1>5. \A w \in Wave : rec'[w].units > 0 <=> rec[w].units > 0
  BY <1>1, <1>3 DEF RecordWave, Persisted, TypeOK
<1>6. pc' = "submit" => Current' = Current
  BY <1>1 DEF SubmitAcknowledged, SubmitFails, Current
<1> QED
  BY <1>1, <1>2, <1>4, <1>5, <1>6, NameKept

LEMMA WorldName == ASSUME NEW w \in Wave PROVE NameInv /\ World(w) => NameInv'
<1> SUFFICES ASSUME NameInv, World(w) PROVE NameInv'
  OBVIOUS
<1>1. /\ TypeInv' /\ TypeOK
      /\ UNCHANGED <<pc, rec, waveNo, stage>>
  BY WorldType DEF NameInv, TypeInv, World, UnitLands, WorkersStop, ReapTakesEffect, Appears,
                   ClockRuns, GraceLapses, GhostExpires, driverVars
<1>2. \A v \in Wave : workers'[v] > 0 => workers[v] > 0
  <2>1. CASE UNCHANGED workers
    BY <2>1
  <2>2. CASE workers[w] > 0 /\ \E n : SetWorkers(w, n)
    BY <1>1, <2>2 DEF SetWorkers, TypeOK
  <2>3. CASE ReapTakesEffect(w)
    BY <1>1, <2>3 DEF ReapTakesEffect, SetWorkers, TypeOK
  <2> QED
    BY <2>1, <2>2, <2>3 DEF World, UnitLands, WorkersStop, Appears,
                            ClockRuns, GraceLapses, GhostExpires, substrateVars
<1>3. \A v \in Wave : wv'[v].units = wv[v].units
  <2>1. CASE GraceLapses(w)
    <3>1. wv' = [wv EXCEPT ![w] = [wv[w] EXCEPT !.reap = "lapsed"]]
      BY <2>1 DEF GraceLapses
    <3> QED
      BY <1>1, <3>1 DEF TypeOK, WaveState
  <2>2. CASE UNCHANGED wv
    BY <2>2
  <2> QED
    BY <2>1, <2>2 DEF World, UnitLands, WorkersStop, ReapTakesEffect, Appears,
                      ClockRuns, GhostExpires, driverVars
<1>4. Current' = Current
  BY <1>1 DEF Current
<1>5. pc = "submit" => Current \in Wave
  BY DEF NameInv, TypeInv, SubmitOK
<1> QED
  BY <1>1, <1>2, <1>3, <1>4, <1>5, NameKept

LEMMA NextName == ASSUME ~StoreFails PROVE NameInv /\ [Next]_vars => NameInv'
<1> SUFFICES ASSUME NameInv, [Next]_vars PROVE NameInv'
  OBVIOUS
<1>0. TypeInv' /\ TypeOK
  BY NextType DEF NameInv, TypeInv
<1>1. CASE Adopt
  BY <1>1, AdoptName
<1>2. CASE Observe \/ Retire \/ ReapStranded \/ Sleep
  BY <1>2, PollName
<1>3. CASE \E s \in Stage : Flush(s)
  BY <1>3, FlushName
<1>4. CASE SubmitAcknowledged \/ SubmitFails
  BY <1>4, SubmitName
<1>5. CASE SubmitAborts
  <2>1. \A w \in Wave : \/ workers'[w] > 0 => workers[w] > 0
                        \/ pc = "submit" /\ w = Current
    BY <1>0, <1>5 DEF SubmitAborts, StartArray, StartNothing, substrateVars, TypeOK
  <2> QED
    BY <1>0, <1>5, <2>1, EndsName DEF SubmitAborts
<1>6. CASE Crash
  BY <1>0, <1>6, EndsName DEF Crash, substrateVars
<1>7. CASE \E w \in Wave : World(w)
  BY <1>7, WorldName
<1>8. CASE UNCHANGED vars
  <2>1. UNCHANGED <<pc, stage, wv, waveNo, rec, workers>>
    BY <1>8 DEF vars, driverVars, substrateVars
  <2>2. Current' = Current
    BY <2>1 DEF Current
  <2> QED
    BY <1>0, <2>1, <2>2, NameKept
<1> QED
  BY <1>1, <1>2, <1>3, <1>4, <1>5, <1>6, <1>7, <1>8 DEF Next, Driver

LEMMA InitName == Init => NameInv
<1> SUFFICES ASSUME Init PROVE NameInv
  OBVIOUS
<1>1. TypeInv
  BY InitType
<1>2. /\ \A w \in Wave : workers[w] = 0 /\ wv[w].units = 0
      /\ pc = "down"
  BY DEF Init, NoWave, NewWave
<1> QED
  BY <1>1, <1>2 DEF NameInv, RecordedBeforeStarted, NumbersAhead, CurrentIsLive

\* Only a flush takes up a new wave while a driver is admitting work.
LEMMA AdmitTakesUp ==
    ASSUME ~StoreFails, NameInv, [Next]_vars, pc = "admit",
           NEW w \in Wave, wv[w].units = 0, wv'[w].units > 0
    PROVE  workers[w] = 0
<1>0. TypeOK
  BY DEF NameInv, TypeInv
<1>1. CASE \E s \in Stage : Flush(s)
  BY <1>1, FlushName
<1>2. CASE Crash
  BY <1>2 DEF Crash, ProcessEnds, NoWave, NewWave
<1>3. CASE UNCHANGED wv
  BY <1>3
<1>4. CASE \E v \in Wave : GraceLapses(v)
  <2>1. PICK v \in Wave : wv' = [wv EXCEPT ![v] = [wv[v] EXCEPT !.reap = "lapsed"]]
    BY <1>4 DEF GraceLapses
  <2>2. wv'[w].units = wv[w].units
    BY <1>0, <2>1 DEF TypeOK, WaveState
  <2> QED
    BY <2>2
<1> QED
  BY <1>1, <1>2, <1>3, <1>4
     DEF Next, Driver, Adopt, Observe, Retire, ReapStranded, Sleep, SubmitAcknowledged,
         SubmitFails, SubmitAborts, World, UnitLands, WorkersStop, ReapTakesEffect, Appears,
         ClockRuns, GhostExpires, vars, driverVars

\* Every array that runs is recorded, so a resumed driver finds it: the record is
\* written before the submission.  The control plane may fail in any way.
THEOREM RecordsPrecedeWorkers == ~StoreFails => (Spec => []RecordedBeforeStarted)
<1> SUFFICES ASSUME ~StoreFails PROVE Spec => []RecordedBeforeStarted
  OBVIOUS
<1>1. NameInv /\ [Next]_vars => NameInv'
  BY NextName
<1>2. NameInv => RecordedBeforeStarted
  BY DEF NameInv
<1> QED
  BY <1>1, <1>2, InitName, PTL DEF Spec

\* A new wave never takes the name of an array that is still running, in the
\* process that started it or a resumed one.
THEOREM NamesAreFree == ~StoreFails => (Spec => NameIsFree)
<1> SUFFICES ASSUME ~StoreFails PROVE Spec => NameIsFree
  OBVIOUS
<1> DEFINE Free == \A w \in Wave :
                     wv[w].units = 0 /\ wv'[w].units > 0 /\ pc = "admit" => workers[w] = 0
<1>1. NameInv /\ [Next]_vars => NameInv'
  BY NextName
<1>2. NameInv /\ [Next]_vars => [Free]_vars
  BY AdmitTakesUp
<1> QED
  BY <1>1, <1>2, InitName, PTL DEF Spec, NameIsFree

-----------------------------------------------------------------------------
(* The refinement.                                                         *)

\* The pool's sum of widths is the driver's.
LEMMA PoolTotal == ASSUME NEW f PROVE Pool!Total(Wave, MaxVms, f) = Total(Wave, MaxVms, f)
<1>1. ASSUME NEW S PROVE Pool!Cardinality(S) = Cardinality(S)
  BY DEF Pool!Cardinality, Cardinality
<1> QED
  BY <1>1 DEF Pool!Total, Pool!SlotsOf, Total, SlotsOf

\* A step is a shrink of the pool when workers only go away, records keep their
\* widths and no submission begins.
LEMMA PoolShrinks ==
    ASSUME CapInv, TypeInv',
           \A w \in Wave : workers'[w] <= workers[w],
           \A w \in Wave : rec'[w].width = rec[w].width,
           pc' = "submit" => pc = "submit" /\ Current' = Current
    PROVE  Pool!Shrink
<1>1. TypeOK /\ TypeOK'
  BY DEF CapInv, TypeInv
<1>2. \A w \in Wave : workers[w] \in Nat /\ workers'[w] \in 0 .. MaxVms
  BY <1>1, CapacityAssumption DEF TypeOK
<1>3. workers' \in [Wave -> 0 .. MaxVms]
  BY <1>1 DEF TypeOK
<1>4. Reserved' \in [Wave -> 0 .. MaxVms]
  BY <1>1, CapacityAssumption DEF Reserved, TypeOK, WaveState
<1> DEFINE was == Reserved
           now == Reserved'
<1>5. ASSUME NEW w \in Wave
      PROVE  now[w] = was[w] \/ (workers'[w] = 0 /\ now[w] = 0)
  <2>1. was[w] = IF workers[w] > 0 \/ (pc = "submit" /\ w = Current)
                   THEN rec[w].width ELSE 0
    BY DEF Reserved
  <2>2. now[w] = IF workers'[w] > 0 \/ (pc' = "submit" /\ w = Current')
                   THEN rec'[w].width ELSE 0
    BY DEF Reserved
  <2> HIDE DEF was, now
  <2> QED
    BY <1>2, <2>1, <2>2
<1> QED
  BY <1>3, <1>4, <1>5 DEF Pool!Shrink

\* A submission that starts its array starts it at the reserved width.
LEMMA PoolStarts ==
    ASSUME CapInv, TypeInv', StartArray, pc = "submit",
           rec'[Current].width = rec[Current].width,
           \A w \in Wave : rec'[w].width = rec[w].width,
           pc' = "submit" => Current' = Current
    PROVE  Pool!Start(Current)
<1>1. TypeOK /\ TypeOK' /\ Current \in Wave
  BY DEF CapInv, TypeInv, SubmitOK
<1>2. /\ workers[Current] = 0
      /\ workers' = [workers EXCEPT ![Current] = wv[Current].width]
  BY DEF StartArray
<1>3. wv[Current].width = rec[Current].width
  BY <1>1 DEF CapInv, CurrentIsLive, LiveIsRecorded
<1>4. \A w \in Wave : rec[w].width \in Nat /\ workers[w] \in Nat
  BY <1>1 DEF TypeOK, WaveState
<1> DEFINE was == Reserved
           now == Reserved'
<1>5. was[Current] = rec[Current].width
  BY <1>1 DEF Reserved
<1>6. ASSUME NEW w \in Wave PROVE now[w] = was[w]
  <2>1. was[w] = IF workers[w] > 0 \/ w = Current THEN rec[w].width ELSE 0
    BY DEF Reserved
  <2>2. now[w] = IF workers'[w] > 0 \/ (pc' = "submit" /\ w = Current')
                   THEN rec'[w].width ELSE 0
    BY DEF Reserved
  <2>3. w # Current => workers'[w] = workers[w]
    BY <1>1, <1>2 DEF TypeOK
  <2>4. workers'[Current] = rec[Current].width
    BY <1>1, <1>2, <1>3 DEF TypeOK
  <2> HIDE DEF was, now
  <2> QED
    BY <1>1, <1>4, <2>1, <2>2, <2>3, <2>4
<1>7. Reserved' = Reserved
  <2>1. /\ was = [w \in Wave |-> was[w]]
        /\ now = [w \in Wave |-> now[w]]
    BY DEF Reserved
  <2> HIDE DEF was, now
  <2>2. was = now
    BY <1>6, <2>1
  <2> QED
    BY <2>2 DEF was, now
<1> QED
  BY <1>2, <1>3, <1>5, <1>7 DEF Pool!Start

\* A flush sets the new wave's width aside, within the cap.
LEMMA PoolReserves ==
    ASSUME Reliable, NEW s \in Stage, CapInv, Flush(s), CapInv'
    PROVE  \E w \in Wave : Pool!Reserve(w)
<1> DEFINE w == <<s, waveNo[s] + 1>>
           h == Headroom(wv, ghost)
<1>1. /\ TypeOK /\ TypeOK' /\ w \in Wave
      /\ pc = "admit" /\ pc' = "submit" /\ h > 0
      /\ stage' = s /\ waveNo' = [waveNo EXCEPT ![s] = @ + 1]
      /\ workers' = workers
  <2>1. TypeOK /\ TypeOK'
    BY DEF CapInv, TypeInv
  <2>2. w \in Wave
    BY <2>1, CapacityAssumption DEF TypeOK, Flush, Wave
  <2> QED
    BY <2>1, <2>2 DEF Flush, substrateVars
<1>2. PICK u \in 1 .. MaxUnits :
        rec' = [rec EXCEPT ![w] = Persisted(NewWave(u, Min2(u, h)))]
  BY DEF Flush, RecordWave, Reliable
<1> DEFINE n == Min2(u, h)
<1>3. n \in 1 .. MaxVms
  BY InFlightType, <1>1 DEF CapInv, Min2
<1>4. rec'[w].width = n /\ \A v \in Wave \ {w} : rec'[v] = rec[v]
  BY <1>1, <1>2 DEF NewWave, Persisted, TypeOK
<1>5. Current' = w
  BY <1>1 DEF Current, TypeOK
<1>6. workers[w] = 0
  <2>1. rec[w].units \in Nat /\ workers[w] \in Nat /\ waveNo[s] \in Nat
    BY <1>1 DEF TypeOK, WaveState
  <2>2. ~(rec[w].units > 0)
    BY <1>1, <2>1 DEF CapInv, NumbersAhead, Wave
  <2> QED
    BY <1>1, <2>1, <2>2 DEF CapInv, UpIsRecorded
<1> HIDE DEF w, n
<1> DEFINE was == Reserved
           now == Reserved'
<1>7. /\ was[w] = 0 /\ now[w] = n
      /\ \A v \in Wave \ {w} : now[v] = was[v]
  BY <1>1, <1>4, <1>5, <1>6 DEF Reserved
<1>8. /\ was = [v \in Wave |-> was[v]]
      /\ now = [v \in Wave |-> now[v]]
  BY DEF Reserved
<1>9. now = [was EXCEPT ![w] = n]
  <2> HIDE DEF was, now
  <2> QED
    BY <1>1, <1>7, <1>8
<1>10. Total(Wave, MaxVms, Reserved') <= MaxVms
  BY DEF CapInv, ReservedWithinCap
<1>11. /\ Reserved[w] = 0
       /\ \E m \in 1 .. MaxVms : Reserved' = [Reserved EXCEPT ![w] = m]
  BY <1>3, <1>7, <1>9 DEF was, now
<1>12. Pool!Total(Wave, MaxVms, Reserved') <= MaxVms
  BY <1>10, PoolTotal
<1>13. Pool!Reserve(w)
  BY <1>1, <1>11, <1>12 DEF Pool!Reserve
<1> QED
  BY <1>1, <1>13

\* What a step of the poll does to the records: they keep their widths.
LEMMA PollKeepsWidths ==
    ASSUME CapInv, Retire
    PROVE  \A w \in Wave : rec'[w].width = rec[w].width
<1>1. PICK lost \in SUBSET Rising :
        rec' = [w \in Wave |-> IF w \in Rising \ lost THEN Persisted(wv[w]) ELSE rec[w]]
  BY DEF Retire
<1>2. \A w \in Rising : wv[w].units > 0
  BY DEF Rising, Live, LiveIn
<1> QED
  BY <1>1, <1>2 DEF CapInv, LiveIsRecorded, Persisted

\* The same of an attempt, and what it can do to the workers.
LEMMA SubmitKeepsWidths ==
    ASSUME CapInv, SubmitAcknowledged \/ SubmitFails
    PROVE  \A w \in Wave : rec'[w].width = rec[w].width
<1>1. /\ TypeOK /\ pc = "submit" /\ Current \in Wave
      /\ wv[Current].width = rec[Current].width /\ wv[Current] \in WaveState
  BY DEF CapInv, TypeInv, TypeOK, SubmitOK, CurrentIsLive, LiveIsRecorded,
         SubmitAcknowledged, SubmitFails
<1> DEFINE y == [wv[Current] EXCEPT !.attempts = @ + 1]
           z == [y EXCEPT !.acknowledged = TRUE]
<1>2. Persisted(y).width = rec[Current].width /\ Persisted(z).width = rec[Current].width
  BY <1>1 DEF WaveState, Persisted
<1>3. \/ rec' = [rec EXCEPT ![Current] = Persisted(y)]
      \/ rec' = [rec EXCEPT ![Current] = Persisted(z)]
      \/ rec' = rec
  <2>1. CASE SubmitAcknowledged
    BY <2>1 DEF SubmitAcknowledged, RecordWave
  <2>2. CASE SubmitFails
    BY <2>2 DEF SubmitFails, RecordWave
  <2> QED
    BY <2>1, <2>2
<1> HIDE DEF y, z
<1> QED
  BY <1>1, <1>2, <1>3 DEF TypeOK

\* A submission of any outcome starts its array in the pool, or is a shrink.
LEMMA PoolSubmits ==
    ASSUME CapInv, TypeInv', SubmitAcknowledged \/ SubmitFails \/ SubmitAborts
    PROVE  Pool!Shrink \/ \E w \in Wave : Pool!Start(w)
<1>1. /\ TypeOK /\ pc = "submit" /\ Current \in Wave
      /\ StartArray \/ StartNothing
  BY DEF CapInv, TypeInv, SubmitOK, SubmitAcknowledged, SubmitFails, SubmitAborts
<1>2. \A w \in Wave : rec'[w].width = rec[w].width
  BY SubmitKeepsWidths DEF SubmitAborts
<1>3. pc' = "submit" => Current' = Current
  BY DEF SubmitAcknowledged, SubmitFails, SubmitAborts, ProcessEnds, Current
<1>4. CASE StartArray
  BY <1>1, <1>2, <1>3, <1>4, PoolStarts
<1>5. CASE StartNothing
  <2>1. \A w \in Wave : workers'[w] <= workers[w]
    BY <1>1, <1>5 DEF StartNothing, substrateVars, TypeOK
  <2> QED
    BY <1>1, <1>2, <1>3, <2>1, PoolShrinks
<1> QED
  BY <1>1, <1>4, <1>5

\* Outside the driver, workers only go away.
LEMMA WorldShrinks ==
    ASSUME CapInv, TypeInv', NEW w \in Wave, World(w)
    PROVE  Pool!Shrink
<1>1. /\ TypeOK
      /\ UNCHANGED <<pc, rec, stage, waveNo>>
  BY DEF CapInv, TypeInv, World, UnitLands, WorkersStop, ReapTakesEffect, Appears,
         ClockRuns, GraceLapses, GhostExpires, driverVars
<1>2. \A v \in Wave : workers[v] \in Nat
  BY <1>1 DEF TypeOK
<1>3. \A v \in Wave : workers'[v] <= workers[v]
  <2>1. CASE UNCHANGED workers
    BY <1>2, <2>1
  <2>2. CASE \E n \in Int : n <= workers[w] /\ SetWorkers(w, n)
    BY <1>1, <1>2, <2>2 DEF SetWorkers, TypeOK
  <2>3. CASE UnitLands(w)
    <3>1. SetWorkers(w, IF todo[w] = 1 THEN 0 ELSE workers[w])
      BY <2>3 DEF UnitLands
    <3> QED
      BY <1>2, <2>2, <3>1
  <2>4. CASE WorkersStop(w)
    BY <1>2, <2>2, <2>4 DEF WorkersStop
  <2>5. CASE ReapTakesEffect(w)
    BY <1>2, <2>2, <2>5 DEF ReapTakesEffect
  <2> QED
    BY <2>1, <2>3, <2>4, <2>5 DEF World, Appears, ClockRuns, GraceLapses, GhostExpires,
                                  substrateVars
<1>4. Current' = Current
  BY <1>1 DEF Current
<1> QED
  BY <1>1, <1>3, <1>4, PoolShrinks

\* Every step of the driver and its world is a step of the pool.
LEMMA PoolStep ==
    ASSUME Reliable, CapInv, CapInv', [Next]_vars
    PROVE  [Pool!PoolNext]_(Pool!poolVars)
<1>0. TypeOK /\ TypeInv'
  BY DEF CapInv, TypeInv
<1>1. CASE \E s \in Stage : Flush(s)
  BY <1>1, PoolReserves DEF Pool!PoolNext
<1>2. CASE SubmitAcknowledged \/ SubmitFails \/ SubmitAborts
  BY <1>0, <1>2, PoolSubmits DEF Pool!PoolNext
<1>3. CASE \E w \in Wave : World(w)
  BY <1>0, <1>3, WorldShrinks DEF Pool!PoolNext
<1>4. CASE Adopt \/ Observe \/ Retire \/ ReapStranded \/ Sleep \/ Crash
  <2>1. UNCHANGED workers /\ (UNCHANGED rec \/ Retire)
    BY <1>4 DEF Adopt, Observe, Retire, ReapStranded, Sleep, Crash, substrateVars
  <2>2. \A w \in Wave : workers'[w] <= workers[w]
    BY <1>0, <2>1 DEF TypeOK
  <2>3. \A w \in Wave : rec'[w].width = rec[w].width
    BY <2>1, PollKeepsWidths
  <2>4. pc' # "submit"
    BY <1>4 DEF Adopt, Observe, Retire, ReapStranded, Sleep, Crash, ProcessEnds
  <2> QED
    BY <1>0, <2>2, <2>3, <2>4, PoolShrinks DEF Pool!PoolNext
<1>5. CASE UNCHANGED vars
  <2>1. UNCHANGED <<pc, stage, waveNo, rec, workers>>
    BY <1>5 DEF vars, driverVars, substrateVars
  <2>2. UNCHANGED Reserved
    BY <2>1 DEF Reserved, Current
  <2> QED
    BY <2>1, <2>2 DEF Pool!poolVars
<1> QED
  BY <1>1, <1>2, <1>3, <1>4, <1>5 DEF Next, Driver

\* Nothing runs and nothing is set aside at first.
LEMMA PoolStartsEmpty == Init => Pool!PoolInit
BY DEF Init, Reserved, Pool!PoolInit

\* With a control plane that answers and a bucket that takes the records, the
\* driver with its crashes, retries and resumes implements the pool: each name's
\* width is set aside within the cap before its array starts, and is held for as
\* long as the array has workers.  FleetDriver._flush, _submit_with_retries and
\* _retire against SAFETY-C.
THEOREM DriverIsPool == Reliable => (Spec => ImplementsPool)
<1> SUFFICES ASSUME Reliable PROVE Spec => ImplementsPool
  OBVIOUS
<1>1. Init => CapInv
  BY InitCap
<1>2. CapInv /\ [Next]_vars => CapInv'
  BY NextCap
<1>3. Init => Pool!PoolInit
  BY PoolStartsEmpty
<1>4. CapInv /\ CapInv' /\ [Next]_vars => [Pool!PoolNext]_(Pool!poolVars)
  BY PoolStep
<1> QED
  BY <1>1, <1>2, <1>3, <1>4, PTL DEF Spec, ImplementsPool, Pool!PoolSpec

-----------------------------------------------------------------------------
(* Releases.  No assumption on the environment: every outage, lag and lost *)
(* write the model has is allowed.                                         *)

\* A wave the driver reads as fully landed has nothing left to compute: a
\* listing that fails errs towards units that look absent.
AbsenceIsSafe ==
    pc = "retire" =>
        \A w \in Wave : wv[w].units > 0 /\ wv[w].outstanding = 0 => todo[w] = 0

EarnInv == TypeInv /\ AbsenceIsSafe

LEMMA ObserveEarns == TypeInv /\ Observe => AbsenceIsSafe'
<1> SUFFICES ASSUME TypeInv, Observe, NEW w \in Wave,
                    wv'[w].units > 0, wv'[w].outstanding = 0
             PROVE  todo'[w] = 0
  BY DEF AbsenceIsSafe
<1>1. TypeOK /\ todo' = todo
  BY DEF TypeInv, Observe
<1>2. PICK failed \in BOOLEAN : ListUnits(failed)
  BY DEF Observe
<1>3. wv'[w].units = wv[w].units
  BY <1>1, <1>2 DEF ListUnits, TypeOK, WaveState
<1>4. wv'[w].outstanding = IF failed THEN wv[w].units ELSE todo[w]
  BY <1>1, <1>2 DEF ListUnits, TypeOK, WaveState
<1> QED
  BY <1>1, <1>3, <1>4

LEMMA WorldEarns == ASSUME NEW w \in Wave PROVE EarnInv /\ World(w) => AbsenceIsSafe'
<1> SUFFICES ASSUME EarnInv, World(w), NEW v \in Wave, pc' = "retire",
                    wv'[v].units > 0, wv'[v].outstanding = 0
             PROVE  todo'[v] = 0
  BY DEF AbsenceIsSafe
<1>1. /\ TypeOK /\ pc = "retire"
  BY DEF EarnInv, TypeInv, World, UnitLands, WorkersStop, ReapTakesEffect, Appears,
         ClockRuns, GraceLapses, GhostExpires, driverVars
<1>2. wv'[v].units = wv[v].units /\ wv'[v].outstanding = wv[v].outstanding
  <2>1. CASE GraceLapses(w)
    <3>1. wv' = [wv EXCEPT ![w] = [wv[w] EXCEPT !.reap = "lapsed"]]
      BY <2>1 DEF GraceLapses
    <3> QED
      BY <1>1, <3>1 DEF TypeOK, WaveState
  <2>2. CASE UNCHANGED wv
    BY <2>2
  <2> QED
    BY <2>1, <2>2 DEF World, UnitLands, WorkersStop, ReapTakesEffect, Appears,
                      ClockRuns, GhostExpires, driverVars
<1>3. todo[v] = 0
  BY <1>1, <1>2 DEF EarnInv, AbsenceIsSafe
<1>4. todo'[v] = 0
  <2>1. CASE UnitLands(w)
    BY <1>1, <1>3, <2>1 DEF UnitLands, TypeOK
  <2>2. CASE UNCHANGED todo
    BY <1>3, <2>2
  <2> QED
    BY <2>1, <2>2 DEF World, WorkersStop, ReapTakesEffect, Appears, ClockRuns,
                      GraceLapses, GhostExpires
<1> QED
  BY <1>4

LEMMA NextEarns == EarnInv /\ [Next]_vars => EarnInv'
<1> SUFFICES ASSUME EarnInv, [Next]_vars PROVE EarnInv'
  OBVIOUS
<1>1. TypeInv'
  BY NextType DEF EarnInv
<1>2. ASSUME Observe PROVE AbsenceIsSafe'
  BY <1>2, ObserveEarns DEF EarnInv
<1>3. ASSUME NEW w \in Wave, World(w) PROVE AbsenceIsSafe'
  BY <1>3, WorldEarns
<1>4. ASSUME UNCHANGED vars PROVE AbsenceIsSafe'
  BY <1>4 DEF EarnInv, AbsenceIsSafe, vars, driverVars
<1>5. ASSUME pc' # "retire" PROVE AbsenceIsSafe'
  BY <1>5 DEF AbsenceIsSafe
<1>6. \/ Observe \/ (\E w \in Wave : World(w)) \/ UNCHANGED vars
      \/ pc' # "retire"
  BY DEF Next, Driver, Adopt, Retire, ReapStranded, Sleep, Flush,
     SubmitAcknowledged, SubmitFails, SubmitAborts, Crash, ProcessEnds
<1> QED
  BY <1>1, <1>2, <1>3, <1>4, <1>5, <1>6 DEF EarnInv

\* What _discharge lets go of without a census is gone, done, or still charged.
LEMMA RetireEarns ==
    ASSUME EarnInv, Retire, ~censusKnown,
           NEW w \in Wave, wv[w].units > 0, wv'[w].units = 0
    PROVE  workers[w] = 0 \/ todo[w] = 0 \/ ghost'[w] >= Charge(wv[w])
<1>1. TypeOK /\ pc = "retire"
  BY DEF EarnInv, TypeInv, Retire
<1>2. PICK dead \in SUBSET Live :
        /\ ProbedDead(dead)
        /\ wv' = [v \in Wave |-> IF v \in Discharged(dead) THEN NoWave
                                 ELSE [wv[v] EXCEPT !.landed = Max2(@, Landed(v))]]
        /\ ghost' = [v \in Wave |-> IF v \in Ghosted(dead)
                                      THEN Max2(ghost[v], Charge(wv[v]))
                                      ELSE IF v \in Discharged(dead) THEN 0 ELSE ghost[v]]
  BY DEF Retire
<1>3. w \in Discharged(dead)
  BY <1>1, <1>2 DEF TypeOK, WaveState
<1>4. CASE w \in dead
  BY <1>2, <1>4 DEF ProbedDead
<1>5. CASE w \in ArrayEnded
  BY <1>1, <1>5 DEF EarnInv, AbsenceIsSafe, ArrayEnded, Live, LiveIn
<1>6. CASE w \in StrandedUnconfirmed \ dead
  <2>1. ghost'[w] = Max2(ghost[w], Charge(wv[w]))
    BY <1>2, <1>6 DEF Ghosted
  <2>2. ghost[w] \in Int /\ Charge(wv[w]) \in Int
    BY <1>1, ChargeBounds, CapacityAssumption DEF TypeOK, MaxCharge
  <2> QED
    BY <2>1, <2>2, Max2Facts
<1> QED
  BY <1>3, <1>4, <1>5, <1>6 DEF Discharged, CensusAbsent

\* Nothing else lets go of a wave while a poll is retiring, but the process's end.
LEMMA OnlyRetireReleases ==
    ASSUME EarnInv, [Next]_vars, pc = "retire",
           NEW w \in Wave, wv[w].units > 0, wv'[w].units = 0
    PROVE  Retire \/ pc' = "down"
<1>1. TypeOK
  BY DEF EarnInv, TypeInv
<1>2. CASE \E v \in Wave : GraceLapses(v)
  <2>1. PICK v \in Wave : wv' = [wv EXCEPT ![v] = [wv[v] EXCEPT !.reap = "lapsed"]]
    BY <1>2 DEF GraceLapses
  <2>2. wv'[w].units = wv[w].units
    BY <1>1, <2>1 DEF TypeOK, WaveState
  <2> QED
    BY <2>2
<1>3. CASE Crash
  BY <1>3 DEF Crash, ProcessEnds
<1>4. ~UNCHANGED wv
  OBVIOUS
<1> QED
  BY <1>2, <1>3, <1>4
     DEF Next, Driver, Adopt, Observe, ReapStranded, Sleep, Flush, SubmitAcknowledged,
         SubmitFails, SubmitAborts, World, UnitLands, WorkersStop, ReapTakesEffect, Appears,
         ClockRuns, GhostExpires, vars, driverVars

\* Without a census, a wave's width is given back outright only when its array is
\* gone or has nothing left to compute; otherwise the ghost ledger still charges
\* it: _discharge_reason and _discharge, whatever else fails.
THEOREM ReleasesAreEarned == Spec => ReleaseIsEarned
<1> DEFINE Earned == \A w \in Wave :
          (pc = "retire" /\ ~censusKnown /\ wv[w].units > 0 /\ wv'[w].units = 0)
             => workers[w] = 0 \/ todo[w] = 0 \/ ghost'[w] >= Charge(wv[w]) \/ pc' = "down"
<1>1. Init => EarnInv
  <2>1. Init => pc # "retire"
    BY DEF Init
  <2> QED
    BY <2>1, InitType DEF EarnInv, AbsenceIsSafe
<1>2. EarnInv /\ [Next]_vars => EarnInv'
  BY NextEarns
<1>3. EarnInv /\ [Next]_vars => [Earned]_vars
  BY OnlyRetireReleases, RetireEarns
<1> QED
  BY <1>1, <1>2, <1>3, PTL DEF Spec, ReleaseIsEarned

=============================================================================
