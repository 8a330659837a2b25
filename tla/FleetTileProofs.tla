-------------------------- MODULE FleetTileProofs --------------------------
(***************************************************************************)
(* What holds of the barriers of a fleet of tiles for every roster, plan,  *)
(* round budget and number of waves, through any number of drivers.        *)
(***************************************************************************)
EXTENDS FleetTile, FiniteSetTheorems, TLAPS

-----------------------------------------------------------------------------
(* Types.                                                                  *)

\* The arithmetic of the constants, as the steps below use it.
LEMMA Constants ==
    /\ FleetUnits \in Nat /\ Scenes \in Nat /\ Bands \in Nat /\ Rounds \in Nat /\ MaxWaves \in Nat
    /\ FleetUnits >= 1 /\ Scenes >= 1 /\ Scenes <= FleetUnits /\ Bands >= 1
    /\ Rounds >= 1 /\ MaxWaves >= 1
BY TileAssumption

\* The three stages, each with its own turn.
LEMMA StageNames ==
    /\ "offsets" \in Stage /\ "composite" \in Stage /\ "export" \in Stage
    /\ \A s \in Stage : s \in {"offsets", "composite", "export"} /\ Turn(s) \in 1 .. 3
    /\ \A s, q \in Stage : Turn(s) = Turn(q) => s = q
<1>1. Turn("offsets") = 1 /\ Turn("composite") = 2 /\ Turn("export") = 3
  BY DEF Turn
<1> QED
  BY <1>1 DEF Stage

\* What a stage can leave is among the units a wave can hold.
LEMMA ExpectedType ==
    /\ \A s \in Stage : Expected(s) \subseteq Index
    /\ 1 .. FleetUnits \subseteq Index /\ {1} \subseteq Index
    /\ Expected("export") = {1}
BY Constants DEF Expected, Index, Stage

\* A tile has at most as many rounds on record as there are rounds.
LEMMA RoundsOfType ==
    ASSUME NEW t, NEW s
    PROVE  RoundsOf(t, s) \in 0 .. Rounds
<1> DEFINE S == {r \in 1 .. Rounds : rec[t][s][r] # 0}
<1>1. IsFiniteSet(1 .. Rounds) /\ Cardinality(1 .. Rounds) = Rounds
  BY Constants, FS_Interval
<1>2. IsFiniteSet(S) /\ Cardinality(S) <= Rounds
  BY <1>1, FS_Subset
<1>3. Cardinality(S) \in Nat
  BY <1>2, FS_CardinalityType
<1> QED
  BY <1>2, <1>3, Constants DEF RoundsOf

Buffers == [Stage -> [Tile -> Demand]]

\* Buffering a demand changes it only for the tile and the stage, to what is
\* wanted of it now, in the round after those listed.
LEMMA BufferedShape ==
    ASSUME TypeOK, NEW b \in Buffers, NEW t \in Tile, NEW s \in Stage, NEW indexes \in SUBSET Index
    PROVE  LET after == Buffered(b, t, s, indexes) IN
           /\ after \in Buffers
           /\ \A q \in Stage, x \in Tile :
                \/ after[q][x] = b[q][x]
                \/ /\ q = s /\ x = t
                   /\ after[q][x].round = seenRounds[t][s] + 1
                   /\ after[q][x].indexes \subseteq indexes \ Held(t, s)
<1> DEFINE new == [indexes |-> Wanted(t, s, indexes), round |-> seenRounds[t][s] + 1]
           after == Buffered(b, t, s, indexes)
<1>1. CASE Wanted(t, s, indexes) = {} \/ BudgetSpent(t, s)
  BY <1>1 DEF Buffered
<1>2. CASE ~(Wanted(t, s, indexes) = {} \/ BudgetSpent(t, s))
  <2>1. Wanted(t, s, indexes) \subseteq indexes \ Held(t, s)
    BY DEF Wanted
  <2>2. seenRounds[t][s] \in 0 .. Rounds /\ ~(seenRounds[t][s] >= Rounds)
    BY <1>2 DEF TypeOK, BudgetSpent
  <2>3. new \in Demand
    <3>1. Wanted(t, s, indexes) \in SUBSET Index /\ seenRounds[t][s] + 1 \in 0 .. Rounds
      BY <2>1, <2>2, Constants
    <3> QED
      BY <3>1 DEF Demand
  <2>4. after = [b EXCEPT ![s][t] = new]
    BY <1>2 DEF Buffered
  <2>5. new.round = seenRounds[t][s] + 1 /\ new.indexes \subseteq indexes \ Held(t, s)
    BY <2>1
  <2> HIDE DEF new, after
  <2>6. after \in Buffers
    BY <2>3, <2>4 DEF Buffers
  <2>7. \A q \in Stage, x \in Tile : after[q][x] = IF q = s /\ x = t THEN new ELSE b[q][x]
    BY <2>4 DEF Buffers
  <2> QED
    BY <2>5, <2>6, <2>7 DEF after
<1> QED
  BY <1>1, <1>2

\* A run that has not begun is well typed.
LEMMA InitType == Init => TypeOK
<1> SUFFICES ASSUME Init PROVE TypeOK
  OBVIOUS
<1>1. NoDemand \in Demand
  BY Constants DEF NoDemand, Demand
<1>2. NothingListed \in [Tile -> [Stage -> SUBSET Index]] /\ NoRounds \in [Tile -> [Stage -> 0 .. Rounds]]
  BY Constants DEF NothingListed, NoRounds
<1>3. 0 \in 0 .. MaxWaves
  BY Constants
<1>4. \A S : {} \in SUBSET S
  OBVIOUS
<1>5. /\ phase \in [Tile -> Phase] /\ clk \in [Wave -> Horizon]
      /\ buffer \in [Stage -> [Tile -> Demand]]
  BY <1>1 DEF Init, Phase, Horizon
<1>6. /\ seen \in [Tile -> [Stage -> SUBSET Index]] /\ art \in [Tile -> [Stage -> SUBSET Index]]
      /\ seenRounds \in [Tile -> [Stage -> 0 .. Rounds]]
      /\ rec \in [Tile -> [Stage -> [1 .. Rounds -> 0 .. MaxWaves]]]
  BY <1>2, <1>3 DEF Init
<1>7. units \in [Wave -> SUBSET Unit] /\ running \in [Wave -> SUBSET Unit]
  BY <1>4 DEF Init
<1>9. pc \in {"down", "list", "census", "step", "flush", "submit", "ended"} /\ at \in 1 .. 4
  BY DEF Init
<1>10. watched \in BOOLEAN
  BY Zenon DEF Init
<1>8. /\ ready \in SUBSET Tile /\ planRead \in SUBSET Tile /\ overlapped \in SUBSET Tile
      /\ lapsed \in SUBSET Tile /\ live \in SUBSET Wave
      /\ dead \in SUBSET Wave /\ plan \in SUBSET Tile /\ merged \in SUBSET Tile
      /\ claimed \in SUBSET Tile /\ exporting \in SUBSET (Wave \X Tile)
  BY <1>4 DEF Init
<1> QED
  BY <1>5, <1>6, <1>7, <1>8, <1>9, <1>10 DEF TypeOK

\* A driver that starts, or is killed, knows nothing of its tiles.
LEMMA ForgottenType ==
    ASSUME TypeOK, Forgotten
    PROVE  /\ at' \in 1 .. 4 /\ ready' \in SUBSET Tile /\ phase' \in [Tile -> Phase]
           /\ planRead' \in SUBSET Tile /\ overlapped' \in SUBSET Tile /\ lapsed' \in SUBSET Tile
           /\ watched' \in BOOLEAN /\ seen' \in [Tile -> [Stage -> SUBSET Index]]
           /\ seenRounds' \in [Tile -> [Stage -> 0 .. Rounds]]
           /\ buffer' \in Buffers /\ dead' \in SUBSET Wave
<1>1. NoDemand \in Demand
  BY Constants DEF NoDemand, Demand
<1>2. NothingListed \in [Tile -> [Stage -> SUBSET Index]] /\ NoRounds \in [Tile -> [Stage -> 0 .. Rounds]]
  BY Constants DEF NothingListed, NoRounds
<1>3. phase' \in [Tile -> Phase] /\ buffer' \in Buffers
  BY <1>1 DEF Forgotten, Phase, Buffers
<1>4. \A S : {} \in SUBSET S
  OBVIOUS
<1>5. watched' \in BOOLEAN
  BY Zenon DEF Forgotten
<1>6. at' \in 1 .. 4 /\ ready' \in SUBSET Tile /\ dead' \in SUBSET Wave
  BY <1>4 DEF Forgotten
<1>7. planRead' \in SUBSET Tile /\ overlapped' \in SUBSET Tile /\ lapsed' \in SUBSET Tile
  BY <1>4 DEF Forgotten
<1>8. /\ seen' \in [Tile -> [Stage -> SUBSET Index]]
      /\ seenRounds' \in [Tile -> [Stage -> 0 .. Rounds]]
  BY <1>2 DEF Forgotten
<1> QED
  BY <1>3, <1>5, <1>6, <1>7, <1>8

-----------------------------------------------------------------------------
(* A tile's step.                                                          *)

\* A unit that no array in its time holds and that, once the plan is read, the
\* tile still lacks.
Free(t, s, i) ==
    /\ i \notin Held(t, s)
    /\ t \in planRead => /\ i \in Expected(s)
                         /\ i \notin seen[t][s] \/ i \notin art[t][s]

\* What a step may have buffered.
Asked ==
    /\ buffer' \in Buffers
    /\ \A s \in Stage, t \in Tile :
         \/ buffer'[s][t] = buffer[s][t]
         \/ /\ buffer'[s][t].round = seenRounds[t][s] + 1
            /\ \A i \in buffer'[s][t].indexes : Free(t, s, i)

\* What no step of a tile touches.
StepLeaves == <<pc, at, watched, seen, seenRounds, live, dead, plan, art, claimed, rec, units,
                running, exporting, clk>>

\* A tile that asks, fails or passes leaves only free units in the buffer.
LEMMA AsksShape ==
    ASSUME TypeOK, NEW t \in Tile, NEW s \in Stage, NEW indexes \in SUBSET Index,
           \A i \in indexes \ Held(t, s) : Free(t, s, i), Asks(t, s, indexes)
    PROVE  Asked /\ phase' \in [Tile -> Phase] /\ ready' \in SUBSET Tile
<1>1. buffer \in Buffers /\ phase \in [Tile -> Phase] /\ ready \in SUBSET Tile
  BY DEF TypeOK, Buffers
<1>2. buffer' = Buffered(buffer, t, s, indexes)
  BY DEF Asks
<1>3. Asked
  BY <1>1, <1>2, BufferedShape DEF Asked
<1>4. phase' \in [Tile -> Phase]
  BY <1>1 DEF Asks, Failing, Phase
<1> QED
  BY <1>1, <1>3, <1>4 DEF Asks

\* What any step of a tile may change: its phase, its plan, the buffer.
LEMMA StepShape ==
    ASSUME TypeOK, NEW t \in Tile, Step(t)
    PROVE  /\ pc = "step" /\ UNCHANGED StepLeaves
           /\ planRead \subseteq planRead' /\ planRead' \in SUBSET Tile
           /\ Asked
           /\ phase' \in [Tile -> Phase] /\ ready' \in SUBSET Tile
           /\ overlapped' \in SUBSET Tile /\ lapsed' \in SUBSET Tile /\ merged' \in SUBSET Tile
<1> USE DEF StepLeaves, bucketVars, substrateVars
<1>1. /\ buffer \in Buffers /\ phase \in [Tile -> Phase] /\ ready \in SUBSET Tile
      /\ planRead \in SUBSET Tile /\ overlapped \in SUBSET Tile /\ lapsed \in SUBSET Tile
      /\ merged \in SUBSET Tile
  BY DEF TypeOK, Buffers
<1>2. \A s \in Stage : Missing(t, s) \in SUBSET Index
  BY ExpectedType DEF Missing
<1>3. \A s \in Stage : \A i \in Missing(t, s) \ Held(t, s) : Free(t, s, i)
  BY DEF Missing, Free
<1>4. ASSUME NEW next \in Phase, Advances(t, next)
      PROVE  Asked /\ phase' \in [Tile -> Phase] /\ ready' = ready
  BY <1>1, <1>4 DEF Advances, Asked
<1>5. CASE StepBootstrap(t)
  <2>1. \A i \in (1 .. FleetUnits) \ Held(t, "offsets") : Free(t, "offsets", i)
    BY <1>5 DEF StepBootstrap, Free
  <2>2. Asked /\ phase' \in [Tile -> Phase] /\ ready' \in SUBSET Tile
    BY <1>5, <2>1, AsksShape, ExpectedType, StageNames DEF StepBootstrap
  <2> QED
    BY <1>1, <1>5, <2>2 DEF StepBootstrap, Stepping
<1>6. CASE StepOffsets(t)
  <2> DEFINE missing == Missing(t, "offsets")
             bands == Missing(t, "composite")
             early == IF Overlaps(t) THEN Buffered(buffer, t, "composite", bands) ELSE buffer
  <2>1. /\ buffer' = Buffered(early, t, "offsets", missing)
        /\ phase' = Failing(t, \/ Exhausted(t, "offsets", missing)
                               \/ Overlaps(t) /\ Exhausted(t, "composite", bands))
        /\ overlapped' = IF early = buffer THEN overlapped ELSE overlapped \cup {t}
    BY <1>6 DEF StepOffsets
  <2>2. /\ missing \in SUBSET Index /\ bands \in SUBSET Index
        /\ \A i \in missing \ Held(t, "offsets") : Free(t, "offsets", i)
        /\ \A i \in bands \ Held(t, "composite") : Free(t, "composite", i)
    BY <1>2, <1>3, StageNames
  <2> HIDE DEF missing, bands
  <2>3. /\ early \in Buffers
        /\ \A q \in Stage, x \in Tile :
             \/ early[q][x] = buffer[q][x]
             \/ /\ q = "composite" /\ x = t
                /\ early[q][x].round = seenRounds[x][q] + 1
                /\ \A i \in early[q][x].indexes : Free(x, q, i)
    <3>1. CASE Overlaps(t)
      BY <1>1, <2>2, <3>1, BufferedShape, StageNames
    <3>2. CASE ~Overlaps(t)
      BY <1>1, <3>2
    <3> QED
      BY <3>1, <3>2
  <2> HIDE DEF early
  <2>4. Asked
    <3>1. /\ buffer' \in Buffers
          /\ \A q \in Stage, x \in Tile :
               \/ buffer'[q][x] = early[q][x]
               \/ /\ q = "offsets" /\ x = t
                  /\ buffer'[q][x].round = seenRounds[x][q] + 1
                  /\ \A i \in buffer'[q][x].indexes : Free(x, q, i)
      BY <2>1, <2>2, <2>3, BufferedShape, StageNames
    <3>2. ASSUME NEW q \in Stage, NEW x \in Tile
          PROVE  \/ buffer'[q][x] = buffer[q][x]
                 \/ /\ buffer'[q][x].round = seenRounds[x][q] + 1
                    /\ \A i \in buffer'[q][x].indexes : Free(x, q, i)
      BY <2>3, <3>1
    <3> QED
      BY <3>1, <3>2 DEF Asked
  <2>5. phase' \in [Tile -> Phase]
    BY <1>1, <2>1 DEF Failing, Phase
  <2> QED
    BY <1>1, <1>6, <2>1, <2>4, <2>5 DEF StepOffsets, Stepping
<1>7. CASE OffsetsDone(t)
  BY <1>1, <1>4, <1>7 DEF OffsetsDone, Stepping, Phase
<1>8. CASE StepMerge(t)
  <2>1. CASE Advances(t, "composite")
    BY <1>1, <1>4, <1>8, <2>1 DEF StepMerge, Stepping, Phase
  <2>2. CASE phase' = [phase EXCEPT ![t] = "failed"] /\ ready' = ready \ {t}
             /\ UNCHANGED <<merged, buffer>>
    BY <1>1, <1>8, <2>2 DEF StepMerge, Stepping, Phase, Asked
  <2> QED
    BY <1>8, <2>1, <2>2 DEF StepMerge
<1>9. CASE StepComposite(t)
  <2>1. CASE Missing(t, "composite") = {}
    BY <1>1, <1>4, <1>9, <2>1 DEF StepComposite, Stepping, Phase
  <2>2. CASE Missing(t, "composite") # {}
    <3>1. Asked /\ phase' \in [Tile -> Phase] /\ ready' \in SUBSET Tile
      BY <1>2, <1>3, <1>9, <2>2, AsksShape, StageNames DEF StepComposite
    <3> QED
      BY <1>1, <1>9, <2>2, <3>1 DEF StepComposite, Stepping
  <2> QED
    BY <2>1, <2>2
<1>10. CASE StepExport(t)
  <2>1. CASE CogsSeen(t)
    BY <1>1, <1>10, <2>1 DEF StepExport, Stepping, Phase, Asked
  <2>2. CASE ~CogsSeen(t)
    <3> DEFINE indexes == IF t \in lapsed THEN {1} ELSE {}
    <3>1. indexes \in SUBSET Index /\ \A i \in indexes \ Held(t, "export") : Free(t, "export", i)
      BY <2>2, ExpectedType DEF CogsSeen, Free
    <3>2. Asks(t, "export", indexes)
      BY <1>10, <2>2 DEF StepExport
    <3> HIDE DEF indexes
    <3>3. Asked /\ phase' \in [Tile -> Phase] /\ ready' \in SUBSET Tile
      BY <3>1, <3>2, AsksShape, StageNames
    <3> QED
      BY <1>1, <1>10, <3>3 DEF StepExport, Stepping
  <2> QED
    BY <2>1, <2>2
<1> QED
  BY <1>5, <1>6, <1>7, <1>8, <1>9, <1>10 DEF Step

-----------------------------------------------------------------------------
(* Every step keeps the types.                                             *)

\* What a flush of the stage does: one new wave, numbered after the stage's last,
\* holds the buffered demand and is charged; the rounds of the tiles whose record
\* was written name it; nothing of the stage stays buffered.
FlushedAs(s, n, unwritten) ==
    /\ n \in 1 .. MaxWaves /\ n = Cardinality(WavesOf(s)) + 1
    /\ unwritten \in SUBSET Asking(s) /\ (RecordFails \/ unwritten = {})
    /\ live' = live \cup {<<s, n>>}
    /\ units' \in [Wave -> SUBSET Unit]
    /\ \A w \in Wave : units'[w] = IF w = <<s, n>>
                                     THEN {u \in Unit : u[2] \in buffer[s][u[1]].indexes}
                                     ELSE units[w]
    /\ rec' \in [Tile -> [Stage -> [1 .. Rounds -> 0 .. MaxWaves]]]
    /\ \A t \in Tile, q \in Stage, r \in 1 .. Rounds :
          rec'[t][q][r] = IF t \in Asking(s) \ unwritten /\ q = s /\ r = buffer[s][t].round
                            THEN n ELSE rec[t][q][r]
    /\ buffer' \in Buffers
    /\ \A q \in Stage, t \in Tile :
          buffer'[q][t] = IF q = s THEN NoDemand ELSE buffer[q][t]

\* A record of records changed in one place.
LEMMA TwoLevels ==
    ASSUME NEW A, NEW B, NEW C, NEW f \in [A -> [B -> C]], NEW a \in A, NEW b, NEW v \in C,
           NEW g, g = [f EXCEPT ![a][b] = v]
    PROVE  /\ g \in [A -> [B -> C]]
           /\ \A x \in A, y \in B : g[x][y] = IF x = a /\ y = b THEN v ELSE f[x][y]
<1> DEFINE h == [f[a] EXCEPT ![b] = v]
<1>1. f[a] \in [B -> C]
  OBVIOUS
<1>2. h \in [B -> C] /\ \A y \in B : h[y] = IF y = b THEN v ELSE f[a][y]
  BY <1>1
<1>3. g = [f EXCEPT ![a] = h]
  OBVIOUS
<1> HIDE DEF h
<1>4. g \in [A -> [B -> C]] /\ \A x \in A : g[x] = IF x = a THEN h ELSE f[x]
  BY <1>2, <1>3
<1> QED
  BY <1>2, <1>4

\* A flush makes one wave, as FlushedAs says.
LEMMA FlushShape ==
    ASSUME TypeOK, NEW s \in Stage, Flush(s)
    PROVE  \E n, unwritten : FlushedAs(s, n, unwritten)
<1>1. /\ units \in [Wave -> SUBSET Unit] /\ buffer \in Buffers
      /\ rec \in [Tile -> [Stage -> [1 .. Rounds -> 0 .. MaxWaves]]]
  BY DEF TypeOK, Buffers
<1>2. PICK n \in 1 .. MaxWaves :
        /\ n = Cardinality(WavesOf(s)) + 1
        /\ units' = [units EXCEPT ![<<s, n>>] = {u \in Unit : u[2] \in buffer[s][u[1]].indexes}]
        /\ live' = live \cup {<<s, n>>}
        /\ \E unwritten \in SUBSET Asking(s) :
              /\ RecordFails \/ unwritten = {}
              /\ rec' = [t \in Tile |->
                           IF t \in Asking(s) \ unwritten
                             THEN [rec[t] EXCEPT ![s][buffer[s][t].round] = n] ELSE rec[t]]
  BY DEF Flush
<1>3. PICK unwritten \in SUBSET Asking(s) :
        /\ RecordFails \/ unwritten = {}
        /\ rec' = [t \in Tile |->
                     IF t \in Asking(s) \ unwritten
                       THEN [rec[t] EXCEPT ![s][buffer[s][t].round] = n] ELSE rec[t]]
  BY <1>2
<1> DEFINE demand == {u \in Unit : u[2] \in buffer[s][u[1]].indexes}
<1>4. demand \in SUBSET Unit
  OBVIOUS
<1> HIDE DEF demand
<1>5. /\ units' \in [Wave -> SUBSET Unit]
      /\ \A w \in Wave : units'[w] = IF w = <<s, n>> THEN demand ELSE units[w]
  BY <1>1, <1>2, <1>4 DEF demand
<1>6. n \in 0 .. MaxWaves
  BY <1>2, Constants
<1>7. ASSUME NEW t \in Tile
      PROVE  /\ rec'[t] \in [Stage -> [1 .. Rounds -> 0 .. MaxWaves]]
             /\ \A q \in Stage, r \in 1 .. Rounds :
                   rec'[t][q][r] = IF t \in Asking(s) \ unwritten /\ q = s /\ r = buffer[s][t].round
                                     THEN n ELSE rec[t][q][r]
  <2>1. rec[t] \in [Stage -> [1 .. Rounds -> 0 .. MaxWaves]]
    BY <1>1
  <2>2. CASE t \in Asking(s) \ unwritten
    <3>1. rec'[t] = [rec[t] EXCEPT ![s][buffer[s][t].round] = n]
      BY <1>3, <2>2
    <3>2. /\ rec'[t] \in [Stage -> [1 .. Rounds -> 0 .. MaxWaves]]
          /\ \A q \in Stage, r \in 1 .. Rounds :
                rec'[t][q][r] = IF q = s /\ r = buffer[s][t].round THEN n ELSE rec[t][q][r]
      <4> DEFINE old == rec[t]
                 round == buffer[s][t].round
                 new == rec'[t]
                 R == 1 .. Rounds
                 N == 0 .. MaxWaves
      <4>1. old \in [Stage -> [R -> N]] /\ n \in N /\ new = [old EXCEPT ![s][round] = n]
        BY <1>6, <2>1, <3>1
      <4> HIDE DEF old, round, new, R, N
      <4>2. /\ new \in [Stage -> [R -> N]]
            /\ \A q \in Stage, r \in R : new[q][r] = IF q = s /\ r = round THEN n ELSE old[q][r]
        BY <4>1, TwoLevels, ZenonT(30)
      <4> QED
        BY <4>1, <4>2 DEF old, round, new, R, N
    <3> QED
      BY <2>2, <3>2
  <2>3. CASE t \notin Asking(s) \ unwritten
    BY <1>3, <2>1, <2>3
  <2> QED
    BY <2>2, <2>3
<1>8. rec' \in [Tile -> [Stage -> [1 .. Rounds -> 0 .. MaxWaves]]]
  BY <1>3, <1>7
<1>9. NoDemand \in Demand
  BY Constants DEF NoDemand, Demand
<1>10. /\ buffer' \in Buffers
       /\ \A q \in Stage, t \in Tile : buffer'[q][t] = IF q = s THEN NoDemand ELSE buffer[q][t]
  BY <1>1, <1>9 DEF Flush, Buffers
<1>11. FlushedAs(s, n, unwritten)
  BY <1>2, <1>3, <1>5, <1>7, <1>8, <1>10 DEF FlushedAs, demand
<1> QED
  BY <1>11

\* A submission starts the array of one wave of the stage, or starts nothing.
LEMMA SubmitShape ==
    ASSUME TypeOK, Submit
    PROVE  /\ running' \in [Wave -> SUBSET Unit]
           /\ \E s \in Stage : /\ Turn(s) = at
                               /\ \A w \in Wave : \/ running'[w] = running[w]
                                                  \/ /\ w = <<s, Cardinality(WavesOf(s))>>
                                                     /\ running'[w] = units[w]
<1>1. units \in [Wave -> SUBSET Unit] /\ running \in [Wave -> SUBSET Unit]
  BY DEF TypeOK
<1>2. PICK s \in Stage :
        /\ Turn(s) = at
        /\ \/ running' = [running EXCEPT ![<<s, Cardinality(WavesOf(s))>>]
                             = units[<<s, Cardinality(WavesOf(s))>>]]
           \/ UNCHANGED running
  BY DEF Submit
<1> DEFINE w == <<s, Cardinality(WavesOf(s))>>
<1>3. CASE running' = [running EXCEPT ![w] = units[w]]
  <2> HIDE DEF w
  <2>1. running' \in [Wave -> SUBSET Unit]
    BY <1>1, <1>3
  <2>2. \A x \in Wave : running'[x] = IF x = w THEN units[x] ELSE running[x]
    BY <1>1, <1>3
  <2> QED
    BY <1>2, <2>1, <2>2 DEF w
<1>4. CASE UNCHANGED running
  BY <1>1, <1>2, <1>4
<1> QED
  BY <1>2, <1>3, <1>4

\* A unit leaves its array in one way only: it is not running any more.
LEMMA UnitEnds ==
    ASSUME TypeOK, NEW w \in Wave, NEW t \in Tile, NEW i \in Index,
           running' = [running EXCEPT ![w] = @ \ {<<t, i>>}]
    PROVE  /\ running' \in [Wave -> SUBSET Unit]
           /\ \A x \in Wave : /\ running'[x] \subseteq running[x]
                              /\ running[x] \subseteq running'[x] \cup {<<t, i>>}
BY DEF TypeOK

\* Artifacts are added one at a time.
LEMMA ArtifactAdded ==
    ASSUME TypeOK, NEW s \in Stage, NEW t \in Tile, NEW i \in Index,
           art' = [art EXCEPT ![t][s] = @ \cup {i}]
    PROVE  /\ art' \in [Tile -> [Stage -> SUBSET Index]]
           /\ \A x \in Tile, q \in Stage : art[x][q] \subseteq art'[x][q]
           /\ i \in art'[t][s]
<1>1. art \in [Tile -> [Stage -> SUBSET Index]]
  BY DEF TypeOK
<1> QED
  BY <1>1

\* Every step of every part keeps the types.
LEMMA NextType == TypeOK /\ [Next]_vars => TypeOK'
<1> SUFFICES ASSUME TypeOK, [Next]_vars PROVE TypeOK'
  OBVIOUS
<1> USE DEF driverVars, bucketVars, substrateVars
<1>1. ASSUME Forgotten, live' \in SUBSET Wave, pc' \in {"down", "list"},
             UNCHANGED <<bucketVars, substrateVars, clk>>
      PROVE  TypeOK'
  BY <1>1, ForgottenType DEF TypeOK, Buffers
<1>2. CASE Adopt
  <2>1. Recorded \in SUBSET Wave
    BY DEF Recorded
  <2> QED
    BY <1>1, <1>2, <2>1 DEF Adopt
<1>3. CASE Crash
  <2>1. {} \in SUBSET Wave
    OBVIOUS
  <2> QED
    BY <1>1, <1>3, <2>1 DEF Crash
<1>4. CASE Refresh
  <2>1. \A t \in Tile, s \in Stage : art[t][s] \in SUBSET Index
    BY DEF TypeOK
  <2>2. PICK runFails \in BOOLEAN, cogsFail \in BOOLEAN :
          /\ seen' = [t \in Tile |-> [s \in Stage |->
                        IF (IF s = "export" THEN cogsFail ELSE runFails) THEN {} ELSE art[t][s]]]
          /\ seenRounds' = IF runFails THEN NoRounds
                           ELSE [t \in Tile |-> [s \in Stage |-> RoundsOf(t, s)]]
    BY <1>4 DEF Refresh
  <2>3. seen' \in [Tile -> [Stage -> SUBSET Index]]
    BY <2>1, <2>2
  <2>4. /\ NoRounds \in [Tile -> [Stage -> 0 .. Rounds]]
        /\ [t \in Tile |-> [s \in Stage |-> RoundsOf(t, s)]] \in [Tile -> [Stage -> 0 .. Rounds]]
    BY RoundsOfType, Constants DEF NoRounds
  <2>5. seenRounds' \in [Tile -> [Stage -> 0 .. Rounds]]
    BY <2>2, <2>4
  <2> QED
    BY <1>4, <2>3, <2>5 DEF Refresh, TypeOK
<1>5. CASE Census
  <2>1. live' \in SUBSET Wave /\ dead' \in SUBSET Wave /\ ready' \in SUBSET Tile
    BY <1>5 DEF Census, TypeOK
  <2> QED
    BY <1>5, <2>1 DEF Census, TypeOK
<1>6. SettleStragglers => phase' \in [Tile -> Phase]
  BY DEF SettleStragglers, Phase, TypeOK
<1>7. CASE Abandon
  <2>1. ready' \in SUBSET Tile /\ pc' = "ended"
    BY <1>7 DEF Abandon
  <2> QED
    BY <1>6, <1>7, <2>1 DEF Abandon, TypeOK
<1>8. CASE CeilingReached
  BY <1>6, <1>8 DEF CeilingReached, TypeOK
<1>9. ASSUME NEW t \in Tile, Step(t) PROVE TypeOK'
  BY <1>9, StepShape DEF TypeOK, StepLeaves, Asked, Buffers
<1>10. ASSUME NEW s \in Stage, Flush(s) PROVE TypeOK'
  <2>1. PICK n, unwritten : FlushedAs(s, n, unwritten)
    BY <1>10, FlushShape
  <2>2. <<s, n>> \in Wave /\ Turn(s) \in 1 .. 4
    BY <2>1, StageNames DEF FlushedAs, Wave
  <2>3. live' \in SUBSET Wave /\ at' \in 1 .. 4 /\ pc' = "submit"
    BY <1>10, <2>1, <2>2 DEF FlushedAs, Flush, TypeOK
  <2>4. /\ units' \in [Wave -> SUBSET Unit] /\ buffer' \in [Stage -> [Tile -> Demand]]
        /\ rec' \in [Tile -> [Stage -> [1 .. Rounds -> 0 .. MaxWaves]]]
    BY <2>1 DEF FlushedAs, Buffers
  <2> QED
    BY <1>10, <2>3, <2>4 DEF Flush, TypeOK
<1>11. CASE Submit
  <2>1. PICK s \in Stage : Turn(s) = at
    BY <1>11, SubmitShape
  <2>2. at' \in 1 .. 4 /\ pc' = "flush"
    BY <1>11, <2>1, StageNames DEF Submit
  <2> QED
    BY <1>11, <2>2, SubmitShape DEF Submit, TypeOK
<1>12. CASE EndPoll
  <2>1. /\ seen' \in [Tile -> [Stage -> SUBSET Index]]
        /\ seenRounds' \in [Tile -> [Stage -> 0 .. Rounds]]
    BY <1>12, Constants DEF EndPoll, NothingListed, NoRounds
  <2>2. pc' \in {"ended", "list"} /\ at' \in 1 .. 4
    BY <1>12 DEF EndPoll
  <2>3. watched' \in BOOLEAN
    BY <1>12, Zenon DEF EndPoll
  <2> QED
    BY <1>12, <2>1, <2>2, <2>3 DEF EndPoll, TypeOK
<1>13. ASSUME NEW w \in Wave, NEW t \in Tile, PublishPlan(w, t) PROVE TypeOK'
  BY <1>13 DEF PublishPlan, TypeOK
<1>14. ASSUME NEW w \in Wave, NEW t \in Tile, ClaimedExport(w, t) PROVE TypeOK'
  <2>1. art' \in [Tile -> [Stage -> SUBSET Index]]
    <3>1. art \in [Tile -> [Stage -> SUBSET Index]] /\ {1} \in SUBSET Index
      BY ExpectedType DEF TypeOK
    <3>2. art' = [art EXCEPT ![t]["export"] = {1}] \/ art' = art
      BY <1>14 DEF ClaimedExport
    <3>3. CASE art' = [art EXCEPT ![t]["export"] = {1}]
      BY <3>1, <3>3, TwoLevels, StageNames
    <3> QED
      BY <3>1, <3>2, <3>3
  <2>2. exporting' \in SUBSET (Wave \X Tile)
    BY <1>14 DEF ClaimedExport, TypeOK
  <2> QED
    BY <1>14, <2>1, <2>2 DEF ClaimedExport, TypeOK
<1>15. ASSUME NEW w \in Wave, NEW t \in Tile, NEW i \in Index, Publish(w, t, i) PROVE TypeOK'
  <2>1. w[1] \in Stage
    BY DEF Wave
  <2>2. /\ art' = [art EXCEPT ![t][w[1]] = @ \cup {i}]
        /\ running' = [running EXCEPT ![w] = @ \ {<<t, i>>}]
    BY <1>15 DEF Publish
  <2>3. art' \in [Tile -> [Stage -> SUBSET Index]] /\ running' \in [Wave -> SUBSET Unit]
    BY <2>1, <2>2, ArtifactAdded, UnitEnds
  <2>4. claimed' \in SUBSET Tile /\ exporting' \in SUBSET (Wave \X Tile)
    BY <1>15 DEF Publish, TypeOK
  <2> QED
    BY <1>15, <2>3, <2>4 DEF Publish, TypeOK
<1>16. ASSUME NEW w \in Wave, NEW t \in Tile, NEW i \in Index, Lose(w, t, i) PROVE TypeOK'
  BY <1>16, UnitEnds DEF Lose, TypeOK
<1>17. ASSUME NEW w \in Wave, ClockRuns(w) PROVE TypeOK'
  <2>1. clk' \in [Wave -> Horizon]
    BY <1>17 DEF ClockRuns, TypeOK, Horizon
  <2> QED
    BY <1>17, <2>1 DEF ClockRuns, TypeOK
<1>18. ASSUME NEW t \in Tile, ClaimLapses(t) PROVE TypeOK'
  BY <1>18 DEF ClaimLapses, TypeOK
<1>19. CASE UNCHANGED vars
  BY <1>19 DEF vars, TypeOK
<1> QED
  BY <1>2, <1>3, <1>4, <1>5, <1>7, <1>8, <1>9, <1>10, <1>11, <1>12, <1>13, <1>14, <1>15, <1>16,
     <1>17, <1>18, <1>19 DEF Next, Poll, World, Clocks

\* Every step of every driver, worker and clock keeps the barriers' state of its
\* shape: rounds within the budget, waves within the run's, demand for units that
\* can be asked for.
THEOREM TrackTypes == Spec => []TypeOK
<1>1. Init => TypeOK
  BY InitType
<1>2. TypeOK /\ [Next]_vars => TypeOK'
  BY NextType
<1> QED
  BY <1>1, <1>2, PTL DEF Spec

-----------------------------------------------------------------------------
(* The round budget.                                                       *)

Listed == pc \in {"census", "step"}

\* A stage's rounds are recorded one after the other.
InOrder ==
    \A t \in Tile, s \in Stage : \E k \in 0 .. Rounds : \A r \in 1 .. Rounds : rec[t][s][r] # 0 <=> r <= k

\* The listing a tile is stepped by counts the rounds the bucket holds.
RoundsListed == Listed => \A t \in Tile, s \in Stage : seenRounds[t][s] = RoundsOf(t, s)

\* What waits in the buffer belongs to the round after those on record.
NextBuffered ==
    \A t \in Tile, s \in Stage :
       buffer[s][t].indexes # {} => buffer[s][t].round = RoundsOf(t, s) + 1

\* A wave that carries units of a tile is named by one of the tile's records.
OnRecord ==
    \A t \in Tile, s \in Stage, n \in 1 .. MaxWaves :
       Carries(<<s, n>>, t) => \E r \in 1 .. Rounds : rec[t][s][r] = n

BudgetInv == TypeOK /\ InOrder /\ RoundsListed /\ NextBuffered /\ OnRecord

\* Records that are in order are counted by the last of them.
LEMMA RoundsInOrder ==
    ASSUME NEW t, NEW s, NEW k \in 0 .. Rounds, \A r \in 1 .. Rounds : rec[t][s][r] # 0 <=> r <= k
    PROVE  RoundsOf(t, s) = k
<1>1. {r \in 1 .. Rounds : rec[t][s][r] # 0} = 1 .. k
  BY Constants
<1>2. Cardinality(1 .. k) = k
  BY Constants, FS_Interval
<1> QED
  BY <1>1, <1>2 DEF RoundsOf

\* A flush records each asking tile in the round after those it has, which was
\* free, so that no earlier record is lost.
LEMMA FlushKeepsBudget ==
    ASSUME BudgetInv, ~RecordFails, NEW s \in Stage, Flush(s)
    PROVE  InOrder' /\ NextBuffered' /\ OnRecord'
<1>1. PICK n, unwritten : FlushedAs(s, n, unwritten)
  BY FlushShape DEF BudgetInv
<1>2. unwritten = {} /\ n \in 1 .. MaxWaves /\ n # 0
  BY <1>1 DEF FlushedAs
<1>3. ASSUME NEW t \in Tile, t \in Asking(s)
      PROVE  \E k \in 0 .. Rounds :
               /\ k = RoundsOf(t, s) /\ k + 1 \in 1 .. Rounds /\ buffer[s][t].round = k + 1
               /\ \A r \in 1 .. Rounds : rec[t][s][r] # 0 <=> r <= k
               /\ \A r \in 1 .. Rounds : rec'[t][s][r] = IF r = k + 1 THEN n ELSE rec[t][s][r]
  <2>1. PICK k \in 0 .. Rounds : \A r \in 1 .. Rounds : rec[t][s][r] # 0 <=> r <= k
    BY DEF BudgetInv, InOrder
  <2>2. RoundsOf(t, s) = k
    BY <2>1, RoundsInOrder
  <2>3. buffer[s][t].round = k + 1
    BY <1>3, <2>2 DEF BudgetInv, NextBuffered, Asking
  <2>4. buffer[s][t].round \in 0 .. Rounds
    BY DEF BudgetInv, TypeOK, Demand
  <2>5. k + 1 \in 1 .. Rounds
    BY <2>3, <2>4, Constants
  <2>6. \A r \in 1 .. Rounds : rec'[t][s][r] = IF r = k + 1 THEN n ELSE rec[t][s][r]
    BY <1>1, <1>2, <1>3, <2>3 DEF FlushedAs
  <2> QED
    BY <2>1, <2>2, <2>3, <2>5, <2>6
<1>4. ASSUME NEW t \in Tile, NEW q \in Stage, q # s \/ t \notin Asking(s)
      PROVE  \A r \in 1 .. Rounds : rec'[t][q][r] = rec[t][q][r]
  BY <1>1, <1>4 DEF FlushedAs
<1>5. InOrder'
  <2> SUFFICES ASSUME NEW t \in Tile, NEW q \in Stage
               PROVE  \E k \in 0 .. Rounds : \A r \in 1 .. Rounds : rec'[t][q][r] # 0 <=> r <= k
    BY DEF InOrder
  <2>1. CASE q = s /\ t \in Asking(s)
    <3>1. PICK k \in 0 .. Rounds :
             /\ k + 1 \in 1 .. Rounds
             /\ \A r \in 1 .. Rounds : rec[t][s][r] # 0 <=> r <= k
             /\ \A r \in 1 .. Rounds : rec'[t][s][r] = IF r = k + 1 THEN n ELSE rec[t][s][r]
      BY <1>3, <2>1
    <3>2. k + 1 \in 0 .. Rounds /\ \A r \in 1 .. Rounds : rec'[t][s][r] # 0 <=> r <= k + 1
      BY <1>2, <3>1, Constants
    <3> QED
      BY <2>1, <3>2
  <2>2. CASE q # s \/ t \notin Asking(s)
    BY <1>4, <2>2 DEF BudgetInv, InOrder
  <2> QED
    BY <2>1, <2>2
<1>6. NextBuffered'
  <2> SUFFICES ASSUME NEW t \in Tile, NEW q \in Stage, buffer'[q][t].indexes # {}
               PROVE  buffer'[q][t].round = RoundsOf(t, q)' + 1
    BY DEF NextBuffered
  <2>1. q # s /\ buffer'[q][t] = buffer[q][t]
    BY <1>1 DEF FlushedAs, NoDemand
  <2>2. RoundsOf(t, q)' = RoundsOf(t, q)
    BY <1>4, <2>1 DEF RoundsOf
  <2> QED
    BY <2>1, <2>2 DEF BudgetInv, NextBuffered
<1>7. OnRecord'
  <2> SUFFICES ASSUME NEW t \in Tile, NEW q \in Stage, NEW m \in 1 .. MaxWaves, Carries(<<q, m>>, t)'
               PROVE  \E r \in 1 .. Rounds : rec'[t][q][r] = m
    BY DEF OnRecord
  <2>1. <<q, m>> \in Wave
    BY DEF Wave
  <2>2. PICK i \in Index : <<t, i>> \in units'[<<q, m>>]
    BY DEF Carries
  <2>3. CASE q = s /\ m = n
    <3>1. i \in buffer[s][t].indexes
      BY <1>1, <2>1, <2>2, <2>3 DEF FlushedAs
    <3>2. t \in Asking(s)
      BY <3>1 DEF Asking
    <3> QED
      BY <1>3, <2>3, <3>2
  <2>4. CASE ~(q = s /\ m = n)
    <3>1. <<t, i>> \in units[<<q, m>>]
      BY <1>1, <2>1, <2>2, <2>4 DEF FlushedAs
    <3>2. PICK r \in 1 .. Rounds : rec[t][q][r] = m
      BY <3>1 DEF BudgetInv, OnRecord, Carries
    <3>3. CASE q = s /\ t \in Asking(s)
      <4>1. PICK k \in 0 .. Rounds :
               /\ k + 1 \in 1 .. Rounds
               /\ \A x \in 1 .. Rounds : rec[t][s][x] # 0 <=> x <= k
               /\ \A x \in 1 .. Rounds : rec'[t][s][x] = IF x = k + 1 THEN n ELSE rec[t][s][x]
        BY <1>3, <3>3
      <4>2. r # k + 1
        BY <3>2, <3>3, <4>1
      <4> QED
        BY <3>2, <3>3, <4>1, <4>2
    <3>4. CASE q # s \/ t \notin Asking(s)
      BY <1>4, <3>2, <3>4
    <3> QED
      BY <3>3, <3>4
  <2> QED
    BY <2>3, <2>4
<1> QED
  BY <1>5, <1>6, <1>7

\* A step that records nothing leaves the order of the records alone.
LEMMA RecordsKept ==
    ASSUME BudgetInv, UNCHANGED <<rec, units>>
    PROVE  /\ InOrder' /\ OnRecord'
           /\ \A t \in Tile, s \in Stage : RoundsOf(t, s)' = RoundsOf(t, s)
<1>1. InOrder'
  BY DEF BudgetInv, InOrder
<1>2. OnRecord'
  BY DEF BudgetInv, OnRecord, Carries
<1>3. \A t \in Tile, s \in Stage : RoundsOf(t, s)' = RoundsOf(t, s)
  BY DEF RoundsOf
<1> QED
  BY <1>1, <1>2, <1>3

\* No step spends a round that is not on record.
LEMMA BudgetInduction ==
    ASSUME ~ListingFails, ~RecordFails
    PROVE  BudgetInv /\ [Next]_vars => BudgetInv'
<1> SUFFICES ASSUME BudgetInv, [Next]_vars PROVE BudgetInv'
  OBVIOUS
<1> USE DEF driverVars, bucketVars, substrateVars
<1>1. TypeOK /\ TypeOK'
  BY NextType DEF BudgetInv
<1>2. ASSUME UNCHANGED <<rec, units, buffer>>, Listed' => Listed /\ UNCHANGED seenRounds
      PROVE  BudgetInv'
  <2>1. \A t \in Tile, s \in Stage : RoundsOf(t, s)' = RoundsOf(t, s)
    BY <1>2, RecordsKept
  <2>2. InOrder' /\ OnRecord'
    BY <1>2, RecordsKept
  <2>3. RoundsListed' /\ NextBuffered'
    BY <1>2, <2>1 DEF BudgetInv, RoundsListed, NextBuffered
  <2> QED
    BY <1>1, <2>2, <2>3 DEF BudgetInv
<1>3. ASSUME Forgotten, UNCHANGED <<rec, units>>, pc' \in {"down", "list"}
      PROVE  BudgetInv'
  <2>1. InOrder' /\ OnRecord'
    BY <1>3, RecordsKept
  <2>2. RoundsListed'
    BY <1>3 DEF RoundsListed, Listed
  <2>3. NextBuffered'
    BY <1>3 DEF NextBuffered, Forgotten, NoDemand
  <2> QED
    BY <1>1, <2>1, <2>2, <2>3 DEF BudgetInv
<1>4. CASE Adopt \/ Crash
  BY <1>3, <1>4 DEF Adopt, Crash
<1>5. CASE Refresh
  <2>1. seenRounds' = [t \in Tile |-> [s \in Stage |-> RoundsOf(t, s)]]
    BY <1>5 DEF Refresh
  <2>2. UNCHANGED <<rec, units, buffer>>
    BY <1>5 DEF Refresh
  <2>3. \A t \in Tile, s \in Stage : RoundsOf(t, s)' = RoundsOf(t, s)
    BY <2>2, RecordsKept
  <2>4. InOrder' /\ OnRecord'
    BY <2>2, RecordsKept
  <2>5. RoundsListed'
    BY <2>1, <2>3 DEF RoundsListed
  <2>6. NextBuffered'
    BY <2>2, <2>3 DEF BudgetInv, NextBuffered
  <2> QED
    BY <1>1, <2>4, <2>5, <2>6 DEF BudgetInv
<1>6. CASE Census
  BY <1>2, <1>6 DEF Census, Listed
<1>7. CASE Abandon \/ CeilingReached
  BY <1>2, <1>7 DEF Abandon, CeilingReached, Listed
<1>8. ASSUME NEW t \in Tile, Step(t) PROVE BudgetInv'
  <2>1. pc = "step" /\ UNCHANGED <<pc, seenRounds, rec, units>> /\ Asked
    BY <1>1, <1>8, StepShape DEF StepLeaves
  <2>2. \A x \in Tile, s \in Stage : RoundsOf(x, s)' = RoundsOf(x, s)
    BY <2>1, RecordsKept
  <2>3. InOrder' /\ OnRecord'
    BY <2>1, RecordsKept
  <2>4. RoundsListed'
    BY <2>1, <2>2 DEF BudgetInv, RoundsListed, Listed
  <2>5. \A x \in Tile, s \in Stage : seenRounds[x][s] = RoundsOf(x, s)
    BY <2>1 DEF BudgetInv, RoundsListed, Listed
  <2>6. NextBuffered'
    BY <2>1, <2>2, <2>5 DEF BudgetInv, NextBuffered, Asked
  <2> QED
    BY <1>1, <2>3, <2>4, <2>6 DEF BudgetInv
<1>9. ASSUME NEW s \in Stage, Flush(s) PROVE BudgetInv'
  <2>1. RoundsListed'
    BY <1>9 DEF Flush, RoundsListed, Listed
  <2> QED
    BY <1>1, <1>9, <2>1, FlushKeepsBudget DEF BudgetInv
<1>10. CASE Submit
  BY <1>2, <1>10 DEF Submit, Listed
<1>11. CASE EndPoll
  BY <1>2, <1>11 DEF EndPoll, Listed
<1>12. ASSUME NEW w \in Wave, NEW t \in Tile, PublishPlan(w, t) \/ ClaimedExport(w, t) PROVE BudgetInv'
  BY <1>2, <1>12 DEF PublishPlan, ClaimedExport, Listed
<1>13. ASSUME NEW w \in Wave, NEW t \in Tile, NEW i \in Index, Publish(w, t, i) \/ Lose(w, t, i)
       PROVE  BudgetInv'
  BY <1>2, <1>13 DEF Publish, Lose, Listed
<1>14. CASE Clocks
  BY <1>2, <1>14 DEF Clocks, ClockRuns, ClaimLapses, Listed
<1>15. CASE UNCHANGED vars
  BY <1>2, <1>15 DEF vars, Listed
<1> QED
  BY <1>4, <1>5, <1>6, <1>7, <1>8, <1>9, <1>10, <1>11, <1>12, <1>13, <1>14, <1>15
     DEF Next, Poll, World

\* The round budget is the tile's: however often the driver is killed and
\* resumed, no tile's stage is submitted in more waves than it has barrier rounds,
\* provided the listings and the writes of the tiles' submission records succeed,
\* on which the count of rounds rests.
THEOREM RoundsAreBudgeted == ~ListingFails /\ ~RecordFails => (Spec => []RoundBudget)
<1> SUFFICES ASSUME ~ListingFails, ~RecordFails
             PROVE  Spec => []RoundBudget
  OBVIOUS
<1>1. Init => BudgetInv
  <2> SUFFICES ASSUME Init PROVE BudgetInv
    OBVIOUS
  <2>1. InOrder
    <3>1. 0 \in 0 .. Rounds /\ \A t \in Tile, s \in Stage, r \in 1 .. Rounds : rec[t][s][r] = 0
      BY Constants DEF Init
    <3> QED
      BY <3>1 DEF InOrder
  <2>2. RoundsListed
    BY DEF Init, RoundsListed, Listed
  <2>3. NextBuffered
    BY DEF Init, NextBuffered, NoDemand
  <2>4. OnRecord
    BY DEF Init, OnRecord, Carries, Wave
  <2> QED
    BY <2>1, <2>2, <2>3, <2>4, InitType DEF BudgetInv
<1>2. BudgetInv /\ [Next]_vars => BudgetInv'
  BY BudgetInduction
<1>3. BudgetInv => RoundBudget
  <2> SUFFICES ASSUME BudgetInv, NEW t \in Tile, NEW s \in Stage
               PROVE  Cardinality({n \in 1 .. MaxWaves : Carries(<<s, n>>, t)}) <= Rounds
    BY DEF RoundBudget
  <2> DEFINE W == {n \in 1 .. MaxWaves : Carries(<<s, n>>, t)}
             named == {rec[t][s][r] : r \in 1 .. Rounds}
  <2>1. W \subseteq named
    BY DEF BudgetInv, OnRecord
  <2>2. IsFiniteSet(1 .. Rounds) /\ Cardinality(1 .. Rounds) = Rounds
    BY Constants, FS_Interval
  <2>3. IsFiniteSet(named) /\ Cardinality(named) <= Rounds
    <3> DEFINE f == rec[t][s]
    <3>1. f \in [1 .. Rounds -> 0 .. MaxWaves]
      BY DEF BudgetInv, TypeOK
    <3>2. named = {f[r] : r \in 1 .. Rounds}
      OBVIOUS
    <3> HIDE DEF f, named
    <3>3. f \in Surjection(1 .. Rounds, named)
      BY <3>1, <3>2 DEF Surjection
    <3> QED
      BY <2>2, <3>3, FS_Surjection
  <2>4. IsFiniteSet(W) /\ Cardinality(W) <= Cardinality(named)
    BY <2>1, <2>3, FS_Subset
  <2>5. Cardinality(W) \in Nat /\ Cardinality(named) \in Nat
    BY <2>3, <2>4, FS_CardinalityType
  <2> HIDE DEF named
  <2> QED
    BY <2>3, <2>4, <2>5, Constants
<1> QED
  BY <1>1, <1>2, <1>3, PTL DEF Spec

-----------------------------------------------------------------------------
(* Work is not submitted twice while it may still be running.              *)

\* A stage's waves are numbered from one.
WavesInOrder == \A s \in Stage : \E k \in 0 .. MaxWaves : WavesOf(s) = 1 .. k

RunsItsUnits == \A w \in Wave : running[w] \subseteq units[w]

\* The wave a submission starts is the one just charged, and nothing of its stage
\* is buffered.
Submitting ==
    pc = "submit" =>
        \A s \in Stage : Turn(s) = at => /\ <<s, Cardinality(WavesOf(s))>> \in live
                                         /\ \A t \in Tile : buffer[s][t].indexes = {}

\* Artifacts are what a plan expects, and a listing names none the bucket lacks.
Published ==
    \A t \in Tile, s \in Stage : art[t][s] \subseteq Expected(s) /\ seen[t][s] \subseteq art[t][s]

\* The unit's tile has a plan the driver has read, and the unit left the artifact
\* the plan expects of it; the listing of a poll under way names it.
Accounted(w, u) ==
    /\ u[1] \in planRead
    /\ u[2] \in Expected(w[1]) => /\ u[2] \in art[u[1]][w[1]]
                                  /\ Listed => u[2] \in seen[u[1]][w[1]]

\* A wave the driver no longer charges while its array still runs has landed.
Discharged ==
    pc # "down" => \A w \in Wave \ live : running[w] # {} => \A u \in units[w] : Accounted(w, u)

\* Only stranded arrays still run what is about to be submitted.
BufferedIsFree ==
    \A s \in Stage, t \in Tile : \A i \in buffer[s][t].indexes : \A n \in 1 .. MaxWaves :
        <<t, i>> \in running[<<s, n>>] => clk[<<s, n>>] = "stranded"

WorkInv ==
    /\ TypeOK /\ WavesInOrder /\ RunsItsUnits /\ Submitting
    /\ Published /\ Discharged /\ BufferedIsFree

\* The number a flush gives its wave is the next one of the stage, and free.
LEMMA NextWave ==
    ASSUME WorkInv, NEW s \in Stage, NEW n, NEW unwritten, FlushedAs(s, n, unwritten), Asking(s) # {}
    PROVE  /\ n \in 1 .. MaxWaves /\ <<s, n>> \in Wave
           /\ units[<<s, n>>] = {} /\ running[<<s, n>>] = {}
           /\ \A q \in Stage : WavesOf(q)' = IF q = s THEN WavesOf(s) \cup {n} ELSE WavesOf(q)
           /\ WavesOf(s)' = 1 .. n /\ Cardinality(1 .. n) = n
<1>1. n \in 1 .. MaxWaves /\ n = Cardinality(WavesOf(s)) + 1 /\ <<s, n>> \in Wave
  BY DEF FlushedAs, Wave
<1>2. PICK k \in 0 .. MaxWaves : WavesOf(s) = 1 .. k
  BY DEF WorkInv, WavesInOrder
<1>3. Cardinality(1 .. k) = k /\ Cardinality(1 .. n) = n
  BY <1>1, FS_Interval, Constants
<1>4. n = k + 1 /\ n \notin WavesOf(s)
  BY <1>1, <1>2, <1>3, Constants
<1>5. units[<<s, n>>] = {} /\ running[<<s, n>>] = {}
  BY <1>1, <1>4 DEF WavesOf, WorkInv, RunsItsUnits
<1>6. PICK t \in Tile : buffer[s][t].indexes # {}
  BY DEF Asking
<1>7. PICK i \in buffer[s][t].indexes : i \in Index
  BY <1>6 DEF WorkInv, TypeOK, Demand
<1>8. units'[<<s, n>>] # {}
  <2>1. <<t, i>> \in Unit
    BY <1>7 DEF Unit
  <2>2. <<t, i>> \in units'[<<s, n>>]
    BY <1>1, <1>7, <2>1 DEF FlushedAs
  <2> QED
    BY <2>2
<1>9. \A q \in Stage, m \in 1 .. MaxWaves :
         units'[<<q, m>>] = IF q = s /\ m = n THEN units'[<<s, n>>] ELSE units[<<q, m>>]
  BY DEF FlushedAs, Wave
<1>10. \A q \in Stage : WavesOf(q)' = IF q = s THEN WavesOf(s) \cup {n} ELSE WavesOf(q)
  BY <1>1, <1>8, <1>9, ZenonT(30) DEF WavesOf
<1>11. WavesOf(s)' = 1 .. n
  <2>1. k \in Nat /\ (1 .. k) \cup {k + 1} = 1 .. (k + 1)
    BY Constants
  <2> QED
    BY <1>2, <1>4, <1>10, <2>1
<1> QED
  BY <1>1, <1>3, <1>5, <1>10, <1>11

\* Steps that submit nothing leave the waves as they were.
LEMMA WavesKept ==
    ASSUME WorkInv, UNCHANGED units
    PROVE  WavesInOrder' /\ \A s \in Stage : WavesOf(s)' = WavesOf(s)
<1>1. \A s \in Stage : WavesOf(s)' = WavesOf(s)
  BY DEF WavesOf
<1> QED
  BY <1>1 DEF WorkInv, WavesInOrder

\* The wave a flush makes is free, charged and accounted for.
LEMMA FlushKeepsWork ==
    ASSUME WorkInv, NEW s \in Stage, Flush(s)
    PROVE  WavesInOrder' /\ RunsItsUnits' /\ Submitting' /\ Published' /\ Discharged' /\ BufferedIsFree'
<1>1. PICK n, unwritten : FlushedAs(s, n, unwritten)
  BY FlushShape DEF WorkInv
<1>2. /\ Asking(s) # {} /\ pc \in {"flush", "step"} /\ pc' = "submit" /\ at' = Turn(s)
      /\ UNCHANGED <<planRead, seen, art, running, clk>>
  BY DEF Flush, Flushing, substrateVars
<1>3. /\ n \in 1 .. MaxWaves /\ <<s, n>> \in Wave /\ running[<<s, n>>] = {}
      /\ \A q \in Stage : WavesOf(q)' = IF q = s THEN WavesOf(s) \cup {n} ELSE WavesOf(q)
      /\ WavesOf(s)' = 1 .. n /\ Cardinality(1 .. n) = n
  BY <1>1, <1>2, NextWave
<1>4. live' = live \cup {<<s, n>>} /\ \A w \in Wave : w # <<s, n>> => units'[w] = units[w]
  BY <1>1 DEF FlushedAs
<1>5. \A q \in Stage, t \in Tile : buffer'[q][t] = IF q = s THEN NoDemand ELSE buffer[q][t]
  BY <1>1 DEF FlushedAs
<1>6. WavesInOrder'
  <2>1. n \in 0 .. MaxWaves
    BY <1>3, Constants
  <2> QED
    BY <1>3, <2>1 DEF WorkInv, WavesInOrder
<1>7. RunsItsUnits'
  BY <1>2, <1>3, <1>4 DEF WorkInv, RunsItsUnits
<1>8. Submitting'
  <2>1. <<s, n>> \in live' /\ Cardinality(WavesOf(s)') = n
    BY <1>3, <1>4
  <2>2. \A t \in Tile : buffer'[s][t].indexes = {}
    BY <1>5 DEF NoDemand
  <2>3. \A q \in Stage : Turn(q) = at' => q = s
    BY <1>2, StageNames
  <2> QED
    BY <2>1, <2>2, <2>3 DEF Submitting
<1>9. Published'
  BY <1>2 DEF WorkInv, Published
<1>10. Discharged'
  <2> SUFFICES ASSUME NEW w \in Wave \ live', running'[w] # {}, NEW u \in units'[w]
               PROVE  Accounted(w, u)'
    BY DEF Discharged
  <2>1. w \in Wave \ live /\ running[w] # {} /\ u \in units[w]
    BY <1>2, <1>4
  <2>2. Accounted(w, u)
    BY <1>2, <2>1 DEF WorkInv, Discharged
  <2> QED
    BY <1>2, <2>2 DEF Accounted, Listed
<1>11. BufferedIsFree'
  BY <1>2, <1>5 DEF WorkInv, BufferedIsFree, NoDemand
<1> QED
  BY <1>6, <1>7, <1>8, <1>9, <1>10, <1>11

\* Steps of the driver that submit nothing: what they must show.
LEMMA QuietStep ==
    ASSUME WorkInv, TypeOK', UNCHANGED <<units, running, art, clk>>,
           \A t \in Tile, s \in Stage : seen'[t][s] \subseteq art[t][s],
           pc' # "submit",
           \A s \in Stage, t \in Tile : buffer'[s][t].indexes = {} \/ buffer'[s][t] = buffer[s][t],
           Discharged'
    PROVE  WorkInv'
<1>1. WavesInOrder'
  BY WavesKept
<1>2. RunsItsUnits' /\ Submitting'
  BY DEF WorkInv, RunsItsUnits, Submitting
<1>3. Published'
  BY DEF WorkInv, Published
<1>4. BufferedIsFree'
  <2> SUFFICES ASSUME NEW s \in Stage, NEW t \in Tile, NEW i \in buffer'[s][t].indexes,
                      NEW n \in 1 .. MaxWaves, <<t, i>> \in running[<<s, n>>]
               PROVE  clk[<<s, n>>] = "stranded"
    BY DEF BufferedIsFree
  <2>1. i \in buffer[s][t].indexes
    OBVIOUS
  <2> QED
    BY <2>1 DEF WorkInv, BufferedIsFree
<1> QED
  BY <1>1, <1>2, <1>3, <1>4 DEF WorkInv

\* Steps of the workers and the clocks, which the driver does not see: artifacts
\* are only added, arrays only lose units, and a stranded wave stays so.
LEMMA WorldStep ==
    ASSUME WorkInv, TypeOK', UNCHANGED <<pc, at, planRead, seen, buffer, live, units>>,
           \A t \in Tile, s \in Stage : /\ art[t][s] \subseteq art'[t][s]
                                        /\ art'[t][s] \subseteq Expected(s),
           \A w \in Wave : /\ running'[w] \subseteq running[w]
                           /\ clk[w] = "stranded" => clk'[w] = "stranded"
    PROVE  WorkInv'
<1>1. WavesInOrder' /\ \A s \in Stage : WavesOf(s)' = WavesOf(s)
  BY WavesKept
<1>7. \A w \in Wave : running[w] \subseteq units[w]
  BY DEF WorkInv, RunsItsUnits
<1>2. RunsItsUnits'
  <2> SUFFICES ASSUME NEW w \in Wave PROVE running'[w] \subseteq units'[w]
    BY DEF RunsItsUnits
  <2>1. running'[w] \subseteq running[w]
    OBVIOUS
  <2>2. units' = units
    OBVIOUS
  <2>3. running[w] \subseteq units[w]
    BY <1>7
  <2> QED
    BY <2>1, <2>2, <2>3
<1>3. Submitting'
  BY <1>1 DEF WorkInv, Submitting
<1>4. Published'
  BY DEF WorkInv, Published
<1>5. Discharged'
  <2> SUFFICES ASSUME pc' # "down", NEW w \in Wave \ live', running'[w] # {}, NEW u \in units'[w]
               PROVE  Accounted(w, u)'
    BY DEF Discharged
  <2>3. pc # "down" /\ w \in Wave \ live /\ running[w] # {} /\ u \in units[w]
    OBVIOUS
  <2>1. Accounted(w, u)
    BY <2>3 DEF WorkInv, Discharged
  <2>2. u[1] \in Tile /\ w[1] \in Stage
    BY DEF WorkInv, TypeOK, Unit, Wave
  <2> QED
    BY <2>1, <2>2 DEF Accounted, Listed
<1>6. BufferedIsFree'
  <2> SUFFICES ASSUME NEW s \in Stage, NEW t \in Tile, NEW i \in buffer'[s][t].indexes,
                      NEW n \in 1 .. MaxWaves, <<t, i>> \in running'[<<s, n>>]
               PROVE  clk'[<<s, n>>] = "stranded"
    BY DEF BufferedIsFree
  <2> DEFINE w == <<s, n>>
  <2>1. w \in Wave
    BY DEF Wave
  <2>2. <<t, i>> \in running[w] => clk[w] = "stranded"
    BY DEF WorkInv, BufferedIsFree
  <2> HIDE DEF w
  <2>3. running'[w] \subseteq running[w] /\ (clk[w] = "stranded" => clk'[w] = "stranded")
    BY <2>1
  <2>4. <<t, i>> \in running'[w]
    BY DEF w
  <2>5. clk'[w] = "stranded"
    BY <2>2, <2>3, <2>4
  <2> QED
    BY <2>5 DEF w
<1> QED
  BY <1>1, <1>2, <1>3, <1>4, <1>5, <1>6 DEF WorkInv

\* A tile never asks for a unit that a wave in its time still runs.
LEMMA StepKeepsWork ==
    ASSUME WorkInv, TypeOK', NEW x \in Tile, Step(x)
    PROVE  WorkInv'
<1>1. /\ pc = "step" /\ planRead \subseteq planRead' /\ Asked
      /\ UNCHANGED <<pc, at, seen, live, art, units, running, clk>>
  BY StepShape DEF StepLeaves, WorkInv
<1>2. WavesInOrder'
  BY <1>1, WavesKept
<1>3. RunsItsUnits' /\ Submitting' /\ Published'
  BY <1>1 DEF WorkInv, RunsItsUnits, Submitting, Published
<1>4. Discharged'
  BY <1>1 DEF WorkInv, Discharged, Accounted, Listed
<1>5. BufferedIsFree'
  <2> SUFFICES ASSUME NEW s \in Stage, NEW t \in Tile, NEW i \in buffer'[s][t].indexes,
                      NEW n \in 1 .. MaxWaves, <<t, i>> \in running[<<s, n>>]
               PROVE  clk[<<s, n>>] = "stranded"
    BY <1>1 DEF BufferedIsFree
  <2> DEFINE w == <<s, n>>
  <2>1. w \in Wave /\ w[1] = s /\ <<t, i>> \in units[w] /\ i \in Index
    <3>1. w \in Wave /\ w[1] = s
      BY DEF Wave
    <3>2. <<t, i>> \in units[w] /\ <<t, i>> \in Unit
      BY <3>1 DEF WorkInv, RunsItsUnits, TypeOK
    <3> QED
      BY <3>1, <3>2 DEF Unit
  <2>2. CASE buffer'[s][t] = buffer[s][t]
    BY <2>2 DEF WorkInv, BufferedIsFree
  <2>3. CASE Free(t, s, i)
    <3>1. CASE w \in live
      BY <2>1, <2>3, <3>1 DEF Free, Held
    <3>2. CASE w \notin live
      <4>1. Accounted(w, <<t, i>>)
        BY <1>1, <2>1, <3>2 DEF WorkInv, Discharged
      <4>2. t \in planRead /\ (i \in Expected(s) => i \in art[t][s] /\ i \in seen[t][s])
        BY <1>1, <2>1, <4>1 DEF Accounted, Listed
      <4> QED
        BY <2>3, <4>2 DEF Free
    <3> QED
      BY <3>1, <3>2
  <2> QED
    BY <1>1, <2>2, <2>3 DEF Asked
<1> QED
  BY <1>2, <1>3, <1>4, <1>5 DEF WorkInv

\* Every step keeps track of the work that may still run.
LEMMA WorkInduction ==
    ASSUME ~ListingFails
    PROVE  WorkInv /\ [Next]_vars => WorkInv'
<1> SUFFICES ASSUME WorkInv, [Next]_vars PROVE WorkInv'
  OBVIOUS
<1> USE DEF driverVars, bucketVars, substrateVars
<1>1. TypeOK /\ TypeOK'
  BY NextType DEF WorkInv
<1>2. ASSUME Forgotten, UNCHANGED <<units, running, art, clk>>, pc' # "submit", Discharged'
      PROVE  WorkInv'
  <2>1. \A t \in Tile, s \in Stage : seen'[t][s] \subseteq art[t][s]
    BY <1>2 DEF Forgotten, NothingListed
  <2>2. \A s \in Stage, t \in Tile : buffer'[s][t].indexes = {}
    BY <1>2 DEF Forgotten, NoDemand
  <2> QED
    BY <1>1, <1>2, <2>1, <2>2, QuietStep
<1>3. CASE Adopt
  <2>1. \A w \in Wave \ live' : running'[w] = {}
    BY <1>3 DEF Adopt, Recorded, WorkInv, RunsItsUnits
  <2>2. Discharged'
    BY <2>1 DEF Discharged
  <2> QED
    BY <1>2, <1>3, <2>2 DEF Adopt
<1>4. CASE Crash
  <2>1. Discharged'
    BY <1>4 DEF Crash, Discharged
  <2> QED
    BY <1>2, <1>4, <2>1 DEF Crash
<1>5. CASE Refresh
  <2>1. UNCHANGED <<planRead, buffer, live, art, units, running, clk>> /\ pc = "list" /\ pc' = "census"
    BY <1>5 DEF Refresh
  <2>2. \A t \in Tile, s \in Stage : seen'[t][s] = art[t][s]
    BY <1>5 DEF Refresh
  <2>3. Discharged'
    <3> SUFFICES ASSUME NEW w \in Wave \ live, running[w] # {}, NEW u \in units[w]
                 PROVE  Accounted(w, u)'
      BY <2>1 DEF Discharged
    <3>1. Accounted(w, u)
      BY <2>1 DEF WorkInv, Discharged
    <3>2. u[1] \in Tile /\ w[1] \in Stage
      BY <1>1 DEF TypeOK, Unit, Wave
    <3> QED
      BY <2>1, <2>2, <3>1, <3>2 DEF Accounted
  <2>4. \A t \in Tile, s \in Stage : seen'[t][s] \subseteq art[t][s]
    BY <2>2
  <2> QED
    BY <1>1, <2>1, <2>3, <2>4, QuietStep
<1>6. CASE Census
  <2>1. UNCHANGED <<planRead, seen, buffer, art, units, running, clk>> /\ pc = "census" /\ pc' = "step"
    BY <1>6 DEF Census
  <2>2. PICK found \in SUBSET {w \in live : Gone(w)}, landed \in SUBSET {w \in live : Landed(w)} :
          live' = live \ (found \cup landed)
    BY <1>6 DEF Census
  <2>3. Discharged'
    <3> SUFFICES ASSUME NEW w \in Wave \ live', running[w] # {}, NEW u \in units[w]
                 PROVE  Accounted(w, u)'
      BY <2>1 DEF Discharged
    <3>1. u[1] \in Tile /\ w[1] \in Stage
      BY <1>1 DEF TypeOK, Unit, Wave
    <3>2. CASE w \notin live
      <4>1. Accounted(w, u)
        BY <2>1, <3>2 DEF WorkInv, Discharged
      <4> QED
        BY <2>1, <4>1 DEF Accounted, Listed
    <3>3. CASE w \in live
      <4>1. w \notin found
        BY <2>2 DEF Gone
      <4>2. Landed(w)
        BY <2>2, <3>3, <4>1
      <4>3. u[1] \in planRead /\ (u[2] \in Expected(w[1]) => u[2] \in seen[u[1]][w[1]])
        BY <4>2 DEF Landed
      <4>4. seen[u[1]][w[1]] \subseteq art[u[1]][w[1]]
        BY <3>1 DEF WorkInv, Published
      <4> QED
        BY <2>1, <4>3, <4>4 DEF Accounted
    <3> QED
      BY <3>2, <3>3
  <2>4. \A t \in Tile, s \in Stage : seen'[t][s] \subseteq art[t][s]
    BY <2>1 DEF WorkInv, Published
  <2> QED
    BY <1>1, <2>1, <2>3, <2>4, QuietStep
<1>7. ASSUME UNCHANGED <<planRead, buffer, live, art, units, running, clk>>,
             pc # "down", pc' \in {"list", "ended", "flush"}, seen' \in {seen, NothingListed}
      PROVE  WorkInv'
  <2>1. \A t \in Tile, s \in Stage : seen'[t][s] \subseteq art[t][s]
    BY <1>7 DEF WorkInv, Published, NothingListed
  <2>2. Discharged'
    <3> SUFFICES ASSUME NEW w \in Wave \ live, running[w] # {}, NEW u \in units[w]
                 PROVE  Accounted(w, u)'
      BY <1>7 DEF Discharged
    <3>1. Accounted(w, u)
      BY <1>7 DEF WorkInv, Discharged
    <3> QED
      BY <1>7, <3>1 DEF Accounted, Listed
  <2> QED
    BY <1>1, <1>7, <2>1, <2>2, QuietStep
<1>8. CASE Abandon \/ CeilingReached \/ EndPoll
  BY <1>7, <1>8 DEF Abandon, CeilingReached, EndPoll, Flushing
<1>9. ASSUME NEW t \in Tile, Step(t) PROVE WorkInv'
  BY <1>1, <1>9, StepKeepsWork
<1>10. ASSUME NEW s \in Stage, Flush(s) PROVE WorkInv'
  BY <1>1, <1>10, FlushKeepsWork DEF WorkInv
<1>11. CASE Submit
  <2>1. /\ pc = "submit" /\ pc' = "flush"
        /\ UNCHANGED <<planRead, seen, buffer, live, art, units, clk>>
    BY <1>11 DEF Submit
  <2>2. PICK s \in Stage : /\ Turn(s) = at
                           /\ \A w \in Wave : \/ running'[w] = running[w]
                                              \/ /\ w = <<s, Cardinality(WavesOf(s))>>
                                                 /\ running'[w] = units[w]
    BY <1>1, <1>11, SubmitShape
  <2>3. <<s, Cardinality(WavesOf(s))>> \in live /\ \A t \in Tile : buffer[s][t].indexes = {}
    BY <2>1, <2>2 DEF WorkInv, Submitting
  <2>4. WavesInOrder'
    BY <2>1, WavesKept
  <2>5. RunsItsUnits'
    BY <2>1, <2>2 DEF WorkInv, RunsItsUnits
  <2>6. Submitting' /\ Published'
    BY <2>1 DEF WorkInv, Submitting, Published
  <2>7. Discharged'
    <3> SUFFICES ASSUME NEW w \in Wave \ live, running'[w] # {}, NEW u \in units[w]
                 PROVE  Accounted(w, u)'
      BY <2>1 DEF Discharged
    <3>1. running'[w] = running[w]
      BY <2>2, <2>3
    <3>2. Accounted(w, u)
      BY <2>1, <3>1 DEF WorkInv, Discharged
    <3> QED
      BY <2>1, <3>2 DEF Accounted, Listed
  <2>8. BufferedIsFree'
    <3> SUFFICES ASSUME NEW q \in Stage, NEW t \in Tile, NEW i \in buffer[q][t].indexes,
                        NEW n \in 1 .. MaxWaves, <<t, i>> \in running'[<<q, n>>]
                 PROVE  clk[<<q, n>>] = "stranded"
      BY <2>1 DEF BufferedIsFree
    <3>1. q # s /\ <<q, n>> \in Wave
      BY <2>3 DEF Wave
    <3>2. running'[<<q, n>>] = running[<<q, n>>]
      BY <2>2, <3>1
    <3> QED
      BY <3>2 DEF WorkInv, BufferedIsFree
  <2> QED
    BY <1>1, <2>4, <2>5, <2>6, <2>7, <2>8 DEF WorkInv
<1>12. \A t \in Tile, s \in Stage : art[t][s] \subseteq Expected(s)
  BY DEF WorkInv, Published
<1>13. ASSUME NEW w \in Wave, NEW t \in Tile, PublishPlan(w, t) PROVE WorkInv'
  BY <1>1, <1>12, <1>13, WorldStep DEF PublishPlan
<1>14. ASSUME NEW w \in Wave, NEW t \in Tile, ClaimedExport(w, t) PROVE WorkInv'
  <2>1. /\ UNCHANGED <<pc, at, planRead, seen, buffer, live, units, running, clk>>
        /\ art' = [art EXCEPT ![t]["export"] = {1}] \/ art' = art
    BY <1>14 DEF ClaimedExport
  <2>2. \A x \in Tile, s \in Stage : /\ art[x][s] \subseteq art'[x][s]
                                     /\ art'[x][s] \subseteq Expected(s)
    <3>1. CASE art' = art
      BY <1>12, <3>1
    <3>2. CASE art' = [art EXCEPT ![t]["export"] = {1}]
      <4>1. art \in [Tile -> [Stage -> SUBSET Index]] /\ {1} \in SUBSET Index
        BY <1>1, ExpectedType DEF TypeOK
      <4>2. \A x \in Tile, s \in Stage : art'[x][s] = IF x = t /\ s = "export" THEN {1} ELSE art[x][s]
        BY <3>2, <4>1, TwoLevels
      <4> QED
        BY <1>12, <4>2, ExpectedType
    <3> QED
      BY <2>1, <3>1, <3>2
  <2> QED
    BY <1>1, <2>1, <2>2, WorldStep
<1>15. ASSUME NEW w \in Wave, NEW t \in Tile, NEW i \in Index, Publish(w, t, i) PROVE WorkInv'
  <2>1. /\ UNCHANGED <<pc, at, planRead, seen, buffer, live, units, clk>>
        /\ w[1] \in Stage /\ i \in Expected(w[1])
        /\ art' = [art EXCEPT ![t][w[1]] = @ \cup {i}]
        /\ running' = [running EXCEPT ![w] = @ \ {<<t, i>>}]
    BY <1>15 DEF Publish, Wave
  <2>2. \A x \in Tile, s \in Stage : /\ art[x][s] \subseteq art'[x][s]
                                     /\ art'[x][s] \subseteq Expected(s)
    <3> DEFINE old == art[t][w[1]]
               new == old \cup {i}
    <3>1. /\ art \in [Tile -> [Stage -> SUBSET Index]] /\ new \in SUBSET Index
          /\ art' = [art EXCEPT ![t][w[1]] = new]
      BY <1>1, <2>1 DEF TypeOK
    <3>2. old \subseteq new /\ new \subseteq Expected(w[1])
      BY <1>12, <2>1
    <3> HIDE DEF new
    <3>3. \A x \in Tile, s \in Stage : art'[x][s] = IF x = t /\ s = w[1] THEN new ELSE art[x][s]
      <4> DEFINE stage == w[1]
      <4>1. stage \in Stage /\ art' = [art EXCEPT ![t][stage] = new]
        BY <2>1, <3>1
      <4> HIDE DEF stage
      <4>2. \A x \in Tile, s \in Stage : art'[x][s] = IF x = t /\ s = stage THEN new ELSE art[x][s]
        BY <3>1, <4>1, TwoLevels
      <4> QED
        BY <4>2 DEF stage
    <3> QED
      BY <1>12, <3>2, <3>3
  <2>3. \A x \in Wave : running'[x] \subseteq running[x]
    BY <1>1, <2>1, UnitEnds
  <2> QED
    BY <1>1, <2>1, <2>2, <2>3, WorldStep
<1>16. ASSUME NEW w \in Wave, NEW t \in Tile, NEW i \in Index, Lose(w, t, i) PROVE WorkInv'
  <2>1. \A x \in Wave : running'[x] \subseteq running[x]
    BY <1>1, <1>16, UnitEnds DEF Lose
  <2> QED
    BY <1>1, <1>12, <1>16, <2>1, WorldStep DEF Lose
<1>17. ASSUME NEW w \in Wave, ClockRuns(w) PROVE WorkInv'
  <2>1. \A x \in Wave : clk[x] = "stranded" => clk'[x] = "stranded"
    BY <1>1, <1>17 DEF ClockRuns, TypeOK
  <2> QED
    BY <1>1, <1>12, <1>17, <2>1, WorldStep DEF ClockRuns
<1>18. ASSUME NEW t \in Tile, ClaimLapses(t) PROVE WorkInv'
  BY <1>1, <1>12, <1>18, WorldStep DEF ClaimLapses
<1>19. CASE UNCHANGED vars
  BY <1>1, <1>12, <1>19, WorldStep DEF vars
<1> QED
  BY <1>3, <1>4, <1>5, <1>6, <1>8, <1>9, <1>10, <1>11, <1>13, <1>14, <1>15, <1>16, <1>17, <1>18,
     <1>19 DEF Next, Poll, World, Clocks

\* A unit some array still runs is submitted again only once that array's wave is
\* stranded, through any number of killed and resumed drivers, as long as the
\* listings a tile is judged by succeed.
THEOREM RepeatsAreEarned == ~ListingFails => (Spec => OnlyStrandedWorkIsRepeated)
<1> SUFFICES ASSUME ~ListingFails
             PROVE  Spec => OnlyStrandedWorkIsRepeated
  OBVIOUS
<1> DEFINE Repeats ==
        \A s \in Stage : \A m, n \in 1 .. MaxWaves :
            units[<<s, n>>] = {} /\ units'[<<s, n>>] \cap running[<<s, m>>] # {}
              => clk[<<s, m>>] = "stranded"
<1>1. Init => WorkInv
  <2> SUFFICES ASSUME Init PROVE WorkInv
    OBVIOUS
  <2>1. WavesInOrder
    <3>1. \A s \in Stage : WavesOf(s) = {}
      BY DEF Init, WavesOf, Wave
    <3>2. 0 \in 0 .. MaxWaves /\ 1 .. 0 = {}
      BY Constants
    <3> QED
      BY <3>1, <3>2 DEF WavesInOrder
  <2>2. RunsItsUnits /\ Submitting
    BY DEF Init, RunsItsUnits, Submitting
  <2>3. Published
    BY DEF Init, Published, NothingListed
  <2>4. Discharged /\ BufferedIsFree
    BY DEF Init, Discharged, BufferedIsFree, NoDemand
  <2> QED
    BY <2>1, <2>2, <2>3, <2>4, InitType DEF WorkInv
<1>2. WorkInv /\ [Next]_vars => WorkInv'
  BY WorkInduction
<1>3. WorkInv /\ [Next]_vars => Repeats
  <2> SUFFICES ASSUME WorkInv, [Next]_vars,
                      NEW s \in Stage, NEW m \in 1 .. MaxWaves, NEW n \in 1 .. MaxWaves,
                      units[<<s, n>>] = {}, units'[<<s, n>>] \cap running[<<s, m>>] # {}
               PROVE  clk[<<s, m>>] = "stranded"
    OBVIOUS
  <2>1. units' # units
    OBVIOUS
  <2>2. PICK q \in Stage : Flush(q)
    <3> USE DEF driverVars, bucketVars, substrateVars
    <3>1. ~(Adopt \/ Crash \/ Refresh \/ Census \/ Submit \/ EndPoll \/ Abandon \/ CeilingReached)
      BY <2>1 DEF Adopt, Crash, Refresh, Census, Submit, EndPoll, Abandon, CeilingReached
    <3>2. ~ \E t \in Tile : Step(t)
      BY <2>1, StepShape DEF StepLeaves, WorkInv
    <3>3. ~World
      <4>1. \A w \in Wave, t \in Tile : ~PublishPlan(w, t) /\ ~ClaimedExport(w, t)
        BY <2>1 DEF PublishPlan, ClaimedExport
      <4>2. \A w \in Wave, t \in Tile, i \in Index : ~Publish(w, t, i) /\ ~Lose(w, t, i)
        BY <2>1 DEF Publish, Lose
      <4>3. ~Clocks
        BY <2>1 DEF Clocks, ClockRuns, ClaimLapses
      <4> QED
        BY <4>1, <4>2, <4>3 DEF World
    <3>4. ~ UNCHANGED vars
      BY <2>1 DEF vars
    <3> QED
      BY <3>1, <3>2, <3>3, <3>4 DEF Next, Poll
  <2>3. PICK k, unwritten : FlushedAs(q, k, unwritten)
    BY <2>2, FlushShape DEF WorkInv
  <2>4. <<s, n>> \in Wave /\ <<s, m>> \in Wave
    BY DEF Wave
  <2>5. /\ <<s, n>> = <<q, k>>
        /\ units'[<<s, n>>] = {u \in Unit : u[2] \in buffer[q][u[1]].indexes}
    BY <2>3, <2>4 DEF FlushedAs
  <2>6. PICK u \in Unit : u \in running[<<s, m>>] /\ u[2] \in buffer[s][u[1]].indexes
    BY <2>5
  <2>7. u[1] \in Tile /\ u = <<u[1], u[2]>>
    BY DEF Unit
  <2> QED
    BY <2>6, <2>7 DEF WorkInv, BufferedIsFree
<1> QED
  BY <1>1, <1>2, <1>3, PTL DEF Spec, OnlyStrandedWorkIsRepeated
=============================================================================
