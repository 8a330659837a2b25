-------------------------- MODULE DriveTileProofs --------------------------
(***************************************************************************)
(* What holds of the driver of one tile, through any number of drivers,    *)
(* rounds, retries and ticks of a deadline.                                *)
(***************************************************************************)
EXTENDS DriveTile, Counting

-----------------------------------------------------------------------------
(* Types.                                                                  *)

Place == Over \cup Submitting \cup
         {"begin", "first", "plan", "check", "adopt", "submit", "early", "watch", "hook", "probe",
          "merge", "claim"}
Why == {"", "no plan", "not submitted", "unread", "exhausted", "killed"}

Driver == [at : Place, stage : Stage, round : Round, left : 0 .. Deadline, tries : Nat,
           cluster : {0} \cup Round, steps : Nat, early : BOOLEAN, why : Why]

DriverType == drv \in Driver /\ begun \in 0 .. Drivers
BucketType ==
    /\ rec \in [Stage -> [Round -> 0 .. NoRecord]]
    /\ known \in [Stage -> SUBSET Round]
    /\ plan \in BOOLEAN
    /\ art \in [Stage -> SUBSET Nat]
    /\ \A s \in Stage : art[s] \subseteq Unit(s)
    /\ merged \in BOOLEAN
FleetType ==
    /\ array \in [Stage -> [Round -> {"none", "running", "stopped"}]]
    /\ carries \in [Stage -> [Round -> SUBSET Nat]]
    /\ \A s \in Stage : \A r \in Round : carries[s][r] \subseteq Unit(s)

LapseType == failed \in 0 .. Failures /\ unread \subseteq Stage /\ unwritten \subseteq Stage

TypeOK == DriverType /\ BucketType /\ FleetType /\ LapseType

\* The arithmetic of the constants.
LEMMA Constants ==
    /\ Drivers \in Nat /\ Rounds \in Nat /\ Retries \in Nat /\ Deadline \in Nat /\ Units \in Nat
    /\ Overlap \in 0 .. 100 /\ Failures \in Nat
    /\ Drivers >= 1 /\ Rounds >= 1 /\ Retries >= 1 /\ Deadline >= 1 /\ Units >= 1
BY DriveTileAssumption

\* A stage has units, numbered from one.
LEMMA UnitType ==
    ASSUME NEW s \in Stage
    PROVE  Unit(s) \subseteq Nat /\ Unit(s) # {} /\ 1 \in Unit(s)
BY Constants DEF Unit

\* The places of a driver, one by one.
LEMMA Places ==
    {"off", "done", "failed", "starting", "submitting", "overlapping", "begin", "first", "plan",
     "check", "adopt", "submit", "early", "watch", "hook", "probe", "merge", "claim"} = Place
BY DEF Place, Over, Submitting

\* The lesser of two numbers.
LEMMA LesserOf ==
    ASSUME NEW a \in Nat, NEW b \in Nat
    PROVE  Min({a, b}) = IF a <= b THEN a ELSE b
BY DEF Min

\* What a driver is when it is not there, and how the next one begins.
LEMMA OffFields ==
    /\ Off.at = "off" /\ Off.stage = "offsets" /\ Off.why = "" /\ Off.steps = 0
    /\ [Off EXCEPT !.at = "begin"].at = "begin" /\ [Off EXCEPT !.at = "begin"].stage = "offsets"
    /\ [Off EXCEPT !.at = "begin"].why = "" /\ [Off EXCEPT !.at = "begin"].steps = 0
BY DEF Off

LEMMA OffType == Off \in Driver
BY Constants DEF Off, Driver, Place, Over, Stage, Round, Why

-----------------------------------------------------------------------------
(* The newest round on record.                                             *)

Newest(f) == Max({0} \cup {r \in Round : f[r] # NoRecord})

\* The latest record of a stage, as a function of its records.
LEMMA LatestIsNewest == ASSUME NEW s \in Stage PROVE Latest(s) = Newest(rec[s])
BY DEF Latest, Recorded, Newest

\* The newest record is on record, and none is newer.
LEMMA NewestOf ==
    ASSUME NEW f
    PROVE  /\ Newest(f) \in 0 .. Rounds
           /\ Newest(f) # 0 => Newest(f) \in Round /\ f[Newest(f)] # NoRecord
           /\ \A r \in Round : f[r] # NoRecord => r <= Newest(f)
<1> DEFINE S == {0} \cup {r \in Round : f[r] # NoRecord}
<1>1. S \in SUBSET (0 .. Rounds) /\ S # {} /\ Rounds \in Nat
  BY Constants DEF Round
<1>2. Max(S) \in S /\ \A y \in S : y <= Max(S)
  <2> HIDE DEF S
  <2> QED
    BY <1>1, MaxOf
<1>3. Newest(f) = Max(S)
  BY DEF Newest
<1> QED
  BY <1>1, <1>2, <1>3 DEF Round

\* The newest round is the one that is on record with none on record above it.
LEMMA NewestIs ==
    ASSUME NEW f, NEW n \in 0 .. Rounds, n # 0 => f[n] # NoRecord,
           \A r \in Round : f[r] # NoRecord => r <= n
    PROVE  Newest(f) = n
<1>1. Newest(f) >= n
  BY NewestOf, Constants DEF Round
<1>2. Newest(f) <= n
  BY NewestOf, Constants DEF Round
<1> QED
  BY <1>1, <1>2, NewestOf, Constants

\* A record written for a round at or past the newest makes it the newest.
LEMMA RecordNow ==
    ASSUME BucketType, NEW s \in Stage, NEW n \in Round, n >= Newest(rec[s]),
           rec' = RecordedNow(s, n)
    PROVE  /\ rec' \in [Stage -> [Round -> 0 .. NoRecord]]
           /\ Newest(rec'[s]) = n
           /\ \A q \in Stage \ {s} : rec'[q] = rec[q]
           /\ \A r \in Round : rec'[s][r] = IF r = n THEN 0 ELSE rec[s][r]
<1>1. rec' \in [Stage -> [Round -> 0 .. NoRecord]]
  BY Constants DEF BucketType, RecordedNow, NoRecord
<1>2. \A r \in Round : rec'[s][r] = IF r = n THEN 0 ELSE rec[s][r]
  BY DEF BucketType, RecordedNow
<1>3. \A q \in Stage \ {s} : rec'[q] = rec[q]
  BY DEF BucketType, RecordedNow
<1>4. Newest(rec'[s]) = n
  <2>1. \A r \in Round : rec[s][r] # NoRecord => r <= n
    BY NewestOf, Constants DEF Round
  <2>2. rec'[s][n] # NoRecord /\ \A r \in Round : rec'[s][r] # NoRecord => r <= n
    BY <1>2, <2>1, Constants DEF NoRecord, Round
  <2> QED
    BY <2>2, NewestIs, Constants DEF Round
<1> QED
  BY <1>1, <1>2, <1>3, <1>4

\* A stage is live while its newest record is inside the deadline.
LEMMA LiveIsFresh ==
    ASSUME NEW s \in Stage
    PROVE  IsLive(s, Latest(s)) <=> Newest(rec[s]) # 0 /\ rec[s][Newest(rec[s])] < Deadline
BY LatestIsNewest DEF IsLive
-----------------------------------------------------------------------------
(* Reading and writing the records.                                        *)

\* What a driver finds on record: the newest round, or an older one of a stage
\* that counts as unread from then on.
LEMMA FindsOf ==
    ASSUME TypeOK, NEW s \in Stage, NEW r \in 0 .. Rounds, Finds(s, r)
    PROVE  /\ LapseType' /\ unwritten' = unwritten /\ unread \subseteq unread'
           /\ unread' \subseteq unread \cup {s}
           /\ s \notin unread' => r = Newest(rec[s])
<1>1. LapseType /\ Latest(s) = Newest(rec[s])
  BY LatestIsNewest DEF TypeOK
<1>2. CASE r = Latest(s) /\ UNCHANGED lapses
  BY <1>1, <1>2 DEF LapseType, lapses
<1>3. CASE Fallible /\ unread' = unread \cup {s} /\ UNCHANGED unwritten
  BY <1>1, <1>3, Constants DEF LapseType, Fallible
<1> QED
  BY <1>2, <1>3 DEF Finds

\* What a submission leaves on record: its round, as the newest unless a newer
\* one is there, or nothing at all of a stage that counts as unwritten.
LEMMA RecordsOf ==
    ASSUME TypeOK, NEW s \in Stage, NEW n \in Round, NEW c \in SUBSET Round, Records(s, n, c)
    PROVE  /\ rec' \in [Stage -> [Round -> 0 .. NoRecord]] /\ known' \in [Stage -> SUBSET Round]
           /\ LapseType' /\ unread' = unread /\ unwritten \subseteq unwritten'
           /\ unwritten' \subseteq unwritten \cup {s}
           /\ \A q \in Stage \ {s} : rec'[q] = rec[q]
           /\ \/ rec' = rec /\ s \in unwritten'
              \/ rec' = RecordedNow(s, n) /\ unwritten' = unwritten
<1>1. BucketType /\ LapseType
  BY DEF TypeOK
<1>2. CASE /\ rec' = RecordedNow(s, n) /\ known' = [known EXCEPT ![s] = c]
           /\ UNCHANGED lapses
  <2>1. rec' \in [Stage -> [Round -> 0 .. NoRecord]] /\ \A q \in Stage \ {s} : rec'[q] = rec[q]
    BY <1>1, <1>2, Constants DEF BucketType, RecordedNow, NoRecord
  <2>2. known' \in [Stage -> SUBSET Round]
    BY <1>1, <1>2 DEF BucketType
  <2> QED
    BY <1>1, <1>2, <2>1, <2>2 DEF LapseType, lapses
<1>3. CASE Fallible /\ unwritten' = unwritten \cup {s} /\ UNCHANGED <<rec, known, unread>>
  BY <1>1, <1>3, Constants DEF BucketType, LapseType, Fallible
<1> QED
  BY <1>2, <1>3 DEF Records

-----------------------------------------------------------------------------
(* Every step keeps the types.                                             *)

\* A run without a driver is well typed.
LEMMA InitType == Init => TypeOK
<1> SUFFICES ASSUME Init PROVE TypeOK
  OBVIOUS
<1>1. DriverType
  BY OffType, Constants DEF Init, DriverType
<1>2. BucketType
  <2>1. NoRecord \in 0 .. NoRecord
    BY Constants DEF NoRecord
  <2> QED
    BY <2>1 DEF Init, BucketType
<1>3. FleetType
  BY DEF Init, FleetType
<1>4. LapseType
  BY Constants DEF Init, LapseType
<1> QED
  BY <1>1, <1>2, <1>3, <1>4 DEF TypeOK

\* Where a driver may be sent.
LEMMA MoveType ==
    ASSUME drv \in Driver
    PROVE  /\ \A place \in Place : Goes(place) => drv' \in Driver
           /\ \A why \in Why : Fails(why) => drv' \in Driver
           /\ \A s \in Stage : Enters(s) => drv' \in Driver
           /\ Settles => drv' \in Driver
           /\ AfterStart => drv' \in Driver
<1>1. ASSUME NEW place \in Place, Goes(place) PROVE drv' \in Driver
  BY <1>1 DEF Goes, Driver
<1>2. ASSUME NEW why \in Why, Fails(why) PROVE drv' \in Driver
  BY <1>2, OffType DEF Fails, Driver, Place, Over
<1>3. ASSUME NEW s \in Stage, Enters(s) PROVE drv' \in Driver
  BY <1>3, OffType DEF Enters, Driver, Place
<1>4. ASSUME Settles PROVE drv' \in Driver
  <2>1. \A p \in Place, n \in 0 .. Deadline :
           [Off EXCEPT !.stage = drv.stage, !.at = p, !.left = n] \in Driver
    BY OffType DEF Driver
  <2>2. [Off EXCEPT !.at = "done"] \in Driver
    BY OffType DEF Driver, Place, Over
  <2>3. {"merge", "claim"} \subseteq Place /\ {0, Deadline} \subseteq 0 .. Deadline
    BY Constants DEF Place
  <2>4. CASE drv.stage = "export"
    BY <1>4, <2>2, <2>4 DEF Settles
  <2>5. CASE drv.stage = "offsets"
    <3>1. drv' = [Off EXCEPT !.stage = drv.stage, !.at = "merge", !.left = 0]
      BY <1>4, <2>5 DEF Settles
    <3> QED
      BY <2>1, <2>3, <3>1
  <2>6. CASE drv.stage \notin {"export", "offsets"}
    <3>1. drv' = [Off EXCEPT !.stage = drv.stage, !.at = "claim", !.left = Deadline]
      BY <1>4, <2>6 DEF Settles
    <3> QED
      BY <2>1, <2>3, <3>1
  <2> QED
    BY <2>4, <2>5, <2>6
<1>5. ASSUME AfterStart PROVE drv' \in Driver
  <2>1. [drv EXCEPT !.at = "plan", !.left = Deadline] \in Driver /\ "offsets" \in Stage
    <3>1. Deadline \in 0 .. Deadline /\ "plan" \in Place
      BY Constants DEF Place
    <3>2. [drv EXCEPT !.at = "plan", !.left = Deadline] \in Driver
      BY <3>1 DEF Driver
    <3> QED
      BY <3>2 DEF Stage
  <2> QED
    BY <1>3, <1>5, <2>1 DEF AfterStart
<1> QED
  BY <1>1, <1>2, <1>3, <1>4, <1>5

\* What a submission is for.
LEMMA SubmissionType ==
    ASSUME TypeOK
    PROVE  /\ StageOf \in Stage /\ RoundOf \in Round
           /\ Asked \subseteq Unit(StageOf)
           /\ known[StageOf] \cup {RoundOf} \in SUBSET Round
           /\ known[StageOf] \ {RoundOf} \in SUBSET Round
<1>1. drv.stage \in Stage /\ drv.round \in Round /\ \A s \in Stage : known[s] \in SUBSET Round
  BY DEF TypeOK, DriverType, BucketType, Driver
<1>2. StageOf \in Stage /\ RoundOf \in Round
  BY <1>1, Constants DEF StageOf, RoundOf, Stage, Round
<1>3. Asked \subseteq Unit(StageOf)
  BY DEF Asked, Missing
<1> QED
  BY <1>1, <1>2, <1>3

\* An array that starts runs units of its stage.
LEMMA StartsType ==
    ASSUME TypeOK, Starts
    PROVE  FleetType'
<1>1. StageOf \in Stage /\ RoundOf \in Round /\ Asked \subseteq Unit(StageOf) /\ Asked \subseteq Nat
  BY SubmissionType, UnitType
<1> HIDE DEF StageOf, RoundOf, Asked
<1>2. array' \in [Stage -> [Round -> {"none", "running", "stopped"}]]
  BY <1>1 DEF TypeOK, FleetType, Starts
<1>3. carries' \in [Stage -> [Round -> SUBSET Nat]]
  BY <1>1 DEF TypeOK, FleetType, Starts
<1>4. \A s \in Stage : \A r \in Round :
         carries'[s][r] = IF s = StageOf /\ r = RoundOf THEN Asked ELSE carries[s][r]
  BY <1>1 DEF TypeOK, FleetType, Starts
<1> QED
  BY <1>1, <1>2, <1>3, <1>4 DEF TypeOK, FleetType

\* The driver's own steps.
LEMMA StepType ==
    ASSUME TypeOK, DriverStep
    PROVE  TypeOK'
<1> USE DEF TypeOK, bucket, fleet, records
<1>1. drv \in Driver /\ begun' = begun
  BY DEF DriverType, DriverStep, StartOffsets, SeePlan, StartRound, SubmitAnswers, SubmitRaises,
         Check, Adopt, Watch, Hook, Probe, Merge, AwaitExport
<1>2. /\ drv.stage \in Stage /\ drv.round \in Round /\ drv.left \in 0 .. Deadline
      /\ drv.tries \in Nat /\ drv.steps \in Nat /\ drv.cluster \in {0} \cup Round
      /\ drv.early \in BOOLEAN
  BY <1>1 DEF Driver
<1>3. 1 \in Round /\ 0 \in 0 .. Deadline /\ Deadline \in 0 .. Deadline
  BY Constants DEF Round
<1>4. {"offsets", "composite", "export"} = Stage
  BY DEF Stage
<1>5. Stepped \in Nat
  BY <1>2 DEF Stepped
<1>6. StageOf \in Stage /\ RoundOf \in Round
  BY SubmissionType
<1> USE DEF DriverType, At
<1> HIDE DEF StageOf, RoundOf
<1>7. CASE StartOffsets
  <2>1. LapseType' /\ UNCHANGED <<begun, bucket, fleet>>
    BY <1>4, <1>7, FindsOf DEF StartOffsets, LapseType, lapses
  <2>2. drv' \in Driver
    <3>1. [drv EXCEPT !.at = "first", !.round = 1] \in Driver
      BY <1>1, <1>3 DEF Driver, Place
    <3>2. AfterStart \/ drv' = [drv EXCEPT !.at = "first", !.round = 1]
      BY <1>7 DEF StartOffsets
    <3> QED
      BY <1>1, <3>1, <3>2, MoveType
  <2> QED
    BY <2>1, <2>2 DEF BucketType, FleetType
<1>8. CASE SeePlan
  <2>1. drv' \in Driver
    BY <1>1, <1>4, <1>8, MoveType DEF SeePlan, Why
  <2> QED
    BY <1>8, <2>1 DEF SeePlan, BucketType, FleetType, LapseType, lapses
<1>9. CASE StartRound
  <2>1. /\ rec' \in [Stage -> [Round -> 0 .. NoRecord]] /\ known' \in [Stage -> SUBSET Round]
        /\ LapseType'
    <3>1. CASE UNCHANGED records
      BY <3>1 DEF BucketType, LapseType, lapses
    <3>2. CASE Records(StageOf, RoundOf, known[StageOf] \ {RoundOf})
      BY <1>6, <3>2, SubmissionType, RecordsOf
    <3> QED
      BY <1>9, <3>1, <3>2 DEF StartRound
  <2>2. drv' \in Driver
    <3>1. \A p \in {"starting", "submitting", "overlapping"}, n \in Nat :
            [drv EXCEPT !.at = p, !.steps = n] \in Driver
      BY <1>1, Places DEF Driver
    <3>2. \/ Goes("check")
          \/ \E p \in {"starting", "submitting", "overlapping"}, n \in Nat :
                drv' = [drv EXCEPT !.at = p, !.steps = n]
      BY <1>2, <1>5, <1>9 DEF StartRound
    <3>3. "check" \in Place
      BY DEF Place
    <3> QED
      BY <1>1, <3>1, <3>2, <3>3, MoveType
  <2> QED
    BY <1>9, <2>1, <2>2 DEF StartRound, BucketType, FleetType
<1>10. CASE SubmitAnswers
  <2>2. drv' \in Driver
    <3>1. AfterSubmission(RoundOf) /\ drv.at \in Submitting
      BY <1>10 DEF SubmitAnswers
    <3> QED
      <4>1. \A p \in Place, n \in 0 .. Deadline, c \in {0} \cup Round, e \in BOOLEAN :
              [drv EXCEPT !.tries = 0, !.at = p, !.left = n, !.cluster = c, !.early = e] \in Driver
        BY <1>1 DEF Driver
      <4>2. {"check", "plan", "watch", "probe"} \subseteq Place
        BY DEF Place
      <4>3. \E p \in {"check", "plan", "watch", "probe"}, n \in {0, Deadline, drv.left},
              c \in {RoundOf, drv.cluster}, e \in {drv.early, TRUE} :
              drv' = [drv EXCEPT !.tries = 0, !.at = p, !.left = n, !.cluster = c, !.early = e]
        <5>1. CASE At("starting")
          BY <1>1, <3>1, <5>1 DEF AfterSubmission, Driver
        <5>2. CASE At("submitting")
          BY <1>1, <3>1, <5>2 DEF AfterSubmission, Driver
        <5>3. CASE At("overlapping")
          BY <1>1, <3>1, <5>3 DEF AfterSubmission, Driver
        <5> QED
          BY <3>1, <5>1, <5>2, <5>3 DEF Submitting
      <4>4. /\ {0, Deadline, drv.left} \subseteq 0 .. Deadline
            /\ {RoundOf, drv.cluster} \subseteq {0} \cup Round
            /\ {drv.early, TRUE} \subseteq BOOLEAN
        BY <1>2, <1>3, <1>6
      <4>5. PICK p \in {"check", "plan", "watch", "probe"}, n \in {0, Deadline, drv.left},
                 c \in {RoundOf, drv.cluster}, e \in {drv.early, TRUE} :
              drv' = [drv EXCEPT !.tries = 0, !.at = p, !.left = n, !.cluster = c, !.early = e]
        BY <4>3
      <4>6. p \in Place /\ n \in 0 .. Deadline /\ c \in {0} \cup Round /\ e \in BOOLEAN
        BY <4>2, <4>4, <4>5
      <4> QED
        BY <4>1, <4>5, <4>6
  <2>3. /\ rec' \in [Stage -> [Round -> 0 .. NoRecord]] /\ known' \in [Stage -> SUBSET Round]
        /\ LapseType'
    BY <1>6, <1>10, SubmissionType, RecordsOf DEF SubmitAnswers
  <2>4. FleetType'
    BY <1>10, StartsType DEF SubmitAnswers
  <2> QED
    BY <1>10, <2>2, <2>3, <2>4 DEF SubmitAnswers, BucketType
<1>11. CASE SubmitRaises
  <2>1. drv' \in Driver
    <3>1. CASE GivesUp
      <4>1. [drv EXCEPT !.at = "probe", !.tries = 0] \in Driver
        BY <1>1 DEF Driver, Place
      <4>2. "not submitted" \in Why
        BY DEF Why
      <4> QED
        BY <1>1, <3>1, <4>1, <4>2, MoveType DEF GivesUp
    <3>2. CASE drv' = [drv EXCEPT !.tries = @ + 1]
      BY <1>1, <1>2, <3>2 DEF Driver
    <3> QED
      BY <1>11, <3>1, <3>2 DEF SubmitRaises
  <2>2. FleetType'
    BY <1>11, StartsType DEF SubmitRaises, FleetType
  <2> QED
    BY <1>11, <2>1, <2>2 DEF SubmitRaises, BucketType, LapseType, lapses
<1>12. CASE Check
  <2>1. drv' \in Driver
    <3>1. "exhausted" \in Why
      BY DEF Why
    <3>2. [drv EXCEPT !.at = "adopt", !.steps = Stepped] \in Driver
      BY <1>1, <1>5, Places DEF Driver
    <3>3. \A r \in Round : [drv EXCEPT !.at = "submit", !.steps = Stepped, !.round = r] \in Driver
      BY <1>1, <1>5, Places DEF Driver
    <3> QED
      BY <1>1, <1>12, <3>1, <3>2, <3>3, MoveType DEF Check
  <2>2. LapseType'
    BY <1>2, <1>12, FindsOf DEF Check, LapseType, lapses
  <2> QED
    BY <1>12, <2>1, <2>2 DEF Check, BucketType, FleetType
<1>13. CASE Adopt
  <2>1. LapseType'
    BY <1>2, <1>13, FindsOf DEF Adopt, LapseType, lapses
  <2>2. \A n \in 0 .. Deadline, c \in {0} \cup Round :
           [drv EXCEPT !.at = "watch", !.steps = Stepped, !.left = n, !.cluster = c] \in Driver
    BY <1>1, <1>5, Places DEF Driver
  <2>3. "check" \in Place /\ "unread" \in Why
    BY DEF Place, Why
  <2>4. ASSUME NEW r \in 0 .. Rounds, r # 0,
               drv' = [drv EXCEPT !.at = "watch", !.steps = Stepped,
                          !.left = SinceItsRecord(drv.stage, r),
                          !.cluster = IF r \in known[drv.stage] THEN r ELSE 0]
        PROVE  drv' \in Driver
    <3>1. r \in Round /\ rec[drv.stage][r] \in Nat /\ Deadline \in Nat
      <4>1. r \in Round /\ Deadline \in Nat
        BY <2>4, Constants DEF Round
      <4>2. rec[drv.stage][r] \in 0 .. NoRecord
        BY <1>2, <4>1 DEF BucketType
      <4> QED
        BY <4>1, <4>2
    <3>2. SinceItsRecord(drv.stage, r) \in 0 .. Deadline
      BY <3>1, LesserOf DEF SinceItsRecord
    <3> DEFINE c == IF r \in known[drv.stage] THEN r ELSE 0
    <3>3. c \in {0} \cup Round
      BY <3>1
    <3>4. drv' = [drv EXCEPT !.at = "watch", !.steps = Stepped,
                      !.left = SinceItsRecord(drv.stage, r), !.cluster = c]
      BY <2>4
    <3> HIDE DEF c
    <3> QED
      BY <2>2, <3>2, <3>3, <3>4
  <2>5. drv' \in Driver
    BY <1>1, <1>13, <2>3, <2>4, MoveType DEF Adopt
  <2> QED
    BY <1>13, <2>1, <2>5 DEF Adopt, BucketType, FleetType
<1>14. CASE Watch
  <2>1. {"hook", "probe"} \subseteq Place
    BY DEF Place
  <2>2. drv' \in Driver
    BY <1>1, <1>14, <2>1, MoveType DEF Watch
  <2> QED
    BY <1>14, <2>2 DEF Watch, BucketType, FleetType, LapseType, lapses
<1>15. CASE Hook
  <2>1. {"early", "probe"} \subseteq Place
    BY DEF Place
  <2>2. drv' \in Driver
    BY <1>1, <1>15, <2>1, MoveType DEF Hook
  <2>3. LapseType'
    BY <1>4, <1>15, FindsOf, Constants DEF Hook, LapseType, lapses, Fallible
  <2> QED
    BY <1>15, <2>2, <2>3 DEF Hook, BucketType, FleetType
<1>16. CASE Probe
  <2>1. [drv EXCEPT !.at = "check", !.steps = Stepped] \in Driver /\ "watch" \in Place
    BY <1>1, <1>5, Places DEF Driver
  <2>2. "killed" \in Why
    BY DEF Why
  <2>3. drv' \in Driver
    BY <1>1, <1>16, <2>1, <2>2, MoveType DEF Probe
  <2> QED
    BY <1>16, <2>3 DEF Probe, BucketType, FleetType, LapseType, lapses
<1>17. CASE Merge
  <2>1. drv' \in Driver
    BY <1>1, <1>4, <1>17, MoveType DEF Merge
  <2> QED
    BY <1>17, <2>1 DEF Merge, BucketType, FleetType, LapseType, lapses
<1>18. CASE AwaitExport
  <2>1. [Off EXCEPT !.at = "done"] \in Driver
    BY OffType DEF Driver, Place, Over
  <2>2. drv' \in Driver
    BY <1>1, <1>4, <1>18, <2>1, MoveType DEF AwaitExport
  <2> QED
    BY <1>18, <2>2 DEF AwaitExport, BucketType, FleetType, LapseType, lapses
<1> QED
  BY <1>7, <1>8, <1>9, <1>10, <1>11, <1>12, <1>13, <1>14, <1>15, <1>16, <1>17, <1>18 DEF DriverStep

\* The fleet, the clock and the operator.
LEMMA WorldType ==
    ASSUME TypeOK,
           \/ DriverBegins \/ Killed \/ Tick \/ UNCHANGED vars
           \/ \E s \in Stage, r \in Round : ArrayStops(s, r) \/ \E u \in Unit(s) : Publish(s, r, u)
    PROVE  TypeOK'
<1> USE DEF TypeOK, DriverType, LapseType, bucket, fleet, lapses
<1>1. CASE DriverBegins
  <2>1. drv' \in Driver
    BY <1>1, OffType DEF DriverBegins, Driver, Place
  <2>2. begun' \in 0 .. Drivers
    BY <1>1, Constants DEF DriverBegins
  <2> QED
    BY <1>1, <2>1, <2>2 DEF DriverBegins, BucketType, FleetType
<1>2. CASE Killed
  BY <1>2, OffType DEF Killed, BucketType, FleetType
<1>3. CASE Tick
  <2>1. drv' \in Driver
    <3>1. drv.left \in 0 .. Deadline
      BY DEF Driver
    <3>2. (IF drv.left > 0 THEN drv.left - 1 ELSE 0) \in 0 .. Deadline
      BY <3>1, Constants
    <3> HIDE DEF DriverType
    <3> QED
      BY <1>3, <3>2 DEF Tick, Driver, DriverType
  <2>2. rec' \in [Stage -> [Round -> 0 .. NoRecord]]
    BY <1>3, Constants DEF Tick, BucketType, NoRecord
  <2> QED
    BY <1>3, <2>1, <2>2 DEF Tick, BucketType, FleetType
<1>4. ASSUME NEW s \in Stage, NEW r \in Round, ArrayStops(s, r) PROVE TypeOK'
  BY <1>4 DEF ArrayStops, BucketType, FleetType
<1>5. ASSUME NEW s \in Stage, NEW r \in Round, NEW u \in Unit(s), Publish(s, r, u) PROVE TypeOK'
  <2>1. /\ u \in Nat /\ "export" \in Stage /\ {1} \subseteq Unit("export") /\ {1} \subseteq Nat
    BY UnitType DEF Stage, Unit
  <2>2. art' \in [Stage -> SUBSET Nat] /\ \A q \in Stage : art'[q] \subseteq Unit(q)
    <3>1. CASE UNCHANGED art
      BY <3>1 DEF BucketType
    <3>2. CASE art' = [art EXCEPT ![s] = @ \cup {u}]
      BY <2>1, <3>2 DEF BucketType
    <3>3. CASE art' = [art EXCEPT ![s] = @ \cup {u}, !["export"] = {1}]
      BY <2>1, <3>3 DEF BucketType
    <3> QED
      BY <1>5, <3>1, <3>2, <3>3 DEF Publish
  <2>3. plan' \in BOOLEAN
    BY <1>5 DEF Publish, BucketType
  <2> QED
    BY <1>5, <2>2, <2>3 DEF Publish, BucketType, FleetType
<1>6. CASE UNCHANGED vars
  BY <1>6 DEF vars, BucketType, FleetType
<1> QED
  BY <1>1, <1>2, <1>3, <1>4, <1>5, <1>6


-----------------------------------------------------------------------------
(* Rounds.  A submission is made only once the round before it is overdue, *)
(* so of a stage's records only the newest can be fresh, unless a driver   *)
(* missed it when it read them.  A driver that has waited out a round      *)
(* finds it overdue: what is left of its deadline never runs out before    *)
(* the record does.  Every pass of the loop that is not the last therefore *)
(* spends a round, and a round costs three steps, as long as the stage's   *)
(* records are kept.                                                       *)

Overdue(s) == Newest(rec[s]) = 0 \/ rec[s][Newest(rec[s])] = Deadline

OnlyNewestIsFresh ==
    \A s \in Stage \ unread : \A r \in Round :
        r < Newest(rec[s]) => rec[s][r] \in {Deadline, NoRecord}

Opening == {"first", "submit", "early"}

\* What a driver is about to submit is the round after the newest, which is
\* overdue, or the newest itself once it is on record.
Ready ==
    drv.at \in Opening \cup Submitting /\ StageOf \notin unread =>
        \/ drv.at \in Submitting /\ RoundOf = Newest(rec[StageOf])
        \/ RoundOf = Newest(rec[StageOf]) + 1 /\ Overdue(StageOf)

\* Where a driver is tells the stage it is at.
Order ==
    /\ drv.at \in {"begin", "first", "starting", "plan"} => drv.stage = "offsets" /\ drv.steps = 0
    /\ drv.at \in {"first", "starting"} => drv.round = 1
    /\ drv.at \in {"hook", "early", "overlapping"} => drv.stage = "offsets"

\* The newest round of the driver's stage, and its age.
Now == Newest(rec[drv.stage])
Age == rec[drv.stage][Now]

Kept == drv.stage \notin unread \cup unwritten
Waiting == {"submitting", "watch", "hook", "early", "overlapping", "probe"}

Pace ==
    /\ drv.at = "check" => drv.steps = 0 \/ (Overdue(drv.stage) /\ drv.steps <= 3 * Now + 3)
    /\ drv.at = "adopt" => drv.steps = 1 /\ Now # 0
    /\ drv.at = "submit" => drv.steps <= 3 * Now + 4
    /\ drv.at = "submitting" => drv.round = Now
    /\ drv.at \in Waiting => Now # 0 /\ drv.steps <= 3 * Now + 2
    /\ drv.at \in Waiting \ {"submitting"} => Age + drv.left >= Deadline

Driving == Order /\ Ready /\ (Kept => Pace)

DriveInv == TypeOK /\ OnlyNewestIsFresh /\ Driving

\* A driver that begins, that enters a barrier, or that is at no stage's loop
\* owes nothing to any pace.
LEMMA Elsewhere ==
    ASSUME drv'.at \in {"begin", "plan", "check", "merge", "claim"} \cup Over,
           drv'.at \in {"begin", "plan"} => drv'.stage = "offsets",
           drv'.at \in {"begin", "plan", "check"} => drv'.steps = 0
    PROVE  Driving'
BY DEF Driving, Order, Ready, Pace, Over, Opening, Submitting, Waiting

\* At the start nothing is on record.
LEMMA InitDrive == Init => DriveInv
<1> SUFFICES ASSUME Init PROVE DriveInv
  OBVIOUS
<1>1. TypeOK
  BY InitType
<1>2. OnlyNewestIsFresh
  BY DEF Init, OnlyNewestIsFresh
<1>3. Driving
  BY DEF Init, Off, Driving, Order, Ready, Pace, Opening, Submitting, Waiting
<1> QED
  BY <1>1, <1>2, <1>3 DEF DriveInv

\* The newest record of a stage, of which nothing is live once it is overdue.
LEMMA NewestType ==
    ASSUME TypeOK, NEW s \in Stage
    PROVE  /\ Newest(rec[s]) \in 0 .. Rounds /\ Latest(s) = Newest(rec[s])
           /\ Newest(rec[s]) # 0 =>
                Newest(rec[s]) \in Round /\ rec[s][Newest(rec[s])] \in 0 .. Deadline
           /\ Overdue(s) <=> ~IsLive(s, Newest(rec[s]))
<1>1. Newest(rec[s]) \in 0 .. Rounds /\ Latest(s) = Newest(rec[s])
  BY NewestOf, LatestIsNewest
<1>2. Newest(rec[s]) # 0 => Newest(rec[s]) \in Round /\ rec[s][Newest(rec[s])] \in 0 .. Deadline
  <2>1. rec[s] \in [Round -> 0 .. NoRecord]
    BY DEF TypeOK, BucketType
  <2>2. Newest(rec[s]) # 0 => Newest(rec[s]) \in Round /\ rec[s][Newest(rec[s])] # NoRecord
    BY NewestOf
  <2> QED
    BY <2>1, <2>2, Constants DEF NoRecord
<1> QED
  BY <1>1, <1>2, Constants DEF Overdue, IsLive

\* The newest record of the driver's own stage.
LEMMA NowType ==
    ASSUME TypeOK
    PROVE  /\ drv \in Driver /\ drv.stage \in Stage /\ drv.round \in Round
           /\ drv.left \in 0 .. Deadline /\ drv.steps \in Nat /\ drv.tries \in Nat
           /\ Now \in 0 .. Rounds
           /\ Now # 0 => Now \in Round /\ Age \in 0 .. Deadline
           /\ Overdue(drv.stage) <=> Now = 0 \/ Age = Deadline
<1>1. /\ drv \in Driver /\ drv.stage \in Stage /\ drv.round \in Round
      /\ drv.left \in 0 .. Deadline /\ drv.steps \in Nat /\ drv.tries \in Nat
  BY DEF TypeOK, DriverType, Driver
<1> QED
  BY <1>1, NewestType DEF Now, Age, Overdue

\* A round is put on record, or refreshed, once nothing of its stage is fresh.
LEMMA WriteKept ==
    ASSUME TypeOK, OnlyNewestIsFresh, NEW s \in Stage, NEW n \in Round, rec' = RecordedNow(s, n),
           unread' = unread,
           s \notin unread => \/ n = Newest(rec[s])
                              \/ n = Newest(rec[s]) + 1 /\ Overdue(s)
    PROVE  /\ OnlyNewestIsFresh'
           /\ s \notin unread => Newest(rec'[s]) = n /\ rec'[s][n] = 0
<1>1. /\ Newest(rec[s]) \in 0 .. Rounds /\ n \in Nat
      /\ \A r \in Round : rec[s][r] # NoRecord => r <= Newest(rec[s])
  BY NewestOf, Constants DEF Round
<1>2. \A q \in Stage \ {s} : rec'[q] = rec[q]
  BY DEF TypeOK, BucketType, RecordedNow
<1>3. ASSUME s \notin unread
      PROVE  /\ Newest(rec'[s]) = n /\ rec'[s][n] = 0
             /\ \A r \in Round : r < n => rec'[s][r] \in {Deadline, NoRecord}
  <2>1. n >= Newest(rec[s]) /\ BucketType
    BY <1>1, <1>3 DEF TypeOK
  <2>2. Newest(rec'[s]) = n /\ \A r \in Round : rec'[s][r] = IF r = n THEN 0 ELSE rec[s][r]
    BY <2>1, RecordNow
  <2>3. ASSUME NEW r \in Round, r < n PROVE rec'[s][r] \in {Deadline, NoRecord}
    <3>1. rec'[s][r] = rec[s][r] /\ r \in Nat /\ r # 0
      BY <1>1, <2>2, <2>3 DEF Round
    <3>2. r < Newest(rec[s]) \/ r = Newest(rec[s]) \/ rec[s][r] = NoRecord
      BY <1>1, <3>1
    <3> QED
      BY <1>1, <1>3, <2>3, <3>1, <3>2 DEF OnlyNewestIsFresh, Overdue
  <2> QED
    BY <2>2, <2>3
<1>4. ASSUME NEW q \in Stage \ unread', NEW r \in Round, r < Newest(rec'[q])
      PROVE  rec'[q][r] \in {Deadline, NoRecord}
  BY <1>2, <1>3, <1>4 DEF OnlyNewestIsFresh
<1> QED
  BY <1>3, <1>4 DEF OnlyNewestIsFresh

\* A step that leaves the records of the driver's stage alone.
LEMMA NowKept ==
    ASSUME drv'.stage = drv.stage, rec'[drv.stage] = rec[drv.stage]
    PROVE  /\ Now' = Now /\ Age' = Age /\ (Overdue(drv.stage)' <=> Overdue(drv.stage))
           /\ unread \subseteq unread' /\ unwritten \subseteq unwritten' /\ Kept' => Kept
BY DEF Now, Age, Overdue, Kept

\* What is read never makes a record fresh.
LEMMA ReadKept ==
    ASSUME OnlyNewestIsFresh, rec' = rec, unread \subseteq unread'
    PROVE  OnlyNewestIsFresh'
BY DEF OnlyNewestIsFresh

\* Leaving the loop of a stage owes nothing to its pace.
LEMMA Leaving ==
    /\ \A s \in Stage : Enters(s) => Driving'
    /\ \A why \in Why : Fails(why) => Driving'
    /\ drv' = [Off EXCEPT !.at = "done"] => Driving'
    /\ Settles => Driving'
<1> USE DEF Off, Over
<1>1. ASSUME NEW s \in Stage, Enters(s) PROVE Driving'
  BY <1>1, Elsewhere DEF Enters
<1>2. ASSUME NEW why \in Why, Fails(why) PROVE Driving'
  BY <1>2, Elsewhere DEF Fails
<1>3. ASSUME drv' = [Off EXCEPT !.at = "done"] PROVE Driving'
  BY <1>3, Elsewhere
<1>4. ASSUME Settles PROVE Driving'
  <2>1. drv'.at \in {"done", "merge", "claim"}
    BY <1>4 DEF Settles
  <2> QED
    BY <2>1, Elsewhere
<1> QED
  BY <1>1, <1>2, <1>3, <1>4

\* The bootstrap.
LEMMA BootstrapDrive ==
    ASSUME DriveInv, StartOffsets \/ SeePlan
    PROVE  OnlyNewestIsFresh' /\ Driving'
<1> USE DEF At
<1>1. /\ TypeOK /\ OnlyNewestIsFresh /\ Order /\ drv \in Driver /\ "offsets" \in Stage
  BY NowType DEF DriveInv, Driving, Stage
<1>2. CASE StartOffsets
  <2>1. drv.at = "begin" /\ drv.stage = "offsets" /\ drv.steps = 0 /\ rec' = rec
    BY <1>1, <1>2 DEF StartOffsets, Order, bucket
  <2>2. unread \subseteq unread'
    BY <1>1, <1>2, FindsOf DEF StartOffsets, lapses
  <2>3. OnlyNewestIsFresh'
    BY <1>1, <2>1, <2>2, ReadKept
  <2>4. CASE AfterStart
    <3>1. CASE Enters("offsets")
      BY <1>1, <2>3, <3>1, Leaving
    <3>2. CASE drv' = [drv EXCEPT !.at = "plan", !.left = Deadline]
      <4>1. drv'.at = "plan" /\ drv'.stage = "offsets" /\ drv'.steps = 0
        BY <1>1, <2>1, <3>2 DEF Driver
      <4> QED
        BY <2>3, <4>1, Elsewhere
    <3> QED
      BY <2>4, <3>1, <3>2 DEF AfterStart
  <2>5. CASE Finds("offsets", 0) /\ drv' = [drv EXCEPT !.at = "first", !.round = 1]
    <3>1. drv'.at = "first" /\ drv'.stage = "offsets" /\ drv'.steps = 0 /\ drv'.round = 1
      BY <1>1, <2>1, <2>5 DEF Driver
    <3>2. StageOf' = "offsets" /\ RoundOf' = 1
      BY <3>1 DEF StageOf, RoundOf, Overlapping
    <3>3. "offsets" \notin unread' => Newest(rec'["offsets"]) = 0
      BY <1>1, <2>1, <2>5, FindsOf, Constants
    <3>4. Driving'
      BY <3>1, <3>2, <3>3 DEF Driving, Order, Ready, Overdue, Pace, Waiting
    <3> QED
      BY <2>3, <3>4
  <2> QED
    BY <1>2, <2>3, <2>4, <2>5 DEF StartOffsets
<1>3. CASE SeePlan
  <2>1. OnlyNewestIsFresh'
    BY <1>1, <1>3, ReadKept DEF SeePlan, bucket, lapses
  <2>2. "no plan" \in Why
    BY DEF Why
  <2> QED
    BY <1>1, <1>3, <2>1, <2>2, Leaving DEF SeePlan
<1> QED
  BY <1>2, <1>3

\* A round goes on record before it is submitted.
LEMMA StartRoundDrive ==
    ASSUME DriveInv, StartRound, Looping \/ drv.at # "submit"
    PROVE  OnlyNewestIsFresh' /\ Driving'
<1> USE DEF At
<1>1. /\ TypeOK /\ BucketType /\ OnlyNewestIsFresh /\ Order /\ Ready /\ (Kept => Pace)
      /\ drv \in Driver /\ drv.stage \in Stage /\ drv.round \in Round /\ drv.steps \in Nat
      /\ Now \in 0 .. Rounds
  BY NowType DEF DriveInv, Driving, TypeOK
<1>2. /\ StageOf \in Stage /\ RoundOf \in Round /\ (known[StageOf] \ {RoundOf}) \in SUBSET Round
      /\ Newest(rec[StageOf]) \in 0 .. Rounds /\ Rounds \in Nat
  BY <1>1, SubmissionType, NewestOf, Constants
<1>3. drv.at \in Opening /\ Records(StageOf, RoundOf, known[StageOf] \ {RoundOf})
  BY DEF StartRound, Opening
<1>4. /\ unread' = unread /\ unwritten \subseteq unwritten'
      /\ \A q \in Stage \ {StageOf} : rec'[q] = rec[q]
      /\ \/ rec' = rec /\ StageOf \in unwritten'
         \/ rec' = RecordedNow(StageOf, RoundOf) /\ unwritten' = unwritten
  <2> HIDE DEF StageOf, RoundOf
  <2> QED
    BY <1>1, <1>2, <1>3, RecordsOf
<1>5. StageOf \notin unread => RoundOf = Newest(rec[StageOf]) + 1 /\ Overdue(StageOf)
  <2>1. drv.at \notin Submitting
    BY <1>3 DEF Opening, Submitting
  <2> QED
    BY <1>1, <1>3, <2>1 DEF Ready
<1>6. /\ OnlyNewestIsFresh'
      /\ \/ rec' = rec /\ StageOf \in unwritten'
         \/ StageOf \in unread
         \/ Newest(rec'[StageOf]) = RoundOf
  <2> HIDE DEF StageOf, RoundOf
  <2>1. CASE rec' = rec /\ StageOf \in unwritten'
    BY <1>1, <1>4, <2>1, ReadKept
  <2>2. CASE rec' = RecordedNow(StageOf, RoundOf)
    BY <1>1, <1>2, <1>4, <1>5, <2>2, WriteKept
  <2> QED
    BY <1>4, <2>1, <2>2
<1>7. /\ drv'.stage = drv.stage /\ drv'.round = drv.round /\ drv'.left = drv.left
      /\ drv'.at = CASE drv.at = "first" -> "starting"
                     [] drv.at = "submit" -> "submitting"
                     [] drv.at = "early" -> "overlapping"
      /\ drv'.steps = IF drv.at = "submit" THEN drv.steps + 1 ELSE drv.steps
  BY <1>1, <1>3 DEF StartRound, Driver, Stepped, Opening
<1>8. StageOf' = StageOf /\ RoundOf' = RoundOf /\ drv'.at \in Submitting
  BY <1>3, <1>7 DEF StageOf, RoundOf, Overlapping, Opening, Submitting
<1>9. Order'
  BY <1>1, <1>3, <1>7 DEF Order, Opening
<1>10. Ready'
  <2>1. ASSUME StageOf' \notin unread'
        PROVE  \/ RoundOf' = Newest(rec'[StageOf'])
               \/ RoundOf' = Newest(rec'[StageOf']) + 1 /\ Overdue(StageOf)'
    <3> HIDE DEF StageOf, RoundOf
    <3> QED
      BY <1>4, <1>5, <1>6, <1>8, <2>1 DEF Overdue
  <2> QED
    BY <1>8, <2>1 DEF Ready
<1>11. ASSUME Kept' PROVE Pace'
  <2>1. Kept /\ Pace
    BY <1>1, <1>4, <1>7, <1>11 DEF Kept
  <2>2. CASE drv.at = "first"
    BY <1>7, <2>2 DEF Pace, Waiting
  <2>3. CASE drv.at = "submit"
    <3>1. StageOf = drv.stage /\ RoundOf = drv.round
      BY <2>3 DEF StageOf, RoundOf, Overlapping
    <3>2. drv.stage \notin unread /\ drv.stage \notin unwritten'
      BY <1>4, <1>7, <1>11 DEF Kept
    <3>3. Now' = drv.round /\ drv.round = Now + 1
      BY <1>5, <1>6, <1>7, <3>1, <3>2 DEF Now
    <3>4. drv.steps <= 3 * Now + 4
      BY <2>1, <2>3 DEF Pace
    <3>5. drv'.at = "submitting" /\ drv'.steps = drv.steps + 1
      BY <1>7, <2>3
    <3>6. Now' # 0 /\ drv'.steps <= 3 * Now' + 2 /\ drv'.round = Now'
      <4> HIDE DEF Now
      <4> QED
        BY <1>1, <1>2, <1>7, <3>3, <3>4, <3>5
    <3> QED
      BY <3>5, <3>6 DEF Pace, Waiting
  <2>4. CASE drv.at = "early"
    <3>1. drv.stage = "offsets" /\ StageOf = "composite" /\ rec'[drv.stage] = rec[drv.stage]
      BY <1>1, <1>4, <2>4 DEF Order, StageOf, Overlapping
    <3>2. Now' = Now /\ Age' = Age
      BY <1>7, <3>1, NowKept
    <3> QED
      BY <1>7, <2>1, <2>4, <3>2 DEF Pace, Waiting
  <2> QED
    BY <1>3, <2>2, <2>3, <2>4 DEF Opening
<1> QED
  BY <1>6, <1>9, <1>10, <1>11 DEF Driving

\* An answer opens the round with a deadline of its own.
LEMMA AnswerDrive ==
    ASSUME DriveInv, SubmitAnswers
    PROVE  OnlyNewestIsFresh' /\ Driving'
<1>1. /\ TypeOK /\ OnlyNewestIsFresh /\ Order /\ Ready /\ (Kept => Pace)
      /\ drv \in Driver /\ drv.stage \in Stage /\ drv.round \in Round /\ drv.steps \in Nat
      /\ drv.left \in 0 .. Deadline /\ Now \in 0 .. Rounds
  BY NowType DEF DriveInv, Driving
<1>2. /\ StageOf \in Stage /\ RoundOf \in Round /\ (known[StageOf] \cup {RoundOf}) \in SUBSET Round
  BY <1>1, SubmissionType
<1>3. /\ drv.at \in Submitting /\ AfterSubmission(RoundOf)
      /\ Records(StageOf, RoundOf, known[StageOf] \cup {RoundOf})
  BY DEF SubmitAnswers
<1>4. /\ unread' = unread /\ unwritten \subseteq unwritten'
      /\ \A q \in Stage \ {StageOf} : rec'[q] = rec[q]
      /\ \/ rec' = rec /\ StageOf \in unwritten'
         \/ rec' = RecordedNow(StageOf, RoundOf) /\ unwritten' = unwritten
  <2> HIDE DEF StageOf, RoundOf
  <2> QED
    BY <1>1, <1>2, <1>3, RecordsOf
<1>5. StageOf \notin unread => \/ RoundOf = Newest(rec[StageOf])
                               \/ RoundOf = Newest(rec[StageOf]) + 1 /\ Overdue(StageOf)
  BY <1>1, <1>3 DEF Ready
<1>6. /\ OnlyNewestIsFresh'
      /\ \/ StageOf \in unwritten'
         \/ StageOf \in unread
         \/ Newest(rec'[StageOf]) = RoundOf /\ rec'[StageOf][RoundOf] = 0
  <2> HIDE DEF StageOf, RoundOf
  <2>1. CASE rec' = rec /\ StageOf \in unwritten'
    BY <1>1, <1>4, <2>1, ReadKept
  <2>2. CASE rec' = RecordedNow(StageOf, RoundOf)
    BY <1>1, <1>2, <1>4, <1>5, <2>2, WriteKept
  <2> QED
    BY <1>4, <2>1, <2>2
<1>7. drv'.stage = drv.stage /\ drv'.steps = drv.steps /\ drv'.round = drv.round
  BY <1>1, <1>3 DEF AfterSubmission, Driver
<1>8. CASE drv.at = "starting"
  <2>1. drv'.at \in {"check", "plan"}
    BY <1>1, <1>3, <1>8 DEF AfterSubmission, Driver, At
  <2>2. drv'.stage = "offsets" /\ drv'.steps = 0
    BY <1>1, <1>7, <1>8 DEF Order
  <2> QED
    BY <1>6, <2>1, <2>2, Elsewhere
<1>9. CASE drv.at = "submitting"
  <2>1. drv'.at = "watch" /\ drv'.left = Deadline
    BY <1>1, <1>3, <1>9 DEF AfterSubmission, Driver, At
  <2>2. StageOf = drv.stage /\ RoundOf = drv.round
    BY <1>9 DEF StageOf, RoundOf, Overlapping
  <2>3. ASSUME Kept' PROVE Pace'
    <3>1. Kept /\ Pace /\ drv.stage \notin unread /\ drv.stage \notin unwritten'
      BY <1>1, <1>4, <1>7, <2>3 DEF Kept
    <3>2. Now' = drv.round /\ Age' = 0 /\ drv.round = Now
      BY <1>6, <1>7, <1>9, <2>2, <3>1 DEF Now, Age, Pace
    <3>3. drv.steps <= 3 * Now + 2 /\ Now # 0
      BY <1>9, <3>1 DEF Pace, Waiting
    <3> QED
      BY <1>7, <2>1, <3>2, <3>3, Constants DEF Pace, Waiting
  <2>4. Order' /\ Ready'
    BY <2>1 DEF Order, Ready, Opening, Submitting
  <2> QED
    BY <1>6, <2>3, <2>4 DEF Driving
<1>10. CASE drv.at = "overlapping"
  <2>1. drv'.at = "probe" /\ drv'.left = drv.left
    BY <1>1, <1>3, <1>10 DEF AfterSubmission, Driver, At
  <2>2. drv.stage = "offsets" /\ StageOf = "composite"
    BY <1>1, <1>10 DEF Order, StageOf, Overlapping
  <2>3. Now' = Now /\ Age' = Age
    BY <1>1, <1>4, <1>7, <2>2, NowKept
  <2>4. ASSUME Kept' PROVE Pace'
    <3>1. Pace
      BY <1>1, <1>4, <1>7, <2>4 DEF Kept
    <3> QED
      BY <1>7, <1>10, <2>1, <2>3, <3>1 DEF Pace, Waiting
  <2>5. Order' /\ Ready'
    BY <2>1 DEF Order, Ready, Opening, Submitting
  <2> QED
    BY <1>6, <2>4, <2>5 DEF Driving
<1> QED
  BY <1>3, <1>8, <1>9, <1>10 DEF Submitting

\* An attempt that raises.
LEMMA RaiseDrive ==
    ASSUME DriveInv, SubmitRaises
    PROVE  OnlyNewestIsFresh' /\ Driving'
<1>1. /\ TypeOK /\ OnlyNewestIsFresh /\ Order /\ Ready /\ (Kept => Pace) /\ drv \in Driver
  BY NowType DEF DriveInv, Driving
<1>2. rec' = rec /\ drv.at \in Submitting /\ unread' = unread /\ unwritten' = unwritten
  BY DEF SubmitRaises, bucket, lapses
<1>3. OnlyNewestIsFresh'
  BY <1>1, <1>2, ReadKept
<1>4. CASE Fails("not submitted")
  BY <1>3, <1>4, Leaving DEF Why
<1>5. CASE drv.at = "overlapping" /\ GivesUp
  <2>1. /\ drv'.at = "probe" /\ drv'.left = drv.left /\ drv'.stage = drv.stage
        /\ drv'.steps = drv.steps
    BY <1>1, <1>5 DEF GivesUp, Driver, At
  <2>2. Now' = Now /\ Age' = Age /\ (Kept' => Kept)
    BY <1>2, <2>1, NowKept DEF Kept
  <2>3. Order' /\ Ready' /\ (Kept => Pace')
    BY <1>1, <1>5, <2>1, <2>2 DEF Order, Ready, Pace, Opening, Submitting, Waiting
  <2> QED
    BY <1>3, <2>2, <2>3 DEF Driving
<1>6. CASE drv' = [drv EXCEPT !.tries = @ + 1]
  <2>1. /\ drv'.at = drv.at /\ drv'.left = drv.left /\ drv'.stage = drv.stage
        /\ drv'.steps = drv.steps /\ drv'.round = drv.round
    BY <1>1, <1>6 DEF Driver
  <2>2. Now' = Now /\ Age' = Age /\ (Kept' => Kept) /\ (Overdue(drv.stage)' <=> Overdue(drv.stage))
    BY <1>2, <2>1, NowKept DEF Kept
  <2>3. Order'
    BY <1>1, <2>1 DEF Order
  <2>4. Ready'
    <3>1. StageOf' = StageOf /\ RoundOf' = RoundOf
      BY <2>1 DEF StageOf, RoundOf
    <3> QED
      BY <1>1, <1>2, <2>1, <3>1 DEF Ready, Overdue
  <2>5. Pace => Pace'
    BY <1>2, <2>1, <2>2 DEF Pace, Submitting
  <2> QED
    BY <1>1, <1>3, <2>2, <2>3, <2>4, <2>5 DEF Driving
<1> QED
  BY <1>4, <1>5, <1>6 DEF SubmitRaises, GivesUp, At

\* The loop of a barrier never runs out of steps: it ends by its rounds, as long
\* as the records of the stage are kept.
LEMMA AlwaysLoops ==
    ASSUME DriveInv, Kept, drv.at \in {"check", "adopt", "submit"}
    PROVE  Looping
<1>1. /\ Pace /\ Ready /\ drv.stage \notin unread /\ drv.steps \in Nat /\ Now \in 0 .. Rounds
      /\ drv.round \in Round
  BY NowType DEF DriveInv, Driving, Kept
<1>2. CASE drv.at = "check"
  BY <1>1, <1>2, Constants DEF Pace, Looping, STEPS
<1>3. CASE drv.at = "adopt"
  BY <1>1, <1>3, Constants DEF Pace, Looping, STEPS
<1>4. CASE drv.at = "submit"
  <2>1. drv.round = Now + 1
    <3>1. StageOf = drv.stage /\ RoundOf = drv.round /\ drv.at \in Opening \ Submitting
      BY <1>4 DEF StageOf, RoundOf, Overlapping, Opening, Submitting
    <3> QED
      BY <1>1, <3>1 DEF Ready, Now
  <2>2. Now + 1 <= Rounds /\ drv.steps <= 3 * Now + 4
    BY <1>1, <1>4, <2>1, Constants DEF Pace, Round
  <2> QED
    BY <1>1, <2>2, Constants DEF Looping, STEPS
<1> QED
  BY <1>2, <1>3, <1>4

\* A round that is not on record is not submitted once the steps run out.
LEMMA SpentDrive ==
    ASSUME DriveInv, StartRound, drv.at = "submit", ~Looping
    PROVE  OnlyNewestIsFresh' /\ Driving'
<1>1. /\ TypeOK /\ OnlyNewestIsFresh /\ drv \in Driver
  BY NowType DEF DriveInv
<1>2. /\ drv' = [drv EXCEPT !.at = "check"] /\ rec' = rec /\ unread' = unread
      /\ unwritten' = unwritten
  BY DEF StartRound, At, Goes, records, lapses
<1>3. drv'.at = "check" /\ drv'.stage = drv.stage /\ drv'.steps = drv.steps
  BY <1>1, <1>2 DEF Driver
<1>4. ~Kept /\ ~Kept'
  BY <1>2, <1>3, AlwaysLoops DEF Kept
<1>5. Order' /\ Ready'
  BY <1>3 DEF Order, Ready, Opening, Submitting
<1> QED
  BY <1>1, <1>2, <1>4, <1>5, ReadKept DEF Driving

\* The first state of a pass.
LEMMA CheckDrive ==
    ASSUME DriveInv, Check
    PROVE  OnlyNewestIsFresh' /\ Driving'
<1>1. /\ TypeOK /\ OnlyNewestIsFresh /\ Order /\ (Kept => Pace) /\ drv \in Driver
      /\ drv.stage \in Stage /\ drv.round \in Round /\ drv.steps \in Nat /\ Now \in 0 .. Rounds
      /\ (Overdue(drv.stage) <=> ~IsLive(drv.stage, Now))
  BY NowType, NewestType DEF DriveInv, Driving, Now
<1>2. drv.at = "check" /\ rec' = rec
  BY DEF Check, At, bucket
<1>3. CASE (Settles \/ Fails("exhausted")) /\ UNCHANGED lapses
  <2>1. "exhausted" \in Why
    BY DEF Why
  <2> QED
    BY <1>1, <1>2, <1>3, <2>1, ReadKept, Leaving DEF lapses
<1>4. ASSUME NEW r \in 0 .. Rounds, Finds(drv.stage, r),
             \/ /\ IsLive(drv.stage, r)
                /\ drv' = [drv EXCEPT !.at = "adopt", !.steps = Stepped]
             \/ Fails("exhausted")
             \/ /\ ~IsLive(drv.stage, r)
                /\ drv' = [drv EXCEPT !.at = "submit", !.steps = Stepped, !.round = r + 1]
      PROVE  OnlyNewestIsFresh' /\ Driving'
  <2>1. /\ unwritten' = unwritten /\ unread \subseteq unread'
        /\ drv.stage \notin unread' => r = Newest(rec[drv.stage])
    BY <1>1, <1>4, FindsOf
  <2>2. OnlyNewestIsFresh'
    BY <1>1, <1>2, <2>1, ReadKept
  <2>3. ASSUME drv'.stage = drv.stage, Kept'
        PROVE  r = Now /\ Pace /\ Now' = Now
    BY <1>1, <1>2, <2>1, <2>3, NowKept DEF Kept, Now
  <2>4. CASE Fails("exhausted")
    BY <2>2, <2>4, Leaving DEF Why
  <2>5. CASE /\ IsLive(drv.stage, r)
             /\ drv' = [drv EXCEPT !.at = "adopt", !.steps = Stepped]
    <3>1. drv'.at = "adopt" /\ drv'.steps = drv.steps + 1 /\ drv'.stage = drv.stage
      BY <1>1, <2>5 DEF Driver, Stepped
    <3>2. Order' /\ Ready'
      BY <3>1 DEF Order, Ready, Opening, Submitting
    <3>3. ASSUME Kept' PROVE Pace'
      <4>1. r = Now /\ Pace /\ Now' = Now
        BY <2>3, <3>1, <3>3
      <4>2. drv.steps = 0 /\ Now # 0
        BY <1>1, <1>2, <2>5, <4>1 DEF Pace, IsLive
      <4> QED
        BY <3>1, <4>1, <4>2 DEF Pace, Waiting
    <3> QED
      BY <2>2, <3>2, <3>3 DEF Driving
  <2>6. CASE /\ ~IsLive(drv.stage, r)
             /\ drv' = [drv EXCEPT !.at = "submit", !.steps = Stepped, !.round = r + 1]
    <3>1. /\ drv'.at = "submit" /\ drv'.steps = drv.steps + 1 /\ drv'.stage = drv.stage
          /\ drv'.round = r + 1
      BY <1>1, <2>6 DEF Driver, Stepped
    <3>2. Order'
      BY <3>1 DEF Order
    <3>3. Ready'
      <4>1. StageOf' = drv.stage /\ RoundOf' = r + 1
        BY <3>1 DEF StageOf, RoundOf, Overlapping
      <4>2. ASSUME drv.stage \notin unread'
            PROVE  r + 1 = Newest(rec'[drv.stage]) + 1 /\ Overdue(drv.stage)'
        <5>1. r = Newest(rec[drv.stage]) /\ Overdue(drv.stage)
          BY <1>1, <2>1, <2>6, <4>2 DEF Now
        <5> QED
          BY <1>2, <3>1, <5>1 DEF Overdue
      <4>3. StageOf' \notin unread' => RoundOf' = Newest(rec'[StageOf']) + 1 /\ Overdue(StageOf)'
        <5>1. Overdue(drv.stage)' <=> Overdue(StageOf)'
          BY <4>1, <3>1 DEF Overdue
        <5> HIDE DEF StageOf, RoundOf, Overdue
        <5> QED
          BY <4>1, <4>2, <5>1
      <4> QED
        BY <4>3 DEF Ready
    <3>4. ASSUME Kept' PROVE Pace'
      <4>1. r = Now /\ Pace /\ Now' = Now
        BY <2>3, <3>1, <3>4
      <4>2. drv.steps <= 3 * Now + 3
        <5>1. drv.steps = 0 \/ drv.steps <= 3 * Now + 3
          BY <1>2, <4>1 DEF Pace
        <5> QED
          BY <1>1, <5>1, Constants
      <4>3. drv'.steps <= 3 * Now' + 4
        BY <1>1, <3>1, <4>1, <4>2, Constants
      <4> QED
        BY <3>1, <4>3 DEF Pace, Waiting
    <3> QED
      BY <2>2, <3>2, <3>3, <3>4 DEF Driving
  <2> QED
    BY <1>4, <2>4, <2>5, <2>6
<1> QED
  BY <1>3, <1>4 DEF Check

\* A round that is adopted keeps the deadline of its own record.
LEMMA AdoptDrive ==
    ASSUME DriveInv, Adopt
    PROVE  OnlyNewestIsFresh' /\ Driving'
<1>1. /\ TypeOK /\ OnlyNewestIsFresh /\ (Kept => Pace) /\ drv \in Driver
      /\ drv.stage \in Stage /\ drv.steps \in Nat /\ Now \in 0 .. Rounds
      /\ (Now # 0 => Now \in Round /\ Age \in 0 .. Deadline)
  BY NowType DEF DriveInv, Driving
<1>2. drv.at = "adopt" /\ rec' = rec
  BY DEF Adopt, At, bucket
<1>3. CASE ~Looping /\ Goes("check") /\ UNCHANGED lapses
  <2>1. drv'.at = "check" /\ drv'.stage = drv.stage
    BY <1>1, <1>3 DEF Driver, Goes
  <2>2. ~Kept'
    BY <1>2, <1>3, <2>1, AlwaysLoops DEF Kept, lapses
  <2>3. Order' /\ Ready'
    BY <2>1 DEF Order, Ready, Opening, Submitting
  <2> QED
    BY <1>1, <1>2, <1>3, <2>2, <2>3, ReadKept DEF Driving, lapses
<1>4. ASSUME NEW r \in 0 .. Rounds, Finds(drv.stage, r)
      PROVE  /\ OnlyNewestIsFresh'
             /\ drv'.stage = drv.stage /\ Kept' => r = Now /\ Pace /\ Now' = Now /\ Age' = Age
  <2>1. /\ unwritten' = unwritten /\ unread \subseteq unread'
        /\ drv.stage \notin unread' => r = Newest(rec[drv.stage])
    BY <1>1, <1>4, FindsOf
  <2>2. OnlyNewestIsFresh'
    BY <1>1, <1>2, <2>1, ReadKept
  <2> QED
    BY <1>1, <1>2, <2>1, <2>2, NowKept DEF Kept, Now
<1>5. ASSUME NEW r \in 0 .. Rounds, Finds(drv.stage, r), Fails("unread")
      PROVE  OnlyNewestIsFresh' /\ Driving'
  BY <1>4, <1>5, Leaving DEF Why
<1>6. ASSUME NEW r \in 0 .. Rounds, Finds(drv.stage, r),
             drv' = [drv EXCEPT !.at = "watch", !.steps = Stepped,
                        !.left = SinceItsRecord(drv.stage, r),
                        !.cluster = IF r \in known[drv.stage] THEN r ELSE 0]
      PROVE  OnlyNewestIsFresh' /\ Driving'
  <2>1. /\ drv'.at = "watch" /\ drv'.steps = drv.steps + 1 /\ drv'.stage = drv.stage
        /\ drv'.left = SinceItsRecord(drv.stage, r)
    BY <1>1, <1>6 DEF Driver, Stepped
  <2>2. Order' /\ Ready'
    BY <2>1 DEF Order, Ready, Opening, Submitting
  <2>3. ASSUME Kept' PROVE Pace'
    <3>1. r = Now /\ Pace /\ Now' = Now /\ Age' = Age
      BY <1>4, <1>6, <2>1, <2>3
    <3>2. drv.steps = 1 /\ Now # 0
      BY <1>2, <3>1 DEF Pace
    <3>3. drv'.left = Deadline - Age
      <4>1. drv'.left = Deadline - Min({Deadline, Age})
        BY <2>1, <3>1 DEF SinceItsRecord, Age
      <4> QED
        BY <1>1, <3>2, <4>1, LesserOf, Constants
    <3>4. Age' + drv'.left >= Deadline /\ Now' # 0 /\ drv'.steps <= 3 * Now' + 2
      BY <1>1, <2>1, <3>1, <3>2, <3>3, Constants
    <3> QED
      BY <2>1, <3>4 DEF Pace, Waiting
  <2> QED
    BY <1>4, <1>6, <2>2, <2>3 DEF Driving
<1> QED
  BY <1>3, <1>5, <1>6 DEF Adopt

\* The watch of a round, its hook and its probe, and what follows a stage.
LEMMA WatchDrive ==
    ASSUME DriveInv, Watch \/ Hook \/ Probe \/ Merge \/ AwaitExport
    PROVE  OnlyNewestIsFresh' /\ Driving'
<1> USE DEF At
<1>1. /\ TypeOK /\ OnlyNewestIsFresh /\ Order /\ (Kept => Pace) /\ drv \in Driver
      /\ drv.stage \in Stage /\ drv.left \in 0 .. Deadline /\ drv.steps \in Nat
      /\ Now \in 0 .. Rounds /\ (Now # 0 => Now \in Round /\ Age \in 0 .. Deadline)
      /\ (Overdue(drv.stage) <=> Now = 0 \/ Age = Deadline)
      /\ {"offsets", "composite", "export"} = Stage
  BY NowType DEF DriveInv, Driving, Stage
<1>2. rec' = rec /\ unread \subseteq unread' /\ unwritten' = unwritten
  <2>1. CASE Hook
    <3>1. \A r \in 0 .. Rounds : Finds("composite", r) =>
             unwritten' = unwritten /\ unread \subseteq unread'
      BY <1>1, FindsOf
    <3> QED
      BY <2>1, <3>1 DEF Hook, lapses, bucket
  <2>2. CASE Watch \/ Probe \/ Merge \/ AwaitExport
    BY <2>2 DEF Watch, Probe, Merge, AwaitExport, lapses, bucket
  <2> QED
    BY <2>1, <2>2
<1>3. OnlyNewestIsFresh'
  BY <1>1, <1>2, ReadKept
<1>4. ASSUME drv'.stage = drv.stage
      PROVE  /\ Now' = Now /\ Age' = Age /\ (Overdue(drv.stage)' <=> Overdue(drv.stage))
             /\ Kept' => Pace
  BY <1>1, <1>2, <1>4, NowKept DEF Kept
<1>5. ASSUME NEW p \in {"watch", "hook", "probe"}, Goes(p), drv.at \in {"watch", "hook", "probe"},
             p = "hook" => drv.stage = "offsets"
      PROVE  Driving'
  <2>1. drv'.at = p /\ drv'.steps = drv.steps /\ drv'.stage = drv.stage /\ drv'.left = drv.left
    BY <1>1, <1>5 DEF Goes, Driver
  <2>2. Order' /\ Ready'
    BY <1>5, <2>1 DEF Order, Ready, Opening, Submitting
  <2>3. ASSUME Kept' PROVE Pace'
    BY <1>4, <1>5, <2>1, <2>3 DEF Pace, Waiting
  <2> QED
    BY <2>2, <2>3 DEF Driving
<1>6. CASE Watch
  <2>1. Settles \/ (drv.stage = "offsets" /\ Goes("hook")) \/ Goes("probe")
    BY <1>6 DEF Watch
  <2> QED
    BY <1>3, <1>5, <1>6, <2>1, Leaving DEF Watch
<1>7. CASE Hook
  <2>1. CASE Goes("probe")
    BY <1>3, <1>5, <1>7, <2>1 DEF Hook
  <2>2. CASE Finds("composite", 0) /\ Goes("early")
    <3>1. /\ drv'.at = "early" /\ drv'.steps = drv.steps /\ drv'.stage = drv.stage
          /\ drv'.left = drv.left /\ drv.stage = "offsets" /\ drv.at = "hook"
      BY <1>1, <1>7, <2>2 DEF Goes, Driver, Hook, Order
    <3>2. Order'
      BY <3>1 DEF Order
    <3>3. Ready'
      <4>1. StageOf' = "composite" /\ RoundOf' = 1
        BY <3>1 DEF StageOf, RoundOf, Overlapping
      <4>2. "composite" \notin unread' => Newest(rec'["composite"]) = 0
        BY <1>1, <1>2, <2>2, FindsOf, Constants
      <4> QED
        BY <4>1, <4>2 DEF Ready, Overdue
    <3>4. ASSUME Kept' PROVE Pace'
      BY <1>4, <3>1, <3>4 DEF Pace, Waiting
    <3> QED
      BY <1>3, <3>2, <3>3, <3>4 DEF Driving
  <2> QED
    BY <1>7, <2>1, <2>2 DEF Hook
<1>8. CASE Probe
  <2>1. CASE Fails("killed")
    BY <1>3, <2>1, Leaving DEF Why
  <2>2. CASE Expired /\ drv' = [drv EXCEPT !.at = "check", !.steps = Stepped]
    <3>1. drv'.at = "check" /\ drv'.steps = drv.steps + 1 /\ drv'.stage = drv.stage
      BY <1>1, <2>2 DEF Driver, Stepped
    <3>2. Order' /\ Ready'
      BY <3>1 DEF Order, Ready, Opening, Submitting
    <3>3. ASSUME Kept' PROVE Pace'
      <4>1. Pace /\ Now' = Now /\ drv.at = "probe" /\ drv.left = 0
        BY <1>4, <1>8, <2>2, <3>1, <3>3 DEF Probe, Expired
      <4>2. Now # 0 /\ Age + drv.left >= Deadline /\ drv.steps <= 3 * Now + 2
        BY <4>1 DEF Pace, Waiting
      <4>3. Overdue(drv.stage) /\ drv'.steps <= 3 * Now' + 3
        BY <1>1, <3>1, <4>1, <4>2, Constants
      <4>4. Overdue(drv.stage)'
        BY <1>4, <3>1, <4>3
      <4> QED
        BY <3>1, <4>3, <4>4 DEF Pace, Waiting
    <3> QED
      BY <1>3, <3>2, <3>3 DEF Driving
  <2>3. CASE Goes("watch")
    BY <1>3, <1>5, <1>8, <2>3 DEF Probe
  <2> QED
    BY <1>8, <2>1, <2>2, <2>3 DEF Probe
<1>9. CASE Merge
  BY <1>1, <1>3, <1>9, Leaving DEF Merge
<1>10. CASE AwaitExport
  BY <1>1, <1>3, <1>10, Leaving DEF AwaitExport
<1> QED
  BY <1>6, <1>7, <1>8, <1>9, <1>10

\* The clock: a record and what is left of the driver's deadline move together.
LEMMA TickDrive == ASSUME DriveInv, Tick PROVE OnlyNewestIsFresh' /\ Driving'
<1>1. /\ TypeOK /\ OnlyNewestIsFresh /\ Order /\ Ready /\ (Kept => Pace) /\ drv \in Driver
      /\ drv.stage \in Stage /\ drv.left \in 0 .. Deadline /\ StageOf \in Stage
      /\ Now \in 0 .. Rounds /\ (Now # 0 => Now \in Round /\ Age \in 0 .. Deadline)
  BY NowType, SubmissionType DEF DriveInv, Driving
<1>2. unread' = unread /\ unwritten' = unwritten
  BY DEF Tick, lapses
<1>3. \A s \in Stage : \A r \in Round :
        /\ rec[s][r] \in 0 .. NoRecord
        /\ rec'[s][r] = IF rec[s][r] < Deadline THEN rec[s][r] + 1 ELSE rec[s][r]
  BY <1>1 DEF Tick, TypeOK, BucketType
<1>4. \A s \in Stage : \A r \in Round : rec'[s][r] # NoRecord <=> rec[s][r] # NoRecord
  BY <1>3, Constants DEF NoRecord
<1>5. ASSUME NEW s \in Stage
      PROVE  /\ Newest(rec'[s]) = Newest(rec[s])
             /\ Overdue(s) => Newest(rec'[s]) = 0 \/ rec'[s][Newest(rec'[s])] = Deadline
  <2>1. /\ Newest(rec[s]) \in 0 .. Rounds
        /\ Newest(rec[s]) # 0 => Newest(rec[s]) \in Round /\ rec'[s][Newest(rec[s])] # NoRecord
        /\ \A r \in Round : rec'[s][r] # NoRecord => r <= Newest(rec[s])
    BY <1>4, NewestOf
  <2>2. Newest(rec'[s]) = Newest(rec[s])
    BY <2>1, NewestIs
  <2> QED
    BY <1>3, <2>1, <2>2, Constants DEF Overdue
<1>6. OnlyNewestIsFresh'
  <2> SUFFICES ASSUME NEW s \in Stage \ unread, NEW r \in Round, r < Newest(rec'[s])
               PROVE  rec'[s][r] \in {Deadline, NoRecord}
    BY <1>2 DEF OnlyNewestIsFresh
  <2>1. rec[s][r] \in {Deadline, NoRecord}
    BY <1>1, <1>5 DEF OnlyNewestIsFresh
  <2> QED
    BY <1>3, <2>1, Constants DEF NoRecord
<1>7. /\ drv'.at = drv.at /\ drv'.stage = drv.stage /\ drv'.steps = drv.steps
      /\ drv'.round = drv.round /\ drv'.left = IF drv.left > 0 THEN drv.left - 1 ELSE 0
  BY <1>1 DEF Tick, Driver
<1>8. Order'
  BY <1>1, <1>7 DEF Order
<1>9. Ready'
  <2>1. StageOf' = StageOf /\ RoundOf' = RoundOf
    BY <1>7 DEF StageOf, RoundOf
  <2>2. Newest(rec'[StageOf']) = Newest(rec[StageOf]) /\ (Overdue(StageOf) => Overdue(StageOf)')
    <3> HIDE DEF StageOf
    <3> QED
      BY <1>1, <1>5, <2>1 DEF Overdue
  <2> HIDE DEF StageOf, RoundOf, Overdue
  <2> QED
    BY <1>1, <1>2, <1>7, <2>1, <2>2 DEF Ready
<1>10. Now' = Now
  BY <1>1, <1>5, <1>7 DEF Now
<1>11. Now # 0 => Age' = IF Age < Deadline THEN Age + 1 ELSE Age
  BY <1>1, <1>3, <1>7, <1>10 DEF Age
<1>12. Overdue(drv.stage) => Overdue(drv.stage)'
  BY <1>1, <1>5, <1>7 DEF Overdue
<1>13. Now # 0 /\ Age + drv.left >= Deadline => Age' + drv'.left >= Deadline
  BY <1>1, <1>7, <1>11, Constants
<1>14. ASSUME Kept' PROVE Pace'
  <2>1. Pace
    BY <1>1, <1>2, <1>7, <1>14 DEF Kept
  <2> HIDE DEF Now, Age, Overdue
  <2> QED
    BY <1>7, <1>10, <1>12, <1>13, <2>1 DEF Pace, Waiting
<1> QED
  BY <1>6, <1>8, <1>9, <1>14 DEF Driving

\* Every step of every driver, and of the clock, keeps the invariant.
LEMMA NextDrive == DriveInv /\ [Next]_vars => DriveInv'
<1> SUFFICES ASSUME DriveInv, [Next]_vars PROVE DriveInv'
  OBVIOUS
<1>1. TypeOK /\ OnlyNewestIsFresh /\ Driving /\ drv \in Driver
  BY NowType DEF DriveInv
<1>2. CASE DriverStep
  <2>1. TypeOK'
    BY <1>1, <1>2, StepType
  <2>2. OnlyNewestIsFresh' /\ Driving'
    BY <1>2, BootstrapDrive, StartRoundDrive, SpentDrive, AnswerDrive, RaiseDrive, CheckDrive,
       AdoptDrive, WatchDrive DEF DriverStep
  <2> QED
    BY <2>1, <2>2 DEF DriveInv
<1>3. CASE Tick
  BY <1>1, <1>3, WorldType, TickDrive DEF DriveInv
<1>4. CASE DriverBegins
  <2>1. drv'.at = "begin" /\ drv'.stage = "offsets" /\ drv'.steps = 0 /\ rec' = rec /\ unread' = unread
    BY <1>4 DEF DriverBegins, bucket, lapses, Off
  <2> QED
    BY <1>1, <1>4, <2>1, WorldType, ReadKept, Elsewhere DEF DriveInv
<1>5. CASE Killed
  <2>1. drv'.at = "off" /\ rec' = rec /\ unread' = unread
    BY <1>5 DEF Killed, bucket, lapses, Off
  <2> QED
    BY <1>1, <1>5, <2>1, WorldType, ReadKept, Elsewhere DEF DriveInv, Over
<1>6. ASSUME drv' = drv, rec' = rec, lapses' = lapses PROVE OnlyNewestIsFresh' /\ Driving'
  <2>1. unread' = unread /\ unwritten' = unwritten
    BY <1>6 DEF lapses
  <2> QED
    BY <1>1, <1>6, <2>1
       DEF OnlyNewestIsFresh, Driving, Order, Ready, Kept, Pace, Overdue, StageOf, RoundOf, Now, Age
<1>7. CASE \E s \in Stage, r \in Round : ArrayStops(s, r) \/ \E u \in Unit(s) : Publish(s, r, u)
  <2>1. drv' = drv /\ rec' = rec /\ lapses' = lapses
    BY <1>7 DEF ArrayStops, Publish, bucket
  <2> QED
    BY <1>1, <1>6, <1>7, <2>1, WorldType DEF DriveInv
<1>8. CASE UNCHANGED vars
  <2>1. drv' = drv /\ rec' = rec /\ lapses' = lapses
    BY <1>8 DEF vars, bucket
  <2> QED
    BY <1>1, <1>6, <1>8, <2>1, WorldType DEF DriveInv
<1> QED
  BY <1>2, <1>3, <1>4, <1>5, <1>7, <1>8 DEF Next

\* The invariant of the driver holds throughout.
LEMMA AlwaysDrive == Spec => []DriveInv
<1> QED
  BY InitDrive, NextDrive, PTL DEF Spec

\* Drivers that follow one another never have two arrays of a stage running
\* whose records are both fresh, for any number of drivers, rounds, retries and
\* ticks, and of writes of records that are dropped, unless a driver missed the
\* newest record of the stage when it read them (_submission_records).
THEOREM OneArrayIsFresh == Spec => []OneFreshArray
<1>1. ASSUME DriveInv PROVE OneFreshArray
  <2> SUFFICES ASSUME NEW s \in Stage \ unread
               PROVE  Cardinality({r \in Round : array[s][r] = "running" /\ rec[s][r] < Deadline}) <= 1
    BY DEF OneFreshArray
  <2> DEFINE fresh == {r \in Round : array[s][r] = "running" /\ rec[s][r] < Deadline}
             newest == {Newest(rec[s])}
  <2>1. fresh \subseteq newest
    <3>1. ASSUME NEW r \in Round, rec[s][r] < Deadline PROVE r = Newest(rec[s])
      <4>1. rec[s][r] \in 0 .. NoRecord
        BY <1>1 DEF DriveInv, TypeOK, BucketType
      <4>2. rec[s][r] # NoRecord /\ rec[s][r] # Deadline
        BY <3>1, <4>1, Constants DEF NoRecord
      <4>3. r <= Newest(rec[s]) /\ ~(r < Newest(rec[s])) /\ r \in Nat /\ Newest(rec[s]) \in Nat
        BY <1>1, <4>2, NewestOf, Constants DEF DriveInv, OnlyNewestIsFresh, Round
      <4> QED
        BY <4>3
    <3> QED
      BY <3>1
  <2>2. IsFiniteSet(newest) /\ Cardinality(newest) = 1
    BY FS_Singleton
  <2> HIDE DEF fresh, newest
  <2>3. IsFiniteSet(fresh) /\ Cardinality(fresh) <= Cardinality(newest)
    BY <2>1, <2>2, FS_Subset
  <2> QED
    BY <2>2, <2>3 DEF fresh
<1> QED
  BY <1>1, AlwaysDrive, PTL

\* A stage whose bookkeeping was kept is given up only when its rounds are spent,
\* counted over all drivers, and the last of them has had the whole of its
\* deadline, whatever the budgets: the bound on the loop's steps never ends it
\* first (StageMachine.run).
THEOREM GivenUpWhenOverdue == Spec => GivenUpIsOverdue
<1>1. ASSUME DriveInv, [Next]_vars
      PROVE  [drv.why # "exhausted" /\ drv'.why = "exhausted"
                /\ drv.stage \notin unread' \cup unwritten =>
                LET s == drv.stage IN Latest(s) = Rounds /\ rec[s][Rounds] = Deadline]_vars
  <2> SUFFICES ASSUME drv.why # "exhausted", drv'.why = "exhausted",
                      drv.stage \notin unread' \cup unwritten
               PROVE  Latest(drv.stage) = Rounds /\ rec[drv.stage][Rounds] = Deadline
    OBVIOUS
  <2>1. /\ drv \in Driver /\ drv.stage \in Stage /\ Now \in 0 .. Rounds /\ TypeOK
        /\ (Overdue(drv.stage) <=> ~IsLive(drv.stage, Now)) /\ Latest(drv.stage) = Now
    BY <1>1, NowType, NewestType DEF DriveInv, Now
  <2>2. Check
    <3> USE DEF Enters, Fails, Goes, Settles, Off, Driver
    <3>1. ASSUME DriverBegins \/ Killed PROVE FALSE
      <4>1. drv'.why = ""
        BY <3>1, OffFields, Places DEF DriverBegins, Killed
      <4> QED
        BY <4>1
    <3>2. ASSUME Tick \/ UNCHANGED vars PROVE FALSE
      <4>1. drv'.why = drv.why
        BY <2>1, <3>2 DEF Tick, vars
      <4> QED
        BY <4>1
    <3>3. ASSUME NEW s \in Stage, NEW r \in Round, NEW u \in Unit(s),
                 ArrayStops(s, r) \/ Publish(s, r, u)
          PROVE  FALSE
      BY <3>3 DEF ArrayStops, Publish
    <3>4. ASSUME StartOffsets \/ SeePlan PROVE FALSE
      BY <2>1, <3>4 DEF StartOffsets, SeePlan, AfterStart
    <3>5. ASSUME StartRound PROVE FALSE
      BY <2>1, <3>5 DEF StartRound
    <3>6. ASSUME SubmitAnswers PROVE FALSE
      BY <2>1, <3>6 DEF SubmitAnswers, AfterSubmission
    <3>7. ASSUME SubmitRaises PROVE FALSE
      BY <2>1, <3>7 DEF SubmitRaises, GivesUp
    <3>8. ASSUME Adopt PROVE FALSE
      BY <2>1, <3>8 DEF Adopt
    <3>9. ASSUME Watch \/ Hook PROVE FALSE
      BY <2>1, <3>9 DEF Watch, Hook
    <3>10. ASSUME Probe PROVE FALSE
      BY <2>1, <3>10 DEF Probe
    <3>11. ASSUME Merge \/ AwaitExport PROVE FALSE
      BY <2>1, <3>11 DEF Merge, AwaitExport
    <3>12. \A s \in Stage, r \in Round : ~ArrayStops(s, r)
      BY <3>3, UnitType
    <3> QED
      BY <1>1, <3>1, <3>2, <3>3, <3>4, <3>5, <3>6, <3>7, <3>8, <3>9, <3>10, <3>11, <3>12
         DEF Next, DriverStep
  <2>3. PICK r \in 0 .. Rounds : \/ ~Looping
                                 \/ Finds(drv.stage, r) /\ ~IsLive(drv.stage, r) /\ r + 1 \notin Round
    BY <2>1, <2>2, Constants DEF Check, Settles, Off, Driver
  <2>4. Looping
    <3>1. Kept \/ drv.stage \in unread
      BY DEF Kept
    <3>2. unread \subseteq unread'
      BY <2>1, <2>2, FindsOf DEF Check, lapses
    <3> QED
      BY <1>1, <2>2, <3>1, <3>2, AlwaysLoops DEF Check, At
  <2>5. r = Now
    BY <2>1, <2>3, <2>4, FindsOf DEF Now
  <2>6. Now = Rounds /\ Overdue(drv.stage)
    BY <2>1, <2>3, <2>4, <2>5, Constants DEF Round
  <2> QED
    BY <2>1, <2>6, Constants DEF Overdue, Now
<1> QED
  BY <1>1, AlwaysDrive, PTL DEF Spec, GivenUpIsOverdue

-----------------------------------------------------------------------------
(* The early composite.                                                    *)

Enough == Cardinality(art["offsets"]) >= Needed

\* Past the offsets, or about to start the composite, a driver has seen enough
\* partials.
Earned ==
    /\ OverlapIsEarned
    /\ drv.stage # "offsets" \/ drv.at \in {"merge", "early", "overlapping", "claim"} => Enough

\* What is asked for is never more than there is.
LEMMA NeededOf == Needed \in Nat /\ Needed <= Units
<1>1. Overlap \in Nat /\ Units \in Nat /\ Overlap <= 100 /\ Units >= 1
  BY Constants
<1> DEFINE p == Overlap * Units
<1>2. p \in Nat /\ p <= 100 * Units
  BY <1>1, TimesMonotone
<1> DEFINE n == (p + 99) \div 100
<1>3. n \in Nat /\ n <= Units
  <2> HIDE DEF p
  <2> QED
    BY <1>1, <1>2
<1>4. Needed = Max({1, n})
  BY DEF Needed
<1> HIDE DEF n
<1>5. {1, n} \in SUBSET (0 .. Units) /\ {1, n} # {}
  BY <1>1, <1>3
<1>6. Max({1, n}) \in {1, n}
  BY <1>1, <1>5, MaxOf
<1> QED
  BY <1>1, <1>3, <1>4, <1>6

\* All partials are enough, and artifacts are never taken away.
LEMMA EnoughOf ==
    ASSUME TypeOK
    PROVE  /\ Missing("offsets") = {} => Enough
           /\ Enough /\ [Next]_vars => Enough'
<1>1. IsFiniteSet(1 .. Units) /\ Cardinality(1 .. Units) = Units /\ Unit("offsets") = 1 .. Units
  BY FS_Interval, Constants DEF Unit
<1>2. ASSUME Missing("offsets") = {} PROVE Enough
  <2>1. art["offsets"] = 1 .. Units
    BY <1>1, <1>2 DEF Missing, TypeOK, BucketType, Stage
  <2> QED
    BY <1>1, <2>1, NeededOf DEF Enough
<1>3. ASSUME Enough, [Next]_vars PROVE Enough'
  <2>1. art["offsets"] \subseteq art'["offsets"]
    <3> USE DEF bucket
    <3>1. ASSUME NEW s \in Stage, NEW r \in Round, NEW u \in Unit(s), Publish(s, r, u)
          PROVE  art["offsets"] \subseteq art'["offsets"]
      BY <3>1 DEF Publish, TypeOK, BucketType, Stage
    <3>2. ASSUME NEW s \in Stage, NEW r \in Round, ArrayStops(s, r) PROVE art' = art
      BY <3>2 DEF ArrayStops
    <3>3. ASSUME DriverStep PROVE art' = art
      BY <3>3 DEF DriverStep, StartOffsets, SeePlan, StartRound, SubmitAnswers, SubmitRaises,
                  Check, Adopt, Watch, Hook, Probe, Merge, AwaitExport
    <3>4. ASSUME DriverBegins \/ Killed \/ Tick \/ UNCHANGED vars PROVE art' = art
      BY <3>4 DEF DriverBegins, Killed, Tick, vars
    <3> QED
      BY <1>3, <3>1, <3>2, <3>3, <3>4 DEF Next
  <2>2. TypeOK'
    BY <1>3, StepType, WorldType DEF Next
  <2>3. art'["offsets"] \subseteq 1 .. Units
    BY <1>1, <2>2 DEF TypeOK, BucketType, Stage
  <2>4. IsFiniteSet(art'["offsets"]) /\ Cardinality(art'["offsets"]) \in Nat
    BY <1>1, <2>3, FS_Subset, FS_CardinalityType
  <2>5. Cardinality(art["offsets"]) <= Cardinality(art'["offsets"]) /\ Cardinality(art["offsets"]) \in Nat
    BY <2>1, <2>4, FS_Subset, FS_CardinalityType
  <2>6. Needed' = Needed
    BY DEF Needed
  <2>7. Cardinality(art["offsets"]) >= Needed
    BY <1>3 DEF Enough
  <2>8. Cardinality(art'["offsets"]) >= Needed
    BY <2>4, <2>5, <2>7, NeededOf
  <2> QED
    BY <2>6, <2>8 DEF Enough
<1> QED
  BY <1>2, <1>3

\* Once there are enough partials, there is nothing left to lose.
LEMMA EarnedForGood ==
    ASSUME TypeOK, [Next]_vars, Enough
    PROVE  Earned'
<1>1. Enough'
  BY EnoughOf
<1> QED
  BY <1>1 DEF Earned, OverlapIsEarned, Enough

\* No step records a composite, or starts its array, before enough partials of
\* the offsets are there.
LEMMA NextEarned == DriveInv /\ Earned /\ [Next]_vars => Earned'
<1> SUFFICES ASSUME DriveInv, Earned, [Next]_vars, ~Enough PROVE Earned'
  BY EarnedForGood DEF DriveInv
<1> USE DEF At
<1>1. /\ TypeOK /\ BucketType /\ drv \in Driver /\ drv.stage = "offsets"
      /\ drv.at \notin {"merge", "early", "overlapping", "claim"}
      /\ {"offsets", "composite"} \subseteq Stage
      /\ \A r \in Round : rec["composite"][r] = NoRecord /\ array["composite"][r] = "none"
  BY NowType DEF DriveInv, Earned, OverlapIsEarned, Enough, TypeOK, Stage
<1>2. Missing("offsets") # {} /\ ~OverlapReady
  BY <1>1, EnoughOf DEF OverlapReady, Enough
<1>3. StageOf = "offsets" /\ RoundOf \in Round
  BY <1>1, SubmissionType DEF StageOf, Overlapping
<1>4. ASSUME \A r \in Round : rec'["composite"][r] = NoRecord /\ array'["composite"][r] = "none",
             drv'.stage = "offsets", drv'.at \notin {"merge", "early", "overlapping", "claim"}
      PROVE  Earned'
  BY <1>1, <1>4 DEF Earned, OverlapIsEarned, NoRecord
<1>5. ASSUME NEW c \in SUBSET Round, Records(StageOf, RoundOf, c)
      PROVE  rec'["composite"] = rec["composite"]
  <2>1. \A q \in Stage \ {StageOf} : rec'[q] = rec[q]
    <3> HIDE DEF StageOf, RoundOf
    <3> QED
      BY <1>1, <1>3, <1>5, RecordsOf
  <2> QED
    BY <1>1, <1>3, <2>1
<1>6. Starts => array'["composite"] = array["composite"]
  BY <1>1, <1>3 DEF Starts, TypeOK, FleetType
<1>7. ASSUME rec' = rec, array' = array, drv'.stage = "offsets",
             drv'.at \notin {"merge", "early", "overlapping", "claim"}
      PROVE  Earned'
  BY <1>1, <1>4, <1>7
<1>8. CASE StartOffsets
  <2>1. drv'.stage = "offsets" /\ drv'.at \in {"check", "plan", "first"}
    BY <1>1, <1>8 DEF StartOffsets, AfterStart, Enters, Off, Driver
  <2> QED
    BY <1>7, <1>8, <2>1 DEF StartOffsets, bucket, fleet
<1>9. CASE SeePlan
  <2>1. drv'.stage = "offsets" /\ drv'.at \in {"check", "failed"}
    BY <1>1, <1>9 DEF SeePlan, Enters, Fails, Off
  <2> QED
    BY <1>7, <1>9, <2>1 DEF SeePlan, bucket, fleet
<1>10. CASE StartRound
  <2>1. drv'.stage = "offsets" /\ drv'.at \in {"check", "starting", "submitting"}
    <3>1. drv.at \in {"first", "submit"}
      BY <1>1, <1>10 DEF StartRound
    <3>2. CASE Goes("check")
      BY <1>1, <3>2 DEF Goes, Driver
    <3>3. CASE \E n \in Nat, p \in {"starting", "submitting"} :
                  drv' = [drv EXCEPT !.at = p, !.steps = n]
      BY <1>1, <3>3 DEF Driver
    <3>4. drv.steps \in Nat /\ Stepped \in Nat
      BY <1>1 DEF Driver, Stepped
    <3> QED
      BY <1>10, <3>1, <3>2, <3>3, <3>4 DEF StartRound
  <2>2. rec'["composite"] = rec["composite"] /\ array' = array
    <3>1. known[StageOf] \ {RoundOf} \in SUBSET Round
      BY <1>1, SubmissionType
    <3>2. rec' = rec \/ Records(StageOf, RoundOf, known[StageOf] \ {RoundOf})
      BY <1>10 DEF StartRound, records
    <3> QED
      BY <1>5, <1>10, <3>1, <3>2 DEF StartRound, fleet
  <2> QED
    BY <1>1, <1>4, <2>1, <2>2
<1>11. CASE SubmitAnswers
  <2>1. drv'.stage = "offsets" /\ drv'.at \in {"check", "plan", "watch"}
    BY <1>1, <1>11 DEF SubmitAnswers, AfterSubmission, Submitting, Driver
  <2>2. rec'["composite"] = rec["composite"] /\ array'["composite"] = array["composite"]
    <3>1. known[StageOf] \cup {RoundOf} \in SUBSET Round
      BY <1>1, SubmissionType
    <3> QED
      BY <1>5, <1>6, <1>11, <3>1 DEF SubmitAnswers
  <2> QED
    BY <1>1, <1>4, <2>1, <2>2
<1>12. CASE SubmitRaises
  <2>1. drv'.stage = "offsets" /\ drv'.at \notin {"merge", "early", "overlapping", "claim"}
    <3>1. drv.at \in {"starting", "submitting"}
      BY <1>1, <1>12 DEF SubmitRaises, Submitting
    <3>2. CASE Fails("not submitted")
      BY <1>1, <3>2 DEF Fails, Off
    <3>3. CASE drv' = [drv EXCEPT !.tries = @ + 1]
      BY <1>1, <3>3 DEF Driver
    <3> QED
      BY <1>12, <3>1, <3>2, <3>3 DEF SubmitRaises, GivesUp
  <2>2. rec' = rec /\ array'["composite"] = array["composite"]
    BY <1>6, <1>12 DEF SubmitRaises, bucket, fleet
  <2> QED
    BY <1>1, <1>4, <2>1, <2>2
<1>13. CASE Check
  <2>1. drv'.stage = "offsets" /\ drv'.at \in {"failed", "adopt", "submit"}
    BY <1>1, <1>2, <1>13 DEF Check, Fails, Off, Driver
  <2> QED
    BY <1>7, <1>13, <2>1 DEF Check, bucket, fleet
<1>14. CASE Adopt
  <2>1. drv'.stage = "offsets" /\ drv'.at \in {"failed", "check", "watch"}
    BY <1>1, <1>14 DEF Adopt, Fails, Goes, Off, Driver
  <2> QED
    BY <1>7, <1>14, <2>1 DEF Adopt, bucket, fleet
<1>15. CASE Watch
  <2>1. drv'.stage = "offsets" /\ drv'.at = "hook"
    BY <1>1, <1>2, <1>15 DEF Watch, Goes, Driver
  <2> QED
    BY <1>7, <1>15, <2>1 DEF Watch, bucket, fleet
<1>16. CASE Hook
  <2>1. drv'.stage = "offsets" /\ drv'.at = "probe"
    BY <1>1, <1>2, <1>16 DEF Hook, Goes, Driver
  <2> QED
    BY <1>7, <1>16, <2>1 DEF Hook, bucket, fleet
<1>17. CASE Probe
  <2>1. drv'.stage = "offsets" /\ drv'.at \in {"failed", "check", "watch"}
    BY <1>1, <1>17 DEF Probe, Fails, Goes, Off, Driver
  <2> QED
    BY <1>7, <1>17, <2>1 DEF Probe, bucket, fleet
<1>18. CASE Merge \/ AwaitExport
  BY <1>1, <1>18 DEF Merge, AwaitExport
<1>19. CASE DriverBegins \/ Killed
  <2>1. drv'.stage = "offsets" /\ drv'.at \in {"begin", "off"}
    BY <1>19, OffFields DEF DriverBegins, Killed
  <2> QED
    BY <1>7, <1>19, <2>1 DEF DriverBegins, Killed, bucket, fleet
<1>20. CASE Tick
  <2>1. \A r \in Round : rec'["composite"][r] = NoRecord
    BY <1>1, <1>20, Constants DEF Tick, NoRecord
  <2>2. drv'.stage = drv.stage /\ drv'.at = drv.at /\ array' = array
    BY <1>1, <1>20 DEF Tick, fleet, Driver
  <2> QED
    BY <1>1, <1>4, <2>1, <2>2
<1>21. CASE UNCHANGED vars
  BY <1>1, <1>7, <1>21 DEF vars, bucket, fleet
<1>22. ASSUME NEW s \in Stage, NEW r \in Round, ArrayStops(s, r) PROVE Earned'
  <2>1. rec' = rec /\ drv' = drv /\ s # "composite"
    BY <1>1, <1>22 DEF ArrayStops, bucket
  <2>2. array'["composite"] = array["composite"]
    BY <1>1, <1>22, <2>1 DEF ArrayStops, TypeOK, FleetType
  <2> QED
    BY <1>1, <1>4, <2>1, <2>2
<1>23. ASSUME NEW s \in Stage, NEW r \in Round, NEW u \in Unit(s), Publish(s, r, u) PROVE Earned'
  BY <1>1, <1>7, <1>23 DEF Publish, fleet
<1> QED
  BY <1>8, <1>9, <1>10, <1>11, <1>12, <1>13, <1>14, <1>15, <1>16, <1>17, <1>18, <1>19, <1>20,
     <1>21, <1>22, <1>23 DEF Next, DriverStep

\* The composite fleet is neither recorded nor started before the share of scene
\* partials that is asked for is published, by whichever driver and whatever it
\* reads of the records (_overlap_ready, the merge).
THEOREM OverlapEarned == Spec => []OverlapIsEarned
<1>1. Init => Earned
  <2> SUFFICES ASSUME Init PROVE Earned
    OBVIOUS
  <2>1. drv.stage = "offsets" /\ drv.at = "off"
    BY OffFields DEF Init
  <2>2. \A r \in Round : rec["composite"][r] = NoRecord /\ array["composite"][r] = "none"
    BY DEF Init, Stage
  <2> QED
    BY <2>1, <2>2 DEF Earned, OverlapIsEarned
<1>2. Earned => OverlapIsEarned
  BY DEF Earned
<1> QED
  BY <1>1, <1>2, AlwaysDrive, NextEarned, PTL DEF Spec
=============================================================================
