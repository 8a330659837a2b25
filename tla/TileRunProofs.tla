---------------------------- MODULE TileRunProofs ----------------------------
(***************************************************************************)
(* What holds of a tile of a batch run for every number of retries and     *)
(* every set of answers of the catalog.  The argument is that of a single  *)
(* writer: Coiled starts a process only when the one before it is gone, so *)
(* whatever a process finds in the bucket only it can change until it ends.*)
(***************************************************************************)
EXTENDS TileRun, Counting

-----------------------------------------------------------------------------
(* Order.  TypeOK is not inductive: the next process and the next attempt  *)
(* are in range only because processes start one at a time and each numbers*)
(* itself just past what those before it left.                             *)

ProcState ==
    [at : Place, attempt : {0} \cup Attempt, phase : Phase,
     status : Status, raised : BOOLEAN,
     scenes : SceneSet \cup {None}, est : SceneSet \cup {None}]

\* How many processes Coiled has started.
Started ==
    IF task.state \in {"none", "filtered", "queued"} THEN Retries - task.left
    ELSE (Retries - task.left) + 1

\* The process of the task, and no other, is running.
OneProcess ==
    /\ \A p \in Proc : proc[p].at # "off" <=> p <= Started
    /\ \A p \in Proc : Alive(p) <=> task.runs = p
    /\ task.runs = IF task.state = "running" THEN Started ELSE 0

Numbered(p) == proc[p].at \notin {"off", "gone", "number"}

\* A process takes an attempt no larger than its own number.
HasAttempt == \A p \in Proc : Numbered(p) => proc[p].attempt \in 1 .. p

\* What is in the bucket is from processes that numbered themselves.
ArtifactsBehind ==
    \A a \in Attempt : states[a] # None \/ logs[a] # 0 =>
        /\ a <= Started
        /\ \A p \in Proc : proc[p].at = "number" => a < p

BeatsOwn == \A p \in Proc : beat[p] # None => Numbered(p) /\ beat[p].by = p

ListsKey == watcher.at = "listed" \/ watcher.held # None => watcher.key \in Key \ {None}

\* A process holds the scenes it will composite, and offsets, before it uploads.
Holds(p) ==
    /\ proc[p].at \in {"cache", "qa", "lst"} => proc[p].scenes \in SceneSet
    /\ proc[p].at \in {"qa", "lst"} => proc[p].est \in SceneSet

Order ==
    /\ OneProcess
    /\ HasAttempt
    /\ ArtifactsBehind
    /\ BeatsOwn
    /\ ListsKey
    /\ \A p \in Proc : Holds(p)

RunInv == TypeOK /\ Order

LEMMA NoProcType == NoProc \in ProcState
BY DEF NoProc, ProcState, Place, Phase, Status

\* What the watcher may be.
WatcherState ==
    [at : {"idle", "listed", "returned"}, key : Key \cup {None}, whole : BOOLEAN,
     settled : BOOLEAN, held : Body \cup {None}, blurred : BOOLEAN]

Returned == [Unwatched EXCEPT !.at = "returned"]

\* A watcher that has listed nothing, and one that has returned, are watchers.
LEMMA UnwatchedType == Unwatched \in WatcherState /\ Returned \in WatcherState
BY DEF Unwatched, Returned, WatcherState

\* Neither of the two holds a body.
LEMMA UnwatchedHoldsNothing ==
    /\ Unwatched.at = "idle" /\ Unwatched.held = None
    /\ Returned.at = "returned" /\ Returned.held = None
BY DEF Unwatched, Returned

LEMMA StartedType == TypeOK => Started \in 0 .. Retries + 1
BY TileRunAssumption DEF TypeOK, Started

\* Last, the largest process that is not off, is the number started.
LEMMA LastIsStarted == ASSUME TypeOK, OneProcess PROVE Last = Started
<1> DEFINE S == {0} \cup {p \in Proc : proc[p].at # "off"}
<1>1. Started \in 0 .. Retries + 1
  BY StartedType
<1>2. S = 0 .. Started
  BY <1>1, TileRunAssumption DEF OneProcess, Proc
<1>3. Max(S) \in S /\ \A y \in S : y <= Max(S)
  <2>1. 0 \in S /\ S \in SUBSET (0 .. Started) /\ Started \in Nat
    BY <1>1, <1>2
  <2> HIDE DEF S
  <2> QED
    BY <2>1, MaxOf
<1>4. Max(S) = Started
  BY <1>1, <1>2, <1>3
<1> QED
  BY <1>4 DEF Last

\* The highest attempt with an artifact is an attempt, or 0, and bounds them all.
LEMMA Highest ==
    ASSUME TypeOK
    PROVE  /\ HighestAttempt \in {0} \cup StatesLeft \cup LogsLeft
           /\ \A a \in StatesLeft \cup LogsLeft : a <= HighestAttempt
           /\ HighestState \in {0} \cup StatesLeft
<1> DEFINE S == {0} \cup StatesLeft
           T == {0} \cup StatesLeft \cup LogsLeft
<1>1. /\ S \in SUBSET (0 .. Retries + 1) /\ T \in SUBSET (0 .. Retries + 1)
      /\ 0 \in S /\ 0 \in T /\ Retries + 1 \in Nat
  BY TileRunAssumption DEF StatesLeft, LogsLeft, Attempt, Proc
<1>2. Max(S) \in S
  <2> HIDE DEF S
  <2> QED
    BY <1>1, MaxOf
<1>3. Max(T) \in T /\ \A y \in T : y <= Max(T)
  <2> HIDE DEF T
  <2> QED
    BY <1>1, MaxOf
<1> QED
  BY <1>2, <1>3 DEF HighestAttempt, HighestState

LEMMA InitOrder == Init => RunInv
<1> SUFFICES ASSUME Init PROVE RunInv
  OBVIOUS
<1>1. /\ task = [state |-> "none", runs |-> 0, left |-> Retries]
      /\ \A p \in Proc : proc[p] = NoProc /\ beat[p] = None
      /\ \A k \in Key : states[k] = None
      /\ \A a \in Attempt : logs[a] = 0
      /\ watcher.at = "idle" /\ watcher.held = None
  BY DEF Init, Unwatched
<1>2. cogs \in [Product -> Cog \cup {None}]
  <2>1. EarlierScenes \subseteq SceneSet
    BY TileRunAssumption DEF EarlierScenes
  <2>2. PICK have \in {{}, {"qa_count"}, Product}, s \in EarlierScenes :
          cogs = [d \in Product |->
                    IF d \in have THEN [by |-> 0, scenes |-> s, offsets |-> s] ELSE None]
    BY DEF Init
  <2>3. [by |-> 0, scenes |-> s, offsets |-> s] \in Cog
    BY <2>1 DEF Cog
  <2> QED
    BY <2>2, <2>3
<1>3. TypeOK
  BY <1>2, NoProcType, UnwatchedType, TileRunAssumption DEF Init, TypeOK, ProcState, WatcherState
<1>4. Started = 0
  BY <1>1, TileRunAssumption DEF Started
<1>5. OneProcess
  BY <1>1, <1>4, TileRunAssumption DEF OneProcess, Alive, NoProc, Proc
<1>6. HasAttempt /\ BeatsOwn /\ ListsKey /\ \A p \in Proc : Holds(p)
  BY <1>1 DEF HasAttempt, BeatsOwn, ListsKey, Numbered, NoProc, Holds
<1>7. ArtifactsBehind
  BY <1>1 DEF ArtifactsBehind, Key
<1> QED
  BY <1>3, <1>5, <1>6, <1>7 DEF RunInv, Order

\* The readers' side of a step of the run.
LEMMA RewrittenType ==
    ASSUME TypeOK, ListsKey, states' \in [Key -> Body \cup {None}], Rewritten
    PROVE  watcher' \in WatcherState /\ ListsKey'
<1>1. watcher \in WatcherState
  BY DEF TypeOK, WatcherState
<1> QED
  BY <1>1 DEF Rewritten, WatcherState, ListsKey

\* A step of a process that keeps to its own attempt, or takes a fresh one.
LEMMA MoveKept ==
    ASSUME RunInv, NEW p \in Proc, Alive(p), task' = task,
           proc' \in [Proc -> ProcState], \A q \in Proc \ {p} : proc'[q] = proc[q],
           Numbered(p)', proc'[p].attempt \in 1 .. p, Holds(p)',
           beat' \in [Proc -> Body \cup {None}], \A q \in Proc \ {p} : beat'[q] = beat[q],
           beat'[p] # None => beat'[p].by = p,
           cogs' \in [Product -> Cog \cup {None}],
           offsets' \in [OffsetKey -> SceneSet \cup {None}],
           states' \in [Key -> Body \cup {None}], logs' \in [Attempt -> {0} \cup Proc],
           \A a \in Attempt : states'[a] # None \/ logs'[a] # 0 =>
                                 states[a] # None \/ logs[a] # 0 \/ a <= p,
           Rewritten
    PROVE  RunInv'
<1> USE DEF RunInv, Order
<1>1. TypeOK'
  BY RewrittenType DEF TypeOK, ProcState, WatcherState
<1>2. Started' = Started /\ Started \in 0 .. Retries + 1
  BY StartedType DEF Started
<1>3. task.runs = p /\ p = Started
  BY TileRunAssumption DEF OneProcess, Proc
<1>4. OneProcess'
  <2>1. \A q \in Proc : proc'[q].at # "off" <=> proc[q].at # "off"
    BY DEF Alive, Numbered
  <2>2. \A q \in Proc : Alive(q)' <=> Alive(q)
    BY DEF Alive, Numbered
  <2> QED
    BY <1>2, <2>1, <2>2 DEF OneProcess
<1>5. HasAttempt' /\ BeatsOwn' /\ \A q \in Proc : Holds(q)'
  BY DEF HasAttempt, BeatsOwn, Numbered, Holds
<1>6. ArtifactsBehind'
  <2> SUFFICES ASSUME NEW a \in Attempt, states'[a] # None \/ logs'[a] # 0
               PROVE  a <= Started' /\ \A q \in Proc : proc'[q].at # "number"
    BY DEF ArtifactsBehind
  <2>1. a <= Started
    BY <1>3 DEF ArtifactsBehind
  <2>2. \A q \in Proc \ {p} : ~Alive(q)
    BY <1>3 DEF OneProcess
  <2> QED
    BY <1>2, <2>1, <2>2 DEF Alive, Numbered
<1>7. ListsKey'
  BY RewrittenType
<1> QED
  BY <1>1, <1>4, <1>5, <1>6, <1>7

\* A process numbers itself no higher than its own number, and past what is left.
LEMMA FreshAttempt ==
    ASSUME RunInv, NEW p \in Proc, proc[p].at = "number"
    PROVE  /\ ResolveAttempt \subseteq 1 .. p
           /\ \A a \in Attempt : states[a] # None \/ logs[a] # 0 => a < HighestAttempt + 1
<1>1. TypeOK /\ \A a \in StatesLeft \cup LogsLeft : a \in Attempt /\ a < p
  BY DEF RunInv, Order, ArtifactsBehind, StatesLeft, LogsLeft
<1>2. HighestAttempt \in 0 .. p - 1
  BY <1>1, Highest, TileRunAssumption DEF Attempt, Proc
<1>3. ResolveAttempt \subseteq 1 .. p
  BY <1>2, TileRunAssumption DEF ResolveAttempt, Proc
<1>4. \A a \in Attempt : states[a] # None \/ logs[a] # 0 => a \in StatesLeft \cup LogsLeft
  BY DEF StatesLeft, LogsLeft
<1>5. \A a \in StatesLeft \cup LogsLeft : a < HighestAttempt + 1
  <2>1. \A a \in StatesLeft \cup LogsLeft : a <= HighestAttempt
    BY <1>1, Highest
  <2> QED
    BY <1>1, <1>2, <2>1, TileRunAssumption DEF Attempt, Proc
<1> QED
  BY <1>3, <1>4, <1>5

\* The main thread is running, and every step of it but the last stays so.
LEMMA MainShape ==
    ASSUME RunInv, NEW p \in Proc, MainThread(p)
    PROVE  /\ Alive(p)
           /\ \/ Exit(p)
              \/ /\ proc' \in [Proc -> ProcState]
                 /\ \A q \in Proc \ {p} : proc'[q] = proc[q]
                 /\ Numbered(p)' /\ Holds(p)'
                 /\ \/ Number(p) /\ proc'[p].attempt \in 1 .. p
                    \/ Numbered(p) /\ proc'[p].attempt = proc[p].attempt
                 /\ UNCHANGED <<task, beat>>
<1> USE DEF Alive, Numbered, GoTo, Holds
<1>1. /\ proc \in [Proc -> ProcState]
      /\ proc[p] \in ProcState
      /\ Holds(p)
  BY DEF RunInv, Order, TypeOK, ProcState
<1>2. /\ {"starting", "working", "done", "failed", "skipped"} = Phase
      /\ {"completed", "skipped", "failed", None} = Status
  BY DEF Phase, TERMINAL_PHASES, Status
<1>3. CASE Number(p)
  <2>1. PICK a \in 1 .. p : proc' = [proc EXCEPT ![p].at = "check", ![p].attempt = a]
    BY <1>3, FreshAttempt DEF Number
  <2>2. a \in Attempt
    BY TileRunAssumption DEF Attempt, Proc
  <2> QED
    BY <1>1, <1>3, <2>1, <2>2 DEF Number, ProcState, Place
<1>4. CASE CheckCogs(p) \/ CheckRaises(p) \/ EnterHeartbeat(p)
  BY <1>1, <1>2, <1>4 DEF CheckCogs, CheckRaises, EnterHeartbeat, ProcState, Place
<1>5. CASE ResolveItems(p)
  <2>1. PICK s \in SceneSet :
          proc' = [proc EXCEPT ![p].at = "cache", ![p].phase = "working", ![p].scenes = s]
    BY <1>5 DEF ResolveItems
  <2>2. proc[p].at = "query" /\ UNCHANGED <<task, beat>>
    BY <1>5 DEF ResolveItems
  <2> QED
    BY <1>1, <1>2, <2>1, <2>2 DEF ProcState, Place
<1>6. CASE ReadOffsets(p)
  <2>1. PICK s \in SceneSet :
          proc' = [proc EXCEPT ![p].at = "qa", ![p].phase = "working", ![p].est = s]
    <3>1. proc[p].scenes \in SceneSet
      BY <1>1, <1>6 DEF ReadOffsets
    <3>2. {offsets[t] : t \in OffsetKey} \ {None} \subseteq SceneSet
      BY DEF RunInv, TypeOK
    <3> QED
      BY <1>6, <3>1, <3>2 DEF ReadOffsets
  <2>2. proc[p].at = "cache" /\ UNCHANGED <<task, beat>>
    BY <1>6 DEF ReadOffsets
  <2> QED
    BY <1>1, <1>2, <2>1, <2>2 DEF ProcState, Place
<1>61. CASE UploadQa(p)
  BY <1>1, <1>2, <1>61 DEF UploadQa, ProcState, Place
<1>62. CASE UploadLst(p)
  BY <1>1, <1>2, <1>62 DEF UploadLst, Settle, ProcState, Place
<1>63. proc[p].at \in Working => proc[p].at \notin {"off", "gone", "number"}
  BY DEF Working
<1>64. CASE FailsTransiently(p)
  BY <1>1, <1>63, <1>64, ZenonT(30) DEF FailsTransiently, ProcState, Place
<1>7. CASE FailsForGood(p)
  BY <1>1, <1>2, <1>63, <1>7, ZenonT(30) DEF FailsForGood, Settle, ProcState, Place
<1>8. CASE LeaveHeartbeat(p) \/ WritePointer(p) \/ UploadLog(p)
  BY <1>1, <1>2, <1>8 DEF LeaveHeartbeat, WritePointer, UploadLog, LastPhase, AfterLastBeat,
                          TERMINAL_PHASES, ProcState, Place
<1>9. CASE Exit(p)
  BY <1>9 DEF Exit
<1> QED
  BY <1>3, <1>4, <1>5, <1>6, <1>61, <1>62, <1>64, <1>7, <1>8, <1>9 DEF MainThread

\* A write under the run prefix replaces one object, or nothing.
LEMMA StoredType ==
    ASSUME TypeOK, NEW k \in Key, NEW b \in Body, states' \in Stored(k, b)
    PROVE  /\ states' \in [Key -> Body \cup {None}]
           /\ \A j \in Key : states'[j] = states[j] \/ (j = k /\ states'[j] = b)
BY DEF TypeOK, Stored, Written

\* A process publishes to its own attempt only, and to the pointer at its end.
Publishes(p) ==
    /\ states' \in [Key -> Body \cup {None}]
    /\ \A k \in Key :
          \/ states'[k] = states[k]
          \/ Numbered(p) /\ k = proc[p].attempt /\ states'[k] \in Body /\ states'[k].by = p
          \/ k = POINTER_ATTEMPT /\ proc[p].at = "point" /\ states'[k] = StateOf(p)

LEMMA PublishType ==
    ASSUME RunInv, NEW p \in Proc, Numbered(p), NEW phase \in Phase, NEW status \in Status,
           Publish(p, phase, status)
    PROVE  Publishes(p)
<1> DEFINE b == [by |-> p, phase |-> phase, status |-> status]
<1>1. proc[p].attempt \in Key /\ TypeOK
  BY TileRunAssumption DEF RunInv, Order, HasAttempt, Key, Attempt, Proc
<1>2. b \in Body /\ b.by = p
  BY DEF Body
<1>3. states' \in Stored(proc[p].attempt, b)
  BY DEF Publish
<1> HIDE DEF b
<1> QED
  BY <1>1, <1>2, <1>3, StoredType DEF Publishes

LEMMA MainPublishes ==
    ASSUME RunInv, NEW p \in Proc, MainThread(p)
    PROVE  Publishes(p)
<1> USE DEF Numbered
<1>1. TypeOK /\ proc[p] \in ProcState
  BY DEF RunInv, TypeOK, ProcState
<1>2. /\ {"starting", "working", "done", "failed", "skipped"} = Phase
      /\ {"completed", "skipped", "failed", None} = Status
      /\ proc[p].status \in Status /\ proc[p].phase \in Phase
  BY <1>1 DEF Phase, TERMINAL_PHASES, Status, ProcState
<1>3. CASE UNCHANGED states
  BY <1>1, <1>3 DEF Publishes, TypeOK
<1>4. ASSUME NEW phase \in Phase, NEW status \in Status, Publish(p, phase, status), Numbered(p)
      PROVE  Publishes(p)
  BY <1>4, PublishType
<1>5. CASE CheckCogs(p)
  BY <1>2, <1>3, <1>4, <1>5 DEF CheckCogs, WriteFinalState
<1>6. CASE EnterHeartbeat(p) \/ ResolveItems(p) \/ ReadOffsets(p) \/ UploadQa(p)
  BY <1>2, <1>4, <1>6 DEF EnterHeartbeat, ResolveItems, ReadOffsets, UploadQa
<1>7. CASE FailsForGood(p)
  BY <1>2, <1>4, <1>7 DEF FailsForGood, Working
<1>8. CASE LeaveHeartbeat(p)
  <2>1. LastPhase(p) \in Phase
    BY <1>2 DEF LastPhase, TERMINAL_PHASES
  <2> QED
    BY <1>2, <1>4, <1>8, <2>1 DEF LeaveHeartbeat
<1>9. CASE WritePointer(p)
  <2>1. StateOf(p) \in Body
    BY <1>2 DEF StateOf, Body
  <2>2. POINTER_ATTEMPT \in Key
    BY DEF Key
  <2> QED
    BY <1>1, <1>9, <2>1, <2>2, StoredType DEF WritePointer, Publishes
<1> QED
  BY <1>3, <1>5, <1>6, <1>7, <1>8, <1>9
     DEF MainThread, Number, CheckRaises, UploadLst, FailsTransiently, UploadLog, Exit

\* What else the main thread writes: rasters, the cache and its own log.
LEMMA MainWrites ==
    ASSUME RunInv, NEW p \in Proc, MainThread(p)
    PROVE  /\ cogs' \in [Product -> Cog \cup {None}]
           /\ offsets' \in [OffsetKey -> SceneSet \cup {None}]
           /\ logs' \in [Attempt -> {0} \cup Proc]
           /\ \A a \in Attempt : \/ logs'[a] = logs[a]
                                 \/ Numbered(p) /\ a = proc[p].attempt /\ logs'[a] = p
<1>1. TypeOK /\ Holds(p) /\ TileRunAssumption
  BY TileRunAssumption DEF RunInv, Order
<1>2. CASE UploadQa(p) \/ UploadLst(p)
  <2>1. [by |-> p, scenes |-> proc[p].scenes, offsets |-> proc[p].est] \in Cog
    BY <1>1, <1>2 DEF UploadQa, UploadLst, Holds, Cog
  <2> QED
    BY <1>1, <1>2, <2>1 DEF UploadQa, UploadLst, Uploaded, TypeOK
<1>3. CASE ReadOffsets(p)
  <2>1. UNCHANGED <<cogs, logs>> /\ proc[p].scenes \in SceneSet
    BY <1>1, <1>3 DEF ReadOffsets, Holds
  <2>2. offsets' = offsets \/ offsets' \in RecordsKept(proc[p].scenes)
    BY <1>3 DEF ReadOffsets
  <2> QED
    BY <1>1, <2>1, <2>2 DEF RecordsKept, TypeOK, OffsetKey
<1>4. CASE UploadLog(p)
  BY <1>1, <1>4 DEF UploadLog, Numbered, TypeOK
<1>5. CASE UNCHANGED <<cogs, offsets, logs>>
  BY <1>1, <1>5 DEF TypeOK
<1> QED
  BY <1>2, <1>3, <1>4, <1>5
     DEF MainThread, Number, CheckCogs, CheckRaises, EnterHeartbeat, ResolveItems,
         FailsTransiently, FailsForGood, LeaveHeartbeat, WritePointer, Exit

LEMMA MainOrder ==
    ASSUME RunInv, NEW p \in Proc, MainThread(p), ~Exit(p), Rewritten
    PROVE  RunInv'
<1>1. /\ Alive(p)
      /\ proc' \in [Proc -> ProcState]
      /\ \A q \in Proc \ {p} : proc'[q] = proc[q]
      /\ Numbered(p)' /\ Holds(p)'
      /\ \/ Number(p) /\ proc'[p].attempt \in 1 .. p
         \/ Numbered(p) /\ proc'[p].attempt = proc[p].attempt
      /\ task' = task /\ beat' = beat
  BY MainShape
<1>2. TypeOK /\ HasAttempt /\ BeatsOwn
  BY DEF RunInv, Order
<1>3. proc'[p].attempt \in 1 .. p
  BY <1>1, <1>2 DEF HasAttempt
<1>4. /\ states' \in [Key -> Body \cup {None}]
      /\ \A a \in Attempt : \/ states'[a] = states[a]
                            \/ Numbered(p) /\ a = proc[p].attempt
  <2>1. \A a \in Attempt : a \in Key /\ a # POINTER_ATTEMPT
    BY TileRunAssumption DEF Key, POINTER_ATTEMPT, Attempt, Proc
  <2>2. Publishes(p)
    BY MainPublishes
  <2> QED
    BY <2>1, <2>2 DEF Publishes
<1>5. \A a \in Attempt : states'[a] # None \/ logs'[a] # 0 =>
                            states[a] # None \/ logs[a] # 0 \/ a <= p
  BY <1>2, <1>4, MainWrites DEF HasAttempt
<1>6. beat' \in [Proc -> Body \cup {None}] /\ (beat'[p] # None => beat'[p].by = p)
  BY <1>1, <1>2 DEF TypeOK, BeatsOwn
<1>7. /\ cogs' \in [Product -> Cog \cup {None}]
      /\ offsets' \in [OffsetKey -> SceneSet \cup {None}]
      /\ logs' \in [Attempt -> {0} \cup Proc]
  BY MainWrites
<1> QED
  BY <1>1, <1>3, <1>4, <1>5, <1>6, <1>7, MoveKept

\* The heartbeat thread holds a state of its own process, and stores it.
LEMMA BeatPublishes ==
    ASSUME RunInv, NEW p \in Proc, StoreBeat(p)
    PROVE  Publishes(p)
<1>1. TypeOK /\ Numbered(p) /\ beat[p] \in Body /\ beat[p].by = p
  BY DEF RunInv, Order, BeatsOwn, StoreBeat, TypeOK
<1>2. proc[p].attempt \in Key
  BY <1>1, TileRunAssumption DEF RunInv, Order, HasAttempt, Key, Attempt, Proc
<1> QED
  BY <1>1, <1>2, StoredType DEF StoreBeat, Publishes

LEMMA BeatOrder ==
    ASSUME RunInv, NEW p \in Proc, TakeBeat(p) \/ StoreBeat(p), Rewritten
    PROVE  RunInv'
<1>1. TypeOK /\ HasAttempt /\ BeatsOwn /\ Holds(p)
  BY DEF RunInv, Order
<1>2. Numbered(p)
  BY <1>1 DEF TakeBeat, StoreBeat, BeatsOwn, Working, Numbered
<1>3. proc' = proc /\ proc \in [Proc -> ProcState] /\ Alive(p)
  BY <1>1, <1>2 DEF TakeBeat, StoreBeat, TypeOK, ProcState, Numbered, Alive
<1>4. /\ beat' \in [Proc -> Body \cup {None}]
      /\ \A q \in Proc \ {p} : beat'[q] = beat[q]
      /\ beat'[p] # None => beat'[p].by = p
  <2>1. StateOf(p) \in Body /\ StateOf(p).by = p
    BY <1>3 DEF StateOf, Body, ProcState
  <2> QED
    BY <1>1, <2>1 DEF TakeBeat, StoreBeat, TypeOK
<1>5. Publishes(p) \/ UNCHANGED states
  BY BeatPublishes DEF TakeBeat
<1>6. /\ states' \in [Key -> Body \cup {None}]
      /\ \A a \in Attempt : \/ states'[a] = states[a]
                            \/ a = proc[p].attempt
  <2>1. \A a \in Attempt : a \in Key /\ a # POINTER_ATTEMPT
    BY TileRunAssumption DEF Key, POINTER_ATTEMPT, Attempt, Proc
  <2> QED
    BY <1>1, <1>5, <2>1 DEF Publishes, TypeOK
<1>7. proc'[p].attempt \in 1 .. p
  BY <1>1, <1>2, <1>3 DEF HasAttempt
<1>8. UNCHANGED <<task, cogs, offsets, logs>>
  BY DEF TakeBeat, StoreBeat
<1>9. \A a \in Attempt : states'[a] # None \/ logs'[a] # 0 =>
                            states[a] # None \/ logs[a] # 0 \/ a <= p
  BY <1>1, <1>3, <1>6, <1>7, <1>8
<1>10. Numbered(p)' /\ Holds(p)'
  BY <1>1, <1>2, <1>3 DEF Numbered, Holds
<1>11. /\ cogs' \in [Product -> Cog \cup {None}]
       /\ offsets' \in [OffsetKey -> SceneSet \cup {None}]
       /\ logs' \in [Attempt -> {0} \cup Proc]
  BY <1>1, <1>8 DEF TypeOK
<1>12. proc' \in [Proc -> ProcState] /\ \A q \in Proc \ {p} : proc'[q] = proc[q]
  BY <1>3
<1> QED
  BY <1>3, <1>4, <1>6, <1>7, <1>8, <1>9, <1>10, <1>11, <1>12, MoveKept

\* The steps that change which process runs: the submission, a start, and the
\* two ways a process ends.
LEMMA SubmitOrder == ASSUME RunInv, SubmitBatch, Rewritten PROVE RunInv'
<1> USE DEF RunInv, Order
<1>1. /\ task.state = "none" /\ task'.state \in {"filtered", "queued"}
      /\ task'.left = task.left /\ task'.runs = task.runs
      /\ UNCHANGED <<proc, beat, cogs, offsets, states, logs>>
  BY DEF SubmitBatch, TypeOK
<1>2. TypeOK'
  BY <1>1, RewrittenType DEF SubmitBatch, TypeOK, WatcherState
<1>3. Started' = Started
  BY <1>1 DEF Started
<1>4. OneProcess' /\ HasAttempt' /\ ArtifactsBehind' /\ BeatsOwn'
  BY <1>1, <1>3 DEF OneProcess, Alive, HasAttempt, ArtifactsBehind, BeatsOwn, Numbered
<1>5. ListsKey' /\ \A p \in Proc : Holds(p)'
  BY <1>1, <1>2, RewrittenType DEF Holds, TypeOK
<1> QED
  BY <1>2, <1>4, <1>5

LEMMA StartOrder == ASSUME RunInv, StartTask, Rewritten PROVE RunInv'
<1> USE DEF RunInv, Order
<1> DEFINE p == Started + 1
<1>1. /\ task.state = "queued" /\ Started = Retries - task.left
      /\ p \in Proc /\ task.runs = 0
  BY TileRunAssumption DEF StartTask, Started, TypeOK, Proc, OneProcess
<1>2. /\ task' = [task EXCEPT !.state = "running", !.runs = p]
      /\ proc' = [proc EXCEPT ![p].at = "number"]
      /\ UNCHANGED <<beat, cogs, offsets, states, logs>>
  BY LastIsStarted DEF StartTask
<1>3. task'.state = "running" /\ task'.runs = p /\ task'.left = task.left
  BY <1>2 DEF TypeOK
<1>4. /\ proc'[p].at = "number"
      /\ \A q \in Proc \ {p} : proc'[q] = proc[q]
      /\ proc' \in [Proc -> ProcState]
  BY <1>1, <1>2, SMTT(20) DEF TypeOK, ProcState, Place
<1>5. TypeOK'
  <2>1. task' \in [state : {"none", "filtered", "queued", "running", "done", "error"},
                   runs : {0} \cup Proc, left : 0 .. Retries]
    BY <1>1, <1>2 DEF TypeOK
  <2> QED
    BY <1>2, <1>4, <2>1, RewrittenType DEF TypeOK, ProcState, WatcherState
<1>6. Started' = p
  BY <1>1, <1>3 DEF Started
<1>7. Started \in Nat /\ \A q \in Proc : q \in Nat /\ q # 0
  BY StartedType, TileRunAssumption DEF Proc
<1> HIDE DEF p
<1>8. OneProcess'
  <2>1. \A q \in Proc : proc'[q].at # "off" <=> q <= p
    BY <1>1, <1>4, <1>7 DEF OneProcess, p
  <2>0. \A q \in Proc : ~Alive(q)
    BY <1>1, <1>7 DEF OneProcess
  <2>2. \A q \in Proc : Alive(q)' <=> q = p
    BY <1>4, <2>0 DEF Alive
  <2> QED
    BY <1>3, <1>6, <2>1, <2>2 DEF OneProcess
<1>9. \A q \in Proc : Numbered(q)' => q # p /\ Numbered(q)
  BY <1>4 DEF Numbered
<1>10. HasAttempt' /\ \A q \in Proc : Holds(q)'
  BY <1>4, <1>9 DEF HasAttempt, Holds
<1>11. BeatsOwn'
  <2>1. ~Numbered(p)
    BY <1>1, <1>7 DEF OneProcess, Numbered, p
  <2> QED
    BY <1>2, <1>4, <2>1 DEF BeatsOwn, Numbered
<1>12. ArtifactsBehind'
  <2> SUFFICES ASSUME NEW a \in Attempt, states[a] # None \/ logs[a] # 0
               PROVE  a <= p /\ \A q \in Proc : proc'[q].at = "number" => a < q
    BY <1>2, <1>6 DEF ArtifactsBehind
  <2>1. a <= Started /\ a \in Nat
    BY <1>7 DEF ArtifactsBehind, Attempt
  <2>0. \A q \in Proc : ~Alive(q)
    BY <1>1, <1>7 DEF OneProcess
  <2>2. \A q \in Proc : proc'[q].at = "number" => q = p
    BY <1>4, <2>0 DEF Alive
  <2> QED
    BY <1>7, <2>1, <2>2 DEF p
<1>13. ListsKey'
  BY <1>2, RewrittenType DEF TypeOK
<1> QED
  BY <1>5, <1>8, <1>10, <1>11, <1>12, <1>13

\* The process of the task is gone: the task is queued again, or over.
LEMMA GoneOrder ==
    ASSUME RunInv, NEW p \in Proc, Alive(p), Killed(p),
           task' = Retried \/ task' = [task EXCEPT !.state = "done", !.runs = 0],
           UNCHANGED <<cogs, offsets, states, logs>>, Rewritten
    PROVE  RunInv'
<1> USE DEF RunInv, Order
<1>1. /\ task.runs = p /\ p = Started /\ task.state = "running"
      /\ p \in Nat
  BY TileRunAssumption DEF OneProcess, Proc
<1>2. /\ task' \in [state : {"none", "filtered", "queued", "running", "done", "error"},
                    runs : {0} \cup Proc, left : 0 .. Retries]
      /\ task'.runs = 0 /\ task'.state # "running"
      /\ Started' = Started
  <2>1. /\ task.left \in 0 .. Retries /\ Retries \in Nat
        /\ task \in [state : {"none", "filtered", "queued", "running", "done", "error"},
                     runs : {0} \cup Proc, left : 0 .. Retries]
    BY TileRunAssumption DEF TypeOK
  <2>2. CASE task.left > 0 /\ task' = [task EXCEPT !.state = "queued", !.runs = 0, !.left = @ - 1]
    <3>1. task.left - 1 \in 0 .. Retries
      BY <2>1, <2>2
    <3>2. task'.state = "queued" /\ task'.runs = 0 /\ task'.left = task.left - 1
      BY <2>1, <2>2
    <3>3. Started' = Started
      BY <1>1, <2>1, <3>2 DEF Started
    <3> QED
      BY <2>1, <2>2, <3>1, <3>2, <3>3
  <2>3. CASE \E s \in {"error", "done"} : task' = [task EXCEPT !.state = s, !.runs = 0]
    BY <1>1, <2>1, <2>3 DEF Started
  <2> QED
    BY <2>1, <2>2, <2>3 DEF Retried
<1>3. /\ proc'[p] = [NoProc EXCEPT !.at = "gone"] /\ beat'[p] = None
      /\ \A q \in Proc \ {p} : proc'[q] = proc[q] /\ beat'[q] = beat[q]
      /\ beat' \in [Proc -> Body \cup {None}]
  BY DEF Killed, TypeOK
<1>4. proc' \in [Proc -> ProcState] /\ proc'[p].at = "gone"
  <2>1. [NoProc EXCEPT !.at = "gone"] \in ProcState
    BY NoProcType DEF ProcState, Place
  <2>2. [NoProc EXCEPT !.at = "gone"].at = "gone"
    BY DEF NoProc
  <2> QED
    BY <1>3, <2>1, <2>2 DEF Killed, TypeOK, ProcState
<1>5. TypeOK' /\ ListsKey'
  <2>1. states' \in [Key -> Body \cup {None}]
    BY DEF TypeOK
  <2> QED
    BY <1>2, <1>3, <1>4, <2>1, RewrittenType DEF TypeOK, ProcState, WatcherState
<1>6. OneProcess'
  <2>0. \A q \in Proc : (Alive(q) <=> q = p) /\ q # 0
    BY <1>1, TileRunAssumption DEF OneProcess, Proc
  <2>1. \A q \in Proc : proc'[q].at # "off" <=> q <= Started
    <3>1. proc[p].at # "off"
      BY DEF Alive
    <3>2. \A q \in Proc : proc'[q].at # "off" <=> proc[q].at # "off"
      BY <1>3, <1>4, <3>1
    <3> QED
      BY <3>2 DEF OneProcess
  <2>2. \A q \in Proc : ~Alive(q)' /\ q # 0
    BY <1>3, <1>4, <2>0 DEF Alive
  <2> QED
    BY <1>2, <2>1, <2>2 DEF OneProcess
<1>7. HasAttempt' /\ BeatsOwn' /\ \A q \in Proc : Holds(q)'
  BY <1>3, <1>4 DEF HasAttempt, BeatsOwn, Numbered, Holds
<1>8. ArtifactsBehind'
  BY <1>2, <1>3, <1>4 DEF ArtifactsBehind
<1> QED
  BY <1>5, <1>6, <1>7, <1>8

\* The readers change nothing of the run.
LEMMA ReaderOrder == ASSUME RunInv, WatchList \/ WatchRead PROVE RunInv'
<1> USE DEF RunInv, Order
<1>1. UNCHANGED <<task, proc, beat, cogs, offsets, states, logs>>
  BY DEF WatchList, WatchRead, run
<1>2. watcher' \in WatcherState /\ ListsKey'
  <2>0. watcher \in WatcherState
    BY DEF TypeOK, WatcherState
  <2>1. CASE WatchList
    <3>1. BodyKey \in Key \ {None}
      BY <2>1, Highest DEF WatchList, BodyKey, StatesLeft, Key, POINTER_ATTEMPT
    <3>2. Settled \in BOOLEAN
      BY DEF Settled
    <3>3. \/ watcher' = watcher
          \/ watcher' = [Unwatched EXCEPT !.at = "returned"]
          \/ watcher' = [Unwatched EXCEPT !.at = "listed", !.key = BodyKey,
                                          !.whole = TRUE, !.settled = Settled]
      BY <2>1 DEF WatchList, Shows
    <3> QED
      BY <2>0, <3>1, <3>2, <3>3 DEF Unwatched, WatcherState, ListsKey
  <2>2. CASE WatchRead
    <3>1. watcher.key \in Key \ {None}
      BY <2>2 DEF WatchRead, ListsKey
    <3>2. states[watcher.key] \in Body \cup {None}
      BY <3>1 DEF TypeOK
    <3>3. CASE watcher' \in {Unwatched, Returned}
      BY <3>3, UnwatchedType, UnwatchedHoldsNothing DEF ListsKey
    <3>4. CASE watcher' = [Unwatched EXCEPT !.key = watcher.key,
                                            !.held = states[watcher.key]]
      <4>1. watcher' = [at |-> "idle", key |-> watcher.key, whole |-> FALSE,
                        settled |-> FALSE, held |-> states[watcher.key], blurred |-> FALSE]
        BY <3>4 DEF Unwatched
      <4> QED
        BY <3>1, <3>2, <4>1 DEF WatcherState, ListsKey
    <3> QED
      BY <2>2, <3>3, <3>4 DEF WatchRead, Shows, Returned
  <2> QED
    BY <2>1, <2>2
<1>3. TypeOK'
  BY <1>1, <1>2 DEF TypeOK, WatcherState
<1>4. Started' = Started
  BY <1>1 DEF Started
<1>5. OneProcess' /\ HasAttempt' /\ ArtifactsBehind' /\ BeatsOwn' /\ \A p \in Proc : Holds(p)'
  BY <1>1, <1>4 DEF OneProcess, Alive, HasAttempt, ArtifactsBehind, BeatsOwn, Numbered, Holds
<1> QED
  BY <1>2, <1>3, <1>5

LEMMA NextOrder == RunInv /\ [Next]_vars => RunInv'
<1> SUFFICES ASSUME RunInv, [Next]_vars PROVE RunInv'
  OBVIOUS
<1>1. CASE Rewritten /\ (SubmitBatch \/ StartTask)
  BY <1>1, SubmitOrder, StartOrder
<1>2. ASSUME NEW p \in Proc, MainThread(p), Rewritten PROVE RunInv'
  <2>1. CASE Exit(p)
    BY <1>2, <2>1, MainShape, GoneOrder DEF Exit
  <2> QED
    BY <1>2, <2>1, MainOrder
<1>3. ASSUME NEW p \in Proc, TakeBeat(p) \/ StoreBeat(p), Rewritten PROVE RunInv'
  BY <1>3, BeatOrder
<1>4. ASSUME NEW p \in Proc, Preempt(p), Rewritten PROVE RunInv'
  <2>1. Alive(p)
    BY <1>4 DEF RunInv, Order, OneProcess, Preempt
  <2> QED
    BY <1>4, <2>1, GoneOrder DEF Preempt
<1>5. CASE WatchList \/ WatchRead
  BY <1>5, ReaderOrder
<1>6. CASE UNCHANGED vars
  BY <1>6 DEF vars, run, RunInv, TypeOK, Order, OneProcess, Started, Alive, HasAttempt,
              ArtifactsBehind, BeatsOwn, Numbered, ListsKey, Holds
<1> QED
  BY <1>1, <1>2, <1>3, <1>4, <1>5, <1>6 DEF Next, RunStep

\* Every variable of the batch run of a tile keeps its type: in particular a
\* task never has more processes than its retries allow, and no attempt is
\* numbered past them (submit_batch, resolve_attempt).
THEOREM RunTypes == Spec => []TypeOK
<1>1. RunInv => TypeOK
  BY DEF RunInv
<1> QED
  BY <1>1, InitOrder, NextOrder, PTL DEF Spec

-----------------------------------------------------------------------------
(* What a run leaves.  A check for both rasters admits a process; after it *)
(* only that process uploads, the QA count first, so at every moment of a  *)
(* run that is not forced the P95 raster is either absent or its own.      *)

\* A cached record is of the scenes of its key.
CacheBelongs == \A s \in OffsetKey : offsets[s] \in {None, s}

LstIsLast == cogs["lst_p95"] # None => cogs["qa_count"] # None

\* What a process knows of the bucket, by the place its main thread is at.
InHand(p) ==
    /\ proc[p].at \in {"qa", "lst"} => proc[p].est = proc[p].scenes
    /\ proc[p].at = "lst" => cogs["qa_count"] # None /\ cogs["qa_count"].by = p
    /\ proc[p].status \in {"completed", "skipped"} => CogsThere
    /\ proc[p].at = "leave" /\ ~proc[p].raised => proc[p].status # None
    /\ proc[p].at = "point" => proc[p].phase \in TERMINAL_PHASES /\ proc[p].status # None
    /\ ~Forced /\ proc[p].at \in {"enter"} \cup Working => cogs["lst_p95"] = None

Made ==
    /\ CacheBelongs
    /\ LstIsLast
    /\ \A p \in Proc : InHand(p)
    /\ OffsetsBelong
    /\ ~Forced => CogsMatch
    /\ DoneMeansCogs
    /\ PointerIsAVerdict

MadeInv == RunInv /\ Made

\* Both rasters are there, spelled out.
LEMMA BothThere == CogsThere <=> cogs["qa_count"] # None /\ cogs["lst_p95"] # None
BY DEF CogsThere, Product

LEMMA InitMade == Init => MadeInv
<1> SUFFICES ASSUME Init PROVE MadeInv
  OBVIOUS
<1>1. PICK have \in {{}, {"qa_count"}, Product}, s \in EarlierScenes :
        cogs = [d \in Product |->
                  IF d \in have THEN [by |-> 0, scenes |-> s, offsets |-> s] ELSE None]
  BY DEF Init
<1>2. \A d \in Product : cogs[d] = None \/ cogs[d] = [by |-> 0, scenes |-> s, offsets |-> s]
  BY <1>1
<1>3. OffsetsBelong /\ CogsMatch
  BY <1>2 DEF OffsetsBelong, CogsMatch, CogsThere
<1>4. LstIsLast
  <2>1. CASE have = {} \/ have = {"qa_count"}
    BY <1>1, <2>1 DEF LstIsLast, Product
  <2>2. CASE have = Product
    BY <1>1, <2>2 DEF LstIsLast, Product
  <2> QED
    BY <1>1, <2>1, <2>2
<1>5. CacheBelongs /\ DoneMeansCogs /\ PointerIsAVerdict
  BY DEF Init, CacheBelongs, DoneMeansCogs, PointerIsAVerdict, Key
<1>6. \A p \in Proc : InHand(p)
  BY NoneAssumption DEF Init, InHand, NoProc, Working
<1> QED
  BY <1>3, <1>4, <1>5, <1>6, InitOrder DEF MadeInv, Made

\* A step that writes no raster, no record and no pointer.
LEMMA MadeKept ==
    ASSUME MadeInv, UNCHANGED <<cogs, offsets>>,
           states'[POINTER_ATTEMPT] = states[POINTER_ATTEMPT],
           \A q \in Proc : \/ proc'[q] = proc[q]
                           \/ /\ proc'[q].at \in {"number", "gone"}
                              /\ proc'[q].status \in {None, proc[q].status},
           task'.state = "done" => task.state = "done" \/ CogsThere
    PROVE  Made'
<1> USE DEF MadeInv, Made
<1>1. CogsThere' <=> CogsThere
  BY DEF CogsThere
<1>2. ASSUME NEW q \in Proc PROVE InHand(q)'
  <2>1. CASE proc'[q] = proc[q]
    BY <1>1, <2>1 DEF InHand
  <2>2. CASE proc'[q].at \in {"number", "gone"} /\ proc'[q].status \in {None, proc[q].status}
    BY <1>1, <2>2, NoneAssumption DEF InHand, Working
  <2> QED
    BY <2>1, <2>2
<1>3. CacheBelongs' /\ LstIsLast' /\ OffsetsBelong' /\ (~Forced => CogsMatch')
  BY <1>1 DEF CacheBelongs, LstIsLast, OffsetsBelong, CogsMatch
<1>4. DoneMeansCogs' /\ PointerIsAVerdict'
  BY <1>1 DEF DoneMeansCogs, PointerIsAVerdict
<1> QED
  BY <1>2, <1>3, <1>4

\* A step of the main thread of the one process there is.
LEMMA MadeMain ==
    ASSUME MadeInv, NEW p \in Proc, Alive(p),
           \A q \in Proc \ {p} : proc'[q] = proc[q],
           UNCHANGED task, CogsThere => CogsThere',
           InHand(p)', CacheBelongs', LstIsLast', OffsetsBelong', ~Forced => CogsMatch',
           states'[POINTER_ATTEMPT] = states[POINTER_ATTEMPT] \/ PointerIsAVerdict'
    PROVE  Made'
<1> USE DEF MadeInv, Made
<1>1. ASSUME NEW q \in Proc PROVE InHand(q)'
  <2>1. q # p => proc[q].at \in {"off", "gone"}
    BY DEF RunInv, Order, OneProcess, Alive
  <2> QED
    BY <2>1 DEF InHand, Working
<1>2. DoneMeansCogs'
  BY DEF DoneMeansCogs
<1>3. PointerIsAVerdict'
  BY DEF PointerIsAVerdict
<1> QED
  BY <1>1, <1>2, <1>3

\* Uploads: the rasters carry the scenes and the offsets of the process, and its
\* name.
LEMMA UploadMade ==
    ASSUME MadeInv, NEW p \in Proc, UploadQa(p) \/ UploadLst(p)
    PROVE  /\ CogsThere => CogsThere'
           /\ InHand(p)' /\ CacheBelongs' /\ LstIsLast' /\ OffsetsBelong'
           /\ ~Forced => CogsMatch'
<1> USE DEF MadeInv, Made
<1> DEFINE d == IF proc[p].at = "qa" THEN "qa_count" ELSE "lst_p95"
           cog == [by |-> p, scenes |-> proc[p].scenes, offsets |-> proc[p].est]
<1>1. /\ TypeOK /\ proc[p] \in ProcState
      /\ InHand(p) /\ Holds(p)
      /\ proc[p].at \in {"qa", "lst"}
  BY DEF RunInv, Order, TypeOK, ProcState, UploadQa, UploadLst
<1>2. cog \in Cog /\ cog # None /\ cog.by = p /\ cog.offsets = cog.scenes
  BY <1>1, NoneAssumption DEF Holds, InHand, Cog
<1> HIDE DEF cog
<1>3. /\ cogs' = [cogs EXCEPT ![d] = cog] /\ offsets' = offsets
      /\ d \in Product
  BY <1>1 DEF UploadQa, UploadLst, Uploaded, cog, Product
<1>4. cogs'[d] = cog /\ \A e \in Product \ {d} : cogs'[e] = cogs[e]
  BY <1>1, <1>3 DEF TypeOK
<1>5. CogsThere => CogsThere'
  BY <1>2, <1>4 DEF CogsThere
<1>6. CacheBelongs' /\ OffsetsBelong'
  BY <1>2, <1>3, <1>4 DEF CacheBelongs, OffsetsBelong
<1>7. CASE UploadQa(p)
  <2>1. /\ proc[p].at = "qa" /\ d = "qa_count"
        /\ proc'[p] = [proc[p] EXCEPT !.at = "lst", !.phase = "working"]
    BY <1>1, <1>7 DEF UploadQa, GoTo, RunInv, TypeOK
  <2>2. cogs'["qa_count"] = cog /\ cogs'["lst_p95"] = cogs["lst_p95"]
    BY <1>4, <2>1 DEF Product
  <2>3. InHand(p)'
    BY <1>1, <1>2, <1>5, <2>1, <2>2 DEF InHand, ProcState, Working
  <2>4. ~Forced => CogsMatch'
    BY <1>1, <2>1, <2>2 DEF InHand, Working, CogsMatch, CogsThere, Product
  <2> QED
    BY <1>2, <1>5, <1>6, <2>2, <2>3, <2>4 DEF LstIsLast
<1>8. CASE UploadLst(p)
  <2>1. /\ proc[p].at = "lst" /\ d = "lst_p95"
        /\ proc'[p] = [proc[p] EXCEPT !.at = "leave", !.phase = "working",
                                      !.status = "completed", !.scenes = None, !.est = None]
    BY <1>1, <1>8 DEF UploadLst, Settle, RunInv, TypeOK
  <2>2. cogs'["lst_p95"] = cog /\ cogs'["qa_count"] = cogs["qa_count"]
    BY <1>4, <2>1 DEF Product
  <2>3. cogs["qa_count"] # None /\ cogs["qa_count"].by = p
    BY <1>1, <2>1 DEF InHand
  <2>4. CogsThere'
    BY <1>2, <2>2, <2>3 DEF CogsThere, Product
  <2>5. InHand(p)'
    BY <1>1, <2>1, <2>4, NoneAssumption DEF InHand, ProcState, Working
  <2>6. CogsMatch'
    BY <1>2, <2>2, <2>3 DEF CogsMatch, Product
  <2> QED
    BY <1>5, <1>6, <2>2, <2>3, <2>5, <2>6 DEF LstIsLast
<1> QED
  BY <1>7, <1>8

\* The cache is read, or written, for the scenes in hand.
LEMMA ReadMade ==
    ASSUME MadeInv, NEW p \in Proc, ReadOffsets(p)
    PROVE  InHand(p)' /\ CacheBelongs'
<1> USE DEF MadeInv, Made
<1> DEFINE own == proc[p].scenes
<1>1. /\ TypeOK /\ proc[p] \in ProcState /\ proc[p].at = "cache"
      /\ InHand(p) /\ own \in SceneSet /\ own # None
      /\ cogs' = cogs
  BY TileRunAssumption DEF RunInv, Order, Holds, TypeOK, ProcState, ReadOffsets
<1>2. /\ proc' = [proc EXCEPT ![p].at = "qa", ![p].phase = "working", ![p].est = own]
      /\ offsets' = offsets \/ offsets' = [offsets EXCEPT ![own] = own]
  BY <1>1 DEF ReadOffsets, CacheHits, NamesTheAxis, RecordsKept
<1>3. proc'[p] = [proc[p] EXCEPT !.at = "qa", !.phase = "working", !.est = own]
  BY <1>1, <1>2 DEF TypeOK
<1>4. CogsThere' <=> CogsThere
  BY <1>1 DEF CogsThere
<1>5. InHand(p)'
  BY <1>1, <1>3, <1>4 DEF InHand, ProcState, Working
<1>6. CacheBelongs'
  BY <1>1, <1>2 DEF CacheBelongs, TypeOK, OffsetKey
<1> QED
  BY <1>5, <1>6

LEMMA MainMade ==
    ASSUME MadeInv, NEW p \in Proc, MainThread(p), ~Exit(p)
    PROVE  Made'
<1> USE DEF MadeInv, Made
<1>1. /\ TypeOK /\ proc[p] \in ProcState /\ proc \in [Proc -> ProcState]
      /\ InHand(p)
  BY DEF RunInv, TypeOK, ProcState
<1>2. /\ Alive(p) /\ UNCHANGED task
      /\ \A q \in Proc \ {p} : proc'[q] = proc[q]
  BY MainShape
<1>3. \/ states'[POINTER_ATTEMPT] = states[POINTER_ATTEMPT]
      \/ proc[p].at = "point" /\ states'[POINTER_ATTEMPT] = StateOf(p)
  <2>1. Publishes(p)
    BY MainPublishes
  <2>2. Numbered(p) => proc[p].attempt # POINTER_ATTEMPT
    BY TileRunAssumption DEF RunInv, Order, HasAttempt, POINTER_ATTEMPT, Proc
  <2> QED
    BY <2>1, <2>2 DEF Publishes, Key
<1>4. CASE UploadQa(p) \/ UploadLst(p)
  <2>1. proc[p].at # "point"
    BY <1>4 DEF UploadQa, UploadLst
  <2> QED
    BY <1>2, <1>3, <1>4, <2>1, UploadMade, MadeMain
<1>5. CASE UNCHANGED cogs
  <2>1. CogsThere' <=> CogsThere
    BY <1>5 DEF CogsThere
  <2>2. LstIsLast' /\ OffsetsBelong' /\ (~Forced => CogsMatch')
    BY <1>5, <2>1 DEF LstIsLast, OffsetsBelong, CogsMatch
  <2>3. CASE ReadOffsets(p)
    <3>1. proc[p].at # "point"
      BY <2>3 DEF ReadOffsets
    <3> QED
      BY <1>2, <1>3, <2>1, <2>2, <2>3, <3>1, ReadMade, MadeMain
  <2>4. CASE UNCHANGED offsets
    <3>1. CacheBelongs'
      BY <2>4 DEF CacheBelongs
    <3>2. states'[POINTER_ATTEMPT] = states[POINTER_ATTEMPT] \/ PointerIsAVerdict'
      BY <1>1, <1>3, <2>1 DEF PointerIsAVerdict, StateOf, InHand
    <3>3. InHand(p)'
      <4> USE DEF InHand, Working, GoTo, ProcState
      <4>1. CASE Number(p) \/ CheckRaises(p)
        BY <1>1, <2>1, <4>1 DEF Number, CheckRaises
      <4>2. CASE CheckCogs(p)
        BY <1>1, <1>5, <2>1, <4>2, BothThere, NoneAssumption DEF CheckCogs, TERMINAL_PHASES, LstIsLast
      <4>3. CASE EnterHeartbeat(p)
        BY <1>1, <1>5, <2>1, <4>3 DEF EnterHeartbeat
      <4>4. CASE ResolveItems(p)
        BY <1>1, <1>5, <2>1, <4>4 DEF ResolveItems
      <4>5. CASE FailsTransiently(p)
        BY <1>1, <1>5, <2>1, <4>5 DEF FailsTransiently
      <4>6. CASE FailsForGood(p)
        BY <1>1, <1>5, <2>1, <4>6, NoneAssumption DEF FailsForGood, Settle
      <4>7. CASE LeaveHeartbeat(p)
        BY <1>1, <1>5, <2>1, <4>7 DEF LeaveHeartbeat, LastPhase, AfterLastBeat, TERMINAL_PHASES
      <4>8. CASE WritePointer(p) \/ UploadLog(p)
        BY <1>1, <1>5, <2>1, <4>8 DEF WritePointer, UploadLog
      <4>9. ~ReadOffsets(p) \/ InHand(p)'
        BY ReadMade
      <4>10. UploadQa(p) \/ UploadLst(p) => InHand(p)'
        BY UploadMade
      <4> QED
        BY <4>1, <4>2, <4>3, <4>4, <4>5, <4>6, <4>7, <4>8, <4>9, <4>10 DEF MainThread
    <3> QED
      BY <1>2, <2>1, <2>2, <3>1, <3>2, <3>3, MadeMain
  <2> QED
    BY <1>4, <2>3, <2>4
       DEF MainThread, Number, CheckCogs, CheckRaises, EnterHeartbeat, ResolveItems,
           FailsTransiently, FailsForGood, LeaveHeartbeat, WritePointer, UploadLog
<1> QED
  BY <1>4, <1>5
     DEF MainThread, Number, CheckCogs, CheckRaises, EnterHeartbeat, ResolveItems, ReadOffsets,
         FailsTransiently, FailsForGood, LeaveHeartbeat, WritePointer, UploadLog

LEMMA NextMade == MadeInv /\ [Next]_vars => MadeInv'
<1> SUFFICES ASSUME MadeInv, [Next]_vars PROVE Made'
  BY NextOrder DEF MadeInv
<1>0. TypeOK /\ RunInv
  BY DEF MadeInv, RunInv
<1>1. CASE SubmitBatch
  <2>1. /\ UNCHANGED <<proc, cogs, offsets, states>> /\ task'.state # "done"
    BY <1>0, <1>1 DEF SubmitBatch, TypeOK
  <2> QED
    BY <2>1, MadeKept
<1>2. CASE StartTask
  <2>1. UNCHANGED <<cogs, offsets, states>> /\ task'.state = "running"
    BY <1>0, <1>2 DEF StartTask, TypeOK
  <2>2. \A q \in Proc : \/ proc'[q] = proc[q]
                        \/ proc'[q].at = "number" /\ proc'[q].status = proc[q].status
    BY <1>0, <1>2 DEF StartTask, TypeOK
  <2> QED
    BY <2>1, <2>2, MadeKept
<1>3. ASSUME NEW p \in Proc, MainThread(p), ~Exit(p) PROVE Made'
  BY <1>3, MainMade
<1>4. ASSUME NEW p \in Proc, Exit(p) \/ Preempt(p) PROVE Made'
  <2>1. /\ UNCHANGED <<cogs, offsets, states>>
        /\ Killed(p)
    BY <1>4 DEF Exit, Preempt
  <2>2. \A q \in Proc : \/ proc'[q] = proc[q]
                        \/ proc'[q].at = "gone" /\ proc'[q].status = None
    BY <1>0, <2>1 DEF Killed, NoProc, TypeOK
  <2>3. task'.state = "done" => CogsThere
    <3>1. Retried.state # "done"
      BY <1>0 DEF Retried, TypeOK
    <3>2. CASE Exit(p) /\ Succeeded(p)
      BY <3>2 DEF Succeeded, MadeInv, Made, InHand
    <3>3. CASE task' = Retried
      BY <3>1, <3>3
    <3> QED
      BY <1>4, <3>2, <3>3 DEF Exit, Preempt
  <2> QED
    BY <2>1, <2>2, <2>3, MadeKept
<1>5. ASSUME NEW p \in Proc, TakeBeat(p) \/ StoreBeat(p) PROVE Made'
  <2>1. UNCHANGED <<task, proc, cogs, offsets>>
    BY <1>5 DEF TakeBeat, StoreBeat
  <2>2. states'[POINTER_ATTEMPT] = states[POINTER_ATTEMPT]
    <3>1. CASE StoreBeat(p)
      <4>1. proc[p].attempt \in 1 .. p /\ states' \in Stored(proc[p].attempt, beat[p])
        BY <1>0, <3>1 DEF StoreBeat, RunInv, Order, BeatsOwn, HasAttempt
      <4>2. proc[p].attempt # POINTER_ATTEMPT
        BY <4>1, TileRunAssumption DEF POINTER_ATTEMPT, Proc
      <4> QED
        BY <1>0, <4>1, <4>2 DEF Stored, Written, TypeOK, Key
    <3> QED
      BY <1>5, <3>1 DEF TakeBeat
  <2> QED
    BY <2>1, <2>2, MadeKept
<1>6. CASE WatchList \/ WatchRead \/ UNCHANGED vars
  <2>1. UNCHANGED <<task, proc, cogs, offsets, states>>
    BY <1>6 DEF WatchList, WatchRead, vars, run
  <2> QED
    BY <2>1, MadeKept
<1> QED
  BY <1>1, <1>2, <1>3, <1>4, <1>5, <1>6 DEF Next, RunStep

\* A raster is corrected with the offsets of its own scenes, whatever answers of
\* the catalog earlier processes cached (OffsetCache.read).
THEOREM RastersOwnOffsets == Spec => []OffsetsBelong
<1>1. MadeInv => OffsetsBelong
  BY DEF MadeInv, Made
<1> QED
  BY <1>1, InitMade, NextMade, PTL DEF Spec

\* A run that is not forced leaves no tile whose two rasters come from different
\* processes, though nothing locks or commits the pair (_write_cogs, cog_exists).
THEOREM RastersMatch == ~Forced => (Spec => []CogsMatch)
<1> SUFFICES ASSUME ~Forced PROVE Spec => []CogsMatch
  OBVIOUS
<1>1. MadeInv => CogsMatch
  BY DEF MadeInv, Made
<1> QED
  BY <1>1, InitMade, NextMade, PTL DEF Spec

\* A task that Coiled counts as done has both rasters in the bucket
\* (_process_distributed, JobResult.succeeded).
THEOREM DoneTasksHaveCogs == Spec => []DoneMeansCogs
<1>1. MadeInv => DoneMeansCogs
  BY DEF MadeInv, Made
<1> QED
  BY <1>1, InitMade, NextMade, PTL DEF Spec

\* The pointer is a final state, and one that says the tile is there is right,
\* whatever the heartbeat thread stores late and whichever writes are lost
\* (TileHeartbeat.__exit__, write_pointer).
THEOREM PointersAreVerdicts == Spec => []PointerIsAVerdict
<1>1. MadeInv => PointerIsAVerdict
  BY DEF MadeInv, Made
<1> QED
  BY <1>1, InitMade, NextMade, PTL DEF Spec

-----------------------------------------------------------------------------
(* Evidence.                                                               *)

\* What is stored under the attempt of a process that is running is its own.
Own(p) ==
    Numbered(p) => /\ states[proc[p].attempt] # None => states[proc[p].attempt].by = p
                   /\ logs[proc[p].attempt] \in {0, p}

OwnInv == RunInv /\ \A p \in Proc : Own(p)

\* Nothing of an attempt is taken over by another process.
Kept ==
    /\ \A a \in Attempt : states[a] # None => states'[a].by = states[a].by
    /\ \A a \in Attempt : logs[a] # 0 => logs'[a] = logs[a]

\* A step in which p alone writes, to its own attempt.
LEMMA OwnWrites ==
    ASSUME OwnInv, NEW p \in Proc, Alive(p), Publishes(p),
           \A q \in Proc \ {p} : proc'[q] = proc[q],
           \A a \in Attempt : \/ logs'[a] = logs[a]
                              \/ Numbered(p) /\ a = proc[p].attempt /\ logs'[a] = p,
           \/ Numbered(p) /\ Numbered(p)' /\ proc'[p].attempt = proc[p].attempt
           \/ Numbered(p)' /\ Own(p)'
    PROVE  Kept /\ \A q \in Proc : Own(q)'
<1> USE DEF OwnInv
<1>1. Numbered(p) => proc[p].attempt \in Attempt /\ Own(p)
  BY TileRunAssumption DEF RunInv, Order, HasAttempt, Attempt, Proc
<1>2. \A a \in Attempt :
         \/ states'[a] = states[a]
         \/ Numbered(p) /\ a = proc[p].attempt /\ states'[a].by = p
  BY TileRunAssumption DEF Publishes, Key, POINTER_ATTEMPT, Attempt, Proc
<1>3. Kept
  BY <1>1, <1>2 DEF Kept, Own
<1>4. Own(p)'
  BY <1>1, <1>2 DEF Own
<1>5. ASSUME NEW q \in Proc \ {p} PROVE Own(q)'
  BY DEF RunInv, Order, OneProcess, Own, Numbered, Alive
<1> QED
  BY <1>3, <1>4, <1>5

\* A step that writes no artifact and numbers no process.
LEMMA OwnKept ==
    ASSUME OwnInv, UNCHANGED <<states, logs>>,
           \A q \in Proc : proc'[q] = proc[q] \/ proc'[q].at \in {"number", "gone"}
    PROVE  Kept /\ \A q \in Proc : Own(q)'
<1>1. Kept
  BY DEF Kept
<1>2. ASSUME NEW q \in Proc PROVE Own(q)'
  BY DEF OwnInv, Own, Numbered
<1> QED
  BY <1>1, <1>2

LEMMA StepOwn ==
    ASSUME ~ListingFails, OwnInv, [Next]_vars
    PROVE  Kept /\ \A q \in Proc : Own(q)'
<1>0. TypeOK /\ RunInv
  BY DEF OwnInv, RunInv
<1>1. ASSUME NEW p \in Proc, MainThread(p), ~Exit(p)
      PROVE  Kept /\ \A q \in Proc : Own(q)'
  <2>1. Own(p)' \/ ~Number(p)
    <3> SUFFICES ASSUME Number(p) PROVE Own(p)'
      OBVIOUS
    <3>1. proc'[p].attempt = HighestAttempt + 1 /\ UNCHANGED <<states, logs>>
      BY <1>0 DEF Number, ResolveAttempt, TypeOK
    <3>2. HighestAttempt + 1 \in Attempt
      BY <1>0, FreshAttempt, TileRunAssumption DEF Number, ResolveAttempt, Attempt, Proc
    <3>3. states[HighestAttempt + 1] = None /\ logs[HighestAttempt + 1] = 0
      BY <1>0, <3>2, FreshAttempt DEF Number, Attempt, Proc
    <3> QED
      BY <3>1, <3>3 DEF Own
  <2> QED
    BY <1>0, <1>1, <2>1, MainShape, MainPublishes, MainWrites, OwnWrites
<1>2. ASSUME NEW p \in Proc, StoreBeat(p) PROVE Kept /\ \A q \in Proc : Own(q)'
  <2>1. Numbered(p) /\ UNCHANGED <<proc, logs>> /\ Alive(p)
    BY <1>0, <1>2 DEF RunInv, Order, BeatsOwn, StoreBeat
  <2>2. Numbered(p)' /\ proc'[p].attempt = proc[p].attempt
    BY <2>1 DEF Numbered
  <2> QED
    BY <1>0, <1>2, <2>1, <2>2, BeatPublishes, OwnWrites
<1>3. ASSUME NEW p \in Proc, Exit(p) \/ Preempt(p) PROVE Kept /\ \A q \in Proc : Own(q)'
  <2>1. UNCHANGED <<states, logs>> /\ Killed(p)
    BY <1>3 DEF Exit, Preempt
  <2>2. \A q \in Proc : proc'[q] = proc[q] \/ proc'[q].at = "gone"
    BY <1>0, <2>1 DEF Killed, NoProc, TypeOK
  <2> QED
    BY <2>1, <2>2, OwnKept
<1>4. CASE StartTask
  <2>1. \A q \in Proc : proc'[q] = proc[q] \/ proc'[q].at = "number"
    BY <1>0, <1>4 DEF StartTask, TypeOK
  <2> QED
    BY <1>4, <2>1, OwnKept DEF StartTask
<1>5. CASE UNCHANGED <<proc, states, logs>>
  BY <1>5, OwnKept
<1> QED
  BY <1>1, <1>2, <1>3, <1>4, <1>5
     DEF Next, RunStep, SubmitBatch, TakeBeat, WatchList, WatchRead, vars, run

\* With a listing that answers, what one process left of an attempt is never
\* written over by another: a retry numbers itself past every artifact of those
\* before it (resolve_attempt).
THEOREM EvidenceSurvives == ~ListingFails => (Spec => EvidenceIsKept)
<1> SUFFICES ASSUME ~ListingFails PROVE Spec => EvidenceIsKept
  OBVIOUS
<1>1. Init => OwnInv
  <2>1. Init => \A p \in Proc : Own(p)
    BY DEF Init, Own, Numbered, NoProc
  <2> QED
    BY <2>1, InitOrder DEF OwnInv
<1>2. OwnInv /\ [Next]_vars => OwnInv'
  <2>1. OwnInv => RunInv
    BY DEF OwnInv
  <2>2. OwnInv /\ [Next]_vars => \A q \in Proc : Own(q)'
    BY StepOwn
  <2> QED
    BY <2>1, <2>2, NextOrder DEF OwnInv
<1>3. OwnInv /\ [Next]_vars => [Kept]_vars
  BY StepOwn
<1> QED
  BY <1>1, <1>2, <1>3, PTL DEF Spec, EvidenceIsKept, Kept

-----------------------------------------------------------------------------
(* Readers.                                                                *)

\* A body the watcher shows without reading it again is what the bucket holds,
\* wherever the writes of the run fall between its listing and its read, unless
\* the object was written again within the second of the time it is held under
\* (RunWatcher._refresh, _read_progress).
THEOREM WatcherIsOfItsSecond == Spec => []CachedIsOfItsSecond
<1> DEFINE Inv == RunInv /\ CachedIsOfItsSecond
<1>1. Init => Inv
  <2>1. Init => CachedIsOfItsSecond
    BY DEF Init, Unwatched, CachedIsOfItsSecond
  <2> QED
    BY <2>1, InitOrder
<1>2. Inv /\ [Next]_vars => Inv'
  <2> SUFFICES ASSUME Inv, [Next]_vars PROVE CachedIsOfItsSecond'
    BY NextOrder
  <2>0. TypeOK /\ ListsKey
    BY DEF RunInv, Order
  <2>1. CASE Rewritten
    <3>1. CASE ~Replaced(watcher.key) /\ UNCHANGED watcher
      BY <2>0, <3>1 DEF Replaced, ListsKey, CachedIsOfItsSecond
    <3>2. CASE watcher' = [watcher EXCEPT !.held = None, !.blurred = FALSE, !.whole = FALSE]
      BY <2>0, <3>2 DEF TypeOK, CachedIsOfItsSecond
    <3>3. CASE watcher' = [watcher EXCEPT !.blurred = @ \/ watcher.held # None]
      BY <2>0, <3>3 DEF TypeOK, CachedIsOfItsSecond
    <3> QED
      BY <2>1, <3>1, <3>2, <3>3 DEF Rewritten
  <2>2. CASE WatchRead
    BY <2>0, <2>2 DEF WatchRead, Shows, Unwatched, CachedIsOfItsSecond, run
  <2>3. CASE WatchList
    BY <2>0, <2>3 DEF WatchList, Shows, Unwatched, CachedIsOfItsSecond, run
  <2>4. CASE UNCHANGED vars
    BY <2>4 DEF vars, run, CachedIsOfItsSecond
  <2> QED
    BY <2>1, <2>2, <2>3, <2>4 DEF Next
<1> QED
  BY <1>1, <1>2, PTL DEF Spec

\* A later reconciliation never takes back a completed tile nor drops an attempt
\* an earlier one listed (_resolve_tile, reconcile_run).
THEOREM ManifestsGrow == Spec => ManifestOnlyGrows
<1> DEFINE Grows == task.state # "none" =>
              /\ Manifest.status # "failed" => Manifest'.status = Manifest.status
              /\ Manifest.attempts \subseteq Manifest'.attempts
<1>1. MadeInv /\ [Next]_vars => [Grows]_vars
  <2> SUFFICES ASSUME MadeInv, RunInv', [Next]_vars, task.state # "none" PROVE Grows
    BY NextOrder DEF MadeInv
  <2>0. TypeOK /\ RunInv
    BY DEF MadeInv, RunInv
  <2>1. CogsThere => CogsThere'
    <3>1. ASSUME NEW p \in Proc, UploadQa(p) \/ UploadLst(p) PROVE CogsThere => CogsThere'
      BY <3>1, UploadMade
    <3>2. CASE UNCHANGED cogs
      BY <3>2 DEF CogsThere
    <3> QED
      BY <3>1, <3>2 DEF Next, RunStep, SubmitBatch, StartTask, MainThread, Number, CheckCogs,
         CheckRaises, EnterHeartbeat, ResolveItems, ReadOffsets, FailsTransiently, FailsForGood,
         LeaveHeartbeat, WritePointer, UploadLog, Exit, TakeBeat, StoreBeat, Preempt,
         WatchList, WatchRead, vars, run
  <2>2. StatesLeft \subseteq StatesLeft'
    <3>1. ASSUME NEW p \in Proc, Publishes(p) PROVE StatesLeft \subseteq StatesLeft'
      <4>1. \A a \in Attempt : a \in Key /\ a # POINTER_ATTEMPT
        BY TileRunAssumption DEF Key, POINTER_ATTEMPT, Attempt, Proc
      <4> QED
        BY <3>1, <4>1, NoneAssumption DEF Publishes, StatesLeft
    <3>2. CASE UNCHANGED states
      BY <3>2 DEF StatesLeft
    <3> QED
      BY <2>0, <3>1, <3>2, MainPublishes, BeatPublishes
         DEF Next, RunStep, SubmitBatch, StartTask, TakeBeat, Preempt,
             WatchList, WatchRead, vars, run
  <2>3. task'.state = "filtered" <=> task.state = "filtered"
    <3>1. ASSUME NEW p \in Proc, Exit(p) \/ Preempt(p)
          PROVE  task.state # "filtered" /\ task'.state # "filtered"
      <4>1. task.state = "running"
        BY <2>0, <3>1, TileRunAssumption
           DEF RunInv, Order, OneProcess, Exit, Preempt, Alive, Proc
      <4>2. Retried.state # "filtered" /\ [task EXCEPT !.state = "done", !.runs = 0].state = "done"
        BY <2>0 DEF Retried, TypeOK
      <4> QED
        BY <3>1, <4>1, <4>2 DEF Exit, Preempt
    <3>2. CASE StartTask
      BY <2>0, <3>2 DEF StartTask, TypeOK
    <3>3. CASE UNCHANGED task
      BY <3>3
    <3> QED
      BY <3>1, <3>2, <3>3, ZenonT(30) DEF Next, RunStep, SubmitBatch, MainThread, Number, CheckCogs,
         CheckRaises, EnterHeartbeat, ResolveItems, ReadOffsets, UploadQa, UploadLst,
         FailsTransiently, FailsForGood, LeaveHeartbeat, WritePointer, UploadLog, TakeBeat,
         StoreBeat, WatchList, WatchRead, vars, run
  <2> QED
    BY <2>1, <2>2, <2>3 DEF Manifest, Verdict
<1> QED
  BY <1>1, InitMade, NextMade, PTL DEF Spec, ManifestOnlyGrows

=============================================================================
