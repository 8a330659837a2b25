------------------------------ MODULE TileRun ------------------------------
(***************************************************************************)
(* One tile of a batch run: the submission, the task Coiled retries, the   *)
(* processes that run it (job, progress, runs, pipeline), and the three    *)
(* readers of what they publish (watch, reconcile and a later submission). *)
(*                                                                         *)
(* A process has two threads.  The main thread walks `at'; the heartbeat   *)
(* thread takes the state of the tile under the lock and stores it some    *)
(* time later, so what it stores may be older than what the main thread    *)
(* stored in between.  Rasters are abstracted to the process and the scene *)
(* set they were made from.                                                *)
(***************************************************************************)
EXTENDS Naturals, FiniteSets, FiniteSetsExt

CONSTANTS
    Retries,        \* settings.coiled_retries
    SceneSet,       \* what the live catalog may answer
    None,
    Forced,         \* process --force
    Caching,        \* not --no-offset-cache
    BucketFails,    \* a read or a write of the bucket may fail, or be slow
    ListingFails,   \* so may the listing an attempt is numbered from
    Watching        \* somebody runs watch

ASSUME TileRunAssumption ==
    /\ Retries \in Nat
    /\ SceneSet # {} /\ None \notin SceneSet
    /\ {Forced, Caching, BucketFails, ListingFails, Watching} \subseteq BOOLEAN

\* Processes are numbered in the order Coiled starts them; 0 is an earlier run.
Proc == 1 .. Retries + 1
Product == {"qa_count", "lst_p95"}

\* The key of a cached record is a digest of the scenes it was computed from, so
\* there is one for every answer of the catalog.
OffsetKey == SceneSet

\* Keys of the run prefix that hold a state: attempts, and the pointer at 0.
POINTER_ATTEMPT == 0
Attempt == Proc
Key == {POINTER_ATTEMPT} \cup Attempt

TERMINAL_PHASES == {"done", "failed", "skipped"}
\* The query, the destriping, the export and the upload are told apart by nobody.
Phase == {"starting", "working"} \cup TERMINAL_PHASES
Status == {"completed", "skipped", "failed", None}

\* A published state, and a raster with what it was made from.
Body == [by : Proc, phase : Phase, status : Status]
Cog == [by : {0} \cup Proc, scenes : SceneSet, offsets : SceneSet]

\* The absent value is none of the values it stands in for.
ASSUME NoneAssumption == None \notin Body \cup Cog \cup {"completed", "skipped", "failed"}

Place == {"off", "number", "check", "enter", "query", "cache", "qa",
           "lst", "leave", "point", "log", "exit", "gone"}

VARIABLES
    task,       \* Coiled's task: state, the process it runs, retries left
    proc,       \* process -> its main thread
    beat,       \* process -> the state its heartbeat thread is about to store
    cogs,       \* product -> the raster in the bucket
    offsets,    \* scene set of the key -> scene set of the cached record
    states,     \* key -> published state
    logs,       \* attempt -> the process whose log is stored there, or 0
    watcher     \* the watch command: place, the key it listed last and what the
                \* listing still says, the body it holds, and whether that was
                \* replaced within the second of its modification time

run == <<task, proc, beat, cogs, offsets, states, logs>>
vars == <<run, watcher>>

NoProc == [at |-> "off", attempt |-> 0, phase |-> "starting", status |-> None,
           raised |-> FALSE, scenes |-> None, est |-> None]

\* Scene sets are alike, so one stands for what an earlier run may have used.
EarlierScenes == {CHOOSE s \in SceneSet : TRUE}

Unwatched == [at |-> "idle", key |-> None, whole |-> FALSE, settled |-> FALSE,
              held |-> None, blurred |-> FALSE]

Init ==
    /\ task = [state |-> "none", runs |-> 0, left |-> Retries]
    /\ proc = [p \in Proc |-> NoProc]
    /\ beat = [p \in Proc |-> None]
    /\ \E have \in {{}, {"qa_count"}, Product}, s \in EarlierScenes :
           cogs = [d \in Product |->
                      IF d \in have THEN [by |-> 0, scenes |-> s, offsets |-> s] ELSE None]
    /\ offsets = [s \in OffsetKey |-> None]
    /\ states = [k \in Key |-> None]
    /\ logs = [a \in Attempt |-> 0]
    /\ watcher = Unwatched

\* cog_exists, list_completed: both assets are stored.
CogsThere == \A d \in Product : cogs[d] # None

\* A process that is running.  Coiled starts another one only once it is gone.
Alive(p) == proc[p].at \notin {"off", "gone"}
Last == Max({0} \cup {p \in Proc : proc[p].at # "off"})

----------------------------------------------------------------------------
(* The submission and Coiled.                                              *)

\* _split_completed: the listing of the COGs answers for the whole submission.
Filtered == CogsThere /\ ~Forced

\* submit_batch: a completed tile is filtered out before the array is created.
\* The record of the submission follows the array; a shell that dies between the
\* two leaves a run that nobody can watch, and changes nothing else.
SubmitBatch ==
    /\ task.state = "none"
    /\ task' = [task EXCEPT !.state = IF Filtered THEN "filtered" ELSE "queued"]
    /\ UNCHANGED <<proc, beat, cogs, offsets, states, logs>>

StartTask ==
    /\ task.state = "queued"
    /\ task' = [task EXCEPT !.state = "running", !.runs = Last + 1]
    /\ proc' = [proc EXCEPT ![Last + 1].at = "number"]
    /\ UNCHANGED <<beat, cogs, offsets, states, logs>>

\* The task after the process it runs ended badly.
RetriedOnceMore ==
    [task EXCEPT !.state = "queued", !.runs = 0, !.left = @ - 1]
Retried ==
    IF task.left > 0
    THEN [task EXCEPT !.state = "queued", !.runs = 0, !.left = @ - 1]
    ELSE [task EXCEPT !.state = "error", !.runs = 0]

\* Both threads go with the machine.
Killed(p) ==
    /\ proc' = [proc EXCEPT ![p] = [NoProc EXCEPT !.at = "gone"]]
    /\ beat' = [beat EXCEPT ![p] = None]

\* The machine goes, and both threads with it.
Preempt(p) ==
    /\ task.runs = p
    /\ task' = Retried
    /\ Killed(p)
    /\ UNCHANGED <<cogs, offsets, states, logs>>

\* The task's exit code is that of the CLI: zero unless the tile failed.
ExitsQuietly(p) == ~proc[p].raised
Succeeded(p) == ~proc[p].raised /\ proc[p].status \in {"completed", "skipped"}

Exit(p) ==
    /\ proc[p].at = "exit"
    /\ Killed(p)
    /\ task' = IF Succeeded(p) THEN [task EXCEPT !.state = "done", !.runs = 0]
               ELSE Retried
    /\ UNCHANGED <<cogs, offsets, states, logs>>

----------------------------------------------------------------------------
(* What a process publishes.  Every write under the run prefix is best     *)
(* effort: it happens, or is logged and dropped.                           *)

StateOf(p) == [by |-> p, phase |-> proc[p].phase, status |-> proc[p].status]

\* write_text replaces the object as a whole, so no reader sees half of one.
Written(k, body) == [states EXCEPT ![k] = body]

Stored(k, body) ==
    {Written(k, body)} \cup (IF BucketFails THEN {states} ELSE {})

\* set_phase, set_failed: move to a phase and publish it at once.
Publish(p, phase, status) ==
    states' \in Stored(proc[p].attempt, [by |-> p, phase |-> phase, status |-> status])

\* The main thread moves on to a place, in a phase.
GoTo(p, place, phase) ==
    proc' = [proc EXCEPT ![p].at = place, ![p].phase = phase]

\* classify: what one listing of the run prefix says of the tile.
StatesLeft == {a \in Attempt : states[a] # None}
LogsLeft == {a \in Attempt : logs[a] # 0}
Settled == states[POINTER_ATTEMPT] # None

\* TileArtifacts.highest_attempt: of artifacts of any kind, a log included.
HighestState == Max({0} \cup StatesLeft)
HighestAttempt == Max({0} \cup StatesLeft \cup LogsLeft)

\* resolve_attempt: a listing that fails gives 1.
ResolveAttempt == {HighestAttempt + 1} \cup (IF ListingFails THEN {1} ELSE {})

Number(p) ==
    /\ proc[p].at = "number"
    /\ \E a \in ResolveAttempt :
           proc' = [proc EXCEPT ![p].at = "check", ![p].attempt = a]
    /\ UNCHANGED <<task, beat, cogs, offsets, states, logs>>

\* write_final_state: one state object and then the pointer, with no heartbeat.
WriteFinalState(p) == Publish(p, "skipped", "skipped")

\* The idempotent check: a tile that is there is skipped, and says so.
CheckCogs(p) ==
    /\ proc[p].at = "check"
    /\ IF CogsThere /\ ~Forced
       THEN /\ WriteFinalState(p)
            /\ proc' = [proc EXCEPT ![p].at = "point", ![p].phase = "skipped",
                                    ![p].status = "skipped"]
       ELSE GoTo(p, "enter", "starting") /\ UNCHANGED states
    /\ UNCHANGED <<task, beat, cogs, offsets, logs>>

\* A HEAD request that fails escapes the job before there is a heartbeat.
CheckRaises(p) ==
    /\ BucketFails /\ proc[p].at = "check"
    /\ proc' = [proc EXCEPT ![p].at = "log", ![p].raised = TRUE]
    /\ UNCHANGED <<task, beat, cogs, offsets, states, logs>>

EnterHeartbeat(p) ==
    /\ proc[p].at = "enter"
    /\ Publish(p, "starting", None)
    /\ GoTo(p, "query", "starting")
    /\ UNCHANGED <<task, beat, cogs, offsets, logs>>

----------------------------------------------------------------------------
(* process_tile and _write_cogs.                                           *)

ResolveItems(p) ==
    /\ proc[p].at = "query"
    /\ Publish(p, "working", None)
    /\ \E s \in SceneSet :
           proc' = [proc EXCEPT ![p].at = "cache", ![p].phase = "working", ![p].scenes = s]
    /\ UNCHANGED <<task, beat, cogs, offsets, logs>>

\* The record under a key lists the times of the scenes in hand, to the
\* nanosecond or one to one to the second.
NamesTheAxis(key, scenes) == offsets[key] = scenes

\* OffsetCache.read: a record of another axis is a miss.
CachedForTheTile(p) == Caching /\ \E s \in OffsetKey : offsets[s] # None
CacheHits(p) == Caching /\ NamesTheAxis(proc[p].scenes, proc[p].scenes)

\* OffsetCache.write: nothing without the cache, and never an error.
RecordsKept(own) ==
    (IF Caching THEN {[offsets EXCEPT ![own] = own]} ELSE {offsets})
        \cup (IF BucketFails THEN {offsets} ELSE {})

\* A hit is used; otherwise the tile estimates its own, and goes on whether or
\* not they can be stored.
ReadOffsets(p) ==
    LET own == proc[p].scenes IN
    /\ proc[p].at = "cache"
    /\ Publish(p, "working", None)
    /\ \/ /\ CacheHits(p)
          /\ \E s \in {offsets[t] : t \in OffsetKey} \ {None} :
                 /\ offsets[own] # None => s = offsets[own]
                 /\ proc' = [proc EXCEPT ![p].at = "qa", ![p].phase = "working", ![p].est = s]
          /\ UNCHANGED offsets
       \/ /\ ~CacheHits(p) \/ BucketFails
          /\ proc' = [proc EXCEPT ![p].at = "qa", ![p].phase = "working", ![p].est = own]
          /\ offsets' \in RecordsKept(own)
    /\ UNCHANGED <<task, beat, cogs, logs>>

\* The rasters in the bucket once p has uploaded product d.
UploadedIfAbsent(p, d) ==
    IF cogs[d] # None THEN cogs
    ELSE [cogs EXCEPT ![d] = [by |-> p, scenes |-> proc[p].scenes, offsets |-> proc[p].est]]
Uploaded(p, d) ==
    [cogs EXCEPT ![d] = [by |-> p, scenes |-> proc[p].scenes, offsets |-> proc[p].est]]

\* The composite is computed as it is exported; both products, then QA goes up.
UploadQa(p) ==
    /\ proc[p].at = "qa"
    /\ Publish(p, "working", None)
    /\ cogs' = Uploaded(p, "qa_count")
    /\ GoTo(p, "lst", "working")
    /\ UNCHANGED <<task, beat, offsets, logs>>

\* set_result: the outcome the terminal state will carry.
Settle(p, phase, status) ==
    proc' = [proc EXCEPT ![p] = [@ EXCEPT !.at = "leave", !.phase = phase, !.status = status,
                                          !.scenes = None, !.est = None]]

UploadLst(p) ==
    /\ proc[p].at = "lst"
    /\ cogs' = Uploaded(p, "lst_p95")
    /\ Settle(p, "working", "completed")
    /\ UNCHANGED <<task, beat, offsets, states, logs>>

Working == {"query", "cache", "qa", "lst"}

\* A transient failure escapes, so that Coiled retries the task.
FailsTransiently(p) ==
    /\ proc[p].at \in Working
    /\ proc' = [proc EXCEPT ![p].at = "leave", ![p].raised = TRUE,
                            ![p].scenes = None, ![p].est = None]
    /\ UNCHANGED <<task, beat, cogs, offsets, states, logs>>

\* Any other is reported at once and returned as a failed result.
FailsForGood(p) ==
    /\ proc[p].at \in Working
    /\ Publish(p, "failed", None)
    /\ Settle(p, "failed", "failed")
    /\ UNCHANGED <<task, beat, cogs, offsets, logs>>

----------------------------------------------------------------------------
(* The end of a process.                                                   *)

\* The thread is joined for one interval, then left to its write.
JoinedForGood(p) == beat[p] = None
Joined(p) == beat[p] = None \/ BucketFails

\* The last phase of a process, and what __exit__ does after publishing it: the
\* pointer waits for an attempt that no exception ended.
LastPhase(p) ==
    IF proc[p].phase \in TERMINAL_PHASES THEN proc[p].phase
    ELSE IF proc[p].raised THEN "failed" ELSE "done"
AlwaysPoints(p) == "point"
AfterLastBeat(p) == IF proc[p].raised THEN "log" ELSE "point"

LeaveHeartbeat(p) ==
    /\ proc[p].at = "leave"
    /\ Joined(p)
    /\ Publish(p, LastPhase(p), proc[p].status)
    /\ GoTo(p, AfterLastBeat(p), LastPhase(p))
    /\ UNCHANGED <<task, beat, cogs, offsets, logs>>

WritePointer(p) ==
    /\ proc[p].at = "point"
    /\ states' \in Stored(POINTER_ATTEMPT, StateOf(p))
    /\ GoTo(p, "log", proc[p].phase)
    /\ UNCHANGED <<task, beat, cogs, offsets, logs>>

UploadLog(p) ==
    /\ proc[p].at = "log"
    /\ logs' \in {[logs EXCEPT ![proc[p].attempt] = p]} \cup (IF BucketFails THEN {logs} ELSE {})
    /\ GoTo(p, "exit", proc[p].phase)
    /\ UNCHANGED <<task, beat, cogs, offsets, states>>

----------------------------------------------------------------------------
(* The heartbeat thread: payload() under the lock, write_text after it.    *)

TakeBeat(p) ==
    /\ proc[p].at \in Working \cup {"leave"}
    /\ beat[p] = None
    /\ beat' = [beat EXCEPT ![p] = StateOf(p)]
    /\ UNCHANGED <<task, proc, cogs, offsets, states, logs>>

StoreBeat(p) ==
    /\ Alive(p) /\ beat[p] # None
    /\ states' \in Stored(proc[p].attempt, beat[p])
    /\ beat' = [beat EXCEPT ![p] = None]
    /\ UNCHANGED <<task, proc, cogs, offsets, logs>>

MainThread(p) ==
    \/ Number(p) \/ CheckCogs(p) \/ CheckRaises(p) \/ EnterHeartbeat(p)
    \/ ResolveItems(p) \/ ReadOffsets(p)
    \/ UploadQa(p) \/ UploadLst(p) \/ FailsTransiently(p) \/ FailsForGood(p)
    \/ LeaveHeartbeat(p) \/ WritePointer(p) \/ UploadLog(p) \/ Exit(p)

RunStep ==
    \/ SubmitBatch \/ StartTask
    \/ \E p \in Proc : \/ MainThread(p) \/ TakeBeat(p) \/ StoreBeat(p)
                       \/ Preempt(p)

----------------------------------------------------------------------------
(* Readers.  The bucket tells when an object was written to the second: a  *)
(* body the watcher holds is used until that time changes, and a body read *)
(* after the listing is kept under the time the listing gave.              *)

\* A bug: once read, a body is kept whatever the listing says.
OnceReadIsKept(k) == FALSE

Replaced(k) == k # None /\ states'[k] # states[k]

\* A write gives an object a new time unless it falls in the second of the one
\* before it.  What is held under an older time is not used again.
Rewritten ==
    \/ ~Replaced(watcher.key) /\ UNCHANGED watcher
    \/ /\ Replaced(watcher.key)
       /\ watcher' = [watcher EXCEPT !.held = None, !.blurred = FALSE, !.whole = FALSE]
    \/ /\ Replaced(watcher.key)
       /\ watcher' = [watcher EXCEPT !.blurred = @ \/ watcher.held # None]

\* TileArtifacts.body_key: the newest attempt, else the pointer, else nothing.
\* A key that was listed before is not listed again after another one.
BodyKey == IF HighestState > 0 THEN HighestState
           ELSE IF Settled THEN POINTER_ATTEMPT ELSE None

\* _category, with the age of the object left open.
RowOf(phase, settled) ==
    IF phase = "failed" THEN {"failed"}
    ELSE IF phase \in TERMINAL_PHASES \/ settled THEN {"done"}
    ELSE {"running", "stale"}

\* RunSnapshot.finished: nothing that was submitted is pending or running.
Finished(row) == row \in {"done", "failed"}

\* One poll comes to its end; watch_run goes on until a snapshot is finished,
\* and its cache ends with it.
Shows(body, settled, kept) ==
    \E row \in RowOf(body.phase, settled) :
        watcher' = IF Finished(row) THEN [Unwatched EXCEPT !.at = "returned"] ELSE kept

\* _is_new: no body is held under the time the listing gives.
IsNew(k) == watcher.key # k \/ watcher.held = None

\* One listing gives the key and whether the pointer is there, and ends the poll
\* when nothing is new; a run that has no artifact yet is pending.
WatchList ==
    /\ Watching /\ task.state \notin {"none", "filtered"} /\ watcher.at = "idle"
    /\ BodyKey # None
    /\ IF IsNew(BodyKey)
       THEN watcher' = [Unwatched EXCEPT !.at = "listed", !.key = BodyKey,
                                         !.whole = TRUE, !.settled = Settled]
       ELSE Shows(watcher.held, Settled, watcher)
    /\ UNCHANGED run

\* _read_progress: the body is that of the moment it is read.
WatchRead ==
    LET body == states[watcher.key] IN
    /\ watcher.at = "listed"
    /\ Shows(body, watcher.settled,
             IF watcher.whole
             THEN [Unwatched EXCEPT !.key = watcher.key, !.held = body]
             ELSE Unwatched)
    /\ UNCHANGED run

\* _tile_evidence: the newest attempt's state is the record of the tile.
Record == IF StatesLeft # {} THEN states[HighestState] ELSE states[POINTER_ATTEMPT]

\* _resolve_tile: the listing of COGs decides, whatever the newest record says.
VerdictOfRecord ==
    IF Record # None /\ Record.status = "completed"
    THEN "completed" ELSE "failed"
Verdict == IF CogsThere THEN "completed" ELSE "failed"

\* reconcile_run at any moment after the submission.  It writes only its
\* manifest: the outcome of the tile and a row for every attempt.
Manifest == [status |-> IF task.state = "filtered" THEN "skipped" ELSE Verdict,
             attempts |-> StatesLeft]

Next ==
    \/ RunStep /\ Rewritten
    \/ WatchList \/ WatchRead

Spec == Init /\ [][Next]_vars

----------------------------------------------------------------------------
TypeOK ==
    /\ task \in [state : {"none", "filtered", "queued", "running", "done", "error"},
                 runs : {0} \cup Proc, left : 0 .. Retries]
    /\ proc \in [Proc -> [at : Place, attempt : {0} \cup Attempt, phase : Phase,
                          status : Status, raised : BOOLEAN,
                          scenes : SceneSet \cup {None}, est : SceneSet \cup {None}]]
    /\ beat \in [Proc -> Body \cup {None}]
    /\ cogs \in [Product -> Cog \cup {None}]
    /\ offsets \in [OffsetKey -> SceneSet \cup {None}]
    /\ states \in [Key -> Body \cup {None}]
    /\ logs \in [Attempt -> {0} \cup Proc]
    /\ watcher \in [at : {"idle", "listed", "returned"}, key : Key \cup {None},
                    whole : BOOLEAN, settled : BOOLEAN, held : Body \cup {None},
                    blurred : BOOLEAN]

\* The two COGs of a tile that counts as completed were written by one process,
\* so the offsets and the scenes of both are the same: there is no lock and no
\* commit, only the order of two uploads and a check for both
\* (_write_cogs, cog_exists).  Without --force.
CogsMatch == CogsThere => \A d, e \in Product : cogs[d].by = cogs[e].by

\* A raster is corrected with the offsets of its own scenes, whatever processes
\* with other answers of the catalog left in the cache (OffsetCache.read).
OffsetsBelong == \A d \in Product : cogs[d] # None => cogs[d].offsets = cogs[d].scenes

\* A task Coiled counts as done has both COGs in the bucket (_process_distributed,
\* JobResult.succeeded).
DoneMeansCogs == task.state = "done" => CogsThere

\* The pointer is a verdict of a process that came to its end: its state is
\* final, and when it says the tile is there it is (__exit__, write_pointer).
PointerIsAVerdict ==
    LET pointer == states[POINTER_ATTEMPT] IN
    pointer # None =>
        /\ pointer.phase \in TERMINAL_PHASES /\ pointer.status # None
        /\ pointer.status \in {"completed", "skipped"} => CogsThere

\* A body the watcher shows without reading it again is what the bucket holds,
\* however writes fall between its listing and its read, unless the object was
\* written again within the second of the time it is held under
\* (RunWatcher._refresh).
CachedIsOfItsSecond ==
    watcher.held # None => watcher.held = states[watcher.key] \/ watcher.blurred

\* What the watcher holds are "the bodies that did not change" (RunWatcher).  The
\* code does not keep this: README.md, findings.
CachedIsCurrent == watcher.held \in {None, states[watcher.key]}

\* What a process left of an attempt is never written over by another one: a
\* retry numbers itself after every artifact of those before it (resolve_attempt).
EvidenceIsKept ==
    [][/\ \A a \in Attempt : states[a] # None => states'[a].by = states[a].by
       /\ \A a \in Attempt : logs[a] # 0 => logs'[a] = logs[a]]_vars

\* A later reconciliation never takes back a completed tile nor drops an attempt
\* an earlier one listed, though the records of the attempts disagree or are lost
\* (_resolve_tile, reconcile_run).
ManifestOnlyGrows ==
    [][task.state # "none" =>
          /\ Manifest.status # "failed" => Manifest'.status = Manifest.status
          /\ Manifest.attempts \subseteq Manifest'.attempts]_vars

\* The process a task runs can always take its next step towards its exit, and a
\* task whose process is gone is queued or over, though the heartbeat thread may
\* hang in a write for ever (TileHeartbeat.__exit__, coiled_retries).
NothingIsStuck ==
    /\ task.state = "queued" => ENABLED StartTask
    /\ task.state = "running" => ENABLED MainThread(task.runs)
============================================================================
