------------------------- MODULE DownloadOrchestrator -------------------------
(***************************************************************************)
(* The download tasks of one model: the table behind the C API, the calls  *)
(* that start, await, cancel and clean up tasks, and the detached worker   *)
(* of each, which fetches the files of the plan one after another or in    *)
(* parallel lanes                                                          *)
(* (src/core/src/infrastructure/download/download_orchestrator.cpp, and    *)
(* download_and_wait_for_model of                                          *)
(* src/core/src/core/model_lifecycle_download.cpp).                        *)
(*                                                                         *)
(* A transfer keeps the promise of FileTransfer: here it is one step that  *)
(* opens the sidecar and one that ends it.  One step of a caller or of a   *)
(* worker is one critical section of the table's or of the task's mutex,   *)
(* or one piece of work between two of them.                               *)
(***************************************************************************)
EXTENDS Naturals, Sequences, SequencesExt, FiniteSets

CONSTANTS
  Tasks,           \* identities of proto_download_task; bounds the starts
  Plan,            \* task->files, in order
  Beginnings,      \* the plan's archives, what an earlier process left, the registry
  MaxParallel,     \* kMaxParallelFiles
  Starters,        \* callers that start a download
  Cancellers,      \* callers that cancel and clean up
  NoTask

Callers == Starters \cup Cancellers
Files == ToSet(Plan)
First == Head(Plan)

ASSUME DownloadAssumptions ==
  /\ IsFiniteSet(Tasks) /\ NoTask \notin Tasks
  /\ Plan \in Seq(Files) /\ Plan # <<>> /\ IsInjective(Plan)
  /\ Beginnings \subseteq [archives : SUBSET Files, partial : BOOLEAN, whole : SUBSET Files,
                       registry : {"none", "stale"}]
  /\ MaxParallel \in Nat \ {0}

VARIABLES
  archives,     \* the files that are extracted once they are there
  part, final,  \* per file: a sidecar with bytes; the destination
  unpacked,     \* archives extracted into the model folder
  registry,     \* the model's entry names the files, does not yet, or there is none to
                \* update: the client wants none, or the registry refuses
  tasks,        \* proto_state().tasks
  state, running, cancelRequested, deletePartial,    \* of a task
  resumed,      \* the worker was given a resume offset
  worker,       \* where run_proto_download_worker is
  lane,         \* per task and file: where the fetching of the file is
  outcome,      \* saw_failure and terminal_cancelled
  abort,        \* abort_requested
  pc, mine      \* of a caller: where in its call, and the call's task

diskVars == <<archives, part, final, unpacked, registry>>
taskVars == <<tasks, state, running, cancelRequested, deletePartial, resumed>>
workerVars == <<worker, lane, outcome, abort>>
callerVars == <<pc, mine>>
vars == <<diskVars, taskVars, workerVars, callerVars>>

Active == {"PENDING", "RESUMING", "DOWNLOADING", "EXTRACTING"}
Terminal == {"COMPLETED", "FAILED", "CANCELLED"}
Fresh == {t \in Tasks : state[t] = "NONE"}

(* An earlier process may have left files, and a partial of the first.     *)
DownloadInit ==
  /\ \E b \in Beginnings :
       /\ archives = b.archives
       /\ part = [f \in Files |-> b.partial /\ f = First]
       /\ final = [f \in Files |-> IF f \in b.whole THEN "whole" ELSE "none"]
       /\ registry = b.registry
  /\ unpacked = {}
  /\ tasks = {}
  /\ state = [t \in Tasks |-> "NONE"]
  /\ running = [t \in Tasks |-> FALSE]
  /\ cancelRequested = [t \in Tasks |-> FALSE]
  /\ deletePartial = [t \in Tasks |-> FALSE]
  /\ resumed = [t \in Tasks |-> FALSE]
  /\ worker = [t \in Tasks |-> "none"]
  /\ lane = [t \in Tasks |-> [f \in Files |-> "todo"]]
  /\ outcome = [t \in Tasks |-> "none"]
  /\ abort = [t \in Tasks |-> FALSE]
  /\ pc = [c \in Callers |-> "idle"]
  /\ mine = [c \in Callers |-> NoTask]

-----------------------------------------------------------------------------
(* Starting.  A poll, and with it the auto-download that polls until the   *)
(* task is over, reads a task's state and changes nothing.                 *)
ReturnFrom(c) ==
  /\ pc' = [pc EXCEPT ![c] = "idle"]
  /\ mine' = [mine EXCEPT ![c] = NoTask]

InFlight == {t \in tasks : state[t] \in Active}

(* None is in flight for the model: the table's mutex is released.  One    *)
(* that is in flight is handed to the second caller.                       *)
FindNone(c) ==
  /\ pc[c] = "idle"
  /\ InFlight = {} /\ Fresh # {}
  /\ pc' = [pc EXCEPT ![c] = "admit"]
  /\ UNCHANGED <<diskVars, taskVars, workerVars, mine>>

(* The resume offset is what the first file's sidecar holds.               *)
Admit(c, t) ==
  /\ pc[c] = "admit" /\ t \in Fresh
  /\ tasks' = tasks \cup {t}
  /\ running' = [running EXCEPT ![t] = TRUE]
  /\ resumed' = [resumed EXCEPT ![t] = part[First]]
  /\ state' = [state EXCEPT ![t] = IF part[First] THEN "RESUMING" ELSE "PENDING"]
  /\ pc' = [pc EXCEPT ![c] = "launch"]
  /\ mine' = [mine EXCEPT ![c] = t]
  /\ UNCHANGED <<diskVars, cancelRequested, deletePartial, workerVars>>

Launch(c) ==
  /\ pc[c] = "launch"
  /\ worker' = [worker EXCEPT ![mine[c]] = "run"]
  /\ ReturnFrom(c)
  /\ UNCHANGED <<diskVars, taskVars, lane, outcome, abort>>

-----------------------------------------------------------------------------
(* Cancelling and cleaning up.                                             *)
Finished(t) == ~running[t] /\ state[t] = "COMPLETED"

(* A completed task that has stopped is left as it is.  The wait for a     *)
(* worker, two seconds at the most, changes nothing.                       *)
Cancel(c, t, delete) ==
  /\ pc[c] = "idle"
  /\ t \in tasks /\ ~Finished(t)
  /\ cancelRequested' = [cancelRequested EXCEPT ![t] = TRUE]
  /\ deletePartial' = [deletePartial EXCEPT ![t] = delete]
  /\ IF running[t] THEN UNCHANGED callerVars
     ELSE /\ pc' = [pc EXCEPT ![c] = IF delete THEN "delete" ELSE "mark"]
          /\ mine' = [mine EXCEPT ![c] = t]
  /\ UNCHANGED <<diskVars, tasks, state, running, resumed, workerVars>>

(* A task without a worker: its first file's partial is deleted, which a   *)
(* newer task may be streaming into.                                       *)
DeletePartial(c) ==
  /\ pc[c] = "delete"
  /\ part' = [part EXCEPT ![First] = FALSE]
  /\ pc' = [pc EXCEPT ![c] = "mark"]
  /\ UNCHANGED <<archives, final, unpacked, registry, taskVars, workerVars, mine>>

MarkCancelled(c) ==
  /\ pc[c] = "mark"
  /\ state' = [state EXCEPT ![mine[c]] = "CANCELLED"]
  /\ ReturnFrom(c)
  /\ UNCHANGED <<diskVars, tasks, running, cancelRequested, deletePartial, resumed, workerVars>>

(* Deviation: a task counts as over once its last state is published.      *)
OverWhenPublished(t) == state[t] \in Terminal

Over(t) == ~running[t] /\ state[t] \in Terminal

CleanUp(c) ==
  /\ pc[c] = "idle"
  /\ \E t \in tasks : Over(t)
  /\ tasks' = {t \in tasks : ~Over(t)}
  /\ UNCHANGED <<diskVars, state, running, cancelRequested, deletePartial, resumed,
                 workerVars, callerVars>>

-----------------------------------------------------------------------------
(* The worker: its lanes.                                                  *)
Parallel(t) == Len(Plan) > 1 /\ ~resumed[t] /\ archives = {}

Idle == {"todo", "ok", "out"}
Busy(t) == {f \in Files : lane[t][f] \notin Idle}
Before == [f \in Files |-> {Plan[i] : i \in {j \in 1..Len(Plan) : f \in ToSet(SubSeq(Plan, j + 1, Len(Plan)))}}]

(* The lanes take the files in order, one at a time in the sequential      *)
(* worker, and look at the flags first.                                    *)
MayTake(t, f) ==
  /\ worker[t] = "run" /\ lane[t][f] = "todo"
  /\ ~cancelRequested[t] /\ ~abort[t]
  /\ IF Parallel(t)
     THEN Cardinality(Busy(t)) < MaxParallel /\ \A g \in Before[f] : lane[t][g] # "todo"
     ELSE outcome[t] = "none" /\ \A g \in Before[f] : lane[t][g] = "ok"

MoveLane(t, f, to) == lane' = [lane EXCEPT ![t][f] = to]

(* The destination has the expected size already.                          *)
SkipFetch(t, f) ==
  /\ MayTake(t, f) /\ final[f] = "whole"
  /\ MoveLane(t, f, IF f \in archives THEN "landed" ELSE "ok")
  /\ UNCHANGED <<diskVars, taskVars, worker, outcome, abort, callerVars>>

(* Deviation: the others are told before the lane has reported.            *)
ReportLate(t, f, what) ==
  IF ~abort[t]
  THEN abort' = [abort EXCEPT ![t] = TRUE] /\ UNCHANGED <<outcome, lane>>
  ELSE /\ outcome' = [outcome EXCEPT ![t] = IF @ = "none" THEN what ELSE @]
       /\ MoveLane(t, f, "out")
       /\ UNCHANGED abort

(* The first lane to report decides; only then are the others told.        *)
Report(t, f, what) ==
  /\ outcome' = [outcome EXCEPT ![t] = IF @ = "none" THEN what ELSE @]
  /\ MoveLane(t, f, IF outcome[t] = "none" THEN "raise" ELSE "out")
  /\ UNCHANGED abort

OutOfSpace(t, f) ==
  /\ MayTake(t, f) /\ final[f] # "whole"
  /\ Report(t, f, "failed")
  /\ UNCHANGED <<diskVars, taskVars, worker, callerVars>>

Fetch(t, f) ==
  /\ MayTake(t, f) /\ final[f] # "whole"
  /\ MoveLane(t, f, "fetch")
  /\ part' = [part EXCEPT ![f] = TRUE]
  /\ UNCHANGED <<archives, final, unpacked, registry, taskVars, worker, outcome, abort,
                 callerVars>>

(* A chunk has arrived, and the progress callback does not stop it.        *)
Progress(t, f) ==
  /\ lane[t][f] = "fetch"
  /\ ~cancelRequested[t] /\ ~abort[t]
  /\ state' = [state EXCEPT ![t] = "DOWNLOADING"]
  /\ UNCHANGED <<diskVars, tasks, running, cancelRequested, deletePartial, resumed, workerVars,
                 callerVars>>

(* The response may be shorter than the plan says.                         *)
FetchLands(t, f) ==
  /\ lane[t][f] = "fetch" /\ part[f]
  /\ \E size \in {"short", "whole"} : final' = [final EXCEPT ![f] = size]
  /\ part' = [part EXCEPT ![f] = FALSE]
  /\ MoveLane(t, f, "fetched")
  /\ UNCHANGED <<archives, unpacked, registry, taskVars, worker, outcome, abort, callerVars>>

(* The attempts leave what they have of the sidecar.                       *)
FetchFails(t, f) ==
  /\ lane[t][f] = "fetch"
  /\ MoveLane(t, f, "failed")
  /\ UNCHANGED <<diskVars, taskVars, worker, outcome, abort, callerVars>>

FetchStops(t, f) ==
  /\ lane[t][f] = "fetch"
  /\ cancelRequested[t] \/ abort[t]
  /\ MoveLane(t, f, "stopped")
  /\ UNCHANGED <<diskVars, taskVars, worker, outcome, abort, callerVars>>

WasStopped(t, f) ==
  lane[t][f] = "stopped" \/ (lane[t][f] \in {"fetched", "failed"} /\ cancelRequested[t])

(* However the transfer ended, a request to cancel counts.                 *)
JudgeStopped(t, f) ==
  /\ WasStopped(t, f)
  /\ part' = [part EXCEPT ![f] = @ /\ ~deletePartial[t]]
  /\ Report(t, f, "cancelled")
  /\ UNCHANGED <<archives, final, unpacked, registry, taskVars, worker, callerVars>>

JudgeFailed(t, f) ==
  /\ lane[t][f] = "failed" /\ ~WasStopped(t, f)
  /\ Report(t, f, "failed")
  /\ UNCHANGED <<diskVars, taskVars, worker, callerVars>>

JudgeFetched(t, f) ==
  /\ lane[t][f] = "fetched" /\ ~WasStopped(t, f)
  /\ MoveLane(t, f, IF f \in archives THEN "landed" ELSE "ok")
  /\ UNCHANGED <<diskVars, taskVars, worker, outcome, abort, callerVars>>

RaiseAbort(t, f) ==
  /\ lane[t][f] = "raise"
  /\ abort' = [abort EXCEPT ![t] = TRUE]
  /\ MoveLane(t, f, "out")
  /\ UNCHANGED <<diskVars, taskVars, worker, outcome, callerVars>>

(* The archive is extracted into the model folder itself: what an earlier  *)
(* task has left there is written over, and no longer whole.               *)
BeginExtract(t, f) ==
  /\ lane[t][f] = "landed"
  /\ state' = [state EXCEPT ![t] = "EXTRACTING"]
  /\ unpacked' \in {unpacked, unpacked \ {f}}
  /\ MoveLane(t, f, "extract")
  /\ UNCHANGED <<archives, part, final, registry, tasks, running, cancelRequested, deletePartial,
                 resumed, worker, outcome, abort, callerVars>>

(* Extraction looks at no flag; either way the archive is deleted.         *)
EndExtract(t, f) ==
  /\ lane[t][f] = "extract"
  /\ final' = [final EXCEPT ![f] = "none"]
  /\ \/ /\ final[f] = "whole"
        /\ unpacked' = unpacked \cup {f}
        /\ MoveLane(t, f, "ok")
        /\ UNCHANGED <<outcome, abort>>
     \/ /\ Report(t, f, "failed")
        /\ UNCHANGED unpacked
  /\ UNCHANGED <<archives, part, registry, taskVars, worker, callerVars>>

-----------------------------------------------------------------------------
(* The worker: its verdict.                                                *)
(* Deviation: the worker goes on as soon as one lane has reported.         *)
JoinedEarly(t) ==
  /\ worker[t] = "run"
  /\ outcome[t] # "none" \/ \A f \in Files : lane[t][f] = "ok"

Joined(t) ==
  /\ worker[t] = "run" /\ Busy(t) = {}
  /\ outcome[t] # "none" \/ cancelRequested[t] \/ \A f \in Files : lane[t][f] = "ok"

Publish(t, s) ==
  /\ state' = [state EXCEPT ![t] = s]
  /\ worker' = [worker EXCEPT ![t] = "stop"]
  /\ UNCHANGED <<diskVars, tasks, running, cancelRequested, deletePartial, resumed,
                 lane, outcome, abort, callerVars>>

(* The size guard skips the files that were extracted.                     *)
SizesPass == \A f \in Files \ archives : final[f] = "whole"

(* Deviation: a cancel between two files ends the worker without a word.   *)
EndCancelledUnpublished(t) ==
  /\ Joined(t) /\ outcome[t] = "cancelled"
  /\ Publish(t, "CANCELLED")

EndCancelled(t) ==
  /\ Joined(t)
  /\ outcome[t] = "cancelled" \/ (outcome[t] = "none" /\ cancelRequested[t])
  /\ Publish(t, "CANCELLED")

EndFailed(t) ==
  /\ Joined(t)
  /\ outcome[t] = "failed" \/ (outcome[t] = "none" /\ ~cancelRequested[t] /\ ~SizesPass)
  /\ Publish(t, "FAILED")

Validate(t) ==
  /\ Joined(t)
  /\ outcome[t] = "none" /\ ~cancelRequested[t] /\ SizesPass
  /\ worker' = [worker EXCEPT ![t] = "relink"]
  /\ UNCHANGED <<diskVars, taskVars, lane, outcome, abort, callerVars>>

(* The registry learns of the files before COMPLETED is published; that    *)
(* it may not take them in is logged, and COMPLETED comes all the same.    *)
Relink(t) ==
  /\ worker[t] = "relink"
  /\ registry' = IF registry = "none" THEN "none" ELSE "linked"
  /\ worker' = [worker EXCEPT ![t] = "complete"]
  /\ UNCHANGED <<archives, part, final, unpacked, taskVars, lane, outcome, abort, callerVars>>

EndCompleted(t) ==
  /\ worker[t] = "complete"
  /\ Publish(t, "COMPLETED")

(* mark_task_stopped: whoever waits to drain the task is woken.            *)
Stop(t) ==
  /\ worker[t] = "stop"
  /\ running' = [running EXCEPT ![t] = FALSE]
  /\ worker' = [worker EXCEPT ![t] = "done"]
  /\ lane' = [lane EXCEPT ![t] = [f \in Files |-> "todo"]]
  /\ outcome' = [outcome EXCEPT ![t] = "none"]
  /\ abort' = [abort EXCEPT ![t] = FALSE]
  /\ resumed' = [resumed EXCEPT ![t] = FALSE]
  /\ UNCHANGED <<diskVars, tasks, state, cancelRequested, deletePartial, callerVars>>

-----------------------------------------------------------------------------
LaneStep(t, f) ==
  \/ SkipFetch(t, f) \/ OutOfSpace(t, f) \/ Fetch(t, f)
  \/ FetchLands(t, f) \/ FetchFails(t, f) \/ FetchStops(t, f)
  \/ JudgeStopped(t, f) \/ JudgeFailed(t, f) \/ JudgeFetched(t, f) \/ RaiseAbort(t, f)
  \/ BeginExtract(t, f) \/ EndExtract(t, f)

VerdictStep(t) ==
  \/ EndCancelled(t) \/ EndFailed(t) \/ Validate(t) \/ Relink(t) \/ EndCompleted(t) \/ Stop(t)

WorkerStep(t) == VerdictStep(t) \/ \E f \in Files : LaneStep(t, f)

StartStep(c) == FindNone(c) \/ Launch(c) \/ \E t \in Tasks : Admit(c, t)

CancelStep(c) ==
  \/ DeletePartial(c) \/ MarkCancelled(c) \/ CleanUp(c)
  \/ \E t \in Tasks, delete \in BOOLEAN : Cancel(c, t, delete)

DownloadNext ==
  \/ \E t \in Tasks : WorkerStep(t) \/ \E f \in Files : Progress(t, f)
  \/ \E c \in Starters : StartStep(c)
  \/ \E c \in Cancellers : CancelStep(c)

DownloadSpec == DownloadInit /\ [][DownloadNext]_vars

(* Workers and starters run on; a transfer ends, by its last byte, an      *)
(* error or the flags its progress callback sees.                          *)
FairDownloadSpec ==
  /\ DownloadSpec
  /\ WF_vars(\E t \in Tasks : WorkerStep(t))
  /\ WF_vars(\E c \in Starters : Launch(c))

-----------------------------------------------------------------------------
(* Properties.                                                             *)

(* The variables keep to their types, and a task that runs can be found    *)
(* in the table, to be polled and cancelled.                               *)
DownloadTypeOK ==
  /\ archives \subseteq Files /\ unpacked \subseteq archives
  /\ part \in [Files -> BOOLEAN]
  /\ final \in [Files -> {"none", "short", "whole"}]
  /\ registry \in {"none", "stale", "linked"}
  /\ tasks \subseteq Tasks
  /\ state \in [Tasks -> Active \cup Terminal \cup {"NONE"}]
  /\ running \in [Tasks -> BOOLEAN] /\ resumed \in [Tasks -> BOOLEAN]
  /\ cancelRequested \in [Tasks -> BOOLEAN] /\ deletePartial \in [Tasks -> BOOLEAN]
  /\ worker \in [Tasks -> {"none", "run", "relink", "complete", "stop", "done"}]
  /\ lane \in [Tasks -> [Files -> Idle \cup {"fetch", "fetched", "failed", "stopped",
                                             "landed", "extract", "raise"}]]
  /\ outcome \in [Tasks -> {"none", "cancelled", "failed"}]
  /\ abort \in [Tasks -> BOOLEAN]
  /\ pc \in [Callers -> {"idle", "admit", "launch", "delete", "mark"}]
  /\ mine \in [Callers -> Tasks \cup {NoTask}]
  /\ \A t \in Tasks : running[t] => t \in tasks

Writers(f) == {t \in Tasks : lane[t][f] \in {"fetch", "landed", "extract"}}

(* A second start of a model in flight coalesces: however starts, cancels  *)
(* that time out, late cancels and clean-ups of one client meet, two       *)
(* workers never write the same file (download_orchestrator.cpp:3399-3407).*)
OneWriterPerFile == \A f \in Files : Cardinality(Writers(f)) <= 1

(* The client's view of a task.                                            *)
Shown(t) ==
  CASE state[t] = "NONE" -> "none"
    [] state[t] = "COMPLETED" -> "completed"
    [] state[t] = "FAILED" -> "failed"
    [] state[t] = "CANCELLED" -> "cancelled"
    [] OTHER -> "active"

Promise == INSTANCE DownloadPromise WITH
  shown <- [t \in Tasks |-> Shown(t)],
  asked <- {t \in Tasks : cancelRequested[t]},
  packed <- archives # {},
  loadable <- registry # "stale" /\ SizesPass /\ archives \subseteq unpacked

(* The orchestrator implements DownloadPromise: COMPLETED comes when the   *)
(* files are in place and the registry, if it has an entry to update,      *)
(* names them (download_orchestrator.cpp:1951-1955); from then on nothing  *)
(* takes them away but a later extraction into the same folder; CANCELLED  *)
(* follows a request although lanes that are told to give up report        *)
(* themselves cancelled, and an ended task stays ended although callers    *)
(* and the worker write its state.                                         *)
KeepsPromise == Promise!Spec

(* Every worker comes to its end, so that a caller that drains, awaits or  *)
(* cleans up the task can: no lane waits for another, and a cancel between *)
(* two files is not forgotten.                                             *)
TaskStops == \A t \in Tasks : running[t] ~> ~running[t]
===============================================================================
