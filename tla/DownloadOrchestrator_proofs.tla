--------------------- MODULE DownloadOrchestrator_proofs ---------------------
(***************************************************************************)
(* For every plan and any number of tasks and cancelling callers: a task   *)
(* that runs can be found; and, as long as one client starts downloads,    *)
(* two workers never write one file and the orchestrator implements        *)
(* DownloadPromise.  The one client is needed: the check for a task in     *)
(* flight and the entry in the table are two critical sections.            *)
(***************************************************************************)
EXTENDS DownloadOrchestrator, FiniteSetTheorems, TLAPS

OneStarter == \A c, d \in Starters : c = d

Working == {"run", "relink", "complete"}

(* Only the archives are extracted.                                        *)
ArchiveLanes ==
  \A t \in Tasks, f \in Files : lane[t][f] \in {"landed", "extract"} => f \in archives

(* A lane that is told to give up was told by a cancel or by another lane. *)
(* What a task has unpacked is whole while it works: a later task may      *)
(* write over it.                                                          *)
LaneOK(t, f) ==
  /\ lane[t][f] \notin Idle => worker[t] = "run"
  /\ lane[t][f] # "todo" => worker[t] # "none"
  /\ lane[t][f] = "ok" /\ f \in archives /\ worker[t] \in Working => f \in unpacked
  /\ lane[t][f] = "fetch" /\ f \notin archives => final[f] # "whole"
  /\ lane[t][f] = "stopped" => cancelRequested[t] \/ abort[t]
  /\ lane[t][f] = "raise" => outcome[t] # "none"

OutcomeOK(t) ==
  /\ abort[t] => outcome[t] # "none"
  /\ outcome[t] = "cancelled" => cancelRequested[t]

TaskOK(t) ==
  /\ t \in tasks => state[t] # "NONE"
  /\ worker[t] \in Working => running[t] /\ state[t] \in Active
  /\ worker[t] = "stop" => running[t] /\ state[t] \in Terminal
  /\ ~running[t] => state[t] \in Terminal \cup {"NONE"}
  /\ worker[t] \in {"relink", "complete"} => SizesPass /\ archives \subseteq unpacked
  /\ worker[t] = "complete" => registry # "stale"

CallerOK(c) ==
  /\ pc[c] = "admit" => c \in Starters /\ InFlight = {}
  /\ pc[c] = "launch" => /\ c \in Starters /\ mine[c] \in Tasks
                         /\ running[mine[c]] /\ state[mine[c]] \in Active
  /\ pc[c] \in {"delete", "mark"} =>
       /\ mine[c] \in Tasks /\ ~running[mine[c]] /\ cancelRequested[mine[c]]
       /\ state[mine[c]] \in {"FAILED", "CANCELLED"}

OneActive == \A t, u \in tasks : state[t] \in Active /\ state[u] \in Active => t = u

LanesOK == \A t \in Tasks, f \in Files : LaneOK(t, f)
OutcomesOK == \A t \in Tasks : OutcomeOK(t)
TasksOK == \A t \in Tasks : TaskOK(t)
CallersOK == \A c \in Callers : CallerOK(c)

(* A task between its admission and its launch has no worker yet.          *)
LaunchPending == \A c \in Callers : pc[c] = "launch" => worker[mine[c]] = "none"

(* A task without a worker to come keeps none.                             *)
FreshUnworked == \A t \in Tasks : state[t] = "NONE" => worker[t] = "none"

BaseInv == DownloadTypeOK /\ ArchiveLanes

DownloadInv ==
  /\ BaseInv /\ LanesOK /\ OutcomesOK /\ TasksOK /\ CallersOK /\ OneActive
  /\ LaunchPending /\ FreshUnworked

-----------------------------------------------------------------------------
LEMMA FirstFile ==
  First \in Files /\ Plan \in Seq(Files)
<1>1. Plan \in Seq(Files) /\ Plan # <<>>
  BY DownloadAssumptions
<1>2. QED
  BY <1>1 DEF First

LEMMA LaneMoved ==
  ASSUME DownloadTypeOK, NEW t \in Tasks, NEW f \in Files, NEW to, MoveLane(t, f, to)
  PROVE  \A u \in Tasks, g \in Files :
           lane'[u][g] = IF u = t /\ g = f THEN to ELSE lane[u][g]
BY DEF DownloadTypeOK, MoveLane

Stages == Idle \cup {"fetch", "fetched", "failed", "stopped", "landed", "extract", "raise"}

LEMMA LaneTyped ==
  ASSUME DownloadTypeOK, NEW t \in Tasks, NEW f \in Files, NEW to \in Stages, MoveLane(t, f, to)
  PROVE  lane' \in [Tasks -> [Files -> Stages]]
BY DEF DownloadTypeOK, MoveLane, Stages

(* A step of a lane, as far as types go.                                   *)
LEMMA LaneStepTyped ==
  ASSUME BaseInv, NEW t \in Tasks, NEW f \in Files, LaneStep(t, f)
  PROVE  DownloadTypeOK'
<1> USE DEF diskVars, taskVars, callerVars
<1>0. DownloadTypeOK
  BY DEF BaseInv
<1>1. ASSUME NEW what \in {"failed", "cancelled"}, Report(t, f, what)
      PROVE  /\ lane' \in [Tasks -> [Files -> Stages]]
             /\ outcome' \in [Tasks -> {"none", "cancelled", "failed"}]
             /\ abort' \in [Tasks -> BOOLEAN]
  <2>1. lane' \in [Tasks -> [Files -> Stages]]
    <3>1. CASE outcome[t] = "none"
      BY <1>0, <1>1, <3>1, LaneTyped DEF Report, Stages
    <3>2. CASE outcome[t] # "none"
      BY <1>0, <1>1, <3>2, LaneTyped DEF Report, Stages, Idle
    <3>3. QED
      BY <3>1, <3>2
  <2>2. QED
    BY <1>0, <1>1, <2>1 DEF Report, DownloadTypeOK
<1>2. CASE SkipFetch(t, f) \/ JudgeFetched(t, f)
  <2>1. lane' \in [Tasks -> [Files -> Stages]]
    BY <1>0, <1>2, LaneTyped DEF SkipFetch, JudgeFetched, Stages, Idle
  <2>2. QED
    BY <1>0, <1>2, <2>1 DEF SkipFetch, JudgeFetched, DownloadTypeOK, Stages
<1>3. CASE OutOfSpace(t, f) \/ JudgeFailed(t, f)
  <2>1. Report(t, f, "failed")
    BY <1>3 DEF OutOfSpace, JudgeFailed
  <2>2. QED
    BY <1>0, <1>1, <1>3, <2>1 DEF OutOfSpace, JudgeFailed, DownloadTypeOK, Stages
<1>4. CASE Fetch(t, f)
  <2>1. lane' \in [Tasks -> [Files -> Stages]]
    BY <1>0, <1>4, LaneTyped DEF Fetch, Stages
  <2>2. QED
    BY <1>0, <1>4, <2>1 DEF Fetch, DownloadTypeOK, Stages
<1>5. CASE FetchLands(t, f)
  <2>1. lane' \in [Tasks -> [Files -> Stages]]
    BY <1>0, <1>5, LaneTyped DEF FetchLands, Stages
  <2>2. QED
    BY <1>0, <1>5, <2>1 DEF FetchLands, DownloadTypeOK, Stages
<1>6. CASE FetchFails(t, f) \/ FetchStops(t, f)
  <2>1. lane' \in [Tasks -> [Files -> Stages]]
    BY <1>0, <1>6, LaneTyped DEF FetchFails, FetchStops, Stages
  <2>2. QED
    BY <1>0, <1>6, <2>1 DEF FetchFails, FetchStops, DownloadTypeOK, Stages
<1>7. CASE JudgeStopped(t, f)
  <2>1. Report(t, f, "cancelled") /\ part' \in [Files -> BOOLEAN]
    BY <1>0, <1>7 DEF JudgeStopped, DownloadTypeOK
  <2>2. QED
    BY <1>0, <1>1, <1>7, <2>1 DEF JudgeStopped, DownloadTypeOK, Stages
<1>8. CASE RaiseAbort(t, f)
  <2>1. lane' \in [Tasks -> [Files -> Stages]]
    BY <1>0, <1>8, LaneTyped DEF RaiseAbort, Stages, Idle
  <2>2. QED
    BY <1>0, <1>8, <2>1 DEF RaiseAbort, DownloadTypeOK, Stages
<1>9. CASE BeginExtract(t, f)
  <2>1. lane' \in [Tasks -> [Files -> Stages]]
    BY <1>0, <1>9, LaneTyped DEF BeginExtract, Stages
  <2>2. unpacked' \subseteq archives'
    BY <1>0, <1>9 DEF BeginExtract, DownloadTypeOK
  <2>3. QED
    BY <1>0, <1>9, <2>1, <2>2 DEF BeginExtract, DownloadTypeOK, Stages, Active
<1>10. CASE EndExtract(t, f)
  <2>1. final' \in [Files -> {"none", "short", "whole"}]
    BY <1>0, <1>10 DEF EndExtract, DownloadTypeOK
  <2>2. CASE MoveLane(t, f, "ok") /\ unpacked' = unpacked \cup {f} /\ UNCHANGED <<outcome, abort>>
    <3>1. lane' \in [Tasks -> [Files -> Stages]]
      BY <1>0, <2>2, LaneTyped DEF Stages, Idle
    <3>2. QED
      BY <1>0, <1>10, <2>1, <2>2, <3>1 DEF EndExtract, BaseInv, ArchiveLanes, DownloadTypeOK, Stages
  <2>3. CASE Report(t, f, "failed") /\ UNCHANGED unpacked
    BY <1>0, <1>10, <1>1, <2>1, <2>3 DEF EndExtract, DownloadTypeOK, Stages
  <2>4. QED
    BY <1>0, <1>10, <2>2, <2>3 DEF EndExtract
<1>11. QED
  BY <1>0, <1>2, <1>3, <1>4, <1>5, <1>6, <1>7, <1>8, <1>9, <1>10 DEF LaneStep

LEMMA LaneStepArchives ==
  ASSUME BaseInv, NEW t \in Tasks, NEW f \in Files, LaneStep(t, f)
  PROVE  ArchiveLanes'
<1> USE DEF diskVars
<1>0. DownloadTypeOK /\ ArchiveLanes
  BY DEF BaseInv
<1>1. archives' = archives
  BY DEF LaneStep, SkipFetch, OutOfSpace, Fetch, FetchLands, FetchFails, FetchStops,
     JudgeStopped, JudgeFailed, JudgeFetched, RaiseAbort, BeginExtract, EndExtract
<1>2. ASSUME NEW to, MoveLane(t, f, to), to \in {"landed", "extract"} => f \in archives
      PROVE  ArchiveLanes'
  BY <1>0, <1>1, <1>2, LaneMoved DEF ArchiveLanes
<1>3. ASSUME NEW what, Report(t, f, what)
      PROVE  ArchiveLanes'
  BY <1>2, <1>3 DEF Report
<1>4. CASE BeginExtract(t, f)
  BY <1>0, <1>2, <1>4 DEF BeginExtract, ArchiveLanes
<1>5. CASE SkipFetch(t, f) \/ JudgeFetched(t, f)
  BY <1>2, <1>5 DEF SkipFetch, JudgeFetched
<1>6. QED
  BY <1>2, <1>3, <1>4, <1>5 DEF LaneStep, OutOfSpace, Fetch, FetchLands, FetchFails,
     FetchStops, JudgeStopped, JudgeFailed, RaiseAbort, EndExtract

LEMMA BaseStep ==
  ASSUME BaseInv, [DownloadNext]_vars
  PROVE  BaseInv'
<1> USE DEF diskVars, taskVars, workerVars, callerVars, BaseInv
<1>1. CASE UNCHANGED vars
  BY <1>1 DEF vars, DownloadTypeOK, ArchiveLanes
<1>2. ASSUME NEW t \in Tasks, NEW f \in Files, LaneStep(t, f)
      PROVE  BaseInv'
  BY <1>2, LaneStepTyped, LaneStepArchives
<1>3. ASSUME NEW t \in Tasks, NEW f \in Files, Progress(t, f)
      PROVE  BaseInv'
  BY <1>3 DEF Progress, DownloadTypeOK, ArchiveLanes, Active
<1>4. ASSUME NEW t \in Tasks, EndCancelled(t) \/ EndFailed(t) \/ EndCompleted(t)
      PROVE  BaseInv'
  <2>1. PICK s \in Terminal : Publish(t, s)
    BY <1>4 DEF EndCancelled, EndFailed, EndCompleted, Terminal
  <2>2. state' \in [Tasks -> Active \cup Terminal \cup {"NONE"}]
    BY <2>1 DEF Publish, DownloadTypeOK
  <2>3. QED
    BY <2>1, <2>2 DEF Publish, DownloadTypeOK, ArchiveLanes
<1>5. ASSUME NEW t \in Tasks, Validate(t) \/ Relink(t)
      PROVE  BaseInv'
  <2>1. registry' \in {"none", "stale", "linked"}
    BY <1>5 DEF Validate, Relink, DownloadTypeOK
  <2>2. QED
    BY <1>5, <2>1 DEF Validate, Relink, DownloadTypeOK, ArchiveLanes
<1>6. ASSUME NEW t \in Tasks, Stop(t)
      PROVE  BaseInv'
  BY <1>6 DEF Stop, DownloadTypeOK, ArchiveLanes, Idle
<1>7. ASSUME NEW c \in Callers, FindNone(c)
      PROVE  BaseInv'
  BY <1>7 DEF FindNone, DownloadTypeOK, ArchiveLanes
<1>8. ASSUME NEW c \in Callers, NEW t \in Tasks, Admit(c, t)
      PROVE  BaseInv'
  <2>1. part[First] \in BOOLEAN
    BY FirstFile DEF DownloadTypeOK
  <2>2. QED
    BY <1>8, <2>1 DEF Admit, DownloadTypeOK, ArchiveLanes, Active
<1>9. ASSUME NEW c \in Callers, Launch(c)
      PROVE  BaseInv'
  BY <1>9 DEF Launch, ReturnFrom, DownloadTypeOK, ArchiveLanes
<1>10. ASSUME NEW c \in Callers, NEW t \in Tasks, NEW delete \in BOOLEAN, Cancel(c, t, delete)
       PROVE  BaseInv'
  BY <1>10 DEF Cancel, DownloadTypeOK, ArchiveLanes
<1>11. ASSUME NEW c \in Callers, DeletePartial(c)
       PROVE  BaseInv'
  BY <1>11 DEF DeletePartial, DownloadTypeOK, ArchiveLanes
<1>12. ASSUME NEW c \in Callers, MarkCancelled(c)
       PROVE  BaseInv'
  BY <1>12 DEF MarkCancelled, ReturnFrom, DownloadTypeOK, ArchiveLanes, Terminal
<1>13. ASSUME NEW c \in Callers, CleanUp(c)
       PROVE  BaseInv'
  BY <1>13 DEF CleanUp, Over, DownloadTypeOK, ArchiveLanes
<1>14. QED
  BY <1>1, <1>2, <1>3, <1>4, <1>5, <1>6, <1>7, <1>8, <1>9, <1>10, <1>11, <1>12, <1>13
     DEF DownloadNext, WorkerStep, VerdictStep, StartStep, CancelStep, Callers

LEMMA BaseInitially ==
  DownloadInit => BaseInv
<1> SUFFICES ASSUME DownloadInit PROVE BaseInv
  OBVIOUS
<1>1. PICK b \in Beginnings :
        /\ archives = b.archives
        /\ part = [f \in Files |-> b.partial /\ f = First]
        /\ final = [f \in Files |-> IF f \in b.whole THEN "whole" ELSE "none"]
        /\ registry = b.registry
  BY DEF DownloadInit
<1>2. /\ b.archives \subseteq Files /\ b.partial \in BOOLEAN
      /\ b.registry \in {"none", "stale"}
  BY DownloadAssumptions
<1>3. part \in [Files -> BOOLEAN] /\ final \in [Files -> {"none", "short", "whole"}]
  BY <1>1, <1>2
<1>4. QED
  BY <1>1, <1>2, <1>3 DEF DownloadInit, BaseInv, DownloadTypeOK, ArchiveLanes, Idle, Active, Terminal

LEMMA BaseInvariant ==
  DownloadSpec => []BaseInv
BY BaseInitially, BaseStep, PTL DEF DownloadSpec

(* The variables keep to their types, and a task that runs is in the table *)
(* where it can be polled and cancelled, with any number of clients        *)
(* (download_orchestrator.cpp:3588-3591, 3767-3795).                       *)
THEOREM DownloadTypeCorrect ==
  DownloadSpec => []DownloadTypeOK
BY BaseInvariant, PTL DEF BaseInv

-----------------------------------------------------------------------------
(* What any step of a lane leaves alone.                                   *)
LEMMA LaneFrame ==
  ASSUME BaseInv, LanesOK, NEW t \in Tasks, NEW f \in Files, LaneStep(t, f)
  PROVE  /\ worker[t] = "run" /\ lane[t][f] # "ok"
         /\ UNCHANGED <<archives, registry, tasks, running, cancelRequested, worker, pc, mine>>
         /\ state' = state \/ state' = [state EXCEPT ![t] = "EXTRACTING"]
         /\ \A g \in unpacked : g \in unpacked' \/ (g = f /\ lane[t][f] = "landed")
         /\ \A g \in Files \ archives : final'[g] = final[g] \/ (g = f /\ lane[t][f] = "fetch")
<1> USE DEF diskVars, taskVars, workerVars, callerVars
<1>0. DownloadTypeOK /\ LaneOK(t, f) /\ \A g \in Files : lane[t][g] \in {"landed", "extract"} => g \in archives
  BY DEF BaseInv, LanesOK, ArchiveLanes
<1>1. CASE SkipFetch(t, f) \/ OutOfSpace(t, f) \/ Fetch(t, f)
  BY <1>1 DEF SkipFetch, OutOfSpace, Fetch, MayTake
<1>2. CASE FetchLands(t, f)
  BY <1>0, <1>2 DEF FetchLands, LaneOK, Idle, DownloadTypeOK
<1>3. CASE FetchFails(t, f) \/ FetchStops(t, f)
  BY <1>0, <1>3 DEF FetchFails, FetchStops, LaneOK, Idle
<1>4. CASE JudgeStopped(t, f) \/ JudgeFailed(t, f) \/ JudgeFetched(t, f) \/ RaiseAbort(t, f)
  BY <1>0, <1>4 DEF JudgeStopped, JudgeFailed, JudgeFetched, RaiseAbort, WasStopped, LaneOK, Idle
<1>5. CASE BeginExtract(t, f)
  BY <1>0, <1>5 DEF BeginExtract, LaneOK, Idle
<1>6. CASE EndExtract(t, f)
  BY <1>0, <1>6 DEF EndExtract, LaneOK, Idle, DownloadTypeOK
<1>7. QED
  BY <1>1, <1>2, <1>3, <1>4, <1>5, <1>6 DEF LaneStep

(* A worker that works is the worker of the one active task.               *)
LEMMA OneWorks ==
  ASSUME BaseInv, TasksOK, OneActive, NEW t \in Tasks, NEW u \in Tasks,
         worker[t] \in Working, worker[u] \in Working
  PROVE  t = u
<1>1. \A v \in {t, u} : v \in tasks /\ state[v] \in Active
  BY DEF BaseInv, DownloadTypeOK, TasksOK, TaskOK
<1>2. QED
  BY <1>1 DEF OneActive

(* What one report does to the outcome of its task.                        *)
LEMMA Reported ==
  ASSUME DownloadTypeOK, NEW t \in Tasks, NEW f \in Files, NEW what \in {"failed", "cancelled"},
         Report(t, f, what)
  PROVE  /\ outcome'[t] = IF outcome[t] = "none" THEN what ELSE outcome[t]
         /\ outcome'[t] # "none"
         /\ \A u \in Tasks : u # t => outcome'[u] = outcome[u]
         /\ \E to \in {"raise", "out"} : MoveLane(t, f, to)
         /\ abort' = abort
BY DEF Report, DownloadTypeOK

LEMMA LaneStepOutcomes ==
  ASSUME BaseInv, LanesOK, OutcomesOK, NEW t \in Tasks, NEW f \in Files, LaneStep(t, f)
  PROVE  /\ OutcomesOK'
         /\ \A u \in Tasks : outcome[u] # "none" => outcome'[u] # "none"
         /\ \A u \in Tasks : abort[u] => abort'[u]
<1> USE DEF diskVars, taskVars, workerVars, callerVars
<1>0. DownloadTypeOK /\ LaneOK(t, f) /\ cancelRequested' = cancelRequested
  BY LaneFrame DEF BaseInv, LanesOK
<1>1. ASSUME UNCHANGED <<outcome, abort>>
      PROVE  /\ OutcomesOK'
             /\ \A u \in Tasks : outcome[u] # "none" => outcome'[u] # "none"
             /\ \A u \in Tasks : abort[u] => abort'[u]
  BY <1>0, <1>1 DEF OutcomesOK, OutcomeOK
<1>2. ASSUME NEW what \in {"failed", "cancelled"}, Report(t, f, what),
             what = "cancelled" /\ outcome[t] = "none" => cancelRequested[t]
      PROVE  /\ OutcomesOK'
             /\ \A u \in Tasks : outcome[u] # "none" => outcome'[u] # "none"
             /\ \A u \in Tasks : abort[u] => abort'[u]
  BY <1>0, <1>2, Reported DEF OutcomesOK, OutcomeOK
<1>3. CASE RaiseAbort(t, f)
  BY <1>0, <1>3 DEF RaiseAbort, OutcomesOK, OutcomeOK, LaneOK, DownloadTypeOK
<1>4. CASE JudgeStopped(t, f)
  BY <1>0, <1>2, <1>4 DEF JudgeStopped, WasStopped, LaneOK, OutcomesOK, OutcomeOK
<1>5. CASE OutOfSpace(t, f) \/ JudgeFailed(t, f) \/ EndExtract(t, f)
  BY <1>1, <1>2, <1>5 DEF OutOfSpace, JudgeFailed, EndExtract
<1>6. QED
  BY <1>1, <1>3, <1>4, <1>5 DEF LaneStep, SkipFetch, Fetch, FetchLands, FetchFails, FetchStops,
     JudgeFetched, BeginExtract

LEMMA LaneStepLanes ==
  ASSUME BaseInv, LanesOK, OutcomesOK, TasksOK, OneActive,
         NEW t \in Tasks, NEW f \in Files, LaneStep(t, f)
  PROVE  LanesOK'
<1> USE DEF diskVars, taskVars, workerVars, callerVars
<1>0. DownloadTypeOK /\ LaneOK(t, f) /\ worker[t] = "run"
  BY LaneFrame DEF BaseInv, LanesOK
<1>1. ASSUME NEW u \in Tasks, NEW g \in Files, lane'[u][g] = lane[u][g]
      PROVE  LaneOK(u, g)'
  <2>1. LaneOK(u, g)
    BY DEF LanesOK
  <2>2. lane[u][g] = "fetch" /\ g \notin archives /\ lane[t][f] = "fetch" /\ g = f
        => u = t /\ LaneStep(t, f)
    BY <1>0, <2>1, OneWorks DEF LaneOK, Working, Idle
  <2>3. lane[t][f] \in {"fetch", "landed"} => lane'[t][f] # lane[t][f]
    BY <1>0, LaneMoved DEF LaneStep, SkipFetch, OutOfSpace, Fetch, FetchLands, FetchFails, FetchStops,
       JudgeStopped, JudgeFailed, JudgeFetched, RaiseAbort, BeginExtract, EndExtract, MayTake, WasStopped
  <2>4. lane[u][g] = "ok" /\ g \in archives /\ worker[u] \in Working => g \in unpacked'
    <3>1. worker[u] \in Working => u = t
      BY <1>0, OneWorks DEF Working
    <3>2. QED
      BY <2>1, <3>1, LaneFrame DEF LaneOK
  <2>5. QED
    BY <1>1, <2>1, <2>2, <2>3, <2>4, LaneFrame, LaneStepOutcomes DEF LaneOK
<1>2. ASSUME NEW to \in Stages, MoveLane(t, f, to), LaneOK(t, f)'
      PROVE  LanesOK'
  BY <1>0, <1>1, <1>2, LaneMoved DEF LanesOK
<1>3. ASSUME NEW to, MoveLane(t, f, to)
      PROVE  lane'[t][f] = to /\ worker'[t] = "run"
  BY <1>0, <1>3, LaneMoved, LaneFrame
<1>4. ASSUME NEW what \in {"failed", "cancelled"}, Report(t, f, what)
      PROVE  LanesOK'
  <2>1. PICK to \in {"raise", "out"} : MoveLane(t, f, to)
    BY <1>0, <1>4, Reported
  <2>2. LaneOK(t, f)'
    BY <1>0, <1>3, <1>4, <2>1, Reported DEF LaneOK
  <2>3. QED
    BY <1>2, <2>1, <2>2 DEF Stages, Idle
<1>5. CASE SkipFetch(t, f) \/ JudgeFetched(t, f)
  <2>1. PICK to \in {"landed", "ok"} :
          MoveLane(t, f, to) /\ (to = "ok" => f \notin archives) /\ archives' = archives
    BY <1>5, LaneFrame DEF SkipFetch, JudgeFetched
  <2>2. LaneOK(t, f)'
    BY <1>3, <2>1 DEF LaneOK
  <2>3. QED
    BY <1>2, <2>1, <2>2 DEF Stages, Idle
<1>6. CASE Fetch(t, f)
  <2>1. LaneOK(t, f)'
    BY <1>3, <1>6 DEF Fetch, LaneOK
  <2>2. QED
    BY <1>2, <1>6, <2>1 DEF Fetch, Stages
<1>7. CASE FetchLands(t, f) \/ FetchFails(t, f)
  <2>1. PICK to \in {"fetched", "failed"} : MoveLane(t, f, to)
    BY <1>7 DEF FetchLands, FetchFails
  <2>2. LaneOK(t, f)'
    BY <1>3, <2>1 DEF LaneOK
  <2>3. QED
    BY <1>2, <2>1, <2>2 DEF Stages
<1>8. CASE FetchStops(t, f)
  <2>1. LaneOK(t, f)'
    BY <1>3, <1>8 DEF FetchStops, LaneOK
  <2>2. QED
    BY <1>2, <1>8, <2>1 DEF FetchStops, Stages
<1>9. CASE RaiseAbort(t, f) \/ BeginExtract(t, f)
  <2>1. PICK to \in {"out", "extract"} : MoveLane(t, f, to)
    BY <1>9 DEF RaiseAbort, BeginExtract
  <2>2. LaneOK(t, f)'
    BY <1>3, <2>1 DEF LaneOK
  <2>3. QED
    BY <1>2, <2>1, <2>2 DEF Stages, Idle
<1>10. CASE EndExtract(t, f)
  <2>1. CASE MoveLane(t, f, "ok") /\ unpacked' = unpacked \cup {f}
    <3>1. LaneOK(t, f)'
      BY <1>3, <2>1 DEF LaneOK
    <3>2. QED
      BY <1>2, <2>1, <3>1 DEF Stages, Idle
  <2>2. QED
    BY <1>4, <1>10, <2>1 DEF EndExtract
<1>11. QED
  BY <1>4, <1>5, <1>6, <1>7, <1>8, <1>9, <1>10
     DEF LaneStep, OutOfSpace, JudgeStopped, JudgeFailed

(* A step of a lane disturbs no other task and no caller.                  *)
LEMMA LaneStepInv ==
  ASSUME DownloadInv, NEW t \in Tasks, NEW f \in Files, LaneStep(t, f)
  PROVE  DownloadInv'
<1> USE DEF DownloadInv
<1>1. BaseInv' /\ LanesOK' /\ OutcomesOK'
  BY LaneStepTyped, LaneStepArchives, LaneStepLanes, LaneStepOutcomes DEF BaseInv
<1>2. /\ state[t] \in Active /\ running[t] /\ t \in tasks
      /\ \A u \in Tasks : state'[u] \in Active <=> state[u] \in Active
      /\ \A u \in Tasks : u # t => state'[u] = state[u]
      /\ state'[t] \in Active
  <2>1. state[t] \in Active /\ running[t] /\ t \in tasks
    BY LaneFrame DEF TasksOK, TaskOK, Working, BaseInv, DownloadTypeOK
  <2>2. QED
    BY <2>1, LaneFrame DEF BaseInv, DownloadTypeOK, Active
<1>3. TasksOK'
  <2>1. ASSUME NEW u \in Tasks, worker[u] \in {"relink", "complete"}
        PROVE  (SizesPass /\ archives \subseteq unpacked)'
    BY <2>1, LaneFrame, OneWorks DEF Working
  <2>2. ASSUME NEW u \in Tasks
        PROVE  TaskOK(u)'
    <3>1. TaskOK(u)
      BY DEF TasksOK
    <3>2. CASE u = t
      BY <1>2, <3>1, <3>2, LaneFrame DEF TaskOK, Active, Terminal
    <3>3. CASE u # t
      BY <1>2, <2>1, <3>1, <3>3, LaneFrame DEF TaskOK
    <3>4. QED
      BY <3>2, <3>3
  <2>3. QED
    BY <2>2 DEF TasksOK
<1>4. CallersOK'
  <2>1. ASSUME NEW c \in Callers
        PROVE  CallerOK(c)'
    <3>1. CallerOK(c) /\ UNCHANGED <<pc, mine, tasks, running, cancelRequested>>
      BY LaneFrame DEF CallersOK
    <3>2. tasks \subseteq Tasks /\ InFlight' = InFlight
      BY <1>2, <3>1 DEF InFlight, BaseInv, DownloadTypeOK
    <3>3. QED
      BY <1>2, <3>1, <3>2 DEF CallerOK
  <2>2. QED
    BY <2>1, LaneFrame DEF CallersOK
<1>5. OneActive'
  BY <1>2, LaneFrame DEF OneActive, BaseInv, DownloadTypeOK
<1>6. LaunchPending' /\ FreshUnworked'
  BY <1>2, LaneFrame DEF LaunchPending, FreshUnworked, Active
<1>7. QED
  BY <1>1, <1>3, <1>4, <1>5, <1>6

-----------------------------------------------------------------------------
(* The steps of a worker that has joined its lanes.                        *)
LEMMA JoinedLanes ==
  ASSUME BaseInv, NEW t \in Tasks, Joined(t)
  PROVE  \A f \in Files : lane[t][f] \in Idle
BY DEF Joined, Busy

LEMMA PublishInv ==
  ASSUME DownloadInv, NEW t \in Tasks, NEW s \in Terminal, Publish(t, s),
         worker[t] \in Working, \A f \in Files : lane[t][f] \in Idle
  PROVE  DownloadInv'
<1> USE DEF DownloadInv, diskVars, taskVars, workerVars, callerVars
<1>0. DownloadTypeOK /\ t \in tasks /\ running[t] /\ state[t] \in Active
  BY DEF BaseInv, DownloadTypeOK, TasksOK, TaskOK
<1>1. /\ \A u \in Tasks : u # t => state'[u] = state[u] /\ worker'[u] = worker[u]
      /\ state'[t] = s /\ worker'[t] = "stop" /\ s \notin Active /\ s # "NONE"
  BY <1>0 DEF Publish, DownloadTypeOK, Terminal, Active
<1>2. BaseInv'
  <2>1. state' \in [Tasks -> Active \cup Terminal \cup {"NONE"}]
    BY <1>0 DEF Publish, DownloadTypeOK
  <2>2. QED
    BY <2>1 DEF Publish, BaseInv, DownloadTypeOK, ArchiveLanes
<1>3. LanesOK'
  BY <1>1 DEF Publish, LanesOK, LaneOK
<1>4. OutcomesOK'
  BY DEF Publish, OutcomesOK, OutcomeOK
<1>5. TasksOK'
  <2>1. ASSUME NEW u \in Tasks
        PROVE  TaskOK(u)'
    <3>1. TaskOK(u) /\ SizesPass' = SizesPass
      BY DEF TasksOK, Publish, SizesPass
    <3>2. CASE u = t
      BY <1>0, <1>1, <3>2 DEF TaskOK, Publish, Working
    <3>3. CASE u # t
      BY <1>1, <3>1, <3>3 DEF TaskOK, Publish
    <3>4. QED
      BY <3>2, <3>3
  <2>2. QED
    BY <2>1 DEF TasksOK
<1>6. CallersOK'
  <2>1. ASSUME NEW c \in Callers
        PROVE  CallerOK(c)'
    <3>1. CallerOK(c)
      BY DEF CallersOK
    <3>2. InFlight' \subseteq InFlight
      BY <1>0, <1>1 DEF InFlight, Publish, DownloadTypeOK
    <3>3. pc[c] = "launch" => mine[c] # t
      BY DEF LaunchPending, Working
    <3>4. QED
      BY <1>0, <1>1, <3>1, <3>2, <3>3 DEF CallerOK, Publish
  <2>2. QED
    BY <2>1 DEF CallersOK
<1>7. OneActive'
  BY <1>0, <1>1 DEF OneActive, Publish, DownloadTypeOK
<1>8. LaunchPending'
  <2>1. ASSUME NEW c \in Callers, pc[c] = "launch"
        PROVE  worker'[mine[c]] = "none"
    BY <1>1, <2>1 DEF LaunchPending, CallersOK, CallerOK, Working
  <2>2. QED
    BY <2>1 DEF LaunchPending, Publish
<1>9. FreshUnworked'
  BY <1>1 DEF FreshUnworked
<1>10. QED
  BY <1>2, <1>3, <1>4, <1>5, <1>6, <1>7, <1>8, <1>9

LEMMA VerdictInv ==
  ASSUME DownloadInv, NEW t \in Tasks, VerdictStep(t)
  PROVE  DownloadInv'
<1> USE DEF DownloadInv, diskVars, taskVars, workerVars, callerVars
<1>0. DownloadTypeOK /\ BaseInv'
  BY BaseStep DEF BaseInv, DownloadNext, WorkerStep
<1>1. CASE EndCancelled(t) \/ EndFailed(t) \/ EndCompleted(t)
  <2>1. \A f \in Files : lane[t][f] \in Idle
    BY <1>1, JoinedLanes DEF EndCancelled, EndFailed, EndCompleted, LanesOK, LaneOK
  <2>2. worker[t] \in Working /\ \E s \in Terminal : Publish(t, s)
    BY <1>1 DEF EndCancelled, EndFailed, EndCompleted, Terminal, Joined, Working
  <2>3. QED
    BY <2>1, <2>2, PublishInv
<1>2. CASE Validate(t)
  <2>1. /\ \A u \in Tasks : worker'[u] = IF u = t THEN "relink" ELSE worker[u]
        /\ worker[t] = "run" /\ SizesPass' = SizesPass
    BY <1>0, <1>2 DEF Validate, DownloadTypeOK, Joined, SizesPass
  <2>2. \A f \in Files : lane[t][f] = "ok"
    BY <1>2 DEF Validate, Joined
  <2>3. archives \subseteq unpacked
    BY <1>0, <2>1, <2>2 DEF LanesOK, LaneOK, DownloadTypeOK, Working
  <2>4. LanesOK'
    BY <1>2, <2>1, <2>2 DEF Validate, LanesOK, LaneOK, Idle, Working
  <2>5. TasksOK'
    BY <1>2, <2>1, <2>3 DEF Validate, TasksOK, TaskOK, Working
  <2>6. OutcomesOK' /\ OneActive'
    BY <1>2 DEF Validate, OutcomesOK, OutcomeOK, OneActive
  <2>7. CallersOK'
    BY <1>2 DEF Validate, CallersOK, CallerOK, InFlight
  <2>8. LaunchPending' /\ FreshUnworked'
    BY <1>2, <2>1 DEF Validate, LaunchPending, FreshUnworked, CallersOK, CallerOK
  <2>9. QED
    BY <1>0, <2>4, <2>5, <2>6, <2>7, <2>8
<1>3. CASE Relink(t)
  <2>1. /\ \A u \in Tasks : worker'[u] = IF u = t THEN "complete" ELSE worker[u]
        /\ worker[t] = "relink" /\ SizesPass' = SizesPass
    BY <1>0, <1>3 DEF Relink, DownloadTypeOK, SizesPass
  <2>2. LanesOK'
    BY <1>3, <2>1 DEF Relink, LanesOK, LaneOK, Working
  <2>3. TasksOK'
    BY <1>3, <2>1 DEF Relink, TasksOK, TaskOK, Working
  <2>4. OutcomesOK' /\ OneActive'
    BY <1>3 DEF Relink, OutcomesOK, OutcomeOK, OneActive
  <2>5. CallersOK'
    BY <1>3 DEF Relink, CallersOK, CallerOK, InFlight
  <2>6. LaunchPending' /\ FreshUnworked'
    BY <1>3, <2>1 DEF Relink, LaunchPending, FreshUnworked, CallersOK, CallerOK
  <2>7. QED
    BY <1>0, <2>2, <2>3, <2>4, <2>5, <2>6
<1>4. CASE Stop(t)
  <2>1. /\ \A u \in Tasks : /\ worker'[u] = IF u = t THEN "done" ELSE worker[u]
                            /\ running'[u] = IF u = t THEN FALSE ELSE running[u]
                            /\ outcome'[u] = IF u = t THEN "none" ELSE outcome[u]
                            /\ abort'[u] = IF u = t THEN FALSE ELSE abort[u]
                            /\ lane'[u] = IF u = t THEN [f \in Files |-> "todo"] ELSE lane[u]
        /\ worker[t] = "stop" /\ SizesPass' = SizesPass /\ state[t] \in Terminal
    BY <1>0, <1>4 DEF Stop, DownloadTypeOK, SizesPass, TasksOK, TaskOK
  <2>2. LanesOK'
    BY <1>4, <2>1 DEF Stop, LanesOK, LaneOK, Idle, Working
  <2>3. TasksOK'
    <3>1. ASSUME NEW u \in Tasks
          PROVE  TaskOK(u)'
      <4>1. TaskOK(u) /\ UNCHANGED <<tasks, state, archives, unpacked, registry>>
        BY <1>4 DEF TasksOK, Stop
      <4>2. CASE u = t
        BY <2>1, <4>1, <4>2 DEF TaskOK, Working
      <4>3. CASE u # t
        BY <2>1, <4>1, <4>3 DEF TaskOK
      <4>4. QED
        BY <4>2, <4>3
    <3>2. QED
      BY <3>1 DEF TasksOK
  <2>4. OutcomesOK' /\ OneActive'
    <3>1. OutcomesOK'
      <4>1. ASSUME NEW u \in Tasks
            PROVE  OutcomeOK(u)'
        <5>1. OutcomeOK(u) /\ cancelRequested' = cancelRequested
          BY <1>4 DEF OutcomesOK, Stop
        <5>2. CASE u = t
          BY <2>1, <5>2 DEF OutcomeOK
        <5>3. CASE u # t
          <6>1. abort'[u] = abort[u] /\ outcome'[u] = outcome[u]
            BY <2>1, <5>3
          <6>2. QED
            BY <5>1, <6>1 DEF OutcomeOK
        <5>4. QED
          BY <5>2, <5>3
      <4>2. QED
        BY <4>1 DEF OutcomesOK
    <3>2. OneActive'
      BY <1>4 DEF Stop, OneActive
    <3>3. QED
      BY <3>1, <3>2
  <2>5. CallersOK'
    BY <1>4, <2>1 DEF Stop, CallersOK, CallerOK, InFlight, Terminal, Active
  <2>6. LaunchPending' /\ FreshUnworked'
    BY <1>4, <2>1 DEF Stop, LaunchPending, FreshUnworked, CallersOK, CallerOK, Terminal
  <2>7. QED
    BY <1>0, <2>2, <2>3, <2>4, <2>5, <2>6
<1>5. QED
  BY <1>1, <1>2, <1>3, <1>4 DEF VerdictStep

LEMMA ProgressInv ==
  ASSUME DownloadInv, NEW t \in Tasks, NEW f \in Files, Progress(t, f)
  PROVE  DownloadInv'
<1> USE DEF DownloadInv, diskVars, taskVars, workerVars, callerVars
<1>0. /\ DownloadTypeOK /\ BaseInv' /\ t \in tasks /\ worker[t] = "run"
      /\ running[t] /\ state[t] \in Active
  BY BaseStep DEF BaseInv, DownloadNext, DownloadTypeOK, Progress, LanesOK, LaneOK, Idle,
     TasksOK, TaskOK, Working
<1>1. /\ \A u \in Tasks : state'[u] = IF u = t THEN "DOWNLOADING" ELSE state[u]
      /\ SizesPass' = SizesPass
      /\ UNCHANGED <<diskVars, tasks, running, cancelRequested, workerVars, callerVars>>
  BY <1>0 DEF Progress, DownloadTypeOK, SizesPass
<1>2. LanesOK' /\ OutcomesOK'
  BY <1>1 DEF LanesOK, LaneOK, OutcomesOK, OutcomeOK
<1>3. TasksOK'
  BY <1>0, <1>1 DEF TasksOK, TaskOK, Active
<1>4. InFlight' = InFlight
  BY <1>0, <1>1 DEF InFlight, Active, DownloadTypeOK
<1>5. CallersOK'
  BY <1>0, <1>1, <1>4 DEF CallersOK, CallerOK, Active
<1>6. OneActive'
  BY <1>0, <1>1 DEF OneActive, DownloadTypeOK
<1>7. LaunchPending' /\ FreshUnworked'
  BY <1>1 DEF LaunchPending, FreshUnworked
<1>8. QED
  BY <1>0, <1>2, <1>3, <1>5, <1>6, <1>7

-----------------------------------------------------------------------------
(* The steps of the callers.                                               *)
LEMMA StartInv ==
  ASSUME DownloadInv, OneStarter, NEW c \in Starters, StartStep(c)
  PROVE  DownloadInv'
<1> USE DEF DownloadInv, diskVars, taskVars, workerVars, callerVars
<1>0. DownloadTypeOK /\ BaseInv' /\ c \in Callers /\ \A d \in Starters : d = c
  BY BaseStep DEF BaseInv, DownloadNext, Callers, OneStarter
<1>1. CASE FindNone(c)
  <2>1. SizesPass' = SizesPass /\ \A d \in Callers : pc'[d] = IF d = c THEN "admit" ELSE pc[d]
    BY <1>0, <1>1 DEF FindNone, DownloadTypeOK, SizesPass
  <2>2. LanesOK' /\ OutcomesOK' /\ TasksOK'
    BY <1>1, <2>1 DEF FindNone, LanesOK, LaneOK, OutcomesOK, OutcomeOK, TasksOK, TaskOK
  <2>3. CallersOK'
    BY <1>1, <2>1 DEF FindNone, CallersOK, CallerOK, InFlight
  <2>4. OneActive' /\ LaunchPending' /\ FreshUnworked'
    BY <1>1, <2>1 DEF FindNone, OneActive, LaunchPending, FreshUnworked
  <2>5. QED
    BY <1>0, <2>2, <2>3, <2>4
<1>2. ASSUME NEW t \in Tasks, Admit(c, t)
      PROVE  DownloadInv'
  <2> DEFINE s == IF part[First] THEN "RESUMING" ELSE "PENDING"
  <2>1. /\ \A u \in Tasks : /\ state'[u] = IF u = t THEN s ELSE state[u]
                            /\ running'[u] = IF u = t THEN TRUE ELSE running[u]
        /\ \A d \in Callers : /\ pc'[d] = IF d = c THEN "launch" ELSE pc[d]
                              /\ mine'[d] = IF d = c THEN t ELSE mine[d]
        /\ SizesPass' = SizesPass /\ s \in Active /\ s \notin Terminal \cup {"NONE"}
        /\ state[t] = "NONE" /\ tasks' = tasks \cup {t} /\ pc[c] = "admit"
    BY <1>0, <1>2 DEF Admit, DownloadTypeOK, SizesPass, Active, Terminal, Fresh
  <2>2. InFlight = {} /\ worker[t] = "none" /\ ~running[t]
    BY <1>0, <2>1 DEF CallersOK, CallerOK, FreshUnworked, TasksOK, TaskOK, DownloadTypeOK
  <2>3. LanesOK' /\ OutcomesOK'
    BY <1>2 DEF Admit, LanesOK, LaneOK, OutcomesOK, OutcomeOK
  <2>4. TasksOK'
    <3>1. ASSUME NEW u \in Tasks
          PROVE  TaskOK(u)'
      <4>1. TaskOK(u) /\ UNCHANGED <<worker, archives, unpacked, registry>>
        BY <1>2 DEF TasksOK, Admit
      <4>2. CASE u = t
        BY <2>1, <2>2, <4>1, <4>2 DEF TaskOK, Working
      <4>3. CASE u # t
        BY <2>1, <4>1, <4>3 DEF TaskOK
      <4>4. QED
        BY <4>2, <4>3
    <3>2. QED
      BY <3>1 DEF TasksOK
  <2>5. CallersOK'
    <3>1. ASSUME NEW d \in Callers
          PROVE  CallerOK(d)'
      <4>1. CallerOK(d) /\ cancelRequested' = cancelRequested
        BY <1>2 DEF CallersOK, Admit
      <4>2. CASE d = c
        BY <2>1, <4>2 DEF CallerOK
      <4>3. CASE d # c
        <5>1. pc'[d] = pc[d] /\ mine'[d] = mine[d] /\ pc[d] \notin {"admit", "launch"}
          BY <1>0, <2>1, <4>1, <4>3 DEF CallerOK
        <5>2. pc[d] \in {"delete", "mark"} => mine[d] # t
          BY <2>1, <4>1 DEF CallerOK
        <5>3. QED
          BY <2>1, <4>1, <5>1, <5>2 DEF CallerOK
      <4>4. QED
        BY <4>2, <4>3
    <3>2. QED
      BY <3>1 DEF CallersOK
  <2>6. OneActive'
    BY <1>0, <2>1, <2>2 DEF OneActive, InFlight, DownloadTypeOK
  <2>7. LaunchPending'
    BY <1>0, <1>2, <2>1, <2>2 DEF Admit, LaunchPending, CallersOK, CallerOK
  <2>8. FreshUnworked'
    BY <1>2, <2>1 DEF Admit, FreshUnworked
  <2>9. QED
    BY <1>0, <2>3, <2>4, <2>5, <2>6, <2>7, <2>8
<1>3. CASE Launch(c)
  <2> DEFINE t == mine[c]
  <2>1. /\ t \in Tasks /\ running[t] /\ state[t] \in Active /\ worker[t] = "none"
    BY <1>0, <1>3 DEF Launch, CallersOK, CallerOK, LaunchPending
  <2>2. /\ \A u \in Tasks : worker'[u] = IF u = t THEN "run" ELSE worker[u]
        /\ \A d \in Callers : /\ pc'[d] = IF d = c THEN "idle" ELSE pc[d]
                              /\ mine'[d] = IF d = c THEN NoTask ELSE mine[d]
        /\ SizesPass' = SizesPass
    BY <1>0, <1>3 DEF Launch, ReturnFrom, DownloadTypeOK, SizesPass
  <2>3. LanesOK' /\ OutcomesOK'
    BY <1>3, <2>1, <2>2 DEF Launch, LanesOK, LaneOK, OutcomesOK, OutcomeOK, Idle
  <2>4. TasksOK'
    BY <1>3, <2>1, <2>2 DEF Launch, TasksOK, TaskOK, Working
  <2>5. CallersOK'
    BY <1>3, <2>2 DEF Launch, CallersOK, CallerOK, InFlight
  <2>6. OneActive'
    BY <1>3 DEF Launch, OneActive
  <2>7. LaunchPending'
    BY <1>0, <2>2 DEF LaunchPending, CallersOK, CallerOK
  <2>8. FreshUnworked'
    BY <1>3, <2>1, <2>2 DEF Launch, FreshUnworked, Active
  <2>9. QED
    BY <1>0, <2>3, <2>4, <2>5, <2>6, <2>7, <2>8
<1>4. QED
  BY <1>1, <1>2, <1>3 DEF StartStep

LEMMA CancelInv ==
  ASSUME DownloadInv, NEW c \in Cancellers, CancelStep(c)
  PROVE  DownloadInv'
<1> USE DEF DownloadInv, diskVars, taskVars, workerVars, callerVars
<1>0. DownloadTypeOK /\ BaseInv' /\ c \in Callers
  BY BaseStep DEF BaseInv, DownloadNext, Callers
<1>1. ASSUME NEW t \in Tasks, NEW delete \in BOOLEAN, Cancel(c, t, delete)
      PROVE  DownloadInv'
  <2>1. /\ \A u \in Tasks : cancelRequested'[u] = IF u = t THEN TRUE ELSE cancelRequested[u]
        /\ SizesPass' = SizesPass
        /\ UNCHANGED <<diskVars, tasks, state, running, workerVars>>
    BY <1>0, <1>1 DEF Cancel, DownloadTypeOK, SizesPass
  <2>2. LanesOK' /\ OutcomesOK' /\ TasksOK' /\ OneActive' /\ FreshUnworked'
    <3>1. LanesOK'
      BY <2>1 DEF LanesOK, LaneOK
    <3>2. OutcomesOK'
      BY <2>1 DEF OutcomesOK, OutcomeOK
    <3>3. TasksOK'
      BY <2>1 DEF TasksOK, TaskOK
    <3>4. OneActive' /\ FreshUnworked'
      BY <2>1 DEF OneActive, FreshUnworked
    <3>5. QED
      BY <3>1, <3>2, <3>3, <3>4
  <2>3. CASE running[t]
    <3>1. pc' = pc /\ mine' = mine
      BY <1>1, <2>3 DEF Cancel
    <3>2. QED
      BY <1>0, <2>1, <2>2, <3>1 DEF CallersOK, CallerOK, InFlight, LaunchPending
  <2>4. CASE ~running[t]
    <3>1. /\ pc'[c] \in {"delete", "mark"} /\ mine'[c] = t
          /\ \A d \in Callers : d # c => pc'[d] = pc[d] /\ mine'[d] = mine[d]
      BY <1>0, <1>1, <2>4 DEF Cancel, DownloadTypeOK
    <3>2. state[t] \in {"FAILED", "CANCELLED"}
      BY <1>1, <2>4 DEF Cancel, Finished, TasksOK, TaskOK, Terminal
    <3>3. CallersOK'
      <4>1. ASSUME NEW d \in Callers
            PROVE  CallerOK(d)'
        <5>1. CASE d = c
          BY <2>1, <2>4, <3>1, <3>2, <5>1 DEF CallerOK
        <5>2. CASE d # c
          BY <2>1, <3>1, <5>2 DEF CallersOK, CallerOK, InFlight
        <5>3. QED
          BY <5>1, <5>2
      <4>2. QED
        BY <4>1 DEF CallersOK
    <3>4. LaunchPending'
      BY <2>1, <3>1 DEF LaunchPending
    <3>5. QED
      BY <1>0, <2>2, <3>3, <3>4
  <2>5. QED
    BY <2>3, <2>4
<1>2. CASE DeletePartial(c)
  <2>1. /\ \A d \in Callers : pc'[d] = IF d = c THEN "mark" ELSE pc[d]
        /\ pc[c] = "delete" /\ mine' = mine /\ SizesPass' = SizesPass
    BY <1>0, <1>2 DEF DeletePartial, DownloadTypeOK, SizesPass
  <2>2. LanesOK' /\ OutcomesOK' /\ TasksOK' /\ OneActive' /\ FreshUnworked'
    BY <1>2, <2>1 DEF DeletePartial, LanesOK, LaneOK, OutcomesOK, OutcomeOK, TasksOK, TaskOK,
       OneActive, FreshUnworked
  <2>3. CallersOK' /\ LaunchPending'
    BY <1>2, <2>1 DEF DeletePartial, CallersOK, CallerOK, InFlight, LaunchPending
  <2>4. QED
    BY <1>0, <2>2, <2>3
<1>3. CASE MarkCancelled(c)
  <2> DEFINE t == mine[c]
  <2>1. t \in Tasks /\ ~running[t] /\ state[t] \in {"FAILED", "CANCELLED"}
    BY <1>0, <1>3 DEF MarkCancelled, CallersOK, CallerOK
  <2>2. /\ \A u \in Tasks : state'[u] = IF u = t THEN "CANCELLED" ELSE state[u]
        /\ \A d \in Callers : /\ pc'[d] = IF d = c THEN "idle" ELSE pc[d]
                              /\ mine'[d] = IF d = c THEN NoTask ELSE mine[d]
        /\ SizesPass' = SizesPass
        /\ UNCHANGED <<diskVars, tasks, running, cancelRequested, workerVars>>
    BY <1>0, <1>3, <2>1 DEF MarkCancelled, ReturnFrom, DownloadTypeOK, SizesPass
  <2>3. LanesOK' /\ OutcomesOK'
    BY <2>2 DEF LanesOK, LaneOK, OutcomesOK, OutcomeOK
  <2>4. TasksOK' /\ FreshUnworked'
    BY <2>1, <2>2 DEF TasksOK, TaskOK, FreshUnworked, Active, Terminal
  <2>5. OneActive' /\ InFlight' = InFlight
    BY <1>0, <2>1, <2>2 DEF OneActive, InFlight, Active, DownloadTypeOK
  <2>6. CallersOK'
    BY <2>1, <2>2, <2>5 DEF CallersOK, CallerOK, Active
  <2>7. LaunchPending'
    BY <2>2 DEF LaunchPending
  <2>8. QED
    BY <1>0, <2>3, <2>4, <2>5, <2>6, <2>7
<1>4. CASE CleanUp(c)
  <2>1. tasks' \subseteq tasks /\ SizesPass' = SizesPass
    BY <1>4 DEF CleanUp, SizesPass
  <2>2. LanesOK' /\ OutcomesOK' /\ TasksOK' /\ OneActive' /\ FreshUnworked'
    BY <1>4, <2>1 DEF CleanUp, LanesOK, LaneOK, OutcomesOK, OutcomeOK, TasksOK, TaskOK,
       OneActive, FreshUnworked
  <2>3. CallersOK' /\ LaunchPending'
    BY <1>4, <2>1 DEF CleanUp, CallersOK, CallerOK, InFlight, LaunchPending
  <2>4. QED
    BY <1>0, <2>2, <2>3
<1>5. QED
  BY <1>1, <1>2, <1>3, <1>4 DEF CancelStep

LEMMA DownloadStep ==
  ASSUME DownloadInv, OneStarter, [DownloadNext]_vars
  PROVE  DownloadInv'
<1>1. CASE UNCHANGED vars
  BY <1>1, BaseStep DEF vars, diskVars, taskVars, workerVars, callerVars, DownloadInv, LanesOK,
     LaneOK, OutcomesOK, OutcomeOK, TasksOK, TaskOK, CallersOK, CallerOK, OneActive,
     LaunchPending, FreshUnworked, InFlight, SizesPass
<1>2. QED
  BY <1>1, LaneStepInv, VerdictInv, ProgressInv, StartInv, CancelInv
     DEF DownloadNext, WorkerStep

LEMMA DownloadInvariant ==
  ASSUME OneStarter
  PROVE  DownloadSpec => []DownloadInv
<1>1. DownloadInit => DownloadInv
  <2>1. SUFFICES ASSUME DownloadInit PROVE DownloadInv
    OBVIOUS
  <2>2. LanesOK /\ OutcomesOK /\ TasksOK
    <3>1. /\ \A t \in Tasks, f \in Files : lane[t][f] = "todo"
          /\ \A t \in Tasks : /\ abort[t] = FALSE /\ outcome[t] = "none" /\ worker[t] = "none"
                               /\ state[t] = "NONE"
          /\ tasks = {}
      BY <2>1 DEF DownloadInit
    <3>2. QED
      BY <3>1 DEF LanesOK, LaneOK, OutcomesOK, OutcomeOK, TasksOK, TaskOK, Idle, Working
  <2>3. CallersOK /\ OneActive /\ LaunchPending /\ FreshUnworked
    <3>1. \A c \in Callers : pc[c] = "idle"
      BY <2>1 DEF DownloadInit
    <3>2. tasks = {} /\ \A t \in Tasks : worker[t] = "none"
      BY <2>1 DEF DownloadInit
    <3>3. QED
      BY <3>1, <3>2 DEF CallersOK, CallerOK, OneActive, LaunchPending, FreshUnworked
  <2>4. QED
    BY <2>1, <2>2, <2>3, BaseInitially DEF DownloadInv
<1>2. DownloadInv /\ [DownloadNext]_vars => DownloadInv'
  BY DownloadStep
<1>3. QED
  BY <1>1, <1>2, PTL DEF DownloadSpec

-----------------------------------------------------------------------------
(* As long as one client starts downloads, no two workers write one file,  *)
(* however its starts meet cancels that time out, late cancels of older    *)
(* tasks and clean-ups (download_orchestrator.cpp:3399-3427).              *)
THEOREM OneWriterAlways ==
  ASSUME OneStarter
  PROVE  DownloadSpec => []OneWriterPerFile
<1>1. ASSUME DownloadInv, NEW f \in Files
      PROVE  Cardinality(Writers(f)) <= 1
  <2>1. \A t, u \in Writers(f) : t = u
    BY <1>1, OneWorks DEF DownloadInv, Writers, LanesOK, LaneOK, Idle, Working
  <2>2. CASE Writers(f) = {}
    BY <2>2, FS_EmptySet
  <2>3. CASE Writers(f) # {}
    <3>1. PICK t \in Writers(f) : Writers(f) = {t}
      BY <2>1, <2>3
    <3>2. Cardinality({t}) = 1
      BY FS_Singleton
    <3>3. QED
      BY <3>1, <3>2
  <2>4. QED
    BY <2>2, <2>3
<1>2. DownloadInv => OneWriterPerFile
  BY <1>1 DEF OneWriterPerFile
<1>3. QED
  BY <1>2, DownloadInvariant, PTL

-----------------------------------------------------------------------------
Loadable == registry # "stale" /\ SizesPass /\ archives \subseteq unpacked

(* What a step does to one task, seen from outside.                        *)
LEMMA ShownMoved ==
  ASSUME DownloadTypeOK, NEW t \in Tasks, NEW s, state' = [state EXCEPT ![t] = s]
  PROVE  [u \in Tasks |-> Shown(u)]' = [[u \in Tasks |-> Shown(u)] EXCEPT ![t] = Shown(t)']
<1>1. state \in [Tasks -> Active \cup Terminal \cup {"NONE"}]
  BY DEF DownloadTypeOK
<1>2. \A u \in Tasks : u # t => Shown(u)' = Shown(u)
  BY <1>1 DEF Shown
<1>3. QED
  BY <1>2

LEMMA StepKeepsPromise ==
  ASSUME DownloadInv, OneStarter, [DownloadNext]_vars
  PROVE  [Promise!Next]_(Promise!promiseVars)
<1> USE DEF DownloadInv, diskVars, taskVars, workerVars, callerVars, Loadable
<1> DEFINE SH == [u \in Tasks |-> Shown(u)]
           AS == {u \in Tasks : cancelRequested[u]}
           PK == archives # {}
<1>0. DownloadTypeOK /\ DownloadInv'
  BY DownloadStep DEF BaseInv
<1>1. ASSUME UNCHANGED <<archives, state, cancelRequested>>, Loadable' <=> Loadable
      PROVE  UNCHANGED Promise!promiseVars
  BY <1>1 DEF Promise!promiseVars, Shown
<1>2. ASSUME NEW t \in Tasks, state[t] \in Active, archives' = archives,
             SH' = SH, cancelRequested' = cancelRequested,
             Loadable /\ ~Loadable' => archives # {}
      PROVE  [Promise!Next]_(Promise!promiseVars)
  <2>1. AS' = AS /\ PK' = PK /\ SH[t] = "active"
    BY <1>2 DEF Shown, Active
  <2>2. CASE Loadable' = Loadable
    BY <1>2, <2>1, <2>2 DEF Promise!promiseVars
  <2>3. CASE Loadable' /\ ~Loadable
    BY <1>2, <2>1, <2>3 DEF Promise!Provide, Promise!AtWork, Promise!Next
  <2>4. CASE Loadable /\ ~Loadable'
    BY <1>2, <2>1, <2>4 DEF Promise!Withdraw, Promise!AtWork, Promise!Next
  <2>5. Loadable \in BOOLEAN /\ Loadable' \in BOOLEAN
    OBVIOUS
  <2>6. QED
    BY <2>2, <2>3, <2>4, <2>5
<1>3. ASSUME NEW t \in Tasks, NEW s, state' = [state EXCEPT ![t] = s],
             UNCHANGED <<diskVars, cancelRequested>>
      PROVE  /\ SH' = [SH EXCEPT ![t] = Shown(t)'] /\ SH[t] = Shown(t)
             /\ AS' = AS /\ PK' = PK /\ Loadable' = Loadable /\ state'[t] = s
  BY <1>0, <1>3, ShownMoved DEF SizesPass, DownloadTypeOK
<1>4. CASE UNCHANGED vars
  BY <1>1, <1>4 DEF vars, SizesPass
<1>5. ASSUME NEW t \in Tasks, NEW s \in Active, state[t] \in Active,
             state' = [state EXCEPT ![t] = s], UNCHANGED <<diskVars, cancelRequested>>
      PROVE  UNCHANGED Promise!promiseVars
  <2>1. Shown(t) = "active" /\ Shown(t)' = "active"
    BY <1>3, <1>5 DEF Shown, Active
  <2>2. SH' = SH
    BY <1>3, <1>5, <2>1
  <2>3. QED
    BY <1>3, <1>5, <2>2 DEF Promise!promiseVars
<1>6. ASSUME NEW t \in Tasks, NEW f \in Files, LaneStep(t, f)
      PROVE  [Promise!Next]_(Promise!promiseVars)
  <2>1. state[t] \in Active
    BY <1>6, LaneFrame DEF TasksOK, TaskOK, Working
  <2>2. SH' = SH /\ cancelRequested' = cancelRequested
    <3>1. CASE BeginExtract(t, f)
      <4>1. state' = [state EXCEPT ![t] = "EXTRACTING"] /\ cancelRequested' = cancelRequested
        BY <3>1 DEF BeginExtract
      <4>2. SH' = [SH EXCEPT ![t] = "active"] /\ SH[t] = "active"
        BY <1>0, <2>1, <4>1, ShownMoved DEF Shown, Active, DownloadTypeOK
      <4>3. QED
        BY <4>1, <4>2
    <3>2. CASE ~BeginExtract(t, f)
      <4>1. state' = state /\ cancelRequested' = cancelRequested
        BY <1>6, <3>2, LaneFrame DEF LaneStep, SkipFetch, OutOfSpace, Fetch, FetchLands,
           FetchFails, FetchStops, JudgeStopped, JudgeFailed, JudgeFetched, RaiseAbort, EndExtract
      <4>2. QED
        BY <4>1 DEF Shown
    <3>3. QED
      BY <3>1, <3>2
  <2>3. archives = {} /\ Loadable => Loadable'
    <3>1. \A g \in Files \ archives : final[g] = "whole" => final'[g] = "whole"
      BY <1>6, LaneFrame DEF LanesOK, LaneOK
    <3>2. archives' = archives /\ registry' = registry
      BY <1>6, LaneFrame
    <3>3. QED
      BY <3>1, <3>2 DEF SizesPass
  <2>4. QED
    BY <1>2, <1>6, <2>1, <2>2, <2>3, LaneFrame
<1>7. ASSUME NEW t \in Tasks, NEW f \in Files, Progress(t, f)
      PROVE  [Promise!Next]_(Promise!promiseVars)
  <2>1. state[t] \in Active
    BY <1>7 DEF Progress, LanesOK, LaneOK, Idle, TasksOK, TaskOK, Working
  <2>2. QED
    BY <1>5, <1>7, <2>1 DEF Progress, Active
<1>8. ASSUME NEW t \in Tasks, VerdictStep(t)
      PROVE  [Promise!Next]_(Promise!promiseVars)
  <2>0. worker[t] \in Working => state[t] \in Active /\ SH[t] = "active"
    BY DEF TasksOK, TaskOK, Shown, Active
  <2>1. CASE EndCancelled(t)
    <3>1. Publish(t, "CANCELLED") /\ worker[t] \in Working /\ cancelRequested[t]
      BY <2>1 DEF EndCancelled, Joined, Working, OutcomesOK, OutcomeOK
    <3>2. SH' = [SH EXCEPT ![t] = "cancelled"] /\ AS' = AS /\ PK' = PK /\ Loadable' = Loadable /\ t \in AS
      BY <1>3, <3>1 DEF Publish, Shown
    <3>3. Promise!Cancel(t)
      BY <2>0, <3>1, <3>2 DEF Promise!Cancel, Promise!Show
    <3>4. QED
      BY <3>3 DEF Promise!Next
  <2>2. CASE EndFailed(t)
    <3>1. Publish(t, "FAILED") /\ worker[t] \in Working
      BY <2>2 DEF EndFailed, Joined, Working
    <3>2. SH' = [SH EXCEPT ![t] = "failed"] /\ AS' = AS /\ PK' = PK /\ Loadable' = Loadable
      BY <1>3, <3>1 DEF Publish, Shown
    <3>3. Promise!Fail(t)
      BY <2>0, <3>1, <3>2 DEF Promise!Fail, Promise!Show
    <3>4. QED
      BY <3>3 DEF Promise!Next
  <2>3. CASE EndCompleted(t)
    <3>1. Publish(t, "COMPLETED") /\ worker[t] \in Working /\ Loadable
      BY <2>3 DEF EndCompleted, Working, TasksOK, TaskOK
    <3>2. SH' = [SH EXCEPT ![t] = "completed"] /\ AS' = AS /\ PK' = PK /\ Loadable' = Loadable
      BY <1>3, <3>1 DEF Publish, Shown
    <3>3. Promise!Complete(t)
      BY <2>0, <3>1, <3>2 DEF Promise!Complete, Promise!Show
    <3>4. QED
      BY <3>3 DEF Promise!Next
  <2>4. CASE Relink(t)
    <3>1. /\ worker[t] \in Working /\ UNCHANGED <<archives, state, cancelRequested>>
          /\ Loadable => Loadable'
      BY <2>4 DEF Relink, Working, SizesPass
    <3>2. SH' = SH
      BY <3>1 DEF Shown
    <3>3. QED
      BY <1>2, <2>0, <3>1, <3>2
  <2>5. CASE Validate(t) \/ Stop(t)
    BY <1>1, <2>5 DEF Validate, Stop, SizesPass
  <2>6. QED
    BY <1>8, <2>1, <2>2, <2>3, <2>4, <2>5 DEF VerdictStep
<1>9. ASSUME NEW c \in Starters, StartStep(c)
      PROVE  [Promise!Next]_(Promise!promiseVars)
  <2>1. CASE FindNone(c) \/ Launch(c)
    BY <1>1, <2>1 DEF FindNone, Launch, SizesPass
  <2>2. ASSUME NEW t \in Tasks, Admit(c, t)
        PROVE  Promise!Begin(t)
    <3>1. PICK s \in {"RESUMING", "PENDING"} : state' = [state EXCEPT ![t] = s]
      BY <2>2 DEF Admit
    <3>2. state[t] = "NONE" /\ UNCHANGED <<diskVars, cancelRequested>>
      BY <2>2 DEF Admit, Fresh
    <3>3. SH' = [SH EXCEPT ![t] = "active"] /\ AS' = AS /\ PK' = PK /\ Loadable' = Loadable /\ SH[t] = "none"
      BY <1>3, <3>1, <3>2 DEF Shown
    <3>4. QED
      BY <3>3 DEF Promise!Begin, Promise!Show
  <2>3. QED
    BY <1>9, <2>1, <2>2 DEF StartStep, Promise!Next
<1>10. ASSUME NEW c \in Cancellers, CancelStep(c)
       PROVE  [Promise!Next]_(Promise!promiseVars)
  <2>1. ASSUME NEW t \in Tasks, NEW delete \in BOOLEAN, Cancel(c, t, delete)
        PROVE  Promise!Ask(t)
    <3>1. SH' = SH /\ PK' = PK /\ Loadable' = Loadable /\ AS' = AS \cup {t}
      BY <1>0, <2>1 DEF Cancel, Shown, SizesPass, DownloadTypeOK
    <3>2. SH[t] # "none"
      BY <2>1 DEF Cancel, TasksOK, TaskOK, Shown
    <3>3. QED
      BY <3>1, <3>2 DEF Promise!Ask
  <2>2. CASE MarkCancelled(c)
    <3>0. PICK t \in Tasks : t = mine[c]
      BY <2>2 DEF MarkCancelled, CallersOK, CallerOK, Callers
    <3>1. /\ cancelRequested[t] /\ state[t] \in {"FAILED", "CANCELLED"}
          /\ state' = [state EXCEPT ![t] = "CANCELLED"] /\ UNCHANGED <<diskVars, cancelRequested>>
      BY <2>2, <3>0 DEF MarkCancelled, CallersOK, CallerOK, Callers
    <3>2. SH' = [SH EXCEPT ![t] = "cancelled"] /\ AS' = AS /\ PK' = PK /\ Loadable' = Loadable /\ t \in AS
          /\ SH[t] \in {"failed", "cancelled"}
      <4>1. /\ SH' = [SH EXCEPT ![t] = Shown(t)'] /\ SH[t] = Shown(t)
            /\ AS' = AS /\ PK' = PK /\ Loadable' = Loadable /\ state'[t] = "CANCELLED"
        BY <1>3, <3>1
      <4>2. Shown(t)' = "cancelled" /\ Shown(t) \in {"failed", "cancelled"}
        BY <3>1, <4>1 DEF Shown
      <4>3. QED
        BY <3>1, <4>1, <4>2
    <3>3. Promise!Cancel(t)
      BY <3>2 DEF Promise!Cancel, Promise!Show
    <3>4. QED
      BY <3>1, <3>3 DEF Promise!Next
  <2>3. CASE DeletePartial(c) \/ CleanUp(c)
    BY <1>1, <2>3 DEF DeletePartial, CleanUp, SizesPass
  <2>4. QED
    BY <1>10, <2>1, <2>2, <2>3 DEF CancelStep, Promise!Next
<1>11. QED
  BY <1>4, <1>6, <1>7, <1>8, <1>9, <1>10 DEF DownloadNext, WorkerStep

(* With one starting client, the orchestrator implements DownloadPromise,  *)
(* for every plan, disk and number of tasks.                               *)
THEOREM OrchestratorImplements ==
  ASSUME OneStarter
  PROVE  DownloadSpec => KeepsPromise
<1>1. DownloadInit => Promise!Init
  <2>1. SUFFICES ASSUME DownloadInit PROVE Promise!Init
    OBVIOUS
  <2>2. [t \in Tasks |-> Shown(t)] = [t \in Tasks |-> "none"]
    BY <2>1 DEF DownloadInit, Shown
  <2>3. {t \in Tasks : cancelRequested[t]} = {}
    BY <2>1 DEF DownloadInit
  <2>4. QED
    BY <2>2, <2>3 DEF Promise!Init
<1>2. DownloadInv /\ [DownloadNext]_vars => [Promise!Next]_(Promise!promiseVars)
  BY StepKeepsPromise
<1>3. QED
  BY <1>1, <1>2, DownloadInvariant, PTL DEF DownloadSpec, KeepsPromise, Promise!Spec
=============================================================================
