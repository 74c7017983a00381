--------------------------- MODULE PipelineService ---------------------------
(***************************************************************************)
(* The pipeline service of the DevLake server in standalone mode: the       *)
(* dequeuing loop that admits pending pipelines, the goroutine that runs a  *)
(* pipeline row by row, one goroutine per task, the registry of running     *)
(* tasks, the API handlers that create, cancel and rerun pipelines under    *)
(* cronLocker, and the restart of the server process.                       *)
(*                                                                          *)
(* A step is one database statement, one critical section, or one event on  *)
(* a channel.  Steps that nothing else can observe apart are merged; the    *)
(* README says which and why.                                               *)
(***************************************************************************)
EXTENDS Naturals, FiniteSets

CONSTANTS
    NPipelines,   \* pipelines that are ever created; bounds the id sequence
    Plan,         \* Plan[p]: the <<row, col>> cells of the plan of pipeline p
    SkipOnFail,   \* the pipelines created with skipOnFail
    Label,        \* the names of labels that start with "parallel/"
    LabelsOf,     \* LabelsOf[p]: the parallel labels requested for pipeline p
    BlueprintOf,  \* BlueprintOf[p]: the blueprint p is created for, 0 for none
    MaxParallel,  \* PIPELINE_MAX_PARALLEL, already defaulted when it was 0
    Goroutine,    \* identities of the goroutines that run pipelines
    MaxAttempts,  \* bound on the tasks that one cell of a plan may be given
    Ops,          \* what the environment does: see EnvOps
    MaxFaults     \* bound on crashes and database errors

EnvOps == {"cancel", "rerun", "rerunTask", "crash", "dbError"}

Pipeline == 1 .. NPipelines

ASSUME CountsAssumption ==
    /\ NPipelines \in Nat \ {0}
    /\ MaxParallel \in Nat \ {0}
    /\ MaxAttempts \in Nat \ {0}
    /\ MaxFaults \in Nat

ASSUME RequestAssumption ==
    /\ Plan \in [Pipeline -> SUBSET ((Nat \ {0}) \X (Nat \ {0}))]
    /\ \A p \in Pipeline : IsFiniteSet(Plan[p])
    /\ SkipOnFail \subseteq Pipeline
    /\ LabelsOf \in [Pipeline -> SUBSET Label]
    /\ BlueprintOf \in [Pipeline -> Nat]
    /\ Ops \subseteq EnvOps

ASSUME GoroutineAssumption == IsFiniteSet(Goroutine)

Cell == UNION {Plan[p] : p \in Pipeline}

\* The row of _devlake_tasks with attempt number n of one cell of the plan.
Task == {t \in [p : Pipeline, row : {c[1] : c \in Cell}, col : {c[2] : c \in Cell},
                n : 1 .. MaxAttempts] : <<t.row, t.col>> \in Plan[t.p]}

Absent == "absent"                                  \* the row is not in the table
Waiting == {"CREATED", "RERUN"}
Pending == Waiting \cup {"RUNNING"}                 \* models.PendingTaskStatus
Ended == {"COMPLETED", "FAILED", "CANCELLED", "PARTIAL"}
Status == Pending \cup Ended

VARIABLES
    pstatus,   \* database: status of each pipeline
    plabels,   \* database: parallel labels stored for each pipeline
    began,     \* database: whether began_at of each pipeline is set
    tasks,     \* database: status of each task
    cron,      \* the holder of cronLocker and where its handler stands
    dq,        \* the dequeuing loop: control point and pipeline in hand
    sema,      \* permits left in the semaphore
    held,      \* runningParallelLabels
    pc,        \* control point of each pipeline goroutine
    on,        \* the pipeline each goroutine runs, 0 when it has none
    frame,     \* locals of each pipeline goroutine
    jobs,      \* task goroutines that the running rows have started
    registry,  \* runningTasks: <<goroutine, task>> that can be cancelled
    faults     \* crashes and database errors so far

db == <<pstatus, plabels, began, tasks>>
queue == <<dq, sema, held>>
runners == <<pc, on, frame>>
workers == <<jobs, registry>>
vars == <<pstatus, plabels, began, tasks, cron, dq, sema, held, pc, on, frame,
          jobs, registry, faults>>

FreeLock == [op |-> "free", p |-> 0, todo |-> {}, began |-> FALSE]
NoFrame == [todo |-> {}, row |-> 0, err |-> "nil", began |-> FALSE,
            verdict |-> "RUNNING"]

TasksOf(p) == {t \in Task : t.p = p /\ tasks[t] # Absent}
SameCell(t, u) == <<t.p, t.row, t.col>> = <<u.p, u.row, u.col>>

\* The tasks of p that no later attempt at their cell replaces.
Latest(p) == {t \in TasksOf(p) :
                 \A u \in TasksOf(p) : SameCell(t, u) => u.n <= t.n}

\* The row that CreateTask adds when task t is rerun.
NextAttempt(t) ==
    [t EXCEPT !.n = 1 + Cardinality({u \in TasksOf(t.p) : SameCell(t, u)})]

\* A database error is one of the bounded faults.
DbError == "dbError" \in Ops /\ faults < MaxFaults /\ faults' = faults + 1

-----------------------------------------------------------------------------
Init ==
    /\ pstatus = [p \in Pipeline |-> Absent]
    /\ plabels = [p \in Pipeline |-> {}]
    /\ began = [p \in Pipeline |-> FALSE]
    /\ tasks = [t \in Task |-> Absent]
    /\ cron = FreeLock
    /\ dq = [at |-> "acquire", p |-> 0]
    /\ sema = MaxParallel
    /\ held = {}
    /\ pc = [g \in Goroutine |-> "idle"]
    /\ on = [g \in Goroutine |-> 0]
    /\ frame = [g \in Goroutine |-> NoFrame]
    /\ jobs = {}
    /\ registry = {}
    /\ faults = 0

-----------------------------------------------------------------------------
(* Handlers under cronLocker.                                               *)

LockFree == cron.op = "free"

\* A fault: only a pipeline that runs already counts.
BlueprintIsRunning(b) ==
    b # 0 /\ \E q \in Pipeline : BlueprintOf[q] = b /\ pstatus[q] = "RUNNING"

BlueprintIsBusy(b) ==
    b # 0 /\ \E q \in Pipeline : BlueprintOf[q] = b /\ pstatus[q] \in Pending

\* What is left of a plan whose creation stopped at some cell: the cells before.
PlanPrefixes(p) ==
    {S \in SUBSET Plan[p] : \A c \in S : \A d \in Plan[p] \ S :
        c[1] < d[1] \/ (c[1] = d[1] /\ c[2] < d[2])}

\* CreateDbPipeline.  Nothing reads the new rows before cronLocker is released,
\* so the statements are one step; an error leaves behind what was inserted.
CreateDbPipeline(p) ==
    /\ LockFree
    /\ pstatus[p] = Absent
    /\ \A q \in 1 .. (p - 1) : pstatus[q] # Absent
    /\ ~BlueprintIsBusy(BlueprintOf[p])
    /\ \E cells \in PlanPrefixes(p), labelled \in BOOLEAN :
        /\ \/ cells = Plan[p] /\ labelled /\ UNCHANGED faults
           \/ (labelled \/ cells = {}) /\ DbError
        /\ pstatus' = [pstatus EXCEPT ![p] = "CREATED"]
        /\ plabels' = [plabels EXCEPT ![p] = IF labelled THEN LabelsOf[p] ELSE {}]
        /\ tasks' = [t \in Task |->
              IF t.p = p /\ t.n = 1 /\ <<t.row, t.col>> \in cells
              THEN "CREATED" ELSE tasks[t]]
    /\ UNCHANGED <<began, cron, queue, runners, workers>>

\* CancelPipeline loads the pipeline.  A waiting one is cancelled in the
\* database, any other by cancelling its tasks that have no finished_at.
CancelPipeline(p) ==
    /\ "cancel" \in Ops
    /\ LockFree
    /\ \/ /\ pstatus[p] \in Waiting
          /\ cron' = [op |-> "cancelRow", p |-> p, todo |-> {}, began |-> began[p]]
       \/ /\ pstatus[p] \notin Waiting \cup {Absent}
          /\ LET unfinished == {t \in TasksOf(p) : tasks[t] # "COMPLETED"}
             IN /\ unfinished # {}
                /\ cron' = [op |-> "cancelTasks", p |-> p, todo |-> unfinished,
                            began |-> FALSE]
    /\ UNCHANGED <<db, queue, runners, workers, faults>>

\* db.Update saves every column, so began_at too is as it was when loaded.
CancelSavePipeline ==
    /\ cron.op = "cancelRow"
    /\ \/ /\ pstatus' = [pstatus EXCEPT ![cron.p] = "CANCELLED"]
          /\ began' = [began EXCEPT ![cron.p] = cron.began]
          /\ cron' = [cron EXCEPT !.op = "cancelRows"]
          /\ UNCHANGED faults
       \/ DbError /\ cron' = FreeLock /\ UNCHANGED <<pstatus, began>>
    /\ UNCHANGED <<plabels, tasks, queue, runners, workers>>

CancelSaveTasks ==
    /\ cron.op = "cancelRows"
    /\ \/ /\ tasks' = [t \in Task |->
                IF t \in TasksOf(cron.p) THEN "CANCELLED" ELSE tasks[t]]
          /\ UNCHANGED faults
       \/ DbError /\ UNCHANGED tasks
    /\ cron' = FreeLock
    /\ UNCHANGED <<pstatus, plabels, began, queue, runners, workers>>

\* CancelTask on each: an unregistered task is skipped, its error ignored.
CancelOneTask ==
    /\ cron.op = "cancelTasks"
    /\ \E t \in cron.todo :
        /\ cron' = IF cron.todo = {t} THEN FreeLock ELSE [cron EXCEPT !.todo = @ \ {t}]
        /\ registry' = {e \in registry : e[2] # t}
        /\ jobs' = {IF <<j.g, t>> \in registry /\ j.t = t
                    THEN [j EXCEPT !.ctx = "cancelled"] ELSE j : j \in jobs}
    /\ UNCHANGED <<db, queue, runners, faults>>

\* "Rerun all" takes the latest tasks that are not completed, POST
\* /tasks/:id/rerun any task of the pipeline, an older attempt included.
RerunTargets(p) ==
    (IF "rerun" \in Ops THEN {{t \in Latest(p) : tasks[t] # "COMPLETED"}} ELSE {})
    \cup (IF "rerunTask" \in Ops THEN {{t} : t \in TasksOf(p)} ELSE {})

\* A fault: a pipeline is rerun whatever its status.
RerunAnyTime(p) == LockFree /\ pstatus[p] # Absent

MayRerun(p) == LockFree /\ pstatus[p] \notin Pending \cup {Absent}

\* A fault: the tasks that are replaced keep their status.
TasksKept(failed, new) == [t \in Task |-> IF t \in new THEN "RERUN" ELSE tasks[t]]

TasksRerun(failed, new) ==
    [t \in Task |-> IF t \in new THEN "RERUN"
                    ELSE IF t \in failed THEN "FAILED" ELSE tasks[t]]

\* RerunPipeline up to the last new task: each target is marked failed and a
\* new task takes its cell.  An error leaves some of this done, the pipeline's
\* status untouched: there is no transaction.
RerunPipeline(p) ==
    /\ MayRerun(p)
    /\ \E targets \in RerunTargets(p) :
       \E done \in SUBSET targets :
        /\ targets # {}
        /\ \A t \in targets : NextAttempt(t).n <= MaxAttempts
        /\ LET new == {NextAttempt(t) : t \in done}
           IN \/ /\ done = targets
                 /\ tasks' = TasksRerun(targets, new)
                 /\ cron' = [op |-> "rerunMark", p |-> p, todo |-> {}, began |-> FALSE]
                 /\ UNCHANGED faults
              \/ /\ \E t \in targets \ done : \E failed \in {done, done \cup {t}} :
                       tasks' = TasksRerun(failed, new)
                 /\ DbError
                 /\ UNCHANGED cron
    /\ UNCHANGED <<pstatus, plabels, began, queue, runners, workers>>

RerunMark ==
    /\ cron.op = "rerunMark"
    /\ \/ pstatus' = [pstatus EXCEPT ![cron.p] = "RERUN"] /\ UNCHANGED faults
       \/ DbError /\ UNCHANGED pstatus
    /\ cron' = FreeLock
    /\ UNCHANGED <<plabels, began, tasks, queue, runners, workers>>

-----------------------------------------------------------------------------
(* RunPipelineInQueue: one loop that admits pipelines.                      *)

\* A fault: the loop does not wait for a permit.
AcquireAtOnce ==
    /\ dq.at = "acquire"
    /\ sema' = sema - 1
    /\ dq' = [dq EXCEPT !.at = "select"]
    /\ UNCHANGED <<db, cron, held, runners, workers, faults>>

DequeueAcquire ==
    /\ dq.at = "acquire"
    /\ sema > 0
    /\ sema' = sema - 1
    /\ dq' = [dq EXCEPT !.at = "select"]
    /\ UNCHANGED <<db, cron, held, runners, workers, faults>>

\* The loop reads the slice of the labels without its lock, while SliceRemove may be
\* moving the elements for a goroutine that ends.  With two labels at most, or with
\* two permits, this misses none that is held: module ParallelLabels.
ReadIsExact ==
    \/ \A x, y, z \in Label : x = y \/ y = z \/ x = z
    \/ MaxParallel <= 2

LabelsMove == \E g \in Goroutine : pc[g] = "release" /\ plabels[on[g]] # {}

\* What the query may be given for the labels held.
LabelsRead == IF ReadIsExact \/ ~LabelsMove THEN {held} ELSE SUBSET held

\* A fault: the query does not look at the labels.
AnyWaiting(p, seen) == pstatus[p] \in Waiting

Admissible(p, seen) == pstatus[p] \in Waiting /\ plabels[p] \cap seen = {}

\* The query takes the smallest id.  The status is not changed under the lock.
DequeueSelect ==
    /\ dq.at = "select"
    /\ LockFree
    /\ \E p \in Pipeline, seen \in LabelsRead :
        /\ Admissible(p, seen)
        /\ \A q \in 1 .. (p - 1) : ~Admissible(q, seen)
        /\ dq' = [at |-> "mark", p |-> p]
    /\ UNCHANGED <<db, cron, sema, held, runners, workers, faults>>

\* A fault: the pipeline stays in the queue until its goroutine takes it out.
MarkBegan ==
    /\ dq.at = "mark"
    /\ began' = [began EXCEPT ![dq.p] = TRUE]
    /\ dq' = [dq EXCEPT !.at = "start"]
    /\ UNCHANGED <<pstatus, plabels, tasks, cron, sema, held, runners, workers, faults>>

DequeueMark ==
    /\ dq.at = "mark"
    /\ pstatus' = [pstatus EXCEPT ![dq.p] = "RUNNING"]
    /\ began' = [began EXCEPT ![dq.p] = TRUE]
    /\ dq' = [dq EXCEPT !.at = "start"]
    /\ UNCHANGED <<plabels, tasks, cron, sema, held, runners, workers, faults>>

\* A fault: the loop returns the permit, and the goroutine will do so again.
StartAndReturnPermit ==
    /\ dq.at = "start"
    /\ \E g \in Goroutine :
        /\ pc[g] = "idle"
        /\ pc' = [pc EXCEPT ![g] = "load"]
        /\ on' = [on EXCEPT ![g] = dq.p]
        /\ held' = held \cup plabels[dq.p]
    /\ dq' = [at |-> "acquire", p |-> 0]
    /\ sema' = sema + 1
    /\ UNCHANGED <<db, cron, frame, workers, faults>>

\* Read the labels of the pipeline, hold them, and start its goroutine.
DequeueStart ==
    /\ dq.at = "start"
    /\ \E g \in Goroutine :
        /\ pc[g] = "idle"
        /\ pc' = [pc EXCEPT ![g] = "load"]
        /\ on' = [on EXCEPT ![g] = dq.p]
        /\ held' = held \cup plabels[dq.p]
    /\ dq' = [at |-> "acquire", p |-> 0]
    /\ UNCHANGED <<db, cron, sema, frame, workers, faults>>

-----------------------------------------------------------------------------
(* runPipeline and RunPipeline: one goroutine, one pipeline, row by row.    *)

\* A fault: the tasks that were rerun are not loaded.
NewTasks(p) == {t \in TasksOf(p) : tasks[t] = "CREATED"}

TasksToRun(p) == {t \in TasksOf(p) : tasks[t] \in Waiting}

RunLoad(g) ==
    /\ pc[g] = "load"
    /\ pc' = [pc EXCEPT ![g] = "row"]
    /\ frame' = [frame EXCEPT ![g] =
          [@ EXCEPT !.todo = TasksToRun(on[g]),
                    !.began = began[on[g]]]]
    /\ UNCHANGED <<db, cron, queue, on, workers, faults>>

RowsLeft(g) == \E t \in frame[g].todo : t.row > frame[g].row

\* A fault: the plan is not cut into rows.
RowAndLater(g, r) == {t \in frame[g].todo : t.row >= r}

RowTasks(g, r) == {t \in frame[g].todo : t.row = r}

\* Set status and stage, then start the tasks of the row, if it has any.
RunRow(g) ==
    /\ pc[g] = "row"
    /\ RowsLeft(g)
    /\ LET r == frame[g].row + 1
           started == RowTasks(g, r)
       IN /\ frame' = [frame EXCEPT ![g] = [@ EXCEPT !.row = r, !.err = "nil"]]
          /\ jobs' = jobs \cup {[g |-> g, t |-> t, at |-> "spawned",
                                 ctx |-> "live", res |-> "nil"] : t \in started}
          /\ pc' = [pc EXCEPT ![g] = IF started = {} THEN "row" ELSE "wait"]
    /\ pstatus' = [pstatus EXCEPT ![on[g]] = "RUNNING"]
    /\ UNCHANGED <<plabels, began, tasks, cron, queue, on, registry, faults>>

JobsOf(g) == {j \in jobs : j.g = g}

\* A fault: one result is taken for all.
OneIsDone(g) == \E j \in JobsOf(g) : j.at = "done"

RowIsDone(g) == \A j \in JobsOf(g) : j.at = "done"

\* Two faults: the error of a row is dropped, or only a cancellation is.
StopsIfCancelled(p, err) == err = "canceled"
StopsIfFailed(p, err) == err = "failed" /\ p \notin SkipOnFail

StopsRun(p, err) == err # "nil" /\ (err = "canceled" \/ p \notin SkipOnFail)

\* A cancellation outweighs the other errors of a row.
RowError(g) ==
    LET results == {j.res : j \in JobsOf(g)}
    IN IF "canceled" \in results THEN "canceled"
       ELSE IF "failed" \in results THEN "failed" ELSE "nil"

\* RunTasksStandalone has every result of the row; its error, if it is a
\* cancellation or SkipOnFail is not set, ends the loop over the rows.
RunJoin(g) ==
    /\ pc[g] = "wait"
    /\ RowIsDone(g)
    /\ frame' = [frame EXCEPT ![g].err = RowError(g)]
    /\ pc' = [pc EXCEPT ![g] = IF StopsRun(on[g], RowError(g)) THEN "compute" ELSE "row"]
    /\ jobs' = jobs \ JobsOf(g)
    /\ UNCHANGED <<db, cron, queue, on, registry, faults>>

\* After the last row runPipelineTasks logs the time since BeganAt.
RunRowsDone(g) ==
    /\ pc[g] = "row"
    /\ ~RowsLeft(g)
    /\ frame[g].began
    /\ pc' = [pc EXCEPT ![g] = "compute"]
    /\ UNCHANGED <<db, cron, queue, on, frame, workers, faults>>

\* A database error: RunPipeline returns it, or runPipeline returns at once.
RunDbError(g) ==
    /\ DbError
    /\ \/ /\ pc[g] = "load" \/ (pc[g] = "row" /\ RowsLeft(g) /\ frame[g].began)
          /\ pc' = [pc EXCEPT ![g] = "compute"]
          /\ frame' = [frame EXCEPT ![g].err = "failed"]
       \/ /\ pc[g] \in {"load", "compute", "save"}
          /\ pc' = [pc EXCEPT ![g] = "release"]
          /\ UNCHANGED frame
    /\ UNCHANGED <<db, cron, queue, on, workers>>

Computed(p, isCancelled) ==
    LET statuses == {tasks[t] : t \in Latest(p)}
        failed == statuses \cap {"FAILED", "CANCELLED"}
    IN IF \/ "RUNNING" \in statuses
          \/ ~isCancelled /\ p \in SkipOnFail /\ statuses \cap Waiting # {}
       THEN "error"
       ELSE IF failed = {} THEN "COMPLETED"
       ELSE IF p \in SkipOnFail /\ "COMPLETED" \in statuses THEN "PARTIAL"
       ELSE "FAILED"

\* Load the pipeline again and call ComputePipelineStatus; on its error
\* runPipeline returns with nothing saved.
RunCompute(g) ==
    /\ pc[g] = "compute"
    /\ LET verdict == Computed(on[g], frame[g].err = "canceled")
       IN IF verdict = "error"
          THEN pc' = [pc EXCEPT ![g] = "release"] /\ UNCHANGED frame
          ELSE /\ pc' = [pc EXCEPT ![g] = "save"]
               /\ frame' = [frame EXCEPT ![g] = [@ EXCEPT !.verdict = verdict,
                                                         !.began = began[on[g]]]]
    /\ UNCHANGED <<db, cron, queue, on, workers, faults>>

\* db.Update saves every column, as loaded but for the status; the notification
\* that follows changes nothing here.
RunSave(g) ==
    /\ pc[g] = "save"
    /\ pstatus' = [pstatus EXCEPT ![on[g]] = frame[g].verdict]
    /\ began' = [began EXCEPT ![on[g]] = frame[g].began]
    /\ pc' = [pc EXCEPT ![g] = "release"]
    /\ UNCHANGED <<plabels, tasks, cron, queue, on, frame, workers, faults>>

\* The deferred calls: give up the labels, then the permit.
RunRelease(g) ==
    /\ pc[g] = "release"
    /\ held' = held \ plabels[on[g]]
    /\ sema' = sema + 1
    /\ pc' = [pc EXCEPT ![g] = "idle"]
    /\ on' = [on EXCEPT ![g] = 0]
    /\ frame' = [frame EXCEPT ![g] = NoFrame]
    /\ UNCHANGED <<db, cron, dq, workers, faults>>

-----------------------------------------------------------------------------
(* runTaskStandalone and RunTask: one goroutine per task of the row.        *)

\* Register the task, then mark it running.
TaskStart(j) ==
    /\ j.at = "spawned"
    /\ tasks[j.t] # "COMPLETED"
    /\ \A e \in registry : e[2] # j.t
    /\ registry' = registry \cup {<<j.g, j.t>>}
    /\ tasks' = [tasks EXCEPT ![j.t] = "RUNNING"]
    /\ jobs' = (jobs \ {j}) \cup {[j EXCEPT !.at = "running"]}
    /\ UNCHANGED <<pstatus, plabels, began, cron, queue, runners, faults>>

\* An error before RunTask installs its deferred function: already registered,
\* already completed, task or pipeline not loaded, or no log file.  The status
\* is not touched, and the deferred Remove drops whoever is registered.
TaskRefused(j) ==
    /\ j.at = "spawned"
    /\ \/ /\ tasks[j.t] = "COMPLETED" \/ \E e \in registry : e[2] = j.t
          /\ UNCHANGED faults
       \/ DbError
    /\ registry' = {e \in registry : e[2] # j.t}
    /\ jobs' = (jobs \ {j}) \cup {[j EXCEPT !.at = "done", !.res = "failed"]}
    /\ UNCHANGED <<db, cron, queue, runners>>

\* The plugin returns, or panics; what a cancelled one returns is its choice.
\* (When the update to RUNNING fails, the deferred one marks the task failed.)
\* With SkipOnFail the error is dropped, the cancellation with it.
TaskEnd(j) ==
    /\ j.at = "running"
    /\ \E outcome \in {"nil", "failed"} \cup
                      (IF j.ctx = "cancelled" THEN {"canceled"} ELSE {}) :
        /\ \/ /\ tasks' = [tasks EXCEPT
                    ![j.t] = IF outcome = "nil" THEN "COMPLETED" ELSE "FAILED"]
              /\ UNCHANGED faults
           \/ DbError /\ UNCHANGED tasks
        /\ jobs' = (jobs \ {j}) \cup {[j EXCEPT !.at = "done",
              !.res = IF j.t.p \in SkipOnFail THEN "nil" ELSE outcome]}
    /\ registry' = {e \in registry : e[2] # j.t}
    /\ UNCHANGED <<pstatus, plabels, began, cron, queue, runners>>

-----------------------------------------------------------------------------
(* The process ends; pipelineServiceInit runs when it is started again.     *)

\* Two faults: what was interrupted is left alone, or put back into the queue.
LeftAlone(status) == status
PutBack(status) == IF status = "RUNNING" THEN "RERUN" ELSE status

AfterRestart(status) == IF status = "RUNNING" THEN "FAILED" ELSE status

Restart ==
    /\ pstatus' = [p \in Pipeline |-> AfterRestart(pstatus[p])]
    /\ tasks' = [t \in Task |-> AfterRestart(tasks[t])]
    /\ cron' = FreeLock
    /\ dq' = [at |-> "acquire", p |-> 0]
    /\ sema' = MaxParallel
    /\ held' = {}
    /\ pc' = [g \in Goroutine |-> "idle"]
    /\ on' = [g \in Goroutine |-> 0]
    /\ frame' = [g \in Goroutine |-> NoFrame]
    /\ jobs' = {}
    /\ registry' = {}
    /\ UNCHANGED <<plabels, began>>

Crash ==
    /\ "crash" \in Ops
    /\ faults < MaxFaults
    /\ faults' = faults + 1
    /\ Restart

\* The loop panics when it cannot mark the pipeline or read its labels.
DequeuePanics ==
    /\ dq.at \in {"mark", "start"}
    /\ DbError
    /\ Restart

\* BeganAt is nil when the goroutine logs the duration, after the last row or
\* an error: nothing recovers the panic of a goroutine, so the process ends.
RunPanics(g) ==
    /\ pc[g] = "row"
    /\ ~frame[g].began
    /\ \/ ~RowsLeft(g) /\ UNCHANGED faults
       \/ RowsLeft(g) /\ DbError
    /\ Restart

-----------------------------------------------------------------------------
ApiStep ==
    CancelSavePipeline \/ CancelSaveTasks \/ CancelOneTask \/ RerunMark

DequeueStep ==
    DequeueAcquire \/ DequeueSelect \/ DequeueMark \/ DequeueStart \/ DequeuePanics

RunStep(g) ==
    \/ RunLoad(g) \/ RunRow(g) \/ RunJoin(g) \/ RunRowsDone(g) \/ RunDbError(g)
    \/ RunCompute(g) \/ RunSave(g) \/ RunRelease(g) \/ RunPanics(g)

TaskStep(j) == TaskStart(j) \/ TaskRefused(j) \/ TaskEnd(j)

Next ==
    \/ \E p \in Pipeline : CreateDbPipeline(p) \/ CancelPipeline(p) \/ RerunPipeline(p)
    \/ ApiStep
    \/ DequeueStep
    \/ \E g \in Goroutine : RunStep(g)
    \/ \E j \in jobs : TaskStep(j)
    \/ Crash

(***************************************************************************)
(* Handlers, the loop and the goroutines never stop between two steps, and  *)
(* plugins return.  The select needs cronLocker, which other handlers take  *)
(* again and again: sync.Mutex hands itself to a waiter that starves, so    *)
(* it is strongly fair.                                                     *)
(***************************************************************************)
Fairness ==
    /\ WF_vars(ApiStep)
    /\ WF_vars(DequeueAcquire) /\ SF_vars(DequeueSelect)
    /\ WF_vars(DequeueMark) /\ WF_vars(DequeueStart)
    /\ \A g \in Goroutine : WF_vars(RunStep(g))
    /\ \A t \in Task : WF_vars(\E j \in jobs : j.t = t /\ TaskStep(j))

Spec == Init /\ [][Next]_vars

FairSpec == Spec /\ Fairness
-----------------------------------------------------------------------------
(* Properties.                                                              *)

ControlPoints == {"idle", "load", "row", "wait", "compute", "save", "release"}
LockOps == {"free", "cancelRow", "cancelRows", "cancelTasks", "rerunMark"}
Jobs == [g : Goroutine, t : Task, at : {"spawned", "running", "done"},
         ctx : {"live", "cancelled"}, res : {"nil", "failed", "canceled"}]
Frames == [todo : SUBSET Task, row : Nat, err : {"nil", "failed", "canceled"},
           began : BOOLEAN, verdict : {"RUNNING", "COMPLETED", "PARTIAL", "FAILED"}]

\* Every variable has its type; whoever has a pipeline in hand has a real one.
TypeOK ==
    /\ pstatus \in [Pipeline -> Status \cup {Absent}]
    /\ plabels \in [Pipeline -> SUBSET Label]
    /\ began \in [Pipeline -> BOOLEAN]
    /\ tasks \in [Task -> Status \cup {Absent}]
    /\ cron \in [op : LockOps, p : Pipeline \cup {0}, todo : SUBSET Task,
                 began : BOOLEAN]
    /\ cron.op # "free" => cron.p \in Pipeline
    /\ dq \in [at : {"acquire", "select", "mark", "start"}, p : Pipeline \cup {0}]
    /\ dq.at \in {"mark", "start"} => dq.p \in Pipeline
    /\ sema \in Nat
    /\ held \subseteq Label
    /\ pc \in [Goroutine -> ControlPoints]
    /\ on \in [Goroutine -> Pipeline \cup {0}]
    /\ \A g \in Goroutine : pc[g] # "idle" => on[g] \in Pipeline
    /\ frame \in [Goroutine -> Frames]
    /\ jobs \subseteq Jobs
    /\ registry \subseteq Goroutine \X Task
    /\ faults \in 0 .. MaxFaults

Live(g) == pc[g] # "idle"

\* runPipeline has not yet saved the status of the pipeline.
Executing(g) == pc[g] \in {"load", "row", "wait", "compute", "save"}

\* Two pipelines that share a parallel label are never run at the same time, as
\* long as the read of the labels held is exact: the dequeuing loop reads them,
\* and much later adds to them.
LabelExclusion ==
    \A g, h \in Goroutine :
        g # h /\ Live(g) /\ Live(h) => plabels[on[g]] \cap plabels[on[h]] = {}

\* PIPELINE_MAX_PARALLEL bounds the pipelines run at the same time.
ParallelBound == Cardinality({g \in Goroutine : Live(g)}) <= MaxParallel

\* Why both hold, as an inductive invariant: those that run and the pipeline in the
\* hand of the loop are in the database (so that their labels are fixed), and no
\* permit is lost; where the read of the labels is exact, the labels of those that
\* run are held, and the pipeline in hand wants none of them.
LabelsHeld == \A g \in Goroutine : Live(g) => plabels[on[g]] \subseteq held
ChosenIsFree == dq.at \in {"mark", "start"} => plabels[dq.p] \cap held = {}
RowsExist ==
    /\ \A g \in Goroutine : Live(g) => pstatus[on[g]] # Absent
    /\ dq.at \in {"mark", "start"} => pstatus[dq.p] # Absent
PermitsAccounted ==
    sema + Cardinality({g \in Goroutine : Live(g)})
         + (IF dq.at = "acquire" THEN 0 ELSE 1) = MaxParallel

QueueInv ==
    /\ RowsExist /\ PermitsAccounted
    /\ ReadIsExact => LabelsHeld /\ ChosenIsFree /\ LabelExclusion

\* No pipeline is run by two goroutines at the same time, although the loop
\* leaves cronLocker before it takes the pipeline out of the waiting statuses.
SingleRun ==
    \A g, h \in Goroutine : g # h /\ Executing(g) /\ Executing(h) => on[g] # on[h]

\* A pipeline or task is RUNNING in the database only while some goroutine of
\* this process is bound to give it another status.
RunningIsOwned ==
    /\ \A p \in Pipeline : pstatus[p] = "RUNNING" =>
          \/ \E g \in Goroutine : Executing(g) /\ on[g] = p
          \/ dq = [at |-> "start", p |-> p]
    /\ \A t \in Task : tasks[t] = "RUNNING" =>
          \E j \in jobs : j.t = t /\ j.at = "running"

\* One pipeline of a blueprint is pending at a time (CreateDbPipeline), as long
\* as neither was rerun: RerunPipeline does not look at the blueprint.
BlueprintExclusive ==
    \A p, q \in Pipeline :
        /\ p # q
        /\ BlueprintOf[p] = BlueprintOf[q] /\ BlueprintOf[p] # 0
        /\ \A t \in TasksOf(p) \cup TasksOf(q) : t.n = 1
        /\ pstatus[p] \in Pending
        => pstatus[q] \notin Pending

\* The tasks of a pipeline that run at the same time are of the same row.
RowBarrier ==
    \A i, j \in jobs :
        i.at = "running" /\ j.at = "running" /\ i.t.p = j.t.p => i.t.row = j.t.row

\* Without SkipOnFail a task starts only when every cell of the rows before
\* has a completed task, over any number of reruns and restarts.
EarlierRowsCompleted ==
    \A j \in jobs : j.t.p \notin SkipOnFail =>
        \A t \in Latest(j.t.p) : t.row < j.t.row => tasks[t] = "COMPLETED"

\* A task that a later attempt at its cell replaces is not waiting or running:
\* RerunPipeline marks it failed, so that the cell is not run twice.
ReplacedIsSettled ==
    \A t \in Task : tasks[t] \in Pending => t \in Latest(t.p)

\* A pipeline becomes COMPLETED only with each cell of its plan completed, by
\* the last of the tasks that the cell was given.
CompletedIsEarned ==
    [][\A p \in Pipeline : pstatus'[p] = "COMPLETED" /\ pstatus[p] # "COMPLETED" =>
          {<<t.row, t.col>> : t \in {u \in Latest(p) : tasks[u] = "COMPLETED"}}
             = Plan[p]]_vars

\* When a run computes the status of its pipeline, no task is in a state that
\* ComputePipelineStatus takes for a call "at a wrong timing".
ComputedOnTime ==
    \A g \in Goroutine : pc[g] = "compute" =>
        Computed(on[g], frame[g].err = "canceled") # "error"

\* The moves of a pipeline's status where nobody cancels.
StatusMoves ==
    ({Absent} \X {"CREATED"}) \cup (Waiting \X {"RUNNING"})
    \cup ({"RUNNING"} \X {"COMPLETED", "PARTIAL", "FAILED"})
    \cup ({"COMPLETED", "PARTIAL", "FAILED"} \X {"RERUN"})

StatusLifecycle ==
    [][\A p \in Pipeline : pstatus'[p] # pstatus[p] =>
          <<pstatus[p], pstatus'[p]>> \in StatusMoves]_vars

\* A pipeline cancelled before it ran is out of the queue until it is rerun.
CancelSticks ==
    [][\A p \in Pipeline : pstatus[p] = "CANCELLED" =>
          pstatus'[p] \in {"CANCELLED", "RERUN"}]_vars

\* The row of a cancelled task is the last: unless the task succeeded all the
\* same, the goroutine does not go on to the rows that follow.
CancelEndsRun ==
    [][\A g \in Goroutine : pc[g] = "wait" /\ pc'[g] = "row" =>
          \A j \in JobsOf(g) : j.ctx = "cancelled" => tasks[j.t] # "FAILED"]_vars

\* Whatever waits or runs comes to an end.
EventuallySettled ==
    \A p \in Pipeline : pstatus[p] \in Pending ~> pstatus[p] \in Ended

\* The goroutines are executions that hold the labels of their pipelines.
Locks == INSTANCE LabelLocks WITH
    Slot <- Goroutine,
    holding <- [g \in Goroutine |->
        IF pc[g] = "idle" THEN [state |-> "idle", labels |-> {}]
        ELSE [state |-> "busy", labels |-> plabels[on[g]]]]

ImplementsLabelLocks == Locks!Spec
=============================================================================
