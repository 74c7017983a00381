----------------------- MODULE PipelineServiceProofs -----------------------
(***************************************************************************)
(* Proofs about PipelineService, for every value of its constants: first    *)
(* the queue, with labels and limit, then the runs of a pipeline.  Those    *)
(* about tasks are in PipelineTaskProofs.                                   *)
(***************************************************************************)
EXTENDS PipelineService, FiniteSetTheorems, TLAPS

\* The initial state is of the right type.
LEMMA TypeInit == Init => TypeOK
<1> SUFFICES ASSUME Init PROVE TypeOK
  OBVIOUS
<1> USE CountsAssumption, RequestAssumption
<1>1. 0 \in Nat /\ FALSE \in BOOLEAN
  OBVIOUS
<1>2. NoFrame \in Frames
  BY DEF NoFrame, Frames
<1>3. FreeLock \in [op : LockOps, p : Pipeline \cup {0}, todo : SUBSET Task,
                    began : BOOLEAN]
  BY DEF FreeLock, LockOps
<1> QED
  BY <1>2, <1>3 DEF Init, TypeOK, FreeLock, Absent, ControlPoints

\* Assigning to fields of a frame or of a job keeps its type.
LEMMA FrameType ==
    ASSUME NEW f \in Frames
    PROVE  /\ \A S \in SUBSET Task, b \in BOOLEAN :
                 [f EXCEPT !.todo = S, !.began = b] \in Frames
           /\ \A r \in Nat : [f EXCEPT !.row = r, !.err = "nil"] \in Frames
           /\ \A e \in {"nil", "failed", "canceled"} : [f EXCEPT !.err = e] \in Frames
           /\ \A v \in {"RUNNING", "COMPLETED", "PARTIAL", "FAILED"}, b \in BOOLEAN :
                 [f EXCEPT !.verdict = v, !.began = b] \in Frames
  BY DEF Frames

LEMMA JobType ==
    ASSUME NEW j \in Jobs
    PROVE  /\ [j EXCEPT !.at = "running"] \in Jobs
           /\ [j EXCEPT !.ctx = "cancelled"] \in Jobs
           /\ \A r \in {"nil", "failed", "canceled"} :
                 [j EXCEPT !.at = "done", !.res = r] \in Jobs
  BY DEF Jobs

\* An action of the environment or of the server keeps the types.
LEMMA TypeNext == TypeOK /\ [Next]_vars => TypeOK'
<1> SUFFICES ASSUME TypeOK, [Next]_vars PROVE TypeOK'
  OBVIOUS
<1> USE CountsAssumption, RequestAssumption DEF TypeOK, db, queue, runners, workers
<1>1. ASSUME NEW p \in Pipeline, CreateDbPipeline(p) PROVE TypeOK'
  BY <1>1 DEF CreateDbPipeline, DbError, Status, Pending, Waiting
<1>2. ASSUME NEW p \in Pipeline, CancelPipeline(p) PROVE TypeOK'
  <2>1. cron'.op \in LockOps /\ cron'.p \in Pipeline
    BY <1>2 DEF CancelPipeline, LockOps
  <2>2. cron' \in [op : LockOps, p : Pipeline \cup {0}, todo : SUBSET Task,
                   began : BOOLEAN]
    <3>1. began[p] \in BOOLEAN
      OBVIOUS
    <3>2. {t \in TasksOf(p) : tasks[t] # "COMPLETED"} \subseteq Task
      BY DEF TasksOf
    <3> DEFINE unfinished == {t \in TasksOf(p) : tasks[t] # "COMPLETED"}
    <3>3. \/ cron' = [op |-> "cancelRow", p |-> p, todo |-> {}, began |-> began[p]]
          \/ cron' = [op |-> "cancelTasks", p |-> p, todo |-> unfinished,
                      began |-> FALSE]
      BY <1>2 DEF CancelPipeline
    <3> HIDE DEF unfinished
    <3>4. unfinished \subseteq Task
      BY <3>2 DEF unfinished
    <3>5. CASE cron' = [op |-> "cancelRow", p |-> p, todo |-> {}, began |-> began[p]]
      BY <3>1, <3>5 DEF LockOps
    <3>6. CASE cron' = [op |-> "cancelTasks", p |-> p, todo |-> unfinished,
                        began |-> FALSE]
      BY <3>4, <3>6 DEF LockOps
    <3> QED
      BY <3>3, <3>5, <3>6
  <2> QED
    BY <1>2, <2>1, <2>2 DEF CancelPipeline
<1>3. ASSUME NEW p \in Pipeline, RerunPipeline(p) PROVE TypeOK'
  <2>1. tasks' \in [Task -> Status \cup {Absent}]
    BY <1>3 DEF RerunPipeline, TasksRerun, Status, Pending, Waiting, Ended
  <2>2. /\ cron' \in [op : LockOps, p : Pipeline \cup {0}, todo : SUBSET Task,
                      began : BOOLEAN]
        /\ cron'.op # "free" => cron'.p \in Pipeline
        /\ faults' \in 0 .. MaxFaults
    <3>1. \/ /\ cron' = [op |-> "rerunMark", p |-> p, todo |-> {}, began |-> FALSE]
             /\ UNCHANGED faults
          \/ DbError /\ UNCHANGED cron
      BY <1>3 DEF RerunPipeline
    <3>2. CASE DbError /\ UNCHANGED cron
      BY <3>2 DEF DbError
    <3>3. CASE /\ cron' = [op |-> "rerunMark", p |-> p, todo |-> {}, began |-> FALSE]
               /\ UNCHANGED faults
      BY <3>3 DEF LockOps
    <3> QED
      BY <3>1, <3>2, <3>3
  <2> QED
    BY <1>3, <2>1, <2>2 DEF RerunPipeline
<1>4. CASE CancelSavePipeline
  <2>1. cron.p \in Pipeline /\ cron.began \in BOOLEAN
    BY <1>4 DEF CancelSavePipeline
  <2>2. CASE /\ pstatus' = [pstatus EXCEPT ![cron.p] = "CANCELLED"]
             /\ began' = [began EXCEPT ![cron.p] = cron.began]
             /\ cron' = [cron EXCEPT !.op = "cancelRows"]
             /\ UNCHANGED faults
    BY <1>4, <2>1, <2>2 DEF CancelSavePipeline, Status, Ended, LockOps
  <2>3. CASE DbError /\ cron' = FreeLock /\ UNCHANGED <<pstatus, began>>
    BY <1>4, <2>3 DEF CancelSavePipeline, DbError, FreeLock, LockOps
  <2> QED
    BY <1>4, <2>2, <2>3 DEF CancelSavePipeline
<1>5. CASE CancelSaveTasks
  BY <1>5 DEF CancelSaveTasks, DbError, Status, Ended, LockOps, FreeLock
<1>6. CASE CancelOneTask
  <2>1. PICK t \in cron.todo :
            /\ cron' = IF cron.todo = {t} THEN FreeLock
                       ELSE [cron EXCEPT !.todo = @ \ {t}]
            /\ registry' = {e \in registry : e[2] # t}
            /\ jobs' = {IF <<j.g, t>> \in registry /\ j.t = t
                        THEN [j EXCEPT !.ctx = "cancelled"] ELSE j : j \in jobs}
    BY <1>6 DEF CancelOneTask
  <2>2. /\ cron' \in [op : LockOps, p : Pipeline \cup {0}, todo : SUBSET Task,
                      began : BOOLEAN]
        /\ cron'.op # "free" => cron'.p \in Pipeline
    BY <1>6, <2>1 DEF CancelOneTask, FreeLock, LockOps
  <2>3. jobs' \subseteq Jobs
    <3>1. \A j \in jobs : [j EXCEPT !.ctx = "cancelled"] \in Jobs /\ j \in Jobs
      BY JobType
    <3>2. \A k \in jobs' : \E j \in jobs : k = j \/ k = [j EXCEPT !.ctx = "cancelled"]
      BY <2>1, Zenon
    <3> QED
      BY <3>1, <3>2
  <2> QED
    BY <1>6, <2>1, <2>2, <2>3 DEF CancelOneTask
<1>7. CASE RerunMark
  BY <1>7 DEF RerunMark, DbError, Status, Pending, Waiting, LockOps, FreeLock
<1>8. CASE DequeueAcquire
  BY <1>8 DEF DequeueAcquire
<1>9. CASE DequeueSelect
  BY <1>9 DEF DequeueSelect
<1>10. CASE DequeueMark
  BY <1>10 DEF DequeueMark, Status, Pending
<1>11. CASE DequeueStart
  BY <1>11 DEF DequeueStart, ControlPoints
<1>12. ASSUME NEW g \in Goroutine, RunLoad(g) PROVE TypeOK'
  <2>1. TasksToRun(on[g]) \in SUBSET Task
    BY DEF TasksToRun, TasksOf
  <2>2. began[on[g]] \in BOOLEAN
    BY <1>12 DEF RunLoad
  <2>3. frame' \in [Goroutine -> Frames]
    BY <1>12, <2>1, <2>2, FrameType DEF RunLoad
  <2> QED
    BY <1>12, <2>3 DEF RunLoad, ControlPoints
<1>13. ASSUME NEW g \in Goroutine, RunRow(g) PROVE TypeOK'
  <2> DEFINE r == frame[g].row + 1
             started == RowTasks(g, r)
  <2>1. frame[g] \in Frames /\ r \in Nat /\ started \subseteq Task
    BY DEF Frames, RowTasks
  <2>2. frame' \in [Goroutine -> Frames]
    BY <1>13, <2>1, FrameType DEF RunRow
  <2>3. jobs' \subseteq Jobs
    <3>1. jobs' = jobs \cup {[g |-> g, t |-> t, at |-> "spawned", ctx |-> "live",
                              res |-> "nil"] : t \in started}
      BY <1>13 DEF RunRow
    <3>2. \A t \in started : [g |-> g, t |-> t, at |-> "spawned", ctx |-> "live",
                              res |-> "nil"] \in Jobs
      BY <2>1 DEF Jobs
    <3> QED
      BY <3>1, <3>2
  <2>4. pstatus' \in [Pipeline -> Status \cup {Absent}]
    BY <1>13 DEF RunRow, Status, Pending
  <2>5. pc' \in [Goroutine -> ControlPoints]
    BY <1>13 DEF RunRow, ControlPoints
  <2>6. \A h \in Goroutine : pc'[h] # "idle" => on'[h] \in Pipeline
    BY <1>13 DEF RunRow
  <2> QED
    BY <1>13, <2>2, <2>3, <2>4, <2>5, <2>6 DEF RunRow
<1>14. ASSUME NEW g \in Goroutine, RunJoin(g) PROVE TypeOK'
  <2>1. RowError(g) \in {"nil", "failed", "canceled"}
    BY DEF RowError
  <2>2. frame' \in [Goroutine -> Frames]
    <3>1. [frame[g] EXCEPT !.err = RowError(g)] \in Frames
      BY <2>1, FrameType
    <3> QED
      BY <1>14, <3>1 DEF RunJoin
  <2>3. CASE StopsRun(on[g], RowError(g))
    BY <1>14, <2>2, <2>3 DEF RunJoin, ControlPoints, JobsOf
  <2>4. CASE ~StopsRun(on[g], RowError(g))
    BY <1>14, <2>2, <2>4 DEF RunJoin, ControlPoints, JobsOf
  <2> QED
    BY <2>3, <2>4
<1>15. ASSUME NEW g \in Goroutine, RunRowsDone(g) PROVE TypeOK'
  BY <1>15 DEF RunRowsDone, ControlPoints
<1>16. ASSUME NEW g \in Goroutine, RunDbError(g) PROVE TypeOK'
  <2>1. frame' \in [Goroutine -> Frames]
    <3>1. [frame[g] EXCEPT !.err = "failed"] \in Frames
      BY FrameType
    <3>2. \/ frame' = [frame EXCEPT ![g].err = "failed"]
          \/ UNCHANGED frame
      BY <1>16 DEF RunDbError
    <3> QED
      BY <3>1, <3>2
  <2>2. pc' \in [Goroutine -> ControlPoints]
    BY <1>16 DEF RunDbError, ControlPoints
  <2>3. \A h \in Goroutine : pc'[h] # "idle" => on'[h] \in Pipeline
    BY <1>16 DEF RunDbError
  <2>4. faults' \in 0 .. MaxFaults
    BY <1>16 DEF RunDbError, DbError
  <2> QED
    BY <1>16, <2>1, <2>2, <2>3, <2>4 DEF RunDbError
<1>17. ASSUME NEW g \in Goroutine, RunCompute(g) PROVE TypeOK'
  <2> DEFINE verdict == Computed(on[g], frame[g].err = "canceled")
  <2>1. verdict \in {"error", "COMPLETED", "PARTIAL", "FAILED"}
    BY DEF Computed
  <2> HIDE DEF verdict
  <2>2. \/ /\ pc' = [pc EXCEPT ![g] = "release"]
           /\ UNCHANGED frame
        \/ /\ verdict # "error"
           /\ pc' = [pc EXCEPT ![g] = "save"]
           /\ frame' = [frame EXCEPT ![g] = [@ EXCEPT !.verdict = verdict,
                                                      !.began = began[on[g]]]]
    BY <1>17 DEF RunCompute, verdict
  <2>3. frame' \in [Goroutine -> Frames]
    <3>1. began[on[g]] \in BOOLEAN
      BY <1>17 DEF RunCompute
    <3>2. verdict # "error" =>
             [frame[g] EXCEPT !.verdict = verdict, !.began = began[on[g]]] \in Frames
      BY <2>1, <3>1, FrameType
    <3> QED
      BY <2>2, <3>2
  <2>4. pc' \in [Goroutine -> ControlPoints]
    BY <2>2 DEF ControlPoints
  <2>5. \A h \in Goroutine : pc'[h] # "idle" => on'[h] \in Pipeline
    BY <1>17, <2>2 DEF RunCompute
  <2> QED
    BY <1>17, <2>3, <2>4, <2>5 DEF RunCompute
<1>18. ASSUME NEW g \in Goroutine, RunSave(g) PROVE TypeOK'
  BY <1>18 DEF RunSave, ControlPoints, Frames, Status, Pending, Ended
<1>19. ASSUME NEW g \in Goroutine, RunRelease(g) PROVE TypeOK'
  BY <1>19 DEF RunRelease, ControlPoints, Frames, NoFrame
<1>20. ASSUME Restart, faults' \in 0 .. MaxFaults PROVE TypeOK'
  BY <1>20 DEF Restart, AfterRestart, FreeLock, LockOps, ControlPoints, NoFrame, Frames, Status, Ended
<1>21. ASSUME NEW j \in jobs, TaskStart(j) PROVE TypeOK'
  BY <1>21 DEF TaskStart, Jobs, Status, Pending
<1>22. ASSUME NEW j \in jobs, TaskRefused(j) PROVE TypeOK'
  <2>1. jobs' \subseteq Jobs
    BY <1>22, JobType DEF TaskRefused
  <2> QED
    BY <1>22, <2>1 DEF TaskRefused, DbError
<1>23. ASSUME NEW j \in jobs, TaskEnd(j) PROVE TypeOK'
  <2>1. jobs' \subseteq Jobs
    <3>1. PICK r \in {"nil", "failed", "canceled"} :
              jobs' = (jobs \ {j}) \cup {[j EXCEPT !.at = "done", !.res = r]}
      BY <1>23 DEF TaskEnd
    <3>2. [j EXCEPT !.at = "done", !.res = r] \in Jobs
      BY JobType
    <3> QED
      BY <3>1, <3>2
  <2>2. tasks' \in [Task -> Status \cup {Absent}]
    BY <1>23 DEF TaskEnd, Status, Ended
  <2>3. faults' \in 0 .. MaxFaults
    BY <1>23 DEF TaskEnd, DbError
  <2> QED
    BY <1>23, <2>1, <2>2, <2>3 DEF TaskEnd
<1>24. CASE UNCHANGED vars
  BY <1>24 DEF vars
<1>25. CASE Crash
  BY <1>20, <1>25 DEF Crash
<1>26. ASSUME NEW g \in Goroutine, RunPanics(g) PROVE TypeOK'
  BY <1>20, <1>26 DEF RunPanics, DbError
<1>27. CASE DequeuePanics
  BY <1>20, <1>27 DEF DequeuePanics, DbError
<1> QED
  BY <1>1, <1>2, <1>3, <1>4, <1>5, <1>6, <1>7, <1>8, <1>9, <1>10, <1>11, <1>12, <1>13,
     <1>14, <1>15, <1>16, <1>17, <1>18, <1>19, <1>21, <1>22, <1>23, <1>24, <1>25, <1>26,
     <1>27
  DEF Next, ApiStep, DequeueStep, RunStep, TaskStep

\* Every variable keeps its type.
THEOREM TypeCorrect == Spec => []TypeOK
  BY TypeInit, TypeNext, PTL DEF Spec

-----------------------------------------------------------------------------
\* No step deletes a pipeline, and the labels of one that exists are fixed.
LEMMA RowsAreKept ==
    ASSUME TypeOK, [Next]_vars
    PROVE  \A p \in Pipeline : pstatus[p] # Absent =>
              pstatus'[p] # Absent /\ plabels'[p] = plabels[p]
<1> SUFFICES ASSUME NEW q \in Pipeline, pstatus[q] # Absent
             PROVE  pstatus'[q] # Absent /\ plabels'[q] = plabels[q]
  OBVIOUS
<1> USE DEF db, Absent
<1>0. pstatus \in [Pipeline -> Status \cup {Absent}] /\ frame \in [Goroutine -> Frames]
  BY DEF TypeOK
<1>1. CASE UNCHANGED <<pstatus, plabels>>
  BY <1>1
<1>2. ASSUME NEW p \in Pipeline, CreateDbPipeline(p) PROVE pstatus'[q] # Absent /\ plabels'[q] = plabels[q]
  BY <1>0, <1>2 DEF CreateDbPipeline, TypeOK
<1>3. ASSUME UNCHANGED plabels,
             \E x : \E s \in {"RUNNING", "CANCELLED", "RERUN", "COMPLETED", "PARTIAL", "FAILED"} :
                pstatus' = [pstatus EXCEPT ![x] = s]
      PROVE  pstatus'[q] # Absent /\ plabels'[q] = plabels[q]
  BY <1>0, <1>3
<1>4. CASE CancelSavePipeline \/ RerunMark \/ DequeueMark
  BY <1>3, <1>4 DEF CancelSavePipeline, RerunMark, DequeueMark
<1>5. ASSUME NEW g \in Goroutine, RunRow(g) \/ RunSave(g)
      PROVE  pstatus'[q] # Absent /\ plabels'[q] = plabels[q]
  BY <1>0, <1>3, <1>5 DEF RunRow, RunSave, Frames
<1>6. CASE Restart
  BY <1>0, <1>6 DEF Restart, AfterRestart
<1>7. ASSUME NEW p \in Pipeline, CancelPipeline(p) \/ RerunPipeline(p)
      PROVE  UNCHANGED <<pstatus, plabels>>
  BY <1>7 DEF CancelPipeline, RerunPipeline
<1>8. ASSUME CancelSaveTasks \/ CancelOneTask \/ DequeueAcquire \/ DequeueSelect \/ DequeueStart
      PROVE  UNCHANGED <<pstatus, plabels>>
  BY <1>8 DEF CancelSaveTasks, CancelOneTask, DequeueAcquire, DequeueSelect, DequeueStart
<1>9. ASSUME NEW g \in Goroutine,
             RunLoad(g) \/ RunJoin(g) \/ RunRowsDone(g) \/ RunDbError(g) \/ RunCompute(g)
             \/ RunRelease(g)
      PROVE  UNCHANGED <<pstatus, plabels>>
  BY <1>9 DEF RunLoad, RunJoin, RunRowsDone, RunDbError, RunCompute, RunRelease
<1>10. ASSUME NEW j \in jobs, TaskStep(j) PROVE UNCHANGED <<pstatus, plabels>>
  BY <1>10 DEF TaskStep, TaskStart, TaskRefused, TaskEnd
<1>11. ASSUME Crash \/ DequeuePanics \/ \E g \in Goroutine : RunPanics(g) PROVE Restart
  BY <1>11 DEF Crash, DequeuePanics, RunPanics
<1> QED
  BY <1>1, <1>2, <1>4, <1>5, <1>6, <1>7, <1>8, <1>9, <1>10, <1>11
  DEF vars, Next, ApiStep, DequeueStep, RunStep

\* What the steps do to the part of the state that QueueInv is about: start,
\* release and restart change which goroutines are live, all others do not.
LEMMA QueueSteps ==
    ASSUME TypeOK, [Next]_vars
    PROVE  \/ /\ UNCHANGED <<on, held>>
              /\ \A g \in Goroutine : Live(g)' <=> Live(g)
              /\ DequeueAcquire \/ DequeueSelect \/ DequeueMark \/ UNCHANGED <<dq, sema>>
           \/ DequeueStart
           \/ \E g \in Goroutine : RunRelease(g)
           \/ Restart
<1> DEFINE Quiet == /\ UNCHANGED <<on, held>>
                    /\ \A g \in Goroutine : Live(g)' <=> Live(g)
                    /\ DequeueAcquire \/ DequeueSelect \/ DequeueMark \/ UNCHANGED <<dq, sema>>
<1> USE DEF queue, runners, Live
<1>1. pc \in [Goroutine -> ControlPoints]
  BY DEF TypeOK
<1>2. ASSUME NEW p \in Pipeline, CreateDbPipeline(p) \/ CancelPipeline(p) \/ RerunPipeline(p)
      PROVE  Quiet
  BY <1>2 DEF CreateDbPipeline, CancelPipeline, RerunPipeline
<1>3. ASSUME ApiStep PROVE Quiet
  BY <1>3 DEF ApiStep, CancelSavePipeline, CancelSaveTasks, CancelOneTask, RerunMark
<1>4. ASSUME DequeueAcquire \/ DequeueSelect \/ DequeueMark PROVE Quiet
  BY <1>4 DEF DequeueAcquire, DequeueSelect, DequeueMark
<1>5. ASSUME NEW g \in Goroutine, pc[g] # "idle", UNCHANGED <<on, dq, sema, held>>,
             NEW c \in {"row", "wait", "compute", "save", "release"},
             pc' = [pc EXCEPT ![g] = c]
      PROVE  Quiet
  BY <1>1, <1>5
<1>6. ASSUME NEW g \in Goroutine,
             RunLoad(g) \/ RunRow(g) \/ RunJoin(g) \/ RunRowsDone(g) \/ RunDbError(g)
             \/ RunCompute(g) \/ RunSave(g)
      PROVE  Quiet
  BY <1>5, <1>6 DEF RunLoad, RunRow, RunJoin, RunRowsDone, RunDbError, RunCompute, RunSave
<1>7. ASSUME NEW j \in jobs, TaskStep(j) PROVE Quiet
  BY <1>7 DEF TaskStep, TaskStart, TaskRefused, TaskEnd
<1>8. ASSUME UNCHANGED vars PROVE Quiet
  BY <1>8 DEF vars
<1>9. ASSUME Crash \/ DequeuePanics \/ \E g \in Goroutine : RunPanics(g) PROVE Restart
  BY <1>9 DEF Crash, DequeuePanics, RunPanics
<1> QED
  BY <1>2, <1>3, <1>4, <1>6, <1>7, <1>8, <1>9 DEF Next, DequeueStep, RunStep

-----------------------------------------------------------------------------
LiveSet == {g \in Goroutine : Live(g)}

\* At most one goroutine more, or less, is live after a step of the queue.
LEMMA LiveSetFinite == IsFiniteSet(LiveSet) /\ Cardinality(LiveSet) \in Nat
<1>1. IsFiniteSet(LiveSet)
  BY GoroutineAssumption, FS_Subset DEF LiveSet
<1> QED
  BY <1>1, FS_CardinalityType

LEMMA QueueInit == Init => QueueInv
<1> SUFFICES ASSUME Init PROVE QueueInv
  OBVIOUS
<1>1. LiveSet = {}
  BY DEF Init, LiveSet, Live
<1>2. Cardinality({g \in Goroutine : Live(g)}) = 0
  BY <1>1, FS_EmptySet DEF LiveSet
<1>3. PermitsAccounted
  BY <1>2, CountsAssumption DEF Init, PermitsAccounted
<1>4. RowsExist /\ LabelsHeld /\ ChosenIsFree /\ LabelExclusion
  BY DEF Init, RowsExist, LabelsHeld, ChosenIsFree, LabelExclusion, Live
<1> QED
  BY <1>3, <1>4 DEF QueueInv

LEMMA ExactStays == ReadIsExact' <=> ReadIsExact
  BY DEF ReadIsExact

\* The goroutines that are live, and what they run, stay: only the loop moves.
LEMMA QuietStep ==
    ASSUME TypeOK, QueueInv, [Next]_vars,
           UNCHANGED <<on, held>>, \A g \in Goroutine : Live(g)' <=> Live(g),
           DequeueAcquire \/ DequeueSelect \/ DequeueMark \/ UNCHANGED <<dq, sema>>
    PROVE  QueueInv'
<1> USE DEF QueueInv
<1>1. \A p \in Pipeline : pstatus[p] # Absent => pstatus'[p] # Absent /\ plabels'[p] = plabels[p]
  BY RowsAreKept
<1>2. \A g \in Goroutine : Live(g) => on[g] \in Pipeline
  BY DEF TypeOK, Live
<1>3. dq' = dq \/ dq'.p = dq.p \/ DequeueSelect
  BY DEF DequeueAcquire, DequeueMark, TypeOK
<1>4. dq.at \in {"mark", "start"} => dq.p \in Pipeline
  BY DEF TypeOK
<1>5. DequeueSelect => /\ dq'.p \in Pipeline
                       /\ pstatus[dq'.p] # Absent
                       /\ ReadIsExact => plabels[dq'.p] \cap held = {}
  <2> SUFFICES ASSUME DequeueSelect
               PROVE  /\ dq'.p \in Pipeline
                      /\ pstatus[dq'.p] # Absent
                      /\ ReadIsExact => plabels[dq'.p] \cap held = {}
    OBVIOUS
  <2>1. PICK p \in Pipeline, seen \in LabelsRead : Admissible(p, seen) /\ dq' = [at |-> "mark", p |-> p]
    BY DEF DequeueSelect
  <2>2. ReadIsExact => seen = held
    BY <2>1 DEF LabelsRead
  <2> QED
    BY <2>1, <2>2 DEF Admissible, Waiting, Absent
<1>6. dq'.at \in {"mark", "start"} => DequeueSelect \/ (dq.at \in {"mark", "start"} /\ dq'.p = dq.p)
  BY DEF DequeueAcquire, DequeueMark, TypeOK
<1>7. RowsExist'
  BY <1>1, <1>2, <1>4, <1>5, <1>6 DEF RowsExist
<1>8. ASSUME ReadIsExact PROVE LabelsHeld' /\ ChosenIsFree' /\ LabelExclusion'
  <2>1. LabelsHeld'
    BY <1>1, <1>2, <1>8 DEF LabelsHeld, RowsExist
  <2>2. LabelExclusion'
    BY <1>1, <1>2, <1>8 DEF LabelExclusion, RowsExist
  <2>3. ChosenIsFree'
    BY <1>1, <1>2, <1>4, <1>5, <1>6, <1>8 DEF ChosenIsFree, RowsExist
  <2> QED
    BY <2>1, <2>2, <2>3
<1>10. PermitsAccounted'
  <2>1. {g \in Goroutine : Live(g)'} = LiveSet
    BY DEF LiveSet
  <2>2. sema \in Nat /\ MaxParallel \in Nat
    BY CountsAssumption DEF TypeOK
  <2>3. PICK left \in Nat : left = sema'
    BY TypeNext DEF TypeOK
  <2>4. PICK n \in Nat : n = Cardinality(LiveSet)
    BY LiveSetFinite
  <2>5. PICK k \in {0, 1} : k = IF dq.at = "acquire" THEN 0 ELSE 1
    OBVIOUS
  <2>6. PICK l \in {0, 1} : l = IF dq'.at = "acquire" THEN 0 ELSE 1
    OBVIOUS
  <2>7. left + l = sema + k
    BY <2>2, <2>3, <2>5, <2>6 DEF DequeueAcquire, DequeueSelect, DequeueMark, queue, TypeOK
  <2>8. sema + n + k = MaxParallel
    BY <2>4, <2>5 DEF PermitsAccounted, LiveSet
  <2>9. left + n + l = MaxParallel
    BY <2>2, <2>7, <2>8
  <2> QED
    BY <2>1, <2>3, <2>4, <2>6, <2>9 DEF PermitsAccounted
<1> QED
  BY <1>7, <1>8, <1>10, ExactStays

\* A goroutine starts: its labels are free, and the loop's permit becomes its.
LEMMA StartStep ==
    ASSUME TypeOK, QueueInv, DequeueStart
    PROVE  QueueInv' /\ Cardinality(LiveSet) < MaxParallel
<1> USE DEF QueueInv
<1>1. PICK g \in Goroutine :
          /\ pc[g] = "idle"
          /\ pc' = [pc EXCEPT ![g] = "load"]
          /\ on' = [on EXCEPT ![g] = dq.p]
          /\ held' = held \cup plabels[dq.p]
  BY DEF DequeueStart
<1>2. /\ dq.at = "start" /\ dq'.at = "acquire"
      /\ UNCHANGED <<pstatus, plabels, sema>>
  BY DEF DequeueStart, db
<1>3. pc \in [Goroutine -> ControlPoints] /\ on \in [Goroutine -> Pipeline \cup {0}]
  BY DEF TypeOK
<1>4. \A h \in Goroutine : /\ Live(h)' <=> (h = g \/ Live(h))
                           /\ h # g => on'[h] = on[h]
                           /\ h = g => on'[h] = dq.p /\ ~Live(h)
  BY <1>1, <1>3 DEF Live
<1>5. RowsExist'
  BY <1>1, <1>2, <1>4 DEF RowsExist
<1>6. ASSUME ReadIsExact PROVE LabelsHeld' /\ ChosenIsFree' /\ LabelExclusion'
  <2>1. ChosenIsFree' /\ LabelsHeld'
    BY <1>1, <1>2, <1>4, <1>6 DEF ChosenIsFree, LabelsHeld
  <2>2. LabelExclusion'
    BY <1>2, <1>4, <1>6 DEF LabelExclusion, LabelsHeld, ChosenIsFree
  <2> QED
    BY <2>1, <2>2
<1>7. PermitsAccounted' /\ Cardinality(LiveSet) < MaxParallel
  <2>1. {h \in Goroutine : Live(h)'} = LiveSet \cup {g} /\ g \notin LiveSet
    BY <1>4 DEF LiveSet
  <2>2. Cardinality(LiveSet \cup {g}) = Cardinality(LiveSet) + 1
    BY <2>1, LiveSetFinite, FS_AddElement
  <2>3. sema \in Nat /\ MaxParallel \in Nat
    BY CountsAssumption DEF TypeOK
  <2>4. sema + Cardinality(LiveSet) + 1 = MaxParallel
    BY <1>2, LiveSetFinite DEF PermitsAccounted, LiveSet
  <2>5. PermitsAccounted' <=> sema + (Cardinality(LiveSet) + 1) + 0 = MaxParallel
    BY <1>2, <2>1, <2>2 DEF PermitsAccounted
  <2>6. PICK n \in Nat : n = Cardinality(LiveSet)
    BY LiveSetFinite
  <2> QED
    BY <2>3, <2>4, <2>5, <2>6
<1> QED
  BY <1>5, <1>6, <1>7, ExactStays

\* A goroutine ends: the labels of the others stay held.
LEMMA ReleaseStep ==
    ASSUME TypeOK, QueueInv, NEW g \in Goroutine, RunRelease(g)
    PROVE  QueueInv'
<1> USE DEF QueueInv
<1>1. /\ pc[g] = "release"
      /\ held' = held \ plabels[on[g]]
      /\ sema' = sema + 1
      /\ pc' = [pc EXCEPT ![g] = "idle"]
      /\ on' = [on EXCEPT ![g] = 0]
      /\ UNCHANGED <<pstatus, plabels, dq>>
  BY DEF RunRelease, db
<1>2. \A h \in Goroutine : /\ Live(h)' <=> (h # g /\ Live(h))
                           /\ Live(h)' => on'[h] = on[h]
  BY <1>1 DEF Live, TypeOK
<1>3. Live(g)
  BY <1>1 DEF Live
<1>4. RowsExist'
  BY <1>1, <1>2 DEF RowsExist
<1>5. ASSUME ReadIsExact PROVE LabelsHeld' /\ ChosenIsFree' /\ LabelExclusion'
  <2>1. ChosenIsFree'
    BY <1>1, <1>2, <1>5 DEF ChosenIsFree
  <2>2. LabelsHeld'
    BY <1>1, <1>2, <1>3, <1>5 DEF LabelsHeld, LabelExclusion
  <2>3. LabelExclusion'
    BY <1>1, <1>2, <1>5 DEF LabelExclusion
  <2> QED
    BY <2>1, <2>2, <2>3
<1>7. PermitsAccounted'
  <2>1. {h \in Goroutine : Live(h)'} = LiveSet \ {g} /\ g \in LiveSet
    BY <1>2, <1>3 DEF LiveSet
  <2>2. Cardinality(LiveSet \ {g}) = Cardinality(LiveSet) - 1
    BY <2>1, LiveSetFinite, FS_RemoveElement
  <2>3. sema \in Nat
    BY DEF TypeOK
  <2> DEFINE n == Cardinality(LiveSet)
             taken == IF dq.at = "acquire" THEN 0 ELSE 1
  <2>4. sema + n + taken = MaxParallel
    BY DEF PermitsAccounted, LiveSet
  <2>5. PermitsAccounted' <=> sema' + (n - 1) + taken = MaxParallel
    BY <1>1, <2>1, <2>2 DEF PermitsAccounted
  <2>6. n \in Nat /\ taken \in Nat
    BY LiveSetFinite
  <2> HIDE DEF n, taken
  <2> QED
    BY <1>1, <2>3, <2>4, <2>5, <2>6
<1> QED
  BY <1>4, <1>5, <1>7, ExactStays

\* After a restart nothing is live and every permit is back.
LEMMA RestartStep ==
    ASSUME Restart
    PROVE  QueueInv' /\ \A g \in Goroutine : ~Live(g)'
<1>1. \A g \in Goroutine : ~Live(g)'
  BY DEF Restart, Live
<1>2. {g \in Goroutine : Live(g)'} = {}
  BY <1>1
<1>3. PermitsAccounted'
  <2>1. sema' = MaxParallel /\ dq'.at = "acquire"
    BY DEF Restart
  <2>2. Cardinality({g \in Goroutine : Live(g)'}) = 0
    BY <1>2, FS_EmptySet
  <2>3. PermitsAccounted' <=>
          sema' + Cardinality({g \in Goroutine : Live(g)'})
          + (IF dq'.at = "acquire" THEN 0 ELSE 1) = MaxParallel
    BY DEF PermitsAccounted
  <2>4. PermitsAccounted' <=> MaxParallel + 0 + 0 = MaxParallel
    BY <2>1, <2>2, <2>3
  <2>5. MaxParallel + 0 + 0 = MaxParallel
    BY CountsAssumption
  <2> QED
    BY <2>4, <2>5
<1>4. RowsExist' /\ LabelsHeld' /\ ChosenIsFree' /\ LabelExclusion'
  BY <1>1 DEF Restart, RowsExist, LabelsHeld, ChosenIsFree, LabelExclusion
<1> QED
  BY <1>1, <1>3, <1>4 DEF QueueInv

LEMMA QueueNext == TypeOK /\ QueueInv /\ [Next]_vars => QueueInv'
  BY QueueSteps, QuietStep, StartStep, ReleaseStep, RestartStep

\* The inductive invariant of the queue: no permit is lost or returned twice, whatever fails,
\* and where the read of the labels is exact the labels held are those of the running ones.
THEOREM QueueCorrect == Spec => []QueueInv
<1>1. Init => TypeOK /\ QueueInv
  BY TypeInit, QueueInit
<1>2. TypeOK /\ QueueInv /\ [Next]_vars => (TypeOK /\ QueueInv)'
  BY TypeNext, QueueNext
<1> QED
  BY <1>1, <1>2, PTL DEF Spec

\* With two parallel labels at most or two permits, so that the loop's unlocked read of
\* the labels held is exact, pipelines that share a parallel label are never run at the
\* same time, whatever is cancelled, rerun or fails meanwhile.  (With three labels and
\* three permits they can be: see the README.)
THEOREM LabelsExclude ==
    ASSUME ReadIsExact
    PROVE  Spec => []LabelExclusion
<1>1. QueueInv => LabelExclusion
  BY DEF QueueInv
<1> QED
  BY <1>1, QueueCorrect, PTL

\* PIPELINE_MAX_PARALLEL bounds the pipelines that are run at the same time.
THEOREM ParallelIsBounded == Spec => []ParallelBound
<1>1. TypeOK /\ QueueInv => ParallelBound
  <2> SUFFICES ASSUME TypeOK, QueueInv PROVE ParallelBound
    OBVIOUS
  <2>1. sema \in Nat
    BY DEF TypeOK
  <2> QED
    BY <2>1, LiveSetFinite, CountsAssumption
    DEF QueueInv, PermitsAccounted, ParallelBound, LiveSet
<1> QED
  BY <1>1, TypeCorrect, QueueCorrect, PTL

-----------------------------------------------------------------------------
\* Where the loop's read of the labels held is exact, the service implements LabelLocks:
\* its steps start or finish one holder of labels, end them all, or leave the holders
\* as they are.
THEOREM LabelLocksImplemented ==
    ASSUME ReadIsExact
    PROVE  Spec => ImplementsLabelLocks
<1> DEFINE H == [g \in Goroutine |->
                   IF pc[g] = "idle" THEN [state |-> "idle", labels |-> {}]
                   ELSE [state |-> "busy", labels |-> plabels[on[g]]]]
<1>1. Init => Locks!Init
  BY DEF Init, Locks!Init, Locks!Idle
<1>2. ASSUME TypeOK, QueueInv, [Next]_vars
      PROVE  [Locks!Next]_H
  <2> USE DEF Locks!Idle
  <2>1. \A g \in Goroutine : Live(g) => on[g] \in Pipeline /\ plabels'[on[g]] = plabels[on[g]]
    BY <1>2, RowsAreKept DEF TypeOK, Live, QueueInv, RowsExist
  <2>2. CASE /\ UNCHANGED on
             /\ \A g \in Goroutine : Live(g)' <=> Live(g)
    <3>1. H' = H
      BY <2>1, <2>2 DEF Live
    <3> QED
      BY <3>1
  <2>3. CASE DequeueStart
    <3>1. PICK g \in Goroutine :
              /\ pc[g] = "idle"
              /\ pc' = [pc EXCEPT ![g] = "load"]
              /\ on' = [on EXCEPT ![g] = dq.p]
              /\ dq.at = "start"
              /\ UNCHANGED plabels
      BY <2>3 DEF DequeueStart, db
    <3>2. PICK L \in SUBSET Label : L = plabels[dq.p]
      BY <1>2, <3>1 DEF TypeOK
    <3>3. Locks!Busy = LiveSet
      BY DEF Locks!Busy, LiveSet, Live
    <3>4. Cardinality(Locks!Busy) < MaxParallel
      BY <1>2, <2>3, <3>3, StartStep
    <3>5. \A b \in Locks!Busy : H[b].labels \cap L = {}
      BY <1>2, <3>1, <3>2, <3>3 DEF QueueInv, LabelsHeld, ChosenIsFree, LiveSet, Live
    <3>6. H' = [H EXCEPT ![g] = [state |-> "busy", labels |-> L]]
      BY <1>2, <3>1, <3>2 DEF TypeOK
    <3>7. H[g].state = Locks!Idle
      BY <3>1
    <3> HIDE DEF H
    <3>8. Locks!Cardinality(Locks!Busy) = Cardinality(Locks!Busy)
      BY DEF Locks!Cardinality, Cardinality
    <3>9. Locks!Start(g, L)
      BY <3>4, <3>5, <3>6, <3>7, <3>8 DEF Locks!Start, H
    <3> QED
      BY <3>9 DEF Locks!Next
  <2>4. ASSUME NEW g \in Goroutine, RunRelease(g) PROVE Locks!Next
    <3>1. /\ pc[g] = "release"
          /\ pc' = [pc EXCEPT ![g] = "idle"]
          /\ on' = [on EXCEPT ![g] = 0]
          /\ UNCHANGED plabels
      BY <2>4 DEF RunRelease, db
    <3>2. H' = [H EXCEPT ![g] = [state |-> "idle", labels |-> {}]]
      BY <1>2, <3>1 DEF TypeOK
    <3>3. Locks!Finish(g)
      BY <3>1, <3>2 DEF Locks!Finish
    <3> QED
      BY <3>3 DEF Locks!Next
  <2>5. CASE Restart
    <3>1. Locks!Restart
      BY <2>5 DEF Restart, Locks!Restart
    <3> QED
      BY <3>1 DEF Locks!Next
  <2> QED
    BY <1>2, <2>2, <2>3, <2>4, <2>5, QueueSteps
<1> QED
  BY <1>1, <1>2, TypeCorrect, QueueCorrect, PTL DEF Spec, ImplementsLabelLocks, Locks!Spec

-----------------------------------------------------------------------------
(* The runs: who runs a pipeline, its rows and its tasks.                   *)
(*                                                                          *)
(* What the environment does matters: a pipeline that is cancelled while    *)
(* the loop has it in hand runs on although its row says CANCELLED, and     *)
(* can then be rerun. So what is proved here holds where nothing is         *)
(* cancelled or nothing is rerun, whatever else goes wrong.                 *)

NoCancel == "cancel" \notin Ops
NoRerun == "rerun" \notin Ops /\ "rerunTask" \notin Ops

\* No pipeline that was cancelled is rerun.
NoRevival == NoCancel \/ NoRerun

\* Whoever has the pipeline has taken it out of the waiting statuses.
Busy(p) ==
    \/ \E g \in Goroutine : Executing(g) /\ on[g] = p
    \/ dq.at = "start" /\ dq.p = p

BusyIsRunning ==
    \A p \in Pipeline : Busy(p) =>
        pstatus[p] \notin Waiting /\ (NoCancel => pstatus[p] = "RUNNING")

\* The loop takes a pipeline that nobody runs.
HandIsIdle ==
    dq.at \in {"mark", "start"} =>
        \A g \in Goroutine : Executing(g) => on[g] # dq.p

HandIsWaiting == NoCancel /\ dq.at = "mark" => pstatus[dq.p] \in Waiting

\* A pipeline is rerun when it has ended.
RerunHasEnded == cron.op = "rerunMark" => NoCancel /\ pstatus[cron.p] \in Ended

NobodyCancels ==
    NoCancel => /\ cron.op \in {"free", "rerunMark"}
                /\ \A p \in Pipeline : pstatus[p] # "CANCELLED"

OwnInv ==
    /\ SingleRun /\ BusyIsRunning
    /\ HandIsIdle /\ HandIsWaiting
    /\ RerunHasEnded /\ NobodyCancels

\* The locals of a goroutine.
FrameInv ==
    \A g \in Goroutine :
        /\ pc[g] \in {"idle", "load"} => frame[g] = NoFrame
        /\ \A t \in frame[g].todo : t.p = on[g]
        /\ pc[g] = "save" => frame[g].verdict # "RUNNING"

\* The jobs of a goroutine are those of the row that it waits for, one a task.
JobsPlaced ==
    \A j \in jobs : pc[j.g] = "wait" /\ j.t.p = on[j.g] /\ j.t.row = frame[j.g].row
JobsDistinct == \A j, k \in jobs : j.g = k.g /\ j.t = k.t => j = k

\* A task that runs, or that went well, is not marked failed.
WentWell(j) == j.at = "done" /\ j.res = "nil" /\ j.t.p \notin SkipOnFail
DoneWell == \A j \in jobs : j.at = "running" \/ WentWell(j) => tasks[j.t] # "FAILED"

JobsInv == JobsPlaced /\ JobsDistinct /\ DoneWell

-----------------------------------------------------------------------------
(* What the steps do.                                                       *)

\* Only goroutine g moves.
OnlyRunner(g) ==
    \A h \in Goroutine \ {g} :
        pc'[h] = pc[h] /\ on'[h] = on[h] /\ frame'[h] = frame[h]

LEMMA RunnerTypes ==
    ASSUME TypeOK
    PROVE  /\ pc \in [Goroutine -> ControlPoints] /\ on \in [Goroutine -> Pipeline \cup {0}]
           /\ frame \in [Goroutine -> Frames]
           /\ \A g \in Goroutine : Executing(g) => on[g] \in Pipeline
  BY DEF TypeOK, Executing

LEMMA LoadEffect ==
    ASSUME TypeOK, NEW g \in Goroutine, RunLoad(g)
    PROVE  /\ pc[g] = "load" /\ pc'[g] = "row" /\ on' = on
           /\ frame'[g].todo = TasksToRun(on[g]) /\ frame'[g].row = frame[g].row
           /\ frame'[g].err = frame[g].err /\ frame'[g].verdict = frame[g].verdict
           /\ OnlyRunner(g)
           /\ UNCHANGED <<pstatus, tasks, cron, dq, jobs, registry>>
<1>1. frame[g] \in Frames /\ pc \in [Goroutine -> ControlPoints] /\ frame \in [Goroutine -> Frames]
  BY RunnerTypes
<1> DEFINE f == [frame[g] EXCEPT !.todo = TasksToRun(on[g]), !.began = began[on[g]]]
<1>2. /\ f.todo = TasksToRun(on[g]) /\ f.row = frame[g].row
      /\ f.err = frame[g].err /\ f.verdict = frame[g].verdict
  BY <1>1 DEF Frames
<1>3. frame' = [frame EXCEPT ![g] = f]
  BY DEF RunLoad
<1> HIDE DEF f
<1> QED
  BY <1>1, <1>2, <1>3 DEF RunLoad, OnlyRunner, db, queue, workers

LEMMA RowEffect ==
    ASSUME TypeOK, NEW g \in Goroutine, RunRow(g)
    PROVE  /\ pc[g] = "row" /\ RowsLeft(g) /\ on' = on
           /\ pc'[g] = IF RowTasks(g, frame[g].row + 1) = {} THEN "row" ELSE "wait"
           /\ frame'[g].todo = frame[g].todo /\ frame'[g].row = frame[g].row + 1
           /\ frame'[g].err = "nil" /\ frame'[g].verdict = frame[g].verdict
           /\ OnlyRunner(g)
           /\ jobs' = jobs \cup {[g |-> g, t |-> t, at |-> "spawned", ctx |-> "live",
                                  res |-> "nil"] : t \in RowTasks(g, frame[g].row + 1)}
           /\ pstatus' = [pstatus EXCEPT ![on[g]] = "RUNNING"]
           /\ UNCHANGED <<tasks, cron, dq, registry>>
<1>1. frame[g] \in Frames /\ pc \in [Goroutine -> ControlPoints] /\ frame \in [Goroutine -> Frames]
  BY RunnerTypes
<1> DEFINE f == [frame[g] EXCEPT !.row = frame[g].row + 1, !.err = "nil"]
<1>2. /\ f.todo = frame[g].todo /\ f.row = frame[g].row + 1
      /\ f.err = "nil" /\ f.verdict = frame[g].verdict
  BY <1>1 DEF Frames
<1>3. frame' = [frame EXCEPT ![g] = f]
  BY DEF RunRow
<1> HIDE DEF f
<1> QED
  BY <1>1, <1>2, <1>3 DEF RunRow, OnlyRunner, queue

LEMMA JoinEffect ==
    ASSUME TypeOK, NEW g \in Goroutine, RunJoin(g)
    PROVE  /\ pc[g] = "wait" /\ RowIsDone(g) /\ on' = on
           /\ pc'[g] = IF StopsRun(on[g], RowError(g)) THEN "compute" ELSE "row"
           /\ frame'[g].todo = frame[g].todo /\ frame'[g].row = frame[g].row
           /\ frame'[g].err = RowError(g) /\ frame'[g].verdict = frame[g].verdict
           /\ OnlyRunner(g)
           /\ jobs' = jobs \ JobsOf(g)
           /\ UNCHANGED <<pstatus, tasks, cron, dq, registry>>
<1>1. frame[g] \in Frames /\ pc \in [Goroutine -> ControlPoints] /\ frame \in [Goroutine -> Frames]
  BY RunnerTypes
<1> DEFINE f == [frame[g] EXCEPT !.err = RowError(g)]
<1>2. /\ f.todo = frame[g].todo /\ f.row = frame[g].row
      /\ f.err = RowError(g) /\ f.verdict = frame[g].verdict
  BY <1>1 DEF Frames
<1>3. frame' = [frame EXCEPT ![g] = f]
  BY DEF RunJoin
<1> HIDE DEF f
<1> QED
  BY <1>1, <1>2, <1>3 DEF RunJoin, OnlyRunner, db, queue

\* After the last row, or after an error of the database.
LEMMA EndEffect ==
    ASSUME TypeOK, NEW g \in Goroutine, RunRowsDone(g) \/ RunDbError(g)
    PROVE  /\ on' = on /\ OnlyRunner(g)
           /\ \/ /\ RunRowsDone(g) /\ frame' = frame
                 /\ pc[g] = "row" /\ ~RowsLeft(g) /\ pc'[g] = "compute"
              \/ /\ RunDbError(g) /\ "dbError" \in Ops
                 /\ pc[g] \in {"load", "row", "compute", "save"}
                 /\ pc'[g] \in {"compute", "release"}
                 /\ frame'[g].todo = frame[g].todo
           /\ UNCHANGED <<pstatus, tasks, cron, dq, jobs, registry>>
<1>1. frame[g] \in Frames /\ pc \in [Goroutine -> ControlPoints] /\ frame \in [Goroutine -> Frames]
  BY RunnerTypes
<1>2. CASE RunRowsDone(g)
  BY <1>1, <1>2 DEF RunRowsDone, OnlyRunner, db, queue, workers
<1>3. CASE RunDbError(g)
  <2> DEFINE f == [frame[g] EXCEPT !.err = "failed"]
  <2>1. f.todo = frame[g].todo
    BY <1>1 DEF Frames
  <2>2. frame' = [frame EXCEPT ![g] = f] \/ frame' = frame
    BY <1>3 DEF RunDbError
  <2> HIDE DEF f
  <2> QED
    BY <1>1, <1>3, <2>1, <2>2 DEF RunDbError, DbError, OnlyRunner, db, queue, workers
<1> QED
  BY <1>2, <1>3

LEMMA ComputeEffect ==
    ASSUME TypeOK, NEW g \in Goroutine, RunCompute(g)
    PROVE  LET verdict == Computed(on[g], frame[g].err = "canceled") IN
           /\ pc[g] = "compute" /\ on' = on
           /\ \/ verdict = "error" /\ pc'[g] = "release" /\ frame' = frame
              \/ /\ verdict \in {"COMPLETED", "PARTIAL", "FAILED"} /\ pc'[g] = "save"
                 /\ frame'[g].verdict = verdict /\ frame'[g].todo = frame[g].todo
           /\ OnlyRunner(g)
           /\ UNCHANGED <<pstatus, tasks, cron, dq, jobs, registry>>
<1> DEFINE verdict == Computed(on[g], frame[g].err = "canceled")
<1>1. frame[g] \in Frames /\ pc \in [Goroutine -> ControlPoints] /\ frame \in [Goroutine -> Frames]
  BY RunnerTypes
<1>2. verdict \in {"error", "COMPLETED", "PARTIAL", "FAILED"}
  BY DEF Computed
<1> HIDE DEF verdict
<1> DEFINE f == [frame[g] EXCEPT !.verdict = verdict, !.began = began[on[g]]]
<1>3. f.verdict = verdict /\ f.todo = frame[g].todo
  BY <1>1 DEF Frames
<1>4. \/ verdict = "error" /\ pc' = [pc EXCEPT ![g] = "release"] /\ frame' = frame
      \/ /\ verdict # "error" /\ pc' = [pc EXCEPT ![g] = "save"]
         /\ frame' = [frame EXCEPT ![g] = f]
  BY DEF RunCompute, verdict
<1>5. pc[g] = "compute" /\ UNCHANGED <<on, pstatus, tasks, cron, dq, jobs, registry>>
  BY DEF RunCompute, db, queue, workers
<1> HIDE DEF f
<1>6. OnlyRunner(g)
  BY <1>1, <1>4, <1>5 DEF OnlyRunner
<1>7. \/ verdict = "error" /\ pc'[g] = "release" /\ frame' = frame
      \/ /\ verdict \in {"COMPLETED", "PARTIAL", "FAILED"} /\ pc'[g] = "save"
         /\ frame'[g].verdict = verdict /\ frame'[g].todo = frame[g].todo
  BY <1>1, <1>2, <1>3, <1>4
<1> QED
  BY <1>5, <1>6, <1>7 DEF verdict

LEMMA SaveEffect ==
    ASSUME TypeOK, NEW g \in Goroutine, RunSave(g)
    PROVE  /\ pc[g] = "save" /\ pc'[g] = "release" /\ on' = on /\ frame' = frame
           /\ OnlyRunner(g)
           /\ pstatus' = [pstatus EXCEPT ![on[g]] = frame[g].verdict]
           /\ UNCHANGED <<tasks, cron, dq, jobs, registry>>
  BY RunnerTypes DEF RunSave, OnlyRunner, queue, workers

LEMMA ReleaseEffect ==
    ASSUME TypeOK, NEW g \in Goroutine, RunRelease(g)
    PROVE  /\ pc[g] = "release" /\ pc'[g] = "idle" /\ on'[g] = 0 /\ frame'[g] = NoFrame
           /\ OnlyRunner(g)
           /\ UNCHANGED <<pstatus, tasks, cron, dq, jobs, registry>>
  BY RunnerTypes DEF RunRelease, OnlyRunner, db, workers

LEMMA StartEffect ==
    ASSUME TypeOK, DequeueStart
    PROVE  /\ dq.at = "start" /\ dq.p \in Pipeline /\ dq'.at = "acquire"
           /\ \E g \in Goroutine :
                 /\ pc[g] = "idle" /\ pc'[g] = "load" /\ on'[g] = dq.p /\ frame' = frame
                 /\ OnlyRunner(g)
           /\ UNCHANGED <<pstatus, tasks, cron, jobs, registry>>
  BY RunnerTypes DEF DequeueStart, OnlyRunner, db, workers, TypeOK

LEMMA RestartEffect ==
    ASSUME TypeOK, Restart
    PROVE  /\ \A g \in Goroutine : pc'[g] = "idle" /\ on'[g] = 0 /\ frame'[g] = NoFrame
           /\ \A p \in Pipeline : pstatus'[p] = AfterRestart(pstatus[p])
           /\ \A t \in Task : tasks'[t] = AfterRestart(tasks[t])
           /\ jobs' = {} /\ registry' = {} /\ dq'.at = "acquire" /\ cron'.op = "free"
  BY DEF Restart, FreeLock

\* A job moves, with the goroutine and the task it has.
LEMMA JobEffect ==
    ASSUME TypeOK, NEW j \in jobs, TaskStep(j)
    PROVE  /\ j \in Jobs
           /\ \E k \in Jobs :
                /\ jobs' = (jobs \ {j}) \cup {k}
                /\ k.g = j.g /\ k.t = j.t /\ k.ctx = j.ctx /\ k.at \in {"running", "done"}
                /\ \/ /\ TaskStart(j) /\ k.at = "running" /\ k.res = j.res
                      /\ tasks' = [tasks EXCEPT ![j.t] = "RUNNING"]
                   \/ TaskRefused(j) /\ k.at = "done" /\ k.res = "failed" /\ tasks' = tasks
                   \/ /\ TaskEnd(j) /\ k.at = "done"
                      /\ \E outcome \in {"nil", "failed"} \cup
                                        (IF j.ctx = "cancelled" THEN {"canceled"} ELSE {}) :
                            /\ k.res = IF j.t.p \in SkipOnFail THEN "nil" ELSE outcome
                            /\ \/ tasks' = [tasks EXCEPT ![j.t] =
                                              IF outcome = "nil" THEN "COMPLETED" ELSE "FAILED"]
                               \/ "dbError" \in Ops /\ tasks' = tasks
           /\ UNCHANGED <<pstatus, cron, dq, pc, on, frame>>
<1>1. j \in Jobs
  BY DEF TypeOK
<1>2. UNCHANGED <<pstatus, cron, dq, pc, on, frame>>
  BY DEF TaskStep, TaskStart, TaskRefused, TaskEnd, queue, runners, db
<1>3. CASE TaskStart(j)
  <2> DEFINE k == [j EXCEPT !.at = "running"]
  <2>1. /\ k \in Jobs /\ k.g = j.g /\ k.t = j.t /\ k.ctx = j.ctx /\ k.at = "running" /\ k.res = j.res
    BY <1>1 DEF Jobs
  <2>2. jobs' = (jobs \ {j}) \cup {k} /\ tasks' = [tasks EXCEPT ![j.t] = "RUNNING"]
    BY <1>3 DEF TaskStart
  <2> HIDE DEF k
  <2> QED
    BY <1>1, <1>2, <1>3, <2>1, <2>2
<1>4. CASE TaskRefused(j)
  <2> DEFINE k == [j EXCEPT !.at = "done", !.res = "failed"]
  <2>1. /\ k \in Jobs /\ k.g = j.g /\ k.t = j.t /\ k.ctx = j.ctx /\ k.at = "done" /\ k.res = "failed"
    BY <1>1 DEF Jobs
  <2>2. jobs' = (jobs \ {j}) \cup {k} /\ tasks' = tasks
    BY <1>4 DEF TaskRefused, db
  <2> HIDE DEF k
  <2> QED
    BY <1>1, <1>2, <1>4, <2>1, <2>2
<1>5. CASE TaskEnd(j)
  <2>1. PICK outcome \in {"nil", "failed"} \cup (IF j.ctx = "cancelled" THEN {"canceled"} ELSE {}) :
            /\ \/ tasks' = [tasks EXCEPT ![j.t] = IF outcome = "nil" THEN "COMPLETED" ELSE "FAILED"]
               \/ "dbError" \in Ops /\ tasks' = tasks
            /\ jobs' = (jobs \ {j}) \cup {[j EXCEPT !.at = "done",
                  !.res = IF j.t.p \in SkipOnFail THEN "nil" ELSE outcome]}
    BY <1>5 DEF TaskEnd, DbError
  <2> DEFINE r == IF j.t.p \in SkipOnFail THEN "nil" ELSE outcome
             k == [j EXCEPT !.at = "done", !.res = r]
  <2>2. r \in {"nil", "failed", "canceled"}
    BY <2>1
  <2>3. jobs' = (jobs \ {j}) \cup {k}
    BY <2>1
  <2> HIDE DEF r
  <2>4. /\ k \in Jobs /\ k.g = j.g /\ k.t = j.t /\ k.ctx = j.ctx /\ k.at = "done" /\ k.res = r
    BY <1>1, <2>2 DEF Jobs
  <2> HIDE DEF k
  <2>5. k.res = IF j.t.p \in SkipOnFail THEN "nil" ELSE outcome
    BY <2>4 DEF r
  <2> QED
    BY <1>1, <1>2, <1>5, <2>1, <2>3, <2>4, <2>5
<1> QED
  BY <1>3, <1>4, <1>5, <1>1, <1>2 DEF TaskStep

LEMMA JobTask ==
    ASSUME TypeOK, NEW j \in jobs, TaskStep(j)
    PROVE  \A t \in Task : t # j.t => tasks'[t] = tasks[t]
<1>1. tasks \in [Task -> Status \cup {Absent}]
  BY DEF TypeOK
<1>2. tasks' = tasks \/ \E x : tasks' = [tasks EXCEPT ![j.t] = x]
  BY DEF TaskStep, TaskStart, TaskRefused, TaskEnd, db
<1> QED
  BY <1>1, <1>2

\* A cancellation only tells the task.
LEMMA CancelEffect ==
    ASSUME TypeOK, CancelOneTask
    PROVE  /\ "cancelTasks" = cron.op
           /\ \E F \in [jobs -> Jobs] :
                /\ jobs' = {F[j] : j \in jobs}
                /\ \A j \in jobs : /\ F[j].g = j.g /\ F[j].t = j.t /\ F[j].at = j.at
                                   /\ F[j].res = j.res
           /\ UNCHANGED <<pstatus, tasks, dq, pc, on, frame>>
           /\ cron'.op \in {"free", "cancelTasks"}
<1>1. PICK t \in cron.todo :
          /\ cron' = IF cron.todo = {t} THEN FreeLock ELSE [cron EXCEPT !.todo = @ \ {t}]
          /\ jobs' = {IF <<j.g, t>> \in registry /\ j.t = t
                      THEN [j EXCEPT !.ctx = "cancelled"] ELSE j : j \in jobs}
  BY DEF CancelOneTask
<1> DEFINE G(j) == IF <<j.g, t>> \in registry /\ j.t = t
                   THEN [j EXCEPT !.ctx = "cancelled"] ELSE j
           F == [j \in jobs |-> G(j)]
<1>2. ASSUME NEW j \in jobs
      PROVE  G(j) \in Jobs /\ G(j).g = j.g /\ G(j).t = j.t /\ G(j).at = j.at /\ G(j).res = j.res
  <2>1. j \in Jobs
    BY DEF TypeOK
  <2>2. /\ [j EXCEPT !.ctx = "cancelled"] \in Jobs
        /\ [j EXCEPT !.ctx = "cancelled"].g = j.g /\ [j EXCEPT !.ctx = "cancelled"].t = j.t
        /\ [j EXCEPT !.ctx = "cancelled"].at = j.at /\ [j EXCEPT !.ctx = "cancelled"].res = j.res
    BY <2>1 DEF Jobs
  <2> QED
    BY <2>1, <2>2
<1>3. jobs' = {G(j) : j \in jobs}
  BY <1>1
<1> HIDE DEF G
<1>4. F \in [jobs -> Jobs] /\ \A j \in jobs : F[j] = G(j)
  BY <1>2
<1> HIDE DEF F
<1>5. jobs' = {F[j] : j \in jobs}
  BY <1>3, <1>4
<1>6. /\ cron.op = "cancelTasks" /\ cron \in [op : LockOps, p : Pipeline \cup {0}, todo : SUBSET Task, began : BOOLEAN]
      /\ UNCHANGED <<pstatus, tasks, dq, pc, on, frame>>
  BY DEF CancelOneTask, TypeOK, db, queue, runners
<1>7. cron'.op \in {"free", "cancelTasks"}
  BY <1>1, <1>6 DEF FreeLock
<1> QED
  BY <1>2, <1>4, <1>5, <1>6, <1>7

-----------------------------------------------------------------------------
(* Who runs a pipeline.                                                     *)

\* No goroutine begins to run anything, and the loop takes nothing.
LEMMA OwnQuiet ==
    ASSUME TypeOK, OwnInv, UNCHANGED <<pstatus, on>>,
           \A g \in Goroutine : Executing(g)' => Executing(g),
           dq' = dq \/ dq'.at \notin {"mark", "start"},
           cron' = cron \/ cron'.op = "free" \/ (~NoCancel /\ cron'.op # "rerunMark")
    PROVE  OwnInv'
<1>1. SingleRun'
  BY DEF OwnInv, SingleRun
<1>2. \A p \in Pipeline : Busy(p)' => Busy(p)
  BY DEF Busy
<1>3. BusyIsRunning'
  BY <1>2 DEF OwnInv, BusyIsRunning
<1>4. HandIsIdle' /\ HandIsWaiting'
  BY DEF OwnInv, HandIsIdle, HandIsWaiting
<1>5. RerunHasEnded' /\ NobodyCancels'
  BY DEF OwnInv, RerunHasEnded, NobodyCancels
<1> QED
  BY <1>1, <1>3, <1>4, <1>5 DEF OwnInv

\* The loop and the goroutines stay: a pipeline that nobody has, or that is
\* cancelled, gets another status.
LEMMA OwnHandler ==
    ASSUME TypeOK, OwnInv, UNCHANGED <<on, pc, dq>>, NEW p \in Pipeline, NEW s,
           pstatus' = [pstatus EXCEPT ![p] = s],
           \/ s = "CREATED" /\ pstatus[p] = Absent /\ cron' = cron
           \/ s = "CANCELLED" /\ ~NoCancel /\ cron'.op # "rerunMark"
           \/ s = "RERUN" /\ NoCancel /\ pstatus[p] \in Ended /\ cron'.op = "free",
           RowsExist
    PROVE  OwnInv'
<1>1. /\ pstatus \in [Pipeline -> Status \cup {Absent}]
      /\ dq.at \in {"mark", "start"} => dq.p \in Pipeline
      /\ cron.op # "free" => cron.p \in Pipeline
  BY DEF TypeOK
<1>2. pstatus'[p] = s /\ \A q \in Pipeline \ {p} : pstatus'[q] = pstatus[q]
  BY <1>1
<1>3. (\A g \in Goroutine : Executing(g)' = Executing(g)) /\ (\A q : Busy(q)' = Busy(q))
  BY DEF Executing, Busy
<1>4. SingleRun' /\ HandIsIdle'
  BY <1>3 DEF OwnInv, SingleRun, HandIsIdle
<1>5. s # "CANCELLED" => ~Busy(p)
  <2>1. ASSUME Busy(p)
        PROVE  pstatus[p] # Absent /\ (NoCancel => pstatus[p] = "RUNNING")
    BY <2>1 DEF OwnInv, BusyIsRunning, Busy, RowsExist, Executing, Live
  <2> QED
    BY <2>1 DEF Ended
<1>6. BusyIsRunning'
  BY <1>2, <1>3, <1>5 DEF OwnInv, BusyIsRunning, Waiting
<1>7. HandIsWaiting'
  <2>1. SUFFICES ASSUME NoCancel, dq.at = "mark"
                 PROVE  pstatus'[dq.p] \in Waiting
    BY DEF HandIsWaiting
  <2>2. pstatus[dq.p] \in Waiting /\ dq.p \in Pipeline
    BY <1>1, <2>1 DEF OwnInv, HandIsWaiting
  <2> QED
    BY <1>2, <2>1, <2>2 DEF Waiting, Ended, Absent
<1>8. RerunHasEnded'
  <2>1. SUFFICES ASSUME cron'.op = "rerunMark"
                 PROVE  NoCancel /\ pstatus'[cron'.p] \in Ended
    BY DEF RerunHasEnded
  <2>2. cron' = cron /\ pstatus[p] = Absent /\ NoCancel /\ pstatus[cron.p] \in Ended /\ cron.p \in Pipeline
    BY <1>1, <2>1 DEF OwnInv, RerunHasEnded
  <2> QED
    BY <1>2, <2>2 DEF Ended, Absent
<1>9. NobodyCancels'
  BY <1>2 DEF OwnInv, NobodyCancels
<1> QED
  BY <1>4, <1>6, <1>7, <1>8, <1>9 DEF OwnInv

\* Goroutine g goes on with its pipeline, or gives it up.
LEMMA OwnRuns ==
    ASSUME TypeOK, OwnInv, NEW g \in Goroutine, OnlyRunner(g), on'[g] = on[g], Executing(g),
           dq' = dq, cron' = cron,
           NEW s, pstatus' = [pstatus EXCEPT ![on[g]] = s],
           s = "RUNNING" \/ (s \in {"COMPLETED", "PARTIAL", "FAILED"} /\ ~Executing(g)')
    PROVE  OwnInv'
<1> DEFINE p == on[g]
<1>1. /\ pstatus \in [Pipeline -> Status \cup {Absent}] /\ p \in Pipeline
      /\ dq.at \in {"mark", "start"} => dq.p \in Pipeline
      /\ cron.op # "free" => cron.p \in Pipeline
  BY RunnerTypes DEF TypeOK
<1>2. pstatus'[p] = s /\ \A q \in Pipeline \ {p} : pstatus'[q] = pstatus[q]
  BY <1>1
<1>3. \A h \in Goroutine : /\ on'[h] = on[h]
                           /\ Executing(h)' => Executing(h)
  BY DEF OnlyRunner, Executing
<1>4. SingleRun' /\ HandIsIdle'
  BY <1>3 DEF OwnInv, SingleRun, HandIsIdle
<1>5. Busy(p) /\ pstatus[p] \notin Waiting /\ (NoCancel => pstatus[p] = "RUNNING")
  BY <1>1 DEF OwnInv, BusyIsRunning, Busy
<1>6. ~(dq.at \in {"mark", "start"} /\ dq.p = p)
  BY DEF OwnInv, HandIsIdle
<1>7. BusyIsRunning'
  <2>1. ASSUME NEW q \in Pipeline, Busy(q)'
        PROVE  pstatus'[q] \notin Waiting /\ (NoCancel => pstatus'[q] = "RUNNING")
    <3>1. Busy(q)
      BY <1>3, <2>1 DEF Busy
    <3>2. CASE q # p
      BY <1>2, <3>1, <3>2 DEF OwnInv, BusyIsRunning
    <3>3. CASE q = p /\ s = "RUNNING"
      BY <1>2, <3>3 DEF Waiting
    <3>4. CASE q = p /\ ~Executing(g)'
      <4>1. PICK h \in Goroutine : Executing(h)' /\ on'[h] = p
        BY <1>6, <2>1, <3>4 DEF Busy
      <4>2. h # g /\ Executing(h) /\ on[h] = on[g]
        BY <1>3, <3>4, <4>1
      <4> QED
        BY <4>2 DEF OwnInv, SingleRun
    <3> QED
      BY <3>2, <3>3, <3>4
  <2> QED
    BY <2>1 DEF BusyIsRunning
<1>8. HandIsWaiting'
  BY <1>1, <1>2, <1>6 DEF OwnInv, HandIsWaiting
<1>9. RerunHasEnded'
  <2>1. cron.op = "rerunMark" => NoCancel /\ pstatus[cron.p] \in Ended /\ cron.p # p
    BY <1>5 DEF OwnInv, RerunHasEnded, Ended
  <2> QED
    BY <1>1, <1>2, <2>1 DEF RerunHasEnded
<1>10. NobodyCancels'
  BY <1>2 DEF OwnInv, NobodyCancels
<1> QED
  BY <1>4, <1>7, <1>8, <1>9, <1>10 DEF OwnInv

LEMMA OwnApi ==
    ASSUME NoRevival, TypeOK, QueueInv, OwnInv,
           ApiStep \/ \E p \in Pipeline : CreateDbPipeline(p) \/ CancelPipeline(p) \/ RerunPipeline(p)
    PROVE  OwnInv'
<1> USE DEF queue, runners, db
<1>0. RowsExist /\ cron \in [op : LockOps, p : Pipeline \cup {0}, todo : SUBSET Task, began : BOOLEAN]
  BY DEF QueueInv, TypeOK
<1>1. ASSUME NEW p \in Pipeline, CreateDbPipeline(p) PROVE OwnInv'
  BY <1>0, <1>1, OwnHandler DEF CreateDbPipeline
<1>2. ASSUME NEW p \in Pipeline, CancelPipeline(p) PROVE OwnInv'
  <2>1. ~NoCancel /\ cron'.op \in {"cancelRow", "cancelTasks"}
    BY <1>2 DEF CancelPipeline, NoCancel
  <2>2. UNCHANGED <<pstatus, on, pc, dq>>
    BY <1>2 DEF CancelPipeline
  <2> QED
    BY <2>1, <2>2, OwnQuiet DEF Executing
<1>3. ASSUME NEW p \in Pipeline, RerunPipeline(p) PROVE OwnInv'
  <2>1. UNCHANGED <<pstatus, on, pc, dq>> /\ pstatus[p] \in Ended /\ LockFree
    BY <1>3 DEF RerunPipeline, MayRerun, TypeOK, Status
  <2>2. NoCancel
    BY <1>3 DEF RerunPipeline, RerunTargets, NoRevival, NoRerun
  <2>3. cron' = cron \/ cron' = [op |-> "rerunMark", p |-> p, todo |-> {}, began |-> FALSE]
    BY <1>3 DEF RerunPipeline
  <2>4. CASE cron' = cron
    BY <2>1, <2>4, OwnQuiet DEF Executing
  <2>5. CASE cron' = [op |-> "rerunMark", p |-> p, todo |-> {}, began |-> FALSE]
    <3>1. cron'.op = "rerunMark" /\ cron'.p = p
      BY <2>5
    <3>2. RerunHasEnded' /\ NobodyCancels'
      BY <2>1, <2>2, <3>1 DEF OwnInv, RerunHasEnded, NobodyCancels
    <3>3. SingleRun' /\ BusyIsRunning' /\ HandIsIdle' /\ HandIsWaiting'
      BY <2>1 DEF OwnInv, SingleRun, BusyIsRunning, Busy, HandIsIdle, HandIsWaiting, Executing
    <3> QED
      BY <3>2, <3>3 DEF OwnInv
  <2> QED
    BY <2>3, <2>4, <2>5
<1>4. CASE CancelSavePipeline
  <2>1. ~NoCancel /\ cron.p \in Pipeline /\ cron.op = "cancelRow"
    BY <1>4 DEF CancelSavePipeline, OwnInv, NobodyCancels, TypeOK
  <2>2. UNCHANGED <<on, pc, dq>>
    BY <1>4 DEF CancelSavePipeline
  <2>3. CASE pstatus' = [pstatus EXCEPT ![cron.p] = "CANCELLED"] /\ cron' = [cron EXCEPT !.op = "cancelRows"]
    <3>1. cron'.op = "cancelRows"
      BY <1>0, <2>3
    <3> QED
      BY <1>0, <2>1, <2>2, <2>3, <3>1, OwnHandler
  <2>4. CASE cron' = FreeLock /\ UNCHANGED pstatus
    BY <2>2, <2>4, OwnQuiet DEF Executing, FreeLock
  <2> QED
    BY <1>4, <2>3, <2>4 DEF CancelSavePipeline
<1>5. CASE CancelSaveTasks
  <2>1. UNCHANGED <<pstatus, on, pc, dq>> /\ cron'.op = "free"
    BY <1>5 DEF CancelSaveTasks, FreeLock
  <2> QED
    BY <2>1, OwnQuiet DEF Executing
<1>6. CASE CancelOneTask
  <2>1. /\ UNCHANGED <<pstatus, on, pc, dq>> /\ cron'.op \in {"free", "cancelTasks"}
        /\ cron.op = "cancelTasks"
    BY <1>6, CancelEffect
  <2>2. ~NoCancel
    BY <2>1 DEF OwnInv, NobodyCancels
  <2> QED
    BY <2>1, <2>2, OwnQuiet DEF Executing
<1>7. CASE RerunMark
  <2>1. UNCHANGED <<on, pc, dq>> /\ cron'.op = "free" /\ cron.op = "rerunMark" /\ cron.p \in Pipeline
    BY <1>7 DEF RerunMark, FreeLock, TypeOK
  <2>2. NoCancel /\ pstatus[cron.p] \in Ended
    BY <2>1 DEF OwnInv, RerunHasEnded
  <2>3. CASE pstatus' = [pstatus EXCEPT ![cron.p] = "RERUN"]
    BY <1>0, <2>1, <2>2, <2>3, OwnHandler
  <2>4. CASE UNCHANGED pstatus
    BY <2>1, <2>4, OwnQuiet DEF Executing
  <2> QED
    BY <1>7, <2>3, <2>4 DEF RerunMark
<1> QED
  BY <1>1, <1>2, <1>3, <1>4, <1>5, <1>6, <1>7 DEF ApiStep

\* The loop: what it selects waits, so nobody has it; it marks it, then starts
\* a goroutine for it.
LEMMA OwnLoop ==
    ASSUME TypeOK, OwnInv, DequeueAcquire \/ DequeueSelect \/ DequeueMark \/ DequeueStart
    PROVE  OwnInv'
<1>1. CASE DequeueAcquire
  <2>1. UNCHANGED <<pstatus, on, pc, cron>> /\ dq'.at = "select"
    BY <1>1 DEF DequeueAcquire, db, runners, TypeOK
  <2> QED
    BY <2>1, OwnQuiet DEF Executing
<1>2. CASE DequeueSelect
  <2>1. PICK p \in Pipeline, seen \in LabelsRead : Admissible(p, seen) /\ dq' = [at |-> "mark", p |-> p]
    BY <1>2 DEF DequeueSelect
  <2>2. UNCHANGED <<pstatus, on, pc, cron>>
    BY <1>2 DEF DequeueSelect, db, runners
  <2>3. dq'.at = "mark" /\ dq'.p = p /\ pstatus[p] \in Waiting
    BY <2>1 DEF Admissible
  <2>4. ~Busy(p)
    BY <2>3 DEF OwnInv, BusyIsRunning
  <2>5. (\A g \in Goroutine : Executing(g)' = Executing(g)) /\ (\A q : Busy(q)' => Busy(q))
    BY <2>2, <2>3 DEF Executing, Busy
  <2>6. SingleRun' /\ BusyIsRunning'
    BY <2>2, <2>5 DEF OwnInv, SingleRun, BusyIsRunning
  <2>7. HandIsIdle' /\ HandIsWaiting'
    BY <2>2, <2>3, <2>4, <2>5 DEF HandIsIdle, HandIsWaiting, Busy
  <2>8. RerunHasEnded' /\ NobodyCancels'
    BY <2>2 DEF OwnInv, RerunHasEnded, NobodyCancels
  <2> QED
    BY <2>6, <2>7, <2>8 DEF OwnInv
<1>3. CASE DequeueMark
  <2>1. /\ dq.at = "mark" /\ dq.p \in Pipeline /\ dq'.at = "start" /\ dq'.p = dq.p
        /\ pstatus' = [pstatus EXCEPT ![dq.p] = "RUNNING"]
        /\ UNCHANGED <<on, pc, cron>>
    BY <1>3 DEF DequeueMark, runners, TypeOK
  <2>2. pstatus'[dq.p] = "RUNNING" /\ \A q \in Pipeline \ {dq.p} : pstatus'[q] = pstatus[q]
    BY <2>1 DEF TypeOK
  <2>3. \A g \in Goroutine : Executing(g)' = Executing(g)
    BY <2>1 DEF Executing
  <2>4. \A q \in Pipeline : Busy(q)' => Busy(q) \/ q = dq.p
    BY <2>1, <2>3 DEF Busy
  <2>5. SingleRun' /\ BusyIsRunning' /\ HandIsIdle' /\ HandIsWaiting'
    BY <2>1, <2>2, <2>3, <2>4 DEF OwnInv, SingleRun, BusyIsRunning, HandIsIdle, HandIsWaiting, Waiting
  <2>6. RerunHasEnded'
    <3>1. cron.op = "rerunMark" => NoCancel /\ pstatus[cron.p] \in Ended /\ cron.p \in Pipeline
      BY DEF OwnInv, RerunHasEnded, TypeOK
    <3>2. NoCancel => pstatus[dq.p] \in Waiting
      BY <2>1 DEF OwnInv, HandIsWaiting
    <3> QED
      BY <2>1, <2>2, <3>1, <3>2 DEF RerunHasEnded, Waiting, Ended
  <2>7. NobodyCancels'
    BY <2>1, <2>2 DEF OwnInv, NobodyCancels
  <2> QED
    BY <2>5, <2>6, <2>7 DEF OwnInv
<1>4. CASE DequeueStart
  <2>1. /\ dq.at = "start" /\ dq.p \in Pipeline /\ dq'.at = "acquire"
        /\ UNCHANGED <<pstatus, cron>>
    BY <1>4, StartEffect
  <2>2. PICK g \in Goroutine :
            pc[g] = "idle" /\ pc'[g] = "load" /\ on'[g] = dq.p /\ OnlyRunner(g)
    BY <1>4, StartEffect
  <2>3. /\ ~Executing(g) /\ on'[g] = dq.p
        /\ \A h \in Goroutine \ {g} : (Executing(h)' => Executing(h)) /\ on'[h] = on[h]
    BY <2>2 DEF OnlyRunner, Executing
  <2>4. \A h \in Goroutine : Executing(h) => on[h] # dq.p
    BY <2>1 DEF OwnInv, HandIsIdle
  <2>5. SingleRun'
    BY <2>3, <2>4 DEF OwnInv, SingleRun
  <2>6. \A q \in Pipeline : Busy(q)' => Busy(q)
    BY <2>1, <2>3 DEF Busy
  <2>7. BusyIsRunning' /\ HandIsIdle' /\ HandIsWaiting' /\ RerunHasEnded' /\ NobodyCancels'
    BY <2>1, <2>6 DEF OwnInv, BusyIsRunning, HandIsIdle, HandIsWaiting, RerunHasEnded, NobodyCancels
  <2> QED
    BY <2>5, <2>7 DEF OwnInv
<1> QED
  BY <1>1, <1>2, <1>3, <1>4

LEMMA OwnRestart ==
    ASSUME TypeOK, OwnInv, Restart
    PROVE  OwnInv'
<1>1. /\ \A g \in Goroutine : pc'[g] = "idle"
      /\ \A p \in Pipeline : pstatus'[p] = AfterRestart(pstatus[p])
      /\ dq'.at = "acquire" /\ cron'.op = "free"
  BY RestartEffect
<1>2. (\A g \in Goroutine : ~Executing(g)') /\ (\A p : ~Busy(p)')
  BY <1>1 DEF Executing, Busy
<1>3. SingleRun' /\ BusyIsRunning' /\ HandIsIdle' /\ HandIsWaiting' /\ RerunHasEnded'
  BY <1>1, <1>2 DEF SingleRun, BusyIsRunning, HandIsIdle, HandIsWaiting, RerunHasEnded
<1>4. NobodyCancels'
  BY <1>1 DEF OwnInv, NobodyCancels, AfterRestart
<1> QED
  BY <1>3, <1>4 DEF OwnInv

LEMMA OwnStep ==
    ASSUME NoRevival, TypeOK, QueueInv, OwnInv, FrameInv, [Next]_vars
    PROVE  OwnInv'
<1>1. CASE UNCHANGED vars
  BY <1>1, OwnQuiet DEF vars, Executing
<1>2. ASSUME NEW g \in Goroutine, RunStep(g), ~RunPanics(g)
      PROVE  OwnInv'
  <2>1. CASE RunRow(g)
    BY <2>1, RowEffect, OwnRuns DEF Executing
  <2>2. CASE RunSave(g)
    <3>1. frame[g].verdict \in {"COMPLETED", "PARTIAL", "FAILED"}
      BY <2>2, SaveEffect, RunnerTypes DEF FrameInv, Frames
    <3> QED
      BY <2>2, <3>1, SaveEffect, OwnRuns DEF Executing
  <2>3. CASE RunRelease(g)
    <3>1. /\ pc[g] = "release" /\ pc'[g] = "idle" /\ OnlyRunner(g)
          /\ UNCHANGED <<pstatus, cron, dq>>
      BY <2>3, ReleaseEffect
    <3>2. \A h \in Goroutine : Executing(h)' => Executing(h) /\ on'[h] = on[h]
      BY <3>1 DEF Executing, OnlyRunner
    <3>3. SingleRun' /\ HandIsIdle' /\ \A q : Busy(q)' => Busy(q)
      BY <3>1, <3>2 DEF OwnInv, SingleRun, HandIsIdle, Busy
    <3> QED
      BY <3>1, <3>3 DEF OwnInv, BusyIsRunning, HandIsWaiting, RerunHasEnded, NobodyCancels
  <2>4. CASE RunLoad(g) \/ RunJoin(g) \/ RunRowsDone(g) \/ RunDbError(g) \/ RunCompute(g)
    <3>1. /\ UNCHANGED <<pstatus, on, cron, dq>> /\ OnlyRunner(g)
          /\ Executing(g)
      BY <2>4, LoadEffect, JoinEffect, EndEffect, ComputeEffect DEF Executing
    <3> QED
      BY <3>1, OwnQuiet DEF OnlyRunner, Executing
  <2> QED
    BY <1>2, <2>1, <2>2, <2>3, <2>4 DEF RunStep
<1>3. ASSUME NEW j \in jobs, TaskStep(j)
      PROVE  OwnInv'
  BY <1>3, JobEffect, OwnQuiet DEF Executing
<1>4. ASSUME Crash \/ DequeuePanics \/ \E g \in Goroutine : RunPanics(g)
      PROVE  OwnInv'
  BY <1>4, OwnRestart DEF Crash, DequeuePanics, RunPanics
<1> QED
  BY <1>1, <1>2, <1>3, <1>4, OwnApi, OwnLoop DEF Next, DequeueStep

-----------------------------------------------------------------------------
(* The goroutines and their jobs.                                           *)

\* The steps by what they do to the goroutines and the jobs.
LEMMA WhoMoves ==
    ASSUME TypeOK, [Next]_vars
    PROVE  \/ UNCHANGED <<pc, on, frame, jobs>>
           \/ DequeueStart
           \/ \E g \in Goroutine : RunStep(g) /\ ~RunPanics(g)
           \/ CancelOneTask
           \/ \E j \in jobs : TaskStep(j)
           \/ Restart
<1> USE DEF runners, workers
<1>1. ASSUME NEW p \in Pipeline, CreateDbPipeline(p) \/ CancelPipeline(p) \/ RerunPipeline(p)
      PROVE  UNCHANGED <<pc, on, frame, jobs>>
  BY <1>1 DEF CreateDbPipeline, CancelPipeline, RerunPipeline
<1>2. ASSUME CancelSavePipeline \/ CancelSaveTasks \/ RerunMark
      PROVE  UNCHANGED <<pc, on, frame, jobs>>
  BY <1>2 DEF CancelSavePipeline, CancelSaveTasks, RerunMark
<1>3. ASSUME DequeueAcquire \/ DequeueSelect \/ DequeueMark
      PROVE  UNCHANGED <<pc, on, frame, jobs>>
  BY <1>3 DEF DequeueAcquire, DequeueSelect, DequeueMark
<1>4. ASSUME Crash \/ DequeuePanics \/ \E g \in Goroutine : RunPanics(g)
      PROVE  Restart
  BY <1>4 DEF Crash, DequeuePanics, RunPanics
<1> QED
  BY <1>1, <1>2, <1>3, <1>4 DEF vars, Next, ApiStep, DequeueStep

LEMMA FrameStep ==
    ASSUME TypeOK, FrameInv, [Next]_vars
    PROVE  FrameInv'
<1>1. CASE UNCHANGED <<pc, on, frame, jobs>>
  BY <1>1 DEF FrameInv
<1>2. ASSUME NEW g \in Goroutine, OnlyRunner(g),
             pc'[g] \in {"idle", "load"} => frame'[g] = NoFrame,
             \A t \in frame'[g].todo : t.p = on'[g],
             pc'[g] = "save" => frame'[g].verdict # "RUNNING"
      PROVE  FrameInv'
  BY <1>2 DEF FrameInv, OnlyRunner
<1>3. NoFrame.todo = {}
  BY DEF NoFrame
<1>4. CASE DequeueStart
  <2>1. PICK g \in Goroutine :
            pc[g] = "idle" /\ pc'[g] = "load" /\ frame' = frame /\ OnlyRunner(g)
    BY <1>4, StartEffect
  <2>2. frame'[g] = NoFrame
    BY <2>1 DEF FrameInv
  <2> QED
    BY <1>2, <1>3, <2>1, <2>2
<1>5. ASSUME NEW g \in Goroutine, RunStep(g), ~RunPanics(g)
      PROVE  FrameInv'
  <2>0. \A t \in frame[g].todo : t.p = on[g]
    BY DEF FrameInv
  <2>1. CASE RunLoad(g)
    <3>1. \A t \in TasksToRun(on[g]) : t.p = on[g]
      BY DEF TasksToRun, TasksOf
    <3> QED
      BY <1>2, <2>1, <3>1, LoadEffect
  <2>2. CASE RunRow(g)
    BY <1>2, <2>0, <2>2, RowEffect
  <2>3. CASE RunJoin(g)
    BY <1>2, <2>0, <2>3, JoinEffect
  <2>4. CASE RunRowsDone(g) \/ RunDbError(g)
    BY <1>2, <2>0, <2>4, EndEffect
  <2>5. CASE RunCompute(g)
    BY <1>2, <2>0, <2>5, ComputeEffect
  <2>6. CASE RunSave(g)
    BY <1>2, <2>0, <2>6, SaveEffect
  <2>7. CASE RunRelease(g)
    BY <1>2, <1>3, <2>7, ReleaseEffect
  <2> QED
    BY <1>5, <2>1, <2>2, <2>3, <2>4, <2>5, <2>6, <2>7 DEF RunStep
<1>6. CASE CancelOneTask
  <2>1. UNCHANGED <<pc, on, frame>>
    BY <1>6, CancelEffect
  <2> QED
    BY <2>1 DEF FrameInv
<1>7. ASSUME NEW j \in jobs, TaskStep(j)
      PROVE  FrameInv'
  <2>1. UNCHANGED <<pc, on, frame>>
    BY <1>7, JobEffect
  <2> QED
    BY <2>1 DEF FrameInv
<1>8. CASE Restart
  BY <1>3, <1>8, RestartEffect DEF FrameInv
<1> QED
  BY <1>1, <1>4, <1>5, <1>6, <1>7, <1>8, WhoMoves

\* The jobs stay, with the goroutines that wait for them.
LEMMA JobsStay ==
    ASSUME JobsPlaced, JobsDistinct, jobs' = jobs,
           \A j \in jobs : pc'[j.g] = "wait" /\ on'[j.g] = on[j.g] /\ frame'[j.g].row = frame[j.g].row
    PROVE  JobsPlaced' /\ JobsDistinct'
  BY DEF JobsPlaced, JobsDistinct

LEMMA JobsPlacedStep ==
    ASSUME TypeOK, FrameInv, JobsPlaced, JobsDistinct, [Next]_vars
    PROVE  JobsPlaced' /\ JobsDistinct'
<1>0. \A j \in jobs : j \in Jobs /\ j.g \in Goroutine /\ j.t \in Task /\ pc[j.g] = "wait"
  BY DEF TypeOK, Jobs, JobsPlaced
<1>1. CASE UNCHANGED <<pc, on, frame, jobs>>
  BY <1>1 DEF JobsPlaced, JobsDistinct
<1>2. ASSUME NEW g \in Goroutine, OnlyRunner(g), pc[g] # "wait", jobs' = jobs
      PROVE  JobsPlaced' /\ JobsDistinct'
  <2>1. \A j \in jobs : j.g \in Goroutine \ {g}
    BY <1>0, <1>2
  <2> QED
    BY <1>0, <1>2, <2>1, JobsStay DEF OnlyRunner
<1>3. CASE DequeueStart
  BY <1>2, <1>3, StartEffect
<1>4. ASSUME NEW g \in Goroutine, RunStep(g), ~RunPanics(g)
      PROVE  JobsPlaced' /\ JobsDistinct'
  <2>1. CASE RunLoad(g)
    BY <1>2, <2>1, LoadEffect
  <2>2. CASE RunRow(g)
    <3> DEFINE r == frame[g].row + 1
               started == RowTasks(g, r)
               N(t) == [g |-> g, t |-> t, at |-> "spawned", ctx |-> "live", res |-> "nil"]
    <3>1. /\ pc[g] = "row" /\ on' = on /\ frame'[g].row = r /\ OnlyRunner(g)
          /\ pc'[g] = IF started = {} THEN "row" ELSE "wait"
          /\ jobs' = jobs \cup {N(t) : t \in started}
      BY <2>2, RowEffect
    <3>2. \A j \in jobs : j.g \in Goroutine \ {g}
      BY <1>0, <3>1
    <3>3. \A t \in started : N(t).g = g /\ N(t).t = t /\ t.row = r
      BY DEF RowTasks
    <3>4. \A t \in started : t.p = on[g]
      BY DEF RowTasks, FrameInv
    <3> HIDE DEF N, started, r
    <3>5. JobsPlaced'
      <4>1. ASSUME NEW j \in jobs
            PROVE  pc'[j.g] = "wait" /\ j.t.p = on'[j.g] /\ j.t.row = frame'[j.g].row
        BY <3>1, <3>2 DEF JobsPlaced, OnlyRunner
      <4>2. ASSUME NEW t \in started
            PROVE  LET j == N(t) IN
                   pc'[j.g] = "wait" /\ j.t.p = on'[j.g] /\ j.t.row = frame'[j.g].row
        BY <3>1, <3>3, <3>4
      <4> QED
        BY <3>1, <4>1, <4>2 DEF JobsPlaced
    <3>6. JobsDistinct'
      BY <3>1, <3>2, <3>3 DEF JobsDistinct
    <3> QED
      BY <3>5, <3>6
  <2>3. CASE RunJoin(g)
    <3>1. OnlyRunner(g) /\ jobs' = jobs \ JobsOf(g)
      BY <2>3, JoinEffect
    <3>2. \A j \in jobs' : j \in jobs /\ j.g \in Goroutine \ {g}
      BY <1>0, <3>1 DEF JobsOf
    <3> QED
      BY <3>1, <3>2 DEF JobsPlaced, JobsDistinct, OnlyRunner
  <2>4. CASE RunRowsDone(g) \/ RunDbError(g)
    BY <1>2, <2>4, EndEffect
  <2>5. CASE RunCompute(g)
    BY <1>2, <2>5, ComputeEffect
  <2>6. CASE RunSave(g)
    BY <1>2, <2>6, SaveEffect
  <2>7. CASE RunRelease(g)
    BY <1>2, <2>7, ReleaseEffect
  <2> QED
    BY <1>4, <2>1, <2>2, <2>3, <2>4, <2>5, <2>6, <2>7 DEF RunStep
<1>5. CASE CancelOneTask
  <2>1. UNCHANGED <<pc, on, frame>>
    BY <1>5, CancelEffect
  <2>2. PICK F \in [jobs -> Jobs] :
            /\ jobs' = {F[j] : j \in jobs}
            /\ \A j \in jobs : F[j].g = j.g /\ F[j].t = j.t
    BY <1>5, CancelEffect
  <2> QED
    BY <2>1, <2>2 DEF JobsPlaced, JobsDistinct
<1>6. ASSUME NEW j \in jobs, TaskStep(j)
      PROVE  JobsPlaced' /\ JobsDistinct'
  <2>1. UNCHANGED <<pc, on, frame>>
    BY <1>6, JobEffect
  <2>2. PICK k \in Jobs : jobs' = (jobs \ {j}) \cup {k} /\ k.g = j.g /\ k.t = j.t
    BY <1>6, JobEffect
  <2> QED
    BY <2>1, <2>2 DEF JobsPlaced, JobsDistinct
<1>7. CASE Restart
  BY <1>7, RestartEffect DEF JobsPlaced, JobsDistinct
<1> QED
  BY <1>1, <1>3, <1>4, <1>5, <1>6, <1>7, WhoMoves

\* A task has one job at a time.
LEMMA OneJob ==
    ASSUME TypeOK, SingleRun, JobsPlaced, JobsDistinct,
           NEW j \in jobs, NEW k \in jobs, j.t = k.t
    PROVE  j = k
<1>1. j.g \in Goroutine /\ k.g \in Goroutine
  BY DEF TypeOK, Jobs
<1>2. Executing(j.g) /\ Executing(k.g) /\ on[j.g] = on[k.g]
  BY DEF JobsPlaced, Executing
<1>3. j.g = k.g
  BY <1>1, <1>2 DEF SingleRun
<1> QED
  BY <1>3 DEF JobsDistinct

\* The steps that change a task, and how.
LEMMA TasksMove ==
    ASSUME TypeOK, [Next]_vars
    PROVE  \/ tasks' = tasks
           \/ \E p \in Pipeline : CreateDbPipeline(p) \/ RerunPipeline(p)
           \/ CancelSaveTasks
           \/ \E j \in jobs : TaskStep(j)
           \/ Restart
<1> USE DEF db
<1>1. ASSUME NEW p \in Pipeline, CancelPipeline(p) PROVE tasks' = tasks
  BY <1>1 DEF CancelPipeline
<1>2. ASSUME CancelSavePipeline \/ CancelOneTask \/ RerunMark PROVE tasks' = tasks
  BY <1>2 DEF CancelSavePipeline, CancelOneTask, RerunMark
<1>3. ASSUME DequeueAcquire \/ DequeueSelect \/ DequeueMark \/ DequeueStart PROVE tasks' = tasks
  BY <1>3 DEF DequeueAcquire, DequeueSelect, DequeueMark, DequeueStart
<1>4. ASSUME NEW g \in Goroutine, RunStep(g), ~RunPanics(g) PROVE tasks' = tasks
  BY <1>4 DEF RunStep, RunLoad, RunRow, RunJoin, RunRowsDone, RunDbError, RunCompute, RunSave,
     RunRelease
<1>5. ASSUME Crash \/ DequeuePanics \/ \E g \in Goroutine : RunPanics(g)
      PROVE  Restart
  BY <1>5 DEF Crash, DequeuePanics, RunPanics
<1> QED
  BY <1>1, <1>2, <1>3, <1>4, <1>5 DEF vars, Next, ApiStep, DequeueStep

LEMMA CreateEffect ==
    ASSUME TypeOK, NEW p \in Pipeline, CreateDbPipeline(p)
    PROVE  /\ pstatus[p] = Absent /\ ~BlueprintIsBusy(BlueprintOf[p])
           /\ pstatus' = [pstatus EXCEPT ![p] = "CREATED"]
           /\ \E cells \in PlanPrefixes(p) :
                 /\ cells = Plan[p] \/ "dbError" \in Ops
                 /\ tasks' = [t \in Task |->
                       IF t.p = p /\ t.n = 1 /\ <<t.row, t.col>> \in cells
                       THEN "CREATED" ELSE tasks[t]]
           /\ UNCHANGED <<cron, dq, pc, on, frame, jobs, registry>>
  BY DEF CreateDbPipeline, DbError, queue, runners, workers

\* Whole pipelines: the targets are marked failed, and replaced; if there is an
\* error, only some of them.
LEMMA RerunEffect ==
    ASSUME TypeOK, NEW p \in Pipeline, RerunPipeline(p)
    PROVE  /\ pstatus[p] \in Ended /\ cron.op = "free" /\ ~NoRerun
           /\ \E targets \in RerunTargets(p) :
              \E failed, done \in SUBSET targets :
                 /\ targets # {}
                 /\ \A t \in targets : NextAttempt(t).n <= MaxAttempts
                 /\ tasks' = TasksRerun(failed, {NextAttempt(t) : t \in done})
                 /\ \/ /\ failed = targets /\ done = targets
                       /\ cron' = [op |-> "rerunMark", p |-> p, todo |-> {}, began |-> FALSE]
                    \/ "dbError" \in Ops /\ cron' = cron
           /\ UNCHANGED <<pstatus, dq, pc, on, frame, jobs, registry>>
<1>1. pstatus[p] \in Ended /\ cron.op = "free" /\ ~NoRerun
  BY DEF RerunPipeline, MayRerun, LockFree, TypeOK, Status, RerunTargets, NoRerun
<1>2. UNCHANGED <<pstatus, dq, pc, on, frame, jobs, registry>>
  BY DEF RerunPipeline, queue, runners, workers
<1>3. PICK targets \in RerunTargets(p) : \E done \in SUBSET targets :
          /\ targets # {}
          /\ \A t \in targets : NextAttempt(t).n <= MaxAttempts
          /\ \/ /\ done = targets
                /\ tasks' = TasksRerun(targets, {NextAttempt(t) : t \in done})
                /\ cron' = [op |-> "rerunMark", p |-> p, todo |-> {}, began |-> FALSE]
             \/ /\ \E t \in targets \ done : \E failed \in {done, done \cup {t}} :
                      tasks' = TasksRerun(failed, {NextAttempt(u) : u \in done})
                /\ DbError
                /\ UNCHANGED cron
  BY DEF RerunPipeline
<1> PICK done \in SUBSET targets :
          /\ targets # {}
          /\ \A t \in targets : NextAttempt(t).n <= MaxAttempts
          /\ \/ /\ done = targets
                /\ tasks' = TasksRerun(targets, {NextAttempt(t) : t \in done})
                /\ cron' = [op |-> "rerunMark", p |-> p, todo |-> {}, began |-> FALSE]
             \/ /\ \E t \in targets \ done : \E failed \in {done, done \cup {t}} :
                      tasks' = TasksRerun(failed, {NextAttempt(u) : u \in done})
                /\ DbError
                /\ UNCHANGED cron
  BY <1>3
<1>4. CASE /\ done = targets
           /\ tasks' = TasksRerun(targets, {NextAttempt(t) : t \in done})
           /\ cron' = [op |-> "rerunMark", p |-> p, todo |-> {}, began |-> FALSE]
  BY <1>1, <1>2, <1>3, <1>4
<1>5. CASE /\ \E t \in targets \ done : \E failed \in {done, done \cup {t}} :
                 tasks' = TasksRerun(failed, {NextAttempt(u) : u \in done})
           /\ DbError
           /\ UNCHANGED cron
  <2>1. PICK t \in targets \ done : \E failed \in {done, done \cup {t}} :
            tasks' = TasksRerun(failed, {NextAttempt(u) : u \in done})
    BY <1>5
  <2> PICK failed \in {done, done \cup {t}} :
            tasks' = TasksRerun(failed, {NextAttempt(u) : u \in done})
    BY <2>1
  <2>2. failed \in SUBSET targets /\ "dbError" \in Ops
    BY <1>5, <2>1 DEF DbError
  <2> QED
    BY <1>1, <1>2, <1>3, <1>5, <2>1, <2>2
<1> QED
  BY <1>3, <1>4, <1>5

LEMMA TargetsType ==
    ASSUME NEW p \in Pipeline, NEW targets \in RerunTargets(p)
    PROVE  targets \subseteq TasksOf(p)
  BY DEF RerunTargets, Latest

LEMMA DoneWellStep ==
    ASSUME NoRevival, TypeOK, OwnInv, JobsInv, [Next]_vars
    PROVE  DoneWell'
<1>0. \A j \in jobs : j \in Jobs /\ j.g \in Goroutine /\ j.t \in Task
  BY DEF TypeOK, Jobs
<1>1. \A j \in jobs : j.at = "running" \/ WentWell(j) => tasks[j.t] # "FAILED"
  BY DEF JobsInv, DoneWell
<1>2. ASSUME jobs' \subseteq jobs, \A j \in jobs : tasks'[j.t] = "FAILED" => tasks[j.t] = "FAILED"
      PROVE  DoneWell'
  BY <1>1, <1>2 DEF DoneWell
<1>3. ASSUME NEW p \in Pipeline, CreateDbPipeline(p)
      PROVE  DoneWell'
  BY <1>0, <1>2, <1>3, CreateEffect
<1>4. ASSUME NEW p \in Pipeline, RerunPipeline(p)
      PROVE  DoneWell'
  <2>1. PICK targets \in RerunTargets(p) : \E failed, done \in SUBSET targets :
            tasks' = TasksRerun(failed, {NextAttempt(t) : t \in done})
    BY <1>4, RerunEffect
  <2> PICK failed \in SUBSET targets, done \in SUBSET targets :
            tasks' = TasksRerun(failed, {NextAttempt(t) : t \in done})
    BY <2>1
  <2>2. pstatus[p] \in Ended /\ jobs' = jobs /\ NoCancel
    BY <1>4, RerunEffect DEF NoRevival
  <2>3. ASSUME NEW j \in jobs
        PROVE  j.t \notin failed
    <3>1. Busy(on[j.g]) /\ j.t.p = on[j.g] /\ on[j.g] \in Pipeline
      BY <1>0, RunnerTypes DEF JobsInv, JobsPlaced, Busy, Executing
    <3>2. pstatus[j.t.p] = "RUNNING"
      BY <2>2, <3>1 DEF OwnInv, BusyIsRunning
    <3>3. j.t.p # p
      BY <2>2, <3>2 DEF Ended
    <3> QED
      BY <2>1, <3>3, TargetsType DEF TasksOf
  <2> QED
    BY <1>0, <1>2, <2>1, <2>2, <2>3 DEF TasksRerun
<1>5. CASE CancelSaveTasks
  BY <1>0, <1>2, <1>5 DEF CancelSaveTasks, workers
<1>6. ASSUME NEW j \in jobs, TaskStep(j)
      PROVE  DoneWell'
  <2>1. PICK k \in Jobs :
            /\ jobs' = (jobs \ {j}) \cup {k}
            /\ k.g = j.g /\ k.t = j.t /\ k.at \in {"running", "done"}
            /\ \/ k.at = "running" /\ tasks' = [tasks EXCEPT ![j.t] = "RUNNING"]
               \/ k.at = "done" /\ k.res = "failed"
               \/ /\ TaskEnd(j) /\ k.at = "done"
                  /\ \E outcome \in {"nil", "failed"} \cup
                                    (IF j.ctx = "cancelled" THEN {"canceled"} ELSE {}) :
                        /\ k.res = IF j.t.p \in SkipOnFail THEN "nil" ELSE outcome
                        /\ \/ tasks' = [tasks EXCEPT ![j.t] =
                                          IF outcome = "nil" THEN "COMPLETED" ELSE "FAILED"]
                           \/ tasks' = tasks
    BY <1>6, JobEffect
  <2>2. \A t \in Task \ {j.t} : tasks'[t] = tasks[t]
    BY <1>6, JobTask
  <2>3. ASSUME NEW i \in jobs \ {j}
        PROVE  tasks'[i.t] = tasks[i.t]
    BY <1>0, <2>2, OneJob DEF OwnInv, JobsInv
  <2>4. WentWell(k) => tasks'[k.t] # "FAILED"
    <3>1. SUFFICES ASSUME WentWell(k)
                   PROVE  tasks'[k.t] # "FAILED"
      OBVIOUS
    <3>2. TaskEnd(j) /\ j.at = "running"
      BY <2>1, <3>1 DEF TaskEnd, WentWell
    <3>3. tasks' = [tasks EXCEPT ![j.t] = "COMPLETED"] \/ tasks' = tasks
      BY <2>1, <3>1 DEF WentWell
    <3>4. CASE tasks' = [tasks EXCEPT ![j.t] = "COMPLETED"]
      BY <1>0, <2>1, <3>4 DEF TypeOK
    <3>5. CASE tasks' = tasks
      BY <1>1, <2>1, <3>2, <3>5
    <3> QED
      BY <3>3, <3>4, <3>5
  <2>5. k.at = "running" => tasks'[k.t] # "FAILED"
    <3>1. k.at = "running" => tasks' = [tasks EXCEPT ![j.t] = "RUNNING"]
      BY <2>1
    <3> QED
      BY <1>0, <2>1, <3>1 DEF TypeOK
  <2> QED
    BY <1>1, <2>1, <2>3, <2>4, <2>5 DEF DoneWell, WentWell
<1>7. CASE Restart
  BY <1>7, RestartEffect DEF DoneWell
<1>8. CASE tasks' = tasks
  <2>1. CASE jobs' = jobs
    BY <1>2, <1>8, <2>1
  <2>2. CASE DequeueStart
    BY <1>2, <2>2, StartEffect
  <2>3. ASSUME NEW g \in Goroutine, RunStep(g), ~RunPanics(g)
        PROVE  DoneWell'
    <3>1. CASE RunRow(g)
      <4>1. \A j \in jobs' : j \in jobs \/ j.at = "spawned"
        BY <3>1, RowEffect
      <4> QED
        BY <1>1, <1>8, <4>1 DEF DoneWell, WentWell
    <3>2. CASE RunJoin(g)
      BY <1>2, <1>8, <3>2, JoinEffect
    <3>3. CASE jobs' = jobs
      BY <1>2, <1>8, <3>3
    <3> QED
      BY <2>3, <3>1, <3>2, <3>3 DEF RunStep, RunLoad, RunRowsDone, RunDbError, RunCompute,
         RunSave, RunRelease, workers
  <2>4. CASE CancelOneTask
    <3>1. PICK F \in [jobs -> Jobs] :
              /\ jobs' = {F[j] : j \in jobs}
              /\ \A j \in jobs : F[j].t = j.t /\ F[j].at = j.at /\ F[j].res = j.res
      BY <2>4, CancelEffect
    <3> QED
      BY <1>1, <1>8, <3>1 DEF DoneWell, WentWell
  <2> QED
    BY <1>6, <1>7, <2>1, <2>2, <2>3, <2>4, WhoMoves
<1> QED
  BY <1>3, <1>4, <1>5, <1>6, <1>7, <1>8, TasksMove

-----------------------------------------------------------------------------
RunInv == TypeOK /\ QueueInv /\ OwnInv /\ FrameInv /\ JobsInv

LEMMA RunInit ==
    ASSUME Init
    PROVE  RunInv
<1>1. /\ \A g \in Goroutine : pc[g] = "idle" /\ frame[g] = NoFrame /\ on[g] = 0
      /\ \A p \in Pipeline : pstatus[p] = Absent
      /\ dq.at = "acquire" /\ cron.op = "free" /\ jobs = {}
  BY DEF Init, FreeLock
<1>2. OwnInv
  BY <1>1 DEF OwnInv, SingleRun, BusyIsRunning, Busy, HandIsIdle, HandIsWaiting, RerunHasEnded,
     NobodyCancels, Executing, Absent
<1>3. FrameInv /\ JobsInv
  BY <1>1 DEF FrameInv, NoFrame, JobsInv, JobsPlaced, JobsDistinct, DoneWell
<1> QED
  BY <1>2, <1>3, TypeInit, QueueInit DEF RunInv

LEMMA RunNext ==
    ASSUME NoRevival, RunInv, [Next]_vars
    PROVE  RunInv'
  BY TypeNext, QueueNext, OwnStep, FrameStep, JobsPlacedStep, DoneWellStep DEF RunInv, JobsInv

\* The inductive invariant of this part, where nothing that was cancelled is rerun.
LEMMA RunsInvariant ==
    ASSUME NoRevival
    PROVE  Spec => []RunInv
<1>1. Init => RunInv
  BY RunInit
<1>2. RunInv /\ [Next]_vars => RunInv'
  BY RunNext
<1> QED
  BY <1>1, <1>2, PTL DEF Spec

\* No pipeline is run by two goroutines at the same time, where nothing is
\* cancelled or nothing is rerun. (Both together break it: what is cancelled
\* between the query and the update of the loop runs, and can be rerun.)
THEOREM RunOnce ==
    ASSUME NoRevival
    PROVE  Spec => []SingleRun
<1>1. RunInv => SingleRun
  BY DEF RunInv, OwnInv
<1> QED
  BY <1>1, RunsInvariant, PTL

\* The tasks of a pipeline that run at the same time are of the same row.
THEOREM RowsOneByOne ==
    ASSUME NoRevival
    PROVE  Spec => []RowBarrier
<1>1. ASSUME RunInv
      PROVE  RowBarrier
  <2>1. SUFFICES ASSUME NEW i \in jobs, NEW j \in jobs, i.t.p = j.t.p
                 PROVE  i.t.row = j.t.row
    BY DEF RowBarrier
  <2>2. i.g \in Goroutine /\ j.g \in Goroutine
    BY <1>1 DEF RunInv, TypeOK, Jobs
  <2>3. Executing(i.g) /\ Executing(j.g) /\ on[i.g] = on[j.g]
    BY <1>1, <2>1 DEF RunInv, JobsInv, JobsPlaced, Executing
  <2>4. i.g = j.g
    BY <1>1, <2>2, <2>3 DEF RunInv, OwnInv, SingleRun
  <2> QED
    BY <1>1, <2>4 DEF RunInv, JobsInv, JobsPlaced
<1>2. RunInv => RowBarrier
  BY <1>1
<1> QED
  BY <1>2, RunsInvariant, PTL

\* After a task that was cancelled and did not succeed no row follows, if
\* SkipOnFail is not set.
THEOREM CancelStops ==
    ASSUME NoRevival, SkipOnFail = {}
    PROVE  Spec => CancelEndsRun
<1>1. ASSUME RunInv, [Next]_vars, NEW g \in Goroutine, pc[g] = "wait", pc'[g] = "row",
             NEW j \in JobsOf(g)
      PROVE  tasks[j.t] # "FAILED"
  <2>0. TypeOK
    BY <1>1 DEF RunInv
  <2>1. RunJoin(g)
    <3>1. CASE UNCHANGED <<pc, on, frame, jobs>>
      BY <1>1, <3>1
    <3>2. CASE DequeueStart
      BY <1>1, <2>0, <3>2, StartEffect DEF OnlyRunner
    <3>3. ASSUME NEW h \in Goroutine, RunStep(h), ~RunPanics(h)
          PROVE  RunJoin(g)
      <4>1. OnlyRunner(h)
        BY <2>0, <3>3, LoadEffect, RowEffect, JoinEffect, EndEffect, ComputeEffect, SaveEffect,
           ReleaseEffect DEF RunStep
      <4>2. h = g
        BY <1>1, <4>1 DEF OnlyRunner
      <4> QED
        BY <1>1, <3>3, <4>2 DEF RunStep, RunLoad, RunRow, RunRowsDone, RunDbError, RunCompute,
           RunSave, RunRelease
    <3>4. CASE CancelOneTask
      BY <1>1, <2>0, <3>4, CancelEffect
    <3>5. ASSUME NEW k \in jobs, TaskStep(k)
          PROVE  FALSE
      BY <1>1, <2>0, <3>5, JobEffect
    <3>6. CASE Restart
      BY <1>1, <2>0, <3>6, RestartEffect
    <3> QED
      BY <1>1, <2>0, <3>1, <3>2, <3>3, <3>4, <3>5, <3>6, WhoMoves
  <2>2. RowIsDone(g) /\ ~StopsRun(on[g], RowError(g))
    BY <1>1, <2>0, <2>1, JoinEffect
  <2>3. RowError(g) = "nil"
    BY <1>1, <2>2 DEF StopsRun
  <2>4. j \in jobs /\ j.res \in {"nil", "failed", "canceled"} /\ j.at = "done"
    BY <2>0, <2>2 DEF JobsOf, TypeOK, Jobs, RowIsDone
  <2>5. j.res = "nil"
    BY <2>3, <2>4 DEF RowError
  <2> QED
    BY <1>1, <2>4, <2>5 DEF RunInv, JobsInv, DoneWell, WentWell
<1>2. RunInv /\ [Next]_vars =>
        [\A g \in Goroutine : pc[g] = "wait" /\ pc'[g] = "row" =>
            \A j \in JobsOf(g) : j.ctx = "cancelled" => tasks[j.t] # "FAILED"]_vars
  BY <1>1
<1> QED
  BY <1>2, RunsInvariant, PTL DEF Spec, CancelEndsRun

-----------------------------------------------------------------------------
(* The status of a pipeline, where nobody cancels.                          *)

\* The steps that change the status of a pipeline.
LEMMA StatusSteps ==
    ASSUME TypeOK, [Next]_vars
    PROVE  \/ pstatus' = pstatus
           \/ \E p \in Pipeline : CreateDbPipeline(p)
           \/ CancelSavePipeline \/ RerunMark \/ DequeueMark
           \/ \E g \in Goroutine : RunRow(g) \/ RunSave(g)
           \/ Restart
<1> USE DEF db
<1>1. ASSUME NEW p \in Pipeline, CancelPipeline(p) \/ RerunPipeline(p)
      PROVE  pstatus' = pstatus
  BY <1>1 DEF CancelPipeline, RerunPipeline
<1>2. ASSUME CancelSaveTasks \/ CancelOneTask \/ DequeueAcquire \/ DequeueSelect \/ DequeueStart
      PROVE  pstatus' = pstatus
  BY <1>2 DEF CancelSaveTasks, CancelOneTask, DequeueAcquire, DequeueSelect, DequeueStart
<1>3. ASSUME NEW g \in Goroutine,
             RunLoad(g) \/ RunJoin(g) \/ RunRowsDone(g) \/ RunDbError(g) \/ RunCompute(g)
             \/ RunRelease(g)
      PROVE  pstatus' = pstatus
  BY <1>3 DEF RunLoad, RunJoin, RunRowsDone, RunDbError, RunCompute, RunRelease
<1>4. ASSUME NEW j \in jobs, TaskStep(j) PROVE pstatus' = pstatus
  BY <1>4 DEF TaskStep, TaskStart, TaskRefused, TaskEnd
<1>5. ASSUME Crash \/ DequeuePanics \/ \E g \in Goroutine : RunPanics(g) PROVE Restart
  BY <1>5 DEF Crash, DequeuePanics, RunPanics
<1> QED
  BY <1>1, <1>2, <1>3, <1>4, <1>5 DEF vars, Next, ApiStep, DequeueStep, RunStep

LEMMA StatusMove ==
    ASSUME NoCancel, RunInv, [Next]_vars, NEW p \in Pipeline, pstatus'[p] # pstatus[p]
    PROVE  \/ CreateDbPipeline(p) /\ pstatus[p] = Absent /\ pstatus'[p] = "CREATED"
           \/ /\ RerunMark /\ p = cron.p
              /\ pstatus[p] \in {"COMPLETED", "PARTIAL", "FAILED"} /\ pstatus'[p] = "RERUN"
           \/ pstatus[p] \in Waiting /\ pstatus'[p] = "RUNNING"
           \/ pstatus[p] = "RUNNING" /\ pstatus'[p] \in {"COMPLETED", "PARTIAL", "FAILED"}
<1>0. TypeOK /\ OwnInv /\ FrameInv /\ pstatus \in [Pipeline -> Status \cup {Absent}]
  BY DEF RunInv, TypeOK
<1>1. ASSUME NEW q \in Pipeline, CreateDbPipeline(q)
      PROVE  CreateDbPipeline(p) /\ pstatus[p] = Absent /\ pstatus'[p] = "CREATED"
  BY <1>0, <1>1, CreateEffect
<1>2. ~CancelSavePipeline
  BY <1>0 DEF CancelSavePipeline, OwnInv, NobodyCancels
<1>3. CASE RerunMark
  <2>1. pstatus[cron.p] \in Ended \ {"CANCELLED"} /\ cron.p \in Pipeline
    BY <1>0, <1>3 DEF RerunMark, OwnInv, RerunHasEnded, NobodyCancels, TypeOK
  <2>2. pstatus' = [pstatus EXCEPT ![cron.p] = "RERUN"]
    BY <1>3 DEF RerunMark
  <2> QED
    BY <1>0, <1>3, <2>1, <2>2 DEF Ended
<1>4. CASE DequeueMark
  <2>1. pstatus' = [pstatus EXCEPT ![dq.p] = "RUNNING"] /\ dq.at = "mark"
    BY <1>4 DEF DequeueMark
  <2>2. pstatus[dq.p] \in Waiting
    BY <1>0, <2>1 DEF OwnInv, HandIsWaiting
  <2> QED
    BY <1>0, <2>1, <2>2
<1>5. ASSUME NEW g \in Goroutine, RunRow(g) \/ RunSave(g)
      PROVE  pstatus[p] = "RUNNING" /\ pstatus'[p] \in {"COMPLETED", "PARTIAL", "FAILED"}
  <2>1. Executing(g)
    BY <1>5 DEF RunRow, RunSave, Executing
  <2>2. pstatus[on[g]] = "RUNNING" /\ on[g] \in Pipeline
    BY <1>0, <2>1, RunnerTypes DEF OwnInv, BusyIsRunning, Busy
  <2>3. CASE RunRow(g)
    BY <1>0, <2>2, <2>3, RowEffect
  <2>4. CASE RunSave(g)
    <3>1. frame[g].verdict \in {"COMPLETED", "PARTIAL", "FAILED"}
      BY <1>0, <2>4, SaveEffect, RunnerTypes DEF FrameInv, Frames
    <3>2. pstatus' = [pstatus EXCEPT ![on[g]] = frame[g].verdict]
      BY <1>0, <2>4, SaveEffect
    <3> QED
      BY <1>0, <2>2, <3>1, <3>2
  <2> QED
    BY <1>5, <2>3, <2>4
<1>6. CASE Restart
  BY <1>0, <1>6, RestartEffect DEF AfterRestart
<1> QED
  BY <1>0, <1>1, <1>2, <1>3, <1>4, <1>5, <1>6, StatusSteps

\* Where nobody cancels, the status of a pipeline moves from created to running,
\* to one of the ends, and from there only to be rerun.
THEOREM LifecycleKept ==
    ASSUME NoCancel
    PROVE  Spec => StatusLifecycle
<1>1. ASSUME RunInv, [Next]_vars, NEW p \in Pipeline, pstatus'[p] # pstatus[p]
      PROVE  <<pstatus[p], pstatus'[p]>> \in StatusMoves
  BY <1>1, StatusMove DEF StatusMoves
<1>2. RunInv /\ [Next]_vars =>
        [\A p \in Pipeline : pstatus'[p] # pstatus[p] =>
            <<pstatus[p], pstatus'[p]>> \in StatusMoves]_vars
  BY <1>1
<1> QED
  BY <1>2, RunsInvariant, PTL DEF Spec, StatusLifecycle, NoRevival

\* The tasks of one cell: there are not more than MaxAttempts.
Attempts(t) == {u \in TasksOf(t.p) : SameCell(t, u)}

LEMMA AttemptsFinite ==
    ASSUME NEW t \in Task
    PROVE  IsFiniteSet(Attempts(t)) /\ Cardinality(Attempts(t)) \in Nat
<1> DEFINE f == [i \in 1 .. MaxAttempts |-> [t EXCEPT !.n = i]]
           S == {f[i] : i \in 1 .. MaxAttempts}
<1>1. MaxAttempts \in Nat
  BY CountsAssumption
<1>2. IsFiniteSet(1 .. MaxAttempts)
  BY <1>1, FS_Interval
<1>3. IsFiniteSet({f[i] : i \in 1 .. MaxAttempts})
  <2>1. f \in Surjection(1 .. MaxAttempts, S)
    BY DEF Surjection
  <2> QED
    BY <1>2, <2>1, FS_Surjection
<1>4. ASSUME NEW u \in Attempts(t)
      PROVE  u \in S
  <2>1. u \in Task /\ u.p = t.p /\ u.row = t.row /\ u.col = t.col
    BY DEF Attempts, TasksOf, SameCell
  <2>2. u.n \in 1 .. MaxAttempts /\ u = [t EXCEPT !.n = u.n]
    BY <2>1 DEF Task
  <2> QED
    BY <2>2
<1>5. Attempts(t) \subseteq S
  BY <1>4
<1>6. IsFiniteSet(Attempts(t))
  BY <1>3, <1>5, FS_Subset
<1> QED
  BY <1>6, FS_CardinalityType

\* The row that takes the cell of a task is another task of its pipeline.
LEMMA NextAttemptType ==
    ASSUME NEW p \in Pipeline, NEW t \in TasksOf(p), NextAttempt(t).n <= MaxAttempts
    PROVE  /\ NextAttempt(t) \in Task /\ NextAttempt(t).n = 1 + Cardinality(Attempts(t))
           /\ NextAttempt(t).n # 1
           /\ NextAttempt(t).p = p /\ NextAttempt(t).row = t.row /\ NextAttempt(t).col = t.col
<1> DEFINE k == Cardinality(Attempts(t))
<1>1. t \in Task /\ t.p = p /\ t \in Attempts(t)
  BY DEF TasksOf, Attempts, SameCell
<1>2. k \in Nat /\ k # 0
  BY <1>1, AttemptsFinite, FS_EmptySet
<1>3. NextAttempt(t) = [t EXCEPT !.n = 1 + k]
  BY DEF NextAttempt, Attempts
<1> HIDE DEF k
<1>4. NextAttempt(t).n = 1 + k /\ NextAttempt(t).p = p /\ NextAttempt(t).row = t.row /\ NextAttempt(t).col = t.col
  BY <1>1, <1>3 DEF Task
<1>5. 1 + k \in 1 .. MaxAttempts
  BY <1>2, <1>4, CountsAssumption
<1>6. NextAttempt(t) \in Task
  BY <1>1, <1>3, <1>5 DEF Task
<1> QED
  BY <1>2, <1>4, <1>6 DEF k

\* No task is deleted.
LEMMA TasksGrow ==
    ASSUME TypeOK, [Next]_vars
    PROVE  \A p \in Pipeline : TasksOf(p) \subseteq TasksOf(p)'
<1>1. SUFFICES ASSUME NEW t \in Task, tasks[t] # Absent
               PROVE  tasks'[t] # Absent
  BY DEF TasksOf
<1>2. tasks \in [Task -> Status \cup {Absent}]
  BY DEF TypeOK
<1>3. ASSUME NEW p \in Pipeline, CreateDbPipeline(p) PROVE tasks'[t] # Absent
  BY <1>1, <1>3, CreateEffect DEF Absent
<1>4. ASSUME NEW p \in Pipeline, RerunPipeline(p) PROVE tasks'[t] # Absent
  <2>1. \E failed, new : tasks' = TasksRerun(failed, new)
    BY <1>4, RerunEffect
  <2> QED
    BY <1>1, <2>1 DEF TasksRerun, Absent
<1>5. CASE CancelSaveTasks
  BY <1>1, <1>5 DEF CancelSaveTasks, Absent
<1>6. ASSUME NEW j \in jobs, TaskStep(j) PROVE tasks'[t] # Absent
  BY <1>1, <1>2, <1>6 DEF TaskStep, TaskStart, TaskRefused, TaskEnd, db, Absent
<1>7. CASE Restart
  BY <1>1, <1>7, RestartEffect DEF AfterRestart, Absent
<1> QED
  BY <1>1, <1>3, <1>4, <1>5, <1>6, <1>7, TasksMove

\* What is about to be marked for a rerun has a second task in some cell.
RerunHasAttempt == cron.op = "rerunMark" => \E t \in TasksOf(cron.p) : t.n # 1

LEMMA CronMoves ==
    ASSUME TypeOK, [Next]_vars, cron'.op = "rerunMark"
    PROVE  cron' = cron \/ \E p \in Pipeline : RerunPipeline(p)
<1>0. cron \in [op : LockOps, p : Pipeline \cup {0}, todo : SUBSET Task, began : BOOLEAN]
  BY DEF TypeOK
<1>1. ASSUME NEW p \in Pipeline, CreateDbPipeline(p) PROVE cron' = cron
  BY <1>1 DEF CreateDbPipeline
<1>2. ASSUME NEW p \in Pipeline, CancelPipeline(p) PROVE FALSE
  BY <1>2 DEF CancelPipeline
<1>3. ~CancelSaveTasks /\ ~RerunMark
  BY DEF CancelSaveTasks, RerunMark, FreeLock
<1>4. ~CancelSavePipeline
  BY <1>0 DEF CancelSavePipeline, FreeLock
<1>5. ~CancelOneTask
  BY CancelEffect
<1>6. ASSUME DequeueAcquire \/ DequeueSelect \/ DequeueMark \/ DequeueStart PROVE cron' = cron
  BY <1>6 DEF DequeueAcquire, DequeueSelect, DequeueMark, DequeueStart
<1>7. ~Restart
  BY RestartEffect
<1>8. ASSUME NEW g \in Goroutine, RunStep(g) PROVE cron' = cron
  BY <1>7, <1>8 DEF RunStep, RunLoad, RunRow, RunJoin, RunRowsDone, RunDbError, RunCompute,
     RunSave, RunRelease, RunPanics
<1>9. ASSUME NEW j \in jobs, TaskStep(j) PROVE cron' = cron
  BY <1>9 DEF TaskStep, TaskStart, TaskRefused, TaskEnd
<1> QED
  BY <1>1, <1>2, <1>3, <1>4, <1>5, <1>6, <1>7, <1>8, <1>9
  DEF vars, Next, ApiStep, DequeueStep, DequeuePanics, Crash

LEMMA BlueprintStep ==
    ASSUME NoCancel, RunInv, BlueprintExclusive, RerunHasAttempt, [Next]_vars
    PROVE  BlueprintExclusive' /\ RerunHasAttempt'
<1>0. TypeOK /\ pstatus \in [Pipeline -> Status \cup {Absent}]
  BY DEF RunInv, TypeOK
<1>1. \A p \in Pipeline : TasksOf(p) \subseteq TasksOf(p)'
  BY <1>0, TasksGrow
<1>2. ASSUME NEW p \in Pipeline, NEW q \in Pipeline, p # q,
             BlueprintOf[p] = BlueprintOf[q], BlueprintOf[p] # 0,
             \A t \in TasksOf(p)' \cup TasksOf(q)' : t.n = 1,
             pstatus'[p] \in Pending, pstatus'[q] \in Pending,
             pstatus[p] \notin Pending
      PROVE  FALSE
  <2>1. pstatus'[p] # pstatus[p]
    BY <1>2
  <2>2. CASE CreateDbPipeline(p)
    <3>1. pstatus'[q] = pstatus[q] /\ ~BlueprintIsBusy(BlueprintOf[p])
      BY <1>0, <1>2, <2>2, CreateEffect
    <3> QED
      BY <1>2, <3>1 DEF BlueprintIsBusy
  <2>3. CASE RerunMark /\ p = cron.p
    <3>1. PICK t \in TasksOf(p) : t.n # 1
      BY <2>3 DEF RerunHasAttempt, RerunMark
    <3> QED
      BY <1>1, <1>2, <3>1
  <2> QED
    BY <1>2, <2>1, <2>2, <2>3, StatusMove DEF Pending
<1>3. BlueprintExclusive'
  <2>1. SUFFICES ASSUME NEW p \in Pipeline, NEW q \in Pipeline, p # q,
                        BlueprintOf[p] = BlueprintOf[q], BlueprintOf[p] # 0,
                        \A t \in TasksOf(p)' \cup TasksOf(q)' : t.n = 1,
                        pstatus'[p] \in Pending, pstatus'[q] \in Pending
                 PROVE  FALSE
    BY DEF BlueprintExclusive
  <2>2. pstatus[p] \notin Pending \/ pstatus[q] \notin Pending
    BY <1>1, <2>1 DEF BlueprintExclusive
  <2> QED
    BY <1>2, <2>1, <2>2
<1>4. RerunHasAttempt'
  <2>1. SUFFICES ASSUME cron'.op = "rerunMark"
                 PROVE  \E t \in Task : t.p = cron'.p /\ tasks'[t] # Absent /\ t.n # 1
    BY DEF RerunHasAttempt, TasksOf
  <2>2. CASE cron' = cron
    <3>1. cron.p \in Pipeline /\ \E t \in TasksOf(cron.p) : t.n # 1
      BY <1>0, <2>1, <2>2 DEF RerunHasAttempt, TypeOK
    <3>2. PICK t \in TasksOf(cron.p) : t.n # 1
      BY <3>1
    <3>3. t \in Task /\ t.p = cron.p /\ tasks'[t] # Absent
      BY <1>1, <3>1 DEF TasksOf
    <3> QED
      BY <2>2, <3>2, <3>3
  <2>3. ASSUME NEW p \in Pipeline, RerunPipeline(p)
        PROVE  \E t \in Task : t.p = cron'.p /\ tasks'[t] # Absent /\ t.n # 1
    <3>1. cron.op = "free"
      BY <1>0, <2>3, RerunEffect
    <3>2. PICK targets \in RerunTargets(p) : \E failed, done \in SUBSET targets :
              /\ targets # {}
              /\ \A t \in targets : NextAttempt(t).n <= MaxAttempts
              /\ tasks' = TasksRerun(failed, {NextAttempt(t) : t \in done})
              /\ \/ /\ failed = targets /\ done = targets
                    /\ cron' = [op |-> "rerunMark", p |-> p, todo |-> {}, began |-> FALSE]
                 \/ "dbError" \in Ops /\ cron' = cron
      BY <1>0, <2>3, RerunEffect
    <3> PICK failed, done \in SUBSET targets :
              /\ targets # {}
              /\ \A t \in targets : NextAttempt(t).n <= MaxAttempts
              /\ tasks' = TasksRerun(failed, {NextAttempt(t) : t \in done})
              /\ \/ /\ failed = targets /\ done = targets
                    /\ cron' = [op |-> "rerunMark", p |-> p, todo |-> {}, began |-> FALSE]
                 \/ "dbError" \in Ops /\ cron' = cron
      BY <3>2
    <3>3. /\ targets # {} /\ done = targets /\ cron'.p = p
      BY <2>1, <3>1
    <3>4. PICK t \in targets : t \in TasksOf(p)
      BY <3>3, TargetsType
    <3>5. NextAttempt(t) \in Task /\ NextAttempt(t).p = p /\ NextAttempt(t).n # 1
      BY <3>4, NextAttemptType
    <3>6. tasks' = TasksRerun(failed, {NextAttempt(u) : u \in done})
      OBVIOUS
    <3>7. tasks'[NextAttempt(t)] = "RERUN"
      BY <3>3, <3>4, <3>5, <3>6 DEF TasksRerun
    <3> QED
      BY <3>3, <3>5, <3>7 DEF Absent
  <2> QED
    BY <1>0, <2>1, <2>2, <2>3, CronMoves
<1> QED
  BY <1>3, <1>4

\* A blueprint has one pending pipeline at a time, as long as neither was rerun
\* and nobody cancels.
THEOREM BlueprintRunsOnce ==
    ASSUME NoCancel
    PROVE  Spec => []BlueprintExclusive
<1>1. Init => RunInv
  BY RunInit
<1>2. Init => BlueprintExclusive /\ RerunHasAttempt
  BY DEF Init, BlueprintExclusive, RerunHasAttempt, FreeLock, Pending, Waiting, Absent
<1>3. RunInv /\ [Next]_vars => RunInv'
  BY RunNext DEF NoRevival
<1>4. RunInv /\ BlueprintExclusive /\ RerunHasAttempt /\ [Next]_vars
        => BlueprintExclusive' /\ RerunHasAttempt'
  BY BlueprintStep
<1> QED
  BY <1>1, <1>2, <1>3, <1>4, PTL DEF Spec
=============================================================================
