-------------------------- MODULE PipelineTaskProofs --------------------------
(***************************************************************************)
(* Proofs about the tasks of PipelineService, where whole pipelines are     *)
(* rerun and the process may crash, but nothing is cancelled, no single     *)
(* task is rerun and the database answers: each of these three breaks some  *)
(* of what is proved here, as the README says.                              *)
(***************************************************************************)
EXTENDS PipelineServiceProofs, WellFoundedInduction

PlainOps == Ops \subseteq {"rerun", "crash"}

\* A created pipeline has its whole plan, and the attempts at a cell are
\* numbered from 1 with no gap.
RowsOfPlan ==
    /\ \A t, u \in Task :
          SameCell(t, u) /\ u.n <= t.n /\ tasks[t] # Absent => tasks[u] # Absent
    /\ \A t \in Task :
          /\ tasks[t] # Absent => pstatus[t.p] # Absent
          /\ pstatus[t.p] # Absent /\ t.n = 1 => tasks[t] # Absent
          /\ tasks[t] \notin {"CANCELLED", "PARTIAL"}

\* The status of a task is what its job makes of it.
JobState(j) ==
    /\ j.ctx = "live" /\ j.res \in {"nil", "failed"}
    /\ j.t.p \in SkipOnFail => j.res = "nil"
    /\ j.at = "spawned" => tasks[j.t] \in Waiting
    /\ j.at = "running" => tasks[j.t] = "RUNNING"
    /\ j.at = "done" => tasks[j.t] \in {"COMPLETED", "FAILED"}
    /\ j.at = "done" /\ j.t.p \notin SkipOnFail =>
          tasks[j.t] = IF j.res = "nil" THEN "COMPLETED" ELSE "FAILED"
    /\ j.t \in Latest(j.t.p)

Registered == \A e \in registry : \E j \in jobs : j.at = "running" /\ j.t = e[2]

TaskIsOwned ==
    \A t \in Task : tasks[t] = "RUNNING" => \E j \in jobs : j.t = t /\ j.at = "running"

JobsState == (\A j \in jobs : JobState(j)) /\ Registered /\ TaskIsOwned

\* The tasks of p, before a run and during one, have not failed.
NoneFailed(p, busy) ==
    \A t \in Latest(p) : tasks[t] \in Waiting \cup {"COMPLETED"} \/ t \in busy

\* What goroutine g leaves of pipeline p: while it goes over the rows, what waits
\* is in its hands and comes later; when it computes the status, nothing waits,
\* or the run ended with an error that a task shows.
TasksWith(g) == {j.t : j \in JobsOf(g)}
OverRows(g, p) ==
    /\ frame[g].err = "nil"
    /\ \A t \in Task : t.p = p /\ tasks[t] \in Waiting =>
          \/ t \in frame[g].todo /\ t.row > frame[g].row
          \/ t \in TasksWith(g)
    /\ \A t \in frame[g].todo : t.row > frame[g].row => tasks[t] \in Waiting
    /\ p \notin SkipOnFail => NoneFailed(p, TasksWith(g))
AtEnd(g, p) ==
    \/ frame[g].err = "nil" /\ \A t \in Task : t.p = p => tasks[t] \notin Waiting
    \/ frame[g].err = "failed" /\ p \notin SkipOnFail /\ \E t \in Latest(p) : tasks[t] = "FAILED"
RunState(g, p) ==
    /\ pc[g] = "load" => NoneFailed(p, {})
    /\ pc[g] \in {"row", "wait"} => OverRows(g, p)
    /\ pc[g] = "compute" => AtEnd(g, p)
    /\ pc[g] = "save" /\ frame[g].verdict = "COMPLETED" => \A t \in Latest(p) : tasks[t] = "COMPLETED"
RunsState == \A g \in Goroutine : \A p \in Pipeline : on[g] = p => RunState(g, p)

\* A pipeline that is to run has no failed task that was not replaced.
ToRun(p) ==
    \/ pstatus[p] \in Waiting
    \/ cron.op = "rerunMark" /\ cron.p = p
    \/ dq.at = "start" /\ dq.p = p
ToRunState == \A p \in Pipeline : ToRun(p) => NoneFailed(p, {})

PipelineIsOwned ==
    \A p \in Pipeline : pstatus[p] = "RUNNING" => Busy(p)

TaskInv ==
    /\ RowsOfPlan /\ ReplacedIsSettled
    /\ JobsState /\ RunsState /\ ToRunState
    /\ EarlierRowsCompleted /\ PipelineIsOwned

-----------------------------------------------------------------------------
(* The attempts at a cell.                                                  *)

LEMMA TaskFields ==
    ASSUME NEW t \in Task
    PROVE  /\ t.p \in Pipeline /\ t.n \in Nat /\ t.n >= 1
           /\ <<t.row, t.col>> \in Plan[t.p] /\ t.row \in Nat /\ t.row >= 1
           /\ \A u \in Task : SameCell(t, u) /\ t.n = u.n => t = u
           /\ \A i \in 1 .. t.n : [t EXCEPT !.n = i] \in Task /\ SameCell(t, [t EXCEPT !.n = i])
<1>1. Plan[t.p] \subseteq (Nat \ {0}) \X (Nat \ {0})
  BY RequestAssumption DEF Task
<1>2. <<t.row, t.col>> \in Plan[t.p] /\ t.p \in Pipeline /\ t.n \in 1 .. MaxAttempts
  BY DEF Task
<1>3. t.row \in Nat \ {0}
  BY <1>1, <1>2
<1>4. MaxAttempts \in Nat
  BY CountsAssumption
<1>5. \A u \in Task : SameCell(t, u) /\ t.n = u.n => t = u
  BY DEF Task, SameCell
<1>6. ASSUME NEW i \in 1 .. t.n
      PROVE  [t EXCEPT !.n = i] \in Task /\ SameCell(t, [t EXCEPT !.n = i])
  <2>1. i \in 1 .. MaxAttempts
    BY <1>2, <1>4
  <2> QED
    BY <2>1 DEF Task, SameCell
<1> QED
  BY <1>2, <1>3, <1>4, <1>5, <1>6

\* The attempt with the highest number counts the attempts.
LEMMA LatestCounts ==
    ASSUME RowsOfPlan, NEW p \in Pipeline, NEW t \in Latest(p)
    PROVE  Cardinality(Attempts(t)) = t.n
<1> DEFINE f == [i \in 1 .. t.n |-> [t EXCEPT !.n = i]]
<1>1. /\ t \in Task /\ t.p = p /\ tasks[t] # Absent /\ t.n \in Nat /\ t.n >= 1
      /\ \A u \in TasksOf(p) : SameCell(t, u) => u.n <= t.n
  BY TaskFields DEF Latest, TasksOf
<1>2. ASSUME NEW i \in 1 .. t.n
      PROVE  f[i] \in Attempts(t) /\ f[i].n = i
  <2>1. f[i] \in Task /\ SameCell(t, f[i]) /\ f[i].n = i /\ f[i].p = t.p
    BY <1>1, TaskFields DEF Task
  <2>2. \A u \in Task : SameCell(t, u) /\ u.n <= t.n => tasks[u] # Absent
    BY <1>1 DEF RowsOfPlan
  <2> HIDE DEF f
  <2>3. tasks[f[i]] # Absent
    BY <1>1, <2>1, <2>2
  <2> QED
    BY <2>1, <2>3 DEF Attempts, TasksOf
<1>3. ASSUME NEW u \in Attempts(t)
      PROVE  u.n \in 1 .. t.n /\ f[u.n] = u
  <2>1. u \in Task /\ SameCell(t, u) /\ u.n \in Nat /\ u.n >= 1 /\ u.n <= t.n
    BY <1>1, TaskFields DEF Attempts, TasksOf
  <2>2. u.n \in 1 .. t.n
    BY <1>1, <2>1
  <2>3. f[u.n] \in Task /\ SameCell(u, f[u.n]) /\ u.n = f[u.n].n
    BY <1>2, <2>1, <2>2 DEF Attempts, TasksOf, SameCell
  <2>4. u = f[u.n]
    BY <2>1, <2>3, TaskFields
  <2> QED
    BY <2>2, <2>4
<1>4. f \in [1 .. t.n -> Attempts(t)]
  <2>1. \A i \in 1 .. t.n : f[i] \in Attempts(t)
    BY <1>2
  <2> QED
    BY <2>1
<1> HIDE DEF f
<1>5. f \in Bijection(1 .. t.n, Attempts(t))
  BY <1>2, <1>3, <1>4 DEF Bijection, Injection, Surjection, IsInjective
<1>6. IsFiniteSet(1 .. t.n) /\ Cardinality(1 .. t.n) = t.n
  BY <1>1, FS_Interval
<1> QED
  BY <1>5, <1>6, FS_Bijection DEF ExistsBijection

\* So the row that CreateTask adds is the next one.
LEMMA LatestNext ==
    ASSUME RowsOfPlan, NEW p \in Pipeline, NEW t \in Latest(p), NextAttempt(t).n <= MaxAttempts
    PROVE  /\ NextAttempt(t) \in Task /\ NextAttempt(t).n = t.n + 1
           /\ SameCell(t, NextAttempt(t)) /\ NextAttempt(t).p = p
           /\ tasks[NextAttempt(t)] = Absent
<1>1. t \in TasksOf(p) /\ t \in Task /\ t.p = p /\ t.n \in Nat
  BY TaskFields DEF Latest, TasksOf
<1>2. Cardinality(Attempts(t)) = t.n
  BY LatestCounts
<1>3. /\ NextAttempt(t) \in Task /\ NextAttempt(t).n = t.n + 1
      /\ SameCell(t, NextAttempt(t)) /\ NextAttempt(t).p = p
  BY <1>1, <1>2, NextAttemptType DEF SameCell
<1>4. NextAttempt(t) \notin TasksOf(p)
  BY <1>1, <1>3 DEF Latest
<1> QED
  BY <1>3, <1>4 DEF TasksOf

\* A cell with a task has a latest one.
LEMMA LatestExists ==
    ASSUME NEW p \in Pipeline, NEW t \in TasksOf(p)
    PROVE  \E u \in Latest(p) : SameCell(t, u)
<1> DEFINE S == {MaxAttempts - u.n : u \in Attempts(t)}
<1>1. t \in Task /\ t.p = p /\ t \in Attempts(t) /\ MaxAttempts \in Nat
  BY CountsAssumption DEF TasksOf, Attempts, SameCell
<1>2. \A u \in Attempts(t) : u \in Task /\ u.n \in 1 .. MaxAttempts /\ u \in TasksOf(p) /\ SameCell(t, u)
  BY <1>1 DEF Attempts, TasksOf, Task
<1>3. S \in SUBSET Nat /\ S # {}
  BY <1>1, <1>2
<1>4. PICK x \in S : \A y \in S : ~(<<y, x>> \in OpToRel(<, Nat))
  BY <1>3, NatLessThanWellFounded, WFMin
<1>5. \A y \in S : ~(y < x)
  BY <1>3, <1>4 DEF OpToRel
<1>6. PICK u \in Attempts(t) : x = MaxAttempts - u.n
  BY <1>4
<1>7. ASSUME NEW v \in Attempts(t) PROVE v.n <= u.n
  <2>1. MaxAttempts - v.n \in S
    OBVIOUS
  <2>2. ~(MaxAttempts - v.n < MaxAttempts - u.n)
    BY <1>5, <1>6, <2>1
  <2> QED
    BY <1>1, <1>2, <2>2
<1>8. \A v \in TasksOf(p) : SameCell(u, v) => v \in Attempts(t)
  BY <1>1, <1>2 DEF Attempts, SameCell
<1> QED
  BY <1>2, <1>6, <1>7, <1>8 DEF Latest

\* What is the latest only depends on which tasks there are.
LEMMA LatestKept ==
    ASSUME NEW p \in Pipeline,
           \A t \in Task : t.p = p => (tasks'[t] = Absent <=> tasks[t] = Absent)
    PROVE  TasksOf(p)' = TasksOf(p) /\ Latest(p)' = Latest(p)
<1>1. TasksOf(p)' = TasksOf(p)
  BY DEF TasksOf
<1> QED
  BY <1>1 DEF Latest

-----------------------------------------------------------------------------
(* What the steps do, where nothing goes wrong but a crash.                 *)

LEMMA PlainFacts ==
    ASSUME PlainOps
    PROVE  NoCancel /\ NoRevival /\ "dbError" \notin Ops /\ "rerunTask" \notin Ops
  BY DEF PlainOps, NoCancel, NoRevival

RunWell(g) ==
    \/ RunLoad(g) \/ RunRow(g) \/ RunJoin(g) \/ RunRowsDone(g)
    \/ RunCompute(g) \/ RunSave(g) \/ RunRelease(g)

QueueMoves == DequeueAcquire \/ DequeueSelect \/ DequeueMark \/ RerunMark \/ UNCHANGED vars

LEMMA PlainSteps ==
    ASSUME PlainOps, RunInv, [Next]_vars
    PROVE  \/ QueueMoves
           \/ \E p \in Pipeline : CreateDbPipeline(p) \/ RerunPipeline(p)
           \/ DequeueStart
           \/ \E g \in Goroutine : RunWell(g)
           \/ \E j \in jobs : TaskStep(j)
           \/ Restart
<1>1. NoCancel /\ "dbError" \notin Ops /\ cron.op \in {"free", "rerunMark"}
  BY PlainFacts DEF RunInv, OwnInv, NobodyCancels
<1>2. ASSUME NEW p \in Pipeline PROVE ~CancelPipeline(p)
  BY <1>1 DEF CancelPipeline, NoCancel
<1>3. ApiStep => RerunMark
  BY <1>1 DEF ApiStep, CancelSavePipeline, CancelSaveTasks, CancelOneTask
<1>4. DequeueStep => QueueMoves \/ DequeueStart
  BY <1>1 DEF DequeueStep, DequeuePanics, DbError, QueueMoves
<1>5. ASSUME NEW g \in Goroutine, RunStep(g) PROVE RunWell(g) \/ Restart
  BY <1>1, <1>5 DEF RunStep, RunDbError, DbError, RunPanics, RunWell
<1>6. Crash => Restart
  BY DEF Crash
<1> QED
  BY <1>2, <1>3, <1>4, <1>5, <1>6 DEF Next, QueueMoves

LEMMA QueueEffect ==
    ASSUME PlainOps, RunInv, QueueMoves
    PROVE  /\ UNCHANGED <<tasks, pc, on, frame, jobs, registry>>
           /\ \A p \in Pipeline :
                 /\ pstatus'[p] = Absent <=> pstatus[p] = Absent
                 /\ ToRun(p)' => ToRun(p)
                 /\ Busy(p) => Busy(p)'
                 /\ pstatus'[p] = "RUNNING" => pstatus[p] = "RUNNING" \/ Busy(p)'
<1>1. /\ NoCancel /\ "dbError" \notin Ops /\ pstatus \in [Pipeline -> Status \cup {Absent}]
      /\ dq \in [at : {"acquire", "select", "mark", "start"}, p : Pipeline \cup {0}]
      /\ dq.at = "mark" => pstatus[dq.p] \in Waiting /\ dq.p \in Pipeline
      /\ cron.op = "rerunMark" => pstatus[cron.p] \in Ended /\ cron.p \in Pipeline
  BY PlainFacts DEF RunInv, TypeOK, OwnInv, HandIsWaiting, RerunHasEnded
<1>2. UNCHANGED <<tasks, pc, on, frame, jobs, registry>>
  BY DEF QueueMoves, vars, DequeueAcquire, DequeueSelect, DequeueMark, RerunMark, db, runners, workers
<1>3. ASSUME pstatus' = pstatus, cron' = cron, dq.at # "start", dq'.at # "start"
      PROVE  \A p \in Pipeline :
                 /\ pstatus'[p] = Absent <=> pstatus[p] = Absent
                 /\ ToRun(p)' => ToRun(p)
                 /\ Busy(p) => Busy(p)'
                 /\ pstatus'[p] = "RUNNING" => pstatus[p] = "RUNNING" \/ Busy(p)'
  BY <1>2, <1>3 DEF ToRun, Busy, Executing
<1>4. CASE UNCHANGED vars
  BY <1>4 DEF vars, ToRun, Busy, Executing
<1>5. CASE DequeueAcquire \/ DequeueSelect
  <2>1. pstatus' = pstatus /\ cron' = cron /\ dq.at # "start" /\ dq'.at # "start"
    BY <1>1, <1>5 DEF DequeueAcquire, DequeueSelect, db
  <2> QED
    BY <1>2, <1>3, <2>1
<1>6. CASE DequeueMark
  <2>1. /\ dq.at = "mark" /\ dq'.at = "start" /\ dq'.p = dq.p /\ cron' = cron
        /\ pstatus' = [pstatus EXCEPT ![dq.p] = "RUNNING"]
    BY <1>1, <1>6 DEF DequeueMark
  <2>2. ASSUME NEW p \in Pipeline
        PROVE  /\ pstatus'[p] = Absent <=> pstatus[p] = Absent
               /\ ToRun(p)' => ToRun(p)
               /\ Busy(p) => Busy(p)'
               /\ pstatus'[p] = "RUNNING" => pstatus[p] = "RUNNING" \/ Busy(p)'
    BY <1>1, <1>2, <2>1 DEF ToRun, Busy, Executing, Waiting, Absent
  <2> QED
    BY <1>2, <2>2
<1>7. CASE RerunMark
  <2>1. /\ cron.op = "rerunMark" /\ cron'.op = "free" /\ dq' = dq
        /\ pstatus' = [pstatus EXCEPT ![cron.p] = "RERUN"]
    BY <1>1, <1>7 DEF RerunMark, FreeLock, DbError, queue
  <2>2. ASSUME NEW p \in Pipeline
        PROVE  /\ pstatus'[p] = Absent <=> pstatus[p] = Absent
               /\ ToRun(p)' => ToRun(p)
               /\ Busy(p) => Busy(p)'
               /\ pstatus'[p] = "RUNNING" => pstatus[p] = "RUNNING" \/ Busy(p)'
    BY <1>1, <1>2, <2>1 DEF ToRun, Busy, Executing, Ended, Absent
  <2> QED
    BY <1>2, <2>2
<1> QED
  BY <1>4, <1>5, <1>6, <1>7 DEF QueueMoves

LEMMA PlainCreate ==
    ASSUME PlainOps, TypeOK, NEW p \in Pipeline, CreateDbPipeline(p)
    PROVE  /\ pstatus[p] = Absent /\ pstatus'[p] = "CREATED"
           /\ \A q \in Pipeline : q # p => pstatus'[q] = pstatus[q]
           /\ \A t \in Task : tasks'[t] = IF t.p = p /\ t.n = 1 THEN "CREATED" ELSE tasks[t]
           /\ UNCHANGED <<cron, dq, pc, on, frame, jobs, registry>>
<1>1. pstatus \in [Pipeline -> Status \cup {Absent}]
  BY DEF TypeOK
<1>2. tasks' = [t \in Task |-> IF t.p = p /\ t.n = 1 /\ <<t.row, t.col>> \in Plan[p]
                               THEN "CREATED" ELSE tasks[t]]
  BY PlainFacts, CreateEffect
<1>3. \A t \in Task : tasks'[t] = IF t.p = p /\ t.n = 1 THEN "CREATED" ELSE tasks[t]
  BY <1>2, TaskFields
<1> QED
  BY <1>1, <1>3, CreateEffect

\* The latest tasks that are not completed fail, and each gets a new attempt.
LEMMA PlainRerun ==
    ASSUME PlainOps, TypeOK, RowsOfPlan, NEW p \in Pipeline, RerunPipeline(p)
    PROVE  LET targets == {t \in Latest(p) : tasks[t] # "COMPLETED"} IN
           /\ pstatus[p] \in Ended /\ cron.op = "free"
           /\ cron'.op = "rerunMark" /\ cron'.p = p
           /\ \A t \in Task : t.p # p => tasks'[t] = tasks[t]
           /\ \A t \in TasksOf(p) : tasks'[t] = IF t \in targets THEN "FAILED" ELSE tasks[t]
           /\ \A t \in targets : \E u \in Task :
                 SameCell(t, u) /\ u.n = t.n + 1 /\ tasks'[u] = "RERUN"
           /\ \A u \in Task : u.p = p /\ tasks[u] = Absent /\ tasks'[u] # Absent =>
                 /\ tasks'[u] = "RERUN"
                 /\ \E t \in targets : SameCell(t, u) /\ u.n = t.n + 1
           /\ UNCHANGED <<pstatus, dq, pc, on, frame, jobs, registry>>
<1> DEFINE targets == {t \in Latest(p) : tasks[t] # "COMPLETED"}
           new == {NextAttempt(t) : t \in targets}
<1>1. PICK chosen \in RerunTargets(p) : \E failed, done \in SUBSET chosen :
          /\ chosen # {}
          /\ \A t \in chosen : NextAttempt(t).n <= MaxAttempts
          /\ tasks' = TasksRerun(failed, {NextAttempt(t) : t \in done})
          /\ \/ /\ failed = chosen /\ done = chosen
                /\ cron' = [op |-> "rerunMark", p |-> p, todo |-> {}, began |-> FALSE]
             \/ "dbError" \in Ops /\ cron' = cron
  BY RerunEffect
<1>2. chosen = targets
  BY <1>1, PlainFacts DEF RerunTargets
<1> PICK failed, done \in SUBSET chosen :
          /\ chosen # {}
          /\ \A t \in chosen : NextAttempt(t).n <= MaxAttempts
          /\ tasks' = TasksRerun(failed, {NextAttempt(t) : t \in done})
          /\ \/ /\ failed = chosen /\ done = chosen
                /\ cron' = [op |-> "rerunMark", p |-> p, todo |-> {}, began |-> FALSE]
             \/ "dbError" \in Ops /\ cron' = cron
  BY <1>1
<1>3. /\ failed = targets /\ done = targets
      /\ cron'.op = "rerunMark" /\ cron'.p = p
  BY <1>2, PlainFacts
<1>4. \A t \in targets : NextAttempt(t).n <= MaxAttempts
  BY <1>2
<1>5. tasks' = TasksRerun(targets, new)
  BY <1>3
<1>6. ASSUME NEW t \in targets
      PROVE  /\ t \in Task /\ t.p = p /\ tasks[t] # Absent /\ NextAttempt(t) \in Task
             /\ NextAttempt(t).n = t.n + 1 /\ SameCell(t, NextAttempt(t))
             /\ NextAttempt(t).p = p /\ tasks[NextAttempt(t)] = Absent
  BY <1>4, LatestNext DEF Latest, TasksOf
<1>7. \A t \in Task : tasks'[t] = IF t \in new THEN "RERUN"
                                  ELSE IF t \in targets THEN "FAILED" ELSE tasks[t]
  BY <1>5 DEF TasksRerun
<1>8. \A u \in new : u \in Task /\ u.p = p /\ tasks[u] = Absent
  BY <1>6
<1>9. \A t \in Task : t.p # p => tasks'[t] = tasks[t]
  BY <1>6, <1>7, <1>8
<1>10. \A t \in TasksOf(p) : tasks'[t] = IF t \in targets THEN "FAILED" ELSE tasks[t]
  <2>1. \A t \in TasksOf(p) : t \in Task /\ t \notin new
    BY <1>8 DEF TasksOf
  <2> QED
    BY <1>7, <2>1
<1>11. \A t \in targets : \E u \in Task : SameCell(t, u) /\ u.n = t.n + 1 /\ tasks'[u] = "RERUN"
  BY <1>6, <1>7
<1>12. \A u \in Task : u.p = p /\ tasks[u] = Absent /\ tasks'[u] # Absent =>
          /\ tasks'[u] = "RERUN"
          /\ \E t \in targets : SameCell(t, u) /\ u.n = t.n + 1
  <2>1. SUFFICES ASSUME NEW u \in Task, tasks[u] = Absent, tasks'[u] # Absent
                 PROVE  tasks'[u] = "RERUN" /\ \E t \in targets : SameCell(t, u) /\ u.n = t.n + 1
    OBVIOUS
  <2>2. u \in new
    BY <1>6, <1>7, <2>1
  <2> QED
    BY <1>6, <1>7, <2>2
<1> QED
  BY <1>3, <1>9, <1>10, <1>11, <1>12, RerunEffect
LEMMA JobPlace ==
    ASSUME PlainOps, RunInv, NEW j \in jobs
    PROVE  /\ j \in Jobs /\ j.g \in Goroutine /\ j.t \in Task /\ j.t.p \in Pipeline
           /\ pc[j.g] = "wait" /\ on[j.g] = j.t.p /\ j.t.row = frame[j.g].row
           /\ Executing(j.g) /\ Busy(j.t.p) /\ pstatus[j.t.p] = "RUNNING"
<1>1. j \in Jobs /\ j.g \in Goroutine /\ j.t \in Task /\ j.t.p \in Pipeline
  BY TaskFields DEF RunInv, TypeOK, Jobs
<1>2. pc[j.g] = "wait" /\ on[j.g] = j.t.p /\ j.t.row = frame[j.g].row
  BY DEF RunInv, JobsInv, JobsPlaced
<1>3. Executing(j.g) /\ Busy(j.t.p)
  BY <1>1, <1>2 DEF Executing, Busy
<1> QED
  BY <1>1, <1>2, <1>3, PlainFacts DEF RunInv, OwnInv, BusyIsRunning

\* A task starts and ends: it is refused only when another run has it.
LEMMA PlainTask ==
    ASSUME PlainOps, RunInv, JobsState, NEW j \in jobs, TaskStep(j)
    PROVE  /\ UNCHANGED <<pstatus, cron, dq, pc, on, frame>>
           /\ \A t \in Task : t # j.t => tasks'[t] = tasks[t]
           /\ \E k \in Jobs :
                /\ jobs' = (jobs \ {j}) \cup {k} /\ k.g = j.g /\ k.t = j.t /\ k.ctx = "live"
                /\ \/ /\ j.at = "spawned" /\ tasks[j.t] \in Waiting
                      /\ k.at = "running" /\ k.res = j.res /\ tasks'[j.t] = "RUNNING"
                      /\ registry' = registry \cup {<<j.g, j.t>>}
                   \/ /\ j.at = "running" /\ tasks[j.t] = "RUNNING"
                      /\ k.at = "done" /\ k.res \in {"nil", "failed"}
                      /\ j.t.p \in SkipOnFail => k.res = "nil"
                      /\ tasks'[j.t] \in {"COMPLETED", "FAILED"}
                      /\ j.t.p \notin SkipOnFail =>
                            tasks'[j.t] = IF k.res = "nil" THEN "COMPLETED" ELSE "FAILED"
                      /\ registry' = {e \in registry : e[2] # j.t}
<1>0. TypeOK /\ tasks \in [Task -> Status \cup {Absent}] /\ "dbError" \notin Ops
  BY PlainFacts DEF RunInv, TypeOK
<1>1. JobState(j) /\ j.t \in Task
  BY JobPlace DEF JobsState
<1>2. ASSUME TaskRefused(j) PROVE FALSE
  <2>1. j.at = "spawned" /\ tasks[j.t] # "COMPLETED"
    BY <1>1, <1>2 DEF TaskRefused, JobState, Waiting
  <2>2. PICK e \in registry : e[2] = j.t
    BY <1>0, <1>2, <2>1 DEF TaskRefused, DbError
  <2>3. PICK k \in jobs : k.at = "running" /\ k.t = j.t
    BY <2>2 DEF JobsState, Registered
  <2>4. k = j
    BY <2>3, OneJob DEF RunInv, OwnInv, JobsInv
  <2> QED
    BY <2>1, <2>3, <2>4
<1>3. PICK k \in Jobs :
          /\ jobs' = (jobs \ {j}) \cup {k}
          /\ k.g = j.g /\ k.t = j.t /\ k.ctx = j.ctx /\ k.at \in {"running", "done"}
          /\ \/ /\ TaskStart(j) /\ k.at = "running" /\ k.res = j.res
                /\ tasks' = [tasks EXCEPT ![j.t] = "RUNNING"]
             \/ TaskRefused(j) /\ k.at = "done" /\ k.res = "failed" /\ tasks' = tasks
             \/ /\ TaskEnd(j) /\ k.at = "done"
                /\ \E outcome \in {"nil", "failed"} \cup
                                  (IF j.ctx = "cancelled" THEN {"canceled"} ELSE {}) :
                      /\ k.res = IF j.t.p \in SkipOnFail THEN "nil" ELSE outcome
                      /\ \/ tasks' = [tasks EXCEPT ![j.t] =
                                        IF outcome = "nil" THEN "COMPLETED" ELSE "FAILED"]
                         \/ "dbError" \in Ops /\ tasks' = tasks
  BY <1>0, JobEffect
<1>4. CASE TaskStart(j) /\ k.at = "running" /\ k.res = j.res
           /\ tasks' = [tasks EXCEPT ![j.t] = "RUNNING"]
  <2>1. j.at = "spawned" /\ registry' = registry \cup {<<j.g, j.t>>}
    BY <1>4 DEF TaskStart
  <2>2. tasks'[j.t] = "RUNNING" /\ tasks[j.t] \in Waiting /\ k.ctx = "live"
    BY <1>0, <1>1, <1>3, <1>4, <2>1 DEF JobState
  <2> QED
    BY <1>0, <1>3, <1>4, <2>1, <2>2, JobEffect, JobTask
<1>5. CASE /\ TaskEnd(j) /\ k.at = "done"
           /\ \E outcome \in {"nil", "failed"} \cup
                                  (IF j.ctx = "cancelled" THEN {"canceled"} ELSE {}) :
                      /\ k.res = IF j.t.p \in SkipOnFail THEN "nil" ELSE outcome
                      /\ \/ tasks' = [tasks EXCEPT ![j.t] =
                                        IF outcome = "nil" THEN "COMPLETED" ELSE "FAILED"]
                         \/ "dbError" \in Ops /\ tasks' = tasks
  <2>1. PICK outcome \in {"nil", "failed"} :
            /\ k.res = IF j.t.p \in SkipOnFail THEN "nil" ELSE outcome
            /\ tasks' = [tasks EXCEPT ![j.t] = IF outcome = "nil" THEN "COMPLETED" ELSE "FAILED"]
    BY <1>0, <1>1, <1>5 DEF JobState
  <2>2. j.at = "running" /\ registry' = {e \in registry : e[2] # j.t}
    BY <1>5 DEF TaskEnd
  <2>3. tasks'[j.t] = (IF outcome = "nil" THEN "COMPLETED" ELSE "FAILED")
        /\ tasks[j.t] = "RUNNING" /\ k.ctx = "live"
    BY <1>0, <1>1, <1>3, <2>1, <2>2 DEF JobState
  <2>4. /\ k.res \in {"nil", "failed"} /\ j.t.p \in SkipOnFail => k.res = "nil"
        /\ tasks'[j.t] \in {"COMPLETED", "FAILED"}
        /\ j.t.p \notin SkipOnFail =>
              tasks'[j.t] = IF k.res = "nil" THEN "COMPLETED" ELSE "FAILED"
    BY <2>1, <2>3
  <2> QED
    BY <1>0, <1>3, <1>5, <2>2, <2>3, <2>4, JobEffect, JobTask
<1> QED
  BY <1>2, <1>3, <1>4, <1>5

-----------------------------------------------------------------------------
(* The tasks of a pipeline.                                                 *)

\* Only the creation and a rerun of a pipeline add tasks, to that pipeline.
LEMMA TasksAdded ==
    ASSUME PlainOps, RunInv, TaskInv, [Next]_vars
    PROVE  \/ \E p \in Pipeline : CreateDbPipeline(p) \/ RerunPipeline(p)
           \/ /\ \A t \in Task : tasks'[t] = Absent <=> tasks[t] = Absent
              /\ \A p \in Pipeline : pstatus'[p] = Absent <=> pstatus[p] = Absent
              /\ \A t \in Task : /\ tasks'[t] \in Pending => tasks[t] \in Pending
                                 /\ tasks'[t] \in {"CANCELLED", "PARTIAL"} => tasks'[t] = tasks[t]
<1>0. /\ TypeOK /\ pstatus \in [Pipeline -> Status \cup {Absent}]
      /\ tasks \in [Task -> Status \cup {Absent}] /\ FrameInv /\ JobsState
  BY DEF RunInv, TypeOK, TaskInv
<1>1. CASE QueueMoves
  BY <1>1, QueueEffect
<1>2. CASE DequeueStart
  BY <1>0, <1>2, StartEffect
<1>3. ASSUME NEW g \in Goroutine, RunWell(g)
      PROVE  tasks' = tasks /\ \A p \in Pipeline : pstatus'[p] = Absent <=> pstatus[p] = Absent
  <2>1. tasks' = tasks
    BY <1>3 DEF RunWell, RunLoad, RunRow, RunJoin, RunRowsDone, RunCompute, RunSave, RunRelease, db
  <2>2. CASE RunRow(g) \/ RunSave(g)
    <3>1. on[g] \in Pipeline /\ Live(g)
      BY <1>0, <2>2, RunnerTypes DEF RunRow, RunSave, Executing, Live
    <3>2. pstatus[on[g]] # Absent
      BY <3>1 DEF RunInv, QueueInv, RowsExist
    <3>3. frame[g].verdict # Absent
      BY <1>0, RunnerTypes DEF Frames, Absent
    <3>4. \E x : x # Absent /\ pstatus' = [pstatus EXCEPT ![on[g]] = x]
      BY <2>2, <3>3 DEF RunRow, RunSave, Absent
    <3> QED
      BY <1>0, <2>1, <3>1, <3>2, <3>4
  <2>3. CASE ~RunRow(g) /\ ~RunSave(g)
    BY <1>3, <2>1, <2>3 DEF RunWell, RunLoad, RunJoin, RunRowsDone, RunCompute, RunRelease, db
  <2> QED
    BY <2>2, <2>3
<1>4. ASSUME NEW j \in jobs, TaskStep(j)
      PROVE  /\ \A t \in Task : tasks'[t] = Absent <=> tasks[t] = Absent
             /\ \A p \in Pipeline : pstatus'[p] = Absent <=> pstatus[p] = Absent
             /\ \A t \in Task : /\ tasks'[t] \in Pending => tasks[t] \in Pending
                                /\ tasks'[t] \in {"CANCELLED", "PARTIAL"} => tasks'[t] = tasks[t]
  <2>1. /\ pstatus' = pstatus /\ \A t \in Task : t # j.t => tasks'[t] = tasks[t]
        /\ \/ tasks[j.t] \in Waiting /\ tasks'[j.t] = "RUNNING"
           \/ tasks[j.t] = "RUNNING" /\ tasks'[j.t] \in {"COMPLETED", "FAILED"}
    BY <1>0, <1>4, PlainTask
  <2>2. ASSUME NEW t \in Task
        PROVE  /\ tasks'[t] = Absent <=> tasks[t] = Absent
               /\ tasks'[t] \in Pending => tasks[t] \in Pending
               /\ tasks'[t] \in {"CANCELLED", "PARTIAL"} => tasks'[t] = tasks[t]
    BY <2>1 DEF Waiting, Pending, Absent
  <2> QED
    BY <2>1, <2>2
<1>5. CASE Restart
  <2>1. ASSUME NEW t \in Task
        PROVE  /\ tasks'[t] = Absent <=> tasks[t] = Absent
               /\ tasks'[t] \in Pending => tasks[t] \in Pending
               /\ tasks'[t] \in {"CANCELLED", "PARTIAL"} => tasks'[t] = tasks[t]
    BY <1>0, <1>5, RestartEffect DEF AfterRestart, Absent, Pending, Waiting
  <2>2. \A p \in Pipeline : pstatus'[p] = Absent <=> pstatus[p] = Absent
    BY <1>0, <1>5, RestartEffect DEF AfterRestart, Absent
  <2> QED
    BY <2>1, <2>2
<1> QED
  BY <1>1, <1>2, <1>3, <1>4, <1>5, PlainSteps
LEMMA RowsStep ==
    ASSUME PlainOps, RunInv, TaskInv, [Next]_vars
    PROVE  RowsOfPlan'
<1>0. /\ TypeOK /\ RowsOfPlan /\ \A t \in Task : t.p \in Pipeline
      /\ \A t \in Task : tasks[t] # Absent => pstatus[t.p] # Absent
      /\ \A t \in Task : tasks[t] \notin {"CANCELLED", "PARTIAL"}
      /\ \A t \in Task : pstatus[t.p] # Absent /\ t.n = 1 => tasks[t] # Absent
      /\ \A t, u \in Task : SameCell(t, u) /\ u.n <= t.n /\ tasks[t] # Absent => tasks[u] # Absent
  BY TaskFields DEF RunInv, TaskInv, RowsOfPlan
<1>1. CASE /\ \A t \in Task : tasks'[t] = Absent <=> tasks[t] = Absent
           /\ \A p \in Pipeline : pstatus'[p] = Absent <=> pstatus[p] = Absent
           /\ \A t \in Task : /\ tasks'[t] \in Pending => tasks[t] \in Pending
                              /\ tasks'[t] \in {"CANCELLED", "PARTIAL"} => tasks'[t] = tasks[t]
  <2>1. \A t, u \in Task : SameCell(t, u) /\ u.n <= t.n /\ tasks'[t] # Absent => tasks'[u] # Absent
    BY <1>0, <1>1
  <2>2. \A t \in Task : /\ tasks'[t] # Absent => pstatus'[t.p] # Absent
                        /\ pstatus'[t.p] # Absent /\ t.n = 1 => tasks'[t] # Absent
                        /\ tasks'[t] \notin {"CANCELLED", "PARTIAL"}
    BY <1>0, <1>1
  <2> QED
    BY <2>1, <2>2 DEF RowsOfPlan, SameCell
<1>2. ASSUME NEW p \in Pipeline, CreateDbPipeline(p)
      PROVE  RowsOfPlan'
  <2>1. /\ pstatus[p] = Absent /\ pstatus'[p] = "CREATED"
        /\ \A q \in Pipeline : q # p => pstatus'[q] = pstatus[q]
        /\ \A t \in Task : tasks'[t] = IF t.p = p /\ t.n = 1 THEN "CREATED" ELSE tasks[t]
    BY <1>0, <1>2, PlainCreate
  <2>2. \A t \in Task : /\ tasks'[t] # Absent => pstatus'[t.p] # Absent
                        /\ pstatus'[t.p] # Absent /\ t.n = 1 => tasks'[t] # Absent
                        /\ tasks'[t] \notin {"CANCELLED", "PARTIAL"}
    BY <1>0, <2>1 DEF Absent
  <2>3. ASSUME NEW t \in Task, NEW u \in Task, SameCell(t, u), u.n <= t.n, tasks'[t] # Absent
        PROVE  tasks'[u] # Absent
    <3>1. t.p = u.p /\ u.n \in Nat /\ u.n >= 1
      BY <2>3, TaskFields DEF SameCell
    <3>2. CASE t.p = p
      <4>1. t.n = 1
        BY <1>0, <2>1, <2>3, <3>2
      <4>2. u.n = 1
        BY <2>3, <3>1, <4>1
      <4> QED
        BY <2>1, <3>1, <3>2, <4>2 DEF Absent
    <3>3. CASE t.p # p
      BY <1>0, <2>1, <2>3, <3>1, <3>3
    <3> QED
      BY <3>2, <3>3
  <2> QED
    BY <2>2, <2>3 DEF RowsOfPlan, SameCell
<1>3. ASSUME NEW p \in Pipeline, RerunPipeline(p)
      PROVE  RowsOfPlan'
  <2> DEFINE targets == {t \in Latest(p) : tasks[t] # "COMPLETED"}
  <2>1. /\ pstatus[p] \in Ended /\ pstatus' = pstatus
        /\ \A t \in Task : t.p # p => tasks'[t] = tasks[t]
        /\ \A t \in TasksOf(p) : tasks'[t] = IF t \in targets THEN "FAILED" ELSE tasks[t]
        /\ \A u \in Task : u.p = p /\ tasks[u] = Absent /\ tasks'[u] # Absent =>
              /\ tasks'[u] = "RERUN"
              /\ \E t \in targets : SameCell(t, u) /\ u.n = t.n + 1
    BY <1>0, <1>3, PlainRerun
  <2>2. \A t \in targets : t \in Task /\ t.p = p /\ tasks[t] # Absent
    BY DEF Latest, TasksOf
  <2> HIDE DEF targets
  <2>3. \A t \in Task : tasks[t] # Absent => tasks'[t] # Absent
    BY <2>1, <2>2 DEF TasksOf, Absent
  <2>4. ASSUME NEW t \in Task
        PROVE  /\ tasks'[t] # Absent => pstatus'[t.p] # Absent
               /\ pstatus'[t.p] # Absent /\ t.n = 1 => tasks'[t] # Absent
               /\ tasks'[t] \notin {"CANCELLED", "PARTIAL"}
    <3>1. CASE t.p # p
      BY <1>0, <2>1, <3>1
    <3>2. CASE t.p = p /\ tasks[t] # Absent
      BY <1>0, <2>1, <2>3, <3>2 DEF TasksOf
    <3>3. CASE t.p = p /\ tasks[t] = Absent
      BY <1>0, <2>1, <3>3 DEF Ended, Absent
    <3> QED
      BY <3>1, <3>2, <3>3
  <2>5. ASSUME NEW t \in Task, NEW u \in Task, SameCell(t, u), u.n <= t.n, tasks'[t] # Absent
        PROVE  tasks'[u] # Absent
    <3>1. CASE tasks[t] # Absent
      BY <1>0, <2>3, <2>5, <3>1
    <3>2. CASE tasks[t] = Absent
      <4>1. PICK v \in targets : SameCell(v, t) /\ t.n = v.n + 1
        BY <2>1, <2>5, <3>2
      <4>2. v \in Task /\ v.n \in Nat /\ tasks[v] # Absent /\ SameCell(v, u) /\ u.n \in Nat
        BY <2>2, <2>5, <4>1, TaskFields DEF SameCell
      <4>3. CASE u.n <= v.n
        BY <1>0, <2>3, <4>2, <4>3
      <4>4. CASE u.n = t.n
        BY <2>5, <4>4, TaskFields
      <4> QED
        BY <2>5, <4>1, <4>2, <4>3, <4>4
    <3> QED
      BY <3>1, <3>2
  <2> QED
    BY <2>4, <2>5 DEF RowsOfPlan, SameCell
<1> QED
  BY <1>1, <1>2, <1>3, TasksAdded

LEMMA SettledStep ==
    ASSUME PlainOps, RunInv, TaskInv, [Next]_vars
    PROVE  ReplacedIsSettled'
<1>0. /\ TypeOK /\ RowsOfPlan /\ \A t \in Task : t.p \in Pipeline
      /\ \A t \in Task : tasks[t] \in Pending => t \in Latest(t.p)
      /\ \A t \in Task : tasks[t] # Absent => pstatus[t.p] # Absent
  BY TaskFields DEF RunInv, TaskInv, RowsOfPlan, ReplacedIsSettled
<1>1. SUFFICES ASSUME NEW t \in Task, tasks'[t] \in Pending, NEW q \in Pipeline, q = t.p
               PROVE  t \in Latest(q)'
  BY <1>0 DEF ReplacedIsSettled
<1>2. ASSUME \A u \in Task : u.p = q => (tasks'[u] = Absent <=> tasks[u] = Absent),
             tasks[t] \in Pending
      PROVE  t \in Latest(q)'
  BY <1>0, <1>1, <1>2, LatestKept
<1>3. ASSUME NEW p \in Pipeline, CreateDbPipeline(p)
      PROVE  t \in Latest(q)'
  <2>1. /\ pstatus[p] = Absent
        /\ \A u \in Task : tasks'[u] = IF u.p = p /\ u.n = 1 THEN "CREATED" ELSE tasks[u]
    BY <1>0, <1>3, PlainCreate
  <2>2. CASE q # p
    BY <1>1, <1>2, <2>1, <2>2
  <2>3. CASE q = p
    <3>1. \A u \in Task : u.p = q /\ tasks'[u] # Absent => u.n = 1
      BY <1>0, <2>1, <2>3
    <3>2. \A u \in Task : u.p = q /\ tasks'[u] # Absent /\ SameCell(t, u) => u.n <= t.n
      BY <1>1, <3>1, TaskFields DEF Pending, Waiting, Absent
    <3> QED
      BY <1>1, <3>2 DEF Latest, TasksOf, Pending, Waiting, Absent
  <2> QED
    BY <2>2, <2>3
<1>4. ASSUME NEW p \in Pipeline, RerunPipeline(p)
      PROVE  t \in Latest(q)'
  <2> DEFINE targets == {u \in Latest(p) : tasks[u] # "COMPLETED"}
  <2>1. /\ \A u \in Task : u.p # p => tasks'[u] = tasks[u]
        /\ \A u \in TasksOf(p) : tasks'[u] = IF u \in targets THEN "FAILED" ELSE tasks[u]
        /\ \A u \in Task : u.p = p /\ tasks[u] = Absent /\ tasks'[u] # Absent =>
              \E v \in targets : SameCell(v, u) /\ u.n = v.n + 1
    BY <1>0, <1>4, PlainRerun
  <2>2. \A u \in targets : /\ u \in Task /\ u.p = p /\ u \in Latest(p) /\ u.n \in Nat
                           /\ \A v \in TasksOf(p) : SameCell(u, v) => v.n <= u.n
    BY TaskFields DEF Latest, TasksOf
  <2>3. CASE q # p
    BY <1>1, <1>2, <2>1, <2>3
  <2>4. CASE q = p
    <3>1. tasks[t] = Absent
      <4>1. SUFFICES ASSUME tasks[t] # Absent PROVE FALSE
        OBVIOUS
      <4>2. t \in TasksOf(p)
        BY <1>1, <2>4, <4>1 DEF TasksOf
      <4>3. t \notin targets /\ tasks[t] \in Pending
        BY <1>1, <2>1, <4>2 DEF Pending, Waiting
      <4>4. t \in Latest(p)
        BY <1>0, <1>1, <2>4, <4>3
      <4> QED
        BY <4>3, <4>4 DEF Pending, Waiting
    <3>2. PICK v \in targets : SameCell(v, t) /\ t.n = v.n + 1
      BY <1>1, <2>1, <2>4, <3>1 DEF Pending, Waiting, Absent
    <3> HIDE DEF targets
    <3>3. ASSUME NEW u \in Task, u.p = p, tasks'[u] # Absent, SameCell(t, u)
          PROVE  u.n <= t.n
      <4>1. SameCell(v, u) /\ v.n \in Nat /\ v \in Task
        BY <2>2, <3>2, <3>3 DEF SameCell
      <4>2. CASE tasks[u] # Absent
        <5>1. u.n <= v.n /\ u.n \in Nat
          BY <2>2, <3>2, <3>3, <4>1, <4>2, TaskFields DEF TasksOf
        <5> QED
          BY <3>2, <4>1, <5>1
      <4>3. CASE tasks[u] = Absent
        <5>1. PICK w \in targets : SameCell(w, u) /\ u.n = w.n + 1
          BY <2>1, <3>3, <4>3
        <5>2. SameCell(v, w) /\ w \in TasksOf(p) /\ w.n \in Nat
          BY <2>2, <4>1, <5>1 DEF SameCell, Latest
        <5>3. w.n <= v.n
          BY <2>2, <3>2, <5>2
        <5> QED
          BY <3>2, <4>1, <5>1, <5>2, <5>3
      <4> QED
        BY <4>2, <4>3
    <3> QED
      BY <1>1, <2>4, <3>3 DEF Latest, TasksOf, Pending, Waiting, Absent
  <2> QED
    BY <2>3, <2>4
<1> QED
  BY <1>1, <1>2, <1>3, <1>4, TasksAdded
-----------------------------------------------------------------------------
(* The jobs.                                                                *)

LEMMA JobKept ==
    ASSUME NEW j \in Jobs, JobState(j), j.t \in Task, j.t.p \in Pipeline,
           tasks'[j.t] = tasks[j.t],
           \A t \in Task : t.p = j.t.p => (tasks'[t] = Absent <=> tasks[t] = Absent)
    PROVE  JobState(j)'
<1>1. Latest(j.t.p)' = Latest(j.t.p)
  BY LatestKept
<1> QED
  BY <1>1 DEF JobState

\* Nobody creates or reruns a pipeline that has jobs.
LEMMA JobsApart ==
    ASSUME PlainOps, RunInv, RowsOfPlan, NEW p \in Pipeline,
           CreateDbPipeline(p) \/ RerunPipeline(p), NEW q \in Pipeline, Busy(q)
    PROVE  \A t \in Task : t.p = q => tasks'[t] = tasks[t]
<1>1. pstatus[q] = "RUNNING" /\ TypeOK
  BY PlainFacts DEF RunInv, OwnInv, BusyIsRunning
<1>2. pstatus[p] # "RUNNING"
  BY <1>1, PlainCreate, PlainRerun DEF Ended, Absent
<1> QED
  BY <1>1, <1>2, PlainCreate, PlainRerun

LEMMA JobsStep ==
    ASSUME PlainOps, RunInv, TaskInv, [Next]_vars
    PROVE  JobsState'
<1>0. /\ TypeOK /\ RowsOfPlan /\ JobsState /\ SingleRun /\ JobsPlaced /\ JobsDistinct
      /\ \A j \in jobs : JobState(j) /\ j \in Jobs /\ j.t \in Task /\ j.t.p \in Pipeline
      /\ \A e \in registry : \E j \in jobs : j.at = "running" /\ j.t = e[2]
      /\ \A t \in Task : tasks[t] = "RUNNING" => \E j \in jobs : j.t = t /\ j.at = "running"
  BY JobPlace DEF RunInv, OwnInv, JobsInv, TaskInv, JobsState, Registered, TaskIsOwned
<1>1. ASSUME UNCHANGED <<tasks, jobs, registry>>
      PROVE  JobsState'
  BY <1>0, <1>1, JobKept DEF JobsState, Registered, TaskIsOwned
<1>2. CASE QueueMoves \/ DequeueStart
  BY <1>0, <1>1, <1>2, QueueEffect, StartEffect
<1>3. ASSUME NEW p \in Pipeline, CreateDbPipeline(p) \/ RerunPipeline(p)
      PROVE  JobsState'
  <2>1. UNCHANGED <<jobs, registry>>
    BY <1>0, <1>3, PlainCreate, PlainRerun
  <2>2. \A j \in jobs : \A t \in Task : t.p = j.t.p => tasks'[t] = tasks[t]
    BY <1>0, <1>3, JobPlace, JobsApart
  <2>3. \A j \in jobs : JobState(j)'
    BY <1>0, <2>2, JobKept
  <2>4. ASSUME NEW t \in Task, tasks'[t] = "RUNNING"
        PROVE  tasks[t] = "RUNNING"
    <3>1. CASE CreateDbPipeline(p)
      BY <1>0, <2>4, <3>1, PlainCreate
    <3>2. CASE RerunPipeline(p)
      <4>1. /\ t.p # p => tasks'[t] = tasks[t]
            /\ t \in TasksOf(p) => tasks'[t] \in {"FAILED", tasks[t]}
            /\ t.p = p /\ tasks[t] = Absent /\ tasks'[t] # Absent => tasks'[t] = "RERUN"
        BY <1>0, <3>2, PlainRerun
      <4> QED
        BY <2>4, <4>1 DEF TasksOf, Absent
    <3> QED
      BY <1>3, <3>1, <3>2
  <2> QED
    BY <1>0, <2>1, <2>3, <2>4 DEF JobsState, Registered, TaskIsOwned
<1>4. ASSUME NEW g \in Goroutine, RunWell(g)
      PROVE  JobsState'
  <2>1. CASE RunRow(g)
    <3> DEFINE r == frame[g].row + 1
               spawned == {[g |-> g, t |-> t, at |-> "spawned", ctx |-> "live", res |-> "nil"] :
                              t \in RowTasks(g, r)}
    <3>1. /\ pc[g] = "row" /\ jobs' = jobs \cup spawned
          /\ UNCHANGED <<tasks, registry>> /\ frame[g] \in Frames /\ on[g] \in Pipeline
      BY <1>0, <2>1, RowEffect, RunnerTypes DEF Executing
    <3>2. ASSUME NEW t \in RowTasks(g, r)
          PROVE  /\ t \in Task /\ t.p = on[g] /\ tasks[t] \in Waiting /\ t \in Latest(t.p)
      <4>1. t \in frame[g].todo /\ t.row > frame[g].row /\ t \in Task
        BY <3>1 DEF RowTasks, Frames
      <4>2. OverRows(g, on[g]) /\ t.p = on[g]
        BY <3>1, <4>1 DEF TaskInv, RunsState, RunState, RunInv, FrameInv
      <4>3. tasks[t] \in Waiting
        BY <4>1, <4>2 DEF OverRows
      <4> QED
        BY <4>1, <4>2, <4>3 DEF TaskInv, ReplacedIsSettled, Pending
    <3>3. \A j \in jobs : JobState(j)'
      BY <1>0, <3>1, JobKept
    <3>4. ASSUME NEW j \in spawned
          PROVE  JobState(j)'
      <4>1. PICK t \in RowTasks(g, r) :
                j = [g |-> g, t |-> t, at |-> "spawned", ctx |-> "live", res |-> "nil"]
        OBVIOUS
      <4>2. JobState(j) /\ j \in Jobs /\ j.t \in Task /\ j.t.p \in Pipeline
        BY <3>1, <3>2, <4>1 DEF JobState, Jobs
      <4> QED
        BY <3>1, <4>2, JobKept
    <3> QED
      BY <1>0, <3>1, <3>3, <3>4 DEF JobsState, Registered, TaskIsOwned
  <2>2. CASE RunJoin(g)
    <3>1. /\ jobs' = jobs \ JobsOf(g) /\ \A j \in JobsOf(g) : j.at = "done"
          /\ UNCHANGED <<tasks, registry>>
      BY <1>0, <2>2, JoinEffect DEF RowIsDone, RunJoin
    <3>2. \A j \in jobs' : JobState(j)'
      BY <1>0, <3>1, JobKept
    <3> QED
      BY <1>0, <3>1, <3>2 DEF JobsState, Registered, TaskIsOwned
  <2>3. CASE ~RunRow(g) /\ ~RunJoin(g)
    BY <1>1, <1>4, <2>3
    DEF RunWell, RunLoad, RunRowsDone, RunCompute, RunSave, RunRelease, db, workers
  <2> QED
    BY <2>1, <2>2, <2>3
<1>5. ASSUME NEW j \in jobs, TaskStep(j)
      PROVE  JobsState'
  <2>1. PICK k \in Jobs :
            /\ jobs' = (jobs \ {j}) \cup {k} /\ k.g = j.g /\ k.t = j.t /\ k.ctx = "live"
            /\ \/ /\ j.at = "spawned" /\ tasks[j.t] \in Waiting
                  /\ k.at = "running" /\ k.res = j.res /\ tasks'[j.t] = "RUNNING"
                  /\ registry' = registry \cup {<<j.g, j.t>>}
               \/ /\ j.at = "running" /\ tasks[j.t] = "RUNNING"
                  /\ k.at = "done" /\ k.res \in {"nil", "failed"}
                  /\ j.t.p \in SkipOnFail => k.res = "nil"
                  /\ tasks'[j.t] \in {"COMPLETED", "FAILED"}
                  /\ j.t.p \notin SkipOnFail =>
                        tasks'[j.t] = IF k.res = "nil" THEN "COMPLETED" ELSE "FAILED"
                  /\ registry' = {e \in registry : e[2] # j.t}
    BY <1>0, <1>5, PlainTask
  <2>2. \A t \in Task : t # j.t => tasks'[t] = tasks[t]
    BY <1>0, <1>5, PlainTask
  <2>3. \A t \in Task : tasks'[t] = Absent <=> tasks[t] = Absent
    BY <1>0, <2>1, <2>2 DEF Waiting, Absent
  <2>4. \A i \in jobs : i # j => i.t # j.t
    BY <1>0, OneJob
  <2>5. \A i \in jobs \ {j} : JobState(i)'
    BY <1>0, <2>2, <2>3, <2>4, JobKept
  <2>6. Latest(j.t.p)' = Latest(j.t.p) /\ j.t \in Latest(j.t.p) /\ JobState(j)
    BY <1>0, <2>3, LatestKept DEF JobState
  <2>7. JobState(k)'
    <3>1. k.t = j.t /\ k.ctx = "live"
      BY <2>1
    <3>2. k.t \in Latest(k.t.p)'
      BY <2>6, <3>1
    <3>3. CASE /\ k.at = "running" /\ k.res = j.res /\ tasks'[j.t] = "RUNNING"
      BY <2>6, <3>1, <3>2, <3>3 DEF JobState
    <3>4. CASE /\ k.at = "done" /\ k.res \in {"nil", "failed"}
               /\ j.t.p \in SkipOnFail => k.res = "nil"
               /\ tasks'[j.t] \in {"COMPLETED", "FAILED"}
               /\ j.t.p \notin SkipOnFail =>
                     tasks'[j.t] = IF k.res = "nil" THEN "COMPLETED" ELSE "FAILED"
      BY <2>6, <3>1, <3>2, <3>4 DEF JobState
    <3> QED
      BY <2>1, <3>3, <3>4
  <2>8. Registered'
    <3>1. ASSUME NEW e \in registry', e[2] # j.t
          PROVE  \E i \in jobs' : i.at = "running" /\ i.t = e[2]
      <4>1. e \in registry
        BY <2>1, <3>1
      <4>2. PICK i \in jobs : i.at = "running" /\ i.t = e[2]
        BY <1>0, <4>1
      <4> QED
        BY <2>1, <3>1, <4>2
    <3>2. ASSUME NEW e \in registry', e[2] = j.t
          PROVE  k.at = "running" /\ k.t = e[2] /\ k \in jobs'
      <4>1. CASE j.at = "running" /\ registry' = {d \in registry : d[2] # j.t}
        BY <3>2, <4>1
      <4> QED
        BY <2>1, <3>2, <4>1
    <3> QED
      BY <3>1, <3>2 DEF Registered
  <2>9. TaskIsOwned'
    <3>1. ASSUME NEW t \in Task, tasks'[t] = "RUNNING"
          PROVE  \E i \in jobs' : i.t = t /\ i.at = "running"
      <4>1. CASE t = j.t
        BY <2>1, <3>1, <4>1
      <4>2. CASE t # j.t
        <5>1. PICK i \in jobs : i.t = t /\ i.at = "running"
          BY <1>0, <2>2, <3>1, <4>2
        <5> QED
          BY <2>1, <4>2, <5>1
      <4> QED
        BY <4>1, <4>2
    <3> QED
      BY <3>1 DEF TaskIsOwned
  <2> QED
    BY <2>1, <2>5, <2>7, <2>8, <2>9 DEF JobsState
<1>6. CASE Restart
  <2>1. jobs' = {} /\ registry' = {} /\ \A t \in Task : tasks'[t] # "RUNNING"
    BY <1>0, <1>6, RestartEffect DEF AfterRestart
  <2> QED
    BY <2>1 DEF JobsState, Registered, TaskIsOwned
<1> QED
  BY <1>2, <1>3, <1>4, <1>5, <1>6, PlainSteps
-----------------------------------------------------------------------------
(* The runs.                                                                *)

LEMMA RunKept ==
    ASSUME TypeOK, FrameInv, NEW g \in Goroutine, NEW p \in Pipeline, on[g] = p, RunState(g, p),
           pc'[g] = pc[g], frame'[g] = frame[g],
           \A t \in Task : t.p = p => tasks'[t] = tasks[t],
           {j \in jobs' : j.g = g} = JobsOf(g)
    PROVE  RunState(g, p)'
<1>1. /\ Latest(p)' = Latest(p) /\ \A t \in Latest(p) : t \in Task /\ t.p = p
  BY LatestKept DEF Latest, TasksOf
<1>2. \A t \in frame[g].todo : t \in Task /\ t.p = p
  BY RunnerTypes DEF FrameInv, Frames
<1>3. TasksWith(g)' = TasksWith(g)
  BY DEF TasksWith, JobsOf
<1>4. NoneFailed(p, {}) => NoneFailed(p, {})'
  BY <1>1 DEF NoneFailed
<1>5. OverRows(g, p) => OverRows(g, p)'
  <2>1. SUFFICES ASSUME OverRows(g, p) PROVE OverRows(g, p)'
    OBVIOUS
  <2>2. \A t \in Task : t.p = p /\ tasks'[t] \in Waiting =>
          \/ t \in frame'[g].todo /\ t.row > frame'[g].row
          \/ t \in TasksWith(g)'
    BY <1>3, <2>1 DEF OverRows
  <2>3. \A t \in frame'[g].todo : t.row > frame'[g].row => tasks'[t] \in Waiting
    BY <1>2, <2>1 DEF OverRows
  <2>4. p \notin SkipOnFail =>
            \A t \in Latest(p)' : tasks'[t] \in Waiting \cup {"COMPLETED"} \/ t \in TasksWith(g)'
    BY <1>1, <1>3, <2>1 DEF OverRows, NoneFailed
  <2> QED
    BY <2>1, <2>2, <2>3, <2>4 DEF OverRows, NoneFailed
<1>6. AtEnd(g, p) => AtEnd(g, p)'
  BY <1>1 DEF AtEnd
<1> QED
  BY <1>1, <1>4, <1>5, <1>6 DEF RunState

\* ComputePipelineStatus has its answer, and COMPLETED is true.
LEMMA ComputedAtEnd ==
    ASSUME PlainOps, RunInv, TaskInv, NEW g \in Goroutine, pc[g] = "compute",
           NEW p \in Pipeline, on[g] = p
    PROVE  LET verdict == Computed(p, frame[g].err = "canceled") IN
           /\ verdict # "error"
           /\ verdict = "COMPLETED" => \A t \in Latest(p) : tasks[t] = "COMPLETED"
<1>1. AtEnd(g, p) /\ tasks \in [Task -> Status \cup {Absent}]
  BY DEF TaskInv, RunsState, RunState, RunInv, TypeOK
<1>2. \A t \in Latest(p) : t \in Task /\ t.p = p /\ tasks[t] # Absent
  BY DEF Latest, TasksOf
<1>3. \A t \in Task : t.p = p => tasks[t] # "RUNNING"
  <2>1. SUFFICES ASSUME NEW t \in Task, t.p = p, tasks[t] = "RUNNING" PROVE FALSE
    OBVIOUS
  <2>2. PICK j \in jobs : j.t = t
    BY <2>1 DEF TaskInv, JobsState, TaskIsOwned
  <2>3. j.g \in Goroutine /\ Executing(j.g) /\ on[j.g] = p /\ pc[j.g] = "wait"
    BY <2>1, <2>2, JobPlace
  <2>4. Executing(g)
    BY DEF Executing
  <2>5. j.g = g
    BY <2>3, <2>4 DEF RunInv, OwnInv, SingleRun
  <2> QED
    BY <2>3, <2>5
<1>4. \A t \in Task : tasks[t] \notin {"CANCELLED", "PARTIAL"}
  BY DEF TaskInv, RowsOfPlan
<1> DEFINE statuses == {tasks[t] : t \in Latest(p)}
           failed == statuses \cap {"FAILED", "CANCELLED"}
<1>5. "RUNNING" \notin statuses
  BY <1>2, <1>3
<1>6. p \in SkipOnFail => statuses \cap Waiting = {}
  BY <1>1, <1>2 DEF AtEnd
<1>7. failed = {} => \A t \in Latest(p) : tasks[t] = "COMPLETED"
  <2>1. SUFFICES ASSUME failed = {}, NEW t \in Latest(p) PROVE tasks[t] = "COMPLETED"
    OBVIOUS
  <2>2. \A u \in Latest(p) : tasks[u] # "FAILED"
    BY <2>1
  <2>3. tasks[t] \notin Waiting
    BY <1>1, <1>2, <2>2 DEF AtEnd
  <2> QED
    BY <1>1, <1>2, <1>3, <1>4, <2>2, <2>3 DEF Status, Pending, Ended
<1>8. Computed(p, frame[g].err = "canceled") =
          IF \/ "RUNNING" \in statuses
             \/ ~(frame[g].err = "canceled") /\ p \in SkipOnFail /\ statuses \cap Waiting # {}
          THEN "error"
          ELSE IF failed = {} THEN "COMPLETED"
          ELSE IF p \in SkipOnFail /\ "COMPLETED" \in statuses THEN "PARTIAL"
          ELSE "FAILED"
  BY DEF Computed
<1> HIDE DEF statuses, failed
<1> QED
  BY <1>5, <1>6, <1>7, <1>8

LEMMA LoadStep ==
    ASSUME RunInv, TaskInv, NEW g \in Goroutine, RunLoad(g), NEW p \in Pipeline, on[g] = p
    PROVE  RunState(g, p)'
<1>1. TypeOK /\ pc[g] = "load" /\ frame[g] = NoFrame /\ RunState(g, p)
  BY LoadEffect DEF RunInv, FrameInv, TaskInv, RunsState
<1>2. /\ pc'[g] = "row" /\ tasks' = tasks /\ frame'[g].todo = TasksToRun(p)
      /\ frame'[g].row = 0 /\ frame'[g].err = "nil"
  BY <1>1, LoadEffect DEF NoFrame
<1>3. NoneFailed(p, {}) /\ Latest(p)' = Latest(p)
  BY <1>1, <1>2, LatestKept DEF RunState
<1>4. \A t \in Task : t.p = p /\ tasks'[t] \in Waiting =>
          t \in frame'[g].todo /\ t.row > frame'[g].row
  <2>1. SUFFICES ASSUME NEW t \in Task, t.p = p, tasks[t] \in Waiting
                 PROVE  t \in TasksToRun(p) /\ t.row > 0
    BY <1>2
  <2>2. tasks[t] # Absent
    BY <2>1 DEF Waiting, Absent
  <2>3. t \in TasksToRun(p)
    BY <2>1, <2>2 DEF TasksToRun, TasksOf
  <2>4. t.row \in Nat /\ t.row >= 1
    BY TaskFields
  <2> QED
    BY <2>3, <2>4
<1>5. \A t \in frame'[g].todo : tasks'[t] \in Waiting
  BY <1>2 DEF TasksToRun
<1>6. OverRows(g, p)'
  BY <1>2, <1>3, <1>4, <1>5 DEF OverRows, NoneFailed
<1> QED
  BY <1>2, <1>6 DEF RunState

LEMMA RowStep ==
    ASSUME RunInv, TaskInv, NEW g \in Goroutine, RunRow(g), NEW p \in Pipeline, on[g] = p
    PROVE  RunState(g, p)'
<1> DEFINE r == frame[g].row + 1
           spawned == {[g |-> g, t |-> t, at |-> "spawned", ctx |-> "live", res |-> "nil"] :
                          t \in RowTasks(g, r)}
<1>1. TypeOK /\ pc[g] = "row" /\ OverRows(g, p) /\ frame[g] \in Frames
  BY RowEffect, RunnerTypes DEF RunInv, TaskInv, RunsState, RunState
<1>2. /\ pc'[g] \in {"row", "wait"} /\ tasks' = tasks /\ frame'[g].todo = frame[g].todo
      /\ frame'[g].row = r /\ frame'[g].err = "nil" /\ jobs' = jobs \cup spawned
  BY <1>1, RowEffect
<1>3. Latest(p)' = Latest(p) /\ frame[g].row \in Nat
  BY <1>1, <1>2, LatestKept DEF Frames
<1>4. \A t \in RowTasks(g, r) : t \in TasksWith(g)'
  <2>1. SUFFICES ASSUME NEW t \in RowTasks(g, r) PROVE \E j \in jobs' : j.g = g /\ j.t = t
    BY DEF TasksWith, JobsOf
  <2>2. [g |-> g, t |-> t, at |-> "spawned", ctx |-> "live", res |-> "nil"] \in jobs'
    BY <1>2
  <2> QED
    BY <2>2
<1>5. TasksWith(g) \subseteq TasksWith(g)'
  BY <1>2 DEF TasksWith, JobsOf
<1>6. ASSUME NEW t \in Task, t.p = p, tasks'[t] \in Waiting
      PROVE  (t \in frame'[g].todo /\ t.row > frame'[g].row) \/ t \in TasksWith(g)'
  <2>1. (t \in frame[g].todo /\ t.row > frame[g].row) \/ t \in TasksWith(g)
    BY <1>1, <1>2, <1>6 DEF OverRows
  <2>2. t.row \in Nat
    BY TaskFields
  <2> QED
    BY <1>2, <1>3, <1>4, <1>5, <2>1, <2>2 DEF RowTasks
<1>7. \A t \in frame'[g].todo : t.row > frame'[g].row => tasks'[t] \in Waiting
  <2>1. \A t \in frame[g].todo : t.row \in Nat
    BY <1>1, TaskFields DEF Frames
  <2> QED
    BY <1>1, <1>2, <1>3, <2>1 DEF OverRows
<1>8. OverRows(g, p)'
  BY <1>1, <1>2, <1>3, <1>5, <1>6, <1>7 DEF OverRows, NoneFailed
<1> QED
  BY <1>2, <1>8 DEF RunState

LEMMA JoinStep ==
    ASSUME PlainOps, RunInv, TaskInv, NEW g \in Goroutine, RunJoin(g), NEW p \in Pipeline, on[g] = p
    PROVE  RunState(g, p)'
<1>1. TypeOK /\ pc[g] = "wait" /\ OverRows(g, p) /\ \A j \in JobsOf(g) : j.at = "done"
  BY JoinEffect DEF RunInv, TaskInv, RunsState, RunState, RowIsDone
<1>2. /\ pc'[g] = (IF StopsRun(p, RowError(g)) THEN "compute" ELSE "row")
      /\ tasks' = tasks /\ frame'[g].todo = frame[g].todo
      /\ frame'[g].row = frame[g].row /\ frame'[g].err = RowError(g)
  BY <1>1, JoinEffect
<1>3. Latest(p)' = Latest(p)
  BY <1>2, LatestKept
<1>4. \A j \in JobsOf(g) :
          /\ j.t.p = p /\ j.res \in {"nil", "failed"} /\ tasks[j.t] \in {"COMPLETED", "FAILED"}
          /\ p \in SkipOnFail => j.res = "nil"
          /\ p \notin SkipOnFail => tasks[j.t] = IF j.res = "nil" THEN "COMPLETED" ELSE "FAILED"
          /\ j.t \in Latest(p)
  <2>1. SUFFICES ASSUME NEW j \in jobs, j.g = g
                 PROVE  /\ j.t.p = p /\ j.res \in {"nil", "failed"}
                        /\ tasks[j.t] \in {"COMPLETED", "FAILED"}
                        /\ p \in SkipOnFail => j.res = "nil"
                        /\ p \notin SkipOnFail =>
                              tasks[j.t] = IF j.res = "nil" THEN "COMPLETED" ELSE "FAILED"
                        /\ j.t \in Latest(p)
    BY DEF JobsOf
  <2>2. JobState(j) /\ j.t.p = p /\ j.at = "done"
    BY <1>1, <2>1, JobPlace DEF TaskInv, JobsState, JobsOf
  <2> QED
    BY <2>2 DEF JobState
<1>5. \/ RowError(g) = "nil" /\ \A j \in JobsOf(g) : j.res = "nil"
      \/ RowError(g) = "failed" /\ p \notin SkipOnFail /\ \E j \in JobsOf(g) : j.res = "failed"
  BY <1>4 DEF RowError
<1>6. CASE RowError(g) = "nil" /\ \A j \in JobsOf(g) : j.res = "nil"
  <2>1. pc'[g] = "row" /\ frame'[g].err = "nil"
    BY <1>2, <1>6 DEF StopsRun
  <2>2. \A t \in TasksWith(g) : /\ tasks[t] \notin Waiting
                                /\ p \notin SkipOnFail => tasks[t] = "COMPLETED"
    BY <1>4, <1>6 DEF TasksWith, Waiting
  <2>3. OverRows(g, p)'
    BY <1>1, <1>2, <1>3, <2>1, <2>2 DEF OverRows, NoneFailed
  <2> QED
    BY <2>1, <2>3 DEF RunState
<1>7. CASE RowError(g) = "failed" /\ p \notin SkipOnFail /\ \E j \in JobsOf(g) : j.res = "failed"
  <2>1. pc'[g] = "compute" /\ frame'[g].err = "failed"
    BY <1>2, <1>7 DEF StopsRun
  <2>2. \E t \in Latest(p) : tasks[t] = "FAILED"
    BY <1>4, <1>7
  <2>3. AtEnd(g, p)'
    BY <1>2, <1>3, <1>7, <2>1, <2>2 DEF AtEnd
  <2> QED
    BY <2>1, <2>3 DEF RunState
<1> QED
  BY <1>5, <1>6, <1>7
\* A task that ends is one of the row that its goroutine waits for.
LEMMA TaskRunStep ==
    ASSUME PlainOps, RunInv, TaskInv, NEW j \in jobs, TaskStep(j),
           NEW g \in Goroutine, g = j.g, NEW p \in Pipeline, on[g] = p
    PROVE  RunState(g, p)'
<1>1. /\ TypeOK /\ j.t \in Task /\ j.t.p = p /\ pc[g] = "wait" /\ j.t.row = frame[g].row
      /\ OverRows(g, p)
  BY JobPlace DEF RunInv, TaskInv, RunsState, RunState
<1>2. PICK k \in Jobs :
          /\ jobs' = (jobs \ {j}) \cup {k} /\ k.g = j.g /\ k.t = j.t
          /\ \/ tasks[j.t] \in Waiting /\ tasks'[j.t] = "RUNNING"
             \/ tasks[j.t] = "RUNNING" /\ tasks'[j.t] \in {"COMPLETED", "FAILED"}
  BY PlainTask DEF TaskInv
<1>3. /\ pc' = pc /\ frame' = frame /\ \A t \in Task : t # j.t => tasks'[t] = tasks[t]
  BY PlainTask DEF TaskInv
<1>4. Latest(p)' = Latest(p)
  BY <1>2, <1>3, LatestKept DEF Waiting, Absent
<1>5. TasksWith(g)' = TasksWith(g) /\ j.t \in TasksWith(g)
  <2>1. \A t : (\E i \in jobs' : i.g = g /\ i.t = t) <=> (\E i \in jobs : i.g = g /\ i.t = t)
    BY <1>2
  <2> QED
    BY <2>1 DEF TasksWith, JobsOf
<1>6. \A t \in Task : t.p = p /\ tasks'[t] \in Waiting =>
          \/ t \in frame'[g].todo /\ t.row > frame'[g].row
          \/ t \in TasksWith(g)'
  <2>1. tasks'[j.t] \notin Waiting
    BY <1>2 DEF Waiting
  <2> QED
    BY <1>1, <1>3, <1>5, <2>1 DEF OverRows
<1>7. \A t \in frame'[g].todo : t.row > frame'[g].row => tasks'[t] \in Waiting
  <2>1. SUFFICES ASSUME NEW t \in frame[g].todo, t.row > frame[g].row
                 PROVE  tasks'[t] \in Waiting
    BY <1>3
  <2>2. t \in Task /\ t.row \in Nat /\ tasks[t] \in Waiting
    BY <1>1, <2>1, RunnerTypes, TaskFields DEF Frames, OverRows
  <2>3. t # j.t
    BY <1>1, <2>1, <2>2
  <2> QED
    BY <1>3, <2>2, <2>3
<1>8. p \notin SkipOnFail =>
          \A t \in Latest(p)' : tasks'[t] \in Waiting \cup {"COMPLETED"} \/ t \in TasksWith(g)'
  <2>1. \A t \in Latest(p) : t \in Task
    BY DEF Latest, TasksOf
  <2> QED
    BY <1>1, <1>3, <1>4, <1>5, <2>1 DEF OverRows, NoneFailed
<1>9. OverRows(g, p)'
  BY <1>1, <1>3, <1>6, <1>7, <1>8 DEF OverRows, NoneFailed
<1> QED
  BY <1>1, <1>3, <1>9 DEF RunState

\* Where a goroutine stands still and the tasks of its pipeline too, nothing
\* changes for it; and it leaves nothing when it only has to clean up.
LEMMA RunsElsewhere ==
    ASSUME RunInv, TaskInv, NEW g \in Goroutine, NEW p \in Pipeline, on[g] = p,
           pc'[g] = pc[g], frame'[g] = frame[g],
           Busy(p) => \A t \in Task : t.p = p => tasks'[t] = tasks[t],
           {j \in jobs' : j.g = g} = JobsOf(g)
    PROVE  RunState(g, p)'
<1>1. TypeOK /\ FrameInv /\ RunState(g, p) /\ pc[g] \in ControlPoints
  BY RunnerTypes DEF RunInv, TaskInv, RunsState
<1>2. CASE Executing(g)
  BY <1>1, <1>2, RunKept DEF Busy
<1>3. CASE ~Executing(g)
  BY <1>1, <1>3 DEF RunState, Executing, ControlPoints
<1> QED
  BY <1>2, <1>3

LEMMA RunsStep ==
    ASSUME PlainOps, RunInv, TaskInv, [Next]_vars
    PROVE  RunsState'
<1>0. TypeOK /\ FrameInv /\ JobsState /\ RowsOfPlan
  BY DEF RunInv, TaskInv
<1>1. SUFFICES ASSUME NEW g \in Goroutine, NEW p \in Pipeline, on'[g] = p
               PROVE  RunState(g, p)'
  BY DEF RunsState
<1>2. CASE QueueMoves
  BY <1>1, <1>2, QueueEffect, RunsElsewhere DEF JobsOf
<1>3. ASSUME NEW q \in Pipeline, CreateDbPipeline(q) \/ RerunPipeline(q)
      PROVE  RunState(g, p)'
  <2>1. UNCHANGED <<pc, on, frame, jobs>>
    BY <1>0, <1>3, PlainCreate, PlainRerun
  <2>2. Busy(p) => \A t \in Task : t.p = p => tasks'[t] = tasks[t]
    BY <1>0, <1>3, JobsApart
  <2> QED
    BY <1>1, <2>1, <2>2, RunsElsewhere DEF JobsOf
<1>4. CASE DequeueStart
  <2>1. PICK h \in Goroutine :
            /\ pc[h] = "idle" /\ pc'[h] = "load" /\ on'[h] = dq.p /\ frame' = frame
            /\ OnlyRunner(h)
    BY <1>0, <1>4, StartEffect
  <2>2. dq.at = "start" /\ UNCHANGED <<tasks, jobs>>
    BY <1>0, <1>4, StartEffect
  <2>3. CASE g = h
    <3>1. NoneFailed(p, {})
      BY <1>1, <2>1, <2>2, <2>3 DEF TaskInv, ToRunState, ToRun
    <3>2. Latest(p)' = Latest(p)
      BY <2>2, LatestKept
    <3> QED
      BY <2>1, <2>2, <2>3, <3>1, <3>2 DEF RunState, NoneFailed
  <2>4. CASE g # h
    BY <1>1, <2>1, <2>2, <2>4, RunsElsewhere DEF OnlyRunner, JobsOf
  <2> QED
    BY <2>3, <2>4
<1>5. ASSUME NEW h \in Goroutine, RunWell(h)
      PROVE  RunState(g, p)'
  <2>1. OnlyRunner(h) /\ tasks' = tasks
    BY <1>0, <1>5, LoadEffect, RowEffect, JoinEffect, EndEffect, ComputeEffect, SaveEffect,
       ReleaseEffect DEF RunWell
  <2>2. CASE g # h
    <3>1. {j \in jobs' : j.g = g} = JobsOf(g)
      <4>1. CASE RunRow(h)
        BY <1>0, <2>2, <4>1, RowEffect DEF JobsOf
      <4>2. CASE RunJoin(h)
        BY <1>0, <2>2, <4>2, JoinEffect DEF JobsOf
      <4>3. CASE ~RunRow(h) /\ ~RunJoin(h)
        BY <1>5, <4>3
        DEF RunWell, RunLoad, RunRowsDone, RunCompute, RunSave, RunRelease, workers, JobsOf
      <4> QED
        BY <4>1, <4>2, <4>3
    <3> QED
      BY <1>1, <2>1, <2>2, <3>1, RunsElsewhere DEF OnlyRunner
  <2>3. CASE g = h
    <3>1. CASE RunLoad(g)
      BY <1>0, <1>1, <3>1, LoadEffect, LoadStep
    <3>2. CASE RunRow(g)
      BY <1>0, <1>1, <3>2, RowEffect, RowStep
    <3>3. CASE RunJoin(g)
      BY <1>0, <1>1, <3>3, JoinEffect, JoinStep
    <3>4. CASE RunRowsDone(g)
      <4>1. /\ frame' = frame /\ on[g] = p
            /\ pc[g] = "row" /\ ~RowsLeft(g) /\ pc'[g] = "compute"
        BY <1>0, <1>1, <3>4, EndEffect DEF RunRowsDone, RunDbError
      <4>2. OverRows(g, p) /\ TasksWith(g) = {}
        BY <4>1, JobPlace DEF TaskInv, RunsState, RunState, TasksWith, JobsOf
      <4>3. frame[g].err = "nil" /\ \A t \in Task : t.p = p => tasks[t] \notin Waiting
        BY <4>1, <4>2 DEF OverRows, RowsLeft
      <4> QED
        BY <2>1, <4>1, <4>3 DEF RunState, AtEnd
    <3>5. CASE RunCompute(g)
      <4> DEFINE verdict == Computed(p, frame[g].err = "canceled")
      <4>1. pc[g] = "compute" /\ on[g] = p
        BY <1>0, <1>1, <3>5, ComputeEffect
      <4>2. verdict # "error" /\ (verdict = "COMPLETED" => \A t \in Latest(p) : tasks[t] = "COMPLETED")
        BY <4>1, ComputedAtEnd
      <4>3. pc'[g] = "save" /\ frame'[g].verdict = verdict
        BY <1>0, <3>5, <4>1, <4>2, ComputeEffect
      <4>4. Latest(p)' = Latest(p)
        BY <2>1, LatestKept
      <4> HIDE DEF verdict
      <4> QED
        BY <2>1, <4>2, <4>3, <4>4 DEF RunState
    <3>6. CASE RunSave(g) \/ RunRelease(g)
      <4>1. pc'[g] \in {"release", "idle"}
        BY <1>0, <3>6, SaveEffect, ReleaseEffect
      <4> QED
        BY <4>1 DEF RunState
    <3> QED
      BY <1>5, <2>3, <3>1, <3>2, <3>3, <3>4, <3>5, <3>6 DEF RunWell
  <2> QED
    BY <2>2, <2>3
<1>6. ASSUME NEW j \in jobs, TaskStep(j)
      PROVE  RunState(g, p)'
  <2>1. UNCHANGED <<pc, on, frame>> /\ \A t \in Task : t # j.t => tasks'[t] = tasks[t]
    BY <1>0, <1>6, PlainTask
  <2>2. CASE g = j.g
    BY <1>1, <1>6, <2>1, <2>2, TaskRunStep
  <2>3. CASE g # j.g
    <3>1. PICK k \in Jobs : jobs' = (jobs \ {j}) \cup {k} /\ k.g = j.g
      BY <1>0, <1>6, PlainTask
    <3>2. {i \in jobs' : i.g = g} = JobsOf(g)
      BY <2>3, <3>1 DEF JobsOf
    <3>3. on[j.g] = j.t.p /\ Executing(j.g) /\ j.g \in Goroutine /\ on[g] = p
      BY <1>1, <2>1, JobPlace
    <3>4. Executing(g) => \A t \in Task : t.p = p => tasks'[t] = tasks[t]
      BY <2>1, <2>3, <3>3 DEF RunInv, OwnInv, SingleRun
    <3>5. CASE Executing(g)
      BY <1>0, <1>1, <2>1, <3>2, <3>3, <3>4, <3>5, RunKept DEF TaskInv, RunsState
    <3>6. CASE ~Executing(g)
      BY <1>0, <2>1, <3>6, RunnerTypes DEF RunState, Executing, ControlPoints
    <3> QED
      BY <3>5, <3>6
  <2> QED
    BY <2>2, <2>3
<1>7. CASE Restart
  BY <1>0, <1>7, RestartEffect DEF RunState
<1> QED
  BY <1>2, <1>3, <1>4, <1>5, <1>6, <1>7, PlainSteps
-----------------------------------------------------------------------------
(* The pipelines that are to run, those that run, and the rows before.      *)

LEMMA ToRunApart ==
    ASSUME PlainOps, RunInv, NEW p \in Pipeline, ToRun(p), NEW j \in jobs
    PROVE  j.t.p # p
<1>1. pstatus[j.t.p] = "RUNNING" /\ Executing(j.g) /\ on[j.g] = j.t.p /\ j.g \in Goroutine
  BY JobPlace
<1>2. cron.op = "rerunMark" => pstatus[cron.p] \in Ended
  BY DEF RunInv, OwnInv, RerunHasEnded
<1>3. dq.at = "start" => on[j.g] # dq.p
  BY <1>1 DEF RunInv, OwnInv, HandIsIdle
<1> QED
  BY <1>1, <1>2, <1>3 DEF ToRun, Waiting, Ended

LEMMA ToRunStep ==
    ASSUME PlainOps, RunInv, TaskInv, [Next]_vars
    PROVE  ToRunState'
<1>0. /\ TypeOK /\ JobsState /\ RowsOfPlan /\ pstatus \in [Pipeline -> Status \cup {Absent}]
      /\ tasks \in [Task -> Status \cup {Absent}]
  BY DEF RunInv, TaskInv, TypeOK
<1>1. SUFFICES ASSUME NEW p \in Pipeline, ToRun(p)'
               PROVE  NoneFailed(p, {})'
  BY DEF ToRunState
<1>2. ASSUME ToRun(p), \A t \in Task : t.p = p => tasks'[t] = tasks[t]
      PROVE  NoneFailed(p, {})'
  <2>1. NoneFailed(p, {}) /\ Latest(p)' = Latest(p) /\ \A t \in Latest(p) : t \in Task /\ t.p = p
    BY <1>2, LatestKept DEF TaskInv, ToRunState, Latest, TasksOf
  <2> QED
    BY <1>2, <2>1 DEF NoneFailed
<1>3. CASE QueueMoves
  BY <1>1, <1>2, <1>3, QueueEffect
<1>4. ASSUME NEW q \in Pipeline, CreateDbPipeline(q)
      PROVE  NoneFailed(p, {})'
  <2>1. /\ pstatus[q] = Absent /\ \A r \in Pipeline : r # q => pstatus'[r] = pstatus[r]
        /\ \A t \in Task : tasks'[t] = IF t.p = q /\ t.n = 1 THEN "CREATED" ELSE tasks[t]
        /\ UNCHANGED <<cron, dq>>
    BY <1>0, <1>4, PlainCreate
  <2>2. CASE p = q
    <3>1. \A t \in Task : t.p = p => tasks'[t] \in {"CREATED", Absent}
      BY <1>0, <2>1, <2>2 DEF RowsOfPlan
    <3>2. \A t \in Latest(p)' : t \in Task /\ t.p = p /\ tasks'[t] # Absent
      BY DEF Latest, TasksOf
    <3> QED
      BY <3>1, <3>2 DEF NoneFailed, Waiting
  <2>3. CASE p # q
    BY <1>1, <1>2, <2>1, <2>3 DEF ToRun
  <2> QED
    BY <2>2, <2>3
<1>5. ASSUME NEW q \in Pipeline, RerunPipeline(q)
      PROVE  NoneFailed(p, {})'
  <2> DEFINE targets == {t \in Latest(q) : tasks[t] # "COMPLETED"}
  <2>1. /\ cron'.p = q
        /\ \A t \in Task : t.p # q => tasks'[t] = tasks[t]
        /\ \A t \in TasksOf(q) : tasks'[t] = IF t \in targets THEN "FAILED" ELSE tasks[t]
        /\ \A t \in targets : \E u \in Task :
              SameCell(t, u) /\ u.n = t.n + 1 /\ tasks'[u] = "RERUN"
        /\ \A u \in Task : u.p = q /\ tasks[u] = Absent /\ tasks'[u] # Absent =>
              tasks'[u] = "RERUN"
        /\ UNCHANGED <<pstatus, dq>>
    BY <1>0, <1>5, PlainRerun
  <2>2. CASE p # q
    BY <1>1, <1>2, <2>1, <2>2 DEF ToRun
  <2>3. CASE p = q
    <3>1. ASSUME NEW t \in Latest(p)', tasks[t] # Absent
          PROVE  tasks'[t] = "COMPLETED"
      <4>1. /\ t \in Task /\ t.p = p /\ t.n \in Nat
            /\ \A u \in Task : u.p = p /\ tasks'[u] # Absent /\ SameCell(t, u) => u.n <= t.n
        BY TaskFields DEF Latest, TasksOf
      <4>2. t \notin targets
        <5>1. SUFFICES ASSUME t \in targets PROVE FALSE
          OBVIOUS
        <5>2. PICK u \in Task : SameCell(t, u) /\ u.n = t.n + 1 /\ tasks'[u] = "RERUN"
          BY <2>1, <5>1
        <5>3. u.n <= t.n
          BY <4>1, <5>2 DEF SameCell, Absent
        <5> QED
          BY <4>1, <5>2, <5>3
      <4>3. \A u \in Task : u.p = p /\ tasks[u] # Absent => tasks'[u] # Absent
        BY <2>1, <2>3 DEF TasksOf, Absent
      <4>4. t \in Latest(p)
        BY <3>1, <4>1, <4>3 DEF Latest, TasksOf
      <4>5. tasks[t] = "COMPLETED" /\ t \in TasksOf(q)
        BY <2>3, <4>2, <4>4 DEF Latest
      <4> QED
        BY <2>1, <4>2, <4>5
    <3>2. ASSUME NEW t \in Latest(p)', tasks[t] = Absent
          PROVE  tasks'[t] = "RERUN"
      <4>1. t \in Task /\ t.p = p /\ tasks'[t] # Absent
        BY DEF Latest, TasksOf
      <4> QED
        BY <2>1, <2>3, <3>2, <4>1
    <3> QED
      BY <3>1, <3>2 DEF NoneFailed, Waiting
  <2> QED
    BY <2>2, <2>3
<1>6. CASE DequeueStart
  <2>1. dq'.at = "acquire" /\ UNCHANGED <<pstatus, tasks, cron>>
    BY <1>0, <1>6, StartEffect
  <2> QED
    BY <1>1, <1>2, <2>1 DEF ToRun
<1>7. ASSUME NEW g \in Goroutine, RunWell(g)
      PROVE  NoneFailed(p, {})'
  <2>1. UNCHANGED <<tasks, cron, dq>>
    BY <1>0, <1>7, LoadEffect, RowEffect, JoinEffect, EndEffect, ComputeEffect, SaveEffect,
       ReleaseEffect DEF RunWell
  <2>2. pstatus'[p] \in Waiting => pstatus[p] \in Waiting
    <3>1. CASE RunRow(g) \/ RunSave(g)
      <4>1. on[g] \in Pipeline /\ frame[g].verdict \notin Waiting
        BY <1>0, <3>1, RunnerTypes DEF RunRow, RunSave, Executing, Frames, Waiting
      <4>2. \E x : x \notin Waiting /\ pstatus' = [pstatus EXCEPT ![on[g]] = x]
        BY <3>1, <4>1 DEF RunRow, RunSave, Waiting
      <4> QED
        BY <1>0, <4>1, <4>2
    <3>2. CASE ~RunRow(g) /\ ~RunSave(g)
      BY <1>7, <3>2 DEF RunWell, RunLoad, RunJoin, RunRowsDone, RunCompute, RunRelease, db
    <3> QED
      BY <3>1, <3>2
  <2> QED
    BY <1>1, <1>2, <2>1, <2>2 DEF ToRun
<1>8. ASSUME NEW j \in jobs, TaskStep(j)
      PROVE  NoneFailed(p, {})'
  <2>1. UNCHANGED <<pstatus, cron, dq>> /\ \A t \in Task : t # j.t => tasks'[t] = tasks[t]
    BY <1>0, <1>8, PlainTask
  <2>2. ToRun(p)
    BY <1>1, <2>1 DEF ToRun
  <2>3. j.t.p # p
    BY <2>2, ToRunApart
  <2> QED
    BY <1>2, <2>1, <2>2, <2>3
<1>9. CASE Restart
  <2>1. pstatus[p] \in Waiting
    BY <1>0, <1>1, <1>9, RestartEffect DEF ToRun, AfterRestart, Waiting
  <2>2. ToRun(p) /\ NoneFailed(p, {})
    BY <2>1 DEF ToRun, TaskInv, ToRunState
  <2>3. \A t \in Task : tasks'[t] = AfterRestart(tasks[t])
    BY <1>0, <1>9, RestartEffect
  <2>4. Latest(p)' = Latest(p) /\ \A t \in Latest(p) : t \in Task
    BY <2>3, LatestKept DEF AfterRestart, Absent, Latest, TasksOf
  <2> QED
    BY <2>2, <2>3, <2>4 DEF NoneFailed, AfterRestart, Waiting
<1> QED
  BY <1>3, <1>4, <1>5, <1>6, <1>7, <1>8, <1>9, PlainSteps

LEMMA OwnedStep ==
    ASSUME PlainOps, RunInv, TaskInv, [Next]_vars
    PROVE  PipelineIsOwned'
<1>0. /\ TypeOK /\ JobsState /\ RowsOfPlan /\ pstatus \in [Pipeline -> Status \cup {Absent}]
      /\ \A p \in Pipeline : pstatus[p] = "RUNNING" => Busy(p)
  BY DEF RunInv, TaskInv, TypeOK, PipelineIsOwned
<1>1. SUFFICES ASSUME NEW p \in Pipeline, pstatus'[p] = "RUNNING"
               PROVE  Busy(p)'
  BY DEF PipelineIsOwned
<1>2. CASE QueueMoves
  BY <1>0, <1>1, <1>2, QueueEffect
<1>3. ASSUME NEW q \in Pipeline, CreateDbPipeline(q) \/ RerunPipeline(q)
      PROVE  Busy(p)'
  <2>1. UNCHANGED <<dq, pc, on>>
    BY <1>0, <1>3, PlainCreate, PlainRerun
  <2>2. pstatus[p] = "RUNNING"
    BY <1>0, <1>1, <1>3, PlainCreate, PlainRerun
  <2> QED
    BY <1>0, <2>1, <2>2 DEF Busy, Executing
<1>4. CASE DequeueStart
  <2>1. PICK h \in Goroutine :
            pc[h] = "idle" /\ pc'[h] = "load" /\ on'[h] = dq.p /\ OnlyRunner(h)
    BY <1>0, <1>4, StartEffect
  <2>2. Busy(p)
    BY <1>0, <1>1, <1>4, StartEffect
  <2>3. CASE dq.p = p
    BY <2>1, <2>3 DEF Busy, Executing
  <2>4. CASE dq.p # p
    <3>1. PICK g \in Goroutine : Executing(g) /\ on[g] = p
      BY <2>2, <2>4 DEF Busy
    <3>2. g # h
      BY <2>1, <3>1 DEF Executing
    <3> QED
      BY <2>1, <3>1, <3>2 DEF Busy, Executing, OnlyRunner
  <2> QED
    BY <2>3, <2>4
<1>5. ASSUME NEW h \in Goroutine, RunWell(h)
      PROVE  Busy(p)'
  <2>1. OnlyRunner(h) /\ dq' = dq
    BY <1>0, <1>5, LoadEffect, RowEffect, JoinEffect, EndEffect, ComputeEffect, SaveEffect,
       ReleaseEffect DEF RunWell
  <2>2. ASSUME Executing(h)', on'[h] = p
        PROVE  Busy(p)'
    BY <2>2 DEF Busy
  <2>3. ASSUME pstatus[p] = "RUNNING", ~(Executing(h) /\ on[h] = p)
        PROVE  Busy(p)'
    <3>1. CASE dq.at = "start" /\ dq.p = p
      BY <2>1, <3>1 DEF Busy
    <3>2. ASSUME NEW g \in Goroutine, Executing(g), on[g] = p
          PROVE  Busy(p)'
      BY <2>1, <2>3, <3>2 DEF Busy, Executing, OnlyRunner
    <3> QED
      BY <1>0, <2>3, <3>1, <3>2 DEF Busy
  <2>4. CASE RunRow(h)
    <3>1. /\ on'[h] = on[h] /\ on[h] \in Pipeline /\ Executing(h)'
          /\ pstatus' = [pstatus EXCEPT ![on[h]] = "RUNNING"]
      BY <1>0, <2>4, RowEffect, RunnerTypes DEF Executing
    <3> QED
      BY <1>0, <1>1, <2>2, <2>3, <3>1
  <2>5. CASE RunSave(h)
    <3>1. /\ on[h] \in Pipeline /\ frame[h].verdict # "RUNNING"
          /\ pstatus' = [pstatus EXCEPT ![on[h]] = frame[h].verdict]
      BY <1>0, <2>5, SaveEffect, RunnerTypes DEF Executing, RunInv, FrameInv
    <3> QED
      BY <1>0, <1>1, <2>3, <3>1
  <2>6. CASE RunRelease(h)
    <3>1. ~Executing(h) /\ pstatus' = pstatus
      BY <1>0, <2>6, ReleaseEffect DEF Executing
    <3> QED
      BY <1>1, <2>3, <3>1
  <2>7. CASE RunLoad(h) \/ RunJoin(h) \/ RunRowsDone(h)
    <3>1. Executing(h)' /\ on'[h] = on[h] /\ pstatus' = pstatus
      BY <1>0, <2>7, LoadEffect, JoinEffect, EndEffect DEF RunRowsDone, RunDbError, Executing
    <3> QED
      BY <1>1, <2>2, <2>3, <3>1
  <2>8. CASE RunCompute(h)
    <3>1. pc[h] = "compute" /\ on' = on /\ pstatus' = pstatus /\ on[h] \in Pipeline
      BY <1>0, <2>8, ComputeEffect, RunnerTypes DEF Executing
    <3>2. Computed(on[h], frame[h].err = "canceled") # "error"
      BY <3>1, ComputedAtEnd
    <3>3. Executing(h)'
      BY <1>0, <2>8, <3>2, ComputeEffect DEF Executing
    <3> QED
      BY <1>1, <2>2, <2>3, <3>1, <3>3
  <2> QED
    BY <1>5, <2>4, <2>5, <2>6, <2>7, <2>8 DEF RunWell
<1>6. ASSUME NEW j \in jobs, TaskStep(j)
      PROVE  Busy(p)'
  BY <1>0, <1>1, <1>6, PlainTask DEF Busy, Executing
<1>7. ~Restart
  BY <1>0, <1>1, RestartEffect DEF AfterRestart
<1> QED
  BY <1>2, <1>3, <1>4, <1>5, <1>6, <1>7, PlainSteps
LEMMA EarlierStep ==
    ASSUME PlainOps, RunInv, TaskInv, [Next]_vars
    PROVE  EarlierRowsCompleted'
<1>0. TypeOK /\ JobsState /\ RowsOfPlan
  BY DEF RunInv, TaskInv
<1>1. SUFFICES ASSUME NEW k \in jobs', NEW p \in Pipeline, k.t.p = p, p \notin SkipOnFail,
                      NEW t \in Latest(p)', t.row < k.t.row
               PROVE  tasks'[t] = "COMPLETED"
  <2>1. \A k \in jobs' : k.t \in Task
    BY <1>0, TypeNext DEF TypeOK, Jobs
  <2> QED
    BY <2>1, TaskFields DEF EarlierRowsCompleted
<1>2. \A j \in jobs : j.t = k.t => \A u \in Latest(p) : u.row < k.t.row => tasks[u] = "COMPLETED"
  BY <1>1 DEF TaskInv, EarlierRowsCompleted
<1>3. t \in Task /\ t.p = p
  BY DEF Latest, TasksOf
<1>4. ASSUME UNCHANGED <<tasks, jobs>>
      PROVE  tasks'[t] = "COMPLETED"
  <2>1. Latest(p)' = Latest(p)
    BY <1>4, LatestKept
  <2> QED
    BY <1>1, <1>2, <1>4, <2>1
<1>5. CASE QueueMoves \/ DequeueStart
  BY <1>0, <1>4, <1>5, QueueEffect, StartEffect
<1>6. ASSUME NEW q \in Pipeline, CreateDbPipeline(q) \/ RerunPipeline(q)
      PROVE  tasks'[t] = "COMPLETED"
  <2>1. jobs' = jobs
    BY <1>0, <1>6, PlainCreate, PlainRerun
  <2>2. \A u \in Task : u.p = p => tasks'[u] = tasks[u]
    BY <1>0, <1>1, <1>6, <2>1, JobPlace, JobsApart
  <2>3. Latest(p)' = Latest(p)
    BY <2>2, LatestKept
  <2> QED
    BY <1>1, <1>2, <1>3, <2>1, <2>2, <2>3
<1>7. ASSUME NEW g \in Goroutine, RunWell(g)
      PROVE  tasks'[t] = "COMPLETED"
  <2>1. tasks' = tasks
    BY <1>0, <1>7, LoadEffect, RowEffect, JoinEffect, EndEffect, ComputeEffect, SaveEffect,
       ReleaseEffect DEF RunWell
  <2>2. Latest(p)' = Latest(p)
    BY <2>1, LatestKept
  <2>3. CASE k \in jobs
    BY <1>1, <1>2, <2>1, <2>2, <2>3
  <2>4. CASE k \notin jobs
    <3>1. RunRow(g)
      <4>1. CASE RunJoin(g)
        BY <1>0, <1>1, <2>4, <4>1, JoinEffect
      <4>2. CASE ~RunRow(g) /\ ~RunJoin(g)
        BY <1>1, <1>7, <2>4, <4>2
        DEF RunWell, RunLoad, RunRowsDone, RunCompute, RunSave, RunRelease, workers
      <4> QED
        BY <4>1, <4>2
    <3>2. PICK u \in RowTasks(g, frame[g].row + 1) :
              k = [g |-> g, t |-> u, at |-> "spawned", ctx |-> "live", res |-> "nil"]
      BY <1>0, <1>1, <2>4, <3>1, RowEffect
    <3>3. /\ pc[g] = "row" /\ frame[g] \in Frames /\ u \in frame[g].todo
          /\ u.row = frame[g].row + 1 /\ k.t = u
      BY <1>0, <3>1, <3>2, RowEffect, RunnerTypes DEF RowTasks
    <3>4. on[g] = p
      BY <1>1, <3>3 DEF RunInv, FrameInv
    <3>5. OverRows(g, p) /\ TasksWith(g) = {}
      BY <3>3, <3>4, JobPlace DEF TaskInv, RunsState, RunState, TasksWith, JobsOf
    <3>6. t.row \in Nat /\ frame[g].row \in Nat /\ ~(t.row > frame[g].row)
      <4>1. t.row \in Nat /\ frame[g].row \in Nat
        BY <1>3, <3>3, TaskFields DEF Frames
      <4>2. t.row < frame[g].row + 1
        BY <1>1, <3>3
      <4> QED
        BY <4>1, <4>2
    <3>7. tasks[t] \notin Waiting
      BY <1>3, <3>5, <3>6 DEF OverRows
    <3>8. tasks[t] = "COMPLETED"
      BY <1>1, <2>2, <3>5, <3>7 DEF OverRows, NoneFailed
    <3> QED
      BY <2>1, <3>8
  <2> QED
    BY <2>3, <2>4
<1>8. ASSUME NEW j \in jobs, TaskStep(j)
      PROVE  tasks'[t] = "COMPLETED"
  <2>1. PICK i \in Jobs :
            /\ jobs' = (jobs \ {j}) \cup {i} /\ i.t = j.t
            /\ \/ tasks[j.t] \in Waiting /\ tasks'[j.t] = "RUNNING"
               \/ tasks[j.t] = "RUNNING" /\ tasks'[j.t] \in {"COMPLETED", "FAILED"}
    BY <1>0, <1>8, PlainTask
  <2>2. \A u \in Task : u # j.t => tasks'[u] = tasks[u]
    BY <1>0, <1>8, PlainTask
  <2>3. Latest(p)' = Latest(p)
    BY <2>1, <2>2, LatestKept DEF Waiting, Absent
  <2>4. \E h \in jobs : h.t = k.t
    BY <1>1, <2>1
  <2>5. tasks[t] = "COMPLETED"
    BY <1>1, <1>2, <2>3, <2>4
  <2> QED
    BY <1>3, <2>1, <2>2, <2>5 DEF Waiting
<1>9. ~Restart
  BY <1>0, <1>1, RestartEffect
<1> QED
  BY <1>5, <1>6, <1>7, <1>8, <1>9, PlainSteps

-----------------------------------------------------------------------------
LEMMA TaskInit ==
    ASSUME Init
    PROVE  TaskInv
<1>1. /\ \A g \in Goroutine : pc[g] = "idle"
      /\ \A p \in Pipeline : pstatus[p] = Absent
      /\ \A t \in Task : tasks[t] = Absent /\ t.p \in Pipeline
      /\ dq.at = "acquire" /\ cron.op = "free" /\ jobs = {} /\ registry = {}
  BY TaskFields DEF Init, FreeLock
<1>2. RowsOfPlan /\ ReplacedIsSettled
  BY <1>1 DEF RowsOfPlan, ReplacedIsSettled, Pending, Waiting, Absent
<1>3. JobsState /\ EarlierRowsCompleted
  BY <1>1 DEF JobsState, Registered, TaskIsOwned, EarlierRowsCompleted, Absent
<1>4. RunsState /\ ToRunState /\ PipelineIsOwned
  BY <1>1 DEF RunsState, RunState, ToRunState, ToRun, PipelineIsOwned, Waiting, Absent
<1> QED
  BY <1>2, <1>3, <1>4 DEF TaskInv

LEMMA TaskNext ==
    ASSUME PlainOps, RunInv, TaskInv, [Next]_vars
    PROVE  TaskInv'
  BY RowsStep, SettledStep, JobsStep, RunsStep, ToRunStep, EarlierStep, OwnedStep DEF TaskInv

LEMMA TasksInvariant ==
    ASSUME PlainOps
    PROVE  Spec => [](RunInv /\ TaskInv)
<1>1. Init => RunInv /\ TaskInv
  BY RunInit, TaskInit
<1>2. RunInv /\ TaskInv /\ [Next]_vars => RunInv' /\ TaskInv'
  BY PlainFacts, RunNext, TaskNext
<1> QED
  BY <1>1, <1>2, PTL DEF Spec

\* A pipeline or task is RUNNING only while some goroutine of this process will
\* give it another status: after a crash nothing is left that looks as if it ran.
THEOREM RunningHasOwner ==
    ASSUME PlainOps
    PROVE  Spec => []RunningIsOwned
<1>1. ASSUME RunInv, TaskInv
      PROVE  RunningIsOwned
  <2>1. dq \in [at : {"acquire", "select", "mark", "start"}, p : Pipeline \cup {0}]
    BY <1>1 DEF RunInv, TypeOK
  <2>2. \A p \in Pipeline : dq.at = "start" /\ dq.p = p => dq = [at |-> "start", p |-> p]
    BY <2>1
  <2> QED
    BY <1>1, <2>2
    DEF TaskInv, PipelineIsOwned, JobsState, TaskIsOwned, RunningIsOwned, Busy
<1>2. RunInv /\ TaskInv => RunningIsOwned
  BY <1>1
<1> QED
  BY <1>2, TasksInvariant, PTL

\* A task that a later attempt at its cell replaces is not waiting or running.
THEOREM ReplacedStaysSettled ==
    ASSUME PlainOps
    PROVE  Spec => []ReplacedIsSettled
<1>1. TaskInv => ReplacedIsSettled
  BY DEF TaskInv
<1> QED
  BY <1>1, TasksInvariant, PTL

\* Without SkipOnFail a task starts only when the last attempt at every cell of
\* the rows before is completed, over any number of reruns and crashes.
THEOREM EarlierRowsFirst ==
    ASSUME PlainOps
    PROVE  Spec => []EarlierRowsCompleted
<1>1. TaskInv => EarlierRowsCompleted
  BY DEF TaskInv
<1> QED
  BY <1>1, TasksInvariant, PTL

\* As long as nothing but reruns of whole pipelines and crashes happens beside the
\* runs (no cancellation, no database error, no rerun of a single task):
\* ComputePipelineStatus is never called at what it takes for a wrong timing.
THEOREM ComputesOnTime ==
    ASSUME PlainOps
    PROVE  Spec => []ComputedOnTime
<1>1. ASSUME RunInv, TaskInv
      PROVE  ComputedOnTime
  <2>1. \A g \in Goroutine : pc[g] = "compute" => on[g] \in Pipeline
    BY <1>1, RunnerTypes DEF RunInv, Executing
  <2> QED
    BY <1>1, <2>1, ComputedAtEnd DEF ComputedOnTime
<1>2. RunInv /\ TaskInv => ComputedOnTime
  BY <1>1
<1> QED
  BY <1>2, TasksInvariant, PTL

\* As long as nothing but reruns of whole pipelines and crashes happens beside the
\* runs (after a database error COMPLETED is not earned, see the README): a pipeline
\* becomes COMPLETED only when the last attempt at each cell of its plan is completed.
THEOREM CompletionIsEarned ==
    ASSUME PlainOps
    PROVE  Spec => CompletedIsEarned
<1>1. ASSUME RunInv, TaskInv, [Next]_vars, NEW p \in Pipeline,
             pstatus'[p] = "COMPLETED", pstatus[p] # "COMPLETED"
      PROVE  {<<t.row, t.col>> : t \in {u \in Latest(p) : tasks[u] = "COMPLETED"}} = Plan[p]
  <2>0. TypeOK /\ pstatus \in [Pipeline -> Status \cup {Absent}]
    BY <1>1 DEF RunInv, TypeOK
  <2>1. PICK g \in Goroutine : RunSave(g) /\ on[g] = p /\ frame[g].verdict = "COMPLETED"
    <3>1. CASE pstatus' = pstatus
      BY <1>1, <3>1
    <3>2. ASSUME NEW q \in Pipeline, CreateDbPipeline(q) PROVE FALSE
      BY <1>1, <2>0, <3>2, CreateEffect
    <3>3. ~CancelSavePipeline
      BY <1>1, PlainFacts DEF CancelSavePipeline, RunInv, OwnInv, NobodyCancels
    <3>4. CASE RerunMark \/ DequeueMark
      BY <1>1, <2>0, <3>4 DEF RerunMark, DequeueMark
    <3>5. ASSUME NEW g \in Goroutine, RunRow(g) PROVE FALSE
      BY <1>1, <2>0, <3>5, RowEffect
    <3>6. ~Restart
      BY <1>1, <2>0, RestartEffect DEF AfterRestart
    <3>7. PICK g \in Goroutine : RunSave(g)
      BY <2>0, <1>1, <3>1, <3>2, <3>3, <3>4, <3>5, <3>6, StatusSteps
    <3> QED
      BY <1>1, <2>0, <3>7, SaveEffect
  <2>2. /\ pstatus[p] # Absent
        /\ \A t \in Latest(p) : tasks[t] = "COMPLETED"
    <3>1. pc[g] = "save" /\ Live(g)
      BY <2>1 DEF RunSave, Live
    <3> QED
      BY <1>1, <2>1, <3>1 DEF RunInv, QueueInv, RowsExist, TaskInv, RunsState, RunState
  <2>3. {u \in Latest(p) : tasks[u] = "COMPLETED"} = Latest(p)
    BY <2>2
  <2>4. ASSUME NEW t \in Latest(p)
        PROVE  <<t.row, t.col>> \in Plan[p]
    BY TaskFields DEF Latest, TasksOf
  <2>5. ASSUME NEW c \in Plan[p]
        PROVE  \E t \in Latest(p) : c = <<t.row, t.col>>
    <3>1. c \in Cell /\ c = <<c[1], c[2]>>
      <4>1. Plan[p] \subseteq (Nat \ {0}) \X (Nat \ {0})
        BY RequestAssumption
      <4> QED
        BY <4>1 DEF Cell
    <3> DEFINE t == [p |-> p, row |-> c[1], col |-> c[2], n |-> 1]
    <3>2. t \in Task /\ t.p = p /\ t.n = 1 /\ <<t.row, t.col>> = c
      BY <3>1, CountsAssumption DEF Task
    <3> HIDE DEF t
    <3>3. t \in TasksOf(p)
      BY <1>1, <2>2, <3>2 DEF TaskInv, RowsOfPlan, TasksOf
    <3>4. PICK u \in Latest(p) : SameCell(t, u)
      BY <3>3, LatestExists
    <3> QED
      BY <3>2, <3>4 DEF SameCell
  <2> QED
    BY <2>3, <2>4, <2>5
<1>2. RunInv /\ TaskInv /\ [Next]_vars =>
        [\A p \in Pipeline : pstatus'[p] = "COMPLETED" /\ pstatus[p] # "COMPLETED" =>
            {<<t.row, t.col>> : t \in {u \in Latest(p) : tasks[u] = "COMPLETED"}} = Plan[p]]_vars
  BY <1>1
<1> QED
  BY <1>2, TasksInvariant, PTL DEF Spec, CompletedIsEarned
=============================================================================
