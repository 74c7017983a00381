--------------------------- MODULE WorkerScheduler ---------------------------
(***************************************************************************)
(* The scheduler under every API client: a pool of workers that run the     *)
(* submitted tasks, one per tick, goroutines started by NextTick that       *)
(* submit what follows, a wait group over both, and the errors that tasks   *)
(* leave for the caller of WaitAsync.                                       *)
(*                                                                          *)
(* A task is the request of one page.  What a task does between its tick    *)
(* and its return is left to the modules that extend this one.              *)
(***************************************************************************)
EXTENDS Naturals, FiniteSets

CONSTANTS
    Request,       \* records with the fields x (input), page and retry
    NoRequest,     \* the value of a slot that has none
    NumOfWorkers,  \* size of the pool
    MaxTicks       \* bound on the goroutines that NextTick has started

ASSUME SchedulerAssumption ==
    /\ NumOfWorkers \in Nat \ {0}
    /\ MaxTicks \in Nat \ {0}
    /\ NoRequest \notin Request

Worker == 1 .. NumOfWorkers
Tick == 1 .. MaxTicks
ErrorKind == {"failed", "canceled"}

VARIABLES
    waitGroup,     \* calls of Add without their Done
    workerErrors,  \* kinds of the errors that WaitAsync will see
    unrecorded,    \* errors of tasks that have called Done, for checkError
    canceled,      \* whether the context is done
    pool,          \* the task of each worker and where it stands
    ticks          \* NextTick's goroutines, each submits the pages r.page .. last

scheduler == <<waitGroup, workerErrors, unrecorded, canceled, pool, ticks>>

IdleWorker == [at |-> "idle", r |-> NoRequest]
IdleTick == [at |-> "idle", r |-> NoRequest, last |-> 0]
Submitted(r) == [at |-> "begin", r |-> r]

SchedulerInit ==
    /\ waitGroup = 0
    /\ workerErrors = {}
    /\ unrecorded = {}
    /\ canceled = FALSE
    /\ pool = [w \in Worker |-> IdleWorker]
    /\ ticks = [g \in Tick |-> IdleTick]

HasError == workerErrors # {}

\* The worker that pool.Submit takes; it blocks while there is none.
Takes(w) == pool[w].at = "idle" /\ \A v \in 1 .. (w - 1) : pool[v].at # "idle"

Starts(g) == ticks[g].at = "idle" /\ \A h \in 1 .. (g - 1) : ticks[h].at # "idle"

\* The outcome of waitGroup.Wait when the counter is zero.
WaitResult ==
    IF "canceled" \in workerErrors THEN "canceled"
    ELSE IF HasError THEN "failed" ELSE "nil"

\* A fault: the task returns without its Done.
ReturnsUndone(w) ==
    /\ pool' = [pool EXCEPT ![w] = IdleWorker]
    /\ UNCHANGED <<waitGroup, workerErrors, unrecorded, canceled>>

\* The task of worker w returns without an error.
Returns(w) ==
    /\ pool' = [pool EXCEPT ![w] = IdleWorker]
    /\ waitGroup' = waitGroup - 1
    /\ UNCHANGED <<workerErrors, unrecorded, canceled>>

\* The task of worker w panics: the deferred Done runs, then the pool counts the
\* worker out and only then calls the handler that records the error.
Panics(w, err) ==
    /\ pool' = [pool EXCEPT ![w] = IdleWorker]
    /\ waitGroup' = waitGroup - 1
    /\ unrecorded' = unrecorded \cup {err}
    /\ UNCHANGED <<workerErrors, canceled>>

Record ==
    \E err \in unrecorded :
        /\ workerErrors' = workerErrors \cup {err}
        /\ unrecorded' = unrecorded \ {err}
        /\ UNCHANGED <<waitGroup, canceled, pool, ticks>>

\* A task that finds an error already there returns at once.
TaskBegins(w) ==
    /\ pool[w].at = "begin"
    /\ \/ HasError /\ Returns(w) /\ UNCHANGED ticks
       \/ /\ ~HasError
          /\ pool' = [pool EXCEPT ![w].at = "armed"]
          /\ UNCHANGED <<waitGroup, workerErrors, unrecorded, canceled, ticks>>

\* The select takes the context rather than the ticker.
TaskIsCanceled(w) ==
    /\ pool[w].at = "armed"
    /\ canceled
    /\ Panics(w, "canceled")
    /\ UNCHANGED ticks

\* A worker that submits from inside its task waits for another worker, then
\* its task returns: the two calls of Add are Done's of its own and of the new task.
NestedSubmits(w, r) ==
    /\ pool[w].at = "blocked"
    /\ \E v \in Worker :
        /\ Takes(v)
        /\ pool' = [pool EXCEPT ![v] = Submitted(r), ![w] = IdleWorker]
    /\ waitGroup' = waitGroup - 1
    /\ UNCHANGED <<workerErrors, unrecorded, canceled, ticks>>

\* SubmitBlocking by a goroutine of NextTick: nothing at all when there is an
\* error, otherwise Add, and wait for a worker.
TickChecks(g) ==
    /\ ticks[g].at = "check"
    /\ \/ /\ HasError
          /\ ticks' = [ticks EXCEPT ![g] = IdleTick]
          /\ waitGroup' = waitGroup - 1
       \/ /\ ~HasError
          /\ ticks' = [ticks EXCEPT ![g].at = "blocked"]
          /\ waitGroup' = waitGroup + 1
    /\ UNCHANGED <<workerErrors, unrecorded, canceled, pool>>

\* The worker starts; the goroutine goes on to the next page or is Done.
TickSubmits(g) ==
    /\ ticks[g].at = "blocked"
    /\ \E w \in Worker :
        /\ Takes(w)
        /\ pool' = [pool EXCEPT ![w] = Submitted(ticks[g].r)]
    /\ \/ /\ ticks[g].r.page < ticks[g].last
          /\ ticks' = [ticks EXCEPT ![g].at = "check", ![g].r.page = @ + 1]
          /\ UNCHANGED waitGroup
       \/ /\ ticks[g].r.page >= ticks[g].last
          /\ ticks' = [ticks EXCEPT ![g] = IdleTick]
          /\ waitGroup' = waitGroup - 1
    /\ UNCHANGED <<workerErrors, unrecorded, canceled>>

\* The subtask's context is cancelled.
Cancel ==
    /\ ~canceled
    /\ canceled' = TRUE
    /\ UNCHANGED <<waitGroup, workerErrors, unrecorded, pool, ticks>>

SchedulerTypeOK ==
    /\ waitGroup \in Nat
    /\ workerErrors \subseteq ErrorKind
    /\ unrecorded \subseteq ErrorKind
    /\ canceled \in BOOLEAN
    /\ pool \in [Worker -> [at : {"begin", "armed", "blocked"}, r : Request]
                           \cup {IdleWorker}]
    /\ ticks \in [Tick -> [at : {"check", "blocked"}, r : Request, last : Nat]
                          \cup {IdleTick}]
=============================================================================
