---------------------------- MODULE ApiCollector ----------------------------
(***************************************************************************)
(* ApiCollector.Execute on an ApiAsyncClient: the subtask's goroutine goes  *)
(* through the inputs and submits their first requests; requests are sent   *)
(* by the workers of the scheduler, retried when they fail, and their       *)
(* handlers store the page and ask for the pages that follow.               *)
(*                                                                          *)
(* Pages[x] is the page of input x where the paging of x ends: it is        *)
(* shorter than PageSize, or ErrFinishCollect is returned for it.           *)
(***************************************************************************)
EXTENDS WorkerScheduler

CONSTANTS
    Inputs,       \* the input rows that there may be, numbers from 1
    Pages,        \* see above
    LastPage,     \* a bound on the pages that are asked for
    Modes,        \* the kinds of paging to choose from
    MaxInputs,    \* bound on the inputs of a collection, for each kind
    Concurrency,  \* chains of pages per input when their number is unknown
    MaxRetry,     \* API_RETRY
    MaxFaults     \* bound on failing requests and handlers, and cancellations

ASSUME CollectorAssumption ==
    /\ Inputs \subseteq Nat \ {0}
    /\ LastPage \in Nat
    /\ Pages \in [Inputs -> 1 .. LastPage]
    /\ Modes \subseteq {"single", "sequential", "determined", "undetermined"}
    /\ MaxInputs \in [Modes -> Nat]
    /\ Concurrency \in Nat \ {0}
    /\ MaxRetry \in Nat
    /\ MaxFaults \in Nat
    /\ \A x \in Inputs : Pages[x] + Concurrency <= LastPage
    /\ Request = [x : Inputs, page : 1 .. LastPage, retry : 0 .. MaxRetry]

VARIABLES
    mode,      \* how this collector pages
    iterates,  \* whether it has an Input iterator
    asked,     \* the inputs of this collection
    todo,      \* those that the iterator has still to give
    main,      \* where Execute stands, its request in hand, its result
    chains,    \* chains of the current input that are not started yet
    rows,      \* how often each page was inserted into the raw table
    ignored,   \* inputs with a request that ended in ErrIgnoreAndContinue
    faults

args == <<mode, iterates, asked>>
vars == <<scheduler, args, todo, main, chains, rows, ignored, faults>>

First(x) == [x |-> x, page |-> 1, retry |-> 0]

\* The page has something to insert: those after the last are empty.
IsPage(r) == r.page <= Pages[r.x]

Init ==
    /\ SchedulerInit
    /\ mode \in Modes
    /\ iterates \in BOOLEAN
    /\ asked \in SUBSET Inputs
    /\ Cardinality(asked) <= MaxInputs[mode]
    /\ ~iterates => Cardinality(asked) = 1
    /\ todo = asked
    /\ main = [at |-> "loop", r |-> NoRequest, result |-> "none"]
    /\ chains = 0
    /\ rows = [x \in Inputs |-> [p \in 1 .. Pages[x] |-> 0]]
    /\ ignored = {}
    /\ faults = 0

Fault == faults < MaxFaults /\ faults' = faults + 1

-----------------------------------------------------------------------------
(* Execute.                                                                 *)

Stays == UNCHANGED <<pool, workerErrors, unrecorded, canceled, args, rows, ignored>>

\* exec: the first request of the input, or a goroutine for each of its chains.
Execute(x) ==
    IF mode \in {"single", "determined"}
    THEN main' = [main EXCEPT !.at = "submit", !.r = First(x)] /\ UNCHANGED chains
    ELSE /\ main' = [main EXCEPT !.at = "chains", !.r = First(x)]
         /\ chains' = IF mode = "sequential" THEN 1 ELSE Concurrency

\* With an iterator the loop stops to wait at the end or on an error.
NextInput ==
    /\ main.at = "loop"
    /\ iterates => ~HasError
    /\ \E x \in todo :
        /\ \A y \in todo : x <= y
        /\ todo' = todo \ {x}
        /\ Execute(x)
    /\ UNCHANGED <<waitGroup, ticks, faults>> /\ Stays

\* The error of Fetch ends Execute with no wait at all.
FetchFails ==
    /\ main.at = "loop"
    /\ iterates /\ ~HasError /\ todo # {}
    /\ Fault
    /\ main' = [main EXCEPT !.at = "returned", !.result = "fetch error"]
    /\ UNCHANGED <<waitGroup, ticks, todo, chains>> /\ Stays

LoopEnds ==
    /\ main.at = "loop"
    /\ todo = {} \/ (iterates /\ HasError)
    /\ main' = [main EXCEPT !.at = IF iterates THEN "wait" ELSE "final"]
    /\ UNCHANGED <<waitGroup, ticks, todo, chains, faults>> /\ Stays

\* SubmitBlocking by the subtask's goroutine.
MainChecks ==
    /\ main.at = "submit"
    /\ \/ HasError /\ main' = [main EXCEPT !.at = "loop"] /\ UNCHANGED waitGroup
       \/ ~HasError /\ main' = [main EXCEPT !.at = "blocked"] /\ waitGroup' = waitGroup + 1
    /\ UNCHANGED <<ticks, todo, chains, faults>> /\ Stays

MainSubmits ==
    /\ main.at = "blocked"
    /\ \E w \in Worker : Takes(w) /\ pool' = [pool EXCEPT ![w] = Submitted(main.r)]
    /\ main' = [main EXCEPT !.at = "loop"]
    /\ UNCHANGED <<waitGroup, workerErrors, unrecorded, canceled, ticks, args, todo,
                   chains, rows, ignored, faults>>

\* NextTick(collect), once for each chain: chain i begins with page i.
MainStartsChain ==
    /\ main.at = "chains"
    /\ \E g \in Tick :
        /\ Starts(g)
        /\ LET first == IF mode = "sequential" THEN 1 ELSE Concurrency
               r == [main.r EXCEPT !.page = first + 1 - chains]
           IN ticks' = [ticks EXCEPT ![g] = [at |-> "check", r |-> r, last |-> r.page]]
    /\ waitGroup' = waitGroup + 1
    /\ chains' = chains - 1
    /\ main' = IF chains = 1 THEN [main EXCEPT !.at = "loop"] ELSE main
    /\ UNCHANGED <<todo, faults>> /\ Stays

\* A fault: only the workers are waited for, not the goroutines of NextTick.
WorkersIdle == \A w \in Worker : pool[w].at = "idle"

Waited == waitGroup = 0

\* WaitAsync in the loop, then the one at the end.
MainWaits ==
    /\ main.at = "wait"
    /\ Waited
    /\ main' = IF WaitResult = "nil" THEN [main EXCEPT !.at = "final"]
               ELSE [main EXCEPT !.at = "returned", !.result = WaitResult]
    /\ UNCHANGED <<waitGroup, ticks, todo, chains, faults>> /\ Stays

MainReturns ==
    /\ main.at = "final"
    /\ Waited
    /\ main' = [main EXCEPT !.at = "returned", !.result = WaitResult]
    /\ UNCHANGED <<waitGroup, ticks, todo, chains, faults>> /\ Stays

-----------------------------------------------------------------------------
(* DoAsync: what comes of a request when its tick has come.                 *)

Spectates == UNCHANGED <<args, todo, main, chains>>

\* The goroutine that NextTick starts from a task, which then returns: its
\* Add comes before the task's Done.
ReturnsWithTick(w, r, last) ==
    /\ \E g \in Tick :
        /\ Starts(g)
        /\ ticks' = [ticks EXCEPT ![g] = [at |-> "check", r |-> r, last |-> last]]
    /\ pool' = [pool EXCEPT ![w] = IdleWorker]
    /\ UNCHANGED <<waitGroup, workerErrors, unrecorded, canceled>>

MayRetry(r) == r.retry < MaxRetry

\* A fault: the goroutine that retries is not counted before the task returns.
RetryUncounted(w) ==
    /\ \E g \in Tick :
        /\ Starts(g)
        /\ LET r == [pool[w].r EXCEPT !.retry = @ + 1]
           IN ticks' = [ticks EXCEPT ![g] = [at |-> "check", r |-> r, last |-> r.page]]
    /\ Returns(w)

Retry(w) ==
    LET r == [pool[w].r EXCEPT !.retry = @ + 1] IN ReturnsWithTick(w, r, r.page)

\* The request fails, or is cancelled under way: again later, or for good.
\* A fault of the network is one of the bounded faults.
RequestFails(w) ==
    /\ pool[w].at = "armed"
    /\ (canceled /\ UNCHANGED faults) \/ Fault
    /\ \/ MayRetry(pool[w].r) /\ Retry(w)
       \/ /\ ~MayRetry(pool[w].r)
          /\ Panics(w, IF canceled THEN "canceled" ELSE "failed")
          /\ UNCHANGED ticks
    /\ UNCHANGED <<rows, ignored>> /\ Spectates

\* The hook on responses returned ErrIgnoreAndContinue: no handler is called.
RequestIgnored(w) ==
    /\ pool[w].at = "armed"
    /\ Fault
    /\ ignored' = ignored \cup {pool[w].r.x}
    /\ Returns(w)
    /\ UNCHANGED <<ticks, rows>> /\ Spectates

Inserted(r) == IF IsPage(r) THEN [rows EXCEPT ![r.x][r.page] = @ + 1] ELSE rows

\* After the insertion the handler calls GetNextPageCustomData or GetTotalPages.
AsksWhatFollows(r) == mode = "sequential" \/ (mode = "determined" /\ r.page = 1)

\* The handler cannot parse the page or insert it, or has inserted it and cannot find
\* out what follows: there is no retry.
HandlerFails(w) ==
    /\ pool[w].at = "armed"
    /\ Fault
    /\ \/ UNCHANGED rows
       \/ AsksWhatFollows(pool[w].r) /\ rows' = Inserted(pool[w].r)
    /\ Panics(w, "failed")
    /\ UNCHANGED <<ticks, ignored>> /\ Spectates

\* A fault: the steps of the chains are one too short.
NextInChain(r) == [r EXCEPT !.page = @ + Concurrency - 1, !.retry = 0]

Successor(r) ==
    [r EXCEPT !.page = @ + (IF mode = "undetermined" THEN Concurrency ELSE 1),
              !.retry = 0]

\* A fault: the chain ends one page too early.
ContinuesShort(r) ==
    CASE mode = "single" -> FALSE
      [] mode = "determined" -> r.page = 1 /\ Pages[r.x] > 2
      [] OTHER -> r.page + 1 < Pages[r.x]

\* The handler's page is not the last of its input, and others follow it.
Continues(r) ==
    CASE mode = "single" -> FALSE
      [] mode = "determined" -> r.page = 1 /\ Pages[r.x] > 1
      [] OTHER -> r.page < Pages[r.x]

\* The handler inserts the page and asks for what follows.  Pages in sequence
\* are asked for by SubmitBlocking from inside the task.
HandlerStores(w) ==
    /\ pool[w].at = "armed"
    /\ LET r == pool[w].r
       IN /\ rows' = Inserted(r)
          /\ \/ ~Continues(r) /\ Returns(w) /\ UNCHANGED ticks
             \/ /\ Continues(r) /\ mode \in {"determined", "undetermined"}
                /\ ReturnsWithTick(w, Successor(r),
                      IF mode = "determined" THEN Pages[r.x] ELSE Successor(r).page)
             \/ /\ Continues(r) /\ mode = "sequential"
                /\ \/ HasError /\ Returns(w)
                   \/ /\ ~HasError
                      /\ pool' = [pool EXCEPT ![w].at = "blocked"]
                      /\ waitGroup' = waitGroup + 1
                      /\ UNCHANGED <<workerErrors, unrecorded, canceled>>
                /\ UNCHANGED ticks
    /\ UNCHANGED <<ignored, faults>> /\ Spectates

-----------------------------------------------------------------------------
MainStep ==
    \/ NextInput \/ FetchFails \/ LoopEnds \/ MainChecks \/ MainSubmits
    \/ MainStartsChain \/ MainWaits \/ MainReturns

Others == UNCHANGED <<args, todo, main, chains, rows, ignored, faults>>

WorkerStep(w) ==
    \/ TaskBegins(w) /\ Others
    \/ TaskIsCanceled(w) /\ Others
    \/ NestedSubmits(w, Successor(pool[w].r)) /\ Others
    \/ RequestFails(w)
    \/ RequestIgnored(w)
    \/ HandlerFails(w)
    \/ HandlerStores(w)

TickStep(g) == (TickChecks(g) \/ TickSubmits(g)) /\ Others

RecordStep == Record /\ Others

CancelStep == Cancel /\ Fault /\ UNCHANGED <<args, todo, main, chains, rows, ignored>>

Next ==
    \/ MainStep
    \/ \E w \in Worker : WorkerStep(w)
    \/ \E g \in Tick : TickStep(g)
    \/ RecordStep
    \/ CancelStep

\* Go runs every goroutine that can run, the ticker ticks, and every request
\* has an answer: the client has a timeout.
Fairness ==
    /\ WF_vars(MainStep)
    /\ \A w \in Worker : WF_vars(WorkerStep(w))
    /\ \A g \in Tick : WF_vars(TickStep(g))
    /\ WF_vars(RecordStep)

Spec == Init /\ [][Next]_vars

FairSpec == Spec /\ Fairness
-----------------------------------------------------------------------------
(* Properties.                                                              *)

TypeOK ==
    /\ SchedulerTypeOK
    /\ mode \in Modes
    /\ iterates \in BOOLEAN
    /\ asked \subseteq Inputs
    /\ todo \subseteq asked
    /\ main \in [at : {"loop", "submit", "blocked", "chains", "wait", "final", "returned"},
                 r : Request \cup {NoRequest},
                 result : {"none", "nil", "failed", "canceled", "fetch error"}]
    /\ main.at \in {"submit", "blocked", "chains"} => main.r \in Request
    /\ chains \in 0 .. Concurrency
    /\ DOMAIN rows = Inputs
    /\ \A x \in Inputs : rows[x] \in [1 .. Pages[x] -> Nat]
    /\ ignored \subseteq Inputs
    /\ faults \in 0 .. MaxFaults

Returned == main.at = "returned" /\ main.result # "fetch error"

\* Every call of Add without its Done is of a task, a goroutine of NextTick, or
\* a submission that waits for its worker.
Counted ==
    waitGroup = Cardinality({w \in Worker : pool[w].at # "idle"})
              + Cardinality({w \in Worker : pool[w].at = "blocked"})
              + Cardinality({g \in Tick : ticks[g].at # "idle"})
              + Cardinality({g \in Tick : ticks[g].at = "blocked"})
              + (IF main.at = "blocked" THEN 1 ELSE 0)

\* When Execute has waited and returned, nothing of it is under way: no worker
\* has a task and no goroutine will submit one, so nothing is inserted later.
NothingLeftBehind ==
    Returned => /\ \A w \in Worker : pool[w].at = "idle"
                /\ \A g \in Tick : ticks[g].at = "idle"

\* When Execute returns nil and no task failed, each page of each input is in
\* the raw table, in every kind of paging, whatever was retried; only an input
\* with an ignored response may lack pages.
NilMeansComplete ==
    /\ Returned /\ main.result = "nil"
    /\ ~HasError /\ unrecorded = {}
    => \A x \in asked \ ignored :
         \A p \in 1 .. (IF mode = "single" THEN 1 ELSE Pages[x]) : rows[x][p] = 1

\* No page is inserted twice, although requests are repeated.
StoredOnce == \A x \in Inputs : \A p \in DOMAIN rows[x] : rows[x][p] <= 1

\* Execute returns, with an error or without, provided that workers that submit
\* from inside a task, one per input at a time, leave a worker free.
CollectionEnds ==
    (mode = "sequential" => Cardinality(asked) < NumOfWorkers) ~> main.at = "returned"

\* WaitAsync returns the errors of the tasks: Execute does not return nil after
\* a task has failed.
FailureIsReported ==
    Returned /\ main.result = "nil" => unrecorded = {} /\ ~HasError
=============================================================================
