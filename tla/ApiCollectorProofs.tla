-------------------------- MODULE ApiCollectorProofs --------------------------
(***************************************************************************)
(* Proofs about ApiCollector: its types; that the wait group counts right,  *)
(* so that nothing is under way when Execute returns; that no page is       *)
(* inserted twice, and all of them are when Execute returns nil and no task *)
(* failed.                                                                  *)
(***************************************************************************)
EXTENDS ApiCollector, FiniteSetTheorems, TLAPS

WorkerState == [at : {"begin", "armed", "blocked"}, r : Request] \cup {IdleWorker}
TickState == [at : {"check", "blocked"}, r : Request, last : Nat] \cup {IdleTick}

\* How many chains of pages an input has, where pages are asked for by chains.
ChainsPerInput == IF mode = "sequential" THEN 1 ELSE Concurrency

\* Why the pages that are asked for stay within bounds: the goroutines of NextTick
\* have a last page, a page is followed by another only if it is not the last,
\* and the subtask starts one chain after the other.
PagesBounded ==
    /\ \A g \in Tick : ticks[g].at # "idle" =>
          ticks[g].r.page <= ticks[g].last /\ ticks[g].last <= LastPage
    /\ \A w \in Worker : pool[w].at = "blocked" =>
          mode = "sequential" /\ pool[w].r.page < Pages[pool[w].r.x]
    /\ main.at = "chains" =>
          /\ mode \in {"sequential", "undetermined"}
          /\ chains \in 1 .. ChainsPerInput
    /\ main.at \in {"submit", "blocked", "chains"} => main.r = First(main.r.x)

TypeInv == TypeOK /\ PagesBounded

-----------------------------------------------------------------------------
\* What is assumed of the constants, one by one.
LEMMA Bounds ==
    /\ LastPage \in Nat /\ Concurrency \in Nat \ {0} /\ MaxRetry \in Nat
    /\ MaxFaults \in Nat /\ NumOfWorkers \in Nat /\ MaxTicks \in Nat
    /\ Modes \subseteq {"single", "sequential", "determined", "undetermined"}
    /\ NoRequest \notin Request
  BY CollectorAssumption, SchedulerAssumption

\* Requests and what they are turned into are requests.
LEMMA RequestType ==
    ASSUME NEW r \in Request
    PROVE  /\ r = [x |-> r.x, page |-> r.page, retry |-> r.retry]
           /\ r.x \in Inputs /\ r.page \in 1 .. LastPage /\ r.page \in Nat \ {0}
           /\ r.retry \in 0 .. MaxRetry
           /\ Pages[r.x] \in 1 .. LastPage /\ Pages[r.x] + Concurrency <= LastPage
           /\ Pages[r.x] \in Nat \ {0}
           /\ r.retry < MaxRetry => [r EXCEPT !.retry = @ + 1] \in Request
           /\ \A p \in 1 .. LastPage : [r EXCEPT !.page = p] \in Request
<1>1. r \in [x : Inputs, page : 1 .. LastPage, retry : 0 .. MaxRetry]
  BY CollectorAssumption
<1>2. /\ r.x \in Inputs /\ r.page \in 1 .. LastPage /\ r.retry \in 0 .. MaxRetry
      /\ r = [x |-> r.x, page |-> r.page, retry |-> r.retry]
  BY <1>1
<1>3. LastPage \in Nat /\ MaxRetry \in Nat /\ Pages[r.x] \in 1 .. LastPage
  BY <1>2, CollectorAssumption
<1>4. Pages[r.x] + Concurrency <= LastPage
  BY <1>2, CollectorAssumption
<1>5. r.retry < MaxRetry => [r EXCEPT !.retry = @ + 1] \in Request
  BY <1>1, <1>3, CollectorAssumption
<1>6. \A p \in 1 .. LastPage : [r EXCEPT !.page = p] \in Request
  BY <1>1, CollectorAssumption
<1> QED
  BY <1>2, <1>3, <1>4, <1>5, <1>6

\* The request that follows a page that is not the last of its input.
LEMMA SuccessorType ==
    ASSUME NEW r \in Request, r.page < Pages[r.x]
    PROVE  /\ Successor(r) \in Request
           /\ Successor(r).x = r.x
           /\ Successor(r).page = r.page + (IF mode = "undetermined" THEN Concurrency ELSE 1)
           /\ Successor(r).page \in 1 .. LastPage
<1> DEFINE p == r.page + (IF mode = "undetermined" THEN Concurrency ELSE 1)
<1>1. p \in 1 .. LastPage
  <2>1. Concurrency \in Nat \ {0} /\ LastPage \in Nat
    BY CollectorAssumption
  <2>2. /\ Pages[r.x] \in Nat /\ Pages[r.x] + Concurrency <= LastPage
        /\ r.page \in Nat \ {0}
    BY RequestType
  <2> QED
    BY <2>1, <2>2
<1>2. Successor(r) = [r EXCEPT !.page = p, !.retry = 0]
  BY DEF Successor
<1> HIDE DEF p
<1>3. Successor(r) = [x |-> r.x, page |-> p, retry |-> 0]
  BY <1>2, RequestType
<1>4. 0 \in 0 .. MaxRetry /\ r.x \in Inputs
  BY RequestType, CollectorAssumption
<1>5. Successor(r) \in Request /\ Successor(r).x = r.x /\ Successor(r).page = p
  BY <1>1, <1>3, <1>4, CollectorAssumption
<1> QED
  BY <1>1, <1>5 DEF p

\* The first page of an input, and the first pages of its chains.
LEMMA FirstType ==
    ASSUME NEW x \in Inputs
    PROVE  /\ First(x) \in Request
           /\ First(x).x = x /\ First(x).page = 1
           /\ \A p \in 1 .. Concurrency : [First(x) EXCEPT !.page = p] \in Request
  BY CollectorAssumption DEF First

\* The initial state is of the right type.
LEMMA TypeInit == Init => TypeInv
<1> SUFFICES ASSUME Init PROVE TypeInv
  OBVIOUS
<1> USE CollectorAssumption, SchedulerAssumption
<1>1. SchedulerTypeOK
  BY DEF Init, SchedulerInit, SchedulerTypeOK, ErrorKind
<1>2. main \in [at : {"loop", "submit", "blocked", "chains", "wait", "final", "returned"},
                r : Request \cup {NoRequest},
                result : {"none", "nil", "failed", "canceled", "fetch error"}]
  BY DEF Init
<1>3. \A x \in Inputs : rows[x] \in [1 .. Pages[x] -> Nat]
  BY DEF Init
<1>4. TypeOK
  BY <1>1, <1>2, <1>3 DEF Init, TypeOK
<1>5. PagesBounded
  BY DEF Init, SchedulerInit, PagesBounded, IdleTick, IdleWorker
<1> QED
  BY <1>4, <1>5 DEF TypeInv

\* What a task, and a goroutine of NextTick, may be after a step.
LEMMA SchedulerTypes ==
    /\ SchedulerTypeOK <=>
          /\ waitGroup \in Nat
          /\ workerErrors \subseteq ErrorKind
          /\ unrecorded \subseteq ErrorKind
          /\ canceled \in BOOLEAN
          /\ pool \in [Worker -> WorkerState]
          /\ ticks \in [Tick -> TickState]
    /\ \A t \in WorkerState : t.at # "idle" => t.r \in Request
    /\ \A t \in TickState : t.at # "idle" => t.r \in Request /\ t.last \in Nat
    /\ IdleWorker \in WorkerState /\ IdleTick \in TickState
    /\ IdleWorker.at = "idle" /\ IdleTick.at = "idle"
    /\ \A r \in Request : Submitted(r) \in WorkerState
    /\ \A r \in Request : Submitted(r).at = "begin" /\ Submitted(r).r = r
    /\ \A t \in WorkerState : t.at # "idle" =>
          [t EXCEPT !.at = "armed"] \in WorkerState /\ [t EXCEPT !.at = "blocked"] \in WorkerState
    /\ \A r \in Request, l \in Nat : [at |-> "check", r |-> r, last |-> l] \in TickState
  BY DEF SchedulerTypeOK, WorkerState, TickState, IdleWorker, IdleTick, Submitted

\* A step that gives one worker, or one goroutine, another state.
LEMMA PoolChange ==
    ASSUME pool \in [Worker -> WorkerState], NEW w \in Worker, NEW t,
           pool' = [pool EXCEPT ![w] = t]
    PROVE  /\ t \in WorkerState => pool' \in [Worker -> WorkerState]
           /\ pool'[w] = t
           /\ \A v \in Worker : v # w => pool'[v] = pool[v]
  OBVIOUS

\* The same of a goroutine of NextTick.
LEMMA TickChange ==
    ASSUME ticks \in [Tick -> TickState], NEW g \in Tick, NEW t,
           ticks' = [ticks EXCEPT ![g] = t]
    PROVE  /\ t \in TickState => ticks' \in [Tick -> TickState]
           /\ ticks'[g] = t
           /\ \A h \in Tick : h # g => ticks'[h] = ticks[h]
  OBVIOUS

\* Faults stay within their bound.
LEMMA FaultType ==
    ASSUME faults \in 0 .. MaxFaults, Fault
    PROVE  faults' \in 0 .. MaxFaults
<1>1. MaxFaults \in Nat
  BY CollectorAssumption
<1> QED
  BY <1>1 DEF Fault

\* The table keeps its type when a page is inserted.
LEMMA InsertedType ==
    ASSUME TypeInv, NEW r \in Request
    PROVE  /\ DOMAIN Inserted(r) = Inputs
           /\ \A x \in Inputs : Inserted(r)[x] \in [1 .. Pages[x] -> Nat]
<1>1. DOMAIN rows = Inputs /\ \A x \in Inputs : rows[x] \in [1 .. Pages[x] -> Nat]
  BY DEF TypeInv, TypeOK
<1>2. r.x \in Inputs /\ r.page \in Nat \ {0} /\ Pages[r.x] \in Nat
  BY RequestType
<1>3. CASE IsPage(r)
  <2>1. r.page \in 1 .. Pages[r.x]
    BY <1>2, <1>3 DEF IsPage
  <2>2. Inserted(r) = [rows EXCEPT ![r.x][r.page] = @ + 1]
    BY <1>3 DEF Inserted
  <2> QED
    BY <1>1, <1>2, <2>1, <2>2
<1>4. CASE ~IsPage(r)
  BY <1>1, <1>4 DEF Inserted
<1> QED
  BY <1>3, <1>4

\* A step of a worker that touches only its own task, and what it records, keeps
\* the types when its task is typed; so does one that starts a goroutine of NextTick.
LEMMA WorkerTypes ==
    ASSUME TypeInv, waitGroup' \in Nat,
           UNCHANGED <<args, todo, main, chains>>,
           workerErrors' \subseteq ErrorKind, unrecorded' \subseteq ErrorKind,
           canceled' \in BOOLEAN, ignored' \subseteq Inputs, faults' \in 0 .. MaxFaults,
           \/ UNCHANGED rows
           \/ DOMAIN rows' = Inputs /\ \A x \in Inputs : rows'[x] \in [1 .. Pages[x] -> Nat],
           pool' \in [Worker -> WorkerState],
           \A v \in Worker : pool'[v].at = "blocked" =>
              \/ pool'[v] = pool[v]
              \/ mode = "sequential" /\ pool'[v].r.page < Pages[pool'[v].r.x],
           ticks' \in [Tick -> TickState],
           \A g \in Tick : ticks'[g].at # "idle" =>
              \/ ticks'[g] = ticks[g]
              \/ ticks'[g].r.page <= ticks'[g].last /\ ticks'[g].last <= LastPage
    PROVE  TypeInv'
<1>1. TypeOK'
  BY SchedulerTypes DEF TypeInv, TypeOK, SchedulerTypeOK, WorkerState, TickState, args
<1>2. PagesBounded'
  BY DEF TypeInv, PagesBounded, args, ChainsPerInput
<1> QED
  BY <1>1, <1>2 DEF TypeInv

\* Every step keeps the types, provided that the wait group does not go below zero.
LEMMA TypeNext ==
    ASSUME TypeInv, [Next]_vars, waitGroup' \in Nat
    PROVE  TypeInv'
<1> DEFINE MainState == [at : {"loop", "submit", "blocked", "chains", "wait", "final", "returned"},
                         r : Request \cup {NoRequest},
                         result : {"none", "nil", "failed", "canceled", "fetch error"}]
<1>0. /\ pool \in [Worker -> WorkerState] /\ ticks \in [Tick -> TickState]
      /\ workerErrors \subseteq ErrorKind /\ unrecorded \subseteq ErrorKind
      /\ canceled \in BOOLEAN /\ main \in MainState /\ chains \in 0 .. Concurrency
      /\ mode \in Modes /\ todo \subseteq asked /\ asked \subseteq Inputs
      /\ faults \in 0 .. MaxFaults
      /\ PagesBounded
  BY SchedulerTypes DEF TypeInv, TypeOK
<1>1. ASSUME UNCHANGED <<workerErrors, unrecorded, canceled, args, rows, ignored>>,
             pool' \in [Worker -> WorkerState], ticks' \in [Tick -> TickState],
             main' \in MainState,
             main'.at \in {"submit", "blocked", "chains"} => main'.r \in Request,
             chains' \in 0 .. Concurrency, todo' \subseteq todo, faults' \in 0 .. MaxFaults
      PROVE  TypeOK'
  BY <1>1, SchedulerTypes DEF TypeInv, TypeOK, SchedulerTypeOK, WorkerState, TickState, args
<1>2. CASE NextInput
  <2>1. PICK x \in todo : todo' = todo \ {x} /\ Execute(x)
    BY <1>2 DEF NextInput
  <2>2. x \in Inputs
    BY <1>0
  <2>3. /\ UNCHANGED <<pool, ticks, faults>>
        /\ UNCHANGED <<workerErrors, unrecorded, canceled, args, rows, ignored>>
    BY <1>2 DEF NextInput, Stays
  <2>4. /\ main' \in MainState /\ main'.r \in Request /\ main'.r = First(main'.r.x)
        /\ main'.at \in {"submit", "chains"} /\ chains' \in 0 .. Concurrency
        /\ main'.at = "chains" => mode \in {"sequential", "undetermined"}
                                  /\ chains' = ChainsPerInput
    <3>1. First(x) \in Request /\ First(x).x = x
      BY <2>2, FirstType
    <3>2. mode \in {"single", "sequential", "determined", "undetermined"}
      BY <1>0, Bounds
    <3>3. CASE mode \in {"single", "determined"}
      BY <1>0, <2>1, <3>1, <3>3 DEF Execute
    <3>4. CASE mode \in {"sequential", "undetermined"}
      <4>1. main' = [main EXCEPT !.at = "chains", !.r = First(x)] /\ chains' = ChainsPerInput
        BY <2>1, <3>4 DEF Execute, ChainsPerInput
      <4>2. ChainsPerInput \in 0 .. Concurrency
        BY Bounds DEF ChainsPerInput
      <4> QED
        BY <1>0, <3>1, <3>4, <4>1, <4>2
    <3> QED
      BY <3>2, <3>3, <3>4
  <2>5. ChainsPerInput' = ChainsPerInput /\ ChainsPerInput \in 1 .. ChainsPerInput
    BY <2>3, CollectorAssumption DEF ChainsPerInput, args
  <2>6. PagesBounded'
    BY <1>0, <2>3, <2>4, <2>5 DEF PagesBounded, args
  <2> QED
    BY <1>0, <1>1, <2>1, <2>3, <2>4, <2>6 DEF TypeInv
<1>3. CASE FetchFails \/ LoopEnds \/ MainWaits \/ MainReturns
  <2>1. /\ UNCHANGED <<pool, ticks, todo, chains>>
        /\ UNCHANGED <<workerErrors, unrecorded, canceled, args, rows, ignored>>
    BY <1>3 DEF FetchFails, LoopEnds, MainWaits, MainReturns, Stays
  <2>2. WaitResult \in {"nil", "failed", "canceled"}
    BY DEF WaitResult
  <2>3. main' \in MainState /\ main'.at \in {"wait", "final", "returned"}
    BY <1>0, <1>3, <2>2 DEF FetchFails, LoopEnds, MainWaits, MainReturns
  <2>4. faults' \in 0 .. MaxFaults
    <3>1. faults' = faults \/ Fault
      BY <1>3 DEF FetchFails, LoopEnds, MainWaits, MainReturns
    <3> QED
      BY <1>0, <3>1, FaultType
  <2>5. PagesBounded'
    BY <1>0, <2>1, <2>3 DEF PagesBounded, args
  <2> QED
    BY <1>0, <1>1, <2>1, <2>3, <2>4, <2>5 DEF TypeInv
<1>4. CASE MainChecks
  <2>1. /\ UNCHANGED <<pool, ticks, todo, chains, faults>>
        /\ UNCHANGED <<workerErrors, unrecorded, canceled, args, rows, ignored>>
    BY <1>4 DEF MainChecks, Stays
  <2>2. main.at = "submit" /\ main.r \in Request
    BY <1>4 DEF MainChecks, TypeInv, TypeOK
  <2>3. main' \in MainState /\ main'.at \in {"loop", "blocked"} /\ main'.r = main.r
    BY <1>0, <1>4 DEF MainChecks
  <2>4. PagesBounded'
    BY <1>0, <2>1, <2>2, <2>3 DEF PagesBounded, args
  <2> QED
    BY <1>0, <1>1, <2>1, <2>2, <2>3, <2>4 DEF TypeInv
<1>5. CASE MainSubmits
  <2>1. /\ UNCHANGED <<ticks, todo, chains, faults>>
        /\ UNCHANGED <<workerErrors, unrecorded, canceled, args, rows, ignored>>
    BY <1>5 DEF MainSubmits
  <2>2. main.r \in Request
    BY <1>5 DEF MainSubmits, TypeInv, TypeOK
  <2>3. PICK w \in Worker : pool' = [pool EXCEPT ![w] = Submitted(main.r)]
    BY <1>5 DEF MainSubmits
  <2>4. pool' \in [Worker -> WorkerState]
    BY <1>0, <2>2, <2>3, SchedulerTypes
  <2>5. main' \in MainState /\ main'.at = "loop"
    BY <1>0, <1>5 DEF MainSubmits
  <2>6. PagesBounded'
    BY <1>0, <2>1, <2>3, <2>5 DEF PagesBounded, args, Submitted
  <2> QED
    BY <1>0, <1>1, <2>1, <2>4, <2>5, <2>6 DEF TypeInv
<1>6. CASE MainStartsChain
  <2>1. /\ UNCHANGED <<pool, todo, faults>>
        /\ UNCHANGED <<workerErrors, unrecorded, canceled, args, rows, ignored>>
        /\ main.at = "chains"
        /\ chains' = chains - 1
        /\ main' = IF chains = 1 THEN [main EXCEPT !.at = "loop"] ELSE main
    BY <1>6 DEF MainStartsChain, Stays
  <2> DEFINE r == [main.r EXCEPT !.page = ChainsPerInput + 1 - chains]
  <2>2. PICK g \in Tick :
            ticks' = [ticks EXCEPT ![g] = [at |-> "check", r |-> r, last |-> r.page]]
    BY <1>6 DEF MainStartsChain, ChainsPerInput
  <2>3. /\ main.r \in Request /\ main.r.x \in Inputs /\ main.r = First(main.r.x)
        /\ mode \in {"sequential", "undetermined"} /\ chains \in 1 .. ChainsPerInput
    BY <1>0, <2>1, RequestType DEF PagesBounded, TypeInv, TypeOK
  <2>4. ChainsPerInput \in 1 .. Concurrency
    BY CollectorAssumption DEF ChainsPerInput
  <2>5. ChainsPerInput + 1 - chains \in 1 .. Concurrency
    BY <2>3, <2>4, CollectorAssumption
  <2>6. r \in Request
    BY <2>3, <2>5, FirstType
  <2>7. r.page \in Nat /\ r.page <= LastPage /\ LastPage \in Nat
    BY <2>6, RequestType, CollectorAssumption
  <2> HIDE DEF r
  <2>8. ticks' \in [Tick -> TickState]
    BY <1>0, <2>2, <2>6, <2>7, SchedulerTypes
  <2>9. /\ main' \in MainState /\ main'.at \in {"chains", "loop"} /\ main'.r = main.r
        /\ main'.at = "chains" => chains # 1
    BY <1>0, <2>1
  <2>10. /\ chains' \in 0 .. Concurrency
         /\ chains # 1 => chains' \in 1 .. ChainsPerInput
    BY <2>1, <2>3, <2>4, CollectorAssumption
  <2>11. \A h \in Tick : ticks'[h].at # "idle" =>
            ticks'[h].r.page <= ticks'[h].last /\ ticks'[h].last <= LastPage
    <3>1. \A h \in Tick : h # g => ticks'[h] = ticks[h]
      BY <1>0, <2>2
    <3>2. ticks'[g] = [at |-> "check", r |-> r, last |-> r.page]
      BY <1>0, <2>2
    <3>3. ticks'[g].r.page <= ticks'[g].last /\ ticks'[g].last <= LastPage
      BY <2>7, <3>2
    <3> QED
      BY <1>0, <3>1, <3>3 DEF PagesBounded
  <2>12. PagesBounded'
    BY <1>0, <2>1, <2>3, <2>9, <2>10, <2>11 DEF PagesBounded, args, ChainsPerInput
  <2> QED
    BY <1>0, <1>1, <2>1, <2>3, <2>8, <2>9, <2>10, <2>12 DEF TypeInv
<1>7. ASSUME NEW w \in Worker, TaskBegins(w), Others PROVE TypeInv'
  <2>1. UNCHANGED <<ticks, workerErrors, unrecorded, canceled>> /\ pool[w].at = "begin"
    BY <1>7 DEF TaskBegins, Returns
  <2>2. /\ pool[w] \in WorkerState /\ pool[w].at # "idle"
        /\ [pool[w] EXCEPT !.at = "armed"] \in WorkerState /\ IdleWorker \in WorkerState
    BY <1>0, <2>1, SchedulerTypes
  <2>3. PICK t \in {IdleWorker, [pool[w] EXCEPT !.at = "armed"]} : pool' = [pool EXCEPT ![w] = t]
    BY <1>7 DEF TaskBegins, Returns
  <2>4. t \in WorkerState /\ t.at # "blocked"
    BY <2>2, <2>3 DEF IdleWorker, WorkerState
  <2>5. /\ pool' \in [Worker -> WorkerState]
        /\ \A v \in Worker : pool'[v].at = "blocked" => pool'[v] = pool[v]
    BY <1>0, <2>3, <2>4, PoolChange
  <2> QED
    BY <1>0, <1>7, <2>1, <2>5, WorkerTypes DEF Others, TypeInv, TypeOK
<1>8. ASSUME NEW w \in Worker, pool' = [pool EXCEPT ![w] = IdleWorker]
      PROVE  /\ pool' \in [Worker -> WorkerState]
             /\ \A v \in Worker : pool'[v].at = "blocked" => pool'[v] = pool[v]
  BY <1>0, <1>8, PoolChange, SchedulerTypes
<1>9. ASSUME NEW w \in Worker, NEW err \in ErrorKind, Panics(w, err), UNCHANGED <<ticks, args, todo, main, chains>>,
             ignored' \subseteq Inputs, faults' \in 0 .. MaxFaults,
           \/ UNCHANGED rows
           \/ DOMAIN rows' = Inputs /\ \A x \in Inputs : rows'[x] \in [1 .. Pages[x] -> Nat]
      PROVE  TypeInv'
  <2>1. /\ workerErrors' \subseteq ErrorKind /\ unrecorded' \subseteq ErrorKind
        /\ canceled' \in BOOLEAN /\ pool' = [pool EXCEPT ![w] = IdleWorker]
    BY <1>0, <1>9 DEF Panics
  <2> QED
    BY <1>0, <1>8, <1>9, <2>1, WorkerTypes
<1>10. ASSUME NEW w \in Worker, Returns(w), UNCHANGED <<ticks, args, todo, main, chains>>,
             ignored' \subseteq Inputs, faults' \in 0 .. MaxFaults,
           \/ UNCHANGED rows
           \/ DOMAIN rows' = Inputs /\ \A x \in Inputs : rows'[x] \in [1 .. Pages[x] -> Nat]
      PROVE  TypeInv'
  <2>1. /\ UNCHANGED <<workerErrors, unrecorded, canceled>>
        /\ pool' = [pool EXCEPT ![w] = IdleWorker]
    BY <1>10 DEF Returns
  <2> QED
    BY <1>0, <1>8, <1>10, <2>1, WorkerTypes
<1>11. ASSUME NEW w \in Worker, NEW r \in Request, NEW l \in Nat, ReturnsWithTick(w, r, l),
              r.page <= l, l <= LastPage,
              UNCHANGED <<args, todo, main, chains>>,
             ignored' \subseteq Inputs, faults' \in 0 .. MaxFaults,
           \/ UNCHANGED rows
           \/ DOMAIN rows' = Inputs /\ \A x \in Inputs : rows'[x] \in [1 .. Pages[x] -> Nat]
      PROVE  TypeInv'
  <2> DEFINE t == [at |-> "check", r |-> r, last |-> l]
  <2>1. PICK g \in Tick : ticks' = [ticks EXCEPT ![g] = t]
    BY <1>11 DEF ReturnsWithTick
  <2>2. /\ UNCHANGED <<workerErrors, unrecorded, canceled>>
        /\ pool' = [pool EXCEPT ![w] = IdleWorker]
    BY <1>11 DEF ReturnsWithTick
  <2>3. t \in TickState
    BY <1>11, SchedulerTypes
  <2>4. t.r.page <= t.last /\ t.last <= LastPage
    BY <1>11
  <2> HIDE DEF t
  <2>5. /\ ticks' \in [Tick -> TickState]
        /\ ticks'[g] = t /\ \A h \in Tick : h # g => ticks'[h] = ticks[h]
    BY <1>0, <2>1, <2>3, TickChange
  <2>6. \A h \in Tick : ticks'[h].at # "idle" =>
              \/ ticks'[h] = ticks[h]
              \/ ticks'[h].r.page <= ticks'[h].last /\ ticks'[h].last <= LastPage
    BY <2>4, <2>5
  <2> QED
    BY <1>0, <1>8, <1>11, <2>2, <2>5, <2>6, WorkerTypes
<1>12. ASSUME NEW w \in Worker, TaskIsCanceled(w), Others PROVE TypeInv'
  <2>1. Panics(w, "canceled") /\ "canceled" \in ErrorKind /\ UNCHANGED ticks
    BY <1>12 DEF TaskIsCanceled, ErrorKind
  <2> QED
    BY <1>0, <1>9, <1>12, <2>1 DEF Others, TypeInv, TypeOK
<1>13. ASSUME NEW w \in Worker, NestedSubmits(w, Successor(pool[w].r)), Others PROVE TypeInv'
  <2>1. /\ pool[w].at = "blocked"
        /\ UNCHANGED <<workerErrors, unrecorded, canceled, ticks>>
    BY <1>13 DEF NestedSubmits
  <2>2. PICK v \in Worker : pool' = [pool EXCEPT ![v] = Submitted(Successor(pool[w].r)), ![w] = IdleWorker]
    BY <1>13 DEF NestedSubmits
  <2>3. pool[w].r \in Request /\ pool[w].r.page < Pages[pool[w].r.x]
    BY <1>0, <2>1, SchedulerTypes DEF PagesBounded
  <2>4. Successor(pool[w].r) \in Request
    BY <2>3, SuccessorType
  <2>5. /\ pool' \in [Worker -> WorkerState]
        /\ \A u \in Worker : pool'[u].at = "blocked" => pool'[u] = pool[u]
    BY <1>0, <2>2, <2>4, SchedulerTypes
  <2> QED
    BY <1>0, <1>13, <2>1, <2>5, WorkerTypes DEF Others, TypeInv, TypeOK
<1>14. ASSUME NEW w \in Worker, RequestFails(w) PROVE TypeInv'
  <2>1. /\ pool[w].at = "armed" /\ UNCHANGED <<rows, ignored>>
        /\ UNCHANGED <<args, todo, main, chains>> /\ (UNCHANGED faults \/ Fault)
    BY <1>14 DEF RequestFails, Spectates
  <2>2. ignored' \subseteq Inputs /\ faults' \in 0 .. MaxFaults
    BY <1>0, <2>1, FaultType DEF TypeInv, TypeOK
  <2>3. pool[w].r \in Request
    BY <1>0, <2>1, SchedulerTypes
  <2>4. CASE MayRetry(pool[w].r) /\ Retry(w)
    <3> DEFINE r == [pool[w].r EXCEPT !.retry = @ + 1]
    <3>1. ReturnsWithTick(w, r, r.page)
      BY <2>4 DEF Retry
    <3>2. r \in Request
      BY <2>3, <2>4, RequestType DEF MayRetry
    <3> HIDE DEF r
    <3>3. r.page \in 1 .. LastPage /\ LastPage \in Nat
      BY <3>2, RequestType, Bounds
    <3>4. r.page \in Nat /\ r.page <= r.page /\ r.page <= LastPage
      BY <3>3
    <3> QED
      BY <1>11, <2>1, <2>2, <3>1, <3>2, <3>4
  <2>5. CASE Panics(w, IF canceled THEN "canceled" ELSE "failed") /\ UNCHANGED ticks
    <3>1. (IF canceled THEN "canceled" ELSE "failed") \in ErrorKind
      BY DEF ErrorKind
    <3> QED
      BY <1>9, <2>1, <2>2, <2>5, <3>1
  <2> QED
    BY <1>14, <2>4, <2>5 DEF RequestFails
<1>15. ASSUME NEW w \in Worker, RequestIgnored(w) PROVE TypeInv'
  <2>1. /\ pool[w].at = "armed" /\ UNCHANGED rows /\ UNCHANGED ticks
        /\ ignored' = ignored \cup {pool[w].r.x} /\ Returns(w)
        /\ UNCHANGED <<args, todo, main, chains>> /\ Fault
    BY <1>15 DEF RequestIgnored, Spectates
  <2>2. pool[w].r \in Request /\ pool[w].r.x \in Inputs
    BY <1>0, <2>1, SchedulerTypes, RequestType
  <2>3. ignored' \subseteq Inputs /\ faults' \in 0 .. MaxFaults
    BY <1>0, <2>1, <2>2, FaultType DEF TypeInv, TypeOK
  <2> QED
    BY <1>10, <2>1, <2>3
<1>16. ASSUME NEW w \in Worker, HandlerFails(w) PROVE TypeInv'
  <2>1. /\ UNCHANGED <<ticks, args, todo, main, chains>> /\ UNCHANGED ignored /\ Panics(w, "failed")
        /\ Fault /\ "failed" \in ErrorKind /\ pool[w].at = "armed"
        /\ UNCHANGED rows \/ rows' = Inserted(pool[w].r)
    BY <1>16 DEF HandlerFails, Spectates, ErrorKind
  <2>2. ignored' \subseteq Inputs /\ faults' \in 0 .. MaxFaults
    BY <1>0, <2>1, FaultType DEF TypeInv, TypeOK
  <2>3. pool[w].r \in Request
    BY <1>0, <2>1, SchedulerTypes
  <2>4. \/ UNCHANGED rows
        \/ DOMAIN rows' = Inputs /\ \A x \in Inputs : rows'[x] \in [1 .. Pages[x] -> Nat]
    BY <2>1, <2>3, InsertedType
  <2> QED
    BY <1>9, <2>1, <2>2, <2>4
<1>17. ASSUME NEW w \in Worker, HandlerStores(w) PROVE TypeInv'
  <2> DEFINE r == pool[w].r
  <2>1. /\ pool[w].at = "armed" /\ UNCHANGED ignored /\ UNCHANGED faults
        /\ UNCHANGED <<args, todo, main, chains>>
        /\ rows' = Inserted(r)
    BY <1>17 DEF HandlerStores, Spectates
  <2>2. ignored' \subseteq Inputs /\ faults' \in 0 .. MaxFaults
    BY <1>0, <2>1 DEF TypeInv, TypeOK
  <2>3. /\ pool[w] \in WorkerState /\ pool[w].at # "idle" /\ r \in Request
        /\ r.x \in Inputs /\ r.page \in Nat \ {0} /\ Pages[r.x] \in Nat /\ Pages[r.x] \in 1 .. LastPage
    BY <1>0, <2>1, SchedulerTypes, RequestType
  <2>4. DOMAIN rows' = Inputs /\ \A x \in Inputs : rows'[x] \in [1 .. Pages[x] -> Nat]
    BY <2>1, <2>3, InsertedType
  <2>5. CASE Returns(w) /\ UNCHANGED ticks
    BY <1>10, <2>1, <2>2, <2>4, <2>5
  <2>6. CASE Continues(r) /\ mode \in {"determined", "undetermined"}
             /\ ReturnsWithTick(w, Successor(r),
                      IF mode = "determined" THEN Pages[r.x] ELSE Successor(r).page)
    <3>1. r.page < Pages[r.x] /\ (mode = "determined" => r.page = 1)
      BY <2>3, <2>6 DEF Continues
    <3> DEFINE q == Successor(r)
               l == IF mode = "determined" THEN Pages[r.x] ELSE Successor(r).page
    <3>2. /\ q \in Request /\ q.page \in 1 .. LastPage /\ LastPage \in Nat
          /\ q.page = r.page + (IF mode = "undetermined" THEN Concurrency ELSE 1)
      BY <2>3, <3>1, SuccessorType, Bounds
    <3>3. l \in Nat /\ q.page <= l /\ l <= LastPage
      BY <2>3, <2>6, <3>1, <3>2
    <3>4. ReturnsWithTick(w, q, l)
      BY <2>6
    <3> HIDE DEF q, l
    <3> QED
      BY <1>11, <2>1, <2>2, <2>4, <3>2, <3>3, <3>4
  <2>7. CASE /\ Continues(r) /\ mode = "sequential" /\ UNCHANGED ticks
             /\ pool' = [pool EXCEPT ![w].at = "blocked"]
             /\ UNCHANGED <<workerErrors, unrecorded, canceled>>
    <3>1. r.page < Pages[r.x]
      BY <2>7 DEF Continues
    <3> DEFINE t == [pool[w] EXCEPT !.at = "blocked"]
    <3>2. t \in WorkerState /\ t.r = r /\ pool' = [pool EXCEPT ![w] = t]
      BY <2>3, <2>7, SchedulerTypes DEF WorkerState, IdleWorker
    <3> HIDE DEF t
    <3>3. pool' \in [Worker -> WorkerState] /\ pool'[w].r = r
          /\ \A v \in Worker : v # w => pool'[v] = pool[v]
      BY <1>0, <3>2, PoolChange
    <3>4. \A v \in Worker : pool'[v].at = "blocked" =>
              \/ pool'[v] = pool[v]
              \/ mode = "sequential" /\ pool'[v].r.page < Pages[pool'[v].r.x]
      BY <2>7, <3>1, <3>3
    <3> QED
      BY <1>0, <2>1, <2>2, <2>4, <2>7, <3>3, <3>4, WorkerTypes
  <2> QED
    BY <1>17, <2>5, <2>6, <2>7 DEF HandlerStores
<1>18. ASSUME NEW g \in Tick, NEW t \in TickState, ticks' = [ticks EXCEPT ![g] = t],
              t.at # "idle" => t.r.page <= t.last /\ t.last <= LastPage,
              pool' \in [Worker -> WorkerState],
              \A v \in Worker : pool'[v].at = "blocked" => pool'[v] = pool[v],
              UNCHANGED <<workerErrors, unrecorded, canceled>>, Others
       PROVE  TypeInv'
  <2>1. /\ ticks' \in [Tick -> TickState]
        /\ ticks'[g] = t /\ \A h \in Tick : h # g => ticks'[h] = ticks[h]
    BY <1>0, <1>18, TickChange
  <2>2. \A h \in Tick : ticks'[h].at # "idle" =>
              \/ ticks'[h] = ticks[h]
              \/ ticks'[h].r.page <= ticks'[h].last /\ ticks'[h].last <= LastPage
    BY <1>18, <2>1
  <2> QED
    BY <1>0, <1>18, <2>1, <2>2, WorkerTypes DEF Others, TypeInv, TypeOK
<1>19. ASSUME NEW g \in Tick, TickChecks(g), Others PROVE TypeInv'
  <2>1. /\ ticks[g].at = "check" /\ UNCHANGED pool
        /\ UNCHANGED <<workerErrors, unrecorded, canceled>>
    BY <1>19 DEF TickChecks
  <2> DEFINE b == [ticks[g] EXCEPT !.at = "blocked"]
  <2>2. PICK t \in {IdleTick, b} : ticks' = [ticks EXCEPT ![g] = t]
    BY <1>19 DEF TickChecks
  <2>3. ticks[g] \in TickState /\ ticks[g].at # "idle"
    BY <1>0, <2>1
  <2>4. b \in TickState /\ b.r = ticks[g].r /\ b.last = ticks[g].last
    BY <2>3 DEF TickState, IdleTick
  <2>5. b.r.page <= b.last /\ b.last <= LastPage
    BY <1>0, <2>3, <2>4 DEF PagesBounded
  <2>6. t \in TickState /\ (t.at # "idle" => t.r.page <= t.last /\ t.last <= LastPage)
    BY <2>2, <2>4, <2>5, SchedulerTypes
  <2> QED
    BY <1>0, <1>18, <1>19, <2>1, <2>2, <2>6
<1>20. ASSUME NEW g \in Tick, TickSubmits(g), Others PROVE TypeInv'
  <2>1. ticks[g].at = "blocked" /\ UNCHANGED <<workerErrors, unrecorded, canceled>>
    BY <1>20 DEF TickSubmits
  <2>2. PICK w \in Worker : pool' = [pool EXCEPT ![w] = Submitted(ticks[g].r)]
    BY <1>20 DEF TickSubmits
  <2>3. /\ ticks[g] \in TickState /\ ticks[g].at # "idle"
        /\ ticks[g].r \in Request /\ ticks[g].last \in Nat
        /\ ticks[g].r.page <= ticks[g].last /\ ticks[g].last <= LastPage
    BY <1>0, <2>1, SchedulerTypes DEF PagesBounded
  <2>4. /\ pool' \in [Worker -> WorkerState]
        /\ \A v \in Worker : pool'[v].at = "blocked" => pool'[v] = pool[v]
    BY <1>0, <2>2, <2>3, PoolChange, SchedulerTypes
  <2>5. CASE ticks' = [ticks EXCEPT ![g] = IdleTick]
    BY <1>18, <1>20, <2>1, <2>4, <2>5, SchedulerTypes
  <2>6. CASE /\ ticks[g].r.page < ticks[g].last
             /\ ticks' = [ticks EXCEPT ![g].at = "check", ![g].r.page = @ + 1]
    <3> DEFINE r == [ticks[g].r EXCEPT !.page = ticks[g].r.page + 1]
               t == [at |-> "check", r |-> r, last |-> ticks[g].last]
    <3>1. /\ ticks[g].r.page + 1 \in 1 .. LastPage
          /\ ticks[g].r.page + 1 <= ticks[g].last
      <4>1. ticks[g].r.page \in Nat /\ LastPage \in Nat
        BY <2>3, RequestType, Bounds
      <4> QED
        BY <2>3, <2>6, <4>1
    <3>2. r \in Request
      BY <2>3, <3>1, RequestType
    <3>3. r.page = ticks[g].r.page + 1
      BY <2>3, RequestType
    <3>4. ticks' = [ticks EXCEPT ![g] = t]
      <4>1. ticks[g] \in [at : {"check", "blocked"}, r : Request, last : Nat]
        BY <2>3 DEF TickState, IdleTick
      <4> DEFINE u == [ticks[g] EXCEPT !.at = "check", !.r.page = @ + 1]
      <4>2. u = t
        <5>1. u = [ticks[g] EXCEPT !.at = "check", !.r = r]
          BY <4>1
        <5> HIDE DEF u, r
        <5> QED
          BY <4>1, <5>1
      <4>3. ticks' = [ticks EXCEPT ![g] = u]
        BY <2>6
      <4> QED
        BY <4>2, <4>3
    <3> HIDE DEF r
    <3>5. t \in TickState /\ t.r.page <= t.last /\ t.last <= LastPage
      BY <2>3, <3>1, <3>2, <3>3, SchedulerTypes
    <3> HIDE DEF t
    <3> QED
      BY <1>18, <1>20, <2>1, <2>4, <3>4, <3>5
  <2> QED
    BY <1>20, <2>5, <2>6 DEF TickSubmits
<1>21. CASE RecordStep
  <2>1. UNCHANGED <<canceled, pool, ticks>> /\ UNCHANGED <<args, todo, main, chains>>
        /\ UNCHANGED ignored /\ UNCHANGED faults /\ UNCHANGED rows
    BY <1>21 DEF RecordStep, Record, Others
  <2>2. workerErrors' \subseteq ErrorKind /\ unrecorded' \subseteq ErrorKind
    BY <1>0, <1>21 DEF RecordStep, Record
  <2> QED
    BY <1>0, <2>1, <2>2, WorkerTypes DEF TypeInv, TypeOK
<1>22. CASE CancelStep
  <2>1. UNCHANGED <<workerErrors, unrecorded, pool, ticks>> /\ UNCHANGED <<args, todo, main, chains>>
        /\ UNCHANGED ignored /\ UNCHANGED rows /\ canceled' \in BOOLEAN /\ Fault
    BY <1>22 DEF CancelStep, Cancel
  <2>2. faults' \in 0 .. MaxFaults
    BY <1>0, <2>1, FaultType
  <2> QED
    BY <1>0, <2>1, <2>2, WorkerTypes DEF TypeInv, TypeOK
<1>23. CASE UNCHANGED vars
  <2>1. UNCHANGED <<workerErrors, unrecorded, pool, ticks, canceled>> /\ UNCHANGED <<args, todo, main, chains>>
        /\ UNCHANGED ignored /\ UNCHANGED rows /\ UNCHANGED faults
    BY <1>23 DEF vars, scheduler, args
  <2> QED
    BY <1>0, <2>1, WorkerTypes DEF TypeInv, TypeOK
<1> QED
  BY <1>2, <1>3, <1>4, <1>5, <1>6, <1>7, <1>12, <1>13, <1>14, <1>15, <1>16, <1>17,
     <1>19, <1>20, <1>21, <1>22, <1>23 DEF Next, MainStep, WorkerStep, TickStep
-----------------------------------------------------------------------------
(* The wait group: a task or a goroutine counts once, and once more while   *)
(* it waits for a worker.                                                   *)

Weight(t) == CASE t.at = "idle" -> 0 [] t.at = "blocked" -> 2 [] OTHER -> 1

Count(f, S) == Cardinality({i \in S : f[i].at # "idle"})
             + Cardinality({i \in S : f[i].at = "blocked"})

MainWeight == IF main.at = "blocked" THEN 1 ELSE 0

\* A set that gains or loses at most one member.
LEMMA CardinalityChange ==
    ASSUME NEW n \in Nat, NEW A \in SUBSET (1 .. n), NEW B \in SUBSET (1 .. n),
           NEW e \in 1 .. n, \A i \in 1 .. n : i # e => (i \in A <=> i \in B)
    PROVE  /\ Cardinality(A) \in Nat /\ Cardinality(B) \in Nat
           /\ Cardinality(A) + (IF e \in B THEN 1 ELSE 0)
                = Cardinality(B) + (IF e \in A THEN 1 ELSE 0)
<1>1. IsFiniteSet(A) /\ IsFiniteSet(B)
  <2>1. IsFiniteSet(1 .. n)
    BY FS_Interval
  <2> QED
    BY <2>1, FS_Subset
<1>2. Cardinality(A) \in Nat /\ Cardinality(B) \in Nat
  BY <1>1, FS_CardinalityType
<1>3. CASE e \in A /\ e \notin B
  <2>1. A = B \cup {e}
    BY <1>3
  <2> QED
    BY <1>1, <1>2, <1>3, <2>1, FS_AddElement
<1>4. CASE e \notin A /\ e \in B
  <2>1. B = A \cup {e}
    BY <1>4
  <2> QED
    BY <1>1, <1>2, <1>4, <2>1, FS_AddElement
<1>5. CASE e \in A <=> e \in B
  <2>1. \A i \in 1 .. n : i \in A <=> i \in B
    BY <1>5
  <2>2. A = B
    BY <2>1
  <2> QED
    BY <1>2, <1>5, <2>2
<1> QED
  BY <1>3, <1>4, <1>5

\* A table where one place changes.
LEMMA CountChange ==
    ASSUME NEW n \in Nat, NEW f, NEW g, NEW e \in 1 .. n,
           \A i \in 1 .. n : i # e => g[i] = f[i]
    PROVE  /\ \A h \in {f, g} : /\ Cardinality({i \in 1 .. n : h[i].at # "idle"}) \in Nat
                               /\ Cardinality({i \in 1 .. n : h[i].at = "blocked"}) \in Nat
                               /\ Count(h, 1 .. n) \in Nat
           /\ Count(f, 1 .. n) + Weight(g[e]) = Count(g, 1 .. n) + Weight(f[e])
<1> DEFINE busy1 == {i \in 1 .. n : f[i].at # "idle"}
           busy2 == {i \in 1 .. n : g[i].at # "idle"}
           blocked1 == {i \in 1 .. n : f[i].at = "blocked"}
           blocked2 == {i \in 1 .. n : g[i].at = "blocked"}
<1>1. /\ \A i \in 1 .. n : i # e => (i \in busy1 <=> i \in busy2)
      /\ \A i \in 1 .. n : i # e => (i \in blocked1 <=> i \in blocked2)
      /\ busy1 \in SUBSET (1 .. n) /\ busy2 \in SUBSET (1 .. n)
      /\ blocked1 \in SUBSET (1 .. n) /\ blocked2 \in SUBSET (1 .. n)
  OBVIOUS
<1>2. /\ Weight(f[e]) = (IF e \in busy1 THEN 1 ELSE 0) + (IF e \in blocked1 THEN 1 ELSE 0)
      /\ Weight(g[e]) = (IF e \in busy2 THEN 1 ELSE 0) + (IF e \in blocked2 THEN 1 ELSE 0)
  BY DEF Weight
<1>3. /\ Count(f, 1 .. n) = Cardinality(busy1) + Cardinality(blocked1)
      /\ Count(g, 1 .. n) = Cardinality(busy2) + Cardinality(blocked2)
  BY DEF Count
<1> HIDE DEF busy1, busy2, blocked1, blocked2
<1>4. /\ Cardinality(busy1) \in Nat /\ Cardinality(busy2) \in Nat
      /\ Cardinality(busy1) + (IF e \in busy2 THEN 1 ELSE 0)
           = Cardinality(busy2) + (IF e \in busy1 THEN 1 ELSE 0)
  BY <1>1, CardinalityChange
<1>5. /\ Cardinality(blocked1) \in Nat /\ Cardinality(blocked2) \in Nat
      /\ Cardinality(blocked1) + (IF e \in blocked2 THEN 1 ELSE 0)
           = Cardinality(blocked2) + (IF e \in blocked1 THEN 1 ELSE 0)
  BY <1>1, CardinalityChange
<1>6. Count(f, 1 .. n) + Weight(g[e]) = Count(g, 1 .. n) + Weight(f[e])
  <2> DEFINE i1 == IF e \in busy1 THEN 1 ELSE 0
             i2 == IF e \in busy2 THEN 1 ELSE 0
             k1 == IF e \in blocked1 THEN 1 ELSE 0
             k2 == IF e \in blocked2 THEN 1 ELSE 0
             A == Cardinality(busy1)
             B == Cardinality(busy2)
             C == Cardinality(blocked1)
             D == Cardinality(blocked2)
  <2>1. /\ A + i2 = B + i1 /\ C + k2 = D + k1
        /\ i1 \in Nat /\ i2 \in Nat /\ k1 \in Nat /\ k2 \in Nat
        /\ A \in Nat /\ B \in Nat /\ C \in Nat /\ D \in Nat
    BY <1>4, <1>5
  <2>2. Weight(f[e]) = i1 + k1 /\ Weight(g[e]) = i2 + k2
    BY <1>2
  <2>3. Count(f, 1 .. n) = A + C /\ Count(g, 1 .. n) = B + D
    BY <1>3
  <2> HIDE DEF i1, i2, k1, k2, A, B, C, D
  <2>4. (A + C) + (i2 + k2) = (B + D) + (i1 + k1)
    BY <2>1
  <2> QED
    BY <2>2, <2>3, <2>4
<1>7. Count(f, 1 .. n) \in Nat /\ Count(g, 1 .. n) \in Nat
  BY <1>3, <1>4, <1>5
<1> QED
  BY <1>4, <1>5, <1>6, <1>7 DEF busy1, busy2, blocked1, blocked2

\* The sizes of these sets are numbers.
LEMMA CountNat ==
    ASSUME NEW n \in Nat, NEW f
    PROVE  /\ Cardinality({i \in 1 .. n : f[i].at # "idle"}) \in Nat
           /\ Cardinality({i \in 1 .. n : f[i].at = "blocked"}) \in Nat
           /\ Count(f, 1 .. n) \in Nat
<1>1. IsFiniteSet(1 .. n)
  BY FS_Interval
<1>2. /\ Cardinality({i \in 1 .. n : f[i].at # "idle"}) \in Nat
      /\ Cardinality({i \in 1 .. n : f[i].at = "blocked"}) \in Nat
  BY <1>1, FS_Subset, FS_CardinalityType
<1> QED
  BY <1>2 DEF Count

\* Counted as a sum of the two tables.
LEMMA CountedIsCount ==
    /\ Counted <=> waitGroup = Count(pool, Worker) + Count(ticks, Tick) + MainWeight
    /\ Counted' <=> waitGroup' = Count(pool', Worker) + Count(ticks', Tick) + MainWeight'
<1>1. NumOfWorkers \in Nat /\ MaxTicks \in Nat
  BY Bounds
<1>2. \A f : /\ Cardinality({i \in Worker : f[i].at # "idle"}) \in Nat
             /\ Cardinality({i \in Worker : f[i].at = "blocked"}) \in Nat
  BY <1>1, CountNat DEF Worker
<1>3. \A f : /\ Cardinality({i \in Tick : f[i].at # "idle"}) \in Nat
             /\ Cardinality({i \in Tick : f[i].at = "blocked"}) \in Nat
  BY <1>1, CountNat DEF Tick
<1> QED
  BY <1>2, <1>3 DEF Counted, Count, MainWeight

\* The sum of the wait group, when a task, a goroutine of NextTick and the subtask weigh
\* as much as b, d and m before the step and as c, e and n after it.
LEMMA SumChange ==
    ASSUME NEW wg \in Int, NEW wgNext \in Int, NEW p \in Int, NEW pNext \in Int,
           NEW t \in Int, NEW tNext \in Int, NEW b \in Int, NEW c \in Int,
           NEW d \in Int, NEW e \in Int, NEW m \in Int, NEW n \in Int,
           p + c = pNext + b, t + e = tNext + d, wg = p + t + m,
           wgNext + b + d + m = wg + c + e + n
    PROVE  wgNext = pNext + tNext + n
  OBVIOUS

\* A step that changes at most one task and at most one goroutine of NextTick.
LEMMA CountedChange ==
    ASSUME TypeInv, Counted, NEW w \in Worker, NEW g \in Tick,
           \A v \in Worker : v # w => pool'[v] = pool[v],
           \A h \in Tick : h # g => ticks'[h] = ticks[h],
           waitGroup' + Weight(pool[w]) + Weight(ticks[g]) + MainWeight
              = waitGroup + Weight(pool'[w]) + Weight(ticks'[g]) + MainWeight',
           waitGroup' \in Int
    PROVE  Counted' /\ waitGroup' \in Nat
<1>1. NumOfWorkers \in Nat /\ MaxTicks \in Nat
  BY Bounds
<1>2. /\ \A h \in {pool, pool'} : /\ Cardinality({i \in Worker : h[i].at # "idle"}) \in Nat
                                   /\ Cardinality({i \in Worker : h[i].at = "blocked"}) \in Nat
                                   /\ Count(h, Worker) \in Nat
      /\ Count(pool, Worker) + Weight(pool'[w]) = Count(pool', Worker) + Weight(pool[w])
  BY <1>1, CountChange DEF Worker
<1>3. /\ \A h \in {ticks, ticks'} : /\ Cardinality({i \in Tick : h[i].at # "idle"}) \in Nat
                                     /\ Cardinality({i \in Tick : h[i].at = "blocked"}) \in Nat
                                     /\ Count(h, Tick) \in Nat
      /\ Count(ticks, Tick) + Weight(ticks'[g]) = Count(ticks', Tick) + Weight(ticks[g])
  BY <1>1, CountChange DEF Tick
<1>4. waitGroup = Count(pool, Worker) + Count(ticks, Tick) + MainWeight
  BY <1>2, <1>3 DEF Counted, Count, MainWeight
<1>5. \A t : Weight(t) \in Nat
  BY DEF Weight
<1>6. MainWeight \in Nat /\ MainWeight' \in Nat
  BY DEF MainWeight
<1>7. waitGroup' = Count(pool', Worker) + Count(ticks', Tick) + MainWeight'
  <2> DEFINE p == Count(pool, Worker)
             pNext == Count(pool', Worker)
             t == Count(ticks, Tick)
             tNext == Count(ticks', Tick)
             b == Weight(pool[w])
             c == Weight(pool'[w])
             d == Weight(ticks[g])
             e == Weight(ticks'[g])
             m == MainWeight
             n == MainWeight'
             wg == waitGroup
             wgNext == waitGroup'
  <2>1. p \in Int /\ pNext \in Int /\ p + c = pNext + b
    BY <1>2
  <2>2. t \in Int /\ tNext \in Int /\ t + e = tNext + d
    BY <1>3
  <2>3. b \in Int /\ c \in Int /\ d \in Int /\ e \in Int /\ m \in Int /\ n \in Int
    BY <1>5, <1>6
  <2>4. wg = p + t + m /\ wgNext \in Int
    BY <1>4
  <2>5. wgNext + b + d + m = wg + c + e + n
    OBVIOUS
  <2> HIDE DEF p, pNext, t, tNext, b, c, d, e, m, n, wg, wgNext
  <2>6. wg \in Int
    BY <2>1, <2>2, <2>3, <2>4
  <2>7. wgNext = pNext + tNext + n
    BY <2>1, <2>2, <2>3, <2>4, <2>5, <2>6, SumChange
  <2> QED
    BY <2>7 DEF p, pNext, t, tNext, n, wgNext
<1>8. Counted'
  BY <1>2, <1>3, <1>7 DEF Counted, Count, MainWeight
<1> QED
  BY <1>2, <1>3, <1>6, <1>7, <1>8

\* Every step counts: a task and a goroutine when they start, a submission when
\* it blocks, and each of them once when it ends.
LEMMA CountedNext ==
    ASSUME TypeInv, Counted, [Next]_vars
    PROVE  Counted' /\ waitGroup' \in Nat
<1>0. /\ pool \in [Worker -> WorkerState] /\ ticks \in [Tick -> TickState]
      /\ waitGroup \in Nat /\ 1 \in Worker /\ 1 \in Tick
      /\ waitGroup + 1 \in Int /\ waitGroup - 1 \in Int /\ waitGroup \in Int
  <2>1. /\ pool \in [Worker -> WorkerState] /\ ticks \in [Tick -> TickState]
        /\ waitGroup \in Nat
    BY SchedulerTypes DEF TypeInv, TypeOK
  <2>2. 1 \in Worker /\ 1 \in Tick
    BY SchedulerAssumption DEF Worker, Tick
  <2> QED
    BY <2>1, <2>2
<1> DEFINE Goal == Counted' /\ waitGroup' \in Nat
<1>w. /\ \A t : Weight(t) \in Nat
      /\ \A t : t.at = "idle" => Weight(t) = 0
      /\ \A t : t.at = "blocked" => Weight(t) = 2
      /\ \A t : t.at \in {"begin", "armed", "check"} => Weight(t) = 1
      /\ Weight(IdleWorker) = 0 /\ Weight(IdleTick) = 0
      /\ \A r : Weight(Submitted(r)) = 1
      /\ \A r, l : Weight([at |-> "check", r |-> r, last |-> l]) = 1
      /\ MainWeight \in Nat
  BY DEF Weight, IdleWorker, IdleTick, Submitted, MainWeight
<1>m. main'.at = main.at => MainWeight' = MainWeight
  BY DEF MainWeight
<1>1. ASSUME UNCHANGED <<pool, ticks>>, waitGroup' \in Int,
             waitGroup' + MainWeight = waitGroup + MainWeight'
      PROVE  Goal
  <2>1. \A v \in Worker : pool'[v] = pool[v]
    BY <1>1
  <2>2. \A h \in Tick : ticks'[h] = ticks[h]
    BY <1>1
  <2>3. MainWeight' \in Nat
    BY DEF MainWeight
  <2>4. waitGroup' + Weight(pool[1]) + Weight(ticks[1]) + MainWeight
              = waitGroup + Weight(pool'[1]) + Weight(ticks'[1]) + MainWeight'
    BY <1>0, <1>w, <1>1, <2>1, <2>2, <2>3
  <2> QED
    BY <1>0, <1>1, <2>1, <2>2, <2>4, CountedChange
<1>2. ASSUME NEW w \in Worker, NEW t, pool' = [pool EXCEPT ![w] = t],
             UNCHANGED ticks, waitGroup' \in Int,
             waitGroup' + Weight(pool[w]) + MainWeight = waitGroup + Weight(t) + MainWeight'
      PROVE  Goal
  <2>1. pool'[w] = t /\ \A v \in Worker : v # w => pool'[v] = pool[v]
    BY <1>0, <1>2, PoolChange
  <2>2. \A h \in Tick : ticks'[h] = ticks[h]
    BY <1>2
  <2>3. MainWeight' \in Nat
    BY DEF MainWeight
  <2>4. waitGroup' + Weight(pool[w]) + Weight(ticks[1]) + MainWeight
              = waitGroup + Weight(pool'[w]) + Weight(ticks'[1]) + MainWeight'
    BY <1>0, <1>w, <1>2, <2>1, <2>2, <2>3
  <2> QED
    BY <1>0, <1>2, <2>1, <2>2, <2>4, CountedChange
<1>3. ASSUME NEW g \in Tick, NEW t, ticks' = [ticks EXCEPT ![g] = t],
             UNCHANGED pool, waitGroup' \in Int, MainWeight' = MainWeight,
             waitGroup' + Weight(ticks[g]) = waitGroup + Weight(t)
      PROVE  Goal
  <2>1. ticks'[g] = t /\ \A h \in Tick : h # g => ticks'[h] = ticks[h]
    BY <1>0, <1>3, TickChange
  <2>2. \A v \in Worker : pool'[v] = pool[v]
    BY <1>3
  <2>4. waitGroup' + Weight(pool[1]) + Weight(ticks[g]) + MainWeight
              = waitGroup + Weight(pool'[1]) + Weight(ticks'[g]) + MainWeight'
    BY <1>0, <1>w, <1>3, <2>1, <2>2
  <2> QED
    BY <1>0, <1>3, <2>1, <2>2, <2>4, CountedChange
<1>4. ASSUME NEW w \in Worker, NEW g \in Tick, NEW t, NEW u,
             pool' = [pool EXCEPT ![w] = t], ticks' = [ticks EXCEPT ![g] = u],
             waitGroup' \in Int, MainWeight' = MainWeight,
             waitGroup' + Weight(pool[w]) + Weight(ticks[g]) = waitGroup + Weight(t) + Weight(u)
      PROVE  Goal
  <2>1. pool'[w] = t /\ \A v \in Worker : v # w => pool'[v] = pool[v]
    BY <1>0, <1>4, PoolChange
  <2>2. ticks'[g] = u /\ \A h \in Tick : h # g => ticks'[h] = ticks[h]
    BY <1>0, <1>4, TickChange
  <2>4. waitGroup' + Weight(pool[w]) + Weight(ticks[g]) + MainWeight
              = waitGroup + Weight(pool'[w]) + Weight(ticks'[g]) + MainWeight'
    BY <1>0, <1>w, <1>4, <2>1, <2>2
  <2> QED
    BY <1>0, <1>4, <2>1, <2>2, <2>4, CountedChange
<1>5. CASE NextInput \/ FetchFails \/ LoopEnds \/ MainWaits \/ MainReturns
  <2>1. UNCHANGED <<pool, ticks>> /\ UNCHANGED waitGroup
    BY <1>5 DEF NextInput, FetchFails, LoopEnds, MainWaits, MainReturns, Stays
  <2>2. main.at # "blocked" /\ main'.at # "blocked"
    BY <1>5 DEF NextInput, FetchFails, LoopEnds, MainWaits, MainReturns, Execute, TypeInv, TypeOK
  <2>3. MainWeight = 0 /\ MainWeight' = 0
    BY <2>2 DEF MainWeight
  <2> QED
    BY <1>0, <1>1, <2>1, <2>3
<1>6. CASE MainChecks
  <2>1. UNCHANGED <<pool, ticks>> /\ main.at = "submit" /\ MainWeight = 0
    BY <1>6 DEF MainChecks, Stays, MainWeight
  <2>2. CASE main'.at = "loop" /\ UNCHANGED waitGroup
    BY <1>0, <1>1, <2>1, <2>2 DEF MainWeight
  <2>3. CASE main'.at = "blocked" /\ waitGroup' = waitGroup + 1
    BY <1>0, <1>1, <2>1, <2>3 DEF MainWeight
  <2> QED
    BY <1>6, <2>2, <2>3 DEF MainChecks, TypeInv, TypeOK
<1>7. CASE MainSubmits
  <2>1. /\ UNCHANGED ticks /\ UNCHANGED waitGroup
        /\ main.at = "blocked" /\ main'.at = "loop" /\ main.r \in Request
    BY <1>7 DEF MainSubmits, TypeInv, TypeOK
  <2>2. PICK w \in Worker : pool[w].at = "idle" /\ pool' = [pool EXCEPT ![w] = Submitted(main.r)]
    BY <1>7 DEF MainSubmits, Takes
  <2>4. MainWeight = 1 /\ MainWeight' = 0
    BY <2>1 DEF MainWeight
  <2>5. waitGroup' + Weight(pool[w]) + MainWeight
           = waitGroup + Weight(Submitted(main.r)) + MainWeight'
    BY <1>0, <1>w, <2>1, <2>2, <2>4
  <2> QED
    BY <1>0, <1>2, <2>1, <2>2, <2>5
<1>8. CASE MainStartsChain
  <2>1. /\ UNCHANGED pool /\ waitGroup' = waitGroup + 1 /\ main.at = "chains"
        /\ main'.at \in {"loop", "chains"}
    BY <1>8 DEF MainStartsChain, Stays, TypeInv, TypeOK
  <2> DEFINE t(r) == [at |-> "check", r |-> r, last |-> r.page]
  <2>2. PICK g \in Tick, r \in {[main.r EXCEPT !.page = ChainsPerInput + 1 - chains]} :
            ticks[g].at = "idle" /\ ticks' = [ticks EXCEPT ![g] = t(r)]
    BY <1>8 DEF MainStartsChain, Starts, ChainsPerInput
  <2>3. MainWeight' = MainWeight
    BY <2>1 DEF MainWeight
  <2>4. waitGroup' \in Int /\ waitGroup' + Weight(ticks[g]) = waitGroup + Weight(t(r))
    BY <1>0, <1>w, <2>1, <2>2
  <2> HIDE DEF t
  <2> QED
    BY <1>3, <2>1, <2>2, <2>3, <2>4
<1>9. ASSUME NEW w \in Worker, TaskBegins(w), Others PROVE Goal
  <2>1. UNCHANGED ticks /\ pool[w].at = "begin" /\ MainWeight' = MainWeight
    BY <1>9, <1>m DEF TaskBegins, Others
  <2>2. CASE pool' = [pool EXCEPT ![w] = IdleWorker] /\ waitGroup' = waitGroup - 1
    <3>1. waitGroup' + Weight(pool[w]) + MainWeight = waitGroup + Weight(IdleWorker) + MainWeight'
      BY <1>0, <1>w, <2>1, <2>2
    <3> QED
      BY <1>0, <1>2, <2>1, <2>2, <3>1
  <2>3. CASE pool' = [pool EXCEPT ![w].at = "armed"] /\ UNCHANGED waitGroup
    <3> DEFINE t == [pool[w] EXCEPT !.at = "armed"]
    <3>1. pool' = [pool EXCEPT ![w] = t]
      BY <2>3
    <3>2. t.at = "armed"
      BY <1>0, <2>1 DEF WorkerState, IdleWorker
    <3> HIDE DEF t
    <3>3. waitGroup' + Weight(pool[w]) + MainWeight = waitGroup + Weight(t) + MainWeight'
      BY <1>0, <1>w, <2>1, <2>3, <3>2
    <3> QED
      BY <1>0, <1>2, <2>1, <2>3, <3>1, <3>3
  <2> QED
    BY <1>9, <2>2, <2>3 DEF TaskBegins, Returns
<1>10. ASSUME NEW w \in Worker, pool' = [pool EXCEPT ![w] = IdleWorker], waitGroup' = waitGroup - 1,
              pool[w].at = "armed", UNCHANGED ticks, UNCHANGED main
       PROVE  Goal
  <2>1. MainWeight' = MainWeight
    BY <1>10, <1>m
  <2>2. waitGroup' + Weight(pool[w]) + MainWeight = waitGroup + Weight(IdleWorker) + MainWeight'
    BY <1>0, <1>w, <1>10, <2>1
  <2> QED
    BY <1>0, <1>2, <1>10, <2>2
<1>11. ASSUME NEW w \in Worker, NEW r, NEW l, ReturnsWithTick(w, r, l),
              pool[w].at = "armed", UNCHANGED main
       PROVE  Goal
  <2> DEFINE u == [at |-> "check", r |-> r, last |-> l]
  <2>1. PICK g \in Tick : ticks[g].at = "idle" /\ ticks' = [ticks EXCEPT ![g] = u]
    BY <1>11 DEF ReturnsWithTick, Starts
  <2>2. UNCHANGED waitGroup /\ pool' = [pool EXCEPT ![w] = IdleWorker]
    BY <1>11 DEF ReturnsWithTick
  <2>3. MainWeight' = MainWeight
    BY <1>11, <1>m
  <2>4. waitGroup' \in Int /\ waitGroup' + Weight(pool[w]) + Weight(ticks[g]) = waitGroup + Weight(IdleWorker) + Weight(u)
    BY <1>0, <1>w, <1>11, <2>1, <2>2
  <2> HIDE DEF u
  <2> QED
    BY <1>4, <2>1, <2>2, <2>3, <2>4
<1>12. ASSUME NEW w \in Worker, TaskIsCanceled(w) \/ HandlerFails(w) \/ RequestIgnored(w),
              UNCHANGED main
       PROVE  Goal
  <2>1. /\ pool' = [pool EXCEPT ![w] = IdleWorker] /\ waitGroup' = waitGroup - 1
        /\ pool[w].at = "armed" /\ UNCHANGED ticks
    BY <1>12 DEF TaskIsCanceled, HandlerFails, RequestIgnored, Panics, Returns
  <2> QED
    BY <1>10, <1>12, <2>1
<1>13. ASSUME NEW w \in Worker, RequestFails(w) PROVE Goal
  <2>1. pool[w].at = "armed" /\ UNCHANGED main
    BY <1>13 DEF RequestFails, Spectates
  <2>2. CASE Retry(w)
    BY <1>11, <2>1, <2>2 DEF Retry
  <2>3. CASE /\ pool' = [pool EXCEPT ![w] = IdleWorker] /\ waitGroup' = waitGroup - 1
             /\ UNCHANGED ticks
    BY <1>10, <2>1, <2>3
  <2> QED
    BY <1>13, <2>2, <2>3 DEF RequestFails, Panics
<1>14. ASSUME NEW w \in Worker, HandlerStores(w) PROVE Goal
  <2>1. pool[w].at = "armed" /\ UNCHANGED main
    BY <1>14 DEF HandlerStores, Spectates
  <2>2. CASE Returns(w) /\ UNCHANGED ticks
    BY <1>10, <2>1, <2>2 DEF Returns
  <2>3. CASE ReturnsWithTick(w, Successor(pool[w].r),
                 IF mode = "determined" THEN Pages[pool[w].r.x] ELSE Successor(pool[w].r).page)
    <3> DEFINE q == Successor(pool[w].r)
               l == IF mode = "determined" THEN Pages[pool[w].r.x] ELSE Successor(pool[w].r).page
    <3>1. ReturnsWithTick(w, q, l)
      BY <2>3
    <3> HIDE DEF q, l
    <3> QED
      BY <1>11, <2>1, <3>1
  <2>4. CASE /\ pool' = [pool EXCEPT ![w].at = "blocked"]
             /\ waitGroup' = waitGroup + 1 /\ UNCHANGED ticks
    <3> DEFINE t == [pool[w] EXCEPT !.at = "blocked"]
    <3>1. pool' = [pool EXCEPT ![w] = t]
      BY <2>4
    <3>2. t.at = "blocked" /\ MainWeight' = MainWeight
      BY <1>0, <1>m, <2>1 DEF WorkerState, IdleWorker
    <3> HIDE DEF t
    <3>3. waitGroup' + Weight(pool[w]) + MainWeight = waitGroup + Weight(t) + MainWeight'
      BY <1>0, <1>w, <2>1, <2>4, <3>2
    <3> QED
      BY <1>0, <1>2, <2>1, <2>4, <3>1, <3>3
  <2> QED
    BY <1>14, <2>2, <2>3, <2>4 DEF HandlerStores
<1>15. ASSUME NEW w \in Worker, NestedSubmits(w, Successor(pool[w].r)), Others PROVE Goal
  <2> DEFINE t == Submitted(Successor(pool[w].r))
  <2>1. /\ pool[w].at = "blocked" /\ UNCHANGED ticks /\ waitGroup' = waitGroup - 1
        /\ MainWeight' = MainWeight
    BY <1>15, <1>m DEF NestedSubmits, Others
  <2>2. PICK v \in Worker : /\ pool[v].at = "idle"
                            /\ pool' = [pool EXCEPT ![v] = t, ![w] = IdleWorker]
    BY <1>15 DEF NestedSubmits, Takes
  <2>3. Weight(t) = 1
    BY <1>w
  <2> HIDE DEF t
  <2> DEFINE mid == [pool EXCEPT ![v] = t]
  <2>4. /\ mid[v] = t /\ mid[w] = pool[w] /\ pool'[w] = IdleWorker
        /\ \A i \in Worker : i # v => mid[i] = pool[i]
        /\ \A i \in Worker : i # w => pool'[i] = mid[i]
    BY <1>0, <2>1, <2>2
  <2> HIDE DEF mid
  <2>5. NumOfWorkers \in Nat /\ MaxTicks \in Nat
    BY Bounds
  <2>6. /\ Count(pool, Worker) \in Nat
        /\ Count(pool, Worker) + Weight(t) = Count(mid, Worker) + Weight(pool[v])
    BY <2>4, <2>5, CountChange DEF Worker
  <2>7. /\ Count(mid, Worker) \in Nat /\ Count(pool', Worker) \in Nat
        /\ Count(mid, Worker) + Weight(IdleWorker) = Count(pool', Worker) + Weight(pool[w])
    <3>1. Count(mid, Worker) + Weight(pool'[w]) = Count(pool', Worker) + Weight(mid[w])
      BY <2>4, <2>5, CountChange DEF Worker
    <3> QED
      BY <2>4, <2>5, <3>1, CountNat DEF Worker
  <2>8. waitGroup = Count(pool, Worker) + Count(ticks, Tick) + MainWeight
    BY CountedIsCount
  <2>9. Count(ticks', Tick) = Count(ticks, Tick) /\ Count(ticks, Tick) \in Nat
    BY <2>1, <2>5, CountNat DEF Tick
  <2>10. waitGroup' = Count(pool', Worker) + Count(ticks', Tick) + MainWeight'
    BY <1>w, <2>1, <2>2, <2>3, <2>6, <2>7, <2>8, <2>9
  <2>11. Counted'
    BY <2>10, CountedIsCount
  <2>12. waitGroup' \in Nat
    BY <1>w, <2>1, <2>7, <2>9, <2>10
  <2> QED
    BY <2>11, <2>12
<1>16. ASSUME NEW g \in Tick, TickChecks(g), Others PROVE Goal
  <2>1. ticks[g].at = "check" /\ UNCHANGED pool /\ MainWeight' = MainWeight
    BY <1>16, <1>m DEF TickChecks, Others
  <2>2. CASE ticks' = [ticks EXCEPT ![g] = IdleTick] /\ waitGroup' = waitGroup - 1
    <3>1. waitGroup' \in Int /\ waitGroup' + Weight(ticks[g]) = waitGroup + Weight(IdleTick)
      BY <1>0, <1>w, <2>1, <2>2
    <3> QED
      BY <1>3, <2>1, <2>2, <3>1
  <2>3. CASE ticks' = [ticks EXCEPT ![g].at = "blocked"] /\ waitGroup' = waitGroup + 1
    <3> DEFINE t == [ticks[g] EXCEPT !.at = "blocked"]
    <3>1. ticks' = [ticks EXCEPT ![g] = t]
      BY <2>3
    <3>2. t.at = "blocked"
      BY <1>0, <2>1 DEF TickState, IdleTick
    <3> HIDE DEF t
    <3>3. waitGroup' \in Int /\ waitGroup' + Weight(ticks[g]) = waitGroup + Weight(t)
      BY <1>0, <1>w, <2>1, <2>3, <3>2
    <3> QED
      BY <1>3, <2>1, <3>1, <3>3
  <2> QED
    BY <1>16, <2>2, <2>3 DEF TickChecks
<1>17. ASSUME NEW g \in Tick, TickSubmits(g), Others PROVE Goal
  <2>1. ticks[g].at = "blocked" /\ MainWeight' = MainWeight
    BY <1>17, <1>m DEF TickSubmits, Others
  <2> DEFINE t == Submitted(ticks[g].r)
  <2>2. PICK w \in Worker : pool[w].at = "idle" /\ pool' = [pool EXCEPT ![w] = t]
    BY <1>17 DEF TickSubmits, Takes
  <2>3. Weight(t) = 1
    BY <1>w
  <2> HIDE DEF t
  <2>4. CASE ticks' = [ticks EXCEPT ![g] = IdleTick] /\ waitGroup' = waitGroup - 1
    <3>1. waitGroup' \in Int /\ waitGroup' + Weight(pool[w]) + Weight(ticks[g]) = waitGroup + Weight(t) + Weight(IdleTick)
      BY <1>0, <1>w, <2>1, <2>2, <2>3, <2>4
    <3> QED
      BY <1>4, <2>1, <2>2, <2>4, <3>1
  <2>5. CASE /\ ticks' = [ticks EXCEPT ![g].at = "check", ![g].r.page = @ + 1]
             /\ UNCHANGED waitGroup
    <3> DEFINE u == [ticks[g] EXCEPT !.at = "check", !.r.page = @ + 1]
    <3>1. ticks' = [ticks EXCEPT ![g] = u]
      BY <2>5
    <3>2. u.at = "check"
      BY <1>0, <2>1 DEF TickState, IdleTick
    <3> HIDE DEF u
    <3>3. waitGroup' \in Int /\ waitGroup' + Weight(pool[w]) + Weight(ticks[g]) = waitGroup + Weight(t) + Weight(u)
      BY <1>0, <1>w, <2>1, <2>2, <2>3, <2>5, <3>2
    <3> QED
      BY <1>4, <2>1, <2>2, <3>1, <3>3
  <2> QED
    BY <1>17, <2>4, <2>5 DEF TickSubmits
<1>18. CASE RecordStep \/ CancelStep \/ UNCHANGED vars
  <2>1. UNCHANGED <<pool, ticks>> /\ UNCHANGED waitGroup /\ UNCHANGED main
    BY <1>18 DEF RecordStep, Record, CancelStep, Cancel, Others, vars, scheduler
  <2>2. MainWeight' = MainWeight
    BY <2>1, <1>m
  <2> QED
    BY <1>0, <1>1, <1>w, <2>1, <2>2
<1>19. \A w \in Worker : Others => UNCHANGED main
  BY DEF Others
<1>20. ASSUME NEW w \in Worker, WorkerStep(w) PROVE Goal
  <2>1. HandlerFails(w) \/ RequestIgnored(w) => UNCHANGED main
    BY DEF HandlerFails, RequestIgnored, Spectates
  <2> QED
    BY <1>9, <1>12, <1>13, <1>14, <1>15, <1>19, <1>20, <2>1 DEF WorkerStep
<1> QED
  BY <1>5, <1>6, <1>7, <1>8, <1>16, <1>17, <1>18, <1>20 DEF Next, MainStep, TickStep

\* No call of Add without its Done: nothing is under way.
LEMMA NothingCounted ==
    ASSUME TypeInv, Counted, waitGroup = 0
    PROVE  /\ \A w \in Worker : pool[w].at = "idle"
           /\ \A g \in Tick : ticks[g].at = "idle"
<1> DEFINE busy == {w \in Worker : pool[w].at # "idle"}
           active == {g \in Tick : ticks[g].at # "idle"}
           waiting == {w \in Worker : pool[w].at = "blocked"}
           blocked == {g \in Tick : ticks[g].at = "blocked"}
<1>1. NumOfWorkers \in Nat /\ MaxTicks \in Nat
  BY Bounds
<1>2. /\ Cardinality(busy) \in Nat /\ Cardinality(active) \in Nat
      /\ Cardinality(waiting) \in Nat /\ Cardinality(blocked) \in Nat
  BY <1>1, CountNat DEF Worker, Tick
<1>3. Cardinality(busy) = 0 /\ Cardinality(active) = 0
  <2>1. 0 = Cardinality(busy) + Cardinality(waiting) + Cardinality(active)
              + Cardinality(blocked) + MainWeight
    BY DEF Counted, MainWeight
  <2>2. MainWeight \in Nat
    BY DEF MainWeight
  <2>3. \A a, b, c, d, e \in Nat : 0 = a + b + c + d + e => a = 0 /\ c = 0
    OBVIOUS
  <2> HIDE DEF busy, active, waiting, blocked
  <2> QED
    BY <1>2, <2>1, <2>2, <2>3
<1>4. IsFiniteSet(busy) /\ IsFiniteSet(active)
  <2>1. IsFiniteSet(Worker) /\ IsFiniteSet(Tick)
    BY <1>1, FS_Interval DEF Worker, Tick
  <2> QED
    BY <2>1, FS_Subset
<1>5. busy = {} /\ active = {}
  BY <1>3, <1>4, FS_EmptySet
<1> QED
  BY <1>5

-----------------------------------------------------------------------------
\* Nothing is counted at first.
LEMMA CountedInit == Init => Counted
<1> SUFFICES ASSUME Init PROVE Counted
  OBVIOUS
<1>1. /\ \A w \in Worker : pool[w].at = "idle"
      /\ \A g \in Tick : ticks[g].at = "idle"
      /\ waitGroup = 0 /\ main.at = "loop"
  BY DEF Init, SchedulerInit, IdleWorker, IdleTick
<1>2. /\ {w \in Worker : pool[w].at # "idle"} = {} /\ {w \in Worker : pool[w].at = "blocked"} = {}
      /\ {g \in Tick : ticks[g].at # "idle"} = {} /\ {g \in Tick : ticks[g].at = "blocked"} = {}
  BY <1>1
<1>3. Cardinality({}) = 0
  BY FS_EmptySet
<1>4. waitGroup = 0 + 0 + 0 + 0 + 0
  BY <1>1
<1> QED
  BY <1>1, <1>2, <1>3, <1>4 DEF Counted

\* Types and counting are one invariant: neither is inductive alone.
LEMMA CollectorInvariant == Spec => [](TypeInv /\ Counted)
<1>1. Init => TypeInv /\ Counted
  BY TypeInit, CountedInit
<1>2. TypeInv /\ Counted /\ [Next]_vars => TypeInv' /\ Counted'
  BY CountedNext, TypeNext
<1> QED
  BY <1>1, <1>2, PTL DEF Spec

\* The collector's variables always have values of their types, and the pages
\* that are asked for stay within those that there are: no chain runs away.
THEOREM TypeCorrect == Spec => [](TypeOK /\ PagesBounded)
  BY CollectorInvariant, PTL DEF TypeInv

\* The wait group of the API client counts right: each Add without its Done is of
\* a task, a goroutine of NextTick or a blocked submission, whatever fails.
THEOREM WaitGroupCounts == Spec => []Counted
  BY CollectorInvariant, PTL

\* When Execute has waited and returned, with or without an error, no worker has
\* a task and no goroutine of NextTick is left to submit one.
THEOREM NothingIsLeftBehind == Spec => []NothingLeftBehind
<1>1. Init => NothingLeftBehind
  BY DEF Init, NothingLeftBehind, Returned
<1>2. TypeInv /\ Counted /\ NothingLeftBehind /\ [Next]_vars => NothingLeftBehind'
  <2> SUFFICES ASSUME TypeInv, Counted, NothingLeftBehind, [Next]_vars, Returned'
               PROVE  /\ \A w \in Worker : pool'[w].at = "idle"
                      /\ \A g \in Tick : ticks'[g].at = "idle"
    BY DEF NothingLeftBehind
  <2>1. CASE MainWaits \/ MainReturns
    <3>1. waitGroup = 0 /\ UNCHANGED <<pool, ticks>>
      BY <2>1 DEF MainWaits, MainReturns, Waited, Stays
    <3> QED
      BY <3>1, NothingCounted
  <2>2. ASSUME UNCHANGED main PROVE Returned /\ NothingLeftBehind
    BY <2>2 DEF Returned
  <2>3. CASE RecordStep \/ CancelStep \/ UNCHANGED vars
    <3>1. UNCHANGED <<pool, ticks>> /\ UNCHANGED main
      BY <2>3 DEF RecordStep, Record, CancelStep, Cancel, Others, vars, scheduler
    <3> QED
      BY <2>2, <3>1 DEF NothingLeftBehind
  <2>4. ASSUME NEW w \in Worker, WorkerStep(w) PROVE FALSE
    <3>1. UNCHANGED main /\ pool[w].at # "idle"
      BY <2>4 DEF WorkerStep, TaskBegins, TaskIsCanceled, NestedSubmits, RequestFails,
                  RequestIgnored, HandlerFails, HandlerStores, Others, Spectates
    <3> QED
      BY <2>2, <3>1 DEF NothingLeftBehind
  <2>5. ASSUME NEW g \in Tick, TickStep(g) PROVE FALSE
    <3>1. UNCHANGED main /\ ticks[g].at # "idle"
      BY <2>5 DEF TickStep, TickChecks, TickSubmits, Others
    <3> QED
      BY <2>2, <3>1 DEF NothingLeftBehind
  <2>6. ~(NextInput \/ FetchFails \/ LoopEnds \/ MainChecks \/ MainSubmits \/ MainStartsChain)
    BY DEF NextInput, FetchFails, LoopEnds, MainChecks, MainSubmits, MainStartsChain,
           Returned, Execute, TypeInv, TypeOK
  <2> QED
    BY <2>1, <2>3, <2>4, <2>5, <2>6 DEF Next, MainStep
<1> QED
  BY <1>1, <1>2, CollectorInvariant, PTL DEF Spec

-----------------------------------------------------------------------------
(* The pages.  At any time each page of each input is due at one place at   *)
(* most: at the iterator, at the subtask, at a worker, at a goroutine of    *)
(* NextTick, or it is in the raw table.  A page is due where the request    *)
(* stands that it will come with, itself or through those that follow it.   *)

\* The request of page p brings page q of its input, when pages are asked for in
\* this way: itself, or with a request that follows.
Brings(m, p, q) ==
    CASE m = "single" -> q = p
      [] m = "sequential" -> q >= p
      [] m = "determined" -> p = 1 \/ q = p
      [] OTHER -> \E k \in 0 .. q : q = p + k * Concurrency

Future(m, x, p) == {q \in 1 .. Pages[x] : Brings(m, p, q)}

FutureOf(m, x, ps) == UNION {Future(m, x, p) : p \in ps}

Wanted(m, x) == 1 .. (IF m = "single" THEN 1 ELSE Pages[x])

NextPage(m, p) == p + (IF m = "undetermined" THEN Concurrency ELSE 1)

\* The pages of input x that are due at a task, at a goroutine of NextTick, at the
\* subtask with c chains to start, at the iterator, and that are in the table.
TaskDue(m, t, x) ==
    IF t.at = "idle" \/ t.r.x # x THEN {}
    ELSE Future(m, x, IF t.at = "blocked" THEN NextPage(m, t.r.page) ELSE t.r.page)

GoroutineDue(m, t, x) ==
    IF t.at = "idle" \/ t.r.x # x THEN {} ELSE FutureOf(m, x, t.r.page .. t.last)

ChainsOf(m) == IF m = "sequential" THEN 1 ELSE Concurrency

SubtaskDue(m, s, c, x) ==
    CASE s.at \in {"submit", "blocked"} /\ s.r.x = x -> Future(m, x, 1)
      [] s.at = "chains" /\ s.r.x = x -> FutureOf(m, x, ChainsOf(m) + 1 - c .. ChainsOf(m))
      [] OTHER -> {}

IteratorDue(m, td, x) == IF x \in td THEN Wanted(m, x) ELSE {}

TableHas(rw, x) == {q \in 1 .. Pages[x] : rw[x][q] # 0}

\* The places, and the pages of input x at each of them.
Place == ({"worker"} \X Worker) \cup ({"goroutine"} \X Tick)
            \cup {<<"subtask", 0>>, <<"iterator", 0>>, <<"table", 0>>}

Due(a, x) ==
    CASE a[1] = "worker" -> TaskDue(mode, pool[a[2]], x)
      [] a[1] = "goroutine" -> GoroutineDue(mode, ticks[a[2]], x)
      [] a[1] = "subtask" -> SubtaskDue(mode, main, chains, x)
      [] a[1] = "iterator" -> IteratorDue(mode, todo, x)
      [] OTHER -> TableHas(rows, x)

Failed == HasError \/ unrecorded # {}

\* No page is due at two places; and none is lost, unless a task failed or the
\* input had an ignored response.
OnePlaceEach(x) == \A a, b \in Place : a # b => Due(a, x) \cap Due(b, x) = {}

NoneLost(x) ==
    \/ Failed \/ x \in ignored
    \/ \A q \in Wanted(mode, x) : \E a \in Place : q \in Due(a, x)

\* A goroutine has more pages than one only after the first of a determined number.
PagesLeft ==
    \A g \in Tick : ticks[g].at # "idle" =>
        ticks[g].r.page = ticks[g].last \/ (mode = "determined" /\ ticks[g].r.page >= 2)

\* Execute waits when the iterator has given all, or when there is an error.
AllGiven == main.at \in {"wait", "final"} \/ Returned => todo = {} \/ HasError

PagesInv ==
    /\ \A x \in Inputs : OnePlaceEach(x)
    /\ \A x \in asked : NoneLost(x)
    /\ StoredOnce
    /\ PagesLeft
    /\ AllGiven

-----------------------------------------------------------------------------
(* What requests bring.                                                     *)

\* The pages of an input fall into as many chains as there are.
LEMMA ChainsCover ==
    ASSUME NEW q \in Nat \ {0}
    PROVE  \E i \in 1 .. Concurrency : \E k \in 0 .. q : q = i + k * Concurrency
<1> DEFINE C == Concurrency
<1>1. C \in Nat \ {0}
  BY CollectorAssumption
<1> HIDE DEF C
<1>2. q - 1 = C * ((q - 1) \div C) + ((q - 1) % C)
  BY <1>1
<1>3. (q - 1) % C \in 0 .. C - 1 /\ (q - 1) \div C \in Nat
  BY <1>1
<1> DEFINE i == ((q - 1) % C) + 1
           k == (q - 1) \div C
<1>4. i \in 1 .. C /\ k \in Nat /\ q = i + k * C
  BY <1>1, <1>2, <1>3
<1> HIDE DEF i, k
<1>5. k * C >= k
  BY <1>1, <1>4
<1>6. k \in 0 .. q
  BY <1>1, <1>4, <1>5
<1>7. \E j \in 1 .. C : \E l \in 0 .. q : q = j + l * C
  BY <1>4, <1>6
<1> QED
  BY <1>7 DEF C

\* A page is in one chain only.
LEMMA ChainsDistinct ==
    ASSUME NEW i \in 1 .. Concurrency, NEW j \in 1 .. Concurrency,
           NEW k \in Nat, NEW l \in Nat,
           i + k * Concurrency = j + l * Concurrency
    PROVE  i = j
<1> DEFINE C == Concurrency
<1>0. C \in Nat \ {0} /\ i \in 1 .. C /\ j \in 1 .. C /\ i + k * C = j + l * C
  BY CollectorAssumption
<1> HIDE DEF C
<1>1. \A m \in Nat \ {0} : m * C >= C
  BY <1>0
<1>2. i - j = (l - k) * C
  BY <1>0
<1>3. CASE l > k
  BY <1>0, <1>1, <1>2, <1>3
<1>4. CASE k > l
  <2>1. j - i = (k - l) * C
    BY <1>0
  <2> QED
    BY <1>0, <1>1, <2>1, <1>4
<1>5. CASE k = l
  BY <1>0, <1>2, <1>5
<1> QED
  BY <1>3, <1>4, <1>5

\* A chain is its first page and the chain that begins Concurrency pages later.
LEMMA ChainSteps ==
    ASSUME NEW p \in Nat \ {0}, NEW q \in Nat \ {0}
    PROVE  /\ (\E k \in 0 .. q : q = p + k * Concurrency)
                <=> q = p \/ \E k \in 0 .. q : q = (p + Concurrency) + k * Concurrency
           /\ (\E k \in 0 .. q : q = p + k * Concurrency) => q >= p
           /\ (\E k \in 0 .. q : q = (p + Concurrency) + k * Concurrency) => q # p
<1> DEFINE C == Concurrency
<1>0. C \in Nat \ {0}
  BY CollectorAssumption
<1> HIDE DEF C
<1>1. ASSUME NEW k \in 0 .. q, q = p + k * C
      PROVE  q = p \/ \E l \in 0 .. q : q = (p + C) + l * C
  <2>1. CASE k = 0
    BY <1>0, <1>1, <2>1
  <2>2. CASE k # 0
    <3>1. k - 1 \in 0 .. q /\ q = (p + C) + (k - 1) * C
      BY <1>0, <1>1, <2>2
    <3> QED
      BY <3>1
  <2> QED
    BY <2>1, <2>2
<1>2. ASSUME q = p PROVE \E k \in 0 .. q : q = p + k * C
  <2>1. 0 \in 0 .. q /\ q = p + 0 * C
    BY <1>0, <1>2
  <2> QED
    BY <2>1
<1>3. ASSUME NEW k \in 0 .. q, q = (p + C) + k * C
      PROVE  q # p /\ \E l \in 0 .. q : q = p + l * C
  <2>1. q = p + (k + 1) * C
    BY <1>0, <1>3
  <2>2. k * C >= k
    BY <1>0
  <2>3. k + 1 \in 0 .. q /\ q # p
    BY <1>0, <1>3, <2>2
  <2> QED
    BY <2>1, <2>3
<1>4. ASSUME NEW k \in 0 .. q, q = p + k * C PROVE q >= p
  <2>1. k * C >= 0
    BY <1>0
  <2> QED
    BY <1>0, <1>4, <2>1
<1>5. /\ (\E k \in 0 .. q : q = p + k * C)
                <=> q = p \/ \E k \in 0 .. q : q = (p + C) + k * C
      /\ (\E k \in 0 .. q : q = p + k * C) => q >= p
      /\ (\E k \in 0 .. q : q = (p + C) + k * C) => q # p
  BY <1>1, <1>2, <1>3, <1>4
<1> QED
  BY <1>5 DEF C

Kinds == {"single", "sequential", "determined", "undetermined"}

\* A first page brings what is wanted of its input: by itself, or by its chains.
LEMMA FirstBrings ==
    ASSUME NEW m \in Kinds, NEW x \in Inputs
    PROVE  /\ m \in {"single", "determined"} => Future(m, x, 1) = Wanted(m, x)
           /\ m \in {"sequential", "undetermined"} =>
                 FutureOf(m, x, 1 .. ChainsOf(m)) = Wanted(m, x)
<1>1. Pages[x] \in Nat \ {0}
  BY CollectorAssumption
<1>2. CASE m \in {"single", "determined"}
  BY <1>1, <1>2 DEF Future, Wanted, Brings
<1>3. CASE m = "sequential"
  <2>1. FutureOf(m, x, 1 .. 1) = Future(m, x, 1)
    <3>1. 1 .. 1 = {1}
      OBVIOUS
    <3> QED
      BY <3>1 DEF FutureOf
  <2>2. Future(m, x, 1) = 1 .. Pages[x]
    BY <1>1, <1>3 DEF Future, Brings
  <2> QED
    BY <1>3, <2>1, <2>2 DEF Wanted, ChainsOf
<1>4. CASE m = "undetermined"
  <2>1. \A q \in 1 .. Pages[x] : \E p \in 1 .. Concurrency : Brings(m, p, q)
    BY <1>1, <1>4, ChainsCover DEF Brings
  <2>2. FutureOf(m, x, 1 .. Concurrency) = 1 .. Pages[x]
    BY <2>1 DEF FutureOf, Future
  <2> QED
    BY <1>4, <2>2 DEF Wanted, ChainsOf
<1> QED
  BY <1>2, <1>3, <1>4 DEF Kinds

\* A goroutine's first page and the rest of its pages.
LEMMA FutureSplits ==
    ASSUME NEW m, NEW x, NEW a \in Nat, NEW b \in Nat
    PROVE  /\ a <= b => FutureOf(m, x, a .. b) = Future(m, x, a) \cup FutureOf(m, x, a + 1 .. b)
           /\ a > b => FutureOf(m, x, a .. b) = {}
           /\ FutureOf(m, x, a .. a) = Future(m, x, a)
           /\ FutureOf(m, x, {}) = {}
<1>1. a <= b => a .. b = {a} \cup (a + 1 .. b)
  OBVIOUS
<1>2. a > b => a .. b = {}
  OBVIOUS
<1>3. a .. a = {a}
  OBVIOUS
<1> QED
  BY <1>1, <1>2, <1>3 DEF FutureOf

\* Chains, and the pages of a determined number, are distinct from each other.
LEMMA FutureDistinct ==
    ASSUME NEW m \in Kinds, NEW x \in Inputs, NEW a \in Nat \ {0}, NEW b \in Nat,
           \/ m = "determined" /\ a >= 2
           \/ m \in {"sequential", "undetermined"} /\ b <= ChainsOf(m)
    PROVE  Future(m, x, a) \cap FutureOf(m, x, a + 1 .. b) = {}
<1> SUFFICES ASSUME NEW c \in a + 1 .. b, NEW q \in 1 .. Pages[x],
                    Brings(m, a, q), Brings(m, c, q)
             PROVE  FALSE
  BY DEF FutureOf, Future
<1>1. q \in Nat \ {0} /\ c \in Nat /\ c # a
  BY CollectorAssumption
<1>2. CASE m = "determined" /\ a >= 2
  BY <1>1, <1>2 DEF Brings
<1>3. CASE m = "sequential" /\ b <= ChainsOf(m)
  BY <1>1, <1>3 DEF ChainsOf
<1>4. CASE m = "undetermined" /\ b <= ChainsOf(m)
  <2>1. a \in 1 .. Concurrency /\ c \in 1 .. Concurrency
    BY <1>1, <1>4, CollectorAssumption DEF ChainsOf
  <2>2. PICK k \in 0 .. q, l \in 0 .. q : q = a + k * Concurrency /\ q = c + l * Concurrency
    BY <1>4 DEF Brings
  <2>3. k \in Nat /\ l \in Nat
    BY <1>1, <2>2
  <2> QED
    BY <1>1, <2>1, <2>2, <2>3, ChainsDistinct
<1> QED
  BY <1>2, <1>3, <1>4 DEF Kinds

\* What the request of page p brings: its page, and what is asked for after it.
LEMMA FutureSteps ==
    ASSUME NEW m \in Kinds, NEW x \in Inputs, NEW p \in Nat \ {0}
    PROVE  /\ Future(m, x, p) \subseteq 1 .. Pages[x]
           /\ p <= Pages[x] => p \in Future(m, x, p)
           /\ m \in {"sequential", "undetermined"} =>
                 /\ Future(m, x, p) \subseteq {p} \cup Future(m, x, NextPage(m, p))
                 /\ Future(m, x, NextPage(m, p)) \subseteq Future(m, x, p) \ {p}
                 /\ p >= Pages[x] => Future(m, x, p) \subseteq {p}
           /\ m = "determined" =>
                 /\ p # 1 => Future(m, x, p) \subseteq {p}
                 /\ p = 1 => Future(m, x, p) = 1 .. Pages[x]
                 /\ FutureOf(m, x, 2 .. Pages[x]) = 2 .. Pages[x]
           /\ m = "single" => Future(m, x, p) \subseteq {p}
<1>1. Pages[x] \in Nat \ {0} /\ Concurrency \in Nat \ {0} /\ 0 \in 0 .. p
  BY CollectorAssumption
<1>2. Future(m, x, p) \subseteq 1 .. Pages[x]
  BY DEF Future
<1>3. p <= Pages[x] => p \in Future(m, x, p)
  <2>1. p = p + 0 * Concurrency
    BY <1>1
  <2> QED
    BY <1>1, <2>1 DEF Future, Brings
<1>4. CASE m = "sequential"
  <2>1. /\ Future(m, x, p) = {q \in 1 .. Pages[x] : q >= p}
        /\ Future(m, x, NextPage(m, p)) = {q \in 1 .. Pages[x] : q >= p + 1}
    BY <1>4 DEF Future, Brings, NextPage
  <2> QED
    BY <1>1, <1>2, <1>3, <1>4, <2>1
<1>5. CASE m = "undetermined"
  <2>1. /\ Future(m, x, p) = {q \in 1 .. Pages[x] : \E k \in 0 .. q : q = p + k * Concurrency}
        /\ Future(m, x, NextPage(m, p))
              = {q \in 1 .. Pages[x] : \E k \in 0 .. q : q = (p + Concurrency) + k * Concurrency}
    BY <1>5 DEF Future, Brings, NextPage
  <2>2. \A q \in 1 .. Pages[x] : q \in Nat \ {0}
    BY <1>1
  <2>3. /\ Future(m, x, p) \subseteq {p} \cup Future(m, x, NextPage(m, p))
        /\ Future(m, x, NextPage(m, p)) \subseteq Future(m, x, p) \ {p}
    BY <2>1, <2>2, ChainSteps
  <2>4. \A q \in Future(m, x, p) : q \in Nat /\ q >= p /\ q <= Pages[x]
    BY <1>1, <2>1, <2>2, ChainSteps
  <2>5. p >= Pages[x] => Future(m, x, p) \subseteq {p}
    BY <1>1, <2>4
  <2> QED
    BY <1>2, <1>3, <1>5, <2>3, <2>5
<1>6. CASE m = "determined"
  <2>1. /\ p # 1 => Future(m, x, p) \subseteq {p}
        /\ p = 1 => Future(m, x, p) = 1 .. Pages[x]
    BY <1>6 DEF Future, Brings
  <2>2. FutureOf(m, x, 2 .. Pages[x]) = 2 .. Pages[x]
    BY <1>1, <1>6 DEF FutureOf, Future, Brings
  <2> QED
    BY <1>2, <1>3, <1>6, <2>1, <2>2
<1>7. CASE m = "single"
  BY <1>2, <1>3, <1>7 DEF Future, Brings
<1> QED
  BY <1>4, <1>5, <1>6, <1>7 DEF Kinds

-----------------------------------------------------------------------------
(* How pages move between the places.                                       *)

Kept(x) == OnePlaceEach(x) /\ (x \in asked => NoneLost(x))

\* Pages move between the places of C and none is duplicated; none is lost, or a
\* task failed, or the response was ignored.
LEMMA Moves ==
    ASSUME NEW x \in Inputs, Kept(x), NEW C \in SUBSET Place,
           mode' = mode, asked' = asked, ignored \subseteq ignored', Failed => Failed',
           \A a \in Place \ C : Due(a, x)' = Due(a, x),
           \A a, b \in C : a # b => Due(a, x)' \cap Due(b, x)' = {},
           \A a \in C : Due(a, x)' \subseteq UNION {Due(c, x) : c \in C},
           \/ Failed' \/ x \in ignored'
           \/ \A c \in C : Due(c, x) \subseteq UNION {Due(a, x)' : a \in C}
    PROVE  Kept(x)'
<1>1. \A a, b \in Place : a # b => Due(a, x)' \cap Due(b, x)' = {}
  <2> SUFFICES ASSUME NEW a \in Place, NEW b \in Place, a # b
               PROVE  Due(a, x)' \cap Due(b, x)' = {}
    OBVIOUS
  <2>1. \A c, d \in Place : c # d => Due(c, x) \cap Due(d, x) = {}
    BY DEF Kept, OnePlaceEach
  <2>2. CASE a \in C /\ b \in C
    BY <2>2
  <2>3. CASE a \notin C /\ b \notin C
    BY <2>1, <2>3
  <2>4. CASE a \in C /\ b \notin C
    BY <2>1, <2>4
  <2>5. CASE a \notin C /\ b \in C
    BY <2>1, <2>5
  <2> QED
    BY <2>2, <2>3, <2>4, <2>5
<1>2. ASSUME x \in asked, ~Failed', x \notin ignored', NEW q \in Wanted(mode', x)
      PROVE  \E a \in Place : q \in Due(a, x)'
  <2>1. PICK a \in Place : q \in Due(a, x)
    BY <1>2 DEF Kept, NoneLost
  <2>2. CASE a \in C
    BY <1>2, <2>1, <2>2
  <2>3. CASE a \notin C
    BY <2>1, <2>3
  <2> QED
    BY <2>2, <2>3
<1>3. OnePlaceEach(x)'
  BY <1>1 DEF OnePlaceEach
<1>4. x \in asked' => NoneLost(x)'
  BY <1>2 DEF NoneLost
<1> QED
  BY <1>3, <1>4 DEF Kept

W(w) == <<"worker", w>>
G(g) == <<"goroutine", g>>
Subtask == <<"subtask", 0>>
Iterator == <<"iterator", 0>>
Table == <<"table", 0>>

\* The places are distinct, and what is due at each of them.
LEMMA Places ==
    /\ \A w \in Worker : W(w) \in Place
    /\ \A g \in Tick : G(g) \in Place
    /\ {Subtask, Iterator, Table} \subseteq Place
    /\ \A a \in Place : \/ \E w \in Worker : a = W(w)
                        \/ \E g \in Tick : a = G(g)
                        \/ a \in {Subtask, Iterator, Table}
    /\ \A v, w : W(v) = W(w) => v = w
    /\ \A g, h : G(g) = G(h) => g = h
    /\ \A w, g : W(w) # G(g)
    /\ \A w : W(w) \notin {Subtask, Iterator, Table}
    /\ \A g : G(g) \notin {Subtask, Iterator, Table}
    /\ Subtask # Iterator /\ Subtask # Table /\ Iterator # Table
  BY DEF Place, W, G, Subtask, Iterator, Table

\* What is due at each place, before a step and after it.
LEMMA DueAt ==
    ASSUME NEW x
    PROVE  /\ \A w : Due(W(w), x) = TaskDue(mode, pool[w], x)
           /\ \A g : Due(G(g), x) = GoroutineDue(mode, ticks[g], x)
           /\ Due(Subtask, x) = SubtaskDue(mode, main, chains, x)
           /\ Due(Iterator, x) = IteratorDue(mode, todo, x)
           /\ Due(Table, x) = TableHas(rows, x)
           /\ \A w : Due(W(w), x)' = TaskDue(mode', pool'[w], x)
           /\ \A g : Due(G(g), x)' = GoroutineDue(mode', ticks'[g], x)
           /\ Due(Subtask, x)' = SubtaskDue(mode', main', chains', x)
           /\ Due(Iterator, x)' = IteratorDue(mode', todo', x)
           /\ Due(Table, x)' = TableHas(rows', x)
  BY DEF Due, W, G, Subtask, Iterator, Table

\* A step that changes what is due at the places of C only.
LEMMA Frame ==
    ASSUME NEW x, NEW C, mode' = mode,
           \A w \in Worker : W(w) \in C \/ pool'[w] = pool[w],
           \A g \in Tick : G(g) \in C \/ ticks'[g] = ticks[g],
           Subtask \in C \/ (main' = main /\ chains' = chains),
           Iterator \in C \/ todo' = todo,
           Table \in C \/ rows' = rows
    PROVE  \A a \in Place \ C : Due(a, x)' = Due(a, x)
<1> SUFFICES ASSUME NEW a \in Place \ C PROVE Due(a, x)' = Due(a, x)
  OBVIOUS
<1>1. CASE \E w \in Worker : a = W(w)
  BY <1>1, DueAt
<1>2. CASE \E g \in Tick : a = G(g)
  BY <1>2, DueAt
<1>3. CASE a \in {Subtask, Iterator, Table}
  BY <1>3, DueAt
<1> QED
  BY <1>1, <1>2, <1>3, Places

\* What no step undoes.
Steady == /\ mode' = mode /\ asked' = asked /\ ignored \subseteq ignored'
          /\ Failed => Failed'

\* Every step keeps the kind of paging, the inputs, what was ignored, and failures.
LEMMA SteadyNext == [Next]_vars => Steady
<1> SUFFICES ASSUME [Next]_vars PROVE Steady
  OBVIOUS
<1>1. ASSUME UNCHANGED <<workerErrors, args, ignored>>, unrecorded \subseteq unrecorded' PROVE Steady
  BY <1>1 DEF Steady, Failed, HasError, args
<1>2. CASE MainStep
  BY <1>1, <1>2 DEF MainStep, NextInput, FetchFails, LoopEnds, MainChecks, MainSubmits,
                    MainStartsChain, MainWaits, MainReturns, Stays
<1>3. ASSUME NEW w \in Worker, WorkerStep(w) PROVE Steady
  <2>1. CASE RequestIgnored(w)
    BY <2>1 DEF RequestIgnored, Returns, Spectates, Steady, Failed, HasError, args
  <2>2. CASE RequestFails(w) \/ HandlerFails(w)
    BY <1>1, <2>2 DEF RequestFails, HandlerFails, Retry, ReturnsWithTick, Panics, Spectates
  <2>3. CASE HandlerStores(w)
    BY <1>1, <2>3 DEF HandlerStores, ReturnsWithTick, Returns, Spectates
  <2>4. CASE Others /\ (TaskBegins(w) \/ TaskIsCanceled(w) \/ NestedSubmits(w, Successor(pool[w].r)))
    BY <1>1, <2>4 DEF TaskBegins, TaskIsCanceled, NestedSubmits, Returns, Panics, Others
  <2> QED
    BY <1>3, <2>1, <2>2, <2>3, <2>4 DEF WorkerStep
<1>4. ASSUME NEW g \in Tick, TickStep(g) PROVE Steady
  BY <1>1, <1>4 DEF TickStep, TickChecks, TickSubmits, Others
<1>5. CASE RecordStep
  BY <1>5 DEF RecordStep, Record, Others, Steady, Failed, HasError, args
<1>6. CASE CancelStep \/ UNCHANGED vars
  BY <1>1, <1>6 DEF CancelStep, Cancel, vars, scheduler
<1> QED
  BY <1>2, <1>3, <1>4, <1>5, <1>6 DEF Next

\* One place gives up pages, or keeps them.
LEMMA MoveOne ==
    ASSUME NEW x \in Inputs, Kept(x), Steady, NEW a \in Place,
           \A e \in Place \ {a} : Due(e, x)' = Due(e, x),
           Due(a, x)' \subseteq Due(a, x),
           Failed' \/ x \in ignored' \/ Due(a, x) \subseteq Due(a, x)'
    PROVE  Kept(x)'
<1>1. UNION {Due(c, x) : c \in {a}} = Due(a, x) /\ UNION {Due(c, x)' : c \in {a}} = Due(a, x)'
  OBVIOUS
<1>2. {a} \in SUBSET Place
  OBVIOUS
<1>3. \A c, e \in {a} : c # e => Due(c, x)' \cap Due(e, x)' = {}
  OBVIOUS
<1>4. \A c \in {a} : Due(c, x)' \subseteq UNION {Due(e, x) : e \in {a}}
  BY <1>1
<1>5. \/ Failed' \/ x \in ignored'
      \/ \A c \in {a} : Due(c, x) \subseteq UNION {Due(e, x)' : e \in {a}}
  BY <1>1
<1> QED
  BY <1>2, <1>3, <1>4, <1>5, Moves DEF Steady

\* Pages move between two places.
LEMMA MoveTwo ==
    ASSUME NEW x \in Inputs, Kept(x), Steady, NEW a \in Place, NEW b \in Place, a # b,
           \A e \in Place \ {a, b} : Due(e, x)' = Due(e, x),
           Due(a, x)' \cap Due(b, x)' = {},
           Due(a, x)' \cup Due(b, x)' \subseteq Due(a, x) \cup Due(b, x),
           \/ Failed' \/ x \in ignored'
           \/ Due(a, x) \cup Due(b, x) \subseteq Due(a, x)' \cup Due(b, x)'
    PROVE  Kept(x)'
<1>1. /\ UNION {Due(c, x) : c \in {a, b}} = Due(a, x) \cup Due(b, x)
      /\ UNION {Due(c, x)' : c \in {a, b}} = Due(a, x)' \cup Due(b, x)'
  OBVIOUS
<1>2. {a, b} \in SUBSET Place
  OBVIOUS
<1>3. \A c, e \in {a, b} : c # e => Due(c, x)' \cap Due(e, x)' = {}
  OBVIOUS
<1>4. \A c \in {a, b} : Due(c, x)' \subseteq UNION {Due(e, x) : e \in {a, b}}
  BY <1>1
<1>5. \/ Failed' \/ x \in ignored'
      \/ \A c \in {a, b} : Due(c, x) \subseteq UNION {Due(e, x)' : e \in {a, b}}
  BY <1>1
<1> QED
  BY <1>2, <1>3, <1>4, <1>5, Moves DEF Steady

\* Pages of a first place move to two others.
LEMMA MoveThree ==
    ASSUME NEW x \in Inputs, Kept(x), Steady,
           NEW a \in Place, NEW b \in Place, NEW c \in Place, a # b, a # c, b # c,
           \A e \in Place \ {a, b, c} : Due(e, x)' = Due(e, x),
           Due(a, x)' = {},
           Due(b, x)' \cap Due(c, x)' = {},
           Due(b, x)' \cup Due(c, x)' \subseteq Due(a, x) \cup Due(b, x) \cup Due(c, x),
           Due(a, x) \cup Due(b, x) \cup Due(c, x) \subseteq Due(b, x)' \cup Due(c, x)'
    PROVE  Kept(x)'
<1>1. /\ UNION {Due(e, x) : e \in {a, b, c}} = Due(a, x) \cup Due(b, x) \cup Due(c, x)
      /\ UNION {Due(e, x)' : e \in {a, b, c}} = Due(a, x)' \cup Due(b, x)' \cup Due(c, x)'
  OBVIOUS
<1>2. {a, b, c} \in SUBSET Place
  OBVIOUS
<1>3. \A d, e \in {a, b, c} : d # e => Due(d, x)' \cap Due(e, x)' = {}
  OBVIOUS
<1>4. \A d \in {a, b, c} : Due(d, x)' \subseteq UNION {Due(e, x) : e \in {a, b, c}}
  BY <1>1
<1>5. \A d \in {a, b, c} : Due(d, x) \subseteq UNION {Due(e, x)' : e \in {a, b, c}}
  BY <1>1
<1> QED
  BY <1>2, <1>3, <1>4, <1>5, Moves DEF Steady

-----------------------------------------------------------------------------
(* Each step keeps the pages.                                               *)

\* What is known of tasks, goroutines and the subtask in a typed state.
LEMMA Typed ==
    ASSUME TypeInv
    PROVE  /\ pool \in [Worker -> WorkerState] /\ ticks \in [Tick -> TickState]
           /\ mode \in Kinds
           /\ \A w \in Worker : pool[w].at # "idle" => pool[w].r \in Request
           /\ \A g \in Tick : ticks[g].at # "idle" =>
                 /\ ticks[g].r \in Request /\ ticks[g].last \in Nat
                 /\ ticks[g].r.page \in Nat \ {0} /\ ticks[g].r.page <= ticks[g].last
           /\ main.at \in {"submit", "blocked", "chains"} =>
                 main.r \in Request /\ main.r.x \in Inputs /\ main.r.page = 1
           /\ \A r \in Request : r.x \in Inputs /\ r.page \in Nat \ {0}
           /\ \A x \in Inputs : Pages[x] \in Nat \ {0}
<1>1. /\ pool \in [Worker -> WorkerState] /\ ticks \in [Tick -> TickState] /\ mode \in Kinds
  BY SchedulerTypes, Bounds DEF TypeInv, TypeOK, Kinds
<1>2. \A r \in Request : r.x \in Inputs /\ r.page \in Nat \ {0}
  BY RequestType
<1>3. \A w \in Worker : pool[w].at # "idle" => pool[w].r \in Request
  BY <1>1, SchedulerTypes
<1>4. \A g \in Tick : ticks[g].at # "idle" =>
          /\ ticks[g].r \in Request /\ ticks[g].last \in Nat
          /\ ticks[g].r.page \in Nat \ {0} /\ ticks[g].r.page <= ticks[g].last
  BY <1>1, <1>2, SchedulerTypes DEF TypeInv, PagesBounded
<1>5. main.at \in {"submit", "blocked", "chains"} =>
          main.r \in Request /\ main.r.x \in Inputs /\ main.r.page = 1
  <2> SUFFICES ASSUME main.at \in {"submit", "blocked", "chains"}
               PROVE  main.r \in Request /\ main.r.x \in Inputs /\ main.r.page = 1
    OBVIOUS
  <2>1. main.r \in Request /\ main.r = First(main.r.x)
    BY DEF TypeInv, TypeOK, PagesBounded
  <2>2. \A y : First(y).page = 1
    BY DEF First
  <2> QED
    BY <1>2, <2>1, <2>2
<1>6. \A x \in Inputs : Pages[x] \in Nat \ {0}
  BY CollectorAssumption
<1> QED
  BY <1>1, <1>2, <1>3, <1>4, <1>5, <1>6

\* What is due at a task and at a goroutine, by where they stand.
LEMMA DueOf ==
    ASSUME NEW m, NEW x
    PROVE  /\ TaskDue(m, IdleWorker, x) = {} /\ GoroutineDue(m, IdleTick, x) = {}
           /\ \A t : t.at = "idle" => TaskDue(m, t, x) = {} /\ GoroutineDue(m, t, x) = {}
           /\ \A t : t.r.x # x => TaskDue(m, t, x) = {} /\ GoroutineDue(m, t, x) = {}
           /\ \A t : t.at \in {"begin", "armed"} /\ t.r.x = x =>
                 TaskDue(m, t, x) = Future(m, x, t.r.page)
           /\ \A t : t.at = "blocked" /\ t.r.x = x =>
                 TaskDue(m, t, x) = Future(m, x, NextPage(m, t.r.page))
           /\ \A r : TaskDue(m, Submitted(r), x) = IF r.x = x THEN Future(m, x, r.page) ELSE {}
           /\ \A t : t.at # "idle" /\ t.r.x = x =>
                 GoroutineDue(m, t, x) = FutureOf(m, x, t.r.page .. t.last)
           /\ \A r, l : GoroutineDue(m, [at |-> "check", r |-> r, last |-> l], x)
                 = IF r.x = x THEN FutureOf(m, x, r.page .. l) ELSE {}
  BY DEF TaskDue, GoroutineDue, IdleWorker, IdleTick, Submitted

\* The pages of the next input go from the iterator to the subtask.
LEMMA NextInputKeeps ==
    ASSUME TypeInv, Steady, NEW x \in Inputs, Kept(x), NextInput
    PROVE  Kept(x)'
<1>1. PICK y \in todo : todo' = todo \ {y} /\ Execute(y)
  BY DEF NextInput
<1>2. y \in Inputs /\ mode' = mode /\ mode \in Kinds
  BY Typed DEF TypeInv, TypeOK, Steady
<1>3. UNCHANGED <<pool, ticks, rows>> /\ main.at = "loop"
  BY DEF NextInput, Stays
<1>4. \A a \in Place \ {Iterator, Subtask} : Due(a, x)' = Due(a, x)
  BY <1>2, <1>3, Frame
<1>5. Due(Subtask, x) = {}
  BY <1>3, DueAt DEF SubtaskDue
<1>6. /\ Due(Iterator, x) = IF x \in todo THEN Wanted(mode, x) ELSE {}
      /\ Due(Iterator, x)' = IF x \in todo \ {y} THEN Wanted(mode, x) ELSE {}
  BY <1>1, <1>2, DueAt DEF IteratorDue
<1>7. Due(Subtask, x)' = IF x = y THEN Wanted(mode, x) ELSE {}
  <2>1. First(y).x = y
    BY DEF First
  <2>2. main \in [at : {"loop", "submit", "blocked", "chains", "wait", "final", "returned"},
                 r : Request \cup {NoRequest},
                 result : {"none", "nil", "failed", "canceled", "fetch error"}]
    BY DEF TypeInv, TypeOK
  <2>3. CASE mode \in {"single", "determined"}
    <3>1. main'.at = "submit" /\ main'.r.x = y
      BY <1>1, <2>1, <2>2, <2>3 DEF Execute
    <3>2. SubtaskDue(mode, main', chains', x) = IF x = y THEN Future(mode, x, 1) ELSE {}
      BY <3>1 DEF SubtaskDue
    <3> QED
      BY <1>2, <2>3, <3>2, DueAt, FirstBrings
  <2>4. CASE mode \in {"sequential", "undetermined"}
    <3>1. main'.at = "chains" /\ main'.r.x = y /\ chains' = ChainsOf(mode)
      BY <1>1, <2>1, <2>2, <2>4 DEF Execute, ChainsOf
    <3>2. ChainsOf(mode) + 1 - ChainsOf(mode) = 1
      BY CollectorAssumption DEF ChainsOf
    <3>3. SubtaskDue(mode, main', chains', x)
             = IF x = y THEN FutureOf(mode, x, 1 .. ChainsOf(mode)) ELSE {}
      BY <3>1, <3>2 DEF SubtaskDue
    <3> QED
      BY <1>2, <2>4, <3>3, DueAt, FirstBrings
  <2> QED
    BY <1>2, <2>3, <2>4 DEF Kinds
<1> QED
  BY <1>1, <1>4, <1>5, <1>6, <1>7, Places, MoveTwo

\* The rest of what Execute does, but for the chains.
LEMMA ExecuteKeeps ==
    ASSUME TypeInv, Steady, NEW x \in Inputs, Kept(x),
           FetchFails \/ LoopEnds \/ MainChecks \/ MainWaits \/ MainReturns
    PROVE  Kept(x)'
<1>1. UNCHANGED <<pool, ticks, rows, todo, chains>> /\ mode' = mode
  BY DEF FetchFails, LoopEnds, MainChecks, MainWaits, MainReturns, Stays, Steady
<1>2. \A a \in Place \ {Subtask} : Due(a, x)' = Due(a, x)
  BY <1>1, Frame
<1>3. main \in [at : {"loop", "submit", "blocked", "chains", "wait", "final", "returned"},
                r : Request \cup {NoRequest},
                result : {"none", "nil", "failed", "canceled", "fetch error"}]
  BY DEF TypeInv, TypeOK
<1>4. CASE main'.at \in {"wait", "final", "returned"} /\ main.at \in {"loop", "wait", "final"}
  <2>1. Due(Subtask, x) = {} /\ Due(Subtask, x)' = {}
    BY <1>4, DueAt DEF SubtaskDue
  <2> QED
    BY <1>2, <2>1, Places, MoveOne
<1>5. CASE main.at = "submit" /\ main' = [main EXCEPT !.at = "loop"] /\ HasError
  <2>1. Due(Subtask, x)' = {}
    BY <1>3, <1>5, DueAt DEF SubtaskDue
  <2>2. Failed'
    BY <1>5 DEF Failed, Steady
  <2> QED
    BY <1>2, <2>1, <2>2, Places, MoveOne
<1>6. CASE main.at = "submit" /\ main' = [main EXCEPT !.at = "blocked"]
  <2>1. main'.at = "blocked" /\ main'.r = main.r
    BY <1>3, <1>6
  <2>2. Due(Subtask, x)' = Due(Subtask, x)
    BY <1>1, <1>6, <2>1, DueAt DEF SubtaskDue
  <2> QED
    BY <1>2, <2>2, Places, MoveOne
<1> QED
  BY <1>3, <1>4, <1>5, <1>6 DEF FetchFails, LoopEnds, MainChecks, MainWaits, MainReturns

\* A worker gets the subtask's request and what is due with it.
LEMMA MainSubmitsKeeps ==
    ASSUME TypeInv, Steady, NEW x \in Inputs, Kept(x), MainSubmits
    PROVE  Kept(x)'
<1>1. PICK w \in Worker : pool[w].at = "idle" /\ pool' = [pool EXCEPT ![w] = Submitted(main.r)]
  BY DEF MainSubmits, Takes
<1>2. /\ UNCHANGED <<ticks, rows, todo, chains>> /\ main.at = "blocked" /\ main'.at = "loop"
      /\ mode' = mode
  BY DEF MainSubmits, Steady, TypeInv, TypeOK
<1>3. pool'[w] = Submitted(main.r) /\ \A v \in Worker : v # w => pool'[v] = pool[v]
  BY <1>1, Typed, PoolChange
<1>4. \A a \in Place \ {W(w), Subtask} : Due(a, x)' = Due(a, x)
  <2>1. \A v \in Worker : W(v) \in {W(w), Subtask} \/ pool'[v] = pool[v]
    BY <1>3
  <2> QED
    BY <1>2, <2>1, Frame
<1>5. main.r.page = 1
  BY <1>2, Typed
<1>6. /\ Due(Subtask, x) = IF main.r.x = x THEN Future(mode, x, 1) ELSE {}
      /\ Due(Subtask, x)' = {}
  BY <1>2, DueAt DEF SubtaskDue
<1>7. /\ Due(W(w), x) = {}
      /\ Due(W(w), x)' = IF main.r.x = x THEN Future(mode, x, 1) ELSE {}
  <2>1. Due(W(w), x) = TaskDue(mode, pool[w], x)
        /\ Due(W(w), x)' = TaskDue(mode, Submitted(main.r), x)
    BY <1>2, <1>3, DueAt
  <2>2. TaskDue(mode, pool[w], x) = {}
    BY <1>1, DueOf
  <2>3. TaskDue(mode, Submitted(main.r), x)
           = IF main.r.x = x THEN Future(mode, x, main.r.page) ELSE {}
    BY DueOf
  <2> QED
    BY <1>5, <2>1, <2>2, <2>3
<1> QED
  BY <1>4, <1>6, <1>7, Places, MoveTwo

\* A goroutine gets the first of the chains that are left.
LEMMA MainStartsChainKeeps ==
    ASSUME TypeInv, Steady, NEW x \in Inputs, Kept(x), MainStartsChain
    PROVE  Kept(x)'
<1> DEFINE n == ChainsOf(mode)
           r == [main.r EXCEPT !.page = n + 1 - chains]
           t == [at |-> "check", r |-> r, last |-> r.page]
<1>1. /\ UNCHANGED <<pool, rows, todo>> /\ main.at = "chains" /\ chains' = chains - 1
      /\ main' = IF chains = 1 THEN [main EXCEPT !.at = "loop"] ELSE main
      /\ mode' = mode
  BY DEF MainStartsChain, Stays, Steady
<1>2. PICK g \in Tick : ticks[g].at = "idle" /\ ticks' = [ticks EXCEPT ![g] = t]
  BY DEF MainStartsChain, Starts, ChainsOf
<1>3. ticks'[g] = t /\ \A h \in Tick : h # g => ticks'[h] = ticks[h]
  BY <1>2, Typed, TickChange
<1>4. \A a \in Place \ {Subtask, G(g)} : Due(a, x)' = Due(a, x)
  <2>1. \A h \in Tick : G(h) \in {Subtask, G(g)} \/ ticks'[h] = ticks[h]
    BY <1>3
  <2> QED
    BY <1>1, <2>1, Frame
<1>5. main.r \in Request /\ mode \in {"sequential", "undetermined"} /\ chains \in 1 .. n
  BY <1>1, Typed DEF TypeInv, PagesBounded, ChainsOf, ChainsPerInput
<1>6. n \in Nat \ {0}
  BY CollectorAssumption DEF ChainsOf
<1> DEFINE c == n + 1 - chains
<1>7. r.x = main.r.x /\ r.page = c
  BY <1>5, RequestType
<1> HIDE DEF r, n
<1>8. c \in Nat \ {0} /\ c <= n /\ n + 1 - chains' = c + 1 /\ (chains = 1 => c = n)
  BY <1>1, <1>5, <1>6
<1> HIDE DEF c
<1>9. Due(Subtask, x) = IF main.r.x = x THEN FutureOf(mode, x, c .. n) ELSE {}
  BY <1>1, DueAt DEF SubtaskDue, n, c
<1>10. Due(Subtask, x)' = IF main.r.x = x THEN FutureOf(mode, x, c + 1 .. n) ELSE {}
  <2>1. Due(Subtask, x)' = SubtaskDue(mode, main', chains', x)
    BY <1>1, DueAt
  <2>2. CASE chains = 1
    <3>1. main'.at = "loop"
      BY <1>1, <2>2 DEF TypeInv, TypeOK
    <3>2. SubtaskDue(mode, main', chains', x) = {}
      BY <3>1 DEF SubtaskDue
    <3>3. FutureOf(mode, x, c + 1 .. n) = {}
      <4>1. c + 1 \in Nat /\ n \in Nat /\ c + 1 > n
        BY <1>6, <1>8, <2>2
      <4> QED
        BY <4>1, FutureSplits
    <3> QED
      BY <2>1, <3>2, <3>3
  <2>3. CASE chains # 1
    <3>1. main'.at = "chains" /\ main'.r = main.r
      BY <1>1, <2>3
    <3>2. SubtaskDue(mode, main', chains', x)
             = IF main.r.x = x THEN FutureOf(mode, x, n + 1 - chains' .. n) ELSE {}
      BY <3>1 DEF SubtaskDue, n
    <3> QED
      BY <1>8, <2>1, <3>2
  <2> QED
    BY <2>2, <2>3
<1>11. Due(G(g), x) = {} /\ Due(G(g), x)' = IF main.r.x = x THEN Future(mode, x, c) ELSE {}
  <2>1. Due(G(g), x) = GoroutineDue(mode, ticks[g], x) /\ Due(G(g), x)' = GoroutineDue(mode, t, x)
    BY <1>1, <1>3, DueAt
  <2>2. GoroutineDue(mode, ticks[g], x) = {}
    BY <1>2, DueOf
  <2>3. GoroutineDue(mode, t, x) = IF r.x = x THEN FutureOf(mode, x, r.page .. r.page) ELSE {}
    BY DueOf
  <2>4. FutureOf(mode, x, c .. c) = Future(mode, x, c)
    BY <1>8, FutureSplits
  <2> QED
    BY <1>7, <2>1, <2>2, <2>3, <2>4
<1>12. FutureOf(mode, x, c .. n) = Future(mode, x, c) \cup FutureOf(mode, x, c + 1 .. n)
  BY <1>6, <1>8, FutureSplits
<1>13. Future(mode, x, c) \cap FutureOf(mode, x, c + 1 .. n) = {}
  BY <1>5, <1>6, <1>8, FutureDistinct DEF n, Kinds
<1> QED
  BY <1>4, <1>9, <1>10, <1>11, <1>12, <1>13, Places, MoveTwo

\* A task that ends gives up what is due with it.
LEMMA WorkerDrops ==
    ASSUME TypeInv, Steady, NEW x \in Inputs, Kept(x), NEW w \in Worker,
           pool' = [pool EXCEPT ![w] = IdleWorker],
           UNCHANGED <<ticks, rows, todo, main, chains>>,
           Failed' \/ x \in ignored' \/ pool[w].r.x # x
    PROVE  Kept(x)'
<1>1. pool'[w] = IdleWorker /\ \A v \in Worker : v # w => pool'[v] = pool[v]
  BY Typed, PoolChange
<1>2. \A a \in Place \ {W(w)} : Due(a, x)' = Due(a, x)
  <2>1. \A v \in Worker : W(v) \in {W(w)} \/ pool'[v] = pool[v]
    BY <1>1
  <2> QED
    BY <2>1, Frame DEF Steady
<1>3. Due(W(w), x)' = {}
  <2>1. Due(W(w), x)' = TaskDue(mode', IdleWorker, x)
    BY <1>1, DueAt
  <2> QED
    BY <2>1, DueOf
<1>4. pool[w].r.x # x => Due(W(w), x) = {}
  <2>1. Due(W(w), x) = TaskDue(mode, pool[w], x)
    BY DueAt
  <2> QED
    BY <2>1, DueOf
<1> QED
  BY <1>2, <1>3, <1>4, Places, MoveOne

\* The goroutine that retries has what was due at the task.
LEMMA RetryKeeps ==
    ASSUME TypeInv, Steady, NEW x \in Inputs, Kept(x), NEW w \in Worker,
           pool[w].at = "armed", Retry(w), UNCHANGED <<rows, todo, main, chains>>
    PROVE  Kept(x)'
<1> DEFINE r == [pool[w].r EXCEPT !.retry = @ + 1]
           t == [at |-> "check", r |-> r, last |-> r.page]
<1>1. pool' = [pool EXCEPT ![w] = IdleWorker]
  BY DEF Retry, ReturnsWithTick
<1>2. PICK g \in Tick : ticks[g].at = "idle" /\ ticks' = [ticks EXCEPT ![g] = t]
  BY DEF Retry, ReturnsWithTick, Starts
<1>3. /\ pool'[w] = IdleWorker /\ \A v \in Worker : v # w => pool'[v] = pool[v]
      /\ ticks'[g] = t /\ \A h \in Tick : h # g => ticks'[h] = ticks[h]
  BY <1>1, <1>2, Typed, PoolChange, TickChange
<1>4. pool[w].r \in Request
  BY Typed
<1>5. r.x = pool[w].r.x /\ r.page = pool[w].r.page /\ r.page \in Nat
  <2>1. /\ pool[w].r = [x |-> pool[w].r.x, page |-> pool[w].r.page, retry |-> pool[w].r.retry]
        /\ pool[w].r.page \in Nat
    BY <1>4, RequestType
  <2> QED
    BY <2>1
<1>6. mode' = mode
  BY DEF Steady
<1>7. \A a \in Place \ {W(w), G(g)} : Due(a, x)' = Due(a, x)
  <2>1. \A v \in Worker : W(v) \in {W(w), G(g)} \/ pool'[v] = pool[v]
    BY <1>3
  <2>2. \A h \in Tick : G(h) \in {W(w), G(g)} \/ ticks'[h] = ticks[h]
    BY <1>3
  <2> QED
    BY <1>6, <2>1, <2>2, Frame
<1> HIDE DEF r
<1>8. Due(W(w), x) = (IF r.x = x THEN Future(mode, x, r.page) ELSE {}) /\ Due(W(w), x)' = {}
  <2>1. Due(W(w), x) = TaskDue(mode, pool[w], x) /\ Due(W(w), x)' = TaskDue(mode, IdleWorker, x)
    BY <1>3, <1>6, DueAt
  <2>2. r.x = x => TaskDue(mode, pool[w], x) = Future(mode, x, r.page)
    <3>1. pool[w].r.x = x => TaskDue(mode, pool[w], x) = Future(mode, x, pool[w].r.page)
      BY DEF TaskDue
    <3> QED
      BY <1>5, <3>1
  <2>3. r.x # x => TaskDue(mode, pool[w], x) = {}
    BY <1>5, DueOf
  <2>4. TaskDue(mode, IdleWorker, x) = {}
    BY DueOf
  <2> QED
    BY <2>1, <2>2, <2>3, <2>4
<1>9. Due(G(g), x) = {} /\ Due(G(g), x)' = IF r.x = x THEN Future(mode, x, r.page) ELSE {}
  <2>1. Due(G(g), x) = GoroutineDue(mode, ticks[g], x) /\ Due(G(g), x)' = GoroutineDue(mode, t, x)
    BY <1>3, <1>6, DueAt
  <2>2. GoroutineDue(mode, ticks[g], x) = {}
    BY <1>2, DueOf
  <2>3. GoroutineDue(mode, t, x) = IF r.x = x THEN FutureOf(mode, x, r.page .. r.page) ELSE {}
    BY DueOf
  <2>4. FutureOf(mode, x, r.page .. r.page) = Future(mode, x, r.page)
    BY <1>5, FutureSplits
  <2> QED
    BY <2>1, <2>2, <2>3, <2>4
<1> QED
  BY <1>7, <1>8, <1>9, Places, MoveTwo

\* What a stored page leaves to come.
Rest(m, x, p) == IF m = "determined" THEN FutureOf(m, x, 2 .. Pages[x])
                 ELSE Future(m, x, NextPage(m, p))

\* The handler stores its page, and what it asks for is the rest.
LEMMA ContinuesSteps ==
    ASSUME NEW r \in Request, mode \in Kinds
    PROVE  /\ ~Continues(r) => Future(mode, r.x, r.page) \subseteq {r.page}
           /\ Continues(r) =>
                 /\ IsPage(r)
                 /\ Future(mode, r.x, r.page) = {r.page} \cup Rest(mode, r.x, r.page)
                 /\ r.page \notin Rest(mode, r.x, r.page)
           /\ IsPage(r) => r.page \in Future(mode, r.x, r.page) /\ r.page \in 1 .. Pages[r.x]
           /\ ~IsPage(r) => r.page \notin Future(mode, r.x, r.page)
<1> DEFINE x == r.x
           p == r.page
<1>1. x \in Inputs /\ p \in Nat \ {0} /\ Pages[x] \in Nat \ {0}
  BY RequestType
<1> HIDE DEF x, p
<1>2. IsPage(r) <=> p <= Pages[x]
  BY DEF IsPage, x, p
<1>3. IsPage(r) => p \in Future(mode, x, p) /\ p \in 1 .. Pages[x]
  BY <1>1, <1>2, FutureSteps
<1>4. ~IsPage(r) => p \notin Future(mode, x, p)
  <2>1. Future(mode, x, p) \subseteq 1 .. Pages[x]
    BY <1>1, FutureSteps
  <2> QED
    BY <1>1, <1>2, <2>1
<1>5. CASE mode = "single"
  <2>1. ~Continues(r)
    BY <1>5 DEF Continues
  <2>2. Future(mode, x, p) \subseteq {p}
    BY <1>1, <1>5, FutureSteps
  <2> QED
    BY <1>3, <1>4, <2>1, <2>2 DEF x, p
<1>6. CASE mode \in {"sequential", "undetermined"}
  <2>1. Continues(r) <=> p < Pages[x]
    BY <1>6 DEF Continues, x, p
  <2>2. /\ Future(mode, x, p) \subseteq {p} \cup Future(mode, x, NextPage(mode, p))
        /\ Future(mode, x, NextPage(mode, p)) \subseteq Future(mode, x, p) \ {p}
        /\ p >= Pages[x] => Future(mode, x, p) \subseteq {p}
    BY <1>1, <1>6, FutureSteps
  <2>3. Rest(mode, x, p) = Future(mode, x, NextPage(mode, p))
    BY <1>6 DEF Rest
  <2>4. ~Continues(r) => p >= Pages[x]
    BY <1>1, <2>1
  <2>5. Continues(r) => IsPage(r)
    BY <1>1, <1>2, <2>1
  <2>6. Continues(r) => Future(mode, x, p) = {p} \cup Rest(mode, x, p) /\ p \notin Rest(mode, x, p)
    BY <1>3, <2>2, <2>3, <2>5
  <2> QED
    BY <1>3, <1>4, <2>2, <2>4, <2>5, <2>6 DEF x, p
<1>7. CASE mode = "determined"
  <2>1. Continues(r) <=> p = 1 /\ Pages[x] > 1
    BY <1>7 DEF Continues, x, p
  <2>2. /\ p # 1 => Future(mode, x, p) \subseteq {p}
        /\ p = 1 => Future(mode, x, p) = 1 .. Pages[x]
        /\ Rest(mode, x, p) = 2 .. Pages[x]
    BY <1>1, <1>7, FutureSteps DEF Rest
  <2>3. ~Continues(r) => Future(mode, x, p) \subseteq {p}
    BY <1>1, <2>1, <2>2
  <2>4. Continues(r) => /\ IsPage(r) /\ Future(mode, x, p) = {p} \cup Rest(mode, x, p)
                        /\ p \notin Rest(mode, x, p)
    BY <1>1, <1>2, <2>1, <2>2
  <2> QED
    BY <1>3, <1>4, <2>3, <2>4 DEF x, p
<1> QED
  BY <1>5, <1>6, <1>7 DEF Kinds

\* The table after a page is stored.
LEMMA TableStores ==
    ASSUME TypeInv, NEW x \in Inputs, NEW r \in Request,
           rows' = Inserted(r)
    PROVE  TableHas(rows', x) = TableHas(rows, x) \cup (IF r.x = x /\ IsPage(r) THEN {r.page} ELSE {})
<1>1. DOMAIN rows = Inputs /\ \A y \in Inputs : rows[y] \in [1 .. Pages[y] -> Nat]
  BY DEF TypeInv, TypeOK
<1>2. r.x \in Inputs /\ r.page \in Nat \ {0} /\ Pages[r.x] \in Nat
  BY RequestType
<1>3. CASE IsPage(r)
  <2>1. r.page \in 1 .. Pages[r.x]
    BY <1>2, <1>3 DEF IsPage
  <2>2. rows' = [rows EXCEPT ![r.x][r.page] = @ + 1]
    BY <1>3 DEF Inserted
  <2>3. CASE r.x = x
    <3>1. /\ \A q \in 1 .. Pages[x] : q # r.page => rows'[x][q] = rows[x][q]
          /\ rows'[x][r.page] = rows[x][r.page] + 1
      BY <1>1, <1>2, <2>1, <2>2, <2>3
    <3>2. rows[x][r.page] \in Nat
      BY <1>1, <2>1, <2>3
    <3>3. rows'[x][r.page] # 0
      BY <3>1, <3>2
    <3> QED
      BY <1>3, <2>1, <2>3, <3>1, <3>3 DEF TableHas
  <2>4. CASE r.x # x
    <3>1. rows'[x] = rows[x]
      BY <1>1, <1>2, <2>2, <2>4
    <3> QED
      BY <2>4, <3>1 DEF TableHas
  <2> QED
    BY <2>3, <2>4
<1>4. CASE ~IsPage(r)
  BY <1>4 DEF Inserted
<1> QED
  BY <1>3, <1>4

\* The handler inserts its page, and perhaps fails then.
InsertsPage(w) ==
    HandlerStores(w) \/ (HandlerFails(w) /\ rows' = Inserted(pool[w].r))

\* The page goes from the task to the table, the rest stays or goes to a goroutine,
\* unless the handler fails.
LEMMA HandlerStoresKeeps ==
    ASSUME TypeInv, Steady, NEW x \in Inputs, Kept(x), NEW w \in Worker, InsertsPage(w)
    PROVE  Kept(x)'
<1> DEFINE r == pool[w].r
           old == IF r.x = x THEN Future(mode, x, r.page) ELSE {}
           stored == IF r.x = x /\ IsPage(r) THEN {r.page} ELSE {}
           rest == IF r.x = x THEN Rest(mode, x, r.page) ELSE {}
<1>1. /\ pool[w].at = "armed" /\ UNCHANGED <<todo, main, chains>> /\ mode' = mode
      /\ rows' = Inserted(r)
  BY DEF InsertsPage, HandlerStores, HandlerFails, Spectates, Steady
<1>2. r \in Request /\ mode \in Kinds /\ r.x \in Inputs /\ r.page \in Nat \ {0}
  BY <1>1, Typed
<1>3. Due(W(w), x) = old
  <2>1. Due(W(w), x) = TaskDue(mode, pool[w], x)
    BY DueAt
  <2> QED
    BY <1>1, <2>1 DEF TaskDue
<1>4. Due(Table, x)' = Due(Table, x) \cup stored
  <2>1. Due(Table, x)' = TableHas(rows', x) /\ Due(Table, x) = TableHas(rows, x)
    BY DueAt
  <2> QED
    BY <1>1, <1>2, <2>1, TableStores
<1>5. Due(W(w), x) \cap Due(Table, x) = {}
  BY Places DEF Kept, OnePlaceEach
<1>6. /\ ~Continues(r) => old \subseteq stored
      /\ Continues(r) => old = stored \cup rest /\ stored \cap rest = {}
      /\ stored \subseteq old
  BY <1>2, ContinuesSteps
<1>7. \A v : W(v) # Table /\ \A g : W(v) # G(g) /\ G(g) # Table
  BY Places
<1> HIDE DEF r
<1>8. CASE pool' = [pool EXCEPT ![w] = IdleWorker] /\ UNCHANGED ticks /\ (~Continues(r) \/ HasError \/ Failed')
  <2>1. pool'[w] = IdleWorker /\ \A v \in Worker : v # w => pool'[v] = pool[v]
    BY <1>8, Typed, PoolChange
  <2>2. \A a \in Place \ {W(w), Table} : Due(a, x)' = Due(a, x)
    <3>1. \A v \in Worker : W(v) \in {W(w), Table} \/ pool'[v] = pool[v]
      BY <2>1
    <3> QED
      BY <1>1, <1>8, <3>1, Frame
  <2>3. Due(W(w), x)' = {}
    <3>1. Due(W(w), x)' = TaskDue(mode', IdleWorker, x)
      BY <2>1, DueAt
    <3> QED
      BY <3>1, DueOf
  <2>4. Failed' \/ old \subseteq stored
    BY <1>6, <1>8 DEF Failed, Steady
  <2> HIDE DEF old, stored, rest
  <2> QED
    BY <1>3, <1>4, <1>6, <1>7, <2>2, <2>3, <2>4, Places, MoveTwo
<1>9. CASE Continues(r) /\ mode = "sequential" /\ pool' = [pool EXCEPT ![w].at = "blocked"] /\ UNCHANGED ticks
  <2> DEFINE t == [pool[w] EXCEPT !.at = "blocked"]
  <2>1. pool' = [pool EXCEPT ![w] = t]
    BY <1>9
  <2>2. t.at = "blocked" /\ t.r = r
    BY <1>1, Typed DEF WorkerState, IdleWorker, r
  <2> HIDE DEF t
  <2>3. pool'[w] = t /\ \A v \in Worker : v # w => pool'[v] = pool[v]
    BY <2>1, Typed, PoolChange
  <2>4. \A a \in Place \ {W(w), Table} : Due(a, x)' = Due(a, x)
    <3>1. \A v \in Worker : W(v) \in {W(w), Table} \/ pool'[v] = pool[v]
      BY <2>3
    <3> QED
      BY <1>1, <1>9, <3>1, Frame
  <2>5. Due(W(w), x)' = rest
    <3>1. Due(W(w), x)' = TaskDue(mode, t, x)
      BY <1>1, <2>3, DueAt
    <3>2. TaskDue(mode, t, x) = IF r.x = x THEN Future(mode, x, NextPage(mode, r.page)) ELSE {}
      BY <2>2 DEF TaskDue
    <3> QED
      BY <1>9, <3>1, <3>2 DEF Rest
  <2> HIDE DEF old, stored, rest
  <2>6. Due(W(w), x)' \cap Due(Table, x)' = {}
    BY <1>3, <1>4, <1>5, <1>6, <1>9, <2>5
  <2> QED
    BY <1>3, <1>4, <1>6, <1>7, <1>9, <2>4, <2>5, <2>6, Places, MoveTwo
<1>10. CASE /\ Continues(r) /\ mode \in {"determined", "undetermined"}
            /\ ReturnsWithTick(w, Successor(r),
                      IF mode = "determined" THEN Pages[r.x] ELSE Successor(r).page)
  <2> DEFINE s == Successor(r)
             l == IF mode = "determined" THEN Pages[r.x] ELSE Successor(r).page
             t == [at |-> "check", r |-> s, last |-> l]
  <2>1. ReturnsWithTick(w, s, l)
    BY <1>10
  <2>2. s.x = r.x /\ s.page = NextPage(mode, r.page)
    <3>1. r.page < Pages[r.x]
      BY <1>2, <1>10 DEF Continues
    <3> QED
      BY <1>2, <3>1, SuccessorType DEF NextPage
  <2>3. s.page \in Nat
    BY <1>2, <2>2, CollectorAssumption DEF NextPage
  <2>4. FutureOf(mode, r.x, s.page .. l) = Rest(mode, r.x, r.page)
    <3>1. CASE mode = "determined"
      <4>1. s.page = 2
        BY <1>2, <1>10, <2>2, <3>1 DEF Continues, NextPage
      <4> QED
        BY <3>1, <4>1 DEF Rest
    <3>2. CASE mode = "undetermined"
      <4>1. FutureOf(mode, r.x, s.page .. s.page) = Future(mode, r.x, s.page)
        BY <2>3, FutureSplits
      <4> QED
        BY <2>2, <3>2, <4>1 DEF Rest
    <3> QED
      BY <1>10, <3>1, <3>2
  <2> HIDE DEF s, l
  <2>5. PICK g \in Tick : ticks[g].at = "idle" /\ ticks' = [ticks EXCEPT ![g] = t]
    BY <2>1 DEF ReturnsWithTick, Starts
  <2>6. pool' = [pool EXCEPT ![w] = IdleWorker]
    BY <2>1 DEF ReturnsWithTick
  <2>7. /\ pool'[w] = IdleWorker /\ \A v \in Worker : v # w => pool'[v] = pool[v]
        /\ ticks'[g] = t /\ \A h \in Tick : h # g => ticks'[h] = ticks[h]
    BY <2>5, <2>6, Typed, PoolChange, TickChange
  <2>8. \A a \in Place \ {W(w), Table, G(g)} : Due(a, x)' = Due(a, x)
    <3>1. \A v \in Worker : W(v) \in {W(w), Table, G(g)} \/ pool'[v] = pool[v]
      BY <2>7
    <3>2. \A h \in Tick : G(h) \in {W(w), Table, G(g)} \/ ticks'[h] = ticks[h]
      BY <2>7
    <3> QED
      BY <1>1, <3>1, <3>2, Frame
  <2>9. Due(W(w), x)' = {}
    <3>1. Due(W(w), x)' = TaskDue(mode', IdleWorker, x)
      BY <2>7, DueAt
    <3> QED
      BY <3>1, DueOf
  <2>10. Due(G(g), x) = {} /\ Due(G(g), x)' = rest
    <3>1. Due(G(g), x) = GoroutineDue(mode, ticks[g], x) /\ Due(G(g), x)' = GoroutineDue(mode, t, x)
      BY <1>1, <2>7, DueAt
    <3>2. GoroutineDue(mode, ticks[g], x) = {}
      BY <2>5, DueOf
    <3>3. GoroutineDue(mode, t, x) = IF s.x = x THEN FutureOf(mode, x, s.page .. l) ELSE {}
      BY DueOf
    <3> QED
      BY <2>2, <2>4, <3>1, <3>2, <3>3
  <2> HIDE DEF old, stored, rest, t
  <2>11. Due(Table, x)' \cap Due(G(g), x)' = {}
    BY <1>3, <1>4, <1>5, <1>6, <1>10, <2>10
  <2>12. Due(Table, x)' \cup Due(G(g), x)' = Due(W(w), x) \cup Due(Table, x) \cup Due(G(g), x)
    BY <1>3, <1>4, <1>6, <1>10, <2>10
  <2> QED
    BY <1>7, <2>8, <2>9, <2>11, <2>12, Places, MoveThree
<1>11. CASE HandlerStores(w)
  BY <1>8, <1>9, <1>10, <1>11 DEF HandlerStores, Returns, r
<1>12. CASE HandlerFails(w)
  <2>1. pool' = [pool EXCEPT ![w] = IdleWorker] /\ UNCHANGED ticks /\ Failed'
    BY <1>12 DEF HandlerFails, Panics, Failed
  <2> QED
    BY <1>8, <2>1
<1> QED
  BY <1>11, <1>12 DEF InsertsPage

\* A worker hands what follows its page to another worker.
LEMMA NestedSubmitsKeeps ==
    ASSUME TypeInv, Steady, NEW x \in Inputs, Kept(x), NEW w \in Worker,
           NestedSubmits(w, Successor(pool[w].r)), UNCHANGED <<rows, todo, main, chains>>
    PROVE  Kept(x)'
<1> DEFINE r == pool[w].r
           s == Successor(r)
<1>1. pool[w].at = "blocked" /\ UNCHANGED ticks /\ mode' = mode
  BY DEF NestedSubmits, Steady
<1>2. PICK v \in Worker : pool[v].at = "idle" /\ pool' = [pool EXCEPT ![v] = Submitted(s), ![w] = IdleWorker]
  BY DEF NestedSubmits, Takes
<1>3. /\ v # w /\ pool'[w] = IdleWorker /\ pool'[v] = Submitted(s)
      /\ \A u \in Worker : u # w /\ u # v => pool'[u] = pool[u]
  BY <1>1, <1>2, Typed
<1>4. s.x = r.x /\ s.page = NextPage(mode, r.page)
  <2>1. r \in Request
    BY <1>1, Typed
  <2>2. r.page < Pages[r.x]
    BY <1>1 DEF TypeInv, PagesBounded
  <2> QED
    BY <2>1, <2>2, SuccessorType DEF NextPage
<1> HIDE DEF s
<1>5. \A a \in Place \ {W(w), W(v)} : Due(a, x)' = Due(a, x)
  <2>1. \A u \in Worker : W(u) \in {W(w), W(v)} \/ pool'[u] = pool[u]
    BY <1>3
  <2> QED
    BY <1>1, <2>1, Frame
<1>6. /\ Due(W(w), x) = IF r.x = x THEN Future(mode, x, NextPage(mode, r.page)) ELSE {}
      /\ Due(W(w), x)' = {}
  <2>1. Due(W(w), x) = TaskDue(mode, pool[w], x) /\ Due(W(w), x)' = TaskDue(mode, IdleWorker, x)
    BY <1>1, <1>3, DueAt
  <2>2. TaskDue(mode, pool[w], x) = IF r.x = x THEN Future(mode, x, NextPage(mode, r.page)) ELSE {}
    BY <1>1 DEF TaskDue
  <2>3. TaskDue(mode, IdleWorker, x) = {}
    BY DueOf
  <2> QED
    BY <2>1, <2>2, <2>3
<1>7. /\ Due(W(v), x) = {}
      /\ Due(W(v), x)' = IF r.x = x THEN Future(mode, x, NextPage(mode, r.page)) ELSE {}
  <2>1. Due(W(v), x) = TaskDue(mode, pool[v], x) /\ Due(W(v), x)' = TaskDue(mode, Submitted(s), x)
    BY <1>1, <1>3, DueAt
  <2>2. TaskDue(mode, pool[v], x) = {}
    BY <1>2, DueOf
  <2>3. TaskDue(mode, Submitted(s), x) = IF s.x = x THEN Future(mode, x, s.page) ELSE {}
    BY DueOf
  <2> QED
    BY <1>4, <2>1, <2>2, <2>3
<1>8. W(w) # W(v)
  BY <1>3, Places
<1> QED
  BY <1>5, <1>6, <1>7, <1>8, Places, MoveTwo

\* A task that begins keeps what is due, or finds an error and drops it.
LEMMA TaskBeginsKeeps ==
    ASSUME TypeInv, Steady, NEW x \in Inputs, Kept(x), NEW w \in Worker,
           TaskBegins(w), UNCHANGED <<rows, todo, main, chains>>
    PROVE  Kept(x)'
<1>1. pool[w].at = "begin" /\ UNCHANGED ticks /\ mode' = mode
  BY DEF TaskBegins, Steady
<1>2. CASE HasError /\ pool' = [pool EXCEPT ![w] = IdleWorker]
  <2>1. Failed'
    BY <1>2 DEF Failed, Steady
  <2> QED
    BY <1>1, <1>2, <2>1, WorkerDrops
<1>3. CASE pool' = [pool EXCEPT ![w].at = "armed"]
  <2> DEFINE t == [pool[w] EXCEPT !.at = "armed"]
  <2>1. pool' = [pool EXCEPT ![w] = t] /\ t.at = "armed" /\ t.r = pool[w].r
    BY <1>1, <1>3, Typed DEF WorkerState, IdleWorker
  <2> HIDE DEF t
  <2>2. pool'[w] = t /\ \A v \in Worker : v # w => pool'[v] = pool[v]
    BY <2>1, Typed, PoolChange
  <2>3. \A a \in Place \ {W(w)} : Due(a, x)' = Due(a, x)
    <3>1. \A v \in Worker : W(v) \in {W(w)} \/ pool'[v] = pool[v]
      BY <2>2
    <3> QED
      BY <1>1, <3>1, Frame
  <2>4. Due(W(w), x)' = Due(W(w), x)
    <3>1. Due(W(w), x)' = TaskDue(mode, t, x) /\ Due(W(w), x) = TaskDue(mode, pool[w], x)
      BY <1>1, <2>2, DueAt
    <3>2. TaskDue(mode, t, x) = TaskDue(mode, pool[w], x)
      BY <1>1, <2>1 DEF TaskDue
    <3> QED
      BY <3>1, <3>2
  <2> QED
    BY <2>3, <2>4, Places, MoveOne
<1> QED
  BY <1>2, <1>3 DEF TaskBegins, Returns

\* So does a goroutine of NextTick.
LEMMA TickChecksKeeps ==
    ASSUME TypeInv, Steady, NEW x \in Inputs, Kept(x), NEW g \in Tick,
           TickChecks(g), UNCHANGED <<rows, todo, main, chains>>
    PROVE  Kept(x)'
<1>1. ticks[g].at = "check" /\ UNCHANGED pool /\ mode' = mode
  BY DEF TickChecks, Steady
<1>2. ASSUME NEW t, ticks' = [ticks EXCEPT ![g] = t],
             GoroutineDue(mode, t, x) \subseteq GoroutineDue(mode, ticks[g], x),
             Failed' \/ GoroutineDue(mode, t, x) = GoroutineDue(mode, ticks[g], x)
      PROVE  Kept(x)'
  <2>1. ticks'[g] = t /\ \A h \in Tick : h # g => ticks'[h] = ticks[h]
    BY <1>2, Typed, TickChange
  <2>2. \A a \in Place \ {G(g)} : Due(a, x)' = Due(a, x)
    <3>1. \A h \in Tick : G(h) \in {G(g)} \/ ticks'[h] = ticks[h]
      BY <2>1
    <3> QED
      BY <1>1, <3>1, Frame
  <2>3. Due(G(g), x)' = GoroutineDue(mode, t, x) /\ Due(G(g), x) = GoroutineDue(mode, ticks[g], x)
    BY <1>1, <2>1, DueAt
  <2> QED
    BY <1>2, <2>2, <2>3, Places, MoveOne
<1>3. CASE HasError /\ ticks' = [ticks EXCEPT ![g] = IdleTick]
  <2>1. Failed'
    BY <1>3 DEF Failed, Steady
  <2>2. GoroutineDue(mode, IdleTick, x) = {}
    BY DueOf
  <2> QED
    BY <1>2, <1>3, <2>1, <2>2
<1>4. CASE ticks' = [ticks EXCEPT ![g].at = "blocked"]
  <2> DEFINE t == [ticks[g] EXCEPT !.at = "blocked"]
  <2>1. /\ ticks' = [ticks EXCEPT ![g] = t]
        /\ t.at = "blocked" /\ t.r = ticks[g].r /\ t.last = ticks[g].last
    BY <1>1, <1>4, Typed DEF TickState, IdleTick
  <2> HIDE DEF t
  <2>2. GoroutineDue(mode, t, x) = GoroutineDue(mode, ticks[g], x)
    BY <1>1, <2>1 DEF GoroutineDue
  <2> QED
    BY <1>2, <2>1, <2>2
<1> QED
  BY <1>3, <1>4 DEF TickChecks

\* A worker gets the goroutine's next page, the goroutine keeps the others.
LEMMA TickSubmitsKeeps ==
    ASSUME TypeInv, PagesLeft, Steady, NEW x \in Inputs, Kept(x), NEW g \in Tick,
           TickSubmits(g), UNCHANGED <<rows, todo, main, chains>>
    PROVE  Kept(x)'
<1> DEFINE r == ticks[g].r
           last == ticks[g].last
<1>1. ticks[g].at = "blocked" /\ mode' = mode
  BY DEF TickSubmits, Steady
<1>2. PICK w \in Worker : pool[w].at = "idle" /\ pool' = [pool EXCEPT ![w] = Submitted(r)]
  BY DEF TickSubmits, Takes
<1>3. pool'[w] = Submitted(r) /\ \A v \in Worker : v # w => pool'[v] = pool[v]
  BY <1>2, Typed, PoolChange
<1>4. /\ r \in Request /\ last \in Nat /\ r.page \in Nat \ {0} /\ r.page <= last
      /\ mode \in Kinds
  BY <1>1, Typed
<1>5. PICK t : /\ ticks' = [ticks EXCEPT ![g] = t]
               /\ GoroutineDue(mode, t, x)
                     = IF r.x = x THEN FutureOf(mode, x, r.page + 1 .. last) ELSE {}
  <2>1. CASE r.page >= last /\ ticks' = [ticks EXCEPT ![g] = IdleTick]
    <3>1. r.page + 1 \in Nat /\ r.page + 1 > last
      BY <1>4, <2>1
    <3>2. FutureOf(mode, x, r.page + 1 .. last) = {}
      BY <1>4, <3>1, FutureSplits
    <3>3. GoroutineDue(mode, IdleTick, x) = {}
      BY DueOf
    <3> QED
      BY <2>1, <3>2, <3>3
  <2>2. CASE ticks' = [ticks EXCEPT ![g].at = "check", ![g].r.page = @ + 1]
    <3> DEFINE t == [ticks[g] EXCEPT !.at = "check", !.r.page = @ + 1]
    <3>1. ticks' = [ticks EXCEPT ![g] = t]
      BY <2>2
    <3>2. t = [ticks[g] EXCEPT !.at = "check", !.r = [r EXCEPT !.page = r.page + 1]]
      <4>1. ticks[g] \in [at : {"check", "blocked"}, r : Request, last : Nat]
        BY <1>1, Typed DEF TickState, IdleTick
      <4> QED
        BY <4>1
    <3> HIDE DEF t
    <3>3. [r EXCEPT !.page = r.page + 1].x = r.x /\ [r EXCEPT !.page = r.page + 1].page = r.page + 1
      <4>1. r = [x |-> r.x, page |-> r.page, retry |-> r.retry]
        BY <1>4, RequestType
      <4> QED
        BY <4>1
    <3>4. t.at = "check" /\ t.r.x = r.x /\ t.r.page = r.page + 1 /\ t.last = last
      <4>1. ticks[g] \in [at : {"check", "blocked"}, r : Request, last : Nat]
        BY <1>1, Typed DEF TickState, IdleTick
      <4> QED
        BY <3>2, <3>3, <4>1
    <3>5. GoroutineDue(mode, t, x) = IF r.x = x THEN FutureOf(mode, x, r.page + 1 .. last) ELSE {}
      BY <3>4 DEF GoroutineDue
    <3> QED
      BY <3>1, <3>5
  <2> QED
    BY <2>1, <2>2 DEF TickSubmits
<1>6. ticks'[g] = t /\ \A h \in Tick : h # g => ticks'[h] = ticks[h]
  BY <1>5, Typed, TickChange
<1>7. \A a \in Place \ {W(w), G(g)} : Due(a, x)' = Due(a, x)
  <2>1. \A v \in Worker : W(v) \in {W(w), G(g)} \/ pool'[v] = pool[v]
    BY <1>3
  <2>2. \A h \in Tick : G(h) \in {W(w), G(g)} \/ ticks'[h] = ticks[h]
    BY <1>6
  <2> QED
    BY <1>1, <2>1, <2>2, Frame
<1>8. Due(W(w), x) = {} /\ Due(W(w), x)' = IF r.x = x THEN Future(mode, x, r.page) ELSE {}
  <2>1. Due(W(w), x) = TaskDue(mode, pool[w], x) /\ Due(W(w), x)' = TaskDue(mode, Submitted(r), x)
    BY <1>1, <1>3, DueAt
  <2>2. TaskDue(mode, pool[w], x) = {}
    BY <1>2, DueOf
  <2>3. TaskDue(mode, Submitted(r), x) = IF r.x = x THEN Future(mode, x, r.page) ELSE {}
    BY DueOf
  <2> QED
    BY <2>1, <2>2, <2>3
<1>9. /\ Due(G(g), x) = IF r.x = x THEN FutureOf(mode, x, r.page .. last) ELSE {}
      /\ Due(G(g), x)' = IF r.x = x THEN FutureOf(mode, x, r.page + 1 .. last) ELSE {}
  <2>1. Due(G(g), x) = GoroutineDue(mode, ticks[g], x) /\ Due(G(g), x)' = GoroutineDue(mode, t, x)
    BY <1>1, <1>6, DueAt
  <2>2. GoroutineDue(mode, ticks[g], x) = IF r.x = x THEN FutureOf(mode, x, r.page .. last) ELSE {}
    BY <1>1 DEF GoroutineDue
  <2> QED
    BY <1>5, <2>1, <2>2
<1>10. FutureOf(mode, x, r.page .. last) = Future(mode, x, r.page) \cup FutureOf(mode, x, r.page + 1 .. last)
  BY <1>4, FutureSplits
<1>11. Future(mode, x, r.page) \cap FutureOf(mode, x, r.page + 1 .. last) = {}
  <2>1. CASE r.page = last
    <3>1. r.page + 1 \in Nat /\ r.page + 1 > last
      BY <1>4, <2>1
    <3>2. FutureOf(mode, x, r.page + 1 .. last) = {}
      BY <1>4, <3>1, FutureSplits
    <3> QED
      BY <3>2
  <2>2. CASE mode = "determined" /\ r.page >= 2
    BY <1>4, <2>2, FutureDistinct
  <2> QED
    BY <1>1, <2>1, <2>2 DEF PagesLeft
<1>12. W(w) # G(g)
  BY Places
<1> QED
  BY <1>7, <1>8, <1>9, <1>10, <1>11, <1>12, Places, MoveTwo

\* Every step keeps the pages of an input.
LEMMA KeptNext ==
    ASSUME TypeInv, PagesLeft, [Next]_vars, NEW x \in Inputs, Kept(x)
    PROVE  Kept(x)'
<1>0. Steady
  BY SteadyNext
<1>1. CASE MainStep
  BY <1>0, <1>1, NextInputKeeps, ExecuteKeeps, MainSubmitsKeeps, MainStartsChainKeeps DEF MainStep
<1>2. ASSUME NEW w \in Worker, WorkerStep(w) PROVE Kept(x)'
  <2>1. CASE Others /\ TaskBegins(w)
    BY <1>0, <2>1, TaskBeginsKeeps DEF Others
  <2>2. CASE Others /\ NestedSubmits(w, Successor(pool[w].r))
    BY <1>0, <2>2, NestedSubmitsKeeps DEF Others
  <2>3. CASE Others /\ TaskIsCanceled(w)
    <3>1. /\ pool' = [pool EXCEPT ![w] = IdleWorker] /\ Failed'
          /\ UNCHANGED <<ticks, rows, todo, main, chains>>
      BY <2>3 DEF Others, TaskIsCanceled, Panics, Failed
    <3> QED
      BY <1>0, <3>1, WorkerDrops
  <2>4. CASE HandlerFails(w) /\ UNCHANGED rows
    <3>1. /\ pool' = [pool EXCEPT ![w] = IdleWorker] /\ Failed'
          /\ UNCHANGED <<ticks, rows, todo, main, chains>>
      BY <2>4 DEF HandlerFails, Panics, Failed, Spectates
    <3> QED
      BY <1>0, <3>1, WorkerDrops
  <2>5. CASE RequestFails(w)
    <3>1. pool[w].at = "armed" /\ UNCHANGED <<rows, todo, main, chains>>
      BY <2>5 DEF RequestFails, Spectates
    <3>2. CASE Retry(w)
      BY <1>0, <3>1, <3>2, RetryKeeps
    <3>3. CASE Panics(w, IF canceled THEN "canceled" ELSE "failed") /\ UNCHANGED ticks
      <4>1. /\ pool' = [pool EXCEPT ![w] = IdleWorker] /\ Failed'
            /\ UNCHANGED <<ticks, rows, todo, main, chains>>
        BY <3>1, <3>3 DEF Panics, Failed
      <4> QED
        BY <1>0, <4>1, WorkerDrops
    <3> QED
      BY <2>5, <3>2, <3>3 DEF RequestFails
  <2>6. CASE RequestIgnored(w)
    <3>1. /\ pool' = [pool EXCEPT ![w] = IdleWorker]
          /\ x \in ignored' \/ pool[w].r.x # x
          /\ UNCHANGED <<ticks, rows, todo, main, chains>>
      BY <2>6 DEF RequestIgnored, Returns, Spectates
    <3> QED
      BY <1>0, <3>1, WorkerDrops
  <2>7. CASE InsertsPage(w)
    BY <1>0, <2>7, HandlerStoresKeeps
  <2>8. HandlerFails(w) => UNCHANGED rows \/ InsertsPage(w)
    BY DEF HandlerFails, InsertsPage
  <2>9. HandlerStores(w) => InsertsPage(w)
    BY DEF InsertsPage
  <2> QED
    BY <1>2, <2>1, <2>2, <2>3, <2>4, <2>5, <2>6, <2>7, <2>8, <2>9 DEF WorkerStep
<1>3. ASSUME NEW g \in Tick, TickStep(g) PROVE Kept(x)'
  BY <1>0, <1>3, TickChecksKeeps, TickSubmitsKeeps DEF TickStep, Others
<1>4. CASE RecordStep \/ CancelStep \/ UNCHANGED vars
  <2>1. UNCHANGED <<pool, ticks, rows, todo, main, chains>>
    BY <1>4 DEF RecordStep, Record, Others, CancelStep, Cancel, vars, scheduler
  <2>2. \A a \in Place : Due(a, x)' = Due(a, x)
    BY <1>0, <2>1, Frame DEF Steady
  <2> QED
    BY <1>0, <2>2, Places, MoveOne
<1> QED
  BY <1>1, <1>2, <1>3, <1>4 DEF Next

\* A page is inserted by the task where it is due, so it was not in the table.
LEMMA StoredOnceNext ==
    ASSUME TypeInv, [Next]_vars, \A x \in Inputs : OnePlaceEach(x), StoredOnce
    PROVE  StoredOnce'
<1>1. CASE UNCHANGED rows
  BY <1>1 DEF StoredOnce
<1>2. ASSUME NEW w \in Worker, InsertsPage(w) PROVE StoredOnce'
  <2> DEFINE r == pool[w].r
  <2>1. pool[w].at = "armed"
        /\ rows' = IF IsPage(r) THEN [rows EXCEPT ![r.x][r.page] = @ + 1] ELSE rows
    BY <1>2 DEF InsertsPage, HandlerStores, HandlerFails, Inserted
  <2>2. CASE IsPage(r)
    <3>1. r \in Request /\ mode \in Kinds /\ r.x \in Inputs
      BY <2>1, Typed
    <3>2. r.page \in Future(mode, r.x, r.page) /\ r.page \in 1 .. Pages[r.x]
      BY <2>2, <3>1, ContinuesSteps
    <3>3. Due(W(w), r.x) = Future(mode, r.x, r.page)
      <4>1. Due(W(w), r.x) = TaskDue(mode, pool[w], r.x)
        BY DueAt
      <4> QED
        BY <2>1, <4>1 DEF TaskDue
    <3>4. Due(W(w), r.x) \cap TableHas(rows, r.x) = {}
      <4>1. Due(W(w), r.x) \cap Due(Table, r.x) = {}
        BY <3>1, Places DEF OnePlaceEach
      <4> QED
        BY <4>1, DueAt
    <3>5. rows[r.x][r.page] = 0
      BY <3>2, <3>3, <3>4 DEF TableHas
    <3>6. DOMAIN rows = Inputs /\ \A y \in Inputs : rows[y] \in [1 .. Pages[y] -> Nat]
      BY DEF TypeInv, TypeOK
    <3>7. rows' = [rows EXCEPT ![r.x][r.page] = @ + 1]
      BY <2>1, <2>2
    <3> SUFFICES ASSUME NEW y \in Inputs, NEW p \in DOMAIN rows'[y]
                 PROVE  rows'[y][p] <= 1
      BY DEF StoredOnce
    <3>8. CASE y = r.x /\ p = r.page
      BY <3>1, <3>2, <3>5, <3>6, <3>7, <3>8
    <3>9. CASE ~(y = r.x /\ p = r.page)
      <4>1. p \in DOMAIN rows[y] /\ rows'[y][p] = rows[y][p]
        BY <3>1, <3>2, <3>6, <3>7, <3>9
      <4> QED
        BY <4>1 DEF StoredOnce
    <3> QED
      BY <3>8, <3>9
  <2>3. CASE ~IsPage(r)
    BY <1>1, <2>1, <2>3
  <2> QED
    BY <2>2, <2>3
<1>3. CASE MainStep
  BY <1>1, <1>3 DEF MainStep, NextInput, FetchFails, LoopEnds, MainChecks, MainSubmits,
                    MainStartsChain, MainWaits, MainReturns, Stays
<1>4. ASSUME NEW w \in Worker, WorkerStep(w) PROVE StoredOnce'
  <2>1. InsertsPage(w) \/ UNCHANGED rows
    BY <1>4 DEF WorkerStep, RequestFails, RequestIgnored, HandlerFails, InsertsPage, Others
  <2> QED
    BY <1>1, <1>2, <2>1
<1>5. ASSUME NEW g \in Tick, TickStep(g) PROVE StoredOnce'
  BY <1>1, <1>5 DEF TickStep, Others
<1>6. CASE RecordStep \/ CancelStep \/ UNCHANGED vars
  BY <1>1, <1>6 DEF RecordStep, CancelStep, Others, vars
<1> QED
  BY <1>3, <1>4, <1>5, <1>6 DEF Next

\* A goroutine is given one page, or the pages after the first of a known number.
LEMMA PagesLeftNext ==
    ASSUME TypeInv, [Next]_vars, PagesLeft
    PROVE  PagesLeft'
<1> DEFINE Fits(t) == t.at # "idle" => t.r.page = t.last \/ (mode = "determined" /\ t.r.page >= 2)
<1>0. mode' = mode
  BY SteadyNext DEF Steady
<1>1. CASE UNCHANGED ticks
  BY <1>0, <1>1 DEF PagesLeft
<1>2. ASSUME NEW g \in Tick, NEW t, ticks' = [ticks EXCEPT ![g] = t], Fits(t) PROVE PagesLeft'
  <2>1. ticks'[g] = t /\ \A h \in Tick : h # g => ticks'[h] = ticks[h]
    BY <1>2, Typed, TickChange
  <2> QED
    BY <1>0, <1>2, <2>1 DEF PagesLeft
<1>3. Fits(IdleTick)
  BY DEF IdleTick
<1>4. ASSUME NEW w, NEW r, NEW l, ReturnsWithTick(w, r, l),
             r.page = l \/ (mode = "determined" /\ r.page >= 2)
      PROVE  PagesLeft'
  <2> DEFINE t == [at |-> "check", r |-> r, last |-> l]
  <2>1. PICK g \in Tick : ticks' = [ticks EXCEPT ![g] = t]
    BY <1>4 DEF ReturnsWithTick
  <2>2. Fits(t)
    BY <1>4
  <2> QED
    BY <1>2, <2>1, <2>2
<1>5. CASE MainStartsChain
  <2> DEFINE r == [main.r EXCEPT !.page = ChainsOf(mode) + 1 - chains]
             t == [at |-> "check", r |-> r, last |-> r.page]
  <2>1. PICK g \in Tick : ticks' = [ticks EXCEPT ![g] = t]
    BY <1>5 DEF MainStartsChain, ChainsOf
  <2> HIDE DEF r
  <2>2. t.r.page = t.last
    OBVIOUS
  <2>3. Fits(t)
    BY <2>2
  <2> HIDE DEF t
  <2> QED
    BY <1>2, <2>1, <2>3
<1>6. ASSUME NEW w \in Worker, WorkerStep(w) PROVE PagesLeft'
  <2>1. CASE Retry(w)
    BY <1>4, <2>1 DEF Retry
  <2>2. CASE HandlerStores(w) /\ ~UNCHANGED ticks
    <3> DEFINE r == pool[w].r
               s == Successor(r)
               l == IF mode = "determined" THEN Pages[r.x] ELSE s.page
    <3>1. /\ pool[w].at = "armed" /\ Continues(r) /\ mode \in {"determined", "undetermined"}
          /\ ReturnsWithTick(w, s, l)
      BY <2>2 DEF HandlerStores
    <3>2. r \in Request /\ Pages[r.x] \in Nat /\ r.page \in Nat
      BY <3>1, Typed
    <3>3. r.page < Pages[r.x]
      BY <3>1, <3>2 DEF Continues
    <3>4. s.page = r.page + (IF mode = "undetermined" THEN Concurrency ELSE 1)
      BY <3>2, <3>3, SuccessorType
    <3>5. s.page = l \/ (mode = "determined" /\ s.page >= 2)
      <4>1. CASE mode = "determined"
        <5>1. r.page = 1
          BY <3>1, <4>1 DEF Continues
        <5> QED
          BY <3>4, <4>1, <5>1
      <4>2. CASE mode = "undetermined"
        BY <4>2
      <4> QED
        BY <3>1, <4>1, <4>2
    <3> HIDE DEF s, l
    <3> QED
      BY <1>4, <3>1, <3>5
  <2> QED
    BY <1>1, <1>6, <2>1, <2>2 DEF WorkerStep, RequestFails, RequestIgnored, HandlerFails,
                                  TaskBegins, TaskIsCanceled, NestedSubmits
<1>7. ASSUME NEW g \in Tick, TickStep(g) PROVE PagesLeft'
  <2>1. /\ ticks[g].at # "idle" /\ ticks[g] \in [at : {"check", "blocked"}, r : Request, last : Nat]
        /\ ticks[g].r.page \in Nat \ {0} /\ ticks[g].r \in Request /\ Fits(ticks[g])
    BY <1>7, Typed DEF TickStep, TickChecks, TickSubmits, TickState, IdleTick, PagesLeft
  <2>2. CASE ticks' = [ticks EXCEPT ![g] = IdleTick]
    BY <1>2, <1>3, <2>2
  <2>3. CASE ticks' = [ticks EXCEPT ![g].at = "blocked"]
    <3> DEFINE t == [ticks[g] EXCEPT !.at = "blocked"]
    <3>1. ticks' = [ticks EXCEPT ![g] = t] /\ t.r = ticks[g].r /\ t.last = ticks[g].last
      BY <2>1, <2>3
    <3>2. Fits(t)
      BY <2>1, <3>1
    <3> HIDE DEF t
    <3> QED
      BY <1>2, <3>1, <3>2
  <2>4. CASE /\ ticks[g].r.page < ticks[g].last
             /\ ticks' = [ticks EXCEPT ![g].at = "check", ![g].r.page = @ + 1]
    <3> DEFINE t == [ticks[g] EXCEPT !.at = "check", !.r.page = @ + 1]
    <3>1. ticks' = [ticks EXCEPT ![g] = t]
      BY <2>4
    <3>2. t.r = [ticks[g].r EXCEPT !.page = ticks[g].r.page + 1]
      BY <2>1
    <3>3. t.r.page = ticks[g].r.page + 1
      <4>1. ticks[g].r = [x |-> ticks[g].r.x, page |-> ticks[g].r.page, retry |-> ticks[g].r.retry]
        BY <2>1, RequestType
      <4> QED
        BY <3>2, <4>1
    <3> HIDE DEF t
    <3>4. mode = "determined" /\ ticks[g].r.page >= 2
      BY <2>1, <2>4
    <3> DEFINE p == ticks[g].r.page
    <3>5. p \in Nat /\ p >= 2 /\ t.r.page = p + 1
      BY <2>1, <3>3, <3>4
    <3> HIDE DEF p
    <3>6. t.r.page >= 2
      BY <3>5
    <3>7. Fits(t)
      BY <3>4, <3>6
    <3> QED
      BY <1>2, <3>1, <3>7
  <2> QED
    BY <1>7, <2>2, <2>3, <2>4 DEF TickStep, TickChecks, TickSubmits
<1>8. CASE NextInput \/ FetchFails \/ LoopEnds \/ MainChecks \/ MainSubmits \/ MainWaits \/ MainReturns
  BY <1>1, <1>8 DEF NextInput, FetchFails, LoopEnds, MainChecks, MainSubmits, MainWaits, MainReturns
<1>9. CASE RecordStep \/ CancelStep \/ UNCHANGED vars
  BY <1>1, <1>9 DEF RecordStep, Record, CancelStep, Cancel, vars, scheduler
<1> QED
  BY <1>5, <1>6, <1>7, <1>8, <1>9 DEF Next, MainStep

\* The loop over the inputs ends when they are all given, or on an error.
LEMMA AllGivenNext ==
    ASSUME TypeInv, [Next]_vars, AllGiven
    PROVE  AllGiven'
<1>1. CASE UNCHANGED <<main, todo>> /\ workerErrors \subseteq workerErrors'
  BY <1>1 DEF AllGiven, Returned, HasError
<1>2. CASE LoopEnds \/ FetchFails
  BY <1>2 DEF LoopEnds, FetchFails, Stays, AllGiven, Returned, HasError, TypeInv, TypeOK
<1>3. CASE NextInput \/ MainChecks \/ MainSubmits \/ MainStartsChain
  <2>1. main'.at \in {"submit", "chains", "loop", "blocked"}
    BY <1>3 DEF NextInput, Execute, MainChecks, MainSubmits, MainStartsChain, TypeInv, TypeOK
  <2> QED
    BY <2>1 DEF AllGiven, Returned
<1>4. CASE MainWaits \/ MainReturns
  <2>1. UNCHANGED <<todo, workerErrors>> /\ main.at \in {"wait", "final"}
    BY <1>4 DEF MainWaits, MainReturns, Stays
  <2> QED
    BY <2>1 DEF AllGiven, HasError
<1>5. ASSUME NEW w \in Worker, WorkerStep(w) PROVE AllGiven'
  BY <1>1, <1>5 DEF WorkerStep, TaskBegins, TaskIsCanceled, NestedSubmits, RequestFails,
        RequestIgnored, HandlerFails, HandlerStores, Retry, ReturnsWithTick, Returns, Panics,
        Others, Spectates
<1>6. ASSUME NEW g \in Tick, TickStep(g) PROVE AllGiven'
  BY <1>1, <1>6 DEF TickStep, TickChecks, TickSubmits, Others
<1>7. CASE RecordStep \/ CancelStep \/ UNCHANGED vars
  BY <1>1, <1>7 DEF RecordStep, Record, CancelStep, Cancel, Others, vars, scheduler
<1> QED
  BY <1>2, <1>3, <1>4, <1>5, <1>6, <1>7 DEF Next, MainStep

\* At first all that is wanted is due at the iterator.
LEMMA PagesInit == Init => PagesInv
<1> SUFFICES ASSUME Init PROVE PagesInv
  OBVIOUS
<1>1. /\ \A w \in Worker : pool[w].at = "idle"
      /\ \A g \in Tick : ticks[g].at = "idle"
      /\ main.at = "loop" /\ todo = asked /\ asked \subseteq Inputs
      /\ \A x \in Inputs : \A q \in 1 .. Pages[x] : rows[x][q] = 0
      /\ \A x \in Inputs : DOMAIN rows[x] = 1 .. Pages[x]
  BY DEF Init, SchedulerInit, IdleWorker, IdleTick
<1>2. ASSUME NEW x \in Inputs, NEW a \in Place \ {Iterator}
      PROVE  Due(a, x) = {}
  <2>1. CASE \E w \in Worker : a = W(w)
    <3>1. PICK w \in Worker : a = W(w)
      BY <2>1
    <3>2. Due(a, x) = TaskDue(mode, pool[w], x)
      BY <3>1, DueAt
    <3> QED
      BY <1>1, <3>2 DEF TaskDue
  <2>2. CASE \E g \in Tick : a = G(g)
    <3>1. PICK g \in Tick : a = G(g)
      BY <2>2
    <3>2. Due(a, x) = GoroutineDue(mode, ticks[g], x)
      BY <3>1, DueAt
    <3> QED
      BY <1>1, <3>2 DEF GoroutineDue
  <2>3. CASE a = Subtask
    BY <1>1, <2>3, DueAt DEF SubtaskDue
  <2>4. CASE a = Table
    <3>1. Due(a, x) = TableHas(rows, x)
      BY <2>4, DueAt
    <3> QED
      BY <1>1, <3>1 DEF TableHas
  <2> QED
    BY <1>2, <2>1, <2>2, <2>3, <2>4, Places
<1>3. \A x \in Inputs : OnePlaceEach(x)
  BY <1>2 DEF OnePlaceEach
<1>4. \A x \in asked : NoneLost(x)
  <2>1. \A x \in asked : Due(Iterator, x) = Wanted(mode, x)
    BY <1>1, DueAt DEF IteratorDue
  <2> QED
    BY <2>1, Places DEF NoneLost
<1>5. StoredOnce
  <2>1. \A x \in Inputs : \A p \in DOMAIN rows[x] : rows[x][p] = 0
    BY <1>1
  <2> QED
    BY <2>1 DEF StoredOnce
<1>6. PagesLeft /\ AllGiven
  BY <1>1 DEF PagesLeft, AllGiven, Returned
<1> QED
  BY <1>3, <1>4, <1>5, <1>6 DEF PagesInv, AllGiven

\* Every step keeps the invariant, in a typed state.
LEMMA PagesNext == TypeInv /\ PagesInv /\ [Next]_vars => PagesInv'
<1> SUFFICES ASSUME TypeInv, PagesInv, [Next]_vars PROVE PagesInv'
  OBVIOUS
<1>1. asked \subseteq Inputs /\ asked' = asked
  BY SteadyNext DEF TypeInv, TypeOK, Steady
<1>2. \A x \in Inputs : Kept(x)
  BY DEF PagesInv, Kept
<1>3. \A x \in Inputs : Kept(x)'
  BY <1>2, KeptNext DEF PagesInv
<1>4. StoredOnce' /\ PagesLeft' /\ AllGiven'
  BY StoredOnceNext, PagesLeftNext, AllGivenNext DEF PagesInv, AllGiven
<1> QED
  BY <1>1, <1>3, <1>4 DEF PagesInv, Kept, AllGiven

\* The pages of every collection are always kept.
LEMMA PagesInvariant == Spec => []PagesInv
  BY PagesInit, PagesNext, CollectorInvariant, PTL DEF Spec

-----------------------------------------------------------------------------
\* No page of any input is inserted into the raw table twice, in any kind of
\* paging, although requests are retried and chains run side by side.
THEOREM StoredAtMostOnce == Spec => []StoredOnce
<1>1. PagesInv => StoredOnce
  BY DEF PagesInv
<1> QED
  BY <1>1, PagesInvariant, PTL

\* When Execute returns nil, no error is among workerErrors and none is still to be
\* recorded there (the premise: FailureIsReported shows that nil alone does not say
\* so), every page of every input without an ignored response is in the raw table,
\* once: no request, chain or retry was lost on the way.
THEOREM NilMeansAllStored == Spec => []NilMeansComplete
<1>1. TypeInv /\ PagesInv /\ NothingLeftBehind => NilMeansComplete
  <2> SUFFICES ASSUME TypeInv, PagesInv, NothingLeftBehind,
                      Returned, ~HasError, unrecorded = {},
                      NEW x \in asked \ ignored,
                      NEW q \in 1 .. (IF mode = "single" THEN 1 ELSE Pages[x])
               PROVE  rows[x][q] = 1
    BY DEF NilMeansComplete
  <2>1. x \in Inputs /\ todo = {} /\ main.at = "returned"
    BY DEF TypeInv, TypeOK, PagesInv, AllGiven, Returned
  <2>2. PICK a \in Place : q \in Due(a, x)
    BY DEF PagesInv, NoneLost, Failed, Wanted
  <2>3. ASSUME NEW b \in Place \ {Table} PROVE Due(b, x) = {}
    <3>1. CASE \E w \in Worker : b = W(w)
      BY <3>1, DueAt DEF TaskDue, NothingLeftBehind
    <3>2. CASE \E g \in Tick : b = G(g)
      BY <3>2, DueAt DEF GoroutineDue, NothingLeftBehind
    <3>3. CASE b = Subtask
      BY <2>1, <3>3, DueAt DEF SubtaskDue
    <3>4. CASE b = Iterator
      BY <2>1, <3>4, DueAt DEF IteratorDue
    <3> QED
      BY <2>3, <3>1, <3>2, <3>3, <3>4, Places
  <2>4. q \in TableHas(rows, x)
    BY <2>2, <2>3, DueAt
  <2>5. q \in 1 .. Pages[x] /\ rows[x][q] # 0
    BY <2>4 DEF TableHas
  <2>6. rows[x] \in [1 .. Pages[x] -> Nat]
    BY <2>1 DEF TypeInv, TypeOK
  <2>7. rows[x][q] \in Nat /\ rows[x][q] <= 1
    BY <2>1, <2>5, <2>6 DEF PagesInv, StoredOnce
  <2> QED
    BY <2>5, <2>7
<1> QED
  BY <1>1, PagesInvariant, CollectorInvariant, NothingIsLeftBehind, PTL
=============================================================================
