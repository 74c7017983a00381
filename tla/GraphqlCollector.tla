-------------------------- MODULE GraphqlCollector --------------------------
(***************************************************************************)
(* GraphqlCollector.Execute.  The subtask's goroutine fetches the first     *)
(* page of each input, and a goroutine of NextTick each page that follows.  *)
(* A fetched page becomes a row of the raw table, and its records go        *)
(* through the batch into the tool table, with no lock at all.              *)
(***************************************************************************)
EXTENDS GraphqlAsyncClient, BatchSave, Sequences

CONSTANTS
    Inputs,    \* the inputs that there may be, numbers from 1
    Pages,     \* Pages[x]: how many pages input x has
    Results,   \* Results[k]: what the parser makes of the answer for page k
    Final,     \* pages for which it returns ErrFinishCollect with that
    Old,       \* the record in the raw row that an earlier run has left
    MaxFaults  \* bound on failures, and on the cancellation of the task

ASSUME GraphqlAssumption ==
    /\ Inputs \subseteq Nat \ {0} /\ IsFiniteSet(Inputs)
    /\ Pages \in [Inputs -> Nat \ {0}]
    /\ Key = UNION {{[x |-> x, page |-> p] : p \in 1 .. Pages[x]} : x \in Inputs}
    /\ Results \in [Key -> Seq(Record \ {Old})]
    /\ Final \subseteq Key
    /\ Old \in Record
    /\ MaxFaults \in Nat

VARIABLES
    paged,        \* whether GetPageInfo is given; if not, inputs have one page
    incremental,
    iterates,     \* whether it has an Input iterator
    tolerant,     \* whether its parser is a ResponseParserWithDataErrors
    asked,        \* the inputs of this collection
    todo,         \* those that the iterator has still to give
    main,         \* where Execute stands, and its result
    raw,          \* how many rows of the raw table hold each page
    oldRaw,       \* whether the raw row of the earlier run is there
    left,         \* the results that each goroutine has still to add
    hasError,     \* whether workerErrors holds anything
    empty,        \* pages that Query returned no answer for, and no error
    faults

args == <<paged, incremental, iterates, tolerant, asked>>
collected == <<raw, oldRaw, left, hasError, empty>>
vars == <<client, batch, args, todo, main, collected, faults>>

PageOf(x, p) == [x |-> x, page |-> p]

Init ==
    /\ ClientInit
    /\ BatchInit
    /\ table = {Old}
    /\ paged \in BOOLEAN
    /\ incremental \in BOOLEAN
    /\ iterates \in BOOLEAN
    /\ tolerant \in BOOLEAN
    /\ asked \in SUBSET Inputs
    /\ ~iterates => Cardinality(asked) = 1
    /\ todo = asked
    /\ main = [at |-> "start", result |-> "none"]
    /\ raw = [k \in Key |-> 0]
    /\ oldRaw = TRUE
    /\ left = [f \in Fetcher |-> <<>>]
    /\ hasError = FALSE
    /\ empty = {}
    /\ faults = 0

Fault == faults < MaxFaults /\ faults' = faults + 1

-----------------------------------------------------------------------------
(* Execute.                                                                 *)

\* A collection that is not incremental deletes the raw rows.  An incremental
\* one extracts them again, and closes the divider, which it goes on to use; an
\* error of this is kept for the end, like the error of a page.
Flushed(n) == table' = (table \ Outdated) \cup n

Begin ==
    /\ main.at = "start"
    /\ \/ /\ ~incremental
          /\ oldRaw' = FALSE
          /\ main' = [main EXCEPT !.at = "loop"]
          /\ UNCHANGED <<batch, hasError, faults>>
       \/ /\ ~incremental /\ Fault
          /\ main' = [at |-> "returned", result |-> "failed"]
          /\ UNCHANGED <<batch, oldRaw, hasError>>
       \/ /\ incremental /\ ~canceled
          /\ Flushed({Old}) /\ typed' = TRUE
          /\ main' = [main EXCEPT !.at = "loop"]
          /\ UNCHANGED <<slots, current, index, oldRaw, hasError, faults>>
       \/ /\ incremental
          /\ (canceled /\ UNCHANGED faults) \/ Fault
          /\ hasError' = TRUE
          /\ main' = [main EXCEPT !.at = "loop"]
          /\ UNCHANGED <<batch, oldRaw>>
    /\ UNCHANGED <<client, args, todo, raw, left, empty>>

\* exec: the first page of the next input, fetched by this very goroutine; also
\* when the input cannot be marshalled, or the iterator failed before it gave all
\* the items of one.
NextInput ==
    /\ main.at = "loop"
    /\ iterates => ~hasError
    /\ \E x \in todo :
        /\ \A y \in todo : x <= y
        /\ todo' = todo \ {x}
        /\ at' = [at EXCEPT ![0] = "lock"]
        /\ key' = [key EXCEPT ![0] = PageOf(x, 1)]
    /\ waitGroup' = waitGroup + 1
    /\ main' = [main EXCEPT !.at = "fetching"]
    /\ UNCHANGED <<hasError, faults>> \/ (Fault /\ hasError' = TRUE)
    /\ UNCHANGED <<mu, rate, context, retry, seen, batch, args, raw, oldRaw, left, empty>>

\* BuildQuery fails.
InputFails ==
    /\ main.at = "loop"
    /\ iterates => ~hasError
    /\ Fault
    /\ \E x \in todo : (\A y \in todo : x <= y) /\ todo' = todo \ {x}
    /\ hasError' = TRUE
    /\ UNCHANGED <<client, batch, args, main, raw, oldRaw, left, empty>>

\* The iterator fails, or there is an error, or there is no more input.
LoopEnds ==
    /\ main.at = "loop"
    /\ \/ (todo = {} \/ (iterates /\ hasError))
          /\ UNCHANGED <<hasError, faults>>
       \/ iterates /\ ~hasError /\ todo # {} /\ Fault /\ hasError' = TRUE
    /\ main' = [main EXCEPT !.at = "wait"]
    /\ UNCHANGED <<client, batch, args, todo, raw, oldRaw, left, empty>>

FetchReturns ==
    /\ main.at = "fetching"
    /\ at[0] = "idle"
    /\ main' = [main EXCEPT !.at = "loop"]
    /\ UNCHANGED <<client, batch, args, todo, collected, faults>>

\* A fault: Execute waits for the queries only, not for what comes of them.
QueriesDone == mu = {}

Waited == waitGroup = 0

\* Wait, then the error or the last records.
Returns ==
    /\ main.at = "wait"
    /\ Waited
    /\ \/ hasError /\ main' = [at |-> "returned", result |-> "failed"] /\ UNCHANGED <<batch, faults>>
       \/ ~hasError /\ main' = [at |-> "returned", result |-> "nil"] /\ CloseBatch /\ UNCHANGED faults
       \/ ~hasError /\ main' = [at |-> "returned", result |-> "failed"] /\ Fault /\ UNCHANGED batch
    /\ UNCHANGED <<client, args, todo, collected>>

-----------------------------------------------------------------------------
(* fetchAsync, from the answer of the query on.                             *)

Aside == UNCHANGED <<args, todo, main>>
Holds == UNCHANGED <<mu, rate, context>>

\* checkError, and the goroutine is through.
GivesUp(f) ==
    /\ Leaves(f)
    /\ left' = [left EXCEPT ![f] = <<>>]
    /\ hasError' = TRUE
    /\ Holds

\* An answer, or one with errors in it that the parser can deal with.
Answer(f) == at[f] = "store" \/ (at[f] = "refused" /\ tolerant)

\* The row of the raw table; an empty answer has one too, with no record in it
\* and no page that follows.
StoreRaw(f) ==
    /\ \/ /\ Answer(f)
          /\ at' = [at EXCEPT ![f] = "parse"]
          /\ raw' = [raw EXCEPT ![key[f]] = @ + 1]
          /\ UNCHANGED <<waitGroup, key, retry, seen, empty>>
       \/ /\ at[f] = "storeEmpty"
          /\ empty' = empty \cup {key[f]}
          /\ Leaves(f)
          /\ UNCHANGED raw
    /\ UNCHANGED <<oldRaw, left, hasError, batch, faults>> /\ Holds /\ Aside

\* BuildQuery or the query fails, the answer has errors in it, the row cannot be
\* inserted, or parsed when it was, or GetPageInfo fails.
FetchFails(f) ==
    /\ \/ /\ at[f] = "failed" \/ (at[f] = "refused" /\ ~tolerant)
          /\ UNCHANGED faults
       \/ /\ Answer(f) \/ at[f] \in {"storeEmpty", "parse"} \/ (at[f] = "next" /\ paged)
          /\ Fault
       \/ at[f] = "spawned" /\ ~canceled /\ Fault
    /\ GivesUp(f)
    /\ UNCHANGED <<raw, oldRaw, empty, batch>> /\ Aside

\* Where the goroutine goes on when it has results r still to add.
AddsNext(r) == IF r = <<>> THEN "next" ELSE "add"

\* The parser's results.
Parses(f) ==
    /\ Moves(f, "parse", AddsNext(Results[key[f]]))
    /\ left' = [left EXCEPT ![f] = Results[key[f]]]
    /\ UNCHANGED <<waitGroup, key, retry, seen, raw, oldRaw, hasError, empty, batch, faults>>
    /\ Holds /\ Aside

\* BatchSaveWithOrigin, one result after the other.
AddsRecord(f) ==
    /\ at[f] = "add"
    /\ left' = [left EXCEPT ![f] = Tail(@)]
    /\ \/ AddAgain(Head(left[f])) /\ Moves(f, "add", AddsNext(Tail(left[f])))
       \/ AddSlot(Head(left[f])) /\ Moves(f, "add", "count")
    /\ UNCHANGED <<waitGroup, key, retry, seen, raw, oldRaw, hasError, empty, faults>>
    /\ Holds /\ Aside

CountsRecord(f) ==
    /\ Moves(f, "count", AddsNext(left[f]))
    /\ AddCount
    /\ UNCHANGED <<waitGroup, key, retry, seen, collected, faults>> /\ Holds /\ Aside

BatchFails(f) ==
    /\ \/ at[f] = "add" /\ ForTypeFails
       \/ at[f] = "count" /\ AddCountFails
    /\ Fault
    /\ GivesUp(f)
    /\ UNCHANGED <<raw, oldRaw, empty>> /\ Aside

\* A fault: ErrFinishCollect does not end the paging.
MorePagesPastFinal(f) == paged /\ key[f].page < Pages[key[f].x]

\* The pages that follow the one of goroutine f.
MorePages(f) == paged /\ key[f] \notin Final /\ key[f].page < Pages[key[f].x]

\* NextTick's Add, and the Done of f if it is itself such a goroutine.
Spawn(f, g) ==
    /\ at' = [at EXCEPT ![f] = "idle", ![g] = "spawned"]
    /\ waitGroup' = waitGroup + 1 - (IF f = 0 THEN 0 ELSE 1)

\* The handler: NextTick for the page that follows, if there is one.
Handler(f) ==
    /\ at[f] = "next"
    /\ \/ ~MorePages(f) /\ Leaves(f)
       \/ /\ MorePages(f)
          /\ \E g \in Tick :
              /\ Spawns(g)
              /\ Spawn(f, g)
              /\ key' = [key EXCEPT ![f] = NoKey,
                            ![g] = PageOf(key[f].x, key[f].page + 1)]
          /\ retry' = [retry EXCEPT ![f] = 0]
          /\ seen' = [seen EXCEPT ![f] = 0]
    /\ UNCHANGED <<batch, collected, faults>> /\ Holds /\ Aside

-----------------------------------------------------------------------------
\* Nothing recovers the panic of a goroutine: the process ends.
ProcessEnds ==
    /\ main' = [at |-> "returned", result |-> "panic"]
    /\ at' = [f \in Fetcher |-> "idle"]
    /\ key' = [f \in Fetcher |-> NoKey]
    /\ retry' = [f \in Fetcher |-> 0]
    /\ seen' = [f \in Fetcher |-> 0]
    /\ left' = [f \in Fetcher |-> <<>>]
    /\ waitGroup' = 0
    /\ mu' = {}
    /\ UNCHANGED <<rate, context, batch, args, todo, raw, oldRaw, hasError, empty>>

\* The goroutine that renews the rate panics when the server does not answer it.
RenewPanics == renews /\ main.at # "returned" /\ Fault /\ ProcessEnds

BatchPanics(f) ==
    /\ at[f] = "add"
    /\ AddPanics(Head(left[f]))
    /\ ProcessEnds
    /\ UNCHANGED faults

\* The task is cancelled.
Cancel ==
    /\ ~canceled
    /\ Fault
    /\ canceled' = TRUE
    /\ UNCHANGED <<renews, waitGroup, mu, rate, fetchers, batch, args, todo, main, collected>>

MainStep == Begin \/ NextInput \/ InputFails \/ LoopEnds \/ FetchReturns \/ Returns

Others == UNCHANGED <<batch, args, todo, main, collected>>

FetcherStep(f) ==
    \/ Lock(f) /\ Others /\ UNCHANGED faults
    \/ CheckRate(f) /\ Others /\ UNCHANGED faults
    \/ WaitForRate(f) /\ Others /\ UNCHANGED faults
    \/ QueryGivesUp(f) /\ Others /\ UNCHANGED faults
    \/ QueryFails(f) /\ Others /\ ((canceled /\ UNCHANGED faults) \/ Fault)
    \/ QueryCanceled(f) /\ Others /\ UNCHANGED faults
    \/ QueryAnswers(f) /\ Others /\ UNCHANGED faults
    \/ Charge(f) /\ Others /\ UNCHANGED faults
    \/ QueryRefused(f) /\ Others /\ Fault
    \/ StoreRaw(f) \/ FetchFails(f) \/ Parses(f)
    \/ AddsRecord(f) \/ CountsRecord(f) \/ BatchFails(f) \/ BatchPanics(f)
    \/ Handler(f)

TickStep(g) == (TickEnds(g) \/ TickRuns(g)) /\ Others /\ UNCHANGED faults

RateStep == RenewRate /\ main.at # "returned" /\ Others /\ UNCHANGED faults

Next ==
    \/ MainStep
    \/ \E f \in Fetcher : FetcherStep(f)
    \/ \E g \in Tick : TickStep(g)
    \/ RateStep
    \/ RenewPanics
    \/ Cancel

\* Every goroutine that can run does, and every query has an answer.  The server
\* grants something again and again, as its periods end; renewals are
\* minutes apart, so whoever one wakes does not always find the next one done.
Fairness ==
    /\ WF_vars(MainStep)
    /\ \A f \in Fetcher : WF_vars(FetcherStep(f))
    /\ \A g \in Tick : WF_vars(TickStep(g))
    /\ \A f \in Fetcher : SF_vars(FetcherStep(f) /\ at[f] = "check" /\ rate > 0)
    /\ WF_vars(RateStep /\ rate' > 0)

Spec == Init /\ [][Next]_vars

FairSpec == Spec /\ Fairness
-----------------------------------------------------------------------------
(* Properties.                                                              *)

\* Only one goroutine at a time fetches: there are no pages that follow, or
\* the pages that do are of one input.
OneAtATime == ~paged \/ Cardinality(asked) <= 1

\* The page is not behind one where the parser ends the paging.
Due(k) ==
    /\ paged \/ k.page = 1
    /\ \A p \in 1 .. k.page - 1 : PageOf(k.x, p) \notin Final

Wanted == {k \in Key : k.x \in asked /\ Due(k)}

\* The records of a list of results.
RecordsIn(r) == {r[i] : i \in 1 .. Len(r)}
Collected == UNION {RecordsIn(Results[k]) : k \in Wanted}

\* When Execute returns nil and every query had its answer, the raw table has
\* each page of each input once, up to the one where the parser ends the paging.
NilMeansCollected ==
    main.result = "nil" /\ empty = {} =>
        \A k \in Key : raw[k] = (IF k \in Wanted THEN 1 ELSE 0)

\* If moreover one goroutine at a time fetched, the tool table has the records of
\* the raw rows.  What an earlier run has extracted is there too if the collection
\* was incremental, and also if no page had a record: outdated records are
\* deleted with the first record only.
NilMeansExtracted ==
    main.result = "nil" /\ empty = {} /\ OneAtATime =>
        table = Collected \cup (IF incremental \/ Collected = {} THEN {Old} ELSE {})

\* No batch is written with the same key twice, while one goroutine fetches.
BatchIsDistinct == OneAtATime => DistinctKeys

\* When Execute has returned no goroutine of it is left that could still write.
NothingLeftBehind ==
    main.at = "returned" => \A f \in Fetcher : at[f] = "idle"

\* Execute returns if nobody cancels it, however often the rate is used up and
\* whatever fails: the lock is given up and the wait group counts right.  A client
\* without getRateRemaining never gets to a query.
CollectionEnds == <>(main.at = "returned" \/ canceled \/ ~renews)

\* A query that fails for good is an error of the collection.
FailedQueryIsReported ==
    main.result = "nil" /\ ~canceled => empty = {}
=============================================================================
