------------------------- MODULE GraphqlAsyncClient -------------------------
(***************************************************************************)
(* GraphqlAsyncClient: one query at a time under a lock that is held while  *)
(* the query waits for the rate limit and between its retries; a goroutine  *)
(* that renews the rate when its timer fires; goroutines that NextTick      *)
(* starts and Wait waits for.                                               *)
(***************************************************************************)
EXTENDS Integers, FiniteSets

CONSTANTS
    Key,       \* what can be queried: pages of inputs
    NoKey,
    MaxRetry,  \* API_RETRY
    MaxRate,   \* bound on the rate limit that the server grants
    MaxTicks   \* bound on the goroutines that NextTick has started

ASSUME ClientAssumption ==
    /\ NoKey \notin Key
    /\ MaxRetry \in Nat
    /\ MaxRate \in Nat \ {0}
    /\ MaxTicks \in Nat

Tick == 1 .. MaxTicks
Fetcher == {0} \cup Tick   \* 0 is the subtask's own goroutine

VARIABLES
    renews,     \* whether getRateRemaining is given
    waitGroup,  \* calls of Add without their Done
    mu,         \* the holder of the lock, as a set
    rate,       \* rateRemaining
    canceled,   \* whether the context is done
    at,         \* where each goroutine stands
    key,        \* what it fetches
    retry,      \* its retryTime
    seen        \* rateRemaining as it was read to be charged

fetchers == <<at, key, retry, seen>>
context == <<canceled, renews>>
client == <<waitGroup, mu, rate, context, fetchers>>

\* Without getRateRemaining the rate is 0 and stays so.
ClientInit ==
    /\ renews \in BOOLEAN
    /\ waitGroup = 0
    /\ mu = {}
    /\ rate \in (IF renews THEN 0 .. MaxRate ELSE {0})
    /\ canceled = FALSE
    /\ at = [f \in Fetcher |-> "idle"]
    /\ key = [f \in Fetcher |-> NoKey]
    /\ retry = [f \in Fetcher |-> 0]
    /\ seen = [f \in Fetcher |-> 0]

Moves(f, from, to) == at[f] = from /\ at' = [at EXCEPT ![f] = to]

\* Query returns: both locks are given up, and the deferred Done runs.
Unlocks == mu' = {} /\ waitGroup' = waitGroup - 1

Lock(f) ==
    /\ Moves(f, "lock", "check")
    /\ mu = {}
    /\ mu' = {f}
    /\ UNCHANGED <<waitGroup, rate, context, key, retry, seen>>

\* The loop on the condition.  updateRateRemaining takes neither lock, so its
\* signal may come after the look at the rate and before the wait.
CheckRate(f) ==
    /\ Moves(f, "check", IF rate > 0 THEN "try" ELSE "drowsy")
    /\ UNCHANGED <<waitGroup, mu, rate, context, key, retry, seen>>

WaitForRate(f) ==
    /\ Moves(f, "drowsy", "asleep")
    /\ UNCHANGED <<waitGroup, mu, rate, context, key, retry, seen>>

Woken == [f \in Fetcher |-> IF at[f] = "asleep" THEN "check" ELSE at[f]]

\* A fault: nobody is woken.
RenewsSilently(n) ==
    /\ ~canceled
    /\ rate' = n
    /\ UNCHANGED at

\* updateRateRemaining, when the timer fires; the goroutine ends with the context.
Renews(n) ==
    /\ ~canceled
    /\ rate' = n
    /\ at' = IF n > 0 THEN Woken ELSE at

RenewRate ==
    /\ renews
    /\ \E n \in 0 .. MaxRate : Renews(n)
    /\ UNCHANGED <<waitGroup, mu, context, key, retry, seen>>

\* The error of the query is lost: an inner err hides the one that is wrapped
\* after the loop, and Wrap(nil) is nil.  A context that is done is no error
\* either.  In both cases the caller goes on with an answer that is empty.
QueryGivesUp(f) ==
    /\ Moves(f, "try", "storeEmpty")
    /\ canceled \/ retry[f] >= MaxRetry
    /\ Unlocks
    /\ UNCHANGED <<rate, context, key, retry, seen>>

\* The request fails and is tried again after a while.
QueryFails(f) ==
    /\ at[f] = "try"
    /\ retry[f] < MaxRetry
    /\ retry' = [retry EXCEPT ![f] = @ + 1]
    /\ UNCHANGED <<waitGroup, mu, rate, context, at, key, seen>>

\* The answer is there; its cost is read, subtracted and written back.
QueryAnswers(f) ==
    /\ Moves(f, "try", "charge")
    /\ retry[f] < MaxRetry
    /\ seen' = [seen EXCEPT ![f] = rate]
    /\ UNCHANGED <<waitGroup, mu, rate, context, key, retry>>

\* The request is under way when the context ends: this one error gets out.
QueryCanceled(f) ==
    /\ Moves(f, "try", "failed")
    /\ canceled /\ retry[f] < MaxRetry
    /\ Unlocks
    /\ UNCHANGED <<rate, context, key, retry, seen>>

\* The answer has errors in it: nothing is charged.
QueryRefused(f) ==
    /\ Moves(f, "try", "refused")
    /\ retry[f] < MaxRetry
    /\ Unlocks
    /\ UNCHANGED <<rate, context, key, retry, seen>>

Charge(f) ==
    /\ Moves(f, "charge", "store")
    /\ rate' = seen[f] - 1
    /\ Unlocks
    /\ UNCHANGED <<context, key, retry, seen>>

\* Goroutine f is through: a goroutine of NextTick calls Done.
Leaves(f) ==
    /\ at' = [at EXCEPT ![f] = "idle"]
    /\ key' = [key EXCEPT ![f] = NoKey]
    /\ retry' = [retry EXCEPT ![f] = 0]
    /\ seen' = [seen EXCEPT ![f] = 0]
    /\ waitGroup' = waitGroup - (IF f = 0 THEN 0 ELSE 1)

\* The outer goroutine of NextTick: when the context is done it returns and the
\* wait group keeps its count.
TickEnds(g) ==
    /\ at[g] = "spawned"
    /\ canceled
    /\ at' = [at EXCEPT ![g] = "idle"]
    /\ key' = [key EXCEPT ![g] = NoKey]
    /\ UNCHANGED <<waitGroup, mu, rate, context, retry, seen>>

\* The inner one runs the task, which begins with the Add of a query.
TickRuns(g) ==
    /\ Moves(g, "spawned", "lock")
    /\ ~canceled
    /\ waitGroup' = waitGroup + 1
    /\ UNCHANGED <<mu, rate, context, key, retry, seen>>

Spawns(g) == at[g] = "idle" /\ \A h \in 1 .. (g - 1) : at[h] # "idle"
=============================================================================
