----------------------- MODULE GraphqlCollectorProofs -----------------------
(***************************************************************************)
(* Proofs about GraphqlCollector: nothing is under way when Execute returns, *)
(* nil means that each page is in the raw table once, and, where one        *)
(* goroutine fetches at a time, that the tool table has the records.        *)
(***************************************************************************)
EXTENDS GraphqlCollector, FiniteSetTheorems, TLAPS

Querying == {"lock", "check", "drowsy", "asleep", "try", "charge"}
Answered == {"failed", "refused", "store", "storeEmpty"}
Stored == {"parse", "add", "count", "next"}   \* the row of the raw table is there
Places == {"idle", "spawned"} \cup Querying \cup Answered \cup Stored

TypeInv ==
    /\ waitGroup \in Int
    /\ at \in [Fetcher -> Places]
    /\ key \in [Fetcher -> Key \cup {NoKey}]
    /\ raw \in [Key -> Nat]
    /\ paged \in BOOLEAN /\ incremental \in BOOLEAN /\ hasError \in BOOLEAN /\ typed \in BOOLEAN
    /\ asked \subseteq Inputs /\ todo \subseteq asked
    /\ current \in Nat
    /\ slots \in [0 .. BatchSize - 1 -> Record \cup {NoRecord}]

\* Results are left to those who add them.
LeftInv ==
    /\ left \in [Fetcher -> Seq(Record)]
    /\ \A f \in Fetcher : at[f] \notin {"add", "count"} => left[f] = <<>>
    /\ \A f \in Fetcher : at[f] = "add" => left[f] # <<>>

\* A query counts once, and so does each goroutine of NextTick.
Running(a) ==
    Cardinality({f \in Fetcher : a[f] \in Querying}) + Cardinality({g \in Tick : a[g] # "idle"})

CountInv == waitGroup >= Running(at)

\* The subtask's goroutine, and its result.
Mains == [at : {"start", "loop", "fetching", "wait", "returned"},
          result : {"none", "nil", "failed", "panic"}]

MainInv ==
    /\ main \in Mains
    /\ main.result = "none" <=> main.at # "returned"
    /\ at[0] # "idle" => main.at = "fetching" /\ at[0] # "spawned"
    /\ main.at = "start" => todo = asked
    /\ main.at = "wait" => todo = {} \/ hasError
    /\ main.result = "nil" => todo = {} /\ ~hasError /\ waitGroup = 0

Active(f) == at[f] # "idle"
Fetches(f, x) == Active(f) /\ key[f].x = x

\* What the raw table has while goroutine f is at page key[f]: the pages before it,
\* and this one when its row was inserted.
RowsUpTo(f) ==
    \A k \in Key : k.x = key[f].x =>
        raw[k] = IF \/ k.page < key[f].page
                    \/ k.page = key[f].page /\ at[f] \in Stored
                 THEN 1 ELSE 0

\* When a page was given up.  The goroutine of NextTick that a cancellation ends does
\* so in silence, but it keeps Execute from returning.
Lost ==
    hasError \/ empty # {} \/ waitGroup > Running(at) \/ main.result = "panic"

\* An input is fetched by one goroutine after the other.
ChainInv ==
    /\ \A f \in Fetcher : Active(f) =>
          /\ key[f] \in Key /\ key[f].x \in asked \ todo
          /\ paged \/ (f = 0 /\ key[f].page = 1)
          /\ Due(key[f]) /\ RowsUpTo(f)
    /\ \A f, g \in Fetcher : Active(f) /\ Active(g) /\ key[f].x = key[g].x => f = g
    /\ \A k \in Key : k.x \notin asked \ todo => raw[k] = 0
    /\ \A x \in asked \ todo : Lost \/ (\E f \in Fetcher : Fetches(f, x)) \/
          \A k \in Key : k.x = x => raw[k] = IF Due(k) THEN 1 ELSE 0

\* The slots that are valid have records, each one once; the index has them, and the
\* one that is between its assignment and the increment.
BatchInv ==
    OneAtATime =>
        /\ current <= BatchSize
        /\ \A i \in 0 .. current - 1 : slots[i] \in Record
        /\ \A i, j \in 0 .. current - 1 : i # j => slots[i] # slots[j]
        /\ (\E f \in Fetcher : at[f] = "count") =>
              /\ current < BatchSize
              /\ slots[current] \in Record
              /\ \A i \in 0 .. current - 1 : slots[i] # slots[current]
              /\ index = Valid(current + 1)
        /\ main.at # "returned" /\ (\A f \in Fetcher : at[f] # "count") => index = Valid(current)

\* The records of the raw rows, as far as they were parsed, and those of them that
\* are still to be added.
Parsed == {k \in Key : raw[k] # 0 /\ \A h \in Fetcher : at[h] = "parse" => key[h] # k}
Added == UNION {RecordsIn(Results[k]) : k \in Parsed}
Waiting == UNION {RecordsIn(left[f]) : f \in Fetcher}
Kept == IF incremental THEN {Old} ELSE {}

\* What was added is in the table or in the batch, with what an incremental collection
\* has extracted again; what is outdated is deleted with the first record.
TableInv ==
    OneAtATime /\ ~hasError /\ main.at # "returned" =>
        /\ Waiting \subseteq Added
        /\ typed => /\ table \cup index \subseteq Kept \cup Added
                    /\ Kept \cup Added \subseteq table \cup index \cup Waiting
                    /\ incremental \/ Added # {}
        /\ ~typed => /\ table = {Old} /\ index = {} /\ Added \subseteq Waiting
                     /\ incremental => main.at = "start"

-----------------------------------------------------------------------------
(* Types.                                                                   *)

\* What is assumed of the constants, one by one.
LEMMA Bounds ==
    /\ NoKey \notin Key /\ MaxRetry \in Nat /\ MaxTicks \in Nat
    /\ BatchSize \in Nat \ {0} /\ NoRecord \notin Record
    /\ Inputs \subseteq Nat /\ IsFiniteSet(Inputs)
    /\ Results \in [Key -> Seq(Record)] /\ Old \in Record
    /\ 0 \in Fetcher /\ 0 \notin Tick /\ Tick \subseteq Fetcher
    /\ \A f \in Fetcher : f # 0 => f \in Tick
<1>1. MaxTicks \in Nat
  BY ClientAssumption
<1>2. 0 \notin Tick
  BY <1>1 DEF Tick
<1> QED
  BY <1>1, <1>2, ClientAssumption, BatchAssumption, GraphqlAssumption DEF Fetcher

\* Keys are the pages of inputs.
LEMMA KeyType ==
    /\ \A k \in Key : k.x \in Inputs /\ k.page \in Nat \ {0} /\ k.page <= Pages[k.x]
                      /\ k = PageOf(k.x, k.page)
    /\ \A x \in Inputs : \A p \in 1 .. Pages[x] :
          PageOf(x, p) \in Key /\ PageOf(x, p).x = x /\ PageOf(x, p).page = p
    /\ \A x \in Inputs : Pages[x] \in Nat \ {0} /\ 1 \in 1 .. Pages[x]
<1>1. /\ Pages \in [Inputs -> Nat \ {0}]
      /\ Key = UNION {{[x |-> x, page |-> p] : p \in 1 .. Pages[x]} : x \in Inputs}
  BY GraphqlAssumption
<1>2. \A x \in Inputs : Pages[x] \in Nat \ {0} /\ 1 \in 1 .. Pages[x]
  BY <1>1
<1>3. ASSUME NEW k \in Key
      PROVE  k.x \in Inputs /\ k.page \in Nat \ {0} /\ k.page <= Pages[k.x] /\ k = PageOf(k.x, k.page)
  <2>1. PICK x \in Inputs : k \in {[x |-> x, page |-> p] : p \in 1 .. Pages[x]}
    BY <1>1
  <2>2. PICK p \in 1 .. Pages[x] : k = [x |-> x, page |-> p]
    BY <2>1
  <2>3. k.x = x /\ k.page = p
    BY <2>2
  <2>4. p \in Nat \ {0} /\ p <= Pages[x]
    BY <1>2
  <2> QED
    BY <2>2, <2>3, <2>4 DEF PageOf
<1>4. ASSUME NEW x \in Inputs, NEW p \in 1 .. Pages[x]
      PROVE  PageOf(x, p) \in Key /\ PageOf(x, p).x = x /\ PageOf(x, p).page = p
  <2>1. PageOf(x, p) \in {[x |-> x, page |-> q] : q \in 1 .. Pages[x]}
    BY DEF PageOf
  <2> QED
    BY <2>1, <1>1 DEF PageOf
<1> QED
  BY <1>2, <1>3, <1>4

\* Two pages of an input with one number are one page.
LEMMA SamePage ==
    ASSUME NEW k \in Key, NEW l \in Key, k.x = l.x, k.page = l.page
    PROVE  k = l
  BY KeyType

\* Where a goroutine can move to.
LEMMA MoveType ==
    ASSUME TypeInv, NEW f \in Fetcher, NEW to \in Places
    PROVE  /\ [at EXCEPT ![f] = to] \in [Fetcher -> Places]
           /\ [at EXCEPT ![f] = to][f] = to
           /\ \A h \in Fetcher : h # f => [at EXCEPT ![f] = to][h] = at[h]
  BY DEF TypeInv

LEMMA LeaveType ==
    ASSUME TypeInv, NEW f \in Fetcher, Leaves(f)
    PROVE  /\ at' = [at EXCEPT ![f] = "idle"] /\ key' = [key EXCEPT ![f] = NoKey]
           /\ at' \in [Fetcher -> Places] /\ key' \in [Fetcher -> Key \cup {NoKey}]
           /\ at'[f] = "idle" /\ key'[f] = NoKey
           /\ \A h \in Fetcher : h # f => at'[h] = at[h] /\ key'[h] = key[h]
           /\ waitGroup' = waitGroup - (IF f = 0 THEN 0 ELSE 1) /\ waitGroup' \in Int
<1>1. "idle" \in Places
  BY DEF Places
<1> QED
  BY <1>1 DEF TypeInv, Leaves

\* Where Execute can go on to.
LEMMA MainTypes ==
    /\ \A m \in Mains : \A a \in {"loop", "fetching", "wait", "returned"} :
          /\ [m EXCEPT !.at = a] \in Mains
          /\ [m EXCEPT !.at = a].at = a /\ [m EXCEPT !.at = a].result = m.result
    /\ \A r \in {"nil", "failed", "panic"} : [at |-> "returned", result |-> r] \in Mains
  BY DEF Mains

\* What the batch's steps keep of its types.
BatchTyped == current \in Nat /\ typed \in BOOLEAN /\ slots \in [0 .. BatchSize - 1 -> Record \cup {NoRecord}]

LEMMA BatchTypes ==
    ASSUME BatchTyped
    PROVE  /\ \A r \in Record : AddAgain(r) \/ AddSlot(r) => BatchTyped'
           /\ AddCount \/ AddCountFails \/ ForTypeFails \/ CloseBatch => BatchTyped'
           /\ UNCHANGED batch => BatchTyped'
<1>1. ASSUME NEW r \in Record, AddAgain(r) PROVE BatchTyped'
  BY <1>1 DEF AddAgain, ForType, BatchTyped
<1>2. ASSUME NEW r \in Record, AddSlot(r) PROVE BatchTyped'
  <2>1. slots' \in [0 .. BatchSize - 1 -> Record \cup {NoRecord}]
    BY <1>2 DEF AddSlot, BatchTyped
  <2> QED
    BY <1>2, <2>1 DEF AddSlot, ForType, BatchTyped
<1>3. ASSUME AddCount \/ AddCountFails \/ ForTypeFails \/ CloseBatch PROVE BatchTyped'
  <2>1. UNCHANGED slots /\ (UNCHANGED typed \/ typed' = TRUE)
    BY <1>3 DEF AddCount, AddCountFails, ForTypeFails, CloseBatch, Flush, batch
  <2>2. current' \in {0, current, current + 1}
    BY <1>3 DEF AddCount, AddCountFails, ForTypeFails, CloseBatch, Flush, batch
  <2>3. current' \in Nat
    BY <2>2 DEF BatchTyped
  <2>4. typed' \in BOOLEAN
    BY <2>1 DEF BatchTyped
  <2> QED
    BY <2>1, <2>3, <2>4 DEF BatchTyped
<1>4. ASSUME UNCHANGED batch PROVE BatchTyped'
  BY <1>4 DEF batch, BatchTyped
<1> QED
  BY <1>1, <1>2, <1>3, <1>4

-----------------------------------------------------------------------------
(* The wait group.                                                          *)

\* How often goroutine f counts when it stands at a.
InQuery(a) == IF a \in Querying THEN 1 ELSE 0
Weight(f, a) == InQuery(a) + IF f # 0 /\ a # "idle" THEN 1 ELSE 0

\* A set that gains or loses at most one member.
LEMMA CardinalityChange ==
    ASSUME NEW U, IsFiniteSet(U), NEW A \in SUBSET U, NEW B \in SUBSET U,
           NEW e, \A i \in U : i # e => (i \in A <=> i \in B)
    PROVE  /\ Cardinality(A) \in Nat /\ Cardinality(B) \in Nat
           /\ Cardinality(A) + (IF e \in B THEN 1 ELSE 0)
                = Cardinality(B) + (IF e \in A THEN 1 ELSE 0)
<1>1. IsFiniteSet(A) /\ IsFiniteSet(B)
  BY FS_Subset
<1>2. Cardinality(A) \in Nat /\ Cardinality(B) \in Nat
  BY <1>1, FS_CardinalityType
<1>3. CASE e \in A /\ e \notin B
  <2>1. A = B \cup {e}
    BY <1>3
  <2> QED
    BY <1>1, <1>2, <1>3, <2>1, FS_AddElement
<1>4. CASE e \notin A /\ e \in B
  <2>1. B = A \cup {e}
    BY <1>4
  <2> QED
    BY <1>1, <1>2, <1>4, <2>1, FS_AddElement
<1>5. CASE e \in A <=> e \in B
  <2>1. \A i \in U : i \in A <=> i \in B
    BY <1>5
  <2>2. A = B
    BY <2>1
  <2> QED
    BY <1>2, <1>5, <2>2
<1> QED
  BY <1>3, <1>4, <1>5

\* One goroutine moves.
LEMMA RunningChange ==
    ASSUME NEW a, NEW b, NEW f \in Fetcher, \A h \in Fetcher : h # f => b[h] = a[h]
    PROVE  /\ Running(a) \in Nat /\ Running(b) \in Nat
           /\ Running(a) + Weight(f, b[f]) = Running(b) + Weight(f, a[f])
<1> DEFINE Q(c) == {h \in Fetcher : c[h] \in Querying}
           T(c) == {g \in Tick : c[g] # "idle"}
           A == Cardinality(Q(a))
           B == Cardinality(Q(b))
           C == Cardinality(T(a))
           D == Cardinality(T(b))
           qa == InQuery(a[f])
           qb == InQuery(b[f])
           ta == IF f # 0 /\ a[f] # "idle" THEN 1 ELSE 0
           tb == IF f # 0 /\ b[f] # "idle" THEN 1 ELSE 0
<1>1. IsFiniteSet(Tick) /\ IsFiniteSet(Fetcher)
  <2>1. IsFiniteSet(Tick)
    BY Bounds, FS_Interval DEF Tick
  <2>2. Fetcher = Tick \cup {0}
    BY DEF Fetcher
  <2> QED
    BY <2>1, <2>2, FS_AddElement
<1>2. /\ Q(a) \in SUBSET Fetcher /\ Q(b) \in SUBSET Fetcher
      /\ \A h \in Fetcher : h # f => (h \in Q(a) <=> h \in Q(b))
      /\ T(a) \in SUBSET Tick /\ T(b) \in SUBSET Tick
      /\ \A h \in Tick : h # f => (h \in T(a) <=> h \in T(b))
  BY Bounds
<1>3. /\ qa = (IF f \in Q(a) THEN 1 ELSE 0) /\ qb = (IF f \in Q(b) THEN 1 ELSE 0)
      /\ ta = (IF f \in T(a) THEN 1 ELSE 0) /\ tb = (IF f \in T(b) THEN 1 ELSE 0)
  BY Bounds DEF InQuery
<1> HIDE DEF Q, T
<1>4. A \in Nat /\ B \in Nat /\ A + qb = B + qa
  BY <1>1, <1>2, <1>3, CardinalityChange
<1>5. C \in Nat /\ D \in Nat /\ C + tb = D + ta
  BY <1>1, <1>2, <1>3, CardinalityChange
<1>6. qa \in Nat /\ qb \in Nat /\ ta \in Nat /\ tb \in Nat
  BY DEF InQuery
<1>7. Running(a) = A + C /\ Running(b) = B + D
  BY DEF Running, Q, T
<1>8. Weight(f, a[f]) = qa + ta /\ Weight(f, b[f]) = qb + tb
  BY DEF Weight
<1> HIDE DEF A, B, C, D, qa, qb, ta, tb
<1> QED
  BY <1>4, <1>5, <1>6, <1>7, <1>8

\* Where nobody moves between a query and the rest, the sum stays.
LEMMA RunningSame ==
    ASSUME NEW a, NEW b,
           \A h \in Fetcher : a[h] = b[h] \/ (a[h] \in Querying /\ b[h] \in Querying)
    PROVE  Running(a) = Running(b)
<1>1. {f \in Fetcher : a[f] \in Querying} = {f \in Fetcher : b[f] \in Querying}
  OBVIOUS
<1>2. {g \in Tick : a[g] # "idle"} = {g \in Tick : b[g] # "idle"}
  BY Bounds DEF Querying
<1> QED
  BY <1>1, <1>2 DEF Running

\* The wait group counts right if one goroutine moves and it changes by as much.
LEMMA CountKept ==
    ASSUME TypeInv, CountInv, NEW f \in Fetcher, NEW n \in Int,
           \A h \in Fetcher : h # f => at'[h] = at[h],
           waitGroup' = waitGroup + n, n + Weight(f, at[f]) >= Weight(f, at'[f])
    PROVE  /\ waitGroup' \in Int /\ CountInv'
           /\ waitGroup > Running(at) => waitGroup' > Running(at')
           /\ n + Weight(f, at[f]) > Weight(f, at'[f]) => waitGroup' > Running(at')
<1>1. /\ Running(at) \in Nat /\ Running(at') \in Nat
      /\ Running(at) + Weight(f, at'[f]) = Running(at') + Weight(f, at[f])
  BY RunningChange
<1>2. Weight(f, at[f]) \in Nat /\ Weight(f, at'[f]) \in Nat
  BY DEF Weight, InQuery
<1>3. waitGroup \in Int /\ waitGroup >= Running(at)
  BY DEF TypeInv, CountInv
<1>4. waitGroup' - Running(at') = (waitGroup - Running(at)) + (n + Weight(f, at[f]) - Weight(f, at'[f]))
  BY <1>1, <1>2, <1>3
<1>5. waitGroup' >= Running(at')
  BY <1>1, <1>2, <1>3, <1>4
<1> QED
  BY <1>1, <1>2, <1>3, <1>4, <1>5 DEF CountInv

\* Nothing counts: nobody is under way.
LEMMA NobodyRuns ==
    ASSUME CountInv, waitGroup = 0, at[0] = "idle"
    PROVE  \A f \in Fetcher : at[f] = "idle"
<1> DEFINE Q == {f \in Fetcher : at[f] \in Querying}
           T == {g \in Tick : at[g] # "idle"}
<1>1. IsFiniteSet(T) /\ IsFiniteSet(Q)
  <2>1. IsFiniteSet(Tick)
    BY Bounds, FS_Interval DEF Tick
  <2>2. Fetcher = Tick \cup {0}
    BY DEF Fetcher
  <2>3. IsFiniteSet(Fetcher)
    BY <2>1, <2>2, FS_AddElement
  <2> QED
    BY <2>1, <2>3, FS_Subset
<1>2. Cardinality(T) \in Nat /\ Cardinality(Q) \in Nat
  BY <1>1, FS_CardinalityType
<1>3. 0 >= Cardinality(Q) + Cardinality(T)
  BY DEF CountInv, Running
<1> HIDE DEF Q, T
<1>4. Cardinality(T) = 0
  BY <1>2, <1>3
<1>5. T = {}
  BY <1>1, <1>4, FS_EmptySet
<1> QED
  BY <1>5, Bounds DEF T

-----------------------------------------------------------------------------
(* The steps, by what they do to goroutines and pages.                      *)

Only(f) == \A h \in Fetcher : h # f => at'[h] = at[h] /\ key'[h] = key[h]
Execution == <<args, todo, main>>
Pending == <<raw, left, hasError, empty>>

\* Nobody gets further than to another place in its query.
QueryMoves ==
    /\ \A h \in Fetcher : at'[h] = at[h] \/ (at[h] \in Querying /\ at'[h] \in Querying)
    /\ at' \in [Fetcher -> Places]
    /\ UNCHANGED <<waitGroup, key>> /\ UNCHANGED Execution /\ UNCHANGED Pending /\ UNCHANGED batch

Answers(f) ==
    /\ at[f] \in Querying /\ at'[f] \in Answered /\ Only(f)
    /\ at' \in [Fetcher -> Places] /\ waitGroup' = waitGroup - 1
    /\ UNCHANGED key /\ UNCHANGED Execution /\ UNCHANGED Pending /\ UNCHANGED batch

Inserts(f) ==
    /\ at[f] \in Answered /\ at'[f] = "parse" /\ Only(f)
    /\ at' \in [Fetcher -> Places]
    /\ raw' = [raw EXCEPT ![key[f]] = @ + 1]
    /\ UNCHANGED <<waitGroup, key, left, hasError, empty>> /\ UNCHANGED Execution /\ UNCHANGED batch

\* A page is given up: with an error, except for an answer that is empty.
Loses(f) ==
    /\ at[f] \in {"spawned"} \cup Answered \cup Stored /\ Leaves(f)
    /\ UNCHANGED raw /\ UNCHANGED Execution
    /\ \/ /\ empty' # {} /\ UNCHANGED left /\ UNCHANGED hasError /\ UNCHANGED batch
          /\ at[f] \in Answered
       \/ /\ hasError' = TRUE /\ UNCHANGED empty /\ left' = [left EXCEPT ![f] = <<>>]
          /\ \/ at[f] \notin {"add", "count"} /\ UNCHANGED batch
             \/ at[f] = "add" /\ ForTypeFails
             \/ at[f] = "count" /\ AddCountFails

Batches(f) == Parses(f) \/ AddsRecord(f) \/ CountsRecord(f)

Finishes(f) ==
    /\ at[f] = "next" /\ ~MorePages(f) /\ Leaves(f)
    /\ UNCHANGED Execution /\ UNCHANGED Pending /\ UNCHANGED batch

Follows(f, g) ==
    /\ at[f] = "next" /\ MorePages(f) /\ at[g] = "idle"
    /\ Spawn(f, g)
    /\ key' = [key EXCEPT ![f] = NoKey, ![g] = PageOf(key[f].x, key[f].page + 1)]
    /\ UNCHANGED Execution /\ UNCHANGED Pending /\ UNCHANGED batch

TickMoves(g) == (TickRuns(g) \/ TickEnds(g)) /\ Others

MainMoves == Begin \/ LoopEnds \/ FetchReturns \/ Returns

LEMMA RateMoves ==
    ASSUME TypeInv, NEW n \in 0 .. MaxRate, Renews(n), Others,
           UNCHANGED <<waitGroup, mu, canceled, key, retry, seen>>
    PROVE  QueryMoves
<1>1. /\ Woken \in [Fetcher -> Places]
      /\ \A h \in Fetcher : Woken[h] = at[h] \/ (at[h] \in Querying /\ Woken[h] \in Querying)
  BY DEF TypeInv, Woken, Places, Querying
<1>2. at' = Woken \/ at' = at
  BY DEF Renews
<1> QED
  BY <1>1, <1>2 DEF Others, QueryMoves, Execution, Pending, collected, TypeInv

LEMMA FetcherSteps ==
    ASSUME TypeInv, NEW f \in Fetcher, FetcherStep(f)
    PROVE  \/ QueryMoves \/ Answers(f) \/ Inserts(f) \/ Loses(f) \/ Batches(f) \/ Finishes(f)
           \/ (\E g \in Tick : Follows(f, g)) \/ (ProcessEnds /\ at[f] = "add")
<1>1. ASSUME Others PROVE UNCHANGED Execution /\ UNCHANGED Pending /\ UNCHANGED batch
  BY <1>1 DEF Others, Execution, Pending, collected
<1>2. ASSUME NEW from \in Querying, NEW to \in Querying, Moves(f, from, to),
             UNCHANGED <<waitGroup, key>>, Others
      PROVE  QueryMoves
  <2>1. to \in Places
    BY DEF Places
  <2>2. /\ at' \in [Fetcher -> Places] /\ at'[f] = to /\ at[f] = from
        /\ \A h \in Fetcher : h # f => at'[h] = at[h]
    BY <1>2, <2>1, MoveType DEF Moves
  <2> QED
    BY <1>1, <1>2, <2>2 DEF QueryMoves
<1>3. ASSUME NEW from \in Querying, NEW to \in Answered, Moves(f, from, to),
             waitGroup' = waitGroup - 1, UNCHANGED key, Others
      PROVE  Answers(f)
  <2>1. to \in Places
    BY DEF Places
  <2>2. /\ at' \in [Fetcher -> Places] /\ at'[f] = to /\ at[f] = from
        /\ \A h \in Fetcher : h # f => at'[h] = at[h]
    BY <1>3, <2>1, MoveType DEF Moves
  <2> QED
    BY <1>1, <1>3, <2>2 DEF Answers, Only
<1>4. CASE Lock(f) /\ Others
  BY <1>2, <1>4 DEF Lock, Querying
<1>5. CASE CheckRate(f) /\ Others
  <2>1. (IF rate > 0 THEN "try" ELSE "drowsy") \in Querying
    BY DEF Querying
  <2> QED
    BY <1>2, <1>5, <2>1 DEF CheckRate, Querying
<1>6. CASE WaitForRate(f) /\ Others
  BY <1>2, <1>6 DEF WaitForRate, Querying
<1>7. CASE QueryAnswers(f) /\ Others
  BY <1>2, <1>7 DEF QueryAnswers, Querying
<1>8. CASE QueryFails(f) /\ Others
  BY <1>1, <1>8 DEF QueryFails, QueryMoves, TypeInv
<1>18. CASE QueryCanceled(f) /\ Others
  BY <1>3, <1>18 DEF QueryCanceled, Unlocks, Querying, Answered
<1>9. CASE QueryGivesUp(f) /\ Others
  BY <1>3, <1>9 DEF QueryGivesUp, Unlocks, Querying, Answered
<1>10. CASE Charge(f) /\ Others
  BY <1>3, <1>10 DEF Charge, Unlocks, Querying, Answered
<1>11. CASE QueryRefused(f) /\ Others
  BY <1>3, <1>11 DEF QueryRefused, Unlocks, Querying, Answered
<1>12. CASE StoreRaw(f)
  <2>1. UNCHANGED Execution /\ UNCHANGED <<left, hasError>> /\ UNCHANGED batch
    BY <1>12 DEF StoreRaw, Aside, Execution
  <2>2. CASE Answer(f) /\ at' = [at EXCEPT ![f] = "parse"] /\ raw' = [raw EXCEPT ![key[f]] = @ + 1]
             /\ UNCHANGED <<waitGroup, key, retry, seen, empty>>
    <3>1. "parse" \in Places
      BY DEF Places, Stored
    <3>2. /\ at' \in [Fetcher -> Places] /\ at'[f] = "parse" /\ at[f] \in Answered
          /\ \A h \in Fetcher : h # f => at'[h] = at[h]
      BY <2>2, <3>1, MoveType DEF Answer, Answered
    <3> QED
      BY <2>1, <2>2, <3>2 DEF Inserts, Only
  <2>3. CASE at[f] = "storeEmpty" /\ empty' = empty \cup {key[f]} /\ Leaves(f) /\ UNCHANGED raw
    <3>1. empty' # {}
      BY <2>3
    <3> QED
      BY <2>1, <2>3, <3>1 DEF Loses, Answered
  <2> QED
    BY <1>12, <2>2, <2>3 DEF StoreRaw
<1>13. CASE FetchFails(f)
  <2>1. at[f] \in {"spawned"} \cup Answered \cup Stored /\ at[f] \notin {"add", "count"}
    BY <1>13 DEF FetchFails, Answer, Answered, Stored
  <2> QED
    BY <1>13, <2>1 DEF FetchFails, GivesUp, Loses, Aside, Execution
<1>14. CASE BatchFails(f)
  BY <1>14 DEF BatchFails, GivesUp, Loses, Aside, Execution, Stored
<1>15. CASE Handler(f)
  <2>1. /\ UNCHANGED Execution /\ UNCHANGED Pending /\ UNCHANGED batch /\ at[f] = "next"
    BY <1>15 DEF Handler, Aside, Execution, Pending, collected
  <2>2. CASE ~MorePages(f) /\ Leaves(f)
    BY <2>1, <2>2 DEF Finishes
  <2>3. ASSUME MorePages(f), NEW g \in Tick, Spawns(g), Spawn(f, g),
               key' = [key EXCEPT ![f] = NoKey, ![g] = PageOf(key[f].x, key[f].page + 1)]
        PROVE  Follows(f, g)
    BY <2>1, <2>3 DEF Follows, Spawns
  <2> QED
    BY <1>15, <2>2, <2>3 DEF Handler
<1>16. CASE BatchPanics(f)
  BY <1>16 DEF BatchPanics
<1>17. CASE Parses(f) \/ AddsRecord(f) \/ CountsRecord(f)
  BY <1>17 DEF Batches
<1> QED
  BY <1>4, <1>5, <1>6, <1>7, <1>8, <1>9, <1>10, <1>11, <1>12, <1>13, <1>14, <1>15, <1>16, <1>17,
     <1>18 DEF FetcherStep

LEMMA Steps ==
    ASSUME TypeInv, [Next]_vars
    PROVE  \/ QueryMoves \/ NextInput \/ InputFails \/ MainMoves
           \/ (ProcessEnds /\ main.at # "returned")
           \/ \E f \in Fetcher : \/ Answers(f) \/ Inserts(f) \/ Loses(f) \/ Batches(f)
                                 \/ Finishes(f) \/ (\E g \in Tick : Follows(f, g))
                                 \/ (ProcessEnds /\ at[f] = "add")
           \/ \E g \in Tick : TickMoves(g)
<1>1. CASE UNCHANGED vars
  BY <1>1 DEF vars, client, fetchers, collected, QueryMoves, Execution, Pending, TypeInv
<1>2. CASE MainStep
  BY <1>2 DEF MainStep, MainMoves
<1>3. ASSUME NEW f \in Fetcher, FetcherStep(f)
      PROVE  \/ QueryMoves
             \/ Answers(f) \/ Inserts(f) \/ Loses(f) \/ Batches(f)
             \/ Finishes(f) \/ (\E g \in Tick : Follows(f, g))
             \/ (ProcessEnds /\ at[f] = "add")
  BY <1>3, FetcherSteps
<1>4. ASSUME NEW g \in Tick, TickStep(g)
      PROVE  TickMoves(g)
  BY <1>4 DEF TickStep, TickMoves
<1>5. CASE RateStep
  BY <1>5, RateMoves DEF RateStep, RenewRate, context
<1>6. CASE RenewPanics
  BY <1>6 DEF RenewPanics
<1>7. CASE Cancel
  BY <1>7 DEF Cancel, fetchers, collected, QueryMoves, Execution, Pending, TypeInv
<1> QED
  BY <1>1, <1>2, <1>3, <1>4, <1>5, <1>6, <1>7 DEF Next

-----------------------------------------------------------------------------
(* Pages.                                                                   *)

LEMMA DueSame ==
    ASSUME UNCHANGED paged
    PROVE  \A k : Due(k)' <=> Due(k)
  BY DEF Due

\* The pages that are due begin with the first one, and end with one behind which
\* none follows.
LEMMA DueFirst ==
    ASSUME NEW k \in Key, k.page = 1
    PROVE  Due(k)
  BY DEF Due

LEMMA DueBefore ==
    ASSUME NEW k \in Key, NEW l \in Key, k.x = l.x, k.page <= l.page, Due(l)
    PROVE  Due(k)
<1>1. k.page \in Nat \ {0} /\ l.page \in Nat \ {0}
  BY KeyType
<1>2. paged \/ k.page = 1
  BY <1>1 DEF Due
<1>3. \A p \in 1 .. k.page - 1 : p \in 1 .. l.page - 1
  BY <1>1
<1> QED
  BY <1>2, <1>3 DEF Due

LEMMA DueEnds ==
    ASSUME NEW k \in Key, NEW l \in Key, k.x = l.x, l.page < k.page, l \in Final \/ ~paged
    PROVE  ~Due(k)
<1>1. k.page \in Nat \ {0} /\ l.page \in Nat \ {0} /\ l = PageOf(k.x, l.page)
  BY KeyType
<1>2. k.page # 1 /\ l.page \in 1 .. k.page - 1
  BY <1>1
<1> QED
  BY <1>1, <1>2 DEF Due

LEMMA DueNext ==
    ASSUME NEW k \in Key, NEW l \in Key, k.x = l.x, k.page = l.page + 1, Due(l), l \notin Final, paged
    PROVE  Due(k)
<1>1. l.page \in Nat \ {0} /\ l = PageOf(k.x, l.page)
  BY KeyType
<1>2. \A p \in 1 .. k.page - 1 : p \in 1 .. l.page - 1 \/ p = l.page
  BY <1>1
<1> QED
  BY <1>1, <1>2 DEF Due

\* Nobody begins, ends or stores.
LEMMA ChainSame ==
    ASSUME ChainInv, Lost => Lost',
           \A h \in Fetcher : /\ at'[h] = "idle" <=> at[h] = "idle"
                              /\ at'[h] \in Stored <=> at[h] \in Stored,
           UNCHANGED <<key, raw, todo, asked, paged>>
    PROVE  ChainInv'
<1>1. \A h \in Fetcher : Active(h)' <=> Active(h)
  BY DEF Active
<1>2. \A h \in Fetcher : \A x : Fetches(h, x)' <=> Fetches(h, x)
  BY <1>1 DEF Fetches
<1>3. \A h \in Fetcher : RowsUpTo(h)' <=> RowsUpTo(h)
  BY DEF RowsUpTo
<1> QED
  BY DueSame, <1>1, <1>2, <1>3 DEF ChainInv

\* A goroutine ends: its page was the last of the input, or something is lost.
LEMMA ChainLeaves ==
    ASSUME TypeInv, ChainInv, Lost => Lost',
           NEW f \in Fetcher, Active(f), at'[f] = "idle", Only(f),
           UNCHANGED <<raw, todo, asked, paged>>,
           Lost' \/ (~MorePages(f) /\ at[f] \in Stored)
    PROVE  ChainInv'
<1>1. /\ \A h \in Fetcher : h # f => (Active(h)' <=> Active(h))
      /\ ~Active(f)'
  BY DEF Active, Only
<1>2. \A h \in Fetcher : h # f => (RowsUpTo(h)' <=> RowsUpTo(h))
  BY DEF RowsUpTo, Only
<1>3. \A h \in Fetcher : h # f => key'[h] = key[h]
  BY DEF Only
<1>4. ASSUME NEW x \in asked \ todo, ~Lost'
      PROVE  \/ (\E h \in Fetcher : Fetches(h, x)')
             \/ \A k \in Key : k.x = x => raw[k] = IF Due(k) THEN 1 ELSE 0
  <2>1. CASE x = key[f].x
    <3>1. ~MorePages(f) /\ at[f] \in Stored /\ RowsUpTo(f) /\ key[f] \in Key
      BY <1>4 DEF ChainInv
    <3>2. paged \/ key[f].page = 1
      BY DEF ChainInv
    <3> SUFFICES ASSUME NEW k \in Key, k.x = x
                 PROVE  raw[k] = IF Due(k) THEN 1 ELSE 0
      OBVIOUS
    <3>3. raw[k] = IF k.page < key[f].page \/ k.page = key[f].page THEN 1 ELSE 0
      BY <2>1, <3>1 DEF RowsUpTo
    <3>7. Due(key[f])
      BY DEF ChainInv
    <3>4. /\ k.page \in Nat \ {0} /\ k.page <= Pages[x] /\ Pages[x] \in Nat
          /\ key[f].page \in Nat \ {0} /\ key[f].page <= Pages[x]
      BY <2>1, <3>1, KeyType
    <3>5. CASE k.page <= key[f].page
      <4>1. Due(k)
        BY <2>1, <3>1, <3>5, <3>7, DueBefore
      <4> QED
        BY <3>3, <3>4, <3>5, <4>1
    <3>6. CASE key[f].page < k.page
      <4>1. key[f].page < Pages[key[f].x]
        BY <2>1, <3>4, <3>6
      <4>2. key[f] \in Final \/ ~paged
        BY <3>1, <4>1 DEF MorePages
      <4>3. ~Due(k)
        BY <2>1, <3>1, <3>6, <4>2, DueEnds
      <4> QED
        BY <3>3, <3>4, <3>6, <4>3
    <3> QED
      BY <3>4, <3>5, <3>6
  <2>2. CASE x # key[f].x
    <3>1. ~Lost
      BY <1>4
    <3>2. ASSUME NEW h \in Fetcher, Fetches(h, x)
          PROVE  Fetches(h, x)'
      <4>1. h # f
        BY <2>2, <3>2 DEF Fetches
      <4> QED
        BY <3>2, <4>1, <1>1, <1>3 DEF Fetches
    <3> QED
      BY <3>1, <3>2 DEF ChainInv
  <2> QED
    BY <2>1, <2>2
<1>5. \A h \in Fetcher : Active(h)' =>
          /\ key'[h] \in Key /\ key'[h].x \in asked' \ todo'
          /\ paged' \/ (h = 0 /\ key'[h].page = 1)
          /\ Due(key[h])' /\ RowsUpTo(h)'
  BY DueSame, <1>1, <1>2, <1>3 DEF ChainInv
<1>6. \A h, i \in Fetcher : Active(h)' /\ Active(i)' /\ key'[h].x = key'[i].x => h = i
  BY <1>1, <1>3 DEF ChainInv
<1>7. \A k \in Key : k.x \notin asked' \ todo' => raw'[k] = 0
  BY DEF ChainInv
<1> QED
  BY DueSame, <1>4, <1>5, <1>6, <1>7 DEF ChainInv

\* The row of a page is inserted.
LEMMA ChainInserts ==
    ASSUME TypeInv, ChainInv, NEW f \in Fetcher, Inserts(f)
    PROVE  ChainInv'
<1>1. /\ Active(f) /\ at[f] \in Answered /\ at'[f] = "parse" /\ key[f] \in Key
      /\ key[f].x \in asked \ todo /\ RowsUpTo(f)
      /\ \A h \in Fetcher : h # f => at'[h] = at[h]
      /\ UNCHANGED <<key, todo, asked, paged, hasError, empty, waitGroup, main>>
  BY DEF Inserts, Active, ChainInv, Only, Execution, args, Answered
<1>2. raw'[key[f]] = 1 /\ \A k \in Key : k # key[f] => raw'[k] = raw[k]
  <2>1. raw[key[f]] = 0
    <3>1. ~(key[f].page < key[f].page)
      BY <1>1, KeyType
    <3> QED
      BY <1>1, <3>1 DEF RowsUpTo, Stored, Answered
  <2> QED
    BY <1>1, <2>1 DEF Inserts, TypeInv
<1>3. \A h \in Fetcher : Active(h)' <=> Active(h)
  BY <1>1 DEF Active, Answered
<1>4. RowsUpTo(f)'
  <2> SUFFICES ASSUME NEW k \in Key, k.x = key[f].x
               PROVE  raw'[k] = IF k.page < key[f].page \/ k.page = key[f].page THEN 1 ELSE 0
    BY <1>1 DEF RowsUpTo, Stored
  <2>1. CASE k = key[f]
    BY <2>1, <1>2
  <2>2. CASE k # key[f]
    <3>1. k.page # key[f].page
      BY <1>1, <2>2, SamePage
    <3>2. raw[k] = IF k.page < key[f].page THEN 1 ELSE 0
      BY <1>1, <3>1 DEF RowsUpTo
    <3> QED
      BY <2>2, <3>1, <3>2, <1>2
  <2> QED
    BY <2>1, <2>2
<1>5. ASSUME NEW h \in Fetcher, Active(h), h # f
      PROVE  RowsUpTo(h)'
  <2>1. key[h].x # key[f].x /\ RowsUpTo(h)
    BY <1>1, <1>5 DEF ChainInv
  <2>2. \A k \in Key : k.x = key[h].x => raw'[k] = raw[k]
    BY <1>2, <2>1
  <2> QED
    BY <1>1, <1>5, <2>1, <2>2 DEF RowsUpTo
<1>6. \A k \in Key : k.x \notin asked \ todo => raw'[k] = 0
  BY <1>1, <1>2 DEF ChainInv
<1>7. Running(at') = Running(at)
  <2>1. /\ Running(at) \in Nat /\ Running(at') \in Nat
        /\ Running(at) + Weight(f, at'[f]) = Running(at') + Weight(f, at[f])
    BY <1>1, RunningChange
  <2>2. Weight(f, at'[f]) = Weight(f, at[f]) /\ Weight(f, at[f]) \in Nat
    BY <1>1 DEF Weight, InQuery, Querying, Answered
  <2> QED
    BY <2>1, <2>2
<1>8. Lost' <=> Lost
  BY <1>1, <1>7 DEF Lost
<1>9. ASSUME NEW x \in asked \ todo
      PROVE  Lost' \/ (\E h \in Fetcher : Fetches(h, x)') \/
             \A k \in Key : k.x = x => raw'[k] = IF Due(k) THEN 1 ELSE 0
  <2>1. \A h \in Fetcher : Fetches(h, x)' <=> Fetches(h, x)
    BY <1>1, <1>3 DEF Fetches
  <2>2. CASE x = key[f].x
    BY <1>1, <2>1, <2>2 DEF Fetches
  <2>3. CASE x # key[f].x
    <3>1. \A k \in Key : k.x = x => raw'[k] = raw[k]
      BY <1>2, <2>3
    <3> QED
      BY <1>8, <2>1, <3>1 DEF ChainInv
  <2> QED
    BY <2>2, <2>3
<1>10. \A h \in Fetcher : Active(h)' =>
          /\ key'[h] \in Key /\ key'[h].x \in asked' \ todo'
          /\ paged' \/ (h = 0 /\ key'[h].page = 1)
          /\ Due(key[h])' /\ RowsUpTo(h)'
  BY DueSame, <1>1, <1>3, <1>4, <1>5 DEF ChainInv
<1>11. \A h, i \in Fetcher : Active(h)' /\ Active(i)' /\ key'[h].x = key'[i].x => h = i
  BY <1>1, <1>3 DEF ChainInv
<1> QED
  BY DueSame, <1>1, <1>6, <1>9, <1>10, <1>11 DEF ChainInv

\* The goroutine of NextTick for the page that follows.
LEMMA FollowsEffect ==
    ASSUME TypeInv, ChainInv, NEW f \in Fetcher, NEW g \in Tick, Follows(f, g)
    PROVE  /\ g # f /\ g \in Fetcher /\ Active(f) /\ ~Active(g)
           /\ at' \in [Fetcher -> Places] /\ key' \in [Fetcher -> Key \cup {NoKey}]
           /\ at'[f] = "idle" /\ at'[g] = "spawned" /\ key'[g] \in Key
           /\ key'[g].x = key[f].x /\ key'[g].page = key[f].page + 1
           /\ \A h \in Fetcher : h # f /\ h # g => at'[h] = at[h] /\ key'[h] = key[h]
           /\ waitGroup' = waitGroup + 1 - (IF f = 0 THEN 0 ELSE 1)
<1> DEFINE q == PageOf(key[f].x, key[f].page + 1)
<1>1. /\ at[f] = "next" /\ at[g] = "idle" /\ g # f /\ g \in Fetcher /\ MorePages(f)
      /\ at' = [at EXCEPT ![f] = "idle", ![g] = "spawned"]
      /\ waitGroup' = waitGroup + 1 - (IF f = 0 THEN 0 ELSE 1)
      /\ key' = [key EXCEPT ![f] = NoKey, ![g] = q]
  BY Bounds DEF Follows, Spawn
<1>2. Active(f) /\ ~Active(g) /\ key[f] \in Key
  BY <1>1 DEF Active, ChainInv
<1>3. q \in Key /\ q.x = key[f].x /\ q.page = key[f].page + 1
  <2>1. /\ key[f].x \in Inputs /\ key[f].page \in Nat /\ Pages[key[f].x] \in Nat
    BY <1>2, KeyType
  <2>2. key[f].page + 1 \in 1 .. Pages[key[f].x]
    BY <1>1, <2>1 DEF MorePages
  <2> QED
    BY <2>1, <2>2, KeyType
<1> HIDE DEF q
<1>4. "idle" \in Places /\ "spawned" \in Places
  BY DEF Places
<1> QED
  BY <1>1, <1>2, <1>3, <1>4 DEF TypeInv

LEMMA ChainFollows ==
    ASSUME TypeInv, ChainInv, Lost => Lost', NEW f \in Fetcher, NEW g \in Tick, Follows(f, g)
    PROVE  ChainInv'
<1>1. /\ g # f /\ g \in Fetcher /\ Active(f) /\ ~Active(g)
      /\ at'[f] = "idle" /\ at'[g] = "spawned" /\ key'[g] \in Key
      /\ key'[g].x = key[f].x /\ key'[g].page = key[f].page + 1
      /\ \A h \in Fetcher : h # f /\ h # g => at'[h] = at[h] /\ key'[h] = key[h]
  BY FollowsEffect
<1>2. /\ at[f] = "next" /\ MorePages(f) /\ UNCHANGED <<raw, todo, asked, paged>>
  BY DEF Follows, Execution, Pending, args
<1>3. /\ key[f] \in Key /\ key[f].x \in asked \ todo /\ RowsUpTo(f) /\ paged
  BY <1>1, <1>2 DEF ChainInv, MorePages
<1>4. \A h \in Fetcher : h # f /\ h # g =>
          (Active(h)' <=> Active(h)) /\ (RowsUpTo(h)' <=> RowsUpTo(h))
  BY <1>1, <1>2 DEF Active, RowsUpTo
<1>5. ~Active(f)' /\ Active(g)'
  BY <1>1 DEF Active
<1>6. RowsUpTo(g)'
  <2> SUFFICES ASSUME NEW k \in Key, k.x = key[f].x
               PROVE  raw[k] = IF k.page < key[f].page + 1 THEN 1 ELSE 0
    BY <1>1, <1>2 DEF RowsUpTo, Stored
  <2>1. raw[k] = IF k.page < key[f].page \/ k.page = key[f].page THEN 1 ELSE 0
    BY <1>2, <1>3 DEF RowsUpTo, Stored
  <2>2. k.page \in Nat /\ key[f].page \in Nat
    BY <1>3, KeyType
  <2>3. (k.page < key[f].page \/ k.page = key[f].page) <=> k.page < key[f].page + 1
    BY <2>2
  <2> QED
    BY <2>1, <2>3
<1>11. Due(key'[g])
  <2>1. Due(key[f]) /\ key[f] \notin Final
    BY <1>1, <1>2 DEF ChainInv, MorePages
  <2> QED
    BY <1>1, <1>3, <2>1, DueNext
<1>7. \A h \in Fetcher : Active(h)' =>
          /\ key'[h] \in Key /\ key'[h].x \in asked' \ todo'
          /\ paged' \/ (h = 0 /\ key'[h].page = 1)
          /\ Due(key[h])' /\ RowsUpTo(h)'
  BY <1>1, <1>2, <1>3, <1>4, <1>5, <1>6, <1>11, DueSame DEF ChainInv
<1>8. \A h, i \in Fetcher : Active(h)' /\ Active(i)' /\ key'[h].x = key'[i].x => h = i
  BY <1>1, <1>4, <1>5 DEF ChainInv
<1>9. ASSUME NEW x \in asked \ todo, ~Lost'
      PROVE  \/ (\E h \in Fetcher : Fetches(h, x)')
             \/ \A k \in Key : k.x = x => raw[k] = IF Due(k) THEN 1 ELSE 0
  <2>1. CASE x = key[f].x
    BY <1>1, <1>5, <2>1 DEF Fetches
  <2>2. CASE x # key[f].x
    <3>1. ASSUME NEW h \in Fetcher, Fetches(h, x)
          PROVE  Fetches(h, x)'
      <4>1. h # f /\ h # g
        BY <1>1, <2>2, <3>1 DEF Fetches
      <4> QED
        BY <3>1, <4>1, <1>1, <1>4 DEF Fetches
    <3>2. ~Lost
      BY <1>9
    <3> QED
      BY <3>1, <3>2 DEF ChainInv
  <2> QED
    BY <2>1, <2>2
<1>10. \A k \in Key : k.x \notin asked' \ todo' => raw'[k] = 0
  BY <1>2 DEF ChainInv
<1> QED
  BY DueSame, <1>2, <1>7, <1>8, <1>9, <1>10 DEF ChainInv

\* The first page of the next input.
LEMMA NextEffect ==
    ASSUME TypeInv, MainInv, NextInput
    PROVE  \E x \in todo :
             /\ at[0] = "idle" /\ at'[0] = "lock" /\ at' \in [Fetcher -> Places]
             /\ key' \in [Fetcher -> Key \cup {NoKey}]
             /\ key'[0] \in Key /\ key'[0].x = x /\ key'[0].page = 1
             /\ Only(0) /\ waitGroup' = waitGroup + 1
             /\ todo' = todo \ {x} /\ main.at = "loop"
             /\ main' = [main EXCEPT !.at = "fetching"]
             /\ UNCHANGED args /\ UNCHANGED <<raw, left, empty>> /\ UNCHANGED batch
             /\ hasError' \in BOOLEAN /\ (hasError => hasError')
<1>1. PICK x \in todo : /\ todo' = todo \ {x} /\ at' = [at EXCEPT ![0] = "lock"]
                        /\ key' = [key EXCEPT ![0] = PageOf(x, 1)]
  BY DEF NextInput
<1>2. PageOf(x, 1) \in Key /\ PageOf(x, 1).x = x /\ PageOf(x, 1).page = 1
  BY KeyType DEF TypeInv
<1>3. /\ main.at = "loop" /\ main' = [main EXCEPT !.at = "fetching"]
      /\ waitGroup' = waitGroup + 1 /\ UNCHANGED args /\ UNCHANGED batch
      /\ UNCHANGED <<raw, left, empty>>
  BY DEF NextInput
<1>6. hasError' \in BOOLEAN /\ (hasError => hasError')
  <2>1. hasError \in BOOLEAN /\ (UNCHANGED hasError \/ hasError' = TRUE)
    BY DEF NextInput, TypeInv
  <2> QED
    BY <2>1
<1>4. at[0] = "idle"
  BY <1>3 DEF MainInv
<1>5. /\ at'[0] = "lock" /\ at' \in [Fetcher -> Places]
      /\ key' \in [Fetcher -> Key \cup {NoKey}] /\ key'[0] = PageOf(x, 1) /\ Only(0)
  <2>1. "lock" \in Places /\ 0 \in Fetcher
    BY Bounds DEF Places, Querying
  <2> QED
    BY <1>1, <1>2, <2>1 DEF TypeInv, Only
<1> QED
  BY <1>1, <1>2, <1>3, <1>4, <1>5, <1>6

LEMMA ChainNext ==
    ASSUME TypeInv, MainInv, ChainInv, Lost => Lost', NextInput
    PROVE  ChainInv'
<1>1. PICK x \in todo :
             /\ at[0] = "idle" /\ at'[0] = "lock" /\ at' \in [Fetcher -> Places]
             /\ key' \in [Fetcher -> Key \cup {NoKey}]
             /\ key'[0] \in Key /\ key'[0].x = x /\ key'[0].page = 1
             /\ Only(0) /\ waitGroup' = waitGroup + 1
             /\ todo' = todo \ {x} /\ main.at = "loop"
             /\ main' = [main EXCEPT !.at = "fetching"]
             /\ UNCHANGED args /\ UNCHANGED <<raw, left, empty>> /\ UNCHANGED batch
             /\ hasError' \in BOOLEAN /\ (hasError => hasError')
  BY NextEffect
<1>2. UNCHANGED <<raw, asked, paged>> /\ x \in asked /\ todo \subseteq asked /\ 0 \in Fetcher
  BY <1>1, Bounds DEF args, TypeInv
<1>3. \A h \in Fetcher : h # 0 => /\ Active(h)' <=> Active(h)
                                  /\ RowsUpTo(h)' <=> RowsUpTo(h)
                                  /\ key'[h] = key[h]
  BY <1>1, <1>2 DEF Active, RowsUpTo, Only
<1>4. Active(0)' /\ ~Active(0)
  BY <1>1 DEF Active
<1>5. \A k \in Key : k.x = x => raw[k] = 0
  BY <1>1 DEF ChainInv
<1>6. RowsUpTo(0)'
  <2> SUFFICES ASSUME NEW k \in Key, k.x = x
               PROVE  ~(k.page < 1)
    BY <1>1, <1>2, <1>5 DEF RowsUpTo, Stored
  <2> QED
    BY KeyType
<1>7. \A h \in Fetcher : Active(h) => h # 0 /\ key[h].x # x /\ key[h].x \in asked' \ todo'
  BY <1>1, <1>2, <1>4 DEF ChainInv
<1>12. Due(key'[0])
  BY <1>1, DueFirst
<1>8. \A h \in Fetcher : Active(h)' =>
          /\ key'[h] \in Key /\ key'[h].x \in asked' \ todo'
          /\ paged' \/ (h = 0 /\ key'[h].page = 1)
          /\ Due(key[h])' /\ RowsUpTo(h)'
  BY <1>1, <1>2, <1>3, <1>6, <1>7, <1>12, DueSame DEF ChainInv
<1>9. \A h, i \in Fetcher : Active(h)' /\ Active(i)' /\ key'[h].x = key'[i].x => h = i
  BY <1>1, <1>3, <1>7 DEF ChainInv
<1>10. ASSUME NEW y \in asked' \ todo', ~Lost'
      PROVE  \/ (\E h \in Fetcher : Fetches(h, y)')
             \/ \A k \in Key : k.x = y => raw[k] = IF Due(k) THEN 1 ELSE 0
  <2>1. CASE y = x
    BY <1>1, <1>2, <1>4, <2>1 DEF Fetches
  <2>2. CASE y # x
    <3>1. y \in asked \ todo /\ ~Lost
      BY <1>1, <1>2, <1>10, <2>2
    <3>2. \A h \in Fetcher : Fetches(h, y) => Fetches(h, y)'
      BY <1>3, <1>4 DEF Fetches
    <3> QED
      BY <3>1, <3>2 DEF ChainInv
  <2> QED
    BY <2>1, <2>2
<1>11. \A k \in Key : k.x \notin asked' \ todo' => raw'[k] = 0
  BY <1>1, <1>2, <1>5 DEF ChainInv
<1> QED
  BY DueSame, <1>2, <1>8, <1>9, <1>10, <1>11 DEF ChainInv

-----------------------------------------------------------------------------
(* Every step keeps what is said of goroutines and pages.                   *)

CoreInv == TypeInv /\ CountInv /\ MainInv /\ NothingLeftBehind /\ ChainInv

\* What a step keeps of the types, part by part.
LEMMA TypesKept ==
    ASSUME TypeInv, waitGroup' \in Int, at' \in [Fetcher -> Places],
           key' \in [Fetcher -> Key \cup {NoKey}], raw' \in [Key -> Nat],
           UNCHANGED args, todo' \subseteq todo, hasError' \in BOOLEAN, BatchTyped'
    PROVE  TypeInv'
  BY DEF TypeInv, args, BatchTyped

LEMMA BatchIsTyped ==
    ASSUME TypeInv
    PROVE  BatchTyped
  BY DEF TypeInv, BatchTyped

\* A step of a goroutine that leaves Execute where it stands.
LEMMA FetcherMain ==
    ASSUME MainInv, NothingLeftBehind, NEW f \in Fetcher, at[f] # "idle",
           UNCHANGED Execution, hasError => hasError',
           at'[0] # "idle" => at[0] # "idle" /\ at'[0] # "spawned"
    PROVE  MainInv' /\ NothingLeftBehind' /\ main.at # "returned"
<1>1. main.at # "returned" /\ main.result = "none" /\ UNCHANGED <<main, todo, asked>>
  BY DEF MainInv, NothingLeftBehind, Execution, args
<1> QED
  BY <1>1 DEF MainInv, NothingLeftBehind

\* What is lost stays lost.
LEMMA LostKept ==
    ASSUME hasError => hasError', empty # {} => empty' # {},
           waitGroup > Running(at) => waitGroup' > Running(at'),
           main.result = "panic" => main'.result = "panic"
    PROVE  Lost => Lost'
  BY DEF Lost

LEMMA QueryKeeps ==
    ASSUME CoreInv, QueryMoves
    PROVE  CoreInv'
<1>1. /\ \A h \in Fetcher : at'[h] = at[h] \/ (at[h] \in Querying /\ at'[h] \in Querying)
      /\ at' \in [Fetcher -> Places]
      /\ UNCHANGED <<waitGroup, key, raw, hasError, empty, main, todo, asked, paged>>
      /\ UNCHANGED args /\ UNCHANGED batch
  BY DEF QueryMoves, Execution, Pending, args
<1>2. TypeInv /\ CountInv /\ MainInv /\ NothingLeftBehind /\ ChainInv
  BY DEF CoreInv
<1>3. Running(at') = Running(at)
  BY <1>1, RunningSame
<1>4. TypeInv'
  <2>1. BatchTyped'
    BY <1>1, <1>2, BatchIsTyped, BatchTypes
  <2> QED
    BY <1>1, <1>2, <2>1, TypesKept DEF TypeInv
<1>5. CountInv'
  BY <1>1, <1>2, <1>3 DEF CountInv
<1>6. \A h \in Fetcher : /\ at'[h] = "idle" <=> at[h] = "idle"
                         /\ at'[h] = "spawned" <=> at[h] = "spawned"
                         /\ at'[h] \in Stored <=> at[h] \in Stored
  BY <1>1 DEF Querying, Stored
<1>7. MainInv' /\ NothingLeftBehind'
  <2>1. 0 \in Fetcher
    BY Bounds
  <2> QED
    BY <1>1, <1>2, <1>6, <2>1 DEF MainInv, NothingLeftBehind
<1>8. ChainInv'
  <2>1. Lost => Lost'
    BY <1>1, <1>3 DEF Lost
  <2> QED
    BY <1>1, <1>2, <1>6, <2>1, ChainSame
<1> QED
  BY <1>4, <1>5, <1>7, <1>8 DEF CoreInv

LEMMA AnswerKeeps ==
    ASSUME CoreInv, NEW f \in Fetcher, Answers(f)
    PROVE  CoreInv'
<1>1. /\ at[f] \in Querying /\ at'[f] \in Answered /\ at' \in [Fetcher -> Places]
      /\ \A h \in Fetcher : h # f => at'[h] = at[h]
      /\ UNCHANGED <<key, raw, hasError, empty, main, todo, asked, paged>>
      /\ UNCHANGED args /\ UNCHANGED batch /\ UNCHANGED Execution /\ waitGroup' = waitGroup + (-1)
  BY DEF Answers, Only, Execution, Pending, args, CoreInv, TypeInv
<1>2. TypeInv /\ CountInv /\ MainInv /\ NothingLeftBehind /\ ChainInv
  BY DEF CoreInv
<1>3. Weight(f, at[f]) = Weight(f, at'[f]) + 1 /\ Weight(f, at'[f]) \in Nat
  BY <1>1 DEF Weight, InQuery, Querying, Answered
<1>4. waitGroup' \in Int /\ CountInv' /\ (waitGroup > Running(at) => waitGroup' > Running(at'))
  <2>1. (-1) + Weight(f, at[f]) >= Weight(f, at'[f])
    BY <1>3
  <2> QED
    BY <1>1, <1>2, <2>1, CountKept
<1>5. TypeInv'
  <2>1. BatchTyped'
    BY <1>1, <1>2, BatchIsTyped, BatchTypes
  <2> QED
    BY <1>1, <1>2, <1>4, <2>1, TypesKept DEF TypeInv
<1>6. \A h \in Fetcher : /\ at'[h] = "idle" <=> at[h] = "idle"
                         /\ at'[h] \in Stored <=> at[h] \in Stored
  BY <1>1 DEF Querying, Answered, Stored
<1>7. MainInv' /\ NothingLeftBehind'
  <2>1. at[f] # "idle" /\ (at'[0] # "idle" => at[0] # "idle" /\ at'[0] # "spawned")
    BY <1>1, <1>2, <1>6, Bounds DEF Querying, Answered, MainInv
  <2> QED
    BY <1>1, <1>2, <2>1, FetcherMain
<1>8. ChainInv'
  <2>1. Lost => Lost'
    BY <1>1, <1>4, LostKept
  <2> QED
    BY <1>1, <1>2, <1>6, <2>1, ChainSame
<1> QED
  BY <1>4, <1>5, <1>7, <1>8 DEF CoreInv

LEMMA InsertKeeps ==
    ASSUME CoreInv, NEW f \in Fetcher, Inserts(f)
    PROVE  CoreInv'
<1>1. /\ at[f] \in Answered /\ at'[f] = "parse" /\ at' \in [Fetcher -> Places]
      /\ \A h \in Fetcher : h # f => at'[h] = at[h]
      /\ UNCHANGED <<key, hasError, empty, main, todo, asked, paged, waitGroup>>
      /\ UNCHANGED args /\ UNCHANGED batch /\ UNCHANGED Execution /\ waitGroup' = waitGroup + 0
      /\ raw' = [raw EXCEPT ![key[f]] = @ + 1]
  BY DEF Inserts, Only, Execution, args, CoreInv, TypeInv
<1>2. TypeInv /\ CountInv /\ MainInv /\ NothingLeftBehind /\ ChainInv
  BY DEF CoreInv
<1>3. waitGroup' \in Int /\ CountInv'
  <2>1. 0 + Weight(f, at[f]) >= Weight(f, at'[f])
    BY <1>1 DEF Weight, InQuery, Querying, Answered
  <2> QED
    BY <1>1, <1>2, <2>1, CountKept
<1>4. TypeInv'
  <2>1. BatchTyped'
    BY <1>1, <1>2, BatchIsTyped, BatchTypes
  <2>2. raw' \in [Key -> Nat]
    <3>1. raw \in [Key -> Nat] /\ key[f] \in Key
      BY <1>1, <1>2 DEF TypeInv, ChainInv, Active, Answered
    <3> QED
      BY <1>1, <3>1
  <2> QED
    BY <1>1, <1>2, <1>3, <2>1, <2>2, TypesKept DEF TypeInv
<1>5. MainInv' /\ NothingLeftBehind'
  <2>1. at[f] # "idle" /\ (at'[0] # "idle" => at[0] # "idle" /\ at'[0] # "spawned")
    BY <1>1, <1>2, Bounds DEF MainInv, Answered
  <2> QED
    BY <1>1, <1>2, <2>1, FetcherMain
<1>6. ChainInv'
  BY <1>2, ChainInserts
<1> QED
  BY <1>3, <1>4, <1>5, <1>6 DEF CoreInv

\* A goroutine ends.
LEMMA LeaveKeeps ==
    ASSUME CoreInv, NEW f \in Fetcher, Loses(f) \/ Finishes(f), BatchTyped'
    PROVE  CoreInv'
<1>1. /\ at[f] # "idle" /\ at[f] \notin Querying /\ Leaves(f)
      /\ UNCHANGED <<raw, main, todo, asked, paged>>
      /\ UNCHANGED args /\ UNCHANGED Execution
      /\ hasError => hasError'
      /\ empty # {} => empty' # {}
      /\ hasError' \in BOOLEAN
      /\ (hasError' \/ empty' # {}) \/ (~MorePages(f) /\ at[f] \in Stored)
  BY DEF Loses, Finishes, Querying, Answered, Stored, Execution, Pending, args, CoreInv, TypeInv
<1>2. TypeInv /\ CountInv /\ MainInv /\ NothingLeftBehind /\ ChainInv
  BY DEF CoreInv
<1>3. /\ at' \in [Fetcher -> Places] /\ key' \in [Fetcher -> Key \cup {NoKey}]
      /\ at'[f] = "idle" /\ Only(f)
      /\ \A h \in Fetcher : h # f => at'[h] = at[h]
      /\ waitGroup' = waitGroup - (IF f = 0 THEN 0 ELSE 1)
  BY <1>1, <1>2, LeaveType DEF Only
<1>4. waitGroup' \in Int /\ CountInv' /\ (waitGroup > Running(at) => waitGroup' > Running(at'))
  <2> DEFINE n == IF f = 0 THEN 0 ELSE -1
  <2>1. n \in Int /\ waitGroup' = waitGroup + n
    BY <1>2, <1>3 DEF TypeInv
  <2>2. n + Weight(f, at[f]) >= Weight(f, at'[f])
    BY <1>1, <1>3 DEF Weight, InQuery, Querying
  <2> HIDE DEF n
  <2> QED
    BY <1>2, <1>3, <2>1, <2>2, CountKept
<1>5. TypeInv'
  BY <1>1, <1>2, <1>3, <1>4, TypesKept DEF TypeInv
<1>6. MainInv' /\ NothingLeftBehind'
  <2>1. at'[0] # "idle" => at[0] # "idle" /\ at'[0] # "spawned"
    BY <1>2, <1>3, Bounds DEF MainInv
  <2> QED
    BY <1>1, <1>2, <2>1, FetcherMain
<1>7. ChainInv'
  <2>1. main.result = "panic" => main'.result = "panic"
    BY <1>1
  <2>2. Lost => Lost'
    BY <1>1, <1>4, <2>1, LostKept
  <2>3. Lost' \/ (~MorePages(f) /\ at[f] \in Stored)
    BY <1>1 DEF Lost
  <2>4. Active(f)
    BY <1>1 DEF Active
  <2> QED
    BY <1>1, <1>2, <1>3, <2>2, <2>3, <2>4, ChainLeaves
<1> QED
  BY <1>4, <1>5, <1>6, <1>7 DEF CoreInv

LEMMA LosesBatch ==
    ASSUME TypeInv, NEW f \in Fetcher, Loses(f) \/ Finishes(f)
    PROVE  BatchTyped'
  BY BatchIsTyped, BatchTypes DEF Loses, Finishes

\* A record goes into the batch.
LEMMA BatchesEffect ==
    ASSUME CoreInv, NEW f \in Fetcher, Batches(f)
    PROVE  /\ at[f] \in {"parse", "add", "count"} /\ at'[f] \in {"add", "count", "next"}
           /\ key[f] \in Key
           /\ at' \in [Fetcher -> Places]
           /\ \A h \in Fetcher : h # f => at'[h] = at[h]
           /\ UNCHANGED <<waitGroup, key, raw, hasError, empty, main, todo, asked, paged>>
           /\ UNCHANGED args /\ UNCHANGED Execution
<1>1. PICK from \in {"parse", "add", "count"}, to \in {"add", "count", "next"} : Moves(f, from, to)
  BY DEF Batches, Parses, AddsRecord, CountsRecord, AddsNext
<1>2. to \in Places
  BY <1>1 DEF Places, Stored
<1>3. /\ at' \in [Fetcher -> Places] /\ at'[f] = to /\ at[f] = from
      /\ \A h \in Fetcher : h # f => at'[h] = at[h]
  BY <1>1, <1>2, MoveType DEF Moves, CoreInv
<1>4. key[f] \in Key
  BY <1>1, <1>3 DEF CoreInv, ChainInv, Active
<1>5. /\ UNCHANGED <<waitGroup, key, raw, hasError, empty, main, todo, asked, paged>>
      /\ UNCHANGED args /\ UNCHANGED Execution
  BY DEF Batches, Parses, AddsRecord, CountsRecord, Aside, collected, Execution, args
<1> QED
  BY <1>1, <1>3, <1>4, <1>5

\* The results that are left to be added.
LEMMA LeftType ==
    ASSUME LeftInv, NEW f \in Fetcher, at[f] = "add"
    PROVE  /\ Head(left[f]) \in Record /\ Tail(left[f]) \in Seq(Record)
           /\ RecordsIn(left[f]) = {Head(left[f])} \cup RecordsIn(Tail(left[f]))
<1> DEFINE r == left[f]
<1>1. r \in Seq(Record) /\ r # <<>>
  BY DEF LeftInv
<1> HIDE DEF r
<1>2. Len(r) \in Nat /\ Len(r) > 0 /\ Head(r) = r[1] /\ Tail(r) \in Seq(Record)
  BY <1>1
<1>3. Len(Tail(r)) = Len(r) - 1 /\ \A i \in 1 .. Len(r) - 1 : Tail(r)[i] = r[i + 1]
  BY <1>1
<1>4. r[1] \in Record
  BY <1>1, <1>2
<1>5. ASSUME NEW x
      PROVE  x \in RecordsIn(r) <=> x = r[1] \/ x \in RecordsIn(Tail(r))
  <2>1. ASSUME x \in RecordsIn(r), x # r[1] PROVE x \in RecordsIn(Tail(r))
    <3>1. PICK i \in 1 .. Len(r) : x = r[i]
      BY <2>1 DEF RecordsIn
    <3>2. i - 1 \in 1 .. Len(r) - 1 /\ (i - 1) + 1 = i
      BY <1>2, <2>1, <3>1
    <3>3. x = Tail(r)[i - 1]
      BY <1>3, <3>1, <3>2
    <3> QED
      BY <1>3, <3>2, <3>3 DEF RecordsIn
  <2>2. ASSUME x \in RecordsIn(Tail(r)) PROVE x \in RecordsIn(r)
    <3>1. PICK i \in 1 .. Len(r) - 1 : x = Tail(r)[i]
      BY <1>3, <2>2 DEF RecordsIn
    <3>2. i + 1 \in 1 .. Len(r) /\ x = r[i + 1]
      BY <1>2, <1>3, <3>1
    <3> QED
      BY <3>2 DEF RecordsIn
  <2>3. r[1] \in RecordsIn(r)
    BY <1>2 DEF RecordsIn
  <2> QED
    BY <2>1, <2>2, <2>3
<1>6. RecordsIn(r) = {r[1]} \cup RecordsIn(Tail(r))
  BY <1>5
<1>7. Head(r) \in Record /\ RecordsIn(r) = {Head(r)} \cup RecordsIn(Tail(r))
  BY <1>2, <1>4, <1>6
<1> QED
  BY <1>2, <1>7 DEF r

LEMMA BatchKeeps ==
    ASSUME CoreInv, LeftInv, NEW f \in Fetcher, Batches(f)
    PROVE  CoreInv'
<1>1. /\ at[f] \in {"parse", "add", "count"} /\ at'[f] \in {"add", "count", "next"} /\ key[f] \in Key
      /\ at' \in [Fetcher -> Places]
      /\ \A h \in Fetcher : h # f => at'[h] = at[h]
      /\ UNCHANGED <<waitGroup, key, raw, hasError, empty, main, todo, asked, paged>>
      /\ UNCHANGED args /\ UNCHANGED Execution
  BY BatchesEffect
<1>2. TypeInv /\ CountInv /\ MainInv /\ NothingLeftBehind /\ ChainInv
  BY DEF CoreInv
<1>3. waitGroup' \in Int /\ CountInv' /\ (waitGroup > Running(at) => waitGroup' > Running(at'))
  <2>1. 0 + Weight(f, at[f]) >= Weight(f, at'[f])
    BY <1>1 DEF Weight, InQuery, Querying
  <2>2. waitGroup' = waitGroup + 0
    BY <1>1, <1>2 DEF TypeInv
  <2> QED
    BY <1>1, <1>2, <2>1, <2>2, CountKept
<1>4. TypeInv'
  <2>1. BatchTyped'
    <3>1. CASE AddsRecord(f)
      <4>1. /\ AddAgain(Head(left[f])) \/ AddSlot(Head(left[f]))
            /\ Head(left[f]) \in Record
        BY <3>1, LeftType DEF AddsRecord
      <4> QED
        BY <1>2, <4>1, BatchIsTyped, BatchTypes
    <3>2. CASE Parses(f) \/ CountsRecord(f)
      <4>1. UNCHANGED batch \/ AddCount
        BY <3>2 DEF Parses, CountsRecord
      <4> QED
        BY <1>2, <4>1, BatchIsTyped, BatchTypes
    <3> QED
      BY <3>1, <3>2 DEF Batches
  <2> QED
    BY <1>1, <1>2, <1>3, <2>1, TypesKept DEF TypeInv
<1>5. MainInv' /\ NothingLeftBehind'
  <2>1. at[f] # "idle" /\ (at'[0] # "idle" => at[0] # "idle" /\ at'[0] # "spawned")
    BY <1>1, <1>2, Bounds DEF MainInv
  <2> QED
    BY <1>1, <1>2, <2>1, FetcherMain
<1>6. ChainInv'
  <2>1. \A h \in Fetcher : /\ at'[h] = "idle" <=> at[h] = "idle"
                           /\ at'[h] \in Stored <=> at[h] \in Stored
    BY <1>1 DEF Stored
  <2>2. Lost => Lost'
    BY <1>1, <1>3, LostKept
  <2> QED
    BY <1>1, <1>2, <2>1, <2>2, ChainSame
<1> QED
  BY <1>3, <1>4, <1>5, <1>6 DEF CoreInv

\* The goroutine of the page that follows counts before the one of this page is done.
LEMMA FollowKeeps ==
    ASSUME CoreInv, NEW f \in Fetcher, NEW g \in Tick, Follows(f, g)
    PROVE  CoreInv'
<1> DEFINE mid == [at EXCEPT ![f] = "idle"]
           n == IF f = 0 THEN 1 ELSE 0
<1>1. TypeInv /\ CountInv /\ MainInv /\ NothingLeftBehind /\ ChainInv
  BY DEF CoreInv
<1>2. /\ g # f /\ g \in Fetcher /\ g # 0
      /\ at' \in [Fetcher -> Places] /\ key' \in [Fetcher -> Key \cup {NoKey}]
      /\ at'[f] = "idle" /\ at'[g] = "spawned" /\ at[f] = "next" /\ at[g] = "idle"
      /\ \A h \in Fetcher : h # f /\ h # g => at'[h] = at[h]
      /\ waitGroup' = waitGroup + n
      /\ UNCHANGED <<raw, hasError, empty, main, todo, asked, paged>>
      /\ UNCHANGED args /\ UNCHANGED batch /\ UNCHANGED Execution
  <2>1. /\ g # f /\ g \in Fetcher /\ at' \in [Fetcher -> Places]
        /\ key' \in [Fetcher -> Key \cup {NoKey}]
        /\ at'[f] = "idle" /\ at'[g] = "spawned"
        /\ \A h \in Fetcher : h # f /\ h # g => at'[h] = at[h]
        /\ waitGroup' = waitGroup + 1 - (IF f = 0 THEN 0 ELSE 1)
    BY <1>1, FollowsEffect
  <2>2. waitGroup' = waitGroup + n
    BY <1>1, <2>1 DEF TypeInv
  <2>3. /\ at[f] = "next" /\ at[g] = "idle"
        /\ UNCHANGED <<raw, hasError, empty, main, todo, asked, paged>>
        /\ UNCHANGED args /\ UNCHANGED batch /\ UNCHANGED Execution
    BY DEF Follows, Execution, Pending, args
  <2> QED
    BY <2>1, <2>2, <2>3, Bounds
<1>3. waitGroup' \in Int /\ waitGroup' - Running(at') = waitGroup - Running(at)
  <2>1. mid[f] = "idle" /\ mid[g] = "idle" /\ \A h \in Fetcher : h # f => mid[h] = at[h]
    BY <1>1, <1>2 DEF TypeInv
  <2>2. \A h \in Fetcher : h # g => at'[h] = mid[h]
    BY <1>2, <2>1
  <2> HIDE DEF mid
  <2>3. /\ Running(at) \in Nat /\ Running(mid) \in Nat
        /\ Running(at) + Weight(f, mid[f]) = Running(mid) + Weight(f, at[f])
    BY <2>1, RunningChange
  <2>4. /\ Running(at') \in Nat
        /\ Running(mid) + Weight(g, at'[g]) = Running(at') + Weight(g, mid[g])
    BY <1>2, <2>2, RunningChange
  <2>5. Weight(f, mid[f]) = 0 /\ Weight(g, mid[g]) = 0 /\ Weight(g, at'[g]) = 1
    BY <1>2, <2>1 DEF Weight, InQuery, Querying
  <2>6. Weight(f, at[f]) = 1 - n /\ n \in Int
    BY <1>2 DEF Weight, InQuery, Querying
  <2>7. waitGroup \in Int
    BY <1>1 DEF TypeInv
  <2> HIDE DEF n
  <2> QED
    BY <1>2, <2>3, <2>4, <2>5, <2>6, <2>7
<1>4. CountInv' /\ (waitGroup > Running(at) => waitGroup' > Running(at'))
  <2>1. Running(at) \in Int /\ Running(at') \in Int /\ waitGroup \in Int
    <3>1. \A h \in Fetcher : h # f => at[h] = at[h]
      OBVIOUS
    <3>2. Running(at) \in Nat
      BY <3>1, RunningChange
    <3>3. \A h \in Fetcher : h # f => at'[h] = at'[h]
      OBVIOUS
    <3>4. Running(at') \in Nat
      BY <3>3, RunningChange
    <3> QED
      BY <1>1, <3>2, <3>4 DEF TypeInv
  <2> QED
    BY <1>1, <1>3, <2>1 DEF CountInv
<1>5. TypeInv'
  <2>1. BatchTyped'
    BY <1>1, <1>2, BatchIsTyped, BatchTypes
  <2> QED
    BY <1>1, <1>2, <1>3, <2>1, TypesKept DEF TypeInv
<1>6. MainInv' /\ NothingLeftBehind'
  <2>1. at[f] # "idle" /\ (at'[0] # "idle" => at[0] # "idle" /\ at'[0] # "spawned")
    BY <1>1, <1>2, Bounds DEF MainInv
  <2> QED
    BY <1>1, <1>2, <2>1, FetcherMain
<1>7. ChainInv'
  <2>1. Lost => Lost'
    BY <1>2, <1>4, LostKept
  <2> QED
    BY <1>1, <2>1, ChainFollows
<1> QED
  BY <1>4, <1>5, <1>6, <1>7 DEF CoreInv

\* The goroutine of NextTick begins its query, or ends and keeps the wait group up.
LEMMA TickKeeps ==
    ASSUME CoreInv, NEW g \in Tick, TickMoves(g)
    PROVE  CoreInv'
<1> DEFINE n == IF at'[g] = "idle" THEN 0 ELSE 1
<1>1. TypeInv /\ CountInv /\ MainInv /\ NothingLeftBehind /\ ChainInv /\ g \in Fetcher /\ g # 0
  BY Bounds DEF CoreInv
<1>2. /\ at[g] = "spawned" /\ at'[g] \in {"idle", "lock"}
      /\ at' \in [Fetcher -> Places] /\ key' \in [Fetcher -> Key \cup {NoKey}] /\ Only(g)
      /\ waitGroup' = waitGroup + n
      /\ at'[g] = "lock" => UNCHANGED key
      /\ UNCHANGED <<raw, hasError, empty, main, todo, asked, paged>>
      /\ UNCHANGED args /\ UNCHANGED batch /\ UNCHANGED Execution
  <2>1. /\ UNCHANGED <<raw, hasError, empty, main, todo, asked, paged>>
        /\ UNCHANGED args /\ UNCHANGED batch /\ UNCHANGED Execution
    BY DEF TickMoves, Others, args, collected, Execution
  <2>2. CASE TickRuns(g)
    <3>1. "lock" \in Places
      BY DEF Places, Querying
    <3>2. /\ at' \in [Fetcher -> Places] /\ at'[g] = "lock" /\ at[g] = "spawned"
          /\ \A h \in Fetcher : h # g => at'[h] = at[h]
      BY <1>1, <2>2, <3>1, MoveType DEF TickRuns, Moves
    <3>3. UNCHANGED key /\ waitGroup' = waitGroup + 1
      BY <2>2 DEF TickRuns
    <3> QED
      BY <1>1, <2>1, <3>2, <3>3 DEF Only, TypeInv
  <2>3. CASE TickEnds(g)
    <3>1. "idle" \in Places
      BY DEF Places
    <3>2. /\ at' \in [Fetcher -> Places] /\ at'[g] = "idle" /\ at[g] = "spawned"
          /\ \A h \in Fetcher : h # g => at'[h] = at[h]
      BY <1>1, <2>3, <3>1, MoveType DEF TickEnds
    <3>3. /\ key' \in [Fetcher -> Key \cup {NoKey}]
          /\ \A h \in Fetcher : h # g => key'[h] = key[h]
      BY <1>1, <2>3 DEF TickEnds, TypeInv
    <3>4. waitGroup' = waitGroup + 0
      BY <1>1, <2>3 DEF TickEnds, TypeInv
    <3> QED
      BY <2>1, <3>2, <3>3, <3>4 DEF Only
  <2> QED
    BY <2>2, <2>3 DEF TickMoves
<1>3. n \in Int /\ \A h \in Fetcher : h # g => at'[h] = at[h]
  BY <1>2 DEF Only
<1>4. /\ n + Weight(g, at[g]) >= Weight(g, at'[g])
      /\ at'[g] = "idle" => n + Weight(g, at[g]) > Weight(g, at'[g])
  <2>1. CASE at'[g] = "idle"
    BY <1>1, <1>2, <2>1 DEF Weight, InQuery, Querying
  <2>2. CASE at'[g] = "lock"
    BY <1>1, <1>2, <2>2 DEF Weight, InQuery, Querying
  <2> QED
    BY <1>2, <2>1, <2>2
<1> HIDE DEF n
<1>5. /\ waitGroup' \in Int /\ CountInv' /\ (waitGroup > Running(at) => waitGroup' > Running(at'))
      /\ at'[g] = "idle" => waitGroup' > Running(at')
  BY <1>1, <1>2, <1>3, <1>4, CountKept
<1>6. TypeInv'
  <2>1. BatchTyped'
    BY <1>1, <1>2, BatchIsTyped, BatchTypes
  <2> QED
    BY <1>1, <1>2, <1>5, <2>1, TypesKept DEF TypeInv
<1>7. MainInv' /\ NothingLeftBehind'
  <2>1. at[g] # "idle" /\ (at'[0] # "idle" => at[0] # "idle" /\ at'[0] # "spawned")
    BY <1>1, <1>2, <1>3, Bounds DEF MainInv
  <2> QED
    BY <1>1, <1>2, <2>1, FetcherMain
<1>8. Lost => Lost'
  BY <1>2, <1>5, LostKept
<1>9. ChainInv'
  <2>1. CASE at'[g] = "lock"
    <3>1. \A h \in Fetcher : /\ at'[h] = "idle" <=> at[h] = "idle"
                             /\ at'[h] \in Stored <=> at[h] \in Stored
      BY <1>2, <1>3, <2>1 DEF Stored
    <3> QED
      BY <1>1, <1>2, <1>8, <2>1, <3>1, ChainSame
  <2>2. CASE at'[g] = "idle"
    <3>1. Lost' /\ Active(g)
      BY <1>2, <1>5, <2>2 DEF Lost, Active
    <3> QED
      BY <1>1, <1>2, <1>8, <2>2, <3>1, ChainLeaves
  <2> QED
    BY <1>2, <2>1, <2>2
<1> QED
  BY <1>5, <1>6, <1>7, <1>9 DEF CoreInv

LEMMA NextKeeps ==
    ASSUME CoreInv, NextInput
    PROVE  CoreInv'
<1>1. TypeInv /\ CountInv /\ MainInv /\ NothingLeftBehind /\ ChainInv
  BY DEF CoreInv
<1>2. PICK x \in todo :
             /\ at[0] = "idle" /\ at'[0] = "lock" /\ at' \in [Fetcher -> Places]
             /\ key' \in [Fetcher -> Key \cup {NoKey}]
             /\ key'[0] \in Key /\ key'[0].x = x /\ key'[0].page = 1
             /\ Only(0) /\ waitGroup' = waitGroup + 1
             /\ todo' = todo \ {x} /\ main.at = "loop"
             /\ main' = [main EXCEPT !.at = "fetching"]
             /\ UNCHANGED args /\ UNCHANGED <<raw, left, empty>> /\ UNCHANGED batch
             /\ hasError' \in BOOLEAN /\ (hasError => hasError')
  BY <1>1, NextEffect
<1>3. 0 \in Fetcher /\ \A h \in Fetcher : h # 0 => at'[h] = at[h]
  BY <1>2, Bounds DEF Only
<1>4. UNCHANGED <<raw, empty, asked, paged>> /\ hasError' \in BOOLEAN /\ (hasError => hasError')
  BY <1>2 DEF args
<1>5. waitGroup' \in Int /\ CountInv' /\ (waitGroup > Running(at) => waitGroup' > Running(at'))
  <2>1. 1 + Weight(0, at[0]) >= Weight(0, at'[0])
    BY <1>2 DEF Weight, InQuery, Querying
  <2> QED
    BY <1>1, <1>2, <1>3, <2>1, CountKept
<1>6. TypeInv'
  <2>1. BatchTyped'
    BY <1>1, <1>2, BatchIsTyped, BatchTypes
  <2> QED
    BY <1>1, <1>2, <1>4, <1>5, <2>1, TypesKept DEF TypeInv
<1>7. MainInv' /\ NothingLeftBehind'
  <2>1. main \in Mains /\ main.result = "none"
    BY <1>1, <1>2 DEF MainInv
  <2>2. main' \in Mains /\ main'.result = "none" /\ main'.at = "fetching"
    BY <1>2, <2>1, MainTypes
  <2> QED
    BY <1>2, <2>2 DEF MainInv, NothingLeftBehind
<1>8. ChainInv'
  <2>1. main.result = "none"
    BY <1>1, <1>2 DEF MainInv
  <2>2. Lost => Lost'
    BY <1>4, <1>5, <2>1, LostKept
  <2> QED
    BY <1>1, <2>2, ChainNext
<1> QED
  BY <1>5, <1>6, <1>7, <1>8 DEF CoreInv

\* The query of an input cannot be built.
LEMMA InputKeeps ==
    ASSUME CoreInv, InputFails
    PROVE  CoreInv'
<1>1. TypeInv /\ CountInv /\ MainInv /\ NothingLeftBehind /\ ChainInv
  BY DEF CoreInv
<1>2. /\ UNCHANGED <<waitGroup, at, key, raw, main, empty, asked, paged>> /\ UNCHANGED args
      /\ UNCHANGED batch /\ hasError' = TRUE /\ todo' \subseteq todo /\ main.at = "loop"
  BY DEF InputFails, client, fetchers, args
<1>3. TypeInv'
  <2>1. BatchTyped'
    BY <1>1, <1>2, BatchIsTyped, BatchTypes
  <2> QED
    BY <1>1, <1>2, <2>1, TypesKept DEF TypeInv
<1>4. CountInv' /\ MainInv' /\ NothingLeftBehind'
  BY <1>1, <1>2 DEF CountInv, MainInv, NothingLeftBehind
<1>5. ChainInv'
  <2>1. Lost' /\ todo' \subseteq todo
    BY <1>2 DEF Lost
  <2>2. \A h \in Fetcher : /\ Active(h)' <=> Active(h)
                           /\ RowsUpTo(h)' <=> RowsUpTo(h)
                           /\ Due(key[h])' <=> Due(key[h])
    BY <1>2, DueSame DEF Active, RowsUpTo
  <2> QED
    BY <1>1, <1>2, <2>1, <2>2 DEF ChainInv
<1> QED
  BY <1>3, <1>4, <1>5 DEF CoreInv

\* The other steps of Execute start nobody and end nobody.
LEMMA MainKeeps ==
    ASSUME CoreInv, MainMoves
    PROVE  CoreInv'
<1>1. TypeInv /\ CountInv /\ MainInv /\ NothingLeftBehind /\ ChainInv
  BY DEF CoreInv
<1>2. /\ UNCHANGED <<waitGroup, at, key, raw, todo, empty, asked, paged>> /\ UNCHANGED args
      /\ hasError => hasError'
      /\ hasError' \in BOOLEAN /\ main.at # "returned"
  <2>1. UNCHANGED <<waitGroup, at, key, raw, todo, empty, asked, paged>> /\ UNCHANGED args
    BY DEF MainMoves, Begin, LoopEnds, FetchReturns, Returns, client, fetchers, args, collected
  <2>2. hasError => hasError' /\ hasError' \in BOOLEAN
    BY <1>1 DEF MainMoves, Begin, LoopEnds, FetchReturns, Returns, collected, TypeInv
  <2>3. main.at # "returned"
    BY DEF MainMoves, Begin, LoopEnds, FetchReturns, Returns
  <2>4. hasError' \in BOOLEAN
    BY <1>1 DEF MainMoves, Begin, LoopEnds, FetchReturns, Returns, collected, TypeInv
  <2> QED
    BY <2>1, <2>2, <2>3, <2>4
<1>3. main \in Mains /\ main.result = "none"
  BY <1>1, <1>2 DEF MainInv
<1>4. CountInv'
  BY <1>1, <1>2 DEF CountInv
<1>5. TypeInv'
  <2>1. BatchTyped'
    <3>1. CASE UNCHANGED batch
      BY <1>1, <3>1, BatchIsTyped, BatchTypes
    <3>2. CASE CloseBatch
      BY <1>1, <3>2, BatchIsTyped, BatchTypes
    <3>3. CASE typed' = TRUE /\ UNCHANGED <<slots, current>>
      BY <1>1, <3>3, BatchIsTyped DEF BatchTyped
    <3> QED
      BY <3>1, <3>2, <3>3 DEF MainMoves, Begin, LoopEnds, FetchReturns, Returns
  <2> QED
    BY <1>1, <1>2, <2>1, TypesKept DEF TypeInv
<1>6. MainInv' /\ NothingLeftBehind'
  <2>1. CASE Begin
    <3>1. \A f \in Fetcher : at[f] = "idle"
      BY <1>1, <2>1 DEF Begin, MainInv, ChainInv, Active
    <3>2. /\ main' \in Mains
          /\ main'.at \in {"loop", "returned"}
          /\ main'.result = "none" <=> main'.at # "returned"
          /\ main'.result # "nil"
      <4>1. CASE main' = [main EXCEPT !.at = "loop"]
        <5>1. main' \in Mains /\ main'.at = "loop" /\ main'.result = "none"
          BY <1>3, <4>1, MainTypes
        <5> QED
          BY <5>1
      <4>2. CASE main' = [at |-> "returned", result |-> "failed"]
        <5>1. main' \in Mains /\ main'.at = "returned" /\ main'.result = "failed"
          BY <4>2, MainTypes
        <5> QED
          BY <5>1
      <4> QED
        BY <2>1, <4>1, <4>2 DEF Begin
    <3> QED
      BY <1>2, <3>1, <3>2, Bounds DEF MainInv, NothingLeftBehind
  <2>2. CASE LoopEnds
    <3>1. at[0] = "idle" /\ main' \in Mains /\ main'.at = "wait" /\ main'.result = "none"
      BY <1>1, <1>3, <2>2, MainTypes DEF LoopEnds, MainInv
    <3>2. todo = {} \/ hasError'
      BY <1>2, <2>2 DEF LoopEnds
    <3> QED
      BY <1>2, <3>1, <3>2 DEF MainInv, NothingLeftBehind
  <2>3. CASE FetchReturns
    <3>1. at[0] = "idle" /\ main' \in Mains /\ main'.at = "loop" /\ main'.result = "none"
      BY <1>1, <1>3, <2>3, MainTypes DEF FetchReturns, MainInv
    <3> QED
      BY <1>2, <3>1 DEF MainInv, NothingLeftBehind
  <2>4. CASE Returns
    <3>1. /\ at[0] = "idle" /\ waitGroup = 0 /\ (todo = {} \/ hasError)
          /\ main'.at = "returned" /\ main'.result \in {"failed", "nil"}
          /\ main' \in Mains
          /\ main'.result = "nil" => ~hasError
          /\ UNCHANGED hasError
      BY <1>1, <2>4, MainTypes DEF Returns, Waited, MainInv, collected
    <3>2. \A f \in Fetcher : at[f] = "idle"
      BY <1>1, <3>1, NobodyRuns
    <3> QED
      BY <1>2, <3>1, <3>2 DEF MainInv, NothingLeftBehind
  <2> QED
    BY <2>1, <2>2, <2>3, <2>4 DEF MainMoves
<1>7. ChainInv'
  <2>1. Lost => Lost'
    BY <1>2, <1>3, LostKept
  <2> QED
    BY <1>1, <1>2, <2>1, ChainSame
<1> QED
  BY <1>4, <1>5, <1>6, <1>7 DEF CoreInv

\* A goroutine panics.
LEMMA EndKeeps ==
    ASSUME CoreInv, ProcessEnds
    PROVE  CoreInv'
<1>1. TypeInv /\ ChainInv
  BY DEF CoreInv
<1>2. /\ main'.at = "returned" /\ main'.result = "panic" /\ main' \in Mains
      /\ at' = [f \in Fetcher |-> "idle"] /\ key' = [f \in Fetcher |-> NoKey] /\ waitGroup' = 0
      /\ UNCHANGED <<raw, hasError, empty, todo, asked, paged>> /\ UNCHANGED args /\ UNCHANGED batch
  BY MainTypes DEF ProcessEnds, collected, args
<1>3. \A f \in Fetcher : at'[f] = "idle"
  BY <1>2
<1>4. TypeInv'
  <2>1. BatchTyped'
    BY <1>1, <1>2, BatchIsTyped, BatchTypes
  <2>2. at' \in [Fetcher -> Places] /\ key' \in [Fetcher -> Key \cup {NoKey}]
    BY <1>2 DEF Places
  <2> QED
    BY <1>1, <1>2, <2>1, <2>2, TypesKept DEF TypeInv
<1>5. CountInv'
  <2>1. {f \in Fetcher : at'[f] \in Querying} = {}
    BY <1>3 DEF Querying
  <2>2. {g \in Tick : at'[g] # "idle"} = {}
    BY <1>3, Bounds
  <2>3. Running(at') = 0
    BY <2>1, <2>2, FS_EmptySet DEF Running
  <2> QED
    BY <1>2, <2>3 DEF CountInv
<1>6. MainInv' /\ NothingLeftBehind'
  BY <1>2, <1>3, Bounds DEF MainInv, NothingLeftBehind
<1>7. ChainInv'
  BY <1>1, <1>2, <1>3 DEF ChainInv, Active, Lost
<1> QED
  BY <1>4, <1>5, <1>6, <1>7 DEF CoreInv

LEMMA CoreInit == Init => CoreInv
<1> SUFFICES ASSUME Init PROVE CoreInv
  OBVIOUS
<1>1. /\ \A f \in Fetcher : at[f] = "idle"
      /\ at = [f \in Fetcher |-> "idle"] /\ key = [f \in Fetcher |-> NoKey] /\ waitGroup = 0
      /\ main.at = "start" /\ main.result = "none" /\ todo = asked /\ asked \subseteq Inputs
      /\ raw = [k \in Key |-> 0]
      /\ main \in Mains
  BY DEF Init, ClientInit, Mains
<1>2. TypeInv
  <2>1. BatchTyped
    BY DEF Init, BatchInit, BatchTyped
  <2>2. /\ paged \in BOOLEAN /\ incremental \in BOOLEAN /\ hasError \in BOOLEAN
    BY DEF Init
  <2> QED
    BY <1>1, <2>1, <2>2 DEF TypeInv, Places, BatchTyped
<1>3. CountInv
  <2>1. {f \in Fetcher : at[f] \in Querying} = {}
    BY <1>1 DEF Querying
  <2>2. {g \in Tick : at[g] # "idle"} = {}
    BY <1>1, Bounds
  <2>3. Running(at) = 0
    BY <2>1, <2>2, FS_EmptySet DEF Running
  <2> QED
    BY <1>1, <2>3 DEF CountInv
<1>4. MainInv /\ NothingLeftBehind
  BY <1>1, Bounds DEF MainInv, NothingLeftBehind
<1>5. ChainInv
  BY <1>1 DEF ChainInv, Active
<1> QED
  BY <1>2, <1>3, <1>4, <1>5 DEF CoreInv

LEMMA CoreNext == CoreInv /\ LeftInv /\ [Next]_vars => CoreInv'
<1> SUFFICES ASSUME CoreInv, LeftInv, [Next]_vars PROVE CoreInv'
  OBVIOUS
<1>1. TypeInv
  BY DEF CoreInv
<1>2. ASSUME NEW f \in Fetcher, Loses(f) \/ Finishes(f) PROVE CoreInv'
  BY <1>1, <1>2, LosesBatch, LeaveKeeps
<1> QED
  BY <1>1, <1>2, Steps, QueryKeeps, NextKeeps, InputKeeps, MainKeeps, EndKeeps, AnswerKeeps,
     InsertKeeps, BatchKeeps, FollowKeeps, TickKeeps

\* What is left to be added changes only where it is added or given up.
LEMMA LeftInit == Init => LeftInv
<1> SUFFICES ASSUME Init PROVE LeftInv
  OBVIOUS
<1>1. left = [f \in Fetcher |-> <<>>] /\ at = [f \in Fetcher |-> "idle"] /\ <<>> \in Seq(Record)
  BY DEF Init, ClientInit
<1> QED
  BY <1>1 DEF LeftInv

LEMMA LeftSame ==
    ASSUME LeftInv, UNCHANGED left,
           \A h \in Fetcher : /\ at'[h] = "add" <=> at[h] = "add"
                              /\ at'[h] = "count" <=> at[h] = "count"
    PROVE  LeftInv'
  BY DEF LeftInv

LEMMA LeftBatches ==
    ASSUME CoreInv, LeftInv, NEW f \in Fetcher, Batches(f)
    PROVE  LeftInv'
<1>1. /\ key[f] \in Key /\ \A h \in Fetcher : h # f => at'[h] = at[h]
      /\ at \in [Fetcher -> Places]
  BY BatchesEffect DEF CoreInv, TypeInv
<1>2. left \in [Fetcher -> Seq(Record)]
  BY DEF LeftInv
<1>3. ASSUME NEW r \in Seq(Record), left' = [left EXCEPT ![f] = r], at'[f] = AddsNext(r) \/ at'[f] = "count"
      PROVE  LeftInv'
  <2>1. left' \in [Fetcher -> Seq(Record)] /\ left'[f] = r /\ \A h \in Fetcher : h # f => left'[h] = left[h]
    BY <1>2, <1>3
  <2>2. at'[f] \notin {"add", "count"} => r = <<>>
    BY <1>3 DEF AddsNext
  <2>3. at'[f] = "add" => r # <<>>
    BY <1>3 DEF AddsNext
  <2> QED
    BY <1>1, <2>1, <2>2, <2>3 DEF LeftInv
<1>4. CASE Parses(f)
  <2>1. Results[key[f]] \in Seq(Record)
    BY <1>1, Bounds
  <2> QED
    BY <1>1, <1>3, <1>4, <2>1 DEF Parses, Moves
<1>5. CASE AddsRecord(f)
  <2>1. Tail(left[f]) \in Seq(Record)
    BY <1>5, LeftType DEF AddsRecord
  <2>2. at'[f] = AddsNext(Tail(left[f])) \/ at'[f] = "count"
    BY <1>1, <1>5 DEF AddsRecord, Moves
  <2>3. left' = [left EXCEPT ![f] = Tail(left[f])]
    BY <1>5 DEF AddsRecord
  <2> QED
    BY <1>3, <2>1, <2>2, <2>3
<1>6. CASE CountsRecord(f)
  <2>1. left' = [left EXCEPT ![f] = left[f]] /\ left[f] \in Seq(Record)
    BY <1>2, <1>6 DEF CountsRecord, collected
  <2>2. at'[f] = AddsNext(left[f])
    BY <1>1, <1>6 DEF CountsRecord, Moves
  <2> QED
    BY <1>3, <2>1, <2>2
<1> QED
  BY <1>4, <1>5, <1>6 DEF Batches

LEMMA LeftNext == CoreInv /\ LeftInv /\ [Next]_vars => LeftInv'
<1> SUFFICES ASSUME CoreInv, LeftInv, [Next]_vars PROVE LeftInv'
  OBVIOUS
<1>1. TypeInv /\ MainInv /\ ChainInv
  BY DEF CoreInv
<1>2. CASE QueryMoves
  <2>1. \A h \in Fetcher : /\ at'[h] = "add" <=> at[h] = "add"
                           /\ at'[h] = "count" <=> at[h] = "count"
    BY <1>2 DEF QueryMoves, Querying
  <2> QED
    BY <1>2, <2>1, LeftSame DEF QueryMoves, Pending
<1>3. CASE NextInput
  <2>1. UNCHANGED left /\ at[0] = "idle" /\ at'[0] = "lock" /\ Only(0)
    BY <1>1, <1>3, NextEffect
  <2> QED
    BY <2>1, LeftSame DEF Only
<1>4. CASE InputFails \/ MainMoves
  BY <1>4, LeftSame
     DEF InputFails, MainMoves, Begin, LoopEnds, FetchReturns, Returns, client, fetchers, collected
<1>5. CASE ProcessEnds
  <2>1. left' = [f \in Fetcher |-> <<>>] /\ at' = [f \in Fetcher |-> "idle"] /\ <<>> \in Seq(Record)
    BY <1>5 DEF ProcessEnds
  <2> QED
    BY <2>1 DEF LeftInv
<1>6. ASSUME NEW f \in Fetcher, Answers(f) \/ Inserts(f) PROVE LeftInv'
  <2>1. \A h \in Fetcher : /\ at'[h] = "add" <=> at[h] = "add"
                           /\ at'[h] = "count" <=> at[h] = "count"
    BY <1>6 DEF Answers, Inserts, Only, Querying, Answered
  <2> QED
    BY <1>6, <2>1, LeftSame DEF Answers, Inserts, Pending
<1>7. ASSUME NEW f \in Fetcher, Loses(f) PROVE LeftInv'
  <2>1. at'[f] = "idle" /\ \A h \in Fetcher : h # f => at'[h] = at[h]
    BY <1>1, <1>7, LeaveType DEF Loses
  <2>2. CASE UNCHANGED left /\ at[f] \in Answered
    BY <2>1, <2>2, LeftSame DEF Answered
  <2>3. CASE left' = [left EXCEPT ![f] = <<>>]
    <3>1. left \in [Fetcher -> Seq(Record)] /\ <<>> \in Seq(Record)
      BY DEF LeftInv
    <3>2. left' \in [Fetcher -> Seq(Record)] /\ left'[f] = <<>> /\ \A h \in Fetcher : h # f => left'[h] = left[h]
      BY <2>3, <3>1
    <3> QED
      BY <2>1, <3>2 DEF LeftInv
  <2> QED
    BY <1>7, <2>2, <2>3 DEF Loses
<1>8. ASSUME NEW f \in Fetcher, Batches(f) PROVE LeftInv'
  BY <1>8, LeftBatches
<1>9. ASSUME NEW f \in Fetcher, Finishes(f) PROVE LeftInv'
  <2>1. at[f] = "next" /\ at'[f] = "idle" /\ \A h \in Fetcher : h # f => at'[h] = at[h]
    BY <1>1, <1>9, LeaveType DEF Finishes
  <2>2. UNCHANGED left
    BY <1>9 DEF Finishes, Pending
  <2> QED
    BY <2>1, <2>2, LeftSame
<1>10. ASSUME NEW f \in Fetcher, NEW g \in Tick, Follows(f, g) PROVE LeftInv'
  <2>1. /\ g # f /\ g \in Fetcher /\ at[f] = "next" /\ at[g] = "idle"
        /\ at'[f] = "idle" /\ at'[g] = "spawned"
        /\ \A h \in Fetcher : h # f /\ h # g => at'[h] = at[h]
    BY <1>1, <1>10, FollowsEffect DEF Follows
  <2>2. UNCHANGED left
    BY <1>10 DEF Follows, Pending
  <2> QED
    BY <2>1, <2>2, LeftSame
<1>11. ASSUME NEW g \in Tick, TickMoves(g) PROVE LeftInv'
  <2>1. \A h \in Fetcher : /\ at'[h] = "add" <=> at[h] = "add"
                           /\ at'[h] = "count" <=> at[h] = "count"
    BY <1>1, <1>11, Bounds DEF TickMoves, TickRuns, TickEnds, Moves, TypeInv
  <2> QED
    BY <1>11, <2>1, LeftSame DEF TickMoves, Others, collected
<1> QED
  BY <1>1, <1>2, <1>3, <1>4, <1>5, <1>6, <1>7, <1>8, <1>9, <1>10, <1>11, Steps

LEMMA CoreHolds == Spec => [](CoreInv /\ LeftInv)
<1> QED
  BY CoreInit, CoreNext, LeftInit, LeftNext, PTL DEF Spec

\* Whatever fails, whoever cancels the task and however the goroutines are scheduled:
\* when Execute has returned, no goroutine that it started is under way.
THEOREM NothingIsLeftBehind == Spec => []NothingLeftBehind
<1>1. CoreInv => NothingLeftBehind
  BY DEF CoreInv
<1> QED
  BY <1>1, CoreHolds, PTL

\* What is in the raw table when Execute returns nil.
LEMMA CoreCollects ==
    ASSUME CoreInv
    PROVE  NilMeansCollected
<1> SUFFICES ASSUME main.result = "nil", empty = {}, NEW k \in Key
             PROVE  raw[k] = IF k \in Wanted THEN 1 ELSE 0
  BY DEF NilMeansCollected
<1>1. TypeInv /\ CountInv /\ MainInv /\ NothingLeftBehind /\ ChainInv
  BY DEF CoreInv
<1>2. todo = {} /\ ~hasError /\ waitGroup = 0 /\ main.at = "returned" /\ main.result # "panic"
  BY <1>1 DEF MainInv
<1>3. \A f \in Fetcher : at[f] = "idle"
  BY <1>1, <1>2 DEF NothingLeftBehind
<1>4. ~Lost
  <2>1. Running(at) \in Nat
    <3>1. \A h \in Fetcher : h # 0 => at[h] = at[h]
      OBVIOUS
    <3> QED
      BY <3>1, RunningChange, Bounds
  <2> QED
    BY <1>2, <2>1 DEF Lost
<1>5. \A x \in asked : \A l \in Key : l.x = x => raw[l] = IF Due(l) THEN 1 ELSE 0
  BY <1>1, <1>2, <1>3, <1>4 DEF ChainInv, Fetches, Active
<1>6. \A l \in Key : l.x \notin asked => raw[l] = 0
  BY <1>1, <1>2 DEF ChainInv
<1>7. k.x \in asked \/ k.x \notin asked
  OBVIOUS
<1> QED
  BY <1>5, <1>6, <1>7 DEF Wanted

\* When Execute returns nil and every query had its answer, each page of each input has
\* one row of the raw table, and there is no row of another page.
THEOREM NilMeansAllCollected == Spec => []NilMeansCollected
<1>1. CoreInv => NilMeansCollected
  BY CoreCollects
<1> QED
  BY <1>1, CoreHolds, PTL

-----------------------------------------------------------------------------
(* The batch, while one goroutine fetches at a time.                        *)

LEMMA Sole ==
    ASSUME CoreInv, OneAtATime, NEW f \in Fetcher, NEW g \in Fetcher, Active(f), Active(g)
    PROVE  f = g
<1>1. TypeInv /\ ChainInv
  BY DEF CoreInv
<1>2. CASE ~paged
  BY <1>1, <1>2 DEF ChainInv
<1>3. CASE Cardinality(asked) <= 1
  <2>1. key[f].x \in asked /\ key[g].x \in asked
    BY <1>1 DEF ChainInv
  <2>2. IsFiniteSet(asked)
    BY <1>1, Bounds, FS_Subset DEF TypeInv
  <2>3. Cardinality(asked) \in Nat /\ Cardinality(asked) # 0
    BY <2>1, <2>2, FS_CardinalityType, FS_EmptySet
  <2>4. Cardinality(asked) = 1
    BY <1>3, <2>3
  <2>5. PICK x : asked = {x}
    BY <2>2, <2>4, FS_Singleton
  <2>6. key[f].x = key[g].x
    BY <2>1, <2>5
  <2> QED
    BY <1>1, <2>6 DEF ChainInv
<1> QED
  BY <1>2, <1>3 DEF OneAtATime

\* The records in the slots, one slot more.
LEMMA ValidSlots == \A n \in Nat : Valid(n + 1) = Valid(n) \cup {slots[n]}
<1> SUFFICES ASSUME NEW n \in Nat PROVE Valid(n + 1) = Valid(n) \cup {slots[n]}
  OBVIOUS
<1>1. 0 .. (n + 1) - 1 = (0 .. n - 1) \cup {n}
  OBVIOUS
<1> QED
  BY <1>1 DEF Valid

\* What the batch holds when nobody stands between the assignment and the increment.
Packed(n) ==
    /\ n <= BatchSize
    /\ \A i \in 0 .. n - 1 : slots[i] \in Record
    /\ \A i, j \in 0 .. n - 1 : i # j => slots[i] # slots[j]

\* Slots and index stay, and so does the goroutine that counts, if there is one.
LEMMA BatchSame ==
    ASSUME BatchInv, UNCHANGED <<slots, current, index>>, UNCHANGED args,
           \A h \in Fetcher : at'[h] = "count" => at[h] = "count",
           main'.at # "returned" =>
              main.at # "returned" /\ \A h \in Fetcher : at[h] = "count" => at'[h] = "count"
    PROVE  BatchInv'
<1>1. UNCHANGED <<paged, asked>> /\ (OneAtATime' <=> OneAtATime)
  BY DEF args, OneAtATime
<1>2. Valid(current)' = Valid(current) /\ Valid(current + 1)' = Valid(current + 1)
  BY DEF Valid
<1> QED
  BY <1>1, <1>2 DEF BatchInv

\* The batch holds so much, and nobody counts.
LEMMA BatchSettles ==
    ASSUME Packed(current)', index' = Valid(current)' \/ main'.at = "returned",
           \A h \in Fetcher : at'[h] # "count"
    PROVE  BatchInv'
  BY DEF BatchInv, Packed

LEMMA FlushPacks ==
    ASSUME TypeInv, NEW n \in Nat, Flush(n)
    PROVE  Packed(current)' /\ index' = Valid(current)'
<1>1. current' = 0 /\ index' = {} /\ BatchSize \in Nat
  BY Bounds DEF Flush
<1>2. Valid(current)' = {}
  BY <1>1 DEF Valid
<1>3. 0 .. current' - 1 = {}
  BY <1>1
<1> QED
  BY <1>1, <1>2, <1>3 DEF Packed

\* Where goroutine f is under way, the batch is as it should be for it.
LEMMA BatchOf ==
    ASSUME CoreInv, BatchInv, OneAtATime, NEW f \in Fetcher, Active(f)
    PROVE  /\ Packed(current) /\ current \in Nat /\ BatchSize \in Nat /\ main.at # "returned"
           /\ \A h \in Fetcher : h # f => at[h] = "idle"
           /\ at[f] # "count" => index = Valid(current)
           /\ at[f] = "count" =>
                /\ current < BatchSize
                /\ slots[current] \in Record
                /\ \A i \in 0 .. current - 1 : slots[i] # slots[current]
                /\ index = Valid(current + 1)
<1>1. current \in Nat /\ BatchSize \in Nat
  BY Bounds DEF CoreInv, TypeInv
<1>2. main.at # "returned"
  BY DEF CoreInv, NothingLeftBehind, Active
<1>3. \A h \in Fetcher : h # f => at[h] = "idle"
  BY Sole DEF Active
<1>4. Packed(current)
  BY DEF BatchInv, Packed
<1>5. CASE at[f] = "count"
  BY <1>1, <1>2, <1>3, <1>4, <1>5 DEF BatchInv
<1>6. CASE at[f] # "count"
  <2>1. \A h \in Fetcher : at[h] # "count"
    BY <1>3, <1>6
  <2> QED
    BY <1>1, <1>2, <1>3, <1>4, <1>6, <2>1 DEF BatchInv
<1> QED
  BY <1>5, <1>6

\* One slot more.
LEMMA PackedMore ==
    ASSUME NEW n \in Nat, n < BatchSize, BatchSize \in Nat, Packed(n), slots[n] \in Record,
           \A i \in 0 .. n - 1 : slots[i] # slots[n]
    PROVE  Packed(n + 1)
<1>1. 0 .. (n + 1) - 1 = (0 .. n - 1) \cup {n} /\ n + 1 <= BatchSize
  OBVIOUS
<1> QED
  BY <1>1 DEF Packed

\* The slot of a record that the batch does not have yet.
LEMMA SlotTaken ==
    ASSUME CoreInv, BatchInv, OneAtATime, UNCHANGED args, NEW f \in Fetcher,
           at[f] = "add", at'[f] = "count", \A h \in Fetcher : h # f => at'[h] = at[h],
           NEW r \in Record, AddSlot(r)
    PROVE  BatchInv'
<1>1. /\ Packed(current) /\ current \in Nat /\ BatchSize \in Nat
      /\ index = Valid(current)
  BY BatchOf DEF Active
<1>2. /\ current < BatchSize /\ current' = current /\ index' = index \cup {r} /\ r \notin index
      /\ slots' = [slots EXCEPT ![current] = r]
  BY DEF AddSlot, Known
<1>3. slots \in [0 .. BatchSize - 1 -> Record \cup {NoRecord}] /\ current \in 0 .. BatchSize - 1
  BY <1>1, <1>2 DEF CoreInv, TypeInv
<1>4. slots'[current] = r /\ \A i \in 0 .. current - 1 : slots'[i] = slots[i]
  <2>1. \A i \in 0 .. current - 1 : i \in 0 .. BatchSize - 1 /\ i # current
    BY <1>1, <1>2
  <2> QED
    BY <1>2, <1>3, <2>1
<1>5. \A i \in 0 .. current - 1 : slots'[i] # r
  BY <1>1, <1>2, <1>4 DEF Valid
<1>6. index' = {slots'[i] : i \in 0 .. (current' + 1) - 1}
  <2>1. 0 .. (current + 1) - 1 = (0 .. current - 1) \cup {current}
    BY <1>1
  <2>2. {slots'[i] : i \in 0 .. (current + 1) - 1} = {slots'[i] : i \in 0 .. current - 1} \cup {slots'[current]}
    BY <2>1
  <2>3. {slots'[i] : i \in 0 .. current - 1} = Valid(current)
    BY <1>4 DEF Valid
  <2> QED
    BY <1>1, <1>2, <1>4, <2>2, <2>3
<1>7. /\ current' <= BatchSize
      /\ \A i \in 0 .. current' - 1 : slots'[i] \in Record
      /\ \A i, j \in 0 .. current' - 1 : i # j => slots'[i] # slots'[j]
  BY <1>1, <1>2, <1>4 DEF Packed
<1>8. /\ current' < BatchSize
      /\ slots'[current'] \in Record
      /\ \A i \in 0 .. current' - 1 : slots'[i] # slots'[current']
  BY <1>2, <1>4, <1>5
<1>9. index' = Valid(current + 1)'
  BY <1>6 DEF Valid
<1> QED
  BY <1>7, <1>8, <1>9 DEF BatchInv

LEMMA BatchAdds ==
    ASSUME CoreInv, LeftInv, BatchInv, NEW f \in Fetcher, Batches(f)
    PROVE  BatchInv'
<1>1. /\ at[f] \in {"parse", "add", "count"} /\ at'[f] \in {"add", "count", "next"} /\ key[f] \in Key
      /\ at' \in [Fetcher -> Places]
      /\ \A h \in Fetcher : h # f => at'[h] = at[h]
      /\ UNCHANGED <<main, asked, paged>>
      /\ UNCHANGED args
  BY BatchesEffect
<1>2. OneAtATime' <=> OneAtATime
  BY <1>1 DEF OneAtATime
<1>3. CASE ~OneAtATime
  BY <1>2, <1>3 DEF BatchInv
<1>4. ASSUME OneAtATime PROVE BatchInv'
  <2>1. Active(f) /\ TypeInv
    BY <1>1 DEF Active, CoreInv
  <2>2. /\ Packed(current) /\ current \in Nat /\ BatchSize \in Nat
        /\ \A h \in Fetcher : h # f => at[h] = "idle"
        /\ at[f] = "count" =>
             /\ current < BatchSize
             /\ slots[current] \in Record
             /\ \A i \in 0 .. current - 1 : slots[i] # slots[current]
             /\ index = Valid(current + 1)
    BY <1>4, <2>1, BatchOf
  <2>3. CASE AddsRecord(f)
    <3> DEFINE r == Head(left[f])
    <3>1. r \in Record /\ at[f] = "add"
      BY <2>3, LeftType DEF AddsRecord
    <3>2. CASE AddAgain(r) /\ at'[f] # "count"
      <4>1. UNCHANGED <<slots, current, index>>
        BY <3>2 DEF AddAgain
      <4>2. \A h \in Fetcher : at'[h] = "count" <=> at[h] = "count"
        BY <1>1, <3>1, <3>2
      <4> QED
        BY <1>1, <4>1, <4>2, BatchSame
    <3>3. CASE AddSlot(r) /\ at'[f] = "count"
      <4> HIDE DEF r
      <4> QED
        BY <1>1, <1>4, <3>1, <3>3, SlotTaken
    <3>4. \/ AddAgain(r) /\ at' = [at EXCEPT ![f] = AddsNext(Tail(left[f]))]
          \/ AddSlot(r) /\ at' = [at EXCEPT ![f] = "count"]
      BY <2>3 DEF AddsRecord, Moves
    <3>5. AddsNext(Tail(left[f])) # "count"
      BY DEF AddsNext
    <3> HIDE DEF r
    <3> QED
      BY <2>1, <3>2, <3>3, <3>4, <3>5 DEF TypeInv
  <2>5. CASE Parses(f)
    <3>1. at[f] = "parse" /\ at' = [at EXCEPT ![f] = AddsNext(Results[key[f]])] /\ UNCHANGED batch
      BY <2>5 DEF Parses, Moves
    <3>2. AddsNext(Results[key[f]]) # "count"
      BY DEF AddsNext
    <3>3. \A h \in Fetcher : at'[h] = "count" <=> at[h] = "count"
      BY <1>1, <2>1, <3>1, <3>2 DEF TypeInv
    <3> QED
      BY <1>1, <3>1, <3>3, BatchSame DEF batch
  <2>4. CASE CountsRecord(f)
    <3>1. at[f] = "count" /\ at'[f] # "count"
      BY <2>1, <2>4 DEF CountsRecord, Moves, AddsNext, TypeInv
    <3>2. \A h \in Fetcher : at'[h] # "count"
      BY <1>1, <2>2, <3>1
    <3>3. CASE current + 1 = BatchSize /\ Flush(BatchSize)
      BY <2>1, <2>2, <3>2, <3>3, FlushPacks, BatchSettles
    <3>4. CASE current' = current + 1 /\ UNCHANGED <<typed, slots, index, table>>
      <4>1. Packed(current + 1)
        BY <2>2, <3>1, PackedMore
      <4>2. index' = Valid(current + 1)
        BY <2>2, <3>1, <3>4
      <4>3. Packed(current)' /\ index' = Valid(current)'
        BY <3>4, <4>1, <4>2 DEF Packed, Valid
      <4> QED
        BY <3>2, <4>3, BatchSettles
    <3> QED
      BY <2>4, <3>3, <3>4 DEF CountsRecord, AddCount
  <2> QED
    BY <2>3, <2>4, <2>5 DEF Batches
<1> QED
  BY <1>3, <1>4

\* A goroutine gives its page up: a batch that could not be written stays full.
LEMMA BatchLoses ==
    ASSUME CoreInv, BatchInv, NEW f \in Fetcher, Loses(f)
    PROVE  BatchInv'
<1>1. /\ at[f] # "idle" /\ Leaves(f) /\ UNCHANGED <<main, asked, paged>> /\ UNCHANGED args
  BY DEF Loses, Answered, Stored, Execution, args
<1>2. TypeInv /\ Active(f)
  BY <1>1 DEF CoreInv, Active
<1>3. at'[f] = "idle" /\ \A h \in Fetcher : h # f => at'[h] = at[h]
  BY <1>1, <1>2, LeaveType
<1>4. CASE at[f] # "count" /\ UNCHANGED <<slots, current, index>>
  <2>1. \A h \in Fetcher : at'[h] = "count" <=> at[h] = "count"
    BY <1>3, <1>4
  <2> QED
    BY <1>1, <1>4, <2>1, BatchSame
<1>5. CASE at[f] = "count" /\ AddCountFails
  <2>1. OneAtATime' <=> OneAtATime
    BY <1>1 DEF OneAtATime
  <2>2. CASE ~OneAtATime
    BY <2>1, <2>2 DEF BatchInv
  <2>3. CASE OneAtATime
    <3>1. /\ Packed(current) /\ current \in Nat /\ BatchSize \in Nat
          /\ \A h \in Fetcher : h # f => at[h] = "idle"
          /\ current < BatchSize
          /\ slots[current] \in Record
          /\ \A i \in 0 .. current - 1 : slots[i] # slots[current]
          /\ index = Valid(current + 1)
      BY <1>2, <1>5, <2>3, BatchOf
    <3>2. Packed(current + 1)
      BY <3>1, PackedMore
    <3>3. current' = current + 1 /\ UNCHANGED <<slots, index>>
      BY <1>5 DEF AddCountFails
    <3>4. Packed(current)' /\ index' = Valid(current)'
      BY <3>1, <3>2, <3>3 DEF Packed, Valid
    <3>5. \A h \in Fetcher : at'[h] # "count"
      BY <1>3, <3>1
    <3> QED
      BY <3>4, <3>5, BatchSettles
  <2> QED
    BY <2>2, <2>3
<1>6. \/ at[f] # "count" /\ UNCHANGED <<slots, current, index>>
      \/ at[f] = "count" /\ AddCountFails
  BY DEF Loses, Answered, ForTypeFails, batch
<1> QED
  BY <1>4, <1>5, <1>6

\* Every other step.
LEMMA BatchRest ==
    ASSUME CoreInv, BatchInv,
           \/ QueryMoves \/ NextInput \/ InputFails \/ MainMoves \/ ProcessEnds
           \/ \E f \in Fetcher : \/ Answers(f) \/ Inserts(f) \/ Finishes(f)
                                 \/ \E g \in Tick : Follows(f, g)
           \/ \E g \in Tick : TickMoves(g)
    PROVE  BatchInv'
<1>1. TypeInv /\ CountInv /\ MainInv /\ NothingLeftBehind /\ ChainInv
  BY DEF CoreInv
<1>2. ASSUME UNCHANGED batch, UNCHANGED args, UNCHANGED main \/ main.at # "returned",
             \A h \in Fetcher : at'[h] = "count" <=> at[h] = "count"
      PROVE  BatchInv'
  BY <1>2, BatchSame DEF batch
<1>3. CASE QueryMoves
  <2>1. \A h \in Fetcher : at'[h] = "count" <=> at[h] = "count"
    BY <1>3 DEF QueryMoves, Querying
  <2> QED
    BY <1>2, <1>3, <2>1 DEF QueryMoves, Execution
<1>4. CASE NextInput
  <2>1. UNCHANGED batch /\ UNCHANGED args /\ main.at = "loop" /\ at[0] = "idle" /\ at'[0] = "lock" /\ Only(0)
    BY <1>1, <1>4, NextEffect
  <2>2. \A h \in Fetcher : at'[h] = "count" <=> at[h] = "count"
    BY <2>1 DEF Only
  <2> QED
    BY <1>2, <2>1, <2>2
<1>5. CASE MainMoves
  <2>1. UNCHANGED at /\ UNCHANGED args /\ main.at # "returned"
    BY <1>5 DEF MainMoves, Begin, LoopEnds, FetchReturns, Returns, client, fetchers
  <2>2. CASE UNCHANGED <<slots, current, index>>
    BY <2>1, <2>2, BatchSame
  <2>3. CASE Returns /\ Flush(current)
    <3>1. at[0] = "idle" /\ waitGroup = 0
      BY <1>1, <2>3 DEF Returns, Waited, MainInv
    <3>2. \A f \in Fetcher : at'[f] # "count"
      BY <1>1, <2>1, <3>1, NobodyRuns
    <3>3. Packed(current)' /\ index' = Valid(current)'
      BY <1>1, <2>3, FlushPacks DEF TypeInv
    <3> QED
      BY <3>2, <3>3, BatchSettles
  <2>4. UNCHANGED <<slots, current, index>> \/ (Returns /\ Flush(current))
    BY <1>5 DEF MainMoves, Begin, LoopEnds, FetchReturns, Returns, batch, CloseBatch
  <2> QED
    BY <2>2, <2>3, <2>4
<1>11. CASE InputFails
  <2>1. UNCHANGED batch /\ UNCHANGED args /\ UNCHANGED main /\ UNCHANGED at
    BY <1>11 DEF InputFails, client, fetchers
  <2> QED
    BY <1>2, <2>1
<1>6. CASE ProcessEnds
  <2>1. UNCHANGED batch /\ UNCHANGED args /\ main'.at = "returned" /\ \A h \in Fetcher : at'[h] = "idle"
    BY <1>6 DEF ProcessEnds
  <2> QED
    BY <2>1, BatchSame DEF batch
<1>7. ASSUME NEW f \in Fetcher, Answers(f) \/ Inserts(f) PROVE BatchInv'
  <2>1. \A h \in Fetcher : at'[h] = "count" <=> at[h] = "count"
    BY <1>7 DEF Answers, Inserts, Only, Querying, Answered
  <2> QED
    BY <1>2, <1>7, <2>1 DEF Answers, Inserts, Execution
<1>8. ASSUME NEW f \in Fetcher, Finishes(f) PROVE BatchInv'
  <2>1. at[f] = "next" /\ at'[f] = "idle" /\ \A h \in Fetcher : h # f => at'[h] = at[h]
    BY <1>1, <1>8, LeaveType DEF Finishes
  <2>2. \A h \in Fetcher : at'[h] = "count" <=> at[h] = "count"
    BY <2>1
  <2> QED
    BY <1>2, <1>8, <2>2 DEF Finishes, Execution
<1>9. ASSUME NEW f \in Fetcher, NEW g \in Tick, Follows(f, g) PROVE BatchInv'
  <2>1. /\ g # f /\ g \in Fetcher /\ at[f] = "next" /\ at[g] = "idle"
        /\ at'[f] = "idle" /\ at'[g] = "spawned"
        /\ \A h \in Fetcher : h # f /\ h # g => at'[h] = at[h]
    BY <1>1, <1>9, FollowsEffect DEF Follows
  <2>2. \A h \in Fetcher : at'[h] = "count" <=> at[h] = "count"
    BY <2>1
  <2> QED
    BY <1>2, <1>9, <2>2 DEF Follows, Execution
<1>10. ASSUME NEW g \in Tick, TickMoves(g) PROVE BatchInv'
  <2>1. \A h \in Fetcher : at'[h] = "count" <=> at[h] = "count"
    BY <1>1, <1>10, Bounds DEF TickMoves, TickRuns, TickEnds, Moves, TypeInv
  <2> QED
    BY <1>2, <1>10, <2>1 DEF TickMoves, Others
<1> QED
  BY <1>3, <1>4, <1>5, <1>6, <1>7, <1>8, <1>9, <1>10, <1>11

LEMMA BatchStarts == Init => BatchInv
<1> SUFFICES ASSUME Init PROVE BatchInv
  OBVIOUS
<1>1. current = 0 /\ index = {} /\ BatchSize \in Nat /\ \A h \in Fetcher : at[h] = "idle"
  BY Bounds DEF Init, BatchInit, ClientInit
<1>2. Valid(current) = {} /\ 0 .. current - 1 = {}
  BY <1>1 DEF Valid
<1> QED
  BY <1>1, <1>2 DEF BatchInv

LEMMA BatchNext == CoreInv /\ LeftInv /\ BatchInv /\ [Next]_vars => BatchInv'
<1> SUFFICES ASSUME CoreInv, LeftInv, BatchInv, [Next]_vars PROVE BatchInv'
  OBVIOUS
<1>1. TypeInv
  BY DEF CoreInv
<1> QED
  BY <1>1, Steps, BatchRest, BatchAdds, BatchLoses

LEMMA BatchHolds == Spec => [](CoreInv /\ BatchInv)
<1> QED
  BY CoreInit, CoreNext, LeftInit, LeftNext, BatchStarts, BatchNext, PTL DEF Spec

\* As long as one goroutine fetches at a time, no batch is ever written with the same key
\* twice, though the batch has no lock, and however its writes fail.
THEOREM NoDuplicateInBatch == Spec => []BatchIsDistinct
<1>1. ASSUME CoreInv, BatchInv
      PROVE  BatchIsDistinct
  <2> SUFFICES ASSUME OneAtATime, NEW i \in 0 .. current - 1, NEW j \in 0 .. current - 1, i < j
               PROVE  slots[i] # slots[j]
    BY DEF BatchIsDistinct, DistinctKeys
  <2>1. i # j
    BY <1>1 DEF CoreInv, TypeInv
  <2> QED
    BY <1>1, <2>1 DEF BatchInv
<1> QED
  BY <1>1, BatchHolds, PTL

-----------------------------------------------------------------------------
(* The tool table, while one goroutine fetches at a time.                   *)

LEMMA ParsedSame ==
    ASSUME UNCHANGED raw, \A h \in Fetcher : at'[h] = "parse" <=> at[h] = "parse",
           \A h \in Fetcher : at[h] = "parse" => key'[h] = key[h]
    PROVE  Added' = Added
<1>1. Parsed' = Parsed
  BY DEF Parsed
<1> QED
  BY <1>1 DEF Added

\* A row is inserted: it is still to be parsed.
LEMMA ParsedInserts ==
    ASSUME CoreInv, NEW f \in Fetcher, Inserts(f)
    PROVE  Added' = Added
<1>1. /\ at[f] \in Answered /\ at'[f] = "parse" /\ UNCHANGED key
      /\ \A h \in Fetcher : h # f => at'[h] = at[h]
      /\ raw' = [raw EXCEPT ![key[f]] = @ + 1]
  BY DEF Inserts, Only
<1>2. key[f] \in Key /\ RowsUpTo(f) /\ raw \in [Key -> Nat]
  BY <1>1 DEF CoreInv, TypeInv, ChainInv, Active, Answered
<1>3. raw[key[f]] = 0
  <2>1. ~(key[f].page < key[f].page)
    BY <1>2, KeyType
  <2> QED
    BY <1>1, <1>2, <2>1 DEF RowsUpTo, Stored, Answered
<1>4. at[f] # "parse"
  BY <1>1 DEF Answered
<1>5. ASSUME NEW k \in Key
      PROVE  k \in Parsed' <=> k \in Parsed
  <2>1. CASE k = key[f]
    BY <1>1, <1>3, <2>1 DEF Parsed
  <2>2. CASE k # key[f]
    <3>1. raw'[k] = raw[k]
      BY <1>1, <1>2, <2>2
    <3>2. \A h \in Fetcher : (at'[h] = "parse" => key'[h] # k) <=> (at[h] = "parse" => key[h] # k)
      BY <1>1, <1>4, <2>2
    <3> QED
      BY <3>1, <3>2 DEF Parsed
  <2> QED
    BY <2>1, <2>2
<1>6. Parsed' = Parsed
  BY <1>5 DEF Parsed
<1> QED
  BY <1>6 DEF Added

\* A row is parsed.
LEMMA ParsedMore ==
    ASSUME CoreInv, NEW f \in Fetcher, Parses(f)
    PROVE  Added' = Added \cup RecordsIn(Results[key[f]])
<1>1. /\ at[f] = "parse" /\ UNCHANGED <<key, raw>> /\ key[f] \in Key
      /\ \A h \in Fetcher : h # f => at'[h] = at[h]
      /\ at'[f] # "parse"
  BY BatchesEffect DEF Parses, Moves, Batches
<1>2. RowsUpTo(f) /\ \A h \in Fetcher : at[h] = "parse" /\ key[h] = key[f] => h = f
  BY <1>1 DEF CoreInv, ChainInv, Active
<1>3. raw[key[f]] # 0
  BY <1>1, <1>2 DEF RowsUpTo, Stored
<1>4. ASSUME NEW k \in Key
      PROVE  k \in Parsed' <=> k \in Parsed \/ k = key[f]
  <2>1. CASE k = key[f]
    BY <1>1, <1>2, <1>3, <2>1 DEF Parsed
  <2>2. CASE k # key[f]
    BY <1>1, <2>2 DEF Parsed
  <2> QED
    BY <2>1, <2>2
<1>5. Parsed' = Parsed \cup {key[f]}
  BY <1>1, <1>4 DEF Parsed
<1> QED
  BY <1>5 DEF Added

\* Nobody else has anything to add.
LEMMA WaitingOf ==
    ASSUME NEW f \in Fetcher, \A h \in Fetcher : h # f => left[h] = <<>> /\ left'[h] = <<>>
    PROVE  Waiting = RecordsIn(left[f]) /\ Waiting' = RecordsIn(left'[f])
<1>1. RecordsIn(<<>>) = {}
  BY DEF RecordsIn
<1>2. ASSUME NEW h \in Fetcher, h # f PROVE RecordsIn(left[h]) = {} /\ RecordsIn(left'[h]) = {}
  BY <1>1, <1>2
<1>3. Waiting' = UNION {RecordsIn(left'[h]) : h \in Fetcher}
  BY DEF Waiting, RecordsIn
<1> QED
  BY <1>2, <1>3 DEF Waiting

LEMMA NobodyWaits ==
    ASSUME LeftInv, \A h \in Fetcher : at[h] \notin {"add", "count"}
    PROVE  Waiting = {}
<1>1. 0 \in Fetcher /\ RecordsIn(<<>>) = {} /\ \A h \in Fetcher : left[h] = <<>>
  BY Bounds DEF RecordsIn, LeftInv
<1> QED
  BY <1>1 DEF Waiting

LEMMA TableSame ==
    ASSUME TableInv, Added' = Added, UNCHANGED left, UNCHANGED batch, UNCHANGED args, hasError => hasError',
           main'.at # "returned" => main.at # "returned" /\ (main.at = "start" => main'.at = "start" \/ ~incremental)
    PROVE  TableInv'
<1>1. UNCHANGED <<paged, asked, incremental, typed, table, index>>
  BY DEF args, batch
<1>2. (OneAtATime' <=> OneAtATime) /\ Kept' = Kept /\ Waiting' = Waiting
  BY <1>1 DEF OneAtATime, Kept, Waiting
<1> QED
  BY <1>1, <1>2 DEF TableInv

LEMMA TableBatches ==
    ASSUME CoreInv, LeftInv, LeftInv', BatchInv, TableInv, NEW f \in Fetcher, Batches(f)
    PROVE  TableInv'
<1>1. /\ at[f] \in {"parse", "add", "count"} /\ at'[f] \in {"add", "count", "next"} /\ key[f] \in Key
      /\ at' \in [Fetcher -> Places]
      /\ \A h \in Fetcher : h # f => at'[h] = at[h]
      /\ UNCHANGED <<key, raw, hasError, main, asked, paged>>
      /\ UNCHANGED args
  BY BatchesEffect
<1>2. (OneAtATime' <=> OneAtATime) /\ Kept' = Kept /\ UNCHANGED incremental
  BY <1>1 DEF OneAtATime, Kept, args
<1> SUFFICES ASSUME OneAtATime, ~hasError
             PROVE  /\ Waiting' \subseteq Added'
                    /\ typed' => /\ table' \cup index' \subseteq Kept \cup Added'
                                 /\ Kept \cup Added' \subseteq table' \cup index' \cup Waiting'
                                 /\ incremental \/ Added' # {}
                    /\ ~typed' => table' = {Old} /\ index' = {} /\ Added' \subseteq Waiting' /\ ~incremental
  BY <1>1, <1>2 DEF TableInv
<1>3. Active(f) /\ TypeInv /\ MainInv /\ ChainInv
  BY <1>1 DEF Active, CoreInv
<1>4. main.at # "start"
  BY <1>1, <1>3 DEF MainInv, ChainInv
<1>5. /\ Packed(current) /\ current \in Nat /\ BatchSize \in Nat /\ main.at # "returned"
      /\ \A h \in Fetcher : h # f => at[h] = "idle"
      /\ at[f] = "count" =>
             /\ current < BatchSize
             /\ slots[current] \in Record
             /\ \A i \in 0 .. current - 1 : slots[i] # slots[current]
             /\ index = Valid(current + 1)
  BY <1>3, BatchOf
<1>6. /\ Waiting \subseteq Added
      /\ typed => /\ table \cup index \subseteq Kept \cup Added
                  /\ Kept \cup Added \subseteq table \cup index \cup Waiting
                  /\ incremental \/ Added # {}
      /\ ~typed => table = {Old} /\ index = {} /\ Added \subseteq Waiting /\ Kept = {} /\ ~incremental
  BY <1>4, <1>5 DEF TableInv, Kept
<1>7. typed \in BOOLEAN
  BY <1>3 DEF TypeInv
<1>8. Waiting = RecordsIn(left[f]) /\ Waiting' = RecordsIn(left'[f])
  <2>1. \A h \in Fetcher : h # f => left[h] = <<>> /\ left'[h] = <<>>
    BY <1>1, <1>5 DEF LeftInv
  <2> QED
    BY <2>1, WaitingOf
<1>9. left \in [Fetcher -> Seq(Record)]
  BY DEF LeftInv
<1>10. CASE Parses(f)
  <2>1. at[f] = "parse" /\ left' = [left EXCEPT ![f] = Results[key[f]]] /\ UNCHANGED batch
    BY <1>10 DEF Parses, Moves
  <2>2. Waiting = {}
    BY <1>8, <2>1 DEF LeftInv, RecordsIn
  <2>3. Waiting' = RecordsIn(Results[key[f]])
    BY <1>8, <1>9, <2>1
  <2>4. Added' = Added \cup RecordsIn(Results[key[f]])
    BY <1>10, ParsedMore
  <2> QED
    BY <1>6, <2>1, <2>2, <2>3, <2>4 DEF batch
<1>11. CASE AddsRecord(f)
  <2> DEFINE r == Head(left[f])
  <2>1. /\ at[f] = "add" /\ (AddAgain(r) \/ AddSlot(r))
        /\ left' = [left EXCEPT ![f] = Tail(left[f])]
    BY <1>11 DEF AddsRecord
  <2>2. Added' = Added
    <3>1. \A h \in Fetcher : at'[h] = "parse" <=> at[h] = "parse"
      BY <1>1, <2>1
    <3> QED
      BY <1>1, <3>1, ParsedSame
  <2>3. Waiting = {r} \cup Waiting'
    <3>1. left'[f] = Tail(left[f])
      BY <1>9, <2>1
    <3> QED
      BY <1>8, <2>1, <3>1, LeftType
  <2> HIDE DEF r
  <2>4. typed' = TRUE /\ table' = (IF typed THEN table ELSE {})
    BY <2>1 DEF AddAgain, AddSlot, ForType, Outdated
  <2>5. CASE AddAgain(r)
    <3>1. r \in index /\ index' = index
      BY <2>5 DEF AddAgain, Known
    <3>2. typed
      BY <1>6, <1>7, <3>1
    <3> QED
      BY <1>6, <2>2, <2>3, <2>4, <3>1, <3>2
  <2>6. CASE AddSlot(r)
    <3>1. index' = index \cup {r}
      BY <2>6 DEF AddSlot
    <3>2. CASE typed
      BY <1>6, <2>2, <2>3, <2>4, <3>1, <3>2
    <3>3. CASE ~typed
      BY <1>6, <2>2, <2>3, <2>4, <3>1, <3>3
    <3> QED
      BY <3>2, <3>3
  <2> QED
    BY <2>1, <2>5, <2>6
<1>12. CASE CountsRecord(f)
  <2>1. at[f] = "count" /\ at'[f] # "parse" /\ AddCount /\ UNCHANGED left
    BY <1>1, <1>3, <1>12 DEF CountsRecord, Moves, TypeInv, collected
  <2>2. Added' = Added
    <3>1. \A h \in Fetcher : at'[h] = "parse" <=> at[h] = "parse"
      BY <1>1, <2>1
    <3> QED
      BY <1>1, <3>1, ParsedSame
  <2>3. slots[current] \in index
    <3>1. Valid(current + 1) = Valid(current) \cup {slots[current]}
      BY <1>5, ValidSlots
    <3> QED
      BY <1>5, <2>1, <3>1
  <2>4. typed /\ Waiting' = Waiting
    BY <1>6, <1>7, <1>8, <2>1, <2>3
  <2>5. CASE current + 1 = BatchSize /\ Flush(BatchSize)
    <3>1. index = Valid(BatchSize)
      BY <1>5, <2>1, <2>5
    <3>2. NoRecord \notin Valid(BatchSize)
      <4>1. \A i \in 0 .. BatchSize - 1 : slots[i] \in Record
        <5>1. 0 .. BatchSize - 1 = (0 .. current - 1) \cup {current}
          BY <1>5, <2>5
        <5> QED
          BY <1>5, <2>1, <5>1 DEF Packed
      <4> QED
        BY <4>1, Bounds DEF Valid
    <3>3. table' = table \cup Valid(BatchSize) /\ index' = {} /\ typed' = typed
      BY <2>5, <3>2 DEF Flush
    <3> QED
      BY <1>6, <2>2, <2>4, <3>1, <3>3
  <2>6. CASE UNCHANGED <<typed, slots, index, table>>
    BY <1>6, <2>2, <2>4, <2>6
  <2> QED
    BY <2>1, <2>5, <2>6 DEF AddCount
<1> QED
  BY <1>10, <1>11, <1>12 DEF Batches

LEMMA TableLoses ==
    ASSUME CoreInv, TableInv, NEW f \in Fetcher, Loses(f)
    PROVE  TableInv'
<1>1. CASE hasError' = TRUE
  BY <1>1 DEF TableInv
<1>2. CASE UNCHANGED left /\ UNCHANGED hasError /\ UNCHANGED batch /\ at[f] \in Answered
  <2>1. /\ Leaves(f) /\ UNCHANGED <<raw, main>> /\ UNCHANGED args /\ TypeInv
    BY DEF Loses, Execution, CoreInv
  <2>2. at'[f] = "idle" /\ \A h \in Fetcher : h # f => at'[h] = at[h] /\ key'[h] = key[h]
    BY <2>1, LeaveType
  <2>3. Added' = Added
    <3>1. \A h \in Fetcher : at'[h] = "parse" <=> at[h] = "parse"
      BY <1>2, <2>2 DEF Answered
    <3>2. \A h \in Fetcher : at[h] = "parse" => key'[h] = key[h]
      BY <1>2, <2>2 DEF Answered
    <3> QED
      BY <2>1, <3>1, <3>2, ParsedSame
  <2> QED
    BY <1>2, <2>1, <2>3, TableSame
<1> QED
  BY <1>1, <1>2 DEF Loses

\* Execute's own steps; the first of an incremental collection extracts what there was.
LEMMA TableMain ==
    ASSUME CoreInv, LeftInv, TableInv, MainMoves
    PROVE  TableInv'
<1>1. UNCHANGED <<at, key, raw, left>> /\ UNCHANGED args /\ main.at # "returned"
  BY DEF MainMoves, Begin, LoopEnds, FetchReturns, Returns, client, fetchers, collected
<1>2. Added' = Added
  BY <1>1, ParsedSame
<1>3. /\ (OneAtATime' <=> OneAtATime) /\ Kept' = Kept /\ UNCHANGED <<incremental, paged, asked>>
      /\ Waiting' = Waiting
  BY <1>1 DEF OneAtATime, Kept, Waiting, args
<1>4. main \in Mains /\ typed \in BOOLEAN
  BY DEF CoreInv, MainInv, TypeInv
<1>5. CASE Begin
  <2>1. CASE ~incremental /\ main' = [main EXCEPT !.at = "loop"] /\ UNCHANGED batch /\ UNCHANGED hasError
    BY <1>1, <1>2, <2>1, TableSame
  <2>2. CASE main' = [at |-> "returned", result |-> "failed"]
    <3>1. main'.at = "returned"
      BY <2>2
    <3> QED
      BY <3>1 DEF TableInv
  <2>3. CASE hasError' = TRUE
    BY <2>3 DEF TableInv
  <2>4. CASE incremental /\ Flushed({Old}) /\ typed' = TRUE /\ UNCHANGED <<slots, current, index, hasError>>
    <3> SUFFICES ASSUME OneAtATime, ~hasError
                 PROVE  /\ Waiting \subseteq Added
                        /\ table' \cup index' \subseteq Kept \cup Added
                        /\ Kept \cup Added \subseteq table' \cup index' \cup Waiting
      BY <1>2, <1>3, <2>4 DEF TableInv
    <3>1. table' = (table \ (IF typed THEN {} ELSE table)) \cup {Old} /\ index' = index
      BY <2>4 DEF Flushed, Outdated
    <3>2. Kept = {Old}
      BY <2>4 DEF Kept
    <3>3. CASE typed
      BY <1>1, <3>1, <3>2, <3>3 DEF TableInv
    <3>4. CASE ~typed
      BY <1>1, <3>1, <3>2, <3>4 DEF TableInv
    <3> QED
      BY <3>3, <3>4
  <2> QED
    BY <1>5, <2>1, <2>2, <2>3, <2>4 DEF Begin
<1>6. CASE LoopEnds \/ FetchReturns
  <2>1. main.at # "start" /\ UNCHANGED batch /\ (hasError => hasError')
    BY <1>6 DEF LoopEnds, FetchReturns, collected
  <2> QED
    BY <1>1, <1>2, <2>1, TableSame
<1>7. CASE Returns
  <2>1. main'.at = "returned"
    BY <1>7 DEF Returns
  <2> QED
    BY <2>1 DEF TableInv
<1> QED
  BY <1>5, <1>6, <1>7 DEF MainMoves

\* Every other step.
LEMMA TableRest ==
    ASSUME CoreInv, TableInv,
           \/ QueryMoves \/ NextInput \/ InputFails \/ ProcessEnds
           \/ \E f \in Fetcher : \/ Answers(f) \/ Inserts(f) \/ Finishes(f)
                                 \/ \E g \in Tick : Follows(f, g)
           \/ \E g \in Tick : TickMoves(g)
    PROVE  TableInv'
<1>1. TypeInv /\ CountInv /\ MainInv /\ NothingLeftBehind /\ ChainInv
  BY DEF CoreInv
<1>2. ASSUME UNCHANGED batch, UNCHANGED left, UNCHANGED args, hasError => hasError',
             UNCHANGED main \/ (main.at # "start" /\ main.at # "returned"),
             Added' = Added
      PROVE  TableInv'
  BY <1>2, TableSame
<1>3. ASSUME UNCHANGED Execution, UNCHANGED Pending, UNCHANGED batch,
             \A h \in Fetcher : at'[h] = "parse" <=> at[h] = "parse",
             \A h \in Fetcher : at[h] = "parse" => key'[h] = key[h]
      PROVE  TableInv'
  <2>1. Added' = Added
    BY <1>3, ParsedSame DEF Pending
  <2> QED
    BY <1>2, <1>3, <2>1 DEF Execution, Pending
<1>4. CASE QueryMoves
  <2>1. \A h \in Fetcher : at'[h] = "parse" <=> at[h] = "parse"
    BY <1>4 DEF QueryMoves, Querying
  <2> QED
    BY <1>3, <1>4, <2>1 DEF QueryMoves
<1>5. CASE NextInput
  <2>1. /\ UNCHANGED batch /\ UNCHANGED args /\ UNCHANGED <<raw, left>> /\ main.at = "loop"
        /\ (hasError => hasError') /\ at[0] = "idle" /\ at'[0] = "lock" /\ Only(0)
    BY <1>1, <1>5, NextEffect
  <2>2. Added' = Added
    <3>1. \A h \in Fetcher : at'[h] = "parse" <=> at[h] = "parse"
      BY <2>1 DEF Only
    <3>2. \A h \in Fetcher : at[h] = "parse" => key'[h] = key[h]
      BY <2>1 DEF Only
    <3> QED
      BY <2>1, <3>1, <3>2, ParsedSame
  <2> QED
    BY <1>2, <2>1, <2>2
<1>12. CASE InputFails
  BY <1>12 DEF InputFails, TableInv
<1>6. CASE ProcessEnds
  BY <1>6 DEF ProcessEnds, TableInv
<1>7. ASSUME NEW f \in Fetcher, Answers(f) PROVE TableInv'
  <2>1. \A h \in Fetcher : at'[h] = "parse" <=> at[h] = "parse"
    BY <1>7 DEF Answers, Only, Querying, Answered
  <2> QED
    BY <1>3, <1>7, <2>1 DEF Answers
<1>8. ASSUME NEW f \in Fetcher, Inserts(f) PROVE TableInv'
  BY <1>2, <1>8, ParsedInserts DEF Inserts, Execution
<1>9. ASSUME NEW f \in Fetcher, Finishes(f) PROVE TableInv'
  <2>1. at[f] = "next" /\ at'[f] = "idle" /\ \A h \in Fetcher : h # f => at'[h] = at[h] /\ key'[h] = key[h]
    BY <1>1, <1>9, LeaveType DEF Finishes
  <2>2. \A h \in Fetcher : at'[h] = "parse" <=> at[h] = "parse"
    BY <2>1
  <2>3. \A h \in Fetcher : at[h] = "parse" => key'[h] = key[h]
    BY <2>1
  <2> QED
    BY <1>3, <1>9, <2>2, <2>3 DEF Finishes
<1>10. ASSUME NEW f \in Fetcher, NEW g \in Tick, Follows(f, g) PROVE TableInv'
  <2>1. /\ g # f /\ g \in Fetcher /\ at[f] = "next" /\ at[g] = "idle"
        /\ at'[f] = "idle" /\ at'[g] = "spawned"
        /\ \A h \in Fetcher : h # f /\ h # g => at'[h] = at[h] /\ key'[h] = key[h]
    BY <1>1, <1>10, FollowsEffect DEF Follows
  <2>2. \A h \in Fetcher : at'[h] = "parse" <=> at[h] = "parse"
    BY <2>1
  <2>3. \A h \in Fetcher : at[h] = "parse" => key'[h] = key[h]
    BY <2>1
  <2> QED
    BY <1>3, <1>10, <2>2, <2>3 DEF Follows
<1>11. ASSUME NEW g \in Tick, TickMoves(g) PROVE TableInv'
  <2>1. \A h \in Fetcher : at'[h] = "parse" <=> at[h] = "parse"
    BY <1>1, <1>11, Bounds DEF TickMoves, TickRuns, TickEnds, Moves, TypeInv
  <2>2. \A h \in Fetcher : at[h] = "parse" => key'[h] = key[h]
    BY <1>1, <1>11, Bounds DEF TickMoves, TickRuns, TickEnds, Moves, TypeInv
  <2> QED
    BY <1>3, <1>11, <2>1, <2>2 DEF TickMoves, Others, Execution, Pending, collected
<1> QED
  BY <1>4, <1>5, <1>6, <1>7, <1>8, <1>9, <1>10, <1>11, <1>12

LEMMA TableStarts == Init => TableInv
<1> SUFFICES ASSUME Init PROVE TableInv
  OBVIOUS
<1>1. /\ typed = FALSE /\ table = {Old} /\ index = {} /\ main.at = "start"
      /\ raw = [k \in Key |-> 0] /\ at = [f \in Fetcher |-> "idle"]
  BY DEF Init, BatchInit, ClientInit
<1>2. Parsed = {} /\ Added = {}
  BY <1>1 DEF Parsed, Added
<1>3. Waiting = {}
  BY <1>1, LeftInit, NobodyWaits
<1> QED
  BY <1>1, <1>2, <1>3 DEF TableInv

LEMMA TableNext == CoreInv /\ LeftInv /\ BatchInv /\ TableInv /\ [Next]_vars => TableInv'
<1> SUFFICES ASSUME CoreInv, LeftInv, BatchInv, TableInv, [Next]_vars PROVE TableInv'
  OBVIOUS
<1>1. TypeInv /\ LeftInv'
  BY LeftNext DEF CoreInv
<1> QED
  BY <1>1, Steps, TableRest, TableMain, TableBatches, TableLoses

-----------------------------------------------------------------------------
(* The last records are written when Execute returns nil.                   *)

LEMMA NilIsReturned ==
    ASSUME CoreInv, [Next]_vars, main'.result = "nil"
    PROVE  \/ main.result = "nil" /\ QueryMoves
           \/ Returns /\ ~hasError /\ CloseBatch /\ UNCHANGED <<raw, empty>> /\ UNCHANGED args
<1>1. TypeInv /\ MainInv /\ NothingLeftBehind
  BY DEF CoreInv
<1>2. main.result = "nil" => main.at = "returned" /\ \A f \in Fetcher : at[f] = "idle"
  BY <1>1 DEF MainInv, NothingLeftBehind
<1>3. main \in Mains /\ (main.result = "none" <=> main.at # "returned")
  BY <1>1 DEF MainInv
<1>4. CASE QueryMoves
  BY <1>4 DEF QueryMoves, Execution
<1>5. CASE NextInput
  <2>1. main.at = "loop" /\ main' = [main EXCEPT !.at = "fetching"]
    BY <1>5 DEF NextInput
  <2>2. main'.result = "none"
    BY <1>3, <2>1, MainTypes
  <2> QED
    BY <2>2
<1>12. CASE InputFails
  BY <1>3, <1>12 DEF InputFails
<1>6. CASE Begin \/ LoopEnds \/ FetchReturns
  <2>1. main.at \in {"start", "loop", "fetching"}
        /\ \/ main' = [main EXCEPT !.at = "loop"] \/ main' = [main EXCEPT !.at = "wait"]
           \/ main' = [at |-> "returned", result |-> "failed"]
    BY <1>6 DEF Begin, LoopEnds, FetchReturns
  <2>2. main.result = "none"
    BY <1>3, <2>1
  <2>3. main'.result = "none" \/ main'.result = "failed"
    <3>1. CASE main' = [main EXCEPT !.at = "loop"]
      BY <1>3, <2>2, <3>1, MainTypes
    <3>2. CASE main' = [main EXCEPT !.at = "wait"]
      BY <1>3, <2>2, <3>2, MainTypes
    <3>3. CASE main' = [at |-> "returned", result |-> "failed"]
      BY <3>3
    <3> QED
      BY <2>1, <3>1, <3>2, <3>3
  <2> QED
    BY <2>3
<1>7. CASE Returns
  <2>1. ~hasError /\ CloseBatch /\ UNCHANGED <<raw, empty>> /\ UNCHANGED args
    BY <1>7 DEF Returns, collected
  <2> QED
    BY <1>7, <2>1
<1>8. CASE ProcessEnds
  BY <1>8 DEF ProcessEnds
<1>9. ASSUME NEW f \in Fetcher, at[f] # "idle", UNCHANGED main
      PROVE  FALSE
  BY <1>2, <1>9
<1>10. ASSUME NEW f \in Fetcher,
              \/ Answers(f) \/ Inserts(f) \/ Loses(f) \/ Batches(f) \/ Finishes(f)
              \/ \E g \in Tick : Follows(f, g)
       PROVE  FALSE
  <2>1. at[f] # "idle"
    BY <1>10 DEF Answers, Inserts, Loses, Batches, Finishes, Follows, Parses, AddsRecord, CountsRecord,
       Moves, Querying, Answered, Stored
  <2>2. UNCHANGED main
    BY <1>10 DEF Answers, Inserts, Loses, Batches, Finishes, Follows, Parses, AddsRecord, CountsRecord,
       Aside, Execution
  <2> QED
    BY <1>9, <2>1, <2>2
<1>11. ASSUME NEW g \in Tick, TickMoves(g) PROVE FALSE
  <2>1. at[g] # "idle" /\ UNCHANGED main
    BY <1>11 DEF TickMoves, TickRuns, TickEnds, Moves, Others
  <2> QED
    BY <1>9, <2>1, Bounds
<1> QED
  BY <1>1, <1>4, <1>5, <1>6, <1>7, <1>8, <1>10, <1>11, <1>12, Steps DEF MainMoves

\* Wait has returned: the batch has what the table lacks.
LEMMA ReturnsWithAll ==
    ASSUME CoreInv, CoreInv', LeftInv, BatchInv, TableInv, Returns, ~hasError, CloseBatch,
           UNCHANGED <<raw, empty>>, UNCHANGED args, main'.result = "nil", empty = {},
           OneAtATime
    PROVE  table' = Collected \cup (IF incremental \/ Collected = {} THEN {Old} ELSE {})
<1>1. TypeInv /\ CountInv /\ MainInv
  BY DEF CoreInv
<1>2. main.at = "wait" /\ waitGroup = 0
  BY DEF Returns, Waited
<1>3. \A f \in Fetcher : at[f] = "idle"
  <2>1. at[0] = "idle"
    BY <1>1, <1>2 DEF MainInv
  <2> QED
    BY <1>1, <1>2, <2>1, NobodyRuns
<1>4. /\ Packed(current) /\ current \in Nat /\ BatchSize \in Nat /\ index = Valid(current)
  BY <1>1, <1>2, <1>3, Bounds DEF BatchInv, Packed, TypeInv
<1>5. table' = table \cup index
  <2>1. CASE current = 0
    <3>1. index = {}
      BY <1>4, <2>1 DEF Valid
    <3>2. table' = table
      BY <2>1 DEF CloseBatch, batch
    <3> QED
      BY <3>1, <3>2
  <2>2. CASE current # 0
    <3>1. table' = table \cup (Valid(current) \ {NoRecord})
      BY <2>2 DEF CloseBatch, Flush
    <3>2. NoRecord \notin Valid(current)
      BY <1>4, Bounds DEF Packed, Valid
    <3> QED
      BY <1>4, <3>1, <3>2
  <2> QED
    BY <2>1, <2>2
<1>6. \A k \in Key : raw[k] = IF k \in Wanted THEN 1 ELSE 0
  <2>1. NilMeansCollected'
    BY CoreCollects, PTL
  <2>2. Wanted' = Wanted
    BY DEF Wanted, Due, args
  <2> QED
    BY <2>1, <2>2 DEF NilMeansCollected
<1>7. Added = Collected
  <2>1. Parsed = Wanted
    BY <1>3, <1>6 DEF Parsed, Wanted
  <2> QED
    BY <2>1 DEF Added, Collected
<1>8. Waiting = {}
  BY <1>3, NobodyWaits
<1>9. CASE typed
  <2>1. table \cup index = Kept \cup Collected /\ (incremental \/ Collected # {})
    BY <1>2, <1>7, <1>8, <1>9 DEF TableInv
  <2> QED
    BY <1>5, <2>1 DEF Kept
<1>10. CASE ~typed
  <2>1. table = {Old} /\ index = {} /\ Collected = {}
    BY <1>2, <1>7, <1>8, <1>10 DEF TableInv
  <2> QED
    BY <1>5, <2>1
<1> QED
  BY <1>9, <1>10

LEMMA NilNext ==
    ASSUME CoreInv, CoreInv', LeftInv, BatchInv, TableInv, NilMeansExtracted, [Next]_vars
    PROVE  NilMeansExtracted'
<1> SUFFICES ASSUME main'.result = "nil", empty' = {}, OneAtATime'
             PROVE  table' = Collected' \cup (IF incremental' \/ Collected' = {} THEN {Old} ELSE {})
  BY DEF NilMeansExtracted
<1>1. CASE main.result = "nil" /\ QueryMoves
  <2>1. UNCHANGED <<main, empty, paged, asked, incremental, table>>
    BY <1>1 DEF QueryMoves, Execution, Pending, args, batch
  <2>2. Collected' = Collected /\ OneAtATime
    BY <2>1 DEF Collected, Wanted, Due, OneAtATime
  <2> QED
    BY <1>1, <2>1, <2>2 DEF NilMeansExtracted
<1>2. CASE Returns /\ ~hasError /\ CloseBatch /\ UNCHANGED <<raw, empty>> /\ UNCHANGED args
  <2>1. UNCHANGED <<paged, asked, incremental>>
    BY <1>2 DEF args
  <2>2. Collected' = Collected /\ OneAtATime
    BY <2>1 DEF Collected, Wanted, Due, OneAtATime
  <2>3. empty = {}
    BY <1>2
  <2>4. table' = Collected \cup (IF incremental \/ Collected = {} THEN {Old} ELSE {})
    BY <1>2, <2>2, <2>3, ReturnsWithAll
  <2> QED
    BY <2>1, <2>2, <2>4
<1> QED
  BY <1>1, <1>2, NilIsReturned

\* While one goroutine fetches at a time: when Execute returns nil and every query had its
\* answer, the tool table has the records of all pages up to those that end the paging,
\* however many a page has.  Beside them it has what an earlier run has extracted, if the
\* collection was incremental or if no page had a record; otherwise no others.
THEOREM NilMeansAllExtracted == Spec => []NilMeansExtracted
<1> DEFINE CollectorInv == CoreInv /\ LeftInv /\ BatchInv /\ TableInv /\ NilMeansExtracted
<1>1. Init => CollectorInv
  <2>1. Init => main.result # "nil"
    BY DEF Init
  <2> QED
    BY <2>1, CoreInit, LeftInit, BatchStarts, TableStarts DEF NilMeansExtracted
<1>2. CollectorInv /\ [Next]_vars => CollectorInv'
  BY CoreNext, LeftNext, BatchNext, TableNext, NilNext
<1> QED
  BY <1>1, <1>2, PTL DEF Spec

=============================================================================
