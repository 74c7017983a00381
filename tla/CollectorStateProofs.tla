------------------------ MODULE CollectorStateProofs ------------------------
(***************************************************************************)
(* Proofs about CollectorState: its types, that the raw table is complete   *)
(* for what the saved state promises, and that what was closed before a run *)
(* is closed after it.                                                      *)
(***************************************************************************)
EXTENDS CollectorState, Integers, FiniteSetTheorems, WellFoundedInduction, TLAPS

\* The pages that the fetchers ask for next, and the answers that they have.
Places == UNION {[1 .. n -> Nat] : n \in Nat}
Answer == UNION {[S -> {"open", "closed"}] : S \in SUBSET Record}
AnswerPlaces == UNION {[1 .. n -> Answer] : n \in Nat}
RunState ==
    [at : {"idle", "list", "details", "extract"}, after : TimeAfters \cup {0}, start : Nat,
     incremental : BOOLEAN, createdAfter : Nat, next : Places, answers : AnswerPlaces, input : SUBSET Record,
     due : SUBSET Record, missed : BOOLEAN]

\* The fetchers of a list, which are answered with records that exist.
ListTyped(t) ==
    /\ t.next \in [1 .. fetchers -> Nat]
    /\ t.answers \in [1 .. fetchers -> Answer]
    /\ \A f \in 1 .. fetchers : DOMAIN t.answers[f] \subseteq Existing

\* Records are created one after the other.
WorldTyped ==
    /\ clock \in 1 .. MaxClock
    /\ born \in Seq(Nat) /\ Len(born) <= MaxRecords
    /\ \A r \in Existing : born[r] \in 1 .. clock
    /\ \A r, s \in Existing : r <= s => born[r] <= born[s]
    /\ closed \subseteq Existing

\* Only what exists is in a table.
TablesTyped ==
    /\ fetchers \in Fetchers
    /\ state \in [success : 0 .. clock, after : TimeAfters \cup {0}]
    /\ raw \in [Record -> SUBSET {"open", "closed"}]
    /\ tool \in [Record -> {"none", "open", "closed"}]
    /\ \A r \in Record : raw[r] # {} \/ tool[r] # "none" => r \in Existing

RunTyped ==
    /\ run \in RunState
    /\ run.start \in 0 .. clock
    /\ run.input \subseteq Existing
    /\ run.at = "list" => ListTyped(run)
    /\ torn \in BOOLEAN
    /\ faults \in 0 .. MaxFaults

\* The row that was inserted last is one of the rows.
LastTyped ==
    /\ last \in [Record -> {"none", "open", "closed"}]
    /\ \A r \in Record : IF raw[r] = {} THEN last[r] = "none" ELSE last[r] \in raw[r]

TypeInv == WorldTyped /\ TablesTyped /\ RunTyped

-----------------------------------------------------------------------------
(* Operators of the model.                                                  *)

LEMMA Bounds ==
    /\ MaxRecords \in Nat /\ MaxClock \in Nat \ {0} /\ TimeAfters \subseteq Nat
    /\ Fetchers \subseteq Nat \ {0} /\ PageSize \in Nat \ {0} /\ MaxFaults \in Nat
  BY StateAssumption

\* A nonempty set of numbers has a least one.
LEMMA LeastExists ==
    ASSUME NEW S \in SUBSET Nat, S # {}
    PROVE  \E n \in S : \A m \in S : n <= m
<1>1. PICK x \in S : \A y \in S : ~(<<y, x>> \in OpToRel(<, Nat))
  BY NatLessThanWellFounded, WFMin
<1>2. \A y \in S : ~(y < x)
  BY <1>1 DEF OpToRel
<1> QED
  BY <1>2

\* Min and Max of a set of records.
LEMMA Extremes ==
    ASSUME NEW S \in SUBSET Nat, S # {}, NEW n \in Nat, \A s \in S : s <= n
    PROVE  /\ Min(S) \in S /\ \A s \in S : Min(S) <= s
           /\ Max(S) \in S /\ \A s \in S : s <= Max(S)
<1>1. Min(S) \in S /\ \A s \in S : Min(S) <= s
  <2>1. \E x \in S : \A y \in S : x =< y
    BY LeastExists
  <2> QED
    BY <2>1 DEF Min
<1>2. Max(S) \in S /\ \A s \in S : s <= Max(S)
  <2> DEFINE B == {b \in Nat : \A s \in S : s <= b}
  <2>1. PICK b \in B : \A c \in B : b <= c
    <3>1. n \in B
      OBVIOUS
    <3> QED
      BY <3>1, LeastExists
  <2>2. b \in S
    <3>1. CASE b = 0
      <4>1. PICK s \in S : TRUE
        OBVIOUS
      <4>2. s \in Nat /\ s <= 0
        BY <2>1, <3>1, <4>1
      <4>3. s = b
        BY <3>1, <4>2
      <4> QED
        BY <4>1, <4>3
    <3>2. CASE b # 0
      <4>1. b - 1 \in Nat /\ b - 1 \notin B
        BY <2>1, <3>2
      <4>2. PICK s \in S : ~(s <= b - 1)
        BY <4>1
      <4>3. s <= b /\ s \in Nat
        BY <2>1
      <4>4. s = b
        BY <2>1, <4>2, <4>3
      <4> QED
        BY <4>4
    <3> QED
      BY <3>1, <3>2
  <2>3. \E x \in S : \A y \in S : x >= y
    BY <2>1, <2>2
  <2>4. Max(S) \in S /\ \A y \in S : Max(S) >= y
    BY <2>3 DEF Max
  <2> QED
    BY <2>4
<1> QED
  BY <1>1, <1>2

\* Division with a remainder.
LEMMA Division ==
    ASSUME NEW a \in Nat, NEW n \in Nat \ {0}
    PROVE  /\ a \div n \in Nat
           /\ n * (a \div n) <= a /\ a < n * (a \div n) + n
           /\ \A q \in Nat : n * q <= a /\ a < n * q + n => a \div n = q
<1> DEFINE d == a \div n
<1>1. d \in Nat /\ n * d <= a /\ a < n * d + n
  <2>1. a = n * (a \div n) + (a % n) /\ a % n \in 0 .. n - 1 /\ a \div n \in Int
    OBVIOUS
  <2>2. a \div n \in Nat
    OBVIOUS
  <2> QED
    BY <2>1, <2>2
<1>2. ASSUME NEW q \in Nat, n * q <= a, a < n * q + n
      PROVE  d = q
  <2> HIDE DEF d
  <2>1. \A e \in Nat : n * e >= 0
    OBVIOUS
  <2>2. CASE d < q
    <3>1. q - d - 1 \in Nat /\ n * q = n * d + n + n * (q - d - 1)
      BY <1>1, <2>2
    <3>2. n * (q - d - 1) >= 0 /\ n * d \in Nat /\ n * q \in Nat
      BY <1>1, <2>1, <3>1
    <3> QED
      BY <1>1, <1>2, <3>1, <3>2
  <2>3. CASE q < d
    <3>1. d - q - 1 \in Nat /\ n * d = n * q + n + n * (d - q - 1)
      BY <1>1, <2>3
    <3>2. n * (d - q - 1) >= 0 /\ n * d \in Nat /\ n * q \in Nat
      BY <1>1, <2>1, <3>1
    <3> QED
      BY <1>1, <1>2, <3>1, <3>2
  <2> QED
    BY <1>1, <2>2, <2>3
<1> QED
  BY <1>1, <1>2

\* The page of the list on which a record is, of the first length records.
PageOf(r, length) == (length - r) \div PageSize + 1

\* A page before that of r is full, and all its records are newer than r.
LEMMA EarlierPages ==
    ASSUME NEW length \in Nat, NEW r \in 1 .. length, NEW p \in Nat \ {0},
           p < PageOf(r, length)
    PROVE  LET page == {s \in 1 .. length : PageOf(s, length) = p} IN
           /\ Cardinality(page) = PageSize
           /\ page # {}
           /\ \A s \in page : r <= s
<1> DEFINE N == PageSize
           m == N * p
           page == {s \in 1 .. length : PageOf(s, length) = p}
           low == length - m + 1
           high == length - m + N
<1>1. N \in Nat \ {0} /\ m \in Nat /\ m = N * (p - 1) + N /\ p - 1 \in Nat
  BY Bounds
<1>2. m + r <= length
  <2> DEFINE d == (length - r) \div N
  <2>1. length - r \in Nat
    OBVIOUS
  <2>2. d \in Nat /\ N * d <= length - r
    BY <1>1, <2>1, Division
  <2>3. d - p \in Nat
    BY <2>2 DEF PageOf
  <2> HIDE DEF d
  <2>4. N * d = m + N * (d - p)
    BY <1>1, <2>2, <2>3
  <2>5. N * (d - p) >= 0 /\ N * (d - p) \in Nat
    BY <1>1, <2>3
  <2> QED
    BY <1>1, <2>2, <2>4, <2>5
<1>3. \A s \in 1 .. length : PageOf(s, length) = p <=> s \in low .. high
  <2>1. SUFFICES ASSUME NEW s \in 1 .. length
                 PROVE  PageOf(s, length) = p <=> s \in low .. high
    OBVIOUS
  <2> DEFINE a == length - s
             d == a \div N
             k == N * (p - 1)
  <2>2. a \in Nat
    OBVIOUS
  <2>3. /\ d \in Nat /\ N * d <= a /\ a < N * d + N
        /\ k <= a /\ a < k + N => d = p - 1
    BY <1>1, <2>2, Division
  <2>4. d = p - 1 => N * d = k
    OBVIOUS
  <2>5. k \in Nat /\ m = k + N
    BY <1>1
  <2>6. PageOf(s, length) = p <=> d = p - 1
    BY <1>1, <2>3 DEF PageOf
  <2> HIDE DEF d, k, m
  <2>7. d = p - 1 <=> k <= a /\ a < k + N
    BY <1>1, <2>2, <2>3, <2>4, <2>5
  <2>8. k <= a /\ a < k + N <=> s \in low .. high
    BY <1>1, <2>5
  <2> QED
    BY <2>6, <2>7, <2>8
<1> HIDE DEF m
<1>4. page = low .. high
  <2>1. low .. high \subseteq 1 .. length
    BY <1>1, <1>2, Bounds
  <2> QED
    BY <1>3, <2>1
<1>5. low \in Int /\ high \in Int /\ high - low + 1 = N /\ low <= high
  BY <1>1
<1>6. Cardinality(page) = N
  <2>1. Cardinality(low .. high) = IF low > high THEN 0 ELSE high - low + 1
    BY <1>5, FS_Interval
  <2> HIDE DEF low, high, page
  <2> QED
    BY <1>1, <1>4, <1>5, <2>1
<1>7. low \in page
  BY <1>4, <1>5
<1>8. \A s \in page : r <= s
  BY <1>1, <1>2, <1>4
<1> QED
  BY <1>6, <1>7, <1>8

\* The records of a page that is not empty have a first and a last one.
LEMMA PageEnds ==
    ASSUME WorldTyped, NEW p, Page(p) # {}
    PROVE  /\ Page(p) \subseteq Existing
           /\ Max(Page(p)) \in Page(p) /\ \A s \in Page(p) : s <= Max(Page(p))
           /\ Min(Page(p)) \in Page(p) /\ \A s \in Page(p) : Min(Page(p)) <= s
<1>1. Page(p) \subseteq Existing
  BY DEF Page
<1>2. Len(born) \in Nat
  BY DEF WorldTyped
<1>3. Page(p) \in SUBSET Nat /\ \A s \in Page(p) : s <= Len(born)
  BY <1>1, <1>2 DEF Existing
<1> QED
  BY <1>1, <1>2, <1>3, Extremes

LEMMA VersionType == \A r \in Record : Version(r) \in {"open", "closed"}
  BY DEF Version

LEMMA AnswerTypes ==
    /\ NoAnswer \in Answer /\ DOMAIN NoAnswer = {}
    /\ \A S \in SUBSET Record : [r \in S |-> Version(r)] \in Answer
<1>1. NoAnswer \in [{} -> {"open", "closed"}]
  BY DEF NoAnswer
<1>2. ASSUME NEW S \in SUBSET Record
      PROVE  [r \in S |-> Version(r)] \in [S -> {"open", "closed"}]
  BY VersionType
<1> QED
  BY <1>1, <1>2 DEF Answer, NoAnswer

-----------------------------------------------------------------------------
(* Types.                                                                   *)

LEMMA IdleType ==
    Idle \in RunState /\ Idle.at = "idle" /\ Idle.start = 0 /\ Idle.input = {} /\ Idle.due = {}
<1>1. <<>> \in Places
  <2>1. <<>> \in [1 .. 0 -> Nat]
    OBVIOUS
  <2> QED
    BY <2>1 DEF Places
<1>2. <<>> \in AnswerPlaces
  <2>1. <<>> \in [1 .. 0 -> Answer]
    OBVIOUS
  <2> QED
    BY <2>1 DEF AnswerPlaces
<1> HIDE DEF Places, AnswerPlaces
<1> QED
  BY <1>1, <1>2 DEF Idle, RunState

LEMMA TypeInit ==
    ASSUME Init
    PROVE  TypeInv
<1>1. WorldTyped
  <2>1. clock = 1 /\ born = <<>> /\ closed = {} /\ Len(born) = 0
    BY DEF Init
  <2>2. Existing = {}
    BY <2>1 DEF Existing
  <2> QED
    BY <2>1, <2>2, Bounds DEF WorldTyped
<1>2. TablesTyped
  <2>1. /\ fetchers \in Fetchers /\ state = [success |-> 0, after |-> 0] /\ clock = 1
        /\ raw = [r \in Record |-> {}] /\ tool = [r \in Record |-> "none"]
    BY DEF Init
  <2>2. state \in [success : 0 .. clock, after : TimeAfters \cup {0}]
    BY <2>1
  <2> QED
    BY <2>1, <2>2 DEF TablesTyped
<1>3. RunTyped
  <2>1. run = Idle /\ torn = FALSE /\ faults = 0 /\ clock = 1
    BY DEF Init
  <2>2. run.start \in 0 .. clock /\ faults \in 0 .. MaxFaults
    BY <2>1, IdleType, Bounds
  <2> QED
    BY <2>1, <2>2, IdleType DEF RunTyped
<1> QED
  BY <1>1, <1>2, <1>3 DEF TypeInv

\* Steps that leave the data source alone.
LEMMA WorldSame ==
    ASSUME WorldTyped, UNCHANGED world
    PROVE  WorldTyped'
  BY DEF WorldTyped, world, Existing

\* A table gets what exists.
LEMMA TablesChange ==
    ASSUME TablesTyped, UNCHANGED <<world, fetchers>>,
           state' \in [success : 0 .. clock, after : TimeAfters \cup {0}],
           raw' \in [Record -> SUBSET {"open", "closed"}],
           tool' \in [Record -> {"none", "open", "closed"}],
           \A r \in Record : raw'[r] # {} \/ tool'[r] # "none" => r \in Existing
    PROVE  TablesTyped'
  BY DEF TablesTyped, world, Existing

\* The records, and the tables that have them, as others are created.
LEMMA TablesGrow ==
    ASSUME TablesTyped, UNCHANGED <<fetchers, tables>>,
           clock \in Nat, clock' \in Nat, clock <= clock', Existing \subseteq Existing'
    PROVE  TablesTyped'
<1>1. state' \in [success : 0 .. clock', after : TimeAfters \cup {0}]
  BY DEF TablesTyped, tables
<1> QED
  BY <1>1 DEF TablesTyped, tables

LEMMA RunGrows ==
    ASSUME RunTyped, UNCHANGED <<fetchers, torn, faults>>, run' = run,
           clock \in Nat, clock' \in Nat, clock <= clock', Existing \subseteq Existing'
    PROVE  RunTyped'
<1>1. run'.start \in 0 .. clock'
  BY DEF RunTyped
<1> QED
  BY <1>1 DEF RunTyped, ListTyped

\* The place of a run changes.
LEMMA RunChange ==
    ASSUME UNCHANGED <<world, fetchers>>, NEW t \in RunState, run' = t,
           t.start \in 0 .. clock, t.input \subseteq Existing,
           t.at = "list" => ListTyped(t),
           torn' \in BOOLEAN, faults' \in 0 .. MaxFaults
    PROVE  RunTyped'
  BY DEF RunTyped, ListTyped, world, Existing

LEMMA TypeTick ==
    ASSUME TypeInv, Tick
    PROVE  TypeInv'
<1>1. /\ clock < MaxClock /\ clock' = clock + 1
      /\ UNCHANGED <<born, closed, run, torn, fetchers, tables, faults>>
  BY DEF Tick, Quiet
<1>2. clock \in Nat /\ clock' \in 1 .. MaxClock /\ clock <= clock' /\ Existing' = Existing
  BY <1>1, Bounds DEF TypeInv, WorldTyped, Existing
<1>3. WorldTyped'
  BY <1>1, <1>2 DEF TypeInv, WorldTyped
<1> QED
  BY <1>1, <1>2, <1>3, TablesGrow, RunGrows DEF TypeInv

\* The new record is the newest.
LEMMA BornNext ==
    ASSUME WorldTyped, born' = Append(born, clock)
    PROVE  /\ born' \in Seq(Nat) /\ Len(born') = Len(born) + 1 /\ Len(born) \in Nat
           /\ Existing' = Existing \cup {Len(born) + 1}
           /\ Len(born) + 1 \notin Existing
           /\ \A r \in Existing : born'[r] = born[r]
           /\ born'[Len(born) + 1] = clock
<1>1. born \in Seq(Nat) /\ clock \in Nat /\ Len(born) \in Nat
  BY Bounds DEF WorldTyped
<1>2. born' \in Seq(Nat) /\ Len(born') = Len(born) + 1
  BY <1>1
<1>3. Existing' = Existing \cup {Len(born) + 1} /\ Len(born) + 1 \notin Existing
  BY <1>1, <1>2 DEF Existing
<1>4. \A r \in Existing : born'[r] = born[r]
  BY <1>1 DEF Existing
<1>5. born'[Len(born) + 1] = clock
  BY <1>1
<1> QED
  BY <1>1, <1>2, <1>3, <1>4, <1>5

LEMMA TypeCreate ==
    ASSUME TypeInv, Create
    PROVE  TypeInv'
<1>1. /\ Len(born) < MaxRecords /\ born' = Append(born, clock)
      /\ run' = IF run.at = "list" /\ fetchers > 1 THEN [run EXCEPT !.missed = TRUE] ELSE run
      /\ UNCHANGED <<clock, closed, torn, fetchers, tables, faults>>
  BY DEF Create, Quiet
<1> DEFINE n == Len(born) + 1
<1>2. /\ born' \in Seq(Nat) /\ Len(born') = n /\ Len(born) \in Nat
      /\ Existing' = Existing \cup {n} /\ n \notin Existing
      /\ \A r \in Existing : born'[r] = born[r]
      /\ born'[n] = clock
  BY <1>1, BornNext DEF TypeInv
<1>3. clock \in 1 .. MaxClock /\ clock \in Nat /\ \A r \in Existing : r < n /\ r \in Nat
  BY <1>2, Bounds DEF TypeInv, WorldTyped, Existing
<1>4. WorldTyped'
  <2>1. \A r \in Existing' : born'[r] \in 1 .. clock'
    <3>1. clock \in 1 .. clock /\ clock' = clock
      BY <1>1, <1>3
    <3>2. \A r \in Existing : born[r] \in 1 .. clock
      BY DEF TypeInv, WorldTyped
    <3> QED
      BY <1>2, <3>1, <3>2
  <2>2. ASSUME NEW r \in Existing', NEW s \in Existing', r <= s
        PROVE  born'[r] <= born'[s]
    <3>1. CASE s = n
      <4>1. born'[r] \in 1 .. clock /\ born'[s] = clock
        BY <1>1, <1>2, <2>1, <3>1
      <4> QED
        BY <1>3, <4>1
    <3>2. CASE s # n
      <4>1. s \in Existing /\ r # n
        BY <1>2, <1>3, <2>2, <3>2
      <4>2. r \in Existing
        BY <1>2, <4>1
      <4> QED
        BY <1>2, <2>2, <4>1, <4>2 DEF TypeInv, WorldTyped
    <3> QED
      BY <3>1, <3>2
  <2>3. Len(born') <= MaxRecords /\ closed' \subseteq Existing' /\ clock' \in 1 .. MaxClock
    BY <1>1, <1>2, <1>3, Bounds DEF TypeInv, WorldTyped
  <2> QED
    BY <1>2, <2>1, <2>2, <2>3 DEF WorldTyped
<1>5. TablesTyped'
  BY <1>1, <1>2, <1>3, TablesGrow DEF TypeInv
<1>6. RunTyped'
  <2>1. CASE run' = run
    BY <1>1, <1>2, <1>3, <2>1, RunGrows DEF TypeInv
  <2>2. CASE run' = [run EXCEPT !.missed = TRUE]
    <3>1. run \in RunState
      BY DEF TypeInv, RunTyped
    <3>2. /\ run' \in RunState /\ run'.at = run.at /\ run'.start = run.start
          /\ run'.input = run.input /\ run'.next = run.next /\ run'.answers = run.answers
      BY <2>2, <3>1 DEF RunState
    <3> QED
      BY <1>1, <1>2, <3>2 DEF TypeInv, RunTyped, ListTyped
  <2> QED
    BY <1>1, <2>1, <2>2
<1> QED
  BY <1>4, <1>5, <1>6 DEF TypeInv

LEMMA TypeClose ==
    ASSUME TypeInv, NEW r \in Record, Close(r)
    PROVE  TypeInv'
<1>1. /\ r \in Existing /\ closed' = closed \cup {r}
      /\ UNCHANGED <<clock, born, run, torn, fetchers, tables, faults>>
  BY DEF Close, Quiet
<1>2. Existing' = Existing /\ clock \in Nat /\ clock' = clock
  BY <1>1, Bounds DEF Existing, TypeInv, WorldTyped
<1>3. WorldTyped'
  BY <1>1, <1>2 DEF TypeInv, WorldTyped
<1> QED
  BY <1>1, <1>2, <1>3, TablesGrow, RunGrows DEF TypeInv

LEMMA TypeBegin ==
    ASSUME TypeInv, NEW after \in TimeAfters, Begin(after)
    PROVE  TypeInv'
<1> DEFINE incremental == IsIncremental(after)
           t == [at |-> "list", after |-> after, start |-> clock, incremental |-> incremental,
                 createdAfter |-> IF incremental THEN state.success ELSE after,
                 next |-> [f \in 1 .. fetchers |-> f],
                 answers |-> [f \in 1 .. fetchers |-> NoAnswer],
                 input |-> Unfinished, due |-> Unfinished \cap closed, missed |-> FALSE]
<1>1. /\ run' = t
      /\ \/ UNCHANGED <<raw, torn>>
         \/ raw' = [r \in Record |-> {}] /\ torn' = TRUE
      /\ UNCHANGED <<world, fetchers, state, tool, faults>>
  BY DEF Begin
<1>2. /\ clock \in Nat /\ after \in Nat /\ fetchers \in Nat /\ state.success \in Nat
      /\ incremental \in BOOLEAN
  BY Bounds DEF TypeInv, WorldTyped, TablesTyped, IsIncremental
<1>3. Unfinished \subseteq Existing /\ Unfinished \subseteq Record
  BY DEF Unfinished, TypeInv, TablesTyped
<1>4. [f \in 1 .. fetchers |-> f] \in [1 .. fetchers -> Nat]
  BY <1>2
<1>5. [f \in 1 .. fetchers |-> f] \in Places
  BY <1>2, <1>4 DEF Places
<1> DEFINE none == [f \in 1 .. fetchers |-> NoAnswer]
<1>12. /\ none \in [1 .. fetchers -> Answer]
       /\ \A f \in 1 .. fetchers : DOMAIN none[f] \subseteq Existing
  BY AnswerTypes
<1>13. none \in AnswerPlaces
  BY <1>2, <1>12 DEF AnswerPlaces
<1> HIDE DEF incremental
<1>7. /\ t.start = clock /\ t.input = Unfinished /\ t.next = [f \in 1 .. fetchers |-> f]
      /\ t.answers = none
  OBVIOUS
<1>6. t \in RunState
  <2> HIDE DEF none
  <2> QED
    BY <1>2, <1>3, <1>5, <1>13 DEF RunState, none
<1>14. ListTyped(t)
  BY <1>4, <1>7, <1>12 DEF ListTyped
<1> HIDE DEF t
<1>8. TablesTyped'
  BY <1>1, TablesChange DEF TypeInv, TablesTyped
<1>9. torn' \in BOOLEAN /\ faults' \in 0 .. MaxFaults
  BY <1>1 DEF TypeInv, RunTyped
<1>10. clock \in 0 .. clock
  BY <1>2
<1>11. RunTyped'
  BY <1>1, <1>3, <1>6, <1>7, <1>9, <1>10, <1>14, RunChange
<1> QED
  BY <1>1, <1>8, <1>11, WorldSame DEF TypeInv

\* A fetcher of the list changes.
LEMMA FetcherChange ==
    ASSUME TypeInv, run.at = "list", NEW f \in 1 .. fetchers,
           NEW p \in Nat, NEW a \in Answer, DOMAIN a \subseteq Existing,
           run' = [run EXCEPT !.next[f] = p, !.answers[f] = a]
    PROVE  /\ run' \in RunState /\ ListTyped(run')
           /\ run'.next[f] = p /\ run'.answers[f] = a
           /\ \A g \in 1 .. fetchers :
                 g # f => run'.next[g] = run.next[g] /\ run'.answers[g] = run.answers[g]
           /\ run'.at = "list" /\ run'.after = run.after
           /\ run'.start = run.start /\ run'.incremental = run.incremental
           /\ run'.createdAfter = run.createdAfter /\ run'.input = run.input
           /\ run'.due = run.due /\ run'.missed = run.missed
<1> DEFINE n == [run.next EXCEPT ![f] = p]
           b == [run.answers EXCEPT ![f] = a]
<1>1. run' = [run EXCEPT !.next = n, !.answers = b]
  OBVIOUS
<1>2. ListTyped(run) /\ fetchers \in Nat
  BY Bounds DEF TypeInv, RunTyped, TablesTyped
<1>3. /\ n \in [1 .. fetchers -> Nat] /\ n[f] = p
      /\ \A g \in 1 .. fetchers : g # f => n[g] = run.next[g]
  BY <1>2 DEF ListTyped
<1>4. /\ b \in [1 .. fetchers -> Answer] /\ b[f] = a
      /\ \A g \in 1 .. fetchers : g # f => b[g] = run.answers[g]
  BY <1>2 DEF ListTyped
<1>5. n \in Places /\ b \in AnswerPlaces
  BY <1>2, <1>3, <1>4 DEF Places, AnswerPlaces
<1> HIDE DEF n, b
<1>6. run \in RunState
  BY DEF TypeInv, RunTyped
<1>7. /\ run' \in RunState /\ run'.next = n /\ run'.answers = b
      /\ run'.at = run.at /\ run'.after = run.after
      /\ run'.start = run.start /\ run'.incremental = run.incremental
      /\ run'.createdAfter = run.createdAfter /\ run'.input = run.input
      /\ run'.due = run.due /\ run'.missed = run.missed
  BY <1>1, <1>5, <1>6 DEF RunState
<1>8. \A g \in 1 .. fetchers : DOMAIN b[g] \subseteq Existing
  BY <1>2, <1>4 DEF ListTyped
<1> QED
  BY <1>3, <1>4, <1>7, <1>8 DEF ListTyped

\* What a request of fetcher f does.
LEMMA FetchEffect ==
    ASSUME TypeInv, NEW f \in 1 .. fetchers, FetchPage(f)
    PROVE  LET page == Parsed(Page(run.next[f])) IN
           /\ page.items \subseteq Existing
           /\ run' \in RunState /\ ListTyped(run')
           /\ run'.next[f] = IF page.more THEN run.next[f] + fetchers ELSE 0
           /\ DOMAIN run'.answers[f] = page.items
           /\ \A g \in 1 .. fetchers :
                 g # f => run'.next[g] = run.next[g] /\ run'.answers[g] = run.answers[g]
           /\ run.answers[f] = NoAnswer
           /\ run.at = "list" /\ run'.at = "list" /\ run'.after = run.after
           /\ run'.start = run.start /\ run'.incremental = run.incremental
           /\ run'.createdAfter = run.createdAfter /\ run'.input = run.input
           /\ run'.due = run.due /\ run'.missed = run.missed
<1> DEFINE page == Parsed(Page(run.next[f]))
           p == IF page.more THEN run.next[f] + fetchers ELSE 0
           a == [r \in page.items |-> Version(r)]
<1>1. /\ run.at = "list" /\ run.answers[f] = NoAnswer
      /\ run' = [run EXCEPT !.next[f] = p, !.answers[f] = a]
  BY DEF FetchPage
<1>2. page.items \subseteq Existing
  BY DEF Parsed, Page
<1>3. run.next \in [1 .. fetchers -> Nat] /\ fetchers \in Nat
  BY <1>1, Bounds DEF TypeInv, RunTyped, ListTyped, TablesTyped
<1>4. p \in Nat
  BY <1>3
<1>5. Existing \subseteq Record
  BY Bounds DEF TypeInv, WorldTyped, Existing, Record
<1>6. a \in Answer /\ DOMAIN a = page.items
  BY <1>2, <1>5, AnswerTypes
<1> HIDE DEF page, a, p
<1>7. /\ run' \in RunState /\ ListTyped(run')
      /\ run'.next[f] = p /\ run'.answers[f] = a
      /\ \A g \in 1 .. fetchers :
            g # f => run'.next[g] = run.next[g] /\ run'.answers[g] = run.answers[g]
      /\ run'.at = "list" /\ run'.after = run.after
      /\ run'.start = run.start /\ run'.incremental = run.incremental
      /\ run'.createdAfter = run.createdAfter /\ run'.input = run.input
      /\ run'.due = run.due /\ run'.missed = run.missed
  BY <1>1, <1>2, <1>4, <1>6, FetcherChange
<1> QED
  BY <1>1, <1>2, <1>6, <1>7 DEF page, p

LEMMA TypeFetchPage ==
    ASSUME TypeInv, NEW f \in 1 .. fetchers, FetchPage(f)
    PROVE  TypeInv'
<1>1. UNCHANGED <<world, fetchers, tables, torn, faults>>
  BY DEF FetchPage
<1>2. /\ run' \in RunState /\ ListTyped(run')
      /\ run'.start = run.start /\ run'.input = run.input
  BY FetchEffect
<1>3. TablesTyped'
  BY <1>1, TablesChange DEF TypeInv, TablesTyped, tables
<1>4. RunTyped'
  BY <1>1, <1>2, RunChange DEF TypeInv, RunTyped
<1> QED
  BY <1>1, <1>3, <1>4, WorldSame DEF TypeInv

\* What the insertion of an answer does.
LEMMA StoreEffect ==
    ASSUME TypeInv, NEW f \in 1 .. fetchers, StorePage(f)
    PROVE  LET answer == run.answers[f] IN
           /\ answer \in Answer /\ DOMAIN answer \subseteq Existing
           /\ \A r \in DOMAIN answer : answer[r] \in {"open", "closed"}
           /\ raw' \in [Record -> SUBSET {"open", "closed"}]
           /\ \A r \in Record : raw'[r] =
                 IF r \in DOMAIN answer THEN raw[r] \cup {answer[r]} ELSE raw[r]
           /\ last' = [r \in Record |-> IF r \in DOMAIN answer THEN answer[r] ELSE last[r]]
           /\ run' \in RunState /\ ListTyped(run')
           /\ run'.answers[f] = NoAnswer
           /\ \A g \in 1 .. fetchers : run'.next[g] = run.next[g]
           /\ \A g \in 1 .. fetchers : g # f => run'.answers[g] = run.answers[g]
           /\ run.at = "list" /\ run'.at = "list" /\ run'.after = run.after
           /\ run'.start = run.start /\ run'.incremental = run.incremental
           /\ run'.createdAfter = run.createdAfter /\ run'.input = run.input
           /\ run'.due = run.due /\ run'.missed = run.missed
<1> DEFINE answer == run.answers[f]
           p == run.next[f]
<1>1. /\ run.at = "list" /\ run' = [run EXCEPT !.answers[f] = NoAnswer]
      /\ raw' = [r \in Record |-> IF r \in DOMAIN answer THEN raw[r] \cup {answer[r]} ELSE raw[r]]
      /\ last' = [r \in Record |-> IF r \in DOMAIN answer THEN answer[r] ELSE last[r]]
  BY DEF StorePage
<1>2. ListTyped(run) /\ run \in RunState
  BY <1>1 DEF TypeInv, RunTyped
<1>3. /\ answer \in Answer /\ DOMAIN answer \subseteq Existing /\ p \in Nat
      /\ \A r \in DOMAIN answer : answer[r] \in {"open", "closed"}
  <2>1. answer \in Answer /\ DOMAIN answer \subseteq Existing /\ p \in Nat
    BY <1>2 DEF ListTyped
  <2> HIDE DEF answer, p
  <2>2. PICK S \in SUBSET Record : answer \in [S -> {"open", "closed"}]
    BY <2>1 DEF Answer
  <2> QED
    BY <2>1, <2>2
<1>4. run' = [run EXCEPT !.next[f] = p, !.answers[f] = NoAnswer]
  BY <1>1, <1>2 DEF ListTyped, RunState
<1>5. raw' \in [Record -> SUBSET {"open", "closed"}]
  BY <1>1, <1>3 DEF TypeInv, TablesTyped
<1>6. NoAnswer \in Answer /\ DOMAIN NoAnswer \subseteq Existing
  BY AnswerTypes
<1> HIDE DEF answer, p
<1>7. /\ run' \in RunState /\ ListTyped(run')
      /\ run'.next[f] = p /\ run'.answers[f] = NoAnswer
      /\ \A g \in 1 .. fetchers :
            g # f => run'.next[g] = run.next[g] /\ run'.answers[g] = run.answers[g]
      /\ run'.at = "list" /\ run'.after = run.after
      /\ run'.start = run.start /\ run'.incremental = run.incremental
      /\ run'.createdAfter = run.createdAfter /\ run'.input = run.input
      /\ run'.due = run.due /\ run'.missed = run.missed
  BY <1>1, <1>3, <1>4, <1>6, FetcherChange
<1>8. \A r \in Record : raw'[r] =
         IF r \in DOMAIN answer THEN raw[r] \cup {answer[r]} ELSE raw[r]
  BY <1>1
<1> QED
  BY <1>1, <1>3, <1>5, <1>7, <1>8 DEF answer, p

LEMMA TypeStorePage ==
    ASSUME TypeInv, NEW f \in 1 .. fetchers, StorePage(f)
    PROVE  TypeInv'
<1> DEFINE answer == run.answers[f]
<1>1. UNCHANGED <<world, fetchers, state, tool, torn, faults>>
  BY DEF StorePage
<1>2. /\ DOMAIN answer \subseteq Existing
      /\ raw' \in [Record -> SUBSET {"open", "closed"}]
      /\ \A r \in Record : raw'[r] =
            IF r \in DOMAIN answer THEN raw[r] \cup {answer[r]} ELSE raw[r]
      /\ run' \in RunState /\ ListTyped(run')
      /\ run'.start = run.start /\ run'.input = run.input
  BY StoreEffect
<1> HIDE DEF answer
<1>3. TablesTyped'
  BY <1>1, <1>2, TablesChange DEF TypeInv, TablesTyped
<1>4. RunTyped'
  BY <1>1, <1>2, RunChange DEF TypeInv, RunTyped
<1> QED
  BY <1>1, <1>3, <1>4, WorldSame DEF TypeInv

\* What the other steps of a run do to its state.
LEMMA ListEndsEffect ==
    ASSUME TypeInv, ListEnds
    PROVE  /\ run' \in RunState /\ run'.at = "details" /\ run'.after = run.after
           /\ run'.start = run.start /\ run'.incremental = run.incremental
           /\ run'.input = run.input /\ run'.due = run.due /\ run'.missed = run.missed
<1>1. run \in RunState
  BY DEF TypeInv, RunTyped
<1>2. <<>> \in Places /\ <<>> \in AnswerPlaces
  BY IdleType DEF Idle, RunState
<1> HIDE DEF Places, AnswerPlaces
<1> QED
  BY <1>1, <1>2 DEF ListEnds, RunState

LEMMA FetchDetailEffect ==
    ASSUME TypeInv, NEW r \in Record, FetchDetail(r)
    PROVE  /\ run' \in RunState /\ run'.at = "details" /\ run'.after = run.after
           /\ run'.start = run.start /\ run'.incremental = run.incremental
           /\ run'.input = run.input \ {r} /\ run'.due = run.due /\ run'.missed = run.missed
           /\ raw' \in [Record -> SUBSET {"open", "closed"}]
           /\ \A s \in Record : raw'[s] = IF s = r THEN raw[r] \cup {Version(r)} ELSE raw[s]
<1>1. run \in RunState
  BY DEF TypeInv, RunTyped
<1>2. /\ run.at = "details" /\ run' = [run EXCEPT !.input = run.input \ {r}]
      /\ raw' = [raw EXCEPT ![r] = raw[r] \cup {Version(r)}]
  BY DEF FetchDetail
<1>3. /\ run' \in RunState /\ run'.at = "details" /\ run'.after = run.after
      /\ run'.start = run.start /\ run'.incremental = run.incremental
      /\ run'.input = run.input \ {r} /\ run'.due = run.due /\ run'.missed = run.missed
  BY <1>1, <1>2 DEF RunState
<1>4. raw \in [Record -> SUBSET {"open", "closed"}]
  BY DEF TypeInv, TablesTyped
<1> QED
  BY <1>2, <1>3, <1>4, VersionType

LEMMA SaveStateEffect ==
    ASSUME TypeInv, SaveState
    PROVE  /\ run' \in RunState /\ run'.at = "extract" /\ run'.start = 0 /\ run'.input = {}
           /\ run'.due = run.due
<1>1. run \in RunState
  BY DEF TypeInv, RunTyped
<1>2. run' = [Idle EXCEPT !.at = "extract", !.due = run.due]
  BY DEF SaveState
<1>3. Idle \in RunState /\ Idle.start = 0 /\ Idle.input = {}
  BY IdleType
<1> HIDE DEF Idle
<1> QED
  BY <1>1, <1>2, <1>3 DEF RunState

LEMMA TypeListEnds ==
    ASSUME TypeInv, ListEnds
    PROVE  TypeInv'
<1>1. UNCHANGED <<world, fetchers, tables, torn, faults>>
  BY DEF ListEnds
<1>2. TablesTyped'
  BY <1>1, TablesChange DEF TypeInv, TablesTyped, tables
<1>3. RunTyped'
  BY <1>1, ListEndsEffect, RunChange DEF TypeInv, RunTyped
<1> QED
  BY <1>1, <1>2, <1>3, WorldSame DEF TypeInv

LEMMA TypeFetchDetail ==
    ASSUME TypeInv, NEW r \in Record, FetchDetail(r)
    PROVE  TypeInv'
<1>1. UNCHANGED <<world, fetchers, state, tool, torn, faults>> /\ r \in run.input
  BY DEF FetchDetail
<1>2. r \in Existing
  BY <1>1 DEF TypeInv, RunTyped
<1>3. TablesTyped'
  BY <1>1, <1>2, FetchDetailEffect, TablesChange DEF TypeInv, TablesTyped
<1>4. RunTyped'
  BY <1>1, FetchDetailEffect, RunChange DEF TypeInv, RunTyped
<1> QED
  BY <1>1, <1>3, <1>4, WorldSame DEF TypeInv

LEMMA TypeSaveState ==
    ASSUME TypeInv, SaveState
    PROVE  TypeInv'
<1>1. /\ UNCHANGED <<world, fetchers, raw, tool, faults>>
      /\ state' = [success |-> run.start, after |-> run.after]
      /\ torn' = ((run.incremental /\ torn) \/ run.missed)
  BY DEF SaveState
<1>2. run.after \in TimeAfters \cup {0} /\ run.start \in 0 .. clock
  BY DEF TypeInv, RunTyped, RunState
<1>3. state' \in [success : 0 .. clock, after : TimeAfters \cup {0}]
  BY <1>1, <1>2
<1>4. TablesTyped'
  BY <1>1, <1>3, TablesChange DEF TypeInv, TablesTyped
<1>5. torn' \in BOOLEAN /\ 0 \in 0 .. clock
  BY <1>1, Bounds DEF TypeInv, WorldTyped
<1>6. faults' \in 0 .. MaxFaults
  BY <1>1 DEF TypeInv, RunTyped
<1>7. RunTyped'
  BY <1>1, <1>5, <1>6, SaveStateEffect, RunChange
<1> QED
  BY <1>1, <1>4, <1>7, WorldSame DEF TypeInv

\* The extraction, and the end of a run in the middle.
LEMMA TypeEnd ==
    ASSUME TypeInv, LastTyped, Extract \/ ExtractFails \/ Fail
    PROVE  TypeInv'
<1>1. UNCHANGED <<world, fetchers, state, raw, torn>> /\ run' = Idle
  BY DEF Extract, ExtractFails, Fail, tables
<1>2. faults' \in 0 .. MaxFaults
  <2>1. faults \in 0 .. MaxFaults /\ MaxFaults \in Nat
    BY Bounds DEF TypeInv, RunTyped
  <2> QED
    BY <2>1 DEF Extract, ExtractFails, Fail
<1>3. \A r \in Record : raw[r] \in SUBSET {"open", "closed"}
  BY DEF TypeInv, TablesTyped
<1>4. /\ tool' \in [Record -> {"none", "open", "closed"}]
      /\ \A r \in Record : tool'[r] # "none" => r \in Existing
  <2>1. CASE Extract
    <3>1. tool' = tool \/ tool' = last
      BY <2>1 DEF Extract, Extracted
    <3>2. \A r \in Record : last[r] # "none" => r \in Existing
      BY DEF LastTyped, TypeInv, TablesTyped
    <3> QED
      BY <3>1, <3>2 DEF LastTyped, TypeInv, TablesTyped
  <2>2. CASE ExtractFails
    BY <1>3, <2>2 DEF ExtractFails, TypeInv, TablesTyped
  <2>3. CASE Fail
    BY <2>3 DEF Fail, tables, TypeInv, TablesTyped
  <2> QED
    BY <2>1, <2>2, <2>3
<1>5. TablesTyped'
  BY <1>1, <1>4, TablesChange DEF TypeInv, TablesTyped
<1>6. 0 \in 0 .. clock /\ torn' \in BOOLEAN
  BY <1>1, Bounds DEF TypeInv, WorldTyped, RunTyped
<1>7. RunTyped'
  BY <1>1, <1>2, <1>6, IdleType, RunChange
<1> QED
  BY <1>1, <1>5, <1>7, WorldSame DEF TypeInv

\* Rows and the last of them are inserted together.
LEMMA LastStep ==
    ASSUME TypeInv, LastTyped, [Next]_vars
    PROVE  LastTyped'
<1>0. raw \in [Record -> SUBSET {"open", "closed"}]
  BY DEF TypeInv, TablesTyped
<1>1. CASE UNCHANGED <<raw, last>>
  BY <1>1 DEF LastTyped
<1>2. CASE raw' = [r \in Record |-> {}] /\ last' = [r \in Record |-> "none"]
  BY <1>2 DEF LastTyped
<1>3. ASSUME NEW f \in 1 .. fetchers, StorePage(f)
      PROVE  LastTyped'
  <2> DEFINE answer == run.answers[f]
  <2>1. /\ \A r \in DOMAIN answer : answer[r] \in {"open", "closed"}
        /\ \A r \in Record : raw'[r] =
              IF r \in DOMAIN answer THEN raw[r] \cup {answer[r]} ELSE raw[r]
        /\ last' = [r \in Record |-> IF r \in DOMAIN answer THEN answer[r] ELSE last[r]]
    BY <1>3, StoreEffect
  <2> HIDE DEF answer
  <2>2. last' \in [Record -> {"none", "open", "closed"}]
    BY <2>1 DEF LastTyped
  <2>3. ASSUME NEW r \in Record
        PROVE  IF raw'[r] = {} THEN last'[r] = "none" ELSE last'[r] \in raw'[r]
    <3>1. CASE r \in DOMAIN answer
      <4>1. raw'[r] = raw[r] \cup {answer[r]} /\ last'[r] = answer[r]
        BY <2>1, <3>1
      <4> QED
        BY <4>1
    <3>2. CASE r \notin DOMAIN answer
      <4>1. raw'[r] = raw[r] /\ last'[r] = last[r]
        BY <2>1, <3>2
      <4> QED
        BY <4>1 DEF LastTyped
    <3> QED
      BY <3>1, <3>2
  <2> QED
    BY <2>2, <2>3 DEF LastTyped
<1>4. ASSUME NEW r \in Record, FetchDetail(r)
      PROVE  LastTyped'
  <2>1. /\ last' = [last EXCEPT ![r] = Version(r)]
        /\ \A s \in Record : raw'[s] = IF s = r THEN raw[r] \cup {Version(r)} ELSE raw[s]
    BY <1>4, FetchDetailEffect DEF FetchDetail
  <2> QED
    BY <2>1, VersionType DEF LastTyped
<1>5. CASE UNCHANGED vars \/ Tick \/ Create \/ \E r \in Record : Close(r)
  BY <1>1, <1>5 DEF vars, tables, Tick, Create, Close, Quiet
<1>6. ASSUME NEW after \in TimeAfters, Begin(after)
      PROVE  LastTyped'
  BY <1>1, <1>2, <1>6 DEF Begin
<1>7. CASE ListEnds \/ SaveState \/ Extract \/ ExtractFails \/ Fail
  BY <1>1, <1>7 DEF tables, ListEnds, SaveState, Extract, ExtractFails, Fail
<1>8. ASSUME NEW f \in 1 .. fetchers, FetchPage(f)
      PROVE  LastTyped'
  BY <1>1, <1>8 DEF FetchPage, tables
<1> QED
  BY <1>3, <1>4, <1>5, <1>6, <1>7, <1>8 DEF Next, RunStep

LEMMA TypeStep ==
    ASSUME TypeInv, LastTyped, [Next]_vars
    PROVE  TypeInv' /\ LastTyped'
<1>1. CASE UNCHANGED vars
  BY <1>1, LastStep
     DEF vars, world, tables, TypeInv, WorldTyped, TablesTyped, RunTyped, ListTyped, Existing
<1>2. CASE Next
  BY <1>2, LastStep, TypeTick, TypeCreate, TypeClose, TypeBegin, TypeFetchPage, TypeStorePage,
     TypeListEnds, TypeFetchDetail, TypeSaveState, TypeEnd DEF Next, RunStep
<1> QED
  BY <1>1, <1>2

LEMMA TypesInvariant == Spec => [](TypeInv /\ LastTyped)
<1>1. Init => TypeInv /\ LastTyped
  BY TypeInit DEF Init, LastTyped
<1>2. TypeInv /\ LastTyped /\ [Next]_vars => TypeInv' /\ LastTyped'
  BY TypeStep
<1> QED
  BY <1>1, <1>2, PTL DEF Spec

\* Every variable keeps its type: in particular only records that exist get into
\* the tables, and no time is in the future.
THEOREM TypeCorrect == Spec => []TypeOK
<1>1. TypeInv /\ LastTyped => TypeOK
  BY DEF TypeInv, LastTyped, WorldTyped, TablesTyped, RunTyped, RunState, TypeOK
<1> QED
  BY <1>1, TypesInvariant, PTL

-----------------------------------------------------------------------------
(* What the run has read, and what the saved state promises.               *)

\* A fetcher that goes on has the page of r before it.
Ahead(r) ==
    \E f \in 1 .. fetchers :
        /\ run.next[f] # 0
        /\ \E k \in Nat : PageOf(r, Len(born)) = run.next[f] + k * fetchers

\* A record of those that the list is read for.
Wanted(r) == born[r] >= run.createdAfter /\ born[r] < run.start

\* A fetcher was answered with r.
Underway(r) == \E f \in 1 .. fetchers : r \in DOMAIN run.answers[f]

\* While the list is read: a record that is not stored yet was answered or is still
\* ahead of a fetcher, unless the records moved between several of them.
ListInv ==
    run.at = "list" =>
        /\ IF run.incremental
           THEN run.createdAfter = state.success /\ IsIncremental(run.after)
           ELSE run.createdAfter = run.after
        /\ ~run.missed => \A r \in Existing : Wanted(r) => raw[r] # {} \/ Underway(r) \/ Ahead(r)

\* After it: the raw table has what the state of this run will promise.
DetailsInv ==
    run.at = "details" /\ ~run.missed /\ ~(run.incremental /\ torn) =>
        \A r \in Existing : born[r] >= run.after /\ born[r] < run.start => raw[r] # {}

CompleteInv == ListInv /\ DetailsInv /\ RawIsComplete

\* A record closed before the run is to be read again, or was.
FreshInv ==
    \A r \in run.due :
        /\ r \in closed
        /\ run.at = "list" => r \in run.input
        /\ run.at = "details" => r \in run.input \/ last[r] = "closed"
        /\ run.at = "extract" => last[r] = "closed"

\* A record only moves to later pages.
LEMMA PagesMove ==
    ASSUME NEW length \in Nat, NEW r \in 1 .. length
    PROVE  /\ PageOf(r, length) \in Nat \ {0}
           /\ PageOf(r, length + 1) \in Nat
           /\ PageOf(r, length) <= PageOf(r, length + 1)
<1> DEFINE N == PageSize
           d == (length - r) \div N
           e == (length + 1 - r) \div N
<1>1. N \in Nat \ {0}
  BY Bounds
<1>2. length - r \in Nat /\ length + 1 - r \in Nat
  OBVIOUS
<1>3. d \in Nat /\ N * d <= length - r
  BY <1>1, <1>2, Division
<1>4. e \in Nat /\ length + 1 - r < N * e + N
  BY <1>1, <1>2, Division
<1>5. PageOf(r, length) = d + 1 /\ PageOf(r, length + 1) = e + 1
  BY DEF PageOf
<1> HIDE DEF d, e
<1>6. d <= e
  <2>1. SUFFICES ASSUME e < d PROVE FALSE
    BY <1>3, <1>4
  <2>2. d - e - 1 \in Nat /\ N * d = N * e + N + N * (d - e - 1)
    BY <1>1, <1>3, <1>4, <2>1
  <2>3. N * (d - e - 1) \in Nat /\ N * d \in Nat /\ N * e \in Nat
    BY <1>1, <1>3, <1>4, <2>2
  <2> QED
    BY <1>1, <1>3, <1>4, <2>2, <2>3
<1> QED
  BY <1>3, <1>4, <1>5, <1>6

\* The pages f, f + n, ... of n fetchers are all the pages.
LEMMA FetchersCover ==
    ASSUME NEW n \in Nat \ {0}, NEW p \in Nat \ {0}
    PROVE  \E f \in 1 .. n, k \in Nat : p = f + k * n
<1> DEFINE k == (p - 1) \div n
<1>1. p - 1 \in Nat
  OBVIOUS
<1>2. k \in Nat /\ n * k <= p - 1 /\ p - 1 < n * k + n
  BY <1>1, Division
<1> HIDE DEF k
<1>3. n * k \in Nat /\ k * n = n * k
  BY <1>2
<1>4. p - n * k \in 1 .. n /\ p = (p - n * k) + k * n
  BY <1>2, <1>3
<1> QED
  BY <1>2, <1>4

\* Rows are only added to the raw table, except when a run begins.
RawGrows == \A r \in Record : raw[r] \subseteq raw'[r]

LEMMA ExistingRecords ==
    ASSUME TypeInv
    PROVE  Existing \subseteq Record /\ Len(born) \in Nat /\ Existing = 1 .. Len(born)
  BY Bounds DEF TypeInv, WorldTyped, Existing, Record

LEMMA TimeTypes ==
    ASSUME TypeInv
    PROVE  /\ clock \in Nat /\ \A r \in Existing : born[r] \in Nat /\ born[r] <= clock
           /\ state.success \in Nat /\ state.after \in Nat /\ state.success <= clock
           /\ run.start \in Nat /\ run.start <= clock /\ run.after \in Nat /\ run.createdAfter \in Nat
           /\ fetchers \in Nat \ {0}
<1>1. clock \in Nat /\ \A r \in Existing : born[r] \in Nat /\ born[r] <= clock
  BY Bounds DEF TypeInv, WorldTyped
<1>2. /\ state.success \in 0 .. clock /\ state.after \in TimeAfters \cup {0}
      /\ fetchers \in Fetchers
  BY DEF TypeInv, TablesTyped
<1>3. run.start \in 0 .. clock /\ run.after \in TimeAfters \cup {0} /\ run.createdAfter \in Nat
  BY DEF TypeInv, RunTyped, RunState
<1>4. state.after \in Nat /\ run.after \in Nat /\ fetchers \in Nat \ {0}
  <2>1. TimeAfters \cup {0} \subseteq Nat /\ Fetchers \subseteq Nat \ {0}
    BY Bounds
  <2>2. state.after \in Nat
    BY <1>2, <2>1
  <2>3. run.after \in Nat
    BY <1>3, <2>1
  <2> QED
    BY <1>2, <2>1, <2>2, <2>3
<1>5. \A n \in 0 .. clock : n \in Nat /\ n <= clock
  BY <1>1
<1> QED
  BY <1>1, <1>2, <1>3, <1>4, <1>5

\* The promise of the saved state, as the tables and the world grow.
LEMMA CompleteKept ==
    ASSUME TypeInv, RawIsComplete, RawGrows, UNCHANGED <<world, state, torn>>
    PROVE  RawIsComplete'
  BY ExistingRecords DEF RawIsComplete, RawGrows, world, Existing

\* What the steps of a run need of a record that the list is read for.
LEMMA ListHas ==
    ASSUME TypeInv, ListInv, run.at = "list", ~run.missed, NEW r \in Existing, Wanted(r)
    PROVE  raw[r] # {} \/ Underway(r) \/ Ahead(r)
  BY DEF ListInv

LEMMA CompleteInit ==
    ASSUME Init
    PROVE  CompleteInv /\ FreshInv
<1>1. run.at = "idle" /\ run.due = {} /\ state.success = 0
  BY IdleType DEF Init
<1> QED
  BY <1>1 DEF CompleteInv, ListInv, DetailsInv, RawIsComplete, FreshInv

\* Time and closing are none of its business.
LEMMA CompleteTickClose ==
    ASSUME TypeInv, CompleteInv, Tick \/ \E r \in Record : Close(r)
    PROVE  CompleteInv'
<1>1. UNCHANGED <<born, run, torn, fetchers, state, raw>>
  BY DEF Tick, Close, Quiet, tables
<1>2. Existing' = Existing /\ (\A r : Wanted(r)' = Wanted(r))
      /\ (\A r : Ahead(r)' = Ahead(r)) /\ (\A r : Underway(r)' = Underway(r))
  BY <1>1 DEF Existing, Wanted, Ahead, Underway
<1> QED
  BY <1>1, <1>2 DEF CompleteInv, ListInv, DetailsInv, RawIsComplete, IsIncremental

\* A new record is too late for the run, and moves those that a single fetcher
\* has not reached to later pages, where it finds them.
LEMMA CompleteCreate ==
    ASSUME TypeInv, CompleteInv, Create
    PROVE  CompleteInv'
<1> DEFINE n == Len(born) + 1
<1>1. /\ born' = Append(born, clock)
      /\ run' = IF run.at = "list" /\ fetchers > 1 THEN [run EXCEPT !.missed = TRUE] ELSE run
      /\ UNCHANGED <<clock, closed, torn, fetchers, state, raw>>
  BY DEF Create, Quiet, tables
<1>2. /\ Len(born') = n /\ Existing' = Existing \cup {n} /\ n \notin Existing
      /\ \A r \in Existing : born'[r] = born[r]
      /\ born'[n] = clock
  BY <1>1, BornNext DEF TypeInv
<1>3. Len(born) \in Nat /\ Existing = 1 .. Len(born)
  BY ExistingRecords
<1>4. /\ run'.at = run.at /\ run'.after = run.after /\ run'.start = run.start
      /\ run'.incremental = run.incremental /\ run'.createdAfter = run.createdAfter
      /\ run'.next = run.next /\ run'.answers = run.answers
      /\ ~run'.missed => ~run.missed
      /\ ~run'.missed /\ run.at = "list" => ~(fetchers > 1)
  <2>1. run \in RunState
    BY DEF TypeInv, RunTyped
  <2>2. CASE run.at = "list" /\ fetchers > 1
    BY <1>1, <2>1, <2>2 DEF RunState
  <2>3. CASE ~(run.at = "list" /\ fetchers > 1)
    BY <1>1, <2>3
  <2> QED
    BY <2>2, <2>3
<1>5. ~(clock < run.start) /\ ~(clock < state.success)
  BY TimeTypes
<1>6. RawIsComplete'
  BY <1>1, <1>2, <1>5 DEF CompleteInv, RawIsComplete
<1>7. DetailsInv'
  BY <1>1, <1>2, <1>4, <1>5 DEF CompleteInv, DetailsInv
<1>8. ASSUME run'.at = "list", ~run'.missed, NEW r \in Existing', Wanted(r)'
      PROVE  (raw[r] # {} \/ Underway(r) \/ Ahead(r))'
  <2>1. r # n /\ r \in Existing
    BY <1>2, <1>4, <1>5, <1>8 DEF Wanted
  <2>2. Wanted(r)
    BY <1>2, <1>4, <1>8, <2>1 DEF Wanted
  <2>3. raw[r] # {} \/ Underway(r) \/ Ahead(r)
    BY <1>4, <1>8, <2>1, <2>2, ListHas DEF CompleteInv
  <2>4. CASE raw[r] # {} \/ Underway(r)
    BY <1>1, <1>4, <2>4 DEF Underway
  <2>5. CASE Ahead(r)
    <3>1. PICK f \in 1 .. fetchers, k \in Nat :
              run.next[f] # 0 /\ PageOf(r, Len(born)) = run.next[f] + k * fetchers
      BY <2>5 DEF Ahead
    <3>2. fetchers = 1
      BY <1>4, <1>8, TimeTypes
    <3>3. run.next[f] \in Nat
      BY <1>4, <1>8, <3>1 DEF TypeInv, RunTyped, ListTyped
    <3> DEFINE p == PageOf(r, Len(born))
               q == PageOf(r, Len(born) + 1)
    <3>4. p \in Nat /\ q \in Nat /\ p <= q
      BY <1>3, <2>1, PagesMove
    <3>5. q - run.next[f] \in Nat /\ q = run.next[f] + (q - run.next[f]) * fetchers
      <4>1. p = run.next[f] + k
        BY <3>1, <3>2, <3>3
      <4> HIDE DEF p, q
      <4> QED
        BY <3>2, <3>3, <3>4, <4>1
    <3>6. PageOf(r, Len(born'))  = q
      BY <1>2
    <3> HIDE DEF q, p
    <3>7. Ahead(r)'
      BY <1>1, <1>4, <3>1, <3>5, <3>6 DEF Ahead, PageOf
    <3> QED
      BY <3>7
  <2> QED
    BY <2>3, <2>4, <2>5
<1>9. ListInv'
  <2>1. run'.at = "list" => IF run'.incremental
           THEN run'.createdAfter = state'.success /\ IsIncremental(run.after)'
           ELSE run'.createdAfter = run'.after
    BY <1>1, <1>4 DEF CompleteInv, ListInv, IsIncremental
  <2> QED
    BY <1>8, <2>1 DEF ListInv
<1> QED
  BY <1>6, <1>7, <1>9 DEF CompleteInv

\* At the beginning every page is ahead of some fetcher.
LEMMA CompleteBegin ==
    ASSUME TypeInv, CompleteInv, NEW after \in TimeAfters, Begin(after)
    PROVE  CompleteInv'
<1>1. /\ run'.at = "list" /\ run'.after = after /\ run'.incremental = IsIncremental(after)
      /\ run'.createdAfter = (IF IsIncremental(after) THEN state.success ELSE after)
      /\ run'.next = [f \in 1 .. fetchers |-> f]
      /\ UNCHANGED <<world, fetchers, state>>
      /\ \/ UNCHANGED <<raw, torn>>
         \/ torn' = TRUE
  BY DEF Begin
<1>2. Existing' = Existing /\ born' = born
  BY <1>1 DEF world, Existing
<1>3. RawIsComplete'
  BY <1>1, <1>2 DEF CompleteInv, RawIsComplete
<1>4. ASSUME NEW r \in Existing
      PROVE  Ahead(r)'
  <2> DEFINE p == PageOf(r, Len(born))
  <2>1. p \in Nat \ {0}
    BY ExistingRecords, PagesMove
  <2> HIDE DEF p
  <2>2. PICK f \in 1 .. fetchers, k \in Nat : p = f + k * fetchers
    BY <2>1, TimeTypes, FetchersCover
  <2>3. run'.next[f] = f /\ f # 0
    BY <1>1, TimeTypes
  <2>4. PageOf(r, Len(born')) = p
    BY <1>2 DEF p
  <2> QED
    BY <1>1, <2>2, <2>3, <2>4 DEF Ahead, PageOf
<1>5. IsIncremental(after)' = IsIncremental(after)
  BY <1>1 DEF IsIncremental
<1>6. ListInv'
  BY <1>1, <1>2, <1>4, <1>5 DEF ListInv, IsIncremental
<1> QED
  BY <1>1, <1>3, <1>6 DEF CompleteInv, DetailsInv

\* A page of a wanted record is stored, and one before it does not end the list.
LEMMA PageServes ==
    ASSUME TypeInv, NEW p \in Nat \ {0}, NEW r \in Existing, born[r] >= run.createdAfter
    PROVE  /\ PageOf(r, Len(born)) = p => r \in Parsed(Page(p)).items
           /\ p < PageOf(r, Len(born)) => Parsed(Page(p)).more
<1>1. /\ Len(born) \in Nat /\ Existing = 1 .. Len(born)
      /\ \A s \in Existing : born[s] \in Nat
      /\ run.createdAfter \in Nat
      /\ \A s, t \in Existing : s <= t => born[s] <= born[t]
  BY ExistingRecords, TimeTypes DEF TypeInv, WorldTyped
<1>2. Page(p) = {s \in 1 .. Len(born) : PageOf(s, Len(born)) = p}
  BY <1>1 DEF Page, PageOf
<1>3. \A s \in Existing : r <= s => ~Before(s)
  BY <1>1 DEF Before
<1>4. ASSUME PageOf(r, Len(born)) = p
      PROVE  r \in Parsed(Page(p)).items
  <2>1. r \in Page(p)
    BY <1>1, <1>2, <1>4
  <2>2. Max(Page(p)) \in Existing /\ r <= Max(Page(p))
    BY <2>1, PageEnds DEF TypeInv
  <2>3. ~Before(Max(Page(p)))
    BY <1>3, <2>2
  <2> QED
    BY <2>1, <2>3 DEF Parsed
<1>5. ASSUME p < PageOf(r, Len(born))
      PROVE  Parsed(Page(p)).more
  <2>1. Cardinality(Page(p)) = PageSize /\ Page(p) # {} /\ \A s \in Page(p) : r <= s
    BY <1>1, <1>2, <1>5, EarlierPages
  <2>2. /\ Max(Page(p)) \in Existing /\ Max(Page(p)) \in Page(p)
        /\ Min(Page(p)) \in Existing /\ Min(Page(p)) \in Page(p)
    BY <2>1, PageEnds DEF TypeInv
  <2>3. ~Before(Max(Page(p))) /\ ~Before(Min(Page(p)))
    BY <1>3, <2>1, <2>2
  <2> QED
    BY <2>1, <2>3 DEF Parsed
<1> QED
  BY <1>4, <1>5

LEMMA CompleteFetchPage ==
    ASSUME TypeInv, CompleteInv, NEW f \in 1 .. fetchers, FetchPage(f)
    PROVE  CompleteInv'
<1> DEFINE page == Parsed(Page(run.next[f]))
<1>1. UNCHANGED <<world, fetchers, state, raw, torn>> /\ run.next[f] # 0
  BY DEF FetchPage, tables
<1>2. /\ run'.next[f] = IF page.more THEN run.next[f] + fetchers ELSE 0
      /\ DOMAIN run'.answers[f] = page.items
      /\ \A g \in 1 .. fetchers :
            g # f => run'.next[g] = run.next[g] /\ run'.answers[g] = run.answers[g]
      /\ run.answers[f] = NoAnswer
      /\ run.at = "list" /\ run'.at = "list" /\ run'.after = run.after
      /\ run'.start = run.start /\ run'.incremental = run.incremental
      /\ run'.createdAfter = run.createdAfter /\ run'.missed = run.missed
  BY FetchEffect
<1>3. /\ Existing' = Existing /\ born' = born /\ Existing \subseteq Record
      /\ \A r : Wanted(r)' = Wanted(r)
  BY <1>1, <1>2, ExistingRecords DEF world, Existing, Wanted
<1>5. RawIsComplete'
  BY <1>1, CompleteKept DEF CompleteInv, RawGrows
<1>6. run.next[f] \in Nat \ {0} /\ fetchers \in Nat \ {0}
  BY <1>1, <1>2, TimeTypes DEF TypeInv, RunTyped, ListTyped
<1>7. ASSUME ~run.missed, NEW r \in Existing, Wanted(r)
      PROVE  (raw[r] # {} \/ Underway(r) \/ Ahead(r))'
  <2>1. raw[r] # {} \/ Underway(r) \/ Ahead(r)
    BY <1>2, <1>7, ListHas DEF CompleteInv
  <2>2. CASE raw[r] # {}
    BY <1>1, <2>2
  <2>4. CASE Underway(r)
    <3>1. PICK g \in 1 .. fetchers : r \in DOMAIN run.answers[g]
      BY <2>4 DEF Underway
    <3>2. g # f
      BY <1>2, <3>1, AnswerTypes
    <3>3. r \in DOMAIN run'.answers[g]
      BY <1>2, <3>1, <3>2
    <3> QED
      BY <1>1, <3>3 DEF Underway
  <2>3. CASE Ahead(r)
    <3>1. PICK g \in 1 .. fetchers, k \in Nat :
              run.next[g] # 0 /\ PageOf(r, Len(born)) = run.next[g] + k * fetchers
      BY <2>3 DEF Ahead
    <3>2. CASE g # f
      <4>1. run'.next[g] = run.next[g]
        BY <1>2, <3>2
      <4> QED
        BY <1>1, <1>3, <3>1, <4>1 DEF Ahead, PageOf
    <3>3. CASE g = f /\ k = 0
      <4>1. PageOf(r, Len(born)) = run.next[f]
        BY <1>6, <3>1, <3>3
      <4>2. r \in page.items
        BY <1>6, <1>7, <4>1, PageServes DEF Wanted
      <4>3. r \in DOMAIN run'.answers[f]
        BY <1>2, <4>2
      <4> QED
        BY <1>1, <4>3 DEF Underway
    <3>4. CASE g = f /\ k # 0
      <4>1. k - 1 \in Nat /\ k * fetchers = fetchers + (k - 1) * fetchers /\ (k - 1) * fetchers \in Nat
        BY <1>6, <3>4
      <4>2. PageOf(r, Len(born)) = (run.next[f] + fetchers) + (k - 1) * fetchers
        BY <1>6, <3>1, <3>4, <4>1
      <4>3. run.next[f] < PageOf(r, Len(born))
        BY <1>6, <4>1, <4>2
      <4>4. page.more
        BY <1>6, <1>7, <4>3, PageServes DEF Wanted
      <4>5. run'.next[f] = run.next[f] + fetchers /\ run'.next[f] # 0
        BY <1>2, <1>6, <4>4
      <4>6. PageOf(r, Len(born')) = run'.next[f] + (k - 1) * fetchers'
        BY <1>1, <1>3, <4>2, <4>5
      <4>7. f \in 1 .. fetchers'
        BY <1>1
      <4> QED
        BY <4>1, <4>5, <4>6, <4>7 DEF Ahead, PageOf
    <3> QED
      BY <3>2, <3>3, <3>4
  <2> QED
    BY <2>1, <2>2, <2>3, <2>4
<1>8. ListInv'
  <2>1. IF run'.incremental
        THEN run'.createdAfter = state'.success /\ IsIncremental(run.after)'
        ELSE run'.createdAfter = run'.after
    BY <1>1, <1>2 DEF CompleteInv, ListInv, IsIncremental
  <2> QED
    BY <1>2, <1>3, <1>7, <2>1 DEF ListInv
<1> QED
  BY <1>2, <1>5, <1>8 DEF CompleteInv, DetailsInv

\* An answer is inserted: its records are in the raw table now.
LEMMA CompleteStorePage ==
    ASSUME TypeInv, CompleteInv, NEW f \in 1 .. fetchers, StorePage(f)
    PROVE  CompleteInv'
<1> DEFINE answer == run.answers[f]
<1>1. UNCHANGED <<world, fetchers, state, torn>>
  BY DEF StorePage
<1>2. /\ \A r \in Record : raw'[r] =
            IF r \in DOMAIN answer THEN raw[r] \cup {answer[r]} ELSE raw[r]
      /\ \A g \in 1 .. fetchers : run'.next[g] = run.next[g]
      /\ \A g \in 1 .. fetchers : g # f => run'.answers[g] = run.answers[g]
      /\ run.at = "list" /\ run'.at = "list" /\ run'.after = run.after
      /\ run'.start = run.start /\ run'.incremental = run.incremental
      /\ run'.createdAfter = run.createdAfter /\ run'.missed = run.missed
  BY StoreEffect
<1>3. /\ Existing' = Existing /\ born' = born /\ Existing \subseteq Record
      /\ \A r : Wanted(r)' = Wanted(r)
  BY <1>1, <1>2, ExistingRecords DEF world, Existing, Wanted
<1>4. RawGrows
  BY <1>2 DEF RawGrows
<1>5. RawIsComplete'
  BY <1>1, <1>4, CompleteKept DEF CompleteInv
<1>6. ASSUME ~run.missed, NEW r \in Existing, Wanted(r)
      PROVE  (raw[r] # {} \/ Underway(r) \/ Ahead(r))'
  <2>1. raw[r] # {} \/ Underway(r) \/ Ahead(r)
    BY <1>2, <1>6, ListHas DEF CompleteInv
  <2>2. CASE raw[r] # {}
    BY <1>3, <1>4, <2>2 DEF RawGrows
  <2>3. CASE Underway(r)
    <3>1. PICK g \in 1 .. fetchers : r \in DOMAIN run.answers[g]
      BY <2>3 DEF Underway
    <3>2. CASE g = f
      <4>1. raw'[r] = raw[r] \cup {answer[r]}
        BY <1>2, <1>3, <3>1, <3>2
      <4> QED
        BY <4>1
    <3>3. CASE g # f
      <4>1. r \in DOMAIN run'.answers[g]
        BY <1>2, <3>1, <3>3
      <4> QED
        BY <1>1, <4>1 DEF Underway
    <3> QED
      BY <3>2, <3>3
  <2>4. CASE Ahead(r)
    BY <1>1, <1>2, <1>3, <2>4 DEF Ahead, PageOf
  <2> QED
    BY <2>1, <2>2, <2>3, <2>4
<1>7. ListInv'
  <2>1. IF run'.incremental
        THEN run'.createdAfter = state'.success /\ IsIncremental(run.after)'
        ELSE run'.createdAfter = run'.after
    BY <1>1, <1>2 DEF CompleteInv, ListInv, IsIncremental
  <2> QED
    BY <1>2, <1>3, <1>6, <2>1 DEF ListInv
<1> QED
  BY <1>2, <1>5, <1>7 DEF CompleteInv, DetailsInv

\* The end of the list: what it was not read for is there since an earlier run.
LEMMA CompleteListEnds ==
    ASSUME TypeInv, CompleteInv, ListEnds
    PROVE  CompleteInv'
<1>1. /\ run.at = "list"
      /\ \A f \in 1 .. fetchers : run.next[f] = 0 /\ run.answers[f] = NoAnswer
      /\ UNCHANGED <<world, state, raw, torn>>
  BY DEF ListEnds, tables
<1>2. /\ run'.at = "details" /\ run'.after = run.after /\ run'.start = run.start
      /\ run'.incremental = run.incremental /\ run'.missed = run.missed
  BY ListEndsEffect
<1>3. Existing' = Existing /\ born' = born
  BY <1>1 DEF world, Existing
<1>4. RawIsComplete'
  BY <1>1, CompleteKept DEF CompleteInv, RawGrows
<1>5. ASSUME ~run.missed, ~(run.incremental /\ torn), NEW r \in Existing,
             born[r] >= run.after, born[r] < run.start
      PROVE  raw[r] # {}
  <2>1. Wanted(r) => raw[r] # {}
    BY <1>1, <1>5, ListHas, AnswerTypes DEF CompleteInv, Ahead, Underway
  <2>2. CASE ~run.incremental
    BY <1>1, <1>5, <2>1, <2>2 DEF CompleteInv, ListInv, Wanted
  <2>3. CASE run.incremental
    <3>1. /\ run.createdAfter = state.success /\ state.success # 0 /\ ~torn
          /\ state.after # 0 => run.after >= state.after
      BY <1>1, <1>5, <2>3 DEF CompleteInv, ListInv, IsIncremental
    <3>2. born[r] >= state.after
      BY <1>5, <3>1, TimeTypes
    <3>3. CASE born[r] < state.success
      BY <3>1, <3>2, <3>3 DEF CompleteInv, RawIsComplete
    <3>4. CASE ~(born[r] < state.success)
      BY <1>5, <2>1, <3>1, <3>4, TimeTypes DEF Wanted
    <3> QED
      BY <3>3, <3>4
  <2> QED
    BY <2>2, <2>3
<1>6. DetailsInv'
  BY <1>1, <1>2, <1>3, <1>5 DEF DetailsInv
<1> QED
  BY <1>2, <1>4, <1>6 DEF CompleteInv, ListInv

LEMMA CompleteFetchDetail ==
    ASSUME TypeInv, CompleteInv, NEW r \in Record, FetchDetail(r)
    PROVE  CompleteInv'
<1>1. UNCHANGED <<world, state, torn>> /\ run.at = "details"
  BY DEF FetchDetail
<1>2. /\ run'.at = "details" /\ run'.after = run.after /\ run'.start = run.start
      /\ run'.incremental = run.incremental /\ run'.missed = run.missed
      /\ \A s \in Record : raw'[s] = IF s = r THEN raw[r] \cup {Version(r)} ELSE raw[s]
  BY FetchDetailEffect
<1>3. RawGrows
  BY <1>2 DEF RawGrows
<1>4. Existing' = Existing /\ born' = born /\ Existing \subseteq Record
  BY <1>1, ExistingRecords DEF world, Existing
<1>5. RawIsComplete'
  BY <1>1, <1>3, CompleteKept DEF CompleteInv
<1>6. DetailsInv'
  BY <1>1, <1>2, <1>3, <1>4 DEF CompleteInv, DetailsInv, RawGrows
<1> QED
  BY <1>2, <1>5, <1>6 DEF CompleteInv, ListInv

\* The promise is what the run has read.
LEMMA CompleteSaveState ==
    ASSUME TypeInv, CompleteInv, SaveState
    PROVE  CompleteInv'
<1>1. /\ run.at = "details" /\ UNCHANGED <<world, raw>>
      /\ state' = [success |-> run.start, after |-> run.after]
      /\ torn' = ((run.incremental /\ torn) \/ run.missed)
  BY DEF SaveState
<1>2. Existing' = Existing /\ born' = born
  BY <1>1 DEF world, Existing
<1>3. state'.success = run.start /\ state'.after = run.after
  BY <1>1
<1>4. RawIsComplete'
  BY <1>1, <1>2, <1>3 DEF CompleteInv, DetailsInv, RawIsComplete
<1>5. run'.at = "extract"
  BY SaveStateEffect
<1> QED
  BY <1>4, <1>5 DEF CompleteInv, ListInv, DetailsInv

LEMMA CompleteEnd ==
    ASSUME TypeInv, CompleteInv, Extract \/ ExtractFails \/ Fail
    PROVE  CompleteInv'
<1>1. UNCHANGED <<world, state, raw, torn>> /\ run' = Idle
  BY DEF Extract, ExtractFails, Fail, tables
<1>2. RawIsComplete'
  BY <1>1, CompleteKept DEF CompleteInv, RawGrows
<1>3. run'.at = "idle"
  BY <1>1, IdleType
<1> QED
  BY <1>2, <1>3 DEF CompleteInv, ListInv, DetailsInv

LEMMA CompleteStep ==
    ASSUME TypeInv, CompleteInv, [Next]_vars
    PROVE  CompleteInv'
<1>1. CASE UNCHANGED vars
  BY <1>1 DEF vars, world, tables, CompleteInv, ListInv, DetailsInv, RawIsComplete, Existing,
     IsIncremental, Wanted, Ahead, Underway
<1>2. CASE Next
  BY <1>2, CompleteTickClose, CompleteCreate, CompleteBegin, CompleteFetchPage,
     CompleteStorePage, CompleteListEnds,
     CompleteFetchDetail, CompleteSaveState, CompleteEnd DEF Next, RunStep
<1> QED
  BY <1>1, <1>2

\* As long as no refresh was broken off and no record moved under a list that several
\* fetchers read (~torn: the code notices neither), and whatever other runs failed:
\* the raw table has every record from TimeAfter on that was created before the last
\* successful run started, which the next run relies on when it is incremental.
THEOREM PromiseKept == Spec => []RawIsComplete
<1>1. Init => CompleteInv
  BY CompleteInit
<1>2. TypeInv /\ CompleteInv /\ [Next]_vars => CompleteInv'
  BY CompleteStep
<1>3. CompleteInv => RawIsComplete
  BY DEF CompleteInv
<1> QED
  BY <1>1, <1>2, <1>3, TypesInvariant, PTL DEF Spec

-----------------------------------------------------------------------------
(* What was closed before the run.                                          *)

LEMMA FreshStep ==
    ASSUME TypeInv, LastTyped, FreshInv, [Next]_vars
    PROVE  FreshInv'
<1>1. run.due \subseteq Record
  BY DEF TypeInv, RunTyped, RunState
<1>2. CASE UNCHANGED vars \/ Tick \/ Create \/ \E r \in Record : Close(r)
  <2>1. /\ closed \subseteq closed' /\ last' = last /\ run'.at = run.at
        /\ run'.due = run.due /\ run'.input = run.input
    <3>1. run \in RunState
      BY DEF TypeInv, RunTyped
    <3>2. run' = run \/ run' = [run EXCEPT !.missed = TRUE]
      BY <1>2 DEF vars, Tick, Create, Close
    <3>3. run'.at = run.at /\ run'.due = run.due /\ run'.input = run.input
      BY <3>1, <3>2 DEF RunState
    <3> QED
      BY <1>2, <3>3 DEF vars, world, tables, Tick, Create, Close, Quiet
  <2> QED
    BY <2>1 DEF FreshInv
<1>3. ASSUME NEW after \in TimeAfters, Begin(after)
      PROVE  FreshInv'
  <2>1. /\ run'.at = "list" /\ run'.input = Unfinished /\ run'.due = Unfinished \cap closed
        /\ closed' = closed
    BY <1>3 DEF Begin, world
  <2> QED
    BY <2>1 DEF FreshInv
<1>4. ASSUME NEW f \in 1 .. fetchers, FetchPage(f) \/ StorePage(f)
      PROVE  FreshInv'
  <2>1. /\ run.at = "list" /\ run'.at = "list" /\ run'.input = run.input /\ run'.due = run.due
    BY <1>4, FetchEffect, StoreEffect
  <2>2. closed' = closed
    BY <1>4 DEF FetchPage, StorePage, world
  <2> QED
    BY <2>1, <2>2 DEF FreshInv
<1>5. CASE ListEnds
  <2>1. run.at = "list" /\ closed' = closed
    BY <1>5 DEF ListEnds, world
  <2> QED
    BY <1>5, <2>1, ListEndsEffect DEF FreshInv
<1>6. ASSUME NEW r \in Record, FetchDetail(r)
      PROVE  FreshInv'
  <2>1. run.at = "details" /\ closed' = closed
    BY <1>6 DEF FetchDetail, world
  <2>2. /\ run'.at = "details" /\ run'.input = run.input \ {r} /\ run'.due = run.due
        /\ \A s \in Record : last'[s] = IF s = r THEN Version(r) ELSE last[s]
    BY <1>6, FetchDetailEffect DEF FetchDetail, LastTyped
  <2>3. ASSUME NEW s \in run.due
        PROVE  s \in closed /\ (s \in run'.input \/ last'[s] = "closed")
    <3>1. s \in Record /\ s \in closed /\ (s \in run.input \/ last[s] = "closed")
      BY <1>1, <2>1 DEF FreshInv
    <3>2. CASE s = r
      BY <2>2, <3>1, <3>2 DEF Version
    <3>3. CASE s # r
      BY <2>2, <3>1, <3>3
    <3> QED
      BY <3>1, <3>2, <3>3
  <2> QED
    BY <2>1, <2>2, <2>3 DEF FreshInv
<1>7. CASE SaveState
  <2>1. run.at = "details" /\ run.input = {} /\ closed' = closed /\ last' = last
    BY <1>7 DEF SaveState, world
  <2> QED
    BY <1>7, <2>1, SaveStateEffect DEF FreshInv
<1>8. CASE Extract \/ ExtractFails \/ Fail
  <2>1. run' = Idle
    BY <1>8 DEF Extract, ExtractFails, Fail
  <2> QED
    BY <2>1, IdleType DEF FreshInv
<1> QED
  BY <1>2, <1>3, <1>4, <1>5, <1>6, <1>7, <1>8 DEF Next, RunStep

\* A run that gets to its end leaves nothing open in the tool layer that it knew
\* as unfinished and that was closed before it started.
THEOREM DetailsRefreshed == Spec => DetailsAreFresh
<1>1. Init => FreshInv
  BY CompleteInit
<1>2. TypeInv /\ LastTyped /\ FreshInv /\ [Next]_vars => FreshInv'
  BY FreshStep
<1>3. ASSUME TypeInv, LastTyped, FreshInv
      PROVE  Extract => \A r \in run.due : tool'[r] # "open"
  <2>1. SUFFICES ASSUME Extract, NEW r \in run.due
                 PROVE  tool'[r] # "open"
    OBVIOUS
  <2>2. r \in Record /\ last[r] = "closed"
    BY <1>3, <2>1 DEF TypeInv, RunTyped, RunState, Extract, FreshInv
  <2>3. raw[r] # {}
    BY <1>3, <2>2 DEF LastTyped
  <2>4. tool' = last
    BY <2>1, <2>2, <2>3 DEF Extract, Extracted
  <2> QED
    BY <2>2, <2>4
<1>4. TypeInv /\ LastTyped /\ FreshInv => [Extract => \A r \in run.due : tool'[r] # "open"]_vars
  BY <1>3
<1> QED
  BY <1>1, <1>2, <1>4, TypesInvariant, PTL DEF Spec, DetailsAreFresh
=============================================================================
