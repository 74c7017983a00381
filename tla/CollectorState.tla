--------------------------- MODULE CollectorState ---------------------------
(***************************************************************************)
(* Collections of one scope with ApiCollectorStateManager, over many runs:  *)
(* whether a run is incremental follows from the state that the last        *)
(* successful one saved. This is the manager for finalizable entities: a    *)
(* first collector reads the list of records, newest first, until it meets  *)
(* one created before createdAfter; a second one reads again, one by one,   *)
(* the records that are unfinished in the tool layer. The extractor then    *)
(* turns the raw table into the tool layer. A run fails at any step, and    *)
(* the records go on being created and closed.                              *)
(*                                                                          *)
(* Records are numbered as they are created, times are numbers from 1, and  *)
(* 0 is a time that is nil. How pages are fetched, retried and stored is    *)
(* the module ApiCollector.                                                 *)
(***************************************************************************)
EXTENDS Naturals, Sequences, FiniteSets, FiniteSetsExt

CONSTANTS
    MaxRecords,  \* bound on the records of the scope
    MaxClock,    \* bound on time
    TimeAfters,  \* the values of TimeAfter that a run may be given, 0 for nil
    Fetchers,    \* the values of Concurrency to choose from
    PageSize,    \* records on a page of the list
    MaxFaults    \* bound on runs that fail

ASSUME StateAssumption ==
    /\ MaxRecords \in Nat
    /\ MaxClock \in Nat \ {0}
    /\ TimeAfters \subseteq Nat
    /\ Fetchers \subseteq Nat \ {0}
    /\ PageSize \in Nat \ {0}
    /\ MaxFaults \in Nat

VARIABLES
    clock,
    born,      \* when each record was created
    closed,    \* the records that are finished
    fetchers,  \* Concurrency of this collector
    state,     \* the row of _devlake_collector_latest_state
    raw,       \* the versions of each record in the raw table
    last,      \* the version in the row of it that was inserted last
    tool,      \* the version of each record in the tool layer
    run,       \* the run of the subtasks: its arguments and its place
    torn,      \* a refresh or a list was not completed, see RawIsComplete
    faults

world == <<clock, born, closed>>
tables == <<state, raw, last, tool>>
vars == <<world, fetchers, tables, run, torn, faults>>

Record == 1 .. MaxRecords
Existing == 1 .. Len(born)

\* A fault: an unfinished record is stored as if there were none.
NoVersion(r) == IF r \in closed THEN "closed" ELSE "none"

\* What the API answers about a record now.
Version(r) == IF r \in closed THEN "closed" ELSE "open"

\* Nothing was answered, or what was answered is inserted.
NoAnswer == [r \in {} |-> "open"]

Idle == [at |-> "idle", after |-> 0, start |-> 0, incremental |-> FALSE,
         createdAfter |-> 0, next |-> <<>>, answers |-> <<>>, input |-> {}, due |-> {}, missed |-> FALSE]

Init ==
    /\ clock = 1
    /\ born = <<>>
    /\ closed = {}
    /\ fetchers \in Fetchers
    /\ state = [success |-> 0, after |-> 0]
    /\ raw = [r \in Record |-> {}]
    /\ last = [r \in Record |-> "none"]
    /\ tool = [r \in Record |-> "none"]
    /\ run = Idle
    /\ torn = FALSE
    /\ faults = 0

-----------------------------------------------------------------------------
(* The data source.                                                         *)

Quiet == UNCHANGED <<fetchers, tables, faults>>

Tick ==
    /\ clock < MaxClock
    /\ clock' = clock + 1
    /\ UNCHANGED <<born, closed, run, torn>> /\ Quiet

\* The new record comes first in the list and moves the others down: of several
\* fetchers one may read its page before a record moves onto it, and the other
\* after the record left.
Create ==
    /\ Len(born) < MaxRecords
    /\ born' = Append(born, clock)
    /\ run' = IF run.at = "list" /\ fetchers > 1 THEN [run EXCEPT !.missed = TRUE] ELSE run
    /\ UNCHANGED <<clock, closed, torn>> /\ Quiet

Close(r) ==
    /\ r \in Existing \ closed
    /\ closed' = closed \cup {r}
    /\ UNCHANGED <<clock, born, run, torn>> /\ Quiet

-----------------------------------------------------------------------------
(* A run of the collector and of the extractor.                             *)

\* IsIncremental
IsIncremental(after) ==
    /\ state.success # 0
    /\ state.after # 0 => after # 0 /\ after >= state.after

\* A fault: only those that were created since the last successful run.
UnfinishedLately == {r \in Existing : tool[r] = "open" /\ born[r] >= state.success}

Unfinished == {r \in Record : tool[r] = "open"}

\* NewStatefulApiCollectorForFinalizableEntity, with the cursor of the second
\* collector opened before the first one is executed, and the beginning of
\* Execute: the first collector deletes the rows if it is not incremental, and
\* each fetcher starts with a page of its own. Nobody else looks in between.
Begin(after) ==
    /\ run.at = "idle"
    /\ LET incremental == IsIncremental(after) IN
       /\ run' = [at |-> "list", after |-> after, start |-> clock,
                  incremental |-> incremental,
                  createdAfter |-> IF incremental THEN state.success ELSE after,
                  next |-> [f \in 1 .. fetchers |-> f],
                  answers |-> [f \in 1 .. fetchers |-> NoAnswer],
                  input |-> Unfinished, due |-> Unfinished \cap closed, missed |-> FALSE]
       /\ IF incremental THEN UNCHANGED <<raw, last, torn>>
          ELSE /\ raw' = [r \in Record |-> {}] /\ last' = [r \in Record |-> "none"]
               /\ torn' = TRUE
    /\ UNCHANGED <<world, fetchers, state, tool, faults>>

\* Page p of the list, newest first: page 1 has the highest numbers.
Page(p) == {r \in Existing : (Len(born) - r) \div PageSize + 1 = p}

\* A fault: the comparison includes the time itself.
NotAfter(r) == born[r] <= run.createdAfter

Before(r) == born[r] < run.createdAfter

\* The ResponseParser: what is stored of a page, and whether to go on.
Parsed(page) ==
    IF page = {} \/ Before(Max(page)) THEN [items |-> {}, more |-> FALSE]
    ELSE [items |-> page,
          more |-> ~Before(Min(page)) /\ Cardinality(page) = PageSize]

\* One request of fetcher f, whose pages are f, f + fetchers, ...; 0 at its end.
FetchPage(f) ==
    /\ run.at = "list" /\ run.next[f] # 0 /\ run.answers[f] = NoAnswer
    /\ LET page == Parsed(Page(run.next[f])) IN
       run' = [run EXCEPT !.next[f] = IF page.more THEN @ + fetchers ELSE 0,
                          !.answers[f] = [r \in page.items |-> Version(r)]]
    /\ UNCHANGED <<world, fetchers, tables, torn, faults>>

\* The answers of several fetchers are inserted in any order, whatever was asked
\* first: of a record that moved from the page of one to that of another, the
\* older version may come last.
StorePage(f) ==
    /\ run.at = "list" /\ run.answers[f] # NoAnswer
    /\ LET answer == run.answers[f] IN
       /\ raw' = [r \in Record |->
                    IF r \in DOMAIN answer THEN raw[r] \cup {answer[r]} ELSE raw[r]]
       /\ last' = [r \in Record |-> IF r \in DOMAIN answer THEN answer[r] ELSE last[r]]
    /\ run' = [run EXCEPT !.answers[f] = NoAnswer]
    /\ UNCHANGED <<world, fetchers, state, tool, torn, faults>>

ListEnds ==
    /\ run.at = "list"
    /\ \A f \in 1 .. fetchers : run.next[f] = 0 /\ run.answers[f] = NoAnswer
    /\ run' = [run EXCEPT !.at = "details", !.next = <<>>, !.answers = <<>>,
                          !.createdAfter = 0]
    /\ UNCHANGED <<world, fetchers, tables, torn, faults>>

\* A fault: the answer is not stored.
FetchForNothing(r) ==
    /\ run.at = "details" /\ r \in run.input
    /\ run' = [run EXCEPT !.input = @ \ {r}]
    /\ UNCHANGED <<world, fetchers, tables, torn, faults>>

\* The second collector, which never deletes rows.
FetchDetail(r) ==
    /\ run.at = "details" /\ r \in run.input
    /\ raw' = [raw EXCEPT ![r] = @ \cup {Version(r)}]
    /\ last' = [last EXCEPT ![r] = Version(r)]
    /\ run' = [run EXCEPT !.input = @ \ {r}]
    /\ UNCHANGED <<world, fetchers, state, tool, torn, faults>>

\* The end of Execute: the state of this run replaces the former.
SaveState ==
    /\ run.at = "details" /\ run.input = {}
    /\ state' = [success |-> run.start, after |-> run.after]
    /\ torn' = ((run.incremental /\ torn) \/ run.missed)
    /\ run' = [Idle EXCEPT !.at = "extract", !.due = run.due]
    /\ UNCHANGED <<world, fetchers, raw, last, tool, faults>>

\* ApiExtractor.Execute reads the rows in the order of their insertion. The first
\* row clears what the scope had in the tool layer, so nothing is cleared if there
\* is no row.
Extracted == IF \A r \in Record : raw[r] = {} THEN tool ELSE last

Extract ==
    /\ run.at = "extract"
    /\ tool' = Extracted
    /\ run' = Idle
    /\ UNCHANGED <<world, fetchers, state, raw, last, torn, faults>>

\* An extraction that stops in the middle: some rows were not read.
ExtractFails ==
    /\ run.at = "extract"
    /\ faults < MaxFaults /\ faults' = faults + 1
    /\ \E r \in Record : raw[r] # {}
    /\ tool' \in [Record -> {"none", "open", "closed"}]
    /\ \A r \in Record : tool'[r] \in raw[r] \cup {"none"}
    /\ run' = Idle
    /\ UNCHANGED <<world, fetchers, state, raw, last, torn>>

\* An error, a cancellation, or the end of the process.
Fail ==
    /\ run.at # "idle"
    /\ faults < MaxFaults /\ faults' = faults + 1
    /\ run' = Idle
    /\ UNCHANGED <<world, fetchers, tables, torn>>

RunStep ==
    \/ \E f \in 1 .. fetchers : FetchPage(f) \/ StorePage(f)
    \/ ListEnds
    \/ \E r \in Record : FetchDetail(r)
    \/ SaveState
    \/ Extract

Next ==
    \/ Tick
    \/ Create
    \/ \E r \in Record : Close(r)
    \/ \E after \in TimeAfters : Begin(after)
    \/ RunStep
    \/ ExtractFails
    \/ Fail

Spec == Init /\ [][Next]_vars

\* The blueprint goes on starting runs, and a run that does not fail ends.
FairSpec ==
    Spec /\ WF_vars(\E after \in TimeAfters : Begin(after)) /\ WF_vars(RunStep)

-----------------------------------------------------------------------------
TypeOK ==
    /\ clock \in 1 .. MaxClock
    /\ Len(born) <= MaxRecords /\ \A r \in Existing : born[r] \in 1 .. clock
    /\ closed \subseteq Existing
    /\ fetchers \in Fetchers
    /\ state \in [success : 0 .. clock, after : TimeAfters \cup {0}]
    /\ raw \in [Record -> SUBSET {"open", "closed"}]
    /\ last \in [Record -> {"none", "open", "closed"}]
    /\ \A r \in Record : IF raw[r] = {} THEN last[r] = "none" ELSE last[r] \in raw[r]
    /\ tool \in [Record -> {"none", "open", "closed"}]
    /\ run.at \in {"idle", "list", "details", "extract"}
    /\ run.start \in 0 .. clock /\ run.input \subseteq Existing
    /\ torn \in BOOLEAN
    /\ faults \in 0 .. MaxFaults

\* What the saved state promises to the next run, which relies on it for
\* createdAfter: the raw table has every record from TimeAfter on that was
\* created before the last successful run started. It is so unless a refresh
\* deleted the rows and was not completed, or records moved under a list read
\* by several fetchers: the next incremental run does not notice either.
RawIsComplete ==
    state.success # 0 /\ ~torn =>
        \A r \in Existing :
            born[r] >= state.after /\ born[r] < state.success => raw[r] # {}

\* A run that gets to its end leaves none of the records it knew as unfinished
\* in the state they were in: what was closed before it started is closed. Those
\* (due) are kept from the start of the run.
DetailsAreFresh ==
    [][Extract => \A r \in run.due : tool'[r] # "open"]_vars

\* Whatever fails, and in whatever order the answers of several fetchers came, a
\* closed record is not for ever open in the tool layer or in the row that it is
\* extracted from.
Stale(r) == r \in closed /\ "open" \in {tool[r], last[r]}
EventuallyFinal == \A r \in Record : Stale(r) ~> ~Stale(r)

=============================================================================
