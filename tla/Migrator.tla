------------------------------ MODULE Migrator ------------------------------
(***************************************************************************)
(* The migrator of one server process: the scripts that the history table   *)
(* has were executed, the others are pending, and Execute, which takes no   *)
(* lock, applies those in the order of their versions and records each.     *)
(* The history outlives the process, the rest is loaded when it starts.     *)
(***************************************************************************)
EXTENDS Naturals, FiniteSets, FiniteSetsExt

CONSTANTS
    Script,     \* the registered scripts, by version
    Goroutine   \* those that may call Execute

ASSUME ScriptAssumption == Script \subseteq Nat /\ IsFiniteSet(Script)

VARIABLES
    history,   \* _devlake_migration_history
    executed,  \* migratorImpl.executed
    pending,   \* migratorImpl.pending
    migrating  \* each call of Execute: its place and the rest of its range

migrator == <<history, executed, pending, migrating>>

NotMigrating == [at |-> "idle", left |-> {}]

\* A fault: the scripts are not sorted, the one registered last comes first.
LastOf(scripts) == Max(scripts)

\* Execute sorts the scripts by version.
FirstOf(scripts) == Min(scripts)

HasPendingScripts == executed # {} /\ pending # {}

\* What the range of Execute has left, or the end of Execute.
Continues(left) == [at |-> IF left = {} THEN "done" ELSE "up", left |-> left]

\* The range of Execute is the slice as it is when the loop starts.
Execute(g) ==
    /\ migrating[g].at = "execute"
    /\ migrating' = [migrating EXCEPT ![g] = Continues(pending)]
    /\ UNCHANGED <<history, executed, pending>>

\* A script is applied.
Up(g) ==
    /\ migrating[g].at = "up"
    /\ migrating' = [migrating EXCEPT ![g].at = "record"]
    /\ UNCHANGED <<history, executed, pending>>

\* A fault: the slice of pending scripts does not advance.
RecordKeepsPending(g) ==
    /\ migrating[g].at = "record"
    /\ LET s == FirstOf(migrating[g].left) IN
       /\ s \notin history
       /\ history' = history \cup {s}
       /\ executed' = executed \cup {s}
       /\ migrating' = [migrating EXCEPT ![g] = Continues(@.left \ {s})]
    /\ UNCHANGED pending

\* It is recorded, and the slice loses its first element.
Record(g) ==
    /\ migrating[g].at = "record"
    /\ LET s == FirstOf(migrating[g].left) IN
       /\ s \notin history
       /\ history' = history \cup {s}
       /\ executed' = executed \cup {s}
       /\ pending' = pending \ {FirstOf(pending)}
       /\ migrating' = [migrating EXCEPT ![g] = Continues(@.left \ {s})]

\* The key of the record exists: another execution was faster.
RecordRefused(g) ==
    /\ migrating[g].at = "record"
    /\ FirstOf(migrating[g].left) \in history
    /\ migrating' = [migrating EXCEPT ![g] = [@ EXCEPT !.at = "failed"]]
    /\ UNCHANGED <<history, executed, pending>>

\* The error of a script or of the database.
ExecuteFails(g) ==
    /\ migrating[g].at \in {"up", "record"}
    /\ migrating' = [migrating EXCEPT ![g] = [@ EXCEPT !.at = "failed"]]
    /\ UNCHANGED <<history, executed, pending>>
=============================================================================
