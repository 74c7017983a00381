---------------------------- MODULE BlueprintCron ----------------------------
(***************************************************************************)
(* Blueprints and the cron that triggers them. ReloadBlueprints reads the   *)
(* first page of the blueprints that are to be scheduled, empties the cron  *)
(* it was given and adds a job for each; several calls of it interleave.    *)
(* A cron manager that was replaced goes on with the jobs it has.           *)
(***************************************************************************)
EXTENDS Naturals, Sequences, FiniteSets

CONSTANTS
    Blueprint,   \* the blueprints there are, by id
    PageSize,    \* of GetDbBlueprints, 50 in the code
    FirstEnabled, \* those that are enabled when the server starts
    MaxChanges,  \* bound on the changes of blueprints
    Reloader     \* the goroutines that may call ReloadBlueprints

ASSUME BlueprintAssumption ==
    /\ Blueprint \subseteq Nat /\ IsFiniteSet(Blueprint)
    /\ FirstEnabled \subseteq Blueprint
    /\ PageSize \in Nat \ {0}
    /\ MaxChanges \in Nat

VARIABLES
    enabled,    \* blueprints that are enabled and not manual, in the database
    version,    \* how often each was changed
    crons,      \* the cron managers of this process: are they running, their jobs
    reloading,  \* each call of ReloadBlueprints: its place and variables
    unsynced    \* since a change, until a reload that nothing disturbs

blueprints == <<enabled, version>>
cronVars == <<blueprints, crons, reloading, unsynced>>

Job == Blueprint \X (0 .. MaxChanges)
NewCron == [running |-> FALSE, jobs |-> [j \in Job |-> 0]]
NotReloading == [at |-> "idle", cron |-> 0, list |-> {}, any |-> FALSE,
                 alone |-> FALSE]

Changes == Cardinality({j \in Job : j[2] < version[j[1]]})

\* cronManager, 0 for nil.
CronManager == Len(crons)

\* GetDbBlueprints with no page size in the query: the highest ids come first.
FirstPage(ids) == {b \in ids : Cardinality({c \in ids : c > b}) < PageSize}

CronInit ==
    /\ enabled = FirstEnabled
    /\ version = [b \in Blueprint |-> 0]
    /\ crons = <<>>
    /\ reloading = [x \in Reloader |-> NotReloading]
    /\ unsynced = FALSE

Reloads(x) == reloading[x].at \notin {"idle", "failed"}

\* The reloads after something that a reload in progress does not account for.
Disturbed == [x \in Reloader |-> [reloading[x] EXCEPT !.alone = FALSE]]

\* b is changed in the database: SaveDbBlueprint, or PatchProject.
Change(b, on) ==
    /\ Changes < MaxChanges
    /\ enabled' = IF on THEN enabled \cup {b} ELSE enabled \ {b}
    /\ version' = [version EXCEPT ![b] = @ + 1]
    /\ unsynced' = TRUE

\* The call of ReloadBlueprints, with the cron manager of that moment.
CallReload(calls, x) ==
    [calls EXCEPT ![x] = [NotReloading EXCEPT !.at = "read", !.cron = CronManager]]

\* The blueprints are read; with no cron manager the call panics.
ReloadRead(x) ==
    /\ reloading[x].at = "read"
    /\ reloading' = [Disturbed EXCEPT ![x] =
          IF @.cron = 0 THEN [@ EXCEPT !.at = "failed"]
          ELSE [@ EXCEPT !.at = "remove",
                         !.list = {<<b, version[b]>> : b \in FirstPage(enabled)},
                         !.any = enabled # {},
                         !.alone = \A y \in Reloader \ {x} : ~Reloads(y)]]
    /\ UNCHANGED <<blueprints, crons, unsynced>>

ReloadReadFails(x) ==
    /\ reloading[x].at = "read"
    /\ reloading' = [reloading EXCEPT ![x].at = "failed"]
    /\ UNCHANGED <<blueprints, crons, unsynced>>

\* A fault: the entries stay.
ReloadKeepsJobs(x) ==
    /\ reloading[x].at = "remove"
    /\ reloading' = [reloading EXCEPT ![x].at = "stop"]
    /\ UNCHANGED <<blueprints, crons, unsynced>>

\* The entries of the cron are removed.
ReloadRemove(x) ==
    /\ reloading[x].at = "remove"
    /\ crons' = [crons EXCEPT ![reloading[x].cron].jobs = NewCron.jobs]
    /\ reloading' = [reloading EXCEPT ![x].at = "stop"]
    /\ UNCHANGED <<blueprints, unsynced>>

ReloadStop(x) ==
    /\ reloading[x].at = "stop"
    /\ crons' = [crons EXCEPT ![reloading[x].cron].running = FALSE]
    /\ reloading' = [reloading EXCEPT ![x].at = "add"]
    /\ UNCHANGED <<blueprints, unsynced>>

\* AddJob parses the cron expression as the two writers of blueprints do before they
\* save one, so that it does not fail.
ReloadAdd(x) ==
    /\ reloading[x].at = "add" /\ reloading[x].list # {}
    /\ \E j \in reloading[x].list :
        /\ \A k \in reloading[x].list : k[1] <= j[1]
        /\ crons' = [crons EXCEPT ![reloading[x].cron].jobs[j] = @ + 1]
        /\ reloading' = [reloading EXCEPT ![x].list = @ \ {j}]
    /\ UNCHANGED <<blueprints, unsynced>>

\* A fault: the cron is not started again.
ReloadEndsStopped(x) ==
    /\ reloading[x].at = "add" /\ reloading[x].list = {}
    /\ reloading' = [reloading EXCEPT ![x] = NotReloading]
    /\ unsynced' = (~reloading[x].alone \/ reloading[x].cron # CronManager)
    /\ UNCHANGED <<blueprints, crons>>

\* The last statement, and the return.
ReloadEnds(x) ==
    /\ reloading[x].at = "add" /\ reloading[x].list = {}
    /\ crons' = [crons EXCEPT ![reloading[x].cron].running = @ \/ reloading[x].any]
    /\ reloading' = [reloading EXCEPT ![x] = NotReloading]
    /\ unsynced' = (~reloading[x].alone \/ reloading[x].cron # CronManager)
    /\ UNCHANGED blueprints

ReloadStep(x) ==
    ReloadRead(x) \/ ReloadRemove(x) \/ ReloadStop(x) \/ ReloadAdd(x) \/ ReloadEnds(x)
=============================================================================
