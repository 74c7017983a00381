------------------------------- MODULE Server -------------------------------
(***************************************************************************)
(* The start of the server: two processes on one database try to lock it,   *)
(* the one that does executes the pending migrations, at once or when a     *)
(* request confirms it, then starts the services. Requests are served by    *)
(* goroutines; those that change blueprints reload the cron.                *)
(*                                                                          *)
(* A process loads the migration history before it has the lock, and holds  *)
(* the lock until it ends. What is in memory is that of the process with    *)
(* the lock.                                                                *)
(***************************************************************************)
EXTENDS Migrator, BlueprintCron

CONSTANTS
    Process,      \* server processes on the database
    MaxFaults     \* bound on errors of the database and on crashes

\* The goroutine of Init, and those of requests.
Main == "main"
Handlers == Goroutine \ {Main}

ASSUME ServerAssumption ==
    Main \in Goroutine /\ Reloader = Goroutine /\ MaxFaults \in Nat

VARIABLES
    process,     \* the state of each process
    loaded,      \* what each read of the history before it had the lock
    starting,    \* goroutines in ExecuteMigration after Execute
    consumers,   \* how often RunPipelineInQueue was started
    force,       \* FORCE_MIGRATION
    overlapping, \* may confirmations come while a migration is executed?
    stale,       \* the lock was taken with an old view of the history
    faults

own == <<process, loaded, starting, consumers, stale>>
rigid == <<force, overlapping>>
vars == <<migrator, cronVars, own, rigid, faults>>

Owner == {p \in Process : process[p] \in {"starting", "serving"}}
Serving == \E p \in Process : process[p] = "serving"

Executing(g) == migrating[g].at # "idle" \/ starting[g] # "no"
Active(g) == Executing(g) \/ reloading[g].at # "idle"

\* The middleware of the API.
GateIsOpen == Serving /\ ~HasPendingScripts

Init ==
    /\ history \in SUBSET Script
    /\ executed = {} /\ pending = {}
    /\ migrating = [g \in Goroutine |-> NotMigrating]
    /\ CronInit
    /\ process = [p \in Process |-> "off"]
    /\ loaded = [p \in Process |-> {}]
    /\ starting = [g \in Goroutine |-> "no"]
    /\ consumers = 0
    /\ force \in BOOLEAN
    /\ overlapping \in BOOLEAN
    /\ stale = FALSE
    /\ faults = 0

Fault == faults < MaxFaults /\ faults' = faults + 1

-----------------------------------------------------------------------------
(* Processes.                                                               *)

\* InitResources: NewMigrator loads the history, before lockDb.
InitResources(p) ==
    /\ process[p] = "off"
    /\ process' = [process EXCEPT ![p] = "locking"]
    /\ loaded' = [loaded EXCEPT ![p] = history]
    /\ UNCHANGED <<migrator, cronVars, starting, consumers, stale, rigid, faults>>

\* A fault: the lock is not waited for.
LockIgnored(p) ==
    /\ process[p] = "locking"
    /\ executed' = loaded[p]
    /\ pending' = Script \ loaded[p]
    /\ process' = [process EXCEPT ![p] = "serving"]
    /\ loaded' = [loaded EXCEPT ![p] = {}]
    /\ UNCHANGED <<history, migrating, cronVars, starting, consumers, stale, rigid, faults>>

\* A fault: scripts are registered whether they were executed or not.
LockRegistersAll(p) ==
    /\ process[p] = "locking"
    /\ Owner = {}
    /\ executed' = loaded[p]
    /\ pending' = Script
    /\ process' = [process EXCEPT ![p] = "starting"]
    /\ migrating' = [migrating EXCEPT ![Main].at = "execute"]
    /\ UNCHANGED <<history, loaded, cronVars, starting, consumers, stale, rigid, faults>>

\* The table is locked: the scripts are registered, and Init goes on.
LockDb(p) ==
    /\ process[p] = "locking"
    /\ Owner = {}
    /\ executed' = loaded[p]
    /\ pending' = Script \ loaded[p]
    /\ stale' = (loaded[p] # history)
    /\ loaded' = [loaded EXCEPT ![p] = {}]
    /\ LET confirm == executed' # {} /\ pending' # {} /\ ~force IN
       /\ process' = [process EXCEPT ![p] = IF confirm THEN "serving" ELSE "starting"]
       /\ migrating' = IF confirm THEN migrating
                       ELSE [migrating EXCEPT ![Main].at = "execute"]
    /\ UNCHANGED <<history, cronVars, starting, consumers, rigid, faults>>

\* The lock is not obtained in two seconds: Init panics.
LockTimeout(p) ==
    /\ process[p] = "locking"
    /\ Owner # {}
    /\ process' = [process EXCEPT ![p] = "off"]
    /\ loaded' = [loaded EXCEPT ![p] = {}]
    /\ UNCHANGED <<migrator, cronVars, starting, consumers, stale, rigid, faults>>

\* The process with the lock ends: its memory is lost and the lock is free.
Ends ==
    /\ process' = [p \in Process |-> IF p \in Owner THEN "off" ELSE process[p]]
    /\ executed' = {} /\ pending' = {}
    /\ migrating' = [g \in Goroutine |-> NotMigrating]
    /\ crons' = <<>>
    /\ reloading' = [g \in Goroutine |-> NotReloading]
    /\ unsynced' = FALSE
    /\ starting' = [g \in Goroutine |-> "no"]
    /\ consumers' = 0
    /\ stale' = FALSE
    /\ UNCHANGED <<history, blueprints, loaded, rigid>>

Crash == Owner # {} /\ Fault /\ Ends

-----------------------------------------------------------------------------
(* ExecuteMigration, by Main in Init and by the handlers that confirm.      *)

\* A fault: nobody asks whether something is pending.
ProceedAlways(g) ==
    /\ Serving /\ g \in Handlers /\ ~Active(g)
    /\ overlapping \/ \A h \in Goroutine : ~Executing(h)
    /\ migrating' = [migrating EXCEPT ![g].at = "execute"]
    /\ UNCHANGED <<history, executed, pending, cronVars, own, rigid, faults>>

\* /proceed-db-migration, which does nothing if nothing is pending.
Proceed(g) ==
    /\ Serving /\ g \in Handlers /\ ~Active(g)
    /\ HasPendingScripts
    /\ overlapping \/ \A h \in Goroutine : ~Executing(h)
    /\ migrating' = [migrating EXCEPT ![g].at = "execute"]
    /\ UNCHANGED <<history, executed, pending, cronVars, own, rigid, faults>>

MigratorStep(g) ==
    /\ Execute(g) \/ Up(g) \/ Record(g) \/ RecordRefused(g)
    /\ UNCHANGED <<cronVars, own, rigid, faults>>

MigratorFails(g) ==
    /\ ExecuteFails(g) /\ Fault
    /\ UNCHANGED <<cronVars, own, rigid>>

\* A new cron manager.
NewCronManager(g) ==
    /\ migrating[g].at = "done"
    /\ crons' = Append(crons, NewCron)
    /\ migrating' = [migrating EXCEPT ![g] = NotMigrating]
    /\ starting' = [starting EXCEPT ![g] = "reset"]
    /\ unsynced' = TRUE
    /\ UNCHANGED <<history, executed, pending, blueprints, reloading>>
    /\ UNCHANGED <<process, loaded, consumers, stale, rigid, faults>>

\* pipelineServiceInit, up to the call of ReloadBlueprints.
ResetPipelines(g) ==
    /\ starting[g] = "reset"
    /\ reloading' = CallReload(reloading, g)
    /\ starting' = [starting EXCEPT ![g] = "reload"]
    /\ UNCHANGED <<migrator, blueprints, crons, unsynced>>
    /\ UNCHANGED <<process, loaded, consumers, stale, rigid, faults>>

\* Its end. Init returns, or the request is answered.
StartConsumer(g) ==
    /\ starting[g] = "reload" /\ reloading[g].at = "idle"
    /\ consumers' = consumers + 1
    /\ starting' = [starting EXCEPT ![g] = "no"]
    /\ process' = IF g = Main THEN [p \in Process |-> IF p \in Owner THEN "serving" ELSE process[p]]
                  ELSE process
    /\ UNCHANGED <<migrator, cronVars, loaded, stale, rigid, faults>>

\* An error of the reset panics.
ResetFails(g) ==
    /\ starting[g] = "reset" /\ Fault
    /\ starting' = [starting EXCEPT ![g] = "failed"]
    /\ UNCHANGED <<migrator, cronVars, process, loaded, consumers, stale, rigid>>

-----------------------------------------------------------------------------
(* Handlers of blueprints and projects.                                     *)

\* CreateBlueprint and PatchBlueprint; the gate was passed some time ago.
SaveBlueprint(g) ==
    /\ GateIsOpen /\ g \in Handlers /\ ~Active(g)
    /\ \E b \in Blueprint, on \in BOOLEAN : Change(b, on)
    /\ reloading' = CallReload(Disturbed, g)
    /\ UNCHANGED <<migrator, crons, own, rigid, faults>>

\* The update is done, that of the labels fails.
SaveBlueprintFails(g) ==
    /\ GateIsOpen /\ g \in Handlers /\ ~Active(g) /\ Fault
    /\ \E b \in Blueprint, on \in BOOLEAN : Change(b, on)
    /\ reloading' = Disturbed
    /\ UNCHANGED <<migrator, crons, own, rigid>>

\* PatchProject enables or disables its blueprint and reloads nothing.
PatchProject ==
    /\ GateIsOpen
    /\ \E b \in Blueprint, on \in BOOLEAN : (b \in enabled) # on /\ Change(b, on)
    /\ reloading' = Disturbed
    /\ UNCHANGED <<migrator, crons, own, rigid, faults>>

Reload(g) ==
    /\ ReloadStep(g)
    /\ UNCHANGED <<migrator, own, rigid, faults>>

ReloadFails(g) ==
    /\ ReloadReadFails(g) /\ Fault
    /\ UNCHANGED <<migrator, own, rigid>>

\* An error of Main ends the process; one of a handler ends the handler.
Returns(g) ==
    /\ "failed" \in {migrating[g].at, reloading[g].at, starting[g]}
    /\ IF g = Main THEN Ends
       ELSE /\ migrating' = [migrating EXCEPT ![g] = NotMigrating]
            /\ reloading' = [reloading EXCEPT ![g] = NotReloading]
            /\ starting' = [starting EXCEPT ![g] = "no"]
            /\ UNCHANGED <<history, executed, pending, blueprints, crons, unsynced>>
            /\ UNCHANGED <<process, loaded, consumers, stale, rigid>>
    /\ UNCHANGED faults

-----------------------------------------------------------------------------
Goes(g) ==
    \/ MigratorStep(g) \/ NewCronManager(g) \/ ResetPipelines(g) \/ StartConsumer(g)
    \/ Reload(g) \/ Returns(g)

Next ==
    \/ \E p \in Process : InitResources(p) \/ LockDb(p) \/ LockTimeout(p)
    \/ Crash
    \/ PatchProject
    \/ \E g \in Goroutine :
        \/ Goes(g) \/ Proceed(g)
        \/ MigratorFails(g) \/ ResetFails(g) \/ ReloadFails(g)
        \/ SaveBlueprint(g) \/ SaveBlueprintFails(g)

Spec == Init /\ [][Next]_vars

\* Processes are started again, goroutines go on, and somebody confirms.
FairSpec ==
    /\ Spec
    /\ \A p \in Process : WF_vars(InitResources(p)) /\ WF_vars(LockDb(p))
    /\ \A g \in Goroutine : WF_vars(Goes(g))
    /\ WF_vars(\E g \in Goroutine : Proceed(g))

-----------------------------------------------------------------------------
TypeOK ==
    /\ history \subseteq Script /\ executed \subseteq Script /\ pending \subseteq Script
    /\ \A g \in Goroutine :
          /\ migrating[g].at \in {"idle", "execute", "up", "record", "done", "failed"}
          /\ migrating[g].left \subseteq Script
          /\ migrating[g].at \in {"up", "record"} => migrating[g].left # {}
          /\ reloading[g].at \in {"idle", "read", "remove", "stop", "add", "failed"}
          /\ reloading[g].cron \in 0 .. CronManager
          /\ reloading[g].list \subseteq Job
          /\ starting[g] \in {"no", "reset", "reload", "failed"}
    /\ enabled \subseteq Blueprint
    /\ version \in [Blueprint -> 0 .. MaxChanges]
    /\ \A c \in 1 .. CronManager : crons[c].jobs \in [Job -> Nat]
    /\ process \in [Process -> {"off", "locking", "starting", "serving"}]
    /\ Cardinality(Owner) <= 1
    /\ consumers \in Nat
    /\ faults \in 0 .. MaxFaults

Applying(g) == migrating[g].at \in {"up", "record"}

\* A script is applied only when all scripts of lower versions are recorded,
\* whatever failed before and whoever else executes.
InOrder ==
    \A g \in Goroutine : Applying(g) =>
        \A s \in Script : s < FirstOf(migrating[g].left) => s \in history

\* A recorded script is not applied again, unless confirmations overlap or the
\* process read the history before another one, which had the lock, went on.
NotAgain ==
    overlapping \/ stale \/
        \A g \in Goroutine : migrating[g].at = "up" => FirstOf(migrating[g].left) \notin history

\* The loop that runs pipelines is started once in a process, unless
\* confirmations overlap: a second loop would have permits of its own.
OneConsumer == overlapping \/ consumers <= 1

\* No goroutine is at work, and the services were started as often as there
\* are cron managers.
Scheduling ==
    consumers > 0 /\ consumers = CronManager /\ \A g \in Goroutine : ~Active(g)

\* However reloads interleave, a blueprint that was never changed, and is on the
\* first page whatever else is enabled, ends up with a job in a running cron.
NoneForgotten ==
    Scheduling =>
        \A b \in FirstPage(Blueprint) : b \in enabled /\ version[b] = 0 =>
            crons[CronManager].running /\ crons[CronManager].jobs[<<b, 0>>] > 0

\* After a reload that nothing disturbed the jobs are the enabled blueprints.
ScheduleMatches ==
    Scheduling /\ ~unsynced =>
        /\ crons[CronManager].jobs =
               [j \in Job |-> IF j[1] \in FirstPage(enabled) /\ j[2] = version[j[1]] THEN 1 ELSE 0]
        /\ crons[CronManager].running = (enabled # {})

\* Requests are served, and pipelines are run.
Ready == GateIsOpen /\ consumers > 0

\* What only a restart by hand ends: the services failed to start after the last
\* script was recorded, so that nothing can be confirmed any more; or the process
\* has recorded scripts among the pending ones, and each confirmation fails.
Stuck ==
    \/ GateIsOpen /\ consumers = 0 /\ \A g \in Goroutine : ~Executing(g)
    \/ stale /\ HasPendingScripts

\* Whatever fails a finite number of times, the server gets ready or is stuck in
\* one of the two ways above.
EventuallyReady == <>[](Ready \/ Stuck)
=============================================================================
