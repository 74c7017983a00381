---------------------------- MODULE ServerProofs ----------------------------
(***************************************************************************)
(* Proofs about Server: its types, and the execution of migrations: scripts *)
(* are applied in order, none is applied again and the services are started *)
(* once.                                                                    *)
(***************************************************************************)
EXTENDS Server, FiniteSetTheorems, WellFoundedInduction, TLAPS

Places == {"idle", "execute", "up", "record", "done", "failed"}
ExecuteState == [at : Places, left : SUBSET Script]
Cron == [running : BOOLEAN, jobs : [Job -> Nat]]
ReloadState ==
    [at : {"idle", "read", "remove", "stop", "add", "failed"}, cron : Nat,
     list : SUBSET Job, any : BOOLEAN, alone : BOOLEAN]

\* The reloads that have read the blueprints and work on their cron.
AtWork == {"remove", "stop", "add"}

TypedMigrator ==
    /\ history \in SUBSET Script /\ executed \in SUBSET Script /\ pending \in SUBSET Script
    /\ migrating \in [Goroutine -> ExecuteState]
    /\ \A g \in Goroutine : Applying(g) => migrating[g].left # {}

\* A reload works on a cron that there is.
TypedCron ==
    /\ enabled \in SUBSET Blueprint
    /\ version \in [Blueprint -> 0 .. MaxChanges]
    /\ crons \in Seq(Cron)
    /\ reloading \in [Goroutine -> ReloadState]
    /\ \A g \in Goroutine : reloading[g].cron \in 0 .. CronManager
    /\ \A g \in Goroutine : reloading[g].at \in AtWork => reloading[g].cron > 0
    /\ unsynced \in BOOLEAN

\* One process has the lock.
TypedProcesses ==
    /\ process \in [Process -> {"off", "locking", "starting", "serving"}]
    /\ loaded \in [Process -> SUBSET Script]
    /\ \A p, q \in Owner : p = q
    /\ starting \in [Goroutine -> {"no", "reset", "reload", "failed"}]
    /\ consumers \in Nat
    /\ stale \in BOOLEAN /\ force \in BOOLEAN /\ overlapping \in BOOLEAN
    /\ faults \in 0 .. MaxFaults

TypeInv == TypedMigrator /\ TypedCron /\ TypedProcesses

-----------------------------------------------------------------------------
(* Operators of the model.                                                  *)

\* Min finds the first script of those that are left.
LEMMA FirstIsLeast ==
    ASSUME NEW S \in SUBSET Nat, S # {}
    PROVE  FirstOf(S) \in S /\ \A s \in S : FirstOf(S) <= s
<1>1. PICK x \in S : \A y \in S : ~(<<y, x>> \in OpToRel(<, Nat))
  BY NatLessThanWellFounded, WFMin
<1>2. \A y \in S : ~(y < x)
  BY <1>1 DEF OpToRel
<1>3. \E s \in S : \A t \in S : s =< t
  BY <1>2
<1> QED
  BY <1>3 DEF FirstOf, Min

\* Of a set of scripts that is not empty too.
LEMMA FirstScript ==
    ASSUME NEW S \in SUBSET Script, S # {}
    PROVE  /\ FirstOf(S) \in S /\ FirstOf(S) \in Script
           /\ \A s \in S : FirstOf(S) <= s
           /\ \A s \in S : s # FirstOf(S) => FirstOf(S) < s
<1>1. S \in SUBSET Nat
  BY ScriptAssumption
<1>2. FirstOf(S) \in S /\ \A s \in S : FirstOf(S) <= s
  BY <1>1, FirstIsLeast
<1>3. FirstOf(S) \in Nat /\ \A s \in S : s \in Nat
  BY <1>1, <1>2
<1>4. \A s \in S : s # FirstOf(S) => FirstOf(S) < s
  BY <1>2, <1>3
<1> QED
  BY <1>2, <1>4

\* The places of a range that goes on.
LEMMA ContinuesType ==
    ASSUME NEW left \in SUBSET Script
    PROVE  /\ Continues(left) \in ExecuteState
           /\ Continues(left).left = left
           /\ Continues(left).at \in {"done", "up"}
           /\ Continues(left).at = "done" <=> left = {}
  BY DEF Continues, ExecuteState, Places

LEMMA JobIsFinite == IsFiniteSet(Job)
<1>1. IsFiniteSet(0 .. MaxChanges)
  BY FS_Interval, BlueprintAssumption
<1> QED
  BY <1>1, FS_Product, BlueprintAssumption DEF Job

\* A blueprint was changed at most as often as all of them together.
LEMMA VersionBound ==
    ASSUME NEW V \in [Blueprint -> 0 .. MaxChanges], NEW b \in Blueprint,
           Cardinality({j \in Job : j[2] < V[j[1]]}) < MaxChanges
    PROVE  V[b] < MaxChanges
<1> DEFINE S == {j \in Job : j[2] < V[j[1]]}
           N == 0 .. (MaxChanges - 1)
<1>1. MaxChanges \in Nat /\ V[b] \in 0 .. MaxChanges
  BY BlueprintAssumption
<1>2. SUFFICES ASSUME V[b] = MaxChanges PROVE FALSE
  BY <1>1
<1>3. IsFiniteSet(S)
  BY JobIsFinite, FS_Subset
<1>4. IsFiniteSet(N) /\ Cardinality(N) = MaxChanges
  <2>1. MaxChanges - 1 \in Int /\ 0 \in Int
    BY <1>1
  <2>2. IsFiniteSet(N)
    BY <2>1, FS_Interval
  <2>3. Cardinality(N) = IF 0 > MaxChanges - 1 THEN 0 ELSE MaxChanges - 1 - 0 + 1
    BY <2>1, FS_Interval
  <2> HIDE DEF N
  <2> QED
    BY <1>1, <2>2, <2>3
<1>5. \A i \in N : <<b, i>> \in S
  BY <1>1, <1>2 DEF Job
<1> DEFINE f == [i \in N |-> <<b, i>>]
<1>6. f \in Injection(N, S)
  BY <1>5 DEF Injection, IsInjective
<1>7. Cardinality(N) <= Cardinality(S)
  BY <1>3, <1>4, <1>6, FS_Injection
<1>8. Cardinality(S) \in Nat
  BY <1>3, FS_CardinalityType
<1> QED
  BY <1>1, <1>4, <1>7, <1>8

\* The states of calls that are made from others.
LEMMA StateTypes ==
    /\ NotMigrating \in ExecuteState
    /\ NotReloading \in ReloadState
    /\ NewCron \in Cron
    /\ NewCron.running = FALSE
    /\ NewCron.jobs = [j \in Job |-> 0]
<1>1. [j \in Job |-> 0] \in [Job -> Nat]
  OBVIOUS
<1> QED
  BY <1>1 DEF NotMigrating, NotReloading, NewCron, ExecuteState, Places, ReloadState, Cron

-----------------------------------------------------------------------------
(* Types.                                                                   *)

\* The initial states.
LEMMA TypeInit ==
    ASSUME Init
    PROVE  TypeInv
<1>1. TypedMigrator
  BY StateTypes DEF Init, TypedMigrator, Applying, NotMigrating
<1>2. TypedCron
  <2>1. /\ enabled = FirstEnabled /\ version = [b \in Blueprint |-> 0] /\ crons = <<>>
        /\ reloading = [x \in Goroutine |-> NotReloading] /\ unsynced = FALSE
    BY ServerAssumption DEF Init, CronInit
  <2>2. enabled \in SUBSET Blueprint /\ version \in [Blueprint -> 0 .. MaxChanges]
    BY <2>1, BlueprintAssumption
  <2>3. crons \in Seq(Cron) /\ CronManager = 0
    BY <2>1 DEF CronManager
  <2>4. \A g \in Goroutine : reloading[g].at = "idle" /\ reloading[g].cron = 0
    BY <2>1 DEF NotReloading
  <2>5. reloading \in [Goroutine -> ReloadState]
    BY <2>1, StateTypes
  <2>6. \A g \in Goroutine : reloading[g].cron \in 0 .. CronManager
    BY <2>3, <2>4
  <2>7. \A g \in Goroutine : reloading[g].at \notin AtWork
    BY <2>4 DEF AtWork
  <2>8. unsynced \in BOOLEAN
    BY <2>1
  <2> QED
    BY <2>2, <2>3, <2>5, <2>6, <2>7, <2>8 DEF TypedCron
<1>3. TypedProcesses
  <2>1. Owner = {}
    BY DEF Init, Owner
  <2>2. /\ process \in [Process -> {"off", "locking", "starting", "serving"}]
        /\ loaded \in [Process -> SUBSET Script]
        /\ starting \in [Goroutine -> {"no", "reset", "reload", "failed"}]
    BY DEF Init
  <2>3. stale \in BOOLEAN /\ force \in BOOLEAN /\ overlapping \in BOOLEAN
    BY DEF Init
  <2>4. MaxFaults \in Nat /\ faults = 0 /\ consumers = 0
    BY ServerAssumption DEF Init
  <2>5. consumers \in Nat /\ faults \in 0 .. MaxFaults
    BY <2>4
  <2> QED
    BY <2>1, <2>2, <2>3, <2>5 DEF TypedProcesses
<1> QED
  BY <1>1, <1>2, <1>3 DEF TypeInv

\* One call of Execute changes.
LEMMA MigratingChange ==
    ASSUME TypedMigrator, NEW g \in Goroutine, NEW t \in ExecuteState,
           t.at \in {"up", "record"} => t.left # {},
           migrating' = [migrating EXCEPT ![g] = t],
           history' \in SUBSET Script, executed' \in SUBSET Script, pending' \in SUBSET Script
    PROVE  TypedMigrator'
<1>1. migrating' \in [Goroutine -> ExecuteState]
  BY DEF TypedMigrator
<1>2. \A h \in Goroutine : migrating'[h] = IF h = g THEN t ELSE migrating[h]
  BY DEF TypedMigrator
<1>3. \A h \in Goroutine : Applying(h)' => migrating'[h].left # {}
  BY <1>2 DEF TypedMigrator, Applying
<1> QED
  BY <1>1, <1>3 DEF TypedMigrator

\* No call of Execute changes.
LEMMA MigratorSame ==
    ASSUME TypedMigrator, UNCHANGED migrator
    PROVE  TypedMigrator'
  BY DEF TypedMigrator, migrator, Applying

\* One reload changes, and the crons stay as many as they are.
LEMMA ReloadingChange ==
    ASSUME TypedCron, NEW x \in Goroutine, NEW t \in ReloadState,
           t.cron \in 0 .. CronManager, t.at \in AtWork => t.cron > 0,
           reloading' = [reloading EXCEPT ![x] = t],
           crons' \in Seq(Cron), CronManager' = CronManager,
           UNCHANGED blueprints, unsynced' \in BOOLEAN
    PROVE  TypedCron'
<1>1. reloading' \in [Goroutine -> ReloadState]
  BY DEF TypedCron
<1>2. \A h \in Goroutine : reloading'[h] = IF h = x THEN t ELSE reloading[h]
  BY DEF TypedCron
<1>3. \A h \in Goroutine : reloading'[h].cron \in 0 .. CronManager'
  BY <1>2 DEF TypedCron
<1>4. \A h \in Goroutine : reloading'[h].at \in AtWork => reloading'[h].cron > 0
  BY <1>2 DEF TypedCron
<1> QED
  BY <1>1, <1>3, <1>4 DEF TypedCron, blueprints

\* No reload changes.
LEMMA CronSame ==
    ASSUME TypedCron, UNCHANGED cronVars
    PROVE  TypedCron'
  BY DEF TypedCron, cronVars, blueprints, CronManager

\* The processes stay as they are.
LEMMA ProcessesSame ==
    ASSUME TypedProcesses, UNCHANGED <<own, rigid>>, faults' \in 0 .. MaxFaults
    PROVE  TypedProcesses'
  BY DEF TypedProcesses, own, rigid, Owner

\* A fault is counted.
LEMMA FaultType ==
    ASSUME TypedProcesses, Fault
    PROVE  faults' \in 0 .. MaxFaults
  BY ServerAssumption DEF TypedProcesses, Fault

\* Reloads lose their claim to be alone.
LEMMA DisturbedType ==
    ASSUME TypedCron
    PROVE  /\ Disturbed \in [Goroutine -> ReloadState]
           /\ \A x \in Goroutine :
                /\ Disturbed[x].at = reloading[x].at /\ Disturbed[x].cron = reloading[x].cron
                /\ Disturbed[x].list = reloading[x].list /\ Disturbed[x].any = reloading[x].any
                /\ Disturbed[x].alone = FALSE
                /\ Disturbed[x] = [reloading[x] EXCEPT !.alone = FALSE]
<1>1. \A x \in Goroutine : reloading[x] \in ReloadState
  BY DEF TypedCron
<1>2. Disturbed = [x \in Goroutine |-> [reloading[x] EXCEPT !.alone = FALSE]]
  BY ServerAssumption DEF Disturbed
<1>3. ASSUME NEW x \in Goroutine
      PROVE  /\ Disturbed[x] = [reloading[x] EXCEPT !.alone = FALSE]
             /\ Disturbed[x] \in ReloadState
             /\ Disturbed[x].at = reloading[x].at /\ Disturbed[x].cron = reloading[x].cron
             /\ Disturbed[x].list = reloading[x].list /\ Disturbed[x].any = reloading[x].any
             /\ Disturbed[x].alone = FALSE
  <2>1. Disturbed[x] = [reloading[x] EXCEPT !.alone = FALSE]
    BY <1>2
  <2> QED
    BY <1>1, <2>1 DEF ReloadState
<1>4. Disturbed \in [Goroutine -> ReloadState]
  BY <1>2, <1>3
<1> QED
  BY <1>3, <1>4

\* The calls of ReloadBlueprints with one more.
LEMMA CallType ==
    ASSUME TypedCron, NEW calls \in [Goroutine -> ReloadState], NEW x \in Goroutine
    PROVE  LET t == CallReload(calls, x)[x] IN
           /\ t \in ReloadState /\ t.at = "read" /\ t.cron = CronManager
           /\ t.list = {} /\ t.alone = FALSE
           /\ CallReload(calls, x) = [calls EXCEPT ![x] = t]
           /\ CallReload(calls, x) \in [Goroutine -> ReloadState]
           /\ \A h \in Goroutine : h # x => CallReload(calls, x)[h] = calls[h]
<1> DEFINE n == [NotReloading EXCEPT !.at = "read", !.cron = CronManager]
<1>1. CronManager \in Nat
  BY DEF TypedCron, CronManager
<1>2. n \in ReloadState /\ n.at = "read" /\ n.cron = CronManager /\ n.list = {} /\ n.alone = FALSE
  BY <1>1 DEF NotReloading, ReloadState
<1>3. CallReload(calls, x) = [calls EXCEPT ![x] = n]
  BY DEF CallReload
<1> HIDE DEF n
<1>4. CallReload(calls, x)[x] = n
  BY <1>3
<1> QED
  BY <1>2, <1>3, <1>4

\* A change of a blueprint keeps the types.
LEMMA ChangeType ==
    ASSUME TypedCron, NEW b \in Blueprint, NEW on \in BOOLEAN, Change(b, on)
    PROVE  /\ enabled' \in SUBSET Blueprint
           /\ version' \in [Blueprint -> 0 .. MaxChanges]
           /\ version' = [version EXCEPT ![b] = @ + 1]
           /\ unsynced' = TRUE
<1>1. version[b] \in 0 .. MaxChanges /\ MaxChanges \in Nat
  BY BlueprintAssumption DEF TypedCron
<1>2. Cardinality({j \in Job : j[2] < version[j[1]]}) < MaxChanges
  BY DEF Change, Changes
<1>3. version[b] < MaxChanges
  BY <1>2, VersionBound DEF TypedCron
<1>4. version' = [version EXCEPT ![b] = @ + 1] /\ unsynced' = TRUE
  BY DEF Change
<1>5. version' \in [Blueprint -> 0 .. MaxChanges]
  BY <1>1, <1>3, <1>4 DEF TypedCron
<1>6. enabled' \in SUBSET Blueprint
  BY DEF Change, TypedCron
<1> QED
  BY <1>4, <1>5, <1>6

\* So does a change while the calls of ReloadBlueprints become others.
LEMMA CallsAfterChange ==
    ASSUME TypedCron, NEW b \in Blueprint, NEW on \in BOOLEAN, Change(b, on),
           reloading' \in [Goroutine -> ReloadState],
           \A x \in Goroutine :
              /\ reloading'[x].cron \in 0 .. CronManager
              /\ reloading'[x].at \in AtWork => reloading'[x].cron > 0,
           UNCHANGED crons
    PROVE  TypedCron'
<1>1. CronManager' = CronManager
  BY DEF CronManager
<1> QED
  BY <1>1, ChangeType DEF TypedCron

\* The owner of the lock changes.
LEMMA TypeInitResources ==
    ASSUME TypeInv, NEW p \in Process, InitResources(p)
    PROVE  TypeInv'
<1>1. TypedMigrator' /\ TypedCron'
  BY MigratorSame, CronSame DEF TypeInv, InitResources
<1>2. /\ process' = [process EXCEPT ![p] = "locking"] /\ process[p] = "off"
      /\ loaded' = [loaded EXCEPT ![p] = history]
  BY DEF InitResources
<1>3. /\ process' \in [Process -> {"off", "locking", "starting", "serving"}]
      /\ loaded' \in [Process -> SUBSET Script]
  BY <1>2 DEF TypeInv, TypedProcesses, TypedMigrator
<1>4. Owner' = Owner
  BY <1>2 DEF TypeInv, TypedProcesses, Owner
<1> QED
  BY <1>1, <1>3, <1>4 DEF TypeInv, TypedProcesses, InitResources, rigid

LEMMA TypeLockDb ==
    ASSUME TypeInv, NEW p \in Process, LockDb(p)
    PROVE  TypeInv'
<1> DEFINE confirm == executed' # {} /\ pending' # {} /\ ~force
           t == [migrating[Main] EXCEPT !.at = "execute"]
<1>1. /\ process[p] = "locking" /\ Owner = {}
      /\ executed' = loaded[p] /\ pending' = Script \ loaded[p] /\ history' = history
      /\ stale' = (loaded[p] # history)
      /\ loaded' = [loaded EXCEPT ![p] = {}]
      /\ process' = [process EXCEPT ![p] = IF confirm THEN "serving" ELSE "starting"]
      /\ migrating' = IF confirm THEN migrating
                      ELSE [migrating EXCEPT ![Main].at = "execute"]
  BY DEF LockDb
<1>2. executed' \in SUBSET Script /\ pending' \in SUBSET Script /\ history' \in SUBSET Script
  BY <1>1 DEF TypeInv, TypedProcesses, TypedMigrator
<1>3. TypedMigrator'
  <2>1. CASE confirm
    <3>1. migrating' = migrating
      BY <1>1, <2>1
    <3> QED
      BY <1>2, <3>1 DEF TypeInv, TypedMigrator, Applying
  <2>2. CASE ~confirm
    <3>1. Main \in Goroutine
      BY ServerAssumption
    <3>2. migrating[Main] \in ExecuteState
      BY <3>1 DEF TypeInv, TypedMigrator
    <3>3. t \in ExecuteState /\ t.at = "execute"
      BY <3>2 DEF ExecuteState, Places
    <3>4. migrating' = [migrating EXCEPT ![Main] = t]
      BY <1>1, <2>2
    <3> HIDE DEF t
    <3> QED
      BY <1>2, <3>1, <3>3, <3>4, MigratingChange DEF TypeInv
  <2> QED
    BY <2>1, <2>2
<1>4. TypedCron'
  BY CronSame DEF TypeInv, LockDb
<1>5. TypedProcesses'
  <2>1. \A q \in Process : process'[q] \in {"starting", "serving"} => q = p
    <3>1. \A q \in Process : q # p => process'[q] = process[q]
      BY <1>1 DEF TypeInv, TypedProcesses
    <3> QED
      BY <1>1, <3>1 DEF Owner
  <2>2. \A q, r \in Owner' : q = r
    BY <2>1 DEF Owner
  <2>3. /\ process' \in [Process -> {"off", "locking", "starting", "serving"}]
        /\ loaded' \in [Process -> SUBSET Script] /\ stale' \in BOOLEAN
    BY <1>1 DEF TypeInv, TypedProcesses
  <2> QED
    BY <2>2, <2>3 DEF TypeInv, TypedProcesses, LockDb, rigid
<1> QED
  BY <1>3, <1>4, <1>5 DEF TypeInv

LEMMA TypeLockTimeout ==
    ASSUME TypeInv, NEW p \in Process, LockTimeout(p)
    PROVE  TypeInv'
<1>1. TypedMigrator' /\ TypedCron'
  BY MigratorSame, CronSame DEF TypeInv, LockTimeout
<1>2. /\ process' = [process EXCEPT ![p] = "off"] /\ process[p] = "locking"
      /\ loaded' = [loaded EXCEPT ![p] = {}]
  BY DEF LockTimeout
<1>3. /\ process' \in [Process -> {"off", "locking", "starting", "serving"}]
      /\ loaded' \in [Process -> SUBSET Script]
  BY <1>2 DEF TypeInv, TypedProcesses
<1>4. Owner' = Owner
  BY <1>2 DEF TypeInv, TypedProcesses, Owner
<1> QED
  BY <1>1, <1>3, <1>4 DEF TypeInv, TypedProcesses, LockTimeout, rigid

\* After the end of the process with the lock everything is as at the start.
LEMMA TypeEnds ==
    ASSUME TypeInv, Ends, faults' \in 0 .. MaxFaults
    PROVE  TypeInv'
<1>1. TypedMigrator'
  <2>1. /\ migrating' = [g \in Goroutine |-> NotMigrating] /\ UNCHANGED history
        /\ executed' = {} /\ pending' = {}
    BY DEF Ends
  <2>2. \A g \in Goroutine : migrating'[g].at = "idle"
    BY <2>1 DEF NotMigrating
  <2>3. \A g \in Goroutine : ~Applying(g)'
    BY <2>2 DEF Applying
  <2>4. migrating' \in [Goroutine -> ExecuteState]
    BY <2>1, StateTypes
  <2>5. history' \in SUBSET Script
    BY <2>1 DEF TypeInv, TypedMigrator
  <2> QED
    BY <2>1, <2>3, <2>4, <2>5 DEF TypedMigrator
<1>2. TypedCron'
  <2>1. /\ crons' = <<>> /\ unsynced' = FALSE /\ UNCHANGED blueprints
        /\ reloading' = [g \in Goroutine |-> NotReloading]
    BY DEF Ends
  <2>2. \A g \in Goroutine : reloading'[g].at = "idle" /\ reloading'[g].cron = 0
    BY <2>1 DEF NotReloading
  <2>3. CronManager' = 0 /\ crons' \in Seq(Cron)
    BY <2>1 DEF CronManager
  <2>4. \A g \in Goroutine : reloading'[g].cron \in 0 .. CronManager'
    BY <2>2, <2>3
  <2>5. \A g \in Goroutine : reloading'[g].at \notin AtWork
    BY <2>2 DEF AtWork
  <2>6. reloading' \in [Goroutine -> ReloadState]
    BY <2>1, StateTypes
  <2>7. enabled' \in SUBSET Blueprint /\ version' \in [Blueprint -> 0 .. MaxChanges]
    BY <2>1 DEF TypeInv, TypedCron, blueprints
  <2> QED
    BY <2>1, <2>3, <2>4, <2>5, <2>6, <2>7 DEF TypedCron
<1>3. TypedProcesses'
  <2>1. /\ process' = [p \in Process |-> IF p \in Owner THEN "off" ELSE process[p]]
        /\ starting' = [g \in Goroutine |-> "no"] /\ consumers' = 0 /\ stale' = FALSE
        /\ UNCHANGED <<loaded, rigid>>
    BY DEF Ends
  <2>2. process' \in [Process -> {"off", "locking", "starting", "serving"}]
    BY <2>1 DEF TypeInv, TypedProcesses
  <2>3. \A p \in Process : process'[p] \notin {"starting", "serving"}
    BY <2>1 DEF Owner
  <2>4. Owner' = {}
    BY <2>3 DEF Owner
  <2>5. /\ starting' \in [Goroutine -> {"no", "reset", "reload", "failed"}]
        /\ consumers' \in Nat /\ stale' \in BOOLEAN
    BY <2>1
  <2> QED
    BY <2>1, <2>2, <2>4, <2>5 DEF TypeInv, TypedProcesses, rigid
<1> QED
  BY <1>1, <1>2, <1>3 DEF TypeInv

\* A call of Execute starts, at a request.
LEMMA TypeProceed ==
    ASSUME TypeInv, NEW g \in Goroutine, Proceed(g)
    PROVE  TypeInv'
<1> DEFINE t == [migrating[g] EXCEPT !.at = "execute"]
<1>1. t \in ExecuteState /\ t.at = "execute"
  BY DEF TypeInv, TypedMigrator, ExecuteState, Places
<1>2. migrating' = [migrating EXCEPT ![g] = t] /\ UNCHANGED <<history, executed, pending>>
  BY DEF Proceed
<1> HIDE DEF t
<1>3. TypedMigrator'
  BY <1>1, <1>2, MigratingChange DEF TypeInv, TypedMigrator
<1> QED
  BY <1>3, CronSame, ProcessesSame DEF TypeInv, TypedProcesses, Proceed

\* The steps of Execute.
LEMMA TypeMigrator ==
    ASSUME TypedMigrator, NEW g \in Goroutine,
           Execute(g) \/ Up(g) \/ Record(g) \/ RecordRefused(g) \/ ExecuteFails(g)
    PROVE  TypedMigrator'
<1>1. migrating[g] \in ExecuteState
  BY DEF TypedMigrator
<1>2. CASE Execute(g)
  <2> DEFINE t == Continues(pending)
  <2>1. migrating' = [migrating EXCEPT ![g] = t] /\ UNCHANGED <<history, executed, pending>>
    BY <1>2 DEF Execute
  <2>2. t \in ExecuteState /\ (t.at \in {"up", "record"} => t.left # {})
    BY ContinuesType DEF TypedMigrator
  <2> HIDE DEF t
  <2> QED
    BY <2>1, <2>2, MigratingChange DEF TypedMigrator
<1>3. CASE Up(g)
  <2> DEFINE t == [migrating[g] EXCEPT !.at = "record"]
  <2>1. migrating' = [migrating EXCEPT ![g] = t] /\ UNCHANGED <<history, executed, pending>>
    BY <1>3 DEF Up
  <2>2. migrating[g].left # {}
    BY <1>3 DEF Up, TypedMigrator, Applying
  <2>3. t \in ExecuteState /\ t.left # {}
    BY <1>1, <2>2 DEF ExecuteState, Places
  <2> HIDE DEF t
  <2> QED
    BY <2>1, <2>3, MigratingChange DEF TypedMigrator
<1>4. CASE Record(g)
  <2> DEFINE s == FirstOf(migrating[g].left)
             t == Continues(migrating[g].left \ {s})
  <2>1. migrating[g].left # {} /\ migrating[g].left \in SUBSET Script
    BY <1>1, <1>4 DEF Record, TypedMigrator, Applying, ExecuteState
  <2>2. s \in Script
    BY <2>1, FirstScript
  <2>3. /\ history' = history \cup {s} /\ executed' = executed \cup {s}
        /\ pending' = pending \ {FirstOf(pending)}
        /\ migrating' = [migrating EXCEPT ![g] = t]
    BY <1>4 DEF Record
  <2>4. t \in ExecuteState /\ (t.at \in {"up", "record"} => t.left # {})
    BY <2>1, ContinuesType
  <2>5. /\ history' \in SUBSET Script /\ executed' \in SUBSET Script
        /\ pending' \in SUBSET Script
    BY <2>2, <2>3 DEF TypedMigrator
  <2> HIDE DEF t
  <2> QED
    BY <2>3, <2>4, <2>5, MigratingChange
<1>5. CASE RecordRefused(g) \/ ExecuteFails(g)
  <2> DEFINE t == [migrating[g] EXCEPT !.at = "failed"]
  <2>1. migrating' = [migrating EXCEPT ![g] = t] /\ UNCHANGED <<history, executed, pending>>
    BY <1>5 DEF RecordRefused, ExecuteFails
  <2>2. t \in ExecuteState /\ t.at = "failed"
    BY <1>1 DEF ExecuteState, Places
  <2> HIDE DEF t
  <2> QED
    BY <2>1, <2>2, MigratingChange DEF TypedMigrator
<1> QED
  BY <1>2, <1>3, <1>4, <1>5

LEMMA TypeMigratorStep ==
    ASSUME TypeInv, NEW g \in Goroutine, MigratorStep(g) \/ MigratorFails(g)
    PROVE  TypeInv'
<1>1. TypedMigrator'
  BY TypeMigrator DEF TypeInv, MigratorStep, MigratorFails
<1>2. UNCHANGED <<cronVars, own, rigid>>
  BY DEF MigratorStep, MigratorFails
<1>3. faults' \in 0 .. MaxFaults
  BY FaultType DEF TypeInv, TypedProcesses, MigratorStep, MigratorFails
<1> QED
  BY <1>1, <1>2, <1>3, CronSame, ProcessesSame DEF TypeInv

\* The start of the services.
LEMMA StartingChange ==
    ASSUME TypedProcesses, NEW g \in Goroutine, NEW n \in {"no", "reset", "reload", "failed"},
           starting' = [starting EXCEPT ![g] = n], UNCHANGED <<process, loaded, stale, rigid>>,
           consumers' \in Nat, faults' \in 0 .. MaxFaults
    PROVE  TypedProcesses'
  BY DEF TypedProcesses, rigid, Owner

LEMMA TypeNewCronManager ==
    ASSUME TypeInv, NEW g \in Goroutine, NewCronManager(g)
    PROVE  TypeInv'
<1>1. TypedMigrator'
  <2>1. migrating' = [migrating EXCEPT ![g] = NotMigrating]
        /\ UNCHANGED <<history, executed, pending>>
    BY DEF NewCronManager
  <2>2. NotMigrating.at = "idle"
    BY DEF NotMigrating
  <2> QED
    BY <2>1, <2>2, StateTypes, MigratingChange DEF TypeInv, TypedMigrator
<1>2. TypedCron'
  <2>1. /\ crons' = Append(crons, NewCron) /\ unsynced' = TRUE
        /\ UNCHANGED <<blueprints, reloading>>
    BY DEF NewCronManager
  <2>2. crons \in Seq(Cron) /\ NewCron \in Cron
    BY StateTypes DEF TypeInv, TypedCron
  <2>3. crons' \in Seq(Cron) /\ CronManager' = CronManager + 1 /\ CronManager \in Nat
    BY <2>1, <2>2 DEF CronManager
  <2>4. \A h \in Goroutine : reloading'[h].cron \in 0 .. CronManager'
    BY <2>1, <2>3 DEF TypeInv, TypedCron
  <2> QED
    BY <2>1, <2>3, <2>4 DEF TypeInv, TypedCron, blueprints
<1>3. TypedProcesses'
  BY StartingChange DEF TypeInv, TypedProcesses, NewCronManager
<1> QED
  BY <1>1, <1>2, <1>3 DEF TypeInv

LEMMA TypeResetPipelines ==
    ASSUME TypeInv, NEW g \in Goroutine, ResetPipelines(g)
    PROVE  TypeInv'
<1>1. TypedMigrator'
  BY MigratorSame DEF TypeInv, ResetPipelines
<1>2. TypedCron'
  <2> DEFINE t == CallReload(reloading, g)[g]
  <2>1. /\ t \in ReloadState /\ t.at = "read" /\ t.cron = CronManager
        /\ reloading' = [reloading EXCEPT ![g] = t]
    BY CallType DEF TypeInv, TypedCron, ResetPipelines
  <2>2. t.cron \in 0 .. CronManager /\ t.at \notin AtWork
    BY <2>1 DEF TypeInv, TypedCron, CronManager, AtWork
  <2>3. UNCHANGED <<blueprints, crons, unsynced>>
    BY DEF ResetPipelines
  <2>4. CronManager' = CronManager /\ crons' \in Seq(Cron) /\ unsynced' \in BOOLEAN
    BY <2>3 DEF CronManager, TypeInv, TypedCron
  <2> HIDE DEF t
  <2> QED
    BY <2>1, <2>2, <2>3, <2>4, ReloadingChange DEF TypeInv
<1>3. TypedProcesses'
  BY StartingChange DEF TypeInv, TypedProcesses, ResetPipelines
<1> QED
  BY <1>1, <1>2, <1>3 DEF TypeInv

LEMMA TypeStartConsumer ==
    ASSUME TypeInv, NEW g \in Goroutine, StartConsumer(g)
    PROVE  TypeInv'
<1>1. TypedMigrator' /\ TypedCron'
  BY MigratorSame, CronSame DEF TypeInv, StartConsumer
<1>2. /\ starting' = [starting EXCEPT ![g] = "no"] /\ consumers' = consumers + 1
      /\ UNCHANGED <<loaded, stale, rigid, faults>>
      /\ process' = IF g = Main THEN [p \in Process |-> IF p \in Owner THEN "serving" ELSE process[p]]
                    ELSE process
  BY DEF StartConsumer
<1>3. process' \in [Process -> {"off", "locking", "starting", "serving"}]
  BY <1>2 DEF TypeInv, TypedProcesses
<1>4. \A p \in Process : process'[p] \in {"starting", "serving"} => p \in Owner
  BY <1>2 DEF TypeInv, TypedProcesses, Owner
<1>5. \A p, q \in Owner' : p = q
  BY <1>4 DEF TypeInv, TypedProcesses, Owner
<1>6. starting' \in [Goroutine -> {"no", "reset", "reload", "failed"}] /\ consumers' \in Nat
  BY <1>2 DEF TypeInv, TypedProcesses
<1>7. TypedProcesses'
  BY <1>2, <1>3, <1>5, <1>6 DEF TypeInv, TypedProcesses, rigid
<1> QED
  BY <1>1, <1>7 DEF TypeInv

LEMMA TypeResetFails ==
    ASSUME TypeInv, NEW g \in Goroutine, ResetFails(g)
    PROVE  TypeInv'
<1>1. TypedMigrator' /\ TypedCron'
  BY MigratorSame, CronSame DEF TypeInv, ResetFails
<1>2. TypedProcesses'
  BY FaultType, StartingChange DEF TypeInv, TypedProcesses, ResetFails
<1> QED
  BY <1>1, <1>2 DEF TypeInv

\* The handlers of blueprints.
LEMMA TypeBlueprints ==
    ASSUME TypeInv,
           PatchProject \/ \E g \in Goroutine : SaveBlueprint(g) \/ SaveBlueprintFails(g)
    PROVE  TypeInv'
<1>1. \A x \in Goroutine :
         /\ Disturbed[x].cron \in 0 .. CronManager
         /\ Disturbed[x].at \in AtWork => Disturbed[x].cron > 0
  BY DisturbedType DEF TypeInv, TypedCron
<1>2. Disturbed \in [Goroutine -> ReloadState]
  BY DisturbedType DEF TypeInv
<1>3. CASE PatchProject
  <2>1. PICK b \in Blueprint, on \in BOOLEAN : Change(b, on)
    BY <1>3 DEF PatchProject
  <2>2. reloading' = Disturbed /\ UNCHANGED <<migrator, crons, own, rigid, faults>>
    BY <1>3 DEF PatchProject
  <2>3. TypedCron'
    BY <1>1, <1>2, <2>1, <2>2, CallsAfterChange DEF TypeInv
  <2> QED
    BY <2>2, <2>3, MigratorSame, ProcessesSame DEF TypeInv, TypedProcesses
<1>4. ASSUME NEW g \in Goroutine, SaveBlueprint(g)
      PROVE  TypeInv'
  <2>1. PICK b \in Blueprint, on \in BOOLEAN : Change(b, on)
    BY <1>4 DEF SaveBlueprint
  <2>2. reloading' = CallReload(Disturbed, g) /\ UNCHANGED <<migrator, crons, own, rigid, faults>>
    BY <1>4 DEF SaveBlueprint
  <2> DEFINE t == CallReload(Disturbed, g)[g]
  <2>3. /\ t.at = "read" /\ t.cron = CronManager
        /\ reloading' \in [Goroutine -> ReloadState] /\ reloading'[g] = t
        /\ \A h \in Goroutine : h # g => reloading'[h] = Disturbed[h]
    <3>1. TypedCron
      BY DEF TypeInv
    <3>2. /\ t.at = "read" /\ t.cron = CronManager
          /\ CallReload(Disturbed, g) \in [Goroutine -> ReloadState]
          /\ \A h \in Goroutine : h # g => CallReload(Disturbed, g)[h] = Disturbed[h]
      BY <1>2, <3>1, CallType
    <3> QED
      BY <2>2, <3>2
  <2>4. t.cron \in 0 .. CronManager /\ t.at \notin AtWork
    BY <2>3 DEF TypeInv, TypedCron, CronManager, AtWork
  <2> HIDE DEF t
  <2>5. \A x \in Goroutine :
           /\ reloading'[x].cron \in 0 .. CronManager
           /\ reloading'[x].at \in AtWork => reloading'[x].cron > 0
    BY <1>1, <2>3, <2>4
  <2>6. TypedCron'
    BY <2>1, <2>2, <2>3, <2>5, CallsAfterChange DEF TypeInv
  <2> QED
    BY <2>2, <2>6, MigratorSame, ProcessesSame DEF TypeInv, TypedProcesses
<1>5. ASSUME NEW g \in Goroutine, SaveBlueprintFails(g)
      PROVE  TypeInv'
  <2>1. PICK b \in Blueprint, on \in BOOLEAN : Change(b, on)
    BY <1>5 DEF SaveBlueprintFails
  <2>2. reloading' = Disturbed /\ UNCHANGED <<migrator, crons, own, rigid>>
    BY <1>5 DEF SaveBlueprintFails
  <2>3. TypedCron'
    BY <1>1, <1>2, <2>1, <2>2, CallsAfterChange DEF TypeInv
  <2>4. faults' \in 0 .. MaxFaults
    BY <1>5, FaultType DEF TypeInv, SaveBlueprintFails
  <2> QED
    BY <2>2, <2>3, <2>4, MigratorSame, ProcessesSame DEF TypeInv
<1> QED
  BY <1>3, <1>4, <1>5

\* What is read of the blueprints.
LEMMA ListType ==
    ASSUME TypedCron
    PROVE  {<<b, version[b]>> : b \in FirstPage(enabled)} \in SUBSET Job
<1>1. ASSUME NEW b \in FirstPage(enabled)
      PROVE  <<b, version[b]>> \in Job
  <2>1. b \in Blueprint
    BY DEF FirstPage, TypedCron
  <2>2. version[b] \in 0 .. MaxChanges
    BY <2>1 DEF TypedCron
  <2> QED
    BY <2>1, <2>2 DEF Job
<1> QED
  BY <1>1

\* The steps of ReloadBlueprints.
LEMMA TypeReload ==
    ASSUME TypedCron, NEW x \in Goroutine, ReloadStep(x) \/ ReloadReadFails(x)
    PROVE  TypedCron'
<1> DEFINE r == reloading[x]
           c == r.cron
<1>1. r \in ReloadState /\ c \in 0 .. CronManager /\ CronManager \in Nat
  BY DEF TypedCron, CronManager
<1>2. CASE ReloadRead(x)
  <2> DEFINE list == {<<b, version[b]>> : b \in FirstPage(enabled)}
             d == Disturbed[x]
             t == IF d.cron = 0 THEN [d EXCEPT !.at = "failed"]
                  ELSE [d EXCEPT !.at = "remove", !.list = list, !.any = enabled # {},
                                 !.alone = \A y \in Reloader \ {x} : ~Reloads(y)]
  <2>1. /\ reloading' = [Disturbed EXCEPT ![x] = t]
        /\ UNCHANGED <<blueprints, crons, unsynced>>
    BY <1>2 DEF ReloadRead
  <2>2. d \in ReloadState /\ d.cron = c /\ list \in SUBSET Job
    BY DisturbedType, ListType
  <2>3. (\A y \in Reloader \ {x} : ~Reloads(y)) \in BOOLEAN /\ (enabled # {}) \in BOOLEAN
    OBVIOUS
  <2> HIDE DEF list, d
  <2>4. t \in ReloadState /\ t.cron = c /\ (t.at \in AtWork => c # 0)
    <3>1. CASE d.cron = 0
      BY <2>2, <3>1 DEF ReloadState, AtWork
    <3>2. CASE d.cron # 0
      <4> DEFINE alone == \A y \in Reloader \ {x} : ~Reloads(y)
      <4>1. t = [d EXCEPT !.at = "remove", !.list = list, !.any = (enabled # {}), !.alone = alone]
        BY <3>2
      <4>2. alone \in BOOLEAN
        BY <2>3
      <4> HIDE DEF alone, t
      <4> QED
        BY <2>2, <2>3, <3>2, <4>1, <4>2 DEF ReloadState
    <3> QED
      BY <3>1, <3>2
  <2> HIDE DEF t
  <2>5. Disturbed \in [Goroutine -> ReloadState]
    BY DisturbedType
  <2>6. reloading' \in [Goroutine -> ReloadState]
    BY <2>1, <2>4, <2>5
  <2>7. \A h \in Goroutine : reloading'[h] = IF h = x THEN t ELSE Disturbed[h]
    BY <2>1, <2>5
  <2>8. CronManager' = CronManager
    BY <2>1 DEF CronManager
  <2>9. \A h \in Goroutine : reloading'[h].cron \in 0 .. CronManager'
    BY <1>1, <2>4, <2>7, <2>8, DisturbedType DEF TypedCron
  <2>10. \A h \in Goroutine : reloading'[h].at \in AtWork => reloading'[h].cron > 0
    <3>1. t.at \in AtWork => t.cron > 0
      BY <1>1, <2>4
    <3>2. \A h \in Goroutine : Disturbed[h].at \in AtWork => Disturbed[h].cron > 0
      BY DisturbedType DEF TypedCron
    <3> QED
      BY <2>7, <3>1, <3>2
  <2> QED
    BY <2>1, <2>6, <2>9, <2>10 DEF TypedCron, blueprints
<1>3. CASE ReloadReadFails(x)
  <2> DEFINE t == [r EXCEPT !.at = "failed"]
  <2>1. reloading' = [reloading EXCEPT ![x] = t] /\ UNCHANGED <<blueprints, crons, unsynced>>
    BY <1>3 DEF ReloadReadFails
  <2>2. t \in ReloadState /\ t.cron = c /\ t.at \notin AtWork
    BY <1>1 DEF ReloadState, AtWork
  <2>3. CronManager' = CronManager /\ crons' \in Seq(Cron) /\ unsynced' \in BOOLEAN
    BY <2>1 DEF CronManager, TypedCron
  <2> HIDE DEF t
  <2> QED
    BY <1>1, <2>1, <2>2, <2>3, ReloadingChange
<1>4. ASSUME r.at \in AtWork, NEW k \in Cron, crons' = [crons EXCEPT ![c] = k]
      PROVE  CronManager' = CronManager /\ crons' \in Seq(Cron) /\ c \in 1 .. Len(crons)
  <2>1. c \in 1 .. Len(crons) /\ crons \in Seq(Cron)
    BY <1>1, <1>4 DEF TypedCron, CronManager
  <2> QED
    BY <1>4, <2>1 DEF CronManager
<1>5. ASSUME r.at \in AtWork
      PROVE  crons[c] \in Cron
  <2>1. c \in 1 .. Len(crons) /\ crons \in Seq(Cron)
    BY <1>1, <1>5 DEF TypedCron, CronManager
  <2> QED
    BY <2>1
<1>6. CASE ReloadRemove(x)
  <2> DEFINE k == [crons[c] EXCEPT !.jobs = NewCron.jobs]
             t == [r EXCEPT !.at = "stop"]
  <2>1. /\ r.at = "remove" /\ reloading' = [reloading EXCEPT ![x] = t]
        /\ crons' = [crons EXCEPT ![c] = k] /\ UNCHANGED <<blueprints, unsynced>>
    BY <1>6 DEF ReloadRemove
  <2>2. r.at \in AtWork
    BY <2>1 DEF AtWork
  <2>3. k \in Cron
    BY <1>5, <2>2, StateTypes DEF Cron
  <2>4. t \in ReloadState /\ t.cron = c /\ c > 0
    BY <1>1, <2>2 DEF ReloadState, TypedCron
  <2> HIDE DEF k, t
  <2> QED
    BY <1>1, <1>4, <2>1, <2>2, <2>3, <2>4, ReloadingChange DEF TypedCron
<1>7. CASE ReloadStop(x)
  <2> DEFINE k == [crons[c] EXCEPT !.running = FALSE]
             t == [r EXCEPT !.at = "add"]
  <2>1. /\ r.at = "stop" /\ reloading' = [reloading EXCEPT ![x] = t]
        /\ crons' = [crons EXCEPT ![c] = k] /\ UNCHANGED <<blueprints, unsynced>>
    BY <1>7 DEF ReloadStop
  <2>2. r.at \in AtWork
    BY <2>1 DEF AtWork
  <2>3. k \in Cron
    BY <1>5, <2>2 DEF Cron
  <2>4. t \in ReloadState /\ t.cron = c /\ c > 0
    BY <1>1, <2>2 DEF ReloadState, TypedCron
  <2> HIDE DEF k, t
  <2> QED
    BY <1>1, <1>4, <2>1, <2>2, <2>3, <2>4, ReloadingChange DEF TypedCron
<1>8. CASE ReloadAdd(x)
  <2>1. PICK j \in r.list :
          /\ crons' = [crons EXCEPT ![c].jobs[j] = @ + 1]
          /\ reloading' = [reloading EXCEPT ![x].list = @ \ {j}]
    BY <1>8 DEF ReloadAdd
  <2> DEFINE k == [crons[c] EXCEPT !.jobs = [crons[c].jobs EXCEPT ![j] = crons[c].jobs[j] + 1]]
             t == [r EXCEPT !.list = r.list \ {j}]
  <2>2. crons' = [crons EXCEPT ![c] = k] /\ reloading' = [reloading EXCEPT ![x] = t]
    BY <2>1
  <2>3. r.at \in AtWork /\ UNCHANGED <<blueprints, unsynced>>
    BY <1>8 DEF ReloadAdd, AtWork
  <2>4. j \in Job
    BY <1>1 DEF ReloadState
  <2>5. k \in Cron
    BY <1>5, <2>3, <2>4 DEF Cron
  <2>6. t \in ReloadState /\ t.cron = c /\ c > 0
    BY <1>1, <2>3 DEF ReloadState, TypedCron
  <2> HIDE DEF k, t
  <2> QED
    BY <1>1, <1>4, <2>2, <2>3, <2>5, <2>6, ReloadingChange DEF TypedCron
<1>9. CASE ReloadEnds(x)
  <2> DEFINE k == [crons[c] EXCEPT !.running = crons[c].running \/ r.any]
  <2>1. /\ r.at = "add" /\ reloading' = [reloading EXCEPT ![x] = NotReloading]
        /\ crons' = [crons EXCEPT ![c] = k] /\ UNCHANGED blueprints
        /\ unsynced' = (~r.alone \/ c # CronManager)
    BY <1>9 DEF ReloadEnds
  <2>2. r.at \in AtWork
    BY <2>1 DEF AtWork
  <2>3. k \in Cron
    BY <1>1, <1>5, <2>2 DEF Cron, ReloadState
  <2>4. NotReloading.at = "idle" /\ NotReloading.cron = 0
    BY DEF NotReloading
  <2>5. NotReloading.cron \in 0 .. CronManager /\ NotReloading.at \notin AtWork
    BY <1>1, <2>4 DEF AtWork
  <2>6. unsynced' \in BOOLEAN
    BY <2>1
  <2> HIDE DEF k
  <2> QED
    BY <1>4, <2>1, <2>2, <2>3, <2>5, <2>6, StateTypes, ReloadingChange
<1> QED
  BY <1>2, <1>3, <1>6, <1>7, <1>8, <1>9 DEF ReloadStep

LEMMA TypeReloadStep ==
    ASSUME TypeInv, NEW g \in Goroutine, Reload(g) \/ ReloadFails(g)
    PROVE  TypeInv'
<1>1. TypedCron'
  BY TypeReload DEF TypeInv, Reload, ReloadFails
<1>2. UNCHANGED <<migrator, own, rigid>>
  BY DEF Reload, ReloadFails
<1>3. faults' \in 0 .. MaxFaults
  BY FaultType DEF TypeInv, TypedProcesses, Reload, ReloadFails
<1> QED
  BY <1>1, <1>2, <1>3, MigratorSame, ProcessesSame DEF TypeInv

\* A goroutine returns.
LEMMA TypeReturns ==
    ASSUME TypeInv, NEW g \in Goroutine, Returns(g)
    PROVE  TypeInv'
<1>1. faults' \in 0 .. MaxFaults
  BY DEF Returns, TypeInv, TypedProcesses
<1>2. CASE g = Main
  BY <1>1, <1>2, TypeEnds DEF Returns
<1>3. CASE g # Main
  <2>1. /\ migrating' = [migrating EXCEPT ![g] = NotMigrating]
        /\ reloading' = [reloading EXCEPT ![g] = NotReloading]
        /\ starting' = [starting EXCEPT ![g] = "no"]
        /\ UNCHANGED <<history, executed, pending, blueprints, crons, unsynced>>
        /\ UNCHANGED <<process, loaded, consumers, stale, rigid>>
    BY <1>3 DEF Returns
  <2>2. /\ NotMigrating.at = "idle" /\ NotReloading.at = "idle" /\ NotReloading.cron = 0
    BY DEF NotMigrating, NotReloading
  <2>3. TypedMigrator'
    BY <2>1, <2>2, StateTypes, MigratingChange DEF TypeInv, TypedMigrator
  <2>4. CronManager' = CronManager /\ CronManager \in Nat
    BY <2>1 DEF CronManager, TypeInv, TypedCron
  <2>5. NotReloading.cron \in 0 .. CronManager /\ NotReloading.at \notin AtWork
    BY <2>2, <2>4 DEF AtWork
  <2>6. TypedCron'
    BY <2>1, <2>4, <2>5, StateTypes, ReloadingChange DEF TypeInv, TypedCron
  <2>7. TypedProcesses'
    BY <1>1, <2>1, StartingChange DEF TypeInv, TypedProcesses
  <2> QED
    BY <2>3, <2>6, <2>7 DEF TypeInv
<1> QED
  BY <1>2, <1>3

\* Every step keeps the types.
LEMMA TypeStep ==
    ASSUME TypeInv, [Next]_vars
    PROVE  TypeInv'
<1>1. CASE UNCHANGED vars
  BY <1>1, MigratorSame, CronSame, ProcessesSame DEF TypeInv, TypedProcesses, vars
<1>2. CASE Crash
  BY <1>2, TypeEnds, FaultType DEF Crash, TypeInv
<1>3. CASE \E p \in Process : InitResources(p) \/ LockDb(p) \/ LockTimeout(p)
  BY <1>3, TypeInitResources, TypeLockDb, TypeLockTimeout
<1>4. CASE PatchProject \/ \E g \in Goroutine : SaveBlueprint(g) \/ SaveBlueprintFails(g)
  BY <1>4, TypeBlueprints
<1>5. CASE \E g \in Goroutine : Goes(g) \/ MigratorFails(g) \/ ReloadFails(g)
  BY <1>5, TypeMigratorStep, TypeNewCronManager, TypeResetPipelines, TypeStartConsumer,
     TypeReloadStep, TypeReturns DEF Goes
<1>6. CASE \E g \in Goroutine : Proceed(g) \/ ResetFails(g)
  BY <1>6, TypeProceed, TypeResetFails
<1> QED
  BY <1>1, <1>2, <1>3, <1>4, <1>5, <1>6 DEF Next

\* The types as Server states them.
LEMMA TypesHold ==
    ASSUME TypeInv
    PROVE  TypeOK
<1>1. \A g \in Goroutine : migrating[g] \in ExecuteState /\ reloading[g] \in ReloadState
  BY DEF TypeInv, TypedMigrator, TypedCron
<1>2. \A g \in Goroutine :
          /\ migrating[g].at \in {"idle", "execute", "up", "record", "done", "failed"}
          /\ migrating[g].left \subseteq Script
          /\ reloading[g].at \in {"idle", "read", "remove", "stop", "add", "failed"}
          /\ reloading[g].list \subseteq Job
  BY <1>1 DEF ExecuteState, Places, ReloadState
<1>3. \A g \in Goroutine :
          /\ migrating[g].at \in {"up", "record"} => migrating[g].left # {}
          /\ reloading[g].cron \in 0 .. CronManager
          /\ starting[g] \in {"no", "reset", "reload", "failed"}
  BY DEF TypeInv, TypedMigrator, TypedCron, TypedProcesses, Applying
<1>4. \A c \in 1 .. CronManager : crons[c].jobs \in [Job -> Nat]
  <2>1. \A c \in 1 .. CronManager : crons[c] \in Cron
    BY DEF TypeInv, TypedCron, CronManager
  <2> QED
    BY <2>1 DEF Cron
<1>5. Cardinality(Owner) <= 1
  <2>1. \A p, q \in Owner : p = q
    BY DEF TypeInv, TypedProcesses
  <2>2. CASE Owner = {}
    BY <2>2, FS_EmptySet
  <2>3. CASE Owner # {}
    <3>1. PICK p \in Owner : TRUE
      BY <2>3
    <3>2. Owner = {p}
      BY <2>1, <3>1
    <3> QED
      BY <3>2, FS_Singleton
  <2> QED
    BY <2>2, <2>3
<1>6. /\ history \subseteq Script /\ executed \subseteq Script /\ pending \subseteq Script
      /\ enabled \subseteq Blueprint /\ version \in [Blueprint -> 0 .. MaxChanges]
      /\ process \in [Process -> {"off", "locking", "starting", "serving"}]
      /\ consumers \in Nat /\ faults \in 0 .. MaxFaults
  BY DEF TypeInv, TypedMigrator, TypedCron, TypedProcesses
<1> QED
  BY <1>2, <1>3, <1>4, <1>5, <1>6 DEF TypeOK

LEMMA TypesInvariant == Spec => []TypeInv
<1>1. Init => TypeInv
  BY TypeInit
<1>2. TypeInv /\ [Next]_vars => TypeInv'
  BY TypeStep
<1> QED
  BY <1>1, <1>2, PTL DEF Spec

\* Every variable keeps its type, reloads work on crons that exist, and at most
\* one process has the lock, whoever fails, crashes or confirms.
THEOREM TypeCorrect == Spec => []TypeOK
<1>1. TypeInv => TypeOK
  BY TypesHold
<1> QED
  BY <1>1, TypesInvariant, PTL

-----------------------------------------------------------------------------
(* The execution of migrations.                                             *)

\* What was recorded after the scripts in known are the first of the others.
IsView(known, recorded) ==
    /\ known \subseteq recorded
    /\ \A s, t \in Script \ known : t \in recorded /\ s < t => s \in recorded

\* The processes that wait for the lock, the one that has it and each range of
\* Execute have a view of the history that is old at most.
Views ==
    /\ \A p \in Process : process[p] = "locking" => IsView(loaded[p], history)
    /\ Owner # {} => IsView(Script \ pending, history)
    /\ \A g \in Goroutine : Applying(g) => IsView(Script \ migrating[g].left, history)

\* If it was not old when the lock was taken it never gets so.
Fresh == Owner # {} /\ ~stale => pending = Script \ history

\* Without a process that has the lock nobody is at work.
Resting ==
    Owner = {} => /\ consumers = 0 /\ crons = <<>>
                  /\ \A g \in Goroutine : ~Active(g)

\* A goroutine does one thing after the other.
Turns ==
    \A g \in Goroutine :
        /\ migrating[g].at # "idle" => starting[g] = "no" /\ reloading[g].at = "idle"
        /\ starting[g] \in {"reset", "failed"} => reloading[g].at = "idle"

\* The goroutines for which all scripts were applied.
Finished(g) == migrating[g].at = "done" \/ starting[g] # "no"

\* If confirmations do not overlap the range of the one that executes is what is
\* pending, and nothing is pending any more when the services start.
Alone ==
    ~overlapping =>
        /\ \A g, h \in Goroutine : Executing(g) /\ Executing(h) => g = h
        /\ \A g \in Goroutine : Applying(g) => migrating[g].left = pending
        /\ (consumers > 0 \/ \E g \in Goroutine : Finished(g)) => pending = {}
        /\ consumers > 0 => \A g \in Goroutine : ~Executing(g)
        /\ consumers <= 1

ExecutionInv == Views /\ Fresh /\ Resting /\ Turns /\ Alone

\* A view stays one when the first script that was not recorded is.
LEMMA ViewOfMore ==
    ASSUME NEW known, NEW recorded \in SUBSET Script, NEW s \in Script,
           IsView(known, recorded), \A r \in Script : r < s => r \in recorded
    PROVE  IsView(known, recorded \cup {s})
  BY DEF IsView

\* One may know more of what was recorded.
LEMMA ViewGrows ==
    ASSUME NEW known, NEW recorded, NEW s \in recorded, IsView(known, recorded)
    PROVE  IsView(known \cup {s}, recorded)
  BY DEF IsView

LEMMA ViewOfAll ==
    ASSUME NEW recorded
    PROVE  IsView(recorded, recorded)
  BY DEF IsView

\* Steps that execute nothing.
LEMMA ViewsKept ==
    ASSUME Views, UNCHANGED <<history, pending, loaded>>,
           \A p \in Process : process'[p] = "locking" => process[p] = "locking",
           Owner' # {} => Owner # {},
           \A g \in Goroutine : Applying(g)' =>
              \/ Applying(g) /\ migrating'[g].left = migrating[g].left
              \/ Owner # {} /\ migrating'[g].left = pending
    PROVE  Views'
  BY DEF Views

LEMMA FreshKept ==
    ASSUME Fresh, UNCHANGED <<history, pending, stale>>, Owner' # {} => Owner # {}
    PROVE  Fresh'
  BY DEF Fresh

LEMMA AloneKept ==
    ASSUME Alone, UNCHANGED <<pending, consumers, overlapping>>,
           \A g \in Goroutine : Executing(g)' => Executing(g),
           \A g \in Goroutine : Applying(g)' =>
              \/ Applying(g) /\ migrating'[g].left = migrating[g].left
              \/ migrating'[g].left = pending,
           \A g \in Goroutine : Finished(g)' => Finished(g) \/ pending = {}
    PROVE  Alone'
  BY DEF Alone

\* Whoever is at work, a process has the lock.
LEMMA OwnerThere ==
    ASSUME Resting, NEW g \in Goroutine, Active(g)
    PROVE  Owner # {}
  BY DEF Resting

LEMMA ServingOwns ==
    ASSUME Serving
    PROVE  Owner # {}
  BY DEF Serving, Owner

LEMMA RestingKept ==
    ASSUME Owner # {}, UNCHANGED process
    PROVE  Resting'
  BY DEF Resting, Owner

\* The invariant at the start.
LEMMA ExecutionInit ==
    ASSUME Init
    PROVE  ExecutionInv
<1>1. /\ \A p \in Process : process[p] = "off"
      /\ \A g \in Goroutine : migrating[g].at = "idle" /\ reloading[g].at = "idle" /\ starting[g] = "no"
      /\ consumers = 0 /\ crons = <<>>
  BY ServerAssumption DEF Init, CronInit, NotMigrating, NotReloading
<1>2. Owner = {}
  BY <1>1 DEF Owner
<1>3. \A g \in Goroutine : ~Active(g) /\ ~Applying(g) /\ ~Executing(g) /\ ~Finished(g)
  BY <1>1 DEF Active, Executing, Applying, Finished
<1>4. Views /\ Fresh /\ Resting /\ Turns
  BY <1>1, <1>2, <1>3 DEF Views, Fresh, Resting, Turns
<1>5. Alone
  BY <1>1, <1>3 DEF Alone
<1> QED
  BY <1>4, <1>5 DEF ExecutionInv

\* The steps of processes.
LEMMA ExecutionInitResources ==
    ASSUME TypeInv, ExecutionInv, NEW p \in Process, InitResources(p)
    PROVE  ExecutionInv'
<1>1. /\ process[p] = "off" /\ process' = [process EXCEPT ![p] = "locking"]
      /\ loaded' = [loaded EXCEPT ![p] = history]
      /\ UNCHANGED <<migrator, cronVars, starting, consumers, stale, rigid>>
  BY DEF InitResources
<1>2. Owner' = Owner
  BY <1>1 DEF TypeInv, TypedProcesses, Owner
<1>3. UNCHANGED <<history, pending, migrating, reloading, crons, overlapping>>
  BY <1>1 DEF migrator, cronVars, rigid
<1>4. Views'
  <2>1. \A q \in Process : process'[q] = "locking" => IsView(loaded'[q], history')
    BY <1>1, <1>3, ViewOfAll DEF TypeInv, TypedProcesses, ExecutionInv, Views
  <2>2. Owner' # {} => IsView(Script \ pending', history')
    BY <1>2, <1>3 DEF ExecutionInv, Views
  <2>3. \A g \in Goroutine : Applying(g)' => IsView(Script \ migrating'[g].left, history')
    BY <1>3 DEF ExecutionInv, Views, Applying
  <2> QED
    BY <2>1, <2>2, <2>3 DEF Views
<1>5. Fresh'
  BY <1>1, <1>2, <1>3, FreshKept DEF ExecutionInv
<1>6. Resting' /\ Turns'
  BY <1>1, <1>2, <1>3 DEF ExecutionInv, Resting, Turns, Active, Executing
<1>7. Alone'
  BY <1>1, <1>3, AloneKept DEF ExecutionInv, Executing, Applying, Finished
<1> QED
  BY <1>4, <1>5, <1>6, <1>7 DEF ExecutionInv

LEMMA ExecutionLockTimeout ==
    ASSUME TypeInv, ExecutionInv, NEW p \in Process, LockTimeout(p)
    PROVE  ExecutionInv'
<1>1. /\ process[p] = "locking" /\ process' = [process EXCEPT ![p] = "off"]
      /\ loaded' = [loaded EXCEPT ![p] = {}]
      /\ UNCHANGED <<migrator, cronVars, starting, consumers, stale, rigid>>
  BY DEF LockTimeout
<1>2. Owner' = Owner
  BY <1>1 DEF TypeInv, TypedProcesses, Owner
<1>3. UNCHANGED <<history, pending, migrating, reloading, crons, overlapping>>
  BY <1>1 DEF migrator, cronVars, rigid
<1>4. Views'
  <2>1. \A q \in Process : process'[q] = "locking" => IsView(loaded'[q], history')
    BY <1>1, <1>3 DEF TypeInv, TypedProcesses, ExecutionInv, Views
  <2>2. Owner' # {} => IsView(Script \ pending', history')
    BY <1>2, <1>3 DEF ExecutionInv, Views
  <2>3. \A g \in Goroutine : Applying(g)' => IsView(Script \ migrating'[g].left, history')
    BY <1>3 DEF ExecutionInv, Views, Applying
  <2> QED
    BY <2>1, <2>2, <2>3 DEF Views
<1>5. Fresh'
  BY <1>1, <1>2, <1>3, FreshKept DEF ExecutionInv
<1>6. Resting' /\ Turns'
  BY <1>1, <1>2, <1>3 DEF ExecutionInv, Resting, Turns, Active, Executing
<1>7. Alone'
  BY <1>1, <1>3, AloneKept DEF ExecutionInv, Executing, Applying, Finished
<1> QED
  BY <1>4, <1>5, <1>6, <1>7 DEF ExecutionInv

LEMMA ExecutionLockDb ==
    ASSUME TypeInv, ExecutionInv, NEW p \in Process, LockDb(p)
    PROVE  ExecutionInv'
<1> DEFINE confirm == executed' # {} /\ pending' # {} /\ ~force
<1>1. /\ process[p] = "locking" /\ Owner = {}
      /\ pending' = Script \ loaded[p] /\ history' = history
      /\ stale' = (loaded[p] # history)
      /\ loaded' = [loaded EXCEPT ![p] = {}]
      /\ process' = [process EXCEPT ![p] = IF confirm THEN "serving" ELSE "starting"]
      /\ migrating' = IF confirm THEN migrating
                      ELSE [migrating EXCEPT ![Main].at = "execute"]
      /\ UNCHANGED <<cronVars, starting, consumers, rigid>>
  BY DEF LockDb
<1>2. Main \in Goroutine /\ UNCHANGED <<reloading, crons, overlapping>>
  BY <1>1, ServerAssumption DEF cronVars, rigid
<1>3. /\ consumers = 0
      /\ \A g \in Goroutine : migrating[g].at = "idle" /\ starting[g] = "no" /\ reloading[g].at = "idle"
  BY <1>1 DEF ExecutionInv, Resting, Active, Executing
<1>4. \A g \in Goroutine : migrating'[g].at # "idle" => g = Main /\ migrating'[g].at = "execute"
  <2>1. CASE confirm
    BY <1>1, <1>3, <2>1
  <2>2. CASE ~confirm
    <3>1. migrating' = [migrating EXCEPT ![Main].at = "execute"]
      BY <1>1, <2>2
    <3> QED
      BY <1>3, <3>1 DEF TypeInv, TypedMigrator, ExecuteState
  <2> QED
    BY <2>1, <2>2
<1>5. \A g \in Goroutine : ~Applying(g)' /\ ~Finished(g)' /\ (Executing(g)' => g = Main)
  BY <1>1, <1>3, <1>4 DEF Applying, Finished, Executing
<1>6. process'[p] \in {"serving", "starting"}
  BY <1>1 DEF TypeInv, TypedProcesses
<1>7. IsView(loaded[p], history) /\ loaded[p] \in SUBSET Script /\ history \in SUBSET Script
  BY <1>1 DEF ExecutionInv, Views, TypeInv, TypedProcesses, TypedMigrator
<1>8. Views'
  <2>1. \A q \in Process : process'[q] = "locking" => IsView(loaded'[q], history')
    <3>1. \A q \in Process : process'[q] = "locking" => q # p
      BY <1>6
    <3> QED
      BY <1>1, <3>1 DEF TypeInv, TypedProcesses, ExecutionInv, Views
  <2>2. Script \ pending' = loaded[p]
    BY <1>1, <1>7
  <2> QED
    BY <1>1, <1>5, <1>7, <2>1, <2>2 DEF Views
<1>9. Fresh'
  BY <1>1 DEF Fresh
<1>10. Resting' /\ Turns'
  <2>1. Owner' # {}
    BY <1>6 DEF Owner
  <2> QED
    BY <1>1, <1>2, <1>3, <2>1 DEF Resting, Turns
<1>11. Alone'
  BY <1>1, <1>3, <1>5 DEF Alone
<1> QED
  BY <1>8, <1>9, <1>10, <1>11 DEF ExecutionInv

LEMMA ExecutionEnds ==
    ASSUME TypeInv, ExecutionInv, Ends
    PROVE  ExecutionInv'
<1>1. /\ process' = [p \in Process |-> IF p \in Owner THEN "off" ELSE process[p]]
      /\ migrating' = [g \in Goroutine |-> NotMigrating]
      /\ reloading' = [g \in Goroutine |-> NotReloading]
      /\ starting' = [g \in Goroutine |-> "no"]
      /\ consumers' = 0 /\ crons' = <<>>
      /\ UNCHANGED <<history, loaded, rigid>>
  BY DEF Ends
<1>2. \A g \in Goroutine : migrating'[g].at = "idle" /\ reloading'[g].at = "idle" /\ starting'[g] = "no"
  BY <1>1 DEF NotMigrating, NotReloading
<1>3. \A g \in Goroutine : ~Active(g)' /\ ~Applying(g)' /\ ~Executing(g)' /\ ~Finished(g)'
  BY <1>2 DEF Active, Applying, Executing, Finished
<1>4. Owner' = {}
  BY <1>1 DEF Owner
<1>5. Views'
  BY <1>1, <1>3, <1>4 DEF ExecutionInv, Views
<1>6. Fresh' /\ Resting' /\ Turns'
  BY <1>1, <1>2, <1>3, <1>4 DEF Fresh, Resting, Turns
<1>7. Alone'
  BY <1>1, <1>3 DEF Alone
<1> QED
  BY <1>5, <1>6, <1>7 DEF ExecutionInv

\* A request confirms the migration.
LEMMA ExecutionProceed ==
    ASSUME TypeInv, ExecutionInv, NEW g \in Goroutine, Proceed(g)
    PROVE  ExecutionInv'
<1>1. /\ Serving /\ ~Active(g) /\ pending # {}
      /\ overlapping \/ \A h \in Goroutine : ~Executing(h)
      /\ migrating' = [migrating EXCEPT ![g].at = "execute"]
      /\ UNCHANGED <<history, pending, cronVars, own, rigid>>
  BY DEF Proceed, HasPendingScripts
<1>2. UNCHANGED <<reloading, crons, overlapping, process, loaded, starting, consumers, stale>>
  BY <1>1 DEF cronVars, own, rigid
<1>3. Owner # {} /\ Owner' = Owner
  BY <1>1, <1>2, ServingOwns DEF Owner
<1>4. \A h \in Goroutine : migrating'[h].at = IF h = g THEN "execute" ELSE migrating[h].at
  BY <1>1 DEF TypeInv, TypedMigrator, ExecuteState
<1>5. \A h \in Goroutine : h # g => migrating'[h] = migrating[h]
  BY <1>1 DEF TypeInv, TypedMigrator
<1>6. \A h \in Goroutine : Applying(h)' => Applying(h) /\ migrating'[h] = migrating[h]
  BY <1>4, <1>5 DEF Applying
<1>7. Views' /\ Fresh' /\ Resting'
  BY <1>1, <1>2, <1>3, <1>6, ViewsKept, FreshKept, RestingKept DEF ExecutionInv
<1>8. Turns'
  BY <1>1, <1>2, <1>4 DEF ExecutionInv, Turns, Active, Executing
<1>9. Alone'
  <2>1. SUFFICES ASSUME ~overlapping
                 PROVE  /\ \A h \in Goroutine : Executing(h)' => h = g
                        /\ \A h \in Goroutine : ~Applying(h)' /\ ~Finished(h)'
                        /\ consumers = 0
    BY <1>2 DEF Alone
  <2>2. consumers = 0 /\ \A h \in Goroutine : ~Finished(h)
    BY <1>1, <2>1 DEF ExecutionInv, Alone, TypeInv, TypedProcesses
  <2>3. \A h \in Goroutine : ~Executing(h)
    BY <1>1, <2>1
  <2> QED
    BY <1>2, <1>4, <1>6, <2>2, <2>3 DEF Executing, Applying, Finished
<1> QED
  BY <1>7, <1>8, <1>9 DEF ExecutionInv

\* The steps of Execute that record nothing.
LEMMA ExecutionSteps ==
    ASSUME TypeInv, ExecutionInv, NEW g \in Goroutine,
           Execute(g) \/ Up(g) \/ RecordRefused(g) \/ ExecuteFails(g),
           UNCHANGED <<cronVars, own, rigid>>
    PROVE  ExecutionInv'
<1>1. UNCHANGED <<reloading, crons, overlapping, process, loaded, starting, consumers, stale>>
  BY DEF cronVars, own, rigid
<1>2. /\ migrating[g].at # "idle" /\ migrating[g] \in ExecuteState
      /\ UNCHANGED <<history, executed, pending>>
  BY DEF Execute, Up, RecordRefused, ExecuteFails, TypeInv, TypedMigrator
<1>3. Active(g) /\ Executing(g) /\ Owner # {} /\ Owner' = Owner
  BY <1>1, <1>2, OwnerThere DEF ExecutionInv, Active, Executing, Owner
<1>4. \A h \in Goroutine : h # g => migrating'[h] = migrating[h]
  BY DEF TypeInv, TypedMigrator, Execute, Up, RecordRefused, ExecuteFails
<1>5. /\ migrating'[g].at \in {"up", "record"} =>
            \/ Applying(g) /\ migrating'[g].left = migrating[g].left
            \/ migrating'[g].left = pending
      /\ migrating'[g].at = "done" => pending = {}
  <2>1. CASE Execute(g)
    <3>1. migrating'[g] = Continues(pending)
      BY <2>1 DEF Execute, TypeInv, TypedMigrator
    <3> QED
      BY <3>1, ContinuesType DEF TypeInv, TypedMigrator
  <2>2. CASE Up(g)
    <3>1. migrating'[g] = [migrating[g] EXCEPT !.at = "record"] /\ migrating[g].at = "up"
      BY <2>2 DEF Up, TypeInv, TypedMigrator
    <3> QED
      BY <1>2, <3>1 DEF Applying, ExecuteState
  <2>3. CASE RecordRefused(g) \/ ExecuteFails(g)
    <3>1. migrating'[g] = [migrating[g] EXCEPT !.at = "failed"]
      BY <2>3 DEF RecordRefused, ExecuteFails, TypeInv, TypedMigrator
    <3> QED
      BY <1>2, <3>1 DEF ExecuteState
  <2> QED
    BY <2>1, <2>2, <2>3
<1>6. \A h \in Goroutine : Applying(h)' =>
         \/ Applying(h) /\ migrating'[h].left = migrating[h].left
         \/ migrating'[h].left = pending
  BY <1>4, <1>5 DEF Applying
<1>7. \A h \in Goroutine : Finished(h)' => Finished(h) \/ pending = {}
  BY <1>1, <1>4, <1>5 DEF Finished
<1>8. \A h \in Goroutine : Executing(h)' => Executing(h)
  BY <1>1, <1>3, <1>4 DEF Executing
<1>9. Views' /\ Fresh' /\ Resting'
  BY <1>1, <1>2, <1>3, <1>6, ViewsKept, FreshKept, RestingKept DEF ExecutionInv
<1>10. Turns'
  BY <1>1, <1>2, <1>4 DEF ExecutionInv, Turns
<1>11. Alone'
  BY <1>1, <1>2, <1>6, <1>7, <1>8, AloneKept DEF ExecutionInv
<1> QED
  BY <1>9, <1>10, <1>11 DEF ExecutionInv

\* A script is recorded: it is the first that was not, in every view.
LEMMA ExecutionRecord ==
    ASSUME TypeInv, ExecutionInv, NEW g \in Goroutine, Record(g),
           UNCHANGED <<cronVars, own, rigid>>
    PROVE  ExecutionInv'
<1> DEFINE left == migrating[g].left
           s == FirstOf(left)
           m == FirstOf(pending)
<1>1. UNCHANGED <<reloading, crons, overlapping, process, loaded, starting, consumers, stale>>
  BY DEF cronVars, own, rigid
<1>2. /\ migrating[g].at = "record" /\ s \notin history
      /\ history' = history \cup {s} /\ pending' = pending \ {m}
      /\ migrating' = [migrating EXCEPT ![g] = Continues(left \ {s})]
  BY DEF Record
<1>3. /\ history \in SUBSET Script /\ pending \in SUBSET Script
      /\ left \in SUBSET Script /\ left # {}
  BY <1>2 DEF TypeInv, TypedMigrator, ExecuteState, Applying
<1>4. /\ s \in left /\ s \in Script
      /\ \A r \in left : r # s => s < r
  BY <1>3, FirstScript
<1>5. Applying(g) /\ Executing(g) /\ Active(g)
  BY <1>2 DEF Applying, Executing, Active
<1>6. Owner # {} /\ Owner' = Owner
  BY <1>1, <1>5, OwnerThere DEF ExecutionInv, Owner
<1>7. IsView(Script \ left, history) /\ IsView(Script \ pending, history)
  BY <1>5, <1>6 DEF ExecutionInv, Views
<1>8. \A r \in Script : r < s => r \in history
  <2>1. ASSUME NEW r \in Script, r < s, r \in left PROVE FALSE
    <3>1. r \in Nat /\ s \in Nat
      BY <1>4, ScriptAssumption
    <3> QED
      BY <1>4, <2>1, <3>1
  <2> QED
    BY <1>7, <2>1 DEF IsView
<1>9. s \in pending
  BY <1>2, <1>4, <1>7 DEF IsView
<1>10. m \in pending /\ m \in Script /\ (m # s => m < s)
  BY <1>3, <1>9, FirstScript
<1>11. m \in history'
  BY <1>2, <1>8, <1>10
<1>12. /\ migrating'[g] = Continues(left \ {s})
       /\ \A h \in Goroutine : h # g => migrating'[h] = migrating[h]
  BY <1>2 DEF TypeInv, TypedMigrator
<1>13. /\ migrating'[g].left = left \ {s}
       /\ migrating'[g].at \in {"done", "up"}
       /\ migrating'[g].at = "done" <=> left \ {s} = {}
  BY <1>3, <1>12, ContinuesType
<1>14. \A known : IsView(known, history) => IsView(known, history')
  BY <1>2, <1>3, <1>4, <1>8, ViewOfMore
<1>15. Views'
  <2>1. \A p \in Process : process'[p] = "locking" => IsView(loaded'[p], history')
    BY <1>1, <1>14 DEF ExecutionInv, Views
  <2>2. IsView(Script \ pending', history')
    <3>1. IsView((Script \ pending) \cup {m}, history')
      BY <1>7, <1>11, <1>14, ViewGrows
    <3>2. Script \ pending' = (Script \ pending) \cup {m}
      BY <1>2, <1>10
    <3> QED
      BY <3>1, <3>2
  <2>3. IsView(Script \ migrating'[g].left, history')
    <3>1. IsView((Script \ left) \cup {s}, history')
      BY <1>2, <1>7, <1>14, ViewGrows
    <3>2. Script \ migrating'[g].left = (Script \ left) \cup {s}
      BY <1>4, <1>13
    <3> QED
      BY <3>1, <3>2
  <2>4. \A h \in Goroutine : Applying(h)' => IsView(Script \ migrating'[h].left, history')
    <3>1. ASSUME NEW h \in Goroutine, Applying(h)', h # g
          PROVE  IsView(Script \ migrating'[h].left, history')
      <4>1. migrating'[h] = migrating[h] /\ Applying(h)
        BY <1>12, <3>1 DEF Applying
      <4>2. IsView(Script \ migrating[h].left, history)
        BY <4>1 DEF ExecutionInv, Views
      <4> QED
        BY <1>14, <4>1, <4>2
    <3> QED
      BY <2>3, <3>1
  <2> QED
    BY <2>1, <2>2, <2>4 DEF Views
<1>16. Fresh'
  <2>1. SUFFICES ASSUME ~stale PROVE pending' = Script \ history'
    BY <1>1 DEF Fresh
  <2>2. pending = Script \ history
    BY <1>6, <2>1 DEF ExecutionInv, Fresh
  <2>3. m = s
    BY <1>8, <1>10, <2>2
  <2> QED
    BY <1>2, <2>2, <2>3
<1>17. Resting'
  BY <1>1, <1>6, RestingKept
<1>18. Turns'
  BY <1>1, <1>2, <1>12 DEF ExecutionInv, Turns
<1>19. Alone'
  <2>1. SUFFICES ASSUME ~overlapping
                 PROVE  /\ \A h, k \in Goroutine : Executing(h)' /\ Executing(k)' => h = k
                        /\ \A h \in Goroutine : Applying(h)' => migrating'[h].left = pending'
                        /\ \A h \in Goroutine : Finished(h)' => pending' = {}
                        /\ consumers' = 0
    BY <1>1 DEF Alone
  <2>2. /\ \A h \in Goroutine : Executing(h) => h = g
        /\ left = pending /\ consumers = 0
    BY <1>1, <1>5, <2>1 DEF ExecutionInv, Alone, TypeInv, TypedProcesses
  <2>3. \A h \in Goroutine : h # g => migrating[h].at = "idle" /\ starting[h] = "no"
    BY <2>2 DEF Executing
  <2>4. \A h \in Goroutine : h # g => ~Executing(h)' /\ ~Applying(h)' /\ ~Finished(h)'
    BY <1>1, <1>12, <2>3 DEF Executing, Applying, Finished
  <2>5. migrating'[g].left = pending'
    BY <1>2, <1>13, <2>2
  <2>6. Finished(g)' => pending' = {}
    <3>1. starting[g] = "no"
      BY <1>2 DEF ExecutionInv, Turns
    <3> QED
      BY <1>1, <1>13, <2>5, <3>1 DEF Finished
  <2> QED
    BY <1>1, <2>2, <2>4, <2>5, <2>6
<1> QED
  BY <1>15, <1>16, <1>17, <1>18, <1>19 DEF ExecutionInv

\* The start of the services, after the migration.
LEMMA ExecutionNewCronManager ==
    ASSUME TypeInv, ExecutionInv, NEW g \in Goroutine, NewCronManager(g)
    PROVE  ExecutionInv'
<1>1. /\ migrating[g].at = "done"
      /\ migrating' = [migrating EXCEPT ![g] = NotMigrating]
      /\ starting' = [starting EXCEPT ![g] = "reset"]
      /\ UNCHANGED <<history, pending, reloading, process, loaded, consumers, stale, rigid>>
  BY DEF NewCronManager
<1>2. Active(g) /\ Executing(g) /\ Owner # {} /\ Owner' = Owner
  BY <1>1, OwnerThere DEF ExecutionInv, Active, Executing, Owner
<1>3. /\ \A h \in Goroutine : h # g => migrating'[h] = migrating[h] /\ starting'[h] = starting[h]
      /\ migrating'[g].at = "idle" /\ starting'[g] = "reset"
  BY <1>1 DEF TypeInv, TypedMigrator, TypedProcesses, NotMigrating
<1>4. \A h \in Goroutine : Applying(h)' => Applying(h) /\ migrating'[h].left = migrating[h].left
  BY <1>3 DEF Applying
<1>5. \A h \in Goroutine : Finished(h)' => Finished(h)
  BY <1>1, <1>3 DEF Finished
<1>6. \A h \in Goroutine : Executing(h)' => Executing(h)
  BY <1>2, <1>3 DEF Executing
<1>7. Views' /\ Fresh' /\ Resting'
  BY <1>1, <1>2, <1>4, ViewsKept, FreshKept, RestingKept DEF ExecutionInv
<1>8. Turns'
  BY <1>1, <1>3 DEF ExecutionInv, Turns
<1>9. Alone'
  BY <1>1, <1>4, <1>5, <1>6, AloneKept DEF ExecutionInv, rigid
<1> QED
  BY <1>7, <1>8, <1>9 DEF ExecutionInv

\* The reset of the pipelines, or its error.
LEMMA ExecutionReset ==
    ASSUME TypeInv, ExecutionInv, NEW g \in Goroutine, ResetPipelines(g) \/ ResetFails(g)
    PROVE  ExecutionInv'
<1>1. /\ starting[g] = "reset"
      /\ \A h \in Goroutine : h # g =>
            starting'[h] = starting[h] /\ reloading'[h].at = reloading[h].at
      /\ \/ starting'[g] = "reload"
         \/ starting'[g] = "failed" /\ reloading'[g].at = reloading[g].at
      /\ UNCHANGED <<migrator, process, loaded, consumers, stale, rigid>>
  <2>1. CASE ResetPipelines(g)
    <3>1. TypedCron
      BY DEF TypeInv
    <3>2. \A h \in Goroutine : h # g => CallReload(reloading, g)[h] = reloading[h]
      BY <3>1, CallType DEF TypedCron
    <3> QED
      BY <2>1, <3>2 DEF ResetPipelines, TypeInv, TypedProcesses
  <2>2. CASE ResetFails(g)
    BY <2>2 DEF ResetFails, TypeInv, TypedProcesses, cronVars
  <2> QED
    BY <2>1, <2>2
<1>2. Active(g) /\ Executing(g) /\ Owner # {} /\ Owner' = Owner
  BY <1>1, OwnerThere DEF ExecutionInv, Active, Executing, Owner
<1>3. UNCHANGED <<history, pending, migrating, overlapping>>
  BY <1>1 DEF migrator, rigid
<1>4. \A h \in Goroutine : Applying(h)' => Applying(h) /\ migrating'[h].left = migrating[h].left
  BY <1>3 DEF Applying
<1>5. \A h \in Goroutine : Finished(h)' => Finished(h)
  BY <1>1, <1>3 DEF Finished
<1>6. \A h \in Goroutine : Executing(h)' => Executing(h)
  BY <1>1, <1>2, <1>3 DEF Executing
<1>7. Views' /\ Fresh' /\ Resting'
  BY <1>1, <1>2, <1>3, <1>4, ViewsKept, FreshKept, RestingKept DEF ExecutionInv
<1>8. Turns'
  BY <1>1, <1>3 DEF ExecutionInv, Turns
<1>9. Alone'
  BY <1>1, <1>3, <1>4, <1>5, <1>6, AloneKept DEF ExecutionInv
<1> QED
  BY <1>7, <1>8, <1>9 DEF ExecutionInv

\* The first consumer, unless confirmations overlap.
LEMMA ExecutionStartConsumer ==
    ASSUME TypeInv, ExecutionInv, NEW g \in Goroutine, StartConsumer(g)
    PROVE  ExecutionInv'
<1>1. /\ starting[g] = "reload"
      /\ consumers' = consumers + 1
      /\ starting' = [starting EXCEPT ![g] = "no"]
      /\ process' = IF g = Main THEN [p \in Process |-> IF p \in Owner THEN "serving" ELSE process[p]]
                    ELSE process
      /\ UNCHANGED <<migrator, cronVars, loaded, stale, rigid>>
  BY DEF StartConsumer
<1>2. UNCHANGED <<history, pending, migrating, reloading, crons, overlapping>>
  BY <1>1 DEF migrator, cronVars, rigid
<1>3. Active(g) /\ Executing(g) /\ Finished(g) /\ Owner # {}
  BY <1>1, OwnerThere DEF ExecutionInv, Active, Executing, Finished
<1>4. \A p \in Process : /\ process'[p] = "locking" => process[p] = "locking"
                         /\ p \in Owner => process'[p] \in {"starting", "serving"}
  BY <1>1 DEF Owner
<1>5. Owner' # {}
  BY <1>3, <1>4 DEF Owner
<1>6. \A h \in Goroutine : starting'[h] = IF h = g THEN "no" ELSE starting[h]
  BY <1>1 DEF TypeInv, TypedProcesses
<1>7. Views' /\ Fresh'
  BY <1>1, <1>2, <1>3, <1>4, ViewsKept, FreshKept DEF ExecutionInv, Applying
<1>8. Resting' /\ Turns'
  BY <1>2, <1>5, <1>6 DEF ExecutionInv, Resting, Turns
<1>9. Alone'
  <2>1. SUFFICES ASSUME ~overlapping
                 PROVE  /\ \A h \in Goroutine : ~Executing(h)'
                        /\ \A h \in Goroutine : Applying(h)' => migrating'[h].left = pending'
                        /\ pending' = {}
                        /\ consumers' = 1
    BY <1>2 DEF Alone
  <2>2. /\ \A h \in Goroutine : Executing(h) => h = g
        /\ pending = {} /\ consumers = 0
    BY <1>3, <2>1 DEF ExecutionInv, Alone, TypeInv, TypedProcesses
  <2>3. \A h \in Goroutine : ~Executing(h)'
    <3>1. migrating[g].at = "idle"
      BY <1>1 DEF ExecutionInv, Turns, TypeInv, TypedMigrator, ExecuteState
    <3> QED
      BY <1>2, <1>6, <2>2, <3>1 DEF Executing
  <2>4. \A h \in Goroutine : ~Applying(h)'
    BY <2>3 DEF Executing, Applying
  <2> QED
    BY <1>1, <1>2, <2>2, <2>3, <2>4
<1> QED
  BY <1>7, <1>8, <1>9 DEF ExecutionInv

\* Steps of reloads and of handlers of blueprints.
LEMMA ExecutionCron ==
    ASSUME TypeInv, ExecutionInv, UNCHANGED <<migrator, own, rigid>>, Owner # {},
           \A h \in Goroutine : reloading'[h].at # "idle" =>
              reloading[h].at # "idle" \/ ~Executing(h)
    PROVE  ExecutionInv'
<1>1. UNCHANGED <<history, pending, migrating, overlapping, process, loaded, starting,
                  consumers, stale>>
  BY DEF migrator, own, rigid
<1>2. Owner' = Owner
  BY <1>1 DEF Owner
<1>3. Views' /\ Fresh' /\ Resting'
  BY <1>1, <1>2, ViewsKept, FreshKept, RestingKept DEF ExecutionInv, Applying
<1>4. Turns'
  BY <1>1 DEF ExecutionInv, Turns, Executing
<1>5. Alone'
  BY <1>1, AloneKept DEF ExecutionInv, Applying, Finished, Executing
<1> QED
  BY <1>3, <1>4, <1>5 DEF ExecutionInv

LEMMA ExecutionReload ==
    ASSUME TypeInv, ExecutionInv, NEW g \in Goroutine, Reload(g) \/ ReloadFails(g)
    PROVE  ExecutionInv'
<1>1. ReloadStep(g) \/ ReloadReadFails(g)
  BY DEF Reload, ReloadFails
<1>2. reloading[g].at # "idle"
  BY <1>1 DEF ReloadStep, ReloadRead, ReloadRemove, ReloadStop, ReloadAdd, ReloadEnds,
     ReloadReadFails
<1>3. \A h \in Goroutine : h # g => reloading'[h].at = reloading[h].at
  <2>1. CASE ReloadRead(g)
    <3>1. \A h \in Goroutine : h # g => reloading'[h] = Disturbed[h]
      BY <2>1, DisturbedType DEF ReloadRead, TypeInv
    <3> QED
      BY <3>1, DisturbedType DEF TypeInv
  <2>2. CASE ~ReloadRead(g)
    BY <1>1, <2>2 DEF ReloadStep, ReloadRemove, ReloadStop, ReloadAdd, ReloadEnds,
       ReloadReadFails, TypeInv, TypedCron
  <2> QED
    BY <2>1, <2>2
<1>4. Active(g)
  BY <1>2 DEF Active
<1> QED
  BY <1>2, <1>3, <1>4, OwnerThere, ExecutionCron DEF ExecutionInv, Reload, ReloadFails

LEMMA ExecutionBlueprints ==
    ASSUME TypeInv, ExecutionInv,
           PatchProject \/ \E g \in Goroutine : SaveBlueprint(g) \/ SaveBlueprintFails(g)
    PROVE  ExecutionInv'
<1>1. Owner # {} /\ UNCHANGED <<migrator, own, rigid>>
  BY ServingOwns DEF PatchProject, SaveBlueprint, SaveBlueprintFails, GateIsOpen
<1>2. \A h \in Goroutine : Disturbed[h].at = reloading[h].at
  BY DisturbedType DEF TypeInv
<1>3. CASE PatchProject \/ \E g \in Goroutine : SaveBlueprintFails(g)
  <2>1. reloading' = Disturbed
    BY <1>3 DEF PatchProject, SaveBlueprintFails
  <2> QED
    BY <1>1, <1>2, <2>1, ExecutionCron
<1>4. ASSUME NEW g \in Goroutine, SaveBlueprint(g)
      PROVE  ExecutionInv'
  <2>1. reloading' = CallReload(Disturbed, g) /\ ~Executing(g)
    BY <1>4 DEF SaveBlueprint, Active
  <2>2. TypedCron /\ Disturbed \in [Goroutine -> ReloadState]
    BY DisturbedType DEF TypeInv
  <2>3. \A h \in Goroutine : h # g => reloading'[h] = Disturbed[h]
    <3>1. \A h \in Goroutine : h # g => CallReload(Disturbed, g)[h] = Disturbed[h]
      BY <2>2, CallType
    <3> QED
      BY <2>1, <3>1
  <2> QED
    BY <1>1, <1>2, <2>1, <2>3, ExecutionCron
<1> QED
  BY <1>3, <1>4

LEMMA ExecutionReturns ==
    ASSUME TypeInv, ExecutionInv, NEW g \in Goroutine, Returns(g)
    PROVE  ExecutionInv'
<1>1. CASE g = Main
  BY <1>1, ExecutionEnds DEF Returns
<1>2. CASE g # Main
  <2>1. /\ migrating' = [migrating EXCEPT ![g] = NotMigrating]
        /\ reloading' = [reloading EXCEPT ![g] = NotReloading]
        /\ starting' = [starting EXCEPT ![g] = "no"]
        /\ UNCHANGED <<history, pending, process, loaded, consumers, stale, rigid>>
        /\ "failed" \in {migrating[g].at, reloading[g].at, starting[g]}
    BY <1>2 DEF Returns
  <2>2. Owner # {} /\ Owner' = Owner
    BY <2>1, OwnerThere DEF ExecutionInv, Active, Executing, Owner
  <2>3. /\ \A h \in Goroutine : h # g => /\ migrating'[h] = migrating[h]
                                         /\ starting'[h] = starting[h]
                                         /\ reloading'[h] = reloading[h]
        /\ migrating'[g].at = "idle" /\ starting'[g] = "no" /\ reloading'[g].at = "idle"
    BY <2>1 DEF TypeInv, TypedMigrator, TypedCron, TypedProcesses, NotMigrating, NotReloading
  <2>4. \A h \in Goroutine : Applying(h)' => Applying(h) /\ migrating'[h].left = migrating[h].left
    BY <2>3 DEF Applying
  <2>5. \A h \in Goroutine : Finished(h)' => Finished(h)
    BY <2>3 DEF Finished
  <2>6. \A h \in Goroutine : Executing(h)' => Executing(h)
    BY <2>3 DEF Executing
  <2>7. Views' /\ Fresh' /\ Resting'
    BY <2>1, <2>2, <2>4, ViewsKept, FreshKept, RestingKept DEF ExecutionInv
  <2>8. Turns'
    BY <2>1, <2>3 DEF ExecutionInv, Turns
  <2>9. Alone'
    BY <2>1, <2>4, <2>5, <2>6, AloneKept DEF ExecutionInv, rigid
  <2> QED
    BY <2>7, <2>8, <2>9 DEF ExecutionInv
<1> QED
  BY <1>1, <1>2

\* Every step keeps the invariant.
LEMMA ExecutionStep ==
    ASSUME TypeInv, ExecutionInv, [Next]_vars
    PROVE  ExecutionInv'
<1>1. CASE UNCHANGED vars
  <2>1. UNCHANGED <<history, pending, migrating, reloading, crons, overlapping, process, loaded,
                    starting, consumers, stale>>
    BY <1>1 DEF vars, migrator, cronVars, own, rigid
  <2> QED
    BY <2>1 DEF ExecutionInv, Views, Fresh, Resting, Turns, Alone, Applying, Finished, Executing,
       Active, Owner
<1>2. CASE Crash
  BY <1>2, ExecutionEnds DEF Crash
<1>3. CASE \E p \in Process : InitResources(p) \/ LockDb(p) \/ LockTimeout(p)
  BY <1>3, ExecutionInitResources, ExecutionLockDb, ExecutionLockTimeout
<1>4. CASE PatchProject \/ \E g \in Goroutine : SaveBlueprint(g) \/ SaveBlueprintFails(g)
  BY <1>4, ExecutionBlueprints
<1>5. ASSUME NEW g \in Goroutine, MigratorStep(g) \/ MigratorFails(g)
      PROVE  ExecutionInv'
  BY <1>5, ExecutionSteps, ExecutionRecord DEF MigratorStep, MigratorFails
<1>6. CASE \E g \in Goroutine : Goes(g) \/ MigratorFails(g) \/ ReloadFails(g)
  BY <1>5, <1>6, ExecutionNewCronManager, ExecutionReset, ExecutionStartConsumer,
     ExecutionReload, ExecutionReturns DEF Goes
<1>7. CASE \E g \in Goroutine : Proceed(g) \/ ResetFails(g)
  BY <1>7, ExecutionProceed, ExecutionReset
<1> QED
  BY <1>1, <1>2, <1>3, <1>4, <1>6, <1>7 DEF Next

LEMMA ExecutionInvariant == Spec => [](TypeInv /\ ExecutionInv)
<1>1. Init => ExecutionInv
  BY ExecutionInit
<1>2. TypeInv /\ ExecutionInv /\ [Next]_vars => ExecutionInv'
  BY ExecutionStep
<1> QED
  BY <1>1, <1>2, TypesInvariant, PTL DEF Spec

\* Migrations are applied in the order of their versions, whoever executes them
\* at the same time and whatever the process with the lock has seen of the history.
THEOREM AppliedInOrder == Spec => []InOrder
<1>1. ASSUME TypeInv, ExecutionInv
      PROVE  InOrder
  <2>1. SUFFICES ASSUME NEW g \in Goroutine, Applying(g), NEW s \in Script,
                        s < FirstOf(migrating[g].left)
                 PROVE  s \in history
    BY DEF InOrder
  <2>2. migrating[g].left \in SUBSET Script /\ migrating[g].left # {}
    BY <1>1, <2>1 DEF TypeInv, TypedMigrator, ExecuteState
  <2>3. s \notin migrating[g].left
    <3>1. FirstOf(migrating[g].left) \in Script
          /\ \A r \in migrating[g].left : FirstOf(migrating[g].left) <= r
      BY <2>2, FirstScript
    <3>2. FirstOf(migrating[g].left) \in Nat /\ s \in Nat
      BY <3>1, ScriptAssumption
    <3> QED
      BY <2>1, <3>1, <3>2
  <2> QED
    BY <1>1, <2>1, <2>3 DEF ExecutionInv, Views, IsView
<1> QED
  BY <1>1, ExecutionInvariant, PTL

\* No migration is applied after it was recorded, unless confirmations overlap or
\* the lock was taken with an old view of the history.
THEOREM NotAppliedAgain == Spec => []NotAgain
<1>1. ASSUME TypeInv, ExecutionInv
      PROVE  NotAgain
  <2>1. SUFFICES ASSUME ~overlapping, ~stale, NEW g \in Goroutine, migrating[g].at = "up"
                 PROVE  FirstOf(migrating[g].left) \notin history
    BY DEF NotAgain
  <2>2. Applying(g) /\ Active(g)
    BY <2>1 DEF Applying, Active, Executing
  <2>3. pending = Script \ history
    BY <1>1, <2>1, <2>2, OwnerThere DEF ExecutionInv, Fresh
  <2>4. migrating[g].left = pending
    BY <1>1, <2>1, <2>2 DEF ExecutionInv, Alone
  <2>5. migrating[g].left \in SUBSET Script /\ migrating[g].left # {}
    BY <1>1, <2>2 DEF TypeInv, TypedMigrator, ExecuteState
  <2> QED
    BY <2>3, <2>4, <2>5, FirstScript
<1> QED
  BY <1>1, ExecutionInvariant, PTL

\* The loop that runs pipelines is started at most once in a process, unless
\* confirmations overlap.
THEOREM StartedOnce == Spec => []OneConsumer
<1>1. ExecutionInv => OneConsumer
  BY DEF ExecutionInv, Alone, OneConsumer
<1> QED
  BY <1>1, ExecutionInvariant, PTL
=============================================================================
