-------------------------- MODULE ServerCronProofs --------------------------
(***************************************************************************)
(* Proofs about Server: however the reloads of the cron interleave, once    *)
(* nobody is at work no blueprint that was there from the start is          *)
(* forgotten, and the jobs are the enabled blueprints unless something      *)
(* came between.                                                            *)
(***************************************************************************)
EXTENDS ServerProofs

\* A blueprint that was never changed, and is on the first page of any set.
Kept(b) == b \in FirstPage(Blueprint) /\ b \in enabled /\ version[b] = 0

\* The reload g will add the first job of b to the last cron, or run that cron.
WillAdd(g, b) ==
    /\ reloading[g].at \in AtWork /\ reloading[g].cron = CronManager
    /\ <<b, 0>> \in reloading[g].list
WillRun(g) ==
    reloading[g].at \in AtWork /\ reloading[g].cron = CronManager /\ reloading[g].any

HasJob(b) == crons[CronManager].jobs[<<b, 0>>] > 0 \/ \E g \in Goroutine : WillAdd(g, b)
Runs == crons[CronManager].running \/ \E g \in Goroutine : WillRun(g)

\* The last cron is still to be filled, by the one that starts the services.
WillLoad(g) ==
    \/ starting[g] = "reset"
    \/ starting[g] = "reload" /\ reloading[g].at = "read" /\ reloading[g].cron = CronManager
Loading == \E g \in Goroutine : WillLoad(g)

\* The goroutines that go on to start a consumer, each with a cron of its own.
Outstanding ==
    {g \in Goroutine : starting[g] \in {"reset", "reload"} /\ reloading[g].at # "failed"}
Started == consumers + Cardinality(Outstanding)

\* A reload does not lose a blueprint that is kept until its job is added.
Carried ==
    \A g \in Goroutine, b \in Blueprint : Kept(b) =>
        /\ reloading[g].at \in {"remove", "stop"} => <<b, 0>> \in reloading[g].list
        /\ reloading[g].at \in AtWork => reloading[g].any

\* There is a cron for each consumer, and if no start failed the last cron has what
\* is kept, or will get it.
KeptInv ==
    /\ Carried
    /\ IsFiniteSet(Outstanding)
    /\ Started <= CronManager
    /\ CronManager > 0 /\ Started = CronManager =>
          Loading \/ \A b \in Blueprint : Kept(b) => HasJob(b) /\ Runs

\* The jobs a reload has to add, and the jobs of a cron that has these.
Wanted == {<<b, version[b]>> : b \in FirstPage(enabled)}
Jobs(list) == [j \in Job |-> IF j \in list THEN 1 ELSE 0]

\* A reload that nothing disturbed since it read has its cron to itself.
AloneInv ==
    \A g \in Goroutine : reloading[g].at \in AtWork /\ reloading[g].alone =>
        /\ \A h \in Goroutine : h # g => reloading[h].at \notin AtWork
        /\ reloading[g].any = (enabled # {})
        /\ reloading[g].at \in {"remove", "stop"} => reloading[g].list = Wanted
        /\ reloading[g].at = "stop" => crons[reloading[g].cron].jobs = Jobs({})
        /\ reloading[g].at = "add" =>
              /\ reloading[g].list \subseteq Wanted
              /\ crons[reloading[g].cron].jobs = Jobs(Wanted \ reloading[g].list)
              /\ crons[reloading[g].cron].running = FALSE

\* After it the last cron is right, until something is changed.
SyncInv ==
    /\ CronManager > 0 /\ ~unsynced
    /\ \A g \in Goroutine : reloading[g].at \in AtWork => reloading[g].cron # CronManager
    => /\ crons[CronManager].jobs = Jobs(Wanted)
       /\ crons[CronManager].running = (enabled # {})

CronInv == KeptInv /\ AloneInv /\ SyncInv

-----------------------------------------------------------------------------
(* What steps do to reloads.                                                *)

\* A cron that there is.
LEMMA CronThere ==
    ASSUME TypedCron, NEW c \in 1 .. CronManager
    PROVE  /\ crons[c] \in Cron /\ crons[c].running \in BOOLEAN
           /\ crons[c].jobs \in [Job -> Nat]
<1>1. crons[c] \in Cron
  BY DEF TypedCron, CronManager
<1> QED
  BY <1>1 DEF Cron

\* What the step of one reload leaves alone.
LEMMA ReloadOthers ==
    ASSUME TypedCron, NEW x \in Goroutine, ReloadStep(x) \/ ReloadReadFails(x)
    PROVE  /\ \A h \in Goroutine : h # x =>
                /\ reloading'[h].at = reloading[h].at /\ reloading'[h].cron = reloading[h].cron
                /\ reloading'[h].list = reloading[h].list /\ reloading'[h].any = reloading[h].any
                /\ reloading'[h].alone => reloading[h].alone /\ ~ReloadRead(x)
           /\ CronManager' = CronManager
           /\ \A c \in 1 .. CronManager : c # reloading[x].cron => crons'[c] = crons[c]
           /\ UNCHANGED blueprints
<1>1. ASSUME NEW h \in Goroutine, h # x
      PROVE  /\ reloading'[h].at = reloading[h].at /\ reloading'[h].cron = reloading[h].cron
             /\ reloading'[h].list = reloading[h].list /\ reloading'[h].any = reloading[h].any
             /\ reloading'[h].alone => reloading[h].alone /\ ~ReloadRead(x)
  <2>1. CASE ReloadRead(x)
    <3>1. reloading'[h] = Disturbed[h]
      BY <1>1, <2>1, DisturbedType DEF ReloadRead
    <3> QED
      BY <3>1, DisturbedType
  <2>2. CASE ~ReloadRead(x)
    <3>1. reloading'[h] = reloading[h]
      BY <1>1, <2>2 DEF ReloadStep, ReloadRemove, ReloadStop, ReloadAdd, ReloadEnds,
         ReloadReadFails, TypedCron
    <3> QED
      BY <2>2, <3>1
  <2> QED
    BY <2>1, <2>2
<1>2. /\ CronManager' = CronManager
      /\ \A c \in 1 .. CronManager : c # reloading[x].cron => crons'[c] = crons[c]
  <2>1. crons \in Seq(Cron)
    BY DEF TypedCron
  <2>2. CASE UNCHANGED crons
    BY <2>2 DEF CronManager
  <2>3. ASSUME NEW k, crons' = [crons EXCEPT ![reloading[x].cron] = k]
        PROVE  /\ CronManager' = CronManager
               /\ \A c \in 1 .. CronManager : c # reloading[x].cron => crons'[c] = crons[c]
    BY <2>1, <2>3 DEF CronManager
  <2>4. CASE ReloadRemove(x)
    BY <2>3, <2>4 DEF ReloadRemove
  <2>5. CASE ReloadStop(x)
    BY <2>3, <2>5 DEF ReloadStop
  <2>6. CASE ReloadAdd(x)
    BY <2>3, <2>6 DEF ReloadAdd
  <2>7. CASE ReloadEnds(x)
    BY <2>3, <2>7 DEF ReloadEnds
  <2> QED
    BY <2>2, <2>4, <2>5, <2>6, <2>7 DEF ReloadStep, ReloadRead, ReloadReadFails
<1>3. UNCHANGED blueprints
  BY DEF ReloadStep, ReloadRead, ReloadRemove, ReloadStop, ReloadAdd, ReloadEnds, ReloadReadFails
<1> QED
  BY <1>1, <1>2, <1>3

\* The blueprints are read.
LEMMA ReadEffect ==
    ASSUME TypedCron, NEW x \in Goroutine, ReloadRead(x)
    PROVE  /\ reloading[x].at = "read" /\ reloading'[x].cron = reloading[x].cron
           /\ UNCHANGED <<blueprints, crons, unsynced>>
           /\ \/ reloading'[x].at = "failed"
              \/ /\ reloading'[x].at = "remove" /\ reloading'[x].list = Wanted
                 /\ reloading'[x].any = (enabled # {})
                 /\ reloading'[x].alone = (\A y \in Goroutine \ {x} : ~Reloads(y))
<1> DEFINE d == Disturbed[x]
           alone == \A y \in Reloader \ {x} : ~Reloads(y)
<1>1. /\ reloading[x].at = "read" /\ UNCHANGED <<blueprints, crons, unsynced>>
      /\ reloading' = [Disturbed EXCEPT ![x] =
            IF d.cron = 0 THEN [d EXCEPT !.at = "failed"]
            ELSE [d EXCEPT !.at = "remove", !.list = Wanted, !.any = (enabled # {}),
                           !.alone = alone]]
  BY DEF ReloadRead, Wanted
<1>2. d \in ReloadState /\ d.cron = reloading[x].cron /\ Disturbed \in [Goroutine -> ReloadState]
  BY DisturbedType
<1>3. alone = (\A y \in Goroutine \ {x} : ~Reloads(y))
  BY ServerAssumption
<1> HIDE DEF d, alone
<1>4. reloading'[x] = IF d.cron = 0 THEN [d EXCEPT !.at = "failed"]
                      ELSE [d EXCEPT !.at = "remove", !.list = Wanted, !.any = (enabled # {}),
                                     !.alone = alone]
  BY <1>1, <1>2
<1>5. CASE d.cron = 0
  <2>1. reloading'[x] = [d EXCEPT !.at = "failed"]
    BY <1>4, <1>5
  <2> QED
    BY <1>1, <1>2, <2>1 DEF ReloadState
<1>6. CASE d.cron # 0
  <2>1. reloading'[x] = [d EXCEPT !.at = "remove", !.list = Wanted, !.any = (enabled # {}),
                                  !.alone = alone]
    BY <1>4, <1>6
  <2>2. /\ reloading'[x].at = "remove" /\ reloading'[x].list = Wanted
        /\ reloading'[x].any = (enabled # {}) /\ reloading'[x].alone = alone
        /\ reloading'[x].cron = d.cron
    BY <1>2, <2>1 DEF ReloadState
  <2> QED
    BY <1>1, <1>2, <1>3, <2>2
<1> QED
  BY <1>5, <1>6

\* The steps on a cron.
LEMMA WorkEffect ==
    ASSUME TypedCron, NEW x \in Goroutine,
           ReloadRemove(x) \/ ReloadStop(x) \/ ReloadAdd(x)
    PROVE  LET c == reloading[x].cron IN
           /\ c \in 1 .. CronManager /\ reloading[x].at \in AtWork /\ reloading'[x].at \in AtWork
           /\ reloading'[x].cron = c /\ reloading'[x].any = reloading[x].any
           /\ reloading'[x].alone = reloading[x].alone
           /\ UNCHANGED unsynced
           /\ ReloadRemove(x) =>
                /\ reloading[x].at = "remove" /\ reloading'[x].at = "stop"
                /\ reloading'[x].list = reloading[x].list
                /\ crons'[c].jobs = Jobs({}) /\ crons'[c].running = crons[c].running
           /\ ReloadStop(x) =>
                /\ reloading[x].at = "stop" /\ reloading'[x].at = "add"
                /\ reloading'[x].list = reloading[x].list
                /\ crons'[c].jobs = crons[c].jobs /\ crons'[c].running = FALSE
           /\ ReloadAdd(x) =>
                /\ reloading[x].at = "add" /\ reloading'[x].at = "add"
                /\ \E j \in reloading[x].list :
                     /\ j \in Job /\ reloading'[x].list = reloading[x].list \ {j}
                     /\ crons'[c].jobs = [crons[c].jobs EXCEPT ![j] = crons[c].jobs[j] + 1]
                /\ crons'[c].running = crons[c].running
<1> DEFINE r == reloading[x]
           c == r.cron
<1>1. r \in ReloadState /\ crons \in Seq(Cron)
  BY DEF TypedCron
<1>2. r.at \in AtWork
  BY DEF ReloadRemove, ReloadStop, ReloadAdd, AtWork
<1>3. c \in 1 .. CronManager /\ c \in 1 .. Len(crons)
  BY <1>1, <1>2 DEF TypedCron, CronManager
<1>4. crons[c] \in Cron
  BY <1>3, CronThere
<1>5. CASE ReloadRemove(x)
  <2>1. /\ r.at = "remove" /\ UNCHANGED unsynced
        /\ reloading'[x] = [r EXCEPT !.at = "stop"]
        /\ crons'[c] = [crons[c] EXCEPT !.jobs = NewCron.jobs]
    BY <1>1, <1>3, <1>5 DEF ReloadRemove, TypedCron
  <2>2. NewCron.jobs = Jobs({})
    BY DEF NewCron, Jobs
  <2>3. crons'[c].jobs = Jobs({}) /\ crons'[c].running = crons[c].running
    BY <1>4, <2>1, <2>2 DEF Cron
  <2>4. /\ reloading'[x].at = "stop" /\ reloading'[x].list = r.list /\ reloading'[x].cron = c
        /\ reloading'[x].any = r.any /\ reloading'[x].alone = r.alone
    BY <1>1, <2>1 DEF ReloadState
  <2>5. ~ReloadStop(x) /\ ~ReloadAdd(x)
    BY <2>1 DEF ReloadStop, ReloadAdd
  <2> QED
    BY <1>2, <1>3, <2>1, <2>3, <2>4, <2>5 DEF AtWork
<1>6. CASE ReloadStop(x)
  <2> DEFINE k == [crons[c] EXCEPT !.running = FALSE]
  <2>1. /\ r.at = "stop" /\ UNCHANGED unsynced
        /\ reloading'[x] = [r EXCEPT !.at = "add"]
        /\ crons'[c] = [crons[c] EXCEPT !.running = FALSE]
    <3>1. /\ r.at = "stop" /\ UNCHANGED unsynced
          /\ crons' = [crons EXCEPT ![c] = k]
          /\ reloading' = [reloading EXCEPT ![x].at = "add"]
      BY <1>6 DEF ReloadStop
    <3>2. crons'[c] = k
      <4> HIDE DEF k
      <4> QED
        BY <1>1, <1>3, <3>1
    <3>3. reloading'[x] = [r EXCEPT !.at = "add"]
      BY <3>1 DEF TypedCron
    <3> QED
      BY <3>1, <3>2, <3>3
  <2>2. crons'[c].jobs = crons[c].jobs /\ crons'[c].running = FALSE
    BY <1>4, <2>1 DEF Cron
  <2>3. /\ reloading'[x].at = "add" /\ reloading'[x].list = r.list /\ reloading'[x].cron = c
        /\ reloading'[x].any = r.any /\ reloading'[x].alone = r.alone
    BY <1>1, <2>1 DEF ReloadState
  <2>4. ~ReloadRemove(x) /\ ~ReloadAdd(x)
    BY <2>1 DEF ReloadRemove, ReloadAdd
  <2> QED
    BY <1>2, <1>3, <2>1, <2>2, <2>3, <2>4 DEF AtWork
<1>7. CASE ReloadAdd(x)
  <2>1. PICK j \in r.list :
          /\ crons' = [crons EXCEPT ![c].jobs[j] = @ + 1]
          /\ reloading' = [reloading EXCEPT ![x].list = @ \ {j}]
    BY <1>7 DEF ReloadAdd
  <2>2. r.at = "add" /\ UNCHANGED unsynced
    BY <1>7 DEF ReloadAdd
  <2>3. crons'[c] = [crons[c] EXCEPT !.jobs = [crons[c].jobs EXCEPT ![j] = crons[c].jobs[j] + 1]]
    BY <1>1, <1>3, <2>1
  <2>4. reloading'[x] = [r EXCEPT !.list = r.list \ {j}]
    BY <2>1 DEF TypedCron
  <2>5. /\ crons'[c].jobs = [crons[c].jobs EXCEPT ![j] = crons[c].jobs[j] + 1]
        /\ crons'[c].running = crons[c].running
    BY <1>4, <2>3 DEF Cron
  <2>6. /\ reloading'[x].at = "add" /\ reloading'[x].list = r.list \ {j} /\ reloading'[x].cron = c
        /\ reloading'[x].any = r.any /\ reloading'[x].alone = r.alone
    BY <1>1, <2>2, <2>4 DEF ReloadState
  <2>7. j \in Job
    BY <1>1 DEF ReloadState
  <2>8. ~ReloadRemove(x) /\ ~ReloadStop(x)
    BY <2>2 DEF ReloadRemove, ReloadStop
  <2> QED
    BY <1>2, <1>3, <2>2, <2>5, <2>6, <2>7, <2>8 DEF AtWork
<1> QED
  BY <1>5, <1>6, <1>7

\* The end of a reload.
LEMMA EndEffect ==
    ASSUME TypedCron, NEW x \in Goroutine, ReloadEnds(x)
    PROVE  LET c == reloading[x].cron IN
           /\ c \in 1 .. CronManager /\ reloading[x].at = "add" /\ reloading[x].list = {}
           /\ reloading'[x].at = "idle"
           /\ crons'[c].jobs = crons[c].jobs
           /\ crons'[c].running = (crons[c].running \/ reloading[x].any)
           /\ unsynced' = (~reloading[x].alone \/ c # CronManager)
<1> DEFINE r == reloading[x]
           c == r.cron
<1>1. r \in ReloadState /\ crons \in Seq(Cron)
  BY DEF TypedCron
<1>2. r.at = "add" /\ r.list = {} /\ r.at \in AtWork
  BY DEF ReloadEnds, AtWork
<1>3. c \in 1 .. CronManager /\ c \in 1 .. Len(crons)
  BY <1>1, <1>2 DEF TypedCron, CronManager
<1>4. crons[c] \in Cron
  BY <1>3, CronThere
<1>5. /\ crons'[c] = [crons[c] EXCEPT !.running = (crons[c].running \/ r.any)]
      /\ reloading'[x] = NotReloading
      /\ unsynced' = (~r.alone \/ c # CronManager)
  BY <1>1, <1>3 DEF ReloadEnds, TypedCron
<1>6. crons'[c].jobs = crons[c].jobs /\ crons'[c].running = (crons[c].running \/ r.any)
  BY <1>4, <1>5 DEF Cron
<1>7. reloading'[x].at = "idle"
  BY <1>5 DEF NotReloading
<1> QED
  BY <1>2, <1>3, <1>5, <1>6, <1>7

-----------------------------------------------------------------------------
(* What the invariant needs of a step.                                      *)

\* A blueprint that is kept after a step was kept before.
LEMMA KeptSame ==
    ASSUME UNCHANGED blueprints
    PROVE  /\ \A b \in Blueprint : Kept(b)' <=> Kept(b)
           /\ Wanted' = Wanted /\ enabled' = enabled
<1>1. enabled' = enabled /\ version' = version
  BY DEF blueprints
<1> QED
  BY <1>1 DEF Kept, Wanted, FirstPage

LEMMA KeptBefore ==
    ASSUME TypedCron, NEW c \in Blueprint, NEW on \in BOOLEAN, Change(c, on)
    PROVE  \A b \in Blueprint : Kept(b)' => Kept(b)
<1>1. /\ enabled' = (IF on THEN enabled \cup {c} ELSE enabled \ {c})
      /\ version' = [version EXCEPT ![c] = @ + 1]
  BY DEF Change
<1>2. ASSUME NEW b \in Blueprint, Kept(b)'
      PROVE  Kept(b)
  <2>1. version'[b] = 0 /\ b \in enabled' /\ b \in FirstPage(Blueprint)
    BY <1>2 DEF Kept, FirstPage
  <2>2. b # c
    <3>1. version[c] \in 0 .. MaxChanges
      BY DEF TypedCron
    <3>2. version'[c] = version[c] + 1
      BY <1>1 DEF TypedCron
    <3>3. version[c] + 1 # 0
      BY <3>1, BlueprintAssumption
    <3> QED
      BY <2>1, <3>2, <3>3
  <2>3. version[b] = 0 /\ b \in enabled
    BY <1>1, <2>1, <2>2 DEF TypedCron
  <2> QED
    BY <2>1, <2>3 DEF Kept
<1> QED
  BY <1>2

\* The goroutines that go on to start a consumer become fewer.
LEMMA StartedFalls ==
    ASSUME KeptInv, TypeInv, Outstanding' \subseteq Outstanding,
           UNCHANGED consumers, CronManager' = CronManager
    PROVE  /\ IsFiniteSet(Outstanding)' /\ (Started <= CronManager)'
           /\ (Started = CronManager)' => Outstanding' = Outstanding /\ Started = CronManager
<1> DEFINE n == Cardinality(Outstanding)
           m == Cardinality(Outstanding')
<1>1. IsFiniteSet(Outstanding) /\ consumers + n <= CronManager
  BY DEF KeptInv, Started
<1>2. IsFiniteSet(Outstanding') /\ m <= n /\ (n = m => Outstanding = Outstanding')
  BY <1>1, FS_Subset
<1>3. n \in Nat /\ m \in Nat
  BY <1>1, <1>2, FS_CardinalityType
<1>4. consumers \in Nat /\ CronManager \in Nat
  BY DEF TypeInv, TypedProcesses, TypedCron, CronManager
<1>5. Started' = consumers + m /\ Started = consumers + n
  BY DEF Started
<1> HIDE DEF n, m
<1> QED
  BY <1>1, <1>2, <1>3, <1>4, <1>5

\* The last cron and its reloads stay as they are.
LEMMA LoadedKept ==
    ASSUME Loading \/ \A b \in Blueprint : Kept(b) => HasJob(b) /\ Runs,
           CronManager' = CronManager, crons'[CronManager] = crons[CronManager],
           \A g \in Goroutine : WillLoad(g) => WillLoad(g)',
           \A b \in Blueprint : Kept(b)' => Kept(b),
           \A g \in Goroutine : reloading[g].at \in AtWork =>
              /\ reloading'[g].at \in AtWork /\ reloading'[g].cron = reloading[g].cron
              /\ reloading'[g].list = reloading[g].list /\ reloading'[g].any = reloading[g].any
    PROVE  (Loading \/ \A b \in Blueprint : Kept(b) => HasJob(b) /\ Runs)'
<1>1. Loading => Loading'
  BY DEF Loading
<1>2. \A g \in Goroutine : (WillRun(g) => WillRun(g)')
  BY DEF WillRun
<1>3. \A g \in Goroutine, b \in Blueprint : (WillAdd(g, b) => WillAdd(g, b)')
  BY DEF WillAdd
<1>4. Runs => Runs'
  BY <1>2 DEF Runs
<1>5. \A b \in Blueprint : HasJob(b) => HasJob(b)'
  BY <1>3 DEF HasJob
<1> QED
  BY <1>1, <1>4, <1>5

LEMMA CarriedKept ==
    ASSUME Carried, \A b \in Blueprint : Kept(b)' => Kept(b),
           \A g \in Goroutine : reloading'[g].at \in AtWork =>
              /\ reloading[g].at = reloading'[g].at
              /\ reloading'[g].list = reloading[g].list /\ reloading'[g].any = reloading[g].any
    PROVE  Carried'
  BY DEF Carried, AtWork

\* No goroutine starts and none fails, and the reloads at work stay as they are.
LEMMA KeptKept ==
    ASSUME TypeInv, KeptInv, UNCHANGED <<starting, consumers, crons>>,
           \A b \in Blueprint : Kept(b)' => Kept(b),
           \A g \in Goroutine :
              /\ reloading'[g].at = "failed" <=> reloading[g].at = "failed"
              /\ reloading[g].at = "read" =>
                    reloading'[g].at = "read" /\ reloading'[g].cron = reloading[g].cron
              /\ reloading[g].at \in AtWork \/ reloading'[g].at \in AtWork =>
                    /\ reloading'[g].at = reloading[g].at /\ reloading'[g].cron = reloading[g].cron
                    /\ reloading'[g].list = reloading[g].list
                    /\ reloading'[g].any = reloading[g].any
    PROVE  KeptInv'
<1>1. CronManager' = CronManager
  BY DEF CronManager
<1>2. Outstanding' = Outstanding
  BY DEF Outstanding
<1>3. Carried'
  BY CarriedKept DEF KeptInv
<1>4. /\ IsFiniteSet(Outstanding)' /\ (Started <= CronManager)'
      /\ (Started = CronManager)' => Started = CronManager
  BY <1>1, <1>2 DEF KeptInv, Started
<1>5. \A g \in Goroutine : (WillLoad(g) => WillLoad(g)')
  BY <1>1 DEF WillLoad
<1>6. (CronManager > 0 /\ Started = CronManager)' =>
         (Loading \/ \A b \in Blueprint : Kept(b) => HasJob(b) /\ Runs)'
  <2>1. SUFFICES ASSUME (CronManager > 0 /\ Started = CronManager)'
                 PROVE  (Loading \/ \A b \in Blueprint : Kept(b) => HasJob(b) /\ Runs)'
    OBVIOUS
  <2>2. Loading \/ \A b \in Blueprint : Kept(b) => HasJob(b) /\ Runs
    BY <1>1, <1>4, <2>1 DEF KeptInv
  <2> QED
    BY <1>1, <1>5, <2>2, LoadedKept
<1> QED
  BY <1>3, <1>4, <1>6 DEF KeptInv

\* The reloads at work and their crons stay as they are.
LEMMA AlonesKept ==
    ASSUME TypedCron, AloneInv, UNCHANGED blueprints,
           \A c \in 1 .. CronManager : crons'[c] = crons[c],
           \A g \in Goroutine : reloading'[g].at \in AtWork => reloading'[g] = reloading[g]
    PROVE  AloneInv'
<1>1. Wanted' = Wanted /\ enabled' = enabled
  BY KeptSame
<1>2. ASSUME NEW g \in Goroutine, reloading'[g].at \in AtWork, reloading'[g].alone
      PROVE  /\ \A h \in Goroutine : h # g => reloading'[h].at \notin AtWork
             /\ reloading'[g].any = (enabled' # {})
             /\ reloading'[g].at \in {"remove", "stop"} => reloading'[g].list = Wanted'
             /\ reloading'[g].at = "stop" => crons'[reloading'[g].cron].jobs = Jobs({})
             /\ reloading'[g].at = "add" =>
                   /\ reloading'[g].list \subseteq Wanted'
                   /\ crons'[reloading'[g].cron].jobs = Jobs(Wanted' \ reloading'[g].list)
                   /\ crons'[reloading'[g].cron].running = FALSE
  <2>1. reloading'[g] = reloading[g]
    BY <1>2
  <2>2. reloading[g].cron \in 1 .. CronManager
    BY <1>2, <2>1 DEF TypedCron, CronManager
  <2>3. crons'[reloading'[g].cron] = crons[reloading[g].cron]
    BY <2>1, <2>2
  <2>4. \A h \in Goroutine : h # g => reloading[h].at \notin AtWork
    BY <1>2, <2>1 DEF AloneInv
  <2>5. \A h \in Goroutine : h # g => reloading'[h].at \notin AtWork
    BY <2>4
  <2> QED
    BY <1>1, <1>2, <2>1, <2>3, <2>5 DEF AloneInv
<1> QED
  BY <1>2 DEF AloneInv, Jobs

\* Nobody is alone.
LEMMA NobodyAlone ==
    ASSUME \A g \in Goroutine : reloading'[g].at \in AtWork => reloading'[g].alone = FALSE
    PROVE  AloneInv'
  BY DEF AloneInv

\* The last cron stays as it is, and so do the reloads at work on it.
LEMMA SyncKept ==
    ASSUME SyncInv, UNCHANGED <<blueprints, unsynced>>, CronManager' = CronManager,
           CronManager > 0 => crons'[CronManager] = crons[CronManager],
           \A g \in Goroutine :
              reloading[g].at \in AtWork /\ reloading[g].cron = CronManager =>
                 reloading'[g].at \in AtWork /\ reloading'[g].cron = CronManager
    PROVE  SyncInv'
<1>1. Wanted' = Wanted /\ enabled' = enabled
  BY KeptSame
<1> QED
  BY <1>1 DEF SyncInv, Jobs

-----------------------------------------------------------------------------
(* The invariant and the steps.                                             *)

LEMMA CronInvInit ==
    ASSUME Init
    PROVE  CronInv
<1>1. /\ \A g \in Goroutine : reloading[g].at = "idle" /\ starting[g] = "no"
      /\ consumers = 0 /\ crons = <<>>
  BY ServerAssumption DEF Init, CronInit, NotReloading
<1>2. Outstanding = {} /\ CronManager = 0
  BY <1>1 DEF Outstanding, CronManager
<1>3. KeptInv
  BY <1>1, <1>2, FS_EmptySet DEF KeptInv, Carried, Started, AtWork
<1>4. AloneInv /\ SyncInv
  BY <1>1, <1>2 DEF AloneInv, SyncInv, AtWork
<1> QED
  BY <1>3, <1>4 DEF CronInv

\* Steps that have nothing to do with the cron.
LEMMA CronInvSame ==
    ASSUME TypeInv, CronInv, UNCHANGED <<cronVars, starting, consumers>>
    PROVE  CronInv'
<1>1. UNCHANGED <<blueprints, crons, reloading, unsynced>>
  BY DEF cronVars
<1>2. CronManager' = CronManager
  BY <1>1 DEF CronManager
<1>3. \A b \in Blueprint : Kept(b)' => Kept(b)
  BY <1>1, KeptSame
<1>4. KeptInv'
  BY <1>1, <1>3, KeptKept DEF CronInv
<1>5. AloneInv'
  BY <1>1, AlonesKept DEF CronInv, TypeInv
<1>6. SyncInv'
  BY <1>1, <1>2, SyncKept DEF CronInv
<1> QED
  BY <1>4, <1>5, <1>6 DEF CronInv

\* The process with the lock ends.
LEMMA CronInvEnds ==
    ASSUME TypeInv, CronInv, Ends
    PROVE  CronInv'
<1>1. /\ reloading' = [g \in Goroutine |-> NotReloading]
      /\ starting' = [g \in Goroutine |-> "no"] /\ consumers' = 0 /\ crons' = <<>>
  BY DEF Ends
<1>2. \A g \in Goroutine : reloading'[g].at = "idle" /\ starting'[g] = "no"
  BY <1>1 DEF NotReloading
<1>3. Outstanding' = {} /\ CronManager' = 0
  BY <1>1, <1>2 DEF Outstanding, CronManager
<1>4. KeptInv'
  BY <1>1, <1>2, <1>3, FS_EmptySet DEF KeptInv, Carried, Started, AtWork
<1>5. AloneInv' /\ SyncInv'
  BY <1>2, <1>3 DEF AloneInv, SyncInv, AtWork
<1> QED
  BY <1>4, <1>5 DEF CronInv

\* There is one more cron, and one more goroutine that goes on to use it.
LEMMA CronInvNewCronManager ==
    ASSUME TypeInv, ExecutionInv, CronInv, NEW g \in Goroutine, NewCronManager(g)
    PROVE  CronInv'
<1> DEFINE n == Cardinality(Outstanding)
<1>1. /\ migrating[g].at = "done" /\ crons' = Append(crons, NewCron)
      /\ starting' = [starting EXCEPT ![g] = "reset"] /\ unsynced' = TRUE
      /\ UNCHANGED <<blueprints, reloading, consumers>>
  BY DEF NewCronManager
<1>2. starting[g] = "no" /\ reloading[g].at = "idle"
  BY <1>1 DEF ExecutionInv, Turns
<1>3. \A h \in Goroutine : starting'[h] = IF h = g THEN "reset" ELSE starting[h]
  BY <1>1 DEF TypeInv, TypedProcesses
<1>4. /\ crons \in Seq(Cron) /\ CronManager' = CronManager + 1 /\ CronManager \in Nat
      /\ \A c \in 1 .. CronManager : crons'[c] = crons[c]
  BY <1>1, StateTypes DEF TypeInv, TypedCron, CronManager
<1>5. Outstanding' = Outstanding \cup {g} /\ g \notin Outstanding
  BY <1>1, <1>2, <1>3 DEF Outstanding
<1>6. \A b \in Blueprint : Kept(b)' => Kept(b)
  BY <1>1, KeptSame
<1>7. KeptInv'
  <2>1. IsFiniteSet(Outstanding) /\ consumers + n <= CronManager
    BY DEF CronInv, KeptInv, Started
  <2>2. IsFiniteSet(Outstanding') /\ Cardinality(Outstanding') = n + 1
    BY <1>5, <2>1, FS_AddElement
  <2>3. n \in Nat /\ consumers \in Nat
    BY <2>1, FS_CardinalityType DEF TypeInv, TypedProcesses
  <2>4. Started' = consumers + (n + 1)
    BY <1>1, <2>2 DEF Started
  <2> HIDE DEF n
  <2>5. Started' <= CronManager'
    BY <1>4, <2>1, <2>3, <2>4
  <2>6. WillLoad(g)'
    BY <1>3 DEF WillLoad
  <2>7. Carried'
    BY <1>1, <1>6, CarriedKept DEF CronInv, KeptInv
  <2> QED
    BY <2>2, <2>5, <2>6, <2>7 DEF KeptInv, Loading
<1>8. AloneInv'
  BY <1>1, <1>4, AlonesKept DEF CronInv, TypeInv
<1>9. SyncInv'
  BY <1>1 DEF SyncInv
<1> QED
  BY <1>7, <1>8, <1>9 DEF CronInv

\* Its first reload is called, with the last cron.
LEMMA CronInvResetPipelines ==
    ASSUME TypeInv, ExecutionInv, CronInv, NEW g \in Goroutine, ResetPipelines(g)
    PROVE  CronInv'
<1>1. /\ starting[g] = "reset" /\ reloading' = CallReload(reloading, g)
      /\ starting' = [starting EXCEPT ![g] = "reload"]
      /\ UNCHANGED <<blueprints, crons, unsynced, consumers>>
  BY DEF ResetPipelines
<1>2. reloading[g].at = "idle"
  BY <1>1 DEF ExecutionInv, Turns
<1>3. /\ reloading'[g].at = "read" /\ reloading'[g].cron = CronManager
      /\ \A h \in Goroutine : h # g => reloading'[h] = reloading[h]
  <2>1. TypedCron /\ reloading \in [Goroutine -> ReloadState]
    BY DEF TypeInv, TypedCron
  <2>2. /\ CallReload(reloading, g)[g].at = "read"
        /\ CallReload(reloading, g)[g].cron = CronManager
        /\ \A h \in Goroutine : h # g => CallReload(reloading, g)[h] = reloading[h]
    BY <2>1, CallType
  <2> QED
    BY <1>1, <2>2
<1>4. \A h \in Goroutine : starting'[h] = IF h = g THEN "reload" ELSE starting[h]
  BY <1>1 DEF TypeInv, TypedProcesses
<1>5. CronManager' = CronManager
  BY <1>1 DEF CronManager
<1>6. Outstanding' = Outstanding
  BY <1>1, <1>2, <1>3, <1>4 DEF Outstanding
<1>7. \A h \in Goroutine : reloading'[h].at \in AtWork => h # g
  BY <1>3 DEF AtWork
<1>8. KeptInv'
  <2>1. \A b \in Blueprint : Kept(b)' => Kept(b)
    BY <1>1, KeptSame
  <2>2. Carried'
    BY <1>3, <1>7, <2>1, CarriedKept DEF CronInv, KeptInv
  <2>3. WillLoad(g)'
    BY <1>3, <1>4, <1>5 DEF WillLoad
  <2> QED
    BY <1>1, <1>5, <1>6, <2>2, <2>3 DEF CronInv, KeptInv, Started, Loading
<1>9. AloneInv'
  BY <1>1, <1>3, <1>7, AlonesKept DEF CronInv, TypeInv
<1>10. SyncInv'
  <2>1. reloading[g].at \notin AtWork
    BY <1>2 DEF AtWork
  <2> QED
    BY <1>1, <1>3, <1>5, <2>1, SyncKept DEF CronInv
<1> QED
  BY <1>8, <1>9, <1>10 DEF CronInv

\* The consumer is started.
LEMMA CronInvStartConsumer ==
    ASSUME TypeInv, CronInv, NEW g \in Goroutine, StartConsumer(g)
    PROVE  CronInv'
<1> DEFINE n == Cardinality(Outstanding)
<1>1. /\ starting[g] = "reload" /\ reloading[g].at = "idle" /\ consumers' = consumers + 1
      /\ starting' = [starting EXCEPT ![g] = "no"]
      /\ UNCHANGED <<blueprints, crons, reloading, unsynced>>
  BY DEF StartConsumer, cronVars
<1>2. \A h \in Goroutine : starting'[h] = IF h = g THEN "no" ELSE starting[h]
  BY <1>1 DEF TypeInv, TypedProcesses
<1>3. CronManager' = CronManager
  BY <1>1 DEF CronManager
<1>4. \A b \in Blueprint : Kept(b)' => Kept(b)
  BY <1>1, KeptSame
<1>5. Outstanding' = Outstanding \ {g} /\ g \in Outstanding
  BY <1>1, <1>2 DEF Outstanding
<1>6. IsFiniteSet(Outstanding)' /\ Started' = Started
  <2>1. IsFiniteSet(Outstanding)
    BY DEF CronInv, KeptInv
  <2>2. IsFiniteSet(Outstanding') /\ Cardinality(Outstanding') = n - 1
    BY <1>5, <2>1, FS_RemoveElement
  <2>3. n \in Nat /\ consumers \in Nat
    BY <2>1, FS_CardinalityType DEF TypeInv, TypedProcesses
  <2>4. Started' = (consumers + 1) + (n - 1) /\ Started = consumers + n
    BY <1>1, <2>2 DEF Started
  <2> HIDE DEF n
  <2> QED
    BY <2>2, <2>3, <2>4
<1>7. KeptInv'
  <2>1. Carried'
    BY <1>1, <1>4, CarriedKept DEF CronInv, KeptInv
  <2>2. \A h \in Goroutine : (WillLoad(h) => WillLoad(h)')
    BY <1>1, <1>2, <1>3 DEF WillLoad
  <2>3. ASSUME (CronManager > 0 /\ Started = CronManager)'
        PROVE  (Loading \/ \A b \in Blueprint : Kept(b) => HasJob(b) /\ Runs)'
    <3>1. Loading \/ \A b \in Blueprint : Kept(b) => HasJob(b) /\ Runs
      BY <1>3, <1>6, <2>3 DEF CronInv, KeptInv
    <3> QED
      BY <1>1, <1>3, <1>4, <2>2, <3>1, LoadedKept
  <2> QED
    BY <1>3, <1>6, <2>1, <2>3 DEF CronInv, KeptInv
<1>8. AloneInv'
  BY <1>1, AlonesKept DEF CronInv, TypeInv
<1>9. SyncInv'
  BY <1>1, <1>3, SyncKept DEF CronInv
<1> QED
  BY <1>7, <1>8, <1>9 DEF CronInv

\* A start that fails leaves a cron without a consumer.
LEMMA CronInvResetFails ==
    ASSUME TypeInv, ExecutionInv, CronInv, NEW g \in Goroutine, ResetFails(g)
    PROVE  CronInv'
<1>1. /\ starting[g] = "reset" /\ starting' = [starting EXCEPT ![g] = "failed"]
      /\ UNCHANGED <<blueprints, crons, reloading, unsynced, consumers>>
  BY DEF ResetFails, cronVars
<1>2. \A h \in Goroutine : starting'[h] = IF h = g THEN "failed" ELSE starting[h]
  BY <1>1 DEF TypeInv, TypedProcesses
<1>3. CronManager' = CronManager
  BY <1>1 DEF CronManager
<1>4. reloading[g].at = "idle"
  BY <1>1 DEF ExecutionInv, Turns
<1>5. Outstanding' \subseteq Outstanding /\ Outstanding' # Outstanding
  BY <1>1, <1>2, <1>4 DEF Outstanding
<1>6. IsFiniteSet(Outstanding)' /\ (Started <= CronManager)' /\ ~(Started = CronManager)'
  BY <1>1, <1>3, <1>5, StartedFalls DEF CronInv
<1>7. Carried'
  <2>1. \A b \in Blueprint : Kept(b)' => Kept(b)
    BY <1>1, KeptSame
  <2> QED
    BY <1>1, <2>1, CarriedKept DEF CronInv, KeptInv
<1>8. AloneInv'
  BY <1>1, AlonesKept DEF CronInv, TypeInv
<1>9. SyncInv'
  BY <1>1, <1>3, SyncKept DEF CronInv
<1> QED
  BY <1>6, <1>7, <1>8, <1>9 DEF CronInv, KeptInv

\* A goroutine that failed returns: it was none of those that start.
LEMMA CronInvReturns ==
    ASSUME TypeInv, ExecutionInv, CronInv, NEW g \in Goroutine, Returns(g)
    PROVE  CronInv'
<1>1. CASE g = Main
  BY <1>1, CronInvEnds DEF Returns
<1>2. CASE g # Main
  <2>1. /\ "failed" \in {migrating[g].at, reloading[g].at, starting[g]}
        /\ reloading' = [reloading EXCEPT ![g] = NotReloading]
        /\ starting' = [starting EXCEPT ![g] = "no"]
        /\ UNCHANGED <<blueprints, crons, unsynced, consumers>>
    BY <1>2 DEF Returns
  <2>2. /\ reloading'[g].at = "idle"
        /\ \A h \in Goroutine : h # g => reloading'[h] = reloading[h]
        /\ \A h \in Goroutine : starting'[h] = IF h = g THEN "no" ELSE starting[h]
    BY <2>1 DEF TypeInv, TypedCron, TypedProcesses, NotReloading
  <2>3. /\ reloading[g].at \in {"idle", "failed"}
        /\ starting[g] # "reset"
        /\ g \notin Outstanding
    <3>1. CASE migrating[g].at = "failed"
      BY <3>1 DEF ExecutionInv, Turns, Outstanding
    <3>2. CASE starting[g] = "failed"
      BY <3>2 DEF ExecutionInv, Turns, Outstanding
    <3>3. CASE reloading[g].at = "failed"
      BY <3>3 DEF ExecutionInv, Turns, Outstanding
    <3> QED
      BY <2>1, <3>1, <3>2, <3>3
  <2>4. CronManager' = CronManager
    BY <2>1 DEF CronManager
  <2>5. \A h \in Goroutine : reloading'[h].at \in AtWork \/ reloading[h].at \in AtWork => h # g
    BY <2>2, <2>3 DEF AtWork
  <2>6. Outstanding' = Outstanding
    BY <2>2, <2>3 DEF Outstanding
  <2>7. KeptInv'
    <3>1. \A b \in Blueprint : Kept(b)' => Kept(b)
      BY <2>1, KeptSame
    <3>2. Carried'
      BY <2>2, <2>5, <3>1, CarriedKept DEF CronInv, KeptInv
    <3>3. \A h \in Goroutine : (WillLoad(h) => WillLoad(h)')
      BY <2>2, <2>3, <2>4 DEF WillLoad
    <3>4. ASSUME (CronManager > 0 /\ Started = CronManager)'
          PROVE  (Loading \/ \A b \in Blueprint : Kept(b) => HasJob(b) /\ Runs)'
      <4>1. Loading \/ \A b \in Blueprint : Kept(b) => HasJob(b) /\ Runs
        BY <2>1, <2>4, <2>6, <3>4 DEF CronInv, KeptInv, Started
      <4> QED
        BY <2>1, <2>2, <2>4, <2>5, <3>1, <3>3, <4>1, LoadedKept
    <3> QED
      BY <2>1, <2>4, <2>6, <3>2, <3>4 DEF CronInv, KeptInv, Started
  <2>8. AloneInv'
    BY <2>1, <2>2, <2>5, AlonesKept DEF CronInv, TypeInv
  <2>9. SyncInv'
    BY <2>1, <2>2, <2>4, <2>5, SyncKept DEF CronInv
  <2> QED
    BY <2>7, <2>8, <2>9 DEF CronInv
<1> QED
  BY <1>1, <1>2

\* A blueprint is changed.
LEMMA CronInvChange ==
    ASSUME TypeInv, CronInv, NEW b \in Blueprint, NEW on \in BOOLEAN, Change(b, on),
           UNCHANGED <<starting, consumers, crons>>,
           \A g \in Goroutine :
              \/ reloading'[g] = Disturbed[g]
              \/ reloading[g].at = "idle" /\ reloading'[g].at = "read"
    PROVE  CronInv'
<1>1. \A c \in Blueprint : Kept(c)' => Kept(c)
  BY KeptBefore DEF TypeInv
<1>2. ASSUME NEW g \in Goroutine
      PROVE  \/ /\ reloading'[g].at = reloading[g].at /\ reloading'[g].cron = reloading[g].cron
                /\ reloading'[g].list = reloading[g].list /\ reloading'[g].any = reloading[g].any
                /\ reloading'[g].alone = FALSE
             \/ reloading[g].at = "idle" /\ reloading'[g].at = "read"
  BY DisturbedType DEF TypeInv
<1>3. \A g \in Goroutine :
         /\ reloading'[g].at = "failed" <=> reloading[g].at = "failed"
         /\ reloading[g].at = "read" =>
               reloading'[g].at = "read" /\ reloading'[g].cron = reloading[g].cron
         /\ reloading[g].at \in AtWork \/ reloading'[g].at \in AtWork =>
               /\ reloading'[g].at = reloading[g].at /\ reloading'[g].cron = reloading[g].cron
               /\ reloading'[g].list = reloading[g].list
               /\ reloading'[g].any = reloading[g].any
               /\ reloading'[g].alone = FALSE
  BY <1>2 DEF AtWork
<1>4. KeptInv'
  BY <1>1, <1>3, KeptKept DEF CronInv
<1>5. AloneInv'
  BY <1>3, NobodyAlone
<1>6. SyncInv'
  BY DEF SyncInv, Change
<1> QED
  BY <1>4, <1>5, <1>6 DEF CronInv

LEMMA CronInvBlueprints ==
    ASSUME TypeInv, CronInv,
           PatchProject \/ \E g \in Goroutine : SaveBlueprint(g) \/ SaveBlueprintFails(g)
    PROVE  CronInv'
<1>1. UNCHANGED <<starting, consumers, crons>>
  BY DEF PatchProject, SaveBlueprint, SaveBlueprintFails, own
<1>2. CASE PatchProject \/ \E g \in Goroutine : SaveBlueprintFails(g)
  <2>1. PICK b \in Blueprint, on \in BOOLEAN : Change(b, on)
    BY <1>2 DEF PatchProject, SaveBlueprintFails
  <2>2. reloading' = Disturbed
    BY <1>2 DEF PatchProject, SaveBlueprintFails
  <2> QED
    BY <1>1, <2>1, <2>2, CronInvChange
<1>3. ASSUME NEW g \in Goroutine, SaveBlueprint(g)
      PROVE  CronInv'
  <2>1. PICK b \in Blueprint, on \in BOOLEAN : Change(b, on)
    BY <1>3 DEF SaveBlueprint
  <2>2. reloading' = CallReload(Disturbed, g) /\ reloading[g].at = "idle"
    BY <1>3 DEF SaveBlueprint, Active
  <2>3. TypedCron /\ Disturbed \in [Goroutine -> ReloadState]
    BY DisturbedType DEF TypeInv
  <2>4. /\ CallReload(Disturbed, g)[g].at = "read"
        /\ \A h \in Goroutine : h # g => CallReload(Disturbed, g)[h] = Disturbed[h]
    BY <2>3, CallType
  <2>5. \A h \in Goroutine :
           \/ reloading'[h] = Disturbed[h]
           \/ reloading[h].at = "idle" /\ reloading'[h].at = "read"
    BY <2>2, <2>4
  <2> QED
    BY <1>1, <2>1, <2>5, CronInvChange
<1> QED
  BY <1>2, <1>3

-----------------------------------------------------------------------------
(* The steps of a reload.                                                   *)

\* A reload keeps what it carries.
LEMMA CarriedReload ==
    ASSUME TypedCron, Carried, NEW x \in Goroutine, ReloadStep(x) \/ ReloadReadFails(x)
    PROVE  Carried'
<1>1. /\ \A h \in Goroutine : h # x =>
           /\ reloading'[h].at = reloading[h].at
           /\ reloading'[h].list = reloading[h].list /\ reloading'[h].any = reloading[h].any
      /\ UNCHANGED blueprints
  BY ReloadOthers
<1>2. \A b \in Blueprint : Kept(b)' => Kept(b)
  BY <1>1, KeptSame
<1>3. ASSUME NEW b \in Blueprint, Kept(b)
      PROVE  /\ reloading'[x].at \in {"remove", "stop"} => <<b, 0>> \in reloading'[x].list
             /\ reloading'[x].at \in AtWork => reloading'[x].any
  <2>1. CASE ReloadRead(x)
    <3>1. <<b, 0>> \in Wanted /\ (enabled # {})
      <4>1. b \in enabled /\ version[b] = 0 /\ b \in FirstPage(Blueprint)
        BY <1>3 DEF Kept
      <4>2. b \in FirstPage(enabled)
        <5> DEFINE all == {c \in Blueprint : c > b}
                   some == {c \in enabled : c > b}
        <5>1. IsFiniteSet(all) /\ Cardinality(all) < PageSize
          BY <4>1, BlueprintAssumption, FS_Subset DEF FirstPage
        <5>2. some \in SUBSET all
          BY DEF TypedCron
        <5>3. Cardinality(some) <= Cardinality(all) /\ IsFiniteSet(some)
          BY <5>1, <5>2, FS_Subset
        <5>4. Cardinality(some) \in Nat /\ Cardinality(all) \in Nat /\ PageSize \in Nat
          BY <5>1, <5>3, FS_CardinalityType, BlueprintAssumption
        <5> HIDE DEF all
        <5>5. Cardinality(some) < PageSize
          <6> HIDE DEF some
          <6> QED
            BY <5>1, <5>3, <5>4
        <5> QED
          BY <4>1, <5>5 DEF FirstPage
      <4> QED
        BY <4>1, <4>2 DEF Wanted
    <3>2. CASE reloading'[x].at = "failed"
      BY <3>2 DEF AtWork
    <3>3. CASE reloading'[x].at # "failed"
      BY <2>1, <3>1, <3>3, ReadEffect
    <3> QED
      BY <3>2, <3>3
  <2>2. CASE ReloadReadFails(x)
    <3>1. reloading'[x].at = "failed"
      BY <2>2 DEF ReloadReadFails, TypedCron, ReloadState
    <3> QED
      BY <3>1 DEF AtWork
  <2>3. CASE ReloadRemove(x) \/ ReloadStop(x) \/ ReloadAdd(x)
    <3>1. reloading[x].any
      BY <1>3, <2>3, WorkEffect DEF Carried
    <3>2. reloading[x].at \in {"remove", "stop"} => <<b, 0>> \in reloading[x].list
      BY <1>3 DEF Carried
    <3> QED
      BY <2>3, <3>1, <3>2, WorkEffect
  <2>4. CASE ReloadEnds(x)
    BY <2>4, EndEffect DEF AtWork
  <2> QED
    BY <2>1, <2>2, <2>3, <2>4 DEF ReloadStep
<1> QED
  BY <1>1, <1>2, <1>3 DEF Carried

\* On a last cron that has what is kept, or will get it, that stays so.
LEMMA LoadedReload ==
    ASSUME TypedCron, Carried, Carried', NEW x \in Goroutine,
           ReloadStep(x) \/ ReloadReadFails(x), CronManager > 0,
           NEW b \in Blueprint, Kept(b), Kept(b)', HasJob(b), Runs
    PROVE  HasJob(b)' /\ Runs'
<1> DEFINE c == reloading[x].cron
           j0 == <<b, 0>>
<1>1. /\ \A h \in Goroutine : h # x =>
           /\ reloading'[h].at = reloading[h].at /\ reloading'[h].cron = reloading[h].cron
           /\ reloading'[h].list = reloading[h].list /\ reloading'[h].any = reloading[h].any
      /\ CronManager' = CronManager
      /\ \A d \in 1 .. CronManager : d # c => crons'[d] = crons[d]
  BY ReloadOthers
<1>2. \A h \in Goroutine : h # x => (WillAdd(h, b) => WillAdd(h, b)') /\ (WillRun(h) => WillRun(h)')
  BY <1>1 DEF WillAdd, WillRun
<1>3. CronManager \in 1 .. CronManager /\ j0 \in Job
  <2>1. CronManager \in Nat
    BY DEF TypedCron, CronManager
  <2>2. 0 \in 0 .. MaxChanges
    BY BlueprintAssumption
  <2> QED
    BY <2>1, <2>2 DEF Job
<1>4. CASE ReloadRead(x) \/ ReloadReadFails(x)
  <2>1. crons' = crons /\ reloading[x].at = "read"
    BY <1>4 DEF ReloadRead, ReloadReadFails
  <2>2. ~WillAdd(x, b) /\ ~WillRun(x)
    BY <2>1 DEF WillAdd, WillRun, AtWork
  <2> QED
    BY <1>1, <1>2, <2>1, <2>2 DEF HasJob, Runs
<1>5. CASE c # CronManager
  <2>1. crons'[CronManager] = crons[CronManager]
    BY <1>1, <1>3, <1>5
  <2>2. ~WillAdd(x, b) /\ ~WillRun(x)
    BY <1>5 DEF WillAdd, WillRun
  <2> QED
    BY <1>1, <1>2, <2>1, <2>2 DEF HasJob, Runs
<1>6. CASE c = CronManager /\ (ReloadRemove(x) \/ ReloadStop(x) \/ ReloadAdd(x))
  <2>1. reloading'[x].at \in AtWork /\ reloading'[x].cron = CronManager'
    BY <1>1, <1>6, WorkEffect
  <2>2. Runs'
    <3>1. reloading'[x].any
      BY <2>1 DEF Carried
    <3> QED
      BY <2>1, <3>1 DEF Runs, WillRun
  <2>3. CASE ReloadRemove(x) \/ ReloadStop(x)
    <3>1. j0 \in reloading'[x].list
      BY <2>3, WorkEffect DEF Carried
    <3> QED
      BY <2>1, <2>2, <3>1 DEF HasJob, WillAdd
  <2>4. CASE ReloadAdd(x)
    <3>1. PICK j \in reloading[x].list :
            /\ j \in Job /\ reloading'[x].list = reloading[x].list \ {j}
            /\ crons'[c].jobs = [crons[c].jobs EXCEPT ![j] = crons[c].jobs[j] + 1]
      BY <2>4, WorkEffect
    <3>2. crons[c].jobs \in [Job -> Nat]
      BY <1>3, <1>6, CronThere
    <3>3. crons[c].jobs[j0] > 0 \/ j = j0 => crons'[c].jobs[j0] > 0
      BY <1>3, <3>1, <3>2
    <3>4. WillAdd(x, b) /\ j # j0 => WillAdd(x, b)'
      BY <2>1, <3>1 DEF WillAdd
    <3>5. CASE crons[c].jobs[j0] > 0 \/ j = j0
      BY <1>1, <1>6, <2>2, <3>3, <3>5 DEF HasJob
    <3>6. CASE ~(crons[c].jobs[j0] > 0) /\ j # j0
      <4>1. PICK g \in Goroutine : WillAdd(g, b)
        BY <1>6, <3>6 DEF HasJob
      <4>2. WillAdd(g, b)'
        BY <1>2, <3>4, <3>6, <4>1
      <4> QED
        BY <2>2, <4>2 DEF HasJob
    <3> QED
      BY <3>5, <3>6
  <2> QED
    BY <1>6, <2>3, <2>4
<1>7. CASE c = CronManager /\ ReloadEnds(x)
  <2>1. /\ reloading[x].list = {} /\ crons'[c].jobs = crons[c].jobs
        /\ crons'[c].running = (crons[c].running \/ reloading[x].any)
    BY <1>7, EndEffect
  <2>2. ~WillAdd(x, b)
    BY <2>1 DEF WillAdd
  <2>3. HasJob(b)'
    BY <1>1, <1>2, <1>7, <2>1, <2>2 DEF HasJob
  <2>4. WillRun(x) => reloading[x].any
    BY DEF WillRun
  <2>5. Runs'
    BY <1>1, <1>2, <1>7, <2>1, <2>4 DEF Runs
  <2> QED
    BY <2>3, <2>5
<1> QED
  BY <1>4, <1>5, <1>6, <1>7 DEF ReloadStep

LEMMA KeptReload ==
    ASSUME TypeInv, KeptInv, NEW x \in Goroutine, ReloadStep(x) \/ ReloadReadFails(x),
           UNCHANGED <<starting, consumers>>
    PROVE  KeptInv'
<1>1. /\ \A h \in Goroutine : h # x =>
           reloading'[h].at = reloading[h].at /\ reloading'[h].cron = reloading[h].cron
      /\ CronManager' = CronManager /\ UNCHANGED blueprints
  BY ReloadOthers DEF TypeInv
<1>2. reloading[x].at # "failed"
  BY DEF ReloadStep, ReloadRead, ReloadRemove, ReloadStop, ReloadAdd, ReloadEnds, ReloadReadFails
<1>3. Outstanding' \subseteq Outstanding
  BY <1>1, <1>2 DEF Outstanding
<1>4. /\ IsFiniteSet(Outstanding)' /\ (Started <= CronManager)'
      /\ (Started = CronManager)' => Outstanding' = Outstanding /\ Started = CronManager
  BY <1>1, <1>3, StartedFalls
<1>5. Carried'
  BY CarriedReload DEF KeptInv, TypeInv
<1>6. \A b \in Blueprint : Kept(b)' => Kept(b)
  BY <1>1, KeptSame
<1>7. ASSUME (CronManager > 0 /\ Started = CronManager)'
      PROVE  (Loading \/ \A b \in Blueprint : Kept(b) => HasJob(b) /\ Runs)'
  <2>1. /\ CronManager > 0 /\ Outstanding' = Outstanding
        /\ Loading \/ \A b \in Blueprint : Kept(b) => HasJob(b) /\ Runs
    BY <1>1, <1>4, <1>7 DEF KeptInv
  <2>2. CASE Loading
    <3>1. PICK h \in Goroutine : WillLoad(h)
      BY <2>2 DEF Loading
    <3>2. CASE starting[h] = "reset" \/ h # x
      BY <1>1, <3>1, <3>2 DEF Loading, WillLoad
    <3>3. CASE h = x /\ starting[h] = "reload"
      <4>1. reloading[x].at = "read" /\ reloading[x].cron = CronManager /\ x \in Outstanding
        BY <3>1, <3>3 DEF WillLoad, Outstanding
      <4>2. reloading'[x].at # "failed"
        BY <2>1, <4>1 DEF Outstanding
      <4>3. ReloadRead(x)
        <5>1. ~ReloadReadFails(x)
          BY <4>2 DEF ReloadReadFails, TypeInv, TypedCron, ReloadState
        <5> QED
          BY <4>1, <5>1 DEF ReloadStep, ReloadRemove, ReloadStop, ReloadAdd, ReloadEnds
      <4>4. reloading'[x].at = "remove" /\ reloading'[x].cron = CronManager'
        BY <1>1, <4>1, <4>2, <4>3, ReadEffect DEF TypeInv
      <4>5. ASSUME NEW b \in Blueprint, Kept(b)'
            PROVE  HasJob(b)' /\ Runs'
        <5>1. <<b, 0>> \in reloading'[x].list /\ reloading'[x].any
          BY <1>5, <4>4, <4>5 DEF Carried, AtWork
        <5>2. WillAdd(x, b)' /\ WillRun(x)'
          BY <4>4, <5>1 DEF WillAdd, WillRun, AtWork
        <5> QED
          BY <5>2 DEF HasJob, Runs
      <4> QED
        BY <4>5
    <3> QED
      BY <3>1, <3>2, <3>3 DEF WillLoad
  <2>3. CASE \A b \in Blueprint : Kept(b) => HasJob(b) /\ Runs
    <3>1. ASSUME NEW b \in Blueprint, Kept(b)'
          PROVE  HasJob(b)' /\ Runs'
      <4>1. Kept(b) /\ HasJob(b) /\ Runs
        BY <1>6, <2>3, <3>1
      <4>2. TypedCron /\ Carried
        BY DEF TypeInv, KeptInv
      <4> QED
        BY <1>5, <2>1, <3>1, <4>1, <4>2, LoadedReload
    <3> QED
      BY <3>1
  <2> QED
    BY <2>1, <2>2, <2>3
<1> QED
  BY <1>4, <1>5, <1>7 DEF KeptInv

\* A reload that is alone works undisturbed; one that is not spoils it for others.
LEMMA AloneReload ==
    ASSUME TypeInv, AloneInv, NEW x \in Goroutine, ReloadStep(x) \/ ReloadReadFails(x)
    PROVE  AloneInv'
<1> DEFINE c == reloading[x].cron
<1>1. /\ \A h \in Goroutine : h # x =>
           /\ reloading'[h].at = reloading[h].at
           /\ reloading'[h].alone => reloading[h].alone /\ ~ReloadRead(x)
      /\ UNCHANGED blueprints /\ TypedCron
  BY ReloadOthers DEF TypeInv
<1>2. Wanted' = Wanted /\ enabled' = enabled
  BY <1>1, KeptSame
<1>3. CASE ReloadReadFails(x)
  <2>1. /\ reloading'[x].at = "failed" /\ UNCHANGED crons
        /\ \A h \in Goroutine : h # x => reloading'[h] = reloading[h]
    BY <1>3 DEF ReloadReadFails, TypeInv, TypedCron, ReloadState
  <2>2. \A h \in Goroutine : reloading'[h].at \in AtWork => reloading'[h] = reloading[h]
    BY <2>1 DEF AtWork
  <2> QED
    BY <1>1, <2>1, <2>2, AlonesKept
<1>4. CASE ReloadRead(x)
  <2>1. SUFFICES ASSUME NEW g \in Goroutine, reloading'[g].at \in AtWork, reloading'[g].alone
                 PROVE  /\ g = x
                        /\ \A h \in Goroutine : h # g => reloading'[h].at \notin AtWork
                        /\ reloading'[x].any = (enabled # {}) /\ reloading'[x].at = "remove"
                        /\ reloading'[x].list = Wanted
    BY <1>2 DEF AloneInv
  <2>2. g = x
    BY <1>1, <1>4, <2>1
  <2>3. reloading'[x].at # "failed"
    BY <2>1, <2>2 DEF AtWork
  <2>4. /\ reloading'[x].any = (enabled # {}) /\ reloading'[x].at = "remove"
        /\ reloading'[x].list = Wanted
        /\ \A y \in Goroutine \ {x} : ~Reloads(y)
    BY <1>1, <1>4, <2>1, <2>2, <2>3, ReadEffect
  <2>5. \A h \in Goroutine : h # g => reloading[h].at \notin AtWork
    BY <2>2, <2>4 DEF Reloads, AtWork
  <2> QED
    BY <1>1, <2>2, <2>4, <2>5
<1>5. CASE ReloadEnds(x)
  <2>1. reloading[x].at \in AtWork /\ reloading'[x].at \notin AtWork
    BY <1>1, <1>5, EndEffect DEF AtWork
  <2>2. \A g \in Goroutine : ~(reloading'[g].at \in AtWork /\ reloading'[g].alone)
    <3>1. SUFFICES ASSUME NEW g \in Goroutine, reloading'[g].at \in AtWork, reloading'[g].alone
                   PROVE  FALSE
      OBVIOUS
    <3>2. g # x /\ reloading[g].at \in AtWork /\ reloading[g].alone
      BY <1>1, <2>1, <3>1
    <3> QED
      BY <2>1, <3>2 DEF AloneInv
  <2> QED
    BY <2>2 DEF AloneInv
<1>6. CASE ReloadRemove(x) \/ ReloadStop(x) \/ ReloadAdd(x)
  <2>1. /\ c \in 1 .. CronManager /\ reloading[x].at \in AtWork
        /\ reloading'[x].cron = c /\ reloading'[x].any = reloading[x].any
        /\ reloading'[x].alone = reloading[x].alone
    BY <1>1, <1>6, WorkEffect
  <2>2. SUFFICES ASSUME NEW g \in Goroutine, reloading'[g].at \in AtWork, reloading'[g].alone
                 PROVE  /\ g = x
                        /\ \A h \in Goroutine : h # g => reloading'[h].at \notin AtWork
                        /\ reloading'[x].any = (enabled # {})
                        /\ reloading'[x].at \in {"remove", "stop"} => reloading'[x].list = Wanted
                        /\ reloading'[x].at = "stop" => crons'[c].jobs = Jobs({})
                        /\ reloading'[x].at = "add" =>
                              /\ reloading'[x].list \subseteq Wanted
                              /\ crons'[c].jobs = Jobs(Wanted \ reloading'[x].list)
                              /\ crons'[c].running = FALSE
    BY <1>2, <2>1 DEF AloneInv, Jobs
  <2>3. g = x
    <3>1. SUFFICES ASSUME g # x PROVE FALSE
      OBVIOUS
    <3>2. reloading[g].at \in AtWork /\ reloading[g].alone
      BY <1>1, <2>2, <3>1
    <3> QED
      BY <2>1, <3>1, <3>2 DEF AloneInv
  <2>4. reloading[x].alone
    BY <2>1, <2>2, <2>3
  <2>5. /\ \A h \in Goroutine : h # x => reloading[h].at \notin AtWork
        /\ reloading[x].any = (enabled # {})
        /\ reloading[x].at \in {"remove", "stop"} => reloading[x].list = Wanted
        /\ reloading[x].at = "stop" => crons[c].jobs = Jobs({})
        /\ reloading[x].at = "add" =>
              /\ reloading[x].list \subseteq Wanted
              /\ crons[c].jobs = Jobs(Wanted \ reloading[x].list)
              /\ crons[c].running = FALSE
    BY <2>1, <2>4 DEF AloneInv
  <2>6. \A h \in Goroutine : h # g => reloading'[h].at \notin AtWork
    BY <1>1, <2>3, <2>5
  <2>7. CASE ReloadRemove(x)
    BY <1>1, <2>1, <2>3, <2>5, <2>6, <2>7, WorkEffect
  <2>8. CASE ReloadStop(x)
    <3>1. Wanted \ Wanted = {}
      OBVIOUS
    <3> QED
      BY <1>1, <2>1, <2>3, <2>5, <2>6, <2>8, <3>1, WorkEffect
  <2>9. CASE ReloadAdd(x)
    <3>1. reloading[x].at = "add" /\ reloading'[x].at = "add" /\ crons'[c].running = crons[c].running
      BY <1>1, <2>9, WorkEffect
    <3>2. PICK j \in reloading[x].list :
            /\ j \in Job /\ reloading'[x].list = reloading[x].list \ {j}
            /\ crons'[c].jobs = [crons[c].jobs EXCEPT ![j] = crons[c].jobs[j] + 1]
      BY <1>1, <2>9, WorkEffect
    <3>3. crons[c].jobs = Jobs(Wanted \ reloading[x].list) /\ reloading[x].list \subseteq Wanted
      BY <2>5, <3>1
    <3>4. crons'[c].jobs = Jobs(Wanted \ reloading'[x].list)
      <4> DEFINE old == Wanted \ reloading[x].list
                 new == Wanted \ reloading'[x].list
      <4>1. new = old \cup {j} /\ j \notin old
        BY <3>2, <3>3
      <4> HIDE DEF old, new
      <4>2. Jobs(old)[j] = 0
        BY <3>2, <4>1 DEF Jobs
      <4>3. [Jobs(old) EXCEPT ![j] = 1] = Jobs(new)
        <5>1. /\ DOMAIN Jobs(old) = Job
              /\ \A k \in Job : Jobs(old)[k] = IF k \in old THEN 1 ELSE 0
          BY DEF Jobs
        <5>2. \A k \in Job : [Jobs(old) EXCEPT ![j] = 1][k] = IF k \in new THEN 1 ELSE 0
          BY <4>1, <5>1
        <5>3. [Jobs(old) EXCEPT ![j] = 1] = [k \in Job |-> [Jobs(old) EXCEPT ![j] = 1][k]]
          BY <5>1
        <5> QED
          BY <5>2, <5>3 DEF Jobs
      <4>4. crons[c].jobs = Jobs(old)
        BY <3>3 DEF old
      <4>5. crons'[c].jobs = [Jobs(old) EXCEPT ![j] = 1]
        <5>1. crons[c].jobs[j] + 1 = 1
          BY <4>2, <4>4
        <5> QED
          BY <3>2, <4>4, <5>1
      <4> QED
        BY <4>3, <4>5 DEF new
    <3> QED
      BY <2>1, <2>3, <2>5, <2>6, <3>1, <3>2, <3>3, <3>4
  <2> QED
    BY <1>6, <2>7, <2>8, <2>9
<1> QED
  BY <1>3, <1>4, <1>5, <1>6 DEF ReloadStep

\* The end of a reload that was alone leaves the last cron right.
LEMMA SyncReload ==
    ASSUME TypeInv, AloneInv, SyncInv, NEW x \in Goroutine,
           ReloadStep(x) \/ ReloadReadFails(x)
    PROVE  SyncInv'
<1> DEFINE c == reloading[x].cron
<1>1. /\ \A h \in Goroutine : h # x =>
           reloading'[h].at = reloading[h].at /\ reloading'[h].cron = reloading[h].cron
      /\ CronManager' = CronManager
      /\ \A d \in 1 .. CronManager : d # c => crons'[d] = crons[d]
      /\ UNCHANGED blueprints /\ TypedCron
  BY ReloadOthers DEF TypeInv
<1>2. Wanted' = Wanted /\ enabled' = enabled
  BY <1>1, KeptSame
<1>3. CASE ReloadRead(x) \/ ReloadReadFails(x)
  <2>1. UNCHANGED <<crons, unsynced>> /\ reloading[x].at \notin AtWork
    BY <1>3 DEF ReloadRead, ReloadReadFails, AtWork
  <2> QED
    BY <1>1, <2>1, SyncKept
<1>4. CASE ReloadRemove(x) \/ ReloadStop(x) \/ ReloadAdd(x)
  <2>1. /\ reloading[x].at \in AtWork /\ reloading'[x].at \in AtWork /\ reloading'[x].cron = c
        /\ UNCHANGED unsynced
    BY <1>1, <1>4, WorkEffect
  <2>2. CASE c = CronManager
    BY <1>1, <2>1, <2>2 DEF SyncInv
  <2>3. CASE c # CronManager
    <3>1. CronManager > 0 => crons'[CronManager] = crons[CronManager]
      <4>1. CronManager \in Nat
        BY DEF TypeInv, TypedCron, CronManager
      <4>2. CronManager > 0 => CronManager \in 1 .. CronManager
        BY <4>1
      <4> QED
        BY <1>1, <2>3, <4>2
    <3> QED
      BY <1>1, <2>1, <3>1, SyncKept
  <2> QED
    BY <2>2, <2>3
<1>5. CASE ReloadEnds(x)
  <2>1. /\ reloading[x].at = "add" /\ reloading[x].list = {}
        /\ crons'[c].jobs = crons[c].jobs
        /\ crons'[c].running = (crons[c].running \/ reloading[x].any)
        /\ unsynced' = (~reloading[x].alone \/ c # CronManager)
    BY <1>1, <1>5, EndEffect
  <2>2. SUFFICES ASSUME ~unsynced'
                 PROVE  /\ crons'[CronManager].jobs = Jobs(Wanted)
                        /\ crons'[CronManager].running = (enabled # {})
    BY <1>1, <1>2 DEF SyncInv, Jobs
  <2>3. reloading[x].alone /\ c = CronManager
    BY <2>1, <2>2
  <2>4. /\ reloading[x].any = (enabled # {})
        /\ crons[c].jobs = Jobs(Wanted \ reloading[x].list)
        /\ crons[c].running = FALSE
    BY <2>1, <2>3 DEF AloneInv, AtWork
  <2>5. Wanted \ reloading[x].list = Wanted
    BY <2>1
  <2> QED
    BY <2>1, <2>3, <2>4, <2>5
<1> QED
  BY <1>3, <1>4, <1>5 DEF ReloadStep

-----------------------------------------------------------------------------
(* The theorems.                                                            *)

LEMMA CronInvStep ==
    ASSUME TypeInv, ExecutionInv, CronInv, [Next]_vars
    PROVE  CronInv'
<1>1. CASE UNCHANGED vars
  BY <1>1, CronInvSame DEF vars, own
<1>2. CASE Crash
  BY <1>2, CronInvEnds DEF Crash
<1>3. CASE \E p \in Process : InitResources(p) \/ LockDb(p) \/ LockTimeout(p)
  BY <1>3, CronInvSame DEF InitResources, LockDb, LockTimeout
<1>4. CASE PatchProject \/ \E g \in Goroutine : SaveBlueprint(g) \/ SaveBlueprintFails(g)
  BY <1>4, CronInvBlueprints
<1>5. CASE \E g \in Goroutine : Proceed(g) \/ MigratorStep(g) \/ MigratorFails(g)
  BY <1>5, CronInvSame DEF Proceed, MigratorStep, MigratorFails, own
<1>6. ASSUME NEW g \in Goroutine, Reload(g) \/ ReloadFails(g)
      PROVE  CronInv'
  BY <1>6, KeptReload, AloneReload, SyncReload DEF CronInv, Reload, ReloadFails, own
<1>7. CASE \E g \in Goroutine : Goes(g) \/ ResetFails(g) \/ ReloadFails(g)
  BY <1>5, <1>6, <1>7, CronInvNewCronManager, CronInvResetPipelines, CronInvStartConsumer,
     CronInvResetFails, CronInvReturns DEF Goes
<1> QED
  BY <1>1, <1>2, <1>3, <1>4, <1>5, <1>7 DEF Next

LEMMA CronInvariant == Spec => [](TypeInv /\ CronInv)
<1>1. Init => CronInv
  BY CronInvInit
<1>2. TypeInv /\ ExecutionInv /\ CronInv /\ [Next]_vars => CronInv'
  BY CronInvStep
<1> QED
  BY <1>1, <1>2, ExecutionInvariant, PTL DEF Spec

\* However the reloads of several goroutines, faults and restarts interleave: once
\* the services are started and nobody is at work, each blueprint that is enabled
\* from the start and on the first page has its job in the last cron, which runs.
THEOREM NobodyForgotten == Spec => []NoneForgotten
<1>1. ASSUME TypeInv, CronInv
      PROVE  NoneForgotten
  <2>1. SUFFICES ASSUME Scheduling, NEW b \in FirstPage(Blueprint), b \in enabled, version[b] = 0
                 PROVE  crons[CronManager].running /\ crons[CronManager].jobs[<<b, 0>>] > 0
    BY DEF NoneForgotten
  <2>2. /\ consumers > 0 /\ consumers = CronManager
        /\ \A g \in Goroutine : starting[g] = "no" /\ reloading[g].at = "idle"
    BY <2>1 DEF Scheduling, Active, Executing
  <2>3. Kept(b) /\ b \in Blueprint
    BY <2>1 DEF Kept, FirstPage
  <2>4. Outstanding = {}
    BY <2>2 DEF Outstanding
  <2>5. Started = CronManager
    <3>1. consumers \in Nat
      BY <1>1 DEF TypeInv, TypedProcesses
    <3> QED
      BY <2>2, <2>4, <3>1, FS_EmptySet DEF Started
  <2>6. ~Loading
    BY <2>2 DEF Loading, WillLoad
  <2>7. HasJob(b) /\ Runs
    BY <1>1, <2>2, <2>3, <2>5, <2>6 DEF CronInv, KeptInv
  <2>8. \A g \in Goroutine : ~WillAdd(g, b) /\ ~WillRun(g)
    BY <2>2 DEF WillAdd, WillRun, AtWork
  <2> QED
    BY <2>7, <2>8 DEF HasJob, Runs
<1> QED
  BY <1>1, CronInvariant, PTL

\* After a reload of the last cron that nothing disturbed the cron has a job for
\* each enabled blueprint of the first page as it is, and no other.
THEOREM JobsMatch == Spec => []ScheduleMatches
<1>1. ASSUME TypeInv, CronInv
      PROVE  ScheduleMatches
  <2>1. SUFFICES ASSUME Scheduling, ~unsynced
                 PROVE  /\ crons[CronManager].jobs =
                             [j \in Job |-> IF j[1] \in FirstPage(enabled) /\ j[2] = version[j[1]]
                                            THEN 1 ELSE 0]
                        /\ crons[CronManager].running = (enabled # {})
    BY DEF ScheduleMatches
  <2>2. /\ CronManager > 0
        /\ \A g \in Goroutine : reloading[g].at = "idle"
    BY <2>1 DEF Scheduling, Active
  <2>3. crons[CronManager].jobs = Jobs(Wanted) /\ crons[CronManager].running = (enabled # {})
    BY <1>1, <2>1, <2>2 DEF CronInv, SyncInv, AtWork
  <2>4. ASSUME NEW j \in Job
        PROVE  j \in Wanted <=> j[1] \in FirstPage(enabled) /\ j[2] = version[j[1]]
    <3>1. j = <<j[1], j[2]>>
      BY DEF Job
    <3> QED
      BY <3>1 DEF Wanted
  <2> QED
    BY <2>3, <2>4 DEF Jobs
<1> QED
  BY <1>1, CronInvariant, PTL
=============================================================================
