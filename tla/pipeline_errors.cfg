\* Two pipelines of one blueprint: reruns of single tasks, crashes and database
\* errors, two in all.
SPECIFICATION Spec
CONSTANTS
    NPipelines = 2
    Plan <- PlanSmall
    SkipOnFail = {1}
    Label = {a, b}
    LabelsOf <- NoLabels
    BlueprintOf <- OneBlueprint
    MaxParallel = 2
    Goroutine = {g1, g2}
    MaxAttempts = 2
    Ops = {"crash", "dbError", "rerunTask"}
    MaxFaults = 2
    g1 = g1
    g2 = g2
    g3 = g3
    a = a
    b = b
SYMMETRY Goroutines
INVARIANTS SingleRun BlueprintExclusive
PROPERTY StatusLifecycle
CHECK_DEADLOCK FALSE
