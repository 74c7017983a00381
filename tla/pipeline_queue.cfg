\* The queue: four pipelines with overlapping labels, two permits, reruns of
\* whole pipelines and one crash.
SPECIFICATION Spec
CONSTANTS
    NPipelines = 4
    Plan <- PlanSingles
    SkipOnFail = {}
    Label = {a, b}
    LabelsOf <- ChainLabels
    BlueprintOf <- NoBlueprint
    MaxParallel = 2
    Goroutine = {g1, g2, g3}
    MaxAttempts = 2
    Ops = {"rerun", "crash"}
    MaxFaults = 1
    g1 = g1
    g2 = g2
    g3 = g3
    a = a
    b = b
SYMMETRY Goroutines
INVARIANTS TypeOK QueueInv LabelExclusion ParallelBound RunningIsOwned
PROPERTY ImplementsLabelLocks
CHECK_DEADLOCK FALSE
