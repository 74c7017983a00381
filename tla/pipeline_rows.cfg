\* A plan with two tasks in a row, and one of two rows with SkipOnFail; a label
\* that both share; reruns of whole pipelines and one crash. No symmetry: it is
\* unsound for liveness.
SPECIFICATION FairSpec
CONSTANTS
    NPipelines = 2
    Plan <- PlanRows
    SkipOnFail = {2}
    Label = {a, b}
    LabelsOf <- ChainLabels
    BlueprintOf <- NoBlueprint
    MaxParallel = 2
    Goroutine = {g1, g2}
    MaxAttempts = 2
    Ops = {"rerun", "crash"}
    MaxFaults = 1
    g1 = g1
    g2 = g2
    g3 = g3
    a = a
    b = b
INVARIANTS RowBarrier EarlierRowsCompleted ReplacedIsSettled ComputedOnTime
PROPERTIES CompletedIsEarned EventuallySettled
CHECK_DEADLOCK FALSE
