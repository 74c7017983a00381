\* Cancellation, and one crash or database error; nobody sets SkipOnFail.
SPECIFICATION Spec
CONSTANTS
    NPipelines = 2
    Plan <- PlanSmall
    SkipOnFail = {}
    Label = {a, b}
    LabelsOf <- NoLabels
    BlueprintOf <- NoBlueprint
    MaxParallel = 2
    Goroutine = {g1, g2}
    MaxAttempts = 1
    Ops = {"cancel", "crash", "dbError"}
    MaxFaults = 1
    g1 = g1
    g2 = g2
    g3 = g3
    a = a
    b = b
SYMMETRY Goroutines
PROPERTY CancelEndsRun
CHECK_DEADLOCK FALSE
