\* One pipeline, cancelled between the query of the loop and its update.
SPECIFICATION Spec
CONSTANTS
    NPipelines = 1
    Plan <- PlanSingles
    SkipOnFail = {}
    Label = {a, b}
    LabelsOf <- NoLabels
    BlueprintOf <- NoBlueprint
    MaxParallel = 1
    Goroutine = {g1}
    MaxAttempts = 1
    Ops = {"cancel"}
    MaxFaults = 0
    g1 = g1
    g2 = g2
    g3 = g3
    a = a
    b = b
PROPERTY CancelSticks
CHECK_DEADLOCK FALSE
