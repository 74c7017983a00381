SPECIFICATION Spec
CONSTANTS
    Request <- MCRequest
    NoRequest = NoRequest
    NumOfWorkers = 3
    MaxTicks = 4
    Inputs = {1, 2}
    Pages <- MCPages
    LastPage = 5
    MaxInputs <- MCMaxInputs
    Modes = {"single", "sequential", "determined", "undetermined"}
    Concurrency = 2
    MaxRetry = 1
    MaxFaults = 2
INVARIANT FailureIsReported
CHECK_DEADLOCK FALSE
