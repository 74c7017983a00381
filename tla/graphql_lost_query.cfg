SPECIFICATION Spec
CONSTANTS
    Inputs = {1, 2}
    Pages <- MCPages
    Key <- MCKey
    NoKey = NoKey
    Results <- MCResults
    Final <- MCFinal
    Record = {Old, r1, r2, r3}
    NoRecord = NoRecord
    Old = Old
    r1 = r1
    r2 = r2
    r3 = r3
    BatchSize = 2
    MaxRetry = 2
    MaxRate = 1
    MaxTicks = 2
    MaxFaults = 2
INVARIANT FailedQueryIsReported
CHECK_DEADLOCK FALSE
