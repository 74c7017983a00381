\* Two records, pages of one, one or two fetchers, TimeAfter nil or the second of
\* three times, any number of runs of which one fails.
SPECIFICATION FairSpec
CONSTANTS
    MaxRecords = 2
    MaxClock = 3
    TimeAfters = {0, 2}
    Fetchers = {1, 2}
    PageSize = 1
    MaxFaults = 1
INVARIANTS TypeOK RawIsComplete
PROPERTIES DetailsAreFresh EventuallyFinal
CHECK_DEADLOCK FALSE
