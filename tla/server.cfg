\* Two scripts of which any were executed before, two processes, two handlers, two
\* changes of two blueprints of which one fits the page, and one fault.
SPECIFICATION FairSpec
CONSTANTS
    Script = {1, 2}
    Goroutine = {"main", "h1", "h2"}
    Reloader = {"main", "h1", "h2"}
    Blueprint = {1, 2}
    FirstEnabled = {1, 2}
    PageSize = 1
    MaxChanges = 2
    Process = {"p1", "p2"}
    MaxFaults = 1
INVARIANTS TypeOK InOrder NotAgain OneConsumer NoneForgotten ScheduleMatches
PROPERTY EventuallyReady
CHECK_DEADLOCK FALSE
