CONSTANTS
    j1 = j1  j2 = j2  w1 = w1  w2 = w2
    Jobs = {j1}
    Workers = {w1, w2}
    Names = {gc, odd}
    Handled = {gc}
    Keys = {key}
    NoKey = NoKey
    Budgets = {0, 2}
    Errors = {err}
    TimedOut = TimedOut
    StormWindow = 3
    Idle = Idle
    MaxQueue = 2
    MaxCrashes = 2
    MaxStops = 1
    MaxPurges = 1
    MaxFaults = 1
SPECIFICATION FairSpec
CHECK_DEADLOCK FALSE
INVARIANTS ExecutionBudget
PROPERTIES EveryJobEnds
