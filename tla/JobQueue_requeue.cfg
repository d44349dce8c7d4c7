CONSTANTS
    j1 = j1  j2 = j2  w1 = w1  w2 = w2
    Jobs = {j1}
    Workers = {w1, w2}
    Names = {gc}
    Handled = {gc}
    Keys = {}
    NoKey = NoKey
    Budgets = {0}
    Errors = {err}
    TimedOut = TimedOut
    StormWindow = 2
    Idle = Idle
    MaxQueue = 2
    MaxCrashes = 0
    MaxStops = 0
    MaxPurges = 0
    MaxFaults = 0
SPECIFICATION Spec
CHECK_DEADLOCK FALSE
INVARIANTS RequeueRunsOnce
