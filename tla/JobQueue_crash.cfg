CONSTANTS
    j1 = j1  j2 = j2  w1 = w1  w2 = w2
    Jobs = {j1, j2}
    Workers = {w1, w2}
    Names = {gc}
    Handled = {gc}
    Keys = {key}
    NoKey = NoKey
    Budgets = {0, 1}
    Errors = {err}
    TimedOut = TimedOut
    StormWindow = 2
    Idle = Idle
    MaxQueue = 3
    MaxCrashes = 1
    MaxStops = 0
    MaxPurges = 0
    MaxFaults = 0
SPECIFICATION Spec
CHECK_DEADLOCK FALSE
SYMMETRY JobSymmetry
INVARIANTS TypeOK NoJobForgotten WriteThrough RetryTaskTracked OneWorkerPerJob LiveKeysDistinct
PROPERTIES StormSuppressesRetries ImplementsLifecycle
