CONSTANTS
    g1 = g1  g2 = g2
    Goals = {g1, g2}
    Sessions = {s1}
    FailStop = 3
    NoProgress = 4
    Loops = {1}
    MaxEvents = 1
    MaxLoops = 2
    MaxCrashes = 0
    MaxFaults = 0
SPECIFICATION Spec
CHECK_DEADLOCK FALSE
INVARIANTS OneActivePerSession
