CONSTANTS
    t1 = t1  n1 = n1  n2 = n2  n3 = n3
    Nodes = {t1, n1, n2}
    Triggers = {t1}
    Instant = {t1}
    Edges <- ForkEdges
    NewEdges <- LoopEdge
    NoNode = NoNode
    MaxSteps = 9
    MaxHistory = 1
    RecoverLimit = 1
    MaxExecs = 2
    MaxResumes = 1
    MaxCrashes = 1
    MaxEdits = 1
    MaxDeletes = 1
    MaxFaults = 0
SPECIFICATION Spec
CHECK_DEADLOCK FALSE
INVARIANTS LoopExclusive NoStuckExecution
PROPERTIES SuccessIsFinal
