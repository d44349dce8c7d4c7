CONSTANTS
    t1 = t1  n1 = n1  n2 = n2  n3 = n3
    Nodes = {t1, n1, n2, n3}
    Triggers = {t1}
    Instant = {t1, n1, n2}
    Edges <- SharedVariableEdges
    NewEdges <- NoEdges
    NoNode = NoNode
    MaxSteps = 9
    MaxHistory = 2
    RecoverLimit = 2
    MaxExecs = 1
    MaxResumes = 1
    MaxCrashes = 0
    MaxEdits = 0
    MaxDeletes = 0
    MaxFaults = 0
SPECIFICATION Spec
CHECK_DEADLOCK FALSE
INVARIANTS FailedNodesReplayed
