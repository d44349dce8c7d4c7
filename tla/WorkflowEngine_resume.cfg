CONSTANTS
    t1 = t1  n1 = n1  n2 = n2  n3 = n3
    Nodes = {t1, n1, n2, n3}
    Triggers = {t1}
    Instant = {t1}
    Edges <- JoinEdges
    NewEdges <- NoEdges
    NoNode = NoNode
    MaxSteps = 9
    MaxHistory = 1
    RecoverLimit = 2
    MaxExecs = 1
    MaxResumes = 3
    MaxCrashes = 2
    MaxEdits = 0
    MaxDeletes = 1
    MaxFaults = 1
SPECIFICATION FairSpec
CHECK_DEADLOCK FALSE
INVARIANTS TypeOK NoReplay CheckpointCurrent OnePassPerResume FailedNodesReplayed SuccessCoversWorkflow
PROPERTIES EveryRunEnds
