CONSTANTS
    g1 = g1  g2 = g2
    Goals = {g1, g2}
    Sessions = {s1}
    FailStop = 2
    NoProgress = 2
    Loops = {1}
    MaxEvents = 2
    MaxLoops = 1
    MaxCrashes = 1
    MaxFaults = 1
SPECIFICATION Spec
CHECK_DEADLOCK FALSE
SYMMETRY Symmetry
INVARIANTS TypeOK FailureStops NoProgressRuleIsDead CompletedHasEvidence OnlyResumeBreaksAdmission FileIsCurrent
PROPERTIES TerminalIsFinal
