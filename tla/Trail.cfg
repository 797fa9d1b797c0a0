CONSTANTS
    s1 = s1
    s2 = s2
    cli = cli
    Processes <- MCProcesses
    Sessions <- MCSessions
    Start = 1
    Deltas = {1}
    AskCap = 1
    BreakCap = 1
    Delay = 1
    RunsCap = 2
SPECIFICATION TrailSpec
SYMMETRY MCSymmetry
INVARIANT TrailTypeOK
INVARIANT NeverRejected
INVARIANT SequencesOrderRuns
INVARIANT TrailOldestFirst
INVARIANT ExecutionWasApproved
INVARIANT TrailExplainsState
INVARIANT ClockNeverAhead
INVARIANT ClockExact
CHECK_DEADLOCK FALSE
