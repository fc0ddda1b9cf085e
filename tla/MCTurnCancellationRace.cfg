SPECIFICATION CancellationSpec
CONSTANTS
    SessionIds = {s1}
    MaxSessions = 1
    MaxTurns = 2
    MaxHistory = 2
    TurnLimit = 3
    GenerationLimit = 2
    Threads = {t1, t2, t3}
    VoiceStops = FALSE
SYMMETRY AnyThread
INVARIANT StopReachesTheRun
CHECK_DEADLOCK FALSE
