SPECIFICATION ConversationSpec
CONSTANTS
    TheClient = browser
    SessionIds = {s1}
    MaxSessions = 1
    MaxTurns = 2
    MaxHistory = 1
    TurnLimit = 2
    GenerationLimit = 2
    Threads = {t1, t2, t3}
    Clients <- OneClient
    ClientOf <- OneClientOwnsAll
    MaxQueued = 1
    MaxTerminal = 1
    MaxCommands = 2
    MaxTombstones = 1
    ItemLimit = 2
    Stops = TRUE
    EscapingExceptions = FALSE
    EarlyPolls = FALSE
SYMMETRY AnyThread
PROPERTY StopSparesNewWork
CHECK_DEADLOCK FALSE
