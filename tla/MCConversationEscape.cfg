SPECIFICATION ConversationSpec
CONSTANTS
    TheClient = browser
    SessionIds = {s1}
    MaxSessions = 1
    MaxTurns = 2
    MaxHistory = 1
    TurnLimit = 1
    GenerationLimit = 1
    Threads = {t1, t2}
    Clients <- OneClient
    ClientOf <- OneClientOwnsAll
    MaxQueued = 1
    MaxTerminal = 1
    MaxCommands = 1
    MaxTombstones = 1
    ItemLimit = 1
    Stops = FALSE
    EscapingExceptions = TRUE
    EarlyPolls = FALSE
INVARIANTS
    NoTurnIsAbandoned
CHECK_DEADLOCK FALSE
