SPECIFICATION MCSpec
CONSTANTS
    TheClient = browser
    SessionIds = {s1, s2}
    MaxSessions = 1
    MaxTurns = 2
    MaxHistory = 2
    TurnLimit = 3
    TurnsInConversation = 2
    GenerationLimit = 2
    Threads = {t1, t2, t3}
    Clients <- OneClient
    ClientOf <- OneClientOwnsAll
    MaxQueued = 1
    MaxTerminal = 1
    MaxCommands = 2
    MaxTombstones = 1
    ItemLimit = 2
    Stops = TRUE
    EscapingExceptions = TRUE
    EarlyPolls = TRUE
SYMMETRY AnyThread
INVARIANTS
    SessionsAreSound
    UnfinishedTurnHasItsToken
    EveryoneAgrees
    CancelledSpeechIsBeingStopped
    
PROPERTIES
    StaleTokenStaysStale
    OutcomeIsFinal
    ImplementsTurnFence
    ImplementsPlaybackQueue
CHECK_DEADLOCK FALSE
