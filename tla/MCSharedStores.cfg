SPECIFICATION MCSpec
CONSTANTS
    Clients = {c1, c2}
    Sessions = {s1, s2}
    MaxQueued = 2
    MaxTerminal = 2
    MaxCommands = 2
    MaxTombstones = 1
    ItemLimit = 3
    TokenLimit = 2
    GenerationLimit = 1
    SetupClients = {x1, x2, x3}
    NoClient = NoClient
    Slots = {f1, f2}
    NoSlot = NoSlot
    SetupAccounts = {g1}
    NoAccount = NoAccount
    MaxRevision = 3
    Speeches = {1, 2, 3}
    Listeners = {l1}
    NoListener = NoListener
    MaxItems = 2
    MaxTotalBytes = 3
    Lifetime = 1
SYMMETRY AnyName
INVARIANTS
    QueueIsConsistent
    SetupIsReadable
    EveryReplyStands
    AudioIsKeptInBounds
PROPERTIES
    QueueIsOrderly
CHECK_DEADLOCK FALSE
