SPECIFICATION MCSpec
CONSTANTS
    SessionIds = {s1}
    MaxSessions = 1
    MaxTurns = 2
    MaxHistory = 2
    TurnLimit = 2
    GenerationLimit = 1
    Threads = {t1, t2, t3}
    VoiceStops = TRUE
    Separators = {","}
    ExclusionWords = {"not"}
    ShortWords = {}
    AccountTerms = {"calendar"}
    MailTerms = {}
    ReadTerms = {}
    WriteTerms = {}
    CancelMessages <- MCCancel
    ChatRequests = {r1}
    Messages <- MCMessages
    NoMessage = NoMessage
    Setups <- MCSetups
    MailAccounts = {"n", "p"}
    ChatTurnLimit = 2
    ChangeLimit = 1
    Managers = {m1, m2}
    NoManager = NoManager
    EventLimit = 2
    Chats = {b1, b2}
    Runs = {g1}
    CacheLifetime = 1
    CacheMaxItems = 1
INVARIANT SpokenQuestionIsAsked
CHECK_DEADLOCK FALSE
