SPECIFICATION MCSpec
CONSTANTS
    MaxRounds = 2
    MaxToolCalls = 3
    MaxCallsPerRound = 2
    MaxTotalBytes = 5
    MaxResultBytes = 3
    CallIds = {a, b, c, d}
    Sizes = {1, 4}
    Proposals = {a0, m}
    MemoryProposals = {m}
    Plans = {p}
    Requests = {r1, r2}
    NoRequest = NoRequest
    TriggeredFailures = {"governance_block", "bridge_disconnected"}
INVARIANTS
    RunIsSound
    ToolsStartedWithinLimits
    ResultsWithinBudget
    AtMostOneStartsLate
    PanelIsTrue
    AudioRespectsSwitches
    SpeakingWillEnd
PROPERTIES
    EveryRunReturns
CHECK_DEADLOCK FALSE
