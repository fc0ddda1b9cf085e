SPECIFICATION FairSpec
CONSTANTS
    Workers = {w1, w2}
    Budgets = {3}
    Unset = Unset
    NoFile = NoFile
    Estimates = {1, 2}
    Unknown = Unknown
    Bills = {1, 3}
    NotCalled = NotCalled
    NoWorker = NoWorker
    MaxRecords = 2
INVARIANTS
    BooksAreSound
    ApprovedSpendWithinBudget
PROPERTIES
    RefinesCeiling
    NobodyWaitsForEver
CHECK_DEADLOCK FALSE
