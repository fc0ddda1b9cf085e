SPECIFICATION MCSpec
CONSTANTS
    Clients = {c1, c2}
    Plans = {p1}
    NoPlan = NoPlan
    PlanTools <- MCPlanTools
    ProposalLimit = 2
    ReceiptLimit = 2
    PlanLimit = 1
    RequestTools = {"filesystem.read"}
    OverlapLimit = 2
    PlanOverlapLimit = 1
    Requests = {r1, r2}
    NoRequest = NoRequest
    GoogleAccounts = {g1}
    Calendars = {k1}
    SignIns = {t1}
SYMMETRY AnyName
INVARIANTS
    ReceiptsAreSound
    SerialRequestsKeepPlansWhole
    AccountsAreWhole
PROPERTIES
    CalendarsOutlastConnects
