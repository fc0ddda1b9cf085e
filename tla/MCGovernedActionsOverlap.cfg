CONSTANTS
    Clients = {c1, c2}
    Plans = {p1}
    NoPlan = NoPlan
    PlanTools <- MCPlanTools
    ProposalLimit = 2
    ReceiptLimit = 2
    PlanLimit = 1
    RequestTools = {"filesystem.read"}
    OverlapLimit = 2
    PlanOverlapLimit = 1
SPECIFICATION Spec
PROPERTY ReviewIsFinal
