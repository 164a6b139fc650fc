SPECIFICATION PipelineSpec
CONSTANTS
    w1 = w1  p1 = p1  p2 = p2  h1 = h1  h2 = h2
    Drafters = {w1}  BudgetRequests <- BudgetRequestsDef  Holdings <- HoldingsDef
    MaxClock = 2  MaxProposed = 2  MaxEvaluations = 2
    LeanProcesses = {p1, p2}  HandKeys = {h1, h2}  MaxRuns = 1
    Cycles = {1}  PilotRuns <- PilotRunsDef  MaxSignals = 2  MaxBridgePlans = 2
INVARIANTS
    OwnOrdersPass ProposalsOnRecord
    EligibleRests StrategyMarkerLeads
    TargetBoughtOnce
 
CONSTRAINT Explored
SYMMETRY Interchangeable
CHECK_DEADLOCK FALSE
