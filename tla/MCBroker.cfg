SPECIFICATION BrokerSpec
CONSTANTS
    scope = scope  w1 = w1  w2 = w2  d1 = d1  d2 = d2  o1 = o1
    Seeders = {w1}  Promoters = {w1, w2}  Scopes = {scope}
    SeedRequests <- SeedRequestsDef  PromoteRequests <- PromoteRequestsDef
    AccountsMayStop = TRUE  MaxAccounts = 2  MaxAccountEvents = 4
    Environments <- Deployments
    Books <- BooksDef  FundingKeys = {"none"}  Deposits = {1, 2}  PilotCaps = {2}
    Sources <- SourcesDef  BudgetModes = {"live"}  FundingDesks = {d1, d2}  HardCap = 2
    Requests <- RequestsDef
    MaxTime = 2  MaxSnapshots = 1  MaxFunding = 1  MaxPilots = 1
    Refs = {1, 2, 3}  Executed <- ExecutedDef  Malformed = {}  Refused = {3}
    PaperFills <- PaperFillsDef  MaxReconciles = 1
    Placed <- PlacedDef  Plans <- PlansDef  CommandKeys = {"k1", "none"}
    OrderDesks = {w1, w2}  MaxCommands = 1
    Panels = {"controlPlaneStatus", "researchRuns", "runs", "runSchedules", "paperAccount"}
    Controls <- ControlsDef  MaxChanges = 2  MaxClicks = 2  MaxRejected = 1
INVARIANTS
    ChainPerAccount ActiveWasSeeded OneAccountPerScope
    FundingCovered
    ExactCopyMatched CleanPollIsComplete
    NoOpenOrderMissed
    SampleIsWarned UnwarnedIsCurrent
CONSTRAINT OneRecord
ACTION_CONSTRAINT OnlyPilotsAfter
SYMMETRY DeskSymmetry
CHECK_DEADLOCK FALSE
