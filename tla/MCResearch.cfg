SPECIFICATION ResearchSpec
CONSTANTS
    Asset = asset  Benchmark = benchmark  Days = {1, 2, 3}
    Feed <- FeedDef  Uploads <- UploadsDef  IngestionEnabled = TRUE
    LookbackDays = 3  MinBars = 3  Lookback = 2  MaxRestarts = 1  MaxManual = 1
    OpeningCash = 10000  OrderPlans <- OrderPlansDef  MaxExecuted = 8
    Universe = {"QQQ"}  Yardstick = "SPY"  LastDay = 3  Delays = {3, 9}  MaxFeatureAge = 5
    LlmHorizons = {2}  MetaHorizon = 4  MaxCycles = 2
INVARIANTS
    LedgerRecord
    PlanNeverShort PnlAccounted
    PointInTime LabelsLookForward
PROPERTIES BarsArrive
CONSTRAINT Explored
CHECK_DEADLOCK FALSE
