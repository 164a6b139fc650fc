----------------------------- MODULE MarketData -----------------------------
(***************************************************************************)
(* Market-data bars and the research made of them: importMarketDataBars,   *)
(* runBaselineResearch and createResearchRun of ControlPlaneService, the   *)
(* ingestion poll of MarketDataIngestionService with its cron job, and the *)
(* Stooq provider behind it.                                               *)
(*                                                                         *)
(* One dataset, one timeframe.  The bar of day d is stamped 2d (midnight)  *)
(* and becomes available at 2d + 1 (22:00).  Bars are saved one by one; a  *)
(* poll and a request to import by hand go on at the same time.            *)
(***************************************************************************)
EXTENDS Integers, Sequences, FiniteSetsExt

CONSTANTS
    Asset, Benchmark,   \* the two symbols of a baseline
    Days,               \* 1..n
    Feed,               \* [symbol -> [day -> close]]: what the provider has
    Uploads,            \* batches imported by hand: [symbol, bars], see Bar
    IngestionEnabled,   \* MARKET_DATA_INGESTION_ENABLED
    LookbackDays,       \* length of the poll's window
    MinBars,            \* bars a dataset-backed baseline needs (6)
    Lookback,           \* periods the momentum looks back (3)
    MaxRestarts,        \* bound on process restarts
    MaxManual           \* bound on the requests of operators

Symbols == {Asset, Benchmark}
Stamp(d) == 2 * d
Available(d) == 2 * d + 1
LastTime == Available(Max(Days))

\* `adjusted' 0 is no adjusted close.
Bar == [close: Nat \ {0}, adjusted: Nat, available: Nat]
NoBar == [close |-> 0, adjusted |-> 0, available |-> 0]

ASSUME MarketAssumption ==
    /\ Asset # Benchmark
    /\ IsFiniteSet(Days) /\ Days = 1..Cardinality(Days) /\ Days # {}
    /\ \A s \in Symbols : \A d \in DOMAIN Feed[s] : d \in Days /\ Feed[s][d] \in Nat \ {0}
    /\ \A u \in Uploads : u.symbol \in Symbols /\ DOMAIN u.bars \subseteq Days
    /\ \A u \in Uploads, d \in Days : d \in DOMAIN u.bars => u.bars[d] \in Bar
    /\ IngestionEnabled \in BOOLEAN
    /\ LookbackDays \in Nat \ {0} /\ Lookback \in Nat \ {0}
    /\ MinBars \in Nat /\ MinBars > Lookback
    /\ MaxRestarts \in Nat /\ MaxManual \in Nat

VARIABLES
    time,           \* the clock
    bars,           \* market_data_bars: [symbol -> [day -> bar or NoBar]]
    import,         \* the import each importer is in the middle of
    ingesting,      \* the poll's running flag
    poll,           \* the poll in progress: symbols to do, done and failed
    lastIngestion,  \* the latest stored ingestion run
    research,       \* the latest stored research run
    manual, restarts    \* requests of operators and restarts so far

marketVars == <<time, bars, import, ingesting, poll, lastIngestion, research, manual, restarts>>

Feeders == {"poll", "upload"}
Quiet == [symbol |-> Asset, batch |-> <<>>, left |-> {}, known |-> {}, busy |-> FALSE]
\* `since' is when the poll began; `answered' the days the provider answered with, of the
\* symbols done.
NoPoll == [todo |-> <<>>, done |-> {}, failed |-> {}, on |-> FALSE, since |-> 0,
           answered |-> [s \in Symbols |-> {}]]
NoIngestion == [status |-> "none", imported |-> {}, failed |-> {},
                answered |-> [s \in Symbols |-> {}]]
NoResearch == [ready |-> FALSE, days |-> {}, available |-> 0, at |-> 0]

MarketTypeOK ==
    /\ time \in 0..LastTime
    /\ bars \in [Symbols -> [Days -> Bar \cup {NoBar}]]
    /\ \A a \in Feeders : import[a].left \subseteq Days /\ import[a].known \subseteq Days
    /\ ingesting \in BOOLEAN /\ ingesting = poll.on   \* the flag is up while a poll runs
    /\ poll.done \cup poll.failed \subseteq Symbols /\ poll.since \in 0..time
    /\ lastIngestion.status \in {"none", "skipped", "succeeded", "partial", "failed"}
    /\ research.days \subseteq Days

MarketInit ==
    /\ time = 0
    /\ bars = [s \in Symbols |-> [d \in Days |-> NoBar]]
    /\ import = [a \in Feeders |-> Quiet]
    /\ ingesting = FALSE
    /\ poll = NoPoll
    /\ lastIngestion = NoIngestion
    /\ research = NoResearch
    /\ manual = 0 /\ restarts = 0

Tick24 ==
    /\ time < LastTime /\ time' = time + 1
    /\ UNCHANGED <<bars, import, ingesting, poll, lastIngestion, research, manual, restarts>>

-----------------------------------------------------------------------------
(* importMarketDataBars *)

Stored(s) == {d \in Days : bars[s][d] # NoBar}

\* Mutant: only the time stamp is held against the clock.
StampedByNow(batch) == \A d \in DOMAIN batch : Stamp(d) <= time
\* validateMarketDataImportRequest: no bar may become available in the future.
ValidBatch(batch) == \A d \in DOMAIN batch : batch[d].available <= time

\* The stored bars of the symbol are read once, before the first save.
StartImport(a, s, batch) ==
    import' = [import EXCEPT ![a] =
        [symbol |-> s, batch |-> batch, left |-> DOMAIN batch, known |-> Stored(s), busy |-> TRUE]]

\* A column that the request leaves out keeps its stored value.
Overwritten(old, new) ==
    [new EXCEPT !.adjusted = IF new.adjusted = 0 THEN old.adjusted ELSE new.adjusted]

UploadRequest ==
    /\ ~ import["upload"].busy
    /\ manual < MaxManual /\ manual' = manual + 1
    /\ \E u \in Uploads : ValidBatch(u.bars) /\ StartImport("upload", u.symbol, u.bars)
    /\ UNCHANGED <<time, bars, ingesting, poll, lastIngestion, research, restarts>>

\* An import by hand is answered; the poll goes on with its next symbol.
FinishImport(a, ok) ==
    /\ import' = [import EXCEPT ![a] = Quiet]
    /\ IF a = "upload" THEN UNCHANGED poll
       ELSE poll' = [poll EXCEPT !.todo = Tail(@),
                        !.done = IF ok THEN @ \cup {Head(poll.todo)} ELSE @,
                        !.answered[Head(poll.todo)] = IF ok THEN DOMAIN import[a].batch ELSE @,
                        !.failed = IF ok THEN @ ELSE @ \cup {Head(poll.todo)}]

\* Mutant: a bar that cannot be saved ends the import as if it were done.
CollisionPasses(a) == FinishImport(a, TRUE)
\* The bar was not there when the import began but is now: the unique key refuses it,
\* which ends the import half way.
Collision(a) == FinishImport(a, FALSE)

\* The next bar in time order.
SaveBar(a) ==
    /\ import[a].busy /\ import[a].left # {}
    /\ LET i == import[a]
           d == Min(i.left)
           collides == d \notin i.known /\ bars[i.symbol][d] # NoBar
       IN  IF collides THEN Collision(a) /\ UNCHANGED bars
           ELSE /\ bars' = [bars EXCEPT ![i.symbol][d] = Overwritten(@, i.batch[d])]
                /\ import' = [import EXCEPT ![a].left = @ \ {d}]
                /\ UNCHANGED poll
    /\ UNCHANGED <<time, ingesting, lastIngestion, research, manual, restarts>>

ImportDone(a) ==
    /\ import[a].busy /\ import[a].left = {}
    /\ FinishImport(a, TRUE)
    /\ UNCHANGED <<time, bars, ingesting, lastIngestion, research, manual, restarts>>

-----------------------------------------------------------------------------
(* MarketDataIngestionService.poll and its cron job *)

Skip == /\ lastIngestion' = [NoIngestion EXCEPT !.status = "skipped"]
        /\ UNCHANGED <<ingesting, poll>>
\* Nothing is awaited between the look at the flag and its setting.
BeginPoll ==
    /\ ingesting' = TRUE
    /\ poll' = [NoPoll EXCEPT !.todo = <<Asset, Benchmark>>, !.on = TRUE, !.since = time]
    /\ UNCHANGED lastIngestion

PollUnlessRunning(force) ==
    IF ingesting \/ (~ IngestionEnabled /\ ~ force) THEN Skip ELSE BeginPoll

ManualPoll ==
    /\ manual < MaxManual /\ manual' = manual + 1
    /\ \E force \in BOOLEAN : PollUnlessRunning(force)
    /\ UNCHANGED <<time, bars, import, research, restarts>>

CronIngest ==
    /\ IngestionEnabled
    /\ PollUnlessRunning(FALSE)
    /\ UNCHANGED <<time, bars, import, research, manual, restarts>>

\* fetchBars and parseStooqDailyCsv: the rows in the window, which ends when the poll
\* began.  The row of a day is there from midnight on, and carries that day's availability.
Fetched(s) ==
    [d \in {d \in DOMAIN Feed[s] :
              Stamp(d) <= poll.since /\ Stamp(d) >= poll.since - 2 * LookbackDays} |->
        [close |-> Feed[s][d], adjusted |-> Feed[s][d], available |-> Available(d)]]

Fetching == poll.on /\ ~ import["poll"].busy /\ poll.todo # <<>>

\* The answer is imported; one without rows, or with a row that is not available yet,
\* fails the symbol as a whole.
FetchAnswered ==
    /\ Fetching
    /\ LET s == Head(poll.todo)
           batch == Fetched(s)
       IN  IF DOMAIN batch # {} /\ ValidBatch(batch)
           THEN StartImport("poll", s, batch) /\ UNCHANGED poll
           ELSE FinishImport("poll", FALSE)
    /\ UNCHANGED <<time, bars, ingesting, lastIngestion, research, manual, restarts>>

FetchFailed ==
    /\ Fetching
    /\ FinishImport("poll", FALSE)
    /\ UNCHANGED <<time, bars, ingesting, lastIngestion, research, manual, restarts>>

\* Mutant: a poll in which nothing failed half way counts as succeeded.
StatusOfImported(done, failed) ==
    CASE done # {}  -> "succeeded"
      [] OTHER      -> "failed"
StatusOf(done, failed) ==
    CASE done = Symbols                 -> "succeeded"
      [] done # {} /\ done # Symbols    -> "partial"
      [] OTHER                          -> "failed"

\* Mutant: without the finally block a failed poll leaves the flag up.
FlagAfterFailure(done) == done = {}
FlagAfter(done) == FALSE

\* The run is stored and the flag goes down in the finally block.
PollEnds ==
    /\ poll.on /\ poll.todo = <<>> /\ ~ import["poll"].busy
    /\ lastIngestion' = [status |-> StatusOf(poll.done, poll.failed),
                         imported |-> poll.done, failed |-> poll.failed,
                         answered |-> poll.answered]
    /\ ingesting' = FlagAfter(poll.done) /\ poll' = NoPoll
    /\ UNCHANGED <<time, bars, import, research, manual, restarts>>

\* The process restarts: what is in memory is lost, what was saved stays.
Restart ==
    /\ restarts < MaxRestarts /\ restarts' = restarts + 1
    /\ ingesting' = FALSE /\ poll' = NoPoll
    /\ import' = [a \in Feeders |-> Quiet]
    /\ UNCHANGED <<time, bars, lastIngestion, research, manual>>

-----------------------------------------------------------------------------
(* runBaselineResearch *)

Price(s, d) == IF bars[s][d].adjusted # 0 THEN bars[s][d].adjusted ELSE bars[s][d].close

Aligned == Stored(Asset) \cap Stored(Benchmark)
\* The aligned bars in time order: what the runner is given.
NthDay(i) == CHOOSE d \in Aligned : Cardinality({e \in Aligned : e <= d}) = i
Dataset == [i \in 1..Cardinality(Aligned) |->
    [asset |-> Price(Asset, NthDay(i)), benchmark |-> Price(Benchmark, NthDay(i))]]

\* runMomentumBaseline: relative momentum up to the previous close.
Signal(data, i) ==
    LET from == data[i - Lookback]
        to == data[i - 1]
    IN  to.asset * from.benchmark > to.benchmark * from.asset /\ to.asset > from.asset

Periods(data) == (Lookback + 1)..Len(data)
\* Position changes, the first from no position.
Trades(data) ==
    {i \in Periods(data) :
        IF i = Lookback + 1 THEN Signal(data, i) ELSE Signal(data, i) # Signal(data, i - 1)}

\* buildBaselineResearchRunRequest: the data are available once their last bar is.
AvailableFrom == Max({bars[s][d].available : s \in Symbols, d \in Aligned})

\* getResearchRunBlockedReasons is empty.  The runner fills in everything it asks for but
\* these two: a backtest has a trade, and its data are available by now.
ResearchReady == Trades(Dataset) # {} /\ AvailableFrom <= time

\* buildBaselineMarketDataset, then createResearchRun.
BaselineResearch ==
    /\ manual < MaxManual /\ manual' = manual + 1
    /\ Cardinality(Aligned) >= MinBars
    /\ research' = [ready |-> ResearchReady, days |-> Aligned,
                    available |-> AvailableFrom, at |-> time]
    /\ UNCHANGED <<time, bars, import, ingesting, poll, lastIngestion, restarts>>

MarketNext ==
    \/ Tick24
    \/ UploadRequest \/ \E a \in Feeders : SaveBar(a) \/ ImportDone(a)
    \/ ManualPoll \/ CronIngest \/ FetchAnswered \/ FetchFailed \/ PollEnds \/ Restart
    \/ BaselineResearch

MarketSpec == MarketInit /\ [][MarketNext]_marketVars

\* The clock runs, the cron job fires, and a handler that is in progress goes on.  A provider
\* that is asked for a symbol again and again answers again and again.
MarketFairness ==
    /\ WF_marketVars(Tick24) /\ WF_marketVars(CronIngest)
    /\ \A s \in Symbols : SF_marketVars(FetchAnswered /\ Head(poll.todo) = s)
    /\ WF_marketVars(FetchAnswered \/ FetchFailed) /\ WF_marketVars(PollEnds)
    /\ \A a \in Feeders : WF_marketVars(SaveBar(a) \/ ImportDone(a))

-----------------------------------------------------------------------------
(* Properties. *)

\* Nothing in the ledger is from the future: every bar was available when it was
\* saved, and so was everything a research run rests on when it was made, however
\* imports interleave with the clock.
NothingFromTheFuture ==
    /\ \A s \in Symbols : \A d \in Stored(s) : bars[s][d].available <= time
    /\ research.days # {} => research.available <= research.at

\* A symbol that an ingestion run counts as imported has every bar the provider answered
\* with, although the import of it saves bar by bar beside another one that may take any
\* of its keys first; a run stored as succeeded imported every symbol.
ImportedIsStored ==
    /\ \A s \in lastIngestion.imported :
          lastIngestion.answered[s] # {} /\ lastIngestion.answered[s] \subseteq Stored(s)
    /\ lastIngestion.status = "succeeded" => Symbols = lastIngestion.imported

\* The ledger of bars and of runs over them.
LedgerRecord == NothingFromTheFuture /\ ImportedIsStored

\* Every bar the provider has is in the ledger in the end, although polls before 22:00
\* fail on the row of the day and imports by hand collide with them.
DaysArrive == <>(\A s \in Symbols : DOMAIN Feed[s] \subseteq Stored(s))

=============================================================================
