# Lincei control plane: specification, model checking and proofs

This directory holds TLA+ modules for the control plane of the Lincei quant
research engine (`src/backend`) and for its page (`src/frontend`), TLC configurations that
check them on small instances, and TLAPS proofs of every invariant the passing runs check. The paths below are
relative to the repository root. `CPS` stands for
`src/backend/src/modules/control-plane/control-plane.service.ts`, the file that
holds almost all of the state changes modelled here. `PROJECT.json` maps each
definition to the lines it translates and lists the components, runs, hazards,
findings and theorems.

## 1. The system

Lincei proposes investments from deterministic research, evaluates them in a risk
gate, and executes them **on paper**: a durable simulated account in SQLite.
Nothing reaches a broker. The state is one SQLite file, used by several OS
processes: the NestJS server with its cron jobs, the Hono server, and the
`lincei` CLI. They run the same service class. Three facts about the runtime
decide the grain of the models:

* better-sqlite3 is synchronous, so inside one process the awaits of a handler that
  only touches the database are resumed before another request is taken. The
  interleaving that matters is the one between processes, and it may happen
  between any two statements outside a transaction.
* TypeORM's `save(row)` first reads the row and then writes *every* column in which
  the object differs from it. Saving an object that was read earlier puts the old
  values back.
* `AUTOINCREMENT` counters roll back with the transaction that used them, so an id
  given to a rolled-back insert is given out again.

### 1.1 Inventory

| component | state | operations | interacts with | correct when |
|---|---|---|---|---|
| Paper execution | `paper_order_plans`, `paper_accounts`, `paper_account_events` | `paperExecuteProposal`, account critical section, failure path | approvals, holds, control, risk gate | a proposal is filled at most once, the account is what its events say, nothing is overdrawn |
| Order-plan approvals | `order_plan_approvals` | `createOrderPlanApproval`, consumption, expiry | paper execution | one approval pays for one fill, against the state it signed |
| Reservation holds | `paper_reservation_holds` | persist, consume, release | paper execution | no hold outlives its execution |
| Paper reconciliation | plan status, account row | `reconcilePaperOrderPlan` | paper execution | a fill is never taken back |
| Execution control | `execution_control_states` | `updateExecutionControlState`, `tripKillSwitch` | every execution path | nothing fills against the stored state |
| Run schedules, worker | `autonomous_run_schedules`, `autonomous_runs` | `tickRunSchedule`, `advanceRun`, `advanceReducingRun`, cron worker | research, proposals, paper execution | a cycle buys once, none is lost or consumed half way, due cycles are consumed |
| Paper account lifecycle | `paper_accounts.status`, events | `seedPaperAccount`, `promotePaperAccount`, event append | paper execution | one account per scope, gapless event chains, no active account without its seed |
| Fill simulation, accounting | portfolio, position ledgers | `simulatePaperFills`, `applyPaperPositionAccountingFill` | paper execution | equity, positions and PnL agree |
| Risk gate | none | `evaluate` | proposals, approvals | limits and decision as the policy says |
| Budgets and proposals | `budget_envelopes`, `research_runs`, `investment_proposals`, `risk_evaluations` | create, evaluate, generate | runs, gate | what the program proposes passes its own gate; a status rests on a record |
| Baseline research | `research_runs` | dataset, momentum backtest | market data, proposals | no lookahead |
| Market data | `market_data_bars`, ingestion runs | import, poll, cron job | research, alpha | nothing from the future; every bar arrives |
| Broker evidence | snapshots, fills, order statuses, commands, readiness records | import, reconcile, readiness, dry run | paper account and plans | what may carry money rests on a recent match; a match names a fill that agrees |
| Read-only broker adapter | running flag, last poll | two polls, two cron jobs | broker evidence | a clean poll is complete |
| LEAN runs | `artifacts/lean-runs`, markers, `lean_runs`, targets | CLI, simulator, cloud, imports | bridge, preflight, status | evidence that counts is on disk |
| LEAN paper bridge | none | `runPaperCycle`, `runPaperReplay` | approvals, paper execution | a target is bought once |
| Live preflight, shadow, pilot | preflight rows | preflight, shadow, live pilot | bridge, LEAN runs, broker evidence | a clear record is about what the status shows |
| Alpha, learning loop | feature snapshots, decisions, labels | alpha cycle, labelling | market data, bridge | nothing dated before what it read; labels stay |
| V1 orchestrator and status | none | pipeline commands, read-only view | the services above | the view joins rows of one story |
| Research factory, capital evidence | hypotheses, reports | create, assemble | none | I/O |
| Reports, news, LLM | reports | cron, external calls | none | I/O |
| CLI, HTTP, runtime | none | start the same services | all | they are the further processes |
| Dashboard | rows and warnings per panel, requests in flight, in one browser tab | first reading, five actions, the reading after three of them | HTTP | no sample passes for the server's data; rows without a warning are current |
| Python engines | none | numeric strategies | artifacts | outside the backend |

What makes it hard: rows are read, then acted on, and other processes come in
between. This is so in the execution of a proposal, the reconciliation, the
tick, the seed and the promotion, the readiness records, and the bridge's
lookup. To this come transactions that fail, crashes between steps with a retry under
the same key or cycle, leases that run out, polls that fail half way,
providers that answer late, and an operator who changes the control or imports
by hand at any time.

## 2. The modules

| module | of the program | content |
|---|---|---|
| `PaperExecution` | `CPS` 2278-3460 and helpers | approval, execution, critical section, holds, reconciliation, control |
| `PaperLedger` | the promise of the above | one book of cash and position, proposals filled at most once |
| `PaperFills` | `CPS` `simulatePaperFills`, position accounting | orders of a plan against a portfolio, cost basis, PnL |
| `RunSchedule` | `CPS` 6420-7000, the scheduler service | lease, cycle, run, resumption, recovery |
| `PaperAccounts` | `CPS` `seedPaperAccount`, `promotePaperAccount`, `appendPaperAccountEvent` | seed, promotion, event append |
| `BrokerAdapter` | readiness service, poller configuration | what an environment allows, and what is reported of it |
| `BrokerFunding` | `CPS` snapshot import and reconciliation, `assess...Readiness` | broker snapshots, reconciliation, funding and pilot readiness |
| `BrokerFills` | `CPS` `importBrokerFill`, `reconcileBrokerFill`; the Toss poller | fill import, matching, polls and cron jobs |
| `BrokerOrders` | `CPS` command and order status methods | dry-run commands, emergency cancel, order statuses |
| `MarketData` | `CPS` import and baseline, ingestion services, Stooq, baseline runner | bars, polls, restarts, dataset and signal |
| `AlphaLearning` | `v1-pilot/alpha`, `v1-pilot/learning` | alpha cycle, decisions, labels |
| `RiskGate` | `risk-gate.service.ts` | the evaluation as a function |
| `Proposals` | `CPS` `createProposal`, `evaluateProposal` and the generators | generated proposals, save by save, with the gate |
| `LeanRuns` | `v1-pilot/lean` | directories, markers, rows, targets, three kinds of import |
| `PilotCycle` | `v1-pilot/paper`, `live`, status | bridge, current target, shadow, preflight, status stages |
| `Dashboard` | `useControlPlaneDashboard.ts`, its panels' buttons, `api.ts` | what the page shows and warns of while requests fail and the server changes |
| `MCPaperExecution`, `MCRunSchedule`, `MCPilot` | | constants and symmetry for TLC |
| `MCBroker`, `MCResearch`, `MCPipeline` | | instances of several modules, section 3.1 |
| `PaperExecutionProofs`, `RunScheduleProofs`, `PaperAccountsProofs`, `LeanRunsProofs` | | theorems of the module of that name |
| `BrokerProofs` | | theorems of `BrokerFunding`, `BrokerFills`, `BrokerOrders`, `Dashboard` |
| `ResearchProofs` | | theorems of `MarketData`, `AlphaLearning`, `PaperFills`, and their types together |
| `PipelineProofs` | | theorems of `RiskGate`, `Proposals`, `PilotCycle` |
| `Induction` | | lemmas: induction over numbers and finite sets, sums over finite sets, growing rows |

### 2.1 PaperExecution

| state | code |
|---|---|
| `control` | the newest `execution_control_states` row |
| `account` | the promoted `paper_accounts` row: cash, market value of the position, `lockVersion`, sequence of the latest event, applied ledger entries |
| `events` | the `paper_order_plan` events of the account; event hashes are identified with the sequence number |
| `approvals`, `holds` | rows with unique `(proposalId, idempotencyKey)` |
| `plans` | `paper_order_plans`; the AUTOINCREMENT id is the index |
| `pc`, `loc` | the step a process is at, and the rows it has read |

`ExecReadControl`, `ExecReadAccount`, `ExecReadEvent`, `ExecReadApproval` and
`ExecDecide`/`ExecReplay` are the reads of `paperExecuteProposal` in their order.
`Tx...` are the outcomes of the SERIALIZABLE transaction of
`paperExecuteProposalWithAccountCriticalSection`: claim lost, plan already
there, blocked, filled, or rolled back. A blocked outcome outside the transaction and
the save after a rollback (`BlockAfterFailure`) are steps of their own, since a process may
stop before them. `Reconcile...` has one step for each read and each of its two saves.
`Permitted` is `getPaperExecutionBlockedReasons` with no reason left. It is evaluated
twice with the control state and approval read outside, as in the code.

What is abstracted:

* An order is one `Notional`, one `Cost` and one side, the position one market value.
  Quantities and prices are not modelled.
* The evaluation an approval was made for is the account state it was computed from.
  The code reuses a stored evaluation exactly when the portfolio is the same and
  otherwise stores a new one, which the approval does not carry.
* The default idempotency key (made from the evaluation's id) is any member of `Keys`.
* The two look-ups of an existing plan before the decision are one step.
* Budgets never leave `active` and approvals never become `revoked` or `expired`, since no code
  writes these; expiry is compared with the clock, which is `Lapse`.
* The path without a data source (no transaction) is dead: every process supplies one.

### 2.2 RunSchedule

Time is counted in cadences, so `nextRun` and `clock` are cycle numbers and the cycle
key is the number. `lease` is the owner and whether its expiry has passed; the
identity `(leaseOwner, leaseExpiresAt)` that the release compares is the owner, as a
process serves one tick of the schedule at a time. `runs[c]` is the row with the
unique key `(scheduleId, c)`. Handlers keep their copy of the row in
`loc` and write the whole copy back, which is what `save(run)` does. `Holds(p)` says
that p is inside a tick between taking the lease and giving it back.

`Research`, `ProposeFails`, `RecoverThrows`, `PaperFails` are the failures of the calls
inside `advanceRun`. A reducing run's failure escapes the `catch` (`return
this.advanceReducingRun(...)` has no `await`), so the run stays `researching` and the
tick ends in its error path. Paper execution is one step (`PaperFill`, `PaperKeeps`):
`PaperExecution` checks and proves that a proposal never has two live plans whatever
interleaves inside it. `attemptPaperExecution = false` is the `risk_checked` branch of
`PaperFind`; whether the standing authorisation of a schedule applies is left open
(`Unapproved`). Research rows, timelines and `lastError` are left out. There is one
schedule.

### 2.3 PaperAccounts

`seat[w]` is the step a request is at and `desk[w]` what it holds: the row it
read or made, the key and the body. Every read and save of the two handlers is a step:
the scan for an account of the scope, the insert of the row, the search for the
key (`EventFind`), the read of the last sequence (`EventRead`), the insert of the event
against the two unique indexes (`EventSave`), and `Link`, which saves the whole row in memory
once more. `AccountWorkerStops` ends a handler anywhere. The seeder's last save can
therefore put `seeded` back over a promotion that came in between; both outcomes are reachable.

### 2.4 Broker evidence

`BrokerFunding` has time in units of the age limit; a handler reads and later
saves, while paper fills, promotions and imports go on. A funding record carries its `basis`,
the snapshot it was computed from: a history variable no guard reads.
`BrokerFills` has the broker's executions in order (`executedTo`), paper fills in order
(`paperTo`), rows with their verdict and how many paper fills the verdict had seen, and the poller:
`running` is its flag, `polling` the polls in progress. `Score` is the sum the code
minimises, with its units. `BrokerOrders` has orders that move on at the broker, statuses that are the first one
imported, and commands that list what is open. `BrokerAdapter` is read by both: which variables are unset, empty, set or
malformed decides what is polled and what is reported.

### 2.5 MarketData and AlphaLearning

`MarketData`: two half days to a day; the row of a day is served from midnight
and refused until the evening, and with it the whole answer. An import saves bar by bar from
one earlier read of what is there. The poll's flag, its cron job, a provider
that fails for a symbol, restarts and imports by hand are actions. Research takes the aligned
bars; `Signal` compares cross products instead of quotients.
`AlphaLearning`: a cycle fixes `asOf`, reads symbol after symbol, then writes
three kinds of decision rows by upsert under source, symbol and day; the learning
loop lists rows and labels them one by one while bars go on arriving. A row's `read` is the instants at which what
it was computed from became available: a history variable.

### 2.6 RiskGate, Proposals, PaperFills

`RiskGate` is an operator from request and clock to a decision with its reasons;
`Proposals` calls it with the orders the generators size, in hundredths,
with the code's roundings. `ResearchRun`, proposal, link, evaluation and status are saves in their order, and a
worker may stop between any two. `PaperFills` folds the orders of a plan over a
portfolio in cents, with the fee and slippage of the code and its rounding
at each fill, and books what was realized.

### 2.7 LeanRuns

`dirs[r]` is what a run's directory holds (which files, of which runtime, with which
statistics), `rows[r]` the database row, `markers` the two marker files, `job[p]` what a process has
still to save. What a process does without an await is one step. The LEAN CLI,
the simulator and the cloud are external: any outcome their files can show. Directory 0 is the
hand import's, whose name is made from the backtest and is therefore written again by the next
import of it.

### 2.8 PilotCycle

A cycle goes through `runPaperPath`: begin (run, target, mode), look up a plan under that
key, prepare a proposal, pin the latest event, execute, reconcile. `plans` is in order of
`updatedAt`; a saved plan moves to the end. `ledger` is which account is active and whether its
last event is this cycle's. The preflight is three reads and a save. `CurrentPlan`,
`PaperStageReady` and `PreflightStale` are what the status computes from the rows when it is
asked; they are operators, not state.

### 2.9 Dashboard

The server is a list of `changes`, each with the execution control it left; a row is a change a panel reports.
A request is answered with the changes made up to some instant between its start and the application of its
reading, any instant for each panel (`Answers`). `shown` is what a panel has, `warnings` which errors are set,
`request[a]` how far an action is: sent, handled by the server, reading again. `Promise.allSettled` waits for
every answer, so a reading is applied in one step (`Apply`): panels that answered are replaced and lose their
warning, the others keep what they had and get one. `Failed` is a refusal, a loss or the ten seconds of
`api.ts`, after which the server may still act: that is then one of `OthersChange`. The page never polls.
`asOf`, the changes made when the reading applied last began, is a history variable. Leaving the page is left
out, and so is what the shown account holds, which the recovery button also looks at. The execution control
has no warning at all and a dry run takes back that of the research runs: the first is left out of both
properties, the second of `UnwarnedIsCurrent`. Both are hazards in `PROJECT.json`, as no document says what
the page owes there.

### 2.10 The abstract specification

`PaperLedger!Book` knows nothing of processes, rows or approvals: a proposal not yet filled
may be filled if the book can pay for it. `PaperExecution` implements it with the
book read off the event log: cash and position are those after the last
event, `filled` the proposals of the events (`ImplementsLedger`).

## 3. What the runs check

| run | question | bounds | states |
|---|---|---|---|
| `paper_race` | Two processes, two keys, crashes; two buys of which the account can pay one, or a buy and a sale: is any proposal filled twice, any fill unsigned, anything overdrawn, a hold left behind? Does it refine the book? | 2 plans; cash 10, buys of 4+1 and 5+1 | 1.07M |
| `paper_single` | One process with reconciliation, failing transactions, crashes, control changes and an expiring approval: is a fill ever taken back, does a fill obey the control? | 3 plans | 414k |
| `run_ticks` | Two cron workers, control active, paused, reducing, a crash: one buy per cycle, consumed cycles settled, the lease exclusive | 2 cycles, 1 crash, 3 proposals | 581k |
| `run_overlap` | Leases that run out under live holders and runs advanced by hand: does the schedule move by one, is every run that says paper-ready filled? | 2 proposals | 783k |
| `run_progress` | A cron worker and forced ticks, both may crash: every due cycle is consumed, buys once, and every fill is the proposal of its cycle's run. With liveness | 2 crashes, 4 proposals | 326k |
| `broker` | Account lifecycle; snapshots and readiness; fills and polls; commands and statuses; the page that shows them | section 3.1 | 1.20M |
| `research` | Bars, polls, restarts and research; the alpha cycle and its labels; the accounting of fills. With liveness | section 3.1 | 247k |
| `pipeline` | Proposals and the gate; LEAN runs; bridge, preflight and status | section 3.1 | 2.01M |
| `paper_stale_reconcile`, `paper_plan_id_reuse`, `run_recover_twice`, `pilot_double_buy` | counterexamples, section 4 | | |

### 3.1 Runs over several modules

`MCBroker`, `MCResearch` and `MCPipeline` extend several modules and
choose at the start, in `focus`, `subject` or `stage`, which one moves; the others
stay at their initial state. So one run checks several components side by side
with one set of constants, and no interaction is claimed between them: what one
reads of another is an input of its own module (a paper fill in `BrokerFills`, an accepted run in
`PilotCycle`), chosen nondeterministically. Only the environment of the broker adapter is shared state.

Bounds of `broker`: one scope, two keys and two bodies for the seed, one seeder that also promotes and another
promoter, 4 events; one snapshot, funding record and pilot, one funding handler at a time (the proof of
`FundingCovered` takes any number), time to twice the age limit; three executions of which one is a later twin
of another, three paper fills, one refused by the import; one order at the broker, one plan, two command keys,
two workers; five panels (a status, the two whose warning an action clears, the one a dry run writes into, the
one the first reading empties), two changes of the server, two actions that may overlap, one request of a
reading failing. The environments are a complete one, one with a malformed fills path (fills, orders), one
with an empty account sequence (fills, funding); where an environment is not listed it does what another
listed one does, or less. `OneAccountPerScope` needs one seeder: two that scan before either saves make two
accounts. Bounds of `research`: three days, two symbols, one restart, one request by hand; two alpha cycles
over one symbol and three days (`Explored`: the second without texts and with every benchmark day, which is
the case of a day's decisions written twice while a label is made); plans of one and two orders, eight
executed. Bounds of `pipeline`: one drafting worker, two budgets whose limits do not divide, an account above
its limits and one below, two proposals and two evaluations, three of them together (`Explored`); two
processes, the hand import's directory and one run; one bridge request at a time, two runs, two alpha batches,
three of these together (`Explored`), two plans. `TargetBoughtOnce` holds for one request at a time, also with
crashes, and fails for two (finding 4).

**Why the bounds are enough.** Every race here is between two handlers: what one read
and the other wrote. Two processes, two proposals (one that spends, one that sells, or two that
compete for the same cash) and two keys give all pairs. Two plans are a fill
and a competing fill or blocked plan; `paper_single` has a third so that a plan
is reconciled after a later fill. Two cycles give a cycle and its
successor, and one crash between any two steps gives the resumption. The amounts are the
smallest for which fees decide whether both buys fit and the seeded position does not cover the sale.
Three days are the least for a bar corrected, a bar filled in and a window that ends after one that is missing;
three executions the least for a twin that competes for another's match.
Symmetry is used on interchangeable processes only, and not in the liveness runs.
`MaxPlans`, `MaxCycle` and the other `Max...` constants bound the state space by guards;
the theorems hold for every value of them.
`CHECK_DEADLOCK FALSE` is set because the bounded counters run out and the system
may then rest.

**Fairness.** `RunSchedule!FairSpec` (`run_progress`): the cron fires every minute (weak
fairness of a ticker's start), a live process finishes the handler it is in
(weak fairness of `Continue`), and time passes a lease's expiry. Crashes are not fair and
bounded; no fairness is given to the operator or the clock. `DueCyclesConsumed`
is conditional: a cycle is consumed *or the control leaves `active`*. Under `reducing` a
schedule without a position to sell throws every minute and its cycle is never
consumed.
`MarketData!MarketFairness` (`research`, `BarsArrive`): the clock runs, the cron job fires, an import in
progress goes on, a request is answered or fails, all weak. Of the provider strong fairness is
assumed, symbol by symbol: one that is asked for a symbol again and again answers again and again. Without it no property of
arrival could hold, and with weak fairness only a provider that never fails would do.
The other modules have no liveness property: their handlers are requests nobody is obliged to make.

## 4. Where the code departs from what is said of it

Each is a run that expects a violation of one property. The finding in `PROJECT.json` quotes the line.

1. **`paper_stale_reconcile`**: reconciliation saves the account row it read before,
   outside a transaction; a fill committed in between is taken off the account. A
   consequence (three plans, two racing reconcilers; not a run): a second reconciliation
   against the stale row marks a filled plan `reconciliation_failed`, which does not count as a
   duplicate, and the proposal can be filled again.
2. **`paper_plan_id_reuse`**: the failed plan is saved with the rolled-back id and can
   overwrite a plan another process filled.
3. **`run_recover_twice`**: a recovery run resumed after its fill sells again.
4. **`pilot_double_buy`**: two bridge requests for one target look for a plan before either has one; each makes a proposal
   of its own, pins the event it finds then, and is filled.

Further disagreements that are not runs:

* The control state is read once, first (`CPS` 2356). A halt stored by another process while the handler is on
  its way does not stop the fill; `FillObeysControl` fails with two processes (`docs/api/06-paper-orders.md`
  line 32).
* A halt between the tick's check and `advanceRun`'s consumes the cycle (`CPS` 6618), while one before the
  first check leaves it due (test `control-plane.service.spec.ts` line 3709).
* The lease is not renewed (`CPS` 6489). If it runs out under a live holder, or a run is advanced by hand
  (`POST runs/:id/advance` takes no lease), a cycle can buy twice (`docs/api/07-runs-and-schedules.md` line
  110).
* A forced tick that read an old `nextRunAt` may move the schedule back by a cadence. No document rules this
  out, so `NextMovesByOne` is stated without forced ticks; `run_progress` checks what then still holds.
* When another writer claimed the account version first, `TxClaimLost` throws before a plan exists (`CPS`
  2642), while `docs/api/06-paper-orders.md` line 51 says that the plan is blocked.
* Importing the hand import's directory by name gives its row another key; the next hand import does not know
  it and fetches over a directory that counts as evidence. `EligibleRests` excepts such a row.
* A plan of the bridge that was blocked is found under its key and returned ever after
  (`lean-paper-bridge.service.ts` 96-103); only another run or target is tried anew.
* The age of a pinned dataset is that of its newest bar, of the asset or of the benchmark (`CPS` 7079): a
  benchmark that stopped long ago passes while the asset is fresh, where `docs/api/07-runs-and-schedules.md`
  line 22 says that stale availability of either fails.
* The fills path is looked at only when a fill poll starts (`toss-read-only-broker.service.ts`): a malformed
  one throws there, while the readiness status reports the poller as configured.

## 5. What is proved

The proofs hold for every set of processes, workers, proposals, symbols, panels and keys, every amount and
every bound. They use the modules' named assumptions (types of the constants) and what each theorem states in its
ASSUME. Every invariant and action property of a passing run, and the refinement, is stated by one of these theorems.

| module: theorem | property | assumes |
|---|---|---|
| `PaperExecutionProofs`: `TypeCorrect` | `TypeOK` | |
| `Custody` | `SignedCustody` | `PlanIdsSafe`: transactions fail only where there is one process |
| `HoldsEnd` | `HoldsSettled` | `PlanIdsSafe` |
| `NoDoubleFill`, `Accounting`, `BalancesFollow`, `FillsStand` | `SingleLivePlan`, `AccountIsProjection`, `EventsContinuous`, `AppliedPlansStayLive` | `SafeDeployment`: one process, or no reconciliation and no failing transaction |
| `Refinement` | `ImplementsLedger` | `SafeDeployment` |
| `Funded` | `NeverOverdrawn` | `SafeDeployment`, and `CostsWithinNotional`: no order's costs exceed its notional |
| `ControlObeyed` | `FillObeysControl` | one process |
| `RunScheduleProofs`: `TypeCorrect` | `TypeOK` | |
| `LeaseMutex` | `LeaseExclusive` | `Timely`: leases outlive their holders |
| `NextSteps` | `NextMovesByOne` | no forced ticks; leases may lapse |
| `ReadyRunsFilled` | `PaperReadyFilled` | |
| `BuysOnce` | `OneBuyPerCycle` | `OneAtATime`: `Timely`, and no run advanced by hand |
| `ConsumedSettled` | `ConsumedCyclesSettled` | `OneAtATime`, and no forced ticks |
| `EveryFillTraced` | `FillsTraced` | `OneAtATime`, and the control is never `reducing` |
| `PaperAccountsProofs`: `Chains`, `ActiveAccountsSeeded` | `ChainPerAccount`, `ActiveWasSeeded` | |
| `OneAccount` | `OneAccountPerScope` | `OneSeeder` |
| `BrokerProofs`: `CopiesMatched`, `CleanPolls` | `ExactCopyMatched`, `CleanPollIsComplete` | |
| `MatchesTraced`, `OnePoll`, `PollsReported` | `MatchedFillTraced`, `OnePollAtATime`, `PollsOnlyWhenReported` | |
| `DepositsCovered` | `FundingCovered` | |
| `OpenOrdersNamed` | `NoOpenOrderMissed` | |
| `SamplesWarned`, `UnwarnedCurrent` | `SampleIsWarned`, `UnwarnedIsCurrent` | |
| `LeanRunsProofs`: `EligibleStands`, `MarkerLeads` | `EligibleRests`, `StrategyMarkerLeads` | `OneHandImporter`: one process imports by hand |
| `ResearchProofs`: `DecisionsPointInTime`, `LabelsStay` | `PointInTime`, `LabelsStand` | |
| `LedgerSound`, `NoLookahead` | `LedgerRecord`, `SignalsIgnoreTheFuture` | |
| `NeverShort` | `PlanNeverShort` | |
| `PnlAgrees` | `PnlAccounted` | `OnePrice`: the price of a symbol stands still |
| `ResearchTyped` | `ResearchTypeOK` | |
| `PipelineProofs`: `OneBuyPerTarget` | `TargetBoughtOnce` | `OneCycle`: one bridge request at a time |
| `VerdictSound` | `VerdictRests` | |
| `RecordInvariance` | `RecordInv`, a strengthening of the next | |
| `RowsAgree` | `ProposalsOnRecord` | `OneDrafter` |
| `OwnOrders` | `OwnOrdersPass` | `SoundBudgets`: budgets above 100 units whose policy can be met |

The assumptions are where the findings are: without `PlanIdsSafe` finding 2, without `SafeDeployment` findings
1 and 2, with several processes the late halt, without `Timely` or with runs advanced by hand the cycle that
buys twice, without `OneSeeder` two accounts of a scope, without `OneCycle` finding 4, without `OneDrafter`
two recovery proposals for one state of the account. `SoundBudgets` is not enforced: `createBudgetEnvelope`
checks none of it. In a budget of 100 units or less the rounding of a target can exceed the limit it was sized
by, and a single-position limit above the gross limit lets the generators size what the gate refuses. Without
`OnePrice` a position's value, kept as notionals bought less sold, and its quantity part, and one whose value
reaches zero is dropped with what is left of its basis: PnL and equity then differ, as the ledger has it.
Under them the property holds for every interleaving. `CostsWithinNotional` excludes a sale whose fee exceeds
its proceeds; the code checks no cash for a sale.

**Custody.** `SignedCustody` is not inductive: an execution acts on an approval it read
some steps ago. `CustodyInv` adds that a key names one plan (`OnePlanPerKey`), that the
approval a handler found is still stored with the sequence it signed
(`FoundApprovalStored`), that a rolled-back plan's id and key are free
(`RolledBackPlanFree`), and that the plan a reconciliation writes back is a version of the stored
one (`ReconciledPlanStored`). A fill needs the approval's sequence to be the present
length of the log, so an approval already consumed, whose event exists, can never pay
again.

**The account.** `SafeInv` adds that the account follows its events, that an applied
plan, and no other, has its event and ledger entry (`AppliedPlansRecorded`, `LedgerFollowsEvents`), and that a
reconciliation under way works on rows as they are (`ReconcileFresh`); from these a plan reconciles and never fails.
`Refinement` maps `TxFill` to `Fill` of the book and every other step to a stutter;
`NothingReserved` shows that no hold is open when the transaction decides, so that
what is available is the balance itself.

**The lease.** `LeaseInv`: a tick that is not forced is `Unforced` when nobody may force, a
holder whose tick is not forced is at the cycle the schedule is at as long as it owns
the lease (`OnItsCycle`), a holder owns the lease as long as leases outlive holders (`OwnsLive`), and only ticks
release (`ReleasesTick`).

**Runs and fills.** `ReadyInv` (no assumption): whoever says paper-ready, a stored run or a handler's copy,
speaks of a filled proposal, so writing back a whole row that is out of date does no harm there. `CycleInv`,
under `OneAtATime`: from reading the run until its last save the handler's copy has the stored proposal,
except just before a new one is saved (`CopyOK`); a row is overwritten with a purchase only if it had no
proposal (`MayReplace`); so a cycle that bought has a run with no other purchase (`Traced`), and a second fill
would be of the same proposal, which is refused. `BaselineInv`: without `reducing` every proposal is a
purchase.

**Account chains.** `AInv`: a worker that read the last number and saves the next one either finds it free, and
then no event of the account came in between, or is refused by the index; what a worker knows at each step (`Knows`) is
about its own account, which has no event before its seed, and only one worker records that (`SeedsApart`). `SInv` adds, for one
seeder, that the scope it searched is still free when it inserts.

**Fills and polls.** `FInv`: a verdict, saved or held, is true of the paper fills it had seen; that a better score wins never
loses an exact copy, because an exact copy scores lowest. The flag and the polls agree, and a
poll that has gone through its list without an error left a verdict at each of its places.

**Funding.** `CoverInv`: a verdict travels with the row it is about, so a handler that saves an old row brings the old verdict
back but never puts one beside a book it was not reached for, and no verdict is older than its snapshot (`RowSound`). A match on a
recent snapshot is then itself recent, and the snapshot's cash is the cash the account had. This is where several handlers
overlap: the run has one, the theorem any number.

**LEAN evidence.** `LInv`: a directory other than the hand import's is written while nothing can be known of
it (`Fresh`), no two cloud backtests share one (`CloudApart`), and a row about to be saved is as good as its
directory (`Backed`). The hand import fetches only while its own row is not eligible, and with one hand
importer nobody changes that in between.

**Dates.** `AlphaInv`: a cycle goes on only with bars that were available at its `asOf`; a semantic
decision's texts are no later than its snapshot, so its date is the snapshot's. A stored history has a last day and, from any
instant on, a first one (`Dated`), and a bar stored later is of a later day, so the ends of a label's window stay
the first bars there are.

**Open orders.** `OpenInv`: an order never leaves a state it ends in, so a stored status outside the list of
open ones is the order's last, whenever it was asked for and however late it is saved (`StatusTrue`). Nothing
still open at the broker is therefore left out of the list.

**The page.** `PageInv`: a panel never answered and without a warning has not been asked for, so the first
reading is still out and no other has been applied (`SamplesFlagged`, `Unasked`); a warning is taken back
elsewhere only by an action that needs the panel's rows to start, or that puts a row there
(`WarningOfAction`). A panel without a warning answered the reading applied last, with at least the changes
made when that began (`CurrentRows`).

**Bars and signals.** `MarketInv` says of each handler on its way what it has already saved: an import's, a
poll's and a stored run's bars are there, none is available later than the clock, and the flag is on while a
poll is. Because a bar is never deleted, a run stored later still names bars that exist. `NoLookahead` needs
no invariant: the signal's look-back ends before the period.

**A plan's fills.** `PlanNeverShort` and `PnlAccounted` are about a fold over the orders of a plan, for plans
of any length. `FillsFit` is what holds after the first i orders: the cash covers the buys to come, each
position the sales to come, and cash, values and costs add up to what they were, as do the gains. It is proved
order by order (`PrefixInduction`), the sums by the lemmas of `Induction` (`SumUpdate`, `SumRemove`,
`SumSupport`). `BookFits` carries it from plan to plan.

**One plan per target.** `BoughtInv`: no two plans have one key, and a request past its look-up has found none
of its own; with one request at a time none appears while it goes on.

**The verdict.** `VerdictInv`: a clear preflight names a run and a plan, and a run that has a target keeps
one; what the status calls current it has read again itself.

**Proposals.** `RecordInv`, for any number of drafters: a proposal's status is the one of its latest
evaluation or of its first save, and every row a drafter holds exists. With one drafter `RecoveryApart` adds
that no recovery exists yet for the state one is drafted for. `OwnInv`: a draft and its row are `Sized`, by an
envelope there is and holdings the account had, at a time that is past; a denial has a reason the orders are
not to blame for (`Excused`): the mode, the age of the data, or an account already above its limits. The
generators' roundings are followed through (`Sized`, lemmas on the quotients), which is where the 100 units
come from.

**Induction.** The library's induction theorems take an operator and cannot be used here. `Induction` states
induction over numbers, prefixes and subsets of a finite set about the SET of those for which the statement
holds, which is first order; they follow from the well-foundedness of the strict subset ordering. Tables are
sequences that only grow, and `RowsAppend` and `RowsIndexed` say that what is true of a row stays true when
another is appended.

**Only model-checked.** The two liveness properties, `DueCyclesConsumed` and `BarsArrive`: fairness and
ENABLED are out of the prover's reach. The four runs of section 4 are counterexamples.

## 6. Not modelled

* **Research factory, capital evidence, reports, news, LLM, Python engines**: external I/O, text,
  floating-point scores, or files assembled for a reader. No row of theirs decides what the modelled parts do.
* **Of the dashboard** its layout and language, the contents of the samples, and what is computed from shown
  rows (workflow stages, cycle evidence).
* **The learning loop's promotion decision** is one read of everything and one row; **the model registry** is
  data the alpha cycle copies.
* **The live pilot** always blocks: `tossWriteAdapterReady` is the constant false, so the status verdict is
  never `ready`, and `VerdictRests` is about the strongest state there is, a preflight that only the flags
  block.
* **The bridge's broker snapshot** (`ensureBrokerSnapshot`) writes a row no step of the bridge reads again.
* **Several schedules.** `listDueRunSchedules` takes the five due longest, so five that throw on every tick
  starve the others. `RunSchedule` has one schedule; a model of several would show just this, which no
  document contradicts.
* **Proposals posted by a client** carry orders of any kind. Several sells in one proposal can together exceed
  a position that each of them respects; the gate looks at one order at a time.
* **HTTP, mapping of single fields, tokens** of the broker adapter, and metrics of research that decide
  nothing (returns, drawdown, parameter sweeps).

Known limits of other models that their properties do not reach: one paper fill may be matched to several
broker fills, as the code promises no pairing; a promotion that stops before its event leaves an active
account without one, which nothing looks for; a ready funding record has no expiry; a plan blocked under the
one key of a standing approval (`CPS` 7304) is returned ever after; event hashes are not modelled; the cron
jobs of the two polls exclude each other by one flag, so a slow snapshot poll skips the fill poll of that
minute; a page that a cloud import reads half is one outcome of its files.

## 7. What is left

1. A module of several schedules and the worker's choice, once a document says what it owes them.
2. An abstract specification of a schedule as a counter of cycles each with at most one buy, implemented by `RunSchedule` when leases are
   timely; one of an account as a chain of events, implemented by `PaperAccounts` with one seeder.
3. `PaperExecution` with the portfolio of `PaperFills` in place of one position, and `PilotCycle` composed with it.

## 8. Running it

    tlc -config MCPaperRace.cfg MCPaperExecution.tla
    tlc -config MCRunTicks.cfg MCRunSchedule.tla
    tlc -config MCBroker.cfg MCBroker.tla
    tlc -config MCResearch.cfg MCResearch.tla
    tlc -config MCPipeline.cfg MCPipeline.tla
    tlapm PaperExecutionProofs.tla

Every passing run ends within four minutes on two workers, and every proof module within five. For every property of every
passing run `PROJECT.json` names a mutant: an operator in the module, marked *Mutant*, that
changes one definition the way a plausible slip in the code would and breaks that property.
