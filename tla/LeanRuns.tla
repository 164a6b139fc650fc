------------------------------- MODULE LeanRuns -------------------------------
(***************************************************************************)
(* LEAN runs: what the CLI, the simulator and QuantConnect Cloud leave in  *)
(* artifacts/lean-runs/<run id>, which of it is accepted as strategy       *)
(* evidence, and the lean_runs rows, target snapshots and markers that     *)
(* point to it (LeanCliRunner, LeanLocalSimulatorService, LeanCloudRunner, *)
(* LeanCloudManualImporter, LeanRunImportService, lean-run-acceptance).    *)
(*                                                                         *)
(* Several processes work on one artifacts root and one database: the CLI  *)
(* starts one per command.  Between two awaits a process does not yield,   *)
(* so what it writes to disk there is one step; it may stop at any await.  *)
(***************************************************************************)
EXTENDS Integers, FiniteSets

CONSTANTS
    LeanProcesses,  \* processes
    HandKeys,       \* the keys of the hand imports that share a directory, see Hand
    MaxRuns         \* bound on runs

ASSUME LeanAssumption ==
    HandKeys \cap {"none", "import", "cloud"} = {} /\ MaxRuns \in Nat

VARIABLES
    made,       \* runs begun
    dirs,       \* the artifacts of each run
    rows,       \* lean_runs by run id
    stored,     \* the runs with a target snapshot
    markers,    \* the marker files the program reads back
    job,        \* what each process is doing
    mixed       \* history: hand imports overlapped, or fetched over one of another key

leanVars == <<made, dirs, rows, stored, markers, job, mixed>>
leanStore == <<rows, stored>>

\* The directory of a hand import is named after the first characters of the backtest's id;
\* its key is made of the whole id and the project that was named, or none.  So imports of
\* several keys share a directory.  Every other run has a directory of its own.
Hand == 0
Runs == Hand..MaxRuns
MarkerNames == {"latest", "latest-strategy"}
NoRun == -1

\* What acceptance reads of a directory: which files are there, who wrote the config, the
\* parameters, whether there are insights, how much of the orders (targets and fills
\* follow from them) and the data monitor's report.
Amounts == {"none", "short", "all"}
Artifacts ==
    [files: {"none", "some", "all"}, by: {"lean", "simulator", "cloud"},
     validation: {"missing", "flow-validation", "historical-research"}, overlay: BOOLEAN,
     insights: BOOLEAN, orders: Amounts, report: {"missing", "failed", "clean"}]

NoArtifacts ==
    [files |-> "none", by |-> "lean", validation |-> "missing", overlay |-> FALSE,
     insights |-> FALSE, orders |-> "none", report |-> "missing"]

NoRow == [status |-> "none", eligible |-> FALSE, runtime |-> "none", key |-> "none"]
NoJob == [at |-> "rest"]
RowKeys == {"import", "cloud"} \cup HandKeys

LeanTypeOK ==
    /\ made \in 0..MaxRuns
    /\ dirs \in [Runs -> Artifacts]
    /\ \A r \in Runs : rows[r] # NoRow =>
          /\ rows[r].status \in {"passed", "failed", "blocked"} /\ rows[r].eligible \in BOOLEAN
          /\ rows[r].runtime \in {"local-lean", "simulator", "quantconnect-cloud"}
          /\ rows[r].key \in RowKeys
    /\ stored \subseteq Runs
    /\ markers \in [MarkerNames -> Runs \cup {NoRun}]
    /\ \A p \in LeanProcesses : job[p].at \in {"rest", "cloud", "hand", "save", "targets"}
    /\ mixed \in BOOLEAN

LeanInit ==
    /\ made = 0
    /\ dirs = [r \in Runs |-> NoArtifacts]
    /\ rows = [r \in Runs |-> NoRow]
    /\ stored = {}
    /\ markers = [m \in MarkerNames |-> NoRun]
    /\ job = [p \in LeanProcesses |-> NoJob]
    /\ mixed = FALSE

-----------------------------------------------------------------------------
(* Acceptance. *)

SchemaAccepted(a) == a.files = "all"

\* strategyEvidenceBlockers finds none.  Nothing tells a short list from a whole one.
StrategyAccepted(a) ==
    /\ SchemaAccepted(a)
    /\ a.by # "simulator"
    /\ a.validation = "historical-research"
    /\ ~a.overlay
    /\ a.insights /\ a.orders # "none"
    /\ a.report = "clean"

\* Mutant: a run asked for as a schema import is eligible like any other.
EligibleAsAsked(a, mode) == IF mode = "schema-import" THEN SchemaAccepted(a) ELSE StrategyAccepted(a)
EligibleByStrategy(a, mode) == StrategyAccepted(a)

\* The marker names the run.
Mark(names, run) == [m \in MarkerNames |-> IF m \in names THEN run ELSE markers[m]]

Go(p, j) == job' = [job EXCEPT ![p] = j]
Saving(run, row) == [at |-> "save", run |-> run, row |-> row]

RuntimeOf(a) ==
    CASE a.by = "simulator" -> "simulator"
      [] a.by = "cloud"     -> "quantconnect-cloud"
      [] OTHER              -> "local-lean"

\* importFromDirectory up to its save: a directory that is refused ends the request, a
\* row known under the import key only gets its targets again.
ImportDirectory(p, run, a, mode) ==
    LET accepted == IF mode = "schema-import" THEN SchemaAccepted(a) ELSE StrategyAccepted(a)
        eligible == EligibleByStrategy(a, mode)
    IN  CASE ~accepted -> Go(p, NoJob)
          [] accepted /\ rows[run].key = "import" -> Go(p, [at |-> "targets", run |-> run])
          [] OTHER -> Go(p, Saving(run, [status |-> IF eligible THEN "passed" ELSE "failed",
                                         eligible |-> eligible, runtime |-> RuntimeOf(a),
                                         key |-> "import"]))

-----------------------------------------------------------------------------
(* Local runs.  The command runs to its end within the process. *)

\* The config LEAN writes back has the parameters of the command line.
AsAsked(a, validation, overlay) ==
    a.by = "lean" /\ a.validation = validation /\ a.overlay = overlay

\* What LEAN may leave for the parameters it was given; some files only when it failed.
LeanLeaves(validation, overlay) ==
    {a \in Artifacts :
        /\ AsAsked(a, validation, overlay)
        /\ a.files # "none" /\ a.report # "missing" /\ a.orders # "short"
        /\ a.insights = (a.orders = "all")}

\* Mutant: the strategy marker is set once the command has ended.
MarkedWithoutEvidence(a) == SchemaAccepted(a)
MarkedAsStrategy(a) == StrategyAccepted(a)

\* runFullBacktest: static overlays make it a flow validation unless it says otherwise.
\* What fails verification or acceptance stays on disk; nothing names it.
RunFullBacktest(p) ==
    /\ job[p] = NoJob /\ made < MaxRuns
    /\ made' = made + 1
    /\ \E overlay \in BOOLEAN, validation \in {"flow-validation", "historical-research"} :
       \E a \in LeanLeaves(validation, overlay) :
          /\ dirs' = [dirs EXCEPT ![made + 1] = a]
          /\ IF MarkedAsStrategy(a)
             THEN /\ markers' = Mark({"latest", "latest-strategy"}, made + 1)
                  /\ ImportDirectory(p, made + 1, a, "strategy-backtest")
             ELSE UNCHANGED <<markers, job>>
    /\ UNCHANGED <<leanStore, mixed>>

\* runLeanBacktest with the LEAN CLI: no evidence is asked for and none is claimed.
RunLeanBacktest(p) ==
    /\ job[p] = NoJob /\ made < MaxRuns
    /\ made' = made + 1
    /\ \E a \in LeanLeaves("missing", TRUE) :
          /\ dirs' = [dirs EXCEPT ![made + 1] = a]
          /\ markers' = IF SchemaAccepted(a) THEN Mark({"latest"}, made + 1) ELSE markers
    /\ UNCHANGED <<leanStore, job, mixed>>

\* runLeanBacktest with the simulator.
SimulateRun(p) ==
    /\ job[p] = NoJob /\ made < MaxRuns
    /\ made' = made + 1
    /\ dirs' = [dirs EXCEPT ![made + 1] =
          [files |-> "all", by |-> "simulator", validation |-> "missing", overlay |-> FALSE,
           insights |-> TRUE, orders |-> "all", report |-> "missing"]]
    /\ markers' = Mark({"latest"}, made + 1)
    /\ UNCHANGED <<leanStore, job, mixed>>

\* importLeanRun: the run a marker names, or any directory by its name.
ImportLeanRun(p) ==
    /\ job[p] = NoJob
    /\ \E mode \in {"schema-import", "strategy-backtest"}, run \in 0..made :
          /\ dirs[run].files # "none"
          /\ ImportDirectory(p, run, dirs[run], mode)
    /\ UNCHANGED <<made, dirs, markers, leanStore, mixed>>

-----------------------------------------------------------------------------
(* QuantConnect Cloud. *)

\* The answers of the three REST reads: blockers, or what the pages held.  A page that
\* fails ends the list without a blocker.
RestAnswers ==
    {[blocked |-> TRUE, insights |-> FALSE, orders |-> "none"]}
      \cup [blocked: {FALSE}, insights: BOOLEAN, orders: Amounts]

\* writeImportedArtifacts over what is there, then writeCloudArtifacts, which adds empty
\* files for those that are missing.
CloudArtifacts(before, answer) ==
    LET filled == IF answer.blocked /\ before.files = "all" THEN before
                  ELSE [before EXCEPT !.insights = answer.insights, !.orders = answer.orders,
                                      !.report = IF answer.blocked THEN @ ELSE "clean"]
    IN  [filled EXCEPT !.files = "all", !.by = "cloud",
                       !.validation = "historical-research", !.overlay = FALSE]

CloudRow(run, answer, key) ==
    LET good == ~answer.blocked /\ StrategyAccepted(CloudArtifacts(dirs[run], answer))
    IN  [status |-> IF good THEN "passed" ELSE "blocked", eligible |-> good,
         runtime |-> "quantconnect-cloud", key |-> key]

CloudAnswered(p, run, key) ==
    \E answer \in RestAnswers :
       LET row == CloudRow(run, answer, key)
       IN  /\ dirs' = [dirs EXCEPT ![run] = CloudArtifacts(@, answer)]
           /\ markers' = IF row.eligible THEN Mark({"latest-strategy"}, run) ELSE markers
           /\ Go(p, Saving(run, row))

\* runCloudBacktest.
RunCloudBacktest(p) ==
    /\ job[p] = NoJob /\ made < MaxRuns
    /\ made' = made + 1
    /\ markers' = Mark({"latest"}, made + 1)
    /\ Go(p, [at |-> "cloud", run |-> made + 1])
    /\ UNCHANGED <<dirs, leanStore, mixed>>

CloudBacktestEnds(p) ==
    /\ job[p].at = "cloud"
    /\ CloudAnswered(p, job[p].run, "cloud")
    /\ UNCHANGED <<made, leanStore, mixed>>

\* The command itself fails: no artifacts are read, the row is blocked or failed.
CloudCommandFails(p) ==
    /\ job[p].at = "cloud"
    /\ LET run == job[p].run
           blocked == [blocked |-> TRUE, insights |-> FALSE, orders |-> "none"]
       IN  \E status \in {"blocked", "failed"} :
              /\ dirs' = [dirs EXCEPT ![run] = CloudArtifacts(@, blocked)]
              /\ Go(p, Saving(run, [CloudRow(run, blocked, "cloud") EXCEPT !.status = status]))
    /\ UNCHANGED <<made, markers, leanStore, mixed>>

\* Mutant: what was imported before is read again.
NeverKnown(key) == FALSE
AlreadyImported(key) ==
    /\ rows[Hand].key = key /\ rows[Hand].status = "passed"
    /\ StrategyAccepted(dirs[Hand])

\* A hand import that fetches, or has not saved its row yet.
ImportsByHand(j) == j.at = "hand" \/ (j.at = "save" /\ j.row.key \in HandKeys)

\* importCloudBacktest.
ImportCloudBacktest(p) ==
    /\ job[p] = NoJob
    /\ \E key \in HandKeys :
          IF AlreadyImported(key)
          THEN Go(p, [at |-> "targets", run |-> Hand]) /\ UNCHANGED <<markers, mixed>>
          ELSE /\ markers' = Mark({"latest"}, Hand)
               /\ Go(p, [at |-> "hand", run |-> Hand, key |-> key])
               /\ mixed' = (\/ mixed \/ rows[Hand].key \in HandKeys \ {key}
                            \/ \E q \in LeanProcesses : ImportsByHand(job[q]))
    /\ UNCHANGED <<made, dirs, leanStore>>

CloudImportAnswered(p) ==
    /\ job[p].at = "hand"
    /\ CloudAnswered(p, Hand, job[p].key)
    /\ UNCHANGED <<made, leanStore, mixed>>

-----------------------------------------------------------------------------
(* The saves, in the order of the code.  The run id is the row's primary key. *)

SaveRow(p) ==
    /\ job[p].at = "save"
    /\ rows' = [rows EXCEPT ![job[p].run] = job[p].row]
    /\ Go(p, [at |-> "targets", run |-> job[p].run])
    /\ UNCHANGED <<made, dirs, stored, markers, mixed>>

\* importPortfolioTargetSnapshot.
UpsertTargets(p) ==
    /\ job[p].at = "targets"
    /\ stored' = stored \cup {job[p].run}
    /\ Go(p, NoJob)
    /\ UNCHANGED <<made, dirs, rows, markers, mixed>>

ProcessStops(p) ==
    /\ job[p] # NoJob
    /\ Go(p, NoJob)
    /\ UNCHANGED <<made, dirs, markers, leanStore, mixed>>

LeanNext ==
    \E p \in LeanProcesses :
        \/ RunFullBacktest(p) \/ RunLeanBacktest(p) \/ SimulateRun(p) \/ ImportLeanRun(p)
        \/ RunCloudBacktest(p) \/ CloudBacktestEnds(p) \/ CloudCommandFails(p)
        \/ ImportCloudBacktest(p) \/ CloudImportAnswered(p)
        \/ SaveRow(p) \/ UpsertTargets(p) \/ ProcessStops(p)

LeanSpec == LeanInit /\ [][LeanNext]_leanVars

-----------------------------------------------------------------------------
(* Properties. *)

\* A run that counts as strategy evidence has a directory that passes acceptance now, not
\* only when its row was saved.  A hand import fetches over its own directory, but not over
\* one that was accepted under its key.  Excepted is the directory of hand imports that
\* overlapped, or of which one fetched over the other's because it names another project or
\* a backtest whose id begins alike; and the one whose row an import by name gave a key that
\* no hand import knows.
EligibleRests ==
    \A r \in Runs :
        rows[r].eligible =>
            StrategyAccepted(dirs[r]) \/ (r = Hand /\ (mixed \/ rows[r].key = "import"))

\* The strategy marker, which three writers set before they save a row, names a run whose
\* directory passes acceptance, or the hand import.
StrategyMarkerLeads ==
    LET run == markers["latest-strategy"]
    IN  run \in {NoRun, Hand} \/ StrategyAccepted(dirs[run])

=============================================================================
