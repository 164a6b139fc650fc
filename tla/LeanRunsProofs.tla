---------------------------- MODULE LeanRunsProofs ----------------------------
(***************************************************************************)
(* Theorems of LeanRuns for any number of processes, runs and keys of hand *)
(* imports.                                                                *)
(*                                                                         *)
(* The argument: a directory other than the hand import's is written while *)
(* nothing can be known of it yet (its files are "none", and no import     *)
(* reads such a directory), so what was accepted stays accepted.  The      *)
(* hand imports' own directory is written over, but, unless imports mixed, *)
(* only by a fetch that began when its row was not eligible, and no one    *)
(* else saves that row under the key of a hand import in between.          *)
(***************************************************************************)
EXTENDS LeanRuns, TLAPS

RowSet ==
    [status: {"none", "passed", "failed", "blocked"}, eligible: BOOLEAN,
     runtime: {"none", "local-lean", "simulator", "quantconnect-cloud"},
     key: RowKeys \cup {"none"}]

JobSet ==
    {NoJob} \cup [at: {"cloud", "targets"}, run: Runs]
            \cup [at: {"hand"}, run: Runs, key: HandKeys]
            \cup [at: {"save"}, run: Runs, row: RowSet]

LTypes ==
    /\ made \in 0..MaxRuns
    /\ dirs \in [Runs -> Artifacts]
    /\ rows \in [Runs -> RowSet]
    /\ markers \in [MarkerNames -> Runs \cup {NoRun}]
    /\ job \in [LeanProcesses -> JobSet]
    /\ mixed \in BOOLEAN

\* A run that is not begun has left no files.
Fresh == \A r \in Runs : r > made => dirs[r].files = "none"

\* A row is as good as the directory it is about.
Backed(run, row, d, mx) ==
    row.eligible = TRUE =>
        /\ row.status = "passed"
        /\ StrategyAccepted(d[run]) \/ (run = Hand /\ (mx = TRUE \/ row.key = "import"))
        /\ run = Hand => row.key \in HandKeys \cup {"import"}

\* What a process does fits what it will find: a cloud backtest that runs has begun and
\* left no files; a hand import fetches only while its row is not eligible under the key of
\* one; a row about to be saved is as good as its directory.
JobFits(j, m, d, r, mx) ==
    /\ j.at = "cloud" => j.run \in 1..m /\ d[j.run].files = "none"
    /\ j.at = "hand" => mx = TRUE \/ ~(r[Hand].key \in HandKeys /\ r[Hand].eligible = TRUE)
    /\ j.at = "save" => Backed(j.run, j.row, d, mx)

JobsFit == \A p \in LeanProcesses : JobFits(job[p], made, dirs, rows, mixed)

\* Without mixing, one process at most imports by hand.
OneHand ==
    \/ mixed = TRUE
    \/ \A p, q \in LeanProcesses : ImportsByHand(job[p]) /\ ImportsByHand(job[q]) => p = q

\* No run has two cloud backtests.
CloudApart ==
    \A p, q \in LeanProcesses :
        p # q /\ job[p].at = "cloud" /\ job[q].at = "cloud" => job[p].run # job[q].run

RowsBacked == \A r \in Runs : Backed(r, rows[r], dirs, mixed)

LInv == LTypes /\ Fresh /\ JobsFit /\ CloudApart /\ OneHand /\ RowsBacked /\ StrategyMarkerLeads

-----------------------------------------------------------------------------
(* Acceptance and types. *)

LEMMA AcceptedHasFiles ==
    ASSUME NEW a, StrategyAccepted(a)
    PROVE  a.files = "all"
BY DEF StrategyAccepted, SchemaAccepted

LEMMA CloudArtifactsType ==
    ASSUME NEW a \in Artifacts, NEW answer \in RestAnswers
    PROVE  CloudArtifacts(a, answer) \in Artifacts
<1> DEFINE filled == IF answer.blocked /\ a.files = "all" THEN a
                     ELSE [a EXCEPT !.insights = answer.insights, !.orders = answer.orders,
                                    !.report = IF answer.blocked THEN @ ELSE "clean"]
<1>1. answer.insights \in BOOLEAN /\ answer.orders \in Amounts
  <2>1. CASE answer = [blocked |-> TRUE, insights |-> FALSE, orders |-> "none"]
    BY <2>1 DEF Amounts
  <2>2. CASE answer \in [blocked: {FALSE}, insights: BOOLEAN, orders: Amounts]
    BY <2>2
  <2> QED BY <2>1, <2>2 DEF RestAnswers
<1>2. filled \in Artifacts
  BY <1>1 DEF Artifacts
<1>3. [filled EXCEPT !.files = "all", !.by = "cloud",
                     !.validation = "historical-research", !.overlay = FALSE] \in Artifacts
  <2> HIDE DEF filled
  <2> QED BY <1>2 DEF Artifacts
<1>4. CloudArtifacts(a, answer) =
         [filled EXCEPT !.files = "all", !.by = "cloud",
                        !.validation = "historical-research", !.overlay = FALSE]
  BY Zenon DEF CloudArtifacts
<1> QED BY <1>3, <1>4

LEMMA CloudRowType ==
    ASSUME NEW run, NEW answer, NEW key \in RowKeys
    PROVE  /\ CloudRow(run, answer, key) \in RowSet
           /\ CloudRow(run, answer, key).key = key
           /\ CloudRow(run, answer, key).eligible = TRUE =>
                 /\ CloudRow(run, answer, key).status = "passed"
                 /\ StrategyAccepted(CloudArtifacts(dirs[run], answer))
<1> DEFINE good == ~answer.blocked /\ StrategyAccepted(CloudArtifacts(dirs[run], answer))
<1>1. good \in BOOLEAN
  OBVIOUS
<1>2. CASE good
  BY <1>2 DEF CloudRow, RowSet, RowKeys
<1>3. CASE ~good
  BY <1>3 DEF CloudRow, RowSet, RowKeys
<1> QED BY <1>2, <1>3

LEMMA CloudArtifactsFiles ==
    ASSUME NEW a \in Artifacts, NEW answer \in RestAnswers
    PROVE  CloudArtifacts(a, answer).files = "all"
<1> DEFINE filled == IF answer.blocked /\ a.files = "all" THEN a
                     ELSE [a EXCEPT !.insights = answer.insights, !.orders = answer.orders,
                                    !.report = IF answer.blocked THEN @ ELSE "clean"]
<1>1. CloudArtifacts(a, answer) =
         [filled EXCEPT !.files = "all", !.by = "cloud",
                        !.validation = "historical-research", !.overlay = FALSE]
  BY Zenon DEF CloudArtifacts
<1>2. DOMAIN filled = DOMAIN a
  OBVIOUS
<1>3. "files" \in DOMAIN a
  BY DEF Artifacts
<1> HIDE DEF filled
<1> QED BY <1>1, <1>2, <1>3

\* What an import by directory starts: nothing, the targets alone, or a row as good as
\* the directory it read.
ImportJob(j, run, a) ==
    \/ j = NoJob
    \/ j.at = "targets"
    \/ /\ j.at = "save" /\ j.run = run /\ j.row.key = "import"
       /\ j.row.eligible = TRUE => StrategyAccepted(a) /\ j.row.status = "passed"

LEMMA ImportStarts ==
    ASSUME LInv, NEW p \in LeanProcesses, NEW run \in Runs, NEW a, NEW mode,
           ImportDirectory(p, run, a, mode)
    PROVE  \E j \in JobSet : job' = [job EXCEPT ![p] = j] /\ ImportJob(j, run, a)
<1> DEFINE row == [status |-> IF StrategyAccepted(a) THEN "passed" ELSE "failed",
                   eligible |-> StrategyAccepted(a), runtime |-> RuntimeOf(a),
                   key |-> "import"]
<1>1. \/ Go(p, NoJob)
      \/ Go(p, [at |-> "targets", run |-> run])
      \/ Go(p, Saving(run, row))
  BY Zenon DEF ImportDirectory, EligibleByStrategy
<1>2. CASE Go(p, NoJob)
  BY <1>2, Zenon DEF Go, JobSet, ImportJob
<1>3. CASE Go(p, [at |-> "targets", run |-> run])
  <2>1. [at |-> "targets", run |-> run] \in JobSet
    BY DEF JobSet
  <2> QED BY <1>3, <2>1 DEF Go, ImportJob
<1>4. CASE Go(p, Saving(run, row))
  <2>1. StrategyAccepted(a) \in BOOLEAN
    BY DEF StrategyAccepted, SchemaAccepted
  <2>2. RuntimeOf(a) \in {"local-lean", "simulator", "quantconnect-cloud"}
    BY DEF RuntimeOf
  <2>3. row \in RowSet
    <3>1. CASE StrategyAccepted(a)
      BY <2>1, <2>2, <3>1 DEF RowSet, RowKeys
    <3>2. CASE ~StrategyAccepted(a)
      BY <2>1, <2>2, <3>2 DEF RowSet, RowKeys
    <3> HIDE DEF row
    <3> QED BY <3>1, <3>2
  <2>4. Saving(run, row) \in JobSet
    <3> HIDE DEF row
    <3>1. [at |-> "save", run |-> run, row |-> row] \in [at: {"save"}, run: Runs, row: RowSet]
      BY <2>3
    <3> QED BY <3>1 DEF Saving, JobSet
  <2>5. row.key = "import" /\ (row.eligible = TRUE => StrategyAccepted(a) /\ row.status = "passed")
    <3>1. CASE StrategyAccepted(a)
      BY <3>1
    <3>2. CASE ~StrategyAccepted(a)
      BY <3>2
    <3> QED BY <3>1, <3>2
  <2> HIDE DEF row
  <2>6. Saving(run, row).at = "save" /\ Saving(run, row).run = run /\ Saving(run, row).row = row
    BY DEF Saving
  <2>7. ImportJob(Saving(run, row), run, a)
    BY <2>5, <2>6 DEF ImportJob
  <2> QED BY <1>4, <2>4, <2>7 DEF Go
<1> QED BY <1>1, <1>2, <1>3, <1>4

LEMMA ImportNotByHand ==
    \A j, run, a : ImportJob(j, run, a) => j.at # "cloud" /\ ~ImportsByHand(j)
BY LeanAssumption DEF ImportJob, NoJob, ImportsByHand

-----------------------------------------------------------------------------
(* What a write disturbs. *)

\* What was accepted stays accepted.
Keeps(d, e) == \A r \in Runs : StrategyAccepted(d[r]) => StrategyAccepted(e[r])

LEMMA FirstWrite ==
    ASSUME LInv, NEW run \in Runs, NEW a \in Artifacts, dirs[run].files = "none"
    PROVE  /\ Keeps(dirs, [dirs EXCEPT ![run] = a])
           /\ [dirs EXCEPT ![run] = a] \in [Runs -> Artifacts]
<1>1. dirs \in [Runs -> Artifacts]
  BY DEF LInv, LTypes
<1>2. ~StrategyAccepted(dirs[run])
  BY AcceptedHasFiles
<1>3. ASSUME NEW r \in Runs, StrategyAccepted(dirs[r])
      PROVE  [dirs EXCEPT ![run] = a][r] = dirs[r]
  BY <1>1, <1>2, <1>3
<1> QED BY <1>1, <1>3 DEF Keeps

\* A job fits when more runs have begun and nothing accepted was lost.
LEMMA FitsStill ==
    ASSUME LInv, NEW q \in LeanProcesses, NEW m \in 0..MaxRuns, m >= made,
           NEW d, Keeps(dirs, d), job[q].at = "cloud" => d[job[q].run].files = "none"
    PROVE  JobFits(job[q], m, d, rows, mixed)
<1>1. JobFits(job[q], made, dirs, rows, mixed) /\ made \in Nat /\ MaxRuns \in Nat
  BY LeanAssumption DEF LInv, JobsFit, LTypes
<1>2. job[q].at = "cloud" => job[q].run \in 1..m
  BY <1>1 DEF JobFits
<1>3. job[q] \in JobSet
  BY DEF LInv, LTypes
<1>4. job[q].at = "save" => job[q].run \in Runs
  <2>1. CASE job[q] \in [at: {"save"}, run: Runs, row: RowSet]
    BY <2>1
  <2>2. CASE job[q] \in {NoJob} \cup [at: {"cloud", "targets"}, run: Runs]
    BY <2>2 DEF NoJob
  <2>3. CASE job[q] \in [at: {"hand"}, run: Runs, key: HandKeys]
    BY <2>3
  <2> QED BY <1>3, <2>1, <2>2, <2>3 DEF JobSet
<1>5. job[q].at = "save" => Backed(job[q].run, job[q].row, d, mixed)
  BY <1>1, <1>4 DEF JobFits, Backed, Keeps
<1> QED BY <1>1, <1>2, <1>5 DEF JobFits

\* One process gets a job that fits; the jobs of the others fit still.
LEMMA JobChanges ==
    ASSUME LInv, NEW p \in LeanProcesses, NEW j \in JobSet, job' = [job EXCEPT ![p] = j],
           JobFits(j, made', dirs', rows', mixed'),
           \A q \in LeanProcesses \ {p} : JobFits(job[q], made', dirs', rows', mixed')
    PROVE  JobsFit' /\ job' \in [LeanProcesses -> JobSet]
<1>1. job \in [LeanProcesses -> JobSet]
  BY DEF LInv, LTypes
<1>2. \A q \in LeanProcesses : job'[q] = IF q = p THEN j ELSE job[q]
  BY <1>1
<1> QED BY <1>1, <1>2 DEF JobsFit

LEMMA OneHandStill ==
    ASSUME LInv, NEW p \in LeanProcesses, NEW j \in JobSet, job' = [job EXCEPT ![p] = j],
           mixed = TRUE => mixed' = TRUE,
           \/ mixed' = TRUE \/ ~ImportsByHand(j) \/ ImportsByHand(job[p])
           \/ \A q \in LeanProcesses : ~ImportsByHand(job[q])
    PROVE  OneHand'
<1>1. \A q \in LeanProcesses : job'[q] = IF q = p THEN j ELSE job[q]
  BY DEF LInv, LTypes
<1>2. CASE mixed' = TRUE
  BY <1>2 DEF OneHand
<1>3. CASE mixed' # TRUE
  <2>1. \A q, r \in LeanProcesses : ImportsByHand(job[q]) /\ ImportsByHand(job[r]) => q = r
    BY <1>3 DEF LInv, OneHand
  <2>2. \A q \in LeanProcesses : q # p => job'[q] = job[q]
    BY <1>1
  <2>3. job'[p] = j
    BY <1>1
  <2>4. ASSUME NEW q \in LeanProcesses, NEW r \in LeanProcesses,
               ImportsByHand(job'[q]), ImportsByHand(job'[r])
        PROVE  q = r
    BY <1>3, <2>1, <2>2, <2>3, <2>4
  <2> QED BY <2>4 DEF OneHand
<1> QED BY <1>2, <1>3

LEMMA ApartStill ==
    ASSUME LInv, NEW p \in LeanProcesses, NEW j \in JobSet, job' = [job EXCEPT ![p] = j],
           j.at = "cloud" =>
              \A q \in LeanProcesses \ {p} : job[q].at = "cloud" => job[q].run # j.run
    PROVE  CloudApart'
<1>1. \A q \in LeanProcesses : job'[q] = IF q = p THEN j ELSE job[q]
  BY DEF LInv, LTypes
<1> QED BY <1>1 DEF CloudApart, LInv

-----------------------------------------------------------------------------
(* The steps. *)

LEMMA InitHolds == LeanInit => LInv
<1> SUFFICES ASSUME LeanInit PROVE LInv
  OBVIOUS
<1>1. made = 0 /\ MaxRuns \in Nat
  BY LeanAssumption DEF LeanInit
<1>2. NoArtifacts \in Artifacts /\ NoArtifacts.files = "none"
  BY DEF NoArtifacts, Artifacts, Amounts
<1>3. NoRow \in RowSet /\ NoRow.eligible = FALSE
  BY DEF NoRow, RowSet
<1>4. NoJob \in JobSet /\ NoJob.at = "rest"
  BY DEF NoJob, JobSet
<1>5. LTypes
  <2>1. dirs \in [Runs -> Artifacts]
    BY <1>2 DEF LeanInit
  <2>2. rows \in [Runs -> RowSet]
    BY <1>3 DEF LeanInit
  <2>3. markers \in [MarkerNames -> Runs \cup {NoRun}]
    BY DEF LeanInit
  <2>4. job \in [LeanProcesses -> JobSet]
    BY <1>4 DEF LeanInit
  <2>5. mixed \in BOOLEAN
    BY DEF LeanInit
  <2>6. made \in 0..MaxRuns
    BY <1>1
  <2> QED BY <2>1, <2>2, <2>3, <2>4, <2>5, <2>6, Zenon DEF LTypes
<1>6. Fresh
  BY <1>2 DEF LeanInit, Fresh
<1>7. JobsFit /\ CloudApart /\ OneHand
  BY <1>4 DEF LeanInit, JobsFit, JobFits, CloudApart, OneHand, ImportsByHand
<1>8. RowsBacked
  BY <1>3 DEF LeanInit, RowsBacked, Backed
<1>9. StrategyMarkerLeads
  BY DEF LeanInit, StrategyMarkerLeads, MarkerNames
<1> QED BY <1>5, <1>6, <1>7, <1>8, <1>9 DEF LInv

\* A run that begins and ends within one step: its directory is written, the markers name
\* it, and perhaps its import starts.
LEMMA LocalRun ==
    ASSUME LInv, NEW p \in LeanProcesses, made < MaxRuns, made' = made + 1,
           NEW a \in Artifacts, dirs' = [dirs EXCEPT ![made + 1] = a],
           \/ markers' = markers
           \/ markers' = Mark({"latest"}, made + 1)
           \/ markers' = Mark({"latest", "latest-strategy"}, made + 1) /\ StrategyAccepted(a),
           job' = job \/ ImportDirectory(p, made + 1, a, "strategy-backtest"),
           UNCHANGED <<leanStore, mixed>>
    PROVE  LInv'
<1>1. /\ made \in Nat /\ MaxRuns \in Nat /\ made + 1 \in Runs /\ made + 1 # Hand
      /\ made' \in 0..MaxRuns /\ made' >= made
  BY LeanAssumption DEF LInv, LTypes, Runs, Hand
<1>2. /\ dirs \in [Runs -> Artifacts] /\ rows \in [Runs -> RowSet]
      /\ markers \in [MarkerNames -> Runs \cup {NoRun}] /\ job \in [LeanProcesses -> JobSet]
  BY DEF LInv, LTypes
<1>3. dirs[made + 1].files = "none"
  BY <1>1 DEF LInv, Fresh
<1>4. Keeps(dirs, dirs') /\ dirs' \in [Runs -> Artifacts]
  BY <1>1, <1>3, FirstWrite
<1>5. \A r \in Runs : r # made + 1 => dirs'[r] = dirs[r]
  BY <1>2
<1>6. dirs'[made + 1] = a
  BY <1>1, <1>2
<1>7. rows' = rows
  BY DEF leanStore
<1>8. Fresh'
  BY <1>1, <1>5 DEF Fresh, LInv, Runs
<1>9. \A q \in LeanProcesses : JobFits(job[q], made', dirs', rows', mixed')
  <2> TAKE q \in LeanProcesses
  <2>1. job[q].at = "cloud" => job[q].run \in 1..made /\ dirs[job[q].run].files = "none"
    BY DEF LInv, JobsFit, JobFits
  <2>2. job[q].at = "cloud" => dirs'[job[q].run].files = "none"
    BY <1>1, <1>5, <2>1 DEF Runs
  <2> QED BY <1>1, <1>4, <1>7, <2>2, FitsStill
<1>10. job' \in [LeanProcesses -> JobSet] /\ JobsFit' /\ CloudApart' /\ OneHand'
  <2>1. CASE job' = job
    BY <1>2, <1>9, <2>1 DEF JobsFit, CloudApart, OneHand, LInv
  <2>2. CASE ImportDirectory(p, made + 1, a, "strategy-backtest")
    <3>1. PICK j \in JobSet :
              job' = [job EXCEPT ![p] = j] /\ ImportJob(j, made + 1, a)
      BY <1>1, <2>2, ImportStarts
    <3>2. JobFits(j, made', dirs', rows', mixed')
      <4>1. CASE j = NoJob \/ j.at = "targets"
        BY <4>1 DEF JobFits, NoJob
      <4>2. CASE j.at = "save" /\ j.run = made + 1 /\ j.row.key = "import"
        <5>1. Backed(j.run, j.row, dirs', mixed')
          BY <1>6, <3>1, <4>2 DEF Backed, ImportJob, NoJob
        <5> QED BY <1>1, <4>2, <5>1 DEF JobFits
      <4> QED BY <3>1, <4>1, <4>2 DEF ImportJob
    <3>3. j.at # "cloud" /\ ~ImportsByHand(j)
      BY <3>1, ImportNotByHand
    <3> QED BY <1>9, <3>1, <3>2, <3>3, JobChanges, ApartStill, OneHandStill
  <2> QED BY <2>1, <2>2
<1>11. RowsBacked'
  BY <1>4, <1>7 DEF RowsBacked, Backed, Keeps, LInv
<1>12. markers' \in [MarkerNames -> Runs \cup {NoRun}]
  BY <1>1, <1>2 DEF Mark
<1>13. StrategyMarkerLeads'
  <2>1. CASE markers'["latest-strategy"] = markers["latest-strategy"]
    BY <1>2, <1>4, <2>1 DEF StrategyMarkerLeads, LInv, Keeps, MarkerNames
  <2>2. CASE markers'["latest-strategy"] = made + 1 /\ StrategyAccepted(a)
    BY <1>6, <2>2 DEF StrategyMarkerLeads
  <2> QED BY <2>1, <2>2 DEF Mark, MarkerNames
<1>14. LTypes'
  <2>1. made' \in 0..MaxRuns
    BY <1>1
  <2>2. rows' \in [Runs -> RowSet]
    BY <1>2, <1>7
  <2>3. mixed' \in BOOLEAN
    BY DEF LInv, LTypes
  <2> QED BY <1>4, <1>10, <1>12, <2>1, <2>2, <2>3, Zenon DEF LTypes
<1> QED BY <1>8, <1>10, <1>11, <1>13, <1>14 DEF LInv

\* A process gets a job while runs, directories and rows stay, and markers may name the
\* latest run.
LEMMA JobOnly ==
    ASSUME LInv, NEW p \in LeanProcesses, NEW j \in JobSet, job' = [job EXCEPT ![p] = j],
           mixed' \in BOOLEAN, mixed = TRUE => mixed' = TRUE,
           JobFits(j, made, dirs, rows, mixed'), j.at # "cloud", OneHand',
           markers' = markers \/ markers' = Mark({"latest"}, Hand),
           made' = made, dirs' = dirs, rows' = rows
    PROVE  LInv'
<1>1. \A q \in LeanProcesses : JobFits(job[q], made, dirs, rows, mixed')
  BY DEF LInv, JobsFit, JobFits, Backed
<1>2. JobsFit' /\ job' \in [LeanProcesses -> JobSet]
  BY <1>1, JobChanges
<1>3. CloudApart'
  BY ApartStill
<1>4. Fresh' /\ RowsBacked'
  BY DEF LInv, Fresh, RowsBacked, Backed
<1>5. Hand \in Runs
  BY LeanAssumption DEF Hand, Runs
<1>6. LTypes'
  BY <1>2, <1>5 DEF LInv, LTypes, Mark
<1>7. StrategyMarkerLeads'
  BY <1>5 DEF LInv, LTypes, StrategyMarkerLeads, Mark, MarkerNames
<1> QED BY <1>2, <1>3, <1>4, <1>6, <1>7 DEF LInv

LEMMA ImportLeanRunStep ==
    ASSUME LInv, NEW p \in LeanProcesses, ImportLeanRun(p)
    PROVE  LInv'
<1>1. PICK mode \in {"schema-import", "strategy-backtest"}, run \in 0..made :
         /\ dirs[run].files # "none"
         /\ ImportDirectory(p, run, dirs[run], mode)
  BY DEF ImportLeanRun
<1>2. run \in Runs
  BY LeanAssumption DEF LInv, LTypes, Runs, Hand
<1>3. PICK j \in JobSet :
         job' = [job EXCEPT ![p] = j] /\ ImportJob(j, run, dirs[run])
  BY <1>1, <1>2, ImportStarts
<1>4. JobFits(j, made, dirs, rows, mixed)
  <2>1. CASE j = NoJob \/ j.at = "targets"
    BY <2>1 DEF JobFits, NoJob
  <2>2. CASE j.at = "save" /\ j.run = run /\ j.row.key = "import"
    BY <1>3, <2>2 DEF JobFits, Backed, ImportJob, NoJob
  <2> QED BY <1>3, <2>1, <2>2 DEF ImportJob
<1>5. j.at # "cloud" /\ ~ImportsByHand(j)
  BY <1>3, ImportNotByHand
<1>6. mixed' = mixed /\ mixed \in BOOLEAN
  BY DEF ImportLeanRun, LInv, LTypes
<1>7. OneHand'
  BY <1>3, <1>5, <1>6, OneHandStill
<1> QED BY <1>3, <1>4, <1>5, <1>6, <1>7, JobOnly DEF ImportLeanRun, leanStore

LEMMA ImportCloudBacktestStep ==
    ASSUME LInv, NEW p \in LeanProcesses, ImportCloudBacktest(p)
    PROVE  LInv'
<1>1. Hand \in Runs
  BY LeanAssumption DEF Hand, Runs
<1>2. PICK key \in HandKeys :
         IF AlreadyImported(key)
         THEN Go(p, [at |-> "targets", run |-> Hand]) /\ UNCHANGED <<markers, mixed>>
         ELSE /\ markers' = Mark({"latest"}, Hand)
              /\ Go(p, [at |-> "hand", run |-> Hand, key |-> key])
              /\ mixed' = (\/ mixed \/ rows[Hand].key \in HandKeys \ {key}
                           \/ \E q \in LeanProcesses : ImportsByHand(job[q]))
  BY DEF ImportCloudBacktest
<1>3. mixed \in BOOLEAN /\ made' = made /\ dirs' = dirs /\ rows' = rows
  BY DEF ImportCloudBacktest, leanStore, LInv, LTypes
<1>4. CASE AlreadyImported(key)
  <2> DEFINE j == [at |-> "targets", run |-> Hand]
  <2>1. j \in JobSet /\ j.at = "targets"
    BY <1>1 DEF JobSet
  <2>2. job' = [job EXCEPT ![p] = j] /\ markers' = markers /\ mixed' = mixed
    BY <1>2, <1>4 DEF Go
  <2> HIDE DEF j
  <2>3. JobFits(j, made, dirs, rows, mixed') /\ ~ImportsByHand(j)
    BY <2>1 DEF JobFits, ImportsByHand
  <2>4. OneHand'
    BY <2>1, <2>2, <2>3, OneHandStill
  <2> QED BY <1>3, <2>1, <2>2, <2>3, <2>4, JobOnly
<1>5. CASE ~AlreadyImported(key)
  <2> DEFINE j == [at |-> "hand", run |-> Hand, key |-> key]
  <2>1. j \in JobSet /\ j.at = "hand"
    BY <1>1 DEF JobSet
  <2>2. /\ job' = [job EXCEPT ![p] = j] /\ markers' = Mark({"latest"}, Hand)
        /\ mixed' = (\/ mixed \/ rows[Hand].key \in HandKeys \ {key}
                     \/ \E q \in LeanProcesses : ImportsByHand(job[q]))
    BY <1>2, <1>5 DEF Go
  <2> HIDE DEF j
  <2>3. /\ mixed' \in BOOLEAN /\ (mixed = TRUE => mixed' = TRUE)
        /\ mixed' # TRUE => /\ mixed = FALSE /\ rows[Hand].key \notin HandKeys \ {key}
                           /\ \A q \in LeanProcesses : ~ImportsByHand(job[q])
    BY <1>3, <2>2, Zenon
  <2>4. ASSUME mixed' # TRUE, rows[Hand].key \in HandKeys, rows[Hand].eligible = TRUE PROVE FALSE
    <3>1. rows[Hand].key = key /\ mixed # TRUE
      BY <2>3, <2>4
    <3>2. key # "import"
      BY LeanAssumption
    <3>3. rows[Hand].status = "passed" /\ StrategyAccepted(dirs[Hand])
      BY <1>1, <2>4, <3>1, <3>2 DEF LInv, RowsBacked, Backed
    <3> QED BY <1>5, <3>1, <3>3 DEF AlreadyImported
  <2>5. JobFits(j, made, dirs, rows, mixed')
    BY <2>1, <2>4 DEF JobFits
  <2>6. OneHand'
    BY <2>1, <2>2, <2>3, OneHandStill
  <2> QED BY <1>3, <2>1, <2>2, <2>3, <2>5, <2>6, JobOnly
<1> QED BY <1>4, <1>5

LEMMA RunCloudBacktestStep ==
    ASSUME LInv, NEW p \in LeanProcesses, RunCloudBacktest(p)
    PROVE  LInv'
<1> DEFINE j == [at |-> "cloud", run |-> made + 1]
<1>1. /\ made \in Nat /\ MaxRuns \in Nat /\ made + 1 \in Runs /\ made + 1 # Hand
      /\ made' \in 0..MaxRuns /\ made' = made + 1
  BY LeanAssumption DEF LInv, LTypes, Runs, Hand, RunCloudBacktest
<1>2. j \in JobSet /\ j.at = "cloud" /\ j.run = made + 1
  BY <1>1 DEF JobSet
<1>3. job' = [job EXCEPT ![p] = j] /\ dirs' = dirs /\ rows' = rows /\ mixed' = mixed
  BY DEF RunCloudBacktest, Go, leanStore
<1> HIDE DEF j
<1>4. JobFits(j, made', dirs', rows', mixed')
  BY <1>1, <1>2, <1>3 DEF JobFits, LInv, Fresh
<1>5. \A q \in LeanProcesses \ {p} : JobFits(job[q], made', dirs', rows', mixed')
  <2> TAKE q \in LeanProcesses \ {p}
  <2>1. job[q].at = "cloud" => dirs[job[q].run].files = "none"
    BY DEF LInv, JobsFit, JobFits
  <2>2. Keeps(dirs, dirs)
    BY DEF Keeps
  <2> QED BY <1>1, <1>3, <2>1, <2>2, FitsStill
<1>6. JobsFit' /\ job' \in [LeanProcesses -> JobSet]
  BY <1>2, <1>3, <1>4, <1>5, JobChanges
<1>7. \A q \in LeanProcesses \ {p} : job[q].at = "cloud" => job[q].run # j.run
  BY <1>1, <1>2 DEF LInv, JobsFit, JobFits
<1>8. CloudApart' /\ OneHand'
  BY <1>2, <1>3, <1>7, ApartStill, OneHandStill DEF ImportsByHand
<1>9. Fresh' /\ RowsBacked'
  <2>1. Fresh'
    BY <1>1, <1>3 DEF LInv, Fresh, Runs, Hand
  <2>2. RowsBacked'
    BY <1>3 DEF LInv, RowsBacked
  <2> QED BY <2>1, <2>2
<1>10. LTypes'
  BY <1>1, <1>3, <1>6 DEF LInv, LTypes, RunCloudBacktest, Mark
<1>11. StrategyMarkerLeads'
  BY <1>3 DEF LInv, LTypes, StrategyMarkerLeads, RunCloudBacktest, Mark, MarkerNames
<1> QED BY <1>6, <1>8, <1>9, <1>10, <1>11 DEF LInv

\* A cloud run is answered, or its command fails: the directory of its run gets its first
\* files and the row is as good as they are.
LEMMA CloudStep ==
    ASSUME LInv, NEW p \in LeanProcesses, job[p].at = "cloud",
           NEW answer \in RestAnswers, NEW row \in RowSet, row.key = "cloud",
           row.eligible = TRUE =>
              /\ row.status = "passed"
              /\ StrategyAccepted(CloudArtifacts(dirs[job[p].run], answer)),
           dirs' = [dirs EXCEPT ![job[p].run] = CloudArtifacts(dirs[job[p].run], answer)],
           \/ markers' = markers
           \/ markers' = Mark({"latest-strategy"}, job[p].run) /\ row.eligible = TRUE,
           job' = [job EXCEPT ![p] = Saving(job[p].run, row)], made' = made, rows' = rows,
           mixed' = mixed
    PROVE  LInv'
<1> DEFINE run == job[p].run
           art == CloudArtifacts(dirs[run], answer)
           j == Saving(run, row)
<1>1. run \in 1..made /\ dirs[run].files = "none"
  BY DEF LInv, JobsFit, JobFits
<1>2. /\ dirs \in [Runs -> Artifacts] /\ rows \in [Runs -> RowSet]
      /\ markers \in [MarkerNames -> Runs \cup {NoRun}] /\ made \in 0..MaxRuns
  BY DEF LInv, LTypes
<1>3. run \in Runs /\ run # Hand /\ MaxRuns \in Nat
  BY <1>1, <1>2, LeanAssumption DEF Runs, Hand
<1>4. art \in Artifacts
  BY <1>2, <1>3, CloudArtifactsType
<1>5. j.at = "save" /\ j.run = run /\ j.row = row /\ j \in JobSet
  <2>1. [at |-> "save", run |-> run, row |-> row] \in [at: {"save"}, run: Runs, row: RowSet]
    BY <1>3
  <2> QED BY <2>1 DEF Saving, JobSet
<1>6. job' = [job EXCEPT ![p] = j] /\ dirs' = [dirs EXCEPT ![run] = art]
  OBVIOUS
<1>7. row.eligible = TRUE => row.status = "passed" /\ StrategyAccepted(art)
  OBVIOUS
<1> HIDE DEF art, j
<1>8. Keeps(dirs, dirs') /\ dirs' \in [Runs -> Artifacts]
  <2>1. /\ Keeps(dirs, [dirs EXCEPT ![run] = art])
        /\ [dirs EXCEPT ![run] = art] \in [Runs -> Artifacts]
    <3> HIDE DEF run
    <3> QED BY <1>1, <1>3, <1>4, FirstWrite
  <2> QED BY <1>6, <2>1
<1>9. dirs'[run] = art /\ \A r \in Runs : r # run => dirs'[r] = dirs[r]
  BY <1>2, <1>3, <1>6
<1>10. JobFits(j, made', dirs', rows', mixed')
  BY <1>3, <1>5, <1>7, <1>9 DEF JobFits, Backed
<1>11. \A q \in LeanProcesses \ {p} : JobFits(job[q], made', dirs', rows', mixed')
  <2> TAKE q \in LeanProcesses \ {p}
  <2>1. job[q].at = "cloud" =>
           /\ job[q].run \in 1..made /\ job[q].run # run /\ dirs[job[q].run].files = "none"
    BY DEF LInv, JobsFit, JobFits, CloudApart
  <2>2. job[q].at = "cloud" => dirs'[job[q].run].files = "none"
    BY <1>2, <1>3, <1>9, <2>1 DEF Runs, Hand
  <2>3. made' \in 0..MaxRuns /\ made' >= made /\ rows' = rows
    BY <1>2, <1>3
  <2> QED BY <1>8, <2>2, <2>3, FitsStill
<1>12. JobsFit' /\ job' \in [LeanProcesses -> JobSet]
  BY <1>5, <1>6, <1>10, <1>11, JobChanges
<1>13. CloudApart' /\ OneHand'
  <2>1. ~ImportsByHand(j)
    BY <1>5, LeanAssumption DEF ImportsByHand
  <2> QED BY <1>5, <1>6, <2>1, ApartStill, OneHandStill
<1>14. Fresh'
  BY <1>1, <1>2, <1>3, <1>9 DEF LInv, Fresh
<1>15. RowsBacked'
  BY <1>8 DEF LInv, RowsBacked, Backed, Keeps
<1>16. markers' \in [MarkerNames -> Runs \cup {NoRun}]
  BY <1>2, <1>3 DEF Mark
<1>17. LTypes'
  <2>1. made' \in 0..MaxRuns
    BY <1>2
  <2>2. rows' \in [Runs -> RowSet]
    BY <1>2
  <2>3. mixed' \in BOOLEAN
    BY DEF LInv, LTypes
  <2> QED BY <1>8, <1>12, <1>16, <2>1, <2>2, <2>3, Zenon DEF LTypes
<1>18. StrategyMarkerLeads'
  <2>1. CASE markers' = markers
    BY <1>2, <1>8, <2>1 DEF StrategyMarkerLeads, LInv, Keeps, MarkerNames
  <2>2. CASE markers' = Mark({"latest-strategy"}, run) /\ row.eligible = TRUE
    BY <1>7, <1>9, <2>2 DEF StrategyMarkerLeads, Mark, MarkerNames
  <2> QED BY <2>1, <2>2
<1> QED BY <1>12, <1>13, <1>14, <1>15, <1>17, <1>18 DEF LInv

LEMMA CloudBacktestEndsStep ==
    ASSUME LInv, NEW p \in LeanProcesses, CloudBacktestEnds(p)
    PROVE  LInv'
<1>1. PICK answer \in RestAnswers :
         LET row == CloudRow(job[p].run, answer, "cloud")
         IN  /\ dirs' = [dirs EXCEPT ![job[p].run] = CloudArtifacts(@, answer)]
             /\ markers' = IF row.eligible THEN Mark({"latest-strategy"}, job[p].run) ELSE markers
             /\ Go(p, Saving(job[p].run, row))
  BY Zenon DEF CloudBacktestEnds, CloudAnswered
<1> DEFINE row == CloudRow(job[p].run, answer, "cloud")
<1>2. row \in RowSet /\ row.key = "cloud"
      /\ (row.eligible = TRUE => /\ row.status = "passed"
                                 /\ StrategyAccepted(CloudArtifacts(dirs[job[p].run], answer)))
  <2>1. "cloud" \in RowKeys
    BY DEF RowKeys
  <2> QED BY <2>1, CloudRowType
<1>3. row.eligible \in BOOLEAN
  BY <1>2 DEF RowSet
<1>4. markers' = IF row.eligible THEN Mark({"latest-strategy"}, job[p].run) ELSE markers
  BY <1>1
<1>5. /\ dirs' = [dirs EXCEPT ![job[p].run] = CloudArtifacts(dirs[job[p].run], answer)]
      /\ job' = [job EXCEPT ![p] = Saving(job[p].run, row)]
  BY <1>1 DEF Go
<1> HIDE DEF row
<1>6. \/ markers' = markers
      \/ markers' = Mark({"latest-strategy"}, job[p].run) /\ row.eligible = TRUE
  BY <1>3, <1>4
<1> QED BY <1>2, <1>5, <1>6, CloudStep DEF CloudBacktestEnds, leanStore

LEMMA CloudCommandFailsStep ==
    ASSUME LInv, NEW p \in LeanProcesses, CloudCommandFails(p)
    PROVE  LInv'
<1> DEFINE answer == [blocked |-> TRUE, insights |-> FALSE, orders |-> "none"]
           plain == CloudRow(job[p].run, answer, "cloud")
<1>1. PICK status \in {"blocked", "failed"} :
         /\ dirs' = [dirs EXCEPT ![job[p].run] = CloudArtifacts(@, answer)]
         /\ Go(p, Saving(job[p].run, [plain EXCEPT !.status = status]))
  BY Zenon DEF CloudCommandFails
<1> DEFINE row == [plain EXCEPT !.status = status]
<1>2. answer \in RestAnswers /\ answer.blocked = TRUE
  BY DEF RestAnswers
<1>3. plain \in RowSet /\ plain.key = "cloud" /\ plain.eligible = FALSE
  <2>1. plain \in RowSet /\ plain.key = "cloud"
    <3>1. "cloud" \in RowKeys
      BY DEF RowKeys
    <3> QED BY <3>1, CloudRowType
  <2>2. plain.eligible = FALSE
    BY <1>2 DEF CloudRow
  <2> QED BY <2>1, <2>2
<1>4. row \in RowSet /\ row.key = "cloud" /\ row.eligible = FALSE
  <2> HIDE DEF plain
  <2> QED BY <1>3 DEF RowSet
<1>5. /\ dirs' = [dirs EXCEPT ![job[p].run] = CloudArtifacts(dirs[job[p].run], answer)]
      /\ job' = [job EXCEPT ![p] = Saving(job[p].run, row)]
  BY <1>1 DEF Go
<1> HIDE DEF answer, plain, row
<1> QED BY <1>2, <1>4, <1>5, CloudStep DEF CloudCommandFails, leanStore

\* A hand import is answered: its directory is written over.
LEMMA CloudImportAnsweredStep ==
    ASSUME LInv, NEW p \in LeanProcesses, CloudImportAnswered(p)
    PROVE  LInv'
<1>1. PICK answer \in RestAnswers :
         LET row == CloudRow(Hand, answer, job[p].key)
         IN  /\ dirs' = [dirs EXCEPT ![Hand] = CloudArtifacts(@, answer)]
             /\ markers' = IF row.eligible THEN Mark({"latest-strategy"}, Hand) ELSE markers
             /\ Go(p, Saving(Hand, row))
  BY Zenon DEF CloudImportAnswered, CloudAnswered
<1> DEFINE art == CloudArtifacts(dirs[Hand], answer)
           row == CloudRow(Hand, answer, job[p].key)
           j == Saving(Hand, row)
<1>2. /\ dirs \in [Runs -> Artifacts] /\ rows \in [Runs -> RowSet]
      /\ markers \in [MarkerNames -> Runs \cup {NoRun}] /\ made \in 0..MaxRuns
      /\ Hand \in Runs /\ MaxRuns \in Nat
  BY LeanAssumption DEF LInv, LTypes, Hand, Runs
<1>3. job[p].at = "hand" /\ made' = made /\ rows' = rows /\ mixed' = mixed
  BY DEF CloudImportAnswered, leanStore
<1>4. /\ mixed = TRUE \/ ~(rows[Hand].key \in HandKeys /\ rows[Hand].eligible = TRUE)
      /\ job[p].key \in HandKeys /\ job[p].key # "import"
  <2>1. job[p] \in JobSet
    BY DEF LInv, LTypes
  <2>2. job[p] \in [at: {"hand"}, run: Runs, key: HandKeys]
    BY <1>3, <2>1 DEF JobSet, NoJob
  <2> QED BY <1>3, <2>2, LeanAssumption DEF LInv, JobsFit, JobFits
<1>5. art \in Artifacts
  BY <1>2, CloudArtifactsType
<1>6. /\ row \in RowSet /\ row.key = job[p].key
      /\ row.eligible = TRUE => row.status = "passed" /\ StrategyAccepted(art)
  <2>1. job[p].key \in RowKeys
    BY <1>4 DEF RowKeys
  <2> QED BY <2>1, CloudRowType
<1>7. dirs' = [dirs EXCEPT ![Hand] = art] /\ job' = [job EXCEPT ![p] = j]
  BY <1>1 DEF Go
<1>8. markers' = markers \/ markers' = Mark({"latest-strategy"}, Hand)
  BY <1>1
<1> HIDE DEF row
<1>9. j.at = "save" /\ j.run = Hand /\ j.row = row /\ j \in JobSet
  <2>1. [at |-> "save", run |-> Hand, row |-> row] \in [at: {"save"}, run: Runs, row: RowSet]
    BY <1>2, <1>6
  <2> QED BY <2>1 DEF Saving, JobSet
<1> HIDE DEF art, j
<1>10. dirs' \in [Runs -> Artifacts]
  BY <1>2, <1>5, <1>7
<1>11. dirs'[Hand] = art /\ \A r \in Runs : r # Hand => dirs'[r] = dirs[r]
  BY <1>2, <1>7
<1>12. JobFits(j, made', dirs', rows', mixed')
  BY <1>4, <1>6, <1>9, <1>11 DEF JobFits, Backed
<1>13. \A q \in LeanProcesses \ {p} : JobFits(job[q], made', dirs', rows', mixed')
  <2> TAKE q \in LeanProcesses \ {p}
  <2>1. JobFits(job[q], made, dirs, rows, mixed)
    BY DEF LInv, JobsFit
  <2>2. mixed = TRUE \/ ~ImportsByHand(job[q])
    BY <1>3 DEF LInv, OneHand, ImportsByHand
  <2>3. job[q].at = "cloud" => job[q].run \in 1..made' /\ dirs'[job[q].run].files = "none"
    BY <1>2, <1>3, <1>11, <2>1 DEF JobFits, Runs, Hand
  <2>4. job[q].at = "save" => Backed(job[q].run, job[q].row, dirs', mixed')
    <3> SUFFICES ASSUME job[q].at = "save" PROVE Backed(job[q].run, job[q].row, dirs', mixed')
      OBVIOUS
    <3>1. job[q].run \in Runs
      <4>1. job[q] \in JobSet
        BY DEF LInv, LTypes
      <4>2. CASE job[q] \in [at: {"save"}, run: Runs, row: RowSet]
        BY <4>2
      <4>3. CASE job[q] \in {NoJob} \cup [at: {"cloud", "targets"}, run: Runs]
        BY <4>3 DEF NoJob
      <4>4. CASE job[q] \in [at: {"hand"}, run: Runs, key: HandKeys]
        BY <4>4
      <4> QED BY <4>1, <4>2, <4>3, <4>4 DEF JobSet
    <3>2. Backed(job[q].run, job[q].row, dirs, mixed)
      BY <2>1 DEF JobFits
    <3>3. CASE job[q].run = Hand
      <4>1. mixed = TRUE \/ job[q].row.key \notin HandKeys
        BY <2>2 DEF ImportsByHand
      <4> QED BY <1>3, <3>2, <3>3, <4>1 DEF Backed
    <3>4. CASE job[q].run # Hand
      BY <1>3, <1>11, <3>1, <3>2, <3>4 DEF Backed
    <3> QED BY <3>3, <3>4
  <2>5. job[q].at = "hand" =>
          mixed' = TRUE \/ ~(rows'[Hand].key \in HandKeys /\ rows'[Hand].eligible = TRUE)
    BY <1>3, <2>1 DEF JobFits
  <2> QED BY <2>3, <2>4, <2>5 DEF JobFits
<1>14. JobsFit' /\ job' \in [LeanProcesses -> JobSet]
  BY <1>7, <1>9, <1>12, <1>13, JobChanges
<1>15. CloudApart' /\ OneHand'
  <2>1. ImportsByHand(job[p])
    BY <1>3 DEF ImportsByHand
  <2> QED BY <1>3, <1>7, <1>9, <2>1, ApartStill, OneHandStill
<1>16. Fresh'
  BY <1>2, <1>3, <1>11 DEF LInv, Fresh, Hand
<1>17. RowsBacked'
  <2> SUFFICES ASSUME NEW r \in Runs PROVE Backed(r, rows[r], dirs', mixed)
    BY <1>3 DEF RowsBacked
  <2>1. Backed(r, rows[r], dirs, mixed)
    BY DEF LInv, RowsBacked
  <2>2. CASE r = Hand /\ rows[r].eligible = TRUE
    <3>1. mixed = TRUE \/ rows[Hand].key \notin HandKeys
      BY <1>4, <2>2
    <3> QED BY <2>1, <2>2, <3>1 DEF Backed
  <2>3. CASE r # Hand \/ rows[r].eligible # TRUE
    BY <1>11, <2>1, <2>3 DEF Backed
  <2> QED BY <2>2, <2>3
<1>18. markers' \in [MarkerNames -> Runs \cup {NoRun}]
  BY <1>2, <1>8 DEF Mark
<1>19. LTypes'
  <2>1. made' \in 0..MaxRuns
    BY <1>2, <1>3
  <2>2. rows' \in [Runs -> RowSet]
    BY <1>2, <1>3
  <2>3. mixed' \in BOOLEAN
    BY <1>3 DEF LInv, LTypes
  <2> QED BY <1>10, <1>14, <1>18, <2>1, <2>2, <2>3, Zenon DEF LTypes
<1>20. StrategyMarkerLeads'
  BY <1>2, <1>8, <1>11 DEF LInv, StrategyMarkerLeads, Mark, MarkerNames
<1> QED BY <1>14, <1>15, <1>16, <1>17, <1>19, <1>20 DEF LInv

LEMMA SaveRowStep ==
    ASSUME LInv, NEW p \in LeanProcesses, SaveRow(p)
    PROVE  LInv'
<1> DEFINE run == job[p].run
           row == job[p].row
           j == [at |-> "targets", run |-> run]
<1>1. /\ job[p].at = "save" /\ made' = made /\ dirs' = dirs /\ markers' = markers
      /\ mixed' = mixed
  BY DEF SaveRow
<1>2. rows' = [rows EXCEPT ![run] = row] /\ job' = [job EXCEPT ![p] = j]
  BY DEF SaveRow, Go
<1>3. run \in Runs /\ row \in RowSet
  <2>1. job[p] \in JobSet
    BY DEF LInv, LTypes
  <2>2. CASE job[p] \in [at: {"save"}, run: Runs, row: RowSet]
    BY <2>2
  <2>3. CASE job[p] \in {NoJob} \cup [at: {"cloud", "targets"}, run: Runs]
    BY <1>1, <2>3 DEF NoJob
  <2>4. CASE job[p] \in [at: {"hand"}, run: Runs, key: HandKeys]
    BY <1>1, <2>4
  <2> QED BY <2>1, <2>2, <2>3, <2>4 DEF JobSet
<1>4. Backed(run, row, dirs, mixed)
  BY <1>1 DEF LInv, JobsFit, JobFits
<1>5. rows \in [Runs -> RowSet]
  BY DEF LInv, LTypes
<1>6. rows' \in [Runs -> RowSet] /\ \A r \in Runs : rows'[r] = IF r = run THEN row ELSE rows[r]
  BY <1>2, <1>3, <1>5
<1>7. j \in JobSet /\ j.at = "targets"
  BY <1>3 DEF JobSet
<1> HIDE DEF run, row, j
<1>8. JobFits(j, made', dirs', rows', mixed')
  BY <1>7 DEF JobFits
<1>9. \A q \in LeanProcesses \ {p} : JobFits(job[q], made', dirs', rows', mixed')
  <2> TAKE q \in LeanProcesses \ {p}
  <2>1. JobFits(job[q], made, dirs, rows, mixed)
    BY DEF LInv, JobsFit
  <2>2. Hand \in Runs
    BY LeanAssumption DEF Runs, Hand
  <2>3. ASSUME job[q].at = "hand", mixed' # TRUE
        PROVE  ~(rows'[Hand].key \in HandKeys /\ rows'[Hand].eligible = TRUE)
    <3>1. ~(rows[Hand].key \in HandKeys /\ rows[Hand].eligible = TRUE)
      BY <1>1, <2>1, <2>3 DEF JobFits
    <3>2. row.key \notin HandKeys
      <4>1. ImportsByHand(job[q]) /\ p # q
        BY <2>3 DEF ImportsByHand
      <4>2. ~ImportsByHand(job[p])
        BY <1>1, <2>3, <4>1 DEF LInv, OneHand
      <4> QED BY <1>1, <4>2 DEF ImportsByHand, row
    <3> QED BY <1>6, <2>2, <3>1, <3>2
  <2> QED BY <1>1, <2>1, <2>3 DEF JobFits
<1>10. JobsFit' /\ job' \in [LeanProcesses -> JobSet]
  BY <1>2, <1>7, <1>8, <1>9, JobChanges
<1>11. CloudApart' /\ OneHand'
  <2>1. ~ImportsByHand(j)
    BY <1>7 DEF ImportsByHand
  <2> QED BY <1>1, <1>2, <1>7, <2>1, ApartStill, OneHandStill
<1>12. RowsBacked'
  BY <1>1, <1>4, <1>6 DEF RowsBacked, LInv
<1>13. Fresh' /\ StrategyMarkerLeads'
  BY <1>1 DEF LInv, Fresh, StrategyMarkerLeads
<1>14. LTypes'
  BY <1>1, <1>6, <1>10 DEF LInv, LTypes
<1> QED BY <1>10, <1>11, <1>12, <1>13, <1>14 DEF LInv

LEMMA RestStep ==
    ASSUME LInv, NEW p \in LeanProcesses, UpsertTargets(p) \/ ProcessStops(p)
    PROVE  LInv'
<1>1. NoJob \in JobSet /\ NoJob.at = "rest"
  BY DEF JobSet, NoJob
<1>2. JobFits(NoJob, made, dirs, rows, mixed) /\ ~ImportsByHand(NoJob)
  BY <1>1 DEF JobFits, ImportsByHand
<1>3. /\ job' = [job EXCEPT ![p] = NoJob]
      /\ made' = made /\ dirs' = dirs /\ rows' = rows /\ markers' = markers
      /\ mixed' = mixed /\ mixed \in BOOLEAN
  BY DEF UpsertTargets, ProcessStops, Go, leanStore, LInv, LTypes
<1>4. OneHand'
  BY <1>1, <1>2, <1>3, OneHandStill
<1> QED BY <1>1, <1>2, <1>3, <1>4, JobOnly

\* The runs that LEAN and the simulator leave.
LEMMA LocalSteps ==
    ASSUME LInv, NEW p \in LeanProcesses,
           RunFullBacktest(p) \/ RunLeanBacktest(p) \/ SimulateRun(p)
    PROVE  LInv'
<1>1. CASE RunFullBacktest(p)
  <2>1. PICK overlay \in BOOLEAN, validation \in {"flow-validation", "historical-research"} :
        \E a \in LeanLeaves(validation, overlay) :
          /\ dirs' = [dirs EXCEPT ![made + 1] = a]
          /\ IF MarkedAsStrategy(a)
             THEN /\ markers' = Mark({"latest", "latest-strategy"}, made + 1)
                  /\ ImportDirectory(p, made + 1, a, "strategy-backtest")
             ELSE UNCHANGED <<markers, job>>
    BY <1>1, Zenon DEF RunFullBacktest
  <2>2. PICK a \in LeanLeaves(validation, overlay) :
          /\ dirs' = [dirs EXCEPT ![made + 1] = a]
          /\ IF MarkedAsStrategy(a)
             THEN /\ markers' = Mark({"latest", "latest-strategy"}, made + 1)
                  /\ ImportDirectory(p, made + 1, a, "strategy-backtest")
             ELSE UNCHANGED <<markers, job>>
    BY <2>1
  <2>3. a \in Artifacts
    BY DEF LeanLeaves, AsAsked
  <2>4. \/ /\ markers' = Mark({"latest", "latest-strategy"}, made + 1)
           /\ StrategyAccepted(a)
           /\ ImportDirectory(p, made + 1, a, "strategy-backtest")
        \/ markers' = markers /\ job' = job
    BY <2>2 DEF MarkedAsStrategy
  <2> QED BY <1>1, <2>2, <2>3, <2>4, LocalRun, Zenon DEF RunFullBacktest
<1>2. CASE RunLeanBacktest(p)
  <2>1. PICK a \in LeanLeaves("missing", TRUE) :
          /\ dirs' = [dirs EXCEPT ![made + 1] = a]
          /\ markers' = IF SchemaAccepted(a) THEN Mark({"latest"}, made + 1) ELSE markers
    BY <1>2 DEF RunLeanBacktest
  <2>2. a \in Artifacts
    BY DEF LeanLeaves, AsAsked
  <2>3. markers' = markers \/ markers' = Mark({"latest"}, made + 1)
    BY <2>1
  <2> QED BY <1>2, <2>1, <2>2, <2>3, LocalRun, Zenon DEF RunLeanBacktest
<1>3. CASE SimulateRun(p)
  <2> DEFINE a == [files |-> "all", by |-> "simulator", validation |-> "missing",
                   overlay |-> FALSE, insights |-> TRUE, orders |-> "all",
                   report |-> "missing"]
  <2>1. a \in Artifacts
    BY DEF Artifacts, Amounts
  <2>2. /\ made < MaxRuns /\ made' = made + 1 /\ dirs' = [dirs EXCEPT ![made + 1] = a]
        /\ markers' = Mark({"latest"}, made + 1) /\ UNCHANGED <<leanStore, mixed>> /\ job' = job
    BY <1>3 DEF SimulateRun
  <2> HIDE DEF a
  <2> QED BY <2>1, <2>2, LocalRun, Zenon
<1> QED BY <1>1, <1>2, <1>3

-----------------------------------------------------------------------------
(* The theorems. *)

LEMMA NextKeeps ==
    ASSUME LInv, LeanNext
    PROVE  LInv'
<1>1. PICK p \in LeanProcesses :
        \/ RunFullBacktest(p) \/ RunLeanBacktest(p) \/ SimulateRun(p) \/ ImportLeanRun(p)
        \/ RunCloudBacktest(p) \/ CloudBacktestEnds(p) \/ CloudCommandFails(p)
        \/ ImportCloudBacktest(p) \/ CloudImportAnswered(p)
        \/ SaveRow(p) \/ UpsertTargets(p) \/ ProcessStops(p)
  BY DEF LeanNext
<1>2. CASE RunFullBacktest(p) \/ RunLeanBacktest(p) \/ SimulateRun(p)
  BY <1>2, LocalSteps
<1>3. CASE ImportLeanRun(p)
  BY <1>3, ImportLeanRunStep
<1>4. CASE RunCloudBacktest(p)
  BY <1>4, RunCloudBacktestStep
<1>5. CASE CloudBacktestEnds(p)
  BY <1>5, CloudBacktestEndsStep
<1>6. CASE CloudCommandFails(p)
  BY <1>6, CloudCommandFailsStep
<1>7. CASE ImportCloudBacktest(p)
  BY <1>7, ImportCloudBacktestStep
<1>8. CASE CloudImportAnswered(p)
  BY <1>8, CloudImportAnsweredStep
<1>9. CASE SaveRow(p)
  BY <1>9, SaveRowStep
<1>10. CASE UpsertTargets(p) \/ ProcessStops(p)
  BY <1>10, RestStep
<1> QED BY <1>1, <1>2, <1>3, <1>4, <1>5, <1>6, <1>7, <1>8, <1>9, <1>10

LEMMA StutterKeeps ==
    ASSUME LInv, UNCHANGED leanVars
    PROVE  LInv'
BY DEF LInv, LTypes, Fresh, JobsFit, CloudApart, OneHand, RowsBacked,
   StrategyMarkerLeads, leanVars

\* The invariant: what counts as evidence, on disk, in rows and in jobs not yet saved.
THEOREM LeanInvariance == LeanSpec => []LInv
<1>1. LInv /\ [LeanNext]_leanVars => LInv'
  BY NextKeeps, StutterKeeps
<1> QED BY InitHolds, <1>1, PTL DEF LeanSpec

\* The strategy marker, which full backtests, cloud backtests and hand imports set before
\* they save a row, names a directory that passes acceptance, or the hand import's.
THEOREM MarkerLeads == LeanSpec => []StrategyMarkerLeads
<1>1. LInv => StrategyMarkerLeads
  BY DEF LInv
<1> QED BY LeanInvariance, <1>1, PTL

\* A lean_runs row that counts as strategy evidence has a directory that passes acceptance
\* at any later time (importFromDirectory, the cloud runner and the hand importer).
THEOREM EligibleStands == LeanSpec => []EligibleRests
<1>1. LInv => EligibleRests
  <2> SUFFICES ASSUME LInv, NEW r \in Runs, rows[r].eligible
               PROVE  StrategyAccepted(dirs[r]) \/ (r = Hand /\ (mixed \/ rows[r].key = "import"))
    BY DEF EligibleRests
  <2>1. rows[r].eligible \in BOOLEAN
    BY DEF LInv, LTypes, RowSet
  <2>2. rows[r].eligible = TRUE
    BY <2>1
  <2> QED BY <2>2 DEF LInv, RowsBacked, Backed
<1> QED BY LeanInvariance, <1>1, PTL

=============================================================================
