----------------------------- MODULE Dashboard -----------------------------
(***************************************************************************)
(* The control-plane page (useControlPlaneDashboard and the buttons of its *)
(* panels): what it shows of the server, with which warning, while the     *)
(* operator acts and others act beside.                                    *)
(*                                                                         *)
(* The server is the list of changes made to it, each with the execution   *)
(* control it left.  A row of a panel is a change it reports, so what a    *)
(* request answers is the changes made until it is answered.  The page     *)
(* reads all panels when it opens, and most of them again after a run is   *)
(* advanced, a schedule ticked or the kill switch tripped; it never polls. *)
(* Promise.allSettled waits for all answers, so one step applies them.     *)
(* Leaving the page, which drops whatever is in flight, is left out.       *)
(***************************************************************************)
EXTENDS Integers, Sequences, FiniteSets, FiniteSetsExt

CONSTANTS
    Panels,         \* the panels of this instance
    Controls,       \* the execution controls the server can be in: [tripped, state]
    MaxChanges,     \* bound on changes of the server
    MaxClicks,      \* bound on the operator's actions
    MaxRejected     \* bound on the requests of one reading that fail

AllPanels ==
    {"riskGateStatus", "controlPlaneStatus", "budgets", "researchRuns", "proposals",
     "riskEvaluations", "runs", "runSchedules", "runScheduleWorker", "paperAccount",
     "paperAccountEvents", "executionControl", "paperOrderPlans", "brokerSnapshots",
     "fundingReadiness", "livePilotReadiness", "brokerOrderCommands", "brokerOrderStatuses",
     "brokerFills", "brokerAdapter", "orderPlanApprovals", "marketDataIngestionStatus",
     "marketDataIngestionRuns", "actionTimeline"}

Control == [tripped: BOOLEAN, state: {"active", "paused", "halted"}]
Active == [tripped |-> FALSE, state |-> "active"]
Stopped == [tripped |-> TRUE, state |-> "halted"]

ASSUME DashboardAssumption ==
    /\ Panels \subseteq AllPanels
    /\ Controls \subseteq Control
    /\ MaxChanges \in Nat /\ MaxClicks \in Nat /\ MaxRejected \in Nat

Refreshing == {"advance", "tick", "killSwitch"}     \* read the page again when they succeed
Actions == {"baseline", "recovery"} \cup Refreshing
Refreshed == Panels \ {"budgets", "runs"}

\* The warning a panel's failed request raises: two pairs share one, one has none.
Silent == {"executionControl"}
Warning(p) ==
    CASE p \in {"riskGateStatus", "controlPlaneStatus"} -> "status"
      [] p \in {"marketDataIngestionStatus", "marketDataIngestionRuns"} -> "marketDataIngestion"
      [] OTHER -> p
\* The warning a failed action raises.
OwnWarning(a) ==
    CASE a = "advance" -> "runs" [] a = "tick" -> "runSchedules" [] OTHER -> a

VARIABLES
    changes,        \* the execution control after each change of the server
    shown,          \* [live, rows] of each panel
    warnings,       \* the errors that are set
    loading,        \* the loading flags, which fall together
    request,        \* [at, since, row] of each action: how far it is, the changes made
                    \* when its reading began, the change its request made
    clicks,         \* the operator's actions so far
    asOf            \* (history) the changes made when the reading applied last began

pageVars == <<changes, shown, warnings, loading, request, clicks, asOf>>

Nothing == [live |-> FALSE, rows |-> {}]
Idle == [at |-> "idle", since |-> 0, row |-> 0]

DashboardTypeOK ==
    /\ changes \in Seq(Control)
    /\ shown \in [Panels -> [live: BOOLEAN, rows: SUBSET (1..Len(changes))]]
    /\ loading \in BOOLEAN
    /\ request \in [Actions -> [at: {"idle", "sent", "handled", "reading"},
                                since: 0..Len(changes), row: 0..Len(changes)]]
    /\ clicks \in Nat
    /\ asOf \in 0..Len(changes)

DashboardInit ==
    /\ changes \in {<<>>} \cup {<<c>> : c \in Controls}
    /\ shown = [p \in Panels |-> Nothing]
    /\ warnings = {}
    /\ loading = TRUE
    /\ request = [a \in Actions |-> Idle]
    /\ clicks = 0
    /\ asOf = 0

-----------------------------------------------------------------------------
(* What the page displays. *)

Answered(p) == p \in Panels /\ shown[p].live

\* A panel's rows, "loading", or the sample that stands in for rows nobody has answered.
Shows(p) ==
    IF shown[p].live THEN "rows" ELSE IF loading THEN "loading" ELSE "sample"

\* The control the last row of a status panel carries; the sample's without an answer.
ControlShown(p) ==
    IF Answered(p) /\ shown[p].rows # {} THEN changes[Max(shown[p].rows)] ELSE Active

TripShown == ControlShown("controlPlaneStatus").tripped
StateShown == ControlShown("executionControl").state
AdvancementBlocked == TripShown \/ StateShown \in {"paused", "halted"}

\* When an action's button is enabled and its handler goes past its early return; what the
\* shown account holds, which the recovery's button also looks at, is left open.
\* Mutant: the schedule is the one displayed, sample or not.
TicksDisplayed == ~loading /\ ~AdvancementBlocked
CanTick ==
    /\ Answered("runSchedules") /\ shown["runSchedules"].rows # {}
    /\ ~loading /\ ~AdvancementBlocked
CanAdvance == Answered("runs") /\ shown["runs"].rows # {} /\ ~loading /\ ~AdvancementBlocked
CanStop == ~TripShown
CanDryRun == ~loading
CanRecover == Answered("paperAccount") /\ ~TripShown /\ StateShown # "halted"

Enabled(a) ==
    /\ request[a].at = "idle"
    /\ CASE a = "advance" -> CanAdvance
         [] a = "tick" -> CanTick
         [] a = "killSwitch" -> CanStop
         [] a = "baseline" -> CanDryRun
         [] a = "recovery" -> CanRecover

-----------------------------------------------------------------------------
(* Reading the panels. *)

\* Mutant: a failed request leaves the rows and says nothing.
WarningsDropped(asked, rejected) == warnings \ {Warning(p) : p \in asked \ Silent}
\* What is warned of after a reading: a panel that was asked for is warned of if and only
\* if it, or the panel it shares the warning with, has not answered.
WarningsAfter(asked, rejected) ==
    (warnings \ {Warning(p) : p \in asked \ Silent}) \cup {Warning(p) : p \in rejected \ Silent}

\* What is shown after a reading: a panel that has not answered keeps what it shows; the
\* paper account alone is emptied, and by the first reading only.
ShownAfter(asked, rejected, upTo, emptied) ==
    [p \in Panels |->
        IF p \in asked \ rejected THEN [live |-> TRUE, rows |-> 1..upTo[p]]
        ELSE IF p \in rejected \cap emptied THEN Nothing
        ELSE shown[p]]

\* What requests sent when `since' changes were made may answer: each is given then or
\* later, in any order.
Answers(asked, since) == [asked -> since..Len(changes)]

\* A reading begun then is applied.
Apply(asked, since, emptied) ==
    \E rejected \in {R \in SUBSET asked : Cardinality(R) <= MaxRejected} :
    \E upTo \in Answers(asked, since) :
        /\ shown' = ShownAfter(asked, rejected, upTo, emptied)
        /\ warnings' = WarningsAfter(asked, rejected)
        /\ asOf' = since

\* The first reading, begun with the page; its catch is never reached.
FirstReading ==
    /\ loading
    /\ Apply(Panels, 0, {"paperAccount"})
    /\ loading' = FALSE
    /\ UNCHANGED <<changes, request, clicks>>

\* refreshAutomationLedgers answers, and with it the action ends.
Refresh(a) ==
    /\ request[a].at = "reading"
    /\ Apply(Refreshed, request[a].since, {})
    /\ request' = [request EXCEPT ![a] = Idle]
    /\ UNCHANGED <<changes, loading, clicks>>

-----------------------------------------------------------------------------
(* The operator's actions. *)

Click(a) ==
    /\ clicks < MaxClicks
    /\ Enabled(a)
    /\ clicks' = clicks + 1
    /\ request' = [request EXCEPT ![a] = [Idle EXCEPT !.at = "sent"]]
    /\ warnings' = warnings \ {OwnWarning(a)}
    /\ UNCHANGED <<changes, shown, loading, asOf>>

CurrentControl == IF changes = <<>> THEN Active ELSE changes[Len(changes)]

\* The server does what is asked.
Handled(a) ==
    /\ request[a].at = "sent"
    /\ Len(changes) < MaxChanges
    /\ changes' = Append(changes, IF a = "killSwitch" THEN Stopped ELSE CurrentControl)
    /\ request' = [request EXCEPT ![a].at = "handled", ![a].row = Len(changes) + 1]
    /\ UNCHANGED <<shown, warnings, loading, clicks, asOf>>

\* The panels that get the answer's rows put in front of theirs.
Receivers(a) ==
    CASE a = "baseline" -> {"researchRuns"}
      [] a = "recovery" -> {"researchRuns", "proposals", "riskEvaluations"}
      [] a = "killSwitch" -> {}
      [] OTHER -> {"runs"}

\* The answer arrives.  The two that read nothing afterwards end here; the baseline also
\* takes back the warning of the panel it has put a row in.
Returned(a) ==
    /\ request[a].at = "handled"
    /\ shown' = [p \in Panels |->
                    IF p \in Receivers(a)
                    THEN [live |-> TRUE, rows |-> shown[p].rows \cup {request[a].row}]
                    ELSE shown[p]]
    /\ warnings' = IF a = "baseline" THEN warnings \ {"researchRuns"} ELSE warnings
    /\ request' = [request EXCEPT ![a] =
                      IF a \in Refreshing
                      THEN [Idle EXCEPT !.at = "reading", !.since = Len(changes)] ELSE Idle]
    /\ UNCHANGED <<changes, loading, clicks, asOf>>

\* The request fails: refused, lost on the way there or back, or unanswered for ten seconds.
Failed(a) ==
    /\ request[a].at \in {"sent", "handled"}
    /\ warnings' = warnings \cup {OwnWarning(a)}
    /\ request' = [request EXCEPT ![a] = Idle]
    /\ UNCHANGED <<changes, shown, loading, clicks, asOf>>

\* The worker, another page, or a request this page has given up on changes the server.
OthersChange ==
    /\ Len(changes) < MaxChanges
    /\ \E c \in Controls : changes' = Append(changes, c)
    /\ UNCHANGED <<shown, warnings, loading, request, clicks, asOf>>

DashboardNext ==
    \/ FirstReading
    \/ OthersChange
    \/ \E a \in Actions : Click(a) \/ Handled(a) \/ Returned(a) \/ Failed(a) \/ Refresh(a)

DashboardSpec == DashboardInit /\ [][DashboardNext]_pageVars

-----------------------------------------------------------------------------
(* Properties. *)

\* No sample passes for the server's data: once the first reading is over, a panel that
\* shows the documented sample, because nothing was ever answered for it, stands under a
\* warning.  The hook sets and clears the warnings in five places apart from the data, and
\* two of its actions clear a panel's warning when they start (advanceLatestRun,
\* tickLatestSchedule); the execution control has no warning to set.
SampleIsWarned ==
    \A p \in Panels \ Silent : Shows(p) = "sample" => Warning(p) \in warnings

\* What carries no warning is current: a panel that is read again, shows rows and has no
\* warning reports every change made before the reading applied last began, whatever
\* requests failed or overlapped; for the schedules, while no tick is under way, which
\* clears their warning first.  Left out are the execution control, which has no warning,
\* and the research runs, whose warning a dry run takes back.
UnwarnedIsCurrent ==
    \A p \in Refreshed \ (Silent \cup {"researchRuns"}) :
        /\ shown[p].live
        /\ Warning(p) \notin warnings
        /\ p = "runSchedules" => request["tick"].at = "idle"
        => 1..asOf \subseteq shown[p].rows

=============================================================================
