----------------------------- MODULE PilotCycle -----------------------------
(***************************************************************************)
(* The pilot's paper cycle and what is reported about it: the bridge from  *)
(* the latest accepted LEAN run and its targets to a paper order plan      *)
(* (LeanPaperBridgeService), the current targets, the live preflight and   *)
(* the paper and preflight stages of the system status.                    *)
(*                                                                         *)
(* The bridge's dedupe is a lookup by key before a chain of requests to    *)
(* the control plane; each request makes its own proposal, so nothing      *)
(* below the lookup knows the key again.                                   *)
(***************************************************************************)
EXTENDS Integers, Sequences, FiniteSetsExt

CONSTANTS
    Cycles,         \* bridge requests that may run at once
    PilotRuns,      \* the runtimes of the runs, in the order they are accepted
    MaxSignals,     \* bound on alpha batches
    MaxBridgePlans  \* bound on plans

ASSUME PilotAssumption ==
    /\ PilotRuns \in Seq({"local", "cloud"})
    /\ MaxSignals \in Nat /\ MaxBridgePlans \in Nat

VARIABLES
    accepted,   \* how many of PilotRuns are accepted
    targets,    \* per run: its imported snapshot, its newest current one
    signal,     \* the latest alpha batch, 0 while nothing is orderable
    plans,      \* the bridge's plans by id, each with the number of the save it was updated by
    ledger,     \* who has the account scope, whose event is the newest of all
    cycle,      \* per request: where it is and what it has read
    preflight,  \* the newest preflight record
    check       \* the preflight under way

pilotVars == <<accepted, targets, signal, plans, ledger, cycle, preflight, check>>
evidence == <<accepted, targets, signal>>
reports == <<preflight, check>>

AcceptedRuns == 1..accepted
None == 0
Modes == {"current", "replay"}
Executed == {"filled", "reconciled", "reconciliation_failed"}

\* A target is named by its run and its batch; batch 0 is the snapshot the run was imported with.
NoTarget == -1
Idle == [at |-> "idle", mode |-> "current", run |-> None, target |-> NoTarget,
         plan |-> None, pinned |-> FALSE]
Unchecked == [at |-> "idle", run |-> None, target |-> NoTarget, plan |-> None, matched |-> FALSE]

PilotTypeOK ==
    /\ accepted \in 0..Len(PilotRuns)
    /\ targets \in [1..Len(PilotRuns) -> [imported: BOOLEAN, current: 0..MaxSignals]]
    /\ signal \in 0..MaxSignals
    /\ \A i \in DOMAIN plans :
          /\ plans[i].run \in 1..Len(PilotRuns) /\ plans[i].target \in 0..MaxSignals
          /\ plans[i].mode \in Modes /\ plans[i].updated \in Nat \ {0}
          /\ plans[i].status \in Executed \cup {"planned", "blocked"}
    /\ ledger \in [seat: {"none", "bridge", "other"}, ownLast: BOOLEAN]
    /\ \A c \in Cycles :
          cycle[c].at \in {"idle", "lookup", "prepare", "approve", "execute", "reconcile"}
    /\ preflight \in [run: 0..Len(PilotRuns), plan: 0..MaxBridgePlans, clear: BOOLEAN]
    /\ check.at \in {"idle", "plan", "record"}

PilotInit ==
    /\ accepted = 0
    /\ targets = [r \in 1..Len(PilotRuns) |-> [imported |-> FALSE, current |-> 0]]
    /\ signal = 0
    /\ plans = <<>>
    /\ ledger = [seat |-> "none", ownLast |-> FALSE]
    /\ cycle = [c \in Cycles |-> Idle]
    /\ preflight = [run |-> None, plan |-> None, clear |-> FALSE]
    /\ check = Unchecked

-----------------------------------------------------------------------------
(* What others write: runs, targets, alpha batches, account events. *)

\* A run is accepted; its snapshot is stored after its row.
AcceptRun ==
    /\ accepted < Len(PilotRuns)
    /\ accepted' = accepted + 1
    /\ UNCHANGED <<targets, signal, plans, ledger, cycle, reports>>

StoreImportedTarget ==
    /\ \E r \in AcceptedRuns : targets' = [targets EXCEPT ![r].imported = TRUE]
    /\ UNCHANGED <<accepted, signal, plans, ledger, cycle, reports>>

AlphaCycle ==
    /\ signal < MaxSignals
    /\ signal' = signal + 1
    /\ UNCHANGED <<accepted, targets, plans, ledger, cycle, reports>>

\* An event of the bridge's account: no pin made before it holds.
Moved == [c \in Cycles |-> [cycle[c] EXCEPT !.pinned = FALSE]]

\* Somebody else's event: on the bridge's account, on another one, or one by which another
\* account takes the scope.
OwnAccountMoves ==
    /\ ledger.seat = "bridge"
    /\ ledger' = [ledger EXCEPT !.ownLast = TRUE]
    /\ cycle' = Moved
    /\ UNCHANGED <<evidence, plans, reports>>

OtherAccountMoves ==
    /\ \E seat \in {ledger.seat, "other"} : ledger' = [seat |-> seat, ownLast |-> FALSE]
    /\ UNCHANGED <<evidence, plans, cycle, reports>>

-----------------------------------------------------------------------------
(* Reads shared by the services. *)

LatestRun == accepted

LatestTarget(r) ==
    IF targets[r].current > 0 THEN targets[r].current
    ELSE IF targets[r].imported THEN 0 ELSE NoTarget

\* ensureCurrentTargetSnapshot names the snapshot after the run and the batch.
WithCurrentTarget(r) == [targets EXCEPT ![r].current = signal]

PlansUnder(r, t, mode) ==
    {i \in DOMAIN plans : plans[i].run = r /\ plans[i].target = t /\ plans[i].mode = mode}
IsEvidence(i) == plans[i].status \in {"filled", "reconciled"}

\* The plan of these that was updated last, as a set of at most one.
NewestPlan(is) == {i \in is : \A j \in is : plans[j].updated <= plans[i].updated}

\* findLatestPaperPlanForEvidence: filled or reconciled, and not a replay.
PlanForEvidence(r, t, mode) == NewestPlan({i \in PlansUnder(r, t, mode) : IsEvidence(i)})

IdOf(found) == IF found = {} THEN None ELSE CHOOSE i \in found : TRUE

\* The number of a save: it is now the latest.
NextSave == 1 + Max({0} \cup {plans[i].updated : i \in DOMAIN plans})

-----------------------------------------------------------------------------
(* The bridge. *)

CycleIsAt(c, at) == cycle[c].at = at
CycleGoes(c, next) == cycle' = [cycle EXCEPT ![c] = next]

\* runPaperPath up to the snapshot.  It throws without a run or an orderable batch; the
\* replay takes the newest snapshot that is not current.
BeginCycle(c) ==
    /\ CycleIsAt(c, "idle")
    /\ LatestRun # None
    /\ \E mode \in Modes :
          /\ IF mode = "current"
             THEN signal > 0 /\ targets' = WithCurrentTarget(LatestRun)
             ELSE targets[LatestRun].imported /\ UNCHANGED targets
          /\ CycleGoes(c, [Idle EXCEPT !.at = "lookup", !.mode = mode, !.run = LatestRun,
                                       !.target = IF mode = "current" THEN signal ELSE 0])
    /\ UNCHANGED <<accepted, signal, plans, ledger, reports>>

\* Mutant: the bridge looks for a plan that still needs it.
UnfinishedPlan(c) ==
    NewestPlan({i \in PlansUnder(cycle[c].run, cycle[c].target, cycle[c].mode) :
                   plans[i].status # "reconciled"})
ExistingPlan(c) == NewestPlan(PlansUnder(cycle[c].run, cycle[c].target, cycle[c].mode))

ReconcileNext(c, i, status) ==
    IF status = "filled" THEN [cycle[c] EXCEPT !.at = "reconcile", !.plan = i] ELSE Idle

LookUp(c) ==
    /\ CycleIsAt(c, "lookup")
    /\ IF ExistingPlan(c) = {}
       THEN CycleGoes(c, [cycle[c] EXCEPT !.at = "prepare"])
       ELSE \E i \in ExistingPlan(c) : CycleGoes(c, ReconcileNext(c, i, plans[i].status))
    /\ UNCHANGED <<evidence, plans, ledger, reports>>

\* Budget, account, research run, proposal and its evaluation.  A new account is two events;
\* one that another budget holds, or a denial, ends the cycle.
Prepare(c) ==
    /\ CycleIsAt(c, "prepare")
    /\ \/ ledger.seat = "bridge" /\ UNCHANGED ledger
       \/ ledger.seat = "none" /\ ledger' = [seat |-> "bridge", ownLast |-> TRUE]
    /\ CycleGoes(c, [cycle[c] EXCEPT !.at = "approve"])
    /\ UNCHANGED <<evidence, plans, reports>>

\* The approval pins the newest event of all accounts; it is refused when that is not the
\* newest of the bridge's account.  The proposal is evaluated again against the account as
\* it is now.
Approve(c) ==
    /\ CycleIsAt(c, "approve")
    /\ ledger.seat = "bridge" /\ ledger.ownLast
    /\ CycleGoes(c, [cycle[c] EXCEPT !.at = "execute", !.pinned = TRUE])
    /\ UNCHANGED <<evidence, plans, ledger, reports>>

NewPlan(c, status) ==
    [run |-> cycle[c].run, target |-> cycle[c].target, mode |-> cycle[c].mode,
     status |-> status, updated |-> NextSave]

\* paperExecuteProposal fills the plan if the pin still holds, and its event moves the account.
ExecuteFilled(c) ==
    /\ CycleIsAt(c, "execute") /\ Len(plans) < MaxBridgePlans
    /\ ledger.seat = "bridge" /\ cycle[c].pinned
    /\ plans' = Append(plans, NewPlan(c, "filled"))
    /\ ledger' = [ledger EXCEPT !.ownLast = TRUE]
    /\ cycle' = [Moved EXCEPT ![c] = ReconcileNext(c, Len(plans) + 1, "filled")]
    /\ UNCHANGED <<evidence, reports>>

\* It is blocked (a moved account, a halt, too little cash), or its process stops between its
\* two transactions and the plan stays planned.
ExecuteUnfilled(c) ==
    /\ CycleIsAt(c, "execute") /\ Len(plans) < MaxBridgePlans
    /\ \E status \in {"blocked"} \cup (IF cycle[c].pinned THEN {"planned"} ELSE {}) :
          plans' = Append(plans, NewPlan(c, status))
    /\ CycleGoes(c, Idle)
    /\ UNCHANGED <<evidence, ledger, reports>>

Reconcile(c) ==
    /\ CycleIsAt(c, "reconcile")
    /\ \E status \in {"reconciled", "reconciliation_failed"} :
          plans' = [plans EXCEPT ![cycle[c].plan].status = status,
                                 ![cycle[c].plan].updated = NextSave]
    /\ CycleGoes(c, Idle)
    /\ UNCHANGED <<evidence, ledger, reports>>

\* A request throws, or its process stops.
CycleStops(c) ==
    /\ ~CycleIsAt(c, "idle")
    /\ CycleGoes(c, Idle)
    /\ UNCHANGED <<evidence, plans, ledger, reports>>

-----------------------------------------------------------------------------
(* The reports. *)

\* runLiveShadow makes the current target; its record is read by no stage.
RunLiveShadow ==
    /\ LatestRun # None /\ signal > 0
    /\ targets' = WithCurrentTarget(LatestRun)
    /\ UNCHANGED <<accepted, signal, plans, ledger, cycle, reports>>

\* runPreflight reads the run and its target, then the plan, then the rest.
BeginPreflight ==
    /\ check.at = "idle"
    /\ check' = [Unchecked EXCEPT !.at = "plan", !.run = LatestRun,
                   !.target = IF LatestRun = None THEN NoTarget ELSE LatestTarget(LatestRun)]
    /\ UNCHANGED <<evidence, plans, ledger, cycle, preflight>>

PreflightPlan ==
    /\ check.at = "plan"
    /\ LET found == PlanForEvidence(check.run, check.target, "current")
       IN  check' = [check EXCEPT !.at = "record", !.plan = IdOf(found),
                                  !.matched = \E i \in found : plans[i].status = "reconciled"]
    /\ UNCHANGED <<evidence, plans, ledger, cycle, preflight>>

\* The flags always block: the Toss write adapter is never ready.  The record is clear when
\* nothing else does: a run, a target, a matched plan, and a fit broker snapshot, an active
\* control and an external secret, which other components decide.
RecordPreflight ==
    /\ check.at = "record"
    /\ \E fit \in BOOLEAN :
          preflight' = [run |-> check.run, plan |-> check.plan,
                        clear |-> /\ check.run # None /\ check.target # NoTarget
                                  /\ check.plan # None /\ check.matched /\ fit]
    /\ check' = Unchecked
    /\ UNCHANGED <<evidence, plans, ledger, cycle>>

PilotNext ==
    \/ AcceptRun \/ StoreImportedTarget \/ AlphaCycle
    \/ OwnAccountMoves \/ OtherAccountMoves
    \/ \E c \in Cycles : \/ BeginCycle(c) \/ LookUp(c) \/ Prepare(c) \/ Approve(c)
                         \/ ExecuteFilled(c) \/ ExecuteUnfilled(c) \/ Reconcile(c) \/ CycleStops(c)
    \/ RunLiveShadow \/ BeginPreflight \/ PreflightPlan \/ RecordPreflight

PilotSpec == PilotInit /\ [][PilotNext]_pilotVars

-----------------------------------------------------------------------------
(* The system status: what getStatus computes when it is asked. *)

\* The latest cloud run, or else the latest run.
EvidenceRun ==
    LET cloud == {r \in AcceptedRuns : PilotRuns[r] = "cloud"}
    IN  IF cloud = {} THEN LatestRun ELSE CHOOSE r \in cloud : \A s \in cloud : s <= r

\* The plan of the run's target; without a run or a target, the newest plan there is.
CurrentPlan ==
    IF EvidenceRun = None \/ LatestTarget(EvidenceRun) = NoTarget
    THEN NewestPlan(DOMAIN plans)
    ELSE PlanForEvidence(EvidenceRun, LatestTarget(EvidenceRun), "current")

PaperStageReady == \E i \in CurrentPlan : plans[i].status = "reconciled"

\* Mutant: the status does not compare the plan.
StaleRun == preflight.run \notin {None, EvidenceRun} /\ EvidenceRun # None
PreflightStale ==
    \/ preflight.run \notin {None, EvidenceRun} /\ EvidenceRun # None
    \/ preflight.plan # None /\ CurrentPlan # {} /\ preflight.plan # IdOf(CurrentPlan)

-----------------------------------------------------------------------------
(* Properties. *)

\* One target of one run is bought once per mode: the lookup by key keeps a repeated cycle,
\* also one after a crash, from buying it again.
TargetBoughtOnce ==
    \A i, j \in DOMAIN plans :
        /\ i # j
        /\ plans[i].status \in Executed /\ plans[j].status \in Executed
        => <<plans[i].run, plans[i].target, plans[i].mode>>
             # <<plans[j].run, plans[j].target, plans[j].mode>>

\* A verdict that only the flags withhold: the paper stage is ready, the newest preflight is
\* clear and not stale.
Shown == PaperStageReady /\ preflight.clear /\ ~PreflightStale

\* Once the status no longer shows such a verdict, no acceptance, batch, cycle, reconciliation
\* or failure of one brings it back: it takes a new preflight.  The evidence run, its newest
\* target and the plan that counts for it must never return to what an old record names.
VerdictNotRevived == [][~Shown /\ Shown' => preflight' # preflight]_pilotVars

=============================================================================
