---------------------------- MODULE RunSchedule ----------------------------
(***************************************************************************)
(* Autonomous runs of one schedule (ControlPlaneService: tickRunSchedule,  *)
(* advanceRun, advanceReducingRun, releaseScheduleLease; the cron worker   *)
(* ControlPlaneSchedulerService).                                          *)
(*                                                                         *)
(* A tick takes the schedule's lease with one conditional UPDATE, finds or *)
(* creates the run of the schedule's current cycle, advances it and gives  *)
(* the lease back with nextRunAt moved by one cadence.  Ticks of several   *)
(* processes and the unleased POST runs/:id/advance share the rows; every  *)
(* read and every write is one step.                                       *)
(*                                                                         *)
(* Time is counted in cadences: the schedule's nextRunAt is the number of  *)
(* a cycle, and a cycle is due once the clock has reached it.  Executing a *)
(* proposal on paper is one step here: PaperExecution shows that a         *)
(* proposal has one live plan whatever interleaves inside it.              *)
(***************************************************************************)
EXTENDS Integers, Sequences, FiniteSets, Functions

CONSTANTS
    Workers,        \* processes (or concurrent handlers) that share the database
    Tickers,        \* those that tick the schedule when it is due
    Forcers,        \* those that tick it with force
    Advancers,      \* those that serve POST runs/:id/advance
    NoWorker,       \* the lease has no owner
    Enabled,        \* the schedule is enabled; no handler changes it
    Requested,      \* execution-control states operators ask for
    Timely,         \* a lease does not run out under a holder that is alive
    MaxCycle,       \* bound: cycles 0 .. MaxCycle exist
    MaxCrashes,     \* bound on the number of crashes
    MaxProposals    \* bound on the number of stored proposals

ASSUME ScheduleAssumption ==
    /\ Tickers \cup Forcers \cup Advancers \subseteq Workers
    /\ NoWorker \notin Workers
    /\ Enabled \in BOOLEAN /\ Timely \in BOOLEAN
    /\ Requested \subseteq {"active", "paused", "reducing", "halted"}
    /\ MaxCycle \in Nat /\ MaxCrashes \in Nat /\ MaxProposals \in Nat

VARIABLES
    control,    \* latest execution-control state
    clock,      \* the latest cycle that is due
    nextRun,    \* the schedule's nextRunAt
    lease,      \* its leaseOwner, and whether leaseExpiresAt has passed
    runs,       \* autonomous_runs of the schedule, by cycle key
    proposals,  \* investment_proposals; the id is the index
    fills,      \* ids of the proposals filled on paper, in order
    crashes,    \* number of crashes so far
    pc, loc     \* where each process is, and what it has read

rows == <<nextRun, lease, runs, proposals, fills>>
vars == <<control, clock, rows, crashes, pc, loc>>

Cycles == 0 .. MaxCycle
ControlStates == {"active", "paused", "reducing", "halted"}

\* What a consumed cycle leaves its run in.
SettledStatuses == {"risk_checked", "paper_ready", "failed", "paused", "halted"}
RunStatuses == SettledStatuses \cup {"none", "idle", "researching", "proposed"}

\* proposal 0: the run has none yet.
Run == [status: RunStatuses, proposal: Nat]
NoRun == [status |-> "none", proposal |-> 0]

\* A recovery proposal (SELL) remembers the account state it was derived from, here
\* the number of fills it had seen.
Proposal == [cycle: Cycles, side: {"BUY", "SELL"}, basis: Nat]

Lease == [owner: Workers \cup {NoWorker}, expired: BOOLEAN]
NoLease == [owner |-> NoWorker, expired |-> FALSE]

\* The steps of a tick that hold the lease.
HeldSteps == {"tick_find", "tick_create", "advance_run", "advance_control",
              "save_researching", "research", "propose", "save_recovering",
              "recover_read", "recover_propose", "save_proposed", "paper_find",
              "paper_execute", "save_settled", "release", "release_error"}
Steps == HeldSteps \cup {"idle", "tick_control", "tick_lease"}

\* tick: the run is advanced by a tick and not by runs/:id/advance.
Local == [cycle: Cycles, tick: BOOLEAN, force: BOOLEAN, reducing: BOOLEAN,
          run: Run, basis: Nat]
NoLocal == [cycle |-> 0, tick |-> FALSE, force |-> FALSE, reducing |-> FALSE,
            run |-> NoRun, basis |-> 0]

TypeOK ==
    /\ control \in ControlStates
    /\ clock \in Cycles
    /\ nextRun \in 0 .. MaxCycle + 1
    /\ lease \in Lease
    /\ runs \in [Cycles -> Run]
    /\ proposals \in Seq(Proposal)
    /\ fills \in Seq(Nat)
    /\ crashes \in Nat
    /\ pc \in [Workers -> Steps]
    /\ loc \in [Workers -> Local]

Init ==
    /\ control = "active"
    /\ clock = 0
    /\ nextRun = 0
    /\ lease = NoLease
    /\ runs = [c \in Cycles |-> NoRun]
    /\ proposals = <<>>
    /\ fills = <<>>
    /\ crashes = 0
    /\ pc = [p \in Workers |-> "idle"]
    /\ loc = [p \in Workers |-> NoLocal]

-----------------------------------------------------------------------------

Filled(id) == id \in Range(fills)

Stopped(state) == state \in {"paused", "halted"}
ControlPermits(state, side) == ~Stopped(state) /\ (state = "reducing" => side = "SELL")

Holds(p) == pc[p] \in HeldSteps /\ loc[p].tick

Goto(p, step, l) ==
    /\ pc' = [pc EXCEPT ![p] = step]
    /\ loc' = [loc EXCEPT ![p] = l]
Return(p) == Goto(p, "idle", NoLocal)

\* advanceRun throws past its own catch: a tick stores the error when it gives the
\* lease back, runs/:id/advance answers with it.
Throw(p) == IF loc[p].tick THEN Goto(p, "release_error", loc[p]) ELSE Return(p)

-----------------------------------------------------------------------------
(* The environment *)

UpdateControl(state) ==
    /\ state # control
    /\ control' = state
    /\ UNCHANGED <<clock, rows, crashes, pc, loc>>

PassTime ==
    /\ clock < MaxCycle
    /\ clock' = clock + 1
    /\ UNCHANGED <<control, rows, crashes, pc, loc>>

LeaseExpires ==
    /\ lease.owner # NoWorker
    /\ ~lease.expired
    /\ Timely => ~Holds(lease.owner)
    /\ lease' = [lease EXCEPT !.expired = TRUE]
    /\ UNCHANGED <<control, clock, nextRun, runs, proposals, fills, crashes, pc, loc>>

Crash(p) ==
    /\ crashes < MaxCrashes
    /\ pc[p] # "idle"
    /\ crashes' = crashes + 1
    /\ Return(p)
    /\ UNCHANGED <<control, clock, rows>>

-----------------------------------------------------------------------------
(* tickRunSchedule *)

TickRead(p, force) ==
    /\ pc[p] = "idle"
    /\ nextRun \in Cycles
    /\ force \/ (Enabled /\ nextRun <= clock)
    /\ Goto(p, "tick_control",
            [NoLocal EXCEPT !.cycle = nextRun, !.tick = TRUE, !.force = force])
    /\ UNCHANGED <<control, clock, rows, crashes>>

\* Paused or halted: the tick is refused before it takes the lease.
TickControl(p) ==
    /\ pc[p] = "tick_control"
    /\ IF Stopped(control) THEN Return(p) ELSE Goto(p, "tick_lease", loc[p])
    /\ UNCHANGED <<control, clock, rows, crashes>>

\* Mutant: a lease that is still running is taken over.
LeaseOpenAnyTime(p) ==
    loc[p].force \/ (Enabled /\ nextRun = loc[p].cycle)

\* Mutant: the UPDATE does not ask that nextRunAt is still the one read.
LeaseOpenStale(p) ==
    /\ lease.owner = NoWorker \/ lease.expired
    /\ loc[p].force \/ Enabled

\* Mutant: only a lease that was given back is free, not one that has run out.
LeaseOpenGivenBack(p) ==
    /\ lease.owner = NoWorker
    /\ loc[p].force \/ (Enabled /\ nextRun = loc[p].cycle)

\* leaseCriteria
LeaseOpen(p) ==
    /\ lease.owner = NoWorker \/ lease.expired
    /\ loc[p].force \/ (Enabled /\ nextRun = loc[p].cycle)

TickLease(p) ==
    /\ pc[p] = "tick_lease"
    /\ LeaseOpen(p)
    /\ lease' = [owner |-> p, expired |-> FALSE]
    /\ Goto(p, "tick_find", loc[p])
    /\ UNCHANGED <<control, clock, nextRun, runs, proposals, fills, crashes>>

\* The UPDATE matches no row: the tick is refused as already leased.
TickLeased(p) ==
    /\ pc[p] = "tick_lease"
    /\ ~LeaseOpen(p)
    /\ Return(p)
    /\ UNCHANGED <<control, clock, rows, crashes>>

TickFindRun(p) ==
    /\ pc[p] = "tick_find"
    /\ Goto(p, IF runs[loc[p].cycle] = NoRun THEN "tick_create" ELSE "advance_run", loc[p])
    /\ UNCHANGED <<control, clock, rows, crashes>>

\* (scheduleId, cycleKey) is unique: an insert that lost the race throws.
TickCreateRun(p) ==
    /\ pc[p] = "tick_create"
    /\ LET c == loc[p].cycle
       IN  IF runs[c] = NoRun
           THEN /\ runs' = [runs EXCEPT ![c].status = "idle"]
                /\ Goto(p, "advance_run", loc[p])
           ELSE /\ Throw(p)
                /\ UNCHANGED runs
    /\ UNCHANGED <<control, clock, nextRun, lease, proposals, fills, crashes>>

\* releaseScheduleLease: UPDATE ... WHERE leaseOwner and leaseExpiresAt are those of
\* this tick, so a tick whose lease was taken over changes nothing.
Released(p, next) ==
    IF lease.owner = p THEN lease' = NoLease /\ nextRun' = next
    ELSE UNCHANGED <<lease, nextRun>>

\* Mutant: a failed tick moves the schedule on as well.
ErrorConsumes(p) == loc[p].cycle + 1
\* A tick that throws leaves nextRunAt, so the cycle stays due.
NextAfterError(p) == nextRun

TickRelease(p) ==
    /\ pc[p] = "release"
    /\ Released(p, loc[p].cycle + 1)
    /\ Return(p)
    /\ UNCHANGED <<control, clock, runs, proposals, fills, crashes>>

TickReleaseError(p) ==
    /\ pc[p] = "release_error"
    /\ Released(p, NextAfterError(p))
    /\ Return(p)
    /\ UNCHANGED <<control, clock, runs, proposals, fills, crashes>>

-----------------------------------------------------------------------------
(* advanceRun *)

\* POST runs/:id/advance takes no lease.
AdvanceRequest(p, c) ==
    /\ pc[p] = "idle"
    /\ runs[c] # NoRun
    /\ Goto(p, "advance_run", [NoLocal EXCEPT !.cycle = c])
    /\ UNCHANGED <<control, clock, rows, crashes>>

AdvanceReadRun(p) ==
    /\ pc[p] = "advance_run"
    /\ Goto(p, "advance_control", [loc[p] EXCEPT !.run = runs[loc[p].cycle]])
    /\ UNCHANGED <<control, clock, rows, crashes>>

\* Paused or halted: the run is saved as such and returned like any other.
AdvanceReadControl(p) ==
    /\ pc[p] = "advance_control"
    /\ LET at(step, status, reducing) ==
             Goto(p, step, [loc[p] EXCEPT !.run.status = status, !.reducing = reducing])
       IN  CASE Stopped(control)       -> at("save_settled", control, FALSE)
             [] control = "reducing"   -> at("save_recovering", "researching", TRUE)
             [] OTHER                  -> at("save_researching", "researching", FALSE)
    /\ UNCHANGED <<control, clock, rows, crashes>>

\* save(run) writes back the whole row read by this handler, changed by it or not.
SaveRun(p, from, to, l) ==
    /\ pc[p] = from
    /\ runs' = [runs EXCEPT ![loc[p].cycle] = loc[p].run]
    /\ Goto(p, to, l)
    /\ UNCHANGED <<control, clock, nextRun, lease, proposals, fills, crashes>>

SaveResearching(p) == SaveRun(p, "save_researching", "research", loc[p])
SaveRecovering(p) == SaveRun(p, "save_recovering", "recover_read", loc[p])
SaveProposed(p) == SaveRun(p, "save_proposed", "paper_find", loc[p])
SaveSettled(p) ==
    IF loc[p].tick THEN SaveRun(p, "save_settled", "release", loc[p])
    ELSE SaveRun(p, "save_settled", "idle", NoLocal)

Settle(p, status) == Goto(p, "save_settled", [loc[p] EXCEPT !.run.status = status])

\* runBaselineResearch is eligible, or it is blocked or throws and the run fails.
Research(p) ==
    /\ pc[p] = "research"
    /\ Goto(p, "propose", loc[p]) \/ Settle(p, "failed")
    /\ UNCHANGED <<control, clock, rows, crashes>>

Propose(p, side, basis) ==
    /\ Len(proposals) < MaxProposals
    /\ proposals' = Append(proposals,
                           [cycle |-> loc[p].cycle, side |-> side, basis |-> basis])
    /\ Goto(p, "save_proposed", [loc[p] EXCEPT !.run.status = "proposed",
                                               !.run.proposal = Len(proposals) + 1])

\* Mutant: a resumed run is given a new proposal.
NeedsProposalAlways(run) == TRUE
\* A run that has its proposal keeps it.
NeedsProposal(run) == run.proposal = 0

ProposeBaseline(p) ==
    /\ pc[p] = "propose"
    /\ IF NeedsProposal(loc[p].run) THEN Propose(p, "BUY", 0)
       ELSE /\ Goto(p, "save_proposed", [loc[p] EXCEPT !.run.status = "proposed"])
            /\ UNCHANGED proposals
    /\ UNCHANGED <<control, clock, nextRun, lease, runs, fills, crashes>>

\* createProposal or, after it, evaluateProposal throws inside advanceRun's try.
ProposeFails(p) ==
    /\ pc[p] \in {"propose", "paper_find"}
    /\ ~loc[p].reducing
    /\ Settle(p, "failed")
    /\ UNCHANGED <<control, clock, rows, crashes>>

-----------------------------------------------------------------------------
(* advanceReducingRun: its promise is returned, not awaited, by advanceRun's try, so *)
(* what it throws is not recorded in the run.                                        *)

RecoverRead(p) ==
    /\ pc[p] = "recover_read"
    /\ Goto(p, "recover_propose", [loc[p] EXCEPT !.basis = Len(fills)])
    /\ UNCHANGED <<control, clock, rows, crashes>>

\* runRecoveryProposal: the recovery proposal of the account state that was read, if
\* there is one; whatever proposal the run had is replaced.
RecoverAgain(p) ==
    /\ pc[p] = "recover_propose"
    /\ \E id \in DOMAIN proposals :
          /\ proposals[id].side = "SELL"
          /\ proposals[id].basis = loc[p].basis
          /\ Goto(p, "save_proposed", [loc[p] EXCEPT !.run.status = "proposed",
                                                     !.run.proposal = id])
    /\ UNCHANGED <<control, clock, rows, crashes>>

\* Or a new one.  The state reference covers the account's updatedAt, which an
\* execution that claimed the account and was blocked changes too.
RecoverPropose(p) ==
    /\ pc[p] = "recover_propose"
    /\ Propose(p, "SELL", loc[p].basis)
    /\ UNCHANGED <<control, clock, nextRun, lease, runs, fills, crashes>>

\* No position to sell, a blocked recovery research or a refused approval.
RecoverThrows(p) ==
    /\ pc[p] \in {"recover_read", "recover_propose", "paper_find", "paper_execute"}
    /\ loc[p].reducing
    /\ Throw(p)
    /\ UNCHANGED <<control, clock, rows, crashes>>

-----------------------------------------------------------------------------
(* tryPaperExecutionForRun *)

\* maybeCreatePaperAutoApproval: the schedule or its budget does not authorise the
\* proposal, or there is no paper account.  The run waits as it is.
Unapproved(p) == Settle(p, "risk_checked")

\* An earlier plan is the run's plan; without one the proposal is executed under an
\* approval, found or given by the schedule's standing authorisation.
PaperFind(p) ==
    /\ pc[p] = "paper_find"
    /\ IF Filled(loc[p].run.proposal) THEN Settle(p, "paper_ready")
       ELSE Goto(p, "paper_execute", loc[p]) \/ Unapproved(p)
    /\ UNCHANGED <<control, clock, rows, crashes>>

\* Mutant: the outcome is recorded without looking at the plan's status.
PaperStatusAlways(filled) == "paper_ready"
\* Mutant: the plan's own status is stored as the run's.
PaperStatusOfPlan(filled) == IF filled THEN "filled" ELSE "blocked"
PaperStatus(filled) == IF filled THEN "paper_ready" ELSE "risk_checked"

\* paperExecuteProposal, to its outcome: the proposal is filled, ...
PaperFill(p) ==
    LET id == loc[p].run.proposal
    IN  /\ pc[p] = "paper_execute"
        /\ ~Filled(id)
        /\ ControlPermits(control, proposals[id].side)
        /\ fills' = Append(fills, id)
        /\ Settle(p, PaperStatus(TRUE))
        /\ UNCHANGED <<control, clock, nextRun, lease, runs, proposals, crashes>>

\* ... or the filled plan of the same key is returned, or the plan is blocked, ...
PaperKeeps(p) ==
    /\ pc[p] = "paper_execute"
    /\ Settle(p, PaperStatus(FALSE)) \/ (Filled(loc[p].run.proposal) /\ Settle(p, PaperStatus(TRUE)))
    /\ UNCHANGED <<control, clock, rows, crashes>>

\* ... or it throws (see RecoverThrows for a reducing run).
PaperFails(p) ==
    /\ pc[p] = "paper_execute"
    /\ ~loc[p].reducing
    /\ Settle(p, "failed")
    /\ UNCHANGED <<control, clock, rows, crashes>>

-----------------------------------------------------------------------------

Start(p) ==
    \/ p \in Tickers /\ TickRead(p, FALSE)
    \/ p \in Forcers /\ TickRead(p, TRUE)
    \/ p \in Advancers /\ \E c \in Cycles : AdvanceRequest(p, c)

Continue(p) ==
    \/ TickControl(p) \/ TickLease(p) \/ TickLeased(p)
    \/ TickFindRun(p) \/ TickCreateRun(p)
    \/ AdvanceReadRun(p) \/ AdvanceReadControl(p)
    \/ SaveResearching(p) \/ Research(p) \/ ProposeBaseline(p) \/ ProposeFails(p)
    \/ SaveRecovering(p) \/ RecoverRead(p) \/ RecoverAgain(p) \/ RecoverPropose(p)
    \/ RecoverThrows(p)
    \/ SaveProposed(p)
    \/ PaperFind(p) \/ PaperFill(p) \/ PaperKeeps(p) \/ PaperFails(p)
    \/ SaveSettled(p) \/ TickRelease(p) \/ TickReleaseError(p)

Next ==
    \/ \E state \in Requested : UpdateControl(state)
    \/ PassTime
    \/ LeaseExpires
    \/ \E p \in Workers : Start(p) \/ Continue(p) \/ Crash(p)

Spec == Init /\ [][Next]_vars

\* The cron fires every minute, a process that is alive finishes its handler, and
\* time passes an expiry.
Fairness ==
    /\ \A p \in Tickers : WF_vars(Start(p))
    /\ \A p \in Workers : WF_vars(Continue(p))
    /\ WF_vars(LeaseExpires)

FairSpec == Spec /\ Fairness

-----------------------------------------------------------------------------
(* Properties *)

Sides(c, side) ==
    {i \in DOMAIN fills : /\ proposals[fills[i]].cycle = c
                          /\ proposals[fills[i]].side = side}

\* A cycle buys at most once, however often it is ticked, forced, crashed and resumed
\* (the lease, the cycle key and the run's proposalId together).
OneBuyPerCycle == \A c \in Cycles : Cardinality(Sides(c, "BUY")) <= 1

\* A cycle sells at most once.
OneSellPerCycle == \A c \in Cycles : Cardinality(Sides(c, "SELL")) <= 1

\* Two ticks never work on the schedule at once, and the one at work owns the lease.
LeaseExclusive == \A p \in Workers : Holds(p) => lease.owner = p

\* A cycle the schedule has moved past has a run that came to an end, none was left
\* half way or never started.
ConsumedCyclesSettled == \A c \in Cycles : c < nextRun => runs[c].status \in SettledStatuses

\* Every fill is reachable from the run of its cycle: a crash between the proposal,
\* the fill and the run's last save leaves no fill that no run names.
FillsTraced == \A i \in DOMAIN fills : runs[proposals[fills[i]].cycle].proposal = fills[i]

\* A run says paper_ready only of a proposal that was filled.
PaperReadyFilled == \A c \in Cycles : runs[c].status = "paper_ready" => Filled(runs[c].proposal)

\* Without forced ticks the schedule moves one cadence at a time and never back, even
\* when leases run out under their holders and late holders come back.
NextMovesByOne == [][nextRun' \in {nextRun, nextRun + 1}]_vars

\* A due cycle is eventually consumed unless the control leaves active: the lease of a
\* crashed holder runs out and another tick resumes the cycle.
DueCyclesConsumed ==
    \A c \in Cycles : (clock >= c) ~> (nextRun > c \/ control # "active")

=============================================================================
