--------------------------- MODULE PaperExecution ---------------------------
(***************************************************************************)
(* Paper execution of proposals against one promoted paper account         *)
(* (ControlPlaneService: createOrderPlanApproval, paperExecuteProposal and *)
(* its account critical section, reconcilePaperOrderPlan, execution        *)
(* control).                                                               *)
(*                                                                         *)
(* Several OS processes (the server, the Hono server, the lincei CLI) run  *)
(* these handlers over one SQLite file.  A process runs one handler at a   *)
(* time; every read or write outside a transaction is one step, and a      *)
(* database transaction is one step.  A handler keeps what it has read in  *)
(* loc[p], which may be stale by the time it is used.                      *)
(*                                                                         *)
(* A paper-account event is identified with its sequence number: its hash  *)
(* covers sequence and recording time, so two events never share one.      *)
(* Sequence 0 stands for the promotion event that opened the account.      *)
(***************************************************************************)
EXTENDS Integers, Sequences, FiniteSetsExt

CONSTANTS
    Procs,          \* processes that share the database
    Reconcilers,    \* those that serve reconcile requests
    Proposals,      \* stored proposals, one order each
    Keys,           \* idempotency keys
    Side,           \* [Proposals -> {"BUY", "SELL"}]
    Notional,       \* [Proposals -> Nat], the order's requested notional
    Cost,           \* [Proposals -> Nat], its fee plus slippage
    Content,        \* what a proposal asks for, up to the id of its row
    InitCash,       \* cash the account was seeded with
    InitPosition,   \* market value of the position it was seeded with
    TxMayFail,      \* a transaction may fail after its plan was inserted
    MayCrash,       \* a process may stop between two steps
    Requested,      \* execution-control states operators ask for
    Expiring,       \* (proposal, key) pairs whose approval carries an expiresAt
    MaxPlans        \* bound on the number of stored plans

ASSUME ProposalAssumption ==
    /\ Proposals # {} /\ Keys # {}
    /\ Side \in [Proposals -> {"BUY", "SELL"}]
    /\ Notional \in [Proposals -> Nat \ {0}]
    /\ Cost \in [Proposals -> Nat]
    /\ \A pr, q \in Proposals : Content[pr] = Content[q] =>
          Side[pr] = Side[q] /\ Notional[pr] = Notional[q] /\ Cost[pr] = Cost[q]
ASSUME DeploymentAssumption ==
    /\ Reconcilers \subseteq Procs
    /\ TxMayFail \in BOOLEAN
    /\ MayCrash \in BOOLEAN
    /\ Requested \subseteq {"active", "paused", "reducing", "halted"}
    /\ Expiring \subseteq Proposals \X Keys
    /\ InitCash \in Nat
    /\ InitPosition \in Nat
    /\ MaxPlans \in Nat

VARIABLES
    control,        \* latest execution-control state
    lapsed,         \* approvals whose expiresAt has passed
    account,        \* the paper_accounts row
    events,         \* paper_account_events of type paper_order_plan
    approvals,      \* order_plan_approvals, by proposal and key
    plans,          \* paper_order_plans; the id is the index
    holds,          \* paper_reservation_holds, by proposal and key
    pc, loc         \* where each process is, and what it has read

database == <<control, lapsed, account, events, approvals, plans, holds>>
vars == <<database, pc, loc>>

ControlStates == {"active", "paused", "reducing", "halted"}
LiveStatuses == {"planned", "simulating", "partially_filled", "filled", "reconciled"}
PlanStatuses == LiveStatuses \cup {"blocked", "reconciliation_failed"}

Approval == [status: {"none", "active", "consumed"},
             seq: Nat, cash: Int, position: Int]
NoApproval == [status |-> "none", seq |-> 0, cash |-> 0, position |-> 0]

Plan == [proposal: Proposals, key: Keys, status: PlanStatuses,
         cashBefore: Int, cashAfter: Int]
Hold == [status: {"none", "reserved", "consumed", "released"},
         cash: Nat, sell: Nat, plan: Nat]
NoHold == [status |-> "none", cash |-> 0, sell |-> 0, plan |-> 0]

LedgerEntry == [plan: Nat, proposal: Proposals, balanceAfter: Int]
Account == [cash: Int, position: Int, lockVersion: Nat,
            latestSeq: Nat, ledger: Seq(LedgerEntry)]
Event == [plan: Nat, proposal: Proposals, cashBefore: Int, cashAfter: Int,
          positionBefore: Int, positionAfter: Int]

OpenedAccount == [cash |-> InitCash, position |-> InitPosition,
                  lockVersion |-> 0, latestSeq |-> 0, ledger |-> <<>>]

Steps == {"idle", "approve_event", "approve_save",
          "exec_account", "exec_event", "exec_approval", "exec_check",
          "exec_save_blocked", "exec_tx", "exec_tx_failed",
          "reconcile_account", "reconcile_save_account", "reconcile_save_plan"}

\* What a handler holds in its local variables: the request (proposal, key), and
\* the rows it has read.  `signed' is the proposal and the key of the approval it found.
Local == [proposal: Proposals, key: Keys, signed: Proposals \X Keys, control: ControlStates,
          account: Account, seq: Nat, approval: Approval, planId: Nat, plan: Plan]
AnyPlan == [proposal |-> CHOOSE pr \in Proposals : TRUE,
            key |-> CHOOSE k \in Keys : TRUE,
            status |-> "blocked", cashBefore |-> 0, cashAfter |-> 0]
NoLocal == [proposal |-> AnyPlan.proposal, key |-> AnyPlan.key,
            signed |-> <<AnyPlan.proposal, AnyPlan.key>>, control |-> "active",
            account |-> OpenedAccount, seq |-> 0, approval |-> NoApproval,
            planId |-> 0, plan |-> AnyPlan]

TypeOK ==
    /\ control \in ControlStates
    /\ lapsed \subseteq Proposals \X Keys
    /\ account \in Account
    /\ events \in Seq(Event)
    /\ approvals \in [Proposals -> [Keys -> Approval]]
    /\ plans \in Seq(Plan)
    /\ holds \in [Proposals -> [Keys -> Hold]]
    /\ pc \in [Procs -> Steps]
    /\ loc \in [Procs -> Local]

Init ==
    /\ control = "active"
    /\ lapsed = {}
    /\ account = OpenedAccount
    /\ events = <<>>
    /\ approvals = [pr \in Proposals |-> [k \in Keys |-> NoApproval]]
    /\ plans = <<>>
    /\ holds = [pr \in Proposals |-> [k \in Keys |-> NoHold]]
    /\ pc = [p \in Procs |-> "idle"]
    /\ loc = [p \in Procs |-> NoLocal]

-----------------------------------------------------------------------------
(* Helpers over the stored rows. *)

PlanIds == DOMAIN plans

\* findPaperOrderPlanByIdempotencyKey
HasPlanForKey(pr, k) ==
    \E i \in PlanIds : plans[i].proposal = pr /\ plans[i].key = k

\* Mutant: a filled plan is taken to be over and no longer counts as a duplicate.
NoOpenPlan(pr) ==
    \A i \in PlanIds :
        plans[i].proposal = pr => plans[i].status \notin {"planned", "simulating"}

\* noDuplicatePlan: no plan of the proposal is live; blocked and
\* reconciliation_failed plans do not count.
NoLivePlan(pr) ==
    \A i \in PlanIds : plans[i].proposal = pr => plans[i].status \notin LiveStatuses

\* findOpenPaperReservations: the rows still reserved.
OpenHolds == {h \in Proposals \X Keys : holds[h[1]][h[2]].status = "reserved"}
ReservedCash == MapThenSumSet(LAMBDA h : holds[h[1]][h[2]].cash, OpenHolds)
ReservedSell == MapThenSumSet(LAMBDA h : holds[h[1]][h[2]].sell, OpenHolds)

\* Mutants: the fee and the slippage are left out of what a buy needs; a sell is
\* taken to need nothing.
NotionalCash(pr) == IF Side[pr] = "BUY" THEN Notional[pr] ELSE 0
NothingSold(pr) == 0

\* calculatePaperBuyRequirement, calculatePaperSellRequirements
RequiredCash(pr) == IF Side[pr] = "BUY" THEN Notional[pr] + Cost[pr] ELSE 0
RequiredSell(pr) == IF Side[pr] = "SELL" THEN Notional[pr] ELSE 0

\* buildPaperReservationSnapshot: what is available is floored at zero.
AtLeastZero(n) == IF n < 0 THEN 0 ELSE n
CashSufficient(pr, acct) ==
    AtLeastZero(acct.cash - ReservedCash) >= RequiredCash(pr)
PositionsSufficient(pr, acct) ==
    AtLeastZero(acct.position - ReservedSell) >= RequiredSell(pr)

\* simulatePaperFills, to the account totals.
CashAfter(pr, acct) ==
    acct.cash - Cost[pr] + (IF Side[pr] = "SELL" THEN Notional[pr] ELSE -Notional[pr])
PositionAfter(pr, acct) ==
    acct.position + (IF Side[pr] = "SELL" THEN -Notional[pr] ELSE Notional[pr])

\* getPaperExecutionBlockedReasons is empty.  The control state, the approval and
\* the evaluation are the ones handler p read; the account, its latest event and
\* the plans are those of the moment of the check.  The approval's evaluation is
\* the one in force exactly when it was made for the account's present portfolio:
\* otherwise a new evaluation is stored, whose id the approval does not carry.
\* riskEvaluationMatchesProposal compares what is asked for, not whose row it is:
\* nothing holds the approval's proposalId or proposalHash against the proposal.
ControlPermits(state, pr) ==
    /\ state \notin {"paused", "halted"}
    /\ state = "reducing" => Side[pr] = "SELL"

\* Mutant: what the approval signed is not compared with the account's state.
ApprovalBindsAnyState(l, acct, seq) ==
    /\ l.approval.status = "active"
    /\ Content[l.signed[1]] = Content[l.proposal] /\ l.signed[2] = l.key
ApprovalBinds(l, acct, seq) ==
    /\ l.approval.status = "active"
    /\ l.signed \notin lapsed
    /\ Content[l.signed[1]] = Content[l.proposal] /\ l.signed[2] = l.key
    /\ l.approval.seq = seq
    /\ l.approval.cash = acct.cash
    /\ l.approval.position = acct.position

Permitted(l, acct, seq) ==
    /\ ApprovalBinds(l, acct, seq)
    /\ CashSufficient(l.proposal, acct)
    /\ PositionsSufficient(l.proposal, acct)
    /\ NoLivePlan(l.proposal)
    /\ ControlPermits(l.control, l.proposal)

\* Mutant: the hold records the cash still missing.
PersistShortfall(hs, pr, k) ==
    [hs EXCEPT ![pr][k] = [status |-> "reserved", cash |-> RequiredCash(pr) - account.cash,
                           sell |-> RequiredSell(pr), plan |-> 0]]
\* Mutant: the hold is left as it was.
KeepHold(hs, pr, k, id) == hs

\* persistPaperReservationHoldRecord then consumePaperReservationHoldRecord.
PersistHold(hs, pr, k) ==
    IF hs[pr][k].status # "none" THEN hs
    ELSE [hs EXCEPT ![pr][k] = [status |-> "reserved", cash |-> RequiredCash(pr),
                                sell |-> RequiredSell(pr), plan |-> 0]]
ConsumeHold(hs, pr, k, id) ==
    IF hs[pr][k].status # "reserved" THEN hs
    ELSE [hs EXCEPT ![pr][k] = [@ EXCEPT !.status = "consumed", !.plan = id]]
ReleaseHold(hs, pr, k, id) ==
    IF hs[pr][k].status # "reserved" THEN hs
    ELSE [hs EXCEPT ![pr][k] = [@ EXCEPT !.status = "released", !.plan = id]]

BlockedPlan(l, acct) ==
    [proposal |-> l.proposal, key |-> l.key, status |-> "blocked",
     cashBefore |-> acct.cash, cashAfter |-> acct.cash]
FilledPlan(l, acct) ==
    [proposal |-> l.proposal, key |-> l.key, status |-> "filled",
     cashBefore |-> acct.cash, cashAfter |-> CashAfter(l.proposal, acct)]

\* The handler returns or throws: its locals are gone.
Return(p) ==
    /\ pc' = [pc EXCEPT ![p] = "idle"]
    /\ loc' = [loc EXCEPT ![p] = NoLocal]

Goto(p, step, l) ==
    /\ pc' = [pc EXCEPT ![p] = step]
    /\ loc' = [loc EXCEPT ![p] = l]

-----------------------------------------------------------------------------
(* Execution control: each update inserts the row every later read returns. *)

\* updateExecutionControlState, tripKillSwitch: in any process, whatever the others do.
UpdateControl(state) ==
    /\ state # control
    /\ control' = state
    /\ UNCHANGED <<lapsed, account, events, approvals, plans, holds, pc, loc>>

\* Time passes an approval's optional expiresAt.
Lapse(pr, k) ==
    /\ approvals[pr][k].status = "active"
    /\ <<pr, k>> \notin lapsed
    /\ lapsed' = lapsed \cup {<<pr, k>>}
    /\ UNCHANGED <<control, account, events, approvals, plans, holds, pc, loc>>

-----------------------------------------------------------------------------
(* createOrderPlanApproval *)

\* findOrderPlanApprovalByIdempotencyKey finds a row: the request is a replay, or it is
\* refused because it asks for something else.  Nothing is written.
Approved(pr, k) == approvals[pr][k].status # "none"

ApproveReadAccount(p, pr, k) ==
    /\ pc[p] = "idle"
    /\ ~Approved(pr, k)
    /\ Goto(p, "approve_event",
            [NoLocal EXCEPT !.proposal = pr, !.key = k, !.account = account])
    /\ UNCHANGED database

ApproveReadEvent(p) ==
    /\ pc[p] = "approve_event"
    /\ Goto(p, "approve_save", [loc[p] EXCEPT !.seq = Len(events)])
    /\ UNCHANGED database

\* The evaluation was made for the portfolio read first, the event hash that is
\* signed was read after it.  (proposalId, idempotencyKey) is unique, so an insert
\* that lost the race throws.
ApproveSave(p) ==
    /\ pc[p] = "approve_save"
    /\ LET l == loc[p]
       IN  approvals' =
             IF approvals[l.proposal][l.key].status # "none" THEN approvals
             ELSE [approvals EXCEPT ![l.proposal][l.key] =
                     [status |-> "active", seq |-> l.seq,
                      cash |-> l.account.cash, position |-> l.account.position]]
    /\ Return(p)
    /\ UNCHANGED <<control, lapsed, account, events, plans, holds>>

\* The risk gate does not answer ALLOW, or the expected event hash is not the
\* latest: the request is refused.
ApproveRefuse(p) ==
    /\ pc[p] = "approve_save"
    /\ Return(p)
    /\ UNCHANGED database

-----------------------------------------------------------------------------
(* paperExecuteProposal: the reads outside the transaction *)

ExecReadControl(p, pr) ==
    /\ pc[p] = "idle"
    /\ Len(plans) < MaxPlans
    /\ Goto(p, "exec_account", [NoLocal EXCEPT !.proposal = pr, !.control = control])
    /\ UNCHANGED database

ExecReadAccount(p) ==
    /\ pc[p] = "exec_account"
    /\ Goto(p, "exec_event", [loc[p] EXCEPT !.account = account])
    /\ UNCHANGED database

ExecReadEvent(p) ==
    /\ pc[p] = "exec_event"
    /\ Goto(p, "exec_approval", [loc[p] EXCEPT !.seq = Len(events)])
    /\ UNCHANGED database

\* findOrderPlanApprovalForPaperExecution: by the requested id, in whatever status and
\* of whatever proposal, or the active approval of the proposal and the requested key.
ApprovalFound(p) ==
    \E k \in Keys, signed \in Proposals \X Keys :
       /\ approvals[signed[1]][signed[2]].status # "none"
       /\ Goto(p, "exec_check", [loc[p] EXCEPT !.key = k, !.signed = signed,
                                              !.approval = approvals[signed[1]][signed[2]]])

\* With neither, the plan's key is the requested one or the default made from the
\* evaluation's id.
NoApprovalFound(p) ==
    \E k \in Keys :
       Goto(p, "exec_check", [loc[p] EXCEPT !.key = k, !.approval = NoApproval])

ExecReadApproval(p) ==
    /\ pc[p] = "exec_approval"
    /\ ApprovalFound(p) \/ NoApprovalFound(p)
    /\ UNCHANGED database

\* A plan already stored under the key is returned, whatever its status.
ExecReplay(p) ==
    /\ pc[p] = "exec_check"
    /\ HasPlanForKey(loc[p].proposal, loc[p].key)
    /\ Return(p)
    /\ UNCHANGED database

ExecDecide(p) ==
    /\ pc[p] = "exec_check"
    /\ ~HasPlanForKey(loc[p].proposal, loc[p].key)
    /\ Goto(p, IF Permitted(loc[p], loc[p].account, loc[p].seq)
               THEN "exec_tx" ELSE "exec_save_blocked", loc[p])
    /\ UNCHANGED database

\* (proposalId, idempotencyKey) is unique, so an insert that lost the race throws.
ExecSaveBlocked(p) ==
    /\ pc[p] = "exec_save_blocked"
    /\ Len(plans) < MaxPlans
    /\ LET l == loc[p]
       IN  plans' = IF HasPlanForKey(l.proposal, l.key) THEN plans
                    ELSE Append(plans, BlockedPlan(l, l.account))
    /\ Return(p)
    /\ UNCHANGED <<control, lapsed, account, events, approvals, holds>>

-----------------------------------------------------------------------------
(* paperExecuteProposalWithAccountCriticalSection: one SERIALIZABLE transaction *)

\* claimPaperAccountVersion: UPDATE ... WHERE lockVersion = the one read outside.
ClaimWins(p) == account.lockVersion = loc[p].account.lockVersion
ClaimedAccount == [account EXCEPT !.lockVersion = @ + 1]

\* The claim updates no row: the handler throws before any plan exists.
TxClaimLost(p) ==
    /\ pc[p] = "exec_tx"
    /\ ~ClaimWins(p)
    /\ Return(p)
    /\ UNCHANGED database

\* The plan of this key appeared since the check: it is returned, and the claim stays.
TxReplay(p) ==
    /\ pc[p] = "exec_tx"
    /\ ClaimWins(p)
    /\ HasPlanForKey(loc[p].proposal, loc[p].key)
    /\ account' = ClaimedAccount
    /\ Return(p)
    /\ UNCHANGED <<control, lapsed, events, approvals, plans, holds>>

TxDecides(p) ==
    /\ pc[p] = "exec_tx"
    /\ ClaimWins(p)
    /\ ~HasPlanForKey(loc[p].proposal, loc[p].key)
    /\ Len(plans) < MaxPlans

TxBlocked(p) ==
    /\ TxDecides(p)
    /\ ~Permitted(loc[p], account, Len(events))
    /\ account' = ClaimedAccount
    /\ plans' = Append(plans, BlockedPlan(loc[p], account))
    /\ Return(p)
    /\ UNCHANGED <<control, lapsed, events, approvals, holds>>

\* Mutant: the account keeps the pointer to the event before this one.
AppliedAccountOldEvent(pr, id) ==
    [cash |-> CashAfter(pr, account), position |-> PositionAfter(pr, account),
     lockVersion |-> account.lockVersion + 1,
     latestSeq |-> account.latestSeq,
     ledger |-> Append(account.ledger,
                       [plan |-> id, proposal |-> pr,
                        balanceAfter |-> CashAfter(pr, account)])]

\* applyPaperPlanToAccount and appendPaperAccountEventAndUpdateAccount
AppliedAccount(pr, id) ==
    [cash |-> CashAfter(pr, account), position |-> PositionAfter(pr, account),
     lockVersion |-> account.lockVersion + 1,
     latestSeq |-> Len(events) + 1,
     ledger |-> Append(account.ledger,
                       [plan |-> id, proposal |-> pr,
                        balanceAfter |-> CashAfter(pr, account)])]

\* Mutant: the event records the balance before the fee.
AppliedEventGross(pr, id) ==
    [plan |-> id, proposal |-> pr,
     cashBefore |-> account.cash, cashAfter |-> CashAfter(pr, account) + Cost[pr],
     positionBefore |-> account.position, positionAfter |-> PositionAfter(pr, account)]

AppliedEvent(pr, id) ==
    [plan |-> id, proposal |-> pr,
     cashBefore |-> account.cash, cashAfter |-> CashAfter(pr, account),
     positionBefore |-> account.position, positionAfter |-> PositionAfter(pr, account)]

\* finalizePaperOrderPlanWithRepositories: hold, plan, account, event and approval
\* commit together.
TxFill(p) ==
    /\ TxDecides(p)
    /\ Permitted(loc[p], account, Len(events))
    /\ LET pr == loc[p].proposal
           k  == loc[p].key
           id == Len(plans) + 1
           paid == loc[p].signed
       IN  /\ holds' = ConsumeHold(PersistHold(holds, pr, k), pr, k, id)
           /\ plans' = Append(plans, FilledPlan(loc[p], account))
           /\ account' = AppliedAccount(pr, id)
           /\ events' = Append(events, AppliedEvent(pr, id))
           /\ approvals' = [approvals EXCEPT ![paid[1]][paid[2]].status = "consumed"]
    /\ Return(p)
    /\ UNCHANGED <<control, lapsed>>

\* The transaction fails after the plan was inserted and rolls back, and with it the
\* AUTOINCREMENT counter: the plan object keeps an id the next insert will be given.
TxRollback(p) ==
    /\ TxMayFail
    /\ TxDecides(p)
    /\ Goto(p, "exec_tx_failed",
            [loc[p] EXCEPT !.planId = Len(plans) + 1,
                           !.plan = BlockedPlan(loc[p], account)])
    /\ UNCHANGED database

\* blockPaperOrderPlanAfterApplyFailure: save(plan) updates the row that has the id
\* by now, or inserts it.  A second row of the same key makes it throw.
BlockAfterFailure(p) ==
    /\ pc[p] = "exec_tx_failed"
    /\ LET l == loc[p]
           taken == \E i \in PlanIds \ {l.planId} :
                        plans[i].proposal = l.proposal /\ plans[i].key = l.key
       IN  /\ holds' = ReleaseHold(holds, l.proposal, l.key, l.planId)
           /\ plans' = CASE taken -> plans
                         [] ~taken /\ l.planId \in PlanIds ->
                                [plans EXCEPT ![l.planId] = l.plan]
                         [] OTHER -> Append(plans, l.plan)
    /\ Return(p)
    /\ UNCHANGED <<control, lapsed, account, events, approvals>>

-----------------------------------------------------------------------------
(* reconcilePaperOrderPlan *)

\* A blocked plan is returned as it is.
ReconcileReadPlan(p, id) ==
    /\ pc[p] = "idle"
    /\ plans[id].status # "blocked"
    /\ Goto(p, "reconcile_account",
            [NoLocal EXCEPT !.planId = id, !.plan = plans[id]])
    /\ UNCHANGED database

\* Mutant: a plan is reconciled against the account's balance of today.
CurrentCash(plan, acct) == acct.cash

\* buildPlanScopedActualsFromAccount: the balance of the last ledger entry of the
\* plan's fills, whose ids name the proposal; the starting cash if there is none.
ActualCash(plan, acct) ==
    LET mine == {i \in DOMAIN acct.ledger : acct.ledger[i].proposal = plan.proposal}
    IN  IF mine = {} THEN plan.cashBefore
        ELSE acct.ledger[CHOOSE i \in mine : \A j \in mine : j <= i].balanceAfter

Reconciled(plan, acct) ==
    [plan EXCEPT !.status = IF ActualCash(plan, acct) = plan.cashAfter
                            THEN "reconciled" ELSE "reconciliation_failed"]

ReconcileReadAccount(p) ==
    /\ pc[p] = "reconcile_account"
    /\ Goto(p, "reconcile_save_account",
            [loc[p] EXCEPT !.account = account, !.plan = Reconciled(@, account)])
    /\ UNCHANGED database

\* save(paperAccount) writes back every column that differs from the row now stored,
\* so the row becomes the one read earlier.
ReconcileSaveAccount(p) ==
    /\ pc[p] = "reconcile_save_account"
    /\ account' = loc[p].account
    /\ Goto(p, "reconcile_save_plan", loc[p])
    /\ UNCHANGED <<control, lapsed, events, approvals, plans, holds>>

ReconcileSavePlan(p) ==
    /\ pc[p] = "reconcile_save_plan"
    /\ plans' = [plans EXCEPT ![loc[p].planId] = loc[p].plan]
    /\ Return(p)
    /\ UNCHANGED <<control, lapsed, account, events, approvals, holds>>

-----------------------------------------------------------------------------

\* A process stops, or its handler throws on a database error outside a transaction.
Crash(p) ==
    /\ MayCrash
    /\ pc[p] # "idle"
    /\ Return(p)
    /\ UNCHANGED database

Approve(p) ==
    \/ \E pr \in Proposals, k \in Keys : ApproveReadAccount(p, pr, k)
    \/ ApproveReadEvent(p)
    \/ ApproveSave(p)
    \/ ApproveRefuse(p)

Execute(p) ==
    \/ \E pr \in Proposals : ExecReadControl(p, pr)
    \/ ExecReadAccount(p)
    \/ ExecReadEvent(p)
    \/ ExecReadApproval(p)
    \/ ExecReplay(p)
    \/ ExecDecide(p)
    \/ ExecSaveBlocked(p)
    \/ TxClaimLost(p)
    \/ TxReplay(p)
    \/ TxBlocked(p)
    \/ TxFill(p)
    \/ TxRollback(p)
    \/ BlockAfterFailure(p)

Reconcile(p) ==
    \/ p \in Reconcilers /\ \E id \in PlanIds : ReconcileReadPlan(p, id)
    \/ ReconcileReadAccount(p)
    \/ ReconcileSaveAccount(p)
    \/ ReconcileSavePlan(p)

Next ==
    \/ \E state \in Requested : UpdateControl(state)
    \/ \E e \in Expiring : Lapse(e[1], e[2])
    \/ \E p \in Procs : Approve(p) \/ Execute(p) \/ Reconcile(p) \/ Crash(p)

Spec == Init /\ [][Next]_vars

-----------------------------------------------------------------------------
(* Properties *)

\* A proposal is never filled under two plans at once, whatever keys, approvals and
\* processes compete for it (noDuplicatePlan is checked before and inside the
\* transaction, the keys of the two plans may differ).
SingleLivePlan ==
    \A i, j \in PlanIds :
        /\ plans[i].proposal = plans[j].proposal
        /\ plans[i].status \in LiveStatuses
        /\ plans[j].status \in LiveStatuses
        => i = j

PlanOf(n) == plans[events[n].plan]

\* The approval that paid for event n: of a proposal that asks for the same, under the
\* key of the plan, for the account as event n - 1 left it.
Pays(a, n) ==
    /\ approvals[a[1]][a[2]].status = "consumed" /\ approvals[a[1]][a[2]].seq = n - 1
    /\ Content[a[1]] = Content[events[n].proposal] /\ a[2] = PlanOf(n).key

FillsSigned ==
    \A n \in DOMAIN events :
        /\ events[n].plan \in PlanIds
        /\ PlanOf(n).proposal = events[n].proposal
        /\ \E a \in Proposals \X Keys : Pays(a, n)

ApprovalsPayOnce ==
    \A a \in Proposals \X Keys :
        approvals[a[1]][a[2]].status = "consumed" =>
            /\ approvals[a[1]][a[2]].seq + 1 \in DOMAIN events
            /\ Pays(a, approvals[a[1]][a[2]].seq + 1)
            /\ \A b \in Proposals \X Keys : Pays(b, approvals[a[1]][a[2]].seq + 1) => b = a

PlansFillOnce ==
    \A m, n \in DOMAIN events : events[m].plan = events[n].plan => m = n

\* Custody: every fill was paid for by exactly one approval, which was signed for a
\* proposal that asks for the same, under the key of its plan and over the account as the
\* event before left it; an approval is consumed by the one fill it paid for, and a plan
\* is filled once.  (That the approval was signed for the proposal itself is not so: it
\* may be a copy's.)
SignedCustody == FillsSigned /\ ApprovalsPayOnce /\ PlansFillOnce

\* The book an operator sees, read off the event log.
BookCash == IF events = <<>> THEN InitCash ELSE events[Len(events)].cashAfter
BookPosition == IF events = <<>> THEN InitPosition ELSE events[Len(events)].positionAfter
BookFilled == {events[n].proposal : n \in DOMAIN events}

\* The account row is the projection of the event log: cash, position, latest
\* sequence and applied plans are those the events say.
AccountIsProjection ==
    /\ account.latestSeq = Len(events)
    /\ Len(account.ledger) = Len(events)
    /\ \A n \in DOMAIN events : account.ledger[n].plan = events[n].plan
    /\ account.cash = BookCash
    /\ account.position = BookPosition

\* Every event starts from the balances the previous one left.
EventsContinuous ==
    \A n \in DOMAIN events :
        /\ events[n].cashBefore = IF n = 1 THEN InitCash ELSE events[n - 1].cashAfter
        /\ events[n].positionBefore =
              IF n = 1 THEN InitPosition ELSE events[n - 1].positionAfter

\* No fill spends cash or sells a position the account does not have, fee and
\* slippage included.
NeverOverdrawn ==
    /\ account.cash >= 0 /\ account.position >= 0
    /\ \A n \in DOMAIN events : events[n].cashAfter >= 0 /\ events[n].positionAfter >= 0

\* A plan whose fill is in the log stays a live plan: it is not blocked, given back
\* or found unreconciled afterwards, so the proposal cannot be filled again.
AppliedPlansStayLive ==
    \A n \in DOMAIN events :
        /\ events[n].plan \in PlanIds
        /\ PlanOf(n).proposal = events[n].proposal
        /\ PlanOf(n).status \in LiveStatuses

\* No hold outlives the execution that made it: what is stored is consumed by the
\* plan of its proposal and key, and holds nothing back from later executions.
HoldsSettled ==
    \A pr \in Proposals, k \in Keys :
        LET h == holds[pr][k]
        IN  /\ h.status # "reserved"
            /\ h.status = "consumed" =>
                  /\ h.plan \in PlanIds
                  /\ plans[h.plan].proposal = pr /\ plans[h.plan].key = k
                  /\ \E n \in DOMAIN events : events[n].plan = h.plan

\* docs/api/02: "`paused` and `halted` block paper execution."  A fill commits only while
\* the stored execution-control state permits it.
FillObeysControl ==
    [][\A n \in DOMAIN events' \ DOMAIN events :
           ControlPermits(control, events'[n].proposal)]_vars

Ledger == INSTANCE PaperLedger
            WITH cash <- BookCash, position <- BookPosition, filled <- BookFilled

\* Every step of every process is a fill of the book or leaves it alone: no proposal
\* is filled twice or beyond the book's means, whatever interleaves.
ImplementsLedger == Ledger!Book

=============================================================================
