------------------------ MODULE PaperExecutionProofs ------------------------
(***************************************************************************)
(* What TLAPS proves of PaperExecution, for every number of processes,     *)
(* proposals, keys, plans and amounts.                                     *)
(***************************************************************************)
EXTENDS PaperExecution, SequenceTheorems, TLAPS

-----------------------------------------------------------------------------
(* Types *)

LEMMA NullRows ==
    /\ NoApproval \in Approval
    /\ NoHold \in Hold
    /\ OpenedAccount \in Account
    /\ AnyPlan \in Plan
    /\ NoLocal \in Local
<1>1. NoApproval \in Approval BY DEF NoApproval, Approval
<1>2. NoHold \in Hold BY DEF NoHold, Hold
<1>3. OpenedAccount \in Account
  BY DeploymentAssumption DEF OpenedAccount, Account
<1>4. AnyPlan \in Plan
  BY ProposalAssumption DEF AnyPlan, Plan, PlanStatuses
<1>5. NoLocal \in Local
  <2>1. NoLocal.proposal \in Proposals /\ NoLocal.key \in Keys
    BY <1>4 DEF NoLocal, Plan
  <2> QED BY <1>1, <1>3, <1>4, <2>1 DEF NoLocal, Local, ControlStates, Plan
<1> QED BY <1>1, <1>2, <1>3, <1>4, <1>5

LEMMA ReturnType ==
    ASSUME TypeOK, NEW p \in Procs, Return(p)
    PROVE  pc' \in [Procs -> Steps] /\ loc' \in [Procs -> Local]
BY NullRows DEF TypeOK, Return, Steps

LEMMA GotoType ==
    ASSUME TypeOK, NEW p \in Procs, NEW step \in Steps, NEW l \in Local,
           Goto(p, step, l)
    PROVE  pc' \in [Procs -> Steps] /\ loc' \in [Procs -> Local]
BY DEF TypeOK, Goto

LEMMA Amounts ==
    ASSUME NEW pr \in Proposals, NEW acct \in Account
    PROVE  /\ RequiredCash(pr) \in Nat
           /\ RequiredSell(pr) \in Nat
           /\ CashAfter(pr, acct) \in Int
           /\ PositionAfter(pr, acct) \in Int
BY ProposalAssumption
   DEF RequiredCash, RequiredSell, CashAfter, PositionAfter, Account

(* Rows and locals that an update leaves in their types *)

LEMMA ClaimType ==
    ASSUME account \in Account
    PROVE  ClaimedAccount \in Account
BY DEF ClaimedAccount, Account

LEMMA SeqReadType ==
    ASSUME NEW l \in Local, events \in Seq(Event)
    PROVE  [l EXCEPT !.seq = Len(events)] \in Local
<1>1. Len(events) \in Nat
  OBVIOUS
<1> QED BY <1>1 DEF Local

LEMMA PlanReadType ==
    ASSUME NEW l \in Local, NEW id \in Nat, NEW pl \in Plan
    PROVE  [l EXCEPT !.planId = id, !.plan = pl] \in Local
BY DEF Local

LEMMA ReconciledType ==
    ASSUME NEW pl \in Plan, NEW acct
    PROVE  Reconciled(pl, acct) \in Plan
BY DEF Reconciled, Plan, PlanStatuses, LiveStatuses

LEMMA HoldTypes ==
    ASSUME NEW hs \in [Proposals -> [Keys -> Hold]],
           NEW pr \in Proposals, NEW k \in Keys, NEW id \in Nat
    PROVE  /\ PersistHold(hs, pr, k) \in [Proposals -> [Keys -> Hold]]
           /\ ConsumeHold(hs, pr, k, id) \in [Proposals -> [Keys -> Hold]]
           /\ ReleaseHold(hs, pr, k, id) \in [Proposals -> [Keys -> Hold]]
<1>1. hs[pr][k] \in Hold
  OBVIOUS
<1>2. [status |-> "reserved", cash |-> RequiredCash(pr), sell |-> RequiredSell(pr),
       plan |-> 0] \in Hold
  BY ProposalAssumption DEF RequiredCash, RequiredSell, Hold
<1>3. /\ [hs[pr][k] EXCEPT !.status = "consumed", !.plan = id] \in Hold
      /\ [hs[pr][k] EXCEPT !.status = "released", !.plan = id] \in Hold
  BY <1>1 DEF Hold
<1>4. PersistHold(hs, pr, k) \in [Proposals -> [Keys -> Hold]]
  BY <1>2 DEF PersistHold
<1>5. ConsumeHold(hs, pr, k, id) \in [Proposals -> [Keys -> Hold]]
  BY <1>3 DEF ConsumeHold
<1>6. ReleaseHold(hs, pr, k, id) \in [Proposals -> [Keys -> Hold]]
  BY <1>3 DEF ReleaseHold
<1> QED BY <1>4, <1>5, <1>6

LEMMA ConsumedApprovalType ==
    ASSUME NEW as \in [Proposals -> [Keys -> Approval]],
           NEW pr \in Proposals, NEW k \in Keys
    PROVE  [as EXCEPT ![pr][k].status = "consumed"] \in [Proposals -> [Keys -> Approval]]
<1>1. as[pr][k] \in Approval
  OBVIOUS
<1>2. [as[pr][k] EXCEPT !.status = "consumed"] \in Approval
  BY <1>1 DEF Approval
<1> QED BY <1>2

LEMMA SavePlanType ==
    ASSUME NEW pls \in Seq(Plan), NEW id \in Nat, NEW pl \in Plan
    PROVE  /\ [pls EXCEPT ![id] = pl] \in Seq(Plan)
           /\ Len([pls EXCEPT ![id] = pl]) = Len(pls)
<1>1. CASE id \in 1 .. Len(pls)
  BY <1>1, ExceptSeq
<1>2. CASE id \notin 1 .. Len(pls)
  <2>1. [pls EXCEPT ![id] = pl] = pls
    BY <1>2
  <2> QED BY <2>1
<1> QED BY <1>1, <1>2

LEMMA TypeInit == Init => TypeOK
BY NullRows DEF Init, TypeOK, ControlStates, Steps

LEMMA TypeStep == TypeOK /\ [Next]_vars => TypeOK'
<1> SUFFICES ASSUME TypeOK, [Next]_vars PROVE TypeOK'
  OBVIOUS
<1> USE DEF TypeOK
<1>1. CASE UNCHANGED vars
  BY <1>1 DEF vars, database
<1>2. ASSUME NEW state \in Requested, UpdateControl(state)
      PROVE  TypeOK'
  BY <1>2, DeploymentAssumption DEF UpdateControl, ControlStates
<1>3. ASSUME NEW e \in Expiring, Lapse(e[1], e[2])
      PROVE  TypeOK'
  BY <1>3, DeploymentAssumption DEF Lapse
<1>4. ASSUME NEW p \in Procs, NEW pr \in Proposals, NEW k \in Keys,
             ApproveReadAccount(p, pr, k)
      PROVE  TypeOK'
  <2>1. [NoLocal EXCEPT !.proposal = pr, !.key = k, !.account = account] \in Local
    BY NullRows DEF Local
  <2> QED BY <1>4, <2>1, GotoType DEF ApproveReadAccount, Steps, database
<1>5. ASSUME NEW p \in Procs, ApproveReadEvent(p)
      PROVE  TypeOK'
  <2>1. [loc[p] EXCEPT !.seq = Len(events)] \in Local
    BY SeqReadType
  <2> QED BY <1>5, <2>1, GotoType DEF ApproveReadEvent, Steps, database
<1>6. ASSUME NEW p \in Procs, ApproveSave(p)
      PROVE  TypeOK'
  <2>1. loc[p] \in Local
    OBVIOUS
  <2>2. [status |-> "active", seq |-> loc[p].seq, cash |-> loc[p].account.cash,
         position |-> loc[p].account.position] \in Approval
    BY <2>1 DEF Local, Account, Approval
  <2>3. approvals' \in [Proposals -> [Keys -> Approval]]
    BY <1>6, <2>1, <2>2 DEF ApproveSave, Local
  <2> QED BY <1>6, <2>3, ReturnType DEF ApproveSave
<1>7. ASSUME NEW p \in Procs, ApproveRefuse(p)
      PROVE  TypeOK'
  BY <1>7, ReturnType DEF ApproveRefuse, database
<1>8. ASSUME NEW p \in Procs, NEW pr \in Proposals, ExecReadControl(p, pr)
      PROVE  TypeOK'
  <2>1. [NoLocal EXCEPT !.proposal = pr, !.control = control] \in Local
    BY NullRows DEF Local
  <2> QED BY <1>8, <2>1, GotoType DEF ExecReadControl, Steps, database
<1>9. ASSUME NEW p \in Procs, ExecReadAccount(p)
      PROVE  TypeOK'
  <2>1. [loc[p] EXCEPT !.account = account] \in Local
    BY DEF Local
  <2> QED BY <1>9, <2>1, GotoType DEF ExecReadAccount, Steps, database
<1>10. ASSUME NEW p \in Procs, ExecReadEvent(p)
       PROVE  TypeOK'
  <2>1. [loc[p] EXCEPT !.seq = Len(events)] \in Local
    BY SeqReadType
  <2> QED BY <1>10, <2>1, GotoType DEF ExecReadEvent, Steps, database
<1>11. ASSUME NEW p \in Procs, ExecReadApproval(p)
       PROVE  TypeOK'
  <2>1. CASE ApprovalFound(p)
    <3>1. PICK k \in Keys, signed \in Proposals \X Keys :
            Goto(p, "exec_check", [loc[p] EXCEPT !.key = k, !.signed = signed,
                                                 !.approval = approvals[signed[1]][signed[2]]])
      BY <2>1 DEF ApprovalFound
    <3>2. approvals[signed[1]][signed[2]] \in Approval
      OBVIOUS
    <3>3. [loc[p] EXCEPT !.key = k, !.signed = signed,
                         !.approval = approvals[signed[1]][signed[2]]] \in Local
      BY <3>2 DEF Local
    <3> QED BY <1>11, <3>1, <3>3, GotoType DEF ExecReadApproval, Steps, database
  <2>2. CASE NoApprovalFound(p)
    <3>1. PICK k \in Keys :
            Goto(p, "exec_check", [loc[p] EXCEPT !.key = k, !.approval = NoApproval])
      BY <2>2 DEF NoApprovalFound
    <3>2. [loc[p] EXCEPT !.key = k, !.approval = NoApproval] \in Local
      BY NullRows DEF Local
    <3> QED BY <1>11, <3>1, <3>2, GotoType DEF ExecReadApproval, Steps, database
  <2> QED BY <1>11, <2>1, <2>2 DEF ExecReadApproval
<1>12. ASSUME NEW p \in Procs, ExecReplay(p)
       PROVE  TypeOK'
  BY <1>12, ReturnType DEF ExecReplay, database
<1>13. ASSUME NEW p \in Procs, ExecDecide(p)
       PROVE  TypeOK'
  <2>1. loc[p] \in Local
    OBVIOUS
  <2> QED BY <1>13, <2>1, GotoType DEF ExecDecide, Steps, database
<1>14. ASSUME NEW p \in Procs, ExecSaveBlocked(p)
       PROVE  TypeOK'
  <2>1. BlockedPlan(loc[p], loc[p].account) \in Plan
    BY DEF BlockedPlan, Local, Account, Plan, PlanStatuses
  <2>2. plans' \in Seq(Plan)
    BY <1>14, <2>1 DEF ExecSaveBlocked
  <2> QED BY <1>14, <2>2, ReturnType DEF ExecSaveBlocked
<1>15. ASSUME NEW p \in Procs, TxClaimLost(p)
       PROVE  TypeOK'
  BY <1>15, ReturnType DEF TxClaimLost, database
<1>16. ClaimedAccount \in Account
  BY ClaimType
<1>17. ASSUME NEW p \in Procs, TxReplay(p)
       PROVE  TypeOK'
  BY <1>16, <1>17, ReturnType DEF TxReplay
<1>18. ASSUME NEW p \in Procs, TxBlocked(p)
       PROVE  TypeOK'
  <2>1. BlockedPlan(loc[p], account) \in Plan
    BY DEF BlockedPlan, Local, Account, Plan, PlanStatuses
  <2>2. plans' \in Seq(Plan)
    BY <1>18, <2>1 DEF TxBlocked
  <2> QED BY <1>16, <1>18, <2>2, ReturnType DEF TxBlocked
<1>19. ASSUME NEW p \in Procs, TxFill(p)
       PROVE  TypeOK'
  <2> DEFINE pr == loc[p].proposal
             k  == loc[p].key
             id == Len(plans) + 1
  <2>1. /\ pr \in Proposals /\ k \in Keys /\ id \in Nat
        /\ loc[p].signed[1] \in Proposals /\ loc[p].signed[2] \in Keys
    BY DEF Local
  <2>2. CashAfter(pr, account) \in Int /\ PositionAfter(pr, account) \in Int
    BY <2>1, Amounts
  <2>4. holds' \in [Proposals -> [Keys -> Hold]]
    <3>1. ConsumeHold(PersistHold(holds, pr, k), pr, k, id)
             \in [Proposals -> [Keys -> Hold]]
      BY <2>1, HoldTypes
    <3> QED BY <1>19, <3>1 DEF TxFill
  <2>5. plans' \in Seq(Plan)
    <3>1. FilledPlan(loc[p], account) \in Plan
      BY <2>1, <2>2 DEF FilledPlan, Account, Plan, PlanStatuses, LiveStatuses
    <3> QED BY <1>19, <3>1 DEF TxFill
  <2>6. account' \in Account
    <3>1. [plan |-> id, proposal |-> pr, balanceAfter |-> CashAfter(pr, account)]
            \in LedgerEntry
      BY <2>1, <2>2 DEF LedgerEntry
    <3>2. AppliedAccount(pr, id) \in Account
      BY <2>1, <2>2, <3>1 DEF AppliedAccount, Account
    <3> QED BY <1>19, <3>2 DEF TxFill
  <2>7. events' \in Seq(Event)
    <3>1. AppliedEvent(pr, id) \in Event
      BY <2>1, <2>2 DEF AppliedEvent, Account, Event
    <3> QED BY <1>19, <3>1 DEF TxFill
  <2>8. approvals' \in [Proposals -> [Keys -> Approval]]
    BY <1>19, <2>1, ConsumedApprovalType DEF TxFill
  <2> QED BY <1>19, <2>4, <2>5, <2>6, <2>7, <2>8, ReturnType DEF TxFill
<1>20. ASSUME NEW p \in Procs, TxRollback(p)
       PROVE  TypeOK'
  <2>1. BlockedPlan(loc[p], account) \in Plan
    BY DEF BlockedPlan, Local, Account, Plan, PlanStatuses
  <2>2. [loc[p] EXCEPT !.planId = Len(plans) + 1,
                       !.plan = BlockedPlan(loc[p], account)] \in Local
    <3>1. loc[p] \in Local /\ Len(plans) + 1 \in Nat
      OBVIOUS
    <3> QED BY <2>1, <3>1, PlanReadType
  <2> QED BY <1>20, <2>2, GotoType DEF TxRollback, Steps, database
<1>21. ASSUME NEW p \in Procs, BlockAfterFailure(p)
       PROVE  TypeOK'
  <2>1. loc[p] \in Local
    OBVIOUS
  <2>2. holds' \in [Proposals -> [Keys -> Hold]]
    <3>1. ReleaseHold(holds, loc[p].proposal, loc[p].key, loc[p].planId)
             \in [Proposals -> [Keys -> Hold]]
      BY <2>1, HoldTypes DEF Local
    <3> QED BY <1>21, <3>1 DEF BlockAfterFailure
  <2>3. plans' \in Seq(Plan)
    <3>1. \/ plans' = plans
          \/ loc[p].planId \in PlanIds /\ plans' = [plans EXCEPT ![loc[p].planId] = loc[p].plan]
          \/ plans' = Append(plans, loc[p].plan)
      BY <1>21 DEF BlockAfterFailure
    <3>2. loc[p].planId \in Nat /\ loc[p].plan \in Plan
      BY <2>1 DEF Local
    <3> QED BY <3>1, <3>2, SavePlanType
  <2> QED BY <1>21, <2>2, <2>3, ReturnType DEF BlockAfterFailure
<1>22. ASSUME NEW p \in Procs, NEW id \in PlanIds, ReconcileReadPlan(p, id)
       PROVE  TypeOK'
  <2>1. [NoLocal EXCEPT !.planId = id, !.plan = plans[id]] \in Local
    <3>1. id \in Nat /\ plans[id] \in Plan
      BY DEF PlanIds
    <3> QED BY <3>1, NullRows, PlanReadType
  <2> QED BY <1>22, <2>1, GotoType DEF ReconcileReadPlan, Steps, database
<1>23. ASSUME NEW p \in Procs, ReconcileReadAccount(p)
       PROVE  TypeOK'
  <2>1. loc[p] \in Local /\ Reconciled(loc[p].plan, account) \in Plan
    BY ReconciledType DEF Local
  <2>2. [loc[p] EXCEPT !.account = account, !.plan = Reconciled(@, account)] \in Local
    BY <2>1 DEF Local
  <2> QED BY <1>23, <2>2, GotoType DEF ReconcileReadAccount, Steps, database
<1>24. ASSUME NEW p \in Procs, ReconcileSaveAccount(p)
       PROVE  TypeOK'
  <2>1. loc[p] \in Local /\ loc[p].account \in Account
    BY DEF Local
  <2> QED BY <1>24, <2>1, GotoType DEF ReconcileSaveAccount, Steps
<1>25. ASSUME NEW p \in Procs, ReconcileSavePlan(p)
       PROVE  TypeOK'
  <2>1. loc[p].plan \in Plan /\ loc[p].planId \in Nat
    BY DEF Local
  <2>2. plans' \in Seq(Plan)
    BY <1>25, <2>1, SavePlanType DEF ReconcileSavePlan
  <2> QED BY <1>25, <2>2, ReturnType DEF ReconcileSavePlan
<1>26. ASSUME NEW p \in Procs, Crash(p)
       PROVE  TypeOK'
  BY <1>26, ReturnType DEF Crash, database
<1> QED
  BY <1>1, <1>2, <1>3, <1>4, <1>5, <1>6, <1>7, <1>8, <1>9, <1>10, <1>11, <1>12,
     <1>13, <1>14, <1>15, <1>17, <1>18, <1>19, <1>20, <1>21, <1>22, <1>23, <1>24,
     <1>25, <1>26
     DEF Next, Approve, Execute, Reconcile

\* Every reachable state is typed: ids, amounts and statuses stay in their ranges in
\* every interleaving of the handlers.
THEOREM TypeCorrect == Spec => []TypeOK
<1> QED BY TypeInit, TypeStep, PTL DEF Spec

-----------------------------------------------------------------------------
(* Custody.  A transaction that rolls back leaves a plan whose id the next  *)
(* insert is given; with other processes running, the later save of that    *)
(* plan overwrites theirs.  So custody is proved for deployments where      *)
(* transactions do not fail, or where one process does everything.          *)

SoleProcess == \A p, q \in Procs : p = q
PlanIdsSafe == TxMayFail => SoleProcess

ReconcileSteps == {"reconcile_account", "reconcile_save_account", "reconcile_save_plan"}

\* An idempotency key names one plan.
OnePlanPerKey ==
    \A i, j \in PlanIds :
        plans[i].proposal = plans[j].proposal /\ plans[i].key = plans[j].key => i = j

\* The approval that p's execution found is still stored with what it signed.
FoundApprovalStored(p) ==
    pc[p] \in {"exec_check", "exec_tx"} /\ loc[p].approval.status # "none" =>
        LET row == approvals[loc[p].signed[1]][loc[p].signed[2]]
        IN  row.status # "none" /\ row.seq = loc[p].approval.seq

\* The plan that p's transaction rolled back is to be stored as blocked, under an id
\* and a key that are still free.
RolledBackPlanFree(p) ==
    pc[p] = "exec_tx_failed" =>
        /\ TxMayFail
        /\ loc[p].planId = Len(plans) + 1
        /\ loc[p].plan.status = "blocked"
        /\ loc[p].plan.proposal = loc[p].proposal
        /\ loc[p].plan.key = loc[p].key
        /\ ~HasPlanForKey(loc[p].proposal, loc[p].key)

\* The plan that p's reconciliation will write back is a version of the stored one.
ReconciledPlanStored(p) ==
    pc[p] \in ReconcileSteps =>
        /\ loc[p].planId \in PlanIds
        /\ loc[p].plan.proposal = plans[loc[p].planId].proposal
        /\ loc[p].plan.key = plans[loc[p].planId].key

LocalInv(p) == FoundApprovalStored(p) /\ RolledBackPlanFree(p) /\ ReconciledPlanStored(p)

CustodyInv ==
    /\ TypeOK
    /\ OnePlanPerKey
    /\ \A p \in Procs : LocalInv(p)
    /\ SignedCustody

\* What every step does to the approvals and the plans: rows are added, and those
\* that are stored keep what identifies them.
RowsKept ==
    /\ \A pr \in Proposals, k \in Keys : approvals[pr][k].status # "none" =>
          /\ approvals'[pr][k].status # "none"
          /\ approvals'[pr][k].seq = approvals[pr][k].seq
    /\ \A i \in PlanIds :
          /\ i \in PlanIds'
          /\ plans'[i].proposal = plans[i].proposal
          /\ plans'[i].key = plans[i].key

LEMMA OtherLocals ==
    ASSUME TypeOK, RowsKept, NEW q \in Procs, LocalInv(q),
           pc'[q] = pc[q], loc'[q] = loc[q],
           TxMayFail => plans' = plans
    PROVE  LocalInv(q)'
<1>1. loc[q].signed[1] \in Proposals /\ loc[q].signed[2] \in Keys
  BY DEF TypeOK, Local
<1>2. FoundApprovalStored(q)'
  BY <1>1 DEF LocalInv, FoundApprovalStored, RowsKept
<1>3. RolledBackPlanFree(q)'
  BY DEF LocalInv, RolledBackPlanFree, HasPlanForKey, PlanIds
<1>4. ReconciledPlanStored(q)'
  BY DEF LocalInv, ReconciledPlanStored, RowsKept
<1> QED BY <1>2, <1>3, <1>4 DEF LocalInv

LEMMA AfterReturn ==
    ASSUME TypeOK, RowsKept, PlanIdsSafe, NEW p \in Procs, Return(p),
           \A q \in Procs : LocalInv(q)
    PROVE  \A q \in Procs : LocalInv(q)'
<1> SUFFICES ASSUME NEW q \in Procs PROVE LocalInv(q)'
  OBVIOUS
<1>1. CASE q = p
  <2>1. pc'[q] = "idle"
    BY <1>1 DEF Return, TypeOK
  <2> QED BY <2>1 DEF LocalInv, FoundApprovalStored, RolledBackPlanFree,
                      ReconciledPlanStored, ReconcileSteps
<1>2. CASE q # p
  <2>1. pc'[q] = pc[q] /\ loc'[q] = loc[q]
    BY <1>2 DEF Return, TypeOK
  <2>2. ~TxMayFail
    BY <1>2 DEF PlanIdsSafe, SoleProcess
  <2> QED BY <2>1, <2>2, OtherLocals
<1> QED BY <1>1, <1>2

LEMMA AfterGoto ==
    ASSUME TypeOK, NEW p \in Procs, NEW step, NEW l, Goto(p, step, l),
           UNCHANGED <<approvals, plans>>,
           \A q \in Procs : LocalInv(q), LocalInv(p)'
    PROVE  \A q \in Procs : LocalInv(q)'
<1> SUFFICES ASSUME NEW q \in Procs, q # p PROVE LocalInv(q)'
  OBVIOUS
<1>1. pc'[q] = pc[q] /\ loc'[q] = loc[q]
  BY DEF Goto, TypeOK
<1>2. RowsKept
  BY DEF RowsKept, PlanIds
<1> QED BY <1>1, <1>2, OtherLocals

\* A step that records no event and consumes no approval leaves who paid for what.
LEMMA CustodyKept ==
    ASSUME CustodyInv, RowsKept, UNCHANGED events,
           \A pr \in Proposals, k \in Keys :
              \/ approvals'[pr][k] = approvals[pr][k]
              \/ approvals[pr][k].status = "none" /\ approvals'[pr][k].status = "active"
    PROVE  SignedCustody'
<1>1. /\ FillsSigned /\ ApprovalsPayOnce
      /\ \A n \in DOMAIN events : events[n].plan \in PlanIds
  BY DEF CustodyInv, SignedCustody, FillsSigned
<1>2. \A n \in DOMAIN events :
        /\ events[n].plan \in PlanIds'
        /\ PlanOf(n)'.proposal = PlanOf(n).proposal /\ PlanOf(n)'.key = PlanOf(n).key
  BY <1>1 DEF RowsKept, PlanOf
<1>3. \A a \in Proposals \X Keys :
        \/ approvals'[a[1]][a[2]] = approvals[a[1]][a[2]]
        \/ /\ approvals[a[1]][a[2]].status # "consumed"
           /\ approvals'[a[1]][a[2]].status # "consumed"
  <2>1. \A a \in Proposals \X Keys : a[1] \in Proposals /\ a[2] \in Keys
    OBVIOUS
  <2> QED BY <2>1
<1>4. \A n \in DOMAIN events : \A a \in Proposals \X Keys : Pays(a, n)' <=> Pays(a, n)
  BY <1>2, <1>3 DEF Pays
<1>5. FillsSigned'
  BY <1>1, <1>2, <1>4 DEF FillsSigned
<1>6. ApprovalsPayOnce'
  BY <1>1, <1>3, <1>4 DEF ApprovalsPayOnce
<1>7. PlansFillOnce'
  BY DEF CustodyInv, SignedCustody, PlansFillOnce
<1> QED BY <1>5, <1>6, <1>7 DEF SignedCustody

LEMMA RowsUnchanged ==
    ASSUME CustodyInv, UNCHANGED <<events, approvals, plans>>
    PROVE  RowsKept /\ OnePlanPerKey' /\ SignedCustody'
<1>1. RowsKept
  BY DEF RowsKept, PlanIds
<1>2. OnePlanPerKey'
  BY DEF CustodyInv, OnePlanPerKey, PlanIds
<1> QED BY <1>1, <1>2, CustodyKept

\* Storing a plan under a free key.
LEMMA AppendPlan ==
    ASSUME CustodyInv, NEW pl \in Plan, plans' = Append(plans, pl),
           ~HasPlanForKey(pl.proposal, pl.key)
    PROVE  /\ PlanIds' = PlanIds \cup {Len(plans) + 1}
           /\ \A i \in PlanIds : plans'[i] = plans[i]
           /\ plans'[Len(plans) + 1] = pl
           /\ Len(plans) + 1 \notin PlanIds
           /\ OnePlanPerKey'
<1>1. plans \in Seq(Plan)
  BY DEF CustodyInv, TypeOK
<1>2. /\ PlanIds' = PlanIds \cup {Len(plans) + 1}
      /\ \A i \in PlanIds : plans'[i] = plans[i]
      /\ plans'[Len(plans) + 1] = pl
      /\ Len(plans) + 1 \notin PlanIds
  BY <1>1 DEF PlanIds
<1>3. OnePlanPerKey'
  <2>1. OnePlanPerKey
    BY DEF CustodyInv
  <2>2. \A i \in PlanIds : plans[i].proposal # pl.proposal \/ plans[i].key # pl.key
    BY DEF HasPlanForKey
  <2> SUFFICES ASSUME NEW i \in PlanIds', NEW j \in PlanIds',
                      plans'[i].proposal = plans'[j].proposal,
                      plans'[i].key = plans'[j].key
               PROVE  i = j
    BY DEF OnePlanPerKey
  <2> QED BY <1>2, <2>1, <2>2 DEF OnePlanPerKey
<1> QED BY <1>2, <1>3

LEMMA BlockedPlanStored ==
    ASSUME CustodyInv, NEW pl \in Plan, plans' = Append(plans, pl),
           ~HasPlanForKey(pl.proposal, pl.key), UNCHANGED <<events, approvals>>
    PROVE  RowsKept /\ OnePlanPerKey' /\ SignedCustody'
<1>1. RowsKept
  BY AppendPlan DEF RowsKept
<1> QED BY <1>1, AppendPlan, CustodyKept

LEMMA CustodyFill ==
    ASSUME CustodyInv, NEW p \in Procs, TxFill(p)
    PROVE  RowsKept /\ OnePlanPerKey' /\ SignedCustody'
<1> DEFINE pr   == loc[p].proposal
           k    == loc[p].key
           id   == Len(plans) + 1
           pl   == FilledPlan(loc[p], account)
<1>a. PICK paid \in Proposals \X Keys : paid = loc[p].signed
  BY DEF CustodyInv, TypeOK, Local
<1>b. PICK last \in Nat : last = Len(events) + 1
  BY DEF CustodyInv, TypeOK
<1>1. /\ pr \in Proposals /\ k \in Keys
      /\ paid[1] \in Proposals /\ paid[2] \in Keys
      /\ approvals \in [Proposals -> [Keys -> Approval]]
      /\ events \in Seq(Event)
      /\ account \in Account
  BY DEF CustodyInv, TypeOK, Local
<1>2. /\ pl \in Plan
      /\ pl.proposal = pr /\ pl.key = k
  BY <1>1, Amounts DEF FilledPlan, Account, Plan, PlanStatuses, LiveStatuses
<1>3. /\ plans' = Append(plans, pl)
      /\ events' = Append(events, AppliedEvent(pr, id))
      /\ ~HasPlanForKey(pr, k)
  BY DEF TxFill, TxDecides
<1>4. /\ Content[paid[1]] = Content[pr] /\ paid[2] = k
      /\ loc[p].approval.status = "active"
      /\ loc[p].approval.seq = Len(events)
      /\ approvals' = [approvals EXCEPT ![paid[1]][paid[2]].status = "consumed"]
  BY <1>a DEF TxFill, Permitted, ApprovalBinds
<1>5. approvals[paid[1]][paid[2]].status # "none" /\ approvals[paid[1]][paid[2]].seq = Len(events)
  <2>1. FoundApprovalStored(p) /\ pc[p] = "exec_tx"
    BY DEF CustodyInv, LocalInv, TxFill, TxDecides
  <2> QED BY <1>a, <1>4, <2>1 DEF FoundApprovalStored
<1>6. /\ approvals'[paid[1]][paid[2]].status = "consumed"
      /\ approvals'[paid[1]][paid[2]].seq = Len(events)
      /\ \A pr2 \in Proposals, k2 \in Keys :
            pr2 # paid[1] \/ k2 # paid[2] => approvals'[pr2][k2] = approvals[pr2][k2]
  <2>1. approvals[paid[1]][paid[2]] \in Approval
    BY <1>1
  <2>2. /\ [approvals[paid[1]][paid[2]] EXCEPT !.status = "consumed"].status = "consumed"
        /\ [approvals[paid[1]][paid[2]] EXCEPT !.status = "consumed"].seq = Len(events)
    BY <1>5, <2>1 DEF Approval
  <2> QED BY <1>1, <1>4, <2>2
<1>7. \A b \in Proposals \X Keys :
        b # paid => approvals'[b[1]][b[2]] = approvals[b[1]][b[2]]
  <2>1. \A b \in Proposals \X Keys :
          /\ b[1] \in Proposals /\ b[2] \in Keys
          /\ b = <<b[1], b[2]>>
    OBVIOUS
  <2> QED BY <1>6, <2>1
<1>8. /\ DOMAIN events' = DOMAIN events \cup {last}
      /\ \A n \in DOMAIN events : events'[n] = events[n] /\ n \in 1 .. Len(events)
      /\ events'[last] = AppliedEvent(pr, id)
      /\ last \notin DOMAIN events
      /\ Len(events) \in Nat
  BY <1>1, <1>b, <1>3
<1>9. /\ FillsSigned
      /\ ApprovalsPayOnce
      /\ \A n \in DOMAIN events : events[n].plan \in PlanIds
  BY DEF CustodyInv, SignedCustody, FillsSigned
<1>10. \A n \in DOMAIN events : PlanOf(n)' = PlanOf(n) /\ events[n].plan \in PlanIds'
  BY <1>2, <1>3, <1>8, <1>9, AppendPlan DEF PlanOf
<1>11. /\ events'[last].plan = id /\ events'[last].proposal = pr
       /\ PlanOf(last)' = pl
       /\ id \in PlanIds'
  <2>1. events'[last].plan = id /\ events'[last].proposal = pr
    BY <1>8 DEF AppliedEvent
  <2>2. id \in PlanIds' /\ plans'[id] = pl
    BY <1>2, <1>3, AppendPlan
  <2> QED BY <2>1, <2>2 DEF PlanOf
\* The approval is still to be consumed: a consumed one has its event in the log.
<1>12. approvals[paid[1]][paid[2]].status # "consumed"
  <2>1. last \notin DOMAIN events
    BY <1>8
  <2> QED BY <1>1, <1>b, <1>5, <1>9, <2>1 DEF ApprovalsPayOnce
<1>13. \A n \in DOMAIN events : \A b \in Proposals \X Keys : Pays(b, n)' <=> Pays(b, n)
  <2> SUFFICES ASSUME NEW n \in DOMAIN events, NEW b \in Proposals \X Keys
               PROVE  Pays(b, n)' <=> Pays(b, n)
    OBVIOUS
  <2>1. CASE b = paid
    <3>1. n - 1 # Len(events)
      BY <1>8
    <3>2. ~Pays(b, n)' /\ ~Pays(b, n)
      BY <1>6, <1>12, <2>1, <3>1 DEF Pays
    <3> QED BY <3>2
  <2>2. CASE b # paid
    <3>1. /\ approvals'[b[1]][b[2]] = approvals[b[1]][b[2]]
          /\ events'[n] = events[n] /\ PlanOf(n)' = PlanOf(n)
      BY <1>7, <1>8, <1>10, <2>2
    <3> QED BY <3>1 DEF Pays
  <2> QED BY <2>1, <2>2
<1>14. \A b \in Proposals \X Keys : Pays(b, last)' <=> b = paid
  <2> SUFFICES ASSUME NEW b \in Proposals \X Keys
               PROVE  Pays(b, last)' <=> b = paid
    OBVIOUS
  <2>1. last - 1 = Len(events)
    BY <1>1, <1>b
  <2>2. CASE b = paid
    BY <1>2, <1>4, <1>6, <1>11, <2>1, <2>2 DEF Pays
  <2>3. CASE b # paid
    <3>1. approvals'[b[1]][b[2]] = approvals[b[1]][b[2]]
      BY <1>7, <2>3
    <3>2. approvals[b[1]][b[2]].status = "consumed" => approvals[b[1]][b[2]].seq # Len(events)
      BY <1>b, <1>8, <1>9 DEF ApprovalsPayOnce
    <3> QED BY <2>1, <2>3, <3>1, <3>2 DEF Pays
  <2> QED BY <2>2, <2>3
<1>15. RowsKept
  <2>1. \A pr2 \in Proposals, k2 \in Keys : approvals[pr2][k2].status # "none" =>
          /\ approvals'[pr2][k2].status # "none"
          /\ approvals'[pr2][k2].seq = approvals[pr2][k2].seq
    BY <1>5, <1>6
  <2> QED BY <1>2, <1>3, <2>1, AppendPlan DEF RowsKept
<1>16. FillsSigned'
  <2> SUFFICES ASSUME NEW n \in DOMAIN events'
               PROVE  /\ events'[n].plan \in PlanIds'
                      /\ PlanOf(n)'.proposal = events'[n].proposal
                      /\ \E a \in Proposals \X Keys : Pays(a, n)'
    BY DEF FillsSigned
  <2>1. CASE n = last
    <3>1. Pays(paid, n)'
      BY <1>1, <1>14, <2>1
    <3> QED BY <1>1, <1>2, <1>11, <2>1, <3>1
  <2>2. CASE n \in DOMAIN events
    <3>1. /\ PlanOf(n).proposal = events[n].proposal
          /\ \E a \in Proposals \X Keys : Pays(a, n)
      BY <1>9, <2>2 DEF FillsSigned
    <3> QED BY <1>8, <1>10, <1>13, <2>2, <3>1
  <2> QED BY <1>8, <2>1, <2>2
<1>17. ApprovalsPayOnce'
  <2> SUFFICES ASSUME NEW a \in Proposals \X Keys,
                      approvals'[a[1]][a[2]].status = "consumed"
               PROVE  /\ approvals'[a[1]][a[2]].seq + 1 \in DOMAIN events'
                      /\ Pays(a, approvals[a[1]][a[2]].seq + 1)'
                      /\ \A b \in Proposals \X Keys :
                            Pays(b, approvals[a[1]][a[2]].seq + 1)' => b = a
    BY DEF ApprovalsPayOnce
  <2>1. CASE a = paid
    <3>1. approvals'[a[1]][a[2]].seq + 1 = last /\ last \in DOMAIN events'
      BY <1>b, <1>6, <1>8, <2>1
    <3> QED BY <1>14, <2>1, <3>1
  <2>2. CASE a # paid
    <3>1. approvals'[a[1]][a[2]] = approvals[a[1]][a[2]]
      BY <1>7, <2>2
    <3>2. /\ approvals[a[1]][a[2]].seq + 1 \in DOMAIN events
          /\ Pays(a, approvals[a[1]][a[2]].seq + 1)
          /\ \A b \in Proposals \X Keys : Pays(b, approvals[a[1]][a[2]].seq + 1) => b = a
      BY <1>9, <3>1 DEF ApprovalsPayOnce
    <3> QED BY <1>8, <1>13, <3>1, <3>2
  <2> QED BY <2>1, <2>2
<1>18. PlansFillOnce'
  <2>1. /\ PlansFillOnce
        /\ \A n \in DOMAIN events : events[n].plan # id
    <3>1. id \notin PlanIds
      BY <1>2, <1>3, AppendPlan
    <3> QED BY <1>9, <3>1 DEF CustodyInv, SignedCustody
  <2> QED BY <1>8, <1>11, <2>1 DEF PlansFillOnce
<1> QED BY <1>2, <1>3, <1>15, <1>16, <1>17, <1>18, AppendPlan DEF SignedCustody

LEMMA CustodyApprove ==
    ASSUME CustodyInv, NEW p \in Procs, ApproveSave(p)
    PROVE  RowsKept /\ OnePlanPerKey' /\ SignedCustody'
<1>1. /\ loc[p].proposal \in Proposals /\ loc[p].key \in Keys
      /\ approvals \in [Proposals -> [Keys -> Approval]]
  BY DEF CustodyInv, TypeOK, Local
<1>2. \A pr \in Proposals, k \in Keys :
        \/ approvals'[pr][k] = approvals[pr][k]
        \/ approvals[pr][k].status = "none" /\ approvals'[pr][k].status = "active"
  BY <1>1 DEF ApproveSave
<1>3. UNCHANGED <<events, plans>>
  BY DEF ApproveSave
<1>4. RowsKept
  BY <1>2, <1>3 DEF RowsKept, PlanIds
<1>5. OnePlanPerKey'
  BY <1>3 DEF CustodyInv, OnePlanPerKey, PlanIds
<1> QED BY <1>2, <1>3, <1>4, <1>5, CustodyKept

LEMMA CustodyReconcile ==
    ASSUME CustodyInv, NEW p \in Procs, ReconcileSavePlan(p)
    PROVE  RowsKept /\ OnePlanPerKey' /\ SignedCustody'
<1>1. /\ plans \in Seq(Plan)
      /\ loc[p].plan \in Plan
      /\ loc[p].planId \in Nat
  BY DEF CustodyInv, TypeOK, Local
<1>2. /\ loc[p].planId \in PlanIds
      /\ loc[p].plan.proposal = plans[loc[p].planId].proposal
      /\ loc[p].plan.key = plans[loc[p].planId].key
  BY DEF CustodyInv, LocalInv, ReconciledPlanStored, ReconcileSteps, ReconcileSavePlan
<1>3. /\ PlanIds' = PlanIds
      /\ \A i \in PlanIds : /\ plans'[i].proposal = plans[i].proposal
                            /\ plans'[i].key = plans[i].key
  BY <1>1, <1>2 DEF ReconcileSavePlan, PlanIds
<1>4. UNCHANGED <<events, approvals>>
  BY DEF ReconcileSavePlan
<1>5. RowsKept /\ OnePlanPerKey'
  BY <1>3, <1>4 DEF RowsKept, OnePlanPerKey, CustodyInv
<1> QED BY <1>4, <1>5, CustodyKept

LEMMA CustodyStep == PlanIdsSafe /\ CustodyInv /\ [Next]_vars => CustodyInv' /\ RowsKept
<1> SUFFICES ASSUME PlanIdsSafe, CustodyInv, [Next]_vars PROVE CustodyInv' /\ RowsKept
  OBVIOUS
<1>1. TypeOK /\ TypeOK' /\ \A q \in Procs : LocalInv(q)
  BY TypeStep DEF CustodyInv
\* A step that stores none of these rows and returns.
<1>2. ASSUME NEW p \in Procs, Return(p), UNCHANGED <<events, approvals, plans>>
      PROVE  CustodyInv' /\ RowsKept
  BY <1>1, <1>2, RowsUnchanged, AfterReturn DEF CustodyInv
\* A step that stores some of them and returns.
<1>3. ASSUME NEW p \in Procs, Return(p), RowsKept, OnePlanPerKey', SignedCustody'
      PROVE  CustodyInv' /\ RowsKept
  BY <1>1, <1>3, AfterReturn DEF CustodyInv
\* A step that stores none of them and goes on.
<1>4. ASSUME NEW p \in Procs, NEW step, NEW l, Goto(p, step, l),
             UNCHANGED <<events, approvals, plans>>, LocalInv(p)'
      PROVE  CustodyInv' /\ RowsKept
  BY <1>1, <1>4, RowsUnchanged, AfterGoto DEF CustodyInv
\* Only these steps have a clause of LocalInv to establish.
<1>5. ASSUME NEW p \in Procs, NEW step, NEW l, Goto(p, step, l)
      PROVE  pc'[p] = step /\ loc'[p] = l
  BY <1>1, <1>5 DEF Goto, TypeOK
<1>6. ASSUME NEW p \in Procs,
             pc'[p] \notin {"exec_check", "exec_tx", "exec_tx_failed"} \cup ReconcileSteps
      PROVE  LocalInv(p)'
  BY <1>6 DEF LocalInv, FoundApprovalStored, RolledBackPlanFree, ReconciledPlanStored
<1>7. CASE UNCHANGED vars
  <2>1. RowsKept /\ OnePlanPerKey' /\ SignedCustody'
    BY <1>7, RowsUnchanged DEF vars, database
  <2>2. \A q \in Procs : LocalInv(q)'
    BY <1>1, <1>7, <2>1, OtherLocals DEF vars, database
  <2> QED BY <1>1, <2>1, <2>2 DEF CustodyInv
<1>8. ASSUME NEW state \in Requested, UpdateControl(state)
      PROVE  CustodyInv' /\ RowsKept
  <2>1. RowsKept /\ OnePlanPerKey' /\ SignedCustody'
    BY <1>8, RowsUnchanged DEF UpdateControl
  <2>2. \A q \in Procs : LocalInv(q)'
    BY <1>1, <1>8, <2>1, OtherLocals DEF UpdateControl
  <2> QED BY <1>1, <2>1, <2>2 DEF CustodyInv
<1>9. ASSUME NEW e \in Expiring, Lapse(e[1], e[2])
      PROVE  CustodyInv' /\ RowsKept
  <2>1. RowsKept /\ OnePlanPerKey' /\ SignedCustody'
    BY <1>9, RowsUnchanged DEF Lapse
  <2>2. \A q \in Procs : LocalInv(q)'
    BY <1>1, <1>9, <2>1, OtherLocals DEF Lapse
  <2> QED BY <1>1, <2>1, <2>2 DEF CustodyInv
<1>10. ASSUME NEW p \in Procs, Approve(p)
       PROVE  CustodyInv' /\ RowsKept
  <2>1. ASSUME NEW pr \in Proposals, NEW k \in Keys, ApproveReadAccount(p, pr, k)
        PROVE  CustodyInv' /\ RowsKept
    BY <1>4, <1>5, <1>6, <2>1 DEF ApproveReadAccount, ReconcileSteps, database
  <2>2. ASSUME ApproveReadEvent(p)
        PROVE  CustodyInv' /\ RowsKept
    BY <1>4, <1>5, <1>6, <2>2 DEF ApproveReadEvent, ReconcileSteps, database
  <2>3. ASSUME ApproveSave(p)
        PROVE  CustodyInv' /\ RowsKept
    BY <1>3, <2>3, CustodyApprove DEF ApproveSave
  <2>4. ASSUME ApproveRefuse(p)
        PROVE  CustodyInv' /\ RowsKept
    BY <1>2, <2>4 DEF ApproveRefuse, database
  <2> QED BY <1>10, <2>1, <2>2, <2>3, <2>4 DEF Approve
<1>11. ASSUME NEW p \in Procs, Execute(p)
       PROVE  CustodyInv' /\ RowsKept
  <2>1. ASSUME NEW pr \in Proposals, ExecReadControl(p, pr)
        PROVE  CustodyInv' /\ RowsKept
    BY <1>4, <1>5, <1>6, <2>1 DEF ExecReadControl, ReconcileSteps, database
  <2>2. ASSUME ExecReadAccount(p)
        PROVE  CustodyInv' /\ RowsKept
    BY <1>4, <1>5, <1>6, <2>2 DEF ExecReadAccount, ReconcileSteps, database
  <2>3. ASSUME ExecReadEvent(p)
        PROVE  CustodyInv' /\ RowsKept
    BY <1>4, <1>5, <1>6, <2>3 DEF ExecReadEvent, ReconcileSteps, database
  <2>4. ASSUME ExecReadApproval(p)
        PROVE  CustodyInv' /\ RowsKept
    <3>1. loc[p] \in Local /\ UNCHANGED <<events, approvals, plans>>
      BY <1>1, <2>4 DEF TypeOK, ExecReadApproval, database
    <3>2. CASE ApprovalFound(p)
      <4>1. PICK k \in Keys, signed \in Proposals \X Keys :
              /\ approvals[signed[1]][signed[2]].status # "none"
              /\ Goto(p, "exec_check",
                      [loc[p] EXCEPT !.key = k, !.signed = signed,
                                     !.approval = approvals[signed[1]][signed[2]]])
        BY <3>2 DEF ApprovalFound
      <4>2. /\ pc'[p] = "exec_check"
            /\ loc'[p] = [loc[p] EXCEPT !.key = k, !.signed = signed,
                                        !.approval = approvals[signed[1]][signed[2]]]
        BY <1>5, <4>1
      <4>3. /\ loc'[p].signed = signed
            /\ loc'[p].approval = approvals[signed[1]][signed[2]]
        BY <3>1, <4>2 DEF Local
      <4>4. LocalInv(p)'
        BY <3>1, <4>1, <4>2, <4>3
           DEF LocalInv, FoundApprovalStored, RolledBackPlanFree, ReconciledPlanStored,
               ReconcileSteps
      <4> QED BY <1>4, <3>1, <4>1, <4>4
    <3>3. CASE NoApprovalFound(p)
      <4>1. PICK k \in Keys :
              Goto(p, "exec_check", [loc[p] EXCEPT !.key = k, !.approval = NoApproval])
        BY <3>3 DEF NoApprovalFound
      <4>2. /\ pc'[p] = "exec_check"
            /\ loc'[p] = [loc[p] EXCEPT !.key = k, !.approval = NoApproval]
        BY <1>5, <4>1
      <4>3. loc'[p].approval.status = "none"
        BY <3>1, <4>2 DEF Local, NoApproval
      <4>4. LocalInv(p)'
        BY <4>2, <4>3
           DEF LocalInv, FoundApprovalStored, RolledBackPlanFree, ReconciledPlanStored,
               ReconcileSteps
      <4> QED BY <1>4, <3>1, <4>1, <4>4
    <3> QED BY <2>4, <3>2, <3>3 DEF ExecReadApproval
  <2>5. ASSUME ExecReplay(p)
        PROVE  CustodyInv' /\ RowsKept
    BY <1>2, <2>5 DEF ExecReplay, database
  <2>6. ASSUME ExecDecide(p)
        PROVE  CustodyInv' /\ RowsKept
    <3>1. PICK step \in {"exec_tx", "exec_save_blocked"} : Goto(p, step, loc[p])
      BY <2>6 DEF ExecDecide
    <3>2. UNCHANGED <<events, approvals, plans>> /\ pc[p] = "exec_check"
      BY <2>6 DEF ExecDecide, database
    <3>3. pc'[p] = step /\ loc'[p] = loc[p]
      BY <1>5, <3>1
    <3>4. LocalInv(p)'
      BY <1>1, <3>1, <3>2, <3>3
         DEF LocalInv, FoundApprovalStored, RolledBackPlanFree, ReconciledPlanStored,
             ReconcileSteps
    <3> QED BY <1>4, <3>1, <3>2, <3>4
  <2>7. ASSUME ExecSaveBlocked(p)
        PROVE  CustodyInv' /\ RowsKept
    <3>1. /\ Return(p)
          /\ UNCHANGED <<events, approvals>>
          /\ \/ plans' = plans
             \/ /\ plans' = Append(plans, BlockedPlan(loc[p], loc[p].account))
                /\ ~HasPlanForKey(loc[p].proposal, loc[p].key)
      BY <2>7 DEF ExecSaveBlocked
    <3>2. BlockedPlan(loc[p], loc[p].account) \in Plan
      BY <1>1 DEF TypeOK, BlockedPlan, Local, Account, Plan, PlanStatuses
    <3>3. RowsKept /\ OnePlanPerKey' /\ SignedCustody'
      BY <3>1, <3>2, RowsUnchanged, BlockedPlanStored DEF BlockedPlan
    <3> QED BY <1>3, <3>1, <3>3
  <2>8. ASSUME TxClaimLost(p)
        PROVE  CustodyInv' /\ RowsKept
    BY <1>2, <2>8 DEF TxClaimLost, database
  <2>9. ASSUME TxReplay(p)
        PROVE  CustodyInv' /\ RowsKept
    BY <1>2, <2>9 DEF TxReplay
  <2>10. ASSUME TxBlocked(p)
         PROVE  CustodyInv' /\ RowsKept
    <3>1. /\ Return(p)
          /\ UNCHANGED <<events, approvals>>
          /\ plans' = Append(plans, BlockedPlan(loc[p], account))
          /\ ~HasPlanForKey(loc[p].proposal, loc[p].key)
      BY <2>10 DEF TxBlocked, TxDecides
    <3>2. BlockedPlan(loc[p], account) \in Plan
      BY <1>1 DEF TypeOK, BlockedPlan, Local, Account, Plan, PlanStatuses
    <3>3. RowsKept /\ OnePlanPerKey' /\ SignedCustody'
      BY <3>1, <3>2, BlockedPlanStored DEF BlockedPlan
    <3> QED BY <1>3, <3>1, <3>3
  <2>11. ASSUME TxFill(p)
         PROVE  CustodyInv' /\ RowsKept
    BY <1>3, <2>11, CustodyFill DEF TxFill
  <2>12. ASSUME TxRollback(p)
         PROVE  CustodyInv' /\ RowsKept
    <3>1. /\ TxMayFail
          /\ Goto(p, "exec_tx_failed",
                  [loc[p] EXCEPT !.planId = Len(plans) + 1,
                                 !.plan = BlockedPlan(loc[p], account)])
          /\ ~HasPlanForKey(loc[p].proposal, loc[p].key)
          /\ UNCHANGED <<events, approvals, plans>>
      BY <2>12 DEF TxRollback, TxDecides, database
    <3>2. loc[p] \in Local
      BY <1>1 DEF TypeOK
    <3>3. /\ pc'[p] = "exec_tx_failed"
          /\ loc'[p].proposal = loc[p].proposal
          /\ loc'[p].key = loc[p].key
          /\ loc'[p].planId = Len(plans) + 1
          /\ loc'[p].plan = BlockedPlan(loc[p], account)
      <4>1. /\ pc'[p] = "exec_tx_failed"
            /\ loc'[p] = [loc[p] EXCEPT !.planId = Len(plans) + 1,
                                        !.plan = BlockedPlan(loc[p], account)]
        BY <1>5, <3>1
      <4> QED BY <3>2, <4>1 DEF Local
    <3>4. LocalInv(p)'
      BY <3>1, <3>3
         DEF LocalInv, FoundApprovalStored, RolledBackPlanFree, ReconciledPlanStored,
             ReconcileSteps, BlockedPlan, HasPlanForKey, PlanIds
    <3> QED BY <1>4, <3>1, <3>4
  <2>13. ASSUME BlockAfterFailure(p)
         PROVE  CustodyInv' /\ RowsKept
    <3>1. /\ loc[p].planId \notin PlanIds
          /\ loc[p].plan \in Plan
          /\ loc[p].plan.proposal = loc[p].proposal
          /\ loc[p].plan.key = loc[p].key
          /\ ~HasPlanForKey(loc[p].proposal, loc[p].key)
      BY <1>1, <2>13
         DEF BlockAfterFailure, LocalInv, RolledBackPlanFree, TypeOK, Local, PlanIds
    <3>2. /\ Return(p)
          /\ UNCHANGED <<events, approvals>>
          /\ plans' = Append(plans, loc[p].plan)
      BY <2>13, <3>1 DEF BlockAfterFailure, HasPlanForKey
    <3>3. RowsKept /\ OnePlanPerKey' /\ SignedCustody'
      BY <3>1, <3>2, BlockedPlanStored
    <3> QED BY <1>3, <3>2, <3>3
  <2> QED BY <1>11, <2>1, <2>2, <2>3, <2>4, <2>5, <2>6, <2>7, <2>8, <2>9, <2>10, <2>11,
             <2>12, <2>13 DEF Execute
<1>12. ASSUME NEW p \in Procs, Reconcile(p)
       PROVE  CustodyInv' /\ RowsKept
  <2>1. ASSUME NEW id \in PlanIds, ReconcileReadPlan(p, id)
        PROVE  CustodyInv' /\ RowsKept
    <3>1. /\ Goto(p, "reconcile_account",
                  [NoLocal EXCEPT !.planId = id, !.plan = plans[id]])
          /\ UNCHANGED <<events, approvals, plans>>
      BY <2>1 DEF ReconcileReadPlan, database
    <3>2. /\ pc'[p] = "reconcile_account"
          /\ loc'[p].planId = id
          /\ loc'[p].plan = plans[id]
      <4>1. /\ pc'[p] = "reconcile_account"
            /\ loc'[p] = [NoLocal EXCEPT !.planId = id, !.plan = plans[id]]
        BY <1>5, <3>1
      <4> QED BY <4>1, NullRows DEF Local
    <3>3. LocalInv(p)'
      BY <3>1, <3>2
         DEF LocalInv, FoundApprovalStored, RolledBackPlanFree, ReconciledPlanStored,
             ReconcileSteps, PlanIds
    <3> QED BY <1>4, <3>1, <3>3
  <2>2. ASSUME ReconcileReadAccount(p)
        PROVE  CustodyInv' /\ RowsKept
    <3>1. /\ pc[p] = "reconcile_account"
          /\ Goto(p, "reconcile_save_account",
                  [loc[p] EXCEPT !.account = account, !.plan = Reconciled(@, account)])
          /\ UNCHANGED <<events, approvals, plans>>
      BY <2>2 DEF ReconcileReadAccount, database
    <3>2. loc[p] \in Local /\ loc[p].plan \in Plan
      BY <1>1 DEF TypeOK, Local
    <3>3. /\ pc'[p] = "reconcile_save_account"
          /\ loc'[p].planId = loc[p].planId
          /\ loc'[p].plan = Reconciled(loc[p].plan, account)
      <4>1. /\ pc'[p] = "reconcile_save_account"
            /\ loc'[p] = [loc[p] EXCEPT !.account = account,
                                        !.plan = Reconciled(@, account)]
        BY <1>5, <3>1
      <4> QED BY <3>2, <4>1 DEF Local
    <3>4. /\ Reconciled(loc[p].plan, account).proposal = loc[p].plan.proposal
          /\ Reconciled(loc[p].plan, account).key = loc[p].plan.key
      BY <3>2 DEF Reconciled, Plan
    <3>5. LocalInv(p)'
      BY <1>1, <3>1, <3>3, <3>4
         DEF LocalInv, FoundApprovalStored, RolledBackPlanFree, ReconciledPlanStored,
             ReconcileSteps, PlanIds
    <3> QED BY <1>4, <3>1, <3>5
  <2>3. ASSUME ReconcileSaveAccount(p)
        PROVE  CustodyInv' /\ RowsKept
    <3>1. /\ pc[p] = "reconcile_save_account"
          /\ Goto(p, "reconcile_save_plan", loc[p])
          /\ UNCHANGED <<events, approvals, plans>>
      BY <2>3 DEF ReconcileSaveAccount
    <3>2. pc'[p] = "reconcile_save_plan" /\ loc'[p] = loc[p]
      BY <1>5, <3>1
    <3>3. LocalInv(p)'
      BY <1>1, <3>1, <3>2
         DEF LocalInv, FoundApprovalStored, RolledBackPlanFree, ReconciledPlanStored,
             ReconcileSteps, PlanIds
    <3> QED BY <1>4, <3>1, <3>3
  <2>4. ASSUME ReconcileSavePlan(p)
        PROVE  CustodyInv' /\ RowsKept
    BY <1>3, <2>4, CustodyReconcile DEF ReconcileSavePlan
  <2> QED BY <1>12, <2>1, <2>2, <2>3, <2>4 DEF Reconcile
<1>13. ASSUME NEW p \in Procs, Crash(p)
       PROVE  CustodyInv' /\ RowsKept
  BY <1>2, <1>13 DEF Crash, database
<1> QED BY <1>7, <1>8, <1>9, <1>10, <1>11, <1>12, <1>13 DEF Next

LEMMA CustodyInit == Init => CustodyInv
BY TypeInit
   DEF Init, CustodyInv, OnePlanPerKey, LocalInv, FoundApprovalStored, RolledBackPlanFree,
       ReconciledPlanStored, ReconcileSteps, SignedCustody, FillsSigned,
       ApprovalsPayOnce, PlansFillOnce, PlanIds, NoApproval

\* Where a rolled-back id cannot be taken by another process, every fill was paid for by
\* one approval, signed over the account as the event before left it for a proposal that
\* asks for the same under the same key, and no approval pays twice, whatever executions,
\* approvals, reconciliations and crashes interleave.  The approval may be one of another
\* proposal: the lookup is by id, and only the contents are compared.
THEOREM Custody ==
    ASSUME PlanIdsSafe
    PROVE  Spec => []SignedCustody
<1>1. CustodyInv => SignedCustody
  BY DEF CustodyInv
<1>2. CustodyInv /\ [Next]_vars => CustodyInv'
  BY CustodyStep
<1> QED BY <1>1, <1>2, CustodyInit, PTL DEF Spec

-----------------------------------------------------------------------------
(* Accounting.  A reconciliation writes back the account row it read, so    *)
(* with other processes executing it can undo a fill.  The account is the   *)
(* projection of its events where nobody reconciles while others execute.   *)

SafeDeployment == SoleProcess \/ (Reconcilers = {} /\ ~TxMayFail)

AppliedStatuses == {"filled", "reconciled"}

\* An applied plan, and no other, has its event and its ledger entry.
PlansSettled == \A i \in PlanIds : plans[i].status \in AppliedStatuses \cup {"blocked"}
AppliedPlansRecorded ==
    \A i \in PlanIds : plans[i].status \in AppliedStatuses =>
        \E n \in DOMAIN events : events[n].plan = i
LedgerFollowsEvents ==
    /\ DOMAIN account.ledger = DOMAIN events
    /\ \A n \in DOMAIN events :
          /\ account.ledger[n].proposal = events[n].proposal
          /\ account.ledger[n].balanceAfter = PlanOf(n).cashAfter

\* A reconciliation works on the rows as they are.
ReconcileFresh(p) ==
    /\ pc[p] \in ReconcileSteps =>
          /\ p \in Reconcilers
          /\ loc[p].planId \in PlanIds
          /\ plans[loc[p].planId].status \in AppliedStatuses
    /\ pc[p] = "reconcile_account" => loc[p].plan = plans[loc[p].planId]
    /\ pc[p] \in {"reconcile_save_account", "reconcile_save_plan"} =>
          loc[p].plan = [plans[loc[p].planId] EXCEPT !.status = "reconciled"]
    /\ pc[p] = "reconcile_save_account" => loc[p].account = account

SafeStore ==
    /\ PlansSettled
    /\ AppliedPlansRecorded
    /\ AppliedPlansStayLive
    /\ LedgerFollowsEvents
    /\ AccountIsProjection
    /\ EventsContinuous
    /\ SingleLivePlan

SafeInv == CustodyInv /\ SafeStore /\ \A p \in Procs : ReconcileFresh(p)

\* Against the account as it is, an applied plan reconciles.
LEMMA AppliedPlanReconciles ==
    ASSUME CustodyInv, SafeStore, NEW i \in PlanIds, plans[i].status \in AppliedStatuses
    PROVE  Reconciled(plans[i], account) = [plans[i] EXCEPT !.status = "reconciled"]
<1> DEFINE mine == {m \in DOMAIN account.ledger :
                       account.ledger[m].proposal = plans[i].proposal}
<1>1. PICK n \in DOMAIN events : events[n].plan = i
  BY DEF SafeStore, AppliedPlansRecorded
<1>2. /\ DOMAIN account.ledger = DOMAIN events
      /\ \A m \in DOMAIN events :
            /\ account.ledger[m].proposal = events[m].proposal
            /\ account.ledger[m].balanceAfter = PlanOf(m).cashAfter
  BY DEF SafeStore, LedgerFollowsEvents
<1>3. \A m \in DOMAIN events :
        /\ events[m].plan \in PlanIds
        /\ PlanOf(m).proposal = events[m].proposal
        /\ PlanOf(m).status \in LiveStatuses
  BY DEF CustodyInv, SignedCustody, FillsSigned, SafeStore, AppliedPlansStayLive
<1>4. DOMAIN events \subseteq Int
  BY DEF CustodyInv, TypeOK
<1>5. n \in mine
  BY <1>1, <1>2, <1>3 DEF PlanOf
<1>6. ASSUME NEW m \in mine PROVE m = n
  <2>1. m \in DOMAIN events /\ events[m].proposal = plans[i].proposal
    BY <1>2
  <2>2. plans[events[m].plan].proposal = plans[i].proposal
    BY <1>3, <2>1 DEF PlanOf
  <2>3. events[m].plan = i
    BY <1>1, <1>3, <2>1, <2>2 DEF SafeStore, SingleLivePlan, PlanOf
  <2> QED BY <1>1, <2>1, <2>3 DEF CustodyInv, SignedCustody, PlansFillOnce
<1>7. (CHOOSE x \in mine : \A j \in mine : j <= x) = n
  BY <1>4, <1>5, <1>6
<1>8. account.ledger[n].balanceAfter = plans[i].cashAfter
  BY <1>1, <1>2 DEF PlanOf
<1>9. ActualCash(plans[i], account) = plans[i].cashAfter
  BY <1>5, <1>7, <1>8 DEF ActualCash
<1> QED BY <1>9 DEF Reconciled

LEMMA StoreUnchanged ==
    ASSUME SafeStore, UNCHANGED <<events, plans>>,
           account'.cash = account.cash, account'.position = account.position,
           account'.latestSeq = account.latestSeq, account'.ledger = account.ledger
    PROVE  SafeStore'
<1>1. PlansSettled' /\ AppliedPlansRecorded' /\ AppliedPlansStayLive' /\ SingleLivePlan'
  BY DEF SafeStore, PlansSettled, AppliedPlansRecorded, AppliedPlansStayLive,
         SingleLivePlan, PlanOf, PlanIds
<1>2. LedgerFollowsEvents' /\ AccountIsProjection' /\ EventsContinuous'
  BY DEF SafeStore, LedgerFollowsEvents, AccountIsProjection, EventsContinuous, PlanOf,
         BookCash, BookPosition
<1> QED BY <1>1, <1>2 DEF SafeStore

LEMMA StoreBlocked ==
    ASSUME CustodyInv, SafeStore, UNCHANGED events,
           NEW pl \in Plan, pl.status = "blocked", ~HasPlanForKey(pl.proposal, pl.key),
           plans' = Append(plans, pl),
           account'.cash = account.cash, account'.position = account.position,
           account'.latestSeq = account.latestSeq, account'.ledger = account.ledger
    PROVE  SafeStore'
<1>1. \A n \in DOMAIN events : events[n].plan \in PlanIds
  BY DEF SafeStore, AppliedPlansStayLive
<1>2. \A n \in DOMAIN events : plans'[events[n].plan] = PlanOf(n)
  BY <1>1, AppendPlan DEF PlanOf
<1>3. PlansSettled'
  BY AppendPlan DEF SafeStore, PlansSettled
<1>4. AppliedPlansRecorded'
  BY AppendPlan DEF SafeStore, AppliedPlansRecorded, AppliedStatuses
<1>5. AppliedPlansStayLive'
  <2> SUFFICES ASSUME NEW n \in DOMAIN events
               PROVE  /\ events[n].plan \in PlanIds'
                      /\ PlanOf(n)'.proposal = events[n].proposal
                      /\ PlanOf(n)'.status \in LiveStatuses
    BY DEF AppliedPlansStayLive
  <2>1. events[n].plan \in PlanIds'
    BY <1>1, AppendPlan
  <2>2. PlanOf(n)' = PlanOf(n)
    BY <1>2 DEF PlanOf
  <2>3. PlanOf(n).proposal = events[n].proposal /\ PlanOf(n).status \in LiveStatuses
    BY DEF SafeStore, AppliedPlansStayLive
  <2> QED BY <2>1, <2>2, <2>3
<1>6. SingleLivePlan'
  <2> SUFFICES ASSUME NEW i \in PlanIds', NEW j \in PlanIds',
                      plans'[i].proposal = plans'[j].proposal,
                      plans'[i].status \in LiveStatuses, plans'[j].status \in LiveStatuses
               PROVE  i = j
    BY DEF SingleLivePlan
  <2>1. i \in PlanIds /\ j \in PlanIds
    BY AppendPlan DEF LiveStatuses
  <2>2. plans'[i] = plans[i] /\ plans'[j] = plans[j]
    BY <2>1, AppendPlan
  <2> QED BY <2>1, <2>2 DEF SafeStore, SingleLivePlan
<1>7. LedgerFollowsEvents'
  BY <1>2 DEF SafeStore, LedgerFollowsEvents, PlanOf
<1>8. AccountIsProjection' /\ EventsContinuous'
  BY DEF SafeStore, AccountIsProjection, EventsContinuous, BookCash, BookPosition
<1> QED BY <1>3, <1>4, <1>5, <1>6, <1>7, <1>8 DEF SafeStore

LEMMA StoreReconciled ==
    ASSUME CustodyInv, SafeStore, UNCHANGED <<events, account>>,
           NEW id \in PlanIds, plans[id].status \in AppliedStatuses,
           plans' = [plans EXCEPT ![id] = [plans[id] EXCEPT !.status = "reconciled"]]
    PROVE  SafeStore'
<1>1. plans \in Seq(Plan) /\ plans[id] \in Plan
  BY DEF CustodyInv, TypeOK, PlanIds
<1>2. /\ [plans[id] EXCEPT !.status = "reconciled"].status = "reconciled"
      /\ [plans[id] EXCEPT !.status = "reconciled"].proposal = plans[id].proposal
      /\ [plans[id] EXCEPT !.status = "reconciled"].cashAfter = plans[id].cashAfter
  BY <1>1 DEF Plan
<1>3. /\ PlanIds' = PlanIds
      /\ \A i \in PlanIds :
            /\ plans'[i].proposal = plans[i].proposal
            /\ plans'[i].cashAfter = plans[i].cashAfter
            /\ plans'[i].status \in LiveStatuses <=> plans[i].status \in LiveStatuses
            /\ plans'[i].status \in AppliedStatuses <=> plans[i].status \in AppliedStatuses
            /\ plans'[i].status \in {"reconciled", plans[i].status}
  <2>1. PlanIds' = PlanIds /\ \A i \in PlanIds \ {id} : plans'[i] = plans[i]
    BY <1>1 DEF PlanIds
  <2>2. plans'[id] = [plans[id] EXCEPT !.status = "reconciled"]
    BY <1>1 DEF PlanIds
  <2>3. \A i \in PlanIds \ {id} :
            /\ plans'[i].proposal = plans[i].proposal
            /\ plans'[i].cashAfter = plans[i].cashAfter
            /\ plans'[i].status = plans[i].status
    BY <2>1
  <2>4. /\ plans'[id].proposal = plans[id].proposal
        /\ plans'[id].cashAfter = plans[id].cashAfter
        /\ plans'[id].status = "reconciled"
        /\ plans[id].status \in LiveStatuses
    BY <1>2, <2>2 DEF AppliedStatuses, LiveStatuses
  <2> QED BY <2>1, <2>3, <2>4 DEF AppliedStatuses, LiveStatuses
<1>4. \A n \in DOMAIN events : events[n].plan \in PlanIds
  BY DEF SafeStore, AppliedPlansStayLive
<1>5. PlansSettled' /\ AppliedPlansRecorded' /\ SingleLivePlan'
  BY <1>3 DEF SafeStore, PlansSettled, AppliedPlansRecorded, SingleLivePlan, AppliedStatuses
<1>6. AppliedPlansStayLive'
  BY <1>3, <1>4 DEF SafeStore, AppliedPlansStayLive, PlanOf
<1>7. LedgerFollowsEvents'
  BY <1>3, <1>4 DEF SafeStore, LedgerFollowsEvents, PlanOf
<1>8. AccountIsProjection' /\ EventsContinuous'
  BY DEF SafeStore, AccountIsProjection, EventsContinuous, BookCash, BookPosition
<1> QED BY <1>5, <1>6, <1>7, <1>8 DEF SafeStore

LEMMA StoreFilled ==
    ASSUME CustodyInv, SafeStore, NEW p \in Procs, TxFill(p)
    PROVE  SafeStore'
<1> DEFINE pr == loc[p].proposal
           id == Len(plans) + 1
           pl == FilledPlan(loc[p], account)
           n0 == Len(events) + 1
<1>1. /\ pr \in Proposals /\ loc[p].key \in Keys
      /\ events \in Seq(Event)
      /\ plans \in Seq(Plan)
      /\ account \in Account
      /\ account.ledger \in Seq(LedgerEntry)
  BY DEF CustodyInv, TypeOK, Local, Account
<1>2. /\ pl \in Plan
      /\ pl.proposal = pr /\ pl.key = loc[p].key /\ pl.status = "filled"
      /\ pl.cashAfter = CashAfter(pr, account)
  BY <1>1, Amounts DEF FilledPlan, Account, Plan, PlanStatuses, LiveStatuses
<1>3. /\ plans' = Append(plans, pl)
      /\ events' = Append(events, AppliedEvent(pr, id))
      /\ account' = AppliedAccount(pr, id)
      /\ ~HasPlanForKey(pr, loc[p].key)
      /\ NoLivePlan(pr)
  BY DEF TxFill, TxDecides, Permitted
<1>4. /\ DOMAIN events' = DOMAIN events \cup {n0}
      /\ Len(events') = n0
      /\ \A n \in DOMAIN events : events'[n] = events[n] /\ n # n0
      /\ events'[n0] = AppliedEvent(pr, id)
      /\ events' # <<>>
      /\ DOMAIN events = 1 .. Len(events)
      /\ Len(events) \in Nat
  BY <1>1, <1>3
<1>5. /\ PlanIds' = PlanIds \cup {id}
      /\ \A i \in PlanIds : plans'[i] = plans[i]
      /\ plans'[id] = pl
      /\ id \notin PlanIds
  BY <1>2, <1>3, AppendPlan
<1>6. \A n \in DOMAIN events : events[n].plan \in PlanIds
  BY DEF SafeStore, AppliedPlansStayLive
<1>7. \A n \in DOMAIN events : events'[n].plan = events[n].plan /\ plans'[events'[n].plan] = PlanOf(n)
  BY <1>4, <1>5, <1>6 DEF PlanOf
<1>8. /\ events'[n0].plan = id /\ events'[n0].proposal = pr
      /\ plans'[events'[n0].plan] = pl
  BY <1>4, <1>5 DEF AppliedEvent
<1>9. PlansSettled'
  BY <1>2, <1>5 DEF SafeStore, PlansSettled, AppliedStatuses
<1>10. AppliedPlansRecorded'
  <2> SUFFICES ASSUME NEW i \in PlanIds', plans'[i].status \in AppliedStatuses
               PROVE  \E n \in DOMAIN events' : events'[n].plan = i
    BY DEF AppliedPlansRecorded
  <2>1. CASE i = id
    BY <1>4, <1>8, <2>1
  <2>2. CASE i \in PlanIds
    <3>1. \E n \in DOMAIN events : events[n].plan = i
      BY <1>5, <2>2 DEF SafeStore, AppliedPlansRecorded
    <3> QED BY <1>4, <1>7, <3>1
  <2> QED BY <1>5, <2>1, <2>2
<1>11. AppliedPlansStayLive'
  <2> SUFFICES ASSUME NEW n \in DOMAIN events'
               PROVE  /\ events'[n].plan \in PlanIds'
                      /\ plans'[events'[n].plan].proposal = events'[n].proposal
                      /\ plans'[events'[n].plan].status \in LiveStatuses
    BY DEF AppliedPlansStayLive, PlanOf
  <2>1. CASE n = n0
    BY <1>2, <1>5, <1>8, <2>1 DEF LiveStatuses
  <2>2. CASE n \in DOMAIN events
    BY <1>4, <1>5, <1>6, <1>7, <2>2 DEF SafeStore, AppliedPlansStayLive
  <2> QED BY <1>4, <2>1, <2>2
<1>12. SingleLivePlan'
  <2> SUFFICES ASSUME NEW i \in PlanIds', NEW j \in PlanIds',
                      plans'[i].proposal = plans'[j].proposal,
                      plans'[i].status \in LiveStatuses, plans'[j].status \in LiveStatuses
               PROVE  i = j
    BY DEF SingleLivePlan
  <2>1. CASE i \in PlanIds /\ j \in PlanIds
    BY <1>5, <2>1 DEF SafeStore, SingleLivePlan
  <2>2. ASSUME NEW x \in PlanIds, plans'[x].status \in LiveStatuses PROVE plans'[x].proposal # pr
    BY <1>3, <1>5, <2>2 DEF NoLivePlan
  <2>3. plans'[id].proposal = pr
    BY <1>2, <1>5
  <2> QED BY <1>5, <2>1, <2>2, <2>3
<1>13. /\ account'.cash = CashAfter(pr, account)
       /\ account'.position = PositionAfter(pr, account)
       /\ account'.latestSeq = n0
       /\ account'.ledger = Append(account.ledger,
                                   [plan |-> id, proposal |-> pr,
                                    balanceAfter |-> CashAfter(pr, account)])
  BY <1>3 DEF AppliedAccount
<1>14. DOMAIN account.ledger = DOMAIN events /\ Len(account.ledger) = Len(events)
  BY DEF SafeStore, LedgerFollowsEvents, AccountIsProjection
<1>15. /\ DOMAIN account'.ledger = DOMAIN events'
       /\ Len(account'.ledger) = n0
       /\ \A n \in DOMAIN events : account'.ledger[n] = account.ledger[n]
       /\ account'.ledger[n0].plan = id
       /\ account'.ledger[n0].proposal = pr
       /\ account'.ledger[n0].balanceAfter = CashAfter(pr, account)
  <2>1. [plan |-> id, proposal |-> pr, balanceAfter |-> CashAfter(pr, account)] \in LedgerEntry
    BY <1>1, Amounts DEF LedgerEntry
  <2> QED BY <1>1, <1>4, <1>13, <1>14, <2>1, AppendProperties
<1>16. LedgerFollowsEvents'
  <2> SUFFICES ASSUME NEW n \in DOMAIN events'
               PROVE  /\ account'.ledger[n].proposal = events'[n].proposal
                      /\ account'.ledger[n].balanceAfter = plans'[events'[n].plan].cashAfter
    BY <1>15 DEF LedgerFollowsEvents, PlanOf
  <2>1. CASE n = n0
    BY <1>2, <1>8, <1>15, <2>1
  <2>2. CASE n \in DOMAIN events
    BY <1>4, <1>7, <1>15, <2>2 DEF SafeStore, LedgerFollowsEvents
  <2> QED BY <1>4, <2>1, <2>2
<1>17. AccountIsProjection'
  <2>1. \A n \in DOMAIN events' : account'.ledger[n].plan = events'[n].plan
    BY <1>4, <1>8, <1>15 DEF SafeStore, AccountIsProjection
  <2>2. /\ events'[n0].cashAfter = CashAfter(pr, account)
        /\ events'[n0].positionAfter = PositionAfter(pr, account)
    BY <1>4 DEF AppliedEvent
  <2> QED BY <1>4, <1>13, <1>15, <2>1, <2>2 DEF AccountIsProjection, BookCash, BookPosition
<1>18. EventsContinuous'
  <2>1. /\ events'[n0].cashBefore = account.cash
        /\ events'[n0].positionBefore = account.position
    BY <1>4 DEF AppliedEvent
  <2>2. /\ account.cash = BookCash
        /\ account.position = BookPosition
        /\ EventsContinuous
    BY DEF SafeStore, AccountIsProjection
  <2> SUFFICES ASSUME NEW n \in DOMAIN events'
               PROVE  /\ events'[n].cashBefore
                            = IF n = 1 THEN InitCash ELSE events'[n - 1].cashAfter
                      /\ events'[n].positionBefore
                            = IF n = 1 THEN InitPosition ELSE events'[n - 1].positionAfter
    BY DEF EventsContinuous
  <2>3. CASE n = n0
    <3>1. CASE events = <<>>
      BY <1>4, <2>1, <2>2, <2>3, <3>1 DEF BookCash, BookPosition
    <3>2. CASE events # <<>>
      <4>1. Len(events) \in DOMAIN events /\ n - 1 = Len(events) /\ n # 1
        BY <1>1, <1>4, <2>3, <3>2
      <4> QED BY <1>4, <2>1, <2>2, <2>3, <3>2, <4>1 DEF BookCash, BookPosition
    <3> QED BY <3>1, <3>2
  <2>4. CASE n \in DOMAIN events
    <3>1. n # 1 => n - 1 \in DOMAIN events
      BY <1>4, <2>4
    <3> QED BY <1>4, <2>2, <2>4, <3>1 DEF EventsContinuous
  <2> QED BY <1>4, <2>3, <2>4
<1> QED BY <1>9, <1>10, <1>11, <1>12, <1>16, <1>17, <1>18 DEF SafeStore

LEMMA SafeStep ==
    ASSUME SafeDeployment, SafeInv, [Next]_vars
    PROVE  SafeInv'
<1>1. /\ CustodyInv /\ SafeStore /\ TypeOK
      /\ \A q \in Procs : ReconcileFresh(q)
      /\ \A q \in Procs : LocalInv(q)
  BY DEF SafeInv, CustodyInv
<1>2. CustodyInv' /\ RowsKept
  BY <1>1, CustodyStep DEF SafeDeployment, PlanIdsSafe
<1>3. ASSUME NEW p \in Procs, Return(p), SafeStore'
      PROVE  SafeInv'
  <2> SUFFICES ASSUME NEW q \in Procs PROVE ReconcileFresh(q)'
    BY <1>2, <1>3 DEF SafeInv
  <2>1. CASE q = p
    <3>1. pc'[q] = "idle"
      BY <1>1, <1>3, <2>1 DEF Return, TypeOK
    <3> QED BY <3>1 DEF ReconcileFresh, ReconcileSteps
  <2>2. CASE q # p
    <3>1. pc'[q] = pc[q]
      BY <1>1, <1>3, <2>2 DEF Return, TypeOK
    <3>2. Reconcilers = {}
      BY <2>2 DEF SafeDeployment, SoleProcess
    <3>3. pc[q] \notin ReconcileSteps
      BY <1>1, <3>2 DEF ReconcileFresh
    <3> QED BY <3>1, <3>3 DEF ReconcileFresh, ReconcileSteps
  <2> QED BY <2>1, <2>2
<1>4. ASSUME NEW p \in Procs, NEW step, NEW l, Goto(p, step, l), SafeStore', ReconcileFresh(p)'
      PROVE  SafeInv'
  <2> SUFFICES ASSUME NEW q \in Procs, q # p PROVE ReconcileFresh(q)'
    BY <1>2, <1>4 DEF SafeInv
  <2>1. pc'[q] = pc[q]
    BY <1>1, <1>4 DEF Goto, TypeOK
  <2>2. Reconcilers = {}
    BY DEF SafeDeployment, SoleProcess
  <2>3. pc[q] \notin ReconcileSteps
    BY <1>1, <2>2 DEF ReconcileFresh
  <2> QED BY <2>1, <2>3 DEF ReconcileFresh, ReconcileSteps
<1>5. ASSUME NEW p \in Procs, NEW step, NEW l, Goto(p, step, l)
      PROVE  pc'[p] = step /\ loc'[p] = l
  BY <1>1, <1>5 DEF Goto, TypeOK
<1>6. ASSUME UNCHANGED <<account, events, plans>>
      PROVE  SafeStore'
  BY <1>1, <1>6, StoreUnchanged
<1>7. ASSUME NEW p \in Procs, NEW step \in Steps \ ReconcileSteps, NEW l, Goto(p, step, l),
             UNCHANGED <<account, events, plans>>
      PROVE  SafeInv'
  <2>1. ReconcileFresh(p)'
    BY <1>5, <1>7 DEF ReconcileFresh, ReconcileSteps
  <2> QED BY <1>4, <1>6, <1>7, <2>1
<1>8. ASSUME UNCHANGED <<account, events, plans, pc, loc>>
      PROVE  SafeInv'
  <2>1. \A q \in Procs : ReconcileFresh(q)'
    BY <1>1, <1>8 DEF ReconcileFresh, PlanIds
  <2> QED BY <1>2, <1>6, <1>8, <2>1 DEF SafeInv
<1>9. /\ ClaimedAccount.cash = account.cash
      /\ ClaimedAccount.position = account.position
      /\ ClaimedAccount.latestSeq = account.latestSeq
      /\ ClaimedAccount.ledger = account.ledger
  BY <1>1 DEF ClaimedAccount, TypeOK, Account
<1>10. CASE UNCHANGED vars
  BY <1>8, <1>10 DEF vars, database
<1>11. ASSUME NEW state \in Requested, UpdateControl(state)
       PROVE  SafeInv'
  BY <1>8, <1>11 DEF UpdateControl
<1>12. ASSUME NEW e \in Expiring, Lapse(e[1], e[2])
       PROVE  SafeInv'
  BY <1>8, <1>12 DEF Lapse
<1>13. ASSUME NEW p \in Procs, Approve(p)
       PROVE  SafeInv'
  <2>1. ASSUME NEW pr \in Proposals, NEW k \in Keys, ApproveReadAccount(p, pr, k)
        PROVE  SafeInv'
    BY <1>7, <2>1 DEF ApproveReadAccount, Steps, ReconcileSteps, database
  <2>2. ASSUME ApproveReadEvent(p)
        PROVE  SafeInv'
    BY <1>7, <2>2 DEF ApproveReadEvent, Steps, ReconcileSteps, database
  <2>3. ASSUME ApproveSave(p)
        PROVE  SafeInv'
    BY <1>3, <1>6, <2>3 DEF ApproveSave
  <2>4. ASSUME ApproveRefuse(p)
        PROVE  SafeInv'
    BY <1>3, <1>6, <2>4 DEF ApproveRefuse, database
  <2> QED BY <1>13, <2>1, <2>2, <2>3, <2>4 DEF Approve
<1>14. ASSUME NEW p \in Procs, Execute(p)
       PROVE  SafeInv'
  <2>1. ASSUME NEW pr \in Proposals, ExecReadControl(p, pr)
        PROVE  SafeInv'
    BY <1>7, <2>1 DEF ExecReadControl, Steps, ReconcileSteps, database
  <2>2. ASSUME ExecReadAccount(p)
        PROVE  SafeInv'
    BY <1>7, <2>2 DEF ExecReadAccount, Steps, ReconcileSteps, database
  <2>3. ASSUME ExecReadEvent(p)
        PROVE  SafeInv'
    BY <1>7, <2>3 DEF ExecReadEvent, Steps, ReconcileSteps, database
  <2>4. ASSUME ExecReadApproval(p)
        PROVE  SafeInv'
    <3>1. PICK l : Goto(p, "exec_check", l)
      BY <2>4 DEF ExecReadApproval, ApprovalFound, NoApprovalFound
    <3> QED BY <1>7, <2>4, <3>1 DEF ExecReadApproval, Steps, ReconcileSteps, database
  <2>5. ASSUME ExecReplay(p)
        PROVE  SafeInv'
    BY <1>3, <1>6, <2>5 DEF ExecReplay, database
  <2>6. ASSUME ExecDecide(p)
        PROVE  SafeInv'
    BY <1>7, <2>6 DEF ExecDecide, Steps, ReconcileSteps, database
  <2>7. ASSUME ExecSaveBlocked(p)
        PROVE  SafeInv'
    <3>1. /\ Return(p)
          /\ UNCHANGED <<events, account>>
          /\ \/ plans' = plans
             \/ /\ plans' = Append(plans, BlockedPlan(loc[p], loc[p].account))
                /\ ~HasPlanForKey(loc[p].proposal, loc[p].key)
      BY <2>7 DEF ExecSaveBlocked
    <3>2. BlockedPlan(loc[p], loc[p].account) \in Plan
      BY <1>1 DEF TypeOK, BlockedPlan, Local, Account, Plan, PlanStatuses
    <3>3. SafeStore'
      BY <1>1, <1>6, <3>1, <3>2, StoreBlocked DEF BlockedPlan
    <3> QED BY <1>3, <3>1, <3>3
  <2>8. ASSUME TxClaimLost(p)
        PROVE  SafeInv'
    BY <1>3, <1>6, <2>8 DEF TxClaimLost, database
  <2>9. ASSUME TxReplay(p)
        PROVE  SafeInv'
    BY <1>1, <1>3, <1>9, <2>9, StoreUnchanged DEF TxReplay
  <2>10. ASSUME TxBlocked(p)
         PROVE  SafeInv'
    <3>1. /\ Return(p)
          /\ UNCHANGED events
          /\ account' = ClaimedAccount
          /\ plans' = Append(plans, BlockedPlan(loc[p], account))
          /\ ~HasPlanForKey(loc[p].proposal, loc[p].key)
      BY <2>10 DEF TxBlocked, TxDecides
    <3>2. BlockedPlan(loc[p], account) \in Plan
      BY <1>1 DEF TypeOK, BlockedPlan, Local, Account, Plan, PlanStatuses
    <3>3. SafeStore'
      BY <1>1, <1>9, <3>1, <3>2, StoreBlocked DEF BlockedPlan
    <3> QED BY <1>3, <3>1, <3>3
  <2>11. ASSUME TxFill(p)
         PROVE  SafeInv'
    BY <1>1, <1>3, <2>11, StoreFilled DEF TxFill
  <2>12. ASSUME TxRollback(p)
         PROVE  SafeInv'
    BY <1>7, <2>12 DEF TxRollback, Steps, ReconcileSteps, database
  <2>13. ASSUME BlockAfterFailure(p)
         PROVE  SafeInv'
    <3>1. /\ loc[p].planId \notin PlanIds
          /\ loc[p].plan \in Plan
          /\ loc[p].plan.status = "blocked"
          /\ loc[p].plan.proposal = loc[p].proposal
          /\ loc[p].plan.key = loc[p].key
          /\ ~HasPlanForKey(loc[p].proposal, loc[p].key)
      BY <1>1, <2>13
         DEF BlockAfterFailure, LocalInv, RolledBackPlanFree, TypeOK, Local, PlanIds
    <3>2. /\ Return(p)
          /\ UNCHANGED <<events, account>>
          /\ plans' = Append(plans, loc[p].plan)
      BY <2>13, <3>1 DEF BlockAfterFailure, HasPlanForKey
    <3>3. SafeStore'
      BY <1>1, <3>1, <3>2, StoreBlocked
    <3> QED BY <1>3, <3>2, <3>3
  <2> QED BY <1>14, <2>1, <2>2, <2>3, <2>4, <2>5, <2>6, <2>7, <2>8, <2>9, <2>10, <2>11,
             <2>12, <2>13 DEF Execute
<1>15. ASSUME NEW p \in Procs, Reconcile(p)
       PROVE  SafeInv'
  <2>1. ASSUME p \in Reconcilers, NEW id \in PlanIds, ReconcileReadPlan(p, id)
        PROVE  SafeInv'
    <3>1. /\ Goto(p, "reconcile_account",
                  [NoLocal EXCEPT !.planId = id, !.plan = plans[id]])
          /\ plans[id].status # "blocked"
          /\ UNCHANGED <<account, events, plans>>
      BY <2>1 DEF ReconcileReadPlan, database
    <3>2. /\ pc'[p] = "reconcile_account"
          /\ loc'[p].planId = id
          /\ loc'[p].plan = plans[id]
      <4>1. /\ pc'[p] = "reconcile_account"
            /\ loc'[p] = [NoLocal EXCEPT !.planId = id, !.plan = plans[id]]
        BY <1>5, <3>1
      <4> QED BY <4>1, NullRows DEF Local
    <3>3. plans[id].status \in AppliedStatuses
      BY <1>1, <3>1 DEF SafeStore, PlansSettled
    <3>4. ReconcileFresh(p)'
      BY <2>1, <3>1, <3>2, <3>3 DEF ReconcileFresh, PlanIds
    <3> QED BY <1>4, <1>6, <3>1, <3>4
  <2>2. ASSUME ReconcileReadAccount(p)
        PROVE  SafeInv'
    <3>1. /\ pc[p] = "reconcile_account"
          /\ Goto(p, "reconcile_save_account",
                  [loc[p] EXCEPT !.account = account, !.plan = Reconciled(@, account)])
          /\ UNCHANGED <<account, events, plans>>
      BY <2>2 DEF ReconcileReadAccount, database
    <3>2. /\ p \in Reconcilers
          /\ loc[p].planId \in PlanIds
          /\ plans[loc[p].planId].status \in AppliedStatuses
          /\ loc[p].plan = plans[loc[p].planId]
      BY <1>1, <3>1 DEF ReconcileFresh, ReconcileSteps
    <3>3. loc[p] \in Local
      BY <1>1 DEF TypeOK
    <3>4. /\ pc'[p] = "reconcile_save_account"
          /\ loc'[p].planId = loc[p].planId
          /\ loc'[p].account = account
          /\ loc'[p].plan = Reconciled(loc[p].plan, account)
      <4>1. /\ pc'[p] = "reconcile_save_account"
            /\ loc'[p] = [loc[p] EXCEPT !.account = account,
                                        !.plan = Reconciled(@, account)]
        BY <1>5, <3>1
      <4> QED BY <3>3, <4>1 DEF Local
    <3>5. loc'[p].plan = [plans[loc[p].planId] EXCEPT !.status = "reconciled"]
      BY <1>1, <3>2, <3>4, AppliedPlanReconciles
    <3>6. ReconcileFresh(p)'
      BY <3>1, <3>2, <3>4, <3>5 DEF ReconcileFresh, PlanIds
    <3> QED BY <1>4, <1>6, <3>1, <3>6
  <2>3. ASSUME ReconcileSaveAccount(p)
        PROVE  SafeInv'
    <3>1. /\ pc[p] = "reconcile_save_account"
          /\ account' = loc[p].account
          /\ Goto(p, "reconcile_save_plan", loc[p])
          /\ UNCHANGED <<events, plans>>
      BY <2>3 DEF ReconcileSaveAccount
    <3>2. account' = account
      BY <1>1, <3>1 DEF ReconcileFresh
    <3>3. pc'[p] = "reconcile_save_plan" /\ loc'[p] = loc[p]
      BY <1>5, <3>1
    <3>4. ReconcileFresh(p)'
      BY <1>1, <3>1, <3>3 DEF ReconcileFresh, ReconcileSteps, PlanIds
    <3> QED BY <1>4, <1>6, <3>1, <3>2, <3>4
  <2>4. ASSUME ReconcileSavePlan(p)
        PROVE  SafeInv'
    <3>1. /\ pc[p] = "reconcile_save_plan"
          /\ plans' = [plans EXCEPT ![loc[p].planId] = loc[p].plan]
          /\ UNCHANGED <<account, events>>
          /\ Return(p)
      BY <2>4 DEF ReconcileSavePlan
    <3>2. /\ loc[p].planId \in PlanIds
          /\ plans[loc[p].planId].status \in AppliedStatuses
          /\ loc[p].plan = [plans[loc[p].planId] EXCEPT !.status = "reconciled"]
      BY <1>1, <3>1 DEF ReconcileFresh, ReconcileSteps
    <3>3. SafeStore'
      BY <1>1, <3>1, <3>2, StoreReconciled
    <3> QED BY <1>3, <3>1, <3>3
  <2> QED BY <1>15, <2>1, <2>2, <2>3, <2>4 DEF Reconcile
<1>16. ASSUME NEW p \in Procs, Crash(p)
       PROVE  SafeInv'
  BY <1>3, <1>6, <1>16 DEF Crash, database
<1> QED BY <1>10, <1>11, <1>12, <1>13, <1>14, <1>15, <1>16 DEF Next

LEMMA SafeInit == Init => SafeInv
<1> SUFFICES ASSUME Init PROVE SafeInv
  OBVIOUS
<1>1. CustodyInv
  BY CustodyInit
<1>2. /\ PlanIds = {} /\ DOMAIN events = {} /\ events = <<>>
      /\ account = OpenedAccount
      /\ \A p \in Procs : pc[p] = "idle"
  BY DEF Init, PlanIds
<1>3. /\ account.cash = InitCash /\ account.position = InitPosition
      /\ account.latestSeq = 0 /\ account.ledger = <<>>
  BY <1>2 DEF OpenedAccount
<1>4. SafeStore
  BY <1>2, <1>3
     DEF SafeStore, PlansSettled, AppliedPlansRecorded, AppliedPlansStayLive, SingleLivePlan,
         LedgerFollowsEvents, AccountIsProjection, EventsContinuous, BookCash, BookPosition
<1>5. \A p \in Procs : ReconcileFresh(p)
  BY <1>2 DEF ReconcileFresh, ReconcileSteps
<1> QED BY <1>1, <1>4, <1>5 DEF SafeInv

LEMMA SafeInvariant ==
    ASSUME SafeDeployment
    PROVE  Spec => []SafeInv
<1>1. SafeInv /\ [Next]_vars => SafeInv'
  BY SafeStep
<1> QED BY <1>1, SafeInit, PTL DEF Spec

\* Where no reconciliation races with executions, no interleaving of approvals,
\* executions and crashes fills a proposal under two plans.
THEOREM NoDoubleFill ==
    ASSUME SafeDeployment
    PROVE  Spec => []SingleLivePlan
<1>1. SafeInv => SingleLivePlan
  BY DEF SafeInv, SafeStore
<1> QED BY <1>1, SafeInvariant, PTL

\* Where no reconciliation races with executions, the account row is what the event log
\* says (AccountIsProjection).
THEOREM Accounting ==
    ASSUME SafeDeployment
    PROVE  Spec => []AccountIsProjection
<1>1. SafeInv => AccountIsProjection
  BY DEF SafeInv, SafeStore
<1> QED BY <1>1, SafeInvariant, PTL

\* Where no reconciliation races with executions, the events follow one another without a
\* gap in the balances: each begins where the one before it ended (EventsContinuous).
THEOREM BalancesFollow ==
    ASSUME SafeDeployment
    PROVE  Spec => []EventsContinuous
<1>1. SafeInv => EventsContinuous
  BY DEF SafeInv, SafeStore
<1> QED BY <1>1, SafeInvariant, PTL

\* Where no reconciliation races with executions, a plan whose fill is recorded is never
\* taken back.
THEOREM FillsStand ==
    ASSUME SafeDeployment
    PROVE  Spec => []AppliedPlansStayLive
<1>1. SafeInv => AppliedPlansStayLive
  BY DEF SafeInv, SafeStore
<1> QED BY <1>1, SafeInvariant, PTL

-----------------------------------------------------------------------------
(* Holds *)

LEMMA HoldsStep ==
    ASSUME PlanIdsSafe, CustodyInv, HoldsSettled, [Next]_vars
    PROVE  HoldsSettled'
<1>1. TypeOK /\ RowsKept
  BY CustodyStep DEF CustodyInv
<1>2. ASSUME NEW pr \in Proposals, NEW k \in Keys, holds'[pr][k] = holds[pr][k],
             \A n \in DOMAIN events : n \in DOMAIN events' /\ events'[n] = events[n]
      PROVE  LET h == holds'[pr][k]
             IN  /\ h.status # "reserved"
                 /\ h.status = "consumed" =>
                       /\ h.plan \in PlanIds'
                       /\ plans'[h.plan].proposal = pr /\ plans'[h.plan].key = k
                       /\ \E n \in DOMAIN events' : events'[n].plan = h.plan
  BY <1>1, <1>2 DEF HoldsSettled, RowsKept
<1>3. CASE UNCHANGED <<holds, events>>
  BY <1>2, <1>3 DEF HoldsSettled
<1>4. ASSUME NEW p \in Procs, BlockAfterFailure(p)
      PROVE  HoldsSettled'
  <2>1. loc[p].proposal \in Proposals /\ loc[p].key \in Keys
    BY <1>1 DEF TypeOK, Local
  <2>2. UNCHANGED <<holds, events>>
    BY <1>4, <2>1 DEF BlockAfterFailure, ReleaseHold, HoldsSettled
  <2> QED BY <1>3, <2>2
<1>5. ASSUME NEW p \in Procs, TxFill(p)
      PROVE  HoldsSettled'
  <2> DEFINE pr == loc[p].proposal
             k  == loc[p].key
             id == Len(plans) + 1
  <2>1. /\ pr \in Proposals /\ k \in Keys
        /\ events \in Seq(Event) /\ plans \in Seq(Plan)
        /\ holds \in [Proposals -> [Keys -> Hold]]
    BY <1>1 DEF TypeOK, Local
  <2>2. /\ holds' = ConsumeHold(PersistHold(holds, pr, k), pr, k, id)
        /\ events' = Append(events, AppliedEvent(pr, id))
        /\ plans' = Append(plans, FilledPlan(loc[p], account))
    BY <1>5 DEF TxFill
  <2>3. /\ \A n \in DOMAIN events : n \in DOMAIN events' /\ events'[n] = events[n]
        /\ Len(events) + 1 \in DOMAIN events'
        /\ events'[Len(events) + 1].plan = id
    BY <2>1, <2>2 DEF AppliedEvent
  <2>4. /\ id \in PlanIds'
        /\ plans'[id].proposal = pr /\ plans'[id].key = k
    BY <2>1, <2>2 DEF PlanIds, FilledPlan
  <2>5. \A pr2 \in Proposals, k2 \in Keys :
           pr2 # pr \/ k2 # k => holds'[pr2][k2] = holds[pr2][k2]
    BY <2>1, <2>2 DEF PersistHold, ConsumeHold
  <2>6. \/ holds'[pr][k] = holds[pr][k]
        \/ holds'[pr][k].status = "consumed" /\ holds'[pr][k].plan = id
    <3>1. CASE holds[pr][k].status = "none"
      <4> DEFINE h == [status |-> "reserved", cash |-> RequiredCash(pr),
                       sell |-> RequiredSell(pr), plan |-> 0]
      <4>1. PersistHold(holds, pr, k)[pr][k] = h
        BY <2>1, <3>1 DEF PersistHold
      <4>2. PersistHold(holds, pr, k) \in [Proposals -> [Keys -> Hold]]
        BY <2>1, HoldTypes
      <4>3. holds'[pr][k] = [h EXCEPT !.status = "consumed", !.plan = id]
        BY <2>1, <2>2, <4>1, <4>2 DEF ConsumeHold
      <4> QED BY <4>3
    <3>2. CASE holds[pr][k].status # "none"
      BY <2>1, <2>2, <3>2 DEF PersistHold, ConsumeHold, HoldsSettled
    <3> QED BY <3>1, <3>2
  <2>7. CASE holds'[pr][k] = holds[pr][k]
    BY <1>2, <2>3, <2>5, <2>7 DEF HoldsSettled
  <2>8. CASE holds'[pr][k].status = "consumed" /\ holds'[pr][k].plan = id
    BY <1>2, <2>3, <2>4, <2>5, <2>8 DEF HoldsSettled
  <2> QED BY <2>6, <2>7, <2>8
<1> QED
  BY <1>3, <1>4, <1>5
     DEF Next, Approve, Execute, Reconcile, vars, database, UpdateControl, Lapse,
         ApproveReadAccount, ApproveReadEvent, ApproveSave, ApproveRefuse,
         ExecReadControl, ExecReadAccount, ExecReadEvent, ExecReadApproval, ApprovalFound,
         NoApprovalFound, ExecReplay,
         ExecDecide, ExecSaveBlocked, TxClaimLost, TxReplay, TxBlocked, TxRollback,
         ReconcileReadPlan, ReconcileReadAccount, ReconcileSaveAccount,
         ReconcileSavePlan, Crash

\* Where a rolled-back id cannot be taken by another process, no hold outlives its
\* execution and what it consumed is in the event log.
THEOREM HoldsEnd ==
    ASSUME PlanIdsSafe
    PROVE  Spec => []HoldsSettled
<1>1. Init => HoldsSettled
  BY DEF Init, HoldsSettled, NoHold
<1>2. CustodyInv /\ HoldsSettled /\ [Next]_vars => HoldsSettled'
  BY HoldsStep
<1>3. CustodyInv /\ [Next]_vars => CustodyInv'
  BY CustodyStep
<1> QED BY <1>1, <1>2, <1>3, CustodyInit, PTL DEF Spec

\* With no hold open, what is available is the whole balance.
LEMMA NothingReserved ==
    ASSUME HoldsSettled
    PROVE  ReservedCash = 0 /\ ReservedSell = 0
<1>1. OpenHolds = {}
  BY DEF HoldsSettled, OpenHolds
<1>2. MapThenSumSet(LAMBDA h : holds[h[1]][h[2]].cash, {}) = 0
  BY DEF MapThenSumSet, MapThenFoldSet
<1>3. MapThenSumSet(LAMBDA h : holds[h[1]][h[2]].sell, {}) = 0
  BY DEF MapThenSumSet, MapThenFoldSet
<1> QED BY <1>1, <1>2, <1>3 DEF ReservedCash, ReservedSell

-----------------------------------------------------------------------------
(* Funds, the book and the execution control *)

LEMMA OnlyFillsRecord ==
    ASSUME [Next]_vars
    PROVE  UNCHANGED events \/ \E p \in Procs : TxFill(p)
BY DEF Next, Approve, Execute, Reconcile, vars, database, UpdateControl, Lapse,
       ApproveReadAccount, ApproveReadEvent, ApproveSave, ApproveRefuse,
       ExecReadControl, ExecReadAccount, ExecReadEvent, ExecReadApproval, ApprovalFound,
         NoApprovalFound, ExecReplay,
       ExecDecide, ExecSaveBlocked, TxClaimLost, TxReplay, TxBlocked, TxRollback,
       BlockAfterFailure, ReconcileReadPlan, ReconcileReadAccount, ReconcileSaveAccount,
       ReconcileSavePlan, Crash

LEMMA RecordedFill ==
    ASSUME TypeOK, NEW p \in Procs, TxFill(p)
    PROVE  LET pr == loc[p].proposal
           IN  /\ pr \in Proposals
               /\ events' # <<>>
               /\ DOMAIN events' = DOMAIN events \cup {Len(events')}
               /\ DOMAIN events' \ DOMAIN events = {Len(events')}
               /\ \A n \in DOMAIN events : events'[n] = events[n]
               /\ events'[Len(events')].proposal = pr
               /\ events'[Len(events')].cashAfter = CashAfter(pr, account)
               /\ events'[Len(events')].positionAfter = PositionAfter(pr, account)
<1> DEFINE pr == loc[p].proposal
           e  == AppliedEvent(pr, Len(plans) + 1)
<1>1. events \in Seq(Event) /\ pr \in Proposals
  BY DEF TypeOK, Local
<1>2. events' = Append(events, e)
  BY DEF TxFill
<1>3. /\ e.proposal = pr
      /\ e.cashAfter = CashAfter(pr, account)
      /\ e.positionAfter = PositionAfter(pr, account)
  BY DEF AppliedEvent
<1>4. /\ Len(events') = Len(events) + 1
      /\ events' # <<>>
      /\ DOMAIN events' = DOMAIN events \cup {Len(events) + 1}
      /\ Len(events) + 1 \notin DOMAIN events
      /\ \A n \in DOMAIN events : events'[n] = events[n]
      /\ events'[Len(events) + 1] = e
  BY <1>1, <1>2
<1> QED BY <1>1, <1>3, <1>4

\* What a fill found in the account when it was permitted.
LEMMA FillFunded ==
    ASSUME TypeOK, HoldsSettled, NEW p \in Procs, TxFill(p)
    PROVE  LET pr == loc[p].proposal
           IN  \/ /\ Side[pr] = "BUY"
                  /\ account.cash >= Notional[pr] + Cost[pr]
                  /\ CashAfter(pr, account) = account.cash - (Notional[pr] + Cost[pr])
                  /\ PositionAfter(pr, account) = account.position + Notional[pr]
               \/ /\ Side[pr] = "SELL"
                  /\ account.position >= Notional[pr]
                  /\ CashAfter(pr, account) = account.cash + Notional[pr] - Cost[pr]
                  /\ PositionAfter(pr, account) = account.position - Notional[pr]
<1> DEFINE pr == loc[p].proposal
<1>1. /\ pr \in Proposals
      /\ account.cash \in Int /\ account.position \in Int
  BY DEF TypeOK, Local, Account
<1>2. /\ Notional[pr] \in Nat \ {0} /\ Cost[pr] \in Nat
      /\ Side[pr] \in {"BUY", "SELL"}
  BY <1>1, ProposalAssumption
<1>3. CashSufficient(pr, account) /\ PositionsSufficient(pr, account)
  BY DEF TxFill, Permitted
<1>4. /\ AtLeastZero(account.cash - 0) >= RequiredCash(pr)
      /\ AtLeastZero(account.position - 0) >= RequiredSell(pr)
  BY <1>3, NothingReserved DEF CashSufficient, PositionsSufficient
<1>5. CASE Side[pr] = "BUY"
  BY <1>1, <1>2, <1>4, <1>5 DEF AtLeastZero, RequiredCash, CashAfter, PositionAfter
<1>6. CASE Side[pr] = "SELL"
  BY <1>1, <1>2, <1>4, <1>6 DEF AtLeastZero, RequiredSell, CashAfter, PositionAfter
<1> QED BY <1>2, <1>5, <1>6

EventsFunded ==
    \A n \in DOMAIN events : events[n].cashAfter >= 0 /\ events[n].positionAfter >= 0

CostsWithinNotional == \A pr \in Proposals : Cost[pr] <= Notional[pr]

LEMMA AccountFunded ==
    ASSUME TypeOK, AccountIsProjection, EventsFunded
    PROVE  account.cash >= 0 /\ account.position >= 0
<1>1. events \in Seq(Event) /\ InitCash >= 0 /\ InitPosition >= 0
  BY DeploymentAssumption DEF TypeOK
<1>2. events # <<>> => Len(events) \in DOMAIN events
  BY <1>1
<1> QED BY <1>1, <1>2 DEF AccountIsProjection, EventsFunded, BookCash, BookPosition

\* Where no reconciliation races with executions and no fee exceeds its order, no fill
\* leaves cash or the position negative.
THEOREM Funded ==
    ASSUME SafeDeployment, CostsWithinNotional
    PROVE  Spec => []NeverOverdrawn
<1>1. PlanIdsSafe
  BY DEF SafeDeployment, PlanIdsSafe
<1>2. Init => EventsFunded
  BY DEF Init, EventsFunded
<1>3. SafeInv /\ HoldsSettled /\ EventsFunded /\ [Next]_vars => EventsFunded'
  <2> SUFFICES ASSUME SafeInv, HoldsSettled, EventsFunded, [Next]_vars PROVE EventsFunded'
    OBVIOUS
  <2>1. TypeOK /\ AccountIsProjection
    BY DEF SafeInv, CustodyInv, SafeStore
  <2>2. CASE UNCHANGED events
    BY <2>2 DEF EventsFunded
  <2>3. ASSUME NEW p \in Procs, TxFill(p)
        PROVE  EventsFunded'
    <3> DEFINE pr == loc[p].proposal
    <3>1. /\ pr \in Proposals /\ Notional[pr] \in Nat /\ Cost[pr] \in Nat
          /\ Cost[pr] <= Notional[pr]
          /\ account.cash \in Int /\ account.position \in Int
      BY <2>1, <2>3, RecordedFill, ProposalAssumption DEF CostsWithinNotional, TypeOK, Account
    <3>2. CashAfter(pr, account) >= 0 /\ PositionAfter(pr, account) >= 0
      BY <2>1, <2>3, <3>1, AccountFunded, FillFunded
    <3> QED BY <2>1, <2>3, <3>2, RecordedFill DEF EventsFunded
  <2> QED BY <2>2, <2>3, OnlyFillsRecord
<1>4. SafeInv /\ EventsFunded => NeverOverdrawn
  BY AccountFunded DEF NeverOverdrawn, EventsFunded, SafeInv, CustodyInv, SafeStore
<1> QED BY <1>1, <1>2, <1>3, <1>4, SafeInvariant, HoldsEnd, PTL DEF Spec

\* Where no reconciliation races with executions, every step of every process is a fill
\* that the book of PaperLedger allows, or leaves the book as it is.
THEOREM Refinement ==
    ASSUME SafeDeployment
    PROVE  Spec => ImplementsLedger
<1>1. PlanIdsSafe
  BY DEF SafeDeployment, PlanIdsSafe
<1>2. Init => Ledger!Open
  BY DEF Init, Ledger!Open, BookCash, BookPosition, BookFilled
<1>3. SafeInv /\ HoldsSettled /\ [Next]_vars
         => [\E pr \in Proposals : Ledger!Fill(pr)]_(Ledger!bookVars)
  <2> SUFFICES ASSUME SafeInv, HoldsSettled, [Next]_vars
               PROVE  \/ \E pr \in Proposals : Ledger!Fill(pr)
                      \/ UNCHANGED <<BookCash, BookPosition, BookFilled>>
    BY DEF Ledger!bookVars
  <2>1. /\ TypeOK
        /\ account.cash = BookCash /\ account.position = BookPosition
        /\ AppliedPlansStayLive
    BY DEF SafeInv, CustodyInv, SafeStore, AccountIsProjection
  <2>2. CASE UNCHANGED events
    BY <2>2 DEF BookCash, BookPosition, BookFilled
  <2>3. ASSUME NEW p \in Procs, TxFill(p)
        PROVE  \E pr \in Proposals : Ledger!Fill(pr)
    <3> DEFINE pr == loc[p].proposal
    <3>1. /\ pr \in Proposals
          /\ BookCash' = CashAfter(pr, account)
          /\ BookPosition' = PositionAfter(pr, account)
      BY <2>1, <2>3, RecordedFill DEF BookCash, BookPosition
    <3>2. BookFilled' = BookFilled \cup {pr}
      BY <2>1, <2>3, RecordedFill DEF BookFilled
    <3>3. pr \notin BookFilled
      <4>1. NoLivePlan(pr)
        BY <2>3 DEF TxFill, Permitted
      <4> QED BY <2>1, <4>1 DEF BookFilled, NoLivePlan, AppliedPlansStayLive, PlanOf
    <3>4. Ledger!Buy(pr) \/ Ledger!Sell(pr)
      BY <2>1, <2>3, <3>1, FillFunded DEF Ledger!Buy, Ledger!Sell
    <3> QED BY <3>1, <3>2, <3>3, <3>4 DEF Ledger!Fill
  <2> QED BY <2>2, <2>3, OnlyFillsRecord
<1> QED BY <1>1, <1>2, <1>3, SafeInvariant, HoldsEnd, PTL DEF Spec, ImplementsLedger, Ledger!Book

=============================================================================
