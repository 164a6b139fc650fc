----------------------------- MODULE Proposals -----------------------------
(***************************************************************************)
(* From a research run to an evaluated proposal (ControlPlaneService:      *)
(* createBudgetEnvelope, createResearchRun, createProposal,                *)
(* evaluateProposal, runRecoveryProposal, createBaselineProposalFromRun).  *)
(*                                                                         *)
(* A worker saves a research run, a proposal, the run's link, a risk       *)
(* evaluation and the proposal's status one after the other, without a     *)
(* transaction, and may stop between any two.                              *)
(***************************************************************************)
EXTENDS RiskGate, FiniteSets

CONSTANTS
    Drafters,       \* workers
    BudgetRequests, \* what createBudgetEnvelope is asked: [mode, total, reserve, policy]
    Holdings,       \* [equity, gross, positions]: what the paper account may hold
    MaxClock, MaxProposed, MaxEvaluations   \* bounds

ASSUME ProposalsAssumption ==
    /\ \A b \in BudgetRequests :
          /\ DOMAIN b = {"mode", "total", "reserve", "policy"}
          /\ b.total \in Nat \ {0} /\ b.reserve \in Nat /\ b.reserve <= 10000
          /\ MergedPolicy(b.policy) \in Policies
    /\ \A h \in Holdings :
          /\ h.equity \in Int /\ h.gross \in Int /\ IsFiniteSet(DOMAIN h.positions)
          /\ \A s \in DOMAIN h.positions :
                h.positions[s].value \in Int /\ h.positions[s].weight \in Int
    /\ MaxClock \in Nat /\ MaxProposed \in Nat /\ MaxEvaluations \in Nat

VARIABLES
    clock,
    budget,         \* the active budget envelope, or NoBudget
    holding,        \* the promoted paper account
    researchRuns,   \* research_runs: [rule, phase]
    proposals,      \* investment_proposals
    evaluations,    \* risk_evaluations: [proposal, decision, at]
    draft           \* what each worker is doing

proposalVars == <<clock, budget, holding, researchRuns, proposals, evaluations, draft>>
proposalRows == <<researchRuns, proposals, evaluations>>

NoBudget == [mode |-> "none", total |-> 0, reserve |-> 0, policy |-> DefaultPolicy]
NoDraft == [at |-> "rest"]
Rules == {"budget-capped", "recovery"}
Phases == {"artifacts_persisted", "proposal_linked"}
ProposalStatuses == {"generated", "rejected", "needs_review", "paper_ready", "evaluated"}

ProposalsTypeOK ==
    /\ clock \in 0..MaxClock
    /\ \A i \in DOMAIN researchRuns :
          researchRuns[i].rule \in Rules /\ researchRuns[i].phase \in Phases
    /\ \A i \in DOMAIN proposals :
          /\ proposals[i].status \in ProposalStatuses
          /\ proposals[i].research \in DOMAIN researchRuns
    /\ \A i \in DOMAIN evaluations : evaluations[i].decision \in {"DENY", "REVIEW", "ALLOW"}
    /\ \A w \in Drafters : draft[w].at \in {"rest", "research", "propose", "link", "evaluate", "status"}

ProposalsInit ==
    /\ clock = 0
    /\ budget = NoBudget
    /\ holding \in Holdings
    /\ researchRuns = <<>> /\ proposals = <<>> /\ evaluations = <<>>
    /\ draft = [w \in Drafters |-> NoDraft]

-----------------------------------------------------------------------------
HourPasses ==
    /\ clock < MaxClock /\ clock' = clock + 1
    /\ UNCHANGED <<budget, holding, proposalRows, draft>>

\* createBudgetEnvelope: the defaults below the request's policy; approval by a human
\* is always required.
CreateEnvelope ==
    /\ budget = NoBudget
    /\ \E b \in BudgetRequests :
          budget' = [b EXCEPT !.policy = [MergedPolicy(@) EXCEPT !.human = TRUE]]
    /\ UNCHANGED <<clock, holding, proposalRows, draft>>

\* External: a fill changes what the account holds.
HoldingMoves ==
    /\ holding' \in Holdings \ {holding}
    /\ UNCHANGED <<clock, budget, proposalRows, draft>>

-----------------------------------------------------------------------------
(* What is proposed. *)

RoundDiv(a, b) == (2 * a + b) \div (2 * b)      \* roundMoney of a / b

\* Mutant: the cap on one order is forgotten.
UncappedNotional(b) ==
    Min({RoundDiv(b.total * (10000 - b.reserve), 10000),
         RoundDiv(b.total * b.policy.maxSingle, 10000)})
\* createBaselineProposalFromRun: the smallest of the investable budget, the
\* single-position limit and the cap on one order.
BaselineNotional(b) ==
    Min({RoundDiv(b.total * (10000 - b.reserve), 10000),
         RoundDiv(b.total * b.policy.maxSingle, 10000),
         b.policy.maxNotional})

BaselineOrders(b) ==
    <<[symbol |-> "basket", class |-> "domestic_etf", side |-> "BUY",
       notional |-> BaselineNotional(b),
       target |-> RoundDiv(BaselineNotional(b) * 10000, b.total), leveraged |-> FALSE]>>

SeedPortfolio(b) ==
    [equity |-> b.total, gross |-> 0, dailyPnl |-> 0, drawdown |-> 0,
     positions |-> [s \in {} |-> 0]]

AccountPortfolio(h) ==
    [equity |-> h.equity, gross |-> h.gross, dailyPnl |-> 0, drawdown |-> 0,
     positions |-> h.positions]

Held(h) == {s \in DOMAIN h.positions : h.positions[s].value > 0}

\* Mutant: the whole position is sold at once.
SellAll(b, value) == value
SellNotional(b, value) == Min({value, b.policy.maxNotional})

\* The largest positions first, as many as were asked for; equal ones in the account's order.
Rankings(h, n) ==
    LET value(s) == h.positions[s].value
    IN  {q \in [1..Min({n, Cardinality(Held(h))}) -> Held(h)] :
            /\ \A i, j \in DOMAIN q : i < j => q[i] # q[j] /\ value(q[i]) >= value(q[j])
            /\ \A i \in DOMAIN q, s \in Held(h) \ {q[k] : k \in DOMAIN q} : value(q[i]) >= value(s)}

RecoveryOrders(b, h, ranking) ==
    [i \in DOMAIN ranking |->
        [symbol |-> ranking[i], class |-> "domestic_etf", side |-> "SELL",
         notional |-> SellNotional(b, h.positions[ranking[i]].value),
         target |-> 0, leveraged |-> FALSE]]

\* findExistingRecoveryProposal: one made from the same account state and budget.
SameState(n) ==
    {i \in DOMAIN proposals : proposals[i].rule = "recovery"
        /\ proposals[i].basis = [holding |-> holding, budget |-> budget, asked |-> n]}

Begin(w, d) == draft' = [draft EXCEPT ![w] = d]

\* advanceRun: research that is ready becomes a proposal.  Its market data are as old
\* as the bars it read (MarketData says which).
DraftBaseline(w) ==
    /\ draft[w] = NoDraft /\ budget # NoBudget
    /\ \E market \in 0..clock :
          Begin(w, [at |-> "research", rule |-> "budget-capped", budget |-> budget,
                    portfolio |-> SeedPortfolio(budget), orders |-> BaselineOrders(budget),
                    market |-> market, generated |-> clock, actor |-> "scheduler",
                    basis |-> [holding |-> "none"], research |-> 0, proposal |-> 0,
                    decision |-> "none"])
    /\ UNCHANGED <<clock, budget, holding, proposalRows>>

\* Mutant: a request always makes a new proposal.
AlwaysNew(n) == {}
Reusable(n) == SameState(n)

\* runRecoveryProposal: a proposal of the same state is answered, evaluated first if
\* it was not yet.
DraftRecovery(w) ==
    /\ draft[w] = NoDraft /\ budget # NoBudget /\ Held(holding) # {}
    /\ \E n \in {1, 10} : \E ranking \in Rankings(holding, n) :
          LET new == [at |-> "research", rule |-> "recovery", budget |-> budget,
                      portfolio |-> AccountPortfolio(holding),
                      orders |-> RecoveryOrders(budget, holding, ranking),
                      market |-> clock, generated |-> clock, actor |-> "scheduler",
                      basis |-> [holding |-> holding, budget |-> budget, asked |-> n],
                      research |-> 0, proposal |-> 0, decision |-> "none"]
          IN  IF Reusable(n) = {} THEN Begin(w, new)
              ELSE \E i \in Reusable(n) :
                      /\ \A j \in DOMAIN evaluations : evaluations[j].proposal # i
                      /\ Begin(w, [new EXCEPT !.at = "evaluate", !.proposal = i])
    /\ UNCHANGED <<clock, budget, holding, proposalRows>>

\* evaluateProposal on request.
EvaluateAgain(w) ==
    /\ draft[w] = NoDraft
    /\ \E i \in DOMAIN proposals :
          Begin(w, [at |-> "evaluate", proposal |-> i, decision |-> "none", generated |-> clock])
    /\ UNCHANGED <<clock, budget, holding, proposalRows>>

-----------------------------------------------------------------------------
(* The saves, in the order of the code. *)

SaveResearchRun(w) ==
    /\ draft[w].at = "research"
    /\ Len(researchRuns) < MaxProposed
    /\ researchRuns' = Append(researchRuns, [rule |-> draft[w].rule, phase |-> "artifacts_persisted"])
    /\ Begin(w, [draft[w] EXCEPT !.at = "propose", !.research = Len(researchRuns) + 1])
    /\ UNCHANGED <<clock, budget, holding, proposals, evaluations>>

SaveProposal(w) ==
    /\ draft[w].at = "propose"
    /\ LET d == draft[w]
       IN  proposals' = Append(proposals,
              [rule |-> d.rule, research |-> d.research, budget |-> d.budget, basis |-> d.basis,
               portfolio |-> d.portfolio, orders |-> d.orders, market |-> d.market,
               generated |-> d.generated, actor |-> d.actor, status |-> "generated"])
    /\ Begin(w, [draft[w] EXCEPT !.at = "link", !.proposal = Len(proposals) + 1])
    /\ UNCHANGED <<clock, budget, holding, researchRuns, evaluations>>

LinkRun(w) ==
    /\ draft[w].at = "link"
    /\ researchRuns' = [researchRuns EXCEPT ![draft[w].research].phase = "proposal_linked"]
    /\ Begin(w, [draft[w] EXCEPT !.at = "evaluate"])
    /\ UNCHANGED <<clock, budget, holding, proposals, evaluations>>

\* The request evaluateProposal puts to the gate.
GateRequest(p) ==
    [mode |-> p.budget.mode, actor |-> p.actor, provenance |-> TRUE, credentials |-> FALSE,
     accountId |-> FALSE, intent |-> "evaluate_only", generated |-> p.generated,
     market |-> p.market, portfolio |-> p.portfolio, orders |-> p.orders,
     policy |-> p.budget.policy, approved |-> FALSE]

\* The evaluation is saved; the status follows.
SaveEvaluation(w) ==
    /\ draft[w].at = "evaluate"
    /\ Len(evaluations) < MaxEvaluations
    /\ LET decision == Decision(GateRequest(proposals[draft[w].proposal]), clock)
       IN  /\ evaluations' = Append(evaluations,
                 [proposal |-> draft[w].proposal, decision |-> decision, at |-> clock])
           /\ Begin(w, [draft[w] EXCEPT !.at = "status", !.decision = decision])
    /\ UNCHANGED <<clock, budget, holding, researchRuns, proposals>>

\* Mutant: what needs review is ready in paper mode.
ReadyInPaper(decision, mode) ==
    CASE decision = "DENY"   -> "rejected"
      [] mode = "paper" /\ decision # "DENY" -> "paper_ready"
      [] OTHER               -> "evaluated"
StatusAfter(decision, mode) ==
    CASE decision = "DENY"                      -> "rejected"
      [] decision = "REVIEW"                    -> "needs_review"
      [] decision = "ALLOW" /\ mode = "paper"   -> "paper_ready"
      [] OTHER                                  -> "evaluated"

SaveStatus(w) ==
    /\ draft[w].at = "status"
    /\ proposals' = [proposals EXCEPT ![draft[w].proposal].status =
            StatusAfter(draft[w].decision, proposals[draft[w].proposal].budget.mode)]
    /\ Begin(w, NoDraft)
    /\ UNCHANGED <<clock, budget, holding, researchRuns, evaluations>>

DrafterStops(w) ==
    /\ draft[w] # NoDraft
    /\ Begin(w, NoDraft)
    /\ UNCHANGED <<clock, budget, holding, proposalRows>>

ProposalsNext ==
    \/ HourPasses \/ CreateEnvelope \/ HoldingMoves
    \/ \E w \in Drafters :
          \/ DraftBaseline(w) \/ DraftRecovery(w) \/ EvaluateAgain(w)
          \/ SaveResearchRun(w) \/ SaveProposal(w) \/ LinkRun(w)
          \/ SaveEvaluation(w) \/ SaveStatus(w) \/ DrafterStops(w)

ProposalsSpec == ProposalsInit /\ [][ProposalsNext]_proposalVars

-----------------------------------------------------------------------------
(* Properties. *)

LimitsOf(i) == proposals[i].budget.policy

\* The generators and the gate agree: a proposal the program makes itself is denied for
\* its age, the mode, or an account that is beyond a limit its orders cannot mend, and
\* never for an order the generator sized wrongly.
OwnOrdersPass ==
    \A j \in DOMAIN evaluations :
        LET p == proposals[evaluations[j].proposal]
        IN  evaluations[j].decision = "DENY" =>
                \/ p.budget.mode \notin {"dry_run", "paper"}
                \/ evaluations[j].at - p.market > p.budget.policy.maxAge
                \/ p.portfolio.gross > p.budget.policy.maxGross
                \/ \E s \in DOMAIN p.portfolio.positions :
                      /\ p.portfolio.positions[s].weight > p.budget.policy.maxSingle
                      /\ \A i \in DOMAIN p.orders : p.orders[i].symbol # s

\* A status other than `generated' rests on a recorded evaluation that gives it, and a
\* proposal is ready for paper only under a recorded ALLOW, wherever workers stop.
StatusOnRecord ==
    \A i \in DOMAIN proposals :
        proposals[i].status # "generated" =>
            \E j \in DOMAIN evaluations :
                /\ evaluations[j].proposal = i
                /\ proposals[i].status = "rejected" <=> evaluations[j].decision = "DENY"
                /\ proposals[i].status = "paper_ready" => evaluations[j].decision = "ALLOW"

\* With one worker, one state of the account gets one recovery proposal, however often
\* recovery is asked for and wherever the worker stops.
OneRecoveryPerState ==
    \A i, j \in DOMAIN proposals :
        /\ proposals[i].rule = "recovery" /\ proposals[j].rule = "recovery"
        /\ proposals[i].basis = proposals[j].basis
        => i = j

\* What the rows of a proposal say of each other, wherever workers stop.
ProposalsOnRecord == StatusOnRecord /\ OneRecoveryPerState

=============================================================================
