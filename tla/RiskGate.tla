------------------------------ MODULE RiskGate ------------------------------
(***************************************************************************)
(* RiskGateService.evaluate: the decision on a proposal as a function of   *)
(* the request and the clock.  Percentages are in hundredths, amounts in   *)
(* hundredths of the currency, time in hours; a target of -1 is none.      *)
(***************************************************************************)
EXTENDS Integers, Sequences, FiniteSetsExt, Functions

AssetClasses == {"cash", "domestic_stock", "foreign_stock", "domestic_etf", "foreign_etf",
                 "crypto", "crypto_derivative", "option", "future", "unknown"}
Prohibited == {"crypto", "crypto_derivative", "option", "future", "unknown"}

\* DEFAULT_POLICY; no policy ever allows live trading.
DefaultPolicy ==
    [maxGross |-> 10000, maxSingle |-> 2000, maxNotional |-> 100000000, maxLoss |-> 300,
     maxDrawdown |-> 1000, maxAge |-> 1,
     classes |-> AssetClasses \ Prohibited, autoApproval |-> FALSE, human |-> TRUE]

Policies ==
    [maxGross: Int, maxSingle: Int, maxNotional: Int, maxLoss: Int, maxDrawdown: Int,
     maxAge: Int, classes: SUBSET AssetClasses, autoApproval: BOOLEAN, human: BOOLEAN]

\* mergePolicy: what the budget's policy says wins.
MergedPolicy(policy) ==
    [f \in DOMAIN DefaultPolicy |-> IF f \in DOMAIN policy THEN policy[f] ELSE DefaultPolicy[f]]

-----------------------------------------------------------------------------
ModeDenied(r) ==
    \/ r.mode = "live"
    \/ r.mode = "broker_read_only"      \* with orders by its first guard, without by its second

SensitiveDenied(r) == r.credentials \/ r.accountId \/ r.intent # "evaluate_only"

ProvenanceDenied(r) == r.actor = "llm" /\ ~ r.provenance

TimestampsDenied(r, policy, now) ==
    \/ r.generated > now
    \/ r.market > r.generated
    \/ now - r.market > policy.maxAge

\* isReducingSellOrder: the order sells no more than the position holds.
ReducingSell(r, order, symbol) ==
    /\ order.side = "SELL" /\ order.symbol = symbol
    /\ symbol \in DOMAIN r.portfolio.positions
    /\ order.notional > 0
    /\ order.notional <= r.portfolio.positions[symbol].value

PortfolioDenied(r, policy) ==
    \/ r.portfolio.equity <= 0
    \/ r.portfolio.gross > policy.maxGross
    \/ r.portfolio.dailyPnl <= - policy.maxLoss
    \/ r.portfolio.drawdown >= policy.maxDrawdown
    \/ \E s \in DOMAIN r.portfolio.positions :
          /\ r.portfolio.positions[s].weight > policy.maxSingle
          /\ ~ \E i \in DOMAIN r.orders : ReducingSell(r, r.orders[i], s)

TargetGross(r) ==
    SumFunctionOnSet([i \in DOMAIN r.orders |-> Max({r.orders[i].target, 0})], DOMAIN r.orders)

OrderDenied(r, policy, order) ==
    \/ order.class \notin policy.classes \/ order.class \in Prohibited
    \/ order.side = "SHORT"
    \/ order.notional <= 0 \/ order.notional > policy.maxNotional
    \/ order.target > policy.maxSingle /\ ~ ReducingSell(r, order, order.symbol)
    \/ order.leveraged

Denied(r, policy, now) ==
    \/ ModeDenied(r) \/ SensitiveDenied(r) \/ ProvenanceDenied(r)
    \/ TimestampsDenied(r, policy, now)
    \/ PortfolioDenied(r, policy)
    \/ TargetGross(r) > policy.maxGross
    \/ \E i \in DOMAIN r.orders : OrderDenied(r, policy, r.orders[i])

\* A paper request without an approval and a strategy without provenance need a look.
NeedsReview(r, policy) ==
    \/ r.mode # "dry_run" /\ policy.human /\ ~ r.approved
    \/ r.actor # "llm" /\ ~ r.provenance

Decision(r, now) ==
    LET policy == MergedPolicy(r.policy)
    IN  CASE Denied(r, policy, now)                               -> "DENY"
          [] ~ Denied(r, policy, now) /\ NeedsReview(r, policy)   -> "REVIEW"
          [] OTHER                                                -> "ALLOW"

=============================================================================
