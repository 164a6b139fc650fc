------------------------------ MODULE PaperFills ------------------------------
(***************************************************************************)
(* The fills of paper order plans and the position accounting they leave   *)
(* behind (ControlPlaneService: simulatePaperFills, the position           *)
(* accounting, the reservation snapshot of a plan).  PaperExecution says   *)
(* when a plan may be executed; this module says what its orders do to the *)
(* account's portfolio, order by order.                                    *)
(*                                                                         *)
(* Money is in cents.  A quantity is counted in units of which a cent at   *)
(* price 1 buys one; no order is priced so that the rounding of a          *)
(* quantity, at eight decimals, would reach the cents.                     *)
(***************************************************************************)
EXTENDS Integers, Sequences, FiniteSetsExt, Functions

CONSTANTS
    OpeningCash,    \* the cash the account is seeded with
    OrderPlans,     \* sequences of orders: [symbol, side, notional, price]
    MaxExecuted     \* bound on executed plans

Sides == {"BUY", "SELL"}

Traded == UNION {{plan[i].symbol : i \in DOMAIN plan} : plan \in OrderPlans}

ASSUME PaperFillsAssumption ==
    /\ OpeningCash \in Nat /\ MaxExecuted \in Nat
    /\ IsFiniteSet(Traded)
    /\ \A plan \in OrderPlans : plan \in Seq({plan[i] : i \in DOMAIN plan})
    /\ \A plan \in OrderPlans : \A i \in DOMAIN plan :
          /\ plan[i].side \in Sides
          /\ plan[i].notional \in Nat \ {0} /\ plan[i].price \in Nat \ {0}
          /\ plan[i].notional % plan[i].price = 0

VARIABLES
    book,       \* the portfolio: cash, equity, positions by symbol
    booked,     \* realized PnL over all position ledgers
    dropped,    \* history: the basis of the positions that left the portfolio
    executed    \* plans executed

fillsVars == <<book, booked, dropped, executed>>

Flat == [value |-> 0, quantity |-> 0, basis |-> 0, realized |-> 0]
Open(b) == {s \in Traded : b.positions[s].value # 0}

PaperFillsInit ==
    /\ book = [cash |-> OpeningCash, equity |-> OpeningCash,
               positions |-> [s \in Traded |-> Flat]]
    /\ booked = 0 /\ dropped = 0 /\ executed = 0

PaperFillsTypeOK ==
    /\ book.cash \in Int /\ book.equity \in Int
    /\ \A s \in Traded : book.positions[s] \in [value: Int, quantity: Nat, basis: Nat, realized: Int]
    /\ booked \in Int /\ dropped \in Nat /\ executed \in 0..MaxExecuted

-----------------------------------------------------------------------------
(* The fixed fee of 10 and slippage of 5 basis points, and what a plan needs. *)

Rounded(a, b) == (2 * a + b) \div (2 * b)
Fee(order) == Rounded(order.notional, 1000)
Slippage(order) == Rounded(order.notional, 2000)
ExecutionCost(order) == Fee(order) + Slippage(order)

OrdersOf(plan, side) == {i \in DOMAIN plan : plan[i].side = side}

\* calculatePaperBuyRequirement, calculatePaperSellRequirements
BuyRequirement(plan) ==
    SumFunctionOnSet([i \in DOMAIN plan |-> plan[i].notional + ExecutionCost(plan[i])],
                     OrdersOf(plan, "BUY"))

\* Mutant: every sell is held against the position alone.
LargestSell(plan, s) ==
    Max({0} \cup {plan[i].notional : i \in {j \in OrdersOf(plan, "SELL") : plan[j].symbol = s}})
SellRequirement(plan, s) ==
    SumFunctionOnSet([i \in DOMAIN plan |-> plan[i].notional],
                     {j \in OrdersOf(plan, "SELL") : plan[j].symbol = s})

\* The readiness of a plan with nothing else reserved.
Covered(plan) ==
    /\ book.cash >= BuyRequirement(plan)
    /\ \A s \in Traded : book.positions[s].value >= SellRequirement(plan, s)

-----------------------------------------------------------------------------
(* applyPaperPositionAccountingFill *)

\* Mutant: the cost of the fill is left out of the basis.
BasisAtNotional(position, order) == position.basis + order.notional
BasisAfterBuy(position, order) == position.basis + order.notional + ExecutionCost(order)

\* Mutant: what was realized is not net of the basis that was sold.
RealizedGross(position, order, sold) == order.notional - ExecutionCost(order)
\* The basis goes in proportion to the quantity that is sold.
SoldBasis(position, sold) ==
    IF position.quantity = 0 THEN 0 ELSE Rounded(position.basis * sold, position.quantity)
RealizedBySell(position, order, sold) ==
    order.notional - ExecutionCost(order) - SoldBasis(position, sold)

Bought(position, order) ==
    [value |-> position.value + order.notional,
     quantity |-> position.quantity + order.notional \div order.price,
     basis |-> BasisAfterBuy(position, order),
     realized |-> position.realized]

Sold(position, order) ==
    LET sold == Min({order.notional \div order.price, position.quantity})
    IN  [value |-> position.value - order.notional,
         quantity |-> position.quantity - sold,
         basis |-> Max({0, position.basis - SoldBasis(position, sold)}),
         realized |-> position.realized + RealizedBySell(position, order, sold)]

\* One order of simulatePaperFills: cash, position and the ledger entry.
Fill(state, order) ==
    LET before == state.positions[order.symbol]
        after == IF order.side = "BUY" THEN Bought(before, order) ELSE Sold(before, order)
        paid == IF order.side = "BUY" THEN order.notional ELSE - order.notional
    IN  [state EXCEPT !.cash = @ - paid - ExecutionCost(order),
                      !.costs = @ + ExecutionCost(order),
                      !.booked = @ + after.realized - before.realized,
                      !.positions[order.symbol] = after]

\* buildPaperPositionAccounting: a position that is worth something and has no quantity left,
\* because it was sold for less than it is carried at, is counted anew at price 1.
Recounted(position) ==
    [position EXCEPT !.quantity = IF @ > 0 THEN @ ELSE position.value]

\* What the first i orders of a plan leave behind.
Fills(plan) ==
    LET start == [cash |-> book.cash, costs |-> 0, booked |-> 0,
                  positions |-> [s \in Traded |-> Recounted(book.positions[s])]]
        run[i \in 0..Len(plan)] == IF i = 0 THEN start ELSE Fill(run[i - 1], plan[i])
    IN  run

\* Mutant: the slippage is not taken off the equity.
EquityLessFees(state, plan) ==
    book.equity - SumFunctionOnSet([i \in DOMAIN plan |-> Fee(plan[i])], DOMAIN plan)
EquityAfter(state, plan) == book.equity - state.costs

\* buildPortfolioPositionsAfter: a position without value leaves the portfolio, and
\* takes its accounting with it.
WithoutEmpty(positions) ==
    [s \in Traded |-> IF positions[s].value = 0 THEN Flat ELSE positions[s]]
BasisOfEmpty(positions) ==
    SumFunctionOnSet([s \in Traded |-> positions[s].basis], {s \in Traded : positions[s].value = 0})

\* A plan that is not covered is blocked and leaves the portfolio alone.
ExecutePlan(plan) ==
    /\ executed < MaxExecuted
    /\ Covered(plan)
    /\ LET end == Fills(plan)[Len(plan)]
       IN  /\ book' = [cash |-> end.cash, equity |-> EquityAfter(end, plan),
                       positions |-> WithoutEmpty(end.positions)]
           /\ booked' = booked + end.booked
           /\ dropped' = dropped + BasisOfEmpty(end.positions)
    /\ executed' = executed + 1

PaperFillsNext == \E plan \in OrderPlans : ExecutePlan(plan)

PaperFillsSpec == PaperFillsInit /\ [][PaperFillsNext]_fillsVars

-----------------------------------------------------------------------------
(* Properties. *)

\* A plan of several orders, whatever their order, neither overdraws the cash nor sells
\* more of a position than there is: the readiness check sees the plan as a whole.
PlanNeverShort ==
    /\ book.cash >= 0
    /\ \A s \in Traded : book.positions[s].value >= 0

\* The equity, which is carried on by subtracting costs, is cash plus positions.  All it
\* gained or lost since the seed is realized in a ledger or unrealized in an open position,
\* but for the basis of positions that left the portfolio: a position is carried at the
\* notionals traded, so after its price moved it can be empty by value and have basis left.
PnlAccounted ==
    /\ book.equity =
          book.cash + SumFunctionOnSet([s \in Traded |-> book.positions[s].value], Traded)
    /\ book.equity - OpeningCash =
          booked + SumFunctionOnSet([s \in Traded |-> book.positions[s].value - book.positions[s].basis],
                                    Open(book)) - dropped

=============================================================================
