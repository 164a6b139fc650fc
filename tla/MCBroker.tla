------------------------------ MODULE MCBroker ------------------------------
(***************************************************************************)
(* Instances of the paper account lifecycle, of the four broker modules    *)
(* and of the page that shows them.  They share the adapter's environment  *)
(* and nothing else, so each instance is checked by itself: `focus',       *)
(* chosen at the start, says which one.                                    *)
(***************************************************************************)
EXTENDS PaperAccounts, BrokerFunding, BrokerFills, BrokerOrders, Dashboard, TLC

CONSTANTS scope, w1, w2, d1, d2, o1

VARIABLE focus

\* Accounts: one scope, two keys and two bodies for the seed, two promotions.
SeedRequestsDef == [scope : {scope}, key : {"s1", "s2"}, body : {"x", "y"}]
PromoteRequestsDef ==
    {[account |-> 1, key |-> k, body |-> "p", takeover |-> 0, expected |-> 0] : k \in {"p1", "p2"}}

\* Environments: a complete deployment, one with a malformed fills path, one whose
\* account is named by the variable the poller does not fall back to.
Complete ==
    [readOnly |-> TRUE, poller |-> TRUE, client |-> TRUE, accountSeq |-> "unset",
     accountRef |-> "set", schema |-> TRUE, fillPoller |-> TRUE, fillSchema |-> TRUE,
     fillsPath |-> "set", sandbox |-> TRUE, custody |-> "unset", secretRef |-> "set"]
Deployments ==
    {Complete, [Complete EXCEPT !.fillsPath = "malformed"], [Complete EXCEPT !.accountSeq = "empty"]}

\* Funding: an account that covers deposits of 2 and one that covers 1.
BooksDef == {[cash |-> 2, equity |-> 3, positions |-> 1], [cash |-> 1, equity |-> 1, positions |-> 0]}
SourcesDef == {<<"toss", TRUE>>}

\* Fills: a partial fill, the other side and a later twin; paper fills of the same orders.
FillOf(side, amount, at) == [symbol |-> "x", side |-> side, amount |-> amount, at |-> at]
ExecutedDef == <<FillOf("BUY", 5, 1), FillOf("SELL", 5, 2), FillOf("BUY", 5, 2)>>
PaperFillsDef == <<FillOf("BUY", 4, 1), FillOf("SELL", 5, 2), FillOf("BUY", 5, 1)>>

\* Orders: one order at the broker, a plan with an order that fits it and one that does not.
ShapeOf(product, amount) == [product |-> product, amount |-> amount]
PlacedDef == o1 :> ShapeOf("buy a", 2)
PlansDef == <<[orders |-> <<ShapeOf("buy a", 2), ShapeOf("sell b", 2)>>, signed |-> TRUE]>>

\* The page: a server that runs or is stopped, and may be started again by others.
ControlsDef == {Active, Stopped}

RequestsDef == {<<>>, [tolerance |-> 1, maxAge |-> 2]}
DeskSymmetry == Permutations({d1, d2})

-----------------------------------------------------------------------------
accountRows == <<accounts, accountEvents, seat, desk>>
fundingRows == <<now, paper, snapshots, funding, pilots, budgetMode, open>>
fillRows == <<executedTo, paperTo, fills, imports, running, polling, lastPoll, reconciles>>
orderRows == <<atBroker, pilotReady, commands, statuses, orderDesk>>
brokerVars == <<focus, env, accountRows, fundingRows, fillRows, orderRows, pageVars>>

\* An account of two in cash; an environment where it makes a difference to what moves.
BrokerInit ==
    /\ focus \in {"accounts", "funding", "fills", "orders", "page"}
    /\ AccountsInit /\ FundingInit /\ FillsInit /\ OrdersInit /\ DashboardInit
    /\ paper.cash = 2
    /\ focus \in {"accounts", "page"} => env = Complete
    /\ focus = "funding" => env = Complete
    /\ focus = "orders" => env.accountSeq = "unset"
    /\ focus # "page" => changes = <<>>

BrokerNext ==
    /\ \/ /\ focus = "accounts" /\ AccountsNext
          /\ UNCHANGED <<env, fundingRows, fillRows, orderRows, pageVars>>
       \/ /\ focus = "funding" /\ FundingNext
          /\ UNCHANGED <<accountRows, fillRows, orderRows, pageVars>>
       \/ /\ focus = "fills" /\ FillsNext
          /\ UNCHANGED <<accountRows, fundingRows, orderRows, pageVars>>
       \/ /\ focus = "orders" /\ OrdersNext
          /\ UNCHANGED <<accountRows, fundingRows, fillRows, pageVars>>
       \/ /\ focus = "page" /\ DashboardNext
          /\ UNCHANGED <<env, accountRows, fundingRows, fillRows, orderRows>>
    /\ UNCHANGED focus

\* Only one funding record is stored, so one check is in progress at a time, beside a
\* reconciliation; once it is stored, only pilots read it, and one of them is stored.
\* Time before the snapshot counts for nothing.
OneRecord ==
    focus = "funding" =>
        /\ \A d, e \in FundingDesks : d # e => ~ (open[d].kind = "funding" /\ open[e].kind = "funding")
        /\ snapshots = <<>> => now = 0
        /\ funding = <<>> => budgetMode = "none"
        /\ funding # <<>> => \A d \in FundingDesks : open[d].kind \in {"none", "pilot"}
        /\ pilots = <<>>
OnlyPilotsAfter == funding # <<>> => UNCHANGED <<now, paper, snapshots>>

BrokerSpec == BrokerInit /\ [][BrokerNext]_brokerVars

=============================================================================
