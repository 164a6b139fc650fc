----------------------------- MODULE MCResearch -----------------------------
(***************************************************************************)
(* Instances of the market data, of the alpha cycle and of the accounting  *)
(* of fills.  What one of them reads of another is an input of its own     *)
(* module, so each instance is checked by itself: `subject', chosen at the *)
(* start, says which one.                                                  *)
(***************************************************************************)
EXTENDS MarketData, PaperFills, AlphaLearning, TLC

VARIABLE subject

\* Market data: a close that moves; a batch by hand that fills days in or corrects them and
\* is not available yet in the beginning.
FeedDef == [s \in Symbols |-> IF s = Asset THEN <<1, 2, 1>> ELSE <<1, 1, 1>>]
ByHand(close, available) == [close |-> close, adjusted |-> 0, available |-> available]
UploadsDef ==
    {[symbol |-> Asset, bars |-> <<ByHand(3, 3), ByHand(3, 5)>>]}

\* Fills: plans of one and two orders, several sells of one symbol, amounts that do not divide;
\* x is bought at two prices and sold at the lower, the higher and one between them.
OrderFor(symbol, side, notional, price) ==
    [symbol |-> symbol, side |-> side, notional |-> notional, price |-> price]
OrderPlansDef ==
    {<<OrderFor("x", "BUY", 4000, 2)>>,
     <<OrderFor("x", "BUY", 3300, 1), OrderFor("y", "BUY", 2600, 2)>>,
     <<OrderFor("x", "SELL", 1700, 1), OrderFor("y", "BUY", 4000, 2)>>,
     <<OrderFor("x", "SELL", 3300, 3)>>,
     <<OrderFor("y", "SELL", 1300, 2), OrderFor("y", "SELL", 1300, 2)>>,
     <<OrderFor("x", "SELL", 4000, 1), OrderFor("y", "SELL", 4000, 4)>>,
     <<OrderFor("x", "SELL", 2300, 1)>>}

-----------------------------------------------------------------------------
researchVars == <<subject, marketVars, fillsVars, alphaVars>>

ResearchInit ==
    /\ subject \in {"market", "fills", "alpha"}
    /\ MarketInit /\ PaperFillsInit /\ AlphaInit

ResearchNext ==
    /\ \/ subject = "market" /\ MarketNext /\ UNCHANGED <<fillsVars, alphaVars>>
       \/ subject = "fills" /\ PaperFillsNext /\ UNCHANGED <<marketVars, alphaVars>>
       \/ subject = "alpha" /\ AlphaNext /\ UNCHANGED <<marketVars, fillsVars>>
    /\ UNCHANGED subject

\* Fairness is asked of the market data alone.
ResearchSpec ==
    ResearchInit /\ [][ResearchNext]_researchVars /\ (subject = "market" => MarketFairness)

\* How far the alpha cycle is explored.  The benchmark's bars are available in the evening
\* and arrive in order; of the other bars at most one is available at another time.  A text
\* becomes available in an evening.  The second cycle is explored without texts, with every bar
\* available in the evening and by the second morning: it shows decisions of a day written twice
\* while labels are made of them.
Odd(s) == {d \in StoredDays(history[s]) : history[s][d] # Evening(d)}
Explored ==
    /\ Odd(Yardstick) = {}
    /\ StoredDays(history[Yardstick]) = 1..Max(StoredDays(history[Yardstick]))
    /\ \A s \in Universe : Cardinality(Odd(s)) <= 1
    /\ texts \subseteq {Evening(1), Evening(2)}
    /\ ran = 2 => texts = {} /\ alpha.asOf <= 9 /\ \A s \in Universe : Odd(s) = {}

\* Every component keeps its type.
ResearchTypeOK == MarketTypeOK /\ PaperFillsTypeOK /\ AlphaTypeOK

\* DaysArrive, of the instance it is about: every bar the provider has is in the ledger in
\* the end, although polls before 22:00 fail, providers fail and imports collide.
BarsArrive == subject = "market" => DaysArrive

=============================================================================
