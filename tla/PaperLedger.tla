---------------------------- MODULE PaperLedger ----------------------------
(***************************************************************************)
(* What paper execution promises an operator, with no processes, rows or   *)
(* approvals: one book of cash and one position, and proposals that are    *)
(* each filled at most once, for their whole notional, and only when the   *)
(* book can pay for them.                                                  *)
(***************************************************************************)
EXTENDS Integers

CONSTANTS Proposals, Side, Notional, Cost, InitCash, InitPosition

VARIABLES cash, position, filled

bookVars == <<cash, position, filled>>

Open ==
    /\ cash = InitCash
    /\ position = InitPosition
    /\ filled = {}

Buy(pr) ==
    /\ Side[pr] = "BUY"
    /\ cash >= Notional[pr] + Cost[pr]
    /\ cash' = cash - (Notional[pr] + Cost[pr])
    /\ position' = position + Notional[pr]

Sell(pr) ==
    /\ Side[pr] = "SELL"
    /\ position >= Notional[pr]
    /\ cash' = cash + Notional[pr] - Cost[pr]
    /\ position' = position - Notional[pr]

Fill(pr) ==
    /\ pr \notin filled
    /\ Buy(pr) \/ Sell(pr)
    /\ filled' = filled \cup {pr}

Book == Open /\ [][\E pr \in Proposals : Fill(pr)]_bookVars

=============================================================================
