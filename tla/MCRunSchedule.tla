--------------------------- MODULE MCRunSchedule ---------------------------
(* Instances of RunSchedule for TLC; the sets and bounds are in the .cfg files. *)
EXTENDS RunSchedule, TLC

CONSTANTS w1, w2, w3

\* Two tickers are interchangeable; a forcing or advancing process is not one of them.
TickerSymmetry == Permutations(Tickers \ (Forcers \cup Advancers))
=============================================================================
