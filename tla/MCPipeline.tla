----------------------------- MODULE MCPipeline -----------------------------
(***************************************************************************)
(* Instances of the proposals, the LEAN runs and the pilot's cycle.  What  *)
(* one of them reads of another is an input of its own module, so each     *)
(* instance is checked by itself: `stage', chosen at the start, says which *)
(* one.                                                                    *)
(***************************************************************************)
EXTENDS Proposals, LeanRuns, PilotCycle, TLC

CONSTANTS w1, p1, p2, h1, h2

VARIABLE stage

\* Processes do the same things, and no key of a hand import is special.
Interchangeable == Permutations({p1, p2}) \cup Permutations({h1, h2})

\* Proposals: an account above its limits and one below; budgets whose limits do not divide.
Position(value, weight) == [value |-> value, weight |-> weight]
HoldingsDef ==
    {[equity |-> 10000, gross |-> 7000,
      positions |-> ("A" :> Position(4000, 4000) @@ "B" :> Position(3000, 3000))],
     [equity |-> 10000, gross |-> 1000, positions |-> ("A" :> Position(1000, 1000))]}
BudgetRequestsDef ==
    {[mode |-> "paper", total |-> 20000, reserve |-> 2000, policy |-> [maxNotional |-> 3500]],
     [mode |-> "dry_run", total |-> 33333, reserve |-> 9000, policy |-> [maxSingle |-> 3333]]}

\* The pilot: a cloud run, then a local one.
PilotRunsDef == <<"cloud", "local">>

-----------------------------------------------------------------------------
pipelineVars == <<stage, proposalVars, leanVars, pilotVars>>

PipelineInit ==
    /\ stage \in {"proposals", "lean", "pilot"}
    /\ ProposalsInit /\ LeanInit /\ PilotInit
    /\ stage # "proposals" => holding = CHOOSE h \in Holdings : TRUE

PipelineNext ==
    /\ \/ stage = "proposals" /\ ProposalsNext /\ UNCHANGED <<leanVars, pilotVars>>
       \/ stage = "lean" /\ LeanNext /\ UNCHANGED <<proposalVars, pilotVars>>
       \/ stage = "pilot" /\ PilotNext /\ UNCHANGED <<proposalVars, leanVars>>
    /\ UNCHANGED stage

PipelineSpec == PipelineInit /\ [][PipelineNext]_pipelineVars

\* How far the larger instances are explored.
Explored ==
    /\ Len(proposals) + Len(evaluations) <= 3
    /\ signal + accepted <= 3
    /\ signal + accepted = 3 => ledger.ownLast \/ ledger.seat = "none"
    /\ ~mixed

=============================================================================
