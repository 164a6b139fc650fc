------------------------- MODULE MCPaperExecution -------------------------
(***************************************************************************)
(* Instances of PaperExecution for TLC.                                    *)
(* b1 and b2 are buys that the seeded cash can pay one after the other     *)
(* only if the fees are left out; c1 asks for the same as b1; s1 sells     *)
(* what a buy brought in.                                                  *)
(***************************************************************************)
EXTENDS PaperExecution, TLC

CONSTANTS b1, b2, c1, s1

MCSide == [pr \in Proposals |-> IF pr = s1 THEN "SELL" ELSE "BUY"]
MCNotional == [pr \in Proposals |-> IF pr \in {b1, c1} THEN 4 ELSE 5]
MCCost == [pr \in Proposals |-> 1]
MCContent == [pr \in Proposals |-> IF pr = c1 THEN b1 ELSE pr]

\* Only the approval of the sale may carry an expiry.
MCExpiring == {s1} \X Keys

\* Which proposals a request, an approval or a plan is about.
InUse ==
    {pr \in Proposals : \/ \E k \in Keys : approvals[pr][k].status # "none"
                        \/ \E i \in PlanIds : plans[i].proposal = pr
                        \/ \E p \in Procs : pc[p] # "idle" /\ loc[p].proposal = pr}

\* The other buys and the sale are explored one at a time beside b1, and no more than two
\* approvals.
Approvals == {a \in Proposals \X Keys : Approved(a[1], a[2])}
RaceExplored == Cardinality(InUse \cap {b2, c1, s1}) <= 1 /\ Cardinality(Approvals) <= 2

ProcSymmetry == Permutations(Procs)

=============================================================================
