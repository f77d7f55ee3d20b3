---------------------------- MODULE MCRunReports ----------------------------
(***************************************************************************)
(* Contracts, plans and a small fleet for RunReports.                      *)
(***************************************************************************)
EXTENDS MCStepGraph, RunReports

\* The contracts and plans of MCPlanColumn, read from an instance without any.
Samples == INSTANCE MCPlanColumn WITH Contracts <- {}, Plans <- {}, tx <- txs, overlap <- overlaps

MCPlanContracts == Samples!MCContracts
MCPlans == Samples!MCPlans

\* Bound: of contracts of more than two steps only transactions that follow each other; of
\* others the properties say nothing.
PlanStep == PlanNext /\ (Len(column[1].steps) > 2 => ~overlaps')

EitherSpec ==
    /\ ReportsInit /\ [][GraphNext \/ PlanStep]_<<vars, planVars>>
    /\ Fairness /\ WF_planVars(PlanStep)
=============================================================================
