----------------------------- MODULE RunReports -----------------------------
(***************************************************************************)
(* What a report sets off in the tables of a Run: the graph of its steps   *)
(* (StepGraph), or the contract that grows under it (PlanColumn). A Run is *)
(* of one kind or of the other; the Mediator serves both.                  *)
(***************************************************************************)
EXTENDS StepGraph

CONSTANTS
    PlanContracts,  \* the contracts with planners
    Plans,          \* what a planner may report
    MaxVersions,    \* Store.MaxContractVersions
    NoStep          \* no name

VARIABLES column, rows, txs, overlaps, crossed

Planning == INSTANCE PlanColumn WITH Contracts <- PlanContracts, tx <- txs, overlap <- overlaps

ASSUME PlansAccepted == Planning!AllValid

planVars == <<column, rows, txs, overlaps, crossed>>

\* Of the other kind there is no Run: a contract without steps.
NoGraph ==
    /\ contract = <<>> /\ row = <<>> /\ held = {} /\ assigned = {}
    /\ work = [n \in Nodes |-> NoWork] /\ tx = [h \in Handlers |-> Closed]
    /\ faults = MaxFaults /\ overlap = FALSE /\ yielded = {}
NoPlan ==
    /\ column = <<Planning!Version(Planning!ByRequester, {}, <<>>, {})>> /\ rows = <<>>
    /\ txs = [h \in Handlers |-> Planning!Closed] /\ overlaps = FALSE /\ crossed = {}

GraphNext == Next /\ UNCHANGED planVars
PlanNext == Planning!Next /\ UNCHANGED vars

ReportsInit == (Init /\ NoPlan) \/ (NoGraph /\ Planning!Init)

ReportsSpec == ReportsInit /\ [][GraphNext \/ PlanNext]_<<vars, planVars>>

-----------------------------------------------------------------------------
\* The rows of the table are those of the contract in force (PlanColumn).
RowsFollowContract == Planning!RowsFollowContract

\* Steps of a plan that was taken back do not begin (PlanColumn).
RetiredStepsStayUnbegun == Planning!RetiredStepsStayUnbegun

\* Every Run comes to its end: the graph of its steps (GraphEnds of StepGraph),
\* and the planning and re-planning of its contract (PlansEnd of PlanColumn).
RunsEnd == <>(GraphAtEnd /\ Planning!PlanAtEnd)
=============================================================================
