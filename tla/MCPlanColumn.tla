---------------------------- MODULE MCPlanColumn ----------------------------
(***************************************************************************)
(* Contracts and plans for PlanColumn.                                     *)
(***************************************************************************)
EXTENDS PlanColumn

Run(id, S) == [None EXCEPT !.id = id, !.needs = S]
Plan(id, S) == [Run(id, S) EXCEPT !.kind = "plan"]
Approve(id, S, p) == [Run(id, S) EXCEPT !.kind = "ask", !.adopts = p, !.when = TRUE]

\* A plan and its approval.
Delegate == [steps |-> <<Plan("P", {}), Approve("A", {"P"}, "P")>>, crit |-> {}]

\* An approval that only says yes or no.
Say == [steps |-> <<Plan("P", {}), [Approve("A", {"P"}, "P") EXCEPT !.when = FALSE]>>, crit |-> {"P"}]

\* A loop around both.
Loop == [steps |-> <<Plan("P", {}), Approve("A", {"P"}, "P"),
                     [Run("L", {"A"}) EXCEPT !.back = "P", !.max = 2]>>, crit |-> {"L"}]

\* A second planner beside the first, which adopts its own plan.
Beside == [steps |-> <<Plan("P", {}), Approve("A", {"P"}, "P"), [Plan("Q", {}) EXCEPT !.yolo = TRUE]>>,
           crit |-> {}]

\* Two planners, each with its approval.
Two == [steps |-> <<Plan("P", {}), Approve("A", {"P"}, "P"), Plan("Q", {}), Approve("B", {"Q"}, "Q")>>, crit |-> {}]

\* Where the first plan is turned down, a second planner goes on.
Replan == [steps |-> <<Plan("P", {}), [Approve("A", {"P"}, "P") EXCEPT !.fork = TRUE],
                       Plan("Q", {"A"}), Approve("B", {"Q"}, "Q")>>, crit |-> {}]

MCContracts == {Delegate, Say, Loop, Beside, Two, Replan}

\* One plan proposes what only another builds; the last holds the question
\* about itself.
MCPlans ==
    {[steps |-> <<Run("x", {"A"})>>, proposed |-> c, unmet |-> FALSE] : c \in {{}, {"x"}}}
    \cup {[steps |-> <<Run("y", {"P"})>>, proposed |-> {"x"}, unmet |-> FALSE]}
    \cup {[steps |-> <<Run("z", {"P"}), Approve("O", {"z"}, "P")>>, proposed |-> {}, unmet |-> FALSE]}
    \cup {[steps |-> <<>>, proposed |-> {}, unmet |-> u] : u \in BOOLEAN}
=============================================================================
