---------------------------- MODULE MCRunOutcome ----------------------------
(***************************************************************************)
(* Small contracts for RunOutcome.                                         *)
(***************************************************************************)
EXTENDS RunOutcome

CONSTANTS plan, replan, route, unmet

MCNames == {plan, replan, route}
MCRoles == {"r"}
MCSuffixes == {<<replan, plan>>}

Step(S) == [Blank EXCEPT !.uses = "r", !.needs = {S}]
Cond(s) == [step |-> s, exit |-> FALSE, within |-> FALSE, produced |-> {}]
Fleet == Cond(0)

\* A planner writes, a build checks, twice at most.
Checks == [steps |-> << [Step({}) EXCEPT !.out = {plan}, !.checker = 2, !.tries = 2, !.planner = TRUE, !.command = FALSE],
                        [Step({1}) EXCEPT !.from = {plan}] >>,
           conds |-> {[Cond(1) EXCEPT !.within = TRUE, !.produced = {plan}], [Cond(2) EXCEPT !.exit = TRUE]},
           stray |-> {unmet}]

\* Two steps of a loop produce the same name, one behind it reads it.
Relay == [steps |-> << [Step({}) EXCEPT !.out = {plan}],
                       [Step({1}) EXCEPT !.from = {plan}, !.out = {plan}, !.back = 1, !.max = 2, !.until.exit = TRUE],
                       [Step({2}) EXCEPT !.from = {plan}] >>,
          conds |-> {[Cond(3) EXCEPT !.exit = TRUE], Fleet},
           stray |-> {}]

\* A fork inside a loop.
Turns == [steps |-> << [Step({}) EXCEPT !.out = {route}, !.via = route, !.to = {2, 3}, !.command = FALSE],
                       [Step({1}) EXCEPT !.out = {plan}, !.command = FALSE], Step({1}),
                       [Step({2, 3}) EXCEPT !.from = {plan}, !.back = 1, !.max = 2, !.until.exit = TRUE] >>,
          conds |-> {[Cond(2) EXCEPT !.produced = {plan}], [Cond(3) EXCEPT !.exit = TRUE]},
           stray |-> {}]

\* Two forks side by side share a target.
Shared == [steps |-> << [Step({}) EXCEPT !.out = {route}, !.via = route, !.to = {3, 4}, !.command = FALSE],
                        [Step({}) EXCEPT !.out = {replan}, !.via = replan, !.to = {4, 5}, !.command = FALSE],
                        Step({1}), Step({1, 2}), Step({2}) >>,
           conds |-> {[Cond(3) EXCEPT !.exit = TRUE], [Cond(4) EXCEPT !.exit = TRUE]},
           stray |-> {}]

\* A step runs beside a loop that rewinds it.
Beside == [steps |-> << [Step({}) EXCEPT !.out = {plan}], [Step({1}) EXCEPT !.out = {replan}, !.from = {plan}],
                        [Step({1}) EXCEPT !.back = 1, !.max = 2, !.until.exit = TRUE] >>,
           conds |-> {[Cond(2) EXCEPT !.produced = {replan}]},
           stray |-> {}]

\* Two names of which one ends like the other.
Alike == [steps |-> << [Step({}) EXCEPT !.out = {plan}], [Step({1}) EXCEPT !.out = {replan}],
                       [Step({2}) EXCEPT !.from = {plan}] >>,
          conds |-> {[Cond(1) EXCEPT !.produced = {plan}]},
          stray |-> {replan}]

\* A name is produced in a loop and once more behind it.
Behind == [steps |-> << [Step({}) EXCEPT !.out = {plan}], [Step({1}) EXCEPT !.back = 1, !.max = 3, !.until.exit = TRUE],
                        [Step({2}) EXCEPT !.out = {plan}, !.from = {plan}], [Step({3}) EXCEPT !.from = {plan}] >>,
           conds |-> {[Cond(3) EXCEPT !.produced = {plan}]},
           stray |-> {}]

\* A check of a check.
Chain == [steps |-> << [Step({}) EXCEPT !.out = {plan}, !.checker = 2, !.tries = 2],
                       [Step({1}) EXCEPT !.from = {plan}, !.out = {replan}, !.checker = 3, !.tries = 2],
                       [Step({2}) EXCEPT !.from = {replan}] >>,
          conds |-> {[Cond(1) EXCEPT !.exit = TRUE, !.produced = {plan}], [Cond(3) EXCEPT !.exit = TRUE, !.within = TRUE]},
          stray |-> {}]

\* A fork in a loop; what it leads to is read behind the loop.
Detour == [steps |-> << [Step({}) EXCEPT !.out = {route}, !.via = route, !.to = {2, 3}, !.command = FALSE],
                        [Step({1}) EXCEPT !.out = {plan}, !.command = FALSE], [Step({1}) EXCEPT !.command = FALSE],
                        [Step({2, 3}) EXCEPT !.back = 1, !.max = 3, !.until.exit = TRUE],
                        [Step({4}) EXCEPT !.from = {plan}] >>,
           conds |-> {[Cond(5) EXCEPT !.exit = TRUE]},
           stray |-> {}]

MCGiven == {Checks, Relay, Turns, Shared, Beside, Alike, Behind, Chain, Detour}
OnlyChecks == {Checks}
=============================================================================
