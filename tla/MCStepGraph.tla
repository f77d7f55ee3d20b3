----------------------------- MODULE MCStepGraph -----------------------------
(***************************************************************************)
(* Contracts and a small fleet for StepGraph.                              *)
(***************************************************************************)
EXTENDS StepGraph

CONSTANTS n1, n2, n3, n4, n5

MCRoles == {"a", "b", "c"}
MCAssignment == [r \in MCRoles |-> CASE r = "a" -> n1 [] r = "b" -> n2 [] r = "c" -> n3]

On(r) == [Absent EXCEPT !.uses = r]
After(r, S) == [On(r) EXCEPT !.needs = {S}]
Fork(r, S, T) == [After(r, S) EXCEPT !.to = T]
Ask(S) == [Absent EXCEPT !.kind = "ask", !.needs = {S}]
Take(S, r, yes, no) ==
    [Absent EXCEPT !.kind = "acquire", !.needs = {S}, !.want = r, !.acquired = yes, !.unavailable = no]

\* Two nodes work side by side; an acquire waits for both, a question after it.
Join == << After("a", {}), After("b", {}), Take({1, 2}, "d", 4, 5), On("d"), On("a"), Ask({4, 5}) >>

\* A fork inside a loop, a node given up behind it.
Loop == << On("a"), Fork("a", {1}, {3, 4}), On("b"), On("a"),
           [After("a", {3, 4}) EXCEPT !.back = 1, !.max = 2],
           [After("b", {5}) EXCEPT !.release = {"a"}] >>

\* A validation on another node beside a step that runs with it.
Check == << [After("a", {}) EXCEPT !.checker = 2, !.tries = 2], After("b", {1}), After("b", {}), Ask({2, 3}) >>

\* Two forks side by side share a target.
Shared == << Fork("a", {}, {3, 4}), Fork("b", {}, {4, 5}), On("a"), After("a", {1, 2}), On("b"), After("b", {4}) >>

\* Two acquires side by side.
Twice == << After("a", {}), After("b", {}), Take({1}, "d", 5, 6), Take({2}, "e", 7, 8),
            On("d"), On("a"), On("e"), On("b") >>

\* Everything is given up, then something is taken.
Empty == << On("a"), [On("b") EXCEPT !.release = {"a", "b", "c"}], Take({2}, "d", 4, 5), On("d"), Ask({3}) >>

\* A node is given up beside a loop that goes back to its step.
Beside == << On("a"), [After("b", {1}) EXCEPT !.back = 1, !.max = 2], [After("c", {1}) EXCEPT !.release = {"a"}] >>

\* A node is given up behind a step that was skipped before what it waits for
\* was over.
Skipping == << After("a", {}), Fork("b", {}, {3, 4}), After("a", {1, 2}),
               [After("b", {2, 3}) EXCEPT !.release = {"a"}] >>

\* A validation inside a loop.
Nested == << [On("a") EXCEPT !.checker = 2, !.tries = 3], On("b"), [On("a") EXCEPT !.back = 1, !.max = 3] >>

\* A question that a loop begins with.
Reask == << On("a"), Ask({1}), [On("a") EXCEPT !.back = 2, !.max = 2] >>

\* An acquire inside a loop.
Retake == << On("a"), Take({1}, "d", 3, 4), On("d"), On("a"), [After("a", {3, 4}) EXCEPT !.back = 1, !.max = 2] >>

\* A node is given up, perhaps taken again, and given up again.
Regrab == << On("a"), [On("b") EXCEPT !.release = {"a"}], Take({2}, "d", 4, 5), On("d"), On("b"),
             [After("b", {4, 5}) EXCEPT !.release = {"d"}] >>

\* A role is given up before it is taken.
Early == << On("a"), [On("b") EXCEPT !.release = {"d"}], Take({2}, "d", 4, 5), On("a"), On("b") >>

\* A step checks a fork and one of its ends.
Twofold == << [Fork("a", {}, {2, 3}) EXCEPT !.checker = 4, !.tries = 2],
              [On("b") EXCEPT !.checker = 4, !.tries = 2], On("a"), After("a", {2, 3}) >>

\* A node is given up behind a step that may begin again, with the one it checks
\* but not the one between.
Gap == << [After("a", {}) EXCEPT !.checker = 3, !.tries = 2], After("b", {1}), After("c", {2}),
          [After("b", {3}) EXCEPT !.release = {"a"}] >>

\* Contracts of four steps on two nodes with at most one fork, one loop and
\* one release.
Turn == <<"a", "b", "a", "b">>
Family ==
    {[i \in 1..4 |-> [On(Turn[i]) EXCEPT
            !.needs = {q[i]},
            !.to = IF i = f[1] THEN f[2] ELSE {},
            !.back = IF i = l[2] THEN l[1] ELSE 0, !.max = IF i = l[2] THEN 2 ELSE 0,
            !.release = IF i = g THEN {"a"} ELSE {}]] :
        q \in {<<{}, {1}, {1}, {2, 3}>>, <<{}, {}, {1, 2}, {2, 3}>>},
        f \in {<<0, {}>>, <<1, {2, 3}>>, <<2, {3, 4}>>},
        l \in {<<0, 0>>, <<1, 2>>, <<2, 3>>},
        g \in {0, 3, 4}}

MCContracts ==
    {Join, Loop, Check, Shared, Twice, Empty, Beside, Skipping, Nested, Reask, Retake, Regrab, Early, Twofold, Gap}
        \cup {c \in Family : Validate(c, MCRoles)}

OnlyJoin == {Join}
=============================================================================
