--------------------------- MODULE MCRunLifecycle ---------------------------
(***************************************************************************)
(* Instances of RunLifecycle for TLC.                                      *)
(***************************************************************************)
EXTENDS RunLifecycle, TLC

CONSTANTS a, b, c,          \* Runs
          n1, n2, h1, h2,   \* Nodes, Handlers
          a1, a2, a3, b1, c1    \* Steps, a3 an ask

\* All want n1; b and c want n2 as well.
MCGrants == [r \in Runs |-> IF r = a THEN {n1} ELSE {n1, n2}]
MCRunOf == [s \in Steps |-> CASE s \in {a1, a2, a3} -> a [] s = b1 -> b [] OTHER -> c]
MCNodeOf == [s \in Steps |-> CASE s \in {a1, a2} -> n1 [] s = a3 -> Person
                               [] s = b1 -> n1 [] OTHER -> n2]
\* a: a1 and a2 side by side, then a3 asks a person once a1 is done.
MCStepNeeds == [s \in Steps |-> IF s = a3 THEN {a1} ELSE {}]
MCJudge == [r \in Runs |-> IF r = a THEN {"met", "unmet"} ELSE {"met"}]

=============================================================================
