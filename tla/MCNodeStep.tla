----------------------------- MODULE MCNodeStep -----------------------------
(***************************************************************************)
(* What a node does with a step it has claimed: a command in a session, or *)
(* an agent (execute of internal/enode/claim.go calls the one or the       *)
(* other), or the merge of a bake.                                         *)
(*                                                                         *)
(* The command: two runs and a diff that may need its summary. The agent:  *)
(* two servers, the first declared in every way by the node, the workspace *)
(* and the pack, the second by the workspace and asked for beside the      *)
(* first; or artifacts and a plan that may break the grammar in three ways, *)
(* one more than the hook's budget.  The merge: one entry of the roots,    *)
(* with two names below it and one below the first of them, every upper    *)
(* over every lower of that shape.                                         *)
(***************************************************************************)
EXTENDS StepSession, AgentStep

CONSTANTS MaxStops

VARIABLES above, below, trash, roots, walk, frames, calls, stops

Declared(S) == [{"m1", "m2"} -> S]
OneKindless == {d \in Declared({"no", "usable", "kindless"}) : d["m2"] # "kindless"}
Nothing == [n \in {"m1", "m2"} |-> "no"]
NoPack == [is : {"none", "missing", "broken"}, mcp : {Nothing}]

WithServers ==
    [want : {{}, {"m1"}, {"m1", "m2"}}, node : SUBSET {"m1"},
     ws : [readable : {TRUE}, mcp : OneKindless] \cup [readable : {FALSE}, mcp : {Nothing}],
     pack : NoPack \cup [is : {"good"}, mcp : {d \in OneKindless : d["m2"] = "no"}],
     expect : {{}}]
WithArtifacts ==
    [want : {{}}, node : {{}}, ws : [readable : {TRUE}, mcp : {Nothing}],
     pack : [is : {"none"}, mcp : {Nothing}], expect : SUBSET {"a", "plan"}]

GivenJobs == WithServers \cup WithArtifacts
TwoServers == {"m1", "m2"}
Required == {"a", "plan"}

ThreeDeep == {<<"a">>, <<"a", "a">>, <<"a", "b">>, <<"a", "a", "b">>}
AnyRoots == [abs : BOOLEAN, dir : BOOLEAN, apart : BOOLEAN, fs : BOOLEAN, mnt : BOOLEAN]

Merge == INSTANCE OverlayMerge WITH
    Order <- <<"a", "b">>, Paths <- ThreeDeep, Roots <- AnyRoots, phase <- walk, upper <- above, lower <- below

merge == <<above, below, trash, roots, walk, frames, calls, stops>>

\* The step is of one kind; of the others there is nothing to do: what cannot
\* be merged is refused at once.
NoMerge ==
    /\ above = [p \in ThreeDeep |-> Merge!Absent] /\ below = above /\ trash = {}
    /\ roots = CHOOSE r \in AnyRoots : ~r.abs
    /\ walk = "idle" /\ frames = <<>> /\ calls = <<>> /\ stops = 0
NoAgent == AgentFresh("over") /\ job = CHOOSE j \in GivenJobs : TRUE
InitStep ==
    \/ Init /\ NoAgent /\ NoMerge
    \/ Fresh("over") /\ AgentInit /\ NoMerge
    \/ Fresh("over") /\ NoAgent /\ Merge!Init

NextStep ==
    \/ walk = "refused" /\ Next /\ UNCHANGED <<agentVars, merge>>
    \/ walk = "refused" /\ AgentNext /\ UNCHANGED <<vars, merge>>
    \/ Merge!Next /\ UNCHANGED <<vars, agentVars>>

StepSpec ==
    InitStep /\ [][NextStep]_<<vars, agentVars, merge>> /\ Fairness /\ AgentFairness /\ WF_merge(Merge!Go)

-----------------------------------------------------------------------------
\* The merge of two trees, call by call and stopped anywhere, does what one
\* atomic merge does (OverlayMerge).
Implements == Merge!Implements
=============================================================================
