------------------------------ MODULE RunLedger ------------------------------
(***************************************************************************)
(* What the Mediator promises about nodes, with none of its machinery: a   *)
(* Run moves only forward; it takes everything it was granted in one step  *)
(* or nothing (I5); a node is taken from a Run only when that Run is over, *)
(* and given only to a Run that starts in that very step (I1).             *)
(***************************************************************************)
CONSTANTS Runs, Nodes, Grants, NoRun

VARIABLES
    phase,    \* where a Run stands
    holder    \* the Run a node belongs to

Forward == {<<"new", "waiting">>, <<"new", "running">>, <<"new", "over">>,
            <<"waiting", "running">>, <<"waiting", "over">>, <<"running", "over">>}

Init ==
    /\ phase = [r \in Runs |-> "new"]
    /\ holder = [n \in Nodes |-> NoRun]

Starts(r) == phase[r] # "running" /\ phase'[r] = "running"

Moves(r) == phase'[r] # phase[r] => <<phase[r], phase'[r]>> \in Forward

TakesAll(r) == Starts(r) => \A n \in Grants[r] : holder'[n] = r

ChangesHands(n) == holder'[n] # holder[n] =>
    /\ holder[n] # NoRun => phase'[holder[n]] = "over"
    /\ holder'[n] # NoRun => Starts(holder'[n]) /\ n \in Grants[holder'[n]]

Next ==
    /\ \A r \in Runs : Moves(r) /\ TakesAll(r)
    /\ \A n \in Nodes : ChangesHands(n)

Spec == Init /\ [][Next]_<<phase, holder>>
=============================================================================
