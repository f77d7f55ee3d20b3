------------------------- MODULE MCCheckpointSpool --------------------------
(***************************************************************************)
(* Two daemons that share a scratch, one step.                             *)
(***************************************************************************)
EXTENDS CheckpointSpool

MCSize == [i \in Id |-> 3]

MCPolicy == [percent |-> 50, maxBytes |-> 10, maxInodes |-> 0]

\* Room for what is kept, no room, and a statfs that failed.
MCDisks ==
    {[known |-> TRUE, free |-> f, files |-> 0, filesFree |-> 0] : f \in {20, 2}}
    \cup {[known |-> FALSE, free |-> 0, files |-> 0, filesFree |-> 0]}
=============================================================================
