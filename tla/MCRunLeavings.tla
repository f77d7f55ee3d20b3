---------------------------- MODULE MCRunLeavings ----------------------------
(***************************************************************************)
(* What a Run leaves behind: its verdict and the artifacts it rests on     *)
(* (RunOutcome), or what is written of one of its steps, as it runs and in *)
(* the Record (RunRecord). A behaviour is of one of the two kinds, and the *)
(* variables of the other stand still.                                     *)
(***************************************************************************)
EXTENDS MCRunOutcome, RunRecord

\* A step of two attempts: a first one of three bytes, of which only the second ends a line, and
\* a second one of one byte.
MCWrites == [a \in 0..MaxAttempt |-> IF a = 0 THEN 3 ELSE 1]
MCLines == {2}

\* Of the other kind there is no Run: one without steps, or one that was
\* cancelled and sealed before it began.
NoOutcome ==
    /\ c = <<>> /\ conds = {} /\ stray = {} /\ fleet = "yes" /\ row = <<>> /\ work = <<>>
    /\ late = {} /\ blobs = {} /\ newest = [n \in Names \cup {Unmet} |-> Nowhere] /\ astray = {} /\ run = "SUCCEEDED"
NoRecord ==
    /\ recorded = "cancelled" /\ attempt = 0
    /\ node = [a \in Attempts |-> [at |-> "idle", wrote |-> 0, buf |-> <<>>, inflight |-> <<>>, done |-> FALSE]]
    /\ reqs = {} /\ dir = FALSE /\ file = [a \in Attempts |-> NoFile] /\ sweep = NoSweep
    /\ rec = [log |-> <<>>, blobs |-> [a \in Attempts |-> None], temps |-> {}, locked |-> FALSE]
    /\ seal = "sealed" /\ harmed = [twice |-> {}, swept |-> {}, astray |-> {}] /\ faults = MaxFaults

EitherSpec ==
    /\ (Init /\ NoRecord) \/ (NoOutcome /\ RecordInit)
    /\ [][(Next /\ UNCHANGED recordVars) \/ (RecordNext /\ UNCHANGED vars)]_<<vars, recordVars>>
=============================================================================
