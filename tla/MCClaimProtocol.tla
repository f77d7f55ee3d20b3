--------------------------- MODULE MCClaimProtocol ---------------------------
(***************************************************************************)
(* Instances of ClaimProtocol for TLC: one Run, with one step.  The step   *)
(* of the first loops, on a node in its last life; that of the second does *)
(* not, on a node that is in its first.                                    *)
(***************************************************************************)
EXTENDS ClaimProtocol

CONSTANTS a, b, a1, b1

MCRunOf == [s \in Steps |-> IF s = b1 THEN b ELSE a]

InitEither == Starts(MaxLives, {b}) \/ Starts(1, {a})

EitherSpec == InitEither /\ [][Next]_vars /\ Fairness
=============================================================================
