----------------------------- MODULE AtomicMerge ----------------------------
(***************************************************************************)
(* What merging an upper into its lower promises: whoever looks at the     *)
(* overlay of the two sees the same from the first call to the last, and   *)
(* in the end the lower alone is what was seen.                            *)
(***************************************************************************)
CONSTANT NoTree

VARIABLES
    seen,       \* what the overlay of the two shows
    answer,     \* none, merged, refused
    base        \* the lower, once it has been merged

vars == <<seen, answer, base>>

Init == answer = "none" /\ base = NoTree

Merge == answer = "none" /\ answer' = "merged" /\ base' = seen /\ UNCHANGED seen
Refuse == answer = "none" /\ answer' = "refused" /\ UNCHANGED <<seen, base>>

Next == Merge \/ Refuse
Spec == Init /\ [][Next]_vars /\ WF_vars(Next)
=============================================================================
