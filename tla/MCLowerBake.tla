----------------------------- MODULE MCLowerBake ----------------------------
(***************************************************************************)
(* Two nodes of one host, a bake on the first, an ordinary Run on either.  *)
(***************************************************************************)
EXTENDS LowerBake

\* The safety run starts from a lower that is whole.
FreshInit == Fresh /\ Init
FreshSpec == FreshInit /\ [][Next]_vars
=============================================================================
