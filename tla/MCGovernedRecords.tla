------------------------- MODULE MCGovernedRecords -------------------------
(***************************************************************************)
(* GovernedRecords for TLC: one ordinary target and the policy target, two *)
(* record kinds, two values of which one is an actor policy.               *)
(***************************************************************************)
EXTENDS GovernedRecords, TLC

Symmetry == Permutations(Writers) \cup Permutations(Terms)
=============================================================================
