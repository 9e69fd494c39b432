-------------------------- MODULE MCTokenCounting --------------------------
(***************************************************************************)
(* Instances of TokenCounting for TLC.                                     *)
(***************************************************************************)
EXTENDS TokenCounting, TLC

MCSymmetry ==
    Permutations(Calls) \cup Permutations(Workers) \cup Permutations(Countable)
=============================================================================
