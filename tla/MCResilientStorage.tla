------------------------- MODULE MCResilientStorage -------------------------
(***************************************************************************)
(* Instances of ResilientStorage for TLC.                                  *)
(***************************************************************************)
EXTENDS ResilientStorage, TLC

CONSTANTS s1, m1

MCOwner == [m \in Messages |-> s1]

MCSymmetry == Permutations(Procs)
=============================================================================
