------------------------------ MODULE MCBrowser ------------------------------
(***************************************************************************)
(* An instance of Browser for TLC.                                         *)
(***************************************************************************)
EXTENDS Browser, TLC

CONSTANTS s1

MCOwner == [m \in Messages |-> s1]
MCSymmetry == Permutations(Procs)
=============================================================================
