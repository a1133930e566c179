--------------------------- MODULE MCWriteLease ---------------------------
(***************************************************************************)
(* Symmetry for the model-checking runs of WriteLease.                     *)
(***************************************************************************)
EXTENDS WriteLease, TLC

ProcSymmetry == Permutations(Proc)
=============================================================================
