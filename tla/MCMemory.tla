------------------------------ MODULE MCMemory ------------------------------
(* Memory with model values for the calls; savers are interchangeable. *)
EXTENDS Memory, TLC

Symmetry == Permutations(Savers)
=============================================================================
