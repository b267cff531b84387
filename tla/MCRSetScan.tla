------------------------------ MODULE MCRSetScan ------------------------------
(* RSetScan for TLC: objects are interchangeable. *)
EXTENDS RSetScan, TLC

Symmetry == Permutations(Objs)
=============================================================================
