------------------------------ MODULE MCObjectGC ------------------------------
(* ObjectGC for TLC: objects are interchangeable, and so are threads. *)
EXTENDS ObjectGC, TLC

Symmetry == Permutations(Objs) \cup Permutations(Threads)
=============================================================================
