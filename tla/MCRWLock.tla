------------------------------ MODULE MCRWLock ------------------------------
(* Model values and symmetry for the runs of RWLock. *)
EXTENDS RWLock, TLC

Perms == Permutations(Threads)

===========================================================================
