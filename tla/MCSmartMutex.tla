---------------------------- MODULE MCSmartMutex ----------------------------
(* SmartMutex for model checking: the threads are interchangeable. *)
EXTENDS SmartMutex, TLC

Perms == Permutations(Threads)

===========================================================================
