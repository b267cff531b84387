---------------------------- MODULE MCQoreQueue ----------------------------
(* Model values of the queue for TLC. *)
EXTENDS QoreQueue, TLC

\* max of a queue created without a limit
Unlimited == -1

Perms == Permutations(Threads)
===========================================================================
