------------------------------ MODULE ObjectLock ------------------------------
(***************************************************************************)
(* What the lock of an object promises: one writer and nobody else, or any *)
(* number of readers of which at most one is in the rsection.  The rsection*)
(* is entered from the outside or by a reader, and is left together with   *)
(* the read lock.                                                          *)
(***************************************************************************)
CONSTANT Threads

VARIABLE mode    \* "out", "read", "rsection" or "write"

Init == mode = [t \in Threads |-> "out"]

\* t goes from one of the modes "from" to "to" if nobody is in one of "but"
Enter(t, from, to, but) ==
    /\ mode[t] \in from
    /\ \A u \in Threads : mode[u] \notin but
    /\ mode' = [mode EXCEPT ![t] = to]

Read(t) == Enter(t, {"out"}, "read", {"write"})

RSection(t) == Enter(t, {"out", "read"}, "rsection", {"write", "rsection"})

Write(t) == Enter(t, {"out"}, "write", {"read", "rsection", "write"})

Leave(t) == Enter(t, {"read", "rsection", "write"}, "out", {})

Next == \E t \in Threads : Read(t) \/ RSection(t) \/ Write(t) \/ Leave(t)

Spec == Init /\ [][Next]_mode
=============================================================================
