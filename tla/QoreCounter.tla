---------------------------- MODULE QoreCounter ----------------------------
(***************************************************************************)
(* The counter of lib/QoreCounter.cpp: threads raise and lower a count and *)
(* wait for it to become zero.  It is used in two ways.  The Qore class    *)
(* Counter gives programs inc(), dec() with an exception sink and the      *)
(* waitForZero() that has a timeout and hears of the deletion.  The        *)
(* library itself counts threads with inc(), the plain dec() and the plain *)
(* waitForZero(), every user lowering what it raised (internal).           *)
(*                                                                         *)
(* A critical section under l is one step.  A thread in waitForZero() is   *)
(* blocked on cond until a broadcast ("notified"), its timeout             *)
(* ("timedout") or no reason at all ("spurious") makes it run again.       *)
(***************************************************************************)
EXTENDS Integers, FiniteSets

CONSTANTS
    Threads,    \* the threads that use the counter
    MaxCnt      \* bound on the count

ASSUME MaxCntAssumption == MaxCnt \in Nat \ {0}
ASSUME ThreadsAssumption == IsFiniteSet(Threads)

VARIABLES
    cnt,        \* the count or Cond_Deleted
    waiting,    \* the number of threads in waitForZero()
    pc,         \* where a thread is in waitForZero()
    timed,      \* whether the wait of a thread has a timeout
    result,     \* what the last waitForZero() of a thread returned
    internal,   \* whether this is one of the library's own counters
    owed,       \* how often a thread of the library has still to call dec()
    deleted     \* whether the Counter object has been deleted

vars == <<cnt, waiting, pc, timed, result, internal, owed, deleted>>
kind == <<internal, owed, deleted>>

Cond_Deleted == -1

Init ==
    /\ internal \in BOOLEAN
    /\ cnt \in IF internal THEN {0} ELSE 0 .. MaxCnt
    /\ waiting = 0
    /\ pc = [t \in Threads |-> "idle"]
    /\ timed = [t \in Threads |-> FALSE]
    /\ result = [t \in Threads |-> "none"]
    /\ owed = [t \in Threads |-> 0]
    /\ deleted = FALSE

-----------------------------------------------------------------------------
Broadcast ==
    pc' = [t \in Threads |-> IF pc[t] = "blocked" THEN "notified" ELSE pc[t]]

\* an object is deleted once
destructor ==
    /\ ~deleted /\ deleted' = TRUE
    /\ cnt' = Cond_Deleted
    /\ IF waiting > 0 THEN Broadcast ELSE UNCHANGED pc
    /\ UNCHANGED <<waiting, timed, result, internal, owed>>

inc(t) ==
    /\ pc[t] = "idle"
    /\ cnt >= 0 /\ cnt < MaxCnt
    /\ cnt' = cnt + 1
    /\ UNCHANGED <<waiting, pc, timed, result, kind>>

\* Faulty variant: a single waiting thread is not told.
LowerOff ==
    /\ cnt' = cnt - 1
    /\ IF cnt' = 0 /\ waiting > 1 THEN Broadcast ELSE UNCHANGED pc

\* the counter is lowered and, at zero, wakes up whoever waits
Lower ==
    /\ cnt' = cnt - 1
    /\ IF cnt' = 0 /\ waiting > 0 THEN Broadcast ELSE UNCHANGED pc

\* Faulty variant: no exception at zero.
decGuardless(t) ==
    /\ pc[t] = "idle"
    /\ cnt # Cond_Deleted
    /\ Lower
    /\ UNCHANGED <<waiting, timed, result, kind>>

\* dec(xsink): an exception at zero and on a deleted counter
dec(t) ==
    /\ pc[t] = "idle"
    /\ cnt # Cond_Deleted /\ cnt # 0
    /\ Lower
    /\ UNCHANGED <<waiting, timed, result, kind>>

-----------------------------------------------------------------------------
Return(t, r) ==
    /\ pc' = [pc EXCEPT ![t] = "idle"]
    /\ result' = [result EXCEPT ![t] = r]
    /\ UNCHANGED <<timed, cnt, kind>>

\* waitForZero(xsink, timeout_ms) up to its end or its wait on cond
waitForZero(t) ==
    /\ pc[t] = "idle"
    /\ \/ /\ cnt \in {0, Cond_Deleted}
          /\ Return(t, IF cnt = 0 THEN "zero" ELSE "error")
          /\ UNCHANGED waiting
       \/ /\ cnt \notin {0, Cond_Deleted}
          /\ waiting' = waiting + 1
          /\ pc' = [pc EXCEPT ![t] = "blocked"]
          /\ \E b \in BOOLEAN : timed' = [timed EXCEPT ![t] = b]
          /\ result' = [result EXCEPT ![t] = "none"]
          /\ UNCHANGED <<cnt, kind>>

\* Faulty variant: the count is not tested again after the wait.
ResumeOnce(t) ==
    /\ pc[t] \in {"notified", "spurious"}
    /\ waiting' = waiting - 1
    /\ Return(t, IF cnt = Cond_Deleted THEN "error" ELSE "zero")

\* cond.wait() returns 0: the loop tests the count again
Resume(t) ==
    /\ pc[t] \in {"notified", "spurious"}
    /\ \/ /\ cnt \in {0, Cond_Deleted}
          /\ waiting' = waiting - 1
          /\ Return(t, IF cnt = 0 THEN "zero" ELSE "error")
       \/ /\ cnt \notin {0, Cond_Deleted}
          /\ pc' = [pc EXCEPT ![t] = "blocked"]
          /\ UNCHANGED <<cnt, waiting, timed, result, kind>>

\* cond.wait() returns ETIMEDOUT: the loop ends
ResumeTimedOut(t) ==
    /\ pc[t] = "timedout"
    /\ waiting' = waiting - 1
    /\ Return(t, IF cnt = Cond_Deleted THEN "error" ELSE "timeout")

TimeOut(t) ==
    /\ pc[t] = "blocked" /\ timed[t]
    /\ pc' = [pc EXCEPT ![t] = "timedout"]
    /\ UNCHANGED <<cnt, waiting, timed, result, kind>>

Spurious(t) ==
    /\ pc[t] = "blocked"
    /\ pc' = [pc EXCEPT ![t] = "spurious"]
    /\ UNCHANGED <<cnt, waiting, timed, result, kind>>

-----------------------------------------------------------------------------
(* The library's own counters: thread_counter, the signal handlers' tcount *)
(* and the debug program's debug_program_counter.                          *)

incInternal(t) ==
    /\ pc[t] = "idle" /\ cnt < MaxCnt
    /\ cnt >= 0
    /\ cnt' = cnt + 1
    /\ owed' = [owed EXCEPT ![t] = @ + 1]
    /\ UNCHANGED <<waiting, pc, timed, result, internal, deleted>>

\* dec() does not test the count
decInternal(t) ==
    /\ pc[t] = "idle" /\ owed[t] > 0
    /\ Lower
    /\ owed' = [owed EXCEPT ![t] = @ - 1]
    /\ UNCHANGED <<waiting, timed, result, internal, deleted>>

\* waitForZero() knows neither timeouts nor the deletion
waitForZeroInternal(t) ==
    /\ pc[t] = "idle" /\ owed[t] = 0
    /\ \/ cnt = 0 /\ Return(t, "zero") /\ UNCHANGED waiting
       \/ /\ cnt # 0
          /\ waiting' = waiting + 1
          /\ pc' = [pc EXCEPT ![t] = "blocked"]
          /\ result' = [result EXCEPT ![t] = "none"]
          /\ UNCHANGED <<cnt, timed, kind>>

ResumeInternal(t) ==
    /\ pc[t] \in {"notified", "spurious"}
    /\ \/ /\ cnt = 0
          /\ waiting' = waiting - 1
          /\ Return(t, "zero")
       \/ /\ cnt # 0
          /\ pc' = [pc EXCEPT ![t] = "blocked"]
          /\ UNCHANGED <<cnt, waiting, timed, result, kind>>

-----------------------------------------------------------------------------
Next ==
    \/ ~internal /\ destructor
    \/ \E t \in Threads :
        \/ /\ ~internal
           /\ \/ inc(t) \/ dec(t) \/ waitForZero(t)
              \/ Resume(t) \/ ResumeTimedOut(t) \/ TimeOut(t)
        \/ /\ internal
           /\ incInternal(t) \/ decInternal(t) \/ waitForZeroInternal(t) \/ ResumeInternal(t)
        \/ Spurious(t)

Spec == Init /\ [][Next]_vars

\* A thread that can run does so in the end, a timeout ends, and every user
\* of a counter of the library lowers what it raised.
Fairness ==
    \A t \in Threads :
        /\ WF_vars(~internal /\ (Resume(t) \/ ResumeTimedOut(t)))
        /\ WF_vars(~internal /\ TimeOut(t))
        /\ WF_vars(internal /\ (ResumeInternal(t) \/ decInternal(t)))

FairSpec == Spec /\ Fairness

-----------------------------------------------------------------------------
\* Every variable has its type; the count is a natural number or Cond_Deleted.
TypeOK ==
    /\ cnt \in {Cond_Deleted} \cup 0 .. MaxCnt
    /\ waiting \in 0 .. Cardinality(Threads)
    /\ pc \in [Threads -> {"idle", "blocked", "notified", "spurious", "timedout"}]
    /\ timed \in [Threads -> BOOLEAN]
    /\ result \in [Threads -> {"none", "zero", "timeout", "error"}]
    /\ internal \in BOOLEAN /\ deleted \in BOOLEAN
    /\ owed \in [Threads -> 0 .. MaxCnt]

\* waitForZero() says that the count reached zero only when it is zero at that
\* moment, whatever inc() did after the broadcast.  This is what the loops at
\* QoreCounter.cpp:93 and 114 do; the comment at 87-89 says that there is no loop
\* and that a count "bigger than zero by the time we are allowed to execute" is
\* ok.  The price of the loop is that a thread that was told of zero can go back
\* to sleep and miss any number of zeros (Resume, second case).
ZeroOnReturn ==
    [][\A t \in Threads : (pc[t] # "idle" /\ pc'[t] = "idle" /\ result'[t] = "zero") => cnt = 0]_vars

\* The calls of dec() that are still to come, one by one: a thread of the library
\* owes its first, its second, and so on.
DecsOwed == {d \in Threads \X (1 .. MaxCnt) : d[2] <= owed[d[1]]}

\* Only the deletion makes the count Cond_Deleted, as the assertion in
\* destructor() expects: no sequence of dec() calls reaches -1, and nothing
\* revives a deleted counter.  A counter of the library is what its users still
\* owe, so the plain dec(), which tests nothing, never makes it negative.
CountExact ==
    /\ TypeOK
    /\ (cnt = Cond_Deleted) <=> deleted
    /\ internal => cnt = Cardinality(DecsOwed)

\* Everyone who waits on a deleted counter hears of it, and the plain
\* waitForZero(), which has no timeout, returns once the count stays at zero.
WaitsEnd ==
    \A t \in Threads :
        /\ (deleted /\ pc[t] # "idle") ~> (pc[t] = "idle" /\ result[t] = "error")
        /\ (internal /\ <>[](cnt = 0)) => (pc[t] # "idle" ~> pc[t] = "idle")
=============================================================================
