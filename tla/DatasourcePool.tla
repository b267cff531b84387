--------------------------- MODULE DatasourcePool ---------------------------
(***************************************************************************)
(* The pool of database connections of lib/DatasourcePool.cpp.  A thread   *)
(* that calls a method gets a connection from the pool (getDS), uses it    *)
(* outside of the lock, and DatasourcePoolActionHelper's destructor gives  *)
(* it back or leaves it with the thread, whose transaction is then open.   *)
(*                                                                         *)
(* A critical section under the pool's lock is one step, together with     *)
(* what the thread then does to its own connection, which no other thread  *)
(* sees.  The database is external: opening a connection may fail, and any *)
(* call may fail or lose the connection.  A call goes                      *)
(*    idle -> calling -> [blocked ->] got -> [config -> got ->] ready      *)
(* and back to idle.  The build is the one without assertions (NDEBUG).    *)
(* The statistics, the event queue, the texts of the exceptions (tid_list) *)
(* and the statements of a connection are left out, and so are the calls   *)
(* that the code of the warning callback may make to the pool itself.      *)
(***************************************************************************)
EXTENDS Integers, Sequences, FiniteSets

CONSTANTS
    Threads,    \* the threads
    min, max,   \* the sizes of the pool
    Callback    \* whether a warning callback is set

ASSUME ThreadsAssumption == IsFiniteSet(Threads)
ASSUME SizeAssumption == min \in Nat \ {0} /\ max \in Nat /\ min <= max

VARIABLES
    free_list,      \* the free connections
    tmap,           \* the connection of each thread, or none
    cmax,           \* the number of connections made so far
    wait_count,     \* the number of threads that wait
    valid,          \* whether the object exists
    tl_timeout,     \* whether waits have a timeout (tl_timeout_ms # 0)
    conn,           \* the connections: isopen, connection_aborted, in_transaction
    resource,       \* the threads with the pool in their thread resource list
    pc,             \* where a thread is in a call
    new_ds,         \* whether the operation got the connection from the pool
    waited,         \* whether the operation has waited (wait_total # 0)
    timed           \* whether the thread's wait has a timeout

locals == <<new_ds, waited, timed>>
vars == <<free_list, tmap, cmax, wait_count, valid, tl_timeout, conn, resource, pc, locals>>

Index == 0 .. max - 1
none == -1
Blocked == {t \in Threads : pc[t] = "blocked"}
Waiting == {t \in Threads : pc[t] \in {"blocked", "woken", "timedout"}}

Init ==
    /\ free_list = [i \in 1 .. min |-> i - 1]
    /\ tmap = [t \in Threads |-> none]
    /\ cmax = min
    /\ wait_count = 0
    /\ valid = TRUE
    /\ tl_timeout \in BOOLEAN
    /\ conn = [i \in Index |-> [open |-> i < min, aborted |-> FALSE, trans |-> FALSE]]
    /\ resource = {}
    /\ pc = [t \in Threads |-> "idle"]
    /\ new_ds = [t \in Threads |-> FALSE]
    /\ waited = [t \in Threads |-> FALSE]
    /\ timed = [t \in Threads |-> FALSE]

-----------------------------------------------------------------------------
\* the thread goes on to "to" and, if anyone waits, one blocked thread wakes up
Signal(t, to) ==
    IF wait_count > 0 /\ Blocked # {}
    THEN \E u \in Blocked : pc' = [pc EXCEPT ![u] = "woken", ![t] = to]
    ELSE pc' = [pc EXCEPT ![t] = to]

\* the local variables of a call end with it
EndCall(t) ==
    /\ new_ds' = [new_ds EXCEPT ![t] = FALSE]
    /\ waited' = [waited EXCEPT ![t] = FALSE]
    /\ timed' = [timed EXCEPT ![t] = FALSE]

\* Faulty variant: a single waiting thread is not signalled.
freeDSSilent(t, to) ==
    /\ resource' = resource \ {t}
    /\ free_list' = Append(free_list, tmap[t])
    /\ tmap' = [tmap EXCEPT ![t] = none]
    /\ IF wait_count > 1 THEN Signal(t, to) ELSE pc' = [pc EXCEPT ![t] = to]
    /\ EndCall(t)
    /\ UNCHANGED <<cmax, wait_count, valid, tl_timeout>>

\* freeDS(): out of the resource list, into the free list, and a signal
freeDS(t, to) ==
    /\ resource' = resource \ {t}
    /\ free_list' = Append(free_list, tmap[t])
    /\ tmap' = [tmap EXCEPT ![t] = none]
    /\ Signal(t, to)
    /\ EndCall(t)
    /\ UNCHANGED <<cmax, wait_count, valid, tl_timeout>>

\* the thread keeps its connection
Keep(t, to) ==
    /\ pc' = [pc EXCEPT ![t] = to]
    /\ IF to = "idle" THEN EndCall(t) ELSE UNCHANGED locals
    /\ UNCHANGED <<free_list, tmap, cmax, wait_count, valid, tl_timeout, resource>>

Assign(t, i) ==
    /\ tmap' = [tmap EXCEPT ![t] = i]
    /\ new_ds' = [new_ds EXCEPT ![t] = TRUE]
    /\ resource' = resource \cup {t}
    /\ pc' = [pc EXCEPT ![t] = "got"]
    /\ timed' = [timed EXCEPT ![t] = FALSE]
    /\ UNCHANGED <<valid, tl_timeout, conn>>

(* One turn of the loop of getDSIntern() by a thread without a connection: *)
(* the first of the free ones, a new one, or a wait.  n is wait_count as   *)
(* the thread leaves its wait, w whether it has waited.                    *)
Turn(t, n, w) ==
    \/ /\ free_list # <<>>
       /\ free_list' = Tail(free_list)
       /\ Assign(t, Head(free_list))
       /\ wait_count' = n
       /\ waited' = [waited EXCEPT ![t] = w]
       /\ UNCHANGED cmax
    \/ /\ free_list = <<>> /\ cmax < max
       /\ cmax' = cmax + 1
       /\ Assign(t, cmax)
       /\ wait_count' = n
       /\ waited' = [waited EXCEPT ![t] = w]
       /\ UNCHANGED free_list
    \/ /\ free_list = <<>> /\ cmax = max
       /\ wait_count' = n + 1
       /\ pc' = [pc EXCEPT ![t] = "blocked"]
       /\ timed' = [timed EXCEPT ![t] = tl_timeout]
       /\ waited' = [waited EXCEPT ![t] = w]
       /\ UNCHANGED <<free_list, tmap, cmax, valid, tl_timeout, conn, resource, new_ds>>

\* the operation ends with an exception while the thread has no connection
Fail(t) ==
    /\ pc' = [pc EXCEPT ![t] = "idle"]
    /\ wait_count' = wait_count - 1
    /\ EndCall(t)
    /\ UNCHANGED <<free_list, tmap, cmax, valid, tl_timeout, conn, resource>>

-----------------------------------------------------------------------------
\* a method is called; which one matters only once it has its connection
Call(t) ==
    /\ pc[t] = "idle" /\ valid
    /\ pc' = [pc EXCEPT ![t] = "calling"]
    /\ UNCHANGED <<free_list, tmap, cmax, wait_count, valid, tl_timeout, conn, resource, locals>>

getDSIntern(t) ==
    /\ pc[t] = "calling"
    /\ \/ tmap[t] # none /\ Keep(t, "got") /\ UNCHANGED conn
       \/ tmap[t] = none /\ Turn(t, wait_count, FALSE)

TimeOut(t) ==
    /\ pc[t] = "blocked" /\ timed[t]
    /\ pc' = [pc EXCEPT ![t] = "timedout"]
    /\ UNCHANGED <<free_list, tmap, cmax, wait_count, valid, tl_timeout, conn, resource, locals>>

SpuriousWakeup(t) ==
    /\ pc[t] = "blocked"
    /\ pc' = [pc EXCEPT ![t] = "woken"]
    /\ UNCHANGED <<free_list, tmap, cmax, wait_count, valid, tl_timeout, conn, resource, locals>>

Resume(t) ==
    /\ pc[t] = "woken"
    /\ \/ ~valid /\ Fail(t)
       \/ valid /\ Turn(t, wait_count - 1, TRUE)

\* tl_timeout_ms is read again: it may have been set to 0 in the meantime
ResumeTimedOut(t) ==
    /\ pc[t] = "timedout"
    /\ \/ (~valid \/ tl_timeout) /\ Fail(t)
       \/ valid /\ ~tl_timeout /\ Turn(t, wait_count - 1, TRUE)

\* checkWait(): the warning threshold is reached
CheckWait(t) ==
    /\ pc[t] = "got" /\ waited[t] /\ Callback
    /\ pc' = [pc EXCEPT ![t] = "config"]
    /\ waited' = [waited EXCEPT ![t] = FALSE]
    /\ UNCHANGED <<free_list, tmap, cmax, wait_count, valid, tl_timeout, conn, resource, new_ds, timed>>

\* the states that an attempt to open a connection can leave it in
opened == [open |-> TRUE, aborted |-> FALSE, trans |-> FALSE]
notOpened == [open |-> FALSE, aborted |-> FALSE, trans |-> FALSE]
lost == [open |-> FALSE, aborted |-> TRUE, trans |-> FALSE]

(* getConfigString() calls getDS() again, which finds the thread's own     *)
(* connection, with new_ds = false, and opens it if need be, against its   *)
(* assert(new_ds); then the callback runs, and its exception releases the  *)
(* connection.  A connection that cannot be opened is released by the      *)
(* inner getDS() and, in FreeAgain, by the outer one.                      *)
ConfigString(t) ==
    /\ pc[t] = "config"
    /\ \/ /\ IF conn[tmap[t]].open
             THEN UNCHANGED conn
             ELSE conn' = [conn EXCEPT ![tmap[t]] = opened]
          /\ Keep(t, "got") \/ freeDS(t, "idle")
       \/ /\ ~conn[tmap[t]].open
          /\ conn' = [conn EXCEPT ![tmap[t]] = notOpened]
          /\ freeDS(t, "freed")

(* The second freeDS() of the same connection: tmap.find() returns end(),  *)
(* which is read and erased.  That is undefined: the red-black tree is     *)
(* rebalanced around its own header, under the lock, which crashes or      *)
(* never returns.  Either way nobody uses the pool again.                  *)
FreeAgain(t) ==
    /\ pc[t] = "freed"
    /\ pc' = [pc EXCEPT ![t] = "crashed"]
    /\ UNCHANGED <<free_list, tmap, cmax, wait_count, valid, tl_timeout, conn, resource, locals>>

\* Faulty variant: a connection that could not be opened stays with the thread.
OpenKeeps(t) ==
    /\ pc[t] = "got"
    /\ \/ conn[tmap[t]].open /\ Keep(t, "ready") /\ UNCHANGED conn
       \/ /\ ~conn[tmap[t]].open
          /\ \/ conn' = [conn EXCEPT ![tmap[t]] = opened] /\ Keep(t, "ready")
             \/ conn' = [conn EXCEPT ![tmap[t]] = notOpened] /\ Keep(t, "idle")

\* the rest of getDS(): a connection that is not open is opened
Open(t) ==
    /\ pc[t] = "got"
    /\ \/ conn[tmap[t]].open /\ Keep(t, "ready") /\ UNCHANGED conn
       \/ /\ ~conn[tmap[t]].open
          /\ \/ conn' = [conn EXCEPT ![tmap[t]] = opened] /\ Keep(t, "ready")
             \/ conn' = [conn EXCEPT ![tmap[t]] = notOpened] /\ freeDS(t, "idle")

-----------------------------------------------------------------------------
(* The body of a method and the destructor of its helper.                  *)

SetConn(t, c) == conn' = [conn EXCEPT ![tmap[t]] = c]
InTransaction(t, b) == SetConn(t, [conn[tmap[t]] EXCEPT !.trans = b])
Release(t) == freeDS(t, "idle")

ReleaseNew(t) == IF new_ds[t] THEN Release(t) ELSE Keep(t, "idle")

\* the driver calls connectionAborted()
Abort(t) ==
    /\ pc[t] = "ready"
    /\ SetConn(t, lost) /\ Release(t)

\* DAH_NOCHANGE; a select that returns a statement keeps the connection
select(t) ==
    /\ pc[t] = "ready"
    /\ \/ UNCHANGED conn /\ ReleaseNew(t)
       \/ InTransaction(t, TRUE) /\ Keep(t, "idle")

\* DAH_ACQUIRE: in a transaction afterwards unless none could be begun
exec_internal(t) ==
    /\ pc[t] = "ready"
    /\ \/ ~conn[tmap[t]].trans /\ UNCHANGED conn
       \/ InTransaction(t, TRUE)
    /\ Keep(t, "idle")

\* Faulty variant: a beginTransaction() that fails gives up an old connection, too.
beginTransactionReleases(t) ==
    /\ pc[t] = "ready"
    /\ \/ InTransaction(t, TRUE) /\ Keep(t, "idle")
       \/ UNCHANGED conn /\ Release(t)

beginTransaction(t) ==
    /\ pc[t] = "ready"
    /\ \/ InTransaction(t, TRUE) /\ Keep(t, "idle")
       \/ UNCHANGED conn /\ ReleaseNew(t)

\* commit() and rollback(), DAH_RELEASE, whether the database confirms it or not
commit(t) ==
    /\ pc[t] = "ready"
    /\ InTransaction(t, FALSE) /\ Release(t)

-----------------------------------------------------------------------------
\* Faulty variants: the thread stays in tmap, or nobody is signalled.
cleanupKeepsEntry(t) ==
    /\ pc[t] = "idle" /\ t \in resource
    /\ InTransaction(t, FALSE) \/ SetConn(t, lost)
    /\ resource' = resource \ {t}
    /\ free_list' = Append(free_list, tmap[t])
    /\ Signal(t, "idle")
    /\ UNCHANGED <<tmap, cmax, wait_count, valid, tl_timeout, locals>>

cleanupSilent(t) ==
    /\ pc[t] = "idle" /\ t \in resource
    /\ InTransaction(t, FALSE) \/ SetConn(t, lost)
    /\ resource' = resource \ {t}
    /\ free_list' = Append(free_list, tmap[t])
    /\ tmap' = [tmap EXCEPT ![t] = none]
    /\ UNCHANGED <<pc, cmax, wait_count, valid, tl_timeout, locals>>

\* cleanup(): a thread that ends rolls back; its id may be used again
cleanup(t) ==
    /\ pc[t] = "idle" /\ t \in resource
    /\ InTransaction(t, FALSE) \/ SetConn(t, lost)
    /\ Release(t)

\* destructor(): no thread is woken up; the own transaction is rolled back
destructor(t) ==
    /\ pc[t] = "idle" /\ valid
    /\ valid' = FALSE
    /\ pc' = [pc EXCEPT ![t] = IF tmap[t] # none /\ conn[tmap[t]].trans THEN "deleting" ELSE "idle"]
    /\ UNCHANGED <<free_list, tmap, cmax, wait_count, tl_timeout, conn, resource, locals>>

destructorFree(t) ==
    /\ pc[t] = "deleting"
    /\ InTransaction(t, FALSE) \/ SetConn(t, lost)
    /\ Release(t)

\* without the lock
setErrorTimeout ==
    /\ valid
    /\ tl_timeout' = ~tl_timeout
    /\ UNCHANGED <<free_list, tmap, cmax, wait_count, valid, conn, resource, pc, locals>>

\* no thread has got into FreeAgain
Running == \A t \in Threads : pc[t] # "crashed"

\* the pool is deleted and no thread uses it any more, or none can
Over ==
    /\ ~Running \/ (~valid /\ \A t \in Threads : pc[t] = "idle" /\ t \notin resource)
    /\ UNCHANGED vars

Step(t) ==
    \/ getDSIntern(t) \/ Resume(t) \/ ResumeTimedOut(t)
    \/ CheckWait(t) \/ ConfigString(t) \/ FreeAgain(t) \/ Open(t)
    \/ Abort(t) \/ select(t) \/ exec_internal(t) \/ beginTransaction(t) \/ commit(t)
    \/ cleanup(t) \/ destructorFree(t)

Next ==
    \/ \E t \in Threads :
        Running /\ (Call(t) \/ Step(t) \/ TimeOut(t) \/ SpuriousWakeup(t) \/ destructor(t))
    \/ Running /\ setErrorTimeout
    \/ Over

Spec == Init /\ [][Next]_vars

\* A thread that can run does so, and one that keeps a connection ends in the end.
Fairness == \A t \in Threads : WF_vars(Running /\ Step(t))

FairSpec == Spec /\ Fairness

-----------------------------------------------------------------------------
Holders(i) == {t \in Threads : tmap[t] = i}
Places(i) == {k \in DOMAIN free_list : free_list[k] = i}

\* Every variable has its type; in particular cmax never exceeds max, the
\* length of the array pool.
TypeOK ==
    /\ free_list \in Seq(Index) /\ Len(free_list) <= max
    /\ tmap \in [Threads -> Index \cup {none}]
    /\ cmax \in min .. max
    /\ wait_count \in 0 .. Cardinality(Threads)
    /\ valid \in BOOLEAN /\ tl_timeout \in BOOLEAN
    /\ conn \in [Index -> [open : BOOLEAN, aborted : BOOLEAN, trans : BOOLEAN]]
    /\ resource \subseteq Threads
    /\ pc \in [Threads -> {"idle", "calling", "blocked", "woken", "timedout", "got", "config",
                           "ready", "deleting", "freed", "crashed"}]
    /\ new_ds \in [Threads -> BOOLEAN] /\ waited \in [Threads -> BOOLEAN] /\ timed \in [Threads -> BOOLEAN]

\* Every connection made so far is either free, once, or belongs to exactly one
\* thread, whatever fails, times out, ends or is deleted in between: none is
\* lost and none is shared.  A thread that has one has the pool in its resource
\* list, so that cleanup() gives the connection back when the thread ends.
OneOwner ==
    /\ TypeOK
    /\ \A i \in Index : Cardinality(Holders(i)) + Cardinality(Places(i)) = (IF i < cmax THEN 1 ELSE 0)
    /\ resource = {t \in Threads : tmap[t] # none}

\* A connection goes back to the pool without a transaction (the assertions of
\* freeDS() and getDS()), so no thread commits what another one has done.  One
\* that is not open belongs to a thread only in the call of getDS() that took it
\* from the pool, before that call opens it: methods run on open connections,
\* and cleanup() and destructor() can roll back.  In "got" the call has new_ds
\* set, as assert(new_ds) before ds->open() says.  "config" is the exception to
\* that assertion: the getDS() of getConfigString() is a call of its own whose
\* new_ds is false, and it may find the connection unopened.
FreeCleanHeldOpen ==
    /\ \A k \in DOMAIN free_list : ~conn[free_list[k]].trans
    /\ \A t \in Threads :
        (tmap[t] # none /\ ~conn[tmap[t]].open) => (new_ds[t] /\ pc[t] \in {"got", "config"})

\* wait_count, which decides whether freeDS() signals, counts the threads in the
\* wait of getDSIntern().  A thread sleeps only while the pool is at its maximum
\* and for every free connection some thread has been woken up, until the pool
\* is deleted.
NoLostWakeup ==
    /\ wait_count = Cardinality(Waiting)
    /\ (valid /\ Blocked # {}) =>
        /\ cmax = max
        /\ Len(free_list) <= Cardinality({t \in Threads : pc[t] = "woken"})

\* A transaction never moves to another thread or to the free list: a step that
\* takes a connection from its thread ends the transaction.
TransactionStays ==
    [][\A t \in Threads : (tmap[t] # none /\ tmap'[t] # tmap[t]) => ~conn'[tmap[t]].trans]_vars

\* Unless the pool is deleted, or destroyed by the second freeDS() of a failed
\* getConfigString(), every wait for a connection ends once no new calls come,
\* also one without a timeout: the signals of freeDS() and cleanup() reach
\* everyone.
WaitersServed ==
    ([](valid /\ Running) /\ <>[](\A t \in Threads : pc[t] # "calling")) => \A t \in Threads : t \in Waiting ~> t \notin Waiting
=============================================================================
