------------------------------- MODULE RWLock -------------------------------
(***************************************************************************)
(* Class RWLock: a read-write lock that favours readers, with recursive     *)
(* read locks, deadlock detection and Condition waits in either mode        *)
(* (lib/RWLock.cpp, lib/AbstractSmartLock.cpp, lib/VLock.cpp).              *)
(*                                                                          *)
(* Steps are cut as in SmartMutex: what a thread does under the asl_lock is *)
(* one step, but for the deadlock test, which reads the waiting_on of the   *)
(* holders one after the other while they are free to change it.  The       *)
(* VLock of the writer (vl) is set and cleared with tid and left out.       *)
(***************************************************************************)
EXTENDS Integers, FiniteSets

CONSTANTS
    Threads,
    Locks,      \* objects of class RWLock
    Conds,      \* objects of class Condition
    Timed,      \* whether a call has a timeout: a subset of BOOLEAN
    Deletable,  \* the locks that the program deletes while threads may use them
    MaxReads    \* bound of the model on the recursion of a read lock

Lock_Unlocked == -1
Lock_Deleted  == -2
Null          == 0

ASSUME SortsAssumption ==
    /\ Threads \cap {Lock_Unlocked, Lock_Deleted, Null} = {}
    /\ Null \notin Locks
    /\ IsFiniteSet(Threads)
    /\ Timed \subseteq BOOLEAN /\ Deletable \subseteq Locks
    /\ MaxReads \in Nat \ {0}

VARIABLES
    tid,           \* per lock: the writer, or Lock_Unlocked, Lock_Deleted
    num_readers,   \* per lock
    tmap,          \* per lock and thread: how often it holds the read lock
    vmap,          \* per lock: the threads whose VLock is in the map
    waiting,       \* per lock: writers that wait on asl_cond
    readRequests,  \* per lock: readers that wait on the condition read
    cmap,          \* per lock: waiting threads by condition variable
    held,          \* per thread: its VLock, as the number of entries for each lock
    waiting_on,    \* per thread: VLock::waiting_on
    resources,     \* per thread: the locks in its thread resource list
    pc, call

lockVars   == <<tid, num_readers, tmap, vmap, held, resources>>
threadVars == <<waiting, readRequests, cmap, waiting_on, pc, call>>
vars       == <<lockVars, threadVars>>

---------------------------------------------------------------------------
(* The states of a thread are those of SmartMutex; in check, left holds the *)
(* VLocks that the test has still to look at, and reads is the number of    *)
(* read locks to take.                                                      *)
PCs == {"idle", "loop", "check", "blocked", "woken", "timedout",
        "cond", "condwoken", "exiting"}

WaitStates == {"check", "blocked", "woken", "timedout"}
CondStates == {"cond", "condwoken"}

Modes  == {"read", "write"}
NoCall == [lock |-> Null, mode |-> "write", reads |-> 0, timed |-> FALSE,
           cond |-> Null, left |-> {}]

Available(l) == \A u \in Threads : ~(pc[u] \in {"loop", "check"} /\ call[u].lock = l)

(* signal() on asl_cond, broadcast() on asl_cond and on read. *)
Blocked(p, l, mode) ==
    {u \in Threads : p[u] = "blocked" /\ call[u].lock = l /\ call[u].mode = mode}

Signal(p, l) ==
    IF Blocked(p, l, "write") = {} THEN {p}
    ELSE {[p EXCEPT ![u] = "woken"] : u \in Blocked(p, l, "write")}

Broadcast(p, l, modes) ==
    [u \in Threads |-> IF \E m \in modes : u \in Blocked(p, l, m) THEN "woken" ELSE p[u]]

BroadcastConds(p, C) ==
    [u \in Threads |-> IF p[u] = "cond" /\ call[u].cond \in C THEN "condwoken" ELSE p[u]]

(* signalImpl(), which lets the readers go first. *)
SignalImpl(p, l) ==
    IF readRequests[l] > 0 THEN {Broadcast(p, l, {"read"})}
    ELSE IF waiting[l] > 0 THEN Signal(p, l) ELSE {p}

Goto(t, s) == pc' = [pc EXCEPT ![t] = s]

---------------------------------------------------------------------------
(* Taking and giving up the lock. *)

(* grab_intern() *)
GrabIntern(t, l) ==
    /\ held' = [held EXCEPT ![t][l] = @ + 1]
    /\ tid' = [tid EXCEPT ![l] = t]
    /\ resources' = [resources EXCEPT ![t] = @ \cup {l}]
    /\ UNCHANGED <<num_readers, tmap, vmap>>

(* release_intern() *)
ReleaseIntern(t, l, p) ==
    /\ resources' = [resources EXCEPT ![t] = @ \ {l}]
    /\ held' = [held EXCEPT ![t][l] = @ - 1]
    /\ tid' = [tid EXCEPT ![l] = Lock_Unlocked]
    /\ pc' \in SignalImpl(p, l)
    /\ UNCHANGED <<num_readers, tmap, vmap>>

(* n calls of mark_read_lock_intern(), the first of which registers the     *)
(* lock with the thread unless it has it already.                           *)
MarkReadLockIntern(t, l, n) ==
    /\ num_readers' = [num_readers EXCEPT ![l] = @ + n]
    /\ tmap' = [tmap EXCEPT ![l][t] = @ + n]
    /\ IF tmap[l][t] = 0
       THEN /\ vmap' = [vmap EXCEPT ![l] = @ \cup {t}]
            /\ held' = [held EXCEPT ![t][l] = @ + 1]
            /\ resources' = [resources EXCEPT ![t] = @ \cup {l}]
       ELSE UNCHANGED <<vmap, held, resources>>
    /\ UNCHANGED tid

(* Faulty variants: the last reader tells nobody; the thread resource is    *)
(* given up with the first of several read locks.                           *)
ReleaseReadLockInternSilent(t, l, n, p) ==
    /\ num_readers' = [num_readers EXCEPT ![l] = @ - n]
    /\ tmap' = [tmap EXCEPT ![l][t] = @ - n]
    /\ pc' = p
    /\ IF tmap[l][t] = n
       THEN /\ vmap' = [vmap EXCEPT ![l] = @ \ {t}]
            /\ held' = [held EXCEPT ![t][l] = @ - 1]
            /\ resources' = [resources EXCEPT ![t] = @ \ {l}]
       ELSE UNCHANGED <<vmap, held, resources>>
    /\ UNCHANGED tid

ReleaseReadLockInternEager(t, l, n, p) ==
    /\ num_readers' = [num_readers EXCEPT ![l] = @ - n]
    /\ tmap' = [tmap EXCEPT ![l][t] = @ - n]
    /\ pc' \in IF num_readers[l] = n /\ waiting[l] > 0 THEN Signal(p, l) ELSE {p}
    /\ IF tmap[l][t] = n
       THEN /\ vmap' = [vmap EXCEPT ![l] = @ \ {t}]
            /\ held' = [held EXCEPT ![t][l] = @ - 1]
       ELSE UNCHANGED <<vmap, held>>
    /\ resources' = [resources EXCEPT ![t] = @ \ {l}]
    /\ UNCHANGED tid

(* n calls of release_read_lock_intern(): the last reader wakes a writer,   *)
(* and the last read lock of a thread is unregistered.                      *)
ReleaseReadLockIntern(t, l, n, p) ==
    /\ num_readers' = [num_readers EXCEPT ![l] = @ - n]
    /\ tmap' = [tmap EXCEPT ![l][t] = @ - n]
    /\ pc' \in IF num_readers[l] = n /\ waiting[l] > 0 THEN Signal(p, l) ELSE {p}
    /\ IF tmap[l][t] = n
       THEN /\ vmap' = [vmap EXCEPT ![l] = @ \ {t}]
            /\ held' = [held EXCEPT ![t][l] = @ - 1]
            /\ resources' = [resources EXCEPT ![t] = @ \ {l}]
       ELSE UNCHANGED <<vmap, held, resources>>
    /\ UNCHANGED tid

---------------------------------------------------------------------------
(* grabImpl() and grab_read_lock_intern() *)

(* The thread is inside of waitOn(): counted, with its wait published. *)
StartWait(t, c, left) ==
    /\ waiting' = IF c.mode = "write" THEN [waiting EXCEPT ![c.lock] = @ + 1] ELSE waiting
    /\ readRequests' =
          IF c.mode = "read" THEN [readRequests EXCEPT ![c.lock] = @ + 1] ELSE readRequests
    /\ waiting_on' = [waiting_on EXCEPT ![t] = c.lock]
    /\ call' = [call EXCEPT ![t] = [c EXCEPT !.left = left]]
    /\ Goto(t, "check")

(* The thread is back from waitOn(), with call c in state s. *)
EndWait(t, c, s) ==
    LET l == call[t].lock
    IN  /\ waiting' = IF call[t].mode = "write" THEN [waiting EXCEPT ![l] = @ - 1] ELSE waiting
        /\ readRequests' =
              IF call[t].mode = "read" THEN [readRequests EXCEPT ![l] = @ - 1] ELSE readRequests
        /\ waiting_on' = [waiting_on EXCEPT ![t] = Null]
        /\ call' = [call EXCEPT ![t] = c]
        /\ Goto(t, s)

Return(t) ==
    /\ call' = [call EXCEPT ![t] = NoCall]
    /\ Goto(t, "idle")
    /\ UNCHANGED <<waiting, readRequests, waiting_on>>

(* Faulty variant: a writer does not wait for the readers. *)
AttemptOverReaders(t, c) ==
    LET l == c.lock
    IN  \/ tid[l] \in Threads \ {t} /\ StartWait(t, c, {tid[l]}) /\ UNCHANGED lockVars
        \/ tid[l] \in {t, Lock_Deleted} /\ Return(t) /\ UNCHANGED lockVars
        \/ /\ c.mode = "write" /\ tid[l] = Lock_Unlocked
           /\ GrabIntern(t, l) /\ Return(t)
        \/ /\ c.mode = "read" /\ tid[l] = Lock_Unlocked
           /\ MarkReadLockIntern(t, l, c.reads) /\ Return(t)

(* One pass of the loop with the asl_lock: wait for the writer, or a writer *)
(* for the readers; fail; or take the lock.                                 *)
Attempt(t, c) ==
    LET l == c.lock
    IN  \/ tid[l] \in Threads \ {t} /\ StartWait(t, c, {tid[l]}) /\ UNCHANGED lockVars
        \/ tid[l] \in {t, Lock_Deleted} /\ Return(t) /\ UNCHANGED lockVars
        \/ /\ c.mode = "write" /\ tid[l] = Lock_Unlocked /\ num_readers[l] > 0
           /\ StartWait(t, c, vmap[l]) /\ UNCHANGED lockVars
        \/ /\ c.mode = "write" /\ tid[l] = Lock_Unlocked /\ num_readers[l] = 0
           /\ GrabIntern(t, l) /\ Return(t)
        \/ /\ c.mode = "read" /\ tid[l] = Lock_Unlocked
           /\ MarkReadLockIntern(t, l, c.reads) /\ Return(t)

(* writeLock() and readLock() *)
Lock(t, l, mode, timed) ==
    /\ pc[t] = "idle"
    /\ Available(l)
    /\ mode = "read" => tmap[l][t] < MaxReads
    /\ Attempt(t, [NoCall EXCEPT !.lock = l, !.mode = mode, !.timed = timed,
                                 !.reads = IF mode = "read" THEN 1 ELSE 0])
    /\ UNCHANGED cmap

(* Back at the top of the loop. *)
Loop(t) ==
    /\ pc[t] = "loop"
    /\ Attempt(t, call[t])
    /\ UNCHANGED cmap

(* Faulty variant: the test stops at the first holder. *)
CheckFirst(t) ==
    LET c == call[t]
    IN  /\ pc[t] = "check"
        /\ \/ /\ c.left = {}
              /\ Goto(t, "blocked")
              /\ UNCHANGED <<waiting, readRequests, waiting_on, call>>
           \/ \E u \in c.left :
                /\ waiting_on[u] # Null /\ held[t][waiting_on[u]] > 0
                /\ EndWait(t, NoCall, "idle")
           \/ \E u \in c.left :
                /\ ~(waiting_on[u] # Null /\ held[t][waiting_on[u]] > 0)
                /\ call' = [call EXCEPT ![t].left = {}]
                /\ UNCHANGED <<waiting, readRequests, waiting_on, pc>>
        /\ UNCHANGED <<lockVars, cmap>>

(* The deadlock test of waitOn(): one holder after the other, then the wait *)
(* on asl_cond or on read, which gives up the asl_lock.                     *)
Check(t) ==
    LET c == call[t]
    IN  /\ pc[t] = "check"
        /\ \/ /\ c.left = {}
              /\ Goto(t, "blocked")
              /\ UNCHANGED <<waiting, readRequests, waiting_on, call>>
           \/ \E u \in c.left :
                /\ waiting_on[u] # Null /\ held[t][waiting_on[u]] > 0
                /\ EndWait(t, NoCall, "idle")
           \/ \E u \in c.left :
                /\ ~(waiting_on[u] # Null /\ held[t][waiting_on[u]] > 0)
                /\ call' = [call EXCEPT ![t].left = @ \ {u}]
                /\ UNCHANGED <<waiting, readRequests, waiting_on, pc>>
        /\ UNCHANGED <<lockVars, cmap>>

(* A thread leaves its condition variable after its timeout, or for no reason. *)
TimeOut(t) ==
    /\ pc[t] = "blocked" /\ call[t].timed
    /\ Goto(t, "timedout")
    /\ UNCHANGED <<lockVars, waiting, readRequests, cmap, waiting_on, call>>

SpuriousWakeup(t) ==
    /\ pc[t] = "blocked"
    /\ Goto(t, "woken")
    /\ UNCHANGED <<lockVars, waiting, readRequests, cmap, waiting_on, call>>

Resume(t) ==
    /\ pc[t] = "woken"
    /\ Available(call[t].lock)
    /\ EndWait(t, call[t], "loop")
    /\ UNCHANGED <<lockVars, cmap>>

ResumeTimedOut(t) ==
    /\ pc[t] = "timedout"
    /\ Available(call[t].lock)
    /\ EndWait(t, NoCall, "idle")
    /\ UNCHANGED <<lockVars, cmap>>

---------------------------------------------------------------------------
(* The other calls.  Calls that only raise an exception are left out. *)

tryGrab(t, l) ==
    /\ pc[t] = "idle" /\ Available(l)
    /\ tid[l] = Lock_Unlocked /\ num_readers[l] = 0
    /\ GrabIntern(t, l)
    /\ UNCHANGED threadVars

tryReadLock(t, l) ==
    /\ pc[t] = "idle" /\ Available(l)
    /\ tid[l] = Lock_Unlocked
    /\ tmap[l][t] < MaxReads
    /\ MarkReadLockIntern(t, l, 1)
    /\ UNCHANGED threadVars

(* release(): RWLock::writeUnlock() *)
release(t, l) ==
    /\ pc[t] = "idle" /\ Available(l)
    /\ tid[l] = t
    /\ ReleaseIntern(t, l, pc)
    /\ UNCHANGED <<waiting, readRequests, cmap, waiting_on, call>>

readUnlock(t, l) ==
    /\ pc[t] = "idle" /\ Available(l)
    /\ tid[l] \notin {t, Lock_Deleted}
    /\ tmap[l][t] > 0
    /\ ReleaseReadLockIntern(t, l, 1, pc)
    /\ UNCHANGED <<waiting, readRequests, cmap, waiting_on, call>>

(* Faulty variant: only one of the read locks is released for the wait. *)
ExternWaitOnce(t, l, c) ==
    LET p == [pc EXCEPT ![t] = "cond"]
    IN  /\ pc[t] = "idle" /\ Available(l)
        /\ \/ /\ tid[l] = t
              /\ ReleaseIntern(t, l, p)
              /\ call' = [call EXCEPT ![t] = [NoCall EXCEPT !.lock = l, !.cond = c]]
           \/ /\ tid[l] # Lock_Deleted /\ tmap[l][t] > 0
              /\ ReleaseReadLockIntern(t, l, 1, p)
              /\ call' = [call EXCEPT ![t] = [NoCall EXCEPT !.lock = l, !.cond = c, !.mode = "read",
                                                            !.reads = tmap[l][t]]]
        /\ cmap' = [cmap EXCEPT ![l][c] = @ + 1]
        /\ UNCHANGED <<waiting, readRequests, waiting_on>>

(* Condition::wait() with the write lock or with any number of read locks:  *)
(* externWaitImpl() up to the wait.                                         *)
ExternWait(t, l, c) ==
    LET p == [pc EXCEPT ![t] = "cond"]
    IN  /\ pc[t] = "idle" /\ Available(l)
        /\ \/ /\ tid[l] = t
              /\ ReleaseIntern(t, l, p)
              /\ call' = [call EXCEPT ![t] = [NoCall EXCEPT !.lock = l, !.cond = c]]
           \/ /\ tid[l] # Lock_Deleted /\ tmap[l][t] > 0
              /\ ReleaseReadLockIntern(t, l, tmap[l][t], p)
              /\ call' = [call EXCEPT ![t] = [NoCall EXCEPT !.lock = l, !.cond = c, !.mode = "read",
                                                            !.reads = tmap[l][t]]]
        /\ cmap' = [cmap EXCEPT ![l][c] = @ + 1]
        /\ UNCHANGED <<waiting, readRequests, waiting_on>>

(* Condition::signal() by another thread, a timeout, or a spurious wakeup. *)
CondWakeup(t) ==
    /\ pc[t] = "cond"
    /\ Goto(t, "condwoken")
    /\ UNCHANGED <<lockVars, waiting, readRequests, cmap, waiting_on, call>>

(* The rest of externWaitImpl(): take the lock again as it was held.        *)
(* grab_read_lock_intern() can wait or fail only the first time.            *)
CondResume(t) ==
    LET c == call[t]
    IN  /\ pc[t] = "condwoken"
        /\ Available(c.lock)
        /\ cmap' = [cmap EXCEPT ![c.lock][c.cond] = @ - 1]
        /\ Attempt(t, [c EXCEPT !.cond = Null])

(* destructorImpl() and destructor(): the writers are told of a lock that   *)
(* readers hold, everybody of one that a writer holds.                      *)
Destructor(t, l) ==
    /\ pc[t] = "idle" /\ Available(l)
    /\ l \in Deletable /\ tid[l] # Lock_Deleted
    /\ LET p == BroadcastConds(pc, {c \in Conds : cmap[l][c] > 0})
       IN  pc' = Broadcast(p, l, IF tid[l] \in Threads THEN Modes
                                 ELSE IF num_readers[l] > 0 THEN {"write"} ELSE {})
    /\ num_readers' = [num_readers EXCEPT ![l] = 0]
    /\ tmap' = [tmap EXCEPT ![l] = [u \in Threads |-> 0]]
    /\ vmap' = [vmap EXCEPT ![l] = {}]
    /\ held' = [u \in Threads |-> [held[u] EXCEPT ![l] = IF u \in vmap[l] \/ tid[l] = u THEN @ - 1 ELSE @]]
    /\ resources' = IF tid[l] = t THEN [resources EXCEPT ![t] = @ \ {l}] ELSE resources
    /\ tid' = [tid EXCEPT ![l] = Lock_Deleted]
    /\ UNCHANGED <<waiting, readRequests, cmap, waiting_on, call>>

(* The thread ends and its resources are cleaned up one by one. *)
Exit(t) ==
    /\ pc[t] = "idle"
    /\ Goto(t, "exiting")
    /\ UNCHANGED <<lockVars, waiting, readRequests, cmap, waiting_on, call>>

(* cleanupImpl(): all read locks of the thread, or its write lock. *)
Cleanup(t, l) ==
    /\ pc[t] = "exiting" /\ l \in resources[t] /\ Available(l)
    /\ \/ num_readers[l] > 0 /\ ReleaseReadLockIntern(t, l, tmap[l][t], pc)
       \/ num_readers[l] = 0 /\ tid[l] \in Threads /\ ReleaseIntern(t, l, pc)
       \/ /\ num_readers[l] = 0 /\ tid[l] \notin Threads
          /\ resources' = [resources EXCEPT ![t] = @ \ {l}]
          /\ UNCHANGED <<tid, num_readers, tmap, vmap, held, pc>>
    /\ UNCHANGED <<waiting, readRequests, cmap, waiting_on, call>>

Restart(t) ==
    /\ pc[t] = "exiting" /\ resources[t] = {}
    /\ Goto(t, "idle")
    /\ UNCHANGED <<lockVars, waiting, readRequests, cmap, waiting_on, call>>

---------------------------------------------------------------------------

Init ==
    /\ tid = [l \in Locks |-> Lock_Unlocked]
    /\ num_readers = [l \in Locks |-> 0]
    /\ tmap = [l \in Locks |-> [t \in Threads |-> 0]]
    /\ vmap = [l \in Locks |-> {}]
    /\ waiting = [l \in Locks |-> 0]
    /\ readRequests = [l \in Locks |-> 0]
    /\ cmap = [l \in Locks |-> [c \in Conds |-> 0]]
    /\ held = [t \in Threads |-> [l \in Locks |-> 0]]
    /\ waiting_on = [t \in Threads |-> Null]
    /\ resources = [t \in Threads |-> {}]
    /\ pc = [t \in Threads |-> "idle"]
    /\ call = [t \in Threads |-> NoCall]

Next ==
    \E t \in Threads :
        \/ \E l \in Locks : \/ \E mode \in Modes, timed \in Timed : Lock(t, l, mode, timed)
                            \/ tryGrab(t, l) \/ tryReadLock(t, l)
                            \/ release(t, l) \/ readUnlock(t, l)
                            \/ Destructor(t, l) \/ Cleanup(t, l)
                            \/ \E c \in Conds : ExternWait(t, l, c)
        \/ Loop(t) \/ Check(t) \/ TimeOut(t) \/ SpuriousWakeup(t)
        \/ Resume(t) \/ ResumeTimedOut(t)
        \/ CondWakeup(t) \/ CondResume(t)
        \/ Exit(t) \/ Restart(t)

Spec == Init /\ [][Next]_vars

---------------------------------------------------------------------------
(* The state of the locks and of the threads that use them. *)
TypeOK ==
    /\ tid \in [Locks -> Threads \cup {Lock_Unlocked, Lock_Deleted}]
    /\ num_readers \in [Locks -> Nat]
    /\ tmap \in [Locks -> [Threads -> 0 .. MaxReads]]
    /\ vmap \in [Locks -> SUBSET Threads]
    /\ waiting \in [Locks -> Nat] /\ readRequests \in [Locks -> Nat]
    /\ cmap \in [Locks -> [Conds -> Nat]]
    /\ held \in [Threads -> [Locks -> Nat]]
    /\ waiting_on \in [Threads -> Locks \cup {Null}]
    /\ resources \in [Threads -> SUBSET Locks]
    /\ pc \in [Threads -> PCs]
    /\ call \in [Threads -> [lock : Locks \cup {Null}, mode : Modes, reads : 0 .. MaxReads,
                             timed : BOOLEAN, cond : Conds \cup {Null}, left : SUBSET Threads]]

(* A writer is alone, whatever the order of unlocks, wakeups, Condition     *)
(* waits and thread ends that led to its lock; and a reader sleeps only     *)
(* while a writer holds the lock: every way to give the write lock up, a    *)
(* delete included, wakes all readers.                                      *)
WriterExcludes ==
    \A l \in Locks :
        /\ tid[l] \in Threads => num_readers[l] = 0 /\ vmap[l] = {}
        /\ Blocked(pc, l, "read") # {} => tid[l] \in Threads

Holds(t, l) == tid[l] = t \/ t \in vmap[l]

(* The read locks of l, one by one: a thread has its first, its second, ... *)
ReadLocks(l) == {d \in Threads \X (1 .. MaxReads) : d[2] <= tmap[l][d[1]]}

(* num_readers is the number of read locks of all threads, the two maps     *)
(* name the same threads and the VLock of each lists its locks once: the    *)
(* asserts of cleanup_read_lock_intern() and cleanupImpl() hold.            *)
ReadersExact ==
    \A l \in Locks :
        /\ num_readers[l] = Cardinality(ReadLocks(l))
        /\ vmap[l] = {t \in Threads : tmap[l][t] > 0}
        /\ \A t \in Threads : held[t][l] = IF Holds(t, l) THEN 1 ELSE 0

(* A lock held in either mode is a resource of its holder, and a resource   *)
(* that is not held is a deleted lock: cleanupImpl(), which asks only       *)
(* whether there are readers, never takes another thread's lock.            *)
ResourcesExact ==
    \A l \in Locks, t \in Threads :
        /\ Holds(t, l) => l \in resources[t]
        /\ l \in resources[t] => Holds(t, l) \/ tid[l] = Lock_Deleted

(* The counters that decide whom to signal, and the published waits, agree  *)
(* with where the threads are.                                              *)
WaitingExact ==
    /\ \A l \in Locks, m \in Modes :
          (IF m = "write" THEN waiting[l] ELSE readRequests[l]) =
              Cardinality({t \in Threads : /\ pc[t] \in WaitStates
                                           /\ call[t].lock = l /\ call[t].mode = m})
    /\ \A l \in Locks, c \in Conds :
          cmap[l][c] = Cardinality({t \in Threads : /\ pc[t] \in CondStates
                                                    /\ call[t].lock = l /\ call[t].cond = c})
    /\ \A t \in Threads :
          waiting_on[t] = IF pc[t] \in WaitStates THEN call[t].lock ELSE Null

(* What the lock knows of its holders and of the threads that wait for it   *)
(* is true through recursive read locks, Condition waits, timeouts, deletion *)
(* and the end of threads.                                                  *)
BookkeepingExact == TypeOK /\ ReadersExact /\ ResourcesExact /\ WaitingExact

Stranded(l) ==
    /\ tid[l] = Lock_Unlocked /\ num_readers[l] = 0 /\ Blocked(pc, l, "write") # {}
    /\ ~\E t \in Threads : pc[t] \in {"woken", "loop"} /\ call[t].lock = l

(* writeUnlock() "Releases the write lock, if any readers are waiting,      *)
(* wakes up all readers, otherwise if any writers are waiting, then wakes   *)
(* one up" (lib/QC_RWLock.qpp).  The wakeup of a writer is lost only to a   *)
(* thread whose own wait for the lock has timed out and that does not know  *)
(* yet: no other interleaving of unlocks, newcomers, Condition waits and    *)
(* exits leaves writers asleep at a free lock.                              *)
WakeupLostToTimeout ==
    [][\A l \in Locks :
          ~Stranded(l) /\ Stranded(l)' => \E t \in Threads : pc[t] = "timedout" /\ call[t].lock = l]_vars

(* Two threads never sleep each for a lock that the other holds in any      *)
(* mode, and none sleeps for a lock it holds itself (a reader that wants    *)
(* the write lock), although the holders are examined one by one and new    *)
(* readers come while a writer sleeps.                                      *)
NoPairDeadlock ==
    \A t, u \in Threads :
        ~(/\ pc[t] = "blocked" /\ pc[u] = "blocked"
          /\ Holds(u, call[t].lock) /\ Holds(t, call[u].lock))

(* A thread that comes out of a wait with the read lock has it exactly as   *)
(* often as the call asks for: once, or after Condition::wait() as often as *)
(* before.                                                                  *)
ReadsRestored ==
    [][\A t \in Threads :
          LET c == call[t]
          IN  pc[t] \in {"loop", "condwoken"} /\ pc'[t] = "idle" /\ c.mode = "read"
              /\ t \in vmap'[c.lock]
                 => tmap'[c.lock][t] = c.reads]_vars

===========================================================================
