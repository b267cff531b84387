----------------------------- MODULE SmartMutex -----------------------------
(***************************************************************************)
(* The locks of the language with deadlock detection: class Mutex           *)
(* (SmartMutex), class Gate and synchronized code (VRMutex), their base     *)
(* AbstractSmartLock, the per-thread VLock and the waits of Conditions      *)
(* (lib/AbstractSmartLock.cpp, lib/SmartMutex.cpp, lib/VRMutex.cpp,         *)
(* lib/VLock.cpp).                                                          *)
(*                                                                          *)
(* Each lock has its own asl_lock.  A thread holds it across several steps  *)
(* only while it decides whether to wait (pc loop and check), because there *)
(* it touches the waiting_on pointers, which threads that hold other        *)
(* asl_locks read and write at the same time.  Everything else that a       *)
(* thread does under an asl_lock is one step.                               *)
(***************************************************************************)
EXTENDS Integers, FiniteSets

CONSTANTS
    Threads,
    Mutexes,    \* objects of class Mutex
    Gates,      \* objects of class Gate, and the gates of synchronized code
    Synced,     \* the latter: those are no thread resources
    Conds,      \* objects of class Condition
    Timed,      \* whether a grab has a timeout: a subset of BOOLEAN
    Deletable,  \* the locks that the program deletes while threads may use them
    MaxCount    \* bound of the model on the recursion of a Gate

Locks == Mutexes \cup Gates

Lock_Unlocked == -1
Lock_Deleted  == -2
Null          == 0

ASSUME SortsAssumption ==
    /\ Mutexes \cap Gates = {}
    /\ Threads \cap {Lock_Unlocked, Lock_Deleted, Null} = {}
    /\ Null \notin Locks
    /\ IsFiniteSet(Threads)
    /\ Synced \subseteq Gates
    /\ Timed \subseteq BOOLEAN /\ Deletable \subseteq Locks \ Synced
    /\ MaxCount \in Nat \ {0}

VARIABLES
    tid,         \* per lock: the thread that holds it, or Lock_Unlocked, Lock_Deleted
    vl,          \* per lock: the VLock of the holder, named by its thread
    waiting,     \* per lock
    count,       \* per lock: how often its holder entered it (a Mutex: once)
    cmap,        \* per Mutex: waiting threads by condition variable
    held,        \* per thread: its VLock, as the number of entries for each lock
    waiting_on,  \* per thread: VLock::waiting_on
    resources,   \* per thread: the locks in its thread resource list
    pc, call

vars == <<tid, vl, waiting, count, cmap, held, waiting_on, resources, pc, call>>

---------------------------------------------------------------------------
(* loop and check: with the asl_lock of the lock, at the top of the wait    *)
(* loop and inside of waitOn(); blocked, woken, timedout: in and just out   *)
(* of asl_cond; cond and condwoken: the same for a Condition; exiting:      *)
(* purging the thread's resources.                                          *)
PCs == {"idle", "loop", "check", "blocked", "woken", "timedout",
        "cond", "condwoken", "exiting"}

WaitStates == {"check", "blocked", "woken", "timedout"}

NoLock == [lock |-> Null, timed |-> FALSE, cond |-> Null]
Calls  == [lock : Locks, timed : BOOLEAN, cond : Conds \cup {Null}]

(* Nobody has the asl_lock of l. *)
Available(l) == \A u \in Threads : ~(pc[u] \in {"loop", "check"} /\ call[u].lock = l)

(* QoreCondition::signal() and broadcast() on the asl_cond of l. *)
Blocked(p, l) == {u \in Threads : p[u] = "blocked" /\ call[u].lock = l}

Signal(p, l) ==
    IF Blocked(p, l) = {} THEN {p} ELSE {[p EXCEPT ![u] = "woken"] : u \in Blocked(p, l)}

Broadcast(p, l) == [u \in Threads |-> IF u \in Blocked(p, l) THEN "woken" ELSE p[u]]

(* signalImpl() and signalAllImpl(). *)
SignalImpl(p, l)    == IF waiting[l] > 0 THEN Signal(p, l) ELSE {p}
SignalAllImpl(p, l) == IF waiting[l] > 0 THEN Broadcast(p, l) ELSE p

(* Condition objects. *)
InCond(p, c) == {u \in Threads : p[u] = "cond" /\ call[u].cond = c}

BroadcastConds(p, C) ==
    [u \in Threads |-> IF \E c \in C : u \in InCond(p, c) THEN "condwoken" ELSE p[u]]

---------------------------------------------------------------------------
(* Taking and giving up the lock. *)

(* Faulty variant: the lock is not registered as a thread resource. *)
GrabInternUnregistered(t, l) ==
    /\ held' = [held EXCEPT ![t][l] = @ + 1]
    /\ tid' = [tid EXCEPT ![l] = t]
    /\ vl' = [vl EXCEPT ![l] = t]
    /\ count' = [count EXCEPT ![l] = @ + 1]
    /\ UNCHANGED resources

(* grab_intern(), or mark_and_push() alone for synchronized code; a Gate    *)
(* has counted the entry before.                                            *)
GrabIntern(t, l) ==
    /\ held' = [held EXCEPT ![t][l] = @ + 1]
    /\ tid' = [tid EXCEPT ![l] = t]
    /\ vl' = [vl EXCEPT ![l] = t]
    /\ count' = [count EXCEPT ![l] = @ + 1]
    /\ resources' = IF l \in Synced THEN resources ELSE [resources EXCEPT ![t] = @ \cup {l}]

(* Faulty variant: waiting threads are not told. *)
ReleaseInternSilent(t, l, p) ==
    /\ resources' = [resources EXCEPT ![t] = @ \ {l}]
    /\ held' = [held EXCEPT ![vl[l]][l] = @ - 1]
    /\ tid' = [tid EXCEPT ![l] = Lock_Unlocked]
    /\ vl' = [vl EXCEPT ![l] = Null]
    /\ count' = [count EXCEPT ![l] = 0]
    /\ pc' = p

(* release_intern(), which also serves cleanupImpl(): after p, the thread's *)
(* own move, one waiting thread is woken.                                   *)
ReleaseIntern(t, l, p) ==
    /\ resources' = [resources EXCEPT ![t] = @ \ {l}]
    /\ held' = [held EXCEPT ![vl[l]][l] = @ - 1]
    /\ tid' = [tid EXCEPT ![l] = Lock_Unlocked]
    /\ vl' = [vl EXCEPT ![l] = Null]
    /\ count' = [count EXCEPT ![l] = 0]
    /\ pc' \in SignalImpl(p, l)

Goto(t, s) == pc' = [pc EXCEPT ![t] = s]

(* One pass of grabImpl() by a thread that has the asl_lock, until the lock *)
(* is taken, the call fails or the thread is inside of waitOn(): there it   *)
(* has stored waiting_on but not yet looked at the holder's.                *)
Attempt(t, l) ==
    \/ /\ tid[l] = t
       /\ count' = IF l \in Gates THEN [count EXCEPT ![l] = @ + 1] ELSE count
       /\ Goto(t, "idle")
       /\ UNCHANGED <<tid, vl, waiting, held, waiting_on, resources>>
    \/ /\ tid[l] \in Threads \ {t}
       /\ waiting' = [waiting EXCEPT ![l] = @ + 1]
       /\ waiting_on' = [waiting_on EXCEPT ![t] = l]
       /\ Goto(t, "check")
       /\ UNCHANGED <<tid, vl, count, held, resources>>
    \/ /\ tid[l] = Lock_Deleted
       /\ Goto(t, "idle")
       /\ UNCHANGED <<tid, vl, waiting, count, held, waiting_on, resources>>
    \/ /\ tid[l] = Lock_Unlocked
       /\ GrabIntern(t, l)
       /\ Goto(t, "idle")
       /\ UNCHANGED <<waiting, waiting_on>>

(* grab(): Mutex::lock() and Gate::enter(); VRMutex::enter() for            *)
(* synchronized code.                                                       *)
Grab(t, l, timed) ==
    /\ pc[t] = "idle"
    /\ Available(l)
    /\ l \in Synced => ~timed
    /\ tid[l] = t /\ l \in Gates => count[l] < MaxCount
    /\ call' = [call EXCEPT ![t] = [lock |-> l, timed |-> timed, cond |-> Null]]
    /\ Attempt(t, l)
    /\ UNCHANGED cmap

(* Back at the top of the loop after a wait. *)
Loop(t) ==
    /\ pc[t] = "loop"
    /\ Attempt(t, call[t].lock)
    /\ UNCHANGED <<cmap, call>>

(* Faulty variant: the thread goes to sleep without the test. *)
CheckNothing(t) ==
    /\ pc[t] = "check"
    /\ Goto(t, "blocked")
    /\ UNCHANGED <<tid, vl, waiting, count, cmap, held, waiting_on, resources, call>>

(* VLock::waitOn(): the deadlock test, then the wait on asl_cond, which     *)
(* gives up the asl_lock.                                                   *)
Check(t) ==
    LET l       == call[t].lock
        vl_wait == waiting_on[vl[l]]
        found   == vl_wait # Null /\ held[t][vl_wait] > 0
    IN  /\ pc[t] = "check"
        /\ \/ /\ found
              /\ waiting' = [waiting EXCEPT ![l] = @ - 1]
              /\ waiting_on' = [waiting_on EXCEPT ![t] = Null]
              /\ Goto(t, "idle")
           \/ /\ ~found
              /\ Goto(t, "blocked")
              /\ UNCHANGED <<waiting, waiting_on>>
        /\ UNCHANGED <<tid, vl, count, cmap, held, resources, call>>

(* A thread leaves asl_cond after its timeout, or for no reason. *)
TimeOut(t) ==
    /\ pc[t] = "blocked"
    /\ call[t].timed
    /\ Goto(t, "timedout")
    /\ UNCHANGED <<tid, vl, waiting, count, cmap, held, waiting_on, resources, call>>

SpuriousWakeup(t) ==
    /\ pc[t] = "blocked"
    /\ Goto(t, "woken")
    /\ UNCHANGED <<tid, vl, waiting, count, cmap, held, waiting_on, resources, call>>

(* The end of waitOn(), with the asl_lock. *)
EndWait(t, s) ==
    /\ Available(call[t].lock)
    /\ waiting' = [waiting EXCEPT ![call[t].lock] = @ - 1]
    /\ waiting_on' = [waiting_on EXCEPT ![t] = Null]
    /\ Goto(t, s)
    /\ UNCHANGED <<tid, vl, count, cmap, held, resources, call>>

Resume(t)         == pc[t] = "woken" /\ EndWait(t, "loop")
ResumeTimedOut(t) == pc[t] = "timedout" /\ EndWait(t, "idle")

(* tryGrab(): Mutex::trylock() and Gate::tryEnter(). *)
TryGrab(t, l) ==
    /\ pc[t] = "idle"
    /\ l \notin Synced
    /\ Available(l)
    /\ \/ /\ tid[l] = Lock_Unlocked
          /\ GrabIntern(t, l)
       \/ /\ tid[l] = t /\ l \in Gates /\ count[l] < MaxCount
          /\ count' = [count EXCEPT ![l] = @ + 1]
          /\ UNCHANGED <<tid, vl, held, resources>>
    /\ UNCHANGED <<waiting, cmap, waiting_on, pc, call>>

(* release(): Mutex::unlock() and Gate::exit(); VRMutex::exit().  Calls by a thread that     *)
(* does not hold the lock only raise an exception.                          *)
Release(t, l) ==
    /\ pc[t] = "idle"
    /\ Available(l)
    /\ tid[l] = t
    /\ \/ /\ count[l] = 1
          /\ ReleaseIntern(t, l, pc)
       \/ /\ count[l] > 1
          /\ count' = [count EXCEPT ![l] = @ - 1]
          /\ UNCHANGED <<tid, vl, held, resources, pc>>
    /\ UNCHANGED <<waiting, cmap, waiting_on, call>>

(* Condition::wait(): externWaitImpl() up to the wait. *)
ExternWait(t, l, c) ==
    /\ pc[t] = "idle"
    /\ l \in Mutexes
    /\ Available(l)
    /\ tid[l] = t
    /\ cmap' = [cmap EXCEPT ![l][c] = @ + 1]
    /\ ReleaseIntern(t, l, [pc EXCEPT ![t] = "cond"])
    /\ call' = [call EXCEPT ![t] = [lock |-> l, timed |-> FALSE, cond |-> c]]
    /\ UNCHANGED <<waiting, waiting_on>>

(* Condition::signal() by another thread, a timeout, or a spurious wakeup. *)
CondWakeup(t) ==
    /\ pc[t] = "cond"
    /\ Goto(t, "condwoken")
    /\ UNCHANGED <<tid, vl, waiting, count, cmap, held, waiting_on, resources, call>>

(* The rest of externWaitImpl(): reacquire the lock without a timeout. *)
CondResume(t) ==
    LET l == call[t].lock
    IN  /\ pc[t] = "condwoken"
        /\ Available(l)
        /\ cmap' = [cmap EXCEPT ![l][call[t].cond] = @ - 1]
        /\ call' = [call EXCEPT ![t].cond = Null]
        /\ Attempt(t, l)

(* Faulty variant: the holder keeps the lock in its list. *)
DestructorNoPop(t, l) ==
    /\ pc[t] = "idle"
    /\ l \in Deletable
    /\ Available(l)
    /\ tid[l] # Lock_Deleted
    /\ LET p == BroadcastConds(pc, {c \in Conds : cmap[l][c] > 0})
       IN  pc' = IF tid[l] \in Threads THEN SignalAllImpl(p, l) ELSE p
    /\ resources' = IF tid[l] = t THEN [resources EXCEPT ![t] = @ \ {l}] ELSE resources
    /\ tid' = [tid EXCEPT ![l] = Lock_Deleted]
    /\ UNCHANGED <<vl, held, waiting, count, cmap, waiting_on, call>>

(* destructorImpl() and destructor(): only a lock that is held is announced *)
(* to the threads that wait for it.                                         *)
Destructor(t, l) ==
    /\ pc[t] = "idle"
    /\ l \in Deletable
    /\ Available(l)
    /\ tid[l] # Lock_Deleted
    /\ LET p == BroadcastConds(pc, {c \in Conds : cmap[l][c] > 0})
       IN  pc' = IF tid[l] \in Threads THEN SignalAllImpl(p, l) ELSE p
    /\ held' = IF tid[l] \in Threads THEN [held EXCEPT ![vl[l]][l] = @ - 1] ELSE held
    /\ resources' = IF tid[l] = t THEN [resources EXCEPT ![t] = @ \ {l}] ELSE resources
    /\ tid' = [tid EXCEPT ![l] = Lock_Deleted]
    /\ UNCHANGED <<vl, waiting, count, cmap, waiting_on, call>>

(* The thread ends: its resources are cleaned up one by one, and another    *)
(* thread may start with its TID.  It has left all synchronized code.       *)
Exit(t) ==
    /\ pc[t] = "idle"
    /\ \A l \in Synced : tid[l] # t
    /\ Goto(t, "exiting")
    /\ UNCHANGED <<tid, vl, waiting, count, cmap, held, waiting_on, resources, call>>

(* cleanup() of one resource. *)
Cleanup(t, l) ==
    /\ pc[t] = "exiting"
    /\ l \in resources[t]
    /\ Available(l)
    /\ \/ /\ tid[l] = t
          /\ ReleaseIntern(t, l, pc)
       \/ /\ tid[l] # t
          /\ resources' = [resources EXCEPT ![t] = @ \ {l}]
          /\ UNCHANGED <<tid, vl, count, held, pc>>
    /\ UNCHANGED <<waiting, cmap, waiting_on, call>>

Restart(t) ==
    /\ pc[t] = "exiting"
    /\ resources[t] = {}
    /\ Goto(t, "idle")
    /\ UNCHANGED <<tid, vl, waiting, count, cmap, held, waiting_on, resources, call>>
---------------------------------------------------------------------------

Init ==
    /\ tid = [l \in Locks |-> Lock_Unlocked]
    /\ vl = [l \in Locks |-> Null]
    /\ waiting = [l \in Locks |-> 0]
    /\ count = [l \in Locks |-> 0]
    /\ cmap = [l \in Mutexes |-> [c \in Conds |-> 0]]
    /\ held = [t \in Threads |-> [l \in Locks |-> 0]]
    /\ waiting_on = [t \in Threads |-> Null]
    /\ resources = [t \in Threads |-> {}]
    /\ pc = [t \in Threads |-> "idle"]
    /\ call = [t \in Threads |-> NoLock]

Next ==
    \E t \in Threads :
        \/ \E l \in Locks : \/ \E timed \in Timed : Grab(t, l, timed)
                            \/ TryGrab(t, l) \/ Release(t, l)
                            \/ Destructor(t, l) \/ Cleanup(t, l)
                            \/ \E c \in Conds : ExternWait(t, l, c)
        \/ Loop(t) \/ Check(t) \/ TimeOut(t) \/ SpuriousWakeup(t)
        \/ Resume(t) \/ ResumeTimedOut(t)
        \/ CondWakeup(t) \/ CondResume(t)
        \/ Exit(t) \/ Restart(t)

Spec == Init /\ [][Next]_vars

---------------------------------------------------------------------------

(* The VLock of a thread holds exactly the locks it owns, once each, so     *)
(* that VLock::pop() always finds its entry and the deadlock test sees      *)
(* every lock; vl is the holder's VLock while there is one (grabImpl()      *)
(* dereferences it) and a free Gate has no entries left over.               *)
HeldExact ==
    \A l \in Locks :
        /\ \A t \in Threads : held[t][l] = IF tid[l] = t THEN 1 ELSE 0
        /\ tid[l] \in Threads => vl[l] = tid[l] /\ count[l] > 0
        /\ tid[l] = Lock_Unlocked => vl[l] = Null /\ count[l] = 0

(* A lock object that is held is a resource of its holder, so that the end of the  *)
(* thread releases it; no other thread has it as a resource, unless it was  *)
(* deleted under it.                                                        *)
ResourcesCover ==
    \A l \in Locks, t \in Threads :
        /\ tid[l] = t /\ l \notin Synced => l \in resources[t]
        /\ l \in resources[t] => tid[l] \in {t, Lock_Deleted}

(* A free lock for which threads sleep has a thread on its way to take it,  *)
(* whatever timeouts and newcomers came between unlock() and now.           *)
NoLostWakeup ==
    \A l \in Locks :
        tid[l] = Lock_Unlocked /\ Blocked(pc, l) # {}
            => \E t \in Threads : pc[t] \in {"woken", "loop"} /\ call[t].lock = l

(* Two threads never sleep each for a lock that the other one holds: the    *)
(* second of them finds the first one's waiting_on, even when both are      *)
(* inside of waitOn() at the same time.                                     *)
NoPairDeadlock ==
    \A t, u \in Threads :
        ~(/\ pc[t] = "blocked" /\ pc[u] = "blocked"
          /\ tid[call[t].lock] = u /\ tid[call[u].lock] = t)

===========================================================================
