-------------------------- MODULE SmartMutexProofs --------------------------
(***************************************************************************)
(* Proofs about the locks with deadlock detection, for any sets of threads, *)
(* Mutexes, Gates and Conditions.                                           *)
(***************************************************************************)
EXTENDS SmartMutex, FiniteSetTheorems, TLAPS

Types ==
    /\ tid \in [Locks -> Threads \cup {Lock_Unlocked, Lock_Deleted}]
    /\ vl \in [Locks -> Threads \cup {Null}]
    /\ count \in [Locks -> Int]
    /\ held \in [Threads -> [Locks -> Int]]
    /\ resources \in [Threads -> SUBSET Locks]

(* Who owns what: needs nothing about the threads that wait. *)
Own == Types /\ HeldExact /\ ResourcesCover

(* Where the threads are. *)
Places ==
    /\ pc \in [Threads -> PCs]
    /\ call \in [Threads -> Calls \cup {NoLock}]
    /\ waiting_on \in [Threads -> Locks \cup {Null}]
    /\ \A t \in Threads : pc[t] \notin {"idle", "exiting"} => call[t].lock \in Locks

(* A thread publishes the lock it waits for exactly while it is in waitOn(). *)
Published ==
    \A t \in Threads : waiting_on[t] = IF pc[t] \in WaitStates THEN call[t].lock ELSE Null

(* A thread that makes the deadlock test waits for a lock that is held by   *)
(* another thread, and stays so because it has the asl_lock.                *)
HeldInCheck ==
    \A t \in Threads : pc[t] = "check" => tid[call[t].lock] \in Threads \ {t}

(* The asl_lock has one owner. *)
Exclusive ==
    \A t, u \in Threads :
        pc[t] \in {"loop", "check"} /\ pc[u] \in {"loop", "check"} /\ call[t].lock = call[u].lock
            => t = u

(* The states of a thread that has passed the deadlock test. *)
Past == {"blocked", "woken", "timedout"}

(* No two threads that passed the test wait for each other, awake or not. *)
NoPair ==
    \A t, u \in Threads :
        ~(/\ pc[t] \in Past /\ pc[u] \in Past
          /\ tid[call[t].lock] = u /\ tid[call[u].lock] = t)

WaitInv == Places /\ Published /\ HeldInCheck /\ Exclusive /\ NoPair

LockInv == Own /\ WaitInv

---------------------------------------------------------------------------
(* Ownership *)

(* grab_intern(): a free lock gets an owner. *)
LEMMA GrabOwn ==
    ASSUME Own, NEW t \in Threads, NEW l \in Locks, tid[l] = Lock_Unlocked, GrabIntern(t, l)
    PROVE  Own'
<1>1. Types'
    BY DEF Own, Types, GrabIntern
<1>2. HeldExact'
    BY SortsAssumption DEF Own, Types, HeldExact, GrabIntern, Lock_Unlocked, Lock_Deleted, Null
<1>3. ResourcesCover'
    BY SortsAssumption DEF Own, Types, ResourcesCover, GrabIntern, Lock_Unlocked, Lock_Deleted
<1> QED
    BY <1>1, <1>2, <1>3, Zenon DEF Own

(* release_intern(): the owner gives the lock up. *)
LEMMA ReleaseOwn ==
    ASSUME Own, NEW t \in Threads, NEW l \in Locks, tid[l] = t, NEW p, ReleaseIntern(t, l, p)
    PROVE  Own'
<1>0. vl[l] = t
    BY Zenon DEF Own, HeldExact
<1>1. Types'
    BY <1>0 DEF Own, Types, ReleaseIntern
<1>2. HeldExact'
    BY <1>0, SortsAssumption DEF Own, Types, HeldExact, ReleaseIntern, Lock_Unlocked, Lock_Deleted, Null
<1>3. ResourcesCover'
    BY SortsAssumption, Zenon DEF Own, Types, ResourcesCover, ReleaseIntern, Lock_Unlocked, Lock_Deleted
<1> QED
    BY <1>1, <1>2, <1>3, Zenon DEF Own

(* A Gate is entered again, or left with entries remaining. *)
LEMMA CountOwn ==
    ASSUME Own, NEW l \in Locks, NEW n \in Int, count' = [count EXCEPT ![l] = n],
           n > 0, tid[l] \in Threads, UNCHANGED <<tid, vl, held, resources>>
    PROVE  Own'
BY SortsAssumption, Zenon DEF Own, Types, HeldExact, ResourcesCover, Lock_Unlocked, Lock_Deleted, Null

(* Nothing changes hands. *)
LEMMA SameOwn ==
    ASSUME Own, UNCHANGED <<tid, vl, count, held, resources>>
    PROVE  Own'
BY Zenon DEF Own, Types, HeldExact, ResourcesCover

(* The lock is deleted, held or not, by its holder or by another thread. *)
LEMMA DestructorOwn ==
    ASSUME Own, NEW t \in Threads, NEW l \in Locks, Destructor(t, l)
    PROVE  Own'
<1>1. CASE tid[l] \in Threads
    <2>0. vl[l] = tid[l]
        BY <1>1, Zenon DEF Own, HeldExact
    <2>1. Types'
        BY <1>1, <2>0 DEF Own, Types, Destructor
    <2>2. HeldExact'
        BY <1>1, <2>0, SortsAssumption
        DEF Own, Types, HeldExact, Destructor, Lock_Unlocked, Lock_Deleted, Null
    <2>3. ResourcesCover'
        BY <1>1, SortsAssumption, Zenon
        DEF Own, Types, ResourcesCover, Destructor, Lock_Unlocked, Lock_Deleted
    <2> QED
        BY <2>1, <2>2, <2>3, Zenon DEF Own
<1>2. CASE tid[l] \notin Threads
    <2>0. tid[l] # t /\ held' = held /\ resources' = resources
        BY <1>2, Zenon DEF Destructor
    <2>1. Types'
        BY <2>0, Zenon DEF Own, Types, Destructor
    <2>2. HeldExact'
        BY <1>2, <2>0, SortsAssumption
        DEF Own, Types, HeldExact, Destructor, Lock_Unlocked, Lock_Deleted, Null
    <2>3. ResourcesCover'
        BY <1>2, <2>0, SortsAssumption, Zenon
        DEF Own, Types, ResourcesCover, Destructor, Lock_Unlocked, Lock_Deleted
    <2> QED
        BY <2>1, <2>2, <2>3, Zenon DEF Own
<1> QED
    BY <1>1, <1>2, Zenon

(* The end of a thread releases what it still owns and no more. *)
LEMMA CleanupOwn ==
    ASSUME Own, NEW t \in Threads, NEW l \in Locks, Cleanup(t, l)
    PROVE  Own'
<1>1. CASE tid[l] = t /\ ReleaseIntern(t, l, pc)
    BY <1>1, ReleaseOwn, Zenon
<1>2. CASE /\ tid[l] # t
           /\ resources' = [resources EXCEPT ![t] = @ \ {l}]
           /\ UNCHANGED <<tid, vl, count, held, pc>>
    BY <1>2, Zenon DEF Own, Types, HeldExact, ResourcesCover
<1> QED
    BY <1>1, <1>2, Zenon DEF Cleanup

(* A pass of grabImpl(). *)
LEMMA AttemptOwn ==
    ASSUME Own, NEW t \in Threads, NEW l \in Locks, Attempt(t, l)
    PROVE  Own'
<1>1. CASE tid[l] = t /\ count' = [count EXCEPT ![l] = @ + 1] /\ UNCHANGED <<tid, vl, held, resources>>
    <2>1. count[l] + 1 \in Int /\ count[l] + 1 > 0 /\ tid[l] \in Threads
        BY <1>1 DEF Own, Types, HeldExact
    <2>2. count' = [count EXCEPT ![l] = count[l] + 1]
        BY <1>1, Zenon DEF Own, Types
    <2> QED
        BY <1>1, <2>1, <2>2, CountOwn, Zenon
<1>2. CASE UNCHANGED <<tid, vl, count, held, resources>>
    BY <1>2, SameOwn, Zenon
<1>3. CASE tid[l] = Lock_Unlocked /\ GrabIntern(t, l)
    BY <1>3, GrabOwn, Zenon
<1> QED
    BY <1>1, <1>2, <1>3, Zenon DEF Attempt

---------------------------------------------------------------------------
(* Waiting.  A step changes the state of one thread t, may wake others and  *)
(* may change the owner of one lock l whose asl_lock t has or can take.     *)

Outside == {"idle", "cond", "condwoken", "exiting"}

Woke(p, q, u) ==
    \/ q[u] = p[u]
    \/ p[u] = "blocked" /\ q[u] = "woken"
    \/ p[u] = "cond" /\ q[u] = "condwoken"

(* No thread but t has the asl_lock of l. *)
Mine(t, l) ==
    \A u \in Threads \ {t} : ~(pc[u] \in {"loop", "check"} /\ call[u].lock = l)

(* The other threads and the other locks stay as they are. *)
Frame(t, l) ==
    /\ Mine(t, l)
    /\ \A u \in Threads \ {t} :
          Woke(pc, pc', u) /\ call'[u] = call[u] /\ waiting_on'[u] = waiting_on[u]
    /\ \A k \in Locks \ {l} : tid'[k] = tid[k]

(* The step ends outside of the wait loop. *)
LEMMA StepOutside ==
    ASSUME WaitInv, Places', NEW t \in Threads, NEW l \in Locks, Frame(t, l),
           pc'[t] \in Outside, waiting_on'[t] = Null,
           tid'[l] \in {tid[l], t, Lock_Unlocked, Lock_Deleted}
    PROVE  WaitInv'
<1>1. Published'
    BY Zenon DEF WaitInv, Published, Frame, Woke, WaitStates, Outside
<1>2. HeldInCheck'
    BY DEF WaitInv, Places, HeldInCheck, Frame, Mine, Woke, Outside
<1>3. Exclusive'
    BY DEF WaitInv, Exclusive, Frame, Woke, Outside
<1>4. NoPair'
    <2> SUFFICES ASSUME NEW u \in Threads, NEW v \in Threads,
                        pc'[u] \in Past, pc'[v] \in Past,
                        tid'[call'[u].lock] = v, tid'[call'[v].lock] = u
                 PROVE  FALSE
        BY Zenon DEF NoPair
    <2>1. u # t /\ v # t
        BY Zenon DEF Past, Outside
    <2>2. pc[u] \in Past /\ pc[v] \in Past /\ call'[u] = call[u] /\ call'[v] = call[v]
        BY <2>1, Zenon DEF Frame, Woke, Past
    <2>3. call[u].lock \in Locks /\ call[v].lock \in Locks
        BY <2>2, Zenon DEF WaitInv, Places, Past
    <2>4. tid[call[u].lock] = v /\ tid[call[v].lock] = u
        BY <2>1, <2>2, <2>3, SortsAssumption DEF Frame, Lock_Unlocked, Lock_Deleted
    <2> QED
        BY <2>2, <2>4, Zenon DEF WaitInv, NoPair
<1> QED
    BY <1>1, <1>2, <1>3, <1>4, Zenon DEF WaitInv

(* The step ends with the asl_lock: at the top of the loop, or inside of    *)
(* waitOn() with the lock held by another thread.                           *)
LEMMA StepInside ==
    ASSUME WaitInv, Places', NEW t \in Threads, NEW l \in Locks, Frame(t, l),
           tid' = tid, call'[t].lock = l,
           \/ pc'[t] = "loop" /\ waiting_on'[t] = Null
           \/ pc'[t] = "check" /\ waiting_on'[t] = l /\ tid[l] \in Threads \ {t}
    PROVE  WaitInv'
<1>1. Published'
    BY DEF WaitInv, Published, Frame, Woke, WaitStates
<1>2. HeldInCheck'
    BY Zenon DEF WaitInv, Places, HeldInCheck, Frame, Mine, Woke
<1>3. Exclusive'
    BY DEF WaitInv, Exclusive, Frame, Mine, Woke
<1>4. NoPair'
    <2> SUFFICES ASSUME NEW u \in Threads, NEW v \in Threads,
                        pc'[u] \in Past, pc'[v] \in Past,
                        tid[call'[u].lock] = v, tid[call'[v].lock] = u
                 PROVE  FALSE
        BY Zenon DEF NoPair
    <2>1. u # t /\ v # t
        BY Zenon DEF Past
    <2>2. pc[u] \in Past /\ pc[v] \in Past /\ call'[u] = call[u] /\ call'[v] = call[v]
        BY <2>1, Zenon DEF Frame, Woke, Past
    <2> QED
        BY <2>2, Zenon DEF WaitInv, NoPair
<1> QED
    BY <1>1, <1>2, <1>3, <1>4, Zenon DEF WaitInv

(* A thread leaves asl_cond by itself. *)
LEMMA StepAwake ==
    ASSUME WaitInv, NEW t \in Threads, pc[t] = "blocked", NEW s \in {"woken", "timedout"},
           pc' = [pc EXCEPT ![t] = s], UNCHANGED <<tid, call, waiting_on>>
    PROVE  WaitInv'
<1>1. Places'
    BY Zenon DEF WaitInv, Places, PCs
<1>2. Published' /\ HeldInCheck' /\ Exclusive'
    BY Zenon DEF WaitInv, Places, Published, HeldInCheck, Exclusive, WaitStates
<1>3. NoPair'
    BY Zenon DEF WaitInv, Places, NoPair, Past
<1> QED
    BY <1>1, <1>2, <1>3, Zenon DEF WaitInv

(* The deadlock test that finds nothing.  If the holder had passed its own  *)
(* test for a lock of t, t would have found that lock in its list.          *)
LEMMA StepBlocks ==
    ASSUME LockInv, NEW t \in Threads, NEW l, pc[t] = "check", l = call[t].lock,
           LET vl_wait == waiting_on[vl[l]]
           IN  ~(vl_wait # Null /\ held[t][vl_wait] > 0),
           pc' = [pc EXCEPT ![t] = "blocked"], UNCHANGED <<tid, call, waiting_on>>
    PROVE  WaitInv'
<1>1. Places'
    BY Zenon DEF LockInv, WaitInv, Places, PCs
<1>2. Published' /\ HeldInCheck' /\ Exclusive'
    BY Zenon DEF LockInv, WaitInv, Places, Published, HeldInCheck, Exclusive, WaitStates
<1>3. l \in Locks /\ tid[l] \in Threads \ {t} /\ vl[l] = tid[l]
    BY Zenon DEF LockInv, Own, HeldExact, WaitInv, Places, HeldInCheck
<1>4. ASSUME NEW u \in Threads, pc[u] \in Past, tid[l] = u
      PROVE  tid[call[u].lock] # t
    <2>1. waiting_on[u] = call[u].lock /\ call[u].lock \in Locks
        BY <1>4, Zenon DEF LockInv, WaitInv, Published, Places, WaitStates, Past
    <2>2. waiting_on[u] # Null
        BY <2>1, SortsAssumption, Zenon
    <2>3. ~(held[t][call[u].lock] > 0)
        BY <1>3, <1>4, <2>1, <2>2, Zenon
    <2> QED
        BY <2>1, <2>3 DEF LockInv, Own, HeldExact
<1>5. NoPair'
    <2> SUFFICES ASSUME NEW u \in Threads, NEW v \in Threads,
                        pc'[u] \in Past, pc'[v] \in Past,
                        tid[call[u].lock] = v, tid[call[v].lock] = u
                 PROVE  FALSE
        BY Zenon DEF NoPair
    <2>1. \A w \in Threads \ {t} : pc'[w] = pc[w]
        BY Zenon DEF LockInv, WaitInv, Places
    <2>2. CASE u = t
        BY <1>3, <1>4, <2>1, <2>2, Zenon
    <2>3. CASE v = t
        BY <1>3, <1>4, <2>1, <2>3, Zenon
    <2>4. CASE u # t /\ v # t
        BY <2>1, <2>4 DEF LockInv, WaitInv, NoPair
    <2> QED
        BY <2>2, <2>3, <2>4, Zenon
<1> QED
    BY <1>1, <1>2, <1>5, Zenon DEF WaitInv

(* What signalImpl(), signalAllImpl() and the destructor wake. *)
LEMMA Wakeups ==
    ASSUME NEW p \in [Threads -> PCs], NEW l, NEW q, NEW C,
           q \in SignalImpl(p, l) \/ q = SignalAllImpl(p, l) \/ q = BroadcastConds(p, C)
    PROVE  q \in [Threads -> PCs] /\ \A u \in Threads : Woke(p, q, u)
<1>1. CASE q \in SignalImpl(p, l)
    BY <1>1, Zenon DEF SignalImpl, Signal, Blocked, Woke, PCs
<1>2. CASE q = SignalAllImpl(p, l)
    BY <1>2, Zenon DEF SignalAllImpl, Broadcast, Blocked, Woke, PCs
<1>3. CASE q = BroadcastConds(p, C)
    BY <1>3, Zenon DEF BroadcastConds, InCond, Woke, PCs
<1> QED
    BY <1>1, <1>2, <1>3, Zenon

---------------------------------------------------------------------------
(* The actions. *)

(* A pass of grabImpl() by a thread that has the asl_lock of l. *)
LEMMA AttemptWait ==
    ASSUME WaitInv, NEW t \in Threads, NEW l \in Locks, Mine(t, l), Attempt(t, l),
           call' \in [Threads -> Calls \cup {NoLock}], call'[t].lock = l,
           \A u \in Threads \ {t} : call'[u] = call[u],
           waiting_on[t] = Null, Own
    PROVE  WaitInv'
<1>1. \A u \in Threads \ {t} : pc'[u] = pc[u] /\ waiting_on'[u] = waiting_on[u]
    BY Zenon DEF Attempt, Goto, WaitInv, Places
<1>2. /\ pc' \in [Threads -> PCs]
      /\ waiting_on' \in [Threads -> Locks \cup {Null}]
    BY Zenon DEF Attempt, Goto, WaitInv, Places, PCs
<1>3. Places'
    BY <1>1, <1>2, Zenon DEF WaitInv, Places
<1>4. \A k \in Locks \ {l} : tid'[k] = tid[k]
    BY Zenon DEF Attempt, GrabIntern, Own, Types
<1>5. Frame(t, l)
    BY <1>1, <1>4, Zenon DEF Frame, Woke
<1>6. CASE pc' = [pc EXCEPT ![t] = "idle"] /\ waiting_on' = waiting_on
           /\ tid'[l] \in {tid[l], t}
    <2>1. pc'[t] \in Outside /\ waiting_on'[t] = Null
        BY <1>6, Zenon DEF WaitInv, Places, Outside
    <2> QED
        BY <1>3, <1>5, <1>6, <2>1, StepOutside, Zenon
<1>7. CASE /\ tid[l] \in Threads \ {t} /\ tid' = tid
           /\ waiting_on' = [waiting_on EXCEPT ![t] = l]
           /\ pc' = [pc EXCEPT ![t] = "check"]
    <2>1. pc'[t] = "check" /\ waiting_on'[t] = l
        BY <1>7, Zenon DEF WaitInv, Places
    <2> QED
        BY <1>3, <1>5, <1>7, <2>1, StepInside, Zenon
<1> QED
    BY <1>6, <1>7, Zenon DEF Attempt, Goto, GrabIntern, Own, Types

(* A thread outside of the wait loop gives a lock up, deletes it or moves   *)
(* on, and whoever it signals wakes up.                                     *)
LEMMA OutsideWait ==
    ASSUME WaitInv, NEW t \in Threads, NEW l \in Locks, Mine(t, l), pc[t] \in Outside,
           NEW s \in Outside, NEW p, p = [pc EXCEPT ![t] = s],
           pc' \in [Threads -> PCs], \A u \in Threads : Woke(p, pc', u),
           call' \in [Threads -> Calls \cup {NoLock}],
           \A u \in Threads \ {t} : call'[u] = call[u],
           s \notin {"idle", "exiting"} => call'[t].lock \in Locks,
           waiting_on' = waiting_on,
           \A k \in Locks \ {l} : tid'[k] = tid[k],
           tid'[l] \in {tid[l], t, Lock_Unlocked, Lock_Deleted}
    PROVE  WaitInv'
<1>1. p[t] = s /\ \A u \in Threads \ {t} : p[u] = pc[u]
    BY Zenon DEF WaitInv, Places
<1>2. Frame(t, l)
    BY <1>1, Zenon DEF Frame, Woke
<1>3. pc'[t] \in Outside /\ (pc'[t] \notin {"idle", "exiting"} => s \notin {"idle", "exiting"})
    BY <1>1, Zenon DEF Woke, Outside
<1>4. Places'
    BY <1>1, <1>3, Zenon DEF WaitInv, Places, Woke
<1>5. waiting_on'[t] = Null
    BY Zenon DEF WaitInv, Published, Outside, WaitStates
<1> QED
    BY <1>2, <1>3, <1>4, <1>5, StepOutside, Zenon

(* A thread that holds no asl_lock can only take one that nobody has. *)
LEMMA AvailableMine ==
    ASSUME NEW t \in Threads, NEW l, Available(l)
    PROVE  Mine(t, l)
BY Zenon DEF Available, Mine

(* grab() *)
LEMMA GrabInv ==
    ASSUME LockInv, NEW t \in Threads, NEW l \in Locks, NEW timed \in Timed, Grab(t, l, timed)
    PROVE  LockInv'
<1>1. Own'
    BY AttemptOwn, Zenon DEF LockInv, Grab
<1>2. /\ call' \in [Threads -> Calls \cup {NoLock}]
      /\ call'[t].lock = l
      /\ \A u \in Threads \ {t} : call'[u] = call[u]
    BY SortsAssumption, Zenon DEF Grab, LockInv, WaitInv, Places, Calls
<1>3. waiting_on[t] = Null
    BY Zenon DEF Grab, LockInv, WaitInv, Published, WaitStates
<1>4. Mine(t, l) /\ Attempt(t, l)
    BY AvailableMine, Zenon DEF Grab
<1> QED
    BY <1>1, <1>2, <1>3, <1>4, AttemptWait, Zenon DEF LockInv

(* The top of the wait loop *)
LEMMA LoopInv ==
    ASSUME LockInv, NEW t \in Threads, Loop(t)
    PROVE  LockInv'
<1> DEFINE l == call[t].lock
<1>1. l \in Locks /\ Attempt(t, l)
    BY Zenon DEF Loop, LockInv, WaitInv, Places
<1>2. Own'
    BY <1>1, AttemptOwn, Zenon DEF LockInv
<1>3. call' = call /\ call \in [Threads -> Calls \cup {NoLock}]
    BY Zenon DEF Loop, LockInv, WaitInv, Places
<1>4. waiting_on[t] = Null
    BY Zenon DEF Loop, LockInv, WaitInv, Published, WaitStates
<1>5. Mine(t, l)
    BY Zenon DEF Loop, LockInv, WaitInv, Exclusive, Mine
<1> HIDE DEF l
<1>6. call'[t].lock = l
    BY <1>3, Zenon DEF l
<1> QED
    BY <1>1, <1>2, <1>3, <1>4, <1>5, <1>6, AttemptWait, Zenon DEF LockInv

(* waitOn(): the test fails, or the thread goes to sleep *)
LEMMA CheckInv ==
    ASSUME LockInv, NEW t \in Threads, Check(t)
    PROVE  LockInv'
<1> DEFINE l == call[t].lock
<1>1. Own'
    BY SameOwn, Zenon DEF LockInv, Check
<1>2. l \in Locks /\ pc[t] = "check" /\ UNCHANGED <<tid, call>>
    BY Zenon DEF Check, LockInv, WaitInv, Places
<1>3. CASE waiting_on' = [waiting_on EXCEPT ![t] = Null] /\ pc' = [pc EXCEPT ![t] = "idle"]
    <2>1. \A u \in Threads \ {t} : pc'[u] = pc[u] /\ waiting_on'[u] = waiting_on[u]
        BY <1>3, Zenon DEF LockInv, WaitInv, Places
    <2>2. pc'[t] = "idle" /\ waiting_on'[t] = Null
        BY <1>3, Zenon DEF LockInv, WaitInv, Places
    <2>3. Places'
        BY <1>2, <1>3, Zenon DEF LockInv, WaitInv, Places, PCs
    <2>4. Mine(t, l)
        BY <1>2, Zenon DEF LockInv, WaitInv, Exclusive, Mine
    <2>5. Frame(t, l)
        BY <1>2, <2>1, <2>4, Zenon DEF Frame, Woke
    <2>6. pc'[t] \in Outside
        BY <2>2, Zenon DEF Outside
    <2> HIDE DEF l
    <2>7. WaitInv'
        BY <1>2, <2>2, <2>3, <2>5, <2>6, StepOutside, Zenon DEF LockInv
    <2> QED
        BY <1>1, <2>7, Zenon DEF LockInv
<1>4. CASE /\ ~(waiting_on[vl[l]] # Null /\ held[t][waiting_on[vl[l]]] > 0)
           /\ pc' = [pc EXCEPT ![t] = "blocked"] /\ waiting_on' = waiting_on
    <2>1. WaitInv'
        BY <1>2, <1>4, StepBlocks, Zenon
    <2> QED
        BY <1>1, <2>1, Zenon DEF LockInv
<1> QED
    BY <1>3, <1>4, Zenon DEF Check, Goto

(* A thread leaves asl_cond. *)
LEMMA AwakeInv ==
    ASSUME LockInv, NEW t \in Threads, TimeOut(t) \/ SpuriousWakeup(t)
    PROVE  LockInv'
<1>1. Own'
    BY SameOwn, Zenon DEF LockInv, TimeOut, SpuriousWakeup
<1>2. WaitInv'
    BY StepAwake, Zenon DEF LockInv, TimeOut, SpuriousWakeup, Goto
<1> QED
    BY <1>1, <1>2, Zenon DEF LockInv

(* The end of waitOn() *)
LEMMA EndWaitInv ==
    ASSUME LockInv, NEW t \in Threads, Resume(t) \/ ResumeTimedOut(t)
    PROVE  LockInv'
<1> DEFINE l == call[t].lock
<1>1. Own'
    BY SameOwn, Zenon DEF LockInv, Resume, ResumeTimedOut, EndWait
<1>2. /\ l \in Locks /\ UNCHANGED <<tid, call>> /\ Available(l)
      /\ waiting_on' = [waiting_on EXCEPT ![t] = Null]
    BY Zenon DEF Resume, ResumeTimedOut, EndWait, LockInv, WaitInv, Places
<1>3. \A u \in Threads \ {t} : pc'[u] = pc[u] /\ waiting_on'[u] = waiting_on[u]
    BY <1>2, Zenon DEF Resume, ResumeTimedOut, EndWait, Goto, LockInv, WaitInv, Places
<1>4. (pc'[t] = "loop" \/ pc'[t] = "idle") /\ waiting_on'[t] = Null
    BY <1>2, Zenon DEF Resume, ResumeTimedOut, EndWait, Goto, LockInv, WaitInv, Places
<1>5. Places'
    <2>1. pc' \in [Threads -> PCs]
        BY Zenon DEF Resume, ResumeTimedOut, EndWait, Goto, LockInv, WaitInv, Places, PCs
    <2> QED
        BY <1>2, <1>3, <2>1, Zenon DEF LockInv, WaitInv, Places
<1>6. Frame(t, l)
    BY <1>2, <1>3, AvailableMine, Zenon DEF Frame, Woke
<1>7. call'[t].lock = l
    BY <1>2, Zenon
<1> HIDE DEF l
<1>8. WaitInv'
    <2>1. CASE pc'[t] = "loop"
        BY <1>2, <1>4, <1>5, <1>6, <1>7, <2>1, StepInside, Zenon DEF LockInv
    <2>2. CASE pc'[t] = "idle"
        <3>1. pc'[t] \in Outside
            BY <2>2, Zenon DEF Outside
        <3> QED
            BY <1>2, <1>4, <1>5, <1>6, <3>1, StepOutside, Zenon DEF LockInv
    <2> QED
        BY <1>4, <2>1, <2>2, Zenon
<1> QED
    BY <1>1, <1>8, Zenon DEF LockInv

(* tryGrab() *)
LEMMA TryGrabInv ==
    ASSUME LockInv, NEW t \in Threads, NEW l \in Locks, TryGrab(t, l)
    PROVE  LockInv'
<1>1. Own'
    <2>1. CASE tid[l] = Lock_Unlocked /\ GrabIntern(t, l)
        BY <2>1, GrabOwn, Zenon DEF LockInv
    <2>2. CASE /\ tid[l] = t /\ count' = [count EXCEPT ![l] = @ + 1]
               /\ UNCHANGED <<tid, vl, held, resources>>
        <3>1. count[l] + 1 \in Int /\ count[l] + 1 > 0 /\ tid[l] \in Threads
            BY <2>2 DEF LockInv, Own, Types, HeldExact
        <3> QED
            BY <2>2, <3>1, CountOwn, Zenon DEF LockInv
    <2> QED
        BY <2>1, <2>2, Zenon DEF TryGrab
<1>2. \A k \in Locks \ {l} : tid'[k] = tid[k]
    BY Zenon DEF TryGrab, GrabIntern, LockInv, Own, Types
<1>3. tid'[l] \in {tid[l], t}
    BY Zenon DEF TryGrab, GrabIntern, LockInv, Own, Types
<1>4. pc[t] \in Outside /\ UNCHANGED <<pc, call, waiting_on>>
    BY Zenon DEF TryGrab, Outside
<1>5. Frame(t, l)
    BY <1>2, <1>4, AvailableMine, Zenon DEF TryGrab, Frame, Woke
<1>6. Places' /\ waiting_on'[t] = Null
    BY <1>4, Zenon DEF LockInv, WaitInv, Places, Published, Outside, WaitStates
<1>7. WaitInv'
    BY <1>3, <1>4, <1>5, <1>6, StepOutside, Zenon DEF LockInv
<1> QED
    BY <1>1, <1>7, Zenon DEF LockInv

(* release_intern() by a thread that moves to s, from release(), from       *)
(* Condition::wait() and from cleanup().                                    *)
LEMMA ReleaseInternInv ==
    ASSUME LockInv, NEW t \in Threads, NEW l \in Locks, tid[l] = t, Available(l),
           pc[t] \in Outside, NEW s \in Outside, NEW p, p = [pc EXCEPT ![t] = s],
           ReleaseIntern(t, l, p), waiting_on' = waiting_on,
           call' \in [Threads -> Calls \cup {NoLock}],
           \A u \in Threads \ {t} : call'[u] = call[u],
           s \notin {"idle", "exiting"} => call'[t].lock \in Locks
    PROVE  LockInv'
<1>1. Own'
    BY ReleaseOwn, Zenon DEF LockInv
<1>2. \A k \in Locks \ {l} : tid'[k] = tid[k]
    BY Zenon DEF ReleaseIntern, LockInv, Own, Types
<1>3. tid'[l] = Lock_Unlocked
    BY Zenon DEF ReleaseIntern, LockInv, Own, Types
<1>4. p \in [Threads -> PCs]
    BY Zenon DEF LockInv, WaitInv, Places, PCs, Outside
<1>5. pc' \in SignalImpl(p, l)
    BY Zenon DEF ReleaseIntern
<1>6. pc' \in [Threads -> PCs] /\ \A u \in Threads : Woke(p, pc', u)
    BY <1>4, <1>5, Wakeups, Zenon
<1>7. Mine(t, l)
    BY AvailableMine, Zenon
<1>8. WaitInv'
    BY <1>2, <1>3, <1>6, <1>7, OutsideWait, Zenon DEF LockInv
<1> QED
    BY <1>1, <1>8, Zenon DEF LockInv

(* release() *)
LEMMA ReleaseInv ==
    ASSUME LockInv, NEW t \in Threads, NEW l \in Locks, Release(t, l)
    PROVE  LockInv'
<1>1. /\ pc[t] = "idle" /\ tid[l] = t /\ Available(l)
      /\ UNCHANGED <<call, waiting_on>>
      /\ pc \in [Threads -> PCs] /\ call \in [Threads -> Calls \cup {NoLock}]
    BY Zenon DEF Release, LockInv, WaitInv, Places
<1>2. pc[t] \in Outside
    BY <1>1, Zenon DEF Outside
<1>3. CASE ReleaseIntern(t, l, pc)
    <2>1. pc = [pc EXCEPT ![t] = "idle"] /\ "idle" \in Outside
        BY <1>1, Zenon DEF Outside
    <2> QED
        BY <1>1, <1>2, <1>3, <2>1, ReleaseInternInv, Zenon
<1>4. CASE /\ count[l] > 1 /\ count' = [count EXCEPT ![l] = @ - 1]
           /\ UNCHANGED <<tid, vl, held, resources, pc>>
    <2>1. count[l] - 1 \in Int /\ count[l] - 1 > 0
        BY <1>4 DEF LockInv, Own, Types
    <2>2. Own'
        BY <1>1, <1>4, <2>1, CountOwn, Zenon DEF LockInv
    <2>3. WaitInv'
        BY <1>1, <1>4, Zenon DEF LockInv, WaitInv, Places, Published, HeldInCheck, Exclusive, NoPair
    <2> QED
        BY <2>2, <2>3, Zenon DEF LockInv
<1> QED
    BY <1>3, <1>4, Zenon DEF Release

(* Condition::wait() *)
LEMMA ExternWaitInv ==
    ASSUME LockInv, NEW t \in Threads, NEW l \in Locks, NEW c \in Conds, ExternWait(t, l, c)
    PROVE  LockInv'
<1>1. /\ pc[t] \in Outside /\ "cond" \in Outside /\ tid[l] = t /\ Available(l)
      /\ waiting_on' = waiting_on /\ ReleaseIntern(t, l, [pc EXCEPT ![t] = "cond"])
    BY Zenon DEF ExternWait, Outside
<1>2. /\ call' \in [Threads -> Calls \cup {NoLock}]
      /\ call'[t].lock \in Locks
      /\ \A u \in Threads \ {t} : call'[u] = call[u]
    BY Zenon DEF ExternWait, LockInv, WaitInv, Places, Calls
<1> QED
    BY <1>1, <1>2, ReleaseInternInv, Zenon

(* A thread moves between states in which it waits for no lock: the wakeup  *)
(* of a Condition, the start and the end of the cleanup.                    *)
LEMMA MoveInv ==
    ASSUME LockInv, NEW t \in Threads, CondWakeup(t) \/ Exit(t) \/ Restart(t)
    PROVE  LockInv'
<1>1. Own'
    BY SameOwn, Zenon DEF LockInv, CondWakeup, Exit, Restart
<1>2. UNCHANGED <<tid, call, waiting_on>>
    BY Zenon DEF CondWakeup, Exit, Restart
<1>3. PICK s \in {"condwoken", "exiting", "idle"} :
          /\ pc' = [pc EXCEPT ![t] = s] /\ pc[t] \in Outside
          /\ (s \notin {"idle", "exiting"} => pc[t] \notin {"idle", "exiting"})
    BY Zenon DEF CondWakeup, Exit, Restart, Goto, Outside
<1>4. pc'[t] = s /\ \A u \in Threads \ {t} : pc'[u] = pc[u]
    BY <1>3, Zenon DEF LockInv, WaitInv, Places
<1>5. Places'
    BY <1>2, <1>3, <1>4, Zenon DEF LockInv, WaitInv, Places, PCs
<1>6. Published' /\ HeldInCheck' /\ Exclusive'
    BY <1>2, <1>3, <1>4, Zenon
    DEF LockInv, WaitInv, Published, HeldInCheck, Exclusive, WaitStates, Outside
<1>7. NoPair'
    BY <1>2, <1>3, <1>4, Zenon DEF LockInv, WaitInv, NoPair, Past
<1> QED
    BY <1>1, <1>5, <1>6, <1>7, Zenon DEF LockInv, WaitInv

(* A thread comes back from a Condition and takes the lock again. *)
LEMMA CondResumeInv ==
    ASSUME LockInv, NEW t \in Threads, CondResume(t)
    PROVE  LockInv'
<1> DEFINE l == call[t].lock
<1>1. l \in Locks /\ Attempt(t, l) /\ Available(l) /\ call[t] \in Calls
    BY SortsAssumption DEF CondResume, LockInv, WaitInv, Places, NoLock
<1>2. Own'
    BY <1>1, AttemptOwn, Zenon DEF LockInv
<1>3. call' = [call EXCEPT ![t] = [call[t] EXCEPT !.cond = Null]]
    BY Zenon DEF CondResume, LockInv, WaitInv, Places
<1>4. [call[t] EXCEPT !.cond = Null] \in Calls /\ [call[t] EXCEPT !.cond = Null].lock = l
    BY <1>1, Zenon DEF Calls
<1>5. /\ call' \in [Threads -> Calls \cup {NoLock}]
      /\ call'[t].lock = l
      /\ \A u \in Threads \ {t} : call'[u] = call[u]
    BY <1>3, <1>4, Zenon DEF LockInv, WaitInv, Places
<1>6. waiting_on[t] = Null
    BY Zenon DEF CondResume, LockInv, WaitInv, Published, WaitStates
<1>7. Mine(t, l)
    BY <1>1, AvailableMine, Zenon
<1> HIDE DEF l
<1> QED
    BY <1>1, <1>2, <1>5, <1>6, <1>7, AttemptWait, Zenon DEF LockInv

(* destructor() *)
LEMMA DestructorInv ==
    ASSUME LockInv, NEW t \in Threads, NEW l \in Locks, Destructor(t, l)
    PROVE  LockInv'
<1>1. Own'
    BY DestructorOwn, Zenon DEF LockInv
<1>2. /\ \A k \in Locks \ {l} : tid'[k] = tid[k]
      /\ tid'[l] = Lock_Deleted
    BY Zenon DEF Destructor, LockInv, Own, Types
<1>3. /\ pc[t] = "idle" /\ Available(l) /\ UNCHANGED <<call, waiting_on>>
      /\ pc \in [Threads -> PCs] /\ call \in [Threads -> Calls \cup {NoLock}]
    BY Zenon DEF Destructor, LockInv, WaitInv, Places
<1>4. PICK p : /\ p = BroadcastConds(pc, {c \in Conds : cmap[l][c] > 0})
               /\ pc' = p \/ pc' = SignalAllImpl(p, l)
    BY Zenon DEF Destructor
<1>5. p \in [Threads -> PCs] /\ \A u \in Threads : Woke(pc, p, u)
    BY <1>3, <1>4, Wakeups, Zenon
<1>6. pc' \in [Threads -> PCs] /\ \A u \in Threads : Woke(p, pc', u)
    <2>1. CASE pc' = p
        BY <1>5, <2>1, Zenon DEF Woke
    <2>2. CASE pc' = SignalAllImpl(p, l)
        BY <1>5, <2>2, Wakeups, Zenon
    <2> QED
        BY <1>4, <2>1, <2>2, Zenon
<1>7. \A u \in Threads : Woke(pc, pc', u)
    BY <1>5, <1>6, Zenon DEF Woke
<1>8. pc = [pc EXCEPT ![t] = "idle"] /\ "idle" \in Outside /\ pc[t] \in Outside
    BY <1>3, Zenon DEF Outside
<1>9. Mine(t, l)
    BY <1>3, AvailableMine, Zenon
<1>10. WaitInv'
    BY <1>2, <1>3, <1>6, <1>7, <1>8, <1>9, OutsideWait, Zenon DEF LockInv
<1> QED
    BY <1>1, <1>10, Zenon DEF LockInv

(* cleanup() *)
LEMMA CleanupInv ==
    ASSUME LockInv, NEW t \in Threads, NEW l \in Locks, Cleanup(t, l)
    PROVE  LockInv'
<1>1. /\ pc[t] = "exiting" /\ Available(l) /\ UNCHANGED <<call, waiting_on>>
      /\ pc \in [Threads -> PCs] /\ call \in [Threads -> Calls \cup {NoLock}]
    BY Zenon DEF Cleanup, LockInv, WaitInv, Places
<1>2. CASE tid[l] = t /\ ReleaseIntern(t, l, pc)
    <2>1. pc = [pc EXCEPT ![t] = "exiting"] /\ "exiting" \in Outside /\ pc[t] \in Outside
        BY <1>1, Zenon DEF Outside
    <2> QED
        BY <1>1, <1>2, <2>1, ReleaseInternInv, Zenon
<1>3. CASE UNCHANGED <<tid, pc>>
    <2>1. WaitInv'
        BY <1>1, <1>3, Zenon DEF LockInv, WaitInv, Places, Published, HeldInCheck, Exclusive, NoPair
    <2> QED
        BY <2>1, CleanupOwn, Zenon DEF LockInv
<1> QED
    BY <1>2, <1>3, Zenon DEF Cleanup

(* The initial state: no lock is held and no thread waits. *)
LEMMA InitInv ==
    Init => LockInv
<1> SUFFICES ASSUME Init PROVE LockInv
    BY Zenon
<1>1. Types
    BY DEF Init, Types
<1>2. HeldExact
    BY SortsAssumption, Zenon DEF Init, HeldExact, Lock_Unlocked, Lock_Deleted, Null
<1>3. ResourcesCover
    BY SortsAssumption, Zenon DEF Init, ResourcesCover, Lock_Unlocked, Lock_Deleted
<1>4. Places
    BY Zenon DEF Init, Places, PCs
<1>5. Published /\ HeldInCheck /\ Exclusive /\ NoPair
    BY Zenon DEF Init, Published, HeldInCheck, Exclusive, NoPair, Past, WaitStates
<1> QED
    BY <1>1, <1>2, <1>3, <1>4, <1>5, Zenon DEF LockInv, Own, WaitInv

---------------------------------------------------------------------------
(* The inductive invariant: ownership of the locks, and who waits for whom. *)
(* It is needed because NoPairDeadlock says nothing of threads that have    *)
(* been woken but still publish what they waited for.                       *)
THEOREM LockInvariance == Spec => []LockInv
<1>1. LockInv /\ [Next]_vars => LockInv'
    <2> SUFFICES ASSUME LockInv, [Next]_vars PROVE LockInv'
        BY Zenon
    <2>1. CASE Next
        <3>1. PICK t \in Threads :
                 \/ \E l \in Locks : \/ \E timed \in Timed : Grab(t, l, timed)
                                     \/ TryGrab(t, l) \/ Release(t, l)
                                     \/ Destructor(t, l) \/ Cleanup(t, l)
                                     \/ \E c \in Conds : ExternWait(t, l, c)
                 \/ Loop(t) \/ Check(t) \/ TimeOut(t) \/ SpuriousWakeup(t)
                 \/ Resume(t) \/ ResumeTimedOut(t)
                 \/ CondWakeup(t) \/ CondResume(t)
                 \/ Exit(t) \/ Restart(t)
            BY <2>1, Zenon DEF Next
        <3>2. ASSUME NEW l \in Locks, NEW timed \in Timed, Grab(t, l, timed) PROVE LockInv'
            BY <3>2, GrabInv, Zenon
        <3>3. ASSUME NEW l \in Locks, TryGrab(t, l) PROVE LockInv'
            BY <3>3, TryGrabInv, Zenon
        <3>4. ASSUME NEW l \in Locks, Release(t, l) PROVE LockInv'
            BY <3>4, ReleaseInv, Zenon
        <3>5. ASSUME NEW l \in Locks, Destructor(t, l) PROVE LockInv'
            BY <3>5, DestructorInv, Zenon
        <3>6. ASSUME NEW l \in Locks, Cleanup(t, l) PROVE LockInv'
            BY <3>6, CleanupInv, Zenon
        <3>7. ASSUME NEW l \in Locks, NEW c \in Conds, ExternWait(t, l, c) PROVE LockInv'
            BY <3>7, ExternWaitInv, Zenon
        <3>8. CASE Loop(t)
            BY <3>8, LoopInv, Zenon
        <3>9. CASE Check(t)
            BY <3>9, CheckInv, Zenon
        <3>10. CASE TimeOut(t) \/ SpuriousWakeup(t)
            BY <3>10, AwakeInv, Zenon
        <3>11. CASE Resume(t) \/ ResumeTimedOut(t)
            BY <3>11, EndWaitInv, Zenon
        <3>12. CASE CondWakeup(t) \/ Exit(t) \/ Restart(t)
            BY <3>12, MoveInv, Zenon
        <3>13. CASE CondResume(t)
            BY <3>13, CondResumeInv, Zenon
        <3> QED
            BY <3>1, <3>2, <3>3, <3>4, <3>5, <3>6, <3>7, <3>8, <3>9, <3>10, <3>11, <3>12, <3>13, Zenon
    <2>2. CASE UNCHANGED vars
        <3>1. UNCHANGED <<tid, vl, count, held, resources>> /\ UNCHANGED <<tid, pc, call, waiting_on>>
            BY <2>2, Zenon DEF vars
        <3>2. Own'
            BY <3>1, SameOwn, Zenon DEF LockInv
        <3>3. WaitInv'
            BY <3>1, Zenon DEF LockInv, WaitInv, Places, Published, HeldInCheck, Exclusive, NoPair
        <3> QED
            BY <3>2, <3>3, Zenon DEF LockInv
    <2> QED
        BY <2>1, <2>2, Zenon
<1> QED
    BY InitInv, <1>1, PTL DEF Spec

(* The list of a thread is exactly what it owns. *)
THEOREM LocksHeldExact == Spec => []HeldExact
<1>1. LockInv => HeldExact
    BY Zenon DEF LockInv, Own
<1> QED
    BY LockInvariance, <1>1, PTL

(* Every lock object that is held is a resource of its holder. *)
THEOREM LocksAreResources == Spec => []ResourcesCover
<1>1. LockInv => ResourcesCover
    BY Zenon DEF LockInv, Own
<1> QED
    BY LockInvariance, <1>1, PTL

(* No two threads sleep for each other's locks: the deadlock test finds     *)
(* every cycle of two, however the two calls of waitOn() interleave.        *)
THEOREM LocksNoPairDeadlock == Spec => []NoPairDeadlock
<1>1. LockInv => NoPairDeadlock
    BY Zenon DEF LockInv, WaitInv, NoPair, NoPairDeadlock, Past
<1> QED
    BY LockInvariance, <1>1, PTL

---------------------------------------------------------------------------
(* Wakeups.  signalImpl() looks at the counter waiting, so that no wakeup   *)
(* is lost only if the counter is exact.                                    *)

Waiters(p, c, l) == {u \in Threads : p[u] \in WaitStates /\ c[u].lock = l}

WaitingExact ==
    /\ waiting \in [Locks -> Int]
    /\ \A l \in Locks : waiting[l] = Cardinality(Waiters(pc, call, l))

WakeInv == WaitingExact /\ NoLostWakeup

LEMMA WaitersFinite ==
    ASSUME NEW p, NEW c, NEW l
    PROVE  /\ IsFiniteSet(Waiters(p, c, l)) /\ Cardinality(Waiters(p, c, l)) \in Nat
           /\ Waiters(p, c, l) # {} => Cardinality(Waiters(p, c, l)) > 0
<1>1. IsFiniteSet(Waiters(p, c, l))
    BY SortsAssumption, FS_Subset DEF Waiters
<1> QED
    BY <1>1, FS_CardinalityType, FS_EmptySet

(* Nobody enters or leaves waitOn(). *)
LEMMA SameWaiters ==
    ASSUME WaitingExact, waiting' = waiting,
           \A u \in Threads : /\ pc'[u] \in WaitStates <=> pc[u] \in WaitStates
                              /\ pc[u] \in WaitStates => call'[u].lock = call[u].lock
    PROVE  WaitingExact'
<1>1. \A l \in Locks : Waiters(pc', call', l) = Waiters(pc, call, l)
    BY Zenon DEF Waiters
<1> QED
    BY <1>1, Zenon DEF WaitingExact

(* Thread t enters waitOn(). *)
LEMMA JoinWaiters ==
    ASSUME WaitingExact, NEW t \in Threads, NEW l \in Locks,
           waiting' = [waiting EXCEPT ![l] = @ + 1],
           pc[t] \notin WaitStates, pc'[t] \in WaitStates, call'[t].lock = l,
           \A u \in Threads \ {t} : pc'[u] = pc[u] /\ call'[u] = call[u]
    PROVE  WaitingExact'
<1>1. /\ Waiters(pc', call', l) = Waiters(pc, call, l) \cup {t}
      /\ t \notin Waiters(pc, call, l)
    BY Zenon DEF Waiters
<1>2. \A k \in Locks \ {l} : Waiters(pc', call', k) = Waiters(pc, call, k)
    BY Zenon DEF Waiters
<1>3. Cardinality(Waiters(pc, call, l) \cup {t}) = Cardinality(Waiters(pc, call, l)) + 1
    <2>1. IsFiniteSet(Waiters(pc, call, l))
        BY WaitersFinite
    <2> QED
        BY <1>1, <2>1, FS_AddElement
<1>4. waiting'[l] = waiting[l] + 1 /\ \A k \in Locks \ {l} : waiting'[k] = waiting[k]
    BY Zenon DEF WaitingExact
<1>5. waiting' \in [Locks -> Int]
    BY DEF WaitingExact
<1>6. waiting'[l] = Cardinality(Waiters(pc', call', l))
    BY <1>1, <1>3, <1>4, Zenon DEF WaitingExact
<1>7. \A k \in Locks : waiting'[k] = Cardinality(Waiters(pc', call', k))
    BY <1>2, <1>4, <1>6, Zenon DEF WaitingExact
<1> QED
    BY <1>5, <1>7, Zenon DEF WaitingExact

(* Thread t leaves it. *)
LEMMA LeaveWaiters ==
    ASSUME WaitingExact, NEW t \in Threads, NEW l \in Locks,
           waiting' = [waiting EXCEPT ![l] = @ - 1],
           pc[t] \in WaitStates, call[t].lock = l, pc'[t] \notin WaitStates,
           \A u \in Threads \ {t} : pc'[u] = pc[u] /\ call'[u] = call[u]
    PROVE  WaitingExact'
<1>1. /\ Waiters(pc', call', l) = Waiters(pc, call, l) \ {t}
      /\ t \in Waiters(pc, call, l)
    BY Zenon DEF Waiters
<1>2. \A k \in Locks \ {l} : Waiters(pc', call', k) = Waiters(pc, call, k)
    BY Zenon DEF Waiters
<1>3. Cardinality(Waiters(pc, call, l) \ {t}) = Cardinality(Waiters(pc, call, l)) - 1
    <2>1. IsFiniteSet(Waiters(pc, call, l))
        BY WaitersFinite
    <2> QED
        BY <1>1, <2>1, FS_RemoveElement
<1>4. waiting'[l] = waiting[l] - 1 /\ \A k \in Locks \ {l} : waiting'[k] = waiting[k]
    BY Zenon DEF WaitingExact
<1>5. waiting' \in [Locks -> Int]
    BY DEF WaitingExact
<1>6. waiting'[l] = Cardinality(Waiters(pc', call', l))
    BY <1>1, <1>3, <1>4, Zenon DEF WaitingExact
<1>7. \A k \in Locks : waiting'[k] = Cardinality(Waiters(pc', call', k))
    BY <1>2, <1>4, <1>6, Zenon DEF WaitingExact
<1> QED
    BY <1>5, <1>7, Zenon DEF WaitingExact

(* Nobody falls asleep for lock l and nobody who is on the way to it turns  *)
(* back.                                                                    *)
Steady(l) ==
    \A u \in Threads :
        /\ pc'[u] = "blocked" /\ call'[u].lock = l => pc[u] = "blocked" /\ call[u].lock = l
        /\ pc[u] \in {"woken", "loop"} /\ call[u].lock = l
             => pc'[u] \in {"woken", "loop"} /\ call'[u].lock = l

LEMMA SteadyWake ==
    ASSUME NoLostWakeup,
           \A l \in Locks : tid'[l] = Lock_Unlocked => tid[l] = Lock_Unlocked /\ Steady(l)
    PROVE  NoLostWakeup'
<1> SUFFICES ASSUME NEW l \in Locks, tid'[l] = Lock_Unlocked,
                    NEW u \in Threads, pc'[u] = "blocked", call'[u].lock = l
             PROVE  \E t \in Threads : pc'[t] \in {"woken", "loop"} /\ call'[t].lock = l
    BY Zenon DEF NoLostWakeup, Blocked
<1>1. tid[l] = Lock_Unlocked /\ Steady(l)
    BY Zenon
<1>2. u \in Blocked(pc, l)
    BY <1>1, Zenon DEF Steady, Blocked
<1>3. PICK t \in Threads : pc[t] \in {"woken", "loop"} /\ call[t].lock = l
    BY <1>1, <1>2, Zenon DEF NoLostWakeup
<1> QED
    BY <1>1, <1>3, Zenon DEF Steady

(* A pass of grabImpl() *)
LEMMA AttemptWake ==
    ASSUME LockInv, WakeInv, NEW t \in Threads, NEW l \in Locks, Attempt(t, l),
           pc[t] \in {"idle", "loop", "condwoken"}, pc[t] = "loop" => call[t].lock = l,
           call'[t].lock = l, \A u \in Threads \ {t} : call'[u] = call[u]
    PROVE  WakeInv'
<1>1. pc[t] \notin WaitStates /\ \A u \in Threads \ {t} : pc'[u] = pc[u]
    BY Zenon DEF Attempt, Goto, LockInv, WaitInv, Places, WaitStates
<1>2. pc'[t] = "idle" \/ pc'[t] = "check"
    BY Zenon DEF Attempt, Goto, LockInv, WaitInv, Places
<1>3. WaitingExact'
    <2>1. CASE pc'[t] = "idle" /\ waiting' = waiting
        <3>1. \A u \in Threads : /\ pc'[u] \in WaitStates <=> pc[u] \in WaitStates
                                 /\ pc[u] \in WaitStates => call'[u].lock = call[u].lock
            BY <1>1, <2>1, Zenon DEF WaitStates
        <3> QED
            BY <2>1, <3>1, SameWaiters, Zenon DEF WakeInv
    <2>2. CASE pc'[t] = "check" /\ waiting' = [waiting EXCEPT ![l] = @ + 1]
        <3>1. pc'[t] \in WaitStates
            BY <2>2, Zenon DEF WaitStates
        <3> QED
            BY <1>1, <2>2, <3>1, JoinWaiters, Zenon DEF WakeInv
    <2> QED
        BY <2>1, <2>2, Zenon DEF Attempt, Goto, LockInv, WaitInv, Places
<1>4. tid'[l] # Lock_Unlocked /\ \A k \in Locks \ {l} : tid'[k] = tid[k]
    <2>1. t # Lock_Unlocked /\ Lock_Deleted # Lock_Unlocked
        BY SortsAssumption DEF Lock_Unlocked, Lock_Deleted
    <2> QED
        BY <2>1, SortsAssumption, Zenon DEF Attempt, GrabIntern, LockInv, Own, Types
<1>5. \A k \in Locks \ {l} : Steady(k)
    BY <1>1, <1>2, Zenon DEF Steady
<1>6. NoLostWakeup'
    BY <1>4, <1>5, SteadyWake, Zenon DEF WakeInv
<1> QED
    BY <1>3, <1>6, Zenon DEF WakeInv

(* grab(), the top of the wait loop and the return from a Condition *)
LEMMA GrabWake ==
    ASSUME LockInv, WakeInv, NEW t \in Threads,
           \/ \E l \in Locks, timed \in Timed : Grab(t, l, timed)
           \/ Loop(t) \/ CondResume(t)
    PROVE  WakeInv'
<1>1. ASSUME NEW l \in Locks, NEW timed \in Timed, Grab(t, l, timed) PROVE WakeInv'
    <2>1. call'[t].lock = l /\ \A u \in Threads \ {t} : call'[u] = call[u]
        BY <1>1, Zenon DEF Grab, LockInv, WaitInv, Places
    <2>2. pc[t] = "idle" /\ Attempt(t, l)
        BY <1>1, Zenon DEF Grab
    <2> QED
        BY <2>1, <2>2, AttemptWake, Zenon
<1>2. CASE Loop(t)
    <2>1. call[t].lock \in Locks /\ pc[t] = "loop" /\ Attempt(t, call[t].lock) /\ call' = call
        BY <1>2, Zenon DEF Loop, LockInv, WaitInv, Places
    <2> QED
        BY <2>1, AttemptWake, Zenon
<1>3. CASE CondResume(t)
    <2>1. call[t].lock \in Locks /\ pc[t] = "condwoken" /\ Attempt(t, call[t].lock)
        BY <1>3, Zenon DEF CondResume, LockInv, WaitInv, Places
    <2>2. call[t] \in Calls
        BY <2>1, SortsAssumption DEF LockInv, WaitInv, Places, NoLock
    <2>3. call' = [call EXCEPT ![t] = [call[t] EXCEPT !.cond = Null]]
        BY <1>3, Zenon DEF CondResume, LockInv, WaitInv, Places
    <2>4. [call[t] EXCEPT !.cond = Null].lock = call[t].lock
        BY <2>2, Zenon DEF Calls
    <2>5. call'[t].lock = call[t].lock /\ \A u \in Threads \ {t} : call'[u] = call[u]
        BY <2>3, <2>4, Zenon DEF LockInv, WaitInv, Places
    <2> QED
        BY <2>1, <2>5, AttemptWake, Zenon
<1> QED
    BY <1>1, <1>2, <1>3, Zenon

(* waitOn() up to the wait: the lock a thread falls asleep for is held. *)
LEMMA CheckWake ==
    ASSUME LockInv, WakeInv, NEW t \in Threads, Check(t)
    PROVE  WakeInv'
<1> DEFINE l == call[t].lock
<1>1. l \in Locks /\ pc[t] = "check" /\ call' = call /\ tid' = tid /\ tid[l] # Lock_Unlocked
    BY SortsAssumption, Zenon DEF Check, LockInv, WaitInv, Places, HeldInCheck, Lock_Unlocked
<1>2. \A u \in Threads \ {t} : pc'[u] = pc[u]
    BY Zenon DEF Check, Goto, LockInv, WaitInv, Places
<1>3. \/ pc'[t] = "idle" /\ waiting' = [waiting EXCEPT ![l] = @ - 1]
      \/ pc'[t] = "blocked" /\ waiting' = waiting
    BY Zenon DEF Check, Goto, LockInv, WaitInv, Places
<1> HIDE DEF l
<1>4. WaitingExact'
    <2>1. CASE pc'[t] = "idle" /\ waiting' = [waiting EXCEPT ![l] = @ - 1]
        <3>1. pc[t] \in WaitStates /\ pc'[t] \notin WaitStates /\ call[t].lock = l
            BY <1>1, <2>1, Zenon DEF WaitStates, l
        <3> QED
            BY <1>1, <1>2, <2>1, <3>1, LeaveWaiters, Zenon DEF WakeInv
    <2>2. CASE pc'[t] = "blocked" /\ waiting' = waiting
        <3>1. \A u \in Threads : pc'[u] \in WaitStates <=> pc[u] \in WaitStates
            BY <1>1, <1>2, <2>2, Zenon DEF WaitStates
        <3> QED
            BY <1>1, <2>2, <3>1, SameWaiters, Zenon DEF WakeInv
    <2> QED
        BY <1>3, <2>1, <2>2, Zenon
<1>5. \A k \in Locks \ {l} : Steady(k)
    BY <1>1, <1>2, Zenon DEF Steady, l
<1>6. NoLostWakeup'
    BY <1>1, <1>5, SteadyWake, Zenon DEF WakeInv
<1> QED
    BY <1>4, <1>6, Zenon DEF WakeInv

(* A thread leaves asl_cond. *)
LEMMA AwakeWake ==
    ASSUME LockInv, WakeInv, NEW t \in Threads, TimeOut(t) \/ SpuriousWakeup(t)
    PROVE  WakeInv'
<1>1. /\ pc[t] = "blocked" /\ pc'[t] \in {"timedout", "woken"}
      /\ \A u \in Threads \ {t} : pc'[u] = pc[u]
      /\ UNCHANGED <<tid, waiting, call>>
    BY Zenon DEF TimeOut, SpuriousWakeup, Goto, LockInv, WaitInv, Places
<1>2. \A u \in Threads : pc'[u] \in WaitStates <=> pc[u] \in WaitStates
    BY <1>1, Zenon DEF WaitStates
<1>3. WaitingExact'
    BY <1>1, <1>2, SameWaiters, Zenon DEF WakeInv
<1>4. \A k \in Locks : Steady(k)
    BY <1>1, Zenon DEF Steady
<1>5. NoLostWakeup'
    BY <1>1, <1>4, SteadyWake, Zenon DEF WakeInv
<1> QED
    BY <1>3, <1>5, Zenon DEF WakeInv

(* The end of waitOn(): a thread that was woken goes on to the lock. *)
LEMMA EndWaitWake ==
    ASSUME LockInv, WakeInv, NEW t \in Threads, Resume(t) \/ ResumeTimedOut(t)
    PROVE  WakeInv'
<1> DEFINE l == call[t].lock
<1>1. /\ \/ pc[t] = "woken" /\ pc'[t] = "loop"
         \/ pc[t] = "timedout" /\ pc'[t] = "idle"
      /\ \A u \in Threads \ {t} : pc'[u] = pc[u]
      /\ UNCHANGED <<tid, call>> /\ waiting' = [waiting EXCEPT ![l] = @ - 1]
    BY Zenon DEF Resume, ResumeTimedOut, EndWait, Goto, LockInv, WaitInv, Places
<1>2. l \in Locks /\ call[t].lock = l
    BY <1>1, Zenon DEF LockInv, WaitInv, Places
<1> HIDE DEF l
<1>3. pc[t] \in WaitStates /\ pc'[t] \notin WaitStates
    BY <1>1, Zenon DEF WaitStates
<1>4. WaitingExact'
    BY <1>1, <1>2, <1>3, LeaveWaiters, Zenon DEF WakeInv
<1>5. \A k \in Locks : Steady(k)
    BY <1>1, Zenon DEF Steady
<1>6. NoLostWakeup'
    BY <1>1, <1>5, SteadyWake, Zenon DEF WakeInv
<1> QED
    BY <1>4, <1>6, Zenon DEF WakeInv

(* Somebody is woken, and no lock is given up. *)
LEMMA WokeWake ==
    ASSUME LockInv, WakeInv, NEW t \in Threads, pc[t] \in Outside, pc'[t] \in Outside,
           \A u \in Threads \ {t} : Woke(pc, pc', u), UNCHANGED <<waiting, call>>,
           \A l \in Locks : tid'[l] = Lock_Unlocked => tid[l] = Lock_Unlocked
    PROVE  WakeInv'
<1>1. \A u \in Threads : pc'[u] \in WaitStates <=> pc[u] \in WaitStates
    BY Zenon DEF Woke, WaitStates, Outside
<1>2. WaitingExact'
    BY <1>1, SameWaiters, Zenon DEF WakeInv
<1>3. \A k \in Locks : Steady(k)
    BY Zenon DEF Steady, Woke, Outside
<1>4. NoLostWakeup'
    BY <1>3, SteadyWake, Zenon DEF WakeInv
<1> QED
    BY <1>2, <1>4, Zenon DEF WakeInv

(* tryGrab() *)
LEMMA TryGrabWake ==
    ASSUME LockInv, WakeInv, NEW t \in Threads, NEW l \in Locks, TryGrab(t, l)
    PROVE  WakeInv'
<1>1. t # Lock_Unlocked
    BY SortsAssumption DEF Lock_Unlocked
<1>2. /\ pc[t] \in Outside /\ UNCHANGED <<pc, waiting, call>>
      /\ \A k \in Locks : tid'[k] = Lock_Unlocked => tid[k] = Lock_Unlocked
    BY <1>1, Zenon DEF TryGrab, GrabIntern, Outside, LockInv, Own, Types
<1> QED
    BY <1>2, WokeWake, Zenon DEF Woke

(* release_intern(): if anybody sleeps for the lock, one thread is woken. *)
LEMMA ReleaseInternWake ==
    ASSUME LockInv, WakeInv, NEW t \in Threads, NEW l \in Locks,
           pc[t] \in Outside, NEW s \in Outside, NEW p, p = [pc EXCEPT ![t] = s],
           ReleaseIntern(t, l, p), waiting' = waiting,
           \A u \in Threads \ {t} : call'[u] = call[u]
    PROVE  WakeInv'
<1>1. p[t] = s /\ p \in [Threads -> PCs] /\ \A u \in Threads \ {t} : p[u] = pc[u]
    BY Zenon DEF LockInv, WaitInv, Places, PCs, Outside
<1>2. pc' \in SignalImpl(p, l) /\ \A k \in Locks \ {l} : tid'[k] = tid[k]
    BY Zenon DEF ReleaseIntern, LockInv, Own, Types
<1>3. \A u \in Threads : Woke(p, pc', u)
    BY <1>1, <1>2, Wakeups, Zenon
<1>4. pc'[t] \in Outside /\ \A u \in Threads \ {t} : Woke(pc, pc', u)
    BY <1>1, <1>3, Zenon DEF Woke, Outside
<1>5. WaitingExact'
    <2>1. \A u \in Threads : /\ pc'[u] \in WaitStates <=> pc[u] \in WaitStates
                             /\ pc[u] \in WaitStates => call'[u].lock = call[u].lock
        BY <1>4, Zenon DEF Woke, WaitStates, Outside
    <2> QED
        BY <2>1, SameWaiters, Zenon DEF WakeInv
<1>6. \A k \in Locks : Steady(k)
    BY <1>4, Zenon DEF Steady, Woke, Outside
<1>7. NoLostWakeup'
    <2> SUFFICES ASSUME NEW k \in Locks, tid'[k] = Lock_Unlocked,
                        NEW u \in Threads, pc'[u] = "blocked", call'[u].lock = k
                 PROVE  \E v \in Threads : pc'[v] \in {"woken", "loop"} /\ call'[v].lock = k
        BY Zenon DEF NoLostWakeup, Blocked
    <2>1. pc[u] = "blocked" /\ call[u].lock = k /\ u # t
        BY <1>4, <1>6, Zenon DEF Steady, Outside
    <2>2. CASE k = l
        <3>1. u \in Blocked(p, l)
            BY <1>1, <2>1, <2>2, Zenon DEF Blocked
        <3>2. u \in Waiters(pc, call, l)
            BY <2>1, <2>2, Zenon DEF Waiters, WaitStates
        <3>3. waiting[l] > 0
            <4>1. Waiters(pc, call, l) # {} /\ waiting[l] = Cardinality(Waiters(pc, call, l))
                BY <3>2, Zenon DEF WakeInv, WaitingExact
            <4> QED
                BY <4>1, WaitersFinite
        <3>4. PICK v \in Blocked(p, l) : pc' = [p EXCEPT ![v] = "woken"]
            BY <1>2, <3>1, <3>3, Zenon DEF SignalImpl, Signal
        <3>5. v \in Threads /\ p[v] = "blocked" /\ call[v].lock = l
            BY <3>4, Zenon DEF Blocked
        <3>6. v # t
            BY <1>1, <3>5, Zenon DEF Outside
        <3>7. pc'[v] = "woken" /\ call'[v].lock = k
            BY <1>1, <2>2, <3>4, <3>5, <3>6, Zenon
        <3> QED
            BY <3>5, <3>7, Zenon
    <2>3. CASE k # l
        <3>1. tid[k] = Lock_Unlocked /\ u \in Blocked(pc, k)
            BY <1>2, <2>1, <2>3, Zenon DEF Blocked
        <3>2. PICK v \in Threads : pc[v] \in {"woken", "loop"} /\ call[v].lock = k
            BY <3>1, Zenon DEF WakeInv, NoLostWakeup
        <3> QED
            BY <1>6, <3>2, Zenon DEF Steady
    <2> QED
        BY <2>2, <2>3, Zenon
<1> QED
    BY <1>5, <1>7, Zenon DEF WakeInv

(* release(), Condition::wait() and cleanup() *)
LEMMA ReleaseWake ==
    ASSUME LockInv, WakeInv, NEW t \in Threads, NEW l \in Locks,
           Release(t, l) \/ Cleanup(t, l) \/ \E c \in Conds : ExternWait(t, l, c)
    PROVE  WakeInv'
<1>1. pc[t] \in Outside /\ waiting' = waiting /\ \A u \in Threads \ {t} : call'[u] = call[u]
    BY Zenon DEF Release, Cleanup, ExternWait, Outside, LockInv, WaitInv, Places
<1>2. pc = [pc EXCEPT ![t] = pc[t]]
    BY Zenon DEF LockInv, WaitInv, Places
<1>3. CASE ReleaseIntern(t, l, pc)
    BY <1>1, <1>2, <1>3, ReleaseInternWake, Zenon
<1>4. CASE ReleaseIntern(t, l, [pc EXCEPT ![t] = "cond"])
    <2>1. "cond" \in Outside
        BY Zenon DEF Outside
    <2> QED
        BY <1>1, <1>4, <2>1, ReleaseInternWake, Zenon
<1>5. CASE UNCHANGED <<tid, pc, call>>
    BY <1>1, <1>5, WokeWake, Zenon DEF Woke
<1> QED
    BY <1>3, <1>4, <1>5, Zenon DEF Release, Cleanup, ExternWait

(* destructor(), and the moves of threads that wait for no lock *)
LEMMA OtherWake ==
    ASSUME LockInv, WakeInv, NEW t \in Threads,
           (\E l \in Locks : Destructor(t, l)) \/ CondWakeup(t) \/ Exit(t) \/ Restart(t)
    PROVE  WakeInv'
<1>1. Lock_Deleted # Lock_Unlocked
    BY DEF Lock_Deleted, Lock_Unlocked
<1>2. ASSUME NEW l \in Locks, Destructor(t, l) PROVE WakeInv'
    <2>1. /\ pc[t] = "idle" /\ UNCHANGED <<waiting, call>> /\ pc \in [Threads -> PCs]
          /\ \A k \in Locks : tid'[k] = Lock_Unlocked => tid[k] = Lock_Unlocked
        BY <1>1, <1>2, Zenon DEF Destructor, LockInv, WaitInv, Places, Own, Types
    <2>2. PICK p : /\ p = BroadcastConds(pc, {c \in Conds : cmap[l][c] > 0})
                   /\ pc' = p \/ pc' = SignalAllImpl(p, l)
        BY <1>2, Zenon DEF Destructor
    <2>3. p \in [Threads -> PCs] /\ \A u \in Threads : Woke(pc, p, u)
        BY <2>1, <2>2, Wakeups, Zenon
    <2>4. \A u \in Threads : Woke(p, pc', u)
        <3>1. CASE pc' = p
            BY <3>1, Zenon DEF Woke
        <3>2. CASE pc' = SignalAllImpl(p, l)
            BY <2>3, <3>2, Wakeups, Zenon
        <3> QED
            BY <2>2, <3>1, <3>2, Zenon
    <2>5. \A u \in Threads : Woke(pc, pc', u)
        BY <2>3, <2>4, Zenon DEF Woke
    <2>6. pc[t] \in Outside /\ pc'[t] \in Outside
        BY <2>1, <2>5, Zenon DEF Woke, Outside
    <2> QED
        BY <2>1, <2>5, <2>6, WokeWake, Zenon
<1>3. CASE CondWakeup(t) \/ Exit(t) \/ Restart(t)
    <2>1. /\ pc[t] \in Outside /\ pc'[t] \in Outside /\ UNCHANGED <<tid, waiting, call>>
          /\ \A u \in Threads \ {t} : pc'[u] = pc[u]
        BY <1>3, Zenon DEF CondWakeup, Exit, Restart, Goto, Outside, LockInv, WaitInv, Places
    <2> QED
        BY <2>1, WokeWake, Zenon DEF Woke
<1> QED
    BY <1>2, <1>3, Zenon

(* The counter of every lock is the number of threads inside of its         *)
(* waitOn(), and a free lock that threads sleep for has one on the way.     *)
THEOREM WakeInvariance == Spec => []WakeInv
<1>1. Init => WakeInv
    <2> SUFFICES ASSUME Init PROVE WakeInv
        BY Zenon
    <2>1. \A l \in Locks : Waiters(pc, call, l) = {} /\ Blocked(pc, l) = {}
        BY Zenon DEF Init, Waiters, WaitStates, Blocked
    <2>2. waiting \in [Locks -> Int] /\ \A l \in Locks : waiting[l] = 0
        BY DEF Init
    <2>3. WaitingExact
        BY <2>1, <2>2, FS_EmptySet, Zenon DEF WaitingExact
    <2> QED
        BY <2>1, <2>3, Zenon DEF WakeInv, NoLostWakeup
<1>2. LockInv /\ WakeInv /\ [Next]_vars => WakeInv'
    <2> SUFFICES ASSUME LockInv, WakeInv, [Next]_vars PROVE WakeInv'
        BY Zenon
    <2>1. CASE UNCHANGED vars
        BY <2>1, Zenon DEF vars, WakeInv, WaitingExact, NoLostWakeup, Blocked
    <2>2. CASE Next
        BY <2>2, GrabWake, CheckWake, AwakeWake, EndWaitWake, TryGrabWake, ReleaseWake, OtherWake, Zenon
        DEF Next
    <2> QED
        BY <2>1, <2>2, Zenon
<1> QED
    BY LockInvariance, <1>1, <1>2, PTL DEF Spec

(* No wakeup is lost: whatever timeouts, newcomers and Conditions come      *)
(* between, a free lock that threads sleep for has a thread on the way.     *)
THEOREM LocksNoLostWakeup == Spec => []NoLostWakeup
<1>1. WakeInv => NoLostWakeup
    BY Zenon DEF WakeInv
<1> QED
    BY WakeInvariance, <1>1, PTL

===========================================================================
