---------------------------- MODULE RWLockProofs ----------------------------
(***************************************************************************)
(* Proofs about the read-write lock, for any sets of threads, locks and     *)
(* Conditions and any bound on the recursion of the read lock.              *)
(***************************************************************************)
EXTENDS RWLock, FiniteSetTheorems, TLAPS

---------------------------------------------------------------------------
(* The inductive invariant: who holds what, ... *)

LockTypes ==
    /\ tid \in [Locks -> Threads \cup {Lock_Unlocked, Lock_Deleted}]
    /\ num_readers \in [Locks -> Nat]
    /\ tmap \in [Locks -> [Threads -> 0 .. MaxReads]]
    /\ vmap \in [Locks -> SUBSET Threads]
    /\ held \in [Threads -> [Locks -> Nat]]
    /\ resources \in [Threads -> SUBSET Locks]

(* Only a lock without a writer that was not deleted has readers. *)
Alone == \A l \in Locks : tid[l] # Lock_Unlocked => num_readers[l] = 0

Own == LockTypes /\ ReadersExact /\ ResourcesExact /\ Alone

(* ... where the threads are: one that waits for a read lock, or will take  *)
(* it back after a Condition, has none at the moment; ...                   *)

Calls == [lock : Locks \cup {Null}, mode : Modes, reads : 0 .. MaxReads,
          timed : BOOLEAN, cond : Conds \cup {Null}, left : SUBSET Threads]

Engaged == {"loop", "check", "blocked", "woken", "timedout", "cond", "condwoken"}

Places ==
    /\ pc \in [Threads -> PCs]
    /\ call \in [Threads -> Calls]
    /\ waiting_on \in [Threads -> Locks \cup {Null}]
    /\ \A t \in Threads :
          /\ pc[t] \in Engaged => call[t].lock \in Locks
          /\ pc[t] \in CondStates => call[t].cond \in Conds

NoReads ==
    \A t \in Threads :
        pc[t] \in Engaged /\ call[t].mode = "read"
            => tmap[call[t].lock][t] = 0 /\ call[t].reads > 0

(* ... what they publish, and who has the asl_lock; ... *)

Published ==
    \A t \in Threads : waiting_on[t] = IF pc[t] \in WaitStates THEN call[t].lock ELSE Null

Exclusive ==
    \A t, u \in Threads :
        pc[t] \in {"loop", "check"} /\ pc[u] \in {"loop", "check"} /\ call[t].lock = call[u].lock
            => t = u

(* ... why they wait: a reader for a writer, a writer for anybody; ... *)

HeldInCheck ==
    \A t \in Threads :
        pc[t] = "check" =>
            \/ tid[call[t].lock] \in Threads
            \/ (call[t].mode = "write" /\ num_readers[call[t].lock] > 0)

SleepingReaders ==
    \A t \in Threads :
        pc[t] = "blocked" /\ call[t].mode = "read" => tid[call[t].lock] \in Threads

(* ... and that of two threads that passed the test of each other, awake or *)
(* not, one holds no lock that the other waits for.                         *)

Past == {"blocked", "woken", "timedout"}

Cleared(t, u) == pc[t] \in Past \/ (pc[t] = "check" /\ u \notin call[t].left)

NoPair ==
    \A t, u \in Threads :
        ~(/\ Cleared(t, u) /\ Cleared(u, t)
          /\ Holds(u, call[t].lock) /\ Holds(t, call[u].lock))

WaitInv ==
    /\ Places /\ NoReads /\ Published /\ Exclusive
    /\ HeldInCheck /\ SleepingReaders /\ NoPair

(* The counters, by which signalImpl() and the destructor choose. *)

Waiters(p, c, l, m)     == {u \in Threads : p[u] \in WaitStates /\ c[u].lock = l /\ c[u].mode = m}
CondWaiters(p, c, l, d) == {u \in Threads : p[u] \in CondStates /\ c[u].lock = l /\ c[u].cond = d}

Counts ==
    /\ waiting \in [Locks -> Nat] /\ readRequests \in [Locks -> Nat]
    /\ \A l \in Locks : /\ waiting[l] = Cardinality(Waiters(pc, call, l, "write"))
                        /\ readRequests[l] = Cardinality(Waiters(pc, call, l, "read"))

CondCounts ==
    /\ cmap \in [Locks -> [Conds -> Nat]]
    /\ \A l \in Locks, d \in Conds : cmap[l][d] = Cardinality(CondWaiters(pc, call, l, d))

RWInv == Own /\ WaitInv /\ Counts /\ CondCounts

---------------------------------------------------------------------------
(* The read locks of all threads are a set of pairs, so that what a thread  *)
(* adds to their number or takes from it is a difference of sets.           *)

Pairs(f)     == {d \in Threads \X (1 .. MaxReads) : d[2] <= f[d[1]]}
Others(f, t) == {d \in Threads \X (1 .. MaxReads) : d[1] # t /\ d[2] <= f[d[1]]}

LEMMA PairsFinite ==
    \A f, t : IsFiniteSet(Others(f, t)) /\ Cardinality(Others(f, t)) \in Nat
<1>1. IsFiniteSet(1 .. MaxReads)
    <2>1. 1 \in Int /\ MaxReads \in Int
        BY SortsAssumption
    <2> QED
        BY <2>1, FS_Interval, Zenon
<1>2. IsFiniteSet(Threads \X (1 .. MaxReads))
    BY <1>1, SortsAssumption, FS_Product, Zenon
<1>3. ASSUME NEW f, NEW t PROVE IsFiniteSet(Others(f, t)) /\ Cardinality(Others(f, t)) \in Nat
    <2>1. Others(f, t) \subseteq Threads \X (1 .. MaxReads)
        BY Zenon DEF Others
    <2> QED
        BY <1>2, <2>1, FS_Subset, FS_CardinalityType, Zenon
<1> QED
    BY <1>3, Zenon

(* The share of one thread. *)
LEMMA Share ==
    ASSUME NEW f \in [Threads -> 0 .. MaxReads], NEW t \in Threads
    PROVE  Cardinality(Pairs(f)) = Cardinality(Others(f, t)) + f[t]
<1> DEFINE A == Others(f, t)
           B == {t} \X (1 .. f[t])
<1>1. f[t] \in Nat /\ f[t] <= MaxReads /\ MaxReads \in Nat
    BY SortsAssumption
<1>2. IsFiniteSet(1 .. f[t]) /\ Cardinality(1 .. f[t]) = f[t]
    <2>1. 1 \in Int /\ f[t] \in Int
        BY <1>1
    <2>2. /\ IsFiniteSet(1 .. f[t])
          /\ Cardinality(1 .. f[t]) = IF 1 > f[t] THEN 0 ELSE f[t] - 1 + 1
        BY <2>1, FS_Interval, Zenon
    <2> QED
        BY <1>1, <2>2
<1>3. IsFiniteSet(B) /\ Cardinality(B) = f[t]
    <2>1. IsFiniteSet({t}) /\ Cardinality({t}) = 1
        BY FS_Singleton, Zenon
    <2>2. IsFiniteSet(B) /\ Cardinality(B) = Cardinality({t}) * Cardinality(1 .. f[t])
        BY <1>2, <2>1, FS_Product, Zenon
    <2> QED
        BY <1>1, <1>2, <2>1, <2>2
<1>4. Pairs(f) = A \cup B
    BY <1>1 DEF Pairs, Others
<1>5. A \cap B = {}
    BY DEF Others
<1>6. IsFiniteSet(A) /\ Cardinality(A) \in Nat
    BY PairsFinite, Zenon
<1> HIDE DEF A, B
<1>7. Cardinality(A \cup B) = Cardinality(A) + Cardinality(B) - Cardinality(A \cap B)
    BY <1>3, <1>6, FS_Union, Zenon
<1>8. Cardinality(A \cap B) = 0
    BY <1>5, FS_EmptySet, Zenon
<1> QED
    BY <1>1, <1>3, <1>4, <1>6, <1>7, <1>8 DEF A

(* One thread has n read locks instead. *)
LEMMA ShareStep ==
    ASSUME NEW f \in [Threads -> 0 .. MaxReads], NEW t \in Threads, NEW n \in 0 .. MaxReads
    PROVE  Cardinality(Pairs([f EXCEPT ![t] = n])) = Cardinality(Pairs(f)) - f[t] + n
<1> DEFINE g == [f EXCEPT ![t] = n]
<1>1. g \in [Threads -> 0 .. MaxReads] /\ g[t] = n
    BY Zenon
<1>2. Others(g, t) = Others(f, t)
    BY Zenon DEF Others
<1> HIDE DEF g
<1>3. /\ Cardinality(Pairs(g)) = Cardinality(Others(g, t)) + g[t]
      /\ Cardinality(Pairs(f)) = Cardinality(Others(f, t)) + f[t]
    BY <1>1, Share, Zenon
<1>4. Cardinality(Others(f, t)) \in Nat /\ f[t] \in Int /\ n \in Int
    BY PairsFinite, SortsAssumption
<1> QED
    BY <1>1, <1>2, <1>3, <1>4 DEF g

(* Nobody has any. *)
LEMMA NoPairs ==
    ASSUME NEW f, f = [u \in Threads |-> 0]
    PROVE  Cardinality(Pairs(f)) = 0
<1>1. Pairs(f) = {}
    BY SortsAssumption DEF Pairs
<1> QED
    BY <1>1, FS_EmptySet, Zenon

---------------------------------------------------------------------------
(* Ownership *)

(* What the number of readers says of each thread. *)
LEMMA Readers ==
    ASSUME Own, NEW l \in Locks
    PROVE  /\ num_readers[l] = Cardinality(Pairs(tmap[l]))
           /\ \A t \in Threads : /\ tmap[l][t] \in 0 .. MaxReads /\ tmap[l][t] <= num_readers[l]
                                 /\ t \in vmap[l] <=> tmap[l][t] > 0
           /\ num_readers[l] = 0 => vmap[l] = {}
<1>1. tmap[l] \in [Threads -> 0 .. MaxReads] /\ num_readers[l] \in Nat
    BY Zenon DEF Own, LockTypes
<1>2. ReadLocks(l) = Pairs(tmap[l])
    BY Zenon DEF ReadLocks, Pairs
<1>3. num_readers[l] = Cardinality(Pairs(tmap[l])) /\ vmap[l] = {t \in Threads : tmap[l][t] > 0}
    BY <1>2, Zenon DEF Own, ReadersExact
<1>4. ASSUME NEW t \in Threads PROVE tmap[l][t] \in 0 .. MaxReads /\ tmap[l][t] <= num_readers[l]
    <2>1. Cardinality(Pairs(tmap[l])) = Cardinality(Others(tmap[l], t)) + tmap[l][t]
        BY <1>1, Share, Zenon
    <2>2. Cardinality(Others(tmap[l], t)) \in Nat
        BY PairsFinite, Zenon
    <2>3. tmap[l][t] \in 0 .. MaxReads
        BY <1>1, Zenon
    <2> QED
        BY <1>1, <1>3, <2>1, <2>2, <2>3, SortsAssumption
<1>5. num_readers[l] = 0 => vmap[l] = {}
    <2> SUFFICES ASSUME num_readers[l] = 0, NEW t \in vmap[l] PROVE FALSE
        BY Zenon
    <2>1. t \in Threads /\ tmap[l][t] > 0
        BY <1>3, Zenon
    <2> QED
        BY <1>4, <2>1, SortsAssumption
<1> QED
    BY <1>3, <1>4, <1>5, Zenon

(* The locks other than l stay as they are. *)
Elsewhere(l) ==
    \A k \in Locks \ {l} :
        /\ tid'[k] = tid[k] /\ num_readers'[k] = num_readers[k]
        /\ tmap'[k] = tmap[k] /\ vmap'[k] = vmap[k]
        /\ \A u \in Threads : /\ held'[u][k] = held[u][k]
                              /\ k \in resources'[u] <=> k \in resources[u]

(* Thread t changes lock l only, and of l the others can only lose what they have. *)
Change(t, l) ==
    /\ Elsewhere(l)
    /\ \A u \in Threads \ {t} : tmap'[l][u] \in {tmap[l][u], 0} /\ (Holds(u, l)' => Holds(u, l))

(* What has to be shown when only lock l changes hands. *)
LEMMA OneLock ==
    ASSUME Own, LockTypes', NEW l \in Locks, Elsewhere(l),
           num_readers'[l] = Cardinality(Pairs(tmap'[l])),
           tid'[l] # Lock_Unlocked => num_readers'[l] = 0,
           \A u \in Threads :
               /\ u \in vmap'[l] <=> tmap'[l][u] > 0
               /\ held'[u][l] = IF Holds(u, l)' THEN 1 ELSE 0
               /\ Holds(u, l)' => l \in resources'[u]
               /\ l \in resources'[u] => Holds(u, l)' \/ tid'[l] = Lock_Deleted
    PROVE  Own'
<1>0. ASSUME NEW k \in Locks, k # l
      PROVE  /\ tid'[k] = tid[k] /\ num_readers'[k] = num_readers[k]
             /\ tmap'[k] = tmap[k] /\ vmap'[k] = vmap[k]
             /\ ReadLocks(k)' = ReadLocks(k)
             /\ \A u \in Threads : /\ held'[u][k] = held[u][k] /\ (Holds(u, k)' <=> Holds(u, k))
                                   /\ k \in resources'[u] <=> k \in resources[u]
    BY <1>0, Zenon DEF Elsewhere, ReadLocks, Holds
<1>1. ReadersExact'
    <2> SUFFICES ASSUME NEW k \in Locks
                 PROVE  /\ num_readers'[k] = Cardinality(ReadLocks(k)')
                        /\ vmap'[k] = {u \in Threads : tmap'[k][u] > 0}
                        /\ \A u \in Threads : held'[u][k] = IF Holds(u, k)' THEN 1 ELSE 0
        BY Zenon DEF ReadersExact
    <2>1. CASE k = l
        <3>1. vmap'[l] \subseteq Threads
            BY Zenon DEF LockTypes
        <3>2. vmap'[l] = {u \in Threads : tmap'[l][u] > 0}
            BY <3>1, Zenon
        <3>3. ReadLocks(l)' = Pairs(tmap'[l])
            BY Zenon DEF ReadLocks, Pairs
        <3> QED
            BY <2>1, <3>2, <3>3, Zenon
    <2>2. CASE k # l
        <3>1. /\ num_readers[k] = Cardinality(ReadLocks(k))
              /\ vmap[k] = {u \in Threads : tmap[k][u] > 0}
              /\ \A u \in Threads : held[u][k] = IF Holds(u, k) THEN 1 ELSE 0
            BY Zenon DEF Own, ReadersExact
        <3> QED
            BY <1>0, <2>2, <3>1, Zenon
    <2> QED
        BY <2>1, <2>2, Zenon
<1>2. ResourcesExact'
    <2> SUFFICES ASSUME NEW k \in Locks, NEW u \in Threads
                 PROVE  /\ Holds(u, k)' => k \in resources'[u]
                        /\ k \in resources'[u] => Holds(u, k)' \/ tid'[k] = Lock_Deleted
        BY Zenon DEF ResourcesExact
    <2>1. CASE k = l
        BY <2>1, Zenon
    <2>2. CASE k # l
        BY <1>0, <2>2, Zenon DEF Own, ResourcesExact
    <2> QED
        BY <2>1, <2>2, Zenon
<1>3. Alone'
    BY <1>0, Zenon DEF Own, Alone
<1> QED
    BY <1>1, <1>2, <1>3, Zenon DEF Own

(* Nothing changes hands. *)
LEMMA SameOwn ==
    ASSUME Own, UNCHANGED lockVars
    PROVE  Own' /\ \A t \in Threads, l \in Locks : Change(t, l)
<1>1. /\ tid' = tid /\ num_readers' = num_readers /\ tmap' = tmap /\ vmap' = vmap
      /\ held' = held /\ resources' = resources
    BY Zenon DEF lockVars
<1>2. LockTypes' /\ Alone'
    BY <1>1, Zenon DEF Own, LockTypes, Alone
<1>3. \A t, l : Holds(t, l)' <=> Holds(t, l)
    BY <1>1, Zenon DEF Holds
<1>4. \A l : ReadLocks(l)' = ReadLocks(l)
    BY <1>1, Zenon DEF ReadLocks
<1>5. ReadersExact'
    BY <1>1, <1>3, <1>4, Zenon DEF Own, ReadersExact
<1>6. ResourcesExact'
    BY <1>1, <1>3, Zenon DEF Own, ResourcesExact
<1>7. \A t \in Threads, l \in Locks : Change(t, l)
    BY <1>1, <1>3, Zenon DEF Change, Elsewhere
<1> QED
    BY <1>2, <1>5, <1>6, <1>7, Zenon DEF Own

(* grab_intern(): a free lock gets a writer. *)
LEMMA GrabOwn ==
    ASSUME Own, NEW t \in Threads, NEW l \in Locks,
           tid[l] = Lock_Unlocked, num_readers[l] = 0, GrabIntern(t, l)
    PROVE  Own' /\ Change(t, l)
<1>1. LockTypes'
    BY DEF Own, LockTypes, GrabIntern
<1>2. \A u \in Threads : ~Holds(u, l) /\ held[u][l] = 0 /\ l \notin resources[u]
    <2>1. \A u \in Threads : ~Holds(u, l) /\ tid[l] # Lock_Deleted
        BY Readers, SortsAssumption DEF Holds, Lock_Unlocked, Lock_Deleted
    <2> QED
        BY <2>1, Zenon DEF Own, ReadersExact, ResourcesExact
<1>3. tid'[l] = t /\ \A u \in Threads : Holds(u, l)' <=> u = t
    <2>1. tid'[l] = t /\ vmap' = vmap
        BY Zenon DEF GrabIntern, Own, LockTypes
    <2> QED
        BY <1>2, <2>1, Zenon DEF Holds
<1>4. \A u \in Threads : /\ held'[u][l] = IF u = t THEN 1 ELSE 0
                         /\ l \in resources'[u] <=> u = t
    BY <1>2 DEF GrabIntern, Own, LockTypes
<1>5. Elsewhere(l)
    BY DEF Elsewhere, GrabIntern, Own, LockTypes
<1>6. /\ num_readers'[l] = Cardinality(Pairs(tmap'[l])) /\ num_readers'[l] = 0
      /\ \A u \in Threads : u \in vmap'[l] <=> tmap'[l][u] > 0
    BY Readers, Zenon DEF GrabIntern
<1>7. Own'
    BY <1>1, <1>3, <1>4, <1>5, <1>6, OneLock, Zenon
<1>8. Change(t, l)
    BY <1>3, <1>5, Zenon DEF Change, GrabIntern
<1> QED
    BY <1>7, <1>8, Zenon

(* release_intern(): the writer gives the lock up. *)
LEMMA ReleaseOwn ==
    ASSUME Own, NEW t \in Threads, NEW l \in Locks, tid[l] = t, NEW p, ReleaseIntern(t, l, p)
    PROVE  Own' /\ Change(t, l) /\ tid'[l] = Lock_Unlocked /\ num_readers'[l] = 0
<1>0. t # Lock_Unlocked /\ t # Lock_Deleted /\ num_readers[l] = 0
    BY SortsAssumption, Zenon DEF Own, Alone
<1>2. \A u \in Threads : /\ Holds(u, l) <=> u = t
                         /\ held[u][l] = (IF u = t THEN 1 ELSE 0)
                         /\ l \in resources[u] <=> u = t
    <2>1. \A u \in Threads : Holds(u, l) <=> u = t
        BY <1>0, Readers, Zenon DEF Holds
    <2> QED
        BY <1>0, <2>1, Zenon DEF Own, ReadersExact, ResourcesExact
<1>1. LockTypes'
    BY <1>2 DEF Own, LockTypes, ReleaseIntern
<1>3. tid'[l] = Lock_Unlocked /\ \A u \in Threads : ~Holds(u, l)'
    <2>1. tid'[l] = Lock_Unlocked /\ vmap'[l] = {}
        BY <1>0, Readers, Zenon DEF ReleaseIntern, Own, LockTypes
    <2> QED
        BY <2>1, SortsAssumption, Zenon DEF Holds
<1>4. \A u \in Threads : held'[u][l] = 0 /\ l \notin resources'[u]
    BY <1>2 DEF ReleaseIntern, Own, LockTypes
<1>5. Elsewhere(l)
    BY DEF Elsewhere, ReleaseIntern, Own, LockTypes
<1>6. /\ num_readers'[l] = Cardinality(Pairs(tmap'[l])) /\ num_readers'[l] = 0
      /\ \A u \in Threads : u \in vmap'[l] <=> tmap'[l][u] > 0
    BY <1>0, Readers, Zenon DEF ReleaseIntern
<1>7. Own'
    BY <1>1, <1>3, <1>4, <1>5, <1>6, OneLock, Zenon
<1>8. Change(t, l)
    BY <1>3, <1>5, Zenon DEF Change, ReleaseIntern
<1> QED
    BY <1>3, <1>6, <1>7, <1>8, Zenon

(* n calls of mark_read_lock_intern(). *)
LEMMA MarkOwn ==
    ASSUME Own, NEW t \in Threads, NEW l \in Locks, NEW n \in 1 .. MaxReads,
           tid[l] = Lock_Unlocked, tmap[l][t] + n <= MaxReads, MarkReadLockIntern(t, l, n)
    PROVE  Own' /\ Change(t, l) /\ num_readers'[l] > 0 /\ tmap'[l][t] = tmap[l][t] + n
<1> DEFINE m == tmap[l][t] + n
<1>0. m \in 0 .. MaxReads /\ m > 0 /\ tmap[l][t] \in 0 .. MaxReads /\ num_readers[l] \in Nat
    <2>1. tmap[l][t] \in 0 .. MaxReads /\ num_readers[l] \in Nat
        BY Zenon DEF Own, LockTypes
    <2> QED
        BY <2>1, SortsAssumption
<1>1. tmap' = [tmap EXCEPT ![l] = [tmap[l] EXCEPT ![t] = m]]
    BY Zenon DEF MarkReadLockIntern, Own, LockTypes
<1>2. tmap' \in [Locks -> [Threads -> 0 .. MaxReads]]
    BY <1>0, <1>1, Zenon DEF Own, LockTypes
<1>3. /\ tmap'[l] = [tmap[l] EXCEPT ![t] = m] /\ tmap'[l][t] = m
      /\ \A u \in Threads \ {t} : tmap'[l][u] = tmap[l][u]
    BY <1>1, Zenon DEF Own, LockTypes
<1>4. num_readers'[l] = Cardinality(Pairs(tmap'[l])) /\ num_readers' \in [Locks -> Nat]
    <2>1. Cardinality(Pairs(tmap'[l])) = Cardinality(Pairs(tmap[l])) - tmap[l][t] + m
        <3>1. tmap[l] \in [Threads -> 0 .. MaxReads]
            BY Zenon DEF Own, LockTypes
        <3>2. \A f \in [Threads -> 0 .. MaxReads], i \in 0 .. MaxReads :
                 Cardinality(Pairs([f EXCEPT ![t] = i])) = Cardinality(Pairs(f)) - f[t] + i
            BY ShareStep, Zenon
        <3> HIDE DEF m
        <3> QED
            BY <1>0, <1>3, <3>1, <3>2, Zenon
    <2>2. num_readers[l] = Cardinality(Pairs(tmap[l]))
        BY Readers, Zenon
    <2>3. num_readers'[l] = num_readers[l] + n
        BY Zenon DEF MarkReadLockIntern, Own, LockTypes
    <2>4. num_readers' \in [Locks -> Nat]
        BY SortsAssumption DEF MarkReadLockIntern, Own, LockTypes
    <2> QED
        BY <1>0, <2>1, <2>2, <2>3, <2>4, SortsAssumption
<1>5. \A u \in Threads : /\ Holds(u, l) <=> tmap[l][u] > 0
                         /\ held[u][l] = (IF Holds(u, l) THEN 1 ELSE 0)
                         /\ l \in resources[u] <=> Holds(u, l)
    <2>1. \A u \in Threads : Holds(u, l) <=> tmap[l][u] > 0
        BY Readers, SortsAssumption, Zenon DEF Holds
    <2>2. tid[l] # Lock_Deleted
        BY DEF Lock_Unlocked, Lock_Deleted
    <2> QED
        BY <2>1, <2>2, Zenon DEF Own, ReadersExact, ResourcesExact
<1>6. tid'[l] = Lock_Unlocked
    BY Zenon DEF MarkReadLockIntern
<1>7. /\ vmap' \in [Locks -> SUBSET Threads]
      /\ \A u \in Threads : u \in vmap'[l] <=> u = t \/ tmap[l][u] > 0
    <2>1. CASE tmap[l][t] = 0
        <3>1. vmap' = [vmap EXCEPT ![l] = vmap[l] \cup {t}] /\ vmap \in [Locks -> SUBSET Threads]
            BY <2>1, Zenon DEF MarkReadLockIntern, Own, LockTypes
        <3>2. vmap' \in [Locks -> SUBSET Threads] /\ vmap'[l] = vmap[l] \cup {t}
            BY <3>1
        <3> QED
            BY <3>2, Readers, Zenon
    <2>2. CASE tmap[l][t] # 0
        <3>1. tmap[l][t] > 0
            BY <1>0, <2>2, SortsAssumption
        <3> QED
            BY <2>2, <3>1, Readers, Zenon DEF MarkReadLockIntern, Own, LockTypes
    <2> QED
        BY <2>1, <2>2, Zenon
<1>8. \A u \in Threads : /\ u \in vmap'[l] <=> tmap'[l][u] > 0
                         /\ Holds(u, l)' <=> u = t \/ tmap[l][u] > 0
    <2>1. \A u \in Threads : Holds(u, l)' <=> u \in vmap'[l]
        BY <1>6, SortsAssumption, Zenon DEF Holds
    <2> HIDE DEF m
    <2>2. ASSUME NEW u \in Threads PROVE u \in vmap'[l] <=> tmap'[l][u] > 0
        BY <1>0, <1>3, <1>7, Zenon
    <2> QED
        BY <1>7, <2>1, <2>2, Zenon
<1>9. /\ held' \in [Threads -> [Locks -> Nat]] /\ resources' \in [Threads -> SUBSET Locks]
      /\ \A u \in Threads : /\ held'[u][l] = (IF u = t \/ tmap[l][u] > 0 THEN 1 ELSE 0)
                            /\ l \in resources'[u] <=> u = t \/ tmap[l][u] > 0
    <2>1. CASE tmap[l][t] = 0
        <3>1. /\ held' = [held EXCEPT ![t][l] = @ + 1]
              /\ resources' = [resources EXCEPT ![t] = @ \cup {l}]
            BY <2>1, Zenon DEF MarkReadLockIntern
        <3>2. held[t][l] = 0
            BY <1>5, <2>1
        <3> QED
            BY <1>5, <3>1, <3>2 DEF Own, LockTypes
    <2>2. CASE tmap[l][t] # 0
        <3>1. held' = held /\ resources' = resources /\ tmap[l][t] > 0
            BY <1>0, <2>2, SortsAssumption DEF MarkReadLockIntern
        <3> QED
            BY <1>5, <3>1, Zenon DEF Own, LockTypes
    <2> QED
        BY <2>1, <2>2, Zenon
<1>10. LockTypes'
    BY <1>2, <1>4, <1>7, <1>9, Zenon DEF Own, LockTypes, MarkReadLockIntern
<1>11. Elsewhere(l)
    <2>1. \A k \in Locks \ {l} : /\ tid'[k] = tid[k] /\ num_readers'[k] = num_readers[k]
                                 /\ tmap'[k] = tmap[k]
        BY <1>1, Zenon DEF MarkReadLockIntern, Own, LockTypes
    <2>2. \A k \in Locks \ {l} : vmap'[k] = vmap[k]
        BY Zenon DEF MarkReadLockIntern, Own, LockTypes
    <2>3. \A k \in Locks \ {l}, u \in Threads : held'[u][k] = held[u][k]
        BY DEF MarkReadLockIntern, Own, LockTypes
    <2>4. \A k \in Locks \ {l}, u \in Threads : k \in resources'[u] <=> k \in resources[u]
        BY DEF MarkReadLockIntern, Own, LockTypes
    <2> QED
        BY <2>1, <2>2, <2>3, <2>4, Zenon DEF Elsewhere
<1>12. Own'
    BY <1>4, <1>6, <1>8, <1>9, <1>10, <1>11, OneLock, Zenon
<1>13. Change(t, l)
    BY <1>3, <1>5, <1>8, <1>11, Zenon DEF Change
<1>14. num_readers'[l] > 0
    <2>1. num_readers'[l] = num_readers[l] + n
        BY Zenon DEF MarkReadLockIntern, Own, LockTypes
    <2> QED
        BY <1>0, <2>1, SortsAssumption
<1> QED
    BY <1>3, <1>12, <1>13, <1>14, Zenon

(* n calls of release_read_lock_intern(). *)
LEMMA ReleaseReadOwn ==
    ASSUME Own, NEW t \in Threads, NEW l \in Locks, NEW n \in 1 .. MaxReads, n <= tmap[l][t],
           NEW p, ReleaseReadLockIntern(t, l, n, p)
    PROVE  /\ Own' /\ Change(t, l) /\ tmap'[l][t] = tmap[l][t] - n
           /\ tid[l] = Lock_Unlocked /\ tid'[l] = Lock_Unlocked
           /\ num_readers[l] >= n /\ num_readers'[l] = num_readers[l] - n
<1> DEFINE m == tmap[l][t] - n
<1>0. /\ tmap[l][t] \in 0 .. MaxReads /\ tmap[l][t] > 0 /\ m \in 0 .. MaxReads
      /\ (m > 0 <=> tmap[l][t] # n)
      /\ num_readers[l] \in Nat /\ tmap[l][t] <= num_readers[l] /\ num_readers[l] >= n
    <2>1. tmap[l][t] \in 0 .. MaxReads /\ num_readers[l] \in Nat
        BY Zenon DEF Own, LockTypes
    <2>2. tmap[l][t] <= num_readers[l]
        BY Readers, Zenon
    <2> QED
        BY <2>1, <2>2, SortsAssumption
<1>1. tmap' = [tmap EXCEPT ![l] = [tmap[l] EXCEPT ![t] = m]]
    BY Zenon DEF ReleaseReadLockIntern, Own, LockTypes
<1>2. tmap' \in [Locks -> [Threads -> 0 .. MaxReads]]
    BY <1>0, <1>1, Zenon DEF Own, LockTypes
<1>3. /\ tmap'[l] = [tmap[l] EXCEPT ![t] = m] /\ tmap'[l][t] = m
      /\ \A u \in Threads \ {t} : tmap'[l][u] = tmap[l][u]
    BY <1>1, Zenon DEF Own, LockTypes
<1>4. /\ num_readers'[l] = Cardinality(Pairs(tmap'[l])) /\ num_readers' \in [Locks -> Nat]
      /\ num_readers'[l] = num_readers[l] - n
    <2>1. Cardinality(Pairs(tmap'[l])) = Cardinality(Pairs(tmap[l])) - tmap[l][t] + m
        <3>1. tmap[l] \in [Threads -> 0 .. MaxReads]
            BY Zenon DEF Own, LockTypes
        <3>2. \A f \in [Threads -> 0 .. MaxReads], i \in 0 .. MaxReads :
                 Cardinality(Pairs([f EXCEPT ![t] = i])) = Cardinality(Pairs(f)) - f[t] + i
            BY ShareStep, Zenon
        <3> HIDE DEF m
        <3> QED
            BY <1>0, <1>3, <3>1, <3>2, Zenon
    <2>2. num_readers[l] = Cardinality(Pairs(tmap[l]))
        BY Readers, Zenon
    <2>3. num_readers'[l] = num_readers[l] - n
        BY Zenon DEF ReleaseReadLockIntern, Own, LockTypes
    <2>4. num_readers' \in [Locks -> Nat]
        BY <1>0, SortsAssumption DEF ReleaseReadLockIntern, Own, LockTypes
    <2> QED
        BY <1>0, <2>1, <2>2, <2>3, <2>4, SortsAssumption
<1>5. tid[l] = Lock_Unlocked /\ tid' = tid
    <2>1. num_readers[l] # 0
        BY <1>0
    <2> QED
        BY <2>1, Zenon DEF Own, Alone, ReleaseReadLockIntern
<1>6. \A u \in Threads : /\ Holds(u, l) <=> tmap[l][u] > 0
                         /\ held[u][l] = (IF Holds(u, l) THEN 1 ELSE 0)
                         /\ l \in resources[u] <=> Holds(u, l)
    <2>1. \A u \in Threads : Holds(u, l) <=> tmap[l][u] > 0
        BY <1>5, Readers, SortsAssumption, Zenon DEF Holds
    <2>2. tid[l] # Lock_Deleted
        BY <1>5 DEF Lock_Unlocked, Lock_Deleted
    <2> QED
        BY <2>1, <2>2, Zenon DEF Own, ReadersExact, ResourcesExact
<1>7. /\ vmap' \in [Locks -> SUBSET Threads]
      /\ \A u \in Threads : u \in vmap'[l] <=> tmap'[l][u] > 0
    <2>1. CASE tmap[l][t] = n
        <3>1. vmap' = [vmap EXCEPT ![l] = vmap[l] \ {t}] /\ vmap \in [Locks -> SUBSET Threads]
            BY <2>1, Zenon DEF ReleaseReadLockIntern, Own, LockTypes
        <3>2. vmap' \in [Locks -> SUBSET Threads] /\ vmap'[l] = vmap[l] \ {t}
            BY <3>1
        <3>3. ~(m > 0)
            BY <1>0, <2>1, Zenon
        <3> HIDE DEF m
        <3> QED
            BY <1>3, <3>2, <3>3, Readers, Zenon
    <2>2. CASE tmap[l][t] # n
        <3>1. m > 0 /\ vmap' = vmap /\ vmap \in [Locks -> SUBSET Threads]
            BY <1>0, <2>2, Zenon DEF ReleaseReadLockIntern, Own, LockTypes
        <3> HIDE DEF m
        <3> QED
            BY <1>0, <1>3, <3>1, Readers, Zenon
    <2> QED
        BY <2>1, <2>2, Zenon
<1>8. \A u \in Threads : Holds(u, l)' <=> tmap'[l][u] > 0
    BY <1>5, <1>7, SortsAssumption, Zenon DEF Holds
<1>9. /\ held' \in [Threads -> [Locks -> Nat]] /\ resources' \in [Threads -> SUBSET Locks]
      /\ \A u \in Threads : /\ held'[u][l] = (IF tmap'[l][u] > 0 THEN 1 ELSE 0)
                            /\ l \in resources'[u] <=> tmap'[l][u] > 0
    <2>1. CASE tmap[l][t] = n
        <3>1. /\ held' = [held EXCEPT ![t][l] = @ - 1]
              /\ resources' = [resources EXCEPT ![t] = @ \ {l}]
            BY <2>1, Zenon DEF ReleaseReadLockIntern
        <3>2. held[t][l] = 1 /\ ~(m > 0)
            BY <1>0, <1>6, <2>1, Zenon
        <3> HIDE DEF m
        <3>3. ~(tmap'[l][t] > 0)
            BY <1>3, <3>2, Zenon
        <3>4. \A u \in Threads \ {t} : tmap'[l][u] = tmap[l][u]
            BY <1>3, Zenon
        <3>5. held' \in [Threads -> [Locks -> Nat]] /\ resources' \in [Threads -> SUBSET Locks]
            BY <3>1, <3>2 DEF Own, LockTypes
        <3>6. held'[t][l] = 0 /\ l \notin resources'[t]
            BY <3>1, <3>2 DEF Own, LockTypes
        <3>7. \A u \in Threads \ {t} : held'[u] = held[u] /\ resources'[u] = resources[u]
            BY <3>1, Zenon DEF Own, LockTypes
        <3> QED
            BY <1>6, <3>3, <3>4, <3>5, <3>6, <3>7, Zenon
    <2>2. CASE tmap[l][t] # n
        <3>1. held' = held /\ resources' = resources /\ m > 0
            BY <1>0, <2>2, Zenon DEF ReleaseReadLockIntern
        <3> HIDE DEF m
        <3> QED
            BY <1>0, <1>3, <1>6, <3>1, Zenon DEF Own, LockTypes
    <2> QED
        BY <2>1, <2>2, Zenon
<1>10. LockTypes'
    BY <1>2, <1>4, <1>5, <1>7, <1>9, Zenon DEF Own, LockTypes
<1>11. Elsewhere(l)
    <2>1. \A k \in Locks \ {l} : /\ tid'[k] = tid[k] /\ num_readers'[k] = num_readers[k]
                                 /\ tmap'[k] = tmap[k]
        BY <1>1, Zenon DEF ReleaseReadLockIntern, Own, LockTypes
    <2>2. \A k \in Locks \ {l} : vmap'[k] = vmap[k]
        BY Zenon DEF ReleaseReadLockIntern, Own, LockTypes
    <2>3. \A k \in Locks \ {l}, u \in Threads : held'[u][k] = held[u][k]
        <3>1. held' = held \/ held' = [held EXCEPT ![t][l] = @ - 1]
            BY Zenon DEF ReleaseReadLockIntern
        <3>2. held \in [Threads -> [Locks -> Nat]]
            BY Zenon DEF Own, LockTypes
        <3> QED
            BY <3>1, <3>2
    <2>4. \A k \in Locks \ {l}, u \in Threads : k \in resources'[u] <=> k \in resources[u]
        BY DEF ReleaseReadLockIntern, Own, LockTypes
    <2> QED
        BY <2>1, <2>2, <2>3, <2>4, Zenon DEF Elsewhere
<1>12. Own'
    BY <1>4, <1>5, <1>7, <1>8, <1>9, <1>10, <1>11, OneLock, Zenon
<1>13. Change(t, l)
    BY <1>3, <1>6, <1>8, <1>11, Zenon DEF Change
<1> QED
    BY <1>0, <1>3, <1>4, <1>5, <1>12, <1>13, Zenon

(* The lock is deleted, whoever holds it. *)
LEMMA DestructorOwn ==
    ASSUME Own, NEW t \in Threads, NEW l \in Locks, Destructor(t, l)
    PROVE  Own' /\ Change(t, l) /\ tid'[l] = Lock_Deleted
<1>1. held' = [u \in Threads |-> [held[u] EXCEPT ![l] = IF Holds(u, l) THEN @ - 1 ELSE @]]
    BY Zenon DEF Destructor, Holds
<1>2. \A u \in Threads : held[u][l] = (IF Holds(u, l) THEN 1 ELSE 0) /\ held[u] \in [Locks -> Nat]
    BY Zenon DEF Own, LockTypes, ReadersExact
<1>3. ASSUME NEW u \in Threads
      PROVE  /\ held'[u] \in [Locks -> Nat] /\ held'[u][l] = 0
             /\ \A k \in Locks \ {l} : held'[u][k] = held[u][k]
    <2>1. held'[u] = [held[u] EXCEPT ![l] = IF Holds(u, l) THEN held[u][l] - 1 ELSE held[u][l]]
        BY <1>1, Zenon
    <2>2. (IF Holds(u, l) THEN held[u][l] - 1 ELSE held[u][l]) = 0
        BY <1>2
    <2> QED
        BY <1>2, <2>1, <2>2
<1>4. held' \in [Threads -> [Locks -> Nat]]
    BY <1>1, <1>3, Zenon
<1>5. /\ tid' \in [Locks -> Threads \cup {Lock_Unlocked, Lock_Deleted}]
      /\ tid'[l] = Lock_Deleted /\ \A k \in Locks \ {l} : tid'[k] = tid[k]
    BY Zenon DEF Destructor, Own, LockTypes
<1>6. /\ tmap' \in [Locks -> [Threads -> 0 .. MaxReads]] /\ tmap'[l] = [u \in Threads |-> 0]
      /\ \A k \in Locks \ {l} : tmap'[k] = tmap[k]
    <2>1. [u \in Threads |-> 0] \in [Threads -> 0 .. MaxReads]
        BY SortsAssumption
    <2> QED
        BY <2>1, Zenon DEF Destructor, Own, LockTypes
<1>7. /\ num_readers' \in [Locks -> Nat] /\ num_readers'[l] = 0
      /\ vmap' \in [Locks -> SUBSET Threads] /\ vmap'[l] = {}
      /\ \A k \in Locks \ {l} : num_readers'[k] = num_readers[k] /\ vmap'[k] = vmap[k]
    BY DEF Destructor, Own, LockTypes
<1>8. /\ resources' \in [Threads -> SUBSET Locks]
      /\ \A k \in Locks \ {l}, u \in Threads : k \in resources'[u] <=> k \in resources[u]
    BY DEF Destructor, Own, LockTypes
<1>9. \A u \in Threads : ~Holds(u, l)' /\ (u \in vmap'[l] <=> tmap'[l][u] > 0)
    <2>1. \A u \in Threads : ~Holds(u, l)'
        BY <1>5, <1>7, SortsAssumption, Zenon DEF Holds
    <2>2. \A u \in Threads : ~(tmap'[l][u] > 0)
        BY <1>6
    <2> QED
        BY <1>7, <2>1, <2>2, Zenon
<1>10. num_readers'[l] = Cardinality(Pairs(tmap'[l]))
    BY <1>6, <1>7, NoPairs, Zenon
<1>11. LockTypes'
    BY <1>4, <1>5, <1>6, <1>7, <1>8, Zenon DEF LockTypes
<1>12. Elsewhere(l)
    BY <1>3, <1>5, <1>6, <1>7, <1>8, Zenon DEF Elsewhere
<1>13. Own'
    BY <1>3, <1>5, <1>7, <1>9, <1>10, <1>11, <1>12, OneLock, Zenon
<1>14. Change(t, l)
    BY <1>6, <1>9, <1>12, Zenon DEF Change
<1> QED
    BY <1>5, <1>13, <1>14, Zenon

(* A pass of grabImpl() or grab_read_lock_intern(). *)
LEMMA AttemptOwn ==
    ASSUME Own, NEW t \in Threads, NEW c, c.lock \in Locks, Attempt(t, c),
           c.mode = "read" => c.reads \in 1 .. MaxReads /\ tmap[c.lock][t] + c.reads <= MaxReads
    PROVE  Own' /\ Change(t, c.lock)
<1>1. CASE UNCHANGED lockVars
    BY <1>1, SameOwn, Zenon
<1>2. CASE tid[c.lock] = Lock_Unlocked /\ num_readers[c.lock] = 0 /\ GrabIntern(t, c.lock)
    BY <1>2, GrabOwn, Zenon
<1>3. CASE c.mode = "read" /\ tid[c.lock] = Lock_Unlocked /\ MarkReadLockIntern(t, c.lock, c.reads)
    BY <1>3, MarkOwn, Zenon
<1> QED
    BY <1>1, <1>2, <1>3, Zenon DEF Attempt

(* The resources of a thread that ends are its own, or deleted. *)
LEMMA CleanupCases ==
    ASSUME Own, NEW t \in Threads, NEW l \in Locks, Cleanup(t, l)
    PROVE  \/ tid[l] = t /\ ReleaseIntern(t, l, pc)
           \/ /\ tmap[l][t] \in 1 .. MaxReads
              /\ ReleaseReadLockIntern(t, l, tmap[l][t], pc)
           \/ Own' /\ Change(t, l) /\ UNCHANGED <<tid, num_readers, tmap, vmap, held, pc>>
<1>1. l \in resources[t] /\ (Holds(t, l) \/ tid[l] = Lock_Deleted)
    BY Zenon DEF Cleanup, Own, ResourcesExact
<1>2. CASE num_readers[l] > 0 /\ ReleaseReadLockIntern(t, l, tmap[l][t], pc)
    <2>1. num_readers[l] # 0
        BY <1>2
    <2>2. tid[l] = Lock_Unlocked
        BY <2>1, Zenon DEF Own, Alone
    <2>3. tid[l] # t /\ tid[l] # Lock_Deleted
        BY <2>2, SortsAssumption DEF Lock_Unlocked, Lock_Deleted
    <2>4. tmap[l][t] > 0 /\ tmap[l][t] \in 0 .. MaxReads
        BY <1>1, <2>3, Readers, Zenon DEF Holds
    <2>5. tmap[l][t] \in 1 .. MaxReads
        BY <2>4, SortsAssumption
    <2> QED
        BY <1>2, <2>5, Zenon
<1>3. CASE num_readers[l] = 0 /\ tid[l] \in Threads /\ ReleaseIntern(t, l, pc)
    <2>1. tid[l] = t
        BY <1>1, <1>3, Readers, SortsAssumption, Zenon DEF Holds
    <2> QED
        BY <1>3, <2>1, Zenon
<1>4. CASE /\ num_readers[l] = 0 /\ tid[l] \notin Threads
           /\ resources' = [resources EXCEPT ![t] = @ \ {l}]
           /\ UNCHANGED <<tid, num_readers, tmap, vmap, held, pc>>
    <2>1. \A u \in Threads : ~Holds(u, l)
        BY <1>4, Readers, Zenon DEF Holds
    <2>2. tid[l] = Lock_Deleted
        BY <1>1, <2>1, Zenon
    <2>3. LockTypes'
        BY <1>4, Zenon DEF Own, LockTypes
    <2>4. Elsewhere(l)
        BY <1>4 DEF Elsewhere, Own, LockTypes
    <2>5. \A u \in Threads : ~Holds(u, l)' /\ held'[u][l] = 0
        BY <1>4, <2>1, Zenon DEF Own, ReadersExact, Holds
    <2>6. /\ num_readers'[l] = Cardinality(Pairs(tmap'[l])) /\ num_readers'[l] = 0
          /\ \A u \in Threads : u \in vmap'[l] <=> tmap'[l][u] > 0
        BY <1>4, Readers, Zenon
    <2>7. Own'
        BY <1>4, <2>2, <2>3, <2>4, <2>5, <2>6, OneLock, Zenon
    <2>8. Change(t, l)
        BY <1>4, <2>4, Zenon DEF Change, Holds
    <2> QED
        BY <1>4, <2>7, <2>8, Zenon
<1> QED
    BY <1>2, <1>3, <1>4, Zenon DEF Cleanup

---------------------------------------------------------------------------
(* Waiting.  A step changes the state of one thread t, may wake others and  *)
(* may change one lock l whose asl_lock t has or can take.                  *)

Outside == {"idle", "cond", "condwoken", "exiting"}

Woke(p, q, u) ==
    \/ q[u] = p[u]
    \/ p[u] = "blocked" /\ q[u] = "woken"
    \/ p[u] = "cond" /\ q[u] = "condwoken"

(* No thread but t has the asl_lock of l. *)
Mine(t, l) ==
    \A u \in Threads \ {t} : ~(pc[u] \in {"loop", "check"} /\ call[u].lock = l)

(* The other threads and the other locks stay as they are. *)
Frame(t, l) ==
    /\ Mine(t, l) /\ Change(t, l)
    /\ \A u \in Threads \ {t} :
          Woke(pc, pc', u) /\ call'[u] = call[u] /\ waiting_on'[u] = waiting_on[u]

(* What a thread outside of the wait loop keeps for later. *)
Kept(t) == pc'[t] \in Engaged /\ call'[t].mode = "read" => tmap'[call'[t].lock][t] = 0 /\ call'[t].reads > 0

(* The step ends outside of the wait loop. *)
LEMMA StepOutside ==
    ASSUME WaitInv, Places', NEW t \in Threads, NEW l \in Locks, Frame(t, l), Kept(t),
           pc'[t] \in Outside, waiting_on'[t] = Null,
           \A u \in Threads \ {t} :
               pc'[u] = "blocked" /\ call[u].lock = l /\ call[u].mode = "read" => tid'[l] \in Threads
    PROVE  WaitInv'
<1>0. ASSUME NEW u \in Threads \ {t}
      PROVE  /\ Woke(pc, pc', u) /\ call'[u] = call[u] /\ waiting_on'[u] = waiting_on[u]
             /\ pc[u] \in Engaged => call[u].lock \in Locks
             /\ pc'[u] \in Engaged => pc[u] \in Engaged
    BY Zenon DEF Frame, WaitInv, Places, Woke, Engaged
<1>1. Published'
    BY <1>0, Zenon DEF WaitInv, Published, Woke, WaitStates, Outside
<1>2. HeldInCheck'
    <2> SUFFICES ASSUME NEW u \in Threads, pc'[u] = "check"
                 PROVE  \/ tid'[call'[u].lock] \in Threads
                        \/ (call'[u].mode = "write" /\ num_readers'[call'[u].lock] > 0)
        BY Zenon DEF HeldInCheck
    <2>1. u # t
        BY Zenon DEF Outside
    <2>2. pc[u] = "check" /\ call'[u] = call[u]
        BY <1>0, <2>1, Zenon DEF Woke
    <2>3. call[u].lock \in Locks \ {l}
        BY <1>0, <2>1, <2>2, Zenon DEF Frame, Mine, Engaged
    <2>4. tid'[call[u].lock] = tid[call[u].lock] /\ num_readers'[call[u].lock] = num_readers[call[u].lock]
        BY <2>3, Zenon DEF Frame, Change, Elsewhere
    <2> QED
        BY <2>2, <2>4, Zenon DEF WaitInv, HeldInCheck
<1>3. Exclusive'
    <2> SUFFICES ASSUME NEW u \in Threads, NEW v \in Threads, pc'[u] \in {"loop", "check"},
                        pc'[v] \in {"loop", "check"}, call'[u].lock = call'[v].lock
                 PROVE  u = v
        BY Zenon DEF Exclusive
    <2>1. u # t /\ v # t
        BY Zenon DEF Outside
    <2>2. /\ pc[u] \in {"loop", "check"} /\ call'[u] = call[u]
          /\ pc[v] \in {"loop", "check"} /\ call'[v] = call[v]
        BY <1>0, <2>1, Zenon DEF Woke
    <2> QED
        BY <2>2, Zenon DEF WaitInv, Exclusive
<1>4. NoReads'
    <2> SUFFICES ASSUME NEW u \in Threads \ {t}, pc'[u] \in Engaged, call'[u].mode = "read"
                 PROVE  tmap'[call'[u].lock][u] = 0 /\ call'[u].reads > 0
        BY Zenon DEF NoReads, Kept
    <2>1. pc[u] \in Engaged /\ call'[u] = call[u] /\ call[u].lock \in Locks
        BY <1>0, Zenon
    <2>2. tmap[call[u].lock][u] = 0 /\ call[u].reads > 0
        BY <2>1, Zenon DEF WaitInv, NoReads
    <2> QED
        BY <2>1, <2>2, Zenon DEF Frame, Change, Elsewhere
<1>5. SleepingReaders'
    <2> SUFFICES ASSUME NEW u \in Threads, pc'[u] = "blocked", call'[u].mode = "read"
                 PROVE  tid'[call'[u].lock] \in Threads
        BY Zenon DEF SleepingReaders
    <2>1. u # t
        BY Zenon DEF Outside
    <2>2. pc[u] = "blocked" /\ call'[u] = call[u] /\ call[u].lock \in Locks
        BY <1>0, <2>1, Zenon DEF Woke, Engaged
    <2>3. CASE call[u].lock = l
        BY <2>1, <2>2, <2>3, Zenon
    <2>4. CASE call[u].lock # l
        <3>1. tid'[call[u].lock] = tid[call[u].lock]
            BY <2>2, <2>4, Zenon DEF Frame, Change, Elsewhere
        <3> QED
            BY <2>2, <3>1, Zenon DEF WaitInv, SleepingReaders
    <2> QED
        BY <2>3, <2>4, Zenon
<1>6. NoPair'
    <2> SUFFICES ASSUME NEW u \in Threads, NEW v \in Threads, Cleared(u, v)', Cleared(v, u)',
                        Holds(v, call[u].lock)', Holds(u, call[v].lock)'
                 PROVE  FALSE
        BY Zenon DEF NoPair
    <2>1. u # t /\ v # t
        BY Zenon DEF Cleared, Past, Outside
    <2>2. /\ Cleared(u, v) /\ call'[u] = call[u] /\ call[u].lock \in Locks
          /\ Cleared(v, u) /\ call'[v] = call[v] /\ call[v].lock \in Locks
        BY <1>0, <2>1, Zenon DEF Cleared, Woke, Past, Engaged
    <2>3. ASSUME NEW w \in Threads \ {t}, NEW k \in Locks
          PROVE  tid'[k] = w \/ w \in vmap'[k] => Holds(w, k)
        BY Zenon DEF Frame, Change, Elsewhere, Holds
    <2>4. Holds(v, call[u].lock) /\ Holds(u, call[v].lock)
        <3>1. /\ tid'[call[u].lock] = v \/ v \in vmap'[call[u].lock]
              /\ tid'[call[v].lock] = u \/ u \in vmap'[call[v].lock]
            BY <2>2, Zenon DEF Holds
        <3> QED
            BY <2>1, <2>2, <2>3, <3>1, Zenon
    <2> QED
        BY <2>2, <2>4, Zenon DEF WaitInv, NoPair
<1> QED
    BY <1>1, <1>2, <1>3, <1>4, <1>5, <1>6, Zenon DEF WaitInv

(* The step ends with the asl_lock: at the top of the loop, or inside of    *)
(* waitOn() with all holders still to be examined.                          *)
LEMMA StepInside ==
    ASSUME WaitInv, Places', NEW t \in Threads, NEW l \in Locks, Frame(t, l), Kept(t),
           UNCHANGED lockVars, call'[t].lock = l,
           \/ pc'[t] = "loop" /\ waiting_on'[t] = Null
           \/ /\ pc'[t] = "check" /\ waiting_on'[t] = l
              /\ tid[l] \in Threads \/ (call'[t].mode = "write" /\ num_readers[l] > 0)
              /\ \A u \in Threads : Holds(u, l) => u \in call'[t].left
    PROVE  WaitInv'
<1>0. ASSUME NEW u \in Threads \ {t}
      PROVE  /\ Woke(pc, pc', u) /\ call'[u] = call[u] /\ waiting_on'[u] = waiting_on[u]
             /\ pc'[u] \in Engaged => pc[u] \in Engaged
    BY Zenon DEF Frame, Woke, Engaged
<1>1. tid' = tid /\ num_readers' = num_readers /\ tmap' = tmap /\ vmap' = vmap
    BY Zenon DEF lockVars
<1>2. Published'
    BY <1>0 DEF WaitInv, Published, Woke, WaitStates
<1>3. HeldInCheck'
    <2> SUFFICES ASSUME NEW u \in Threads, pc'[u] = "check"
                 PROVE  \/ tid[call'[u].lock] \in Threads
                        \/ (call'[u].mode = "write" /\ num_readers[call'[u].lock] > 0)
        BY <1>1, Zenon DEF HeldInCheck
    <2>1. CASE u = t
        BY <2>1, Zenon
    <2>2. CASE u # t
        <3>1. pc[u] = "check" /\ call'[u] = call[u]
            BY <1>0, <2>2, Zenon DEF Woke
        <3> QED
            BY <3>1, Zenon DEF WaitInv, HeldInCheck
    <2> QED
        BY <2>1, <2>2, Zenon
<1>4. Exclusive'
    <2>1. \A u \in Threads \ {t} : pc'[u] \in {"loop", "check"} =>
              pc[u] \in {"loop", "check"} /\ call'[u] = call[u] /\ call[u].lock # l
        BY <1>0, Zenon DEF Frame, Mine, Woke
    <2> QED
        BY <2>1, Zenon DEF WaitInv, Exclusive
<1>5. NoReads'
    <2> SUFFICES ASSUME NEW u \in Threads \ {t}, pc'[u] \in Engaged, call'[u].mode = "read"
                 PROVE  tmap'[call'[u].lock][u] = 0 /\ call'[u].reads > 0
        BY Zenon DEF NoReads, Kept
    <2> QED
        BY <1>0, <1>1, Zenon DEF WaitInv, NoReads
<1>6. SleepingReaders'
    <2> SUFFICES ASSUME NEW u \in Threads, pc'[u] = "blocked", call'[u].mode = "read"
                 PROVE  tid[call'[u].lock] \in Threads
        BY <1>1, Zenon DEF SleepingReaders
    <2>1. u # t
        BY Zenon
    <2>2. pc[u] = "blocked" /\ call'[u] = call[u]
        BY <1>0, <2>1, Zenon DEF Woke
    <2> QED
        BY <2>2, Zenon DEF WaitInv, SleepingReaders
<1>7. NoPair'
    <2>1. ASSUME NEW u \in Threads \ {t}, NEW v \in Threads, Cleared(u, v)' PROVE Cleared(u, v)
        BY <1>0, <2>1, Zenon DEF Cleared, Woke, Past
    <2>2. ASSUME NEW v \in Threads, Cleared(t, v)' PROVE ~Holds(v, l)
        BY <2>2, Zenon DEF Cleared, Past
    <2>3. \A v, k : Holds(v, k)' <=> Holds(v, k)
        BY <1>1, Zenon DEF Holds
    <2> SUFFICES ASSUME NEW u \in Threads, NEW v \in Threads, Cleared(u, v)', Cleared(v, u)',
                        Holds(v, call'[u].lock), Holds(u, call'[v].lock)
                 PROVE  FALSE
        BY <1>1, Zenon DEF NoPair, Holds
    <2>4. u # t /\ v # t
        BY <2>2, Zenon
    <2>5. Cleared(u, v) /\ Cleared(v, u) /\ call'[u] = call[u] /\ call'[v] = call[v]
        BY <1>0, <2>1, <2>4, Zenon
    <2> QED
        BY <2>5, Zenon DEF WaitInv, NoPair
<1> QED
    BY <1>2, <1>3, <1>4, <1>5, <1>6, <1>7, Zenon DEF WaitInv

(* A thread leaves its condition variable by itself. *)
LEMMA StepAwake ==
    ASSUME WaitInv, NEW t \in Threads, pc[t] = "blocked", NEW s \in {"woken", "timedout"},
           pc' = [pc EXCEPT ![t] = s], UNCHANGED <<lockVars, call, waiting_on>>
    PROVE  WaitInv'
<1>0. /\ tid' = tid /\ num_readers' = num_readers /\ tmap' = tmap /\ vmap' = vmap
      /\ call' = call /\ waiting_on' = waiting_on
      /\ pc'[t] = s /\ \A u \in Threads \ {t} : pc'[u] = pc[u]
    BY Zenon DEF lockVars, WaitInv, Places
<1>1. Places'
    BY <1>0, Zenon DEF WaitInv, Places, PCs, Engaged, CondStates
<1>2. Published' /\ HeldInCheck' /\ Exclusive' /\ SleepingReaders'
    <2>1. Published'
        BY <1>0, Zenon DEF WaitInv, Published, WaitStates
    <2>2. HeldInCheck'
        BY <1>0, Zenon DEF WaitInv, HeldInCheck
    <2>3. Exclusive'
        BY <1>0, Zenon DEF WaitInv, Exclusive
    <2>4. SleepingReaders'
        BY <1>0, Zenon DEF WaitInv, SleepingReaders
    <2> QED
        BY <2>1, <2>2, <2>3, <2>4, Zenon
<1>3. NoReads'
    <2>1. \A u \in Threads : pc'[u] \in Engaged <=> pc[u] \in Engaged
        BY <1>0, Zenon DEF Engaged
    <2> QED
        BY <1>0, <2>1, Zenon DEF WaitInv, NoReads
<1>4. NoPair'
    <2>1. ASSUME NEW u \in Threads, NEW v \in Threads PROVE Cleared(u, v)' <=> Cleared(u, v)
        BY <1>0, Zenon DEF Cleared, Past
    <2>2. ASSUME NEW u \in Threads, NEW v \in Threads
          PROVE  Holds(u, call[v].lock)' <=> Holds(u, call[v].lock)
        BY <1>0, Zenon DEF Holds
    <2> QED
        BY <2>1, <2>2, Zenon DEF WaitInv, NoPair
<1> QED
    BY <1>1, <1>2, <1>3, <1>4, Zenon DEF WaitInv

(* The test is over and the thread sleeps. *)
LEMMA StepBlocks ==
    ASSUME WaitInv, NEW t \in Threads, pc[t] = "check", call[t].left = {},
           pc' = [pc EXCEPT ![t] = "blocked"], UNCHANGED <<lockVars, call, waiting_on>>
    PROVE  WaitInv'
<1>0. /\ tid' = tid /\ num_readers' = num_readers /\ tmap' = tmap /\ vmap' = vmap
      /\ call' = call /\ waiting_on' = waiting_on
      /\ pc'[t] = "blocked" /\ \A u \in Threads \ {t} : pc'[u] = pc[u]
    BY Zenon DEF lockVars, WaitInv, Places
<1>1. Places'
    BY <1>0, Zenon DEF WaitInv, Places, PCs, Engaged, CondStates
<1>2. Published' /\ HeldInCheck' /\ Exclusive'
    <2>1. Published'
        BY <1>0, Zenon DEF WaitInv, Published, WaitStates
    <2>2. HeldInCheck'
        BY <1>0, Zenon DEF WaitInv, HeldInCheck
    <2>3. Exclusive'
        BY <1>0, Zenon DEF WaitInv, Exclusive
    <2> QED
        BY <2>1, <2>2, <2>3, Zenon
<1>3. SleepingReaders'
    <2>1. call[t].mode = "read" => tid[call[t].lock] \in Threads
        BY Zenon DEF WaitInv, HeldInCheck
    <2> QED
        BY <1>0, <2>1, Zenon DEF WaitInv, SleepingReaders
<1>4. NoReads'
    <2>1. \A u \in Threads : pc'[u] \in Engaged <=> pc[u] \in Engaged
        BY <1>0, Zenon DEF Engaged
    <2> QED
        BY <1>0, <2>1, Zenon DEF WaitInv, NoReads
<1>5. NoPair'
    <2>1. ASSUME NEW u \in Threads, NEW v \in Threads PROVE Cleared(u, v)' <=> Cleared(u, v)
        BY <1>0, Zenon DEF Cleared, Past
    <2>2. ASSUME NEW u \in Threads, NEW v \in Threads
          PROVE  Holds(u, call[v].lock)' <=> Holds(u, call[v].lock)
        BY <1>0, Zenon DEF Holds
    <2> QED
        BY <2>1, <2>2, Zenon DEF WaitInv, NoPair
<1> QED
    BY <1>1, <1>2, <1>3, <1>4, <1>5, Zenon DEF WaitInv

(* The test finds nothing wrong with holder u.  Were u past its own test of *)
(* t, with a lock of t to wait for, t would have found that lock in its     *)
(* list.                                                                    *)
LEMMA StepClears ==
    ASSUME Own, WaitInv, NEW t \in Threads, NEW u \in call[t].left, pc[t] = "check",
           ~(waiting_on[u] # Null /\ held[t][waiting_on[u]] > 0),
           call' = [call EXCEPT ![t].left = @ \ {u}], UNCHANGED <<lockVars, pc, waiting_on>>
    PROVE  WaitInv'
<1>0. /\ tid' = tid /\ num_readers' = num_readers /\ tmap' = tmap /\ vmap' = vmap
      /\ pc' = pc /\ waiting_on' = waiting_on
    BY Zenon DEF lockVars
<1>1. /\ call' = [call EXCEPT ![t] = [call[t] EXCEPT !.left = call[t].left \ {u}]]
      /\ call[t] \in Calls /\ call \in [Threads -> Calls]
    BY Zenon DEF WaitInv, Places
<1>2. /\ [call[t] EXCEPT !.left = call[t].left \ {u}] \in Calls
      /\ call'[t] = [call[t] EXCEPT !.left = call[t].left \ {u}]
      /\ \A v \in Threads \ {t} : call'[v] = call[v]
    BY <1>1 DEF Calls
<1>3. \A v \in Threads : /\ call'[v].lock = call[v].lock /\ call'[v].mode = call[v].mode
                         /\ call'[v].reads = call[v].reads /\ call'[v].cond = call[v].cond
    BY <1>1, <1>2 DEF Calls
<1>4. call' \in [Threads -> Calls] /\ call'[t].left = call[t].left \ {u}
    BY <1>1, <1>2 DEF Calls
<1>5. Places'
    BY <1>0, <1>3, <1>4, Zenon DEF WaitInv, Places
<1>6. Published' /\ HeldInCheck' /\ Exclusive' /\ SleepingReaders' /\ NoReads'
    <2>1. Published'
        BY <1>0, <1>3, Zenon DEF WaitInv, Published
    <2>2. HeldInCheck'
        BY <1>0, <1>3, Zenon DEF WaitInv, HeldInCheck
    <2>3. Exclusive'
        BY <1>0, <1>3, Zenon DEF WaitInv, Exclusive
    <2>4. SleepingReaders'
        BY <1>0, <1>3, Zenon DEF WaitInv, SleepingReaders
    <2>5. NoReads'
        BY <1>0, <1>3, Zenon DEF WaitInv, NoReads
    <2> QED
        BY <2>1, <2>2, <2>3, <2>4, <2>5, Zenon
<1>7. u \in Threads
    BY <1>1 DEF Calls
<1>8. ASSUME pc[u] \in WaitStates PROVE ~Holds(t, call[u].lock)
    <2>1. waiting_on[u] = call[u].lock /\ call[u].lock \in Locks
        BY <1>7, <1>8, Zenon DEF WaitInv, Published, Places, WaitStates, Engaged
    <2>2. waiting_on[u] # Null
        BY <2>1, SortsAssumption, Zenon
    <2>3. ~(held[t][call[u].lock] > 0)
        BY <2>1, <2>2, Zenon
    <2>4. held[t][call[u].lock] = IF Holds(t, call[u].lock) THEN 1 ELSE 0
        BY <2>1, Zenon DEF Own, ReadersExact
    <2> QED
        BY <2>3, <2>4
<1>9. NoPair'
    <2>1. ASSUME NEW v \in Threads, NEW w \in Threads
          PROVE  Holds(v, call[w].lock)' <=> Holds(v, call[w].lock)
        BY <1>0, <1>3, Zenon DEF Holds
    <2>2. ASSUME NEW v \in Threads, NEW w \in Threads, Cleared(v, w)'
          PROVE  Cleared(v, w) \/ (v = t /\ w = u)
        <3>1. CASE v # t
            BY <1>0, <1>2, <2>2, <3>1, Zenon DEF Cleared
        <3>2. CASE v = t
            BY <1>0, <1>4, <2>2, <3>2, Zenon DEF Cleared
        <3> QED
            BY <3>1, <3>2, Zenon
    <2>3. ASSUME Cleared(u, t)' PROVE pc[u] \in WaitStates
        BY <1>0, <2>3, Zenon DEF Cleared, Past, WaitStates
    <2> SUFFICES ASSUME NEW v \in Threads, NEW w \in Threads, Cleared(v, w)', Cleared(w, v)',
                        Holds(w, call[v].lock), Holds(v, call[w].lock)
                 PROVE  FALSE
        BY <2>1, Zenon DEF NoPair
    <2>4. CASE Cleared(v, w) /\ Cleared(w, v)
        BY <2>4, Zenon DEF WaitInv, NoPair
    <2>5. CASE (v = t /\ w = u) \/ (v = u /\ w = t)
        BY <1>8, <2>3, <2>5, Zenon
    <2> QED
        BY <2>2, <2>4, <2>5, Zenon
<1> QED
    BY <1>5, <1>6, <1>9, Zenon DEF WaitInv

(* A thread that holds no asl_lock can only take one that nobody has. *)
LEMMA AvailableMine ==
    ASSUME NEW t \in Threads, NEW l, Available(l)
    PROVE  Mine(t, l)
BY Zenon DEF Available, Mine

---------------------------------------------------------------------------
(* The counters.  The others stay where they are, or are woken there.       *)

Stay(t) ==
    \A u \in Threads \ {t} : Woke(pc, pc', u) /\ call'[u] = call[u]

LEMMA OneMore ==
    ASSUME NEW A, IsFiniteSet(A), NEW x, x \notin A, NEW B, B = A \cup {x}
    PROVE  Cardinality(B) = Cardinality(A) + 1
BY FS_AddElement

LEMMA OneLess ==
    ASSUME NEW A, IsFiniteSet(A), NEW x, x \in A, NEW B, B = A \ {x}
    PROVE  Cardinality(B) = Cardinality(A) - 1
BY FS_RemoveElement

LEMMA WaitersFinite ==
    ASSUME NEW p, NEW c, NEW l, NEW m
    PROVE  /\ IsFiniteSet(Waiters(p, c, l, m)) /\ Cardinality(Waiters(p, c, l, m)) \in Nat
           /\ Waiters(p, c, l, m) # {} => Cardinality(Waiters(p, c, l, m)) > 0
           /\ IsFiniteSet(CondWaiters(p, c, l, m)) /\ Cardinality(CondWaiters(p, c, l, m)) \in Nat
<1>1. Waiters(p, c, l, m) \subseteq Threads /\ CondWaiters(p, c, l, m) \subseteq Threads
    BY Zenon DEF Waiters, CondWaiters
<1>2. IsFiniteSet(Waiters(p, c, l, m)) /\ IsFiniteSet(CondWaiters(p, c, l, m))
    BY <1>1, SortsAssumption, FS_Subset, Zenon
<1>3. /\ Cardinality(Waiters(p, c, l, m)) \in Nat /\ Cardinality(CondWaiters(p, c, l, m)) \in Nat
      /\ Cardinality(Waiters(p, c, l, m)) = 0 => Waiters(p, c, l, m) = {}
    BY <1>2, FS_CardinalityType, FS_EmptySet, Zenon
<1> QED
    BY <1>2, <1>3

LEMMA StayStates ==
    ASSUME NEW t \in Threads, Stay(t), NEW u \in Threads \ {t}
    PROVE  /\ pc'[u] \in WaitStates <=> pc[u] \in WaitStates
           /\ pc'[u] \in CondStates <=> pc[u] \in CondStates
           /\ call'[u] = call[u]
BY Zenon DEF Stay, Woke, WaitStates, CondStates

(* Nobody enters or leaves waitOn(). *)
LEMMA SameCounts ==
    ASSUME Counts, NEW t \in Threads, Stay(t), waiting' = waiting, readRequests' = readRequests,
           pc'[t] \in WaitStates <=> pc[t] \in WaitStates,
           pc[t] \in WaitStates => call'[t].lock = call[t].lock /\ call'[t].mode = call[t].mode
    PROVE  Counts'
<1>1. \A l, m : Waiters(pc', call', l, m) = Waiters(pc, call, l, m)
    BY StayStates, Zenon DEF Waiters
<1> QED
    BY <1>1, Zenon DEF Counts

(* Thread t enters waitOn(). *)
LEMMA JoinCounts ==
    ASSUME Counts, NEW t \in Threads, Stay(t), NEW l \in Locks, NEW m \in Modes,
           waiting' = IF m = "write" THEN [waiting EXCEPT ![l] = @ + 1] ELSE waiting,
           readRequests' = IF m = "read" THEN [readRequests EXCEPT ![l] = @ + 1] ELSE readRequests,
           pc[t] \notin WaitStates, pc'[t] \in WaitStates, call'[t].lock = l, call'[t].mode = m
    PROVE  Counts'
<1>1. \A k, n : (k # l \/ n # m) => Waiters(pc', call', k, n) = Waiters(pc, call, k, n)
    BY StayStates, Zenon DEF Waiters
<1>2. /\ Waiters(pc', call', l, m) = Waiters(pc, call, l, m) \cup {t}
      /\ t \notin Waiters(pc, call, l, m)
    BY StayStates, Zenon DEF Waiters
<1>3. Cardinality(Waiters(pc', call', l, m)) = Cardinality(Waiters(pc, call, l, m)) + 1
    <2>1. IsFiniteSet(Waiters(pc, call, l, m))
        BY WaitersFinite, Zenon
    <2> QED
        BY <1>2, <2>1, OneMore, Zenon
<1>4. CASE m = "write"
    <2>1. /\ waiting' \in [Locks -> Nat] /\ readRequests' = readRequests
          /\ waiting'[l] = waiting[l] + 1 /\ \A k \in Locks \ {l} : waiting'[k] = waiting[k]
        BY <1>4 DEF Counts
    <2>2. \A k \in Locks : /\ waiting[k] = Cardinality(Waiters(pc, call, k, "write"))
                           /\ readRequests[k] = Cardinality(Waiters(pc, call, k, "read"))
        BY Zenon DEF Counts
    <2>3. waiting'[l] = Cardinality(Waiters(pc', call', l, "write"))
        BY <1>3, <1>4, <2>1, <2>2, Zenon
    <2>4. ASSUME NEW k \in Locks PROVE waiting'[k] = Cardinality(Waiters(pc', call', k, "write"))
        <3>1. CASE k = l
            BY <2>3, <3>1, Zenon
        <3>2. CASE k # l
            <4>1. Waiters(pc', call', k, "write") = Waiters(pc, call, k, "write")
                BY <1>1, <3>2, Zenon
            <4> QED
                BY <2>1, <2>2, <3>2, <4>1, Zenon
        <3> QED
            BY <3>1, <3>2, Zenon
    <2>5. ASSUME NEW k \in Locks PROVE readRequests'[k] = Cardinality(Waiters(pc', call', k, "read"))
        <3>1. Waiters(pc', call', k, "read") = Waiters(pc, call, k, "read")
            BY <1>1, <1>4, Zenon
        <3> QED
            BY <2>1, <2>2, <3>1, Zenon
    <2> QED
        BY <2>1, <2>4, <2>5, Zenon DEF Counts
<1>5. CASE m = "read"
    <2>1. /\ readRequests' \in [Locks -> Nat] /\ waiting' = waiting
          /\ readRequests'[l] = readRequests[l] + 1
          /\ \A k \in Locks \ {l} : readRequests'[k] = readRequests[k]
        BY <1>5 DEF Counts
    <2>2. \A k \in Locks : /\ readRequests[k] = Cardinality(Waiters(pc, call, k, "read"))
                           /\ waiting[k] = Cardinality(Waiters(pc, call, k, "write"))
        BY Zenon DEF Counts
    <2>3. readRequests'[l] = Cardinality(Waiters(pc', call', l, "read"))
        BY <1>3, <1>5, <2>1, <2>2, Zenon
    <2>4. ASSUME NEW k \in Locks PROVE readRequests'[k] = Cardinality(Waiters(pc', call', k, "read"))
        <3>1. CASE k = l
            BY <2>3, <3>1, Zenon
        <3>2. CASE k # l
            <4>1. Waiters(pc', call', k, "read") = Waiters(pc, call, k, "read")
                BY <1>1, <3>2, Zenon
            <4> QED
                BY <2>1, <2>2, <3>2, <4>1, Zenon
        <3> QED
            BY <3>1, <3>2, Zenon
    <2>5. ASSUME NEW k \in Locks PROVE waiting'[k] = Cardinality(Waiters(pc', call', k, "write"))
        <3>1. Waiters(pc', call', k, "write") = Waiters(pc, call, k, "write")
            BY <1>1, <1>5, Zenon
        <3> QED
            BY <2>1, <2>2, <3>1, Zenon
    <2> QED
        BY <2>1, <2>4, <2>5, Zenon DEF Counts
<1> QED
    BY <1>4, <1>5, Zenon DEF Modes

(* Thread t leaves it. *)
LEMMA LeaveCounts ==
    ASSUME Counts, NEW t \in Threads, Stay(t), NEW l \in Locks, NEW m \in Modes,
           waiting' = IF m = "write" THEN [waiting EXCEPT ![l] = @ - 1] ELSE waiting,
           readRequests' = IF m = "read" THEN [readRequests EXCEPT ![l] = @ - 1] ELSE readRequests,
           pc[t] \in WaitStates, pc'[t] \notin WaitStates, call[t].lock = l, call[t].mode = m
    PROVE  Counts'
<1>1. \A k, n : (k # l \/ n # m) => Waiters(pc', call', k, n) = Waiters(pc, call, k, n)
    BY StayStates, Zenon DEF Waiters
<1>2. /\ Waiters(pc', call', l, m) = Waiters(pc, call, l, m) \ {t}
      /\ t \in Waiters(pc, call, l, m)
    BY StayStates, Zenon DEF Waiters
<1>3. /\ Cardinality(Waiters(pc', call', l, m)) = Cardinality(Waiters(pc, call, l, m)) - 1
      /\ Cardinality(Waiters(pc, call, l, m)) \in Nat /\ Cardinality(Waiters(pc, call, l, m)) > 0
    <2>1. IsFiniteSet(Waiters(pc, call, l, m))
        BY WaitersFinite, Zenon
    <2>2. Cardinality(Waiters(pc', call', l, m)) = Cardinality(Waiters(pc, call, l, m)) - 1
        BY <1>2, <2>1, OneLess, Zenon
    <2>3. Waiters(pc, call, l, m) # {}
        BY <1>2, Zenon
    <2> QED
        BY <2>2, <2>3, WaitersFinite, Zenon
<1>4. CASE m = "write"
    <2>0. waiting[l] - 1 \in Nat
        BY <1>3, <1>4 DEF Counts
    <2>1. /\ waiting' \in [Locks -> Nat] /\ readRequests' = readRequests
          /\ waiting'[l] = waiting[l] - 1 /\ \A k \in Locks \ {l} : waiting'[k] = waiting[k]
        BY <1>4, <2>0 DEF Counts
    <2>2. \A k \in Locks : /\ waiting[k] = Cardinality(Waiters(pc, call, k, "write"))
                           /\ readRequests[k] = Cardinality(Waiters(pc, call, k, "read"))
        BY Zenon DEF Counts
    <2>3. waiting'[l] = Cardinality(Waiters(pc', call', l, "write"))
        BY <1>3, <1>4, <2>1, <2>2, Zenon
    <2>4. ASSUME NEW k \in Locks PROVE waiting'[k] = Cardinality(Waiters(pc', call', k, "write"))
        <3>1. CASE k = l
            BY <2>3, <3>1, Zenon
        <3>2. CASE k # l
            <4>1. Waiters(pc', call', k, "write") = Waiters(pc, call, k, "write")
                BY <1>1, <3>2, Zenon
            <4> QED
                BY <2>1, <2>2, <3>2, <4>1, Zenon
        <3> QED
            BY <3>1, <3>2, Zenon
    <2>5. ASSUME NEW k \in Locks PROVE readRequests'[k] = Cardinality(Waiters(pc', call', k, "read"))
        <3>1. Waiters(pc', call', k, "read") = Waiters(pc, call, k, "read")
            BY <1>1, <1>4, Zenon
        <3> QED
            BY <2>1, <2>2, <3>1, Zenon
    <2> QED
        BY <2>1, <2>4, <2>5, Zenon DEF Counts
<1>5. CASE m = "read"
    <2>0. readRequests[l] - 1 \in Nat
        BY <1>3, <1>5 DEF Counts
    <2>1. /\ readRequests' \in [Locks -> Nat] /\ waiting' = waiting
          /\ readRequests'[l] = readRequests[l] - 1
          /\ \A k \in Locks \ {l} : readRequests'[k] = readRequests[k]
        BY <1>5, <2>0 DEF Counts
    <2>2. \A k \in Locks : /\ readRequests[k] = Cardinality(Waiters(pc, call, k, "read"))
                           /\ waiting[k] = Cardinality(Waiters(pc, call, k, "write"))
        BY Zenon DEF Counts
    <2>3. readRequests'[l] = Cardinality(Waiters(pc', call', l, "read"))
        BY <1>3, <1>5, <2>1, <2>2, Zenon
    <2>4. ASSUME NEW k \in Locks PROVE readRequests'[k] = Cardinality(Waiters(pc', call', k, "read"))
        <3>1. CASE k = l
            BY <2>3, <3>1, Zenon
        <3>2. CASE k # l
            <4>1. Waiters(pc', call', k, "read") = Waiters(pc, call, k, "read")
                BY <1>1, <3>2, Zenon
            <4> QED
                BY <2>1, <2>2, <3>2, <4>1, Zenon
        <3> QED
            BY <3>1, <3>2, Zenon
    <2>5. ASSUME NEW k \in Locks PROVE waiting'[k] = Cardinality(Waiters(pc', call', k, "write"))
        <3>1. Waiters(pc', call', k, "write") = Waiters(pc, call, k, "write")
            BY <1>1, <1>5, Zenon
        <3> QED
            BY <2>1, <2>2, <3>1, Zenon
    <2> QED
        BY <2>1, <2>4, <2>5, Zenon DEF Counts
<1> QED
    BY <1>4, <1>5, Zenon DEF Modes

(* The same for Condition::wait(). *)
LEMMA SameCondCounts ==
    ASSUME CondCounts, NEW t \in Threads, Stay(t), cmap' = cmap,
           pc'[t] \in CondStates <=> pc[t] \in CondStates,
           pc[t] \in CondStates => call'[t].lock = call[t].lock /\ call'[t].cond = call[t].cond
    PROVE  CondCounts'
<1>1. \A l, d : CondWaiters(pc', call', l, d) = CondWaiters(pc, call, l, d)
    BY StayStates, Zenon DEF CondWaiters
<1> QED
    BY <1>1, Zenon DEF CondCounts

LEMMA JoinCondCounts ==
    ASSUME CondCounts, NEW t \in Threads, Stay(t), NEW l \in Locks, NEW d \in Conds,
           cmap' = [cmap EXCEPT ![l][d] = @ + 1],
           pc[t] \notin CondStates, pc'[t] \in CondStates, call'[t].lock = l, call'[t].cond = d
    PROVE  CondCounts'
<1>1. \A k, e : (k # l \/ e # d) => CondWaiters(pc', call', k, e) = CondWaiters(pc, call, k, e)
    BY StayStates, Zenon DEF CondWaiters
<1>2. /\ CondWaiters(pc', call', l, d) = CondWaiters(pc, call, l, d) \cup {t}
      /\ t \notin CondWaiters(pc, call, l, d)
    BY StayStates, Zenon DEF CondWaiters
<1>3. Cardinality(CondWaiters(pc', call', l, d)) = Cardinality(CondWaiters(pc, call, l, d)) + 1
    <2>1. IsFiniteSet(CondWaiters(pc, call, l, d))
        BY WaitersFinite, Zenon
    <2> QED
        BY <1>2, <2>1, OneMore, Zenon
<1>4. cmap' \in [Locks -> [Conds -> Nat]]
    BY DEF CondCounts
<1>5. cmap'[l][d] = cmap[l][d] + 1
    BY Zenon DEF CondCounts
<1>6. \A k \in Locks, e \in Conds : (k # l \/ e # d) => cmap'[k][e] = cmap[k][e]
    BY DEF CondCounts
<1>7. \A k \in Locks, e \in Conds : cmap[k][e] = Cardinality(CondWaiters(pc, call, k, e))
    BY Zenon DEF CondCounts
<1>8. cmap'[l][d] = Cardinality(CondWaiters(pc', call', l, d))
    BY <1>3, <1>5, <1>7, Zenon
<1>9. ASSUME NEW k \in Locks, NEW e \in Conds
      PROVE  cmap'[k][e] = Cardinality(CondWaiters(pc', call', k, e))
    <2>1. CASE k = l /\ e = d
        BY <1>8, <2>1, Zenon
    <2>2. CASE k # l \/ e # d
        <3>1. CondWaiters(pc', call', k, e) = CondWaiters(pc, call, k, e)
            BY <1>1, <2>2, Zenon
        <3> QED
            BY <1>6, <1>7, <2>2, <3>1, Zenon
    <2> QED
        BY <2>1, <2>2, Zenon
<1> QED
    BY <1>4, <1>9, Zenon DEF CondCounts

LEMMA LeaveCondCounts ==
    ASSUME CondCounts, NEW t \in Threads, Stay(t), NEW l \in Locks, NEW d \in Conds,
           cmap' = [cmap EXCEPT ![l][d] = @ - 1],
           pc[t] \in CondStates, pc'[t] \notin CondStates, call[t].lock = l, call[t].cond = d
    PROVE  CondCounts'
<1>1. \A k, e : (k # l \/ e # d) => CondWaiters(pc', call', k, e) = CondWaiters(pc, call, k, e)
    BY StayStates, Zenon DEF CondWaiters
<1>2. /\ CondWaiters(pc', call', l, d) = CondWaiters(pc, call, l, d) \ {t}
      /\ t \in CondWaiters(pc, call, l, d)
    BY StayStates, Zenon DEF CondWaiters
<1>3. /\ Cardinality(CondWaiters(pc', call', l, d)) = Cardinality(CondWaiters(pc, call, l, d)) - 1
      /\ Cardinality(CondWaiters(pc', call', l, d)) \in Nat
    <2>1. IsFiniteSet(CondWaiters(pc, call, l, d))
        BY WaitersFinite, Zenon
    <2> QED
        BY <1>2, <2>1, WaitersFinite, OneLess, Zenon
<1>4. cmap[l][d] - 1 \in Nat
    BY <1>3, Zenon DEF CondCounts
<1>5. cmap' = [cmap EXCEPT ![l] = [cmap[l] EXCEPT ![d] = cmap[l][d] - 1]]
    BY Zenon DEF CondCounts
<1>6. cmap \in [Locks -> [Conds -> Nat]]
    BY Zenon DEF CondCounts
<1>7. cmap' \in [Locks -> [Conds -> Nat]]
    BY <1>4, <1>5, <1>6
<1>8. cmap'[l][d] = cmap[l][d] - 1
    BY <1>5, <1>6
<1>9. \A k \in Locks, e \in Conds : (k # l \/ e # d) => cmap'[k][e] = cmap[k][e]
    BY <1>5, <1>6
<1>10. \A k \in Locks, e \in Conds : cmap[k][e] = Cardinality(CondWaiters(pc, call, k, e))
    BY Zenon DEF CondCounts
<1>11. cmap'[l][d] = Cardinality(CondWaiters(pc', call', l, d))
    BY <1>3, <1>8, <1>10, Zenon
<1>12. ASSUME NEW k \in Locks, NEW e \in Conds
      PROVE  cmap'[k][e] = Cardinality(CondWaiters(pc', call', k, e))
    <2>1. CASE k = l /\ e = d
        BY <1>11, <2>1, Zenon
    <2>2. CASE k # l \/ e # d
        <3>1. CondWaiters(pc', call', k, e) = CondWaiters(pc, call, k, e)
            BY <1>1, <2>2, Zenon
        <3> QED
            BY <1>9, <1>10, <2>2, <3>1, Zenon
    <2> QED
        BY <2>1, <2>2, Zenon
<1> QED
    BY <1>7, <1>12, Zenon DEF CondCounts

---------------------------------------------------------------------------
(* The actions. *)

(* What signalImpl(), the last reader and the destructor wake. *)
LEMMA Wakeups ==
    ASSUME NEW p \in [Threads -> PCs], NEW l, NEW q, NEW C, NEW M,
           \/ q \in SignalImpl(p, l) \/ q \in Signal(p, l) \/ q = p
           \/ q = Broadcast(p, l, M) \/ q = BroadcastConds(p, C)
    PROVE  q \in [Threads -> PCs] /\ \A u \in Threads : Woke(p, q, u)
<1>1. CASE q = p
    BY <1>1, Zenon DEF Woke
<1>2. CASE q \in Signal(p, l)
    BY <1>2, Zenon DEF Signal, Blocked, Woke, PCs
<1>3. ASSUME NEW N, q = Broadcast(p, l, N)
      PROVE  q \in [Threads -> PCs] /\ \A u \in Threads : Woke(p, q, u)
    BY <1>3, Zenon DEF Broadcast, Blocked, Woke, PCs
<1>4. CASE q = BroadcastConds(p, C)
    BY <1>4, Zenon DEF BroadcastConds, Woke, PCs
<1>5. CASE q \in SignalImpl(p, l)
    BY <1>1, <1>2, <1>3, <1>5, Zenon DEF SignalImpl
<1> QED
    BY <1>1, <1>2, <1>3, <1>4, <1>5, Zenon

(* signalImpl() leaves no reader asleep, because readRequests is exact. *)
LEMMA NoReaderSleeps ==
    ASSUME RWInv, NEW t \in Threads, NEW l \in Locks, NEW p \in [Threads -> PCs],
           \A v \in Threads \ {t} : p[v] = pc[v], NEW q \in SignalImpl(p, l),
           NEW u \in Threads \ {t}, q[u] = "blocked", call[u].lock = l
    PROVE  call[u].mode # "read"
<1>1. p[u] = pc[u] /\ p \in [Threads -> PCs]
    OBVIOUS
<1>2. Woke(p, q, u)
    BY <1>1, Wakeups, Zenon
<1>3. pc[u] = "blocked" /\ p[u] = "blocked"
    BY <1>1, <1>2, Zenon DEF Woke
<1> SUFFICES ASSUME call[u].mode = "read" PROVE FALSE
    BY Zenon
<1>4. u \in Waiters(pc, call, l, "read")
    BY <1>3, Zenon DEF Waiters, WaitStates
<1>5. Cardinality(Waiters(pc, call, l, "read")) > 0
    BY <1>4, WaitersFinite, Zenon
<1>6. readRequests[l] > 0
    BY <1>5, Zenon DEF RWInv, Counts
<1>7. q = Broadcast(p, l, {"read"})
    BY <1>6, Zenon DEF SignalImpl
<1> QED
    BY <1>3, <1>7, Zenon DEF Broadcast, Blocked

LEMMA NoCallType == NoCall \in Calls
<1>1. 0 \in 0 .. MaxReads
    BY SortsAssumption
<1> QED
    BY <1>1, Zenon DEF NoCall, Calls, Modes

(* A pass of grabImpl() or grab_read_lock_intern() with the asl_lock. *)
LEMMA AttemptInv ==
    ASSUME Own, WaitInv, Counts, NEW t \in Threads, NEW c \in Calls, c.lock \in Locks,
           Mine(t, c.lock), Attempt(t, c), pc[t] \notin WaitStates,
           c.mode = "read" => c.reads > 0 /\ tmap[c.lock][t] + c.reads <= MaxReads
    PROVE  Own' /\ WaitInv' /\ Counts' /\ Stay(t) /\ pc'[t] \in {"idle", "check"}
<1> DEFINE l == c.lock
<1>0. /\ pc \in [Threads -> PCs] /\ call \in [Threads -> Calls]
      /\ waiting_on \in [Threads -> Locks \cup {Null}] /\ waiting_on[t] = Null
    BY Zenon DEF WaitInv, Places, Published
<1>1. c.mode = "read" => c.reads \in 1 .. MaxReads
    BY SortsAssumption DEF Calls
<1>2. Own' /\ Change(t, l)
    BY <1>1, AttemptOwn, Zenon
<1>3. CASE Return(t)
    <2>1. /\ pc'[t] = "idle" /\ call'[t] = NoCall /\ waiting_on' = waiting_on
          /\ waiting' = waiting /\ readRequests' = readRequests
          /\ \A u \in Threads \ {t} : pc'[u] = pc[u] /\ call'[u] = call[u]
        BY <1>0, <1>3, Zenon DEF Return, Goto
    <2>2. Stay(t) /\ Frame(t, l) /\ Kept(t)
        BY <1>2, <2>1, Zenon DEF Stay, Frame, Woke, Kept, Engaged
    <2>3. Counts'
        BY <2>1, <2>2, SameCounts, Zenon DEF WaitStates
    <2>4. Places'
        <3>1. pc' \in [Threads -> PCs] /\ call' \in [Threads -> Calls]
            BY <1>0, <1>3, NoCallType, Zenon DEF Return, Goto, PCs
        <3> QED
            BY <2>1, <3>1, Zenon DEF WaitInv, Places, Engaged, CondStates
    <2>5. tid[l] \in Threads => tid'[l] \in Threads
        <3>1. tid' = tid \/ tid' = [tid EXCEPT ![c.lock] = t]
            BY Zenon DEF Attempt, lockVars, GrabIntern, MarkReadLockIntern
        <3> QED
            BY <3>1, Zenon DEF Own, LockTypes
    <2>6. \A u \in Threads \ {t} :
             pc'[u] = "blocked" /\ call[u].lock = l /\ call[u].mode = "read" => tid'[l] \in Threads
        BY <2>1, <2>5, Zenon DEF WaitInv, SleepingReaders
    <2>7. pc'[t] \in Outside /\ waiting_on'[t] = Null
        BY <1>0, <2>1, Zenon DEF Outside
    <2> HIDE DEF l
    <2>8. l \in Locks
        BY Zenon DEF l
    <2>9. WaitInv'
        BY <2>2, <2>4, <2>6, <2>7, <2>8, StepOutside, Zenon
    <2> QED
        BY <1>2, <2>1, <2>2, <2>3, <2>9, Zenon
<1>4. ASSUME NEW left, StartWait(t, c, left), UNCHANGED lockVars, left \subseteq Threads,
             \A u \in Threads : Holds(u, l) => u \in left,
             tid[l] \in Threads \/ (c.mode = "write" /\ num_readers[l] > 0),
             c.mode = "read" => tmap[l][t] = 0
      PROVE  WaitInv' /\ Counts' /\ Stay(t) /\ pc'[t] \in {"idle", "check"}
    <2>0. /\ [c EXCEPT !.left = left] \in Calls
          /\ [c EXCEPT !.left = left].lock = l /\ [c EXCEPT !.left = left].mode = c.mode
          /\ [c EXCEPT !.left = left].reads = c.reads /\ [c EXCEPT !.left = left].left = left
        BY <1>4 DEF Calls
    <2>1. /\ pc' = [pc EXCEPT ![t] = "check"] /\ call' = [call EXCEPT ![t] = [c EXCEPT !.left = left]]
          /\ waiting_on' = [waiting_on EXCEPT ![t] = l]
          /\ waiting' = IF c.mode = "write" THEN [waiting EXCEPT ![l] = @ + 1] ELSE waiting
          /\ readRequests' = IF c.mode = "read" THEN [readRequests EXCEPT ![l] = @ + 1] ELSE readRequests
        BY <1>4, Zenon DEF StartWait, Goto
    <2>2. /\ pc'[t] = "check" /\ waiting_on'[t] = l
          /\ call'[t].lock = l /\ call'[t].mode = c.mode
          /\ call'[t].reads = c.reads /\ call'[t].left = left
          /\ \A u \in Threads \ {t} : /\ pc'[u] = pc[u] /\ call'[u] = call[u]
                                      /\ waiting_on'[u] = waiting_on[u]
        BY <1>0, <2>0, <2>1, Zenon
    <2>3. tmap' = tmap
        BY <1>4, Zenon DEF lockVars
    <2> HIDE DEF l
    <2>4. Stay(t) /\ Frame(t, l)
        BY <1>2, <2>2, Zenon DEF Stay, Frame, Woke, l
    <2>5. Kept(t)
        BY <1>4, <2>2, <2>3, Zenon DEF Kept
    <2>6. l \in Locks /\ c.mode \in Modes
        BY Zenon DEF l, Calls
    <2>7. Counts'
        <3>1. pc'[t] \in WaitStates
            BY <2>2, Zenon DEF WaitStates
        <3> QED
            BY <2>1, <2>2, <2>4, <2>6, <3>1, JoinCounts, Zenon
    <2>8. Places'
        <3>1. /\ pc' \in [Threads -> PCs] /\ call' \in [Threads -> Calls]
              /\ waiting_on' \in [Threads -> Locks \cup {Null}]
            BY <1>0, <2>0, <2>1, <2>6, Zenon DEF PCs
        <3> QED
            BY <2>2, <2>6, <3>1, Zenon DEF WaitInv, Places, CondStates
    <2>9. WaitInv'
        BY <1>4, <2>2, <2>4, <2>5, <2>6, <2>8, StepInside, Zenon
    <2> QED
        BY <2>2, <2>4, <2>7, <2>9, Zenon
<1>5. CASE tid[l] \in Threads \ {t} /\ StartWait(t, c, {tid[l]}) /\ UNCHANGED lockVars
    <2>1. num_readers[l] = 0
        BY <1>5, SortsAssumption, Zenon DEF Own, Alone
    <2>2. \A u \in Threads : Holds(u, l) => u \in {tid[l]}
        BY <2>1, Readers, Zenon DEF Holds
    <2>3. tmap[l][t] = 0
        BY <2>1, Readers, SortsAssumption
    <2>4. {tid[l]} \subseteq Threads
        BY <1>5, Zenon
    <2> HIDE DEF l
    <2> QED
        BY <1>2, <1>4, <1>5, <2>2, <2>3, <2>4, Zenon
<1>6. CASE /\ c.mode = "write" /\ tid[l] = Lock_Unlocked /\ num_readers[l] > 0
           /\ StartWait(t, c, vmap[l]) /\ UNCHANGED lockVars
    <2>1. \A u \in Threads : Holds(u, l) => u \in vmap[l]
        BY <1>6, SortsAssumption, Zenon DEF Holds
    <2>2. vmap[l] \subseteq Threads
        BY Zenon DEF Own, LockTypes
    <2> HIDE DEF l
    <2> QED
        BY <1>2, <1>4, <1>6, <2>1, <2>2, Zenon
<1> QED
    BY <1>3, <1>5, <1>6, Zenon DEF Attempt

(* writeLock() and readLock() *)
LEMMA LockInv ==
    ASSUME RWInv, NEW t \in Threads, NEW l \in Locks, NEW mode \in Modes, NEW timed \in Timed,
           Lock(t, l, mode, timed)
    PROVE  RWInv'
<1> DEFINE n == IF mode = "read" THEN 1 ELSE 0
           c == [NoCall EXCEPT !.lock = l, !.mode = mode, !.timed = timed, !.reads = n]
<1>1. n \in 0 .. MaxReads /\ timed \in BOOLEAN
    BY SortsAssumption
<1>2. c \in Calls /\ c.lock = l /\ c.mode = mode /\ c.reads = n
    BY <1>1, NoCallType DEF Calls, NoCall
<1>3. mode = "read" => n > 0 /\ tmap[l][t] + n <= MaxReads
    <2>1. tmap[l][t] \in 0 .. MaxReads
        BY Zenon DEF RWInv, Own, LockTypes
    <2> QED
        BY <2>1, SortsAssumption DEF Lock
<1>4. Attempt(t, c) /\ cmap' = cmap /\ pc[t] = "idle" /\ Mine(t, l)
    BY AvailableMine, Zenon DEF Lock
<1>5. pc[t] \notin WaitStates /\ pc[t] \notin CondStates
    BY <1>4, Zenon DEF WaitStates, CondStates
<1> HIDE DEF c, n
<1>6. Own' /\ WaitInv' /\ Counts' /\ Stay(t) /\ pc'[t] \in {"idle", "check"}
    BY <1>2, <1>3, <1>4, <1>5, AttemptInv, Zenon DEF RWInv
<1>7. pc'[t] \notin CondStates
    BY <1>6, Zenon DEF CondStates
<1>8. CondCounts'
    BY <1>4, <1>5, <1>6, <1>7, SameCondCounts, Zenon DEF RWInv
<1> QED
    BY <1>6, <1>8, Zenon DEF RWInv

(* What a thread that waits, or comes back from a Condition, asks for. *)
LEMMA Asks ==
    ASSUME RWInv, NEW t \in Threads, pc[t] \in Engaged
    PROVE  /\ call[t] \in Calls /\ call[t].lock \in Locks
           /\ call[t].mode = "read" => /\ tmap[call[t].lock][t] = 0
                                       /\ call[t].reads > 0 /\ call[t].reads \in 1 .. MaxReads
                                       /\ tmap[call[t].lock][t] + call[t].reads <= MaxReads
<1>1. call[t] \in Calls /\ call[t].lock \in Locks
    BY Zenon DEF RWInv, WaitInv, Places
<1>2. call[t].mode = "read" => tmap[call[t].lock][t] = 0 /\ call[t].reads > 0
    BY Zenon DEF RWInv, WaitInv, NoReads
<1> QED
    BY <1>1, <1>2, SortsAssumption DEF Calls

(* The top of the wait loop *)
LEMMA LoopInv ==
    ASSUME RWInv, NEW t \in Threads, Loop(t)
    PROVE  RWInv'
<1>1. pc[t] = "loop" /\ Attempt(t, call[t]) /\ cmap' = cmap
    BY Zenon DEF Loop
<1>2. pc[t] \notin WaitStates /\ pc[t] \notin CondStates /\ pc[t] \in Engaged
    BY <1>1, Zenon DEF WaitStates, CondStates, Engaged
<1>3. Mine(t, call[t].lock)
    BY <1>1, Zenon DEF RWInv, WaitInv, Exclusive, Mine
<1>4. Own' /\ WaitInv' /\ Counts' /\ Stay(t) /\ pc'[t] \in {"idle", "check"}
    BY <1>1, <1>2, <1>3, Asks, AttemptInv, Zenon DEF RWInv
<1>5. pc'[t] \notin CondStates
    BY <1>4, Zenon DEF CondStates
<1>6. CondCounts'
    BY <1>1, <1>2, <1>4, <1>5, SameCondCounts, Zenon DEF RWInv
<1> QED
    BY <1>4, <1>6, Zenon DEF RWInv

(* A thread comes back from a Condition and takes the lock again. *)
LEMMA CondResumeInv ==
    ASSUME RWInv, NEW t \in Threads, CondResume(t)
    PROVE  RWInv'
<1> DEFINE c == [call[t] EXCEPT !.cond = Null]
<1>1. /\ pc[t] = "condwoken" /\ Available(call[t].lock) /\ Attempt(t, c)
      /\ cmap' = [cmap EXCEPT ![call[t].lock][call[t].cond] = @ - 1]
    BY Zenon DEF CondResume
<1>2. pc[t] \notin WaitStates /\ pc[t] \in CondStates /\ pc[t] \in Engaged
    BY <1>1, Zenon DEF WaitStates, CondStates, Engaged
<1>3. c \in Calls /\ c.lock = call[t].lock /\ c.mode = call[t].mode /\ c.reads = call[t].reads
    <2>1. call[t] \in Calls
        BY <1>2, Asks, Zenon
    <2> QED
        BY <2>1 DEF Calls
<1>4. Mine(t, call[t].lock)
    BY <1>1, AvailableMine, Zenon
<1> HIDE DEF c
<1>5. Own' /\ WaitInv' /\ Counts' /\ Stay(t) /\ pc'[t] \in {"idle", "check"}
    BY <1>1, <1>2, <1>3, <1>4, Asks, AttemptInv, Zenon DEF RWInv
<1>6. pc'[t] \notin CondStates
    BY <1>5, Zenon DEF CondStates
<1>7. call[t].lock \in Locks /\ call[t].cond \in Conds
    BY <1>2, Zenon DEF RWInv, WaitInv, Places
<1>8. CondCounts'
    BY <1>1, <1>2, <1>5, <1>6, <1>7, LeaveCondCounts, Zenon DEF RWInv
<1> QED
    BY <1>5, <1>8, Zenon DEF RWInv

(* The end of waitOn(), with nothing left of the call or at the loop again. *)
LEMMA EndWaitInv ==
    ASSUME RWInv, NEW t \in Threads, pc[t] \in WaitStates, Mine(t, call[t].lock),
           NEW c, NEW s, EndWait(t, c, s), UNCHANGED <<lockVars, cmap>>,
           \/ s = "idle" /\ c = NoCall
           \/ s = "loop" /\ c = call[t]
    PROVE  RWInv'
<1> DEFINE l == call[t].lock
<1>0. /\ pc \in [Threads -> PCs] /\ call \in [Threads -> Calls] /\ c \in Calls
      /\ waiting_on \in [Threads -> Locks \cup {Null}] /\ pc[t] \in Engaged
    BY NoCallType, Zenon DEF RWInv, WaitInv, Places, WaitStates, Engaged
<1>1. l \in Locks /\ call[t].mode \in Modes
    BY <1>0, Asks, Zenon DEF Calls
<1>2. /\ pc' = [pc EXCEPT ![t] = s] /\ call' = [call EXCEPT ![t] = c]
      /\ waiting_on' = [waiting_on EXCEPT ![t] = Null]
      /\ waiting' = (IF call[t].mode = "write" THEN [waiting EXCEPT ![l] = @ - 1] ELSE waiting)
      /\ readRequests' =
            (IF call[t].mode = "read" THEN [readRequests EXCEPT ![l] = @ - 1] ELSE readRequests)
    BY Zenon DEF EndWait, Goto
<1>3. /\ pc'[t] = s /\ call'[t] = c /\ waiting_on'[t] = Null
      /\ \A u \in Threads \ {t} : /\ pc'[u] = pc[u] /\ call'[u] = call[u]
                                  /\ waiting_on'[u] = waiting_on[u]
    BY <1>0, <1>2, Zenon
<1>4. UNCHANGED lockVars /\ cmap' = cmap /\ tmap' = tmap /\ tid' = tid
    BY Zenon DEF lockVars
<1>5. Own' /\ Change(t, l)
    BY <1>1, <1>4, SameOwn, Zenon DEF RWInv
<1>6. Stay(t) /\ Frame(t, l)
    BY <1>3, <1>5, Zenon DEF Stay, Frame, Woke
<1>7. Kept(t)
    BY <1>0, <1>3, <1>4, Asks, Zenon DEF Kept, Engaged
<1>8. Places'
    <2>1. /\ pc' \in [Threads -> PCs] /\ call' \in [Threads -> Calls]
          /\ waiting_on' \in [Threads -> Locks \cup {Null}]
        BY <1>0, <1>2, Zenon DEF PCs
    <2> QED
        BY <1>1, <1>3, <2>1, Zenon DEF RWInv, WaitInv, Places, Engaged, CondStates
<1>9. pc'[t] \notin WaitStates /\ pc'[t] \notin CondStates /\ pc[t] \notin CondStates
    BY <1>3, Zenon DEF WaitStates, CondStates
<1>10. Counts'
    BY <1>1, <1>2, <1>6, <1>9, LeaveCounts, Zenon DEF RWInv
<1>11. CondCounts'
    BY <1>4, <1>6, <1>9, SameCondCounts, Zenon DEF RWInv
<1>12. WaitInv'
    <2>1. CASE s = "idle"
        <3>1. pc'[t] \in Outside
            BY <1>3, <2>1, Zenon DEF Outside
        <3>2. \A u \in Threads \ {t} :
                 pc'[u] = "blocked" /\ call[u].lock = l /\ call[u].mode = "read" => tid'[l] \in Threads
            <4> SUFFICES ASSUME NEW u \in Threads \ {t}, pc'[u] = "blocked",
                                call[u].lock = l, call[u].mode = "read"
                         PROVE  tid[l] \in Threads
                BY <1>4, Zenon
            <4>1. pc[u] = "blocked"
                BY <1>3, Zenon
            <4>2. tid[call[u].lock] \in Threads
                BY <4>1, Zenon DEF RWInv, WaitInv, SleepingReaders
            <4> QED
                BY <4>2, Zenon
        <3> HIDE DEF l
        <3> QED
            BY <1>1, <1>3, <1>6, <1>7, <1>8, <3>1, <3>2, StepOutside, Zenon DEF RWInv
    <2>2. CASE s = "loop" /\ c = call[t]
        <3>1. call'[t].lock = l /\ pc'[t] = "loop"
            BY <1>3, <2>2, Zenon
        <3>2. WaitInv /\ UNCHANGED lockVars /\ waiting_on'[t] = Null
            BY <1>3, <1>4, Zenon DEF RWInv
        <3> HIDE DEF l
        <3> QED
            BY <1>1, <1>6, <1>7, <1>8, <3>1, <3>2, StepInside, Zenon
    <2> QED
        BY <2>1, <2>2, Zenon
<1> QED
    BY <1>5, <1>10, <1>11, <1>12, Zenon DEF RWInv

LEMMA ResumeInv ==
    ASSUME RWInv, NEW t \in Threads, Resume(t) \/ ResumeTimedOut(t)
    PROVE  RWInv'
<1>1. pc[t] \in WaitStates /\ Available(call[t].lock) /\ UNCHANGED <<lockVars, cmap>>
    BY Zenon DEF Resume, ResumeTimedOut, WaitStates
<1>2. Mine(t, call[t].lock)
    BY <1>1, AvailableMine, Zenon
<1>3. EndWait(t, call[t], "loop") \/ EndWait(t, NoCall, "idle")
    BY Zenon DEF Resume, ResumeTimedOut
<1> QED
    BY <1>1, <1>2, <1>3, EndWaitInv, Zenon

(* A thread stays inside of waitOn() and the locks stay as they are. *)
LEMMA InsideCounts ==
    ASSUME RWInv, NEW t \in Threads, UNCHANGED <<lockVars, waiting, readRequests, cmap>>,
           \A u \in Threads \ {t} : pc'[u] = pc[u] /\ call'[u] = call[u],
           pc[t] \in WaitStates, pc'[t] \in WaitStates,
           call'[t].lock = call[t].lock, call'[t].mode = call[t].mode
    PROVE  Own' /\ Counts' /\ CondCounts'
<1>1. /\ UNCHANGED lockVars /\ waiting' = waiting /\ readRequests' = readRequests
      /\ cmap' = cmap
    BY Zenon
<1>2. Stay(t)
    BY Zenon DEF Stay, Woke
<1>3. pc[t] \notin CondStates /\ pc'[t] \notin CondStates
    BY Zenon DEF WaitStates, CondStates
<1>4. Own'
    BY <1>1, SameOwn, Zenon DEF RWInv
<1>5. Counts'
    BY <1>1, <1>2, SameCounts, Zenon DEF RWInv
<1>6. CondCounts'
    BY <1>1, <1>2, <1>3, SameCondCounts, Zenon DEF RWInv
<1> QED
    BY <1>4, <1>5, <1>6, Zenon

(* A thread leaves its condition variable. *)
LEMMA AwakeInv ==
    ASSUME RWInv, NEW t \in Threads, TimeOut(t) \/ SpuriousWakeup(t)
    PROVE  RWInv'
<1>1. PICK s \in {"woken", "timedout"} : pc' = [pc EXCEPT ![t] = s]
    BY Zenon DEF TimeOut, SpuriousWakeup, Goto
<1>2. /\ pc[t] = "blocked" /\ UNCHANGED <<lockVars, waiting, readRequests, cmap>>
      /\ UNCHANGED <<lockVars, call, waiting_on>>
    BY Zenon DEF TimeOut, SpuriousWakeup
<1>3. WaitInv'
    BY <1>1, <1>2, StepAwake, Zenon DEF RWInv
<1>4. /\ pc'[t] = s /\ call' = call
      /\ \A u \in Threads \ {t} : pc'[u] = pc[u] /\ call'[u] = call[u]
    BY <1>1, <1>2, Zenon DEF RWInv, WaitInv, Places
<1>5. pc[t] \in WaitStates /\ pc'[t] \in WaitStates
    BY <1>2, <1>4, Zenon DEF WaitStates
<1>6. Own' /\ Counts' /\ CondCounts'
    BY <1>2, <1>4, <1>5, InsideCounts, Zenon
<1> QED
    BY <1>3, <1>6, Zenon DEF RWInv

(* waitOn(): the test fails, goes on, or ends. *)
LEMMA CheckInv ==
    ASSUME RWInv, NEW t \in Threads, Check(t)
    PROVE  RWInv'
<1>1. pc[t] = "check" /\ UNCHANGED <<lockVars, cmap>>
    BY Zenon DEF Check
<1>2. pc[t] \in WaitStates
    BY <1>1, Zenon DEF WaitStates
<1>3. CASE /\ call[t].left = {} /\ pc' = [pc EXCEPT ![t] = "blocked"]
           /\ UNCHANGED <<waiting, readRequests, waiting_on, call>>
    <2>1. WaitInv'
        BY <1>1, <1>3, StepBlocks, Zenon DEF RWInv
    <2>2. /\ pc'[t] = "blocked" /\ call' = call
          /\ \A u \in Threads \ {t} : pc'[u] = pc[u] /\ call'[u] = call[u]
        BY <1>3, Zenon DEF RWInv, WaitInv, Places
    <2>3. pc'[t] \in WaitStates
        BY <2>2, Zenon DEF WaitStates
    <2>4. Own' /\ Counts' /\ CondCounts'
        BY <1>1, <1>2, <1>3, <2>2, <2>3, InsideCounts, Zenon
    <2> QED
        BY <2>1, <2>4, Zenon DEF RWInv
<1>4. CASE EndWait(t, NoCall, "idle")
    <2>1. Mine(t, call[t].lock)
        BY <1>1, Zenon DEF RWInv, WaitInv, Exclusive, Mine
    <2> QED
        BY <1>1, <1>2, <1>4, <2>1, EndWaitInv, Zenon
<1>5. ASSUME NEW u \in call[t].left, ~(waiting_on[u] # Null /\ held[t][waiting_on[u]] > 0),
             call' = [call EXCEPT ![t].left = @ \ {u}],
             UNCHANGED <<waiting, readRequests, waiting_on, pc>>
      PROVE  RWInv'
    <2>1. WaitInv'
        BY <1>1, <1>5, StepClears, Zenon DEF RWInv
    <2>2. \A v \in Threads \ {t} : pc'[v] = pc[v] /\ call'[v] = call[v]
        BY <1>5, Zenon DEF RWInv, WaitInv, Places
    <2>3. call'[t].lock = call[t].lock /\ call'[t].mode = call[t].mode
        <3>1. call' = [call EXCEPT ![t] = [call[t] EXCEPT !.left = call[t].left \ {u}]]
            BY <1>5, Zenon
        <3>2. call[t] \in Calls /\ call \in [Threads -> Calls]
            BY Zenon DEF RWInv, WaitInv, Places
        <3> QED
            BY <3>1, <3>2 DEF Calls
    <2>4. Own' /\ Counts' /\ CondCounts'
        BY <1>1, <1>2, <1>5, <2>2, <2>3, InsideCounts, Zenon
    <2> QED
        BY <2>1, <2>4, Zenon DEF RWInv
<1> QED
    BY <1>3, <1>4, <1>5, Zenon DEF Check, Goto

(* A thread outside of the wait loop takes a lock, gives it up, deletes it  *)
(* or moves on, and whoever it signals wakes up.                            *)
OutsideStep(t, l, s, p) ==
    /\ Available(l) /\ pc[t] \in Outside /\ s \in Outside
    /\ Own' /\ Change(t, l)
    /\ p[t] = s /\ \A u \in Threads \ {t} : p[u] = pc[u]
    /\ pc' \in [Threads -> PCs] /\ \A u \in Threads : Woke(p, pc', u)
    /\ call' \in [Threads -> Calls] /\ \A u \in Threads \ {t} : call'[u] = call[u]
    /\ waiting' = waiting /\ readRequests' = readRequests /\ waiting_on' = waiting_on
    /\ s \in CondStates => /\ call'[t].lock \in Locks /\ call'[t].cond \in Conds
                           /\ call'[t].mode = "read" => /\ tmap'[call'[t].lock][t] = 0
                                                        /\ call'[t].reads > 0
    /\ \A u \in Threads \ {t} :
          pc'[u] = "blocked" /\ call[u].lock = l /\ call[u].mode = "read" => tid'[l] \in Threads

LEMMA OutsideInv ==
    ASSUME RWInv, NEW t \in Threads, NEW l \in Locks, NEW s, NEW p, OutsideStep(t, l, s, p)
    PROVE  WaitInv' /\ Counts' /\ Stay(t) /\ (pc'[t] \in CondStates <=> s \in CondStates)
<1>1. /\ Available(l) /\ pc[t] \in Outside /\ s \in Outside
      /\ Own' /\ Change(t, l)
      /\ p[t] = s /\ \A u \in Threads \ {t} : p[u] = pc[u]
      /\ pc' \in [Threads -> PCs] /\ \A u \in Threads : Woke(p, pc', u)
      /\ call' \in [Threads -> Calls] /\ \A u \in Threads \ {t} : call'[u] = call[u]
      /\ waiting' = waiting /\ readRequests' = readRequests /\ waiting_on' = waiting_on
      /\ s \in CondStates => /\ call'[t].lock \in Locks /\ call'[t].cond \in Conds
                             /\ call'[t].mode = "read" => /\ tmap'[call'[t].lock][t] = 0
                                                          /\ call'[t].reads > 0
      /\ \A u \in Threads \ {t} :
            pc'[u] = "blocked" /\ call[u].lock = l /\ call[u].mode = "read" => tid'[l] \in Threads
    BY Zenon DEF OutsideStep
<1>2. \A u \in Threads \ {t} : Woke(pc, pc', u)
    BY <1>1, Zenon DEF Woke
<1>3. Stay(t) /\ Frame(t, l)
    BY <1>1, <1>2, AvailableMine, Zenon DEF Stay, Frame
<1>4. /\ pc'[t] \in Outside /\ (pc'[t] \in CondStates <=> s \in CondStates)
      /\ (pc'[t] \in Engaged => s \in CondStates)
    <2>1. Woke(p, pc', t)
        BY <1>1, Zenon
    <2> QED
        BY <1>1, <2>1, Zenon DEF Woke, Outside, CondStates, Engaged
<1>5. Kept(t)
    BY <1>1, <1>4, Zenon DEF Kept
<1>6. Places'
    <2>1. \A u \in Threads \ {t} : /\ pc'[u] \in Engaged => pc[u] \in Engaged
                                   /\ pc'[u] \in CondStates => pc[u] \in CondStates
        BY <1>1, <1>2, Zenon DEF Woke, Engaged, CondStates
    <2> QED
        BY <1>1, <1>4, <2>1, Zenon DEF RWInv, WaitInv, Places
<1>7. waiting_on'[t] = Null
    BY <1>1, Zenon DEF RWInv, WaitInv, Published, Outside, WaitStates
<1>8. WaitInv'
    BY <1>1, <1>3, <1>4, <1>5, <1>6, <1>7, StepOutside, Zenon DEF RWInv
<1>9. pc[t] \notin WaitStates /\ pc'[t] \notin WaitStates
    BY <1>1, <1>4, Zenon DEF Outside, WaitStates
<1>10. Counts'
    BY <1>1, <1>3, <1>9, SameCounts, Zenon DEF RWInv
<1> QED
    BY <1>1, <1>3, <1>4, <1>8, <1>10, Zenon

(* No reader sleeps at a lock that has no writer. *)
LEMMA ReadersAwake ==
    ASSUME RWInv, NEW l \in Locks, tid[l] \notin Threads, NEW u \in Threads, pc[u] = "blocked"
    PROVE  ~(call[u].lock = l /\ call[u].mode = "read")
BY Zenon DEF RWInv, WaitInv, SleepingReaders

(* tryGrab() and tryReadLock() *)
LEMMA TryInv ==
    ASSUME RWInv, NEW t \in Threads, NEW l \in Locks, tryGrab(t, l) \/ tryReadLock(t, l)
    PROVE  RWInv'
<1>1. /\ pc[t] = "idle" /\ Available(l) /\ tid[l] = Lock_Unlocked
      /\ waiting' = waiting /\ readRequests' = readRequests /\ cmap' = cmap
      /\ waiting_on' = waiting_on /\ pc' = pc /\ call' = call
    BY Zenon DEF tryGrab, tryReadLock, threadVars
<1>2. Own' /\ Change(t, l)
    <2>1. CASE tryGrab(t, l)
        BY <2>1, GrabOwn, Zenon DEF tryGrab, RWInv
    <2>2. CASE tryReadLock(t, l)
        <3>1. tmap[l][t] \in 0 .. MaxReads
            BY Zenon DEF RWInv, Own, LockTypes
        <3>2. 1 \in 1 .. MaxReads /\ tmap[l][t] + 1 <= MaxReads
            BY <2>2, <3>1, SortsAssumption DEF tryReadLock
        <3> QED
            BY <2>2, <3>2, MarkOwn, Zenon DEF tryReadLock, RWInv
    <2> QED
        BY <2>1, <2>2, Zenon
<1>3. /\ pc \in [Threads -> PCs] /\ call \in [Threads -> Calls] /\ pc = [pc EXCEPT ![t] = "idle"]
      /\ "idle" \in Outside /\ pc[t] \in Outside /\ "idle" \notin CondStates
    BY <1>1, Zenon DEF RWInv, WaitInv, Places, Outside, CondStates
<1>4. \A u \in Threads : Woke(pc, pc', u)
    BY <1>1, Zenon DEF Woke
<1>5. tid[l] \notin Threads
    BY <1>1, SortsAssumption, Zenon
<1>6. \A u \in Threads \ {t} :
         pc'[u] = "blocked" /\ call[u].lock = l /\ call[u].mode = "read" => tid'[l] \in Threads
    BY <1>1, <1>5, ReadersAwake, Zenon
<1>7. OutsideStep(t, l, "idle", pc)
    BY <1>1, <1>2, <1>3, <1>4, <1>6, Zenon DEF OutsideStep
<1>9. WaitInv' /\ Counts' /\ Stay(t)
    BY <1>7, OutsideInv, Zenon
<1>8. CondCounts'
    BY <1>1, <1>3, <1>9, SameCondCounts, Zenon DEF RWInv
<1> QED
    BY <1>2, <1>9, <1>8, Zenon DEF RWInv

(* A thread gives up the write lock, or n read locks, and moves to s: from  *)
(* the unlock calls, from Condition::wait() and from cleanup().             *)
GivesUp(t, l, p) ==
    \/ tid[l] = t /\ ReleaseIntern(t, l, p)
    \/ \E n \in 1 .. MaxReads : n <= tmap[l][t] /\ ReleaseReadLockIntern(t, l, n, p)

LEMMA GiveUp ==
    ASSUME RWInv, NEW t \in Threads, NEW l \in Locks, Available(l),
           pc[t] \in Outside, NEW p \in [Threads -> PCs],
           \A u \in Threads \ {t} : p[u] = pc[u], GivesUp(t, l, p)
    PROVE  /\ Own' /\ Change(t, l)
           /\ pc' \in [Threads -> PCs] /\ \A u \in Threads : Woke(p, pc', u)
           /\ \A u \in Threads \ {t} :
                 pc'[u] = "blocked" /\ call[u].lock = l /\ call[u].mode = "read" => tid'[l] \in Threads
<1>1. p \in [Threads -> PCs] /\ \A u \in Threads \ {t} : p[u] = pc[u]
    OBVIOUS
<1>2. CASE tid[l] = t /\ ReleaseIntern(t, l, p)
    <2>1. Own' /\ Change(t, l)
        BY <1>2, ReleaseOwn, Zenon DEF RWInv
    <2>2. pc' \in SignalImpl(p, l)
        BY <1>2, Zenon DEF ReleaseIntern
    <2>3. pc' \in [Threads -> PCs] /\ \A u \in Threads : Woke(p, pc', u)
        BY <1>1, <2>2, Wakeups, Zenon
    <2>4. \A u \in Threads \ {t} : ~(pc'[u] = "blocked" /\ call[u].lock = l /\ call[u].mode = "read")
        BY <1>1, <2>2, NoReaderSleeps, Zenon
    <2> QED
        BY <2>1, <2>3, <2>4, Zenon
<1>3. ASSUME NEW n \in 1 .. MaxReads, n <= tmap[l][t], ReleaseReadLockIntern(t, l, n, p)
      PROVE  /\ Own' /\ Change(t, l)
             /\ pc' \in [Threads -> PCs] /\ \A u \in Threads : Woke(p, pc', u)
             /\ \A u \in Threads \ {t} :
                   pc'[u] = "blocked" /\ call[u].lock = l /\ call[u].mode = "read" => tid'[l] \in Threads
    <2>1. Own' /\ Change(t, l) /\ tid[l] = Lock_Unlocked
        BY <1>3, ReleaseReadOwn, Zenon DEF RWInv
    <2>2. pc' \in Signal(p, l) \/ pc' = p
        BY <1>3, Zenon DEF ReleaseReadLockIntern
    <2>3. pc' \in [Threads -> PCs] /\ \A u \in Threads : Woke(p, pc', u)
        BY <1>1, <2>2, Wakeups, Zenon
    <2>4. tid[l] \notin Threads
        BY <2>1, SortsAssumption, Zenon
    <2>5. ASSUME NEW u \in Threads \ {t}, pc'[u] = "blocked"
          PROVE  ~(call[u].lock = l /\ call[u].mode = "read")
        <3>1. pc[u] = "blocked"
            BY <1>1, <2>3, <2>5, Zenon DEF Woke
        <3> QED
            BY <2>4, <3>1, ReadersAwake, Zenon
    <2> QED
        BY <2>1, <2>3, <2>5, Zenon
<1> QED
    BY <1>2, <1>3, Zenon DEF GivesUp

(* release(), readUnlock() and the cleanup of a lock that is still held. *)
LEMMA UnlockInv ==
    ASSUME RWInv, NEW t \in Threads, NEW l \in Locks, Available(l), pc[t] \in {"idle", "exiting"},
           GivesUp(t, l, pc), UNCHANGED <<waiting, readRequests, cmap, waiting_on, call>>
    PROVE  RWInv'
<1>1. /\ pc \in [Threads -> PCs] /\ call \in [Threads -> Calls]
      /\ pc[t] \in Outside /\ pc[t] \notin CondStates
    BY Zenon DEF RWInv, WaitInv, Places, Outside, CondStates
<1>2. /\ Own' /\ Change(t, l)
      /\ pc' \in [Threads -> PCs] /\ \A u \in Threads : Woke(pc, pc', u)
      /\ \A u \in Threads \ {t} :
            pc'[u] = "blocked" /\ call[u].lock = l /\ call[u].mode = "read" => tid'[l] \in Threads
    BY <1>1, GiveUp, Zenon
<1>3. /\ call' = call /\ cmap' = cmap
      /\ waiting' = waiting /\ readRequests' = readRequests /\ waiting_on' = waiting_on
    BY Zenon
<1>4. call' \in [Threads -> Calls] /\ \A u \in Threads \ {t} : call'[u] = call[u]
    BY <1>1, <1>3, Zenon
<1>5. OutsideStep(t, l, pc[t], pc)
    BY <1>1, <1>2, <1>3, <1>4, Zenon DEF OutsideStep
<1>6. WaitInv' /\ Counts' /\ Stay(t) /\ (pc'[t] \in CondStates <=> pc[t] \in CondStates)
    BY <1>5, OutsideInv, Zenon
<1>7. CondCounts'
    BY <1>1, <1>3, <1>6, SameCondCounts, Zenon DEF RWInv
<1> QED
    BY <1>2, <1>6, <1>7, Zenon DEF RWInv

LEMMA ReleaseInv ==
    ASSUME RWInv, NEW t \in Threads, NEW l \in Locks, release(t, l) \/ readUnlock(t, l)
    PROVE  RWInv'
<1>1. CASE release(t, l)
    BY <1>1, UnlockInv, Zenon DEF release, GivesUp
<1>2. CASE readUnlock(t, l)
    <2>1. tmap[l][t] \in 0 .. MaxReads
        BY Zenon DEF RWInv, Own, LockTypes
    <2>2. 1 \in 1 .. MaxReads /\ 1 <= tmap[l][t]
        BY <1>2, <2>1, SortsAssumption DEF readUnlock
    <2> QED
        BY <1>2, <2>2, UnlockInv, Zenon DEF readUnlock, GivesUp
<1> QED
    BY <1>1, <1>2, Zenon

(* Condition::wait() gives up the lock, all read locks of the thread at     *)
(* once, and remembers how to take it back.                                 *)
LEMMA ExternGives ==
    ASSUME RWInv, NEW t \in Threads, NEW l \in Locks, NEW d \in Conds, ExternWait(t, l, d)
    PROVE  \E p \in [Threads -> PCs], c \in Calls :
              /\ p[t] = "cond" /\ \A u \in Threads \ {t} : p[u] = pc[u]
              /\ call' = [call EXCEPT ![t] = c] /\ c.lock = l /\ c.cond = d
              /\ c.mode = "read" => tmap'[l][t] = 0 /\ c.reads > 0
              /\ GivesUp(t, l, p)
<1>1. PICK p : p = [pc EXCEPT ![t] = "cond"]
    BY Zenon
<1>2. p \in [Threads -> PCs] /\ p[t] = "cond" /\ \A u \in Threads \ {t} : p[u] = pc[u]
    BY <1>1, Zenon DEF RWInv, WaitInv, Places, PCs
<1> SUFFICES \E c \in Calls : /\ call' = [call EXCEPT ![t] = c] /\ c.lock = l /\ c.cond = d
                              /\ c.mode = "read" => tmap'[l][t] = 0 /\ c.reads > 0
                              /\ GivesUp(t, l, p)
    BY <1>2, Zenon
<1>3. CASE tid[l] = t /\ ReleaseIntern(t, l, p)
           /\ call' = [call EXCEPT ![t] = [NoCall EXCEPT !.lock = l, !.cond = d]]
    <2>1. /\ [NoCall EXCEPT !.lock = l, !.cond = d] \in Calls
          /\ [NoCall EXCEPT !.lock = l, !.cond = d].lock = l
          /\ [NoCall EXCEPT !.lock = l, !.cond = d].cond = d
          /\ [NoCall EXCEPT !.lock = l, !.cond = d].mode # "read"
        BY NoCallType DEF NoCall, Calls
    <2> QED
        BY <1>3, <2>1, Zenon DEF GivesUp
<1>4. CASE /\ tid[l] # Lock_Deleted /\ tmap[l][t] > 0
           /\ ReleaseReadLockIntern(t, l, tmap[l][t], p)
           /\ call' = [call EXCEPT ![t] = [NoCall EXCEPT !.lock = l, !.cond = d, !.mode = "read",
                                                         !.reads = tmap[l][t]]]
    <2>1. tmap[l][t] \in 0 .. MaxReads
        BY Zenon DEF RWInv, Own, LockTypes
    <2>2. PICK n : n = tmap[l][t]
        BY Zenon
    <2>3. n \in 1 .. MaxReads /\ n \in 0 .. MaxReads /\ n > 0 /\ n <= tmap[l][t] /\ tmap[l][t] - n = 0
        BY <1>4, <2>1, <2>2, SortsAssumption
    <2>4. tmap'[l][t] = 0
        BY <1>4, <2>2, <2>3, ReleaseReadOwn, Zenon DEF RWInv
    <2>5. PICK c : c = [NoCall EXCEPT !.lock = l, !.cond = d, !.mode = "read", !.reads = n]
        BY Zenon
    <2>6. c \in Calls /\ c.lock = l /\ c.cond = d /\ c.reads = n
        BY <2>3, <2>5, NoCallType DEF NoCall, Calls, Modes
    <2>7. call' = [call EXCEPT ![t] = c]
        BY <1>4, <2>2, <2>5, Zenon
    <2> QED
        BY <1>4, <2>2, <2>3, <2>4, <2>6, <2>7, Zenon DEF GivesUp
<1> QED
    BY <1>1, <1>3, <1>4, Zenon DEF ExternWait

(* Condition::wait() *)
LEMMA ExternWaitInv ==
    ASSUME RWInv, NEW t \in Threads, NEW l \in Locks, NEW d \in Conds, ExternWait(t, l, d)
    PROVE  RWInv'
<1>1. PICK p \in [Threads -> PCs], c \in Calls :
          /\ p[t] = "cond" /\ \A u \in Threads \ {t} : p[u] = pc[u]
          /\ call' = [call EXCEPT ![t] = c] /\ c.lock = l /\ c.cond = d
          /\ c.mode = "read" => tmap'[l][t] = 0 /\ c.reads > 0
          /\ GivesUp(t, l, p)
    BY ExternGives, Zenon
<1>2. /\ pc[t] = "idle" /\ Available(l) /\ cmap' = [cmap EXCEPT ![l][d] = @ + 1]
      /\ waiting' = waiting /\ readRequests' = readRequests /\ waiting_on' = waiting_on
    BY Zenon DEF ExternWait
<1>3. pc \in [Threads -> PCs] /\ call \in [Threads -> Calls]
    BY Zenon DEF RWInv, WaitInv, Places
<1>4. "cond" \in Outside /\ "cond" \in CondStates /\ pc[t] \in Outside /\ pc[t] \notin CondStates
    BY <1>2, Zenon DEF Outside, CondStates
<1>5. /\ Own' /\ Change(t, l)
      /\ pc' \in [Threads -> PCs] /\ \A u \in Threads : Woke(p, pc', u)
      /\ \A u \in Threads \ {t} :
            pc'[u] = "blocked" /\ call[u].lock = l /\ call[u].mode = "read" => tid'[l] \in Threads
    BY <1>1, <1>2, <1>3, <1>4, GiveUp, Zenon
<1>6. /\ call' \in [Threads -> Calls] /\ \A u \in Threads \ {t} : call'[u] = call[u]
      /\ call'[t] = c
    BY <1>1, <1>3, Zenon
<1>7. /\ call'[t].lock = l /\ call'[t].cond = d
      /\ call'[t].mode = "read" => tmap'[l][t] = 0 /\ call'[t].reads > 0
    BY <1>1, <1>6, Zenon
<1>8. OutsideStep(t, l, "cond", p)
    BY <1>1, <1>2, <1>3, <1>4, <1>5, <1>6, <1>7, Zenon DEF OutsideStep
<1>9. WaitInv' /\ Counts' /\ Stay(t) /\ pc'[t] \in CondStates
    BY <1>4, <1>8, OutsideInv, Zenon
<1>10. CondCounts'
    BY <1>2, <1>4, <1>7, <1>9, JoinCondCounts, Zenon DEF RWInv
<1> QED
    BY <1>5, <1>9, <1>10, Zenon DEF RWInv

(* A thread is woken from a Condition, ends, or is started anew. *)
LEMMA MoveInv ==
    ASSUME RWInv, NEW t \in Threads, CondWakeup(t) \/ Exit(t) \/ Restart(t)
    PROVE  RWInv'
<1>1. /\ UNCHANGED lockVars /\ waiting' = waiting /\ readRequests' = readRequests /\ cmap' = cmap
      /\ waiting_on' = waiting_on /\ call' = call
    BY Zenon DEF CondWakeup, Exit, Restart
<1>2. Own'
    BY <1>1, SameOwn, Zenon DEF RWInv
<1>3. PICK s \in Outside :
          /\ pc' = [pc EXCEPT ![t] = s] /\ pc[t] \in Outside /\ (s \in CondStates <=> pc[t] \in CondStates)
    BY Zenon DEF CondWakeup, Exit, Restart, Goto, Outside, CondStates
<1>4. /\ pc'[t] = s /\ \A u \in Threads \ {t} : pc'[u] = pc[u]
      /\ pc' \in [Threads -> PCs]
    BY <1>3, Zenon DEF RWInv, WaitInv, Places, PCs, Outside
<1>5. tid' = tid /\ num_readers' = num_readers /\ tmap' = tmap /\ vmap' = vmap
    BY <1>1, Zenon DEF lockVars
<1>6. \A u \in Threads : /\ pc'[u] \in Engaged => pc[u] \in Engaged
                         /\ pc'[u] \in CondStates <=> pc[u] \in CondStates
                         /\ pc'[u] \in WaitStates <=> pc[u] \in WaitStates
                         /\ pc'[u] \in {"loop", "check"} <=> pc[u] \in {"loop", "check"}
                         /\ pc'[u] = "check" <=> pc[u] = "check"
                         /\ pc'[u] = "blocked" <=> pc[u] = "blocked"
                         /\ pc'[u] \in Past <=> pc[u] \in Past
    <2>1. /\ pc'[t] \in Engaged => pc[t] \in Engaged
          /\ pc'[t] \in CondStates <=> pc[t] \in CondStates
          /\ pc'[t] \notin WaitStates /\ pc[t] \notin WaitStates
          /\ pc'[t] \notin {"loop", "check"} /\ pc[t] \notin {"loop", "check"}
          /\ pc'[t] \notin Past /\ pc[t] \notin Past
        BY <1>3, <1>4, Zenon DEF Outside, Engaged, CondStates, WaitStates, Past
    <2> QED
        BY <1>4, <2>1, Zenon DEF Past
<1>7. Places'
    BY <1>1, <1>4, <1>6, Zenon DEF RWInv, WaitInv, Places
<1>8. NoReads'
    BY <1>1, <1>5, <1>6, Zenon DEF RWInv, WaitInv, NoReads
<1>9. Published'
    BY <1>1, <1>6, Zenon DEF RWInv, WaitInv, Published
<1>10. Exclusive'
    BY <1>1, <1>6, Zenon DEF RWInv, WaitInv, Exclusive
<1>11. HeldInCheck'
    BY <1>1, <1>5, <1>6, Zenon DEF RWInv, WaitInv, HeldInCheck
<1>12. SleepingReaders'
    BY <1>1, <1>5, <1>6, Zenon DEF RWInv, WaitInv, SleepingReaders
<1>13. NoPair'
    BY <1>1, <1>5, <1>6, Zenon DEF RWInv, WaitInv, NoPair, Cleared, Holds
<1>14. Stay(t)
    BY <1>1, <1>4, Zenon DEF Stay, Woke
<1>15. Counts'
    BY <1>1, <1>6, <1>14, SameCounts, Zenon DEF RWInv
<1>16. CondCounts'
    BY <1>1, <1>6, <1>14, SameCondCounts, Zenon DEF RWInv
<1> QED
    BY <1>2, <1>7, <1>8, <1>9, <1>10, <1>11, <1>12, <1>13, <1>15, <1>16, Zenon DEF RWInv, WaitInv

(* destructor() wakes threads, all of those that wait for a lock that a     *)
(* writer holds.                                                            *)
LEMMA DestructorWakes ==
    ASSUME RWInv, NEW t \in Threads, NEW l \in Locks, Destructor(t, l)
    PROVE  /\ pc' \in [Threads -> PCs] /\ \A u \in Threads : Woke(pc, pc', u)
           /\ \A u \in Threads : ~(pc'[u] = "blocked" /\ call[u].lock = l /\ call[u].mode = "read")
<1>1. pc \in [Threads -> PCs]
    BY Zenon DEF RWInv, WaitInv, Places
<1>2. PICK p, M : /\ p = BroadcastConds(pc, {d \in Conds : cmap[l][d] > 0})
                  /\ pc' = Broadcast(p, l, M)
                  /\ tid[l] \in Threads => M = Modes
    BY Zenon DEF Destructor
<1>3. p \in [Threads -> PCs] /\ \A u \in Threads : Woke(pc, p, u)
    BY <1>1, <1>2, Wakeups, Zenon
<1>4. pc' \in [Threads -> PCs] /\ \A u \in Threads : Woke(p, pc', u)
    BY <1>2, <1>3, Wakeups, Zenon
<1>5. \A u \in Threads : Woke(pc, pc', u)
    BY <1>3, <1>4, Zenon DEF Woke
<1>6. ASSUME NEW u \in Threads, pc'[u] = "blocked", call[u].lock = l, call[u].mode = "read"
      PROVE  FALSE
    <2>1. pc[u] = "blocked" /\ p[u] = "blocked"
        BY <1>3, <1>4, <1>6, Zenon DEF Woke
    <2>2. CASE tid[l] \in Threads
        <3>1. u \in Blocked(p, l, "read") /\ "read" \in M
            BY <1>2, <1>6, <2>1, <2>2, Zenon DEF Blocked, Modes
        <3>2. pc'[u] = "woken"
            BY <1>2, <3>1, Zenon DEF Broadcast
        <3> QED
            BY <1>6, <3>2, Zenon
    <2>3. CASE tid[l] \notin Threads
        BY <1>6, <2>1, <2>3, ReadersAwake, Zenon
    <2> QED
        BY <2>2, <2>3, Zenon
<1> QED
    BY <1>4, <1>5, <1>6, Zenon

(* destructor() *)
LEMMA DestructorInv ==
    ASSUME RWInv, NEW t \in Threads, NEW l \in Locks, Destructor(t, l)
    PROVE  RWInv'
<1>1. Own' /\ Change(t, l)
    BY DestructorOwn, Zenon DEF RWInv
<1>2. /\ pc[t] = "idle" /\ Available(l) /\ cmap' = cmap /\ call' = call
      /\ waiting' = waiting /\ readRequests' = readRequests /\ waiting_on' = waiting_on
      /\ pc \in [Threads -> PCs] /\ call \in [Threads -> Calls]
    BY Zenon DEF Destructor, RWInv, WaitInv, Places
<1>3. /\ pc' \in [Threads -> PCs] /\ \A u \in Threads : Woke(pc, pc', u)
      /\ \A u \in Threads : ~(pc'[u] = "blocked" /\ call[u].lock = l /\ call[u].mode = "read")
    BY DestructorWakes, Zenon
<1>4. "idle" \in Outside /\ "idle" \notin CondStates
    BY Zenon DEF Outside, CondStates
<1>5. OutsideStep(t, l, "idle", pc)
    BY <1>1, <1>2, <1>3, <1>4, Zenon DEF OutsideStep
<1>6. WaitInv' /\ Counts' /\ Stay(t) /\ pc'[t] \notin CondStates
    BY <1>4, <1>5, OutsideInv, Zenon
<1>7. CondCounts'
    BY <1>2, <1>4, <1>6, SameCondCounts, Zenon DEF RWInv
<1> QED
    BY <1>1, <1>6, <1>7, Zenon DEF RWInv

(* cleanup() *)
LEMMA CleanupInv ==
    ASSUME RWInv, NEW t \in Threads, NEW l \in Locks, Cleanup(t, l)
    PROVE  RWInv'
<1>1. /\ pc[t] = "exiting" /\ Available(l)
      /\ UNCHANGED <<waiting, readRequests, cmap, waiting_on, call>>
    BY Zenon DEF Cleanup
<1>2. CASE tid[l] = t /\ ReleaseIntern(t, l, pc)
    BY <1>1, <1>2, UnlockInv, Zenon DEF GivesUp
<1>3. CASE tmap[l][t] \in 1 .. MaxReads /\ ReleaseReadLockIntern(t, l, tmap[l][t], pc)
    <2>1. tmap[l][t] <= tmap[l][t]
        BY <1>3
    <2>2. GivesUp(t, l, pc)
        BY <1>3, <2>1, Zenon DEF GivesUp
    <2> QED
        BY <1>1, <2>2, UnlockInv, Zenon
<1>4. CASE Own' /\ Change(t, l) /\ UNCHANGED <<tid, num_readers, tmap, vmap, held, pc>>
    <2>1. Places' /\ NoReads' /\ Published' /\ Exclusive'
        BY <1>1, <1>4, Zenon DEF RWInv, WaitInv, Places, NoReads, Published, Exclusive
    <2>2. HeldInCheck' /\ SleepingReaders' /\ NoPair'
        BY <1>1, <1>4, Zenon
        DEF RWInv, WaitInv, HeldInCheck, SleepingReaders, NoPair, Cleared, Holds
    <2>3. Counts' /\ CondCounts'
        BY <1>1, <1>4, Zenon DEF RWInv, Counts, CondCounts
    <2> QED
        BY <1>4, <2>1, <2>2, <2>3, Zenon DEF RWInv, WaitInv
<1> QED
    BY <1>2, <1>3, <1>4, CleanupCases, Zenon DEF RWInv

(* The initial state: no lock is held and no thread waits. *)
LEMMA InitInv ==
    Init => RWInv
<1> SUFFICES ASSUME Init PROVE RWInv
    BY Zenon
<1>1. LockTypes
    BY SortsAssumption DEF Init, LockTypes
<1>2. \A l \in Locks : /\ tid[l] = Lock_Unlocked /\ num_readers[l] = 0 /\ vmap[l] = {}
                       /\ \A t \in Threads : tmap[l][t] = 0 /\ held[t][l] = 0 /\ resources[t] = {}
    BY Zenon DEF Init
<1>3. \A l \in Locks, t \in Threads : ~Holds(t, l)
    BY <1>2, SortsAssumption, Zenon DEF Holds
<1>4. ReadersExact
    <2>1. ASSUME NEW l \in Locks
          PROVE  /\ num_readers[l] = Cardinality(ReadLocks(l))
                 /\ vmap[l] = {t \in Threads : tmap[l][t] > 0}
        <3>1. ReadLocks(l) = {}
            BY <1>2 DEF ReadLocks
        <3>2. \A t \in Threads : ~(tmap[l][t] > 0)
            BY <1>2
        <3> QED
            BY <1>2, <3>1, <3>2, FS_EmptySet, Zenon
    <2> QED
        BY <1>2, <1>3, <2>1, Zenon DEF ReadersExact
<1>5. ResourcesExact /\ Alone
    BY <1>2, <1>3, Zenon DEF ResourcesExact, Alone
<1>6. \A t \in Threads : pc[t] = "idle" /\ waiting_on[t] = Null
    BY Zenon DEF Init
<1>7. Places
    BY <1>6, NoCallType, Zenon DEF Init, Places, PCs, Engaged, CondStates
<1>8. NoReads /\ Published /\ Exclusive /\ HeldInCheck /\ SleepingReaders
    BY <1>6, Zenon
    DEF NoReads, Published, Exclusive, HeldInCheck, SleepingReaders, WaitStates, Engaged
<1>9. NoPair
    BY <1>6, Zenon DEF NoPair, Cleared, Past
<1>10. \A l, m : Waiters(pc, call, l, m) = {} /\ CondWaiters(pc, call, l, m) = {}
    BY <1>6, Zenon DEF Waiters, CondWaiters, WaitStates, CondStates
<1>11. waiting \in [Locks -> Nat] /\ readRequests \in [Locks -> Nat] /\ cmap \in [Locks -> [Conds -> Nat]]
    BY DEF Init
<1>12. \A l \in Locks : waiting[l] = 0 /\ readRequests[l] = 0 /\ \A d \in Conds : cmap[l][d] = 0
    BY Zenon DEF Init
<1>13. Counts /\ CondCounts
    BY <1>10, <1>11, <1>12, FS_EmptySet, Zenon DEF Counts, CondCounts
<1> QED
    BY <1>1, <1>4, <1>5, <1>7, <1>8, <1>9, <1>13, Zenon DEF RWInv, Own, WaitInv

---------------------------------------------------------------------------
(* Every step keeps the inductive invariant. *)
LEMMA StepInv ==
    ASSUME RWInv, [Next]_vars
    PROVE  RWInv'
<1>1. CASE Next
    <2>1. PICK t \in Threads :
             \/ \E l \in Locks : \/ \E mode \in Modes, timed \in Timed : Lock(t, l, mode, timed)
                                 \/ tryGrab(t, l) \/ tryReadLock(t, l)
                                 \/ release(t, l) \/ readUnlock(t, l)
                                 \/ Destructor(t, l) \/ Cleanup(t, l)
                                 \/ \E c \in Conds : ExternWait(t, l, c)
             \/ Loop(t) \/ Check(t) \/ TimeOut(t) \/ SpuriousWakeup(t)
             \/ Resume(t) \/ ResumeTimedOut(t)
             \/ CondWakeup(t) \/ CondResume(t)
             \/ Exit(t) \/ Restart(t)
        BY <1>1, Zenon DEF Next
    <2>2. ASSUME NEW l \in Locks, NEW mode \in Modes, NEW timed \in Timed, Lock(t, l, mode, timed)
          PROVE  RWInv'
        BY <2>2, LockInv, Zenon
    <2>3. ASSUME NEW l \in Locks, tryGrab(t, l) \/ tryReadLock(t, l) PROVE RWInv'
        BY <2>3, TryInv, Zenon
    <2>4. ASSUME NEW l \in Locks, release(t, l) \/ readUnlock(t, l) PROVE RWInv'
        BY <2>4, ReleaseInv, Zenon
    <2>5. ASSUME NEW l \in Locks, Destructor(t, l) PROVE RWInv'
        BY <2>5, DestructorInv, Zenon
    <2>6. ASSUME NEW l \in Locks, Cleanup(t, l) PROVE RWInv'
        BY <2>6, CleanupInv, Zenon
    <2>7. ASSUME NEW l \in Locks, NEW c \in Conds, ExternWait(t, l, c) PROVE RWInv'
        BY <2>7, ExternWaitInv, Zenon
    <2>8. CASE Loop(t)
        BY <2>8, LoopInv, Zenon
    <2>9. CASE Check(t)
        BY <2>9, CheckInv, Zenon
    <2>10. CASE TimeOut(t) \/ SpuriousWakeup(t)
        BY <2>10, AwakeInv, Zenon
    <2>11. CASE Resume(t) \/ ResumeTimedOut(t)
        BY <2>11, ResumeInv, Zenon
    <2>12. CASE CondWakeup(t) \/ Exit(t) \/ Restart(t)
        BY <2>12, MoveInv, Zenon
    <2>13. CASE CondResume(t)
        BY <2>13, CondResumeInv, Zenon
    <2> QED
        BY <2>1, <2>2, <2>3, <2>4, <2>5, <2>6, <2>7, <2>8, <2>9, <2>10, <2>11, <2>12, <2>13, Zenon
<1>2. CASE UNCHANGED vars
    <2>1. /\ UNCHANGED lockVars /\ waiting' = waiting /\ readRequests' = readRequests /\ cmap' = cmap
          /\ waiting_on' = waiting_on /\ pc' = pc /\ call' = call
          /\ tid' = tid /\ num_readers' = num_readers /\ tmap' = tmap /\ vmap' = vmap
        BY <1>2, Zenon DEF vars, lockVars, threadVars
    <2>2. Own'
        BY <2>1, SameOwn, Zenon DEF RWInv
    <2>3. Places' /\ NoReads' /\ Published' /\ Exclusive'
        BY <2>1, Zenon DEF RWInv, WaitInv, Places, NoReads, Published, Exclusive
    <2>4. HeldInCheck' /\ SleepingReaders' /\ NoPair'
        BY <2>1, Zenon DEF RWInv, WaitInv, HeldInCheck, SleepingReaders, NoPair, Cleared, Holds
    <2>5. Counts' /\ CondCounts'
        BY <2>1, Zenon DEF RWInv, Counts, CondCounts
    <2> QED
        BY <2>2, <2>3, <2>4, <2>5, Zenon DEF RWInv, WaitInv
<1> QED
    BY <1>1, <1>2, Zenon

(* The inductive invariant: what each lock knows of its holders and of the  *)
(* threads that wait, and which of them can be waiting for each other.      *)
THEOREM RWInvariance == Spec => []RWInv
<1>1. RWInv /\ [Next]_vars => RWInv'
    BY StepInv, Zenon
<1> QED
    BY <1>1, InitInv, PTL DEF Spec

(* A writer is alone and a reader sleeps only while a writer holds the      *)
(* lock: every release of the write lock, and a delete, wakes the readers,  *)
(* because readRequests is their exact number and the last of a thread's    *)
(* steps in waitOn() is under the same asl_lock as the release.             *)
THEOREM RWWriterExcludes == Spec => []WriterExcludes
<1>1. RWInv => WriterExcludes
    <2> SUFFICES ASSUME RWInv, NEW l \in Locks
                 PROVE  /\ tid[l] \in Threads => num_readers[l] = 0 /\ vmap[l] = {}
                        /\ Blocked(pc, l, "read") # {} => tid[l] \in Threads
        BY Zenon DEF WriterExcludes
    <2>1. tid[l] \in Threads => num_readers[l] = 0 /\ vmap[l] = {}
        BY Readers, SortsAssumption, Zenon DEF RWInv, Own, Alone
    <2>2. Blocked(pc, l, "read") # {} => tid[l] \in Threads
        BY Zenon DEF RWInv, WaitInv, SleepingReaders, Blocked
    <2> QED
        BY <2>1, <2>2, Zenon
<1> QED
    BY <1>1, RWInvariance, PTL

(* What the lock knows of its readers, their read locks, its waiting        *)
(* threads and their Conditions is exact, in every reachable state.         *)
THEOREM RWBookkeepingExact == Spec => []BookkeepingExact
<1>1. RWInv => BookkeepingExact
    <2> SUFFICES ASSUME RWInv PROVE BookkeepingExact
        BY Zenon
    <2>1. TypeOK
        BY Zenon DEF RWInv, Own, LockTypes, WaitInv, Places, Calls, Counts, CondCounts, TypeOK
    <2>2. \A l \in Locks, m \in Modes :
             (IF m = "write" THEN waiting[l] ELSE readRequests[l]) = Cardinality(Waiters(pc, call, l, m))
        BY Zenon DEF RWInv, Counts, Modes
    <2>3. \A l \in Locks, m \in Modes :
             (IF m = "write" THEN waiting[l] ELSE readRequests[l]) =
                 Cardinality({t \in Threads : /\ pc[t] \in WaitStates
                                              /\ call[t].lock = l /\ call[t].mode = m})
        BY <2>2, Zenon DEF Waiters
    <2>4. \A l \in Locks, c \in Conds :
             cmap[l][c] = Cardinality({t \in Threads : /\ pc[t] \in CondStates
                                                       /\ call[t].lock = l /\ call[t].cond = c})
        BY Zenon DEF RWInv, CondCounts, CondWaiters
    <2>5. \A t \in Threads : waiting_on[t] = IF pc[t] \in WaitStates THEN call[t].lock ELSE Null
        BY Zenon DEF RWInv, WaitInv, Published
    <2>6. WaitingExact
        BY <2>3, <2>4, <2>5, Zenon DEF WaitingExact
    <2> QED
        BY <2>1, <2>6, Zenon DEF RWInv, Own, BookkeepingExact
<1> QED
    BY <1>1, RWInvariance, PTL

(* The deadlock test of waitOn() suffices for two threads: they never sleep *)
(* each for a lock that the other holds, and none sleeps for its own.       *)
THEOREM RWNoPairDeadlock == Spec => []NoPairDeadlock
<1>1. RWInv => NoPairDeadlock
    BY Zenon DEF RWInv, WaitInv, NoPair, NoPairDeadlock, Cleared, Past
<1> QED
    BY <1>1, RWInvariance, PTL

---------------------------------------------------------------------------
(* Wakeups of writers.  A step of thread t strands the writers of l only if *)
(* a thread has timed out there.                                            *)

TimedOutAt(l) == \E u \in Threads : pc[u] = "timedout" /\ call[u].lock = l
Excused(l)    == Stranded(l)' => Stranded(l) \/ TimedOutAt(l)

LEMMA StrandedNext ==
    ASSUME NEW l, Stranded(l)'
    PROVE  /\ tid'[l] = Lock_Unlocked /\ num_readers'[l] = 0
           /\ \E u \in Threads : pc'[u] = "blocked" /\ call'[u].lock = l /\ call'[u].mode = "write"
           /\ \A u \in Threads : ~(pc'[u] \in {"woken", "loop"} /\ call'[u].lock = l)
BY Zenon DEF Stranded, Blocked

(* A step that leaves lock l alone, and the threads that use it. *)
LEMMA NotStranding ==
    ASSUME NEW t \in Threads, NEW l, Stay(t), tid'[l] = tid[l], num_readers'[l] = num_readers[l],
           pc'[t] = "blocked" /\ call'[t].lock = l
               => pc[t] = "blocked" /\ call'[t] = call[t],
           pc[t] \in {"woken", "loop"} /\ call[t].lock = l
               => pc'[t] \in {"woken", "loop"} /\ call'[t].lock = l
    PROVE  Excused(l)
<1> SUFFICES ASSUME Stranded(l)' PROVE Stranded(l)
    BY Zenon DEF Excused
<1>1. PICK u \in Threads : pc'[u] = "blocked" /\ call'[u].lock = l /\ call'[u].mode = "write"
    BY StrandedNext, Zenon
<1>2. pc[u] = "blocked" /\ call[u].lock = l /\ call[u].mode = "write"
    <2>1. CASE u = t
        BY <1>1, <2>1, Zenon
    <2>2. CASE u # t
        BY <1>1, <2>2, Zenon DEF Stay, Woke
    <2> QED
        BY <2>1, <2>2, Zenon
<1>3. ASSUME NEW v \in Threads, pc[v] \in {"woken", "loop"}, call[v].lock = l PROVE FALSE
    <2>1. pc'[v] \in {"woken", "loop"} /\ call'[v].lock = l
        <3>1. CASE v = t
            BY <1>3, <3>1, Zenon
        <3>2. CASE v # t
            BY <1>3, <3>2, Zenon DEF Stay, Woke
        <3> QED
            BY <3>1, <3>2, Zenon
    <2> QED
        BY <2>1, StrandedNext, Zenon
<1>4. tid[l] = Lock_Unlocked /\ num_readers[l] = 0
    BY StrandedNext, Zenon
<1> QED
    BY <1>2, <1>3, <1>4, Zenon DEF Stranded, Blocked

(* A lock that is held, or was deleted, strands nobody. *)
LEMMA NotFree ==
    ASSUME NEW l, tid'[l] # Lock_Unlocked \/ num_readers'[l] > 0
    PROVE  Excused(l)
<1> SUFFICES ASSUME Stranded(l)' PROVE FALSE
    BY Zenon DEF Excused
<1>1. tid'[l] = Lock_Unlocked /\ num_readers'[l] = 0
    BY StrandedNext, Zenon
<1>2. ~(0 > 0)
    OBVIOUS
<1> QED
    BY <1>1, <1>2, Zenon

(* One pass of the loop: after it the lock is held, or deleted. *)
LEMMA AttemptStrands ==
    ASSUME RWInv, NEW t \in Threads, NEW c, NEW l \in Locks, NEW k \in Locks,
           c.lock = k, Attempt(t, c),
           c.mode = "read" => c.reads \in 1 .. MaxReads /\ tmap[k][t] + c.reads <= MaxReads,
           pc[t] \in {"loop", "woken"} => call[t].lock = k
    PROVE  Stay(t) /\ Excused(l)
<1>1. pc' \in {[pc EXCEPT ![t] = "check"], [pc EXCEPT ![t] = "idle"]}
    BY Zenon DEF Attempt, StartWait, Return, Goto
<1>2. PICK d : call' = [call EXCEPT ![t] = d]
    BY Zenon DEF Attempt, StartWait, Return
<1>3. pc \in [Threads -> PCs] /\ call \in [Threads -> Calls]
    BY Zenon DEF RWInv, WaitInv, Places
<1>4. pc'[t] \in {"check", "idle"} /\ \A u \in Threads \ {t} : pc'[u] = pc[u] /\ call'[u] = call[u]
    BY <1>1, <1>2, <1>3, Zenon
<1>5. Stay(t)
    BY <1>4, Zenon DEF Stay, Woke
<1>6. CASE l = k
    <2>1. CASE tid[l] # Lock_Unlocked \/ num_readers[l] > 0
        <3>1. CASE UNCHANGED lockVars
            <4>1. tid'[l] # Lock_Unlocked \/ num_readers'[l] > 0
                BY <2>1, <3>1, Zenon DEF lockVars
            <4> QED
                BY <1>5, <4>1, NotFree, Zenon
        <3>2. CASE ~UNCHANGED lockVars
            <4>1. c.mode = "read" /\ tid[l] = Lock_Unlocked /\ MarkReadLockIntern(t, l, c.reads)
                BY <1>6, <2>1, <3>2 DEF Attempt
            <4>2. num_readers'[l] > 0
                BY <1>6, <4>1, MarkOwn, Zenon DEF RWInv
            <4> QED
                BY <1>5, <4>2, NotFree, Zenon
        <3> QED
            BY <3>1, <3>2, Zenon
    <2>2. CASE tid[l] = Lock_Unlocked /\ ~(num_readers[l] > 0)
        <3>1. CASE GrabIntern(t, l)
            <4>1. tid'[l] = t /\ t # Lock_Unlocked
                BY <3>1, SortsAssumption, Zenon DEF GrabIntern, RWInv, Own, LockTypes
            <4> QED
                BY <1>5, <4>1, NotFree, Zenon
        <3>2. CASE c.mode = "read" /\ MarkReadLockIntern(t, l, c.reads)
            <4>1. num_readers'[l] > 0
                BY <1>6, <2>2, <3>2, MarkOwn, Zenon DEF RWInv
            <4> QED
                BY <1>5, <4>1, NotFree, Zenon
        <3>3. Lock_Unlocked \notin Threads /\ Lock_Unlocked # Lock_Deleted
            BY SortsAssumption DEF Lock_Unlocked, Lock_Deleted
        <3> QED
            BY <1>6, <2>2, <3>1, <3>2, <3>3, Zenon DEF Attempt
    <2> QED
        BY <2>1, <2>2, Zenon
<1>7. CASE l # k
    <2>1. tid'[l] = tid[l] /\ num_readers'[l] = num_readers[l]
        BY <1>7, Zenon
        DEF Attempt, lockVars, GrabIntern, MarkReadLockIntern, RWInv, Own, LockTypes
    <2> QED
        BY <1>4, <1>5, <1>7, <2>1, NotStranding, Zenon
<1> QED
    BY <1>5, <1>6, <1>7, Zenon

LEMMA LockStrands ==
    ASSUME RWInv, NEW t \in Threads, NEW k \in Locks, NEW mode \in Modes, NEW timed \in Timed,
           Lock(t, k, mode, timed), NEW l \in Locks
    PROVE  Stay(t) /\ Excused(l)
<1>1. PICK c : /\ c = [NoCall EXCEPT !.lock = k, !.mode = mode, !.timed = timed,
                                     !.reads = IF mode = "read" THEN 1 ELSE 0]
               /\ Attempt(t, c)
    BY Zenon DEF Lock
<1>2. c.lock = k /\ c.mode = mode /\ (mode = "read" => c.reads = 1)
    BY <1>1 DEF NoCall
<1>3. mode = "read" => 1 \in 1 .. MaxReads /\ tmap[k][t] + 1 <= MaxReads
    <2>1. tmap[k][t] \in 0 .. MaxReads
        BY Zenon DEF RWInv, Own, LockTypes
    <2> QED
        BY <2>1, SortsAssumption DEF Lock
<1>4. c.mode = "read" => c.reads \in 1 .. MaxReads /\ tmap[k][t] + c.reads <= MaxReads
    BY <1>2, <1>3, Zenon
<1>5. pc[t] \notin {"loop", "woken"}
    BY Zenon DEF Lock
<1> QED
    BY <1>1, <1>2, <1>4, <1>5, AttemptStrands, Zenon

LEMMA LoopStrands ==
    ASSUME RWInv, NEW t \in Threads, Loop(t) \/ CondResume(t), NEW l \in Locks
    PROVE  Stay(t) /\ Excused(l)
<1>1. pc[t] \in Engaged
    BY Zenon DEF Loop, CondResume, Engaged
<1>2. PICK c : Attempt(t, c) /\ (c = call[t] \/ c = [call[t] EXCEPT !.cond = Null])
    BY Zenon DEF Loop, CondResume
<1>3. call[t] \in Calls /\ call[t].lock \in Locks
    BY <1>1, Asks, Zenon
<1>4. c.lock = call[t].lock /\ c.mode = call[t].mode /\ c.reads = call[t].reads
    BY <1>2, <1>3 DEF Calls
<1>5. call[t].mode = "read" => /\ call[t].reads \in 1 .. MaxReads
                               /\ tmap[call[t].lock][t] + call[t].reads <= MaxReads
    BY <1>1, Asks, Zenon
<1>6. PICK k \in Locks : k = call[t].lock
    BY <1>3, Zenon
<1>7. c.mode = "read" => c.reads \in 1 .. MaxReads /\ tmap[k][t] + c.reads <= MaxReads
    BY <1>4, <1>5, <1>6, Zenon
<1>8. c.lock = k
    BY <1>4, <1>6, Zenon
<1> QED
    BY <1>2, <1>6, <1>7, <1>8, AttemptStrands, Zenon

(* The steps inside of waitOn(): whoever goes to sleep has seen the lock    *)
(* held, and whoever comes back with it free either goes on or timed out.   *)
LEMMA InsideStrands ==
    ASSUME RWInv, NEW t \in Threads,
           Check(t) \/ TimeOut(t) \/ SpuriousWakeup(t) \/ Resume(t) \/ ResumeTimedOut(t),
           NEW l \in Locks
    PROVE  Stay(t) /\ Excused(l)
<1>1. pc \in [Threads -> PCs] /\ call \in [Threads -> Calls]
    BY Zenon DEF RWInv, WaitInv, Places
<1>2. tid' = tid /\ num_readers' = num_readers
    BY Zenon DEF Check, TimeOut, SpuriousWakeup, Resume, ResumeTimedOut, lockVars
<1>3. CASE Check(t)
    <2>1. PICK s \in {"check", "blocked", "idle"} : pc' = [pc EXCEPT ![t] = s] \/ (pc' = pc /\ s = "check")
        BY <1>3, Zenon DEF Check, EndWait, Goto
    <2>2. PICK c : call' = [call EXCEPT ![t] = c] \/ call' = call
        BY <1>3, Zenon DEF Check, EndWait
    <2>3. pc[t] = "check" /\ pc'[t] = s /\ \A u \in Threads \ {t} : pc'[u] = pc[u] /\ call'[u] = call[u]
        BY <1>1, <1>3, <2>1, <2>2, Zenon DEF Check
    <2>4. Stay(t)
        BY <2>3, Zenon DEF Stay, Woke
    <2>5. CASE s = "blocked" /\ call'[t].lock = l
        <3>1. call[t].lock = l
            BY <1>1, <1>3, <2>3, <2>5, Zenon DEF Check, EndWait, Goto
        <3>2. tid[l] \in Threads \/ num_readers[l] > 0
            BY <2>3, <3>1, Zenon DEF RWInv, WaitInv, HeldInCheck
        <3>3. tid'[l] # Lock_Unlocked \/ num_readers'[l] > 0
            BY <1>2, <3>2, SortsAssumption, Zenon
        <3> QED
            BY <2>4, <3>3, NotFree, Zenon
    <2>6. CASE ~(s = "blocked" /\ call'[t].lock = l)
        BY <1>2, <2>3, <2>4, <2>6, NotStranding, Zenon
    <2> QED
        BY <2>5, <2>6, Zenon
<1>4. CASE TimeOut(t) \/ SpuriousWakeup(t)
    <2>1. /\ pc[t] = "blocked" /\ pc'[t] \in {"timedout", "woken"} /\ call' = call
          /\ \A u \in Threads \ {t} : pc'[u] = pc[u]
        BY <1>1, <1>4, Zenon DEF TimeOut, SpuriousWakeup, Goto
    <2>2. Stay(t)
        BY <2>1, Zenon DEF Stay, Woke
    <2> QED
        BY <1>2, <2>1, <2>2, NotStranding, Zenon
<1>5. CASE Resume(t)
    <2>1. /\ pc[t] = "woken" /\ pc'[t] = "loop" /\ call'[t] = call[t]
          /\ \A u \in Threads \ {t} : pc'[u] = pc[u] /\ call'[u] = call[u]
        BY <1>1, <1>5, Zenon DEF Resume, EndWait, Goto
    <2>2. Stay(t)
        BY <2>1, Zenon DEF Stay, Woke
    <2> QED
        BY <1>2, <2>1, <2>2, NotStranding, Zenon
<1>6. CASE ResumeTimedOut(t)
    <2>1. /\ pc[t] = "timedout" /\ pc'[t] = "idle"
          /\ \A u \in Threads \ {t} : pc'[u] = pc[u] /\ call'[u] = call[u]
        BY <1>1, <1>6, Zenon DEF ResumeTimedOut, EndWait, Goto
    <2>2. Stay(t)
        BY <2>1, Zenon DEF Stay, Woke
    <2> QED
        BY <1>2, <2>1, <2>2, NotStranding, Zenon
<1> QED
    BY <1>3, <1>4, <1>5, <1>6, Zenon

LEMMA MoveStrands ==
    ASSUME RWInv, NEW t \in Threads, CondWakeup(t) \/ Exit(t) \/ Restart(t), NEW l \in Locks
    PROVE  Stay(t) /\ Excused(l)
<1>1. pc \in [Threads -> PCs] /\ call \in [Threads -> Calls]
    BY Zenon DEF RWInv, WaitInv, Places
<1>2. tid' = tid /\ num_readers' = num_readers /\ call' = call
    BY Zenon DEF CondWakeup, Exit, Restart, lockVars
<1>3. PICK s \in Outside : pc' = [pc EXCEPT ![t] = s] /\ pc[t] \in Outside
    BY Zenon DEF CondWakeup, Exit, Restart, Goto, Outside
<1>4. /\ pc[t] \notin {"woken", "loop"} /\ pc'[t] # "blocked"
      /\ \A u \in Threads \ {t} : pc'[u] = pc[u]
    BY <1>1, <1>3, Zenon DEF Outside
<1>5. Stay(t)
    BY <1>2, <1>4, Zenon DEF Stay, Woke
<1> QED
    BY <1>2, <1>4, <1>5, NotStranding, Zenon

LEMMA TryStrands ==
    ASSUME RWInv, NEW t \in Threads, NEW k \in Locks, tryGrab(t, k) \/ tryReadLock(t, k),
           NEW l \in Locks
    PROVE  Stay(t) /\ Excused(l)
<1>1. pc' = pc /\ call' = call /\ tid[k] = Lock_Unlocked
    BY Zenon DEF tryGrab, tryReadLock, threadVars
<1>2. Stay(t)
    BY <1>1, Zenon DEF Stay, Woke
<1>3. CASE l = k
    <2>1. CASE tryGrab(t, k)
        <3>1. tid'[l] = t /\ t # Lock_Unlocked
            BY <1>3, <2>1, SortsAssumption, Zenon DEF tryGrab, GrabIntern, RWInv, Own, LockTypes
        <3> QED
            BY <1>2, <3>1, NotFree, Zenon
    <2>2. CASE tryReadLock(t, k)
        <3>1. tmap[l][t] \in 0 .. MaxReads
            BY Zenon DEF RWInv, Own, LockTypes
        <3>2. 1 \in 1 .. MaxReads /\ tmap[l][t] + 1 <= MaxReads
            BY <1>3, <2>2, <3>1, SortsAssumption DEF tryReadLock
        <3>3. num_readers'[l] > 0
            BY <1>1, <1>3, <2>2, <3>2, MarkOwn, Zenon DEF tryReadLock, RWInv
        <3> QED
            BY <1>2, <3>3, NotFree, Zenon
    <2> QED
        BY <2>1, <2>2, Zenon
<1>4. CASE l # k
    <2>1. tid'[l] = tid[l] /\ num_readers'[l] = num_readers[l]
        BY <1>4, Zenon
        DEF tryGrab, tryReadLock, GrabIntern, MarkReadLockIntern, RWInv, Own, LockTypes
    <2> QED
        BY <1>1, <1>2, <2>1, NotStranding, Zenon
<1> QED
    BY <1>3, <1>4, Zenon

(* After a signal on asl_cond no writer sleeps at the lock, or one is woken. *)
LEMMA SignalWakes ==
    ASSUME RWInv, NEW t \in Threads, NEW l \in Locks, NEW p \in [Threads -> PCs],
           \A u \in Threads \ {t} : p[u] = pc[u], p[t] # "blocked", pc[t] \notin WaitStates,
           pc' \in IF waiting[l] > 0 THEN Signal(p, l) ELSE {p},
           \A u \in Threads \ {t} : call'[u] = call[u]
    PROVE  ~Stranded(l)'
<1> SUFFICES ASSUME Stranded(l)' PROVE FALSE
    BY Zenon
<1>1. PICK u \in Threads : pc'[u] = "blocked" /\ call'[u].lock = l /\ call'[u].mode = "write"
    BY StrandedNext
<1>2. \/ pc' = p /\ (waiting[l] > 0 => Blocked(p, l, "write") = {})
      \/ \E v \in Blocked(p, l, "write") : pc' = [p EXCEPT ![v] = "woken"]
    <2>1. CASE ~(waiting[l] > 0)
        BY <2>1, Zenon
    <2>2. CASE waiting[l] > 0 /\ Blocked(p, l, "write") = {}
        BY <2>2, Zenon DEF Signal
    <2>3. CASE waiting[l] > 0 /\ Blocked(p, l, "write") # {}
        BY <2>3, Zenon DEF Signal
    <2> QED
        BY <2>1, <2>2, <2>3, Zenon
<1>3. CASE \E v \in Blocked(p, l, "write") : pc' = [p EXCEPT ![v] = "woken"]
    <2>1. PICK v \in Blocked(p, l, "write") : pc' = [p EXCEPT ![v] = "woken"]
        BY <1>3, Zenon
    <2>2. v \in Threads /\ v # t /\ call[v].lock = l
        BY <2>1, Zenon DEF Blocked
    <2>3. pc'[v] = "woken" /\ call'[v].lock = l
        BY <2>1, <2>2, Zenon
    <2> QED
        BY <2>2, <2>3, StrandedNext, Zenon
<1>4. CASE pc' = p /\ (waiting[l] > 0 => Blocked(p, l, "write") = {})
    <2>1. u # t /\ p[u] = "blocked" /\ pc[u] = "blocked" /\ call[u].lock = l /\ call[u].mode = "write"
        BY <1>1, <1>4, Zenon
    <2>2. u \in Blocked(p, l, "write") /\ u \in Waiters(pc, call, l, "write")
        BY <2>1, Zenon DEF Blocked, Waiters, WaitStates
    <2>3. Cardinality(Waiters(pc, call, l, "write")) > 0
        BY <2>2, WaitersFinite, Zenon
    <2>4. waiting[l] > 0
        BY <2>3, Zenon DEF RWInv, Counts
    <2> QED
        BY <1>4, <2>2, <2>4, Zenon
<1> QED
    BY <1>2, <1>3, <1>4, Zenon

(* A waiting reader, if any, is woken by the release of the write lock, is  *)
(* awake, or has timed out: it has left the deadlock test, which runs with  *)
(* the asl_lock that the releasing thread has.                              *)
LEMMA ReaderWakes ==
    ASSUME RWInv, NEW t \in Threads, NEW l \in Locks, Available(l), NEW p \in [Threads -> PCs],
           \A u \in Threads \ {t} : p[u] = pc[u], pc[t] \notin WaitStates,
           readRequests[l] > 0, pc' = Broadcast(p, l, {"read"}),
           \A u \in Threads \ {t} : call'[u] = call[u]
    PROVE  Excused(l)
<1>1. Waiters(pc, call, l, "read") # {}
    <2>1. Cardinality(Waiters(pc, call, l, "read")) > 0
        BY Zenon DEF RWInv, Counts
    <2>2. Cardinality({}) = 0 /\ ~(0 > 0)
        BY FS_EmptySet
    <2> QED
        BY <2>1, <2>2, Zenon
<1>2. PICK u \in Threads : pc[u] \in WaitStates /\ call[u].lock = l /\ call[u].mode = "read"
    BY <1>1, Zenon DEF Waiters
<1>3. u # t /\ p[u] = pc[u] /\ call'[u] = call[u]
    BY <1>2, Zenon
<1>4. pc[u] # "check"
    BY <1>2, Zenon DEF Available
<1>5. CASE pc[u] = "timedout"
    BY <1>2, <1>5, Zenon DEF Excused, TimedOutAt
<1>6. CASE pc[u] \in {"blocked", "woken"}
    <2>1. pc'[u] = "woken"
        <3>1. CASE pc[u] = "blocked"
            BY <1>2, <1>3, <3>1, Zenon DEF Broadcast, Blocked
        <3>2. CASE pc[u] = "woken"
            BY <1>2, <1>3, <3>2, Zenon DEF Broadcast
        <3> QED
            BY <1>6, <3>1, <3>2, Zenon
    <2>2. ~Stranded(l)'
        BY <1>2, <1>3, <2>1, StrandedNext, Zenon
    <2> QED
        BY <2>2, Zenon DEF Excused
<1> QED
    BY <1>2, <1>4, <1>5, <1>6, Zenon DEF WaitStates

(* The write lock or the last read lock is given up. *)
LEMMA GiveUpStrands ==
    ASSUME RWInv, NEW t \in Threads, NEW k \in Locks, Available(k), pc[t] \in Outside,
           NEW p \in [Threads -> PCs], p[t] \in Outside, \A u \in Threads \ {t} : p[u] = pc[u],
           GivesUp(t, k, p), \A u \in Threads \ {t} : call'[u] = call[u], NEW l \in Locks
    PROVE  Stay(t) /\ Excused(l)
<1>1. Change(t, k) /\ pc' \in [Threads -> PCs] /\ \A u \in Threads : Woke(p, pc', u)
    BY GiveUp, Zenon
<1>2. Stay(t)
    BY <1>1, Zenon DEF Stay, Woke
<1>3. pc[t] \notin WaitStates /\ p[t] # "blocked"
    BY Zenon DEF Outside, WaitStates
<1>4. CASE l # k
    <2>1. tid'[l] = tid[l] /\ num_readers'[l] = num_readers[l]
        BY <1>1, <1>4, Zenon DEF Change, Elsewhere
    <2>2. pc[t] \notin {"woken", "loop"} /\ pc'[t] # "blocked"
        <3>1. Woke(p, pc', t)
            BY <1>1, Zenon
        <3> QED
            BY <3>1, Zenon DEF Woke, Outside
    <2> QED
        BY <1>2, <2>1, <2>2, NotStranding, Zenon
<1>5. CASE l = k /\ tid[k] = t /\ ReleaseIntern(t, k, p)
    <2>1. pc' \in SignalImpl(p, l)
        BY <1>5, Zenon DEF ReleaseIntern
    <2>2. CASE readRequests[l] > 0
        <3>1. pc' = Broadcast(p, l, {"read"})
            BY <2>1, <2>2, Zenon DEF SignalImpl
        <3> QED
            BY <1>2, <1>3, <1>5, <2>2, <3>1, ReaderWakes, Zenon
    <2>3. CASE ~(readRequests[l] > 0)
        <3>1. pc' \in IF waiting[l] > 0 THEN Signal(p, l) ELSE {p}
            BY <2>1, <2>3, Zenon DEF SignalImpl
        <3>2. ~Stranded(l)'
            BY <1>3, <3>1, SignalWakes, Zenon
        <3> QED
            BY <1>2, <3>2, Zenon DEF Excused
    <2> QED
        BY <2>2, <2>3, Zenon
<1>6. ASSUME NEW n \in 1 .. MaxReads, l = k, n <= tmap[k][t], ReleaseReadLockIntern(t, k, n, p)
      PROVE  Excused(l)
    <2>1. /\ num_readers[l] \in Nat /\ n \in Nat
          /\ num_readers'[l] = num_readers[l] - n /\ num_readers[l] >= n
        <3>1. num_readers[l] \in Nat
            BY Zenon DEF RWInv, Own, LockTypes
        <3>2. num_readers'[l] = num_readers[l] - n /\ num_readers[l] >= n
            BY <1>6, ReleaseReadOwn, Zenon DEF RWInv
        <3> QED
            BY <3>1, <3>2, SortsAssumption
    <2>2. CASE num_readers[l] = n
        <3>1. pc' \in IF waiting[l] > 0 THEN Signal(p, l) ELSE {p}
            BY <1>6, <2>2, Zenon DEF ReleaseReadLockIntern
        <3>2. ~Stranded(l)'
            BY <1>3, <3>1, SignalWakes, Zenon
        <3> QED
            BY <3>2, Zenon DEF Excused
    <2>3. CASE num_readers[l] # n
        <3>1. num_readers'[l] > 0
            BY <2>1, <2>3
        <3> QED
            BY <3>1, NotFree, Zenon
    <2> QED
        BY <2>2, <2>3, Zenon
<1> QED
    BY <1>2, <1>4, <1>5, <1>6, Zenon DEF GivesUp

LEMMA ReleaseStrands ==
    ASSUME RWInv, NEW t \in Threads, NEW k \in Locks, release(t, k) \/ readUnlock(t, k), NEW l \in Locks
    PROVE  Stay(t) /\ Excused(l)
<1>1. pc[t] \in Outside /\ Available(k) /\ call' = call /\ pc \in [Threads -> PCs]
    BY Zenon DEF release, readUnlock, Outside, RWInv, WaitInv, Places
<1>2. GivesUp(t, k, pc)
    <2>1. CASE release(t, k)
        BY <2>1, Zenon DEF release, GivesUp
    <2>2. CASE readUnlock(t, k)
        <3>1. tmap[k][t] \in 0 .. MaxReads
            BY Zenon DEF RWInv, Own, LockTypes
        <3>2. 1 \in 1 .. MaxReads /\ 1 <= tmap[k][t]
            BY <2>2, <3>1, SortsAssumption DEF readUnlock
        <3> QED
            BY <2>2, <3>2, Zenon DEF readUnlock, GivesUp
    <2> QED
        BY <2>1, <2>2, Zenon
<1> QED
    BY <1>1, <1>2, GiveUpStrands, Zenon

LEMMA ExternWaitStrands ==
    ASSUME RWInv, NEW t \in Threads, NEW k \in Locks, NEW d \in Conds, ExternWait(t, k, d), NEW l \in Locks
    PROVE  Stay(t) /\ Excused(l)
<1>1. PICK p \in [Threads -> PCs], c \in Calls :
          /\ p[t] = "cond" /\ \A u \in Threads \ {t} : p[u] = pc[u]
          /\ call' = [call EXCEPT ![t] = c] /\ c.lock = k /\ c.cond = d
          /\ c.mode = "read" => tmap'[k][t] = 0 /\ c.reads > 0
          /\ GivesUp(t, k, p)
    BY ExternGives, Zenon
<1>2. pc[t] \in Outside /\ Available(k) /\ p[t] \in Outside
    BY <1>1, Zenon DEF ExternWait, Outside
<1>3. \A u \in Threads \ {t} : call'[u] = call[u]
    BY <1>1, Zenon DEF RWInv, WaitInv, Places
<1> QED
    BY <1>1, <1>2, <1>3, GiveUpStrands, Zenon

LEMMA DestructorStrands ==
    ASSUME RWInv, NEW t \in Threads, NEW k \in Locks, Destructor(t, k), NEW l \in Locks
    PROVE  Stay(t) /\ Excused(l)
<1>1. pc[t] = "idle" /\ call' = call /\ \A u \in Threads : Woke(pc, pc', u)
    BY DestructorWakes, Zenon DEF Destructor
<1>2. Change(t, k) /\ tid'[k] = Lock_Deleted
    BY DestructorOwn, Zenon DEF RWInv
<1>3. Stay(t)
    BY <1>1, Zenon DEF Stay
<1>4. CASE l = k
    <2>1. tid'[l] # Lock_Unlocked
        BY <1>2, <1>4 DEF Lock_Unlocked, Lock_Deleted
    <2> QED
        BY <1>3, <2>1, NotFree, Zenon
<1>5. CASE l # k
    <2>1. tid'[l] = tid[l] /\ num_readers'[l] = num_readers[l]
        BY <1>2, <1>5, Zenon DEF Change, Elsewhere
    <2>2. pc'[t] = "idle"
        BY <1>1, Zenon DEF Woke
    <2> QED
        BY <1>1, <1>3, <2>1, <2>2, NotStranding, Zenon
<1> QED
    BY <1>4, <1>5, Zenon

LEMMA CleanupStrands ==
    ASSUME RWInv, NEW t \in Threads, NEW k \in Locks, Cleanup(t, k), NEW l \in Locks
    PROVE  Stay(t) /\ Excused(l)
<1>1. pc[t] = "exiting" /\ Available(k) /\ call' = call /\ pc \in [Threads -> PCs]
    BY Zenon DEF Cleanup, RWInv, WaitInv, Places
<1>2. pc[t] \in Outside
    BY <1>1, Zenon DEF Outside
<1>3. CASE GivesUp(t, k, pc)
    BY <1>1, <1>2, <1>3, GiveUpStrands, Zenon
<1>4. CASE UNCHANGED <<tid, num_readers, tmap, vmap, held, pc>>
    <2>1. tid'[l] = tid[l] /\ num_readers'[l] = num_readers[l] /\ pc' = pc
        BY <1>4, Zenon
    <2>2. Stay(t)
        BY <1>1, <2>1, Zenon DEF Stay, Woke
    <2> QED
        BY <1>1, <2>1, <2>2, NotStranding, Zenon
<1>5. tmap[k][t] \in 1 .. MaxReads => tmap[k][t] <= tmap[k][t]
    OBVIOUS
<1> QED
    BY <1>3, <1>4, <1>5, CleanupCases, Zenon DEF RWInv, GivesUp

(* Every step is the step of one thread, which leaves the others in their   *)
(* place or wakes them, and comes out of the wait loop or of a Condition    *)
(* only with a pass of the loop.                                            *)
LEMMA Actor ==
    ASSUME RWInv, Next
    PROVE  \E t \in Threads : /\ \A l \in Locks : Stay(t) /\ Excused(l)
                              /\ pc[t] \in {"loop", "condwoken"} => Loop(t) \/ CondResume(t)
<1>1. PICK t \in Threads :
         \/ \E l \in Locks : \/ \E mode \in Modes, timed \in Timed : Lock(t, l, mode, timed)
                             \/ tryGrab(t, l) \/ tryReadLock(t, l)
                             \/ release(t, l) \/ readUnlock(t, l)
                             \/ Destructor(t, l) \/ Cleanup(t, l)
                             \/ \E c \in Conds : ExternWait(t, l, c)
         \/ Loop(t) \/ Check(t) \/ TimeOut(t) \/ SpuriousWakeup(t)
         \/ Resume(t) \/ ResumeTimedOut(t)
         \/ CondWakeup(t) \/ CondResume(t)
         \/ Exit(t) \/ Restart(t)
    BY Zenon DEF Next
<1>2. pc[t] \in {"loop", "condwoken"} => Loop(t) \/ CondResume(t)
    <2>1. ASSUME NEW l \in Locks, pc[t] \in {"loop", "condwoken"}
          PROVE  /\ \A mode, timed : ~Lock(t, l, mode, timed)
                 /\ ~tryGrab(t, l) /\ ~tryReadLock(t, l) /\ ~release(t, l) /\ ~readUnlock(t, l)
                 /\ ~Destructor(t, l) /\ ~Cleanup(t, l) /\ \A c : ~ExternWait(t, l, c)
        BY <2>1, Zenon
        DEF Lock, tryGrab, tryReadLock, release, readUnlock, Destructor, Cleanup, ExternWait
    <2>2. ASSUME pc[t] \in {"loop", "condwoken"}
          PROVE  /\ ~Check(t) /\ ~TimeOut(t) /\ ~SpuriousWakeup(t) /\ ~Resume(t)
                 /\ ~ResumeTimedOut(t) /\ ~CondWakeup(t) /\ ~Exit(t) /\ ~Restart(t)
        BY <2>2, Zenon
        DEF Check, TimeOut, SpuriousWakeup, Resume, ResumeTimedOut, CondWakeup, Exit, Restart
    <2> QED
        BY <1>1, <2>1, <2>2, Zenon
<1>3. ASSUME NEW l \in Locks PROVE Stay(t) /\ Excused(l)
    BY <1>1, LockStrands, TryStrands, ReleaseStrands, DestructorStrands, CleanupStrands,
       ExternWaitStrands, LoopStrands, InsideStrands, MoveStrands, Zenon
<1> QED
    BY <1>2, <1>3, Zenon

(* No interleaving of unlocks, newcomers, Condition waits, deletes and      *)
(* exits leaves writers asleep at a free lock, unless a thread's own wait   *)
(* for it has timed out and the thread does not know yet.                   *)
THEOREM RWWakeupLostToTimeout == Spec => WakeupLostToTimeout
<1>1. ASSUME RWInv, Next, NEW l \in Locks, ~Stranded(l), Stranded(l)'
      PROVE  \E t \in Threads : pc[t] = "timedout" /\ call[t].lock = l
    <2>1. Excused(l)
        BY <1>1, Actor, Zenon
    <2> QED
        BY <1>1, <2>1, Zenon DEF Excused, TimedOutAt
<1>2. RWInv /\ [Next]_vars =>
          [\A l \in Locks : ~Stranded(l) /\ Stranded(l)'
              => \E t \in Threads : pc[t] = "timedout" /\ call[t].lock = l]_vars
    BY <1>1, Zenon
<1> QED
    BY <1>2, RWInvariance, PTL DEF Spec, WakeupLostToTimeout

(* A pass of the loop that takes the read lock takes it as often as the     *)
(* call asks for, since a thread that waits for it has none.                *)
LEMMA AttemptReads ==
    ASSUME RWInv, NEW t \in Threads, NEW c, NEW l \in Locks, c.lock = l, c.mode = "read",
           Attempt(t, c), tmap[l][t] = 0, c.reads \in 1 .. MaxReads, t \in vmap'[l]
    PROVE  tmap'[l][t] = c.reads
<1>1. 0 + c.reads = c.reads /\ 0 + c.reads <= MaxReads
    BY SortsAssumption
<1>2. CASE UNCHANGED lockVars
    <2>1. t \in vmap[l]
        BY <1>2, Zenon DEF lockVars
    <2>2. tmap[l][t] > 0
        BY <2>1, Readers, Zenon DEF RWInv
    <2>3. ~(0 > 0)
        OBVIOUS
    <2> QED
        BY <2>2, <2>3, Zenon
<1>3. CASE tid[l] = Lock_Unlocked /\ MarkReadLockIntern(t, l, c.reads)
    <2>1. tmap'[l][t] = tmap[l][t] + c.reads
        BY <1>1, <1>3, MarkOwn, Zenon DEF RWInv
    <2> QED
        BY <1>1, <2>1, Zenon
<1>4. "read" # "write"
    OBVIOUS
<1> QED
    BY <1>2, <1>3, <1>4, Zenon DEF Attempt

(* The step by which a thread comes out of the wait loop or of a Condition  *)
(* restores the read locks of its call: no other thread's step can be the   *)
(* one that ends the wait.                                                  *)
THEOREM RWReadsRestored == Spec => ReadsRestored
<1>1. ASSUME RWInv, Next, NEW t \in Threads, pc[t] \in {"loop", "condwoken"}, pc'[t] = "idle",
             call[t].mode = "read", t \in vmap'[call[t].lock]
      PROVE  tmap'[call[t].lock][t] = call[t].reads
    <2>1. PICK u \in Threads : /\ \A l \in Locks : Stay(u) /\ Excused(l)
                               /\ pc[u] \in {"loop", "condwoken"} => Loop(u) \/ CondResume(u)
        BY <1>1, Actor, Zenon
    <2>2. pc[t] \in Engaged
        BY <1>1, Zenon DEF Engaged
    <2>3. /\ call[t] \in Calls /\ call[t].lock \in Locks
          /\ tmap[call[t].lock][t] = 0 /\ call[t].reads \in 1 .. MaxReads
        BY <1>1, <2>2, Asks, Zenon
    <2>4. u = t
        <3>1. u # t => Woke(pc, pc', t)
            BY <2>1, <2>3, Zenon DEF Stay
        <3> QED
            BY <1>1, <3>1, Zenon DEF Woke
    <2>5. PICK c : Attempt(t, c) /\ (c = call[t] \/ c = [call[t] EXCEPT !.cond = Null])
        BY <1>1, <2>1, <2>4, Zenon DEF Loop, CondResume
    <2>6. c.lock = call[t].lock /\ c.mode = call[t].mode /\ c.reads = call[t].reads
        BY <2>3, <2>5 DEF Calls
    <2>7. PICK l \in Locks : l = call[t].lock
        BY <2>3, Zenon
    <2>8. c.lock = l /\ c.mode = "read" /\ tmap[l][t] = 0 /\ c.reads \in 1 .. MaxReads /\ t \in vmap'[l]
        BY <1>1, <2>3, <2>6, <2>7, Zenon
    <2>9. tmap'[l][t] = c.reads
        BY <1>1, <2>5, <2>8, AttemptReads, Zenon
    <2> QED
        BY <2>6, <2>7, <2>9, Zenon
<1>2. RWInv /\ [Next]_vars =>
          [\A t \in Threads :
              LET c == call[t]
              IN  pc[t] \in {"loop", "condwoken"} /\ pc'[t] = "idle" /\ c.mode = "read"
                  /\ t \in vmap'[c.lock]
                     => tmap'[c.lock][t] = c.reads]_vars
    BY <1>1, Zenon
<1> QED
    BY <1>2, RWInvariance, PTL DEF Spec, ReadsRestored

===========================================================================
