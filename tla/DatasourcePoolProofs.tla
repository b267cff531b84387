------------------------ MODULE DatasourcePoolProofs ------------------------
(***************************************************************************)
(* Proofs about the pool of connections for any number of threads and any  *)
(* size of the pool: every connection has exactly one place, no            *)
(* transaction passes from one thread to another and no wakeup is lost.    *)
(***************************************************************************)
EXTENDS DatasourcePool, FiniteSetTheorems, SequenceTheorems, TLAPS

PCs == {"idle", "calling", "blocked", "woken", "timedout", "got", "config",
        "ready", "deleting", "freed", "crashed"}
Conns == [open : BOOLEAN, aborted : BOOLEAN, trans : BOOLEAN]

(* TypeOK without the two bounds that follow from the counting below. *)
Types ==
    /\ free_list \in Seq(Index)
    /\ tmap \in [Threads -> Index \cup {none}]
    /\ cmax \in min .. max
    /\ wait_count \in Int
    /\ valid \in BOOLEAN /\ tl_timeout \in BOOLEAN
    /\ conn \in [Index -> Conns]
    /\ resource \subseteq Threads
    /\ pc \in [Threads -> PCs]
    /\ new_ds \in [Threads -> BOOLEAN] /\ waited \in [Threads -> BOOLEAN] /\ timed \in [Threads -> BOOLEAN]

(* Ownership: the connections made so far are those of the threads and the *)
(* free ones, without repetition.                                          *)
Owned(f, m, n) ==
    /\ \A t, u \in Threads : t # u /\ m[t] # none => m[t] # m[u]
    /\ \A t \in Threads, k \in DOMAIN f : m[t] # f[k]
    /\ \A j, k \in DOMAIN f : j # k => f[j] # f[k]
    /\ \A t \in Threads : m[t] < n
    /\ \A k \in DOMAIN f : f[k] < n
    /\ \A i \in 0 .. n - 1 : (\E t \in Threads : m[t] = i) \/ (\E k \in DOMAIN f : f[k] = i)

(* Where a thread must have a connection and where it cannot have one. *)
PcOwner ==
    \A t \in Threads :
        /\ pc[t] \in {"got", "config", "ready", "deleting"} => tmap[t] # none
        /\ pc[t] \in {"blocked", "woken", "timedout", "freed", "crashed"} => tmap[t] = none

(* A connection that a thread got in this call has no transaction before   *)
(* the method runs, nor has a connection that has not been made yet; only  *)
(* such a call reaches the warning callback.                               *)
NewClean ==
    /\ \A t \in Threads :
        /\ pc[t] \in {"idle", "calling", "blocked", "woken", "timedout"} => ~new_ds[t]
        /\ pc[t] \in {"idle", "calling"} => ~waited[t]
        /\ pc[t] = "got" /\ waited[t] => new_ds[t]
        /\ pc[t] = "config" => new_ds[t]
        /\ pc[t] \in {"got", "config", "ready"} /\ new_ds[t] => ~conn[tmap[t]].trans
    /\ \A i \in Index : i >= cmax => ~conn[i].trans

(* The threads in the states S. *)
In(p, S) == {t \in Threads : p[t] \in S}
WaitStates == {"blocked", "woken", "timedout"}

(* NoLostWakeup of given values of the variables. *)
Wakeups(p, n, len, v, c) ==
    /\ n = Cardinality(In(p, WaitStates))
    /\ (v /\ In(p, {"blocked"}) # {}) => (c = max /\ len <= Cardinality(In(p, {"woken"})))

Resources == resource = {t \in Threads : tmap[t] # none}

(* The inductive invariant. *)
IInv ==
    /\ Types
    /\ Owned(free_list, tmap, cmax)
    /\ Resources
    /\ PcOwner
    /\ NewClean
    /\ FreeCleanHeldOpen
    /\ Wakeups(pc, wait_count, Len(free_list), valid, cmax)

-----------------------------------------------------------------------------
(* Taking, making and giving back a connection *)

LEMMA Sizes == min \in Nat /\ max \in Nat /\ min > 0 /\ min <= max
BY SizeAssumption

LEMMA OwnedTake ==
    ASSUME NEW f \in Seq(Index), f # <<>>, NEW m \in [Threads -> Index \cup {none}], NEW n \in Nat,
           NEW t \in Threads, m[t] = none, Owned(f, m, n)
    PROVE  Owned(Tail(f), [m EXCEPT ![t] = Head(f)], n)
<1> DEFINE g == Tail(f)
           q == [m EXCEPT ![t] = Head(f)]
<1>1. /\ Len(f) \in Nat \ {0} /\ DOMAIN f = 1 .. Len(f)
      /\ DOMAIN g = 1 .. Len(f) - 1 /\ \A k \in DOMAIN g : g[k] = f[k + 1]
      /\ Head(f) = f[1]
      /\ \A k \in DOMAIN f : f[k] \in Index
    BY HeadTailProperties, EmptySeq, LenProperties, ElementOfSeq
<1>2. \A k \in DOMAIN g : k + 1 \in DOMAIN f /\ k + 1 # 1
    BY <1>1
<1>3. 1 \in DOMAIN f
    BY <1>1
<1>4. \A u \in Threads : q[u] = IF u = t THEN f[1] ELSE m[u]
    BY <1>1, Zenon
<1>5. \A i \in Index : i # none
    BY Sizes DEF Index, none
<1> HIDE DEF g, q
<1>6. \A a, b \in Threads : a # b /\ q[a] # none => q[a] # q[b]
    BY <1>3, <1>4 DEF Owned
<1>7. \A a \in Threads, k \in DOMAIN g : q[a] # g[k]
    BY <1>1, <1>2, <1>3, <1>4 DEF Owned
<1>8. \A j, k \in DOMAIN g : j # k => g[j] # g[k]
    <2> SUFFICES ASSUME NEW j \in DOMAIN g, NEW k \in DOMAIN g, j # k PROVE g[j] # g[k]
        BY Zenon
    <2>1. j + 1 # k + 1
        BY <1>1
    <2> QED
        BY <2>1, <1>1, <1>2 DEF Owned
<1>9. (\A a \in Threads : q[a] < n) /\ (\A k \in DOMAIN g : g[k] < n)
    BY <1>1, <1>2, <1>3, <1>4, Zenon DEF Owned
<1>10. ASSUME NEW i \in 0 .. n - 1
       PROVE  (\E a \in Threads : q[a] = i) \/ (\E k \in DOMAIN g : g[k] = i)
    <2>1. CASE \E a \in Threads : m[a] = i
        <3>1. PICK a \in Threads : m[a] = i
            BY <2>1, Zenon
        <3>2. a # t
            BY <3>1 DEF none
        <3> QED
            BY <3>1, <3>2, <1>4, Zenon
    <2>2. CASE \E k \in DOMAIN f : f[k] = i
        <3>1. PICK k \in DOMAIN f : f[k] = i
            BY <2>2, Zenon
        <3>2. CASE k = 1
            BY <3>1, <3>2, <1>4, Zenon
        <3>3. CASE k # 1
            <4>1. k - 1 \in DOMAIN g /\ (k - 1) + 1 = k
                BY <3>3, <1>1
            <4> QED
                BY <3>1, <4>1, <1>1, Zenon
        <3> QED
            BY <3>2, <3>3, Zenon
    <2> QED
        BY <2>1, <2>2, Zenon DEF Owned
<1> QED
    BY <1>6, <1>7, <1>8, <1>9, <1>10, Zenon DEF Owned, g, q

LEMMA OwnedMake ==
    ASSUME NEW f \in Seq(Index), NEW m \in [Threads -> Index \cup {none}], NEW n \in Nat,
           NEW t \in Threads, m[t] = none, Owned(f, m, n)
    PROVE  Owned(f, [m EXCEPT ![t] = n], n + 1)
<1> DEFINE q == [m EXCEPT ![t] = n]
<1>1. \A u \in Threads : q[u] = IF u = t THEN n ELSE m[u]
    BY Zenon
<1>2. /\ \A u \in Threads : m[u] \in Int /\ m[u] < n
      /\ \A k \in DOMAIN f : f[k] \in Int /\ f[k] < n
    BY LenProperties, ElementOfSeq, Sizes DEF Owned, Index, none
<1> HIDE DEF q
<1>3. \A a, b \in Threads : a # b /\ q[a] # none => q[a] # q[b]
    BY <1>1, <1>2 DEF Owned
<1>4. \A a \in Threads, k \in DOMAIN f : q[a] # f[k]
    BY <1>1, <1>2 DEF Owned
<1>5. (\A a \in Threads : q[a] < n + 1) /\ (\A k \in DOMAIN f : f[k] < n + 1)
    BY <1>1, <1>2
<1>6. ASSUME NEW i \in 0 .. (n + 1) - 1
      PROVE  (\E a \in Threads : q[a] = i) \/ (\E k \in DOMAIN f : f[k] = i)
    <2>1. CASE i = n
        BY <2>1, <1>1, Zenon
    <2>2. CASE i # n
        <3>1. i \in 0 .. n - 1 /\ i # none
            BY <2>2 DEF none
        <3>2. (\E a \in Threads \ {t} : m[a] = i) \/ (\E k \in DOMAIN f : f[k] = i)
            BY <3>1, Zenon DEF Owned
        <3> QED
            BY <3>2, <1>1, Zenon
    <2> QED
        BY <2>1, <2>2, Zenon
<1> QED
    BY <1>3, <1>4, <1>5, <1>6, Zenon DEF Owned, q

LEMMA OwnedGive ==
    ASSUME NEW f \in Seq(Index), NEW m \in [Threads -> Index \cup {none}], NEW n \in Nat,
           NEW t \in Threads, m[t] # none, Owned(f, m, n)
    PROVE  Owned(Append(f, m[t]), [m EXCEPT ![t] = none], n)
<1> DEFINE g == Append(f, m[t])
           q == [m EXCEPT ![t] = none]
           z == Len(f) + 1
<1>1. /\ m[t] \in Index
      /\ Len(f) \in Nat /\ DOMAIN f = 1 .. Len(f)
      /\ \A k \in DOMAIN f : f[k] \in Index
    BY LenProperties, ElementOfSeq, Zenon
<1>2. /\ DOMAIN g = 1 .. z
      /\ \A k \in DOMAIN g : g[k] = IF k = z THEN m[t] ELSE f[k]
    BY <1>1
<1>3. /\ DOMAIN g = DOMAIN f \cup {z} /\ z \notin DOMAIN f
      /\ g[z] = m[t] /\ \A k \in DOMAIN f : g[k] = f[k]
    BY <1>1, <1>2
<1>4. \A u \in Threads : q[u] = IF u = t THEN none ELSE m[u]
    BY Zenon
<1>5. (\A i \in Index : i # none /\ i \in Int) /\ none < 0
    BY Sizes DEF Index, none
<1> HIDE DEF g, q, z
<1>6. \A a, b \in Threads : a # b /\ q[a] # none => q[a] # q[b]
    BY <1>4 DEF Owned
<1>7. \A a \in Threads, k \in DOMAIN g : q[a] # g[k]
    <2>1. \A a \in Threads : q[a] # g[z]
        BY <1>1, <1>3, <1>4, <1>5 DEF Owned
    <2>2. \A a \in Threads, k \in DOMAIN f : q[a] # g[k]
        BY <1>1, <1>3, <1>4, <1>5 DEF Owned
    <2> QED
        BY <2>1, <2>2, <1>3, Zenon
<1>8. \A j, k \in DOMAIN g : j # k => g[j] # g[k]
    <2>1. \A k \in DOMAIN f : g[z] # g[k]
        BY <1>3 DEF Owned
    <2>2. \A j, k \in DOMAIN f : j # k => g[j] # g[k]
        BY <1>3 DEF Owned
    <2> QED
        BY <2>1, <2>2, <1>3, Zenon
<1>9. \A k \in DOMAIN g : g[k] < n
    BY <1>3, Zenon DEF Owned
<1>10. \A a \in Threads : q[a] < n
    BY <1>4, none < n, Zenon DEF Owned, none
<1>11. ASSUME NEW i \in 0 .. n - 1
       PROVE  (\E a \in Threads : q[a] = i) \/ (\E k \in DOMAIN g : g[k] = i)
    <2>1. CASE \E a \in Threads : m[a] = i
        BY <2>1, <1>3, <1>4, Zenon
    <2>2. CASE \E k \in DOMAIN f : f[k] = i
        BY <2>2, <1>3, Zenon
    <2> QED
        BY <2>1, <2>2, Zenon DEF Owned
<1> QED
    BY <1>6, <1>7, <1>8, <1>9, <1>10, <1>11, Zenon DEF Owned, g, q

-----------------------------------------------------------------------------
(* Counting the threads in a set of states *)

LEMMA InFinite ==
    ASSUME NEW p, NEW S
    PROVE  IsFiniteSet(In(p, S)) /\ Cardinality(In(p, S)) \in Nat
<1>1. IsFiniteSet(In(p, S))
    BY ThreadsAssumption, FS_Subset, Zenon DEF In
<1> QED
    BY <1>1, FS_CardinalityType, Zenon

LEMMA CountMove ==
    ASSUME NEW p \in [Threads -> PCs], NEW t \in Threads, NEW x \in PCs, NEW S
    PROVE  LET q == [p EXCEPT ![t] = x]
           IN  /\ x \in S /\ p[t] \notin S => Cardinality(In(q, S)) = Cardinality(In(p, S)) + 1
               /\ x \notin S /\ p[t] \in S => Cardinality(In(q, S)) = Cardinality(In(p, S)) - 1
               /\ (x \in S <=> p[t] \in S) => In(q, S) = In(p, S)
<1> DEFINE q == [p EXCEPT ![t] = x]
<1>1. IsFiniteSet(In(p, S))
    BY InFinite, Zenon
<1>2. x \in S /\ p[t] \notin S => In(q, S) = In(p, S) \cup {t} /\ t \notin In(p, S)
    BY Zenon DEF In
<1>3. x \notin S /\ p[t] \in S => In(q, S) = In(p, S) \ {t} /\ t \in In(p, S)
    BY Zenon DEF In
<1>4. (x \in S <=> p[t] \in S) => In(q, S) = In(p, S)
    BY Zenon DEF In
<1>5. t \notin In(p, S) => Cardinality(In(p, S) \cup {t}) = Cardinality(In(p, S)) + 1
    BY <1>1, FS_AddElement, Zenon
<1>6. t \in In(p, S) => Cardinality(In(p, S) \ {t}) = Cardinality(In(p, S)) - 1
    BY <1>1, FS_RemoveElement, Zenon
<1> QED
    BY <1>2, <1>3, <1>4, <1>5, <1>6, Zenon

(* Wakeups is NoLostWakeup. *)
LEMMA WakeupsIs ==
    NoLostWakeup <=> Wakeups(pc, wait_count, Len(free_list), valid, cmax)
<1>1. /\ Waiting = In(pc, WaitStates) /\ Blocked = In(pc, {"blocked"})
      /\ {t \in Threads : pc[t] = "woken"} = In(pc, {"woken"})
    BY Zenon DEF Waiting, Blocked, In, WaitStates
<1> QED
    BY <1>1, Zenon DEF NoLostWakeup, Wakeups

(* A thread that does not wait goes on without waiting. *)
LEMMA WakeupsGoOn ==
    ASSUME NEW p \in [Threads -> PCs], NEW t \in Threads, NEW x \in PCs \ WaitStates, p[t] \notin WaitStates,
           NEW n, NEW k, NEW v, NEW c, Wakeups(p, n, k, v, c)
    PROVE  Wakeups([p EXCEPT ![t] = x], n, k, v, c)
<1> DEFINE q == [p EXCEPT ![t] = x]
<1>1. In(q, WaitStates) = In(p, WaitStates)
    BY CountMove, Zenon
<1>2. In(q, {"blocked"}) = In(p, {"blocked"}) /\ In(q, {"woken"}) = In(p, {"woken"})
    BY CountMove, Zenon DEF WaitStates
<1> QED
    BY <1>1, <1>2, Zenon DEF Wakeups

(* A blocked thread wakes up, and there is one more free connection at most. *)
LEMMA WakeupsWake ==
    ASSUME NEW p \in [Threads -> PCs], NEW u \in Threads, p[u] = "blocked",
           NEW n, NEW k \in Int, NEW v, NEW c, Wakeups(p, n, k, v, c)
    PROVE  Wakeups([p EXCEPT ![u] = "woken"], n, k + 1, v, c) /\ Wakeups([p EXCEPT ![u] = "woken"], n, k, v, c)
<1> DEFINE q == [p EXCEPT ![u] = "woken"]
<1>0. "woken" \in PCs /\ "woken" \in WaitStates /\ p[u] \in WaitStates
    BY Zenon DEF PCs, WaitStates
<1>1. In(q, WaitStates) = In(p, WaitStates)
    BY <1>0, CountMove, Zenon
<1>2. Cardinality(In(q, {"woken"})) = Cardinality(In(p, {"woken"})) + 1
    BY <1>0, CountMove, Zenon
<1>3. u \in In(p, {"blocked"})
    BY Zenon DEF In
<1>4. Cardinality(In(p, {"woken"})) \in Nat
    BY InFinite, Zenon
<1> QED
    BY <1>1, <1>2, <1>3, <1>4 DEF Wakeups

(* A blocked thread times out. *)
LEMMA WakeupsTimeOut ==
    ASSUME NEW p \in [Threads -> PCs], NEW u \in Threads, p[u] = "blocked",
           NEW n, NEW k \in Int, NEW v, NEW c, Wakeups(p, n, k, v, c)
    PROVE  Wakeups([p EXCEPT ![u] = "timedout"], n, k, v, c)
<1> DEFINE q == [p EXCEPT ![u] = "timedout"]
<1>0. "timedout" \in PCs /\ "timedout" \in WaitStates /\ p[u] \in WaitStates
    BY Zenon DEF PCs, WaitStates
<1>1. In(q, WaitStates) = In(p, WaitStates)
    BY <1>0, CountMove, Zenon
<1>2. In(q, {"woken"}) = In(p, {"woken"})
    BY <1>0, CountMove, Zenon
<1>3. u \in In(p, {"blocked"})
    BY Zenon DEF In
<1> QED
    BY <1>1, <1>2, <1>3, Zenon DEF Wakeups

(* Signal() after a connection has become free. *)
LEMMA WakeupsSignal ==
    ASSUME Types, NEW t \in Threads, pc[t] \notin WaitStates, NEW to \in PCs \ WaitStates, Signal(t, to),
           Wakeups(pc, wait_count, Len(free_list), valid, cmax)
    PROVE  /\ Wakeups(pc', wait_count, Len(free_list) + 1, valid, cmax)
           /\ pc' \in [Threads -> PCs] /\ pc'[t] = to
           /\ \A u \in Threads \ {t} : pc'[u] = pc[u] \/ (pc[u] = "blocked" /\ pc'[u] = "woken")
<1>1. Len(free_list) \in Nat
    BY LenProperties, Zenon DEF Types
<1>2. CASE wait_count > 0 /\ Blocked # {}
    <2>1. PICK u \in Blocked : pc' = [pc EXCEPT ![u] = "woken", ![t] = to]
        BY <1>2, Zenon DEF Signal
    <2> DEFINE q == [pc EXCEPT ![u] = "woken"]
    <2>2. u \in Threads /\ pc[u] = "blocked" /\ u # t
        BY Zenon DEF Blocked, WaitStates
    <2>3. Wakeups(q, wait_count, Len(free_list) + 1, valid, cmax)
        <3>1. Len(free_list) \in Int /\ pc \in [Threads -> PCs]
            BY <1>1 DEF Types
        <3> QED
            BY <3>1, <2>2, WakeupsWake, Zenon
    <2>4. q \in [Threads -> PCs] /\ q[t] = pc[t]
        <3>1. "woken" \in PCs
            BY Zenon DEF PCs
        <3> QED
            BY <2>2, <3>1, Zenon DEF Types
    <2>5. pc' = [q EXCEPT ![t] = to]
        BY <2>1, Zenon
    <2> HIDE DEF q
    <2>6. Wakeups(pc', wait_count, Len(free_list) + 1, valid, cmax)
        BY <2>3, <2>4, <2>5, WakeupsGoOn, Zenon
    <2> QED
        BY <2>1, <2>2, <2>6, Zenon DEF Types, PCs
<1>3. CASE ~(wait_count > 0 /\ Blocked # {})
    <2>1. pc' = [pc EXCEPT ![t] = to]
        BY <1>3, Zenon DEF Signal
    <2>2. Blocked = {}
        <3>1. SUFFICES ASSUME NEW u \in Blocked PROVE FALSE
            BY Zenon
        <3>2. u \in In(pc, WaitStates)
            BY Zenon DEF Blocked, In, WaitStates
        <3>3. Cardinality(In(pc, WaitStates)) # 0 /\ Cardinality(In(pc, WaitStates)) \in Nat
            BY <3>2, InFinite, FS_EmptySet, Zenon
        <3> QED
            BY <3>3, <1>3 DEF Wakeups
    <2>3. In(pc, {"blocked"}) = {}
        BY <2>2, Zenon DEF Blocked, In
    <2>4. Wakeups(pc, wait_count, Len(free_list) + 1, valid, cmax)
        BY <2>3, Zenon DEF Wakeups
    <2>5. Wakeups(pc', wait_count, Len(free_list) + 1, valid, cmax)
        BY <2>1, <2>4, WakeupsGoOn, Zenon DEF Types
    <2> QED
        BY <2>1, <2>5, Zenon DEF Types
<1> QED
    BY <1>2, <1>3, Zenon

-----------------------------------------------------------------------------
(* The steps of a thread with its own connection *)

(* A thread changes no connection but its own. *)
OwnConn(t) ==
    /\ conn' \in [Index -> Conns]
    /\ \A i \in Index \ {tmap[t]} : conn'[i] = conn[i]

(* The action of TransactionStays. *)
Stays == \A t \in Threads : (tmap[t] # none /\ tmap'[t] # tmap[t]) => ~conn'[tmap[t]].trans

(* freeDS() of a connection without a transaction. *)
LEMMA GiveInv ==
    ASSUME IInv, NEW t \in Threads, tmap[t] # none, pc[t] \notin WaitStates,
           NEW to \in {"idle", "freed"}, freeDS(t, to), OwnConn(t), ~conn'[tmap[t]].trans
    PROVE  IInv' /\ Stays
<1> USE DEF IInv
<1>1. /\ tmap' = [tmap EXCEPT ![t] = none] /\ free_list' = Append(free_list, tmap[t])
      /\ resource' = resource \ {t}
      /\ UNCHANGED <<cmax, wait_count, valid, tl_timeout>>
      /\ new_ds' = [new_ds EXCEPT ![t] = FALSE] /\ waited' = [waited EXCEPT ![t] = FALSE]
      /\ timed' = [timed EXCEPT ![t] = FALSE]
    BY Zenon DEF freeDS, EndCall
<1>2. /\ Wakeups(pc', wait_count, Len(free_list) + 1, valid, cmax)
      /\ pc' \in [Threads -> PCs] /\ pc'[t] = to
      /\ \A u \in Threads \ {t} : pc'[u] = pc[u] \/ (pc[u] = "blocked" /\ pc'[u] = "woken")
    <2>1. to \in PCs \ WaitStates
        BY Zenon DEF PCs, WaitStates
    <2> QED
        BY <2>1, WakeupsSignal, Zenon DEF freeDS
<1>3. /\ free_list' \in Seq(Index) /\ Len(free_list') = Len(free_list) + 1
      /\ DOMAIN free_list' = DOMAIN free_list \cup {Len(free_list) + 1}
      /\ free_list'[Len(free_list) + 1] = tmap[t]
      /\ \A k \in DOMAIN free_list : free_list'[k] = free_list[k] /\ free_list[k] \in Index
      /\ tmap[t] \in Index
    BY <1>1, LenProperties, ElementOfSeq DEF Types
<1>4. \A u \in Threads : tmap'[u] = IF u = t THEN none ELSE tmap[u]
    BY <1>1, Zenon DEF Types
<1>5. Types'
    BY <1>1, <1>2, <1>3, Zenon DEF Types, OwnConn
<1>6. Owned(free_list, tmap, cmax)'
    <2>1. cmax \in Nat
        BY Sizes DEF Types
    <2> QED
        BY <1>1, <2>1, OwnedGive, Zenon DEF Types
<1>7. Resources'
    BY <1>1, <1>4, Zenon DEF Resources
<1>8. PcOwner'
    BY <1>2, <1>4, Zenon DEF PcOwner
<1>9. \A u \in Threads : u # t /\ tmap[u] # none => conn'[tmap[u]] = conn[tmap[u]] /\ pc'[u] = pc[u]
    <2> SUFFICES ASSUME NEW u \in Threads, u # t, tmap[u] # none
                 PROVE  conn'[tmap[u]] = conn[tmap[u]] /\ pc'[u] = pc[u]
        BY Zenon
    <2>1. tmap[u] # tmap[t] /\ tmap[u] \in Index
        BY Zenon DEF Owned, Types
    <2> QED
        BY <2>1, <1>2, Zenon DEF OwnConn, PcOwner
<1>10. NewClean'
    <2>1. \A i \in Index : i >= cmax' => ~conn'[i].trans
        <3> SUFFICES ASSUME NEW i \in Index, i >= cmax PROVE ~conn'[i].trans
            BY <1>1, Zenon
        <3>1. i # tmap[t]
            <4>1. tmap[t] < cmax /\ tmap[t] \in Int /\ cmax \in Int /\ i \in Int
                BY <1>3, Sizes DEF Owned, Types, Index
            <4> QED
                BY <4>1
        <3> QED
            BY <3>1, Zenon DEF OwnConn, NewClean
    <2>2. ASSUME NEW u \in Threads
          PROVE  /\ pc'[u] \in {"idle", "calling", "blocked", "woken", "timedout"} => ~new_ds'[u]
                 /\ pc'[u] \in {"idle", "calling"} => ~waited'[u]
                 /\ pc'[u] = "got" /\ waited'[u] => new_ds'[u]
                 /\ pc'[u] = "config" => new_ds'[u]
                 /\ pc'[u] \in {"got", "config", "ready"} /\ new_ds'[u] => ~conn'[tmap'[u]].trans
        <3>1. CASE u = t
            BY <3>1, <1>1, <1>2, Zenon DEF Types
        <3>2. CASE u # t /\ pc'[u] = pc[u]
            <4>1. new_ds'[u] = new_ds[u] /\ waited'[u] = waited[u] /\ tmap'[u] = tmap[u]
                BY <3>2, <1>1, <1>4, Zenon DEF Types
            <4>2. pc[u] \in {"got", "config", "ready"} => tmap[u] # none
                BY Zenon DEF PcOwner
            <4> QED
                BY <3>2, <4>1, <4>2, <1>9, Zenon DEF NewClean
        <3>3. CASE u # t /\ pc[u] = "blocked" /\ pc'[u] = "woken"
            <4>1. new_ds'[u] = new_ds[u]
                BY <3>3, <1>1, Zenon DEF Types
            <4> QED
                BY <3>3, <4>1, Zenon DEF NewClean
        <3> QED
            BY <3>1, <3>2, <3>3, <1>2, Zenon
    <2> QED
        BY <2>1, <2>2, Zenon DEF NewClean
<1>11. FreeCleanHeldOpen'
    <2>1. ASSUME NEW k \in DOMAIN free_list PROVE ~conn'[free_list'[k]].trans
        <3>1. free_list[k] \in Index /\ free_list[k] # tmap[t]
            BY <1>3, Zenon DEF Owned
        <3> QED
            BY <3>1, <1>3, Zenon DEF OwnConn, FreeCleanHeldOpen
    <2>2. \A k \in DOMAIN free_list' : ~conn'[free_list'[k]].trans
        BY <2>1, <1>3, Zenon
    <2>3. ASSUME NEW u \in Threads, tmap'[u] # none, ~conn'[tmap'[u]].open
          PROVE  new_ds'[u] /\ pc'[u] \in {"got", "config"}
        <3>1. u # t /\ tmap'[u] = tmap[u]
            BY <2>3, <1>4, Zenon
        <3>2. new_ds'[u] = new_ds[u]
            BY <3>1, <1>1, Zenon DEF Types
        <3> QED
            BY <2>3, <3>1, <3>2, <1>9, Zenon DEF FreeCleanHeldOpen
    <2> QED
        BY <2>2, <2>3, Zenon DEF FreeCleanHeldOpen
<1>12. Wakeups(pc, wait_count, Len(free_list), valid, cmax)'
    BY <1>1, <1>2, <1>3, Zenon
<1>13. Stays
    BY <1>4, Zenon DEF Stays
<1> QED
    BY <1>5, <1>6, <1>7, <1>8, <1>10, <1>11, <1>12, <1>13, Zenon

(* The thread goes on, or returns, with its connection. *)
LEMMA KeepInv ==
    ASSUME IInv, NEW t \in Threads, tmap[t] # none, pc[t] \notin WaitStates,
           NEW to \in {"got", "ready", "idle"}, Keep(t, to), OwnConn(t),
           (to \in {"ready", "idle"} \/ ~new_ds[t]) => conn'[tmap[t]].open,
           to \in {"got", "ready"} /\ new_ds[t] => ~conn'[tmap[t]].trans,
           to = "got" /\ waited[t] => new_ds[t]
    PROVE  IInv' /\ Stays
<1> USE DEF IInv
<1>1. /\ pc' = [pc EXCEPT ![t] = to]
      /\ UNCHANGED <<free_list, tmap, cmax, wait_count, valid, tl_timeout, resource>>
      /\ to = "idle" => EndCall(t)
      /\ to # "idle" => UNCHANGED locals
    BY Zenon DEF Keep
<1>2. to \in PCs \ WaitStates
    BY Zenon DEF PCs, WaitStates
<1>3. /\ new_ds' \in [Threads -> BOOLEAN] /\ waited' \in [Threads -> BOOLEAN] /\ timed' \in [Threads -> BOOLEAN]
      /\ to = "idle" => ~new_ds'[t] /\ ~waited'[t]
      /\ to # "idle" => new_ds'[t] = new_ds[t] /\ waited'[t] = waited[t]
      /\ \A u \in Threads \ {t} : new_ds'[u] = new_ds[u] /\ waited'[u] = waited[u]
    BY <1>1, Zenon DEF Types, EndCall, locals
<1>4. Types'
    BY <1>1, <1>2, <1>3, Zenon DEF Types, OwnConn
<1>5. Owned(free_list, tmap, cmax)' /\ Resources'
    BY <1>1, Zenon DEF Resources
<1>6. pc'[t] = to /\ \A u \in Threads \ {t} : pc'[u] = pc[u]
    BY <1>1, Zenon DEF Types
<1>7. PcOwner'
    BY <1>1, <1>6, Zenon DEF PcOwner
<1>8. \A u \in Threads : u # t /\ tmap[u] # none => conn'[tmap[u]] = conn[tmap[u]]
    BY DEF Owned, Types, OwnConn
<1>9. NewClean'
    <2>1. \A i \in Index : i >= cmax' => ~conn'[i].trans
        <3> SUFFICES ASSUME NEW i \in Index, i >= cmax PROVE ~conn'[i].trans
            BY <1>1, Zenon
        <3>1. i # tmap[t]
            <4>1. tmap[t] < cmax /\ tmap[t] \in Int /\ cmax \in Int /\ i \in Int
                BY Sizes DEF Owned, Types, Index
            <4> QED
                BY <4>1
        <3> QED
            BY <3>1, Zenon DEF OwnConn, NewClean
    <2>2. ASSUME NEW u \in Threads
          PROVE  /\ pc'[u] \in {"idle", "calling", "blocked", "woken", "timedout"} => ~new_ds'[u]
                 /\ pc'[u] \in {"idle", "calling"} => ~waited'[u]
                 /\ pc'[u] = "got" /\ waited'[u] => new_ds'[u]
                 /\ pc'[u] = "config" => new_ds'[u]
                 /\ pc'[u] \in {"got", "config", "ready"} /\ new_ds'[u] => ~conn'[tmap'[u]].trans
        <3>1. CASE u = t
            BY <3>1, <1>1, <1>3, <1>6, Zenon
        <3>2. CASE u # t
            <4>1. pc[u] \in {"got", "config", "ready"} => tmap[u] # none
                BY Zenon DEF PcOwner
            <4> QED
                BY <3>2, <4>1, <1>1, <1>3, <1>6, <1>8, Zenon DEF NewClean
        <3> QED
            BY <3>1, <3>2, Zenon
    <2> QED
        BY <2>1, <2>2, Zenon DEF NewClean
<1>10. FreeCleanHeldOpen'
    <2>1. ASSUME NEW k \in DOMAIN free_list' PROVE ~conn'[free_list'[k]].trans
        <3>1. free_list[k] \in Index /\ free_list[k] # tmap[t]
            BY <1>1, LenProperties, ElementOfSeq DEF Owned, Types
        <3> QED
            BY <3>1, <1>1, Zenon DEF OwnConn, FreeCleanHeldOpen
    <2>2. ASSUME NEW u \in Threads, tmap'[u] # none, ~conn'[tmap'[u]].open
          PROVE  new_ds'[u] /\ pc'[u] \in {"got", "config"}
        <3>1. CASE u = t
            BY <2>2, <3>1, <1>1, <1>3, <1>6, Zenon
        <3>2. CASE u # t
            BY <2>2, <3>2, <1>1, <1>3, <1>6, <1>8, Zenon DEF FreeCleanHeldOpen
        <3> QED
            BY <3>1, <3>2, Zenon
    <2> QED
        BY <2>1, <2>2, Zenon DEF FreeCleanHeldOpen
<1>11. Wakeups(pc, wait_count, Len(free_list), valid, cmax)'
    BY <1>1, <1>2, WakeupsGoOn, Zenon DEF Types
<1>12. Stays
    BY <1>1, Zenon DEF Stays
<1> QED
    BY <1>4, <1>5, <1>7, <1>9, <1>10, <1>11, <1>12, Zenon

-----------------------------------------------------------------------------
(* The steps that give a thread a connection, and those that move none *)

(* What the invariant says of one thread. *)
Local(t) ==
    /\ pc[t] \in {"got", "config", "ready", "deleting"} => tmap[t] # none
    /\ pc[t] \in {"blocked", "woken", "timedout", "freed", "crashed"} => tmap[t] = none
    /\ pc[t] \in {"idle", "calling", "blocked", "woken", "timedout"} => ~new_ds[t]
    /\ pc[t] \in {"idle", "calling"} => ~waited[t]
    /\ pc[t] = "got" /\ waited[t] => new_ds[t]
    /\ pc[t] = "config" => new_ds[t]
    /\ pc[t] \in {"got", "config", "ready"} /\ new_ds[t] => ~conn[tmap[t]].trans
    /\ (tmap[t] # none /\ ~conn[tmap[t]].open) => (new_ds[t] /\ pc[t] \in {"got", "config"})

LEMMA LocalIs ==
    PcOwner /\ NewClean /\ FreeCleanHeldOpen <=>
        /\ \A t \in Threads : Local(t)
        /\ \A i \in Index : i >= cmax => ~conn[i].trans
        /\ \A k \in DOMAIN free_list : ~conn[free_list[k]].trans
BY Zenon DEF PcOwner, NewClean, FreeCleanHeldOpen, Local

(* Nothing but thread t changes as far as Local() of the others goes. *)
Others(t) ==
    \A u \in Threads \ {t} :
        pc'[u] = pc[u] /\ new_ds'[u] = new_ds[u] /\ waited'[u] = waited[u] /\ tmap'[u] = tmap[u]

LEMMA MoveInv ==
    ASSUME IInv, NEW t \in Threads, Types', UNCHANGED <<free_list, tmap, cmax, conn, resource>>,
           Others(t), Local(t)', Wakeups(pc, wait_count, Len(free_list), valid, cmax)'
    PROVE  IInv' /\ Stays
<1> USE DEF IInv
<1>1. Owned(free_list, tmap, cmax)' /\ Resources'
    BY Zenon DEF Resources
<1>2. \A u \in Threads : Local(u)'
    BY LocalIs, Zenon DEF Local, Others
<1>3. PcOwner' /\ NewClean' /\ FreeCleanHeldOpen'
    <2>1. \A i \in Index : i >= cmax' => ~conn'[i].trans
        BY Zenon DEF NewClean
    <2>2. \A k \in DOMAIN free_list' : ~conn'[free_list'[k]].trans
        BY Zenon DEF FreeCleanHeldOpen
    <2> QED
        BY <1>2, <2>1, <2>2, Zenon DEF PcOwner, NewClean, FreeCleanHeldOpen, Local
<1>4. Stays
    BY Zenon DEF Stays
<1> QED
    BY <1>1, <1>3, <1>4, Zenon

(* A thread stops waiting, or takes a free connection without a wait. *)
LEMMA WakeupsLeave ==
    ASSUME NEW p \in [Threads -> PCs], NEW t \in Threads, NEW x \in PCs \ WaitStates,
           NEW n, NEW k \in Int, NEW v, NEW c, Wakeups(p, n, k, v, c)
    PROVE  /\ p[t] \notin WaitStates => Wakeups([p EXCEPT ![t] = x], n, k - 1, v, c)
           /\ p[t] \in {"woken", "timedout"} => Wakeups([p EXCEPT ![t] = x], n - 1, k - 1, v, c)
           /\ p[t] = "timedout" => Wakeups([p EXCEPT ![t] = x], n - 1, k, v, c)
           /\ p[t] = "woken" /\ ~v => Wakeups([p EXCEPT ![t] = x], n - 1, k, v, c)
           /\ p[t] \notin WaitStates /\ c # max => Wakeups([p EXCEPT ![t] = x], n, k, v, c + 1)
           /\ p[t] \in {"woken", "timedout"} /\ c # max => Wakeups([p EXCEPT ![t] = x], n - 1, k, v, c + 1)
<1> DEFINE q == [p EXCEPT ![t] = x]
<1>1. p[t] \in WaitStates => Cardinality(In(q, WaitStates)) = Cardinality(In(p, WaitStates)) - 1
    BY CountMove, Zenon
<1>2. p[t] \notin WaitStates => In(q, WaitStates) = In(p, WaitStates)
    BY CountMove, Zenon
<1>3. x # "woken" /\ x # "blocked" /\ {"woken", "timedout"} \subseteq WaitStates /\ "woken" # "timedout"
    BY Zenon DEF WaitStates
<1>4. /\ p[t] = "woken" => Cardinality(In(q, {"woken"})) = Cardinality(In(p, {"woken"})) - 1
      /\ p[t] # "woken" => In(q, {"woken"}) = In(p, {"woken"})
    BY <1>3, CountMove, Zenon
<1>5. p[t] # "blocked" => In(q, {"blocked"}) = In(p, {"blocked"})
    BY <1>3, CountMove, Zenon
<1>6. p[t] \notin WaitStates => p[t] # "woken" /\ p[t] # "blocked"
    BY Zenon DEF WaitStates
<1>7. Cardinality(In(p, {"woken"})) \in Nat
    BY InFinite, Zenon
<1> HIDE DEF q
<1>8. /\ p[t] \notin WaitStates => Wakeups(q, n, k - 1, v, c)
      /\ p[t] \notin WaitStates /\ c # max => Wakeups(q, n, k, v, c + 1)
    BY <1>2, <1>4, <1>5, <1>6, <1>7 DEF Wakeups
<1>9. /\ p[t] \in {"woken", "timedout"} => Wakeups(q, n - 1, k - 1, v, c)
      /\ p[t] = "timedout" => Wakeups(q, n - 1, k, v, c)
      /\ p[t] = "woken" /\ ~v => Wakeups(q, n - 1, k, v, c)
      /\ p[t] \in {"woken", "timedout"} /\ c # max => Wakeups(q, n - 1, k, v, c + 1)
    BY <1>1, <1>3, <1>4, <1>5, <1>7 DEF Wakeups
<1> QED
    BY <1>8, <1>9, Zenon DEF q

(* A thread begins to wait, or waits again, when no connection is free. *)
LEMMA WakeupsBlock ==
    ASSUME NEW p \in [Threads -> PCs], NEW t \in Threads, NEW n \in Int, NEW v, Wakeups(p, n, 0, v, max)
    PROVE  /\ p[t] \notin WaitStates => Wakeups([p EXCEPT ![t] = "blocked"], n + 1, 0, v, max)
           /\ p[t] \in {"woken", "timedout"} => Wakeups([p EXCEPT ![t] = "blocked"], (n - 1) + 1, 0, v, max)
<1> DEFINE q == [p EXCEPT ![t] = "blocked"]
<1>1. "blocked" \in PCs /\ {"blocked", "woken", "timedout"} = WaitStates
    BY Zenon DEF PCs, WaitStates
<1>2. p[t] \in WaitStates => In(q, WaitStates) = In(p, WaitStates)
    BY <1>1, CountMove, Zenon
<1>3. p[t] \notin WaitStates => Cardinality(In(q, WaitStates)) = Cardinality(In(p, WaitStates)) + 1
    BY <1>1, CountMove, Zenon
<1>4. Cardinality(In(q, {"woken"})) \in Nat
    BY InFinite, Zenon
<1> HIDE DEF q
<1>5. p[t] \notin WaitStates => Wakeups(q, n + 1, 0, v, max)
    BY <1>3, <1>4 DEF Wakeups
<1>6. p[t] \in {"woken", "timedout"} => Wakeups(q, (n - 1) + 1, 0, v, max)
    BY <1>1, <1>2, <1>4 DEF Wakeups
<1> QED
    BY <1>5, <1>6, Zenon DEF q

(* The thread gets connection i, free until now or newly made. *)
LEMMA AssignInv ==
    ASSUME IInv, NEW t \in Threads, tmap[t] = none, NEW i \in Index, NEW w \in BOOLEAN,
           Assign(t, i), ~conn[i].trans, waited' = [waited EXCEPT ![t] = w],
           free_list' \in Seq(Index), \A k \in DOMAIN free_list' : \E j \in DOMAIN free_list : free_list'[k] = free_list[j],
           cmax' \in min .. max, cmax' >= cmax, wait_count' \in Int,
           Owned(free_list, tmap, cmax)', Wakeups(pc, wait_count, Len(free_list), valid, cmax)'
    PROVE  IInv' /\ Stays
<1> USE DEF IInv
<1>1. /\ tmap' = [tmap EXCEPT ![t] = i] /\ new_ds' = [new_ds EXCEPT ![t] = TRUE]
      /\ resource' = resource \cup {t} /\ pc' = [pc EXCEPT ![t] = "got"]
      /\ timed' = [timed EXCEPT ![t] = FALSE] /\ UNCHANGED <<valid, tl_timeout, conn>>
    BY Zenon DEF Assign
<1>2. i # none
    BY Sizes DEF Index, none
<1>3. Types'
    <2>1. "got" \in PCs
        BY Zenon DEF PCs
    <2> QED
        BY <1>1, <2>1, Zenon DEF Types
<1>4. Resources'
    BY <1>1, <1>2, Zenon DEF Resources, Types
<1>5. Local(t)'
    BY <1>1, <1>2, Zenon DEF Local, Types
<1>6. ASSUME NEW u \in Threads PROVE Local(u)'
    <2>1. CASE u = t
        BY <2>1, <1>5, Zenon
    <2>2. CASE u # t
        BY <2>2, <1>1, LocalIs, Zenon DEF Local, Types
    <2> QED
        BY <2>1, <2>2, Zenon
<1>7. \A j \in Index : j >= cmax' => ~conn'[j].trans
    <2> SUFFICES ASSUME NEW j \in Index, j >= cmax' PROVE ~conn'[j].trans
        BY Zenon
    <2>1. j >= cmax
        BY Sizes DEF Index, Types
    <2> QED
        BY <2>1, <1>1, Zenon DEF NewClean
<1>8. \A k \in DOMAIN free_list' : ~conn'[free_list'[k]].trans
    BY <1>1, Zenon DEF FreeCleanHeldOpen
<1>9. PcOwner' /\ NewClean' /\ FreeCleanHeldOpen'
    BY <1>6, <1>7, <1>8, Zenon DEF PcOwner, NewClean, FreeCleanHeldOpen, Local
<1>10. Stays
    BY <1>1, Zenon DEF Stays, Types
<1> QED
    BY <1>3, <1>4, <1>9, <1>10, Zenon

(* One turn of the loop of getDSIntern(). *)
LEMMA TurnInv ==
    ASSUME IInv, NEW t \in Threads, pc[t] \in {"calling", "woken", "timedout"}, tmap[t] = none,
           NEW n, n = (IF pc[t] = "calling" THEN wait_count ELSE wait_count - 1), NEW w \in BOOLEAN,
           Turn(t, n, w)
    PROVE  IInv' /\ Stays
<1> USE DEF IInv
<1>1. /\ cmax \in Nat /\ cmax <= max /\ n \in Int /\ max \in Nat
      /\ free_list \in Seq(Index) /\ Len(free_list) \in Nat /\ DOMAIN free_list = 1 .. Len(free_list)
      /\ pc \in [Threads -> PCs] /\ tmap \in [Threads -> Index \cup {none}]
    BY Sizes, LenProperties DEF Types
<1>2. /\ pc[t] = "calling" => pc[t] \notin WaitStates
      /\ pc[t] # "calling" => pc[t] \in {"woken", "timedout"}
    BY Zenon DEF WaitStates
<1>3. "got" \in PCs \ WaitStates /\ "blocked" \in PCs
    BY Zenon DEF PCs, WaitStates
<1>4. CASE /\ free_list # <<>> /\ free_list' = Tail(free_list) /\ Assign(t, Head(free_list))
           /\ wait_count' = n /\ waited' = [waited EXCEPT ![t] = w] /\ UNCHANGED cmax
    <2>1. /\ Head(free_list) \in Index /\ Head(free_list) = free_list[1] /\ 1 \in DOMAIN free_list
          /\ free_list' \in Seq(Index) /\ Len(free_list') = Len(free_list) - 1
          /\ \A k \in 1 .. Len(free_list') : free_list'[k] = free_list[k + 1]
        BY <1>1, <1>4, HeadTailProperties, EmptySeq
    <2>2. \A k \in DOMAIN free_list' : \E j \in DOMAIN free_list : free_list'[k] = free_list[j]
        <3>1. DOMAIN free_list' = 1 .. Len(free_list) - 1
            BY <2>1, LenProperties, Zenon
        <3>2. \A k \in DOMAIN free_list' : k + 1 \in DOMAIN free_list
            BY <3>1, <1>1
        <3> QED
            BY <3>1, <3>2, <2>1, Zenon
    <2>3. ~conn[Head(free_list)].trans
        BY <2>1, Zenon DEF FreeCleanHeldOpen
    <2>4. Owned(free_list, tmap, cmax)'
        BY <1>1, <1>4, OwnedTake, Zenon DEF Assign
    <2>5. Wakeups(pc, wait_count, Len(free_list), valid, cmax)'
        <3>1. /\ pc' = [pc EXCEPT ![t] = "got"] /\ valid' = valid /\ cmax' = cmax
              /\ wait_count' = n /\ Len(free_list') = Len(free_list) - 1 /\ Len(free_list) \in Int
            BY <1>1, <1>4, <2>1 DEF Assign
        <3>2. Wakeups([pc EXCEPT ![t] = "got"], n, Len(free_list) - 1, valid, cmax)
            <4>1. CASE pc[t] = "calling"
                BY <4>1, <3>1, <1>1, <1>2, <1>3, WakeupsLeave, Zenon
            <4>2. CASE pc[t] # "calling"
                BY <4>2, <3>1, <1>1, <1>2, <1>3, WakeupsLeave, Zenon
            <4> QED
                BY <4>1, <4>2, Zenon
        <3> QED
            BY <3>1, <3>2, Zenon
    <2> QED
        <3>1. cmax' \in min .. max /\ cmax' >= cmax /\ wait_count' \in Int
            BY <1>1, <1>4 DEF Types
        <3> QED
            BY <3>1, <1>4, <2>1, <2>2, <2>3, <2>4, <2>5, AssignInv, Zenon
<1>5. CASE /\ free_list = <<>> /\ cmax < max /\ cmax' = cmax + 1 /\ Assign(t, cmax)
           /\ wait_count' = n /\ waited' = [waited EXCEPT ![t] = w] /\ UNCHANGED free_list
    <2>1. cmax \in Index /\ cmax' \in min .. max /\ cmax' >= cmax /\ wait_count' \in Int /\ cmax # max
        BY <1>1, <1>5, Sizes DEF Index, Types
    <2>2. ~conn[cmax].trans
        BY <1>1, <2>1 DEF NewClean
    <2>3. \A k \in DOMAIN free_list' : \E j \in DOMAIN free_list : free_list'[k] = free_list[j]
        BY <1>5, Zenon
    <2>4. Owned(free_list, tmap, cmax)'
        BY <1>1, <1>5, OwnedMake, Zenon DEF Assign
    <2>5. Wakeups(pc, wait_count, Len(free_list), valid, cmax)'
        <3>1. /\ pc' = [pc EXCEPT ![t] = "got"] /\ valid' = valid /\ cmax' = cmax + 1
              /\ wait_count' = n /\ Len(free_list') = Len(free_list) /\ Len(free_list) \in Int
            BY <1>1, <1>5 DEF Assign
        <3> QED
            BY <3>1, <1>1, <1>2, <1>3, <2>1, WakeupsLeave, Zenon
    <2>6. free_list' \in Seq(Index)
        BY <1>1, <1>5, Zenon
    <2> QED
        BY <1>5, <2>1, <2>2, <2>3, <2>4, <2>5, <2>6, AssignInv, Zenon
<1>6. CASE /\ free_list = <<>> /\ cmax = max /\ wait_count' = n + 1 /\ pc' = [pc EXCEPT ![t] = "blocked"]
           /\ timed' = [timed EXCEPT ![t] = tl_timeout] /\ waited' = [waited EXCEPT ![t] = w]
           /\ UNCHANGED <<free_list, tmap, cmax, valid, tl_timeout, conn, resource, new_ds>>
    <2>1. Types'
        BY <1>1, <1>3, <1>6 DEF Types
    <2>2. Others(t)
        BY <1>6, Zenon DEF Others, Types
    <2>3. Local(t)'
        BY <1>6, <1>1, LocalIs, Zenon DEF Local
    <2>4. Wakeups(pc, wait_count, Len(free_list), valid, cmax)'
        <3>1. Len(free_list) = 0 /\ wait_count \in Int
            BY <1>6, EmptySeq, Zenon DEF Types
        <3>2. Wakeups(pc, wait_count, 0, valid, max)
            BY <3>1, <1>6, Zenon
        <3>3. Wakeups([pc EXCEPT ![t] = "blocked"], n + 1, 0, valid, max)
            <4>1. CASE pc[t] = "calling"
                BY <4>1, <3>1, <3>2, <1>1, <1>2, WakeupsBlock, Zenon
            <4>2. CASE pc[t] # "calling"
                BY <4>2, <3>1, <3>2, <1>1, <1>2, WakeupsBlock, Zenon
            <4> QED
                BY <4>1, <4>2, Zenon
        <3> QED
            BY <3>1, <3>3, <1>6, Zenon
    <2> QED
        BY <1>6, <2>1, <2>2, <2>3, <2>4, MoveInv, Zenon
<1> QED
    BY <1>4, <1>5, <1>6, Zenon DEF Turn

(* A wait ends with an exception. *)
LEMMA FailInv ==
    ASSUME IInv, NEW t \in Threads, pc[t] = "timedout" \/ (pc[t] = "woken" /\ ~valid), Fail(t)
    PROVE  IInv' /\ Stays
<1> USE DEF IInv
<1>1. /\ pc' = [pc EXCEPT ![t] = "idle"] /\ wait_count' = wait_count - 1
      /\ new_ds' = [new_ds EXCEPT ![t] = FALSE] /\ waited' = [waited EXCEPT ![t] = FALSE]
      /\ timed' = [timed EXCEPT ![t] = FALSE]
      /\ UNCHANGED <<free_list, tmap, cmax, valid, tl_timeout, conn, resource>>
    BY Zenon DEF Fail, EndCall
<1>2. "idle" \in PCs \ WaitStates
    BY Zenon DEF PCs, WaitStates
<1>3. Types'
    BY <1>1, <1>2 DEF Types
<1>4. Others(t)
    BY <1>1, Zenon DEF Others, Types
<1>5. Local(t)'
    BY <1>1, LocalIs, Zenon DEF Local, Types
<1>6. Wakeups(pc, wait_count, Len(free_list), valid, cmax)'
    <2>1. Len(free_list) \in Int /\ pc \in [Threads -> PCs]
        BY LenProperties DEF Types
    <2> QED
        BY <1>1, <1>2, <2>1, WakeupsLeave, Zenon
<1> QED
    BY <1>1, <1>3, <1>4, <1>5, <1>6, MoveInv, Zenon

-----------------------------------------------------------------------------
(* The actions *)

LEMMA ConnFacts ==
    ASSUME Types, NEW t \in Threads, tmap[t] # none
    PROVE  /\ tmap[t] \in Index
           /\ UNCHANGED conn => OwnConn(t) /\ conn'[tmap[t]] = conn[tmap[t]]
           /\ \A c \in Conns : SetConn(t, c) => OwnConn(t) /\ conn'[tmap[t]] = c
           /\ \A b \in BOOLEAN : InTransaction(t, b) =>
                 OwnConn(t) /\ conn'[tmap[t]].trans = b /\ conn'[tmap[t]].open = conn[tmap[t]].open
<1>1. tmap[t] \in Index /\ conn[tmap[t]] \in Conns
    BY Zenon DEF Types
<1>2. \A c \in Conns : SetConn(t, c) => OwnConn(t) /\ conn'[tmap[t]] = c
    BY <1>1, Zenon DEF Types, SetConn, OwnConn
<1>3. ASSUME NEW b \in BOOLEAN, InTransaction(t, b)
      PROVE  OwnConn(t) /\ conn'[tmap[t]].trans = b /\ conn'[tmap[t]].open = conn[tmap[t]].open
    <2> DEFINE c == [conn[tmap[t]] EXCEPT !.trans = b]
    <2>1. c \in Conns /\ c.trans = b /\ c.open = conn[tmap[t]].open
        BY <1>1, Zenon DEF Conns
    <2>2. SetConn(t, c)
        BY <1>3, Zenon DEF InTransaction
    <2> HIDE DEF c
    <2>3. OwnConn(t) /\ conn'[tmap[t]] = c
        BY <2>1, <2>2, <1>2, Zenon
    <2> QED
        BY <2>1, <2>3, Zenon
<1>4. UNCHANGED conn => OwnConn(t) /\ conn'[tmap[t]] = conn[tmap[t]]
    BY Zenon DEF OwnConn, Types
<1> QED
    BY <1>1, <1>2, <1>3, <1>4, Zenon

LEMMA ConnValues ==
    /\ opened \in Conns /\ opened.open /\ ~opened.trans
    /\ notOpened \in Conns /\ ~notOpened.trans
    /\ lost \in Conns /\ ~lost.trans
BY Zenon DEF opened, notOpened, lost, Conns

(* A call begins, goes on or ends without touching a connection. *)
LEMMA PlainInv ==
    ASSUME IInv, NEW t \in Threads,
           Call(t) \/ TimeOut(t) \/ SpuriousWakeup(t) \/ CheckWait(t) \/ FreeAgain(t) \/ destructor(t)
    PROVE  IInv' /\ Stays
<1> USE DEF IInv
<1>1. Local(t) /\ pc \in [Threads -> PCs] /\ Len(free_list) \in Int
    BY LocalIs, LenProperties DEF Types
<1>2. /\ {"calling", "config", "idle", "deleting", "crashed"} \subseteq PCs \ WaitStates
      /\ {"timedout", "woken"} \subseteq PCs
      /\ pc[t] \in {"idle", "got", "freed"} => pc[t] \notin WaitStates
    BY Zenon DEF PCs, WaitStates
<1>3. CASE Call(t)
    <2>1. Types' /\ Others(t) /\ Local(t)'
        BY <1>1, <1>2, <1>3, Zenon DEF Call, Types, Others, Local, locals
    <2>2. Wakeups(pc, wait_count, Len(free_list), valid, cmax)'
        BY <1>1, <1>2, <1>3, WakeupsGoOn, Zenon DEF Call
    <2> QED
        BY <1>3, <2>1, <2>2, MoveInv, Zenon DEF Call
<1>4. CASE TimeOut(t)
    <2>1. Types' /\ Others(t) /\ Local(t)'
        BY <1>1, <1>2, <1>4, Zenon DEF TimeOut, Types, Others, Local, locals
    <2>2. Wakeups(pc, wait_count, Len(free_list), valid, cmax)'
        BY <1>1, <1>4, WakeupsTimeOut, Zenon DEF TimeOut
    <2> QED
        BY <1>4, <2>1, <2>2, MoveInv, Zenon DEF TimeOut
<1>5. CASE SpuriousWakeup(t)
    <2>1. Types' /\ Others(t) /\ Local(t)'
        BY <1>1, <1>2, <1>5, Zenon DEF SpuriousWakeup, Types, Others, Local, locals
    <2>2. Wakeups(pc, wait_count, Len(free_list), valid, cmax)'
        BY <1>1, <1>5, WakeupsWake, Zenon DEF SpuriousWakeup
    <2> QED
        BY <1>5, <2>1, <2>2, MoveInv, Zenon DEF SpuriousWakeup
<1>6. CASE CheckWait(t)
    <2>1. Types' /\ Others(t) /\ Local(t)'
        BY <1>1, <1>2, <1>6, Zenon DEF CheckWait, Types, Others, Local
    <2>2. Wakeups(pc, wait_count, Len(free_list), valid, cmax)'
        BY <1>1, <1>2, <1>6, WakeupsGoOn, Zenon DEF CheckWait
    <2> QED
        BY <1>6, <2>1, <2>2, MoveInv, Zenon DEF CheckWait
<1>7. CASE FreeAgain(t)
    <2>1. Types' /\ Others(t) /\ Local(t)'
        BY <1>1, <1>2, <1>7, Zenon DEF FreeAgain, Types, Others, Local, locals
    <2>2. Wakeups(pc, wait_count, Len(free_list), valid, cmax)'
        BY <1>1, <1>2, <1>7, WakeupsGoOn, Zenon DEF FreeAgain
    <2> QED
        BY <1>7, <2>1, <2>2, MoveInv, Zenon DEF FreeAgain
<1>8. CASE destructor(t)
    <2> DEFINE to == IF tmap[t] # none /\ conn[tmap[t]].trans THEN "deleting" ELSE "idle"
    <2>1. to \in {"idle", "deleting"} /\ (to = "deleting" => tmap[t] # none)
        BY Zenon
    <2>2. /\ pc[t] = "idle" /\ valid' = FALSE /\ pc' = [pc EXCEPT ![t] = to]
          /\ UNCHANGED <<free_list, tmap, cmax, wait_count, tl_timeout, conn, resource, new_ds, waited, timed>>
        BY <1>8, Zenon DEF destructor, locals
    <2> HIDE DEF to
    <2>3. Types' /\ Others(t)
        BY <1>1, <1>2, <2>1, <2>2, Zenon DEF Types, Others
    <2>4. Local(t)'
        BY <1>1, <2>1, <2>2, Zenon DEF Local
    <2>5. Wakeups(pc', wait_count, Len(free_list), valid, cmax)
        BY <1>1, <1>2, <2>1, <2>2, WakeupsGoOn, Zenon
    <2>6. Wakeups(pc, wait_count, Len(free_list), valid, cmax)'
        BY <2>2, <2>5, Zenon DEF Wakeups
    <2> QED
        BY <2>2, <2>3, <2>4, <2>6, MoveInv, Zenon
<1> QED
    BY <1>3, <1>4, <1>5, <1>6, <1>7, <1>8, Zenon

(* getDS() up to the connection, open or not. *)
LEMMA GetInv ==
    ASSUME IInv, NEW t \in Threads, getDSIntern(t) \/ Resume(t) \/ ResumeTimedOut(t)
    PROVE  IInv' /\ Stays
<1> USE DEF IInv
<1>1. Local(t)
    BY LocalIs, Zenon
<1>2. CASE getDSIntern(t)
    <2>1. CASE tmap[t] # none /\ Keep(t, "got") /\ UNCHANGED conn
        <3>1. pc[t] = "calling" /\ pc[t] \notin WaitStates /\ ~new_ds[t] /\ ~waited[t] /\ conn[tmap[t]].open
            BY <1>1, <1>2, <2>1, Zenon DEF getDSIntern, Local, WaitStates
        <3>2. OwnConn(t) /\ conn'[tmap[t]] = conn[tmap[t]]
            BY <2>1, ConnFacts, Zenon
        <3> QED
            BY <2>1, <3>1, <3>2, KeepInv, Zenon
    <2>2. CASE tmap[t] = none /\ Turn(t, wait_count, FALSE)
        BY <1>2, <2>2, TurnInv, Zenon DEF getDSIntern
    <2> QED
        BY <1>2, <2>1, <2>2, Zenon DEF getDSIntern
<1>3. CASE Resume(t)
    <2>1. pc[t] = "woken" /\ tmap[t] = none
        BY <1>1, <1>3, Zenon DEF Resume, Local
    <2>2. CASE ~valid /\ Fail(t)
        BY <2>1, <2>2, FailInv, Zenon
    <2>3. CASE Turn(t, wait_count - 1, TRUE)
        BY <2>1, <2>3, TurnInv, Zenon
    <2> QED
        BY <1>3, <2>2, <2>3, Zenon DEF Resume
<1>4. CASE ResumeTimedOut(t)
    <2>1. pc[t] = "timedout" /\ tmap[t] = none
        BY <1>1, <1>4, Zenon DEF ResumeTimedOut, Local
    <2>2. CASE Fail(t)
        BY <2>1, <2>2, FailInv, Zenon
    <2>3. CASE Turn(t, wait_count - 1, TRUE)
        BY <2>1, <2>3, TurnInv, Zenon
    <2> QED
        BY <1>4, <2>2, <2>3, Zenon DEF ResumeTimedOut
<1> QED
    BY <1>2, <1>3, <1>4, Zenon

(* getDS() opens the connection, after the warning callback if there is one. *)
LEMMA OpenInv ==
    ASSUME IInv, NEW t \in Threads, ConfigString(t) \/ Open(t)
    PROVE  IInv' /\ Stays
<1> USE DEF IInv
<1>1. Local(t) /\ pc[t] \notin WaitStates /\ tmap[t] # none
    BY LocalIs, Zenon DEF ConfigString, Open, Local, WaitStates
<1>2. /\ UNCHANGED conn => OwnConn(t) /\ conn'[tmap[t]] = conn[tmap[t]]
      /\ \A c \in Conns : conn' = [conn EXCEPT ![tmap[t]] = c] => OwnConn(t) /\ conn'[tmap[t]] = c
    BY <1>1, ConnFacts, Zenon DEF SetConn
<1>3. CASE ConfigString(t)
    <2>1. pc[t] = "config" /\ new_ds[t] /\ ~conn[tmap[t]].trans
        BY <1>1, <1>3, Zenon DEF ConfigString, Local
    <2>2. CASE /\ IF conn[tmap[t]].open THEN UNCHANGED conn ELSE conn' = [conn EXCEPT ![tmap[t]] = opened]
               /\ Keep(t, "got") \/ freeDS(t, "idle")
        <3>1. OwnConn(t) /\ ~conn'[tmap[t]].trans
            <4>1. CASE conn[tmap[t]].open
                BY <1>2, <2>1, <2>2, <4>1, Zenon
            <4>2. CASE ~conn[tmap[t]].open
                BY <1>2, <2>2, <4>2, ConnValues, Zenon
            <4> QED
                BY <4>1, <4>2, Zenon
        <3>2. CASE Keep(t, "got")
            BY <1>1, <2>1, <3>1, <3>2, KeepInv, Zenon
        <3>3. CASE freeDS(t, "idle")
            BY <1>1, <3>1, <3>3, GiveInv, Zenon
        <3> QED
            BY <2>2, <3>2, <3>3, Zenon
    <2>3. CASE /\ conn' = [conn EXCEPT ![tmap[t]] = notOpened]
               /\ freeDS(t, "freed")
        <3>1. OwnConn(t) /\ ~conn'[tmap[t]].trans
            BY <1>2, <2>3, ConnValues, Zenon
        <3> QED
            BY <1>1, <2>3, <3>1, GiveInv, Zenon
    <2> QED
        BY <1>3, <2>2, <2>3, Zenon DEF ConfigString
<1>4. CASE Open(t)
    <2>1. pc[t] = "got" /\ (new_ds[t] => ~conn[tmap[t]].trans)
        BY <1>1, <1>4, Zenon DEF Open, Local
    <2>2. CASE conn[tmap[t]].open /\ Keep(t, "ready") /\ UNCHANGED conn
        BY <1>1, <1>2, <2>1, <2>2, KeepInv, Zenon
    <2>3. CASE conn' = [conn EXCEPT ![tmap[t]] = opened] /\ Keep(t, "ready")
        <3>1. OwnConn(t) /\ ~conn'[tmap[t]].trans /\ conn'[tmap[t]].open
            BY <1>2, <2>3, ConnValues, Zenon
        <3> QED
            BY <1>1, <2>1, <2>3, <3>1, KeepInv, Zenon
    <2>4. CASE conn' = [conn EXCEPT ![tmap[t]] = notOpened] /\ freeDS(t, "idle")
        <3>1. OwnConn(t) /\ ~conn'[tmap[t]].trans
            BY <1>2, <2>4, ConnValues, Zenon
        <3> QED
            BY <1>1, <2>4, <3>1, GiveInv, Zenon
    <2> QED
        BY <1>4, <2>2, <2>3, <2>4, Zenon DEF Open
<1> QED
    BY <1>3, <1>4, Zenon

(* The methods and the ends of a transaction. *)
LEMMA MethodInv ==
    ASSUME IInv, NEW t \in Threads,
           \/ Abort(t) \/ select(t) \/ exec_internal(t) \/ beginTransaction(t) \/ commit(t)
           \/ cleanup(t) \/ destructorFree(t)
    PROVE  IInv' /\ Stays
<1> USE DEF IInv
<1>1. Local(t)
    BY LocalIs, Zenon
<1>2. pc[t] \notin WaitStates /\ tmap[t] # none /\ conn[tmap[t]].open
    <2>1. CASE pc[t] \in {"ready", "deleting"}
        BY <1>1, <2>1, Zenon DEF Local, WaitStates
    <2>2. CASE pc[t] = "idle" /\ t \in resource
        BY <1>1, <2>2, Zenon DEF Local, WaitStates, Resources
    <2> QED
        BY <2>1, <2>2, Zenon DEF Abort, select, exec_internal, beginTransaction, commit, cleanup, destructorFree
<1>3. /\ UNCHANGED conn => OwnConn(t) /\ conn'[tmap[t]] = conn[tmap[t]]
      /\ SetConn(t, lost) => OwnConn(t) /\ ~conn'[tmap[t]].trans
      /\ InTransaction(t, FALSE) => OwnConn(t) /\ ~conn'[tmap[t]].trans
      /\ InTransaction(t, TRUE) => OwnConn(t) /\ conn'[tmap[t]].open
    BY <1>2, ConnFacts, ConnValues, Zenon
<1>4. ASSUME Release(t), SetConn(t, lost) \/ InTransaction(t, FALSE)
      PROVE  IInv' /\ Stays
    BY <1>2, <1>3, <1>4, GiveInv, Zenon DEF Release
<1>5. ASSUME Keep(t, "idle"), UNCHANGED conn \/ InTransaction(t, TRUE)
      PROVE  IInv' /\ Stays
    <2>1. OwnConn(t) /\ conn'[tmap[t]].open
        BY <1>2, <1>3, <1>5, Zenon
    <2> QED
        BY <1>2, <1>5, <2>1, KeepInv, Zenon
<1>6. ASSUME pc[t] = "ready", ReleaseNew(t), UNCHANGED conn
      PROVE  IInv' /\ Stays
    <2>1. CASE new_ds[t]
        <3>1. ~conn'[tmap[t]].trans /\ OwnConn(t)
            BY <1>1, <1>3, <1>6, <2>1, Zenon DEF Local
        <3>2. freeDS(t, "idle")
            BY <1>6, <2>1, Zenon DEF ReleaseNew, Release
        <3> QED
            BY <1>2, <3>1, <3>2, GiveInv, Zenon
    <2>2. CASE ~new_ds[t]
        BY <1>5, <1>6, <2>2, Zenon DEF ReleaseNew
    <2> QED
        BY <2>1, <2>2, Zenon
<1>7. CASE Abort(t) \/ commit(t) \/ cleanup(t) \/ destructorFree(t)
    BY <1>4, <1>7, Zenon DEF Abort, commit, cleanup, destructorFree
<1>8. CASE select(t)
    BY <1>5, <1>6, <1>8, Zenon DEF select
<1>9. CASE exec_internal(t)
    BY <1>5, <1>9, Zenon DEF exec_internal
<1>10. CASE beginTransaction(t)
    BY <1>5, <1>6, <1>10, Zenon DEF beginTransaction
<1> QED
    BY <1>7, <1>8, <1>9, <1>10, Zenon

(* The invariant holds at the start. *)
LEMMA InitInv == Init => IInv
<1> SUFFICES ASSUME Init PROVE IInv
    BY Zenon
<1> USE DEF Init
<1>1. free_list \in Seq(Index) /\ DOMAIN free_list = 1 .. min /\ Len(free_list) = min
    <2>1. free_list \in [1 .. min -> Index]
        BY Sizes DEF Index
    <2> QED
        BY <2>1, Sizes
<1>2. \A k \in 1 .. min : free_list[k] = k - 1
    BY Zenon
<1>3. Types
    <2>1. cmax \in min .. max /\ wait_count \in Int
        BY Sizes
    <2>2. conn \in [Index -> Conns]
        BY Sizes DEF Index, Conns
    <2>3. pc \in [Threads -> PCs] /\ tmap \in [Threads -> Index \cup {none}]
        BY Zenon DEF PCs
    <2> QED
        BY <1>1, <2>1, <2>2, <2>3, Zenon DEF Types
<1>4. Owned(free_list, tmap, cmax)
    <2>1. \A i \in 0 .. cmax - 1 : i + 1 \in DOMAIN free_list /\ free_list[i + 1] = i
        BY <1>1, <1>2, Sizes
    <2>2. \A t \in Threads, k \in DOMAIN free_list : tmap[t] # free_list[k]
        BY <1>1, <1>2, Sizes DEF none
    <2>3. \A j, k \in DOMAIN free_list : j # k => free_list[j] # free_list[k]
        BY <1>1, <1>2, Sizes
    <2>4. (\A t \in Threads : tmap[t] < cmax) /\ (\A k \in DOMAIN free_list : free_list[k] < cmax)
        BY <1>1, <1>2, Sizes DEF none
    <2> QED
        BY <2>1, <2>2, <2>3, <2>4, Zenon DEF Owned
<1>5. Resources
    BY Zenon DEF Resources
<1>6. PcOwner /\ NewClean /\ FreeCleanHeldOpen
    <2>1. \A i \in Index : ~conn[i].trans
        BY Zenon
    <2>2. \A k \in DOMAIN free_list : free_list[k] \in Index
        BY <1>1, ElementOfSeq, Zenon
    <2> QED
        BY <2>1, <2>2, Zenon DEF PcOwner, NewClean, FreeCleanHeldOpen
<1>7. Wakeups(pc, wait_count, Len(free_list), valid, cmax)
    <2>1. In(pc, WaitStates) = {} /\ In(pc, {"blocked"}) = {}
        BY Zenon DEF In, WaitStates
    <2> QED
        BY <2>1, FS_EmptySet, Zenon DEF Wakeups
<1> QED
    BY <1>3, <1>4, <1>5, <1>6, <1>7, Zenon DEF IInv

(* Every step keeps it, and none takes a transaction from its thread. *)
LEMMA NextInv == IInv /\ [Next]_vars => IInv' /\ (Stays \/ UNCHANGED vars)
<1> SUFFICES ASSUME IInv, [Next]_vars PROVE IInv' /\ (Stays \/ UNCHANGED vars)
    BY Zenon
<1>1. ASSUME NEW t \in Threads, Call(t) \/ Step(t) \/ TimeOut(t) \/ SpuriousWakeup(t) \/ destructor(t)
      PROVE  IInv' /\ Stays
    BY <1>1, PlainInv, GetInv, OpenInv, MethodInv, Zenon DEF Step
<1>2. CASE Running /\ setErrorTimeout
    <2>1. UNCHANGED <<free_list, tmap, cmax, wait_count, valid, conn, resource, pc, new_ds, waited, timed>>
        BY <1>2, Zenon DEF setErrorTimeout, locals
    <2>2. Types'
        BY <1>2, <2>1, Zenon DEF setErrorTimeout, IInv, Types
    <2>3. IInv'
        BY <2>1, <2>2, Zenon DEF IInv, Resources, PcOwner, NewClean, FreeCleanHeldOpen, Wakeups
    <2>4. Stays
        BY <2>1, Zenon DEF Stays
    <2> QED
        BY <2>3, <2>4, Zenon
<1>3. CASE Over \/ UNCHANGED vars
    <2>1. UNCHANGED vars
        BY <1>3, Zenon DEF Over
    <2> QED
        BY <2>1, Zenon DEF vars, locals, IInv, Types, Resources, PcOwner, NewClean, FreeCleanHeldOpen, Wakeups
<1> QED
    BY <1>1, <1>2, <1>3, Zenon DEF Next

-----------------------------------------------------------------------------
(* What the invariant says in the words of the model *)

LEMMA Once ==
    ASSUME IInv, NEW i \in Index
    PROVE  Cardinality(Holders(i)) + Cardinality(Places(i)) = (IF i < cmax THEN 1 ELSE 0)
<1>1. Cardinality({}) = 0 /\ \A x : Cardinality({x}) = 1
    BY FS_EmptySet, FS_Singleton, Zenon
<1>2. i \in Nat /\ i # none /\ cmax \in Nat /\ Owned(free_list, tmap, cmax)
    BY Sizes DEF Index, none, IInv, Types
<1>3. CASE i < cmax
    <2>1. CASE \E t \in Threads : tmap[t] = i
        <3>1. PICK t \in Threads : tmap[t] = i
            BY <2>1, Zenon
        <3>2. Holders(i) = {t} /\ Places(i) = {}
            BY <3>1, <1>2, Zenon DEF Holders, Places, Owned
        <3> QED
            BY <3>2, <1>1, <1>3
    <2>2. CASE \E k \in DOMAIN free_list : free_list[k] = i
        <3>1. PICK k \in DOMAIN free_list : free_list[k] = i
            BY <2>2, Zenon
        <3>2. Holders(i) = {} /\ Places(i) = {k}
            BY <3>1, <1>2, Zenon DEF Holders, Places, Owned
        <3>3. Cardinality(Holders(i)) = 0 /\ Cardinality(Places(i)) = 1
            BY <3>2, <1>1, Zenon
        <3> QED
            BY <3>3, <1>3
    <2>3. i \in 0 .. cmax - 1
        BY <1>2, <1>3
    <2> QED
        BY <2>1, <2>2, <2>3, <1>2, Zenon DEF Owned
<1>4. CASE ~(i < cmax)
    <2>1. Holders(i) = {} /\ Places(i) = {}
        BY <1>2, <1>4, Zenon DEF Holders, Places, Owned
    <2> QED
        BY <2>1, <1>1, <1>4
<1> QED
    BY <1>3, <1>4, Zenon

(* The free list is no longer than the pool: its entries differ. *)
LEMMA FreeListBound == IInv => Len(free_list) <= max
<1> SUFFICES ASSUME IInv PROVE Len(free_list) <= max
    BY Zenon
<1>1. Len(free_list) \in Nat /\ free_list \in [1 .. Len(free_list) -> Index] /\ DOMAIN free_list = 1 .. Len(free_list)
    BY LenProperties, Zenon DEF IInv, Types
<1>2. free_list \in Injection(1 .. Len(free_list), Index)
    BY <1>1, Zenon DEF IInv, Owned, Injection, IsInjective
<1>3. IsFiniteSet(Index) /\ Cardinality(Index) = max /\ Cardinality(1 .. Len(free_list)) = Len(free_list)
    <2>1. IsFiniteSet(0 .. max - 1) /\ Cardinality(0 .. max - 1) = max
        BY Sizes, FS_Interval
    <2>2. Cardinality(1 .. Len(free_list)) = Len(free_list)
        BY <1>1, FS_Interval
    <2> QED
        BY <2>1, <2>2, Zenon DEF Index
<1>4. Cardinality(1 .. Len(free_list)) <= Cardinality(Index)
    BY <1>2, <1>3, FS_Injection, Zenon
<1> QED
    BY <1>3, <1>4, Zenon

LEMMA InvTypeOK == IInv => TypeOK
<1> SUFFICES ASSUME IInv PROVE TypeOK
    BY Zenon
<1>1. wait_count \in 0 .. Cardinality(Threads)
    <2>1. /\ wait_count = Cardinality(In(pc, WaitStates)) /\ wait_count \in Nat
          /\ Cardinality(Threads) \in Nat
        BY InFinite, ThreadsAssumption, FS_CardinalityType, Zenon DEF IInv, Wakeups
    <2>2. Cardinality(In(pc, WaitStates)) <= Cardinality(Threads)
        BY ThreadsAssumption, FS_Subset, Zenon DEF In
    <2> QED
        BY <2>1, <2>2
<1> QED
    BY <1>1, FreeListBound, Zenon DEF TypeOK, IInv, Types, PCs, Conns

(* IInv is an invariant of the pool. *)
THEOREM Invariance == Spec => []IInv
BY InitInv, NextInv, PTL DEF Spec

(* Every connection that getDSIntern() has made is in the free list, once, *)
(* or belongs to one thread, and cleanup() knows of that thread.           *)
THEOREM PoolOneOwner == Spec => []OneOwner
<1>1. IInv => OneOwner
    BY Once, InvTypeOK, Zenon DEF OneOwner, IInv, Resources
<1> QED
    BY <1>1, Invariance, PTL

(* freeDS() gets no connection with a transaction, and a connection that   *)
(* is not open belongs to a thread only before the getDS() that took it    *)
(* from the pool opens it.  The getDS() nested in the warning callback's   *)
(* getConfigString() runs there, too, where its assert(new_ds) fails.      *)
THEOREM PoolFreeCleanHeldOpen == Spec => []FreeCleanHeldOpen
<1>1. IInv => FreeCleanHeldOpen
    BY Zenon DEF IInv
<1> QED
    BY <1>1, Invariance, PTL

(* wait_count is exact, and a thread sleeps in getDSIntern() only while as *)
(* many others have been woken as there are free connections.              *)
THEOREM PoolNoLostWakeup == Spec => []NoLostWakeup
<1>1. IInv => NoLostWakeup
    BY WakeupsIs, Zenon DEF IInv
<1> QED
    BY <1>1, Invariance, PTL

(* A step that takes a connection from its thread ends the transaction. *)
THEOREM PoolTransactionStays == Spec => TransactionStays
<1>1. IInv /\ [Next]_vars => [Stays]_vars
    BY NextInv, Zenon
<1>2. Spec => [][Stays]_vars
    BY <1>1, Invariance, PTL DEF Spec
<1> QED
    BY <1>2, Zenon DEF TransactionStays, Stays

=============================================================================
