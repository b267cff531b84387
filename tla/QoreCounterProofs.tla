------------------------- MODULE QoreCounterProofs -------------------------
(***************************************************************************)
(* Proofs about the counter for any number of threads and any bound.       *)
(***************************************************************************)
EXTENDS QoreCounter, FiniteSetTheorems, TLAPS

-----------------------------------------------------------------------------
(* The sum of what the threads owe is a number of pairs, so that what a    *)
(* thread adds to it or takes from it is a difference of sets.             *)

Pairs(f)     == {d \in Threads \X (1 .. MaxCnt) : d[2] <= f[d[1]]}
Others(f, t) == {d \in Threads \X (1 .. MaxCnt) : d[1] # t /\ d[2] <= f[d[1]]}

LEMMA PairsFinite ==
    /\ IsFiniteSet(Threads \X (1 .. MaxCnt))
    /\ \A f : IsFiniteSet(Pairs(f)) /\ Cardinality(Pairs(f)) \in Nat
    /\ \A f, t : IsFiniteSet(Others(f, t)) /\ Cardinality(Others(f, t)) \in Nat
<1>1. IsFiniteSet(1 .. MaxCnt)
    <2>1. 1 \in Int /\ MaxCnt \in Int
        BY MaxCntAssumption
    <2> QED
        BY <2>1, FS_Interval, Zenon
<1>2. IsFiniteSet(Threads \X (1 .. MaxCnt))
    BY <1>1, ThreadsAssumption, FS_Product, Zenon
<1>3. ASSUME NEW f PROVE IsFiniteSet(Pairs(f)) /\ Cardinality(Pairs(f)) \in Nat
    <2>1. Pairs(f) \subseteq Threads \X (1 .. MaxCnt)
        BY Zenon DEF Pairs
    <2> QED
        BY <1>2, <2>1, FS_Subset, FS_CardinalityType, Zenon
<1>4. ASSUME NEW f, NEW t PROVE IsFiniteSet(Others(f, t)) /\ Cardinality(Others(f, t)) \in Nat
    <2>1. Others(f, t) \subseteq Threads \X (1 .. MaxCnt)
        BY Zenon DEF Others
    <2> QED
        BY <1>2, <2>1, FS_Subset, FS_CardinalityType, Zenon
<1> QED
    BY <1>2, <1>3, <1>4, Zenon

(* The share of one thread. *)
LEMMA Share ==
    ASSUME NEW f \in [Threads -> 0 .. MaxCnt], NEW t \in Threads
    PROVE  Cardinality(Pairs(f)) = Cardinality(Others(f, t)) + f[t]
<1> DEFINE A == Others(f, t)
           B == {t} \X (1 .. f[t])
<1>1. f[t] \in Nat /\ f[t] <= MaxCnt /\ MaxCnt \in Nat
    BY MaxCntAssumption
<1>2. IsFiniteSet(1 .. f[t]) /\ Cardinality(1 .. f[t]) = f[t]
    <2>1. 1 \in Int /\ f[t] \in Int
        BY <1>1
    <2>2. /\ IsFiniteSet(1 .. f[t])
          /\ Cardinality(1 .. f[t]) = IF 1 > f[t] THEN 0 ELSE f[t] - 1 + 1
        BY <2>1, FS_Interval, Zenon
    <2> QED
        BY <1>1, <2>2
<1>3. IsFiniteSet(B) /\ Cardinality(B) = f[t]
    <2>1. IsFiniteSet({t}) /\ Cardinality({t}) = 1
        BY FS_Singleton, Zenon
    <2>2. IsFiniteSet(B) /\ Cardinality(B) = Cardinality({t}) * Cardinality(1 .. f[t])
        BY <1>2, <2>1, FS_Product, Zenon
    <2> QED
        BY <1>1, <1>2, <2>1, <2>2
<1>4. Pairs(f) = A \cup B
    BY <1>1 DEF Pairs, Others
<1>5. A \cap B = {}
    BY DEF Others
<1>6. IsFiniteSet(A) /\ Cardinality(A) \in Nat
    BY PairsFinite, Zenon
<1> HIDE DEF A, B
<1>7. Cardinality(A \cup B) = Cardinality(A) + Cardinality(B) - Cardinality(A \cap B)
    BY <1>3, <1>6, FS_Union, Zenon
<1>8. Cardinality(A \cap B) = 0
    BY <1>5, FS_EmptySet, Zenon
<1> QED
    BY <1>1, <1>3, <1>4, <1>6, <1>7, <1>8 DEF A

(* One thread owes one more, or one less. *)
LEMMA ShareStep ==
    ASSUME NEW f \in [Threads -> 0 .. MaxCnt], NEW t \in Threads, NEW n \in 0 .. MaxCnt
    PROVE  Cardinality(Pairs([f EXCEPT ![t] = n])) = Cardinality(Pairs(f)) - f[t] + n
<1> DEFINE g == [f EXCEPT ![t] = n]
<1>1. g \in [Threads -> 0 .. MaxCnt] /\ g[t] = n
    BY Zenon
<1>2. Others(g, t) = Others(f, t)
    BY Zenon DEF Others
<1> HIDE DEF g
<1>3. /\ Cardinality(Pairs(g)) = Cardinality(Others(g, t)) + g[t]
      /\ Cardinality(Pairs(f)) = Cardinality(Others(f, t)) + f[t]
    BY <1>1, Share, Zenon
<1>4. Cardinality(Others(f, t)) \in Nat /\ f[t] \in Int /\ n \in Int
    BY PairsFinite, MaxCntAssumption
<1> QED
    BY <1>1, <1>2, <1>3, <1>4 DEF g

-----------------------------------------------------------------------------
(* The threads in waitForZero(), for any assignment p of states to threads. *)

PCs     == {"idle", "blocked", "notified", "spurious", "timedout"}
Busy(p) == {t \in Threads : p[t] # "idle"}

LEMMA BusyFacts ==
    ASSUME NEW p \in [Threads -> PCs]
    PROVE  /\ IsFiniteSet(Busy(p))
           /\ Cardinality(Busy(p)) \in 0 .. Cardinality(Threads)
           /\ Cardinality(Busy(p)) = 0 => \A t \in Threads : p[t] = "idle"
<1>1. Busy(p) \subseteq Threads
    BY Zenon DEF Busy
<1>2. IsFiniteSet(Threads)
    BY ThreadsAssumption, Zenon
<1>3. IsFiniteSet(Busy(p)) /\ Cardinality(Busy(p)) <= Cardinality(Threads)
    BY <1>1, <1>2, FS_Subset, Zenon
<1>4. Cardinality(Busy(p)) \in Nat /\ Cardinality(Threads) \in Nat
    BY <1>2, <1>3, FS_CardinalityType, Zenon
<1>5. Cardinality(Busy(p)) = 0 => Busy(p) = {}
    BY <1>3, FS_EmptySet, Zenon
<1>6. Cardinality(Busy(p)) = 0 => \A t \in Threads : p[t] = "idle"
    BY <1>5, Zenon DEF Busy
<1> QED
    BY <1>3, <1>4, <1>6

(* n, when a thread goes from state x to state s. *)
After(n, x, s) == IF x = "idle" /\ s # "idle" THEN n + 1
                  ELSE IF x # "idle" /\ s = "idle" THEN n - 1 ELSE n

(* One thread enters or leaves waitForZero(), or moves inside of it. *)
LEMMA BusyStep ==
    ASSUME NEW p \in [Threads -> PCs], NEW t \in Threads, NEW s \in PCs, NEW q,
           q = [p EXCEPT ![t] = s]
    PROVE  /\ q \in [Threads -> PCs]
           /\ Cardinality(Busy(q)) = After(Cardinality(Busy(p)), p[t], s)
<1>1. IsFiniteSet(Busy(p))
    BY BusyFacts, Zenon
<1>2. ASSUME p[t] = "idle", s # "idle"
      PROVE  Cardinality(Busy(q)) = Cardinality(Busy(p)) + 1
    <2>1. Busy(q) = Busy(p) \cup {t} /\ t \notin Busy(p)
        BY <1>2 DEF Busy
    <2> QED
        BY <1>1, <2>1, FS_AddElement, Zenon
<1>3. ASSUME p[t] # "idle", s = "idle"
      PROVE  Cardinality(Busy(q)) = Cardinality(Busy(p)) - 1
    <2>1. Busy(q) = Busy(p) \ {t} /\ t \in Busy(p)
        BY <1>3 DEF Busy
    <2> QED
        BY <1>1, <2>1, FS_RemoveElement, Zenon
<1>4. ASSUME p[t] = "idle" <=> s = "idle"
      PROVE  Cardinality(Busy(q)) = Cardinality(Busy(p))
    <2>1. Busy(q) = Busy(p)
        BY <1>4 DEF Busy
    <2> QED
        BY <2>1, Zenon
<1> QED
    BY <1>2, <1>3, <1>4, Zenon DEF After

(* broadcast() takes nobody out of waitForZero() and leaves nobody blocked. *)
LEMMA BroadcastFacts ==
    ASSUME NEW p \in [Threads -> PCs], NEW q,
           q = [t \in Threads |-> IF p[t] = "blocked" THEN "notified" ELSE p[t]]
    PROVE  /\ q \in [Threads -> PCs]
           /\ Busy(q) = Busy(p)
           /\ \A t \in Threads : q[t] # "blocked"
<1>1. q \in [Threads -> PCs] /\ \A t \in Threads : q[t] # "blocked"
    BY Zenon DEF PCs
<1>2. Busy(q) = Busy(p)
    BY Zenon DEF Busy
<1> QED
    BY <1>1, <1>2, Zenon

-----------------------------------------------------------------------------
(* The inductive invariant.  A count of the library never becomes negative *)
(* because it is what its users owe; the broadcast reaches everybody       *)
(* because waiting is exact.                                               *)

Types ==
    /\ cnt \in {Cond_Deleted} \cup 0 .. MaxCnt
    /\ pc \in [Threads -> PCs]
    /\ timed \in [Threads -> BOOLEAN]
    /\ result \in [Threads -> {"none", "zero", "timeout", "error"}]
    /\ internal \in BOOLEAN /\ deleted \in BOOLEAN
    /\ owed \in [Threads -> 0 .. MaxCnt]

Deletion ==
    /\ (cnt = Cond_Deleted) <=> deleted
    /\ internal => ~deleted

Sum == internal => cnt = Cardinality(Pairs(owed))

WaitingExact == waiting = Cardinality(Busy(pc))

(* No thread is asleep in waitForZero() when there is nothing left to wait  *)
(* for: every way to reach zero, and the deletion, wakes all of them.       *)
NoneAsleepAtZero ==
    cnt \in {0, Cond_Deleted} => \A t \in Threads : pc[t] # "blocked"

CounterInv == Types /\ Deletion /\ Sum /\ WaitingExact /\ NoneAsleepAtZero

LEMMA CounterInvImplies == CounterInv => CountExact /\ NoneAsleepAtZero
<1> SUFFICES ASSUME CounterInv PROVE CountExact /\ NoneAsleepAtZero
    BY Zenon
<1>1. waiting \in 0 .. Cardinality(Threads)
    BY BusyFacts, Zenon DEF CounterInv, Types, WaitingExact
<1>2. TypeOK
    BY <1>1, Zenon DEF CounterInv, Types, TypeOK, PCs
<1>3. DecsOwed = Pairs(owed)
    BY Zenon DEF DecsOwed, Pairs
<1> QED
    BY <1>2, <1>3, Zenon DEF CounterInv, Deletion, Sum, CountExact

-----------------------------------------------------------------------------
(* The steps of waitForZero(): one thread moves and the count stays. *)
LEMMA MoveInv ==
    ASSUME CounterInv, NEW t \in Threads, NEW s \in PCs,
           pc' = [pc EXCEPT ![t] = s],
           s = "blocked" => cnt \notin {0, Cond_Deleted},
           waiting' = After(waiting, pc[t], s),
           timed' \in [Threads -> BOOLEAN],
           result' \in [Threads -> {"none", "zero", "timeout", "error"}],
           UNCHANGED <<cnt, kind>>
    PROVE  CounterInv'
<1>1. pc \in [Threads -> PCs]
    BY Zenon DEF CounterInv, Types
<1>2. /\ pc' \in [Threads -> PCs]
      /\ Cardinality(Busy(pc')) = After(Cardinality(Busy(pc)), pc[t], s)
    BY <1>1, BusyStep, Zenon
<1>3. WaitingExact'
    BY <1>2, Zenon DEF CounterInv, WaitingExact
<1>4. NoneAsleepAtZero'
    BY <1>1, Zenon DEF CounterInv, NoneAsleepAtZero
<1>5. (Types /\ Deletion /\ Sum)'
    BY <1>2, Zenon DEF CounterInv, Types, Deletion, Sum, kind
<1> QED
    BY <1>3, <1>4, <1>5, Zenon DEF CounterInv

LEMMA ReturnInv ==
    ASSUME CounterInv, NEW t \in Threads, NEW r \in {"zero", "timeout", "error"}, Return(t, r),
           waiting' = IF pc[t] = "idle" THEN waiting ELSE waiting - 1
    PROVE  CounterInv'
<1>1. "idle" \in PCs
    BY Zenon DEF PCs
<1>2. result' \in [Threads -> {"none", "zero", "timeout", "error"}] /\ timed' \in [Threads -> BOOLEAN]
    BY Zenon DEF Return, CounterInv, Types
<1> QED
    BY <1>1, <1>2, MoveInv, Zenon DEF Return, After

LEMMA WaitForZeroInv ==
    ASSUME CounterInv, NEW t \in Threads, waitForZero(t) \/ (internal /\ waitForZeroInternal(t))
    PROVE  CounterInv'
<1>0. pc[t] = "idle" /\ "blocked" \in PCs /\ (internal => cnt # Cond_Deleted)
    BY Zenon DEF waitForZero, waitForZeroInternal, PCs, CounterInv, Deletion
<1>1. CASE waiting' = waiting /\ \E r \in {"zero", "timeout", "error"} : Return(t, r)
    BY <1>0, <1>1, ReturnInv, Zenon
<1>2. CASE /\ cnt \notin {0, Cond_Deleted}
           /\ waiting' = waiting + 1
           /\ pc' = [pc EXCEPT ![t] = "blocked"]
           /\ \E b \in BOOLEAN : timed' = [timed EXCEPT ![t] = b] \/ timed' = timed
           /\ result' = [result EXCEPT ![t] = "none"]
           /\ UNCHANGED <<cnt, kind>>
    <2>1. /\ timed' \in [Threads -> BOOLEAN]
          /\ result' \in [Threads -> {"none", "zero", "timeout", "error"}]
        BY <1>2, Zenon DEF CounterInv, Types
    <2> QED
        BY <1>0, <1>2, <2>1, MoveInv, Zenon DEF After
<1> QED
    BY <1>0, <1>1, <1>2, Zenon DEF waitForZero, waitForZeroInternal

LEMMA ResumeInv ==
    ASSUME CounterInv, NEW t \in Threads,
           \/ Resume(t) \/ ResumeTimedOut(t) \/ TimeOut(t) \/ Spurious(t)
           \/ internal /\ ResumeInternal(t)
    PROVE  CounterInv'
<1>0. pc[t] # "idle" /\ (internal => cnt # Cond_Deleted)
    BY Zenon DEF Resume, ResumeTimedOut, TimeOut, Spurious, ResumeInternal, CounterInv, Deletion
<1>1. CASE waiting' = waiting - 1 /\ \E r \in {"zero", "timeout", "error"} : Return(t, r)
    BY <1>0, <1>1, ReturnInv, Zenon
<1>2. CASE /\ \E s \in PCs \ {"idle"} : /\ pc' = [pc EXCEPT ![t] = s]
                                        /\ s = "blocked" => cnt \notin {0, Cond_Deleted}
           /\ UNCHANGED <<cnt, waiting, timed, result, kind>>
    <2>1. /\ timed' \in [Threads -> BOOLEAN]
          /\ result' \in [Threads -> {"none", "zero", "timeout", "error"}]
        BY <1>2, Zenon DEF CounterInv, Types
    <2> QED
        BY <1>0, <1>2, <2>1, MoveInv, Zenon DEF After
<1>3. "blocked" \in PCs \ {"idle"} /\ "timedout" \in PCs \ {"idle"} /\ "spurious" \in PCs \ {"idle"}
    BY Zenon DEF PCs
<1>4. ASSUME Resume(t) \/ (internal /\ ResumeInternal(t)) PROVE CounterInv'
    BY <1>0, <1>1, <1>2, <1>3, <1>4, Zenon DEF Resume, ResumeInternal
<1>5. ASSUME ResumeTimedOut(t) PROVE CounterInv'
    BY <1>1, <1>5, Zenon DEF ResumeTimedOut
<1>6. ASSUME TimeOut(t) \/ Spurious(t) PROVE CounterInv'
    BY <1>2, <1>3, <1>6, Zenon DEF TimeOut, Spurious
<1> QED
    BY <1>4, <1>5, <1>6, Zenon

-----------------------------------------------------------------------------
(* The steps that change the count. *)

(* Lowering a positive count wakes everybody when it arrives at zero. *)
LEMMA LowerFacts ==
    ASSUME CounterInv, Lower, cnt # 0, cnt # Cond_Deleted, waiting' = waiting
    PROVE  /\ cnt' = cnt - 1 /\ cnt' \in 0 .. MaxCnt
           /\ pc' \in [Threads -> PCs]
           /\ WaitingExact' /\ NoneAsleepAtZero'
<1>1. cnt' = cnt - 1 /\ cnt' \in 0 .. MaxCnt /\ cnt' # Cond_Deleted
    BY MaxCntAssumption DEF CounterInv, Types, Lower, Cond_Deleted
<1>2. pc \in [Threads -> PCs] /\ waiting = Cardinality(Busy(pc)) /\ waiting \in Nat
    <2>1. pc \in [Threads -> PCs] /\ waiting = Cardinality(Busy(pc))
        BY Zenon DEF CounterInv, Types, WaitingExact
    <2>2. waiting \in 0 .. Cardinality(Threads)
        BY <2>1, BusyFacts, Zenon
    <2>3. waiting \in Nat
        BY <2>2, ThreadsAssumption, FS_CardinalityType
    <2> QED
        BY <2>1, <2>3, Zenon
<1>3. CASE Broadcast
    BY <1>1, <1>2, <1>3, BroadcastFacts, Zenon DEF Broadcast, WaitingExact, NoneAsleepAtZero
<1>4. CASE pc' = pc /\ ~(cnt' = 0 /\ waiting > 0)
    <2>1. cnt' = 0 => Cardinality(Busy(pc)) = 0
        BY <1>2, <1>4
    <2>2. cnt' = 0 => \A t \in Threads : pc[t] = "idle"
        BY <1>2, <2>1, BusyFacts, Zenon
    <2> QED
        BY <1>1, <1>2, <1>4, <2>2, Zenon DEF WaitingExact, NoneAsleepAtZero
<1> QED
    BY <1>1, <1>3, <1>4, Zenon DEF Lower

LEMMA DecInv ==
    ASSUME CounterInv, NEW t \in Threads, ~internal, dec(t)
    PROVE  CounterInv'
<1>1. cnt # 0 /\ cnt # Cond_Deleted /\ Lower /\ waiting' = waiting
      /\ UNCHANGED <<timed, result, internal, owed, deleted>>
    BY Zenon DEF dec, kind
<1>2. /\ cnt' = cnt - 1 /\ cnt' \in 0 .. MaxCnt
      /\ pc' \in [Threads -> PCs]
      /\ WaitingExact' /\ NoneAsleepAtZero'
    BY <1>1, LowerFacts, Zenon
<1>3. cnt' # Cond_Deleted
    BY <1>2, MaxCntAssumption DEF Cond_Deleted
<1> QED
    BY <1>1, <1>2, <1>3, Zenon DEF CounterInv, Types, Deletion, Sum

(* dec() without a test: the caller owes it, so the count is positive. *)
LEMMA DecInternalInv ==
    ASSUME CounterInv, NEW t \in Threads, internal, decInternal(t)
    PROVE  CounterInv'
<1>1. /\ owed[t] > 0 /\ Lower /\ waiting' = waiting /\ owed' = [owed EXCEPT ![t] = owed[t] - 1]
      /\ UNCHANGED <<timed, result, internal, deleted>>
    BY Zenon DEF decInternal
<1>2. cnt = Cardinality(Pairs(owed)) /\ cnt # Cond_Deleted /\ owed \in [Threads -> 0 .. MaxCnt]
    BY Zenon DEF CounterInv, Sum, Deletion, Types
<1>3. Cardinality(Pairs(owed)) = Cardinality(Others(owed, t)) + owed[t]
    BY <1>2, Share, Zenon
<1>4. cnt # 0
    BY <1>1, <1>2, <1>3, PairsFinite
<1>5. /\ cnt' = cnt - 1 /\ cnt' \in 0 .. MaxCnt
      /\ pc' \in [Threads -> PCs]
      /\ WaitingExact' /\ NoneAsleepAtZero'
    BY <1>1, <1>2, <1>4, LowerFacts, Zenon
<1>6. cnt' # Cond_Deleted /\ owed[t] - 1 \in 0 .. MaxCnt
    BY <1>1, <1>2, <1>5, MaxCntAssumption DEF Cond_Deleted
<1>7. owed' \in [Threads -> 0 .. MaxCnt]
    BY <1>1, <1>2, <1>6, Zenon
<1>8. cnt' = Cardinality(Pairs(owed'))
    <2>1. Cardinality(Pairs(owed')) = Cardinality(Pairs(owed)) - owed[t] + (owed[t] - 1)
        BY <1>1, <1>2, <1>6, ShareStep, Zenon
    <2> QED
        BY <1>2, <1>5, <2>1, PairsFinite, MaxCntAssumption
<1> QED
    BY <1>1, <1>5, <1>6, <1>7, <1>8, Zenon DEF CounterInv, Types, Deletion, Sum

(* Raising the count leaves zero behind. *)
LEMMA RaiseFacts ==
    ASSUME CounterInv, cnt >= 0, cnt < MaxCnt, cnt' = cnt + 1,
           UNCHANGED <<waiting, pc, internal, deleted>>
    PROVE  /\ cnt \in Nat /\ cnt' \in 0 .. MaxCnt
           /\ WaitingExact' /\ NoneAsleepAtZero' /\ Deletion'
<1>1. cnt' \in 0 .. MaxCnt /\ cnt' # 0 /\ cnt' # Cond_Deleted /\ cnt # Cond_Deleted /\ cnt \in Nat
    BY MaxCntAssumption DEF CounterInv, Types, Cond_Deleted
<1> QED
    BY <1>1, Zenon DEF CounterInv, WaitingExact, NoneAsleepAtZero, Deletion

LEMMA IncInv ==
    ASSUME CounterInv, NEW t \in Threads, ~internal, inc(t)
    PROVE  CounterInv'
<1>1. /\ cnt >= 0 /\ cnt < MaxCnt /\ cnt' = cnt + 1
      /\ UNCHANGED <<waiting, pc, timed, result, internal, owed, deleted>>
    BY Zenon DEF inc, kind
<1>2. cnt' \in 0 .. MaxCnt /\ WaitingExact' /\ NoneAsleepAtZero' /\ Deletion'
    BY <1>1, RaiseFacts, Zenon
<1> QED
    BY <1>1, <1>2, Zenon DEF CounterInv, Types, Sum

LEMMA IncInternalInv ==
    ASSUME CounterInv, NEW t \in Threads, internal, incInternal(t)
    PROVE  CounterInv'
<1>1. /\ cnt >= 0 /\ cnt < MaxCnt /\ cnt' = cnt + 1
      /\ UNCHANGED <<waiting, pc, timed, result, internal, deleted>>
      /\ owed' = [owed EXCEPT ![t] = owed[t] + 1]
    BY Zenon DEF incInternal
<1>2. cnt \in Nat /\ cnt' \in 0 .. MaxCnt /\ WaitingExact' /\ NoneAsleepAtZero' /\ Deletion'
    BY <1>1, RaiseFacts, Zenon
<1>3. cnt = Cardinality(Pairs(owed)) /\ owed \in [Threads -> 0 .. MaxCnt]
    BY Zenon DEF CounterInv, Sum, Types
<1>4. Cardinality(Pairs(owed)) = Cardinality(Others(owed, t)) + owed[t]
    BY <1>3, Share, Zenon
<1>5. owed[t] + 1 \in 0 .. MaxCnt
    BY <1>1, <1>3, <1>4, PairsFinite, MaxCntAssumption
<1>6. owed' \in [Threads -> 0 .. MaxCnt]
    BY <1>1, <1>3, <1>5, Zenon
<1>7. Cardinality(Pairs(owed')) = Cardinality(Pairs(owed)) - owed[t] + (owed[t] + 1)
    BY <1>1, <1>3, <1>5, ShareStep, Zenon
<1>8. cnt' = Cardinality(Pairs(owed'))
    BY <1>1, <1>3, <1>7, PairsFinite, MaxCntAssumption
<1> QED
    BY <1>1, <1>2, <1>6, <1>8, Zenon DEF CounterInv, Types, Sum

LEMMA DestructorInv ==
    ASSUME CounterInv, ~internal, destructor
    PROVE  CounterInv'
<1>1. /\ deleted' = TRUE /\ cnt' = Cond_Deleted
      /\ UNCHANGED <<waiting, timed, result, internal, owed>>
    BY Zenon DEF destructor
<1>2. pc \in [Threads -> PCs] /\ waiting = Cardinality(Busy(pc))
    BY Zenon DEF CounterInv, Types, WaitingExact
<1>3. waiting \in Nat
    <2>1. waiting \in 0 .. Cardinality(Threads)
        BY <1>2, BusyFacts, Zenon
    <2> QED
        BY <2>1, ThreadsAssumption, FS_CardinalityType
<1>4. pc' \in [Threads -> PCs] /\ Busy(pc') = Busy(pc) /\ \A t \in Threads : pc'[t] # "blocked"
    <2>1. CASE Broadcast
        BY <1>2, <2>1, BroadcastFacts, Zenon DEF Broadcast
    <2>2. CASE pc' = pc /\ ~(waiting > 0)
        <3>1. Cardinality(Busy(pc)) = 0
            BY <1>2, <1>3, <2>2
        <3>2. \A t \in Threads : pc[t] = "idle"
            BY <1>2, <3>1, BusyFacts, Zenon
        <3> QED
            BY <1>2, <2>2, <3>2, Zenon
    <2> QED
        BY <2>1, <2>2, Zenon DEF destructor
<1>5. Types'
    BY <1>1, <1>4, Zenon DEF CounterInv, Types
<1> QED
    BY <1>1, <1>2, <1>4, <1>5, Zenon DEF CounterInv, Deletion, Sum, WaitingExact, NoneAsleepAtZero

LEMMA InitInv == Init => CounterInv
<1> SUFFICES ASSUME Init PROVE CounterInv
    BY Zenon
<1>1. cnt \in 0 .. MaxCnt /\ cnt # Cond_Deleted
    BY MaxCntAssumption DEF Init, Cond_Deleted
<1>2. 0 \in 0 .. MaxCnt
    BY MaxCntAssumption
<1>3. Types
    BY <1>1, <1>2, Zenon DEF Init, Types, PCs
<1>4. Deletion
    BY <1>1, Zenon DEF Init, Deletion
<1>5. WaitingExact
    <2>1. Busy(pc) = {}
        BY Zenon DEF Init, Busy
    <2> QED
        BY <2>1, FS_EmptySet, Zenon DEF Init, WaitingExact
<1>6. NoneAsleepAtZero
    BY Zenon DEF Init, NoneAsleepAtZero
<1>7. Sum
    <2>1. ASSUME NEW d \in Pairs(owed) PROVE FALSE
        <3>1. d[1] \in Threads /\ d[2] \in 1 .. MaxCnt /\ d[2] <= owed[d[1]]
            BY <2>1 DEF Pairs
        <3>2. owed[d[1]] = 0
            BY <3>1, Zenon DEF Init
        <3> QED
            BY <3>1, <3>2, MaxCntAssumption
    <2>2. Cardinality(Pairs(owed)) = 0
        <3>1. Pairs(owed) = {}
            BY <2>1, Zenon
        <3> QED
            BY <3>1, FS_EmptySet, Zenon
    <2>3. internal => cnt = 0
        BY Zenon DEF Init
    <2> QED
        BY <2>2, <2>3, Zenon DEF Sum
<1> QED
    BY <1>3, <1>4, <1>5, <1>6, <1>7, Zenon DEF CounterInv

LEMMA NextInv == CounterInv /\ [Next]_vars => CounterInv'
<1> SUFFICES ASSUME CounterInv, [Next]_vars PROVE CounterInv'
    BY Zenon
<1>1. CASE UNCHANGED vars
    BY <1>1, Zenon DEF vars, CounterInv, Types, Deletion, Sum, WaitingExact, NoneAsleepAtZero
<1>2. CASE ~internal /\ destructor
    BY <1>2, DestructorInv, Zenon
<1>3. ASSUME NEW t \in Threads, ~internal, inc(t) PROVE CounterInv'
    BY <1>3, IncInv, Zenon
<1>a. ASSUME NEW t \in Threads, internal, incInternal(t) PROVE CounterInv'
    BY <1>a, IncInternalInv, Zenon
<1>4. ASSUME NEW t \in Threads, ~internal, dec(t) PROVE CounterInv'
    BY <1>4, DecInv, Zenon
<1>5. ASSUME NEW t \in Threads, internal, decInternal(t) PROVE CounterInv'
    BY <1>5, DecInternalInv, Zenon
<1>6. ASSUME NEW t \in Threads, waitForZero(t) \/ (internal /\ waitForZeroInternal(t))
      PROVE  CounterInv'
    BY <1>6, WaitForZeroInv, Zenon
<1>7. ASSUME NEW t \in Threads,
             \/ Resume(t) \/ ResumeTimedOut(t) \/ TimeOut(t) \/ Spurious(t)
             \/ internal /\ ResumeInternal(t)
      PROVE  CounterInv'
    BY <1>7, ResumeInv, Zenon
<1>8. ASSUME NEW t \in Threads, ~internal,
             \/ inc(t) \/ dec(t) \/ waitForZero(t)
             \/ Resume(t) \/ ResumeTimedOut(t) \/ TimeOut(t)
      PROVE  CounterInv'
    <2>1. CASE inc(t)
        BY <1>3, <1>8, <2>1, Zenon
    <2>2. CASE dec(t)
        BY <1>4, <1>8, <2>2, Zenon
    <2>3. CASE waitForZero(t)
        BY <1>6, <2>3, Zenon
    <2>4. CASE Resume(t) \/ ResumeTimedOut(t) \/ TimeOut(t)
        BY <1>7, <2>4, Zenon
    <2> QED
        BY <1>8, <2>1, <2>2, <2>3, <2>4, Zenon
<1>9. ASSUME NEW t \in Threads, internal,
             incInternal(t) \/ decInternal(t) \/ waitForZeroInternal(t) \/ ResumeInternal(t)
      PROVE  CounterInv'
    <2>1. CASE incInternal(t)
        BY <1>a, <1>9, <2>1, Zenon
    <2>2. CASE decInternal(t)
        BY <1>5, <1>9, <2>2, Zenon
    <2>3. CASE waitForZeroInternal(t)
        BY <1>6, <1>9, <2>3, Zenon
    <2>4. CASE ResumeInternal(t)
        BY <1>7, <1>9, <2>4, Zenon
    <2> QED
        BY <1>9, <2>1, <2>2, <2>3, <2>4, Zenon
<1> QED
    BY <1>1, <1>2, <1>7, <1>8, <1>9, Zenon DEF Next

-----------------------------------------------------------------------------
(* CounterInv holds in every state of a counter of either kind, for any    *)
(* number of threads that raise, lower, wait, time out and delete.         *)
THEOREM CounterInvariance == Spec => []CounterInv
BY InitInv, NextInv, PTL DEF Spec

(* The count is Cond_Deleted only after the deletion and from then on; a    *)
(* counter of the library is what its users still owe, so that the plain    *)
(* dec(), which tests nothing, never makes it negative.                     *)
THEOREM CounterExact == Spec => []CountExact
BY CounterInvariance, CounterInvImplies, PTL

(* Nobody sleeps in waitForZero() at zero or on a deleted counter: dec()    *)
(* and destructor() broadcast only when waiting is positive, which is       *)
(* enough because it is exact.                                              *)
THEOREM CounterNoLostWakeup == Spec => []NoneAsleepAtZero
BY CounterInvariance, CounterInvImplies, PTL

(* A thread that returns from waitForZero() with success saw a count of     *)
(* zero in the critical section it returned from, whatever inc() did        *)
(* between the broadcast and that moment.                                   *)
THEOREM CounterZeroOnReturn == Spec => ZeroOnReturn
<1> DEFINE A == \A t \in Threads :
                    (pc[t] # "idle" /\ pc'[t] = "idle" /\ result'[t] = "zero") => cnt = 0
<1>1. CounterInv /\ [Next]_vars => [A]_vars
    <2> SUFFICES ASSUME CounterInv, Next, NEW u \in Threads,
                        pc[u] # "idle", pc'[u] = "idle", result'[u] = "zero"
                 PROVE  cnt = 0
        BY Zenon
    <2>0. pc \in [Threads -> PCs] /\ result \in [Threads -> {"none", "zero", "timeout", "error"}]
        BY Zenon DEF CounterInv, Types
    <2>1. CASE destructor \/ \E t \in Threads : dec(t) \/ decInternal(t)
        BY <2>0, <2>1, Zenon DEF destructor, dec, decInternal, Lower, Broadcast
    <2>2. CASE \E t \in Threads : inc(t) \/ incInternal(t)
        BY <2>2, Zenon DEF inc, incInternal
    <2>3. ASSUME NEW t \in Threads, NEW r, Return(t, r), r = "zero" => cnt = 0
          PROVE  cnt = 0
        BY <2>0, <2>3, Zenon DEF Return
    <2>4. ASSUME NEW t \in Threads, NEW s, pc' = [pc EXCEPT ![t] = s], s # "idle"
          PROVE  cnt = 0
        BY <2>0, <2>4, Zenon
    <2>5. ASSUME NEW t \in Threads, waitForZero(t) \/ Resume(t) PROVE cnt = 0
        BY <2>3, <2>4, <2>5, Zenon DEF waitForZero, Resume
    <2>6. ASSUME NEW t \in Threads, waitForZeroInternal(t) \/ ResumeInternal(t) PROVE cnt = 0
        BY <2>3, <2>4, <2>6, Zenon DEF waitForZeroInternal, ResumeInternal
    <2>7. ASSUME NEW t \in Threads, ResumeTimedOut(t) PROVE cnt = 0
        BY <2>3, <2>7, Zenon DEF ResumeTimedOut
    <2>8. ASSUME NEW t \in Threads, TimeOut(t) \/ Spurious(t) PROVE cnt = 0
        BY <2>4, <2>8, Zenon DEF TimeOut, Spurious
    <2> QED
        BY <2>1, <2>2, <2>5, <2>6, <2>7, <2>8, Zenon DEF Next
<1> QED
    BY <1>1, CounterInvariance, PTL DEF Spec, ZeroOnReturn

=============================================================================
