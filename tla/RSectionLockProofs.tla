-------------------------- MODULE RSectionLockProofs --------------------------
(***************************************************************************)
(* Proofs about the lock of an object for any number of threads: its       *)
(* members describe the threads, no wakeup is lost, and it implements      *)
(* ObjectLock.                                                             *)
(***************************************************************************)
EXTENDS RSectionLock, FiniteSetTheorems, TLAPS

-----------------------------------------------------------------------------
(* Counting threads by state *)

LEMMA InFinite ==
    ASSUME NEW p, NEW s
    PROVE  IsFiniteSet(In(p, s)) /\ Cardinality(In(p, s)) \in Nat
<1>1. IsFiniteSet(In(p, s))
    BY ThreadsAssumption, FS_Subset, Zenon DEF In
<1> QED
    BY <1>1, FS_CardinalityType, Zenon

LEMMA CountZero ==
    ASSUME NEW p, NEW s
    PROVE  Cardinality(In(p, s)) = 0 <=> In(p, s) = {}
BY InFinite, FS_EmptySet, Zenon

(* Thread t goes from a state of s to one outside, or the other way. *)
LEMMA CountMove ==
    ASSUME NEW p \in [Threads -> PCs], NEW t \in Threads, NEW x \in PCs, NEW s
    PROVE  LET q == [p EXCEPT ![t] = x]
           IN /\ x \in s /\ p[t] \notin s => Cardinality(In(q, s)) = Cardinality(In(p, s)) + 1
              /\ x \notin s /\ p[t] \in s => Cardinality(In(q, s)) = Cardinality(In(p, s)) - 1
              /\ (x \in s <=> p[t] \in s) => In(q, s) = In(p, s)
<1> DEFINE q == [p EXCEPT ![t] = x]
<1>1. IsFiniteSet(In(p, s))
    BY InFinite, Zenon
<1>2. x \in s /\ p[t] \notin s => In(q, s) = In(p, s) \cup {t} /\ t \notin In(p, s)
    BY Zenon DEF In
<1>3. x \notin s /\ p[t] \in s => In(q, s) = In(p, s) \ {t} /\ t \in In(p, s)
    BY Zenon DEF In
<1>4. (x \in s <=> p[t] \in s) => In(q, s) = In(p, s)
    BY Zenon DEF In
<1>5. t \notin In(p, s) => Cardinality(In(p, s) \cup {t}) = Cardinality(In(p, s)) + 1
    BY <1>1, FS_AddElement, Zenon
<1>6. t \in In(p, s) => Cardinality(In(p, s) \ {t}) = Cardinality(In(p, s)) - 1
    BY <1>1, FS_RemoveElement, Zenon
<1> QED
    BY <1>2, <1>3, <1>4, <1>5, <1>6, Zenon

-----------------------------------------------------------------------------
(* Signals *)

Counted == {ReadStates, WriteStates, UpgradeStates, ReaderStates,
            {"writing"}, {"rsection"}, {"notify"}, {"out"}, {"reading"}}

(* q is p after some waiting threads have been woken. *)
Wakes(p, q) ==
    /\ q \in [Threads -> PCs]
    /\ \A u \in Threads : q[u] = p[u] \/ <<p[u], q[u]>> \in WakePairs

(* Woken threads are counted where they were counted before. *)
LEMMA WakesKeep ==
    ASSUME NEW p \in [Threads -> PCs], NEW q, Wakes(p, q), NEW s \in Counted
    PROVE  In(q, s) = In(p, s)
<1>1. \A u \in Threads : q[u] \in s <=> p[u] \in s
    BY Zenon DEF Wakes, WakePairs, Counted, ReadStates, WriteStates, UpgradeStates, ReaderStates
<1> QED
    BY <1>1, Zenon DEF In

(* signal() wakes a thread if one waits, and does nothing else. *)
LEMMA wrSignalled ==
    ASSUME NEW p \in [Threads -> PCs], NEW q \in Signalled(p, "wrWait", "wrWoken")
    PROVE  /\ Wakes(p, q)
           /\ In(q, {"wrWait"}) # {} => In(q, {"wrWoken"}) # {}
           /\ \A u \in Threads : q[u] # p[u] => p[u] = "wrWait" /\ q[u] = "wrWoken"
<1>1. CASE q = p /\ \A t \in Threads : p[t] # "wrWait"
    BY <1>1, Zenon DEF Wakes, In
<1>2. CASE \E t \in Threads : p[t] = "wrWait" /\ q = [p EXCEPT ![t] = "wrWoken"]
    <2>1. PICK t \in Threads : p[t] = "wrWait" /\ q = [p EXCEPT ![t] = "wrWoken"]
        BY <1>2, Zenon
    <2>2. t \in In(q, {"wrWoken"})
        BY <2>1, Zenon DEF In
    <2> QED
        BY <2>1, <2>2, Zenon DEF Wakes, WakePairs, PCs, Woken
<1> QED
    BY <1>1, <1>2, Zenon DEF Signalled

LEMMA upSignalled ==
    ASSUME NEW p \in [Threads -> PCs], NEW q \in Signalled(p, "upWait", "upWoken")
    PROVE  /\ Wakes(p, q)
           /\ In(q, {"upWait"}) # {} => In(q, {"upWoken"}) # {}
           /\ \A u \in Threads : q[u] # p[u] => p[u] = "upWait" /\ q[u] = "upWoken"
<1>1. CASE q = p /\ \A t \in Threads : p[t] # "upWait"
    BY <1>1, Zenon DEF Wakes, In
<1>2. CASE \E t \in Threads : p[t] = "upWait" /\ q = [p EXCEPT ![t] = "upWoken"]
    <2>1. PICK t \in Threads : p[t] = "upWait" /\ q = [p EXCEPT ![t] = "upWoken"]
        BY <1>2, Zenon
    <2>2. t \in In(q, {"upWoken"})
        BY <2>1, Zenon DEF In
    <2> QED
        BY <2>1, <2>2, Zenon DEF Wakes, WakePairs, PCs, Woken
<1> QED
    BY <1>1, <1>2, Zenon DEF Signalled

LEMMA BroadcastWakes ==
    ASSUME NEW p \in [Threads -> PCs]
    PROVE  /\ Wakes(p, Broadcast(p))
           /\ In(Broadcast(p), {"rdWait", "tryWait"}) = {}
           /\ \A u \in Threads : Broadcast(p)[u] # p[u] => p[u] \in {"rdWait", "tryWait"}
BY Zenon DEF Broadcast, Wakes, WakePairs, In, PCs, Waiting, Woken

-----------------------------------------------------------------------------
(* The inductive invariant *)

IInv == TypeOK /\ BookkeepingExact /\ NoLostWakeup

Number(p, s) == Cardinality(In(p, s))

(* The number n of threads in s becomes m when one goes from x to y. *)
Changes(n, m, x, y, s) ==
    /\ n \in Nat /\ m \in Nat
    /\ x \in s => n > 0
    /\ x \notin s /\ y \in s => m = n + 1
    /\ x \in s /\ y \notin s => m = n - 1
    /\ x \in s /\ y \in s => m = n
    /\ x \notin s /\ y \notin s => m = n

LEMMA NumberMove ==
    ASSUME NEW p \in [Threads -> PCs], NEW t \in Threads, NEW x \in PCs, NEW s
    PROVE  Changes(Number(p, s), Number([p EXCEPT ![t] = x], s), p[t], x, s)
<1> DEFINE q == [p EXCEPT ![t] = x]
<1>1. /\ x \in s /\ p[t] \notin s => Number(q, s) = Number(p, s) + 1
      /\ x \notin s /\ p[t] \in s => Number(q, s) = Number(p, s) - 1
      /\ (x \in s <=> p[t] \in s) => In(q, s) = In(p, s)
    BY CountMove, Zenon DEF Number
<1>2. Number(p, s) \in Nat /\ Number(q, s) \in Nat
    BY InFinite, Zenon DEF Number
<1>3. p[t] \in s => Number(p, s) # 0
    BY CountZero, Zenon DEF Number, In
<1>4. (x \in s <=> p[t] \in s) => Number(q, s) = Number(p, s)
    BY <1>1, Zenon DEF Number
<1> HIDE DEF q
<1>5. Changes(Number(p, s), Number(q, s), p[t], x, s)
    BY <1>1, <1>2, <1>3, <1>4 DEF Changes
<1> QED
    BY <1>5, Zenon DEF q

(* Which states are counted where. *)
LEMMA StateClasses ==
    /\ \A x \in {"out", "writing", "notify"} :
          x \notin ReadStates \cup WriteStates \cup UpgradeStates \cup ReaderStates
    /\ \A x \in {"rdWait", "rdWoken", "tryWait", "tryWoken"} :
          x \in ReadStates /\ x \notin WriteStates \cup UpgradeStates \cup ReaderStates
    /\ \A x \in {"wrWait", "wrWoken"} :
          x \in WriteStates /\ x \notin ReadStates \cup UpgradeStates \cup ReaderStates
    /\ \A x \in {"upWait", "upWoken"} :
          x \in UpgradeStates /\ x \in ReaderStates /\ x \notin ReadStates \cup WriteStates
    /\ \A x \in {"reading", "rsection"} :
          x \in ReaderStates /\ x \notin ReadStates \cup WriteStates \cup UpgradeStates
BY Zenon DEF ReadStates, WriteStates, UpgradeStates, ReaderStates

LEMMA InitInv == Init => IInv
<1> SUFFICES ASSUME Init PROVE IInv
    BY Zenon
<1>1. TypeOK
    BY Zenon DEF Init, TypeOK, PCs
<1>2. \A s : "out" \notin s => At(s) = {}
    BY Zenon DEF Init, At, In
<1>3. \A s : "out" \notin s => Cardinality(At(s)) = 0
    BY <1>2, FS_EmptySet, Zenon
<1>4. BookkeepingExact
    <2>1. /\ Cardinality(At(ReaderStates)) = 0
          /\ Cardinality(At(ReadStates)) = 0
          /\ Cardinality(At(WriteStates)) = 0
          /\ Cardinality(At(UpgradeStates)) = 0
        BY <1>3, Zenon DEF ReaderStates, ReadStates, WriteStates, UpgradeStates
    <2> QED
        BY <2>1, ThreadsAssumption, Zenon DEF Init, BookkeepingExact
<1>5. NoLostWakeup
    BY <1>2, Zenon DEF Init, NoLostWakeup
<1> QED
    BY <1>1, <1>4, <1>5, Zenon DEF IInv

(* The counts in terms of Number, and what they say of one thread. *)
LEMMA Facts ==
    ASSUME IInv
    PROVE  /\ readers = Number(pc, ReaderStates)
           /\ read_waiting = Number(pc, ReadStates)
           /\ write_waiting = Number(pc, WriteStates)
           /\ rsection_waiting = Number(pc, UpgradeStates)
           /\ pc \in [Threads -> PCs]
           /\ write_tid # None => readers = 0
           /\ rs_tid # None => readers > 0 /\ write_tid = None
<1>1. pc \in [Threads -> PCs]
    BY Zenon DEF IInv, TypeOK
<1>2. /\ readers = Number(pc, ReaderStates)
      /\ read_waiting = Number(pc, ReadStates)
      /\ write_waiting = Number(pc, WriteStates)
      /\ rsection_waiting = Number(pc, UpgradeStates)
      /\ write_tid # None => readers = 0
    BY Zenon DEF IInv, BookkeepingExact, Number, At
<1>3. rs_tid # None => readers > 0
    <2> SUFFICES ASSUME rs_tid # None PROVE readers > 0
        BY Zenon
    <2>1. rs_tid \in Threads /\ pc[rs_tid] = "rsection"
        BY Zenon DEF IInv, TypeOK, BookkeepingExact
    <2>2. "rsection" \in PCs /\ "rsection" \in ReaderStates
        BY Zenon DEF PCs, ReaderStates
    <2>3. Changes(Number(pc, ReaderStates), Number([pc EXCEPT ![rs_tid] = "rsection"], ReaderStates),
                  pc[rs_tid], "rsection", ReaderStates)
        BY <1>1, <2>1, <2>2, NumberMove, Zenon
    <2> QED
        BY <1>2, <2>1, <2>2, <2>3, Zenon DEF Changes
<1> QED
    BY <1>1, <1>2, <1>3

(* How a step in which thread t goes to x, and may wake others, changes the
   four numbers. *)
Moves(t, x) ==
    /\ Changes(readers, Number(pc', ReaderStates), pc[t], x, ReaderStates)
    /\ Changes(read_waiting, Number(pc', ReadStates), pc[t], x, ReadStates)
    /\ Changes(write_waiting, Number(pc', WriteStates), pc[t], x, WriteStates)
    /\ Changes(rsection_waiting, Number(pc', UpgradeStates), pc[t], x, UpgradeStates)

LEMMA Moved ==
    ASSUME IInv, NEW t \in Threads, NEW x \in PCs, Wakes([pc EXCEPT ![t] = x], pc')
    PROVE  Moves(t, x)
<1> DEFINE q == [pc EXCEPT ![t] = x]
<1>1. pc \in [Threads -> PCs] /\ q \in [Threads -> PCs]
    BY Facts, Zenon
<1>2. \A s \in Counted : Number(pc', s) = Number(q, s)
    BY <1>1, WakesKeep, Zenon DEF Number
<1>3. \A s : Changes(Number(pc, s), Number(q, s), pc[t], x, s)
    BY <1>1, NumberMove, Zenon
<1> HIDE DEF q
<1>4. \A s \in Counted : Changes(Number(pc, s), Number(pc', s), pc[t], x, s)
    BY <1>2, <1>3, Zenon
<1>5. /\ ReaderStates \in Counted /\ ReadStates \in Counted
      /\ WriteStates \in Counted /\ UpgradeStates \in Counted
    BY Zenon DEF Counted
<1> QED
    BY <1>4, <1>5, Facts, Zenon DEF Moves

LEMMA NobodyWoken ==
    ASSUME IInv, NEW t \in Threads, NEW x \in PCs, pc' = [pc EXCEPT ![t] = x]
    PROVE  Wakes([pc EXCEPT ![t] = x], pc')
BY Facts, Zenon DEF Wakes

-----------------------------------------------------------------------------
(* The steps *)

(* BookkeepingExact' in terms of Number. *)
LEMMA ExactNext ==
    ASSUME \A t \in Threads : /\ pc'[t] = "writing" <=> write_tid' = t
                              /\ pc'[t] = "rsection" <=> rs_tid' = t,
           readers' = Number(pc', ReaderStates),
           read_waiting' = Number(pc', ReadStates),
           write_waiting' = Number(pc', WriteStates),
           rsection_waiting' = Number(pc', UpgradeStates),
           write_tid' # None => readers' = 0,
           list' = setp', \A t \in setp' : t \in Threads /\ pc'[t] = "notify"
    PROVE  BookkeepingExact'
<1>1. setp' \subseteq At({"notify"})'
    BY Zenon DEF At, In
<1> QED
    BY <1>1, Zenon DEF BookkeepingExact, Number, At

LEMMA wrlockInv ==
    ASSUME IInv, NEW t \in Threads, wrlock(t) \/ wrlockWoken(t)
    PROVE  IInv'
<1>1. PICK w \in {0, 1} :
          /\ wrlockLoop(t, w)
          /\ w = 0 => pc[t] = "out"
          /\ w = 1 => pc[t] = "wrWoken"
          /\ UNCHANGED <<readers, read_waiting, rsection_waiting, rs_tid, list, setp>>
          /\ ops' \in Nat
    BY DEF IInv, TypeOK, wrlock, wrlockWoken, Start
<1>2. CASE /\ readers > 0 \/ write_tid # None
           /\ write_waiting' = write_waiting - w + 1
           /\ pc' = [pc EXCEPT ![t] = "wrWait"]
           /\ write_tid' = write_tid
    <2>1. Wakes([pc EXCEPT ![t] = "wrWait"], pc') /\ Moves(t, "wrWait")
        BY <1>2, NobodyWoken, Moved, Zenon DEF PCs, Waiting
    <2>2. /\ readers' = Number(pc', ReaderStates)
          /\ read_waiting' = Number(pc', ReadStates)
          /\ write_waiting' = Number(pc', WriteStates)
          /\ rsection_waiting' = Number(pc', UpgradeStates)
        BY <1>1, <1>2, <2>1, StateClasses DEF Moves, Changes
    <2>3. TypeOK'
        BY <1>1, <1>2, <2>1, <2>2, Zenon DEF IInv, TypeOK, Wakes, Moves, Changes
    <2>4. BookkeepingExact'
        BY <1>1, <1>2, <2>2, ExactNext, Zenon DEF IInv, TypeOK, BookkeepingExact, At, In
    <2>5. NoLostWakeup'
        BY <1>1, <1>2, Zenon DEF IInv, TypeOK, NoLostWakeup, At, In, WriteStates
    <2> QED
        BY <2>3, <2>4, <2>5, Zenon DEF IInv
<1>3. CASE /\ readers = 0 /\ write_tid = None
           /\ write_waiting' = write_waiting - w
           /\ pc' = [pc EXCEPT ![t] = "writing"]
           /\ write_tid' = t
    <2>1. Wakes([pc EXCEPT ![t] = "writing"], pc') /\ Moves(t, "writing")
        BY <1>3, NobodyWoken, Moved, Zenon DEF PCs
    <2>2. /\ readers' = Number(pc', ReaderStates)
          /\ read_waiting' = Number(pc', ReadStates)
          /\ write_waiting' = Number(pc', WriteStates)
          /\ rsection_waiting' = Number(pc', UpgradeStates)
        BY <1>1, <1>3, <2>1, StateClasses DEF Moves, Changes
    <2>3. TypeOK'
        BY <1>1, <1>3, <2>1, <2>2, Zenon DEF IInv, TypeOK, Wakes, Moves, Changes
    <2>4. BookkeepingExact'
        BY <1>1, <1>3, <2>2, ExactNext, ThreadsAssumption, Zenon DEF IInv, TypeOK, BookkeepingExact, At, In
    <2>5. NoLostWakeup'
        BY <1>1, <1>3, ThreadsAssumption, Zenon DEF IInv, TypeOK, NoLostWakeup, At, In
    <2> QED
        BY <2>3, <2>4, <2>5, Zenon DEF IInv
<1> QED
    BY <1>1, <1>2, <1>3, Zenon DEF wrlockLoop

LEMMA rdlockInv ==
    ASSUME IInv, NEW t \in Threads, rdlock(t) \/ rdlockWoken(t)
    PROVE  IInv'
<1>1. PICK w \in {0, 1} :
          /\ rdlockLoop(t, w)
          /\ w = 0 => pc[t] = "out"
          /\ w = 1 => pc[t] = "rdWoken"
          /\ UNCHANGED <<write_tid, write_waiting, rsection_waiting, rs_tid, list, setp>>
          /\ ops' \in Nat
    BY DEF IInv, TypeOK, rdlock, rdlockWoken, Start
<1>2. CASE /\ write_tid # None
           /\ read_waiting' = read_waiting - w + 1
           /\ pc' = [pc EXCEPT ![t] = "rdWait"]
           /\ readers' = readers
    <2>1. Wakes([pc EXCEPT ![t] = "rdWait"], pc') /\ Moves(t, "rdWait")
        BY <1>2, NobodyWoken, Moved, Zenon DEF PCs, Waiting
    <2>2. /\ readers' = Number(pc', ReaderStates)
          /\ read_waiting' = Number(pc', ReadStates)
          /\ write_waiting' = Number(pc', WriteStates)
          /\ rsection_waiting' = Number(pc', UpgradeStates)
        BY <1>1, <1>2, <2>1, StateClasses DEF Moves, Changes
    <2>3. TypeOK'
        BY <1>1, <1>2, <2>1, <2>2, Zenon DEF IInv, TypeOK, Wakes, Moves, Changes
    <2>4. BookkeepingExact'
        BY <1>1, <1>2, <2>2, ExactNext, ThreadsAssumption, Zenon DEF IInv, TypeOK, BookkeepingExact, At, In
    <2>5. NoLostWakeup'
        BY <1>1, <1>2, ThreadsAssumption, Zenon DEF IInv, TypeOK, NoLostWakeup, At, In, WriteStates
    <2> QED
        BY <2>3, <2>4, <2>5, Zenon DEF IInv
<1>3. CASE /\ write_tid = None
           /\ read_waiting' = read_waiting - w
           /\ pc' = [pc EXCEPT ![t] = "reading"]
           /\ readers' = readers + 1
    <2>1. Wakes([pc EXCEPT ![t] = "reading"], pc') /\ Moves(t, "reading")
        BY <1>3, NobodyWoken, Moved, Zenon DEF PCs, Waiting
    <2>2. /\ readers' = Number(pc', ReaderStates)
          /\ read_waiting' = Number(pc', ReadStates)
          /\ write_waiting' = Number(pc', WriteStates)
          /\ rsection_waiting' = Number(pc', UpgradeStates)
        BY <1>1, <1>3, <2>1, StateClasses DEF Moves, Changes
    <2>3. TypeOK'
        BY <1>1, <1>3, <2>1, <2>2, Zenon DEF IInv, TypeOK, Wakes, Moves, Changes
    <2>4. BookkeepingExact'
        BY <1>1, <1>3, <2>2, ExactNext, ThreadsAssumption, Zenon DEF IInv, TypeOK, BookkeepingExact, At, In
    <2>5. NoLostWakeup'
        BY <1>1, <1>3, ThreadsAssumption DEF IInv, TypeOK, NoLostWakeup, At, In, WriteStates
    <2> QED
        BY <2>3, <2>4, <2>5, Zenon DEF IInv
<1> QED
    BY <1>1, <1>2, <1>3, Zenon DEF rdlockLoop

LEMMA upgradeInv ==
    ASSUME IInv, NEW t \in Threads, upgradeReadToRSection(t) \/ upgradeWoken(t)
    PROVE  IInv'
<1>1. PICK w \in {0, 1} :
          /\ upgradeLoop(t, w)
          /\ w = 0 => pc[t] = "reading"
          /\ w = 1 => pc[t] = "upWoken"
          /\ UNCHANGED <<write_tid, readers, read_waiting, write_waiting, list, setp>>
          /\ ops' \in Nat
    BY DEF IInv, TypeOK, upgradeReadToRSection, upgradeWoken
<1>2. CASE /\ rs_tid # None
           /\ rsection_waiting' = rsection_waiting - w + 1
           /\ pc' = [pc EXCEPT ![t] = "upWait"]
           /\ rs_tid' = rs_tid
    <2>1. Wakes([pc EXCEPT ![t] = "upWait"], pc') /\ Moves(t, "upWait")
        BY <1>2, NobodyWoken, Moved, Zenon DEF PCs, Waiting
    <2>2. /\ readers' = Number(pc', ReaderStates)
          /\ read_waiting' = Number(pc', ReadStates)
          /\ write_waiting' = Number(pc', WriteStates)
          /\ rsection_waiting' = Number(pc', UpgradeStates)
        BY <1>1, <1>2, <2>1, StateClasses DEF Moves, Changes
    <2>3. TypeOK'
        BY <1>1, <1>2, <2>1, <2>2, Zenon DEF IInv, TypeOK, Wakes, Moves, Changes
    <2>4. BookkeepingExact'
        BY <1>1, <1>2, <2>2, ExactNext, ThreadsAssumption, Zenon DEF IInv, TypeOK, BookkeepingExact, At, In
    <2>5. NoLostWakeup'
        BY <1>1, <1>2, ThreadsAssumption, Zenon DEF IInv, TypeOK, NoLostWakeup, At, In, WriteStates
    <2> QED
        BY <2>3, <2>4, <2>5, Zenon DEF IInv
<1>3. CASE /\ rs_tid = None
           /\ rsection_waiting' = rsection_waiting - w
           /\ pc' = [pc EXCEPT ![t] = "rsection"]
           /\ rs_tid' = t
    <2>1. Wakes([pc EXCEPT ![t] = "rsection"], pc') /\ Moves(t, "rsection")
        BY <1>3, NobodyWoken, Moved, Zenon DEF PCs, Waiting
    <2>2. /\ readers' = Number(pc', ReaderStates)
          /\ read_waiting' = Number(pc', ReadStates)
          /\ write_waiting' = Number(pc', WriteStates)
          /\ rsection_waiting' = Number(pc', UpgradeStates)
        BY <1>1, <1>3, <2>1, StateClasses DEF Moves, Changes
    <2>3. TypeOK'
        BY <1>1, <1>3, <2>1, <2>2, Zenon DEF IInv, TypeOK, Wakes, Moves, Changes
    <2>4. BookkeepingExact'
        BY <1>1, <1>3, <2>2, ExactNext, ThreadsAssumption, Zenon DEF IInv, TypeOK, BookkeepingExact, At, In
    <2>5. NoLostWakeup'
        BY <1>1, <1>3, ThreadsAssumption, Zenon DEF IInv, TypeOK, NoLostWakeup, At, In, WriteStates
    <2> QED
        BY <2>3, <2>4, <2>5, Zenon DEF IInv
<1> QED
    BY <1>1, <1>2, <1>3, Zenon DEF upgradeLoop

LEMMA tryInv ==
    ASSUME IInv, NEW t \in Threads, tryRSectionLockNotifyWaitRead(t) \/ tryWoken(t)
    PROVE  IInv'
<1>1. PICK w \in {0, 1} :
          /\ tryLoop(t, w)
          /\ w = 0 => pc[t] = "out"
          /\ w = 1 => pc[t] = "tryWoken"
          /\ UNCHANGED <<write_tid, write_waiting, rsection_waiting>>
          /\ ops' \in Nat
    BY DEF IInv, TypeOK, tryRSectionLockNotifyWaitRead, tryWoken, Start
<1>2. CASE /\ write_tid # None
           /\ read_waiting' = read_waiting - w + 1
           /\ pc' = [pc EXCEPT ![t] = "tryWait"]
           /\ UNCHANGED <<readers, rs_tid, list, setp>>
    <2>1. Wakes([pc EXCEPT ![t] = "tryWait"], pc') /\ Moves(t, "tryWait")
        BY <1>2, NobodyWoken, Moved, Zenon DEF PCs, Waiting
    <2>2. /\ readers' = Number(pc', ReaderStates)
          /\ read_waiting' = Number(pc', ReadStates)
          /\ write_waiting' = Number(pc', WriteStates)
          /\ rsection_waiting' = Number(pc', UpgradeStates)
        BY <1>1, <1>2, <2>1, StateClasses DEF Moves, Changes
    <2>3. TypeOK'
        BY <1>1, <1>2, <2>1, <2>2, Zenon DEF IInv, TypeOK, Wakes, Moves, Changes
    <2>4. BookkeepingExact'
        BY <1>1, <1>2, <2>2, ExactNext, ThreadsAssumption, Zenon DEF IInv, TypeOK, BookkeepingExact, At, In
    <2>5. NoLostWakeup'
        BY <1>1, <1>2, ThreadsAssumption, Zenon DEF IInv, TypeOK, NoLostWakeup, At, In, WriteStates
    <2> QED
        BY <2>3, <2>4, <2>5, Zenon DEF IInv
<1>3. CASE /\ write_tid = None /\ rs_tid # None
           /\ read_waiting' = read_waiting - w
           /\ pc' = [pc EXCEPT ![t] = "notify"]
           /\ list' = list \cup {t}
           /\ setp' = setp \cup {t}
           /\ UNCHANGED <<readers, rs_tid>>
    <2>1. Wakes([pc EXCEPT ![t] = "notify"], pc') /\ Moves(t, "notify")
        BY <1>3, NobodyWoken, Moved, Zenon DEF PCs, Waiting
    <2>2. /\ readers' = Number(pc', ReaderStates)
          /\ read_waiting' = Number(pc', ReadStates)
          /\ write_waiting' = Number(pc', WriteStates)
          /\ rsection_waiting' = Number(pc', UpgradeStates)
        BY <1>1, <1>3, <2>1, StateClasses DEF Moves, Changes
    <2>3. TypeOK'
        BY <1>1, <1>3, <2>1, <2>2, Zenon DEF IInv, TypeOK, Wakes, Moves, Changes
    <2>4. BookkeepingExact'
        BY <1>1, <1>3, <2>2, ExactNext, ThreadsAssumption, Zenon DEF IInv, TypeOK, BookkeepingExact, At, In
    <2>5. NoLostWakeup'
        BY <1>1, <1>3, ThreadsAssumption, Zenon DEF IInv, TypeOK, NoLostWakeup, At, In, WriteStates
    <2> QED
        BY <2>3, <2>4, <2>5, Zenon DEF IInv
<1>4. CASE /\ write_tid = None /\ rs_tid = None
           /\ read_waiting' = read_waiting - w
           /\ pc' = [pc EXCEPT ![t] = "rsection"]
           /\ readers' = readers + 1
           /\ rs_tid' = t
           /\ UNCHANGED <<list, setp>>
    <2>1. Wakes([pc EXCEPT ![t] = "rsection"], pc') /\ Moves(t, "rsection")
        BY <1>4, NobodyWoken, Moved, Zenon DEF PCs, Waiting
    <2>2. /\ readers' = Number(pc', ReaderStates)
          /\ read_waiting' = Number(pc', ReadStates)
          /\ write_waiting' = Number(pc', WriteStates)
          /\ rsection_waiting' = Number(pc', UpgradeStates)
        BY <1>1, <1>4, <2>1, StateClasses DEF Moves, Changes
    <2>3. TypeOK'
        BY <1>1, <1>4, <2>1, <2>2, Zenon DEF IInv, TypeOK, Wakes, Moves, Changes
    <2>4. BookkeepingExact'
        BY <1>1, <1>4, <2>2, ExactNext, ThreadsAssumption, Zenon DEF IInv, TypeOK, BookkeepingExact, At, In
    <2>5. NoLostWakeup'
        BY <1>1, <1>4, ThreadsAssumption DEF IInv, TypeOK, NoLostWakeup, At, In, WriteStates
    <2> QED
        BY <2>3, <2>4, <2>5, Zenon DEF IInv
<1> QED
    BY <1>1, <1>2, <1>3, <1>4, Zenon DEF tryLoop

LEMMA notifierWaitInv ==
    ASSUME IInv, NEW t \in Threads, notifierWait(t)
    PROVE  IInv'
<1>1. Wakes([pc EXCEPT ![t] = "out"], pc') /\ Moves(t, "out")
    BY NobodyWoken, Moved, Zenon DEF PCs, notifierWait
<1>2. /\ readers' = Number(pc', ReaderStates)
      /\ read_waiting' = Number(pc', ReadStates)
      /\ write_waiting' = Number(pc', WriteStates)
      /\ rsection_waiting' = Number(pc', UpgradeStates)
    BY <1>1, StateClasses, Zenon DEF Moves, Changes, notifierWait, counts
<1>3. TypeOK'
    BY <1>1, Zenon DEF IInv, TypeOK, Wakes, notifierWait, counts
<1>4. BookkeepingExact'
    BY <1>2, ExactNext, ThreadsAssumption, Zenon
    DEF IInv, TypeOK, BookkeepingExact, At, In, notifierWait, counts
<1>5. NoLostWakeup'
    BY Zenon DEF IInv, TypeOK, NoLostWakeup, At, In, WriteStates, notifierWait, counts
<1> QED
    BY <1>3, <1>4, <1>5, Zenon DEF IInv

(* The writer's unlock: it was alone, and a waiting writer is woken, or else
   all waiting readers are. *)
LEMMA unlockWriteInv ==
    ASSUME IInv, NEW t \in Threads, unlockWrite(t)
    PROVE  IInv' /\ Wakes([pc EXCEPT ![t] = "out"], pc')
<1> DEFINE st == [pc EXCEPT ![t] = "out"]
<1>1. st \in [Threads -> PCs]
    BY Facts, Zenon DEF PCs
<1>2. write_tid = t /\ write_tid # None /\ rs_tid = None /\ setp = {} /\ list = {}
    BY Facts, ThreadsAssumption, Zenon DEF IInv, BookkeepingExact, NoLostWakeup, unlockWrite
<1>3. /\ list' = {} /\ setp' = {} /\ write_tid' = None
      /\ UNCHANGED <<readers, read_waiting, write_waiting, rsection_waiting, rs_tid, ops>>
    BY <1>2, Zenon DEF unlockWrite, notifyIntern, counts
<1>4. Number(st, WriteStates) = write_waiting /\ Number(st, ReadStates) = read_waiting
    <2>1. pc \in [Threads -> PCs] /\ "out" \in PCs /\ pc[t] = "writing"
        BY Facts, Zenon DEF unlockWrite, PCs
    <2>2. /\ Changes(Number(pc, WriteStates), Number(st, WriteStates), pc[t], "out", WriteStates)
          /\ Changes(Number(pc, ReadStates), Number(st, ReadStates), pc[t], "out", ReadStates)
        BY <2>1, NumberMove, Zenon
    <2> QED
        BY <2>1, <2>2, Facts, StateClasses, Zenon DEF Changes
<1> HIDE DEF st
<1>5. /\ Wakes(st, pc')
      /\ \A u \in Threads : pc'[u] # st[u] => st[u] \in {"wrWait", "rdWait", "tryWait"}
      /\ At({"wrWait"})' # {} => At({"wrWoken"})' # {}
      /\ At({"rdWait", "tryWait"})' # {} => At(WriteStates)' # {}
    <2>1. CASE write_waiting > 0
        <3>1. pc' \in Signalled(st, "wrWait", "wrWoken")
            BY <2>1, Zenon DEF unlockWrite, unlock_signal, st
        <3>2. /\ Wakes(st, pc')
              /\ In(pc', {"wrWait"}) # {} => In(pc', {"wrWoken"}) # {}
              /\ \A u \in Threads : pc'[u] # st[u] => st[u] = "wrWait"
            BY <1>1, <3>1, wrSignalled, Zenon
        <3>3. In(pc', WriteStates) # {}
            BY <1>1, <1>4, <2>1, <3>2, WakesKeep, CountZero DEF Number, Counted, IInv, TypeOK
        <3> QED
            BY <3>2, <3>3, Zenon DEF At
    <2>2. CASE ~(write_waiting > 0)
        <3>1. In(st, WriteStates) = {}
            BY <1>4, <2>2, CountZero DEF Number, IInv, TypeOK
        <3>2. \A u \in Threads : st[u] # "wrWait"
            BY <3>1, Zenon DEF In, WriteStates
        <3>3. CASE read_waiting > 0
            <4>1. pc' = Broadcast(st)
                BY <2>2, <3>3, Zenon DEF unlockWrite, unlock_signal, st
            <4>2. /\ Wakes(st, pc')
                  /\ In(pc', {"rdWait", "tryWait"}) = {}
                  /\ \A u \in Threads : pc'[u] # st[u] => st[u] \in {"rdWait", "tryWait"}
                BY <1>1, <4>1, BroadcastWakes, Zenon
            <4>3. In(pc', {"wrWait"}) = {}
                BY <3>2, <4>2, Zenon DEF In, Wakes, WakePairs
            <4> QED
                BY <4>2, <4>3, Zenon DEF At
        <3>4. CASE ~(read_waiting > 0)
            <4>1. pc' = st
                BY <2>2, <3>4, Zenon DEF unlockWrite, unlock_signal, st
            <4>2. In(st, ReadStates) = {}
                BY <1>4, <3>4, CountZero DEF Number, IInv, TypeOK
            <4> QED
                BY <1>1, <3>2, <4>1, <4>2, Zenon DEF Wakes, At, In, ReadStates
        <3> QED
            BY <3>3, <3>4, Zenon
    <2> QED
        BY <2>1, <2>2, Zenon
<1>6. Moves(t, "out")
    BY <1>5, Moved, Zenon DEF PCs, st
<1>7. /\ readers' = Number(pc', ReaderStates)
      /\ read_waiting' = Number(pc', ReadStates)
      /\ write_waiting' = Number(pc', WriteStates)
      /\ rsection_waiting' = Number(pc', UpgradeStates)
    BY <1>3, <1>6, StateClasses, Zenon DEF Moves, Changes, unlockWrite
<1>8. TypeOK'
    BY <1>3, <1>5, Zenon DEF IInv, TypeOK, Wakes
<1>9. \A u \in Threads : /\ pc'[u] # "writing"
                         /\ pc'[u] # "rsection"
    BY <1>2, <1>5, ThreadsAssumption, Zenon
    DEF Wakes, WakePairs, st, IInv, TypeOK, BookkeepingExact
<1>10. BookkeepingExact'
    BY <1>2, <1>3, <1>7, <1>9, ExactNext, ThreadsAssumption, Zenon
<1>11. At({"upWait"})' = {}
    <2>1. In(pc, {"upWait"}) = {}
        <3>1. In(pc, ReaderStates) = {}
            BY <1>2, Facts, CountZero, Zenon DEF Number
        <3> QED
            BY <3>1, Zenon DEF In, ReaderStates, UpgradeStates
    <2> QED
        BY <2>1, <1>5, Zenon DEF Wakes, WakePairs, st, At, In, IInv, TypeOK
<1>12. NoLostWakeup'
    BY <1>3, <1>5, <1>11, Zenon DEF NoLostWakeup
<1> QED
    BY <1>5, <1>8, <1>10, <1>12, Zenon DEF IInv, st

(* The last reader wakes a waiting writer. *)
LEMMA Leaves ==
    ASSUME NEW st \in [Threads -> PCs], TypeOK, readerLeaves(st),
           Number(st, WriteStates) = write_waiting
    PROVE  /\ Wakes(st, pc')
           /\ \A u \in Threads : pc'[u] # st[u] => st[u] = "wrWait" /\ pc'[u] = "wrWoken"
           /\ readers = 1 /\ At({"wrWait"})' # {} => At({"wrWoken"})' # {}
<1>1. CASE readers = 1 /\ write_waiting > 0
    <2>1. pc' \in Signalled(st, "wrWait", "wrWoken")
        BY <1>1, Zenon DEF readerLeaves, unlock_read_signal
    <2> QED
        BY <2>1, wrSignalled, Zenon DEF At
<1>2. CASE ~(readers = 1 /\ write_waiting > 0)
    <2>1. pc' = st
        BY <1>2, Zenon DEF readerLeaves, unlock_read_signal
    <2>2. readers = 1 => In(st, WriteStates) = {}
        BY <1>2, CountZero DEF Number, TypeOK
    <2> QED
        BY <2>1, <2>2, Zenon DEF Wakes, At, In, WriteStates
<1> QED
    BY <1>1, <1>2, Zenon

LEMMA unlockReadInv ==
    ASSUME IInv, NEW t \in Threads, unlockRead(t)
    PROVE  IInv' /\ Wakes([pc EXCEPT ![t] = "out"], pc')
<1> DEFINE st == [pc EXCEPT ![t] = "out"]
<1>1. /\ readers' = readers - 1 /\ pc[t] = "reading"
      /\ UNCHANGED <<write_tid, read_waiting, write_waiting, rsection_waiting, rs_tid, list, setp, ops>>
    BY Zenon DEF unlockRead, readerLeaves, counts
<1>2. st \in [Threads -> PCs]
    BY Facts, Zenon DEF PCs
<1>3. Number(st, WriteStates) = write_waiting
    <2>1. Changes(Number(pc, WriteStates), Number(st, WriteStates), pc[t], "out", WriteStates)
        BY Facts, NumberMove, Zenon DEF PCs
    <2> QED
        BY <1>1, <2>1, Facts, StateClasses, Zenon DEF Changes
<1>4. /\ Wakes(st, pc')
      /\ \A u \in Threads : pc'[u] # st[u] => st[u] = "wrWait" /\ pc'[u] = "wrWoken"
      /\ readers = 1 /\ At({"wrWait"})' # {} => At({"wrWoken"})' # {}
    BY <1>2, <1>3, Leaves, Zenon DEF unlockRead, IInv
<1>5. Moves(t, "out")
    BY <1>4, Moved, Zenon DEF PCs
<1>6. /\ readers' = Number(pc', ReaderStates) /\ readers' \in Nat
      /\ read_waiting' = Number(pc', ReadStates)
      /\ write_waiting' = Number(pc', WriteStates)
      /\ rsection_waiting' = Number(pc', UpgradeStates)
    BY <1>1, <1>5, StateClasses, Zenon DEF Moves, Changes
<1>7. TypeOK'
    BY <1>1, <1>4, <1>6, Zenon DEF IInv, TypeOK, Wakes
<1>8. BookkeepingExact'
    <2>1. \A u \in Threads : /\ pc'[u] = "writing" <=> write_tid' = u
                             /\ pc'[u] = "rsection" <=> rs_tid' = u
        BY <1>1, <1>4, Zenon DEF IInv, TypeOK, BookkeepingExact
    <2>2. \A u \in setp' : u \in Threads /\ pc'[u] = "notify"
        BY <1>1, <1>4, Zenon DEF IInv, TypeOK, BookkeepingExact, At, In
    <2>3. write_tid' = None
        BY <1>1, Moved, <1>5, StateClasses DEF Moves, Changes, IInv, BookkeepingExact
    <2> QED
        BY <1>1, <1>6, <2>1, <2>2, <2>3, ExactNext, Zenon DEF IInv, BookkeepingExact
<1>9. NoLostWakeup'
    <2>1. /\ At({"rdWait", "tryWait"})' = At({"rdWait", "tryWait"})
          /\ At({"upWait"})' = At({"upWait"})
          /\ At({"upWoken"})' = At({"upWoken"})
          /\ At(WriteStates)' = At(WriteStates)
        BY <1>1, <1>4, Zenon DEF IInv, TypeOK, At, In, WriteStates
    <2>2. At({"wrWait"})' # {} => readers' > 0 \/ At({"wrWoken"})' # {}
        BY <1>1, <1>4, <1>6 DEF IInv, TypeOK
    <2> QED
        BY <1>1, <2>1, <2>2, Zenon DEF IInv, NoLostWakeup
<1> QED
    BY <1>4, <1>7, <1>8, <1>9, Zenon DEF IInv

(* The end of the rsection: a thread that waits to upgrade is woken, the
   notifiers are, and the last reader wakes a writer. *)
LEMMA rSectionUnlockInv ==
    ASSUME IInv, NEW t \in Threads, rSectionUnlock(t)
    PROVE  IInv' /\ Wakes([pc EXCEPT ![t] = "out"], pc')
<1> DEFINE out == [pc EXCEPT ![t] = "out"]
<1>1. /\ rs_tid = t /\ rs_tid # None /\ write_tid = None /\ pc[t] = "rsection"
      /\ rs_tid' = None /\ list' = {} /\ setp' = {} /\ readers' = readers - 1
      /\ UNCHANGED <<write_tid, read_waiting, write_waiting, rsection_waiting, ops>>
    BY Facts, ThreadsAssumption, Zenon
    DEF IInv, BookkeepingExact, rSectionUnlock, notifyIntern, readerLeaves, counts
<1>2. out \in [Threads -> PCs]
    BY Facts, Zenon DEF PCs
<1>3. /\ Number(out, WriteStates) = write_waiting
      /\ Number(out, UpgradeStates) = rsection_waiting
    <2>1. /\ Changes(Number(pc, WriteStates), Number(out, WriteStates), pc[t], "out", WriteStates)
          /\ Changes(Number(pc, UpgradeStates), Number(out, UpgradeStates), pc[t], "out", UpgradeStates)
        BY Facts, NumberMove, Zenon DEF PCs
    <2> QED
        BY <1>1, <2>1, Facts, StateClasses, Zenon DEF Changes
<1>4. PICK st : /\ readerLeaves(st)
                /\ st \in IF rsection_waiting > 0
                          THEN Signalled(out, "upWait", "upWoken") ELSE {out}
    BY Zenon DEF rSectionUnlock
<1> HIDE DEF out
<1>5. /\ Wakes(out, st)
      /\ \A u \in Threads : st[u] # out[u] => out[u] = "upWait" /\ st[u] = "upWoken"
      /\ In(st, {"upWait"}) # {} => In(st, {"upWoken"}) # {}
    <2>1. CASE rsection_waiting > 0
        BY <1>2, <1>4, <2>1, upSignalled, Zenon
    <2>2. CASE ~(rsection_waiting > 0)
        <3>1. In(out, UpgradeStates) = {}
            BY <1>3, <2>2, CountZero DEF Number, IInv, TypeOK
        <3> QED
            BY <1>2, <1>4, <2>2, <3>1, Zenon DEF Wakes, In, UpgradeStates
    <2> QED
        BY <2>1, <2>2, Zenon
<1>6. st \in [Threads -> PCs] /\ Number(st, WriteStates) = write_waiting
    BY <1>2, <1>3, <1>5, WakesKeep, Zenon DEF Wakes, Number, Counted
<1>7. /\ Wakes(st, pc')
      /\ \A u \in Threads : pc'[u] # st[u] => st[u] = "wrWait" /\ pc'[u] = "wrWoken"
      /\ readers = 1 /\ At({"wrWait"})' # {} => At({"wrWoken"})' # {}
    BY <1>4, <1>6, Leaves, Zenon DEF IInv
<1>8. Wakes(out, pc')
    BY <1>5, <1>7, Zenon DEF Wakes
<1>9. Moves(t, "out")
    BY <1>8, Moved, Zenon DEF PCs, out
<1>10. /\ readers' = Number(pc', ReaderStates) /\ readers' \in Nat
       /\ read_waiting' = Number(pc', ReadStates)
       /\ write_waiting' = Number(pc', WriteStates)
       /\ rsection_waiting' = Number(pc', UpgradeStates)
    BY <1>1, <1>9, StateClasses, Zenon DEF Moves, Changes
<1>11. TypeOK'
    BY <1>1, <1>8, <1>10, Zenon DEF IInv, TypeOK, Wakes
<1>12. BookkeepingExact'
    <2>1. \A u \in Threads : pc'[u] # "writing" /\ pc'[u] # "rsection"
        BY <1>1, <1>5, <1>7, ThreadsAssumption, Zenon DEF out, IInv, TypeOK, BookkeepingExact
    <2> QED
        BY <1>1, <1>10, <2>1, ExactNext, ThreadsAssumption, Zenon
<1>13. NoLostWakeup'
    <2>1. At({"rdWait", "tryWait"})' = At({"rdWait", "tryWait"})
        BY <1>1, <1>5, <1>7, Zenon DEF IInv, TypeOK, At, In, out
    <2>2. At(WriteStates)' = At(WriteStates)
        BY <1>1, <1>5, <1>7, Zenon DEF IInv, TypeOK, At, In, out, WriteStates
    <2>3. At({"wrWait"})' # {} => readers' > 0 \/ At({"wrWoken"})' # {}
        BY <1>1, <1>7, <1>10 DEF IInv, TypeOK
    <2>4. At({"upWait"})' = In(st, {"upWait"}) /\ At({"upWoken"})' = In(st, {"upWoken"})
        BY <1>7, Zenon DEF At, In
    <2> QED
        BY <1>1, <1>5, <2>1, <2>2, <2>3, <2>4, Zenon DEF IInv, NoLostWakeup
<1> QED
    BY <1>8, <1>11, <1>12, <1>13, Zenon DEF IInv, out

LEMMA SpuriousWakeupInv ==
    ASSUME IInv, NEW t \in Threads, SpuriousWakeup(t)
    PROVE  IInv' /\ mode' = mode
<1>1. PICK w \in WakePairs : pc[t] = w[1] /\ pc' = [pc EXCEPT ![t] = w[2]]
    BY Zenon DEF SpuriousWakeup
<1>2. /\ UNCHANGED <<write_tid, readers, counts, rs_tid, list, setp, ops>>
      /\ pc \in [Threads -> PCs]
    BY Facts, Zenon DEF SpuriousWakeup
<1>3. w[2] \in Woken /\ w[2] \in PCs /\ w = <<w[1], w[2]>>
    BY DEF WakePairs, Woken, PCs
<1>4. Wakes(pc, pc')
    BY <1>1, <1>2, <1>3, Zenon DEF Wakes
<1>5. \A s \in Counted : In(pc', s) = In(pc, s)
    BY <1>2, <1>4, WakesKeep, Zenon
<1>6. /\ At(ReaderStates)' = At(ReaderStates) /\ At(ReadStates)' = At(ReadStates)
      /\ At(WriteStates)' = At(WriteStates) /\ At(UpgradeStates)' = At(UpgradeStates)
      /\ At({"notify"})' = At({"notify"})
    BY <1>5, Zenon DEF Counted, At
<1>7. TypeOK'
    BY <1>2, <1>4, Zenon DEF IInv, TypeOK, Wakes, counts
<1>8. \A u \in Threads : /\ pc'[u] = "writing" <=> pc[u] = "writing"
                         /\ pc'[u] = "rsection" <=> pc[u] = "rsection"
    BY <1>4, Zenon DEF Wakes, WakePairs
<1>9. BookkeepingExact'
    BY <1>2, <1>6, <1>8, Zenon DEF IInv, BookkeepingExact, counts
<1>10. \A u \in Threads : /\ pc'[u] \in Waiting => pc[u] = pc'[u]
                          /\ pc[u] \in Woken => pc'[u] = pc[u]
    BY <1>4, Zenon DEF Wakes, WakePairs, Waiting, Woken
<1>11. NoLostWakeup'
    <2>1. /\ At({"rdWait", "tryWait"})' \subseteq At({"rdWait", "tryWait"})
          /\ At({"wrWait"})' \subseteq At({"wrWait"})
          /\ At({"upWait"})' \subseteq At({"upWait"})
          /\ At({"wrWoken"}) \subseteq At({"wrWoken"})'
          /\ At({"upWoken"}) \subseteq At({"upWoken"})'
        BY <1>10, Zenon DEF At, In, Waiting, Woken
    <2> QED
        BY <1>2, <1>6, <2>1, Zenon DEF IInv, NoLostWakeup, counts
<1>12. \A u \in Threads : modeOf(pc'[u]) = modeOf(pc[u])
    BY <1>4, Zenon DEF Wakes, WakePairs, modeOf, UpgradeStates
<1> QED
    BY <1>7, <1>9, <1>11, <1>12, Zenon DEF IInv, mode

LEMMA StepInv == IInv /\ [Next]_vars => IInv'
<1> SUFFICES ASSUME IInv, [Next]_vars PROVE IInv'
    BY Zenon
<1>1. CASE UNCHANGED vars
    BY <1>1, Zenon DEF vars, IInv, TypeOK, BookkeepingExact, NoLostWakeup, At
<1>2. ASSUME NEW t \in Threads, Request(t) \/ Proceed(t) \/ SpuriousWakeup(t) PROVE IInv'
    BY <1>2, SpuriousWakeupInv, wrlockInv, rdlockInv, upgradeInv, tryInv, notifierWaitInv, unlockWriteInv,
       unlockReadInv, rSectionUnlockInv, Zenon DEF Request, Proceed
<1> QED
    BY <1>1, <1>2, Zenon DEF Next

-----------------------------------------------------------------------------
(* The theorems about the lock *)

LEMMA Invariant == Spec => []IInv
BY InitInv, StepInv, PTL DEF Spec

(* For any number of threads the members of the lock describe the threads, so
   that the assertions of wrlock(), unlock(), rSectionUnlock() and
   RNotifier::done() hold and every signal is sent by the right count. *)
THEOREM LockBookkeepingExact == Spec => []BookkeepingExact
<1>1. IInv => BookkeepingExact
    BY Zenon DEF IInv
<1> QED
    BY Invariant, <1>1, PTL

(* For any number of threads no reader, writer, upgrading thread or scan
   sleeps in the lock while nobody is left to wake it: unlock_signal(),
   unlock_read_signal(), rSectionUnlock() and notifyIntern() never lose a
   wakeup. *)
THEOREM LockNoLostWakeup == Spec => []NoLostWakeup
<1>1. IInv => NoLostWakeup
    BY Zenon DEF IInv
<1> QED
    BY Invariant, <1>1, PTL

-----------------------------------------------------------------------------
(* The lock implements ObjectLock *)

LEMMA ModeClasses ==
    /\ modeOf("writing") = "write" /\ modeOf("rsection") = "rsection"
    /\ \A x \in {"reading", "upWait", "upWoken"} : modeOf(x) = "read"
    /\ \A x \in {"out", "notify", "rdWait", "rdWoken", "tryWait", "tryWoken", "wrWait", "wrWoken"} :
          modeOf(x) = "out"
BY Zenon DEF modeOf, UpgradeStates

LEMMA ModeMoves ==
    ASSUME IInv, NEW t \in Threads, NEW x \in PCs, Wakes([pc EXCEPT ![t] = x], pc')
    PROVE  mode' = [mode EXCEPT ![t] = modeOf(x)] /\ mode[t] = modeOf(pc[t])
<1>1. \A u \in Threads : modeOf(pc'[u]) = modeOf([pc EXCEPT ![t] = x][u])
    BY ModeClasses, Zenon DEF Wakes, WakePairs
<1> QED
    BY <1>1, Facts, Zenon DEF mode

LEMMA ModeMovesAlone ==
    ASSUME IInv, NEW t \in Threads, NEW x \in PCs, pc' = [pc EXCEPT ![t] = x]
    PROVE  mode' = [mode EXCEPT ![t] = modeOf(x)] /\ mode[t] = modeOf(pc[t])
BY ModeMoves, NobodyWoken, Zenon

(* A step that leaves the thread's mode alone stutters. *)
LEMMA ModeStays ==
    ASSUME IInv, NEW t \in Threads, NEW x \in PCs, pc' = [pc EXCEPT ![t] = x],
           modeOf(x) = modeOf(pc[t])
    PROVE  mode' = mode
BY ModeMovesAlone DEF mode

(* What the members of the lock say of the modes. *)
LEMMA ModeFacts ==
    ASSUME IInv
    PROVE  /\ write_tid = None => \A u \in Threads : mode[u] # "write"
           /\ rs_tid = None => \A u \in Threads : mode[u] # "rsection"
           /\ readers = 0 => \A u \in Threads : mode[u] \notin {"read", "rsection"}
<1>1. \A u \in Threads : /\ mode[u] = modeOf(pc[u])
                         /\ mode[u] = "write" => pc[u] = "writing"
                         /\ mode[u] = "rsection" => pc[u] = "rsection"
                         /\ mode[u] = "read" => pc[u] \in ReaderStates
    BY Zenon DEF mode, modeOf, ReaderStates, UpgradeStates
<1>2. readers = 0 => \A u \in Threads : pc[u] \notin ReaderStates
    <2>1. readers = 0 => In(pc, ReaderStates) = {}
        BY Facts, CountZero, Zenon DEF Number
    <2> QED
        BY <2>1, Zenon DEF In
<1>3. "rsection" \in ReaderStates
    BY Zenon DEF ReaderStates
<1> QED
    BY <1>1, <1>2, <1>3, ThreadsAssumption, Zenon DEF IInv, BookkeepingExact

LEMMA LeaveStep ==
    ASSUME IInv, NEW t \in Threads, Wakes([pc EXCEPT ![t] = "out"], pc'),
           pc[t] \in {"writing", "reading", "rsection"}
    PROVE  Lock!Leave(t)
<1>1. mode' = [mode EXCEPT ![t] = "out"] /\ mode[t] \in {"read", "rsection", "write"}
    BY ModeMoves, ModeClasses DEF PCs
<1> QED
    BY <1>1, Zenon DEF Lock!Leave, Lock!Enter

LEMMA EnterStep ==
    ASSUME IInv, NEW t \in Threads,
           \/ wrlock(t) \/ wrlockWoken(t) \/ rdlock(t) \/ rdlockWoken(t)
           \/ upgradeReadToRSection(t) \/ upgradeWoken(t)
           \/ tryRSectionLockNotifyWaitRead(t) \/ tryWoken(t)
    PROVE  Lock!Next \/ mode' = mode
<1>1. CASE wrlock(t) \/ wrlockWoken(t)
    <2>1. modeOf(pc[t]) = "out"
        BY <1>1, ModeClasses, Zenon DEF wrlock, wrlockWoken, Start
    <2>2. CASE pc' = [pc EXCEPT ![t] = "wrWait"]
        BY <2>1, <2>2, ModeStays, ModeClasses, Zenon DEF PCs, Waiting
    <2>3. CASE readers = 0 /\ write_tid = None /\ pc' = [pc EXCEPT ![t] = "writing"]
        <3>1. mode' = [mode EXCEPT ![t] = "write"] /\ mode[t] = "out"
            <4>1. "writing" \in PCs
                BY Zenon DEF PCs
            <4>2. mode' = [mode EXCEPT ![t] = modeOf("writing")] /\ mode[t] = modeOf(pc[t])
                BY <2>3, <4>1, ModeMovesAlone, Zenon
            <4> QED
                BY <2>1, <4>2, ModeClasses, Zenon
        <3>2. \A u \in Threads : mode[u] \notin {"read", "rsection", "write"}
            BY <2>3, ModeFacts, Zenon
        <3> QED
            BY <3>1, <3>2, Zenon DEF Lock!Next, Lock!Write, Lock!Enter
    <2> QED
        BY <1>1, <2>2, <2>3, Zenon DEF wrlock, wrlockWoken, wrlockLoop
<1>2. CASE rdlock(t) \/ rdlockWoken(t)
    <2>1. modeOf(pc[t]) = "out"
        BY <1>2, ModeClasses, Zenon DEF rdlock, rdlockWoken, Start
    <2>2. CASE pc' = [pc EXCEPT ![t] = "rdWait"]
        BY <2>1, <2>2, ModeStays, ModeClasses, Zenon DEF PCs, Waiting
    <2>3. CASE write_tid = None /\ pc' = [pc EXCEPT ![t] = "reading"]
        <3>1. mode' = [mode EXCEPT ![t] = "read"] /\ mode[t] = "out"
            <4>1. "reading" \in PCs
                BY Zenon DEF PCs
            <4>2. mode' = [mode EXCEPT ![t] = modeOf("reading")] /\ mode[t] = modeOf(pc[t])
                BY <2>3, <4>1, ModeMovesAlone, Zenon
            <4> QED
                BY <2>1, <4>2, ModeClasses, Zenon
        <3> QED
            BY <2>3, <3>1, ModeFacts, Zenon DEF Lock!Next, Lock!Read, Lock!Enter
    <2> QED
        BY <1>2, <2>2, <2>3, Zenon DEF rdlock, rdlockWoken, rdlockLoop
<1>3. CASE upgradeReadToRSection(t) \/ upgradeWoken(t)
    <2>1. modeOf(pc[t]) = "read" /\ pc[t] \in ReaderStates
        BY <1>3, ModeClasses, StateClasses, Zenon DEF upgradeReadToRSection, upgradeWoken
    <2>2. CASE pc' = [pc EXCEPT ![t] = "upWait"]
        BY <2>1, <2>2, ModeStays, ModeClasses, Zenon DEF PCs, Waiting
    <2>3. CASE rs_tid = None /\ pc' = [pc EXCEPT ![t] = "rsection"]
        <3>1. mode' = [mode EXCEPT ![t] = "rsection"] /\ mode[t] = "read"
            <4>1. "rsection" \in PCs
                BY Zenon DEF PCs
            <4>2. mode' = [mode EXCEPT ![t] = modeOf("rsection")] /\ mode[t] = modeOf(pc[t])
                BY <2>3, <4>1, ModeMovesAlone, Zenon
            <4> QED
                BY <2>1, <4>2, ModeClasses, Zenon
        <3>2. write_tid = None
            <4>1. t \in In(pc, ReaderStates)
                BY <2>1, Zenon DEF In
            <4> QED
                BY <4>1, Facts, CountZero, Zenon DEF Number
        <3> QED
            BY <2>3, <3>1, <3>2, ModeFacts, Zenon DEF Lock!Next, Lock!RSection, Lock!Enter
    <2> QED
        BY <1>3, <2>2, <2>3, Zenon DEF upgradeReadToRSection, upgradeWoken, upgradeLoop
<1>4. CASE tryRSectionLockNotifyWaitRead(t) \/ tryWoken(t)
    <2>1. modeOf(pc[t]) = "out"
        BY <1>4, ModeClasses, Zenon DEF tryRSectionLockNotifyWaitRead, tryWoken, Start
    <2>2. CASE pc' = [pc EXCEPT ![t] = "tryWait"]
        BY <2>1, <2>2, ModeStays, ModeClasses, Zenon DEF PCs, Waiting
    <2>3. CASE pc' = [pc EXCEPT ![t] = "notify"]
        BY <2>1, <2>3, ModeStays, ModeClasses, Zenon DEF PCs
    <2>4. CASE write_tid = None /\ rs_tid = None /\ pc' = [pc EXCEPT ![t] = "rsection"]
        <3>1. mode' = [mode EXCEPT ![t] = "rsection"] /\ mode[t] = "out"
            <4>1. "rsection" \in PCs
                BY Zenon DEF PCs
            <4>2. mode' = [mode EXCEPT ![t] = modeOf("rsection")] /\ mode[t] = modeOf(pc[t])
                BY <2>4, <4>1, ModeMovesAlone, Zenon
            <4> QED
                BY <2>1, <4>2, ModeClasses, Zenon
        <3> QED
            BY <2>4, <3>1, ModeFacts, Zenon DEF Lock!Next, Lock!RSection, Lock!Enter
    <2> QED
        BY <1>4, <2>2, <2>3, <2>4, Zenon DEF tryRSectionLockNotifyWaitRead, tryWoken, tryLoop
<1> QED
    BY <1>1, <1>2, <1>3, <1>4, Zenon

LEMMA StepImplements == IInv /\ [Next]_vars => [Lock!Next]_mode
<1> SUFFICES ASSUME IInv, [Next]_vars PROVE Lock!Next \/ mode' = mode
    BY Zenon
<1>1. CASE UNCHANGED vars
    BY <1>1, Zenon DEF vars, mode
<1>2. ASSUME NEW t \in Threads, Request(t) \/ Proceed(t) \/ SpuriousWakeup(t)
      PROVE  Lock!Next \/ mode' = mode
    <2>1. CASE unlockWrite(t) \/ unlockRead(t) \/ rSectionUnlock(t)
        <3>1. Lock!Leave(t)
            BY <2>1, LeaveStep, unlockWriteInv, unlockReadInv, rSectionUnlockInv, Zenon
            DEF unlockWrite, unlockRead, rSectionUnlock
        <3> QED
            BY <3>1, Zenon DEF Lock!Next
    <2>2. CASE notifierWait(t)
        BY <2>2, ModeStays, ModeClasses, Zenon DEF notifierWait, PCs
    <2> QED
        BY <1>2, <2>1, <2>2, EnterStep, SpuriousWakeupInv, Zenon DEF Request, Proceed
<1> QED
    BY <1>1, <1>2, Zenon DEF Next

(* For any number of threads the lock made of a mutex, condition variables and
   notifiers is the lock ObjectLock describes, the one the collector of
   recursive references relies on: a writer is alone, at most one thread is in
   the rsection, and it is left together with the read lock. *)
THEOREM LockImplementsObjectLock == Spec => LockSpec
<1>1. Init => Lock!Init
    BY ModeClasses, Zenon DEF Init, Lock!Init, mode
<1> QED
    BY <1>1, Invariant, StepImplements, PTL DEF Spec, LockSpec, Lock!Spec

=============================================================================
