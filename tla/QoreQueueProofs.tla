-------------------------- MODULE QoreQueueProofs --------------------------
(***************************************************************************)
(* Proofs about the queue for any number of threads, any values, any       *)
(* maximum size and any bounds.                                            *)
(***************************************************************************)
EXTENDS QoreQueue, FiniteSetTheorems, TLAPS

---------------------------------------------------------------------------
(* A list has a length, which is zero only for the empty one. *)
LEMMA ListLength ==
    \A e \in Seq(Values) : Len(e) \in Nat /\ (e # <<>> => Len(e) \in Nat \ {0})
OBVIOUS

---------------------------------------------------------------------------
(* Counting threads by state. *)

LEMMA InFinite ==
    ASSUME NEW p, NEW S
    PROVE  /\ IsFiniteSet(In(p, S))
           /\ Cardinality(In(p, S)) \in 0 .. Cardinality(Threads)
<1>1. In(p, S) \subseteq Threads
    BY Zenon DEF In
<1>2. IsFiniteSet(Threads)
    BY ThreadsAssumption, Zenon
<1>3. IsFiniteSet(In(p, S)) /\ Cardinality(In(p, S)) <= Cardinality(Threads)
    BY <1>1, <1>2, FS_Subset, Zenon
<1>4. Cardinality(In(p, S)) \in Nat /\ Cardinality(Threads) \in Nat
    BY <1>2, <1>3, FS_CardinalityType, Zenon
<1> QED
    BY <1>3, <1>4

(* Only thread t changes its state from p to q. *)
Moves(p, q, t) == t \in Threads /\ \A u \in Threads \ {t} : q[u] = p[u]

(* How a step of one thread changes the number of threads in a set of states. *)
LEMMA CountMove ==
    ASSUME NEW p, NEW q, NEW t, NEW S, Moves(p, q, t)
    PROVE  /\ q[t] \in S /\ p[t] \notin S => Cardinality(In(q, S)) = Cardinality(In(p, S)) + 1
           /\ q[t] \notin S /\ p[t] \in S => Cardinality(In(q, S)) = Cardinality(In(p, S)) - 1
           /\ (q[t] \in S <=> p[t] \in S) => Cardinality(In(q, S)) = Cardinality(In(p, S))
<1>1. IsFiniteSet(In(p, S))
    BY InFinite, Zenon
<1>2. ASSUME q[t] \in S, p[t] \notin S
      PROVE  Cardinality(In(q, S)) = Cardinality(In(p, S)) + 1
    <2>1. In(q, S) = In(p, S) \cup {t} /\ t \notin In(p, S)
        BY <1>2 DEF In, Moves
    <2>2. Cardinality(In(p, S) \cup {t}) = Cardinality(In(p, S)) + 1
        BY <1>1, <2>1, FS_AddElement, Zenon
    <2> QED
        BY <2>1, <2>2, Zenon
<1>3. ASSUME q[t] \notin S, p[t] \in S
      PROVE  Cardinality(In(q, S)) = Cardinality(In(p, S)) - 1
    <2>1. In(q, S) = In(p, S) \ {t} /\ t \in In(p, S)
        BY <1>3 DEF In, Moves
    <2>2. Cardinality(In(p, S) \ {t}) = Cardinality(In(p, S)) - 1
        BY <1>1, <2>1, FS_RemoveElement, Zenon
    <2> QED
        BY <2>1, <2>2, Zenon
<1>4. ASSUME q[t] \in S <=> p[t] \in S
      PROVE  Cardinality(In(q, S)) = Cardinality(In(p, S))
    <2>1. In(q, S) = In(p, S)
        BY <1>4 DEF In, Moves
    <2> QED
        BY <2>1, Zenon
<1> QED
    BY <1>2, <1>3, <1>4, Zenon

(* A nonempty set of threads is counted. *)
LEMMA CountPositive ==
    ASSUME NEW p, NEW S, In(p, S) # {}
    PROVE  Cardinality(In(p, S)) > 0
<1>1. IsFiniteSet(In(p, S)) /\ Cardinality(In(p, S)) \in Nat
    BY InFinite, FS_CardinalityType, Zenon
<1> QED
    BY <1>1, FS_EmptySet

(* A larger set of states counts at least as many threads. *)
LEMMA CountMonotone ==
    ASSUME NEW p, NEW S, NEW T, S \subseteq T
    PROVE  Cardinality(In(p, S)) <= Cardinality(In(p, T))
<1>1. In(p, S) \subseteq In(p, T)
    BY Zenon DEF In
<1> QED
    BY <1>1, InFinite, FS_Subset, Zenon

---------------------------------------------------------------------------
(* The numbers the invariant talks about, for any assignment p of states to *)
(* threads.                                                                 *)

NumReaders(p) == Cardinality(In(p, ReadStates))
NumWriters(p) == Cardinality(In(p, WriteStates))
WokenStates   == {"read_woken"}
NumWoken(p)   == Cardinality(In(p, WokenStates))
Asleep(p)     == In(p, {"read_blocked"}) # {}

LEMMA NumTypes ==
    ASSUME NEW p
    PROVE  /\ NumReaders(p) \in 0 .. Cardinality(Threads)
           /\ NumWriters(p) \in 0 .. Cardinality(Threads)
           /\ NumWoken(p) \in 0 .. Cardinality(Threads)
           /\ Cardinality(Threads) \in Nat
           /\ Asleep(p) => NumReaders(p) > 0
<1>1. Asleep(p) => In(p, ReadStates) # {}
    BY Zenon DEF Asleep, In, ReadStates
<1>2. Cardinality(Threads) \in Nat
    BY ThreadsAssumption, FS_CardinalityType, Zenon
<1> QED
    BY <1>1, <1>2, InFinite, CountPositive, Zenon DEF NumReaders, NumWriters, NumWoken

(* The effect of the step of one thread on these numbers. *)
LEMMA MoveFacts ==
    ASSUME NEW p, NEW q, NEW t, Moves(p, q, t)
    PROVE  /\ q[t] \in ReadStates /\ p[t] \notin ReadStates => NumReaders(q) = NumReaders(p) + 1
           /\ q[t] \notin ReadStates /\ p[t] \in ReadStates => NumReaders(q) = NumReaders(p) - 1
           /\ (q[t] \in ReadStates <=> p[t] \in ReadStates) => NumReaders(q) = NumReaders(p)
           /\ q[t] \in WriteStates /\ p[t] \notin WriteStates => NumWriters(q) = NumWriters(p) + 1
           /\ q[t] \notin WriteStates /\ p[t] \in WriteStates => NumWriters(q) = NumWriters(p) - 1
           /\ (q[t] \in WriteStates <=> p[t] \in WriteStates) => NumWriters(q) = NumWriters(p)
           /\ q[t] = "read_woken" /\ p[t] # "read_woken" => NumWoken(q) = NumWoken(p) + 1
           /\ q[t] # "read_woken" /\ p[t] = "read_woken" => NumWoken(q) = NumWoken(p) - 1
           /\ (q[t] = "read_woken" <=> p[t] = "read_woken") => NumWoken(q) = NumWoken(p)
           /\ q[t] # "read_blocked" /\ Asleep(q) => Asleep(p)
<1>1. /\ q[t] = "read_woken" <=> q[t] \in WokenStates
      /\ p[t] = "read_woken" <=> p[t] \in WokenStates
    BY Zenon DEF WokenStates
<1>2. q[t] # "read_blocked" /\ Asleep(q) => Asleep(p)
    BY Zenon DEF Asleep, In, Moves
<1> HIDE DEF WokenStates
<1>3. /\ q[t] \in ReadStates /\ p[t] \notin ReadStates => NumReaders(q) = NumReaders(p) + 1
      /\ q[t] \notin ReadStates /\ p[t] \in ReadStates => NumReaders(q) = NumReaders(p) - 1
      /\ (q[t] \in ReadStates <=> p[t] \in ReadStates) => NumReaders(q) = NumReaders(p)
    BY CountMove DEF NumReaders
<1>4. /\ q[t] \in WriteStates /\ p[t] \notin WriteStates => NumWriters(q) = NumWriters(p) + 1
      /\ q[t] \notin WriteStates /\ p[t] \in WriteStates => NumWriters(q) = NumWriters(p) - 1
      /\ (q[t] \in WriteStates <=> p[t] \in WriteStates) => NumWriters(q) = NumWriters(p)
    BY CountMove DEF NumWriters
<1>5. /\ q[t] \in WokenStates /\ p[t] \notin WokenStates => NumWoken(q) = NumWoken(p) + 1
      /\ q[t] \notin WokenStates /\ p[t] \in WokenStates => NumWoken(q) = NumWoken(p) - 1
      /\ (q[t] \in WokenStates <=> p[t] \in WokenStates) => NumWoken(q) = NumWoken(p)
    BY CountMove DEF NumWoken
<1> QED
    BY <1>1, <1>2, <1>3, <1>4, <1>5, Zenon

(* No thread starts or stops being a waiting reader or writer. *)
SameKind(p, q) ==
    \A u \in Threads : (q[u] \in ReadStates <=> p[u] \in ReadStates)
                         /\ (q[u] \in WriteStates <=> p[u] \in WriteStates)

(* signal() on read_cond wakes a sleeping reader if one is counted. *)
LEMMA SignalReaderFacts ==
    ASSUME NEW p \in [Threads -> PCs], NEW w \in Int, NEW q \in SignalReader(p, w)
    PROVE  /\ q \in [Threads -> PCs]
           /\ SameKind(p, q)
           /\ NumReaders(q) = NumReaders(p) /\ NumWriters(q) = NumWriters(p)
           /\ NumWoken(q) >= NumWoken(p)
           /\ Asleep(q) => Asleep(p)
           /\ w > 0 /\ Asleep(p) => NumWoken(q) = NumWoken(p) + 1
<1>1. CASE q = p /\ ~(w > 0 /\ Asleep(p))
    BY <1>1, NumTypes DEF SameKind
<1>2. CASE \E u \in Threads : p[u] = "read_blocked" /\ q = [p EXCEPT ![u] = "read_woken"]
    <2>1. PICK u \in Threads : p[u] = "read_blocked" /\ q = [p EXCEPT ![u] = "read_woken"]
        BY <1>2, Zenon
    <2>2. Moves(p, q, u) /\ q[u] = "read_woken" /\ q \in [Threads -> PCs]
        BY <2>1, Zenon DEF Moves, PCs
    <2>3. /\ q[u] \in ReadStates /\ p[u] \in ReadStates
          /\ q[u] \notin WriteStates /\ p[u] \notin WriteStates
        BY <2>1, <2>2, Zenon DEF ReadStates, WriteStates
    <2>4. /\ NumReaders(q) = NumReaders(p) /\ NumWriters(q) = NumWriters(p)
          /\ NumWoken(q) = NumWoken(p) + 1
          /\ Asleep(q) => Asleep(p)
        BY <2>1, <2>2, <2>3, MoveFacts, Zenon
    <2>5. SameKind(p, q)
        BY <2>2, <2>3, Zenon DEF Moves, SameKind
    <2>6. NumWoken(q) >= NumWoken(p)
        BY <2>4, NumTypes
    <2> QED
        BY <2>2, <2>4, <2>5, <2>6, Zenon
<1> QED
    BY <1>1, <1>2, Zenon DEF SignalReader, Signal, Asleep, In

(* signal() on write_cond changes nothing for the readers. *)
LEMMA SignalWriterFacts ==
    ASSUME NEW p \in [Threads -> PCs], NEW w \in Int, NEW q \in SignalWriter(p, w)
    PROVE  /\ q \in [Threads -> PCs]
           /\ SameKind(p, q)
           /\ NumReaders(q) = NumReaders(p) /\ NumWriters(q) = NumWriters(p)
           /\ NumWoken(q) = NumWoken(p)
           /\ Asleep(q) => Asleep(p)
<1>1. CASE q = p
    BY <1>1, Zenon DEF SameKind
<1>2. CASE \E u \in Threads : p[u] = "write_blocked" /\ q = [p EXCEPT ![u] = "write_woken"]
    <2>1. PICK u \in Threads : p[u] = "write_blocked" /\ q = [p EXCEPT ![u] = "write_woken"]
        BY <1>2, Zenon
    <2>2. Moves(p, q, u) /\ q[u] = "write_woken" /\ q \in [Threads -> PCs]
        BY <2>1, Zenon DEF Moves, PCs
    <2>3. /\ q[u] \notin ReadStates /\ p[u] \notin ReadStates
          /\ q[u] \in WriteStates /\ p[u] \in WriteStates
        BY <2>1, <2>2, Zenon DEF ReadStates, WriteStates
    <2>4. /\ NumReaders(q) = NumReaders(p) /\ NumWriters(q) = NumWriters(p)
          /\ NumWoken(q) = NumWoken(p)
          /\ Asleep(q) => Asleep(p)
        BY <2>1, <2>2, <2>3, MoveFacts, Zenon
    <2>5. SameKind(p, q)
        BY <2>2, <2>3, Zenon DEF Moves, SameKind
    <2> QED
        BY <2>2, <2>4, <2>5, Zenon
<1> QED
    BY <1>1, <1>2, Zenon DEF SignalWriter, Signal

(* The same threads are counted when none changes kind. *)
LEMMA CountSame ==
    ASSUME NEW p, NEW q,
           SameKind(p, q)
    PROVE  NumReaders(q) = NumReaders(p) /\ NumWriters(q) = NumWriters(p)
<1>1. In(q, ReadStates) = In(p, ReadStates)
    BY Zenon DEF In, SameKind
<1>2. In(q, WriteStates) = In(p, WriteStates)
    BY Zenon DEF In, SameKind
<1> QED
    BY <1>1, <1>2, Zenon DEF NumReaders, NumWriters

(* broadcast() wakes the sleepers of one kind and keeps the counts. *)
LEMMA BroadcastFacts ==
    ASSUME NEW p \in [Threads -> PCs], NEW q,
           \/ q = Broadcast(p, "read_blocked", "read_woken")
           \/ q = Broadcast(p, "write_blocked", "write_woken")
    PROVE  /\ q \in [Threads -> PCs]
           /\ SameKind(p, q)
           /\ NumReaders(q) = NumReaders(p) /\ NumWriters(q) = NumWriters(p)
<1>1. q \in [Threads -> PCs]
    BY Zenon DEF Broadcast, PCs
<1>2. SameKind(p, q)
    BY Zenon DEF Broadcast, ReadStates, WriteStates, SameKind
<1> QED
    BY <1>1, <1>2, CountSame, Zenon
---------------------------------------------------------------------------
(* The inductive invariant.  The counters decide whether anybody is         *)
(* signalled, so that no wakeup is lost only because they are exact; a      *)
(* woken reader gives up its wakeup only when the queue is empty, which     *)
(* for an error or a deletion is part of LenIsLength.                       *)

Kinds(p, c) ==
    /\ p \in [Threads -> PCs]
    /\ c \in [Threads -> Calls \cup {NoCall}]
    /\ \A t \in Threads : (p[t] \in ReadStates <=> IsRead(c[t]))
                            /\ (p[t] \in WriteStates <=> IsWrite(c[t]))

Data ==
    /\ elems \in Seq(Values)
    /\ len \in Nat \cup {Queue_Deleted}
    /\ err \in BOOLEAN /\ desc \in BOOLEAN
    /\ scan_count \in Nat
    /\ scan_private_data \in Int

Counts ==
    /\ read_waiting = NumReaders(pc)
    /\ write_waiting = NumWriters(pc)
    /\ Asleep(pc) => Len(elems) <= NumWoken(pc)

QueueInv == Data /\ Kinds(pc, call) /\ LenIsLength /\ Counts

(* The invariant says what the checked properties say. *)
LEMMA QueueInvImplies ==
    QueueInv => TypeOK /\ LenIsLength /\ WaitingCounts /\ NoLostReaderWakeup
<1> SUFFICES ASSUME QueueInv
             PROVE  TypeOK /\ LenIsLength /\ WaitingCounts /\ NoLostReaderWakeup
    BY Zenon
<1>1. WaitingCounts
    BY Zenon DEF QueueInv, Counts, WaitingCounts, InState, NumReaders, NumWriters
<1>2. NoLostReaderWakeup
    BY Zenon DEF QueueInv, Counts, NoLostReaderWakeup, InState, NumWoken, WokenStates, Asleep
<1>3. read_waiting \in 0 .. Cardinality(Threads) /\ write_waiting \in 0 .. Cardinality(Threads)
    BY NumTypes, Zenon DEF QueueInv, Counts
<1>4. TypeOK
    BY <1>3, Zenon DEF QueueInv, TypeOK, Data, Kinds
<1> QED
    BY <1>1, <1>2, <1>4, Zenon DEF QueueInv

(* A thread leaves the wait, or was not in it. *)
LEMMA LeaveFacts ==
    ASSUME NEW p, NEW q, NEW t, Moves(p, q, t), q[t] \in {"idle", "inc", "dec"}
    PROVE  /\ NumReaders(q) = IF p[t] \in ReadStates THEN NumReaders(p) - 1 ELSE NumReaders(p)
           /\ NumWriters(q) = IF p[t] \in WriteStates THEN NumWriters(p) - 1 ELSE NumWriters(p)
           /\ NumWoken(q) = IF p[t] = "read_woken" THEN NumWoken(p) - 1 ELSE NumWoken(p)
           /\ Asleep(q) => Asleep(p)
<1>1. /\ q[t] \notin ReadStates /\ q[t] \notin WriteStates
      /\ q[t] # "read_woken" /\ q[t] # "read_blocked"
    BY Zenon DEF ReadStates, WriteStates
<1> QED
    BY <1>1, MoveFacts, Zenon

(* The calls of the threads stay consistent with their states. *)
LEMMA LeaveKinds ==
    ASSUME NEW p, NEW c, NEW q, NEW d, NEW t, Kinds(p, c), Moves(p, q, t),
           q \in [Threads -> PCs], q[t] \in {"idle", "inc", "dec"},
           d = [c EXCEPT ![t] = NoCall]
    PROVE  Kinds(q, d)
<1>1. /\ q[t] \notin ReadStates /\ q[t] \notin WriteStates
      /\ ~IsRead(NoCall) /\ ~IsWrite(NoCall)
    BY Zenon DEF ReadStates, WriteStates, IsRead, IsWrite, NoCall
<1>2. d \in [Threads -> Calls \cup {NoCall}] /\ d[t] = NoCall
    BY Zenon DEF Kinds, Moves
<1>3. \A u \in Threads \ {t} : d[u] = c[u] /\ q[u] = p[u]
    BY Zenon DEF Kinds, Moves
<1> QED
    BY <1>1, <1>2, <1>3, Zenon DEF Kinds

LEMMA SameKinds ==
    ASSUME NEW p, NEW c, NEW q, Kinds(p, c), SameKind(p, q), q \in [Threads -> PCs]
    PROVE  Kinds(q, c)
BY Zenon DEF Kinds, SameKind

(* What kind of call a thread is in. *)
LEMMA CallKinds ==
    ASSUME NEW c \in Calls
    PROVE  /\ IsRead(c) <=> c \in Reads
           /\ IsWrite(c) <=> c \in Writes
           /\ IsRead(c) <=> ~IsWrite(c)
BY Zenon DEF Calls, Reads, Writes, IsRead, IsWrite
---------------------------------------------------------------------------
(* The parts the actions are made of.  The counters without thread t: *)

WithoutReader(t) == IF pc[t] \in ReadStates THEN NumReaders(pc) - 1 ELSE NumReaders(pc)
WithoutWriter(t) == IF pc[t] \in WriteStates THEN NumWriters(pc) - 1 ELSE NumWriters(pc)

(* A call that ends without touching the queue keeps the invariant when it  *)
(* uncounts the thread, and gives up a wakeup only on an empty queue.       *)
LEMMA ReturnInv ==
    ASSUME QueueInv, NEW t \in Threads, NEW r, Return(t, r),
           read_waiting' = WithoutReader(t), write_waiting' = WithoutWriter(t),
           pc[t] = "read_woken" => elems = <<>>
    PROVE  QueueInv'
<1>1. Moves(pc, pc', t) /\ pc'[t] = "idle" /\ pc' \in [Threads -> PCs]
    BY Zenon DEF QueueInv, Kinds, Return, Moves, PCs
<1>2. Kinds(pc, call)' 
    BY <1>1, LeaveKinds, Zenon DEF QueueInv, Return
<1>3. (Data /\ LenIsLength)'
    BY Zenon DEF QueueInv, Data, LenIsLength, Return, queue
<1>4. Counts'
    <2>1. /\ read_waiting' = NumReaders(pc') /\ write_waiting' = NumWriters(pc')
          /\ NumWoken(pc') = IF pc[t] = "read_woken" THEN NumWoken(pc) - 1 ELSE NumWoken(pc)
          /\ Asleep(pc') => Asleep(pc)
        BY <1>1, LeaveFacts, Zenon DEF WithoutReader, WithoutWriter
    <2>2. elems' = elems
        BY Zenon DEF Return, queue
    <2>3. Asleep(pc') => Len(elems') <= NumWoken(pc')
        <3>1. CASE pc[t] = "read_woken"
            <4>1. Len(elems') = 0
                BY <3>1, <2>2, Zenon
            <4> QED
                BY <4>1, NumTypes
        <3>2. CASE pc[t] # "read_woken"
            BY <3>2, <2>1, <2>2, Zenon DEF QueueInv, Counts
        <3> QED
            BY <3>1, <3>2, Zenon
    <2> QED
        BY <2>1, <2>3, Zenon DEF Counts
<1> QED
    BY <1>2, <1>3, <1>4, Zenon DEF QueueInv

(* A thread goes to sleep only when it has nothing to take. *)
LEMMA BlockInv ==
    ASSUME QueueInv, NEW t \in Threads, NEW c \in Calls, Block(t, c), MustWait(c),
           pc[t] \in WriteStates => IsWrite(c), pc[t] \in ReadStates => IsRead(c),
           read_waiting' = IF IsRead(c) THEN WithoutReader(t) + 1 ELSE WithoutReader(t),
           write_waiting' = IF IsRead(c) THEN WithoutWriter(t) ELSE WithoutWriter(t) + 1
    PROVE  QueueInv'
<1>1. Moves(pc, pc', t) /\ pc' \in [Threads -> PCs]
    BY Zenon DEF QueueInv, Kinds, Block, Moves, PCs
<1>2. pc'[t] = IF IsRead(c) THEN "read_blocked" ELSE "write_blocked"
    BY Zenon DEF QueueInv, Kinds, Block
<1>3. /\ pc'[t] \in ReadStates <=> IsRead(c)
      /\ pc'[t] \in WriteStates <=> IsWrite(c)
    BY <1>2, CallKinds, Zenon DEF ReadStates, WriteStates
<1>4. Kinds(pc, call)'
    <2>1. call' \in [Threads -> Calls \cup {NoCall}] /\ call'[t] = c
        BY Zenon DEF QueueInv, Kinds, Block
    <2>2. \A u \in Threads \ {t} : call'[u] = call[u] /\ pc'[u] = pc[u]
        BY <1>1, Zenon DEF QueueInv, Kinds, Block, Moves
    <2> QED
        BY <1>1, <1>3, <2>1, <2>2, Zenon DEF QueueInv, Kinds
<1>5. (Data /\ LenIsLength)'
    BY Zenon DEF QueueInv, Data, LenIsLength, Block, queue
<1>6. elems' = elems
    BY Zenon DEF Block, queue
<1>7. CASE IsRead(c)
    <2>1. pc'[t] \in ReadStates /\ pc'[t] \notin WriteStates /\ pc[t] \notin WriteStates
        BY <1>3, <1>7, CallKinds, Zenon
    <2>2. NumWriters(pc') = NumWriters(pc) /\ NumReaders(pc') = WithoutReader(t) + 1
        BY <1>1, <2>1, MoveFacts, NumTypes DEF WithoutReader
    <2>3. Len(elems') = 0
        BY <1>6, <1>7 DEF MustWait
    <2>4. Counts'
        BY <1>7, <2>1, <2>2, <2>3, NumTypes DEF Counts, WithoutWriter
    <2> QED
        BY <1>4, <1>5, <2>4, Zenon DEF QueueInv
<1>8. CASE ~IsRead(c)
    <2>1. /\ pc'[t] \notin ReadStates /\ pc'[t] \in WriteStates /\ pc[t] \notin ReadStates
          /\ pc'[t] # "read_woken" /\ pc'[t] # "read_blocked" /\ pc[t] # "read_woken"
        BY <1>2, <1>3, <1>8, CallKinds, Zenon DEF ReadStates
    <2>2. /\ NumReaders(pc') = NumReaders(pc) /\ NumWriters(pc') = WithoutWriter(t) + 1
          /\ NumWoken(pc') = NumWoken(pc)
          /\ Asleep(pc') => Asleep(pc)
        BY <1>1, <2>1, MoveFacts, NumTypes DEF WithoutWriter
    <2>4. Counts'
        BY <1>6, <1>8, <2>1, <2>2, Zenon DEF QueueInv, Counts, WithoutReader
    <2> QED
        BY <1>4, <1>5, <2>4, Zenon DEF QueueInv
<1> QED
    BY <1>7, <1>8, Zenon
(* A reader that takes an element uses up one wakeup at most. *)
LEMMA ReadInv ==
    ASSUME QueueInv, NEW t \in Threads, NEW c \in Reads, Read(t, c, WithoutWriter(t)),
           elems # <<>>,
           read_waiting' = WithoutReader(t), write_waiting' = WithoutWriter(t)
    PROVE  QueueInv'
<1> DEFINE p == [pc EXCEPT ![t] = "idle"]
<1>1. Moves(pc, p, t) /\ p[t] = "idle" /\ p \in [Threads -> PCs] /\ pc' \in SignalWriter(p, WithoutWriter(t))
    BY Zenon DEF QueueInv, Kinds, Read, Moves, PCs
<1> HIDE DEF p
<1>2. WithoutWriter(t) \in Int /\ WithoutReader(t) \in Int
    BY NumTypes DEF WithoutWriter, WithoutReader
<1>3. /\ pc' \in [Threads -> PCs] /\ SameKind(p, pc')
      /\ NumReaders(pc') = NumReaders(p) /\ NumWriters(pc') = NumWriters(p)
      /\ NumWoken(pc') = NumWoken(p)
      /\ Asleep(pc') => Asleep(p)
    BY <1>1, <1>2, SignalWriterFacts, Zenon
<1>4. Kinds(pc, call)'
    <2>1. Kinds(p, call')
        BY <1>1, LeaveKinds, Zenon DEF QueueInv, Read
    <2> QED
        BY <1>3, <2>1, SameKinds, Zenon
<1>5. len = Len(elems) /\ Len(elems) \in Nat \ {0} /\ ~err
    BY ListLength, Zenon DEF QueueInv, LenIsLength, Data
<1>6. elems' \in Seq(Values) /\ Len(elems') = Len(elems) - 1
    BY <1>5 DEF QueueInv, Data, Read
<1>7. (Data /\ LenIsLength)'
    BY <1>5, <1>6, MaxAssumption DEF QueueInv, Data, LenIsLength, Read, Queue_Deleted
<1>8. Counts'
    <2>1. /\ read_waiting' = NumReaders(pc') /\ write_waiting' = NumWriters(pc')
          /\ NumWoken(pc') = IF pc[t] = "read_woken" THEN NumWoken(pc) - 1 ELSE NumWoken(pc)
          /\ Asleep(pc') => Asleep(pc)
        BY <1>1, <1>3, LeaveFacts, Zenon DEF WithoutReader, WithoutWriter
    <2> QED
        BY <1>5, <1>6, <2>1, NumTypes DEF QueueInv, Counts
<1> QED
    BY <1>4, <1>7, <1>8, Zenon DEF QueueInv

(* A writer that adds an element wakes a reader if one sleeps. *)
LEMMA WriteInv ==
    ASSUME QueueInv, NEW t \in Threads, NEW c \in Writes, Write(t, c, WithoutReader(t)),
           len # Queue_Deleted, ~err, ~MustWait(c), pc[t] \notin ReadStates,
           read_waiting' = WithoutReader(t), write_waiting' = WithoutWriter(t)
    PROVE  QueueInv'
<1> DEFINE x == IF c.val \in Scannable /\ scan_count = 0 THEN "inc" ELSE "idle"
           p == [pc EXCEPT ![t] = x]
<1>1. Moves(pc, p, t) /\ p[t] \in {"idle", "inc", "dec"} /\ p \in [Threads -> PCs]
    BY Zenon DEF QueueInv, Kinds, Moves, PCs
<1>a. pc' \in SignalReader(p, WithoutReader(t))
    BY Zenon DEF Write
<1> HIDE DEF p, x
<1>2. WithoutWriter(t) \in Int /\ WithoutReader(t) \in Int
    BY NumTypes DEF WithoutWriter, WithoutReader
<1>3. /\ pc' \in [Threads -> PCs] /\ SameKind(p, pc')
      /\ NumReaders(pc') = NumReaders(p) /\ NumWriters(pc') = NumWriters(p)
      /\ Asleep(pc') => Asleep(p)
      /\ WithoutReader(t) > 0 /\ Asleep(p) => NumWoken(pc') = NumWoken(p) + 1
    BY <1>1, <1>a, <1>2, SignalReaderFacts, Zenon
<1>4. Kinds(pc, call)'
    <2>1. Kinds(p, call')
        BY <1>1, LeaveKinds, Zenon DEF QueueInv, Write
    <2> QED
        BY <1>3, <2>1, SameKinds, Zenon
<1>5. c.val \in Values /\ ~IsRead(c) /\ len = Len(elems) /\ len \in Nat
    BY Zenon DEF QueueInv, LenIsLength, Data, Writes, IsRead
<1>6. elems' \in Seq(Values) /\ Len(elems') = Len(elems) + 1
    BY <1>5 DEF QueueInv, Data, Write
<1>7. (Data /\ LenIsLength)'
    BY <1>5, <1>6, MaxAssumption DEF QueueInv, Data, LenIsLength, Write, MustWait, Queue_Deleted
<1>8. Counts'
    <2>1. pc[t] # "read_woken"
        BY Zenon DEF ReadStates
    <2>2. /\ NumReaders(p) = WithoutReader(t) /\ NumWriters(p) = WithoutWriter(t)
          /\ NumWoken(p) = NumWoken(pc)
          /\ Asleep(p) => Asleep(pc)
        BY <1>1, <2>1, LeaveFacts, Zenon DEF WithoutReader, WithoutWriter
    <2>3. Asleep(p) => WithoutReader(t) > 0
        BY <2>2, NumTypes, Zenon
    <2> QED
        BY <1>3, <1>5, <1>6, <2>2, <2>3, NumTypes DEF QueueInv, Counts
<1> QED
    BY <1>4, <1>7, <1>8, Zenon DEF QueueInv

(* The wait loop, entered by a call or again after a wait. *)
LEMMA WaitLoopInv ==
    ASSUME QueueInv, NEW t \in Threads, NEW c \in Calls,
           pc[t] \in WriteStates => IsWrite(c), pc[t] \in ReadStates => IsRead(c),
           len # Queue_Deleted, WaitLoop(t, c, WithoutReader(t), WithoutWriter(t))
    PROVE  QueueInv'
<1> DEFINE rw == WithoutReader(t)
           ww == WithoutWriter(t)
<1>1. CASE /\ err
           /\ Return(t, Failed("error"))
           /\ read_waiting' = rw /\ write_waiting' = ww
    BY <1>1, ReturnInv, Zenon DEF QueueInv, LenIsLength
<1>2. CASE /\ MustWait(c)
           /\ Return(t, Failed("timeout"))
           /\ read_waiting' = rw /\ write_waiting' = ww
    <2>1. pc[t] = "read_woken" => elems = <<>>
        BY <1>2, Zenon DEF ReadStates, MustWait
    <2> QED
        BY <1>2, <2>1, ReturnInv, Zenon
<1>3. CASE /\ MustWait(c)
           /\ Block(t, c)
           /\ read_waiting' = IF IsRead(c) THEN rw + 1 ELSE rw
           /\ write_waiting' = IF IsRead(c) THEN ww ELSE ww + 1
    BY <1>3, BlockInv, Zenon
<1>4. CASE /\ ~err /\ ~MustWait(c)
           /\ IF IsRead(c) THEN Read(t, c, ww) ELSE Write(t, c, rw)
           /\ read_waiting' = rw /\ write_waiting' = ww
    <2>1. CASE IsRead(c)
        <3>1. c \in Reads /\ elems # <<>>
            BY <1>4, <2>1, CallKinds, Zenon DEF MustWait
        <3> QED
            BY <1>4, <2>1, <3>1, ReadInv, Zenon
    <2>2. CASE ~IsRead(c)
        <3>1. c \in Writes /\ pc[t] \notin ReadStates
            BY <2>2, CallKinds, Zenon
        <3> QED
            BY <1>4, <2>2, <3>1, WriteInv, Zenon
    <2> QED
        BY <2>1, <2>2, Zenon
<1> QED
    BY <1>1, <1>2, <1>3, <1>4, Zenon DEF WaitLoop

---------------------------------------------------------------------------
(* The actions. *)

(* A blocked thread leaves the condition variable without a signal: an      *)
(* unwoken reader less, so that no wakeup is missing.                       *)
LEMMA LeaveCondInv ==
    ASSUME QueueInv, NEW t \in Threads, TimeOut(t) \/ SpuriousWakeup(t)
    PROVE  QueueInv'
<1>1. Moves(pc, pc', t) /\ pc' \in [Threads -> PCs]
    BY Zenon DEF QueueInv, Kinds, TimeOut, SpuriousWakeup, Moves, PCs
<1>2. \/ pc[t] = "read_blocked" /\ pc'[t] \in {"read_timedout", "read_woken"}
      \/ pc[t] = "write_blocked" /\ pc'[t] \in {"write_timedout", "write_woken"}
    BY Zenon DEF QueueInv, Kinds, TimeOut, SpuriousWakeup
<1>3. /\ pc'[t] \in ReadStates <=> pc[t] \in ReadStates
      /\ pc'[t] \in WriteStates <=> pc[t] \in WriteStates
    BY <1>2, Zenon DEF ReadStates, WriteStates
<1>4. UNCHANGED <<queue, waiting, scan_private_data, call>>
    BY Zenon DEF TimeOut, SpuriousWakeup
<1>5. Kinds(pc, call)'
    <2>1. SameKind(pc, pc')
        BY <1>1, <1>3, Zenon DEF Moves, SameKind
    <2>2. Kinds(pc', call)
        BY <1>1, <2>1, SameKinds, Zenon DEF QueueInv
    <2> QED
        BY <1>4, <2>2, Zenon
<1>6. (Data /\ LenIsLength)'
    BY <1>4, Zenon DEF QueueInv, Data, LenIsLength, queue
<1>7. Counts'
    <2>1. /\ NumReaders(pc') = NumReaders(pc) /\ NumWriters(pc') = NumWriters(pc)
          /\ NumWoken(pc') \in {NumWoken(pc), NumWoken(pc) + 1}
          /\ Asleep(pc') => Asleep(pc)
        BY <1>1, <1>2, <1>3, MoveFacts, Zenon
    <2>2. Len(elems) \in Nat
        BY DEF QueueInv, Data
    <2> QED
        BY <1>4, <2>1, <2>2, NumTypes DEF QueueInv, Counts, queue, waiting
<1> QED
    BY <1>5, <1>6, <1>7, Zenon DEF QueueInv
(* A call begins: the thread is not counted yet. *)
LEMMA EnterInv ==
    ASSUME QueueInv, NEW t \in Threads, NEW c \in Calls, Enter(t, c)
    PROVE  QueueInv'
<1>1. pc[t] \notin ReadStates /\ pc[t] \notin WriteStates /\ pc[t] # "read_woken"
    BY Zenon DEF Enter, ReadStates, WriteStates
<1>2. read_waiting = WithoutReader(t) /\ write_waiting = WithoutWriter(t)
    BY <1>1, Zenon DEF QueueInv, Counts, WithoutReader, WithoutWriter
<1>3. CASE Return(t, Failed(CheckWriteIntern(c))) /\ UNCHANGED waiting
    BY <1>1, <1>2, <1>3, ReturnInv, Zenon DEF waiting
<1>4. CASE CheckWriteIntern(c) = "ok" /\ WaitLoop(t, c, read_waiting, write_waiting)
    <2>1. len # Queue_Deleted
        BY <1>4, Zenon DEF CheckWriteIntern
    <2> QED
        BY <1>1, <1>2, <1>4, <2>1, WaitLoopInv, Zenon
<1> QED
    BY <1>3, <1>4, Zenon DEF Enter

(* What a thread that was counted knows when it has the mutex again. *)
LEMMA BackFromWait ==
    ASSUME QueueInv, NEW t \in Threads, pc[t] \in ReadStates \cup WriteStates
    PROVE  /\ call[t] \in Calls
           /\ pc[t] \in ReadStates <=> IsRead(call[t])
           /\ pc[t] \in WriteStates <=> IsWrite(call[t])
           /\ WithoutReader(t) = IF IsRead(call[t]) THEN read_waiting - 1 ELSE read_waiting
           /\ WithoutWriter(t) = IF IsRead(call[t]) THEN write_waiting ELSE write_waiting - 1
<1>1. ~IsRead(NoCall) /\ ~IsWrite(NoCall)
    BY Zenon DEF IsRead, IsWrite, NoCall
<1>2. /\ pc[t] \in ReadStates <=> IsRead(call[t])
      /\ pc[t] \in WriteStates <=> IsWrite(call[t])
      /\ call[t] \in Calls
    BY <1>1, Zenon DEF QueueInv, Kinds
<1>3. IsRead(call[t]) <=> ~IsWrite(call[t])
    BY <1>2, CallKinds, Zenon
<1> QED
    BY <1>2, <1>3, Zenon DEF QueueInv, Counts, WithoutReader, WithoutWriter

(* A thread woken by a signal, or for no reason, goes on. *)
LEMMA ResumeInv ==
    ASSUME QueueInv, NEW t \in Threads, Resume(t)
    PROVE  QueueInv'
<1>1. pc[t] \in ReadStates \cup WriteStates
    BY Zenon DEF Resume, ReadStates, WriteStates
<1>2. /\ call[t] \in Calls
      /\ pc[t] \in ReadStates => IsRead(call[t])
      /\ pc[t] \in WriteStates => IsWrite(call[t])
    BY <1>1, BackFromWait, Zenon
<1>3. CASE /\ len = Queue_Deleted
           /\ Return(t, Failed("deleted"))
           /\ read_waiting' = WithoutReader(t) /\ write_waiting' = WithoutWriter(t)
    BY <1>3, ReturnInv, Zenon DEF QueueInv, LenIsLength
<1>4. CASE /\ len # Queue_Deleted
           /\ WaitLoop(t, call[t], WithoutReader(t), WithoutWriter(t))
    BY <1>2, <1>4, WaitLoopInv, Zenon
<1> QED
    BY <1>1, <1>3, <1>4, BackFromWait, Zenon DEF Resume

LEMMA ResumeTimedOutInv ==
    ASSUME QueueInv, NEW t \in Threads, ResumeTimedOut(t)
    PROVE  QueueInv'
<1>1. pc[t] \in ReadStates \cup WriteStates /\ pc[t] # "read_woken"
    BY Zenon DEF ResumeTimedOut, ReadStates, WriteStates
<1>2. read_waiting' = WithoutReader(t) /\ write_waiting' = WithoutWriter(t)
    BY <1>1, BackFromWait, Zenon DEF ResumeTimedOut
<1> QED
    BY <1>1, <1>2, ReturnInv, Zenon DEF ResumeTimedOut

(* An event pushed by the system wakes a reader like any other element. *)
LEMMA PushAndTakeRefInv ==
    ASSUME QueueInv, NEW t \in Threads, NEW v \in Plain, PushAndTakeRef(t, v)
    PROVE  QueueInv'
<1>0. call' = call /\ read_waiting' = read_waiting /\ write_waiting' = write_waiting
      /\ scan_private_data' = scan_private_data
    BY Zenon DEF PushAndTakeRef, waiting
<1>1. CASE UNCHANGED <<queue, pc>>
    BY <1>0, <1>1, Zenon DEF QueueInv, Data, LenIsLength, Counts, queue
<1>2. CASE /\ len # Queue_Deleted /\ ~err
           /\ elems' = Append(elems, v)
           /\ len' = len + 1
           /\ pc' \in SignalReader(pc, read_waiting)
           /\ UNCHANGED <<err, desc, scan_count>>
    <2>1. read_waiting \in Int /\ pc \in [Threads -> PCs]
        BY NumTypes DEF QueueInv, Counts, Kinds
    <2>2. /\ pc' \in [Threads -> PCs] /\ SameKind(pc, pc')
          /\ NumReaders(pc') = NumReaders(pc) /\ NumWriters(pc') = NumWriters(pc)
          /\ Asleep(pc') => Asleep(pc)
          /\ read_waiting > 0 /\ Asleep(pc) => NumWoken(pc') = NumWoken(pc) + 1
        BY <1>2, <2>1, SignalReaderFacts, Zenon
    <2>3. Kinds(pc, call)'
        BY <1>0, <2>2, SameKinds, Zenon DEF QueueInv
    <2>4. v \in Values /\ max = -1 /\ Len(elems') = Len(elems) + 1 /\ Len(elems) \in Nat
        BY <1>2 DEF PushAndTakeRef, Values, QueueInv, Data
    <2>5. (Data /\ LenIsLength)'
        BY <1>0, <1>2, <2>4 DEF QueueInv, Data, LenIsLength, Queue_Deleted
    <2>6. Counts'
        BY <1>0, <2>2, <2>4, NumTypes DEF QueueInv, Counts
    <2> QED
        BY <2>3, <2>5, <2>6, Zenon DEF QueueInv
<1> QED
    BY <1>1, <1>2, Zenon DEF PushAndTakeRef
(* A thread outside of the wait changes its state. *)
LEMMA OutsideMove ==
    ASSUME NEW p, NEW c, NEW q, NEW t, Kinds(p, c), Moves(p, q, t), q \in [Threads -> PCs],
           p[t] \in {"idle", "inc", "dec"}, q[t] \in {"idle", "inc", "dec"}
    PROVE  /\ Kinds(q, c)
           /\ NumReaders(q) = NumReaders(p) /\ NumWriters(q) = NumWriters(p)
           /\ NumWoken(q) = NumWoken(p)
           /\ Asleep(q) => Asleep(p)
<1>1. /\ p[t] \notin ReadStates /\ p[t] \notin WriteStates /\ p[t] # "read_woken"
      /\ q[t] \notin ReadStates /\ q[t] \notin WriteStates
    BY Zenon DEF ReadStates, WriteStates
<1>2. SameKind(p, q)
    BY <1>1, Zenon DEF SameKind, Moves
<1>3. Kinds(q, c)
    BY <1>2, SameKinds, Zenon
<1> QED
    BY <1>1, <1>3, LeaveFacts, Zenon

(* Emptying the queue leaves nothing to wake a reader for. *)
LEMMA EmptiedCounts ==
    ASSUME elems' = <<>>, read_waiting' = NumReaders(pc'), write_waiting' = NumWriters(pc')
    PROVE  Counts'
<1>1. Len(elems') = 0
    BY Zenon
<1> QED
    BY <1>1, NumTypes DEF Counts

(* Where the thread is after clear() and setError(). *)
LEMMA AfterClearFacts ==
    ASSUME QueueInv, NEW t \in Threads, pc[t] = "idle"
    PROVE  /\ AfterClear(t) \in [Threads -> PCs]
           /\ Kinds(AfterClear(t), call)
           /\ NumReaders(AfterClear(t)) = read_waiting
           /\ NumWriters(AfterClear(t)) = write_waiting
<1> DEFINE q == AfterClear(t)
<1>1. Moves(pc, q, t) /\ q \in [Threads -> PCs] /\ q[t] \in {"idle", "inc", "dec"}
    BY Zenon DEF QueueInv, Kinds, AfterClear, Moves, PCs
<1> HIDE DEF q
<1>2. Kinds(q, call) /\ NumReaders(q) = NumReaders(pc) /\ NumWriters(q) = NumWriters(pc)
    BY <1>1, OutsideMove, Zenon DEF QueueInv
<1> QED
    BY <1>1, <1>2, Zenon DEF QueueInv, Counts, q

LEMMA ClearInv ==
    ASSUME QueueInv, NEW t \in Threads, Clear(t)
    PROVE  QueueInv'
<1>0. call' = call /\ read_waiting' = read_waiting /\ write_waiting' = write_waiting
      /\ scan_private_data' = scan_private_data
    BY Zenon DEF Clear, waiting
<1>1. CASE UNCHANGED <<queue, pc>>
    BY <1>0, <1>1, Zenon DEF QueueInv, Data, LenIsLength, Counts, queue
<1>2. CASE /\ ClearIntern
           /\ len' = 0
           /\ pc' \in SignalWriter(AfterClear(t), write_waiting)
           /\ UNCHANGED <<err, desc>>
    <2>1. write_waiting \in Int
        BY NumTypes DEF QueueInv, Counts
    <2>2. /\ pc' \in [Threads -> PCs] /\ SameKind(AfterClear(t), pc')
          /\ NumReaders(pc') = read_waiting /\ NumWriters(pc') = write_waiting
        BY <1>2, <2>1, AfterClearFacts, SignalWriterFacts, Zenon DEF Clear
    <2>3. Kinds(pc, call)'
        BY <1>0, <2>2, AfterClearFacts, SameKinds, Zenon DEF Clear
    <2>4. (Data /\ LenIsLength)'
        BY <1>0, <1>2, MaxAssumption DEF QueueInv, Data, LenIsLength, ClearIntern, Queue_Deleted
    <2>5. Counts'
        BY <1>0, <1>2, <2>2, EmptiedCounts, Zenon DEF ClearIntern
    <2> QED
        BY <2>3, <2>4, <2>5, Zenon DEF QueueInv
<1> QED
    BY <1>1, <1>2, Zenon DEF Clear

(* Waking everybody keeps the counts: the threads leave one by one. *)
LEMMA WakeAll ==
    ASSUME NEW p \in [Threads -> PCs], NEW q, NEW r, Kinds(p, call),
           q = p \/ q = Broadcast(p, "read_blocked", "read_woken"),
           r = q \/ r = Broadcast(q, "write_blocked", "write_woken")
    PROVE  Kinds(r, call) /\ NumReaders(r) = NumReaders(p) /\ NumWriters(r) = NumWriters(p)
<1>1. /\ q \in [Threads -> PCs] /\ Kinds(q, call)
      /\ NumReaders(q) = NumReaders(p) /\ NumWriters(q) = NumWriters(p)
    BY BroadcastFacts, SameKinds, Zenon
<1>2. Kinds(r, call) /\ NumReaders(r) = NumReaders(q) /\ NumWriters(r) = NumWriters(q)
    BY <1>1, BroadcastFacts, SameKinds, Zenon
<1> QED
    BY <1>1, <1>2, Zenon

LEMMA SetErrorInv ==
    ASSUME QueueInv, NEW t \in Threads, SetError(t)
    PROVE  QueueInv'
<1> DEFINE q == IF read_waiting > 0
                THEN Broadcast(AfterClear(t), "read_blocked", "read_woken")
                ELSE AfterClear(t)
<1>1. pc' = q \/ pc' = Broadcast(q, "write_blocked", "write_woken")
    BY Zenon DEF SetError
<1>2. q = AfterClear(t) \/ q = Broadcast(AfterClear(t), "read_blocked", "read_woken")
    BY Zenon
<1> HIDE DEF q
<1>3. Kinds(pc', call) /\ NumReaders(pc') = read_waiting /\ NumWriters(pc') = write_waiting
    BY <1>1, <1>2, AfterClearFacts, WakeAll DEF SetError
<1>4. Counts'
    BY <1>3, EmptiedCounts, Zenon DEF SetError, ClearIntern, waiting
<1>5. (Data /\ LenIsLength)'
    BY MaxAssumption DEF QueueInv, Data, LenIsLength, SetError, ClearIntern, Queue_Deleted
<1> QED
    BY <1>3, <1>4, <1>5, Zenon DEF QueueInv, SetError
(* clear_error() touches nothing the invariant counts. *)
LEMMA ClearErrorInv ==
    ASSUME QueueInv, NEW t \in Threads, ClearError(t)
    PROVE  QueueInv'
BY Zenon DEF QueueInv, Data, LenIsLength, Counts, ClearError, waiting

LEMMA DestructorInv ==
    ASSUME QueueInv, NEW t \in Threads, Destructor(t)
    PROVE  QueueInv'
<1> DEFINE q == IF read_waiting > 0 THEN Broadcast(pc, "read_blocked", "read_woken") ELSE pc
<1>1. pc' = q \/ pc' = Broadcast(q, "write_blocked", "write_woken")
    BY Zenon DEF Destructor
<1>2. q = pc \/ q = Broadcast(pc, "read_blocked", "read_woken")
    BY Zenon
<1> HIDE DEF q
<1>3. Kinds(pc', call) /\ NumReaders(pc') = NumReaders(pc) /\ NumWriters(pc') = NumWriters(pc)
    BY <1>1, <1>2, WakeAll, Zenon DEF QueueInv, Kinds
<1>4. Counts'
    BY <1>3, EmptiedCounts, Zenon DEF QueueInv, Counts, Destructor, ClearIntern, waiting
<1>5. (Data /\ LenIsLength)'
    <2>1. elems' = <<>> /\ len' = -1 /\ err' = err /\ desc' = FALSE /\ scan_count' = 0
          /\ scan_private_data' = scan_private_data
        BY Zenon DEF Destructor, ClearIntern, Queue_Deleted
    <2>2. err \in BOOLEAN /\ scan_private_data \in Int
        BY Zenon DEF QueueInv, Data
    <2>3. desc' \in BOOLEAN
        BY <2>1, Zenon
    <2>4. Data'
        BY <2>1, <2>2, <2>3 DEF Data, Queue_Deleted
    <2>5. LenIsLength'
        BY <2>1, MaxAssumption DEF LenIsLength, Queue_Deleted
    <2> QED
        BY <2>4, <2>5, Zenon
<1> QED
    BY <1>3, <1>4, <1>5, Zenon DEF QueueInv, Destructor

(* The scan counters are outside of the invariant. *)
LEMMA ScanPrivateDataInv ==
    ASSUME QueueInv, NEW t \in Threads, IncScanPrivateData(t) \/ DecScanPrivateData(t)
    PROVE  QueueInv'
<1>1. /\ Moves(pc, pc', t) /\ pc' \in [Threads -> PCs]
      /\ pc[t] \in {"idle", "inc", "dec"} /\ pc'[t] \in {"idle", "inc", "dec"}
    BY Zenon DEF QueueInv, Kinds, IncScanPrivateData, DecScanPrivateData, Moves, PCs
<1>2. UNCHANGED <<queue, waiting, call>>
    BY Zenon DEF IncScanPrivateData, DecScanPrivateData
<1>3. /\ Kinds(pc', call)
      /\ NumReaders(pc') = NumReaders(pc) /\ NumWriters(pc') = NumWriters(pc)
      /\ NumWoken(pc') = NumWoken(pc)
      /\ Asleep(pc') => Asleep(pc)
    BY <1>1, OutsideMove, Zenon DEF QueueInv
<1>4. Counts'
    BY <1>2, <1>3, Zenon DEF QueueInv, Counts, queue, waiting
<1>5. (Data /\ LenIsLength)'
    BY <1>2 DEF QueueInv, Data, LenIsLength, IncScanPrivateData, DecScanPrivateData, queue
<1> QED
    BY <1>2, <1>3, <1>4, <1>5, Zenon DEF QueueInv

(* Initially no thread waits and the queue is empty. *)
LEMMA InitInv == Init => QueueInv
<1> SUFFICES ASSUME Init PROVE QueueInv
    BY Zenon
<1>1. In(pc, ReadStates) = {} /\ In(pc, WriteStates) = {} /\ ~Asleep(pc)
    BY Zenon DEF Init, In, ReadStates, WriteStates, Asleep
<1>2. NumReaders(pc) = 0 /\ NumWriters(pc) = 0
    BY <1>1, FS_EmptySet, Zenon DEF NumReaders, NumWriters
<1>3. Counts
    BY <1>1, <1>2, Zenon DEF Init, Counts
<1>4. Kinds(pc, call)
    BY Zenon DEF Init, Kinds, PCs, ReadStates, WriteStates, IsRead, IsWrite, NoCall
<1>5. Data /\ LenIsLength
    <2>1. err \in BOOLEAN /\ desc \in BOOLEAN
        BY Zenon DEF Init
    <2>2. Data
        BY <2>1 DEF Init, Data, Queue_Deleted
    <2>3. LenIsLength
        BY MaxAssumption DEF Init, LenIsLength, Queue_Deleted
    <2> QED
        BY <2>2, <2>3, Zenon
<1> QED
    BY <1>3, <1>4, <1>5, Zenon DEF QueueInv

---------------------------------------------------------------------------
(* QueueInv holds in every state of a queue shared by any number of         *)
(* threads: no interleaving of push(), insert(), shift(), pop(), clear(),   *)
(* setError(), clearError(), events, timeouts, spurious wakeups and         *)
(* deletion breaks it.                                                      *)
THEOREM QueueInvariance == Spec => []QueueInv
<1>1. QueueInv /\ [Next]_vars => QueueInv'
    <2> SUFFICES ASSUME QueueInv, [Next]_vars PROVE QueueInv'
        BY Zenon
    <2>1. CASE UNCHANGED vars
        BY <2>1, Zenon DEF QueueInv, Data, Counts, LenIsLength, vars, queue, waiting
    <2>2. ASSUME NEW t \in Threads, NEW c \in Calls, Enter(t, c) PROVE QueueInv'
        BY <2>2, EnterInv, Zenon
    <2>3. ASSUME NEW t \in Threads, NEW v \in Plain, PushAndTakeRef(t, v) PROVE QueueInv'
        BY <2>3, PushAndTakeRefInv, Zenon
    <2>4. ASSUME NEW t \in Threads, TimeOut(t) \/ SpuriousWakeup(t) PROVE QueueInv'
        BY <2>4, LeaveCondInv, Zenon
    <2>5. ASSUME NEW t \in Threads, Resume(t) PROVE QueueInv'
        BY <2>5, ResumeInv, Zenon
    <2>6. ASSUME NEW t \in Threads, ResumeTimedOut(t) PROVE QueueInv'
        BY <2>6, ResumeTimedOutInv, Zenon
    <2>7. ASSUME NEW t \in Threads, Clear(t) PROVE QueueInv'
        BY <2>7, ClearInv, Zenon
    <2>8. ASSUME NEW t \in Threads, SetError(t) PROVE QueueInv'
        BY <2>8, SetErrorInv, Zenon
    <2>9. ASSUME NEW t \in Threads, ClearError(t) PROVE QueueInv'
        BY <2>9, ClearErrorInv, Zenon
    <2>10. ASSUME NEW t \in Threads, Destructor(t) PROVE QueueInv'
        BY <2>10, DestructorInv, Zenon
    <2>11. ASSUME NEW t \in Threads, IncScanPrivateData(t) \/ DecScanPrivateData(t)
           PROVE  QueueInv'
        BY <2>11, ScanPrivateDataInv, Zenon
    <2> QED
        BY <2>1, <2>2, <2>3, <2>4, <2>5, <2>6, <2>7, <2>8, <2>9, <2>10, <2>11, Zenon DEF Next
<1> QED
    BY <1>1, InitInv, PTL DEF Spec
(* The state of a qore_queue_private and of its threads always has its type. *)
THEOREM QueueTypeCorrect == Spec => []TypeOK
BY QueueInvariance, QueueInvImplies, PTL

(* len always counts the nodes, and a bounded queue never exceeds its       *)
(* maximum size, however many writers waitWriteIntern() lets go at once.    *)
THEOREM QueueBounded == Spec => []LenIsLength
BY QueueInvariance, QueueInvImplies, PTL

(* read_waiting and write_waiting are exact after every mixture of signals, *)
(* timeouts, errors and deletion.                                           *)
THEOREM QueueWaitingExact == Spec => []WaitingCounts
BY QueueInvariance, QueueInvImplies, PTL

(* push(), insert() and pushAndTakeRef() never lose the wakeup of a reader. *)
THEOREM QueueNoLostReaderWakeup == Spec => []NoLostReaderWakeup
BY QueueInvariance, QueueInvImplies, PTL

---------------------------------------------------------------------------
(* Scan accounting.  A call to inc- or decScanPrivateData() that is on its  *)
(* way counts as done, and what is then in scan_private_data is fixed by    *)
(* scan_count.                                                              *)

IncStates == {"inc"}
DecStates == {"dec"}
Net(p)    == Cardinality(In(p, IncStates)) - Cardinality(In(p, DecStates))
Due(x)    == IF x = "inc" THEN 1 ELSE IF x = "dec" THEN -1 ELSE 0

(* No thread starts or stops being about to count. *)
SameDue(p, q) ==
    \A u \in Threads : (q[u] \in IncStates <=> p[u] \in IncStates)
                         /\ (q[u] \in DecStates <=> p[u] \in DecStates)

LEMMA NetType ==
    ASSUME NEW p
    PROVE  Net(p) \in Int
<1>1. Cardinality(Threads) \in Nat
    BY ThreadsAssumption, FS_CardinalityType, Zenon
<1>2. /\ Cardinality(In(p, IncStates)) \in 0 .. Cardinality(Threads)
      /\ Cardinality(In(p, DecStates)) \in 0 .. Cardinality(Threads)
    BY InFinite, Zenon
<1> QED
    BY <1>1, <1>2 DEF Net

LEMMA NetSame ==
    ASSUME NEW p, NEW q, SameDue(p, q)
    PROVE  Net(q) = Net(p)
<1>1. In(q, IncStates) = In(p, IncStates)
    BY Zenon DEF In, SameDue
<1>2. In(q, DecStates) = In(p, DecStates)
    BY Zenon DEF In, SameDue
<1> QED
    BY <1>1, <1>2, Zenon DEF Net

(* The step of one thread changes the balance by what it takes upon itself. *)
LEMMA NetMove ==
    ASSUME NEW p, NEW q, NEW t, Moves(p, q, t)
    PROVE  Net(q) = Net(p) + Due(q[t]) - Due(p[t])
<1> DEFINE ip == Cardinality(In(p, IncStates))
           iq == Cardinality(In(q, IncStates))
           dp == Cardinality(In(p, DecStates))
           dq == Cardinality(In(q, DecStates))
<1>1. Cardinality(Threads) \in Nat
    BY ThreadsAssumption, FS_CardinalityType, Zenon
<1>2. /\ ip \in 0 .. Cardinality(Threads) /\ iq \in 0 .. Cardinality(Threads)
      /\ dp \in 0 .. Cardinality(Threads) /\ dq \in 0 .. Cardinality(Threads)
    BY InFinite, Zenon
<1>3. /\ q[t] \in IncStates /\ p[t] \notin IncStates => iq = ip + 1
      /\ q[t] \notin IncStates /\ p[t] \in IncStates => iq = ip - 1
      /\ (q[t] \in IncStates <=> p[t] \in IncStates) => iq = ip
    BY CountMove
<1>4. /\ q[t] \in DecStates /\ p[t] \notin DecStates => dq = dp + 1
      /\ q[t] \notin DecStates /\ p[t] \in DecStates => dq = dp - 1
      /\ (q[t] \in DecStates <=> p[t] \in DecStates) => dq = dp
    BY CountMove
<1>5. Net(p) = ip - dp /\ Net(q) = iq - dq
    BY Zenon DEF Net
<1> HIDE DEF ip, iq, dp, dq
<1>6. /\ ip \in Int /\ iq \in Int /\ dp \in Int /\ dq \in Int
    BY <1>1, <1>2
<1> QED
    BY <1>3, <1>4, <1>5, <1>6 DEF IncStates, DecStates, Due

(* Nobody is woken into, or out of, the scan accounting. *)
LEMMA WakeDue ==
    ASSUME NEW p \in [Threads -> PCs], NEW w, NEW q,
           \/ q = p
           \/ q \in SignalReader(p, w)
           \/ q \in SignalWriter(p, w)
           \/ q = Broadcast(p, "read_blocked", "read_woken")
           \/ q = Broadcast(p, "write_blocked", "write_woken")
    PROVE  SameDue(p, q) /\ q \in [Threads -> PCs]
<1>1. CASE q = p
    BY <1>1, Zenon DEF SameDue
<1>2. CASE \E u \in Threads : p[u] = "read_blocked" /\ q = [p EXCEPT ![u] = "read_woken"]
    BY <1>2, Zenon DEF SameDue, IncStates, DecStates, PCs
<1>3. CASE \E u \in Threads : p[u] = "write_blocked" /\ q = [p EXCEPT ![u] = "write_woken"]
    BY <1>3, Zenon DEF SameDue, IncStates, DecStates, PCs
<1>4. CASE q = Broadcast(p, "read_blocked", "read_woken")
    BY <1>4, Zenon DEF SameDue, IncStates, DecStates, PCs, Broadcast
<1>5. CASE q = Broadcast(p, "write_blocked", "write_woken")
    BY <1>5, Zenon DEF SameDue, IncStates, DecStates, PCs, Broadcast
<1> QED
    BY <1>1, <1>2, <1>3, <1>4, <1>5, Zenon DEF SignalReader, SignalWriter, Signal

(* A thread that owes nothing goes to state x, and others may be woken. *)
LEMMA NetStep ==
    ASSUME NEW t \in Threads, NEW x \in PCs, NEW q, pc \in [Threads -> PCs],
           pc[t] \notin {"inc", "dec"}, SameDue([pc EXCEPT ![t] = x], q)
    PROVE  Net(q) = Net(pc) + Due(x)
<1> DEFINE p == [pc EXCEPT ![t] = x]
<1>1. Moves(pc, p, t) /\ p[t] = x
    BY Zenon DEF Moves
<1>2. Net(q) = Net(p)
    BY NetSame, Zenon
<1> HIDE DEF p
<1>3. Net(p) = Net(pc) + Due(x) - Due(pc[t])
    BY <1>1, NetMove, Zenon
<1>4. Due(pc[t]) = 0 /\ Due(x) \in Int
    BY DEF Due
<1> QED
    BY <1>2, <1>3, <1>4, NetType

(* Whether a list holds a value that needs a scan. *)
Holds(e) == \E i \in 1 .. Len(e) : e[i] \in Scannable

LEMMA HoldsFacts ==
    ASSUME NEW e \in Seq(Values), NEW v \in Values
    PROVE  /\ Holds(Append(e, v)) => Holds(e) \/ v \in Scannable
           /\ Holds(<<v>> \o e) => Holds(e) \/ v \in Scannable
           /\ e # <<>> => /\ Holds(Tail(e)) => Holds(e)
                          /\ Holds(SubSeq(e, 1, Len(e) - 1)) => Holds(e)
           /\ ~Holds(<<>>)
<1>1. Holds(Append(e, v)) => Holds(e) \/ v \in Scannable
    BY DEF Holds
<1>2. Holds(<<v>> \o e) => Holds(e) \/ v \in Scannable
    <2> SUFFICES ASSUME NEW i \in 1 .. Len(<<v>> \o e), (<<v>> \o e)[i] \in Scannable
                 PROVE  Holds(e) \/ v \in Scannable
        BY DEF Holds
    <2>1. Len(<<v>> \o e) = Len(e) + 1 /\ Len(e) \in Nat
        OBVIOUS
    <2>2. CASE i = 1
        BY <2>2
    <2>3. CASE i # 1
        <3>1. i - 1 \in 1 .. Len(e) /\ (<<v>> \o e)[i] = e[i - 1]
            BY <2>1, <2>3
        <3> QED
            BY <3>1 DEF Holds
    <2> QED
        BY <2>2, <2>3
<1>3. ASSUME e # <<>> PROVE Holds(Tail(e)) => Holds(e)
    <2> SUFFICES ASSUME NEW i \in 1 .. Len(Tail(e)), Tail(e)[i] \in Scannable
                 PROVE  Holds(e)
        BY DEF Holds
    <2>1. Len(Tail(e)) = Len(e) - 1 /\ Len(e) \in Nat
        BY <1>3
    <2>2. i + 1 \in 1 .. Len(e) /\ Tail(e)[i] = e[i + 1]
        BY <1>3, <2>1
    <2> QED
        BY <2>2 DEF Holds
<1>4. ASSUME e # <<>> PROVE Holds(SubSeq(e, 1, Len(e) - 1)) => Holds(e)
    <2> DEFINE f == SubSeq(e, 1, Len(e) - 1)
    <2>1. Len(e) \in Nat /\ Len(e) >= 1
        BY <1>4, ListLength
    <2>2. Len(f) = Len(e) - 1 /\ \A i \in 1 .. Len(e) - 1 : f[i] = e[i]
        <3>1. Len(f) = Len(e) - 1
            BY <2>1
        <3>2. ASSUME NEW i \in 1 .. Len(e) - 1 PROVE f[i] = e[i]
            BY <2>1, <3>2
        <3> QED
            BY <3>1, <3>2, Zenon
    <2> HIDE DEF f
    <2>3. Holds(f) => Holds(e)
        BY <2>1, <2>2 DEF Holds
    <2> QED
        BY <2>3 DEF f
<1>5. ~Holds(<<>>)
    BY DEF Holds
<1> QED
    BY <1>1, <1>2, <1>3, <1>4, <1>5, Zenon

(* What ScanBalance says, with the names of this section. *)
Scanned ==
    len # Queue_Deleted =>
        /\ scan_private_data + Net(pc) = IF scan_count > 0 THEN 1 ELSE 0
        /\ Holds(elems) => scan_count > 0

LEMMA ScannedIsScanBalance == QueueInv => (Scanned <=> ScanBalance)
<1> SUFFICES ASSUME QueueInv PROVE Scanned <=> ScanBalance
    BY Zenon
<1> DEFINE i == Cardinality(In(pc, IncStates))
           d == Cardinality(In(pc, DecStates))
<1>1. i \in Int /\ d \in Int /\ scan_private_data \in Int
    <2>1. Cardinality(Threads) \in Nat
        BY ThreadsAssumption, FS_CardinalityType, Zenon
    <2>2. i \in 0 .. Cardinality(Threads) /\ d \in 0 .. Cardinality(Threads)
        BY InFinite, Zenon
    <2> HIDE DEF i, d
    <2> QED
        BY <2>1, <2>2 DEF QueueInv, Data
<1>2. Cardinality(InState({"inc"})) = i /\ Cardinality(InState({"dec"})) = d /\ Net(pc) = i - d
    BY Zenon DEF InState, IncStates, DecStates, Net
<1>3. Holds(elems) <=> \E k \in 1 .. Len(elems) : elems[k] \in Scannable
    BY Zenon DEF Holds
<1> HIDE DEF i, d
<1>4. scan_private_data + i - d = scan_private_data + Net(pc)
    BY <1>1, <1>2
<1> QED
    BY <1>2, <1>3, <1>4, Zenon DEF Scanned, ScanBalance

(* A step that counts no scan. *)
LEMMA ScanKept ==
    ASSUME QueueInv, Scanned, NEW t \in Threads, NEW x \in PCs \ {"inc", "dec"},
           pc[t] \notin {"inc", "dec"}, SameDue([pc EXCEPT ![t] = x], pc'),
           scan_count' = scan_count, scan_private_data' = scan_private_data,
           len' # Queue_Deleted => len # Queue_Deleted,
           Holds(elems') => Holds(elems)
    PROVE  Scanned'
<1>1. Net(pc') = Net(pc) + Due(x) /\ Due(x) = 0
    <2>1. pc \in [Threads -> PCs] /\ x \in PCs
        BY Zenon DEF QueueInv, Kinds
    <2>2. Net(pc') = Net(pc) + Due(x)
        BY <2>1, NetStep, Zenon
    <2>3. Due(x) = 0
        BY Zenon DEF Due
    <2> QED
        BY <2>2, <2>3, Zenon
<1>2. Net(pc') = Net(pc)
    BY <1>1, NetType
<1> QED
    BY <1>2, Zenon DEF Scanned

(* The thread stays where it is. *)
LEMMA ScanStays ==
    ASSUME QueueInv, Scanned, SameDue(pc, pc'),
           scan_count' = scan_count, scan_private_data' = scan_private_data,
           len' # Queue_Deleted => len # Queue_Deleted,
           Holds(elems') => Holds(elems)
    PROVE  Scanned'
<1>1. Net(pc') = Net(pc)
    BY NetSame, Zenon
<1> QED
    BY <1>1, Zenon DEF Scanned

(* shift() and pop() leave scan_count alone and only remove values. *)
LEMMA ReadScan ==
    ASSUME QueueInv, Scanned, NEW t \in Threads, NEW c, NEW ww, Read(t, c, ww),
           elems # <<>>, pc[t] \notin {"inc", "dec"}
    PROVE  Scanned'
<1>1. [pc EXCEPT ![t] = "idle"] \in [Threads -> PCs] /\ "idle" \in PCs \ {"inc", "dec"}
    BY Zenon DEF QueueInv, Kinds, PCs
<1>2. SameDue([pc EXCEPT ![t] = "idle"], pc')
    BY <1>1, WakeDue, Zenon DEF Read
<1>3. elems \in Seq(Values) /\ elems # <<>> /\ len # Queue_Deleted
    BY Zenon DEF QueueInv, Data, LenIsLength
<1>4. \E v : v \in Values
    BY <1>3
<1>5. Holds(elems') => Holds(elems)
    BY <1>3, <1>4, HoldsFacts, Zenon DEF Read
<1> QED
    BY <1>1, <1>2, <1>3, <1>5, ScanKept, Zenon DEF Read

(* push() and insert(): the first scannable value makes the thread owe an   *)
(* increment, the others only count.                                        *)
LEMMA WriteScan ==
    ASSUME QueueInv, Scanned, NEW t \in Threads, NEW c \in Writes, NEW rw, Write(t, c, rw),
           len # Queue_Deleted, pc[t] \notin {"inc", "dec"}
    PROVE  Scanned'
<1> DEFINE x == IF c.val \in Scannable /\ scan_count = 0 THEN "inc" ELSE "idle"
           p == [pc EXCEPT ![t] = x]
<1>1. x \in PCs /\ pc \in [Threads -> PCs] /\ p \in [Threads -> PCs]
    BY Zenon DEF QueueInv, Kinds, PCs
<1>2. SameDue(p, pc')
    BY <1>1, WakeDue, Zenon DEF Write
<1>3. Net(pc') = Net(pc) + Due(x)
    BY <1>1, <1>2, NetStep, Zenon
<1>4. Due(x) = IF c.val \in Scannable /\ scan_count = 0 THEN 1 ELSE 0
    BY Zenon DEF Due
<1> HIDE DEF x, p
<1>5. c.val \in Values /\ elems \in Seq(Values)
    BY Zenon DEF Writes, QueueInv, Data
<1>6. Holds(elems') => Holds(elems) \/ c.val \in Scannable
    BY <1>5, HoldsFacts, Zenon DEF Write
<1>7. scan_count' = IF c.val \in Scannable THEN scan_count + 1 ELSE scan_count
    BY Zenon DEF Write
<1>8. /\ scan_private_data + Net(pc) = IF scan_count > 0 THEN 1 ELSE 0
      /\ Holds(elems) => scan_count > 0
      /\ scan_private_data' = scan_private_data
      /\ scan_private_data \in Int /\ scan_count \in Nat
    BY Zenon DEF Scanned, Write, QueueInv, Data
<1>9. scan_private_data' + Net(pc') = IF scan_count' > 0 THEN 1 ELSE 0
    BY <1>3, <1>4, <1>7, <1>8, NetType
<1>10. Holds(elems') => scan_count' > 0
    BY <1>6, <1>7, <1>8
<1> QED
    BY <1>9, <1>10, Zenon DEF Scanned

(* clear() and setError() empty the list and undo the count. *)
LEMMA EmptiedScan ==
    ASSUME QueueInv, Scanned, NEW t \in Threads, pc[t] = "idle", len # Queue_Deleted,
           elems' = <<>>, scan_count' = 0, scan_private_data' = scan_private_data,
           SameDue(AfterClear(t), pc')
    PROVE  Scanned'
<1> DEFINE x == IF scan_count # 0 THEN "dec" ELSE "idle"
<1>1. x \in PCs /\ pc \in [Threads -> PCs] /\ AfterClear(t) = [pc EXCEPT ![t] = x]
    BY Zenon DEF QueueInv, Kinds, PCs, AfterClear
<1>2. pc[t] \notin {"inc", "dec"}
    BY Zenon
<1>3. Net(pc') = Net(pc) + Due(x)
    BY <1>1, <1>2, NetStep, Zenon
<1>4. Due(x) = IF scan_count # 0 THEN -1 ELSE 0
    BY Zenon DEF Due
<1> HIDE DEF x
<1>5. /\ scan_private_data + Net(pc) = IF scan_count > 0 THEN 1 ELSE 0
      /\ scan_private_data \in Int /\ scan_count \in Nat
    BY Zenon DEF Scanned, QueueInv, Data
<1>6. scan_private_data' + Net(pc') = IF scan_count' > 0 THEN 1 ELSE 0
    BY <1>3, <1>4, <1>5, NetType
<1>7. ~Holds(elems')
    BY DEF Holds
<1> QED
    BY <1>6, <1>7, Zenon DEF Scanned

(* The calls and the wait loop. *)
LEMMA ReturnScan ==
    ASSUME QueueInv, Scanned, NEW t \in Threads, NEW c, NEW r, Return(t, r) \/ Block(t, c),
           pc[t] \notin {"inc", "dec"}
    PROVE  Scanned'
<1>1. PICK x \in PCs \ {"inc", "dec"} : pc' = [pc EXCEPT ![t] = x]
    BY Zenon DEF Return, Block, PCs
<1>2. pc' \in [Threads -> PCs] /\ SameDue([pc EXCEPT ![t] = x], pc')
    BY <1>1, Zenon DEF QueueInv, Kinds, SameDue
<1>3. UNCHANGED <<queue, scan_private_data>>
    BY Zenon DEF Return, Block
<1> QED
    BY <1>2, <1>3, ScanKept, Zenon DEF queue

LEMMA WaitLoopScan ==
    ASSUME QueueInv, Scanned, NEW t \in Threads, NEW c \in Calls, NEW rw, NEW ww,
           WaitLoop(t, c, rw, ww), len # Queue_Deleted, pc[t] \notin {"inc", "dec"}
    PROVE  Scanned'
<1>1. CASE (\E r : Return(t, r)) \/ Block(t, c)
    BY <1>1, ReturnScan, Zenon
<1>2. CASE ~MustWait(c) /\ IsRead(c) /\ Read(t, c, ww)
    BY <1>2, ReadScan, Zenon DEF MustWait
<1>3. CASE ~IsRead(c) /\ Write(t, c, rw)
    BY <1>3, CallKinds, WriteScan, Zenon
<1> QED
    BY <1>1, <1>2, <1>3, Zenon DEF WaitLoop

LEMMA CallScan ==
    ASSUME QueueInv, Scanned, NEW t \in Threads,
           \/ \E c \in Calls : Enter(t, c)
           \/ Resume(t)
           \/ ResumeTimedOut(t)
    PROVE  Scanned'
<1>1. ASSUME NEW c \in Calls, Enter(t, c) PROVE Scanned'
    <2>1. pc[t] \notin {"inc", "dec"}
        BY <1>1, Zenon DEF Enter
    <2>2. CASE \E r : Return(t, r)
        BY <2>1, <2>2, ReturnScan, Zenon
    <2>3. CASE CheckWriteIntern(c) = "ok" /\ WaitLoop(t, c, read_waiting, write_waiting)
        <3>1. len # Queue_Deleted
            BY <2>3, Zenon DEF CheckWriteIntern
        <3> QED
            BY <2>1, <2>3, <3>1, WaitLoopScan, Zenon
    <2> QED
        BY <1>1, <2>2, <2>3, Zenon DEF Enter
<1>2. CASE Resume(t)
    <2>1. pc[t] \notin {"inc", "dec"} /\ pc[t] \in ReadStates \cup WriteStates
        BY <1>2, Zenon DEF Resume, ReadStates, WriteStates
    <2>2. call[t] \in Calls
        BY <2>1, BackFromWait, Zenon
    <2>3. CASE \E r : Return(t, r)
        BY <2>1, <2>3, ReturnScan, Zenon
    <2>4. CASE len # Queue_Deleted /\ \E rw, ww : WaitLoop(t, call[t], rw, ww)
        BY <2>1, <2>2, <2>4, WaitLoopScan, Zenon
    <2> QED
        BY <1>2, <2>3, <2>4, Zenon DEF Resume
<1>3. CASE ResumeTimedOut(t)
    <2>1. pc[t] \notin {"inc", "dec"}
        BY <1>3, Zenon DEF ResumeTimedOut
    <2> QED
        BY <1>3, <2>1, ReturnScan, Zenon DEF ResumeTimedOut
<1> QED
    BY <1>1, <1>2, <1>3, Zenon

LEMMA LeaveCondScan ==
    ASSUME QueueInv, Scanned, NEW t \in Threads, TimeOut(t) \/ SpuriousWakeup(t)
    PROVE  Scanned'
<1>1. PICK x \in PCs \ {"inc", "dec"} : pc' = [pc EXCEPT ![t] = x]
    BY Zenon DEF TimeOut, SpuriousWakeup, PCs
<1>2. pc[t] \notin {"inc", "dec"} /\ UNCHANGED <<queue, scan_private_data>>
    BY Zenon DEF TimeOut, SpuriousWakeup
<1>3. SameDue([pc EXCEPT ![t] = x], pc')
    BY <1>1, Zenon DEF QueueInv, Kinds, SameDue
<1> QED
    BY <1>2, <1>3, ScanKept, Zenon DEF queue

(* The events pushed by the system need no scan and count none. *)
LEMMA PushAndTakeRefScan ==
    ASSUME QueueInv, Scanned, NEW t \in Threads, NEW v \in Plain, PushAndTakeRef(t, v)
    PROVE  Scanned'
<1>1. CASE UNCHANGED <<queue, pc>>
    <2>1. SameDue(pc, pc')
        BY <1>1, Zenon DEF SameDue
    <2> QED
        BY <1>1, <2>1, ScanStays, Zenon DEF PushAndTakeRef, queue
<1>2. CASE /\ len # Queue_Deleted
           /\ elems' = Append(elems, v)
           /\ pc' \in SignalReader(pc, read_waiting)
           /\ scan_count' = scan_count
    <2>1. SameDue(pc, pc')
        BY <1>2, WakeDue, Zenon DEF QueueInv, Kinds
    <2>2. v \in Values /\ v \notin Scannable /\ elems \in Seq(Values)
        BY ValuesAssumption, Zenon DEF Values, QueueInv, Data
    <2>3. Holds(elems') => Holds(elems)
        BY <1>2, <2>2, HoldsFacts, Zenon
    <2> QED
        BY <1>2, <2>1, <2>3, ScanStays, Zenon DEF PushAndTakeRef
<1> QED
    BY <1>1, <1>2, Zenon DEF PushAndTakeRef

LEMMA ClearScan ==
    ASSUME QueueInv, Scanned, NEW t \in Threads, Clear(t)
    PROVE  Scanned'
<1>1. CASE UNCHANGED <<queue, pc>>
    <2>1. SameDue(pc, pc')
        BY <1>1, Zenon DEF SameDue
    <2> QED
        BY <1>1, <2>1, ScanStays, Zenon DEF Clear, queue
<1>2. CASE /\ len # Queue_Deleted
           /\ ClearIntern
           /\ pc' \in SignalWriter(AfterClear(t), write_waiting)
    <2>1. AfterClear(t) \in [Threads -> PCs]
        BY AfterClearFacts, Zenon DEF Clear
    <2>2. SameDue(AfterClear(t), pc')
        BY <1>2, <2>1, WakeDue, Zenon
    <2> QED
        BY <1>2, <2>2, EmptiedScan, Zenon DEF Clear, ClearIntern
<1> QED
    BY <1>1, <1>2, Zenon DEF Clear

LEMMA SetErrorScan ==
    ASSUME QueueInv, Scanned, NEW t \in Threads, SetError(t)
    PROVE  Scanned'
<1> DEFINE q == IF read_waiting > 0
                THEN Broadcast(AfterClear(t), "read_blocked", "read_woken")
                ELSE AfterClear(t)
<1>1. pc' = q \/ pc' = Broadcast(q, "write_blocked", "write_woken")
    BY Zenon DEF SetError
<1>2. q = AfterClear(t) \/ q = Broadcast(AfterClear(t), "read_blocked", "read_woken")
    BY Zenon
<1> HIDE DEF q
<1>3. AfterClear(t) \in [Threads -> PCs]
    BY AfterClearFacts, Zenon DEF SetError
<1>4. SameDue(AfterClear(t), q) /\ q \in [Threads -> PCs]
    BY <1>2, <1>3, WakeDue, Zenon
<1>5. SameDue(q, pc')
    BY <1>1, <1>4, WakeDue, Zenon
<1>6. SameDue(AfterClear(t), pc')
    BY <1>4, <1>5, Zenon DEF SameDue
<1> QED
    BY <1>6, EmptiedScan, Zenon DEF SetError, ClearIntern

LEMMA ClearErrorScan ==
    ASSUME QueueInv, Scanned, NEW t \in Threads, ClearError(t)
    PROVE  Scanned'
<1>1. SameDue(pc, pc')
    BY Zenon DEF SameDue, ClearError
<1> QED
    BY <1>1, ScanStays, Zenon DEF ClearError

(* The call arrives: what was due is now done. *)
LEMMA ScanPrivateDataScan ==
    ASSUME QueueInv, Scanned, NEW t \in Threads, IncScanPrivateData(t) \/ DecScanPrivateData(t)
    PROVE  Scanned'
<1>1. Moves(pc, pc', t) /\ pc'[t] = "idle"
    BY Zenon DEF QueueInv, Kinds, IncScanPrivateData, DecScanPrivateData, Moves
<1>2. Net(pc') = Net(pc) + Due(pc'[t]) - Due(pc[t])
    BY <1>1, NetMove, Zenon
<1>3. Due(pc'[t]) = 0
    BY <1>1, Zenon DEF Due
<1>4. Due(pc[t]) \in Int /\ scan_private_data' = scan_private_data + Due(pc[t])
    BY DEF Due, IncScanPrivateData, DecScanPrivateData, QueueInv, Data
<1>5. scan_private_data \in Int
    BY Zenon DEF QueueInv, Data
<1>6. scan_private_data' + Net(pc') = scan_private_data + Net(pc)
    BY <1>2, <1>3, <1>4, <1>5, NetType
<1>7. elems' = elems /\ len' = len /\ scan_count' = scan_count
    BY Zenon DEF IncScanPrivateData, DecScanPrivateData, queue
<1> QED
    BY <1>6, <1>7, Zenon DEF Scanned

LEMMA NextScan == QueueInv /\ Scanned /\ [Next]_vars => Scanned'
<1> SUFFICES ASSUME QueueInv, Scanned, [Next]_vars PROVE Scanned'
    BY Zenon
<1>1. CASE UNCHANGED vars
    BY <1>1, Zenon DEF Scanned, vars, queue
<1>2. ASSUME NEW t \in Threads, Destructor(t) PROVE Scanned'
    BY <1>2, Zenon DEF Destructor, Scanned
<1> QED
    BY <1>1, <1>2, CallScan, LeaveCondScan, PushAndTakeRefScan, ClearScan, SetErrorScan,
       ClearErrorScan, ScanPrivateDataScan, Zenon DEF Next

LEMMA InitScan == Init => Scanned
<1> SUFFICES ASSUME Init PROVE Scanned
    BY Zenon
<1>1. In(pc, IncStates) = {} /\ In(pc, DecStates) = {}
    BY Zenon DEF Init, In, IncStates, DecStates
<1>2. Cardinality(In(pc, IncStates)) = 0 /\ Cardinality(In(pc, DecStates)) = 0
    BY <1>1, FS_EmptySet, Zenon
<1>3. Net(pc) = 0
    BY <1>2 DEF Net
<1>4. ~Holds(elems)
    BY DEF Holds, Init
<1> QED
    BY <1>3, <1>4 DEF Init, Scanned

(* The scan counter of the Queue object is balanced with scan_count for any *)
(* interleaving of the calls made after the mutex is released, and a queue  *)
(* that holds a value needing a scan is never skipped by the collector.     *)
THEOREM QueueScanBalance == Spec => []ScanBalance
<1>1. Init => Scanned
    BY InitScan, Zenon
<1>2. QueueInv /\ Scanned /\ [Next]_vars => Scanned'
    BY NextScan, Zenon
<1>3. QueueInv /\ Scanned => ScanBalance
    BY ScannedIsScanBalance, Zenon
<1> QED
    BY <1>1, <1>2, <1>3, QueueInvariance, PTL DEF Spec
---------------------------------------------------------------------------
(* Deletion.  The destructor signals only the kinds of waiters it counts,   *)
(* so that it wakes everybody because the counts are exact; afterwards no   *)
(* call gets as far as the wait loop.                                       *)

BlockedStates == {"read_blocked", "write_blocked"}

(* No thread falls asleep in a step of a deleted queue. *)
Wakeful ==
    /\ len' = Queue_Deleted => len = Queue_Deleted
    /\ len' = Queue_Deleted =>
         \A u \in Threads : pc'[u] \in BlockedStates => pc[u] \in BlockedStates

LEMMA WakefulDeleted ==
    ASSUME DeletedWakesAll, Wakeful
    PROVE  DeletedWakesAll'
BY Zenon DEF DeletedWakesAll, Wakeful, InState, In, BlockedStates

LEMMA ReturnWakeful ==
    ASSUME QueueInv, NEW t \in Threads, NEW r, Return(t, r)
    PROVE  Wakeful
BY Zenon DEF QueueInv, Kinds, Return, queue, Wakeful, BlockedStates

(* The wait loop is entered only while the queue is alive, and leaves it so. *)
LEMMA WaitLoopWakeful ==
    ASSUME QueueInv, NEW t \in Threads, NEW c \in Calls, NEW rw, NEW ww,
           WaitLoop(t, c, rw, ww), len # Queue_Deleted
    PROVE  Wakeful
<1>1. len \in Nat /\ len = Len(elems)
    BY Zenon DEF QueueInv, Data, LenIsLength
<1>2. CASE (\E r : Return(t, r)) \/ Block(t, c)
    BY <1>2, Zenon DEF Return, Block, queue, Wakeful
<1>3. CASE ~MustWait(c) /\ IsRead(c) /\ Read(t, c, ww)
    <2>1. len > 0
        BY <1>1, <1>3, ListLength DEF MustWait, QueueInv, Data
    <2>2. len' # Queue_Deleted
        BY <1>1, <1>3, <2>1 DEF Read, Queue_Deleted
    <2> QED
        BY <2>2, Zenon DEF Wakeful
<1>4. CASE Write(t, c, rw)
    <2>1. len' # Queue_Deleted
        BY <1>1, <1>4 DEF Write, Queue_Deleted
    <2> QED
        BY <2>1, Zenon DEF Wakeful
<1> QED
    BY <1>2, <1>3, <1>4, Zenon DEF WaitLoop

LEMMA CallWakeful ==
    ASSUME QueueInv, NEW t \in Threads,
           \/ \E c \in Calls : Enter(t, c)
           \/ Resume(t)
           \/ ResumeTimedOut(t)
    PROVE  Wakeful
<1>1. ASSUME NEW c \in Calls, Enter(t, c) PROVE Wakeful
    <2>1. CASE \E r : Return(t, r)
        BY <2>1, ReturnWakeful, Zenon
    <2>2. CASE CheckWriteIntern(c) = "ok" /\ WaitLoop(t, c, read_waiting, write_waiting)
        <3>1. len # Queue_Deleted
            BY <2>2, Zenon DEF CheckWriteIntern
        <3> QED
            BY <2>2, <3>1, WaitLoopWakeful, Zenon
    <2> QED
        BY <1>1, <2>1, <2>2, Zenon DEF Enter
<1>2. CASE Resume(t)
    <2>1. pc[t] \in ReadStates \cup WriteStates
        BY <1>2, Zenon DEF Resume, ReadStates, WriteStates
    <2>2. call[t] \in Calls
        BY <2>1, BackFromWait, Zenon
    <2>3. CASE \E r : Return(t, r)
        BY <2>3, ReturnWakeful, Zenon
    <2>4. CASE len # Queue_Deleted /\ \E rw, ww : WaitLoop(t, call[t], rw, ww)
        BY <2>2, <2>4, WaitLoopWakeful, Zenon
    <2> QED
        BY <1>2, <2>3, <2>4, Zenon DEF Resume
<1>3. CASE ResumeTimedOut(t)
    BY <1>3, ReturnWakeful, Zenon DEF ResumeTimedOut
<1> QED
    BY <1>1, <1>2, <1>3, Zenon

(* What the other operations do to a queue that is alive, or leave alone in *)
(* a deleted one.                                                           *)
LEMMA OtherWakeful ==
    ASSUME QueueInv, NEW t \in Threads,
           \/ TimeOut(t) \/ SpuriousWakeup(t)
           \/ \E v \in Plain : PushAndTakeRef(t, v)
           \/ Clear(t) \/ SetError(t) \/ ClearError(t)
           \/ IncScanPrivateData(t) \/ DecScanPrivateData(t)
    PROVE  Wakeful
<1>1. pc \in [Threads -> PCs] /\ len \in Nat \cup {Queue_Deleted}
    BY Zenon DEF QueueInv, Kinds, Data
<1>2. CASE TimeOut(t) \/ SpuriousWakeup(t)
    BY <1>1, <1>2, Zenon DEF TimeOut, SpuriousWakeup, queue, Wakeful, BlockedStates
<1>3. CASE IncScanPrivateData(t) \/ DecScanPrivateData(t)
    BY <1>1, <1>3, Zenon DEF IncScanPrivateData, DecScanPrivateData, queue, Wakeful, BlockedStates
<1>4. CASE ClearError(t)
    BY <1>4, Zenon DEF ClearError, Wakeful
<1>5. 0 # Queue_Deleted
    BY DEF Queue_Deleted
<1>6. CASE SetError(t)
    BY <1>5, <1>6, Zenon DEF SetError, Wakeful
<1>7. CASE Clear(t)
    BY <1>5, <1>7, Zenon DEF Clear, queue, Wakeful
<1>8. ASSUME NEW v \in Plain, PushAndTakeRef(t, v) PROVE Wakeful
    <2>1. CASE UNCHANGED <<queue, pc>>
        BY <2>1, Zenon DEF queue, Wakeful
    <2>2. CASE len # Queue_Deleted /\ len' = len + 1
        <3>1. len' # Queue_Deleted
            BY <1>1, <2>2 DEF Queue_Deleted
        <3> QED
            BY <3>1, Zenon DEF Wakeful
    <2> QED
        BY <1>8, <2>1, <2>2, Zenon DEF PushAndTakeRef
<1> QED
    BY <1>2, <1>3, <1>4, <1>6, <1>7, <1>8, Zenon

(* The destructor wakes everybody. *)
LEMMA DestructorDeleted ==
    ASSUME QueueInv, NEW t \in Threads, Destructor(t)
    PROVE  DeletedWakesAll'
<1> DEFINE q == IF read_waiting > 0 THEN Broadcast(pc, "read_blocked", "read_woken") ELSE pc
<1>1. pc' = IF write_waiting > 0 THEN Broadcast(q, "write_blocked", "write_woken") ELSE q
    BY Zenon DEF Destructor
<1>2. ASSUME NEW u \in Threads, pc[u] = "read_blocked" PROVE read_waiting > 0
    <2>1. Asleep(pc)
        BY <1>2, Zenon DEF Asleep, In
    <2> QED
        BY <2>1, NumTypes, Zenon DEF QueueInv, Counts
<1>3. ASSUME NEW u \in Threads, pc[u] = "write_blocked" PROVE write_waiting > 0
    <2>1. In(pc, WriteStates) # {}
        BY <1>3, Zenon DEF In, WriteStates
    <2> QED
        BY <2>1, CountPositive, Zenon DEF QueueInv, Counts, NumWriters
<1>4. \A u \in Threads : q[u] # "read_blocked" /\ (q[u] = "write_blocked" => pc[u] = "write_blocked")
    BY <1>2, Zenon DEF Broadcast
<1> HIDE DEF q
<1>5. \A u \in Threads : pc'[u] # "read_blocked" /\ pc'[u] # "write_blocked"
    BY <1>1, <1>3, <1>4, Zenon DEF Broadcast
<1> QED
    BY <1>5, Zenon DEF DeletedWakesAll, InState, In

(* Deleting the queue wakes every thread blocked in it, readers and writers *)
(* alike, and nobody falls asleep in a deleted queue.                       *)
THEOREM QueueDeletedWakesAll == Spec => []DeletedWakesAll
<1>1. Init => DeletedWakesAll
    BY Zenon DEF Init, DeletedWakesAll, InState, In
<1>2. QueueInv /\ DeletedWakesAll /\ [Next]_vars => DeletedWakesAll'
    <2> SUFFICES ASSUME QueueInv, DeletedWakesAll, [Next]_vars PROVE DeletedWakesAll'
        BY Zenon
    <2>1. CASE UNCHANGED vars
        BY <2>1, Zenon DEF DeletedWakesAll, InState, In, vars, queue
    <2>2. ASSUME NEW t \in Threads, Destructor(t) PROVE DeletedWakesAll'
        BY <2>2, DestructorDeleted, Zenon
    <2>3. ASSUME Wakeful PROVE DeletedWakesAll'
        BY <2>3, WakefulDeleted, Zenon
    <2> QED
        BY <2>1, <2>2, <2>3, CallWakeful, OtherWakeful, Zenon DEF Next
<1> QED
    BY <1>1, <1>2, QueueInvariance, PTL DEF Spec
---------------------------------------------------------------------------
(* The queue implements BoundedDeque: every critical section is one step of *)
(* the double-ended queue, or none.                                         *)

(* A step that leaves the list and the status alone reports nothing, or     *)
(* what the status allows.                                                  *)
LEMMA RefuseStep ==
    ASSUME UNCHANGED <<elems, len, err>>,
           \/ ret' = Silent
           \/ ret' = Failed("none")
           \/ ret' = Failed("timeout")
           \/ ret' = Failed("error") /\ len # Queue_Deleted /\ err
           \/ ret' = Failed("deleted") /\ len = Queue_Deleted
    PROVE  Deque!Operation
<1>1. Failed("none") = Silent
    BY Zenon DEF Failed, Silent
<1>2. Deque!Silent = Silent
    BY Zenon DEF Deque!Silent, Silent
<1>3. ret' \in Deque!Outcomes
    <2>1. CASE ret' = Silent
        BY <1>2, <2>1, Zenon DEF Deque!Outcomes
    <2>2. CASE \E why \in {"timeout", "error", "deleted"} : ret' = Failed(why)
        BY <2>2 DEF Deque!Outcomes, Failed
    <2> QED
        BY <1>1, <2>1, <2>2, Zenon
<1>4. ret'.res = "error" => len # Queue_Deleted /\ err
    BY <1>1 DEF Failed, Silent
<1>5. ret'.res = "deleted" => len = Queue_Deleted
    BY <1>1 DEF Failed, Silent
<1>6. Deque!Refuse
    BY <1>3, <1>4, <1>5, Zenon DEF Deque!Refuse
<1> QED
    BY <1>6, Zenon DEF Deque!Operation

LEMMA ReadStep ==
    ASSUME QueueInv, NEW t \in Threads, NEW c \in Reads, NEW ww, Read(t, c, ww),
           elems # <<>>, ~err
    PROVE  Deque!Operation
<1>1. len # Queue_Deleted /\ len' # Queue_Deleted /\ err' = err
    <2>1. len # Queue_Deleted /\ len = Len(elems)
        BY Zenon DEF QueueInv, LenIsLength
    <2>2. Len(elems) \in Nat /\ Len(elems) # 0
        BY ListLength DEF QueueInv, Data
    <2>3. len' = len - 1 /\ err' = err
        BY Zenon DEF Read
    <2> QED
        BY <2>1, <2>2, <2>3 DEF Queue_Deleted
<1>2. c.op \in {"shift", "pop"}
    BY Zenon DEF Reads
<1>3. CASE c.op = "shift"
    <2>1. elems' = Tail(elems) /\ ret' = Got("shift", Head(elems))
        BY <1>3, Zenon DEF Read
    <2>2. Deque!TakeFirst
        BY <1>1, <2>1, Zenon DEF Deque!TakeFirst, Deque!Got, Got
    <2> QED
        BY <2>2, Zenon DEF Deque!Operation
<1>4. CASE c.op = "pop"
    <2>1. c.op # "shift"
        BY <1>4, Zenon
    <2>2. elems' = SubSeq(elems, 1, Len(elems) - 1) /\ ret' = Got("pop", elems[Len(elems)])
        BY <1>4, <2>1, Zenon DEF Read
    <2>3. Deque!TakeLast
        BY <1>1, <2>2, Zenon DEF Deque!TakeLast, Deque!Got, Got
    <2> QED
        BY <2>3, Zenon DEF Deque!Operation
<1> QED
    BY <1>2, <1>3, <1>4, Zenon

LEMMA WriteStep ==
    ASSUME QueueInv, NEW t \in Threads, NEW c \in Writes, NEW rw, Write(t, c, rw),
           len # Queue_Deleted, ~err, ~MustWait(c)
    PROVE  Deque!Operation
<1>1. len \in Nat /\ len = Len(elems) /\ ~IsRead(c) /\ c.val \in Values /\ c.op \in {"push", "insert"}
    BY Zenon DEF QueueInv, LenIsLength, Data, Writes, IsRead
<1>2. len' # Queue_Deleted /\ err' = err
    <2>1. len' = len + 1 /\ err' = err
        BY Zenon DEF Write
    <2> QED
        BY <1>1, <2>1 DEF Queue_Deleted
<1>3. Deque!HasRoom
    BY <1>1, MaxAssumption DEF MustWait, Deque!HasRoom
<1>4. CASE c.op = "push"
    <2>1. elems' = Append(elems, c.val) /\ ret' = Ok("push")
        BY <1>4, Zenon DEF Write
    <2>2. Deque!AddLast
        BY <1>1, <1>2, <1>3, <2>1, Zenon DEF Deque!AddLast, Deque!Ok, Ok
    <2> QED
        BY <2>2, Zenon DEF Deque!Operation
<1>5. CASE c.op = "insert"
    <2>1. c.op # "push"
        BY <1>5, Zenon
    <2>2. elems' = <<c.val>> \o elems /\ ret' = Ok("insert")
        BY <1>5, <2>1, Zenon DEF Write
    <2>3. Deque!AddFirst
        BY <1>1, <1>2, <1>3, <2>2, Zenon DEF Deque!AddFirst, Deque!Ok, Ok
    <2> QED
        BY <2>3, Zenon DEF Deque!Operation
<1> QED
    BY <1>1, <1>4, <1>5, Zenon

LEMMA WaitLoopStep ==
    ASSUME QueueInv, NEW t \in Threads, NEW c \in Calls, NEW rw, NEW ww,
           WaitLoop(t, c, rw, ww), len # Queue_Deleted
    PROVE  Deque!Operation
<1>1. CASE \/ err /\ Return(t, Failed("error"))
           \/ Return(t, Failed("timeout"))
           \/ Block(t, c)
    BY <1>1, RefuseStep, Zenon DEF Return, Block, queue
<1>2. CASE ~err /\ ~MustWait(c) /\ IsRead(c) /\ Read(t, c, ww)
    BY <1>2, CallKinds, ReadStep, Zenon DEF MustWait
<1>3. CASE ~err /\ ~MustWait(c) /\ ~IsRead(c) /\ Write(t, c, rw)
    BY <1>3, CallKinds, WriteStep, Zenon
<1> QED
    BY <1>1, <1>2, <1>3, Zenon DEF WaitLoop

LEMMA CallStep ==
    ASSUME QueueInv, NEW t \in Threads,
           \/ \E c \in Calls : Enter(t, c)
           \/ Resume(t)
           \/ ResumeTimedOut(t)
    PROVE  Deque!Operation
<1>1. ASSUME NEW c \in Calls, Enter(t, c) PROVE Deque!Operation
    <2>1. CASE CheckWriteIntern(c) # "ok" /\ Return(t, Failed(CheckWriteIntern(c)))
        <3>1. \/ len = Queue_Deleted /\ CheckWriteIntern(c) \in {"deleted", "none"}
              \/ len # Queue_Deleted /\ err /\ CheckWriteIntern(c) = "error"
            BY <2>1, Zenon DEF CheckWriteIntern
        <3> QED
            BY <2>1, <3>1, RefuseStep, Zenon DEF Return, queue
    <2>2. CASE CheckWriteIntern(c) = "ok" /\ WaitLoop(t, c, read_waiting, write_waiting)
        <3>1. len # Queue_Deleted
            BY <2>2, Zenon DEF CheckWriteIntern
        <3> QED
            BY <2>2, <3>1, WaitLoopStep, Zenon
    <2> QED
        BY <1>1, <2>1, <2>2, Zenon DEF Enter
<1>2. CASE Resume(t)
    <2>1. pc[t] \in ReadStates \cup WriteStates
        BY <1>2, Zenon DEF Resume, ReadStates, WriteStates
    <2>2. call[t] \in Calls
        BY <2>1, BackFromWait, Zenon
    <2>3. CASE len = Queue_Deleted /\ Return(t, Failed("deleted"))
        BY <2>3, RefuseStep, Zenon DEF Return, queue
    <2>4. CASE len # Queue_Deleted /\ \E rw, ww : WaitLoop(t, call[t], rw, ww)
        BY <2>2, <2>4, WaitLoopStep, Zenon
    <2> QED
        BY <1>2, <2>3, <2>4, Zenon DEF Resume
<1>3. CASE ResumeTimedOut(t)
    BY <1>3, RefuseStep, Zenon DEF ResumeTimedOut, Return, queue
<1> QED
    BY <1>1, <1>2, <1>3, Zenon

(* clear() with readers waiting: if there is data, one of them was woken.   *)
LEMMA PassOverStep ==
    ASSUME QueueInv, len # Queue_Deleted, ~err, read_waiting > 0,
           UNCHANGED <<elems, len, err>>, ret' = Ok("clear")
    PROVE  Deque!Operation
<1>1. CASE elems = <<>>
    <2>1. Deque!Clear
        BY <1>1, Zenon DEF Deque!Clear, Deque!Ok, Ok
    <2> QED
        BY <2>1, Zenon DEF Deque!Operation
<1>2. CASE elems # <<>>
    <2>1. InState({"read_woken", "read_timedout"}) # {}
        <3> SUFFICES ASSUME InState({"read_woken", "read_timedout"}) = {} PROVE FALSE
            BY Zenon
        <3>1. InState({"read_woken"}) = {}
            BY Zenon DEF InState, In
        <3>2. Cardinality({}) = 0
            BY FS_EmptySet, Zenon
        <3>3. WaitingCounts /\ NoLostReaderWakeup
            BY QueueInvImplies, Zenon
        <3>4. InState(ReadStates) # {}
            <4>1. read_waiting = Cardinality(InState(ReadStates))
                BY <3>3, Zenon DEF WaitingCounts
            <4> QED
                BY <3>2, <4>1
        <3>5. InState({"read_blocked"}) # {}
            BY <3>4, Zenon DEF InState, In, ReadStates
        <3>6. Len(elems) <= 0
            BY <3>1, <3>2, <3>3, <3>5 DEF NoLostReaderWakeup
        <3>7. elems \in Seq(Values)
            BY Zenon DEF QueueInv, Data
        <3>8. Len(elems) \in Nat /\ Len(elems) # 0
            BY <1>2, <3>7, ListLength
        <3> QED
            BY <3>6, <3>8
    <2>2. Deque!PassOver
        BY <1>2, <2>1, Zenon DEF Deque!PassOver, Deque!Ok, Ok
    <2> QED
        BY <2>2, Zenon DEF Deque!Operation
<1> QED
    BY <1>1, <1>2, Zenon

LEMMA OtherStep ==
    ASSUME QueueInv, NEW t \in Threads,
           \/ TimeOut(t) \/ SpuriousWakeup(t)
           \/ \E v \in Plain : PushAndTakeRef(t, v)
           \/ Clear(t) \/ SetError(t) \/ ClearError(t) \/ Destructor(t)
           \/ IncScanPrivateData(t) \/ DecScanPrivateData(t)
    PROVE  Deque!Operation
<1>0. 0 # Queue_Deleted
    BY DEF Queue_Deleted
<1>1. CASE \/ TimeOut(t) \/ SpuriousWakeup(t)
           \/ IncScanPrivateData(t) \/ DecScanPrivateData(t)
    <2>1. UNCHANGED <<elems, len, err>> /\ ret' = Silent
        BY <1>1, Zenon DEF TimeOut, SpuriousWakeup, IncScanPrivateData, DecScanPrivateData, queue
    <2> QED
        BY <2>1, RefuseStep, Zenon
<1>2. ASSUME NEW v \in Plain, PushAndTakeRef(t, v) PROVE Deque!Operation
    <2>1. CASE ret' = Silent /\ UNCHANGED queue
        BY <2>1, RefuseStep, Zenon DEF queue
    <2>2. CASE /\ len # Queue_Deleted /\ ~err /\ err' = err
               /\ elems' = Append(elems, v) /\ len' = len + 1 /\ ret' = Ok("push")
        <3>1. len' # Queue_Deleted
            BY <2>2 DEF QueueInv, Data, Queue_Deleted
        <3>2. Deque!HasRoom
            BY <1>2 DEF PushAndTakeRef, Deque!HasRoom
        <3>3. v \in Values
            BY Zenon DEF Values
        <3>4. Deque!AddLast
            BY <2>2, <3>1, <3>2, <3>3, Zenon DEF Deque!AddLast, Deque!Ok, Ok
        <3> QED
            BY <3>4, Zenon DEF Deque!Operation
    <2> QED
        BY <1>2, <2>1, <2>2, Zenon DEF PushAndTakeRef
<1>3. CASE Clear(t)
    <2>1. CASE /\ len = Queue_Deleted \/ err
               /\ ret' = IF len # Queue_Deleted THEN Failed("error") ELSE Silent
               /\ UNCHANGED queue
        <3>1. UNCHANGED <<elems, len, err>>
            BY <2>1, Zenon DEF queue
        <3> QED
            BY <2>1, <3>1, RefuseStep, Zenon
    <2>2. CASE /\ len # Queue_Deleted /\ ~err /\ err' = err
               /\ elems' = <<>> /\ len' = 0 /\ ret' = Ok("clear")
        <3>1. Deque!Clear
            BY <1>0, <2>2, Zenon DEF Deque!Clear, Deque!Ok, Ok
        <3> QED
            BY <3>1, Zenon DEF Deque!Operation
    <2>3. CASE /\ len # Queue_Deleted /\ ~err /\ read_waiting > 0
               /\ ret' = Ok("clear") /\ UNCHANGED queue
        BY <2>3, PassOverStep, Zenon DEF queue
    <2> QED
        BY <1>3, <2>1, <2>2, <2>3, Zenon DEF Clear, ClearIntern
<1>4. CASE SetError(t)
    <2>1. /\ len # Queue_Deleted /\ elems' = <<>> /\ len' = 0 /\ err' = TRUE
          /\ ret' = Ok("setError")
        BY <1>4, Zenon DEF SetError, ClearIntern
    <2>2. Deque!Fail
        BY <1>0, <2>1, Zenon DEF Deque!Fail, Deque!Ok, Ok
    <2> QED
        BY <2>2, Zenon DEF Deque!Operation
<1>5. CASE ClearError(t)
    <2>1. /\ len # Queue_Deleted /\ UNCHANGED <<elems, len>> /\ err' = FALSE /\ err \in BOOLEAN
          /\ ret' = IF err THEN Ok("clearError") ELSE Silent
        BY <1>5, Zenon DEF ClearError, QueueInv, Data
    <2>2. CASE err
        <3>1. Deque!Recover
            BY <2>1, <2>2, Zenon DEF Deque!Recover, Deque!Ok, Ok
        <3> QED
            BY <3>1, Zenon DEF Deque!Operation
    <2>3. CASE ~err
        <3>1. err' = err /\ ret' = Silent
            BY <2>1, <2>3, Zenon
        <3> QED
            BY <2>1, <3>1, RefuseStep, Zenon
    <2> QED
        BY <2>2, <2>3, Zenon
<1>6. CASE Destructor(t)
    <2>1. elems' = <<>> /\ len' = Queue_Deleted /\ ret' = Ok("destructor")
        BY <1>6, Zenon DEF Destructor, ClearIntern
    <2>2. Deque!Delete
        BY <2>1, Zenon DEF Deque!Delete, Deque!Ok, Ok
    <2> QED
        BY <2>2, Zenon DEF Deque!Operation
<1> QED
    BY <1>1, <1>2, <1>3, <1>4, <1>5, <1>6, Zenon

(* For any number of threads, the calls on a queue take effect one at a     *)
(* time in an order that a double-ended queue of at most max elements could *)
(* have produced: no element is lost, duplicated or handed out from the     *)
(* wrong end, whoever was woken, timed out or interrupted by an error; a    *)
(* clear() that keeps data meets a reader that was woken and has not run.   *)
THEOREM QueueImplementsDeque == Spec => DequeSpec
<1>1. Init => Deque!DInit
    <2> SUFFICES ASSUME Init PROVE Deque!DInit
        BY Zenon
    <2>1. elems = <<>> /\ len # Queue_Deleted /\ err = FALSE /\ ret = Silent
        BY DEF Init, Queue_Deleted
    <2>2. InState({"read_woken", "read_timedout"}) = {}
        BY Zenon DEF Init, InState, In
    <2> QED
        BY <2>1, <2>2, Zenon DEF Deque!DInit, Deque!Silent, Silent
<1>2. QueueInv /\ [Next]_vars => [Deque!DNext]_(Deque!dvars)
    <2> SUFFICES ASSUME QueueInv, [Next]_vars PROVE [Deque!DNext]_(Deque!dvars)
        BY Zenon
    <2>1. CASE UNCHANGED vars
        BY <2>1, Zenon DEF vars, queue, InState, In, Deque!dvars
    <2>2. CASE Next
        <3>1. Deque!Operation
            BY <2>2, CallStep, OtherStep, Zenon DEF Next
        <3> QED
            BY <3>1, Zenon DEF Deque!DNext
    <2> QED
        BY <2>1, <2>2, Zenon
<1> QED
    BY <1>1, <1>2, QueueInvariance, PTL DEF Spec, DequeSpec, Deque!DSpec

===========================================================================
