----------------------------- MODULE QoreQueue -----------------------------
(***************************************************************************)
(* The monitor behind class Queue (lib/QoreQueue.cpp): one mutex, the two   *)
(* condition variables read_cond and write_cond, the error state, the       *)
(* waiting counters and the scan counters of the deterministic garbage      *)
(* collector.                                                               *)
(*                                                                          *)
(* Every critical section of the mutex is one step.  A blocked thread has   *)
(* left the mutex; it is signalled, timed out or woken spuriously in one    *)
(* step and gets the mutex back in another one, so that any other critical  *)
(* section may come in between.  The linked list that holds the elements is *)
(* a sequence here.                                                         *)
(***************************************************************************)
EXTENDS Integers, Sequences, FiniteSets

CONSTANTS
    Threads,    \* the threads that share the queue
    Plain,      \* values that can hold no object
    Scannable,  \* values for which needs_scan() is true
    max,        \* the maximum size of the queue, or -1 for unlimited
    Timeouts,   \* the kinds of timeout_ms used: "never", "timed", "negative"
    Cap,        \* bound of the model on the length of an unlimited queue
    ScanCap     \* bound of the model on scan_count when a write starts

Values == Plain \cup Scannable

Queue_Deleted == -1

ASSUME MaxAssumption == max \in Int /\ (max = -1 \/ max > 0)
ASSUME BoundsAssumption == Cap \in Nat /\ ScanCap \in Nat
ASSUME ThreadsAssumption == IsFiniteSet(Threads)
ASSUME ValuesAssumption == Plain \cap Scannable = {}
ASSUME TimeoutsAssumption == Timeouts \subseteq {"never", "timed", "negative"}

VARIABLES
    elems,              \* the values from head to tail
    len,                \* number of elements, or Queue_Deleted
    err,                \* !err.empty()
    desc,               \* desc != nullptr
    read_waiting,
    write_waiting,
    scan_count,
    scan_private_data,  \* counter of the Queue object itself (qore_object_private)
    pc,                 \* where each thread is
    call,               \* the call a thread is blocked in
    ret                 \* the outcome of the last step, for the caller

queue   == <<elems, len, err, desc, scan_count>>
waiting == <<read_waiting, write_waiting>>
vars    == <<queue, waiting, scan_private_data, pc, call, ret>>

---------------------------------------------------------------------------
(* Threads.  *_blocked: in the condition variable; *_woken: out of it but   *)
(* without the mutex; *_timedout: the same after ETIMEDOUT; inc and dec:    *)
(* out of the mutex, about to call inc/decScanPrivateData().                *)

PCs == {"idle", "read_blocked", "read_woken", "read_timedout",
        "write_blocked", "write_woken", "write_timedout", "inc", "dec"}

ReadStates  == {"read_blocked", "read_woken", "read_timedout"}
WriteStates == {"write_blocked", "write_woken", "write_timedout"}

Writes == [op : {"push", "insert"}, val : Values, to : Timeouts]
Reads  == [op : {"shift", "pop"}, to : Timeouts]
Calls  == Writes \cup Reads

NoCall == [op |-> "none"]

In(p, S)   == {t \in Threads : p[t] \in S}
InState(S) == In(pc, S)

IsRead(c)  == c.op \in {"shift", "pop"}
IsWrite(c) == c.op \in {"push", "insert"}

Silent      == [res |-> "none"]
Ok(op)      == [res |-> "ok", op |-> op]
Got(op, v)  == [res |-> "got", op |-> op, val |-> v]
Failed(why) == [res |-> why]

---------------------------------------------------------------------------
(* QoreCondition: signal() wakes one thread that is blocked, if there is    *)
(* one, broadcast() all of them.                                            *)

Signal(p, from, to) ==
    LET blocked == {u \in Threads : p[u] = from}
    IN  IF blocked = {} THEN {p} ELSE {[p EXCEPT ![u] = to] : u \in blocked}

Broadcast(p, from, to) == [u \in Threads |-> IF p[u] = from THEN to ELSE p[u]]

SignalReader(p, waiters) ==
    IF waiters > 0 THEN Signal(p, "read_blocked", "read_woken") ELSE {p}

SignalWriter(p, waiters) ==
    IF waiters > 0 THEN Signal(p, "write_blocked", "write_woken") ELSE {p}

---------------------------------------------------------------------------
(* The end of a call that leaves the queue as it is. *)

Return(t, r) ==
    /\ pc' = [pc EXCEPT ![t] = "idle"]
    /\ call' = [call EXCEPT ![t] = NoCall]
    /\ ret' = r
    /\ UNCHANGED <<queue, scan_private_data>>

(* Faulty variant: the bound is tested with > instead of >=. *)
MustWaitOffByOne(c) == IF IsRead(c) THEN elems = <<>> ELSE max > 0 /\ len > max

(* The loop condition of waitReadIntern() and waitWriteIntern(). *)
MustWait(c) == IF IsRead(c) THEN elems = <<>> ELSE max > 0 /\ len >= max

(* read_cond.wait() or write_cond.wait(): gives up the mutex. *)
Block(t, c) ==
    /\ pc' = [pc EXCEPT ![t] = IF IsRead(c) THEN "read_blocked" ELSE "write_blocked"]
    /\ call' = [call EXCEPT ![t] = c]
    /\ ret' = Silent
    /\ UNCHANGED <<queue, scan_private_data>>

(* Faulty variant: readers are signalled only when the queue was empty. *)
WriteSignalsOnlyFirst(t, c, rw) ==
    LET scan == c.val \in Scannable
    IN  /\ elems' = IF c.op = "push" THEN Append(elems, c.val) ELSE <<c.val>> \o elems
        /\ len' = len + 1
        /\ scan_count' = IF scan THEN scan_count + 1 ELSE scan_count
        /\ pc' \in SignalReader(
                     [pc EXCEPT ![t] = IF scan /\ scan_count = 0 THEN "inc" ELSE "idle"],
                     IF elems = <<>> THEN rw ELSE 0)
        /\ call' = [call EXCEPT ![t] = NoCall]
        /\ ret' = Ok(c.op)
        /\ UNCHANGED <<err, desc, scan_private_data>>

(* pushIntern() or insertIntern(), then the scan accounting of push() and   *)
(* insert().                                                                *)
Write(t, c, rw) ==
    LET scan == c.val \in Scannable
    IN  /\ elems' = IF c.op = "push" THEN Append(elems, c.val) ELSE <<c.val>> \o elems
        /\ len' = len + 1
        /\ scan_count' = IF scan THEN scan_count + 1 ELSE scan_count
        /\ pc' \in SignalReader(
                     [pc EXCEPT ![t] = IF scan /\ scan_count = 0 THEN "inc" ELSE "idle"], rw)
        /\ call' = [call EXCEPT ![t] = NoCall]
        /\ ret' = Ok(c.op)
        /\ UNCHANGED <<err, desc, scan_private_data>>

(* Faulty variant: pop() hands out the first value while it unlinks the last. *)
ReadWrongEnd(t, c, ww) ==
    /\ elems' = IF c.op = "shift" THEN Tail(elems) ELSE SubSeq(elems, 1, Len(elems) - 1)
    /\ ret' = Got(c.op, Head(elems))
    /\ len' = len - 1
    /\ pc' \in SignalWriter([pc EXCEPT ![t] = "idle"], ww)
    /\ call' = [call EXCEPT ![t] = NoCall]
    /\ UNCHANGED <<err, desc, scan_count, scan_private_data>>

(* The rest of shift() and pop().  The node is unlinked under the mutex and *)
(* read after it is released, when no other thread can reach it.  The test  *)
(* needs_scan(n) is applied to the node and not to its value: a pointer     *)
(* converts to a Boolean QoreValue, which never needs a scan, so scan_count *)
(* stays as it is.                                                          *)
Read(t, c, ww) ==
    /\ elems' = IF c.op = "shift" THEN Tail(elems) ELSE SubSeq(elems, 1, Len(elems) - 1)
    /\ ret' = Got(c.op, IF c.op = "shift" THEN Head(elems) ELSE elems[Len(elems)])
    /\ len' = len - 1
    /\ pc' \in SignalWriter([pc EXCEPT ![t] = "idle"], ww)
    /\ call' = [call EXCEPT ![t] = NoCall]
    /\ UNCHANGED <<err, desc, scan_count, scan_private_data>>

(* One turn of the wait loop, and what follows it.  rw and ww are the       *)
(* waiting counters on entry, after the decrement that follows a wait.      *)
WaitLoop(t, c, rw, ww) ==
    \/ /\ err
       /\ Return(t, Failed("error"))
       /\ read_waiting' = rw /\ write_waiting' = ww
    \/ /\ ~err
       /\ MustWait(c)
       /\ c.to = "negative"
       /\ Return(t, Failed("timeout"))
       /\ read_waiting' = rw /\ write_waiting' = ww
    \/ /\ ~err
       /\ MustWait(c)
       /\ c.to # "negative"
       /\ Block(t, c)
       /\ read_waiting' = IF IsRead(c) THEN rw + 1 ELSE rw
       /\ write_waiting' = IF IsRead(c) THEN ww ELSE ww + 1
    \/ /\ ~err
       /\ ~MustWait(c)
       /\ IF IsRead(c) THEN Read(t, c, ww) ELSE Write(t, c, rw)
       /\ read_waiting' = rw /\ write_waiting' = ww

---------------------------------------------------------------------------
(* push(), insert(), shift() and pop(), up to the first wait or the end.    *)
(* Reads raise QUEUE-ERROR on a deleted queue, writes return silently.      *)

CheckWriteIntern(c) ==
    CASE len = Queue_Deleted -> IF IsRead(c) THEN "deleted" ELSE "none"
      [] len # Queue_Deleted /\ err -> "error"
      [] OTHER -> "ok"

InBound(c) ==
    ~IsRead(c) => /\ max = -1 => len < Cap
                  /\ c.val \in Scannable => scan_count < ScanCap

Enter(t, c) ==
    /\ pc[t] = "idle"
    /\ InBound(c)
    /\ \/ /\ CheckWriteIntern(c) # "ok"
          /\ Return(t, Failed(CheckWriteIntern(c)))
          /\ UNCHANGED waiting
       \/ /\ CheckWriteIntern(c) = "ok"
          /\ WaitLoop(t, c, read_waiting, write_waiting)

(* A blocked thread leaves the condition variable on its own. *)
TimeOut(t) ==
    /\ pc[t] \in {"read_blocked", "write_blocked"}
    /\ call[t].to = "timed"
    /\ pc' = [pc EXCEPT ![t] = IF @ = "read_blocked" THEN "read_timedout" ELSE "write_timedout"]
    /\ ret' = Silent
    /\ UNCHANGED <<queue, waiting, scan_private_data, call>>

(* pthread_cond_wait() may return without a signal. *)
SpuriousWakeup(t) ==
    /\ pc[t] \in {"read_blocked", "write_blocked"}
    /\ pc' = [pc EXCEPT ![t] = IF @ = "read_blocked" THEN "read_woken" ELSE "write_woken"]
    /\ ret' = Silent
    /\ UNCHANGED <<queue, waiting, scan_private_data, call>>

(* wait() returned 0: the thread has the mutex again. *)
Resume(t) ==
    LET c  == call[t]
        rw == IF IsRead(c) THEN read_waiting - 1 ELSE read_waiting
        ww == IF IsRead(c) THEN write_waiting ELSE write_waiting - 1
    IN  /\ pc[t] \in {"read_woken", "write_woken"}
        /\ \/ /\ len = Queue_Deleted
              /\ Return(t, Failed("deleted"))
              /\ read_waiting' = rw /\ write_waiting' = ww
           \/ /\ len # Queue_Deleted
              /\ WaitLoop(t, c, rw, ww)

(* wait() returned ETIMEDOUT: the state of the queue is not looked at. *)
ResumeTimedOut(t) ==
    /\ pc[t] \in {"read_timedout", "write_timedout"}
    /\ Return(t, Failed("timeout"))
    /\ read_waiting' = IF IsRead(call[t]) THEN read_waiting - 1 ELSE read_waiting
    /\ write_waiting' = IF IsRead(call[t]) THEN write_waiting ELSE write_waiting - 1

---------------------------------------------------------------------------
(* pushAndTakeRef(): events of sockets, files and datasources, which refuse *)
(* a queue with a maximum size.  It neither blocks nor counts scans; the    *)
(* event hashes it stores are taken to be plain values.                     *)
PushAndTakeRef(t, v) ==
    /\ pc[t] = "idle"
    /\ max = -1
    /\ len < Cap
    /\ \/ /\ len = Queue_Deleted \/ err
          /\ ret' = Silent
          /\ UNCHANGED <<queue, pc>>
       \/ /\ len # Queue_Deleted /\ ~err
          /\ elems' = Append(elems, v)
          /\ len' = len + 1
          /\ pc' \in SignalReader(pc, read_waiting)
          /\ ret' = Ok("push")
          /\ UNCHANGED <<err, desc, scan_count>>
    /\ UNCHANGED <<waiting, scan_private_data, call>>

ClearIntern ==
    /\ elems' = <<>>
    /\ scan_count' = 0

(* Faulty variant: dec_obj is never set. *)
AfterClearNoDec(t) == [pc EXCEPT ![t] = "idle"]

(* The thread's next step after clear() or setError(): dec_obj is set when  *)
(* scan_count was not zero.                                                 *)
AfterClear(t) == [pc EXCEPT ![t] = IF scan_count # 0 THEN "dec" ELSE "idle"]

(* clear() wakes one writer.  With readers waiting it takes the queue to be *)
(* empty, asserts that, and returns as if it had cleared it.                *)
Clear(t) ==
    /\ pc[t] = "idle"
    /\ \/ /\ len = Queue_Deleted \/ err
          /\ ret' = IF len # Queue_Deleted THEN Failed("error") ELSE Silent
          /\ UNCHANGED <<queue, pc>>
       \/ /\ len # Queue_Deleted /\ ~err /\ read_waiting > 0
          /\ ret' = Ok("clear")
          /\ UNCHANGED <<queue, pc>>
       \/ /\ len # Queue_Deleted /\ ~err /\ read_waiting = 0
          /\ ClearIntern
          /\ len' = 0
          /\ pc' \in SignalWriter(AfterClear(t), write_waiting)
          /\ ret' = Ok("clear")
          /\ UNCHANGED <<err, desc>>
    /\ UNCHANGED <<waiting, scan_private_data, call>>

SetError(t) ==
    /\ pc[t] = "idle"
    /\ len # Queue_Deleted
    /\ err' = TRUE
    /\ desc' = TRUE
    /\ ClearIntern
    /\ len' = 0
    /\ LET p == IF read_waiting > 0
                THEN Broadcast(AfterClear(t), "read_blocked", "read_woken")
                ELSE AfterClear(t)
       IN  pc' = IF write_waiting > 0 THEN Broadcast(p, "write_blocked", "write_woken") ELSE p
    /\ ret' = Ok("setError")
    /\ UNCHANGED <<waiting, scan_private_data, call>>

ClearError(t) ==
    /\ pc[t] = "idle"
    /\ len # Queue_Deleted
    /\ err' = FALSE
    /\ desc' = FALSE
    /\ ret' = IF err THEN Ok("clearError") ELSE Silent
    /\ UNCHANGED <<elems, len, scan_count, waiting, scan_private_data, pc, call>>

(* Faulty variant: only the readers are woken. *)
DestructorForgetsWriters(t) ==
    /\ pc[t] = "idle"
    /\ pc' = IF read_waiting > 0
             THEN Broadcast(pc, "read_blocked", "read_woken")
             ELSE pc
    /\ ClearIntern
    /\ len' = Queue_Deleted
    /\ desc' = FALSE
    /\ ret' = Ok("destructor")
    /\ UNCHANGED <<err, waiting, scan_private_data, call>>

(* destructor(): run by the destructor of the object and again when the     *)
(* last reference is dropped.                                               *)
Destructor(t) ==
    /\ pc[t] = "idle"
    /\ LET p == IF read_waiting > 0
                THEN Broadcast(pc, "read_blocked", "read_woken")
                ELSE pc
       IN  pc' = IF write_waiting > 0 THEN Broadcast(p, "write_blocked", "write_woken") ELSE p
    /\ ClearIntern
    /\ len' = Queue_Deleted
    /\ desc' = FALSE
    /\ ret' = Ok("destructor")
    /\ UNCHANGED <<err, waiting, scan_private_data, call>>

(* incScanPrivateData() and decScanPrivateData() of the Queue object, called *)
(* after the mutex is released.                                              *)
IncScanPrivateData(t) ==
    /\ pc[t] = "inc"
    /\ scan_private_data' = scan_private_data + 1
    /\ pc' = [pc EXCEPT ![t] = "idle"]
    /\ ret' = Silent
    /\ UNCHANGED <<queue, waiting, call>>

DecScanPrivateData(t) ==
    /\ pc[t] = "dec"
    /\ scan_private_data' = scan_private_data - 1
    /\ pc' = [pc EXCEPT ![t] = "idle"]
    /\ ret' = Silent
    /\ UNCHANGED <<queue, waiting, call>>
---------------------------------------------------------------------------

Init ==
    /\ elems = <<>>
    /\ len = 0
    /\ err = FALSE
    /\ desc = FALSE
    /\ read_waiting = 0
    /\ write_waiting = 0
    /\ scan_count = 0
    /\ scan_private_data = 0
    /\ pc = [t \in Threads |-> "idle"]
    /\ call = [t \in Threads |-> NoCall]
    /\ ret = Silent

Next ==
    \E t \in Threads :
        \/ \E c \in Calls : Enter(t, c)
        \/ TimeOut(t) \/ SpuriousWakeup(t) \/ Resume(t) \/ ResumeTimedOut(t)
        \/ \E v \in Plain : PushAndTakeRef(t, v)
        \/ Clear(t) \/ SetError(t) \/ ClearError(t) \/ Destructor(t)
        \/ IncScanPrivateData(t) \/ DecScanPrivateData(t)

Spec == Init /\ [][Next]_vars

(* A thread that can take the mutex eventually gets it.  Nothing is assumed *)
(* about when, or whether, a program calls the queue again.                 *)
Fairness ==
    \A t \in Threads :
        /\ WF_vars(Resume(t)) /\ WF_vars(ResumeTimedOut(t)) /\ WF_vars(TimeOut(t))
        /\ WF_vars(IncScanPrivateData(t)) /\ WF_vars(DecScanPrivateData(t))

FairSpec == Spec /\ Fairness

---------------------------------------------------------------------------
(* The state of a qore_queue_private and of the threads in its methods. *)
TypeOK ==
    /\ elems \in Seq(Values)
    /\ len \in Nat \cup {Queue_Deleted}
    /\ err \in BOOLEAN /\ desc \in BOOLEAN
    /\ read_waiting \in 0 .. Cardinality(Threads)
    /\ write_waiting \in 0 .. Cardinality(Threads)
    /\ scan_count \in Nat
    /\ scan_private_data \in Int
    /\ pc \in [Threads -> PCs]
    /\ call \in [Threads -> Calls \cup {NoCall}]
    /\ \A t \in Threads : /\ pc[t] \in ReadStates <=> IsRead(call[t])
                          /\ pc[t] \in WriteStates <=> IsWrite(call[t])

(* len is the number of nodes in the list, and however many writers were    *)
(* woken at once a bounded queue never holds more than max of them          *)
(* (waitWriteIntern() tests the bound again after every wait); a queue in   *)
(* error or deleted stays empty.                                            *)
LenIsLength ==
    /\ len # Queue_Deleted => len = Len(elems)
    /\ len = Queue_Deleted => elems = <<>>
    /\ err => elems = <<>>
    /\ max > 0 => len <= max

(* The counters that decide whether to signal at all count exactly the      *)
(* threads between ++waiting and --waiting, whatever mixture of signals,    *)
(* timeouts, errors and deletion ends the wait.                             *)
WaitingCounts ==
    /\ read_waiting = Cardinality(InState(ReadStates))
    /\ write_waiting = Cardinality(InState(WriteStates))

(* No wakeup of a reader is lost: while a reader sleeps in read_cond, every *)
(* element in the queue has a reader that was already woken for it.         *)
NoLostReaderWakeup ==
    InState({"read_blocked"}) # {} => Len(elems) <= Cardinality(InState({"read_woken"}))

(* The Queue object's scan_private_data, once the inc and dec calls on      *)
(* their way outside the mutex have arrived, is 1 while scan_count is not   *)
(* zero and 0 otherwise; and a queue that holds a value needing a scan has  *)
(* a nonzero scan_count, so the collector never skips it.                   *)
ScanBalance ==
    len # Queue_Deleted =>
        /\ scan_private_data + Cardinality(InState({"inc"})) - Cardinality(InState({"dec"}))
              = IF scan_count > 0 THEN 1 ELSE 0
        /\ (\E i \in 1 .. Len(elems) : elems[i] \in Scannable) => scan_count > 0

Deque == INSTANCE BoundedDeque WITH
    status  <- IF len = Queue_Deleted THEN "deleted" ELSE IF err THEN "error" ELSE "open",
    out     <- ret,
    leaving <- InState({"read_woken", "read_timedout"}) # {}

(* The queue implements the double-ended queue of BoundedDeque: every call  *)
(* takes effect at once, nothing is lost, duplicated or taken from the      *)
(* wrong end, and clear() leaves nothing behind unless a reader that was    *)
(* woken or has timed out has not run yet (PassOver).                       *)
DequeSpec == Deque!DSpec

(* A reader asleep while there is data is woken, or the data is taken by    *)
(* another reader, without further calls to the queue.                      *)
ReaderServed ==
    \A t \in Threads :
        (pc[t] = "read_blocked" /\ elems # <<>>) ~> (pc[t] # "read_blocked" \/ elems = <<>>)

(* Deleting the queue wakes every thread blocked on it, readers and writers *)
(* alike, and nobody falls asleep on it afterwards.                         *)
DeletedWakesAll == len = Queue_Deleted => InState({"read_blocked", "write_blocked"}) = {}

---------------------------------------------------------------------------
(* What the documentation of class Queue says and the code does not keep.   *)

(* Adding to a full queue blocks "until the Queue shrinks below the maximum *)
(* size": a writer asleep while there is room is woken, or the room is      *)
(* taken by another writer.                                                 *)
WriterServed ==
    \A t \in Threads :
        (pc[t] = "write_blocked" /\ len < max) ~> (pc[t] # "write_blocked" \/ len >= max)

===========================================================================
