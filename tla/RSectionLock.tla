----------------------------- MODULE RSectionLock -----------------------------
(***************************************************************************)
(* The lock of an object (RSection.h, RSection.cpp and the class it is     *)
(* derived from, qore_var_rwlock_priv.h): a read-write lock with an        *)
(* rsection that one of the readers may be in, made of a mutex, three      *)
(* condition variables and a list of notifiers.  A thread that scans for   *)
(* recursive references does not wait for the rsection: it leaves its      *)
(* notifier with the lock, gives up the locks it holds and waits for the   *)
(* notifier.                                                               *)
(*                                                                         *)
(* A step is what a thread does while it holds the mutex l.  A thread that *)
(* waits for a condition is "woken" by a signal, or for no reason, and     *)
(* continues when it has the mutex again; until then others may take the   *)
(* lock.  trywrlock() and tryrdlock() are wrlock() and rdlock() for a lock *)
(* that is free.                                                           *)
(***************************************************************************)
EXTENDS Naturals, FiniteSets

CONSTANTS
    Threads,
    None,      \* -1 as a thread number
    MaxOps     \* bound: how often the lock is asked for

ASSUME ThreadsAssumption == IsFiniteSet(Threads) /\ None \notin Threads

VARIABLES
    pc,                \* what the thread is doing, see PCs
    write_tid,
    readers,
    read_waiting,
    write_waiting,
    rsection_waiting,
    rs_tid,
    list,              \* threads whose notifier is in the list
    setp,              \* threads whose notifier is set
    ops                \* how often the lock has been asked for

vars == <<pc, write_tid, readers, read_waiting, write_waiting, rsection_waiting,
          rs_tid, list, setp, ops>>

counts == <<read_waiting, write_waiting, rsection_waiting>>

\* threads that wait for a condition, and that were woken from the wait
Waiting == {"rdWait", "tryWait", "wrWait", "upWait"}
Woken == {"rdWoken", "tryWoken", "wrWoken", "upWoken"}
WakePairs == {<<"rdWait", "rdWoken">>, <<"tryWait", "tryWoken">>,
              <<"wrWait", "wrWoken">>, <<"upWait", "upWoken">>}

PCs == {"out", "reading", "rsection", "writing", "notify"} \cup Waiting \cup Woken

\* threads counted by read_waiting, write_waiting, rsection_waiting and readers
ReadStates == {"rdWait", "rdWoken", "tryWait", "tryWoken"}
WriteStates == {"wrWait", "wrWoken"}
UpgradeStates == {"upWait", "upWoken"}
ReaderStates == {"reading", "rsection"} \cup UpgradeStates

In(p, s) == {t \in Threads : p[t] \in s}

At(s) == In(pc, s)

Init ==
    /\ pc = [t \in Threads |-> "out"]
    /\ write_tid = None
    /\ readers = 0
    /\ read_waiting = 0
    /\ write_waiting = 0
    /\ rsection_waiting = 0
    /\ rs_tid = None
    /\ list = {}
    /\ setp = {}
    /\ ops = 0

-----------------------------------------------------------------------------
(* Signals: st is pc with the calling thread's own change *)

\* signal(): one of the waiting threads, if there is one
Signalled(st, from, to) ==
    IF \E t \in Threads : st[t] = from
    THEN {[st EXCEPT ![t] = to] : t \in {u \in Threads : st[u] = from}}
    ELSE {st}

\* read_cond.broadcast()
Broadcast(st) ==
    [t \in Threads |-> IF st[t] = "rdWait" THEN "rdWoken"
                       ELSE IF st[t] = "tryWait" THEN "tryWoken" ELSE st[t]]

\* Faulty variant: the readers are forgotten
unlock_signalWriters(st) ==
    IF write_waiting > 0 THEN Signalled(st, "wrWait", "wrWoken") ELSE {st}

\* unlock_signal(): a writer before the readers
unlock_signal(st) ==
    IF write_waiting > 0 THEN Signalled(st, "wrWait", "wrWoken")
    ELSE IF read_waiting > 0 THEN {Broadcast(st)}
    ELSE {st}

\* unlock_read_signal()
unlock_read_signal(st) ==
    IF write_waiting > 0 THEN Signalled(st, "wrWait", "wrWoken") ELSE {st}

\* --readers, and the signal of the last reader
readerLeaves(st) ==
    /\ readers' = readers - 1
    /\ pc' \in (IF readers = 1 THEN unlock_read_signal(st) ELSE {st})

\* notifyIntern(): done() for each notifier in the list
notifyIntern ==
    /\ setp' = setp \ list
    /\ list' = {}

-----------------------------------------------------------------------------
Start(t) ==
    /\ pc[t] = "out"
    /\ ops < MaxOps
    /\ ops' = ops + 1

\* Faulty variant: the loop in wrlock() waits for a writer only
wrlockLoopWriters(t, w) ==
    \/ /\ write_tid # None
       /\ write_waiting' = write_waiting - w + 1
       /\ pc' = [pc EXCEPT ![t] = "wrWait"]
       /\ write_tid' = write_tid
    \/ /\ write_tid = None
       /\ write_waiting' = write_waiting - w
       /\ pc' = [pc EXCEPT ![t] = "writing"]
       /\ write_tid' = t

\* a turn of the loop in wrlock(): w is 1 when the thread comes from the wait
wrlockLoop(t, w) ==
    \/ /\ readers > 0 \/ write_tid # None
       /\ write_waiting' = write_waiting - w + 1
       /\ pc' = [pc EXCEPT ![t] = "wrWait"]
       /\ write_tid' = write_tid
    \/ /\ readers = 0 /\ write_tid = None
       /\ write_waiting' = write_waiting - w
       /\ pc' = [pc EXCEPT ![t] = "writing"]
       /\ write_tid' = t

wrlock(t) ==
    /\ Start(t)
    /\ wrlockLoop(t, 0)
    /\ UNCHANGED <<readers, read_waiting, rsection_waiting, rs_tid, list, setp>>

wrlockWoken(t) ==
    /\ pc[t] = "wrWoken"
    /\ wrlockLoop(t, 1)
    /\ UNCHANGED <<readers, read_waiting, rsection_waiting, rs_tid, list, setp, ops>>

rdlockLoop(t, w) ==
    \/ /\ write_tid # None
       /\ read_waiting' = read_waiting - w + 1
       /\ pc' = [pc EXCEPT ![t] = "rdWait"]
       /\ readers' = readers
    \/ /\ write_tid = None
       /\ read_waiting' = read_waiting - w
       /\ pc' = [pc EXCEPT ![t] = "reading"]
       /\ readers' = readers + 1

rdlock(t) ==
    /\ Start(t)
    /\ rdlockLoop(t, 0)
    /\ UNCHANGED <<write_tid, write_waiting, rsection_waiting, rs_tid, list, setp>>

\* Faulty variant: --read_waiting after the wait is missing
rdlockWokenCounted(t) ==
    /\ pc[t] = "rdWoken"
    /\ rdlockLoop(t, 0)
    /\ UNCHANGED <<write_tid, write_waiting, rsection_waiting, rs_tid, list, setp, ops>>

rdlockWoken(t) ==
    /\ pc[t] = "rdWoken"
    /\ rdlockLoop(t, 1)
    /\ UNCHANGED <<write_tid, write_waiting, rsection_waiting, rs_tid, list, setp, ops>>

\* unlock() by the writer
unlockWrite(t) ==
    /\ pc[t] = "writing"
    /\ write_tid' = None
    /\ notifyIntern
    /\ pc' \in unlock_signal([pc EXCEPT ![t] = "out"])
    /\ UNCHANGED <<readers, counts, rs_tid, ops>>

\* unlock() by a reader
unlockRead(t) ==
    /\ pc[t] = "reading"
    /\ readerLeaves([pc EXCEPT ![t] = "out"])
    /\ UNCHANGED <<write_tid, counts, rs_tid, list, setp, ops>>

-----------------------------------------------------------------------------
upgradeLoop(t, w) ==
    \/ /\ rs_tid # None
       /\ rsection_waiting' = rsection_waiting - w + 1
       /\ pc' = [pc EXCEPT ![t] = "upWait"]
       /\ rs_tid' = rs_tid
    \/ /\ rs_tid = None
       /\ rsection_waiting' = rsection_waiting - w
       /\ pc' = [pc EXCEPT ![t] = "rsection"]
       /\ rs_tid' = t

upgradeReadToRSection(t) ==
    /\ pc[t] = "reading"
    /\ upgradeLoop(t, 0)
    /\ UNCHANGED <<write_tid, readers, read_waiting, write_waiting, list, setp, ops>>

upgradeWoken(t) ==
    /\ pc[t] = "upWoken"
    /\ upgradeLoop(t, 1)
    /\ UNCHANGED <<write_tid, readers, read_waiting, write_waiting, list, setp, ops>>

\* Faulty variant: the notifiers are left in the list
rSectionUnlockQuiet(t) ==
    /\ pc[t] = "rsection"
    /\ rs_tid' = None
    /\ \E st \in IF rsection_waiting > 0
                 THEN Signalled([pc EXCEPT ![t] = "out"], "upWait", "upWoken")
                 ELSE {[pc EXCEPT ![t] = "out"]} : readerLeaves(st)
    /\ UNCHANGED <<write_tid, counts, list, setp, ops>>

\* rSectionUnlock(): notifiers, then one thread that waits to upgrade, then, if
\* this was the last reader, a writer
rSectionUnlock(t) ==
    /\ pc[t] = "rsection"
    /\ rs_tid' = None
    /\ notifyIntern
    /\ \E st \in IF rsection_waiting > 0
                 THEN Signalled([pc EXCEPT ![t] = "out"], "upWait", "upWoken")
                 ELSE {[pc EXCEPT ![t] = "out"]} : readerLeaves(st)
    /\ UNCHANGED <<write_tid, counts, ops>>

\* tryRSectionLockNotifyWaitRead(): waits for a writer, not for the rsection
tryLoop(t, w) ==
    \/ /\ write_tid # None
       /\ read_waiting' = read_waiting - w + 1
       /\ pc' = [pc EXCEPT ![t] = "tryWait"]
       /\ UNCHANGED <<readers, rs_tid, list, setp>>
    \/ /\ write_tid = None /\ rs_tid # None
       /\ read_waiting' = read_waiting - w
       /\ pc' = [pc EXCEPT ![t] = "notify"]
       /\ list' = list \cup {t}
       /\ setp' = setp \cup {t}
       /\ UNCHANGED <<readers, rs_tid>>
    \/ /\ write_tid = None /\ rs_tid = None
       /\ read_waiting' = read_waiting - w
       /\ pc' = [pc EXCEPT ![t] = "rsection"]
       /\ readers' = readers + 1
       /\ rs_tid' = t
       /\ UNCHANGED <<list, setp>>

tryRSectionLockNotifyWaitRead(t) ==
    /\ Start(t)
    /\ tryLoop(t, 0)
    /\ UNCHANGED <<write_tid, write_waiting, rsection_waiting>>

tryWoken(t) ==
    /\ pc[t] = "tryWoken"
    /\ tryLoop(t, 1)
    /\ UNCHANGED <<write_tid, write_waiting, rsection_waiting, ops>>

\* RNotifier::wait(), after which the scan is started again or given up
notifierWait(t) ==
    /\ pc[t] = "notify"
    /\ t \notin setp
    /\ pc' = [pc EXCEPT ![t] = "out"]
    /\ UNCHANGED <<write_tid, readers, counts, rs_tid, list, setp, ops>>

\* a wait for a condition ends without a signal
SpuriousWakeup(t) ==
    /\ \E w \in WakePairs : pc[t] = w[1] /\ pc' = [pc EXCEPT ![t] = w[2]]
    /\ UNCHANGED <<write_tid, readers, counts, rs_tid, list, setp, ops>>

-----------------------------------------------------------------------------
Request(t) == wrlock(t) \/ rdlock(t) \/ tryRSectionLockNotifyWaitRead(t)

\* what a thread that has asked for the lock does
Proceed(t) ==
    \/ wrlockWoken(t) \/ rdlockWoken(t) \/ upgradeWoken(t) \/ tryWoken(t)
    \/ unlockWrite(t) \/ unlockRead(t) \/ upgradeReadToRSection(t)
    \/ rSectionUnlock(t) \/ notifierWait(t)

Next == \E t \in Threads : Request(t) \/ Proceed(t) \/ SpuriousWakeup(t)

Spec == Init /\ [][Next]_vars

\* a thread that can go on does, and gives back what it holds; none has to ask,
\* so the lock may be left alone for ever
FairSpec == Spec /\ \A t \in Threads : WF_vars(Proceed(t))

-----------------------------------------------------------------------------
(* Properties *)

TypeOK ==
    /\ pc \in [Threads -> PCs]
    /\ write_tid \in Threads \cup {None}
    /\ rs_tid \in Threads \cup {None}
    /\ readers \in Nat
    /\ read_waiting \in Nat
    /\ write_waiting \in Nat
    /\ rsection_waiting \in Nat
    /\ list \subseteq Threads
    /\ setp \subseteq Threads
    /\ ops \in Nat

\* The members of the lock describe the threads: the assertions of the lock
\* (write_tid == -1, rs_tid == q_gettid() and readers in rSectionUnlock, setp
\* in done) hold, and the signals are sent by the right counts.
BookkeepingExact ==
    /\ \A t \in Threads : /\ pc[t] = "writing" <=> write_tid = t
                          /\ pc[t] = "rsection" <=> rs_tid = t
    /\ readers = Cardinality(At(ReaderStates))
    /\ read_waiting = Cardinality(At(ReadStates))
    /\ write_waiting = Cardinality(At(WriteStates))
    /\ rsection_waiting = Cardinality(At(UpgradeStates))
    /\ write_tid # None => readers = 0
    /\ list = setp /\ setp \subseteq At({"notify"})

\* No thread sleeps while nobody is going to wake it: a reader, since the
\* writer's unlock wakes a writer rather than readers, relies on the writers
\* that wait; a writer on the holders or on the writer that was woken; a
\* thread that upgrades, and one that waits for its notifier, on the thread
\* in the rsection.
NoLostWakeup ==
    /\ At({"rdWait", "tryWait"}) # {} =>
           write_tid # None \/ At(WriteStates) # {}
    /\ At({"wrWait"}) # {} =>
           write_tid # None \/ readers > 0 \/ At({"wrWoken"}) # {}
    /\ At({"upWait"}) # {} => rs_tid # None \/ At({"upWoken"}) # {}
    /\ setp # {} => rs_tid # None

modeOf(x) ==
    CASE x = "writing" -> "write"
      [] x = "rsection" -> "rsection"
      [] x \in {"reading"} \cup UpgradeStates -> "read"
      [] OTHER -> "out"

mode == [t \in Threads |-> modeOf(pc[t])]

Lock == INSTANCE ObjectLock

\* The lock keeps what ObjectLock promises, and what ObjectGC assumes of the
\* lock of an object: a writer excludes all others, one thread at a time is in
\* the rsection, it is a reader, and readers may go on around it.
LockSpec == Lock!Spec

\* Every thread that waits, for the lock or for its notifier, gets what it
\* waits for, even when others overtake it between the signal and its turn,
\* once no more threads ask for the lock.
Served ==
    LET waits == Waiting \cup Woken \cup {"notify"}
    IN \A t \in Threads : pc[t] \in waits ~> pc[t] \notin waits
=============================================================================
