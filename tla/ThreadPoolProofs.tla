-------------------------- MODULE ThreadPoolProofs ---------------------------
(***************************************************************************)
(* Proofs about the thread pool for any number of threads, tasks and       *)
(* callers and any limits: tasks are neither lost nor run twice, the lists *)
(* hold live threads only, the two kinds of mutex are never taken in       *)
(* opposite orders, and no signal is lost.                                 *)
(***************************************************************************)
EXTENDS ThreadPool, FiniteSetTheorems, TLAPS

-----------------------------------------------------------------------------
(* The inductive invariant *)

(* worker() stops the threads; it has stopped them. *)
Stopping == {"stopidle", "stopactive", "confirm", "finish"}
Late == {"cancel", "end"}
Normal == wpc \notin Stopping \cup Late

(* A thread of fh, and one of ah that has not been told to stop. *)
Idle(i) == tpc[i] \in {"new", "waiting"} /\ task[i] = None /\ ~tstop[i]
Working(i) ==
    /\ ~tstop[i]
    /\ \/ tpc[i] \in {"new", "woken"} /\ task[i] # None
       \/ tpc[i] \in {"running", "done"}
       \/ tpc[i] = "waiting" /\ stopflag

(* What the flags say, and where the pool's own thread may sleep. *)
Flags ==
    /\ ~Normal => stopflag
    /\ stopflag => shutdown
    /\ detach => stopflag
    /\ stopped <=> wpc \in Late
    /\ stopflag /\ ~detach => q = <<>>
    /\ wpc \notin Late => q_copy = <<>>
    /\ wpc \in Late => q = <<>> /\ (~detach => q_copy = <<>>)
    /\ wpc \in {"wait", "timedwait"} => q = <<>> /\ ~shutdown /\ ~stopflag
    /\ wpc = "getwait" => fh = {} /\ Cardinality(ah) = Max /\ ~stopflag /\ q # <<>> /\ waiting
    /\ wpc = "submit" => q # <<>> /\ ~stopflag
    /\ stopped => \A c \in Clients : client[c] # "asleep"

Lists ==
    /\ ah \cap fh = {}
    /\ Max > 0 => Cardinality(ah) + Cardinality(fh) <= Max
    /\ wpc \in {"submit", "release"} => cur \in Workers
    /\ wpc = "submit" => cur \in ah
    /\ wpc = "release" => cur \notin ah \cup fh
    /\ wpc = "stopidle" => left \subseteq fh
    /\ wpc \in {"stopactive", "confirm"} => left \subseteq ah
    /\ wpc = "confirm" => ~detach

(* The state of thread i by the list it is in. *)
Thr(i) ==
    /\ Normal /\ i \in fh => Idle(i)
    /\ Normal /\ i \in ah /\ ~(wpc = "submit" /\ i = cur) => Working(i)
    /\ wpc \in {"submit", "release"} /\ i = cur => Idle(i)
    /\ wpc = "stopidle" /\ i \in left => Idle(i)
    /\ wpc = "stopidle" /\ i \in fh \ left => tstop[i]
    /\ wpc = "stopidle" /\ i \in ah => Working(i)
    /\ wpc = "stopactive" /\ i \in left => Working(i)
    /\ wpc = "stopactive" /\ i \in (ah \cup fh) \ left => tstop[i]
    /\ wpc = "stopactive" /\ i \in ah \ left /\ ~detach => tconfirm[i] /\ tpc[i] # "none"
    /\ wpc = "confirm" /\ i \in left => tconfirm[i] /\ tpc[i] # "none"
    /\ wpc = "confirm" /\ i \in ah \ left => tpc[i] = "none"
    /\ wpc = "finish" /\ i \in ah /\ ~detach => tpc[i] = "none"
    /\ wpc \in {"confirm", "finish"} \cup Late /\ i \in ah \cup fh => tstop[i]
    /\ i \notin ah \cup fh /\ ~(wpc = "release" /\ i = cur) => tstop[i] \/ tpc[i] \in {"none", "stopped"}
    /\ task[i] # None /\ wpc \notin Late => i \in ah
    /\ wpc \in Late /\ ~detach => task[i] = None
    /\ tstop[i] => tpc[i] # "done"
    /\ task[i] # None => /\ tpc[i] \in {"new", "woken", "running"}
                         /\ fate[task[i]] = IF tpc[i] = "running" THEN "running" ELSE "given"
    /\ tpc[i] = "running" => task[i] # None

Distinct(s) == \A j, k \in 1 .. Len(s) : j # k => s[j] # s[k]

(* Every accepted task is in one place. *)
Accounts ==
    /\ Distinct(q) /\ Distinct(q_copy)
    /\ \A t \in Tasks : fate[t] = "queued" <=> t \in Image(q) \cup Image(q_copy)
    /\ \A i, j \in Workers : i # j /\ task[i] # None => task[i] # task[j]
    /\ \A t \in Tasks : fate[t] \in {"given", "running"} => \E i \in Workers : task[i] = t
    /\ stopped /\ ~detach => \A t \in Tasks : fate[t] # "cancelled"
    /\ ~stopped => \A t \in Tasks : fate[t] # "cancelled"

IInv == TypeOK /\ Flags /\ Lists /\ (\A i \in Workers : Thr(i)) /\ Accounts

-----------------------------------------------------------------------------
(* Facts about the parts of the state *)

LEMMA Params ==
    /\ Max \in Nat /\ MinIdle \in Nat /\ MaxIdle \in Nat /\ Release \in BOOLEAN
    /\ None \notin Workers /\ None \notin Tasks /\ IsFiniteSet(Workers)
BY ParamsAssumption, Zenon

(* What the proofs use of the sizes of sets of pool threads. *)
Counted ==
    \A S \in SUBSET Workers :
        /\ Cardinality(S) \in Nat
        /\ \A i : i \notin S => Cardinality(S \cup {i}) = Cardinality(S) + 1
        /\ \A i \in S : Cardinality(S \ {i}) = Cardinality(S) - 1
        /\ S = {} <=> Cardinality(S) = 0

LEMMA Sizes ==
    ASSUME Counted, NEW S, S \subseteq Workers
    PROVE  /\ Cardinality(S) \in Nat
           /\ \A i : i \notin S => Cardinality(S \cup {i}) = Cardinality(S) + 1
           /\ \A i \in S : Cardinality(S \ {i}) = Cardinality(S) - 1
           /\ S = {} <=> Cardinality(S) = 0
BY Zenon DEF Counted

(* The tasks keep their places. *)
LEMMA AccountsSame ==
    ASSUME Accounts, UNCHANGED <<q, q_copy, fate, task, stopped>>, stopped => detach' = detach
    PROVE  Accounts'
BY DEF Accounts, Distinct, Image

(* Nothing that concerns a pool thread changes. *)
LEMMA ThrSame ==
    ASSUME NEW j \in Workers, Thr(j), task[j] # None => fate'[task[j]] = fate[task[j]],
           UNCHANGED <<ah, fh, left, cur, wpc, stopflag, detach, tpc, task, tstop, tconfirm>>
    PROVE  Thr(j)'
BY DEF Thr, Idle, Working, Normal, Stopping, Late

(* A task leaves the front of a queue, or joins it at the end. *)
LEMMA FrontLeaves ==
    ASSUME NEW s \in Seq(Tasks), s # <<>>, Distinct(s)
    PROVE  /\ Head(s) \in Tasks /\ Tail(s) \in Seq(Tasks) /\ Distinct(Tail(s))
           /\ Head(s) \in Image(s) /\ Image(Tail(s)) = Image(s) \ {Head(s)}
<1>1. /\ Len(s) \in Nat \ {0} /\ Head(s) = s[1] /\ Head(s) \in Tasks
      /\ Tail(s) \in Seq(Tasks) /\ Len(Tail(s)) = Len(s) - 1
      /\ \A k \in 1 .. Len(Tail(s)) : Tail(s)[k] = s[k + 1]
    OBVIOUS
<1>2. \A k \in 1 .. Len(Tail(s)) : k + 1 \in 1 .. Len(s) /\ k + 1 # 1
    BY <1>1
<1>3. 1 \in 1 .. Len(s)
    BY <1>1
<1>4. Distinct(Tail(s))
    <2> SUFFICES ASSUME NEW j \in 1 .. Len(Tail(s)), NEW k \in 1 .. Len(Tail(s)), j # k
                 PROVE  Tail(s)[j] # Tail(s)[k]
        BY Zenon DEF Distinct
    <2>1. j + 1 # k + 1
        OBVIOUS
    <2> QED
        BY <1>1, <1>2, <2>1, Zenon DEF Distinct
<1>5. ASSUME NEW x \in Image(Tail(s)) PROVE x \in Image(s) \ {Head(s)}
    <2>1. PICK k \in 1 .. Len(Tail(s)) : x = Tail(s)[k]
        BY Zenon DEF Image
    <2> QED
        BY <2>1, <1>1, <1>2, <1>3, ZenonT(40) DEF Image, Distinct
<1>6. ASSUME NEW x \in Image(s) \ {Head(s)} PROVE x \in Image(Tail(s))
    <2>1. PICK k \in 1 .. Len(s) : x = s[k]
        BY Zenon DEF Image
    <2>2. k - 1 \in 1 .. Len(Tail(s)) /\ (k - 1) + 1 = k
        BY <2>1, <1>1
    <2> QED
        BY <2>1, <2>2, <1>1, Zenon DEF Image
<1> QED
    BY <1>1, <1>3, <1>4, <1>5, <1>6, Zenon DEF Image

LEMMA EndJoins ==
    ASSUME NEW s \in Seq(Tasks), Distinct(s), NEW t \in Tasks, t \notin Image(s)
    PROVE  /\ Append(s, t) \in Seq(Tasks) /\ Distinct(Append(s, t))
           /\ Image(Append(s, t)) = Image(s) \cup {t}
<1> DEFINE r == Append(s, t)
           z == Len(s) + 1
<1>1. /\ Len(s) \in Nat /\ r \in Seq(Tasks) /\ Len(r) = z
      /\ \A k \in 1 .. Len(s) : r[k] = s[k]
      /\ r[z] = t
    OBVIOUS
<1>2. 1 .. Len(r) = (1 .. Len(s)) \cup {z}
    BY <1>1
<1> HIDE DEF r, z
<1>3. Image(r) = Image(s) \cup {t}
    BY <1>1, <1>2 DEF Image
<1>4. \A k \in 1 .. Len(s) : s[k] # t
    BY Zenon DEF Image
<1>5. \A j, k \in 1 .. Len(s) : j # k => r[j] # r[k]
    BY <1>1, Zenon DEF Distinct
<1>6. \A k \in 1 .. Len(s) : r[k] # r[z]
    BY <1>1, <1>4, Zenon
<1>7. Distinct(r)
    BY <1>2, <1>5, <1>6, Zenon DEF Distinct
<1> QED
    BY <1>1, <1>3, <1>7, Zenon DEF r

LEMMA EmptyFacts == Distinct(<<>>) /\ Image(<<>>) = {}
BY DEF Distinct, Image

(* The thread that Startable names. *)
LEMMA StartFacts ==
    ASSUME IInv, Normal, NEW i \in Startable, Start(i)
    PROVE  /\ i \in Workers /\ i \notin ah \cup fh /\ i # None
           /\ tpc' = [tpc EXCEPT ![i] = "new"] /\ task' = task
           /\ tstop' = [tstop EXCEPT ![i] = FALSE]
           /\ tconfirm' = [tconfirm EXCEPT ![i] = FALSE]
           /\ task[i] = None
<1>1. i \in Workers /\ tpc[i] = "none"
    BY Zenon DEF Startable
<1>2. task[i] = None /\ i \notin ah \cup fh
    <2>1. CASE wpc = "submit" /\ i = cur
        BY <1>1, <2>1, Zenon DEF IInv, Thr, Idle
    <2>2. CASE ~(wpc = "submit" /\ i = cur)
        BY <1>1, <2>2, Zenon DEF IInv, Thr, Idle, Working
    <2> QED
        BY <2>1, <2>2, Zenon
<1>3. task' = task
    BY <1>1, <1>2, Zenon DEF Start, IInv, TypeOK
<1> QED
    BY <1>1, <1>2, <1>3, Params, Zenon DEF Start

-----------------------------------------------------------------------------
(* The steps of the pool's own thread *)

(* It goes on or falls asleep, and no list or thread changes. *)
LEMMA ControlInv ==
    ASSUME IInv, WorkerInit \/ WorkerTop \/ WorkerSpurious \/ WorkerTimeOut \/ WorkerGetResume
    PROVE  IInv'
<1> USE DEF IInv
<1>1. UNCHANGED <<q, q_copy, fate, ah, fh, shutdown, stopped, detach, tpc, task, tstop, tconfirm, client, cur>>
    BY Zenon DEF WorkerInit, WorkerTop, WorkerSpurious, WorkerTimeOut, WorkerGetResume, Goto, StopIdle,
           poolVars, flagVars, threadVars
<1>2. Accounts'
    BY <1>1, AccountsSame, Zenon
<1>3. CASE WorkerInit
    <2>1. wpc = "init" /\ wpc' = "fill" /\ UNCHANGED <<left, waiting, stopflag>>
        BY <1>3, Zenon DEF WorkerInit, Goto, flagVars
    <2>2. TypeOK' /\ Flags' /\ Lists'
        BY <1>1, <2>1 DEF TypeOK, WPCs, Busy, Flags, Lists, Normal, Stopping, Late
    <2>3. ASSUME NEW j \in Workers PROVE Thr(j)'
        BY <1>1, <2>1 DEF Thr, Idle, Working, Normal, Stopping, Late, TypeOK
    <2> QED
        BY <1>2, <2>2, <2>3
<1>4. CASE WorkerGetResume
    <2>1. wpc = "getwoken" /\ wpc' = "dispatch" /\ waiting' = FALSE /\ UNCHANGED <<left, stopflag>>
        BY <1>4, Zenon DEF WorkerGetResume, Goto
    <2>2. TypeOK' /\ Flags' /\ Lists'
        BY <1>1, <2>1, Zenon DEF TypeOK, WPCs, Busy, Flags, Lists, Normal, Stopping, Late
    <2>3. ASSUME NEW j \in Workers PROVE Thr(j)'
        BY <1>1, <2>1 DEF Thr, Idle, Working, Normal, Stopping, Late, TypeOK
    <2> QED
        BY <1>2, <2>2, <2>3
<1>5. CASE WorkerTimeOut
    <2>1. wpc = "timedwait" /\ wpc' = "timedout" /\ UNCHANGED <<left, waiting, stopflag>>
        BY <1>5, Zenon DEF WorkerTimeOut, Goto, flagVars
    <2>2. TypeOK' /\ Flags' /\ Lists'
        BY <1>1, <2>1 DEF TypeOK, WPCs, Busy, Flags, Lists, Normal, Stopping, Late
    <2>3. ASSUME NEW j \in Workers PROVE Thr(j)'
        BY <1>1, <2>1 DEF Thr, Idle, Working, Normal, Stopping, Late, TypeOK
    <2> QED
        BY <1>2, <2>2, <2>3
<1>6. CASE WorkerSpurious
    <2>1. \/ wpc \in {"wait", "timedwait"} /\ wpc' = "woken"
          \/ wpc = "getwait" /\ wpc' = "getwoken"
        BY <1>6, Zenon DEF WorkerSpurious, Goto, Woken
    <2>2. UNCHANGED <<left, waiting, stopflag>>
        BY <1>6, Zenon DEF WorkerSpurious, Goto, flagVars
    <2> QED
        BY <1>1, <1>2, <2>1, <2>2 DEF TypeOK, WPCs, Busy, Flags, Lists, Thr, Idle, Working, Normal, Stopping, Late
<1>7. CASE WorkerTop
    <2>1. wpc = "top" /\ waiting' = waiting
        BY <1>7, Zenon DEF WorkerTop
    <2>2. CASE wpc' = "stopidle" /\ left' = fh /\ stopflag' = TRUE /\ (stopflag \/ (q = <<>> /\ shutdown))
        BY <1>1, <1>2, <2>1, <2>2 DEF TypeOK, WPCs, Busy, Flags, Lists, Thr, Idle, Working, Normal, Stopping, Late
    <2>3. CASE /\ ~stopflag /\ q = <<>> /\ ~shutdown /\ wpc' \in {"timedwait", "wait"}
               /\ UNCHANGED <<left, stopflag>>
        BY <1>1, <1>2, <2>1, <2>3 DEF TypeOK, WPCs, Busy, Flags, Lists, Thr, Idle, Working, Normal, Stopping, Late
    <2>4. CASE wpc' = "dispatch" /\ UNCHANGED <<left, stopflag>>
        BY <1>1, <1>2, <2>1, <2>4 DEF TypeOK, WPCs, Busy, Flags, Lists, Thr, Idle, Working, Normal, Stopping, Late
    <2> QED
        BY <1>7, <2>2, <2>3, <2>4, Zenon DEF WorkerTop, Goto, StopIdle, TypeOK
<1> QED
    BY <1>3, <1>4, <1>5, <1>6, <1>7, Zenon

(* An idle thread is started, or the loop begins again. *)
LEMMA FillInv ==
    ASSUME Counted, IInv, WorkerFill
    PROVE  IInv'
<1> USE DEF IInv
<1>1. wpc = "fill" /\ Normal /\ UNCHANGED <<q, q_copy, fate, ah, waiting, shutdown, stopflag, stopped, detach, client>>
    BY Zenon DEF WorkerFill, flagVars, Normal, Stopping, Late
<1>2. CASE wpc' = "top" /\ UNCHANGED <<fh, cur, left, tpc, task, tstop, tconfirm>>
    <2>1. Accounts'
        BY <1>1, <1>2, AccountsSame, Zenon
    <2> QED
        BY <1>1, <1>2, <2>1 DEF TypeOK, WPCs, Busy, Flags, Lists, Thr, Idle, Working, Normal, Stopping, Late
<1>3. CASE /\ Max = 0 \/ Cardinality(fh) + Cardinality(ah) < Max
           /\ \E i \in Startable : Start(i) /\ fh' = fh \cup {i}
           /\ UNCHANGED <<wpc, cur, left>>
    <2>1. PICK i \in Startable : Start(i) /\ fh' = fh \cup {i}
        BY <1>3, Zenon
    <2>2. /\ i \in Workers /\ i \notin ah \cup fh
          /\ tpc' = [tpc EXCEPT ![i] = "new"] /\ task' = task
          /\ tstop' = [tstop EXCEPT ![i] = FALSE] /\ tconfirm' = [tconfirm EXCEPT ![i] = FALSE]
          /\ task[i] = None
        BY <1>1, <2>1, StartFacts, Zenon
    <2>3. TypeOK'
        BY <1>1, <1>3, <2>1, <2>2, Zenon DEF TypeOK, TPCs
    <2>4. Flags'
        BY <1>1, <1>3, Zenon DEF Flags, Normal, Stopping, Late
    <2>5. Lists'
        <3>1. /\ Cardinality(fh') = Cardinality(fh) + 1
              /\ Cardinality(fh) \in Nat /\ Cardinality(ah) \in Nat
            BY <2>1, <2>2, Sizes, Zenon DEF TypeOK
        <3>2. Max > 0 => Cardinality(ah') + Cardinality(fh') <= Max
            BY <1>1, <1>3, <3>1, Params
        <3> QED
            BY <1>1, <1>3, <2>1, <2>2, <3>2, Zenon DEF Lists, Late
    <2>6. ASSUME NEW j \in Workers PROVE Thr(j)'
        <3>1. CASE j = i
            BY <1>1, <1>3, <2>1, <2>2, <3>1, Zenon DEF Thr, Idle, Working, Normal, Stopping, Late, TypeOK
        <3>2. CASE j # i
            BY <1>1, <1>3, <2>1, <2>2, <3>2, Zenon DEF Thr, Idle, Working, Normal, Stopping, Late, TypeOK
        <3> QED
            BY <3>1, <3>2, Zenon
    <2>7. Accounts'
        BY <1>1, <2>2, AccountsSame, Zenon
    <2> QED
        BY <2>3, <2>4, <2>5, <2>6, <2>7, Zenon
<1> QED
    BY <1>2, <1>3, Zenon DEF WorkerFill, Goto, threadVars

(* The wait on cond is over. *)
LEMMA ResumeInv ==
    ASSUME Counted, IInv, WorkerResume
    PROVE  IInv'
<1> USE DEF IInv
<1>1. /\ wpc \in {"woken", "timedout"} /\ Normal
      /\ UNCHANGED <<q, q_copy, fate, ah, waiting, shutdown, stopflag, stopped, detach, client,
                     tpc, task, tstop, tconfirm>>
    BY Zenon DEF WorkerResume, flagVars, threadVars, Normal, Stopping, Late
<1>2. Accounts'
    BY <1>1, AccountsSame, Zenon
<1>3. CASE /\ \E i \in fh : fh' = fh \ {i} /\ cur' = i
           /\ wpc' = "release" /\ UNCHANGED left
    <2>1. PICK i \in fh : fh' = fh \ {i} /\ cur' = i
        BY <1>3, Zenon
    <2>2. TypeOK' /\ Flags'
        BY <1>1, <1>3, <2>1, Zenon DEF TypeOK, WPCs, Busy, Flags, Normal, Stopping, Late
    <2>3. Lists'
        <3>1. Cardinality(fh') = Cardinality(fh) - 1 /\ Cardinality(fh) \in Nat /\ Cardinality(ah) \in Nat
            BY <2>1, Sizes, Zenon DEF TypeOK
        <3>2. Max > 0 => Cardinality(ah') + Cardinality(fh') <= Max
            BY <1>1, <3>1, Params DEF Lists
        <3> QED
            BY <1>1, <1>3, <2>1, <3>2, Zenon DEF Lists, TypeOK, Late
    <2>4. \A j \in Workers : Thr(j)'
        BY <1>1, <1>3, <2>1 DEF Thr, Idle, Working, Normal, Stopping, Late, Lists
    <2> QED
        BY <1>2, <2>2, <2>3, <2>4, Zenon
<1>4. CASE wpc' = "stopidle" /\ left' = fh /\ stopflag /\ UNCHANGED <<cur, fh>>
    BY <1>1, <1>2, <1>4, ZenonT(40) DEF TypeOK, WPCs, Busy, Flags, Lists, Thr, Idle, Working, Normal, Stopping, Late
<1>5. CASE wpc' = "dispatch" /\ UNCHANGED <<left, cur, fh>>
    BY <1>1, <1>2, <1>5 DEF TypeOK, WPCs, Busy, Flags, Lists, Thr, Idle, Working, Normal, Stopping, Late
<1> QED
    BY <1>3, <1>4, <1>5, Zenon DEF WorkerResume, Goto, StopIdle

(* stop() or stopWait() on an idle or a working thread. *)
LEMMA StopFacts ==
    ASSUME TypeOK, NEW i \in Workers, NEW b \in BOOLEAN, StopThread(i, b)
    PROVE  /\ tpc[i] # "done" /\ task' = task
           /\ tstop' = [tstop EXCEPT ![i] = TRUE] /\ tconfirm' = [tconfirm EXCEPT ![i] = b]
           /\ tpc' \in [Workers -> TPCs]
           /\ tpc'[i] = IF tpc[i] = "waiting" THEN "woken" ELSE tpc[i]
           /\ \A j \in Workers : j # i => tpc'[j] = tpc[j]
BY Zenon DEF StopThread, Signal, TypeOK, TPCs

LEMMA ReleaseInv ==
    ASSUME IInv, WorkerRelease
    PROVE  IInv'
<1> USE DEF IInv
<1>1. /\ wpc = "release" /\ wpc' = "top" /\ cur \in Workers /\ cur \notin ah \cup fh
      /\ UNCHANGED <<q, q_copy, fate, ah, fh, waiting, shutdown, stopflag, stopped, detach, client, cur, left>>
    BY Zenon DEF WorkerRelease, Goto, poolVars, flagVars, Lists
<1>2. /\ tpc[cur] # "done" /\ task' = task
      /\ tstop' = [tstop EXCEPT ![cur] = TRUE] /\ tconfirm' = [tconfirm EXCEPT ![cur] = FALSE]
      /\ tpc' \in [Workers -> TPCs]
      /\ tpc'[cur] = IF tpc[cur] = "waiting" THEN "woken" ELSE tpc[cur]
      /\ \A j \in Workers : j # cur => tpc'[j] = tpc[j]
    BY <1>1, StopFacts, Zenon DEF WorkerRelease
<1>3. TypeOK' /\ Flags' /\ Lists'
    BY <1>1, <1>2, Zenon DEF TypeOK, WPCs, Busy, Flags, Lists, Normal, Stopping, Late
<1>4. ASSUME NEW j \in Workers PROVE Thr(j)'
    <2>1. CASE j = cur
        BY <1>1, <1>2, <2>1, Zenon DEF Thr, Idle, Working, Normal, Stopping, Late, TypeOK
    <2>2. CASE j # cur
        BY <1>1, <1>2, <2>2, Zenon DEF Thr, Idle, Working, Normal, Stopping, Late, TypeOK
    <2> QED
        BY <2>1, <2>2, Zenon
<1>5. Accounts'
    BY <1>1, <1>2, AccountsSame, Zenon
<1> QED
    BY <1>3, <1>4, <1>5, Zenon

(* getThreadUnlocked() *)
LEMMA DispatchInv ==
    ASSUME Counted, IInv, WorkerDispatch
    PROVE  IInv'
<1> USE DEF IInv
<1>1. /\ wpc = "dispatch" /\ Normal
      /\ UNCHANGED <<q, q_copy, fate, shutdown, stopflag, stopped, detach, client>>
    BY Zenon DEF WorkerDispatch, Normal, Stopping, Late
<1>2. CASE wpc' = "fill" /\ UNCHANGED <<cur, left, ah, fh, waiting, tpc, task, tstop, tconfirm>>
    <2>1. Accounts'
        BY <1>1, <1>2, AccountsSame, Zenon
    <2> QED
        BY <1>1, <1>2, <2>1 DEF TypeOK, WPCs, Busy, Flags, Lists, Thr, Idle, Working, Normal, Stopping, Late
<1>3. CASE /\ ~stopflag /\ q # <<>> /\ fh = {} /\ Cardinality(ah) = Max
           /\ waiting' = TRUE /\ wpc' = "getwait" /\ UNCHANGED <<cur, left, ah, fh, tpc, task, tstop, tconfirm>>
    <2>1. Accounts'
        BY <1>1, <1>3, AccountsSame, Zenon
    <2> QED
        BY <1>1, <1>3, <2>1, ZenonT(40) DEF TypeOK, WPCs, Busy, Flags, Lists, Thr, Idle, Working, Normal, Stopping, Late
<1>4. CASE /\ ~stopflag /\ q # <<>> /\ wpc' = "submit" /\ UNCHANGED <<left, waiting>>
           /\ \E i \in fh : fh' = fh \ {i} /\ ah' = ah \cup {i} /\ cur' = i /\ UNCHANGED threadVars
    <2>1. PICK i \in fh : fh' = fh \ {i} /\ ah' = ah \cup {i} /\ cur' = i /\ UNCHANGED threadVars
        BY <1>4, Zenon
    <2>2. i \in Workers /\ i \notin ah /\ UNCHANGED <<tpc, task, tstop, tconfirm>>
        BY <2>1, Zenon DEF TypeOK, Lists, threadVars
    <2>3. TypeOK' /\ Flags'
        BY <1>1, <1>4, <2>1, <2>2, Zenon DEF TypeOK, WPCs, Busy, Flags, Normal, Stopping, Late
    <2>4. Lists'
        <3>1. /\ Cardinality(fh') = Cardinality(fh) - 1 /\ Cardinality(fh) \in Nat
              /\ Cardinality(ah') = Cardinality(ah) + 1 /\ Cardinality(ah) \in Nat
            BY <2>1, <2>2, Sizes, Zenon DEF TypeOK
        <3>2. Max > 0 => Cardinality(ah') + Cardinality(fh') <= Max
            BY <3>1, Params DEF Lists
        <3> QED
            BY <1>1, <1>4, <2>1, <2>2, <3>2, Zenon DEF Lists, TypeOK, Late
    <2>5. ASSUME NEW j \in Workers PROVE Thr(j)'
        BY <1>1, <1>4, <2>1, <2>2, Zenon DEF Thr, Idle, Working, Normal, Stopping, Late
    <2>6. Accounts'
        BY <1>1, <2>2, AccountsSame, Zenon
    <2> QED
        BY <2>3, <2>4, <2>5, <2>6, Zenon
<1>5. CASE /\ ~stopflag /\ q # <<>> /\ fh = {} /\ ~(Max > 0 /\ Cardinality(ah) = Max)
           /\ wpc' = "submit" /\ UNCHANGED <<left, waiting, fh>>
           /\ \E i \in Startable : Start(i) /\ ah' = ah \cup {i} /\ cur' = i
    <2>1. PICK i \in Startable : Start(i) /\ ah' = ah \cup {i} /\ cur' = i
        BY <1>5, Zenon
    <2>2. /\ i \in Workers /\ i \notin ah \cup fh
          /\ tpc' = [tpc EXCEPT ![i] = "new"] /\ task' = task
          /\ tstop' = [tstop EXCEPT ![i] = FALSE] /\ tconfirm' = [tconfirm EXCEPT ![i] = FALSE]
          /\ task[i] = None
        BY <1>1, <2>1, StartFacts, Zenon
    <2>3. TypeOK'
        BY <1>1, <1>5, <2>1, <2>2, Zenon DEF TypeOK, TPCs, WPCs, Busy
    <2>4. Flags'
        BY <1>1, <1>5, Zenon DEF Flags, Normal, Stopping, Late
    <2>5. Lists'
        <3>1. /\ Cardinality(ah') = Cardinality(ah) + 1
              /\ Cardinality(fh) = 0 /\ Cardinality(ah) \in Nat
            BY <1>5, <2>1, <2>2, Sizes, Zenon DEF TypeOK
        <3>2. Max > 0 => Cardinality(ah') + Cardinality(fh') <= Max
            BY <1>5, <3>1, Params DEF Lists
        <3> QED
            BY <1>1, <1>5, <2>1, <2>2, <3>2, Zenon DEF Lists, Late
    <2>6. ASSUME NEW j \in Workers PROVE Thr(j)'
        <3>1. CASE j = i
            BY <1>1, <1>5, <2>1, <2>2, <3>1, Zenon DEF Thr, Idle, Working, Normal, Stopping, Late, TypeOK
        <3>2. CASE j # i
            BY <1>1, <1>5, <2>1, <2>2, <3>2, ZenonT(40) DEF Thr, Idle, Working, Normal, Stopping, Late, TypeOK
        <3> QED
            BY <3>1, <3>2, Zenon
    <2>7. Accounts'
        BY <1>1, <2>2, AccountsSame, Zenon
    <2> QED
        BY <2>3, <2>4, <2>5, <2>6, <2>7, Zenon
<1> QED
    BY <1>2, <1>3, <1>4, <1>5, Zenon DEF WorkerDispatch, Goto, threadVars

(* The task at the front of the queue is handed over. *)
LEMMA SubmitInv ==
    ASSUME IInv, WorkerSubmit
    PROVE  IInv'
<1> USE DEF IInv
<1> DEFINE h == Head(q)
<1>1. /\ wpc = "submit" /\ wpc' = "dispatch" /\ cur \in Workers /\ cur \in ah /\ tpc[cur] \in {"new", "waiting"}
      /\ task[cur] = None /\ ~tstop[cur] /\ q # <<>> /\ ~stopflag /\ Normal
      /\ UNCHANGED <<q_copy, ah, fh, waiting, shutdown, stopflag, stopped, detach, client, cur, left, tstop, tconfirm>>
    BY Zenon DEF WorkerSubmit, Goto, flagVars, Lists, Flags, Thr, Idle, Normal, Stopping, Late
<1>2. /\ task' = [task EXCEPT ![cur] = h] /\ fate' = [fate EXCEPT ![h] = "given"] /\ q' = Tail(q)
    BY Zenon DEF WorkerSubmit
<1>3. /\ h \in Tasks /\ q' \in Seq(Tasks) /\ Distinct(q') /\ h \in Image(q) /\ Image(q') = Image(q) \ {h}
    BY <1>1, <1>2, FrontLeaves, Zenon DEF TypeOK, Accounts
<1>4. /\ tpc' \in [Workers -> TPCs] /\ tpc'[cur] = IF tpc[cur] = "waiting" THEN "woken" ELSE "new"
      /\ \A j \in Workers : j # cur => tpc'[j] = tpc[j]
    BY <1>1, Zenon DEF WorkerSubmit, Signal, TypeOK, TPCs
<1>5. h # None /\ fate[h] = "queued" /\ q_copy = <<>>
    BY <1>1, <1>3, Params, Zenon DEF Accounts, Flags, Late, Normal
<1> HIDE DEF h
<1>6. TypeOK'
    BY <1>1, <1>2, <1>3, <1>4, Zenon DEF TypeOK, WPCs, Busy
<1>7. Flags' /\ Lists'
    BY <1>1, Zenon DEF Flags, Lists, Normal, Stopping, Late
<1>8. ASSUME NEW j \in Workers PROVE Thr(j)'
    <2>1. CASE j = cur
        <3>1. task'[j] = h /\ fate'[h] = "given" /\ tpc'[j] \in {"new", "woken"}
            BY <1>1, <1>2, <1>3, <1>4, <2>1, Zenon DEF TypeOK
        <3>2. j \notin fh' /\ j \in ah' /\ wpc' = "dispatch" /\ ~tstop'[j]
            BY <1>1, <2>1, Zenon DEF Lists
        <3>3. task'[j] # None /\ fate'[task'[j]] = "given"
            BY <1>5, <3>1, Zenon
        <3> QED
            BY <3>1, <3>2, <3>3, Zenon DEF Thr, Idle, Working, Normal, Stopping, Late
    <2>2. CASE j # cur
        <3>1. task'[j] = task[j] /\ tpc'[j] = tpc[j]
            BY <1>2, <1>4, <2>2, Zenon DEF TypeOK
        <3>2. task[j] # None => task[j] \in Tasks /\ fate[task[j]] # "queued"
            <4>1. task[j] \in Tasks \cup {None}
                BY Zenon DEF TypeOK
            <4>2. Thr(j)
                BY Zenon
            <4>3. task[j] # None => fate[task[j]] # "queued"
                BY <4>2, Zenon DEF Thr
            <4> QED
                BY <4>1, <4>3, Zenon
        <3>3. task[j] # None => fate'[task[j]] = fate[task[j]]
            BY <1>2, <1>5, <3>2, Zenon DEF TypeOK
        <3> QED
            BY <1>1, <2>2, <3>1, <3>3, Zenon DEF Thr, Idle, Working, Normal, Stopping, Late
    <2> QED
        BY <2>1, <2>2, Zenon
<1>9. Accounts'
    <2>1. ASSUME NEW t \in Tasks PROVE fate'[t] = "queued" <=> t \in Image(q') \cup Image(q_copy')
        BY <1>1, <1>2, <1>3, <1>5, EmptyFacts, Zenon DEF Accounts, TypeOK
    <2>2. \A i \in Workers : task[i] # h
        BY <1>5, Zenon DEF Thr
    <2>3. \A i, j \in Workers : i # j /\ task'[i] # None => task'[i] # task'[j]
        BY <1>2, <1>5, <2>2, Zenon DEF Accounts, TypeOK
    <2>4. ASSUME NEW t \in Tasks, fate'[t] \in {"given", "running"} PROVE \E i \in Workers : task'[i] = t
        <3>1. CASE t = h
            BY <1>1, <1>2, <3>1, Zenon DEF TypeOK
        <3>2. CASE t # h
            <4>1. fate[t] \in {"given", "running"}
                BY <1>2, <2>4, <3>2, Zenon DEF TypeOK
            <4>2. PICK i \in Workers : task[i] = t
                BY <4>1, Zenon DEF Accounts
            <4>3. i # cur
                BY <1>1, <4>2, Params, Zenon
            <4> QED
                BY <1>2, <4>2, <4>3, Zenon DEF TypeOK
        <3> QED
            BY <3>1, <3>2, Zenon
    <2>5. \A t \in Tasks : fate'[t] = "cancelled" => fate[t] = "cancelled"
        BY <1>2, Zenon DEF TypeOK
    <2> QED
        BY <1>1, <1>3, <2>1, <2>3, <2>4, <2>5, Zenon DEF Accounts
<1> QED
    BY <1>6, <1>7, <1>8, <1>9, Zenon

(* The end of worker(): the threads are told to stop. *)
LEMMA StopInv ==
    ASSUME IInv, WorkerStopIdle \/ WorkerStopActive
    PROVE  IInv'
<1> USE DEF IInv
<1>1. /\ UNCHANGED <<q, q_copy, fate, ah, fh, waiting, shutdown, stopflag, stopped, detach, client, cur>>
      /\ wpc \in {"stopidle", "stopactive"} /\ stopflag /\ detach \in BOOLEAN
    BY Zenon DEF WorkerStopIdle, WorkerStopActive, poolVars, flagVars, Flags, Normal, Stopping, TypeOK
<1>2. ASSUME NEW i \in left, NEW b \in BOOLEAN, StopThread(i, b), left' = left \ {i}, wpc' = wpc,
             wpc = "stopactive" => b = ~detach
      PROVE  IInv'
    <2>1. /\ i \in Workers /\ tpc[i] # "done" /\ task' = task
          /\ tstop' = [tstop EXCEPT ![i] = TRUE] /\ tconfirm' = [tconfirm EXCEPT ![i] = b]
          /\ tpc' \in [Workers -> TPCs]
          /\ tpc'[i] = IF tpc[i] = "waiting" THEN "woken" ELSE tpc[i]
          /\ \A j \in Workers : j # i => tpc'[j] = tpc[j]
        BY <1>2, StopFacts DEF TypeOK
    <2>2. TypeOK' /\ Flags' /\ Lists'
        BY <1>1, <1>2, <2>1, Zenon DEF TypeOK, Flags, Lists, Normal, Stopping, Late
    <2>3. ASSUME NEW j \in Workers PROVE Thr(j)'
        <3>1. CASE j = i
            BY <1>1, <1>2, <2>1, <3>1, Zenon DEF Thr, Idle, Working, Normal, Stopping, Late, TypeOK, Lists
        <3>2. CASE j # i
            BY <1>1, <1>2, <2>1, <3>2, ZenonT(40) DEF Thr, Idle, Working, Normal, Stopping, Late, TypeOK
        <3> QED
            BY <3>1, <3>2, Zenon
    <2>4. Accounts'
        BY <1>1, <2>1, AccountsSame, Zenon
    <2> QED
        BY <2>2, <2>3, <2>4, Zenon
<1>3. ASSUME left = {}, UNCHANGED <<tpc, task, tstop, tconfirm>>,
             \/ wpc = "stopidle" /\ wpc' = "stopactive" /\ left' = ah
             \/ wpc = "stopactive" /\ detach /\ wpc' = "finish" /\ left' = {}
             \/ wpc = "stopactive" /\ ~detach /\ wpc' = "confirm" /\ left' = ah
      PROVE  IInv'
    <2>1. Accounts'
        BY <1>1, <1>3, AccountsSame, Zenon
    <2>2. TypeOK' /\ Flags' /\ Lists'
        BY <1>1, <1>3, Zenon DEF TypeOK, WPCs, Busy, Flags, Lists, Normal, Stopping, Late
    <2>3. ASSUME NEW j \in Workers PROVE Thr(j)'
        BY <1>1, <1>3, Zenon DEF Thr, Idle, Working, Normal, Stopping, Late
    <2> QED
        BY <2>1, <2>2, <2>3, Zenon
<1>4. CASE WorkerStopIdle
    BY <1>2, <1>3, <1>4, Zenon DEF WorkerStopIdle, threadVars
<1>5. CASE WorkerStopActive
    <2>1. CASE \E i \in left : StopThread(i, ~detach) /\ left' = left \ {i} /\ wpc' = wpc
        BY <1>1, <1>2, <2>1, Zenon
    <2>2. CASE left = {} /\ UNCHANGED threadVars
        BY <1>3, <1>5, <2>2, Zenon DEF WorkerStopActive, threadVars
    <2> QED
        BY <1>5, <2>1, <2>2, Zenon DEF WorkerStopActive
<1> QED
    BY <1>4, <1>5, Zenon

(* stopConfirm() *)
LEMMA ConfirmInv ==
    ASSUME IInv, WorkerConfirm
    PROVE  IInv'
<1> USE DEF IInv
<1>1. /\ wpc = "confirm" /\ task' = task /\ tstop' = tstop /\ tconfirm' = tconfirm /\ ~detach
      /\ UNCHANGED <<q, q_copy, fate, ah, fh, waiting, shutdown, stopflag, stopped, detach, client, cur>>
    BY Zenon DEF WorkerConfirm, poolVars, flagVars, threadVars, Lists
<1>2. Accounts'
    BY <1>1, AccountsSame, Zenon
<1>3. CASE \E i \in left : tpc[i] = "stopped" /\ tpc' = [tpc EXCEPT ![i] = "none"] /\ left' = left \ {i} /\ wpc' = wpc
    <2>1. PICK i \in left : tpc[i] = "stopped" /\ tpc' = [tpc EXCEPT ![i] = "none"] /\ left' = left \ {i} /\ wpc' = wpc
        BY <1>3, Zenon
    <2>2. TypeOK' /\ Flags' /\ Lists'
        BY <1>1, <2>1, Zenon DEF TypeOK, TPCs, Flags, Lists, Normal, Stopping, Late
    <2>3. ASSUME NEW j \in Workers PROVE Thr(j)'
        <3>1. CASE j = i
            BY <1>1, <2>1, <3>1, Zenon DEF Thr, Normal, Stopping, Late, TypeOK, Lists
        <3>2. CASE j # i
            BY <1>1, <2>1, <3>2, Zenon DEF Thr, Normal, Stopping, Late, TypeOK
        <3> QED
            BY <3>1, <3>2, Zenon
    <2> QED
        BY <1>2, <2>2, <2>3, Zenon
<1>4. CASE left = {} /\ wpc' = "finish" /\ UNCHANGED <<left, tpc>>
    <2>1. TypeOK' /\ Flags' /\ Lists'
        BY <1>1, <1>4, Zenon DEF TypeOK, WPCs, Flags, Lists, Normal, Stopping, Late
    <2>2. ASSUME NEW j \in Workers PROVE Thr(j)'
        BY <1>1, <1>4, Zenon DEF Thr, Normal, Stopping, Late
    <2> QED
        BY <1>2, <2>1, <2>2, Zenon
<1> QED
    BY <1>3, <1>4, Zenon DEF WorkerConfirm, threadVars

LEMMA FinishInv ==
    ASSUME Counted, IInv, WorkerFinish
    PROVE  IInv'
<1> USE DEF IInv
<1>1. /\ wpc = "finish" /\ wpc' = "cancel" /\ stopped' = TRUE /\ q_copy' = q /\ q' = <<>>
      /\ UNCHANGED <<fate, ah, fh, waiting, shutdown, stopflag, detach, cur, left, tpc, task, tstop, tconfirm>>
    BY Zenon DEF WorkerFinish, Goto, threadVars
<1>8. /\ client' \in [Clients -> {"idle", "callsStop", "callsStopWait", "asleep", "woken", "returned"}]
      /\ \A c \in Clients : client'[c] # "asleep"
    BY DEF WorkerFinish, StopBroadcast, TypeOK
<1>2. stopflag /\ ~stopped /\ q_copy = <<>>
    BY <1>1, Zenon DEF Flags, Normal, Stopping, Late
<1>3. TypeOK'
    BY <1>1, <1>8 DEF TypeOK, WPCs
<1>4. Flags'
    BY <1>1, <1>2, <1>8, Zenon DEF Flags, Normal, Stopping, Late
<1>5. Lists'
    BY <1>1, Zenon DEF Lists, Late
<1>6. ASSUME NEW j \in Workers PROVE Thr(j)'
    <2>1. ~detach => task[j] = None
        BY <1>1, Zenon DEF Thr, Late
    <2> QED
        BY <1>1, <2>1, Zenon DEF Thr, Normal, Stopping, Late
<1>7. Accounts'
    BY <1>1, <1>2, EmptyFacts, Zenon DEF Accounts
<1> QED
    BY <1>3, <1>4, <1>5, <1>6, <1>7, Zenon

LEMMA CancelInv ==
    ASSUME IInv, WorkerCancel
    PROVE  IInv'
<1> USE DEF IInv
<1>1. /\ wpc = "cancel" /\ stopflag /\ stopped
      /\ UNCHANGED <<q, ah, fh, waiting, shutdown, stopflag, stopped, detach, client, cur, left, tpc, task, tstop, tconfirm>>
    BY Zenon DEF WorkerCancel, flagVars, threadVars, Flags, Normal, Stopping, Late
<1>2. CASE /\ q_copy # <<>> /\ fate' = [fate EXCEPT ![Head(q_copy)] = "cancelled"]
           /\ q_copy' = Tail(q_copy) /\ UNCHANGED wpc
    <2> DEFINE h == Head(q_copy)
    <2>1. /\ h \in Tasks /\ q_copy' \in Seq(Tasks) /\ Distinct(q_copy') /\ h \in Image(q_copy)
          /\ Image(q_copy') = Image(q_copy) \ {h}
        BY <1>2, FrontLeaves, Zenon DEF TypeOK, Accounts
    <2>2. detach /\ fate[h] = "queued" /\ q = <<>>
        BY <1>1, <1>2, <2>1, Zenon DEF Flags, Late, Accounts
    <2>3. fate' = [fate EXCEPT ![h] = "cancelled"]
        BY <1>2, Zenon
    <2> HIDE DEF h
    <2>4. TypeOK' /\ Lists'
        BY <1>1, <1>2, <2>1, <2>3, Zenon DEF TypeOK, Lists
    <2>5. Flags'
        BY <1>1, <1>2, <2>2, Zenon DEF Flags, Normal, Stopping, Late
    <2>6. ASSUME NEW j \in Workers PROVE Thr(j)'
        <3>1. task[j] \in Tasks \cup {None} /\ Thr(j)
            BY Zenon DEF TypeOK
        <3>2. task[j] # None => fate'[task[j]] = fate[task[j]]
            BY <2>2, <2>3, <3>1, Zenon DEF TypeOK, Thr
        <3> QED
            BY <1>1, <1>2, <3>1, <3>2, Zenon DEF Thr, Idle, Working, Normal, Stopping, Late
    <2>7. Accounts'
        <3>1. \A t \in Tasks : fate'[t] = "queued" <=> t \in Image(q') \cup Image(q_copy')
            BY <1>1, <2>1, <2>2, <2>3, EmptyFacts, Zenon DEF Accounts, TypeOK
        <3>2. \A t \in Tasks : fate'[t] \in {"given", "running"} => fate'[t] = fate[t]
            BY <2>3, Zenon DEF TypeOK
        <3> QED
            BY <1>1, <2>1, <2>2, <3>1, <3>2, Zenon DEF Accounts
    <2> QED
        BY <2>4, <2>5, <2>6, <2>7, Zenon
<1>3. CASE wpc' = "end" /\ UNCHANGED <<fate, q_copy>>
    <2>1. Accounts'
        BY <1>1, <1>3, AccountsSame, Zenon
    <2>2. TypeOK' /\ Flags' /\ Lists'
        BY <1>1, <1>3, Zenon DEF TypeOK, WPCs, Flags, Lists, Normal, Stopping, Late
    <2>3. ASSUME NEW j \in Workers PROVE Thr(j)'
        BY <1>1, <1>3, Zenon DEF Thr, Idle, Working, Normal, Stopping, Late
    <2> QED
        BY <2>1, <2>2, <2>3, Zenon
<1> QED
    BY <1>2, <1>3, Zenon DEF WorkerCancel

-----------------------------------------------------------------------------
(* The pool threads *)

(* A thread at the head of its loop runs its task, ends or waits. *)
LEMMA ThreadHeadInv ==
    ASSUME IInv, NEW i \in Workers, ThreadStart(i) \/ ThreadWake(i)
    PROVE  IInv'
<1> USE DEF IInv
<1>1. /\ tpc[i] \in {"new", "woken"}
      /\ UNCHANGED <<q, q_copy, ah, fh, waiting, shutdown, stopflag, stopped, detach, client, wpc, cur, left,
                     task, tstop, tconfirm>>
    BY Zenon DEF ThreadStart, ThreadWake, flagVars, workerVars
<1>2. Flags' /\ Lists'
    BY <1>1, Zenon DEF Flags, Lists, Normal, Stopping, Late
<1>3. CASE task[i] # None /\ Run(i)
    <2> DEFINE h == task[i]
    <2>1. /\ h \in Tasks /\ fate[h] = "given" /\ tpc' = [tpc EXCEPT ![i] = "running"]
          /\ fate' = [fate EXCEPT ![h] = "running"] /\ h # None
        BY <1>1, <1>3 DEF Run, Thr, TypeOK
    <2> HIDE DEF h
    <2>2. TypeOK'
        BY <1>1, <2>1, Zenon DEF TypeOK, TPCs
    <2>3. ASSUME NEW j \in Workers PROVE Thr(j)'
        <3>1. CASE j = i
            <4>1. tpc'[j] = "running" /\ task'[j] = h /\ fate'[h] = "running"
                BY <1>1, <2>1, <3>1, ZenonT(40) DEF TypeOK, h
            <4> QED
                BY <1>1, <2>1, <3>1, <4>1, Zenon DEF Thr, Idle, Working, Normal, Stopping, Late, h
        <3>2. CASE j # i
            <4>1. tpc'[j] = tpc[j] /\ task[j] \in Tasks \cup {None} /\ Thr(j)
                BY <2>1, <3>2, Zenon DEF TypeOK
            <4>2. task[j] # None => task[j] # h
                BY <3>2, Zenon DEF Accounts, h
            <4>3. task[j] # None => fate'[task[j]] = fate[task[j]]
                BY <2>1, <4>1, <4>2, Zenon DEF TypeOK
            <4> QED
                BY <1>1, <3>2, <4>1, <4>3 DEF Thr, Idle, Working, Normal, Stopping, Late
        <3> QED
            BY <3>1, <3>2, Zenon
    <2>4. Accounts'
        <3>1. \A t \in Tasks : fate'[t] = "queued" <=> fate[t] = "queued"
            BY <2>1, Zenon DEF TypeOK
        <3>2. \A t \in Tasks : fate'[t] \in {"given", "running"} => fate[t] \in {"given", "running"}
            BY <2>1, Zenon DEF TypeOK
        <3>3. \A t \in Tasks : fate'[t] = "cancelled" => fate[t] = "cancelled"
            BY <2>1, Zenon DEF TypeOK
        <3> QED
            BY <1>1, <3>1, <3>2, <3>3, Zenon DEF Accounts
    <2> QED
        BY <1>2, <2>2, <2>3, <2>4, Zenon
<1>4. CASE /\ task[i] = None /\ fate' = fate
           /\ \/ tstop[i] /\ tpc' = [tpc EXCEPT ![i] = IF tconfirm[i] THEN "stopped" ELSE "none"]
              \/ tpc[i] = "new" /\ ~tstop[i] /\ tpc' = [tpc EXCEPT ![i] = "waiting"]
    <2>1. TypeOK'
        BY <1>1, <1>4, Zenon DEF TypeOK, TPCs
    <2>2. Accounts'
        BY <1>1, <1>4, AccountsSame, Zenon
    <2>3. ASSUME NEW j \in Workers PROVE Thr(j)'
        <3>1. CASE j = i /\ tstop[i]
            BY <1>1, <1>4, <3>1 DEF Thr, Idle, Working, Normal, Stopping, Late, TypeOK
        <3>2. CASE j = i /\ ~tstop[i]
            BY <1>1, <1>4, <3>2, ZenonT(40) DEF Thr, Idle, Working, Normal, Stopping, Late, TypeOK
        <3>3. CASE j # i
            BY <1>1, <1>4, <3>3 DEF Thr, Idle, Working, Normal, Stopping, Late, TypeOK
        <3> QED
            BY <3>1, <3>2, <3>3, ZenonT(40)
    <2> QED
        BY <1>2, <2>1, <2>2, <2>3, Zenon
<1> QED
    BY <1>3, <1>4, Zenon DEF ThreadStart, ThreadWake, Exit

LEMMA ThreadEndInv ==
    ASSUME IInv, NEW i \in Workers, ThreadEnd(i)
    PROVE  IInv'
<1> USE DEF IInv
<1> DEFINE h == task[i]
<1>1. /\ tpc[i] = "running" /\ task' = [task EXCEPT ![i] = None] /\ fate' = [fate EXCEPT ![h] = "done"]
      /\ tpc' = [tpc EXCEPT ![i] = IF ~tstop[i] THEN "done" ELSE IF tconfirm[i] THEN "stopped" ELSE "none"]
      /\ UNCHANGED <<q, q_copy, ah, fh, waiting, shutdown, stopflag, stopped, detach, client, wpc, cur, left,
                     tstop, tconfirm>>
    BY Zenon DEF ThreadEnd, flagVars, workerVars
<1>2. h \in Tasks /\ h # None /\ fate[h] = "running" /\ task[i] = h
    BY <1>1, Zenon DEF Thr, TypeOK
<1> HIDE DEF h
<1>3. Flags' /\ Lists'
    BY <1>1, Zenon DEF Flags, Lists, Normal, Stopping, Late
<1>4. TypeOK'
    BY <1>1, <1>2, Zenon DEF TypeOK, TPCs
<1>5. ASSUME NEW j \in Workers PROVE Thr(j)'
    <2>1. CASE j = i
        <3>1. task'[j] = None /\ tpc'[j] = IF ~tstop[i] THEN "done" ELSE IF tconfirm[i] THEN "stopped" ELSE "none"
            BY <1>1, <2>1, ZenonT(40) DEF TypeOK
        <3>2. CASE ~tstop[i]
            BY <1>1, <1>2, <2>1, <3>1, <3>2, SMTT(30) DEF Thr, Idle, Working, Normal, Stopping, Late
        <3>3. CASE tstop[i]
            BY <1>1, <1>2, <2>1, <3>1, <3>3, SMTT(30) DEF Thr, Idle, Working, Normal, Stopping, Late
        <3> QED
            BY <3>2, <3>3, Zenon
    <2>2. CASE j # i
        <3>1. tpc'[j] = tpc[j] /\ task'[j] = task[j] /\ task[j] \in Tasks \cup {None} /\ Thr(j)
            BY <1>1, <2>2, Zenon DEF TypeOK
        <3>2. task[j] # None => task[j] # h
            BY <1>2, <2>2, Zenon DEF Accounts
        <3>3. task[j] # None => fate'[task[j]] = fate[task[j]]
            BY <1>1, <3>1, <3>2, Zenon DEF TypeOK
        <3> QED
            BY <1>1, <2>2, <3>1, <3>3 DEF Thr, Idle, Working, Normal, Stopping, Late
    <2> QED
        BY <2>1, <2>2, Zenon
<1>6. Accounts'
    <2>1. \A t \in Tasks : t # h => fate'[t] = fate[t]
        BY <1>1, Zenon DEF TypeOK
    <2>2. fate'[h] = "done"
        BY <1>1, <1>2, Zenon DEF TypeOK
    <2>3. \A t \in Tasks : fate'[t] = "queued" <=> fate[t] = "queued"
        BY <1>2, <2>1, <2>2, Zenon
    <2>4. \A t \in Tasks : fate'[t] = "cancelled" => fate[t] = "cancelled"
        BY <1>2, <2>1, <2>2, Zenon
    <2>5. task'[i] = None /\ \A j \in Workers : j # i => task'[j] = task[j]
        BY <1>1, Zenon DEF TypeOK
    <2>6. ASSUME NEW t \in Tasks, fate'[t] \in {"given", "running"} PROVE \E j \in Workers : task'[j] = t
        <3>1. t # h /\ fate[t] \in {"given", "running"}
            BY <2>1, <2>2, <2>6, Zenon
        <3>2. PICK j \in Workers : task[j] = t
            BY <3>1, Zenon DEF Accounts
        <3> QED
            BY <1>2, <2>5, <3>1, <3>2, Zenon
    <2>7. ASSUME NEW j \in Workers, NEW k \in Workers, j # k, task'[j] # None PROVE task'[j] # task'[k]
        BY <2>5, <2>7, Zenon DEF Accounts
    <2> QED
        BY <1>1, <2>3, <2>4, <2>6, <2>7, Zenon DEF Accounts
<1> QED
    BY <1>3, <1>4, <1>5, <1>6, Zenon

(* The signal on cond: no thread sleeps on it any more. *)
LEMMA WokenFacts ==
    ASSUME NEW s \in WPCs
    PROVE  /\ Woken(s) \in WPCs /\ Woken(s) \notin {"wait", "timedwait", "getwait"}
           /\ Woken(s) = s \/ (s \in {"wait", "timedwait", "getwait"} /\ Woken(s) \in {"woken", "getwoken"})
BY Zenon DEF Woken, WPCs, Busy

LEMMA ThreadDoneInv ==
    ASSUME Counted, IInv, NEW i \in Workers, ThreadDone(i)
    PROVE  IInv'
<1> USE DEF IInv
<1> DEFINE requeue == \/ MaxIdle = 0 /\ Release
                      \/ Cardinality(fh) < MaxIdle
                      \/ Len(q) > Cardinality(fh)
<1>1. /\ tpc[i] = "done" /\ wpc \notin {"submit", "release", "stopidle"}
      /\ UNCHANGED <<q, q_copy, fate, waiting, shutdown, stopflag, stopped, detach, client, cur, left,
                     task, tstop, tconfirm>>
    BY Zenon DEF ThreadDone, flagVars, Free, Busy
<1>2. /\ ~tstop[i] /\ task[i] = None
    BY <1>1, Zenon DEF Thr
<1>3. i \in ah /\ i \notin fh
    BY <1>1, <1>2, Zenon DEF Thr, Idle, Normal, Stopping, Late, Lists, TypeOK, WPCs, Busy
<1>4. Accounts'
    BY <1>1, AccountsSame, Zenon
<1>5. CASE stopflag /\ tpc' = [tpc EXCEPT ![i] = "waiting"] /\ UNCHANGED <<ah, fh, wpc>>
    <2>1. TypeOK' /\ Flags' /\ Lists'
        BY <1>1, <1>5, Zenon DEF TypeOK, TPCs, Flags, Lists, Normal, Stopping, Late
    <2>2. ASSUME NEW j \in Workers PROVE Thr(j)'
        <3>1. CASE j = i
            BY <1>1, <1>2, <1>3, <1>5, <3>1, Zenon DEF Thr, Idle, Working, Normal, Stopping, Late, TypeOK
        <3>2. CASE j # i
            BY <1>1, <1>5, <3>2, Zenon DEF Thr, Idle, Working, Normal, Stopping, Late, TypeOK
        <3> QED
            BY <3>1, <3>2, Zenon
    <2> QED
        BY <1>4, <2>1, <2>2, Zenon
<1>6. CASE /\ ~stopflag /\ ah' = ah \ {i} /\ fh' = fh \cup {i} /\ tpc' = [tpc EXCEPT ![i] = "waiting"]
           /\ wpc' = IF waiting \/ (Release /\ Cardinality(fh') > MinIdle) THEN Woken(wpc) ELSE wpc
    <2>1. /\ Normal /\ wpc' \in WPCs /\ wpc' # "getwait"
          /\ wpc' = wpc \/ (wpc \in {"wait", "timedwait", "getwait"} /\ wpc' \in {"woken", "getwoken"})
        BY <1>6, WokenFacts, Zenon DEF Flags, TypeOK
    <2>2. /\ Cardinality(ah') = Cardinality(ah) - 1 /\ Cardinality(fh') = Cardinality(fh) + 1
          /\ Cardinality(ah) \in Nat /\ Cardinality(fh) \in Nat
        BY <1>3, <1>6, Sizes, Zenon DEF TypeOK
    <2>3. TypeOK'
        BY <1>1, <1>6, <2>1, Zenon DEF TypeOK, TPCs
    <2>4. Flags'
        BY <1>1, <1>6, <2>1, Zenon DEF Flags, Normal, Stopping, Late
    <2>5. Lists'
        <3>1. Max > 0 => Cardinality(ah') + Cardinality(fh') <= Max
            BY <2>2, Params DEF Lists
        <3> QED
            BY <1>1, <1>6, <2>1, <3>1, Zenon DEF Lists, Normal, Stopping, Late
    <2>6. ASSUME NEW j \in Workers PROVE Thr(j)'
        <3>1. CASE j = i
            BY <1>1, <1>2, <1>6, <2>1, <3>1, Zenon DEF Thr, Idle, Working, Normal, Stopping, Late, TypeOK
        <3>2. CASE j # i
            BY <1>1, <1>6, <2>1, <3>2, Zenon DEF Thr, Idle, Working, Normal, Stopping, Late, TypeOK
        <3> QED
            BY <3>1, <3>2, Zenon
    <2> QED
        BY <1>4, <2>3, <2>4, <2>5, <2>6, Zenon
<1>7. CASE /\ ~stopflag /\ ~requeue /\ ah' = ah \ {i} /\ UNCHANGED <<fh, wpc>>
           /\ tpc' = [tpc EXCEPT ![i] = IF tconfirm[i] THEN "stopped" ELSE "none"]
    <2>1. /\ Cardinality(ah') = Cardinality(ah) - 1
          /\ Cardinality(ah) \in Nat /\ Cardinality(fh) \in Nat
          /\ fh = {} => Cardinality(fh) = 0
        BY <1>3, <1>7, Sizes, Zenon DEF TypeOK
    <2>2. Len(q) \in Nat /\ (q # <<>> => Len(q) > 0)
        BY DEF TypeOK
    <2>3. Normal /\ wpc # "getwait"
        BY <1>7, <2>1, <2>2, Zenon DEF Flags
    <2>4. TypeOK'
        BY <1>1, <1>7, Zenon DEF TypeOK, TPCs
    <2>5. Flags'
        BY <1>1, <1>7, <2>3, Zenon DEF Flags, Normal, Stopping, Late
    <2>6. Lists'
        <3>1. Max > 0 => Cardinality(ah') + Cardinality(fh') <= Max
            BY <1>7, <2>1, Params DEF Lists
        <3> QED
            BY <1>1, <1>7, <2>3, <3>1, Zenon DEF Lists, Normal, Stopping, Late
    <2>7. ASSUME NEW j \in Workers PROVE Thr(j)'
        <3>1. CASE j = i
            BY <1>1, <1>2, <1>3, <1>7, <2>3, <3>1, ZenonT(40) DEF Thr, Idle, Working, Normal, Stopping, Late, TypeOK
        <3>2. CASE j # i
            BY <1>1, <1>7, <2>3, <3>2, Zenon DEF Thr, Idle, Working, Normal, Stopping, Late, TypeOK
        <3> QED
            BY <3>1, <3>2, Zenon
    <2> QED
        BY <1>4, <2>4, <2>5, <2>6, <2>7, Zenon
<1> QED
    BY <1>5, <1>6, <1>7, Zenon DEF ThreadDone

-----------------------------------------------------------------------------
(* The callers *)

LEMMA CallerSubmitInv ==
    ASSUME IInv, NEW t \in Tasks, submit(t)
    PROVE  IInv'
<1> USE DEF IInv
<1>1. /\ fate[t] = "new" /\ wpc # "submit"
      /\ UNCHANGED <<q_copy, ah, fh, waiting, shutdown, stopflag, stopped, detach, client, cur, left,
                     tpc, task, tstop, tconfirm>>
    BY Zenon DEF submit, flagVars, threadVars, Free, Busy
<1>2. t # None
    BY Params, Zenon
<1>3. ASSUME NEW f \in {"queued", "rejected"}, fate' = [fate EXCEPT ![t] = f],
             NEW j \in Workers, task[j] # None
      PROVE  fate'[task[j]] = fate[task[j]]
    <2>1. task[j] \in Tasks /\ fate[task[j]] \in {"given", "running"}
        BY <1>3 DEF TypeOK, Thr
    <2> QED
        BY <1>1, <1>3, <2>1, Zenon DEF TypeOK
<1>4. CASE fate' = [fate EXCEPT ![t] = "rejected"] /\ UNCHANGED <<q, wpc>>
    <2>1. TypeOK' /\ Flags' /\ Lists'
        BY <1>1, <1>4, Zenon DEF TypeOK, Flags, Lists, Normal, Stopping, Late
    <2>2. ASSUME NEW j \in Workers PROVE Thr(j)'
        <3>1. Thr(j) /\ (task[j] # None => fate'[task[j]] = fate[task[j]])
            BY <1>3, <1>4, Zenon
        <3> QED
            BY <1>1, <1>4, <3>1, ThrSame, Zenon
    <2>3. Accounts'
        <3>1. \A u \in Tasks : u # t => fate'[u] = fate[u]
            BY <1>4, Zenon DEF TypeOK
        <3>2. fate'[t] = "rejected"
            BY <1>4, Zenon DEF TypeOK
        <3>3. \A u \in Tasks : /\ fate'[u] = "queued" <=> fate[u] = "queued"
                               /\ fate'[u] = "cancelled" => fate[u] = "cancelled"
                               /\ fate'[u] \in {"given", "running"} => fate[u] \in {"given", "running"}
            BY <1>1, <3>1, <3>2, Zenon
        <3> QED
            BY <1>1, <1>4, <3>3, Zenon DEF Accounts
    <2> QED
        BY <2>1, <2>2, <2>3, Zenon
<1>5. CASE /\ ~shutdown /\ wpc' = (IF q = <<>> THEN Woken(wpc) ELSE wpc)
           /\ q' = Append(q, t) /\ fate' = [fate EXCEPT ![t] = "queued"]
    <2>1. ~stopflag /\ Normal /\ ~stopped /\ ~detach /\ q_copy = <<>>
        BY <1>5, Zenon DEF Flags, Normal
    <2>2. /\ wpc' \in WPCs /\ wpc' \notin {"wait", "timedwait"}
          /\ wpc' = wpc \/ (wpc \in {"wait", "timedwait", "getwait"} /\ wpc' \in {"woken", "getwoken"})
        BY <1>5, WokenFacts, Zenon DEF Flags, TypeOK
    <2>3. t \notin Image(q)
        BY <1>1, Zenon DEF Accounts
    <2>4. q' \in Seq(Tasks) /\ Distinct(q') /\ Image(q') = Image(q) \cup {t}
        BY <1>5, <2>3, EndJoins, Zenon DEF TypeOK, Accounts
    <2>5. q' # <<>>
        BY <2>4, EmptyFacts, Zenon
    <2>6. TypeOK'
        BY <1>1, <1>5, <2>2, <2>4, Zenon DEF TypeOK
    <2>7. Flags'
        BY <1>1, <2>1, <2>2, <2>5, Zenon DEF Flags, Normal, Stopping, Late
    <2>8. Lists'
        BY <1>1, <2>1, <2>2, Zenon DEF Lists, Normal, Stopping, Late
    <2>9. ASSUME NEW j \in Workers PROVE Thr(j)'
        <3>1. Thr(j) /\ (task[j] # None => fate'[task[j]] = fate[task[j]])
            BY <1>3, <1>5, Zenon
        <3> QED
            BY <1>1, <2>1, <2>2, <3>1, Zenon DEF Thr, Idle, Working, Normal, Stopping, Late
    <2>10. Accounts'
        <3>1. \A u \in Tasks : u # t => fate'[u] = fate[u]
            BY <1>5, Zenon DEF TypeOK
        <3>2. fate'[t] = "queued"
            BY <1>5, Zenon DEF TypeOK
        <3>3. \A u \in Tasks : fate'[u] = "queued" <=> u \in Image(q') \cup Image(q_copy')
            BY <1>1, <2>1, <2>4, <3>1, <3>2, EmptyFacts, Zenon DEF Accounts
        <3>4. \A u \in Tasks : /\ fate'[u] = "cancelled" => fate[u] = "cancelled"
                               /\ fate'[u] \in {"given", "running"} => fate[u] \in {"given", "running"}
            BY <3>1, <3>2, Zenon
        <3> QED
            BY <1>1, <2>1, <2>4, <3>3, <3>4, EmptyFacts, Zenon DEF Accounts
    <2> QED
        BY <2>6, <2>7, <2>8, <2>9, <2>10, Zenon
<1> QED
    BY <1>4, <1>5, Zenon DEF submit

(* stop(), stopWait(), their calls and their returns: only flags, the       *)
(* clients and the sleep of the pool's own thread change.                   *)
LEMMA CallerStopInv ==
    ASSUME IInv, NEW c \in Clients,
           (\E method \in Stops : Call(c, method)) \/ stop(c) \/ stopWait(c) \/ Return(c)
    PROVE  IInv'
<1> USE DEF IInv
<1>1. UNCHANGED <<q, q_copy, fate, ah, fh, waiting, stopped, cur, left, tpc, task, tstop, tconfirm>>
    BY Zenon DEF Call, stop, stopWait, Return, AwaitStopped, poolVars, flagVars, workerVars, threadVars
<1>2. client' \in [Clients -> {"idle", "callsStop", "callsStopWait", "asleep", "woken", "returned"}]
    BY Zenon DEF Call, stop, stopWait, Return, AwaitStopped, TypeOK
<1>5. stopped => \A k \in Clients : client'[k] # "asleep"
    BY Zenon DEF Call, stop, stopWait, Return, AwaitStopped, TypeOK, Flags
<1>3. CASE UNCHANGED <<shutdown, stopflag, detach, wpc>>
    <2>1. TypeOK' /\ Flags' /\ Lists'
        BY <1>1, <1>2, <1>3, <1>5, Zenon DEF TypeOK, Flags, Lists, Normal, Stopping, Late
    <2>2. Accounts'
        BY <1>1, <1>3, AccountsSame, Zenon
    <2>3. ASSUME NEW j \in Workers PROVE Thr(j)'
        BY <1>1, <1>3, Zenon DEF Thr, Idle, Working, Normal, Stopping, Late
    <2> QED
        BY <2>1, <2>2, <2>3, Zenon
<1>4. CASE /\ wpc \notin Busy /\ shutdown' = TRUE /\ (wpc' = Woken(wpc) \/ (shutdown /\ wpc' = wpc))
           /\ \/ UNCHANGED <<stopflag, detach>>
              \/ ~stopflag /\ stopflag' = TRUE /\ detach' = TRUE /\ wpc' = Woken(wpc)
    <2>1. /\ wpc' \in WPCs /\ wpc' \notin {"wait", "timedwait"}
          /\ wpc' = wpc \/ (wpc \in {"wait", "timedwait", "getwait"} /\ wpc' \in {"woken", "getwoken"})
          /\ wpc' = "getwait" => UNCHANGED <<stopflag, detach>>
        BY <1>4, WokenFacts DEF Flags, TypeOK
    <2>2. stopflag => UNCHANGED <<stopflag, detach>>
        BY <1>4, Zenon
    <2>3. ~stopflag => Normal /\ ~stopped
        BY Zenon DEF Flags, Normal
    <2>4. stopflag' \in BOOLEAN /\ detach' \in BOOLEAN /\ (detach' => stopflag') /\ (stopflag => stopflag')
          /\ (stopflag' /\ ~detach' => stopflag /\ ~detach)
        <3>1. {stopflag, detach} \subseteq BOOLEAN /\ (detach => stopflag)
            BY Zenon DEF TypeOK, Flags
        <3>2. CASE UNCHANGED <<stopflag, detach>>
            BY <3>1, <3>2, Zenon
        <3>3. CASE stopflag' = TRUE /\ detach' = TRUE
            BY <3>3, Zenon
        <3> QED
            BY <1>4, <3>2, <3>3, Zenon
    <2>5. TypeOK'
        BY <1>1, <1>2, <1>4, <2>1, <2>4, Zenon DEF TypeOK
    <2>6. Flags'
        BY <1>1, <1>4, <1>5, <2>1, <2>2, <2>3, <2>4, Zenon DEF Flags, Normal, Stopping, Late, Busy
    <2>7. Lists'
        BY <1>1, <1>4, <2>1, <2>2, <2>3 DEF Lists, Normal, Stopping, Late
    <2>8. Accounts'
        BY <1>1, <2>2, <2>3, AccountsSame, Zenon
    <2>9. ASSUME NEW j \in Workers PROVE Thr(j)'
        <3>1. Thr(j)
            BY Zenon
        <3>2. CASE UNCHANGED <<stopflag, detach>>
            BY <1>1, <1>4, <2>1, <3>1, <3>2, ZenonT(40) DEF Thr, Idle, Working, Normal, Stopping, Late, Busy
        <3>3. CASE ~stopflag /\ stopflag' = TRUE
            <4>1. Normal /\ Normal' /\ wpc \notin {"submit", "release"} /\ wpc' \notin {"submit", "release"}
                BY <1>4, <2>1, <2>3, <3>3, Zenon DEF Normal, Stopping, Late, Busy
            <4>2. Working(j) => Working(j)'
                BY <1>1, <3>3, Zenon DEF Working
            <4> QED
                BY <1>1, <3>1, <4>1, <4>2, Zenon DEF Thr, Idle, Normal, Stopping, Late
        <3> QED
            BY <1>4, <3>2, <3>3, Zenon
    <2> QED
        BY <2>5, <2>6, <2>7, <2>8, <2>9, Zenon
<1> QED
    BY <1>3, <1>4, Zenon DEF Call, stop, stopWait, Return, AwaitStopped, flagVars, workerVars, Free, Flags

-----------------------------------------------------------------------------
(* The invariant holds in every state. *)

LEMMA InitInv == Counted /\ Init => IInv
<1> SUFFICES ASSUME Counted, Init PROVE IInv
    BY Zenon
<1>1. TypeOK
    <2>1. /\ ah \subseteq Workers /\ fh \subseteq Workers /\ left \subseteq Workers
          /\ {waiting, shutdown, stopflag, stopped, detach} \subseteq BOOLEAN
        BY Zenon DEF Init
    <2>5. q \in Seq(Tasks) /\ q_copy \in Seq(Tasks)
        <3>1. q = <<>> /\ q_copy = <<>>
            BY Zenon DEF Init
        <3>2. <<>> \in Seq(Tasks)
            OBVIOUS
        <3> QED
            BY <3>1, <3>2, Zenon
    <2>2. /\ tpc \in [Workers -> TPCs] /\ task \in [Workers -> Tasks \cup {None}]
          /\ tstop \in [Workers -> BOOLEAN] /\ tconfirm \in [Workers -> BOOLEAN]
        BY DEF Init, TPCs
    <2>3. /\ fate \in [Tasks -> {"new", "queued", "given", "running", "done", "cancelled", "rejected"}]
          /\ client \in [Clients -> {"idle", "callsStop", "callsStopWait", "asleep", "woken", "returned"}]
        BY DEF Init
    <2>4. wpc \in WPCs /\ cur \in Workers \cup {None}
        BY DEF Init, WPCs
    <2> QED
        BY <2>1, <2>2, <2>3, <2>4, <2>5, Zenon DEF TypeOK
<1>2. Flags
    BY Zenon DEF Init, Flags, Normal, Stopping, Late
<1>3. Lists
    BY Params, Sizes DEF Init, Lists, Late
<1>4. ASSUME NEW i \in Workers PROVE Thr(i)
    BY Zenon DEF Init, Thr, Normal, Stopping, Late
<1>5. Accounts
    BY EmptyFacts, Zenon DEF Init, Accounts
<1> QED
    BY <1>1, <1>2, <1>3, <1>4, <1>5, Zenon DEF IInv

LEMMA NextInv == Counted /\ IInv /\ [Next]_vars => IInv'
<1> SUFFICES ASSUME Counted, IInv, [Next]_vars PROVE IInv'
    BY Zenon
<1>1. CASE Worker
    BY <1>1, ControlInv, FillInv, ResumeInv, ReleaseInv, DispatchInv, SubmitInv, StopInv, ConfirmInv, FinishInv,
       CancelInv, Zenon DEF Worker
<1>2. CASE WorkerSpurious \/ WorkerTimeOut
    BY <1>2, ControlInv, Zenon
<1>3. ASSUME NEW i \in Workers, Thread(i) PROVE IInv'
    BY <1>3, ThreadHeadInv, ThreadEndInv, ThreadDoneInv, Zenon DEF Thread
<1>4. ASSUME NEW t \in Tasks, submit(t) PROVE IInv'
    BY <1>4, CallerSubmitInv, Zenon
<1>5. ASSUME NEW c \in Clients,
             (\E method \in Stops : Call(c, method)) \/ stop(c) \/ stopWait(c) \/ Return(c)
      PROVE  IInv'
    BY <1>5, CallerStopInv, Zenon
<1>6. CASE UNCHANGED vars
    <2>1. /\ UNCHANGED <<q, q_copy, fate, ah, fh, left, cur, wpc>>
          /\ UNCHANGED <<waiting, shutdown, stopflag, stopped, detach>>
          /\ UNCHANGED <<tpc, task, tstop, tconfirm, client>>
        BY <1>6, Zenon DEF vars, poolVars, flagVars, workerVars, threadVars
    <2>2. TypeOK' /\ Flags' /\ Lists'
        BY <2>1, Zenon DEF IInv, TypeOK, Flags, Lists, Normal
    <2>3. ASSUME NEW j \in Workers PROVE Thr(j)'
        <3>1. Thr(j) /\ fate'[task[j]] = fate[task[j]]
            BY <2>1, Zenon DEF IInv
        <3> QED
            BY <2>1, <3>1, ThrSame, Zenon
    <2>4. Accounts'
        BY <2>1, AccountsSame, Zenon DEF IInv
    <2> QED
        BY <2>2, <2>3, <2>4, Zenon DEF IInv
<1> QED
    BY <1>1, <1>2, <1>3, <1>4, <1>5, <1>6, Zenon DEF Next, Over

-----------------------------------------------------------------------------
(* The sets of pool threads are finite. *)
LEMMA WorkersCounted == Counted
<1> SUFFICES ASSUME NEW S \in SUBSET Workers
             PROVE  /\ Cardinality(S) \in Nat
                    /\ \A i : i \notin S => Cardinality(S \cup {i}) = Cardinality(S) + 1
                    /\ \A i \in S : Cardinality(S \ {i}) = Cardinality(S) - 1
                    /\ S = {} <=> Cardinality(S) = 0
    BY DEF Counted
<1>1. IsFiniteSet(S)
    BY Params, FS_Subset
<1> QED
    BY <1>1, FS_CardinalityType, FS_AddElement, FS_RemoveElement, FS_EmptySet, Zenon

(* The inductive invariant of the pool: what the flags, the two lists and   *)
(* the position of worker() say about each pool thread and each task.       *)
THEOREM Invariance == Spec => []IInv
BY WorkersCounted, InitInv, NextInv, PTL DEF Spec

-----------------------------------------------------------------------------
(* The properties *)

(* A queue without repetitions is as long as the set of its tasks is large. *)
LEMMA QueueLength ==
    ASSUME NEW s \in Seq(Tasks), Distinct(s)
    PROVE  Len(s) = Cardinality(Image(s))
<1>1. Len(s) \in Nat /\ s \in [1 .. Len(s) -> Tasks]
    OBVIOUS
<1>2. IsFiniteSet(1 .. Len(s)) /\ Cardinality(1 .. Len(s)) = Len(s)
    BY <1>1, FS_Interval
<1>3. s \in Bijection(1 .. Len(s), Image(s))
    <2>1. s \in [1 .. Len(s) -> Image(s)]
        BY <1>1 DEF Image
    <2> QED
        BY <1>1, <2>1 DEF Bijection, Injection, Surjection, IsInjective, Image, Distinct
<1>4. ExistsBijection(1 .. Len(s), Image(s))
    BY <1>3 DEF ExistsBijection
<1> QED
    BY <1>2, <1>4, FS_Bijection

LEMMA AccountedImplied == IInv => TasksAccounted
<1> SUFFICES ASSUME IInv PROVE TasksAccounted
    OBVIOUS
<1> USE DEF IInv
<1>1. Len(q) = Cardinality(Image(q)) /\ Len(q_copy) = Cardinality(Image(q_copy))
    BY QueueLength DEF TypeOK, Accounts
<1>2. ASSUME stopped, ~detach, NEW t \in Tasks PROVE fate[t] \in {"new", "rejected", "done"}
    <2>1. q = <<>> /\ q_copy = <<>> /\ wpc \in Late
        BY <1>2 DEF Flags
    <2>2. fate[t] # "queued" /\ fate[t] # "cancelled"
        BY <1>2, <2>1, EmptyFacts DEF Accounts
    <2>3. \A i \in Workers : task[i] # t
        BY <1>2, <2>1, Params DEF Thr
    <2>4. fate[t] \notin {"given", "running"}
        BY <2>3 DEF Accounts
    <2> QED
        BY <2>2, <2>4 DEF TypeOK
<1>3. ASSUME NEW t \in Tasks
      PROVE  LET owners == {i \in Workers : task[i] = t}
             IN  /\ Cardinality(owners) = IF fate[t] \in {"given", "running"} THEN 1 ELSE 0
                 /\ fate[t] = "running" <=> \E i \in owners : tpc[i] = "running"
    <2> DEFINE owners == {i \in Workers : task[i] = t}
    <2>1. t # None
        BY Params
    <2>2. \A i \in owners : fate[t] = IF tpc[i] = "running" THEN "running" ELSE "given"
        BY <2>1 DEF Thr
    <2>3. CASE fate[t] \in {"given", "running"}
        <3>1. PICK i \in Workers : task[i] = t
            BY <2>3 DEF Accounts
        <3>2. owners = {i}
            BY <2>1, <3>1 DEF Accounts
        <3>3. Cardinality(owners) = 1
            BY <3>2, FS_Singleton
        <3>4. fate[t] = "running" <=> tpc[i] = "running"
            BY <2>2, <3>2
        <3> QED
            BY <2>3, <3>2, <3>3, <3>4
    <2>4. CASE fate[t] \notin {"given", "running"}
        <3>1. owners = {}
            BY <2>2, <2>4
        <3> QED
            BY <2>4, <3>1, FS_EmptySet
    <2> QED
        BY <2>3, <2>4
<1> QED
    BY <1>1, <1>2, <1>3 DEF TasksAccounted, Accounts

(* No task that submit() accepted is lost, run twice or held by two threads *)
(* of the pool, whenever stop() comes.                                      *)
THEOREM PoolTasksAccounted == Spec => []TasksAccounted
BY Invariance, AccountedImplied, PTL

LEMMA ListsLiveImplied == IInv => ListsLive
<1> SUFFICES ASSUME IInv PROVE ListsLive
    OBVIOUS
<1> USE DEF IInv
<1>1. ASSUME Normal, NEW i \in ah \cup fh PROVE tpc[i] \notin {"none", "stopped"} /\ ~tstop[i]
    BY <1>1 DEF Thr, Idle, Working, TypeOK
<1>3. wpc = "stopidle" => \A i \in left \cup ah : tpc[i] # "none"
    BY DEF Thr, Idle, Working, TypeOK
<1>4. wpc = "stopactive" => \A i \in left : tpc[i] # "none"
    BY DEF Thr, Working, TypeOK
<1>5. wpc = "confirm" => \A i \in left : tpc[i] # "none" /\ tconfirm[i]
    BY DEF Thr, TypeOK
<1> QED
    BY <1>1, <1>3, <1>4, <1>5 DEF ListsLive, Lists, Normal, Stopping, Late

(* Until the pool stops ah and fh hold no thread that has deleted itself;   *)
(* as it stops, no thread that is still to be told or waited for; and never *)
(* more than max threads.                                                   *)
THEOREM PoolListsLive == Spec => []ListsLive
BY Invariance, ListsLiveImplied, PTL

LEMMA NoLockInversionImplied == IInv => NoLockInversion
<1> SUFFICES ASSUME IInv PROVE NoLockInversion
    OBVIOUS
<1>1. wpc \in {"submit", "release"} => tpc[cur] # "done"
    BY DEF IInv, Lists, Thr, Idle
<1>2. wpc = "stopidle" => \A i \in left : tpc[i] # "done"
    BY DEF IInv, TypeOK, Thr, Idle
<1> QED
    BY <1>1, <1>2 DEF NoLockInversion

(* worker() never waits, with the pool's m, for the m of a thread that      *)
(* waits for the pool's m in done().                                        *)
THEOREM PoolNoLockInversion == Spec => []NoLockInversion
BY Invariance, NoLockInversionImplied, PTL

LEMMA NoLostSignalImplied == IInv => NoLostSignal
BY DEF IInv, Flags, NoLostSignal

(* worker() is not asleep while there is a task, a thread to spare or a     *)
(* stop to deal with.                                                       *)
THEOREM PoolNoLostSignal == Spec => []NoLostSignal
BY Invariance, NoLostSignalImplied, PTL

=============================================================================
