----------------------------- MODULE ThreadPool -----------------------------
(***************************************************************************)
(* Class ThreadPool (include/qore/intern/ThreadPool.h and                   *)
(* lib/QC_ThreadPool.qpp): the pool's own thread, which hands out the tasks *)
(* of the queue, the pool threads that run them, and the callers of         *)
(* submit(), stop() and stopWait().                                         *)
(*                                                                          *)
(* There are two kinds of mutex: the pool's m, which the pool's own thread  *)
(* holds in all states of Busy, and the m of each pool thread, which that   *)
(* thread holds while it is inside of ThreadPool::done().  The first takes  *)
(* the second in submit() and stop(), the other way round in done().  All   *)
(* other critical sections are one step.                                    *)
(*                                                                          *)
(* A pool thread's c.wait() is not in a loop of its own, so the code is not *)
(* written for wakeups without a signal (assert(task) would fail); the      *)
(* model has them for the pool's own thread only, whose wait is in a loop.  *)
(* So are those of stop() and stopWait() in stopCond, which would only go   *)
(* back to sleep.                                                           *)
(***************************************************************************)
EXTENDS Integers, Sequences, FiniteSets

CONSTANTS
    Workers,   \* the threads the process may start for the pool
    Tasks,
    Clients,   \* callers of stop() and stopWait()
    Max,       \* 0: no limit
    MinIdle, MaxIdle,
    Release,   \* whether release_ms is not 0
    Stops      \* what the clients call: a subset of {"stop", "stopWait"}

None == 0

ASSUME ParamsAssumption ==
    /\ Max \in Nat /\ MinIdle \in Nat /\ MaxIdle \in Nat
    /\ MinIdle <= MaxIdle
    /\ Max > 0 => MaxIdle <= Max
    /\ Release \in BOOLEAN
    /\ Stops \subseteq {"stop", "stopWait"}
    /\ None \notin Workers \cup Tasks
    /\ Tasks \subseteq Nat
    /\ IsFiniteSet(Workers)

VARIABLES
    q,         \* the master task queue
    q_copy,    \* the tasks to cancel
    fate,      \* per task: what became of it
    ah, fh,    \* allocated and free threads; the order of the lists is left out
    waiting, shutdown, stopflag, stopped, detach,
    wpc, cur,  \* the pool's own thread, and the pool thread it deals with
    left,      \* the pool threads its loop over a list has still to visit
    tpc,       \* per pool thread
    task,      \* per pool thread: its task
    tstop,     \* per pool thread: stopflag
    tconfirm,  \* per pool thread: whether it has a stopCond
    client

poolVars   == <<q, q_copy, fate, ah, fh>>
flagVars   == <<waiting, shutdown, stopflag, stopped, detach>>
workerVars == <<wpc, cur, left>>
threadVars == <<tpc, task, tstop, tconfirm>>
vars       == <<poolVars, flagVars, workerVars, threadVars, client>>

---------------------------------------------------------------------------
(* The pool's own thread holds m in these states... *)
Busy == {"top", "dispatch", "submit", "fill", "release", "stopidle"}

(* ... and waits on cond or has left it in these. *)
WPCs == Busy \cup {"init", "wait", "timedwait", "woken", "timedout", "getwait", "getwoken",
                   "stopactive", "confirm", "finish", "cancel", "end"}

(* none: not started, or deleted; stopped: ended, to be deleted by          *)
(* stopConfirm().                                                           *)
TPCs == {"none", "new", "waiting", "woken", "running", "done", "stopped"}

Free == wpc \notin Busy

(* cond.signal(): only the pool's own thread waits on cond. *)
Woken(s) == CASE s \in {"wait", "timedwait"} -> "woken"
              [] s = "getwait"               -> "getwoken"
              [] OTHER                       -> s

(* c.signal() on a pool thread. *)
Signal(p, i) == IF p[i] = "waiting" THEN [p EXCEPT ![i] = "woken"] ELSE p

(* A new ThreadPoolThread; q_start_thread() fails when the process has      *)
(* reached its limit.  Threads that do not run are alike: one is named.     *)
Startable ==
    LET idle == {i \in Workers : tpc[i] = "none"}
    IN  {CHOOSE i \in idle : TRUE : j \in idle}

Start(i) ==
    /\ tpc' = [tpc EXCEPT ![i] = "new"]
    /\ task' = [task EXCEPT ![i] = None]
    /\ tstop' = [tstop EXCEPT ![i] = FALSE]
    /\ tconfirm' = [tconfirm EXCEPT ![i] = FALSE]

---------------------------------------------------------------------------
(* ThreadPool::worker() *)

Goto(s) == wpc' = s /\ UNCHANGED <<cur, left>>

WorkerInit ==
    /\ wpc = "init"
    /\ Goto("fill")
    /\ UNCHANGED <<poolVars, flagVars, threadVars, client>>

(* The last part of the loop, and the first lines of worker(): idle threads *)
(* are added up to minidle.                                                 *)
WorkerFill ==
    LET more == Cardinality(fh) < MinIdle /\ (Max = 0 \/ Cardinality(fh) + Cardinality(ah) < Max)
    IN  /\ wpc = "fill"
        /\ \/ /\ more
              /\ \E i \in Startable : Start(i) /\ fh' = fh \cup {i}
              /\ UNCHANGED <<wpc, cur, left>>
           \/ /\ ~more \/ Startable = {}
              /\ Goto("top")
              /\ UNCHANGED <<fh, threadVars>>
        /\ UNCHANGED <<q, q_copy, fate, ah, flagVars, client>>

(* The top of the loop, up to the wait on cond.  stopIdle starts the loop   *)
(* over the free threads that ends the pool.                                *)
StopIdle == wpc' = "stopidle" /\ left' = fh /\ UNCHANGED cur

WorkerTop ==
    /\ wpc = "top"
    /\ \/ /\ stopflag
          /\ StopIdle
          /\ UNCHANGED stopflag
       \/ /\ ~stopflag /\ q = <<>> /\ shutdown
          /\ stopflag' = TRUE
          /\ StopIdle
       \/ /\ ~stopflag /\ q = <<>> /\ ~shutdown
          /\ Goto(IF Release /\ Cardinality(fh) > MinIdle THEN "timedwait" ELSE "wait")
          /\ UNCHANGED stopflag
       \/ /\ ~stopflag /\ q # <<>>
          /\ Goto("dispatch")
          /\ UNCHANGED stopflag
    /\ UNCHANGED <<poolVars, waiting, shutdown, stopped, detach, threadVars, client>>

(* cond.wait() returns for no reason, or after release_ms. *)
WorkerSpurious ==
    /\ wpc # Woken(wpc)
    /\ Goto(Woken(wpc))
    /\ UNCHANGED <<poolVars, flagVars, threadVars, client>>

WorkerTimeOut ==
    /\ wpc = "timedwait"
    /\ Goto("timedout")
    /\ UNCHANGED <<poolVars, flagVars, threadVars, client>>

(* After the wait: a timeout with no tasks ends an idle thread. *)
WorkerResume ==
    /\ wpc \in {"woken", "timedout"}
    /\ \/ /\ wpc = "timedout" /\ q = <<>>
          /\ \E i \in fh : fh' = fh \ {i} /\ cur' = i
          /\ wpc' = "release"
          /\ UNCHANGED left
       \/ /\ wpc = "woken" \/ q # <<>>
          /\ IF stopflag THEN StopIdle ELSE Goto("dispatch")
          /\ UNCHANGED fh
    /\ UNCHANGED <<q, q_copy, fate, ah, flagVars, threadVars, client>>

(* ThreadPoolThread::stop() and stopWait() *)
StopThread(i, confirm) ==
    /\ tpc[i] # "done"
    /\ tstop' = [tstop EXCEPT ![i] = TRUE]
    /\ tconfirm' = [tconfirm EXCEPT ![i] = confirm]
    /\ tpc' = Signal(tpc, i)
    /\ UNCHANGED task

WorkerRelease ==
    /\ wpc = "release"
    /\ StopThread(cur, FALSE)
    /\ Goto("top")
    /\ UNCHANGED <<poolVars, flagVars, client>>

(* getThreadUnlocked() for the task at the front of the queue: a free       *)
(* thread, a new one, or the wait for one to be done.                       *)
WorkerDispatch ==
    LET full == fh = {} /\ Max > 0 /\ Cardinality(ah) = Max
    IN  /\ wpc = "dispatch"
        /\ \/ /\ stopflag \/ q = <<>>
              /\ Goto("fill")
              /\ UNCHANGED <<ah, fh, waiting, threadVars>>
           \/ /\ ~stopflag /\ q # <<>> /\ full
              /\ waiting' = TRUE
              /\ Goto("getwait")
              /\ UNCHANGED <<ah, fh, threadVars>>
           \/ /\ ~stopflag /\ q # <<>> /\ ~full
              /\ \/ \E i \in fh : /\ fh' = fh \ {i} /\ ah' = ah \cup {i} /\ cur' = i
                                  /\ UNCHANGED threadVars
                 \/ \E i \in Startable : /\ fh = {} /\ UNCHANGED fh
                                         /\ Start(i) /\ ah' = ah \cup {i} /\ cur' = i
              /\ wpc' = "submit"
              /\ UNCHANGED <<left, waiting>>
           \/ /\ ~stopflag /\ q # <<>> /\ ~full /\ fh = {} /\ Startable = {}
              /\ Goto("fill")
              /\ UNCHANGED <<ah, fh, waiting, threadVars>>
        /\ UNCHANGED <<q, q_copy, fate, shutdown, stopflag, stopped, detach, client>>

WorkerGetResume ==
    /\ wpc = "getwoken"
    /\ waiting' = FALSE
    /\ Goto("dispatch")
    /\ UNCHANGED <<poolVars, shutdown, stopflag, stopped, detach, threadVars, client>>

(* Faulty variant: the task stays in the queue. *)
WorkerSubmitNoPop ==
    /\ wpc = "submit"
    /\ tpc[cur] # "done"
    /\ task' = [task EXCEPT ![cur] = Head(q)]
    /\ tpc' = Signal(tpc, cur)
    /\ fate' = [fate EXCEPT ![Head(q)] = "given"]
    /\ Goto("dispatch")
    /\ UNCHANGED <<q, q_copy, ah, fh, flagVars, tstop, tconfirm, client>>

(* ThreadPoolThread::submit(), and the task leaves the queue. *)
WorkerSubmit ==
    /\ wpc = "submit"
    /\ tpc[cur] # "done"
    /\ task' = [task EXCEPT ![cur] = Head(q)]
    /\ tpc' = Signal(tpc, cur)
    /\ fate' = [fate EXCEPT ![Head(q)] = "given"]
    /\ q' = Tail(q)
    /\ Goto("dispatch")
    /\ UNCHANGED <<q_copy, ah, fh, flagVars, tstop, tconfirm, client>>

(* The end of worker(): the free threads with m, then the others without    *)
(* it, and unless they are detached the wait for each of them.              *)
WorkerStopIdle ==
    /\ wpc = "stopidle"
    /\ \/ /\ \E i \in left : StopThread(i, FALSE) /\ left' = left \ {i}
          /\ UNCHANGED <<wpc, cur>>
       \/ /\ left = {}
          /\ wpc' = "stopactive" /\ left' = ah
          /\ UNCHANGED <<cur, threadVars>>
    /\ UNCHANGED <<poolVars, flagVars, client>>

WorkerStopActive ==
    /\ wpc = "stopactive"
    /\ \/ /\ \E i \in left : StopThread(i, ~detach) /\ left' = left \ {i}
          /\ UNCHANGED <<wpc, cur>>
       \/ /\ left = {}
          /\ wpc' = (IF detach THEN "finish" ELSE "confirm")
          /\ left' = (IF detach THEN {} ELSE ah)
          /\ UNCHANGED <<cur, threadVars>>
    /\ UNCHANGED <<poolVars, flagVars, client>>

(* stopConfirm(): it waits for one thread at a time, in a loop of its own.  *)
WorkerConfirm ==
    /\ wpc = "confirm"
    /\ \/ /\ \E i \in left : /\ tpc[i] = "stopped"
                             /\ tpc' = [tpc EXCEPT ![i] = "none"]
                             /\ left' = left \ {i}
          /\ UNCHANGED <<wpc, cur, task, tstop, tconfirm>>
       \/ /\ left = {}
          /\ wpc' = "finish"
          /\ UNCHANGED <<cur, left, threadVars>>
    /\ UNCHANGED <<poolVars, flagVars, client>>

(* stopCond.broadcast() *)
StopBroadcast(p) == [c \in Clients |-> IF p[c] = "asleep" THEN "woken" ELSE p[c]]

(* Faulty variant: nobody is told. *)
WorkerFinishSilent ==
    /\ wpc = "finish"
    /\ stopped' = TRUE
    /\ q_copy' = q /\ q' = <<>>
    /\ Goto("cancel")
    /\ UNCHANGED <<fate, ah, fh, waiting, shutdown, stopflag, detach, threadVars, client>>

(* The pool has stopped.  The lists are emptied in DEBUG builds only; this  *)
(* is the other build, where they keep threads that have deleted themselves *)
(* or that stopConfirm() has deleted.                                       *)
WorkerFinish ==
    /\ wpc = "finish"
    /\ stopped' = TRUE
    /\ client' = StopBroadcast(client)
    /\ q_copy' = q /\ q' = <<>>
    /\ Goto("cancel")
    /\ UNCHANGED <<fate, ah, fh, waiting, shutdown, stopflag, detach, threadVars>>

WorkerCancel ==
    /\ wpc = "cancel"
    /\ \/ /\ q_copy # <<>>
          /\ fate' = [fate EXCEPT ![Head(q_copy)] = "cancelled"]
          /\ q_copy' = Tail(q_copy)
          /\ UNCHANGED wpc
       \/ /\ q_copy = <<>>
          /\ wpc' = "end"
          /\ UNCHANGED <<fate, q_copy>>
    /\ UNCHANGED <<q, ah, fh, flagVars, cur, left, threadVars, client>>

---------------------------------------------------------------------------
(* ThreadPoolThread::worker() *)

(* Past the loop: stopConfirm() deletes the thread, or it deletes itself. *)
Exit(i) ==
    /\ tpc' = [tpc EXCEPT ![i] = IF tconfirm[i] THEN "stopped" ELSE "none"]
    /\ UNCHANGED fate

Run(i) ==
    /\ tpc' = [tpc EXCEPT ![i] = "running"]
    /\ fate' = [fate EXCEPT ![task[i]] = "running"]

(* The head of the loop, for a new thread. *)
ThreadStart(i) ==
    /\ tpc[i] = "new"
    /\ \/ task[i] # None /\ Run(i)
       \/ task[i] = None /\ tstop[i] /\ Exit(i)
       \/ /\ task[i] = None /\ ~tstop[i]
          /\ tpc' = [tpc EXCEPT ![i] = "waiting"]
          /\ UNCHANGED fate
    /\ UNCHANGED <<q, q_copy, ah, fh, flagVars, workerVars, task, tstop, tconfirm, client>>

ThreadWake(i) ==
    /\ tpc[i] = "woken"
    /\ \/ task[i] # None /\ Run(i)
       \/ task[i] = None /\ tstop[i] /\ Exit(i)
    /\ UNCHANGED <<q, q_copy, ah, fh, flagVars, workerVars, task, tstop, tconfirm, client>>

(* Faulty variant: the thread is listed as free before it calls done(). *)
ThreadEndEarly(i) ==
    /\ tpc[i] = "running"
    /\ Free
    /\ fate' = [fate EXCEPT ![task[i]] = "done"]
    /\ task' = [task EXCEPT ![i] = None]
    /\ tpc' = [tpc EXCEPT ![i] = IF ~tstop[i] THEN "done"
                                 ELSE IF tconfirm[i] THEN "stopped" ELSE "none"]
    /\ ah' = IF stopflag THEN ah ELSE ah \ {i}
    /\ fh' = IF stopflag THEN fh ELSE fh \cup {i}
    /\ UNCHANGED <<q, q_copy, flagVars, workerVars, tstop, tconfirm, client>>

(* The task returns; the thread takes its m and goes on to done(). *)
ThreadEnd(i) ==
    /\ tpc[i] = "running"
    /\ fate' = [fate EXCEPT ![task[i]] = "done"]
    /\ task' = [task EXCEPT ![i] = None]
    /\ tpc' = [tpc EXCEPT ![i] = IF ~tstop[i] THEN "done"
                                 ELSE IF tconfirm[i] THEN "stopped" ELSE "none"]
    /\ UNCHANGED <<q, q_copy, ah, fh, flagVars, workerVars, tstop, tconfirm, client>>

(* Faulty variants: the thread leaves its list although the pool is         *)
(* stopping; the pool's own thread is not told of the free thread.          *)
ThreadDoneLeaves(i) ==
    /\ tpc[i] = "done"
    /\ Free
    /\ ah' = ah \ {i}
    /\ fh' = IF stopflag THEN fh ELSE fh \cup {i}
    /\ tpc' = [tpc EXCEPT ![i] = IF stopflag THEN "none" ELSE "waiting"]
    /\ wpc' = Woken(wpc)
    /\ UNCHANGED <<q, q_copy, fate, flagVars, cur, left, task, tstop, tconfirm, client>>

ThreadDoneSilent(i) ==
    LET requeue == \/ MaxIdle = 0 /\ Release
                   \/ Cardinality(fh) < MaxIdle
                   \/ Len(q) > Cardinality(fh)
    IN  /\ tpc[i] = "done"
        /\ Free
        /\ ah' = IF stopflag THEN ah ELSE ah \ {i}
        /\ fh' = IF ~stopflag /\ requeue THEN fh \cup {i} ELSE fh
        /\ tpc' = [tpc EXCEPT ![i] = IF stopflag \/ requeue THEN "waiting" ELSE "none"]
        /\ UNCHANGED <<q, q_copy, fate, flagVars, workerVars, task, tstop, tconfirm, client>>

(* ThreadPool::done(): with both mutexes. *)
ThreadDone(i) ==
    LET requeue == \/ MaxIdle = 0 /\ Release
                   \/ Cardinality(fh) < MaxIdle
                   \/ Len(q) > Cardinality(fh)
    IN  /\ tpc[i] = "done"
        /\ Free
        /\ \/ /\ stopflag
              /\ tpc' = [tpc EXCEPT ![i] = "waiting"]
              /\ UNCHANGED <<ah, fh, wpc>>
           \/ /\ ~stopflag /\ requeue
              /\ ah' = ah \ {i}
              /\ fh' = fh \cup {i}
              /\ tpc' = [tpc EXCEPT ![i] = "waiting"]
              /\ wpc' = IF waiting \/ (Release /\ Cardinality(fh') > MinIdle)
                        THEN Woken(wpc) ELSE wpc
           \/ /\ ~stopflag /\ ~requeue
              /\ ah' = ah \ {i}
              /\ tpc' = [tpc EXCEPT ![i] = IF tconfirm[i] THEN "stopped" ELSE "none"]
              /\ UNCHANGED <<fh, wpc>>
        /\ UNCHANGED <<q, q_copy, fate, flagVars, cur, left, task, tstop, tconfirm, client>>

---------------------------------------------------------------------------
(* The callers. *)

(* Tasks are numbered in the order in which they are submitted. *)
submit(t) ==
    /\ fate[t] = "new"
    /\ \A u \in Tasks : u < t => fate[u] # "new"
    /\ Free
    /\ \/ /\ shutdown
          /\ fate' = [fate EXCEPT ![t] = "rejected"]
          /\ UNCHANGED <<q, wpc>>
       \/ /\ ~shutdown
          /\ wpc' = IF q = <<>> THEN Woken(wpc) ELSE wpc
          /\ q' = Append(q, t)
          /\ fate' = [fate EXCEPT ![t] = "queued"]
    /\ UNCHANGED <<q_copy, ah, fh, flagVars, cur, left, threadVars, client>>

(* A client has called stop() or stopWait() and waits for m. *)
Call(c, method) ==
    /\ client[c] = "idle"
    /\ client' = [client EXCEPT ![c] = IF method = "stop" THEN "callsStop" ELSE "callsStopWait"]
    /\ UNCHANGED <<poolVars, flagVars, workerVars, threadVars>>

(* The head of the loop at the end of stop() and stopWait(): the thread     *)
(* returns, or sleeps in stopCond, which gives up m.                        *)
AwaitStopped(c) == client' = [client EXCEPT ![c] = IF stopped THEN "returned" ELSE "asleep"]

stop(c) ==
    /\ client[c] = "callsStop"
    /\ Free
    /\ AwaitStopped(c)
    /\ \/ /\ ~stopflag
          /\ detach' = TRUE /\ shutdown' = TRUE /\ stopflag' = TRUE
          /\ wpc' = Woken(wpc)
       \/ /\ stopflag
          /\ UNCHANGED <<detach, shutdown, stopflag, wpc>>
    /\ UNCHANGED <<poolVars, waiting, stopped, cur, left, threadVars>>

stopWait(c) ==
    /\ client[c] = "callsStopWait"
    /\ Free
    /\ \/ /\ detach /\ ~stopped
          /\ client' = [client EXCEPT ![c] = "returned"]
          /\ UNCHANGED <<shutdown, wpc>>
       \/ /\ ~(detach /\ ~stopped)
          /\ AwaitStopped(c)
          /\ shutdown' = TRUE
          /\ wpc' = IF shutdown THEN wpc ELSE Woken(wpc)
    /\ UNCHANGED <<poolVars, waiting, stopflag, stopped, detach, cur, left, threadVars>>

(* stopCond.wait() returns after the broadcast. *)
Return(c) ==
    /\ client[c] = "woken"
    /\ Free
    /\ AwaitStopped(c)
    /\ UNCHANGED <<poolVars, flagVars, workerVars, threadVars>>

---------------------------------------------------------------------------

Init ==
    /\ q = <<>> /\ q_copy = <<>> /\ fate = [t \in Tasks |-> "new"]
    /\ ah = {} /\ fh = {}
    /\ waiting = FALSE /\ shutdown = FALSE /\ stopflag = FALSE
    /\ stopped = FALSE /\ detach = FALSE
    /\ wpc = "init" /\ cur = None /\ left = {}
    /\ tpc = [i \in Workers |-> "none"] /\ task = [i \in Workers |-> None]
    /\ tstop = [i \in Workers |-> FALSE] /\ tconfirm = [i \in Workers |-> FALSE]
    /\ client = [c \in Clients |-> "idle"]

Worker ==
    \/ WorkerInit \/ WorkerFill \/ WorkerTop \/ WorkerResume \/ WorkerRelease
    \/ WorkerDispatch \/ WorkerGetResume \/ WorkerSubmit
    \/ WorkerStopIdle \/ WorkerStopActive \/ WorkerConfirm \/ WorkerFinish \/ WorkerCancel

Thread(i) == ThreadStart(i) \/ ThreadWake(i) \/ ThreadEnd(i) \/ ThreadDone(i)

(* The pool has ended and everybody has returned. *)
Over ==
    /\ wpc = "end"
    /\ \A i \in Workers : tpc[i] = "none"
    /\ \A c \in Clients : client[c] = "returned"
    /\ \A t \in Tasks : fate[t] \notin {"new", "queued"}
    /\ UNCHANGED vars

Next ==
    \/ Worker \/ WorkerSpurious \/ WorkerTimeOut
    \/ \E i \in Workers : Thread(i)
    \/ \E t \in Tasks : submit(t)
    \/ \E c \in Clients : (\E method \in Stops : Call(c, method)) \/ stop(c) \/ stopWait(c) \/ Return(c)
    \/ Over

Spec == Init /\ [][Next]_vars

(* Every thread goes on while it can, and tasks return.  The pool's m is    *)
(* taken by many threads in turn, so fairness of done() and of the callers  *)
(* of stop() and stopWait() is strong.                                      *)
Fairness ==
    /\ WF_vars(Worker)
    /\ \A i \in Workers : WF_vars(Thread(i)) /\ SF_vars(ThreadDone(i))
    /\ \A c \in Clients : SF_vars(stop(c) \/ stopWait(c) \/ Return(c))

FairSpec == Spec /\ Fairness

---------------------------------------------------------------------------
(* The state of the pool, its threads and its callers. *)
TypeOK ==
    /\ q \in Seq(Tasks) /\ q_copy \in Seq(Tasks)
    /\ fate \in [Tasks -> {"new", "queued", "given", "running", "done", "cancelled", "rejected"}]
    /\ ah \subseteq Workers /\ fh \subseteq Workers /\ left \subseteq Workers
    /\ {waiting, shutdown, stopflag, stopped, detach} \subseteq BOOLEAN
    /\ wpc \in WPCs /\ cur \in Workers \cup {None}
    /\ tpc \in [Workers -> TPCs] /\ task \in [Workers -> Tasks \cup {None}]
    /\ tstop \in [Workers -> BOOLEAN] /\ tconfirm \in [Workers -> BOOLEAN]
    /\ client \in [Clients -> {"idle", "callsStop", "callsStopWait", "asleep", "woken", "returned"}]

Image(s) == {s[k] : k \in 1 .. Len(s)}

(* A task that was accepted is in exactly one place, in the queue, with one *)
(* thread or on the list to cancel, until it has run or was cancelled:      *)
(* nothing is lost or run twice when stop() comes at any moment; and a pool *)
(* stopped with stopWait() alone has run all of them.                       *)
TasksAccounted ==
    /\ TypeOK
    /\ stopped /\ ~detach => \A t \in Tasks : fate[t] \in {"new", "rejected", "done"}
    /\ Len(q) = Cardinality(Image(q)) /\ Len(q_copy) = Cardinality(Image(q_copy))
    /\ \A t \in Tasks :
          LET owners == {i \in Workers : task[i] = t}
          IN  /\ fate[t] = "queued" <=> t \in Image(q) \cup Image(q_copy)
              /\ Cardinality(owners) = IF fate[t] \in {"given", "running"} THEN 1 ELSE 0
              /\ fate[t] = "running" <=> \E i \in owners : tpc[i] = "running"

(* Until the pool stops the lists hold live threads, each once, and never   *)
(* more than max of them, although done(), the start of idle threads and    *)
(* getThreadUnlocked() all move threads.  What stop(), stopWait() and       *)
(* stopConfirm() are called on as the pool stops has not deleted itself,    *)
(* however the end of its task falls in with the end of the pool.  Nothing  *)
(* is said of the other threads in the lists from then on: they may be gone *)
(* while toString() still walks both lists (ThreadPool.h:286-306).          *)
ListsLive ==
    /\ Max > 0 => Cardinality(ah) + Cardinality(fh) <= Max
    /\ ah \cap fh = {}
    /\ wpc \notin {"stopidle", "stopactive", "confirm", "finish", "cancel", "end"}
         => \A i \in ah \cup fh : tpc[i] \notin {"none", "stopped"} /\ ~tstop[i]
    /\ wpc = "stopidle" => \A i \in left \cup ah : tpc[i] # "none"
    /\ wpc = "stopactive" => \A i \in left : tpc[i] # "none"
    /\ wpc = "confirm" => \A i \in left : tpc[i] # "none" /\ tconfirm[i]

(* The pool's own thread takes the m of a pool thread with the pool's m     *)
(* held, and done() takes them the other way round, but never both at once  *)
(* for one thread: no deadlock.                                             *)
NoLockInversion ==
    /\ wpc \in {"submit", "release"} => tpc[cur] # "done"
    /\ wpc = "stopidle" => \A i \in left : tpc[i] # "done"

(* With tasks in the queue and a thread to spare, the pool's own thread is  *)
(* not asleep: no signal of submit(), done() or stop() is lost; and nobody  *)
(* sleeps in stop() or stopWait() once the pool has stopped.                *)
NoLostSignal ==
    /\ wpc \in {"wait", "timedwait"} => q = <<>> /\ ~shutdown /\ ~stopflag
    /\ wpc = "getwait" => fh = {} /\ Cardinality(ah) = Max /\ ~stopflag
    /\ stopped => \A c \in Clients : client[c] # "asleep"

(* Every task that is accepted runs or is cancelled. *)
TasksSettled ==
    \A t \in Tasks : fate[t] = "queued" ~> fate[t] \in {"done", "cancelled"}

(* stop() "stops the thread pool and returns immediately", and stopWait()   *)
(* returns when the tasks have ended.                                       *)
StopReturns ==
    \A c \in Clients : client[c] # "idle" ~> client[c] = "returned"

===========================================================================
