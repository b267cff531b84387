------------------------------- MODULE ObjectGC -------------------------------
(***************************************************************************)
(* Scope and collection of objects (lib/QoreObject.cpp, lib/RSet.cpp):     *)
(* threads assign object members, take objects into local variables and    *)
(* drop references; a dereference decides whether the object, or the       *)
(* recursive set it belongs to, is collected; an assignment is followed by *)
(* a scan that recalculates the sets.                                      *)
(*                                                                         *)
(* Every object has one member (next).  A scan then follows a chain, which *)
(* closes at most one cycle and gives each of its objects rcount 1; the    *)
(* walk over arbitrary graphs is in RSetScan.  The object lock is the      *)
(* abstract one: RSectionLock shows what its condition variables do.       *)
(*                                                                         *)
(* A step is a section under one lock (rlck, the object's lock for writing,*)
(* the lock of an RSet).  The destructor's code, weak references and the   *)
(* delete operator are left out.                                           *)
(***************************************************************************)
EXTENDS Integers, Sequences, FiniteSets

CONSTANTS
    Objs, Threads,
    Nil,      \* no object, no thread
    Bad,      \* a pointer to an RSet that is no longer valid
    Kinds,    \* the operations threads start: "assign", "drop", "take"
    MaxOps    \* bound: how many operations are started, assignments counted twice

ASSUME ObjsAssumption ==
    /\ IsFiniteSet(Objs) /\ IsFiniteSet(Threads)
    /\ Nil \notin Objs \cup Threads
    /\ \A os \in SUBSET Objs : os # Bad

VARIABLES
    next,        \* the member of each object
    held,        \* objects with an element in a shared list
    var,         \* the local variable of each thread
    references,  \* the reference count
    rrefs,       \* how many of them are "real": held by a local variable
    status,      \* "ok", "dtor" (in_destructor), "deleted", "freed"
    deferred,    \* objects with deferred_scan set
    rrefWait,    \* objects with rref_wait set
    rset,        \* {}: no set; else the objects of the valid set, or Bad
    rcount,      \* references from inside the set
    rs,          \* thread in the rsection (it also holds the read lock)
    rd,          \* threads with the read lock that wait for the rsection
    wr,          \* thread with the write lock that waits for the lock of an RSet
    rscan,       \* thread that scans with this object as the root
    notifier,    \* object whose rsection a thread waits to be left
    scanned,     \* threads whose scan a commit of another one covers (rcycle)
    stack,       \* operations in progress of each thread, innermost first
    ops,         \* operations started so far, assignments counted twice
    torn,        \* history: threads in canDelete() that compared a count since changed
    raced        \* history: why decisions to keep or to collect were unreliable

vars == <<next, held, var, references, rrefs, status, deferred, rrefWait,
          rset, rcount, rs, rd, wr, rscan, notifier, scanned, stack, ops, torn, raced>>

graph == <<next, held, var>>
sets == <<rset, rcount>>
locks == <<rs, rd, wr, rscan, notifier, scanned>>
history == <<torn, raced>>

-----------------------------------------------------------------------------
(* Reachability, the stack of operations and the locks *)

Closed(os) == \A o \in os : next[o] \in os \cup {Nil}

Reachable(os) ==
    {o \in Objs : \A s \in SUBSET Objs : os \subseteq s /\ Closed(s) => o \in s}

Roots(ts) == held \cup ({var[t] : t \in ts} \ {Nil})

Cyclic == {o \in Objs : o \in Reachable({next[o]} \ {Nil})}

DerefFrame(o) ==
    [op |-> "deref", pc |-> "start", o |-> o, refs |-> 0, doScan |-> FALSE,
     rescan |-> FALSE, todo |-> {}, final |-> FALSE]

Derefs(o) == IF o = Nil THEN <<>> ELSE <<DerefFrame(o)>>

ScanFrame(o, by) ==
    [op |-> "scan", pc |-> "defer", o |-> o, by |-> by, cur |-> o, path |-> <<>>,
     ok |-> {}, cycle |-> {}, add |-> {}, todo |-> {}, out |-> {}, taken |-> {}]

Top(t) == Head(stack[t])

At(t, op, pc) == stack[t] # <<>> /\ Top(t).op = op /\ Top(t).pc = pc

Frames(t) == {stack[t][i] : i \in DOMAIN stack[t]}

\* the innermost operation of t is replaced
Continue(t, frames) == stack' = [stack EXCEPT ![t] = frames \o Tail(@)]

\* wrlock() does not wait: no writer, no reader, and whoever is in the rsection reads
WriteFree(o) == wr[o] = Nil /\ rs[o] = Nil /\ rd[o] = {}

\* Faulty variant: whoever waits for the rsection is not told that it is free
LeaveQuiet(os) ==
    /\ rs' = [o \in Objs |-> IF o \in os THEN Nil ELSE rs[o]]
    /\ notifier' = notifier

\* rSectionUnlock() on each of os
Leave(os) ==
    /\ rs' = [o \in Objs |-> IF o \in os THEN Nil ELSE rs[o]]
    /\ notifier' = [t \in Threads |-> IF notifier[t] \in os THEN Nil ELSE notifier[t]]

\* the object that a scan adds to the new set next: the last one on the path
Adding(f) ==
    f.path[CHOOSE i \in DOMAIN f.path :
               /\ f.path[i] \in f.add
               /\ \A j \in i + 1 .. Len(f.path) : f.path[j] \notin f.add]

\* t reads the set s: it is in the loop of canDelete() or of removeInvalidate()
Reads(t, s) ==
    \/ At(t, "deref", "members") /\ rset[Top(t).o] = s
    \/ At(t, "scan", "old") /\ rset[Adding(Top(t))] = s

\* the write lock of the RSet is free
SetFree(s) == \A t \in Threads : ~Reads(t, s)

\* Faulty variant: a replaced set stays valid for the objects that are not in the new one
InvalidatedNot(ss) == rset

Invalidated(ss) == [o \in Objs |-> IF rset[o] \in ss \ {{}} THEN Bad ELSE rset[o]]

removeInvalidateRSetIntern(o) ==
    /\ SetFree(rset[o])
    /\ rset' = [Invalidated({rset[o]}) EXCEPT ![o] = {}]
    /\ rcount' = [rcount EXCEPT ![o] = 0]

\* ref_inprogress
InProgress(o) ==
    {t \in Threads : \E f \in Frames(t) :
        f.op = "deref" /\ f.o = o /\ f.pc \notin {"start", "drain"}}

-----------------------------------------------------------------------------
(* History: what makes a decision of customDeref() unreliable *)

Valid(o) == rset[o] \notin {{}, Bad}

\* the operation f of t is to be followed by a scan of o, or is that scan, and no
\* other scan has covered o since
Awaits(t, f, o) ==
    \/ f.op = "assign" /\ f.o = o
    \/ f.op = "deref" /\ f.o = o /\ f.rescan
    \/ f.op = "scan" /\ o \in f.taken
    \/ /\ f.op = "scan" /\ f.o = o /\ f.by # "invalid" /\ f.pc # "removed"
       /\ t \in scanned => f.pc \in {"defer", "remove", "removing"}

Pending(o) == \E t \in Threads : \E f \in Frames(t) : Awaits(t, f, o)

Due(o) == Pending(o) \/ o \in deferred

\* the reference count of o changes after canDelete() has looked at it
CountChanged(o) ==
    torn' = torn \cup
        {t \in Threads : /\ At(t, "deref", "members") \/ At(t, "deref", "invalidate")
                         /\ Valid(o) /\ rset[o] = rset[Top(t).o] /\ o \notin Top(t).todo}

\* a thread that has decided to collect o has not yet cleared its members
Collecting(o) ==
    \E t \in Threads : \E f \in Frames(t) :
        f.o = o /\ (f.op = "delete" \/ (f.op = "deref" /\ f.pc \in {"write", "drain"}))

\* one of the objects can be reached from the other one: a scan of p may change the
\* set of o
Related(o, p) == o \in Reachable({p}) \/ p \in Reachable({o})

\* t has a scan to make that could change a decision about o
Owes(t, o) == \E f \in Frames(t), p \in Objs : Awaits(t, f, p) /\ Related(o, p)

\* customDeref() leaves the object alone: it gives up a deferred scan that it has
\* taken over ("lost"); or it is too early to tell, because another thread has yet to
\* scan, or has compared a count that is out of date while this one has yet to
Keeps(t, f) ==
    raced' = raced
        \cup (IF f.rescan /\ Valid(f.o) THEN {"lost"} ELSE {})
        \cup (IF \E u \in Threads \ {t} : Owes(u, f.o) \/ (Owes(t, f.o) /\ u \in InProgress(f.o))
              THEN {"early"} ELSE {})

\* canDelete() returns 1
Collects(t, o) ==
    raced' = raced
        \cup (IF \E p \in rset[o] : Due(p) THEN {"unscanned"} ELSE {})
        \cup (IF t \in torn THEN {"torn"} ELSE {})
        \cup (IF \E p \in rset[o] : Collecting(p) THEN {"twice"} ELSE {})

-----------------------------------------------------------------------------
(* A graph built while every object was in the list: each assignment has   *)
(* been scanned, then elements were removed without leaving garbage.       *)
Init ==
    /\ next \in [Objs -> Objs \cup {Nil}]
    /\ held \in SUBSET Objs
    /\ var = [t \in Threads |-> Nil]
    /\ Reachable(held) = Objs
    /\ references = [o \in Objs |-> Cardinality({p \in Objs : next[p] = o})
                                    + IF o \in held THEN 1 ELSE 0]
    /\ rrefs = [o \in Objs |-> 0]
    /\ status = [o \in Objs |-> "ok"]
    /\ deferred = {}
    /\ rrefWait = {}
    /\ rset = [o \in Objs |-> IF o \in Cyclic THEN Reachable({o}) ELSE {}]
    /\ rcount = [o \in Objs |-> IF o \in Cyclic THEN 1 ELSE 0]
    /\ rs = [o \in Objs |-> Nil]
    /\ rd = [o \in Objs |-> {}]
    /\ wr = [o \in Objs |-> Nil]
    /\ rscan = [o \in Objs |-> Nil]
    /\ notifier = [t \in Threads |-> Nil]
    /\ stack = [t \in Threads |-> <<>>]
    /\ scanned = {}
    /\ ops = 0
    /\ torn = {}
    /\ raced = {}

-----------------------------------------------------------------------------
(* What a thread's program does *)

Start(t, kind) ==
    /\ stack[t] = <<>>
    /\ kind \in Kinds
    /\ ops' = ops + IF kind = "assign" THEN 2 ELSE 1
    /\ ops' <= MaxOps

\* o.next = v: the value has been evaluated and o found, neither is locked
AssignStart(t, o, v) ==
    /\ Start(t, "assign")
    /\ o \in Reachable(Roots({t}))
    /\ v \in Reachable(Roots({t})) \cup {Nil}
    /\ references' = [p \in Objs |-> references[p] + IF p = v THEN 1 ELSE 0]
    /\ LET f == [op |-> "assign", pc |-> "write", o |-> o, v |-> v]
       IN stack' = [stack EXCEPT ![t] = <<f>>]
    /\ IF v = Nil THEN torn' = torn ELSE CountChanged(v)
    /\ UNCHANGED <<graph, rrefs, status, deferred, rrefWait, sets, locks, raced>>

\* the lvalue is written under the object's lock; then, with the lock free,
\* the old value is discarded, and then the object is scanned if the old value
\* or the new one is an object
Assign(t) ==
    /\ At(t, "assign", "write")
    /\ LET o == Top(t).o
           v == Top(t).v
       IN /\ WriteFree(o)
          /\ \/ /\ status[o] \in {"deleted", "freed"}
                /\ next' = next
                /\ Continue(t, Derefs(v))
             \/ /\ status[o] \in {"ok", "dtor"}
                /\ next' = [next EXCEPT ![o] = v]
                /\ Continue(t, Derefs(next[o]) \o IF {v, next[o]} = {Nil} THEN <<>>
                                                 ELSE <<ScanFrame(o, "assign")>>)
    /\ UNCHANGED <<held, var, references, rrefs, status, deferred, rrefWait, sets,
                   locks, ops, history>>

\* an element is removed from the list
DropElement(t, o) ==
    /\ Start(t, "drop")
    /\ o \in held
    /\ held' = held \ {o}
    /\ stack' = [stack EXCEPT ![t] = Derefs(o)]
    /\ UNCHANGED <<next, var, references, rrefs, status, deferred, rrefWait, sets,
                   locks, history>>

\* the thread's variable is assigned: the value is referenced when it is read
TakeStart(t, o) ==
    /\ Start(t, "take")
    /\ var[t] = Nil
    /\ o \in Reachable(Roots({t}))
    /\ references' = [references EXCEPT ![o] = @ + 1]
    /\ stack' = [stack EXCEPT ![t] = <<[op |-> "take", pc |-> "real", o |-> o]>>]
    /\ CountChanged(o)
    /\ UNCHANGED <<graph, rrefs, status, deferred, rrefWait, sets, locks, raced>>

\* and the variable makes it a real reference
setRealReference(t) ==
    /\ At(t, "take", "real")
    /\ rrefs' = [rrefs EXCEPT ![Top(t).o] = @ + 1]
    /\ var' = [var EXCEPT ![t] = Top(t).o]
    /\ Continue(t, <<>>)
    /\ UNCHANGED <<next, held, references, status, deferred, rrefWait, sets, locks,
                   ops, history>>

\* the variable is cleared; the value is discarded afterwards
unsetRealReference(t) ==
    /\ var[t] # Nil
    /\ Start(t, "take")
    /\ ~(rrefs[var[t]] = 1 /\ var[t] \in rrefWait)
    /\ rrefs' = [rrefs EXCEPT ![var[t]] = @ - 1]
    /\ var' = [var EXCEPT ![t] = Nil]
    /\ stack' = [stack EXCEPT ![t] = Derefs(var[t])]
    /\ UNCHANGED <<next, held, references, status, deferred, rrefWait, sets, locks,
                   history>>

-----------------------------------------------------------------------------
(* QoreObject::customDeref() *)

\* Faulty variant: a deferred scan is forgotten
derefStartForgets(t) ==
    /\ At(t, "deref", "start")
    /\ LET o == Top(t).o
           refs == references[o] - 1
           real == rrefs[o] > 0
       IN /\ references' = [references EXCEPT ![o] = refs]
          /\ deferred' = IF real THEN deferred ELSE deferred \ {o}
          /\ Continue(t, <<[Top(t) EXCEPT !.pc = IF refs = 0 THEN "write" ELSE "read",
                                          !.refs = refs,
                                          !.doScan = ~real]>>)
          /\ CountChanged(o)
    /\ UNCHANGED <<graph, rrefs, status, rrefWait, sets, locks, ops, raced>>

\* robject_dereference_helper: a reference less, under rlck
derefStart(t) ==
    /\ At(t, "deref", "start")
    /\ LET o == Top(t).o
           refs == references[o] - 1
           real == rrefs[o] > 0
       IN /\ references' = [references EXCEPT ![o] = refs]
          /\ deferred' = IF real THEN deferred ELSE deferred \ {o}
          /\ Continue(t, <<[Top(t) EXCEPT !.pc = IF refs = 0 THEN "write" ELSE "read",
                                          !.refs = refs,
                                          !.doScan = ~real,
                                          !.rescan = ~real /\ o \in deferred]>>)
          /\ CountChanged(o)
    /\ UNCHANGED <<graph, rrefs, status, rrefWait, sets, locks, ops, raced>>

\* the read lock is taken; the object is left alone if it is being deleted
derefRead(t) ==
    /\ At(t, "deref", "read")
    /\ wr[Top(t).o] = Nil
    /\ \/ /\ status[Top(t).o] # "ok"
          /\ Continue(t, <<>>)
          /\ rd' = rd
       \/ /\ status[Top(t).o] = "ok"
          /\ Continue(t, <<[Top(t) EXCEPT !.pc = "rsection"]>>)
          /\ rd' = [rd EXCEPT ![Top(t).o] = @ \cup {t}]
    /\ UNCHANGED <<graph, references, rrefs, status, deferred, rrefWait, sets, rs, wr,
                   rscan, notifier, scanned, ops, history>>

\* what follows a decision to keep the object (0), to collect it (1) or to
\* calculate its set again (-1)
Decided(t, f, rc) ==
    Continue(t, IF rc = 1 THEN <<[f EXCEPT !.pc = "write"]>>
                ELSE IF rc = -1 /\ f.doScan
                THEN <<ScanFrame(f.o, IF rset[f.o] = Bad THEN "invalid" ELSE "deferred"),
                       [f EXCEPT !.pc = "read"]>>
                ELSE <<>>)

\* in the rsection rset does not change: the cases with no set, with an
\* invalid one, and with too many references are decided at once
derefRSection(t) ==
    /\ At(t, "deref", "rsection")
    /\ LET f == Top(t)
           o == f.o
           rc == CASE rset[o] = Bad -> -1
                   [] rset[o] = {} /\ rcount[o] = f.refs -> 1
                   [] rset[o] = {} /\ rcount[o] # f.refs /\ f.rescan -> -1
                   [] OTHER -> 0
       IN /\ rs[o] = Nil
          /\ rd' = [rd EXCEPT ![o] = @ \ {t}]
          /\ \/ /\ rset[o] \notin {{}, Bad}
                /\ f.refs = rcount[o]
                /\ rs' = [rs EXCEPT ![o] = t]
                /\ Continue(t, <<[f EXCEPT !.pc = "members", !.todo = rset[o]]>>)
                /\ raced' = raced
             \/ /\ rset[o] \in {{}, Bad} \/ f.refs # rcount[o]
                /\ rs' = rs
                /\ Decided(t, [f EXCEPT !.rescan = @ /\ rset[o] # {}], rc)
                /\ IF rc = 0 THEN Keeps(t, f) ELSE raced' = raced
    /\ UNCHANGED <<graph, references, rrefs, status, deferred, rrefWait, sets, wr, rscan,
                   notifier, scanned, ops, torn>>

\* Faulty variant: only the object's own count is compared
canDeleteUnchecked(t, p) ==
    /\ At(t, "deref", "members")
    /\ p \in Top(t).todo
    /\ Continue(t, <<[Top(t) EXCEPT !.todo = {}, !.pc = "invalidate"]>>)
    /\ UNCHANGED <<graph, references, rrefs, status, deferred, rrefWait, sets, locks, ops,
                   history>>

\* RSet::canDelete() looks at the next object of the set, which it does not lock
canDeleteMember(t, p) ==
    /\ At(t, "deref", "members")
    /\ p \in Top(t).todo
    /\ \/ /\ status[p] # "ok" \/ rcount[p] # references[p]
          /\ Decided(t, Top(t), 0)
          /\ Keeps(t, Top(t))
          /\ Leave({Top(t).o})
          /\ torn' = torn \ {t}
       \/ /\ status[p] = "ok" /\ rcount[p] = references[p]
          /\ Continue(t, <<[Top(t) EXCEPT !.todo = @ \ {p},
                 !.pc = IF Top(t).todo = {p} THEN "invalidate" ELSE "members"]>>)
          /\ UNCHANGED <<rs, notifier, history>>
    /\ UNCHANGED <<graph, references, rrefs, status, deferred, rrefWait, sets, rd, wr,
                   rscan, scanned, ops>>

\* the set is invalidated, unless another thread was first, and the rsection left
canDeleteInvalidate(t) ==
    /\ At(t, "deref", "invalidate")
    /\ LET o == Top(t).o
       IN /\ SetFree(rset[o])
          /\ rset' = Invalidated({rset[o]})
          /\ Leave({o})
          /\ Decided(t, Top(t), IF rset[o] = Bad THEN -1 ELSE 1)
          /\ IF rset[o] = Bad THEN raced' = raced ELSE Collects(t, o)
          /\ torn' = torn \ {t}
    /\ UNCHANGED <<graph, references, rrefs, status, deferred, rrefWait, rcount, rd, wr,
                   rscan, scanned, ops>>

\* under the object's lock: the destructor is to be run, or has been
derefWrite(t) ==
    /\ At(t, "deref", "write")
    /\ LET o == Top(t).o
       IN /\ WriteFree(o)
          /\ status' = [status EXCEPT ![o] = IF @ = "ok" THEN "dtor" ELSE @]
          /\ Continue(t, <<[Top(t) EXCEPT !.pc = "drain", !.final = status[o] # "ok"]>>)
    /\ UNCHANGED <<graph, references, rrefs, deferred, rrefWait, sets, locks, ops, history>>

\* Faulty variant: other dereferences are not waited for
derefDoneAtOnce(t) ==
    /\ At(t, "deref", "drain")
    /\ status' = [status EXCEPT ![Top(t).o] = IF Top(t).final THEN "freed" ELSE @]
    /\ Continue(t, IF Top(t).final THEN <<>>
                   ELSE <<[op |-> "delete", pc |-> "ref", o |-> Top(t).o]>>)
    /\ UNCHANGED <<graph, references, rrefs, deferred, rrefWait, sets, locks, ops, history>>

\* derefDone(): other dereferences of the object end first
derefDone(t) ==
    /\ At(t, "deref", "drain")
    /\ LET o == Top(t).o
       IN /\ InProgress(o) = {}
          /\ status' = [status EXCEPT ![o] = IF Top(t).final THEN "freed" ELSE @]
          /\ Continue(t, IF Top(t).final THEN <<>>
                         ELSE <<[op |-> "delete", pc |-> "ref", o |-> o]>>)
    /\ UNCHANGED <<graph, references, rrefs, deferred, rrefWait, sets, locks, ops, history>>

\* doDeleteIntern(): a reference for the destructor, which is not modelled
doDeleteRef(t) ==
    /\ At(t, "delete", "ref")
    /\ references' = [references EXCEPT ![Top(t).o] = @ + 1]
    /\ Continue(t, <<[Top(t) EXCEPT !.pc = "clear"]>>)
    /\ CountChanged(Top(t).o)
    /\ UNCHANGED <<graph, rrefs, status, deferred, rrefWait, sets, locks, ops, raced>>

\* the members are taken out under the object's lock, which is kept ...
doDeleteClear(t) ==
    /\ At(t, "delete", "clear")
    /\ LET o == Top(t).o
       IN /\ WriteFree(o)
          /\ wr' = [wr EXCEPT ![o] = t]
          /\ status' = [status EXCEPT ![o] = "deleted"]
          /\ next' = [next EXCEPT ![o] = Nil]
          /\ Continue(t, <<[op |-> "delete", pc |-> "rset", o |-> o, v |-> next[o]]>>)
    /\ UNCHANGED <<held, var, references, rrefs, deferred, rrefWait, sets, rs, rd, rscan,
                   notifier, scanned, ops, history>>

\* ... until the set is invalidated; then they are discarded, then the reference
doDeleteRSet(t) ==
    /\ At(t, "delete", "rset")
    /\ LET o == Top(t).o
       IN /\ removeInvalidateRSetIntern(o)
          /\ wr' = [wr EXCEPT ![o] = Nil]
          /\ Continue(t, Derefs(Top(t).v) \o Derefs(o))
    /\ UNCHANGED <<graph, references, rrefs, status, deferred, rrefWait, rs, rd, rscan,
                   notifier, scanned, ops, history>>

-----------------------------------------------------------------------------
(* RSetHelper::RSetHelper() *)

\* checkDeferScan(): an object with real references is not scanned now
checkDeferScan(t) ==
    /\ At(t, "scan", "defer")
    /\ LET f == Top(t)
           o == f.o
       IN \/ /\ rrefs[o] = 0
             /\ deferred' = deferred \ {o}
             /\ rrefWait' = rrefWait
             /\ Continue(t, <<[f EXCEPT !.pc = "enter",
                                        !.by = IF o \in deferred THEN "deferred" ELSE @]>>)
          \/ /\ rrefs[o] > 0
             /\ o \in deferred \/ rset[o] = {}
             /\ deferred' = deferred \cup {o}
             /\ rrefWait' = rrefWait
             /\ Continue(t, <<>>)
          \/ /\ rrefs[o] > 0
             /\ o \notin deferred /\ rset[o] # {}
             /\ deferred' = deferred \cup {o}
             /\ rrefWait' = rrefWait \cup {o}
             /\ Continue(t, <<[f EXCEPT !.pc = "remove"]>>)
    /\ UNCHANGED <<graph, references, rrefs, status, sets, locks, ops, history>>

\* the object's lock is taken ...
deferLock(t) ==
    /\ At(t, "scan", "remove")
    /\ WriteFree(Top(t).o)
    /\ wr' = [wr EXCEPT ![Top(t).o] = t]
    /\ Continue(t, <<[Top(t) EXCEPT !.pc = "removing"]>>)
    /\ UNCHANGED <<graph, references, rrefs, status, deferred, rrefWait, sets, rs, rd, rscan,
                   notifier, scanned, ops, history>>

\* ... and kept until the set is invalidated ...
deferRemove(t) ==
    /\ At(t, "scan", "removing")
    /\ removeInvalidateRSetIntern(Top(t).o)
    /\ wr' = [wr EXCEPT ![Top(t).o] = Nil]
    /\ Continue(t, <<[Top(t) EXCEPT !.pc = "removed"]>>)
    /\ UNCHANGED <<graph, references, rrefs, status, deferred, rrefWait, rs, rd, rscan,
                   notifier, scanned, ops, history>>

\* ... and the last real reference may be dropped again
deferRemoved(t) ==
    /\ At(t, "scan", "removed")
    /\ rrefWait' = rrefWait \ {Top(t).o}
    /\ Continue(t, <<>>)
    /\ UNCHANGED <<graph, references, rrefs, status, deferred, sets, locks, ops, history>>

\* RScanHelper: one scan at a time starts from an object
scanEnter(t) ==
    /\ At(t, "scan", "enter")
    /\ rscan[Top(t).o] = Nil
    /\ rscan' = [rscan EXCEPT ![Top(t).o] = t]
    /\ Continue(t, <<[Top(t) EXCEPT !.pc = "visit"]>>)
    /\ UNCHANGED <<graph, references, rrefs, status, deferred, rrefWait, sets, rs, rd,
                   wr, notifier, scanned, ops, history>>

Path(f) == {f.path[i] : i \in DOMAIN f.path}

\* fomap: the objects whose set the transaction replaces; f.out is tr_out
Fomap(f) == Path(f) \cup f.ok

\* tryRSectionLockNotifyWaitRead(p) failed: the notifier is left with p, every
\* rsection is released and the scan waits
rollback(t, f, p) ==
    LET mine == Fomap(f) \cup f.out
    IN /\ rs' = [o \in Objs |-> IF o \in mine THEN Nil ELSE rs[o]]
       /\ notifier' = [u \in Threads |-> IF u = t THEN p
                                         ELSE IF notifier[u] \in mine THEN Nil
                                         ELSE notifier[u]]
       /\ Continue(t, <<[ScanFrame(f.o, f.by) EXCEPT !.pc = "wait"]>>)
       /\ raced' = raced \cup IF f.taken = {} THEN {} ELSE {"lost"}

\* needsScan() is false: there are no members, or there are real references, with
\* which the scan is deferred and the set, if there is one, given up
needsScanNot(t, c) ==
    LET f == [Top(t) EXCEPT !.pc = "commit", !.ok = {c}]
    IN \/ /\ next[c] = Nil \/ (rrefs[c] > 0 /\ c \in deferred)
          /\ Continue(t, <<f>>)
          /\ UNCHANGED <<deferred, rrefWait>>
       \/ /\ next[c] # Nil /\ rrefs[c] > 0 /\ c \notin deferred
          /\ deferred' = deferred \cup {c}
          /\ rrefWait' = IF rset[c] = {} THEN rrefWait ELSE rrefWait \cup {c}
          /\ Continue(t, <<IF rset[c] = {} THEN f ELSE [f EXCEPT !.pc = "giveup"]>>)

\* the set is invalidated while the last real reference cannot be dropped
needsScanRemove(t) ==
    /\ At(t, "scan", "giveup")
    /\ removeInvalidateRSetIntern(Top(t).cur)
    /\ rrefWait' = rrefWait \ {Top(t).cur}
    /\ Continue(t, <<[Top(t) EXCEPT !.pc = "commit"]>>)
    /\ UNCHANGED <<graph, references, rrefs, status, deferred, locks, ops, history>>

\* checkIntern(): the rsection of the current object is held by another
\* thread; or it is on the path; or the object is being deleted; or it is
\* entered, and scanned unless it has no members or has real references
checkIntern(t) ==
    /\ At(t, "scan", "visit")
    /\ LET f == Top(t)
           c == f.cur
       IN \/ /\ wr[c] = Nil /\ rs[c] \notin {Nil, t}
             /\ rollback(t, f, c)
             /\ UNCHANGED <<deferred, rrefWait>>
          \/ /\ rs[c] = t
             /\ LET first == CHOOSE i \in DOMAIN f.path : f.path[i] = c
                IN Continue(t, <<[f EXCEPT !.pc = "add",
                       !.cycle = {f.path[i] : i \in first .. Len(f.path)},
                       !.add = {f.path[i] : i \in first .. Len(f.path)}]>>)
             /\ UNCHANGED <<rs, notifier, deferred, rrefWait, raced>>
          \/ /\ wr[c] = Nil /\ rs[c] = Nil /\ status[c] # "ok"
             /\ Continue(t, <<[f EXCEPT !.pc = "commit"]>>)
             /\ UNCHANGED <<rs, notifier, deferred, rrefWait, raced>>
          \/ /\ wr[c] = Nil /\ rs[c] = Nil /\ status[c] = "ok"
             /\ next[c] # Nil /\ rrefs[c] = 0
             /\ rs' = [rs EXCEPT ![c] = t]
             /\ deferred' = deferred \ {c}
             /\ Continue(t, <<[f EXCEPT !.pc = "members", !.path = Append(@, c),
                                        !.taken = @ \cup ({c} \cap deferred)]>>)
             /\ UNCHANGED <<notifier, rrefWait, raced>>
          \/ /\ wr[c] = Nil /\ rs[c] = Nil /\ status[c] = "ok"
             /\ rs' = [rs EXCEPT ![c] = t]
             /\ needsScanNot(t, c)
             /\ UNCHANGED <<notifier, raced>>
    /\ UNCHANGED <<graph, references, rrefs, status, sets, rd, wr, rscan, scanned, ops, torn>>

\* the member is followed, unless the object has got a real reference since
scanMembersIntern(t) ==
    /\ At(t, "scan", "members")
    /\ LET c == Top(t).cur
       IN \/ /\ rrefs[c] > 0
             /\ deferred' = deferred \cup {c}
             /\ removeInvalidateRSetIntern(c)
             /\ Continue(t, <<[Top(t) EXCEPT !.pc = "commit"]>>)
          \/ /\ rrefs[c] = 0
             /\ Continue(t, <<[Top(t) EXCEPT !.pc = "visit", !.cur = next[c]]>>)
             /\ UNCHANGED <<deferred, sets>>
    /\ UNCHANGED <<graph, references, rrefs, status, rrefWait, locks, ops, history>>

\* the next object of the cycle is added to the new set
Added(f) ==
    [f EXCEPT !.add = @ \ {Adding(f)}, !.todo = {},
              !.pc = IF f.add = {Adding(f)} THEN "commit" ELSE "add"]

\* addToRSet(): if the object has a set that is valid, the set is locked for
\* reading while the rsections of its other objects are entered
addToRSet(t) ==
    /\ At(t, "scan", "add")
    /\ LET f == Top(t)
           others == IF Valid(Adding(f)) THEN {o \in rset[Adding(f)] : rs[o] # t} ELSE {}
       IN Continue(t, <<IF others = {} THEN Added(f)
                        ELSE [f EXCEPT !.pc = "old", !.todo = others]>>)
    /\ UNCHANGED <<graph, references, rrefs, status, deferred, rrefWait, sets, locks, ops,
                   history>>

\* the loop of removeInvalidate(), which waits for a thread with the write lock
removeInvalidate(t, o) ==
    /\ At(t, "scan", "old")
    /\ o \in Top(t).todo
    /\ wr[o] = Nil
    /\ LET f == Top(t)
           g == IF f.todo = {o} THEN Added(f) ELSE [f EXCEPT !.todo = @ \ {o}]
       IN \/ rs[o] # Nil /\ rollback(t, f, o)
          \/ /\ rs[o] = Nil /\ status[o] = "ok"
             /\ rs' = [rs EXCEPT ![o] = t]
             /\ Continue(t, <<[g EXCEPT !.out = @ \cup {o}]>>)
             /\ UNCHANGED <<notifier, raced>>
          \/ /\ rs[o] = Nil /\ status[o] # "ok"
             /\ Continue(t, <<g>>)
             /\ UNCHANGED <<rs, notifier, raced>>
    /\ UNCHANGED <<graph, references, rrefs, status, deferred, rrefWait, sets, rd, wr,
                   rscan, scanned, ops, torn>>

\* t is between the two ends of RScanHelper for one of os
Scans(t, os) ==
    /\ stack[t] # <<>>
    /\ Top(t).op = "scan" /\ Top(t).pc \notin {"defer", "remove", "removing", "removed"}
    /\ Top(t).o \in os

\* the old sets are invalidated, the objects get their new set and count, every
\* rsection is left; rcycle tells other scans of these objects
commit(t) ==
    /\ At(t, "scan", "commit")
    /\ LET f == Top(t)
           old == {rset[o] : o \in Fomap(f)} \ {{}, Bad}
       IN /\ \A s \in old : SetFree(s)
          /\ rset' = [o \in Objs |-> IF o \in f.cycle THEN f.cycle
                                     ELSE IF o \in Fomap(f) THEN {}
                                     ELSE Invalidated(old)[o]]
          /\ rcount' = [o \in Objs |-> IF o \in f.cycle THEN 1
                                       ELSE IF o \in Fomap(f) THEN 0
                                       ELSE rcount[o]]
          /\ Leave(Fomap(f) \cup f.out)
          /\ rscan' = [rscan EXCEPT ![f.o] = Nil]
          /\ scanned' = (scanned \cup {u \in Threads : Scans(u, Fomap(f))}) \ {t}
          /\ Continue(t, <<>>)
    /\ UNCHANGED <<graph, references, rrefs, status, deferred, rrefWait, rd, wr, ops,
                   history>>

\* the notifier is answered: the scan starts again, unless another thread has
\* committed one that covers the object
scanWait(t) ==
    /\ At(t, "scan", "wait")
    /\ notifier[t] = Nil
    /\ \/ /\ t \notin scanned
          /\ Continue(t, <<[Top(t) EXCEPT !.pc = "visit"]>>)
          /\ rscan' = rscan
       \/ /\ t \in scanned
          /\ Continue(t, <<>>)
          /\ rscan' = [rscan EXCEPT ![Top(t).o] = Nil]
    /\ scanned' = scanned \ {t}
    /\ UNCHANGED <<graph, references, rrefs, status, deferred, rrefWait, sets, rs, rd, wr,
                   notifier, ops, history>>

-----------------------------------------------------------------------------
Quiet == \A t \in Threads : stack[t] = <<>>

Begin(t) ==
    \/ unsetRealReference(t)
    \/ \E o \in Objs :
        \/ DropElement(t, o)
        \/ TakeStart(t, o)
        \/ \E v \in Objs \cup {Nil} : AssignStart(t, o, v)

Deref(t) ==
    \/ derefStart(t) \/ derefRead(t) \/ derefRSection(t)
    \/ \E p \in Objs : canDeleteMember(t, p)
    \/ canDeleteInvalidate(t) \/ derefWrite(t) \/ derefDone(t)
    \/ doDeleteRef(t) \/ doDeleteClear(t) \/ doDeleteRSet(t)

Scan(t) ==
    \/ checkDeferScan(t) \/ deferLock(t) \/ deferRemove(t) \/ deferRemoved(t)
    \/ scanEnter(t) \/ checkIntern(t) \/ needsScanRemove(t) \/ scanMembersIntern(t)
    \/ addToRSet(t) \/ \E o \in Objs : removeInvalidate(t, o)
    \/ commit(t) \/ scanWait(t)

\* an operation in progress goes on
GoOn(t) == Assign(t) \/ setRealReference(t) \/ Deref(t) \/ Scan(t)

\* the programs of the threads may end
Ended == Quiet /\ UNCHANGED vars

Next == Ended \/ \E t \in Threads : Begin(t) \/ GoOn(t)

Spec == Init /\ [][Next]_vars

-----------------------------------------------------------------------------
(* Properties *)

\* what a program can still use
Live == Reachable(Roots(Threads))

\* "an object's automatic scope is prolonged as long as the object has valid
\* external references": no object that a program can reach is destroyed.
LiveKept == \A o \in Live : status[o] = "ok"

\* An object in use is destroyed only after canDelete() has collected a set while
\* a scan of one of its objects was still to be made ("unscanned") or after a count
\* that it had compared changed ("torn"), or after a scan was lost: the one due to
\* an object that customDeref() kept, or those that a scan which was rolled back
\* had taken over ("lost").  With none of these every count is compared with a set
\* that is the one of the graph.
LiveKeptUnlessRaced == raced \cap {"unscanned", "torn", "lost"} # {} \/ LiveKept

\* "objects are collected immediately when they have no more valid references
\* to them": when no operation is in progress nothing unreachable is left,
\* cycles included, whatever was deferred, invalidated or rolled back on the
\* way.  Three races with another thread are the exceptions, after which nobody
\* looks at the object again: it was kept while the other thread still had to scan
\* what it is connected with, or while both were dropping references to it and this
\* thread still had to scan ("early"), or a deferred scan was lost ("lost").
GarbageCollected ==
    Quiet /\ raced \cap {"early", "lost"} = {} => \A o \in Objs : status[o] = "ok" => o \in Live

\* assert(!del) in derefDone(): when a thread is going to delete an object no
\* other thread is.
OneDeleter ==
    \A o \in Objs : \A t, u \in Threads :
        LET deletes(v) == \E f \in Frames(v) :
                f.op = "deref" /\ f.o = o /\ f.pc \in {"write", "drain"}
        IN deletes(t) /\ deletes(u) => t = u

\* The object is given up (tDeref in ~robject_dereference_helper) once, when no
\* reference to it is left and no thread is in customDeref() or
\* doDeleteIntern() for it, unless a decision to collect was unreliable or took a
\* set with an object that another thread was collecting ("twice").
DeletedOnce ==
    raced \subseteq {"early"} =>
        /\ OneDeleter
        /\ \A o \in Objs : status[o] = "freed" =>
              /\ references[o] = 0
              /\ o \notin Live
              /\ \A t \in Threads : \A f \in Frames(t) :
                     f.op \in {"deref", "delete"} => f.o # o

\* t has the lock of an object for writing and waits for the lock of the object's
\* set (doDeleteIntern(), checkDeferScan()), which u holds for reading while it
\* waits for the object (removeInvalidate())
Inversion ==
    \E t, u \in Threads, o \in Objs :
        /\ wr[o] = t /\ Valid(o)
        /\ At(u, "scan", "old") /\ Reads(u, rset[o]) /\ o \in Top(u).todo

\* The object locks, the rsections, the notifiers, the locks of the sets, rlck and
\* the waits for other dereferences, taken together, never stop every operation in
\* progress: one of them can go on, except where two threads take the lock of an
\* object and the lock of its set in opposite orders.
OnlyInversionBlocks == Quiet \/ (\E t \in Threads : ENABLED GoOn(t)) \/ Inversion

\* A valid set is the set of each of its objects and of no other object
\* (setRSet, invalidateDeref); and when no scan of its objects is due and none was
\* lost, it is the cycle through the object, with no object left out: comparing
\* counts over the set then is comparing them over everything that refers to it.
\* (A thread that keeps the lock of an object is about to invalidate its set.)
SetsCurrent ==
    \A o \in Objs : Valid(o) =>
        /\ o \in rset[o]
        /\ \A p \in rset[o] : rset[p] = rset[o]
        /\ /\ status[o] = "ok"
           /\ raced \subseteq {"early", "twice"}
           /\ \A p \in rset[o] : ~Due(p) /\ wr[p] = Nil
           => o \in Cyclic /\ rset[o] = Reachable({o})
=============================================================================
