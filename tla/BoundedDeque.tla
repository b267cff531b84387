--------------------------- MODULE BoundedDeque ---------------------------
(***************************************************************************)
(* What class Queue promises to Qore programs: a double-ended queue of at  *)
(* most max elements that can be flagged with an error or deleted, and     *)
(* whose operations take effect one at a time.  Waiting, waking up and     *)
(* timing out are not visible here; a call shows only as the outcome it    *)
(* reports in "out".  One action, PassOver, is no part of the promise: it  *)
(* names the one case in which the class does not keep it.                 *)
(***************************************************************************)
EXTENDS Integers, Sequences

CONSTANTS
    Values,     \* what can be stored
    max         \* upper limit of the number of elements, or -1 for none

VARIABLES
    elems,      \* the elements, first to last
    status,     \* "open", "error" or "deleted"
    out,        \* the outcome reported by the last step
    leaving     \* a shift() or pop() that had to wait has been woken or has
                \* timed out, and has not returned yet

dvars == <<elems, status, out, leaving>>

Silent     == [res |-> "none"]
Ok(op)     == [res |-> "ok", op |-> op]
Got(op, v) == [res |-> "got", op |-> op, val |-> v]

(* What is reported by an operation that does nothing to the queue: it     *)
(* timed out or found the queue in error or deleted; Silent is a step      *)
(* inside of a call, or a call on a deleted queue that reports nothing.    *)
Outcomes == {Silent} \cup [res : {"timeout", "error", "deleted"}]

HasRoom == max < 0 \/ Len(elems) < max

DInit ==
    /\ elems = <<>>
    /\ status = "open"
    /\ out = Silent
    /\ leaving = FALSE

AddLast ==
    /\ status = "open"
    /\ HasRoom
    /\ \E v \in Values : elems' = Append(elems, v)
    /\ out' = Ok("push")
    /\ UNCHANGED status

AddFirst ==
    /\ status = "open"
    /\ HasRoom
    /\ \E v \in Values : elems' = <<v>> \o elems
    /\ out' = Ok("insert")
    /\ UNCHANGED status

TakeFirst ==
    /\ status = "open"
    /\ elems # <<>>
    /\ elems' = Tail(elems)
    /\ out' = Got("shift", Head(elems))
    /\ UNCHANGED status

TakeLast ==
    /\ status = "open"
    /\ elems # <<>>
    /\ elems' = SubSeq(elems, 1, Len(elems) - 1)
    /\ out' = Got("pop", elems[Len(elems)])
    /\ UNCHANGED status

Clear ==
    /\ status = "open"
    /\ elems' = <<>>
    /\ out' = Ok("clear")
    /\ UNCHANGED status

(* clear() returns without an exception and the queue keeps its data: the  *)
(* documentation ("Clears the Queue of all data", QC_Queue.qpp:229) and    *)
(* the assertion in clear() (assert(!head), QoreQueue.cpp:427-428) exclude *)
(* this.  It happens only while a reader is on its way out of its wait.    *)
PassOver ==
    /\ status = "open"
    /\ leaving
    /\ elems # <<>>
    /\ out' = Ok("clear")
    /\ UNCHANGED <<elems, status>>

Fail ==
    /\ status # "deleted"
    /\ elems' = <<>>
    /\ status' = "error"
    /\ out' = Ok("setError")

Recover ==
    /\ status = "error"
    /\ status' = "open"
    /\ out' = Ok("clearError")
    /\ UNCHANGED elems

Delete ==
    /\ elems' = <<>>
    /\ status' = "deleted"
    /\ out' = Ok("destructor")

(* An operation may report "error" or "deleted" only when the queue is so. *)
Refuse ==
    /\ out' \in Outcomes
    /\ out'.res = "error" => status = "error"
    /\ out'.res = "deleted" => status = "deleted"
    /\ UNCHANGED <<elems, status>>

Operation ==
    \/ AddLast \/ AddFirst \/ TakeFirst \/ TakeLast
    \/ Clear \/ PassOver \/ Fail \/ Recover \/ Delete \/ Refuse

(* Readers begin and end their waits at any time. *)
DNext == Operation /\ leaving' \in BOOLEAN

DSpec == DInit /\ [][DNext]_dvars

===========================================================================
