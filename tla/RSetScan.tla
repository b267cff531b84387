------------------------------- MODULE RSetScan -------------------------------
(***************************************************************************)
(* One scan for recursive references (lib/RSet.cpp, RSetHelper): the walk  *)
(* through the members of an object that finds the recursive sets (RSet)   *)
(* and, for every object of one, the number of references to it that come  *)
(* from inside the set (rcount).  An object is collected when every object *)
(* of its set has exactly rcount references left (RSet::canDelete), so a   *)
(* count that is too high frees an object in use and one that is too low   *)
(* keeps the whole set forever.                                            *)
(*                                                                         *)
(* The graph is not fixed in advance: a step of the walk chooses the       *)
(* object that the next member refers to, so that a run covers every graph *)
(* and every order of members within MaxRefs references.  A list or hash   *)
(* is followed once for each member that holds it, even when the members   *)
(* share it (copy on write): its references are then followed several      *)
(* times and held once.  refs counts the references followed, held those   *)
(* that exist.  Closures, which are followed once in a scan whatever holds *)
(* them (closure_set), and references as members are left out.             *)
(*                                                                         *)
(* The rsection locks are held from an object's first visit until the      *)
(* commit, so the graph does not change under the walk; conflicts over     *)
(* these locks and the sets of earlier scans are in ObjectGC.              *)
(***************************************************************************)
EXTENDS Naturals, Sequences, FiniteSets, FiniteSetsExt

CONSTANTS
    Objs,
    None,      \* no set
    MaxRefs    \* bound: references followed

ASSUME ObjsAssumption == None \notin Objs /\ MaxRefs \in Nat

VARIABLES
    refs,      \* refs[o][p]: references to p followed from o
    held,      \* held[p]: how many of the references to p followed are different
    scanned,   \* keys of fomap
    ok,        \* objects of fomap with ok set: they cannot hold an object
    rset,      \* rset[o]: name of the set o is finalized in, or None; equal
               \* to in_cycle, which addToRSet sets together with it
    rcount,    \* RSetStat::rcount
    ovec,      \* the objects being scanned, from the root on
    joined     \* history: two sets that were both finalized were merged

vars == <<refs, held, scanned, ok, rset, rcount, ovec, joined>>

\* the object whose members are being followed
Top == ovec[Len(ovec)]

Position(o) == CHOOSE i \in DOMAIN ovec : ovec[i] = o

inCurrentSet(o) == \E i \in DOMAIN ovec : ovec[i] = o

SetsOf(os) == {rset[o] : o \in os} \ {None}

\* Faulty variant: the other objects of a merged set keep their old set
mergeRSetChain(os, name) ==
    [o \in Objs |-> IF o \in os THEN name ELSE rset[o]]

\* addToRSet() for the objects of os without a set, mergeRSet() for the others
mergeRSet(os, name) ==
    [o \in Objs |-> IF o \in os \/ rset[o] \in SetsOf(os) THEN name ELSE rset[o]]

Increment(os) == [o \in Objs |-> rcount[o] + IF o \in os THEN 1 ELSE 0]

-----------------------------------------------------------------------------
Init ==
    \E root \in Objs :
        /\ refs = [o \in Objs |-> [p \in Objs |-> 0]]
        /\ held = [o \in Objs |-> 0]
        /\ scanned = {root}
        /\ ok = {}
        /\ rset = [o \in Objs |-> None]
        /\ rcount = [o \in Objs |-> 0]
        /\ ovec = <<root>>
        /\ joined = FALSE

\* the next member of Top, or an element of a list or hash in it, is o; the list
\* or hash may have been followed for another member, of Top or of another object
Follow(o) ==
    /\ ovec # <<>>
    /\ MapThenSumSet(LAMBDA e : refs[e[1]][e[2]], Objs \X Objs) < MaxRefs
    /\ refs' = [refs EXCEPT ![Top][o] = @ + 1]
    /\ \/ held' = [held EXCEPT ![o] = @ + 1]
       \/ held[o] > 0 /\ held' = held

\* an object that has not been seen: it is scanned, unless needsScan() is false
FirstVisit(o) ==
    /\ Follow(o)
    /\ o \notin scanned
    /\ scanned' = scanned \cup {o}
    /\ \/ ok' = ok \cup {o} /\ ovec' = ovec
       \/ ovec' = Append(ovec, o) /\ ok' = ok
    /\ UNCHANGED <<rset, rcount, joined>>

\* o is being scanned: the objects from o to Top are one set.  The count is
\* raised of those that had no set, of o, and of those whose parent had none
CloseCycle(o) ==
    /\ Follow(o)
    /\ inCurrentSet(o)
    /\ LET k == Position(o)
           chain == {ovec[i] : i \in k .. Len(ovec)}
           counted == {i \in k .. Len(ovec) :
                          \/ rset[ovec[i]] = None
                          \/ i = k
                          \/ rset[ovec[i - 1]] = None}
       IN /\ rset' = mergeRSet(chain, IF rset[o] = None THEN o ELSE rset[o])
          /\ rcount' = Increment({ovec[i] : i \in counted})
          /\ joined' = (joined \/ Cardinality(SetsOf(chain)) > 1)
    /\ UNCHANGED <<scanned, ok, ovec>>

\* Faulty variant: a reference inside a set is not counted
SameSetUncounted(o) ==
    /\ Follow(o)
    /\ ~inCurrentSet(o)
    /\ rset[o] # None /\ rset[o] = rset[Top]
    /\ UNCHANGED <<scanned, ok, rset, rcount, ovec, joined>>

\* o has been scanned before and is in the set of Top
SameSet(o) ==
    /\ Follow(o)
    /\ ~inCurrentSet(o)
    /\ rset[o] # None /\ rset[o] = rset[Top]
    /\ rcount' = Increment({o})
    /\ UNCHANGED <<scanned, ok, rset, ovec, joined>>

\* o is in the set of an object above Top: the objects below that one join it
makeChain(o) ==
    /\ Follow(o)
    /\ ~inCurrentSet(o)
    /\ rset[o] # None /\ rset[o] # rset[Top]
    /\ \E k \in DOMAIN ovec :
          /\ rset[ovec[k]] = rset[o]
          /\ \A i \in k + 1 .. Len(ovec) : rset[ovec[i]] # rset[o]
          /\ LET chain == {ovec[i] : i \in k + 1 .. Len(ovec)}
                 added == {p \in chain : rset[p] = None}
             IN /\ rset' = mergeRSet(chain, rset[o])
                /\ rcount' = Increment(added \cup IF Top \in added THEN {o} ELSE {})
                /\ joined' = (joined \/ SetsOf(chain) # {})
    /\ UNCHANGED <<scanned, ok, ovec>>

\* o has been scanned before and closes no cycle
PassBy(o) ==
    /\ Follow(o)
    /\ o \in scanned /\ ~inCurrentSet(o)
    /\ rset[o] = None \/ \A i \in DOMAIN ovec : rset[ovec[i]] # rset[o]
    /\ UNCHANGED <<scanned, ok, rset, rcount, ovec, joined>>

\* no more members
Leave ==
    /\ ovec # <<>>
    /\ ovec' = SubSeq(ovec, 1, Len(ovec) - 1)
    /\ UNCHANGED <<refs, held, scanned, ok, rset, rcount, joined>>

Next ==
    \/ Leave
    \/ \E o \in Objs : \/ FirstVisit(o) \/ CloseCycle(o) \/ SameSet(o)
                       \/ makeChain(o) \/ PassBy(o)

Spec == Init /\ [][Next]_vars

-----------------------------------------------------------------------------
(* Properties.  The reference is the graph that the walk has seen.          *)

Done == ovec = <<>>

\* no reference leads out of os
Closed(os) == \A o \in os, p \in Objs : refs[o][p] > 0 => p \in os

\* the pairs <<o, p>> such that o leads to p, by any number of references
Leads ==
    LET closed == {s \in SUBSET Objs : Closed(s)}
    IN {e \in Objs \X Objs : \A s \in closed : e[1] \in s => e[2] \in s}

\* the references to o, each with the object that holds it
References(o) == UNION {{p} \X (1 .. refs[p][o]) : p \in Objs}

\* how many of them are held by objects that o leads to
InnerRefs(o, leads) == Cardinality({r \in References(o) : <<o, r[1]>> \in leads})

\* The sets are the cycles of the graph (checkIntern, mergeRSet, makeChain): at
\* any time two objects with one set lead to each other, and in the end two
\* objects that lead to each other have one set.  A cycle that is missed is
\* never collected; objects wrongly put together keep each other alive.
SetsAreCycles ==
    LET leads == Leads
        mutual(o, p) ==
            \E q \in Objs : refs[o][q] > 0 /\ <<q, p>> \in leads /\ <<p, o>> \in leads
    IN /\ \A o, p \in Objs : rset[o] # None /\ rset[o] = rset[p] => mutual(o, p)
       /\ Done => \A o, p \in Objs : mutual(o, p) => rset[o] # None /\ rset[o] = rset[p]

\* A count never exceeds the references followed from the object's own cycles,
\* and at the end of a scan that has not joined two sets which were both
\* finalized it is exactly their number: then canDelete() succeeds as soon as the
\* external references are gone.  (checkIntern counts no reference between two
\* objects that are both in a set already, even when the sets differ, nor does
\* makeChain when it merges.)  "rcount can never be more than real references for
\* the target object", the assertion of checkIntern and makeChain, holds for
\* objects none of whose references is in a list or hash followed for several
\* members; for the others the count may exceed the references held.
CountsExact ==
    LET leads == Leads
    IN \A o \in Objs : /\ rcount[o] <= InnerRefs(o, leads)
                       /\ Done /\ ~joined => rcount[o] = InnerRefs(o, leads)
                       /\ held[o] = Cardinality(References(o)) => rcount[o] <= held[o]
=============================================================================
