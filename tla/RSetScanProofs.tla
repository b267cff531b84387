---------------------------- MODULE RSetScanProofs ----------------------------
(***************************************************************************)
(* Proofs about the scan for recursive references, for any number of       *)
(* objects and references: its sets are the cycles of the graph, and its   *)
(* counts are the references from inside them.                             *)
(***************************************************************************)
EXTENDS RSetScan, FiniteSetTheorems, TLAPS

-----------------------------------------------------------------------------
(* The inductive invariant *)

TypeOK ==
    /\ refs \in [Objs -> [Objs -> Nat]]
    /\ scanned \subseteq Objs
    /\ rset \in [Objs -> Objs \cup {None}]
    /\ rcount \in [Objs -> Nat]
    /\ ovec \in Seq(Objs)
    /\ joined \in BOOLEAN

\* x and y are in one set; or they are one object, with or without a set
Together(x, y) == rset[x] # None /\ rset[x] = rset[y]

Same(x, y) == x = y \/ Together(x, y)

\* x, or an object of its set, is being scanned
Pending(x) == \E i \in DOMAIN ovec : Same(x, ovec[i])

Settled == {x \in scanned : ~Pending(x)}

Component(x) == {y \in Objs : Same(x, y)}

\* Only objects that have been visited are on the path, have a set or have
\* references that were followed; the name of a set is an object with a set.
\* The path follows references.
Visited ==
    /\ \A i, j \in DOMAIN ovec : ovec[i] = ovec[j] => i = j
    /\ \A i \in DOMAIN ovec : i + 1 \in DOMAIN ovec => refs[ovec[i]][ovec[i + 1]] > 0
    /\ \A i \in DOMAIN ovec : ovec[i] \in scanned
    /\ \A x \in Objs : rset[x] # None => x \in scanned /\ rset[rset[x]] # None
    /\ \A x, y \in Objs : refs[x][y] > 0 => x \in scanned /\ y \in scanned

\* The objects of a set that are on the path are next to each other.
Intervals ==
    \A i, j \in DOMAIN ovec : Together(ovec[i], ovec[j]) =>
        \A m \in i .. j : Together(ovec[i], ovec[m])

\* x leads to y in the graph g
LeadsIn(g, x, y) ==
    \A s \in SUBSET Objs :
        x \in s /\ (\A a \in s, b \in Objs : g[a][b] > 0 => b \in s) => y \in s

\* The path is one of the graph, and the objects of a set lead to each other.
Sound ==
    /\ \A i, j \in DOMAIN ovec : i <= j => LeadsIn(refs, ovec[i], ovec[j])
    /\ \A x, y \in Objs : Together(x, y) => LeadsIn(refs, x, y)
    /\ \A x \in Objs : rset[x] # None => \E q \in Objs : refs[x][q] > 0 /\ LeadsIn(refs, q, x)

\* A reference from a settled object is to one.  Any other is to a settled
\* object, inside a set, or the one by which the path goes on.
Edges ==
    \A x, y \in Objs : refs[x][y] > 0 =>
        \/ y \in Settled
        \/ /\ x \notin Settled
           /\ \/ Together(x, y)
              \/ /\ refs[x][y] = 1
                 /\ \E i \in DOMAIN ovec : i + 1 \in DOMAIN ovec /\ x = ovec[i] /\ y = ovec[i + 1]

Loops == \A x \in Objs : refs[x][x] > 0 => rset[x] # None

\* A settled object is in a closed set of objects that stays closed without
\* the object's component: what leads back to it is in the component.
Layer(g, x, s) ==
    /\ x \in s
    /\ \A a \in s, b \in Objs : g[a][b] > 0 => b \in s
    /\ \A a \in s \ Component(x), b \in Objs : g[a][b] > 0 => b \in s \ Component(x)

Layers == \A x \in Settled : \E s \in SUBSET Settled : Layer(refs, x, s)

\* the references to x that are inside its set
SetRefs(x) == {r \in References(x) : Together(x, r[1])}

Counts ==
    \A x \in Objs :
        /\ IsFiniteSet(References(x))
        /\ rcount[x] <= Cardinality(SetRefs(x))
        /\ ~joined => rcount[x] = Cardinality(SetRefs(x))

IInv ==
    /\ TypeOK /\ Visited /\ Intervals
    /\ Sound
    /\ Edges /\ Loops /\ Layers
    /\ Counts

-----------------------------------------------------------------------------
(* Graphs: what it means that an object leads to another one *)

LEMMA LeadsRefl ==
    ASSUME NEW g, NEW x
    PROVE  LeadsIn(g, x, x)
BY DEF LeadsIn

LEMMA LeadsEdge ==
    ASSUME NEW g, NEW x, NEW y \in Objs, g[x][y] > 0
    PROVE  LeadsIn(g, x, y)
BY DEF LeadsIn

LEMMA LeadsTrans ==
    ASSUME NEW g, NEW x, NEW y, NEW z, LeadsIn(g, x, y), LeadsIn(g, y, z)
    PROVE  LeadsIn(g, x, z)
BY Zenon DEF LeadsIn

(* More references lead at least as far. *)
LEMMA LeadsMore ==
    ASSUME NEW g, NEW h, \A x, y \in Objs : g[x][y] > 0 => h[x][y] > 0,
           NEW x, NEW y, LeadsIn(g, x, y)
    PROVE  LeadsIn(h, x, y)
<1> SUFFICES ASSUME NEW s \in SUBSET Objs, x \in s,
                    \A a \in s, b \in Objs : h[a][b] > 0 => b \in s
             PROVE  y \in s
    BY DEF LeadsIn
<1>1. \A a \in s, b \in Objs : g[a][b] > 0 => b \in s
    BY Zenon
<1> QED
    BY <1>1, Zenon DEF LeadsIn

(* To get from an object to another one, one of its references is followed. *)
LEMMA LeadsFirst ==
    ASSUME NEW g, NEW x \in Objs, NEW y \in Objs, x # y, LeadsIn(g, x, y)
    PROVE  \E q \in Objs : g[x][q] > 0 /\ LeadsIn(g, q, y)
<1> DEFINE s == {x} \cup {z \in Objs : \E q \in Objs : g[x][q] > 0 /\ LeadsIn(g, q, z)}
<1>1. ASSUME NEW a \in s, NEW b \in Objs, g[a][b] > 0 PROVE b \in s
    <2>1. CASE a = x
        BY <1>1, <2>1, LeadsRefl, Zenon
    <2>2. CASE a # x
        <3>1. PICK q \in Objs : g[x][q] > 0 /\ LeadsIn(g, q, a)
            BY <2>2, Zenon
        <3>2. LeadsIn(g, q, b)
            BY <1>1, <3>1, LeadsEdge, LeadsTrans, Zenon
        <3> QED
            BY <3>1, <3>2, Zenon
    <2> QED
        BY <2>1, <2>2
<1>2. s \in SUBSET Objs /\ x \in s
    BY Zenon
<1>3. y \in s
    <2> HIDE DEF s
    <2> QED
        BY <1>1, <1>2, Zenon DEF LeadsIn
<1> QED
    BY <1>3, Zenon


-----------------------------------------------------------------------------
(* Steps of the walk *)

LEMMA PathFacts ==
    ASSUME TypeOK
    PROVE  /\ Len(ovec) \in Nat
           /\ DOMAIN ovec = 1 .. Len(ovec)
           /\ \A i \in DOMAIN ovec : ovec[i] \in Objs
           /\ ovec # <<>> => Len(ovec) \in DOMAIN ovec /\ Top \in Objs
BY DEF TypeOK, Top

\* one more reference from Top to o is followed
Grown(o) ==
    /\ ovec # <<>>
    /\ refs' \in [Objs -> [Objs -> Nat]]
    /\ \A x, y \in Objs :
          refs'[x][y] = IF x = Top /\ y = o THEN refs[x][y] + 1 ELSE refs[x][y]

\* Following a member adds one reference, from Top to o.
LEMMA FollowGrows ==
    ASSUME TypeOK, NEW o \in Objs, Follow(o)
    PROVE  Grown(o)
<1>1. ovec # <<>> /\ refs' = [refs EXCEPT ![Top][o] = @ + 1]
    BY DEF Follow
<1>2. Top \in Objs
    BY <1>1, PathFacts
<1>3. /\ refs \in [Objs -> [Objs -> Nat]]
      /\ refs' = [refs EXCEPT ![Top] = [refs[Top] EXCEPT ![o] = refs[Top][o] + 1]]
    BY <1>1, Zenon DEF TypeOK
<1>4. [refs[Top] EXCEPT ![o] = refs[Top][o] + 1] \in [Objs -> Nat]
    BY <1>2, <1>3
<1>5. refs' \in [Objs -> [Objs -> Nat]]
    BY <1>2, <1>3, <1>4
<1>6. ASSUME NEW x \in Objs, NEW y \in Objs
      PROVE  refs'[x][y] = IF x = Top /\ y = o THEN refs[x][y] + 1 ELSE refs[x][y]
    <2>1. CASE x = Top
        BY <1>2, <1>3, <2>1
    <2>2. CASE x # Top
        BY <1>2, <1>3, <2>2
    <2> QED
        BY <2>1, <2>2
<1> QED
    BY <1>1, <1>5, <1>6 DEF Grown

LEMMA GrownRefs ==
    ASSUME TypeOK, NEW o \in Objs, Grown(o)
    PROVE  /\ refs'[Top][o] > 0
           /\ \A x, y \in Objs :
                 /\ refs[x][y] \in Nat
                 /\ refs[x][y] > 0 => refs'[x][y] > 0
                 /\ refs'[x][y] > 0 => refs[x][y] > 0 \/ (x = Top /\ y = o)
                 /\ x # Top \/ y # o => refs'[x][y] = refs[x][y]
<1>1. ASSUME NEW x \in Objs, NEW y \in Objs PROVE refs[x][y] \in Nat
    <2>1. refs[x] \in [Objs -> Nat]
        BY DEF TypeOK
    <2> QED
        BY <2>1
<1>2. Top \in Objs
    BY PathFacts DEF Grown
<1>3. \A x, y \in Objs :
          refs'[x][y] = IF x = Top /\ y = o THEN refs[x][y] + 1 ELSE refs[x][y]
    BY DEF Grown
<1> QED
    BY <1>1, <1>2, <1>3

\* the objects whose sets are merged when a reference from Top closes a cycle
\* through the object at position k of the path
Merged(k, x) == \E j \in k .. Len(ovec) : Same(x, ovec[j])

SetName(k) == IF rset[ovec[k]] = None THEN ovec[k] ELSE rset[ovec[k]]

Merge(o, k) ==
    /\ Grown(o)
    /\ k \in DOMAIN ovec
    /\ Same(o, ovec[k])
    /\ rset' = [x \in Objs |-> IF Merged(k, x) THEN SetName(k) ELSE rset[x]]
    /\ UNCHANGED <<scanned, ovec>>

\* checkIntern() on an object of the path merges the path from it on.
LEMMA CloseMerges ==
    ASSUME TypeOK, Visited, NEW o \in Objs, CloseCycle(o)
    PROVE  Merge(o, Position(o))
<1>1. Follow(o) /\ inCurrentSet(o) /\ UNCHANGED <<scanned, ovec>>
    BY DEF CloseCycle
<1>2. Position(o) \in DOMAIN ovec /\ ovec[Position(o)] = o
    BY <1>1 DEF inCurrentSet, Position
<1> DEFINE k == Position(o)
           chain == {ovec[i] : i \in k .. Len(ovec)}
<1>3. rset' = mergeRSet(chain, IF rset[o] = None THEN o ELSE rset[o])
    BY DEF CloseCycle
<1>4. ASSUME NEW x \in Objs
      PROVE  (x \in chain \/ rset[x] \in SetsOf(chain)) <=> Merged(k, x)
    BY <1>2, PathFacts DEF Merged, Same, Together, SetsOf
<1>5. SetName(k) = IF rset[o] = None THEN o ELSE rset[o]
    BY <1>2 DEF SetName
<1>6. rset' = [x \in Objs |-> IF Merged(k, x) THEN SetName(k) ELSE rset[x]]
    <2> HIDE DEF k, chain
    <2> QED
        BY <1>3, <1>4, <1>5, Zenon DEF mergeRSet
<1> QED
    BY <1>1, <1>2, <1>6, FollowGrows DEF Merge, Same

\* k is the object that makeChain() finds on the path
ChainStart(o, k) ==
    /\ k \in DOMAIN ovec
    /\ rset[ovec[k]] = rset[o]
    /\ \A i \in k + 1 .. Len(ovec) : rset[ovec[i]] # rset[o]

\* makeChain() merges the path from the last object of o's set on.
LEMMA ChainMerges ==
    ASSUME TypeOK, NEW o \in Objs, Follow(o), rset[o] # None,
           NEW k, ChainStart(o, k), UNCHANGED <<scanned, ovec>>,
           rset' = mergeRSet({ovec[i] : i \in k + 1 .. Len(ovec)}, rset[o])
    PROVE  Merge(o, k)
<1> DEFINE chain == {ovec[i] : i \in k + 1 .. Len(ovec)}
<1>1. k \in DOMAIN ovec /\ rset[ovec[k]] = rset[o] /\ k \in 1 .. Len(ovec) /\ Len(ovec) \in Nat
    BY PathFacts DEF ChainStart
<1>4. ASSUME NEW x \in Objs
      PROVE  (x \in chain \/ rset[x] \in SetsOf(chain) \/ rset[x] = rset[o]) <=> Merged(k, x)
    BY <1>1, PathFacts DEF Merged, Same, Together, SetsOf
<1>5. SetName(k) = rset[o]
    BY <1>1 DEF SetName
<1>6. rset' = [x \in Objs |-> IF Merged(k, x) THEN SetName(k) ELSE rset[x]]
    <2>1. rset' = [x \in Objs |-> IF x \in chain \/ rset[x] \in SetsOf(chain)
                                  THEN rset[o] ELSE rset[x]]
        BY Zenon DEF mergeRSet
    <2>2. ASSUME NEW x \in Objs PROVE rset'[x] = IF Merged(k, x) THEN SetName(k) ELSE rset[x]
        <3> HIDE DEF chain
        <3> QED
            BY <1>4, <1>5, <2>1
    <2> HIDE DEF chain
    <2> QED
        BY <2>1, <2>2, Zenon
<1> QED
    BY <1>1, <1>6, FollowGrows DEF Merge, Same, Together


-----------------------------------------------------------------------------
(* Merging sets *)

LEMMA SameMerged ==
    ASSUME NEW k, NEW x, NEW y, Same(x, y)
    PROVE  Merged(k, x) <=> Merged(k, y)
<1>1. ASSUME NEW z PROVE Same(x, z) <=> Same(y, z)
    BY Zenon DEF Same, Together
<1> QED
    BY <1>1, Zenon DEF Merged

(* The name of the merged set is not the name of another set. *)
LEMMA MergedNamed ==
    ASSUME TypeOK, Visited, NEW k \in DOMAIN ovec
    PROVE  /\ SetName(k) \in Objs
           /\ \A x \in Objs : rset[x] = SetName(k) => Merged(k, x)
<1>1. ovec[k] \in Objs /\ k \in k .. Len(ovec)
    BY PathFacts
<1>2. CASE rset[ovec[k]] = None
    <2>1. ASSUME NEW x \in Objs, rset[x] = ovec[k] PROVE FALSE
        BY <1>1, <1>2, <2>1, ObjsAssumption DEF Visited
    <2> QED
        BY <1>1, <1>2, <2>1 DEF SetName
<1>3. CASE rset[ovec[k]] # None
    <2>1. rset[ovec[k]] \in Objs
        BY <1>1, <1>3 DEF TypeOK
    <2>2. ASSUME NEW x \in Objs, rset[x] = rset[ovec[k]] PROVE Merged(k, x)
        BY <1>1, <1>3, <2>2, Zenon DEF Merged, Same, Together
    <2> QED
        BY <1>3, <2>1, <2>2 DEF SetName
<1> QED
    BY <1>2, <1>3

\* After a merge the merged objects are one set; other sets are as before.
LEMMA MergedTogether ==
    ASSUME TypeOK, Visited, NEW o, NEW k, Merge(o, k), NEW x \in Objs, NEW y \in Objs
    PROVE  Together(x, y)' <=> \/ Merged(k, x) /\ Merged(k, y)
                               \/ ~Merged(k, x) /\ ~Merged(k, y) /\ Together(x, y)
<1>1. /\ SetName(k) \in Objs /\ SetName(k) # None
      /\ \A z \in Objs : rset[z] = SetName(k) => Merged(k, z)
    BY MergedNamed, ObjsAssumption DEF Merge
<1>2. /\ rset'[x] = IF Merged(k, x) THEN SetName(k) ELSE rset[x]
      /\ rset'[y] = IF Merged(k, y) THEN SetName(k) ELSE rset[y]
    BY DEF Merge
<1> QED
    BY <1>1, <1>2 DEF Together

(* An object of the path that is merged is followed by such objects only. *)
LEMMA MergedPath ==
    ASSUME TypeOK, Visited, Intervals, NEW k \in DOMAIN ovec, NEW i \in DOMAIN ovec,
           Merged(k, ovec[i]), NEW m \in i .. Len(ovec)
    PROVE  Merged(k, ovec[m])
<1>1. PICK j \in k .. Len(ovec) : Same(ovec[i], ovec[j])
    BY DEF Merged
<1>2. /\ Len(ovec) \in Nat /\ k \in 1 .. Len(ovec) /\ i \in 1 .. Len(ovec)
      /\ j \in DOMAIN ovec /\ m \in DOMAIN ovec
    BY <1>1, PathFacts
<1>3. CASE m \in k .. Len(ovec)
    BY <1>3 DEF Merged, Same
<1>4. CASE m \in i .. j /\ Together(ovec[i], ovec[j])
    <2>1. Together(ovec[i], ovec[m])
        BY <1>2, <1>4 DEF Intervals
    <2>2. Same(ovec[m], ovec[j])
        BY <1>4, <2>1 DEF Same, Together
    <2> QED
        BY <1>1, <2>2 DEF Merged
<1>5. CASE m \notin k .. Len(ovec) /\ ovec[i] = ovec[j]
    <2>1. i = j
        BY <1>2, <1>5 DEF Visited
    <2> QED
        BY <1>2, <1>5, <2>1
<1> QED
    BY <1>1, <1>2, <1>3, <1>4, <1>5 DEF Same


LEMMA MergeVisited ==
    ASSUME TypeOK, Visited, NEW o \in Objs, NEW k, Merge(o, k)
    PROVE  Visited' /\ rset' \in [Objs -> Objs \cup {None}]
<1>1. /\ k \in DOMAIN ovec /\ Same(o, ovec[k]) /\ Grown(o)
      /\ scanned' = scanned /\ ovec' = ovec
      /\ rset' = [x \in Objs |-> IF Merged(k, x) THEN SetName(k) ELSE rset[x]]
    BY DEF Merge
<1>2. SetName(k) \in Objs /\ SetName(k) # None
    BY <1>1, MergedNamed, ObjsAssumption
<1>3. rset' \in [Objs -> Objs \cup {None}]
    BY <1>1, <1>2 DEF TypeOK
<1>4. ASSUME NEW x \in Objs, NEW j \in DOMAIN ovec, Same(x, ovec[j]) PROVE x \in scanned
    BY <1>4, PathFacts DEF Same, Together, Visited
<1>5. ASSUME NEW x \in Objs, rset'[x] # None PROVE x \in scanned
    <2>1. CASE Merged(k, x)
        <3>1. PICK j \in k .. Len(ovec) : Same(x, ovec[j])
            BY <2>1 DEF Merged
        <3>2. j \in DOMAIN ovec
            BY <1>1, <3>1, PathFacts
        <3> QED
            BY <1>4, <3>1, <3>2
    <2>2. CASE ~Merged(k, x)
        BY <1>1, <1>5, <2>2 DEF Visited
    <2> QED
        BY <2>1, <2>2
<1>6. ASSUME NEW z \in Objs, rset[z] # None PROVE rset'[z] # None
    BY <1>1, <1>2, <1>6
<1>7. rset'[SetName(k)] # None
    <2>1. CASE rset[ovec[k]] = None
        <3>1. Merged(k, ovec[k])
            BY <1>1, PathFacts DEF Merged, Same
        <3> QED
            BY <1>1, <1>2, <2>1, <3>1 DEF SetName
    <2>2. CASE rset[ovec[k]] # None
        BY <1>1, <1>2, <1>6, <2>2, PathFacts DEF SetName, Visited
    <2> QED
        BY <2>1, <2>2
<1>8. ASSUME NEW x \in Objs, rset'[x] # None PROVE rset'[rset'[x]] # None
    <2>1. CASE Merged(k, x)
        BY <1>1, <1>7, <2>1
    <2>2. CASE ~Merged(k, x)
        <3>1. rset'[x] = rset[x] /\ rset[x] # None
            BY <1>1, <1>8, <2>2
        <3>2. rset[x] \in Objs /\ rset[rset[x]] # None
            BY <3>1 DEF TypeOK, Visited
        <3> QED
            BY <1>6, <3>1, <3>2
    <2> QED
        BY <2>1, <2>2
<1>9. ASSUME NEW x \in Objs, NEW y \in Objs, refs'[x][y] > 0
      PROVE  x \in scanned /\ y \in scanned
    <2>1. CASE x = Top /\ y = o
        <3>1. y \in scanned
            BY <1>1, <1>4, <2>1
        <3>2. x \in scanned
            BY <1>1, <2>1, PathFacts DEF Grown, Visited, Top
        <3> QED
            BY <3>1, <3>2
    <2>2. CASE ~(x = Top /\ y = o)
        <3>1. refs[x][y] > 0
            BY <1>1, <1>9, <2>2 DEF Grown
        <3> QED
            BY <3>1 DEF Visited
    <2> QED
        BY <2>1, <2>2
<1>10. ASSUME NEW i \in DOMAIN ovec, i + 1 \in DOMAIN ovec
       PROVE  refs'[ovec[i]][ovec[i + 1]] > 0
    BY <1>1, <1>10, PathFacts, GrownRefs, Zenon DEF Visited
<1>11. Visited'
    BY <1>1, <1>5, <1>8, <1>9, <1>10 DEF Visited
<1> QED
    BY <1>3, <1>11

\* The merged set is the end of the path with whole sets before it.
LEMMA MergeIntervals ==
    ASSUME TypeOK, Visited, Intervals, NEW o \in Objs, NEW k, Merge(o, k)
    PROVE  Intervals'
<1>1. k \in DOMAIN ovec /\ ovec' = ovec
    BY DEF Merge
<1>2. \A i, j \in DOMAIN ovec :
          Together(ovec[i], ovec[j])' <=>
              \/ Merged(k, ovec[i]) /\ Merged(k, ovec[j])
              \/ ~Merged(k, ovec[i]) /\ ~Merged(k, ovec[j]) /\ Together(ovec[i], ovec[j])
    BY <1>1, MergedTogether, PathFacts DEF Together
<1> SUFFICES ASSUME NEW i \in DOMAIN ovec, NEW j \in DOMAIN ovec, Together(ovec[i], ovec[j])',
                    NEW m \in i .. j
             PROVE  Together(ovec[i], ovec[m])'
    BY <1>1 DEF Intervals
<1>3. m \in DOMAIN ovec /\ m \in i .. Len(ovec)
    BY PathFacts
<1>4. CASE Merged(k, ovec[i])
    BY <1>1, <1>2, <1>3, <1>4, MergedPath
<1>5. CASE ~Merged(k, ovec[i])
    <2>1. Together(ovec[i], ovec[j])
        BY <1>2, <1>5
    <2>2. Together(ovec[i], ovec[m])
        BY <2>1 DEF Intervals
    <2>3. ~Merged(k, ovec[m])
        BY <1>5, <2>2, SameMerged DEF Same
    <2> QED
        BY <1>2, <1>3, <1>5, <2>2, <2>3
<1> QED
    BY <1>4, <1>5


(* Merged objects lead to the end of the path and follow the object at k. *)
LEMMA MergedLeads ==
    ASSUME TypeOK, Sound, NEW k \in DOMAIN ovec, NEW x \in Objs, Merged(k, x)
    PROVE  LeadsIn(refs, x, Top) /\ LeadsIn(refs, ovec[k], x)
<1>1. PICK j \in k .. Len(ovec) : Same(x, ovec[j])
    BY DEF Merged
<1>2. /\ j \in DOMAIN ovec /\ k <= j /\ ovec[j] \in Objs
      /\ Len(ovec) \in DOMAIN ovec /\ j <= Len(ovec) /\ Top = ovec[Len(ovec)]
    BY <1>1, PathFacts DEF Top
<1>3. LeadsIn(refs, x, ovec[j]) /\ LeadsIn(refs, ovec[j], x)
    <2>1. CASE x = ovec[j]
        BY <2>1, LeadsRefl
    <2>2. CASE Together(x, ovec[j])
        BY <1>2, <2>2 DEF Sound, Together
    <2> QED
        BY <1>1, <2>1, <2>2 DEF Same
<1>4. LeadsIn(refs, ovec[j], Top) /\ LeadsIn(refs, ovec[k], ovec[j])
    BY <1>2 DEF Sound
<1> QED
    BY <1>3, <1>4, LeadsTrans, Zenon

LEMMA GrownLeads ==
    ASSUME TypeOK, NEW o \in Objs, Grown(o), NEW x, NEW y, LeadsIn(refs, x, y)
    PROVE  LeadsIn(refs', x, y)
<1>1. \A a, b \in Objs : refs[a][b] > 0 => refs'[a][b] > 0
    BY GrownRefs, Zenon
<1> QED
    BY <1>1, LeadsMore, Zenon

\* The reference that is followed closes a cycle through all merged objects.
LEMMA MergeSound ==
    ASSUME TypeOK, Visited, Sound, NEW o \in Objs, NEW k, Merge(o, k)
    PROVE  Sound'
<1>1. /\ k \in DOMAIN ovec /\ Same(o, ovec[k]) /\ Grown(o) /\ ovec' = ovec
      /\ rset' = [x \in Objs |-> IF Merged(k, x) THEN SetName(k) ELSE rset[x]]
      /\ Top \in Objs /\ ovec[k] \in Objs
    BY PathFacts DEF Merge, Grown
<1>2. ASSUME NEW x, NEW y, LeadsIn(refs, x, y) PROVE LeadsIn(refs', x, y)
    BY <1>1, <1>2, GrownLeads
<1>3. LeadsIn(refs', Top, ovec[k])
    <2>1. refs'[Top][o] > 0
        BY <1>1, GrownRefs
    <2>2. LeadsIn(refs, o, ovec[k])
        BY <1>1, LeadsRefl DEF Same, Sound
    <2> QED
        BY <1>2, <2>1, <2>2, LeadsEdge, LeadsTrans, Zenon
<1>4. ASSUME NEW x \in Objs, NEW y \in Objs, Merged(k, x), Merged(k, y)
      PROVE  LeadsIn(refs', x, y)
    <2>1. LeadsIn(refs', x, Top) /\ LeadsIn(refs', ovec[k], y)
        BY <1>1, <1>2, <1>4, MergedLeads
    <2> QED
        BY <1>3, <2>1, LeadsTrans, Zenon
<1>5. ASSUME NEW x \in Objs, NEW y \in Objs, Together(x, y)' PROVE LeadsIn(refs', x, y)
    <2>1. Together(x, y) \/ (Merged(k, x) /\ Merged(k, y))
        BY <1>5, MergedTogether
    <2> QED
        BY <1>2, <1>4, <2>1 DEF Sound
<1>6. ASSUME NEW x \in Objs, rset'[x] # None
      PROVE  \E q \in Objs : refs'[x][q] > 0 /\ LeadsIn(refs', q, x)
    <2>1. CASE ~Merged(k, x)
        <3>1. PICK q \in Objs : refs[x][q] > 0 /\ LeadsIn(refs, q, x)
            BY <1>1, <1>6, <2>1 DEF Sound
        <3>2. refs'[x][q] > 0
            BY <1>1, <3>1, GrownRefs, Zenon
        <3> QED
            BY <1>2, <3>1, <3>2
    <2>2. CASE Merged(k, x) /\ x # Top
        <3>1. LeadsIn(refs', x, Top) /\ LeadsIn(refs', Top, x)
            <4>1. LeadsIn(refs', x, Top) /\ LeadsIn(refs', ovec[k], x)
                BY <1>1, <1>2, <2>2, MergedLeads
            <4> QED
                BY <1>3, <4>1, LeadsTrans, Zenon
        <3>2. PICK q \in Objs : refs'[x][q] > 0 /\ LeadsIn(refs', q, Top)
            BY <1>1, <2>2, <3>1, LeadsFirst
        <3> QED
            BY <3>1, <3>2, LeadsTrans, Zenon
    <2>3. CASE x = Top
        <3>1. refs'[x][o] > 0
            BY <1>1, <2>3, GrownRefs
        <3>2. LeadsIn(refs, o, ovec[k])
            BY <1>1, LeadsRefl DEF Same, Sound
        <3>3. LeadsIn(refs, ovec[k], x)
            BY <1>1, <2>3, PathFacts DEF Top, Sound, Grown
        <3> QED
            BY <1>2, <3>1, <3>2, <3>3, LeadsTrans, Zenon
    <2> QED
        BY <2>1, <2>2, <2>3
<1>7. ASSUME NEW i \in DOMAIN ovec, NEW j \in DOMAIN ovec, i <= j
      PROVE  LeadsIn(refs', ovec[i], ovec[j])
    BY <1>2, <1>7 DEF Sound
<1>8. \A i, j \in DOMAIN ovec' : i <= j => LeadsIn(refs', ovec'[i], ovec'[j])
    BY <1>1, <1>7, Zenon
<1> QED
    BY <1>5, <1>6, <1>8 DEF Sound

\* A merge takes nothing from, or to, the path: what is settled stays so.
LEMMA MergeSettled ==
    ASSUME TypeOK, Visited, NEW o \in Objs, NEW k, Merge(o, k)
    PROVE  Settled' = Settled
<1>0. k \in DOMAIN ovec /\ ovec' = ovec /\ scanned' = scanned /\ scanned \subseteq Objs
    BY DEF Merge, TypeOK
<1>1. \A i \in k .. Len(ovec) : i \in DOMAIN ovec
    BY <1>0, PathFacts
<1>2. ASSUME NEW x \in Objs PROVE Pending(x)' <=> Pending(x)
    <2>1. ASSUME NEW i \in DOMAIN ovec, x = ovec[i] \/ Together(x, ovec[i])'
          PROVE  Pending(x)
        <3>1. \/ Same(x, ovec[i])
              \/ Merged(k, x)
            BY <2>1, MergedTogether, PathFacts, <1>0 DEF Same, Together
        <3> QED
            BY <1>0, <1>1, <3>1, Zenon DEF Pending, Merged
    <2>2. ASSUME NEW i \in DOMAIN ovec, Same(x, ovec[i])
          PROVE  x = ovec[i] \/ Together(x, ovec[i])'
        <3>1. Merged(k, x) <=> Merged(k, ovec[i])
            BY <2>2, SameMerged
        <3> QED
            BY <1>0, <2>2, <3>1, MergedTogether, PathFacts DEF Same, Together
    <2> QED
        BY <1>0, <2>1, <2>2 DEF Pending, Same
<1> QED
    BY <1>0, <1>2 DEF Settled


LEMMA TopPending ==
    ASSUME TypeOK, ovec # <<>>
    PROVE  Top \notin Settled
BY PathFacts DEF Settled, Pending, Same, Top

LEMMA MergeTogether ==
    ASSUME TypeOK, Visited, NEW o \in Objs, NEW k, Merge(o, k)
    PROVE  /\ Together(Top, o)'
           /\ \A x, y \in Objs : Together(x, y) => Together(x, y)'
<1>1. k \in DOMAIN ovec /\ Same(o, ovec[k]) /\ ovec # <<>> /\ ovec' = ovec
    BY DEF Merge, Grown
<1>2. Len(ovec) \in k .. Len(ovec) /\ k \in k .. Len(ovec) /\ Top \in Objs
    BY <1>1, PathFacts
<1>3. Merged(k, Top) /\ Merged(k, o)
    BY <1>1, <1>2, Zenon DEF Merged, Same, Top
<1>4. Top' = Top
    BY <1>1 DEF Top
<1>5. Together(Top, o)'
    BY <1>2, <1>3, <1>4, MergedTogether DEF Together
<1>6. ASSUME NEW x \in Objs, NEW y \in Objs, Together(x, y) PROVE Together(x, y)'
    BY <1>6, MergedTogether, SameMerged DEF Same
<1> QED
    BY <1>5, <1>6

\* References of the path that are merged become references inside a set.
LEMMA MergeEdges ==
    ASSUME TypeOK, Visited, Edges, Loops, NEW o \in Objs, NEW k, Merge(o, k)
    PROVE  Edges' /\ Loops'
<1>1. Grown(o) /\ ovec' = ovec /\ ovec # <<>> /\ Settled' = Settled /\ Top' = Top
    BY MergeSettled, Zenon DEF Merge, Grown, Top
<1>2. ASSUME NEW x \in Objs, NEW y \in Objs, refs'[x][y] > 0
      PROVE  \/ y \in Settled'
             \/ /\ x \notin Settled'
                /\ \/ Together(x, y)'
                   \/ /\ refs'[x][y] = 1
                      /\ \E i \in DOMAIN ovec' :
                            i + 1 \in DOMAIN ovec' /\ x = ovec'[i] /\ y = ovec'[i + 1]
    <2>1. CASE x = Top /\ y = o
        BY <1>1, <2>1, MergeTogether, TopPending DEF Together
    <2>2. CASE ~(x = Top /\ y = o)
        <3>1. refs[x][y] > 0 /\ refs'[x][y] = refs[x][y]
            BY <1>1, <1>2, <2>2, GrownRefs, ZenonT(40)
        <3>2. CASE y \in Settled
            BY <1>1, <3>2
        <3>3. CASE x \notin Settled /\ Together(x, y)
            BY <1>1, <3>3, MergeTogether
        <3>4. CASE /\ x \notin Settled /\ refs[x][y] = 1
                   /\ \E i \in DOMAIN ovec :
                         i + 1 \in DOMAIN ovec /\ x = ovec[i] /\ y = ovec[i + 1]
            BY <1>1, <3>1, <3>4, Zenon
        <3> QED
            BY <3>1, <3>2, <3>3, <3>4 DEF Edges
    <2> QED
        BY <2>1, <2>2
<1>3. ASSUME NEW x \in Objs, refs'[x][x] > 0 PROVE rset'[x] # None
    <2>1. CASE x = Top /\ x = o
        BY <1>1, <2>1, MergeTogether DEF Together
    <2>2. CASE ~(x = Top /\ x = o)
        <3>1. refs[x][x] > 0
            BY <1>1, <1>3, <2>2, GrownRefs, Zenon
        <3> QED
            BY <3>1, MergeTogether DEF Loops, Together
    <2> QED
        BY <2>1, <2>2
<1> QED
    BY <1>2, <1>3, Zenon DEF Edges, Loops

(* What is followed from Top changes nothing for settled objects. *)
LEMMA LayerKept ==
    ASSUME TypeOK, NEW o \in Objs, Grown(o), NEW x, NEW s \in SUBSET Settled,
           Layer(refs, x, s), Component(x)' = Component(x)
    PROVE  Layer(refs, x, s)'
<1>1. Top \notin s /\ s \subseteq Objs
    BY TopPending, Zenon DEF Grown, Settled, TypeOK
<1>2. ASSUME NEW a \in s, NEW b \in Objs, refs'[a][b] > 0 PROVE refs[a][b] > 0
    BY <1>1, <1>2, GrownRefs, Zenon
<1> QED
    BY <1>2, Zenon DEF Layer

\* Settled objects and their references do not change in a merge.
LEMMA MergeLayers ==
    ASSUME TypeOK, Visited, Layers, NEW o \in Objs, NEW k, Merge(o, k)
    PROVE  Layers'
<1>1. Grown(o) /\ Settled' = Settled /\ Settled \subseteq Objs
    BY MergeSettled, Zenon DEF Merge, Settled, TypeOK
<1>2. ASSUME NEW x \in Settled PROVE Component(x)' = Component(x)
    <2>1. x \in Objs /\ ~Merged(k, x)
        <3>1. \A i \in k .. Len(ovec) : i \in DOMAIN ovec
            BY PathFacts DEF Merge
        <3> QED
            BY <1>1, <3>1, Zenon DEF Settled, Pending, Merged
    <2>2. ASSUME NEW y \in Objs PROVE Together(x, y)' <=> Together(x, y)
        BY <2>1, MergedTogether, SameMerged DEF Same
    <2> QED
        BY <2>2 DEF Component, Same
<1>3. ASSUME NEW x \in Settled PROVE \E s \in SUBSET Settled : Layer(refs, x, s)'
    BY <1>1, <1>2, LayerKept DEF Layers
<1> QED
    BY <1>1, <1>3, Zenon DEF Layers


-----------------------------------------------------------------------------
(* Counts *)

LEMMA ReferenceMember ==
    ASSUME TypeOK, NEW y \in Objs, NEW r
    PROVE  r \in References(y) <=> /\ r \in Objs \X Nat
                                   /\ r[2] > 0 /\ r[2] <= refs[r[1]][y]
<1>1. ASSUME NEW p \in Objs PROVE refs[p][y] \in Nat
    <2>1. refs[p] \in [Objs -> Nat]
        BY DEF TypeOK
    <2> QED
        BY <2>1
<1>2. r \in References(y) <=> \E p \in Objs : r \in {p} \X (1 .. refs[p][y])
    BY Zenon DEF References
<1>3. ASSUME NEW p \in Objs, r \in {p} \X (1 .. refs[p][y])
      PROVE  r \in Objs \X Nat /\ r[2] > 0 /\ r[2] <= refs[r[1]][y]
    BY <1>1, <1>3
<1>4. ASSUME r \in Objs \X Nat, r[2] > 0, r[2] <= refs[r[1]][y]
      PROVE  r[1] \in Objs /\ r \in {r[1]} \X (1 .. refs[r[1]][y])
    BY <1>1, <1>4
<1> QED
    BY <1>2, <1>3, <1>4

NewRef(o) == <<Top, refs[Top][o] + 1>>

LEMMA GrownReferences ==
    ASSUME TypeOK, NEW o \in Objs, Grown(o)
    PROVE  /\ NewRef(o) \notin References(o)
           /\ References(o)' = References(o) \cup {NewRef(o)}
           /\ \A y \in Objs \ {o} : References(y)' = References(y)
<1>1. Top \in Objs
    BY PathFacts DEF Grown
<1>2. ASSUME NEW x \in Objs, NEW y \in Objs PROVE refs[x][y] \in Nat
    BY <1>2, GrownRefs, Zenon
<1>3. refs'[Top][o] = refs[Top][o] + 1
    BY <1>1 DEF Grown
<1>4. 1 .. refs'[Top][o] = (1 .. refs[Top][o]) \cup {refs[Top][o] + 1}
    BY <1>1, <1>2, <1>3
<1>5. ASSUME NEW x \in Objs, NEW y \in Objs, x # Top \/ y # o PROVE refs'[x][y] = refs[x][y]
    BY <1>5, GrownRefs, ZenonT(40)
<1>6. NewRef(o) \notin References(o)
    BY <1>1, <1>2, ReferenceMember DEF NewRef
<1>7. ASSUME NEW y \in Objs, y # o PROVE References(y)' = References(y)
    BY <1>5, <1>7 DEF References
<1>8. ASSUME NEW r PROVE r \in References(o)' <=> r \in References(o) \cup {NewRef(o)}
    <2>1. r \in References(o)' <=> \E p \in Objs : r \in {p} \X (1 .. refs'[p][o])
        BY Zenon DEF References
    <2>2. r \in References(o) <=> \E p \in Objs : r \in {p} \X (1 .. refs[p][o])
        BY Zenon DEF References
    <2>3. ASSUME NEW p \in Objs, p # Top
          PROVE  {p} \X (1 .. refs'[p][o]) = {p} \X (1 .. refs[p][o])
        BY <1>5, <2>3
    <2>4. r \in {Top} \X (1 .. refs'[Top][o])
              <=> r \in {Top} \X (1 .. refs[Top][o]) \/ r = NewRef(o)
        BY <1>1, <1>2, <1>4 DEF NewRef
    <2> QED
        BY <1>1, <2>1, <2>2, <2>3, <2>4
<1> QED
    BY <1>6, <1>7, <1>8

\* x gets one more reference from inside its set
GainsOne(x) == \E r : r \notin SetRefs(x) /\ SetRefs(x)' = SetRefs(x) \cup {r}

CountStep(x) ==
    \/ SetRefs(x)' = SetRefs(x) /\ rcount'[x] = rcount[x]
    \/ GainsOne(x) /\ rcount'[x] = rcount[x] + 1
    \/ GainsOne(x) /\ rcount'[x] = rcount[x] /\ joined'

\* Counts holds again if each object's count grows by what its set gains.
LEMMA CountsKept ==
    ASSUME TypeOK, Counts, joined => joined',
           \A x \in Objs : CountStep(x) /\ IsFiniteSet(References(x)')
    PROVE  Counts'
<1> SUFFICES ASSUME NEW x \in Objs
             PROVE  /\ rcount'[x] <= Cardinality(SetRefs(x)')
                    /\ ~joined' => rcount'[x] = Cardinality(SetRefs(x)')
    BY DEF Counts
<1>1. IsFiniteSet(SetRefs(x))
    BY FS_Subset, Zenon DEF Counts, SetRefs
<1>2. /\ Cardinality(SetRefs(x)) \in Nat /\ rcount[x] \in Nat
      /\ rcount[x] <= Cardinality(SetRefs(x))
      /\ ~joined => rcount[x] = Cardinality(SetRefs(x))
    BY <1>1, FS_CardinalityType DEF Counts, TypeOK
<1>3. CASE SetRefs(x)' = SetRefs(x) /\ rcount'[x] = rcount[x]
    BY <1>2, <1>3
<1>4. CASE GainsOne(x) /\ (rcount'[x] = rcount[x] + 1 \/ (rcount'[x] = rcount[x] /\ joined'))
    <2>1. PICK r : r \notin SetRefs(x) /\ SetRefs(x)' = SetRefs(x) \cup {r}
        BY <1>4 DEF GainsOne
    <2>2. Cardinality(SetRefs(x)') = Cardinality(SetRefs(x)) + 1
        BY <1>1, <2>1, FS_AddElement, Zenon
    <2> QED
        BY <1>2, <1>4, <2>2
<1> QED
    BY <1>3, <1>4 DEF CountStep


LEMMA GrownFinite ==
    ASSUME TypeOK, Counts, NEW o \in Objs, Grown(o), NEW x \in Objs
    PROVE  IsFiniteSet(References(x)')
<1>1. IsFiniteSet(References(x))
    BY DEF Counts
<1>2. CASE x = o
    BY <1>1, <1>2, GrownReferences, FS_AddElement
<1>3. CASE x # o
    BY <1>1, <1>3, GrownReferences
<1> QED
    BY <1>2, <1>3

(* A reference that is between two merged objects and was not inside a set   *)
(* is one by which the path goes on, from k or later.                        *)
LEMMA MergedReference ==
    ASSUME TypeOK, Visited, Intervals, Edges, NEW k \in DOMAIN ovec,
           NEW p \in Objs, NEW y \in Objs, Merged(k, p), Merged(k, y),
           refs[p][y] > 0, ~Together(y, p)
    PROVE  \E j \in k + 1 .. Len(ovec) : p = ovec[j - 1] /\ y = ovec[j] /\ refs[p][y] = 1
<1>1. \A i \in k .. Len(ovec) : i \in DOMAIN ovec
    BY PathFacts
<1>2. p \notin Settled /\ y \notin Settled
    BY <1>1, Zenon DEF Settled, Pending, Merged
<1>3. ~Together(p, y)
    BY DEF Together
<1>4. PICK i \in DOMAIN ovec : /\ i + 1 \in DOMAIN ovec /\ p = ovec[i] /\ y = ovec[i + 1]
                               /\ refs[p][y] = 1
    BY <1>2, <1>3 DEF Edges
<1>5. ASSUME i < k PROVE FALSE
    <2>1. PICK l \in k .. Len(ovec) : Same(p, ovec[l])
        BY DEF Merged
    <2>2. l \in DOMAIN ovec /\ i # l /\ i + 1 \in i .. l
        BY <1>1, <1>4, <1>5, <2>1, PathFacts
    <2>3. Together(ovec[i], ovec[l])
        BY <1>4, <2>1, <2>2 DEF Same, Visited
    <2> QED
        BY <1>3, <1>4, <2>2, <2>3 DEF Intervals
<1>6. i + 1 \in k + 1 .. Len(ovec) /\ (i + 1) - 1 = i
    BY <1>4, <1>5, PathFacts
<1> QED
    BY <1>4, <1>6

\* In a merge an object gains the reference followed, or the one from its
\* predecessor on the path if they were in different sets, and no other.
LEMMA MergeSetRefs ==
    ASSUME TypeOK, Visited, Intervals, Edges, NEW o \in Objs, NEW k, Merge(o, k),
           \A j \in k + 1 .. Len(ovec) : ovec[j] # o, NEW y \in Objs
    PROVE  /\ y = o => GainsOne(y)
           /\ \A j \in k + 1 .. Len(ovec) :
                 y = ovec[j] /\ ~Together(ovec[j - 1], ovec[j]) => GainsOne(y)
           /\ /\ y # o
              /\ \A j \in k + 1 .. Len(ovec) : y = ovec[j] => Together(ovec[j - 1], ovec[j])
              => SetRefs(y)' = SetRefs(y)
<1>1. /\ Grown(o) /\ k \in DOMAIN ovec /\ ovec # <<>> /\ Top \in Objs /\ Top' = Top
      /\ Len(ovec) \in Nat /\ k \in 1 .. Len(ovec) /\ DOMAIN ovec = 1 .. Len(ovec)
    BY PathFacts, SMTT(30) DEF Merge, Grown, Top
<1>2. SetRefs(y)' = {r \in References(y)' : Together(y, r[1])'}
    BY DEF SetRefs, Together
<1>3. ASSUME NEW p \in Objs
      PROVE  /\ Together(y, p) => Together(y, p)'
             /\ Together(y, p)' /\ ~Together(y, p) => Merged(k, y) /\ Merged(k, p)
    BY MergeTogether, MergedTogether
<1>4. ASSUME NEW r \in References(y)
      PROVE  r[1] \in Objs /\ r[2] \in Nat /\ r[2] > 0 /\ r[2] <= refs[r[1]][y]
             /\ refs[r[1]][y] > 0 /\ r = <<r[1], r[2]>>
    <2>1. r \in Objs \X Nat /\ r[2] > 0 /\ r[2] <= refs[r[1]][y]
        BY ReferenceMember
    <2>2. refs[r[1]][y] \in Nat
        BY <1>1, <2>1, GrownRefs
    <2> QED
        BY <2>1, <2>2
<1>5. ASSUME NEW r \in References(y), Together(y, r[1])', ~Together(y, r[1])
      PROVE  \E j \in k + 1 .. Len(ovec) : r[1] = ovec[j - 1] /\ y = ovec[j] /\ r[2] = 1
    <2>1. PICK j \in k + 1 .. Len(ovec) :
              r[1] = ovec[j - 1] /\ y = ovec[j] /\ refs[r[1]][y] = 1
        BY <1>1, <1>3, <1>4, <1>5, MergedReference, SMTT(30)
    <2> QED
        BY <1>4, <2>1
<1>6. ASSUME y = o PROVE GainsOne(y)
    <2>0. PICK e : e = NewRef(o)
        OBVIOUS
    <2>1. e \notin References(y) /\ References(y)' = References(y) \cup {e}
        BY <1>1, <1>6, <2>0, GrownReferences
    <2>2. Together(y, e[1])'
        <3>1. e[1] = Top
            BY <2>0 DEF NewRef
        <3> QED
            BY <1>1, <1>6, <3>1, MergeTogether DEF Together
    <2>3. ASSUME NEW r \in References(y) PROVE Together(y, r[1])' <=> Together(y, r[1])
        BY <1>3, <1>4, <1>5, <1>6
    <2>4. SetRefs(y)' = SetRefs(y) \cup {e}
        BY <1>2, <2>1, <2>2, <2>3, Zenon DEF SetRefs
    <2> QED
        BY <2>1, <2>4 DEF GainsOne, SetRefs
<1>7. ASSUME NEW j \in k + 1 .. Len(ovec), y = ovec[j], ~Together(ovec[j - 1], ovec[j])
      PROVE  GainsOne(y)
    <2>1. References(y)' = References(y)
        BY <1>1, <1>7, GrownReferences
    <2>2. /\ j - 1 \in DOMAIN ovec /\ j \in DOMAIN ovec /\ (j - 1) + 1 = j
          /\ j - 1 \in k .. Len(ovec) /\ j \in k .. Len(ovec)
        BY <1>1, PathFacts
    <2>3. PICK p \in Objs : p = ovec[j - 1]
        BY <2>2, PathFacts
    <2> DEFINE e == <<p, 1>>
    <2>4. e = <<p, 1>> /\ e[1] = p /\ e[2] = 1
        OBVIOUS
    <2> HIDE DEF e
    <2>5. e \in References(y)
        <3>1. refs[p][y] > 0 /\ refs[p][y] \in Nat
            BY <1>1, <1>7, <2>2, <2>3, GrownRefs DEF Visited
        <3> QED
            BY <2>4, <3>1, ReferenceMember
    <2>6. ~Together(y, p)
        BY <1>7, <2>3 DEF Together
    <2>7. Together(y, p)'
        <3>1. Merged(k, y) /\ Merged(k, p)
            BY <1>7, <2>2, <2>3, Zenon DEF Merged, Same
        <3> QED
            BY <3>1, MergedTogether
    <2>8. ASSUME NEW r \in References(y), Together(y, r[1])', ~Together(y, r[1]) PROVE r = e
        <3>1. PICK i \in k + 1 .. Len(ovec) : r[1] = ovec[i - 1] /\ y = ovec[i] /\ r[2] = 1
            BY <1>5, <2>8
        <3>2. i \in DOMAIN ovec
            BY <1>1
        <3>3. i = j
            BY <1>7, <2>2, <3>1, <3>2, Zenon DEF Visited
        <3> QED
            BY <1>4, <2>3, <2>4, <3>1, <3>3
    <2>9. ASSUME NEW r \in References(y)
          PROVE  Together(y, r[1])' <=> Together(y, r[1]) \/ r = e
        BY <1>3, <1>4, <2>4, <2>7, <2>8
    <2>10. SetRefs(y)' = SetRefs(y) \cup {e}
        BY <1>2, <2>1, <2>5, <2>9, Zenon DEF SetRefs
    <2> QED
        BY <2>4, <2>6, <2>10 DEF GainsOne, SetRefs
<1>8. ASSUME y # o,
             \A j \in k + 1 .. Len(ovec) : y = ovec[j] => Together(ovec[j - 1], ovec[j])
      PROVE  SetRefs(y)' = SetRefs(y)
    <2>1. References(y)' = References(y)
        BY <1>1, <1>8, GrownReferences
    <2>2. ASSUME NEW r \in References(y) PROVE Together(y, r[1])' <=> Together(y, r[1])
        BY <1>3, <1>4, <1>5, <1>8 DEF Together
    <2> QED
        BY <1>2, <2>1, <2>2 DEF SetRefs
<1> QED
    BY <1>6, <1>7, <1>8


(* Two sets are more than one. *)
LEMMA TwoElements ==
    ASSUME NEW S, IsFiniteSet(S), NEW a \in S, NEW b \in S, a # b
    PROVE  Cardinality(S) > 1
<1> DEFINE A == {a}
<1>1. IsFiniteSet(A) /\ Cardinality(A) = 1 /\ b \notin A /\ A \cup {b} \subseteq S
    BY FS_Singleton
<1> HIDE DEF A
<1>2. Cardinality(A \cup {b}) = 2
    BY <1>1, FS_AddElement
<1>3. Cardinality(A \cup {b}) <= Cardinality(S) /\ Cardinality(S) \in Nat
    BY <1>1, FS_Subset, FS_CardinalityType
<1> QED
    BY <1>2, <1>3

LEMMA FiniteSetsOf ==
    ASSUME TypeOK, NEW k \in Int
    PROVE  IsFiniteSet(SetsOf({ovec[i] : i \in k .. Len(ovec)}))
<1> DEFINE dom == k .. Len(ovec)
           sets == {rset[ovec[i]] : i \in dom}
           f == [i \in dom |-> rset[ovec[i]]]
<1>1. IsFiniteSet(dom)
    BY PathFacts, FS_Interval
<1>2. f \in Surjection(dom, sets)
    BY DEF Surjection
<1>3. IsFiniteSet(sets)
    BY <1>1, <1>2, FS_Surjection
<1>4. SetsOf({ovec[i] : i \in k .. Len(ovec)}) \subseteq sets
    BY DEF SetsOf
<1> QED
    BY <1>3, <1>4, FS_Subset

\* CloseCycle raises no count too many, and too few only if sets are joined.
LEMMA CloseCounts ==
    ASSUME TypeOK, Visited, Intervals, Edges, Counts, NEW o \in Objs, CloseCycle(o)
    PROVE  Counts' /\ rcount' \in [Objs -> Nat] /\ joined' \in BOOLEAN
<1> DEFINE k == Position(o)
           chain == {ovec[i] : i \in k .. Len(ovec)}
           counted == {i \in k .. Len(ovec) : \/ rset[ovec[i]] = None
                                              \/ i = k
                                              \/ rset[ovec[i - 1]] = None}
<1>1. /\ Merge(o, k) /\ Grown(o)
      /\ rcount' = Increment({ovec[i] : i \in counted})
      /\ joined' = (joined \/ Cardinality(SetsOf(chain)) > 1)
    BY CloseMerges DEF CloseCycle, Merge
<1>2. k \in DOMAIN ovec /\ ovec[k] = o
    BY DEF CloseCycle, inCurrentSet, Position
<1>3. k \in 1 .. Len(ovec) /\ Len(ovec) \in Nat /\ DOMAIN ovec = 1 .. Len(ovec)
    BY <1>2, PathFacts
<1> HIDE DEF k
<1>4. ASSUME NEW j \in k + 1 .. Len(ovec) PROVE ovec[j] # o
    BY <1>2, <1>3 DEF Visited
<1>5. ASSUME NEW x \in Objs
      PROVE  rcount'[x] = IF \E i \in counted : x = ovec[i] THEN rcount[x] + 1 ELSE rcount[x]
    BY <1>1 DEF Increment, TypeOK
<1>6. ASSUME NEW x \in Objs PROVE CountStep(x)
    <2>1. CASE x = o
        <3>1. k \in counted /\ x = ovec[k]
            BY <1>2, <1>3, <2>1
        <3>2. GainsOne(x)
            BY <1>1, <1>4, <2>1, MergeSetRefs
        <3> HIDE DEF counted
        <3> QED
            BY <1>5, <3>1, <3>2 DEF CountStep
    <2>2. ASSUME NEW j \in k + 1 .. Len(ovec), x = ovec[j], ~Together(ovec[j - 1], ovec[j])
          PROVE  CountStep(x)
        <3>1. GainsOne(x)
            BY <1>1, <1>4, <2>2, MergeSetRefs
        <3>2. CASE j \in counted
            <4> HIDE DEF counted
            <4> QED
                BY <1>5, <2>2, <3>1, <3>2 DEF CountStep
        <3>3. CASE j \notin counted
            <4>1. ASSUME NEW i \in counted PROVE x # ovec[i]
                BY <1>3, <2>2, <3>3 DEF Visited
            <4>2. rcount'[x] = rcount[x]
                <5> HIDE DEF counted
                <5> QED
                    BY <1>5, <4>1
            <4>3. /\ j \in k .. Len(ovec) /\ j - 1 \in k .. Len(ovec)
                  /\ rset[ovec[j]] # None /\ rset[ovec[j - 1]] # None
                  /\ rset[ovec[j]] # rset[ovec[j - 1]]
                BY <1>3, <2>2, <3>3 DEF Together
            <4>4. rset[ovec[j]] \in SetsOf(chain) /\ rset[ovec[j - 1]] \in SetsOf(chain)
                BY <4>3, Zenon DEF SetsOf
            <4>5. IsFiniteSet(SetsOf(chain))
                BY <1>3, k \in Int, FiniteSetsOf
            <4>6. Cardinality(SetsOf(chain)) > 1
                <5> HIDE DEF chain
                <5> QED
                    BY <4>3, <4>4, <4>5, TwoElements
            <4> QED
                BY <1>1, <3>1, <4>2, <4>6, Zenon DEF CountStep
        <3> QED
            BY <3>2, <3>3
    <2>3. CASE /\ x # o
               /\ \A j \in k + 1 .. Len(ovec) : x = ovec[j] => Together(ovec[j - 1], ovec[j])
        <3>1. SetRefs(x)' = SetRefs(x)
            BY <1>1, <1>4, <2>3, MergeSetRefs
        <3>2. ASSUME NEW i \in counted PROVE x # ovec[i]
            BY <1>2, <1>3, <2>3 DEF Together
        <3> HIDE DEF counted
        <3> QED
            BY <1>5, <3>1, <3>2 DEF CountStep
    <2> HIDE DEF counted
    <2> QED
        BY <2>1, <2>2, <2>3
<1>7. ASSUME NEW x \in Objs PROVE rcount'[x] \in Nat
    <2>1. rcount[x] \in Nat
        BY DEF TypeOK
    <2>2. rcount'[x] = rcount[x] + 1 \/ rcount'[x] = rcount[x]
        <3> HIDE DEF counted
        <3> QED
            BY <1>5
    <2> QED
        BY <2>1, <2>2
<1>8. rcount' \in [Objs -> Nat] /\ joined' \in BOOLEAN
    BY <1>1, <1>7 DEF Increment, TypeOK
<1>9. joined => joined'
    BY <1>1, Zenon
<1>10. Counts'
    BY <1>1, <1>6, <1>9, CountsKept, GrownFinite
<1> QED
    BY <1>8, <1>10


\* makeChain raises no count too many, and too few only if sets are joined.
LEMMA ChainCounts ==
    ASSUME TypeOK, Visited, Intervals, Edges, Counts, NEW o \in Objs, makeChain(o),
           NEW k, ChainStart(o, k), Merge(o, k),
           NEW chain, chain = {ovec[i] : i \in k + 1 .. Len(ovec)},
           NEW added, added = {p \in chain : rset[p] = None},
           rcount' = Increment(added \cup IF Top \in added THEN {o} ELSE {}),
           joined' = (joined \/ SetsOf(chain) # {})
    PROVE  Counts' /\ rcount' \in [Objs -> Nat] /\ joined' \in BOOLEAN
<1>1. /\ Grown(o) /\ k \in DOMAIN ovec /\ ~inCurrentSet(o)
      /\ rset[o] # None /\ rset[o] # rset[Top] /\ rset[ovec[k]] = rset[o]
    BY DEF Merge, makeChain, ChainStart
<1>2. k \in 1 .. Len(ovec) /\ Len(ovec) \in Nat /\ DOMAIN ovec = 1 .. Len(ovec)
    BY <1>1, PathFacts
<1>3. ASSUME NEW j \in DOMAIN ovec PROVE ovec[j] # o
    BY <1>1 DEF inCurrentSet
<1>4. ASSUME NEW j \in k + 1 .. Len(ovec) PROVE ovec[j] # o /\ ovec[j] \in chain
    BY <1>2, <1>3
<1>5. Top \in chain
    <2>1. k # Len(ovec)
        BY <1>1 DEF Top
    <2>2. Len(ovec) \in k + 1 .. Len(ovec)
        BY <1>2, <2>1
    <2> QED
        BY <1>4, <2>2 DEF Top
<1>6. ASSUME NEW x \in Objs
      PROVE  rcount'[x] = IF x \in added \/ (x = o /\ Top \in added)
                          THEN rcount[x] + 1 ELSE rcount[x]
    BY DEF Increment, TypeOK
<1>7. ASSUME NEW p \in chain, rset[p] # None PROVE joined'
    <2>1. rset[p] \in SetsOf(chain)
        BY <1>7 DEF SetsOf
    <2> QED
        BY <2>1, Zenon
<1>8. ASSUME NEW x \in Objs PROVE CountStep(x)
    <2>1. CASE x = o
        <3>1. GainsOne(x)
            BY <1>4, <2>1, MergeSetRefs
        <3>2. o \notin added
            BY <1>1
        <3>3. CASE Top \in added
            BY <1>6, <2>1, <3>1, <3>3 DEF CountStep
        <3>4. CASE Top \notin added
            <4>1. joined'
                BY <1>5, <1>7, <3>4, Zenon
            <4>2. rcount'[x] = rcount[x]
                BY <1>6, <2>1, <3>2, <3>4
            <4> QED
                BY <3>1, <4>1, <4>2, Zenon DEF CountStep
        <3> QED
            BY <3>3, <3>4
    <2>2. ASSUME NEW j \in k + 1 .. Len(ovec), x = ovec[j], ~Together(ovec[j - 1], ovec[j])
          PROVE  CountStep(x)
        <3>1. GainsOne(x)
            BY <1>4, <2>2, MergeSetRefs
        <3>2. CASE x \in added
            BY <1>6, <3>1, <3>2 DEF CountStep
        <3>3. CASE x \notin added
            <4>1. joined'
                BY <1>4, <1>7, <2>2, <3>3, Zenon
            <4>2. rcount'[x] = rcount[x]
                BY <1>4, <1>6, <2>2, <3>3
            <4> QED
                BY <3>1, <4>1, <4>2, Zenon DEF CountStep
        <3> QED
            BY <3>2, <3>3
    <2>3. CASE /\ x # o
               /\ \A j \in k + 1 .. Len(ovec) : x = ovec[j] => Together(ovec[j - 1], ovec[j])
        <3>1. SetRefs(x)' = SetRefs(x)
            BY <1>4, <2>3, MergeSetRefs
        <3>2. x \notin added
            BY <2>3 DEF Together
        <3> QED
            BY <1>6, <2>3, <3>1, <3>2 DEF CountStep
    <2> QED
        BY <2>1, <2>2, <2>3
<1>9. ASSUME NEW x \in Objs PROVE rcount'[x] \in Nat
    <2>1. rcount[x] \in Nat
        BY DEF TypeOK
    <2> QED
        BY <1>6, <2>1
<1>10. rcount' \in [Objs -> Nat] /\ joined' \in BOOLEAN
    BY <1>9, Zenon DEF Increment, TypeOK
<1>11. Counts'
    BY <1>1, <1>8, CountsKept, GrownFinite, Zenon
<1> QED
    BY <1>10, <1>11


-----------------------------------------------------------------------------
(* Every step keeps the invariant *)

LEMMA MergeInv ==
    ASSUME IInv, NEW o \in Objs, NEW k, Merge(o, k),
           Counts', rcount' \in [Objs -> Nat], joined' \in BOOLEAN
    PROVE  IInv'
<1>1. TypeOK'
    BY MergeVisited, Zenon DEF IInv, TypeOK, Merge, Grown
<1> QED
    BY <1>1, MergeVisited, MergeIntervals, MergeSound, MergeEdges, MergeLayers DEF IInv

LEMMA CloseInv ==
    ASSUME IInv, NEW o \in Objs, CloseCycle(o)
    PROVE  IInv'
BY CloseMerges, CloseCounts, MergeInv DEF IInv

LEMMA ChainInv ==
    ASSUME IInv, NEW o \in Objs, makeChain(o)
    PROVE  IInv'
<1>1. PICK k \in DOMAIN ovec :
          /\ rset[ovec[k]] = rset[o]
          /\ \A i \in k + 1 .. Len(ovec) : rset[ovec[i]] # rset[o]
          /\ LET chain == {ovec[i] : i \in k + 1 .. Len(ovec)}
                 added == {p \in chain : rset[p] = None}
             IN /\ rset' = mergeRSet(chain, rset[o])
                /\ rcount' = Increment(added \cup IF Top \in added THEN {o} ELSE {})
                /\ joined' = (joined \/ SetsOf(chain) # {})
    BY Zenon DEF makeChain
<1>2. ChainStart(o, k)
    BY <1>1 DEF ChainStart
<1>3. Merge(o, k)
    BY <1>1, <1>2, ChainMerges, Zenon DEF IInv, makeChain
<1>4. Counts' /\ rcount' \in [Objs -> Nat] /\ joined' \in BOOLEAN
    BY <1>1, <1>2, <1>3, ChainCounts, Zenon DEF IInv
<1> QED
    BY <1>3, <1>4, MergeInv

\* o has been visited and the reference to it changes no set
Known(o) ==
    /\ Grown(o)
    /\ o \in scanned
    /\ Together(Top, o) \/ o \in Settled
    /\ UNCHANGED <<scanned, rset, ovec>>

\* the reference to o changes neither the sets nor the path
Still(o) ==
    /\ Grown(o)
    /\ o \in scanned' /\ scanned \subseteq scanned'
    /\ UNCHANGED <<rset, ovec>>

\* A further reference, with the sets and the path as they are, breaks no path.
LEMMA StillGraph ==
    ASSUME TypeOK, Visited, Sound, NEW o \in Objs, Still(o)
    PROVE  Visited' /\ Sound'
<1>1. Grown(o) /\ o \in scanned' /\ scanned \subseteq scanned' /\ rset' = rset /\ ovec' = ovec
    BY DEF Still
<1>2. Top \in scanned
    BY <1>1, PathFacts DEF Visited, Grown, Top
<1>3. ASSUME NEW x \in Objs, NEW y \in Objs, refs'[x][y] > 0
      PROVE  x \in scanned' /\ y \in scanned'
    <2>1. refs[x][y] > 0 \/ (x = Top /\ y = o)
        BY <1>1, <1>3, GrownRefs, Zenon
    <2> QED
        BY <1>1, <1>2, <2>1 DEF Visited
<1>4. ASSUME NEW i \in DOMAIN ovec, i + 1 \in DOMAIN ovec
      PROVE  refs'[ovec[i]][ovec[i + 1]] > 0
    BY <1>1, <1>4, PathFacts, GrownRefs, Zenon DEF Visited
<1>5. Visited'
    BY <1>1, <1>3, <1>4 DEF Visited
<1>6. ASSUME NEW x, NEW y, LeadsIn(refs, x, y) PROVE LeadsIn(refs', x, y)
    BY <1>1, <1>6, GrownLeads
<1>7. ASSUME NEW x \in Objs, rset[x] # None
      PROVE  \E q \in Objs : refs'[x][q] > 0 /\ LeadsIn(refs', q, x)
    <2>1. PICK q \in Objs : refs[x][q] > 0 /\ LeadsIn(refs, q, x)
        BY <1>7 DEF Sound
    <2>2. refs'[x][q] > 0
        BY <1>1, <2>1, GrownRefs, Zenon
    <2> QED
        BY <1>6, <2>1, <2>2
<1>8. ASSUME NEW i \in DOMAIN ovec, NEW j \in DOMAIN ovec, i <= j
      PROVE  LeadsIn(refs', ovec[i], ovec[j])
    BY <1>6, <1>8 DEF Sound
<1>9. ASSUME NEW x \in Objs, NEW y \in Objs, Together(x, y) PROVE LeadsIn(refs', x, y)
    BY <1>6, <1>9 DEF Sound
<1>10. Sound'
    BY <1>1, <1>7, <1>8, <1>9 DEF Sound, Together
<1> QED
    BY <1>5, <1>10

\* A reference inside a set, or to a settled object, keeps the layers.
LEMMA KnownEdges ==
    ASSUME TypeOK, Edges, Loops, Layers, NEW o \in Objs, Known(o)
    PROVE  Edges' /\ Loops' /\ Layers'
<1>1. /\ Grown(o) /\ scanned' = scanned /\ rset' = rset /\ ovec' = ovec /\ Top \notin Settled
      /\ Together(Top, o) \/ o \in Settled
    BY TopPending DEF Known, Grown
<1>2. Settled' = Settled /\ Settled \subseteq Objs
    BY <1>1 DEF Settled, Pending, Same, Together, TypeOK
<1>3. ASSUME NEW x \in Objs, NEW y \in Objs, refs'[x][y] > 0
      PROVE  \/ y \in Settled
             \/ /\ x \notin Settled
                /\ \/ Together(x, y)
                   \/ /\ refs'[x][y] = 1
                      /\ \E i \in DOMAIN ovec :
                            i + 1 \in DOMAIN ovec /\ x = ovec[i] /\ y = ovec[i + 1]
    <2>1. CASE x = Top /\ y = o
        BY <1>1, <2>1
    <2>2. CASE ~(x = Top /\ y = o)
        <3>1. refs[x][y] > 0 /\ refs'[x][y] = refs[x][y]
            BY <1>1, <1>3, <2>2, GrownRefs, ZenonT(40)
        <3> QED
            BY <3>1 DEF Edges
    <2> QED
        BY <2>1, <2>2
<1>4. Edges'
    BY <1>1, <1>2, <1>3 DEF Edges, Together
<1>5. ASSUME NEW x \in Objs, refs'[x][x] > 0 PROVE rset[x] # None
    <2>1. refs[x][x] > 0 \/ (x = Top /\ x = o)
        BY <1>1, <1>5, GrownRefs, Zenon
    <2> QED
        BY <1>1, <2>1 DEF Loops, Together
<1>6. Loops'
    BY <1>1, <1>5 DEF Loops
<1>7. ASSUME NEW x \in Settled PROVE \E s \in SUBSET Settled : Layer(refs, x, s)'
    <2>1. Component(x)' = Component(x)
        BY <1>1 DEF Component, Same, Together
    <2> QED
        BY <1>1, <2>1, LayerKept DEF Layers
<1>8. Layers'
    BY <1>2, <1>7, Zenon DEF Layers
<1> QED
    BY <1>4, <1>6, <1>8

LEMMA KnownInv ==
    ASSUME IInv, NEW o \in Objs, Known(o), rcount' \in [Objs -> Nat], Counts', joined' = joined
    PROVE  IInv'
<1>1. TypeOK'
    BY Zenon DEF IInv, TypeOK, Known, Grown
<1>2. Intervals'
    BY DEF IInv, Known, Intervals, Together
<1>3. Still(o)
    BY DEF Known, Still
<1> QED
    BY <1>1, <1>2, <1>3, StillGraph, KnownEdges DEF IInv


\* A reference inside a set is counted once.
LEMMA SameSetInv ==
    ASSUME IInv, NEW o \in Objs, SameSet(o)
    PROVE  IInv'
<1>1. /\ TypeOK /\ Visited /\ Counts /\ Grown(o) /\ rcount' = Increment({o})
      /\ rset' = rset /\ joined' = joined
    BY FollowGrows DEF IInv, SameSet
<1>2. Together(Top, o) /\ Together(o, Top)
    BY DEF SameSet, Together
<1>3. Known(o)
    BY <1>1, <1>2 DEF Known, SameSet, Visited, Together
<1>4. ASSUME NEW x \in Objs PROVE rcount'[x] = IF x = o THEN rcount[x] + 1 ELSE rcount[x]
    BY <1>1 DEF Increment, TypeOK
<1>5. ASSUME NEW x \in Objs PROVE rcount'[x] \in Nat
    <2>1. rcount[x] \in Nat
        BY <1>1 DEF TypeOK
    <2> QED
        BY <1>4, <2>1
<1>6. SetRefs(o)' = SetRefs(o) \cup {NewRef(o)} /\ NewRef(o) \notin SetRefs(o)
    <2>1. NewRef(o)[1] = Top
        BY DEF NewRef
    <2>2. NewRef(o) \notin References(o) /\ References(o)' = References(o) \cup {NewRef(o)}
        BY <1>1, GrownReferences
    <2>3. SetRefs(o)' = {r \in References(o)' : Together(o, r[1])}
        BY <1>1 DEF SetRefs, Together
    <2>4. Together(o, NewRef(o)[1])
        BY <1>2, <2>1
    <2> QED
        BY <2>2, <2>3, <2>4, Zenon DEF SetRefs
<1>7. ASSUME NEW x \in Objs, x # o PROVE SetRefs(x)' = SetRefs(x)
    <2>1. References(x)' = References(x)
        BY <1>1, <1>7, GrownReferences
    <2> QED
        BY <1>1, <2>1 DEF SetRefs, Together
<1>8. ASSUME NEW x \in Objs PROVE CountStep(x)
    <2>1. CASE x = o
        <3>1. GainsOne(o)
            BY <1>6 DEF GainsOne
        <3> QED
            BY <1>4, <2>1, <3>1 DEF CountStep
    <2>2. CASE x # o
        BY <1>4, <1>7, <2>2 DEF CountStep
    <2> QED
        BY <2>1, <2>2
<1>9. Counts'
    BY <1>1, <1>8, CountsKept, GrownFinite
<1>10. rcount' \in [Objs -> Nat]
    BY <1>1, <1>5 DEF Increment
<1> QED
    BY <1>1, <1>3, <1>9, <1>10, KnownInv

(* A reference from Top that is not inside a set leaves the counts alone. *)
LEMMA OutsideCounts ==
    ASSUME TypeOK, Counts, NEW o \in Objs, Grown(o), ~Together(o, Top),
           rset' = rset, rcount' = rcount, joined' = joined
    PROVE  Counts'
<1>1. NewRef(o)[1] = Top
    BY DEF NewRef
<1>2. ASSUME NEW x \in Objs PROVE SetRefs(x)' = SetRefs(x)
    <2>1. SetRefs(x)' = {r \in References(x)' : Together(x, r[1])}
        BY DEF SetRefs, Together
    <2>2. CASE x = o
        <3>1. References(x)' = References(x) \cup {NewRef(o)} /\ ~Together(x, NewRef(o)[1])
            BY <1>1, <2>2, GrownReferences
        <3> QED
            BY <2>1, <3>1, Zenon DEF SetRefs
    <2>3. CASE x # o
        <3>1. References(x)' = References(x)
            BY <2>3, GrownReferences
        <3> QED
            BY <2>1, <3>1 DEF SetRefs
    <2> QED
        BY <2>2, <2>3
<1>3. ASSUME NEW x \in Objs PROVE CountStep(x)
    BY <1>2 DEF CountStep
<1> QED
    BY <1>3, CountsKept, GrownFinite

\* What is neither on the path nor in a set on it is settled: nothing to count.
LEMMA PassByInv ==
    ASSUME IInv, NEW o \in Objs, PassBy(o)
    PROVE  IInv'
<1>1. /\ TypeOK /\ Visited /\ Counts /\ Grown(o)
      /\ rset' = rset /\ rcount' = rcount /\ joined' = joined
    BY FollowGrows DEF IInv, PassBy
<1>2. o \in Settled
    BY DEF PassBy, Settled, Pending, Same, Together, inCurrentSet
<1>3. Known(o)
    BY <1>1, <1>2 DEF Known, PassBy
<1>4. ~Together(o, Top)
    BY <1>1, <1>2, PathFacts DEF Settled, Pending, Same, Grown, Top
<1> QED
    BY <1>1, <1>3, <1>4, OutsideCounts, KnownInv DEF TypeOK


\* Nothing is known of an object that has not been visited.
LEMMA Fresh ==
    ASSUME TypeOK, Visited, NEW o \in Objs, o \notin scanned
    PROVE  /\ rset[o] = None
           /\ \A x : ~Together(x, o) /\ ~Together(o, x)
           /\ \A x \in Objs : refs[x][o] = 0 /\ refs[o][x] = 0
           /\ \A i \in DOMAIN ovec : ovec[i] # o
<1>1. rset[o] = None
    BY DEF Visited
<1>2. ASSUME NEW x \in Objs PROVE refs[x][o] = 0 /\ refs[o][x] = 0
    <2>1. refs[x] \in [Objs -> Nat] /\ refs[o] \in [Objs -> Nat]
        BY DEF TypeOK
    <2>2. refs[x][o] \in Nat /\ refs[o][x] \in Nat
        BY <2>1
    <2> QED
        BY <2>2 DEF Visited
<1> QED
    BY <1>1, <1>2 DEF Together, Visited

\* o has no members to follow, or is not to be scanned
Leaf(o) ==
    /\ Grown(o)
    /\ o \notin scanned
    /\ scanned' = scanned \cup {o}
    /\ UNCHANGED <<rset, rcount, ovec, joined>>

\* An object that cannot hold objects is settled at once, as its own layer.
LEMMA LeafEdges ==
    ASSUME TypeOK, Visited, Edges, Loops, Layers, NEW o \in Objs, Leaf(o)
    PROVE  Edges' /\ Loops' /\ Layers'
<1>1. /\ Grown(o) /\ o \notin scanned /\ scanned' = scanned \cup {o}
      /\ rset' = rset /\ ovec' = ovec
      /\ Top \notin Settled /\ Top \in Objs /\ Top # o
    BY TopPending, PathFacts DEF Leaf, Grown, Visited, Top
<1>2. Settled' = Settled \cup {o} /\ Settled \subseteq Objs /\ o \notin Settled
    <2>1. ~Pending(o)
        BY <1>1, Fresh DEF Pending, Same
    <2>2. ASSUME NEW x PROVE Pending(x)' <=> Pending(x)
        BY <1>1 DEF Pending, Same, Together
    <2> QED
        BY <1>1, <2>1, <2>2 DEF Settled, TypeOK
<1>3. ASSUME NEW x \in Objs, NEW y \in Objs, refs'[x][y] > 0, y # o
      PROVE  x # o /\ refs[x][y] > 0 /\ refs'[x][y] = refs[x][y]
    <2>1. refs[x][y] > 0 /\ refs'[x][y] = refs[x][y]
        BY <1>1, <1>3, GrownRefs, ZenonT(40)
    <2> QED
        BY <1>1, <2>1 DEF Visited
<1>4. ASSUME NEW x \in Objs, NEW y \in Objs, refs'[x][y] > 0
      PROVE  \/ y \in Settled'
             \/ /\ x \notin Settled'
                /\ \/ Together(x, y)
                   \/ /\ refs'[x][y] = 1
                      /\ \E i \in DOMAIN ovec :
                            i + 1 \in DOMAIN ovec /\ x = ovec[i] /\ y = ovec[i + 1]
    <2>1. CASE y = o
        BY <1>2, <2>1
    <2>2. CASE y # o
        <3>1. x # o /\ refs[x][y] > 0 /\ refs'[x][y] = refs[x][y]
            BY <1>3, <1>4, <2>2
        <3> QED
            BY <1>2, <3>1 DEF Edges
    <2> QED
        BY <2>1, <2>2
<1>5. Edges'
    BY <1>1, <1>4 DEF Edges, Together
<1>6. ASSUME NEW x \in Objs, refs'[x][x] > 0 PROVE rset[x] # None
    <2>1. refs[x][x] > 0
        BY <1>1, <1>6, GrownRefs, Zenon
    <2> QED
        BY <2>1 DEF Loops
<1>7. Loops'
    BY <1>1, <1>6 DEF Loops
<1>8. ASSUME NEW x \in Settled PROVE \E s \in SUBSET Settled : Layer(refs, x, s)'
    <2>1. Component(x)' = Component(x)
        BY <1>1 DEF Component, Same, Together
    <2> QED
        BY <1>1, <2>1, LayerKept DEF Layers
<1>9. Layer(refs, o, {o})'
    <2>1. ASSUME NEW b \in Objs, refs'[o][b] > 0 PROVE FALSE
        <3>1. refs[o][b] > 0
            BY <1>1, <2>1, GrownRefs, Zenon
        <3> QED
            BY <1>1, <3>1 DEF Visited
    <2>2. \A a \in {o}, b \in Objs : ~(refs'[a][b] > 0)
        BY <2>1
    <2> QED
        BY <2>2, Zenon DEF Layer
<1>10. Layers'
    <2>1. ASSUME NEW x \in Settled' PROVE \E s \in SUBSET Settled' : Layer(refs, x, s)'
        <3>1. CASE x = o
            BY <1>2, <1>9, <3>1
        <3>2. CASE x \in Settled
            BY <1>2, <1>8, <3>2
        <3> QED
            BY <1>2, <3>1, <3>2
    <2> QED
        BY <2>1, Zenon DEF Layers
<1> QED
    BY <1>5, <1>7, <1>10

LEMMA LeafInv ==
    ASSUME IInv, NEW o \in Objs, Leaf(o)
    PROVE  IInv'
<1>1. TypeOK'
    BY Zenon DEF IInv, TypeOK, Leaf, Grown
<1>2. Intervals'
    BY DEF IInv, Leaf, Intervals, Together
<1>3. Still(o)
    BY DEF Leaf, Still
<1>4. Counts'
    BY Fresh, OutsideCounts DEF IInv, Leaf
<1> QED
    BY <1>1, <1>2, <1>3, <1>4, StillGraph, LeafEdges DEF IInv


\* o is scanned next
Push(o) ==
    /\ Grown(o)
    /\ o \notin scanned
    /\ scanned' = scanned \cup {o}
    /\ ovec' = Append(ovec, o)
    /\ UNCHANGED <<rset, rcount, joined>>

LEMMA PushFacts ==
    ASSUME TypeOK, Visited, NEW o \in Objs, Push(o)
    PROVE  /\ ovec' \in Seq(Objs) /\ Len(ovec) \in Nat /\ Len(ovec) # 0
           /\ DOMAIN ovec = 1 .. Len(ovec)
           /\ DOMAIN ovec' = 1 .. Len(ovec) + 1
           /\ \A i \in DOMAIN ovec : ovec'[i] = ovec[i]
           /\ ovec'[Len(ovec) + 1] = o
           /\ Top = ovec[Len(ovec)] /\ Top \in Objs /\ Top \in scanned
           /\ refs'[Top][o] = 1
           /\ \A i \in DOMAIN ovec' : i \in DOMAIN ovec \/ i = Len(ovec) + 1
<1>1. Grown(o) /\ ovec' = Append(ovec, o) /\ ovec \in Seq(Objs)
    BY DEF Push, TypeOK
<1>2. Len(ovec) \in Nat /\ Len(ovec) # 0 /\ Top \in Objs /\ DOMAIN ovec = 1 .. Len(ovec)
    BY <1>1, PathFacts DEF Grown
<1>3. /\ ovec' \in Seq(Objs) /\ DOMAIN ovec' = 1 .. Len(ovec) + 1
      /\ \A i \in DOMAIN ovec : ovec'[i] = ovec[i]
      /\ ovec'[Len(ovec) + 1] = o
    BY <1>1, <1>2
<1>4. Top \in scanned /\ Top = ovec[Len(ovec)]
    BY <1>2 DEF Visited, Top
<1>5. refs[Top][o] = 0
    BY <1>2, Fresh DEF Push
<1>6. refs'[Top][o] = refs[Top][o] + 1
    BY <1>1, <1>2 DEF Grown
<1>7. \A i \in DOMAIN ovec' : i \in DOMAIN ovec \/ i = Len(ovec) + 1
    BY <1>2, <1>3
<1> QED
    BY <1>2, <1>3, <1>4, <1>5, <1>6, <1>7

LEMMA PushVisited ==
    ASSUME TypeOK, Visited, Intervals, NEW o \in Objs, Push(o)
    PROVE  Visited' /\ Intervals'
<1>1. /\ Grown(o) /\ o \notin scanned /\ scanned' = scanned \cup {o} /\ rset' = rset
      /\ scanned \subseteq scanned'
    BY DEF Push
<1>2. ASSUME NEW i \in DOMAIN ovec', NEW j \in DOMAIN ovec', ovec'[i] = ovec'[j] PROVE i = j
    <2>1. CASE i \in DOMAIN ovec /\ j \in DOMAIN ovec
        BY <1>2, <2>1, PushFacts DEF Visited
    <2>2. CASE i \notin DOMAIN ovec \/ j \notin DOMAIN ovec
        BY <1>1, <1>2, <2>2, PushFacts, Fresh
    <2> QED
        BY <2>1, <2>2
<1>3. ASSUME NEW i \in DOMAIN ovec', i + 1 \in DOMAIN ovec'
      PROVE  refs'[ovec'[i]][ovec'[i + 1]] > 0
    <2>1. CASE i = Len(ovec)
        BY <1>3, <2>1, PushFacts
    <2>2. CASE i # Len(ovec)
        <3>1. i \in DOMAIN ovec /\ i + 1 \in DOMAIN ovec
            BY <1>3, <2>2, PushFacts
        <3>2. /\ ovec'[i] = ovec[i] /\ ovec'[i + 1] = ovec[i + 1]
              /\ ovec[i] \in Objs /\ ovec[i + 1] \in Objs
            BY <3>1, PushFacts, PathFacts
        <3>3. refs[ovec[i]][ovec[i + 1]] > 0
            BY <3>1 DEF Visited
        <3>4. refs'[ovec[i]][ovec[i + 1]] > 0
            BY <1>1, <3>2, <3>3, GrownRefs, ZenonT(40)
        <3> QED
            BY <3>2, <3>4
    <2> QED
        BY <2>1, <2>2
<1>4. ASSUME NEW i \in DOMAIN ovec' PROVE ovec'[i] \in scanned'
    BY <1>1, PushFacts DEF Visited
<1>5. ASSUME NEW x \in Objs, NEW y \in Objs, refs'[x][y] > 0
      PROVE  x \in scanned' /\ y \in scanned'
    <2>1. refs[x][y] > 0 \/ (x = Top /\ y = o)
        BY <1>1, <1>5, GrownRefs, Zenon
    <2> QED
        BY <1>1, <2>1, PushFacts DEF Visited
<1>6. ASSUME NEW x \in Objs, rset'[x] # None PROVE x \in scanned' /\ rset'[rset'[x]] # None
    BY <1>1, <1>6 DEF Visited
<1>7. Visited'
    BY <1>2, <1>3, <1>4, <1>5, <1>6, Zenon DEF Visited
<1>8. ASSUME NEW i \in DOMAIN ovec', NEW j \in DOMAIN ovec', Together(ovec[i], ovec[j])',
             NEW m \in i .. j
      PROVE  Together(ovec[i], ovec[m])'
    <2>1. Together(ovec'[i], ovec'[j])
        BY <1>1, <1>8 DEF Together
    <2>2. i \in DOMAIN ovec /\ j \in DOMAIN ovec
        BY <1>1, <2>1, PushFacts, Fresh
    <2>3. m \in DOMAIN ovec
        BY <2>2, PushFacts
    <2>4. ovec'[i] = ovec[i] /\ ovec'[j] = ovec[j] /\ ovec'[m] = ovec[m]
        BY <2>2, <2>3, PushFacts
    <2>5. Together(ovec[i], ovec[m])
        BY <2>1, <2>2, <2>4 DEF Intervals
    <2> QED
        BY <1>1, <2>4, <2>5 DEF Together
<1>9. Intervals'
    BY <1>8, Zenon DEF Intervals
<1> QED
    BY <1>7, <1>9


LEMMA PushSound ==
    ASSUME TypeOK, Visited, Sound, NEW o \in Objs, Push(o)
    PROVE  Sound'
<1>1. Grown(o) /\ o \notin scanned /\ rset' = rset
    BY DEF Push
<1>2. ASSUME NEW x, NEW y, LeadsIn(refs, x, y) PROVE LeadsIn(refs', x, y)
    BY <1>1, <1>2, GrownLeads
<1>3. ASSUME NEW i \in DOMAIN ovec', NEW j \in DOMAIN ovec', i <= j
      PROVE  LeadsIn(refs', ovec'[i], ovec'[j])
    <2>1. CASE j \in DOMAIN ovec
        <3>1. i \in DOMAIN ovec
            BY <1>3, <2>1, PushFacts
        <3>2. ovec'[i] = ovec[i] /\ ovec'[j] = ovec[j] /\ LeadsIn(refs, ovec[i], ovec[j])
            BY <1>3, <2>1, <3>1, PushFacts DEF Sound
        <3> QED
            BY <1>2, <3>2
    <2>2. CASE i \in DOMAIN ovec /\ j \notin DOMAIN ovec
        <3>1. /\ j = Len(ovec) + 1 /\ ovec'[j] = o /\ ovec'[i] = ovec[i]
              /\ Len(ovec) \in DOMAIN ovec /\ i <= Len(ovec)
            BY <2>2, PushFacts
        <3>2. LeadsIn(refs, ovec[i], Top)
            BY <2>2, <3>1, PushFacts DEF Sound
        <3>3. LeadsIn(refs', Top, o)
            <4>1. refs'[Top][o] > 0
                BY PushFacts
            <4> QED
                BY <4>1, LeadsEdge, Zenon
        <3> QED
            BY <1>2, <3>1, <3>2, <3>3, LeadsTrans, Zenon
    <2>3. CASE i \notin DOMAIN ovec /\ j \notin DOMAIN ovec
        BY <2>3, PushFacts, LeadsRefl
    <2> QED
        BY <1>3, <2>1, <2>2, <2>3, PushFacts
<1>4. ASSUME NEW x \in Objs, NEW y \in Objs, Together(x, y)' PROVE LeadsIn(refs', x, y)
    BY <1>1, <1>2, <1>4 DEF Sound, Together
<1>5. ASSUME NEW x \in Objs, rset'[x] # None
      PROVE  \E q \in Objs : refs'[x][q] > 0 /\ LeadsIn(refs', q, x)
    <2>1. PICK q \in Objs : refs[x][q] > 0 /\ LeadsIn(refs, q, x)
        BY <1>1, <1>5 DEF Sound
    <2>2. refs'[x][q] > 0
        BY <1>1, <2>1, GrownRefs, Zenon
    <2> QED
        BY <1>2, <2>1, <2>2
<1> QED
    BY <1>3, <1>4, <1>5, Zenon DEF Sound

\* A new object on the path is reached by the reference the path goes on by.
LEMMA PushEdges ==
    ASSUME TypeOK, Visited, Edges, Loops, Layers, NEW o \in Objs, Push(o)
    PROVE  Edges' /\ Loops' /\ Layers'
<1>1. /\ Grown(o) /\ o \notin scanned /\ scanned' = scanned \cup {o} /\ rset' = rset
      /\ Top \notin Settled /\ Top # o
    BY TopPending, PushFacts DEF Push, Grown
<1>2. Settled' = Settled /\ Settled \subseteq Objs
    <2>1. ASSUME NEW x \in scanned PROVE Pending(x)' <=> Pending(x)
        <3>1. ASSUME NEW y PROVE ~Same(x, o) /\ (Same(x, y)' <=> Same(x, y))
            BY <1>1, Fresh DEF Same, Together
        <3>2. Pending(x)' <=> \E i \in DOMAIN ovec' : Same(x, ovec'[i])
            BY <1>1 DEF Pending, Same, Together
        <3> QED
            BY <3>1, <3>2, PushFacts DEF Pending
    <2>2. Pending(o)'
        BY PushFacts DEF Pending, Same
    <2> QED
        BY <1>1, <2>1, <2>2 DEF Settled, TypeOK
<1>3. ASSUME NEW x \in Objs, NEW y \in Objs, refs'[x][y] > 0
      PROVE  \/ y \in Settled'
             \/ /\ x \notin Settled'
                /\ \/ Together(x, y)'
                   \/ /\ refs'[x][y] = 1
                      /\ \E i \in DOMAIN ovec' :
                            i + 1 \in DOMAIN ovec' /\ x = ovec'[i] /\ y = ovec'[i + 1]
    <2>1. CASE x = Top /\ y = o
        <3>1. /\ Len(ovec) \in DOMAIN ovec' /\ Len(ovec) + 1 \in DOMAIN ovec'
              /\ ovec'[Len(ovec)] = Top /\ ovec'[Len(ovec) + 1] = o
            BY PushFacts
        <3> QED
            BY <1>1, <1>2, <2>1, <3>1, PushFacts, Zenon
    <2>2. CASE ~(x = Top /\ y = o)
        <3>1. refs[x][y] > 0 /\ refs'[x][y] = refs[x][y]
            BY <1>1, <1>3, <2>2, GrownRefs, ZenonT(40)
        <3>2. CASE y \in Settled \/ (x \notin Settled /\ Together(x, y))
            BY <1>1, <1>2, <3>2 DEF Together
        <3>3. CASE /\ x \notin Settled /\ refs[x][y] = 1
                   /\ \E i \in DOMAIN ovec :
                         i + 1 \in DOMAIN ovec /\ x = ovec[i] /\ y = ovec[i + 1]
            <4>1. PICK i \in DOMAIN ovec :
                      i + 1 \in DOMAIN ovec /\ x = ovec[i] /\ y = ovec[i + 1]
                BY <3>3
            <4>2. /\ i \in DOMAIN ovec' /\ i + 1 \in DOMAIN ovec'
                  /\ x = ovec'[i] /\ y = ovec'[i + 1]
                BY <4>1, PushFacts
            <4> QED
                BY <1>2, <3>1, <3>3, <4>2
        <3> QED
            BY <3>1, <3>2, <3>3 DEF Edges
    <2> QED
        BY <2>1, <2>2
<1>4. Edges'
    BY <1>3, Zenon DEF Edges
<1>5. ASSUME NEW x \in Objs, refs'[x][x] > 0 PROVE rset'[x] # None
    <2>1. refs[x][x] > 0
        BY <1>1, <1>5, GrownRefs, Zenon
    <2> QED
        BY <1>1, <2>1 DEF Loops
<1>6. Loops'
    BY <1>5, Zenon DEF Loops
<1>7. ASSUME NEW x \in Settled PROVE \E s \in SUBSET Settled : Layer(refs, x, s)'
    <2>1. Component(x)' = Component(x)
        BY <1>1 DEF Component, Same, Together
    <2> QED
        BY <1>1, <2>1, LayerKept DEF Layers
<1>8. Layers'
    BY <1>2, <1>7, Zenon DEF Layers
<1> QED
    BY <1>4, <1>6, <1>8

LEMMA PushInv ==
    ASSUME IInv, NEW o \in Objs, Push(o)
    PROVE  IInv'
<1>1. TypeOK'
    BY PushFacts, Zenon DEF IInv, TypeOK, Push, Grown
<1>2. Counts'
    BY Fresh, OutsideCounts DEF IInv, Push
<1> QED
    BY <1>1, <1>2, PushVisited, PushSound, PushEdges DEF IInv

LEMMA FirstVisitInv ==
    ASSUME IInv, NEW o \in Objs, FirstVisit(o)
    PROVE  IInv'
<1>1. Grown(o)
    BY FollowGrows DEF FirstVisit, IInv
<1>2. Leaf(o) \/ Push(o)
    BY <1>1 DEF FirstVisit, Leaf, Push
<1> QED
    BY <1>2, LeafInv, PushInv


LEMMA LeaveFacts ==
    ASSUME TypeOK, Leave
    PROVE  /\ ovec' \in Seq(Objs) /\ Len(ovec) \in Nat /\ Len(ovec) # 0
           /\ DOMAIN ovec = 1 .. Len(ovec)
           /\ DOMAIN ovec' = 1 .. Len(ovec) - 1
           /\ \A i \in DOMAIN ovec' : i \in DOMAIN ovec /\ i < Len(ovec) /\ ovec'[i] = ovec[i]
           /\ \A i \in DOMAIN ovec : i # Len(ovec) => i \in DOMAIN ovec'
           /\ Top = ovec[Len(ovec)] /\ Top \in Objs
<1>1. ovec # <<>> /\ ovec \in Seq(Objs) /\ ovec' = SubSeq(ovec, 1, Len(ovec) - 1)
    BY DEF TypeOK, Leave
<1>2. Len(ovec) \in Nat /\ Len(ovec) # 0 /\ DOMAIN ovec = 1 .. Len(ovec) /\ Top \in Objs
    BY <1>1, PathFacts
<1>3. /\ ovec' \in Seq(Objs) /\ DOMAIN ovec' = 1 .. Len(ovec) - 1
      /\ \A i \in 1 .. Len(ovec) - 1 : ovec'[i] = ovec[i]
    BY <1>1, <1>2
<1> QED
    BY <1>2, <1>3 DEF Top

\* Leaving an object shortens the path at its end.
LEMMA LeavePath ==
    ASSUME TypeOK, Visited, Intervals, Sound, Leave
    PROVE  Visited' /\ Intervals' /\ Sound'
<1>1. scanned' = scanned /\ rset' = rset /\ refs' = refs
    BY DEF Leave
<1>2. ASSUME NEW i \in DOMAIN ovec', i + 1 \in DOMAIN ovec'
      PROVE  refs[ovec'[i]][ovec'[i + 1]] > 0
    BY <1>2, LeaveFacts DEF Visited
<1>3. ASSUME NEW i \in DOMAIN ovec', NEW j \in DOMAIN ovec', ovec'[i] = ovec'[j] PROVE i = j
    BY <1>3, LeaveFacts DEF Visited
<1>4. ASSUME NEW i \in DOMAIN ovec' PROVE ovec'[i] \in scanned
    BY LeaveFacts DEF Visited
<1>5. Visited'
    BY <1>1, <1>2, <1>3, <1>4 DEF Visited
<1>6. ASSUME NEW i \in DOMAIN ovec', NEW j \in DOMAIN ovec', Together(ovec[i], ovec[j])',
             NEW m \in i .. j
      PROVE  Together(ovec[i], ovec[m])'
    <2>1. m \in DOMAIN ovec'
        BY LeaveFacts
    <2>2. /\ i \in DOMAIN ovec /\ j \in DOMAIN ovec
          /\ ovec'[i] = ovec[i] /\ ovec'[j] = ovec[j] /\ ovec'[m] = ovec[m]
        BY <2>1, LeaveFacts
    <2>3. Together(ovec[i], ovec[m])
        BY <1>1, <1>6, <2>2 DEF Intervals, Together
    <2> QED
        BY <1>1, <2>2, <2>3 DEF Together
<1>7. Intervals'
    BY <1>6, Zenon DEF Intervals
<1>8. ASSUME NEW i \in DOMAIN ovec', NEW j \in DOMAIN ovec', i <= j
      PROVE  LeadsIn(refs, ovec'[i], ovec'[j])
    BY <1>8, LeaveFacts DEF Sound
<1>9. Sound'
    BY <1>1, <1>8 DEF Sound, Together
<1> QED
    BY <1>5, <1>7, <1>9

\* If the object left was the last of its set on the path, the set is settled:
\* its layer is the settled objects, those of the set included.
LEMMA LeaveEdges ==
    ASSUME TypeOK, Visited, Intervals, Edges, Loops, Layers, Leave
    PROVE  Edges' /\ Loops' /\ Layers'
<1>1. scanned' = scanned /\ rset' = rset /\ refs' = refs /\ scanned \subseteq Objs
    BY DEF Leave, TypeOK
<1>2. ASSUME NEW x PROVE Pending(x)' <=> \E i \in DOMAIN ovec' : Same(x, ovec[i])
    BY <1>1, LeaveFacts DEF Pending, Same, Together
<1>3. ASSUME NEW x, Pending(x)' PROVE Pending(x)
    BY <1>2, <1>3, LeaveFacts DEF Pending
<1>4. Settled \subseteq Settled' /\ Settled' \subseteq Objs
    BY <1>1, <1>3 DEF Settled
<1>5. ASSUME NEW x, NEW y, Together(x, y), Pending(y)' PROVE Pending(x)'
    BY <1>2, <1>5 DEF Same, Together
<1>6. ASSUME NEW x, Pending(x), ~Pending(x)' PROVE Same(x, Top)
    BY <1>2, <1>6, LeaveFacts DEF Pending
<1>7. ASSUME NEW x \in Objs, NEW y \in Objs, refs[x][y] > 0
      PROVE  \/ y \in Settled'
             \/ /\ x \notin Settled'
                /\ \/ Together(x, y)
                   \/ /\ refs[x][y] = 1
                      /\ \E i \in DOMAIN ovec' :
                            i + 1 \in DOMAIN ovec' /\ x = ovec'[i] /\ y = ovec'[i + 1]
    <2>1. CASE y \in Settled
        BY <1>4, <2>1
    <2>2. CASE Together(x, y)
        <3>1. x \in scanned /\ y \in scanned
            BY <1>7 DEF Visited
        <3> QED
            BY <1>1, <1>5, <2>2, <3>1 DEF Settled
    <2>3. ASSUME NEW i \in DOMAIN ovec, i + 1 \in DOMAIN ovec, x = ovec[i], y = ovec[i + 1],
                 refs[x][y] = 1, y \notin Settled'
          PROVE  /\ x \notin Settled'
                 /\ \/ Together(x, y)
                    \/ \E j \in DOMAIN ovec' :
                          j + 1 \in DOMAIN ovec' /\ x = ovec'[j] /\ y = ovec'[j + 1]
        <3>1. i \in DOMAIN ovec' /\ ovec'[i] = ovec[i]
            BY <2>3, LeaveFacts
        <3>2. x \notin Settled'
            <4>1. Pending(x)'
                BY <1>2, <2>3, <3>1 DEF Same
            <4> QED
                BY <4>1 DEF Settled
        <3>3. CASE i + 1 # Len(ovec)
            <4>1. i + 1 \in DOMAIN ovec' /\ ovec'[i + 1] = ovec[i + 1]
                BY <2>3, <3>3, LeaveFacts
            <4> QED
                BY <2>3, <3>1, <3>2, <4>1
        <3>4. CASE i + 1 = Len(ovec)
            <4>1. Pending(y)'
                BY <1>1, <1>7, <2>3 DEF Settled, Visited
            <4>2. PICK l \in DOMAIN ovec' : Same(y, ovec[l])
                BY <1>2, <4>1
            <4>3. l \in DOMAIN ovec /\ l # i + 1 /\ i \in l .. i + 1
                BY <2>3, <3>4, <4>2, LeaveFacts
            <4>4. Together(ovec[l], ovec[i + 1])
                BY <2>3, <4>2, <4>3 DEF Same, Visited, Together
            <4>5. Together(ovec[l], ovec[i])
                BY <2>3, <4>3, <4>4 DEF Intervals
            <4> QED
                BY <2>3, <3>2, <4>4, <4>5 DEF Together
        <3> QED
            BY <3>3, <3>4
    <2> QED
        BY <1>7, <2>1, <2>2, <2>3 DEF Edges
<1>8. Edges'
    BY <1>1, <1>7 DEF Edges, Together
<1>9. Loops'
    BY <1>1 DEF Loops
<1>10. ASSUME NEW x PROVE Component(x)' = Component(x)
    BY <1>1 DEF Component, Same, Together
<1>11. ASSUME NEW x \in Settled PROVE \E s \in SUBSET Settled' : Layer(refs, x, s)'
    <2>1. PICK s \in SUBSET Settled : Layer(refs, x, s)
        BY DEF Layers
    <2>2. Layer(refs, x, s)'
        BY <1>1, <1>10, <2>1, Zenon DEF Layer
    <2> QED
        BY <1>4, <2>2
<1>12. ASSUME NEW x \in Settled', x \notin Settled PROVE Layer(refs, x, Settled)'
    <2>1. Pending(x) /\ ~Pending(x)' /\ Same(x, Top)
        BY <1>1, <1>6, <1>12 DEF Settled
    <2>2. ASSUME NEW a \in Settled', NEW b \in Objs, refs[a][b] > 0 PROVE b \in Settled'
        BY <1>4, <1>7, <2>2
    <2>3. ASSUME NEW a \in Settled', a \notin Component(x) PROVE a \in Settled
        <3>1. ASSUME a \notin Settled PROVE Same(a, Top)
            BY <1>1, <1>6, <3>1 DEF Settled
        <3> QED
            BY <1>4, <2>1, <2>3, <3>1 DEF Component, Same, Together
    <2>4. ASSUME NEW b \in Settled PROVE b \notin Component(x)
        BY <2>1 DEF Settled, Pending, Component, Same, Together
    <2>5. ASSUME NEW a \in Settled' \ Component(x), NEW b \in Objs, refs[a][b] > 0
          PROVE  b \in Settled' \ Component(x)
        <3>1. a \in Settled
            BY <2>3
        <3>2. b \in Settled
            BY <1>4, <2>5, <3>1 DEF Edges
        <3> QED
            BY <1>4, <2>4, <3>2
    <2> QED
        BY <1>1, <1>10, <2>2, <2>5, Zenon DEF Layer
<1>13. Layers'
    <2>1. ASSUME NEW x \in Settled' PROVE \E s \in SUBSET Settled' : Layer(refs, x, s)'
        <3>1. CASE x \in Settled
            BY <1>11, <3>1
        <3>2. CASE x \notin Settled
            <4>1. PICK s : s = Settled'
                OBVIOUS
            <4>2. Layer(refs, x, s)'
                BY <1>12, <3>2, <4>1, Zenon DEF Layer
            <4> QED
                BY <4>1, <4>2
        <3> QED
            BY <3>1, <3>2
    <2> QED
        BY <2>1, Zenon DEF Layers
<1> QED
    BY <1>8, <1>9, <1>13

LEMMA LeaveInv ==
    ASSUME IInv, Leave
    PROVE  IInv'
<1>1. TypeOK'
    BY LeaveFacts, SMTT(30) DEF IInv, TypeOK, Leave
<1>2. Counts'
    BY Zenon DEF IInv, Counts, SetRefs, References, Together, Leave
<1> QED
    BY <1>1, <1>2, LeavePath, LeaveEdges DEF IInv


LEMMA InitInv == Init => IInv
<1> SUFFICES ASSUME Init PROVE IInv
    OBVIOUS
<1>1. PICK root \in Objs :
          /\ refs = [o \in Objs |-> [p \in Objs |-> 0]]
          /\ scanned = {root}
          /\ rset = [o \in Objs |-> None]
          /\ rcount = [o \in Objs |-> 0]
          /\ ovec = <<root>>
          /\ joined = FALSE
    BY DEF Init
<1>2. TypeOK
    <2>1. [p \in Objs |-> 0] \in [Objs -> Nat]
        OBVIOUS
    <2>2. refs \in [Objs -> [Objs -> Nat]]
        BY <1>1, <2>1
    <2>3. ovec \in Seq(Objs)
        BY <1>1
    <2>4. rset \in [Objs -> Objs \cup {None}] /\ rcount \in [Objs -> Nat]
        BY <1>1
    <2>5. scanned \subseteq Objs /\ joined \in BOOLEAN
        BY <1>1, Zenon
    <2> QED
        BY <2>2, <2>3, <2>4, <2>5 DEF TypeOK
<1>3. /\ DOMAIN ovec = {1} /\ ovec[1] = root /\ Len(ovec) = 1
      /\ \A x, y \in Objs : refs[x][y] = 0
      /\ \A x \in Objs : rset[x] = None
    BY <1>1
<1>4. Visited /\ Intervals
    BY <1>1, <1>3 DEF Visited, Intervals, Together
<1>5. Sound
    BY <1>3, LeadsRefl DEF Sound, Together
<1>6. Settled = {}
    BY <1>1, <1>3 DEF Settled, Pending, Same
<1>7. Edges /\ Loops /\ Layers
    BY <1>3, <1>6 DEF Edges, Loops, Layers
<1>8. ASSUME NEW x \in Objs PROVE References(x) = {}
    <2>1. ASSUME NEW r \in References(x) PROVE FALSE
        <3>1. r \in Objs \X Nat /\ r[2] > 0 /\ r[2] <= refs[r[1]][x]
            BY <1>2, ReferenceMember
        <3>2. r[1] \in Objs /\ r[2] \in Nat
            BY <3>1
        <3> QED
            BY <1>3, <3>1, <3>2
    <2> QED
        BY <2>1
<1>9. Counts
    BY <1>1, <1>8, FS_EmptySet, SMTT(30) DEF Counts, SetRefs
<1> QED
    BY <1>2, <1>4, <1>5, <1>7, <1>9 DEF IInv

LEMMA NextInv == IInv /\ [Next]_vars => IInv'
<1> SUFFICES ASSUME IInv, [Next]_vars PROVE IInv'
    OBVIOUS
<1>1. CASE Leave
    BY <1>1, LeaveInv
<1>2. ASSUME NEW o \in Objs, FirstVisit(o) PROVE IInv'
    BY <1>2, FirstVisitInv
<1>3. ASSUME NEW o \in Objs, CloseCycle(o) PROVE IInv'
    BY <1>3, CloseInv
<1>4. ASSUME NEW o \in Objs, SameSet(o) PROVE IInv'
    BY <1>4, SameSetInv
<1>5. ASSUME NEW o \in Objs, makeChain(o) PROVE IInv'
    BY <1>5, ChainInv
<1>6. ASSUME NEW o \in Objs, PassBy(o) PROVE IInv'
    BY <1>6, PassByInv
<1>7. CASE UNCHANGED vars
    <2>1. /\ refs' = refs /\ scanned' = scanned /\ rset' = rset /\ rcount' = rcount
          /\ ovec' = ovec /\ joined' = joined
        BY <1>7, SMTT(30) DEF vars
    <2>2. TypeOK' /\ Visited' /\ Intervals' /\ Sound' /\ Loops'
        BY <2>1, SMTT(30) DEF IInv, TypeOK, Visited, Intervals, Sound, Loops, Together
    <2>3. Settled' = Settled
        BY <2>1 DEF Settled, Pending, Same, Together
    <2>4. Edges'
        BY <2>1, <2>3 DEF IInv, Edges, Together
    <2>5. Layers'
        <3>1. ASSUME NEW x, NEW t, Layer(refs, x, t) PROVE Layer(refs, x, t)'
            <4>1. Component(x)' = Component(x)
                BY <2>1 DEF Component, Same, Together
            <4> QED
                BY <2>1, <3>1, <4>1, Zenon DEF Layer
        <3>2. Layers
            BY DEF IInv
        <3> QED
            BY <2>3, <3>1, <3>2, Zenon DEF Layers
    <2>6. Counts'
        BY <2>1, ZenonT(40) DEF IInv, Counts, SetRefs, References, Together
    <2> QED
        BY <2>2, <2>4, <2>5, <2>6 DEF IInv
<1> QED
    BY <1>1, <1>2, <1>3, <1>4, <1>5, <1>6, <1>7 DEF Next

(* The inductive invariant of the scan: which sets and references the path,  *)
(* what is pending and what is settled allow.                                *)
THEOREM ScanInvariance == Spec => []IInv
BY InitInv, NextInv, PTL DEF Spec

-----------------------------------------------------------------------------
(* The properties *)

\* The two ways to say that one object leads to another agree.
LEMMA LeadsPair ==
    ASSUME NEW x \in Objs, NEW y \in Objs
    PROVE  <<x, y>> \in Leads <=> LeadsIn(refs, x, y)
<1> DEFINE e == <<x, y>>
<1>1. e \in Objs \X Objs /\ e[1] = x /\ e[2] = y
    OBVIOUS
<1>2. e \in Leads <=> \A s \in {s \in SUBSET Objs : Closed(s)} : e[1] \in s => e[2] \in s
    <2> HIDE DEF e
    <2> QED
        BY <1>1 DEF Leads
<1> QED
    BY <1>1, <1>2, Zenon DEF Closed, LeadsIn

\* each of two objects leads to the other, by at least one reference
Mutual(o, p) ==
    \E q \in Objs : refs[o][q] > 0 /\ LeadsIn(refs, q, p) /\ LeadsIn(refs, p, o)

(* Objects that lead to each other are together when the walk has ended.    *)
LEMMA MutualTogether ==
    ASSUME IInv, ovec = <<>>, NEW o \in Objs, NEW p \in Objs, Mutual(o, p)
    PROVE  Together(o, p)
<1>1. PICK q \in Objs : refs[o][q] > 0 /\ LeadsIn(refs, q, p) /\ LeadsIn(refs, p, o)
    BY DEF Mutual
<1>2. o \in Settled
    BY <1>1 DEF IInv, Visited, Settled, Pending
<1>3. PICK s \in SUBSET Settled : Layer(refs, o, s)
    BY <1>2 DEF IInv, Layers
<1>4. s \in SUBSET Objs /\ s \ Component(o) \in SUBSET Objs
    BY DEF IInv, TypeOK, Settled
<1>5. q \in s /\ p \in s
    <2>1. q \in s
        BY <1>1, <1>3, Zenon DEF Layer
    <2> QED
        BY <1>1, <1>3, <1>4, <2>1, Zenon DEF Layer, LeadsIn
<1>6. ASSUME NEW z \in s \ Component(o), LeadsIn(refs, z, o) PROVE FALSE
    <2>1. o \in s \ Component(o)
        <3> DEFINE c == s \ Component(o)
        <3>1. c \in SUBSET Objs /\ z \in c /\ \A a \in c, b \in Objs : refs[a][b] > 0 => b \in c
            BY <1>3, <1>4, Zenon DEF Layer
        <3> HIDE DEF c
        <3>2. o \in c
            BY <1>6, <3>1, Zenon DEF LeadsIn
        <3> QED
            BY <3>2 DEF c
    <2> QED
        BY <2>1 DEF Component, Same
<1>7. Same(o, p) /\ Same(o, q)
    <2>1. LeadsIn(refs, q, o)
        BY <1>1, LeadsTrans, Zenon
    <2> QED
        BY <1>1, <1>5, <1>6, <2>1, Zenon DEF Component
<1>8. CASE q = o
    <2>1. rset[o] # None
        BY <1>1, <1>8 DEF IInv, Loops
    <2> QED
        BY <1>7, <2>1 DEF Same, Together
<1>9. CASE q # o
    BY <1>7, <1>9 DEF Same, Together
<1> QED
    BY <1>8, <1>9

LEMMA CyclesImplied == IInv => SetsAreCycles
<1> SUFFICES ASSUME IInv PROVE SetsAreCycles
    OBVIOUS
<1>1. ASSUME NEW o \in Objs, NEW p \in Objs
      PROVE  Mutual(o, p) <=> \E q \in Objs : refs[o][q] > 0 /\ <<q, p>> \in Leads /\ <<p, o>> \in Leads
    BY LeadsPair, Zenon DEF Mutual
<1>2. ASSUME NEW o \in Objs, NEW p \in Objs, Together(o, p) PROVE Mutual(o, p)
    <2>1. LeadsIn(refs, o, p) /\ LeadsIn(refs, p, o)
        BY <1>2 DEF IInv, Sound, Together
    <2>2. PICK q \in Objs : refs[o][q] > 0 /\ LeadsIn(refs, q, o)
        BY <1>2 DEF IInv, Sound, Together
    <2> QED
        BY <2>1, <2>2, LeadsTrans, Zenon DEF Mutual
<1>3. ASSUME Done, NEW o \in Objs, NEW p \in Objs, Mutual(o, p) PROVE Together(o, p)
    BY <1>3, MutualTogether DEF Done
<1> QED
    BY <1>1, <1>2, <1>3, Zenon DEF SetsAreCycles, Together

LEMMA CountsImplied == IInv => CountsExact
<1> SUFFICES ASSUME IInv, NEW o \in Objs
             PROVE  /\ rcount[o] <= InnerRefs(o, Leads)
                    /\ Done /\ ~joined => rcount[o] = InnerRefs(o, Leads)
                    /\ rcount[o] <= Cardinality(References(o))
    BY Zenon DEF CountsExact
<1> DEFINE inner == {r \in References(o) : <<o, r[1]>> \in Leads}
<1>1. InnerRefs(o, Leads) = Cardinality(inner)
    BY DEF InnerRefs
<1>2. ASSUME NEW r \in References(o) PROVE r[1] \in Objs /\ refs[r[1]][o] > 0
    <2>1. r \in Objs \X Nat /\ r[2] > 0 /\ r[2] <= refs[r[1]][o]
        BY ReferenceMember DEF IInv
    <2>2. refs[r[1]] \in [Objs -> Nat]
        BY <2>1 DEF IInv, TypeOK
    <2>3. r[1] \in Objs /\ r[2] \in Nat /\ refs[r[1]][o] \in Nat
        BY <2>1, <2>2
    <2> QED
        BY <2>1, <2>3
<1>3. SetRefs(o) \subseteq inner
    BY <1>2, LeadsPair DEF IInv, Sound, SetRefs
<1>4. IsFiniteSet(inner) /\ IsFiniteSet(SetRefs(o))
    BY FS_Subset, Zenon DEF IInv, Counts, SetRefs
<1>5. Cardinality(SetRefs(o)) <= Cardinality(inner)
    BY <1>3, <1>4, FS_Subset, Zenon
<1>6. /\ rcount[o] \in Nat /\ Cardinality(inner) \in Nat /\ Cardinality(SetRefs(o)) \in Nat
      /\ rcount[o] <= Cardinality(SetRefs(o))
      /\ ~joined => rcount[o] = Cardinality(SetRefs(o))
    BY <1>4, FS_CardinalityType DEF IInv, TypeOK, Counts
<1>7. ASSUME Done PROVE SetRefs(o) = inner
    <2>1. ASSUME NEW r \in References(o), <<o, r[1]>> \in Leads PROVE Together(o, r[1])
        <3>1. LeadsIn(refs, o, r[1]) /\ LeadsIn(refs, o, o)
            BY <1>2, <2>1, LeadsPair, LeadsRefl
        <3>2. Mutual(r[1], o)
            BY <1>2, <3>1, Zenon DEF Mutual
        <3> QED
            BY <1>2, <1>7, <3>2, MutualTogether DEF Done, Together
    <2> QED
        BY <1>3, <2>1 DEF SetRefs
<1>8. Cardinality(inner) <= Cardinality(References(o)) /\ Cardinality(References(o)) \in Nat
    BY FS_Subset, FS_CardinalityType, Zenon DEF IInv, Counts
<1> HIDE DEF inner
<1> QED
    BY <1>1, <1>5, <1>6, <1>7, <1>8

(* At any time the objects of a set lead to each other, and when the walk    *)
(* has ended objects that lead to each other are in one set: checkIntern()   *)
(* and makeChain() find the cycles of every graph, whatever the order of the *)
(* members.                                                                  *)
THEOREM ScanSetsAreCycles == Spec => []SetsAreCycles
BY ScanInvariance, CyclesImplied, PTL

(* No count is higher than the references followed from inside the cycles,  *)
(* and unless two finished sets were joined it is their number when the walk *)
(* has ended.  A count is no higher than the references held, as             *)
(* checkIntern() and makeChain() assert, for an object none of whose         *)
(* references is in a list or hash that was followed for several members.    *)
THEOREM ScanCountsExact == Spec => []CountsExact
BY ScanInvariance, CountsImplied, PTL

=============================================================================
