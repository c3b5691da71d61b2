-------------------------- MODULE MapRecordsProofs --------------------------
(***************************************************************************)
(* Proofs about MapRecords, for any keys, hash function, walkers and       *)
(* bounds.                                                                 *)
(***************************************************************************)
EXTENDS MapRecords, FiniteSetTheorems, SequenceTheorems,
        WellFoundedInduction, TLAPS

\* The parts of the invariant are about a map m and walkers k, so that the
\* states in the middle of a step have them too.
MapType(m) ==
    /\ m \in [n : 0..MaxRecords, linked : SUBSET Nat, empty : SUBSET Nat,
              key : Seq(Keys \cup {Undefined}), ref : Seq(Nat), count : Nat,
              size : Nat, threshold : Nat, bad : BOOLEAN,
              table : [Buckets(m.size) -> SUBSET Nat] \cup {<<>>},
              el : 0..MaxRecords,
              state : {"live", "clearing", "lost", "dying", "freed"}]
    /\ Len(m.key) = m.n /\ Len(m.ref) = m.n
    /\ m.linked \cup m.empty \subseteq 1..m.n

WalkType(k) ==
    k \in [Walkers -> [at : {"unused", "new", "on", "done", "freed"},
                       cur : 0..MaxRecords, owner : 0..MaxRecords]]

\* Those who have come to a record have its number.
WalkInv(m, k) == \A w \in Walkers : IF k[w].at = "on" THEN k[w].cur \in 1..m.n
                                                      ELSE k[w].cur = 0

Locks(k, r) == {w \in Walkers : k[w].at = "on" /\ k[w].cur = r}
Own(m, r) == IF r \in Full(m) THEN 1 ELSE 0

\* The count of a record is right, and says whether it is in the list.
RefInv(m, k) ==
    \A r \in 1..m.n : /\ m.ref[r] = Own(m, r) + Cardinality(Locks(k, r))
                      /\ r \in m.linked <=> m.ref[r] > 0

\* The table holds the full records, each in the bucket of its key.
TableInv(m) ==
    /\ m.table \in [Buckets(m.size) -> SUBSET Nat]
    /\ \A b \in Buckets(m.size), r \in Nat :
          r \in m.table[b] <=> r \in Full(m) /\ Bucket(m.key[r], m.size) = b

Normal == {k \in Keys : map_normalize_key(k) = k}

\* The full records have different keys, and are counted.
KeyInv(m) ==
    /\ \A r \in Full(m) : m.key[r] \in Normal
    /\ \A r, s \in Full(m) : m.key[r] = m.key[s] => r = s
    /\ m.count = Cardinality(Full(m))

MapInv(m, k) ==
    /\ MapType(m)
    /\ WalkType(k)
    /\ WalkInv(m, k)
    /\ ~m.bad
    /\ m.state # "freed" => RefInv(m, k) /\ TableInv(m) /\ KeyInv(m)

-----------------------------------------------------------------------------
\* A set of natural numbers that is not empty has a least element.
LEMMA NatMin ==
    ASSUME NEW T \in SUBSET Nat, T # {}
    PROVE  \E x \in T : \A y \in T : x <= y
<1>1. \E R : /\ IsWellFoundedOn(R, Nat)
             /\ \A x, y \in Nat : <<y, x>> \in R <=> y < x
  <2>1. \A x, y \in Nat : <<y, x>> \in OpToRel(<, Nat) <=> y < x
    BY DEF OpToRel
  <2>2. QED
    BY <2>1, NatLessThanWellFounded
<1>2. PICK R : /\ IsWellFoundedOn(R, Nat)
               /\ \A x, y \in Nat : <<y, x>> \in R <=> y < x
  BY <1>1
<1>3. PICK x \in T : \A y \in T : <<y, x>> \notin R
  BY <1>2, WFMin
<1>4. ASSUME NEW y \in T PROVE x <= y
  <2>1. x \in Nat /\ y \in Nat
    OBVIOUS
  <2>2. <<y, x>> \notin R
    BY <1>3
  <2>3. ~(y < x)
    BY <1>2, <2>1, <2>2
  <2>4. QED
    BY <2>1, <2>3
<1>5. QED
  BY <1>4

\* The walkers at a record are finitely many.
LEMMA LocksFinite ==
    ASSUME NEW k, NEW r
    PROVE  /\ IsFiniteSet(Locks(k, r))
           /\ Cardinality(Locks(k, r)) \in Nat
           /\ Cardinality(Locks(k, r)) = 0 <=> Locks(k, r) = {}
<1>1. Locks(k, r) \in SUBSET Walkers
  BY DEF Locks
<1>2. IsFiniteSet(Locks(k, r))
  BY <1>1, MapAssumption, FS_Subset
<1>3. QED
  BY <1>2, FS_CardinalityType, FS_EmptySet

\* The locks when walker w leaves the record that it has come to.
LEMMA LocksLeave ==
    ASSUME NEW k, WalkType(k), NEW w \in Walkers, k[w].at = "on",
           NEW j, WalkType(j), j[w].at # "on",
           \A v \in Walkers \ {w} : j[v] = k[v],
           NEW r
    PROVE  Cardinality(Locks(j, r)) =
             IF r = k[w].cur THEN Cardinality(Locks(k, r)) - 1
                             ELSE Cardinality(Locks(k, r))
<1>1. Locks(j, r) = Locks(k, r) \ {w}
  BY DEF Locks
<1>2. w \in Locks(k, r) <=> r = k[w].cur
  BY DEF Locks
<1>3. QED
  BY <1>1, <1>2, LocksFinite, FS_RemoveElement

\* The locks when walker w comes to a record.
LEMMA LocksCome ==
    ASSUME NEW k, WalkType(k), NEW w \in Walkers, k[w].at # "on",
           NEW j, WalkType(j), j[w].at = "on",
           \A v \in Walkers \ {w} : j[v] = k[v],
           NEW r
    PROVE  Cardinality(Locks(j, r)) =
             IF r = j[w].cur THEN Cardinality(Locks(k, r)) + 1
                             ELSE Cardinality(Locks(k, r))
<1>1. CASE r = j[w].cur
  <2>1. Locks(j, r) = Locks(k, r) \cup {w} /\ w \notin Locks(k, r)
    BY <1>1 DEF Locks
  <2>2. QED
    BY <1>1, <2>1, LocksFinite, FS_AddElement
<1>2. CASE r # j[w].cur
  <2>1. Locks(j, r) = Locks(k, r)
    BY <1>2 DEF Locks
  <2>2. QED
    BY <1>2, <2>1
<1>3. QED
  BY <1>1, <1>2

\* map_decref_record, field by field.
LEMMA DecrefFields ==
    ASSUME NEW m, MapType(m), NEW r \in 1..m.n,
           m.ref[r] > 0
    PROVE  LET g == map_decref_record(m, r)
           IN  /\ MapType(g)
               /\ g.n = m.n /\ g.key = m.key /\ g.empty = m.empty
               /\ g.count = m.count /\ g.size = m.size /\ g.table = m.table
               /\ g.threshold = m.threshold /\ g.state = m.state
               /\ g.el = m.el
               /\ g.ref = [m.ref EXCEPT ![r] = @ - 1]
               /\ g.linked = IF m.ref[r] = 1 THEN m.linked \ {r} ELSE m.linked
               /\ g.bad = (m.bad \/ r \notin m.linked
                              \/ (m.ref[r] = 1 /\ r \notin m.empty))
<1> DEFINE e == [m.ref EXCEPT ![r] = @ - 1]
<1>1. m.ref \in Seq(Nat) /\ r \in 1..Len(m.ref) /\ m.ref[r] \in Nat
  BY DEF MapType
<1>2. e \in Seq(Nat) /\ Len(e) = Len(m.ref) /\ e[r] = m.ref[r] - 1
  BY <1>1
<1> DEFINE g == map_decref_record(m, r)
<1>3. /\ g.n = m.n /\ g.key = m.key /\ g.empty = m.empty
      /\ g.count = m.count /\ g.size = m.size /\ g.table = m.table
      /\ g.threshold = m.threshold /\ g.state = m.state
      /\ g.el = m.el
      /\ g.ref = e
      /\ g.linked = IF m.ref[r] = 1 THEN m.linked \ {r} ELSE m.linked
      /\ g.bad = (m.bad \/ r \notin m.linked
                      \/ (m.ref[r] = 1 /\ r \notin m.empty))
  <2> DEFINE h == [m EXCEPT !.ref[r] = @ - 1, !.bad = @ \/ r \notin m.linked]
  <2>1. /\ h.n = m.n /\ h.key = m.key /\ h.empty = m.empty
        /\ h.count = m.count /\ h.size = m.size /\ h.table = m.table
        /\ h.threshold = m.threshold /\ h.state = m.state
        /\ h.linked = m.linked /\ h.el = m.el
        /\ h.ref = e
    BY <1>1 DEF MapType
  <2>2. h.bad = (m.bad \/ r \notin m.linked)
    BY <1>1 DEF MapType
  <2>3. h \in [n : 0..MaxRecords, linked : SUBSET Nat, empty : SUBSET Nat,
              key : Seq(Keys \cup {Undefined}), ref : Seq(Nat), count : Nat,
              size : Nat, threshold : Nat, bad : BOOLEAN,
              table : [Buckets(m.size) -> SUBSET Nat] \cup {<<>>},
              el : 0..MaxRecords,
              state : {"live", "clearing", "lost", "dying", "freed"}]
    BY <1>1, <1>2 DEF MapType
  <2>4. CASE m.ref[r] = 1
    <3>1. g = [h EXCEPT !.linked = @ \ {r}, !.bad = @ \/ r \notin m.empty]
      BY <2>1, <2>4, <1>2 DEF map_decref_record
    <3>2. QED
      BY <3>1, <2>1, <2>2, <2>3, <2>4
  <2>5. CASE m.ref[r] # 1
    <3>1. g = h
      BY <2>1, <2>5, <1>1, <1>2 DEF map_decref_record
    <3>2. QED
      BY <3>1, <2>1, <2>2, <2>3, <2>5
  <2>6. QED
    BY <2>4, <2>5
<1>4. g = [n |-> g.n, linked |-> g.linked, empty |-> g.empty, key |-> g.key,
           ref |-> g.ref, count |-> g.count, size |-> g.size,
           threshold |-> g.threshold, bad |-> g.bad, table |-> g.table,
           el |-> g.el, state |-> g.state]
  BY <1>1, <1>2 DEF map_decref_record, MapType
<1>5. MapType(g)
  BY <1>2, <1>3, <1>4 DEF MapType
<1>6. QED
  BY <1>3, <1>5

\* The table and the keys are the same for the scripts.
SameContent(m, g) ==
    /\ g.n = m.n /\ g.key = m.key /\ g.count = m.count /\ g.size = m.size
    /\ g.table = m.table /\ g.threshold = m.threshold /\ g.state = m.state
    /\ Full(g) = Full(m)

LEMMA SameContentInv ==
    ASSUME NEW m, NEW g, SameContent(m, g), TableInv(m), KeyInv(m)
    PROVE  TableInv(g) /\ KeyInv(g)
BY DEF SameContent, TableInv, KeyInv

\* Walker w gives its lock back: map_decref_record.
LEMMA DecrefInv ==
    ASSUME NEW m, NEW k, MapInv(m, k), m.state # "freed",
           NEW w \in Walkers, k[w].at = "on",
           NEW j, WalkType(j), j[w].at # "on", j[w].cur = 0,
           \A v \in Walkers \ {w} : j[v] = k[v]
    PROVE  LET g == map_decref_record(m, k[w].cur)
           IN  MapInv(g, j) /\ SameContent(m, g)
<1> DEFINE r == k[w].cur
           g == map_decref_record(m, r)
<1>1. /\ MapType(m) /\ WalkType(k) /\ WalkInv(m, k) /\ ~m.bad
      /\ RefInv(m, k) /\ TableInv(m) /\ KeyInv(m)
  BY DEF MapInv
<1>2. r \in 1..m.n
  BY <1>1 DEF WalkInv
<1>3. w \in Locks(k, r)
  BY DEF Locks
<1>4. Cardinality(Locks(k, r)) \in Nat \ {0}
  BY <1>3, LocksFinite
<1>5. m.ref[r] = Own(m, r) + Cardinality(Locks(k, r)) /\ r \in m.linked
  BY <1>1, <1>2, <1>4 DEF RefInv, Own
<1>6. m.ref[r] > 0 /\ (m.ref[r] = 1 => r \notin Full(m))
  BY <1>4, <1>5 DEF Own
<1>7. m.ref[r] = 1 => r \in m.empty
  BY <1>5, <1>6 DEF Full
<1>8. /\ MapType(g)
      /\ g.n = m.n /\ g.key = m.key /\ g.empty = m.empty
      /\ g.count = m.count /\ g.size = m.size /\ g.table = m.table
      /\ g.threshold = m.threshold /\ g.state = m.state
      /\ g.ref = [m.ref EXCEPT ![r] = @ - 1]
      /\ g.linked = IF m.ref[r] = 1 THEN m.linked \ {r} ELSE m.linked
      /\ g.bad = (m.bad \/ r \notin m.linked
                      \/ (m.ref[r] = 1 /\ r \notin m.empty))
  BY <1>1, <1>2, <1>6, DecrefFields
<1>9. ~g.bad
  BY <1>1, <1>5, <1>7, <1>8
<1>10. SameContent(m, g)
  BY <1>7, <1>8 DEF SameContent, Full
<1>11. WalkInv(g, j)
  BY <1>1, <1>8 DEF WalkInv
<1>12. RefInv(g, j)
  <2> SUFFICES ASSUME NEW q \in 1..g.n
               PROVE  /\ g.ref[q] = Own(g, q) + Cardinality(Locks(j, q))
                      /\ q \in g.linked <=> g.ref[q] > 0
    BY DEF RefInv
  <2>1. Own(g, q) = Own(m, q)
    BY <1>10 DEF Own, SameContent
  <2>2. Cardinality(Locks(j, q)) = IF q = r THEN Cardinality(Locks(k, q)) - 1
                                            ELSE Cardinality(Locks(k, q))
    BY <1>1, LocksLeave
  <2>3. /\ m.ref[q] = Own(m, q) + Cardinality(Locks(k, q))
        /\ q \in m.linked <=> m.ref[q] > 0
    BY <1>1, <1>8 DEF RefInv
  <2>4. Cardinality(Locks(k, q)) \in Nat /\ Own(m, q) \in Nat
    BY LocksFinite DEF Own
  <2>5. g.ref[q] = IF q = r THEN m.ref[q] - 1 ELSE m.ref[q]
    <3>1. m.ref \in Seq(Nat) /\ q \in 1..Len(m.ref)
      BY <1>1, <1>8 DEF MapType
    <3>2. g.ref = [m.ref EXCEPT ![r] = @ - 1]
      BY <1>8
    <3>3. QED
      BY <3>1, <3>2
  <2>6. g.linked = IF m.ref[r] = 1 THEN m.linked \ {r} ELSE m.linked
    BY <1>8
  <2>7. CASE q = r
    <3>1. /\ m.ref[r] \in Nat \ {0}
          /\ g.ref[r] = m.ref[r] - 1
          /\ g.ref[r] = Own(g, r) + Cardinality(Locks(j, r))
      BY <1>6, <2>1, <2>2, <2>3, <2>4, <2>5, <2>7
    <3>2. r \in g.linked <=> m.ref[r] # 1
      BY <1>5, <2>6
    <3>3. QED
      BY <2>7, <3>1, <3>2
  <2>8. CASE q # r
    BY <2>1, <2>2, <2>3, <2>4, <2>5, <2>6, <2>8
  <2>9. QED
    BY <2>7, <2>8
<1>13. QED
  BY <1>1, <1>8, <1>9, <1>10, <1>11, <1>12, SameContentInv DEF MapInv

\* Walker w locks a full record.
LEMMA LockInv ==
    ASSUME NEW m, NEW k, MapInv(m, k), m.state # "freed",
           NEW w \in Walkers, k[w].at # "on",
           NEW r \in Full(m),
           NEW j, WalkType(j), j[w].at = "on", j[w].cur = r,
           \A v \in Walkers \ {w} : j[v] = k[v]
    PROVE  LET g == [m EXCEPT !.ref[r] = @ + 1]
           IN  MapInv(g, j) /\ SameContent(m, g)
<1> DEFINE g == [m EXCEPT !.ref[r] = @ + 1]
           e == [m.ref EXCEPT ![r] = @ + 1]
<1>1. /\ MapType(m) /\ WalkType(k) /\ WalkInv(m, k) /\ ~m.bad
      /\ RefInv(m, k) /\ TableInv(m) /\ KeyInv(m)
  BY DEF MapInv
<1>2. r \in 1..m.n /\ r \in m.linked
  BY <1>1 DEF MapType, Full
<1>3. e \in Seq(Nat) /\ Len(e) = m.n
  BY <1>1, <1>2 DEF MapType
<1>4. /\ g.n = m.n /\ g.key = m.key /\ g.empty = m.empty
      /\ g.count = m.count /\ g.size = m.size /\ g.table = m.table
      /\ g.threshold = m.threshold /\ g.state = m.state
      /\ g.linked = m.linked /\ g.ref = e
  BY <1>1 DEF MapType
<1>5. g.bad = m.bad
  BY <1>1 DEF MapType
<1>6. MapType(g)
  BY <1>1, <1>3, <1>4 DEF MapType
<1>7. SameContent(m, g)
  BY <1>4 DEF SameContent, Full
<1>8. WalkInv(g, j)
  BY <1>1, <1>2, <1>4 DEF WalkInv
<1>9. RefInv(g, j)
  <2> SUFFICES ASSUME NEW q \in 1..g.n
               PROVE  /\ g.ref[q] = Own(g, q) + Cardinality(Locks(j, q))
                      /\ q \in g.linked <=> g.ref[q] > 0
    BY DEF RefInv
  <2>1. Own(g, q) = Own(m, q)
    BY <1>7 DEF Own, SameContent
  <2>2. Cardinality(Locks(j, q)) = IF q = r THEN Cardinality(Locks(k, q)) + 1
                                            ELSE Cardinality(Locks(k, q))
    BY <1>1, LocksCome
  <2>3. /\ m.ref[q] = Own(m, q) + Cardinality(Locks(k, q))
        /\ q \in m.linked <=> m.ref[q] > 0
    BY <1>1, <1>4 DEF RefInv
  <2>4. Cardinality(Locks(k, q)) \in Nat /\ Own(m, q) \in Nat
    BY LocksFinite DEF Own
  <2>5. g.ref[q] = IF q = r THEN m.ref[q] + 1 ELSE m.ref[q]
    BY <1>1, <1>4 DEF MapType
  <2>6. QED
    BY <1>2, <1>4, <2>1, <2>2, <2>3, <2>4, <2>5
<1>10. QED
  BY <1>1, <1>4, <1>5, <1>6, <1>7, <1>8, <1>9, SameContentInv DEF MapInv

\* FirstOf gives the least of a set of records.
LEMMA FirstOfIsFirst ==
    ASSUME NEW S \in SUBSET Nat, S # {}
    PROVE  FirstOf(S) \in S /\ \A i \in S : FirstOf(S) <= i
BY NatMin DEF FirstOf

\* What is left for a walker at record r.
LeftOf(m, r) == {i \in Full(m) : i > r}

\* The walkers after one has come to the end.
LEMMA LeaveType ==
    ASSUME WalkType(walk), NEW w \in Walkers
    PROVE  LET k == [walk EXCEPT ![w].at = "done", ![w].cur = 0]
           IN  /\ WalkType(k)
               /\ k[w].at = "done" /\ k[w].cur = 0 /\ k[w].owner = walk[w].owner
               /\ \A v \in Walkers \ {w} : k[v] = walk[v]
<1>1. 0 \in 0..MaxRecords
  BY MapAssumption
<1>2. QED
  BY <1>1 DEF WalkType

\* The walkers after some were finalized.
LEMMA WithoutType ==
    ASSUME WalkType(walk), NEW W \in SUBSET Walkers
    PROVE  /\ WalkType(Without(W))
           /\ \A v \in W : Without(W)[v] = FreedWalker
           /\ \A v \in Walkers \ W : Without(W)[v] = walk[v]
<1>1. 0 \in 0..MaxRecords
  BY MapAssumption
<1>2. QED
  BY <1>1 DEF WalkType, Without, FreedWalker

\* One step of a walker: it comes to the next full record, or to the end.
LEMMA StepInv ==
    ASSUME MapInv(map, walk), map.state # "freed",
           NEW w \in Walkers, Step(w)
    PROVE  LET left == LeftOf(map, walk[w].cur)
           IN  /\ MapInv(map', walk')
               /\ SameContent(map, map')
               /\ \A v \in Walkers \ {w} : walk'[v] = walk[v]
               /\ walk'[w].owner = walk[w].owner
               /\ left = {} => walk'[w].at = "done" /\ walk'[w].cur = 0
               /\ left # {} => walk'[w].at = "on" /\ walk'[w].cur = FirstOf(left)
<1> DEFINE old == walk[w].cur
           m == IF old = 0 THEN map ELSE map_decref_record(map, old)
           j == [walk EXCEPT ![w].at = "done", ![w].cur = 0]
           left == LeftOf(map, old)
<1>1. MapType(map) /\ WalkType(walk) /\ WalkInv(map, walk)
  BY DEF MapInv
<1>2. /\ WalkType(j)
      /\ j[w].at = "done" /\ j[w].cur = 0 /\ j[w].owner = walk[w].owner
      /\ \A v \in Walkers \ {w} : j[v] = walk[v]
  BY <1>1, LeaveType
<1>3. MapInv(m, j) /\ SameContent(map, m)
  <2>1. CASE walk[w].at = "on"
    <3>1. old # 0
      BY <1>1, <2>1 DEF WalkInv, MapType
    <3>2. m = map_decref_record(map, old)
      BY <3>1
    <3>3. QED
      <4> HIDE DEF m, j
      <4> QED
        BY <1>2, <2>1, <3>2, DecrefInv
  <2>2. CASE walk[w].at # "on"
    <3>1. m = map
      BY <1>1, <2>2 DEF WalkInv
    <3>2. \A r : Locks(j, r) = Locks(walk, r)
      BY <1>1, <1>2, <2>2 DEF Locks, WalkType
    <3>3. RefInv(map, walk) => RefInv(map, j)
      BY <3>2 DEF RefInv
    <3>4. WalkInv(map, j)
      <4> HIDE DEF j
      <4> QED
        BY <1>1, <1>2 DEF WalkInv
    <3>5. MapInv(map, j) /\ SameContent(map, map)
      <4> HIDE DEF j
      <4> QED
        BY <1>2, <3>3, <3>4 DEF MapInv, SameContent
    <3>6. QED
      BY <3>1, <3>5
  <2>3. QED
    BY <2>1, <2>2
<1>4. {i \in Behind(m, old) : i \notin m.empty} = left
  BY <1>3 DEF SameContent, Behind, LeftOf, Full
<1>5. CASE left = {}
  <2>1. map' = m /\ walk' = j
    BY <1>4, <1>5 DEF Step
  <2>2. QED
    <3> HIDE DEF m, j
    <3> QED
      BY <1>2, <1>3, <1>5, <2>1
<1>6. CASE left # {}
  <2> DEFINE r == FirstOf(left)
             h == [walk EXCEPT ![w].at = "on", ![w].cur = r]
  <2>1. map' = [m EXCEPT !.ref[r] = @ + 1] /\ walk' = h
    BY <1>4, <1>6 DEF Step
  <2>2. left \in SUBSET Nat
    BY <1>1 DEF LeftOf, Full, MapType
  <2>3. r \in left
    BY <1>6, <2>2, FirstOfIsFirst
  <2>4. r \in Full(m) /\ r \in 0..MaxRecords
    <3>1. r \in Full(map)
      BY <2>3 DEF LeftOf
    <3>2. r \in 1..map.n /\ map.n \in 0..MaxRecords
      BY <1>1, <3>1 DEF Full, MapType
    <3>3. QED
      BY <1>3, <3>1, <3>2, MapAssumption DEF SameContent
  <2>5. /\ WalkType(h)
        /\ h[w].at = "on" /\ h[w].cur = r /\ h[w].owner = walk[w].owner
        /\ \A v \in Walkers \ {w} : h[v] = walk[v]
    <3> HIDE DEF r
    <3> QED
      BY <1>1, <2>4 DEF WalkType
  <2>6. m.state # "freed"
    BY <1>3 DEF SameContent
  <2>7. \A v \in Walkers \ {w} : h[v] = j[v]
    BY <1>2, <2>5
  <2>8. MapInv(map', walk') /\ SameContent(m, map')
    <3>1. j[w].at # "on"
      BY <1>2
    <3> HIDE DEF m, j, left, r, h
    <3>2. MapInv([m EXCEPT !.ref[r] = @ + 1], h) /\ SameContent(m, [m EXCEPT !.ref[r] = @ + 1])
      BY <1>3, <2>4, <2>5, <2>6, <2>7, <3>1, LockInv
    <3>3. QED
      BY <2>1, <3>2
  <2>9. SameContent(map, map')
    BY <1>3, <2>8 DEF SameContent
  <2>10. QED
    BY <1>6, <2>1, <2>5, <2>8, <2>9
<1>7. QED
  BY <1>5, <1>6

\* The full records are finitely many.
LEMMA FullFinite ==
    ASSUME NEW m, MapType(m)
    PROVE  Full(m) \in SUBSET (1..m.n) /\ IsFiniteSet(Full(m))
<1>1. Full(m) \in SUBSET (1..m.n) /\ m.n \in Int
  BY DEF MapType, Full
<1>2. IsFiniteSet(1..m.n)
  BY <1>1, FS_Interval
<1>3. QED
  BY <1>1, <1>2, FS_Subset

\* A larger table has the same records.
LEMMA ResizeInv ==
    ASSUME NEW m, NEW k, MapInv(m, k), m.state # "freed", NEW slack \in Nat
    PROVE  LET g == map_hash_resize(m, slack)
           IN  /\ MapInv(g, k)
               /\ g.n = m.n /\ g.key = m.key /\ g.state = m.state
               /\ Full(g) = Full(m)
<1> DEFINE g == map_hash_resize(m, slack)
           size == (IF m.size = 1 THEN 4 ELSE m.size * 2) + slack
           table == [b \in Buckets(size) |->
                        {r \in Full(m) : Bucket(m.key[r], size) = b}]
<1>1. /\ MapType(m) /\ WalkType(k) /\ WalkInv(m, k) /\ ~m.bad
      /\ RefInv(m, k) /\ KeyInv(m)
  BY DEF MapInv
<1>2. size \in Nat /\ size * 2 \in Nat
  BY <1>1 DEF MapType
<1>3. table \in [Buckets(size) -> SUBSET Nat]
  BY <1>1 DEF MapType, Full
<1>4. g = [m EXCEPT !.size = size, !.threshold = size * 2, !.table = table]
  BY DEF map_hash_resize
<1> HIDE DEF g, size, table
<1>5. /\ g.n = m.n /\ g.key = m.key /\ g.empty = m.empty /\ g.ref = m.ref
      /\ g.count = m.count /\ g.state = m.state /\ g.linked = m.linked
      /\ g.size = size /\ g.table = table
  BY <1>1, <1>4 DEF MapType
<1>6. g.bad = m.bad
  BY <1>1, <1>4 DEF MapType
<1>7. MapType(g)
  BY <1>1, <1>2, <1>3, <1>4 DEF MapType
<1>8. Full(g) = Full(m)
  BY <1>5 DEF Full
<1>9. RefInv(g, k) /\ KeyInv(g) /\ WalkInv(g, k)
  BY <1>1, <1>5, <1>8 DEF RefInv, KeyInv, WalkInv, Own
<1>10. TableInv(g)
  <2>1. \A b \in Buckets(size), r \in Nat :
           r \in table[b] <=> r \in Full(m) /\ Bucket(m.key[r], size) = b
    BY DEF table
  <2>2. QED
    BY <1>3, <1>5, <1>8, <2>1 DEF TableInv
<1>11. QED
  BY <1>1, <1>5, <1>6, <1>7, <1>8, <1>9, <1>10 DEF MapInv, g

\* map_add_record with a key that no record has.
LEMMA AddInv ==
    ASSUME NEW m, NEW k, MapInv(m, k), m.state # "freed",
           m.n < MaxRecords, NEW slack \in Nat, NEW x \in Normal,
           \A r \in Full(m) : m.key[r] # x
    PROVE  LET g == map_add_record(m, x, slack)
           IN  /\ MapInv(g, k)
               /\ g.n = m.n + 1 /\ g.key = Append(m.key, x) /\ g.state = m.state
               /\ Full(g) = Full(m) \cup {m.n + 1}
<1> DEFINE r == m.n + 1
           b == Bucket(x, m.size)
           table == [m.table EXCEPT ![b] = @ \cup {r}]
           h == [m EXCEPT !.n = r,
                          !.key = Append(@, x),
                          !.ref = Append(@, 1),
                          !.linked = @ \cup {r},
                          !.table[b] = @ \cup {r},
                          !.count = @ + 1]
<1>1. /\ MapType(m) /\ WalkType(k) /\ WalkInv(m, k) /\ ~m.bad
      /\ RefInv(m, k) /\ TableInv(m) /\ KeyInv(m)
  BY DEF MapInv
<1>2. x \in Keys
  BY DEF Normal
<1>3. /\ m.n \in Nat /\ r \in Nat /\ r \in 0..MaxRecords
      /\ r \notin 1..m.n /\ 1..r = (1..m.n) \cup {r}
  BY <1>1, MapAssumption DEF MapType
<1>4. /\ Append(m.key, x) \in Seq(Keys \cup {Undefined})
      /\ Len(Append(m.key, x)) = r
      /\ \A q \in 1..m.n : Append(m.key, x)[q] = m.key[q]
      /\ Append(m.key, x)[r] = x
  BY <1>1, <1>2 DEF MapType
<1>5. /\ Append(m.ref, 1) \in Seq(Nat)
      /\ Len(Append(m.ref, 1)) = r
      /\ \A q \in 1..m.n : Append(m.ref, 1)[q] = m.ref[q]
      /\ Append(m.ref, 1)[r] = 1
  BY <1>1 DEF MapType
<1>6. b \in Buckets(m.size) /\ m.table \in [Buckets(m.size) -> SUBSET Nat]
  BY <1>1 DEF Bucket, Buckets, TableInv
<1> HIDE DEF b
<1>7. /\ table \in [Buckets(m.size) -> SUBSET Nat]
      /\ \A c \in Buckets(m.size), q \in Nat :
            q \in table[c] <=> q \in m.table[c] \/ (q = r /\ c = b)
  BY <1>3, <1>6
<1>8. /\ h.n = r /\ h.key = Append(m.key, x) /\ h.empty = m.empty
      /\ h.ref = Append(m.ref, 1) /\ h.count = m.count + 1
      /\ h.state = m.state /\ h.linked = m.linked \cup {r}
      /\ h.size = m.size /\ h.table = table /\ h.threshold = m.threshold
  BY <1>1 DEF MapType
<1>9. h.bad = m.bad
  BY <1>1 DEF MapType
<1>10. MapType(h)
  <2> DEFINE key == Append(m.key, x)
             ref == Append(m.ref, 1)
             linked == m.linked \cup {r}
             count == m.count + 1
  <2>1. h = [m EXCEPT !.n = r, !.key = key, !.ref = ref, !.linked = linked,
                      !.table = table, !.count = count]
    OBVIOUS
  <2>2. linked \in SUBSET Nat /\ count \in Nat /\ linked \cup m.empty \subseteq 1..r
    BY <1>1, <1>3 DEF MapType
  <2> HIDE DEF h, r, table, key, ref, linked, count
  <2>3. h \in [n : 0..MaxRecords, linked : SUBSET Nat, empty : SUBSET Nat,
               key : Seq(Keys \cup {Undefined}), ref : Seq(Nat), count : Nat,
               size : Nat, threshold : Nat, bad : BOOLEAN,
               table : [Buckets(m.size) -> SUBSET Nat] \cup {<<>>},
               el : 0..MaxRecords,
               state : {"live", "clearing", "lost", "dying", "freed"}]
    BY <1>1, <1>3, <1>4, <1>5, <1>7, <2>1, <2>2 DEF MapType, key, ref
  <2>4. QED
    BY <1>4, <1>5, <1>8, <2>2, <2>3 DEF MapType, linked
<1> HIDE DEF h, table
<1>11. Full(h) = Full(m) \cup {r}
  BY <1>1, <1>3, <1>8 DEF Full, MapType
<1>12. WalkInv(h, k)
  BY <1>1, <1>3, <1>8 DEF WalkInv
<1>13. RefInv(h, k)
  <2> SUFFICES ASSUME NEW q \in 1..r
               PROVE  /\ h.ref[q] = Own(h, q) + Cardinality(Locks(k, q))
                      /\ q \in h.linked <=> h.ref[q] > 0
    BY <1>8 DEF RefInv
  <2>1. CASE q = r
    <3>1. Locks(k, q) = {}
      BY <1>1, <1>3, <2>1 DEF Locks, WalkInv
    <3>2. Cardinality(Locks(k, q)) = 0
      BY <3>1, LocksFinite
    <3>3. QED
      BY <1>5, <1>8, <1>11, <2>1, <3>2 DEF Own
  <2>2. CASE q \in 1..m.n
    <3>1. Own(h, q) = Own(m, q)
      BY <1>3, <1>11, <2>2 DEF Own
    <3>2. h.ref[q] = m.ref[q] /\ (q \in h.linked <=> q \in m.linked)
      BY <1>3, <1>5, <1>8, <2>2
    <3>3. QED
      BY <1>1, <2>2, <3>1, <3>2 DEF RefInv
  <2>3. QED
    BY <1>3, <2>1, <2>2
<1>14. TableInv(h)
  <2> SUFFICES ASSUME NEW c \in Buckets(m.size), NEW q \in Nat
               PROVE  q \in table[c] <=> q \in Full(h)
                                          /\ Bucket(h.key[q], m.size) = c
    BY <1>7, <1>8 DEF TableInv
  <2>1. q \in m.table[c] <=> q \in Full(m) /\ Bucket(m.key[q], m.size) = c
    BY <1>1 DEF TableInv
  <2>2. CASE q = r
    <3>1. q \notin Full(m) /\ h.key[q] = x
      BY <1>1, <1>3, <1>4, <1>8, <2>2 DEF Full, MapType
    <3>2. QED
      BY <1>7, <1>11, <2>1, <2>2, <3>1 DEF b
  <2>3. CASE q # r
    <3>1. q \in Full(m) => h.key[q] = m.key[q]
      BY <1>1, <1>4, <1>8 DEF Full, MapType
    <3>2. QED
      BY <1>7, <1>11, <2>1, <2>3, <3>1
  <2>4. QED
    BY <2>2, <2>3
<1>15. KeyInv(h)
  <2>1. \A q \in Full(m) : h.key[q] = m.key[q] /\ q # r
    BY <1>1, <1>3, <1>4, <1>8 DEF Full, MapType
  <2>2. h.key[r] = x
    BY <1>4, <1>8
  <2>3. Cardinality(Full(h)) = Cardinality(Full(m)) + 1
    BY <1>1, <1>11, <2>1, FullFinite, FS_AddElement
  <2>4. h.count = Cardinality(Full(h))
    BY <1>1, <1>8, <2>3 DEF KeyInv
  <2>5. \A q \in Full(h) : h.key[q] \in Normal
    BY <1>1, <1>11, <2>1, <2>2 DEF KeyInv
  <2>6. ASSUME NEW q \in Full(h), NEW p \in Full(h), h.key[q] = h.key[p]
        PROVE  q = p
    BY <1>1, <1>11, <2>1, <2>2, <2>6 DEF KeyInv
  <2>7. QED
    BY <2>4, <2>5, <2>6 DEF KeyInv
<1>16. MapInv(h, k)
  BY <1>1, <1>9, <1>10, <1>12, <1>13, <1>14, <1>15 DEF MapInv
<1>17. CASE h.count >= h.threshold
  <2>1. map_add_record(m, x, slack) = map_hash_resize(h, slack)
    BY <1>17 DEF map_add_record, h, b
  <2>2. h.state # "freed"
    BY <1>8
  <2>3. QED
    BY <1>8, <1>11, <1>16, <2>1, <2>2, ResizeInv
<1>18. CASE ~(h.count >= h.threshold)
  <2>1. map_add_record(m, x, slack) = h
    BY <1>18 DEF map_add_record, h, b
  <2>2. QED
    BY <1>8, <1>11, <1>16, <2>1
<1>19. QED
  BY <1>17, <1>18

\* The full records in S are emptied: those that are locked stay in the list.
Emptied(m, g, S) ==
    /\ g.n = m.n /\ g.size = m.size /\ g.state = m.state /\ g.bad = m.bad
    /\ g.count = m.count - Cardinality(S)
    /\ Full(g) = Full(m) \ S
    /\ \A q \in 1..m.n :
          /\ g.key[q] = IF q \in S THEN Undefined ELSE m.key[q]
          /\ g.ref[q] = IF q \in S THEN m.ref[q] - 1 ELSE m.ref[q]
          /\ q \in g.linked <=> q \in m.linked /\ ~(q \in S /\ m.ref[q] = 1)
    /\ g.table \in [Buckets(m.size) -> SUBSET Nat]
    /\ \A b \in Buckets(m.size) : g.table[b] = m.table[b] \ S

LEMMA EmptiedInv ==
    ASSUME NEW m, NEW k, MapInv(m, k), m.state # "freed",
           NEW S \in SUBSET Full(m), NEW g, MapType(g), Emptied(m, g, S)
    PROVE  MapInv(g, k)
<1>1. /\ MapType(m) /\ WalkType(k) /\ WalkInv(m, k) /\ ~m.bad
      /\ RefInv(m, k) /\ TableInv(m) /\ KeyInv(m)
  BY DEF MapInv
<1>2. Full(m) \in SUBSET (1..m.n) /\ IsFiniteSet(Full(m))
  BY <1>1, FullFinite
<1>3. WalkInv(g, k)
  BY <1>1 DEF WalkInv, Emptied
<1>4. RefInv(g, k)
  <2> SUFFICES ASSUME NEW q \in 1..m.n
               PROVE  /\ g.ref[q] = Own(g, q) + Cardinality(Locks(k, q))
                      /\ q \in g.linked <=> g.ref[q] > 0
    BY DEF RefInv, Emptied
  <2>1. /\ m.ref[q] = Own(m, q) + Cardinality(Locks(k, q))
        /\ q \in m.linked <=> m.ref[q] > 0
    BY <1>1 DEF RefInv
  <2>2. Cardinality(Locks(k, q)) \in Nat
    BY LocksFinite
  <2>3. /\ g.ref[q] = IF q \in S THEN m.ref[q] - 1 ELSE m.ref[q]
        /\ q \in g.linked <=> q \in m.linked /\ ~(q \in S /\ m.ref[q] = 1)
    BY DEF Emptied
  <2>4. CASE q \in S
    <3>1. Own(m, q) = 1 /\ Own(g, q) = 0
      BY <2>4 DEF Own, Emptied
    <3>2. QED
      BY <2>1, <2>2, <2>3, <2>4, <3>1
  <2>5. CASE q \notin S
    <3>1. Own(g, q) = Own(m, q)
      BY <2>5 DEF Own, Emptied
    <3>2. QED
      BY <2>1, <2>3, <2>5, <3>1
  <2>6. QED
    BY <2>4, <2>5
<1>5. TableInv(g)
  <2> SUFFICES ASSUME NEW b \in Buckets(m.size), NEW q \in Nat
               PROVE  q \in g.table[b] <=> q \in Full(g)
                                            /\ Bucket(g.key[q], m.size) = b
    BY DEF TableInv, Emptied
  <2>1. q \in m.table[b] <=> q \in Full(m) /\ Bucket(m.key[q], m.size) = b
    BY <1>1 DEF TableInv
  <2>2. q \in Full(g) => g.key[q] = m.key[q]
    BY <1>2 DEF Emptied
  <2>3. QED
    BY <2>1, <2>2 DEF Emptied
<1>6. KeyInv(g)
  <2>1. \A q \in Full(g) : q \in Full(m) /\ g.key[q] = m.key[q]
    BY <1>2 DEF Emptied
  <2>2. Cardinality(Full(m) \ S) = Cardinality(Full(m)) - Cardinality(S)
    <3>1. Full(m) \cap S = S
      OBVIOUS
    <3>2. Cardinality(Full(m) \ S) = Cardinality(Full(m)) - Cardinality(Full(m) \cap S)
      BY <1>2, FS_Difference
    <3>3. QED
      BY <3>1, <3>2
  <2>3. QED
    BY <1>1, <2>1, <2>2 DEF KeyInv, Emptied
<1>7. QED
  BY <1>1, <1>3, <1>4, <1>5, <1>6 DEF MapInv, Emptied

\* A function on 1..n is a sequence of length n.
LEMMA FunctionIsSeq ==
    ASSUME NEW n \in Nat, NEW T, NEW f \in [1..n -> T]
    PROVE  f \in Seq(T) /\ Len(f) = n
OBVIOUS

\* What Append gives, as a function.
LEMMA AppendIs ==
    ASSUME NEW T, NEW s \in Seq(T), NEW n \in Nat, Len(s) = n, NEW a
    PROVE  [i \in 1..n + 1 |-> IF i = n + 1 THEN a ELSE s[i]] = Append(s, a)
<1>1. /\ Append(s, a) \in Seq(T \cup {a}) /\ Len(Append(s, a)) = n + 1
      /\ \A i \in 1..n + 1 : Append(s, a)[i] = IF i = n + 1 THEN a ELSE s[i]
  OBVIOUS
<1> DEFINE f == Append(s, a)
<1>2. f \in Seq(T \cup {a}) /\ Len(f) = n + 1
  BY <1>1
<1> HIDE DEF f
<1>3. f \in [1..n + 1 -> T \cup {a}]
  BY <1>2
<1>4. f = [i \in 1..n + 1 |-> f[i]]
  BY <1>3
<1>5. QED
  BY <1>1, <1>4 DEF f

\* map_delete_record for a full record, after the value is freed.
LEMMA VacateInv ==
    ASSUME NEW m, NEW k, MapInv(m, k), m.state # "freed", NEW r \in Full(m)
    PROVE  LET g == Vacate(m, r)
           IN  MapInv(g, k) /\ Emptied(m, g, {r})
<1> DEFINE table == [b \in DOMAIN m.table |-> m.table[b] \ {r}]
           key == [m.key EXCEPT ![r] = Undefined]
           ref == [m.ref EXCEPT ![r] = @ - 1]
           count == m.count - 1
           h == [m EXCEPT !.table = table, !.key = key, !.ref = ref, !.count = count]
           g == Vacate(m, r)
<1>1. MapType(m) /\ RefInv(m, k) /\ TableInv(m) /\ KeyInv(m)
  BY DEF MapInv
<1>2. /\ Full(m) \in SUBSET (1..m.n) /\ IsFiniteSet(Full(m))
      /\ r \in 1..m.n /\ r \notin m.empty /\ r \in m.linked /\ m.n \in Nat
  <2>1. r \notin m.empty /\ r \in m.linked /\ m.n \in Nat
    BY <1>1 DEF Full, MapType
  <2>2. Full(m) \in SUBSET (1..m.n) /\ IsFiniteSet(Full(m))
    BY <1>1, FullFinite
  <2>3. QED
    BY <2>1, <2>2
<1>3. /\ table \in [Buckets(m.size) -> SUBSET Nat]
      /\ \A b \in Buckets(m.size) : table[b] = m.table[b] \ {r}
  BY <1>1 DEF TableInv
<1>4. /\ key \in Seq(Keys \cup {Undefined}) /\ Len(key) = m.n
      /\ \A q \in 1..m.n : key[q] = IF q = r THEN Undefined ELSE m.key[q]
  BY <1>1, <1>2 DEF MapType
<1>5. m.ref[r] \in Nat \ {0}
  <2>1. m.ref[r] \in Nat
    BY <1>1, <1>2 DEF MapType
  <2>2. QED
    BY <1>1, <1>2, <2>1 DEF RefInv
<1>6. /\ ref \in Seq(Nat) /\ Len(ref) = m.n
      /\ \A q \in 1..m.n : ref[q] = IF q = r THEN m.ref[q] - 1 ELSE m.ref[q]
  BY <1>1, <1>2, <1>5 DEF MapType
<1>7. Cardinality({r}) = 1 /\ count \in Nat
  <2>1. Cardinality({r}) = 1
    BY FS_Singleton
  <2>2. Cardinality(Full(m)) # 0 /\ Cardinality(Full(m)) \in Nat
    BY <1>2, FS_EmptySet, FS_CardinalityType
  <2>3. QED
    BY <1>1, <2>1, <2>2 DEF KeyInv
<1>8. g = IF ref[r] = 0 THEN [h EXCEPT !.linked = m.linked \ {r}]
                        ELSE [h EXCEPT !.empty = m.empty \cup {r}]
  <2>1. h = [m EXCEPT !.table = [b \in DOMAIN @ |-> @[b] \ {r}],
                      !.key[r] = Undefined, !.ref[r] = @ - 1, !.count = @ - 1]
    OBVIOUS
  <2>2. h.ref = ref /\ h.linked = m.linked /\ h.empty = m.empty
    <3> HIDE DEF table, key, ref, count
    <3> QED
      BY <1>1 DEF MapType
  <2> HIDE DEF table, key, ref, count, h
  <2>3. QED
    BY <1>2, <2>1, <2>2 DEF Vacate
<1> HIDE DEF table, key, ref, count, g
<1>9. h \in [n : 0..MaxRecords, linked : SUBSET Nat, empty : SUBSET Nat,
              key : Seq(Keys \cup {Undefined}), ref : Seq(Nat), count : Nat,
              size : Nat, threshold : Nat, bad : BOOLEAN,
              table : [Buckets(m.size) -> SUBSET Nat] \cup {<<>>},
              el : 0..MaxRecords,
              state : {"live", "clearing", "lost", "dying", "freed"}]
  BY <1>1, <1>3, <1>4, <1>6, <1>7 DEF MapType
<1>10. /\ h.n = m.n /\ h.size = m.size /\ h.state = m.state /\ h.count = count
       /\ h.key = key /\ h.ref = ref /\ h.table = table
       /\ h.linked = m.linked /\ h.empty = m.empty
  BY <1>1 DEF MapType
<1>11. h.bad = m.bad
  BY <1>1 DEF MapType
<1> HIDE DEF h
<1>12. /\ g.n = m.n /\ g.size = m.size /\ g.state = m.state /\ g.count = count
       /\ g.key = key /\ g.ref = ref /\ g.table = table
       /\ g.linked = IF ref[r] = 0 THEN m.linked \ {r} ELSE m.linked
       /\ g.empty = IF ref[r] = 0 THEN m.empty ELSE m.empty \cup {r}
  BY <1>8, <1>9, <1>10
<1>13. g.bad = m.bad
  BY <1>8, <1>9, <1>11
<1>14. g \in [n : 0..MaxRecords, linked : SUBSET Nat, empty : SUBSET Nat,
              key : Seq(Keys \cup {Undefined}), ref : Seq(Nat), count : Nat,
              size : Nat, threshold : Nat, bad : BOOLEAN,
              table : [Buckets(m.size) -> SUBSET Nat] \cup {<<>>},
              el : 0..MaxRecords,
              state : {"live", "clearing", "lost", "dying", "freed"}]
  <2>1. m.linked \ {r} \in SUBSET Nat /\ m.empty \cup {r} \in SUBSET Nat
    BY <1>1, <1>2 DEF MapType
  <2>2. QED
    BY <1>8, <1>9, <2>1
<1>15. MapType(g)
  <2>1. g.linked \cup g.empty \subseteq 1..g.n
    BY <1>1, <1>2, <1>12 DEF MapType
  <2>2. QED
    BY <1>4, <1>6, <1>12, <1>14, <2>1 DEF MapType
<1>16. Emptied(m, g, {r})
  <2>1. Full(g) = Full(m) \ {r}
    BY <1>2, <1>12 DEF Full
  <2>2. ASSUME NEW q \in 1..m.n
        PROVE  q \in g.linked <=> q \in m.linked /\ ~(q \in {r} /\ m.ref[q] = 1)
    <3>1. ref[r] = 0 <=> m.ref[r] = 1
      BY <1>2, <1>5, <1>6
    <3>2. QED
      BY <1>12, <3>1
  <2>3. QED
    BY <1>3, <1>4, <1>6, <1>7, <1>12, <1>13, <2>1, <2>2 DEF Emptied, count
<1>17. QED
  BY <1>15, <1>16, EmptiedInv DEF g

\* A walker that has come to no record moves without one.
LEMMA IdleInv ==
    ASSUME NEW m, NEW k, MapInv(m, k),
           NEW w \in Walkers, k[w].at # "on" \/ m.state = "freed",
           NEW j, WalkType(j), j[w].at # "on", j[w].cur = 0,
           \A v \in Walkers \ {w} : j[v] = k[v]
    PROVE  MapInv(m, j)
<1>1. MapType(m) /\ WalkType(k) /\ WalkInv(m, k) /\ ~m.bad
  BY DEF MapInv
<1>2. WalkInv(m, j)
  BY <1>1 DEF WalkInv
<1>3. ASSUME m.state # "freed" PROVE RefInv(m, j)
  <2>1. \A r : Locks(j, r) = Locks(k, r)
    BY <1>3 DEF Locks
  <2>2. RefInv(m, k)
    BY <1>3 DEF MapInv
  <2>3. QED
    BY <2>1, <2>2 DEF RefInv
<1>4. QED
  BY <1>1, <1>2, <1>3 DEF MapInv

\* An iterator is freed: js_map_iterator_finalizer.
LEMMA FinalizeInv ==
    ASSUME MapInv(map, walk), NEW w \in Walkers
    PROVE  MapInv(Finalize(map, w), Without({w})) /\ SameContent(map, Finalize(map, w))
<1> DEFINE j == Without({w})
           g == Finalize(map, w)
<1>1. WalkType(walk)
  BY DEF MapInv
<1>2. /\ WalkType(j) /\ j[w].at = "freed" /\ j[w].cur = 0
      /\ \A v \in Walkers \ {w} : j[v] = walk[v]
  BY <1>1, WithoutType DEF FreedWalker
<1> HIDE DEF j, g
<1>3. CASE walk[w].at # "on" \/ map.state = "freed"
  <2>1. g = map
    BY <1>3 DEF Finalize, g
  <2>2. MapInv(map, j)
    BY <1>2, <1>3, IdleInv
  <2>3. QED
    BY <2>1, <2>2 DEF SameContent, j, g
<1>4. CASE map.state # "freed" /\ walk[w].at = "on"
  <2>1. g = map_decref_record(map, walk[w].cur)
    BY <1>4 DEF Finalize, g
  <2>2. MapInv(g, j) /\ SameContent(map, g)
    BY <1>2, <1>4, <2>1, DecrefInv
  <2>3. QED
    BY <2>2 DEF j, g
<1>5. QED
  BY <1>3, <1>4

\* Who has come where does not depend on who owns whom.
LEMMA OwnerMoves ==
    ASSUME NEW m, NEW k, MapInv(m, k), NEW j, WalkType(j),
           \A v \in Walkers : j[v].at = k[v].at /\ j[v].cur = k[v].cur
    PROVE  MapInv(m, j)
<1>1. WalkInv(m, j)
  BY DEF MapInv, WalkInv
<1>2. \A r : Locks(j, r) = Locks(k, r)
  BY DEF Locks
<1>3. RefInv(m, k) => RefInv(m, j)
  BY <1>2 DEF RefInv
<1>4. QED
  BY <1>1, <1>3 DEF MapInv

\* The loop of clear, or the state, is at another place.
Phase(m, e, t) == [m EXCEPT !.el = e, !.state = t]

LEMMA PhaseInv ==
    ASSUME NEW m, NEW k, MapInv(m, k), m.state # "freed",
           NEW e \in 0..MaxRecords, NEW t \in {"live", "clearing", "lost", "dying"}
    PROVE  LET g == Phase(m, e, t)
           IN  /\ MapInv(g, k)
               /\ g.n = m.n /\ g.key = m.key /\ Full(g) = Full(m)
               /\ g.el = e /\ g.state = t
<1> DEFINE g == [m EXCEPT !.el = e, !.state = t]
<1>1. /\ MapType(m) /\ WalkType(k) /\ WalkInv(m, k) /\ ~m.bad
      /\ RefInv(m, k) /\ TableInv(m) /\ KeyInv(m)
  BY DEF MapInv
<1>2. /\ g.n = m.n /\ g.key = m.key /\ g.empty = m.empty
      /\ g.linked = m.linked /\ g.ref = m.ref
      /\ g.count = m.count /\ g.size = m.size /\ g.table = m.table
      /\ g.threshold = m.threshold /\ g.state = t /\ g.el = e
  BY <1>1 DEF MapType
<1>3. g.bad = m.bad
  BY <1>1 DEF MapType
<1>4. MapType(g)
  BY <1>1 DEF MapType
<1> HIDE DEF g
<1>5. Full(g) = Full(m)
  BY <1>2 DEF Full
<1>6. WalkInv(g, k) /\ RefInv(g, k) /\ TableInv(g) /\ KeyInv(g)
  BY <1>1, <1>2, <1>5 DEF WalkInv, RefInv, TableInv, KeyInv, Own
<1>7. QED
  BY <1>1, <1>2, <1>3, <1>4, <1>5, <1>6 DEF MapInv, g, Phase

\* The map is freed: js_map_finalizer.
LEMMA FreeInv ==
    ASSUME NEW m, NEW k, MapInv(m, k)
    PROVE  LET g == js_map_finalizer(m)
           IN  /\ MapInv(g, k)
               /\ g.n = m.n /\ g.state = "freed" /\ Full(g) = {}
<1> DEFINE key == [r \in DOMAIN m.key |-> Undefined]
           ref == [r \in DOMAIN m.ref |-> 0]
           g == js_map_finalizer(m)
<1>1. MapType(m) /\ WalkType(k) /\ WalkInv(m, k) /\ ~m.bad
  BY DEF MapInv
<1>2. m.n \in Nat /\ DOMAIN m.key = 1..m.n /\ DOMAIN m.ref = 1..m.n
  BY <1>1 DEF MapType
<1>3. key \in [1..m.n -> Keys \cup {Undefined}] /\ ref \in [1..m.n -> Nat]
  BY <1>2
<1>4. g = [m EXCEPT !.linked = {}, !.empty = {}, !.table = <<>>, !.size = 0,
                    !.key = key, !.ref = ref, !.state = "freed"]
  BY DEF js_map_finalizer
<1> HIDE DEF key, ref, g
<1>5. /\ key \in Seq(Keys \cup {Undefined}) /\ Len(key) = m.n
      /\ ref \in Seq(Nat) /\ Len(ref) = m.n
  BY <1>2, <1>3, FunctionIsSeq
<1>6. /\ g.n = m.n /\ g.size = 0 /\ g.state = "freed" /\ g.key = key
      /\ g.ref = ref /\ g.linked = {} /\ g.empty = {} /\ g.table = <<>>
  BY <1>1, <1>4 DEF MapType
<1>7. g.bad = m.bad
  BY <1>1, <1>4 DEF MapType
<1>8. g \in [n : 0..MaxRecords, linked : SUBSET Nat, empty : SUBSET Nat,
              key : Seq(Keys \cup {Undefined}), ref : Seq(Nat), count : Nat,
              size : Nat, threshold : Nat, bad : BOOLEAN,
              table : [Buckets(0) -> SUBSET Nat] \cup {<<>>},
              el : 0..MaxRecords,
              state : {"live", "clearing", "lost", "dying", "freed"}]
  BY <1>1, <1>4, <1>5 DEF MapType
<1>9. MapType(g)
  BY <1>5, <1>6, <1>8 DEF MapType
<1>10. WalkInv(g, k) /\ Full(g) = {}
  BY <1>1, <1>6 DEF WalkInv, Full
<1>11. QED
  BY <1>1, <1>6, <1>7, <1>9, <1>10 DEF MapInv, g

\* get finds a full record with the key, if there is one in the same form.
LEMMA GetFinds ==
    ASSUME NEW m, NEW k, MapInv(m, k), m.state # "freed", NEW x \in Keys
    PROVE  LET y == map_normalize_key(x)
               got == js_map_get(m, x)
           IN  /\ got \subseteq {r \in Full(m) : Same(m.key[r], x)}
               /\ \A r \in Full(m) : m.key[r] = y => got # {}
               /\ \A r \in got : FirstOf(got) = r
               /\ y \in Normal
               /\ \A r \in Full(m) :
                     Same(m.key[r], x) /\ (m.key[r].tag = x.tag \/ x.num = 0)
                        => m.key[r] = y
<1> DEFINE y == map_normalize_key(x)
           b == Bucket(y, m.size)
           same == {r \in m.table[b] : Same(m.key[r], y)}
           got == js_map_get(m, x)
<1>1. MapType(m) /\ TableInv(m) /\ KeyInv(m)
  BY DEF MapInv
<1>2. y \in Keys /\ y.num = x.num /\ map_normalize_key(y) = y
  BY KeysAssumption DEF map_normalize_key, Zero
<1>3. y \in Normal
  BY <1>2 DEF Normal
<1>4. ASSUME NEW r \in Full(m), Same(m.key[r], x), m.key[r].tag = x.tag \/ x.num = 0
      PROVE  m.key[r] = y
  <2>1. m.key[r] \in Keys /\ map_normalize_key(m.key[r]) = m.key[r]
    BY <1>1 DEF KeyInv, Normal
  <2>2. QED
    BY <1>4, <2>1, KeysAssumption DEF map_normalize_key, Zero, Same
<1>5. b \in Buckets(m.size)
  BY DEF Bucket, Buckets
<1>6. m.table[b] \in SUBSET Nat /\ Full(m) \in SUBSET Nat
  BY <1>1, <1>5 DEF TableInv, MapType, Full
<1>7. \A r : r \in m.table[b] <=> r \in Full(m) /\ Bucket(m.key[r], m.size) = b
  <2> HIDE DEF b
  <2> QED
    BY <1>1, <1>5, <1>6 DEF TableInv
<1>8. same \subseteq {r \in Full(m) : Same(m.key[r], x)}
  <2>1. \A r : Same(m.key[r], y) => Same(m.key[r], x)
    BY <1>2 DEF Same
  <2> HIDE DEF b, y
  <2>2. QED
    BY <1>7, <2>1
<1>9. ASSUME NEW r \in Full(m), m.key[r] = y PROVE r \in same
  BY <1>7, <1>9 DEF Same
<1>10. got = IF same = {} THEN {} ELSE {FirstOf(same)}
  BY DEF js_map_get, map_find_record
<1>11. same \in SUBSET Nat
  BY <1>6
<1> HIDE DEF same, got, y, b
<1>12. same # {} => FirstOf(same) \in same
  BY <1>11, FirstOfIsFirst
<1>13. got \subseteq same /\ (same # {} => got # {})
  BY <1>10, <1>12
<1>14. ASSUME NEW r \in got PROVE FirstOf(got) = r
  <2>1. got = {r}
    BY <1>10, <1>14
  <2>2. r \in Nat
    BY <1>11, <1>13
  <2>3. FirstOf(got) \in got
    BY <2>1, <2>2, FirstOfIsFirst
  <2>4. QED
    BY <2>1, <2>3
<1>15. QED
  BY <1>3, <1>4, <1>8, <1>9, <1>13, <1>14 DEF y, got

-----------------------------------------------------------------------------
\* The calls of forEach have come to a record each, and keep the map.
CallInv ==
    /\ calls \in Seq(Calls)
    /\ calls # <<>> => map.state \in {"live", "clearing", "lost"}
    /\ \A i \in 1..Len(calls) : walk[calls[i]].at = "on"
    /\ \A i, j \in 1..Len(calls) : calls[i] = calls[j] => i = j

\* An iterator that only a value refers to is alive, and so is the record; a
\* value is one iterator at most.
Owned(m, k) ==
    \A w \in Walkers : k[w].owner # 0 =>
        /\ w \in Iterators /\ k[w].owner \in Full(m)
        /\ k[w].at \in {"new", "on", "done"}
        /\ \A v \in Walkers : k[v].owner = k[w].owner => v = w

\* The loop of clear has emptied the records that it has passed.
Passed(m) == \A r \in Full(m) : m.el <= r

Inv ==
    /\ MapInv(map, walk) /\ CallInv /\ held \in BOOLEAN
    /\ map.state \in {"live", "clearing"} => Owned(map, walk)
    /\ map.state = "clearing" => Passed(map)

\* Owners that stay the same, with full records, are right.
LEMMA OwnedStay ==
    ASSUME NEW m, NEW k, NEW g, NEW j, Owned(m, k),
           \A w \in Walkers : j[w].owner # 0 =>
               /\ j[w].owner = k[w].owner /\ j[w].owner \in Full(g)
               /\ j[w].at \in {"new", "on", "done"}
    PROVE  Owned(g, j)
BY DEF Owned

\* Calls stay as they are while iterators are freed.
LEMMA CallsKeep ==
    ASSUME CallInv, calls' = calls, map'.state \in {"live", "clearing", "lost"},
           \A v \in Walkers \ Iterators : walk'[v].at = walk[v].at
    PROVE  CallInv'
<1>1. \A i \in 1..Len(calls) : calls[i] \in Walkers \ Iterators
  BY MapAssumption DEF CallInv, Walkers
<1>2. QED
  BY <1>1 DEF CallInv

\* Calls stay as they are while the walkers that are not among them move.
LEMMA CallsStay ==
    ASSUME CallInv, NEW w, \A i \in 1..Len(calls) : calls[i] # w,
           WalkType(walk), \A v \in Walkers \ {w} : walk'[v] = walk[v],
           calls' = calls, map'.state = map.state
    PROVE  CallInv'
<1>1. \A i \in 1..Len(calls) : calls[i] \in Walkers \ {w}
  BY DEF CallInv, Walkers
<1>2. QED
  BY <1>1 DEF CallInv

\* An iterator is not a call.
LEMMA IteratorNoCall ==
    ASSUME CallInv, NEW w \in Iterators
    PROVE  w \in Walkers /\ \A i \in 1..Len(calls) : calls[i] # w
BY MapAssumption DEF CallInv, Walkers

\* The innermost call.
LEMMA LastCall ==
    ASSUME CallInv, calls # <<>>
    PROVE  /\ Last(calls) \in Calls /\ Last(calls) \in Walkers
           /\ walk[Last(calls)].at = "on"
           /\ Front(calls) \in Seq(Calls)
           /\ Len(Front(calls)) = Len(calls) - 1
           /\ \A i \in 1..Len(calls) - 1 : /\ Front(calls)[i] = calls[i]
                                           /\ calls[i] # Last(calls)
<1>1. Len(calls) \in Nat \ {0} /\ Last(calls) = calls[Len(calls)]
  BY DEF CallInv, Last
<1>2. Last(calls) \in Calls /\ walk[Last(calls)].at = "on"
  BY <1>1 DEF CallInv
<1>3. /\ Front(calls) \in Seq(Calls) /\ Len(Front(calls)) = Len(calls) - 1
      /\ \A i \in 1..Len(calls) - 1 : Front(calls)[i] = calls[i]
  <2> DEFINE n == Len(calls) - 1
  <2>1. n \in Nat /\ \A i \in 1..n : calls[i] \in Calls
    BY <1>1 DEF CallInv
  <2> HIDE DEF n
  <2>2. /\ SubSeq(calls, 1, n) \in Seq(Calls)
        /\ Len(SubSeq(calls, 1, n)) = IF 1 <= n THEN n - 1 + 1 ELSE 0
        /\ \A i \in 1..(n - 1 + 1) : SubSeq(calls, 1, n)[i] = calls[1 + i - 1]
    BY <2>1, SubSeqProperties
  <2>3. /\ Len(SubSeq(calls, 1, n)) = n
        /\ \A i \in 1..n : SubSeq(calls, 1, n)[i] = calls[i]
    BY <2>1, <2>2
  <2>4. QED
    BY <2>2, <2>3 DEF Front, n
<1>4. \A i \in 1..Len(calls) - 1 : calls[i] # Last(calls)
  BY <1>1 DEF CallInv
<1>5. QED
  BY <1>2, <1>3, <1>4 DEF Walkers

\* The innermost call ends.
LEMMA CallEnds ==
    ASSUME CallInv, calls # <<>>, calls' = Front(calls),
           \A v \in Walkers \ {Last(calls)} : walk'[v] = walk[v],
           map'.state = map.state
    PROVE  CallInv'
<1> DEFINE c == Front(calls)
<1>1. /\ c \in Seq(Calls) /\ Len(c) = Len(calls) - 1 /\ Len(calls) \in Nat
      /\ \A i \in 1..Len(calls) - 1 : c[i] = calls[i] /\ calls[i] # Last(calls)
  BY LastCall DEF CallInv
<1> HIDE DEF c
<1>2. \A i \in 1..Len(c) : /\ i \in 1..Len(calls) /\ c[i] = calls[i]
                           /\ c[i] \in Walkers \ {Last(calls)}
  BY <1>1 DEF Walkers
<1>3. \A i \in 1..Len(c) : walk'[c[i]].at = "on"
  BY <1>2 DEF CallInv
<1>4. \A i, j \in 1..Len(c) : c[i] = c[j] => i = j
  BY <1>2 DEF CallInv
<1>5. map.state \in {"live", "clearing", "lost"}
  BY DEF CallInv
<1>6. QED
  BY <1>1, <1>3, <1>4, <1>5 DEF CallInv, c

-----------------------------------------------------------------------------
(***************************************************************************)
(* What scripts see of a step.                                             *)
(***************************************************************************)
IndexOf(x) ==
    CASE x.at = "done" -> Ended
      [] x.at = "freed" -> Abandoned
      [] OTHER -> x.cur

\* Entries and Index are functions.
LEMMA ViewFunctions ==
    ASSUME TRUE
    PROVE  /\ Entries = [i \in 1..map.n |-> Entries[i]] /\ DOMAIN Entries = 1..map.n
           /\ Index = [w \in Walkers |-> Index[w]]
BY DEF Entries, Index

\* Locks change nothing.
LEMMA ViewSame ==
    ASSUME SameContent(map, map')
    PROVE  Entries' = Entries
BY DEF SameContent, Entries, Full

\* An emptied record is a hole.
LEMMA ViewEmptied ==
    ASSUME map.state = "live", NEW S, map'.state = "live", map'.n = map.n,
           Full(map') = Full(map) \ S, \A i \in Full(map') : map'.key[i] = map.key[i]
    PROVE  Entries' = Ecma!Holes(S)
<1>1. Entries' = [i \in 1..map.n |-> IF i \in Full(map') THEN map'.key[i] ELSE Undefined]
  BY DEF Entries, Full, Undefined
<1>2. Entries = [i \in 1..map.n |-> IF i \in Full(map) THEN map.key[i] ELSE Undefined]
  BY DEF Entries
<1>3. QED
  BY <1>1, <1>2 DEF Ecma!Holes

\* A map without full records, or one that is being cleared, has holes only.
LEMMA ViewGone ==
    ASSUME map'.n = map.n, Full(map') = {} \/ map'.state \in {"clearing", "lost"}
    PROVE  Entries' = Ecma!Holes(DOMAIN Entries)
<1>1. Entries' = [i \in 1..map.n |-> Undefined]
  BY DEF Entries, Full, Undefined
<1>2. QED
  BY <1>1 DEF Entries, Ecma!Holes

\* An entry is a key or a hole, never both.
LEMMA EntryOfFull ==
    ASSUME MapInv(map, walk), map.state = "live"
    PROVE  /\ Full(map) \in SUBSET (1..map.n)
           /\ \A i \in 1..map.n : Entries[i] # Undefined <=> i \in Full(map)
<1>1. MapType(map) /\ KeyInv(map)
  BY DEF MapInv
<1>2. Full(map) \in SUBSET (1..map.n)
  BY <1>1, FullFinite
<1>3. \A i \in Full(map) : map.key[i] # Undefined
  <2>1. \A i \in Full(map) : map.key[i].num \in Nat
    BY <1>1, KeysAssumption DEF KeyInv, Normal
  <2>2. Undefined.num = -1
    BY DEF Undefined
  <2>3. QED
    BY <2>1, <2>2
<1>4. QED
  BY <1>2, <1>3 DEF Entries

\* One walker moves.
LEMMA ViewMoved ==
    ASSUME NEW w \in Walkers, \A v \in Walkers \ {w} : walk'[v] = walk[v]
    PROVE  /\ Index' = [Index EXCEPT ![w] = IndexOf(walk'[w])]
           /\ Index[w] = IndexOf(walk[w])
BY DEF Index, IndexOf, Ended, Abandoned

\* Walkers are given up: their indices say so.
LEMMA ViewFreed ==
    ASSUME NEW W \in SUBSET Walkers,
           \A v \in W : walk'[v].at = "freed",
           \A v \in Walkers \ W : walk'[v].at = walk[v].at /\ walk'[v].cur = walk[v].cur
    PROVE  Index' = [v \in Walkers |-> IF v \in W THEN Abandoned ELSE Index[v]]
<1>1. \A v \in W : IndexOf(walk'[v]) = Abandoned
  BY DEF IndexOf
<1>2. \A v \in Walkers \ W : IndexOf(walk'[v]) = IndexOf(walk[v])
  BY DEF IndexOf
<1>3. /\ Index = [v \in Walkers |-> IndexOf(walk[v])]
      /\ Index' = [v \in Walkers |-> IndexOf(walk'[v])]
  BY DEF Index, IndexOf, Ended, Abandoned
<1>4. QED
  BY <1>1, <1>2, <1>3

\* No walk moves.
LEMMA ViewStill ==
    ASSUME \A v \in Walkers : walk'[v].at = walk[v].at /\ walk'[v].cur = walk[v].cur
    PROVE  /\ Index' = Index
           /\ Index' = [v \in Walkers |-> IF v \in {} THEN Abandoned ELSE Index[v]]
<1>1. \A v \in Walkers : IndexOf(walk'[v]) = IndexOf(walk[v])
  BY DEF IndexOf
<1>2. /\ Index = [v \in Walkers |-> IndexOf(walk[v])]
      /\ Index' = [v \in Walkers |-> IndexOf(walk'[v])]
  BY DEF Index, IndexOf, Ended, Abandoned
<1>3. QED
  BY <1>1, <1>2

\* At most one walk is given up, and the entries stay.
LEMMA ViewAbandon ==
    ASSUME NEW W \in SUBSET Walkers, W = {} \/ \E w \in Walkers : W = {w},
           Entries' = Entries,
           Index' = [v \in Walkers |-> IF v \in W THEN Abandoned ELSE Index[v]]
    PROVE  [Ecma!Next(Keys)]_(Ecma!vars)
<1>1. CASE W = {}
  <2>1. Index' = Index
    BY <1>1, ViewFunctions
  <2>2. QED
    BY <2>1 DEF Ecma!vars
<1>2. ASSUME NEW w \in Walkers, W = {w} PROVE Ecma!Abandon(w)
  <2>1. Ecma!Holes({}) = Entries
    BY ViewFunctions DEF Ecma!Holes
  <2>2. QED
    BY <1>2, <2>1 DEF Ecma!Abandon, Ecma!Remove
<1>3. QED
  BY <1>1, <1>2 DEF Ecma!Next

\* A step of a walker takes the next entry, or there is none.
LEMMA ViewStep ==
    ASSUME MapInv(map, walk), map.state = "live",
           NEW w \in Walkers, walk[w].at \notin {"done", "freed"}, Step(w)
    PROVE  Ecma!Advance(w)
<1> DEFINE left == LeftOf(map, walk[w].cur)
<1>1. /\ SameContent(map, map')
      /\ \A v \in Walkers \ {w} : walk'[v] = walk[v]
      /\ left = {} => walk'[w].at = "done" /\ walk'[w].cur = 0
      /\ left # {} => walk'[w].at = "on" /\ walk'[w].cur = FirstOf(left)
  BY StepInv
<1>2. Entries' = Entries
  BY <1>1, ViewSame
<1>3. Index' = [Index EXCEPT ![w] = IndexOf(walk'[w])] /\ Index[w] = walk[w].cur
  BY <1>1, ViewMoved DEF IndexOf
<1>4. walk[w].cur \in Nat
  BY MapAssumption DEF MapInv, WalkType
<1>5. Index[w] \notin {Ended, Abandoned}
  BY <1>3, <1>4 DEF Ended, Abandoned
<1>6. Ecma!Left(w) = left
  <2>1. DOMAIN Entries = 1..map.n
    BY DEF Entries
  <2>2. QED
    BY <1>3, <2>1, EntryOfFull DEF Ecma!Left, LeftOf
<1>7. IndexOf(walk'[w]) = IF left = {} THEN Ended ELSE FirstOf(left)
  BY <1>1 DEF IndexOf
<1>8. QED
  BY <1>2, <1>3, <1>5, <1>6, <1>7 DEF Ecma!Advance, FirstOf

-----------------------------------------------------------------------------
(***************************************************************************)
(* The value of a record is freed.                                         *)
(***************************************************************************)
LEMMA FreeValueInv ==
    ASSUME MapInv(map, walk), Owned(map, walk), NEW r \in Nat \ {0}
    PROVE  /\ MapInv(FreeValue(map, r), Without(ValueOf(r)))
           /\ SameContent(map, FreeValue(map, r))
           /\ ValueOf(r) \in SUBSET Iterators
           /\ ValueOf(r) = {} \/ \E w \in Walkers : ValueOf(r) = {w}
           /\ \A w \in Walkers : walk[w].owner = r <=> w \in ValueOf(r)
<1>1. WalkType(walk)
  BY DEF MapInv
<1>2. \A w \in Walkers : walk[w].owner = r <=> w \in ValueOf(r)
  BY DEF Owned, ValueOf
<1>3. ValueOf(r) \in SUBSET Iterators /\ Iterators \subseteq Walkers
  BY DEF ValueOf, Walkers
<1>4. CASE ValueOf(r) = {}
  <2>1. FreeValue(map, r) = map
    BY <1>4 DEF FreeValue
  <2>2. Without({}) = walk
    BY <1>1 DEF Without, WalkType
  <2>3. QED
    BY <1>2, <1>3, <1>4, <2>1, <2>2 DEF SameContent
<1>5. CASE ValueOf(r) # {}
  <2>1. PICK w \in ValueOf(r) : TRUE
    BY <1>5
  <2>2. w \in Walkers /\ \A v \in ValueOf(r) : v = w
    BY <1>2, <1>3, <2>1 DEF Owned
  <2>3. ValueOf(r) = {w}
    BY <2>1, <2>2
  <2>4. FreeValue(map, r) = Finalize(map, w)
    BY <2>3 DEF FreeValue
  <2>5. QED
    BY <1>2, <1>3, <2>2, <2>3, <2>4, FinalizeInv
<1>6. QED
  BY <1>4, <1>5

\* map_delete_record for a full record.
LEMMA DeleteInv ==
    ASSUME MapInv(map, walk), Owned(map, walk), map.state \in {"live", "clearing"},
           NEW r \in Full(map)
    PROVE  LET g == map_delete_record(map, r)
               j == Without(ValueOf(r))
           IN  /\ MapInv(g, j) /\ Owned(g, j)
               /\ g.n = map.n /\ g.state = map.state
               /\ Full(g) = Full(map) \ {r}
               /\ \A q \in Full(g) : g.key[q] = map.key[q]
<1> DEFINE f == FreeValue(map, r)
           g == map_delete_record(map, r)
           j == Without(ValueOf(r))
<1>1. WalkType(walk) /\ MapType(map)
  BY DEF MapInv
<1>2. Full(map) \in SUBSET (1..map.n) /\ r \in Nat \ {0} /\ r \notin map.empty
  <2>1. Full(map) \in SUBSET (1..map.n)
    BY <1>1, FullFinite
  <2>2. r \in 1..map.n /\ map.n \in Nat
    BY <1>1, <2>1 DEF MapType
  <2>3. QED
    BY <2>1, <2>2 DEF Full
<1>3. /\ MapInv(f, j) /\ SameContent(map, f)
      /\ \A w \in Walkers : walk[w].owner = r <=> w \in ValueOf(r)
      /\ ValueOf(r) \in SUBSET Walkers
  BY <1>2, FreeValueInv DEF Walkers
<1>4. g = Vacate(f, r)
  BY <1>2 DEF map_delete_record
<1>5. r \in Full(f) /\ f.state # "freed"
  BY <1>3 DEF SameContent
<1> HIDE DEF f, g, j
<1>6. MapInv(g, j) /\ Emptied(f, g, {r})
  BY <1>3, <1>4, <1>5, VacateInv
<1>7. /\ g.n = map.n /\ g.state = map.state /\ Full(g) = Full(map) \ {r}
      /\ \A q \in Full(g) : g.key[q] = map.key[q]
  BY <1>2, <1>3, <1>6 DEF Emptied, SameContent
<1>8. Owned(g, j)
  <2>1. ASSUME NEW w \in Walkers, j[w].owner # 0
        PROVE  /\ j[w].owner = walk[w].owner /\ j[w].owner \in Full(g)
               /\ j[w].at \in {"new", "on", "done"}
    <3>1. w \notin ValueOf(r) /\ j[w] = walk[w]
      BY <1>1, <1>3, <2>1, WithoutType DEF j, FreedWalker
    <3>2. walk[w].owner # r
      BY <1>3, <3>1
    <3>3. QED
      BY <1>7, <2>1, <3>1, <3>2 DEF Owned
  <2>2. QED
    BY <2>1, OwnedStay
<1>9. QED
  BY <1>6, <1>7, <1>8 DEF g, j

-----------------------------------------------------------------------------
(***************************************************************************)
(* One lemma for each action: the invariant holds after it, and scripts    *)
(* see a step of EcmaMap, or nothing.                                      *)
(***************************************************************************)

\* js_map_set with a key that has no record.
LEMMA SetAdds ==
    ASSUME Inv, NEW k \in Keys, NEW v \in SUBSET Iterators, Set(k, v),
           v = {} \/ \E w \in Iterators : v = {w},
           js_map_get(map, k) = {}
    PROVE  Inv' /\ [Ecma!Next(Keys)]_(Ecma!vars)
<1> DEFINE x == map_normalize_key(k)
           r == map.n + 1
<1>1. /\ MapInv(map, walk) /\ map.state = "live" /\ CallInv /\ Owned(map, walk)
      /\ WalkType(walk) /\ MapType(map) /\ held \in BOOLEAN
      /\ UNCHANGED <<calls, held>> /\ map.n < MaxRecords
      /\ \A w \in v : walk[w].at \in {"new", "on", "done"} /\ walk[w].owner = 0
      /\ walk' = [w \in Walkers |-> IF w \in v THEN [walk[w] EXCEPT !.owner = r]
                                   ELSE Without(ValueOf(r))[w]]
  BY DEF Inv, MapInv, Set, InUse
<1>2. PICK slack \in Slacks : map' = map_add_record(map, x, slack)
  BY DEF Set
<1>3. x \in Normal /\ \A q \in Full(map) : map.key[q] # x
  BY <1>1, GetFinds
<1>4. slack \in Nat /\ map.state # "freed"
  BY <1>1, MapAssumption
<1> DEFINE g == map_add_record(map, x, slack)
<1> HIDE DEF x
<1>5. /\ MapInv(g, walk) /\ g.n = r /\ g.key = Append(map.key, x)
      /\ g.state = map.state /\ Full(g) = Full(map) \cup {r}
  BY <1>1, <1>3, <1>4, AddInv
<1>6. map' = g
  BY <1>2
<1> HIDE DEF g
<1>7. /\ map.n \in Nat /\ map.key \in Seq(Keys \cup {Undefined}) /\ Len(map.key) = map.n
      /\ r \in 1..MaxRecords /\ r \in 0..MaxRecords
  BY <1>1, MapAssumption DEF MapType
<1>8. Full(map) \in SUBSET (1..map.n) /\ r \notin Full(map)
  <2>1. Full(map) \in SUBSET (1..map.n)
    BY <1>1, FullFinite
  <2>2. QED
    BY <1>7, <2>1
<1>9. \A w \in Walkers : walk[w].owner # r
  BY <1>7, <1>8, <1>1 DEF Owned
<1>10. ValueOf(r) = {} /\ Iterators \subseteq Walkers
  BY <1>9 DEF ValueOf, Walkers
<1> HIDE DEF r
<1>11. /\ WalkType(walk')
       /\ \A w \in v : walk'[w] = [walk[w] EXCEPT !.owner = r]
       /\ \A w \in Walkers \ v : walk'[w] = walk[w]
  <2>1. \A w \in Walkers \ v : walk'[w] = walk[w]
    BY <1>1, <1>10 DEF Without
  <2>2. \A w \in v : walk'[w] = [walk[w] EXCEPT !.owner = r]
    BY <1>1, <1>10
  <2>3. walk' = [w \in Walkers |-> walk'[w]]
    BY <1>1
  <2>4. \A w \in Walkers : walk'[w] \in [at : {"unused", "new", "on", "done", "freed"},
                                        cur : 0..MaxRecords, owner : 0..MaxRecords]
    BY <1>1, <1>7, <2>1, <2>2 DEF WalkType
  <2>5. QED
    BY <2>1, <2>2, <2>3, <2>4 DEF WalkType
<1>12. \A w \in Walkers : walk'[w].at = walk[w].at /\ walk'[w].cur = walk[w].cur
  BY <1>1, <1>10, <1>11 DEF WalkType
<1>13. MapInv(map, walk)'
  <2>1. MapInv(g, walk')
    BY <1>5, <1>11, <1>12, OwnerMoves
  <2>2. QED
    BY <1>6, <2>1
<1>14. map'.state = "live" /\ CallInv'
  <2>1. map'.state = "live"
    BY <1>1, <1>5, <1>6
  <2>2. QED
    BY <1>1, <1>12, <2>1, CallsKeep
<1>15. Owned(map', walk')
  <2>1. \A w \in Walkers : walk'[w].owner = IF w \in v THEN r ELSE walk[w].owner
    BY <1>1, <1>10, <1>11 DEF WalkType
  <2>2. Full(map') = Full(map) \cup {r}
    BY <1>5, <1>6
  <2>3. \A w, u \in v : w = u
    OBVIOUS
  <2>4. \A w \in v : w \in Iterators /\ walk[w].at \in {"new", "on", "done"}
    BY <1>1
  <2>5. QED
    BY <1>1, <1>9, <1>12, <2>1, <2>2, <2>3, <2>4 DEF Owned
<1>16. Inv'
  BY <1>1, <1>13, <1>14, <1>15 DEF Inv
<1>17. Entries' = Append(Entries, x)
  <2>1. Entries' = [i \in 1..map.n + 1 |-> IF i \in Full(g) THEN g.key[i] ELSE Undefined]
    BY <1>5, <1>6, <1>14 DEF Entries, Full, Undefined, r
  <2>2. Entries = [i \in 1..map.n |-> IF i \in Full(map) THEN map.key[i] ELSE Undefined]
    BY <1>1 DEF Entries
  <2>3. Entries' = [i \in 1..map.n + 1 |-> IF i = map.n + 1 THEN x ELSE Entries[i]]
    <3>1. \A i \in 1..map.n : /\ i \in 1..map.n + 1 /\ i # map.n + 1
                              /\ g.key[i] = map.key[i]
      BY <1>5, <1>7
    <3>2. map.n + 1 \in Full(g) /\ g.key[map.n + 1] = x
      BY <1>5, <1>7 DEF r
    <3>3. \A i \in 1..map.n + 1 : i = map.n + 1 \/ i \in 1..map.n
      BY <1>7
    <3>4. \A i \in 1..map.n : Entries[i] = IF i \in Full(g) THEN g.key[i] ELSE Undefined
      BY <1>5, <2>2, <3>1 DEF r
    <3>5. \A i \in 1..map.n + 1 :
             (IF i \in Full(g) THEN g.key[i] ELSE Undefined)
               = IF i = map.n + 1 THEN x ELSE Entries[i]
      BY <3>1, <3>2, <3>3, <3>4
    <3>6. QED
      BY <2>1, <3>5
  <2>4. Entries \in Seq({Entries[i] : i \in 1..map.n}) /\ Len(Entries) = map.n
    <3>1. Entries \in [1..map.n -> {Entries[i] : i \in 1..map.n}]
      BY DEF Entries
    <3>2. QED
      BY <1>7, <3>1, FunctionIsSeq
  <2>5. QED
    BY <1>7, <2>3, <2>4, AppendIs
<1>18. x \in Keys /\ x # Undefined /\ \A i \in DOMAIN Entries : Entries[i] # x
  <2>1. x \in Keys /\ x.num \in Nat
    BY <1>3, KeysAssumption DEF Normal
  <2>2. Undefined.num = -1
    BY DEF Undefined
  <2>3. x # Undefined
    BY <2>1, <2>2
  <2>4. QED
    BY <1>3, <2>1, <2>3 DEF Entries
<1>19. UNCHANGED Index
  BY <1>12, ViewStill
<1>20. Ecma!Add(x)
  BY <1>17, <1>18, <1>19 DEF Ecma!Add
<1>21. QED
  BY <1>16, <1>18, <1>20 DEF Ecma!Next

\* js_map_set with a key that has a record.
LEMMA SetReplaces ==
    ASSUME Inv, NEW k \in Keys, NEW v \in SUBSET Iterators, Set(k, v),
           v = {} \/ \E w \in Iterators : v = {w},
           js_map_get(map, k) # {}
    PROVE  Inv' /\ [Ecma!Next(Keys)]_(Ecma!vars)
<1> DEFINE r == FirstOf(js_map_get(map, k))
           W == ValueOf(r)
           f == FreeValue(map, r)
<1>1. /\ MapInv(map, walk) /\ map.state = "live" /\ CallInv /\ Owned(map, walk)
      /\ WalkType(walk) /\ MapType(map) /\ held \in BOOLEAN
      /\ UNCHANGED <<calls, held>> /\ map' = f
      /\ \A w \in v : walk[w].at \in {"new", "on", "done"} /\ walk[w].owner = 0
      /\ walk' = [w \in Walkers |-> IF w \in v THEN [walk[w] EXCEPT !.owner = r]
                                   ELSE Without(W)[w]]
  BY DEF Inv, MapInv, Set, InUse
<1>2. r \in Full(map)
  <2>1. PICK q \in js_map_get(map, k) : TRUE
    OBVIOUS
  <2>2. q \in Full(map) /\ r = q
    BY <1>1, GetFinds
  <2>3. QED
    BY <2>2
<1>3. r \in Nat \ {0} /\ r \in 0..MaxRecords
  <2>1. r \in 1..map.n /\ map.n \in 0..MaxRecords
    BY <1>1, <1>2, FullFinite DEF MapType
  <2>2. QED
    BY <2>1, MapAssumption
<1> HIDE DEF r
<1>4. /\ MapInv(f, Without(W)) /\ SameContent(map, f)
      /\ W \in SUBSET Iterators /\ (W = {} \/ \E w \in Walkers : W = {w})
      /\ \A w \in Walkers : walk[w].owner = r <=> w \in W
  BY <1>1, <1>3, FreeValueInv
<1> HIDE DEF W, f
<1>5. Iterators \subseteq Walkers /\ W \in SUBSET Walkers /\ v \cap W = {}
  <2>1. Iterators \subseteq Walkers
    BY DEF Walkers
  <2>2. QED
    BY <1>1, <1>3, <1>4, <2>1
<1>6. /\ \A w \in W : Without(W)[w] = FreedWalker
      /\ \A w \in Walkers \ W : Without(W)[w] = walk[w]
      /\ WalkType(Without(W))
  BY <1>1, <1>5, WithoutType
<1>7. /\ \A w \in v : walk'[w] = [walk[w] EXCEPT !.owner = r]
      /\ \A w \in W : walk'[w] = FreedWalker
      /\ \A w \in Walkers \ (v \cup W) : walk'[w] = walk[w]
      /\ \A w \in Walkers \ v : walk'[w] = Without(W)[w]
      /\ WalkType(walk')
  <2>1. /\ \A w \in v : walk'[w] = [walk[w] EXCEPT !.owner = r]
        /\ \A w \in W : walk'[w] = FreedWalker
        /\ \A w \in Walkers \ (v \cup W) : walk'[w] = walk[w]
        /\ \A w \in Walkers \ v : walk'[w] = Without(W)[w]
    BY <1>1, <1>5, <1>6
  <2>2. walk' = [w \in Walkers |-> walk'[w]]
    BY <1>1
  <2>3. \A w \in Walkers : walk'[w] \in [at : {"unused", "new", "on", "done", "freed"},
                                        cur : 0..MaxRecords, owner : 0..MaxRecords]
    BY <1>1, <1>3, <1>5, <1>6, <2>1 DEF WalkType
  <2>4. QED
    BY <2>1, <2>2, <2>3 DEF WalkType
<1>8. /\ \A w \in v : /\ walk'[w].at = walk[w].at /\ walk'[w].cur = walk[w].cur
                      /\ walk'[w].owner = r
      /\ \A w \in W : walk'[w].at = "freed" /\ walk'[w].owner = 0
  <2>1. \A w \in v : /\ walk'[w].at = walk[w].at /\ walk'[w].cur = walk[w].cur
                     /\ walk'[w].owner = r
    BY <1>1, <1>5, <1>7 DEF WalkType
  <2>2. QED
    BY <1>7, <2>1 DEF FreedWalker
<1>9. MapInv(map, walk)'
  <2>1. \A w \in Walkers : /\ walk'[w].at = Without(W)[w].at
                           /\ walk'[w].cur = Without(W)[w].cur
    BY <1>5, <1>6, <1>7, <1>8
  <2>2. MapInv(f, walk')
    BY <1>4, <1>7, <2>1, OwnerMoves
  <2>3. QED
    BY <1>1, <2>2
<1>10. map'.state = "live" /\ Full(map') = Full(map) /\ SameContent(map, map')
  BY <1>1, <1>4 DEF SameContent
<1>11. CallInv'
  <2>1. \A w \in Walkers \ Iterators : walk'[w].at = walk[w].at
    BY <1>4, <1>7
  <2>2. QED
    BY <1>1, <1>10, <2>1, CallsKeep
<1>12. Owned(map', walk')
  <2>1. \A w, u \in v : w = u
    OBVIOUS
  <2>2. \A w \in v : w \in Iterators /\ walk'[w].at \in {"new", "on", "done"}
    BY <1>1, <1>8
  <2>3. \A w \in Walkers \ (v \cup W) : walk'[w].owner # r
    BY <1>4, <1>7
  <2>4. ASSUME NEW w \in Walkers, walk'[w].owner # 0
        PROVE  /\ w \in Iterators /\ walk'[w].owner \in Full(map')
               /\ walk'[w].at \in {"new", "on", "done"}
               /\ \A u \in Walkers : walk'[u].owner = walk'[w].owner => u = w
    <3>1. CASE w \in v
      BY <1>2, <1>3, <1>8, <1>10, <2>1, <2>2, <2>3, <3>1
    <3>2. CASE w \notin v
      <4>1. w \notin W /\ walk'[w] = walk[w] /\ walk'[w].owner # r
        BY <1>7, <1>8, <2>3, <2>4, <3>2
      <4>2. \A u \in Walkers : walk'[u].owner = walk'[w].owner => walk'[u] = walk[u]
        BY <1>7, <1>8, <2>4, <4>1
      <4>3. Owned(map, walk)
        BY <1>1
      <4>4. walk[w].owner # 0
        BY <2>4, <4>1
      <4>5. /\ w \in Iterators /\ walk[w].owner \in Full(map)
            /\ walk[w].at \in {"new", "on", "done"}
            /\ \A u \in Walkers : walk[u].owner = walk[w].owner => u = w
        BY <4>3, <4>4 DEF Owned
      <4>6. QED
        BY <1>10, <4>1, <4>2, <4>5
    <3>3. QED
      BY <3>1, <3>2
  <2>5. QED
    BY <2>4 DEF Owned
<1>13. Inv'
  BY <1>1, <1>9, <1>10, <1>11, <1>12 DEF Inv
<1>14. Index' = [w \in Walkers |-> IF w \in W THEN Abandoned ELSE Index[w]]
  <2>1. \A w \in Walkers \ W : walk'[w].at = walk[w].at /\ walk'[w].cur = walk[w].cur
    BY <1>7, <1>8
  <2>2. QED
    BY <1>5, <1>8, <2>1, ViewFreed
<1>15. Entries' = Entries
  BY <1>10, ViewSame
<1>16. QED
  BY <1>4, <1>5, <1>13, <1>14, <1>15, ViewAbandon

LEMMA DeleteStep ==
    ASSUME Inv, NEW k \in Keys, Delete(k)
    PROVE  Inv' /\ [Ecma!Next(Keys)]_(Ecma!vars)
<1>1. /\ MapInv(map, walk) /\ map.state = "live" /\ CallInv /\ Owned(map, walk)
      /\ WalkType(walk) /\ held \in BOOLEAN /\ UNCHANGED <<calls, held>>
  BY DEF Inv, MapInv, Delete, InUse
<1>2. PICK r \in js_map_get(map, k) : /\ map' = map_delete_record(map, r)
                                      /\ walk' = Without(ValueOf(r))
  BY DEF Delete
<1>3. r \in Full(map)
  BY <1>1, <1>2, GetFinds
<1>4. /\ MapInv(map', walk') /\ Owned(map', walk')
      /\ map'.n = map.n /\ map'.state = map.state
      /\ Full(map') = Full(map) \ {r}
      /\ \A q \in Full(map') : map'.key[q] = map.key[q]
  BY <1>1, <1>2, <1>3, DeleteInv
<1>5. ValueOf(r) \in SUBSET Walkers /\ ValueOf(r) \in SUBSET Iterators
  BY DEF ValueOf, Walkers
<1>6. /\ \A w \in ValueOf(r) : walk'[w].at = "freed"
      /\ \A w \in Walkers \ ValueOf(r) : walk'[w] = walk[w]
  BY <1>1, <1>2, <1>5, WithoutType DEF FreedWalker
<1>7. CallInv'
  <2>1. \A w \in Walkers \ Iterators : walk'[w].at = walk[w].at
    BY <1>5, <1>6
  <2>2. QED
    BY <1>1, <1>4, <2>1, CallsKeep
<1>8. Inv'
  BY <1>1, <1>4, <1>7 DEF Inv
<1>9. Entries' = Ecma!Holes({r})
  BY <1>1, <1>4, ViewEmptied
<1>10. Index' = [w \in Walkers |-> IF w \in ValueOf(r) THEN Abandoned ELSE Index[w]]
  BY <1>5, <1>6, ViewFreed
<1>11. r \in DOMAIN Entries
  BY <1>1, <1>3, EntryOfFull DEF Entries
<1>12. Ecma!Remove({r}, ValueOf(r))
  BY <1>9, <1>10 DEF Ecma!Remove
<1>13. QED
  BY <1>5, <1>8, <1>11, <1>12 DEF Ecma!Next

\* The record behind another one in the list.
LEMMA NextOfIs ==
    ASSUME NEW m, MapType(m), NEW r \in Nat
    PROVE  /\ NextOf(m, r) \in 0..MaxRecords
           /\ NextOf(m, r) = 0 => Behind(m, r) = {}
           /\ \A q \in Behind(m, r) : NextOf(m, r) <= q
<1>1. Behind(m, r) \in SUBSET Nat /\ Behind(m, r) \in SUBSET (1..m.n) /\ m.n \in 0..MaxRecords
  BY DEF Behind, MapType
<1>2. CASE Behind(m, r) = {}
  BY <1>2, MapAssumption DEF NextOf
<1>3. CASE Behind(m, r) # {}
  <2>1. /\ NextOf(m, r) \in Behind(m, r)
        /\ \A q \in Behind(m, r) : NextOf(m, r) <= q
    BY <1>1, <1>3, FirstOfIsFirst DEF NextOf
  <2>2. NextOf(m, r) \in 1..m.n
    BY <1>1, <2>1
  <2>3. QED
    BY <1>1, <2>1, <2>2, MapAssumption
<1>4. QED
  BY <1>2, <1>3

LEMMA ClearBegins ==
    ASSUME Inv, Clear
    PROVE  Inv' /\ [Ecma!Next(Keys)]_(Ecma!vars)
<1> DEFINE e == NextOf(map, 0)
           t == IF e = 0 THEN "live" ELSE "clearing"
<1>1. /\ MapInv(map, walk) /\ map.state = "live" /\ CallInv /\ Owned(map, walk)
      /\ MapType(map) /\ held \in BOOLEAN /\ UNCHANGED <<walk, calls, held>>
      /\ map' = [map EXCEPT !.el = e, !.state = t]
  BY DEF Inv, MapInv, Clear, InUse, ClearFrom
<1>2. /\ e \in 0..MaxRecords
      /\ e = 0 => Behind(map, 0) = {}
      /\ \A q \in Behind(map, 0) : e <= q
  BY <1>1, NextOfIs
<1>3. Full(map) \subseteq Behind(map, 0)
  <2>1. Full(map) \in SUBSET (1..map.n)
    BY <1>1, FullFinite
  <2>2. \A q \in Full(map) : q > 0
    BY <1>1, <2>1 DEF MapType
  <2>3. QED
    BY <2>2 DEF Behind, Full
<1>4. t \in {"live", "clearing", "lost", "dying"} /\ (t # "clearing" <=> e = 0)
  OBVIOUS
<1> HIDE DEF e, t
<1>5. /\ MapInv(map', walk) /\ map'.n = map.n /\ map'.key = map.key
      /\ Full(map') = Full(map) /\ map'.el = e /\ map'.state = t
  <2> DEFINE h == Phase(map, e, t)
  <2>1. /\ MapInv(h, walk) /\ h.n = map.n /\ h.key = map.key
        /\ Full(h) = Full(map) /\ h.el = e /\ h.state = t
    BY <1>1, <1>2, <1>4, PhaseInv
  <2>2. map' = h
    BY <1>1 DEF Phase
  <2> HIDE DEF h
  <2>3. QED
    BY <2>1, <2>2
<1>6. Owned(map', walk') /\ MapInv(map', walk')
  BY <1>1, <1>5 DEF Owned
<1>7. Passed(map')
  BY <1>2, <1>3, <1>5 DEF Passed
<1>8. map'.state \in {"live", "clearing"}
  BY <1>5 DEF t
<1>9. CallInv'
  BY <1>1, <1>8, CallsKeep
<1>10. Inv'
  BY <1>1, <1>6, <1>7, <1>9 DEF Inv
<1>11. Full(map') = {} \/ map'.state \in {"clearing", "lost"}
  BY <1>2, <1>3, <1>4, <1>5
<1>12. Entries' = Ecma!Holes(DOMAIN Entries)
  BY <1>5, <1>11, ViewGone
<1>13. Index' = [w \in Walkers |-> IF w \in {} THEN Abandoned ELSE Index[w]]
  BY <1>1, ViewStill
<1>14. QED
  BY <1>10, <1>12, <1>13 DEF Ecma!Next, Ecma!Remove

\* A turn of the loop of js_map_clear at a record of the list.
LEMMA ClearTurns ==
    ASSUME Inv, ClearStep, map.el \in map.linked
    PROVE  Inv' /\ [Ecma!Next(Keys)]_(Ecma!vars)
<1> DEFINE r == map.el
           W == ValueOf(r)
           g == map_delete_record(map, r)
           e == NextOf(map, r)
           t == IF e = 0 THEN "live" ELSE "clearing"
<1>1. /\ MapInv(map, walk) /\ map.state = "clearing" /\ CallInv /\ Owned(map, walk)
      /\ Passed(map) /\ MapType(map) /\ WalkType(walk) /\ held \in BOOLEAN
      /\ UNCHANGED <<calls, held>> /\ walk' = Without(W)
      /\ map' = [g EXCEPT !.el = e, !.state = t]
  BY DEF Inv, MapInv, ClearStep, ClearFrom
<1>2. r \in 1..map.n /\ r \in Nat /\ r \in Nat \ {0}
  BY <1>1 DEF MapType
<1>3. /\ e \in 0..MaxRecords
      /\ e = 0 => Behind(map, r) = {}
      /\ \A q \in Behind(map, r) : e <= q
  BY <1>1, <1>2, NextOfIs
<1>4. /\ W \in SUBSET Iterators /\ W \in SUBSET Walkers
      /\ W = {} \/ \E w \in Walkers : W = {w}
      /\ \A w \in Walkers : walk[w].owner = r <=> w \in W
  BY <1>1, <1>2, FreeValueInv DEF Walkers
<1>5. t \in {"live", "clearing", "lost", "dying"} /\ (t # "clearing" <=> e = 0)
      /\ t \in {"live", "clearing"}
  OBVIOUS
<1>6. /\ MapInv(g, walk') /\ Owned(g, walk') /\ g.state = "clearing" /\ g.n = map.n
      /\ Full(g) = Full(map) \ {r}
  <2>1. CASE r \in map.empty
    <3>1. g = map /\ r \notin Full(map)
      BY <2>1 DEF map_delete_record, Full
    <3>2. W = {}
      BY <1>4, <1>2, <3>1, <1>1 DEF Owned
    <3>3. Without({}) = walk
      BY <1>1 DEF Without, WalkType
    <3>4. QED
      BY <1>1, <3>1, <3>2, <3>3
  <2>2. CASE r \notin map.empty
    <3>1. r \in Full(map)
      BY <2>2 DEF Full
    <3>2. QED
      BY <1>1, <3>1, DeleteInv
  <2>3. QED
    BY <2>1, <2>2
<1> HIDE DEF g, e, t, W
<1>7. /\ MapInv(map', walk') /\ map'.n = g.n /\ map'.key = g.key
      /\ Full(map') = Full(g) /\ map'.el = e /\ map'.state = t
  <2> DEFINE h == Phase(g, e, t)
  <2>1. /\ MapInv(h, walk') /\ h.n = g.n /\ h.key = g.key
        /\ Full(h) = Full(g) /\ h.el = e /\ h.state = t
    BY <1>3, <1>5, <1>6, PhaseInv
  <2>2. map' = h
    BY <1>1 DEF Phase
  <2> HIDE DEF h
  <2>3. QED
    BY <2>1, <2>2
<1>8. Full(map') \subseteq Behind(map, r)
  <2>1. Full(map) \in SUBSET (1..map.n)
    BY <1>1, FullFinite
  <2>2. \A q \in Full(map') : q \in map.linked /\ q \in Nat /\ r <= q /\ q # r
    BY <1>1, <1>6, <1>7, <2>1 DEF Passed, Full
  <2>3. QED
    BY <1>2, <2>2 DEF Behind
<1>9. Passed(map') /\ Owned(map', walk')
  BY <1>3, <1>6, <1>7, <1>8 DEF Passed, Owned
<1>10. /\ \A w \in W : walk'[w].at = "freed"
       /\ \A w \in Walkers \ W : walk'[w] = walk[w]
  BY <1>1, <1>4, WithoutType DEF FreedWalker
<1>11. CallInv'
  <2>1. \A w \in Walkers \ Iterators : walk'[w].at = walk[w].at
    BY <1>4, <1>10
  <2>2. QED
    BY <1>1, <1>5, <1>7, <2>1, CallsKeep
<1>12. Inv'
  BY <1>1, <1>7, <1>9, <1>11 DEF Inv
<1>13. Full(map') = {} \/ map'.state \in {"clearing", "lost"}
  BY <1>3, <1>5, <1>7, <1>8
<1>14. Entries' = Entries
  <2>1. Entries' = [i \in 1..map.n |-> Undefined]
    BY <1>6, <1>7, <1>13 DEF Entries, Full, Undefined
  <2>2. Entries = [i \in 1..map.n |-> Undefined]
    BY <1>1 DEF Entries
  <2>3. QED
    BY <2>1, <2>2
<1>15. Index' = [w \in Walkers |-> IF w \in W THEN Abandoned ELSE Index[w]]
  BY <1>4, <1>10, ViewFreed
<1>16. QED
  BY <1>4, <1>12, <1>14, <1>15, ViewAbandon

\* The loop of js_map_clear is lost.
LEMMA ClearLost ==
    ASSUME Inv, ClearStep, map.el \notin map.linked
    PROVE  Inv' /\ [Ecma!Next(Keys)]_(Ecma!vars)
<1>1. /\ MapInv(map, walk) /\ map.state = "clearing" /\ CallInv /\ MapType(map)
      /\ held \in BOOLEAN /\ UNCHANGED <<walk, calls, held>>
      /\ map' = [map EXCEPT !.state = "lost"]
  BY DEF Inv, MapInv, ClearStep
<1>2. map.el \in 0..MaxRecords /\ map' = [map EXCEPT !.el = map.el, !.state = "lost"]
  BY <1>1 DEF MapType
<1>3. MapInv(map', walk) /\ map'.n = map.n /\ map'.state = "lost"
  <2> DEFINE h == Phase(map, map.el, "lost")
  <2>1. MapInv(h, walk) /\ h.n = map.n /\ h.state = "lost"
    BY <1>1, <1>2, PhaseInv
  <2>2. map' = h
    BY <1>2 DEF Phase
  <2> HIDE DEF h
  <2>3. QED
    BY <2>1, <2>2
<1>4. CallInv'
  BY <1>1, <1>3, CallsKeep
<1>5. Inv'
  BY <1>1, <1>3, <1>4 DEF Inv
<1>6. UNCHANGED Entries
  BY <1>1, <1>3 DEF Entries, Undefined
<1>7. UNCHANGED Index
  BY <1>1 DEF Index
<1>8. QED
  BY <1>5, <1>6, <1>7 DEF Ecma!vars

\* Iterate, TakeIterator
LEMMA MarkStep ==
    ASSUME Inv, NEW w \in Iterators, Iterate(w) \/ TakeIterator(w)
    PROVE  Inv' /\ [Ecma!Next(Keys)]_(Ecma!vars)
<1>1. /\ MapInv(map, walk) /\ CallInv /\ Owned(map, walk) /\ map.state = "live"
      /\ WalkType(walk) /\ WalkInv(map, walk) /\ held \in BOOLEAN
      /\ UNCHANGED <<map, calls, held>>
  BY DEF Inv, MapInv, Iterate, TakeIterator, InUse
<1>2. w \in Walkers /\ 0 \in 0..MaxRecords
  BY MapAssumption DEF Walkers
<1>3. /\ WalkType(walk') /\ \A v \in Walkers \ {w} : walk'[v] = walk[v]
      /\ walk'[w].cur = walk[w].cur
      /\ walk'[w].owner \in {0, walk[w].owner}
      /\ \/ walk'[w].at = walk[w].at
         \/ walk[w].at = "unused" /\ walk'[w].at = "new"
  BY <1>1, <1>2 DEF WalkType, Iterate, TakeIterator
<1>4. MapInv(map, walk')
  <2>1. CASE walk'[w].at = walk[w].at
    BY <1>1, <1>2, <1>3, <2>1, OwnerMoves
  <2>2. CASE walk[w].at = "unused" /\ walk'[w].at = "new"
    <3>1. walk[w].cur = 0
      BY <1>1, <1>2, <2>2 DEF WalkInv
    <3>2. QED
      BY <1>1, <1>2, <1>3, <2>2, <3>1, IdleInv
  <2>3. QED
    BY <1>3, <2>1, <2>2
<1>5. Owned(map', walk')
  <2>1. \A v \in Walkers : walk'[v].owner # 0 =>
            /\ walk'[v].owner = walk[v].owner /\ walk'[v].owner \in Full(map)
            /\ walk'[v].at \in {"new", "on", "done"}
    BY <1>1, <1>2, <1>3 DEF Owned
  <2>2. Owned(map, walk')
    BY <1>1, <2>1, OwnedStay
  <2>3. QED
    BY <1>1, <2>2
<1>6. CallInv'
  <2>1. \A v \in Walkers \ Iterators : walk'[v].at = walk[v].at
    BY <1>3
  <2>2. QED
    BY <1>1, <2>1, CallsKeep
<1>7. Inv'
  BY <1>1, <1>4, <1>5, <1>6 DEF Inv
<1>8. UNCHANGED Entries
  BY <1>1 DEF Entries, Full
<1>9. UNCHANGED Index
  <2>1. Index' = [Index EXCEPT ![w] = IndexOf(walk'[w])] /\ Index[w] = IndexOf(walk[w])
    BY <1>2, <1>3, ViewMoved
  <2>2. IndexOf(walk'[w]) = IndexOf(walk[w])
    BY <1>3 DEF IndexOf
  <2>3. QED
    BY <1>2, <2>1, <2>2 DEF Index
<1>10. QED
  BY <1>7, <1>8, <1>9 DEF Ecma!vars

\* A walker moves along the list, and nothing else happens to the map.
LEMMA StepAny ==
    ASSUME Inv, map.state = "live", NEW w \in Walkers,
           walk[w].at \notin {"done", "freed"}, Step(w)
    PROVE  /\ MapInv(map, walk)' /\ map'.state = "live" /\ Owned(map', walk')
           /\ \A v \in Walkers \ {w} : walk'[v] = walk[v]
           /\ Ecma!Advance(w)
<1>1. MapInv(map, walk) /\ Owned(map, walk)
  BY DEF Inv
<1>2. /\ MapInv(map', walk') /\ SameContent(map, map')
      /\ \A v \in Walkers \ {w} : walk'[v] = walk[v]
      /\ walk'[w].owner = walk[w].owner /\ walk'[w].at \in {"on", "done"}
  BY <1>1, StepInv
<1>3. Ecma!Advance(w)
  BY <1>1, ViewStep
<1>4. map'.state = "live" /\ Full(map') = Full(map)
  BY <1>2 DEF SameContent
<1>5. Owned(map', walk')
  <2>1. \A v \in Walkers : walk'[v].owner # 0 =>
            /\ walk'[v].owner = walk[v].owner /\ walk'[v].owner \in Full(map')
            /\ walk'[v].at \in {"new", "on", "done"}
    BY <1>1, <1>2, <1>4 DEF Owned
  <2>2. QED
    BY <1>1, <2>1, OwnedStay
<1>6. QED
  BY <1>2, <1>3, <1>4, <1>5

LEMMA NextStep ==
    ASSUME Inv, NEW w \in Iterators, IteratorNext(w)
    PROVE  Inv' /\ [Ecma!Next(Keys)]_(Ecma!vars)
<1>1. /\ CallInv /\ WalkType(walk) /\ map.state = "live" /\ Step(w)
      /\ walk[w].at \notin {"done", "freed"} /\ UNCHANGED <<calls, held>>
      /\ held \in BOOLEAN
  BY DEF Inv, MapInv, IteratorNext
<1>2. w \in Walkers /\ \A i \in 1..Len(calls) : calls[i] # w
  BY <1>1, IteratorNoCall
<1>3. /\ MapInv(map, walk)' /\ map'.state = map.state /\ Ecma!Advance(w)
      /\ Owned(map', walk')
      /\ \A v \in Walkers \ {w} : walk'[v] = walk[v]
  BY <1>1, <1>2, StepAny
<1>4. CallInv'
  BY <1>1, <1>2, <1>3, CallsStay
<1>5. Inv'
  BY <1>1, <1>3, <1>4 DEF Inv
<1>6. QED
  BY <1>2, <1>3, <1>5 DEF Ecma!Next

LEMMA ForEachStep ==
    ASSUME Inv, NEW w \in Calls, ForEach(w)
    PROVE  Inv' /\ [Ecma!Next(Keys)]_(Ecma!vars)
<1>1. /\ CallInv /\ WalkType(walk) /\ map.state = "live" /\ Step(w)
      /\ walk[w].at = "unused" /\ UNCHANGED held /\ held \in BOOLEAN
      /\ calls' = IF walk'[w].at = "on" THEN Append(calls, w) ELSE calls
  BY DEF Inv, MapInv, ForEach, InUse
<1>2. w \in Walkers /\ \A i \in 1..Len(calls) : calls[i] # w
  BY <1>1 DEF CallInv, Walkers
<1>3. /\ MapInv(map, walk)' /\ map'.state = map.state /\ Ecma!Advance(w)
      /\ Owned(map', walk')
      /\ \A v \in Walkers \ {w} : walk'[v] = walk[v]
  BY <1>1, <1>2, StepAny
<1>4. CallInv'
  <2>1. CASE walk'[w].at # "on"
    BY <1>1, <1>2, <1>3, <2>1, CallsStay
  <2>2. CASE walk'[w].at = "on"
    <3> DEFINE c == Append(calls, w)
               n == Len(calls)
    <3>1. /\ n \in Nat /\ c \in Seq(Calls) /\ Len(c) = n + 1 /\ c[n + 1] = w
          /\ \A i \in 1..n : c[i] = calls[i]
      BY <1>1 DEF CallInv
    <3>2. calls' = c
      BY <1>1, <2>2
    <3> HIDE DEF c
    <3>3. \A i \in 1..n : /\ calls[i] \in Walkers \ {w}
                          /\ walk'[calls[i]].at = "on"
      BY <1>1, <1>2, <1>3 DEF CallInv, Walkers
    <3>4. \A i \in 1..n + 1 : i \in 1..n \/ i = n + 1
      BY <3>1
    <3>5. \A i \in 1..n + 1 : walk'[c[i]].at = "on"
      BY <2>2, <3>1, <3>3, <3>4
    <3>6. \A i, j \in 1..n + 1 : c[i] = c[j] => i = j
      <4>1. \A i, j \in 1..n : calls[i] = calls[j] => i = j
        BY <1>1 DEF CallInv
      <4>2. QED
        BY <1>2, <3>1, <3>4, <4>1
    <3>7. QED
      BY <1>1, <1>3, <3>1, <3>2, <3>5, <3>6 DEF CallInv
  <2>3. QED
    BY <2>1, <2>2
<1>5. Inv'
  BY <1>1, <1>3, <1>4 DEF Inv
<1>6. QED
  BY <1>2, <1>3, <1>5 DEF Ecma!Next

LEMMA ReturnStep ==
    ASSUME Inv, CallbackReturns
    PROVE  Inv' /\ [Ecma!Next(Keys)]_(Ecma!vars)
<1> DEFINE w == Last(calls)
<1>1. /\ CallInv /\ calls # <<>> /\ Step(w) /\ UNCHANGED held
      /\ map.state = "live" /\ held \in BOOLEAN
      /\ calls' = IF walk'[w].at = "on" THEN calls ELSE Front(calls)
  BY DEF Inv, CallbackReturns
<1>2. w \in Walkers /\ walk[w].at = "on"
  BY <1>1, LastCall
<1> HIDE DEF w
<1>3. /\ MapInv(map, walk)' /\ map'.state = map.state /\ Ecma!Advance(w)
      /\ Owned(map', walk')
      /\ \A v \in Walkers \ {w} : walk'[v] = walk[v]
  BY <1>1, <1>2, StepAny
<1>4. CallInv'
  <2>1. CASE walk'[w].at # "on"
    <3>1. calls' = Front(calls)
      BY <1>1, <2>1
    <3>2. QED
      BY <1>1, <1>3, <3>1, CallEnds DEF w
  <2>2. CASE walk'[w].at = "on"
    <3>1. calls' = calls
      BY <1>1, <2>2
    <3>2. \A i \in 1..Len(calls) : calls[i] \in Walkers /\ walk[calls[i]].at = "on"
      BY <1>1 DEF CallInv, Walkers
    <3>3. \A i \in 1..Len(calls) : walk'[calls[i]].at = "on"
      BY <1>3, <2>2, <3>2
    <3>4. QED
      BY <1>1, <1>3, <3>1, <3>3 DEF CallInv
  <2>3. QED
    BY <2>1, <2>2
<1>5. Inv'
  BY <1>1, <1>3, <1>4 DEF Inv
<1>6. QED
  BY <1>2, <1>3, <1>5 DEF Ecma!Next

\* A walker is freed: who owns whom, and what scripts see.
LEMMA FreedOne ==
    ASSUME NEW w \in Walkers, SameContent(map, map'), walk'[w] = FreedWalker,
           \A v \in Walkers \ {w} : walk'[v] = walk[v]
    PROVE  /\ Owned(map, walk) => Owned(map', walk')
           /\ [Ecma!Next(Keys)]_(Ecma!vars)
<1>1. \A v \in Walkers \ {w} : walk'[v] = walk[v]
  OBVIOUS
<1>2. walk'[w].at = "freed" /\ walk'[w].owner = 0
  BY DEF FreedWalker
<1>3. ASSUME Owned(map, walk) PROVE Owned(map', walk')
  <2>1. \A v \in Walkers : walk'[v].owner # 0 =>
            /\ walk'[v].owner = walk[v].owner /\ walk'[v].owner \in Full(map')
            /\ walk'[v].at \in {"new", "on", "done"}
    BY <1>1, <1>2, <1>3 DEF Owned, SameContent
  <2>2. QED
    BY <1>3, <2>1, OwnedStay
<1>4. Entries' = Entries
  BY ViewSame
<1>5. Index' = [v \in Walkers |-> IF v \in {w} THEN Abandoned ELSE Index[v]]
  BY <1>1, <1>2, ViewFreed
<1>6. [Ecma!Next(Keys)]_(Ecma!vars)
  BY <1>4, <1>5, ViewAbandon
<1>7. QED
  BY <1>3, <1>6

LEMMA ThrowStep ==
    ASSUME Inv, CallbackThrows
    PROVE  Inv' /\ [Ecma!Next(Keys)]_(Ecma!vars)
<1> DEFINE w == Last(calls)
           g == map_decref_record(map, walk[w].cur)
<1>1. /\ MapInv(map, walk) /\ WalkType(walk) /\ CallInv /\ calls # <<>>
      /\ Owned(map, walk) /\ map.state = "live" /\ held \in BOOLEAN
      /\ UNCHANGED held /\ calls' = Front(calls) /\ map' = g /\ walk' = Without({w})
  BY DEF Inv, MapInv, CallbackThrows
<1>2. w \in Walkers /\ walk[w].at = "on"
  BY <1>1, LastCall
<1> HIDE DEF w
<1>3. g = Finalize(map, w)
  BY <1>1, <1>2 DEF Finalize
<1>4. MapInv(g, Without({w})) /\ SameContent(map, g)
  BY <1>1, <1>2, <1>3, FinalizeInv
<1> HIDE DEF g
<1>5. MapInv(map, walk)' /\ SameContent(map, map') /\ map'.state = map.state
  BY <1>1, <1>4 DEF SameContent
<1>6. /\ \A v \in Walkers \ {w} : walk'[v] = walk[v]
      /\ Owned(map', walk') /\ [Ecma!Next(Keys)]_(Ecma!vars)
  <2>1. walk'[w] = FreedWalker /\ \A v \in Walkers \ {w} : walk'[v] = walk[v]
    BY <1>1, <1>2, WithoutType
  <2>2. Owned(map, walk)
    BY <1>1
  <2>3. QED
    BY <1>2, <1>5, <2>1, <2>2, FreedOne
<1>7. CallInv'
  BY <1>1, <1>5, <1>6, CallEnds DEF w
<1>8. Inv'
  BY <1>1, <1>5, <1>6, <1>7 DEF Inv
<1>9. QED
  BY <1>6, <1>8

\* DropIterator, SweepIterator
LEMMA FinalizeStep ==
    ASSUME Inv, map.state # "clearing", NEW w \in Iterators, map' = Finalize(map, w),
           walk' = Without({w}), UNCHANGED <<calls, held>>
    PROVE  Inv' /\ [Ecma!Next(Keys)]_(Ecma!vars)
<1>1. /\ MapInv(map, walk) /\ WalkType(walk) /\ CallInv /\ held \in BOOLEAN
      /\ map.state = "live" => Owned(map, walk)
  BY DEF Inv, MapInv
<1>2. w \in Walkers /\ \A i \in 1..Len(calls) : calls[i] # w
  BY <1>1, IteratorNoCall
<1>3. MapInv(map', walk') /\ SameContent(map, map')
  BY <1>1, <1>2, FinalizeInv
<1>4. /\ \A v \in Walkers \ {w} : walk'[v] = walk[v]
      /\ Owned(map, walk) => Owned(map', walk')
      /\ [Ecma!Next(Keys)]_(Ecma!vars)
  <2>1. walk'[w] = FreedWalker /\ \A v \in Walkers \ {w} : walk'[v] = walk[v]
    BY <1>1, <1>2, WithoutType
  <2>2. QED
    BY <1>2, <1>3, <2>1, FreedOne
<1>5. map'.state = map.state
  BY <1>3 DEF SameContent
<1>6. CallInv'
  BY <1>1, <1>2, <1>4, <1>5, CallsStay
<1>7. Inv'
  BY <1>1, <1>3, <1>4, <1>5, <1>6 DEF Inv
<1>8. QED
  BY <1>4, <1>7

\* FreeMap, SweepMap
LEMMA FreeStep ==
    ASSUME Inv, calls = <<>>, map' = js_map_finalizer(map),
           UNCHANGED <<walk, calls, held>>
    PROVE  Inv' /\ [Ecma!Next(Keys)]_(Ecma!vars)
<1> DEFINE g == js_map_finalizer(map)
<1>1. MapInv(map, walk) /\ CallInv /\ held \in BOOLEAN
  BY DEF Inv
<1>2. MapInv(g, walk) /\ g.n = map.n /\ Full(g) = {} /\ g.state = "freed"
  BY <1>1, FreeInv
<1> HIDE DEF g
<1>3. map' = g
  BY DEF g
<1>4. MapInv(map, walk)' /\ map'.n = map.n /\ Full(map') = {} /\ map'.state = "freed"
  BY <1>2, <1>3
<1>5. CallInv'
  BY <1>1 DEF CallInv
<1>6. Inv'
  BY <1>1, <1>4, <1>5 DEF Inv
<1>7. Entries' = Ecma!Holes(DOMAIN Entries)
  BY <1>4, ViewGone
<1>8. Index' = [w \in Walkers |-> IF w \in {} THEN Abandoned ELSE Index[w]]
  BY ViewStill
<1>9. QED
  BY <1>6, <1>7, <1>8 DEF Ecma!Next, Ecma!Remove

LEMMA CollectStep ==
    ASSUME Inv, CollectCycle
    PROVE  Inv' /\ [Ecma!Next(Keys)]_(Ecma!vars)
<1>1. /\ MapInv(map, walk) /\ MapType(map) /\ CallInv /\ map.state = "live"
      /\ calls = <<>> /\ map' = [map EXCEPT !.state = "dying"]
      /\ held \in BOOLEAN /\ UNCHANGED <<walk, calls, held>>
  BY DEF Inv, MapInv, CollectCycle
<1>2. map.el \in 0..MaxRecords /\ map' = [map EXCEPT !.el = map.el, !.state = "dying"]
  BY <1>1 DEF MapType
<1>3. /\ MapInv(map', walk) /\ map'.n = map.n /\ map'.key = map.key
      /\ Full(map') = Full(map) /\ map'.state = "dying"
  <2> DEFINE h == Phase(map, map.el, "dying")
  <2>1. /\ MapInv(h, walk) /\ h.n = map.n /\ h.key = map.key
        /\ Full(h) = Full(map) /\ h.state = "dying"
    BY <1>1, <1>2, PhaseInv
  <2>2. map' = h
    BY <1>2 DEF Phase
  <2> HIDE DEF h
  <2>3. QED
    BY <2>1, <2>2
<1>4. CallInv'
  BY <1>1 DEF CallInv
<1>5. Inv'
  BY <1>1, <1>3, <1>4 DEF Inv
<1>6. UNCHANGED Entries
  BY <1>1, <1>3 DEF Entries, Full, Undefined
<1>7. UNCHANGED Index
  BY <1>1 DEF Index
<1>8. QED
  BY <1>5, <1>6, <1>7 DEF Ecma!vars

\* The map of js_map_constructor.
LEMMA InitInv ==
    ASSUME Init
    PROVE  Inv /\ Ecma!Init
<1>1. MapType(NewMap)
  <2>1. [b \in Buckets(1) |-> {}] \in [Buckets(1) -> SUBSET Nat]
    OBVIOUS
  <2>2. <<>> \in Seq(Keys \cup {Undefined}) /\ <<>> \in Seq(Nat)
    OBVIOUS
  <2>3. QED
    BY <2>1, <2>2, MapAssumption DEF MapType, NewMap
<1>2. /\ Full(NewMap) = {} /\ NewMap.n = 0 /\ NewMap.count = 0 /\ NewMap.size = 1
      /\ NewMap.state = "live" /\ NewMap.table = [b \in Buckets(1) |-> {}]
  BY DEF NewMap, Full
<1>3. ~NewMap.bad
  BY DEF NewMap
<1>4. RefInv(NewMap, walk)
  BY <1>2 DEF RefInv
<1>5. TableInv(NewMap)
  BY <1>2 DEF TableInv
<1>6. KeyInv(NewMap)
  BY <1>2, FS_EmptySet DEF KeyInv
<1>7. WalkType(walk) /\ WalkInv(NewMap, walk) /\ Owned(NewMap, walk)
  BY MapAssumption DEF Init, WalkType, WalkInv, NewWalker, Owned
<1>8. map = NewMap
  BY DEF Init
<1>9. MapInv(map, walk)
  BY <1>1, <1>3, <1>4, <1>5, <1>6, <1>7, <1>8 DEF MapInv
<1>10. CallInv /\ held \in BOOLEAN
  BY <1>2, <1>8 DEF CallInv, Init
<1>11. Entries = <<>>
  BY <1>2, <1>8 DEF Entries
<1>12. Index = [w \in Walkers |-> 0]
  BY DEF Index, Init, NewWalker
<1>13. Inv
  BY <1>2, <1>7, <1>8, <1>9, <1>10 DEF Inv
<1>14. QED
  BY <1>11, <1>12, <1>13 DEF Ecma!Init

LEMMA NextInv ==
    ASSUME Inv, [Next]_vars
    PROVE  Inv' /\ [Ecma!Next(Keys)]_(Ecma!vars)
<1>1. CASE UNCHANGED vars
  <2>1. UNCHANGED <<map, walk, calls, held>>
    BY <1>1 DEF vars
  <2>2. Inv'
    BY <2>1 DEF Inv, CallInv
  <2>3. UNCHANGED Entries /\ UNCHANGED Index
    BY <2>1 DEF Entries, Full, Index
  <2>4. QED
    BY <2>2, <2>3 DEF Ecma!vars
<1>2. CASE DropMap
  <2>1. UNCHANGED <<map, walk, calls>> /\ held' = FALSE
    BY <1>2 DEF DropMap
  <2>2. Inv'
    BY <2>1 DEF Inv, CallInv
  <2>3. UNCHANGED Entries /\ UNCHANGED Index
    BY <2>1 DEF Entries, Full, Index
  <2>4. QED
    BY <2>2, <2>3 DEF Ecma!vars
<1>3. ASSUME NEW k \in Keys, NEW v \in SUBSET Iterators,
             v = {} \/ \E w \in Iterators : v = {w}, Set(k, v)
      PROVE  Inv' /\ [Ecma!Next(Keys)]_(Ecma!vars)
  BY <1>3, SetAdds, SetReplaces
<1>4. CASE \E k \in Keys : Set(k, {}) \/ \E w \in Iterators : Set(k, {w})
  BY <1>3, <1>4
<1>5. CASE \E k \in Keys : Delete(k)
  BY <1>5, DeleteStep
<1>6. CASE Clear
  BY <1>6, ClearBegins
<1>7. CASE ClearStep
  BY <1>7, ClearTurns, ClearLost
<1>8. CASE \E w \in Iterators : Iterate(w) \/ TakeIterator(w)
  BY <1>8, MarkStep
<1>9. CASE \E w \in Iterators : IteratorNext(w)
  BY <1>9, NextStep
<1>10. CASE \E w \in Iterators : DropIterator(w) \/ SweepIterator(w)
  BY <1>10, FinalizeStep DEF DropIterator, SweepIterator
<1>11. CASE \E w \in Calls : ForEach(w)
  BY <1>11, ForEachStep
<1>12. CASE CallbackReturns
  BY <1>12, ReturnStep
<1>13. CASE CallbackThrows
  BY <1>13, ThrowStep
<1>14. CASE FreeMap
  BY <1>14, FreeStep DEF FreeMap
<1>15. CASE CollectCycle
  BY <1>15, CollectStep
<1>16. CASE SweepMap
  <2>1. calls = <<>>
    BY <1>16 DEF SweepMap, Inv, CallInv
  <2>2. QED
    BY <1>16, <2>1, FreeStep DEF SweepMap
<1>17. QED
  BY <1>1, <1>2, <1>4, <1>5, <1>6, <1>7, <1>8, <1>9, <1>10, <1>11, <1>12, <1>13,
     <1>14, <1>15, <1>16
  DEF Next

\* The invariant holds of every state.
THEOREM InvCorrect == Spec => []Inv
<1>1. Init => Inv
  BY InitInv
<1>2. Inv /\ [Next]_vars => Inv'
  BY NextInv
<1>3. QED
  BY <1>1, <1>2, PTL DEF Spec

\* No walker of any number and no finalizer uses a freed record, no assertion of
\* map_decref_record fails, and a record is in the list exactly as long as it
\* is full or locked, for scripts that change the map in any way while they
\* walk along it, make its iterators its values and clear it: until the loop of
\* js_map_clear goes on to a record that a value had locked, if it ever does.
THEOREM RecordsCorrect == Spec => []RecordsSound
<1>1. ASSUME Inv PROVE RecordsSound
  <2>1. MapInv(map, walk) /\ calls \in Seq(Calls) /\ held \in BOOLEAN
    BY <1>1 DEF Inv, CallInv
  <2>2. TypeOK
    BY <2>1 DEF MapInv, MapType, WalkType, TypeOK
  <2>3. ~map.bad
    BY <2>1 DEF MapInv
  <2>4. ASSUME map.state \in {"live", "clearing"}, NEW r \in 1..map.n
        PROVE  LET locks == Cardinality({w \in Walkers :
                                          walk[w].at = "on" /\ walk[w].cur = r})
                   own == IF r \in Full(map) THEN 1 ELSE 0
               IN  /\ map.ref[r] = own + locks
                   /\ r \in map.linked <=> own + locks > 0
    <3>1. RefInv(map, walk)
      BY <2>1, <2>4 DEF MapInv
    <3>2. QED
      BY <3>1 DEF RefInv, Own, Locks
  <2>5. ASSUME map.state \in {"live", "clearing"}, NEW w \in Walkers, walk[w].owner # 0
        PROVE  /\ walk[w].owner \in Full(map) /\ walk[w].at \in {"new", "on", "done"}
               /\ \A v \in Walkers : walk[v].owner = walk[w].owner => v = w
    BY <1>1, <2>5 DEF Inv, Owned
  <2>6. QED
    BY <2>2, <2>3, <2>4, <2>5 DEF RecordsSound
<1>2. QED
  BY <1>1, InvCorrect, PTL

\* get, has and delete find a key that was set in the form in which they are
\* given it, and nothing that has another key, with any hash function, whether it
\* gives the two forms of a number one hash or two, and any size of the table and
\* slack of the allocator.
THEOREM HashCorrect == Spec => []HashFinds
<1>1. ASSUME Inv PROVE HashFinds
  <2> SUFFICES ASSUME map.state \in {"live", "clearing"}
               PROVE  /\ \A k \in Keys :
                            LET there == {r \in Full(map) : Same(map.key[r], k)}
                                exact == {r \in there : \/ map.key[r].tag = k.tag
                                                        \/ k.num = 0}
                            IN  /\ js_map_get(map, k) \subseteq there
                                /\ exact # {} => js_map_get(map, k) # {}
                                /\ Cardinality(exact) <= 1
                      /\ map.count = Cardinality(Full(map))
    BY DEF HashFinds
  <2>1. MapInv(map, walk) /\ map.state # "freed" /\ KeyInv(map)
    BY <1>1 DEF Inv, MapInv
  <2>2. ASSUME NEW k \in Keys
        PROVE  LET there == {r \in Full(map) : Same(map.key[r], k)}
                   exact == {r \in there : map.key[r].tag = k.tag \/ k.num = 0}
               IN  /\ js_map_get(map, k) \subseteq there
                   /\ exact # {} => js_map_get(map, k) # {}
                   /\ Cardinality(exact) <= 1
    <3> DEFINE there == {r \in Full(map) : Same(map.key[r], k)}
               exact == {r \in there : map.key[r].tag = k.tag \/ k.num = 0}
               y == map_normalize_key(k)
    <3>1. /\ js_map_get(map, k) \subseteq there
          /\ \A r \in Full(map) : map.key[r] = y => js_map_get(map, k) # {}
          /\ \A r \in exact : r \in Full(map) /\ map.key[r] = y
      BY <2>1, GetFinds
    <3> HIDE DEF exact, y
    <3>2. Cardinality(exact) <= 1
      <4>1. \A r, s \in exact : r = s
        BY <2>1, <3>1 DEF KeyInv
      <4>2. CASE exact = {}
        BY <4>2, FS_EmptySet
      <4>3. CASE exact # {}
        <5>1. PICK r : exact = {r}
          BY <4>1, <4>3
        <5>2. Cardinality(exact) = 1
          BY <5>1, FS_Singleton
        <5>3. QED
          BY <5>2
      <4>4. QED
        BY <4>2, <4>3
    <3>3. exact # {} => js_map_get(map, k) # {}
      BY <3>1
    <3>4. QED
      BY <3>1, <3>2, <3>3 DEF exact
  <2>3. QED
    BY <2>1, <2>2 DEF KeyInv
<1>2. QED
  BY <1>1, InvCorrect, PTL

\* Records, locks and empty records implement the list with holes of the
\* language, the loop of clear its single step.
THEOREM ImplementationCorrect == Spec => ImplementsEcmaMap
<1>1. Init => Ecma!Init
  BY InitInv
<1>2. Inv /\ [Next]_vars => [Ecma!Next(Keys)]_(Ecma!vars)
  BY NextInv
<1>3. QED
  BY <1>1, <1>2, InvCorrect, PTL DEF Spec, ImplementsEcmaMap

=============================================================================
