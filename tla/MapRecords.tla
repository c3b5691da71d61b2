---------------------------- MODULE MapRecords ----------------------------
(***************************************************************************)
(* One Map or Set: the list of its records, the hash table, and those who  *)
(* walk along the list while scripts change it.  A walker is an iterator   *)
(* or a call of forEach, which locks the record that it has come to: a     *)
(* deleted record stays in the list, empty, while it is locked.  The value *)
(* of a record may be an iterator of the same map, which is finalized when *)
(* the value is freed if nobody else refers to it.                         *)
(*                                                                         *)
(* Records are numbered in the order in which they are added.  That is     *)
(* also their order in the list, which grows at its end only: the list is  *)
(* the set of the records in it.                                           *)
(***************************************************************************)
EXTENDS Integers, FiniteSets, SequencesExt

CONSTANTS
    Keys,            \* numbers as JSValues: records with num and tag
    Hash(_),         \* map_hash_key: the bits that are set
    Iterators,       \* iterators that scripts may create
    Calls,           \* calls of forEach that scripts may make
    MaxRecords,      \* bound: records added
    FirstThreshold,  \* record_count_threshold of a new map
    Slacks           \* the allocator may give room for so many more buckets

Walkers == Iterators \cup Calls

ASSUME MapAssumption ==
    /\ Iterators \cap Calls = {}
    /\ IsFiniteSet(Walkers)
    /\ MaxRecords \in Nat /\ FirstThreshold \in Nat \ {0}
    /\ Slacks \subseteq Nat

VARIABLES
    map,    \* JSMapState and its records, see NewMap
    walk,   \* the walkers
    calls,  \* calls of forEach, the innermost last
    held    \* scripts refer to the map

vars == <<map, walk, calls, held>>

(***************************************************************************)
(* The hash table.  A hash is the set of the bits that are set in it, and  *)
(* a bucket is found by those that are left by the mask size - 1.  Other   *)
(* buckets stay empty.                                                     *)
(***************************************************************************)
Bits(n) == {i \in 0..n : (n \div 2^i) % 2 = 1}

Buckets(size) == SUBSET Bits(size - 1)

Bucket(k, size) == Hash(k) \cap Bits(size - 1)

(***************************************************************************)
(* n: records so far.  linked: those in the list; the others were freed.   *)
(* key, empty, ref: of the records.  bad: a freed record was used, or an   *)
(* assertion did not hold.  state: "live", "clearing" in the loop of       *)
(* js_map_clear, which comes to el next, "lost" when that record was freed *)
(* meanwhile, "dying" while a cycle with the map in it is collected,       *)
(* "freed".                                                                *)
(***************************************************************************)
NewMap ==
    [n |-> 0, linked |-> {}, key |-> <<>>, empty |-> {}, ref |-> <<>>,
     count |-> 0, size |-> 1, threshold |-> FirstThreshold,
     table |-> [b \in Buckets(1) |-> {}], bad |-> FALSE,
     el |-> 0, state |-> "live"]

\* at: "unused", "new", "on" a record cur, "done" at the end of the list,
\* "freed" with the iterator, or with a call that threw.  owner: the record
\* whose value is the last reference to the iterator, 0 if there are others.
NewWalker == [at |-> "unused", cur |-> 0, owner |-> 0]
FreedWalker == [at |-> "freed", cur |-> 0, owner |-> 0]

Undefined == [num |-> -1, tag |-> "undefined"]
Zero == [num |-> 0, tag |-> "int"]

\* js_same_value_zero
Same(k, l) == k.num = l.num

\* A number may come as an integer and as a double, and has two hashes then.
ASSUME KeysAssumption ==
    /\ Keys \subseteq [num : Nat, tag : {"int", "float"}]
    /\ \A k \in Keys : k.num = 0 => Zero \in Keys

Full(m) == m.linked \ m.empty

\* The records behind r in the list; the whole list for r = 0.
Behind(m, r) == {i \in m.linked : i > r}
FirstOf(S) == CHOOSE i \in S : \A j \in S : i <= j
NextOf(m, r) == IF Behind(m, r) = {} THEN 0 ELSE FirstOf(Behind(m, r))

-----------------------------------------------------------------------------
(***************************************************************************)
(* The hash table.                                                         *)
(***************************************************************************)

\* Faulty variant of map_normalize_key: -0.0 stays a key of its own.
NormalizeNothing(k) == k

\* map_normalize_key: -0.0 becomes the integer 0.
map_normalize_key(k) == IF k.tag = "float" /\ k.num = 0 THEN Zero ELSE k

\* map_find_record: the first record of the bucket with the key, if any
map_find_record(m, k) ==
    LET same == {r \in m.table[Bucket(k, m.size)] : Same(m.key[r], k)}
    IN  IF same = {} THEN {} ELSE {FirstOf(same)}

\* Faulty variant of map_hash_resize: the records stay where they were.
ResizeKeepsTable(m, slack) ==
    LET size == (IF m.size = 1 THEN 4 ELSE m.size * 2) + slack
    IN  [m EXCEPT !.size = size,
                  !.threshold = size * 2,
                  !.table = [b \in Buckets(size) |->
                                IF b \in DOMAIN m.table THEN m.table[b] ELSE {}]]

\* map_hash_resize, with memory
map_hash_resize(m, slack) ==
    LET size == (IF m.size = 1 THEN 4 ELSE m.size * 2) + slack
    IN  [m EXCEPT !.size = size,
                  !.threshold = size * 2,
                  !.table = [b \in Buckets(size) |->
                                {r \in Full(m) : Bucket(m.key[r], size) = b}]]

\* map_add_record
map_add_record(m, k, slack) ==
    LET r == m.n + 1
        g == [m EXCEPT !.n = r,
                       !.key = Append(@, k),
                       !.ref = Append(@, 1),
                       !.linked = @ \cup {r},
                       !.table[Bucket(k, m.size)] = @ \cup {r},
                       !.count = @ + 1]
    IN  IF g.count >= g.threshold THEN map_hash_resize(g, slack) ELSE g

-----------------------------------------------------------------------------
(***************************************************************************)
(* Locks.                                                                  *)
(***************************************************************************)

\* Faulty variant of map_decref_record: the last lock leaves an empty record.
DecrefKeeps(m, r) ==
    [m EXCEPT !.ref[r] = @ - 1, !.bad = @ \/ r \notin m.linked]

\* map_decref_record
map_decref_record(m, r) ==
    LET g == [m EXCEPT !.ref[r] = @ - 1, !.bad = @ \/ r \notin m.linked]
    IN  IF g.ref[r] = 0
        THEN [g EXCEPT !.linked = @ \ {r}, !.bad = @ \/ r \notin m.empty]
        ELSE g

\* js_map_iterator_finalizer: the lock is given back if the map is not freed.
Finalize(m, w) ==
    IF m.state = "freed" \/ walk[w].at # "on" THEN m
    ELSE map_decref_record(m, walk[w].cur)

\* The iterators that go with the value of r: one at most.
ValueOf(r) == {w \in Iterators : walk[w].owner = r}

\* JS_FreeValue of the value of r
FreeValue(m, r) ==
    IF ValueOf(r) = {} THEN m ELSE Finalize(m, CHOOSE w \in ValueOf(r) : TRUE)

\* The walkers without W, whose iterators are finalized.
Without(W) == [w \in Walkers |-> IF w \in W THEN FreedWalker ELSE walk[w]]

\* Faulty variant of Vacate: the lock is not looked at.
VacateUnlinks(m, r) ==
    [m EXCEPT !.table = [b \in DOMAIN @ |-> @[b] \ {r}],
              !.ref[r] = @ - 1, !.linked = @ \ {r}, !.count = @ - 1]

\* The rest of map_delete_record: a record that somebody has come to stays, empty.
Vacate(m, r) ==
    LET g == [m EXCEPT !.table = [b \in DOMAIN @ |-> @[b] \ {r}],
                       !.key[r] = Undefined, !.ref[r] = @ - 1, !.count = @ - 1]
    IN  IF g.ref[r] = 0 THEN [g EXCEPT !.linked = @ \ {r}]
        ELSE [g EXCEPT !.empty = @ \cup {r}]

\* map_delete_record
map_delete_record(m, r) == IF r \in m.empty THEN m ELSE Vacate(FreeValue(m, r), r)

-----------------------------------------------------------------------------
(***************************************************************************)
(* Operations of scripts.                                                  *)
(***************************************************************************)
InUse == map.state = "live" /\ (held \/ calls # <<>>)

\* js_map_get, js_map_has: the record of the key, if there is one.
js_map_get(m, k) == map_find_record(m, map_normalize_key(k))

\* js_map_set: a key that is there keeps its record, whose value is freed.  v is
\* empty, or has the iterator that is the new value and that scripts forget then.
Set(k, v) ==
    LET r == IF js_map_get(map, k) = {} THEN map.n + 1
             ELSE FirstOf(js_map_get(map, k))
    IN  /\ InUse
        /\ \A w \in v : walk[w].at \in {"new", "on", "done"} /\ walk[w].owner = 0
        /\ IF js_map_get(map, k) # {} THEN map' = FreeValue(map, r)
           ELSE /\ map.n < MaxRecords
                /\ \E slack \in Slacks :
                      map' = map_add_record(map, map_normalize_key(k), slack)
        /\ walk' = [w \in Walkers |-> IF w \in v THEN [walk[w] EXCEPT !.owner = r]
                                      ELSE Without(ValueOf(r))[w]]
        /\ UNCHANGED <<calls, held>>

\* js_map_get gives the value of a record to a script, a callback has it too.
TakeIterator(w) ==
    /\ InUse
    /\ walk[w].owner # 0
    /\ walk' = [walk EXCEPT ![w].owner = 0]
    /\ UNCHANGED <<map, calls, held>>

\* js_map_delete
Delete(k) ==
    /\ InUse
    /\ \E r \in js_map_get(map, k) :
          /\ map' = map_delete_record(map, r)
          /\ walk' = Without(ValueOf(r))
    /\ UNCHANGED <<calls, held>>

\* js_map_clear: the loop comes to el, or ends
ClearFrom(m, el) ==
    [m EXCEPT !.el = el, !.state = IF el = 0 THEN "live" ELSE "clearing"]

Clear ==
    /\ InUse
    /\ map' = ClearFrom(map, NextOf(map, 0))
    /\ UNCHANGED <<walk, calls, held>>

\* Faulty variant of ClearStep: the loop ends at an empty record.
ClearStopsAtEmpty ==
    LET el == map.el
    IN  /\ map.state = "clearing"
        /\ IF el \in map.empty
           THEN map' = ClearFrom(map, 0) /\ UNCHANGED walk
           ELSE /\ map' = ClearFrom(map_delete_record(map, el), NextOf(map, el))
                /\ walk' = Without(ValueOf(el))
        /\ UNCHANGED <<calls, held>>

\* A turn of the loop: the next record is read before el is deleted.  When it
\* was freed with an iterator that the value of el was, the loop is lost.
ClearStep ==
    LET el == map.el
    IN  /\ map.state = "clearing"
        /\ IF el \notin map.linked
           THEN map' = [map EXCEPT !.state = "lost"] /\ UNCHANGED walk
           ELSE /\ map' = ClearFrom(map_delete_record(map, el), NextOf(map, el))
                /\ walk' = Without(ValueOf(el))
        /\ UNCHANGED <<calls, held>>

\* js_create_map_iterator
Iterate(w) ==
    /\ InUse
    /\ walk[w].at = "unused"
    /\ walk' = [walk EXCEPT ![w].at = "new"]
    /\ UNCHANGED <<map, calls, held>>

\* Faulty variant of Step: the lock is given back before the next is found.
StepAfterDecref(w) ==
    LET old == walk[w].cur
        m == IF old = 0 THEN map ELSE map_decref_record(map, old)
        left == {i \in Behind(m, old) : i \notin m.empty}
        gone == old # 0 /\ old \notin m.linked
    IN  IF left = {} \/ gone
        THEN /\ map' = m
             /\ walk' = [walk EXCEPT ![w].at = "done", ![w].cur = 0]
        ELSE /\ map' = [m EXCEPT !.ref[FirstOf(left)] = @ + 1]
             /\ walk' = [walk EXCEPT ![w].at = "on", ![w].cur = FirstOf(left)]

\* js_map_iterator_next and the loop of js_map_forEach: from the record that
\* is locked, whose lock is given back, to the next that is not empty.
Step(w) ==
    LET old == walk[w].cur
        m == IF old = 0 THEN map ELSE map_decref_record(map, old)
        left == {i \in Behind(m, old) : i \notin m.empty}
    IN  IF left = {}
        THEN /\ map' = m
             /\ walk' = [walk EXCEPT ![w].at = "done", ![w].cur = 0]
        ELSE /\ map' = [m EXCEPT !.ref[FirstOf(left)] = @ + 1]
             /\ walk' = [walk EXCEPT ![w].at = "on", ![w].cur = FirstOf(left)]

IteratorNext(w) ==
    /\ map.state = "live"
    /\ walk[w].at \in {"new", "on"} /\ walk[w].owner = 0
    /\ Step(w)
    /\ UNCHANGED <<calls, held>>

\* js_map_forEach is called and comes to the first record.
ForEach(w) ==
    /\ InUse
    /\ walk[w].at = "unused"
    /\ Step(w)
    /\ calls' = IF walk'[w].at = "on" THEN Append(calls, w) ELSE calls
    /\ UNCHANGED held

\* The callback of the innermost call returns.
CallbackReturns ==
    /\ map.state = "live" /\ calls # <<>>
    /\ Step(Last(calls))
    /\ calls' = IF walk'[Last(calls)].at = "on" THEN calls ELSE Front(calls)
    /\ UNCHANGED held

\* The callback throws: js_map_forEach gives the lock back and returns.
CallbackThrows ==
    /\ map.state = "live" /\ calls # <<>>
    /\ map' = map_decref_record(map, walk[Last(calls)].cur)
    /\ walk' = Without({Last(calls)})
    /\ calls' = Front(calls)
    /\ UNCHANGED held

\* The last reference to an iterator goes.
DropIterator(w) ==
    /\ map.state = "live"
    /\ walk[w].at \in {"new", "on", "done"} /\ walk[w].owner = 0
    /\ map' = Finalize(map, w)
    /\ walk' = Without({w})
    /\ UNCHANGED <<calls, held>>

DropMap ==
    /\ map.state = "live" /\ held
    /\ held' = FALSE
    /\ UNCHANGED <<map, walk, calls>>

-----------------------------------------------------------------------------
(***************************************************************************)
(* The end of the map.  Iterators that have not come to the end of the     *)
(* list refer to it; if those are not referred to either, or by its values *)
(* only, the cycle is collected and the finalizers run in any order.       *)
(***************************************************************************)
Referring == {w \in Iterators : walk[w].at \in {"new", "on"}}

js_map_finalizer(m) ==
    [m EXCEPT !.linked = {}, !.empty = {}, !.table = <<>>, !.size = 0,
              !.key = [r \in DOMAIN @ |-> Undefined], !.ref = [r \in DOMAIN @ |-> 0],
              !.state = "freed"]

\* The reference count of the map is zero.
FreeMap ==
    /\ map.state = "live" /\ ~held /\ calls = <<>> /\ Referring = {}
    /\ map' = js_map_finalizer(map)
    /\ UNCHANGED <<walk, calls, held>>

\* gc_free_cycles finds the map and its iterators.
CollectCycle ==
    /\ map.state = "live" /\ ~held /\ calls = <<>> /\ Referring # {}
    /\ map' = [map EXCEPT !.state = "dying"]
    /\ UNCHANGED <<walk, calls, held>>

SweepMap ==
    /\ map.state = "dying"
    /\ map' = js_map_finalizer(map)
    /\ UNCHANGED <<walk, calls, held>>

SweepIterator(w) ==
    /\ map.state \in {"dying", "freed"}
    /\ w \in Referring \/ walk[w].owner # 0
    /\ map' = Finalize(map, w)
    /\ walk' = Without({w})
    /\ UNCHANGED <<calls, held>>

-----------------------------------------------------------------------------
\* js_map_constructor
Init ==
    /\ map = NewMap
    /\ walk = [w \in Walkers |-> NewWalker]
    /\ calls = <<>>
    /\ held = TRUE

Next ==
    \/ \E k \in Keys : Delete(k) \/ Set(k, {}) \/ \E w \in Iterators : Set(k, {w})
    \/ Clear
    \/ ClearStep
    \/ \E w \in Iterators : \/ Iterate(w) \/ IteratorNext(w) \/ TakeIterator(w)
                            \/ DropIterator(w) \/ SweepIterator(w)
    \/ \E w \in Calls : ForEach(w)
    \/ CallbackReturns
    \/ CallbackThrows
    \/ DropMap
    \/ FreeMap
    \/ CollectCycle
    \/ SweepMap

Spec == Init /\ [][Next]_vars

-----------------------------------------------------------------------------
\* Type invariant of the map and the walkers.
TypeOK ==
    /\ map \in [n : 0..MaxRecords, linked : SUBSET Nat, empty : SUBSET Nat,
                key : Seq(Keys \cup {Undefined}), ref : Seq(Nat), count : Nat,
                size : Nat, threshold : Nat, bad : BOOLEAN,
                table : [Buckets(map.size) -> SUBSET Nat] \cup {<<>>},
                el : 0..MaxRecords,
                state : {"live", "clearing", "lost", "dying", "freed"}]
    /\ Len(map.key) = map.n /\ Len(map.ref) = map.n
    /\ map.linked \cup map.empty \subseteq 1..map.n
    /\ walk \in [Walkers -> [at : {"unused", "new", "on", "done", "freed"},
                             cur : 0..MaxRecords, owner : 0..MaxRecords]]
    /\ calls \in Seq(Calls)
    /\ held \in BOOLEAN

\* No walker and no finalizer uses a record that was freed, and the last lock
\* frees an empty record only (map_decref_record asserts it), whatever scripts do
\* to the map while others walk along it, and in whatever order the finalizers of
\* a cycle run.  A record is in the list as long as it is full or somebody has
\* come to it, no longer, and is counted so; the iterators that values own are
\* alive, and those of full records.  The exception is state "lost": js_map_clear
\* itself may go on to a record that the value it has freed had locked.
RecordsSound ==
    /\ TypeOK
    /\ ~map.bad
    /\ map.state \in {"live", "clearing"} =>
          /\ \A r \in 1..map.n :
                LET locks == Cardinality({w \in Walkers :
                                            walk[w].at = "on" /\ walk[w].cur = r})
                    own == IF r \in Full(map) THEN 1 ELSE 0
                IN  /\ map.ref[r] = own + locks
                    /\ r \in map.linked <=> own + locks > 0
          /\ \A w \in Walkers : walk[w].owner # 0 =>
                /\ walk[w].owner \in Full(map) /\ walk[w].at \in {"new", "on", "done"}
                /\ \A v \in Walkers : walk[v].owner = walk[w].owner => v = w

\* get, has and delete find a key, however large the table has become, if it was
\* set as it is given, -0.0 as well as 0; what they find has that key, at most
\* one record was set so, and size is right.  A number that was set as an integer
\* need not be found as a double, nor the other way round: the tag is in the hash.
HashFinds ==
    map.state \in {"live", "clearing"} =>
        /\ \A k \in Keys :
              LET there == {r \in Full(map) : Same(map.key[r], k)}
                  exact == {r \in there : map.key[r].tag = k.tag \/ k.num = 0}
              IN  /\ js_map_get(map, k) \subseteq there
                  /\ exact # {} => js_map_get(map, k) # {}
                  /\ Cardinality(exact) <= 1
        /\ map.count = Cardinality(Full(map))

\* The entries and the walks as scripts see them.  No script runs in the loop of
\* js_map_clear.
Ended == -1
Abandoned == -2
Entries ==
    [i \in 1..map.n |-> IF i \in Full(map) /\ map.state \notin {"clearing", "lost"}
                       THEN map.key[i] ELSE Undefined]
Index ==
    [w \in Walkers |->
        CASE walk[w].at = "done" -> Ended
          [] walk[w].at = "freed" -> Abandoned
          [] OTHER -> walk[w].cur]

Ecma == INSTANCE EcmaMap WITH Hole <- Undefined, entries <- Entries, index <- Index

\* Records, locks and empty records implement the growing list with holes of
\* the language: each walk sees every entry once and in order, those that are
\* added on the way included, none that was deleted before it got there, and ends
\* only when there is nothing left; after clear there is no entry left, whatever
\* was freed in its loop.
ImplementsEcmaMap == Ecma!Init /\ [][Ecma!Next(Keys)]_(Ecma!vars)

=============================================================================
