------------------------------ MODULE CycleGC ------------------------------
(***************************************************************************)
(* Reference counts of a runtime and the collector of cycles: the cascade  *)
(* of free_zero_refcount, and the three passes of JS_RunGC over the lists  *)
(* of the runtime, one list entry in each step.                            *)
(*                                                                         *)
(* Objects are JavaScript objects and function bytecodes, which a value    *)
(* can refer to.  Aux are shapes, detached variable references, contexts   *)
(* and async function states: they are freed as soon as their count is     *)
(* zero, and refer to objects only, but for a context, which refers to the *)
(* shape of arrays too.  A reference from a C or Swift variable, or from a *)
(* running function, is not marked and counts as a root.  Weak references  *)
(* are left out.                                                           *)
(***************************************************************************)
EXTENDS Integers, FiniteSets, SequencesExt

CONSTANTS
    Objects,
    Aux,
    Contexts,  \* of Aux
    NoNode,
    MaxEdges   \* bound: references between nodes

Nodes == Objects \cup Aux

ASSUME NodesAssumption ==
    /\ Objects \cap Aux = {} /\ Contexts \subseteq Aux
    /\ NoNode \notin Nodes
    /\ MaxEdges \in Nat

VARIABLES
    roots,   \* nodes with a reference that is not marked
    heap,    \* the nodes and the runtime's lists, see Heap
    phase,   \* what the engine is doing
    cursor,  \* the list entry it has come to
    clean    \* history: nothing has changed since the last collection

vars == <<roots, heap, phase, cursor, clean>>

(***************************************************************************)
(* count: ref_count.  mark: the header's mark.  edges: references that     *)
(* mark_children visits.  gc: gc_obj_list.  tmp: tmp_obj_list.  zero:      *)
(* gc_zero_ref_count_list, whose order does not matter.  freed: memory     *)
(* given back.  bad: an assertion failed, or freed memory was touched.     *)
(***************************************************************************)
Heap ==
    [count : [Nodes -> Nat], mark : [Nodes -> 0..1],
     edges : SUBSET (Nodes \X Nodes), gc : Seq(Nodes), tmp : Seq(Nodes),
     zero : SUBSET Nodes, freed : SUBSET Nodes, bad : BOOLEAN]

Kids(h, n) == {c \in Nodes : <<n, c>> \in h.edges}

\* mark_children: the order is that of the lists, where the code takes that of
\* the properties.
Children(h, n) == SelectSeq(h.gc \o h.tmp, LAMBDA c : <<n, c>> \in h.edges)

Without(s, S) == SelectSeq(s, LAMBDA n : n \notin S)

First(s) == IF s = <<>> THEN NoNode ELSE Head(s)

\* The entry after n in the list that holds n.
After(h, n) ==
    LET s == IF \E i \in DOMAIN h.gc : h.gc[i] = n THEN h.gc ELSE h.tmp
        i == CHOOSE i \in DOMAIN s : s[i] = n
    IN  IF i = Len(s) THEN NoNode ELSE s[i + 1]

-----------------------------------------------------------------------------
(***************************************************************************)
(* Counting down.                                                          *)
(***************************************************************************)

\* References to c that go when the nodes of dropped lose one reference each and
\* those of dead lose all that they hold.
Loses(h, dropped, dead, c) ==
    Cardinality({a \in dead : <<a, c>> \in h.edges}) + (IF c \in dropped THEN 1 ELSE 0)

\* Faulty variant of DeadAux: a context does not take the shape of arrays along.
DeadAuxAlone(h, dropped) == {a \in dropped \cap Aux : h.count[a] = 1}

\* The Aux that lose their last reference, by themselves or with a context.
DeadAux(h, dropped) ==
    LET dying(dead) == {a \in Aux : /\ Loses(h, dropped, dead, a) > 0
                                    /\ Loses(h, dropped, dead, a) = h.count[a]}
    IN  dying(dying({}))

\* The nodes of dropped lose one reference each.  Aux without references are
\* freed at once (js_free_shape0, free_var_ref, js_async_function_free0,
\* JS_FreeContext), with the references they hold.
Drop(h, dropped) ==
    LET dead == DeadAux(h, dropped)
        loses(c) == Loses(h, dropped, dead, c)
    IN  [h EXCEPT
           !.count = [c \in Nodes |-> @[c] - loses(c)],
           !.edges = {e \in @ : e[1] \notin dead},
           !.gc = Without(@, dead),
           !.tmp = Without(@, dead),
           !.zero = @ \ dead,
           !.freed = @ \cup dead,
           !.bad = @ \/ \E c \in Nodes :
                           loses(c) > h.count[c] \/ (loses(c) > 0 /\ c \in h.freed)]

\* __JS_FreeValueRT outside of gc_free_cycles: objects that have just lost
\* their last reference wait to be freed.
Queue(h, g) ==
    LET dying == {o \in Objects : h.count[o] > 0 /\ g.count[o] = 0}
    IN  [g EXCEPT !.gc = Without(@, dying), !.zero = @ \cup dying]

\* free_object up to the end of its finalizer: all its references go.
Strip(h, p) ==
    Drop([h EXCEPT !.edges = {e \in @ : e[1] # p}], Kids(h, p))

\* free_object in free_zero_refcount
free_object(h, p) ==
    LET g == Queue(h, Strip(h, p))
    IN  [g EXCEPT !.zero = @ \ {p}, !.freed = @ \cup {p},
                  !.bad = @ \/ h.count[p] # 0 \/ p \in h.freed]

\* Faulty variant of free_zombie: the memory is given back at once.
FreeAtOnce(h, p) ==
    LET g == Strip([h EXCEPT !.tmp = Without(@, {p})], p)
    IN  [g EXCEPT !.freed = @ \cup {p}]

\* free_object in gc_free_cycles: memory that others still refer to is kept.
free_zombie(h, p) ==
    LET g == Strip([h EXCEPT !.tmp = Without(@, {p})], p)
    IN  IF g.count[p] # 0
        THEN [g EXCEPT !.zero = @ \cup {p}]
        ELSE [g EXCEPT !.freed = @ \cup {p}]

-----------------------------------------------------------------------------
(***************************************************************************)
(* The passes of the collector.                                            *)
(***************************************************************************)

\* Faulty variant of gc_decref_child: nodes that were not visited move too.
DecrefUnmarked(h, c) ==
    LET g == [h EXCEPT !.count[c] = @ - 1,
                       !.bad = @ \/ h.count[c] = 0]
    IN  IF g.count[c] = 0
        THEN [g EXCEPT !.gc = Without(@, {c}), !.tmp = Append(Without(@, {c}), c)]
        ELSE g

\* gc_decref_child
gc_decref_child(h, c) ==
    LET g == [h EXCEPT !.count[c] = @ - 1,
                       !.bad = @ \/ h.count[c] = 0]
    IN  IF g.count[c] = 0 /\ g.mark[c] = 1
        THEN [g EXCEPT !.gc = Without(@, {c}), !.tmp = Append(Without(@, {c}), c)]
        ELSE g

\* The body of the loop of gc_decref
gc_decref(h, p) ==
    LET g == FoldLeft(gc_decref_child, [h EXCEPT !.bad = @ \/ h.mark[p] # 0],
                      Children(h, p))
        m == [g EXCEPT !.mark[p] = 1]
    IN  IF m.count[p] = 0
        THEN [m EXCEPT !.gc = Without(@, {p}), !.tmp = Append(Without(@, {p}), p)]
        ELSE m

\* Faulty variant of gc_scan_incref_child: the node goes where the loop was.
ScanAtHead(h, c) ==
    LET g == [h EXCEPT !.count[c] = @ + 1]
    IN  IF g.count[c] = 1
        THEN [g EXCEPT !.tmp = Without(@, {c}), !.gc = <<c>> \o Without(@, {c}),
                       !.mark[c] = 0]
        ELSE g

\* gc_scan_incref_child: what a live node refers to is live.
gc_scan_incref_child(h, c) ==
    LET g == [h EXCEPT !.count[c] = @ + 1]
    IN  IF g.count[c] = 1
        THEN [g EXCEPT !.tmp = Without(@, {c}), !.gc = Append(Without(@, {c}), c),
                       !.mark[c] = 0]
        ELSE g

\* The body of the first loop of gc_scan
gc_scan(h, p) ==
    FoldLeft(gc_scan_incref_child,
             [h EXCEPT !.bad = @ \/ h.count[p] = 0, !.mark[p] = 0],
             Children(h, p))

\* Faulty variant of Restore: garbage keeps its lowered counts.
RestoreNothing(h, p) == h

\* The body of the second loop, with gc_scan_incref_child2
Restore(h, p) ==
    [h EXCEPT !.count = [c \in Nodes |-> IF c \in Kids(h, p) THEN @[c] + 1 ELSE @[c]]]

-----------------------------------------------------------------------------
(***************************************************************************)
(* What scripts and the host do.                                           *)
(***************************************************************************)
\* The nodes that references connect to the roots.
Reachable ==
    LET step(S, i) == S \cup {c \in Nodes : \E n \in S : <<n, c>> \in heap.edges}
    IN  FoldLeft(step, roots, [i \in 1..Cardinality(Nodes) |-> i])

\* add_gc_object: a new node, and a reference to it.
New(n) ==
    /\ phase = "none"
    /\ n \in heap.freed
    /\ roots' = roots \cup {n}
    /\ heap' = [heap EXCEPT !.freed = @ \ {n}, !.gc = Append(@, n),
                            !.count[n] = 1, !.mark[n] = 0]
    /\ clean' = FALSE
    /\ UNCHANGED <<phase, cursor>>

\* JS_DupValue: a reference to be held outside.
Retain(n) ==
    /\ phase = "none"
    /\ n \in Reachable \ roots
    /\ roots' = roots \cup {n}
    /\ heap' = [heap EXCEPT !.count[n] = @ + 1]
    /\ clean' = FALSE
    /\ UNCHANGED <<phase, cursor>>

\* A reference is stored in a property, a variable or an element.
Link(n, c) ==
    /\ phase = "none"
    /\ {n, c} \subseteq Reachable
    /\ n \in Objects \/ c \in Objects \/ (n \in Contexts /\ c \notin Contexts)
    /\ <<n, c>> \notin heap.edges
    /\ Cardinality(heap.edges) < MaxEdges
    /\ heap' = [heap EXCEPT !.edges = @ \cup {<<n, c>>}, !.count[c] = @ + 1]
    /\ clean' = FALSE
    /\ UNCHANGED <<roots, phase, cursor>>

Mutate(h) ==
    /\ heap' = Queue(heap, h)
    /\ phase' = IF heap'.zero = {} THEN "none" ELSE "zero"
    /\ clean' = FALSE
    /\ UNCHANGED cursor

\* JS_FreeValue of a reference held outside.
Release(n) ==
    /\ phase = "none"
    /\ n \in roots
    /\ roots' = roots \ {n}
    /\ Mutate(Drop(heap, {n}))

\* A property, a variable or an element is deleted or overwritten.
Unlink(n, c) ==
    /\ phase = "none"
    /\ n \in Reachable
    /\ <<n, c>> \in heap.edges
    /\ Mutate(Drop([heap EXCEPT !.edges = @ \ {<<n, c>>}], {c}))
    /\ UNCHANGED roots

\* One turn of the loop of free_zero_refcount
FreeZero(p) ==
    /\ phase = "zero"
    /\ p \in heap.zero
    /\ heap' = free_object(heap, p)
    /\ phase' = IF heap'.zero = {} THEN "none" ELSE "zero"
    /\ UNCHANGED <<roots, cursor, clean>>

\* js_trigger_gc calls JS_RunGC.
RunGC ==
    /\ phase = "none"
    /\ ~clean
    /\ phase' = "decref"
    /\ cursor' = First(heap.gc)
    /\ heap' = [heap EXCEPT !.tmp = <<>>]
    /\ UNCHANGED <<roots, clean>>

\* The next entry is looked up before the body of list_for_each_safe.
DecrefStep ==
    /\ phase = "decref"
    /\ cursor # NoNode
    /\ heap' = gc_decref(heap, cursor)
    /\ cursor' = After(heap, cursor)
    /\ UNCHANGED <<roots, phase, clean>>

\* The list grows while it is walked.
ScanStep ==
    /\ phase = "scan"
    /\ cursor # NoNode
    /\ heap' = gc_scan(heap, cursor)
    /\ cursor' = After(heap', cursor)
    /\ UNCHANGED <<roots, phase, clean>>

RestoreStep ==
    /\ phase = "restore"
    /\ cursor # NoNode
    /\ heap' = Restore(heap, cursor)
    /\ cursor' = After(heap', cursor)
    /\ UNCHANGED <<roots, phase, clean>>

\* From one loop to the next.
NextPass ==
    /\ cursor = NoNode
    /\ \/ phase = "decref" /\ phase' = "scan" /\ cursor' = First(heap.gc)
       \/ phase = "scan" /\ phase' = "restore" /\ cursor' = First(heap.tmp)
       \/ phase = "restore" /\ phase' = "free" /\ cursor' = NoNode
    /\ UNCHANGED <<roots, heap, clean>>

\* One turn of the first loop of gc_free_cycles
FreeCycles ==
    /\ phase = "free"
    /\ heap.tmp # <<>>
    /\ LET p == Head(heap.tmp)
       IN  heap' = IF p \in Objects THEN free_zombie(heap, p)
                   ELSE [heap EXCEPT !.tmp = Tail(@), !.zero = @ \cup {p}]
    /\ UNCHANGED <<roots, phase, cursor, clean>>

\* The second loop of gc_free_cycles
FreeZombies ==
    /\ phase = "free"
    /\ heap.tmp = <<>>
    /\ heap' = [heap EXCEPT !.freed = @ \cup heap.zero, !.zero = {},
                            !.bad = @ \/ ~(heap.zero \subseteq Objects)]
    /\ phase' = "none"
    /\ clean' = TRUE
    /\ UNCHANGED <<roots, cursor>>

-----------------------------------------------------------------------------
\* A new runtime.
Init ==
    /\ roots = {}
    /\ heap = [count |-> [n \in Nodes |-> 0], mark |-> [n \in Nodes |-> 0],
               edges |-> {}, gc |-> <<>>, tmp |-> <<>>, zero |-> {},
               freed |-> Nodes, bad |-> FALSE]
    /\ phase = "none"
    /\ cursor = NoNode
    /\ clean = TRUE

Next ==
    \/ \E n \in Nodes : New(n) \/ Retain(n) \/ Release(n)
    \/ \E n, c \in Nodes : Link(n, c) \/ Unlink(n, c)
    \/ \E p \in Objects : FreeZero(p)
    \/ RunGC
    \/ DecrefStep
    \/ ScanStep
    \/ RestoreStep
    \/ NextPass
    \/ FreeCycles
    \/ FreeZombies

Spec == Init /\ [][Next]_vars

-----------------------------------------------------------------------------
Phases == {"none", "zero", "decref", "scan", "restore", "free"}

\* Type invariant of the heap and the collector.
TypeOK ==
    /\ roots \subseteq Nodes
    /\ heap \in Heap
    /\ phase \in Phases
    /\ cursor \in Nodes \cup {NoNode}
    /\ clean \in BOOLEAN

Live == Nodes \ heap.freed

\* The references to a node.
References(n) ==
    Cardinality({e \in heap.edges : e[2] = n}) + (IF n \in roots THEN 1 ELSE 0)

\* What the roots reach is never freed, not even its contents, and a
\* collection leaves nothing else: cycles go, and what they refer to stays.
\* In the middle of it gc_decref leaves in gc_obj_list the nodes with a
\* reference from outside, and gc_scan in tmp_obj_list those that no root
\* reaches.
CollectsExactly ==
    /\ Reachable \subseteq Live \ heap.zero
    /\ phase = "decref" /\ cursor = NoNode => ToSet(heap.gc) = roots
    /\ phase = "restore" => ToSet(heap.tmp) = Live \ Reachable
    /\ clean /\ phase = "none" => Live = Reachable

\* Between operations every count is the number of references, the marks are
\* reset for the next collection, and gc_obj_list holds the live nodes once
\* each: the passes undo on live nodes all that they do.
CountsRestored ==
    phase = "none" =>
        /\ \A n \in Live : heap.count[n] = References(n) /\ heap.mark[n] = 0
        /\ heap.zero = {}
        /\ ToSet(heap.gc) = Live /\ Len(heap.gc) = Cardinality(Live)

\* The assertions of the passes hold, no count falls below zero and freed
\* memory is not touched, in whatever order the members of a cycle are freed.
AssertionsHold == TypeOK /\ ~heap.bad

=============================================================================
