------------------------------ MODULE EcmaMap ------------------------------
(***************************************************************************)
(* What Map and Set promise to scripts, as the language defines it: the    *)
(* entries are a list that only grows, a deleted entry stays in it as a    *)
(* hole, and a walk (an iterator, or a call of forEach) is an index that   *)
(* goes to the next entry that is not a hole.                              *)
(***************************************************************************)
EXTENDS Naturals, Sequences

CONSTANTS Walkers, Hole, Ended, Abandoned

VARIABLES
    entries,  \* keys and holes
    index     \* of each walker: 0 at first, Ended after the last entry

vars == <<entries, index>>

Holes(S) == [i \in DOMAIN entries |-> IF i \in S THEN Hole ELSE entries[i]]

Init == entries = <<>> /\ index = [w \in Walkers |-> 0]

\* A key that is not there gets an entry at the end.
Add(k) ==
    /\ k # Hole
    /\ \A i \in DOMAIN entries : entries[i] # k
    /\ entries' = Append(entries, k)
    /\ UNCHANGED index

\* delete for a single i, clear for all.  Walks of W that only the values of these
\* entries could go on with are abandoned.
Remove(S, W) ==
    /\ entries' = Holes(S)
    /\ index' = [w \in Walkers |-> IF w \in W THEN Abandoned ELSE index[w]]

Left(w) == {i \in DOMAIN entries : i > index[w] /\ entries[i] # Hole}

\* The walk takes the next entry, also one that was added after it began.
Advance(w) ==
    /\ index[w] \notin {Ended, Abandoned}
    /\ index' = [index EXCEPT ![w] =
                    IF Left(w) = {} THEN Ended
                    ELSE CHOOSE i \in Left(w) : \A j \in Left(w) : i <= j]
    /\ UNCHANGED entries

\* Nobody goes on with the walk.
Abandon(w) == Remove({}, {w})

Next(Keys) ==
    \/ \E k \in Keys : Add(k)
    \/ \E i \in DOMAIN entries, W \in SUBSET Walkers : Remove({i}, W)
    \/ Remove(DOMAIN entries, {})
    \/ \E w \in Walkers : Advance(w) \/ Abandon(w)

=============================================================================
