--------------------------- MODULE PromiseProofs ---------------------------
(***************************************************************************)
(* Proofs about Promise.  The engine's functions are operators from heap   *)
(* to heap; the invariant of the heap is a conjunction of parts, and there *)
(* is a lemma for what each function does to each part.                    *)
(***************************************************************************)
EXTENDS Promise, FiniteSetTheorems, TLAPS

(***************************************************************************)
(* The shape of a heap, and what the numbers in it refer to.               *)
(***************************************************************************)
Ways == 0..1
FnStates == {"running", "suspended", "done"}
Reactions == [cap : Nat, handler : Handlers, on : Nat, no : Nat]
Jobs == [kind : {"reaction", "thenable"}, cap : Nat, handler : Handlers, way : Ways,
         arg : Int, on : Nat, no : Nat]
Combs == [kind : Kinds, items : Seq(Nat), cap : Nat, index : Nat,
          called : SUBSET (Nat \X Ways), remaining : Nat]
Fns == [state : FnStates, cap : Nat]

Heaps == [state : Seq(States), result : Seq({Plain}),
          reactions : Seq([Ways -> Seq(Reactions)]), count : Seq(Nat), ran : Seq(Nat),
          pair : Seq(Nat), resolved : SUBSET Nat,
          jobs : Seq(Jobs), comb : Seq(Combs), fn : Seq(Fns)]

Shape(h) ==
    /\ h \in Heaps
    /\ Len(h.result) = Len(h.state) /\ Len(h.reactions) = Len(h.state)
    /\ Len(h.count) = Len(h.state) /\ Len(h.ran) = Len(h.state)

PromisesOf(h) == 1..Len(h.state)
PairsOf(h) == 1..Len(h.pair)
CombsOf(h) == 1..Len(h.comb)
FnsOf(h) == 1..Len(h.fn)
JobsOf(h) == 1..Len(h.jobs)
ListOf(h, p, w) == 1..Len(h.reactions[p][w])

HandlerOK(h, hd) ==
    /\ hd.kind = "settle" => hd.a \in PairsOf(h) /\ hd.b \in Ways
    /\ hd.kind = "element" => hd.a \in CombsOf(h)
    /\ hd.kind = "await" => hd.a \in FnsOf(h)
    /\ hd.kind \in {"thunk", "thrower"} => hd.a = Plain

\* A reaction, or the job made of it.
RefOK(h, x) ==
    /\ x.cap \in 0..Len(h.pair)
    /\ x.on \in PromisesOf(h)
    /\ HandlerOK(h, x.handler)

RefInv(h) ==
    /\ h.resolved \subseteq PairsOf(h)
    /\ \A r \in PairsOf(h) : h.pair[r] \in PromisesOf(h)
    /\ \A f \in FnsOf(h) : h.fn[f].cap \in PairsOf(h)
    /\ \A p \in PromisesOf(h), w \in Ways : \A i \in ListOf(h, p, w) :
          RefOK(h, h.reactions[p][w][i]) /\ h.reactions[p][w][i].on = p
    /\ \A i \in JobsOf(h) :
          /\ RefOK(h, h.jobs[i])
          /\ h.jobs[i].kind = "reaction" => h.jobs[i].arg = Plain
          /\ h.jobs[i].kind = "thenable" =>
                /\ h.jobs[i].handler.kind = "none"
                /\ h.jobs[i].arg \in -2..Len(h.state)

-----------------------------------------------------------------------------
(***************************************************************************)
(* The ways to settle a promise.                                           *)
(***************************************************************************)
Open(h, r) == r \notin h.resolved
Adopts(h, i, p) == h.jobs[i].kind = "thenable" /\ h.jobs[i].on = p

WayInv(h) ==
    /\ \A r \in PairsOf(h) : Open(h, r) => h.state[h.pair[r]] = "pending"
    /\ \A i \in JobsOf(h) : h.jobs[i].kind = "thenable" =>
          h.state[h.jobs[i].on] = "pending"
    /\ \A r, s \in PairsOf(h) :
          Open(h, r) /\ Open(h, s) /\ h.pair[r] = h.pair[s] => r = s
    /\ \A i, j \in JobsOf(h) :
          Adopts(h, i, h.jobs[i].on) /\ Adopts(h, j, h.jobs[i].on) => i = j
    /\ \A r \in PairsOf(h), i \in JobsOf(h) :
          Open(h, r) => ~Adopts(h, i, h.pair[r])
    /\ \A p \in PromisesOf(h) : h.state[p] = "pending" =>
          \/ \E r \in PairsOf(h) : Open(h, r) /\ h.pair[r] = p
          \/ \E i \in JobsOf(h) : Adopts(h, i, p)

(***************************************************************************)
(* The reactions of a promise, in lists or jobs.                           *)
(***************************************************************************)
IsReaction(h, i, p) == h.jobs[i].kind = "reaction" /\ h.jobs[i].on = p

OrderInv(h) ==
    /\ \A p \in PromisesOf(h) : h.state[p] = "pending" =>
          /\ h.ran[p] = 0
          /\ \A w \in Ways : /\ Len(h.reactions[p][w]) = h.count[p]
                             /\ \A i \in ListOf(h, p, w) : h.reactions[p][w][i].no = i
    /\ \A p \in PromisesOf(h) : h.state[p] # "pending" =>
          /\ h.ran[p] <= h.count[p]
          /\ \A w \in Ways : h.reactions[p][w] = <<>>
          /\ \A n \in h.ran[p] + 1 .. h.count[p] :
                \E i \in JobsOf(h) : IsReaction(h, i, p) /\ h.jobs[i].no = n
    /\ \A i \in JobsOf(h) : h.jobs[i].kind = "reaction" =>
          /\ h.state[h.jobs[i].on] = Outcome(h.jobs[i].way)
          /\ h.jobs[i].no \in h.ran[h.jobs[i].on] + 1 .. h.count[h.jobs[i].on]
    /\ \A i, j \in JobsOf(h) :
          i < j /\ IsReaction(h, i, h.jobs[j].on) /\ h.jobs[j].kind = "reaction" =>
              h.jobs[i].no < h.jobs[j].no

(***************************************************************************)
(* The continuations of async functions.                                   *)
(***************************************************************************)
Goes(x, f) == x.handler.kind = "await" /\ x.handler.a = f

ContInv(h) ==
    \A f \in FnsOf(h) :
        /\ \A p \in PromisesOf(h), w, v \in Ways : \A i \in ListOf(h, p, w) :
              Goes(h.reactions[p][w][i], f) =>
                  /\ h.fn[f].state = "suspended"
                  /\ i \in ListOf(h, p, v) /\ Goes(h.reactions[p][v][i], f)
                  /\ \A q \in PromisesOf(h) : \A j \in ListOf(h, q, w) :
                        Goes(h.reactions[q][w][j], f) => q = p /\ j = i
                  /\ \A j \in JobsOf(h) : ~Goes(h.jobs[j], f)
        /\ \A i \in JobsOf(h) : Goes(h.jobs[i], f) =>
              /\ h.fn[f].state = "suspended"
              /\ \A j \in JobsOf(h) : Goes(h.jobs[j], f) => j = i
        /\ h.fn[f].state = "suspended" =>
              \/ \E p \in PromisesOf(h) : \E i \in ListOf(h, p, 0) :
                    Goes(h.reactions[p][0][i], f)
              \/ \E i \in JobsOf(h) : Goes(h.jobs[i], f)

-----------------------------------------------------------------------------
(***************************************************************************)
(* Combinators.  Their pairs are private: only the handlers that they have *)
(* put on their promises, and the functions of elements, call them.        *)
(***************************************************************************)
Private(h) == {h.comb[c].cap : c \in CombsOf(h)}

HandlerAt(h, c, i, w) ==
    ElementHandlers(h.comb[c].kind, c, i, h.comb[c].cap)[w]

Belongs(h, hd, c) ==
    \/ hd.kind = "settle" /\ hd.a = h.comb[c].cap
    \/ hd.kind = "element" /\ hd.a = c

\* Handler hd for way w of promise p was put there by the combinator it is of.
Legit(h, hd, p, w) ==
    \A c \in CombsOf(h) : Belongs(h, hd, c) =>
        \E i \in 1..h.comb[c].index :
            h.comb[c].items[i] = p /\ HandlerAt(h, c, i, w) = hd

CombType(h) ==
    \A c \in CombsOf(h) :
        /\ \A i \in 1..Len(h.comb[c].items) : h.comb[c].items[i] \in PromisesOf(h)
        /\ h.comb[c].cap \in PairsOf(h)
        /\ h.comb[c].index \in 0..Len(h.comb[c].items)
        /\ h.comb[c].called \subseteq (1..h.comb[c].index) \X Ways

PrivateInv(h) ==
    /\ CombType(h)
    /\ \A c, d \in CombsOf(h) : h.comb[c].cap = h.comb[d].cap => c = d
    /\ \A f \in FnsOf(h) : h.fn[f].cap \notin Private(h)
    /\ \A p \in PromisesOf(h), w \in Ways : \A i \in ListOf(h, p, w) :
          /\ h.reactions[p][w][i].cap \notin Private(h)
          /\ Legit(h, h.reactions[p][w][i].handler, p, w)
    /\ \A i \in JobsOf(h) :
          /\ h.jobs[i].cap \notin Private(h)
          /\ h.jobs[i].kind = "reaction" =>
                Legit(h, h.jobs[i].handler, h.jobs[i].on, h.jobs[i].way)

\* The work for element i of c and way w has been done.
Processed(h, c, i, w) ==
    IF HandlerAt(h, c, i, w).kind = "element" THEN <<i, w>> \in h.comb[c].called
                                             ELSE ~Open(h, h.comb[c].cap)

IsJobFor(j, hd, p, w) ==
    j.kind = "reaction" /\ j.on = p /\ j.way = w /\ j.handler = hd

\* Nothing of a combinator is lost; J are the jobs, that in hand included.
DoneInv(h, J) ==
    \A c \in CombsOf(h), w \in Ways : \A i \in 1..h.comb[c].index :
        LET p == h.comb[c].items[i]
            hd == HandlerAt(h, c, i, w)
        IN  /\ h.state[p] = "pending" =>
                  \E n \in ListOf(h, p, w) : h.reactions[p][w][n].handler = hd
            /\ h.state[p] = Outcome(w) =>
                  Processed(h, c, i, w) \/ \E j \in J : IsJobFor(j, hd, p, w)

JobSet(h) == {h.jobs[i] : i \in JobsOf(h)}

CalledInv(h) ==
    \A c \in CombsOf(h), w \in Ways : \A i \in 1..h.comb[c].index :
      <<i, w>> \in h.comb[c].called =>
        /\ h.state[h.comb[c].items[i]] = Outcome(w)
        /\ HandlerAt(h, c, i, w).kind = "element"

Uncalled(m) == {i \in 1..m.index : <<i, 0>> \notin m.called /\ <<i, 1>> \notin m.called}

\* L are the combinators in their loop.
CountInv(h, L) ==
    \A c \in CombsOf(h) :
        /\ c \notin L => h.comb[c].index = Len(h.comb[c].items)
        /\ h.comb[c].kind # "race" =>
              h.comb[c].remaining
                = Cardinality(Uncalled(h.comb[c])) + (IF c \in L THEN 1 ELSE 0)

\* When nothing remains the promise has been settled, except for those in X.
ZeroInv(h, X) ==
    \A c \in CombsOf(h) \ X :
        h.comb[c].kind # "race" /\ h.comb[c].remaining = 0 => ~Open(h, h.comb[c].cap)

\* The outcomes that the promises of a combinator justify.
Justified(h, m, s) ==
    IF <<m.kind, s>> \in {<<"all", "fulfilled">>, <<"any", "rejected">>}
    THEN \A i \in 1..Len(m.items) : h.state[m.items[i]] = s
    ELSE IF m.kind = "allSettled"
    THEN s = "fulfilled" /\ \A i \in 1..Len(m.items) : h.state[m.items[i]] # "pending"
    ELSE \E i \in 1..Len(m.items) : h.state[m.items[i]] = s

JustInv(h) ==
    \A c \in CombsOf(h) : ~Open(h, h.comb[c].cap) =>
        /\ h.state[h.pair[h.comb[c].cap]] # "pending"
        /\ Justified(h, h.comb[c], h.state[h.pair[h.comb[c].cap]])

-----------------------------------------------------------------------------
HeapInv(h) == Shape(h) /\ RefInv(h) /\ WayInv(h) /\ OrderInv(h) /\ ContInv(h) /\ PrivateInv(h)
CombInv(h, J, L, X) ==
    DoneInv(h, J) /\ CalledInv(h) /\ CountInv(h, L) /\ ZeroInv(h, X) /\ JustInv(h)

\* L are the combinators in their loop.
Good(h, L) == HeapInv(h) /\ CombInv(h, JobSet(h), L, {})

-----------------------------------------------------------------------------
(***************************************************************************)
(* The stack and the script.                                               *)
(***************************************************************************)
Frames == [kind : {"user", "finally", "then", "async", "combine"}, cap : Nat, way : Ways,
           arg : Nat]

FrameOK(h, x) ==
    /\ x.cap \in 0..Len(h.pair) /\ x.cap \notin Private(h)
    /\ x.kind = "async" => x.arg \in FnsOf(h) /\ h.fn[x.arg].state = "running"
    /\ x.kind = "combine" => x.arg \in CombsOf(h)
    /\ x.kind \in {"user", "finally", "then"} => x.arg = Plain

\* Only the frame on top is a loop, and a function runs in one frame.
FramesInv(h, s) ==
    /\ s \in Seq(Frames)
    /\ \A i \in 1..Len(s) : FrameOK(h, s[i]) /\ (s[i].kind = "combine" => i = Len(s))
    /\ \A i, j \in 1..Len(s) :
          s[i].kind = "async" /\ s[j].kind = "async" /\ s[i].arg = s[j].arg => i = j

Looping(s) == {s[i].arg : i \in {j \in 1..Len(s) : s[j].kind = "combine"}}

\* Scripts do not hold what is private to combinators.
ScriptsInv(h, pairs, promises) ==
    /\ pairs \subseteq PairsOf(h) /\ \A r \in pairs : r \notin Private(h)
    /\ promises \subseteq PromisesOf(h)

Inv ==
    /\ Good(heap, Looping(stack))
    /\ FramesInv(heap, stack)
    /\ ScriptsInv(heap, held, known)
    /\ ops \in 0..MaxOps

-----------------------------------------------------------------------------
(***************************************************************************)
(* Sequences.                                                              *)
(***************************************************************************)
Adds(s, t, x) ==
    /\ Len(t) = Len(s) + 1
    /\ \A i \in 1..Len(s) : t[i] = s[i]
    /\ t[Len(s) + 1] = x

LEMMA AppendFacts ==
    ASSUME NEW S, NEW s \in Seq(S), NEW x \in S
    PROVE  Append(s, x) \in Seq(S) /\ Adds(s, Append(s, x), x)
BY DEF Adds

LEMMA ConcatFacts ==
    ASSUME NEW S, NEW s \in Seq(S), NEW t \in Seq(S), NEW u, u = s \o t
    PROVE  /\ u \in Seq(S)
           /\ Len(u) = Len(s) + Len(t)
           /\ \A i \in 1..Len(s) : u[i] = s[i]
           /\ \A i \in 1..Len(t) : u[Len(s) + i] = t[i]
OBVIOUS

LEMMA TailFacts ==
    ASSUME NEW S, NEW s \in Seq(S), s # <<>>
    PROVE  /\ Tail(s) \in Seq(S)
           /\ Len(Tail(s)) = Len(s) - 1
           /\ \A i \in 1..Len(Tail(s)) : Tail(s)[i] = s[i + 1]
           /\ Head(s) = s[1] /\ Len(s) \in Nat \ {0} /\ s[1] \in S
OBVIOUS

LEMMA FrontFacts ==
    ASSUME NEW S, NEW s \in Seq(S), s # <<>>
    PROVE  /\ Front(s) \in Seq(S)
           /\ Len(Front(s)) = Len(s) - 1
           /\ \A i \in 1..Len(Front(s)) : Front(s)[i] = s[i]
           /\ Last(s) = s[Len(s)] /\ Len(s) \in Nat \ {0} /\ s[Len(s)] \in S
<1>1. Len(s) \in Nat \ {0} /\ s[Len(s)] \in S
  OBVIOUS
<1> DEFINE n == Len(s) - 1
<1>2. \A i \in 1..n : s[i] \in S
  BY <1>1
<1> HIDE DEF n
<1>3. n \in Nat /\ n <= Len(s) /\ n = Len(s) - 1
  BY <1>1 DEF n
<1>4. SubSeq(s, 1, n) = [i \in 1..n |-> s[i]]
  BY <1>3
<1>5. /\ SubSeq(s, 1, n) \in Seq(S)
      /\ Len(SubSeq(s, 1, n)) = n
      /\ \A i \in 1..n : SubSeq(s, 1, n)[i] = s[i]
  BY <1>2, <1>3, <1>4
<1>6. QED
  BY <1>1, <1>5 DEF Front, Last, n

LEMMA MapFacts ==
    ASSUME NEW S, NEW n \in Nat, NEW f, f = [i \in 1..n |-> f[i]],
           \A i \in 1..n : f[i] \in S
    PROVE  f \in Seq(S) /\ Len(f) = n /\ DOMAIN f = 1..n
OBVIOUS

LEMMA UpdateFacts ==
    ASSUME NEW S, NEW s \in Seq(S), NEW i \in 1..Len(s), NEW x \in S
    PROVE  /\ [s EXCEPT ![i] = x] \in Seq(S)
           /\ Len([s EXCEPT ![i] = x]) = Len(s)
           /\ \A j \in 1..Len(s) : [s EXCEPT ![i] = x][j] = IF j = i THEN x ELSE s[j]
OBVIOUS

LEMMA AddsFacts ==
    ASSUME NEW s, NEW t, NEW x, Len(s) \in Nat, Adds(s, t, x)
    PROVE  /\ 1..Len(t) = (1..Len(s)) \cup {Len(s) + 1}
           /\ Len(s) + 1 \notin 1..Len(s)
           /\ \A i \in 1..Len(s) : t[i] = s[i] /\ i < Len(s) + 1
           /\ t[Len(s) + 1] = x
<1> DEFINE n == Len(s)
<1>1. n \in Nat /\ Len(t) = n + 1
  BY DEF Adds
<1> HIDE DEF n
<1>2. /\ 1..(n + 1) = (1..n) \cup {n + 1}
      /\ n + 1 \notin 1..n
      /\ \A i \in 1..n : i < n + 1
  BY <1>1
<1>3. QED
  BY <1>1, <1>2 DEF Adds, n

-----------------------------------------------------------------------------
(***************************************************************************)
(* What the functions of the engine do, field by field.                    *)
(***************************************************************************)
SettleEffect(h, g, p, w) ==
    /\ Shape(g)
    /\ Len(g.state) = Len(h.state)
    /\ \A q \in PromisesOf(h) : g.state[q] = IF q = p THEN Outcome(w) ELSE h.state[q]
    /\ \A q \in PromisesOf(h), u \in Ways :
          g.reactions[q][u] = IF q = p THEN <<>> ELSE h.reactions[q][u]
    /\ Len(g.jobs) = Len(h.jobs) + Len(h.reactions[p][w])
    /\ \A i \in JobsOf(h) : g.jobs[i] = h.jobs[i]
    /\ \A i \in ListOf(h, p, w) :
          g.jobs[Len(h.jobs) + i] = ReactionJob(h.reactions[p][w][i], w, Plain)
    /\ g.count = h.count /\ g.ran = h.ran /\ g.comb = h.comb /\ g.fn = h.fn

LEMMA ReactionJobType ==
    ASSUME NEW x \in Reactions, NEW w \in Ways
    PROVE  ReactionJob(x, w, Plain) \in Jobs
BY DEF ReactionJob, Jobs, Reactions, Plain

LEMMA FulfillEffect ==
    ASSUME NEW h, Shape(h), NEW p \in PromisesOf(h), h.state[p] = "pending", NEW w \in Ways
    PROVE  LET g == fulfill_or_reject_promise(h, p, Plain, w)
           IN  SettleEffect(h, g, p, w) /\ g.pair = h.pair /\ g.resolved = h.resolved
<1> DEFINE list == h.reactions[p][w]
           new == [i \in DOMAIN list |-> ReactionJob(list[i], w, Plain)]
           g == fulfill_or_reject_promise(h, p, Plain, w)
           state == [h.state EXCEPT ![p] = Outcome(w)]
           result == [h.result EXCEPT ![p] = Plain]
           jobs == h.jobs \o new
           reactions == [h.reactions EXCEPT ![p] = NoReactions]
<1>1. /\ h \in Heaps /\ Len(h.state) \in Nat /\ Len(h.jobs) \in Nat
      /\ p \in 1..Len(h.state) /\ Len(h.result) = Len(h.state)
      /\ Len(h.reactions) = Len(h.state)
      /\ Len(h.count) = Len(h.state) /\ Len(h.ran) = Len(h.state)
  BY SMTT(30) DEF Shape, Heaps, PromisesOf
<1>2. list \in Seq(Reactions) /\ Len(list) \in Nat
  BY SMTT(30), <1>1 DEF Heaps
<1>3. /\ new \in Seq(Jobs) /\ Len(new) = Len(list)
      /\ \A i \in 1..Len(list) : new[i] = ReactionJob(list[i], w, Plain)
  <2>1. \A i \in 1..Len(list) : ReactionJob(list[i], w, Plain) \in Jobs
    BY <1>2, ReactionJobType
  <2>2. DOMAIN list = 1..Len(list)
    BY <1>2
  <2>3. QED
    BY <1>2, <2>1, <2>2
<1>4. g = [h EXCEPT !.state = state, !.result = result, !.jobs = jobs,
                    !.reactions = reactions]
  BY <1>1 DEF fulfill_or_reject_promise, Heaps
<1>5. /\ state \in Seq(States) /\ Len(state) = Len(h.state)
      /\ \A q \in 1..Len(h.state) : state[q] = IF q = p THEN Outcome(w) ELSE h.state[q]
  <2>1. h.state \in Seq(States) /\ Outcome(w) \in States
    BY <1>1 DEF Heaps, States, Outcome
  <2>2. QED
    BY <1>1, <2>1, UpdateFacts
<1>6. result \in Seq({Plain}) /\ Len(result) = Len(h.state)
  BY <1>1 DEF Heaps
<1>7. /\ reactions \in Seq([Ways -> Seq(Reactions)]) /\ Len(reactions) = Len(h.state)
      /\ \A q \in 1..Len(h.state), u \in Ways :
            reactions[q][u] = IF q = p THEN <<>> ELSE h.reactions[q][u]
  <2>1. NoReactions \in [Ways -> Seq(Reactions)] /\ \A u \in Ways : NoReactions[u] = <<>>
    BY DEF NoReactions, Ways
  <2>2. h.reactions \in Seq([Ways -> Seq(Reactions)])
    BY <1>1 DEF Heaps
  <2>3. /\ reactions \in Seq([Ways -> Seq(Reactions)]) /\ Len(reactions) = Len(h.state)
        /\ \A q \in 1..Len(h.state) :
              reactions[q] = IF q = p THEN NoReactions ELSE h.reactions[q]
    BY SMTT(30), <1>1, <2>1, <2>2, UpdateFacts
  <2> HIDE DEF reactions
  <2>4. QED
    BY <2>1, <2>3
<1>8. /\ jobs \in Seq(Jobs) /\ Len(jobs) = Len(h.jobs) + Len(list)
      /\ \A i \in 1..Len(h.jobs) : jobs[i] = h.jobs[i]
      /\ \A i \in 1..Len(list) : jobs[Len(h.jobs) + i] = ReactionJob(list[i], w, Plain)
  <2>1. h.jobs \in Seq(Jobs)
    BY <1>1 DEF Heaps
  <2> HIDE DEF list, new
  <2>2. new \in Seq(Jobs)
    BY <1>3
  <2>3. jobs = h.jobs \o new
    OBVIOUS
  <2> HIDE DEF jobs
  <2>4. /\ jobs \in Seq(Jobs)
        /\ Len(jobs) = Len(h.jobs) + Len(new)
        /\ \A i \in 1..Len(h.jobs) : jobs[i] = h.jobs[i]
        /\ \A i \in 1..Len(new) : jobs[Len(h.jobs) + i] = new[i]
    BY <2>1, <2>2, <2>3, ConcatFacts
  <2>5. QED
    BY <1>3, <2>4
<1>9. g.state = state /\ g.result = result /\ g.jobs = jobs /\ g.reactions = reactions
  BY <1>1, <1>4 DEF Heaps
<1>10. /\ g.count = h.count /\ g.ran = h.ran /\ g.pair = h.pair /\ g.comb = h.comb
       /\ g.fn = h.fn /\ g.resolved = h.resolved
  BY <1>1, <1>4 DEF Heaps
<1>11. g \in Heaps
  BY <1>1, <1>4, <1>5, <1>6, <1>7, <1>8 DEF Heaps
<1> HIDE DEF g, state, result, reactions, new, jobs
<1>12. Shape(g)
  BY <1>1, <1>5, <1>6, <1>7, <1>9, <1>10, <1>11 DEF Shape
<1>13. QED
  BY <1>1, <1>5, <1>7, <1>8, <1>9, <1>10, <1>12
  DEF SettleEffect, PromisesOf, JobsOf, ListOf, g

\* js_promise_resolve_function_call sets the flag of pair r.
Marked(h, g, r) == g.pair = h.pair /\ g.resolved = h.resolved \cup {r}

LEMMA MarkEffect ==
    ASSUME NEW h, Shape(h), NEW r \in PairsOf(h)
    PROVE  LET g == [h EXCEPT !.resolved = @ \cup {r}]
           IN  /\ Shape(g) /\ Marked(h, g, r)
               /\ g.state = h.state /\ g.reactions = h.reactions /\ g.jobs = h.jobs
               /\ g.count = h.count /\ g.ran = h.ran /\ g.comb = h.comb /\ g.fn = h.fn
<1> DEFINE g == [h EXCEPT !.resolved = @ \cup {r}]
<1>1. /\ h \in Heaps /\ r \in Nat
  BY DEF Shape, Heaps, PairsOf
<1>2. /\ g \in Heaps /\ g.pair = h.pair /\ g.resolved = h.resolved \cup {r}
      /\ g.state = h.state /\ g.reactions = h.reactions /\ g.jobs = h.jobs
      /\ g.count = h.count /\ g.ran = h.ran /\ g.comb = h.comb /\ g.fn = h.fn
      /\ g.result = h.result
  BY <1>1 DEF Heaps
<1> HIDE DEF g
<1>3. Shape(g) /\ Marked(h, g, r)
  BY <1>2 DEF Shape, Marked
<1>4. QED
  BY <1>2, <1>3 DEF g

\* js_promise_resolve_function_call leaves the promise of pair r to a job.
AdoptEffect(h, g, r, v) ==
    /\ Shape(g)
    /\ Marked(h, g, r)
    /\ Adds(h.jobs, g.jobs, ThenableJob(h.pair[r], v))
    /\ g.state = h.state /\ g.reactions = h.reactions
    /\ g.count = h.count /\ g.ran = h.ran /\ g.comb = h.comb /\ g.fn = h.fn

LEMMA EnqueueEffect ==
    ASSUME NEW h, Shape(h), NEW j \in Jobs
    PROVE  LET g == Enqueue(h, j)
           IN  /\ Shape(g) /\ Adds(h.jobs, g.jobs, j)
               /\ g.state = h.state /\ g.reactions = h.reactions /\ g.pair = h.pair
               /\ g.resolved = h.resolved
               /\ g.count = h.count /\ g.ran = h.ran /\ g.comb = h.comb /\ g.fn = h.fn
<1> DEFINE jobs == Append(h.jobs, j)
           g == Enqueue(h, j)
<1>1. h \in Heaps /\ h.jobs \in Seq(Jobs)
  BY DEF Shape, Heaps
<1>2. jobs \in Seq(Jobs) /\ Adds(h.jobs, jobs, j)
  BY <1>1, AppendFacts
<1>3. g = [h EXCEPT !.jobs = jobs]
  BY <1>1 DEF Enqueue, Heaps
<1> HIDE DEF jobs
<1>4. /\ g \in Heaps /\ g.jobs = jobs /\ g.result = h.result
      /\ g.state = h.state /\ g.reactions = h.reactions /\ g.pair = h.pair
      /\ g.resolved = h.resolved
      /\ g.count = h.count /\ g.ran = h.ran /\ g.comb = h.comb /\ g.fn = h.fn
  BY <1>1, <1>2, <1>3 DEF Heaps
<1> HIDE DEF g
<1>5. Shape(g)
  BY <1>4 DEF Shape
<1>6. QED
  BY <1>2, <1>4, <1>5 DEF g

\* A call of function w of pair r with v.
CallEffect(h, g, r, w, v) ==
    \/ ~Open(h, r) /\ g = h
    \/ /\ Open(h, r)
       /\ \E u \in Ways : /\ SettleEffect(h, g, h.pair[r], u)
                          /\ Marked(h, g, r)
                          /\ v = Plain => u = w
    \/ Open(h, r) /\ AdoptEffect(h, g, r, v) /\ v # Plain

LEMMA CallHasEffect ==
    ASSUME NEW h, Shape(h), RefInv(h), WayInv(h), NEW r \in PairsOf(h), NEW w \in Ways,
           NEW v \in -2..Len(h.state), w = 1 => v = Plain
    PROVE  CallEffect(h, Call(h, r, w, v), r, w, v)
<1> DEFINE p == h.pair[r]
           k == [h EXCEPT !.resolved = @ \cup {r}]
           g == Call(h, r, w, v)
<1>1. p \in PromisesOf(h) /\ Len(h.state) \in Nat /\ p \in Nat
  BY DEF RefInv, Shape, Heaps, PromisesOf
<1>2. CASE ~Open(h, r)
  <2>1. g = h
    BY <1>2 DEF Call, Open
  <2>2. QED
    BY <1>2, <2>1 DEF CallEffect
<1>3. CASE Open(h, r)
  <2>1. /\ Shape(k) /\ Marked(h, k, r)
        /\ k.state = h.state /\ k.reactions = h.reactions /\ k.jobs = h.jobs
        /\ k.count = h.count /\ k.ran = h.ran /\ k.comb = h.comb /\ k.fn = h.fn
    BY MarkEffect
  <2>2. h.state[p] = "pending" /\ p \in PromisesOf(k) /\ k.state[p] = "pending"
    BY <1>1, <1>3, <2>1 DEF WayInv, PromisesOf
  <2>3. ASSUME NEW u \in Ways, g = fulfill_or_reject_promise(k, p, Plain, u), v = Plain => u = w
        PROVE  CallEffect(h, g, r, w, v)
    <3> HIDE DEF g, k, p
    <3>1. SettleEffect(k, g, p, u) /\ g.pair = k.pair /\ g.resolved = k.resolved
      BY <2>1, <2>2, <2>3, FulfillEffect
    <3>2. SettleEffect(h, g, p, u)
      BY <2>1, <3>1 DEF SettleEffect, PromisesOf, JobsOf, ListOf
    <3>3. Marked(h, g, r)
      BY <2>1, <3>1 DEF Marked
    <3>4. QED
      BY <1>3, <2>3, <3>2, <3>3 DEF CallEffect, p
  <2>4. CASE w = 1 \/ v = Plain
    <3>1. g = fulfill_or_reject_promise(k, p, Plain, w)
      BY <1>3, <2>4 DEF Call, Open
    <3>2. QED
      BY <2>3, <3>1
  <2>5. CASE w = 0 /\ v \in {p, BadThen} /\ v # Plain
    <3>1. g = fulfill_or_reject_promise(k, p, Plain, 1)
      BY <1>3, <2>5 DEF Call, Open
    <3>2. QED
      BY <2>3, <2>5, <3>1 DEF Ways
  <2>6. CASE w = 0 /\ v \notin {p, BadThen} /\ v # Plain
    <3>1. g = Enqueue(k, ThenableJob(p, v))
      BY <1>3, <2>6 DEF Call, Open
    <3>2. ThenableJob(p, v) \in Jobs
      BY <1>1 DEF ThenableJob, Jobs, NoHandler, Handler, Handlers, Ways
    <3> HIDE DEF g, k, p
    <3>3. /\ Shape(g) /\ Adds(k.jobs, g.jobs, ThenableJob(p, v))
          /\ g.state = k.state /\ g.reactions = k.reactions /\ g.pair = k.pair
          /\ g.resolved = k.resolved
          /\ g.count = k.count /\ g.ran = k.ran /\ g.comb = k.comb /\ g.fn = k.fn
      BY <2>1, <3>1, <3>2, EnqueueEffect
    <3>4. Marked(h, g, r)
      BY <2>1, <3>3 DEF Marked
    <3>5. AdoptEffect(h, g, r, v)
      BY <2>1, <3>3, <3>4 DEF AdoptEffect, p
    <3>6. QED
      BY <1>3, <2>6, <3>5 DEF CallEffect, g
  <2>7. QED
    BY <2>4, <2>5, <2>6 DEF Ways
<1>4. QED
  BY <1>2, <1>3

\* js_create_resolving_functions
PairEffect(h, g, p) ==
    /\ Shape(g)
    /\ Adds(h.pair, g.pair, p)
    /\ g.state = h.state /\ g.reactions = h.reactions /\ g.jobs = h.jobs
    /\ g.count = h.count /\ g.ran = h.ran /\ g.comb = h.comb /\ g.fn = h.fn
    /\ g.resolved = h.resolved

LEMMA NewPairEffect ==
    ASSUME NEW h, Shape(h), NEW p \in Nat
    PROVE  PairEffect(h, NewPair(h, p), p)
<1> DEFINE pair == Append(h.pair, p)
           g == NewPair(h, p)
<1>1. h \in Heaps /\ h.pair \in Seq(Nat)
  BY DEF Shape, Heaps
<1>2. pair \in Seq(Nat) /\ Adds(h.pair, pair, p)
  BY <1>1, AppendFacts
<1>3. g = [h EXCEPT !.pair = pair]
  BY <1>1 DEF NewPair, Heaps
<1> HIDE DEF pair
<1>4. /\ g \in Heaps /\ g.pair = pair /\ g.result = h.result
      /\ g.state = h.state /\ g.reactions = h.reactions /\ g.jobs = h.jobs
      /\ g.count = h.count /\ g.ran = h.ran /\ g.comb = h.comb /\ g.fn = h.fn
      /\ g.resolved = h.resolved
  BY <1>1, <1>2, <1>3 DEF Heaps
<1> HIDE DEF g
<1>5. Shape(g)
  BY <1>4 DEF Shape
<1>6. QED
  BY <1>2, <1>4, <1>5 DEF PairEffect, g

\* js_new_promise_capability
CapabilityEffect(h, g) ==
    /\ Shape(g)
    /\ Adds(h.state, g.state, "pending")
    /\ Adds(h.reactions, g.reactions, NoReactions)
    /\ Adds(h.count, g.count, 0)
    /\ Adds(h.ran, g.ran, 0)
    /\ Adds(h.pair, g.pair, Len(h.state) + 1)
    /\ g.jobs = h.jobs /\ g.comb = h.comb /\ g.fn = h.fn /\ g.resolved = h.resolved

LEMMA NewCapabilityEffect ==
    ASSUME NEW h, Shape(h)
    PROVE  CapabilityEffect(h, NewCapability(h))
<1> DEFINE state == Append(h.state, "pending")
           result == Append(h.result, Plain)
           reactions == Append(h.reactions, NoReactions)
           count == Append(h.count, 0)
           ran == Append(h.ran, 0)
           k == [h EXCEPT !.state = Append(@, "pending"),
                          !.result = Append(@, Plain),
                          !.reactions = Append(@, NoReactions),
                          !.count = Append(@, 0),
                          !.ran = Append(@, 0)]
           g == NewCapability(h)
<1>1. /\ h \in Heaps
      /\ h.state \in Seq(States) /\ h.result \in Seq({Plain})
      /\ h.reactions \in Seq([Ways -> Seq(Reactions)])
      /\ h.count \in Seq(Nat) /\ h.ran \in Seq(Nat)
  BY DEF Shape, Heaps
<1>2. "pending" \in States /\ NoReactions \in [Ways -> Seq(Reactions)]
  BY DEF States, NoReactions, Ways
<1>3. /\ state \in Seq(States) /\ Adds(h.state, state, "pending")
      /\ result \in Seq({Plain}) /\ Adds(h.result, result, Plain)
      /\ count \in Seq(Nat) /\ Adds(h.count, count, 0)
      /\ ran \in Seq(Nat) /\ Adds(h.ran, ran, 0)
  BY <1>1, <1>2, AppendFacts
<1>4. reactions \in Seq([Ways -> Seq(Reactions)]) /\ Adds(h.reactions, reactions, NoReactions)
  BY <1>1, <1>2, AppendFacts
<1>5. k = [h EXCEPT !.state = state, !.result = result, !.reactions = reactions,
                    !.count = count, !.ran = ran]
  BY <1>1 DEF Heaps
<1> HIDE DEF state, result, reactions, count, ran, k
<1>6. /\ k \in Heaps /\ k.state = state /\ k.result = result /\ k.reactions = reactions
      /\ k.count = count /\ k.ran = ran /\ k.pair = h.pair /\ k.jobs = h.jobs
      /\ k.comb = h.comb /\ k.fn = h.fn /\ k.resolved = h.resolved
  BY <1>1, <1>3, <1>4, <1>5 DEF Heaps
<1>7. Shape(k) /\ Len(k.state) = Len(h.state) + 1 /\ Len(k.state) \in Nat
  BY <1>1, <1>3, <1>4, <1>6 DEF Shape, Adds
<1>8. g = NewPair(k, Len(k.state))
  BY DEF NewCapability, k
<1>9. PairEffect(k, g, Len(k.state))
  BY <1>7, <1>8, NewPairEffect
<1>10. QED
  BY <1>3, <1>4, <1>6, <1>7, <1>9 DEF CapabilityEffect, PairEffect

\* perform_promise_then
NewReaction(h, p, on, cap, w) ==
    [cap |-> cap, handler |-> on[w], on |-> p, no |-> h.count[p] + 1]

ThenEffect(h, g, p, on, cap) ==
    /\ Shape(g)
    /\ g.state = h.state /\ g.ran = h.ran /\ g.pair = h.pair /\ g.resolved = h.resolved
    /\ g.comb = h.comb /\ g.fn = h.fn
    /\ \A q \in PromisesOf(h) : g.count[q] = IF q = p THEN h.count[p] + 1 ELSE h.count[q]
    /\ h.state[p] = "pending" =>
          /\ g.jobs = h.jobs
          /\ \A q \in PromisesOf(h), w \in Ways : q # p =>
                g.reactions[q][w] = h.reactions[q][w]
          /\ \A w \in Ways :
                Adds(h.reactions[p][w], g.reactions[p][w], NewReaction(h, p, on, cap, w))
    /\ \A w \in Ways : h.state[p] = Outcome(w) =>
          /\ g.reactions = h.reactions
          /\ Adds(h.jobs, g.jobs, ReactionJob(NewReaction(h, p, on, cap, w), w, Plain))

LEMMA PerformThenEffect ==
    ASSUME NEW h, Shape(h), NEW p \in PromisesOf(h), NEW on \in [Ways -> Handlers],
           NEW cap \in Nat
    PROVE  ThenEffect(h, perform_promise_then(h, p, on, cap), p, on, cap)
<1> DEFINE g == perform_promise_then(h, p, on, cap)
           count == [h.count EXCEPT ![p] = h.count[p] + 1]
           rd == [w \in Ways |-> NewReaction(h, p, on, cap, w)]
           two == [w \in Ways |-> Append(h.reactions[p][w], rd[w])]
           reactions == [h.reactions EXCEPT ![p] = two]
           w0 == WayOf(h.state[p])
<1>1. /\ h \in Heaps /\ p \in 1..Len(h.state) /\ Len(h.state) \in Nat
      /\ h.reactions \in Seq([Ways -> Seq(Reactions)]) /\ Len(h.reactions) = Len(h.state)
      /\ h.count \in Seq(Nat) /\ Len(h.count) = Len(h.state)
      /\ h.result \in Seq({Plain}) /\ Len(h.result) = Len(h.state)
      /\ h.state \in Seq(States)
  BY DEF Shape, Heaps, PromisesOf
<1>2. h.count[p] \in Nat /\ h.result[p] = Plain /\ h.state[p] \in States
  BY <1>1
<1>3. \A w \in Ways : rd[w] \in Reactions /\ rd[w] = NewReaction(h, p, on, cap, w)
  BY SMTT(30), <1>1, <1>2 DEF NewReaction, Reactions, PromisesOf
<1>4. /\ count \in Seq(Nat) /\ Len(count) = Len(h.state)
      /\ \A q \in PromisesOf(h) : count[q] = IF q = p THEN h.count[p] + 1 ELSE h.count[q]
  <2>1. h.count[p] + 1 \in Nat
    BY <1>2
  <2>2. QED
    BY <1>1, <2>1, UpdateFacts DEF PromisesOf
<1>5. h.reactions[p] \in [Ways -> Seq(Reactions)]
  BY <1>1
<1> HIDE DEF rd
<1>6. /\ two \in [Ways -> Seq(Reactions)]
      /\ \A w \in Ways : Adds(h.reactions[p][w], two[w], rd[w])
  BY <1>3, <1>5, AppendFacts
<1> HIDE DEF two
<1>7. /\ reactions \in Seq([Ways -> Seq(Reactions)]) /\ Len(reactions) = Len(h.state)
      /\ \A q \in PromisesOf(h) : reactions[q] = IF q = p THEN two ELSE h.reactions[q]
  BY <1>1, <1>6, UpdateFacts DEF PromisesOf
<1>8. CASE h.state[p] = "pending"
  <2>1. g = [h EXCEPT !.count = count, !.reactions = reactions]
    BY <1>1, <1>8 DEF perform_promise_then, Heaps, rd, two, NewReaction, Ways
  <2> HIDE DEF count, reactions
  <2>2. /\ g \in Heaps /\ g.count = count /\ g.reactions = reactions /\ g.result = h.result
        /\ g.state = h.state /\ g.ran = h.ran /\ g.pair = h.pair /\ g.jobs = h.jobs
        /\ g.comb = h.comb /\ g.fn = h.fn /\ g.resolved = h.resolved
    BY <1>1, <1>4, <1>7, <2>1 DEF Heaps
  <2> HIDE DEF g
  <2>3. Shape(g)
    BY <1>1, <1>4, <1>7, <2>2 DEF Shape
  <2>4. \A w \in Ways : Outcome(w) # "pending"
    BY DEF Outcome
  <2>5. \A q \in PromisesOf(h), w \in Ways : q # p =>
            g.reactions[q][w] = h.reactions[q][w]
    BY <1>7, <2>2
  <2>6. \A w \in Ways :
            Adds(h.reactions[p][w], g.reactions[p][w], NewReaction(h, p, on, cap, w))
    BY <1>3, <1>6, <1>7, <2>2
  <2>7. QED
    BY <1>4, <1>8, <2>2, <2>3, <2>4, <2>5, <2>6 DEF ThenEffect, g
<1>9. CASE h.state[p] # "pending"
  <2> DEFINE k == [h EXCEPT !.count = count]
  <2>1. g = Enqueue(k, ReactionJob(rd[w0], w0, h.result[p]))
    BY <1>1, <1>9 DEF perform_promise_then, Heaps, rd, NewReaction, Ways
  <2> HIDE DEF count
  <2>2. /\ k \in Heaps /\ k.count = count /\ k.reactions = h.reactions
        /\ k.state = h.state /\ k.ran = h.ran /\ k.pair = h.pair /\ k.jobs = h.jobs
        /\ k.comb = h.comb /\ k.fn = h.fn /\ k.resolved = h.resolved
        /\ k.result = h.result
    BY <1>1, <1>4 DEF Heaps
  <2> HIDE DEF k
  <2>3. Shape(k)
    BY <1>4, <2>2 DEF Shape
  <2>4. w0 \in Ways /\ \A w \in Ways : h.state[p] = Outcome(w) => w = w0
    BY <1>2, <1>9 DEF WayOf, Ways, Outcome, States
  <2>5. ReactionJob(rd[w0], w0, Plain) \in Jobs
    BY <1>3, <2>4, ReactionJobType
  <2> HIDE DEF g, w0
  <2>6. /\ Shape(g) /\ Adds(k.jobs, g.jobs, ReactionJob(rd[w0], w0, Plain))
        /\ g.state = k.state /\ g.reactions = k.reactions /\ g.pair = k.pair
        /\ g.resolved = k.resolved
        /\ g.count = k.count /\ g.ran = k.ran /\ g.comb = k.comb /\ g.fn = k.fn
    BY <1>2, <2>1, <2>3, <2>5, EnqueueEffect
  <2>7. \A w \in Ways : h.state[p] = Outcome(w) =>
            Adds(h.jobs, g.jobs, ReactionJob(NewReaction(h, p, on, cap, w), w, Plain))
    BY <1>3, <2>2, <2>4, <2>6
  <2>8. QED
    BY <1>4, <1>9, <2>2, <2>6, <2>7 DEF ThenEffect, g
<1>10. QED
  BY <1>8, <1>9

\* The job at the head of the list is taken.
TakeEffect(h, g) ==
    /\ Shape(g)
    /\ Len(h.jobs) \in Nat \ {0} /\ h.jobs[1] \in Jobs
    /\ Len(g.jobs) = Len(h.jobs) - 1
    /\ \A i \in JobsOf(g) : g.jobs[i] = h.jobs[i + 1]
    /\ \A q \in PromisesOf(h) :
          g.ran[q] = IF q = h.jobs[1].on /\ h.jobs[1].kind = "reaction"
                     THEN h.ran[q] + 1 ELSE h.ran[q]
    /\ g.state = h.state /\ g.reactions = h.reactions /\ g.pair = h.pair
    /\ g.resolved = h.resolved /\ g.count = h.count /\ g.comb = h.comb /\ g.fn = h.fn

LEMMA TakenEffect ==
    ASSUME Shape(heap), RefInv(heap), heap.jobs # <<>>
    PROVE  TakeEffect(heap, Taken) /\ Job = heap.jobs[1]
<1> DEFINE p == heap.jobs[1].on
           n == IF heap.jobs[1].kind = "reaction" THEN heap.ran[p] + 1 ELSE heap.ran[p]
           ran == [heap.ran EXCEPT ![p] = n]
           jobs == Tail(heap.jobs)
           g == Taken
<1>1. /\ heap \in Heaps /\ heap.jobs \in Seq(Jobs) /\ heap.ran \in Seq(Nat)
      /\ Len(heap.ran) = Len(heap.state) /\ Len(heap.state) \in Nat
  BY DEF Shape, Heaps
<1>2. /\ jobs \in Seq(Jobs)
      /\ Len(jobs) = Len(heap.jobs) - 1
      /\ \A i \in 1..Len(jobs) : jobs[i] = heap.jobs[i + 1]
      /\ Head(heap.jobs) = heap.jobs[1] /\ Len(heap.jobs) \in Nat \ {0}
      /\ heap.jobs[1] \in Jobs
  BY <1>1, TailFacts
<1>3. p \in 1..Len(heap.state) /\ Job = heap.jobs[1]
  <2>1. 1 \in JobsOf(heap)
    BY <1>2 DEF JobsOf
  <2>2. QED
    BY <1>2, <2>1 DEF RefInv, RefOK, PromisesOf, Job
<1>4. n \in Nat
  BY SMTT(30), <1>1, <1>3
<1> HIDE DEF p, n
<1>5. /\ ran \in Seq(Nat) /\ Len(ran) = Len(heap.ran)
      /\ \A q \in 1..Len(heap.ran) : ran[q] = IF q = p THEN n ELSE heap.ran[q]
  BY <1>1, <1>3, <1>4, UpdateFacts
<1>6. g = [heap EXCEPT !.jobs = jobs, !.ran = ran]
  BY <1>1, <1>3 DEF Taken, Heaps, n, p
<1> HIDE DEF ran, jobs
<1>7. /\ g \in Heaps /\ g.jobs = jobs /\ g.ran = ran /\ g.result = heap.result
      /\ g.state = heap.state /\ g.reactions = heap.reactions /\ g.pair = heap.pair
      /\ g.resolved = heap.resolved /\ g.count = heap.count /\ g.comb = heap.comb
      /\ g.fn = heap.fn
  BY <1>1, <1>2, <1>5, <1>6 DEF Heaps
<1> HIDE DEF g
<1>8. Shape(g)
  BY <1>1, <1>5, <1>7 DEF Shape
<1>9. \A q \in PromisesOf(heap) :
          g.ran[q] = IF q = heap.jobs[1].on /\ heap.jobs[1].kind = "reaction"
                     THEN heap.ran[q] + 1 ELSE heap.ran[q]
  BY <1>1, <1>5, <1>7 DEF n, p, PromisesOf
<1>10. QED
  BY <1>2, <1>3, <1>7, <1>8, <1>9 DEF TakeEffect, JobsOf, g

-----------------------------------------------------------------------------
(***************************************************************************)
(* RefInv: numbers refer to things that exist.                             *)
(***************************************************************************)
Grows(h, g) ==
    /\ Len(h.state) <= Len(g.state) /\ Len(h.pair) <= Len(g.pair)
    /\ Len(h.comb) <= Len(g.comb) /\ Len(h.fn) <= Len(g.fn)

Lengths(h) == /\ Len(h.state) \in Nat /\ Len(h.pair) \in Nat /\ Len(h.comb) \in Nat
              /\ Len(h.fn) \in Nat /\ Len(h.jobs) \in Nat
              /\ \A p \in PromisesOf(h), w \in Ways : Len(h.reactions[p][w]) \in Nat

LEMMA ShapeLengths ==
    ASSUME NEW h, Shape(h)
    PROVE  Lengths(h)
<1>1. /\ Len(h.state) \in Nat /\ Len(h.pair) \in Nat /\ Len(h.comb) \in Nat
      /\ Len(h.fn) \in Nat /\ Len(h.jobs) \in Nat
  BY DEF Shape, Heaps
<1>2. ASSUME NEW p \in PromisesOf(h), NEW w \in Ways
      PROVE  Len(h.reactions[p][w]) \in Nat
  <2>1. h.reactions[p] \in [Ways -> Seq(Reactions)]
    BY SMTT(30) DEF Shape, Heaps, PromisesOf
  <2>2. h.reactions[p][w] \in Seq(Reactions)
    BY <2>1
  <2>3. QED
    BY <2>2
<1>3. QED
  BY <1>1, <1>2 DEF Lengths

LEMMA RefOKGrows ==
    ASSUME NEW h, NEW g, Lengths(h), Lengths(g), Grows(h, g), NEW x, RefOK(h, x)
    PROVE  RefOK(g, x)
<1>1. /\ 0..Len(h.pair) \subseteq 0..Len(g.pair) /\ PromisesOf(h) \subseteq PromisesOf(g)
      /\ PairsOf(h) \subseteq PairsOf(g) /\ CombsOf(h) \subseteq CombsOf(g)
      /\ FnsOf(h) \subseteq FnsOf(g)
  BY SMTT(30) DEF Lengths, Grows, PromisesOf, PairsOf, CombsOf, FnsOf
<1>2. HandlerOK(g, x.handler)
  BY <1>1 DEF RefOK, HandlerOK
<1>3. QED
  BY <1>1, <1>2 DEF RefOK

LEMMA ReactionJobRef ==
    ASSUME NEW h, NEW x, RefOK(h, x), NEW w
    PROVE  /\ RefOK(h, ReactionJob(x, w, Plain))
           /\ ReactionJob(x, w, Plain).kind = "reaction"
           /\ ReactionJob(x, w, Plain).arg = Plain
           /\ ReactionJob(x, w, Plain).way = w
           /\ ReactionJob(x, w, Plain).cap = x.cap
           /\ ReactionJob(x, w, Plain).on = x.on
           /\ ReactionJob(x, w, Plain).no = x.no
           /\ ReactionJob(x, w, Plain).handler = x.handler
<1>1. /\ ReactionJob(x, w, Plain).kind = "reaction"
      /\ ReactionJob(x, w, Plain).arg = Plain
      /\ ReactionJob(x, w, Plain).way = w
      /\ ReactionJob(x, w, Plain).cap = x.cap
      /\ ReactionJob(x, w, Plain).on = x.on
      /\ ReactionJob(x, w, Plain).no = x.no
      /\ ReactionJob(x, w, Plain).handler = x.handler
  BY DEF ReactionJob
<1>2. QED
  BY <1>1 DEF RefOK

LEMMA ThenableJobFields ==
    ASSUME NEW p, NEW v
    PROVE  /\ ThenableJob(p, v).kind = "thenable" /\ ThenableJob(p, v).on = p
           /\ ThenableJob(p, v).cap = 0 /\ ThenableJob(p, v).arg = v
           /\ ThenableJob(p, v).handler.kind = "none"
BY DEF ThenableJob, NoHandler, Handler

\* The jobs after a settlement are those before it and the new ones.
SettleAdds(h, g, p, u) ==
    /\ JobsOf(h) \subseteq JobsOf(g)
    /\ \A n \in ListOf(h, p, u) : Len(h.jobs) + n \in JobsOf(g)
    /\ \A i \in JobsOf(g) :
          \/ i \in JobsOf(h) /\ g.jobs[i] = h.jobs[i]
          \/ \E n \in ListOf(h, p, u) :
                /\ i = Len(h.jobs) + n
                /\ g.jobs[i] = ReactionJob(h.reactions[p][u][n], u, Plain)

LEMMA SettleJobs ==
    ASSUME NEW h, NEW g, Shape(h), NEW p \in PromisesOf(h), NEW u \in Ways,
           SettleEffect(h, g, p, u)
    PROVE  SettleAdds(h, g, p, u)
<1>1. Lengths(h) /\ Lengths(g)
  BY ShapeLengths DEF SettleEffect
<1> DEFINE m == Len(h.jobs)
           k == Len(h.reactions[p][u])
<1>2. m \in Nat /\ k \in Nat /\ Len(g.jobs) = m + k
  BY <1>1 DEF SettleEffect, Lengths
<1>3. /\ \A i \in 1..m : g.jobs[i] = h.jobs[i]
      /\ \A n \in 1..k : g.jobs[m + n] = ReactionJob(h.reactions[p][u][n], u, Plain)
  BY DEF SettleEffect, JobsOf, ListOf
<1>4. JobsOf(h) = 1..m /\ JobsOf(g) = 1..(m + k) /\ ListOf(h, p, u) = 1..k
  BY <1>2 DEF JobsOf, ListOf
<1> HIDE DEF m, k
<1>5. ASSUME NEW i \in 1..(m + k), i \notin 1..m
      PROVE  \E n \in 1..k : i = m + n
  <2>1. i - m \in 1..k /\ i = m + (i - m)
    BY <1>2, <1>5
  <2>2. QED
    BY <2>1
<1>6. /\ 1..m \subseteq 1..(m + k)
      /\ \A n \in 1..k : m + n \in 1..(m + k)
  BY <1>2
<1>7. \A i \in JobsOf(g) :
          \/ i \in JobsOf(h) /\ g.jobs[i] = h.jobs[i]
          \/ \E n \in ListOf(h, p, u) :
                /\ i = Len(h.jobs) + n
                /\ g.jobs[i] = ReactionJob(h.reactions[p][u][n], u, Plain)
  <2> SUFFICES ASSUME NEW i \in 1..(m + k), i \notin 1..m
               PROVE  \E n \in 1..k :
                          /\ i = m + n
                          /\ g.jobs[i] = ReactionJob(h.reactions[p][u][n], u, Plain)
    BY <1>3, <1>4 DEF m
  <2>1. PICK n \in 1..k : i = m + n
    BY <1>5
  <2>2. g.jobs[m + n] = ReactionJob(h.reactions[p][u][n], u, Plain)
    BY <1>3
  <2>3. QED
    BY <2>1, <2>2
<1>8. QED
  BY <1>4, <1>6, <1>7 DEF m, SettleAdds

LEMMA SettleRef ==
    ASSUME NEW h, NEW g, Shape(h), RefInv(h), NEW r \in PairsOf(h), NEW u \in Ways,
           SettleEffect(h, g, h.pair[r], u), Marked(h, g, r)
    PROVE  RefInv(g)
<1> DEFINE p == h.pair[r]
           L == h.reactions[p][u]
<1>1. Lengths(h) /\ Lengths(g)
  BY ShapeLengths DEF SettleEffect
<1>2. p \in PromisesOf(h)
  BY DEF RefInv
<1> HIDE DEF p
<1>3. /\ Grows(h, g) /\ Len(g.state) = Len(h.state) /\ g.pair = h.pair /\ g.fn = h.fn
  BY <1>1 DEF SettleEffect, Marked, Grows, Lengths
<1>4. \A q \in PromisesOf(g), w \in Ways : \A i \in ListOf(g, q, w) :
          RefOK(g, g.reactions[q][w][i]) /\ g.reactions[q][w][i].on = q
  <2> SUFFICES ASSUME NEW q \in PromisesOf(g), NEW w \in Ways, NEW i \in ListOf(g, q, w)
               PROVE  RefOK(g, g.reactions[q][w][i]) /\ g.reactions[q][w][i].on = q
    OBVIOUS
  <2>1. g.reactions[q][w] = h.reactions[q][w] /\ q \in PromisesOf(h)
    BY <1>3 DEF SettleEffect, PromisesOf, ListOf, p
  <2>2. RefOK(h, h.reactions[q][w][i]) /\ h.reactions[q][w][i].on = q
    BY <2>1 DEF RefInv, ListOf
  <2>3. QED
    BY <1>1, <1>3, <2>1, <2>2, RefOKGrows
<1>5. \A i \in JobsOf(g) :
          \/ i \in JobsOf(h) /\ g.jobs[i] = h.jobs[i]
          \/ \E n \in ListOf(h, p, u) : g.jobs[i] = ReactionJob(h.reactions[p][u][n], u, Plain)
  BY <1>2, SettleJobs DEF p, SettleAdds
<1>6. \A i \in JobsOf(g) :
          /\ RefOK(g, g.jobs[i])
          /\ g.jobs[i].kind = "reaction" => g.jobs[i].arg = Plain
          /\ g.jobs[i].kind = "thenable" =>
                /\ g.jobs[i].handler.kind = "none"
                /\ g.jobs[i].arg \in -2..Len(g.state)
  <2> SUFFICES ASSUME NEW i \in JobsOf(g)
               PROVE  /\ RefOK(g, g.jobs[i])
                      /\ g.jobs[i].kind = "reaction" => g.jobs[i].arg = Plain
                      /\ g.jobs[i].kind = "thenable" =>
                            /\ g.jobs[i].handler.kind = "none"
                            /\ g.jobs[i].arg \in -2..Len(g.state)
    OBVIOUS
  <2>1. CASE i \in JobsOf(h) /\ g.jobs[i] = h.jobs[i]
    BY <1>1, <1>3, <2>1, RefOKGrows DEF RefInv
  <2>2. CASE \E n \in ListOf(h, p, u) :
                 g.jobs[i] = ReactionJob(h.reactions[p][u][n], u, Plain)
    <3>1. PICK n \in ListOf(h, p, u) : g.jobs[i] = ReactionJob(h.reactions[p][u][n], u, Plain)
      BY <2>2
    <3>2. RefOK(h, h.reactions[p][u][n])
      BY <1>2 DEF RefInv
    <3>3. RefOK(h, g.jobs[i]) /\ g.jobs[i].kind = "reaction" /\ g.jobs[i].arg = Plain
      BY <3>1, <3>2, ReactionJobRef
    <3>4. QED
      BY <1>1, <1>3, <3>3, RefOKGrows
  <2>3. QED
    BY <1>5, <2>1, <2>2
<1>7. g.resolved \subseteq PairsOf(g)
  BY <1>3 DEF RefInv, PairsOf, Marked
<1>8. QED
  BY <1>3, <1>4, <1>6, <1>7 DEF RefInv, PairsOf, FnsOf, PromisesOf

LEMMA AdoptRef ==
    ASSUME NEW h, NEW g, Shape(h), RefInv(h), NEW r \in PairsOf(h),
           NEW v \in -2..Len(h.state), AdoptEffect(h, g, r, v)
    PROVE  RefInv(g)
<1> DEFINE j == ThenableJob(h.pair[r], v)
<1>1. Lengths(h) /\ Lengths(g)
  BY ShapeLengths DEF AdoptEffect
<1>2. Grows(h, g) /\ g.state = h.state /\ g.pair = h.pair /\ g.fn = h.fn /\ g.reactions = h.reactions
  BY <1>1 DEF AdoptEffect, Marked, Grows, Lengths
<1>3. \A i \in JobsOf(g) : (i \in JobsOf(h) /\ g.jobs[i] = h.jobs[i]) \/ g.jobs[i] = j
  BY SMTT(30), <1>1 DEF AdoptEffect, Adds, JobsOf, Lengths
<1>4. /\ j.kind = "thenable" /\ j.on = h.pair[r] /\ j.cap = 0 /\ j.arg = v
      /\ j.handler.kind = "none"
  BY ThenableJobFields
<1>5. h.pair[r] \in PromisesOf(h)
  BY DEF RefInv
<1> HIDE DEF j
<1>6. RefOK(h, j)
  BY <1>1, <1>4, <1>5 DEF RefOK, HandlerOK, Lengths
<1>7. \A i \in JobsOf(g) :
          /\ RefOK(g, g.jobs[i])
          /\ g.jobs[i].kind = "reaction" => g.jobs[i].arg = Plain
          /\ g.jobs[i].kind = "thenable" =>
                /\ g.jobs[i].handler.kind = "none"
                /\ g.jobs[i].arg \in -2..Len(g.state)
  BY <1>1, <1>2, <1>3, <1>4, <1>6, RefOKGrows DEF RefInv
<1>8. \A q \in PromisesOf(g), w \in Ways : \A i \in ListOf(g, q, w) :
          RefOK(g, g.reactions[q][w][i]) /\ g.reactions[q][w][i].on = q
  BY <1>1, <1>2, RefOKGrows DEF RefInv, PromisesOf, ListOf
<1>9. g.resolved \subseteq PairsOf(g)
  BY <1>2 DEF RefInv, PairsOf, Marked, AdoptEffect
<1>10. QED
  BY <1>2, <1>7, <1>8, <1>9 DEF RefInv, PairsOf, FnsOf, PromisesOf

LEMMA CallRef ==
    ASSUME NEW h, NEW g, Shape(h), RefInv(h), NEW r \in PairsOf(h), NEW w,
           NEW v \in -2..Len(h.state), CallEffect(h, g, r, w, v)
    PROVE  Shape(g) /\ RefInv(g)
<1>1. CASE g = h
  BY <1>1
<1>2. CASE \E u \in Ways : SettleEffect(h, g, h.pair[r], u) /\ Marked(h, g, r)
  BY <1>2, SettleRef DEF SettleEffect
<1>3. CASE AdoptEffect(h, g, r, v)
  BY <1>3, AdoptRef DEF AdoptEffect
<1>4. QED
  BY <1>1, <1>2, <1>3 DEF CallEffect

LEMMA PairRef ==
    ASSUME NEW h, NEW g, Shape(h), RefInv(h), NEW p \in PromisesOf(h), PairEffect(h, g, p)
    PROVE  RefInv(g)
<1>1. Lengths(h) /\ Lengths(g)
  BY ShapeLengths DEF PairEffect
<1>2. /\ Grows(h, g) /\ g.state = h.state /\ g.jobs = h.jobs /\ g.fn = h.fn
      /\ g.reactions = h.reactions
  BY <1>1 DEF PairEffect, Grows, Lengths, Adds
<1>3. \A r \in PairsOf(g) : g.pair[r] \in PromisesOf(g)
  <2>1. /\ PairsOf(g) = PairsOf(h) \cup {Len(h.pair) + 1}
        /\ \A r \in PairsOf(h) : g.pair[r] = h.pair[r]
        /\ g.pair[Len(h.pair) + 1] = p
    BY SMTT(30), <1>1, AddsFacts DEF PairEffect, Lengths, PairsOf
  <2>2. QED
    BY <1>2, <2>1 DEF RefInv, PromisesOf
<1>4. \A f \in FnsOf(g) : g.fn[f].cap \in PairsOf(g)
  BY <1>1, <1>2 DEF Grows, FnsOf, PairsOf, RefInv, Lengths
<1>5. \A q \in PromisesOf(g), w \in Ways : \A i \in ListOf(g, q, w) :
          RefOK(g, g.reactions[q][w][i]) /\ g.reactions[q][w][i].on = q
  BY <1>1, <1>2, RefOKGrows DEF RefInv, PromisesOf, ListOf
<1>6. \A i \in JobsOf(g) :
          /\ RefOK(g, g.jobs[i])
          /\ g.jobs[i].kind = "reaction" => g.jobs[i].arg = Plain
          /\ g.jobs[i].kind = "thenable" =>
                /\ g.jobs[i].handler.kind = "none"
                /\ g.jobs[i].arg \in -2..Len(g.state)
  BY <1>1, <1>2, RefOKGrows DEF RefInv, JobsOf
<1>7. g.resolved \subseteq PairsOf(g)
  BY <1>1, <1>2 DEF RefInv, PairsOf, PairEffect, Grows, Lengths
<1>8. QED
  BY <1>3, <1>4, <1>5, <1>6, <1>7 DEF RefInv

\* The lists of the promises after a new one was made.
CapabilityAdds(h, g) ==
    /\ Len(g.state) = Len(h.state) + 1 /\ Len(g.pair) = Len(h.pair) + 1
    /\ PromisesOf(g) = PromisesOf(h) \cup {Len(h.state) + 1}
    /\ PairsOf(g) = PairsOf(h) \cup {Len(h.pair) + 1}
    /\ Len(h.state) + 1 \notin PromisesOf(h) /\ Len(h.pair) + 1 \notin PairsOf(h)
    /\ \A q \in PromisesOf(h) : /\ g.state[q] = h.state[q]
                                /\ g.reactions[q] = h.reactions[q]
                                /\ g.count[q] = h.count[q] /\ g.ran[q] = h.ran[q]
    /\ \A r \in PairsOf(h) : g.pair[r] = h.pair[r]
    /\ g.state[Len(h.state) + 1] = "pending"
    /\ g.count[Len(h.state) + 1] = 0 /\ g.ran[Len(h.state) + 1] = 0
    /\ \A w \in Ways : g.reactions[Len(h.state) + 1][w] = <<>>
    /\ g.pair[Len(h.pair) + 1] = Len(h.state) + 1
    /\ \A w \in Ways : ListOf(g, Len(h.state) + 1, w) = {}

LEMMA CapabilityLists ==
    ASSUME NEW h, NEW g, Shape(h), CapabilityEffect(h, g)
    PROVE  CapabilityAdds(h, g)
<1>1. /\ Len(h.state) \in Nat /\ Len(h.pair) \in Nat
      /\ Len(h.reactions) = Len(h.state) /\ Len(h.count) = Len(h.state)
      /\ Len(h.ran) = Len(h.state)
  BY ShapeLengths DEF Lengths, Shape
<1>2. /\ Len(g.state) = Len(h.state) + 1 /\ Len(g.pair) = Len(h.pair) + 1
      /\ PromisesOf(g) = PromisesOf(h) \cup {Len(h.state) + 1}
      /\ PairsOf(g) = PairsOf(h) \cup {Len(h.pair) + 1}
      /\ Len(h.state) + 1 \notin PromisesOf(h) /\ Len(h.pair) + 1 \notin PairsOf(h)
  BY SMTT(30), <1>1, AddsFacts DEF CapabilityEffect, Adds, PromisesOf, PairsOf
<1>3. /\ \A q \in PromisesOf(h) : /\ g.state[q] = h.state[q]
                                  /\ g.reactions[q] = h.reactions[q]
                                  /\ g.count[q] = h.count[q] /\ g.ran[q] = h.ran[q]
      /\ \A r \in PairsOf(h) : g.pair[r] = h.pair[r]
  BY <1>1 DEF CapabilityEffect, Adds, PromisesOf, PairsOf
<1>4. /\ g.state[Len(h.state) + 1] = "pending"
      /\ g.count[Len(h.state) + 1] = 0 /\ g.ran[Len(h.state) + 1] = 0
      /\ g.reactions[Len(h.state) + 1] = NoReactions
      /\ g.pair[Len(h.pair) + 1] = Len(h.state) + 1
  BY <1>1 DEF CapabilityEffect, Adds
<1>5. \A w \in Ways : NoReactions[w] = <<>> /\ 1..Len(NoReactions[w]) = {}
  BY DEF NoReactions, Ways
<1>6. QED
  BY <1>2, <1>3, <1>4, <1>5 DEF ListOf, CapabilityAdds

LEMMA CapabilityRef ==
    ASSUME NEW h, NEW g, Shape(h), RefInv(h), CapabilityEffect(h, g)
    PROVE  RefInv(g) /\ Grows(h, g)
<1>1. Lengths(h) /\ Lengths(g)
  BY ShapeLengths DEF CapabilityEffect
<1> DEFINE n == Len(h.state) + 1
           m == Len(h.pair) + 1
<1>2. /\ PromisesOf(g) = PromisesOf(h) \cup {n} /\ PairsOf(g) = PairsOf(h) \cup {m}
      /\ \A q \in PromisesOf(h) : g.reactions[q] = h.reactions[q]
      /\ \A r \in PairsOf(h) : g.pair[r] = h.pair[r]
      /\ g.pair[m] = n /\ \A w \in Ways : ListOf(g, n, w) = {}
      /\ g.jobs = h.jobs /\ g.fn = h.fn /\ Len(g.state) = n /\ Len(g.pair) = m
      /\ g.comb = h.comb
  BY ZenonT(60), CapabilityLists DEF CapabilityEffect, CapabilityAdds
<1>3. Grows(h, g)
  BY <1>1, <1>2 DEF Grows, Lengths
<1> HIDE DEF n, m
<1>4. \A r \in PairsOf(g) : g.pair[r] \in PromisesOf(g)
  BY <1>2 DEF RefInv
<1>5. \A f \in FnsOf(g) : g.fn[f].cap \in PairsOf(g)
  BY <1>2 DEF FnsOf, RefInv
<1>6. \A q \in PromisesOf(g), w \in Ways : \A i \in ListOf(g, q, w) :
          RefOK(g, g.reactions[q][w][i]) /\ g.reactions[q][w][i].on = q
  BY <1>1, <1>2, <1>3, RefOKGrows DEF RefInv, ListOf
<1>7. \A i \in JobsOf(g) :
          /\ RefOK(g, g.jobs[i])
          /\ g.jobs[i].kind = "reaction" => g.jobs[i].arg = Plain
          /\ g.jobs[i].kind = "thenable" =>
                /\ g.jobs[i].handler.kind = "none"
                /\ g.jobs[i].arg \in -2..Len(g.state)
  <2>1. -2..Len(h.state) \subseteq -2..Len(g.state)
    BY <1>1, <1>2 DEF Lengths, n
  <2>2. \A i \in JobsOf(g) : RefOK(g, g.jobs[i])
    BY <1>1, <1>2, <1>3, RefOKGrows DEF RefInv, JobsOf
  <2>3. QED
    BY <1>2, <2>1, <2>2 DEF RefInv, JobsOf
<1>8. g.resolved \subseteq PairsOf(g)
  BY <1>2 DEF RefInv, CapabilityEffect
<1>9. QED
  BY <1>3, <1>4, <1>5, <1>6, <1>7, <1>8 DEF RefInv

\* The lists and jobs after a call of then.
ThenAdds(h, g, p, on, cap) ==
    /\ \A q \in PromisesOf(h), w \in Ways :
          /\ ListOf(h, q, w) \subseteq ListOf(g, q, w)
          /\ \A i \in ListOf(h, q, w) : g.reactions[q][w][i] = h.reactions[q][w][i]
          /\ \A i \in ListOf(g, q, w) \ ListOf(h, q, w) :
                /\ q = p /\ h.state[p] = "pending" /\ i = Len(h.reactions[p][w]) + 1
                /\ g.reactions[q][w][i] = NewReaction(h, p, on, cap, w)
    /\ JobsOf(h) \subseteq JobsOf(g)
    /\ \A i \in JobsOf(h) : g.jobs[i] = h.jobs[i]
    /\ \A i \in JobsOf(g) \ JobsOf(h) :
          \E w \in Ways :
              /\ h.state[p] = Outcome(w) /\ i = Len(h.jobs) + 1
              /\ g.jobs[i] = ReactionJob(NewReaction(h, p, on, cap, w), w, Plain)

LEMMA ThenLists ==
    ASSUME NEW h, NEW g, Shape(h), NEW p \in PromisesOf(h), NEW on, NEW cap,
           ThenEffect(h, g, p, on, cap)
    PROVE  ThenAdds(h, g, p, on, cap)
<1>1. Lengths(h) /\ Lengths(g) /\ PromisesOf(g) = PromisesOf(h)
  BY ShapeLengths DEF ThenEffect, PromisesOf
<1>2. h.state[p] \in States
  BY DEF Shape, Heaps, PromisesOf
<1>3. CASE h.state[p] = "pending"
  <2>1. g.jobs = h.jobs
    BY <1>3 DEF ThenEffect
  <2>2. ASSUME NEW q \in PromisesOf(h), NEW w \in Ways
        PROVE  /\ ListOf(h, q, w) \subseteq ListOf(g, q, w)
               /\ \A i \in ListOf(h, q, w) : g.reactions[q][w][i] = h.reactions[q][w][i]
               /\ \A i \in ListOf(g, q, w) \ ListOf(h, q, w) :
                     /\ q = p /\ h.state[p] = "pending" /\ i = Len(h.reactions[p][w]) + 1
                     /\ g.reactions[q][w][i] = NewReaction(h, p, on, cap, w)
    <3>1. CASE q # p
      BY <1>3, <3>1 DEF ThenEffect, ListOf
    <3>2. CASE q = p
      <4>1. Adds(h.reactions[p][w], g.reactions[p][w], NewReaction(h, p, on, cap, w))
        BY <1>3 DEF ThenEffect
      <4>2. Len(h.reactions[p][w]) \in Nat
        BY <1>1 DEF Lengths
      <4>3. QED
        BY SMTT(30), <1>3, <3>2, <4>1, <4>2, AddsFacts DEF ListOf
    <3>3. QED
      BY <3>1, <3>2
  <2>3. QED
    BY <2>1, <2>2 DEF JobsOf, ThenAdds
<1>4. CASE h.state[p] # "pending"
  <2>1. PICK w \in Ways : h.state[p] = Outcome(w)
    BY <1>2, <1>4 DEF States, Outcome, Ways
  <2>2. /\ g.reactions = h.reactions
        /\ Adds(h.jobs, g.jobs, ReactionJob(NewReaction(h, p, on, cap, w), w, Plain))
    BY <2>1 DEF ThenEffect
  <2>3. /\ JobsOf(h) \subseteq JobsOf(g)
        /\ \A i \in JobsOf(h) : g.jobs[i] = h.jobs[i]
        /\ \A i \in JobsOf(g) \ JobsOf(h) :
              /\ i = Len(h.jobs) + 1
              /\ g.jobs[i] = ReactionJob(NewReaction(h, p, on, cap, w), w, Plain)
    BY SMTT(30), <1>1, <2>2 DEF Adds, JobsOf, Lengths
  <2>4. QED
    BY <2>1, <2>2, <2>3 DEF ListOf, ThenAdds
<1>5. QED
  BY <1>3, <1>4

LEMMA ThenRef ==
    ASSUME NEW h, NEW g, Shape(h), RefInv(h), NEW p \in PromisesOf(h), NEW on,
           NEW cap \in 0..Len(h.pair), \A w \in Ways : HandlerOK(h, on[w]),
           ThenEffect(h, g, p, on, cap)
    PROVE  RefInv(g)
<1>1. Lengths(h) /\ Lengths(g)
  BY ShapeLengths DEF ThenEffect
<1>2. /\ Grows(h, g) /\ g.state = h.state /\ g.pair = h.pair /\ g.fn = h.fn
  BY <1>1 DEF ThenEffect, Grows, Lengths
<1>3. \A w \in Ways : /\ RefOK(h, NewReaction(h, p, on, cap, w))
                      /\ NewReaction(h, p, on, cap, w).on = p
  BY DEF RefOK, NewReaction
<1>4. \A q \in PromisesOf(h), w \in Ways :
          /\ \A i \in ListOf(h, q, w) : g.reactions[q][w][i] = h.reactions[q][w][i]
          /\ \A i \in ListOf(g, q, w) \ ListOf(h, q, w) :
                q = p /\ g.reactions[q][w][i] = NewReaction(h, p, on, cap, w)
  <2>1. ThenAdds(h, g, p, on, cap)
    BY ThenLists
  <2>2. QED
    BY <2>1 DEF ThenAdds
<1>5. \A q \in PromisesOf(g), w \in Ways : \A i \in ListOf(g, q, w) :
          RefOK(g, g.reactions[q][w][i]) /\ g.reactions[q][w][i].on = q
  <2> SUFFICES ASSUME NEW q \in PromisesOf(h), NEW w \in Ways, NEW i \in ListOf(g, q, w)
               PROVE  RefOK(g, g.reactions[q][w][i]) /\ g.reactions[q][w][i].on = q
    BY <1>2 DEF PromisesOf
  <2>1. CASE i \in ListOf(h, q, w)
    <3>1. g.reactions[q][w][i] = h.reactions[q][w][i]
      BY <1>4, <2>1
    <3>2. RefOK(h, h.reactions[q][w][i]) /\ h.reactions[q][w][i].on = q
      BY <2>1 DEF RefInv
    <3>3. QED
      BY <1>1, <1>2, <3>1, <3>2, RefOKGrows
  <2>2. CASE i \notin ListOf(h, q, w)
    <3>1. q = p /\ g.reactions[q][w][i] = NewReaction(h, p, on, cap, w)
      BY <1>4, <2>2
    <3>2. QED
      BY <1>1, <1>2, <1>3, <3>1, RefOKGrows
  <2>3. QED
    BY <2>1, <2>2
<1>6. \A i \in JobsOf(g) :
          /\ RefOK(g, g.jobs[i])
          /\ g.jobs[i].kind = "reaction" => g.jobs[i].arg = Plain
          /\ g.jobs[i].kind = "thenable" =>
                /\ g.jobs[i].handler.kind = "none"
                /\ g.jobs[i].arg \in -2..Len(g.state)
  <2> SUFFICES ASSUME NEW i \in JobsOf(g)
               PROVE  /\ RefOK(g, g.jobs[i])
                      /\ g.jobs[i].kind = "reaction" => g.jobs[i].arg = Plain
                      /\ g.jobs[i].kind = "thenable" =>
                            /\ g.jobs[i].handler.kind = "none"
                            /\ g.jobs[i].arg \in -2..Len(g.state)
    OBVIOUS
  <2>1. CASE i \in JobsOf(h)
    <3>1. g.jobs[i] = h.jobs[i]
      BY <2>1, ThenLists DEF ThenAdds
    <3>2. QED
      BY <1>1, <1>2, <2>1, <3>1, RefOKGrows DEF RefInv
  <2>2. CASE i \notin JobsOf(h)
    <3>1. PICK w \in Ways :
              g.jobs[i] = ReactionJob(NewReaction(h, p, on, cap, w), w, Plain)
      BY <2>2, ThenLists DEF ThenAdds
    <3>2. RefOK(h, g.jobs[i]) /\ g.jobs[i].kind = "reaction" /\ g.jobs[i].arg = Plain
      BY <1>3, <3>1, ReactionJobRef
    <3>3. QED
      BY <1>1, <1>2, <3>2, RefOKGrows
  <2>3. QED
    BY <2>1, <2>2
<1>7. g.resolved \subseteq PairsOf(g)
  BY <1>2 DEF RefInv, PairsOf, ThenEffect
<1>8. QED
  BY <1>2, <1>5, <1>6, <1>7 DEF RefInv, PairsOf, FnsOf, PromisesOf

LEMMA TakeRef ==
    ASSUME NEW h, NEW g, Shape(h), RefInv(h), TakeEffect(h, g)
    PROVE  /\ RefInv(g) /\ Grows(h, g) /\ 1 \in JobsOf(h)
           /\ \A i \in JobsOf(g) : i + 1 \in JobsOf(h) /\ g.jobs[i] = h.jobs[i + 1]
           /\ \A i \in JobsOf(h) : i # 1 => i - 1 \in JobsOf(g) /\ g.jobs[i - 1] = h.jobs[i]
<1>1. Lengths(h) /\ Lengths(g)
  BY ShapeLengths DEF TakeEffect
<1>2. /\ 1 \in JobsOf(h)
      /\ \A i \in JobsOf(g) : i + 1 \in JobsOf(h) /\ g.jobs[i] = h.jobs[i + 1]
      /\ \A i \in JobsOf(h) : i # 1 => /\ i - 1 \in JobsOf(g)
                                       /\ g.jobs[i - 1] = h.jobs[(i - 1) + 1]
                                       /\ (i - 1) + 1 = i
  BY DEF TakeEffect, JobsOf
<1>3. /\ Grows(h, g) /\ g.state = h.state /\ g.pair = h.pair /\ g.fn = h.fn
      /\ g.reactions = h.reactions
  BY <1>1 DEF TakeEffect, Grows, Lengths
<1>4. \A q \in PromisesOf(g), w \in Ways : \A i \in ListOf(g, q, w) :
          RefOK(g, g.reactions[q][w][i]) /\ g.reactions[q][w][i].on = q
  BY <1>1, <1>3, RefOKGrows DEF RefInv, PromisesOf, ListOf
<1>5. \A i \in JobsOf(g) :
          /\ RefOK(g, g.jobs[i])
          /\ g.jobs[i].kind = "reaction" => g.jobs[i].arg = Plain
          /\ g.jobs[i].kind = "thenable" =>
                /\ g.jobs[i].handler.kind = "none"
                /\ g.jobs[i].arg \in -2..Len(g.state)
  BY <1>1, <1>2, <1>3, RefOKGrows DEF RefInv
<1>6. g.resolved \subseteq PairsOf(g)
  BY <1>3 DEF RefInv, PairsOf, TakeEffect
<1>7. QED
  BY <1>2, <1>3, <1>4, <1>5, <1>6 DEF RefInv, PairsOf, FnsOf, PromisesOf

-----------------------------------------------------------------------------
(***************************************************************************)
(* WayInv: the ways to settle a promise.                                   *)
(***************************************************************************)
LEMMA SettleWay ==
    ASSUME NEW h, NEW g, Shape(h), RefInv(h), WayInv(h), NEW r \in PairsOf(h), Open(h, r),
           NEW u \in Ways, SettleEffect(h, g, h.pair[r], u), Marked(h, g, r)
    PROVE  WayInv(g)
<1> DEFINE p == h.pair[r]
<1>1. p \in PromisesOf(h) /\ h.state[p] = "pending"
  BY DEF RefInv, WayInv
<1>2. /\ PromisesOf(g) = PromisesOf(h) /\ PairsOf(g) = PairsOf(h) /\ g.pair = h.pair
      /\ \A q \in PromisesOf(h) : g.state[q] = IF q = p THEN Outcome(u) ELSE h.state[q]
      /\ \A s : Open(g, s) <=> Open(h, s) /\ s # r
      /\ Outcome(u) # "pending"
  BY DEF SettleEffect, Marked, PromisesOf, PairsOf, Open, Outcome
<1>3. SettleAdds(h, g, p, u)
  BY <1>1, SettleJobs
<1>4. /\ JobsOf(h) \subseteq JobsOf(g)
      /\ \A i \in JobsOf(h) : g.jobs[i] = h.jobs[i]
      /\ \A i \in JobsOf(g) : g.jobs[i].kind = "thenable" => i \in JobsOf(h)
  <2>1. \A x : ReactionJob(x, u, Plain).kind # "thenable"
    BY DEF ReactionJob
  <2>2. QED
    BY <1>3, <2>1 DEF SettleAdds, SettleEffect
<1> HIDE DEF p
<1>5. \A s \in PairsOf(h) : h.pair[s] \in PromisesOf(h)
  BY DEF RefInv
<1>6. \A i \in JobsOf(h) : h.jobs[i].on \in PromisesOf(h)
  BY DEF RefInv, RefOK
<1>7. /\ \A s \in PairsOf(h) : Open(h, s) /\ h.pair[s] = p => s = r
      /\ \A i \in JobsOf(h) : ~Adopts(h, i, p)
  BY DEF WayInv, p
<1>8. /\ \A s \in PairsOf(g) : Open(g, s) => g.state[g.pair[s]] = "pending"
      /\ \A i \in JobsOf(g) : g.jobs[i].kind = "thenable" => g.state[g.jobs[i].on] = "pending"
  BY <1>2, <1>4, <1>5, <1>6, <1>7 DEF WayInv, Adopts
<1>9. /\ \A s, t \in PairsOf(g) :
            Open(g, s) /\ Open(g, t) /\ g.pair[s] = g.pair[t] => s = t
      /\ \A i, j \in JobsOf(g) :
            Adopts(g, i, g.jobs[i].on) /\ Adopts(g, j, g.jobs[i].on) => i = j
      /\ \A s \in PairsOf(g), i \in JobsOf(g) : Open(g, s) => ~Adopts(g, i, g.pair[s])
  BY <1>2, <1>4 DEF WayInv, Adopts
<1>10. \A q \in PromisesOf(g) : g.state[q] = "pending" =>
          \/ \E s \in PairsOf(g) : Open(g, s) /\ g.pair[s] = q
          \/ \E i \in JobsOf(g) : Adopts(g, i, q)
  <2> SUFFICES ASSUME NEW q \in PromisesOf(h), q # p, h.state[q] = "pending"
               PROVE  \/ \E s \in PairsOf(g) : Open(g, s) /\ g.pair[s] = q
                      \/ \E i \in JobsOf(g) : Adopts(g, i, q)
    BY <1>2
  <2>1. CASE \E s \in PairsOf(h) : Open(h, s) /\ h.pair[s] = q
    BY <1>2, <2>1 DEF p
  <2>2. CASE \E i \in JobsOf(h) : Adopts(h, i, q)
    BY <1>4, <2>2 DEF Adopts
  <2>3. QED
    BY <2>1, <2>2 DEF WayInv
<1>11. QED
  BY <1>8, <1>9, <1>10 DEF WayInv

LEMMA AdoptJobs ==
    ASSUME NEW h, NEW g, Shape(h), NEW r, NEW v, AdoptEffect(h, g, r, v)
    PROVE  /\ JobsOf(g) = JobsOf(h) \cup {Len(h.jobs) + 1}
           /\ Len(h.jobs) + 1 \notin JobsOf(h)
           /\ \A i \in JobsOf(h) : g.jobs[i] = h.jobs[i] /\ i < Len(h.jobs) + 1
           /\ g.jobs[Len(h.jobs) + 1] = ThenableJob(h.pair[r], v)
<1>1. Len(h.jobs) \in Nat
  BY ShapeLengths DEF Lengths
<1>2. Adds(h.jobs, g.jobs, ThenableJob(h.pair[r], v))
  BY DEF AdoptEffect
<1>3. QED
  BY <1>1, <1>2, AddsFacts DEF JobsOf

LEMMA AdoptWay ==
    ASSUME NEW h, NEW g, Shape(h), RefInv(h), WayInv(h), NEW r \in PairsOf(h), Open(h, r),
           NEW v, AdoptEffect(h, g, r, v)
    PROVE  WayInv(g)
<1> DEFINE p == h.pair[r]
           n == Len(h.jobs) + 1
<1>1. p \in PromisesOf(h) /\ h.state[p] = "pending"
  BY DEF RefInv, WayInv
<1>2. /\ PromisesOf(g) = PromisesOf(h) /\ PairsOf(g) = PairsOf(h) /\ g.pair = h.pair
      /\ g.state = h.state
      /\ \A s : Open(g, s) <=> Open(h, s) /\ s # r
  BY DEF AdoptEffect, Marked, PromisesOf, PairsOf, Open
<1>3. /\ JobsOf(g) = JobsOf(h) \cup {n} /\ n \notin JobsOf(h)
      /\ \A i \in JobsOf(h) : g.jobs[i] = h.jobs[i]
      /\ g.jobs[n].kind = "thenable" /\ g.jobs[n].on = p
  BY SMTT(30), AdoptJobs, ThenableJobFields
<1> HIDE DEF p, n
<1>4. /\ \A s \in PairsOf(h) : Open(h, s) /\ h.pair[s] = p => s = r
      /\ \A i \in JobsOf(h) : ~Adopts(h, i, p)
  BY DEF WayInv, p
<1>5. /\ \A s \in PairsOf(g) : Open(g, s) => g.state[g.pair[s]] = "pending"
      /\ \A i \in JobsOf(g) : g.jobs[i].kind = "thenable" => g.state[g.jobs[i].on] = "pending"
  BY <1>1, <1>2, <1>3 DEF WayInv
<1>6. /\ \A s, t \in PairsOf(g) :
            Open(g, s) /\ Open(g, t) /\ g.pair[s] = g.pair[t] => s = t
      /\ \A i, j \in JobsOf(g) :
            Adopts(g, i, g.jobs[i].on) /\ Adopts(g, j, g.jobs[i].on) => i = j
      /\ \A s \in PairsOf(g), i \in JobsOf(g) : Open(g, s) => ~Adopts(g, i, g.pair[s])
  BY <1>2, <1>3, <1>4 DEF WayInv, Adopts
<1>7. \A q \in PromisesOf(g) : g.state[q] = "pending" =>
          \/ \E s \in PairsOf(g) : Open(g, s) /\ g.pair[s] = q
          \/ \E i \in JobsOf(g) : Adopts(g, i, q)
  <2> SUFFICES ASSUME NEW q \in PromisesOf(h), h.state[q] = "pending"
               PROVE  \/ \E s \in PairsOf(g) : Open(g, s) /\ g.pair[s] = q
                      \/ \E i \in JobsOf(g) : Adopts(g, i, q)
    BY <1>2
  <2>1. CASE q = p
    BY <1>3, <2>1 DEF Adopts
  <2>2. CASE q # p /\ \E s \in PairsOf(h) : Open(h, s) /\ h.pair[s] = q
    BY <1>2, <2>2 DEF p
  <2>3. CASE \E i \in JobsOf(h) : Adopts(h, i, q)
    BY <1>3, <2>3 DEF Adopts
  <2>4. QED
    BY <2>1, <2>2, <2>3 DEF WayInv
<1>8. QED
  BY <1>5, <1>6, <1>7 DEF WayInv

LEMMA CallWay ==
    ASSUME NEW h, NEW g, Shape(h), RefInv(h), WayInv(h), NEW r \in PairsOf(h), NEW w, NEW v,
           CallEffect(h, g, r, w, v)
    PROVE  WayInv(g)
<1>1. CASE g = h
  BY <1>1
<1>2. CASE Open(h, r) /\ \E u \in Ways : SettleEffect(h, g, h.pair[r], u) /\ Marked(h, g, r)
  BY <1>2, SettleWay
<1>3. CASE Open(h, r) /\ AdoptEffect(h, g, r, v)
  BY <1>3, AdoptWay
<1>4. QED
  BY <1>1, <1>2, <1>3 DEF CallEffect

LEMMA CapabilityWay ==
    ASSUME NEW h, NEW g, Shape(h), RefInv(h), WayInv(h), CapabilityEffect(h, g)
    PROVE  WayInv(g)
<1> DEFINE n == Len(h.state) + 1
           m == Len(h.pair) + 1
<1>1. CapabilityAdds(h, g)
  BY CapabilityLists
<1>2. /\ PromisesOf(g) = PromisesOf(h) \cup {n} /\ PairsOf(g) = PairsOf(h) \cup {m}
      /\ n \notin PromisesOf(h) /\ m \notin PairsOf(h)
      /\ \A q \in PromisesOf(h) : g.state[q] = h.state[q]
      /\ \A r \in PairsOf(h) : g.pair[r] = h.pair[r]
      /\ g.state[n] = "pending" /\ g.pair[m] = n
  BY <1>1 DEF CapabilityAdds
<1>3. g.jobs = h.jobs /\ JobsOf(g) = JobsOf(h) /\ g.resolved = h.resolved
  BY DEF CapabilityEffect, JobsOf
<1> HIDE DEF n, m
<1>4. /\ \A s \in PairsOf(h) : h.pair[s] \in PromisesOf(h)
      /\ \A i \in JobsOf(h) : h.jobs[i].on \in PromisesOf(h)
  BY DEF RefInv, RefOK
<1>5. /\ \A s \in PairsOf(g) : Open(g, s) => g.state[g.pair[s]] = "pending"
      /\ \A i \in JobsOf(g) : g.jobs[i].kind = "thenable" => g.state[g.jobs[i].on] = "pending"
      /\ \A i, j \in JobsOf(g) :
            Adopts(g, i, g.jobs[i].on) /\ Adopts(g, j, g.jobs[i].on) => i = j
  BY <1>2, <1>3, <1>4 DEF WayInv, Open, Adopts
<1>6. /\ \A s, t \in PairsOf(g) :
            Open(g, s) /\ Open(g, t) /\ g.pair[s] = g.pair[t] => s = t
      /\ \A s \in PairsOf(g), i \in JobsOf(g) : Open(g, s) => ~Adopts(g, i, g.pair[s])
  BY <1>2, <1>3, <1>4 DEF WayInv, Open, Adopts
<1>7. Open(g, m)
  <2>1. h.resolved \subseteq PairsOf(h)
    BY DEF RefInv
  <2>2. QED
    BY <1>2, <1>3, <2>1 DEF Open
<1>8. \A q \in PromisesOf(g) : g.state[q] = "pending" =>
          \/ \E s \in PairsOf(g) : Open(g, s) /\ g.pair[s] = q
          \/ \E i \in JobsOf(g) : Adopts(g, i, q)
  BY <1>2, <1>3, <1>7 DEF WayInv, Open, Adopts
<1>9. QED
  BY <1>5, <1>6, <1>8 DEF WayInv

\* Only these fields matter to WayInv.
LEMMA SameWay ==
    ASSUME NEW h, NEW g, WayInv(h), g.state = h.state, g.pair = h.pair,
           g.resolved = h.resolved, g.jobs = h.jobs
    PROVE  WayInv(g)
<1>1. /\ PromisesOf(g) = PromisesOf(h) /\ PairsOf(g) = PairsOf(h) /\ JobsOf(g) = JobsOf(h)
      /\ \A r : Open(g, r) <=> Open(h, r)
      /\ \A i, p : Adopts(g, i, p) <=> Adopts(h, i, p)
  BY DEF PromisesOf, PairsOf, JobsOf, Open, Adopts
<1>2. QED
  BY <1>1 DEF WayInv

LEMMA ThenWay ==
    ASSUME NEW h, NEW g, Shape(h), RefInv(h), WayInv(h), NEW p \in PromisesOf(h), NEW on,
           NEW cap, ThenEffect(h, g, p, on, cap)
    PROVE  WayInv(g)
<1>1. ThenAdds(h, g, p, on, cap)
  BY ThenLists
<1>2. /\ JobsOf(h) \subseteq JobsOf(g)
      /\ \A i \in JobsOf(h) : g.jobs[i] = h.jobs[i]
      /\ \A i \in JobsOf(g) : g.jobs[i].kind = "thenable" => i \in JobsOf(h)
  <2>1. \A x, w : ReactionJob(x, w, Plain).kind # "thenable"
    BY DEF ReactionJob
  <2>2. QED
    BY <1>1, <2>1 DEF ThenAdds
<1>3. /\ PromisesOf(g) = PromisesOf(h) /\ PairsOf(g) = PairsOf(h) /\ g.pair = h.pair
      /\ g.state = h.state /\ \A s : Open(g, s) <=> Open(h, s)
  BY DEF ThenEffect, PromisesOf, PairsOf, Open
<1>4. /\ \A s \in PairsOf(g) : Open(g, s) => g.state[g.pair[s]] = "pending"
      /\ \A i \in JobsOf(g) : g.jobs[i].kind = "thenable" => g.state[g.jobs[i].on] = "pending"
  BY <1>2, <1>3 DEF WayInv
<1>5. /\ \A s, t \in PairsOf(g) :
            Open(g, s) /\ Open(g, t) /\ g.pair[s] = g.pair[t] => s = t
      /\ \A i, j \in JobsOf(g) :
            Adopts(g, i, g.jobs[i].on) /\ Adopts(g, j, g.jobs[i].on) => i = j
      /\ \A s \in PairsOf(g), i \in JobsOf(g) : Open(g, s) => ~Adopts(g, i, g.pair[s])
  BY <1>2, <1>3 DEF WayInv, Adopts
<1>6. \A q \in PromisesOf(g) : g.state[q] = "pending" =>
          \/ \E s \in PairsOf(g) : Open(g, s) /\ g.pair[s] = q
          \/ \E i \in JobsOf(g) : Adopts(g, i, q)
  BY <1>2, <1>3 DEF WayInv, Adopts
<1>7. QED
  BY <1>4, <1>5, <1>6 DEF WayInv

\* A job of a reaction is taken.
LEMMA TakeWay ==
    ASSUME NEW h, NEW g, Shape(h), RefInv(h), WayInv(h), TakeEffect(h, g),
           h.jobs[1].kind = "reaction"
    PROVE  WayInv(g)
<1>1. /\ 1 \in JobsOf(h)
      /\ \A i \in JobsOf(g) : i + 1 \in JobsOf(h) /\ g.jobs[i] = h.jobs[i + 1]
      /\ \A i \in JobsOf(h) : i # 1 => i - 1 \in JobsOf(g) /\ g.jobs[i - 1] = h.jobs[i]
  BY TakeRef
<1>2. \A i, j \in JobsOf(g) : i + 1 = j + 1 => i = j
  BY DEF JobsOf
<1>3. /\ PromisesOf(g) = PromisesOf(h) /\ PairsOf(g) = PairsOf(h) /\ g.pair = h.pair
      /\ g.state = h.state /\ \A s : Open(g, s) <=> Open(h, s)
  BY DEF TakeEffect, PromisesOf, PairsOf, Open
<1>4. /\ \A s \in PairsOf(g) : Open(g, s) => g.state[g.pair[s]] = "pending"
      /\ \A i \in JobsOf(g) : g.jobs[i].kind = "thenable" => g.state[g.jobs[i].on] = "pending"
  BY <1>1, <1>3 DEF WayInv
<1>5. /\ \A s, t \in PairsOf(g) :
            Open(g, s) /\ Open(g, t) /\ g.pair[s] = g.pair[t] => s = t
      /\ \A s \in PairsOf(g), i \in JobsOf(g) : Open(g, s) => ~Adopts(g, i, g.pair[s])
  BY <1>1, <1>3 DEF WayInv, Adopts
<1>6. \A i, j \in JobsOf(g) :
          Adopts(g, i, g.jobs[i].on) /\ Adopts(g, j, g.jobs[i].on) => i = j
  BY <1>1, <1>2 DEF WayInv, Adopts
<1>7. \A q \in PromisesOf(g) : g.state[q] = "pending" =>
          \/ \E s \in PairsOf(g) : Open(g, s) /\ g.pair[s] = q
          \/ \E i \in JobsOf(g) : Adopts(g, i, q)
  <2> SUFFICES ASSUME NEW q \in PromisesOf(h), h.state[q] = "pending"
               PROVE  \/ \E s \in PairsOf(g) : Open(g, s) /\ g.pair[s] = q
                      \/ \E i \in JobsOf(g) : Adopts(g, i, q)
    BY <1>3
  <2>1. CASE \E s \in PairsOf(h) : Open(h, s) /\ h.pair[s] = q
    BY <1>3, <2>1
  <2>2. CASE \E i \in JobsOf(h) : Adopts(h, i, q)
    <3>1. PICK i \in JobsOf(h) : Adopts(h, i, q)
      BY <2>2
    <3>2. i # 1
      BY <3>1 DEF Adopts
    <3>3. i - 1 \in JobsOf(g) /\ Adopts(g, i - 1, q)
      BY <1>1, <3>1, <3>2 DEF Adopts
    <3>4. QED
      BY <3>3
  <2>3. QED
    BY <2>1, <2>2 DEF WayInv
<1>8. QED
  BY <1>4, <1>5, <1>6, <1>7 DEF WayInv

\* js_promise_resolve_thenable_job: the way of the job becomes that of a pair.
LEMMA TakePairWay ==
    ASSUME NEW h, NEW k, NEW g, Shape(h), RefInv(h), WayInv(h), TakeEffect(h, k),
           h.jobs[1].kind = "thenable", PairEffect(k, g, h.jobs[1].on)
    PROVE  WayInv(g)
<1> DEFINE p == h.jobs[1].on
           m == Len(h.pair) + 1
<1>1. /\ 1 \in JobsOf(h)
      /\ \A i \in JobsOf(g) : i + 1 \in JobsOf(h) /\ g.jobs[i] = h.jobs[i + 1]
      /\ \A i \in JobsOf(h) : i # 1 => i - 1 \in JobsOf(g) /\ g.jobs[i - 1] = h.jobs[i]
  BY TakeRef DEF PairEffect, JobsOf
<1>2. \A i, j \in JobsOf(g) : i + 1 # 1 /\ (i + 1 = j + 1 => i = j)
  BY DEF JobsOf
<1>3. /\ PromisesOf(g) = PromisesOf(h) /\ g.state = h.state /\ g.resolved = h.resolved
      /\ k.pair = h.pair
  BY DEF TakeEffect, PairEffect, PromisesOf
<1>4. /\ PairsOf(g) = PairsOf(h) \cup {m} /\ m \notin PairsOf(h)
      /\ \A r \in PairsOf(h) : g.pair[r] = h.pair[r]
      /\ g.pair[m] = p
  <2>1. Len(h.pair) \in Nat /\ Adds(h.pair, g.pair, p)
    BY <1>3, ShapeLengths DEF Lengths, PairEffect
  <2>2. QED
    BY <2>1, AddsFacts DEF PairsOf
<1> HIDE DEF p, m
<1>5. /\ p \in PromisesOf(h) /\ h.state[p] = "pending"
      /\ \A r \in PairsOf(h) : Open(h, r) => h.pair[r] # p
      /\ \A i \in JobsOf(h) : i # 1 => ~Adopts(h, i, p)
  BY <1>1 DEF RefInv, RefOK, WayInv, Adopts, p
<1>6. /\ \A s \in PairsOf(h) : Open(g, s) <=> Open(h, s)
      /\ Open(g, m)
  BY <1>3, <1>4 DEF Open, RefInv
<1>7. /\ \A s \in PairsOf(g) : Open(g, s) => g.state[g.pair[s]] = "pending"
      /\ \A i \in JobsOf(g) : g.jobs[i].kind = "thenable" => g.state[g.jobs[i].on] = "pending"
  BY <1>1, <1>3, <1>4, <1>5, <1>6 DEF WayInv
<1>8. \A s, t \in PairsOf(g) :
          Open(g, s) /\ Open(g, t) /\ g.pair[s] = g.pair[t] => s = t
  BY <1>4, <1>5, <1>6 DEF WayInv
<1>9. \A s \in PairsOf(g), i \in JobsOf(g) : Open(g, s) => ~Adopts(g, i, g.pair[s])
  BY <1>1, <1>2, <1>4, <1>5, <1>6 DEF WayInv, Adopts
<1>10. \A i, j \in JobsOf(g) :
          Adopts(g, i, g.jobs[i].on) /\ Adopts(g, j, g.jobs[i].on) => i = j
  BY <1>1, <1>2 DEF WayInv, Adopts
<1>11. \A q \in PromisesOf(g) : g.state[q] = "pending" =>
          \/ \E s \in PairsOf(g) : Open(g, s) /\ g.pair[s] = q
          \/ \E i \in JobsOf(g) : Adopts(g, i, q)
  <2> SUFFICES ASSUME NEW q \in PromisesOf(h), h.state[q] = "pending"
               PROVE  \/ \E s \in PairsOf(g) : Open(g, s) /\ g.pair[s] = q
                      \/ \E i \in JobsOf(g) : Adopts(g, i, q)
    BY <1>3
  <2>1. CASE q = p
    BY <1>4, <1>6, <2>1
  <2>2. CASE \E s \in PairsOf(h) : Open(h, s) /\ h.pair[s] = q
    BY <1>4, <1>6, <2>2
  <2>3. CASE q # p /\ \E i \in JobsOf(h) : Adopts(h, i, q)
    <3>1. PICK i \in JobsOf(h) : Adopts(h, i, q)
      BY <2>3
    <3>2. i # 1
      BY <2>3, <3>1 DEF Adopts, p
    <3>3. i - 1 \in JobsOf(g) /\ Adopts(g, i - 1, q)
      BY <1>1, <3>1, <3>2 DEF Adopts
    <3>4. QED
      BY <3>3
  <2>4. QED
    BY <2>1, <2>2, <2>3 DEF WayInv
<1>12. QED
  BY <1>7, <1>8, <1>9, <1>10, <1>11 DEF WayInv

-----------------------------------------------------------------------------
(***************************************************************************)
(* OrderInv: the reactions of a promise.                                   *)
(***************************************************************************)
LEMMA PromiseTypes ==
    ASSUME NEW h, Shape(h), NEW p \in PromisesOf(h)
    PROVE  h.ran[p] \in Nat /\ h.count[p] \in Nat /\ h.state[p] \in States
BY SMTT(30) DEF Shape, Heaps, PromisesOf

LEMMA JobTypes ==
    ASSUME NEW h, Shape(h), NEW i \in JobsOf(h)
    PROVE  /\ h.jobs[i] \in Jobs /\ h.jobs[i].way \in Ways /\ h.jobs[i].no \in Nat
           /\ h.jobs[i].kind \in {"reaction", "thenable"}
<1>1. h.jobs[i] \in Jobs
  BY DEF Shape, Heaps, JobsOf
<1>2. QED
  BY <1>1 DEF Jobs

LEMMA ReactionJobFields ==
    ASSUME NEW x, NEW w
    PROVE  /\ ReactionJob(x, w, Plain).kind = "reaction"
           /\ ReactionJob(x, w, Plain).arg = Plain
           /\ ReactionJob(x, w, Plain).way = w
           /\ ReactionJob(x, w, Plain).cap = x.cap
           /\ ReactionJob(x, w, Plain).on = x.on
           /\ ReactionJob(x, w, Plain).no = x.no
           /\ ReactionJob(x, w, Plain).handler = x.handler
BY DEF ReactionJob

LEMMA OutcomeStates ==
    /\ \A w \in Ways : Outcome(w) \in States \ {"pending"}
    /\ \A w, v \in Ways : Outcome(w) = Outcome(v) => w = v
    /\ \A s \in States \ {"pending"} : \E w \in Ways : s = Outcome(w)
BY DEF Outcome, States, Ways

LEMMA SettleOrder ==
    ASSUME NEW h, NEW g, Shape(h), RefInv(h), OrderInv(h), NEW p \in PromisesOf(h),
           h.state[p] = "pending", NEW u \in Ways, SettleEffect(h, g, p, u)
    PROVE  OrderInv(g)
<1> DEFINE m == Len(h.jobs)
<1>1. /\ PromisesOf(g) = PromisesOf(h) /\ g.count = h.count /\ g.ran = h.ran
      /\ \A q \in PromisesOf(h) : g.state[q] = IF q = p THEN Outcome(u) ELSE h.state[q]
      /\ \A q \in PromisesOf(h), w \in Ways :
            g.reactions[q][w] = IF q = p THEN <<>> ELSE h.reactions[q][w]
      /\ Outcome(u) # "pending"
  BY OutcomeStates DEF SettleEffect, PromisesOf
<1>2. SettleAdds(h, g, p, u)
  BY SettleJobs
<1>3. /\ h.ran[p] = 0 /\ h.count[p] \in Nat
      /\ ListOf(h, p, u) = 1..h.count[p]
      /\ \A n \in ListOf(h, p, u) : h.reactions[p][u][n].no = n /\ h.reactions[p][u][n].on = p
  BY PromiseTypes DEF OrderInv, ListOf, RefInv
<1>4. \A n \in ListOf(h, p, u) :
          /\ m + n \in JobsOf(g) /\ g.jobs[m + n].kind = "reaction"
          /\ g.jobs[m + n].on = p /\ g.jobs[m + n].way = u /\ g.jobs[m + n].no = n
  <2>1. \A n \in ListOf(h, p, u) :
            /\ m + n \in JobsOf(g)
            /\ g.jobs[m + n] = ReactionJob(h.reactions[p][u][n], u, Plain)
    BY <1>2 DEF SettleAdds, SettleEffect
  <2>2. QED
    BY <1>3, <2>1, ReactionJobFields
<1>5. /\ JobsOf(h) \subseteq JobsOf(g)
      /\ \A i \in JobsOf(h) : g.jobs[i] = h.jobs[i]
      /\ \A i \in JobsOf(g) \ JobsOf(h) : \E n \in ListOf(h, p, u) : i = m + n
  BY <1>2 DEF SettleAdds, SettleEffect
<1>6. /\ m \in Nat /\ \A i \in JobsOf(h) : i \in 1..m
      /\ \A n \in ListOf(h, p, u) : n \in Nat \ {0}
      /\ \A w \in Ways : ListOf(h, p, w) = 1..h.count[p]
  BY <1>3, ShapeLengths DEF JobsOf, Lengths, OrderInv, ListOf
<1> HIDE DEF m
<1>7. \A i \in JobsOf(h) : h.jobs[i].kind = "reaction" =>
          h.jobs[i].on # p /\ h.jobs[i].on \in PromisesOf(h)
  BY JobTypes, OutcomeStates DEF OrderInv, RefInv, RefOK
<1>8. \A q \in PromisesOf(g) : g.state[q] = "pending" =>
          /\ g.ran[q] = 0
          /\ \A w \in Ways : /\ Len(g.reactions[q][w]) = g.count[q]
                             /\ \A i \in ListOf(g, q, w) : g.reactions[q][w][i].no = i
  BY <1>1 DEF OrderInv, ListOf
<1>9. ASSUME NEW q \in PromisesOf(g), g.state[q] # "pending"
      PROVE  /\ g.ran[q] <= g.count[q]
             /\ \A w \in Ways : g.reactions[q][w] = <<>>
             /\ \A n \in g.ran[q] + 1 .. g.count[q] :
                   \E i \in JobsOf(g) : IsReaction(g, i, q) /\ g.jobs[i].no = n
  <2>1. CASE q = p
    <3>1. \A n \in 0 + 1 .. h.count[p] : n \in ListOf(h, p, u)
      BY <1>3
    <3>2. QED
      BY <1>1, <1>3, <1>4, <2>1, <3>1 DEF IsReaction
  <2>2. CASE q # p
    BY <1>1, <1>5, <1>9, <2>2 DEF OrderInv, IsReaction
  <2>3. QED
    BY <2>1, <2>2
<1>10. ASSUME NEW i \in JobsOf(g), g.jobs[i].kind = "reaction"
       PROVE  /\ g.state[g.jobs[i].on] = Outcome(g.jobs[i].way)
              /\ g.jobs[i].no \in g.ran[g.jobs[i].on] + 1 .. g.count[g.jobs[i].on]
  <2>1. CASE i \in JobsOf(h)
    BY <1>1, <1>5, <1>7, <1>10, <2>1 DEF OrderInv
  <2>2. CASE i \notin JobsOf(h)
    <3>1. PICK n \in ListOf(h, p, u) : i = m + n
      BY <1>5, <2>2
    <3>2. n \in 0 + 1 .. h.count[p]
      BY <1>3
    <3>3. QED
      BY <1>1, <1>3, <1>4, <3>1, <3>2
  <2>3. QED
    BY <2>1, <2>2
<1>11. ASSUME NEW i \in JobsOf(g), NEW j \in JobsOf(g), i < j,
              IsReaction(g, i, g.jobs[j].on), g.jobs[j].kind = "reaction"
       PROVE  g.jobs[i].no < g.jobs[j].no
  <2>1. CASE i \in JobsOf(h) /\ j \in JobsOf(h)
    BY <1>5, <1>11, <2>1 DEF OrderInv, IsReaction
  <2>2. CASE j \notin JobsOf(h)
    <3>1. PICK n \in ListOf(h, p, u) : j = m + n
      BY <1>5, <2>2
    <3>2. i \notin JobsOf(h)
      BY <1>4, <1>5, <1>7, <1>11, <3>1 DEF IsReaction
    <3>3. PICK k \in ListOf(h, p, u) : i = m + k
      BY <1>5, <3>2
    <3>4. k < n
      BY <1>6, <1>11, <3>1, <3>3
    <3>5. QED
      BY <1>4, <3>1, <3>3, <3>4
  <2>3. CASE i \notin JobsOf(h) /\ j \in JobsOf(h)
    <3>1. PICK n \in ListOf(h, p, u) : i = m + n
      BY <1>5, <2>3
    <3>2. QED
      BY <1>6, <1>11, <2>3, <3>1
  <2>4. QED
    BY <2>1, <2>2, <2>3
<1>12. QED
  BY <1>8, <1>9, <1>10, <1>11 DEF OrderInv

LEMMA AdoptOrder ==
    ASSUME NEW h, NEW g, Shape(h), RefInv(h), OrderInv(h), NEW r, NEW v,
           AdoptEffect(h, g, r, v)
    PROVE  OrderInv(g)
<1> DEFINE n == Len(h.jobs) + 1
<1>1. /\ JobsOf(g) = JobsOf(h) \cup {n} /\ n \notin JobsOf(h)
      /\ \A i \in JobsOf(h) : g.jobs[i] = h.jobs[i]
      /\ g.jobs[n].kind = "thenable"
  BY AdoptJobs, ThenableJobFields
<1>2. /\ PromisesOf(g) = PromisesOf(h) /\ g.count = h.count /\ g.ran = h.ran
      /\ g.state = h.state /\ g.reactions = h.reactions
      /\ \A p, w : ListOf(g, p, w) = ListOf(h, p, w)
  BY DEF AdoptEffect, PromisesOf, ListOf
<1> HIDE DEF n
<1>3. \A i, p : i \in JobsOf(g) /\ IsReaction(g, i, p) <=> i \in JobsOf(h) /\ IsReaction(h, i, p)
  BY <1>1 DEF IsReaction
<1>4. QED
  BY <1>1, <1>2, <1>3 DEF OrderInv, IsReaction

LEMMA CallOrder ==
    ASSUME NEW h, NEW g, Shape(h), RefInv(h), WayInv(h), OrderInv(h), NEW r \in PairsOf(h),
           NEW w, NEW v, CallEffect(h, g, r, w, v)
    PROVE  OrderInv(g)
<1>1. CASE g = h
  BY <1>1
<1>2. CASE Open(h, r) /\ \E u \in Ways : SettleEffect(h, g, h.pair[r], u)
  BY <1>2, SettleOrder DEF RefInv, WayInv
<1>3. CASE AdoptEffect(h, g, r, v)
  BY <1>3, AdoptOrder
<1>4. QED
  BY <1>1, <1>2, <1>3 DEF CallEffect

LEMMA CapabilityOrder ==
    ASSUME NEW h, NEW g, Shape(h), RefInv(h), OrderInv(h), CapabilityEffect(h, g)
    PROVE  OrderInv(g)
<1> DEFINE n == Len(h.state) + 1
<1>1. CapabilityAdds(h, g)
  BY CapabilityLists
<1>2. /\ PromisesOf(g) = PromisesOf(h) \cup {n} /\ n \notin PromisesOf(h)
      /\ \A q \in PromisesOf(h) : /\ g.state[q] = h.state[q] /\ g.reactions[q] = h.reactions[q]
                                  /\ g.count[q] = h.count[q] /\ g.ran[q] = h.ran[q]
      /\ g.state[n] = "pending" /\ g.count[n] = 0 /\ g.ran[n] = 0
      /\ \A w \in Ways : g.reactions[n][w] = <<>> /\ ListOf(g, n, w) = {}
  BY <1>1 DEF CapabilityAdds
<1>3. g.jobs = h.jobs /\ JobsOf(g) = JobsOf(h) /\ \A i, p : IsReaction(g, i, p) <=> IsReaction(h, i, p)
  BY DEF CapabilityEffect, JobsOf, IsReaction
<1> HIDE DEF n
<1>4. \A i \in JobsOf(h) : h.jobs[i].on \in PromisesOf(h)
  BY DEF RefInv, RefOK
<1>5. \A q \in PromisesOf(h), w \in Ways : ListOf(g, q, w) = ListOf(h, q, w)
  BY <1>2 DEF ListOf
<1>6. \A q \in PromisesOf(g) : g.state[q] = "pending" =>
          /\ g.ran[q] = 0
          /\ \A w \in Ways : /\ Len(g.reactions[q][w]) = g.count[q]
                             /\ \A i \in ListOf(g, q, w) : g.reactions[q][w][i].no = i
  BY <1>2, <1>5 DEF OrderInv
<1>7. QED
  BY <1>2, <1>3, <1>4, <1>6 DEF OrderInv

LEMMA SameOrder ==
    ASSUME NEW h, NEW g, OrderInv(h), g.state = h.state, g.reactions = h.reactions,
           g.count = h.count, g.ran = h.ran, g.jobs = h.jobs
    PROVE  OrderInv(g)
<1>1. /\ PromisesOf(g) = PromisesOf(h) /\ JobsOf(g) = JobsOf(h)
      /\ \A p, w : ListOf(g, p, w) = ListOf(h, p, w)
      /\ \A i, p : IsReaction(g, i, p) <=> IsReaction(h, i, p)
  BY DEF PromisesOf, JobsOf, ListOf, IsReaction
<1>2. QED
  BY <1>1 DEF OrderInv

LEMMA ThenOrder ==
    ASSUME NEW h, NEW g, Shape(h), RefInv(h), OrderInv(h), NEW p \in PromisesOf(h), NEW on,
           NEW cap, ThenEffect(h, g, p, on, cap)
    PROVE  OrderInv(g)
<1> DEFINE c == h.count[p]
<1>1. ThenAdds(h, g, p, on, cap)
  BY ThenLists
<1>2. /\ PromisesOf(g) = PromisesOf(h) /\ g.ran = h.ran /\ g.state = h.state
      /\ \A q \in PromisesOf(h) : g.count[q] = IF q = p THEN c + 1 ELSE h.count[q]
  BY DEF ThenEffect, PromisesOf
<1>3. /\ c \in Nat /\ h.ran[p] \in Nat /\ h.state[p] \in States
      /\ \A w : NewReaction(h, p, on, cap, w).no = c + 1
      /\ \A w : NewReaction(h, p, on, cap, w).on = p
  BY PromiseTypes DEF NewReaction
<1>4. /\ JobsOf(h) \subseteq JobsOf(g)
      /\ \A i \in JobsOf(h) : g.jobs[i] = h.jobs[i]
  BY <1>1 DEF ThenAdds
<1>5. \A i \in JobsOf(g) \ JobsOf(h) :
          /\ h.state[p] # "pending" /\ i = Len(h.jobs) + 1
          /\ g.jobs[i].kind = "reaction" /\ g.jobs[i].on = p
          /\ g.jobs[i].no = c + 1 /\ h.state[p] = Outcome(g.jobs[i].way)
  BY <1>1, <1>3, ReactionJobFields, OutcomeStates DEF ThenAdds
<1>6. \A i \in JobsOf(h) : ~(Len(h.jobs) + 1 < i)
  BY ShapeLengths DEF JobsOf, Lengths
<1>7. h.state[p] # "pending" =>
          \E i \in JobsOf(g) : IsReaction(g, i, p) /\ g.jobs[i].no = c + 1
  <2> SUFFICES ASSUME h.state[p] # "pending"
               PROVE  \E i \in JobsOf(g) : IsReaction(g, i, p) /\ g.jobs[i].no = c + 1
    OBVIOUS
  <2>1. PICK w \in Ways : h.state[p] = Outcome(w)
    BY <1>3, OutcomeStates
  <2>2. Adds(h.jobs, g.jobs, ReactionJob(NewReaction(h, p, on, cap, w), w, Plain))
    BY <2>1 DEF ThenEffect
  <2>3. /\ Len(h.jobs) + 1 \in JobsOf(g)
        /\ g.jobs[Len(h.jobs) + 1] = ReactionJob(NewReaction(h, p, on, cap, w), w, Plain)
    BY <2>2, ShapeLengths, AddsFacts DEF JobsOf, Lengths
  <2>4. QED
    BY <1>3, <2>3, ReactionJobFields DEF IsReaction
<1> HIDE DEF c
<1>8. ASSUME NEW q \in PromisesOf(g), g.state[q] = "pending"
      PROVE  /\ g.ran[q] = 0
             /\ \A w \in Ways : /\ Len(g.reactions[q][w]) = g.count[q]
                                /\ \A i \in ListOf(g, q, w) : g.reactions[q][w][i].no = i
  <2>1. CASE q # p
    <3>1. \A w \in Ways : g.reactions[q][w] = h.reactions[q][w]
      BY <1>2, <1>3, <2>1, OutcomeStates DEF ThenEffect
    <3>2. QED
      BY <1>2, <1>8, <2>1, <3>1 DEF OrderInv, ListOf
  <2>2. CASE q = p
    <3> SUFFICES ASSUME NEW w \in Ways
                 PROVE  /\ Len(g.reactions[p][w]) = g.count[p]
                        /\ \A i \in ListOf(g, p, w) : g.reactions[p][w][i].no = i
      BY <1>2, <1>8, <2>2 DEF OrderInv
    <3>1. Adds(h.reactions[p][w], g.reactions[p][w], NewReaction(h, p, on, cap, w))
      BY <1>2, <1>8, <2>2 DEF ThenEffect
    <3>2. /\ Len(h.reactions[p][w]) = c
          /\ \A i \in 1..c : h.reactions[p][w][i].no = i
      BY <1>2, <1>8, <2>2 DEF OrderInv, ListOf, c
    <3>3. /\ 1..Len(g.reactions[p][w]) = (1..c) \cup {c + 1}
          /\ \A i \in 1..c : g.reactions[p][w][i] = h.reactions[p][w][i]
          /\ g.reactions[p][w][c + 1].no = c + 1
          /\ Len(g.reactions[p][w]) = c + 1
      BY <1>3, <3>1, <3>2, AddsFacts DEF Adds
    <3>4. QED
      BY <1>2, <3>2, <3>3 DEF ListOf
  <2>3. QED
    BY <2>1, <2>2
<1>9. ASSUME NEW q \in PromisesOf(g), g.state[q] # "pending"
      PROVE  /\ g.ran[q] <= g.count[q]
             /\ \A w \in Ways : g.reactions[q][w] = <<>>
             /\ \A n \in g.ran[q] + 1 .. g.count[q] :
                   \E i \in JobsOf(g) : IsReaction(g, i, q) /\ g.jobs[i].no = n
  <2>1. h.ran[q] \in Nat /\ h.count[q] \in Nat /\ h.ran[q] <= h.count[q]
    BY <1>2, <1>9, PromiseTypes DEF OrderInv
  <2>2. \A w \in Ways : g.reactions[q][w] = <<>>
    <3>1. g.reactions[q] = h.reactions[q] \/ \A w \in Ways : g.reactions[q][w] = h.reactions[q][w]
      BY <1>2, <1>3, <1>9, OutcomeStates DEF ThenEffect
    <3>2. QED
      BY <1>2, <1>9, <3>1 DEF OrderInv
  <2>3. \A n \in h.ran[q] + 1 .. h.count[q] :
            \E i \in JobsOf(g) : IsReaction(g, i, q) /\ g.jobs[i].no = n
    BY <1>2, <1>4, <1>9 DEF OrderInv, IsReaction
  <2>4. CASE q # p
    BY <1>2, <2>1, <2>2, <2>3, <2>4
  <2>5. CASE q = p
    <3>1. \A n \in h.ran[q] + 1 .. c + 1 : n \in h.ran[q] + 1 .. h.count[q] \/ n = c + 1
      BY <2>1, <2>5 DEF c
    <3>2. g.count[q] = c + 1 /\ g.ran[q] = h.ran[q] /\ h.ran[q] <= c + 1
      BY <1>2, <2>1, <2>5 DEF c
    <3>3. QED
      BY <1>2, <1>7, <1>9, <2>2, <2>3, <2>5, <3>1, <3>2
  <2>6. QED
    BY <2>4, <2>5
<1>10. ASSUME NEW i \in JobsOf(g), g.jobs[i].kind = "reaction"
       PROVE  /\ g.state[g.jobs[i].on] = Outcome(g.jobs[i].way)
              /\ g.jobs[i].no \in g.ran[g.jobs[i].on] + 1 .. g.count[g.jobs[i].on]
  <2>1. CASE i \in JobsOf(h)
    <3> DEFINE q == g.jobs[i].on
    <3>1. /\ q \in PromisesOf(h) /\ h.state[q] = Outcome(g.jobs[i].way)
          /\ g.jobs[i].no \in h.ran[q] + 1 .. h.count[q]
      BY <1>4, <1>10, <2>1 DEF OrderInv, RefInv, RefOK
    <3> HIDE DEF q
    <3>2. h.ran[q] \in Nat /\ h.count[q] \in Nat /\ (q = p => h.count[q] = c)
      BY <3>1, PromiseTypes DEF c
    <3>3. g.jobs[i].no \in g.ran[q] + 1 .. g.count[q]
      BY <1>2, <3>1, <3>2
    <3>4. QED
      BY <1>2, <3>1, <3>3 DEF q
  <2>2. CASE i \notin JobsOf(h)
    <3>1. h.ran[p] <= c
      BY <1>5, <2>2 DEF OrderInv, c
    <3>2. c + 1 \in h.ran[p] + 1 .. c + 1
      BY <1>3, <3>1
    <3>3. QED
      BY <1>2, <1>5, <2>2, <3>2
  <2>3. QED
    BY <2>1, <2>2
<1>11. ASSUME NEW i \in JobsOf(g), NEW j \in JobsOf(g), i < j,
              IsReaction(g, i, g.jobs[j].on), g.jobs[j].kind = "reaction"
       PROVE  g.jobs[i].no < g.jobs[j].no
  <2>1. CASE i \in JobsOf(h) /\ j \in JobsOf(h)
    BY <1>4, <1>11, <2>1 DEF OrderInv, IsReaction
  <2>2. CASE i \in JobsOf(h) /\ j \notin JobsOf(h)
    <3>1. g.jobs[i].no \in h.ran[p] + 1 .. c /\ g.jobs[j].no = c + 1
      BY <1>4, <1>5, <1>11, <2>2 DEF OrderInv, IsReaction, c
    <3>2. QED
      BY <1>3, <3>1
  <2>3. CASE i \notin JobsOf(h)
    <3>1. i = Len(h.jobs) + 1 /\ Len(h.jobs) \in Nat
      BY <1>5, <2>3, ShapeLengths DEF Lengths
    <3>2. j \notin JobsOf(h)
      BY <1>6, <1>11, <3>1
    <3>3. j = Len(h.jobs) + 1
      BY <1>5, <3>2
    <3>4. QED
      BY <1>11, <3>1, <3>3
  <2>4. QED
    BY <2>1, <2>2, <2>3
<1>12. QED
  BY <1>8, <1>9, <1>10, <1>11 DEF OrderInv

LEMMA TakeOrder ==
    ASSUME NEW h, NEW g, Shape(h), RefInv(h), OrderInv(h), TakeEffect(h, g)
    PROVE  OrderInv(g)
<1> DEFINE p == h.jobs[1].on
           takes == h.jobs[1].kind = "reaction"
<1>1. /\ 1 \in JobsOf(h)
      /\ \A i \in JobsOf(g) : i + 1 \in JobsOf(h) /\ g.jobs[i] = h.jobs[i + 1]
      /\ \A i \in JobsOf(h) : i # 1 => i - 1 \in JobsOf(g) /\ g.jobs[i - 1] = h.jobs[i]
  BY TakeRef
<1>2. /\ PromisesOf(g) = PromisesOf(h) /\ g.state = h.state /\ g.reactions = h.reactions
      /\ g.count = h.count /\ \A q, w : ListOf(g, q, w) = ListOf(h, q, w)
      /\ \A q \in PromisesOf(h) : g.ran[q] = IF q = p /\ takes THEN h.ran[q] + 1 ELSE h.ran[q]
  BY DEF TakeEffect, PromisesOf, ListOf
<1>3. p \in PromisesOf(h)
  BY <1>1 DEF RefInv, RefOK
<1>4. /\ \A i \in JobsOf(h) : i \in Nat \ {0}
      /\ \A i \in JobsOf(g) : i \in Nat \ {0}
  BY DEF JobsOf
<1> HIDE DEF p
<1>5. takes =>
        /\ h.state[p] # "pending" /\ h.jobs[1].no = h.ran[p] + 1
        /\ h.ran[p] \in Nat /\ h.count[p] \in Nat /\ h.ran[p] + 1 <= h.count[p]
        /\ \A i \in JobsOf(h) : i # 1 /\ IsReaction(h, i, p) => h.jobs[i].no # h.ran[p] + 1
  <2> SUFFICES ASSUME takes
               PROVE  /\ h.state[p] # "pending" /\ h.jobs[1].no = h.ran[p] + 1
                      /\ h.ran[p] \in Nat /\ h.count[p] \in Nat /\ h.ran[p] + 1 <= h.count[p]
                      /\ \A i \in JobsOf(h) :
                            i # 1 /\ IsReaction(h, i, p) => h.jobs[i].no # h.ran[p] + 1
    OBVIOUS
  <2>1. /\ h.jobs[1].no \in h.ran[p] + 1 .. h.count[p]
        /\ h.state[p] = Outcome(h.jobs[1].way)
    BY <1>1 DEF OrderInv, p
  <2>2. h.state[p] # "pending" /\ h.ran[p] \in Nat /\ h.count[p] \in Nat
    BY <1>1, <1>3, <2>1, JobTypes, OutcomeStates, PromiseTypes
  <2>3. h.ran[p] + 1 \in h.ran[p] + 1 .. h.count[p] /\ h.jobs[1].no \in Nat
    BY <2>1, <2>2
  <2>4. PICK i \in JobsOf(h) : IsReaction(h, i, p) /\ h.jobs[i].no = h.ran[p] + 1
    BY <1>3, <2>2, <2>3 DEF OrderInv
  <2>5. \A j \in JobsOf(h) : j # 1 /\ IsReaction(h, j, p) => h.jobs[1].no < h.jobs[j].no
    <3> SUFFICES ASSUME NEW j \in JobsOf(h), j # 1, IsReaction(h, j, p)
                 PROVE  h.jobs[1].no < h.jobs[j].no
      OBVIOUS
    <3>1. 1 < j
      BY <1>4
    <3>2. IsReaction(h, 1, h.jobs[j].on) /\ h.jobs[j].kind = "reaction"
      BY DEF IsReaction, p
    <3>3. QED
      BY <1>1, <3>1, <3>2 DEF OrderInv
  <2>6. h.jobs[1].no = h.ran[p] + 1
    BY <2>1, <2>2, <2>3, <2>4, <2>5
  <2>7. QED
    BY <2>1, <2>2, <2>3, <2>5, <2>6
<1> HIDE DEF takes
<1>6. \A q \in PromisesOf(g) : g.state[q] = "pending" =>
          /\ g.ran[q] = 0
          /\ \A w \in Ways : /\ Len(g.reactions[q][w]) = g.count[q]
                             /\ \A i \in ListOf(g, q, w) : g.reactions[q][w][i].no = i
  BY <1>2, <1>5 DEF OrderInv
<1>7. ASSUME NEW q \in PromisesOf(g), g.state[q] # "pending"
      PROVE  /\ g.ran[q] <= g.count[q]
             /\ \A w \in Ways : g.reactions[q][w] = <<>>
             /\ \A n \in g.ran[q] + 1 .. g.count[q] :
                   \E i \in JobsOf(g) : IsReaction(g, i, q) /\ g.jobs[i].no = n
  <2>1. g.ran[q] <= g.count[q] /\ \A w \in Ways : g.reactions[q][w] = <<>>
    BY <1>2, <1>5, <1>7 DEF OrderInv
  <2>2. ASSUME NEW n \in g.ran[q] + 1 .. g.count[q]
        PROVE  \E i \in JobsOf(g) : IsReaction(g, i, q) /\ g.jobs[i].no = n
    <3>1. h.ran[q] \in Nat /\ h.count[q] \in Nat
      BY <1>2, PromiseTypes
    <3>2. n \in h.ran[q] + 1 .. h.count[q] /\ (q = p /\ takes => n # h.ran[q] + 1)
      BY <1>2, <3>1
    <3>3. PICK i \in JobsOf(h) : IsReaction(h, i, q) /\ h.jobs[i].no = n
      BY <1>2, <1>7, <3>2 DEF OrderInv
    <3>4. i # 1
      BY <1>5, <3>2, <3>3 DEF IsReaction, p, takes
    <3>5. i - 1 \in JobsOf(g) /\ IsReaction(g, i - 1, q) /\ g.jobs[i - 1].no = n
      BY <1>1, <3>3, <3>4 DEF IsReaction
    <3>6. QED
      BY <3>5
  <2>3. QED
    BY <2>1, <2>2
<1>8. ASSUME NEW i \in JobsOf(g), g.jobs[i].kind = "reaction"
      PROVE  /\ g.state[g.jobs[i].on] = Outcome(g.jobs[i].way)
             /\ g.jobs[i].no \in g.ran[g.jobs[i].on] + 1 .. g.count[g.jobs[i].on]
  <2> DEFINE q == g.jobs[i].on
             n == g.jobs[i].no
  <2>1. i + 1 \in JobsOf(h) /\ g.jobs[i] = h.jobs[i + 1] /\ i + 1 # 1
    BY <1>1, <1>4
  <2>2. /\ q \in PromisesOf(h) /\ g.state[q] = Outcome(g.jobs[i].way)
        /\ n \in h.ran[q] + 1 .. h.count[q]
        /\ IsReaction(h, i + 1, q) /\ n = h.jobs[i + 1].no
    BY <1>2, <1>8, <2>1 DEF OrderInv, RefInv, RefOK, IsReaction
  <2>3. h.ran[q] \in Nat /\ h.count[q] \in Nat
    BY <2>2, PromiseTypes
  <2> HIDE DEF q, n
  <2>4. q = p /\ takes => n # h.ran[q] + 1
    BY <1>5, <2>1, <2>2
  <2>5. n \in g.ran[q] + 1 .. g.count[q]
    BY <1>2, <2>2, <2>3, <2>4
  <2>6. QED
    BY <2>2, <2>5 DEF q, n
<1>9. ASSUME NEW i \in JobsOf(g), NEW j \in JobsOf(g), i < j,
             IsReaction(g, i, g.jobs[j].on), g.jobs[j].kind = "reaction"
      PROVE  g.jobs[i].no < g.jobs[j].no
  <2>1. /\ i + 1 \in JobsOf(h) /\ g.jobs[i] = h.jobs[i + 1] /\ i + 1 < j + 1
        /\ j + 1 \in JobsOf(h) /\ g.jobs[j] = h.jobs[j + 1]
    BY <1>1, <1>4, <1>9
  <2>2. IsReaction(h, i + 1, h.jobs[j + 1].on) /\ h.jobs[j + 1].kind = "reaction"
    BY <1>9, <2>1 DEF IsReaction
  <2>3. QED
    BY <2>1, <2>2 DEF OrderInv
<1>10. QED
  BY <1>6, <1>7, <1>8, <1>9 DEF OrderInv

-----------------------------------------------------------------------------
(***************************************************************************)
(* ContInv: the continuations of async functions.                          *)
(***************************************************************************)
\* The parts of ContInv for function f: its continuations in lists and jobs.
InLists(h, f) ==
    \A p \in PromisesOf(h), w, v \in Ways : \A i \in ListOf(h, p, w) :
        Goes(h.reactions[p][w][i], f) =>
            /\ h.fn[f].state = "suspended"
            /\ i \in ListOf(h, p, v) /\ Goes(h.reactions[p][v][i], f)
            /\ \A q \in PromisesOf(h) : \A j \in ListOf(h, q, w) :
                  Goes(h.reactions[q][w][j], f) => q = p /\ j = i
            /\ \A j \in JobsOf(h) : ~Goes(h.jobs[j], f)

InJobs(h, f) ==
    \A i \in JobsOf(h) : Goes(h.jobs[i], f) =>
        /\ h.fn[f].state = "suspended"
        /\ \A j \in JobsOf(h) : Goes(h.jobs[j], f) => j = i

Somewhere(h, f) ==
    h.fn[f].state = "suspended" =>
        \/ \E p \in PromisesOf(h) : \E i \in ListOf(h, p, 0) : Goes(h.reactions[p][0][i], f)
        \/ \E i \in JobsOf(h) : Goes(h.jobs[i], f)

LEMMA ContParts ==
    ASSUME NEW h
    PROVE  ContInv(h) <=> \A f \in FnsOf(h) : InLists(h, f) /\ InJobs(h, f) /\ Somewhere(h, f)
BY DEF ContInv, InLists, InJobs, Somewhere

LEMMA SettleCont ==
    ASSUME NEW h, NEW g, Shape(h), ContInv(h), NEW p \in PromisesOf(h),
           NEW u \in Ways, SettleEffect(h, g, p, u)
    PROVE  ContInv(g)
<1>1. /\ PromisesOf(g) = PromisesOf(h) /\ g.fn = h.fn /\ FnsOf(g) = FnsOf(h)
      /\ \A q \in PromisesOf(h), w \in Ways :
            g.reactions[q][w] = IF q = p THEN <<>> ELSE h.reactions[q][w]
  BY DEF SettleEffect, PromisesOf, FnsOf
<1>2. \A q \in PromisesOf(h), w \in Ways : \A i \in ListOf(g, q, w) :
          q # p /\ i \in ListOf(h, q, w) /\ g.reactions[q][w] = h.reactions[q][w]
  BY <1>1 DEF ListOf
<1>3. \A q \in PromisesOf(h), w \in Ways : \A i \in ListOf(h, q, w) :
          q # p => i \in ListOf(g, q, w) /\ g.reactions[q][w] = h.reactions[q][w]
  BY <1>1 DEF ListOf
<1>4. SettleAdds(h, g, p, u)
  BY SettleJobs
<1>5. \A i \in JobsOf(g) :
          \/ i \in JobsOf(h) /\ g.jobs[i] = h.jobs[i]
          \/ \E n \in ListOf(h, p, u) : /\ i = Len(h.jobs) + n
                                        /\ g.jobs[i].handler = h.reactions[p][u][n].handler
  BY <1>4, ReactionJobFields DEF SettleAdds
<1>6. /\ \A i \in JobsOf(h) : i \in JobsOf(g) /\ g.jobs[i] = h.jobs[i]
      /\ \A n \in ListOf(h, p, u) :
            /\ Len(h.jobs) + n \in JobsOf(g)
            /\ g.jobs[Len(h.jobs) + n].handler = h.reactions[p][u][n].handler
  BY <1>4, ReactionJobFields DEF SettleAdds, SettleEffect
<1> SUFFICES ASSUME NEW f \in FnsOf(h)
             PROVE  InLists(g, f) /\ InJobs(g, f) /\ Somewhere(g, f)
  BY <1>1, ContParts
<1>7. InLists(h, f) /\ InJobs(h, f) /\ Somewhere(h, f)
  BY ContParts
<1>8. InLists(g, f)
  <2> SUFFICES ASSUME NEW q \in PromisesOf(h), NEW w \in Ways, NEW v \in Ways,
                      NEW i \in ListOf(g, q, w), Goes(g.reactions[q][w][i], f)
               PROVE  /\ g.fn[f].state = "suspended"
                      /\ i \in ListOf(g, q, v) /\ Goes(g.reactions[q][v][i], f)
                      /\ \A o \in PromisesOf(g) : \A j \in ListOf(g, o, w) :
                            Goes(g.reactions[o][w][j], f) => o = q /\ j = i
                      /\ \A j \in JobsOf(g) : ~Goes(g.jobs[j], f)
    BY <1>1 DEF InLists
  <2>1. q # p /\ i \in ListOf(h, q, w) /\ Goes(h.reactions[q][w][i], f)
    BY <1>2
  <2>2. /\ h.fn[f].state = "suspended"
        /\ \A t \in Ways : i \in ListOf(h, q, t) /\ Goes(h.reactions[q][t][i], f)
        /\ \A j \in JobsOf(h) : ~Goes(h.jobs[j], f)
    BY <1>7, <2>1 DEF InLists
  <2>3. \A t \in Ways : \A o \in PromisesOf(h) : \A j \in ListOf(h, o, t) :
            Goes(h.reactions[o][t][j], f) => o = q /\ j = i
    BY <1>7, <2>2 DEF InLists
  <2>4. i \in ListOf(g, q, v) /\ Goes(g.reactions[q][v][i], f)
    BY <1>3, <2>1, <2>2
  <2>5. \A o \in PromisesOf(g) : \A j \in ListOf(g, o, w) :
            Goes(g.reactions[o][w][j], f) => o = q /\ j = i
    BY <1>1, <1>2, <2>3
  <2>6. \A j \in JobsOf(g) : ~Goes(g.jobs[j], f)
    BY <1>5, <2>1, <2>2, <2>3 DEF Goes
  <2>7. QED
    BY <1>1, <2>2, <2>4, <2>5, <2>6
<1>9. InJobs(g, f)
  <2> SUFFICES ASSUME NEW i \in JobsOf(g), Goes(g.jobs[i], f)
               PROVE  /\ g.fn[f].state = "suspended"
                      /\ \A j \in JobsOf(g) : Goes(g.jobs[j], f) => j = i
    BY DEF InJobs
  <2>1. CASE i \in JobsOf(h) /\ g.jobs[i] = h.jobs[i]
    <3>1. h.fn[f].state = "suspended" /\ \A j \in JobsOf(h) : Goes(h.jobs[j], f) => j = i
      BY <1>7, <2>1 DEF InJobs
    <3>2. \A n \in ListOf(h, p, u) : ~Goes(h.reactions[p][u][n], f)
      BY <1>7, <2>1 DEF InLists
    <3>3. QED
      BY <1>1, <1>5, <3>1, <3>2 DEF Goes
  <2>2. CASE \E n \in ListOf(h, p, u) : /\ i = Len(h.jobs) + n
                                        /\ g.jobs[i].handler = h.reactions[p][u][n].handler
    <3>1. PICK n \in ListOf(h, p, u) : /\ i = Len(h.jobs) + n
                                       /\ g.jobs[i].handler = h.reactions[p][u][n].handler
      BY <2>2
    <3>2. Goes(h.reactions[p][u][n], f)
      BY <3>1 DEF Goes
    <3>3. /\ h.fn[f].state = "suspended"
          /\ \A j \in ListOf(h, p, u) : Goes(h.reactions[p][u][j], f) => j = n
          /\ \A j \in JobsOf(h) : ~Goes(h.jobs[j], f)
      BY <1>7, <3>2 DEF InLists
    <3>4. QED
      BY <1>1, <1>5, <3>1, <3>3 DEF Goes
  <2>3. QED
    BY <1>5, <2>1, <2>2
<1>10. Somewhere(g, f)
  <2> SUFFICES ASSUME h.fn[f].state = "suspended"
               PROVE  \/ \E q \in PromisesOf(g) : \E i \in ListOf(g, q, 0) :
                            Goes(g.reactions[q][0][i], f)
                      \/ \E i \in JobsOf(g) : Goes(g.jobs[i], f)
    BY <1>1 DEF Somewhere
  <2>1. CASE \E i \in JobsOf(h) : Goes(h.jobs[i], f)
    BY <1>6, <2>1
  <2>2. CASE \E q \in PromisesOf(h) : \E i \in ListOf(h, q, 0) : Goes(h.reactions[q][0][i], f)
    <3>1. PICK q \in PromisesOf(h) : \E i \in ListOf(h, q, 0) : Goes(h.reactions[q][0][i], f)
      BY <2>2
    <3>2. PICK i \in ListOf(h, q, 0) : Goes(h.reactions[q][0][i], f)
      BY <3>1
    <3>3. 0 \in Ways
      BY DEF Ways
    <3>4. CASE q # p
      BY <1>1, <1>3, <3>2, <3>3, <3>4
    <3>5. CASE q = p
      <4>1. i \in ListOf(h, p, u) /\ Goes(h.reactions[p][u][i], f)
        BY <1>7, <3>2, <3>3, <3>5 DEF InLists
      <4>2. Len(h.jobs) + i \in JobsOf(g) /\ Goes(g.jobs[Len(h.jobs) + i], f)
        BY <1>6, <4>1 DEF Goes
      <4>3. QED
        BY <4>2
    <3>6. QED
      BY <3>4, <3>5
  <2>3. QED
    BY <1>7, <2>1, <2>2 DEF Somewhere
<1>11. QED
  BY <1>8, <1>9, <1>10

\* Nothing was added or removed that continues a function.
LEMMA KeepCont ==
    ASSUME NEW h, NEW g, ContInv(h), NEW f \in FnsOf(h),
           (g.fn[f].state = "suspended") <=> (h.fn[f].state = "suspended"),
           PromisesOf(h) \subseteq PromisesOf(g),
           \A q \in PromisesOf(h), w \in Ways : \A i \in ListOf(h, q, w) :
              i \in ListOf(g, q, w) /\ g.reactions[q][w][i] = h.reactions[q][w][i],
           \A q \in PromisesOf(g), w \in Ways : \A i \in ListOf(g, q, w) :
              Goes(g.reactions[q][w][i], f) => q \in PromisesOf(h) /\ i \in ListOf(h, q, w),
           \A i \in JobsOf(h) : i \in JobsOf(g) /\ g.jobs[i] = h.jobs[i],
           \A i \in JobsOf(g) : Goes(g.jobs[i], f) => i \in JobsOf(h)
    PROVE  InLists(g, f) /\ InJobs(g, f) /\ Somewhere(g, f)
<1>1. InLists(h, f) /\ InJobs(h, f) /\ Somewhere(h, f)
  BY ContParts
<1>2. InLists(g, f)
  <2> SUFFICES ASSUME NEW q \in PromisesOf(g), NEW w \in Ways, NEW v \in Ways,
                      NEW i \in ListOf(g, q, w), Goes(g.reactions[q][w][i], f)
               PROVE  /\ g.fn[f].state = "suspended"
                      /\ i \in ListOf(g, q, v) /\ Goes(g.reactions[q][v][i], f)
                      /\ \A o \in PromisesOf(g) : \A j \in ListOf(g, o, w) :
                            Goes(g.reactions[o][w][j], f) => o = q /\ j = i
                      /\ \A j \in JobsOf(g) : ~Goes(g.jobs[j], f)
    BY DEF InLists
  <2>1. q \in PromisesOf(h) /\ i \in ListOf(h, q, w) /\ Goes(h.reactions[q][w][i], f)
    OBVIOUS
  <2>2. /\ h.fn[f].state = "suspended"
        /\ i \in ListOf(h, q, v) /\ Goes(h.reactions[q][v][i], f)
        /\ \A o \in PromisesOf(h) : \A j \in ListOf(h, o, w) :
              Goes(h.reactions[o][w][j], f) => o = q /\ j = i
        /\ \A j \in JobsOf(h) : ~Goes(h.jobs[j], f)
    BY <1>1, <2>1 DEF InLists
  <2>3. QED
    BY <2>1, <2>2
<1>3. InJobs(g, f)
  BY <1>1 DEF InJobs
<1>4. Somewhere(g, f)
  <2>1. 0 \in Ways
    BY DEF Ways
  <2>2. QED
    BY <1>1, <2>1 DEF Somewhere
<1>5. QED
  BY <1>2, <1>3, <1>4

LEMMA AdoptCont ==
    ASSUME NEW h, NEW g, Shape(h), ContInv(h), NEW r, NEW v, AdoptEffect(h, g, r, v)
    PROVE  ContInv(g)
<1>1. /\ PromisesOf(g) = PromisesOf(h) /\ g.fn = h.fn /\ FnsOf(g) = FnsOf(h)
      /\ g.reactions = h.reactions /\ \A q, w : ListOf(g, q, w) = ListOf(h, q, w)
  BY DEF AdoptEffect, PromisesOf, FnsOf, ListOf
<1>2. /\ \A i \in JobsOf(h) : i \in JobsOf(g) /\ g.jobs[i] = h.jobs[i]
      /\ \A i \in JobsOf(g) : i \in JobsOf(h) \/ g.jobs[i].handler.kind = "none"
  BY AdoptJobs, ThenableJobFields
<1>3. \A f \in FnsOf(g) : InLists(g, f) /\ InJobs(g, f) /\ Somewhere(g, f)
  BY <1>1, <1>2, KeepCont DEF Goes
<1>4. QED
  BY <1>3, ContParts

LEMMA CallCont ==
    ASSUME NEW h, NEW g, Shape(h), RefInv(h), ContInv(h), NEW r \in PairsOf(h), NEW w, NEW v,
           CallEffect(h, g, r, w, v)
    PROVE  ContInv(g)
<1>1. CASE g = h
  BY <1>1
<1>2. CASE \E u \in Ways : SettleEffect(h, g, h.pair[r], u)
  BY <1>2, SettleCont DEF RefInv
<1>3. CASE AdoptEffect(h, g, r, v)
  BY <1>3, AdoptCont
<1>4. QED
  BY <1>1, <1>2, <1>3 DEF CallEffect

LEMMA CapabilityCont ==
    ASSUME NEW h, NEW g, Shape(h), ContInv(h), CapabilityEffect(h, g)
    PROVE  ContInv(g)
<1> DEFINE n == Len(h.state) + 1
<1>1. CapabilityAdds(h, g)
  BY CapabilityLists
<1>2. /\ PromisesOf(g) = PromisesOf(h) \cup {n} /\ \A w \in Ways : ListOf(g, n, w) = {}
      /\ \A q \in PromisesOf(h) : g.reactions[q] = h.reactions[q]
  BY <1>1 DEF CapabilityAdds
<1>3. g.jobs = h.jobs /\ JobsOf(g) = JobsOf(h) /\ g.fn = h.fn /\ FnsOf(g) = FnsOf(h)
  BY DEF CapabilityEffect, JobsOf, FnsOf
<1>4. \A q \in PromisesOf(h), w \in Ways : ListOf(g, q, w) = ListOf(h, q, w)
  BY <1>2 DEF ListOf
<1> HIDE DEF n
<1>5. \A f \in FnsOf(g) : InLists(g, f) /\ InJobs(g, f) /\ Somewhere(g, f)
  BY <1>2, <1>3, <1>4, KeepCont
<1>6. QED
  BY <1>5, ContParts

LEMMA ThenCont ==
    ASSUME NEW h, NEW g, Shape(h), ContInv(h), NEW p \in PromisesOf(h), NEW on, NEW cap,
           ThenEffect(h, g, p, on, cap), \A w \in Ways : on[w].kind # "await"
    PROVE  ContInv(g)
<1>1. ThenAdds(h, g, p, on, cap)
  BY ThenLists
<1>2. PromisesOf(g) = PromisesOf(h) /\ g.fn = h.fn /\ FnsOf(g) = FnsOf(h)
  BY DEF ThenEffect, PromisesOf, FnsOf
<1>3. \A w : NewReaction(h, p, on, cap, w).handler = on[w]
  BY DEF NewReaction
<1>4. ASSUME NEW f \in FnsOf(g)
      PROVE  InLists(g, f) /\ InJobs(g, f) /\ Somewhere(g, f)
  <2>1. /\ \A q \in PromisesOf(h), w \in Ways : \A i \in ListOf(h, q, w) :
              i \in ListOf(g, q, w) /\ g.reactions[q][w][i] = h.reactions[q][w][i]
        /\ \A i \in JobsOf(h) : i \in JobsOf(g) /\ g.jobs[i] = h.jobs[i]
    BY <1>1 DEF ThenAdds
  <2>2. \A q \in PromisesOf(g), w \in Ways : \A i \in ListOf(g, q, w) :
            Goes(g.reactions[q][w][i], f) => q \in PromisesOf(h) /\ i \in ListOf(h, q, w)
    BY <1>1, <1>2, <1>3 DEF ThenAdds, Goes
  <2>3. \A i \in JobsOf(g) : Goes(g.jobs[i], f) => i \in JobsOf(h)
    BY <1>1, <1>3, ReactionJobFields DEF ThenAdds, Goes
  <2>4. QED
    BY <1>2, <2>1, <2>2, <2>3, KeepCont
<1>5. QED
  BY <1>4, ContParts

\* The functions that are suspended are those that were.
FnsKeep(h, g) ==
    \A f \in FnsOf(g) :
        IF f \in FnsOf(h)
        THEN (g.fn[f].state = "suspended") <=> (h.fn[f].state = "suspended")
        ELSE g.fn[f].state # "suspended"

\* A function begins, goes on or ends: nobody waits for it.
LEMMA FnCont ==
    ASSUME NEW h, NEW g, RefInv(h), ContInv(h), g.state = h.state,
           g.reactions = h.reactions, g.jobs = h.jobs, FnsKeep(h, g)
    PROVE  ContInv(g)
<1> USE DEF FnsKeep
<1>1. /\ PromisesOf(g) = PromisesOf(h) /\ \A q, w : ListOf(g, q, w) = ListOf(h, q, w)
      /\ JobsOf(g) = JobsOf(h)
  BY DEF PromisesOf, ListOf, JobsOf
<1>2. ASSUME NEW f \in FnsOf(g), f \notin FnsOf(h)
      PROVE  InLists(g, f) /\ InJobs(g, f) /\ Somewhere(g, f)
  <2>1. \A q \in PromisesOf(h), w \in Ways : \A i \in ListOf(h, q, w) :
            ~Goes(h.reactions[q][w][i], f)
    BY SMTT(30), <1>2 DEF RefInv, RefOK, HandlerOK, Goes
  <2>2. \A i \in JobsOf(h) : ~Goes(h.jobs[i], f)
    BY <1>2 DEF RefInv, RefOK, HandlerOK, Goes
  <2>3. QED
    BY <1>1, <1>2, <2>1, <2>2 DEF InLists, InJobs, Somewhere
<1>3. ASSUME NEW f \in FnsOf(g), f \in FnsOf(h)
      PROVE  InLists(g, f) /\ InJobs(g, f) /\ Somewhere(g, f)
  BY <1>1, <1>3, KeepCont
<1>4. QED
  BY <1>2, <1>3, ContParts

\* Reactions that continue no running function.
LEMMA RunningHasNone ==
    ASSUME NEW h, ContInv(h), NEW f \in FnsOf(h), h.fn[f].state # "suspended"
    PROVE  /\ \A q \in PromisesOf(h), w \in Ways : \A i \in ListOf(h, q, w) :
                 ~Goes(h.reactions[q][w][i], f)
           /\ \A i \in JobsOf(h) : ~Goes(h.jobs[i], f)
BY DEF ContInv

\* Function f0 changes its state to s, the others do not.
FnTurns(h, g, f0, s) ==
    /\ FnsOf(g) = FnsOf(h) /\ g.fn[f0].state = s
    /\ \A f \in FnsOf(h) : f # f0 => g.fn[f] = h.fn[f]

\* js_async_function_resume at an await: k is h with the function suspended,
\* g is k after the call of then.
Suspends(h, k, f0) ==
    /\ f0 \in FnsOf(h) /\ h.fn[f0].state = "running"
    /\ k.state = h.state /\ k.reactions = h.reactions /\ k.jobs = h.jobs
    /\ FnTurns(h, k, f0, "suspended")

Waits(k, g, p, on, cap, f0) ==
    /\ p \in PromisesOf(k) /\ ThenEffect(k, g, p, on, cap)
    /\ \A w \in Ways : on[w].kind = "await" /\ on[w].a = f0

LEMMA AwaitCont ==
    ASSUME NEW h, NEW k, NEW g, ContInv(h), Shape(k), OrderInv(k), NEW f0, Suspends(h, k, f0),
           NEW p, NEW on, NEW cap, Waits(k, g, p, on, cap, f0)
    PROVE  ContInv(g)
<1> USE DEF Suspends, Waits
<1> USE DEF FnTurns
<1>1. ThenAdds(k, g, p, on, cap)
  BY ThenLists
<1>2. /\ PromisesOf(k) = PromisesOf(h) /\ \A q, w : ListOf(k, q, w) = ListOf(h, q, w)
      /\ JobsOf(k) = JobsOf(h)
  BY DEF PromisesOf, ListOf, JobsOf
<1>3. PromisesOf(g) = PromisesOf(h) /\ g.fn = k.fn /\ FnsOf(g) = FnsOf(h)
  BY <1>2 DEF ThenEffect, PromisesOf, FnsOf
<1>4. \A w : NewReaction(k, p, on, cap, w).handler = on[w]
  BY DEF NewReaction
<1>5. /\ \A q \in PromisesOf(h), w \in Ways : \A i \in ListOf(h, q, w) :
            i \in ListOf(g, q, w) /\ g.reactions[q][w][i] = h.reactions[q][w][i]
      /\ \A i \in JobsOf(h) : i \in JobsOf(g) /\ g.jobs[i] = h.jobs[i]
  BY <1>1, <1>2 DEF ThenAdds
<1>6. \A q \in PromisesOf(h), w \in Ways : \A i \in ListOf(g, q, w) \ ListOf(h, q, w) :
          /\ q = p /\ h.state[p] = "pending" /\ i = Len(h.reactions[p][w]) + 1
          /\ g.reactions[q][w][i].handler = on[w]
  BY <1>1, <1>2, <1>4 DEF ThenAdds
<1>7. \A i \in JobsOf(g) \ JobsOf(h) :
          /\ h.state[p] # "pending" /\ i = Len(h.jobs) + 1
          /\ \E w \in Ways : g.jobs[i].handler = on[w]
  BY <1>1, <1>2, <1>4, ReactionJobFields, OutcomeStates DEF ThenAdds
<1>8. ASSUME NEW f \in FnsOf(g), f # f0
      PROVE  InLists(g, f) /\ InJobs(g, f) /\ Somewhere(g, f)
  <2>1. /\ \A q \in PromisesOf(g), w \in Ways : \A i \in ListOf(g, q, w) :
              Goes(g.reactions[q][w][i], f) => q \in PromisesOf(h) /\ i \in ListOf(h, q, w)
        /\ \A i \in JobsOf(g) : Goes(g.jobs[i], f) => i \in JobsOf(h)
    BY <1>3, <1>6, <1>7, <1>8 DEF Goes
  <2>2. f \in FnsOf(h) /\ g.fn[f] = h.fn[f] /\ PromisesOf(h) \subseteq PromisesOf(g)
    BY <1>3, <1>8
  <2>3. QED
    BY <1>5, <2>1, <2>2, KeepCont
<1>9. InLists(g, f0) /\ InJobs(g, f0) /\ Somewhere(g, f0)
  <2>1. /\ \A q \in PromisesOf(h), w \in Ways : \A i \in ListOf(h, q, w) :
              ~Goes(h.reactions[q][w][i], f0)
        /\ \A i \in JobsOf(h) : ~Goes(h.jobs[i], f0)
    BY RunningHasNone
  <2>2. CASE h.state[p] = "pending"
    <3>1. \A w \in Ways : Len(h.reactions[p][w]) = k.count[p]
      BY <2>2 DEF OrderInv
    <3> DEFINE m == k.count[p] + 1
    <3>2. \A w \in Ways : m \in ListOf(g, p, w) /\ Goes(g.reactions[p][w][m], f0)
      <4> SUFFICES ASSUME NEW w \in Ways
                   PROVE  m \in ListOf(g, p, w) /\ Goes(g.reactions[p][w][m], f0)
        OBVIOUS
      <4>1. Adds(k.reactions[p][w], g.reactions[p][w], NewReaction(k, p, on, cap, w))
        BY <2>2 DEF ThenEffect
      <4>2. Len(k.reactions[p][w]) \in Nat /\ Len(k.reactions[p][w]) = k.count[p]
        BY <3>1, ShapeLengths DEF Lengths
      <4>3. m \in 1..Len(g.reactions[p][w]) /\ g.reactions[p][w][m] = NewReaction(k, p, on, cap, w)
        BY <4>1, <4>2, AddsFacts
      <4>4. QED
        BY <1>4, <4>3 DEF ListOf, Goes
    <3>3. \A q \in PromisesOf(g), w \in Ways : \A i \in ListOf(g, q, w) :
              Goes(g.reactions[q][w][i], f0) => q = p /\ i = m
      BY <1>3, <1>5, <1>6, <2>1, <3>1
    <3>4. \A i \in JobsOf(g) : ~Goes(g.jobs[i], f0)
      BY <1>5, <1>7, <2>1, <2>2
    <3> HIDE DEF m
    <3>5. InLists(g, f0) /\ InJobs(g, f0)
      BY <1>3, <3>2, <3>3, <3>4 DEF InLists, InJobs
    <3>6. Somewhere(g, f0)
      <4>1. p \in PromisesOf(g) /\ m \in ListOf(g, p, 0) /\ Goes(g.reactions[p][0][m], f0)
        BY <1>2, <1>3, <3>2 DEF Ways
      <4>2. QED
        BY <4>1 DEF Somewhere
    <3>7. QED
      BY <3>5, <3>6
  <2>3. CASE h.state[p] # "pending"
    <3>1. \A q \in PromisesOf(g), w \in Ways : \A i \in ListOf(g, q, w) :
              ~Goes(g.reactions[q][w][i], f0)
      BY <1>3, <1>5, <1>6, <2>1, <2>3
    <3>2. PICK w \in Ways : k.state[p] = Outcome(w)
      BY <2>3, PromiseTypes, OutcomeStates
    <3>3. Adds(k.jobs, g.jobs, ReactionJob(NewReaction(k, p, on, cap, w), w, Plain))
      BY <3>2 DEF ThenEffect
    <3> DEFINE m == Len(k.jobs) + 1
    <3>4. /\ m \in JobsOf(g)
          /\ g.jobs[m] = ReactionJob(NewReaction(k, p, on, cap, w), w, Plain)
      BY <3>3, ShapeLengths, AddsFacts DEF JobsOf, Lengths
    <3>5. Goes(g.jobs[m], f0)
      BY <1>4, <3>4, ReactionJobFields DEF Goes
    <3>6. \A i \in JobsOf(g) : Goes(g.jobs[i], f0) => i = m
      BY <1>5, <1>7, <2>1
    <3> HIDE DEF m
    <3>7. QED
      BY <1>3, <3>1, <3>4, <3>5, <3>6 DEF InLists, InJobs, Somewhere
  <2>4. QED
    BY <2>2, <2>3
<1>10. QED
  BY <1>3, <1>8, <1>9, ContParts

\* The first job is taken, one that does not continue f.
LEMMA ShiftCont ==
    ASSUME NEW h, NEW k, NEW g, Shape(h), RefInv(h), ContInv(h), TakeEffect(h, k),
           g.jobs = k.jobs, g.state = h.state, g.reactions = h.reactions,
           NEW f \in FnsOf(h), g.fn[f] = h.fn[f], ~Goes(h.jobs[1], f)
    PROVE  InLists(g, f) /\ InJobs(g, f) /\ Somewhere(g, f)
<1>1. /\ \A i \in JobsOf(g) : i + 1 \in JobsOf(h) /\ g.jobs[i] = h.jobs[i + 1]
      /\ \A i \in JobsOf(h) : i # 1 => i - 1 \in JobsOf(g) /\ g.jobs[i - 1] = h.jobs[i]
  BY TakeRef DEF JobsOf
<1>2. \A i, j \in JobsOf(g) : i + 1 = j + 1 => i = j
  BY DEF JobsOf
<1>3. /\ PromisesOf(g) = PromisesOf(h) /\ \A q, w : ListOf(g, q, w) = ListOf(h, q, w)
  BY DEF PromisesOf, ListOf
<1>4. InLists(h, f) /\ InJobs(h, f) /\ Somewhere(h, f)
  BY ContParts
<1>5. InLists(g, f)
  BY <1>1, <1>3, <1>4 DEF InLists
<1>6. InJobs(g, f)
  BY <1>1, <1>2, <1>4 DEF InJobs
<1>7. Somewhere(g, f)
  <2>1. \A i \in JobsOf(h) : Goes(h.jobs[i], f) => i - 1 \in JobsOf(g) /\ Goes(g.jobs[i - 1], f)
    BY <1>1
  <2>2. QED
    BY <1>3, <1>4, <2>1 DEF Somewhere
<1>8. QED
  BY <1>5, <1>6, <1>7

LEMMA TakeCont ==
    ASSUME NEW h, NEW g, Shape(h), RefInv(h), ContInv(h), TakeEffect(h, g),
           h.jobs[1].handler.kind # "await"
    PROVE  ContInv(g)
<1>1. g.state = h.state /\ g.reactions = h.reactions /\ g.fn = h.fn /\ FnsOf(g) = FnsOf(h)
  BY DEF TakeEffect, FnsOf
<1>2. \A f \in FnsOf(h) : ~Goes(h.jobs[1], f)
  BY DEF Goes
<1>3. QED
  BY <1>1, <1>2, ShiftCont, ContParts

\* js_async_function_resolve_call: the function of the first job goes on.
LEMMA ResumeCont ==
    ASSUME NEW h, NEW k, NEW g, Shape(h), RefInv(h), ContInv(h), TakeEffect(h, k),
           NEW f0 \in FnsOf(h), Goes(h.jobs[1], f0), g.jobs = k.jobs, g.state = h.state,
           g.reactions = h.reactions, FnTurns(h, g, f0, "running")
    PROVE  ContInv(g) /\ h.fn[f0].state = "suspended"
<1> USE DEF FnTurns
<1>1. 1 \in JobsOf(h) /\ \A i \in JobsOf(g) : i + 1 \in JobsOf(h) /\ g.jobs[i] = h.jobs[i + 1]
  BY TakeRef DEF JobsOf
<1>2. \A i \in JobsOf(g) : i + 1 # 1
  BY DEF JobsOf
<1>3. /\ PromisesOf(g) = PromisesOf(h) /\ \A q, w : ListOf(g, q, w) = ListOf(h, q, w)
  BY DEF PromisesOf, ListOf
<1>4. \A f \in FnsOf(g) : f # f0 => InLists(g, f) /\ InJobs(g, f) /\ Somewhere(g, f)
  <2>1. \A f \in FnsOf(g) : f # f0 => ~Goes(h.jobs[1], f)
    BY DEF Goes
  <2>2. QED
    BY <2>1, ShiftCont
<1>5. InLists(h, f0) /\ InJobs(h, f0)
  BY ContParts
<1>6. /\ h.fn[f0].state = "suspended"
      /\ \A i \in JobsOf(g) : ~Goes(g.jobs[i], f0)
      /\ \A q \in PromisesOf(h), w \in Ways : \A i \in ListOf(h, q, w) :
            ~Goes(h.reactions[q][w][i], f0)
  BY <1>1, <1>2, <1>5 DEF InLists, InJobs
<1>7. InLists(g, f0) /\ InJobs(g, f0) /\ Somewhere(g, f0)
  BY <1>3, <1>6 DEF InLists, InJobs, Somewhere
<1>8. QED
  BY <1>4, <1>6, <1>7, ContParts

-----------------------------------------------------------------------------
(***************************************************************************)
(* PrivateInv: who may call the functions of a combinator.                 *)
(***************************************************************************)
\* The combinators are those they were, and have gone on at most.
CombsKeep(h, g) ==
    /\ CombsOf(g) = CombsOf(h)
    /\ \A c \in CombsOf(h) :
          /\ g.comb[c].kind = h.comb[c].kind /\ g.comb[c].items = h.comb[c].items
          /\ g.comb[c].cap = h.comb[c].cap
          /\ h.comb[c].index <= g.comb[c].index
          /\ g.comb[c].index \in 0..Len(g.comb[c].items)
          /\ g.comb[c].called \subseteq (1..g.comb[c].index) \X Ways

LEMMA SameCombs ==
    ASSUME NEW h, NEW g, CombType(h), g.comb = h.comb
    PROVE  CombsKeep(h, g)
<1>1. CombsOf(g) = CombsOf(h)
  BY DEF CombsOf
<1>2. \A c \in CombsOf(h) : h.comb[c].index \in Int
  BY DEF CombType
<1>3. QED
  BY <1>1, <1>2 DEF CombsKeep, CombType

LEMMA LegitKeeps ==
    ASSUME NEW h, NEW g, CombType(h), CombsKeep(h, g), NEW hd, NEW p, NEW w, Legit(h, hd, p, w)
    PROVE  Legit(g, hd, p, w)
<1> SUFFICES ASSUME NEW c \in CombsOf(g), Belongs(g, hd, c)
             PROVE  \E i \in 1..g.comb[c].index :
                        g.comb[c].items[i] = p /\ HandlerAt(g, c, i, w) = hd
  BY DEF Legit
<1>1. c \in CombsOf(h) /\ Belongs(h, hd, c)
  BY DEF CombsKeep, Belongs
<1>2. PICK i \in 1..h.comb[c].index : h.comb[c].items[i] = p /\ HandlerAt(h, c, i, w) = hd
  BY <1>1 DEF Legit
<1>3. i \in 1..g.comb[c].index
  BY <1>1, <1>2 DEF CombsKeep, CombType
<1>4. g.comb[c].items[i] = p /\ HandlerAt(g, c, i, w) = hd
  BY <1>1, <1>2 DEF CombsKeep, HandlerAt
<1>5. QED
  BY <1>3, <1>4

LEMMA PrivateKeeps ==
    ASSUME NEW h, NEW g, CombsKeep(h, g)
    PROVE  Private(g) = Private(h)
BY DEF CombsKeep, Private

LEMMA KeepPrivate ==
    ASSUME NEW h, NEW g, PrivateInv(h), CombsKeep(h, g),
           PromisesOf(h) \subseteq PromisesOf(g), PairsOf(h) \subseteq PairsOf(g),
           \A f \in FnsOf(g) : g.fn[f].cap \notin Private(h),
           \A q \in PromisesOf(g), w \in Ways : \A i \in ListOf(g, q, w) :
              /\ g.reactions[q][w][i].cap \notin Private(h)
              /\ Legit(h, g.reactions[q][w][i].handler, q, w),
           \A i \in JobsOf(g) :
              /\ g.jobs[i].cap \notin Private(h)
              /\ g.jobs[i].kind = "reaction" =>
                    Legit(h, g.jobs[i].handler, g.jobs[i].on, g.jobs[i].way)
    PROVE  PrivateInv(g)
<1>1. CombType(h) /\ Private(g) = Private(h)
  BY PrivateKeeps DEF PrivateInv
<1>2. CombType(g)
  BY <1>1 DEF CombType, CombsKeep
<1>3. \A c, d \in CombsOf(g) : g.comb[c].cap = g.comb[d].cap => c = d
  BY DEF PrivateInv, CombsKeep
<1>4. \A hd, p, w : Legit(h, hd, p, w) => Legit(g, hd, p, w)
  BY <1>1, LegitKeeps
<1>5. QED
  BY <1>1, <1>2, <1>3, <1>4 DEF PrivateInv

LEMMA SettlePrivate ==
    ASSUME NEW h, NEW g, Shape(h), RefInv(h), PrivateInv(h), NEW p \in PromisesOf(h),
           NEW u \in Ways, SettleEffect(h, g, p, u), g.pair = h.pair
    PROVE  PrivateInv(g)
<1>1. /\ PromisesOf(g) = PromisesOf(h) /\ PairsOf(g) = PairsOf(h) /\ g.fn = h.fn
      /\ FnsOf(g) = FnsOf(h) /\ CombsKeep(h, g)
  BY SameCombs DEF SettleEffect, PromisesOf, PairsOf, FnsOf, PrivateInv
<1>2. \A q \in PromisesOf(h), w \in Ways : \A i \in ListOf(g, q, w) :
          i \in ListOf(h, q, w) /\ g.reactions[q][w] = h.reactions[q][w]
  BY DEF ListOf, SettleEffect
<1>3. SettleAdds(h, g, p, u)
  BY SettleJobs
<1>4. ASSUME NEW i \in JobsOf(g)
      PROVE  /\ g.jobs[i].cap \notin Private(h)
             /\ g.jobs[i].kind = "reaction" =>
                   Legit(h, g.jobs[i].handler, g.jobs[i].on, g.jobs[i].way)
  <2>1. CASE i \in JobsOf(h) /\ g.jobs[i] = h.jobs[i]
    BY <2>1 DEF PrivateInv
  <2>2. CASE \E n \in ListOf(h, p, u) :
                 g.jobs[i] = ReactionJob(h.reactions[p][u][n], u, Plain)
    <3>1. PICK n \in ListOf(h, p, u) : g.jobs[i] = ReactionJob(h.reactions[p][u][n], u, Plain)
      BY <2>2
    <3>2. /\ h.reactions[p][u][n].cap \notin Private(h)
          /\ Legit(h, h.reactions[p][u][n].handler, p, u)
          /\ h.reactions[p][u][n].on = p
      BY DEF PrivateInv, RefInv
    <3>3. QED
      BY <3>1, <3>2, ReactionJobFields
  <2>3. QED
    BY <1>3, <2>1, <2>2 DEF SettleAdds
<1>5. \A q \in PromisesOf(g), w \in Ways : \A i \in ListOf(g, q, w) :
          /\ g.reactions[q][w][i].cap \notin Private(h)
          /\ Legit(h, g.reactions[q][w][i].handler, q, w)
  BY <1>1, <1>2 DEF PrivateInv
<1>6. \A f \in FnsOf(g) : g.fn[f].cap \notin Private(h)
  BY <1>1 DEF PrivateInv
<1>7. QED
  BY <1>1, <1>4, <1>5, <1>6, KeepPrivate

LEMMA ZeroNotPrivate ==
    ASSUME NEW h, PrivateInv(h)
    PROVE  0 \notin Private(h)
BY DEF PrivateInv, CombType, Private, PairsOf

LEMMA AdoptPrivate ==
    ASSUME NEW h, NEW g, Shape(h), PrivateInv(h), NEW r, NEW v, AdoptEffect(h, g, r, v)
    PROVE  PrivateInv(g)
<1>1. /\ PromisesOf(g) = PromisesOf(h) /\ PairsOf(g) = PairsOf(h) /\ g.fn = h.fn
      /\ FnsOf(g) = FnsOf(h) /\ CombsKeep(h, g) /\ g.reactions = h.reactions
      /\ \A q, w : ListOf(g, q, w) = ListOf(h, q, w)
  BY SameCombs DEF AdoptEffect, Marked, PromisesOf, PairsOf, FnsOf, ListOf, PrivateInv
<1>2. \A i \in JobsOf(g) : \/ i \in JobsOf(h) /\ g.jobs[i] = h.jobs[i]
                           \/ g.jobs[i].cap = 0 /\ g.jobs[i].kind = "thenable"
  BY AdoptJobs, ThenableJobFields
<1>3. \A i \in JobsOf(g) :
          /\ g.jobs[i].cap \notin Private(h)
          /\ g.jobs[i].kind = "reaction" =>
                Legit(h, g.jobs[i].handler, g.jobs[i].on, g.jobs[i].way)
  BY <1>2, ZeroNotPrivate DEF PrivateInv
<1>4. \A q \in PromisesOf(g), w \in Ways : \A i \in ListOf(g, q, w) :
          /\ g.reactions[q][w][i].cap \notin Private(h)
          /\ Legit(h, g.reactions[q][w][i].handler, q, w)
  BY <1>1 DEF PrivateInv
<1>5. \A f \in FnsOf(g) : g.fn[f].cap \notin Private(h)
  BY <1>1 DEF PrivateInv
<1>6. QED
  BY <1>1, <1>3, <1>4, <1>5, KeepPrivate

LEMMA CallPrivate ==
    ASSUME NEW h, NEW g, Shape(h), RefInv(h), PrivateInv(h), NEW r \in PairsOf(h), NEW w,
           NEW v, CallEffect(h, g, r, w, v)
    PROVE  PrivateInv(g)
<1>1. CASE g = h
  BY <1>1
<1>2. CASE \E u \in Ways : SettleEffect(h, g, h.pair[r], u) /\ Marked(h, g, r)
  BY <1>2, SettlePrivate DEF RefInv, Marked
<1>3. CASE AdoptEffect(h, g, r, v)
  BY <1>3, AdoptPrivate
<1>4. QED
  BY <1>1, <1>2, <1>3 DEF CallEffect

LEMMA CapabilityPrivate ==
    ASSUME NEW h, NEW g, Shape(h), PrivateInv(h), CapabilityEffect(h, g)
    PROVE  PrivateInv(g)
<1> DEFINE n == Len(h.state) + 1
<1>1. CapabilityAdds(h, g)
  BY CapabilityLists
<1>2. /\ PromisesOf(g) = PromisesOf(h) \cup {n} /\ \A w \in Ways : ListOf(g, n, w) = {}
      /\ \A q \in PromisesOf(h) : g.reactions[q] = h.reactions[q]
      /\ PairsOf(h) \subseteq PairsOf(g) /\ PromisesOf(h) \subseteq PromisesOf(g)
  BY <1>1 DEF CapabilityAdds
<1>3. /\ g.jobs = h.jobs /\ JobsOf(g) = JobsOf(h) /\ g.fn = h.fn /\ FnsOf(g) = FnsOf(h)
      /\ CombsKeep(h, g)
  BY SameCombs DEF CapabilityEffect, JobsOf, FnsOf, PrivateInv
<1>4. \A q \in PromisesOf(h), w \in Ways : ListOf(g, q, w) = ListOf(h, q, w)
  BY <1>2 DEF ListOf
<1> HIDE DEF n
<1>5. \A q \in PromisesOf(g), w \in Ways : \A i \in ListOf(g, q, w) :
          /\ g.reactions[q][w][i].cap \notin Private(h)
          /\ Legit(h, g.reactions[q][w][i].handler, q, w)
  BY <1>2, <1>4 DEF PrivateInv
<1>6. /\ \A f \in FnsOf(g) : g.fn[f].cap \notin Private(h)
      /\ \A i \in JobsOf(g) :
            /\ g.jobs[i].cap \notin Private(h)
            /\ g.jobs[i].kind = "reaction" =>
                  Legit(h, g.jobs[i].handler, g.jobs[i].on, g.jobs[i].way)
  BY <1>3 DEF PrivateInv
<1>7. QED
  BY <1>2, <1>3, <1>5, <1>6, KeepPrivate

LEMMA ThenPrivate ==
    ASSUME NEW h, NEW g, Shape(h), PrivateInv(h), NEW p \in PromisesOf(h), NEW on,
           NEW cap, cap \notin Private(h), \A w \in Ways : Legit(h, on[w], p, w),
           ThenEffect(h, g, p, on, cap)
    PROVE  PrivateInv(g)
<1>1. ThenAdds(h, g, p, on, cap)
  BY ThenLists
<1>2. /\ PromisesOf(g) = PromisesOf(h) /\ g.fn = h.fn /\ FnsOf(g) = FnsOf(h)
      /\ PairsOf(g) = PairsOf(h) /\ CombsKeep(h, g)
  BY SameCombs DEF ThenEffect, PromisesOf, FnsOf, PairsOf, PrivateInv
<1>3. \A w : /\ NewReaction(h, p, on, cap, w).handler = on[w]
             /\ NewReaction(h, p, on, cap, w).cap = cap
             /\ NewReaction(h, p, on, cap, w).on = p
  BY DEF NewReaction
<1>4. ASSUME NEW q \in PromisesOf(g), NEW w \in Ways, NEW i \in ListOf(g, q, w)
      PROVE  /\ g.reactions[q][w][i].cap \notin Private(h)
             /\ Legit(h, g.reactions[q][w][i].handler, q, w)
  <2>1. CASE i \in ListOf(h, q, w)
    <3>1. q \in PromisesOf(h) /\ g.reactions[q][w][i] = h.reactions[q][w][i]
      BY <1>1, <1>2, <2>1 DEF ThenAdds
    <3>2. QED
      BY <2>1, <3>1 DEF PrivateInv
  <2>2. CASE i \notin ListOf(h, q, w)
    <3>1. q = p /\ g.reactions[q][w][i] = NewReaction(h, p, on, cap, w)
      BY <1>1, <1>2, <2>2 DEF ThenAdds
    <3>2. QED
      BY <1>3, <3>1
  <2>3. QED
    BY <2>1, <2>2
<1>5. ASSUME NEW i \in JobsOf(g)
      PROVE  /\ g.jobs[i].cap \notin Private(h)
             /\ g.jobs[i].kind = "reaction" =>
                   Legit(h, g.jobs[i].handler, g.jobs[i].on, g.jobs[i].way)
  <2>1. CASE i \in JobsOf(h)
    <3>1. g.jobs[i] = h.jobs[i]
      BY <1>1, <2>1 DEF ThenAdds
    <3>2. QED
      BY <2>1, <3>1 DEF PrivateInv
  <2>2. CASE i \notin JobsOf(h)
    <3>1. PICK w \in Ways : g.jobs[i] = ReactionJob(NewReaction(h, p, on, cap, w), w, Plain)
      BY <1>1, <2>2 DEF ThenAdds
    <3>2. QED
      BY <1>3, <3>1, ReactionJobFields
  <2>3. QED
    BY <2>1, <2>2
<1>6. \A f \in FnsOf(g) : g.fn[f].cap \notin Private(h)
  BY <1>2 DEF PrivateInv
<1>7. QED
  BY <1>2, <1>4, <1>5, <1>6, KeepPrivate

LEMMA TakePrivate ==
    ASSUME NEW h, NEW g, Shape(h), RefInv(h), PrivateInv(h), TakeEffect(h, g)
    PROVE  PrivateInv(g)
<1>1. \A i \in JobsOf(g) : i + 1 \in JobsOf(h) /\ g.jobs[i] = h.jobs[i + 1]
  BY TakeRef
<1>2. /\ PromisesOf(g) = PromisesOf(h) /\ PairsOf(g) = PairsOf(h) /\ g.fn = h.fn
      /\ FnsOf(g) = FnsOf(h) /\ CombsKeep(h, g) /\ g.reactions = h.reactions
      /\ \A q, w : ListOf(g, q, w) = ListOf(h, q, w)
  BY SameCombs DEF TakeEffect, PromisesOf, PairsOf, FnsOf, ListOf, PrivateInv
<1>3. \A i \in JobsOf(g) :
          /\ g.jobs[i].cap \notin Private(h)
          /\ g.jobs[i].kind = "reaction" =>
                Legit(h, g.jobs[i].handler, g.jobs[i].on, g.jobs[i].way)
  BY <1>1 DEF PrivateInv
<1>4. \A q \in PromisesOf(g), w \in Ways : \A i \in ListOf(g, q, w) :
          /\ g.reactions[q][w][i].cap \notin Private(h)
          /\ Legit(h, g.reactions[q][w][i].handler, q, w)
  BY <1>2 DEF PrivateInv
<1>5. \A f \in FnsOf(g) : g.fn[f].cap \notin Private(h)
  BY <1>2 DEF PrivateInv
<1>6. QED
  BY <1>2, <1>3, <1>4, <1>5, KeepPrivate

\* Changes of combinators, pairs and functions alone.
LEMMA SamePrivate ==
    ASSUME NEW h, NEW g, PrivateInv(h), CombsKeep(h, g), PairsOf(h) \subseteq PairsOf(g),
           g.state = h.state, g.reactions = h.reactions, g.jobs = h.jobs,
           \A f \in FnsOf(g) : g.fn[f].cap \notin Private(h)
    PROVE  PrivateInv(g)
<1>1. /\ PromisesOf(g) = PromisesOf(h) /\ JobsOf(g) = JobsOf(h)
      /\ \A q, w : ListOf(g, q, w) = ListOf(h, q, w)
  BY DEF PromisesOf, JobsOf, ListOf
<1>2. /\ \A q \in PromisesOf(g), w \in Ways : \A i \in ListOf(g, q, w) :
            /\ g.reactions[q][w][i].cap \notin Private(h)
            /\ Legit(h, g.reactions[q][w][i].handler, q, w)
      /\ \A i \in JobsOf(g) :
            /\ g.jobs[i].cap \notin Private(h)
            /\ g.jobs[i].kind = "reaction" =>
                  Legit(h, g.jobs[i].handler, g.jobs[i].on, g.jobs[i].way)
  BY <1>1 DEF PrivateInv
<1>3. QED
  BY <1>1, <1>2, KeepPrivate

-----------------------------------------------------------------------------
(***************************************************************************)
(* CombInv: the work of combinators.                                       *)
(***************************************************************************)
LEMMA ItemsAre ==
    ASSUME NEW h, CombType(h), NEW c \in CombsOf(h), NEW i \in 1..h.comb[c].index
    PROVE  i \in 1..Len(h.comb[c].items) /\ h.comb[c].items[i] \in PromisesOf(h)
<1>1. /\ h.comb[c].index \in 0..Len(h.comb[c].items)
      /\ \A j \in 1..Len(h.comb[c].items) : h.comb[c].items[j] \in PromisesOf(h)
  BY DEF CombType
<1>2. i \in 1..Len(h.comb[c].items)
  BY <1>1
<1>3. QED
  BY <1>1, <1>2

\* Steps that are not those of a combinator.
Onward(h, g) ==
    /\ g.comb = h.comb
    /\ h.resolved \subseteq g.resolved
    /\ \A r \in PairsOf(h) : g.pair[r] = h.pair[r]
    /\ \A q \in PromisesOf(h) : h.state[q] # "pending" => g.state[q] = h.state[q]

LEMMA OnwardCounts ==
    ASSUME NEW h, NEW g, CombType(h), Onward(h, g), NEW L, NEW X,
           CalledInv(h), CountInv(h, L), ZeroInv(h, X)
    PROVE  CalledInv(g) /\ CountInv(g, L) /\ ZeroInv(g, X)
<1>1. /\ CombsOf(g) = CombsOf(h) /\ g.comb = h.comb
      /\ \A c, i, w : HandlerAt(g, c, i, w) = HandlerAt(h, c, i, w)
  BY DEF Onward, CombsOf, HandlerAt
<1>2. CalledInv(g)
  <2> SUFFICES ASSUME NEW c \in CombsOf(h), NEW w \in Ways, NEW i \in 1..h.comb[c].index,
                      <<i, w>> \in h.comb[c].called
               PROVE  /\ g.state[h.comb[c].items[i]] = Outcome(w)
                      /\ HandlerAt(h, c, i, w).kind = "element"
    BY <1>1 DEF CalledInv
  <2>1. h.state[h.comb[c].items[i]] = Outcome(w) /\ HandlerAt(h, c, i, w).kind = "element"
    BY DEF CalledInv
  <2>2. h.comb[c].items[i] \in PromisesOf(h)
    BY ItemsAre
  <2>3. QED
    BY <2>1, <2>2, OutcomeStates DEF Onward
<1>3. CountInv(g, L)
  BY <1>1 DEF CountInv
<1>4. ZeroInv(g, X)
  BY <1>1 DEF ZeroInv, Open, Onward
<1>5. QED
  BY <1>2, <1>3, <1>4

LEMMA JustifiedKeeps ==
    ASSUME NEW h, NEW g, CombType(h), NEW c \in CombsOf(h), NEW s, s # "pending",
           \A q \in PromisesOf(h) : h.state[q] # "pending" => g.state[q] = h.state[q],
           Justified(h, h.comb[c], s)
    PROVE  Justified(g, h.comb[c], s)
<1>1. \A i \in 1..Len(h.comb[c].items) : h.comb[c].items[i] \in PromisesOf(h)
  BY DEF CombType
<1>2. QED
  BY <1>1 DEF Justified

LEMMA OnwardJust ==
    ASSUME NEW h, NEW g, RefInv(h), CombType(h), Onward(h, g), JustInv(h),
           \A c \in CombsOf(h) :
              Open(h, h.comb[c].cap) /\ ~Open(g, h.comb[c].cap) =>
                  /\ g.state[h.pair[h.comb[c].cap]] # "pending"
                  /\ Justified(g, h.comb[c], g.state[h.pair[h.comb[c].cap]])
    PROVE  JustInv(g)
<1>1. CombsOf(g) = CombsOf(h) /\ g.comb = h.comb
  BY SMTT(30) DEF Onward, CombsOf
<1> SUFFICES ASSUME NEW c \in CombsOf(h), ~Open(g, h.comb[c].cap)
             PROVE  /\ g.state[g.pair[h.comb[c].cap]] # "pending"
                    /\ Justified(g, h.comb[c], g.state[g.pair[h.comb[c].cap]])
  BY <1>1 DEF JustInv
<1> DEFINE r == h.comb[c].cap
<1>2. r \in PairsOf(h) /\ g.pair[r] = h.pair[r] /\ h.pair[r] \in PromisesOf(h)
  BY DEF CombType, Onward, RefInv
<1>3. CASE Open(h, r)
  BY SMTT(30), <1>2, <1>3
<1>4. CASE ~Open(h, r)
  <2>1. h.state[h.pair[r]] # "pending" /\ Justified(h, h.comb[c], h.state[h.pair[r]])
    BY SMTT(30), <1>4 DEF JustInv
  <2>2. g.state[h.pair[r]] = h.state[h.pair[r]]
    BY ZenonT(30), <1>2, <2>1 DEF Onward
  <2>3. Justified(g, h.comb[c], h.state[h.pair[r]])
    BY <2>1, JustifiedKeeps DEF Onward
  <2>4. QED
    BY <1>2, <2>1, <2>2, <2>3
<1>5. QED
  BY <1>3, <1>4

\* One element of DoneInv.
DoneAt(h, J, c, i, w) ==
    LET p == h.comb[c].items[i]
        hd == HandlerAt(h, c, i, w)
    IN  /\ h.state[p] = "pending" =>
              \E n \in ListOf(h, p, w) : h.reactions[p][w][n].handler = hd
        /\ h.state[p] = Outcome(w) =>
              Processed(h, c, i, w) \/ \E j \in J : IsJobFor(j, hd, p, w)

LEMMA DoneParts ==
    ASSUME NEW h, NEW J
    PROVE  DoneInv(h, J) <=>
             \A c \in CombsOf(h), w \in Ways : \A i \in 1..h.comb[c].index : DoneAt(h, J, c, i, w)
BY DEF DoneInv, DoneAt

\* The reactions of a promise stay, or become jobs when it is settled.
LEMMA OnwardDone ==
    ASSUME NEW h, NEW g, CombType(h), Onward(h, g), NEW I, NEW J, DoneInv(h, I), I \subseteq J,
           \A q \in PromisesOf(h), w \in Ways : \A n \in ListOf(h, q, w) :
              /\ g.state[q] = "pending" => \E m \in ListOf(g, q, w) :
                    g.reactions[q][w][m].handler = h.reactions[q][w][n].handler
              /\ h.state[q] = "pending" /\ g.state[q] = Outcome(w) =>
                    \E j \in J : IsJobFor(j, h.reactions[q][w][n].handler, q, w)
    PROVE  DoneInv(g, J)
<1>1. /\ CombsOf(g) = CombsOf(h) /\ g.comb = h.comb
      /\ \A c, i, w : HandlerAt(g, c, i, w) = HandlerAt(h, c, i, w)
      /\ \A c, i, w : Processed(h, c, i, w) => Processed(g, c, i, w)
  BY DEF Onward, CombsOf, HandlerAt, Processed, Open
<1> SUFFICES ASSUME NEW c \in CombsOf(h), NEW w \in Ways, NEW i \in 1..h.comb[c].index
             PROVE  DoneAt(g, J, c, i, w)
  <2>1. \A c \in CombsOf(g), w \in Ways : \A i \in 1..g.comb[c].index : DoneAt(g, J, c, i, w)
    BY <1>1
  <2>2. QED
    BY <2>1, DoneParts
<1> DEFINE p == h.comb[c].items[i]
           hd == HandlerAt(h, c, i, w)
<1>2. p \in PromisesOf(h)
  BY SMTT(30), ItemsAre
<1>3. /\ h.state[p] = "pending" =>
            \E n \in ListOf(h, p, w) : h.reactions[p][w][n].handler = hd
      /\ h.state[p] = Outcome(w) =>
            Processed(h, c, i, w) \/ \E j \in I : IsJobFor(j, hd, p, w)
  <2>1. DoneAt(h, I, c, i, w)
    BY DoneParts
  <2>2. QED
    BY <2>1 DEF DoneAt
<1> HIDE DEF p, hd
<1> DEFINE there ==
             /\ g.state[p] = "pending" =>
                   \E n \in ListOf(g, p, w) : g.reactions[p][w][n].handler = hd
             /\ g.state[p] = Outcome(w) =>
                   Processed(g, c, i, w) \/ \E j \in J : IsJobFor(j, hd, p, w)
<1>4. ASSUME h.state[p] = "pending" PROVE there
  <2>1. PICK n \in ListOf(h, p, w) : h.reactions[p][w][n].handler = hd
    BY <1>3, <1>4
  <2>2. g.state[p] = "pending" => \E m \in ListOf(g, p, w) : g.reactions[p][w][m].handler = hd
    BY <1>2, <2>1
  <2>3. g.state[p] = Outcome(w) => \E j \in J : IsJobFor(j, hd, p, w)
    BY <1>2, <1>4, <2>1
  <2>4. QED
    BY <2>2, <2>3
<1>5. ASSUME h.state[p] # "pending" PROVE there
  <2>1. g.state[p] = h.state[p]
    BY <1>2, <1>5 DEF Onward
  <2>2. QED
    BY <1>1, <1>3, <1>5, <2>1
<1>6. QED
  <2>1. there
    BY <1>4, <1>5
  <2>2. g.comb[c].items[i] = p /\ HandlerAt(g, c, i, w) = hd
    BY <1>1 DEF p, hd
  <2>3. QED
    BY <2>1, <2>2 DEF DoneAt

\* E are jobs in hand, that are no longer in the list.
LEMMA SettleComb ==
    ASSUME NEW h, NEW g, Shape(h), RefInv(h), CombType(h), NEW r \in PairsOf(h),
           h.state[h.pair[r]] = "pending", NEW u \in Ways, SettleEffect(h, g, h.pair[r], u),
           Marked(h, g, r), NEW E, NEW L, NEW X, CombInv(h, JobSet(h) \cup E, L, X),
           \A c \in CombsOf(h) : h.comb[c].cap = r => Justified(h, h.comb[c], Outcome(u))
    PROVE  CombInv(g, JobSet(g) \cup E, L, X)
<1> DEFINE p == h.pair[r]
<1>1. p \in PromisesOf(h)
  BY DEF RefInv
<1>2. SettleAdds(h, g, p, u)
  BY <1>1, SettleJobs
<1>3. /\ \A q \in PromisesOf(h) : g.state[q] = IF q = p THEN Outcome(u) ELSE h.state[q]
      /\ \A q \in PromisesOf(h), w \in Ways : q # p => g.reactions[q][w] = h.reactions[q][w]
      /\ g.pair = h.pair /\ g.resolved = h.resolved \cup {r} /\ g.comb = h.comb
      /\ Outcome(u) # "pending"
  BY OutcomeStates DEF SettleEffect, Marked
<1>4. Onward(h, g)
  BY <1>1, <1>3 DEF Onward
<1>5. CalledInv(g) /\ CountInv(g, L) /\ ZeroInv(g, X)
  BY <1>4, OnwardCounts DEF CombInv
<1>6. JustInv(g)
  <2>1. ASSUME NEW c \in CombsOf(h), Open(h, h.comb[c].cap), ~Open(g, h.comb[c].cap)
        PROVE  /\ g.state[h.pair[h.comb[c].cap]] # "pending"
               /\ Justified(g, h.comb[c], g.state[h.pair[h.comb[c].cap]])
    <3>1. h.comb[c].cap = r
      BY <1>3, <2>1 DEF Open
    <3>2. g.state[h.pair[h.comb[c].cap]] = Outcome(u)
      BY <1>1, <1>3, <3>1
    <3>3. Justified(g, h.comb[c], Outcome(u))
      BY <1>3, <1>4, <3>1, JustifiedKeeps DEF Onward
    <3>4. QED
      BY <1>3, <3>2, <3>3
  <2>2. JustInv(h)
    BY DEF CombInv
  <2>3. QED
    BY <1>4, <2>1, <2>2, OnwardJust
<1>7. DoneInv(g, JobSet(g) \cup E)
  <2>1. JobSet(h) \cup E \subseteq JobSet(g) \cup E
    BY <1>2 DEF JobSet, SettleAdds, SettleEffect
  <2>2. ASSUME NEW q \in PromisesOf(h), NEW w \in Ways, NEW n \in ListOf(h, q, w)
        PROVE  /\ g.state[q] = "pending" => \E m \in ListOf(g, q, w) :
                     g.reactions[q][w][m].handler = h.reactions[q][w][n].handler
               /\ h.state[q] = "pending" /\ g.state[q] = Outcome(w) =>
                     \E j \in JobSet(g) \cup E :
                         IsJobFor(j, h.reactions[q][w][n].handler, q, w)
    <3>1. CASE q # p
      <4>1. g.reactions[q][w] = h.reactions[q][w] /\ n \in ListOf(g, q, w)
        BY <1>3, <3>1 DEF ListOf
      <4>2. g.state[q] = h.state[q]
        BY SMTT(30), <1>3, <3>1
      <4>3. QED
        BY <4>1, <4>2, OutcomeStates
    <3>2. CASE q = p /\ w = u
      <4> DEFINE i == Len(h.jobs) + n
      <4>1. /\ i \in JobsOf(g) /\ g.jobs[i] = ReactionJob(h.reactions[p][u][n], u, Plain)
            /\ h.reactions[p][u][n].on = p
        BY <1>1, <1>2, <3>2 DEF SettleAdds, SettleEffect, RefInv
      <4>2. g.jobs[i] \in JobSet(g)
        BY <4>1 DEF JobSet
      <4>3. IsJobFor(g.jobs[i], h.reactions[p][u][n].handler, p, u)
        BY <4>1, ReactionJobFields DEF IsJobFor
      <4>4. g.state[q] # "pending"
        BY <1>1, <1>3, <3>2
      <4>5. QED
        BY <3>2, <4>2, <4>3, <4>4
    <3>3. CASE q = p /\ w # u
      BY <1>1, <1>3, <3>3, OutcomeStates
    <3>4. QED
      BY <3>1, <3>2, <3>3
  <2>3. DoneInv(h, JobSet(h) \cup E)
    BY DEF CombInv
  <2>4. QED
    BY <1>4, <2>1, <2>2, <2>3, OnwardDone
<1>8. QED
  BY <1>5, <1>6, <1>7 DEF CombInv

\* Lists and jobs were added to at most.
LEMMA AddComb ==
    ASSUME NEW h, NEW g, RefInv(h), CombType(h), Onward(h, g),
           NEW E, NEW L, NEW X, CombInv(h, JobSet(h) \cup E, L, X),
           \A q \in PromisesOf(h) : g.state[q] = h.state[q],
           \A q \in PromisesOf(h), w \in Ways : \A n \in ListOf(h, q, w) :
              n \in ListOf(g, q, w) /\ g.reactions[q][w][n] = h.reactions[q][w][n],
           \A i \in JobsOf(h) : i \in JobsOf(g) /\ g.jobs[i] = h.jobs[i],
           \A c \in CombsOf(h) : ~Open(g, h.comb[c].cap) => ~Open(h, h.comb[c].cap)
    PROVE  CombInv(g, JobSet(g) \cup E, L, X)
<1>1. CalledInv(g) /\ CountInv(g, L) /\ ZeroInv(g, X)
  BY OnwardCounts DEF CombInv
<1>2. JustInv(g)
  BY OnwardJust DEF CombInv
<1>3. JobSet(h) \cup E \subseteq JobSet(g) \cup E
  BY DEF JobSet
<1>4. DoneInv(h, JobSet(h) \cup E)
  BY DEF CombInv
<1>5. \A q \in PromisesOf(h), w \in Ways : \A n \in ListOf(h, q, w) :
          /\ g.state[q] = "pending" => \E m \in ListOf(g, q, w) :
                g.reactions[q][w][m].handler = h.reactions[q][w][n].handler
          /\ h.state[q] = "pending" /\ g.state[q] = Outcome(w) =>
                \E j \in JobSet(g) \cup E : IsJobFor(j, h.reactions[q][w][n].handler, q, w)
  BY OutcomeStates
<1>6. DoneInv(g, JobSet(g) \cup E)
  BY <1>3, <1>4, <1>5, OnwardDone
<1>7. QED
  BY <1>1, <1>2, <1>6 DEF CombInv

LEMMA AdoptComb ==
    ASSUME NEW h, NEW g, Shape(h), RefInv(h), CombType(h), NEW r, r \notin Private(h),
           NEW v, AdoptEffect(h, g, r, v), NEW E, NEW L, NEW X,
           CombInv(h, JobSet(h) \cup E, L, X)
    PROVE  CombInv(g, JobSet(g) \cup E, L, X)
<1>1. Onward(h, g)
  BY DEF Onward, AdoptEffect, Marked
<1>2. \A c \in CombsOf(h) : ~Open(g, h.comb[c].cap) => ~Open(h, h.comb[c].cap)
  BY DEF Open, AdoptEffect, Marked, Private
<1>3. \A i \in JobsOf(h) : i \in JobsOf(g) /\ g.jobs[i] = h.jobs[i]
  BY AdoptJobs
<1>4. /\ g.state = h.state
      /\ \A q \in PromisesOf(h), w \in Ways : \A n \in ListOf(h, q, w) :
            n \in ListOf(g, q, w) /\ g.reactions[q][w][n] = h.reactions[q][w][n]
  BY DEF AdoptEffect, ListOf
<1>5. QED
  BY <1>1, <1>2, <1>3, <1>4, AddComb

\* If r is the pair of a combinator the call settles it rightly.
CallRight(h, r, w, v) ==
    \A c \in CombsOf(h) : h.comb[c].cap = r => v = Plain /\ Justified(h, h.comb[c], Outcome(w))

LEMMA CallComb ==
    ASSUME NEW h, NEW g, Shape(h), RefInv(h), WayInv(h), CombType(h), NEW r \in PairsOf(h),
           NEW w \in Ways, NEW v, CallEffect(h, g, r, w, v), NEW E, NEW L, NEW X,
           CombInv(h, JobSet(h) \cup E, L, X), CallRight(h, r, w, v)
    PROVE  CombInv(g, JobSet(g) \cup E, L, X)
<1>1. CASE g = h
  BY <1>1
<1>2. CASE Open(h, r) /\ \E u \in Ways : /\ SettleEffect(h, g, h.pair[r], u)
                                         /\ Marked(h, g, r)
                                         /\ v = Plain => u = w
  <2>1. PICK u \in Ways : /\ SettleEffect(h, g, h.pair[r], u) /\ Marked(h, g, r)
                          /\ v = Plain => u = w
    BY <1>2
  <2>2. h.state[h.pair[r]] = "pending"
    BY <1>2 DEF WayInv
  <2>3. \A c \in CombsOf(h) : h.comb[c].cap = r => Justified(h, h.comb[c], Outcome(u))
    BY <2>1 DEF CallRight
  <2>4. QED
    BY <2>1, <2>2, <2>3, SettleComb
<1>3. CASE AdoptEffect(h, g, r, v) /\ v # Plain
  <2>1. r \notin Private(h)
    BY <1>3 DEF Private, CallRight
  <2>2. QED
    BY <1>3, <2>1, AdoptComb
<1>4. QED
  BY <1>1, <1>2, <1>3 DEF CallEffect

LEMMA CapabilityComb ==
    ASSUME NEW h, NEW g, Shape(h), RefInv(h), CombType(h), CapabilityEffect(h, g),
           NEW E, NEW L, NEW X, CombInv(h, JobSet(h) \cup E, L, X)
    PROVE  CombInv(g, JobSet(g) \cup E, L, X)
<1>1. CapabilityAdds(h, g)
  BY CapabilityLists
<1>2. /\ \A q \in PromisesOf(h) : g.state[q] = h.state[q] /\ g.reactions[q] = h.reactions[q]
      /\ \A r \in PairsOf(h) : g.pair[r] = h.pair[r]
  BY <1>1 DEF CapabilityAdds
<1>3. /\ g.jobs = h.jobs /\ JobsOf(g) = JobsOf(h) /\ g.resolved = h.resolved
      /\ g.comb = h.comb
  BY DEF CapabilityEffect, JobsOf
<1>4. Onward(h, g)
  BY <1>2, <1>3 DEF Onward
<1>5. \A q \in PromisesOf(h), w \in Ways : \A n \in ListOf(h, q, w) :
          n \in ListOf(g, q, w) /\ g.reactions[q][w][n] = h.reactions[q][w][n]
  BY <1>2 DEF ListOf
<1>6. \A c \in CombsOf(h) : ~Open(g, h.comb[c].cap) => ~Open(h, h.comb[c].cap)
  BY <1>3 DEF Open
<1>7. QED
  BY <1>2, <1>3, <1>4, <1>5, <1>6, AddComb

LEMMA ThenComb ==
    ASSUME NEW h, NEW g, Shape(h), RefInv(h), CombType(h), NEW p \in PromisesOf(h), NEW on,
           NEW cap, ThenEffect(h, g, p, on, cap), NEW E, NEW L, NEW X,
           CombInv(h, JobSet(h) \cup E, L, X)
    PROVE  CombInv(g, JobSet(g) \cup E, L, X)
<1>1. ThenAdds(h, g, p, on, cap)
  BY ThenLists
<1>2. g.state = h.state /\ g.pair = h.pair /\ g.resolved = h.resolved /\ g.comb = h.comb
  BY DEF ThenEffect
<1>3. Onward(h, g)
  BY <1>2 DEF Onward
<1>4. /\ \A q \in PromisesOf(h), w \in Ways : \A n \in ListOf(h, q, w) :
            n \in ListOf(g, q, w) /\ g.reactions[q][w][n] = h.reactions[q][w][n]
      /\ \A i \in JobsOf(h) : i \in JobsOf(g) /\ g.jobs[i] = h.jobs[i]
  BY <1>1 DEF ThenAdds
<1>5. \A c \in CombsOf(h) : ~Open(g, h.comb[c].cap) => ~Open(h, h.comb[c].cap)
  BY <1>2 DEF Open
<1>6. QED
  BY <1>2, <1>3, <1>4, <1>5, AddComb

\* Only pairs or functions have changed.
LEMMA SameComb ==
    ASSUME NEW h, NEW g, RefInv(h), CombType(h), g.state = h.state,
           g.reactions = h.reactions, g.jobs = h.jobs, g.comb = h.comb, g.resolved = h.resolved,
           \A r \in PairsOf(h) : g.pair[r] = h.pair[r],
           NEW E, NEW L, NEW X, CombInv(h, JobSet(h) \cup E, L, X)
    PROVE  CombInv(g, JobSet(g) \cup E, L, X)
<1>1. Onward(h, g)
  BY DEF Onward
<1>2. /\ \A q \in PromisesOf(h), w \in Ways : \A n \in ListOf(h, q, w) :
            n \in ListOf(g, q, w) /\ g.reactions[q][w][n] = h.reactions[q][w][n]
      /\ \A i \in JobsOf(h) : i \in JobsOf(g) /\ g.jobs[i] = h.jobs[i]
  BY DEF ListOf, JobsOf
<1>3. \A c \in CombsOf(h) : ~Open(g, h.comb[c].cap) => ~Open(h, h.comb[c].cap)
  BY DEF Open
<1>4. QED
  BY <1>1, <1>2, <1>3, AddComb

LEMMA TakeComb ==
    ASSUME NEW h, NEW g, Shape(h), RefInv(h), CombType(h), TakeEffect(h, g), NEW L, NEW X,
           CombInv(h, JobSet(h), L, X)
    PROVE  CombInv(g, JobSet(g) \cup {h.jobs[1]}, L, X)
<1>1. \A i \in JobsOf(h) : i # 1 => i - 1 \in JobsOf(g) /\ g.jobs[i - 1] = h.jobs[i]
  BY TakeRef
<1>2. JobSet(h) \subseteq JobSet(g) \cup {h.jobs[1]}
  <2> SUFFICES ASSUME NEW i \in JobsOf(h), i # 1
               PROVE  h.jobs[i] \in JobSet(g)
    BY DEF JobSet
  <2>1. i - 1 \in JobsOf(g) /\ g.jobs[i - 1] = h.jobs[i]
    BY <1>1
  <2>2. QED
    BY <2>1 DEF JobSet
<1>3. /\ g.state = h.state /\ g.reactions = h.reactions /\ g.pair = h.pair
      /\ g.resolved = h.resolved /\ g.comb = h.comb
      /\ \A q, w : ListOf(g, q, w) = ListOf(h, q, w)
  BY DEF TakeEffect, ListOf
<1>4. Onward(h, g)
  BY <1>3 DEF Onward
<1>5. CalledInv(g) /\ CountInv(g, L) /\ ZeroInv(g, X)
  BY <1>4, OnwardCounts DEF CombInv
<1>6. JustInv(g)
  BY <1>3, <1>4, OnwardJust DEF CombInv, Open
<1>7. DoneInv(g, JobSet(g) \cup {h.jobs[1]})
  <2>1. DoneInv(h, JobSet(h))
    BY DEF CombInv
  <2>2. QED
    BY <1>2, <1>3, <1>4, <2>1, OnwardDone, OutcomeStates
<1>8. QED
  BY <1>5, <1>6, <1>7 DEF CombInv

-----------------------------------------------------------------------------
(***************************************************************************)
(* The functions of the engine keep the invariant of the heap.             *)
(***************************************************************************)
CombsStay(h, g) ==
    \A E, L, X : CombInv(h, JobSet(h) \cup E, L, X) => CombInv(g, JobSet(g) \cup E, L, X)

\* From h to g combinators and async functions did nothing.
Quiet(h, g) ==
    /\ HeapInv(g)
    /\ Grows(h, g)
    /\ g.comb = h.comb /\ g.fn = h.fn
    /\ CombsStay(h, g)

LEMMA QuietTrans ==
    ASSUME NEW h, NEW k, NEW g, Shape(h), Quiet(h, k), Quiet(k, g)
    PROVE  Quiet(h, g)
<1>1. Lengths(h) /\ Lengths(k) /\ Lengths(g)
  BY ShapeLengths DEF Quiet, HeapInv
<1>2. Grows(h, g)
  BY SMTT(30), <1>1 DEF Grows, Lengths, Quiet
<1>3. CombsStay(h, g)
  BY DEF CombsStay, Quiet
<1>4. QED
  BY <1>2, <1>3 DEF Quiet

LEMMA GrowsSubset ==
    ASSUME NEW h, NEW g, Shape(h), Shape(g), Grows(h, g)
    PROVE  /\ PromisesOf(h) \subseteq PromisesOf(g) /\ PairsOf(h) \subseteq PairsOf(g)
           /\ CombsOf(h) \subseteq CombsOf(g) /\ FnsOf(h) \subseteq FnsOf(g)
           /\ 0..Len(h.pair) \subseteq 0..Len(g.pair)
           /\ -2..Len(h.state) \subseteq -2..Len(g.state)
<1>1. Lengths(h) /\ Lengths(g)
  BY ShapeLengths
<1>2. QED
  BY SMTT(30), <1>1 DEF Lengths, Grows, PromisesOf, PairsOf, CombsOf, FnsOf

LEMMA SameHeap ==
    ASSUME NEW h, HeapInv(h)
    PROVE  Quiet(h, h)
<1>1. Lengths(h)
  BY ShapeLengths DEF HeapInv
<1>2. QED
  BY <1>1 DEF Quiet, Grows, Lengths, CombsStay

\* Call, also of the pair of a combinator.
LEMMA CallHeap ==
    ASSUME NEW h, HeapInv(h), NEW r \in PairsOf(h), NEW w \in Ways,
           NEW v \in -2..Len(h.state), w = 1 => v = Plain,
           NEW g, g = Call(h, r, w, v)
    PROVE  /\ HeapInv(g) /\ Grows(h, g) /\ g.comb = h.comb /\ g.fn = h.fn
           /\ CallEffect(h, g, r, w, v) /\ ~Open(g, r)
<1>1. Shape(h) /\ RefInv(h) /\ WayInv(h) /\ OrderInv(h) /\ ContInv(h) /\ PrivateInv(h)
  BY DEF HeapInv
<1>2. CallEffect(h, g, r, w, v)
  BY <1>1, CallHasEffect
<1>3. Shape(g) /\ RefInv(g) /\ WayInv(g) /\ OrderInv(g) /\ ContInv(g) /\ PrivateInv(g)
  BY <1>1, <1>2, CallRef, CallWay, CallOrder, CallCont, CallPrivate
<1>4. /\ Len(g.state) = Len(h.state) /\ g.pair = h.pair /\ g.comb = h.comb /\ g.fn = h.fn
      /\ r \in g.resolved
  BY <1>2 DEF CallEffect, SettleEffect, AdoptEffect, Marked, Open
<1>5. Grows(h, g)
  BY <1>1, <1>4, ShapeLengths DEF Grows, Lengths
<1>6. QED
  BY <1>2, <1>3, <1>4, <1>5 DEF HeapInv, Open

LEMMA CallQuiet ==
    ASSUME NEW h, HeapInv(h), NEW r \in PairsOf(h), r \notin Private(h), NEW w \in Ways,
           NEW v \in -2..Len(h.state), w = 1 => v = Plain,
           NEW g, g = Call(h, r, w, v)
    PROVE  Quiet(h, g)
<1>1. /\ HeapInv(g) /\ Grows(h, g) /\ g.comb = h.comb /\ g.fn = h.fn
      /\ CallEffect(h, g, r, w, v)
  BY CallHeap
<1>2. Shape(h) /\ RefInv(h) /\ WayInv(h) /\ CombType(h)
  BY DEF HeapInv, PrivateInv
<1>3. \A c \in CombsOf(h) : h.comb[c].cap # r
  BY DEF Private
<1>4. CombsStay(h, g)
  <2> SUFFICES ASSUME NEW E, NEW L, NEW X, CombInv(h, JobSet(h) \cup E, L, X)
               PROVE  CombInv(g, JobSet(g) \cup E, L, X)
    BY DEF CombsStay
  <2>1. CallRight(h, r, w, v)
    BY <1>3 DEF CallRight
  <2>2. QED
    BY <1>1, <1>2, <2>1, CallComb
<1>5. QED
  BY <1>1, <1>4 DEF Quiet

LEMMA FinishQuiet ==
    ASSUME NEW h, HeapInv(h), NEW cap \in 0..Len(h.pair), cap \notin Private(h),
           NEW w \in Ways, NEW v \in -2..Len(h.state), w = 1 => v = Plain,
           NEW g, g = Finish(h, cap, w, v)
    PROVE  Quiet(h, g)
<1>1. CASE cap = 0
  BY <1>1, SameHeap DEF Finish
<1>2. CASE cap # 0
  <2>1. cap \in PairsOf(h)
    BY <1>2, ShapeLengths DEF HeapInv, Lengths, PairsOf
  <2>2. QED
    BY <1>2, <2>1, CallQuiet DEF Finish
<1>3. QED
  BY <1>1, <1>2

LEMMA CapabilityQuiet ==
    ASSUME NEW h, HeapInv(h), NEW g, g = NewCapability(h)
    PROVE  /\ Quiet(h, g) /\ CapabilityEffect(h, g)
           /\ LastPair(g) = Len(h.pair) + 1 /\ LastPromise(g) = Len(h.state) + 1
           /\ LastPair(g) \in PairsOf(g) \ PairsOf(h) /\ LastPair(g) \notin Private(g)
           /\ LastPromise(g) \in PromisesOf(g) \ PromisesOf(h)
           /\ \A r \in PairsOf(h) : g.pair[r] = h.pair[r]
<1>1. Shape(h) /\ RefInv(h) /\ WayInv(h) /\ OrderInv(h) /\ ContInv(h) /\ PrivateInv(h)
  BY DEF HeapInv
<1>2. CapabilityEffect(h, g)
  BY <1>1, NewCapabilityEffect
<1>3. CapabilityAdds(h, g)
  BY <1>1, <1>2, CapabilityLists
<1>4. Shape(g) /\ RefInv(g) /\ WayInv(g) /\ OrderInv(g) /\ ContInv(g) /\ PrivateInv(g) /\ Grows(h, g)
  BY <1>1, <1>2, CapabilityRef, CapabilityWay, CapabilityOrder, CapabilityCont,
     CapabilityPrivate DEF CapabilityEffect
<1>5. g.comb = h.comb /\ g.fn = h.fn
  BY <1>2 DEF CapabilityEffect
<1>6. CombsStay(h, g)
  BY <1>1, <1>2, CapabilityComb DEF CombsStay, PrivateInv
<1>7. /\ LastPair(g) = Len(h.pair) + 1 /\ LastPromise(g) = Len(h.state) + 1
      /\ LastPair(g) \in PairsOf(g) \ PairsOf(h)
      /\ LastPromise(g) \in PromisesOf(g) \ PromisesOf(h)
      /\ \A r \in PairsOf(h) : g.pair[r] = h.pair[r]
  BY <1>3 DEF CapabilityAdds, LastPair, LastPromise
<1>8. LastPair(g) \notin Private(g)
  <2>1. Private(g) \subseteq PairsOf(h)
    BY <1>1, <1>5 DEF Private, PrivateInv, CombType, CombsOf
  <2>2. QED
    BY <1>7, <2>1
<1>9. QED
  BY <1>2, <1>4, <1>5, <1>6, <1>7, <1>8 DEF Quiet, HeapInv

\* Handlers that a script or the engine may put on promise p.
GoodHandlers(h, p, on) ==
    /\ on \in [Ways -> Handlers]
    /\ \A w \in Ways : HandlerOK(h, on[w]) /\ on[w].kind # "await" /\ Legit(h, on[w], p, w)

LEMMA ThenEffectQuiet ==
    ASSUME NEW h, HeapInv(h), NEW p \in PromisesOf(h), NEW on, GoodHandlers(h, p, on),
           NEW cap \in 0..Len(h.pair), cap \notin Private(h),
           NEW g, ThenEffect(h, g, p, on, cap)
    PROVE  Quiet(h, g)
<1>1. Shape(h) /\ RefInv(h) /\ WayInv(h) /\ OrderInv(h) /\ ContInv(h) /\ PrivateInv(h)
  BY DEF HeapInv
<1>2. /\ \A w \in Ways : HandlerOK(h, on[w])
      /\ \A w \in Ways : on[w].kind # "await"
      /\ \A w \in Ways : Legit(h, on[w], p, w)
  BY DEF GoodHandlers
<1>3. RefInv(g)
  BY <1>1, <1>2, ThenRef
<1>4. WayInv(g) /\ OrderInv(g)
  BY <1>1, ThenWay, ThenOrder
<1>5. ContInv(g)
  BY <1>1, <1>2, ThenCont
<1>6. PrivateInv(g)
  BY <1>1, <1>2, ThenPrivate
<1>7. CombsStay(h, g)
  BY <1>1, ThenComb DEF CombsStay, PrivateInv
<1>8. Shape(g) /\ Grows(h, g) /\ g.comb = h.comb /\ g.fn = h.fn
  BY <1>1, ShapeLengths DEF ThenEffect, Grows, Lengths
<1>9. QED
  BY <1>3, <1>4, <1>5, <1>6, <1>7, <1>8 DEF Quiet, HeapInv

LEMMA PerformQuiet ==
    ASSUME NEW h, HeapInv(h), NEW p \in PromisesOf(h), NEW on, GoodHandlers(h, p, on),
           NEW cap \in 0..Len(h.pair), cap \notin Private(h),
           NEW g, g = perform_promise_then(h, p, on, cap)
    PROVE  Quiet(h, g) /\ ThenEffect(h, g, p, on, cap)
<1>1. Shape(h) /\ on \in [Ways -> Handlers] /\ cap \in Nat
  BY DEF HeapInv, GoodHandlers
<1>2. ThenEffect(h, g, p, on, cap)
  BY <1>1, PerformThenEffect
<1>3. QED
  BY <1>2, ThenEffectQuiet

\* Good handlers stay good.
LEMMA GoodHandlersKeep ==
    ASSUME NEW h, NEW g, HeapInv(h), Quiet(h, g), NEW p, NEW on, GoodHandlers(h, p, on)
    PROVE  GoodHandlers(g, p, on)
<1>1. Shape(h) /\ Shape(g) /\ Grows(h, g) /\ g.comb = h.comb /\ CombType(h)
  BY DEF HeapInv, Quiet, PrivateInv
<1>2. /\ PairsOf(h) \subseteq PairsOf(g) /\ CombsOf(h) \subseteq CombsOf(g)
      /\ FnsOf(h) \subseteq FnsOf(g)
  BY <1>1, GrowsSubset
<1>3. \A w \in Ways : HandlerOK(h, on[w]) => HandlerOK(g, on[w])
  BY <1>2 DEF HandlerOK
<1>4. CombsKeep(h, g)
  BY <1>1, SameCombs
<1>5. \A w \in Ways : Legit(h, on[w], p, w) => Legit(g, on[w], p, w)
  BY <1>1, <1>4, LegitKeeps
<1>6. QED
  BY <1>3, <1>5 DEF GoodHandlers

LEMMA ThenQuiet ==
    ASSUME NEW h, HeapInv(h), NEW p \in PromisesOf(h), NEW on, GoodHandlers(h, p, on),
           NEW g, g = js_promise_then(h, p, on)
    PROVE  /\ Quiet(h, g) /\ LastPromise(g) = Len(h.state) + 1
           /\ LastPromise(g) \in PromisesOf(g)
           /\ \A r \in PairsOf(h) : g.pair[r] = h.pair[r]
<1> DEFINE k == NewCapability(h)
           cap == LastPair(k)
<1>1. /\ Quiet(h, k) /\ LastPromise(k) = Len(h.state) + 1 /\ cap \in PairsOf(k)
      /\ cap \notin Private(k) /\ LastPromise(k) \in PromisesOf(k)
      /\ \A r \in PairsOf(h) : k.pair[r] = h.pair[r]
  BY CapabilityQuiet
<1>2. g = perform_promise_then(k, p, on, cap)
  BY DEF js_promise_then
<1> HIDE DEF k, cap
<1>3. HeapInv(k) /\ Shape(h) /\ Shape(k) /\ Grows(h, k)
  BY <1>1 DEF Quiet, HeapInv
<1>4. p \in PromisesOf(k) /\ GoodHandlers(k, p, on) /\ cap \in 0..Len(k.pair)
  BY <1>1, <1>3, GrowsSubset, GoodHandlersKeep DEF PairsOf
<1>5. Quiet(k, g) /\ ThenEffect(k, g, p, on, cap)
  BY <1>1, <1>2, <1>3, <1>4, PerformQuiet
<1>6. g.state = k.state /\ g.pair = k.pair
  BY <1>5 DEF ThenEffect
<1>7. QED
  BY <1>1, <1>3, <1>5, <1>6, QuietTrans DEF LastPromise, PromisesOf

LEMMA ResolveQuiet ==
    ASSUME NEW h, HeapInv(h), NEW v \in -2..Len(h.state), NEW g, g = js_promise_resolve(h, v)
    PROVE  Quiet(h, g) /\ PromiseFor(h, v) \in PromisesOf(g)
<1>1. CASE v > 0
  <2>1. g = h /\ PromiseFor(h, v) = v
    BY <1>1 DEF js_promise_resolve, PromiseFor
  <2>2. v \in PromisesOf(h)
    BY <1>1, ShapeLengths DEF HeapInv, Lengths, PromisesOf
  <2>3. QED
    BY <2>1, <2>2, SameHeap
<1>2. CASE ~(v > 0)
  <2> DEFINE k == NewCapability(h)
             r == LastPair(k)
  <2>1. g = Call(k, r, 0, v) /\ PromiseFor(h, v) = Len(h.state) + 1
    BY <1>2 DEF js_promise_resolve, PromiseFor, LastPromise
  <2>2. /\ Quiet(h, k) /\ LastPromise(k) = Len(h.state) + 1 /\ r \in PairsOf(k)
        /\ r \notin Private(k) /\ LastPromise(k) \in PromisesOf(k)
    BY CapabilityQuiet
  <2> HIDE DEF k, r
  <2>3. HeapInv(k) /\ Shape(h) /\ Shape(k) /\ Grows(h, k)
    BY <2>2 DEF Quiet, HeapInv
  <2>4. v \in -2..Len(k.state) /\ 0 \in Ways
    BY <2>3, GrowsSubset DEF Ways
  <2>5. Quiet(k, g)
    BY <2>1, <2>2, <2>3, <2>4, CallQuiet
  <2>6. PromisesOf(k) \subseteq PromisesOf(g)
    BY <2>3, <2>5, GrowsSubset DEF Quiet, HeapInv
  <2>7. QED
    BY <2>1, <2>2, <2>3, <2>5, <2>6, QuietTrans
<1>3. QED
  BY <1>1, <1>2

-----------------------------------------------------------------------------
(***************************************************************************)
(* The functions of combinators.                                           *)
(***************************************************************************)
LEMMA CombTypes ==
    ASSUME NEW h, Shape(h), NEW c \in CombsOf(h)
    PROVE  /\ h.comb[c] \in Combs /\ h.comb[c].kind \in Kinds /\ h.comb[c].cap \in Nat
           /\ h.comb[c].index \in Nat /\ h.comb[c].remaining \in Nat
           /\ h.comb[c].called \in SUBSET (Nat \X Ways) /\ h.comb[c].items \in Seq(Nat)
<1>1. h.comb[c] \in Combs
  BY DEF Shape, Heaps, CombsOf
<1>2. QED
  BY <1>1 DEF Combs

LEMMA HandlerKinds ==
    ASSUME NEW h, NEW c, h.comb[c].kind \in Kinds, NEW i, NEW w \in Ways,
           NEW hd, hd = HandlerAt(h, c, i, w)
    PROVE  /\ hd.kind \in {"element", "settle"}
           /\ hd.kind = "element" => hd.a = c /\ hd.b = i
           /\ hd.kind = "settle" => hd.a = h.comb[c].cap /\ hd.b = w
           /\ hd.kind = "element" <=> \/ h.comb[c].kind = "all" /\ w = 0
                                      \/ h.comb[c].kind = "allSettled"
                                      \/ h.comb[c].kind = "any" /\ w = 1
<1> DEFINE k == h.comb[c].kind
           element == Handler("element", c, i)
           settle(b) == SettleHandler(h.comb[c].cap, b)
<1>1. w = 0 \/ w = 1
  BY DEF Ways
<1>2. CASE k = "all"
  <2>1. hd = IF w = 0 THEN element ELSE settle(1)
    BY <1>1, <1>2 DEF HandlerAt, ElementHandlers, Both
  <2>2. QED
    BY <1>1, <1>2, <2>1 DEF Handler, SettleHandler
<1>3. CASE k = "allSettled"
  <2>1. hd = element
    BY <1>1, <1>3 DEF HandlerAt, ElementHandlers, Both
  <2>2. QED
    BY <1>1, <1>3, <2>1 DEF Handler
<1>4. CASE k = "any"
  <2>1. hd = IF w = 0 THEN settle(0) ELSE element
    BY <1>1, <1>4 DEF HandlerAt, ElementHandlers, Both
  <2>2. QED
    BY <1>1, <1>4, <2>1 DEF Handler, SettleHandler
<1>5. CASE k = "race"
  <2>1. hd = IF w = 0 THEN settle(0) ELSE settle(1)
    BY SMTT(30), <1>1, <1>5 DEF HandlerAt, ElementHandlers, Both
  <2>2. QED
    BY <1>1, <1>5, <2>1 DEF Handler, SettleHandler
<1>6. QED
  BY <1>2, <1>3, <1>4, <1>5 DEF Kinds

\* The job in hand is done with.
LEMMA DropJob ==
    ASSUME NEW h, NEW J, NEW x, DoneInv(h, J \cup {x}),
           \A c \in CombsOf(h), w \in Ways : \A i \in 1..h.comb[c].index :
              IsJobFor(x, HandlerAt(h, c, i, w), h.comb[c].items[i], w) => Processed(h, c, i, w)
    PROVE  DoneInv(h, J)
BY DEF DoneInv

\* Combinator c becomes m.
CombEffect(h, g, c, m) ==
    /\ Shape(g)
    /\ CombsOf(g) = CombsOf(h)
    /\ Len(g.comb) = Len(h.comb)
    /\ g.comb[c] = m
    /\ \A d \in CombsOf(h) : d # c => g.comb[d] = h.comb[d]
    /\ g.state = h.state /\ g.reactions = h.reactions /\ g.jobs = h.jobs /\ g.pair = h.pair
    /\ g.resolved = h.resolved /\ g.count = h.count /\ g.ran = h.ran /\ g.fn = h.fn

LEMMA CombHasEffect ==
    ASSUME NEW h, Shape(h), NEW c \in CombsOf(h), NEW m \in Combs,
           NEW g, g = [h EXCEPT !.comb[c] = m]
    PROVE  CombEffect(h, g, c, m)
<1> DEFINE comb == [h.comb EXCEPT ![c] = m]
<1>1. h \in Heaps /\ h.comb \in Seq(Combs) /\ c \in 1..Len(h.comb)
  BY DEF Shape, Heaps, CombsOf
<1>2. /\ comb \in Seq(Combs) /\ Len(comb) = Len(h.comb)
      /\ \A d \in 1..Len(h.comb) : comb[d] = IF d = c THEN m ELSE h.comb[d]
  BY <1>1, UpdateFacts
<1>3. g = [h EXCEPT !.comb = comb]
  BY <1>1 DEF Heaps
<1> HIDE DEF comb
<1>4. /\ g \in Heaps /\ g.comb = comb /\ g.result = h.result
      /\ g.state = h.state /\ g.reactions = h.reactions /\ g.jobs = h.jobs /\ g.pair = h.pair
      /\ g.resolved = h.resolved /\ g.count = h.count /\ g.ran = h.ran /\ g.fn = h.fn
  BY <1>1, <1>2, <1>3 DEF Heaps
<1>5. Shape(g)
  BY <1>4 DEF Shape
<1>6. QED
  BY <1>1, <1>2, <1>4, <1>5 DEF CombEffect, CombsOf

\* The parts of the invariant that do not look into combinators.
LEMMA CombHeap ==
    ASSUME NEW h, NEW g, HeapInv(h), NEW c \in CombsOf(h), NEW m, CombEffect(h, g, c, m),
           m.kind = h.comb[c].kind, m.items = h.comb[c].items, m.cap = h.comb[c].cap,
           h.comb[c].index <= m.index, m.index \in 0..Len(m.items),
           m.called \subseteq (1..m.index) \X Ways
    PROVE  HeapInv(g) /\ Grows(h, g) /\ CombsKeep(h, g)
<1>1. Shape(h) /\ RefInv(h) /\ WayInv(h) /\ OrderInv(h) /\ ContInv(h) /\ PrivateInv(h) /\ CombType(h)
  BY DEF HeapInv, PrivateInv
<1>2. /\ Shape(g) /\ Len(g.comb) = Len(h.comb) /\ g.state = h.state
      /\ g.reactions = h.reactions /\ g.jobs = h.jobs /\ g.pair = h.pair
      /\ g.resolved = h.resolved /\ g.count = h.count /\ g.ran = h.ran /\ g.fn = h.fn
  BY DEF CombEffect
<1>3. Lengths(h) /\ Lengths(g) /\ Grows(h, g)
  BY <1>1, <1>2, ShapeLengths DEF Grows, Lengths
<1>4. WayInv(g) /\ OrderInv(g)
  BY <1>1, <1>2, SameWay, SameOrder
<1>5. ContInv(g)
  <2>1. FnsKeep(h, g)
    BY <1>2 DEF FnsOf, FnsKeep
  <2>2. QED
    BY <1>1, <1>2, <2>1, FnCont
<1>6. CombsKeep(h, g)
  <2>1. \A d \in CombsOf(h) : d # c => h.comb[d].index <= g.comb[d].index
    BY <1>1, CombTypes DEF CombEffect
  <2>2. QED
    BY <1>1, <2>1 DEF CombsKeep, CombEffect, CombType
<1>7. PrivateInv(g)
  <2>1. \A f \in FnsOf(g) : g.fn[f].cap \notin Private(h)
    BY <1>1, <1>2 DEF PrivateInv, FnsOf
  <2>2. PairsOf(h) \subseteq PairsOf(g)
    BY <1>2 DEF PairsOf
  <2>3. QED
    BY <1>1, <1>2, <1>6, <2>1, <2>2, SamePrivate
<1>8. RefInv(g)
  <2>1. \A x : RefOK(h, x) => RefOK(g, x)
    BY <1>3, RefOKGrows
  <2>2. QED
    BY SMTT(30), <1>1, <1>2, <2>1 DEF RefInv, PairsOf, PromisesOf, FnsOf, JobsOf, ListOf
<1>9. QED
  BY <1>2, <1>3, <1>4, <1>5, <1>6, <1>7, <1>8 DEF HeapInv

\* When no element is waited for any more, the outcome is justified.
LEMMA AllDone ==
    ASSUME NEW h, Shape(h), CombType(h), CalledInv(h), NEW c \in CombsOf(h),
           h.comb[c].kind # "race", h.comb[c].index = Len(h.comb[c].items),
           Uncalled(h.comb[c]) = {}
    PROVE  Justified(h, h.comb[c], Outcome(ResolvesWith(h.comb[c].kind)))
<1> DEFINE m == h.comb[c]
           s == Outcome(ResolvesWith(m.kind))
<1>1. m.kind \in Kinds \ {"race"}
  BY CombTypes
<1>2. \A i \in 1..Len(m.items) : \E w \in Ways :
          /\ h.state[m.items[i]] = Outcome(w) /\ HandlerAt(h, c, i, w).kind = "element"
  <2> SUFFICES ASSUME NEW i \in 1..m.index
               PROVE  \E w \in Ways : /\ h.state[m.items[i]] = Outcome(w)
                                      /\ HandlerAt(h, c, i, w).kind = "element"
    OBVIOUS
  <2>1. <<i, 0>> \in m.called \/ <<i, 1>> \in m.called
    BY DEF Uncalled
  <2>2. PICK w \in Ways : <<i, w>> \in m.called
    BY <2>1 DEF Ways
  <2>3. QED
    BY <2>2 DEF CalledInv
<1>3. \A i \in 1..Len(m.items) : \E w \in Ways :
          /\ h.state[m.items[i]] = Outcome(w)
          /\ (m.kind = "all" /\ w = 0) \/ m.kind = "allSettled" \/ (m.kind = "any" /\ w = 1)
  BY <1>1, <1>2, HandlerKinds
<1> HIDE DEF m
<1>4. CASE m.kind = "all"
  BY <1>3, <1>4 DEF Justified, Outcome, ResolvesWith, m
<1>5. CASE m.kind = "any"
  BY <1>3, <1>5 DEF Justified, Outcome, ResolvesWith, m
<1>6. CASE m.kind = "allSettled"
  BY <1>3, <1>6 DEF Justified, Outcome, ResolvesWith, m
<1>7. QED
  BY <1>1, <1>4, <1>5, <1>6 DEF Kinds

LEMMA UncalledFinite ==
    ASSUME NEW m, m.index \in Nat
    PROVE  IsFiniteSet(Uncalled(m)) /\ Cardinality(Uncalled(m)) \in Nat
<1>1. IsFiniteSet(1..m.index)
  BY FS_Interval
<1>2. Uncalled(m) \subseteq 1..m.index
  BY DEF Uncalled
<1>3. IsFiniteSet(Uncalled(m))
  BY <1>1, <1>2, FS_Subset
<1>4. QED
  BY <1>3, FS_CardinalityType

LEMMA NothingUncalled ==
    ASSUME NEW m, m.index \in Nat, Cardinality(Uncalled(m)) = 0
    PROVE  Uncalled(m) = {}
BY UncalledFinite, FS_EmptySet

\* The elements of a combinator stay what they are; some may have been called.
LEMMA CombDone ==
    ASSUME NEW h, NEW g, NEW c \in CombsOf(h), NEW m, CombEffect(h, g, c, m),
           m.kind = h.comb[c].kind, m.items = h.comb[c].items, m.cap = h.comb[c].cap,
           m.index = h.comb[c].index, h.comb[c].called \subseteq m.called,
           NEW J, DoneInv(h, J), JustInv(h)
    PROVE  DoneInv(g, J) /\ JustInv(g)
<1>1. /\ CombsOf(g) = CombsOf(h) /\ g.state = h.state /\ g.reactions = h.reactions
      /\ g.pair = h.pair /\ \A r : Open(g, r) <=> Open(h, r)
      /\ \A q, w : ListOf(g, q, w) = ListOf(h, q, w)
  BY DEF CombEffect, Open, ListOf
<1>2. \A d \in CombsOf(h) :
          /\ g.comb[d].kind = h.comb[d].kind /\ g.comb[d].items = h.comb[d].items
          /\ g.comb[d].cap = h.comb[d].cap /\ g.comb[d].index = h.comb[d].index
          /\ h.comb[d].called \subseteq g.comb[d].called
  BY DEF CombEffect
<1>3. \A d \in CombsOf(h) : \A i, w :
          /\ HandlerAt(g, d, i, w) = HandlerAt(h, d, i, w)
          /\ Processed(h, d, i, w) => Processed(g, d, i, w)
  BY SMTT(30), <1>1, <1>2 DEF HandlerAt, Processed
<1>4. DoneInv(g, J)
  <2> SUFFICES ASSUME NEW d \in CombsOf(g), NEW w \in Ways, NEW i \in 1..g.comb[d].index,
                      NEW p, NEW hd, p = g.comb[d].items[i], hd = HandlerAt(g, d, i, w)
               PROVE  /\ g.state[p] = "pending" =>
                            \E n \in ListOf(g, p, w) : g.reactions[p][w][n].handler = hd
                      /\ g.state[p] = Outcome(w) =>
                            Processed(g, d, i, w) \/ \E j \in J : IsJobFor(j, hd, p, w)
    BY SMTT(30) DEF DoneInv
  <2>1. /\ d \in CombsOf(h) /\ i \in 1..h.comb[d].index
        /\ p = h.comb[d].items[i] /\ hd = HandlerAt(h, d, i, w)
    BY <1>1, <1>2, <1>3
  <2>2. /\ h.state[p] = "pending" =>
              \E n \in ListOf(h, p, w) : h.reactions[p][w][n].handler = hd
        /\ h.state[p] = Outcome(w) =>
              Processed(h, d, i, w) \/ \E j \in J : IsJobFor(j, hd, p, w)
    BY SMTT(30), <2>1 DEF DoneInv
  <2>3. QED
    BY SMTT(30), <1>1, <1>3, <2>1, <2>2
<1>5. JustInv(g)
  <2>1. \A d \in CombsOf(h) : \A s : Justified(h, h.comb[d], s) <=> Justified(g, g.comb[d], s)
    BY ZenonT(60), <1>1, <1>2 DEF Justified
  <2>2. QED
    BY <1>1, <1>2, <2>1 DEF JustInv
<1>6. QED
  BY <1>4, <1>5

\* js_promise_all_resolve_element up to the test of the count.
LEMMA ElementCounts ==
    ASSUME NEW h, HeapInv(h), NEW c \in CombsOf(h), NEW w \in Ways,
           NEW i \in 1..h.comb[c].index, HandlerAt(h, c, i, w).kind = "element",
           h.state[h.comb[c].items[i]] = Outcome(w), <<i, w>> \notin h.comb[c].called,
           NEW J, CombInv(h, J, {}, {}),
           NEW g, g = [h EXCEPT !.comb[c].called = @ \cup {<<i, w>>},
                                !.comb[c].remaining = @ - 1]
    PROVE  /\ HeapInv(g) /\ Grows(h, g) /\ CombsKeep(h, g) /\ g.fn = h.fn /\ g.jobs = h.jobs
           /\ CombInv(g, J, {}, {c})
           /\ <<i, w>> \in g.comb[c].called
           /\ g.comb[c].remaining = h.comb[c].remaining - 1
           /\ g.comb[c].remaining = 0 =>
                 Justified(g, g.comb[c], Outcome(ResolvesWith(g.comb[c].kind)))
<1> DEFINE o == h.comb[c]
           m == [o EXCEPT !.called = @ \cup {<<i, w>>}, !.remaining = @ - 1]
<1>1. Shape(h) /\ CombType(h) /\ DoneInv(h, J) /\ CalledInv(h) /\ CountInv(h, {}) /\ ZeroInv(h, {}) /\ JustInv(h)
  BY DEF HeapInv, PrivateInv, CombInv
<1>2. /\ o \in Combs /\ o.kind \in Kinds /\ o.index \in Nat /\ o.remaining \in Nat
      /\ o.called \in SUBSET (Nat \X Ways) /\ o.index = Len(o.items)
      /\ o.called \subseteq (1..o.index) \X Ways
  BY <1>1, CombTypes DEF CountInv, CombType
<1>3. o.kind # "race"
  BY <1>2, HandlerKinds
<1>4. o.remaining = Cardinality(Uncalled(o))
  <2>1. o.remaining = Cardinality(Uncalled(o)) + 0
    BY <1>1, <1>3 DEF CountInv
  <2>2. Cardinality(Uncalled(o)) \in Nat
    BY <1>2, UncalledFinite
  <2>3. QED
    BY <2>1, <2>2
<1>5. i \in Uncalled(o)
  <2>1. \A v \in Ways : <<i, v>> \in o.called => v = w
    BY <1>1, OutcomeStates DEF CalledInv
  <2>2. QED
    BY <2>1 DEF Uncalled, Ways
<1>6. /\ m.called = o.called \cup {<<i, w>>} /\ m.remaining = o.remaining - 1
      /\ m.kind = o.kind /\ m.items = o.items /\ m.cap = o.cap /\ m.index = o.index
  BY <1>2 DEF Combs
<1>7. g = [h EXCEPT !.comb[c] = m]
  <2>1. h \in Heaps /\ h.comb \in Seq(Combs) /\ c \in 1..Len(h.comb)
    BY <1>1 DEF Shape, Heaps, CombsOf
  <2> DEFINE F == [h.comb EXCEPT ![c].called = o.called \cup {<<i, w>>},
                                ![c].remaining = o.remaining - 1]
  <2>2. g = [h EXCEPT !.comb = F]
    BY <2>1 DEF Heaps
  <2>3. F = [h.comb EXCEPT ![c] = m]
    <3> DEFINE E == [o EXCEPT !.called = o.called \cup {<<i, w>>}]
               C == [h.comb EXCEPT ![c] = E]
    <3>1. DOMAIN h.comb = 1..Len(h.comb)
      BY <2>1
    <3>2. C = [h.comb EXCEPT ![c].called = o.called \cup {<<i, w>>}] /\ C[c] = E
      BY <2>1, <3>1
    <3>3. F = [C EXCEPT ![c] = [E EXCEPT !.remaining = o.remaining - 1]]
      BY <3>1, <3>2
    <3>4. [E EXCEPT !.remaining = o.remaining - 1] = m
      BY <1>2 DEF Combs
    <3> HIDE DEF E, m
    <3>5. QED
      BY <3>1, <3>3, <3>4
  <2>4. QED
    BY <2>2, <2>3
<1> HIDE DEF m
<1>8. Uncalled(m) = Uncalled(o) \ {i}
  BY <1>5, <1>6 DEF Uncalled, Ways
<1>9. Cardinality(Uncalled(m)) = o.remaining - 1 /\ o.remaining - 1 \in Nat
  <2>1. IsFiniteSet(Uncalled(o))
    BY <1>2, UncalledFinite
  <2>2. Cardinality(Uncalled(m)) = Cardinality(Uncalled(o)) - 1
    <3> DEFINE U == Uncalled(o)
    <3>1. i \in U /\ IsFiniteSet(U) /\ Uncalled(m) = U \ {i}
      BY <1>5, <1>8, <2>1
    <3> HIDE DEF U
    <3>2. Cardinality(U \ {i}) = Cardinality(U) - 1
      BY <3>1, FS_RemoveElement
    <3>3. QED
      BY <3>1, <3>2 DEF U
  <2>3. Cardinality(Uncalled(m)) \in Nat
    BY <1>2, <1>6, UncalledFinite
  <2>4. QED
    BY <1>4, <2>2, <2>3
<1>10. m \in Combs
  <2>1. m.called \in SUBSET (Nat \X Ways)
    BY <1>2, <1>6
  <2>2. m = [o EXCEPT !.called = m.called, !.remaining = m.remaining]
    BY <1>2, <1>6 DEF m, Combs
  <2>3. QED
    BY <1>2, <1>6, <1>9, <2>1, <2>2 DEF Combs
<1>11. CombEffect(h, g, c, m)
  BY <1>1, <1>7, <1>10, CombHasEffect
<1> HIDE DEF o
<1>12. /\ h.comb[c] = o /\ g.comb[c] = m /\ g.fn = h.fn /\ g.jobs = h.jobs
       /\ CombsOf(g) = CombsOf(h) /\ \A d \in CombsOf(h) : d # c => g.comb[d] = h.comb[d]
       /\ g.state = h.state /\ g.resolved = h.resolved
  BY <1>11 DEF CombEffect, o
<1>13. HeapInv(g) /\ Grows(h, g) /\ CombsKeep(h, g)
  <2>1. m.called \subseteq (1..m.index) \X Ways
    BY <1>2, <1>6, <1>12
  <2>2. h.comb[c].index <= m.index /\ m.index \in 0..Len(m.items)
    BY <1>2, <1>6, <1>12
  <2>3. QED
    BY ZenonT(60), <1>6, <1>11, <1>12, <2>1, <2>2, CombHeap
<1>14. DoneInv(g, J) /\ JustInv(g)
  <2>1. h.comb[c].called \subseteq m.called
    BY <1>6, <1>12
  <2>2. QED
    BY <1>1, <1>6, <1>11, <1>12, <2>1, CombDone
<1>15. CalledInv(g)
  <2> SUFFICES ASSUME NEW d \in CombsOf(h), NEW v \in Ways, NEW n \in 1..g.comb[d].index,
                      <<n, v>> \in g.comb[d].called
               PROVE  /\ g.state[g.comb[d].items[n]] = Outcome(v)
                      /\ HandlerAt(g, d, n, v).kind = "element"
    BY <1>12 DEF CalledInv
  <2>1. /\ g.comb[d].items = h.comb[d].items /\ g.comb[d].index = h.comb[d].index
        /\ HandlerAt(g, d, n, v) = HandlerAt(h, d, n, v)
    BY <1>6, <1>12 DEF HandlerAt
  <2>2. CASE <<n, v>> \in h.comb[d].called
    BY <1>1, <1>12, <2>1, <2>2 DEF CalledInv
  <2>3. CASE <<n, v>> \notin h.comb[d].called
    <3>1. d = c /\ <<n, v>> = <<i, w>>
      BY <1>6, <1>12, <2>3
    <3>2. n = i /\ v = w
      BY <3>1
    <3>3. QED
      BY <1>12, <2>1, <3>1, <3>2
  <2>4. QED
    BY <2>2, <2>3
<1>16. CountInv(g, {})
  <2> SUFFICES ASSUME NEW d \in CombsOf(h)
               PROVE  /\ g.comb[d].index = Len(g.comb[d].items)
                      /\ g.comb[d].kind # "race" =>
                            g.comb[d].remaining = Cardinality(Uncalled(g.comb[d])) + 0
    BY <1>12 DEF CountInv
  <2>1. CASE d = c
    <3>1. g.comb[d] = m /\ m.index = Len(m.items)
      BY <1>2, <1>6, <1>12, <2>1
    <3>2. m.remaining = Cardinality(Uncalled(m)) + 0
      BY <1>2, <1>6, <1>9
    <3>3. QED
      BY <3>1, <3>2
  <2>2. CASE d # c
    BY <1>1, <1>12, <2>2 DEF CountInv
  <2>3. QED
    BY <2>1, <2>2
<1>17. ZeroInv(g, {c})
  BY <1>1, <1>12 DEF ZeroInv, Open
<1>18. g.comb[c].remaining = 0 => Justified(g, g.comb[c], Outcome(ResolvesWith(g.comb[c].kind)))
  <2> SUFFICES ASSUME g.comb[c].remaining = 0
               PROVE  Justified(g, g.comb[c], Outcome(ResolvesWith(g.comb[c].kind)))
    OBVIOUS
  <2>1. Uncalled(g.comb[c]) = {}
    <3>1. m.remaining = 0 /\ g.comb[c] = m
      BY <1>12
    <3>2. Cardinality(Uncalled(m)) = 0 /\ m.index \in Nat
      BY <1>2, <1>6, <1>9, <3>1
    <3>3. QED
      BY <3>1, <3>2, NothingUncalled
  <2>2. c \in CombsOf(g) /\ g.comb[c].kind # "race" /\ g.comb[c].index = Len(g.comb[c].items)
    BY SMTT(30), <1>2, <1>3, <1>6, <1>12
  <2>3. Shape(g) /\ CombType(g)
    BY <1>13 DEF HeapInv, PrivateInv
  <2>4. QED
    BY <1>15, <2>1, <2>2, <2>3, AllDone
<1>19. QED
  BY <1>6, <1>12, <1>13, <1>14, <1>15, <1>16, <1>17, <1>18 DEF CombInv

\* From h to k the last element of c was called, or its loop has ended.
EndsWith(h, k, c, b, E) ==
    /\ HeapInv(h) /\ HeapInv(k) /\ Grows(h, k) /\ CombsKeep(h, k) /\ c \in CombsOf(k)
    /\ b \in Ways /\ Justified(k, k.comb[c], Outcome(b))
    /\ CombInv(k, JobSet(k) \cup E, {}, {c})

Ended(h, k, g, E) ==
    /\ HeapInv(g) /\ Grows(h, g) /\ CombsKeep(h, g) /\ g.comb = k.comb /\ g.fn = k.fn
    /\ CombInv(g, JobSet(g) \cup E, {}, {})

\* Then the promise of c is settled.
LEMMA CombinatorEnds ==
    ASSUME NEW h, NEW k, NEW c, NEW b, NEW E, EndsWith(h, k, c, b, E),
           NEW r, r = k.comb[c].cap, NEW g, g = Call(k, r, b, Plain)
    PROVE  Ended(h, k, g, E)
<1> DEFINE X == {c}
<1>1. /\ HeapInv(h) /\ HeapInv(k) /\ Grows(h, k) /\ CombsKeep(h, k) /\ c \in CombsOf(k)
      /\ b \in Ways /\ Justified(k, k.comb[c], Outcome(b))
      /\ CombInv(k, JobSet(k) \cup E, {}, X)
  BY DEF EndsWith
<1> HIDE DEF X
<1>2. Shape(k) /\ RefInv(k) /\ WayInv(k) /\ PrivateInv(k) /\ CombType(k)
  BY <1>1 DEF HeapInv, PrivateInv
<1>3. r \in PairsOf(k) /\ \A d \in CombsOf(k) : k.comb[d].cap = r => d = c
  BY <1>1, <1>2 DEF CombType, PrivateInv
<1>4. Plain \in -2..Len(k.state)
  BY <1>2, ShapeLengths DEF Plain, Lengths
<1>5. /\ HeapInv(g) /\ Grows(k, g) /\ g.comb = k.comb /\ g.fn = k.fn
      /\ CallEffect(k, g, r, b, Plain) /\ ~Open(g, r)
  BY <1>1, <1>3, <1>4, CallHeap
<1>6. CallRight(k, r, b, Plain)
  BY <1>1, <1>3 DEF CallRight
<1>7. CombInv(g, JobSet(g) \cup E, {}, X)
  BY <1>1, <1>2, <1>3, <1>5, <1>6, CallComb
<1>8. CombsOf(g) = CombsOf(k)
  BY <1>5 DEF CombsOf
<1>9. ZeroInv(g, {})
  BY <1>5, <1>7, <1>8 DEF CombInv, ZeroInv, X
<1>10. Lengths(h) /\ Lengths(k) /\ Lengths(g)
  BY <1>1, <1>5, ShapeLengths DEF HeapInv
<1>11. Grows(h, g)
  BY SMTT(30), <1>1, <1>5, <1>10 DEF Grows, Lengths
<1>12. CombsKeep(h, g)
  BY <1>1, <1>5, <1>8 DEF CombsKeep
<1>13. QED
  BY <1>5, <1>7, <1>9, <1>11, <1>12 DEF CombInv, Ended

NoneLoops(h, E) == CombInv(h, JobSet(h) \cup E, {}, {})

\* Element i of c is called for the outcome w of its promise.
ElementRuns(h, c, i, w) ==
    /\ c \in CombsOf(h) /\ w \in Ways /\ i \in 1..h.comb[c].index
    /\ HandlerAt(h, c, i, w).kind = "element" /\ h.state[h.comb[c].items[i]] = Outcome(w)

ElementRan(h, g, c, i, w) ==
    /\ HeapInv(g) /\ Grows(h, g) /\ CombsKeep(h, g) /\ g.fn = h.fn
    /\ <<i, w>> \in g.comb[c].called

\* js_promise_all_resolve_element
LEMMA ElementHeap ==
    ASSUME NEW h, HeapInv(h), NEW c, NEW i, NEW w, ElementRuns(h, c, i, w),
           NEW E, NoneLoops(h, E), NEW g, g = ResolveElement(h, c, i, w)
    PROVE  ElementRan(h, g, c, i, w) /\ NoneLoops(g, E)
<1>1. /\ c \in CombsOf(h) /\ w \in Ways /\ i \in 1..h.comb[c].index
      /\ HandlerAt(h, c, i, w).kind = "element" /\ h.state[h.comb[c].items[i]] = Outcome(w)
  BY DEF ElementRuns
<1> USE DEF NoneLoops, ElementRan
<1>2. Shape(h) /\ CombType(h)
  BY DEF HeapInv, PrivateInv
<1>3. CASE <<i, w>> \in h.comb[c].called
  <2>1. g = h
    BY <1>3 DEF ResolveElement
  <2>2. Grows(h, h) /\ CombsKeep(h, h)
    BY <1>2, ShapeLengths, SameCombs DEF Grows, Lengths
  <2>3. QED
    BY <1>3, <2>1, <2>2
<1>4. CASE <<i, w>> \notin h.comb[c].called
  <2> DEFINE k == [h EXCEPT !.comb[c].called = @ \cup {<<i, w>>}, !.comb[c].remaining = @ - 1]
             m == h.comb[c]
  <2>1. g = IF m.remaining = 1 THEN Call(k, m.cap, ResolvesWith(m.kind), Plain) ELSE k
    BY <1>4 DEF ResolveElement
  <2>2. /\ HeapInv(k) /\ Grows(h, k) /\ CombsKeep(h, k) /\ k.fn = h.fn /\ k.jobs = h.jobs
        /\ CombInv(k, JobSet(h) \cup E, {}, {c})
        /\ <<i, w>> \in k.comb[c].called
        /\ k.comb[c].remaining = m.remaining - 1
        /\ k.comb[c].remaining = 0 =>
              Justified(k, k.comb[c], Outcome(ResolvesWith(k.comb[c].kind)))
    BY <1>1, <1>4, ElementCounts
  <2>3. m.remaining \in Nat
    BY <1>1, <1>2, CombTypes
  <2> HIDE DEF k
  <2>4. /\ c \in CombsOf(k) /\ k.comb[c].kind = m.kind /\ k.comb[c].cap = m.cap
        /\ JobSet(k) = JobSet(h)
    BY <1>1, <2>2 DEF CombsKeep, JobSet, JobsOf
  <2>5. CASE m.remaining = 1
    <3> DEFINE b == ResolvesWith(m.kind)
               r == m.cap
    <3>1. g = Call(k, r, b, Plain) /\ r = k.comb[c].cap
      BY <2>1, <2>4, <2>5
    <3>2. b \in Ways /\ Justified(k, k.comb[c], Outcome(b))
      BY <2>2, <2>4, <2>5 DEF ResolvesWith, Ways
    <3> HIDE DEF b, r
    <3>3. EndsWith(h, k, c, b, E)
      BY <2>2, <2>4, <3>2 DEF EndsWith
    <3>4. Ended(h, k, g, E)
      BY <3>1, <3>3, CombinatorEnds
    <3>5. QED
      BY <2>2, <3>4 DEF Ended
  <2>6. CASE m.remaining # 1
    <3>1. g = k /\ k.comb[c].remaining # 0
      BY <2>1, <2>2, <2>3, <2>6
    <3>2. ZeroInv(k, {})
      BY <2>2, <3>1 DEF CombInv, ZeroInv
    <3>3. QED
      BY <2>2, <2>4, <3>1, <3>2 DEF CombInv
  <2>7. QED
    BY <2>5, <2>6
<1>5. QED
  BY <1>3, <1>4

\* js_promise_all and js_promise_race after their loop.
LEMMA EndLoopHeap ==
    ASSUME NEW h, HeapInv(h), NEW c \in CombsOf(h), h.comb[c].index = Len(h.comb[c].items),
           NEW E, CombInv(h, JobSet(h) \cup E, {c}, {}), NEW g, g = EndLoop(h, c)
    PROVE  /\ HeapInv(g) /\ Grows(h, g) /\ CombsKeep(h, g) /\ g.fn = h.fn
           /\ CombInv(g, JobSet(g) \cup E, {}, {})
<1> DEFINE o == h.comb[c]
           m == [o EXCEPT !.remaining = @ - 1]
           k == [h EXCEPT !.comb[c].remaining = @ - 1]
<1>1. /\ Shape(h) /\ CombType(h) /\ DoneInv(h, JobSet(h) \cup E) /\ CalledInv(h)
      /\ CountInv(h, {c}) /\ ZeroInv(h, {}) /\ JustInv(h)
  BY DEF HeapInv, PrivateInv, CombInv
<1>2. /\ o \in Combs /\ o.kind \in Kinds /\ o.index \in Nat /\ o.remaining \in Nat
      /\ o.called \subseteq (1..o.index) \X Ways
  BY <1>1, CombTypes DEF CombType
<1>3. CASE o.kind = "race"
  <2>1. g = h
    BY <1>3 DEF EndLoop
  <2>2. Grows(h, h) /\ CombsKeep(h, h)
    BY <1>1, ShapeLengths, SameCombs DEF Grows, Lengths
  <2>3. CountInv(h, {})
    <3> SUFFICES ASSUME NEW d \in CombsOf(h)
                 PROVE  /\ h.comb[d].index = Len(h.comb[d].items)
                        /\ h.comb[d].kind # "race" =>
                              h.comb[d].remaining = Cardinality(Uncalled(h.comb[d])) + 0
      BY DEF CountInv
    <3>1. CASE d = c
      BY <1>3, <3>1
    <3>2. CASE d # c
      BY <1>1, <3>2 DEF CountInv
    <3>3. QED
      BY <3>1, <3>2
  <2>4. QED
    BY <1>1, <2>1, <2>2, <2>3 DEF CombInv
<1>4. CASE o.kind # "race"
  <2>1. g = IF o.remaining = 1 THEN Call(k, o.cap, ResolvesWith(o.kind), Plain) ELSE k
    BY <1>4 DEF EndLoop
  <2>2. /\ m.remaining = o.remaining - 1 /\ m.called = o.called
        /\ m.kind = o.kind /\ m.items = o.items /\ m.cap = o.cap /\ m.index = o.index
    BY <1>2 DEF Combs
  <2>3. k = [h EXCEPT !.comb[c] = m]
    <3>1. h \in Heaps /\ h.comb \in Seq(Combs) /\ c \in 1..Len(h.comb)
      BY <1>1 DEF Shape, Heaps, CombsOf
    <3>2. QED
      BY <1>2, <3>1 DEF Heaps, Combs
  <2>4. /\ o.remaining = Cardinality(Uncalled(o)) + 1
        /\ Uncalled(m) = Uncalled(o) /\ Cardinality(Uncalled(o)) \in Nat
    BY <1>1, <1>2, <1>4, <2>2, UncalledFinite DEF CountInv, Uncalled
  <2> HIDE DEF m
  <2>5. m.remaining = Cardinality(Uncalled(m)) /\ m.remaining \in Nat
    BY <2>2, <2>4
  <2>6. m \in Combs
    <3>1. m = [o EXCEPT !.remaining = m.remaining]
      BY <1>2, <2>2 DEF m, Combs
    <3>2. QED
      BY <1>2, <2>5, <3>1 DEF Combs
  <2> HIDE DEF k
  <2>7. CombEffect(h, k, c, m)
    BY <1>1, <2>3, <2>6, CombHasEffect
  <2> HIDE DEF o
  <2>8. /\ h.comb[c] = o /\ k.comb[c] = m /\ k.fn = h.fn /\ k.jobs = h.jobs
        /\ CombsOf(k) = CombsOf(h) /\ \A d \in CombsOf(h) : d # c => k.comb[d] = h.comb[d]
        /\ k.state = h.state /\ k.resolved = h.resolved
    BY <2>7 DEF CombEffect, o
  <2>9. HeapInv(k) /\ Grows(h, k) /\ CombsKeep(h, k)
    <3>1. m.called \subseteq (1..m.index) \X Ways
      BY <1>2, <2>2
    <3>2. h.comb[c].index <= m.index /\ m.index \in 0..Len(m.items)
      BY <1>2, <2>2, <2>8
    <3>3. QED
      BY <2>2, <2>7, <2>8, <3>1, <3>2, CombHeap
  <2>10. DoneInv(k, JobSet(h) \cup E) /\ JustInv(k)
    <3>1. h.comb[c].called \subseteq m.called
      BY <2>2, <2>8
    <3>2. QED
      BY <1>1, <2>2, <2>7, <2>8, <3>1, CombDone
  <2>11. CalledInv(k)
    <3>1. \A d \in CombsOf(h) :
              /\ k.comb[d].items = h.comb[d].items /\ k.comb[d].index = h.comb[d].index
              /\ k.comb[d].called = h.comb[d].called
              /\ \A n, v : HandlerAt(k, d, n, v) = HandlerAt(h, d, n, v)
      BY <2>2, <2>8 DEF HandlerAt
    <3>2. QED
      BY <1>1, <2>8, <3>1 DEF CalledInv
  <2>12. CountInv(k, {})
    <3> SUFFICES ASSUME NEW d \in CombsOf(h)
                 PROVE  /\ k.comb[d].index = Len(k.comb[d].items)
                        /\ k.comb[d].kind # "race" =>
                              k.comb[d].remaining = Cardinality(Uncalled(k.comb[d])) + 0
      BY <2>8 DEF CountInv
    <3>1. CASE d = c
      <4>1. k.comb[d] = m /\ m.index = Len(m.items)
        BY <2>2, <2>8, <3>1
      <4>2. m.remaining = Cardinality(Uncalled(m)) + 0
        BY <2>5
      <4>3. QED
        BY <4>1, <4>2
    <3>2. CASE d # c
      BY <1>1, <2>8, <3>2 DEF CountInv
    <3>3. QED
      BY <3>1, <3>2
  <2>13. ZeroInv(k, {c})
    BY <1>1, <2>8 DEF ZeroInv, Open
  <2>14. JobSet(k) = JobSet(h)
    BY <2>8 DEF JobSet, JobsOf
  <2>15. CASE o.remaining = 1
    <3> DEFINE b == ResolvesWith(k.comb[c].kind)
               r == o.cap
    <3>1. g = Call(k, r, b, Plain) /\ c \in CombsOf(k)
      BY <2>1, <2>2, <2>8, <2>15
    <3>2. b \in Ways
      BY DEF ResolvesWith, Ways
    <3>3. Justified(k, k.comb[c], Outcome(b))
      <4>1. Uncalled(k.comb[c]) = {}
        <5>1. Cardinality(Uncalled(m)) = 0 /\ m.index \in Nat
          BY <1>2, <2>2, <2>5, <2>15
        <5>2. QED
          BY <2>8, <5>1, NothingUncalled
      <4>2. k.comb[c].kind # "race" /\ k.comb[c].index = Len(k.comb[c].items)
        BY <1>4, <2>2, <2>8
      <4>3. Shape(k) /\ CombType(k)
        BY <2>9 DEF HeapInv, PrivateInv
      <4>4. QED
        BY <2>11, <3>1, <4>1, <4>2, <4>3, AllDone
    <3>a. r = k.comb[c].cap
      BY <2>2, <2>8
    <3> HIDE DEF b, r
    <3>4. EndsWith(h, k, c, b, E)
      BY <2>9, <2>10, <2>11, <2>12, <2>13, <2>14, <3>1, <3>2, <3>3 DEF CombInv, EndsWith
    <3>5. Ended(h, k, g, E)
      BY <3>1, <3>a, <3>4, CombinatorEnds
    <3>6. QED
      BY <2>8, <3>5 DEF Ended
  <2>16. CASE o.remaining # 1
    <3>1. g = k /\ k.comb[c].remaining # 0
      BY <1>2, <2>1, <2>2, <2>8, <2>16
    <3>2. ZeroInv(k, {})
      BY <2>13, <3>1 DEF ZeroInv
    <3>3. QED
      BY <2>8, <2>9, <2>10, <2>11, <2>12, <2>14, <3>1, <3>2 DEF CombInv
  <2>17. QED
    BY <2>15, <2>16
<1>5. QED
  BY <1>3, <1>4

\* The handlers that a combinator puts on its next promise.
LEMMA NextHandlers ==
    ASSUME NEW h, HeapInv(h), NEW c \in CombsOf(h), NEW i \in 1..h.comb[c].index,
           NEW p, p = h.comb[c].items[i],
           NEW on, on = ElementHandlers(h.comb[c].kind, c, i, h.comb[c].cap)
    PROVE  GoodHandlers(h, p, on) /\ \A w \in Ways : on[w] = HandlerAt(h, c, i, w)
<1> DEFINE m == h.comb[c]
<1>1. Shape(h) /\ PrivateInv(h) /\ CombType(h)
  BY DEF HeapInv, PrivateInv
<1>2. m.kind \in Kinds /\ m.cap \in Nat /\ m.cap \in PairsOf(h) /\ c \in Nat /\ i \in Nat
  BY <1>1, CombTypes DEF CombType, CombsOf
<1>3. \A w \in Ways : on[w] = HandlerAt(h, c, i, w)
  BY DEF HandlerAt
<1>4. on \in [Ways -> Handlers]
  <2> DEFINE element == Handler("element", c, i)
             settle(b) == SettleHandler(m.cap, b)
  <2>1. element \in Handlers /\ settle(0) \in Handlers /\ settle(1) \in Handlers
    BY <1>2 DEF Handler, SettleHandler, Handlers
  <2>2. \A f, r \in Handlers : Both(f, r) \in [Ways -> Handlers]
    BY DEF Both, Ways
  <2>3. \/ on = Both(element, settle(1)) \/ on = Both(element, element)
        \/ on = Both(settle(0), element) \/ on = Both(settle(0), settle(1))
    BY <1>2 DEF ElementHandlers, Kinds
  <2> HIDE DEF element, settle
  <2>4. QED
    BY <2>1, <2>2, <2>3
<1>5. ASSUME NEW w \in Ways
      PROVE  HandlerOK(h, on[w]) /\ on[w].kind # "await" /\ Legit(h, on[w], p, w)
  <2> DEFINE hd == on[w]
  <2>1. hd = HandlerAt(h, c, i, w)
    BY <1>3
  <2> HIDE DEF hd
  <2>2. /\ hd.kind \in {"element", "settle"}
        /\ hd.kind = "element" => hd.a = c /\ hd.b = i
        /\ hd.kind = "settle" => hd.a = h.comb[c].cap /\ hd.b = w
    BY <1>2, <2>1, HandlerKinds
  <2>3. HandlerOK(h, hd)
    BY <1>2, <2>2 DEF HandlerOK
  <2>4. ASSUME NEW d \in CombsOf(h), Belongs(h, hd, d)
        PROVE  d = c
    BY <1>1, <2>2, <2>4 DEF Belongs, PrivateInv
  <2>5. Legit(h, hd, p, w)
    BY <2>1, <2>4 DEF Legit
  <2>6. QED
    BY <2>2, <2>3, <2>5 DEF hd
<1>6. QED
  BY <1>3, <1>4, <1>5 DEF GoodHandlers
LEMMA JustifiedSame ==
    ASSUME NEW h, NEW g, g.state = h.state, NEW m, NEW o, m.kind = o.kind, m.items = o.items,
           NEW s
    PROVE  Justified(h, m, s) <=> Justified(g, o, s)
BY DEF Justified

\* The turn of the loop counts its promise.
LEMMA TurnCounts ==
    ASSUME NEW h, HeapInv(h), NEW c \in CombsOf(h), NEW o, o = h.comb[c],
           o.index < Len(o.items), NEW L, c \in L, NEW J, CombInv(h, J, L, {}),
           NEW m, m \in Combs, m.index = o.index + 1,
           m.remaining = IF o.kind = "race" THEN o.remaining ELSE o.remaining + 1,
           m.kind = o.kind, m.items = o.items, m.cap = o.cap, m.called = o.called,
           NEW g, CombEffect(h, g, c, m)
    PROVE  /\ HeapInv(g) /\ Grows(h, g) /\ CombsKeep(h, g)
           /\ CalledInv(g) /\ CountInv(g, L) /\ ZeroInv(g, {}) /\ JustInv(g)
<1>1. /\ Shape(h) /\ CombType(h) /\ CalledInv(h)
      /\ CountInv(h, L) /\ ZeroInv(h, {}) /\ JustInv(h)
  BY DEF HeapInv, PrivateInv, CombInv
<1>2. /\ o \in Combs /\ o.kind \in Kinds /\ o.index \in Nat /\ o.remaining \in Nat
      /\ o.called \subseteq (1..o.index) \X Ways /\ Len(o.items) \in Nat
  BY <1>1, CombTypes DEF CombType
<1>3. /\ h.comb[c] = o /\ g.comb[c] = m /\ g.fn = h.fn /\ g.jobs = h.jobs
      /\ CombsOf(g) = CombsOf(h) /\ \A d \in CombsOf(h) : d # c => g.comb[d] = h.comb[d]
      /\ g.state = h.state /\ g.resolved = h.resolved /\ g.pair = h.pair
  BY DEF CombEffect
<1>4. HeapInv(g) /\ Grows(h, g) /\ CombsKeep(h, g)
  <2>1. m.called \subseteq (1..m.index) \X Ways
    BY <1>2
  <2>2. h.comb[c].index <= m.index /\ m.index \in 0..Len(m.items)
    BY <1>2
  <2>3. QED
    BY <2>1, <2>2, CombHeap
<1>5. CalledInv(g)
  <2> SUFFICES ASSUME NEW d \in CombsOf(h), NEW v \in Ways, NEW n \in 1..g.comb[d].index,
                      <<n, v>> \in g.comb[d].called
               PROVE  /\ g.state[g.comb[d].items[n]] = Outcome(v)
                      /\ HandlerAt(g, d, n, v).kind = "element"
    BY <1>3 DEF CalledInv
  <2>1. /\ g.comb[d].items = h.comb[d].items /\ g.comb[d].called = h.comb[d].called
        /\ HandlerAt(g, d, n, v) = HandlerAt(h, d, n, v)
    BY <1>3 DEF HandlerAt
  <2>2. n \in 1..h.comb[d].index
    BY <1>1, <2>1 DEF CombType
  <2>3. QED
    BY <1>1, <1>3, <2>1, <2>2 DEF CalledInv
<1>6. ASSUME o.kind # "race"
      PROVE  m.remaining = Cardinality(Uncalled(m)) + 1 /\ m.remaining # 0
  <2> DEFINE U == Uncalled(o)
  <2>1. o.remaining = Cardinality(U) + 1
    BY <1>1, <1>6 DEF CountInv
  <2>2. IsFiniteSet(U) /\ Cardinality(U) \in Nat
    BY <1>2, UncalledFinite
  <2>3. m.index \notin U /\ Uncalled(m) = U \cup {m.index}
    BY <1>2 DEF Uncalled
  <2> HIDE DEF U
  <2>4. Cardinality(U \cup {m.index}) = Cardinality(U) + 1
    BY <2>2, <2>3, FS_AddElement
  <2>5. QED
    BY <1>6, <2>1, <2>2, <2>3, <2>4
<1>7. CountInv(g, L)
  <2> SUFFICES ASSUME NEW d \in CombsOf(h)
               PROVE  /\ d \notin L => g.comb[d].index = Len(g.comb[d].items)
                      /\ g.comb[d].kind # "race" =>
                            g.comb[d].remaining
                              = Cardinality(Uncalled(g.comb[d])) + (IF d \in L THEN 1 ELSE 0)
    BY <1>3 DEF CountInv
  <2>1. CASE d = c
    BY <1>3, <1>6, <2>1
  <2>2. CASE d # c
    BY <1>1, <1>3, <2>2 DEF CountInv
  <2>3. QED
    BY <2>1, <2>2
<1>8. ZeroInv(g, {})
  BY SMTT(30), <1>1, <1>3, <1>6 DEF ZeroInv, Open
<1>9. JustInv(g)
  <2>1. \A d \in CombsOf(h) : /\ g.comb[d].cap = h.comb[d].cap /\ g.comb[d].kind = h.comb[d].kind
                               /\ g.comb[d].items = h.comb[d].items
    BY <1>3
  <2>2. \A d \in CombsOf(h) : \A s : Justified(h, h.comb[d], s) <=> Justified(g, g.comb[d], s)
    BY <1>3, <2>1, JustifiedSame
  <2>3. QED
    <3>1. CombsOf(g) = CombsOf(h) /\ g.state = h.state /\ g.resolved = h.resolved /\ g.pair = h.pair
      BY SMTT(30), <1>3
    <3> SUFFICES ASSUME NEW d \in CombsOf(h), ~Open(g, g.comb[d].cap)
                 PROVE  /\ g.state[g.pair[g.comb[d].cap]] # "pending"
                        /\ Justified(g, g.comb[d], g.state[g.pair[g.comb[d].cap]])
      BY <3>1 DEF JustInv
    <3>2. g.comb[d].cap = h.comb[d].cap /\ ~Open(h, h.comb[d].cap)
      BY SMTT(30), <2>1, <3>1 DEF Open
    <3>3. /\ h.state[h.pair[h.comb[d].cap]] # "pending"
          /\ Justified(h, h.comb[d], h.state[h.pair[h.comb[d].cap]])
      BY <1>1, <3>2 DEF JustInv
    <3>4. QED
      BY <2>2, <3>1, <3>2, <3>3
<1>10. QED
  BY <1>4, <1>5, <1>7, <1>8, <1>9
LEMMA GrowsTrans ==
    ASSUME NEW h, NEW k, NEW g, Lengths(h), Lengths(k), Lengths(g), Grows(h, k), Grows(k, g)
    PROVE  Grows(h, g)
<1>1. /\ Len(h.state) \in Nat /\ Len(h.pair) \in Nat /\ Len(h.comb) \in Nat /\ Len(h.fn) \in Nat
      /\ Len(k.state) \in Nat /\ Len(k.pair) \in Nat /\ Len(k.comb) \in Nat /\ Len(k.fn) \in Nat
      /\ Len(g.state) \in Nat /\ Len(g.pair) \in Nat /\ Len(g.comb) \in Nat /\ Len(g.fn) \in Nat
  BY DEF Lengths
<1>2. \A x, y, z \in Nat : x <= y /\ y <= z => x <= z
  OBVIOUS
<1>3. QED
  BY <1>1, <1>2 DEF Grows

Traced(g, p, hd, w) ==
    /\ g.state[p] = "pending" => \E n \in ListOf(g, p, w) : g.reactions[p][w][n].handler = hd
    /\ g.state[p] = Outcome(w) => \E j \in JobSet(g) : IsJobFor(j, hd, p, w)

\* then leaves a trace of its handlers.
LEMMA ThenDone ==
    ASSUME NEW h, NEW g, Shape(h), NEW p \in PromisesOf(h), NEW on, NEW cap,
           ThenEffect(h, g, p, on, cap), NEW w \in Ways
    PROVE  Traced(g, p, on[w], w)
<1> DEFINE x == NewReaction(h, p, on, cap, w)
<1>1. x.handler = on[w] /\ x.on = p
  BY DEF NewReaction
<1>2. Lengths(h) /\ g.state = h.state
  BY ShapeLengths DEF ThenEffect
<1>3. CASE g.state[p] = "pending"
  <2>1. Adds(h.reactions[p][w], g.reactions[p][w], x) /\ Len(h.reactions[p][w]) \in Nat
    BY <1>2, <1>3 DEF ThenEffect, Lengths
  <2> HIDE DEF x
  <2>2. /\ Len(h.reactions[p][w]) + 1 \in ListOf(g, p, w)
        /\ g.reactions[p][w][Len(h.reactions[p][w]) + 1] = x
    BY <2>1 DEF Adds, ListOf
  <2>3. g.state[p] # Outcome(w)
    BY <1>3, OutcomeStates
  <2>4. QED
    BY <1>1, <2>2, <2>3 DEF Traced
<1>4. CASE g.state[p] = Outcome(w)
  <2> DEFINE j == ReactionJob(x, w, Plain)
  <2>1. Adds(h.jobs, g.jobs, j) /\ Len(h.jobs) \in Nat
    BY <1>2, <1>4 DEF ThenEffect, Lengths
  <2>2. IsJobFor(j, on[w], p, w)
    BY <1>1, ReactionJobFields DEF IsJobFor
  <2> HIDE DEF j
  <2>3. Len(h.jobs) + 1 \in JobsOf(g) /\ g.jobs[Len(h.jobs) + 1] = j
    BY <2>1 DEF Adds, JobsOf
  <2>4. j \in JobSet(g)
    BY <2>3 DEF JobSet
  <2>5. g.state[p] # "pending"
    BY <1>4, OutcomeStates
  <2>6. QED
    BY <2>2, <2>4, <2>5 DEF Traced
<1>5. QED
  BY <1>3, <1>4 DEF Traced
\* One turn of the loop of js_promise_all or js_promise_race.
LEMMA SubscribeHeap ==
    ASSUME NEW h, HeapInv(h), NEW c \in CombsOf(h), h.comb[c].index < Len(h.comb[c].items),
           NEW L, c \in L, NEW E, CombInv(h, JobSet(h) \cup E, L, {}), NEW g, g = SubscribeNext(h, c)
    PROVE  /\ HeapInv(g) /\ Grows(h, g) /\ CombsKeep(h, g) /\ g.fn = h.fn
           /\ CombInv(g, JobSet(g) \cup E, L, {})
<1> DEFINE o == h.comb[c]
           i == o.index + 1
           p == o.items[i]
           on == ElementHandlers(o.kind, c, i, o.cap)
           a == NewCapability(h)
           cap == LastPair(a)
           t == perform_promise_then(a, p, on, cap)
           m == [o EXCEPT !.index = i,
                          !.remaining = IF o.kind = "race" THEN @ ELSE @ + 1]
           k == [a EXCEPT !.comb[c] = m]
<1>1. Shape(h) /\ CombType(h)
  BY DEF HeapInv, PrivateInv
<1>2. /\ o \in Combs /\ o.kind \in Kinds /\ o.index \in Nat /\ o.remaining \in Nat
      /\ o.cap \in Nat /\ o.items \in Seq(Nat) /\ Len(o.items) \in Nat
  BY <1>1, CombTypes
<1>3. i \in 1..Len(o.items) /\ p \in PromisesOf(h)
  BY SMTT(30), <1>1, <1>2 DEF CombType
<1>4. /\ Quiet(h, a) /\ CapabilityEffect(h, a) /\ cap \in PairsOf(a) /\ cap \notin Private(a)
  BY CapabilityQuiet
<1>5. g = [t EXCEPT !.comb[c] = m]
  BY DEF SubscribeNext, js_promise_then
<1>6. /\ m.index = o.index + 1 /\ m.kind = o.kind /\ m.items = o.items /\ m.cap = o.cap
      /\ m.called = o.called
      /\ m.remaining = IF o.kind = "race" THEN o.remaining ELSE o.remaining + 1
      /\ m \in Combs
  <2> DEFINE q == IF o.kind = "race" THEN o.remaining ELSE o.remaining + 1
  <2>1. q \in Nat /\ i \in Nat
    BY SMTT(30), <1>2
  <2>2. m = [o EXCEPT !.index = i, !.remaining = q]
    BY <1>2 DEF Combs
  <2> HIDE DEF q, m, i
  <2>3. m \in Combs /\ m.index = i /\ m.remaining = q /\ m.kind = o.kind
        /\ m.items = o.items /\ m.cap = o.cap /\ m.called = o.called
    BY <1>2, <2>1, <2>2 DEF Combs
  <2>4. QED
    BY <2>3 DEF q, i
<1> HIDE DEF a
<1>7. /\ HeapInv(a) /\ Shape(a) /\ Grows(h, a) /\ a.comb = h.comb /\ a.fn = h.fn
      /\ CombInv(a, JobSet(a) \cup E, L, {}) /\ CombsOf(a) = CombsOf(h)
  BY <1>4 DEF Quiet, HeapInv, CombsStay, CombsOf
<1>8. p \in PromisesOf(a)
  BY <1>1, <1>3, <1>7, GrowsSubset
<1> HIDE DEF cap
<1>9. cap \in Nat /\ cap \in 0..Len(a.pair)
  BY <1>4, <1>7, ShapeLengths DEF PairsOf, Lengths
<1>10. k.comb = [a.comb EXCEPT ![c] = m]
  BY <1>7 DEF Shape, Heaps
<1>11. CombEffect(a, k, c, m)
  <2> HIDE DEF m
  <2>1. QED
    BY <1>6, <1>7, CombHasEffect
<1> HIDE DEF k, m
<1>12. /\ HeapInv(k) /\ Grows(a, k) /\ CombsKeep(a, k)
       /\ CalledInv(k) /\ CountInv(k, L) /\ ZeroInv(k, {}) /\ JustInv(k)
  <2> HIDE DEF o
  <2>1. o = a.comb[c] /\ o.index < Len(o.items) /\ c \in CombsOf(a)
    BY <1>7 DEF o
  <2>2. QED
    BY <1>6, <1>7, <1>11, <2>1, TurnCounts
<1>13. /\ k.comb[c] = m /\ CombsOf(k) = CombsOf(h) /\ k.state = a.state /\ k.pair = a.pair
       /\ k.reactions = a.reactions /\ k.jobs = a.jobs /\ k.count = a.count /\ k.ran = a.ran
       /\ k.fn = a.fn /\ k.resolved = a.resolved
       /\ \A d \in CombsOf(h) : d # c => k.comb[d] = h.comb[d]
  BY <1>7, <1>11 DEF CombEffect
<1>14. GoodHandlers(k, p, on) /\ \A w \in Ways : on[w] = HandlerAt(k, c, i, w)
  <2>1. i \in 1..k.comb[c].index /\ p = k.comb[c].items[i] /\ c \in CombsOf(k)
    BY SMTT(30), <1>2, <1>6, <1>13
  <2>2. on = ElementHandlers(k.comb[c].kind, c, i, k.comb[c].cap)
    BY <1>6, <1>13
  <2> HIDE DEF i, on, p
  <2>3. QED
    BY <1>12, <2>1, <2>2, NextHandlers
<1> HIDE DEF on, p, t
<1>15. ThenEffect(a, t, p, on, cap)
  BY <1>7, <1>8, <1>9, <1>14, PerformThenEffect DEF GoodHandlers, t
<1>16. Shape(t) /\ t.comb = h.comb /\ t.comb \in Seq(Combs) /\ t \in Heaps
  BY <1>7, <1>15 DEF ThenEffect, Shape, Heaps
<1>17. CombEffect(t, g, c, m) /\ g.comb = k.comb
  <2>1. c \in CombsOf(t)
    BY <1>16 DEF CombsOf
  <2>2. g.comb = [t.comb EXCEPT ![c] = m]
    BY <1>16, <1>5 DEF Heaps
  <2>3. QED
    BY <1>6, <1>7, <1>10, <1>16, <1>5, <2>1, <2>2, CombHasEffect
<1>18. ThenEffect(k, g, p, on, cap)
  <2>1. \A w : NewReaction(k, p, on, cap, w) = NewReaction(a, p, on, cap, w)
    BY <1>13 DEF NewReaction
  <2>2. /\ Shape(g) /\ g.state = t.state /\ g.reactions = t.reactions /\ g.jobs = t.jobs
        /\ g.pair = t.pair /\ g.resolved = t.resolved /\ g.count = t.count /\ g.ran = t.ran
        /\ g.fn = t.fn
    BY <1>17 DEF CombEffect
  <2>3. PromisesOf(k) = PromisesOf(a)
    BY <1>13 DEF PromisesOf
  <2>4. QED
    BY <1>13, <1>15, <1>17, <2>1, <2>2, <2>3 DEF ThenEffect
<1>19. Quiet(k, g)
  <2>1. cap \notin Private(k) /\ cap \in 0..Len(k.pair) /\ p \in PromisesOf(k)
    BY <1>4, <1>8, <1>9, <1>12, <1>13, PrivateKeeps DEF PromisesOf
  <2>2. QED
    BY <1>12, <1>14, <1>18, <2>1, ThenEffectQuiet
<1>20. /\ HeapInv(g) /\ Grows(k, g) /\ g.fn = h.fn
       /\ CalledInv(g) /\ CountInv(g, L) /\ ZeroInv(g, {}) /\ JustInv(g)
  <2>1. RefInv(k) /\ CombType(k) /\ HeapInv(g) /\ Grows(k, g) /\ g.fn = k.fn
    BY <1>12, <1>19 DEF Quiet, HeapInv, PrivateInv
  <2>2. Onward(k, g) /\ \A r : Open(k, r) <=> Open(g, r)
    BY <1>18 DEF Onward, ThenEffect, Open
  <2>3. CalledInv(g) /\ CountInv(g, L) /\ ZeroInv(g, {})
    BY <1>12, <2>1, <2>2, OnwardCounts
  <2>4. JustInv(g)
    BY <1>12, <2>1, <2>2, OnwardJust
  <2>5. QED
    BY <1>7, <1>13, <2>1, <2>3, <2>4
<1>21. Grows(h, g) /\ CombsKeep(h, g)
  <2>1. Lengths(h) /\ Lengths(a) /\ Lengths(k) /\ Lengths(g)
    BY <1>1, <1>7, <1>12, <1>20, ShapeLengths DEF HeapInv
  <2>2. Grows(h, g)
    BY <1>7, <1>12, <1>20, <2>1, GrowsTrans
  <2>3. CombsOf(g) = CombsOf(k)
    BY <1>17 DEF CombsOf
  <2>4. CombsKeep(h, g)
    BY <1>7, <1>12, <1>17, <2>3 DEF CombsKeep
  <2>5. QED
    BY <2>2, <2>4
<1>22. DoneInv(g, JobSet(g) \cup E)
  <2> DEFINE J == JobSet(g) \cup E
  <2>1. CombsOf(g) = CombsOf(h) /\ g.comb = k.comb /\ g.state = a.state /\ g.resolved = a.resolved
    BY <1>13, <1>17, <1>18 DEF CombsOf, ThenEffect
  <2> SUFFICES ASSUME NEW d \in CombsOf(h), NEW w \in Ways, NEW n \in 1..g.comb[d].index
               PROVE  DoneAt(g, J, d, n, w)
    BY <2>1, DoneParts
  <2>2. CASE d = c /\ n = i
    <3>1. g.comb[d].items[n] = p /\ HandlerAt(g, d, n, w) = on[w]
      BY <1>6, <1>13, <1>14, <2>1, <2>2 DEF HandlerAt, p
    <3>2. Shape(k) /\ p \in PromisesOf(k)
      BY <1>8, <1>12, <1>13 DEF HeapInv, PromisesOf
    <3>3. Traced(g, p, on[w], w)
      BY <1>18, <3>2, ThenDone
    <3>4. QED
      BY <3>1, <3>3 DEF DoneAt, Traced
  <2>3. CASE ~(d = c /\ n = i)
    <3> DEFINE q == h.comb[d].items[n]
    <3>1. /\ n \in 1..h.comb[d].index /\ g.comb[d].items = h.comb[d].items
          /\ g.comb[d].called = h.comb[d].called /\ g.comb[d].cap = h.comb[d].cap
          /\ g.comb[d].kind = h.comb[d].kind
      <4>1. CASE d = c
        <5>1. g.comb[d] = m /\ n \in 1..(o.index + 1) /\ n # o.index + 1
          BY <1>6, <1>13, <2>1, <2>3, <4>1
        <5>2. n \in 1..o.index
          BY <1>2, <5>1
        <5>3. QED
          BY <1>6, <4>1, <5>1, <5>2
      <4>2. CASE d # c
        BY <1>13, <2>1, <4>2
      <4>3. QED
        BY <4>1, <4>2
    <3>2. q \in PromisesOf(h) /\ q \in PromisesOf(k)
      <4>1. q \in PromisesOf(h)
        BY <1>1, <3>1, ItemsAre
      <4>2. PromisesOf(h) \subseteq PromisesOf(a) /\ PromisesOf(k) = PromisesOf(a)
        BY <1>1, <1>7, <1>13, GrowsSubset DEF PromisesOf
      <4>3. QED
        BY <4>1, <4>2
    <3>3. DoneAt(a, JobSet(a) \cup E, d, n, w)
      BY <1>7, <3>1, DoneParts DEF CombInv
    <3>4. /\ HandlerAt(g, d, n, w) = HandlerAt(a, d, n, w) /\ a.comb[d].items[n] = q
          /\ g.comb[d].items[n] = q /\ (Processed(a, d, n, w) => Processed(g, d, n, w))
      BY <1>7, <2>1, <3>1 DEF HandlerAt, Processed, Open
    <3>5. ThenAdds(k, g, p, on, cap)
      BY <1>8, <1>12, <1>13, <1>18, ThenLists DEF HeapInv, PromisesOf
    <3>6. /\ \A l \in ListOf(a, q, w) : l \in ListOf(g, q, w) /\ g.reactions[q][w][l] = a.reactions[q][w][l]
          /\ JobSet(a) \subseteq JobSet(g)
      <4> HIDE DEF q
      <4>1. ListOf(a, q, w) = ListOf(k, q, w) /\ JobsOf(a) = JobsOf(k)
        BY <1>13 DEF ListOf, JobsOf
      <4>2. /\ \A l \in ListOf(k, q, w) : l \in ListOf(g, q, w) /\ g.reactions[q][w][l] = k.reactions[q][w][l]
            /\ \A l \in JobsOf(k) : l \in JobsOf(g) /\ g.jobs[l] = k.jobs[l]
        BY <3>2, <3>5 DEF ThenAdds
      <4>3. QED
        BY <1>13, <4>1, <4>2 DEF JobSet
    <3> HIDE DEF q
    <3>7. QED
      BY <2>1, <3>3, <3>4, <3>6 DEF DoneAt
  <2>4. QED
    BY <2>2, <2>3
<1>23. QED
  BY <1>20, <1>21, <1>22 DEF CombInv

NewCombEffect(h, g, m) ==
    /\ Shape(g)
    /\ Adds(h.comb, g.comb, m)
    /\ g.state = h.state /\ g.reactions = h.reactions /\ g.jobs = h.jobs /\ g.pair = h.pair
    /\ g.resolved = h.resolved /\ g.count = h.count /\ g.ran = h.ran /\ g.fn = h.fn

LEMMA NewCombHasEffect ==
    ASSUME NEW h, Shape(h), NEW m \in Combs, NEW g, g = [h EXCEPT !.comb = Append(@, m)]
    PROVE  NewCombEffect(h, g, m)
<1>1. h \in Heaps /\ h.comb \in Seq(Combs)
  BY DEF Shape, Heaps
<1> DEFINE s == Append(h.comb, m)
<1>2. s \in Seq(Combs) /\ Adds(h.comb, s, m)
  BY <1>1, AppendFacts
<1>3. g = [h EXCEPT !.comb = s]
  OBVIOUS
<1> HIDE DEF s
<1>4. /\ g \in Heaps /\ g.comb = s
      /\ g.state = h.state /\ g.reactions = h.reactions /\ g.jobs = h.jobs /\ g.pair = h.pair
      /\ g.resolved = h.resolved /\ g.count = h.count /\ g.ran = h.ran /\ g.fn = h.fn
      /\ g.result = h.result
  BY <1>1, <1>2, <1>3 DEF Heaps
<1>5. QED
  BY <1>2, <1>4 DEF NewCombEffect, Shape

\* Nothing in h knows the pair and the number of the new combinator.
Unknown(h, x, r, c) ==
    /\ x.cap # r
    /\ ~(x.handler.kind = "settle" /\ x.handler.a = r)
    /\ ~(x.handler.kind = "element" /\ x.handler.a = c)

LEMMA NewUnknown ==
    ASSUME NEW h, Lengths(h), NEW x, RefOK(h, x)
    PROVE  Unknown(h, x, Len(h.pair) + 1, Len(h.comb) + 1)
<1>1. Len(h.pair) \in Nat /\ Len(h.comb) \in Nat
  BY DEF Lengths
<1>2. QED
  BY <1>1 DEF RefOK, HandlerOK, Unknown, PairsOf, CombsOf

\* m is the record of a new combinator c, whose loop has not begun.
FreshComb(h, m, c) ==
    /\ c = Len(h.comb) + 1
    /\ m.index = 0 /\ m.called = {} /\ m.remaining = 1
    /\ m.cap \in PairsOf(h) \ Private(h) /\ Open(h, m.cap)
    /\ Len(m.items) \in Nat /\ \A i \in 1..Len(m.items) : m.items[i] \in PromisesOf(h)
    /\ \A f \in FnsOf(h) : h.fn[f].cap # m.cap
    /\ \A q \in PromisesOf(h), w \in Ways : \A i \in ListOf(h, q, w) :
          Unknown(h, h.reactions[q][w][i], m.cap, c)
    /\ \A i \in JobsOf(h) : Unknown(h, h.jobs[i], m.cap, c)

CombAdded(h, g, m, c) ==
    /\ CombsOf(g) = CombsOf(h) \cup {c} /\ c \notin CombsOf(h)
    /\ g.comb[c] = m /\ \A d \in CombsOf(h) : g.comb[d] = h.comb[d]

LEMMA NewCombPrivate ==
    ASSUME NEW h, NEW g, Shape(h), PrivateInv(h), NEW m, NewCombEffect(h, g, m),
           NEW c, FreshComb(h, m, c)
    PROVE  PrivateInv(g) /\ CombAdded(h, g, m, c)
<1> DEFINE r == m.cap
<1>1. /\ c = Len(h.comb) + 1
      /\ m.index = 0 /\ m.called = {} /\ m.cap = r
      /\ r \in PairsOf(h) /\ r \notin Private(h)
      /\ Len(m.items) \in Nat /\ \A i \in 1..Len(m.items) : m.items[i] \in PromisesOf(h)
      /\ \A f \in FnsOf(h) : h.fn[f].cap # r
      /\ \A q \in PromisesOf(h), w \in Ways : \A i \in ListOf(h, q, w) :
            Unknown(h, h.reactions[q][w][i], r, c)
      /\ \A i \in JobsOf(h) : Unknown(h, h.jobs[i], r, c)
  BY DEF FreshComb
<1> HIDE DEF r
<1>2. Len(h.comb) \in Nat
  BY ShapeLengths DEF Lengths
<1>3. /\ CombsOf(g) = CombsOf(h) \cup {c} /\ c \notin CombsOf(h) /\ g.comb[c] = m
      /\ \A d \in CombsOf(h) : g.comb[d] = h.comb[d]
  BY <1>1, <1>2, AddsFacts DEF NewCombEffect, CombsOf
<1>4. /\ PromisesOf(g) = PromisesOf(h) /\ PairsOf(g) = PairsOf(h) /\ FnsOf(g) = FnsOf(h)
      /\ JobsOf(g) = JobsOf(h) /\ \A q, w : ListOf(g, q, w) = ListOf(h, q, w)
      /\ g.fn = h.fn /\ g.reactions = h.reactions /\ g.jobs = h.jobs
  BY DEF NewCombEffect, PromisesOf, PairsOf, FnsOf, JobsOf, ListOf
<1>5. \A x : x \in Private(g) => x = r \/ x \in Private(h)
  BY <1>1, <1>3 DEF Private
<1>6. CombType(g)
  <2> SUFFICES ASSUME NEW d \in CombsOf(g)
               PROVE  /\ \A i \in 1..Len(g.comb[d].items) : g.comb[d].items[i] \in PromisesOf(g)
                      /\ g.comb[d].cap \in PairsOf(g)
                      /\ g.comb[d].index \in 0..Len(g.comb[d].items)
                      /\ g.comb[d].called \subseteq (1..g.comb[d].index) \X Ways
    BY DEF CombType
  <2>1. CASE d = c
    BY <1>1, <1>3, <1>4, <2>1
  <2>2. CASE d \in CombsOf(h)
    BY <1>3, <1>4, <2>2 DEF PrivateInv, CombType
  <2>3. QED
    BY <1>3, <2>1, <2>2
<1>7. \A d, e \in CombsOf(g) : g.comb[d].cap = g.comb[e].cap => d = e
  <2>1. \A d \in CombsOf(h) : h.comb[d].cap \in Private(h)
    BY DEF Private
  <2>2. QED
    BY <1>1, <1>3, <2>1 DEF PrivateInv
<1>8. ASSUME NEW x, Unknown(h, x, r, c), NEW p, NEW w, Legit(h, x.handler, p, w)
      PROVE  Legit(g, x.handler, p, w)
  <2> SUFFICES ASSUME NEW d \in CombsOf(g), Belongs(g, x.handler, d)
               PROVE  \E i \in 1..g.comb[d].index :
                          g.comb[d].items[i] = p /\ HandlerAt(g, d, i, w) = x.handler
    BY DEF Legit
  <2>1. d # c
    BY <1>1, <1>3, <1>8 DEF Belongs, Unknown
  <2>2. d \in CombsOf(h) /\ g.comb[d] = h.comb[d]
    BY <1>3, <2>1
  <2>3. Belongs(h, x.handler, d) /\ \A i : HandlerAt(g, d, i, w) = HandlerAt(h, d, i, w)
    BY <2>2 DEF Belongs, HandlerAt
  <2>4. QED
    BY <1>8, <2>2, <2>3 DEF Legit
<1>9. \A q \in PromisesOf(g), w \in Ways : \A i \in ListOf(g, q, w) :
          /\ g.reactions[q][w][i].cap \notin Private(g)
          /\ Legit(g, g.reactions[q][w][i].handler, q, w)
  <2> SUFFICES ASSUME NEW q \in PromisesOf(h), NEW w \in Ways, NEW i \in ListOf(h, q, w),
                      NEW x, x = h.reactions[q][w][i]
               PROVE  x.cap \notin Private(g) /\ Legit(g, x.handler, q, w)
    BY <1>4
  <2>1. Unknown(h, x, r, c) /\ x.cap \notin Private(h) /\ Legit(h, x.handler, q, w)
    BY <1>1 DEF PrivateInv
  <2>2. QED
    BY <1>5, <1>8, <2>1 DEF Unknown
<1>10. \A i \in JobsOf(g) :
          /\ g.jobs[i].cap \notin Private(g)
          /\ g.jobs[i].kind = "reaction" =>
                Legit(g, g.jobs[i].handler, g.jobs[i].on, g.jobs[i].way)
  <2> SUFFICES ASSUME NEW i \in JobsOf(h), NEW x, x = h.jobs[i]
               PROVE  /\ x.cap \notin Private(g)
                      /\ x.kind = "reaction" => Legit(g, x.handler, x.on, x.way)
    BY <1>4
  <2>1. /\ Unknown(h, x, r, c) /\ x.cap \notin Private(h)
        /\ x.kind = "reaction" => Legit(h, x.handler, x.on, x.way)
    BY <1>1 DEF PrivateInv
  <2>2. QED
    BY <1>5, <1>8, <2>1 DEF Unknown
<1>11. \A f \in FnsOf(g) : g.fn[f].cap \notin Private(g)
  BY <1>1, <1>4, <1>5 DEF PrivateInv
<1>12. QED
  BY <1>3, <1>6, <1>7, <1>9, <1>10, <1>11 DEF PrivateInv, CombAdded

LEMMA NewCombHeap ==
    ASSUME NEW h, NEW g, HeapInv(h), NEW m, NewCombEffect(h, g, m), PrivateInv(g)
    PROVE  HeapInv(g) /\ Grows(h, g) /\ g.fn = h.fn
<1>1. Shape(h) /\ RefInv(h) /\ WayInv(h) /\ OrderInv(h) /\ ContInv(h)
  BY DEF HeapInv
<1>2. /\ Shape(g) /\ g.state = h.state /\ g.reactions = h.reactions /\ g.jobs = h.jobs
      /\ g.pair = h.pair /\ g.resolved = h.resolved /\ g.count = h.count /\ g.ran = h.ran
      /\ g.fn = h.fn
  BY DEF NewCombEffect
<1>3. Lengths(h) /\ Lengths(g)
  BY <1>1, <1>2, ShapeLengths
<1>4. Len(h.comb) <= Len(g.comb)
  BY <1>3 DEF NewCombEffect, Adds, Lengths
<1>5. Grows(h, g)
  BY <1>2, <1>3, <1>4 DEF Grows, Lengths
<1>6. RefInv(g)
  <2>1. \A x : RefOK(h, x) => RefOK(g, x)
    BY <1>3, <1>5, RefOKGrows
  <2>2. /\ PromisesOf(g) = PromisesOf(h) /\ PairsOf(g) = PairsOf(h) /\ FnsOf(g) = FnsOf(h)
        /\ JobsOf(g) = JobsOf(h) /\ \A q, w : ListOf(g, q, w) = ListOf(h, q, w)
    BY <1>2 DEF PromisesOf, PairsOf, FnsOf, JobsOf, ListOf
  <2>3. QED
    BY <1>1, <1>2, <2>1, <2>2 DEF RefInv
<1>7. WayInv(g) /\ OrderInv(g)
  BY <1>1, <1>2, SameWay, SameOrder
<1>8. ContInv(g)
  <2>1. FnsKeep(h, g)
    BY <1>2 DEF FnsOf, FnsKeep
  <2>2. QED
    BY <1>1, <1>2, <2>1, FnCont
<1>9. QED
  BY <1>2, <1>5, <1>6, <1>7, <1>8 DEF HeapInv

Joins(M, L, c) == M = L \cup {c}

\* A combinator that has not begun changes nothing for the others.
LEMMA NewCombInv ==
    ASSUME NEW h, NEW g, HeapInv(h), NEW m, NewCombEffect(h, g, m), NEW c,
           FreshComb(h, m, c), CombAdded(h, g, m, c),
           NEW J, NEW L, NEW X, CombInv(h, J, L, X), NEW M, Joins(M, L, c)
    PROVE  CombInv(g, J, M, X)
<1>1. /\ CombsOf(g) = CombsOf(h) \cup {c} /\ c \notin CombsOf(h) /\ g.comb[c] = m
      /\ \A d \in CombsOf(h) : g.comb[d] = h.comb[d]
      /\ m.index = 0 /\ m.called = {} /\ m.remaining = 1 /\ Open(h, m.cap)
  BY DEF FreshComb, CombAdded
<1>2. /\ DoneInv(h, J) /\ CalledInv(h) /\ CountInv(h, L) /\ ZeroInv(h, X)
      /\ JustInv(h)
  BY DEF CombInv
<1>3. /\ g.state = h.state /\ g.reactions = h.reactions /\ g.jobs = h.jobs
      /\ g.pair = h.pair /\ g.resolved = h.resolved
  BY DEF NewCombEffect
<1>4. /\ \A r : Open(g, r) <=> Open(h, r)
      /\ \A q, w : ListOf(g, q, w) = ListOf(h, q, w)
  BY <1>3 DEF Open, ListOf
<1>5. \A d \in CombsOf(h) : \A i, w :
          /\ HandlerAt(g, d, i, w) = HandlerAt(h, d, i, w)
          /\ Processed(g, d, i, w) <=> Processed(h, d, i, w)
  BY <1>1, <1>4 DEF HandlerAt, Processed
<1>6. 1..0 = {}
  OBVIOUS
<1>7. DoneInv(g, J)
  <2>1. ASSUME NEW d \in CombsOf(h), NEW w \in Ways, NEW i \in 1..h.comb[d].index
        PROVE  DoneAt(g, J, d, i, w)
    <3>1. DoneAt(h, J, d, i, w)
      BY <1>2, DoneParts
    <3>2. QED
      <4>1. /\ g.comb[d] = h.comb[d]
            /\ HandlerAt(g, d, i, w) = HandlerAt(h, d, i, w)
            /\ Processed(g, d, i, w) <=> Processed(h, d, i, w)
        BY <1>1, <1>5
      <4>2. ListOf(g, h.comb[d].items[i], w) = ListOf(h, h.comb[d].items[i], w)
        BY <1>4
      <4>3. QED
        BY <1>3, <3>1, <4>1, <4>2 DEF DoneAt
  <2>2. \A d \in CombsOf(g), w \in Ways : \A i \in 1..g.comb[d].index :
            DoneAt(g, J, d, i, w)
    BY <1>1, <1>6, <2>1
  <2>3. QED
    BY SMTT(30), <2>2, DoneParts
<1>8. CalledInv(g)
  BY <1>1, <1>2, <1>3, <1>5, <1>6 DEF CalledInv
<1>9. CountInv(g, M)
  <2>1. Uncalled(m) = {}
    BY <1>1, <1>6 DEF Uncalled
  <2>2. Cardinality({}) = 0
    BY FS_EmptySet
  <2> SUFFICES ASSUME NEW d \in CombsOf(g)
               PROVE  /\ d \notin M => g.comb[d].index = Len(g.comb[d].items)
                      /\ g.comb[d].kind # "race" =>
                            g.comb[d].remaining
                              = Cardinality(Uncalled(g.comb[d])) + (IF d \in M THEN 1 ELSE 0)
    BY DEF CountInv
  <2>3. CASE d = c
    BY <1>1, <2>1, <2>2, <2>3 DEF Joins
  <2>4. CASE d \in CombsOf(h)
    <3>1. d \in M <=> d \in L
      BY <1>1, <2>4 DEF Joins
    <3>2. QED
      BY <1>1, <1>2, <2>4, <3>1 DEF CountInv
  <2>5. QED
    BY <1>1, <2>3, <2>4
<1>10. ZeroInv(g, X)
  BY <1>1, <1>2, <1>4 DEF ZeroInv
<1>11. JustInv(g)
  <2>1. \A d \in CombsOf(h) : \A s : Justified(h, h.comb[d], s) <=> Justified(g, g.comb[d], s)
    BY <1>1, <1>3, JustifiedSame
  <2>2. QED
    BY <1>1, <1>2, <1>3, <1>4, <2>1 DEF JustInv
<1>12. QED
  BY <1>7, <1>8, <1>9, <1>10, <1>11 DEF CombInv

\* js_promise_all and js_promise_race before their loop.
Arguments(h, kind, items) ==
    /\ kind \in Kinds /\ items \in Seq(Nat)
    /\ \A i \in 1..Len(items) : items[i] \in PromisesOf(h)

NewLoop(h, g, c) ==
    /\ HeapInv(g) /\ Grows(h, g) /\ g.fn = h.fn /\ c \in CombsOf(g)
    /\ \A x \in Private(g) : x \in Private(h) \/ x = Len(h.pair) + 1

LEMMA NewCombinatorHeap ==
    ASSUME NEW h, HeapInv(h), NEW kind, NEW items, Arguments(h, kind, items),
           NEW E, NEW L, CombInv(h, JobSet(h) \cup E, L, {}),
           NEW c, c = Len(h.comb) + 1, NEW M, Joins(M, L, c),
           NEW g, g = NewCombinator(h, kind, items)
    PROVE  NewLoop(h, g, c) /\ CombInv(g, JobSet(g) \cup E, M, {})
<1> USE DEF Arguments
<1> DEFINE a == NewCapability(h)
           r == LastPair(a)
           m == [kind |-> kind, items |-> items, cap |-> r, index |-> 0, called |-> {},
                 remaining |-> 1]
<1>1. /\ Quiet(h, a) /\ CapabilityEffect(h, a) /\ r = Len(h.pair) + 1
      /\ r \in PairsOf(a) /\ r \notin PairsOf(h) /\ r \notin Private(a)
  BY CapabilityQuiet
<1>2. g = [a EXCEPT !.comb = Append(@, m)]
  BY DEF NewCombinator, FirstRemaining
<1>3. /\ m.kind = kind /\ m.items = items /\ m.cap = r /\ m.index = 0 /\ m.called = {}
      /\ m.remaining = 1
  OBVIOUS
<1> HIDE DEF a, r
<1>4. Shape(h) /\ RefInv(h) /\ Lengths(h)
  BY ShapeLengths DEF HeapInv
<1>5. /\ HeapInv(a) /\ Shape(a) /\ Grows(h, a) /\ a.comb = h.comb /\ a.fn = h.fn /\ PrivateInv(a)
      /\ CombInv(a, JobSet(a) \cup E, L, {}) /\ CombsOf(a) = CombsOf(h) /\ FnsOf(a) = FnsOf(h)
  BY <1>1 DEF Quiet, HeapInv, CombsStay, CombsOf, FnsOf
<1>6. m \in Combs
  <2>1. r \in Nat /\ {} \in SUBSET (Nat \X Ways)
    BY <1>1, <1>4 DEF Lengths
  <2>2. QED
    BY <2>1 DEF Combs
<1> HIDE DEF m
<1>7. NewCombEffect(a, g, m)
  BY <1>2, <1>5, <1>6, NewCombHasEffect
<1>8. /\ \A q \in PromisesOf(a), w \in Ways : \A i \in ListOf(a, q, w) :
            RefOK(h, a.reactions[q][w][i])
      /\ \A i \in JobsOf(a) : RefOK(h, a.jobs[i])
      /\ \A i \in 1..Len(m.items) : m.items[i] \in PromisesOf(a)
  <2>1. CapabilityAdds(h, a)
    BY <1>1, <1>4, CapabilityLists
  <2>2. a.jobs = h.jobs /\ JobsOf(a) = JobsOf(h)
    BY <1>1 DEF CapabilityEffect, JobsOf
  <2>3. \A q \in PromisesOf(h), w \in Ways : /\ ListOf(a, q, w) = ListOf(h, q, w)
                                             /\ a.reactions[q] = h.reactions[q]
    BY <2>1 DEF CapabilityAdds, ListOf
  <2>4. QED
    BY <1>3, <1>4, <2>1, <2>2, <2>3 DEF CapabilityAdds, RefInv
<1>9. /\ \A q \in PromisesOf(a), w \in Ways : \A i \in ListOf(a, q, w) :
            Unknown(a, a.reactions[q][w][i], r, c)
      /\ \A i \in JobsOf(a) : Unknown(a, a.jobs[i], r, c)
  <2>1. \A x : RefOK(h, x) => Unknown(a, x, r, c)
    BY <1>1, <1>4, NewUnknown DEF Unknown
  <2>2. QED
    BY <1>8, <2>1
<1>10. \A f \in FnsOf(a) : a.fn[f].cap # r
  BY <1>1, <1>4, <1>5 DEF RefInv
<1>11. c = Len(a.comb) + 1 /\ Len(m.items) \in Nat
  BY <1>3, <1>5
<1>12. Open(a, m.cap)
  BY <1>1, <1>3, <1>4 DEF Open, RefInv, CapabilityEffect
<1>13. FreshComb(a, m, c)
  BY <1>1, <1>3, <1>8, <1>9, <1>10, <1>11, <1>12 DEF FreshComb
<1>14. PrivateInv(g) /\ CombAdded(a, g, m, c)
  BY <1>5, <1>7, <1>13, NewCombPrivate
<1>15. /\ HeapInv(g) /\ Grows(a, g) /\ g.fn = a.fn
       /\ CombInv(g, JobSet(g) \cup E, M, {})
  <2>1. HeapInv(g) /\ Grows(a, g) /\ g.fn = a.fn
    BY <1>5, <1>7, <1>14, NewCombHeap
  <2>2. CombInv(g, JobSet(g) \cup E, M, {})
    <3> DEFINE J == JobSet(a) \cup E
               X == {}
    <3>1. CombInv(a, J, L, X)
      BY <1>5
    <3>2. J = JobSet(g) \cup E
      BY <1>7 DEF NewCombEffect, JobSet, JobsOf
    <3> HIDE DEF J, X
    <3>3. CombInv(g, J, M, X)
      BY <1>5, <1>7, <1>13, <1>14, <3>1, NewCombInv
    <3>4. QED
      BY <3>2, <3>3 DEF X
  <2>3. QED
    BY <2>1, <2>2
<1>16. Grows(h, g)
  <2>1. Lengths(a) /\ Lengths(g)
    BY <1>5, <1>15, ShapeLengths DEF HeapInv
  <2>2. QED
    BY <1>4, <1>5, <1>15, <2>1, GrowsTrans
<1>17. \A x \in Private(g) : x \in Private(h) \/ x = Len(h.pair) + 1
  BY SMTT(30), <1>1, <1>3, <1>5, <1>14 DEF Private, CombAdded
<1>18. QED
  BY <1>5, <1>14, <1>15, <1>16, <1>17 DEF CombAdded, NewLoop

-----------------------------------------------------------------------------
(***************************************************************************)
(* Jobs.  The invariant of the heap, with the combinators in L looping.    *)
(***************************************************************************)
\* What frames of JavaScript code rely on.
Tame(h, g) == Grows(h, g) /\ Private(g) = Private(h) /\ g.fn = h.fn

LEMMA QuietGood ==
    ASSUME NEW h, NEW g, NEW L, Good(h, L), Quiet(h, g)
    PROVE  Good(g, L) /\ Tame(h, g)
<1> DEFINE E == {}
           X == {}
<1>1. JobSet(h) \cup E = JobSet(h) /\ JobSet(g) \cup E = JobSet(g)
  OBVIOUS
<1>2. CombInv(h, JobSet(h), L, X)
  BY DEF Good
<1> HIDE DEF E, X
<1>3. CombInv(g, JobSet(g) \cup E, L, X)
  BY <1>1, <1>2 DEF Quiet, CombsStay
<1>4. Good(g, L)
  BY <1>1, <1>3 DEF Good, Quiet, X
<1>5. Private(g) = Private(h)
  BY DEF Quiet, Private, CombsOf
<1>6. QED
  BY <1>4, <1>5 DEF Tame, Quiet

LEMMA TameTrans ==
    ASSUME NEW h, NEW k, NEW g, HeapInv(h), HeapInv(k), HeapInv(g), Tame(h, k), Tame(k, g)
    PROVE  Tame(h, g)
<1>1. Lengths(h) /\ Lengths(k) /\ Lengths(g)
  BY ShapeLengths DEF HeapInv
<1>2. Grows(h, g)
  BY <1>1, GrowsTrans DEF Tame
<1>3. QED
  BY <1>2 DEF Tame

\* x is the reaction job that runs, h the heap without it.
InHand(h, x) ==
    /\ HeapInv(h)
    /\ x \in Jobs /\ x.kind = "reaction" /\ x.arg = Plain
    /\ x.cap \in 0..Len(h.pair) /\ x.cap \notin Private(h)
    /\ HandlerOK(h, x.handler) /\ Legit(h, x.handler, x.on, x.way)
    /\ h.state[x.on] = Outcome(x.way)

Taking(h, g, x) == TakeEffect(h, g) /\ x = h.jobs[1] /\ x.kind = "reaction"

LEMMA TakeReaction ==
    ASSUME NEW h, NEW g, NEW x, NEW L, Good(h, L), Taking(h, g, x), x.handler.kind # "await"
    PROVE  InHand(g, x) /\ CombInv(g, JobSet(g) \cup {x}, L, {}) /\ Tame(h, g)
<1>1. /\ Shape(h) /\ RefInv(h) /\ WayInv(h) /\ OrderInv(h) /\ ContInv(h) /\ PrivateInv(h)
      /\ CombType(h) /\ CombInv(h, JobSet(h), L, {})
  BY DEF HeapInv, PrivateInv, Good
<1>2. TakeEffect(h, g) /\ x = h.jobs[1] /\ x.kind = "reaction"
  BY DEF Taking
<1>3. RefInv(g) /\ Grows(h, g) /\ 1 \in JobsOf(h)
  BY <1>1, <1>2, TakeRef
<1>4. WayInv(g) /\ OrderInv(g)
  BY <1>1, <1>2, TakeWay, TakeOrder
<1>5. ContInv(g)
  BY <1>1, <1>2, TakeCont
<1>6. PrivateInv(g)
  BY <1>1, <1>2, TakePrivate
<1>7. CombInv(g, JobSet(g) \cup {h.jobs[1]}, L, {})
  BY <1>1, <1>2, TakeComb
<1>8. /\ g.comb = h.comb /\ g.fn = h.fn /\ g.state = h.state /\ g.pair = h.pair /\ Shape(g)
      /\ x \in Jobs
  BY <1>2 DEF TakeEffect
<1>9. Private(g) = Private(h) /\ CombsOf(g) = CombsOf(h) /\ FnsOf(g) = FnsOf(h) /\ PairsOf(g) = PairsOf(h)
  BY <1>8 DEF Private, CombsOf, FnsOf, PairsOf
<1>10. HeapInv(g)
  BY <1>3, <1>4, <1>5, <1>6, <1>8 DEF HeapInv
<1>11. /\ RefOK(h, x) /\ x.arg = Plain /\ x.cap \notin Private(h)
       /\ Legit(h, x.handler, x.on, x.way) /\ h.state[x.on] = Outcome(x.way)
  BY <1>1, <1>2, <1>3 DEF RefInv, PrivateInv, OrderInv
<1>12. Legit(g, x.handler, x.on, x.way)
  BY <1>1, <1>8, <1>11, SameCombs, LegitKeeps
<1>13. HandlerOK(g, x.handler) /\ x.cap \in 0..Len(g.pair)
  BY <1>8, <1>9, <1>11 DEF RefOK, HandlerOK
<1>14. InHand(g, x)
  BY <1>2, <1>8, <1>9, <1>10, <1>11, <1>12, <1>13 DEF InHand
<1>15. QED
  BY <1>2, <1>3, <1>7, <1>8, <1>9, <1>14 DEF Tame

\* The work of the job in hand has been done.
Finished(g, x) ==
    \A c \in CombsOf(g), w \in Ways : \A i \in 1..g.comb[c].index :
        IsJobFor(x, HandlerAt(g, c, i, w), g.comb[c].items[i], w) => Processed(g, c, i, w)

HasHand(g, x, L) == HeapInv(g) /\ CombInv(g, JobSet(g) \cup {x}, L, {})

LEMMA JobDone ==
    ASSUME NEW g, NEW x, NEW L, HasHand(g, x, L), Finished(g, x)
    PROVE  Good(g, L)
<1>1. /\ HeapInv(g) /\ DoneInv(g, JobSet(g) \cup {x}) /\ CalledInv(g) /\ CountInv(g, L)
      /\ ZeroInv(g, {}) /\ JustInv(g)
  BY DEF HasHand, CombInv
<1>2. DoneInv(g, JobSet(g))
  BY <1>1, DropJob DEF Finished
<1>3. QED
  BY <1>1, <1>2 DEF Good, CombInv

\* Handlers that no combinator has put there.
LEMMA NotOfCombinator ==
    ASSUME NEW g, HeapInv(g), NEW x, x.handler.kind \notin {"element", "settle"}
    PROVE  Finished(g, x)
<1> SUFFICES ASSUME NEW c \in CombsOf(g), NEW w \in Ways, NEW i \in 1..g.comb[c].index,
                    IsJobFor(x, HandlerAt(g, c, i, w), g.comb[c].items[i], w)
             PROVE  FALSE
  BY DEF Finished
<1>1. g.comb[c].kind \in Kinds
  BY CombTypes DEF HeapInv
<1>2. x.handler = HandlerAt(g, c, i, w)
  BY DEF IsJobFor
<1>3. x.handler.kind \in {"element", "settle"}
  BY <1>1, <1>2, HandlerKinds
<1>4. QED
  BY <1>3

\* The call of a pair by a settle handler is right for a combinator.
LEMMA SettleRight ==
    ASSUME NEW h, NEW x, InHand(h, x), x.handler.kind = "settle", NEW r, r = x.handler.a,
           NEW b, b = x.handler.b
    PROVE  CallRight(h, r, b, Plain)
<1> SUFFICES ASSUME NEW c \in CombsOf(h), h.comb[c].cap = r
             PROVE  Justified(h, h.comb[c], Outcome(b))
  BY DEF CallRight
<1> DEFINE hd == x.handler
           w == x.way
<1>1. /\ Shape(h) /\ CombType(h) /\ w \in Ways /\ Legit(h, hd, x.on, w) /\ h.state[x.on] = Outcome(w)
  BY DEF InHand, HeapInv, PrivateInv, Jobs
<1>2. h.comb[c].kind \in Kinds
  BY <1>1, CombTypes
<1>3. Belongs(h, hd, c)
  BY DEF Belongs
<1>4. PICK i \in 1..h.comb[c].index : h.comb[c].items[i] = x.on /\ HandlerAt(h, c, i, w) = hd
  BY <1>1, <1>3 DEF Legit
<1> HIDE DEF hd, w
<1>5. /\ hd.b = w
      /\ ~(h.comb[c].kind = "all" /\ w = 0) /\ h.comb[c].kind # "allSettled"
      /\ ~(h.comb[c].kind = "any" /\ w = 1)
  <2>1. hd.kind = "settle"
    BY DEF hd
  <2>2. QED
    BY <1>1, <1>2, <1>4, <2>1, HandlerKinds
<1>6. i \in 1..Len(h.comb[c].items)
  BY <1>1, <1>4, ItemsAre
<1>7. w = 0 \/ w = 1
  BY <1>1 DEF Ways
<1>8. b = w
  BY <1>5 DEF hd
<1>9. QED
  BY <1>1, <1>4, <1>5, <1>6, <1>7, <1>8 DEF Justified, Outcome

LEMMA SettleJob ==
    ASSUME NEW h, NEW x, InHand(h, x), x.handler.kind = "settle", HasHand(h, x, {}),
           NEW r, r = x.handler.a, NEW b, b = x.handler.b, NEW g, g = Call(h, r, b, Plain)
    PROVE  Good(g, {}) /\ Tame(h, g)
<1>1. /\ HeapInv(h) /\ Shape(h) /\ RefInv(h) /\ WayInv(h) /\ CombType(h)
      /\ r \in PairsOf(h) /\ b \in Ways
  BY DEF InHand, HeapInv, PrivateInv, HandlerOK
<1>2. Plain \in -2..Len(h.state)
  BY <1>1, ShapeLengths DEF Plain, Lengths
<1>3. /\ HeapInv(g) /\ Grows(h, g) /\ g.comb = h.comb /\ g.fn = h.fn
      /\ CallEffect(h, g, r, b, Plain) /\ ~Open(g, r)
  BY <1>1, <1>2, CallHeap
<1>4. CallRight(h, r, b, Plain)
  BY SettleRight
<1> DEFINE E == {x}
           X == {}
           L == {}
<1>5. CombInv(h, JobSet(h) \cup E, L, X)
  BY DEF HasHand
<1> HIDE DEF E, X, L
<1>6. CombInv(g, JobSet(g) \cup E, L, X)
  BY <1>1, <1>3, <1>4, <1>5, CallComb
<1>7. HasHand(g, x, {})
  BY <1>3, <1>6 DEF HasHand, E, L, X
<1>8. Finished(g, x)
  <2> SUFFICES ASSUME NEW c \in CombsOf(g), NEW w \in Ways, NEW i \in 1..g.comb[c].index,
                      IsJobFor(x, HandlerAt(g, c, i, w), g.comb[c].items[i], w)
               PROVE  Processed(g, c, i, w)
    BY SMTT(30) DEF Finished
  <2> DEFINE hd == x.handler
  <2>1. g.comb[c].kind \in Kinds /\ hd = HandlerAt(g, c, i, w)
    BY <1>3, CombTypes DEF HeapInv, IsJobFor
  <2> HIDE DEF hd
  <2>2. hd.kind = "settle" => hd.a = g.comb[c].cap
    BY <2>1, HandlerKinds
  <2>3. QED
    BY <1>3, <2>1, <2>2 DEF Processed, hd
<1>9. Private(g) = Private(h)
  BY <1>3 DEF Private, CombsOf
<1>10. QED
  BY <1>3, <1>7, <1>8, <1>9, JobDone DEF Tame

LEMMA ElementJob ==
    ASSUME NEW h, NEW x, InHand(h, x), x.handler.kind = "element", HasHand(h, x, {}),
           NEW c, c = x.handler.a, NEW i, i = x.handler.b, NEW w, w = x.way,
           NEW g, g = ResolveElement(h, c, i, w)
    PROVE  Good(g, {}) /\ Tame(h, g)
<1> DEFINE hd == x.handler
<1>1. /\ HeapInv(h) /\ Shape(h) /\ CombType(h) /\ c \in CombsOf(h) /\ w \in Ways
      /\ Legit(h, hd, x.on, w) /\ h.state[x.on] = Outcome(w)
  BY DEF InHand, HeapInv, PrivateInv, HandlerOK, Jobs
<1>2. h.comb[c].kind \in Kinds
  BY <1>1, CombTypes
<1>3. Belongs(h, hd, c)
  BY DEF Belongs
<1>4. PICK n \in 1..h.comb[c].index : h.comb[c].items[n] = x.on /\ HandlerAt(h, c, n, w) = hd
  BY <1>1, <1>3 DEF Legit
<1>5. n = i
  BY <1>1, <1>2, <1>4, HandlerKinds
<1>6. ElementRuns(h, c, i, w)
  BY <1>1, <1>4, <1>5 DEF ElementRuns
<1> DEFINE E == {x}
<1>7. NoneLoops(h, E)
  BY DEF HasHand, NoneLoops
<1> HIDE DEF E
<1>8. /\ HeapInv(g) /\ Grows(h, g) /\ CombsKeep(h, g) /\ g.fn = h.fn /\ NoneLoops(g, E)
      /\ <<i, w>> \in g.comb[c].called
  <2>1. ElementRan(h, g, c, i, w) /\ NoneLoops(g, E)
    BY <1>1, <1>6, <1>7, ElementHeap
  <2>2. QED
    BY <2>1 DEF ElementRan
<1>9. HasHand(g, x, {})
  BY SMTT(30), <1>8 DEF HasHand, NoneLoops, E
<1>10. Finished(g, x)
  <2> SUFFICES ASSUME NEW d \in CombsOf(g), NEW v \in Ways, NEW l \in 1..g.comb[d].index,
                      IsJobFor(x, HandlerAt(g, d, l, v), g.comb[d].items[l], v)
               PROVE  Processed(g, d, l, v)
    BY SMTT(30) DEF Finished
  <2>1. g.comb[d].kind \in Kinds /\ hd = HandlerAt(g, d, l, v) /\ v = w
    BY <1>8, CombTypes DEF HeapInv, IsJobFor
  <2> HIDE DEF hd
  <2>2. hd.kind = "element" => hd.a = d /\ hd.b = l
    BY <2>1, HandlerKinds
  <2>3. QED
    BY <1>8, <2>1, <2>2 DEF Processed, hd
<1>11. Private(g) = Private(h)
  BY <1>8, PrivateKeeps
<1>12. QED
  BY <1>8, <1>9, <1>10, <1>11, JobDone DEF Tame

LEMMA PlainValue ==
    ASSUME NEW h, HeapInv(h)
    PROVE  Plain \in -2..Len(h.state)
BY ShapeLengths DEF HeapInv, Plain, Lengths

LEMMA FinishGood ==
    ASSUME NEW h, NEW L, Good(h, L), NEW cap \in 0..Len(h.pair), cap \notin Private(h),
           NEW w \in Ways, NEW v \in -2..Len(h.state), w = 1 => v = Plain,
           NEW g, g = Finish(h, cap, w, v)
    PROVE  Good(g, L) /\ Tame(h, g)
<1>1. HeapInv(h)
  BY DEF Good
<1>2. Quiet(h, g)
  BY <1>1, FinishQuiet
<1>3. QED
  BY <1>2, QuietGood

LEMMA GoodHeap ==
    ASSUME NEW h, NEW L, Good(h, L)
    PROVE  HeapInv(h)
BY DEF Good

LEMMA FinishAfter ==
    ASSUME NEW h, NEW k, HeapInv(h), Tame(h, k), Good(k, {}), NEW cap \in 0..Len(h.pair),
           cap \notin Private(h), NEW w \in Ways, NEW g, g = Finish(k, cap, w, Plain)
    PROVE  Good(g, {}) /\ Tame(h, g)
<1>1. HeapInv(k) /\ Shape(h) /\ Shape(k) /\ Plain \in -2..Len(k.state)
  BY GoodHeap, PlainValue DEF HeapInv
<1>2. cap \in 0..Len(k.pair) /\ cap \notin Private(k)
  BY <1>1, GrowsSubset DEF Tame
<1> DEFINE L == {}
           v == Plain
<1>3. Good(k, L) /\ v \in -2..Len(k.state) /\ (w = 1 => v = Plain) /\ g = Finish(k, cap, w, v)
  BY <1>1
<1> HIDE DEF L, v
<1>4. Good(g, L) /\ Tame(k, g)
  BY <1>2, <1>3, FinishGood
<1>5. QED
  BY <1>1, <1>4, GoodHeap, TameTrans DEF L

\* promise_reaction_job with a handler of the engine, or none.
LEMMA NativeGood ==
    ASSUME Good(heap, {}), heap.jobs # <<>>, Job.kind = "reaction",
           Job.handler.kind \in {"none", "settle", "element", "thunk", "thrower"}
    PROVE  Good(NativeReaction, {}) /\ Tame(heap, NativeReaction)
<1> DEFINE x == Job
           hd == x.handler
           T == Taken
           L == {}
<1>1. HeapInv(heap) /\ Shape(heap) /\ RefInv(heap)
  BY GoodHeap DEF HeapInv
<1>2. Taking(heap, T, x)
  BY <1>1, TakenEffect DEF Taking
<1>3. /\ NativeReaction =
            IF hd.kind = "none" THEN Finish(T, x.cap, x.way, x.arg)
            ELSE IF hd.kind = "settle" THEN Finish(Call(T, hd.a, hd.b, x.arg), x.cap, 0, Plain)
            ELSE IF hd.kind = "element"
            THEN Finish(ResolveElement(T, hd.a, hd.b, x.way), x.cap, 0, Plain)
            ELSE IF hd.kind = "thunk" THEN Finish(T, x.cap, 0, hd.a)
            ELSE Finish(T, x.cap, 1, hd.a)
  BY DEF NativeReaction
<1> HIDE DEF x, T
<1>4. /\ hd.kind \in {"none", "settle", "element", "thunk", "thrower"} /\ Good(heap, L)
  BY DEF x
<1> HIDE DEF L
<1>5. InHand(T, x) /\ CombInv(T, JobSet(T) \cup {x}, L, {}) /\ Tame(heap, T)
  BY <1>2, <1>4, TakeReaction
<1>6. /\ HeapInv(T) /\ x.arg = Plain /\ x.way \in Ways /\ HasHand(T, x, {})
      /\ x.cap \in 0..Len(T.pair) /\ x.cap \notin Private(T) /\ HandlerOK(T, hd)
      /\ 0 \in Ways /\ 1 \in Ways
  BY <1>5 DEF InHand, HasHand, Jobs, Ways, L
<1>7. Tame(T, T)
  <2>1. Lengths(T)
    BY <1>6, ShapeLengths DEF HeapInv
  <2>2. QED
    BY <2>1 DEF Tame, Grows, Lengths
<1>8. ASSUME hd.kind \notin {"element", "settle"}
      PROVE  Good(T, {})
  <2>1. Finished(T, x)
    BY <1>6, <1>8, NotOfCombinator
  <2>2. QED
    BY <1>6, <2>1, JobDone
<1> DEFINE g == NativeReaction
<1> HIDE DEF g
<1>9. ASSUME hd.kind = "none"
       PROVE  Good(g, {}) /\ Tame(T, g)
  <2>1. g = Finish(T, x.cap, x.way, Plain)
    BY <1>3, <1>6, <1>9 DEF g
  <2>2. QED
    BY <1>6, <1>7, <1>8, <1>9, <2>1, FinishAfter
<1>10. ASSUME hd.kind = "thunk"
       PROVE  Good(g, {}) /\ Tame(T, g)
  <2>1. g = Finish(T, x.cap, 0, Plain)
    BY <1>3, <1>6, <1>10 DEF g, HandlerOK
  <2>2. QED
    BY <1>6, <1>7, <1>8, <1>10, <2>1, FinishAfter
<1>11. ASSUME hd.kind = "thrower"
       PROVE  Good(g, {}) /\ Tame(T, g)
  <2>1. g = Finish(T, x.cap, 1, Plain)
    BY <1>3, <1>6, <1>11 DEF g, HandlerOK
  <2>2. QED
    BY <1>6, <1>7, <1>8, <1>11, <2>1, FinishAfter
<1>12. ASSUME hd.kind = "settle"
       PROVE  Good(g, {}) /\ Tame(T, g)
  <2> DEFINE k == Call(T, hd.a, hd.b, Plain)
  <2>1. g = Finish(k, x.cap, 0, Plain)
    BY <1>3, <1>6, <1>12 DEF g
  <2>2. Good(k, {}) /\ Tame(T, k)
    BY <1>5, <1>6, <1>12, SettleJob
  <2> HIDE DEF k
  <2>3. QED
    BY <1>6, <2>1, <2>2, FinishAfter
<1>13. ASSUME hd.kind = "element"
       PROVE  Good(g, {}) /\ Tame(T, g)
  <2> DEFINE k == ResolveElement(T, hd.a, hd.b, x.way)
  <2>1. g = Finish(k, x.cap, 0, Plain)
    BY <1>3, <1>6, <1>13 DEF g
  <2>2. Good(k, {}) /\ Tame(T, k)
    BY <1>5, <1>6, <1>13, ElementJob
  <2> HIDE DEF k
  <2>3. QED
    BY <1>6, <2>1, <2>2, FinishAfter
<1>14. Good(g, {}) /\ Tame(T, g)
  BY <1>4, <1>9, <1>10, <1>11, <1>12, <1>13
<1>15. HeapInv(g)
  BY <1>14, GoodHeap
<1>16. Tame(heap, g)
  BY <1>1, <1>5, <1>6, <1>14, <1>15, TameTrans
<1>17. QED
  BY <1>14, <1>16 DEF g

\* js_promise_resolve_thenable_job up to its call of then: a new pair for the
\* promise that waits.
LEMMA ThenablePair ==
    ASSUME Good(heap, {}), heap.jobs # <<>>, Job.kind = "thenable",
           NEW g, g = NewPair(Taken, Job.on), NEW r, r = LastPair(g)
    PROVE  /\ Good(g, {}) /\ Tame(heap, g)
           /\ r \in PairsOf(g) /\ r \notin Private(g)
           /\ Job.arg \in -2..Len(g.state)
<1> DEFINE x == heap.jobs[1]
           T == Taken
<1>1. /\ HeapInv(heap) /\ Shape(heap) /\ RefInv(heap) /\ WayInv(heap) /\ OrderInv(heap)
      /\ ContInv(heap) /\ PrivateInv(heap) /\ CombType(heap)
      /\ CombInv(heap, JobSet(heap), {}, {})
  BY DEF Good, HeapInv, PrivateInv
<1>2. TakeEffect(heap, T) /\ Job = x
  BY <1>1, TakenEffect
<1> HIDE DEF T
<1>3. RefInv(T) /\ Grows(heap, T) /\ 1 \in JobsOf(heap)
  BY <1>1, <1>2, TakeRef
<1>4. /\ Shape(T) /\ T.state = heap.state /\ T.pair = heap.pair /\ T.comb = heap.comb /\ T.fn = heap.fn
  BY <1>2 DEF TakeEffect
<1>5. /\ x.kind = "thenable" /\ x.on \in PromisesOf(heap) /\ x.handler.kind = "none"
      /\ x.arg \in -2..Len(heap.state)
  BY <1>1, <1>2, <1>3 DEF RefInv, RefOK
<1>6. PromisesOf(T) = PromisesOf(heap) /\ x.on \in Nat
  BY <1>4, <1>5 DEF PromisesOf
<1>7. PairEffect(T, g, x.on)
  BY <1>2, <1>4, <1>6, NewPairEffect DEF T
<1>8. /\ Shape(g) /\ g.state = T.state /\ g.reactions = T.reactions /\ g.jobs = T.jobs
      /\ g.count = T.count /\ g.ran = T.ran /\ g.comb = T.comb /\ g.fn = T.fn
      /\ g.resolved = T.resolved
  BY <1>7 DEF PairEffect
<1>9. /\ PairsOf(g) = PairsOf(T) \cup {r} /\ r \notin PairsOf(T) /\ Len(T.pair) <= Len(g.pair)
      /\ \A s \in PairsOf(T) : g.pair[s] = T.pair[s]
  <2>1. Len(T.pair) \in Nat
    BY <1>4, ShapeLengths DEF Lengths
  <2>2. Adds(T.pair, g.pair, x.on)
    BY <1>7 DEF PairEffect
  <2>3. r = Len(T.pair) + 1
    BY <2>2 DEF Adds, LastPair
  <2>4. QED
    BY <2>1, <2>2, <2>3, AddsFacts DEF PairsOf, Adds
<1>10. RefInv(g)
  BY <1>3, <1>4, <1>5, <1>6, <1>7, PairRef
<1>11. WayInv(g)
  BY <1>1, <1>2, <1>5, <1>7, TakePairWay
<1>12. OrderInv(g)
  <2>1. OrderInv(T)
    BY <1>1, <1>2, TakeOrder
  <2>2. QED
    BY <1>8, <2>1, SameOrder
<1>13. ContInv(g)
  <2>1. ContInv(T)
    BY <1>1, <1>2, <1>5, TakeCont
  <2>2. FnsKeep(T, g)
    BY <1>8 DEF FnsOf, FnsKeep
  <2>3. QED
    BY <1>3, <1>8, <2>1, <2>2, FnCont
<1>14. PrivateInv(T) /\ CombType(T)
  BY <1>1, <1>2, TakePrivate DEF PrivateInv
<1>15. PrivateInv(g) /\ Private(g) = Private(T)
  <2>1. CombsKeep(T, g) /\ FnsOf(g) = FnsOf(T)
    BY <1>8, <1>14, SameCombs DEF FnsOf
  <2>2. \A f \in FnsOf(g) : g.fn[f].cap \notin Private(T)
    BY <1>8, <1>14, <2>1 DEF PrivateInv
  <2>3. QED
    BY <1>8, <1>9, <1>14, <2>1, <2>2, SamePrivate, PrivateKeeps
<1>16. HeapInv(g)
  BY <1>8, <1>10, <1>11, <1>12, <1>13, <1>15 DEF HeapInv
<1>17. Good(g, {})
  <2> DEFINE E == {x}
             L == {}
             X == {}
  <2>1. CombInv(heap, JobSet(heap), L, X)
    BY <1>1
  <2> HIDE DEF L, X
  <2>2. CombInv(T, JobSet(T) \cup E, L, X)
    BY <1>1, <1>2, <2>1, TakeComb
  <2> HIDE DEF E
  <2>3. CombInv(g, JobSet(g) \cup E, L, X)
    BY <1>3, <1>8, <1>9, <1>14, <2>2, SameComb
  <2>4. HasHand(g, x, {})
    BY <1>16, <2>3 DEF HasHand, E, L, X
  <2>5. Finished(g, x)
    BY <1>5 DEF Finished, IsJobFor
  <2>6. QED
    BY <2>4, <2>5, JobDone
<1>18. Tame(heap, g)
  <2>1. Private(T) = Private(heap)
    BY <1>4 DEF Private, CombsOf
  <2>2. Grows(T, g)
    <3>1. Lengths(T)
      BY <1>4, ShapeLengths
    <3>2. QED
      BY <1>8, <1>9, <3>1 DEF Grows, Lengths
  <2>3. Grows(heap, g)
    BY <1>1, <1>3, <1>4, <1>8, <2>2, ShapeLengths, GrowsTrans
  <2>4. QED
    BY <1>4, <1>8, <1>15, <2>1, <2>3 DEF Tame
<1>19. r \notin Private(g)
  <2>1. Private(T) \subseteq PairsOf(T)
    BY <1>14 DEF Private, CombType
  <2>2. QED
    BY <1>9, <1>15, <2>1
<1>20. QED
  BY <1>2, <1>4, <1>5, <1>8, <1>9, <1>17, <1>18, <1>19

-----------------------------------------------------------------------------
(***************************************************************************)
(* What the other functions do to a good heap.                             *)
(***************************************************************************)
PlainHandler(f) ==
    /\ f \in Handlers
    /\ f.kind \in {"none", "user", "finally", "thunk", "thrower"}
    /\ f.kind \in {"thunk", "thrower"} => f.a = Plain

LEMMA PlainHandlers ==
    ASSUME NEW h, NEW p, NEW f, PlainHandler(f), NEW r, PlainHandler(r),
           NEW on, on = Both(f, r)
    PROVE  GoodHandlers(h, p, on)
<1>1. on \in [Ways -> Handlers] /\ \A w \in Ways : on[w] = f \/ on[w] = r
  BY DEF Both, Ways, PlainHandler
<1>2. ASSUME NEW hd, PlainHandler(hd), NEW w
      PROVE  HandlerOK(h, hd) /\ hd.kind # "await" /\ Legit(h, hd, p, w)
  BY <1>2 DEF PlainHandler, HandlerOK, Legit, Belongs
<1>3. QED
  BY <1>1, <1>2 DEF GoodHandlers

LEMMA SettleHandlers ==
    ASSUME NEW h, NEW p, NEW r \in PairsOf(h), r \notin Private(h),
           NEW on, on = Both(SettleHandler(r, 0), SettleHandler(r, 1))
    PROVE  GoodHandlers(h, p, on)
<1> DEFINE s(b) == SettleHandler(r, b)
<1>1. r \in Nat
  BY DEF PairsOf
<1>2. ASSUME NEW b \in Ways
      PROVE  s(b) \in Handlers /\ s(b).kind = "settle" /\ s(b).a = r /\ s(b).b = b
  BY <1>1 DEF SettleHandler, Handler, Handlers, Ways
<1> HIDE DEF s
<1>3. on \in [Ways -> Handlers] /\ \A w \in Ways : on[w] = s(w)
  <2>1. on = [w \in 0..1 |-> IF w = 0 THEN s(0) ELSE s(1)]
    BY DEF s, Both
  <2>2. 0 \in Ways /\ 1 \in Ways /\ s(0) \in Handlers /\ s(1) \in Handlers
    BY <1>2 DEF Ways
  <2>3. QED
    BY <2>1, <2>2 DEF Ways
<1>4. ASSUME NEW w \in Ways
      PROVE  HandlerOK(h, s(w)) /\ s(w).kind # "await" /\ Legit(h, s(w), p, w)
  BY <1>2, <1>4 DEF HandlerOK, Legit, Belongs, Private
<1>5. QED
  BY <1>3, <1>4 DEF GoodHandlers

LEMMA ThenGood ==
    ASSUME NEW h, NEW L, Good(h, L), NEW p \in PromisesOf(h), NEW on, GoodHandlers(h, p, on),
           NEW g, g = js_promise_then(h, p, on)
    PROVE  Good(g, L) /\ Tame(h, g) /\ LastPromise(g) \in PromisesOf(g)
<1>1. Quiet(h, g) /\ LastPromise(g) \in PromisesOf(g)
  BY GoodHeap, ThenQuiet
<1>2. QED
  BY <1>1, QuietGood

LEMMA CallGood ==
    ASSUME NEW h, NEW L, Good(h, L), NEW r \in PairsOf(h), r \notin Private(h), NEW w \in Ways,
           NEW v \in -2..Len(h.state), w = 1 => v = Plain, NEW g, g = Call(h, r, w, v)
    PROVE  Good(g, L) /\ Tame(h, g)
<1>1. Quiet(h, g)
  BY GoodHeap, CallQuiet
<1>2. QED
  BY <1>1, QuietGood

LEMMA CapabilityGood ==
    ASSUME NEW h, NEW L, Good(h, L), NEW g, g = NewCapability(h)
    PROVE  /\ Good(g, L) /\ Tame(h, g) /\ LastPromise(g) \in PromisesOf(g)
           /\ LastPair(g) \in PairsOf(g) /\ LastPair(g) \notin Private(g)
<1>1. /\ Quiet(h, g) /\ LastPromise(g) \in PromisesOf(g)
      /\ LastPair(g) \in PairsOf(g) /\ LastPair(g) \notin Private(g)
  BY GoodHeap, CapabilityQuiet
<1>2. QED
  BY <1>1, QuietGood

\* From h to g async functions changed, and nothing else.
FnEffect(h, g) ==
    /\ Shape(g)
    /\ g.state = h.state /\ g.reactions = h.reactions /\ g.jobs = h.jobs /\ g.pair = h.pair
    /\ g.resolved = h.resolved /\ g.count = h.count /\ g.ran = h.ran /\ g.comb = h.comb
    /\ Len(h.fn) <= Len(g.fn)
    /\ \A f \in FnsOf(g) : g.fn[f].cap \in PairsOf(h) /\ g.fn[f].cap \notin Private(h)

\* The parts of the invariant that do not depend on the states of functions.
MostInv(h) == Shape(h) /\ RefInv(h) /\ WayInv(h) /\ OrderInv(h) /\ PrivateInv(h)

LEMMA FnHeap ==
    ASSUME NEW h, NEW g, MostInv(h), FnEffect(h, g)
    PROVE  MostInv(g) /\ Grows(h, g) /\ Private(g) = Private(h) /\ CombsStay(h, g)
<1>1. Shape(h) /\ RefInv(h) /\ WayInv(h) /\ OrderInv(h) /\ PrivateInv(h) /\ CombType(h)
  BY DEF MostInv, PrivateInv
<1>2. /\ Shape(g) /\ g.state = h.state /\ g.reactions = h.reactions /\ g.jobs = h.jobs
      /\ g.pair = h.pair /\ g.resolved = h.resolved /\ g.count = h.count /\ g.ran = h.ran
      /\ g.comb = h.comb /\ Len(h.fn) <= Len(g.fn)
      /\ \A f \in FnsOf(g) : g.fn[f].cap \in PairsOf(h) /\ g.fn[f].cap \notin Private(h)
  BY DEF FnEffect
<1>3. Lengths(h) /\ Lengths(g)
  BY <1>1, <1>2, ShapeLengths
<1>4. Grows(h, g)
  BY <1>2, <1>3 DEF Grows, Lengths
<1>5. RefInv(g)
  <2>1. \A x : RefOK(h, x) => RefOK(g, x)
    BY <1>3, <1>4, RefOKGrows
  <2>2. /\ PromisesOf(g) = PromisesOf(h) /\ PairsOf(g) = PairsOf(h)
        /\ JobsOf(g) = JobsOf(h) /\ \A q, w : ListOf(g, q, w) = ListOf(h, q, w)
    BY <1>2 DEF PromisesOf, PairsOf, JobsOf, ListOf
  <2>3. QED
    BY <1>1, <1>2, <2>1, <2>2 DEF RefInv
<1>6. WayInv(g) /\ OrderInv(g)
  BY <1>1, <1>2, SameWay, SameOrder
<1>7. PrivateInv(g) /\ Private(g) = Private(h)
  <2>1. CombsKeep(h, g) /\ PairsOf(g) = PairsOf(h)
    BY <1>1, <1>2, SameCombs DEF PairsOf
  <2>2. QED
    BY <1>1, <1>2, <2>1, SamePrivate, PrivateKeeps
<1>8. CombsStay(h, g)
  <2> SUFFICES ASSUME NEW E, NEW L, NEW X, CombInv(h, JobSet(h) \cup E, L, X)
               PROVE  CombInv(g, JobSet(g) \cup E, L, X)
    BY DEF CombsStay
  <2>1. \A r \in PairsOf(h) : g.pair[r] = h.pair[r]
    BY <1>2
  <2>2. QED
    BY <1>1, <1>2, <2>1, SameComb
<1>9. QED
  BY <1>2, <1>4, <1>5, <1>6, <1>7, <1>8 DEF MostInv

FnSet(h, g, f0, s) == FnEffect(h, g) /\ FnTurns(h, g, f0, s)

LEMMA FnUpdate ==
    ASSUME NEW h, MostInv(h), NEW f0 \in FnsOf(h), NEW s \in FnStates,
           NEW g, g = [h EXCEPT !.fn[f0].state = s]
    PROVE  FnSet(h, g, f0, s)
<1> DEFINE n == [h.fn[f0] EXCEPT !.state = s]
           t == [h.fn EXCEPT ![f0] = n]
<1>1. h \in Heaps /\ h.fn \in Seq(Fns) /\ f0 \in 1..Len(h.fn) /\ h.fn[f0] \in Fns
  BY DEF MostInv, Shape, Heaps, FnsOf
<1>2. n \in Fns /\ n.state = s /\ n.cap = h.fn[f0].cap
  BY <1>1 DEF Fns
<1>3. /\ t \in Seq(Fns) /\ Len(t) = Len(h.fn)
      /\ \A f \in 1..Len(h.fn) : t[f] = IF f = f0 THEN n ELSE h.fn[f]
  <2> HIDE DEF n
  <2>1. QED
    BY <1>1, <1>2, UpdateFacts
<1>4. g = [h EXCEPT !.fn = t]
  BY <1>1 DEF Heaps
<1> HIDE DEF t, n
<1>5. /\ g \in Heaps /\ g.fn = t
      /\ g.state = h.state /\ g.reactions = h.reactions /\ g.jobs = h.jobs /\ g.pair = h.pair
      /\ g.resolved = h.resolved /\ g.count = h.count /\ g.ran = h.ran /\ g.comb = h.comb
      /\ g.result = h.result
  BY <1>1, <1>3, <1>4 DEF Heaps
<1>6. Shape(g)
  BY <1>5 DEF Shape, MostInv
<1>7. FnsOf(g) = FnsOf(h) /\ \A f \in FnsOf(h) : g.fn[f].cap = h.fn[f].cap
  BY <1>2, <1>3, <1>5 DEF FnsOf
<1>8. \A f \in FnsOf(h) : h.fn[f].cap \in PairsOf(h) /\ h.fn[f].cap \notin Private(h)
  BY DEF MostInv, RefInv, PrivateInv
<1>9. Len(h.fn) <= Len(g.fn)
  BY <1>1, <1>3, <1>5
<1>10. QED
  BY <1>1, <1>2, <1>3, <1>5, <1>6, <1>7, <1>8, <1>9 DEF FnSet, FnTurns, FnEffect, FnsOf

\* promise_reaction_job up to its call of JavaScript code.
LEMMA HandlerGood ==
    ASSUME Good(heap, {}), heap.jobs # <<>>, Job.kind = "reaction",
           Job.handler.kind \in {"user", "finally"}
    PROVE  /\ Good(Taken, {}) /\ Tame(heap, Taken)
           /\ Job.cap \in 0..Len(Taken.pair) /\ Job.cap \notin Private(Taken)
           /\ Job.arg = Plain /\ Job.way \in Ways
<1> DEFINE x == Job
           T == Taken
           L == {}
<1>1. HeapInv(heap) /\ Shape(heap) /\ RefInv(heap)
  BY GoodHeap DEF HeapInv
<1>2. Taking(heap, T, x)
  BY <1>1, TakenEffect DEF Taking
<1> HIDE DEF x, T
<1>3. x.handler.kind \in {"user", "finally"} /\ Good(heap, L)
  BY DEF x
<1> HIDE DEF L
<1>4. InHand(T, x) /\ CombInv(T, JobSet(T) \cup {x}, L, {}) /\ Tame(heap, T)
  BY <1>2, <1>3, TakeReaction
<1>5. /\ HeapInv(T) /\ x.arg = Plain /\ x.way \in Ways /\ HasHand(T, x, L)
      /\ x.cap \in 0..Len(T.pair) /\ x.cap \notin Private(T)
  BY <1>4 DEF InHand, HasHand, Jobs
<1>6. Finished(T, x)
  BY <1>3, <1>5, NotOfCombinator
<1>7. Good(T, L)
  BY <1>5, <1>6, JobDone
<1>8. QED
  BY <1>4, <1>5, <1>7 DEF x, T, L

LEMMA MostOf ==
    ASSUME NEW h
    PROVE  HeapInv(h) <=> MostInv(h) /\ ContInv(h)
BY DEF HeapInv, MostInv

\* Functions may have changed their state, but not what frames rely on.
Mild(h, g) == Grows(h, g) /\ Private(g) = Private(h)

\* js_async_function_resolve_call
LEMMA ResumeGood ==
    ASSUME Good(heap, {}), heap.jobs # <<>>, Job.kind = "reaction",
           Job.handler.kind = "await", NEW f, f = Job.handler.a,
           NEW g, g = [Taken EXCEPT !.fn[f].state = "running"]
    PROVE  /\ Good(g, {}) /\ Mild(heap, g)
           /\ f \in FnsOf(g) /\ g.fn[f].state = "running"
<1> DEFINE x == heap.jobs[1]
           T == Taken
           L == {}
           X == {}
           s == "running"
<1>1. /\ HeapInv(heap) /\ Shape(heap) /\ RefInv(heap) /\ WayInv(heap) /\ OrderInv(heap)
      /\ ContInv(heap) /\ PrivateInv(heap) /\ CombType(heap)
      /\ CombInv(heap, JobSet(heap), L, X)
  BY DEF Good, HeapInv, PrivateInv
<1> HIDE DEF L, X
<1>2. TakeEffect(heap, T) /\ Job = x
  BY <1>1, TakenEffect
<1>3. g = [T EXCEPT !.fn[f].state = s] /\ s \in FnStates
  BY DEF FnStates
<1> HIDE DEF T, s
<1>4. RefInv(T) /\ Grows(heap, T) /\ 1 \in JobsOf(heap)
  BY <1>1, <1>2, TakeRef
<1>5. /\ Shape(T) /\ T.state = heap.state /\ T.pair = heap.pair /\ T.comb = heap.comb
      /\ T.fn = heap.fn /\ T.reactions = heap.reactions
  BY SMTT(30), <1>2 DEF TakeEffect
<1>6. x.kind = "reaction" /\ Goes(x, f) /\ f \in FnsOf(heap) /\ x.handler.kind = "await"
  BY <1>1, <1>2, <1>4 DEF RefInv, RefOK, HandlerOK, Goes
<1>7. MostInv(T)
  BY <1>1, <1>2, <1>4, <1>5, <1>6, TakeWay, TakeOrder, TakePrivate DEF MostInv
<1>8. f \in FnsOf(T)
  BY <1>5, <1>6 DEF FnsOf
<1>9. FnSet(T, g, f, s)
  BY <1>7, <1>8, <1>3, FnUpdate
<1>10. MostInv(g) /\ Grows(T, g) /\ Private(g) = Private(T) /\ CombsStay(T, g)
  BY <1>7, <1>9, FnHeap DEF FnSet
<1>11. ContInv(g)
  <2>1. /\ g.jobs = T.jobs /\ g.state = heap.state /\ g.reactions = heap.reactions
        /\ FnTurns(heap, g, f, "running")
    BY <1>5, <1>9 DEF FnSet, FnTurns, FnEffect, FnsOf, s
  <2>2. QED
    BY <1>1, <1>2, <1>6, <2>1, ResumeCont
<1>12. Good(g, L)
  <2> DEFINE E == {x}
  <2>1. CombInv(T, JobSet(T) \cup E, L, X)
    BY <1>1, <1>2, TakeComb
  <2> HIDE DEF E
  <2>2. CombInv(g, JobSet(g) \cup E, L, X)
    BY <1>10, <2>1 DEF CombsStay
  <2>3. HeapInv(g)
    BY <1>10, <1>11, MostOf
  <2>4. HasHand(g, x, L)
    BY <2>2, <2>3 DEF HasHand, E, X
  <2>5. Finished(g, x)
    BY <1>6, <2>3, NotOfCombinator
  <2>6. QED
    BY <2>4, <2>5, JobDone
<1>13. Mild(heap, g)
  <2>1. Lengths(heap) /\ Lengths(T) /\ Lengths(g)
    BY <1>1, <1>5, <1>10, ShapeLengths DEF MostInv
  <2>2. Grows(heap, g)
    BY <1>4, <1>10, <2>1, GrowsTrans
  <2>3. Private(T) = Private(heap)
    BY <1>5 DEF Private, CombsOf
  <2>4. QED
    BY <1>10, <2>2, <2>3 DEF Mild
<1>14. QED
  BY <1>6, <1>8, <1>9, <1>12, <1>13 DEF FnSet, FnTurns, L, s

LEMMA GoodStays ==
    ASSUME NEW h, NEW g, NEW L, Good(h, L), HeapInv(g), CombsStay(h, g)
    PROVE  Good(g, L)
<1> DEFINE E == {}
           X == {}
<1>1. CombInv(h, JobSet(h) \cup E, L, X)
  BY DEF Good
<1> HIDE DEF E, X
<1>2. CombInv(g, JobSet(g) \cup E, L, X)
  BY <1>1 DEF CombsStay
<1>3. QED
  BY <1>2 DEF Good, E, X

\* A function other than a suspended one changes its state.
LEMMA FnGood ==
    ASSUME NEW h, NEW L, Good(h, L), NEW f \in FnsOf(h), h.fn[f].state # "suspended",
           NEW s \in FnStates, s # "suspended", NEW g, g = [h EXCEPT !.fn[f].state = s]
    PROVE  Good(g, L) /\ Mild(h, g) /\ FnSet(h, g, f, s)
<1>1. MostInv(h) /\ ContInv(h) /\ RefInv(h)
  BY GoodHeap DEF HeapInv, MostInv
<1>2. FnSet(h, g, f, s)
  BY <1>1, FnUpdate
<1>3. MostInv(g) /\ Grows(h, g) /\ Private(g) = Private(h) /\ CombsStay(h, g)
  BY <1>1, <1>2, FnHeap DEF FnSet
<1>4. ContInv(g)
  <2>1. g.state = h.state /\ g.reactions = h.reactions /\ g.jobs = h.jobs
    BY <1>2 DEF FnSet, FnEffect
  <2>2. FnsKeep(h, g)
    BY <1>2 DEF FnSet, FnTurns, FnsKeep
  <2>3. QED
    BY <1>1, <2>1, <2>2, FnCont
<1>5. QED
  BY <1>2, <1>3, <1>4, MostOf, GoodStays DEF Mild

LEMMA MildTrans ==
    ASSUME NEW h, NEW k, NEW g, Shape(h), Shape(k), Shape(g), Mild(h, k), Mild(k, g)
    PROVE  Mild(h, g)
<1>1. Lengths(h) /\ Lengths(k) /\ Lengths(g)
  BY ShapeLengths
<1>2. Grows(h, g)
  BY <1>1, GrowsTrans DEF Mild
<1>3. QED
  BY <1>2 DEF Mild

LEMMA TameMild ==
    ASSUME NEW h, NEW g, Tame(h, g)
    PROVE  Mild(h, g) /\ g.fn = h.fn
BY DEF Tame, Mild

LEMMA GoodShape ==
    ASSUME NEW h, NEW L, Good(h, L)
    PROVE  Shape(h) /\ HeapInv(h) /\ MostInv(h) /\ ContInv(h)
BY DEF Good, HeapInv, MostInv

\* Function f begins to run.
Begins(h, g, f) ==
    /\ f = Len(h.fn) + 1 /\ FnsOf(g) = FnsOf(h) \cup {f} /\ f \notin FnsOf(h)
    /\ g.fn[f].state = "running"
    /\ \A e \in FnsOf(h) : g.fn[e] = h.fn[e]

LEMMA FnAppend ==
    ASSUME NEW h, MostInv(h), NEW cap \in PairsOf(h), cap \notin Private(h),
           NEW n, n = [state |-> "running", cap |-> cap],
           NEW g, g = [h EXCEPT !.fn = Append(@, n)], NEW f, f = Len(h.fn) + 1
    PROVE  FnEffect(h, g) /\ Begins(h, g, f)
<1> DEFINE t == Append(h.fn, n)
<1>1. h \in Heaps /\ h.fn \in Seq(Fns) /\ Len(h.fn) \in Nat
  BY DEF MostInv, Shape, Heaps
<1>2. n \in Fns /\ n.state = "running" /\ n.cap = cap
  BY DEF Fns, FnStates, PairsOf
<1>3. t \in Seq(Fns) /\ Adds(h.fn, t, n)
  BY <1>1, <1>2, AppendFacts
<1>4. g = [h EXCEPT !.fn = t]
  BY <1>1 DEF Heaps
<1> HIDE DEF t
<1>5. /\ g \in Heaps /\ g.fn = t
      /\ g.state = h.state /\ g.reactions = h.reactions /\ g.jobs = h.jobs /\ g.pair = h.pair
      /\ g.resolved = h.resolved /\ g.count = h.count /\ g.ran = h.ran /\ g.comb = h.comb
      /\ g.result = h.result
  BY <1>1, <1>3, <1>4 DEF Heaps
<1>6. Shape(g)
  BY <1>5 DEF Shape, MostInv
<1>7. /\ FnsOf(g) = FnsOf(h) \cup {f} /\ f \notin FnsOf(h)
      /\ \A e \in FnsOf(h) : g.fn[e] = h.fn[e]
      /\ g.fn[f] = n /\ Len(h.fn) <= Len(g.fn)
  BY <1>1, <1>3, <1>5, AddsFacts DEF FnsOf, Adds
<1>8. \A e \in FnsOf(h) : h.fn[e].cap \in PairsOf(h) /\ h.fn[e].cap \notin Private(h)
  BY DEF MostInv, RefInv, PrivateInv
<1>9. QED
  BY ZenonT(60), <1>2, <1>5, <1>6, <1>7, <1>8 DEF FnEffect, Begins

\* js_async_function_call
LEMMA AsyncCallGood ==
    ASSUME NEW h, NEW L, Good(h, L), NEW k, k = NewCapability(h),
           NEW n, n = [state |-> "running", cap |-> LastPair(k)],
           NEW g, g = [k EXCEPT !.fn = Append(@, n)], NEW f, f = Len(k.fn) + 1
    PROVE  /\ Good(g, L) /\ Mild(h, g) /\ Begins(h, g, f)
           /\ LastPromise(k) \in PromisesOf(g)
<1>1. /\ Good(k, L) /\ Tame(h, k) /\ LastPromise(k) \in PromisesOf(k)
      /\ LastPair(k) \in PairsOf(k) /\ LastPair(k) \notin Private(k)
  BY CapabilityGood
<1>2. MostInv(k) /\ ContInv(k) /\ RefInv(k) /\ Shape(k) /\ Shape(h)
  BY <1>1, GoodShape DEF MostInv
<1>3. FnEffect(k, g) /\ Begins(k, g, f)
  BY <1>1, <1>2, FnAppend
<1>4. MostInv(g) /\ Grows(k, g) /\ Private(g) = Private(k) /\ CombsStay(k, g)
  BY <1>2, <1>3, FnHeap
<1>5. ContInv(g)
  <2>1. g.state = k.state /\ g.reactions = k.reactions /\ g.jobs = k.jobs
    BY <1>3 DEF FnEffect
  <2>2. FnsKeep(k, g)
    BY <1>3 DEF FnsKeep, Begins
  <2>3. QED
    BY <1>2, <2>1, <2>2, FnCont
<1>6. Good(g, L)
  BY <1>1, <1>4, <1>5, MostOf, GoodStays
<1>7. Mild(h, g)
  <2>1. Mild(h, k) /\ Mild(k, g)
    BY <1>1, <1>4 DEF Tame, Mild
  <2>2. QED
    BY <1>2, <1>4, <2>1, MildTrans DEF MostInv
<1>8. Begins(h, g, f)
  BY <1>1, <1>3 DEF Begins, Tame, FnsOf
<1>9. LastPromise(k) \in PromisesOf(g)
  BY <1>1, <1>3 DEF FnEffect, PromisesOf
<1>10. QED
  BY <1>6, <1>7, <1>8, <1>9

\* js_async_function_resume: the body of a running function has ended.
LEMMA AsyncEndsGood ==
    ASSUME NEW h, NEW L, Good(h, L), NEW f \in FnsOf(h), h.fn[f].state = "running",
           NEW w \in Ways, NEW v \in -2..Len(h.state), w = 1 => v = Plain,
           NEW k, k = [h EXCEPT !.fn[f].state = "done"], NEW r, r = h.fn[f].cap,
           NEW g, g = Call(k, r, w, v)
    PROVE  Good(g, L) /\ Mild(h, g) /\ FnTurns(h, g, f, "done")
<1> DEFINE s == "done"
<1>1. s \in FnStates /\ s # "suspended" /\ h.fn[f].state # "suspended"
  BY DEF FnStates
<1>2. k = [h EXCEPT !.fn[f].state = s]
  OBVIOUS
<1> HIDE DEF s
<1>3. Good(k, L) /\ Mild(h, k) /\ FnSet(h, k, f, s)
  BY <1>1, <1>2, FnGood
<1>4. r \in PairsOf(h) /\ r \notin Private(h)
  BY GoodShape DEF MostInv, RefInv, PrivateInv
<1>5. r \in PairsOf(k) /\ r \notin Private(k) /\ v \in -2..Len(k.state)
  BY <1>3, <1>4 DEF FnSet, FnEffect, PairsOf, Mild
<1>6. Good(g, L) /\ Tame(k, g)
  BY <1>3, <1>5, CallGood
<1>7. Mild(k, g) /\ g.fn = k.fn
  BY <1>6, TameMild
<1>8. Mild(h, g)
  BY <1>3, <1>6, <1>7, GoodShape, MildTrans
<1>9. FnTurns(h, g, f, "done")
  BY <1>3, <1>7 DEF FnSet, FnTurns, FnsOf, s
<1>10. QED
  BY <1>6, <1>8, <1>9

\* The handlers of an await of function f.
WaitHandlers(h, p, on, f) ==
    /\ on \in [Ways -> Handlers]
    /\ \A w \in Ways : on[w].kind = "await" /\ on[w].a = f
    /\ \A w \in Ways : HandlerOK(h, on[w])
    /\ \A w \in Ways : Legit(h, on[w], p, w)

LEMMA AwaitHandlers ==
    ASSUME NEW h, NEW f \in FnsOf(h), NEW p, NEW go, go = Handler("await", f, 0),
           NEW on, on = Both(go, go)
    PROVE  WaitHandlers(h, p, on, f)
<1>1. go \in Handlers /\ go.kind = "await" /\ go.a = f
  BY DEF Handler, Handlers, FnsOf
<1>2. HandlerOK(h, go)
  BY <1>1 DEF HandlerOK
<1>3. \A w : Legit(h, go, p, w)
  BY <1>1 DEF Legit, Belongs
<1>4. on = [w \in Ways |-> go]
  BY DEF Both, Ways
<1>5. QED
  BY <1>1, <1>2, <1>3, <1>4 DEF WaitHandlers

\* A pair that is not a combinator's, or none.
PublicPair(h, r) == r \in 0..Len(h.pair) /\ r \notin Private(h)

\* What then does when its handlers wait for function f.
LEMMA WaitMost ==
    ASSUME NEW h, MostInv(h), NEW f, NEW p, NEW on, WaitHandlers(h, p, on, f),
           NEW cap, PublicPair(h, cap),
           NEW g, Waits(h, g, p, on, cap, f)
    PROVE  MostInv(g) /\ Grows(h, g) /\ Private(g) = Private(h) /\ CombsStay(h, g) /\ g.fn = h.fn
<1> USE DEF Waits, PublicPair
<1>1. /\ Shape(h) /\ RefInv(h) /\ WayInv(h) /\ OrderInv(h) /\ PrivateInv(h) /\ Shape(g)
  BY DEF MostInv, ThenEffect
<1>2. /\ \A w \in Ways : HandlerOK(h, on[w])
      /\ \A w \in Ways : Legit(h, on[w], p, w)
  BY DEF WaitHandlers
<1>3. RefInv(g)
  BY <1>1, <1>2, ThenRef
<1>4. WayInv(g) /\ OrderInv(g)
  BY <1>1, ThenWay, ThenOrder
<1>5. PrivateInv(g)
  BY <1>1, <1>2, ThenPrivate
<1>6. CombsStay(h, g)
  BY <1>1, ThenComb DEF CombsStay, PrivateInv
<1>7. Grows(h, g) /\ g.comb = h.comb /\ g.fn = h.fn
  BY <1>1, ShapeLengths DEF ThenEffect, Grows, Lengths
<1>8. Private(g) = Private(h)
  BY <1>7 DEF Private, CombsOf
<1>9. QED
  BY <1>1, <1>3, <1>4, <1>5, <1>6, <1>7, <1>8 DEF MostInv

LEMMA StayTrans ==
    ASSUME NEW h, NEW k, NEW g, CombsStay(h, k), CombsStay(k, g)
    PROVE  CombsStay(h, g)
BY DEF CombsStay

\* Function f of r is suspended in k, and g is k after the call of then.
LEMMA SuspendGood ==
    ASSUME NEW r, NEW L, Good(r, L), NEW k, NEW f \in FnsOf(r), r.fn[f].state = "running",
           FnSet(r, k, f, "suspended"), NEW p, NEW on, WaitHandlers(k, p, on, f),
           NEW cap, cap = 0, NEW g, Waits(k, g, p, on, cap, f)
    PROVE  Good(g, L) /\ Mild(r, g) /\ FnTurns(r, g, f, "suspended")
<1>1. MostInv(r) /\ ContInv(r) /\ Shape(r)
  BY GoodShape
<1>2. MostInv(k) /\ Grows(r, k) /\ Private(k) = Private(r) /\ CombsStay(r, k)
  BY <1>1, FnHeap DEF FnSet
<1>3. PublicPair(k, cap)
  BY <1>2, ZeroNotPrivate, ShapeLengths DEF Lengths, MostInv, PublicPair
<1>4. MostInv(g) /\ Grows(k, g) /\ Private(g) = Private(k) /\ CombsStay(k, g) /\ g.fn = k.fn
  BY <1>2, <1>3, WaitMost
<1>5. ContInv(g)
  <2>1. Suspends(r, k, f)
    BY DEF FnSet, FnEffect, Suspends
  <2>2. Shape(k) /\ OrderInv(k)
    BY <1>2 DEF MostInv
  <2>3. QED
    BY <1>1, <2>1, <2>2, AwaitCont
<1>6. Good(g, L)
  BY <1>2, <1>4, <1>5, StayTrans, MostOf, GoodStays
<1>7. Mild(r, g)
  <2>1. Mild(r, k) /\ Mild(k, g) /\ Shape(k) /\ Shape(g)
    BY <1>2, <1>4 DEF Mild, MostInv
  <2>2. QED
    BY <1>1, <2>1, MildTrans
<1>8. FnTurns(r, g, f, "suspended")
  BY <1>4 DEF FnSet, FnTurns, FnsOf
<1>9. QED
  BY <1>6, <1>7, <1>8

\* js_async_function_resume at an await of v.
LEMMA AwaitGood ==
    ASSUME NEW h, NEW L, Good(h, L), NEW f \in FnsOf(h), h.fn[f].state = "running",
           NEW v \in -2..Len(h.state), NEW r, r = js_promise_resolve(h, v),
           NEW k, k = [r EXCEPT !.fn[f].state = "suspended"],
           NEW p, p = PromiseFor(h, v),
           NEW go, go = Handler("await", f, 0), NEW on, on = Both(go, go),
           NEW g, g = perform_promise_then(k, p, on, 0)
    PROVE  Good(g, L) /\ Mild(h, g) /\ FnTurns(h, g, f, "suspended")
<1> DEFINE s == "suspended"
           cap == 0
<1>1. Quiet(h, r) /\ p \in PromisesOf(r)
  BY GoodHeap, ResolveQuiet
<1>2. Good(r, L) /\ Tame(h, r)
  BY <1>1, QuietGood
<1>3. MostInv(r) /\ r.fn = h.fn /\ f \in FnsOf(r) /\ Shape(r) /\ Shape(h)
  BY <1>2, GoodShape DEF Tame, FnsOf
<1>4. /\ s \in FnStates /\ k = [r EXCEPT !.fn[f].state = s]
      /\ g = perform_promise_then(k, p, on, cap) /\ cap \in Nat
  BY DEF FnStates
<1> HIDE DEF s, cap
<1>5. FnSet(r, k, f, s)
  BY <1>3, <1>4, FnUpdate
<1>6. Shape(k)
  BY <1>5 DEF FnSet, FnEffect
<1>7. p \in PromisesOf(k) /\ f \in FnsOf(k)
  BY <1>1, <1>3, <1>5 DEF FnSet, FnEffect, FnTurns, PromisesOf
<1>8. WaitHandlers(k, p, on, f)
  BY <1>7, AwaitHandlers
<1>9. Waits(k, g, p, on, cap, f)
  <2>1. ThenEffect(k, g, p, on, cap)
    BY <1>4, <1>6, <1>7, <1>8, PerformThenEffect DEF WaitHandlers
  <2>2. QED
    BY <1>7, <1>8, <2>1 DEF Waits, WaitHandlers
<1>10. /\ Good(r, L) /\ f \in FnsOf(r) /\ r.fn[f].state = "running"
       /\ FnSet(r, k, f, "suspended") /\ cap = 0
  BY <1>2, <1>3, <1>5 DEF s, cap
<1>11. Good(g, L) /\ Mild(r, g) /\ FnTurns(r, g, f, "suspended")
  BY <1>8, <1>9, <1>10, SuspendGood
<1>12. Mild(h, g)
  BY <1>2, <1>3, <1>11, TameMild, GoodShape, MildTrans
<1>13. FnTurns(h, g, f, "suspended")
  BY <1>3, <1>11 DEF FnTurns, FnsOf
<1>14. QED
  BY <1>11, <1>12, <1>13

\* js_promise_resolve_thenable_job with the then method of a promise.
LEMMA AdoptGood ==
    ASSUME Good(heap, {}), heap.jobs # <<>>, Job.kind = "thenable", Job.arg > 0,
           NEW k, k = NewPair(Taken, Job.on), NEW r, r = LastPair(k),
           NEW g, g = js_promise_then(k, Job.arg, Both(SettleHandler(r, 0), SettleHandler(r, 1)))
    PROVE  Good(g, {}) /\ Tame(heap, g)
<1> DEFINE p == Job.arg
           on == Both(SettleHandler(r, 0), SettleHandler(r, 1))
           L == {}
<1>1. /\ Good(k, L) /\ Tame(heap, k) /\ r \in PairsOf(k) /\ r \notin Private(k)
      /\ Job.arg \in -2..Len(k.state)
  BY ThenablePair
<1>2. p \in PromisesOf(k) /\ g = js_promise_then(k, p, on)
  BY <1>1, ShapeLengths, GoodShape DEF PromisesOf, Lengths
<1>3. GoodHandlers(k, p, on)
  BY <1>1, SettleHandlers
<1> HIDE DEF p, on, L
<1>4. Good(g, L) /\ Tame(k, g)
  BY <1>1, <1>2, <1>3, ThenGood
<1>5. Tame(heap, g)
  BY <1>1, <1>4, GoodHeap, TameTrans
<1>6. QED
  BY <1>4, <1>5 DEF L

\* js_promise_then_finally_func
LEMMA FinallyGood ==
    ASSUME NEW h, NEW L, Good(h, L), NEW v \in -2..Len(h.state),
           NEW cap \in 0..Len(h.pair), cap \notin Private(h),
           NEW k, k = js_promise_resolve(h, v), NEW p, p = PromiseFor(h, v),
           NEW pass, PlainHandler(pass), NEW t, t = js_promise_then(k, p, Both(pass, NoHandler)),
           NEW g, g = Finish(t, cap, 0, LastPromise(t))
    PROVE  Good(g, L) /\ Tame(h, g)
<1> DEFINE on == Both(pass, NoHandler)
           w == 0
           x == LastPromise(t)
<1>1. Quiet(h, k) /\ p \in PromisesOf(k)
  BY GoodHeap, ResolveQuiet
<1>2. Good(k, L) /\ Tame(h, k)
  BY <1>1, QuietGood
<1>3. GoodHandlers(k, p, on) /\ t = js_promise_then(k, p, on)
  <2>1. PlainHandler(NoHandler)
    BY DEF PlainHandler, NoHandler, Handler, Handlers
  <2>2. QED
    BY <2>1, PlainHandlers
<1> HIDE DEF on
<1>4. Good(t, L) /\ Tame(k, t) /\ LastPromise(t) \in PromisesOf(t)
  BY <1>1, <1>2, <1>3, ThenGood
<1>5. Tame(h, t) /\ Shape(h) /\ Shape(t)
  BY <1>2, <1>4, GoodShape, TameTrans
<1>6. /\ cap \in 0..Len(t.pair) /\ cap \notin Private(t) /\ w \in Ways
      /\ x \in -2..Len(t.state) /\ (w = 1 => x = Plain) /\ g = Finish(t, cap, w, x)
  BY <1>4, <1>5, GrowsSubset DEF Tame, Ways, PromisesOf
<1> HIDE DEF w, x
<1>7. Good(g, L) /\ Tame(t, g)
  BY <1>4, <1>6, FinishGood
<1>8. QED
  BY <1>4, <1>5, <1>7, GoodHeap, TameTrans

-----------------------------------------------------------------------------
(***************************************************************************)
(* The stack.                                                              *)
(***************************************************************************)
\* From h to g no pair became private, and every function other than f0 that
\* was running is running.
Stays(h, g, f0) ==
    /\ Grows(h, g)
    /\ \A r \in 0..Len(h.pair) : r \in Private(g) => r \in Private(h)
    /\ \A f \in FnsOf(h) : f # f0 /\ h.fn[f].state = "running" =>
          f \in FnsOf(g) /\ g.fn[f].state = "running"

LEMMA FrameStays ==
    ASSUME NEW h, NEW g, Shape(h), Shape(g), NEW f0, Stays(h, g, f0), NEW x, FrameOK(h, x),
           x.kind = "async" => x.arg # f0
    PROVE  FrameOK(g, x)
<1>1. 0..Len(h.pair) \subseteq 0..Len(g.pair) /\ CombsOf(h) \subseteq CombsOf(g)
  BY GrowsSubset DEF Stays
<1>2. QED
  BY <1>1 DEF Stays, FrameOK

LEMMA FramesStay ==
    ASSUME NEW h, NEW g, NEW s, Shape(h), Shape(g), Stays(h, g, 0), FramesInv(h, s)
    PROVE  FramesInv(g, s)
<1>1. ASSUME NEW i \in 1..Len(s)
      PROVE  FrameOK(g, s[i])
  <2>1. FrameOK(h, s[i]) /\ (s[i].kind = "async" => s[i].arg # 0)
    BY DEF FramesInv, FrameOK, FnsOf
  <2>2. QED
    BY <2>1, FrameStays
<1>2. QED
  BY <1>1 DEF FramesInv

\* What the frames say of the one on top.
LEMMA TopFrame ==
    ASSUME NEW h, NEW s, FramesInv(h, s), s # <<>>
    PROVE  /\ Last(s) \in Frames /\ FrameOK(h, Last(s))
           /\ Last(s).kind = "combine" => Looping(s) = {Last(s).arg}
           /\ Last(s).kind # "combine" => Looping(s) = {}
<1>1. s \in Seq(Frames)
  BY DEF FramesInv
<1>2. Last(s) = s[Len(s)] /\ Len(s) \in 1..Len(s) /\ s[Len(s)] \in Frames
  BY <1>1, FrontFacts
<1>3. \A i \in 1..Len(s) : FrameOK(h, s[i]) /\ (s[i].kind = "combine" => i = Len(s))
  BY DEF FramesInv
<1>4. QED
  BY <1>2, <1>3 DEF Looping

LEMMA NoLoop ==
    ASSUME NEW h, FramesInv(h, stack), ~InFrame({"combine"})
    PROVE  Looping(stack) = {}
<1>1. CASE stack = <<>>
  BY <1>1 DEF Looping
<1>2. CASE stack # <<>>
  BY <1>2, TopFrame DEF InFrame, Frame
<1>3. QED
  BY <1>1, <1>2

\* The frame on top ends; if it is that of a function, that one may stop.
LEMMA FramesPop ==
    ASSUME NEW h, NEW g, NEW s, Shape(h), Shape(g), FramesInv(h, s), s # <<>>,
           NEW f0, Stays(h, g, f0), f0 = 0 \/ (Last(s).kind = "async" /\ Last(s).arg = f0),
           NEW t, t = Front(s)
    PROVE  FramesInv(g, t) /\ Looping(t) = {}
<1>1. s \in Seq(Frames)
  BY DEF FramesInv
<1>2. /\ t \in Seq(Frames) /\ Len(t) = Len(s) - 1 /\ \A i \in 1..Len(t) : t[i] = s[i]
      /\ Last(s) = s[Len(s)] /\ Len(s) \in Nat \ {0} /\ Len(s) \in 1..Len(s)
  BY <1>1, FrontFacts
<1>3. \A i \in 1..Len(t) : i \in 1..Len(s) /\ i # Len(s)
  BY <1>2
<1>4. \A i \in 1..Len(s) : FrameOK(h, s[i]) /\ (s[i].kind = "combine" => i = Len(s))
  BY DEF FramesInv
<1>5. \A i, j \in 1..Len(s) :
          s[i].kind = "async" /\ s[j].kind = "async" /\ s[i].arg = s[j].arg => i = j
  BY DEF FramesInv
<1>6. ASSUME NEW i \in 1..Len(t)
      PROVE  FrameOK(g, t[i]) /\ t[i].kind # "combine"
  <2>1. FrameOK(h, s[i]) /\ s[i].kind # "combine" /\ t[i] = s[i] /\ i \in 1..Len(s)
    BY <1>2, <1>3, <1>4
  <2>2. s[i].kind = "async" => s[i].arg # 0
    BY <2>1 DEF FrameOK, FnsOf
  <2>3. s[i].kind = "async" => s[i].arg # f0
    BY <1>2, <1>3, <1>5, <2>2
  <2>4. QED
    BY <2>1, <2>3, FrameStays
<1>7. \A i, j \in 1..Len(t) :
          t[i].kind = "async" /\ t[j].kind = "async" /\ t[i].arg = t[j].arg => i = j
  BY SMTT(30), <1>2, <1>3, <1>5
<1>8. Looping(t) = {}
  BY <1>6 DEF Looping
<1>9. QED
  BY <1>2, <1>6, <1>7, <1>8 DEF FramesInv

\* A frame begins.
LEMMA FramesPush ==
    ASSUME NEW g, NEW s, FramesInv(g, s), Looping(s) = {}, NEW x \in Frames, FrameOK(g, x),
           x.kind = "async" => \A i \in 1..Len(s) : s[i].kind = "async" => s[i].arg # x.arg,
           NEW t, t = Append(s, x)
    PROVE  /\ FramesInv(g, t)
           /\ x.kind = "combine" => Looping(t) = {x.arg}
           /\ x.kind # "combine" => Looping(t) = {}
<1>1. s \in Seq(Frames) /\ Len(s) \in Nat
  BY DEF FramesInv
<1>2. t \in Seq(Frames) /\ Adds(s, t, x)
  BY <1>1, AppendFacts
<1>3. /\ 1..Len(t) = (1..Len(s)) \cup {Len(s) + 1} /\ Len(s) + 1 \notin 1..Len(s)
      /\ \A i \in 1..Len(s) : t[i] = s[i]
      /\ t[Len(s) + 1] = x /\ Len(t) = Len(s) + 1
  BY <1>1, <1>2, AddsFacts DEF Adds
<1>4. \A i \in 1..Len(s) : FrameOK(g, s[i]) /\ s[i].kind # "combine"
  BY DEF FramesInv, Looping
<1>5. \A i, j \in 1..Len(s) :
          s[i].kind = "async" /\ s[j].kind = "async" /\ s[i].arg = s[j].arg => i = j
  BY DEF FramesInv
<1>6. \A i \in 1..Len(t) : FrameOK(g, t[i]) /\ (t[i].kind = "combine" => i = Len(t))
  BY <1>3, <1>4
<1>7. \A i, j \in 1..Len(t) :
          t[i].kind = "async" /\ t[j].kind = "async" /\ t[i].arg = t[j].arg => i = j
  BY <1>3, <1>5
<1>8. FramesInv(g, t)
  BY <1>2, <1>6, <1>7 DEF FramesInv
<1>9. Last(t) = x /\ t # <<>>
  <2>1. t # <<>>
    BY <1>2, <1>3
  <2>2. QED
    BY ZenonT(60), <1>2, <1>3, <2>1, FrontFacts
<1>10. QED
  BY <1>8, <1>9, TopFrame

LEMMA NoFrames ==
    ASSUME NEW h
    PROVE  FramesInv(h, <<>>) /\ Looping(<<>>) = {}
BY DEF FramesInv, Looping

\* A frame begins on an empty stack.
LEMMA FirstFrame ==
    ASSUME NEW g, NEW x \in Frames, x.kind # "combine", FrameOK(g, x), NEW t, t = <<x>>
    PROVE  FramesInv(g, t) /\ Looping(t) = {}
<1>1. t \in Seq(Frames) /\ Len(t) = 1 /\ t[1] = x
  OBVIOUS
<1>2. \A i \in 1..Len(t) : i = 1
  BY <1>1
<1>3. QED
  BY <1>1, <1>2 DEF FramesInv, Looping

LEMMA TameStays ==
    ASSUME NEW h, NEW g, Tame(h, g)
    PROVE  Stays(h, g, 0)
BY DEF Tame, Stays, FnsOf

LEMMA TurnStays ==
    ASSUME NEW h, NEW g, Mild(h, g), NEW f, NEW s, FnTurns(h, g, f, s)
    PROVE  Stays(h, g, f)
BY DEF Mild, FnTurns, Stays

LEMMA BeginStays ==
    ASSUME NEW h, NEW g, Mild(h, g), NEW f, Begins(h, g, f)
    PROVE  Stays(h, g, 0)
BY DEF Mild, Begins, Stays

LEMMA ScriptsStay ==
    ASSUME NEW h, NEW g, Shape(h), Shape(g), NEW f0, Stays(h, g, f0), NEW H, NEW K,
           ScriptsInv(h, H, K)
    PROVE  ScriptsInv(g, H, K)
<1>1. PromisesOf(h) \subseteq PromisesOf(g) /\ PairsOf(h) \subseteq PairsOf(g)
  BY GrowsSubset DEF Stays
<1>2. PairsOf(h) \subseteq 0..Len(h.pair)
  BY ShapeLengths DEF PairsOf, Lengths
<1>3. QED
  BY <1>1, <1>2 DEF Stays, ScriptsInv

\* The stack stays as it is, and so do the functions that run.
LEMMA TameKeeps ==
    ASSUME NEW h, NEW g, NEW L, NEW M, Good(h, L), Good(g, M), Tame(h, g),
           NEW s, FramesInv(h, s), NEW H, NEW K, ScriptsInv(h, H, K)
    PROVE  FramesInv(g, s) /\ ScriptsInv(g, H, K)
<1>1. Shape(h) /\ Shape(g)
  BY GoodShape
<1>2. Stays(h, g, 0)
  BY TameStays
<1>3. QED
  BY <1>1, <1>2, FramesStay, ScriptsStay

\* What scripts pass on.
LEMMA ScriptValues ==
    ASSUME Inv
    PROVE  /\ \A v \in Values \cup {BadThen} : v \in -2..Len(heap.state)
           /\ \A r \in held : r \in PairsOf(heap) /\ r \notin Private(heap)
           /\ \A p \in known : p \in PromisesOf(heap)
<1>1. Len(heap.state) \in Nat
  BY GoodShape, ShapeLengths DEF Inv, Lengths
<1>2. QED
  BY <1>1 DEF Inv, ScriptsInv, Values, Plain, Thenable, BadThen, PromisesOf

LEMMA InvNext ==
    ASSUME Good(heap', Looping(stack')), FramesInv(heap', stack'),
           ScriptsInv(heap', held', known'), ops' \in 0..MaxOps
    PROVE  Inv'
BY DEF Inv

LEMMA ScriptCounts ==
    ASSUME Inv, Script
    PROVE  ops' \in 0..MaxOps /\ Looping(stack) = {}
<1>1. ops \in 0..MaxOps /\ FramesInv(heap, stack) /\ MaxOps \in Nat
  BY PromiseBounds DEF Inv
<1>2. QED
  BY <1>1, NoLoop DEF Script

LEMMA NewKeeps ==
    ASSUME Inv, New
    PROVE  Inv'
<1> DEFINE L == Looping(stack)
<1>1. /\ Good(heap, L) /\ FramesInv(heap, stack) /\ ScriptsInv(heap, held, known)
      /\ heap' = NewCapability(heap) /\ stack' = stack /\ ops' \in 0..MaxOps
      /\ held' = held \cup {LastPair(heap')} /\ known' = known \cup {LastPromise(heap')}
  BY ScriptCounts DEF Inv, New
<1> HIDE DEF L
<1>2. /\ Good(heap', L) /\ Tame(heap, heap') /\ LastPromise(heap') \in PromisesOf(heap')
      /\ LastPair(heap') \in PairsOf(heap') /\ LastPair(heap') \notin Private(heap')
  BY <1>1, CapabilityGood
<1>3. FramesInv(heap', stack) /\ ScriptsInv(heap', held, known)
  BY <1>1, <1>2, TameKeeps
<1>4. ScriptsInv(heap', held', known')
  BY <1>1, <1>2, <1>3 DEF ScriptsInv
<1>5. QED
  BY <1>1, <1>2, <1>3, <1>4, InvNext DEF L

LEMMA CallKeeps ==
    ASSUME Inv, NEW r \in held, NEW w \in Ways, NEW v \in Values \cup {BadThen},
           w = 1 => v = Plain, CallResolving(r, w, v)
    PROVE  Inv'
<1> DEFINE L == Looping(stack)
<1>1. /\ Good(heap, L) /\ FramesInv(heap, stack) /\ ScriptsInv(heap, held, known)
      /\ heap' = Call(heap, r, w, v) /\ stack' = stack /\ ops' \in 0..MaxOps
      /\ held' = held /\ known' = known
  BY ScriptCounts DEF Inv, CallResolving
<1> HIDE DEF L
<1>2. r \in PairsOf(heap) /\ r \notin Private(heap) /\ v \in -2..Len(heap.state)
  BY ScriptValues
<1>3. Good(heap', L) /\ Tame(heap, heap')
  BY <1>1, <1>2, CallGood
<1>4. FramesInv(heap', stack) /\ ScriptsInv(heap', held, known)
  BY <1>1, <1>3, TameKeeps
<1>5. QED
  BY <1>1, <1>3, <1>4, InvNext DEF L

LEMMA ThenKeeps ==
    ASSUME Inv, NEW p \in known, NEW on, NEW a, NEW b, on = Both(a, b), PlainHandler(a),
           PlainHandler(b), Then(p, on)
    PROVE  Inv'
<1> DEFINE L == Looping(stack)
<1>1. /\ Good(heap, L) /\ FramesInv(heap, stack) /\ ScriptsInv(heap, held, known)
      /\ heap' = js_promise_then(heap, p, on) /\ stack' = stack /\ ops' \in 0..MaxOps
      /\ held' = held /\ known' = known \cup {LastPromise(heap')}
  BY ScriptCounts DEF Inv, Then
<1> HIDE DEF L
<1>2. p \in PromisesOf(heap) /\ GoodHandlers(heap, p, on)
  BY ScriptValues, PlainHandlers
<1>3. Good(heap', L) /\ Tame(heap, heap') /\ LastPromise(heap') \in PromisesOf(heap')
  BY <1>1, <1>2, ThenGood
<1>4. FramesInv(heap', stack) /\ ScriptsInv(heap', held, known)
  BY <1>1, <1>3, TameKeeps
<1>5. ScriptsInv(heap', held', known')
  BY <1>1, <1>3, <1>4 DEF ScriptsInv
<1>6. QED
  BY <1>1, <1>3, <1>4, <1>5, InvNext DEF L

LEMMA AsyncCallKeeps ==
    ASSUME Inv, AsyncCall
    PROVE  Inv'
<1> DEFINE L == Looping(stack)
           k == NewCapability(heap)
           n == [state |-> "running", cap |-> LastPair(k)]
           f == Len(k.fn) + 1
           x == [kind |-> "async", cap |-> 0, way |-> 0, arg |-> f]
<1>1. /\ Good(heap, L) /\ FramesInv(heap, stack) /\ ScriptsInv(heap, held, known)
      /\ heap' = [k EXCEPT !.fn = Append(@, n)] /\ stack' = Append(stack, x)
      /\ held' = held /\ known' = known \cup {LastPromise(k)}
      /\ ops' \in 0..MaxOps /\ L = {}
  BY ScriptCounts DEF Inv, AsyncCall
<1> HIDE DEF L
<1>2. /\ Good(heap', L) /\ Mild(heap, heap') /\ Begins(heap, heap', f)
      /\ LastPromise(k) \in PromisesOf(heap')
  BY <1>1, AsyncCallGood
<1>3. x \in Frames /\ x.kind = "async" /\ x.arg = f /\ x.cap = 0
  <2>1. f \in Nat
    BY <1>2 DEF Begins, FnsOf
  <2>2. QED
    BY <2>1 DEF Frames, Ways
<1> HIDE DEF k, n, f, x
<1>4. Shape(heap) /\ Shape(heap') /\ Stays(heap, heap', 0)
  BY <1>1, <1>2, GoodShape, BeginStays
<1>5. FramesInv(heap', stack) /\ ScriptsInv(heap', held, known)
  BY <1>1, <1>4, FramesStay, ScriptsStay
<1>6. FrameOK(heap', x)
  <2>1. 0 \in 0..Len(heap'.pair) /\ 0 \notin Private(heap')
    BY <1>2, <1>4, GoodShape, ZeroNotPrivate, ShapeLengths DEF MostInv, Lengths
  <2>2. QED
    BY <1>2, <1>3, <2>1 DEF FrameOK, Begins
<1>7. \A i \in 1..Len(stack) : stack[i].kind = "async" => stack[i].arg # f
  BY <1>1, <1>2 DEF FramesInv, FrameOK, Begins
<1>8. FramesInv(heap', stack') /\ Looping(stack') = {}
  BY <1>1, <1>3, <1>5, <1>6, <1>7, FramesPush DEF L
<1>9. ScriptsInv(heap', held', known')
  BY <1>1, <1>2, <1>5 DEF ScriptsInv
<1>10. QED
  BY <1>1, <1>2, <1>8, <1>9, InvNext

LEMMA AllKeeps ==
    ASSUME Inv, NEW kind \in Kinds, NEW n \in Nat, NEW items \in Lists(n), All(kind, items)
    PROVE  Inv'
<1> DEFINE L == Looping(stack)
           E == {}
           c == Len(heap.comb) + 1
           X == {}
           M == {c}
           x == [kind |-> "combine", cap |-> 0, way |-> 0, arg |-> c]
<1>1. /\ Good(heap, L) /\ FramesInv(heap, stack) /\ ScriptsInv(heap, held, known)
      /\ heap' = NewCombinator(heap, kind, items) /\ stack' = Append(stack, x)
      /\ held' = held /\ known' = known /\ ops' \in 0..MaxOps /\ L = {}
  BY ScriptCounts DEF Inv, All
<1>2. Arguments(heap, kind, items)
  <2>1. items \in [1..n -> known] /\ \A p \in known : p \in PromisesOf(heap) /\ p \in Nat
    BY <1>1 DEF Lists, ScriptsInv, PromisesOf
  <2>2. items = [i \in 1..n |-> items[i]] /\ \A i \in 1..n : items[i] \in Nat
    BY <2>1
  <2>3. items \in Seq(Nat) /\ Len(items) = n
    BY <2>2, MapFacts
  <2>4. QED
    BY <2>1, <2>3 DEF Arguments
<1>3. HeapInv(heap) /\ CombInv(heap, JobSet(heap) \cup E, L, X) /\ Joins(M, L, c) /\ Shape(heap)
  <2>1. JobSet(heap) \cup E = JobSet(heap)
    OBVIOUS
  <2>2. QED
    BY <1>1, <2>1, GoodShape DEF Good, Joins
<1>4. x \in Frames /\ x.kind = "combine" /\ x.arg = c /\ x.cap = 0
  <2>1. c \in Nat
    BY <1>3, ShapeLengths DEF Lengths
  <2>2. QED
    BY <2>1 DEF Frames, Ways
<1>5. c = Len(heap.comb) + 1
  OBVIOUS
<1> HIDE DEF L, E, c, M, x
<1>6. NewLoop(heap, heap', c) /\ CombInv(heap', JobSet(heap') \cup E, M, X)
  BY <1>1, <1>2, <1>3, <1>5, NewCombinatorHeap
<1>7. /\ HeapInv(heap') /\ Grows(heap, heap') /\ heap'.fn = heap.fn /\ c \in CombsOf(heap')
      /\ \A r \in Private(heap') : r \in Private(heap) \/ r = Len(heap.pair) + 1
  BY <1>6 DEF NewLoop
<1>8. Good(heap', M)
  BY <1>7, <1>6 DEF Good, E, X
<1>9. Stays(heap, heap', 0) /\ Shape(heap')
  <2>1. Len(heap.pair) \in Nat
    BY <1>3, ShapeLengths DEF Lengths
  <2>2. \A r \in 0..Len(heap.pair) : r # Len(heap.pair) + 1
    BY <2>1
  <2>3. QED
    BY <1>7, <1>8, <2>2, GoodShape DEF Stays, FnsOf
<1>10. FramesInv(heap', stack) /\ ScriptsInv(heap', held, known)
  BY <1>1, <1>3, <1>9, FramesStay, ScriptsStay
<1>11. FrameOK(heap', x)
  <2>1. 0 \in 0..Len(heap'.pair) /\ 0 \notin Private(heap')
    BY <1>7, <1>9, ZeroNotPrivate, ShapeLengths DEF HeapInv, Lengths
  <2>2. QED
    BY <1>4, <1>7, <2>1 DEF FrameOK
<1>12. FramesInv(heap', stack') /\ Looping(stack') = M
  <2>1. Looping(stack) = {}
    BY <1>1 DEF L
  <2>2. FramesInv(heap', stack') /\ Looping(stack') = {x.arg}
    BY ZenonT(60), <1>1, <1>4, <1>10, <1>11, <2>1, FramesPush
  <2>3. QED
    BY <1>4, <2>2 DEF M
<1>13. QED
  BY <1>1, <1>8, <1>10, <1>12, InvNext

\* The state in which a job begins.
LEMMA JobBegins ==
    ASSUME Inv, NEW kind, NEW handlers, JobIs(kind, handlers)
    PROVE  /\ Good(heap, {}) /\ ScriptsInv(heap, held, known) /\ ops \in 0..MaxOps
           /\ stack = <<>> /\ heap.jobs # <<>> /\ Job.kind = kind /\ Job.handler.kind \in handlers
<1>1. stack = <<>> /\ heap.jobs # <<>> /\ Job.kind = kind /\ Job.handler.kind \in handlers
  BY DEF JobIs
<1>2. Looping(stack) = {}
  BY <1>1, NoFrames
<1>3. QED
  BY <1>1, <1>2 DEF Inv

LEMMA RunNativeKeeps ==
    ASSUME Inv, RunNative
    PROVE  Inv'
<1>1. /\ Good(heap, {}) /\ ScriptsInv(heap, held, known) /\ ops \in 0..MaxOps
      /\ stack = <<>> /\ heap.jobs # <<>> /\ Job.kind = "reaction"
      /\ Job.handler.kind \in {"none", "settle", "element", "thunk", "thrower"}
  BY JobBegins DEF RunNative
<1>2. /\ heap' = NativeReaction /\ stack' = stack /\ held' = held /\ known' = known /\ ops' = ops
  BY DEF RunNative
<1>3. Good(heap', {}) /\ Tame(heap, heap')
  BY <1>1, <1>2, NativeGood
<1>4. FramesInv(heap, stack)
  BY DEF Inv
<1>5. FramesInv(heap', stack) /\ ScriptsInv(heap', held, known)
  BY <1>1, <1>3, <1>4, TameKeeps
<1>6. QED
  BY <1>1, <1>2, <1>3, <1>5, InvNext, NoFrames

LEMMA RunHandlerKeeps ==
    ASSUME Inv, RunHandler
    PROVE  Inv'
<1> DEFINE x == [kind |-> Job.handler.kind, cap |-> Job.cap, way |-> Job.way, arg |-> Job.arg]
<1>1. /\ Good(heap, {}) /\ ScriptsInv(heap, held, known) /\ ops \in 0..MaxOps
      /\ stack = <<>> /\ heap.jobs # <<>> /\ Job.kind = "reaction"
      /\ Job.handler.kind \in {"user", "finally"}
  BY JobBegins DEF RunHandler
<1>2. heap' = Taken /\ stack' = <<x>> /\ held' = held /\ known' = known /\ ops' = ops
  BY DEF RunHandler
<1>3. /\ Good(Taken, {}) /\ Tame(heap, Taken)
      /\ Job.cap \in 0..Len(Taken.pair) /\ Job.cap \notin Private(Taken)
      /\ Job.arg = Plain /\ Job.way \in Ways
  BY <1>1, HandlerGood
<1>4. Good(heap', {}) /\ Tame(heap, heap')
  BY <1>2, <1>3
<1>5. x \in Frames /\ x.kind # "combine" /\ FrameOK(heap', x)
  BY <1>1, <1>2, <1>3 DEF Frames, FrameOK, Plain
<1> HIDE DEF x
<1>6. FramesInv(heap', stack') /\ Looping(stack') = {}
  BY <1>2, <1>5, FirstFrame
<1>7. FramesInv(heap, stack)
  BY DEF Inv
<1>8. ScriptsInv(heap', held', known')
  BY <1>1, <1>2, <1>4, <1>7, TameKeeps
<1>9. QED
  BY <1>1, <1>2, <1>4, <1>6, <1>8, InvNext

LEMMA RunAwaitKeeps ==
    ASSUME Inv, RunAwait
    PROVE  Inv'
<1> DEFINE f == Job.handler.a
           x == [kind |-> "async", cap |-> 0, way |-> 0, arg |-> f]
<1>1. /\ Good(heap, {}) /\ ScriptsInv(heap, held, known) /\ ops \in 0..MaxOps
      /\ stack = <<>> /\ heap.jobs # <<>> /\ Job.kind = "reaction"
      /\ Job.handler.kind \in {"await"}
  BY JobBegins DEF RunAwait
<1>2. /\ heap' = [Taken EXCEPT !.fn[f].state = "running"] /\ stack' = <<x>>
      /\ held' = held /\ known' = known /\ ops' = ops
  BY DEF RunAwait
<1>3. /\ Good(heap', {}) /\ Mild(heap, heap')
      /\ f \in FnsOf(heap') /\ heap'.fn[f].state = "running"
  BY <1>1, <1>2, ResumeGood
<1> HIDE DEF f
<1>4. Shape(heap) /\ Shape(heap') /\ PrivateInv(heap')
  BY <1>1, <1>3, GoodShape DEF MostInv
<1>5. x \in Frames /\ x.kind # "combine" /\ FrameOK(heap', x)
  <2>1. 0 \in 0..Len(heap'.pair) /\ 0 \notin Private(heap')
    BY <1>4, ZeroNotPrivate, ShapeLengths DEF Lengths
  <2>2. f \in Nat
    BY <1>3 DEF FnsOf
  <2>3. QED
    BY <1>3, <2>1, <2>2 DEF Frames, Ways, FrameOK
<1> HIDE DEF x
<1>6. FramesInv(heap', stack') /\ Looping(stack') = {}
  BY <1>2, <1>5, FirstFrame
<1>7. ScriptsInv(heap', held', known')
  <2>1. PromisesOf(heap) \subseteq PromisesOf(heap') /\ PairsOf(heap) \subseteq PairsOf(heap')
    BY <1>3, <1>4, GrowsSubset DEF Mild
  <2>2. QED
    BY <1>1, <1>2, <1>3, <2>1 DEF ScriptsInv, Mild
<1>8. QED
  BY <1>1, <1>2, <1>3, <1>6, <1>7, InvNext

LEMMA RunThenableKeeps ==
    ASSUME Inv, RunThenable
    PROVE  Inv'
<1> DEFINE k == NewPair(Taken, Job.on)
           r == LastPair(k)
           x == [kind |-> "then", cap |-> r, way |-> 0, arg |-> 0]
<1>1. /\ Good(heap, {}) /\ ScriptsInv(heap, held, known) /\ ops \in 0..MaxOps
      /\ stack = <<>> /\ heap.jobs # <<>> /\ Job.kind = "thenable"
  BY JobBegins DEF RunThenable
<1>2. known' = known /\ ops' = ops /\ FramesInv(heap, stack)
  BY DEF RunThenable, Inv
<1>3. CASE Job.arg > 0
  <2>1. /\ heap' = js_promise_then(k, Job.arg, Both(SettleHandler(r, 0), SettleHandler(r, 1)))
        /\ stack' = stack /\ held' = held
    BY <1>3 DEF RunThenable
  <2>2. Good(heap', {}) /\ Tame(heap, heap')
    BY <1>1, <1>3, <2>1, AdoptGood
  <2>3. FramesInv(heap', stack) /\ ScriptsInv(heap', held, known)
    BY <1>1, <1>2, <2>2, TameKeeps
  <2>4. QED
    BY <1>1, <1>2, <2>1, <2>2, <2>3, InvNext, NoFrames
<1>4. CASE ~(Job.arg > 0)
  <2>1. heap' = k /\ stack' = <<x>> /\ held' = held \cup {r}
    BY <1>4 DEF RunThenable
  <2>2. /\ Good(heap', {}) /\ Tame(heap, heap') /\ r \in PairsOf(heap') /\ r \notin Private(heap')
    BY <1>1, <2>1, ThenablePair
  <2> HIDE DEF k, r
  <2>3. x \in Frames /\ x.kind # "combine" /\ FrameOK(heap', x)
    BY <2>2 DEF Frames, FrameOK, Ways, PairsOf, Plain
  <2> HIDE DEF x
  <2>4. FramesInv(heap', stack') /\ Looping(stack') = {}
    BY <2>1, <2>3, FirstFrame
  <2>5. ScriptsInv(heap', held, known)
    BY <1>1, <1>2, <2>2, TameKeeps
  <2>6. ScriptsInv(heap', held', known')
    BY <1>2, <2>1, <2>2, <2>5 DEF ScriptsInv
  <2>7. QED
    BY <1>1, <1>2, <2>2, <2>4, <2>6, InvNext
<1>5. QED
  BY <1>3, <1>4

\* The state in which a frame other than a loop ends.
EndsFrame(kinds) ==
    /\ Good(heap, {}) /\ FramesInv(heap, stack) /\ ScriptsInv(heap, held, known)
    /\ ops \in 0..MaxOps /\ stack # <<>>
    /\ Frame \in Frames /\ FrameOK(heap, Frame) /\ Frame.kind \in kinds /\ Frame = Last(stack)

LEMMA FrameBegins ==
    ASSUME Inv, NEW kinds, "combine" \notin kinds, InFrame(kinds)
    PROVE  EndsFrame(kinds)
<1>1. /\ Good(heap, Looping(stack)) /\ FramesInv(heap, stack) /\ ScriptsInv(heap, held, known)
      /\ ops \in 0..MaxOps /\ stack # <<>> /\ Frame.kind \in kinds /\ Frame = Last(stack)
  BY DEF Inv, InFrame, Frame
<1>2. Frame \in Frames /\ FrameOK(heap, Frame) /\ Looping(stack) = {}
  BY <1>1, TopFrame
<1>3. QED
  BY <1>1, <1>2 DEF EndsFrame

\* A frame ends whose code was not an async function.
LEMMA TameEnds ==
    ASSUME NEW kinds, EndsFrame(kinds), Good(heap', {}), Tame(heap, heap'),
           stack' = Front(stack), held' = held, known' = known, ops' = ops
    PROVE  Inv'
<1>1. Shape(heap) /\ Shape(heap') /\ Stays(heap, heap', 0)
  BY GoodShape, TameStays DEF EndsFrame
<1>2. FramesInv(heap', stack') /\ Looping(stack') = {}
  BY <1>1, FramesPop DEF EndsFrame
<1>3. ScriptsInv(heap', held', known')
  BY <1>1, ScriptsStay DEF EndsFrame
<1>4. QED
  BY <1>2, <1>3, InvNext DEF EndsFrame

LEMMA ReturnKeeps ==
    ASSUME Inv, NEW v \in Values, Return(v)
    PROVE  Inv'
<1> DEFINE kinds == {"user", "then"}
           L == {}
           w == 0
<1>1. EndsFrame(kinds)
  BY FrameBegins DEF Return
<1>2. /\ heap' = IF Frame.kind = "then" THEN heap ELSE Finish(heap, Frame.cap, w, v)
      /\ stack' = Front(stack) /\ held' = held /\ known' = known /\ ops' = ops
  BY DEF Return, Pop
<1>3. /\ Good(heap, L) /\ Frame.cap \in 0..Len(heap.pair) /\ Frame.cap \notin Private(heap)
      /\ v \in -2..Len(heap.state) /\ w \in Ways /\ (w = 1 => v = Plain) /\ HeapInv(heap)
  BY <1>1, ScriptValues, GoodHeap DEF EndsFrame, FrameOK, Ways
<1> HIDE DEF kinds, L, w
<1>4. Good(heap', L) /\ Tame(heap, heap')
  <2>1. CASE Frame.kind = "then"
    BY <1>2, <1>3, <2>1, SameHeap, QuietGood
  <2>2. CASE Frame.kind # "then"
    BY <1>2, <1>3, <2>2, FinishGood
  <2>3. QED
    BY <2>1, <2>2
<1>5. QED
  BY <1>1, <1>2, <1>4, TameEnds DEF L

LEMMA ThrowKeeps ==
    ASSUME Inv, Throw
    PROVE  Inv'
<1> DEFINE kinds == {"user", "then", "finally"}
           L == {}
           w == 1
           v == Plain
<1>1. EndsFrame(kinds)
  BY FrameBegins DEF Throw
<1>2. /\ heap' = Finish(heap, Frame.cap, w, v)
      /\ stack' = Front(stack) /\ held' = held /\ known' = known /\ ops' = ops
  BY DEF Throw, Pop
<1>3. /\ Good(heap, L) /\ Frame.cap \in 0..Len(heap.pair) /\ Frame.cap \notin Private(heap)
      /\ v \in -2..Len(heap.state) /\ w \in Ways /\ (w = 1 => v = Plain)
  BY <1>1, GoodHeap, PlainValue DEF EndsFrame, FrameOK, Ways
<1> HIDE DEF kinds, L, w, v
<1>4. Good(heap', L) /\ Tame(heap, heap')
  BY <1>2, <1>3, FinishGood
<1>5. QED
  BY <1>1, <1>2, <1>4, TameEnds DEF L

LEMMA ReturnFinallyKeeps ==
    ASSUME Inv, NEW v \in Values, ReturnFinally(v)
    PROVE  Inv'
<1> DEFINE kinds == {"finally"}
           L == {}
           k == js_promise_resolve(heap, v)
           p == PromiseFor(heap, v)
           pass == Handler(IF Frame.way = 0 THEN "thunk" ELSE "thrower", Frame.arg, 0)
           t == js_promise_then(k, p, Both(pass, NoHandler))
<1>1. EndsFrame(kinds)
  BY FrameBegins DEF ReturnFinally
<1>2. /\ heap' = Finish(t, Frame.cap, 0, LastPromise(t))
      /\ stack' = Front(stack) /\ held' = held /\ known' = known /\ ops' = ops
  BY DEF ReturnFinally, Pop
<1>3. /\ Good(heap, L) /\ Frame.cap \in 0..Len(heap.pair) /\ Frame.cap \notin Private(heap)
      /\ v \in -2..Len(heap.state) /\ Frame.arg = Plain
  BY <1>1, ScriptValues DEF EndsFrame, FrameOK
<1>4. PlainHandler(pass)
  BY <1>3 DEF PlainHandler, Handler, Handlers, Plain
<1>5. t = js_promise_then(k, p, Both(pass, NoHandler)) /\ k = js_promise_resolve(heap, v)
      /\ p = PromiseFor(heap, v)
  OBVIOUS
<1> HIDE DEF kinds, L, k, p, pass, t
<1>6. Good(heap', L) /\ Tame(heap, heap')
  BY <1>2, <1>3, <1>4, <1>5, FinallyGood
<1>7. QED
  BY <1>1, <1>2, <1>6, TameEnds DEF L

\* The frame of an async function ends, and that one goes to state s.
LEMMA TurnEnds ==
    ASSUME EndsFrame({"async"}), Good(heap', {}), Mild(heap, heap'),
           NEW s, FnTurns(heap, heap', Frame.arg, s),
           stack' = Front(stack), held' = held, known' = known, ops' \in 0..MaxOps
    PROVE  Inv'
<1> DEFINE f == Frame.arg
<1>1. Shape(heap) /\ Shape(heap') /\ Stays(heap, heap', f)
  BY GoodShape, TurnStays DEF EndsFrame
<1>2. /\ FramesInv(heap, stack) /\ stack # <<>> /\ ScriptsInv(heap, held, known)
      /\ f = 0 \/ (Last(stack).kind = "async" /\ Last(stack).arg = f)
  BY DEF EndsFrame
<1> HIDE DEF f
<1>3. FramesInv(heap', stack') /\ Looping(stack') = {}
  BY <1>1, <1>2, FramesPop
<1>4. ScriptsInv(heap', held', known')
  BY <1>1, <1>2, ScriptsStay
<1>5. QED
  BY <1>3, <1>4, InvNext

LEMMA AsyncEndsKeeps ==
    ASSUME Inv, NEW w \in Ways, NEW v \in Values, w = 1 => v = Plain, AsyncEnds(w, v)
    PROVE  Inv'
<1> DEFINE f == Frame.arg
           k == [heap EXCEPT !.fn[f].state = "done"]
           r == heap.fn[f].cap
           L == {}
<1>1. EndsFrame({"async"})
  BY FrameBegins DEF AsyncEnds
<1>2. /\ heap' = Call(k, r, w, v)
      /\ stack' = Front(stack) /\ held' = held /\ known' = known /\ ops' = ops
  BY DEF AsyncEnds, Pop
<1>3. /\ Good(heap, L) /\ f \in FnsOf(heap) /\ heap.fn[f].state = "running"
      /\ v \in -2..Len(heap.state) /\ ops \in 0..MaxOps
  BY <1>1, ScriptValues DEF EndsFrame, FrameOK
<1>4. k = [heap EXCEPT !.fn[f].state = "done"] /\ r = heap.fn[f].cap
  OBVIOUS
<1> HIDE DEF f, k, r, L
<1>5. Good(heap', L) /\ Mild(heap, heap') /\ FnTurns(heap, heap', f, "done")
  BY <1>2, <1>3, <1>4, AsyncEndsGood
<1>6. QED
  BY <1>1, <1>2, <1>3, <1>5, TurnEnds DEF f, L

LEMMA AwaitKeeps ==
    ASSUME Inv, NEW v \in Values, Await(v)
    PROVE  Inv'
<1> DEFINE f == Frame.arg
           r == js_promise_resolve(heap, v)
           k == [r EXCEPT !.fn[f].state = "suspended"]
           p == PromiseFor(heap, v)
           go == Handler("await", f, 0)
           on == Both(go, go)
           L == {}
<1>1. EndsFrame({"async"})
  BY FrameBegins DEF Await
<1>2. /\ heap' = perform_promise_then(k, p, on, 0)
      /\ stack' = Front(stack) /\ held' = held /\ known' = known /\ ops' \in 0..MaxOps
  BY ScriptCounts DEF Await, Pop
<1>3. /\ Good(heap, L) /\ f \in FnsOf(heap) /\ heap.fn[f].state = "running"
      /\ v \in -2..Len(heap.state)
  BY <1>1, ScriptValues DEF EndsFrame, FrameOK
<1>4. /\ r = js_promise_resolve(heap, v) /\ k = [r EXCEPT !.fn[f].state = "suspended"]
      /\ p = PromiseFor(heap, v) /\ go = Handler("await", f, 0) /\ on = Both(go, go)
  OBVIOUS
<1> HIDE DEF f, r, k, p, go, on, L
<1>5. Good(heap', L) /\ Mild(heap, heap') /\ FnTurns(heap, heap', f, "suspended")
  BY <1>2, <1>3, <1>4, AwaitGood
<1>6. QED
  BY <1>1, <1>2, <1>5, TurnEnds DEF f, L

\* The state in which a loop goes on.
LEMMA InLoop ==
    ASSUME Inv, InFrame({"combine"})
    PROVE  /\ Looping(stack) = {Frame.arg} /\ Frame.arg \in CombsOf(heap)
           /\ Good(heap, {Frame.arg}) /\ FramesInv(heap, stack) /\ stack # <<>>
           /\ ScriptsInv(heap, held, known) /\ ops \in 0..MaxOps
<1>1. /\ Good(heap, Looping(stack)) /\ FramesInv(heap, stack) /\ ScriptsInv(heap, held, known)
      /\ ops \in 0..MaxOps /\ stack # <<>> /\ Frame.kind = "combine" /\ Frame = Last(stack)
  BY DEF Inv, InFrame, Frame
<1>2. FrameOK(heap, Frame) /\ Looping(stack) = {Frame.arg}
  BY <1>1, TopFrame
<1>3. QED
  BY <1>1, <1>2 DEF FrameOK

LEMMA LoopStays ==
    ASSUME NEW h, NEW g, Grows(h, g), CombsKeep(h, g), g.fn = h.fn
    PROVE  Stays(h, g, 0)
BY PrivateKeeps DEF Stays, FnsOf

LEMMA SubscribeKeeps ==
    ASSUME Inv, Subscribe
    PROVE  Inv'
<1> DEFINE c == Frame.arg
           L == {c}
           E == {}
           X == {}
<1>1. /\ Looping(stack) = L /\ c \in CombsOf(heap)
      /\ Good(heap, L) /\ FramesInv(heap, stack) /\ stack # <<>>
      /\ ScriptsInv(heap, held, known) /\ ops \in 0..MaxOps
  BY InLoop DEF Subscribe
<1>2. /\ heap.comb[c].index < Len(heap.comb[c].items) /\ heap' = SubscribeNext(heap, c)
      /\ stack' = stack /\ held' = held /\ known' = known /\ ops' = ops
  BY DEF Subscribe
<1>3. HeapInv(heap) /\ CombInv(heap, JobSet(heap) \cup E, L, X) /\ c \in L
  <2>1. JobSet(heap) \cup E = JobSet(heap)
    OBVIOUS
  <2>2. QED
    BY <1>1, <2>1 DEF Good
<1> HIDE DEF c, L, E
<1>4. /\ HeapInv(heap') /\ Grows(heap, heap') /\ CombsKeep(heap, heap') /\ heap'.fn = heap.fn
      /\ CombInv(heap', JobSet(heap') \cup E, L, X)
  BY <1>1, <1>2, <1>3, SubscribeHeap
<1>5. Good(heap', L)
  BY <1>4 DEF Good, E
<1>6. Shape(heap) /\ Shape(heap') /\ Stays(heap, heap', 0)
  BY <1>3, <1>4, LoopStays DEF HeapInv
<1>7. FramesInv(heap', stack') /\ ScriptsInv(heap', held', known')
  BY <1>1, <1>2, <1>6, FramesStay, ScriptsStay
<1>8. QED
  BY <1>1, <1>2, <1>5, <1>7, InvNext

LEMMA CombinatorReturnsKeeps ==
    ASSUME Inv, CombinatorReturns
    PROVE  Inv'
<1> DEFINE c == Frame.arg
           L == {c}
           E == {}
<1>1. /\ Looping(stack) = L /\ c \in CombsOf(heap)
      /\ Good(heap, L) /\ FramesInv(heap, stack) /\ stack # <<>>
      /\ ScriptsInv(heap, held, known) /\ ops \in 0..MaxOps
  BY InLoop DEF CombinatorReturns
<1>2. /\ heap.comb[c].index = Len(heap.comb[c].items) /\ heap' = EndLoop(heap, c)
      /\ stack' = Front(stack) /\ held' = held /\ ops' = ops
      /\ known' = known \cup {heap.pair[heap.comb[c].cap]}
  BY DEF CombinatorReturns, Pop
<1>3. HeapInv(heap) /\ CombInv(heap, JobSet(heap) \cup E, {c}, {})
  <2>1. JobSet(heap) \cup E = JobSet(heap)
    OBVIOUS
  <2>2. QED
    BY <1>1, <2>1 DEF Good
<1> HIDE DEF c, E
<1>4. /\ HeapInv(heap') /\ Grows(heap, heap') /\ CombsKeep(heap, heap') /\ heap'.fn = heap.fn
      /\ CombInv(heap', JobSet(heap') \cup E, {}, {})
  BY <1>1, <1>2, <1>3, EndLoopHeap
<1>5. Good(heap', {})
  BY <1>4 DEF Good, E
<1>6. Shape(heap) /\ Shape(heap') /\ Stays(heap, heap', 0)
  BY <1>3, <1>4, LoopStays DEF HeapInv
<1>7. FramesInv(heap', stack') /\ Looping(stack') = {}
  BY <1>1, <1>2, <1>6, FramesPop
<1>8. heap.pair[heap.comb[c].cap] \in PromisesOf(heap')
  <2>1. heap.pair[heap.comb[c].cap] \in PromisesOf(heap)
    BY <1>1, <1>3 DEF HeapInv, PrivateInv, CombType, RefInv
  <2>2. QED
    BY <1>4, <1>6, <2>1, GrowsSubset
<1>9. ScriptsInv(heap', held', known')
  <2>1. ScriptsInv(heap', held, known)
    BY <1>1, <1>6, ScriptsStay
  <2>2. QED
    BY <1>2, <1>8, <2>1 DEF ScriptsInv
<1>10. QED
  BY <1>1, <1>2, <1>5, <1>7, <1>9, InvNext

-----------------------------------------------------------------------------
(***************************************************************************)
(* The invariant.                                                          *)
(***************************************************************************)
LEMMA InitShape ==
    ASSUME Init
    PROVE  /\ Shape(heap) /\ Len(heap.state) = Initial /\ Len(heap.pair) = Initial
           /\ \A p \in 1..Initial :
                 /\ heap.state[p] = "pending" /\ heap.count[p] = 0 /\ heap.ran[p] = 0
                 /\ heap.pair[p] = p /\ \A w \in Ways : heap.reactions[p][w] = <<>>
           /\ heap.resolved = {} /\ heap.jobs = <<>> /\ heap.comb = <<>> /\ heap.fn = <<>>
<1> DEFINE s == [p \in 1..Initial |-> "pending"]
           z == [p \in 1..Initial |-> 0]
           n == [p \in 1..Initial |-> NoReactions]
           r == [p \in 1..Initial |-> p]
<1>1. Initial \in Nat
  BY PromiseBounds
<1>2. s \in Seq(States) /\ Len(s) = Initial
  <2>1. s = [p \in 1..Initial |-> s[p]] /\ \A p \in 1..Initial : s[p] \in States
    BY DEF States
  <2> HIDE DEF s
  <2>2. QED
    BY <1>1, <2>1, MapFacts
<1>3. z \in Seq(Nat) /\ z \in Seq({Plain}) /\ Len(z) = Initial
  <2>1. /\ z = [p \in 1..Initial |-> z[p]] /\ \A p \in 1..Initial : z[p] \in Nat
        /\ \A p \in 1..Initial : z[p] \in {Plain}
    BY DEF Plain
  <2> HIDE DEF z
  <2>2. QED
    BY <1>1, <2>1, MapFacts
<1>4. n \in Seq([Ways -> Seq(Reactions)]) /\ Len(n) = Initial
  <2>1. /\ n = [p \in 1..Initial |-> n[p]]
        /\ \A p \in 1..Initial : n[p] \in [Ways -> Seq(Reactions)]
    BY DEF NoReactions, Ways
  <2> HIDE DEF n
  <2>2. QED
    BY <1>1, <2>1, MapFacts
<1>5. r \in Seq(Nat) /\ Len(r) = Initial
  <2>1. r = [p \in 1..Initial |-> r[p]] /\ \A p \in 1..Initial : r[p] \in Nat
    BY <1>1
  <2> HIDE DEF r
  <2>2. QED
    BY <1>1, <2>1, MapFacts
<1>6. heap = [state |-> s, result |-> z, reactions |-> n, count |-> z, ran |-> z, pair |-> r,
              resolved |-> {}, jobs |-> <<>>, comb |-> <<>>, fn |-> <<>>]
  BY DEF Init, Plain
<1>7. \A p \in 1..Initial :
          /\ s[p] = "pending" /\ z[p] = 0 /\ r[p] = p /\ \A w \in Ways : n[p][w] = <<>>
  BY DEF NoReactions, Ways
<1> HIDE DEF s, z, n, r
<1>8. heap \in Heaps
  BY <1>2, <1>3, <1>4, <1>5, <1>6 DEF Heaps
<1>9. QED
  BY <1>2, <1>3, <1>4, <1>5, <1>6, <1>7, <1>8 DEF Shape

LEMMA InitHolds ==
    ASSUME Init
    PROVE  Inv
<1>1. /\ Shape(heap) /\ Len(heap.state) = Initial /\ Len(heap.pair) = Initial
      /\ \A p \in 1..Initial :
            /\ heap.state[p] = "pending" /\ heap.count[p] = 0 /\ heap.ran[p] = 0
            /\ heap.pair[p] = p /\ \A w \in Ways : heap.reactions[p][w] = <<>>
      /\ heap.resolved = {} /\ heap.jobs = <<>> /\ heap.comb = <<>> /\ heap.fn = <<>>
  BY InitShape
<1>2. /\ PromisesOf(heap) = 1..Initial /\ PairsOf(heap) = 1..Initial
      /\ JobsOf(heap) = {} /\ CombsOf(heap) = {} /\ FnsOf(heap) = {}
      /\ \A p \in PromisesOf(heap), w \in Ways : ListOf(heap, p, w) = {}
  BY <1>1 DEF PromisesOf, PairsOf, JobsOf, CombsOf, FnsOf, ListOf
<1>3. RefInv(heap)
  BY <1>1, <1>2 DEF RefInv
<1>4. WayInv(heap)
  BY <1>1, <1>2 DEF WayInv, Open
<1>5. OrderInv(heap)
  BY <1>1, <1>2 DEF OrderInv
<1>6. ContInv(heap)
  BY <1>2 DEF ContInv
<1>7. PrivateInv(heap) /\ Private(heap) = {}
  BY <1>2 DEF PrivateInv, CombType, Private
<1>8. CombInv(heap, JobSet(heap), {}, {})
  BY <1>2 DEF CombInv, DoneInv, CalledInv, CountInv, ZeroInv, JustInv
<1>9. Good(heap, {})
  BY <1>1, <1>3, <1>4, <1>5, <1>6, <1>7, <1>8 DEF Good, HeapInv
<1>10. stack = <<>> /\ held = 1..Initial /\ known = 1..Initial /\ ops \in 0..MaxOps
  BY PromiseBounds DEF Init
<1>11. ScriptsInv(heap, held, known)
  BY <1>2, <1>7, <1>10 DEF ScriptsInv
<1>12. QED
  BY <1>9, <1>10, <1>11, NoFrames DEF Inv

LEMMA ScriptKeeps ==
    ASSUME Inv, ScriptOperation
    PROVE  Inv'
<1>1. CASE New
  BY <1>1, NewKeeps
<1>2. ASSUME NEW r \in held, NEW v \in Values \cup {BadThen}, CallResolving(r, 0, v)
      PROVE  Inv'
  BY <1>2, CallKeeps DEF Ways
<1>3. ASSUME NEW r \in held, CallResolving(r, 1, Plain)
      PROVE  Inv'
  BY <1>3, CallKeeps DEF Ways, Values
<1>4. /\ PlainHandler(NoHandler) /\ PlainHandler(UserHandler)
      /\ PlainHandler(Handler("finally", 0, 0))
  BY DEF PlainHandler, NoHandler, UserHandler, Handler, Handlers
<1>5. ASSUME NEW p \in known, Then(p, Both(UserHandler, NoHandler))
      PROVE  Inv'
  BY <1>4, <1>5, ThenKeeps
<1>6. ASSUME NEW p \in known, Then(p, Both(NoHandler, UserHandler))
      PROVE  Inv'
  BY <1>4, <1>6, ThenKeeps
<1>7. ASSUME NEW p \in known, Finally(p)
      PROVE  Inv'
  BY <1>4, <1>7, ThenKeeps DEF Finally
<1>8. ASSUME NEW k \in Combinators, NEW n \in 0..MaxItems, NEW items \in Lists(n), All(k, items)
      PROVE  Inv'
  <2>1. k \in Kinds /\ n \in Nat
    BY <1>8, KindsAssumption, PromiseBounds
  <2>2. QED
    BY <1>8, <2>1, AllKeeps
<1>9. CASE AsyncCall
  BY <1>9, AsyncCallKeeps
<1>10. QED
  BY <1>1, <1>2, <1>3, <1>5, <1>6, <1>7, <1>8, <1>9 DEF ScriptOperation

LEMMA JobKeeps ==
    ASSUME Inv, RunJob
    PROVE  Inv'
BY RunNativeKeeps, RunHandlerKeeps, RunAwaitKeeps, RunThenableKeeps DEF RunJob

LEMMA FrameKeeps ==
    ASSUME Inv, FrameEnds
    PROVE  Inv'
<1>1. ASSUME NEW v \in Values, Return(v)
      PROVE  Inv'
  BY <1>1, ReturnKeeps
<1>2. ASSUME NEW v \in Values, ReturnFinally(v)
      PROVE  Inv'
  BY <1>2, ReturnFinallyKeeps
<1>3. ASSUME NEW v \in Values, AsyncEnds(0, v)
      PROVE  Inv'
  BY <1>3, AsyncEndsKeeps DEF Ways
<1>4. ASSUME NEW v \in Values, Await(v)
      PROVE  Inv'
  BY <1>4, AwaitKeeps
<1>5. CASE Throw
  BY <1>5, ThrowKeeps
<1>6. CASE AsyncEnds(1, Plain)
  BY <1>6, AsyncEndsKeeps DEF Ways, Values
<1>7. CASE Subscribe
  BY <1>7, SubscribeKeeps
<1>8. CASE CombinatorReturns
  BY <1>8, CombinatorReturnsKeeps
<1>9. QED
  BY <1>1, <1>2, <1>3, <1>4, <1>5, <1>6, <1>7, <1>8 DEF FrameEnds

\* The inductive invariant: the heap of promises that the engine keeps, the
\* frames of JavaScript code and what scripts hold fit together after every
\* operation, job and end of a frame.
THEOREM InvAlways == Spec => []Inv
<1>1. Init => Inv
  BY InitHolds
<1>2. Inv /\ [Next]_vars => Inv'
  <2> SUFFICES ASSUME Inv, [Next]_vars
               PROVE  Inv'
    OBVIOUS
  <2>1. CASE Next
    BY <2>1, ScriptKeeps, JobKeeps, FrameKeeps DEF Next
  <2>2. CASE UNCHANGED vars
    BY <2>2 DEF vars, Inv
  <2>3. QED
    BY <2>1, <2>2
<1>3. QED
  BY <1>1, <1>2, PTL DEF Spec

LEMMA SeqNarrow ==
    ASSUME NEW S, NEW T, NEW s \in Seq(S), \A i \in 1..Len(s) : s[i] \in T
    PROVE  s \in Seq(T) /\ DOMAIN s = 1..Len(s)
<1>1. Len(s) \in Nat /\ s = [i \in 1..Len(s) |-> s[i]]
  OBVIOUS
<1>2. QED
  BY <1>1, MapFacts

LEMMA InvTypes ==
    ASSUME Inv
    PROVE  TypeOK
<1> DEFINE h == heap
           R(p) == [cap : 0..Len(heap.pair), on : {p}, no : Nat, handler : Handlers]
           J == [kind : {"reaction", "thenable"}, no : Nat, cap : 0..Len(heap.pair),
                 way : 0..1, on : Promises, arg : Int, handler : Handlers]
           F == [state : {"running", "suspended", "done"}, cap : DOMAIN heap.pair]
<1>1. /\ Shape(h) /\ RefInv(h) /\ OrderInv(h) /\ ScriptsInv(h, held, known) /\ ops \in 0..MaxOps
  BY GoodShape DEF Inv, MostInv
<1>2. /\ h \in Heaps /\ h.state \in Seq(States) /\ h.result \in Seq({Plain})
      /\ h.reactions \in Seq([Ways -> Seq(Reactions)]) /\ h.count \in Seq(Nat)
      /\ h.ran \in Seq(Nat) /\ h.pair \in Seq(Nat) /\ h.jobs \in Seq(Jobs)
      /\ h.comb \in Seq(Combs) /\ h.fn \in Seq(Fns)
      /\ Len(h.result) = Len(h.state) /\ Len(h.reactions) = Len(h.state)
      /\ Len(h.count) = Len(h.state) /\ Len(h.ran) = Len(h.state)
  BY <1>1 DEF Shape, Heaps
<1>3. /\ Promises = PromisesOf(h) /\ DOMAIN h.pair = PairsOf(h) /\ DOMAIN h.comb = CombsOf(h)
      /\ DOMAIN h.result = PromisesOf(h) /\ DOMAIN h.reactions = PromisesOf(h)
      /\ DOMAIN h.count = PromisesOf(h) /\ DOMAIN h.ran = PromisesOf(h)
  BY <1>2 DEF Promises, PromisesOf, PairsOf, CombsOf
<1>4. \A p \in PromisesOf(h) :
          h.result[p] \in Int /\ h.count[p] \in Nat /\ h.ran[p] \in 0..h.count[p]
  <2> SUFFICES ASSUME NEW p \in PromisesOf(h)
               PROVE  h.result[p] \in Int /\ h.count[p] \in Nat /\ h.ran[p] \in 0..h.count[p]
    OBVIOUS
  <2>1. h.result[p] = 0
    BY <1>2 DEF PromisesOf, Plain
  <2>2. h.ran[p] \in Nat /\ h.count[p] \in Nat
    BY <1>1, PromiseTypes
  <2>3. h.ran[p] <= h.count[p]
    BY <1>1, <2>2 DEF OrderInv
  <2>4. QED
    BY <2>1, <2>2, <2>3
<1>5. ASSUME NEW p \in PromisesOf(h), NEW w \in 0..1
      PROVE  h.reactions[p][w] \in Seq(R(p))
  <2> DEFINE s == h.reactions[p][w]
  <2>0. h.reactions[p] \in [Ways -> Seq(Reactions)] /\ w \in Ways
    BY <1>2 DEF PromisesOf, Ways
  <2>1. s \in Seq(Reactions)
    BY <2>0
  <2>2. \A i \in 1..Len(s) : s[i] \in Reactions /\ s[i].on = p /\ s[i].cap \in 0..Len(h.pair)
    BY <1>1, <2>0, <2>1 DEF RefInv, RefOK, ListOf
  <2>3. \A i \in 1..Len(s) : s[i] \in R(p)
    BY <2>2 DEF Reactions
  <2> HIDE DEF s, R
  <2>4. s \in Seq(R(p))
    BY <2>1, <2>3, SeqNarrow
  <2>5. QED
    BY <2>4 DEF s
<1>6. h.pair \in Seq(Promises)
  <2>1. \A r \in 1..Len(h.pair) : h.pair[r] \in Promises
    BY <1>1, <1>3 DEF RefInv, PairsOf
  <2>2. QED
    BY <1>2, <2>1, SeqNarrow
<1>7. h.jobs \in Seq(J)
  <2>1. \A i \in 1..Len(h.jobs) :
            h.jobs[i] \in Jobs /\ h.jobs[i].on \in Promises /\ h.jobs[i].cap \in 0..Len(h.pair)
    BY <1>1, <1>2, <1>3 DEF RefInv, RefOK, JobsOf
  <2>2. \A i \in 1..Len(h.jobs) : h.jobs[i] \in J
    BY <2>1 DEF Jobs, Ways
  <2> HIDE DEF J
  <2>3. QED
    BY <1>2, <2>2, SeqNarrow
<1>8. \A c \in CombsOf(h) : h.comb[c].remaining \in Nat
  BY <1>1, CombTypes
<1>9. h.fn \in Seq(F)
  <2>1. \A f \in 1..Len(h.fn) : h.fn[f] \in Fns /\ h.fn[f].cap \in DOMAIN h.pair
    BY <1>1, <1>2, <1>3 DEF RefInv, FnsOf
  <2>2. \A f \in 1..Len(h.fn) : h.fn[f] \in F
    BY <2>1 DEF Fns, FnStates
  <2> DEFINE s == h.fn
  <2>3. s \in Seq(Fns) /\ \A f \in 1..Len(s) : s[f] \in F
    BY <1>2, <2>2
  <2> HIDE DEF F, s
  <2>4. s \in Seq(F)
    BY <2>3, SeqNarrow
  <2>5. QED
    BY <2>4 DEF s
<1>10. h.resolved \subseteq PairsOf(h) /\ held \subseteq PairsOf(h) /\ known \subseteq PromisesOf(h)
  BY <1>1 DEF RefInv, ScriptsInv
<1>11. {DOMAIN h.result, DOMAIN h.reactions, DOMAIN h.count, DOMAIN h.ran} = {Promises}
  BY <1>3
<1>12. QED
  BY <1>1, <1>2, <1>3, <1>4, <1>5, <1>6, <1>7, <1>8, <1>9, <1>10, <1>11 DEF TypeOK

\* The promises, their resolving functions, reactions and jobs always have the
\* shape that quickjs.c declares; every number in them refers to an object that
\* exists, and no promise has had more reactions run than then was called.
THEOREM TypeCorrect == Spec => []TypeOK
BY InvAlways, InvTypes, PTL

LEMMA CardOne ==
    ASSUME NEW S, NEW x, x \in S, \A y \in S : y = x
    PROVE  Cardinality(S) = 1
<1>1. S = {x}
  OBVIOUS
<1>2. QED
  BY <1>1, FS_Singleton

LEMMA CardNone ==
    ASSUME NEW S, \A y \in S : FALSE
    PROVE  Cardinality(S) = 0
<1>1. S = {}
  OBVIOUS
<1>2. QED
  BY <1>1, FS_EmptySet

LEMMA InvOneWay ==
    ASSUME Inv
    PROVE  OneWayToSettle
<1>1. Shape(heap) /\ RefInv(heap) /\ WayInv(heap) /\ TypeOK
  BY GoodShape, InvTypes DEF Inv, MostInv
<1>2. /\ Promises = PromisesOf(heap) /\ DOMAIN heap.pair = PairsOf(heap)
      /\ DOMAIN heap.jobs = JobsOf(heap)
  BY <1>1 DEF Shape, Heaps, Promises, PromisesOf, PairsOf, JobsOf
<1>3. ASSUME NEW p \in PromisesOf(heap),
             NEW A, A = {r \in PairsOf(heap) : heap.pair[r] = p /\ r \notin heap.resolved},
             NEW B, B = {i \in JobsOf(heap) : heap.jobs[i].kind = "thenable" /\ heap.jobs[i].on = p}
      PROVE  Cardinality(A) + Cardinality(B) = IF heap.state[p] = "pending" THEN 1 ELSE 0
  <2>1. \A r : r \in A <=> r \in PairsOf(heap) /\ heap.pair[r] = p /\ Open(heap, r)
    BY <1>3 DEF Open
  <2>2. \A i : i \in B <=> i \in JobsOf(heap) /\ Adopts(heap, i, p)
    BY <1>3 DEF Adopts
  <2>3. \A r, s \in A : r = s
    BY <1>1, <2>1 DEF WayInv
  <2>4. \A i, j \in B : i = j
    BY <1>1, <2>2 DEF WayInv, Adopts
  <2>5. \A r \in A, i \in B : FALSE
    BY <1>1, <2>1, <2>2 DEF WayInv
  <2>6. CASE heap.state[p] = "pending"
    <3>1. (\E r : r \in A) \/ (\E i : i \in B)
      BY <1>1, <2>1, <2>2, <2>6 DEF WayInv
    <3>2. ASSUME NEW r \in A
          PROVE  Cardinality(A) = 1 /\ Cardinality(B) = 0
      BY <2>3, <2>5, CardOne, CardNone
    <3>3. ASSUME NEW i \in B
          PROVE  Cardinality(A) = 0 /\ Cardinality(B) = 1
      BY <2>4, <2>5, CardOne, CardNone
    <3>4. QED
      BY <2>6, <3>1, <3>2, <3>3
  <2>7. CASE heap.state[p] # "pending"
    <3>1. (\A r \in A : FALSE) /\ (\A i \in B : FALSE)
      BY <1>1, <2>1, <2>2, <2>7 DEF WayInv, Adopts
    <3>2. Cardinality(A) = 0 /\ Cardinality(B) = 0
      BY <3>1, CardNone
    <3>3. QED
      BY <2>7, <3>2
  <2>8. QED
    BY <2>6, <2>7
<1>4. QED
  BY <1>1, <1>2, <1>3 DEF OneWayToSettle

\* A promise is settled once: whatever scripts call in whatever order, a pending
\* one has one unused pair of resolving functions or one thenable job, and a
\* settled one has none (js_promise_resolve_function_call and
\* js_promise_resolve_thenable_job).
THEOREM SettledOnce == Spec => []OneWayToSettle
BY InvAlways, InvOneWay, PTL

LEMMA InvReactions ==
    ASSUME Inv
    PROVE  ReactionsInOrder
<1>1. Shape(heap) /\ OrderInv(heap)
  BY GoodShape DEF Inv, MostInv
<1>2. /\ Promises = PromisesOf(heap) /\ DOMAIN heap.jobs = JobsOf(heap)
  BY <1>1 DEF Shape, Heaps, Promises, PromisesOf, JobsOf
<1>3. \A p \in PromisesOf(heap), w \in Ways :
          DOMAIN heap.reactions[p][w] = ListOf(heap, p, w) /\ Len(heap.reactions[p][w]) \in Nat
  <2> SUFFICES ASSUME NEW p \in PromisesOf(heap), NEW w \in Ways
               PROVE  /\ DOMAIN heap.reactions[p][w] = ListOf(heap, p, w)
                      /\ Len(heap.reactions[p][w]) \in Nat
    OBVIOUS
  <2>1. heap.reactions[p] \in [Ways -> Seq(Reactions)]
    BY SMTT(30), <1>1 DEF Shape, Heaps, PromisesOf
  <2>2. heap.reactions[p][w] \in Seq(Reactions)
    BY <2>1
  <2>3. QED
    BY <2>2 DEF ListOf
<1>4. ASSUME NEW p \in PromisesOf(heap),
             NEW A, A = {i \in JobsOf(heap) : heap.jobs[i].kind = "reaction" /\ heap.jobs[i].on = p}
      PROVE  /\ {heap.jobs[i].no : i \in A} = IF heap.state[p] = "pending" THEN {}
                                              ELSE heap.ran[p] + 1 .. heap.count[p]
             /\ \A i, j \in A : i < j => heap.jobs[i].no < heap.jobs[j].no
             /\ \A w \in Ways :
                   [i \in DOMAIN heap.reactions[p][w] |-> heap.reactions[p][w][i].no]
                     = IF heap.state[p] = "pending"
                       THEN [i \in 1 .. heap.count[p] |-> i] ELSE <<>>
             /\ heap.state[p] = "pending" => heap.ran[p] = 0
  <2>1. \A i : i \in A <=> i \in JobsOf(heap) /\ IsReaction(heap, i, p)
    BY <1>4 DEF IsReaction
  <2>2. \A i \in A : /\ heap.state[p] # "pending"
                     /\ heap.jobs[i].no \in heap.ran[p] + 1 .. heap.count[p]
    <3>1. \A i \in A : heap.jobs[i].way \in Ways
      BY <1>1, <2>1, JobTypes
    <3>2. QED
      BY <1>1, <2>1, <3>1, OutcomeStates DEF OrderInv, IsReaction
  <2>3. heap.state[p] # "pending" => \A n \in heap.ran[p] + 1 .. heap.count[p] :
                                        \E i \in A : heap.jobs[i].no = n
    BY <1>1, <2>1 DEF OrderInv
  <2>4. \A i, j \in A : i < j => heap.jobs[i].no < heap.jobs[j].no
    BY <1>1, <2>1 DEF OrderInv, IsReaction
  <2>5. heap.state[p] = "pending" => heap.ran[p] = 0
    BY <1>1 DEF OrderInv
  <2>6. ASSUME NEW w \in Ways
        PROVE  [i \in DOMAIN heap.reactions[p][w] |-> heap.reactions[p][w][i].no]
                 = IF heap.state[p] = "pending" THEN [i \in 1 .. heap.count[p] |-> i] ELSE <<>>
    <3>1. CASE heap.state[p] = "pending"
      <4>1. /\ DOMAIN heap.reactions[p][w] = 1 .. heap.count[p]
            /\ \A i \in 1 .. heap.count[p] : heap.reactions[p][w][i].no = i
        BY <1>1, <1>3, <3>1 DEF OrderInv, ListOf
      <4>2. QED
        BY <3>1, <4>1
    <3>2. CASE heap.state[p] # "pending"
      <4>1. heap.reactions[p][w] = <<>>
        BY <1>1, <3>2 DEF OrderInv
      <4>2. QED
        BY <3>2, <4>1
    <3>3. QED
      BY <3>1, <3>2
  <2>7. {heap.jobs[i].no : i \in A} = IF heap.state[p] = "pending" THEN {}
                                      ELSE heap.ran[p] + 1 .. heap.count[p]
    BY <2>2, <2>3
  <2>8. QED
    BY <2>4, <2>5, <2>6, <2>7
<1>5. QED
  BY <1>2, <1>4 DEF ReactionsInOrder, Ways

\* Every call of then on a promise is answered once, in the order of the calls,
\* whether it came before or after the promise was settled
\* (perform_promise_then and fulfill_or_reject_promise).
THEOREM AnsweredInOrder == Spec => []ReactionsInOrder
BY InvAlways, InvReactions, PTL

LEMMA InvContinuation ==
    ASSUME Inv
    PROVE  OneContinuation
<1>1. Shape(heap) /\ ContInv(heap)
  BY GoodShape DEF Inv
<1>2. /\ Promises = PromisesOf(heap) /\ DOMAIN heap.jobs = JobsOf(heap)
      /\ DOMAIN heap.fn = FnsOf(heap)
  BY <1>1 DEF Shape, Heaps, Promises, PromisesOf, JobsOf, FnsOf
<1>3. ASSUME NEW p \in PromisesOf(heap), NEW w \in Ways
      PROVE  DOMAIN heap.reactions[p][w] = ListOf(heap, p, w)
  <2>1. heap.reactions[p] \in [Ways -> Seq(Reactions)]
    BY SMTT(30), <1>1 DEF Shape, Heaps, PromisesOf
  <2>2. heap.reactions[p][w] \in Seq(Reactions)
    BY <2>1
  <2>3. QED
    BY <2>2 DEF ListOf
<1> DEFINE In(p, w, f) == {i \in DOMAIN heap.reactions[p][w] :
                             /\ heap.reactions[p][w][i].handler.kind = "await"
                             /\ heap.reactions[p][w][i].handler.a = f}
<1>4. ASSUME NEW f \in FnsOf(heap), NEW w \in Ways,
             NEW A, A = UNION {{p} \X In(p, w, f) : p \in PromisesOf(heap)},
             NEW B, B = {i \in JobsOf(heap) : /\ heap.jobs[i].handler.kind = "await"
                                              /\ heap.jobs[i].handler.a = f}
      PROVE  Cardinality(A) + Cardinality(B) = IF heap.fn[f].state = "suspended" THEN 1 ELSE 0
  <2>0. InLists(heap, f) /\ InJobs(heap, f) /\ Somewhere(heap, f)
    BY <1>1, ContParts
  <2>1. /\ \A a \in A : \E p \in PromisesOf(heap) : \E i \in ListOf(heap, p, w) :
              a = <<p, i>> /\ Goes(heap.reactions[p][w][i], f)
        /\ \A p \in PromisesOf(heap) : \A i \in ListOf(heap, p, w) :
              Goes(heap.reactions[p][w][i], f) => <<p, i>> \in A
    BY <1>3, <1>4 DEF Goes
  <2>2. \A i : i \in B <=> i \in JobsOf(heap) /\ Goes(heap.jobs[i], f)
    BY <1>4 DEF Goes
  <2>3. \A a, b \in A : a = b
    BY <2>0, <2>1 DEF InLists
  <2>4. \A i, j \in B : i = j
    BY <2>0, <2>2 DEF InJobs
  <2>5. \A a \in A, i \in B : FALSE
    BY <2>0, <2>1, <2>2 DEF InLists
  <2>6. CASE heap.fn[f].state = "suspended"
    <3>1. (\E a : a \in A) \/ (\E i : i \in B)
      <4>1. CASE \E p \in PromisesOf(heap) : \E i \in ListOf(heap, p, 0) :
                    Goes(heap.reactions[p][0][i], f)
        <5>1. PICK p \in PromisesOf(heap) : \E i \in ListOf(heap, p, 0) :
                 Goes(heap.reactions[p][0][i], f)
          BY <4>1
        <5>2. PICK i \in ListOf(heap, p, 0) : Goes(heap.reactions[p][0][i], f)
          BY <5>1
        <5>3. i \in ListOf(heap, p, w) /\ Goes(heap.reactions[p][w][i], f)
          BY <2>0, <5>2 DEF InLists, Ways
        <5>4. QED
          BY <2>1, <5>3
      <4>2. CASE \E i \in JobsOf(heap) : Goes(heap.jobs[i], f)
        BY <2>2, <4>2
      <4>3. QED
        BY <2>0, <2>6, <4>1, <4>2 DEF Somewhere
    <3>2. ASSUME NEW a \in A
          PROVE  Cardinality(A) = 1 /\ Cardinality(B) = 0
      BY <2>3, <2>5, CardOne, CardNone
    <3>3. ASSUME NEW i \in B
          PROVE  Cardinality(A) = 0 /\ Cardinality(B) = 1
      BY <2>4, <2>5, CardOne, CardNone
    <3>4. QED
      BY <2>6, <3>1, <3>2, <3>3
  <2>7. CASE heap.fn[f].state # "suspended"
    <3>1. (\A a \in A : FALSE) /\ (\A i \in B : FALSE)
      BY <2>0, <2>1, <2>2, <2>7 DEF InLists, InJobs
    <3>2. Cardinality(A) = 0 /\ Cardinality(B) = 0
      BY <3>1, CardNone
    <3>3. QED
      BY <2>7, <3>2
  <2>8. QED
    BY <2>6, <2>7
<1>5. QED
  BY <1>2, <1>4 DEF OneContinuation, Ways

\* The body of an async function is entered once for each await: while it is
\* suspended one continuation waits for it, in the lists of one promise or
\* among the jobs, and otherwise none (js_async_function_resume).
THEOREM ResumedOnce == Spec => []OneContinuation
BY InvAlways, InvContinuation, PTL

LEMMA JustifiedWays ==
    ASSUME NEW m, m.kind \in Kinds, NEW n, n = 1..Len(m.items),
           NEW s \in {"fulfilled", "rejected"}
    PROVE  Justified(heap, m, s) <=>
             CASE m.kind = "all" /\ s = "fulfilled" ->
                    \A i \in n : heap.state[m.items[i]] = s
               [] m.kind = "any" /\ s = "rejected"  ->
                    \A i \in n : heap.state[m.items[i]] = s
               [] m.kind = "allSettled" ->
                    s = "fulfilled" /\ ~\E i \in n : heap.state[m.items[i]] = "pending"
               [] OTHER -> \E i \in n : heap.state[m.items[i]] = s
<1>1. CASE m.kind = "all"
  BY <1>1 DEF Justified
<1>2. CASE m.kind = "any"
  BY <1>2 DEF Justified
<1>3. CASE m.kind = "allSettled"
  BY <1>3 DEF Justified
<1>4. CASE m.kind = "race"
  BY <1>4 DEF Justified
<1>5. QED
  BY <1>1, <1>2, <1>3, <1>4 DEF Kinds

\* When there are no jobs and no loop, a combinator that has not settled its
\* promise cannot.
LEMMA IdleCombinator ==
    ASSUME NEW h, HeapInv(h), NEW J, NEW L, CombInv(h, J, L, {}), J = {}, L = {},
           NEW c \in CombsOf(h), Open(h, h.comb[c].cap), NEW w \in Ways, NEW s, s = Outcome(w)
    PROVE  ~Justified(h, h.comb[c], s)
<1> DEFINE m == h.comb[c]
<1>1. /\ Shape(h) /\ CombType(h) /\ DoneInv(h, J) /\ CountInv(h, L) /\ ZeroInv(h, {})
  BY DEF HeapInv, PrivateInv, CombInv
<1>2. m.index = Len(m.items) /\ m.kind \in Kinds /\ m.index \in Nat
  BY <1>1, CombTypes DEF CountInv
<1>3. ASSUME NEW i \in 1..Len(m.items), NEW u \in Ways, h.state[m.items[i]] = Outcome(u)
      PROVE  <<i, u>> \in m.called /\ HandlerAt(h, c, i, u).kind = "element"
  <2>1. Processed(h, c, i, u)
    BY <1>1, <1>2, <1>3 DEF DoneInv
  <2>2. QED
    BY SMTT(30), <2>1 DEF Processed
<1>4. ASSUME m.kind # "race"
      PROVE  \E i \in 1..Len(m.items) : h.state[m.items[i]] = "pending"
  <2> SUFFICES ASSUME \A i \in 1..Len(m.items) : h.state[m.items[i]] # "pending"
               PROVE  FALSE
    OBVIOUS
  <2>1. ASSUME NEW i \in 1..Len(m.items)
        PROVE  <<i, 0>> \in m.called \/ <<i, 1>> \in m.called
    <3>1. m.items[i] \in PromisesOf(h)
      BY <1>1 DEF CombType
    <3>2. h.state[m.items[i]] \in States \ {"pending"}
      BY <1>1, <3>1, PromiseTypes
    <3>3. PICK u \in Ways : h.state[m.items[i]] = Outcome(u)
      BY <3>2, OutcomeStates
    <3>4. <<i, u>> \in m.called
      BY <1>3, <3>3
    <3>5. QED
      BY <3>4 DEF Ways
  <2>2. Uncalled(m) = {}
    BY <1>2, <2>1 DEF Uncalled
  <2>3. m.remaining = 0
    <3>1. m.remaining = Cardinality(Uncalled(m)) + 0
      BY <1>1, <1>4 DEF CountInv
    <3>2. Cardinality(Uncalled(m)) = 0
      BY <2>2, FS_EmptySet
    <3>3. QED
      BY <3>1, <3>2
  <2>4. QED
    BY <1>1, <1>4, <2>3 DEF ZeroInv
<1>5. ASSUME NEW i \in 1..Len(m.items), h.state[m.items[i]] = s
      PROVE  \/ m.kind = "all" /\ w = 0
             \/ m.kind = "allSettled"
             \/ m.kind = "any" /\ w = 1
  <2> DEFINE hd == HandlerAt(h, c, i, w)
  <2>1. hd.kind = "element"
    BY <1>3, <1>5
  <2>2. hd = HandlerAt(h, c, i, w) /\ h.comb[c].kind \in Kinds
    BY <1>2
  <2> HIDE DEF hd
  <2>3. hd.kind = "element" <=> \/ h.comb[c].kind = "all" /\ w = 0
                                \/ h.comb[c].kind = "allSettled"
                                \/ h.comb[c].kind = "any" /\ w = 1
    BY <2>2, HandlerKinds
  <2>4. QED
    BY <2>1, <2>3
<1>6. s # "pending" /\ (s = "fulfilled" <=> w = 0) /\ (s = "rejected" <=> w = 1)
  BY DEF Outcome, Ways
<1>7. CASE m.kind = "race"
  BY <1>5, <1>7 DEF Justified
<1>8. CASE m.kind = "allSettled"
  BY <1>4, <1>8 DEF Justified
<1>9. CASE m.kind = "all"
  BY <1>4, <1>5, <1>6, <1>9 DEF Justified, Ways
<1>10. CASE m.kind = "any"
  BY SMTT(30), <1>4, <1>5, <1>6, <1>10 DEF Justified, Ways
<1>11. QED
  BY <1>2, <1>7, <1>8, <1>9, <1>10 DEF Kinds

LEMMA InvCombinators ==
    ASSUME Inv
    PROVE  CombinatorsRight
<1> DEFINE L == Looping(stack)
           J == JobSet(heap)
<1>1. HeapInv(heap) /\ CombInv(heap, J, L, {}) /\ Shape(heap)
  BY GoodShape DEF Inv, Good
<1>2. DOMAIN heap.comb = CombsOf(heap)
  BY <1>1 DEF Shape, Heaps, CombsOf
<1>3. stack = <<>> /\ heap.jobs = <<>> => J = {} /\ L = {}
  BY NoFrames DEF JobSet, JobsOf
<1> HIDE DEF J, L
<1>4. ASSUME NEW c \in CombsOf(heap), NEW m, m = heap.comb[c],
             NEW result, result = heap.state[heap.pair[m.cap]]
      PROVE  /\ DOMAIN m.items = 1..Len(m.items) /\ m.kind \in Kinds
             /\ result # "pending" =>
                   result \in {"fulfilled", "rejected"} /\ Justified(heap, m, result)
             /\ result = "pending" /\ stack = <<>> /\ heap.jobs = <<>> =>
                   \A s \in {"fulfilled", "rejected"} : ~Justified(heap, m, s)
  <2>1. m.items \in Seq(Nat) /\ m.kind \in Kinds
    BY <1>1, <1>4, CombTypes
  <2>2. m.cap \in PairsOf(heap) /\ heap.pair[m.cap] \in PromisesOf(heap)
    BY <1>1, <1>4 DEF HeapInv, PrivateInv, CombType, RefInv
  <2>3. result \in States
    BY <1>1, <1>4, <2>2, PromiseTypes
  <2>4. Open(heap, m.cap) => result = "pending"
    BY <1>1, <1>4, <2>2 DEF HeapInv, WayInv
  <2>5. ~Open(heap, m.cap) => result # "pending" /\ Justified(heap, m, result)
    BY <1>1, <1>4 DEF CombInv, JustInv
  <2>6. ASSUME result = "pending", stack = <<>>, heap.jobs = <<>>,
               NEW s \in {"fulfilled", "rejected"}
        PROVE  ~Justified(heap, m, s)
    <3>1. Open(heap, heap.comb[c].cap) /\ J = {} /\ L = {}
      BY <1>3, <1>4, <2>5, <2>6
    <3>2. PICK w \in Ways : s = Outcome(w)
      BY DEF Outcome, Ways
    <3>3. ~Justified(heap, heap.comb[c], s)
      BY <1>1, <3>1, <3>2, IdleCombinator
    <3>4. QED
      BY <1>4, <3>3
  <2>7. QED
    BY <2>1, <2>3, <2>4, <2>5, <2>6 DEF States
<1> DEFINE W(m) ==
             {s \in {"fulfilled", "rejected"} :
                CASE m.kind = "all" /\ s = "fulfilled" ->
                       \A i \in DOMAIN m.items : heap.state[m.items[i]] = s
                  [] m.kind = "any" /\ s = "rejected"  ->
                       \A i \in DOMAIN m.items : heap.state[m.items[i]] = s
                  [] m.kind = "allSettled" ->
                       /\ s = "fulfilled"
                       /\ ~\E i \in DOMAIN m.items : heap.state[m.items[i]] = "pending"
                  [] OTHER -> \E i \in DOMAIN m.items : heap.state[m.items[i]] = s}
           R(m) == heap.state[heap.pair[m.cap]]
<1>5. ASSUME NEW c \in CombsOf(heap), NEW m, m = heap.comb[c]
      PROVE  /\ R(m) # "pending" => R(m) \in W(m)
             /\ R(m) = "pending" /\ stack = <<>> /\ heap.jobs = <<>> => W(m) = {}
  <2>1. /\ DOMAIN m.items = 1..Len(m.items) /\ m.kind \in Kinds
        /\ R(m) # "pending" => R(m) \in {"fulfilled", "rejected"} /\ Justified(heap, m, R(m))
        /\ R(m) = "pending" /\ stack = <<>> /\ heap.jobs = <<>> =>
              \A s \in {"fulfilled", "rejected"} : ~Justified(heap, m, s)
    BY <1>4, <1>5
  <2>2. \A s : s \in W(m) <=> s \in {"fulfilled", "rejected"} /\ Justified(heap, m, s)
    <3> SUFFICES ASSUME NEW s \in {"fulfilled", "rejected"}
                 PROVE  s \in W(m) <=> Justified(heap, m, s)
      OBVIOUS
    <3> DEFINE n == DOMAIN m.items
    <3>1. n = 1..Len(m.items) /\ m.kind \in Kinds
      BY <2>1
    <3> HIDE DEF n
    <3>2. Justified(heap, m, s) <=>
             CASE m.kind = "all" /\ s = "fulfilled" ->
                    \A i \in n : heap.state[m.items[i]] = s
               [] m.kind = "any" /\ s = "rejected"  ->
                    \A i \in n : heap.state[m.items[i]] = s
               [] m.kind = "allSettled" ->
                    s = "fulfilled" /\ ~\E i \in n : heap.state[m.items[i]] = "pending"
               [] OTHER -> \E i \in n : heap.state[m.items[i]] = s
      BY <3>1, JustifiedWays
    <3>3. QED
      BY <3>2 DEF n
  <2> HIDE DEF W
  <2>3. QED
    BY <2>1, <2>2
<1>6. QED
  BY <1>2, <1>5 DEF CombinatorsRight

\* The outcome of Promise.all, allSettled, any and race is one that the promises
\* given to them justify, and it never stays away: when nothing runs and no job
\* is left, a combinator that has not settled its promise waits for a promise
\* that is pending (js_promise_all, js_promise_all_resolve_element).
THEOREM CombinatorsJustified == Spec => []CombinatorsRight
BY InvAlways, InvCombinators, PTL

=============================================================================
