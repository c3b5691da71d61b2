------------------------------ MODULE Promise ------------------------------
(***************************************************************************)
(* Promises of one context: the promise objects with their reactions, the  *)
(* resolving functions that are created in pairs, the jobs of both kinds,  *)
(* Promise.all and its relatives, Promise.prototype.finally and async      *)
(* functions with await.                                                   *)
(*                                                                         *)
(* A native function of the engine is one step on the heap of promises.    *)
(* JavaScript code is not: a handler, the then method of an object, or the *)
(* body of an async function is a frame of the stack, under which further  *)
(* operations of the script happen until it returns, throws or awaits.     *)
(* The loop of Promise.all over its promises is a frame too, with one step *)
(* for each of them.                                                       *)
(***************************************************************************)
EXTENDS Integers, FiniteSets, SequencesExt

CONSTANTS
    Initial,     \* promises that a script has made already
    MaxOps,      \* bound: operations of scripts
    MaxDepth,    \* bound: frames of JavaScript code
    Combinators, \* the static methods that scripts call: see Kinds
    MaxItems,    \* bound: promises handed to one of them
    AnyOrder     \* in any order, or oldest first?

ASSUME PromiseBounds == Initial \in Nat /\ MaxOps \in Nat /\ MaxDepth \in Nat
                        /\ MaxItems \in Nat /\ AnyOrder \in BOOLEAN

Kinds == {"all", "allSettled", "any", "race"}
ASSUME KindsAssumption == Combinators \subseteq Kinds

VARIABLES
    heap,   \* the engine's objects, see Heap
    stack,  \* frames of JavaScript code and of Promise.all
    held,   \* pairs of resolving functions in the hands of scripts
    known,  \* promises in the hands of scripts
    ops     \* operations of scripts so far

vars == <<heap, stack, held, known, ops>>

(***************************************************************************)
(* A value is a promise (its number), or one of these: a value without a   *)
(* then method, an object whose then method is JavaScript code, an object  *)
(* whose then cannot be read.  Errors are Plain.                           *)
(***************************************************************************)
Plain == 0
Thenable == -1
BadThen == -2

(***************************************************************************)
(* Handlers of reactions.  "settle" is the resolving function of a pair,   *)
(* "element" an element function of a combinator, "thunk" and "thrower"    *)
(* those of finally, "await" the continuation of an async function.        *)
(***************************************************************************)
Handler(k, a, b) == [kind |-> k, a |-> a, b |-> b]
NoHandler == Handler("none", 0, 0)
UserHandler == Handler("user", 0, 0)
SettleHandler(r, w) == Handler("settle", r, w)

\* promise_reactions[0] and promise_reactions[1]
NoReactions == [w \in 0..1 |-> <<>>]

\* Way 0 is to fulfil, way 1 is to reject.
Outcome(w) == IF w = 0 THEN "fulfilled" ELSE "rejected"
WayOf(s) == IF s = "fulfilled" THEN 0 ELSE 1

-----------------------------------------------------------------------------
(***************************************************************************)
(* The engine's functions, from heap to heap.                              *)
(***************************************************************************)
Enqueue(h, j) == [h EXCEPT !.jobs = Append(@, j)]

ReactionJob(rd, w, v) ==
    [kind |-> "reaction", cap |-> rd.cap, handler |-> rd.handler, way |-> w,
     arg |-> v, on |-> rd.on, no |-> rd.no]

ThenableJob(p, v) ==
    [kind |-> "thenable", cap |-> 0, handler |-> NoHandler, way |-> 0,
     arg |-> v, on |-> p, no |-> 0]

\* fulfill_or_reject_promise
fulfill_or_reject_promise(h, p, v, w) ==
    IF h.state[p] # "pending" THEN h
    ELSE [h EXCEPT
            !.state[p] = Outcome(w),
            !.result[p] = v,
            !.jobs = @ \o [i \in DOMAIN h.reactions[p][w] |->
                              ReactionJob(h.reactions[p][w][i], w, v)],
            !.reactions[p] = NoReactions]

\* Faulty variant of Call: the flag is set by a resolution that settles only.
CallLeavesOpen(h, r, w, v) ==
    LET p == h.pair[r]
        g == [h EXCEPT !.resolved = @ \cup {r}]
    IN  IF r \in h.resolved THEN h
        ELSE IF w = 1 \/ v = Plain THEN fulfill_or_reject_promise(g, p, v, w)
        ELSE IF v \in {p, BadThen} THEN fulfill_or_reject_promise(g, p, Plain, 1)
        ELSE Enqueue(h, ThenableJob(p, v))

\* js_promise_resolve_function_call: function w of pair r is called with v.
Call(h, r, w, v) ==
    LET p == h.pair[r]
        g == [h EXCEPT !.resolved = @ \cup {r}]
    IN  IF r \in h.resolved THEN h
        ELSE IF w = 1 \/ v = Plain THEN fulfill_or_reject_promise(g, p, v, w)
        ELSE IF v \in {p, BadThen} THEN fulfill_or_reject_promise(g, p, Plain, 1)
        ELSE Enqueue(g, ThenableJob(p, v))

\* js_create_resolving_functions: a new pair for p.  The flag that its two
\* functions share, already_resolved, is r \in h.resolved for pair r.
NewPair(h, p) == [h EXCEPT !.pair = Append(@, p)]
LastPair(h) == Len(h.pair)

\* js_new_promise_capability with the built-in constructor.
NewCapability(h) ==
    LET g == [h EXCEPT !.state = Append(@, "pending"),
                       !.result = Append(@, Plain),
                       !.reactions = Append(@, NoReactions),
                       !.count = Append(@, 0),
                       !.ran = Append(@, 0)]
    IN  NewPair(g, Len(g.state))
LastPromise(h) == Len(h.state)

\* Faulty variant of perform_promise_then: only pending promises are served.
ThenIfPending(h, p, on, cap) ==
    LET n == h.count[p] + 1
        rd == [w \in 0..1 |-> [cap |-> cap, handler |-> on[w], on |-> p, no |-> n]]
        g == [h EXCEPT !.count[p] = n]
    IN  [g EXCEPT !.reactions[p] = [w \in 0..1 |-> Append(@[w], rd[w])]]

\* perform_promise_then: on[0] and on[1] are the handlers, cap the pair of the
\* promise that the call returns, 0 for an await.
perform_promise_then(h, p, on, cap) ==
    LET n == h.count[p] + 1
        rd == [w \in 0..1 |-> [cap |-> cap, handler |-> on[w], on |-> p, no |-> n]]
        g == [h EXCEPT !.count[p] = n]
        w0 == WayOf(h.state[p])
    IN  IF h.state[p] = "pending"
        THEN [g EXCEPT !.reactions[p] = [w \in 0..1 |-> Append(@[w], rd[w])]]
        ELSE Enqueue(g, ReactionJob(rd[w0], w0, h.result[p]))

Both(f, r) == [w \in 0..1 |-> IF w = 0 THEN f ELSE r]

\* js_promise_then
js_promise_then(h, p, on) ==
    LET g == NewCapability(h)
    IN  perform_promise_then(g, p, on, LastPair(g))

\* js_promise_resolve: the promise that stands for v.
js_promise_resolve(h, v) ==
    LET g == NewCapability(h)
    IN  IF v > 0 THEN h ELSE Call(g, LastPair(g), 0, v)
PromiseFor(h, v) == IF v > 0 THEN v ELSE LastPromise(h) + 1

\* The end of promise_reaction_job: the outcome goes to the capability.
Finish(h, cap, w, v) == IF cap = 0 THEN h ELSE Call(h, cap, w, v)

-----------------------------------------------------------------------------
(***************************************************************************)
(* Promise.all, allSettled, any, race.                                     *)
(***************************************************************************)
ResolvesWith(k) == IF k = "any" THEN 1 ELSE 0

\* js_promise_all_resolve_element, function w of element i of combinator c.
ResolveElement(h, c, i, w) ==
    LET m == h.comb[c]
        g == [h EXCEPT !.comb[c].called = @ \cup {<<i, w>>},
                       !.comb[c].remaining = @ - 1]
    IN  IF <<i, w>> \in m.called THEN h
        ELSE IF m.remaining = 1 THEN Call(g, m.cap, ResolvesWith(m.kind), Plain)
        ELSE g

\* The handlers that combinator c of kind k puts on its i-th promise.
ElementHandlers(k, c, i, cap) ==
    LET element == Handler("element", c, i)
    IN  CASE k = "all"        -> Both(element, SettleHandler(cap, 1))
          [] k = "allSettled" -> Both(element, element)
          [] k = "any"        -> Both(SettleHandler(cap, 0), element)
          [] k = "race"       -> Both(SettleHandler(cap, 0), SettleHandler(cap, 1))

\* Faulty variant of FirstRemaining: the loop itself is not counted.
NoneRemaining == 0

\* remainingElementsCount counts the loop as one.
FirstRemaining == 1

\* js_promise_all and js_promise_race before their loop.
NewCombinator(h, k, items) ==
    LET g == NewCapability(h)
        m == [kind |-> k, items |-> items, cap |-> LastPair(g), index |-> 0,
              called |-> {}, remaining |-> FirstRemaining]
    IN  [g EXCEPT !.comb = Append(@, m)]

\* One turn of the loop: then of the next promise.  Race does not count.
SubscribeNext(h, c) ==
    LET m == h.comb[c]
        i == m.index + 1
        g == js_promise_then(h, m.items[i], ElementHandlers(m.kind, c, i, m.cap))
    IN  [g EXCEPT !.comb[c] = [m EXCEPT !.index = i,
                                        !.remaining = IF m.kind = "race" THEN @ ELSE @ + 1]]

\* After the loop.
EndLoop(h, c) ==
    LET m == h.comb[c]
        g == [h EXCEPT !.comb[c].remaining = @ - 1]
    IN  IF m.kind = "race" THEN h
        ELSE IF m.remaining = 1 THEN Call(g, m.cap, ResolvesWith(m.kind), Plain)
        ELSE g

-----------------------------------------------------------------------------
(***************************************************************************)
(* Operations of scripts, possible whenever JavaScript code runs: that is  *)
(* under a frame of such code, or from the host.                           *)
(***************************************************************************)
Values == {Plain, Thenable} \cup known

Frame == Last(stack)
InFrame(kinds) == stack # <<>> /\ Frame.kind \in kinds
Pop == stack' = Front(stack)

Script ==
    /\ ~InFrame({"combine"})
    /\ ops < MaxOps
    /\ ops' = ops + 1

\* js_promise_constructor: the executor keeps the functions.  An executor that
\* throws is followed by a call of the second one.
New ==
    /\ Script
    /\ heap' = NewCapability(heap)
    /\ held' = held \cup {LastPair(heap')}
    /\ known' = known \cup {LastPromise(heap')}
    /\ UNCHANGED stack

\* A script calls a resolving function that it holds.
CallResolving(r, w, v) ==
    /\ Script
    /\ heap' = Call(heap, r, w, v)
    /\ UNCHANGED <<stack, held, known>>

\* then, and catch as its special case.
Then(p, on) ==
    /\ Script
    /\ heap' = js_promise_then(heap, p, on)
    /\ known' = known \cup {LastPromise(heap')}
    /\ UNCHANGED <<stack, held>>

\* js_promise_finally: then with the two functions of js_promise_then_finally_func
Finally(p) ==
    Then(p, Both(Handler("finally", 0, 0), Handler("finally", 0, 0)))

\* The lists of n promises that scripts hand over; one may be there twice.
Lists(n) == {items \in [1..n -> known] :
                AnyOrder \/ \A i, j \in 1..n : i < j => items[i] <= items[j]}

\* Promise.all, Promise.allSettled, Promise.any and Promise.race
All(k, items) ==
    /\ Script
    /\ heap' = NewCombinator(heap, k, items)
    /\ stack' = Append(stack, [kind |-> "combine", cap |-> 0, way |-> 0,
                               arg |-> Len(heap.comb) + 1])
    /\ UNCHANGED <<held, known>>

\* js_async_function_call: the body runs up to its first await.
AsyncCall ==
    /\ Script
    /\ Len(stack) < MaxDepth
    /\ LET g == NewCapability(heap)
           f == [state |-> "running", cap |-> LastPair(g)]
       IN  /\ heap' = [g EXCEPT !.fn = Append(@, f)]
           /\ known' = known \cup {LastPromise(g)}
           /\ stack' = Append(stack, [kind |-> "async", cap |-> 0, way |-> 0,
                                      arg |-> Len(g.fn) + 1])
    /\ UNCHANGED held

-----------------------------------------------------------------------------
(***************************************************************************)
(* Jobs.  Native handlers run to their end; the others push a frame.       *)
(***************************************************************************)
Job == Head(heap.jobs)

\* The heap without the job that runs.
Taken ==
    [heap EXCEPT !.jobs = Tail(@),
                 !.ran[Job.on] = IF Job.kind = "reaction" THEN @ + 1 ELSE @]

JobIs(kind, handlers) ==
    /\ stack = <<>>
    /\ heap.jobs # <<>>
    /\ Job.kind = kind
    /\ Job.handler.kind \in handlers

\* promise_reaction_job with a handler of the engine, or none.
NativeReaction ==
    LET hd == Job.handler
        cap == Job.cap
    IN  CASE hd.kind = "none"    -> Finish(Taken, cap, Job.way, Job.arg)
          [] hd.kind = "settle"  -> Finish(Call(Taken, hd.a, hd.b, Job.arg), cap, 0, Plain)
          [] hd.kind = "element" ->
                Finish(ResolveElement(Taken, hd.a, hd.b, Job.way), cap, 0, Plain)
          [] hd.kind = "thunk"   -> Finish(Taken, cap, 0, hd.a)
          [] hd.kind = "thrower" -> Finish(Taken, cap, 1, hd.a)

RunNative ==
    /\ JobIs("reaction", {"none", "settle", "element", "thunk", "thrower"})
    /\ heap' = NativeReaction
    /\ UNCHANGED <<stack, held, known, ops>>

\* promise_reaction_job with JavaScript code, also that of a finally
RunHandler ==
    /\ JobIs("reaction", {"user", "finally"})
    /\ heap' = Taken
    /\ stack' = <<[kind |-> Job.handler.kind, cap |-> Job.cap, way |-> Job.way,
                   arg |-> Job.arg]>>
    /\ UNCHANGED <<held, known, ops>>

\* js_async_function_resolve_call: the body goes on after its await.
RunAwait ==
    /\ JobIs("reaction", {"await"})
    /\ heap' = [Taken EXCEPT !.fn[Job.handler.a].state = "running"]
    /\ stack' = <<[kind |-> "async", cap |-> 0, way |-> 0, arg |-> Job.handler.a]>>
    /\ UNCHANGED <<held, known, ops>>

\* js_promise_resolve_thenable_job: then of a promise or of a script's object
RunThenable ==
    /\ JobIs("thenable", {"none"})
    /\ LET g == NewPair(Taken, Job.on)
           r == LastPair(g)
       IN  IF Job.arg > 0
           THEN /\ heap' = js_promise_then(g, Job.arg, Both(SettleHandler(r, 0),
                                                            SettleHandler(r, 1)))
                /\ UNCHANGED <<stack, held>>
           ELSE /\ heap' = g
                /\ held' = held \cup {r}
                /\ stack' = <<[kind |-> "then", cap |-> r, way |-> 0, arg |-> 0]>>
    /\ UNCHANGED <<known, ops>>

-----------------------------------------------------------------------------
(***************************************************************************)
(* Ends of frames.                                                         *)
(***************************************************************************)
\* The code returns v.
Return(v) ==
    /\ InFrame({"user", "then"})
    /\ heap' = IF Frame.kind = "then" THEN heap ELSE Finish(heap, Frame.cap, 0, v)
    /\ Pop
    /\ UNCHANGED <<held, known, ops>>

\* js_promise_then_finally_func: wait for what onFinally returned, then pass
\* the original outcome on.
ReturnFinally(v) ==
    /\ InFrame({"finally"})
    /\ LET g == js_promise_resolve(heap, v)
           pass == Handler(IF Frame.way = 0 THEN "thunk" ELSE "thrower", Frame.arg, 0)
           t == js_promise_then(g, PromiseFor(heap, v), Both(pass, NoHandler))
       IN  heap' = Finish(t, Frame.cap, 0, LastPromise(t))
    /\ Pop
    /\ UNCHANGED <<held, known, ops>>

\* The code throws: the capability is rejected, that of the thenable job too.
Throw ==
    /\ InFrame({"user", "then", "finally"})
    /\ heap' = Finish(heap, Frame.cap, 1, Plain)
    /\ Pop
    /\ UNCHANGED <<held, known, ops>>

\* js_async_function_resume: the body has returned v or has thrown.
AsyncEnds(w, v) ==
    /\ InFrame({"async"})
    /\ heap' = Call([heap EXCEPT !.fn[Frame.arg].state = "done"],
                    heap.fn[Frame.arg].cap, w, v)
    /\ Pop
    /\ UNCHANGED <<held, known, ops>>

\* Faulty variant of Await: the two continuations are registered by two calls.
AwaitTwice(v) ==
    /\ Script
    /\ InFrame({"async"})
    /\ LET g == [js_promise_resolve(heap, v) EXCEPT !.fn[Frame.arg].state = "suspended"]
           p == PromiseFor(heap, v)
           go == Handler("await", Frame.arg, 0)
           t == perform_promise_then(g, p, Both(go, go), 0)
       IN  heap' = perform_promise_then(t, p, Both(go, go), 0)
    /\ Pop
    /\ UNCHANGED <<held, known>>

\* js_async_function_resume: await v
Await(v) ==
    /\ Script
    /\ InFrame({"async"})
    /\ LET g == [js_promise_resolve(heap, v) EXCEPT !.fn[Frame.arg].state = "suspended"]
           go == Handler("await", Frame.arg, 0)
       IN  heap' = perform_promise_then(g, PromiseFor(heap, v), Both(go, go), 0)
    /\ Pop
    /\ UNCHANGED <<held, known>>

\* js_promise_all and js_promise_race go on with their loop.
Subscribe ==
    /\ InFrame({"combine"})
    /\ heap.comb[Frame.arg].index < Len(heap.comb[Frame.arg].items)
    /\ heap' = SubscribeNext(heap, Frame.arg)
    /\ UNCHANGED <<stack, held, known, ops>>

\* js_promise_all and js_promise_race return their promise.
CombinatorReturns ==
    /\ InFrame({"combine"})
    /\ heap.comb[Frame.arg].index = Len(heap.comb[Frame.arg].items)
    /\ heap' = EndLoop(heap, Frame.arg)
    /\ known' = known \cup {heap.pair[heap.comb[Frame.arg].cap]}
    /\ Pop
    /\ UNCHANGED <<held, ops>>

-----------------------------------------------------------------------------
\* A new context has no promises; the script has made its first ones.
Init ==
    /\ heap = [state     |-> [p \in 1..Initial |-> "pending"],
               result    |-> [p \in 1..Initial |-> Plain],
               reactions |-> [p \in 1..Initial |-> NoReactions],
               count     |-> [p \in 1..Initial |-> 0],
               ran       |-> [p \in 1..Initial |-> 0],
               pair      |-> [r \in 1..Initial |-> r],
               resolved |-> {}, jobs |-> <<>>, comb |-> <<>>, fn |-> <<>>]
    /\ stack = <<>>
    /\ held = 1..Initial
    /\ known = 1..Initial
    /\ ops = 0

ScriptOperation ==
    \/ New
    \/ \E r \in held, v \in Values \cup {BadThen} : CallResolving(r, 0, v)
    \/ \E r \in held : CallResolving(r, 1, Plain)
    \/ \E p \in known : Then(p, Both(UserHandler, NoHandler))
    \/ \E p \in known : Then(p, Both(NoHandler, UserHandler))
    \/ \E p \in known : Finally(p)
    \/ \E k \in Combinators, n \in 0..MaxItems :
          \E items \in Lists(n) : All(k, items)
    \/ AsyncCall

RunJob == RunNative \/ RunHandler \/ RunAwait \/ RunThenable

FrameEnds ==
    \/ \E v \in Values :
          Return(v) \/ ReturnFinally(v) \/ AsyncEnds(0, v) \/ Await(v)
    \/ Throw
    \/ AsyncEnds(1, Plain)
    \/ Subscribe
    \/ CombinatorReturns

Next == ScriptOperation \/ RunJob \/ FrameEnds

Spec == Init /\ [][Next]_vars

-----------------------------------------------------------------------------
Promises == DOMAIN heap.state
States == {"pending", "fulfilled", "rejected"}
Handlers == [kind : {"none", "user", "settle", "element", "finally", "thunk",
                     "thrower", "await"},
             a : Int, b : Nat]

\* Type invariant of the promises.
TypeOK ==
    /\ heap.state \in Seq(States)
    /\ {DOMAIN heap.result, DOMAIN heap.reactions, DOMAIN heap.count,
         DOMAIN heap.ran} = {Promises}
    /\ \A p \in Promises :
          /\ heap.result[p] \in Int
          /\ heap.count[p] \in Nat /\ heap.ran[p] \in 0..heap.count[p]
          /\ \A w \in 0..1 :
                heap.reactions[p][w] \in Seq([cap : 0..Len(heap.pair), on : {p},
                                              no : Nat, handler : Handlers])
    /\ heap.pair \in Seq(Promises) /\ heap.resolved \subseteq DOMAIN heap.pair
    /\ heap.jobs \in Seq([kind : {"reaction", "thenable"}, no : Nat,
                          cap : 0..Len(heap.pair), way : 0..1, on : Promises,
                          arg : Int, handler : Handlers])
    /\ \A c \in DOMAIN heap.comb : heap.comb[c].remaining \in Nat
    /\ heap.fn \in Seq([state : {"running", "suspended", "done"},
                        cap : DOMAIN heap.pair])
    /\ held \subseteq DOMAIN heap.pair
    /\ known \subseteq Promises
    /\ ops \in 0..MaxOps

\* A pending promise can be settled along exactly one way, an unused pair of
\* resolving functions or a thenable job, and a settled one along none: the
\* "should never happen" of fulfill_or_reject_promise is right, though pairs
\* are called any number of times and thenable jobs make new pairs.
OneWayToSettle ==
    /\ TypeOK
    /\ \A p \in Promises :
        LET pairs == {r \in DOMAIN heap.pair :
                        heap.pair[r] = p /\ r \notin heap.resolved}
            waiting == {i \in DOMAIN heap.jobs :
                          heap.jobs[i].kind = "thenable" /\ heap.jobs[i].on = p}
        IN  Cardinality(pairs) + Cardinality(waiting)
              = IF heap.state[p] = "pending" THEN 1 ELSE 0

\* The calls of then on a promise are answered in their order, none twice and
\* none lost, whether they came before or after it was settled.  While it is
\* pending its two lists hold them all and agree; nothing waits in the lists of
\* a settled one, and its jobs are those that have not run, oldest first.
ReactionsInOrder ==
    \A p \in Promises :
        LET jobs == {i \in DOMAIN heap.jobs :
                       heap.jobs[i].kind = "reaction" /\ heap.jobs[i].on = p}
            no(i) == heap.jobs[i].no
        IN  /\ {no(i) : i \in jobs} = IF heap.state[p] = "pending" THEN {}
                                      ELSE heap.ran[p] + 1 .. heap.count[p]
            /\ \A i, j \in jobs : i < j => no(i) < no(j)
            /\ \A w \in 0..1 :
                  [i \in DOMAIN heap.reactions[p][w] |-> heap.reactions[p][w][i].no]
                    = IF heap.state[p] = "pending"
                      THEN [i \in 1 .. heap.count[p] |-> i] ELSE <<>>
            /\ heap.state[p] = "pending" => heap.ran[p] = 0

\* The outcome of Promise.all and its relatives is one that their promises
\* justify; and when no job is left it is not late: no element is waited for
\* in vain, in whatever order the elements were settled and the loop counted.
CombinatorsRight ==
    \A c \in DOMAIN heap.comb :
        LET m == heap.comb[c]
            result == heap.state[heap.pair[m.cap]]
            is(i, s) == heap.state[m.items[i]] = s
            every(s) == \A i \in DOMAIN m.items : is(i, s)
            some(s) == \E i \in DOMAIN m.items : is(i, s)
            ways == {s \in {"fulfilled", "rejected"} :
                       CASE m.kind = "all" /\ s = "fulfilled" -> every(s)
                         [] m.kind = "any" /\ s = "rejected"  -> every(s)
                         [] m.kind = "allSettled" ->
                              s = "fulfilled" /\ ~some("pending")
                         [] OTHER -> some(s)}
        IN  /\ result # "pending" => result \in ways
            /\ (result = "pending" /\ stack = <<>> /\ heap.jobs = <<>>) => ways = {}

\* An async function that is suspended has exactly one continuation waiting,
\* in a promise's list or among the jobs, and one that runs or is done none:
\* js_async_function_resume is never entered twice for one await.
OneContinuation ==
    \A f \in DOMAIN heap.fn, w \in 0..1 :
        LET goes(rd) == rd.handler.kind = "await" /\ rd.handler.a = f
            lists == UNION {{p} \X {i \in DOMAIN heap.reactions[p][w] :
                                       goes(heap.reactions[p][w][i])} :
                            p \in Promises}
            queued == {i \in DOMAIN heap.jobs : goes(heap.jobs[i])}
        IN  Cardinality(lists) + Cardinality(queued)
              = IF heap.fn[f].state = "suspended" THEN 1 ELSE 0

=============================================================================
