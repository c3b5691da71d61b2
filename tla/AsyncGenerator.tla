--------------------------- MODULE AsyncGenerator ---------------------------
(***************************************************************************)
(* One async generator object: the queue of the requests that its next,    *)
(* return and throw methods make, the state of its function, and the       *)
(* continuations that wait for promises.  The body of the function is      *)
(* JavaScript code: between two steps of it other code may run, and        *)
(* requests may come from the body itself.                                 *)
(*                                                                         *)
(* The promises are those of module Promise: a continuation is registered  *)
(* with perform_promise_then and called at most once, by a job.  Code that *)
(* runs inside the engine's functions, through accessors that a script has *)
(* put on Object.prototype, is left out.                                   *)
(***************************************************************************)
EXTENDS Naturals, Sequences

CONSTANTS
    MaxRequests,  \* bound: calls of next, return and throw
    MaxAwaits,    \* bound: awaits of the body
    AwaitMayFail  \* whether a continuation may fail to be registered

ASSUME GeneratorAssumption ==
    MaxRequests \in Nat /\ MaxAwaits \in Nat /\ AwaitMayFail \in BOOLEAN

VARIABLES
    state,    \* JSAsyncGeneratorData.state
    frame,    \* JSAsyncGeneratorData.func_state: "suspended", "running", "freed"
    queue,    \* JSAsyncGeneratorData.queue: requests without an answer
    awaits,   \* continuations of the body that wait for a promise
    returns,  \* continuations of a completed generator's return
    answers,  \* history: what the promises of the requests were resolved with
    requests, \* history: requests so far
    awaited,  \* history: awaits so far
    lost,     \* history: a continuation could not be registered
    held,     \* a script holds the generator object
    failed    \* history: an assertion did not hold, or a freed frame was used

vars == <<state, frame, queue, awaits, returns, answers, requests, awaited,
          lost, held, failed>>

\* JSAsyncGeneratorStateEnum, "collected" once the object is freed.
Suspended == {"start", "yield", "yield_star"}
GeneratorStates ==
    Suspended \cup {"executing", "awaiting_return", "completed", "collected"}

Types == {"next", "return", "throw"}

\* What a promise of a request is resolved or rejected with.
Outcomes == {"yield", "done", "error"}

-----------------------------------------------------------------------------
(***************************************************************************)
(* The engine's functions.  The arguments are the values that the function *)
(* works on, which an earlier part of the same step may have computed.     *)
(***************************************************************************)

\* Whether js_async_generator_await or js_async_generator_completed_return
\* registers its continuation; the callers ignore a failure.
Registered == IF AwaitMayFail THEN {TRUE, FALSE} ELSE {TRUE}

\* js_async_generator_resolve_or_reject: the first request gets its answer.
Answer(q, a, outcome) ==
    /\ queue' = Tail(q)
    /\ answers' = Append(a, [id |-> Head(q).id, outcome |-> outcome])

\* async_func_resume: JavaScript code of the body runs.
async_func_resume(f, q, a, bad) ==
    /\ state' = "executing"
    /\ frame' = "running"
    /\ queue' = q
    /\ answers' = a
    /\ failed' = (bad \/ f # "suspended")
    /\ UNCHANGED <<returns, lost>>

\* The COMPLETED case of js_async_generator_resume_next: one request only.
\* f and bad are the frame and the assertions after what came before.
AnswerCompleted(q, a, f, bad) ==
    /\ frame' = f
    /\ failed' = bad
    /\ \/ /\ Head(q).type # "return"
          /\ state' = "completed"
          /\ Answer(q, a, IF Head(q).type = "next" THEN "done" ELSE "error")
          /\ UNCHANGED <<returns, lost>>
       \/ /\ Head(q).type = "return"
          /\ state' = "awaiting_return"
          /\ queue' = q
          /\ answers' = a
          /\ \E ok \in Registered :
                /\ returns' = IF ok THEN returns + 1 ELSE returns
                /\ lost' = (lost \/ ~ok)

\* Nothing more to do for now.
Rest(s, f, q, a, bad) ==
    /\ state' = s
    /\ frame' = f
    /\ queue' = q
    /\ answers' = a
    /\ failed' = bad
    /\ UNCHANGED <<returns, lost>>

\* js_async_generator_complete frees the frame, which asserts that the
\* function is not running.
Frees(f) == f = "suspended"

\* Faulty variant of ResumeNext: a return of a generator that was not started
\* waits without completing it.
ResumeWithoutComplete(s, f, q, a, bad) ==
    \/ /\ q = <<>> \/ s = "awaiting_return"
       /\ Rest(s, f, q, a, bad)
    \/ /\ q # <<>>
       /\ \/ s = "start" /\ Head(q).type = "next"
          \/ s \in {"yield", "yield_star", "executing"}
       /\ async_func_resume(f, q, a, bad)
    \/ /\ q # <<>>
       /\ s = "start" /\ Head(q).type # "next"
       /\ AnswerCompleted(q, a, f, bad)
    \/ /\ q # <<>>
       /\ s = "completed"
       /\ AnswerCompleted(q, a, f, bad)

\* js_async_generator_resume_next, with s, f, q and a as state, frame, queue
\* and answers.  The loop goes round again after a start that is completed.
ResumeNext(s, f, q, a, bad) ==
    \/ /\ q = <<>> \/ s = "awaiting_return"
       /\ Rest(s, f, q, a, bad)
    \/ /\ q # <<>>
       /\ \/ s = "start" /\ Head(q).type = "next"
          \/ s \in {"yield", "yield_star", "executing"}
       /\ async_func_resume(f, q, a, bad)
    \/ /\ q # <<>>
       /\ s = "start" /\ Head(q).type # "next"
       /\ AnswerCompleted(q, a, "freed", bad \/ ~Frees(f))
    \/ /\ q # <<>>
       /\ s = "completed"
       /\ AnswerCompleted(q, a, f, bad)

-----------------------------------------------------------------------------
\* Faulty variant of Request: a running generator is resumed as well.
RequestResumes(type) ==
    LET q == Append(queue, [id |-> requests + 1, type |-> type])
    IN  /\ held
        /\ requests < MaxRequests
        /\ requests' = requests + 1
        /\ ResumeNext(state, frame, q, answers, failed)
        /\ UNCHANGED <<awaits, awaited, held>>

\* Faulty variant of Request: the new request becomes the first.
RequestAtHead(type) ==
    LET q == <<[id |-> requests + 1, type |-> type]>> \o queue
    IN  /\ held
        /\ requests < MaxRequests
        /\ requests' = requests + 1
        /\ IF state # "executing"
           THEN ResumeNext(state, frame, q, answers, failed)
           ELSE Rest(state, frame, q, answers, failed)
        /\ UNCHANGED <<awaits, awaited, held>>

\* js_async_generator_next: gen.next(), gen.return() or gen.throw()
Request(type) ==
    LET q == Append(queue, [id |-> requests + 1, type |-> type])
    IN  /\ held
        /\ requests < MaxRequests
        /\ requests' = requests + 1
        /\ IF state # "executing"
           THEN ResumeNext(state, frame, q, answers, failed)
           ELSE Rest(state, frame, q, answers, failed)
        /\ UNCHANGED <<awaits, awaited, held>>

\* Faulty variant of BodyYields: the loop ends with the answer.
YieldStops(s) ==
    /\ frame = "running"
    /\ Rest(s, "suspended", Tail(queue),
            Append(answers, [id |-> Head(queue).id, outcome |-> "yield"]), failed)
    /\ UNCHANGED <<awaits, requests, awaited, held>>

\* The body yields: the first request is answered and the loop goes round.
BodyYields(s) ==
    /\ frame = "running"
    /\ ResumeNext(s, "suspended", Tail(queue),
                  Append(answers, [id |-> Head(queue).id, outcome |-> "yield"]),
                  failed)
    /\ UNCHANGED <<awaits, requests, awaited, held>>

\* The body awaits: js_async_generator_await
BodyAwaits ==
    /\ frame = "running"
    /\ awaited < MaxAwaits
    /\ awaited' = awaited + 1
    /\ frame' = "suspended"
    /\ \E ok \in Registered :
          /\ awaits' = IF ok THEN awaits + 1 ELSE awaits
          /\ lost' = (lost \/ ~ok)
    /\ UNCHANGED <<state, queue, returns, answers, requests, held, failed>>

\* Faulty variant of BodyEnds: a body that throws leaves the state as it is.
BodyEndsSuspended(outcome) ==
    /\ frame = "running"
    /\ ResumeNext(IF outcome = "error" THEN "yield" ELSE "completed",
                  IF outcome = "error" THEN "suspended" ELSE "freed", Tail(queue),
                  Append(answers, [id |-> Head(queue).id, outcome |-> outcome]),
                  failed)
    /\ UNCHANGED <<awaits, requests, awaited, held>>

\* The body returns or throws: js_async_generator_complete, then the answer,
\* and the loop goes round.
BodyEnds(outcome) ==
    /\ frame = "running"
    /\ ResumeNext("completed", "freed", Tail(queue),
                  Append(answers, [id |-> Head(queue).id, outcome |-> outcome]),
                  failed)
    /\ UNCHANGED <<awaits, requests, awaited, held>>

\* js_async_generator_resolve_function: the awaited promise is settled.
AwaitSettles ==
    /\ awaits > 0
    /\ awaits' = awaits - 1
    /\ ResumeNext(state, frame, queue, answers, failed \/ state # "executing")
    /\ UNCHANGED <<requests, awaited, held>>

\* The same for magic >= 2: the promise of a return is settled.  The request
\* is answered and the next one is not looked at.
ReturnSettles(outcome) ==
    /\ returns > 0
    /\ returns' = returns - 1
    /\ state' = "completed"
    /\ failed' = (failed \/ queue = <<>>
                         \/ state \notin {"awaiting_return", "completed"})
    /\ Answer(queue, answers, outcome)
    /\ UNCHANGED <<frame, awaits, requests, awaited, lost, held>>

\* No script refers to the object any more.
Drop ==
    /\ held
    /\ held' = FALSE
    /\ UNCHANGED <<state, frame, queue, awaits, returns, answers, requests,
                   awaited, lost, failed>>

\* js_async_generator_finalizer: neither a script nor a continuation nor the
\* call of the body refers to the object.
Collect ==
    /\ ~held /\ awaits = 0 /\ returns = 0 /\ frame # "running"
    /\ state # "collected"
    /\ state' = "collected"
    /\ queue' = <<>>
    /\ IF state \in {"completed", "awaiting_return"}
       THEN UNCHANGED <<frame, failed>>
       ELSE frame' = "freed" /\ failed' = (failed \/ ~Frees(frame))
    /\ UNCHANGED <<awaits, returns, answers, requests, awaited, lost, held>>

-----------------------------------------------------------------------------
\* js_async_generator_function_call: the function has run up to its start.
Init ==
    /\ state = "start"
    /\ frame = "suspended"
    /\ queue = <<>>
    /\ awaits = 0 /\ returns = 0
    /\ answers = <<>>
    /\ requests = 0 /\ awaited = 0
    /\ lost = FALSE
    /\ held = TRUE
    /\ failed = FALSE

Next ==
    \/ \E t \in Types : Request(t)
    \/ \E s \in {"yield", "yield_star"} : BodyYields(s)
    \/ BodyAwaits
    \/ \E o \in {"done", "error"} : BodyEnds(o) \/ ReturnSettles(o)
    \/ AwaitSettles
    \/ Drop
    \/ Collect

Spec == Init /\ [][Next]_vars

-----------------------------------------------------------------------------
Requests == [id : 1..MaxRequests, type : Types]
Answers == [id : 1..MaxRequests, outcome : Outcomes]

\* Type invariant of the generator.
TypeOK ==
    /\ state \in GeneratorStates
    /\ frame \in {"suspended", "running", "freed"}
    /\ queue \in Seq(Requests)
    /\ awaits \in Nat /\ returns \in Nat
    /\ answers \in Seq(Answers)
    /\ requests \in 0..MaxRequests /\ awaited \in 0..MaxAwaits
    /\ lost \in BOOLEAN /\ held \in BOOLEAN /\ failed \in BOOLEAN

\* The assertions of js_async_generator_resolve_function and async_func_free
\* hold and js_async_generator_resolve_or_reject finds a request, whatever
\* order requests, awaits and settled promises come in.
AssertionsHold == ~failed

\* There is never more than one way in which the function goes on: it runs,
\* or one continuation waits for a promise, and that fits the state.  Its
\* frame is freed exactly when the generator is completed.
OneThreadOfControl ==
    /\ (IF frame = "running" THEN 1 ELSE 0) + awaits + returns <= 1
    /\ frame = "running" \/ awaits > 0 => state = "executing" /\ queue # <<>>
    /\ returns > 0 => /\ state = "awaiting_return"
                      /\ queue # <<>>
                      /\ Head(queue).type = "return"
    /\ frame = "freed" <=> state \in {"completed", "awaiting_return", "collected"}

\* A request without an answer has somebody who will answer it: the body, or a
\* continuation.  The exceptions are a completed generator, where the code
\* leaves all but one request to the next call, and a lost continuation.
NobodyForgotten ==
    queue # <<>> /\ ~lost =>
        \/ frame = "running" \/ awaits > 0 \/ returns > 0
        \/ state = "completed"

\* Every request is answered once, in the order of the requests.
AnsweredInOrder ==
    state # "collected" =>
        /\ \A i \in DOMAIN answers : answers[i].id = i
        /\ \A i \in DOMAIN queue : queue[i].id = Len(answers) + i
        /\ requests = Len(answers) + Len(queue)

\* Nothing is yielded after a request was told that the generator is done or
\* has failed.
DoneIsFinal ==
    \A i, j \in DOMAIN answers :
        i < j /\ answers[i].outcome # "yield" => answers[j].outcome # "yield"

=============================================================================
