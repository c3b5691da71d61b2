------------------------ MODULE AsyncGeneratorProofs ------------------------
(***************************************************************************)
(* Proofs about AsyncGenerator, for every number of requests and awaits    *)
(* and whether or not continuations are lost.                              *)
(***************************************************************************)
EXTENDS AsyncGenerator, TLAPS

\* States in which the function's frame is gone.
Over == {"completed", "awaiting_return", "collected"}

\* The answers a and the open requests q are the n requests in their order.
Ordered(a, q, n) ==
    /\ a \in Seq(Answers)
    /\ q \in Seq(Requests)
    /\ \A i \in DOMAIN a : a[i].id = i
    /\ \A i \in DOMAIN q : q[i].id = Len(a) + i
    /\ n = Len(a) + Len(q)

\* DoneIsFinal for the answers a.
Final(a) ==
    \A i, j \in DOMAIN a :
        i < j /\ a[i].outcome # "yield" => a[j].outcome # "yield"

\* A generator that is not over has yielded, and nothing else: this is why its
\* next answer may be another yield.
OnlyYields(s, a) ==
    s \notin Over => \A i \in DOMAIN a : a[i].outcome = "yield"

\* Who answers the requests, state by state, unless a continuation was lost.
SomebodyAnswers ==
    ~lost =>
        /\ state = "executing" => frame = "running" \/ awaits > 0
        /\ state = "awaiting_return" => returns > 0
        /\ state \in Suspended \cup {"collected"} => queue = <<>>

\* A collected generator is out of reach.
OutOfReach == state = "collected" => ~held

Inv ==
    /\ TypeOK
    /\ AssertionsHold
    /\ OneThreadOfControl
    /\ AnsweredInOrder
    /\ DoneIsFinal
    /\ OnlyYields(state, answers)
    /\ SomebodyAnswers
    /\ OutOfReach

-----------------------------------------------------------------------------
(***************************************************************************)
(* The queue and the answers.                                              *)
(***************************************************************************)

LEMMA EmptyOrdered == Ordered(<<>>, <<>>, 0)
BY DEF Ordered

\* list_add_tail in js_async_generator_next
LEMMA RequestOrdered ==
    ASSUME NEW a, NEW q, NEW n \in Nat, NEW t \in Types,
           n < MaxRequests, Ordered(a, q, n)
    PROVE  Ordered(a, Append(q, [id |-> n + 1, type |-> t]), n + 1)
<1> DEFINE r == [id |-> n + 1, type |-> t]
           p == Append(q, r)
<1>1. r \in Requests
  BY GeneratorAssumption DEF Requests
<1>2. p \in Seq(Requests) /\ Len(p) = Len(q) + 1
  BY <1>1 DEF Ordered
<1>3. ASSUME NEW i \in DOMAIN p PROVE p[i].id = Len(a) + i
  <2>1. i \in 1 .. Len(q) + 1
    BY <1>2
  <2>2. CASE i \in DOMAIN q
    BY <2>2, <1>1 DEF Ordered
  <2>3. CASE i = Len(q) + 1
    BY <2>3, <1>1 DEF Ordered
  <2>4. QED
    BY <2>1, <2>2, <2>3 DEF Ordered
<1>4. QED
  BY <1>2, <1>3 DEF Ordered

\* js_async_generator_resolve_or_reject answers the first request.
LEMMA AnswerOrdered ==
    ASSUME NEW a, NEW q, NEW n, NEW o \in Outcomes, q # <<>>, Ordered(a, q, n)
    PROVE  Ordered(Append(a, [id |-> Head(q).id, outcome |-> o]), Tail(q), n)
<1> DEFINE x == [id |-> Head(q).id, outcome |-> o]
           b == Append(a, x)
           p == Tail(q)
<1>1. a \in Seq(Answers) /\ q \in Seq(Requests) /\ 1 \in DOMAIN q
  BY DEF Ordered
<1>2. Head(q) = q[1] /\ q[1] \in Requests /\ q[1].id = Len(a) + 1
  BY <1>1 DEF Ordered
<1>3. x \in Answers
  BY <1>2 DEF Requests, Answers
<1>4. b \in Seq(Answers) /\ Len(b) = Len(a) + 1
  BY <1>1, <1>3
<1>5. p \in Seq(Requests) /\ Len(p) = Len(q) - 1
  BY <1>1
<1>6. ASSUME NEW i \in DOMAIN b PROVE b[i].id = i
  <2>1. i \in 1 .. Len(a) + 1
    BY <1>4
  <2>2. CASE i \in DOMAIN a
    BY <2>2, <1>1 DEF Ordered
  <2>3. CASE i = Len(a) + 1
    BY <2>3, <1>1, <1>2
  <2>4. QED
    BY <1>1, <2>1, <2>2, <2>3
<1>7. ASSUME NEW i \in DOMAIN p PROVE p[i].id = Len(b) + i
  <2>1. i \in 1 .. Len(q) - 1 /\ i + 1 \in DOMAIN q /\ p[i] = q[i + 1]
    BY <1>1, <1>5
  <2>2. QED
    BY <1>1, <1>4, <2>1 DEF Ordered
<1>8. n = Len(b) + Len(p)
  BY <1>1, <1>4, <1>5 DEF Ordered
<1>9. QED
  BY <1>4, <1>5, <1>6, <1>7, <1>8 DEF Ordered

\* An answer that is not a yield may always come, a yield only after yields.
LEMMA AnswerFinal ==
    ASSUME NEW a \in Seq(Answers), NEW x \in Answers, Final(a),
           x.outcome # "yield" \/ \A i \in DOMAIN a : a[i].outcome = "yield"
    PROVE  Final(Append(a, x))
<1> DEFINE b == Append(a, x)
<1> SUFFICES ASSUME NEW i \in DOMAIN b, NEW j \in DOMAIN b,
                    i < j, b[i].outcome # "yield"
             PROVE  b[j].outcome # "yield"
  BY DEF Final
<1>1. i \in DOMAIN a /\ b[i] = a[i] /\ j \in 1 .. Len(a) + 1
  OBVIOUS
<1>2. CASE j = Len(a) + 1
  BY <1>1, <1>2
<1>3. CASE j \in DOMAIN a
  BY <1>1, <1>3 DEF Final
<1>4. QED
  BY <1>1, <1>2, <1>3

\* A generator that goes on has yielded only, the new answer included.
LEMMA YieldOnlyYields ==
    ASSUME NEW s, NEW r, NEW a \in Seq(Answers), NEW x \in Answers,
           s \notin Over, OnlyYields(s, a), x.outcome = "yield"
    PROVE  OnlyYields(r, Append(a, x))
<1> DEFINE b == Append(a, x)
<1> SUFFICES ASSUME NEW i \in DOMAIN b PROVE b[i].outcome = "yield"
  BY DEF OnlyYields
<1>1. i \in 1 .. Len(a) + 1
  OBVIOUS
<1>2. QED
  BY <1>1 DEF OnlyYields

-----------------------------------------------------------------------------
(***************************************************************************)
(* js_async_generator_resume_next.  It is called with a state in which a   *)
(* request may be waiting with nobody to answer it, and it leaves none.    *)
(***************************************************************************)

\* What holds of the values that the loop starts with.
Ready(s, f, q, a) ==
    /\ s \in GeneratorStates \ {"collected"}
    /\ f \in {"suspended", "freed"}
    /\ f = "freed" <=> s \in Over
    /\ s = "executing" => q # <<>>
    /\ returns \in 0..1
    /\ returns > 0 => s = "awaiting_return" /\ q # <<>> /\ Head(q).type = "return"
    /\ ~lost /\ s = "awaiting_return" => returns > 0
    /\ Final(a)
    /\ OnlyYields(s, a)

LEMMA ResumeStep ==
    ASSUME NEW s, NEW f, NEW q, NEW a, NEW bad,
           bad = FALSE,
           Ready(s, f, q, a),
           Ordered(a, q, requests'),
           requests' \in 0..MaxRequests,
           awaited' \in 0..MaxAwaits,
           awaits' = 0,
           lost \in BOOLEAN,
           held' \in BOOLEAN,
           ResumeNext(s, f, q, a, bad)
    PROVE  Inv'
<1>0. a \in Seq(Answers) /\ q \in Seq(Requests)
  BY DEF Ordered
<1>1. CASE (q = <<>> \/ s = "awaiting_return") /\ Rest(s, f, q, a, bad)
  <2>1. /\ state' = s /\ frame' = f /\ queue' = q /\ answers' = a
        /\ failed' = FALSE /\ returns' = returns /\ lost' = lost
    BY <1>1 DEF Rest
  <2>2. TypeOK'
    <3>1. failed' \in BOOLEAN /\ lost' \in BOOLEAN
      BY <2>1, Zenon
    <3>2. QED
      BY <1>0, <2>1, <3>1 DEF TypeOK, Ready
  <2>3. OneThreadOfControl'
    BY <2>1 DEF OneThreadOfControl, Ready, Over
  <2>4. AnsweredInOrder' /\ DoneIsFinal' /\ OnlyYields(state, answers)'
    BY <2>1 DEF AnsweredInOrder, Ordered, Ready, Final, DoneIsFinal, OnlyYields
  <2>5. SomebodyAnswers'
    BY <1>1, <2>1 DEF SomebodyAnswers, Ready, Suspended
  <2>6. QED
    BY <2>1, <2>2, <2>3, <2>4, <2>5 DEF Inv, AssertionsHold, OutOfReach, Ready
<1>2. CASE /\ q # <<>>
           /\ s \in {"start", "yield", "yield_star", "executing"}
           /\ async_func_resume(f, q, a, bad)
  <2>1. /\ state' = "executing" /\ frame' = "running" /\ queue' = q
        /\ answers' = a /\ returns' = returns /\ lost' = lost
    BY <1>2 DEF async_func_resume
  <2>2. f = "suspended" /\ failed' = FALSE
    BY <1>2 DEF async_func_resume, Ready, Over
  <2>3. returns = 0
    BY <1>2 DEF Ready
  <2>4. TypeOK'
    BY <1>0, <2>1, <2>2, <2>3 DEF TypeOK, GeneratorStates
  <2>5. OneThreadOfControl'
    BY <1>2, <2>1, <2>3 DEF OneThreadOfControl
  <2>6. AnsweredInOrder' /\ DoneIsFinal' /\ OnlyYields(state, answers)'
    BY <1>2, <2>1 DEF AnsweredInOrder, Ordered, Ready, Final, DoneIsFinal,
                      OnlyYields, Over
  <2>7. SomebodyAnswers'
    BY <2>1 DEF SomebodyAnswers, Suspended
  <2>8. QED
    BY <2>1, <2>2, <2>4, <2>5, <2>6, <2>7 DEF Inv, AssertionsHold, OutOfReach
<1>3. ASSUME NEW g, NEW worse, g = "freed", worse = FALSE,
             q # <<>>, returns = 0,
             AnswerCompleted(q, a, g, worse)
      PROVE  Inv'
  <2>1. frame' = "freed" /\ failed' = FALSE
    BY <1>3 DEF AnswerCompleted
  <2>2. CASE /\ Head(q).type # "return"
             /\ state' = "completed"
             /\ Answer(q, a, IF Head(q).type = "next" THEN "done" ELSE "error")
             /\ UNCHANGED <<returns, lost>>
    <3> DEFINE o == IF Head(q).type = "next" THEN "done" ELSE "error"
               x == [id |-> Head(q).id, outcome |-> o]
    <3>1. o \in Outcomes /\ o # "yield"
      BY DEF Outcomes
    <3>2. queue' = Tail(q) /\ answers' = Append(a, x)
      BY <2>2 DEF Answer
    <3>3. Ordered(answers', queue', requests')
      BY <1>3, <3>1, <3>2, AnswerOrdered
    <3>4. x \in Answers
      <4>1. Head(q) \in Requests
        BY <1>0, <1>3
      <4>2. QED
        BY <3>1, <4>1 DEF Answers, Requests
    <3>5. Final(answers')
      BY <1>0, <3>1, <3>2, <3>4, AnswerFinal DEF Ready
    <3>6. TypeOK'
      BY <1>3, <2>1, <2>2, <3>3 DEF TypeOK, GeneratorStates, Ordered
    <3>7. OneThreadOfControl' /\ SomebodyAnswers'
      BY <1>3, <2>1, <2>2 DEF OneThreadOfControl, SomebodyAnswers, Suspended
    <3>8. AnsweredInOrder' /\ DoneIsFinal' /\ OnlyYields(state, answers)'
      BY <2>2, <3>3, <3>5 DEF AnsweredInOrder, Ordered, Final, DoneIsFinal,
                              OnlyYields, Over
    <3>9. QED
      BY <2>1, <2>2, <3>6, <3>7, <3>8 DEF Inv, AssertionsHold, OutOfReach
  <2>3. CASE /\ Head(q).type = "return"
             /\ state' = "awaiting_return"
             /\ queue' = q
             /\ answers' = a
             /\ \E ok \in Registered :
                   /\ returns' = IF ok THEN returns + 1 ELSE returns
                   /\ lost' = (lost \/ ~ok)
    <3>1. PICK ok \in Registered : /\ returns' = IF ok THEN returns + 1 ELSE returns
                                   /\ lost' = (lost \/ ~ok)
      BY <2>3
    <3>2. ok \in BOOLEAN
      BY DEF Registered
    <3>3. /\ returns' \in 0..1
          /\ returns' > 0 \/ lost'
      <4>1. CASE ok
        BY <1>3, <3>1, <4>1
      <4>2. CASE ~ok
        <5>1. lost' BY <3>1, <4>2, Zenon
        <5>2. returns' = 0 BY <1>3, <3>1, <4>2
        <5>3. QED BY <5>1, <5>2
      <4>3. QED
        BY <4>1, <4>2
    <3>4. lost' \in BOOLEAN
      BY <3>1, <3>2, Zenon
    <3>5. TypeOK'
      <4>1. failed' \in BOOLEAN
        BY <2>1, Zenon
      <4>2. QED
        BY <1>0, <2>1, <2>3, <3>3, <3>4, <4>1 DEF TypeOK, GeneratorStates
    <3>6. OneThreadOfControl' /\ SomebodyAnswers'
      BY <1>3, <2>1, <2>3, <3>3 DEF OneThreadOfControl, SomebodyAnswers, Suspended
    <3>7. AnsweredInOrder' /\ DoneIsFinal' /\ OnlyYields(state, answers)'
      BY <2>3 DEF AnsweredInOrder, Ordered, Ready, Final, DoneIsFinal,
                  OnlyYields, Over
    <3>8. QED
      BY <2>1, <2>3, <3>5, <3>6, <3>7 DEF Inv, AssertionsHold, OutOfReach
  <2>4. QED
    BY <1>3, <2>2, <2>3 DEF AnswerCompleted
<1>4. CASE /\ q # <<>> /\ s = "start"
           /\ AnswerCompleted(q, a, "freed", bad \/ ~Frees(f))
  <2>1. Frees(f) /\ (bad \/ ~Frees(f)) = FALSE /\ returns = 0
    BY <1>4 DEF Frees, Ready, Over
  <2>2. QED
    BY <1>3, <1>4, <2>1
<1>5. CASE q # <<>> /\ s = "completed" /\ AnswerCompleted(q, a, f, bad)
  <2>1. f = "freed" /\ returns = 0
    BY <1>5 DEF Ready, Over
  <2>2. QED
    BY <1>3, <1>5, <2>1
<1>6. QED
  BY <1>1, <1>2, <1>4, <1>5 DEF ResumeNext

-----------------------------------------------------------------------------
(***************************************************************************)
(* The actions.                                                            *)
(***************************************************************************)

LEMMA InitInv ==
    ASSUME Init
    PROVE  Inv
<1>1. TypeOK
  <2>1. lost \in BOOLEAN /\ held \in BOOLEAN /\ failed \in BOOLEAN
    BY Zenon DEF Init
  <2>2. QED
    BY <2>1, EmptyOrdered, GeneratorAssumption
       DEF Init, TypeOK, Ordered, GeneratorStates, Suspended
<1>2. QED
  BY <1>1 DEF Init, Inv, AssertionsHold, OneThreadOfControl, AnsweredInOrder,
              DoneIsFinal, OnlyYields, SomebodyAnswers, OutOfReach, Suspended

\* What the actions use of the invariant.
LEMMA InvFacts ==
    ASSUME Inv, state # "collected"
    PROVE  /\ Ordered(answers, queue, requests)
           /\ Final(answers)
           /\ OnlyYields(state, answers)
           /\ returns \in 0..1
           /\ failed = FALSE
           /\ lost \in BOOLEAN /\ held \in BOOLEAN
<1>1. failed = FALSE
  BY Zenon DEF Inv, AssertionsHold, TypeOK
<1>2. returns \in 0..1
  BY DEF Inv, OneThreadOfControl, TypeOK
<1>3. QED
  BY <1>1, <1>2 DEF Inv, TypeOK, AnsweredInOrder, Ordered, DoneIsFinal, Final

LEMMA RequestInv ==
    ASSUME Inv, NEW t \in Types, Request(t)
    PROVE  Inv'
<1> DEFINE r == [id |-> requests + 1, type |-> t]
           q == Append(queue, r)
<1>1. /\ held /\ requests < MaxRequests /\ requests' = requests + 1
      /\ awaits' = awaits /\ awaited' = awaited /\ held' = held
  BY DEF Request
<1>2. state # "collected"
  BY <1>1 DEF Inv, OutOfReach
<1>3. requests \in Nat /\ requests' \in 0..MaxRequests
  BY <1>1, GeneratorAssumption DEF Inv, TypeOK
<1>4. Ordered(answers, q, requests')
  BY <1>1, <1>2, <1>3, InvFacts, RequestOrdered
<1>5. /\ q # <<>>
      /\ queue # <<>> => Head(q) = Head(queue)
  <2>1. queue \in Seq(Requests) /\ q \in Seq(Requests) /\ Len(q) = Len(queue) + 1
    <3>1. r \in Requests
      BY <1>1, <1>3, GeneratorAssumption DEF Requests
    <3>2. QED
      BY <3>1 DEF Inv, TypeOK
  <2>2. QED
    BY <2>1
<1>6. CASE state # "executing"
  <2>1. awaits = 0 /\ frame # "running"
    BY <1>6 DEF Inv, OneThreadOfControl, TypeOK
  <2>2. Ready(state, frame, q, answers)
    <3>1. /\ state \in GeneratorStates \ {"collected"}
          /\ frame \in {"suspended", "freed"}
          /\ frame = "freed" <=> state \in Over
      BY <1>2, <2>1 DEF Inv, TypeOK, OneThreadOfControl, Over
    <3>2. returns > 0 => /\ state = "awaiting_return"
                         /\ q # <<>>
                         /\ Head(q).type = "return"
      BY <1>5 DEF Inv, OneThreadOfControl
    <3>3. ~lost /\ state = "awaiting_return" => returns > 0
      BY DEF Inv, SomebodyAnswers
    <3>4. QED
      BY <1>2, <1>6, <3>1, <3>2, <3>3, InvFacts DEF Ready
  <2>3. ResumeNext(state, frame, q, answers, failed)
    BY <1>6 DEF Request
  <2>4. failed = FALSE /\ lost \in BOOLEAN /\ held' \in BOOLEAN
    BY <1>1, <1>2, InvFacts
  <2>5. awaits' = 0 /\ awaited' \in 0..MaxAwaits
    BY <1>1, <2>1 DEF Inv, TypeOK
  <2>6. QED
    BY <1>3, <1>4, <2>2, <2>3, <2>4, <2>5, ResumeStep
<1>7. CASE state = "executing"
  <2>1. /\ state' = state /\ frame' = frame /\ queue' = q /\ answers' = answers
        /\ failed' = failed /\ returns' = returns /\ lost' = lost
    BY <1>7 DEF Request, Rest
  <2>2. TypeOK'
    BY <1>1, <1>3, <1>4, <2>1 DEF Inv, TypeOK, Ordered
  <2>3. OneThreadOfControl'
    BY <1>1, <1>5, <1>7, <2>1 DEF Inv, OneThreadOfControl
  <2>4. AnsweredInOrder' /\ DoneIsFinal' /\ OnlyYields(state, answers)'
    BY <1>4, <2>1 DEF Inv, AnsweredInOrder, Ordered, DoneIsFinal, OnlyYields
  <2>5. SomebodyAnswers'
    BY <1>1, <1>7, <2>1 DEF Inv, SomebodyAnswers, Suspended
  <2>6. QED
    BY <1>7, <2>1, <2>2, <2>3, <2>4, <2>5 DEF Inv, AssertionsHold, OutOfReach
<1>8. QED
  BY <1>6, <1>7

\* What holds when the body runs.
LEMMA Running ==
    ASSUME Inv, frame = "running"
    PROVE  /\ state = "executing" /\ queue # <<>>
           /\ awaits = 0 /\ returns = 0
           /\ Head(queue) \in Requests
BY DEF Inv, TypeOK, OneThreadOfControl

LEMMA BodyYieldsInv ==
    ASSUME Inv, NEW s \in {"yield", "yield_star"}, BodyYields(s)
    PROVE  Inv'
<1> DEFINE x == [id |-> Head(queue).id, outcome |-> "yield"]
           a == Append(answers, x)
<1>1. /\ frame = "running"
      /\ ResumeNext(s, "suspended", Tail(queue), a, failed)
      /\ awaits' = awaits /\ requests' = requests
      /\ awaited' = awaited /\ held' = held
  BY DEF BodyYields
<1>2. /\ state = "executing" /\ queue # <<>> /\ awaits = 0 /\ returns = 0
      /\ Head(queue) \in Requests
  BY <1>1, Running
<1>3. x \in Answers /\ x.outcome = "yield" /\ answers \in Seq(Answers)
  BY <1>2 DEF Inv, TypeOK, Answers, Requests, Outcomes
<1>4. Ordered(a, Tail(queue), requests')
  BY <1>1, <1>2, InvFacts, AnswerOrdered DEF Outcomes
<1>5. state \notin Over /\ OnlyYields(state, answers)
  BY <1>2, InvFacts DEF Over
<1>6. Final(a)
  BY <1>2, <1>3, <1>5, InvFacts, AnswerFinal DEF OnlyYields
<1>7. OnlyYields(s, a)
  BY <1>3, <1>5, YieldOnlyYields
<1>8. Ready(s, "suspended", Tail(queue), a)
  BY <1>2, <1>6, <1>7 DEF Ready, GeneratorStates, Suspended, Over
<1>9. /\ requests' \in 0..MaxRequests /\ awaited' \in 0..MaxAwaits
      /\ awaits' = 0 /\ lost \in BOOLEAN /\ held' \in BOOLEAN
  BY <1>1, <1>2 DEF Inv, TypeOK
<1>10. failed = FALSE
  BY <1>2, InvFacts
<1>11. QED
  BY <1>1, <1>4, <1>8, <1>9, <1>10, ResumeStep

LEMMA BodyEndsInv ==
    ASSUME Inv, NEW o \in {"done", "error"}, BodyEnds(o)
    PROVE  Inv'
<1> DEFINE x == [id |-> Head(queue).id, outcome |-> o]
           a == Append(answers, x)
<1>1. /\ frame = "running"
      /\ ResumeNext("completed", "freed", Tail(queue), a, failed)
      /\ awaits' = awaits /\ requests' = requests
      /\ awaited' = awaited /\ held' = held
  BY DEF BodyEnds
<1>2. /\ state = "executing" /\ queue # <<>> /\ awaits = 0 /\ returns = 0
      /\ Head(queue) \in Requests
  BY <1>1, Running
<1>3. x \in Answers /\ x.outcome # "yield" /\ answers \in Seq(Answers)
  BY <1>2 DEF Inv, TypeOK, Answers, Requests, Outcomes
<1>4. Ordered(a, Tail(queue), requests')
  BY <1>1, <1>2, InvFacts, AnswerOrdered DEF Outcomes
<1>5. Final(a)
  BY <1>2, <1>3, InvFacts, AnswerFinal
<1>6. Ready("completed", "freed", Tail(queue), a)
  BY <1>2, <1>5 DEF Ready, GeneratorStates, Over, OnlyYields
<1>7. /\ requests' \in 0..MaxRequests /\ awaited' \in 0..MaxAwaits
      /\ awaits' = 0 /\ lost \in BOOLEAN /\ held' \in BOOLEAN
  BY <1>1, <1>2 DEF Inv, TypeOK
<1>8. failed = FALSE
  BY <1>2, InvFacts
<1>9. QED
  BY <1>1, <1>4, <1>6, <1>7, <1>8, ResumeStep

LEMMA AwaitSettlesInv ==
    ASSUME Inv, AwaitSettles
    PROVE  Inv'
<1>1. /\ awaits > 0 /\ awaits' = awaits - 1
      /\ ResumeNext(state, frame, queue, answers, failed \/ state # "executing")
      /\ requests' = requests /\ awaited' = awaited /\ held' = held
  BY DEF AwaitSettles
<1>2. /\ state = "executing" /\ queue # <<>> /\ awaits = 1 /\ returns = 0
      /\ frame = "suspended"
  BY <1>1 DEF Inv, TypeOK, OneThreadOfControl
<1>3. (failed \/ state # "executing") = FALSE
  BY <1>2, InvFacts
<1>4. Ready(state, frame, queue, answers)
  BY <1>2, InvFacts DEF Ready, GeneratorStates, Over
<1>5. /\ requests' \in 0..MaxRequests /\ awaited' \in 0..MaxAwaits
      /\ awaits' = 0 /\ lost \in BOOLEAN /\ held' \in BOOLEAN
  BY <1>1, <1>2 DEF Inv, TypeOK
<1>6. Ordered(answers, queue, requests')
  BY <1>1, <1>2, InvFacts
<1>7. QED
  BY <1>1, <1>3, <1>4, <1>5, <1>6, ResumeStep

LEMMA BodyAwaitsInv ==
    ASSUME Inv, BodyAwaits
    PROVE  Inv'
<1>1. /\ frame = "running" /\ frame' = "suspended"
      /\ awaited < MaxAwaits /\ awaited' = awaited + 1
      /\ state' = state /\ queue' = queue /\ returns' = returns
      /\ answers' = answers /\ requests' = requests
      /\ held' = held /\ failed' = failed
  BY DEF BodyAwaits
<1>2. /\ state = "executing" /\ queue # <<>> /\ awaits = 0 /\ returns = 0
  BY <1>1, Running
<1>3. PICK ok \in Registered : /\ awaits' = IF ok THEN awaits + 1 ELSE awaits
                               /\ lost' = (lost \/ ~ok)
  BY DEF BodyAwaits
<1>4. ok \in BOOLEAN
  BY DEF Registered
<1>5. lost' \in BOOLEAN /\ (ok \/ lost')
  BY <1>3, <1>4, Zenon
<1>6. awaits' \in 0..1 /\ (awaits' > 0 \/ lost')
  <2>1. CASE ok
    BY <1>2, <1>3, <2>1
  <2>2. CASE ~ok
    BY <1>2, <1>3, <1>5, <2>2
  <2>3. QED
    BY <2>1, <2>2
<1>7. TypeOK'
  BY <1>1, <1>5, <1>6, GeneratorAssumption DEF Inv, TypeOK
<1>8. OneThreadOfControl' /\ SomebodyAnswers'
  <2>1. OneThreadOfControl'
    <3>1. awaits' = 0 \/ awaits' = 1
      BY <1>6
    <3>2. /\ frame' = "suspended" /\ state' = "executing"
          /\ queue' # <<>> /\ returns' = 0
      BY <1>1, <1>2
    <3>3. QED
      BY <3>1, <3>2 DEF OneThreadOfControl
  <2>2. SomebodyAnswers'
    BY <1>1, <1>2, <1>6 DEF SomebodyAnswers, Suspended
  <2>3. QED
    BY <2>1, <2>2
<1>9. AnsweredInOrder' /\ DoneIsFinal' /\ OnlyYields(state, answers)'
  BY <1>1 DEF Inv, AnsweredInOrder, DoneIsFinal, OnlyYields
<1>10. QED
  BY <1>1, <1>7, <1>8, <1>9 DEF Inv, AssertionsHold, OutOfReach

LEMMA ReturnSettlesInv ==
    ASSUME Inv, NEW o \in {"done", "error"}, ReturnSettles(o)
    PROVE  Inv'
<1> DEFINE x == [id |-> Head(queue).id, outcome |-> o]
<1>1. /\ returns > 0 /\ returns' = returns - 1 /\ state' = "completed"
      /\ queue' = Tail(queue) /\ answers' = Append(answers, x)
      /\ frame' = frame /\ awaits' = awaits /\ requests' = requests
      /\ awaited' = awaited /\ lost' = lost /\ held' = held
  BY DEF ReturnSettles, Answer
<1>2. /\ state = "awaiting_return" /\ queue # <<>> /\ awaits = 0 /\ returns = 1
      /\ frame = "freed"
  BY <1>1 DEF Inv, TypeOK, OneThreadOfControl
<1>3. failed' = FALSE
  BY <1>2, InvFacts DEF ReturnSettles
<1>4. Ordered(answers', queue', requests')
  BY <1>1, <1>2, InvFacts, AnswerOrdered DEF Outcomes
<1>5. x \in Answers /\ x.outcome # "yield" /\ answers \in Seq(Answers)
  <2>1. Head(queue) \in Requests
    BY <1>2 DEF Inv, TypeOK
  <2>2. QED
    BY <2>1 DEF Inv, TypeOK, Answers, Requests, Outcomes
<1>6. Final(answers')
  BY <1>1, <1>2, <1>5, InvFacts, AnswerFinal
<1>7. TypeOK'
  <2>1. failed' \in BOOLEAN
    BY <1>3, Zenon
  <2>2. QED
    BY <1>1, <1>2, <1>4, <2>1 DEF Inv, TypeOK, Ordered, GeneratorStates
<1>8. OneThreadOfControl' /\ SomebodyAnswers'
  BY <1>1, <1>2 DEF OneThreadOfControl, SomebodyAnswers, Suspended
<1>9. AnsweredInOrder' /\ DoneIsFinal' /\ OnlyYields(state, answers)'
  BY <1>1, <1>4, <1>6 DEF AnsweredInOrder, Ordered, Final, DoneIsFinal,
                          OnlyYields, Over
<1>10. QED
  BY <1>1, <1>3, <1>7, <1>8, <1>9 DEF Inv, AssertionsHold, OutOfReach

LEMMA CollectInv ==
    ASSUME Inv, Collect
    PROVE  Inv'
<1>1. /\ ~held /\ awaits = 0 /\ returns = 0 /\ frame # "running"
      /\ state # "collected" /\ state' = "collected" /\ queue' = <<>>
      /\ awaits' = awaits /\ returns' = returns /\ answers' = answers
      /\ requests' = requests /\ awaited' = awaited /\ lost' = lost
      /\ held' = held
  BY DEF Collect
<1>2. frame' = "freed" /\ failed' = FALSE
  BY <1>1, InvFacts DEF Collect, Frees, Inv, TypeOK, OneThreadOfControl
<1>3. TypeOK'
  <2>1. failed' \in BOOLEAN
    BY <1>2, Zenon
  <2>2. <<>> \in Seq(Requests)
    OBVIOUS
  <2>3. QED
    BY <1>1, <1>2, <2>1, <2>2 DEF Inv, TypeOK, GeneratorStates
<1>4. QED
  BY <1>1, <1>2, <1>3 DEF Inv, AssertionsHold, OneThreadOfControl,
                          AnsweredInOrder, DoneIsFinal, OnlyYields, Over,
                          SomebodyAnswers, Suspended, OutOfReach

LEMMA StepInv ==
    ASSUME Inv, [Next]_vars
    PROVE  Inv'
<1>1. CASE \E t \in Types : Request(t)
  BY <1>1, RequestInv
<1>2. CASE \E s \in {"yield", "yield_star"} : BodyYields(s)
  BY <1>2, BodyYieldsInv
<1>3. CASE \E o \in {"done", "error"} : BodyEnds(o) \/ ReturnSettles(o)
  BY <1>3, BodyEndsInv, ReturnSettlesInv
<1>4. CASE BodyAwaits
  BY <1>4, BodyAwaitsInv
<1>5. CASE AwaitSettles
  BY <1>5, AwaitSettlesInv
<1>6. CASE Drop
  BY <1>6 DEF Drop, Inv, TypeOK, AssertionsHold, OneThreadOfControl,
              AnsweredInOrder, DoneIsFinal, OnlyYields, SomebodyAnswers, OutOfReach
<1>7. CASE Collect
  BY <1>7, CollectInv
<1>8. CASE UNCHANGED vars
  BY <1>8 DEF vars, Inv, TypeOK, AssertionsHold, OneThreadOfControl,
              AnsweredInOrder, DoneIsFinal, OnlyYields, SomebodyAnswers, OutOfReach
<1>9. QED
  BY <1>1, <1>2, <1>3, <1>4, <1>5, <1>6, <1>7, <1>8 DEF Next

LEMMA Invariance == Spec => []Inv
<1>1. Init => Inv
  BY InitInv
<1>2. Inv /\ [Next]_vars => Inv'
  BY StepInv
<1>3. QED
  BY <1>1, <1>2, PTL DEF Spec

-----------------------------------------------------------------------------
\* JSAsyncGeneratorData keeps its types.
THEOREM TypeCorrect == Spec => []TypeOK
<1>1. Inv => TypeOK
  BY DEF Inv
<1>2. QED
  BY <1>1, Invariance, PTL

\* The assertions of js_async_generator_resolve_function and async_func_free
\* hold, and js_async_generator_resolve_or_reject finds a request.
THEOREM NoAssertionFails == Spec => []AssertionsHold
<1>1. Inv => AssertionsHold
  BY DEF Inv
<1>2. QED
  BY <1>1, Invariance, PTL

\* The function runs, or one continuation waits, never two of them; the frame
\* that async_func_free frees is gone exactly when the generator is over.
THEOREM SingleControl == Spec => []OneThreadOfControl
<1>1. Inv => OneThreadOfControl
  BY DEF Inv
<1>2. QED
  BY <1>1, Invariance, PTL

\* js_async_generator_resume_next leaves no request without somebody to answer
\* it, but for a completed generator and a continuation that was lost.
THEOREM RequestsRemembered == Spec => []NobodyForgotten
<1>1. Inv => NobodyForgotten
  BY DEF Inv, NobodyForgotten, SomebodyAnswers, TypeOK, GeneratorStates
<1>2. QED
  BY <1>1, Invariance, PTL

\* The queue is a queue: requests are answered once and in their order.
THEOREM RequestOrder == Spec => []AnsweredInOrder
<1>1. Inv => AnsweredInOrder
  BY DEF Inv
<1>2. QED
  BY <1>1, Invariance, PTL

\* No yield is answered after done or an error, also when the answers come
\* from js_async_generator_resolve_function of a return.
THEOREM NothingAfterDone == Spec => []DoneIsFinal
<1>1. Inv => DoneIsFinal
  BY DEF Inv
<1>2. QED
  BY <1>1, Invariance, PTL

=============================================================================
