------------------------- MODULE AtomicsWaitProofs -------------------------
(***************************************************************************)
(* Proofs about AtomicsWait, for any threads, cells and values.            *)
(***************************************************************************)
EXTENDS AtomicsWait, TLAPS

\* The mutex is held between the comparison and the sleep.
MutexInv == \A t \in Threads : mutex = t <=> pc[t] = "equal"

\* A thread that has compared is to be served like one that waits: the cell
\* may be written before it is in the list.
ComparedInv ==
    \A t \in Threads :
        pc[t] = "equal" =>
            memory[args[t].cell] = args[t].expected \/ NotifierComes(t)

\* The next place is behind all others.
PlaceInv == \A t \in listed : place[t] <= arrivals

\* A thread that is signalled was counted, and its call has no result yet.
ToldInv ==
    \A t \in Threads :
        /\ pc[t] = "asleep" /\ t \in signalled => t \in told
        /\ pc[t] = "waking" => wake[t] \in Reasons
        /\ pc[t] = "waking" /\ wake[t] = "signal" => t \in told
        /\ pc[t] \in {"locking", "equal", "asleep", "waking"} => result[t] = "none"

Inv ==
    /\ TypeOK
    /\ MutexInv
    /\ PlaceInv
    /\ ListHoldsWaiters
    /\ ComparedInv
    /\ NoLostWakeup
    /\ ToldInv
    /\ OkMeansNotified

-----------------------------------------------------------------------------
\* There are arguments for the threads to begin with.
LEMMA ArgsExist == (CHOOSE a \in Args : TRUE) \in Args
<1>1. PICK c \in Cells : TRUE
  BY AtomicsAssumption
<1>2. [cell |-> c, expected |-> InitialValue, finite |-> TRUE, all |-> TRUE] \in Args
  BY AtomicsAssumption DEF Args
<1>3. QED
  BY <1>2

LEMMA InitInv ==
    ASSUME Init
    PROVE  Inv
<1>1. TypeOK
  BY AtomicsAssumption, ArgsExist DEF Init, TypeOK, Places
<1>2. MutexInv /\ PlaceInv /\ ComparedInv
  BY AtomicsAssumption DEF Init, MutexInv, PlaceInv, ComparedInv
<1>3. ListHoldsWaiters /\ NoLostWakeup /\ ToldInv /\ OkMeansNotified
  BY DEF Init, ListHoldsWaiters, NoLostWakeup, ToldInv, OkMeansNotified
<1>4. QED
  BY <1>1, <1>2, <1>3 DEF Inv

\* A notifier that is to come still comes if its own step is not this one.
LEMMA NotifierStays ==
    ASSUME TypeOK, NEW t \in Threads, NEW u \in Threads, NotifierComes(u),
           pc[t] # "notifying",
           \A w \in Threads \ {t} : pc'[w] = pc[w] /\ args'[w] = args[w],
           args'[u].cell = args[u].cell
    PROVE  NotifierComes(u)'
BY DEF NotifierComes, TypeOK

LEMMA WaitInv ==
    ASSUME Inv, NEW t \in Threads, NEW a \in Args, Wait(t, a)
    PROVE  Inv'
<1> USE DEF Wait, CallBegins, waiters
<1>1. TypeOK'
  BY AtomicsAssumption DEF Inv, TypeOK, Places
<1>2. MutexInv' /\ PlaceInv'
  BY DEF Inv, TypeOK, MutexInv, PlaceInv
<1>3. t \notin listed
  BY DEF Inv, ListHoldsWaiters
<1>4. ListHoldsWaiters'
  BY <1>3 DEF Inv, TypeOK, ListHoldsWaiters
<1>5. \A w \in Threads \ {t} : pc'[w] = pc[w] /\ args'[w] = args[w]
  BY DEF Inv, TypeOK
<1>6. ComparedInv' /\ NoLostWakeup'
  <2>1. \A u \in Threads \ {t} : NotifierComes(u) => NotifierComes(u)'
    BY <1>5, NotifierStays DEF Inv
  <2>2. pc'[t] = "locking"
    BY DEF Inv, TypeOK
  <2>3. QED
    BY <1>3, <1>5, <2>1, <2>2 DEF Inv, TypeOK, ComparedInv, NoLostWakeup
<1>7. ToldInv' /\ OkMeansNotified'
  BY DEF Inv, TypeOK, ToldInv, OkMeansNotified
<1>8. QED
  BY <1>1, <1>2, <1>4, <1>6, <1>7 DEF Inv

LEMMA CompareInv ==
    ASSUME Inv, NEW t \in Threads, Compare(t)
    PROVE  Inv'
<1> USE DEF Compare, waiters
<1>1. TypeOK'
  BY DEF Inv, TypeOK, Places
<1>2. MutexInv' /\ PlaceInv'
  BY AtomicsAssumption DEF Inv, TypeOK, MutexInv, PlaceInv
<1>3. ListHoldsWaiters'
  BY DEF Inv, TypeOK, ListHoldsWaiters
<1>4. \A u \in Threads : NotifierComes(u) => NotifierComes(u)'
  BY NotifierStays DEF Inv, TypeOK
<1>5. ComparedInv' /\ NoLostWakeup'
  BY <1>4 DEF Inv, TypeOK, ComparedInv, NoLostWakeup
<1>6. ToldInv' /\ OkMeansNotified'
  BY DEF Inv, TypeOK, ToldInv, OkMeansNotified
<1>7. QED
  BY <1>1, <1>2, <1>3, <1>5, <1>6 DEF Inv

LEMMA SleepInv ==
    ASSUME Inv, NEW t \in Threads, Sleep(t)
    PROVE  Inv'
<1> USE DEF Sleep, Join
<1>1. TypeOK'
  BY DEF Inv, TypeOK, Places
<1>2. MutexInv' /\ PlaceInv'
  BY AtomicsAssumption DEF Inv, TypeOK, MutexInv, PlaceInv
<1>3. ListHoldsWaiters'
  BY DEF Inv, TypeOK, PlaceInv, ListHoldsWaiters
<1>4. \A u \in Threads : NotifierComes(u) => NotifierComes(u)'
  BY NotifierStays DEF Inv, TypeOK
<1>5. ComparedInv' /\ NoLostWakeup'
  BY <1>4 DEF Inv, TypeOK, ComparedInv, NoLostWakeup
<1>6. ToldInv' /\ OkMeansNotified'
  BY DEF Inv, TypeOK, ToldInv, OkMeansNotified
<1>7. QED
  BY <1>1, <1>2, <1>3, <1>5, <1>6 DEF Inv

LEMMA WakeUpInv ==
    ASSUME Inv, NEW t \in Threads, NEW r \in Reasons, WakeUp(t, r)
    PROVE  Inv'
<1> USE DEF WakeUp, waiters
<1>1. TypeOK'
  BY DEF Inv, TypeOK, Places
<1>2. MutexInv' /\ PlaceInv'
  BY DEF Inv, TypeOK, MutexInv, PlaceInv
<1>3. ListHoldsWaiters'
  BY DEF Inv, TypeOK, ListHoldsWaiters
<1>4. \A u \in Threads : NotifierComes(u) => NotifierComes(u)'
  BY NotifierStays DEF Inv, TypeOK
<1>5. ComparedInv' /\ NoLostWakeup'
  BY <1>4 DEF Inv, TypeOK, ComparedInv, NoLostWakeup
<1>6. ToldInv' /\ OkMeansNotified'
  BY DEF Inv, TypeOK, ToldInv, OkMeansNotified
<1>7. QED
  BY <1>1, <1>2, <1>3, <1>5, <1>6 DEF Inv

LEMMA WaitReturnsInv ==
    ASSUME Inv, NEW t \in Threads, WaitReturns(t)
    PROVE  Inv'
<1> USE DEF WaitReturns, Leave
<1>1. TypeOK'
  BY DEF Inv, TypeOK, Places
<1>2. listed' = listed \ {t}
  BY DEF Inv, ListHoldsWaiters
<1>3. MutexInv' /\ PlaceInv'
  BY <1>2 DEF Inv, TypeOK, MutexInv, PlaceInv
<1>4. ListHoldsWaiters'
  BY <1>2 DEF Inv, TypeOK, ListHoldsWaiters
<1>5. \A u \in Threads : NotifierComes(u) => NotifierComes(u)'
  BY NotifierStays DEF Inv, TypeOK
<1>6. ComparedInv' /\ NoLostWakeup'
  BY <1>2, <1>5 DEF Inv, TypeOK, ComparedInv, NoLostWakeup
<1>7. ToldInv' /\ OkMeansNotified'
  BY DEF Inv, TypeOK, ToldInv, OkMeansNotified, Reasons
<1>8. QED
  BY <1>1, <1>3, <1>4, <1>6, <1>7 DEF Inv

\* A write and its notification to come; or a notification alone.
LEMMA CallNotifyInv ==
    ASSUME Inv, NEW t \in Threads, NEW c \in Cells, NEW all \in BOOLEAN,
           CallNotify(t, c, all),
           memory' \in [Cells -> Values],
           \A d \in Cells : memory'[d] # memory[d] => d = c /\ all
    PROVE  Inv'
<1> USE DEF CallNotify, CallBegins, waiters
<1>1. args' \in [Threads -> Args]
      /\ args'[t].cell = c /\ args'[t].all = all
      /\ \A w \in Threads \ {t} : args'[w] = args[w]
  BY DEF Inv, TypeOK, Args
<1>2. TypeOK'
  BY <1>1, AtomicsAssumption DEF Inv, TypeOK, Places
<1>3. MutexInv' /\ PlaceInv'
  BY DEF Inv, TypeOK, MutexInv, PlaceInv
<1>4. t \notin listed
  BY DEF Inv, ListHoldsWaiters
<1>5. ListHoldsWaiters'
  BY <1>4 DEF Inv, TypeOK, ListHoldsWaiters
<1>6. pc'[t] = "notifying" /\ \A w \in Threads \ {t} : pc'[w] = pc[w]
  BY DEF Inv, TypeOK
<1>7. ASSUME NEW u \in Threads \ {t},
             memory[args[u].cell] = args[u].expected \/ NotifierComes(u)
      PROVE  memory'[args'[u].cell] = args'[u].expected \/ NotifierComes(u)'
  <2>1. args'[u] = args[u] /\ args[u].cell \in Cells
    BY <1>1 DEF Inv, TypeOK, Args
  <2>2. CASE NotifierComes(u)
    BY <1>1, <1>6, <2>1, <2>2, NotifierStays DEF Inv
  <2>3. CASE memory[args[u].cell] = args[u].expected
    <3>1. CASE memory'[args[u].cell] = memory[args[u].cell]
      BY <2>1, <2>3, <3>1
    <3>2. CASE memory'[args[u].cell] # memory[args[u].cell]
      <4>1. args[u].cell = c /\ all
        BY <2>1, <3>2
      <4>2. QED
        BY <1>1, <1>6, <2>1, <4>1 DEF NotifierComes
    <3>3. QED
      BY <3>1, <3>2
  <2>4. QED
    BY <1>7, <2>2, <2>3
<1>8. ComparedInv' /\ NoLostWakeup'
  BY <1>4, <1>6, <1>7 DEF Inv, TypeOK, ComparedInv, NoLostWakeup
<1>9. ToldInv' /\ OkMeansNotified'
  BY DEF Inv, TypeOK, ToldInv, OkMeansNotified
<1>10. QED
  BY <1>2, <1>3, <1>5, <1>8, <1>9 DEF Inv

LEMMA NotifyWakesInv ==
    ASSUME Inv, NEW t \in Threads, NotifyWakes(t)
    PROVE  Inv'
<1> USE DEF NotifyWakes
<1>1. Taken(t) \subseteq listed /\ Taken(t) \subseteq Threads
  BY DEF Inv, TypeOK, Taken, Matching
<1>2. TypeOK'
  BY <1>1 DEF Inv, TypeOK, Places
<1>3. MutexInv' /\ PlaceInv'
  BY DEF Inv, TypeOK, MutexInv, PlaceInv
<1>4. ListHoldsWaiters'
  BY <1>1 DEF Inv, TypeOK, ListHoldsWaiters
<1>5. ComparedInv'
  <2>1. \A u \in Threads : pc'[u] # "equal"
    BY AtomicsAssumption DEF Inv, TypeOK, MutexInv
  <2>2. QED
    BY <2>1 DEF ComparedInv
<1>6. NoLostWakeup'
  <2> SUFFICES ASSUME NEW u \in listed',
                      memory'[args'[u].cell] # args'[u].expected
               PROVE  NotifierComes(u)'
    BY DEF NoLostWakeup
  <2>1. u \in listed /\ u \notin Taken(t) /\ args' = args /\ memory' = memory
    OBVIOUS
  <2>2. PICK w \in Threads : /\ pc[w] = "notifying"
                             /\ args[w].cell = args[u].cell
                             /\ args[w].all
    BY <2>1 DEF Inv, NoLostWakeup, NotifierComes
  <2>3. w # t
    BY <2>1, <2>2 DEF Taken, Matching
  <2>4. pc'[w] = "notifying"
    BY <2>2, <2>3 DEF Inv, TypeOK
  <2>5. QED
    BY <2>1, <2>2, <2>4 DEF NotifierComes
<1>7. ToldInv' /\ OkMeansNotified'
  BY <1>1 DEF Inv, TypeOK, ToldInv, OkMeansNotified
<1>8. QED
  BY <1>2, <1>3, <1>4, <1>5, <1>6, <1>7 DEF Inv

LEMMA StepInv ==
    ASSUME Inv, [Next]_vars
    PROVE  Inv'
<1>1. CASE UNCHANGED vars
  BY <1>1 DEF vars, waiters, Inv, TypeOK, MutexInv, PlaceInv, ListHoldsWaiters,
              ComparedInv, NoLostWakeup, NotifierComes, ToldInv, OkMeansNotified
<1>2. ASSUME NEW t \in Threads, NEW a \in Args, Wait(t, a) PROVE Inv'
  BY <1>2, WaitInv
<1>3. ASSUME NEW t \in Threads, NEW c \in Cells, NEW v \in Values, Store(t, c, v)
      PROVE  Inv'
  <2>1. CallNotify(t, c, TRUE) /\ memory' = [memory EXCEPT ![c] = v]
    BY <1>3 DEF Store
  <2>2. /\ memory' \in [Cells -> Values]
        /\ \A d \in Cells : memory'[d] # memory[d] => d = c
    BY <2>1 DEF Inv, TypeOK
  <2>3. QED
    BY <2>1, <2>2, CallNotifyInv
<1>4. ASSUME NEW t \in Threads, NEW c \in Cells, NEW all \in BOOLEAN, Notify(t, c, all)
      PROVE  Inv'
  <2>1. CallNotify(t, c, all) /\ memory' = memory
    BY <1>4 DEF Notify
  <2>2. memory' \in [Cells -> Values]
    BY <2>1 DEF Inv, TypeOK
  <2>3. QED
    BY <2>1, <2>2, CallNotifyInv
<1>5. ASSUME NEW t \in Threads, Proceed(t) PROVE Inv'
  BY <1>5, CompareInv, SleepInv, WakeUpInv, WaitReturnsInv, NotifyWakesInv
     DEF Proceed
<1>6. ASSUME NEW t \in Threads, WakeUp(t, "spurious") PROVE Inv'
  BY <1>6, WakeUpInv DEF Reasons
<1>7. QED
  BY <1>1, <1>2, <1>3, <1>4, <1>5, <1>6 DEF Next

LEMMA Invariance == Spec => []Inv
<1>1. Init => Inv
  BY InitInv
<1>2. Inv /\ [Next]_vars => Inv'
  BY StepInv
<1>3. QED
  BY <1>1, <1>2, PTL DEF Spec

-----------------------------------------------------------------------------
\* The threads, the memory and the waiter list keep their types.
THEOREM TypeCorrect == Spec => []TypeOK
<1>1. Inv => TypeOK
  BY DEF Inv
<1>2. QED
  BY <1>1, Invariance, PTL

\* js_atomics_waiter_list never holds a waiter of a call that has returned, and
\* a sleeper that is not in it has been signalled.
THEOREM WaitersOnList == Spec => []ListHoldsWaiters
<1>1. Inv => ListHoldsWaiters
  BY DEF Inv
<1>2. QED
  BY <1>1, Invariance, PTL

\* js_atomics_wait, which compares under the mutex, misses no notification that
\* follows a write, although the write itself takes no mutex.
THEOREM WakeupsArrive == Spec => []NoLostWakeup
<1>1. Inv => NoLostWakeup
  BY DEF Inv
<1>2. QED
  BY <1>1, Invariance, PTL

\* js_atomics_wait returns "ok" only after a notify that counted the thread, or
\* after a spurious wake-up.
THEOREM OkIsDeserved == Spec => []OkMeansNotified
<1>1. Inv => OkMeansNotified
  BY DEF Inv
<1>2. QED
  BY <1>1, Invariance, PTL

=============================================================================
