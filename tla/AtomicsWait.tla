---------------------------- MODULE AtomicsWait ----------------------------
(***************************************************************************)
(* Atomics.wait and Atomics.notify of threads that share memory: the       *)
(* process-wide mutex, the list of waiters, which live on the stacks of    *)
(* the waiting threads, and one condition variable for each.               *)
(*                                                                         *)
(* Memory is written without the mutex.  Scripts follow the usual idiom: a *)
(* thread that writes a cell notifies all its waiters afterwards; it may   *)
(* notify without a write too.  What happens between taking and giving     *)
(* back the mutex is one step where no other thread can see the            *)
(* difference: only the comparison of wait is a step of its own, because   *)
(* memory may be written before the thread sleeps.                         *)
(***************************************************************************)
EXTENDS Naturals

CONSTANTS
    Threads,
    CanBlock,        \* threads with JSRuntime.can_block: the workers
    Cells,           \* elements of shared arrays
    Values,
    InitialValue,
    NoThread,        \* owner of a free mutex
    MaxCalls         \* bound: calls by all threads

ASSUME AtomicsAssumption ==
    /\ CanBlock \subseteq Threads
    /\ InitialValue \in Values
    /\ NoThread \notin Threads
    /\ Cells # {}
    /\ MaxCalls \in Nat

VARIABLES
    memory,     \* the cells
    mutex,      \* owner of js_atomics_mutex
    listed,     \* threads with a waiter in js_atomics_waiter_list
    place,      \* where in the list: waiters join it at its end
    arrivals,   \* history: waiters that have joined the list
    linked,     \* threads with JSAtomicsWaiter.linked
    pc,         \* where each thread is
    args,       \* arguments of its call
    signalled,  \* threads whose condition variable was signalled
    wake,       \* why pthread_cond_wait returned
    told,       \* history: threads that a notify counted
    result,     \* of the last Atomics.wait
    calls       \* history: calls so far

waiters == <<listed, place, arrivals, linked>>
vars == <<memory, mutex, waiters, pc, args, signalled, wake, told, result, calls>>

(***************************************************************************)
(* cell: the address.  expected: what wait compares with.  finite: wait    *)
(* has a time limit.  all: notify has no count, otherwise the count is 1.  *)
(***************************************************************************)
Args == [cell : Cells, expected : Values, finite : BOOLEAN, all : BOOLEAN]

Places == {"script", "locking", "equal", "asleep", "waking", "notifying"}

\* Between calls of the script.
CallBegins(t) ==
    /\ pc[t] = "script"
    /\ calls < MaxCalls
    /\ calls' = calls + 1

-----------------------------------------------------------------------------
(***************************************************************************)
(* js_atomics_wait                                                         *)
(***************************************************************************)

\* The arguments are read; a thread that must not block gets an exception.
Wait(t, a) ==
    /\ CallBegins(t)
    /\ t \in CanBlock
    /\ args' = [args EXCEPT ![t] = a]
    /\ pc' = [pc EXCEPT ![t] = "locking"]
    /\ told' = told \ {t}
    /\ result' = [result EXCEPT ![t] = "none"]
    /\ wake' = [wake EXCEPT ![t] = "none"]
    /\ UNCHANGED <<memory, mutex, waiters, signalled>>

\* Faulty variant of Compare: the comparison comes before the lock.
CompareUnlocked(t) ==
    /\ pc[t] = "locking"
    /\ IF memory[args[t].cell] = args[t].expected
       THEN /\ pc' = [pc EXCEPT ![t] = "equal"]
            /\ UNCHANGED <<mutex, result>>
       ELSE /\ pc' = [pc EXCEPT ![t] = "script"]
            /\ result' = [result EXCEPT ![t] = "not-equal"]
            /\ UNCHANGED mutex
    /\ UNCHANGED <<memory, waiters, args, signalled, wake, told, calls>>

\* The mutex is taken and the cell compared.
Compare(t) ==
    /\ pc[t] = "locking"
    /\ mutex = NoThread
    /\ IF memory[args[t].cell] = args[t].expected
       THEN /\ mutex' = t
            /\ pc' = [pc EXCEPT ![t] = "equal"]
            /\ UNCHANGED result
       ELSE /\ pc' = [pc EXCEPT ![t] = "script"]
            /\ result' = [result EXCEPT ![t] = "not-equal"]
            /\ UNCHANGED mutex
    /\ UNCHANGED <<memory, waiters, args, signalled, wake, told, calls>>

\* list_add_tail of the new waiter.
Join(t) ==
    /\ listed' = listed \cup {t}
    /\ linked' = linked \cup {t}
    /\ arrivals' = arrivals + 1
    /\ place' = [place EXCEPT ![t] = arrivals + 1]

\* The waiter joins the list and the thread sleeps, which gives the mutex back.
Sleep(t) ==
    /\ pc[t] = "equal"
    /\ Join(t)
    /\ signalled' = signalled \ {t}
    /\ mutex' = NoThread
    /\ pc' = [pc EXCEPT ![t] = "asleep"]
    /\ UNCHANGED <<memory, args, wake, told, result, calls>>

\* pthread_cond_wait or pthread_cond_timedwait ends, for a reason; the system
\* may also wake a thread for none.
WakeUp(t, reason) ==
    /\ pc[t] = "asleep"
    /\ \/ reason = "signal" /\ t \in signalled
       \/ reason = "timeout" /\ args[t].finite
       \/ reason = "spurious"
    /\ pc' = [pc EXCEPT ![t] = "waking"]
    /\ wake' = [wake EXCEPT ![t] = reason]
    /\ UNCHANGED <<memory, mutex, waiters, args, signalled, told, result, calls>>

\* list_del unless a notify has unlinked the waiter; the waiter goes.
Leave(t) ==
    /\ listed' = IF t \in linked THEN listed \ {t} ELSE listed
    /\ linked' = linked \ {t}
    /\ place' = [place EXCEPT ![t] = 0]
    /\ UNCHANGED arrivals

\* Faulty variant of WaitReturns: a waiter that timed out stays in the list.
WaitReturnsLinked(t) ==
    /\ pc[t] = "waking"
    /\ mutex = NoThread
    /\ pc' = [pc EXCEPT ![t] = "script"]
    /\ result' = [result EXCEPT ![t] = IF wake[t] = "timeout" THEN "timed-out" ELSE "ok"]
    /\ UNCHANGED <<memory, mutex, waiters, args, signalled, wake, told, calls>>

\* The thread has the mutex again, leaves the list if no notify took it out,
\* and returns.
WaitReturns(t) ==
    /\ pc[t] = "waking"
    /\ mutex = NoThread
    /\ Leave(t)
    /\ pc' = [pc EXCEPT ![t] = "script"]
    /\ result' = [result EXCEPT ![t] = IF wake[t] = "timeout" THEN "timed-out" ELSE "ok"]
    /\ UNCHANGED <<memory, mutex, args, signalled, wake, told, calls>>

-----------------------------------------------------------------------------
(***************************************************************************)
(* Atomics.store and the like, js_atomics_notify                           *)
(***************************************************************************)
CallNotify(t, c, all) ==
    /\ CallBegins(t)
    /\ args' = [args EXCEPT ![t].cell = c, ![t].all = all]
    /\ pc' = [pc EXCEPT ![t] = "notifying"]
    /\ UNCHANGED <<mutex, waiters, signalled, wake, told, result>>

\* A write, which the thread lets a notification of all waiters follow.
Store(t, c, v) ==
    /\ CallNotify(t, c, TRUE)
    /\ memory' = [memory EXCEPT ![c] = v]

\* A notification without a write.
Notify(t, c, all) ==
    /\ CallNotify(t, c, all)
    /\ UNCHANGED memory

\* The waiters of t's cell.
Matching(t) == {u \in listed : args[u].cell = args[t].cell}

\* Those that notify takes from the list: all, or the first.
Taken(t) ==
    IF args[t].all THEN Matching(t)
    ELSE {u \in Matching(t) : \A w \in Matching(t) : place[u] <= place[w]}

\* Faulty variant of NotifyWakes: one signal, whoever it was meant for.
NotifyOne(t) ==
    /\ pc[t] = "notifying"
    /\ mutex = NoThread
    /\ listed' = listed \ Taken(t)
    /\ linked' = linked \ Taken(t)
    /\ signalled' = signalled \cup
          (IF Taken(t) = {} THEN {} ELSE {CHOOSE u \in Taken(t) : TRUE})
    /\ told' = told \cup Taken(t)
    /\ pc' = [pc EXCEPT ![t] = "script"]
    /\ UNCHANGED <<memory, mutex, place, arrivals, args, wake, result, calls>>

\* Faulty variant of NotifyWakes: all waiters of the cell are signalled, and only
\* those that the count allows are taken.
NotifyTooMany(t) ==
    /\ pc[t] = "notifying"
    /\ mutex = NoThread
    /\ listed' = listed \ Taken(t)
    /\ linked' = linked \ Taken(t)
    /\ signalled' = signalled \cup Matching(t)
    /\ told' = told \cup Taken(t)
    /\ pc' = [pc EXCEPT ![t] = "script"]
    /\ UNCHANGED <<memory, mutex, place, arrivals, args, wake, result, calls>>

\* The critical section of js_atomics_notify.
NotifyWakes(t) ==
    /\ pc[t] = "notifying"
    /\ mutex = NoThread
    /\ listed' = listed \ Taken(t)
    /\ linked' = linked \ Taken(t)
    /\ signalled' = signalled \cup Taken(t)
    /\ told' = told \cup Taken(t)
    /\ pc' = [pc EXCEPT ![t] = "script"]
    /\ UNCHANGED <<memory, mutex, place, arrivals, args, wake, result, calls>>

-----------------------------------------------------------------------------
Init ==
    /\ memory = [c \in Cells |-> InitialValue]
    /\ mutex = NoThread
    /\ listed = {} /\ linked = {}
    /\ place = [t \in Threads |-> 0]
    /\ arrivals = 0
    /\ pc = [t \in Threads |-> "script"]
    /\ args = [t \in Threads |-> CHOOSE a \in Args : TRUE]
    /\ signalled = {}
    /\ wake = [t \in Threads |-> "none"]
    /\ told = {}
    /\ result = [t \in Threads |-> "none"]
    /\ calls = 0

Reasons == {"signal", "timeout", "spurious"}

\* What a thread does without being asked by a script.
Proceed(t) ==
    \/ Compare(t)
    \/ Sleep(t)
    \/ \E r \in Reasons \ {"spurious"} : WakeUp(t, r)
    \/ WaitReturns(t)
    \/ NotifyWakes(t)

Next ==
    \E t \in Threads :
        \/ \E a \in Args : ~a.all /\ Wait(t, a)
        \/ \E c \in Cells, v \in Values : Store(t, c, v)
        \/ \E c \in Cells, all \in BOOLEAN : Notify(t, c, all)
        \/ WakeUp(t, "spurious")
        \/ Proceed(t)

Spec == Init /\ [][Next]_vars

\* A thread is scheduled, and gets a mutex that stays free; deadlines come.
FairSpec == Spec /\ \A t \in Threads : WF_vars(Proceed(t))

-----------------------------------------------------------------------------
\* Type invariant of the threads, the memory and the waiter list.
TypeOK ==
    /\ memory \in [Cells -> Values]
    /\ mutex \in Threads \cup {NoThread}
    /\ listed \subseteq Threads
    /\ place \in [Threads -> Nat]
    /\ arrivals \in Nat
    /\ linked \subseteq Threads
    /\ pc \in [Threads -> Places]
    /\ args \in [Threads -> Args]
    /\ signalled \subseteq Threads
    /\ wake \in [Threads -> Reasons \cup {"none"}]
    /\ told \subseteq Threads
    /\ result \in [Threads -> {"none", "ok", "timed-out", "not-equal"}]
    /\ calls \in 0..MaxCalls

\* The list holds waiters of threads that are still inside Atomics.wait, for a
\* waiter is a variable of the stack of js_atomics_wait; each has a place of
\* its own and a flag that is right.  One that is asleep without being in the
\* list was notified and is signalled: time limit and notify may meet in any
\* order.
ListHoldsWaiters ==
    /\ \A t \in listed : pc[t] \in {"asleep", "waking"}
    /\ \A t, u \in listed : place[t] = place[u] => t = u
    /\ linked = listed
    /\ \A t \in Threads : pc[t] = "asleep" /\ t \notin listed => t \in signalled

\* Somebody is about to notify all waiters of t's cell.
NotifierComes(t) ==
    \E u \in Threads : /\ pc[u] = "notifying"
                       /\ args[u].cell = args[t].cell
                       /\ args[u].all

\* No wake-up is lost: when the cell of a waiter that nobody has notified no
\* longer has the expected value, the thread that wrote it has yet to notify.
\* The comparison and the entry into the list are one for the notifiers.
NoLostWakeup ==
    \A t \in listed :
        memory[args[t].cell] # args[t].expected => NotifierComes(t)

\* js_atomics_wait returns "ok" to a thread that js_atomics_notify has taken from
\* the list and counted: with several waiters and a count, the others sleep on.
\* Excepted is a thread that the operating system woke for no reason, which the
\* code takes for a notified one.
OkMeansNotified ==
    \A t \in Threads :
        result[t] = "ok" /\ wake[t] # "spurious" => t \in told

\* A wait that has a time limit, or that a notify has counted, returns.
WaitsEnd ==
    \A t \in Threads :
        pc[t] \in {"asleep", "waking"} /\ (args[t].finite \/ t \in told)
            ~> pc[t] = "script"

=============================================================================
