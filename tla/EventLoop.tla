----------------------------- MODULE EventLoop -----------------------------
(***************************************************************************)
(* The asynchronous half of QuickJS-Swift: a JSRuntime's job list, the     *)
(* JSContexts that share it, and the thread's run loop, to which every     *)
(* "Runloop" module adds an observer (flush the job list before timers)    *)
(* and one-shot timers (setTimeout).                                       *)
(*                                                                         *)
(* Everything runs on one thread.  The hard part is who may still be       *)
(* called when: the run loop keeps observers and timers for ever, the      *)
(* observer holds its module weakly, the timer holds the context wrapper   *)
(* and reaches the JSContext through an unretained pointer, and the job    *)
(* list belongs to the runtime, so one context's observer runs the jobs    *)
(* of all the others.                                                      *)
(***************************************************************************)
EXTENDS Integers, Sequences

CONSTANTS
    Contexts,       \* the JSContexts created on the runtime
    MaxJobs,        \* bound: jobs a behaviour enqueues
    MaxTimers,      \* bound: timers a behaviour schedules
    MaxObservers,   \* bound: calls of enableRunloop
    JobsMayThrow,   \* can JS_ExecutePendingJob return < 0 ?
    EarlyRelease    \* may Swift drop a JSContext that has jobs or timers?

ASSUME BoundsAssumption ==
    /\ MaxJobs \in Nat
    /\ MaxTimers \in Nat
    /\ MaxObservers \in Nat

ASSUME FlagsAssumption ==
    /\ JobsMayThrow \in BOOLEAN
    /\ EarlyRelease \in BOOLEAN

VARIABLES
    live,       \* contexts whose Swift JSContext object is still retained
    observers,  \* the run loop's observers in order of addition, by context
    jobs,       \* rt->job_list
    nextJob,    \* history: number given to the next job enqueued
    lastRun,    \* history: number of the last job executed, 0 before any
    armed,      \* timers added to the run loop that have not fired
    due,        \* those among them the current timer pass has to fire
    nextTimer,  \* history: number given to the next timer
    exception,  \* rt->current_exception: who threw it, or NoException
    reported,   \* history: what each timer's JSContext.call printed
    phase,      \* where the thread is: see Phases
    cursor,     \* next observer to be called, in phase "observers"
    dangling    \* a freed Swift object has been used

vars == <<live, observers, jobs, nextJob, lastRun, armed, due, nextTimer,
          exception, reported, phase, cursor, dangling>>

(***************************************************************************)
(* "host": Swift code outside the callbacks modelled here (before run, or  *)
(* a run loop source).  "observers": kCFRunLoopBeforeTimers.  "sleep":     *)
(* waiting.  "timers": firing the timers that are due.                     *)
(***************************************************************************)
Phases == {"host", "observers", "sleep", "timers"}

Job == [id : 1..MaxJobs, ctx : Contexts]
Timer == [id : 1..MaxTimers, ctx : Contexts]

\* Who threw the value held in rt->current_exception.
Thrower == [kind : {"eval", "job", "timer"}, id : Nat]
NoException == [kind |-> "none", id |-> 0]

Outcomes == {"ok", "caught", "throw"}

LiveObserver(i) == observers[i] \in live
HasLiveObserver == \E i \in DOMAIN observers : LiveObserver(i)

\* The Runloop module of c exists, so that scripts of c can import setTimeout.
HasRunloop(c) == \E i \in DOMAIN observers : observers[i] = c

\* No job and no timer of context c is left.
Quiescent(c) ==
    /\ \A i \in DOMAIN jobs : jobs[i].ctx # c
    /\ \A t \in armed : t.ctx # c

-----------------------------------------------------------------------------
(***************************************************************************)
(* The engine as seen from the binding.                                    *)
(***************************************************************************)

\* Faulty variant of JS_EnqueueJob: list_add instead of list_add_tail.
EnqueueAtHead(list, c) == <<[id |-> nextJob, ctx |-> c]>> \o list

\* JS_EnqueueJob: the entry goes to the tail of the runtime's list.
JS_EnqueueJob(list, c) == Append(list, [id |-> nextJob, ctx |-> c])

\* Faulty variant of JS_Throw: a pending exception wins.
ThrowKeepsFirst(pending, who) == IF pending = NoException THEN who ELSE pending

\* JS_Throw: the new value replaces whatever is pending.
JS_Throw(pending, who) == who

\* What JS_ExecutePendingJob returns after running a job.
JobResult(outcome) == IF outcome = "throw" THEN -1 ELSE 1

\* Faulty variant of BreaksFlush: one job per flush.
BreaksAfterOne(ret) == ret <= 1

\* The condition that ends the loop of flushPendingJobs.
BreaksFlush(ret) == ret <= 0

\* rt->current_exception after a script has run: a catch clause takes the
\* value out and puts nothing back.
AfterScript(who, outcome) ==
    CASE outcome = "ok"     -> exception
      [] outcome = "caught" -> NoException
      [] outcome = "throw"  -> JS_Throw(exception, who)

\* JSContext.getException: takes the pending value and turns it into a
\* string.  That runs JavaScript of the value (toString, the stack property),
\* which may throw in its turn: then a value is pending again, and nothing
\* or only the stack is printed.
getException(pending) ==
    {r \in [printed : {pending, NoException}, left : {pending, NoException}] :
        r.printed = NoException => r.left = pending}

\* Faulty variant of scheduleTimer: the timer goes to the context of the
\* first Runloop module, whoever called setTimeout.
ScheduleInFirstModule(c, timers) ==
    /\ HasRunloop(c)
    /\ nextTimer <= MaxTimers
    /\ armed' = timers \cup {[id |-> nextTimer, ctx |-> observers[1]]}
    /\ nextTimer' = nextTimer + 1
    /\ UNCHANGED dangling

\* setTimeout called by a script of context c.  The native function object
\* belongs to the module, hence to the JSContext: calling it once that is
\* released goes through a freed JSFunction.  The early returns of
\* scheduleTimer (too few arguments, not a function) schedule nothing.
scheduleTimer(c, timers) ==
    /\ HasRunloop(c)
    /\ nextTimer <= MaxTimers
    /\ IF c \in live
       THEN /\ armed' = timers \cup {[id |-> nextTimer, ctx |-> c]}
            /\ nextTimer' = nextTimer + 1
            /\ UNCHANGED dangling
       ELSE /\ armed' = timers
            /\ dangling' = TRUE
            /\ UNCHANGED nextTimer

\* What a run of JavaScript of context c does to the shared state: enqueue a
\* job or none, call setTimeout or not.  "list" and "timers" are the job list
\* and the run loop's timers when it starts.
Script(c, list, timers) ==
    /\ \/ /\ jobs' = list
          /\ UNCHANGED nextJob
       \/ /\ nextJob <= MaxJobs
          /\ jobs' = JS_EnqueueJob(list, c)
          /\ nextJob' = nextJob + 1
    /\ \/ /\ armed' = timers
          /\ UNCHANGED <<nextTimer, dangling>>
       \/ scheduleTimer(c, timers)

-----------------------------------------------------------------------------
(***************************************************************************)
(* Swift code outside the run loop's callbacks.                            *)
(***************************************************************************)

\* JSContext.eval: an exception stays in rt->current_exception.
Eval(c) ==
    /\ phase = "host"
    /\ c \in live
    /\ Script(c, jobs, armed)
    /\ \E outcome \in Outcomes :
          exception' = AfterScript([kind |-> "eval", id |-> 0], outcome)
    /\ UNCHANGED <<live, observers, lastRun, due, reported, phase, cursor>>

\* JSContext.getException called by the application.
GetException(c) ==
    /\ phase = "host"
    /\ c \in live
    /\ \E r \in getException(exception) : exception' = r.left
    /\ UNCHANGED <<live, observers, jobs, nextJob, lastRun, armed, due,
                   nextTimer, reported, phase, cursor, dangling>>

\* JSContext.enableRunloop: a Runloop module with an observer of its own.
EnableRunloop(c) ==
    /\ phase = "host"
    /\ c \in live
    /\ Len(observers) < MaxObservers
    /\ observers' = Append(observers, c)
    /\ UNCHANGED <<live, jobs, nextJob, lastRun, armed, due, nextTimer,
                   exception, reported, phase, cursor, dangling>>

\* The last reference to the JSContext of c goes away, and with it its
\* modules.  The run loop's observers and timers stay.
Release(c) ==
    /\ phase = "host"
    /\ c \in live
    /\ EarlyRelease \/ Quiescent(c)
    /\ live' = live \ {c}
    /\ UNCHANGED <<observers, jobs, nextJob, lastRun, armed, due, nextTimer,
                   exception, reported, phase, cursor, dangling>>

\* The thread starts a turn of its run loop.
EnterLoop ==
    /\ phase = "host"
    /\ phase' = "observers"
    /\ cursor' = 1
    /\ UNCHANGED <<live, observers, jobs, nextJob, lastRun, armed, due,
                   nextTimer, exception, reported, dangling>>

-----------------------------------------------------------------------------
(***************************************************************************)
(* kCFRunLoopBeforeTimers: the observers one after the other.              *)
(***************************************************************************)

\* Faulty variant of SkipObserver: a dead observer ends the whole pass.
SkipAllObservers ==
    /\ phase = "observers"
    /\ cursor <= Len(observers)
    /\ ~LiveObserver(cursor)
    /\ cursor' = Len(observers) + 1
    /\ UNCHANGED <<live, observers, jobs, nextJob, lastRun, armed, due,
                   nextTimer, exception, reported, phase, dangling>>

\* guard let self: the module of this observer is gone.
SkipObserver ==
    /\ phase = "observers"
    /\ cursor <= Len(observers)
    /\ ~LiveObserver(cursor)
    /\ cursor' = cursor + 1
    /\ UNCHANGED <<live, observers, jobs, nextJob, lastRun, armed, due,
                   nextTimer, exception, reported, phase, dangling>>

\* flushPendingJobs, JS_ExecutePendingJob returning 0: the list is empty.
FlushEnds ==
    /\ phase = "observers"
    /\ cursor <= Len(observers)
    /\ LiveObserver(cursor)
    /\ jobs = <<>>
    /\ cursor' = cursor + 1
    /\ UNCHANGED <<live, observers, jobs, nextJob, lastRun, armed, due,
                   nextTimer, exception, reported, phase, dangling>>

\* flushPendingJobs, one JS_ExecutePendingJob: the first entry leaves the
\* list and runs in its own context, whichever context flushes.  The loop
\* goes on after 1 and breaks after -1, the exception left where it is.
FlushJob ==
    /\ phase = "observers"
    /\ cursor <= Len(observers)
    /\ LiveObserver(cursor)
    /\ jobs # <<>>
    /\ lastRun' = Head(jobs).id
    /\ Script(Head(jobs).ctx, Tail(jobs), armed)
    /\ \E outcome \in (IF JobsMayThrow THEN Outcomes
                                       ELSE Outcomes \ {"throw"}) :
          /\ exception' = AfterScript([kind |-> "job", id |-> Head(jobs).id],
                                      outcome)
          /\ cursor' = IF BreaksFlush(JobResult(outcome)) THEN cursor + 1
                                                       ELSE cursor
    /\ UNCHANGED <<live, observers, due, reported, phase>>

\* All observers have been called; nothing else flushes before the sleep.
ObserversDone ==
    /\ phase = "observers"
    /\ cursor > Len(observers)
    /\ phase' = "sleep"
    /\ UNCHANGED <<live, observers, jobs, nextJob, lastRun, armed, due,
                   nextTimer, exception, reported, cursor, dangling>>

-----------------------------------------------------------------------------
(***************************************************************************)
(* Sleep and timers.                                                       *)
(***************************************************************************)

\* The run loop wakes because the fire dates of the timers in T have come.
WakeForTimers(T) ==
    /\ phase = "sleep"
    /\ due' = T
    /\ phase' = "timers"
    /\ UNCHANGED <<live, observers, jobs, nextJob, lastRun, armed, nextTimer,
                   exception, reported, cursor, dangling>>

\* The run loop returns, or wakes for a source that runs other Swift code.
WakeForHost ==
    /\ phase = "sleep"
    /\ phase' = "host"
    /\ UNCHANGED <<live, observers, jobs, nextJob, lastRun, armed, due,
                   nextTimer, exception, reported, cursor, dangling>>

\* Faulty variant of Fired: the timer repeats.
FiredRepeating(t) == armed

\* The run loop's timers once t has fired: repeats is false.
Fired(t) == armed \ {t}

\* The closure of a one-shot timer: context.opaque?.call(function).  The
\* opaque pointer is not cleared when the JSContext goes away.
\* JSContext.call takes an exception of the callback and prints it.
FireTimer(t) ==
    /\ phase = "timers"
    /\ t \in due
    /\ due' = due \ {t}
    /\ \/ /\ t.ctx \notin live
          /\ dangling' = TRUE
          /\ armed' = Fired(t)
          /\ UNCHANGED <<jobs, nextJob, nextTimer, exception, reported>>
       \/ /\ t.ctx \in live
          /\ Script(t.ctx, jobs, Fired(t))
          /\ LET who == [kind |-> "timer", id |-> t.id] IN
             \/ \E outcome \in {"ok", "caught"} :
                   /\ exception' = AfterScript(who, outcome)
                   /\ UNCHANGED reported
             \/ \E r \in getException(AfterScript(who, "throw")) :
                   /\ exception' = r.left
                   /\ reported' = [reported EXCEPT ![t.id] = r.printed]
    /\ UNCHANGED <<live, observers, lastRun, phase, cursor>>

\* The pass is over: the next turn of the loop starts with the observers.
TimersDone ==
    /\ phase = "timers"
    /\ due = {}
    /\ phase' = "observers"
    /\ cursor' = 1
    /\ UNCHANGED <<live, observers, jobs, nextJob, lastRun, armed, due,
                   nextTimer, exception, reported, dangling>>

-----------------------------------------------------------------------------
\* A fresh runtime with its contexts, no Runloop module yet.
Init ==
    /\ live = Contexts
    /\ observers = <<>>
    /\ jobs = <<>>
    /\ nextJob = 1
    /\ lastRun = 0
    /\ armed = {}
    /\ due = {}
    /\ nextTimer = 1
    /\ exception = NoException
    /\ reported = [i \in 1..MaxTimers |-> NoException]
    /\ phase = "host"
    /\ cursor = 1
    /\ dangling = FALSE

HostNext ==
    \E c \in Contexts :
        \/ Eval(c)
        \/ GetException(c)
        \/ EnableRunloop(c)
        \/ Release(c)

LoopNext ==
    \/ SkipObserver
    \/ FlushEnds
    \/ FlushJob
    \/ ObserversDone
    \/ \E t \in due : FireTimer(t)
    \/ TimersDone

Next ==
    \/ HostNext
    \/ EnterLoop
    \/ LoopNext
    \/ \E T \in (SUBSET armed) \ {{}} : WakeForTimers(T)
    \/ WakeForHost

Spec == Init /\ [][Next]_vars

(***************************************************************************)
(* The thread keeps executing the callbacks of a turn it has begun, host   *)
(* code gives the thread back to its run loop, and a fire date comes for   *)
(* every armed timer while the loop goes on sleeping.  Nothing obliges     *)
(* host code to run again, so waking for the host is not fair.             *)
(***************************************************************************)
Fairness ==
    /\ WF_vars(LoopNext)
    /\ WF_vars(EnterLoop)
    /\ \A i \in 1..MaxTimers :
          SF_vars(\E T \in SUBSET armed :
                     /\ \E t \in T : t.id = i
                     /\ WakeForTimers(T))

FairSpec == Spec /\ Fairness

-----------------------------------------------------------------------------
(***************************************************************************)
(* Properties.                                                             *)
(***************************************************************************)

\* Type invariant of the state of the runtime, the contexts and the loop.
TypeOK ==
    /\ live \subseteq Contexts
    /\ observers \in Seq(Contexts)
    /\ jobs \in Seq(Job)
    /\ nextJob \in 1..(MaxJobs + 1)
    /\ lastRun \in 0..MaxJobs
    /\ armed \subseteq Timer
    /\ due \subseteq armed
    /\ nextTimer \in 1..(MaxTimers + 1)
    /\ exception \in Thrower \cup {NoException}
    /\ reported \in [1..MaxTimers -> Thrower \cup {NoException}]
    /\ phase \in Phases
    /\ cursor \in Nat
    /\ dangling \in BOOLEAN

\* JS_EnqueueJob and JS_ExecutePendingJob, called from any mix of eval, jobs
\* and timer callbacks of all contexts and flushed by any observer: jobs run
\* in the order in which they were enqueued, none is skipped or repeated.
JobsRunInOrder ==
    /\ \A i \in DOMAIN jobs : jobs[i].id = lastRun + i
    /\ nextJob = lastRun + Len(jobs) + 1

\* The run loop goes to sleep with jobs in the list only if the last flush
\* stopped at a throwing job, whose exception is then still pending, or if no
\* Runloop module is left to flush (JSContext.flushPendingJobs).
SleepsWithJobsOnlyAfterException ==
    phase = "sleep" /\ jobs # <<>> =>
        exception # NoException \/ ~HasLiveObserver

\* JSContext.call prints the exception of the callback it called, never one
\* that an eval, a job or another timer left pending in the runtime.
CallReportsItsOwnException ==
    \A i \in 1..MaxTimers :
        reported[i] \in {NoException, [kind |-> "timer", id |-> i]}

\* No callback of the run loop reaches a Swift object that was deallocated:
\* a JSContext through the opaque pointer when a timer fires, a JSFunction
\* when a job of a released context calls setTimeout.
NoDanglingUse == ~dangling

\* Every job is eventually executed, unless no observer is left to do it or
\* the loop has gone to sleep over a job that threw: flushPendingJobs stops
\* there, and only the next turn of the loop would take the rest.
EveryJobRuns ==
    \A i \in 1..MaxJobs :
        nextJob > i ~> \/ lastRun >= i
                       \/ ~HasLiveObserver
                       \/ phase = "sleep" /\ exception # NoException

\* Every timer that setTimeout schedules fires.
EveryTimerFires ==
    \A i \in 1..MaxTimers :
        (\E t \in armed : t.id = i) ~> (\A t \in armed : t.id # i)

=============================================================================
