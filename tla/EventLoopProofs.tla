-------------------------- MODULE EventLoopProofs --------------------------
EXTENDS EventLoop, TLAPS

-----------------------------------------------------------------------------
(***************************************************************************)
(* Types.                                                                  *)
(***************************************************************************)

\* A run of JavaScript keeps the job list, the timers and the counters in
\* their types, whatever list and timers it starts from.
LEMMA ScriptType ==
    ASSUME TypeOK,
           NEW c \in Contexts,
           NEW list \in Seq(Job),
           NEW timers \in SUBSET Timer,
           Script(c, list, timers)
    PROVE  /\ jobs' \in Seq(Job)
           /\ nextJob' \in 1..(MaxJobs + 1)
           /\ armed' \subseteq Timer
           /\ timers \subseteq armed'
           /\ nextTimer' \in 1..(MaxTimers + 1)
           /\ dangling' \in BOOLEAN
<1> USE BoundsAssumption
<1>1. jobs' \in Seq(Job) /\ nextJob' \in 1..(MaxJobs + 1)
  <2>1. CASE jobs' = list /\ UNCHANGED nextJob
    BY <2>1 DEF TypeOK
  <2>2. CASE /\ nextJob <= MaxJobs
             /\ jobs' = JS_EnqueueJob(list, c)
             /\ nextJob' = nextJob + 1
    <3>1. [id |-> nextJob, ctx |-> c] \in Job
      BY <2>2 DEF TypeOK, Job
    <3>2. QED
      BY <2>2, <3>1 DEF TypeOK, JS_EnqueueJob
  <2>3. QED
    BY <2>1, <2>2 DEF Script
<1>2. /\ armed' \subseteq Timer
      /\ timers \subseteq armed'
      /\ nextTimer' \in 1..(MaxTimers + 1)
      /\ dangling' \in BOOLEAN
  <2>1. CASE armed' = timers /\ UNCHANGED <<nextTimer, dangling>>
    BY <2>1 DEF TypeOK
  <2>2. CASE scheduleTimer(c, timers)
    <3>1. CASE c \in live
      <4>1. [id |-> nextTimer, ctx |-> c] \in Timer
        BY <2>2 DEF TypeOK, Timer, scheduleTimer
      <4>2. QED
        BY <2>2, <3>1, <4>1 DEF TypeOK, scheduleTimer
    <3>2. CASE c \notin live
      BY <2>2, <3>2 DEF TypeOK, scheduleTimer
    <3>3. QED
      BY <3>1, <3>2
  <2>3. QED
    BY <2>1, <2>2 DEF Script
<1>3. QED
  BY <1>1, <1>2

\* What a script leaves in rt->current_exception is a thrower or nothing.
LEMMA AfterScriptType ==
    ASSUME TypeOK, NEW who \in Thrower, NEW outcome \in Outcomes
    PROVE  AfterScript(who, outcome) \in Thrower \cup {NoException}
BY DEF TypeOK, AfterScript, Outcomes, JS_Throw

\* The elements of a job list are jobs, and so are those of its tail.
LEMMA JobListType ==
    ASSUME TypeOK, jobs # <<>>
    PROVE  /\ Head(jobs) \in Job
           /\ Tail(jobs) \in Seq(Job)
           /\ Head(jobs).id \in 1..MaxJobs
           /\ Head(jobs).ctx \in Contexts
<1>1. Head(jobs) \in Job /\ Tail(jobs) \in Seq(Job)
  BY DEF TypeOK
<1>2. QED
  BY <1>1 DEF Job

\* TypeOK is preserved by every step.
LEMMA TypeStep ==
    ASSUME TypeOK, [Next]_vars
    PROVE  TypeOK'
<1> USE BoundsAssumption
<1>1. CASE UNCHANGED vars
  BY <1>1 DEF TypeOK, vars
<1>2. ASSUME NEW c \in Contexts, Eval(c)
      PROVE  TypeOK'
  <2>1. exception' \in Thrower \cup {NoException}
    <3>1. [kind |-> "eval", id |-> 0] \in Thrower
      BY DEF Thrower
    <3>2. QED
      BY <1>2, <3>1, AfterScriptType DEF Eval
  <2>2. /\ jobs' \in Seq(Job)
        /\ nextJob' \in 1..(MaxJobs + 1)
        /\ armed' \subseteq Timer
        /\ armed \subseteq armed'
        /\ nextTimer' \in 1..(MaxTimers + 1)
        /\ dangling' \in BOOLEAN
    BY <1>2, ScriptType DEF Eval, TypeOK
  <2>3. QED
    BY <1>2, <2>1, <2>2 DEF Eval, TypeOK
<1>3. ASSUME NEW c \in Contexts, GetException(c)
      PROVE  TypeOK'
  <2>1. exception' \in {exception, NoException}
    BY <1>3 DEF GetException, getException
  <2>2. QED
    BY <1>3, <2>1 DEF GetException, TypeOK
<1>4. ASSUME NEW c \in Contexts, EnableRunloop(c)
      PROVE  TypeOK'
  BY <1>4 DEF EnableRunloop, TypeOK
<1>5. ASSUME NEW c \in Contexts, Release(c)
      PROVE  TypeOK'
  BY <1>5 DEF Release, TypeOK
<1>6. CASE EnterLoop
  BY <1>6 DEF EnterLoop, TypeOK, Phases
<1>7. CASE SkipObserver
  BY <1>7 DEF SkipObserver, TypeOK
<1>8. CASE FlushEnds
  BY <1>8 DEF FlushEnds, TypeOK
<1>9. CASE FlushJob
  <2>1. /\ Head(jobs).id \in 1..MaxJobs
        /\ Head(jobs).ctx \in Contexts
        /\ Tail(jobs) \in Seq(Job)
    BY <1>9, JobListType DEF FlushJob
  <2>2. /\ jobs' \in Seq(Job)
        /\ nextJob' \in 1..(MaxJobs + 1)
        /\ armed' \subseteq Timer
        /\ armed \subseteq armed'
        /\ nextTimer' \in 1..(MaxTimers + 1)
        /\ dangling' \in BOOLEAN
    BY <1>9, <2>1, ScriptType DEF FlushJob, TypeOK
  <2>3. [kind |-> "job", id |-> Head(jobs).id] \in Thrower
    BY <2>1 DEF Thrower
  <2>4. /\ exception' \in Thrower \cup {NoException}
        /\ cursor' \in {cursor, cursor + 1}
    <3>1. PICK outcome \in Outcomes :
             /\ exception' = AfterScript(
                   [kind |-> "job", id |-> Head(jobs).id], outcome)
             /\ cursor' = IF BreaksFlush(JobResult(outcome))
                          THEN cursor + 1 ELSE cursor
      BY <1>9 DEF FlushJob
    <3>2. QED
      BY <2>3, <3>1, AfterScriptType
  <2>5. QED
    BY <1>9, <2>1, <2>2, <2>4 DEF FlushJob, TypeOK
<1>10. CASE ObserversDone
  BY <1>10 DEF ObserversDone, TypeOK, Phases
<1>11. ASSUME NEW t \in due, FireTimer(t)
       PROVE  TypeOK'
  <2>1. t \in Timer /\ t.id \in 1..MaxTimers /\ t.ctx \in Contexts
    BY DEF TypeOK, Timer
  <2>2. Fired(t) \subseteq Timer /\ due \ {t} \subseteq Fired(t)
    BY DEF TypeOK, Fired
  <2>3. CASE t.ctx \notin live
    BY <1>11, <2>2, <2>3 DEF FireTimer, TypeOK
  <2>4. CASE t.ctx \in live
    <3>1. /\ jobs' \in Seq(Job)
          /\ nextJob' \in 1..(MaxJobs + 1)
          /\ armed' \subseteq Timer
          /\ Fired(t) \subseteq armed'
          /\ nextTimer' \in 1..(MaxTimers + 1)
          /\ dangling' \in BOOLEAN
      <4>1. Script(t.ctx, jobs, Fired(t))
        BY <1>11, <2>4 DEF FireTimer
      <4>2. QED
        BY <2>1, <2>2, <4>1, ScriptType DEF TypeOK
    <3> DEFINE who == [kind |-> "timer", id |-> t.id]
    <3>2. who \in Thrower
      BY <2>1 DEF Thrower
    <3> HIDE DEF who
    <3>3. /\ exception' \in Thrower \cup {NoException}
          /\ reported' \in [1..MaxTimers -> Thrower \cup {NoException}]
      <4>1. CASE \E outcome \in {"ok", "caught"} :
                    /\ exception' = AfterScript(who, outcome)
                    /\ UNCHANGED reported
        BY <3>2, <4>1, AfterScriptType DEF TypeOK, Outcomes
      <4>2. CASE \E r \in getException(AfterScript(who, "throw")) :
                    /\ exception' = r.left
                    /\ reported' = [reported EXCEPT ![t.id] = r.printed]
        <5>1. AfterScript(who, "throw") \in Thrower \cup {NoException}
          BY <3>2, AfterScriptType DEF Outcomes
        <5>2. PICK r \in getException(AfterScript(who, "throw")) :
                    /\ exception' = r.left
                    /\ reported' = [reported EXCEPT ![t.id] = r.printed]
          BY <4>2
        <5>3. /\ r.left \in Thrower \cup {NoException}
              /\ r.printed \in Thrower \cup {NoException}
          BY <5>1, <5>2 DEF getException
        <5>4. QED
          BY <2>1, <5>2, <5>3 DEF TypeOK
      <4>3. QED
        BY <1>11, <2>4, <4>1, <4>2 DEF FireTimer, who
    <3>4. QED
      BY <1>11, <2>2, <3>1, <3>3 DEF FireTimer, TypeOK
  <2>5. QED
    BY <2>3, <2>4
<1>12. CASE TimersDone
  BY <1>12 DEF TimersDone, TypeOK, Phases
<1>13. ASSUME NEW T \in SUBSET armed, WakeForTimers(T)
       PROVE  TypeOK'
  BY <1>13 DEF WakeForTimers, TypeOK, Phases
<1>14. CASE WakeForHost
  BY <1>14 DEF WakeForHost, TypeOK, Phases
<1>15. QED
  BY <1>1, <1>2, <1>3, <1>4, <1>5, <1>6, <1>7, <1>8, <1>9, <1>10, <1>11,
     <1>12, <1>13, <1>14 DEF Next, HostNext, LoopNext

\* TypeOK is an invariant for any contexts and any bounds.
THEOREM TypeCorrect == Spec => []TypeOK
<1>1. Init => TypeOK
  <2> SUFFICES ASSUME Init
               PROVE  TypeOK
    OBVIOUS
  <2>1. jobs \in Seq(Job) /\ observers \in Seq(Contexts)
    BY DEF Init
  <2>2. reported \in [1..MaxTimers -> Thrower \cup {NoException}]
    BY DEF Init
  <2>3. /\ nextJob \in 1..(MaxJobs + 1)
        /\ nextTimer \in 1..(MaxTimers + 1)
        /\ lastRun \in 0..MaxJobs
    BY BoundsAssumption DEF Init
  <2>4. QED
    BY <2>1, <2>2, <2>3 DEF Init, TypeOK, Phases
<1>2. TypeOK /\ [Next]_vars => TypeOK'
  BY TypeStep
<1>3. QED
  BY <1>1, <1>2, PTL DEF Spec

-----------------------------------------------------------------------------
(***************************************************************************)
(* The order of the jobs.                                                  *)
(***************************************************************************)

\* A script that starts from a list in order leaves a list in order: "base"
\* is the number of the job before the first of the list.
LEMMA ScriptOrder ==
    ASSUME TypeOK,
           NEW c \in Contexts,
           NEW list \in Seq(Job),
           NEW timers \in SUBSET Timer,
           NEW base \in Nat,
           \A i \in DOMAIN list : list[i].id = base + i,
           nextJob = base + Len(list) + 1,
           Script(c, list, timers)
    PROVE  /\ \A i \in DOMAIN jobs' : jobs'[i].id = base + i
           /\ nextJob' = base + Len(jobs') + 1
<1>1. CASE jobs' = list /\ UNCHANGED nextJob
  BY <1>1
<1>2. CASE /\ nextJob <= MaxJobs
           /\ jobs' = JS_EnqueueJob(list, c)
           /\ nextJob' = nextJob + 1
  <2> DEFINE e == [id |-> nextJob, ctx |-> c]
  <2>1. jobs' = Append(list, e)
    BY <1>2 DEF JS_EnqueueJob
  <2>2. e.id = base + Len(list) + 1
    OBVIOUS
  <2> HIDE DEF e
  <2>3. Len(jobs') = Len(list) + 1
    BY <2>1
  <2>4. ASSUME NEW i \in DOMAIN jobs'
        PROVE  jobs'[i].id = base + i
    <3>1. i \in 1..(Len(list) + 1)
      BY <2>1
    <3>2. CASE i \in 1..Len(list)
      BY <2>1, <3>2
    <3>3. CASE i = Len(list) + 1
      BY <2>1, <2>2, <3>3
    <3>4. QED
      BY <3>1, <3>2, <3>3
  <2>5. QED
    BY <1>2, <2>3, <2>4 DEF TypeOK
<1>3. QED
  BY <1>1, <1>2 DEF Script

\* JobsRunInOrder is preserved by every step.
LEMMA OrderStep ==
    ASSUME TypeOK, JobsRunInOrder, [Next]_vars
    PROVE  JobsRunInOrder'
<1> USE BoundsAssumption
<1>1. CASE UNCHANGED <<jobs, nextJob, lastRun>>
  BY <1>1 DEF JobsRunInOrder
<1>2. ASSUME NEW c \in Contexts, Eval(c)
      PROVE  JobsRunInOrder'
  <2>1. lastRun \in Nat /\ jobs \in Seq(Job) /\ armed \in SUBSET Timer
    BY DEF TypeOK
  <2>2. QED
    BY <1>2, <2>1, ScriptOrder DEF Eval, JobsRunInOrder
<1>3. CASE FlushJob
  <2> DEFINE list == Tail(jobs)
             base == Head(jobs).id
  <2>1. /\ jobs \in Seq(Job) /\ jobs # <<>>
        /\ base \in Nat
        /\ Head(jobs).ctx \in Contexts
        /\ list \in Seq(Job)
    BY <1>3, JobListType DEF FlushJob, TypeOK
  <2>2. base = lastRun + 1 /\ lastRun \in Nat
    BY <2>1 DEF JobsRunInOrder, TypeOK
  <2>3. \A i \in DOMAIN jobs : jobs[i].id = lastRun + i
    BY DEF JobsRunInOrder
  <2>4. /\ Len(list) = Len(jobs) - 1
        /\ Len(jobs) \in Nat
        /\ \A i \in DOMAIN list : list[i] = jobs[i + 1]
                                  /\ i + 1 \in DOMAIN jobs /\ i \in Nat
    BY <2>1
  <2>5. nextJob = lastRun + Len(jobs) + 1
    BY DEF JobsRunInOrder
  <2>6. Script(Head(jobs).ctx, list, armed) /\ lastRun' = base
    BY <1>3 DEF FlushJob
  <2> HIDE DEF list, base
  <2>7. \A i \in DOMAIN list : list[i].id = base + i
    BY <2>2, <2>3, <2>4
  <2>8. nextJob = base + Len(list) + 1
    BY <2>2, <2>4, <2>5
  <2>9. QED
    BY <2>1, <2>7, <2>8, <2>6, ScriptOrder DEF JobsRunInOrder, TypeOK
<1>4. ASSUME NEW t \in due, FireTimer(t)
      PROVE  JobsRunInOrder'
  <2>1. CASE t.ctx \notin live
    BY <1>1, <1>4, <2>1 DEF FireTimer
  <2>2. CASE t.ctx \in live
    <3>1. Script(t.ctx, jobs, Fired(t)) /\ UNCHANGED lastRun
      BY <1>4, <2>2 DEF FireTimer
    <3>2. /\ lastRun \in Nat /\ jobs \in Seq(Job) /\ t.ctx \in Contexts
          /\ Fired(t) \in SUBSET Timer
      BY DEF TypeOK, Timer, Fired
    <3>3. QED
      BY <3>1, <3>2, ScriptOrder DEF JobsRunInOrder
  <2>3. QED
    BY <2>1, <2>2
<1>5. QED
  BY <1>1, <1>2, <1>3, <1>4
  DEF Next, HostNext, LoopNext, vars, GetException, EnableRunloop, Release,
      EnterLoop, SkipObserver, FlushEnds, ObserversDone, TimersDone,
      WakeForTimers, WakeForHost

\* Whatever the contexts, the scripts and the observers do, jobs run in the
\* order of JS_EnqueueJob.
THEOREM JobOrder == Spec => []JobsRunInOrder
<1>1. Init => JobsRunInOrder
  BY DEF Init, JobsRunInOrder
<1>2. TypeOK /\ JobsRunInOrder /\ [Next]_vars => JobsRunInOrder'
  BY OrderStep
<1>3. QED
  BY <1>1, <1>2, TypeCorrect, PTL DEF Spec

-----------------------------------------------------------------------------
(***************************************************************************)
(* Going to sleep with jobs left.                                          *)
(***************************************************************************)

\* The strengthening: in the middle of a pass, when some live observer has
\* been called and jobs are left although no exception is pending, then the
\* observer being called is live and has not finished its flush.
FlushUnderWay ==
    /\ phase = "observers"
    /\ jobs # <<>>
    /\ exception = NoException
    /\ \E i \in DOMAIN observers : i < cursor /\ LiveObserver(i)
    => cursor <= Len(observers) /\ LiveObserver(cursor)

SleepInv == FlushUnderWay /\ SleepsWithJobsOnlyAfterException

\* SleepInv is preserved by every step.
LEMMA SleepStep ==
    ASSUME TypeOK, SleepInv, [Next]_vars
    PROVE  SleepInv'
<1>1. CASE UNCHANGED vars
  BY <1>1 DEF SleepInv, FlushUnderWay, SleepsWithJobsOnlyAfterException, vars,
              LiveObserver, HasLiveObserver
<1>2. CASE phase' \in {"host", "timers"}
  BY <1>2 DEF SleepInv, FlushUnderWay, SleepsWithJobsOnlyAfterException
<1>3. CASE phase' = "observers" /\ cursor' = 1
           /\ observers' = observers
  BY <1>3 DEF SleepInv, FlushUnderWay, SleepsWithJobsOnlyAfterException,
              TypeOK
<1>4. CASE SkipObserver
  <2>1. phase' = "observers" /\ phase = "observers"
    BY <1>4 DEF SkipObserver
  <2>2. FlushUnderWay'
    <3> SUFFICES ASSUME jobs # <<>>, exception = NoException,
                        NEW i \in DOMAIN observers,
                        i < cursor + 1, LiveObserver(i)
                 PROVE  FALSE
      BY <1>4 DEF SkipObserver, FlushUnderWay, LiveObserver
    <3>1. i # cursor
      BY <1>4 DEF SkipObserver
    <3>2. i < cursor
      BY <3>1 DEF TypeOK
    <3>3. QED
      BY <1>4, <3>2 DEF SkipObserver, SleepInv, FlushUnderWay
  <2>3. QED
    BY <2>1, <2>2 DEF SleepInv, SleepsWithJobsOnlyAfterException
<1>5. CASE FlushEnds
  BY <1>5 DEF FlushEnds, SleepInv, FlushUnderWay,
              SleepsWithJobsOnlyAfterException
<1>6. CASE FlushJob
  <2>1. PICK outcome \in Outcomes :
           /\ exception' = AfterScript(
                 [kind |-> "job", id |-> Head(jobs).id], outcome)
           /\ cursor' = IF BreaksFlush(JobResult(outcome))
                        THEN cursor + 1 ELSE cursor
    BY <1>6 DEF FlushJob
  <2>2. CASE outcome = "throw"
    <3>1. exception' # NoException
      BY <2>1, <2>2 DEF AfterScript, JS_Throw, NoException
    <3>2. QED
      BY <1>6, <3>1 DEF FlushJob, SleepInv, FlushUnderWay,
                        SleepsWithJobsOnlyAfterException
  <2>3. CASE outcome # "throw"
    <3>1. cursor' = cursor
      BY <2>1, <2>3 DEF BreaksFlush, JobResult
    <3>2. QED
      BY <1>6, <3>1 DEF FlushJob, SleepInv, FlushUnderWay,
                        SleepsWithJobsOnlyAfterException, LiveObserver
  <2>4. QED
    BY <2>2, <2>3
<1>7. CASE ObserversDone
  <2>1. phase' = "sleep"
    BY <1>7 DEF ObserversDone
  <2>2. SleepsWithJobsOnlyAfterException'
    <3> SUFFICES ASSUME jobs # <<>>, exception = NoException,
                        NEW i \in DOMAIN observers, LiveObserver(i)
                 PROVE  FALSE
      BY <1>7 DEF ObserversDone, SleepsWithJobsOnlyAfterException,
                  HasLiveObserver, LiveObserver
    <3>1. i < cursor /\ ~(cursor <= Len(observers))
      BY <1>7 DEF ObserversDone, TypeOK
    <3>2. QED
      BY <1>7, <3>1 DEF ObserversDone, SleepInv, FlushUnderWay
  <2>3. QED
    BY <2>1, <2>2 DEF SleepInv, FlushUnderWay
<1>8. ASSUME NEW c \in Contexts,
             Eval(c) \/ GetException(c) \/ EnableRunloop(c) \/ Release(c)
      PROVE  phase' = "host"
  BY <1>8 DEF Eval, GetException, EnableRunloop, Release
<1>9. ASSUME NEW t \in due, FireTimer(t)
      PROVE  phase' = "timers"
  BY <1>9 DEF FireTimer
<1>10. QED
  BY <1>1, <1>2, <1>3, <1>4, <1>5, <1>6, <1>7, <1>8, <1>9
  DEF Next, HostNext, LoopNext, EnterLoop, TimersDone, WakeForTimers,
      WakeForHost

\* The run loop sleeps on a non-empty job list only behind an exception that
\* is still pending or without any live observer.
THEOREM SleepsFlushed == Spec => []SleepsWithJobsOnlyAfterException
<1>1. Init => SleepInv
  BY DEF Init, SleepInv, FlushUnderWay, SleepsWithJobsOnlyAfterException
<1>2. TypeOK /\ SleepInv /\ [Next]_vars => SleepInv'
  BY SleepStep
<1>3. SleepInv => SleepsWithJobsOnlyAfterException
  BY DEF SleepInv
<1>4. QED
  BY <1>1, <1>2, <1>3, TypeCorrect, PTL DEF Spec

-----------------------------------------------------------------------------
(***************************************************************************)
(* Exceptions of timer callbacks.                                          *)
(***************************************************************************)

\* What JSContext.call prints is the value its own callback threw, whatever
\* was pending in the runtime before.
THEOREM OwnException == Spec => []CallReportsItsOwnException
<1>1. Init => CallReportsItsOwnException
  BY DEF Init, CallReportsItsOwnException
<1>2. TypeOK /\ CallReportsItsOwnException /\ [Next]_vars
      => CallReportsItsOwnException'
  <2> SUFFICES ASSUME TypeOK, CallReportsItsOwnException, [Next]_vars
               PROVE  CallReportsItsOwnException'
    OBVIOUS
  <2>1. CASE UNCHANGED reported
    BY <2>1 DEF CallReportsItsOwnException
  <2>2. ASSUME NEW t \in due, FireTimer(t)
        PROVE  CallReportsItsOwnException'
    <3> DEFINE who == [kind |-> "timer", id |-> t.id]
    <3>1. t.id \in 1..MaxTimers
      BY DEF TypeOK, Timer
    <3>2. CASE \E r \in getException(AfterScript(who, "throw")) :
                  reported' = [reported EXCEPT ![t.id] = r.printed]
      <4>1. PICK r \in getException(AfterScript(who, "throw")) :
                  reported' = [reported EXCEPT ![t.id] = r.printed]
        BY <3>2
      <4>2. AfterScript(who, "throw") = who
        BY DEF AfterScript, JS_Throw
      <4>3. r.printed \in {NoException, who}
        BY <4>1, <4>2 DEF getException
      <4>4. QED
        BY <3>1, <4>1, <4>3 DEF CallReportsItsOwnException, TypeOK
    <3>3. QED
      BY <2>1, <2>2, <3>2 DEF FireTimer
  <2>3. QED
    BY <2>1, <2>2
    DEF Next, HostNext, LoopNext, vars, Eval, GetException, EnableRunloop,
        Release, EnterLoop, SkipObserver, FlushEnds, FlushJob, ObserversDone,
        TimersDone, WakeForTimers, WakeForHost
<1>3. QED
  BY <1>1, <1>2, TypeCorrect, PTL DEF Spec

-----------------------------------------------------------------------------
(***************************************************************************)
(* When is it safe to release a JSContext?                                 *)
(***************************************************************************)

\* The strengthening: every job and every timer belongs to a live context.
OwnersLive ==
    /\ \A i \in DOMAIN jobs : jobs[i].ctx \in live
    /\ \A t \in armed : t.ctx \in live
    /\ ~dangling

\* A script of a live context that starts from jobs and timers of live
\* contexts leaves jobs and timers of live contexts, and uses no freed object.
LEMMA ScriptOwners ==
    ASSUME TypeOK,
           NEW c \in live,
           NEW list \in Seq(Job),
           NEW timers \in SUBSET Timer,
           \A i \in DOMAIN list : list[i].ctx \in live,
           \A t \in timers : t.ctx \in live,
           ~dangling,
           Script(c, list, timers)
    PROVE  /\ \A i \in DOMAIN jobs' : jobs'[i].ctx \in live
           /\ \A t \in armed' : t.ctx \in live
           /\ ~dangling'
<1>1. \A i \in DOMAIN jobs' : jobs'[i].ctx \in live
  <2>1. CASE jobs' = list
    BY <2>1
  <2>2. CASE jobs' = JS_EnqueueJob(list, c)
    <3> DEFINE e == [id |-> nextJob, ctx |-> c]
    <3>1. jobs' = Append(list, e) /\ e.ctx \in live
      BY <2>2 DEF JS_EnqueueJob
    <3> HIDE DEF e
    <3>2. ASSUME NEW i \in DOMAIN jobs'
          PROVE  jobs'[i].ctx \in live
      <4>1. i \in 1..Len(list) \/ i = Len(list) + 1
        BY <3>1
      <4>2. CASE i \in 1..Len(list)
        BY <3>1, <4>2
      <4>3. CASE i = Len(list) + 1
        BY <3>1, <4>3
      <4>4. QED
        BY <4>1, <4>2, <4>3
    <3>3. QED
      BY <3>2
  <2>3. QED
    BY <2>1, <2>2 DEF Script
<1>2. (\A t \in armed' : t.ctx \in live) /\ ~dangling'
  BY DEF Script, scheduleTimer
<1>3. QED
  BY <1>1, <1>2

\* OwnersLive is preserved by every step, provided Swift releases a context
\* only when it is quiescent.
LEMMA OwnersStep ==
    ASSUME TypeOK, OwnersLive, ~EarlyRelease, [Next]_vars
    PROVE  OwnersLive'
<1>1. CASE UNCHANGED <<live, jobs, armed, dangling>>
  BY <1>1 DEF OwnersLive
<1>2. ASSUME NEW c \in Contexts, Eval(c)
      PROVE  OwnersLive'
  <2>1. c \in live /\ UNCHANGED live /\ Script(c, jobs, armed)
    BY <1>2 DEF Eval
  <2>2. jobs \in Seq(Job) /\ armed \in SUBSET Timer
    BY DEF TypeOK
  <2>3. QED
    BY <2>1, <2>2, ScriptOwners DEF OwnersLive
<1>3. ASSUME NEW c \in Contexts, Release(c)
      PROVE  OwnersLive'
  BY <1>3 DEF Release, Quiescent, OwnersLive
<1>4. CASE FlushJob
  <2> DEFINE c == Head(jobs).ctx
             list == Tail(jobs)
  <2>1. jobs \in Seq(Job) /\ jobs # <<>> /\ armed \in SUBSET Timer
    BY <1>4 DEF FlushJob, TypeOK
  <2>2. c \in live
    BY <2>1 DEF OwnersLive
  <2>3. list \in Seq(Job) /\ \A i \in DOMAIN list : list[i].ctx \in live
    <3>1. list \in Seq(Job)
      BY <2>1
    <3>2. ASSUME NEW i \in DOMAIN list
          PROVE  list[i] = jobs[i + 1] /\ i + 1 \in DOMAIN jobs
      BY <2>1
    <3>3. QED
      BY <3>1, <3>2 DEF OwnersLive
  <2>4. Script(c, list, armed) /\ UNCHANGED live
    BY <1>4 DEF FlushJob
  <2> HIDE DEF c, list
  <2>5. QED
    BY <2>1, <2>2, <2>3, <2>4, ScriptOwners DEF OwnersLive
<1>5. ASSUME NEW t \in due, FireTimer(t)
      PROVE  OwnersLive'
  <2>1. t \in armed /\ t.ctx \in live
    BY DEF TypeOK, OwnersLive
  <2>2. UNCHANGED live /\ Script(t.ctx, jobs, Fired(t))
    BY <1>5, <2>1 DEF FireTimer
  <2>3. /\ jobs \in Seq(Job) /\ Fired(t) \in SUBSET Timer
        /\ \A u \in Fired(t) : u.ctx \in live
    BY DEF TypeOK, Fired, OwnersLive
  <2>4. QED
    BY <2>1, <2>2, <2>3, ScriptOwners DEF OwnersLive
<1>6. QED
  BY <1>1, <1>2, <1>3, <1>4, <1>5
  DEF Next, HostNext, LoopNext, vars, GetException, EnableRunloop, EnterLoop,
      SkipObserver, FlushEnds, ObserversDone, TimersDone, WakeForTimers,
      WakeForHost

\* If Swift keeps a JSContext until it has neither jobs nor timers, no
\* callback of the run loop uses a freed object, whatever other contexts do
\* on the same runtime.
THEOREM QuiescentReleaseIsSafe ==
    ASSUME ~EarlyRelease
    PROVE  Spec => []NoDanglingUse
<1>1. Init => OwnersLive
  BY DEF Init, OwnersLive
<1>2. TypeOK /\ OwnersLive /\ [Next]_vars => OwnersLive'
  BY OwnersStep
<1>3. OwnersLive => NoDanglingUse
  BY DEF OwnersLive, NoDanglingUse
<1>4. QED
  BY <1>1, <1>2, <1>3, TypeCorrect, PTL DEF Spec

=============================================================================
