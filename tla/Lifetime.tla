------------------------------ MODULE Lifetime ------------------------------
(***************************************************************************)
(* Who keeps what alive.  On the Swift side, reference counting: a         *)
(* JSContext owns a JSContextWrapper ("core"), its JSRuntime and its       *)
(* JSModules; every JSValue, JSModule and timer closure owns the wrapper   *)
(* but not the runtime.  On the engine's side, JS_FreeContext runs when    *)
(* the wrapper goes and JS_FreeRuntime when the JSRuntime goes, and the    *)
(* latter asserts that no object is left.                                  *)
(*                                                                         *)
(* When a JSContext is deallocated its stored properties are released in   *)
(* the order of their declaration, which is visible here: core, runtime,   *)
(* modules.                                                                *)
(***************************************************************************)
EXTENDS Naturals

CONSTANTS
    Contexts,     \* the contexts the application may create
    MaxValues,    \* bound: JSValues of one context held at a time
    MaxTimers     \* bound: timers of one context armed at a time

ASSUME BoundsAssumption == MaxValues \in Nat /\ MaxTimers \in Nat

VARIABLES
    runtime,      \* "alive", or "freed": JS_FreeRuntime has run
    hostRuntime,  \* the application holds the JSRuntime
    pc,           \* per context: see Stages
    values,       \* per context: JSValues held by the application
    timers,       \* per context: timer closures held by the run loop
    handle,       \* per context: the application holds a JSModule of it
    module,       \* per context: the state of that module
    leaked,       \* per context: a function object nobody will free
    aborted       \* the assertion of JS_FreeRuntime has failed

vars == <<runtime, hostRuntime, pc, values, timers, handle, module, leaked,
          aborted>>

(***************************************************************************)
(* The stages of a JSContext: not yet created, alive, and the stages of    *)
(* its deallocation, named after the property released last.               *)
(***************************************************************************)
Stages == {"none", "alive", "core", "runtime", "dead"}

\* The JSContext object holds its JSRuntime.
HoldsRuntime(c, p) == p[c] \in {"alive", "core"}

\* A JSModule lives while the JSContext's dictionary or the application
\* holds it.
ModuleAlive(c, p, h) == p[c] \in {"alive", "core", "runtime"} \/ h[c]

\* Faulty variant of WrapperHeld: core is declared behind runtime, so that the
\* JSContext gives the runtime back first.
WrapperHeldLonger(c, p, h, m, v, t) ==
    \/ p[c] \in {"alive", "core", "runtime"}
    \/ m[c] # "none" /\ ModuleAlive(c, p, h)
    \/ v[c] > 0
    \/ t[c] > 0

\* Someone owns the JSContextWrapper, so that JS_FreeContext has not run.
WrapperHeld(c, p, h, m, v, t) ==
    \/ p[c] = "alive"
    \/ m[c] # "none" /\ ModuleAlive(c, p, h)
    \/ v[c] > 0
    \/ t[c] > 0

Unwinding == \E c \in Contexts : pc[c] \in {"core", "runtime"}

\* Application code runs: nothing is being deallocated.
HostRuns == ~aborted /\ ~Unwinding

(***************************************************************************)
(* The effects of a change of the owners, given their new values.          *)
(***************************************************************************)

\* JSFunction is created with autoFree: false; its engine value is handed
\* over by JSModule.load only.  When the JSModule goes before that, the
\* function object stays for ever.
LeakedBy(p, h) ==
    [c \in Contexts |->
        leaked[c] \/ ( /\ module[c] = "registered"
                       /\ ModuleAlive(c, pc, handle)
                       /\ ~ModuleAlive(c, p, h) )]

\* The assertion of JS_FreeRuntime: list_empty(&rt->gc_obj_list), after the
\* last collection.  A context whose wrapper is held and a leaked function
\* object are in that list.
Assertion(p, h, v, t, lk) ==
    \A c \in Contexts :
        ~WrapperHeld(c, p, h, module, v, t) /\ ~lk[c]

\* deinit of JSRuntime, if the new owners make it happen.
Deinit(hr, p, h, v, t) ==
    LET lk == LeakedBy(p, h)
        last == runtime = "alive" /\ ~hr
                /\ \A c \in Contexts : ~HoldsRuntime(c, p)
    IN  /\ leaked' = lk
        /\ runtime' = IF last THEN "freed" ELSE runtime
        /\ aborted' = (last /\ ~Assertion(p, h, v, t, lk))

-----------------------------------------------------------------------------
\* JSRuntime.createContext
CreateContext(c) ==
    /\ HostRuns
    /\ hostRuntime
    /\ pc[c] = "none"
    /\ pc' = [pc EXCEPT ![c] = "alive"]
    /\ UNCHANGED <<runtime, hostRuntime, values, timers, handle, module,
                   leaked, aborted>>

\* JSContext.eval or call returns a JSValue, which the application keeps.
KeepValue(c) ==
    /\ HostRuns
    /\ pc[c] = "alive"
    /\ values[c] < MaxValues
    /\ values' = [values EXCEPT ![c] = @ + 1]
    /\ UNCHANGED <<runtime, hostRuntime, pc, timers, handle, module, leaked, aborted>>

\* A JSValue goes: JS_FreeValue, and the wrapper may follow.
DropValue(c) ==
    /\ HostRuns
    /\ values[c] > 0
    /\ values' = [values EXCEPT ![c] = @ - 1]
    /\ Deinit(hostRuntime, pc, handle, values', timers)
    /\ UNCHANGED <<hostRuntime, pc, timers, handle, module>>

\* JSContext.module: the result is kept or discarded.
Module(c) ==
    /\ HostRuns
    /\ pc[c] = "alive"
    /\ module[c] = "none"
    /\ module' = [module EXCEPT ![c] = "registered"]
    /\ \E kept \in BOOLEAN : handle' = [handle EXCEPT ![c] = kept]
    /\ UNCHANGED <<runtime, hostRuntime, pc, values, timers, leaked, aborted>>

\* A script imports the module: JSModule.load hands its functions over.
ImportModule(c) ==
    /\ HostRuns
    /\ pc[c] = "alive"
    /\ module[c] = "registered"
    /\ module' = [module EXCEPT ![c] = "imported"]
    /\ UNCHANGED <<runtime, hostRuntime, pc, values, timers, handle, leaked, aborted>>

\* JSModule.function after the import: load will not run again.
LateFunction(c) ==
    /\ HostRuns
    /\ module[c] = "imported"
    /\ ModuleAlive(c, pc, handle)
    /\ leaked' = [leaked EXCEPT ![c] = TRUE]
    /\ UNCHANGED <<runtime, hostRuntime, pc, values, timers, handle, module,
                   aborted>>

\* The application drops the JSModule it kept.
DropHandle(c) ==
    /\ HostRuns
    /\ handle[c]
    /\ handle' = [handle EXCEPT ![c] = FALSE]
    /\ Deinit(hostRuntime, pc, handle', values, timers)
    /\ UNCHANGED <<hostRuntime, pc, values, timers, module>>

\* JSRunloop.scheduleTimer: the closure holds the wrapper and a function.
ScheduleTimer(c) ==
    /\ HostRuns
    /\ pc[c] = "alive"
    /\ module[c] = "imported"
    /\ timers[c] < MaxTimers
    /\ timers' = [timers EXCEPT ![c] = @ + 1]
    /\ UNCHANGED <<runtime, hostRuntime, pc, values, handle, module, leaked, aborted>>

\* The timer has fired and the run loop releases its closure.
ReleaseTimer(c) ==
    /\ HostRuns
    /\ timers[c] > 0
    /\ timers' = [timers EXCEPT ![c] = @ - 1]
    /\ Deinit(hostRuntime, pc, handle, values, timers')
    /\ UNCHANGED <<hostRuntime, pc, values, handle, module>>

\* The application drops its JSRuntime.
DropRuntime ==
    /\ HostRuns
    /\ hostRuntime
    /\ hostRuntime' = FALSE
    /\ Deinit(FALSE, pc, handle, values, timers)
    /\ UNCHANGED <<pc, values, timers, handle, module>>

(***************************************************************************)
(* Deallocation of a JSContext, one stored property at a time.             *)
(***************************************************************************)
\* The last reference to the JSContext goes; the first property: core.
DropContext(c) ==
    /\ HostRuns
    /\ pc[c] = "alive"
    /\ pc' = [pc EXCEPT ![c] = "core"]
    /\ Deinit(hostRuntime, pc', handle, values, timers)
    /\ UNCHANGED <<hostRuntime, values, timers, handle, module>>

\* The second property: deinit of the JSRuntime if this was its last owner.
ReleaseRuntime(c) ==
    /\ ~aborted
    /\ pc[c] = "core"
    /\ pc' = [pc EXCEPT ![c] = "runtime"]
    /\ Deinit(hostRuntime, pc', handle, values, timers)
    /\ UNCHANGED <<hostRuntime, values, timers, handle, module>>

\* The third property: the dictionary of modules, and their wrappers.
ReleaseModules(c) ==
    /\ ~aborted
    /\ pc[c] = "runtime"
    /\ pc' = [pc EXCEPT ![c] = "dead"]
    /\ Deinit(hostRuntime, pc', handle, values, timers)
    /\ UNCHANGED <<hostRuntime, values, timers, handle, module>>

-----------------------------------------------------------------------------
Init ==
    /\ runtime = "alive"
    /\ hostRuntime = TRUE
    /\ pc = [c \in Contexts |-> "none"]
    /\ values = [c \in Contexts |-> 0]
    /\ timers = [c \in Contexts |-> 0]
    /\ handle = [c \in Contexts |-> FALSE]
    /\ module = [c \in Contexts |-> "none"]
    /\ leaked = [c \in Contexts |-> FALSE]
    /\ aborted = FALSE

Next ==
    \/ DropRuntime
    \/ \E c \in Contexts :
          \/ CreateContext(c)
          \/ KeepValue(c)
          \/ DropValue(c)
          \/ Module(c)
          \/ ImportModule(c)
          \/ LateFunction(c)
          \/ DropHandle(c)
          \/ ScheduleTimer(c)
          \/ ReleaseTimer(c)
          \/ DropContext(c)
          \/ ReleaseRuntime(c)
          \/ ReleaseModules(c)

Spec == Init /\ [][Next]_vars

-----------------------------------------------------------------------------
\* Type invariant of the owners.
TypeOK ==
    /\ runtime \in {"alive", "freed"}
    /\ hostRuntime \in BOOLEAN
    /\ pc \in [Contexts -> Stages]
    /\ values \in [Contexts -> 0..MaxValues]
    /\ timers \in [Contexts -> 0..MaxTimers]
    /\ handle \in [Contexts -> BOOLEAN]
    /\ module \in [Contexts -> {"none", "registered", "imported"}]
    /\ leaked \in [Contexts -> BOOLEAN]
    /\ aborted \in BOOLEAN

\* What assert(list_empty(&rt->gc_obj_list)) of JS_FreeRuntime can fail over: a value, a timer or a JSModule that
\* outlives the runtime, a function object that JSModule.load never handed over,
\* or the modules of the JSContext that gives the runtime back, which its
\* dictionary still holds at that moment.  It never fails over a JSContext
\* itself: each keeps its runtime and gives core back before it, in whatever
\* order the application drops the runtime and several contexts.
AbortsOnlyOverLeftovers ==
    aborted => \E c \in Contexts :
                  \/ values[c] > 0
                  \/ timers[c] > 0
                  \/ leaked[c]
                  \/ module[c] # "none" /\ (handle[c] \/ pc[c] = "runtime")

=============================================================================
