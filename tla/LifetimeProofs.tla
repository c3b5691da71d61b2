--------------------------- MODULE LifetimeProofs ---------------------------
(***************************************************************************)
(* Proofs about Lifetime, for every set of contexts and every application: *)
(* what the end of the runtime can find left over.                         *)
(***************************************************************************)
EXTENDS Lifetime, TLAPS

\* The variables that a deinit changes keep their types.
LEMMA DeinitType ==
    ASSUME TypeOK, NEW hr, NEW p, NEW h, NEW v, NEW t, Deinit(hr, p, h, v, t)
    PROVE  /\ runtime' \in {"alive", "freed"}
           /\ leaked' \in [Contexts -> BOOLEAN]
           /\ aborted' \in BOOLEAN
<1>1. leaked' \in [Contexts -> BOOLEAN]
  BY DEF Deinit, LeakedBy, TypeOK
<1>2. runtime' \in {"alive", "freed"}
  BY DEF Deinit, TypeOK
<1>3. aborted' \in BOOLEAN
  BY Zenon DEF Deinit
<1>4. QED
  BY <1>1, <1>2, <1>3

\* TypeOK is preserved by every step.
LEMMA TypeStep ==
    ASSUME TypeOK, [Next]_vars
    PROVE  TypeOK'
<1> USE BoundsAssumption
<1>1. CASE UNCHANGED vars
  BY <1>1 DEF vars, TypeOK
<1>2. CASE DropRuntime
  BY <1>2, DeinitType DEF DropRuntime, TypeOK
<1>3. ASSUME NEW c \in Contexts,
             \/ CreateContext(c) \/ KeepValue(c) \/ ImportModule(c)
             \/ ScheduleTimer(c) \/ LateFunction(c)
      PROVE  TypeOK'
  <2>1. CASE CreateContext(c)
    BY <2>1 DEF CreateContext, TypeOK, Stages
  <2>2. CASE KeepValue(c)
    BY <2>2 DEF KeepValue, TypeOK
  <2>3. CASE ImportModule(c)
    BY <2>3 DEF ImportModule, TypeOK
  <2>4. CASE ScheduleTimer(c)
    BY <2>4 DEF ScheduleTimer, TypeOK
  <2>5. CASE LateFunction(c)
    <3>1. leaked' \in [Contexts -> BOOLEAN]
      BY <2>5 DEF LateFunction, TypeOK
    <3>2. QED
      BY <2>5, <3>1 DEF LateFunction, TypeOK
  <2>6. QED
    BY <1>3, <2>1, <2>2, <2>3, <2>4, <2>5
<1>4. ASSUME NEW c \in Contexts, Module(c)
      PROVE  TypeOK'
  BY <1>4 DEF Module, TypeOK
<1>5. ASSUME NEW c \in Contexts, DropValue(c)
      PROVE  TypeOK'
  <2>1. values' \in [Contexts -> 0..MaxValues]
    BY <1>5 DEF DropValue, TypeOK
  <2>2. QED
    BY <1>5, <2>1, DeinitType DEF DropValue, TypeOK
<1>6. ASSUME NEW c \in Contexts, ReleaseTimer(c)
      PROVE  TypeOK'
  <2>1. timers' \in [Contexts -> 0..MaxTimers]
    BY <1>6 DEF ReleaseTimer, TypeOK
  <2>2. QED
    BY <1>6, <2>1, DeinitType DEF ReleaseTimer, TypeOK
<1>7. ASSUME NEW c \in Contexts, DropHandle(c)
      PROVE  TypeOK'
  BY <1>7, DeinitType DEF DropHandle, TypeOK
<1>8. ASSUME NEW c \in Contexts,
             DropContext(c) \/ ReleaseRuntime(c) \/ ReleaseModules(c)
      PROVE  TypeOK'
  <2>1. pc' \in [Contexts -> Stages]
    BY <1>8 DEF DropContext, ReleaseRuntime, ReleaseModules, TypeOK, Stages
  <2>2. /\ Deinit(hostRuntime, pc', handle, values, timers)
        /\ UNCHANGED <<hostRuntime, values, timers, handle, module>>
    BY <1>8 DEF DropContext, ReleaseRuntime, ReleaseModules
  <2>3. QED
    BY <2>1, <2>2, DeinitType DEF TypeOK
<1>9. QED
  BY <1>1, <1>2, <1>3, <1>4, <1>5, <1>6, <1>7, <1>8 DEF Next

\* Spec implies the type invariant.
THEOREM TypeCorrect == Spec => []TypeOK
<1>1. Init => TypeOK
  <2>1. SUFFICES ASSUME Init PROVE TypeOK
    OBVIOUS
  <2>2. /\ values \in [Contexts -> 0..MaxValues]
        /\ timers \in [Contexts -> 0..MaxTimers]
    BY <2>1, BoundsAssumption DEF Init
  <2>3. pc \in [Contexts -> Stages]
    BY <2>1 DEF Init, Stages
  <2>4. /\ handle \in [Contexts -> BOOLEAN]
        /\ leaked \in [Contexts -> BOOLEAN]
    BY <2>1 DEF Init
  <2>5. /\ hostRuntime \in BOOLEAN
        /\ aborted \in BOOLEAN
    BY <2>1, Zenon DEF Init
  <2>6. /\ runtime \in {"alive", "freed"}
        /\ module \in [Contexts -> {"none", "registered", "imported"}]
    BY <2>1 DEF Init
  <2>7. QED
    BY <2>2, <2>3, <2>4, <2>5, <2>6 DEF TypeOK
<1>2. TypeOK /\ [Next]_vars => TypeOK'
  BY TypeStep
<1>3. QED
  BY <1>1, <1>2, PTL DEF Spec

-----------------------------------------------------------------------------
\* JS_FreeRuntime can fail its assertion over leftovers only: when it runs, no
\* JSContext holds the runtime any more, so each has given core back.
LEMMA DeinitLeavesOvers ==
    ASSUME TypeOK, ~aborted,
           Deinit(hostRuntime', pc', handle', values', timers'),
           module' = module, pc' \in [Contexts -> Stages],
           aborted'
    PROVE  \E c \in Contexts :
              \/ values'[c] > 0
              \/ timers'[c] > 0
              \/ leaked'[c]
              \/ module'[c] # "none" /\ (handle'[c] \/ pc'[c] = "runtime")
<1>1. /\ \A c \in Contexts : ~HoldsRuntime(c, pc')
      /\ ~Assertion(pc', handle', values', timers', leaked')
  BY DEF Deinit
<1>2. PICK c \in Contexts :
          WrapperHeld(c, pc', handle', module, values', timers') \/ leaked'[c]
  BY <1>1 DEF Assertion
<1>3. pc'[c] \notin {"alive", "core"}
  BY <1>1 DEF HoldsRuntime
<1>4. QED
  BY <1>2, <1>3 DEF WrapperHeld, ModuleAlive

\* Once the process has been aborted nothing happens any more.
LEMMA AbortIsFinal ==
    ASSUME aborted
    PROVE  ~Next
BY DEF Next, HostRuns, DropRuntime, CreateContext, KeepValue, DropValue, Module,
       ImportModule, LateFunction, DropHandle, ScheduleTimer, ReleaseTimer,
       DropContext, ReleaseRuntime, ReleaseModules

\* AbortsOnlyOverLeftovers is preserved by every step.
LEMMA LeftoversStep ==
    ASSUME TypeOK, TypeOK', AbortsOnlyOverLeftovers, [Next]_vars
    PROVE  AbortsOnlyOverLeftovers'
<1>1. CASE UNCHANGED vars
  BY <1>1 DEF vars, AbortsOnlyOverLeftovers
<1>2. CASE Next
  <2>1. ~aborted
    BY <1>2, AbortIsFinal
  <2>2. ASSUME NEW c \in Contexts,
               \/ CreateContext(c) \/ KeepValue(c) \/ Module(c)
               \/ ImportModule(c) \/ LateFunction(c) \/ ScheduleTimer(c)
        PROVE  ~aborted'
    BY <2>1, <2>2 DEF CreateContext, KeepValue, Module, ImportModule,
                      LateFunction, ScheduleTimer
  <2>3. ASSUME \/ DropRuntime
               \/ \E c \in Contexts :
                     \/ DropValue(c) \/ ReleaseTimer(c) \/ DropHandle(c)
                     \/ DropContext(c) \/ ReleaseRuntime(c) \/ ReleaseModules(c)
        PROVE  /\ Deinit(hostRuntime', pc', handle', values', timers')
               /\ module' = module
    BY <2>3 DEF DropRuntime, DropValue, ReleaseTimer, DropHandle, DropContext,
                ReleaseRuntime, ReleaseModules
  <2>4. QED
    BY <1>2, <2>1, <2>2, <2>3, DeinitLeavesOvers
       DEF Next, TypeOK, AbortsOnlyOverLeftovers
<1>3. QED
  BY <1>1, <1>2

\* Whatever the application does and in whatever order it lets go, the assertion
\* of JS_FreeRuntime fails only over what AbortsOnlyOverLeftovers names, never
\* over a JSContext, which keeps its JSRuntime until core has been released.
THEOREM ContextsNeverAbort == Spec => []AbortsOnlyOverLeftovers
<1>1. Init => AbortsOnlyOverLeftovers
  BY DEF Init, AbortsOnlyOverLeftovers
<1>2. TypeOK /\ TypeOK' /\ AbortsOnlyOverLeftovers /\ [Next]_vars
        => AbortsOnlyOverLeftovers'
  BY LeftoversStep
<1>3. QED
  BY <1>1, <1>2, TypeCorrect, PTL DEF Spec

=============================================================================
