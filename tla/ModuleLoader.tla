---------------------------- MODULE ModuleLoader ----------------------------
(***************************************************************************)
(* The modules of one JSContext: ctx->loaded_modules in the engine, the    *)
(* dictionary JSContext.modules in Swift, and JSContext.module,            *)
(* JSModule.function, JSContext.eval(type: .module) and import() which     *)
(* work on them.                                                           *)
(*                                                                         *)
(* The engine brings a module from its text to its evaluation in four      *)
(* depth-first traversals of the import graph: resolve (load), create the  *)
(* variables, link, evaluate.  Only the last runs JavaScript; a native     *)
(* function called there may evaluate another module.  The C call stack is *)
(* the variable "stack"; a failure unwinds it, freeing definitions on the  *)
(* way.  A definition is known by the address it was allocated at, and     *)
(* addresses are not reused, so that a use of a freed one can be told.     *)
(* They grow in the order of allocation, which is the order of the list of *)
(* loaded modules: the list is the set of the addresses in it.             *)
(***************************************************************************)
EXTENDS Naturals, Sequences, FiniteSetsExt

CONSTANTS
    Natives,      \* names of modules that Swift can register
    Files,        \* names that js_module_loader can load
    OtherNames,   \* names that cannot be loaded, or whose text has an error
    Texts,        \* possible contents of the files: sets of import lists
    RootTexts,    \* possible import lists of a script given to eval
    MaxDefs,      \* bound: module definitions allocated
    MaxDepth,     \* bound: evaluations nested in one another
    Reentrant     \* do native functions call eval(type: .module)?

Root == "<Swift>"    \* the file name JSContext.eval gives
Names == Natives \cup Files \cup OtherNames
Addr == 1..MaxDefs

ASSUME NamesAssumption ==
    /\ Natives \cap Files = {}
    /\ (Natives \cup Files) \cap OtherNames = {}
    /\ Root \notin Names

ASSUME TextsAssumption ==
    /\ Texts \subseteq [Files -> Seq(Names)]
    /\ RootTexts \subseteq Seq(Names)

ASSUME BoundsAssumption == MaxDefs \in Nat /\ MaxDepth \in Nat

VARIABLES
    text,      \* the contents of the files
    def,       \* the module definitions, by address
    loaded,    \* ctx->loaded_modules
    nextDef,   \* next address to allocate
    swift,     \* the keys of JSContext.modules
    stack,     \* frames of the traversals under way, the last one on top
    failing,   \* the frame on top has just returned an error
    ran,       \* history: how often each module's code has been run
    fault      \* a freed definition or a missing variable has been used

vars == <<text, def, loaded, nextDef, swift, stack, failing, ran, fault>>

(***************************************************************************)
(* JSModuleDef.  req are the names of the requested modules and tgt the    *)
(* definitions found for them (0 before resolution).  flags are the flags  *)
(* that are set: resolved, func_created, instantiated, eval_mark,          *)
(* evaluated, eval_has_exception; and two of the model: "exported" when    *)
(* Swift has set the exports, "unbound" when some export entry has no      *)
(* variable although the variables were created.                           *)
(***************************************************************************)
Flags == {"resolved", "created", "linked", "mark", "evaluated", "exc",
          "exported", "unbound"}

NewDef(name, imports) ==
    [name |-> name, req |-> imports, tgt |-> [i \in DOMAIN imports |-> 0],
     flags |-> {}]

NoDef == NewDef("none", <<>>)

\* A frame: the traversal, its module, the next request to look at, and
\* whether the frame is to free the module when it fails.
Frame(op, m, owned) == [op |-> op, mod |-> m, i |-> 1, owned |-> owned]

Top == stack[Len(stack)]
Below == SubSeq(stack, 1, Len(stack) - 1)

\* Faulty variant of Advanced: the loop does not advance.
NotAdvanced == Append(Below, Top)

\* The loops over req_module_entries: the frame on top moves on.
Advanced == Append(Below, [Top EXCEPT !.i = @ + 1])
IsNative(m) == def[m].name \in Natives
Has(m, flag) == flag \in def[m].flags

\* Faulty variant of js_find_loaded_module: only evaluated modules count.
FindEvaluated(name) ==
    LET hits == {m \in loaded : def[m].name = name /\ Has(m, "evaluated")}
    IN  IF hits = {} THEN 0 ELSE Min(hits)

\* js_find_loaded_module: the first definition of that name, or 0.
js_find_loaded_module(name) ==
    LET hits == {m \in loaded : def[m].name = name}
    IN  IF hits = {} THEN 0 ELSE Min(hits)

\* js_free_module_def
Without(m) == loaded \ {m}

\* Faulty variant of js_free_modules: JS_FREE_MODULE_NOT_RESOLVED.
FreeNotResolved == {m \in loaded : Has(m, "resolved")}

\* js_free_modules(ctx, JS_FREE_MODULE_NOT_EVALUATED)
js_free_modules == {m \in loaded : Has(m, "evaluated")}

\* Swift or JavaScript code is running: nothing is on the stack, or the code
\* of a module that may call native functions.
Depth == Cardinality({i \in DOMAIN stack : stack[i].op = "base"})
AtRest == stack = <<>>
InCode ==
    /\ ~fault
    /\ IF AtRest THEN TRUE
       ELSE Reentrant /\ ~failing /\ Top.op = "body" /\ Depth < MaxDepth

\* An evaluation starts only if the addresses suffice for all it may load.
RoomForFiles == nextDef + Cardinality(Files) <= MaxDefs

Use(m) == fault' = (fault \/ m \notin loaded)

-----------------------------------------------------------------------------
(***************************************************************************)
(* Operations of the application.                                          *)
(***************************************************************************)

\* JSContext.module: JS_NewCModule, the exports of the builder, the
\* dictionary.  Nothing looks for a module of the same name.
Module(n) ==
    /\ ~fault /\ AtRest
    /\ nextDef \in Addr
    /\ def' = [def EXCEPT ![nextDef] = NewDef(n, <<>>)]
    /\ loaded' = loaded \cup {nextDef}
    /\ swift' = swift \cup {nextDef}
    /\ nextDef' = nextDef + 1
    /\ UNCHANGED <<text, stack, failing, ran, fault>>

\* JSModule.function: one more export entry.  Variables for the entries are
\* only made when the module is first imported.  Nothing tells a JSModule
\* that the engine has freed its definition.
Function(m) ==
    /\ ~fault /\ AtRest
    /\ m \in swift
    /\ Use(m)
    /\ def' = IF Has(m, "created") THEN [def EXCEPT ![m].flags = @ \cup {"unbound"}]
              ELSE def
    /\ UNCHANGED <<text, loaded, nextDef, swift, stack, failing, ran>>

\* Start of __JS_EvalInternal for a module: the definition is put in the
\* list, its text parsed, and its requests resolved; "frames" are below.
Load(name, imports, frames) ==
    /\ nextDef \in Addr
    /\ def' = [def EXCEPT ![nextDef] = [NewDef(name, imports)
                                            EXCEPT !.flags = {"resolved"}]]
    /\ loaded' = loaded \cup {nextDef}
    /\ nextDef' = nextDef + 1
    /\ stack' = Append(frames, Frame("resolve", nextDef, TRUE))

\* JSContext.eval(type: .module)
Eval(imports) ==
    /\ InCode
    /\ RoomForFiles
    /\ Load(Root, imports, Append(stack, Frame("base", nextDef, FALSE)))
    /\ UNCHANGED <<text, swift, failing, ran, fault>>

\* js_dynamic_import_job: JS_RunModule.  A name that is neither loaded nor
\* loadable only rejects the promise.
Import(n) ==
    /\ ~fault /\ AtRest
    /\ LET m == js_find_loaded_module(n) IN
       \/ /\ m = 0
          /\ n \in Files
          /\ RoomForFiles
          /\ Load(n, text[n], <<Frame("base", nextDef, FALSE)>>)
       \/ /\ m # 0
          /\ stack' = <<Frame("base", m, FALSE)>>
                         \o IF Has(m, "resolved") THEN <<>>
                            ELSE <<Frame("resolve", m, FALSE)>>
          /\ def' = [def EXCEPT ![m].flags = @ \cup {"resolved"}]
          /\ UNCHANGED <<loaded, nextDef>>
    /\ UNCHANGED <<text, swift, failing, ran, fault>>

-----------------------------------------------------------------------------
(***************************************************************************)
(* The traversals.                                                         *)
(***************************************************************************)

\* The flag a traversal sets before it looks at the requests of a module.
FlagOf(op) ==
    CASE op = "resolve"  -> "resolved"
      [] op = "create"   -> "created"
      [] op = "link"     -> "linked"
      [] op = "evaluate" -> "mark"

\* The condition under which a traversal returns at once from module m.
Visited(op, m) == Has(m, FlagOf(op)) \/ (op = "evaluate" /\ Has(m, "evaluated"))

Marked(op, m) == [def EXCEPT ![m].flags = @ \cup {FlagOf(op)}]

\* Faulty variant of Visit: an exception of an earlier evaluation is lost.
VisitWithoutRethrow(op, m, frames) ==
    \/ /\ m \notin loaded
       /\ fault' = TRUE
       /\ UNCHANGED <<def, stack, failing>>
    \/ /\ m \in loaded /\ ~Visited(op, m)
       /\ stack' = Append(frames, Frame(op, m, FALSE))
       /\ def' = Marked(op, m)
       /\ UNCHANGED <<failing, fault>>
    \/ /\ m \in loaded /\ Visited(op, m)
       /\ stack' = frames
       /\ UNCHANGED <<def, failing, fault>>

\* A traversal is called for module m, "frames" being below.  Evaluating a
\* module whose code threw before throws the same exception again.
Visit(op, m, frames) ==
    \/ /\ m \notin loaded
       /\ fault' = TRUE
       /\ UNCHANGED <<def, stack, failing>>
    \/ /\ m \in loaded /\ ~Visited(op, m)
       /\ stack' = Append(frames, Frame(op, m, FALSE))
       /\ def' = Marked(op, m)
       /\ UNCHANGED <<failing, fault>>
    \/ /\ m \in loaded /\ Visited(op, m)
       /\ stack' = frames
       /\ failing' = (op = "evaluate" /\ ~Has(m, "mark") /\ Has(m, "exc"))
       /\ UNCHANGED <<def, fault>>

Running(op) == ~fault /\ ~AtRest /\ ~failing /\ Top.op = op

MoreRequests == Top.i <= Len(def[Top.mod].req)

\* js_resolve_module, one request: js_host_resolve_imported_module finds the
\* module in the list, or has js_module_loader compile it, which resolves its
\* own requests first (the request is then found in the list), or fails.
ResolveRequest ==
    /\ Running("resolve") /\ MoreRequests
    /\ LET name == def[Top.mod].req[Top.i]
           m == js_find_loaded_module(name)
       IN
       \/ /\ m # 0
          /\ def' = [def EXCEPT ![Top.mod].tgt[Top.i] = m,
                                ![m].flags = @ \cup {"resolved"}]
          /\ stack' = IF Has(m, "resolved") THEN Advanced
                      ELSE Append(Advanced, Frame("resolve", m, FALSE))
          /\ UNCHANGED <<loaded, nextDef, failing>>
       \/ /\ m = 0 /\ name \in Files
          /\ Load(name, text[name], stack)
          /\ UNCHANGED failing
       \/ /\ m = 0 /\ name \notin Files
          /\ failing' = TRUE
          /\ UNCHANGED <<def, loaded, nextDef, stack>>
    /\ UNCHANGED <<text, swift, ran, fault>>

\* One request in js_create_module_function, js_link_module and
\* js_evaluate_module.
NextRequest(op) ==
    /\ Running(op) /\ MoreRequests
    /\ Visit(op, def[Top.mod].tgt[Top.i], Advanced)
    /\ UNCHANGED <<text, loaded, nextDef, swift, ran>>

\* All requests are resolved, or have their variables.
TraversalDone ==
    /\ \E op \in {"resolve", "create"} : Running(op)
    /\ ~MoreRequests
    /\ stack' = Below
    /\ UNCHANGED <<text, def, loaded, nextDef, swift, failing, ran, fault>>

\* The rest of js_link_module.  A JavaScript module may import a name that
\* is not exported, which fails, or an export entry that has no variable.
LinkDone ==
    /\ Running("link") /\ ~MoreRequests
    /\ stack' = Below
    /\ \/ UNCHANGED <<failing, fault>>
       \/ ~IsNative(Top.mod) /\ failing' = TRUE /\ UNCHANGED fault
       \/ /\ \E i \in DOMAIN def[Top.mod].tgt :
                Has(def[Top.mod].tgt[i], "unbound")
          /\ fault' = TRUE
          /\ UNCHANGED failing
    /\ UNCHANGED <<text, def, loaded, nextDef, swift, ran>>

\* The C module init of js_evaluate_module: JSContext.JS_ModuleInit finds
\* the JSModule in the dictionary and sets all its exports.
InitNative ==
    /\ Running("evaluate") /\ ~MoreRequests
    /\ IsNative(Top.mod)
    /\ def' = [def EXCEPT ![Top.mod].flags =
                  (@ \ {"mark"}) \cup {"evaluated"}
                    \cup IF Top.mod \in swift THEN {"exported"} ELSE {}]
    /\ fault' = (fault \/ Has(Top.mod, "unbound"))
    /\ ran' = [ran EXCEPT ![Top.mod] = @ + 1]
    /\ stack' = Below
    /\ UNCHANGED <<text, loaded, nextDef, swift, failing>>

\* js_evaluate_module calls the function of a JavaScript module.
EnterBody ==
    /\ Running("evaluate") /\ ~MoreRequests
    /\ ~IsNative(Top.mod)
    /\ stack' = Append(Below, [Top EXCEPT !.op = "body"])
    /\ ran' = [ran EXCEPT ![Top.mod] = @ + 1]
    /\ UNCHANGED <<text, def, loaded, nextDef, swift, failing, fault>>

\* It returns or throws; the exception is kept in the definition.
LeaveBody ==
    /\ Running("body")
    /\ Use(Top.mod)
    /\ \E throws \in BOOLEAN :
          /\ def' = [def EXCEPT ![Top.mod].flags =
                        (@ \ {"mark"}) \cup {"evaluated"}
                          \cup IF throws THEN {"exc"} ELSE {}]
          /\ failing' = throws
    /\ stack' = Below
    /\ UNCHANGED <<text, loaded, nextDef, swift, ran>>

-----------------------------------------------------------------------------
(***************************************************************************)
(* JS_EvalFunctionInternal and JS_RunModule: the traversals in turn.       *)
(***************************************************************************)
Stages == <<"create", "link", "evaluate">>

NextStage ==
    /\ Running("base") /\ Top.i <= Len(Stages)
    /\ Visit(Stages[Top.i], Top.mod, Advanced)
    /\ UNCHANGED <<text, loaded, nextDef, swift, ran>>

EvalReturns ==
    /\ Running("base") /\ Top.i > Len(Stages)
    /\ stack' = Below
    /\ UNCHANGED <<text, def, loaded, nextDef, swift, failing, ran, fault>>

(***************************************************************************)
(* Failure.                                                                *)
(***************************************************************************)
Failing(op) == ~fault /\ ~AtRest /\ failing /\ Top.op = op

\* fail1 of __JS_EvalInternal: only the module being compiled is freed, not
\* the ones loaded for it.
UnwindResolve ==
    /\ Failing("resolve")
    /\ loaded' = IF Top.owned THEN Without(Top.mod) ELSE loaded
    /\ stack' = Below
    /\ UNCHANGED <<text, def, nextDef, swift, failing, ran, fault>>

\* A request failed to link.  (Creating the variables never fails.)
UnwindLink ==
    /\ Failing("link")
    /\ stack' = Below
    /\ UNCHANGED <<text, def, loaded, nextDef, swift, failing, ran, fault>>

\* Faulty variant of UnwindEvaluate: the importer counts as evaluated.
UnwindAsEvaluated ==
    /\ Failing("evaluate")
    /\ def' = [def EXCEPT ![Top.mod].flags = (@ \ {"mark"}) \cup {"evaluated"}]
    /\ stack' = Below
    /\ UNCHANGED <<text, loaded, nextDef, swift, failing, ran, fault>>

\* A request threw: the module is not evaluated and can be tried again.
UnwindEvaluate ==
    /\ Failing("evaluate")
    /\ def' = [def EXCEPT ![Top.mod].flags = @ \ {"mark"}]
    /\ stack' = Below
    /\ UNCHANGED <<text, loaded, nextDef, swift, failing, ran, fault>>

\* Faulty variant of EvalFails: a failure to load frees the others, too.
EvalFailsFreesAll ==
    /\ Failing("base")
    /\ loaded' = js_free_modules
    /\ stack' = Below
    /\ failing' = FALSE
    /\ UNCHANGED <<text, def, nextDef, swift, ran, fault>>

\* The exception reaches the caller of eval.  Unless loading failed, all
\* modules of the context that are not evaluated are freed.
EvalFails ==
    /\ Failing("base")
    /\ loaded' = IF Top.i = 1 THEN loaded ELSE js_free_modules
    /\ stack' = Below
    /\ failing' = FALSE
    /\ UNCHANGED <<text, def, nextDef, swift, ran, fault>>

-----------------------------------------------------------------------------
Init ==
    /\ text \in Texts
    /\ def = [a \in Addr |-> NoDef]
    /\ loaded = {}
    /\ nextDef = 1
    /\ swift = {}
    /\ stack = <<>>
    /\ failing = FALSE
    /\ ran = [a \in Addr |-> 0]
    /\ fault = FALSE

EngineNext ==
    \/ ResolveRequest
    \/ \E op \in {"create", "link", "evaluate"} : NextRequest(op)
    \/ TraversalDone
    \/ LinkDone
    \/ InitNative
    \/ EnterBody
    \/ LeaveBody
    \/ NextStage
    \/ EvalReturns
    \/ UnwindResolve
    \/ UnwindLink
    \/ UnwindEvaluate
    \/ EvalFails

AppNext ==
    \/ \E n \in Natives : Module(n)
    \/ \E m \in swift : Function(m)
    \/ \E imports \in RootTexts : Eval(imports)
    \/ \E n \in Names : Import(n)

Next == EngineNext \/ AppNext

Spec == Init /\ [][Next]_vars

\* The thread does not stop inside the engine.
FairSpec == Spec /\ WF_vars(EngineNext)

-----------------------------------------------------------------------------
(***************************************************************************)
(* Properties.                                                             *)
(***************************************************************************)

\* Type invariant of the module lists, the definitions and the call stack.
TypeOK ==
    /\ text \in Texts
    /\ nextDef \in 1..(MaxDefs + 1)
    /\ loaded \subseteq 1..(nextDef - 1)
    /\ swift \subseteq 1..(nextDef - 1)
    /\ def \in [Addr -> [name : Names \cup {Root, "none"}, req : Seq(Names),
                         tgt : Seq(0..MaxDefs), flags : SUBSET Flags]]
    /\ \A a \in Addr :
          /\ Len(def[a].tgt) = Len(def[a].req)
          /\ \A i \in DOMAIN def[a].tgt : def[a].tgt[i] < nextDef
    /\ stack \in Seq([op : {"base", "resolve", "create", "link", "evaluate", "body"},
                      mod : Addr, i : Nat \ {0}, owned : BOOLEAN])
    /\ \A j \in DOMAIN stack : stack[j].mod < nextDef
    /\ failing \in BOOLEAN
    /\ ran \in [Addr -> Nat]
    /\ fault \in BOOLEAN

\* A frame has its definition: it is one of "list", or the frame is that of
\* an evaluation that has not come past loading.
HasModule(frame, list) ==
    frame.mod \in list \/ (frame.op = "base" /\ frame.i = 1)

\* An evaluation within another fails after loading.
NestedFailure == Failing("base") /\ Top.i > 1 /\ Len(stack) > 1

\* Native functions called by the code of a module evaluate other modules
\* while js_evaluate_module has frames of its own on the stack.  Whatever
\* they load, link and evaluate, whatever of it fails to load, no step takes
\* the definition of a frame away, or makes a frame for one that is freed.
\* The one exception is the step the code has for a failure after loading:
\* js_free_modules then frees what the evaluations outside have on the stack.
FramesKeepModules ==
    [][\A j \in DOMAIN stack' :
          \/ HasModule(stack'[j], loaded')
          \/ j \in DOMAIN stack /\ ~HasModule(stack[j], loaded)
          \/ NestedFailure]_vars

\* File or module a imports b, directly or through others: every set with a
\* and all that its members import has b.
Reaches(a, b) ==
    \A S \in SUBSET Names :
        (a \in S /\ \A f \in S \cap Files : \A i \in DOMAIN text[f] : text[f][i] \in S)
            => b \in S

\* What a failed load or a failed evaluation leaves in the list: a module
\* keeps a pointer (JSReqModuleEntry.module) to a freed one only if that one
\* imports it in turn, directly or through others.  js_free_modules and fail1
\* of __JS_EvalInternal look at no importers; without a circle it is safe.
RequestsLoaded ==
    /\ TypeOK
    /\ \A m \in loaded : \A i \in DOMAIN def[m].tgt :
          \/ def[m].tgt[i] \in loaded \cup {0}
          \/ Reaches(def[def[m].tgt[i]].name, def[m].name)

\* js_host_resolve_imported_module never loads a file that is in the list:
\* importers of one name share one definition, hence one state.
OneDefinitionPerFile ==
    \A m, n \in loaded :
        def[m].name = def[n].name /\ def[m].name \in Files => m = n

\* Evaluated without exception, with the exports that Swift provides.
Succeeded(m) ==
    Has(m, "evaluated") /\ ~Has(m, "exc") /\ (IsNative(m) => Has(m, "exported"))

\* js_evaluate_module runs the code of a module when all that it imports has
\* been evaluated without exception, except what imports it in turn, and runs
\* it once only, however often the module is imported and evaluations fail in
\* between.
EvaluatedAfterImports ==
    \A m \in Addr :
        /\ ran[m] <= 1
        /\ ran[m] = 1 =>
              \A i \in DOMAIN def[m].tgt :
                  \/ Succeeded(def[m].tgt[i])
                  \/ Reaches(def[def[m].tgt[i]].name, def[m].name)

\* When no evaluation is under way no module is left half-way: one that has
\* variables or is linked has been evaluated, and eval_mark is clear.
NothingHalfDone ==
    AtRest => \A m \in loaded :
        /\ Has(m, "created") \/ Has(m, "linked") => Has(m, "evaluated")
        /\ ~Has(m, "mark")

\* Every evaluation comes to an end, import cycles or not (unless a freed
\* definition is used, after which nothing can be said).
EvaluationEnds == []<>(AtRest \/ fault)

=============================================================================
